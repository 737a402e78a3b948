# Verification of the kernel and its boot loader

This directory holds TLA+ models of the x86-64 teaching kernel in `kernel/`, its applications in
`apps/` and its UEFI boot loader in `bootloader/`, TLC configurations that check them on small
instances, and TLAPS proofs. Run `tlc -config X.cfg MC<Module>` or `tlapm <Module>_proofs.tla` here;
`PROJECT.json` lists every run, maps every definition to its source lines and lists the hazards the
properties are aimed at.

## 1. The system

| Part | Source | State | Operations |
|---|---|---|---|
| Boot loader | `bootloader/bootloader.c`, `elf.c`, `file.c`, `memory.c` | open files, `head`, `bss_start`, memory map key | `efi_main`, `loadelf`, `load_file`, `exit_boot_services`; `ap_sum` on the application processors |
| Scheduler | `kernel/sched.c` | `tasks[]` (sp, cr3), `cur_task` | `init_tasks`, `start_task0`, `schedule` |
| Interrupts | `kernel/interrupt.c`, `interrupt_handler.S` | IDT, the frames on the stacks, IF | `init_intr`; entries for timer, system call, page fault |
| LAPIC timer | `kernel/lapic_timer.c` | frequency, `reserved_callback`, LAPIC registers | `measure_lapic_freq_khz`, `lapic_periodic_exec`, `lapic_intr_handler_internal` |
| System calls | `kernel/syscall.c` | none | `syscall_handler_internal` (puts) |
| Applications | `apps/` | their stacks | an endless loop of puts, a memory access, a delay |
| Virtual memory | `kernel/memory.c` | PML4s, PDPs, PDs, PTs, `task_cr3s` | `init_virtual_memory`, `page_fault_handler_internal` |
| Terminal | `kernel/util.c` | `terminal_buf`, `cur_line`, `cur_pos_in_line`, the pixels | `init_draw`, `putc`, `puts`, `puth` |
| Network driver | `kernel/virtio.c` | two virtqueues, `receive_head`, buffers, device registers | `init_virtio`, `send_packet`, `receive_packet` |
| PM timer | `kernel/pm_timer.c` | port and width | `init_acpi_pm_timer`, `pm_timer_wait_millisec` |
| Kernel start | `kernel/kernel.c` | none | `start` |

The parts interact as follows. The boot loader puts the kernel at 0x100000000 and the applications
at 0x104000000, 0x105000000 and 0x106000000, and jumps. `start()` builds the page tables, installs
the gates, sets up terminal and timers, runs the network test, measures the LAPIC frequency against
the PM timer and starts multitasking. From then on control passes by interrupts only: applications
call `puts` through `int 0x80`, page faults map one additional page for application 1 or stop the
machine, and the LAPIC timer calls `schedule()`, whose result the assembly entry uses to change
stack and address space. Everything runs in ring 0, so every frame lies on the interrupted task's
own stack, in memory whose meaning depends on cr3.

**The commit.** `start()` has the multitasking block commented out (`kernel/kernel.c:52-60`): this
commit ends after the network test and the frequency measurement. The scheduler, the handlers and the
applications are still built and loaded. `Sched` models `start()` with the block enabled, as the
earlier reports describe it (`reports/report9-b.txt`, `report10-b.txt`).

What is hard here: timer interrupts at any instruction with frames written below a live stack
pointer; stack pointers that mean different memory under different cr3; a device that reads and
writes rings while the driver fills them; counters polled while they wrap; firmware that reads short
or changes the memory map; several processors on one variable; a terminal buffer of NUL-terminated
rows that is shifted in place. What makes each part correct is section 3.

## 2. Modules

| Module | Models | Depends on |
|---|---|---|
| `KernelOutput` | the strings printed and the terminal line, as far as the two below distinguish them | |
| `Multitasking` | abstract: every application a sequential program of its own, round robin, messages whole | `KernelOutput` |
| `Sched` | `start()`, scheduler, interrupt entries, LAPIC interrupt, system call, page fault, applications | `KernelOutput`, implements `Multitasking` |
| `PmTimer` | the polling wait of `pm_timer_wait_millisec()` | |
| `LapicTimer` | measuring the LAPIC timer against that wait, and programming it | extends `PmTimer` |
| `Paging` | the page tables with the real addresses, MMU walk, fault handler | |
| `Terminal` | the terminal buffer and screen | |
| `PacketPort` | abstract: messages sent as given, frames shown once and in order | |
| `VirtioNet` | PCI probing, negotiation, virtqueues, send and receive, and the device | implements `PacketPort` |
| `Handover` | abstract: one kernel with the applications of its volume is started, or nothing is | |
| `BootLoader` | `efi_main()`, `ap_sum()` | implements `Handover` |
| `*_proofs`, `Sched_refinement` | theorems and proofs about the module of that name | |
| `MC*` | constants for TLC | |

`Sched` composes what the other modules detail. It and `Paging` share the fault handler and split its
two aspects. `Paging` has the entry it
writes and the translation it produces; `Sched` abstracts an address space to whether the additional
page is mapped (`mapped`) and has the interrupt, the printing and the interleaving. `Sched` and
`Terminal` share `putc()`: `Sched` keeps only the current line, to see whether messages mix.
`LapicTimer` decides what `Measure`, `SetCallback` and `ArmTimer` of `Sched` take as one step each: a
frequency that is 0 or right, a callback that is set before any tick, and ticks that keep coming.

A definition named for a mistake and not used by its module (`SavedTooLate`, `NoEoi`, `BreaksLate`,
`PtIndexUnreduced`, ...) is the form of the definition behind it under a plausible bug. Replacing one
by the other makes the property it is listed with fail: this is how we know each property depends
on the code.

How state and actions correspond:

* **Sched.** `cpu` holds the registers an interrupt frame saves, cut down to program counter, stack
  pointer, IF, rsi and a loop index. `mem` is memory by stack cell: a cell holds a frame or the copy
  of `str` in `syscall_puts()`. `Phys` is the translation: the kernel stack is the same everywhere,
  an application address belongs to the space in `cr3`. `start()` is followed from `init_intr()` on:
  ACPI, the system call it makes itself, the network test, the measurement, the tasks. `InitTasks`,
  `SetCallback`, `ArmTimer` and the four steps of `StartTask0` are separate because IF is set while
  they run. `Tick` is the whole
  of `lapic_intr_handler`: its gate clears IF and it prints nothing. System call and fault handler
  take a step per character, so that a tick could come between if the gate let it.
* **Paging.** A page table is the run of entries its loop fills. Every index is computed with the
  source's own expression, including the two that are right only for these addresses (lines 110 and
  121). A store changes the entry its index names, in the table or behind it (`Stored`), and a loop
  fills `count` entries from `first` on wherever that ends: `TypeOK` says that neither leaves a table.
  ASSERTs over constants hold and are left out.
* **Terminal.** The buffer is characters in rows with NULs, exactly as in C; the screen is the set of
  glyphs drawn in each cell since the last `fill()`, since drawing sets pixels and clears none.
  `text` is a history variable: the lines a user expects to see.
* **VirtioNet.** `vq[q]` is the memory of a virtqueue (garbage until it is zeroed), `reg` the
  registers, `dev` what the device remembers. A PCI function is its ids and bit 0 of its BAR 0. Only
  that bit is tested of the function the driver goes on with, which is whatever answers at 0:0.0 when
  no virtio-net function was found: then the model's driver talks to another function, whose ports
  may answer anything, as the code's does. A store to a ring or a descriptor table goes where its index
  says, behind the end too (`Stored`), and the 16-bit indices wrap (`Succ`). `call` counts the calls
  made. The message is a value: the ASSERT on its length (`kernel/virtio.c:215`), which the 128
  bytes of `init_virtio()` pass, is left out. Each driver step that the device could observe is an
  action, the two stores of `ring[idx++] = 0` come in either order, and `receive_packet()` reads
  `used.idx` twice. `UsedOffset` is the driver's `ALIGN` arithmetic with its real numbers and
  `DeviceUsedOffset` the device's. `init_virtio()` sends and receives once; the model's caller goes
  on. For that it has to wait until the device has used the last message (`TxFree`, external), which
  `send_packet()` does not do for it: it has one buffer and does not look at the used ring. Its index
  into the available ring is never reduced, so later sends store behind the ring (`Entry`).
* **PmTimer.** Times are in ticks. `Tick` is the timer, which goes on up to `MaxGap` times between
  two reads.
* **LapicTimer.** One action per register access. `Clock` is time: it ticks the ACPI timer once every
  `speed` and counts the LAPIC timer down once every `divide`. `Wait` is `PmTimer`'s `Start` or `Poll`.
  `wait` stands for the 1000 ms of the inner call and `Divisor` for the division by 1000.
* **BootLoader.** A byte of memory is known by where it was read from, so a gap, an overlap or a
  stale header is visible. `load_file()` is one action per `Read()`, of any length up to what was
  asked for. Of kernel.elf, `Segments` are the program headers and `Sections` the section headers that
  `getbss()` searches for `.bss`. `ap_sum()` runs on all application processors before that; load and store of
  `*sum = *sum + 1` are separate actions, since the loader is built without `-O`. To `Handover` all
  of that is one step: `Started` shows it the memory only once the loader jumps.

## 3. Runs

All runs check a type invariant unless they only ask one other question.

| Run | Shows |
|---|---|
| `sched_build` | The build of the Makefiles (with a red zone), three tasks. `SavedFrames`: what a suspended task's sp means under its own cr3 is the frame it was suspended with. `KernelNotPreempted`: no task is suspended inside the kernel, and none resumes with interrupts off. `OwnSpace`. `EveryTaskRuns` and `FaultResolved` are the liveness of round robin and of the additional page. |
| `sched_refines` | Without a red zone, with applications that also touch an unmapped page: `Refines`, the machine implements `Multitasking`; `LineIntegrity`, lines are whole; `FaultIsFinal`, nothing runs once a diagnosis has begun. |
| `sched_early_tick` | Finding, see section 5. |
| `sched_red_zone` | Finding. |
| `paging` | `TypeOK`: no store and no loop leaves its table. `Translates`: every task sees its 16 MiB, the kernel, the frame buffer and the LAPIC, and nothing else, but for the additional page of task 0. `Isolated`: no access reaches another task's memory, and only unpromised pages stop the kernel. `MappingAdds`: serving the fault takes no page from anyone. |
| `terminal` | `RowsTerminated`: no row is overrun. `TextKept`, `TextShown`: buffer and screen hold the last lines printed, for every text. |
| `terminal_scroll` | Finding. |
| `virtio` | With a virtio-net function at any slot, several, or none and another function, with or without an I/O BAR. `TypeOK`: no store leaves the descriptor table or reaches the used ring. `Negotiated`: DRIVER_OK only after everything was agreed, and for a virtio-net device if there is one. `NoStrayDma`: the device never follows an address that was not set up. `UnreadIntact`: frames wait unharmed. `NoWrap`: used.idx stays within the buffers offered. `ReceiveReturns`. `PortSpec`: the driver implements `PacketPort`. The calls are those of `init_virtio()`, followed by a caller that sends more often than the ring has entries and receives until the buffers are used up. |
| `timers` | `WaitsExactly`: a wait is never shorter than the request taken modulo the counter's period (a longer request is cut, one of 0 is a whole period), and less than a polling gap longer. `HalfPeriods`: the comment on `get_timer_half_state()`. `MeasuresSpeed`: the frequency is unknown or right. `RefusesOnlyUnmeasurable`: the kernel is left without timer interrupts only where the count may have run out or counts less than once per ms. `PeriodAsAsked`: the period programmed lasts as long as was asked for, unless the product exceeds an unsigned int. `CallbackBeforeTick`: no interrupt comes before its callback is set, although the LVT is unmasked before the new count is written. `Returns`. `KeepsTicking`. |
| `boot` | `ImagesWhole`: at the jump every image stands byte by byte at its address. `KernelBssCleared`: the bss cleared is the loaded kernel's, found behind its header or through its section table. `SegmentsPlaced` for a kernel.elf with one segment. `LostAtMost`: what the processors' sum can lose. `HandsOver`: the loader implements `Handover`. `Boots`: the loader jumps or stops with a message. |
| `boot_elf`, `boot_sum` | Findings. |

**Bounds, and why they are enough.**

* Sched: `N = 3` is the source's own number. Messages have 2 characters, the least with a step
  between first and last; a line has 3. `MaxDepth = 4` is never exceeded: the proof of `TypeOK`
  shows that no stack grows deeper. The proofs cover every `N`, message length and application.
* Terminal: 3 rows of 2 columns in a buffer of 4 by 3, two glyphs and an undrawable character, so
  that screen and buffer differ in size and lines of every length meet on a scroll. `text` is bounded
  by the screen. Proved for every size.
* VirtioNet: 3 rx buffers in queues of 4 (16 of 256 in the code), so that the buffers run out before
  the ring does, as in the code; two frames and two messages that may be repeated; five sends, one more
  than the ring has entries; two PCI functions. Queue addresses of the real layout are computed for
  `QueueSize = 4`; the device may report that size for its rx queue or half of it. Sends are limited by
  `SendsAssumption`: the stores behind the ring stay in front of the used ring. Proved for every queue
  with room for the rx buffers (`Fits`) and every sequence of calls within that.
* PmTimer: a period of 6 ticks, every start value, every gap up to half a period (`MaxGap = Half`,
  the limit the comment at line 62 names), requests up to two periods. `elapsed` stops at
  `MaxElapsed`, three periods, later than any wait ends. Proved for every period.
* LapicTimer: 4 or 8 counts per tick, an initial count of 26 that some waits exhaust and others do
  not, and words of 52 with periods of 0, 7 and 13, so that of the products some fit, some wrap and
  some wrap to 0; every divide setting up
  to 4 and either mode found at the start; `MaxLag = 1` count between the wait and the accesses next
  to it. The code's values differ in size only: 2^31 counts, 2^32, 1000. Proved for every
  value.
* Paging: the real constants; `Probes` are both sides of every boundary and the same places one page
  directory and one table of directories further on. Proved for every page.
* BootLoader: one or two volumes of eight kinds, files of 3 to 5 bytes with a header of 2, reads of up
  to 2 bytes, one change of the memory map (`MaxEvents`); two application processors
  with three rounds each, the least in which one store can undo several rounds of the other. Proved
  for every size, read unit, section table and number of processors.

**CHECK_DEADLOCK FALSE** is given where the system really stops: the driver's calls are over
(`virtio`), an ASSERT spins, the loader has jumped or halted
(`boot*`), or the kernel has panicked (`paging`). `sched_*`,
`terminal*` and `timers` check for deadlock: the spinning of a halted machine is an action of `Sched`.

**Fairness.** `Sched`: `SF(Tick)`, since the timer is periodic and its interrupt stays pending while
IF is clear; and for each task `SF` of the CPU executing while that task is current, since a period is
1000 ms and a task that is given the CPU again and again makes progress in it. `VirtioNet`: weak
fairness of the driver, which has the processor to itself, of publishing a frame the device has
written, and of transmitting after the notification; none for the arrival of frames, so
`ReceiveReturns` is conditional on one. `LapicTimer`:
the processor, the clock and the delivery of interrupts go on. `BootLoader`:
the loader runs; that files are not shorter than they say is inherent in `Read`, which returns at
least one byte while there is one. A file that ended early would make `load_file()` loop for ever;
this is what the mutant of `Boots` shows.

## 4. Proofs

All proofs hold for every value of the constants under the assumptions named in the modules. They
use SMT, Zenon and PTL, and rest on no unproved fact.

* `Sched_proofs` (`EarlyTick = FALSE`, both builds): `TypeCorrect`, `FramesAreSaved`,
  `KernelIsNotPreempted`, `TasksRunInOwnSpace`, `FaultsAreFinal`. None of the properties is
  inductive: what the next interrupt pops was pushed by an earlier one. `IInv` therefore says of
  every saved frame, of a suspended task (`TasksInv`) and below the kernel's own work (`RunInv`), that
  it belongs to an application at a known program counter and depth (`AppRegs`, `HoldsFrame`); that
  the boot sequence has prepared exactly that (`BootInv`); and that the timer is armed only with its
  callback set (`TimerInv`). The proof has one lemma for each of booting, applications, kernel, tick.
* `Sched_refinement` (also `RedZone = FALSE`): `LinesAreWhole`, for messages that fit a line, from
  `LineInv`: what the kernel has printed of its current message is the whole line. `Refinement`:
  `Spec => Abs!Spec`, with every step mapped to a step of `Multitasking` or a stutter. The abstract
  program counter of a suspended task is read from its saved frame, so the mapping itself rests on
  `IInv`.
* `Terminal_proofs`: `CursorInBounds`, `RowsStayTerminated`, `BufferKeepsText`, `ScreenShowsText`.
  What they need in addition is `CursorInv`: the cursor stands behind the current line's text, lines
  fit, rows below are unused.
* `PmTimer_proofs`: `TypeCorrect`, `Punctual`, `HalvesAsDescribed`. The counter is known only modulo
  its period; the invariant (`Position`) relates it to the elapsed time, and the work is modular
  arithmetic with a period that is a constant and not a literal. The time a wait is measured against
  is `Effective`, the request modulo the period, which is all that the target keeps of it.
* `LapicTimer_proofs`: `WaitRefined` (every step of `LapicTimer` is one of `PmTimer` or leaves it
  alone, so the invariant above holds here too: `WaitKept`), `MeasuredTime`, and `CallbackIsSet`, from:
  the LVT is masked until the callback is set. `SpeedMeasured`, `OnlyUnmeasurable` and `PeriodProgrammed`
  rest on `LInv`: where the caller is decides what the registers hold (`PlaceInv`), and while the count
  runs it is the ticks waited, times the speed, with the phase and the lag (`CountInv`). Between two
  reads of the ACPI timer the bounds are a tick wide; where the wait ends they are two ticks wide,
  since neither end of it is aligned to a tick. `FreqInv` takes them through the rounded division. The terms are products of
  two variables, so the steps give the solver the distributed forms. `SecondProgrammed` removes the one
  hypothesis of `PeriodAsAsked`: a period no longer than the time measured, as start()'s own, never
  exceeds an unsigned int.
* `VirtioNet_proofs`: `TypeCorrect`, `NegotiatedHolds`, `NoStray`, `UnreadStays`, `WrapFree` and
  `PortRefined`, the safety half of the refinement (initial states and steps; `PortSafe`). One
  invariant carries all of them, under one assumption that the code does not check: the queue has room for
  the rx buffers (`Fits`). Only `NegotiatedHolds` does without it, from `HInv`, the part of the
  invariant that knows nothing of the queues; and `RoomNeeded` shows that the assumption is needed:
  with a smaller queue a descriptor stands behind the table when DRIVER_OK is set. `CallsInv` counts the
  sends, which bounds the tx ring and its 16-bit index. `Handshake` says what each step of the negotiation has established;
  `Quiet` that the device has done nothing before DRIVER_OK; `RxInv` that descriptor k is buffer k and
  the k-th entry of both rings is k; `FramesInv` and `HeadInv` that the frames not yet printed stand in
  the buffers behind `receive_head`; `TxInv` that every entry of the tx ring means descriptor 0 and at
  most one message is under way. It holds whether or not driver and device agree on where the used ring
  lies: where they do not, the driver sees an index of 0 and nothing is ever shown. `AlignAgrees` says
  when that is: for a queue size of 1365 modulo 2048, which is never even. For even sizes
  `WaitsOnlyForNew` shows that `receive_packet()` polls only while it has printed everything, and
  `InOrderAlways` draws from the refinement what the two ends of the wire see.
* `BootLoader_proofs`: `TypeCorrect`, `ImagesStand`, `BssCleared`, `LossBounded`, `AloneNothingLost`. `FileInv` says between
  two reads that the bytes read so far, and the images loaded before, stand in place; `BssInv` follows
  the description of the bss through `head` and `bss_start`; `SumInv` bounds the sum, and every value
  that a processor has loaded, by the set of rounds done (`Stored`), and from below by 1 and, once all
  are done, by 2. `SegInv` says of kernel.elf that each position holds the byte of the last loadable
  segment that reaches there (`ElfLoaded`); from it follow `SegmentsStand`, for a file with one
  segment that is not empty and starts at the image, and `ElfPlacedIffFits`, that no other file is
  ever placed as its headers ask. `HandoverImplemented` is the refinement, all of it since `Handover`
  states no fairness: `ChoiceInv` ties the handles to the last volumes that have a kernel and a
  kernel.elf, and a jump to there being no volume that had to be refused.
* `Paging_proofs`: `TypeCorrect` (every store and every run of entries stays inside its table), `TranslatesAll`, `IsolatedAll`, `MappingOnlyAdds`. `PtInv`, `PdInv` and
  `PdpInv` say what every entry of every table is after each step of the two loops; `WalkIs` computes
  the walk from them for any page, by its three indices. The numbers are the source's, so the proof
  says of these addresses that the two unreduced expressions (lines 110 and 121) do no harm.

**Only model-checked:** all liveness (`EveryTaskRuns`, `FaultResolved`, `ReceiveReturns`, `Returns`,
`KeepsTicking`, `Boots`, and the fairness in `PortSpec`), which is out of the prover's reach. Every
safety property of a passing run is also a theorem, `SegmentsPlaced` for the files for which it can
hold.

## 5. Findings

Each is a run that violates one property which a comment, message or report of the repository states.

1. `sched_early_tick` (`kernel/sched.c:78`). A tick between `lapic_periodic_exec()` and the end of
   `start_task0()` saves task 0 where its cr3 cannot find it. The window is a few instructions of a
   period of 1000 ms; nothing excludes it.
2. `sched_red_zone` (`apps/syscall.c:3`). The applications are built without `-mno-red-zone`; a tick
   in `syscall_puts()` overwrites the string pointer.
3. `terminal_scroll` (`kernel/util.c:87`). "shift lines" brings back text of a line that was replaced.
4. `boot_elf` (`bootloader/elf.c:125`). Every segment of kernel.elf goes to the same address. How
   many there are is the linker's choice; with GNU ld's defaults `kernel.elf.ld` gives three (two with
   `-z noseparate-code`). A kernel linked into a single segment is loaded as it should be.
5. `boot_sum` (`bootloader/bootloader.c:62`). The "Critical Section" has no lock.

Met while modelling, without a run: with kernels on two volumes and kernel.elf only on the first,
the unchecked `Open` (`bootloader/bootloader.c:135`) leaves the first volume's handle, and that
kernel is started with the second volume's applications. `boot` includes such disks; `Handover` says
what is started then.

## 6. Not modelled, and why

Segmentation, port I/O, fonts and the firmware's descriptions are constants or single instructions.
The ACPI table search reads firmware data and changes nothing. Formatting (`puth`) has no state.
Permissions in page table entries are all alike. The size of the real frame buffer comes from the
firmware only. The branch for an unknown system call, with its uninitialised result
(`kernel/syscall.c:11`), is reached by no program of the repository. Short reads of kernel.elf happen
only at its end, where nothing that is loaded reaches; `BootLoader` takes them as whole. `KERNEL_NAME` and
`KERNEL_ELF_NAME` have no room for a terminating NUL, so what `Open()` is asked for depends on the
bytes behind; the model assumes the names meant. Sends beyond `SendsAssumption` would store into
the used ring. `sched.c.kadaiB` is not built.

## 7. Plan

Done, the most important first: `Sched` with `Multitasking`, its invariants and the refinement proof;
`Terminal`; `VirtioNet` with `PacketPort`; `PmTimer`; `BootLoader`; `Paging`; then `start()` as it
is at this commit up to the measurement, `LapicTimer` around `PmTimer`, repeated sends, `getbss()`, and
the proofs about `VirtioNet`, `BootLoader`, `LapicTimer` and `Paging`.

Since then: `MeasuresSpeed` and `PeriodAsAsked` for every speed; what loadelf() does to every
kernel.elf; `Handover`, implemented by `BootLoader`; and for which queue sizes `ALIGN()` is right.

Left:

1. `Sched` and `Paging` meet only in this text. A small specification of "which task sees the
   additional page", implemented by both, would make it a theorem.
2. `Sched` with early ticks: that the window of finding 1 is the only way a saved frame is lost, as an
   invariant under `EarlyTick`.
3. Short reads of kernel.elf, with the hole they leave.
