------------------------------- MODULE Sched -------------------------------
(***************************************************************************)
(* Preemptive multitasking: kernel/sched.c, the interrupt entries of       *)
(* kernel/interrupt_handler.S, the LAPIC part of kernel/lapic_timer.c, the *)
(* gates of kernel/interrupt.c, the page fault handler of kernel/memory.c, *)
(* kernel/syscall.c and the application loops of apps/.                    *)
(*                                                                         *)
(* There is one CPU and everything runs in ring 0, so an interrupt pushes  *)
(* its frame on the stack the CPU happens to use.  All applications are    *)
(* linked at the same virtual addresses: which memory a stack address      *)
(* means depends on cr3.  Memory is modelled where that matters, in stacks *)
(* of cells that hold an interrupt frame or a local variable.              *)
(*                                                                         *)
(* An interrupt handler is one action when it cannot be interrupted (its   *)
(* gate clears IF and it prints nothing), and one action per character     *)
(* printed otherwise.  A definition named after a bug (TrapGate,           *)
(* SavedTooLate, ...) is a mutation of the one below it: nothing uses it,  *)
(* and a run in which it replaced that one would fail.                     *)
(***************************************************************************)
EXTENDS KernelOutput, FiniteSets

CONSTANTS
  N,          \* number of tasks (N_TASKS)
  MaxDepth,   \* bound: cells modelled of each stack
  Accesses,   \* Accesses[t]: the pages application t reads in its loop
  RedZone,    \* leaf functions keep locals below rsp (gcc without -mno-red-zone)
  EarlyTick   \* the first tick may come before start_task0 has finished

Tasks == 0 .. N-1
Pages == {"own", "additional", "unmapped"}

ASSUME NAssumption        == N \in Nat \ {0}
ASSUME DepthAssumption    == MaxDepth \in Nat /\ MaxDepth >= 4
ASSUME AccessesAssumption == Accesses \in [Tasks -> (SUBSET Pages) \ {{}}]
ASSUME BuildAssumption    == RedZone \in BOOLEAN /\ EarlyTick \in BOOLEAN

VARIABLES
  cpu,        \* the registers a frame saves: pc, sp, IF, rsi, and a loop index
  cr3,        \* the address space in force
  mem,        \* mem[<<region, depth>>]: a cell of a stack
  tasks,      \* tasks[t] = [sp, cr3]
  cur_task,
  mapped,     \* address spaces whose PDP maps the additional page
  line,       \* the terminal's current line
  freq,       \* lapic_timer_freq_khz, 0 until measured
  lapic       \* callback: reserved_callback is set; armed: LVT unmasked and
              \* counting; inService: an interrupt awaits its EOI

vars == <<cpu, cr3, mem, tasks, cur_task, mapped, line, freq, lapic>>

-----------------------------------------------------------------------------
(***************************************************************************)
(* Addresses and memory                                                    *)
(***************************************************************************)
KernelSpace == -1   \* kernel_cr3: the firmware's identity map
KernelStack == -2   \* the region of the boot stack, the same in every space

Spaces == Tasks \union {KernelSpace}
Depths == 0 .. MaxDepth
Addrs  == [area : {"app", "kernel"}, depth : Depths]
Cells  == (Spaces \union {KernelStack}) \X Depths

AppTop    == [area |-> "app", depth |-> 0]      \* get_stack_start()
KernelTop == [area |-> "kernel", depth |-> 0]   \* stack_base

Below(sp) == [sp EXCEPT !.depth = @ + 1]
Above(sp) == [sp EXCEPT !.depth = @ - 1]

\* The kernel is mapped alike in every space.  An application address is the
\* task's own memory under the task's cr3, and other RAM under the kernel's.
Phys(space, sp) ==
  <<IF sp.area = "kernel" THEN KernelStack ELSE space, sp.depth>>

\* boot_sys: in the system call that start() itself makes; stopped: spinning.
EarlyPCs  == {"init_intr", "acpi", "test", "boot_sys", "virtio", "measure",
              "init_tasks", "stopped"}
LatePCs   == {"periodic", "arm", "cur0", "set_sp", "set_cr3", "jmp"}
BootPCs   == EarlyPCs \union LatePCs
UserPCs   == {"call", "load", "int", "ret", "touch"}
KernelPCs == {"sys", "pf_map", "pf_panic", "halt"}

Pointers == {AppMessage(t) : t \in Tasks} \union {TestMessage, Garbage}

Regs == [pc : BootPCs \union UserPCs \union KernelPCs \union {"wild"},
         sp : Addrs, intr : BOOLEAN, rsi : Pointers, i : 1 .. MsgLen+1]

Junk      == [kind |-> "junk"]
Str(p)    == [kind |-> "str", ptr |-> p]
Frame(r)  == [kind |-> "frame", reg |-> r]
Content   == {Junk} \union {Str(p) : p \in Pointers} \union {Frame(r) : r \in Regs}

\* What iretq finds at sp: the pushed registers, or no frame at all.
Popped(m, space, sp) ==
  LET cell == m[Phys(space, sp)]
  IN  IF cell.kind = "frame" THEN cell.reg ELSE [cpu EXCEPT !.pc = "wild"]

Store(sp, value) == [mem EXCEPT ![Phys(cr3, sp)] = value]

-----------------------------------------------------------------------------
(***************************************************************************)
(* Interrupt entry                                                         *)
(***************************************************************************)
InterruptGate == 14
TrapGate == 15
GateType == InterruptGate     \* set_interrupt(): attribute_type = 0x0E in every entry

\* IF once the handler runs: an interrupt gate clears it, a trap gate would not.
IntrAfterEntry(intr) == intr /\ GateType # InterruptGate

\* The CPU and the handler push the interrupted registers and turn to handler.
Interrupt(saved, handler) ==
  /\ mem' = Store(Below(saved.sp), Frame(saved))
  /\ cpu' = [saved EXCEPT !.pc = handler, !.sp = Below(@), !.i = 1,
                          !.intr = IntrAfterEntry(@)]

Iretq == cpu' = Popped(mem, cr3, cpu.sp)

Goto(pc) == cpu' = [cpu EXCEPT !.pc = pc]

-----------------------------------------------------------------------------
(***************************************************************************)
(* Boot: start() from init_intr() on, with the multitasking block enabled  *)
(***************************************************************************)
InitIntr ==
  /\ cpu.pc = "init_intr"
  /\ cpu' = [cpu EXCEPT !.pc = "acpi", !.intr = TRUE]
  /\ UNCHANGED <<cr3, mem, tasks, cur_task, mapped, line, freq, lapic>>

\* A device of start() is initialised, or is missing or silent and start() spins.
InitDevice(device, next) ==
  /\ cpu.pc = device
  /\ \E pc \in {next, "stopped"} : Goto(pc)
  /\ UNCHANGED <<cr3, mem, tasks, cur_task, mapped, line, freq, lapic>>

InitAcpi   == InitDevice("acpi", "test")
InitVirtio == InitDevice("virtio", "measure")

\* test_syscall_puts(): int $0x80 from the kernel, on the kernel's own stack.
TestSyscall ==
  /\ cpu.pc = "test"
  /\ Interrupt([cpu EXCEPT !.pc = "virtio", !.rsi = TestMessage], "boot_sys")
  /\ UNCHANGED <<cr3, tasks, cur_task, mapped, line, freq, lapic>>

\* measure_lapic_freq_khz(): fails and leaves the frequency 0 when the one-shot
\* count has run out.
Measure ==
  /\ cpu.pc = "measure"
  /\ freq' \in {0, 1}
  /\ Goto("init_tasks")
  /\ UNCHANGED <<cr3, mem, tasks, cur_task, mapped, line, lapic>>

\* The frame prepare_stack() builds: RIP is the entry point, RSP the stack as
\* it was, RFLAGS the kernel's own at this moment, the rest uninitialised.
InitialFrameBeforeSti ==
  Frame([cpu EXCEPT !.pc = "call", !.sp = AppTop, !.intr = FALSE])
InitialFrame == Frame([cpu EXCEPT !.pc = "call", !.sp = AppTop])

\* tasks[i] as init_tasks() leaves it; task_cr3s[i] is the space of task i.
TaskWithoutSpace(t) ==
  [sp |-> IF t = 0 THEN AppTop ELSE Below(AppTop), cr3 |-> 0]
InitialTask(t) ==
  [sp |-> IF t = 0 THEN AppTop ELSE Below(AppTop), cr3 |-> t]

InitTasks ==
  /\ cpu.pc = "init_tasks"
  /\ tasks' = [t \in Tasks |-> InitialTask(t)]
  /\ mem' = [c \in Cells |->
               IF c[1] \in Tasks \ {0} /\ c = Phys(c[1], Below(AppTop))
               THEN InitialFrame ELSE mem[c]]
  /\ cur_task' = 0
  /\ Goto("periodic")
  /\ UNCHANGED <<cr3, mapped, line, freq, lapic>>

\* lapic_periodic_exec(): without a frequency it complains and starts nothing.
SetCallback ==
  /\ cpu.pc = "periodic"
  /\ IF freq = 0
     THEN Goto("cur0") /\ UNCHANGED lapic
     ELSE Goto("arm") /\ lapic' = [lapic EXCEPT !.callback = TRUE]
  /\ UNCHANGED <<cr3, mem, tasks, cur_task, mapped, line, freq>>

ArmTimer ==
  /\ cpu.pc = "arm"
  /\ lapic' = [lapic EXCEPT !.armed = TRUE]
  /\ Goto("cur0")
  /\ UNCHANGED <<cr3, mem, tasks, cur_task, mapped, line, freq>>

StartTask0 ==      \* start_task0(), with interrupts enabled between its steps
  /\ \/ /\ cpu.pc = "cur0"
        /\ cur_task' = 0
        /\ Goto("set_sp")
        /\ UNCHANGED cr3
     \/ /\ cpu.pc = "set_sp"
        /\ cpu' = [cpu EXCEPT !.pc = "set_cr3", !.sp = tasks[cur_task].sp]
        /\ UNCHANGED <<cur_task, cr3>>
     \/ /\ cpu.pc = "set_cr3"
        /\ cr3' = tasks[cur_task].cr3
        /\ Goto("jmp")
        /\ UNCHANGED cur_task
     \/ /\ cpu.pc = "jmp"
        /\ Goto("call")
        /\ UNCHANGED <<cur_task, cr3>>
  /\ UNCHANGED <<mem, tasks, mapped, line, freq, lapic>>

-----------------------------------------------------------------------------
(***************************************************************************)
(* The timer interrupt                                                     *)
(***************************************************************************)
Booting == cpu.pc \in BootPCs

\* schedule(): saves sp for the current task and picks the next one.
NextTaskSkipping == (cur_task + 2) % N
NextTask         == (cur_task + 1) % N
SavedTooLate     == [tasks EXCEPT ![NextTask].sp = Below(cpu.sp)]
Saved            == [tasks EXCEPT ![cur_task].sp = Below(cpu.sp)]

\* *lapic_eoi = 0 ends the interrupt in service.
NoEoi     == TRUE
InService == FALSE

\* lapic_intr_handler: push, schedule through reserved_callback, EOI, load the
\* next task's sp and then its cr3, pop, iretq.
Tick ==
  /\ cpu.intr
  /\ lapic.armed
  /\ ~lapic.inService
  /\ EarlyTick \/ ~Booting
  /\ mem' = Store(Below(cpu.sp), Frame(cpu))
  /\ IF lapic.callback
     THEN /\ tasks' = Saved
          /\ cur_task' = NextTask
          /\ cr3' = Saved[NextTask].cr3
          /\ cpu' = Popped(mem', Saved[NextTask].cr3, Saved[NextTask].sp)
     ELSE Goto("wild") /\ UNCHANGED <<tasks, cur_task, cr3>>
  /\ lapic' = [lapic EXCEPT !.inService = InService]
  /\ UNCHANGED <<mapped, line, freq>>

-----------------------------------------------------------------------------
(***************************************************************************)
(* The applications                                                        *)
(***************************************************************************)
\* syscall_puts() of apps/syscall.c is a leaf: its copy of str lies below rsp
\* in a build with a red zone, and above rsp in one without.
Slot == IF RedZone THEN Below(cpu.sp) ELSE cpu.sp

Call ==
  /\ cpu.pc = "call"
  /\ mem' = Store(Below(cpu.sp), Str(AppMessage(cr3)))
  /\ cpu' = [cpu EXCEPT !.pc = "load", !.sp = IF RedZone THEN @ ELSE Below(@)]
  /\ UNCHANGED <<cr3, tasks, cur_task, mapped, line, freq, lapic>>

Load ==
  /\ cpu.pc = "load"
  /\ LET cell == mem[Phys(cr3, Slot)]
     IN  cpu' = [cpu EXCEPT !.pc = "int",
                            !.rsi = IF cell.kind = "str" THEN cell.ptr ELSE Garbage]
  /\ UNCHANGED <<cr3, mem, tasks, cur_task, mapped, line, freq, lapic>>

Ret ==
  /\ cpu.pc = "ret"
  /\ cpu' = [cpu EXCEPT !.pc = "touch", !.sp = IF RedZone THEN @ ELSE Above(@)]
  /\ UNCHANGED <<cr3, mem, tasks, cur_task, mapped, line, freq, lapic>>

IsMapped(space, page) ==
  page = "own" \/ (page = "additional" /\ space \in mapped)

Touch ==
  /\ cpu.pc = "touch"
  /\ \E page \in Accesses[cr3] : IsMapped(cr3, page)
  /\ Goto("call")
  /\ UNCHANGED <<cr3, mem, tasks, cur_task, mapped, line, freq, lapic>>

-----------------------------------------------------------------------------
(***************************************************************************)
(* System call and page fault                                              *)
(***************************************************************************)
Syscall ==         \* int $0x80 with SYSCALL_PUTS
  /\ cpu.pc = "int"
  /\ Interrupt([cpu EXCEPT !.pc = "ret"], "sys")
  /\ UNCHANGED <<cr3, tasks, cur_task, mapped, line, freq, lapic>>

PageFault ==       \* the frame returns to the faulting instruction itself
  /\ cpu.pc = "touch"
  /\ \E page \in Accesses[cr3] :
       /\ ~IsMapped(cr3, page)
       /\ Interrupt(cpu, IF page = "additional" THEN "pf_map" ELSE "pf_panic")
  /\ UNCHANGED <<cr3, tasks, cur_task, mapped, line, freq, lapic>>

Handlers        == {"boot_sys", "sys", "pf_map", "pf_panic"}
PrintingPastNul == cpu.pc \in Handlers /\ cpu.i <= MsgLen + 1
Printing        == cpu.pc \in Handlers /\ cpu.i <= MsgLen

Message == CASE cpu.pc \in {"sys", "boot_sys"} -> cpu.rsi
             [] cpu.pc = "pf_map"              -> MapNotice
             [] OTHER                          -> Diagnosis

Putc ==            \* one turn of the loop in puts()
  /\ Printing
  /\ line' = Printed(line, Message, cpu.i)
  /\ cpu' = [cpu EXCEPT !.i = @ + 1]
  /\ UNCHANGED <<cr3, mem, tasks, cur_task, mapped, freq, lapic>>

SyscallReturn ==
  /\ cpu.pc \in {"sys", "boot_sys"} /\ ~Printing
  /\ Iretq
  /\ UNCHANGED <<cr3, mem, tasks, cur_task, mapped, line, freq, lapic>>

\* The handler writes PDPs[0], whichever task has faulted.
OtherSpace    == 1
FaultingSpace == 0

MapPage ==
  /\ cpu.pc = "pf_map" /\ ~Printing
  /\ mapped' = mapped \union {FaultingSpace}
  /\ Iretq
  /\ UNCHANGED <<cr3, mem, tasks, cur_task, line, freq, lapic>>

Panic ==
  /\ cpu.pc = "pf_panic" /\ ~Printing
  /\ Goto("halt")
  /\ UNCHANGED <<cr3, mem, tasks, cur_task, mapped, line, freq, lapic>>

Halt ==            \* while (1)
  /\ cpu.pc \in {"halt", "stopped"}
  /\ UNCHANGED vars

-----------------------------------------------------------------------------
Init ==
  /\ cpu = [pc |-> "init_intr", sp |-> KernelTop, intr |-> FALSE,
            rsi |-> Garbage, i |-> 1]
  /\ cr3 = KernelSpace
  /\ mem = [c \in Cells |-> Junk]
  /\ tasks = [t \in Tasks |-> [sp |-> AppTop, cr3 |-> KernelSpace]]
  /\ cur_task = 0
  /\ mapped = {}
  /\ line = << >>
  /\ freq = 0
  /\ lapic = [callback |-> FALSE, armed |-> FALSE, inService |-> FALSE]

Boot   == \/ InitIntr \/ InitAcpi \/ TestSyscall \/ InitVirtio \/ Measure
          \/ InitTasks \/ SetCallback \/ ArmTimer \/ StartTask0
App    == Call \/ Load \/ Ret \/ Touch \/ Syscall \/ PageFault
Kernel == Putc \/ SyscallReturn \/ MapPage \/ Panic \/ Halt

CpuStep == Boot \/ App \/ Kernel
Next    == CpuStep \/ Tick

(***************************************************************************)
(* The timer is periodic and an interrupt stays pending while IF is clear, *)
(* so ticks are delivered again and again.  A period is 1000 ms: a task    *)
(* that is given the CPU again and again executes again and again.         *)
(***************************************************************************)
Fairness ==
  /\ SF_vars(Tick)
  /\ \A t \in Tasks : SF_vars(cur_task = t /\ CpuStep)

Spec     == Init /\ [][Next]_vars
FairSpec == Spec /\ Fairness

-----------------------------------------------------------------------------
(***************************************************************************)
(* Properties                                                              *)
(***************************************************************************)
\* Types: task numbers, frames and registers of sched.c and interrupt_handler.S.
TypeOK ==
  /\ cpu \in Regs
  /\ cr3 \in Spaces
  /\ mem \in [Cells -> Content]
  /\ tasks \in [Tasks -> [sp : Addrs, cr3 : Spaces]]
  /\ cur_task \in Tasks
  /\ mapped \subseteq Tasks
  /\ freq \in {0, 1}
  /\ lapic \in [callback : BOOLEAN, armed : BOOLEAN, inService : BOOLEAN]

TasksReady == cpu.pc \notin EarlyPCs

SavedCell(t) == mem[Phys(tasks[t].cr3, tasks[t].sp)]

\* The comment on task_t.sp: it is the stack pointer at which all registers
\* have just been pushed.  So for every task that is not running, the memory
\* that sp means under the task's own cr3 holds that task's frame, from which
\* it resumes one cell higher.  It is false as soon as sp and cr3 are saved,
\* loaded or prepared inconsistently.
SavedFrames ==
  TasksReady =>
    \A t \in Tasks \ {cur_task} :
      /\ SavedCell(t).kind = "frame"
      /\ SavedCell(t).reg.sp = Above(tasks[t].sp)

\* The kernel is not preemptible: a timer interrupt never suspends a task
\* inside a system call or a fault handler, and a suspended task will run with
\* interrupts enabled, so that no task can keep the CPU.  It rests on the gate
\* type and on the RFLAGS that prepare_stack() copies from the booting kernel.
KernelNotPreempted ==
  TasksReady =>
    \A t \in Tasks \ {cur_task} :
      SavedCell(t).kind = "frame" =>
        SavedCell(t).reg.pc \in UserPCs /\ SavedCell(t).reg.intr

\* A task runs in its own address space and on its own stack, in the
\* application and in the kernel, whatever it was interrupted by.
OwnSpace == Booting \/ (cr3 = cur_task /\ cpu.sp.area = "app")

\* Every line of the terminal is one whole message of one author: the strings
\* of the tasks and the notices of the kernel are neither mixed nor damaged.
LineIntegrity ==
  \E msg \in {AppMessage(t) : t \in Tasks} \union {TestMessage, MapNotice, Diagnosis} :
    \A k \in 1 .. Len(line) : line[k] = <<msg, k>>

\* A page fault that is not resolved stops the machine: from the moment the
\* handler prints the diagnosis nothing else ever runs or prints.
FaultIsFinal ==
  [][cpu.pc \in {"pf_panic", "halt"} =>
       /\ cpu'.pc \in {"pf_panic", "halt"}
       /\ UNCHANGED <<cr3, tasks, cur_task, mapped>>]_vars

\* Round robin starves nobody: once the timer is armed every task completes
\* system calls again and again.
EveryTaskRuns ==
  \A t \in Tasks : lapic.armed ~> (cur_task = t /\ cpu.pc = "ret")

\* A task that reads the additional page gets past the read: the fault is
\* resolved for the address space that raised it.
FaultResolved ==
  \A t \in Tasks :
    (cur_task = t /\ cpu.pc = "pf_map") ~> (cur_task = t /\ cpu.pc = "call")

(***************************************************************************)
(* Sched implements Multitasking.  While it boots, whatever it prints, it  *)
(* maps to the initial state.  The program counter of a task is the CPU's  *)
(* while the task runs its application; otherwise it is in the frame on    *)
(* top of the task's stack, wherever the kernel has left it.               *)
(***************************************************************************)
UserRegs(t) ==
  IF t # cur_task THEN SavedCell(t).reg
  ELSE IF cpu.pc \in UserPCs THEN cpu
  ELSE mem[Phys(cr3, cpu.sp)].reg

Abs == INSTANCE Multitasking WITH
  running <- IF Booting THEN 0 ELSE cur_task,
  at      <- [t \in Tasks |-> IF Booting THEN "call" ELSE UserRegs(t).pc],
  out     <- IF cpu.pc \in KernelPCs
             THEN <<Message, IF cpu.pc = "halt" THEN MsgLen + 1 ELSE cpu.i>>
             ELSE << >>,
  line    <- IF Booting THEN << >> ELSE line

\* Stacks, frames, address spaces and interrupts never show: to the
\* applications and on the terminal the machine is Multitasking.
Refines == Abs!Spec
=============================================================================
