----------------------------- MODULE BootLoader -----------------------------
(***************************************************************************)
(* efi_main() of bootloader/bootloader.c: let the application processors   *)
(* add up a sum, find the volume with the kernel, load kernel and          *)
(* applications, clear the kernel's bss, leave the boot services, jump.    *)
(* The firmware (external) chooses the volumes, how much a Read returns,   *)
(* and may change the memory map at any time.  A byte of memory is known   *)
(* by where it was read from: <<volume, file, position>>.                  *)
(***************************************************************************)
EXTENDS Integers, Sequences, FiniteSets

CONSTANTS
  Aps, Rounds,  \* the application processors, and how often each adds: 0x10000
  Disks,        \* the volumes the firmware may find: sequences of volumes
  Sizes,        \* sizes of "kernel", "app1", ... , the header included
  Segments,     \* program headers of kernel.elf: [load, at, len]
  Sections,     \* section headers of kernel.elf: ".bss..." or another name
  HeadSize, ReadUnit,    \* sizeof(struct header), READ_UNIT
  MaxEvents     \* changes of the memory map considered

\* A volume: which files its root directory lists.  other: a file that is not
\* "kernel" but begins with the bytes compared; long: a name that does not fit the
\* buffer; an elf that is stripped is executable and has no section headers.
Volume == [kernel : BOOLEAN, other : BOOLEAN, long : BOOLEAN, apps : BOOLEAN,
           elf : {"none", "bad", "stripped", "good"}]
Apps   == {"app1", "app2", "app3"}
Images == {"kernel"} \union Apps

ASSUME ApAssumption == IsFiniteSet(Aps) /\ Aps # {} /\ Rounds \in Nat \ {0}
ASSUME DiskAssumption == \A d \in Disks : d \in Seq(Volume)
ASSUME SegmentAssumption == Segments \in Seq([load : BOOLEAN, at : Nat, len : Nat])
ASSUME SectionAssumption == Sections \in Seq({".bss", "other"})
ASSUME SizeAssumption ==      \* the linker scripts put a header into every file
  /\ HeadSize \in Nat \ {0} /\ ReadUnit \in Nat \ {0}
  /\ Sizes \in [Images -> Nat] /\ \A f \in Images : Sizes[f] > HeadSize

VARIABLES
  pc,
  disk, ncpu,                  \* what the firmware reports
  sum, done, loaded,           \* the sum; rounds done and value loaded by each AP
  vol,                         \* the volume being looked at
  kernel_file, kernel_elf_file, app_files,   \* volumes of the open files, 0 for NULL
  file, pos, left, dst,        \* load_file()'s file and position, size, dst
  seg,                         \* the loop variable of getbss() and loadelf()
  head, bss_start,             \* whose header / bss: <<volume, file, section>>
  mem, cleared,                \* memory from each image's start, and the bss cleared
  map_key, events              \* GetMemoryMap()'s key, and the firmware's

handles == <<kernel_file, kernel_elf_file, app_files>>
load    == <<file, pos, left, dst, seg, head, bss_start>>
fw      == <<disk, ncpu>>
adding  == <<sum, done, loaded>>
vars    == <<pc, fw, adding, vol, handles, load, mem, cleared, map_key, events>>

None == <<0, "none", 0>>
Nothing == -1
Space == (UNION {0 .. Sizes[f] : f \in Images}) \union
         (UNION {0 .. Segments[s].at + Segments[s].len : s \in 1 .. Len(Segments)})
Halt  == pc' = "halted"        \* assert(), or while (1) after a message

Init ==
  /\ pc = "processors"
  /\ disk \in Disks /\ ncpu \in {1, 1 + Cardinality(Aps)}
  /\ sum = 0 /\ done = [p \in Aps |-> 0] /\ loaded = [p \in Aps |-> Nothing]
  /\ vol = 1
  /\ kernel_file = 0 /\ kernel_elf_file = 0 /\ app_files = 0
  /\ file = "kernel" /\ pos = 0 /\ left = 0 /\ dst = 0 /\ seg = 1
  /\ head = None /\ bss_start = None
  /\ mem = [f \in Images |-> [k \in Space |-> None]]
  /\ cleared = None
  /\ map_key = 0 /\ events = 0

Processors ==
  /\ pc = "processors"
  /\ IF ncpu = 1 THEN Halt ELSE pc' = "aps"
  /\ UNCHANGED <<fw, adding, vol, handles, load, mem, cleared, map_key, events>>

\* ap_sum(), on all application processors at once.  The loader is compiled
\* without optimisation: a round loads the sum and stores it incremented.
More(p) == done[p] < Rounds

LoadSum(p) ==
  /\ pc = "aps" /\ loaded[p] = Nothing /\ More(p)
  /\ loaded' = [loaded EXCEPT ![p] = sum]
  /\ UNCHANGED <<pc, fw, sum, done, vol, handles, load, mem, cleared, map_key, events>>

Restarted(p)   == loaded[p]
Incremented(p) == loaded[p] + 1

StoreSum(p) ==
  /\ pc = "aps" /\ loaded[p] # Nothing
  /\ sum' = Incremented(p)
  /\ done' = [done EXCEPT ![p] = @ + 1]
  /\ loaded' = [loaded EXCEPT ![p] = Nothing]
  /\ UNCHANGED <<pc, fw, vol, handles, load, mem, cleared, map_key, events>>

\* StartupAllAPs() returns when all of them have.
ApsFinished ==
  /\ pc = "aps" /\ \A p \in Aps : ~More(p)
  /\ pc' = "volumes"
  /\ UNCHANGED <<fw, adding, vol, handles, load, mem, cleared, map_key, events>>

\* compare() is given 6 bytes, three characters: every name in "ker..." matches.
KernelFound(v) == v.kernel \/ v.other \/ v.elf # "none"
AppsUnchecked(v) == v.long \/ (KernelFound(v) /\ ~v.kernel)
Rejected(v)    == v.long \/ (KernelFound(v) /\ ~(v.kernel /\ v.apps))

\* Open() leaves the handle alone when it fails, and only kernel.elf may fail.
OpenedElf(v) == IF v.elf = "none" THEN kernel_elf_file ELSE vol

SearchVolume ==
  /\ pc = "volumes" /\ vol <= Len(disk)
  /\ LET v == disk[vol] IN
       \/ /\ ~KernelFound(v) /\ ~v.long
          /\ vol' = vol + 1
          /\ UNCHANGED <<pc, handles>>
       \/ /\ KernelFound(v) /\ ~Rejected(v)
          /\ kernel_file' = vol /\ app_files' = vol
          /\ kernel_elf_file' = OpenedElf(v)
          /\ vol' = vol + 1
          /\ UNCHANGED pc
       \/ /\ Rejected(v)
          /\ Halt
          /\ UNCHANGED <<vol, handles>>
  /\ UNCHANGED <<fw, adding, load, mem, cleared, map_key, events>>

\* load_file() on a freshly opened file, header first.
Begin(f) ==
  /\ pc' = "head" /\ file' = f /\ pos' = 0 /\ left' = HeadSize /\ dst' = 0

\* loadelf() gives up on a file that is no executable, before it touches head.
IsElf == kernel_elf_file # 0 /\ disk[kernel_elf_file].elf \in {"stripped", "good"}

ChooseKernel ==
  /\ pc = "volumes" /\ vol > Len(disk)
  /\ \/ kernel_file = 0 /\ Halt /\ UNCHANGED load
     \/ /\ kernel_file # 0 /\ IsElf
        /\ pc' = "section" /\ seg' = 1
        /\ UNCHANGED <<file, pos, left, dst, head, bss_start>>
     \/ kernel_file # 0 /\ ~IsElf /\ Begin("kernel") /\ UNCHANGED <<seg, head, bss_start>>
  /\ UNCHANGED <<fw, adding, vol, handles, mem, cleared, map_key, events>>

\* getbss() describes the first section whose name begins with .bss, or none.
SectionTable == IF disk[kernel_elf_file].elf = "good" THEN Sections ELSE << >>
NoBreak(s)   == <<kernel_elf_file, "kernel.elf", Len(SectionTable)>>
Bss(s)       == <<kernel_elf_file, "kernel.elf", s>>

ReadSection ==
  /\ pc = "section"
  /\ \/ /\ seg <= Len(SectionTable) /\ SectionTable[seg] # ".bss"
        /\ seg' = seg + 1
        /\ UNCHANGED <<pc, head>>
     \/ /\ seg <= Len(SectionTable) /\ SectionTable[seg] = ".bss"
        /\ head' = Bss(seg)
        /\ seg' = 1 /\ pc' = "segment"
     \/ /\ seg > Len(SectionTable)
        /\ head' = None
        /\ seg' = 1 /\ pc' = "segment"
  /\ UNCHANGED <<fw, adding, vol, handles, file, pos, left, dst, bss_start>>
  /\ UNCHANGED <<mem, cleared, map_key, events>>

\* Every PT_LOAD segment goes to dst, whatever its p_vaddr.
Destination(s) == 0
SegmentTo(s) ==
  [k \in Space |-> IF k - Destination(s) \in 0 .. Segments[s].len-1
                   THEN <<kernel_elf_file, "kernel.elf", <<s, k - Destination(s)>>>>
                   ELSE mem["kernel"][k]]

AnyType(s) == TRUE
IsLoad(s)  == Segments[s].load

LoadSegment ==
  /\ pc = "segment" /\ seg <= Len(Segments)
  /\ mem' = IF IsLoad(seg) THEN [mem EXCEPT !["kernel"] = SegmentTo(seg)] ELSE mem
  /\ seg' = seg + 1
  /\ UNCHANGED <<pc, fw, adding, vol, handles, file, pos, left, dst, head, bss_start>>
  /\ UNCHANGED <<cleared, map_key, events>>

\* bss_start and bss_size are saved before an application's header replaces head.
EndElf ==
  /\ pc = "segment" /\ seg > Len(Segments)
  /\ bss_start' = head
  /\ Begin("app1")
  /\ UNCHANGED <<fw, adding, vol, handles, seg, head, mem, cleared, map_key, events>>

Source(at) == <<IF file = "kernel" THEN kernel_file ELSE app_files, file, at>>

\* One Read() of at most READ_UNIT bytes.  It may return fewer.
WholeUnit == ReadUnit
Want == IF left > ReadUnit THEN ReadUnit ELSE left
AllWanted(n) == left - Want
LeftAfter(n) == left - n

Read(n) ==
  /\ pc \in {"head", "body"} /\ left > 0
  /\ n <= Want /\ n <= Sizes[file] - pos
  /\ IF pc = "head"
     THEN head' = Source(0) /\ UNCHANGED mem
     ELSE /\ mem' = [mem EXCEPT ![file] =
                       [k \in Space |-> IF k - dst \in 0 .. n-1
                                        THEN Source(pos + (k - dst)) ELSE @[k]]]
          /\ UNCHANGED head
  /\ pos' = pos + n
  /\ dst' = dst + n
  /\ left' = LeftAfter(n)
  /\ UNCHANGED <<pc, fw, adding, vol, handles, file, seg, bss_start, cleared, map_key, events>>

WholeFile == Sizes[file]
BodySize  == Sizes[file] - HeadSize

EndHead ==
  /\ pc = "head" /\ left = 0
  /\ left' = BodySize
  /\ dst' = 0
  /\ pc' = "body"
  /\ UNCHANGED <<fw, adding, vol, handles, file, pos, seg, head, bss_start, mem, cleared>>
  /\ UNCHANGED <<map_key, events>>

Following == [kernel |-> "app1", app1 |-> "app2", app2 |-> "app3"]
SavedLast == head
Saved     == IF file = "kernel" THEN head ELSE bss_start

EndBody ==
  /\ pc = "body" /\ left = 0
  /\ bss_start' = Saved
  /\ IF file = "app3" THEN pc' = "bss" /\ UNCHANGED <<file, pos, left, dst>>
     ELSE Begin(Following[file])
  /\ UNCHANGED <<fw, adding, vol, handles, seg, head, mem, cleared, map_key, events>>

ClearBss ==
  /\ pc = "bss"
  /\ cleared' = bss_start
  /\ pc' = "map"
  /\ UNCHANGED <<fw, adding, vol, handles, load, mem, map_key, events>>

GetMemoryMap ==                \* the map may have more entries than the buffer
  /\ pc = "map"
  /\ \/ map_key' = events /\ pc' = "exit"
     \/ Halt /\ UNCHANGED map_key
  /\ UNCHANGED <<fw, adding, vol, handles, load, mem, cleared, events>>

ExitBootServices ==            \* a single attempt
  /\ pc = "exit"
  /\ IF map_key = events THEN pc' = "jump" ELSE Halt
  /\ UNCHANGED <<fw, adding, vol, handles, load, mem, cleared, map_key, events>>

MapChanges ==
  /\ pc \notin {"jump", "halted"} /\ events < MaxEvents
  /\ events' = events + 1
  /\ UNCHANGED <<pc, fw, adding, vol, handles, load, mem, cleared, map_key>>

Boot ==
  \/ Processors \/ (\E p \in Aps : LoadSum(p) \/ StoreSum(p)) \/ ApsFinished
  \/ SearchVolume \/ ChooseKernel \/ ReadSection \/ LoadSegment \/ EndElf
  \/ (\E n \in 1 .. ReadUnit : Read(n)) \/ EndHead \/ EndBody
  \/ ClearBss \/ GetMemoryMap \/ ExitBootServices

Next == Boot \/ MapChanges

Spec == Init /\ [][Next]_vars /\ WF_vars(Boot)

-----------------------------------------------------------------------------
\* Types: load_file() never reads behind the end of a file, and its handles are of
\* volumes that were found.
TypeOK ==
  /\ pc \in {"processors", "aps", "volumes", "section", "segment", "head", "body", "bss", "map",
             "exit", "jump", "halted"}
  /\ \A v \in {kernel_file, kernel_elf_file, app_files} : v \in 0 .. Len(disk)
  /\ file \in Images /\ pos \in 0 .. Sizes[file] /\ dst \in Nat
  /\ left \in 0 .. Sizes[file]
  /\ sum \in Nat /\ done \in [Aps -> 0 .. Rounds] /\ loaded \in [Aps -> Nat \union {Nothing}]

\* What the additions can get lost to without a lock: of two processors with at
\* least two rounds each, the sum is at least 2 (one processor's first store
\* may undo everything but its own last round) and never more than was added.
Summed == pc \notin {"processors", "aps", "halted"}
LostAtMost ==
  Summed /\ Cardinality(Aps) > 1 /\ Rounds > 1 => sum \in 2 .. Cardinality(Aps) * Rounds

\* "Critical Section": every addition counts.
NothingLost == Summed => sum = Cardinality(Aps) * Rounds

\* Whatever the reads return, an image is loaded without a gap or an overlap: at
\* the jump each one stands at its address byte by byte, headers left out, and
\* all applications are of the volume the kernel file is of.
ImagesWhole ==
  pc = "jump" =>
    \A f \in (IF IsElf THEN Apps ELSE Images) :
      \A k \in 0 .. Sizes[f] - HeadSize - 1 : mem[f][k] = <<kernel_file, f, HeadSize + k>>

\* The bss cleared is that of the kernel that was loaded, as its header or its
\* section table describes it, although every application's header overwrites the
\* description; nothing else is cleared when the table has no .bss.
BssSections == {s \in 1 .. Len(SectionTable) : SectionTable[s] = ".bss"}

KernelBssCleared ==
  pc = "jump" =>
    CASE ~IsElf -> cleared = <<kernel_file, "kernel", 0>>
      [] IsElf /\ BssSections = {} -> cleared = None
      [] IsElf /\ BssSections # {} ->
           \E s \in BssSections : cleared = <<kernel_elf_file, "kernel.elf", s>>

\* "ELF Kernel Loaded": every segment stands at its address.
SegmentsPlaced ==
  pc = "jump" /\ IsElf =>
    \A s \in 1 .. Len(Segments) : Segments[s].load =>
      \A k \in 0 .. Segments[s].len-1 :
        mem["kernel"][Segments[s].at + k] = <<kernel_elf_file, "kernel.elf", <<s, k>>>>

\* Which kernel and which applications are started depends on the volumes alone, on
\* no short read and no order of loading, and on every volume: see Handover.
Outcome    == CASE pc = "jump" -> "started" [] pc = "halted" -> "stopped" [] OTHER -> "loading"
Started(x) == IF pc = "jump" THEN x ELSE << >>
Body       == [f \in Images |-> [k \in 0 .. Sizes[f] - HeadSize - 1 |-> HeadSize + k]]
InMemory   == [f \in (IF IsElf THEN Apps ELSE Images) |-> [k \in DOMAIN Body[f] |-> mem[f][k]]]

Promise == INSTANCE Handover WITH
  alone   <- ncpu = 1,
  outcome <- Outcome,
  memory  <- Started(InMemory),
  bss     <- Started(<<cleared[1], cleared[2]>>)
HandsOver == Promise!Spec

\* The loader gets to the kernel, or stops with a message.
Boots == <>(pc \in {"jump", "halted"})
=============================================================================
