------------------------------ MODULE Handover ------------------------------
(***************************************************************************)
(* What efi_main() promises: the machine goes to one kernel, with the      *)
(* applications of the same volume, all in memory byte by byte, and which  *)
(* ones is decided by what is on the volumes alone; or the loader stops.   *)
(* No order of loading, buffers, file positions or short reads appear here.*)
(*                                                                         *)
(* BootLoader implements this specification (BootLoader!HandsOver).        *)
(***************************************************************************)
EXTENDS Naturals, Sequences

CONSTANTS
  Disks,         \* sequences of volumes
  Images,        \* what may be loaded as a whole: "kernel" and the applications
  Body           \* Body[f]: the positions of image f in its file, from 0

VARIABLES
  disk, alone,   \* what the firmware reports: volumes, and whether one processor
  outcome,       \* "loading", "started" or "stopped"
  memory,        \* at the start: image -> position -> <<volume, file, position>>
  bss            \* at the start: the file whose description of the bss was followed

hvars == <<disk, alone, outcome, memory, bss>>

Init ==
  /\ disk \in Disks /\ alone \in BOOLEAN
  /\ outcome = "loading" /\ memory = << >> /\ bss = << >>

\* A volume with a file that looks like a kernel has to have all that is started.
Kernel(v) == v.kernel \/ v.other \/ v.elf # "none"
Usable(v) == ~v.long /\ (Kernel(v) => v.kernel /\ v.apps)

\* The last volume wins; the last kernel.elf too, on whatever volume it is.
LastOf(S)  == CHOOSE v \in S : \A w \in S : w <= v
Kernels    == {v \in 1 .. Len(disk) : Kernel(disk[v])}
Elfs       == {v \in Kernels : disk[v].elf # "none"}
Executable == Elfs # {} /\ disk[LastOf(Elfs)].elf # "bad"

\* kernel.elf, where there is one, takes the place of the plain kernel.
Whole  == IF Executable THEN Images \ {"kernel"} ELSE Images
Placed == [f \in Whole |-> [k \in DOMAIN Body[f] |-> <<LastOf(Kernels), f, Body[f][k]>>]]
Described ==
  IF Executable THEN {<<LastOf(Elfs), "kernel.elf">>, <<0, "none">>}
                ELSE {<<LastOf(Kernels), "kernel">>}

Start ==
  /\ outcome = "loading"
  /\ ~alone /\ Kernels # {} /\ \A v \in 1 .. Len(disk) : Usable(disk[v])
  /\ outcome' = "started"
  /\ memory' = Placed
  /\ bss' \in Described
  /\ UNCHANGED <<disk, alone>>

Stop ==            \* for whatever the firmware does, too
  /\ outcome = "loading"
  /\ outcome' = "stopped"
  /\ UNCHANGED <<disk, alone, memory, bss>>

Next == Start \/ Stop

Spec == Init /\ [][Next]_hvars
=============================================================================
