---------------------------- MODULE Multitasking ----------------------------
(***************************************************************************)
(* What the kernel promises its applications: every application is one     *)
(* sequential program on a machine of its own.  No stacks, page tables,    *)
(* interrupt frames or flags appear here.  The machine passes from task to *)
(* task in round-robin order, a switch touches no task's program counter   *)
(* and happens only between instructions of an application, and whatever   *)
(* the kernel prints for a task is printed whole, in order, unmixed.       *)
(*                                                                         *)
(* Sched implements this specification (Sched!Refines).                    *)
(***************************************************************************)
EXTENDS KernelOutput

CONSTANT N   \* number of tasks (N_TASKS), at least one: Sched!NAssumption

Tasks == 0 .. N-1

VARIABLES
  running,   \* the task that owns the machine
  at,        \* at[t]: the instruction task t executes next
  out,       \* what the kernel is printing: << >> or <<message, position>>
  line       \* the terminal's current line, a sequence of <<message, position>>

avars == <<running, at, out, line>>

Successor == [call |-> "load", load |-> "int", int |-> "ret",
              ret |-> "touch", touch |-> "call"]

Init ==
  /\ running = 0
  /\ at = [t \in Tasks |-> "call"]
  /\ out = << >>
  /\ line = << >>

Advance(t) ==      \* an instruction that stays inside the application
  /\ at[t] # "int"
  /\ at' = [at EXCEPT ![t] = Successor[@]]
  /\ UNCHANGED <<out, line>>

Say(t) ==          \* puts: the kernel begins to print the task's own string
  /\ at[t] = "int"
  /\ at' = [at EXCEPT ![t] = Successor[@]]
  /\ out' = <<AppMessage(t), 1>>
  /\ UNCHANGED line

Complain(t) ==     \* a fault: the instruction is not completed
  /\ at[t] = "touch"
  /\ out' \in {<<MapNotice, 1>>, <<Diagnosis, 1>>}
  /\ UNCHANGED <<at, line>>

Emit ==
  /\ out # << >>
  /\ out[2] <= MsgLen
  /\ line' = Printed(line, out[1], out[2])
  /\ out' = [out EXCEPT ![2] = @ + 1]
  /\ UNCHANGED <<running, at>>

Leave ==           \* a diagnosis is never left: the machine has stopped
  /\ out # << >>
  /\ out[2] > MsgLen
  /\ out[1] # Diagnosis
  /\ out' = << >>
  /\ UNCHANGED <<running, at, line>>

Switch ==
  /\ out = << >>
  /\ running' = (running + 1) % N
  /\ UNCHANGED <<at, out, line>>

Next ==
  \/ /\ out = << >>
     /\ Advance(running) \/ Say(running) \/ Complain(running)
     /\ UNCHANGED running
  \/ Emit
  \/ Leave
  \/ Switch

Spec == Init /\ [][Next]_avars
=============================================================================
