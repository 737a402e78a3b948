---------------------------- MODULE KernelOutput ----------------------------
(***************************************************************************)
(* The strings the running system prints and the terminal line they end up *)
(* in, as far as Sched and Multitasking tell them apart: a string is its   *)
(* author, a character is <<string, position>>.  The terminal itself, its  *)
(* buffer and its screen, is module Terminal.                              *)
(***************************************************************************)
EXTENDS Integers, Sequences

CONSTANTS
  MsgLen,    \* characters in a message; the last one is the line feed
  Columns    \* n_chars_in_line

ASSUME OutputAssumption == MsgLen \in Nat \ {0} /\ Columns \in Nat \ {0}

AppMessage(t) == <<"app", t>>      \* "Hello from app<t>"
TestMessage   == <<"test", 0>>     \* "syspro! this is printed ..."
MapNotice     == <<"map", 0>>      \* "! kernel: mapping additional page"
Diagnosis     == <<"panic", 0>>    \* "Page fault(...)", then the address
Garbage       == <<"garbage", 0>>  \* what a clobbered string pointer points to

\* putc(): the line feed starts a new line, and so does a character that no
\* longer fits.  Garbage has no line feed of its own.
Printed(line, msg, i) ==
  IF i = MsgLen /\ msg # Garbage THEN << >>
  ELSE IF Len(line) = Columns THEN << <<msg, i>> >>
  ELSE Append(line, <<msg, i>>)
=============================================================================
