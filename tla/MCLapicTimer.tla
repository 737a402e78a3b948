---------------------------- MODULE MCLapicTimer ----------------------------
(***************************************************************************)
(* Instances of LapicTimer, with PmTimer inside it, for TLC.  Requests run *)
(* past two periods of the ACPI timer.                                     *)
(***************************************************************************)
EXTENDS LapicTimer

SomeRequests == {0, 1, 3, 5, Period, 2 * Period + 1}
SomeSpeeds   == {4, 8}

\* With the frequencies measured here some products fit Word, some wrap, and
\* some wrap to 0.
SomePeriods == {0, 7, 13}
=============================================================================
