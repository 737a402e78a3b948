------------------------------ MODULE PmTimer -------------------------------
(***************************************************************************)
(* pm_timer_wait_millisec() of kernel/pm_timer.c polling the ACPI timer, a *)
(* counter that wraps after Period ticks (2^24, or 2^32 when the FADT says *)
(* so) and runs on between two reads.  Times are in ticks of freq_hz: the  *)
(* conversion msec * freq_hz / 1000 is 64 bits wide and loses nothing.     *)
(***************************************************************************)
EXTENDS Integers

CONSTANTS
  Half,        \* the counter's highest bit: half its period
  MaxGap,      \* ticks between two reads of the timer, at most
  Requests     \* the waits asked for, in ticks

ASSUME PeriodAssumption == Half \in Nat \ {0}
ASSUME GapAssumption == MaxGap \in 1 .. Half
ASSUME RequestAssumption == Requests \subseteq Nat

Period == 2 * Half

VARIABLES
  pc,          \* "start", "poll" or "done"
  wait,        \* the ticks this call was asked to wait for
  t1,          \* target time
  cur_state,   \* half state at the last read: -1 or 1
  timer,       \* the counter
  gap,         \* ticks since the last read
  elapsed      \* ticks since the first read

vars == <<pc, wait, t1, cur_state, timer, gap, elapsed>>

\* (cur - target) & get_mask() & get_highest_bit(): the mask makes the 32-bit
\* difference one modulo the period.
WrongHalf(cur, target) == IF (cur - target) % Period > Half THEN -1 ELSE 1
HalfState(cur, target) == IF (cur - target) % Period >= Half THEN -1 ELSE 1

Init ==
  /\ pc = "start"
  /\ wait \in Requests
  /\ timer \in 0 .. Period-1      \* the timer has been running
  /\ t1 = 0 /\ cur_state = 1 /\ gap = 0 /\ elapsed = 0

Unmasked(t0) == t0 + wait
Target(t0)   == (t0 + wait) % Period

Start ==
  /\ pc = "start"
  /\ t1' = Target(timer)
  /\ cur_state' = HalfState(timer, t1')
  /\ pc' = "poll"
  /\ gap' = 0
  /\ UNCHANGED <<wait, timer, elapsed>>

\* A transition from -1 to 1 means that the timer passed t1.
AnyChange(next) == next # cur_state
Passed(next)    == cur_state = -1 /\ next = 1
Forgotten(next)  == cur_state
Remembered(next) == next

Poll ==
  /\ pc = "poll"
  /\ LET next == HalfState(timer, t1)
     IN  IF Passed(next) THEN pc' = "done" /\ UNCHANGED cur_state
         ELSE cur_state' = Remembered(next) /\ UNCHANGED pc
  /\ gap' = 0
  /\ UNCHANGED <<wait, t1, timer, elapsed>>

\* The timer ticks (external), at most MaxGap times without being read.  elapsed
\* is only there to be compared and stops at MaxElapsed.
MaxElapsed == 3 * Period
Tick ==
  /\ pc = "poll" /\ gap < MaxGap
  /\ timer' = (timer + 1) % Period
  /\ gap' = gap + 1
  /\ elapsed' = IF elapsed < MaxElapsed THEN elapsed + 1 ELSE elapsed
  /\ UNCHANGED <<pc, wait, t1, cur_state>>

Next == Start \/ Poll \/ Tick

Spec == Init /\ [][Next]_vars /\ WF_vars(Start \/ Poll) /\ WF_vars(Tick)

-----------------------------------------------------------------------------
\* Types: the target and the counter stay inside one period of the timer.
TypeOK ==
  /\ pc \in {"start", "poll", "done"}
  /\ wait \in Requests
  /\ t1 \in 0 .. Period-1 /\ timer \in 0 .. Period-1
  /\ cur_state \in {-1, 1}
  /\ gap \in 0 .. MaxGap
  /\ elapsed \in 0 .. MaxElapsed

\* How long the code waits: whole periods are lost, and a wait of no ticks
\* takes one full period.
Effective == IF wait % Period = 0 THEN Period ELSE wait % Period

\* Whatever the counter's value and however the reads fall, a wait ends no earlier
\* than the ticks the code waits for, the request modulo one period of the
\* counter, and less than one polling gap after them.
WaitsExactly ==
  /\ pc = "poll" => elapsed < Effective + MaxGap
  /\ pc = "done" => elapsed \in Effective .. Effective + MaxGap - 1

\* The half states the comments on get_timer_half_state() describe, at the last
\* read: -1 in the half period before the target, 1 in the one behind it.
LastRead == elapsed - gap
HalfPeriods ==
  pc = "poll" =>
    cur_state = (IF Effective - LastRead \in 1 .. Half THEN -1 ELSE 1)

\* The wait is over at some point.
Returns == <>(pc = "done")
=============================================================================
