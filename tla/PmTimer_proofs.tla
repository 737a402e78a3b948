--------------------------- MODULE PmTimer_proofs ---------------------------
(***************************************************************************)
(* Proofs about PmTimer, for every width of the counter and every polling  *)
(* gap up to half its period.  The counter is only known modulo the        *)
(* period; the invariant says how it is related to the elapsed time.       *)
(***************************************************************************)
EXTENDS PmTimer, TLAPS

LEMMA Positive == Period \in Nat /\ Period > 0 /\ MaxGap \in 1 .. Half /\ Half \in Nat \ {0}
BY PeriodAssumption, GapAssumption DEF Period

\* Division with remainder, for a divisor that is not a literal.
LEMMA Remainder ==
  ASSUME NEW a \in Int, NEW p \in Nat \ {0}
  PROVE  a % p \in 0 .. p-1 /\ \E q \in Int : a = q * p + (a % p)
<1>1. a % p \in 0 .. p-1
  OBVIOUS
<1>2. a = (a \div p) * p + (a % p) /\ a \div p \in Int
  OBVIOUS
<1>3. QED BY <1>1, <1>2

\* The same for the counter's period, with the multiples typed.
LEMMA PeriodRemainder ==
  ASSUME NEW a \in Int
  PROVE  /\ a % Period \in 0 .. Period-1
         /\ \E q \in Int : a = q * Period + (a % Period)
<1>1. Period \in Nat \ {0}
  BY Positive
<1>2. QED BY <1>1, Remainder

LEMMA Multiples == \A k \in Int : k * Period \in Int
BY Positive

LEMMA Multiple ==
  ASSUME NEW d \in Int, NEW p \in Nat \ {0}, d * p < p, -p < d * p
  PROVE  d = 0
<1>1. CASE d >= 1
  <2>1. (d-1) * p >= 0
    BY <1>1
  <2>2. d * p = (d-1) * p + p
    OBVIOUS
  <2>3. QED BY <2>1, <2>2
<1>2. CASE d <= -1
  <2>1. (-d-1) * p >= 0
    BY <1>2
  <2>2. -(d * p) = (-d-1) * p + p
    OBVIOUS
  <2>3. QED BY <2>1, <2>2
<1>3. QED BY <1>1, <1>2

LEMMA UniqueRemainder ==
  ASSUME NEW p \in Nat \ {0}, NEW q \in Int, NEW r \in 0 .. p-1, NEW a \in Int, a = q * p + r
  PROVE  a % p = r
<1>1. PICK s \in Int : a = s * p + (a % p)
  BY Remainder
<1>2. a % p \in 0 .. p-1
  BY Remainder
<1>3. (q - s) * p = (a % p) - r
  BY <1>1, <1>2
<1>4. q - s = 0
  BY <1>2, <1>3, Multiple
<1>5. (q - s) * p = 0
  BY <1>4
<1>6. QED BY <1>2, <1>3, <1>5

-----------------------------------------------------------------------------
\* Nothing has elapsed before the first read.  While polling, the counter stands
\* where the elapsed time says, up to whole periods, and the last read was not
\* behind the target.
Position ==
  /\ pc = "start" => elapsed = 0 /\ gap = 0
  /\ pc = "poll" =>
       /\ LastRead \in 0 .. Effective-1
       /\ \E k \in Int : timer - t1 = (elapsed - Effective) + k * Period

IInv == TypeOK /\ Position /\ HalfPeriods /\ WaitsExactly

LEMMA EffectiveRange ==
  ASSUME wait \in Nat PROVE Effective \in 1 .. Period
<1>1. wait % Period \in 0 .. Period-1
  BY Positive, Remainder
<1>2. QED BY <1>1, Positive DEF Effective

\* get_timer_half_state() within a period before the target and half a period
\* behind it.
LEMMA HalfStateAt ==
  ASSUME NEW cur \in Int, NEW target \in Int, NEW k \in Int,
         NEW x \in (0 - Period) .. Half-1, cur - target = x + k * Period
  PROVE  HalfState(cur, target) = IF x \in (0 - Half) .. 0-1 THEN -1 ELSE 1
<1>1. Period = Half + Half /\ Half \in Nat \ {0} /\ Period \in Nat \ {0}
  BY PeriodAssumption DEF Period
<1>2. CASE x >= 0
  <2>0. k * Period \in Int
    BY Multiples
  <2>1. x \in 0 .. Period-1 /\ cur - target = k * Period + x
    BY <2>0, <1>1, <1>2
  <2>2. (cur - target) % Period = x
    <3>1. cur - target \in Int
      OBVIOUS
    <3>2. k * Period + x = cur - target
      BY <2>1
    <3>3. \A a \in Int : a = k * Period + x => a % Period = x
      <4>1. x \in 0 .. Period-1 /\ Period \in Nat \ {0} /\ k \in Int
        BY <2>1, <1>1
      <4>2. QED BY ONLY <4>1, UniqueRemainder
    <3>4. QED BY <3>1, <3>2, <3>3
  <2>3. QED BY ONLY <2>2, <1>1, <1>2, x \in (0 - Period) .. Half-1 DEF HalfState
<1>3. CASE x < 0
  <2>1. x + Period \in 0 .. Period-1 /\ k - 1 \in Int
    BY <1>1, <1>3
  <2>2. cur - target = (k - 1) * Period + (x + Period)
    BY <1>1
  <2>3. (cur - target) % Period = x + Period
    BY <2>1, <2>2, <1>1, UniqueRemainder
  <2>4. QED BY ONLY <2>3, <1>1, <1>3, x \in (0 - Period) .. Half-1 DEF HalfState
<1>4. QED BY <1>1, <1>2, <1>3

LEMMA HalfStateValue == \A cur, target \in Int : HalfState(cur, target) \in {-1, 1}
BY DEF HalfState

LEMMA InitInv == Init => IInv
BY Positive, RequestAssumption
DEF Init, IInv, TypeOK, Position, HalfPeriods, WaitsExactly, MaxElapsed

LEMMA StartInv == IInv /\ Start => IInv'
<1> SUFFICES ASSUME IInv, Start PROVE IInv'
  OBVIOUS
<1>1. /\ pc = "start" /\ pc' = "poll" /\ wait' = wait /\ timer' = timer
      /\ elapsed = 0 /\ elapsed' = 0 /\ gap' = 0
      /\ t1' = (timer + wait) % Period /\ cur_state' = HalfState(timer, t1')
      /\ wait \in Nat /\ wait \in Requests /\ timer \in 0 .. Period-1
  <2>1. pc = "start"
    BY DEF Start
  <2>2. QED BY <2>1, RequestAssumption DEF IInv, TypeOK, Position, Start, Target
<1>2. Period \in Nat \ {0} /\ Effective' = Effective /\ Effective \in 1 .. Period
  BY <1>1, Positive, EffectiveRange DEF Effective
<1>3. t1' \in 0 .. Period-1 /\ \E q \in Int : timer + wait = q * Period + t1'
  <2>1. timer + wait \in Int
    BY <1>1
  <2>2. QED BY <2>1, <1>1, PeriodRemainder
<1>4. PICK q \in Int : timer + wait = q * Period + t1'
  BY <1>3
<1>5. wait % Period \in 0 .. Period-1 /\ \E s \in Int : wait = s * Period + (wait % Period)
  <2>1. wait \in Int
    BY <1>1
  <2>2. QED BY <2>1, PeriodRemainder
<1>6. PICK s \in Int : wait = s * Period + (wait % Period)
  BY <1>5
<1>7. PICK e \in Int : wait = e * Period + Effective
  <2>1. CASE wait % Period = 0
    <3>1. wait = (s - 1) * Period + Period /\ Effective = Period
      BY <2>1, <1>2, <1>6 DEF Effective
    <3>2. QED BY <3>1
  <2>2. CASE wait % Period # 0
    BY <2>2, <1>6 DEF Effective
  <2>3. QED BY <2>1, <2>2
<1>8. timer' - t1' = (0 - Effective) + (q - e) * Period
  <2>1. (q - e) * Period = q * Period - e * Period
    BY <1>2
  <2>2. q * Period \in Int /\ e * Period \in Int
    BY Multiples
  <2>3. QED BY ONLY <2>1, <2>2, <1>1, <1>2, <1>3, <1>4, <1>7
<1>9. cur_state' = IF 0 - Effective \in (0 - Half) .. 0-1 THEN -1 ELSE 1
  <2>1. 0 - Effective \in (0 - Period) .. Half-1
    BY <1>2, Positive
  <2>2. timer \in Int /\ t1' \in Int /\ q - e \in Int
    BY <1>1, <1>2, <1>3
  <2>3. QED BY <2>1, <2>2, <1>1, <1>8, HalfStateAt
<1>10. LastRead' = 0
  BY <1>1 DEF LastRead
<1>11. TypeOK'
  BY <1>1, <1>3, <1>9, <1>2, Positive DEF TypeOK, MaxElapsed
<1>12. Position'
  <2>1. timer' - t1' = (elapsed' - Effective') + (q - e) * Period /\ q - e \in Int
    BY <1>1, <1>2, <1>8
  <2>2. LastRead' \in 0 .. Effective'-1
    BY <1>2, <1>10
  <2>3. QED BY <1>1, <2>1, <2>2 DEF Position
<1>13. HalfPeriods'
  BY <1>1, <1>2, <1>9, <1>10, Positive DEF HalfPeriods
<1>14. WaitsExactly'
  BY <1>1, <1>2, Positive DEF WaitsExactly
<1>15. QED BY <1>11, <1>12, <1>13, <1>14 DEF IInv

LEMMA PollInv == IInv /\ Poll => IInv'
<1> SUFFICES ASSUME IInv, Poll PROVE IInv'
  OBVIOUS
<1> DEFINE next == HalfState(timer, t1)
           x == elapsed - Effective
<1>1. /\ pc = "poll" /\ wait' = wait /\ timer' = timer /\ t1' = t1
      /\ elapsed' = elapsed /\ gap' = 0
      /\ wait \in Nat /\ timer \in Int /\ t1 \in Int /\ gap \in 0 .. MaxGap
      /\ elapsed \in Nat /\ elapsed \in 0 .. MaxElapsed /\ cur_state \in {-1, 1}
  BY Positive, RequestAssumption DEF IInv, TypeOK, Poll, MaxElapsed
<1>2. Effective' = Effective /\ Effective \in 1 .. Period
  BY <1>1, EffectiveRange DEF Effective
<1>3. /\ elapsed - gap \in 0 .. Effective-1
      /\ \E k \in Int : timer - t1 = x + k * Period
      /\ cur_state = IF Effective - (elapsed - gap) \in 1 .. Half THEN -1 ELSE 1
  BY <1>1 DEF IInv, Position, HalfPeriods, LastRead
<1>4. x \in (0 - Period) .. Half-1
  BY <1>1, <1>2, <1>3, Positive
<1>5. next = IF x \in (0 - Half) .. 0-1 THEN -1 ELSE 1
  BY <1>1, <1>3, <1>4, HalfStateAt
<1> HIDE DEF next
<1>6. LastRead' = elapsed
  BY <1>1 DEF LastRead
<1>7. CASE Passed(next)
  <2>1. pc' = "done" /\ cur_state' = cur_state /\ cur_state = -1 /\ next = 1
    BY <1>7 DEF Poll, Passed, next
  <2>2. elapsed \in Effective .. Effective + MaxGap - 1
    BY ONLY <2>1, <1>1, <1>2, <1>3, <1>4, <1>5, Positive
  <2>3. TypeOK'
    BY <1>1, <2>1, Positive DEF IInv, TypeOK
  <2>4. QED BY <2>1, <2>2, <2>3, <1>1, <1>2 DEF IInv, Position, HalfPeriods, WaitsExactly
<1>8. CASE ~Passed(next)
  <2>1. pc' = "poll" /\ cur_state' = next /\ ~(cur_state = -1 /\ next = 1)
    BY <1>1, <1>8 DEF Poll, Passed, next, Remembered
  <2>2. elapsed \in 0 .. Effective-1
    BY ONLY <2>1, <1>1, <1>2, <1>3, <1>4, <1>5, Positive
  <2>3. TypeOK'
    BY <1>1, <1>5, <2>1, Positive DEF IInv, TypeOK
  <2>4. Position'
    BY <1>1, <1>2, <1>3, <1>6, <2>1, <2>2 DEF Position
  <2>5. HalfPeriods'
    <3>1. next = IF Effective - elapsed \in 1 .. Half THEN -1 ELSE 1
      BY ONLY <1>1, <1>2, <1>5, Positive
    <3>2. QED BY <3>1, <1>2, <1>6, <2>1 DEF HalfPeriods
  <2>6. WaitsExactly'
    BY <1>1, <1>2, <2>1, <2>2, Positive DEF WaitsExactly
  <2>7. QED BY <2>3, <2>4, <2>5, <2>6 DEF IInv
<1>9. QED BY <1>7, <1>8

LEMMA TickInv == IInv /\ Tick => IInv'
<1> SUFFICES ASSUME IInv, Tick PROVE IInv'
  OBVIOUS
<1>1. /\ pc = "poll" /\ pc' = "poll" /\ wait' = wait /\ t1' = t1
      /\ cur_state' = cur_state /\ gap' = gap + 1 /\ gap < MaxGap
      /\ timer' = (timer + 1) % Period
      /\ elapsed' = IF elapsed < MaxElapsed THEN elapsed + 1 ELSE elapsed
      /\ wait \in Nat /\ timer \in Int /\ t1 \in Int /\ gap \in 0 .. MaxGap
      /\ elapsed \in 0 .. MaxElapsed
  BY Positive, RequestAssumption DEF IInv, TypeOK, Tick
<1>2. Effective' = Effective /\ Effective \in 1 .. Period
  BY <1>1, EffectiveRange DEF Effective
<1>3. PICK k \in Int : timer - t1 = (elapsed - Effective) + k * Period
  BY <1>1 DEF IInv, Position
<1>4. /\ elapsed - gap \in 0 .. Effective-1
      /\ Period = Half + Half /\ MaxElapsed = Period + Period + Period
  BY <1>1, Positive DEF IInv, Position, LastRead, Period, MaxElapsed
<1>5. elapsed' = elapsed + 1 /\ elapsed + 1 < Effective + MaxGap
  BY ONLY <1>1, <1>2, <1>4, Positive
<1>6. LastRead' = LastRead
  BY <1>1, <1>5 DEF LastRead
<1>7. PICK s \in Int : timer + 1 = s * Period + ((timer + 1) % Period)
  <2>1. timer + 1 \in Int
    BY <1>1
  <2>2. QED BY <2>1, PeriodRemainder
<1>8. timer' \in 0 .. Period-1
  <2>1. timer + 1 \in Int
    BY <1>1
  <2>2. QED BY <2>1, <1>1, PeriodRemainder
<1>9. timer' - t1' = (elapsed' - Effective') + (k - s) * Period
  <2>1. (k - s) * Period = k * Period - s * Period
    BY Positive
  <2>2. k * Period \in Int /\ s * Period \in Int /\ timer' \in Int
    BY <1>8, Multiples
  <2>3. timer + 1 = s * Period + timer'
    BY <1>1, <1>7
  <2>4. timer - t1 = (elapsed - Effective) + k * Period
    BY <1>3
  <2> DEFINE kp == k * Period
             sp == s * Period
             ksp == (k - s) * Period
  <2>5. ksp = kp - sp /\ kp \in Int /\ sp \in Int /\ timer' \in Int /\ timer + 1 = sp + timer'
    BY <2>1, <2>2, <2>3
  <2>6. timer - t1 = (elapsed - Effective) + kp
    BY <2>4
  <2> HIDE DEF kp, sp, ksp
  <2>7. timer' - t1' = (elapsed' - Effective') + ksp
    BY ONLY <2>5, <2>6, <1>1, <1>2, <1>5
  <2>8. QED BY <2>7 DEF ksp
<1>10. TypeOK'
  BY <1>1, <1>2, <1>4, <1>5, <1>8, Positive DEF IInv, TypeOK, MaxElapsed
<1>11. Position'
  <2>1. k - s \in Int
    OBVIOUS
  <2>2. \E j \in Int : timer' - t1' = (elapsed' - Effective') + j * Period
    BY <2>1, <1>9
  <2>3. LastRead' \in 0 .. Effective'-1
    BY <1>1, <1>2, <1>6 DEF IInv, Position
  <2>4. QED BY <1>1, <2>2, <2>3 DEF Position
<1>12. HalfPeriods'
  BY <1>1, <1>2, <1>6 DEF IInv, HalfPeriods
<1>13. WaitsExactly'
  BY <1>1, <1>2, <1>5 DEF WaitsExactly
<1>14. QED BY <1>10, <1>11, <1>12, <1>13 DEF IInv

LEMMA StutterInv == IInv /\ UNCHANGED vars => IInv'
BY DEF IInv, vars, TypeOK, Position, HalfPeriods, WaitsExactly, Effective, LastRead

THEOREM Invariance == Spec => []IInv
<1>1. IInv /\ [Next]_vars => IInv'
  BY StartInv, PollInv, TickInv, StutterInv DEF Next
<1>2. QED BY <1>1, InitInv, PTL DEF Spec

\* The target and every value read stay within one period of the counter, for
\* every width of the counter and every wait.
THEOREM TypeCorrect == Spec => []TypeOK
<1>1. IInv => TypeOK
  BY DEF IInv
<1>2. QED
  BY <1>1, Invariance, PTL

\* Relative to the wait the code makes, the request modulo one period of the
\* counter, pm_timer_wait_millisec() never returns early, and less than one
\* polling gap late.
THEOREM Punctual == Spec => []WaitsExactly
<1>1. IInv => WaitsExactly BY DEF IInv
<1>2. QED BY <1>1, Invariance, PTL

\* At every read get_timer_half_state() tells which half of the period around
\* the target the counter is in, as its comments say.
THEOREM HalvesAsDescribed == Spec => []HalfPeriods
<1>1. IInv => HalfPeriods BY DEF IInv
<1>2. QED BY <1>1, Invariance, PTL
=============================================================================
