------------------------- MODULE LapicTimer_proofs --------------------------
(***************************************************************************)
(* What LapicTimer keeps for every speed of the two clocks: the invariants *)
(* of PmTimer, whose wait is one of its steps, CallbackBeforeTick, that    *)
(* the frequency is the counts of the time waited, unknown only where it   *)
(* cannot be measured, and that the period is programmed from it.          *)
(***************************************************************************)
EXTENDS LapicTimer, PmTimer_proofs

\* To the wait, each step of the composition is a step of PmTimer or none.
LEMMA WaitStep == ASSUME [LapicNext]_lvars PROVE [Next]_vars
<1>1. CASE Wait
  BY <1>1 DEF Wait, Next
<1>2. CASE Clock
  BY <1>2 DEF Clock, Next
<1>3. CASE ~Wait /\ ~Clock
  BY <1>3 DEF LapicNext, lvars, Code, Mask, Divide, Count, Read, Exec, Unmask,
              DivideAgain, SetPeriod, Deliver
<1>4. QED
  BY <1>1, <1>2, <1>3

\* Whatever the LAPIC timer does, the wait inside measure_lapic_freq_khz() is a
\* behaviour of pm_timer_wait_millisec() alone.
THEOREM WaitRefined == LapicSpec => Init /\ [][Next]_vars
<1>1. LapicInit => Init
  BY DEF LapicInit
<1>2. [LapicNext]_lvars => [Next]_vars
  BY WaitStep
<1> QED
  BY <1>1, <1>2, PTL DEF LapicSpec

\* And it keeps the invariant of that wait.
THEOREM WaitKept == LapicSpec => []IInv
<1>1. LapicInit => IInv
  BY InitInv DEF LapicInit
<1>2. IInv /\ [LapicNext]_lvars => IInv'
  <2>1. IInv /\ [Next]_vars => IInv'
    BY StartInv, PollInv, TickInv, StutterInv DEF Next
  <2>2. QED
    BY <2>1, WaitStep
<1>3. QED
  BY <1>1, <1>2, PTL DEF LapicSpec

\* The wait inside measure_lapic_freq_khz() is as punctual as any other, while
\* the LAPIC timer counts down beside it.
THEOREM MeasuredTime == LapicSpec => []WaitsExactly
<1>1. IInv => WaitsExactly
  BY DEF IInv
<1>2. QED
  BY <1>1, WaitKept, PTL

-----------------------------------------------------------------------------
\* The timer is unmasked only where reserved_callback has been set, and that is
\* never taken back.
Arming == {"unmask", "divide_again", "period", "armed"}

CallbackInv ==
  /\ callback \in BOOLEAN
  /\ CallbackBeforeTick
  /\ lvt.masked \in BOOLEAN
  /\ lvt.masked \/ callback
  /\ place \in Arming => callback

LEMMA CallbackStart == LapicInit => CallbackInv
BY DEF LapicInit, CallbackInv, CallbackBeforeTick, Arming

LEMMA CallbackStep == CallbackInv /\ [LapicNext]_lvars => CallbackInv'
<1> SUFFICES ASSUME CallbackInv, [LapicNext]_lvars PROVE CallbackInv'
  OBVIOUS
<1> USE DEF CallbackInv, CallbackBeforeTick, Arming
<1>1. CASE Mask
  BY <1>1 DEF Mask, At, SetLvt, Masked
<1>2. CASE Divide
  BY <1>2 DEF Divide, At
<1>3. CASE Count
  BY <1>3 DEF Count, At
<1>4. CASE Wait
  BY <1>4 DEF Wait, regs
<1>5. CASE Read
  BY <1>5 DEF Read, At, regs
<1>6. ASSUME NEW ms \in Periods, Exec(ms) PROVE CallbackInv'
  BY <1>6 DEF Exec, CallbackSet, regs
<1>7. CASE Unmask
  BY <1>7 DEF Unmask, At, SetLvt
<1>8. CASE DivideAgain
  BY <1>8 DEF DivideAgain, At
<1>9. CASE SetPeriod
  BY <1>9 DEF SetPeriod, At
<1>10. CASE Clock
  <2>1. UNCHANGED <<place, callback, lvt>>
    BY <1>10 DEF Clock
  <2>2. irr' => irr \/ ~lvt.masked
    BY <1>10 DEF Clock, CountDown
  <2>3. QED
    BY <2>1, <2>2
<1>11. CASE Deliver
  BY <1>11 DEF Deliver
<1>12. CASE UNCHANGED lvars
  BY <1>12 DEF lvars, regs
<1>13. QED
  BY <1>1, <1>2, <1>3, <1>4, <1>5, <1>6, <1>7, <1>8, <1>9, <1>10, <1>11, <1>12
     DEF LapicNext, Code

\* No timer interrupt can find reserved_callback unset, however long the writes
\* to the timer's registers take and whatever the timer was used for before.
THEOREM CallbackIsSet == LapicSpec => []CallbackBeforeTick
<1>1. CallbackInv => CallbackBeforeTick
  BY DEF CallbackInv
<1>2. QED
  BY <1>1, CallbackStart, CallbackStep, PTL DEF LapicSpec

-----------------------------------------------------------------------------
(***************************************************************************)
(* What is measured: every clock since the count was written is either a   *)
(* count of the LAPIC timer or comes after the count has run out, and the  *)
(* clocks are known from the ticks waited, the phase and the lag.          *)
(***************************************************************************)
Before    == {"mask", "divide", "count"}
Measuring == {"wait", "read"}

PlaceInv ==
  /\ place \in Before \union Measuring \union {"measured", "refused"} \union Arming
  /\ place \in Before => pc = "start" /\ lag = 0
  /\ place = "wait" => pc \in {"start", "poll"}
  /\ place = "read" => pc = "done"
  /\ place \in {"divide", "count"} \union Measuring => lvt.mode = "oneshot"
  /\ place \in {"count", "period", "armed"} \union Measuring => divide = 1
  /\ place \in Measuring => current_count <= InitValue

Counted == InitValue - current_count

\* The clocks between that write and now, at most and at least.
MostClocks ==
  IF pc = "start" THEN lag
  ELSE IF pc = "poll" THEN speed * elapsed + phase + lag
  ELSE speed * elapsed + lag + (speed - 1)
LeastClocks ==
  IF pc = "start" THEN lag
  ELSE IF pc = "poll" THEN speed * elapsed + phase + lag - (speed - 1)
  ELSE speed * elapsed + lag - (speed - 1)

CountInv ==
  place \in Measuring =>
    /\ Counted <= MostClocks
    /\ current_count > 0 => LeastClocks <= Counted

\* freq is the counts of the time waited, divided and rounded down, and the
\* period is computed from it.
FreqInv ==
  /\ MeasuresSpeed
  /\ freq # 0 => freq * Divisor \in LowestCount - Divisor .. HighestCount
  /\ (place = "measured" /\ freq = 0) \/ place = "refused" => Unmeasurable
  /\ place \in Arming => freq # 0
  /\ place = "armed" => initial_count = (msec * freq) % Word

\* The registers and what the functions keep stay within an unsigned int.
LapicTypeOK ==
  /\ TypeOK
  /\ freq \in 0 .. InitValue \div Divisor /\ msec \in Periods \union {0}
  /\ callback \in BOOLEAN /\ irr \in BOOLEAN
  /\ lvt \in [mode : {"oneshot", "periodic"}, masked : BOOLEAN]
  /\ divide \in Divides
  /\ initial_count \in 0 .. Word-1 /\ current_count \in 0 .. Word-1
  /\ speed \in Speeds /\ phase \in 0 .. speed-1 /\ lag \in 0 .. MaxLag

LInv == IInv /\ LapicTypeOK /\ PlaceInv /\ CountInv /\ FreqInv

\* Rounding down keeps the order, for a divisor that is not a literal.
LEMMA DivideMonotone ==
  ASSUME NEW d \in Nat \ {0}, NEW a \in Int, NEW b \in Int, a <= b
  PROVE  a \div d <= b \div d
<1>1. PICK q \in Int : q = a \div d /\ a = q * d + (a % d)
  OBVIOUS
<1>2. PICK r \in Int : r = b \div d /\ b = r * d + (b % d)
  OBVIOUS
<1>3. a % d \in 0 .. d-1 /\ b % d \in 0 .. d-1
  OBVIOUS
<1>4. SUFFICES ASSUME r + 1 <= q PROVE FALSE
  BY <1>1, <1>2
<1>5. (q - (r + 1)) * d >= 0
  BY <1>4
<1>6. q * d = (q - (r + 1)) * d + r * d + d
  OBVIOUS
<1>7. q * d \in Int /\ r * d \in Int /\ (q - (r + 1)) * d \in Int
  OBVIOUS
<1> QED
  BY <1>1, <1>2, <1>3, <1>5, <1>6, <1>7

\* A count divided and rounded down, multiplied again.
LEMMA Rounded ==
  ASSUME NEW d \in Nat \ {0}, NEW a \in Nat
  PROVE  a \div d \in Nat /\ (a \div d) * d \in a - d + 1 .. a
<1>1. PICK q \in Int : q = a \div d /\ a = q * d + (a % d)
  OBVIOUS
<1>2. a % d \in 0 .. d-1 /\ q * d \in Int
  OBVIOUS
<1>3. q \in Nat
  <2>1. SUFFICES ASSUME q + 1 <= 0 PROVE FALSE
    OBVIOUS
  <2>2. (0 - (q + 1)) * d >= 0
    BY <2>1
  <2>3. q * d = 0 - ((0 - (q + 1)) * d) - d
    OBVIOUS
  <2> QED
    BY <1>1, <1>2, <2>2, <2>3
<1> QED
  BY <1>1, <1>2, <1>3

LEMMA Constant ==
  /\ Word \in Nat /\ InitValue \in 1 .. Word-1 /\ Divisor \in Nat \ {0} /\ MaxLag \in Nat
  /\ \A x \in Speeds : x \in Nat \ {0}
  /\ \A x \in Periods : x \in 0 .. Word-1
BY CountAssumption, SpeedAssumption, PeriodsAssumption

\* What a step reads and writes, typed.
LEMMA Typed ==
  ASSUME LInv
  PROVE  /\ speed \in Nat \ {0} /\ phase \in 0 .. speed-1 /\ lag \in 0 .. MaxLag
         /\ current_count \in 0 .. Word-1 /\ initial_count \in 0 .. Word-1
         /\ freq \in Nat /\ msec \in Nat /\ divide \in {1, 2, 4}
         /\ elapsed \in Nat /\ wait \in Nat /\ gap \in 0 .. MaxGap
         /\ Effective \in 1 .. Period
         /\ LowestCount \in Int /\ HighestCount \in Int /\ Counted \in Int
<1> USE DEF LInv
<1>1. speed \in Nat \ {0} /\ phase \in 0 .. speed-1 /\ lag \in 0 .. MaxLag
  BY Constant DEF LapicTypeOK
<1>2. /\ current_count \in 0 .. Word-1 /\ initial_count \in 0 .. Word-1
      /\ divide \in {1, 2, 4}
  BY DEF LapicTypeOK, Divides
<1>3. freq \in Nat
  <2>1. InitValue \div Divisor \in Int
    BY Constant
  <2> QED
    BY <2>1 DEF LapicTypeOK
<1>4. msec \in Nat
  BY Constant DEF LapicTypeOK
<1>5. elapsed \in Nat /\ wait \in Nat /\ gap \in 0 .. MaxGap
  BY RequestAssumption, Positive DEF LapicTypeOK, TypeOK, MaxElapsed
<1>6. Effective \in 1 .. Period
  BY <1>5, EffectiveRange
<1>7. LowestCount \in Int /\ HighestCount \in Int
  <2>1. Effective - 1 \in Int /\ Effective + MaxGap \in Int
    BY <1>6, Positive
  <2>2. speed * (Effective - 1) \in Int /\ speed * (Effective + MaxGap) \in Int
    BY <1>1, <2>1
  <2> QED
    BY <2>2, Constant DEF LowestCount, HighestCount
<1>8. Counted \in Int
  BY <1>2, Constant DEF Counted
<1> QED
  BY <1>1, <1>2, <1>3, <1>4, <1>5, <1>6, <1>7, <1>8

\* The invariant of the wait is kept by every step of the composition.
LEMMA WaitInv ==
  ASSUME IInv, [LapicNext]_lvars PROVE IInv'
BY WaitStep, StartInv, PollInv, TickInv, StutterInv DEF Next

\* What was measured stays what it is while the bounds on it do.
LEMMA FreqStays ==
  ASSUME LInv, UNCHANGED <<wait, speed, freq>>
  PROVE  /\ MeasuresSpeed'
         /\ (freq # 0 => freq * Divisor \in LowestCount - Divisor .. HighestCount)'
         /\ Unmeasurable' = Unmeasurable
<1>1. Effective' = Effective
  BY DEF Effective
<1>2. LowestCount' = LowestCount /\ HighestCount' = HighestCount
  BY <1>1 DEF LowestCount, HighestCount
<1> QED
  BY <1>2 DEF LInv, FreqInv, MeasuresSpeed, Unmeasurable

LEMMA StartLInv ==
  ASSUME LapicInit
  PROVE  LInv
<1>1. IInv
  BY InitInv DEF LapicInit
<1>2. LapicTypeOK
  <2>1. TypeOK
    BY <1>1 DEF IInv
  <2>2. 0 \in 0 .. InitValue \div Divisor
    BY Constant, Rounded
  <2>3. /\ initial_count \in 0 .. Word-1 /\ current_count \in 0 .. Word-1
        /\ lag \in 0 .. MaxLag /\ speed \in Speeds /\ phase \in 0 .. speed-1
    BY Constant DEF LapicInit
  <2>4. lvt \in [mode : {"oneshot", "periodic"}, masked : BOOLEAN]
    BY DEF LapicInit
  <2> QED
    BY <2>1, <2>2, <2>3, <2>4 DEF LapicInit, LapicTypeOK
<1>3. PlaceInv
  BY DEF LapicInit, Init, PlaceInv, Before, Measuring, Arming
<1>4. CountInv
  BY DEF LapicInit, CountInv, Measuring
<1>5. FreqInv
  BY DEF LapicInit, FreqInv, MeasuresSpeed, Arming
<1> QED
  BY <1>1, <1>2, <1>3, <1>4, <1>5 DEF LInv

LEMMA MaskStep ==
  ASSUME LInv, Mask
  PROVE  LInv'
<1>1. /\ place = "mask" /\ place' = "divide" /\ lvt' = [mode |-> "oneshot", masked |-> TRUE]
      /\ UNCHANGED <<vars, freq, msec, callback, divide, initial_count, current_count, irr, clock>>
  BY DEF Mask, At, SetLvt, Masked
<1>2. IInv'
  BY WaitInv DEF LInv, LapicNext, Code
<1>3. LapicTypeOK'
  BY <1>1, <1>2 DEF LInv, LapicTypeOK, clock, IInv
<1>4. PlaceInv'
  BY <1>1 DEF LInv, PlaceInv, vars, clock, Before, Measuring, Arming
<1>5. CountInv'
  BY <1>1 DEF CountInv, Measuring
<1>6. FreqInv'
  BY <1>1, FreqStays DEF LInv, FreqInv, vars, clock, Arming
<1> QED
  BY <1>2, <1>3, <1>4, <1>5, <1>6 DEF LInv

\* The divide register, written before each of the two counts.
LEMMA DivideStep ==
  ASSUME LInv, Divide \/ DivideAgain
  PROVE  LInv'
<1>1. /\ \/ place = "divide" /\ place' = "count"
         \/ place = "divide_again" /\ place' = "period"
      /\ divide' = 1
      /\ UNCHANGED <<vars, freq, msec, callback, lvt, initial_count, current_count, irr, clock>>
  BY DEF Divide, DivideAgain, At, DivideConfig, Divides
<1>2. IInv'
  BY WaitInv DEF LInv, LapicNext, Code
<1>3. LapicTypeOK'
  BY <1>1, <1>2 DEF LInv, LapicTypeOK, clock, IInv, Divides
<1>4. PlaceInv'
  BY <1>1 DEF LInv, PlaceInv, vars, clock, Before, Measuring, Arming
<1>5. CountInv'
  BY <1>1 DEF CountInv, Measuring
<1>6. FreqInv'
  BY <1>1, FreqStays DEF LInv, FreqInv, vars, clock, Arming
<1> QED
  BY <1>2, <1>3, <1>4, <1>5, <1>6 DEF LInv

LEMMA CountStep ==
  ASSUME LInv, Count
  PROVE  LInv'
<1>1. /\ place = "count" /\ place' = "wait"
      /\ initial_count' = InitValue /\ current_count' = InitValue
      /\ UNCHANGED <<vars, freq, msec, callback, lvt, divide, irr, clock>>
  BY DEF Count, At
<1>2. IInv'
  BY WaitInv DEF LInv, LapicNext, Code
<1>3. LapicTypeOK'
  BY <1>1, <1>2, Constant DEF LInv, LapicTypeOK, clock, IInv
<1>4. PlaceInv'
  BY <1>1, Constant DEF LInv, PlaceInv, vars, clock, Before, Measuring, Arming
<1>5. CountInv'
  <2>1. pc' = "start" /\ lag' = 0
    BY <1>1 DEF LInv, PlaceInv, vars, clock, Before
  <2>2. Counted' = 0
    BY <1>1, Constant DEF Counted
  <2> QED
    BY <2>1, <2>2 DEF CountInv, MostClocks, LeastClocks
<1>6. FreqInv'
  BY <1>1, FreqStays DEF LInv, FreqInv, vars, clock, Arming
<1> QED
  BY <1>2, <1>3, <1>4, <1>5, <1>6 DEF LInv

\* The first and the last read of the ACPI timer.  Between them the counts are
\* known up to the phase, which is anything below speed.
LEMMA WaitStepInv ==
  ASSUME LInv, Wait
  PROVE  LInv'
<1>1. /\ place = "wait" /\ place' = IF pc' = "done" THEN "read" ELSE "wait"
      /\ UNCHANGED <<freq, msec, callback, regs, clock>>
      /\ wait' = wait /\ elapsed' = elapsed
      /\ (pc = "start" /\ pc' = "poll") \/ (pc = "poll" /\ pc' \in {"poll", "done"})
  BY DEF Wait, Start, Poll
<1>2. IInv'
  BY WaitInv DEF LInv, LapicNext, Code
<1>3. LapicTypeOK'
  BY <1>1, <1>2 DEF LInv, LapicTypeOK, clock, regs, IInv
<1>4. PlaceInv'
  BY <1>1 DEF LInv, PlaceInv, clock, regs, Before, Measuring, Arming
<1>5. CountInv'
  <2>1. /\ Counted' = Counted /\ phase' = phase /\ lag' = lag /\ speed' = speed
        /\ current_count' = current_count
    BY <1>1 DEF Counted, regs, clock
  <2>2. Counted <= MostClocks /\ (current_count > 0 => LeastClocks <= Counted)
    BY <1>1 DEF LInv, CountInv, Measuring
  <2>3. /\ speed \in Nat \ {0} /\ phase \in 0 .. speed-1 /\ lag \in Nat /\ elapsed \in Nat
        /\ Counted \in Int /\ speed * elapsed \in Int
    <3>1. speed \in Nat \ {0} /\ elapsed \in Nat
      BY Typed
    <3> QED
      BY <3>1, Typed, Constant
  <2>4. pc = "start" => speed * elapsed = 0
    <3>1. pc = "start" => elapsed = 0
      BY DEF LInv, IInv, Position
    <3> QED
      BY <2>3, <3>1
  <2>5. MostClocks <= MostClocks' /\ LeastClocks' <= LeastClocks
    BY <1>1, <2>1, <2>3, <2>4 DEF MostClocks, LeastClocks
  <2>6. /\ MostClocks \in Int /\ MostClocks' \in Int
        /\ LeastClocks \in Int /\ LeastClocks' \in Int
    BY <1>1, <2>1, <2>3 DEF MostClocks, LeastClocks
  <2> QED
    BY <2>1, <2>2, <2>3, <2>5, <2>6 DEF CountInv
<1>6. FreqInv'
  BY <1>1, FreqStays DEF LInv, FreqInv, clock, Arming
<1> QED
  BY <1>2, <1>3, <1>4, <1>5, <1>6 DEF LInv

\* The counts of a finished wait, between the bounds of MeasuresSpeed.
LEMMA Measured ==
  ASSUME LInv, place = "read"
  PROVE  /\ Counted \in Nat /\ Counted <= HighestCount
         /\ current_count # 0 => LowestCount <= Counted
<1>1. pc = "done" /\ current_count <= InitValue /\ current_count \in Nat
  BY Typed, Constant DEF LInv, PlaceInv, Measuring
<1>2. /\ Counted <= speed * elapsed + lag + (speed - 1)
      /\ current_count # 0 => speed * elapsed + lag - (speed - 1) <= Counted
  BY <1>1 DEF LInv, CountInv, MostClocks, LeastClocks, Measuring
<1>3. elapsed \in Effective .. Effective + MaxGap - 1
  BY <1>1 DEF LInv, IInv, WaitsExactly
<1>4. /\ speed \in Nat \ {0} /\ lag \in 0 .. MaxLag /\ MaxLag \in Nat /\ MaxGap \in Nat
      /\ elapsed \in Nat /\ Effective \in Nat \ {0} /\ Counted \in Int
  BY Typed, Constant, Positive
<1>5. /\ speed * elapsed = speed * (Effective - 1) + speed + speed * (elapsed - Effective)
      /\ speed * (elapsed - Effective) >= 0
  BY <1>3, <1>4
<1>6. /\ speed * (Effective + MaxGap)
           = speed * elapsed + speed + speed * (Effective + MaxGap - 1 - elapsed)
      /\ speed * (Effective + MaxGap - 1 - elapsed) >= 0
  BY <1>3, <1>4
<1>7. /\ speed * elapsed \in Int /\ speed * (Effective - 1) \in Int
      /\ speed * (elapsed - Effective) \in Int /\ speed * (Effective + MaxGap) \in Int
      /\ speed * (Effective + MaxGap - 1 - elapsed) \in Int
  BY <1>4
<1>8. Counted <= HighestCount /\ (current_count # 0 => LowestCount <= Counted)
  BY <1>2, <1>4, <1>5, <1>6, <1>7 DEF LowestCount, HighestCount
<1>9. Counted \in Nat
  BY <1>1, Typed, Constant DEF Counted
<1> QED
  BY <1>8, <1>9

LEMMA ReadStep ==
  ASSUME LInv, Read
  PROVE  LInv'
<1>1. /\ place = "read" /\ place' = "measured"
      /\ freq' = IF current_count = 0 THEN freq ELSE Counted \div Divisor
      /\ UNCHANGED <<vars, msec, callback, regs, clock>>
  BY DEF Read, At, Freq, Counted
<1>2. IInv'
  BY WaitInv DEF LInv, LapicNext, Code
<1>3. freq' \in 0 .. InitValue \div Divisor
  <2>1. CASE current_count = 0
    BY <1>1, <2>1 DEF LInv, LapicTypeOK
  <2>2. CASE current_count # 0
    <3>1. Counted \in Nat /\ Counted <= InitValue
      BY <1>1, Measured, Typed, Constant DEF Counted
    <3>2. Counted \div Divisor \in Nat /\ Counted \div Divisor <= InitValue \div Divisor
      BY <3>1, Constant, Rounded, DivideMonotone
    <3>3. InitValue \div Divisor \in Nat
      BY Constant, Rounded
    <3> QED
      BY <1>1, <2>2, <3>2, <3>3
  <2> QED
    BY <2>1, <2>2
<1>4. LapicTypeOK'
  BY <1>1, <1>2, <1>3 DEF LInv, LapicTypeOK, clock, regs, IInv
<1>5. PlaceInv'
  BY <1>1 DEF PlaceInv, Before, Measuring, Arming
<1>6. CountInv'
  BY <1>1 DEF CountInv, Measuring
<1>7. FreqInv'
  <2>1. Effective' = Effective /\ LowestCount' = LowestCount /\ HighestCount' = HighestCount
    <3>1. Effective' = Effective
      BY <1>1 DEF Effective, vars
    <3> QED
      BY <1>1, <3>1 DEF LowestCount, HighestCount, clock
  <2>2. CASE current_count = 0
    <3>1. HighestCount >= InitValue
      BY <1>1, <2>2, Measured, Typed, Constant DEF Counted
    <3> QED
      BY <1>1, <2>1, <2>2, <3>1, FreqStays DEF LInv, FreqInv, vars, clock, Arming, Unmeasurable
  <2>3. CASE current_count # 0
    <3>1. Counted \in Nat /\ Counted \in LowestCount .. HighestCount
      BY <1>1, <2>3, Measured, Typed
    <3>2. freq' = Counted \div Divisor
      BY <1>1, <2>3
    <3>3. /\ LowestCount \div Divisor <= freq' /\ freq' <= HighestCount \div Divisor
          /\ freq' \in Nat
      <4>1. /\ LowestCount \in Int /\ HighestCount \in Int /\ Divisor \in Nat \ {0}
            /\ LowestCount <= Counted /\ Counted <= HighestCount /\ Counted \in Int
        BY <3>1, Constant, Typed
      <4>2. /\ LowestCount \div Divisor <= Counted \div Divisor
            /\ Counted \div Divisor <= HighestCount \div Divisor
        BY <4>1, DivideMonotone
      <4>3. Counted \div Divisor \in Nat
        BY <3>1, <4>1, Rounded
      <4> QED
        BY <3>2, <4>2, <4>3
    <3>4. LowestCount \div Divisor \in Int /\ HighestCount \div Divisor \in Int
      BY Constant, Typed
    <3>5. MeasuresSpeed'
      BY <2>1, <3>3, <3>4 DEF MeasuresSpeed
    <3>6. freq' * Divisor \in Counted - Divisor + 1 .. Counted
      BY <3>1, <3>2, Constant, Rounded
    <3>7. freq' * Divisor \in LowestCount - Divisor .. HighestCount
      BY <3>1, <3>6, Constant, Typed
    <3>8. freq' = 0 => Unmeasurable'
      <4>1. SUFFICES ASSUME LowestCount >= Divisor PROVE freq' # 0
        BY <2>1, Constant, Typed DEF Unmeasurable
      <4>2. Divisor <= Counted /\ Divisor \in Nat \ {0} /\ Counted \in Int
        BY <3>1, <4>1, Constant, Typed
      <4>3. Divisor \div Divisor <= Counted \div Divisor
        BY <4>2, DivideMonotone
      <4>4. (0 * Divisor) \in Int /\ (0 * Divisor) = 0 /\ (Divisor \div Divisor) * Divisor >= 1
        BY <4>2, Rounded
      <4>5. Divisor \div Divisor # 0
        BY <4>2, <4>4
      <4>6. Divisor \div Divisor \in Nat /\ Counted \div Divisor \in Nat
        BY <3>1, <4>2, Rounded
      <4> QED
        BY <3>2, <4>3, <4>5, <4>6
    <3> QED
      BY <1>1, <2>1, <3>5, <3>7, <3>8 DEF FreqInv, Arming
  <2> QED
    BY <2>2, <2>3
<1> QED
  BY <1>2, <1>4, <1>5, <1>6, <1>7 DEF LInv

LEMMA ExecStep ==
  ASSUME LInv, NEW ms \in Periods, Exec(ms)
  PROVE  LInv'
<1>1. /\ place = "measured" /\ place' = IF freq = 0 THEN "refused" ELSE "unmask"
      /\ msec' = ms /\ callback' \in BOOLEAN
      /\ UNCHANGED <<vars, freq, regs, clock>>
  BY DEF Exec, CallbackSet, LInv, LapicTypeOK
<1>2. IInv'
  BY WaitInv DEF LInv, LapicNext, Code
<1>3. LapicTypeOK'
  BY <1>1, <1>2 DEF LInv, LapicTypeOK, clock, regs, IInv
<1>4. PlaceInv'
  BY <1>1 DEF PlaceInv, Before, Measuring, Arming
<1>5. CountInv'
  BY <1>1 DEF CountInv, Measuring
<1>6. FreqInv'
  BY <1>1, FreqStays DEF LInv, FreqInv, vars, clock, Arming
<1> QED
  BY <1>2, <1>3, <1>4, <1>5, <1>6 DEF LInv

LEMMA UnmaskStep ==
  ASSUME LInv, Unmask
  PROVE  LInv'
<1>1. /\ place = "unmask" /\ place' = "divide_again"
      /\ lvt' = [mode |-> "periodic", masked |-> FALSE]
      /\ UNCHANGED <<vars, freq, msec, callback, divide, initial_count, current_count, irr, clock>>
  BY DEF Unmask, At, SetLvt, ModePeriodic
<1>2. IInv'
  BY WaitInv DEF LInv, LapicNext, Code
<1>3. LapicTypeOK'
  BY <1>1, <1>2 DEF LInv, LapicTypeOK, clock, IInv
<1>4. PlaceInv'
  BY <1>1 DEF PlaceInv, Before, Measuring, Arming
<1>5. CountInv'
  BY <1>1 DEF CountInv, Measuring
<1>6. FreqInv'
  BY <1>1, FreqStays DEF LInv, FreqInv, vars, clock, Arming
<1> QED
  BY <1>2, <1>3, <1>4, <1>5, <1>6 DEF LInv

LEMMA PeriodStep ==
  ASSUME LInv, SetPeriod
  PROVE  LInv'
<1>1. /\ place = "period" /\ place' = "armed"
      /\ initial_count' = (msec * freq) % Word /\ current_count' = (msec * freq) % Word
      /\ UNCHANGED <<vars, freq, msec, callback, lvt, divide, irr, clock>>
  BY DEF SetPeriod, At, PeriodCount
<1>2. IInv'
  BY WaitInv DEF LInv, LapicNext, Code
<1>3. (msec * freq) % Word \in 0 .. Word-1
  <2>1. msec * freq \in Int /\ Word \in Nat \ {0}
    BY Typed, Constant
  <2> QED
    BY <2>1, Remainder
<1>4. LapicTypeOK'
  BY <1>1, <1>2, <1>3 DEF LInv, LapicTypeOK, clock, IInv
<1>5. PlaceInv'
  BY <1>1 DEF LInv, PlaceInv, Before, Measuring, Arming
<1>6. CountInv'
  BY <1>1 DEF CountInv, Measuring
<1>7. FreqInv'
  BY <1>1, FreqStays DEF LInv, FreqInv, vars, clock, Arming
<1> QED
  BY <1>2, <1>4, <1>5, <1>6, <1>7 DEF LInv

\* The phase starts over when a tick of the ACPI timer is due.
LEMMA PhaseStep ==
  ASSUME NEW s \in Nat \ {0}, NEW x \in 0 .. s-1
  PROVE  (x + 1) % s = IF x + 1 = s THEN 0 ELSE x + 1
<1>1. CASE x + 1 = s
  <2>1. x + 1 = 1 * s + 0 /\ 0 \in 0 .. s-1 /\ x + 1 \in Int
    BY <1>1
  <2>2. (x + 1) % s = 0
    BY <2>1, UniqueRemainder
  <2> QED
    BY <1>1, <2>2
<1>2. CASE x + 1 # s
  <2>1. x + 1 = 0 * s + (x + 1) /\ x + 1 \in 0 .. s-1
    BY <1>2
  <2>2. (x + 1) % s = x + 1
    BY <2>1, UniqueRemainder
  <2> QED
    BY <1>2, <2>2
<1> QED
  BY <1>1, <1>2

\* elapsed is far from MaxElapsed while the wait goes on.
LEMMA ElapsedTick ==
  ASSUME IInv, Tick
  PROVE  elapsed' = elapsed + 1
<1>1. /\ pc = "poll" /\ gap < MaxGap /\ wait \in Nat /\ gap \in 0 .. MaxGap
      /\ elapsed' = IF elapsed < MaxElapsed THEN elapsed + 1 ELSE elapsed
      /\ elapsed \in 0 .. MaxElapsed
  BY RequestAssumption DEF IInv, TypeOK, Tick
<1>2. /\ elapsed - gap \in 0 .. Effective-1 /\ Effective \in 1 .. Period
      /\ Period = Half + Half /\ MaxElapsed = Period + Period + Period
  BY <1>1, EffectiveRange, Positive DEF IInv, Position, LastRead, Period, MaxElapsed
<1> QED
  BY ONLY <1>1, <1>2, Positive

\* A clock: one count while the timer counts, one tick when the phase is over.
LEMMA ClockStep ==
  ASSUME LInv, Clock
  PROVE  LInv'
<1>1. /\ lag' = IF Beside THEN lag + 1 ELSE lag
      /\ Beside => lag < MaxLag
      /\ phase' = (phase + 1) % speed
      /\ IF phase' = 0 /\ pc = "poll" THEN Tick ELSE UNCHANGED vars
      /\ IF phase' % divide = 0 THEN CountDown ELSE UNCHANGED <<current_count, irr>>
      /\ UNCHANGED <<place, freq, msec, callback, lvt, divide, initial_count, speed>>
  BY DEF Clock
<1>2. IInv'
  BY WaitInv DEF LInv, LapicNext
<1>3. pc' = pc /\ wait' = wait
  BY <1>1 DEF Tick, vars
<1>4. /\ speed \in Nat \ {0} /\ phase \in 0 .. speed-1 /\ lag \in 0 .. MaxLag /\ MaxLag \in Nat
      /\ current_count \in 0 .. Word-1 /\ initial_count \in 0 .. Word-1 /\ Word \in Nat
      /\ elapsed \in Nat /\ Counted \in Int /\ InitValue \in 1 .. Word-1
  BY Typed, Constant
<1>5. phase' = IF phase + 1 = speed THEN 0 ELSE phase + 1
  BY <1>1, <1>4, PhaseStep
<1>6. phase' \in 0 .. speed-1
  BY <1>4, <1>5
<1>7. current_count' \in 0 .. Word-1 /\ irr' \in BOOLEAN
  <2>1. irr \in BOOLEAN
    BY DEF LInv, LapicTypeOK
  <2>2. CASE phase' % divide = 0
    <3>1. CountDown
      BY <1>1, <2>2
    <3>2. current_count' \in 0 .. Word-1
      BY <1>4, <3>1 DEF CountDown
    <3>3. irr' = (irr \/ (current_count = 1 /\ ~lvt.masked))
      BY <3>1 DEF CountDown
    <3>4. irr' \in BOOLEAN
      BY <3>3, Zenon
    <3> QED
      BY <3>2, <3>4
  <2>3. CASE ~(phase' % divide = 0)
    BY <1>1, <1>4, <2>1, <2>3
  <2> QED
    BY <2>2, <2>3
<1>8. LapicTypeOK'
  <2>1. lag' \in 0 .. MaxLag
    BY <1>1, <1>4
  <2> QED
    BY <1>1, <1>2, <1>6, <1>7, <2>1 DEF LInv, LapicTypeOK, IInv
\* While it measures, the timer is in one-shot mode and counts every clock.
<1>9. place \in Measuring =>
        current_count' = IF current_count > 1 THEN current_count - 1 ELSE 0
  <2> SUFFICES ASSUME place \in Measuring
               PROVE  current_count' = IF current_count > 1 THEN current_count - 1 ELSE 0
    OBVIOUS
  <2>1. lvt.mode = "oneshot" /\ divide = 1
    BY DEF LInv, PlaceInv
  <2>2. phase' % divide = 0
    <3>1. phase' \in Nat
      BY <1>4, <1>6
    <3>2. \A x \in Nat : x % 1 = 0
      OBVIOUS
    <3> QED
      BY <2>1, <3>1, <3>2
  <2> QED
    BY <1>1, <2>1, <2>2 DEF CountDown
<1>10. PlaceInv'
  <2>1. place \in Before => lag' = 0
    BY <1>1 DEF LInv, PlaceInv, Beside, Before
  <2>2. place \in Measuring => current_count' <= InitValue
    BY <1>4, <1>9 DEF LInv, PlaceInv
  <2> QED
    BY <1>1, <1>3, <2>1, <2>2 DEF LInv, PlaceInv
<1>11. CountInv'
  <2>1. SUFFICES ASSUME place \in Measuring PROVE CountInv'
    BY <1>1 DEF CountInv
  <2>2. /\ Counted' <= Counted + 1 /\ Counted' \in Int
        /\ current_count' > 0 => current_count > 0 /\ Counted' = Counted + 1
    BY <1>4, <1>9, <2>1 DEF Counted
  <2>3. Counted <= MostClocks /\ (current_count > 0 => LeastClocks <= Counted)
    BY <2>1 DEF LInv, CountInv
  <2>4. MostClocks' = MostClocks + 1 /\ LeastClocks' = LeastClocks + 1
    <3>1. pc \in {"start", "poll", "done"} /\ speed * elapsed \in Int
      BY <1>4 DEF LInv, IInv, TypeOK
    <3>2. CASE pc \in {"start", "done"}
      <4>1. lag' = lag + 1 /\ elapsed' = elapsed
        BY <1>1, <2>1, <3>2 DEF Beside, Measuring, vars
      <4> QED
        BY <1>1, <1>3, <1>4, <3>1, <3>2, <4>1 DEF MostClocks, LeastClocks
    <3>3. CASE pc = "poll"
      <4>1. lag' = lag
        BY <1>1, <3>3 DEF Beside
      <4>2. speed * elapsed' + phase' = speed * elapsed + phase + 1
        <5>1. CASE phase + 1 = speed
          <6>1. elapsed' = elapsed + 1 /\ phase' = 0
            BY <1>1, <1>5, <3>3, <5>1, ElapsedTick DEF LInv
          <6>2. speed * (elapsed + 1) = speed * elapsed + speed
            BY <1>4
          <6> QED
            BY <1>4, <5>1, <6>1, <6>2
        <5>2. CASE phase + 1 # speed
          <6>1. elapsed' = elapsed /\ phase' = phase + 1
            BY <1>1, <1>4, <1>5, <5>2 DEF vars
          <6> QED
            BY <1>4, <6>1
        <5> QED
          BY <5>1, <5>2
      <4>3. speed * elapsed' \in Int
        <5>1. elapsed' \in Int
          BY <1>2, Positive DEF IInv, TypeOK, MaxElapsed
        <5> QED
          BY <1>4, <5>1
      <4> QED
        BY <1>1, <1>3, <1>4, <1>6, <3>1, <3>3, <4>1, <4>2, <4>3 DEF MostClocks, LeastClocks
    <3> QED
      BY <3>1, <3>2, <3>3
  <2>5. MostClocks \in Int /\ LeastClocks \in Int
    <3>1. speed * elapsed \in Int
      BY <1>4
    <3> QED
      BY <1>4, <3>1 DEF MostClocks, LeastClocks
  <2> QED
    BY <1>4, <2>2, <2>3, <2>4, <2>5 DEF CountInv
<1>12. FreqInv'
  BY <1>1, <1>3, FreqStays DEF LInv, FreqInv
<1> QED
  BY <1>2, <1>8, <1>10, <1>11, <1>12 DEF LInv

LEMMA RestStep ==
  ASSUME LInv, Deliver \/ UNCHANGED lvars
  PROVE  LInv'
<1>1. UNCHANGED <<vars, place, freq, msec, callback, lvt, divide, initial_count,
                  current_count, clock>> /\ irr' \in BOOLEAN
  BY DEF Deliver, lvars, regs, LInv, LapicTypeOK
<1>2. IInv'
  BY WaitInv DEF LInv, LapicNext
<1>3. LapicTypeOK'
  BY <1>1, <1>2 DEF LInv, LapicTypeOK, clock, IInv
<1>4. PlaceInv'
  BY <1>1 DEF LInv, PlaceInv, vars, clock
<1>5. CountInv'
  BY <1>1 DEF LInv, CountInv, Counted, MostClocks, LeastClocks, vars, clock
<1>6. FreqInv'
  BY <1>1, FreqStays DEF LInv, FreqInv, vars, clock
<1> QED
  BY <1>2, <1>3, <1>4, <1>5, <1>6 DEF LInv

LEMMA StepLInv == LInv /\ [LapicNext]_lvars => LInv'
<1> SUFFICES ASSUME LInv, [LapicNext]_lvars PROVE LInv'
  OBVIOUS
<1>1. CASE Mask
  BY <1>1, MaskStep
<1>2. CASE Divide \/ DivideAgain
  BY <1>2, DivideStep
<1>3. CASE Count
  BY <1>3, CountStep
<1>4. CASE Wait
  BY <1>4, WaitStepInv
<1>5. CASE Read
  BY <1>5, ReadStep
<1>6. ASSUME NEW ms \in Periods, Exec(ms) PROVE LInv'
  BY <1>6, ExecStep
<1>7. CASE Unmask
  BY <1>7, UnmaskStep
<1>8. CASE SetPeriod
  BY <1>8, PeriodStep
<1>9. CASE Clock
  BY <1>9, ClockStep
<1>10. CASE Deliver \/ UNCHANGED lvars
  BY <1>10, RestStep
<1> QED
  BY <1>1, <1>2, <1>3, <1>4, <1>5, <1>6, <1>7, <1>8, <1>9, <1>10 DEF LapicNext, Code

\* The count read back is the clocks of the wait and of what is beside it, in
\* every interleaving of measure_lapic_freq_khz() with the two clocks.
THEOREM CountKept == LapicSpec => []LInv
<1>1. LapicInit => LInv
  BY StartLInv
<1> QED
  BY <1>1, StepLInv, PTL DEF LapicSpec

\* lapic_periodic_exec() refuses only where the measurement could not be made,
\* whatever divisor an earlier user of the timer has left behind.
THEOREM OnlyUnmeasurable == LapicSpec => []RefusesOnlyUnmeasurable
<1>1. LInv => RefusesOnlyUnmeasurable
  BY DEF LInv, FreqInv, RefusesOnlyUnmeasurable
<1> QED
  BY <1>1, CountKept, PTL

\* measure_lapic_freq_khz() leaves the frequency unknown or right, whatever the
\* speed of the clocks, the phase between them and the time beside the wait.
THEOREM SpeedMeasured == LapicSpec => []MeasuresSpeed
<1>1. LInv => MeasuresSpeed
  BY DEF LInv, FreqInv
<1> QED
  BY <1>1, CountKept, PTL

\* lapic_periodic_exec() programs the period it was asked for, unless the
\* product of milliseconds and frequency exceeds an unsigned int.
THEOREM PeriodProgrammed == LapicSpec => []PeriodAsAsked
<1>1. LInv => PeriodAsAsked
  <2> SUFFICES ASSUME LInv, place = "armed", msec * freq < Word
               PROVE  initial_count * divide * Divisor
                        \in msec * (LowestCount - Divisor) .. msec * HighestCount
    BY DEF PeriodAsAsked
  <2> DEFINE low  == LowestCount - Divisor
             rate == freq * Divisor
  <2>1. /\ freq \in Nat /\ msec \in Nat /\ Divisor \in Nat \ {0} /\ Word \in Nat \ {0}
        /\ low \in Int /\ HighestCount \in Int /\ rate \in Int
    BY Typed, Constant
  <2>2. rate \in low .. HighestCount /\ divide = 1 /\ initial_count = (msec * freq) % Word
    BY DEF LInv, FreqInv, PlaceInv, Arming
  <2>3. initial_count = msec * freq
    <3>1. msec * freq \in 0 .. Word-1
      BY <2>1
    <3>2. msec * freq = 0 * Word + msec * freq
      BY <2>1, <3>1
    <3>3. (msec * freq) % Word = msec * freq
      BY <2>1, <3>1, <3>2, UniqueRemainder
    <3> QED
      BY <2>2, <3>3
  <2>4. initial_count * divide * Divisor = msec * rate
    BY <2>1, <2>2, <2>3
  <2> HIDE DEF low, rate
  <2>5. /\ msec * rate = msec * low + msec * (rate - low) /\ msec * (rate - low) >= 0
        /\ msec * HighestCount = msec * rate + msec * (HighestCount - rate)
        /\ msec * (HighestCount - rate) >= 0
    BY <2>1, <2>2
  <2>6. /\ msec * rate \in Int /\ msec * low \in Int /\ msec * HighestCount \in Int
        /\ msec * (rate - low) \in Int /\ msec * (HighestCount - rate) \in Int
    BY <2>1
  <2>7. msec * rate \in msec * low .. msec * HighestCount
    BY <2>5, <2>6
  <2> QED
    BY <2>4, <2>7 DEF low
<1> QED
  BY <1>1, CountKept, PTL

\* The product cannot exceed an unsigned int for a period no longer than the time
\* that was measured: start() asks for 1000 ms after measuring 1000 ms, and gets
\* them at every frequency the measurement can return.
THEOREM SecondProgrammed ==
  LapicSpec => [](place = "armed" /\ msec <= Divisor =>
                    initial_count * divide * Divisor
                      \in msec * (LowestCount - Divisor) .. msec * HighestCount)
<1>1. ASSUME LInv, PeriodAsAsked, place = "armed", msec <= Divisor
      PROVE  initial_count * divide * Divisor
               \in msec * (LowestCount - Divisor) .. msec * HighestCount
  <2>1. /\ freq \in Nat /\ msec \in Nat /\ Divisor \in Nat \ {0}
        /\ InitValue \in 1 .. Word-1 /\ Word \in Nat
    BY <1>1, Typed, Constant
  <2>2. freq <= InitValue \div Divisor /\ InitValue \div Divisor \in Nat
        /\ (InitValue \div Divisor) * Divisor <= InitValue
    <3>1. InitValue \in Nat
      BY <2>1
    <3> QED
      BY <1>1, <2>1, <3>1, Rounded DEF LInv, LapicTypeOK
  <2>3. msec * freq < Word
    <3> DEFINE d == InitValue \div Divisor
    <3>1. d \in Nat /\ freq <= d /\ d * Divisor <= InitValue
      BY <2>2
    <3> HIDE DEF d
    <3>2. /\ d * Divisor = freq * msec + freq * (Divisor - msec) + (d - freq) * Divisor
          /\ freq * (Divisor - msec) >= 0 /\ (d - freq) * Divisor >= 0
      BY <1>1, <2>1, <3>1
    <3>3. /\ d * Divisor \in Int /\ freq * msec \in Int /\ freq * msec = msec * freq
          /\ freq * (Divisor - msec) \in Int /\ (d - freq) * Divisor \in Int
      BY <2>1, <3>1
    <3> QED
      BY <2>1, <3>1, <3>2, <3>3
  <2> QED
    BY <1>1, <2>3 DEF PeriodAsAsked
<1>2. LInv /\ PeriodAsAsked =>
        (place = "armed" /\ msec <= Divisor =>
           initial_count * divide * Divisor
             \in msec * (LowestCount - Divisor) .. msec * HighestCount)
  BY <1>1
<1> QED
  BY <1>2, CountKept, PeriodProgrammed, PTL
=============================================================================
