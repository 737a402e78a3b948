----------------------------- MODULE LapicTimer -----------------------------
(***************************************************************************)
(* The LAPIC timer of kernel/lapic_timer.c: measure_lapic_freq_khz() lets  *)
(* the timer count down during one pm_timer_wait_millisec() (PmTimer), and *)
(* lapic_periodic_exec() turns the result into a periodic interrupt.  Both *)
(* clocks run at the same time as the code: the LAPIC counts `speed' times *)
(* per tick of the ACPI timer.                                             *)
(*                                                                         *)
(* `wait', the argument of the inner call, stands for 1000 ms and Divisor  *)
(* for the 1000 by which the measured count is divided.                    *)
(***************************************************************************)
EXTENDS PmTimer

CONSTANTS
  Word,        \* unsigned int is arithmetic modulo Word (2^32)
  InitValue,   \* the count the measurement starts from (0x80000000)
  Divisor,     \* milliseconds in the measured time
  Speeds,      \* LAPIC counts per tick of the ACPI timer
  Periods,     \* the periods lapic_periodic_exec() is asked for, in ms
  MaxLag       \* counts in the moments next to the wait, at most

\* What the divide register may stand for (the model leaves out 8 to 128).
Divides == {1, 2, 4}

ASSUME CountAssumption ==
  /\ Word \in Nat /\ InitValue \in 1 .. Word-1
  /\ Divisor \in Nat \ {0} /\ MaxLag \in Nat
ASSUME SpeedAssumption ==
  /\ Speeds \subseteq Nat \ {0}
  /\ \A s \in Speeds, d \in Divides : s % d = 0
ASSUME PeriodsAssumption == Periods \subseteq 0 .. Word-1

VARIABLES
  place,           \* where the caller of the two functions is
  freq,            \* lapic_timer_freq_khz
  msec,            \* the argument of lapic_periodic_exec()
  callback,        \* reserved_callback is set
  lvt,             \* the LVT register: mode and mask
  divide,          \* the divide configuration register
  initial_count, current_count,
  irr,             \* a timer interrupt is waiting to be delivered
  speed, phase,    \* counts per ACPI tick, and counts since the last one
  lag              \* counts between the wait and the accesses next to it

regs  == <<lvt, divide, initial_count, current_count, irr>>
clock == <<speed, phase, lag>>
lvars == <<vars, place, freq, msec, callback, regs, clock>>

-----------------------------------------------------------------------------
\* As the firmware leaves it the timer is masked; it may have been in use.
LapicInit ==
  /\ Init
  /\ place = "mask" /\ freq = 0 /\ msec = 0 /\ callback = FALSE
  /\ lvt \in [mode : {"oneshot", "periodic"}, masked : {TRUE}]
  /\ divide \in Divides
  /\ initial_count = 0 /\ current_count = 0 /\ irr = FALSE
  /\ speed \in Speeds /\ phase \in 0 .. speed-1 /\ lag = 0

At(from, to) == place = from /\ place' = to

\* set_lvl_timer_value(mode, interrupt_id): no interrupt_id (-1) means masked.
SetLvt(mode, masked) == lvt' = [mode |-> mode, masked |-> masked]

\* set_divide_config(n): any other n clears the bits, which means 2.
DivideUnset(n)  == divide
DivideConfig(n) == IF n \in Divides THEN n ELSE 2

-----------------------------------------------------------------------------
(***************************************************************************)
(* measure_lapic_freq_khz()                                                *)
(***************************************************************************)
NotMasked == FALSE
Masked    == TRUE

Mask ==
  /\ At("mask", "divide")
  /\ SetLvt("oneshot", Masked)
  /\ UNCHANGED <<vars, freq, msec, callback, divide, initial_count, current_count, irr, clock>>

Divide ==
  /\ At("divide", "count")
  /\ divide' = DivideConfig(1)
  /\ UNCHANGED <<vars, freq, msec, callback, lvt, initial_count, current_count, irr, clock>>

\* Writing the initial count (re)starts the timer.
Count ==
  /\ At("count", "wait")
  /\ initial_count' = InitValue /\ current_count' = InitValue
  /\ UNCHANGED <<vars, freq, msec, callback, lvt, divide, irr, clock>>

Wait ==            \* pm_timer_wait_millisec(1000)
  /\ place = "wait"
  /\ Start \/ Poll
  /\ place' = IF pc' = "done" THEN "read" ELSE "wait"
  /\ UNCHANGED <<freq, msec, callback, regs, clock>>

\* A count that has run out says nothing; the frequency stays unknown.
FreqUnchecked(after) == (InitValue - after) \div Divisor
Freq(after) == IF after = 0 THEN freq ELSE (InitValue - after) \div Divisor

Read ==
  /\ At("read", "measured")
  /\ freq' = Freq(current_count)
  /\ UNCHANGED <<vars, msec, callback, regs, clock>>

-----------------------------------------------------------------------------
(***************************************************************************)
(* lapic_periodic_exec(msec, callback)                                     *)
(***************************************************************************)
CallbackLater == callback
CallbackSet   == TRUE

Exec(ms) ==
  /\ place = "measured"
  /\ place' = IF freq = 0 THEN "refused" ELSE "unmask"
  /\ callback' = IF freq = 0 THEN callback ELSE CallbackSet
  /\ msec' = ms
  /\ UNCHANGED <<vars, freq, regs, clock>>

ModeOneShot  == "oneshot"
ModePeriodic == "periodic"

Unmask ==
  /\ At("unmask", "divide_again")
  /\ SetLvt(ModePeriodic, FALSE)
  /\ UNCHANGED <<vars, freq, msec, callback, divide, initial_count, current_count, irr, clock>>

DivideAgain ==
  /\ At("divide_again", "period")
  /\ divide' = DivideConfig(1)
  /\ UNCHANGED <<vars, freq, msec, callback, lvt, initial_count, current_count, irr, clock>>

\* The product of two unsigned ints.
RoundedToKhz == ((msec \div Divisor) * Divisor * freq) % Word
PeriodCount  == (msec * freq) % Word

SetPeriod ==
  /\ At("period", "armed")
  /\ initial_count' = PeriodCount /\ current_count' = PeriodCount
  /\ UNCHANGED <<vars, freq, msec, callback, lvt, divide, irr, clock>>

Code == Mask \/ Divide \/ Count \/ Wait \/ Read \/ (\E ms \in Periods : Exec(ms))
          \/ Unmask \/ DivideAgain \/ SetPeriod

-----------------------------------------------------------------------------
\* The timer (external) counts down to 0, then interrupts unless it is masked,
\* and starts over in periodic mode.
CountDown ==
  /\ current_count' = IF current_count > 1 THEN current_count - 1
                      ELSE IF current_count = 1 /\ lvt.mode = "periodic" THEN initial_count
                      ELSE 0
  /\ irr' = (irr \/ (current_count = 1 /\ ~lvt.masked))

\* Next to the wait: the count runs, and the ACPI timer is not being polled.
Beside == place \in {"wait", "read"} /\ pc # "poll"

\* One clock for both: a count every `divide' clocks, a tick every `speed'.
Clock ==
  /\ Beside => lag < MaxLag
  /\ lag' = IF Beside THEN lag + 1 ELSE lag
  /\ phase' = (phase + 1) % speed
  /\ IF phase' = 0 /\ pc = "poll" THEN Tick ELSE UNCHANGED vars
  /\ IF phase' % divide = 0 THEN CountDown ELSE UNCHANGED <<current_count, irr>>
  /\ UNCHANGED <<place, freq, msec, callback, lvt, divide, initial_count, speed>>

\* lapic_intr_handler_internal(): calls reserved_callback and ends the interrupt.
Deliver ==
  /\ irr /\ callback
  /\ irr' = FALSE
  /\ UNCHANGED <<vars, place, freq, msec, callback, lvt, divide, initial_count,
                 current_count, clock>>

LapicNext == Code \/ Clock \/ Deliver

\* The processor and the clocks run on.
LapicSpec ==
  /\ LapicInit /\ [][LapicNext]_lvars
  /\ WF_lvars(Code) /\ WF_lvars(Clock) /\ WF_lvars(Deliver)

-----------------------------------------------------------------------------
\* No timer interrupt finds reserved_callback unset, neither while the frequency
\* is measured nor when what is left of that count runs out between the writes
\* to the LVT and to the initial count.
CallbackBeforeTick == irr => callback

\* A frequency is either unknown or right: the counts of the time that was
\* waited, up to one polling gap, a tick and the lag, and never those of a count
\* that had run out.
LowestCount  == speed * (Effective - 1) + 1
HighestCount == speed * (Effective + MaxGap) + MaxLag

MeasuresSpeed ==
  freq # 0 => freq \in LowestCount \div Divisor .. HighestCount \div Divisor

\* lapic_periodic_exec() refuses, and leaves the kernel without timer interrupts,
\* only where the measurement could not be made: the count may have run out
\* within the wait, or the timer counts less than once per 1/Divisor of it.
Unmeasurable            == HighestCount >= InitValue \/ LowestCount < Divisor
RefusesOnlyUnmeasurable == place = "refused" => Unmeasurable

\* The period that is programmed lasts as long as was asked for, if it fits an
\* unsigned int; rounding the frequency down costs less than a count per
\* 1/Divisor.
PeriodAsAsked ==
  (place = "armed" /\ msec * freq < Word) =>
     initial_count * divide * Divisor
       \in msec * (LowestCount - Divisor) .. msec * HighestCount

\* The timer interrupts again and again, unless the product was 0 modulo Word.
KeepsTicking == (place = "armed" /\ initial_count # 0 /\ ~irr) ~> irr
=============================================================================
