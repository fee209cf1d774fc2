-------------------------------- MODULE MainLoop --------------------------------
(***************************************************************************)
(* The clock of app_main's loop (main.cpp): time is read in microseconds,  *)
(* whole milliseconds of it are credited to the focuser, and the delay     *)
(* between two turns is whatever the scheduler makes of vTaskDelay.        *)
(***************************************************************************)
EXTENDS Integers

CONSTANTS
  Micros,     \* microseconds in a millisecond (1000)
  Delays,     \* microseconds a turn of the loop may take
  MaxLag      \* bound: the lag is not counted beyond this

ASSUME ClockAssumption ==
  /\ Micros \in Nat \ {0} /\ MaxLag \in Nat /\ MaxLag >= Micros
  /\ Delays \subseteq Nat

VARIABLES
  since,      \* now_us - last_us as the loop starts a turn
  credited,   \* elapsed_ms of the last turn
  lag         \* microseconds that passed and were not credited, up to MaxLag

clock == << since, credited, lag >>

InitClock ==
  /\ since = 0
  /\ credited = 0
  /\ lag = 0

AtMost(a, b) == IF a <= b THEN a ELSE b

\* Mutant: rounded up.
ElapsedRoundedUp(us) == (us + Micros - 1) \div Micros

\* elapsed_ms, cut to whole milliseconds.
Elapsed(us) == us \div Micros

\* Mutant: a turn that credits nothing forgets the turns before it.
LoopForgetsShortTurns ==
  \E delay \in Delays :
    LET us == since + delay
    IN  /\ credited' = Elapsed(us)
        /\ since' = IF Elapsed(us) > 0 THEN 0 ELSE delay
        /\ lag' = AtMost(MaxLag, lag + delay - Elapsed(us) * Micros)

\* Mutant: last_us never moved on.
LoopNeverResets ==
  \E delay \in Delays :
    LET us == since + delay
    IN  /\ credited' = Elapsed(us)
        /\ since' = us
        /\ lag' = AtMost(MaxLag, lag + delay - Elapsed(us) * Micros)

\* One turn: the time read is us after last_us.
Loop ==
  \E delay \in Delays :
    LET us == since + delay
    IN  /\ credited' = Elapsed(us)
        /\ since' = IF Elapsed(us) > 0 THEN 0 ELSE us
        /\ lag' = AtMost(MaxLag, lag + delay - Elapsed(us) * Micros)

ClockSpec == InitClock /\ [][Loop]_clock

-----------------------------------------------------------------------------
(* Properties *)

(* The counters stay in their types, and a turn that credits nothing leaves  *)
(* less than a millisecond to be credited by a later one.                    *)
TypeOK ==
  /\ since \in 0..(Micros - 1)
  /\ credited \in Nat
  /\ lag \in Int /\ lag <= MaxLag

(* The focuser is never ahead of the clock: no more travel is credited than  *)
(* time has passed, and what is still to be credited is part of the lag.     *)
NeverAhead == AtMost(since, MaxLag) <= lag

(* However short the turns of the loop, travel is credited again and again.  *)
CreditsForever == []<>(credited > 0)
=============================================================================
