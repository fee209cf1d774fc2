----------------------------- MODULE MainLoopProofs -----------------------------
(***************************************************************************)
(* The firmware's clock never credits time that has not passed, for every  *)
(* length of a millisecond and every set of delays.                        *)
(***************************************************************************)
EXTENDS MainLoop, TLAPS

\* Neither part is inductive without the other.
IInv == TypeOK /\ NeverAhead

(* Cutting to whole milliseconds credits at most the time given, and leaves  *)
(* less than a millisecond of it.                                            *)
LEMMA ElapsedIsCut ==
  ASSUME NEW us \in Nat
  PROVE  /\ Elapsed(us) \in Nat
         /\ Elapsed(us) * Micros <= us
         /\ Elapsed(us) = 0 => us < Micros
  BY ClockAssumption DEF Elapsed

(* The loop starts with nothing to credit.                                   *)
LEMMA InitIInv == InitClock => IInv
  BY ClockAssumption DEF InitClock, IInv, TypeOK, NeverAhead, AtMost

(* A turn of the loop credits no more than has passed.                       *)
LEMMA LoopIInv == IInv /\ [Loop]_clock => IInv'
<1>. SUFFICES ASSUME IInv, [Loop]_clock
              PROVE  IInv'
  OBVIOUS
<1>1. CASE Loop
  <2>1. PICK delay \in Delays :
          /\ credited' = Elapsed(since + delay)
          /\ since' = IF Elapsed(since + delay) > 0 THEN 0 ELSE since + delay
          /\ lag' = AtMost(MaxLag, lag + delay - Elapsed(since + delay) * Micros)
    BY <1>1 DEF Loop
  <2>. DEFINE us == since + delay
              credit == Elapsed(us) * Micros
  <2>2. /\ since \in Nat /\ since < Micros /\ delay \in Nat /\ us \in Nat
        /\ lag \in Int /\ lag <= MaxLag
    BY ClockAssumption DEF IInv, TypeOK
  <2>3. /\ Elapsed(us) \in Nat /\ credit \in Nat /\ credit <= us
        /\ Elapsed(us) = 0 => us < Micros /\ credit = 0
    <3>1. Elapsed(us) \in Nat /\ credit <= us /\ (Elapsed(us) = 0 => us < Micros)
      BY <2>2, ElapsedIsCut
    <3>2. credit \in Nat /\ (Elapsed(us) = 0 => credit = 0)
      BY <3>1, ClockAssumption
    <3>3. QED
      BY <3>1, <3>2
  <2>. HIDE DEF credit
  <2>4. since <= lag
    BY <2>2, ClockAssumption DEF IInv, NeverAhead, AtMost
  <2>5. lag' = AtMost(MaxLag, lag + delay - credit)
    BY <2>1 DEF credit
  <2>6. TypeOK'
    <3>1. since' \in 0..(Micros - 1) /\ credited' \in Nat
      BY <2>1, <2>2, <2>3, ClockAssumption
    <3>2. lag' \in Int /\ lag' <= MaxLag
      BY <2>2, <2>3, <2>5, ClockAssumption DEF AtMost
    <3>3. QED
      BY <3>1, <3>2 DEF TypeOK
  <2>7. NeverAhead'
    <3>1. since' \in Nat /\ since' <= us - credit
      <4>1. CASE Elapsed(us) = 0
        BY <2>1, <2>2, <2>3, <4>1
      <4>2. CASE Elapsed(us) > 0
        BY <2>1, <2>2, <2>3, <4>2
      <4>3. QED
        BY <2>3, <4>1, <4>2
    <3>2. since' <= lag + delay - credit
      BY <2>2, <2>3, <2>4, <3>1
    <3>3. AtMost(since', MaxLag) <= AtMost(MaxLag, lag + delay - credit)
      BY <2>2, <2>3, <3>1, <3>2, ClockAssumption DEF AtMost
    <3>4. QED
      BY <2>5, <3>3 DEF NeverAhead
  <2>8. QED
    BY <2>6, <2>7 DEF IInv
<1>2. CASE UNCHANGED clock
  BY <1>2 DEF clock, IInv, TypeOK, NeverAhead, AtMost
<1>3. QED
  BY <1>1, <1>2

(* The focuser is never ahead of the clock: the milliseconds credited to it  *)
(* never exceed the time that passed, whatever the scheduler does.           *)
THEOREM NeverAheadOfClock == ClockSpec => []NeverAhead
<1>1. IInv => NeverAhead
  BY DEF IInv
<1>2. QED
  BY <1>1, InitIInv, LoopIInv, PTL DEF ClockSpec

(* What is carried from turn to turn stays below a millisecond.              *)
THEOREM ClockTypeCorrect == ClockSpec => []TypeOK
<1>1. IInv => TypeOK
  BY DEF IInv
<1>2. QED
  BY <1>1, InitIInv, LoopIInv, PTL DEF ClockSpec
=============================================================================
