--------------------------- MODULE HostPersonaProofs ---------------------------
(***************************************************************************)
(* Proofs about the Python vehicle, for every byte radix, rate, resolution *)
(* and set of reports: its types, and that it implements EafContract.      *)
(***************************************************************************)
EXTENDS HostPersona, TLAPS

-----------------------------------------------------------------------------
(* Lemmas about the integration of movement (SimulatedFocuser._advance)      *)

(* A whole number of steps is read back as that number.                      *)
LEMMA WholeExact == \A t \in Int : Whole(t * SubSteps) = t
  BY ClockAssumption DEF Whole

(* int() preserves order.                                                    *)
LEMMA WholeMonotone ==
  \A p, q \in Int : /\ Whole(p) \in Int
                    /\ p <= q => Whole(p) <= Whole(q)
  BY ClockAssumption DEF Whole

(* A position never negative is read as one never negative.                  *)
LEMMA WholeNat == \A p \in Nat : Whole(p) \in Nat
  BY ClockAssumption DEF Whole

(* Time travelled is a natural number of parts of a step.                    *)
LEMMA StepNat == \A e \in Nat : Rate * e \in Nat
  BY ClockAssumption

(* A target is a natural number of parts of a step.                          *)
LEMMA TargetNat == \A t \in Nat : t * SubSteps \in Nat
  BY ClockAssumption

(* Catching up moves between where the focuser was and its target.           *)
LEMMA AdvanceBetween ==
  ASSUME NEW p \in Nat, NEW t \in Nat, NEW e \in Nat
  PROVE  /\ Advance(p, t, e) \in Nat
         /\ \/ p <= Advance(p, t, e) /\ Advance(p, t, e) <= t * SubSteps
            \/ t * SubSteps <= Advance(p, t, e) /\ Advance(p, t, e) <= p
  BY StepNat, TargetNat DEF Advance

(* Catching up twice is catching up once with both times.                    *)
LEMMA AdvanceCompose ==
  ASSUME NEW p \in Nat, NEW t \in Nat, NEW d \in Nat, NEW e \in Nat
  PROVE  Advance(Advance(p, t, d), t, e) = Advance(p, t, d + e)
<1>1. Rate * (d + e) = Rate * d + Rate * e
  BY ClockAssumption
<1>2. QED
  BY <1>1, StepNat, TargetNat DEF Advance

(* Catching up in no time changes nothing.                                   *)
LEMMA AdvanceNoTime ==
  ASSUME NEW p \in Nat, NEW t \in Nat
  PROVE  Advance(p, t, 0) = p
<1>1. Rate * 0 = 0
  BY ClockAssumption
<1>2. QED
  BY <1>1, TargetNat DEF Advance

(* Seen in whole steps, catching up goes toward the target and never past    *)
(* it; a focuser already read at its target is read there ever after.        *)
LEMMA AdvanceToward ==
  ASSUME NEW p \in Nat, NEW t \in Nat, NEW e \in Nat
  PROVE  /\ Whole(Advance(p, t, e)) \in Contract!Toward(Whole(p), t)
         /\ Whole(p) = t => Whole(Advance(p, t, e)) = t
<1>. DEFINE a == Advance(p, t, e)
<1>1. a \in Nat /\ t * SubSteps \in Nat
  BY AdvanceBetween, TargetNat
<1>2. Whole(t * SubSteps) = t
  BY WholeExact
<1>3. Whole(p) \in Int /\ Whole(a) \in Int
  BY <1>1, WholeMonotone
<1>4. CASE p <= a /\ a <= t * SubSteps
  <2>1. Whole(p) <= Whole(a) /\ Whole(a) <= t
    BY <1>1, <1>2, <1>4, WholeMonotone
  <2>2. QED
    BY <1>3, <2>1 DEF Contract!Toward
<1>5. CASE t * SubSteps <= a /\ a <= p
  <2>1. t <= Whole(a) /\ Whole(a) <= Whole(p)
    BY <1>1, <1>2, <1>5, WholeMonotone
  <2>2. QED
    BY <1>3, <2>1 DEF Contract!Toward
<1>6. QED
  BY <1>4, <1>5, AdvanceBetween

(* The position a persona answers from is a natural number.                  *)
LEMMA NowNat == TypeOK => Now \in Nat /\ Whole(Now) \in Nat
<1>. SUFFICES ASSUME TypeOK
              PROVE  Now \in Nat /\ Whole(Now) \in Nat
  OBVIOUS
<1>1. position \in Nat /\ target \in Nat /\ elapsed \in Nat
  BY ClockAssumption DEF TypeOK
<1>2. Now \in Nat
  BY <1>1, AdvanceBetween DEF Now
<1>3. QED
  BY <1>2, WholeNat

-----------------------------------------------------------------------------
(* Lemmas about the codec                                                    *)

(* Four bytes are read as a natural number.                                  *)
LEMMA FromBytesNat ==
  ASSUME NEW w \in Seq(Bytes)
  PROVE  Len(w) = 4 => FromBytes(w) \in Nat
<1>1. \A i \in 1..Len(w) : w[i] \in Nat
  <2>1. \A i \in 1..Len(w) : w[i] \in Bytes
    OBVIOUS
  <2>2. QED
    BY <2>1, ByteAssumption DEF Bytes
<1>2. \A m, n \in Nat : m * Byte + n \in Nat
  BY ByteAssumption
<1>3. Len(w) = 4 =>
        w[1] \in Nat /\ w[2] \in Nat /\ w[3] \in Nat /\ w[4] \in Nat
  BY <1>1
<1>4. QED
  BY <1>2, <1>3 DEF FromBytes

(* Every byte string decodes to a command, with a position never negative.   *)
LEMMA ParseCommandType ==
  ASSUME NEW data \in Seq(Bytes)
  PROVE  ParseCommand(data) \in Command
<1>. DEFINE last == AtMost(Len(data), 4 + BODY_SIZE)
            body == SubSeq(data, 5, last)
<1>2. Malformed \in Command
  BY DEF Malformed, Command
<1>3. ASSUME Len(data) >= 5
      PROVE  ReadRegister(data[5]) \in Command
  BY <1>3 DEF ReadRegister, Command
<1>4. ASSUME Len(body) >= 6
      PROVE  WriteState(body[1] # 0, FromBytes(SubSeq(body, 3, 6)),
                        Len(body) > 6 /\ body[7] # 0,
                        IF Len(body) > 9 THEN body[10] ELSE Absent) \in Command
  <2>1. body \in Seq(Bytes) /\ Len(body) \in Nat
    BY DEF AtMost, BODY_SIZE
  <2>. HIDE DEF body
  <2>2. SubSeq(body, 3, 6) \in Seq(Bytes) /\ Len(SubSeq(body, 3, 6)) = 4
    BY <1>4, <2>1
  <2>3. FromBytes(SubSeq(body, 3, 6)) \in Nat
    BY <2>2, FromBytesNat
  <2>4. (IF Len(body) > 9 THEN body[10] ELSE Absent) \in Bytes \union {Absent}
    BY <2>1
  <2>5. QED
    BY <2>3, <2>4 DEF WriteState, Command
<1>5. QED
  BY <1>2, <1>3, <1>4 DEF ParseCommand

-----------------------------------------------------------------------------
(* The device starts in its types.                                           *)
LEMMA InitTypeOK == Init => TypeOK
  BY TargetNat, StartAssumption, ClockAssumption, ByteAssumption
  DEF Init, TypeOK, NoReply, Malformed, Command, Bytes, RegState, SETTINGS_BASE

(* A command the focuser is given leaves it in its types.                    *)
LEMMA ApplyTypeOK ==
  ASSUME TypeOK, NEW data \in Reports, HandleSetReport(data)
  PROVE  TypeOK'
<1>. DEFINE c == ParseCommand(data)
<1>1. c \in Command /\ command' = c /\ reply' = reply
  BY ParseCommandType, ReportsAssumption DEF HandleSetReport
<1>2. Now \in Nat /\ Whole(Now) \in Nat
  BY NowNat
<1>3. RegState \in Bytes
  BY ByteAssumption DEF RegState, Bytes
<1>4. 0 \in 0..MaxElapsed
  BY ClockAssumption
<1>. HIDE DEF c
<1>5. CASE c.kind = "malformed" /\ UNCHANGED << focuser, pending, settings >>
  BY <1>1, <1>5 DEF TypeOK, focuser
<1>6. CASE ApplyRead(c)
  <2>1. c.register \in Bytes
    BY <1>1, <1>6 DEF Command, ApplyRead
  <2>2. QED
    BY <1>1, <1>6, <2>1 DEF ApplyRead, TypeOK, focuser
<1>7. CASE ApplyWrite(c)
  <2>1. c.position \in Nat /\ c.settings \in Bytes \union {Absent}
    BY <1>1, <1>7 DEF Command, ApplyWrite
  <2>2. pending' \in Bytes /\ settings' \in Bytes
    BY <1>3, <1>7, <2>1 DEF ApplyWrite, TypeOK
  <2>3. position' \in Nat /\ target' \in Nat /\ elapsed' \in 0..MaxElapsed
    <3>1. CASE MoveTo(c.position)
      BY <1>2, <1>4, <2>1, <3>1 DEF MoveTo
    <3>2. CASE SetPosition(c.position)
      BY <1>4, <2>1, <3>2, TargetNat DEF SetPosition
    <3>3. CASE Halt
      BY <1>2, <1>4, <3>3 DEF Halt
    <3>4. QED
      BY <1>7, <3>1, <3>2, <3>3 DEF ApplyWrite
  <2>4. QED
    BY <1>1, <2>2, <2>3 DEF TypeOK
<1>8. QED
  BY <1>5, <1>6, <1>7 DEF HandleSetReport, c

(* A reply, whenever the second query comes, leaves everything in its types. *)
LEMMA ReplyTypeOK ==
  ASSUME TypeOK, HandleGetReport
  PROVE  TypeOK'
<1>1. Now \in Nat
  BY NowNat
<1>2. ASSUME NEW gap \in 0..MaxGap, ReplyState(gap)
      PROVE  TypeOK'
  <2>. DEFINE later == Advance(Now, target, gap)
  <2>1. later \in Nat /\ Whole(later) \in Nat
    <3>1. target \in Nat /\ gap \in Nat
      BY ClockAssumption DEF TypeOK
    <3>2. later \in Nat
      BY <1>1, <3>1, AdvanceBetween
    <3>3. QED
      BY <3>2, WholeNat
  <2>. HIDE DEF later
  <2>2. 0 \in 0..MaxElapsed
    BY ClockAssumption
  <2>3. /\ reply' = [register |-> pending,
                     body |-> [kind |-> "state", moving |-> Whole(Now) # target,
                               position |-> Whole(later), settings |-> settings]]
        /\ position' = later /\ elapsed' = 0 /\ target' = target
    BY <1>2 DEF ReplyState, later
  <2>4. QED
    BY <2>1, <2>2, <2>3 DEF TypeOK, HandleGetReport
<1>3. ASSUME ReplyFixed
      PROVE  TypeOK'
  BY <1>3 DEF ReplyFixed, FixedBody, TypeOK, HandleGetReport, focuser
<1>4. QED
  BY <1>2, <1>3 DEF HandleGetReport

(* Every step keeps the types.                                               *)
LEMMA NextTypeOK == TypeOK /\ [Next]_vars => TypeOK'
<1>. SUFFICES ASSUME TypeOK, [Next]_vars
              PROVE  TypeOK'
  OBVIOUS
<1>1. CASE Tick
  BY <1>1, ClockAssumption DEF Tick, TypeOK
<1>2. ASSUME NEW data \in Reports, HandleSetReport(data)
      PROVE  TypeOK'
  BY <1>2, ApplyTypeOK
<1>3. CASE HandleGetReport
  BY <1>3, ReplyTypeOK
<1>4. CASE UNCHANGED vars
  BY <1>4 DEF vars, TypeOK
<1>5. QED
  BY <1>1, <1>2, <1>3, <1>4 DEF Next

(* Type correctness of the Python vehicle: the position it integrates, the   *)
(* target and every reply stay in their types, for any radix, rate and       *)
(* resolution, and whatever byte strings the host sends.                     *)
THEOREM TypeCorrect == Spec => []TypeOK
<1>1. QED
  BY InitTypeOK, NextTypeOK, PTL DEF Spec

-----------------------------------------------------------------------------
(* Refinement                                                                *)

(* What the contract sees after a step that caught up or redefined: exactly  *)
(* the whole steps of the stored position.                                   *)
LEMMA SeenAfterCatchingUp ==
  ASSUME position' \in Nat, target' \in Nat, elapsed' = 0
  PROVE  Whole(Now)' = Whole(position')
<1>1. Advance(position', target', 0) = position'
  BY AdvanceNoTime
<1>2. QED
  BY <1>1 DEF Now, Whole, Advance

(* The device starts where the contract starts.                              *)
LEMMA InitRefines == Init => Contract!Init
<1>. SUFFICES ASSUME Init
              PROVE  Contract!Init
  OBVIOUS
<1>1. Now = Start * SubSteps
  BY AdvanceNoTime, TargetNat, StartAssumption DEF Init, Now
<1>2. Whole(Now) = Start
  BY <1>1, WholeExact, StartAssumption
<1>3. QED
  BY <1>2
  DEF Init, Contract!Init, NoReply, Contract!NoAnswer, RegState,
      Contract!RegState, SETTINGS_BASE, Contract!SETTINGS_BASE, Malformed,
      Contract!Malformed

(* The passage of time is travel.                                            *)
LEMMA TickRefines ==
  ASSUME TypeOK, Tick
  PROVE  Contract!Travel
<1>1. Now \in Nat /\ target \in Nat
  BY NowNat DEF TypeOK
<1>2. Now' = Advance(Now, target, 1)
  <2>1. position \in Nat /\ target \in Nat /\ elapsed \in Nat
    BY ClockAssumption DEF TypeOK
  <2>2. Advance(position, target, elapsed + 1) = Advance(Now, target, 1)
    BY <2>1, AdvanceCompose DEF Now
  <2>3. QED
    BY <2>2 DEF Tick, Now, Advance
<1>3. Whole(Now)' = Whole(Advance(Now, target, 1))
  BY <1>2 DEF Whole
<1>4. Whole(Now)' \in Contract!Toward(Whole(Now), target)
  BY <1>1, <1>3, AdvanceToward
<1>5. QED
  BY <1>4 DEF Contract!Travel, Tick

(* A report is one command of the contract, received where the focuser is.   *)
LEMMA SetReportRefines ==
  ASSUME TypeOK, TypeOK', NEW data \in Reports, HandleSetReport(data)
  PROVE  Contract!Next
<1>. DEFINE c == ParseCommand(data)
<1>1. c \in Command /\ command' = c /\ reply' = reply
  BY ParseCommandType, ReportsAssumption DEF HandleSetReport
<1>2. Now \in Nat /\ Whole(Now) \in Nat /\ Whole(Now)' = Whole(Now')
  BY NowNat DEF Whole
<1>. HIDE DEF c
<1>3. CASE c.kind = "malformed" /\ UNCHANGED << focuser, pending, settings >>
  <2>1. Whole(Now)' = Whole(Now)
    BY <1>3 DEF focuser, Now, Whole, Advance
  <2>2. Contract!Ignore
    BY <1>1, <1>3, <2>1 DEF Contract!Ignore, focuser
  <2>3. QED
    BY <2>2 DEF Contract!Next
<1>4. CASE ApplyRead(c)
  <2>1. Whole(Now)' = Whole(Now)
    BY <1>4 DEF ApplyRead, focuser, Now, Whole, Advance
  <2>2. Contract!NameRegister
    BY <1>1, <1>4, <2>1 DEF ApplyRead, Contract!NameRegister, focuser
  <2>3. QED
    BY <2>2 DEF Contract!Next
<1>5. CASE ApplyWrite(c)
  <2>1. c.position \in Nat
    BY <1>1, <1>5 DEF ApplyWrite, Command
  <2>2. Contract!Write
    BY <1>1, <1>5
    DEF ApplyWrite, Contract!Write, RegState, Contract!RegState, Absent,
        Contract!Absent
  <2>3. position' \in Nat /\ target' \in Nat
    BY DEF TypeOK
  <2>4. CASE c.go /\ MoveTo(c.position)
    <3>1. position' = Now /\ target' = c.position /\ elapsed' = 0
      BY <2>1, <2>4 DEF MoveTo
    <3>2. Whole(Now)' = Whole(Now)
      BY <2>3, <3>1, SeenAfterCatchingUp
    <3>3. Contract!MoveTo
      BY <1>1, <2>2, <2>4, <3>1, <3>2 DEF Contract!MoveTo
    <3>4. QED
      BY <3>3 DEF Contract!Next
  <2>5. CASE ~c.go /\ c.sync /\ SetPosition(c.position)
    <3>1. /\ position' = c.position * SubSteps
          /\ target' = c.position /\ elapsed' = 0
      BY <2>1, <2>5 DEF SetPosition
    <3>2. Whole(Now)' = c.position
      BY <2>1, <2>3, <3>1, SeenAfterCatchingUp, WholeExact
    <3>3. Contract!SetPosition
      BY <1>1, <2>2, <2>5, <3>1, <3>2 DEF Contract!SetPosition
    <3>4. QED
      BY <3>3 DEF Contract!Next
  <2>6. CASE ~c.go /\ ~c.sync /\ Halt
    <3>1. position' = Now /\ target' = Whole(Now) /\ elapsed' = 0
      BY <2>6 DEF Halt
    <3>2. Whole(Now)' = Whole(Now)
      BY <2>3, <3>1, SeenAfterCatchingUp
    <3>3. Contract!Halt
      BY <1>1, <2>2, <2>6, <3>1, <3>2 DEF Contract!Halt
    <3>4. QED
      BY <3>3 DEF Contract!Next
  <2>7. QED
    BY <1>5, <2>4, <2>5, <2>6 DEF ApplyWrite
<1>6. QED
  BY <1>3, <1>4, <1>5 DEF HandleSetReport, c

(* A reply is one answer of the contract: the travel it integrates included, *)
(* and truthful although its flag and its position are computed apart.       *)
LEMMA GetReportRefines ==
  ASSUME TypeOK, HandleGetReport
  PROVE  Contract!Answer
<1>1. Now \in Nat /\ target \in Nat /\ pending' = pending
  BY NowNat DEF TypeOK, HandleGetReport
<1>2. Contract!RegState = RegState
  BY DEF RegState, Contract!RegState
<1>3. ASSUME NEW gap \in 0..MaxGap, ReplyState(gap)
      PROVE  Contract!Answer
  <2>. DEFINE later == Advance(Now, target, gap)
  <2>1. gap \in Nat
    BY ClockAssumption
  <2>2. /\ Whole(later) \in Contract!Toward(Whole(Now), target)
        /\ Whole(Now) = target => Whole(later) = target
    BY <1>1, <2>1, AdvanceToward
  <2>3. later \in Nat
    BY <1>1, <2>1, AdvanceBetween
  <2>. HIDE DEF later
  <2>4. /\ pending = RegState
        /\ reply' = [register |-> pending,
                     body |-> [kind |-> "state", moving |-> Whole(Now) # target,
                               position |-> Whole(later), settings |-> settings]]
        /\ position' = later /\ elapsed' = 0 /\ target' = target
    BY <1>3 DEF ReplyState, later
  <2>5. Whole(Now)' = Whole(later)
    <3>1. Whole(Now)' = Whole(position')
      BY <1>1, <2>3, <2>4, SeenAfterCatchingUp
    <3>2. QED
      BY <2>4, <3>1
  <2>6. /\ reply'.register = pending
        /\ reply'.body.kind = "state"
        /\ reply'.body.position = Whole(later)
        /\ reply'.body.settings = settings
        /\ reply'.body.moving = (Whole(Now) # target)
    BY <2>4
  <2>7. QED
    BY <1>2, <1>3, <2>2, <2>4, <2>5, <2>6
    DEF Contract!Answer, HandleGetReport
<1>4. ASSUME ReplyFixed
      PROVE  Contract!Answer
  <2>1. Whole(Now)' = Whole(Now)
    BY <1>4 DEF ReplyFixed, focuser, Now, Whole, Advance
  <2>2. Whole(Now) \in Contract!Toward(Whole(Now), target)
    <3>1. Whole(Now) \in Int /\ target \in Int
      BY <1>1, WholeMonotone
    <3>2. QED
      BY <3>1 DEF Contract!Toward
  <2>3. Contract!FixedBody(pending) = FixedBody(pending)
    BY DEF FixedBody, Contract!FixedBody, RegIdentity, Contract!RegIdentity,
           RegSerial, Contract!RegSerial
  <2>4. QED
    BY <1>2, <1>4, <2>1, <2>2, <2>3
    DEF ReplyFixed, Contract!Answer, HandleGetReport, focuser
<1>5. QED
  BY <1>3, <1>4 DEF HandleGetReport

(* The Python vehicle implements the contract of EafContract, for any rate,  *)
(* resolution and start, and whatever byte strings the host sends: a halt    *)
(* and a sync are not followed by travel, no target is overshot, and a reply *)
(* at rest reports the target.                                               *)
THEOREM ContractImplemented == Spec => ImplementsContract
<1>1. TypeOK /\ TypeOK' /\ [Next]_vars => [Contract!Next]_(Contract!vars)
  <2>. SUFFICES ASSUME TypeOK, TypeOK', [Next]_vars
                PROVE  [Contract!Next]_(Contract!vars)
    OBVIOUS
  <2>1. CASE Tick
    BY <2>1, TickRefines DEF Contract!Next
  <2>2. ASSUME NEW data \in Reports, HandleSetReport(data)
        PROVE  Contract!Next
    BY <2>2, SetReportRefines
  <2>3. CASE HandleGetReport
    BY <2>3, GetReportRefines DEF Contract!Next
  <2>4. CASE UNCHANGED vars
    <3>1. UNCHANGED Contract!vars
      BY <2>4 DEF vars, Contract!vars, Now, Whole, Advance
    <3>2. QED
      BY <3>1
  <2>5. QED
    BY <2>1, <2>2, <2>3, <2>4 DEF Next
<1>2. QED
  BY <1>1, InitRefines, TypeCorrect, PTL
  DEF Spec, ImplementsContract, Contract!Spec
=============================================================================
