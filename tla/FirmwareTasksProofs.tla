-------------------------- MODULE FirmwareTasksProofs --------------------------
(***************************************************************************)
(* The firmware vehicle.  However its two tasks overlap, nothing leaves    *)
(* its type; called from one thread, it implements EafContract, though it  *)
(* reads and writes position_ word by word: for every radix, word size,    *)
(* rate and set of reports.                                                *)
(***************************************************************************)
EXTENDS FirmwareTasks, TLAPS

-----------------------------------------------------------------------------
(* Positions and words *)

(* The words of a value are natural numbers, and make up the value.          *)
LEMMA SplitType ==
  ASSUME NEW n \in Nat
  PROVE  /\ Split(n) \in [Halves -> Nat]
         /\ Join(Split(n)) = n
<1>1. n \div Word \in Nat /\ n % Word \in Nat
  BY MemoryAssumption
<1>. DEFINE high == n \div Word
            low == n % Word
<1>2. n = Word * high + low
  BY MemoryAssumption
<1>3. Split(n) = [c \in Halves |-> IF c = "hi" THEN high ELSE low]
  BY DEF Split
<1>. HIDE DEF high, low
<1>4. Split(n)["hi"] = high /\ Split(n)["lo"] = low
  BY <1>3 DEF Halves
<1>5. Split(n) \in [Halves -> Nat]
  BY <1>1, <1>3 DEF high, low
<1>6. high * Word + low = n
  BY <1>1, <1>2, MemoryAssumption DEF high, low
<1>. QED
  BY <1>4, <1>5, <1>6 DEF Join

(* Words that are natural numbers make up one.                               *)
LEMMA JoinNat ==
  ASSUME NEW words, words["hi"] \in Nat, words["lo"] \in Nat
  PROVE  Join(words) \in Nat
  BY MemoryAssumption DEF Join

(* A whole number of steps is read back as that number; reading in whole     *)
(* steps keeps the order.                                                    *)
LEMMA WholeSteps ==
  /\ \A t \in Nat : t * Milli \in Nat /\ Whole(t * Milli) = t
  /\ \A p \in Nat : Whole(p) \in Nat
  /\ \A p, q \in Nat : p <= q => Whole(p) <= Whole(q)
  BY MemoryAssumption DEF Whole

(* advance() goes toward its target and never past it, in parts of a step    *)
(* and in whole steps; it leaves zero alone.                                 *)
LEMMA IntegratedToward ==
  ASSUME NEW p \in Nat, NEW t \in Nat, NEW e \in Nat
  PROVE  /\ Integrated(p, t, e) \in Nat
         /\ Whole(Integrated(p, t, e)) \in Contract!Toward(Whole(p), t)
<1>. DEFINE n == Integrated(p, t, e)
<1>1. Rate * e \in Nat /\ t * Milli \in Nat
  BY MemoryAssumption
<1>2. /\ n \in Nat
      /\ \/ p <= n /\ n <= t * Milli
         \/ t * Milli <= n /\ n <= p
  <2>. DEFINE goal == t * Milli
              step == Rate * e
  <2>1. goal \in Nat /\ step \in Nat
    BY <1>1
  <2>2. n = IF step >= (IF goal - p < 0 THEN -(goal - p) ELSE goal - p) THEN goal
            ELSE IF goal - p > 0 THEN p + step ELSE p - step
    BY DEF Integrated
  <2>. HIDE DEF n, goal, step
  <2>3. n \in Nat /\ ((p <= n /\ n <= goal) \/ (goal <= n /\ n <= p))
    BY <2>1, <2>2
  <2>. QED
    BY <2>3 DEF goal
<1>. HIDE DEF n
<1>3. Whole(t * Milli) = t /\ Whole(p) \in Nat /\ Whole(n) \in Nat
  BY <1>1, <1>2, WholeSteps
<1>4. \/ Whole(p) <= Whole(n) /\ Whole(n) <= t
      \/ t <= Whole(n) /\ Whole(n) <= Whole(p)
  BY <1>1, <1>2, <1>3, WholeSteps
<1>5. Whole(n) \in Contract!Toward(Whole(p), t)
  BY <1>3, <1>4 DEF Contract!Toward
<1>. QED
  BY <1>2, <1>5 DEF n

(* A position that a signed word refuses is one beyond maxStep(); one it     *)
(* accepts is the position sent.                                             *)
LEMMA SignedPosition ==
  ASSUME NEW n \in 0..(WordSize - 1)
  PROVE  /\ n \in Nat /\ ToSigned(n) \in Int
         /\ ToSigned(n) < 0 => n > MaxStep
         /\ ToSigned(n) >= 0 => ToSigned(n) = n
<1>1. WordSize \in Nat
  BY ByteAssumption DEF WordSize
<1>. QED
  BY <1>1, MemoryAssumption DEF ToSigned

-----------------------------------------------------------------------------
(* The parser                                                                *)

(* Four bytes make up a word.                                                *)
LEMMA ShiftWordType ==
  ASSUME NEW b0 \in Bytes, NEW b1 \in Bytes, NEW b2 \in Bytes, NEW b3 \in Bytes
  PROVE  ShiftWord(b0, b1, b2, b3) \in 0..(WordSize - 1)
<1>. DEFINE Pair == 0..(Byte * Byte - 1)
            upper == b0 * Byte + b1
            lower == b2 * Byte + b3
<1>1. \A a, b \in Bytes : a * Byte + b \in Pair
  <2>. SUFFICES ASSUME NEW a \in Bytes, NEW b \in Bytes
                PROVE  a * Byte + b \in Pair
    OBVIOUS
  <2>1. a \in Int /\ b \in Int /\ Byte \in Int /\ 0 <= a /\ a <= Byte - 1
        /\ 0 <= b /\ b <= Byte - 1
    BY ByteAssumption DEF Bytes
  <2>2. a * Byte <= (Byte - 1) * Byte /\ 0 <= a * Byte
    BY <2>1
  <2>3. (Byte - 1) * Byte = Byte * Byte - Byte /\ Byte * Byte \in Int
    BY <2>1
  <2>. QED
    BY <2>1, <2>2, <2>3
<1>2. upper \in Pair /\ lower \in Pair
  BY <1>1
<1>3. /\ ShiftWord(b0, b1, b2, b3) = upper * (Byte * Byte) + lower
      /\ WordSize = (Byte * Byte) * (Byte * Byte)
  BY ByteAssumption DEF ShiftWord, WordSize, Bytes
<1>. DEFINE P == Byte * Byte
<1>4. P \in Nat
  BY ByteAssumption
<1>5. upper \in 0..(P - 1) /\ lower \in 0..(P - 1)
  BY <1>2
<1>6. ShiftWord(b0, b1, b2, b3) = upper * P + lower /\ WordSize = P * P
  BY <1>3
<1>. HIDE DEF P, upper, lower
<1>7. upper * P <= (P - 1) * P /\ 0 <= upper * P
  BY <1>4, <1>5
<1>8. (P - 1) * P = P * P - P /\ P * P \in Int /\ upper * P \in Int
  BY <1>4, <1>5
<1>. QED
  BY <1>4, <1>5, <1>6, <1>7, <1>8

\* A command as the parser makes it: its position is one unsigned word.
Parsed(c) ==
  /\ c \in Command
  /\ c.kind = "write" => c.position \in 0..(WordSize - 1)

(* Whatever bytes the host sends, they decode to a command.                  *)
LEMMA ParserType ==
  ASSUME NEW data \in Reports
  PROVE  Parsed(FwParseCommand(StageSetReport(data)))
<1>. DEFINE staged == StageSetReport(data)
<1>1. staged \in Seq(Bytes)
  <2>1. data \in Seq(Bytes) /\ data # << >>
    BY ReportsAssumption
  <2>2. Tail(data) \in Seq(Bytes) /\ data[1] \in Bytes
    BY <2>1
  <2>. DEFINE buffer == Tail(data)
              kept == SubSeq(buffer, 1, AtMost(Len(buffer), REPORT_SIZE - 1))
  <2>3. kept \in Seq(Bytes)
    BY <2>2 DEF AtMost, REPORT_SIZE
  <2>. HIDE DEF kept
  <2>4. << data[1] >> \o kept \in Seq(Bytes)
    BY <2>2, <2>3
  <2>. QED
    BY <2>4 DEF StageSetReport, kept
<1>. HIDE DEF staged
<1>2. Parsed(Malformed)
  BY DEF Parsed, Malformed, Command
<1>3. ASSUME Len(staged) >= 5
      PROVE  Parsed(ReadRegister(staged[5]))
  BY <1>1, <1>3 DEF Parsed, ReadRegister, Command
<1>4. ASSUME Len(staged) >= 10
      PROVE  Parsed(WriteState(staged[5] # 0,
                               ShiftWord(staged[7], staged[8], staged[9], staged[10]),
                               Len(staged) > 10 /\ staged[11] # 0,
                               IF Len(staged) > 13 THEN staged[14] ELSE Absent))
  <2>. DEFINE word == ShiftWord(staged[7], staged[8], staged[9], staged[10])
              kept == IF Len(staged) > 13 THEN staged[14] ELSE Absent
  <2>1. word \in 0..(WordSize - 1)
    <3>1. /\ staged[7] \in Bytes /\ staged[8] \in Bytes
          /\ staged[9] \in Bytes /\ staged[10] \in Bytes
      BY <1>1, <1>4
    <3>. QED
      BY <3>1, ShiftWordType
  <2>2. kept \in Bytes \union {Absent}
    BY <1>1
  <2>3. WordSize \in Nat
    BY ByteAssumption DEF WordSize
  <2>. HIDE DEF word, kept
  <2>4. word \in Nat
    BY <2>1, <2>3
  <2>5. \A go, sync \in BOOLEAN : Parsed(WriteState(go, word, sync, kept))
    BY <2>1, <2>2, <2>4 DEF Parsed, WriteState, Command
  <2>. QED
    BY <2>5 DEF word, kept
<1>5. Parsed(FwParseCommand(staged))
  BY <1>2, <1>3, <1>4 DEF FwParseCommand
<1>. QED
  BY <1>5 DEF staged
-----------------------------------------------------------------------------
(* Types                                                                     *)

\* advance() has no word of target_ to store.
TypeInv == TypeOK /\ (appPc = "store" => appTodo \subseteq Halves)

(* Both tasks start in their types.                                          *)
LEMMA InitTypes == Init => TypeInv
<1>. SUFFICES ASSUME Init
              PROVE  TypeInv
  OBVIOUS
<1>1. Start * Milli \in Nat /\ Start \in Nat
  BY MemoryAssumption
<1>2. Split(Start * Milli) \in [Halves -> Nat] /\ Split(0) \in [Halves -> Nat]
  BY <1>1, SplitType
<1>3. mem \in [Cells -> Nat] /\ appNew \in [Halves -> Nat]
  BY <1>1, <1>2 DEF Init, Cells
<1>4. Dead \in [Cells -> Nat]
  BY DEF Dead
<1>5. 0 \in 0..MaxElapsed /\ RegState \in Bytes /\ SETTINGS_BASE \in Bytes
  BY MemoryAssumption, ByteAssumption DEF RegState, SETTINGS_BASE, Bytes
<1>6. command \in Command
  BY DEF Init, Malformed, Command
<1>7. reply \in [register : Bytes,
                 body : [kind : {"none", "identity", "serial", "zero"}]]
  BY <1>5 DEF Init, NoReply
<1>. QED
  BY <1>3, <1>4, <1>5, <1>6, <1>7 DEF Init, TypeInv, TypeOK

(* A word that is replaced by a natural number keeps the others.             *)
LEMMA StoreType ==
  ASSUME NEW words \in [Cells -> Nat], NEW c \in Cells, NEW n \in Nat
  PROVE  [words EXCEPT ![c] = n] \in [Cells -> Nat]
  OBVIOUS

(* What has been loaded makes up a position.                                 *)
LEMMA RegsNat ==
  ASSUME NEW regs \in [Cells -> Nat]
  PROVE  /\ Join(regs) \in Nat /\ Whole(Join(regs)) \in Nat
         /\ regs["target"] \in Nat
<1>1. regs["hi"] \in Nat /\ regs["lo"] \in Nat /\ regs["target"] \in Nat
  BY DEF Cells, Halves
<1>. QED
  BY <1>1, JoinNat, WholeSteps

(* advance(), whatever stale words it has loaded, stores natural numbers.    *)
LEMMA AppTypes ==
  ASSUME TypeInv, App
  PROVE  TypeInv'
<1>. USE DEF TypeInv, TypeOK
<1>1. UNCHANGED << usbVars, personaVars >>
  BY DEF App, BeginAdvance, AdvanceLoad, AdvanceIntegrate, AdvanceStore
<1>2. CASE BeginAdvance
  <2>1. appElapsed' \in 0..MaxElapsed
    BY <1>2, MemoryAssumption DEF BeginAdvance
  <2>. QED
    BY <1>1, <1>2, <2>1 DEF BeginAdvance, usbVars, personaVars
<1>3. CASE AdvanceLoad
  <2>1. PICK c \in appTodo : /\ appRegs' = [appRegs EXCEPT ![c] = mem[c]]
                             /\ appTodo' = appTodo \ {c}
    BY <1>3 DEF AdvanceLoad
  <2>2. appRegs' \in [Cells -> Nat]
    BY <2>1, StoreType
  <2>. QED
    BY <1>1, <1>3, <2>1, <2>2 DEF AdvanceLoad, usbVars, personaVars
<1>4. CASE AdvanceIntegrate
  <2>. DEFINE n == Integrated(Join(appRegs), appRegs["target"], appElapsed)
  <2>1. n \in Nat
    <3>1. Join(appRegs) \in Nat /\ appRegs["target"] \in Nat /\ appElapsed \in Nat
      BY RegsNat, MemoryAssumption
    <3>. QED
      BY <3>1, IntegratedToward
  <2>2. Split(n) \in [Halves -> Nat]
    BY <2>1, SplitType
  <2>3. Dead \in [Cells -> Nat] /\ 0 \in 0..MaxElapsed /\ Halves \subseteq Cells
    BY MemoryAssumption DEF Dead, Cells
  <2>. HIDE DEF n
  <2>4. /\ mem' = mem /\ appElapsed' = 0
        /\ \/ appPc' = "idle" /\ appRegs' = Dead /\ UNCHANGED << appTodo, appNew >>
           \/ appPc' = "store" /\ appTodo' = Halves /\ appNew' = Split(n)
              /\ UNCHANGED appRegs
    BY <1>4 DEF AdvanceIntegrate, n
  <2>. QED
    BY <1>1, <2>2, <2>3, <2>4 DEF usbVars, personaVars
<1>5. CASE AdvanceStore
  <2>1. Dead \in [Cells -> Nat] /\ Split(0) \in [Halves -> Nat]
    BY SplitType DEF Dead
  <2>2. PICK c \in appTodo :
          /\ mem' = [mem EXCEPT ![c] = appNew[c]]
          /\ appTodo' = appTodo \ {c}
          /\ \/ appPc' = "idle" /\ appRegs' = Dead /\ appNew' = Split(0)
             \/ UNCHANGED << appPc, appRegs, appNew >>
    BY <1>5 DEF AdvanceStore
  <2>3. c \in Halves /\ appTodo \subseteq Halves
    BY <1>5 DEF AdvanceStore
  <2>4. mem' \in [Cells -> Nat]
    BY <2>2, <2>3, StoreType
  <2>. QED
    BY <1>1, <1>5, <2>1, <2>2, <2>3, <2>4 DEF AdvanceStore, usbVars, personaVars
<1>. QED
  BY <1>2, <1>3, <1>4, <1>5 DEF App
(* A command leaves the focuser and the persona in their types.              *)
LEMMA SetReportTypes ==
  ASSUME TypeInv, NEW data \in Reports, SetReport(data)
  PROVE  TypeInv'
<1>. DEFINE c == FwParseCommand(StageSetReport(data))
            p == ToSigned(c.position)
<1>. USE DEF TypeInv, TypeOK
<1>1. Parsed(c)
  BY ParserType
<1>2. /\ command' = c /\ UNCHANGED << reply, appVars >>
      /\ \/ c.kind = "malformed" /\ UNCHANGED << pending, settings, mem, usbVars >>
         \/ ApplyRead(c)
         \/ ApplyWrite(c)
  BY DEF SetReport
<1>. HIDE DEF c
<1>3. command' \in Command
  BY <1>1, <1>2 DEF Parsed
<1>4. CASE c.kind = "malformed" /\ UNCHANGED << pending, settings, mem, usbVars >>
  BY <1>2, <1>3, <1>4 DEF usbVars, appVars
<1>5. CASE ApplyRead(c)
  <2>1. c.register \in Bytes
    BY <1>1, <1>5 DEF ApplyRead, Parsed, Command
  <2>. QED
    BY <1>2, <1>3, <1>5, <2>1 DEF ApplyRead, usbVars, appVars
<1>6. CASE ApplyWrite(c)
  <2>1. c.kind = "write" /\ c.position \in 0..(WordSize - 1)
        /\ c.settings \in Bytes \union {Absent}
    BY <1>1, <1>6 DEF ApplyWrite, Parsed, Command
  <2>2. p \in Int
    BY <2>1, SignedPosition
  <2>3. pending' \in Bytes /\ settings' \in Bytes
    BY <1>6, <2>1, ByteAssumption DEF ApplyWrite, RegState, Bytes
  <2>. HIDE DEF p
  <2>4. \/ MoveTo(p) \/ BeginSetPosition(p) \/ BeginHalt
    BY <1>6 DEF ApplyWrite, p
  <2>5. CASE MoveTo(p)
    <3>1. mem' \in [Cells -> Nat]
      <4>1. p \in Nat => [mem EXCEPT !["target"] = p] \in [Cells -> Nat]
        BY StoreType DEF Cells
      <4>. QED
        BY <2>2, <2>5, <4>1 DEF MoveTo
    <3>. QED
      BY <1>2, <1>3, <2>3, <2>5, <3>1 DEF MoveTo, usbVars, appVars
  <2>6. CASE BeginSetPosition(p)
    <3>1. CASE p < 0
      BY <1>2, <1>3, <2>3, <2>6, <3>1 DEF BeginSetPosition, usbVars, appVars
    <3>2. CASE ~(p < 0)
      <4>1. p \in Nat /\ p * Milli \in Nat
        BY <2>2, <3>2, MemoryAssumption
      <4>. DEFINE regs == [w \in Cells |->
                             IF w = "target" THEN p ELSE Split(p * Milli)[w]]
      <4>2. regs \in [Cells -> Nat]
        <5>1. Split(p * Milli) \in [Halves -> Nat]
          BY <4>1, SplitType
        <5>. QED
          BY <4>1, <5>1 DEF Cells
      <4>. HIDE DEF regs
      <4>3. /\ usbPc' = "setPosition" /\ usbTodo' = Cells /\ usbRegs' = regs
            /\ UNCHANGED << usbCalls, usbFlag, usbPlace, mem >>
        BY <2>6, <3>2 DEF BeginSetPosition, regs
      <4>. QED
        BY <1>2, <1>3, <2>3, <4>2, <4>3 DEF appVars
    <3>. QED
      BY <3>1, <3>2
  <2>7. CASE BeginHalt
    BY <1>2, <1>3, <2>3, <2>7 DEF BeginHalt, appVars, Cells
  <2>. QED
    BY <2>4, <2>5, <2>6, <2>7
<1>. QED
  BY <1>2, <1>4, <1>5, <1>6

(* A reply about a register that needs no focuser, and the begin of one that *)
(* does, stay in their types.                                                *)
LEMMA GetReportTypes ==
  ASSUME TypeInv, GetReportFixed \/ GetReportState
  PROVE  TypeInv'
<1>. USE DEF TypeInv, TypeOK
<1>1. CASE GetReportFixed
  <2>1. FixedBody(pending) \in [kind : {"none", "identity", "serial", "zero"}]
    BY DEF FixedBody
  <2>. QED
    BY <1>1, <2>1 DEF GetReportFixed, usbVars, appVars
<1>2. CASE GetReportState
  BY <1>2 DEF GetReportState, personaVars, appVars
<1>. QED
  BY <1>1, <1>2

(* So does every step inside a call.                                         *)
LEMMA CallTypes ==
  ASSUME TypeInv, UsbCall
  PROVE  TypeInv'
<1>. USE DEF TypeInv, TypeOK
<1>1. Dead \in [Cells -> Nat]
  BY DEF Dead
<1>2. CASE SetPositionStore
  <2>1. PICK c \in usbTodo :
          /\ mem' = [mem EXCEPT ![c] = usbRegs[c]]
          /\ usbTodo' = usbTodo \ {c}
          /\ \/ usbPc' = "idle" /\ usbRegs' = Dead
             \/ UNCHANGED << usbPc, usbRegs >>
    BY <1>2 DEF SetPositionStore
  <2>2. mem' \in [Cells -> Nat]
    BY <2>1, StoreType
  <2>. QED
    BY <1>1, <1>2, <2>1, <2>2 DEF SetPositionStore, personaVars, appVars
<1>3. CASE HaltStore
  <2>1. [mem EXCEPT !["target"] = Whole(Join(usbRegs))] \in [Cells -> Nat]
    BY RegsNat, StoreType DEF Cells
  <2>. QED
    BY <1>1, <1>3, <2>1 DEF HaltStore, personaVars, appVars
<1>4. CASE UsbLoad
  <2>1. PICK c \in usbTodo :
          /\ usbRegs' = [usbRegs EXCEPT ![c] = mem[c]]
          /\ usbTodo' = usbTodo \ {c}
    BY <1>4 DEF UsbLoad
  <2>2. usbRegs' \in [Cells -> Nat]
    BY <2>1, StoreType
  <2>. QED
    BY <1>4, <2>1, <2>2 DEF UsbLoad, personaVars, appVars
<1>5. CASE CallFocuser
  <2>1. PICK call \in usbCalls :
          /\ usbPc' = call
          /\ usbCalls' = usbCalls \ {call}
          /\ usbTodo' = IF call = "isMoving" THEN Cells ELSE Halves
    BY <1>5 DEF CallFocuser
  <2>2. Halves \subseteq Cells
    BY DEF Cells
  <2>. QED
    BY <1>5, <2>1, <2>2 DEF CallFocuser, personaVars, appVars
<1>6. CASE ReturnFlag
  BY <1>1, <1>6 DEF ReturnFlag, personaVars, appVars
<1>7. CASE ReturnPlace
  BY <1>1, <1>7, RegsNat DEF ReturnPlace, personaVars, appVars
<1>8. CASE FinishReply
  BY <1>8 DEF FinishReply, appVars
<1>. QED
  BY <1>2, <1>3, <1>4, <1>5, <1>6, <1>7, <1>8 DEF UsbCall

(* Every step of either task keeps the types.                                *)
LEMMA NextTypes == TypeInv /\ [Next]_vars => TypeInv'
<1>. SUFFICES ASSUME TypeInv, [Next]_vars
              PROVE  TypeInv'
  OBVIOUS
<1>1. CASE UNCHANGED vars
  BY <1>1 DEF vars, appVars, usbVars, personaVars, TypeInv, TypeOK
<1>. QED
  BY <1>1, AppTypes, SetReportTypes, GetReportTypes, CallTypes
  DEF Next, UsbRequest

(* Type correctness of the firmware: no interleaving of torn stores, stale   *)
(* loads and integration makes a word of position_ or target_ negative, for  *)
(* every scheduling, resolution and rate.                                    *)
THEOREM FirmwareTypeCorrect == Spec => []TypeOK
<1>1. TypeInv => TypeOK
  BY DEF TypeInv
<1>. QED
  BY <1>1, InitTypes, NextTypes, PTL DEF Spec
-----------------------------------------------------------------------------
(* One thread                                                                *)

\* The words that are not to be loaded any more have been loaded.
LoadedBy(regs, words, todo) == \A c \in words \ todo : regs[c] = mem[c]

\* Where each task is in its call, when no call interrupts another.
AppInCall ==
  /\ appPc = "load" => LoadedBy(appRegs, Cells, appTodo)
  /\ appPc = "store" =>
       /\ LoadedBy(appNew, Halves, appTodo)
       /\ Whole(Join(appNew)) \in
            Contract!Toward(Whole(Join(appRegs)), mem["target"])

InReply == usbPc \in {"CurrentReply", "isMoving", "position"}

UsbInCall ==
  /\ usbPc \in {"setPosition", "isMoving"} => LoadedBy(usbRegs, Cells, usbTodo)
  /\ usbPc \in {"halt", "position"} => LoadedBy(usbRegs, Halves, usbTodo)
  /\ InReply =>
       /\ pending = RegState
       /\ "isMoving" \notin usbCalls /\ usbPc # "isMoving" =>
            usbFlag = (Whole(Position) # mem["target"])
       /\ "position" \notin usbCalls /\ usbPc # "position" =>
            usbPlace = Whole(Position)

OneThread ==
  /\ TypeInv
  /\ appPc = "idle" \/ usbPc = "idle"
  /\ AppInCall
  /\ UsbInCall

(* Both tasks start outside of their calls.                                  *)
LEMMA InitOneThread == Init => OneThread
  BY InitTypes DEF Init, OneThread, AppInCall, UsbInCall, InReply

(* A turn of app_main's loop runs between the calls of the other task.       *)
LEMMA AppOneThread ==
  ASSUME Scheduling = "harness", OneThread, App
  PROVE  OneThread'
<1>1. TypeInv'
  BY AppTypes DEF OneThread
<1>2. usbPc = "idle" /\ UNCHANGED << usbVars, personaVars >>
  BY DEF App, BeginAdvance, AdvanceLoad, AdvanceIntegrate, AdvanceStore, AppMayStep
<1>3. UsbInCall' /\ usbPc' = "idle"
  BY <1>2 DEF UsbInCall, InReply, usbVars
<1>4. ASSUME BeginAdvance
      PROVE  AppInCall'
  BY <1>4 DEF BeginAdvance, AppInCall, LoadedBy
<1>5. ASSUME AdvanceLoad
      PROVE  AppInCall'
  <2>1. PICK c \in appTodo : /\ appRegs' = [appRegs EXCEPT ![c] = mem[c]]
                             /\ appTodo' = appTodo \ {c}
    BY <1>5 DEF AdvanceLoad
  <2>2. appRegs \in [Cells -> Nat]
    BY DEF OneThread, TypeInv, TypeOK
  <2>3. LoadedBy(appRegs, Cells, appTodo) /\ appPc' = "load" /\ mem' = mem
    BY <1>5 DEF AdvanceLoad, OneThread, AppInCall
  <2>. QED
    BY <2>1, <2>2, <2>3 DEF AppInCall, LoadedBy
<1>6. ASSUME AdvanceIntegrate
      PROVE  AppInCall'
  <2>. DEFINE n == Integrated(Join(appRegs), appRegs["target"], appElapsed)
  <2>1. Join(appRegs) \in Nat /\ appRegs["target"] \in Nat /\ appElapsed \in Nat
    BY RegsNat, MemoryAssumption DEF OneThread, TypeInv, TypeOK
  <2>2. /\ n \in Nat
        /\ Whole(n) \in Contract!Toward(Whole(Join(appRegs)), appRegs["target"])
    BY <2>1, IntegratedToward
  <2>3. Join(Split(n)) = n
    BY <2>2, SplitType
  <2>4. appRegs["target"] = mem["target"]
    BY <1>6 DEF AdvanceIntegrate, OneThread, AppInCall, LoadedBy, Cells
  <2>. HIDE DEF n
  <2>5. CASE appPc' = "idle"
    BY <2>5 DEF AppInCall
  <2>6. CASE appPc' # "idle"
    <3>1. /\ appPc' = "store" /\ appTodo' = Halves /\ appNew' = Split(n)
          /\ appRegs' = appRegs /\ mem' = mem
      BY <1>6, <2>6 DEF AdvanceIntegrate, n
    <3>2. Whole(Join(appNew')) \in
            Contract!Toward(Whole(Join(appRegs')), mem'["target"])
      BY <2>2, <2>3, <2>4, <3>1
    <3>. QED
      BY <3>1, <3>2 DEF AppInCall, LoadedBy, Whole, Join, Contract!Toward
  <2>. QED
    BY <2>5, <2>6
<1>7. ASSUME AdvanceStore
      PROVE  AppInCall'
  <2>1. PICK c \in appTodo :
          /\ mem' = [mem EXCEPT ![c] = appNew[c]]
          /\ appTodo' = appTodo \ {c}
          /\ \/ appPc' = "idle"
             \/ UNCHANGED << appPc, appRegs, appNew >>
    BY <1>7 DEF AdvanceStore
  <2>2. CASE appPc' = "idle"
    BY <2>2 DEF AppInCall
  <2>3. CASE UNCHANGED << appPc, appRegs, appNew >>
    <3>1. /\ appPc = "store" /\ appTodo \subseteq Halves
          /\ mem \in [Cells -> Nat] /\ appNew \in [Halves -> Nat]
      BY <1>7 DEF AdvanceStore, OneThread, TypeInv, TypeOK
    <3>2. /\ LoadedBy(appNew, Halves, appTodo)
          /\ Whole(Join(appNew)) \in
               Contract!Toward(Whole(Join(appRegs)), mem["target"])
      BY <3>1 DEF OneThread, AppInCall
    <3>3. mem'["target"] = mem["target"]
      BY <2>1, <3>1 DEF Cells, Halves
    <3>4. LoadedBy(appNew, Halves, appTodo)'
      BY <2>1, <2>3, <3>1, <3>2 DEF LoadedBy, Cells
    <3>. QED
      BY <2>3, <3>1, <3>2, <3>3, <3>4
      DEF AppInCall, Whole, Join, Contract!Toward
  <2>. QED
    BY <2>1, <2>2, <2>3
<1>. QED
  BY <1>1, <1>3, <1>4, <1>5, <1>6, <1>7 DEF App, OneThread

(* A request is taken only between the turns of that loop.                   *)
LEMMA RequestOneThread ==
  ASSUME Scheduling = "harness", OneThread, UsbRequest
  PROVE  OneThread'
<1>1. TypeInv'
  BY SetReportTypes, GetReportTypes DEF UsbRequest, OneThread
<1>2. appPc = "idle" /\ usbPc = "idle" /\ UNCHANGED appVars
  BY DEF UsbRequest, SetReport, GetReportFixed, GetReportState, UsbMayStart
<1>3. appPc' = "idle" /\ AppInCall'
  BY <1>2 DEF appVars, AppInCall
<1>4. ASSUME NEW data \in Reports, SetReport(data)
      PROVE  UsbInCall'
  <2>. DEFINE c == FwParseCommand(StageSetReport(data))
              p == ToSigned(c.position)
  <2>1. \/ UNCHANGED usbVars \/ MoveTo(p) \/ BeginSetPosition(p) \/ BeginHalt
    BY <1>4 DEF SetReport, ApplyRead, ApplyWrite
  <2>. HIDE DEF p
  <2>2. CASE UNCHANGED usbVars \/ MoveTo(p)
    BY <1>2, <2>2 DEF MoveTo, usbVars, UsbInCall, InReply
  <2>3. CASE BeginSetPosition(p)
    BY <1>2, <2>3 DEF BeginSetPosition, usbVars, UsbInCall, InReply, LoadedBy
  <2>4. CASE BeginHalt
    BY <2>4 DEF BeginHalt, UsbInCall, InReply, LoadedBy
  <2>. QED
    BY <2>1, <2>2, <2>3, <2>4
<1>5. ASSUME GetReportFixed
      PROVE  UsbInCall'
  BY <1>2, <1>5 DEF GetReportFixed, usbVars, UsbInCall, InReply
<1>6. ASSUME GetReportState
      PROVE  UsbInCall'
  BY <1>6 DEF GetReportState, personaVars, UsbInCall, InReply
<1>. QED
  BY <1>1, <1>3, <1>4, <1>5, <1>6 DEF UsbRequest, OneThread

(* A call reads the words of one moment and answers about that moment.       *)
LEMMA CallOneThread ==
  ASSUME OneThread, UsbCall
  PROVE  OneThread'
<1>1. TypeInv'
  BY CallTypes DEF OneThread
<1>2. appPc = "idle" /\ UNCHANGED appVars
  BY DEF UsbCall, SetPositionStore, HaltStore, UsbLoad, CallFocuser, ReturnFlag,
         ReturnPlace, FinishReply, OneThread
<1>3. appPc' = "idle" /\ AppInCall'
  BY <1>2 DEF appVars, AppInCall
<1>4. /\ mem \in [Cells -> Nat] /\ usbRegs \in [Cells -> Nat]
      /\ usbTodo \subseteq Cells /\ usbCalls \subseteq {"isMoving", "position"}
  BY DEF OneThread, TypeInv, TypeOK
<1>5. CASE SetPositionStore
  <2>1. PICK c \in usbTodo :
          /\ mem' = [mem EXCEPT ![c] = usbRegs[c]]
          /\ usbTodo' = usbTodo \ {c}
          /\ \/ usbPc' = "idle"
             \/ usbPc' = "setPosition" /\ usbRegs' = usbRegs
    BY <1>5 DEF SetPositionStore
  <2>2. LoadedBy(usbRegs, Cells, usbTodo)
    BY <1>5 DEF SetPositionStore, OneThread, UsbInCall
  <2>. QED
    BY <1>1, <1>3, <1>4, <2>1, <2>2 DEF OneThread, UsbInCall, InReply, LoadedBy
<1>6. CASE HaltStore
  BY <1>1, <1>3, <1>6 DEF HaltStore, OneThread, UsbInCall, InReply
<1>7. CASE UsbLoad
  <2>1. PICK c \in usbTodo :
          /\ usbRegs' = [usbRegs EXCEPT ![c] = mem[c]]
          /\ usbTodo' = usbTodo \ {c}
    BY <1>7 DEF UsbLoad
  <2>2. ASSUME NEW words, words \subseteq Cells, LoadedBy(usbRegs, words, usbTodo)
        PROVE  LoadedBy(usbRegs, words, usbTodo)'
    BY <1>4, <1>7, <2>1, <2>2 DEF LoadedBy, UsbLoad
  <2>3. Halves \subseteq Cells
    BY DEF Cells
  <2>4. UNCHANGED << mem, usbPc, usbCalls, usbFlag, usbPlace, pending >>
    BY <1>7 DEF UsbLoad, personaVars
  <2>5. UsbInCall
    BY DEF OneThread
  <2>6. UsbInCall'
    BY <2>2, <2>3, <2>4, <2>5 DEF UsbInCall, InReply, Position, Join, Whole
  <2>. QED
    BY <1>1, <1>3, <2>6 DEF OneThread
<1>8. CASE CallFocuser
  <2>1. PICK call \in usbCalls :
          /\ usbPc' = call
          /\ usbCalls' = usbCalls \ {call}
          /\ usbTodo' = IF call = "isMoving" THEN Cells ELSE Halves
    BY <1>8 DEF CallFocuser
  <2>2. UNCHANGED << mem, usbRegs, usbFlag, usbPlace, pending >>
    BY <1>8 DEF CallFocuser, personaVars
  <2>3. usbPc = "CurrentReply" /\ UsbInCall
    BY <1>8 DEF CallFocuser, OneThread
  <2>4. UsbInCall'
    BY <1>4, <2>1, <2>2, <2>3
    DEF UsbInCall, InReply, LoadedBy, Position, Join, Whole
  <2>. QED
    BY <1>1, <1>3, <2>4 DEF OneThread
<1>9. CASE ReturnFlag
  <2>1. LoadedBy(usbRegs, Cells, {})
    BY <1>9 DEF ReturnFlag, OneThread, UsbInCall
  <2>2. Join(usbRegs) = Position /\ usbRegs["target"] = mem["target"]
    BY <2>1 DEF LoadedBy, Cells, Halves, Join, Position
  <2>3. /\ usbFlag' = (Whole(Position) # mem["target"]) /\ usbPc' = "CurrentReply"
        /\ UNCHANGED << mem, usbTodo, usbCalls, usbPlace, pending >>
    BY <1>9, <2>2 DEF ReturnFlag, personaVars
  <2>4. UsbInCall /\ usbPc = "isMoving"
    BY <1>9 DEF ReturnFlag, OneThread
  <2>5. UsbInCall'
    BY <2>3, <2>4 DEF UsbInCall, InReply, Position, Join, Whole
  <2>. QED
    BY <1>1, <1>3, <2>5 DEF OneThread
<1>10. CASE ReturnPlace
  <2>1. LoadedBy(usbRegs, Halves, {})
    BY <1>10 DEF ReturnPlace, OneThread, UsbInCall
  <2>2. Join(usbRegs) = Position
    BY <2>1 DEF LoadedBy, Halves, Join, Position
  <2>3. /\ usbPlace' = Whole(Position) /\ usbPc' = "CurrentReply"
        /\ UNCHANGED << mem, usbTodo, usbCalls, usbFlag, pending >>
    BY <1>10, <2>2 DEF ReturnPlace, personaVars
  <2>4. UsbInCall /\ usbPc = "position"
    BY <1>10 DEF ReturnPlace, OneThread
  <2>5. UsbInCall'
    BY <2>3, <2>4 DEF UsbInCall, InReply, Position, Join, Whole
  <2>. QED
    BY <1>1, <1>3, <2>5 DEF OneThread
<1>11. CASE FinishReply
  BY <1>1, <1>3, <1>11 DEF FinishReply, OneThread, UsbInCall, InReply
<1>. QED
  BY <1>5, <1>6, <1>7, <1>8, <1>9, <1>10, <1>11 DEF UsbCall
-----------------------------------------------------------------------------
(* Refinement                                                                *)

\* The contract sees nothing of a step.
Unseen == UNCHANGED << SeenAt, SeenGoal, personaVars >>

(* Such a step is a stutter of the contract.                                 *)
LEMMA UnseenStutters == Unseen => UNCHANGED Contract!vars
  BY DEF Unseen, Contract!vars, personaVars

(* What the contract sees are natural numbers.                               *)
LEMMA SeenNat ==
  ASSUME TypeInv
  PROVE  SeenAt \in Nat /\ SeenGoal \in Nat
<1>1. /\ mem \in [Cells -> Nat] /\ appRegs \in [Cells -> Nat]
      /\ usbRegs \in [Cells -> Nat]
  BY DEF TypeInv, TypeOK
<1>2. SeenAt \in Nat
  BY <1>1, RegsNat DEF SeenAt, Position
<1>. QED
  BY <1>1, <1>2, RegsNat DEF SeenGoal

(* The firmware starts where the contract starts.                            *)
LEMMA InitContract == Init => Contract!Init
<1>. SUFFICES ASSUME Init
              PROVE  Contract!Init
  OBVIOUS
<1>1. Start \in Nat /\ Start * Milli \in Nat /\ Whole(Start * Milli) = Start
  BY MemoryAssumption, WholeSteps
<1>2. mem["hi"] = Split(Start * Milli)["hi"] /\ mem["lo"] = Split(Start * Milli)["lo"]
      /\ mem["target"] = Start
  BY DEF Init, Cells, Halves
<1>3. Position = Start * Milli
  BY <1>1, <1>2, SplitType DEF Position, Join
<1>4. SeenAt = Start /\ SeenGoal = Start
  BY <1>1, <1>2, <1>3 DEF Init, SeenAt, SeenGoal
<1>. QED
  BY <1>4
  DEF Init, Contract!Init, NoReply, Contract!NoAnswer, RegState,
      Contract!RegState, SETTINGS_BASE, Contract!SETTINGS_BASE, Malformed,
      Contract!Malformed

(* advance() is travel, and all of it happens when its last word is stored.  *)
LEMMA AppRefines ==
  ASSUME Scheduling = "harness", OneThread, App
  PROVE  Unseen \/ Contract!Travel
<1>1. usbPc = "idle" /\ UNCHANGED << usbVars, personaVars >> /\ usbPc' = "idle"
  BY DEF App, BeginAdvance, AdvanceLoad, AdvanceIntegrate, AdvanceStore,
         AppMayStep, usbVars
<1>2. CASE BeginAdvance \/ AdvanceLoad
  BY <1>1, <1>2 DEF BeginAdvance, AdvanceLoad, Unseen, SeenAt, SeenGoal, Position,
                    Whole, Join
<1>3. CASE AdvanceIntegrate
  <2>1. LoadedBy(appRegs, Cells, {}) /\ appPc = "load" /\ mem' = mem
    BY <1>3 DEF AdvanceIntegrate, OneThread, AppInCall
  <2>2. Join(appRegs) = Position
    BY <2>1 DEF LoadedBy, Cells, Halves, Join, Position
  <2>3. appPc' = "idle" \/ (appPc' = "store" /\ appRegs' = appRegs)
    BY <1>3 DEF AdvanceIntegrate
  <2>4. SeenAt = Whole(Position) /\ SeenAt' = Whole(Position)
    BY <1>1, <2>1, <2>2, <2>3 DEF SeenAt, Position, Whole, Join
  <2>. QED
    BY <1>1, <2>1, <2>4 DEF Unseen, SeenGoal
<1>4. CASE AdvanceStore
  <2>1. PICK c \in appTodo :
          /\ mem' = [mem EXCEPT ![c] = appNew[c]]
          /\ appTodo' = appTodo \ {c}
          /\ IF appTodo = {c}
               THEN appPc' = "idle" /\ appRegs' = Dead /\ appNew' = Split(0)
               ELSE UNCHANGED << appPc, appRegs, appNew >>
    BY <1>4 DEF AdvanceStore
  <2>2. /\ appPc = "store" /\ appTodo \subseteq Halves /\ mem \in [Cells -> Nat]
        /\ LoadedBy(appNew, Halves, appTodo)
        /\ Whole(Join(appNew)) \in
             Contract!Toward(Whole(Join(appRegs)), mem["target"])
    BY <1>4 DEF AdvanceStore, OneThread, TypeInv, TypeOK, AppInCall
  <2>3. mem'["target"] = mem["target"]
    BY <2>1, <2>2 DEF Cells, Halves
  <2>4. SeenAt = Whole(Join(appRegs)) /\ SeenGoal = mem["target"]
        /\ SeenGoal' = mem["target"]
    BY <1>1, <2>2, <2>3 DEF SeenAt, SeenGoal
  <2>5. CASE appTodo = {c}
    <3>1. mem'["hi"] = appNew["hi"] /\ mem'["lo"] = appNew["lo"]
      BY <2>1, <2>2, <2>5 DEF LoadedBy, Cells, Halves
    <3>2. SeenAt' = Whole(Join(appNew))
      BY <1>1, <2>1, <2>5, <3>1 DEF SeenAt, Position, Whole, Join
    <3>3. Contract!Travel
      BY <1>1, <2>2, <2>4, <3>2 DEF Contract!Travel, personaVars
    <3>. QED
      BY <3>3
  <2>6. CASE appTodo # {c}
    BY <1>1, <2>1, <2>2, <2>4, <2>6 DEF Unseen, SeenAt, Whole, Join
  <2>. QED
    BY <2>5, <2>6
<1>. QED
  BY <1>2, <1>3, <1>4 DEF App

(* A SET_REPORT is one command of the contract.  A position that does not    *)
(* fit a signed word is refused, and nothing moves.                          *)
LEMMA SetReportContract ==
  ASSUME Scheduling = "harness", OneThread, NEW data \in Reports, SetReport(data)
  PROVE  Contract!Next
<1>. DEFINE c == FwParseCommand(StageSetReport(data))
            p == ToSigned(c.position)
<1>1. Parsed(c)
  BY ParserType
<1>2. /\ appPc = "idle" /\ usbPc = "idle"
      /\ command' = c /\ reply' = reply /\ appPc' = "idle"
      /\ \/ c.kind = "malformed" /\ UNCHANGED << pending, settings, mem, usbVars >>
         \/ ApplyRead(c)
         \/ ApplyWrite(c)
  BY DEF SetReport, UsbMayStart, appVars
<1>. HIDE DEF c
<1>3. SeenAt = Whole(Position) /\ SeenGoal = mem["target"]
  BY <1>2 DEF SeenAt, SeenGoal
<1>4. mem' = mem /\ UNCHANGED usbVars => UNCHANGED << SeenAt, SeenGoal >>
  BY <1>2, <1>3 DEF SeenAt, SeenGoal, Position, Whole, Join, usbVars
<1>5. CASE c.kind = "malformed" /\ UNCHANGED << pending, settings, mem, usbVars >>
  <2>1. Contract!Ignore
    BY <1>2, <1>4, <1>5 DEF Contract!Ignore
  <2>. QED
    BY <2>1 DEF Contract!Next
<1>6. CASE ApplyRead(c)
  <2>1. Contract!NameRegister
    BY <1>2, <1>4, <1>6 DEF ApplyRead, Contract!NameRegister
  <2>. QED
    BY <2>1 DEF Contract!Next
<1>7. CASE ApplyWrite(c)
  <2>1. c.kind = "write" /\ c.position \in 0..(WordSize - 1)
    BY <1>1, <1>7 DEF ApplyWrite, Parsed
  <2>2. /\ p \in Int
        /\ p < 0 => c.position > MaxStep
        /\ p >= 0 => p = c.position
    BY <2>1, SignedPosition
  <2>3. Contract!Write
    BY <1>2, <1>7
    DEF ApplyWrite, Contract!Write, RegState, Contract!RegState, Absent,
        Contract!Absent
  <2>. HIDE DEF p
  <2>4. \/ c.go /\ MoveTo(p)
        \/ ~c.go /\ c.sync /\ BeginSetPosition(p)
        \/ ~c.go /\ ~c.sync /\ BeginHalt
    BY <1>7 DEF ApplyWrite, p
  <2>5. CASE p < 0 /\ (c.go \/ c.sync)
    <3>1. mem' = mem /\ UNCHANGED usbVars
      BY <2>4, <2>5 DEF MoveTo, BeginSetPosition
    <3>2. Contract!Refuse
      BY <1>2, <1>4, <2>2, <2>3, <2>5, <3>1 DEF Contract!Refuse
    <3>. QED
      BY <3>2 DEF Contract!Next
  <2>6. CASE ~(p < 0) /\ c.go
    <3>1. mem' = [mem EXCEPT !["target"] = p] /\ UNCHANGED usbVars
      BY <2>4, <2>6 DEF MoveTo
    <3>2. mem \in [Cells -> Nat] /\ p = c.position
      BY <2>2, <2>6 DEF OneThread, TypeInv, TypeOK
    <3>3. /\ mem'["target"] = c.position
          /\ mem'["hi"] = mem["hi"] /\ mem'["lo"] = mem["lo"]
      BY <3>1, <3>2 DEF Cells, Halves
    <3>4. SeenAt' = SeenAt /\ SeenGoal' = c.position
      BY <1>2, <1>3, <3>1, <3>3
      DEF SeenAt, SeenGoal, Position, Whole, Join, usbVars
    <3>5. Contract!MoveTo
      BY <1>2, <2>3, <2>6, <3>4 DEF Contract!MoveTo
    <3>. QED
      BY <3>5 DEF Contract!Next
  <2>7. CASE ~(p < 0) /\ ~c.go /\ c.sync
    <3>1. /\ usbPc' = "setPosition"
          /\ usbRegs' = [w \in Cells |->
                           IF w = "target" THEN p ELSE Split(p * Milli)[w]]
      BY <2>4, <2>7 DEF BeginSetPosition
    <3>2. p = c.position /\ p \in Nat
      BY <2>2, <2>7
    <3>3. /\ usbRegs'["target"] = p
          /\ usbRegs'["hi"] = Split(p * Milli)["hi"]
          /\ usbRegs'["lo"] = Split(p * Milli)["lo"]
      BY <3>1 DEF Cells, Halves
    <3>4. Join(usbRegs') = p * Milli
      BY <3>2, <3>3, SplitType, WholeSteps DEF Join
    <3>5. Whole(Join(usbRegs')) = p
      BY <3>2, <3>4, WholeSteps
    <3>6. SeenAt' = p /\ SeenGoal' = p
      BY <3>1, <3>3, <3>5 DEF SeenAt, SeenGoal, Whole, Join
    <3>7. Contract!SetPosition
      BY <1>2, <2>3, <2>7, <3>2, <3>6 DEF Contract!SetPosition
    <3>. QED
      BY <3>7 DEF Contract!Next
  <2>8. CASE ~c.go /\ ~c.sync
    <3>1. usbPc' = "halt" /\ mem' = mem
      BY <2>4, <2>8 DEF BeginHalt
    <3>2. SeenAt' = SeenAt /\ SeenGoal' = SeenAt
      BY <1>2, <1>3, <3>1 DEF SeenAt, SeenGoal, Position, Whole, Join
    <3>3. Contract!Halt
      BY <1>2, <2>3, <2>8, <3>2 DEF Contract!Halt
    <3>. QED
      BY <3>3 DEF Contract!Next
  <2>. QED
    BY <2>4, <2>5, <2>6, <2>7, <2>8
<1>. QED
  BY <1>2, <1>5, <1>6, <1>7

(* A reply that consults no focuser is an answer; the begin of one that does *)
(* is not seen.                                                              *)
LEMMA GetReportContract ==
  ASSUME Scheduling = "harness", OneThread, GetReportFixed \/ GetReportState
  PROVE  Unseen \/ Contract!Answer
<1>1. appPc = "idle" /\ usbPc = "idle" /\ appPc' = "idle" /\ mem' = mem
  BY DEF GetReportFixed, GetReportState, UsbMayStart, appVars
<1>2. UNCHANGED << SeenAt, SeenGoal >>
  BY <1>1 DEF GetReportFixed, GetReportState, SeenAt, SeenGoal, Position, Whole,
              Join, usbVars
<1>3. CASE GetReportState
  BY <1>2, <1>3 DEF GetReportState, Unseen
<1>4. CASE GetReportFixed
  <2>1. SeenAt \in Contract!Toward(SeenAt, SeenGoal)
    BY SeenNat DEF OneThread, Contract!Toward
  <2>2. Contract!FixedBody(pending) = FixedBody(pending)
    BY DEF FixedBody, Contract!FixedBody, RegIdentity, Contract!RegIdentity,
           RegSerial, Contract!RegSerial
  <2>3. Contract!RegState = RegState
    BY DEF RegState, Contract!RegState
  <2>. QED
    BY <1>2, <1>4, <2>1, <2>2, <2>3 DEF GetReportFixed, Contract!Answer
<1>. QED
  BY <1>3, <1>4

(* Inside a call nothing is seen but the reply, which tells the truth about  *)
(* where the focuser is in whichever order its parts were asked for.         *)
LEMMA CallContract ==
  ASSUME OneThread, UsbCall
  PROVE  Unseen \/ Contract!Answer
<1>1. appPc = "idle" /\ appPc' = "idle"
  BY DEF UsbCall, SetPositionStore, HaltStore, UsbLoad, CallFocuser, ReturnFlag,
         ReturnPlace, FinishReply, OneThread, appVars
<1>2. mem \in [Cells -> Nat] /\ usbRegs \in [Cells -> Nat] /\ usbTodo \subseteq Cells
  BY DEF OneThread, TypeInv, TypeOK
<1>3. CASE SetPositionStore
  <2>1. PICK c \in usbTodo :
          /\ mem' = [mem EXCEPT ![c] = usbRegs[c]]
          /\ IF usbTodo = {c}
               THEN usbPc' = "idle"
               ELSE UNCHANGED << usbPc, usbRegs >>
    BY <1>3 DEF SetPositionStore
  <2>2. usbPc = "setPosition" /\ LoadedBy(usbRegs, Cells, usbTodo)
        /\ UNCHANGED personaVars
    BY <1>3 DEF SetPositionStore, OneThread, UsbInCall
  <2>3. SeenAt = Whole(Join(usbRegs)) /\ SeenGoal = usbRegs["target"]
    BY <2>2 DEF SeenAt, SeenGoal
  <2>4. CASE usbTodo = {c}
    <3>1. \A w \in Cells : mem'[w] = usbRegs[w]
      BY <1>2, <2>1, <2>2, <2>4 DEF LoadedBy
    <3>2. SeenAt' = Whole(Join(usbRegs)) /\ SeenGoal' = usbRegs["target"]
      BY <1>1, <2>1, <2>4, <3>1
      DEF SeenAt, SeenGoal, Position, Whole, Join, Cells, Halves
    <3>. QED
      BY <2>2, <2>3, <3>2 DEF Unseen
  <2>5. CASE usbTodo # {c}
    BY <2>1, <2>2, <2>3, <2>5 DEF Unseen, SeenAt, SeenGoal, Whole, Join
  <2>. QED
    BY <2>4, <2>5
<1>4. CASE HaltStore
  <2>1. LoadedBy(usbRegs, Halves, {}) /\ usbPc = "halt"
    BY <1>4 DEF HaltStore, OneThread, UsbInCall
  <2>2. Join(usbRegs) = Position
    BY <2>1 DEF LoadedBy, Halves, Join, Position
  <2>3. mem' = [mem EXCEPT !["target"] = Whole(Position)] /\ usbPc' = "idle"
        /\ UNCHANGED personaVars
    BY <1>4, <2>2 DEF HaltStore
  <2>4. /\ mem'["target"] = Whole(Position)
        /\ mem'["hi"] = mem["hi"] /\ mem'["lo"] = mem["lo"]
    BY <1>2, <2>3 DEF Cells, Halves
  <2>5. /\ SeenAt = Whole(Position) /\ SeenAt' = Whole(Position)
        /\ SeenGoal = Whole(Position) /\ SeenGoal' = Whole(Position)
    BY <1>1, <2>1, <2>3, <2>4 DEF SeenAt, SeenGoal, Position, Whole, Join
  <2>. QED
    BY <2>3, <2>5 DEF Unseen
<1>5. CASE UsbLoad
  BY <1>1, <1>5 DEF UsbLoad, Unseen, SeenAt, SeenGoal, Position, Whole, Join
<1>6. CASE CallFocuser
  <2>1. usbPc = "CurrentReply" /\ usbPc' \in {"isMoving", "position"}
        /\ mem' = mem /\ UNCHANGED personaVars
    BY <1>6 DEF CallFocuser, OneThread, TypeInv, TypeOK
  <2>. QED
    BY <1>1, <2>1 DEF Unseen, SeenAt, SeenGoal, Position, Whole, Join
<1>7. CASE ReturnFlag \/ ReturnPlace
  BY <1>1, <1>7 DEF ReturnFlag, ReturnPlace, Unseen, SeenAt, SeenGoal, Position,
                    Whole, Join
<1>8. CASE FinishReply
  <2>1. usbPc = "CurrentReply" /\ usbPc' = "idle" /\ mem' = mem
        /\ UNCHANGED << pending, settings, command >>
    BY <1>8 DEF FinishReply
  <2>2. /\ pending = RegState
        /\ usbFlag = (Whole(Position) # mem["target"])
        /\ usbPlace = Whole(Position)
    BY <1>8 DEF FinishReply, OneThread, UsbInCall, InReply
  <2>3. /\ SeenAt = Whole(Position) /\ SeenAt' = SeenAt
        /\ SeenGoal = mem["target"] /\ SeenGoal' = SeenGoal
    BY <1>1, <2>1 DEF SeenAt, SeenGoal, Position, Whole, Join
  <2>4. SeenAt \in Contract!Toward(SeenAt, SeenGoal)
    BY SeenNat DEF OneThread, Contract!Toward
  <2>5. /\ reply'.register = pending
        /\ reply'.body.kind = "state" /\ reply'.body.position = SeenAt
        /\ reply'.body.settings = settings
        /\ reply'.body.moving = (SeenAt # SeenGoal)
    BY <1>8, <2>2, <2>3 DEF FinishReply
  <2>6. Contract!RegState = RegState
    BY DEF RegState, Contract!RegState
  <2>. QED
    BY <2>1, <2>2, <2>3, <2>4, <2>5, <2>6 DEF Contract!Answer
<1>. QED
  BY <1>3, <1>4, <1>5, <1>6, <1>7, <1>8 DEF UsbCall

(* The firmware, called from one thread as firmware/test/host calls it, keeps *)
(* the same contract as the Python vehicle, whatever byte strings the host    *)
(* sends and in either order of the two calls in CurrentReply.                *)
THEOREM HarnessImplementsContract ==
  Scheduling = "harness" => (Spec => ImplementsContract)
<1>. SUFFICES ASSUME Scheduling = "harness"
              PROVE  Spec => ImplementsContract
  OBVIOUS
<1>1. OneThread /\ [Next]_vars => OneThread'
  <2>. SUFFICES ASSUME OneThread, [Next]_vars
                PROVE  OneThread'
    OBVIOUS
  <2>1. CASE UNCHANGED vars
    BY <2>1, NextTypes
    DEF vars, appVars, usbVars, personaVars, OneThread, AppInCall, UsbInCall,
        InReply, LoadedBy, Position, Whole, Join, Contract!Toward
  <2>. QED
    BY <2>1, AppOneThread, RequestOneThread, CallOneThread DEF Next
<1>2. OneThread /\ [Next]_vars => [Contract!Next]_(Contract!vars)
  <2>. SUFFICES ASSUME OneThread, [Next]_vars
                PROVE  [Contract!Next]_(Contract!vars)
    OBVIOUS
  <2>1. CASE App
    BY <2>1, AppRefines, UnseenStutters DEF Contract!Next
  <2>2. ASSUME NEW data \in Reports, SetReport(data)
        PROVE  Contract!Next
    BY <2>2, SetReportContract
  <2>3. CASE GetReportFixed \/ GetReportState
    BY <2>3, GetReportContract, UnseenStutters DEF Contract!Next
  <2>4. CASE UsbCall
    BY <2>4, CallContract, UnseenStutters DEF Contract!Next
  <2>5. CASE UNCHANGED vars
    <3>1. Unseen
      BY <2>5 DEF vars, appVars, usbVars, personaVars, Unseen, SeenAt, SeenGoal,
                  Position, Whole, Join
    <3>. QED
      BY <3>1, UnseenStutters
  <2>. QED
    BY <2>1, <2>2, <2>3, <2>4, <2>5 DEF Next, UsbRequest
<1>. QED
  BY <1>1, <1>2, InitOneThread, InitContract, PTL
  DEF Spec, ImplementsContract, Contract!Spec
=============================================================================
