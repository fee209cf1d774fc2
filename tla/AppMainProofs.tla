----------------------------- MODULE AppMainProofs -----------------------------
(***************************************************************************)
(* LoadSerial on every configured string, for every length of a serial:    *)
(* it reads no character past the terminator, and what it leaves in the    *)
(* array is what the string says.                                          *)
(***************************************************************************)
EXTENDS AppMain, TLAPS

\* The bytes in front of the loop variable are loaded, those behind it zero.
Loaded ==
  [k \in 1..BodySize |-> IF k <= i THEN 16 * hex[2 * k - 1] + hex[2 * k] ELSE 0]

\* The loop stops only where no pair of digits follows.
Stopped == i = SerialBytes \/ ~PairIsGood(i + 1)

LoadInv ==
  /\ hex \in Seq({Bad} \union 0..15)
  /\ i \in 0..SerialBytes /\ 2 * i <= Len(hex)
  /\ readTo \in Nat /\ ReadsStayInString
  /\ pc = "static" => i = 0
  /\ \A k \in 1..i : PairIsGood(k)
  /\ serial = Loaded
  /\ pc \in {"install", "running"} => Stopped

(* A turn of the loop starts where a good pair stands or ends the loading.   *)
LEMMA PairIsNext ==
  ASSUME LoadInv
  PROVE  /\ i \in Nat /\ Len(hex) \in Nat
         /\ PairIsGood(i + 1) <=>
              /\ 2 * i + 2 <= Len(hex)
              /\ hex[2 * i + 1] # Bad /\ hex[2 * i + 2] # Bad
<1>1. i \in Nat /\ Len(hex) \in Nat
  BY SizesAssumption DEF LoadInv
<1>2. 2 * (i + 1) = 2 * i + 2 /\ 2 * (i + 1) - 1 = 2 * i + 1
  BY <1>1
<1>3. QED
  BY <1>1, <1>2 DEF PairIsGood

(* The loop condition stops at the terminator: it tests the first character  *)
(* of a pair before it reads the second.                                     *)
LEMMA ConditionStays ==
  ASSUME LoadInv
  PROVE  ConditionReads \in Nat /\ ConditionReads <= Len(hex) + 1
<1>1. /\ i \in Nat /\ Len(hex) \in Nat /\ 2 * i <= Len(hex)
      /\ readTo \in Nat /\ readTo <= Len(hex) + 1
  BY PairIsNext DEF LoadInv, ReadsStayInString
<1>2. QED
  BY <1>1, SizesAssumption DEF ConditionReads

(* From reset nothing is loaded.                                             *)
LEMMA InitLoadInv == Init => LoadInv
<1>. SUFFICES ASSUME Init
              PROVE  LoadInv
  OBVIOUS
<1>1. hex \in Seq({Bad} \union 0..15)
  BY ConfiguredAssumption DEF Init
<1>2. serial = Loaded
  BY SizesAssumption DEF Init, Zeroed, Loaded
<1>3. QED
  BY <1>1, <1>2, SizesAssumption DEF Init, LoadInv, ReadsStayInString

(* A pair of digits becomes the byte at the loop variable.                   *)
LEMMA LoadPairKeeps == LoadInv /\ LoadPair => LoadInv'
<1>. SUFFICES ASSUME LoadInv, LoadPair
              PROVE  LoadInv'
  OBVIOUS
<1>1. /\ i \in Nat /\ SerialBytes \in Nat /\ BodySize \in Nat
      /\ i < SerialBytes /\ SerialBytes <= BodySize
      /\ i' = i + 1 /\ hex' = hex /\ pc' = pc /\ pc = "load"
  BY PairIsNext, SizesAssumption DEF LoadPair, PairPresent
<1>2. PairIsGood(i + 1) /\ 2 * (i + 1) <= Len(hex)
  BY PairIsNext, <1>1 DEF LoadPair, PairPresent
<1>3. readTo' \in Nat /\ ReadsStayInString'
  BY ConditionStays, <1>1 DEF LoadPair, ReadsStayInString
<1>4. \A k \in 1..i' : PairIsGood(k)'
  <2>1. \A k \in 1..(i + 1) : PairIsGood(k)
    BY <1>1, <1>2 DEF LoadInv
  <2>2. QED
    BY <2>1, <1>1 DEF PairIsGood
<1>5. serial' = Loaded'
  <2>. DEFINE byte == 16 * hex[2 * i + 1] + hex[2 * i + 2]
  <2>1. serial' = [serial EXCEPT ![i + 1] = byte]
    BY DEF LoadPair
  <2>2. 2 * (i + 1) - 1 = 2 * i + 1 /\ 2 * (i + 1) = 2 * i + 2
    BY <1>1
  <2>3. byte = 16 * hex[2 * (i + 1) - 1] + hex[2 * (i + 1)]
    BY <2>2
  <2>. HIDE DEF byte
  <2>4. serial = [k \in 1..BodySize |->
                    IF k <= i THEN 16 * hex[2 * k - 1] + hex[2 * k] ELSE 0]
    BY DEF LoadInv, Loaded
  <2>5. Loaded' = [k \in 1..BodySize |->
                     IF k <= i + 1 THEN 16 * hex[2 * k - 1] + hex[2 * k] ELSE 0]
    BY <1>1 DEF Loaded
  <2>6. ASSUME NEW k \in 1..BodySize
        PROVE  serial'[k] = Loaded'[k]
    <3>1. CASE k = i + 1
      BY <3>1, <2>1, <2>3, <2>4, <2>5, <1>1
    <3>2. CASE k # i + 1
      BY <3>2, <2>1, <2>4, <2>5, <1>1
    <3>3. QED
      BY <3>1, <3>2
  <2>7. QED
    BY <2>1, <2>4, <2>5, <2>6
<1>6. QED
  BY <1>1, <1>2, <1>3, <1>4, <1>5 DEF LoadInv

(* Loading ends where no pair of digits follows.                             *)
LEMMA LoadEndsKeeps == LoadInv /\ LoadEnds => LoadInv'
<1>. SUFFICES ASSUME LoadInv, LoadEnds
              PROVE  LoadInv'
  OBVIOUS
<1>1. /\ i' = i /\ hex' = hex /\ serial' = serial /\ pc' = "install"
      /\ readTo' = ConditionReads
  BY DEF LoadEnds
<1>2. Stopped
  <2>1. CASE PairPresent
    BY <2>1, PairIsNext DEF LoadEnds, Stopped
  <2>2. CASE i < SerialBytes /\ ~PairPresent
    BY <2>2, PairIsNext DEF PairPresent, Stopped
  <2>3. CASE ~(i < SerialBytes)
    BY <2>3, SizesAssumption DEF LoadInv, Stopped
  <2>4. QED
    BY <2>1, <2>2, <2>3
<1>3. QED
  BY <1>1, <1>2, ConditionStays
  DEF LoadInv, ReadsStayInString, PairIsGood, Loaded, Stopped

(* No other step touches the string, the loop variable or the array.         *)
LEMMA StepKeeps == LoadInv /\ [Next]_vars => LoadInv'
<1>. SUFFICES ASSUME LoadInv, [Next]_vars
              PROVE  LoadInv'
  OBVIOUS
<1>. USE DEF LoadInv, ReadsStayInString, PairIsGood, Loaded, Stopped
<1>1. CASE ConstructPersona
  BY <1>1 DEF ConstructPersona
<1>2. CASE LoadPair
  BY <1>2, LoadPairKeeps
<1>3. CASE LoadEnds
  BY <1>3, LoadEndsKeeps
<1>4. CASE Install
  BY <1>4 DEF Install
<1>5. CASE AnswerSerial
  BY <1>5 DEF AnswerSerial
<1>6. CASE Turn
  BY <1>6 DEF Turn, boot
<1>7. CASE UNCHANGED vars
  BY <1>7 DEF vars, boot
<1>8. QED
  BY <1>1, <1>2, <1>3, <1>4, <1>5, <1>6, <1>7 DEF Next, Main

(* LoadSerial reads no character past the terminator of the configured       *)
(* string, whatever its length and its characters.                           *)
THEOREM ReadsAlwaysStayInString == Spec => []ReadsStayInString
<1>1. LoadInv => ReadsStayInString
  BY DEF LoadInv
<1>2. QED
  BY <1>1, InitLoadInv, StepKeeps, PTL DEF Spec

(* Once USB starts a well-formed string is loaded whole, and no byte of the   *)
(* array is ever other than zero or what the string says in its place.       *)
THEOREM SerialAlwaysFromString == Spec => []SerialIsFromString
<1>1. ASSUME LoadInv
      PROVE  SerialIsFromString
  <2>1. /\ i \in 0..SerialBytes /\ SerialBytes \in Nat /\ BodySize \in Nat
        /\ SerialBytes <= BodySize
        /\ \A k \in 1..i : PairIsGood(k)
        /\ serial = Loaded
    BY <1>1, SizesAssumption DEF LoadInv
  <2>2. ASSUME NEW k \in 1..BodySize
        PROVE  /\ k <= i => serial[k] = Body[k]
               /\ ~(k <= i) => serial[k] = 0
    <3>1. CASE k <= i
      <4>1. k <= SerialBytes /\ \A j \in 1..k : PairIsGood(j)
        BY <2>1, <3>1
      <4>2. QED
        BY <2>1, <3>1, <4>1 DEF Loaded, Body
    <3>2. CASE ~(k <= i)
      BY <2>1, <3>2 DEF Loaded
    <3>3. QED
      BY <3>1, <3>2
  <2>3. ASSUME pc \in {"install", "running"}, WellFormed
        PROVE  serial = Body
    <3>1. i = SerialBytes
      <4>1. i = SerialBytes \/ ~PairIsGood(i + 1)
        BY <1>1, <2>3 DEF LoadInv, Stopped
      <4>2. i # SerialBytes => i + 1 \in 1..SerialBytes
        BY <2>1
      <4>3. QED
        BY <4>1, <4>2, <2>3 DEF WellFormed
    <3>2. ASSUME NEW k \in 1..BodySize
          PROVE  serial[k] = Body[k]
      <4>1. CASE k <= i
        BY <4>1, <2>2
      <4>2. CASE ~(k <= i)
        <5>1. Body[k] = 0
          BY <4>2, <3>1, <2>1 DEF Body
        <5>2. QED
          BY <4>2, <5>1, <2>2
      <4>3. QED
        BY <4>1, <4>2
    <3>3. QED
      BY <2>1, <3>2 DEF Loaded, Body
  <2>4. \A k \in 1..BodySize : serial[k] \in {0, Body[k]}
    BY <2>2
  <2>5. QED
    BY <2>3, <2>4 DEF SerialIsFromString
<1>2. QED
  BY <1>1, InitLoadInv, StepKeeps, PTL DEF Spec
=============================================================================
