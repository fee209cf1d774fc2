--------------------------- MODULE CapturePoolProofs ---------------------------
(***************************************************************************)
(* What one capture owes the next and what it owes its file, for every     *)
(* size of the pool, every number of chunks, errors and captures, and      *)
(* every interleaving of the analyzer, callbacks, Ctrl-C in and outside of *)
(* them, and kills.  The analyzer is off before it is enabled, and only a  *)
(* capture that was abandoned leaves it on.  The file is exact up to the   *)
(* first chunk that was cut or at which a callback was broken off, and a   *)
(* transfer leaves the pool only when its end or its callback went wrong.  *)
(***************************************************************************)
EXTENDS CapturePool, SequenceTheorems, TLAPS

-----------------------------------------------------------------------------
(* The analyzer *)

\* Nothing but an enable makes the analyzer capture, so between the request
\* that stops it and that enable it can only be unplugged.  The finally block
\* lies between the enable and every end that does not abandon it.
AnalyzerKnown ==
  /\ pc = "disabled" => analyzer \in {"stopped", "gone"}
  /\ analyzer = "capturing" =>
       abandoned \/ pc \in InWith \union {"enabled", "stop"}

(* The first capture finds the analyzer stopped or overrun.                  *)
LEMMA InitAnalyzer == Init => AnalyzerKnown
  BY DEF Init, AnalyzerKnown

(* No step of the analyzer, of the USB stack or of the program loses track   *)
(* of the analyzer's state.                                                  *)
LEMMA AnalyzerStep == AnalyzerKnown /\ [Next]_vars => AnalyzerKnown'
<1>. SUFFICES ASSUME AnalyzerKnown, [Next]_vars
              PROVE  AnalyzerKnown'
  OBVIOUS
<1>. USE DEF AnalyzerKnown, InWith, flagVars
<1>1. CASE Receive \/ EndShort \/ EndInError
  BY <1>1 DEF Receive, EndShort, EndInError
<1>2. CASE Callback \/ BreakOff
  BY <1>2 DEF Callback, BreakOff, Return
<1>3. CASE Overrun \/ Unplug
  BY <1>3 DEF Overrun, Unplug
<1>4. CASE Program
  <2>1. CASE Claim \/ RequestFails \/ OpenWriter \/ SubmitPool \/ BeginDrain
    BY <1>4, <2>1 DEF Claim, RequestFails, OpenWriter, SubmitPool, Fail, BeginDrain
  <2>2. CASE LeaveLoop \/ Cancel \/ EndDrain
    BY <1>4, <2>2 DEF LeaveLoop, BeginCancel, Cancel, Fail, EndDrain
  <2>3. CASE Disable \/ Enable
    BY <2>3 DEF Disable, Enable
  <2>4. CASE Stop
    BY <2>4 DEF Stop
  <2>5. QED
    BY <1>4, <2>1, <2>2, <2>3, <2>4 DEF Program
<1>5. CASE Interrupt \/ Kill
  BY <1>5 DEF Interrupt, Kill, BeginCancel, Fail, Exits
<1>6. CASE Again
  BY <1>6 DEF Again, NewSession, Exits
<1>7. CASE UNCHANGED vars
  BY <1>7 DEF vars
<1>8. QED
  BY <1>1, <1>2, <1>3, <1>4, <1>5, <1>6, <1>7 DEF Next

(* "Always stop the analyzer, even on error": whatever failed, an analyzer   *)
(* is left capturing only by a kill, or by a Ctrl-C between the enable and   *)
(* the try or in the finally block.                                          *)
THEOREM CapturingOnlyOnceAbandoned == FairSpec => []CapturingOnlyIfAbandoned
<1>1. AnalyzerKnown => CapturingOnlyIfAbandoned
  BY DEF AnalyzerKnown, CapturingOnlyIfAbandoned, Exits, InWith
<1>2. QED
  BY <1>1, InitAnalyzer, AnalyzerStep, PTL DEF FairSpec, Spec

(* Enabling the analyzer is never the silent no-op, whatever an earlier      *)
(* capture left behind and however that one ended.                           *)
THEOREM EnableAlwaysTakesEffect == FairSpec => EnableTakesEffect
<1>1. AnalyzerKnown /\ [Next]_vars => [Enable => analyzer' = "capturing"]_vars
  BY DEF AnalyzerKnown, Enable
<1>2. QED
  BY <1>1, InitAnalyzer, AnalyzerStep, PTL DEF FairSpec, Spec, EnableTakesEffect

-----------------------------------------------------------------------------
(* The pool and the file: the inductive invariant *)

Early == {"start", "claimed", "disabled", "enabled"}

Statuses == {"completed", "error", "no_device", "cancelled"}
Endings == [transfer : Transfers, status : Statuses]

Types ==
  /\ analyzer \in {"stopped", "capturing", "overrun", "gone"}
  /\ next \in 1..(TRANSFER_COUNT + 1)
  /\ sent \in 0..MaxChunks
  /\ inFlight \in Seq(Transfers)
  /\ completed \in Seq(Endings)
  /\ held \in [Transfers -> Seq(1..sent)]
  /\ fed \in Seq(1..sent) /\ taken \in 0..Len(fed)
  /\ cut \in SUBSET (1..sent) /\ broken \in SUBSET (1..sent)
  /\ spent \in SUBSET Transfers
  /\ running \in BOOLEAN /\ stuck \in BOOLEAN /\ abandoned \in BOOLEAN
  /\ failure \in BOOLEAN /\ gaveUp \in BOOLEAN

\* The transfers with the USB stack in the order their callbacks will run.
Due == Len(completed)
Size == Due + Len(inFlight)
Queue ==
  [j \in 1..Size |-> IF j <= Due THEN completed[j].transfer ELSE inFlight[j - Due]]

Queued ==
  /\ \A i, j \in 1..Size : Queue[i] = Queue[j] => i = j
  /\ Size <= TRANSFER_COUNT
  /\ pc \in Early => Size = 0 /\ next = 1 /\ sent = 0
  /\ pc = "submitting" => Size <= next - 1 /\ \A j \in 1..Size : Queue[j] < next

\* Chunks lie in the order sent, first those the decoder was given and then those
\* of the queue; of the transfers in flight only the first holds any.
Ordered ==
  /\ \A i, j \in 1..Len(fed) : i < j => fed[i] < fed[j]
  /\ \A t \in Transfers : \A c \in ChunksIn(t) : \A i \in 1..Len(fed) : fed[i] < c
  /\ \A t \in Transfers : \A k \in 1..Len(held[t]) : held[t][k] = held[t][1] + k - 1
  /\ \A i, j \in 1..Size : i < j =>
       \A c \in ChunksIn(Queue[i]), d \in ChunksIn(Queue[j]) : c < d
  /\ \A j \in 1..Size : j > Due + 1 => held[Queue[j]] = << >>
  /\ \A t \in Transfers : held[t] # << >> => \E j \in 1..Size : Queue[j] = t
  /\ Size > Due /\ held[Queue[Due + 1]] # << >> =>
       held[Queue[Due + 1]][Len(held[Queue[Due + 1]])] = sent

Intact(c) == \A d \in cut \union broken : c < d

Accounted ==
  /\ \A i \in 1..Len(fed) : Intact(fed[i]) => fed[i] = i
  /\ \A c \in 1..sent : Intact(c) =>
       c \in Range(fed) \/ \E t \in Transfers : c \in ChunksIn(t)
  /\ \A j \in 1..Due : completed[j].status # "completed" =>
       ChunksIn(completed[j].transfer) \subseteq cut
  /\ pc \in {"stop", "returned"} /\ ~gaveUp /\ ~failure => Size = 0

PoolInv == Types /\ Queued /\ Ordered /\ Accounted

-----------------------------------------------------------------------------
(* The queue *)

(* A transfer that ends is noted with its status.                            *)
LEMMA EndedType ==
  ASSUME NEW t \in Transfers, NEW s \in Statuses
  PROVE  /\ Ended(t, s) \in Endings
         /\ Ended(t, s).transfer = t /\ Ended(t, s).status = s
  BY DEF Ended, Endings

(* The queue is made of transfers, those that have ended in front.           *)
LEMMA QueueType ==
  ASSUME Types
  PROVE  /\ Due \in Nat /\ Size \in Nat /\ Due <= Size
         /\ Len(inFlight) = Size - Due
         /\ \A j \in 1..Size : Queue[j] \in Transfers
         /\ \A j \in 1..Due : Queue[j] = completed[j].transfer
         /\ \A j \in 1..Size : j > Due => Queue[j] = inFlight[j - Due]
<1>1. /\ inFlight \in Seq(Transfers) /\ Len(inFlight) \in Nat
      /\ completed \in Seq(Endings)
      /\ Due \in Nat /\ Size \in Nat /\ Size = Due + Len(inFlight)
  BY DEF Types, Due, Size
<1>2. ASSUME NEW j \in 1..Due
      PROVE  completed[j].transfer \in Transfers
  <2>1. completed[j] \in Endings
    BY <1>1 DEF Due
  <2>2. QED
    BY <2>1 DEF Endings
<1>3. \A j \in 1..Size : j > Due => inFlight[j - Due] \in Transfers
  BY <1>1
<1>4. QED
  BY <1>1, <1>2, <1>3 DEF Queue

(* A transfer that ends changes its place from flight to the callbacks that  *)
(* are due, and not its place in the queue.                                  *)
LEMMA HeadEnds ==
  ASSUME Types, inFlight # << >>, NEW s \in Statuses,
         completed' = Append(completed, Ended(Head(inFlight), s)),
         inFlight' = Tail(inFlight)
  PROVE  /\ inFlight' \in Seq(Transfers)
         /\ completed' \in Seq(Endings)
         /\ Due' = Due + 1 /\ Size' = Size /\ Queue' = Queue
         /\ Due < Size /\ Head(inFlight) = Queue[Due + 1]
         /\ \A j \in 1..Due : completed'[j] = completed[j]
         /\ completed'[Due + 1].status = s
         /\ completed'[Due + 1].transfer = Queue[Due + 1]
<1>. DEFINE entry == Ended(Head(inFlight), s)
<1>1. /\ inFlight \in Seq(Transfers) /\ Len(inFlight) \in Nat /\ Len(inFlight) > 0
      /\ completed \in Seq(Endings)
      /\ Due \in Nat /\ Size = Due + Len(inFlight) /\ Due = Len(completed)
      /\ Head(inFlight) = inFlight[1]
  BY DEF Types, Due, Size
<1>2. entry \in Endings
  BY <1>1 DEF Ended, Endings
<1>3. entry.transfer = inFlight[1] /\ entry.status = s
      /\ completed' = Append(completed, entry)
  BY <1>1 DEF Ended
<1>. HIDE DEF entry
<1>4. /\ inFlight' \in Seq(Transfers) /\ Len(inFlight') = Len(inFlight) - 1
      /\ \A j \in 1..Len(inFlight') : inFlight'[j] = inFlight[j + 1]
  BY <1>1
<1>5. /\ completed' \in Seq(Endings)
      /\ Len(completed') = Due + 1
      /\ \A j \in 1..Due : completed'[j] = completed[j]
      /\ completed'[Due + 1] = entry
  BY <1>1, <1>2, <1>3
<1>6. Due' = Due + 1 /\ Size' = Size /\ Due < Size
  BY <1>1, <1>4, <1>5 DEF Due, Size
<1>7. Queue[Due + 1] = inFlight[1]
  BY <1>1, <1>6 DEF Queue
<1>8. Queue' = Queue
  <2>1. Queue' = [j \in 1..Size |-> IF j <= Due + 1 THEN completed'[j].transfer
                                                     ELSE inFlight'[j - (Due + 1)]]
    BY <1>6 DEF Queue
  <2>2. ASSUME NEW j \in 1..Size
        PROVE  Queue'[j] = Queue[j]
    <3>1. CASE j <= Due
      <4>1. Queue'[j] = completed[j].transfer
        BY <3>1, <2>1, <1>1, <1>5
      <4>2. Queue[j] = completed[j].transfer
        BY <3>1, <1>1 DEF Queue
      <4>3. QED
        BY <4>1, <4>2
    <3>2. CASE j = Due + 1
      BY <3>2, <2>1, <1>1, <1>3, <1>5, <1>7
    <3>3. CASE j > Due + 1
      <4>1. j - (Due + 1) \in 1..Len(inFlight') /\ j - (Due + 1) + 1 = j - Due
        BY <3>3, <1>1, <1>4
      <4>2. Queue'[j] = inFlight[j - Due]
        BY <3>3, <4>1, <2>1, <1>1, <1>4
      <4>3. Queue[j] = inFlight[j - Due]
        BY <3>3, <1>1 DEF Queue
      <4>4. QED
        BY <4>2, <4>3
    <3>4. QED
      BY <3>1, <3>2, <3>3, <1>1
  <2>3. QED
    BY <2>1, <2>2 DEF Queue
<1>9. QED
  BY <1>1, <1>3, <1>4, <1>5, <1>6, <1>7, <1>8

Cleared(s) ==
  /\ completed' = completed \o [k \in DOMAIN inFlight |-> Ended(inFlight[k], s)]
  /\ inFlight' = << >>

(* Unplugged, every transfer in flight ends, in its place.                   *)
LEMMA AllEnd ==
  ASSUME Types, NEW s \in Statuses, Cleared(s)
  PROVE  /\ inFlight' \in Seq(Transfers) /\ completed' \in Seq(Endings)
         /\ Due' = Size /\ Size' = Size /\ Queue' = Queue
         /\ \A j \in 1..Due : completed'[j] = completed[j]
         /\ \A j \in 1..Size : j > Due =>
              completed'[j].status = s /\ completed'[j].transfer = Queue[j]
<1>. DEFINE ended == [k \in DOMAIN inFlight |-> Ended(inFlight[k], s)]
<1>1. /\ inFlight \in Seq(Transfers) /\ completed \in Seq(Endings)
      /\ Len(inFlight) \in Nat /\ DOMAIN inFlight = 1..Len(inFlight)
      /\ Due \in Nat /\ Due = Len(completed) /\ Size = Due + Len(inFlight)
  BY DEF Types, Due, Size
<1>2. ASSUME NEW k \in 1..Len(inFlight)
      PROVE  /\ Ended(inFlight[k], s) \in Endings
             /\ Ended(inFlight[k], s).status = s
             /\ Ended(inFlight[k], s).transfer = inFlight[k]
  <2>1. inFlight[k] \in Transfers
    BY <1>1
  <2>2. QED
    BY <2>1 DEF Ended, Endings
<1>3. /\ ended \in Seq(Endings) /\ Len(ended) = Len(inFlight)
      /\ \A k \in 1..Len(inFlight) :
           ended[k].status = s /\ ended[k].transfer = inFlight[k]
  <2>1. ended \in [1..Len(inFlight) -> Endings]
    BY <1>1, <1>2
  <2>2. \A k \in 1..Len(inFlight) : ended[k] = Ended(inFlight[k], s)
    BY <1>1
  <2>. HIDE DEF ended
  <2>3. ended \in Seq(Endings)
    BY <2>1, <1>1, SeqDef
  <2>4. Len(ended) = Len(inFlight)
    BY <2>1, <2>3, <1>1, LenProperties
  <2>5. QED
    BY <2>2, <2>3, <2>4, <1>2
<1>4. completed' = completed \o ended /\ inFlight' = << >>
  BY DEF Cleared
<1>. HIDE DEF ended
<1>5. /\ completed' \in Seq(Endings) /\ Len(completed') = Size
      /\ \A j \in 1..Due : completed'[j] = completed[j]
      /\ \A j \in 1..Size : j > Due => completed'[j] = ended[j - Due]
  <2>. DEFINE all == completed \o ended
  <2>1. /\ Len(all) = Len(completed) + Len(ended)
        /\ all \in Seq(Endings)
        /\ \A j \in 1..(Len(completed) + Len(ended)) : all[j] =
             IF j <= Len(completed) THEN completed[j] ELSE ended[j - Len(completed)]
    <3>1. completed \in Seq(Endings) /\ ended \in Seq(Endings)
      BY <1>1, <1>3
    <3>2. QED
      BY <3>1, ConcatProperties
  <2>2. completed' = all
    BY <1>4
  <2>. HIDE DEF all
  <2>3. Len(completed) = Due /\ Len(completed) + Len(ended) = Size
    BY <1>1, <1>3
  <2>4. /\ Len(all) = Size /\ all \in Seq(Endings)
        /\ \A j \in 1..Size : all[j] = IF j <= Due THEN completed[j] ELSE ended[j - Due]
    BY <2>1, <2>3
  <2>5. QED
    BY <2>2, <2>4, <1>1
<1>6. inFlight' \in Seq(Transfers) /\ Due' = Size /\ Size' = Size
  BY <1>1, <1>4, <1>5 DEF Due, Size
<1>7. ASSUME NEW j \in 1..Size, j > Due
      PROVE  /\ completed'[j].status = s /\ completed'[j].transfer = Queue[j]
             /\ Queue[j] = inFlight[j - Due]
  <2>1. j - Due \in 1..Len(inFlight) /\ completed'[j] = ended[j - Due]
    BY <1>1, <1>5, <1>7
  <2>2. Queue[j] = inFlight[j - Due]
    BY <1>1, <1>7 DEF Queue
  <2>3. QED
    BY <2>1, <2>2, <1>3
<1>8. Queue' = Queue
  <2>1. Queue' = [j \in 1..Size |-> IF j <= Size THEN completed'[j].transfer
                                                  ELSE inFlight'[j - Size]]
    BY <1>6 DEF Queue
  <2>2. ASSUME NEW j \in 1..Size
        PROVE  Queue'[j] = Queue[j]
    <3>1. Queue'[j] = completed'[j].transfer
      BY <2>1, <1>1
    <3>2. CASE j <= Due
      <4>1. Queue[j] = completed[j].transfer
        BY <3>2, <1>1 DEF Queue
      <4>2. QED
        BY <3>1, <3>2, <4>1, <1>5, <1>1
    <3>3. CASE j > Due
      BY <3>1, <3>3, <1>7
    <3>4. QED
      BY <3>2, <3>3, <1>1
  <2>3. QED
    BY <2>1, <2>2 DEF Queue
<1>9. QED
  BY <1>5, <1>6, <1>7, <1>8

(* A submitted transfer is the last of the queue.                            *)
LEMMA LastJoins ==
  ASSUME Types, NEW t \in Transfers,
         completed' = completed, inFlight' = Append(inFlight, t)
  PROVE  /\ inFlight' \in Seq(Transfers)
         /\ Due' = Due /\ Size' = Size + 1
         /\ \A j \in 1..Size : Queue'[j] = Queue[j]
         /\ Queue'[Size + 1] = t
<1>1. /\ inFlight \in Seq(Transfers) /\ Len(inFlight) \in Nat
      /\ Due \in Nat /\ Size = Due + Len(inFlight) /\ Due <= Size
  BY DEF Types, Due, Size
<1>2. /\ inFlight' \in Seq(Transfers) /\ Len(inFlight') = Len(inFlight) + 1
      /\ \A j \in 1..Len(inFlight) : inFlight'[j] = inFlight[j]
      /\ inFlight'[Len(inFlight) + 1] = t
  BY <1>1
<1>3. Due' = Due /\ Size' = Size + 1
  BY <1>1, <1>2 DEF Due, Size
<1>4. Queue' = [j \in 1..(Size + 1) |-> IF j <= Due THEN completed[j].transfer
                                                     ELSE inFlight'[j - Due]]
  BY <1>3 DEF Queue
<1>5. ASSUME NEW j \in 1..Size
      PROVE  Queue'[j] = Queue[j]
  <2>1. Queue[j] = IF j <= Due THEN completed[j].transfer ELSE inFlight[j - Due]
    BY DEF Queue
  <2>2. j > Due => j - Due \in 1..Len(inFlight)
    BY <1>1
  <2>3. QED
    BY <1>1, <1>2, <1>4, <2>1, <2>2
<1>6. Queue'[Size + 1] = t
  <2>1. Size + 1 \in 1..(Size + 1) /\ ~(Size + 1 <= Due)
        /\ Size + 1 - Due = Len(inFlight) + 1
    BY <1>1
  <2>2. Queue'[Size + 1] = inFlight'[Size + 1 - Due]
    BY <2>1, <1>1, <1>4
  <2>3. QED
    BY <2>1, <2>2, <1>2
<1>7. QED
  BY <1>2, <1>3, <1>5, <1>6

(* The first callback that is due is run: its transfer leaves the queue.     *)
LEMMA FirstLeaves ==
  ASSUME Types, completed # << >>,
         completed' = Tail(completed), inFlight' = inFlight
  PROVE  /\ completed' \in Seq(Endings)
         /\ Head(completed) = completed[1] /\ Head(completed).transfer = Queue[1]
         /\ Due > 0 /\ Due' = Due - 1 /\ Size' = Size - 1
         /\ \A j \in 1..(Due - 1) : completed'[j] = completed[j + 1]
         /\ \A j \in 1..(Size - 1) : Queue'[j] = Queue[j + 1]
<1>1. /\ completed \in Seq(Endings) /\ Len(inFlight) \in Nat
      /\ Due \in Nat /\ Due = Len(completed) /\ Size = Due + Len(inFlight)
      /\ Due > 0 /\ Head(completed) = completed[1]
  BY DEF Types, Due, Size
<1>2. /\ completed' \in Seq(Endings) /\ Len(completed') = Due - 1
      /\ \A j \in 1..(Due - 1) : completed'[j] = completed[j + 1]
  BY <1>1
<1>3. Due' = Due - 1 /\ Size' = Size - 1
  BY <1>1, <1>2 DEF Due, Size
<1>4. Queue[1] = completed[1].transfer
  BY <1>1 DEF Queue
<1>5. Queue' = [j \in 1..(Size - 1) |-> IF j <= Due - 1 THEN completed'[j].transfer
                                                 ELSE inFlight[j - (Due - 1)]]
  BY <1>3 DEF Queue
<1>6. ASSUME NEW j \in 1..(Size - 1)
      PROVE  Queue'[j] = Queue[j + 1]
  <2>1. j + 1 \in 1..Size /\ (j <= Due - 1 <=> j + 1 <= Due)
        /\ j + 1 - Due = j - (Due - 1)
    BY <1>1
  <2>2. Queue[j + 1] =
          IF j + 1 <= Due THEN completed[j + 1].transfer ELSE inFlight[j + 1 - Due]
    BY <2>1, <1>1 DEF Queue
  <2>3. j <= Due - 1 => completed'[j] = completed[j + 1]
    BY <1>2, <1>1
  <2>4. QED
    BY <1>5, <2>1, <2>2, <2>3
<1>7. QED
  BY <1>1, <1>2, <1>3, <1>4, <1>6

(* RemoveAt closes the gap it makes.                                         *)
LEMMA RemoveAtIndex ==
  ASSUME NEW S, NEW seq \in Seq(S), NEW k \in 1..Len(seq)
  PROVE  /\ RemoveAt(seq, k) \in Seq(S)
         /\ Len(RemoveAt(seq, k)) = Len(seq) - 1
         /\ \A j \in 1..(Len(seq) - 1) :
              RemoveAt(seq, k)[j] = IF j < k THEN seq[j] ELSE seq[j + 1]
<1>. DEFINE front == SubSeq(seq, 1, k - 1)
            rest == SubSeq(seq, k + 1, Len(seq))
<1>1. Len(seq) \in Nat /\ k \in Nat /\ 1 <= k /\ k <= Len(seq)
  OBVIOUS
<1>2. /\ \A i \in 1..(k - 1) : seq[i] \in S
      /\ \A i \in (k + 1)..Len(seq) : seq[i] \in S
  BY <1>1
<1>3. /\ front \in Seq(S)
      /\ Len(front) = IF 1 <= k - 1 THEN (k - 1) - 1 + 1 ELSE 0
      /\ \A i \in 1..((k - 1) - 1 + 1) : front[i] = seq[1 + i - 1]
  BY <1>1, <1>2, SubSeqProperties
<1>4. /\ rest \in Seq(S)
      /\ Len(rest) = IF k + 1 <= Len(seq) THEN Len(seq) - (k + 1) + 1 ELSE 0
      /\ \A i \in 1..(Len(seq) - (k + 1) + 1) : rest[i] = seq[k + 1 + i - 1]
  BY <1>1, <1>2, SubSeqProperties
<1>5. RemoveAt(seq, k) = front \o rest
  BY DEF RemoveAt
<1>. HIDE DEF front, rest
<1>6. Len(front) = k - 1 /\ \A i \in 1..(k - 1) : front[i] = seq[i]
  BY <1>1, <1>3
<1>7. /\ Len(rest) = Len(seq) - k
      /\ \A i \in 1..(Len(seq) - k) : rest[i] = seq[k + i]
  BY <1>1, <1>4
<1>8. /\ RemoveAt(seq, k) \in Seq(S)
      /\ Len(RemoveAt(seq, k)) = Len(front) + Len(rest)
      /\ \A j \in 1..(Len(front) + Len(rest)) : RemoveAt(seq, k)[j] =
           IF j <= Len(front) THEN front[j] ELSE rest[j - Len(front)]
  <2>. DEFINE all == front \o rest
  <2>1. /\ all \in Seq(S)
        /\ Len(all) = Len(front) + Len(rest)
        /\ \A j \in 1..(Len(front) + Len(rest)) : all[j] =
             IF j <= Len(front) THEN front[j] ELSE rest[j - Len(front)]
    <3>1. front \in Seq(S) /\ rest \in Seq(S)
      BY <1>3, <1>4
    <3>2. QED
      BY <3>1, ConcatProperties
  <2>2. RemoveAt(seq, k) = all
    BY <1>5
  <2>. HIDE DEF all
  <2>3. QED
    BY <2>1, <2>2
<1>9. ASSUME NEW j \in 1..(Len(seq) - 1)
      PROVE  RemoveAt(seq, k)[j] = IF j < k THEN seq[j] ELSE seq[j + 1]
  <2>1. j \in 1..(Len(front) + Len(rest))
    BY <1>1, <1>6, <1>7
  <2>2. CASE j < k
    BY <2>1, <2>2, <1>1, <1>6, <1>8
  <2>3. CASE ~(j < k)
    <3>1. j - (k - 1) \in 1..(Len(seq) - k) /\ k + (j - (k - 1)) = j + 1
      BY <2>3, <1>1
    <3>2. RemoveAt(seq, k)[j] = rest[j - (k - 1)]
      BY <2>1, <2>3, <1>1, <1>6, <1>8
    <3>3. QED
      BY <2>3, <3>1, <3>2, <1>7
  <2>4. QED
    BY <2>2, <2>3
<1>10. QED
  BY <1>1, <1>6, <1>7, <1>8, <1>9

Cancelled(t, k) ==
  /\ inFlight' = RemoveAt(inFlight, k)
  /\ completed' = Append(completed, Ended(t, "cancelled"))

(* A transfer that is cancelled passes the others in flight.                 *)
LEMMA OnePasses ==
  ASSUME Types, NEW k \in 1..Len(inFlight), NEW t, t = inFlight[k],
         Cancelled(t, k)
  PROVE  /\ inFlight' \in Seq(Transfers) /\ completed' \in Seq(Endings)
         /\ Due' = Due + 1 /\ Size' = Size /\ Due + k \in 1..Size
         /\ \A j \in 1..Due : completed'[j] = completed[j]
         /\ completed'[Due + 1].status = "cancelled"
         /\ completed'[Due + 1].transfer = t
         /\ t = Queue[Due + k]
         /\ \A j \in 1..Size : Queue'[j] =
              IF j = Due + 1 THEN t
              ELSE IF Due + 1 < j /\ j <= Due + k THEN Queue[j - 1]
              ELSE Queue[j]
<1>. DEFINE entry == Ended(t, "cancelled")
<1>1. /\ inFlight \in Seq(Transfers) /\ completed \in Seq(Endings)
      /\ Len(inFlight) \in Nat /\ t \in Transfers /\ k \in Nat /\ 1 <= k
      /\ Due \in Nat /\ Due = Len(completed) /\ Size = Due + Len(inFlight)
      /\ Due + k \in 1..Size
  BY DEF Types, Due, Size
<1>2. /\ entry \in Endings /\ entry.status = "cancelled" /\ entry.transfer = t
      /\ completed' = Append(completed, entry)
  <2>1. entry \in Endings /\ entry.status = "cancelled" /\ entry.transfer = t
    <3>1. "cancelled" \in Statuses
      BY DEF Statuses
    <3>2. t \in Transfers
      BY <1>1
    <3>3. QED
      BY <3>1, <3>2, EndedType
  <2>2. completed' = Append(completed, entry)
    BY DEF Cancelled
  <2>3. QED
    BY <2>1, <2>2
<1>. HIDE DEF entry
<1>3. /\ completed' \in Seq(Endings) /\ Len(completed') = Due + 1
      /\ \A j \in 1..Due : completed'[j] = completed[j]
      /\ completed'[Due + 1] = entry
  BY <1>1, <1>2
<1>4. /\ inFlight' \in Seq(Transfers) /\ Len(inFlight') = Len(inFlight) - 1
      /\ \A j \in 1..(Len(inFlight) - 1) :
           inFlight'[j] = IF j < k THEN inFlight[j] ELSE inFlight[j + 1]
  BY <1>1, RemoveAtIndex DEF Cancelled
<1>5. Due' = Due + 1 /\ Size' = Size
  BY <1>1, <1>3, <1>4 DEF Due, Size
<1>6. Queue[Due + k] = t
  <2>1. Queue[Due + k] = IF Due + k <= Due THEN completed[Due + k].transfer
                         ELSE inFlight[Due + k - Due]
    BY <1>1 DEF Queue
  <2>2. QED
    BY <2>1, <1>1
<1>7. ASSUME NEW j \in 1..Size
      PROVE  Queue'[j] = IF j = Due + 1 THEN t
                         ELSE IF Due + 1 < j /\ j <= Due + k THEN Queue[j - 1]
                         ELSE Queue[j]
  <2>1. Queue'[j] = IF j <= Due + 1 THEN completed'[j].transfer
                    ELSE inFlight'[j - (Due + 1)]
    BY <1>5, <1>1 DEF Queue
  <2>2. \A i \in 1..Size : Queue[i] = IF i <= Due THEN completed[i].transfer
                                      ELSE inFlight[i - Due]
    BY DEF Queue
  <2>3. CASE j <= Due
    BY <2>1, <2>2, <2>3, <1>1, <1>3
  <2>4. CASE j = Due + 1
    BY <2>1, <2>4, <1>1, <1>2, <1>3
  <2>5. CASE j > Due + 1
    <3>1. j - (Due + 1) \in 1..(Len(inFlight) - 1) /\ j - (Due + 1) + 1 = j - Due
      BY <2>5, <1>1
    <3>2. Queue'[j] = IF j - (Due + 1) < k THEN inFlight[j - (Due + 1)]
                      ELSE inFlight[j - Due]
      <4>1. Queue'[j] = inFlight'[j - (Due + 1)]
        BY <2>1, <2>5, <1>1
      <4>2. inFlight'[j - (Due + 1)] =
              IF j - (Due + 1) < k THEN inFlight[j - (Due + 1)]
              ELSE inFlight[j - (Due + 1) + 1]
        BY <3>1, <1>4
      <4>3. QED
        BY <4>1, <4>2, <3>1
    <3>3. /\ j - 1 \in 1..Size /\ j - 1 > Due /\ j - 1 - Due = j - (Due + 1)
          /\ j - (Due + 1) < k <=> j <= Due + k
      BY <2>5, <1>1
    <3>4. Queue[j] = inFlight[j - Due]
      BY <2>2, <2>5, <1>1
    <3>5. Queue[j - 1] = inFlight[j - (Due + 1)]
      <4>1. PICK m \in 1..Size : m = j - 1
        BY <3>3
      <4>2. ~(m <= Due) /\ m - Due = j - (Due + 1)
        BY <4>1, <3>3, <1>1
      <4>3. Queue[m] = inFlight[m - Due]
        BY <4>2, <2>2
      <4>4. QED
        BY <4>1, <4>2, <4>3
    <3>6. j # Due + 1 /\ Due + 1 < j
      BY <2>5, <1>1
    <3>7. CASE j - (Due + 1) < k
      <4>1. Queue'[j] = Queue[j - 1] /\ j <= Due + k
        BY <3>2, <3>3, <3>5, <3>7
      <4>2. QED
        BY <4>1, <3>6
    <3>8. CASE ~(j - (Due + 1) < k)
      <4>1. Queue'[j] = Queue[j] /\ ~(j <= Due + k)
        BY <3>2, <3>3, <3>4, <3>8
      <4>2. QED
        BY <4>1, <3>6
    <3>9. QED
      BY <3>7, <3>8
  <2>6. QED
    BY <2>3, <2>4, <2>5, <1>1
<1>8. QED
  BY <1>1, <1>2, <1>3, <1>4, <1>5, <1>6, <1>7

-----------------------------------------------------------------------------
(* Steps that leave the pool and the file alone *)

Still ==
  /\ UNCHANGED << inFlight, held, completed, sent, fed, taken, cut, broken, spent >>
  /\ UNCHANGED stuck

\* What such a step may do to the rest.
Turns ==
  /\ analyzer' \in {"stopped", "capturing", "overrun", "gone"}
  /\ next' \in 1..(TRANSFER_COUNT + 1)
  /\ failure' \in BOOLEAN /\ gaveUp' \in BOOLEAN
  /\ running' \in BOOLEAN /\ abandoned' \in BOOLEAN
  /\ pc' \in Early \union {"submitting"} =>
       (pc \in Early \/ pc' = pc) /\ next' = next
  /\ pc' \in {"stop", "returned"} /\ ~gaveUp' /\ ~failure' => Size = 0

(* A step that only moves the program or the analyzer on keeps the invariant.*)
LEMMA StillKeeps == PoolInv /\ Still /\ Turns => PoolInv'
<1>. SUFFICES ASSUME PoolInv, Still, Turns
              PROVE  PoolInv'
  OBVIOUS
<1>1. /\ inFlight' = inFlight /\ held' = held /\ completed' = completed
      /\ sent' = sent /\ fed' = fed /\ cut' = cut /\ broken' = broken
      /\ taken' = taken /\ spent' = spent /\ stuck' = stuck
  BY DEF Still
<1>2. Due' = Due /\ Size' = Size /\ Queue' = Queue
  BY <1>1 DEF Due, Size, Queue
<1>3. Types'
  BY <1>1 DEF PoolInv, Types, Turns
<1>4. Queued'
  BY <1>2, <1>1 DEF PoolInv, Queued, Turns, Early
<1>5. Ordered'
  BY <1>1, <1>2 DEF PoolInv, Ordered, ChunksIn
<1>6. Accounted'
  BY <1>1, <1>2 DEF PoolInv, Turns, Accounted, Intact, ChunksIn
<1>7. QED
  BY <1>3, <1>4, <1>5, <1>6 DEF PoolInv

(* The program's way up to the loop.                                         *)
LEMMA OpeningKeeps ==
  PoolInv /\ (Claim \/ Disable \/ Enable \/ RequestFails \/ OpenWriter) => PoolInv'
<1>. SUFFICES ASSUME PoolInv,
                     Claim \/ Disable \/ Enable \/ RequestFails \/ OpenWriter
              PROVE  Still /\ Turns
  BY StillKeeps
<1>. USE DEF Still, poolVars, fileVars, flagVars, Fail
<1>1. Types /\ Queued
  BY DEF PoolInv
<1>2. CASE Claim
  BY <1>1, <1>2 DEF Claim, Turns, Types, Early, InWith
<1>3. CASE Disable
  BY <1>1, <1>3 DEF Disable, Turns, Types, Early, InWith
<1>4. CASE Enable
  BY <1>1, <1>4 DEF Enable, Turns, Types, Early, InWith
<1>5. CASE RequestFails
  BY <1>1, <1>5 DEF RequestFails, Turns, Types, Early, InWith
<1>6. CASE OpenWriter
  BY <1>1, <1>6 DEF OpenWriter, Turns, Types, Early, InWith
<1>7. QED
  BY <1>2, <1>3, <1>4, <1>5, <1>6

(* An empty queue is no transfer with the USB stack.                         *)
LEMMA SubmittedIsQueue ==
  ASSUME Types
  PROVE  Submitted = {Queue[j] : j \in 1..Size}
<1>1. Range(inFlight) = {inFlight[k] : k \in 1..Len(inFlight)}
  BY RangeEquality DEF Types
<1>2. DOMAIN completed = 1..Due
  BY DEF Types, Due
<1>3. /\ Due \in Nat /\ Len(inFlight) \in Nat /\ Size = Due + Len(inFlight)
  BY DEF Types, Due, Size
<1>4. ASSUME NEW k \in 1..Len(inFlight)
      PROVE  \E j \in 1..Size : Queue[j] = inFlight[k]
  <2>1. Due + k \in 1..Size /\ Due + k > Due /\ Due + k - Due = k
    BY <1>3
  <2>2. Queue[Due + k] = inFlight[k]
    BY <2>1, QueueType
  <2>3. QED
    BY <2>1, <2>2
<1>5. ASSUME NEW j \in 1..Due
      PROVE  \E l \in 1..Size : Queue[l] = completed[j].transfer
  BY <1>3, QueueType
<1>6. ASSUME NEW j \in 1..Size
      PROVE  Queue[j] \in Submitted
  <2>1. CASE j <= Due
    <3>1. j \in DOMAIN completed
      BY <2>1, <1>2, <1>3
    <3>2. Queue[j] = completed[j].transfer
      BY <2>1, <1>3, QueueType
    <3>3. QED
      BY <3>1, <3>2 DEF Submitted
  <2>2. CASE j > Due
    <3>1. j - Due \in 1..Len(inFlight)
      BY <2>2, <1>3
    <3>2. QED
      BY <2>2, <3>1, <1>1, QueueType DEF Submitted
  <2>3. QED
    BY <2>1, <2>2, <1>3
<1>7. QED
  BY <1>1, <1>2, <1>4, <1>5, <1>6 DEF Submitted

(* The program's way out of the loop, interrupted or not.                    *)
LEMMA LeavingKeeps ==
  PoolInv /\ (LeaveLoop \/ BeginDrain \/ EndDrain \/ Stop \/ Interrupt \/ Kill)
    => PoolInv'
<1>. SUFFICES ASSUME PoolInv,
                     LeaveLoop \/ BeginDrain \/ EndDrain \/ Stop \/ Interrupt \/ Kill
              PROVE  Still /\ Turns
  BY StillKeeps
<1>. USE DEF Still, poolVars, fileVars, flagVars, Fail
<1>1. Types /\ Queued /\ 1 \in 1..(TRANSFER_COUNT + 1)
  BY PoolAssumption DEF PoolInv
<1>2. pc \in {"stop", "returned"} /\ ~gaveUp /\ ~failure => Size = 0
  BY DEF PoolInv, Accounted
<1>3. CASE pc = "loop" /\ BeginCancel
  BY <1>1, <1>3 DEF BeginCancel, Turns, Types, Early, InWith
<1>4. CASE BeginDrain
  BY <1>1, <1>4 DEF BeginDrain, Turns, Types, Early, InWith
<1>5. CASE EndDrain
  <2>1. ~gaveUp' => Size = 0
    <3>. SUFFICES ASSUME ~gaveUp'
                  PROVE  Size = 0
      OBVIOUS
    <3>1. Submitted = {}
      BY <1>5 DEF EndDrain
    <3>2. 1 \notin 1..Size /\ Size \in Nat
      BY <1>1, <3>1, SubmittedIsQueue, QueueType
    <3>3. QED
      BY <3>2
  <2>2. QED
    BY <1>1, <1>5, <2>1 DEF EndDrain, Turns, Types, Early, InWith
<1>6. CASE Stop
  BY <1>1, <1>2, <1>6 DEF Stop, Turns, Types, Early, InWith
<1>7. CASE Interrupt /\ ~(pc = "loop" /\ BeginCancel)
  BY <1>1, <1>2, <1>7 DEF Interrupt, Turns, Types, Early, InWith
<1>8. CASE Kill
  BY <1>1, <1>8 DEF Kill, Turns, Types, Early, InWith
<1>9. QED
  BY <1>3, <1>4, <1>5, <1>6, <1>7, <1>8 DEF LeaveLoop, Interrupt

(* The analyzer overruns.                                                    *)
LEMMA OverrunKeeps == PoolInv /\ Overrun => PoolInv'
<1>. SUFFICES ASSUME PoolInv, Overrun
              PROVE  Still /\ Turns
  BY StillKeeps
<1>1. Types /\ (pc \in {"stop", "returned"} /\ ~gaveUp /\ ~failure => Size = 0)
  BY DEF PoolInv, Accounted
<1>2. QED
  BY <1>1 DEF Overrun, Still, poolVars, fileVars, flagVars, Turns, Types
-----------------------------------------------------------------------------
(* Chunks *)

(* What a transfer holds, chunk by chunk.                                    *)
LEMMA ChunksAre ==
  ASSUME Types, NEW t \in Transfers
  PROVE  /\ held[t] \in Seq(1..sent) /\ Len(held[t]) \in Nat
         /\ ChunksIn(t) = {held[t][k] : k \in 1..Len(held[t])}
         /\ ChunksIn(t) \subseteq 1..sent
         /\ held[t] = << >> => ChunksIn(t) = {}
<1>1. held[t] \in Seq(1..sent)
  BY DEF Types
<1>2. ChunksIn(t) = {held[t][k] : k \in 1..Len(held[t])}
  BY <1>1, RangeEquality DEF ChunksIn
<1>3. Len(held[t]) \in Nat /\ \A k \in 1..Len(held[t]) : held[t][k] \in 1..sent
  BY <1>1, ElementOfSeq, LenProperties
<1>4. held[t] = << >> => Len(held[t]) = 0
  OBVIOUS
<1>5. ChunksIn(t) \subseteq 1..sent
  BY <1>2, <1>3
<1>6. held[t] = << >> => ChunksIn(t) = {}
  BY <1>2, <1>4
<1>7. QED
  BY <1>1, <1>2, <1>3, <1>5, <1>6

(* Nothing is in the pool before it is filled.                               *)
LEMMA EmptyPool ==
  ASSUME /\ analyzer \in {"stopped", "capturing", "overrun", "gone"}
         /\ pc = "start" /\ next = 1
         /\ inFlight = << >> /\ completed = << >>
         /\ held = [t \in Transfers |-> << >>]
         /\ sent = 0 /\ fed = << >> /\ taken = 0 /\ stuck = FALSE
         /\ cut = {} /\ broken = {} /\ spent = {}
         /\ running = FALSE /\ failure = FALSE /\ gaveUp = FALSE
         /\ abandoned \in BOOLEAN
  PROVE  PoolInv
<1>1. Types
  <2>1. inFlight \in Seq(Transfers) /\ completed \in Seq(Endings)
        /\ fed \in Seq(1..sent) /\ cut \in SUBSET (1..sent)
    OBVIOUS
  <2>2. held \in [Transfers -> Seq(1..sent)]
    OBVIOUS
  <2>3. next \in 1..(TRANSFER_COUNT + 1) /\ sent \in 0..MaxChunks
        /\ taken \in 0..Len(fed)
    BY PoolAssumption, BoundsAssumption
  <2>4. broken \in SUBSET (1..sent) /\ spent \in SUBSET Transfers
    OBVIOUS
  <2>5. QED
    BY <2>1, <2>2, <2>3, <2>4 DEF Types
<1>2. Due = 0 /\ Size = 0
  BY DEF Due, Size
<1>3. \A t \in Transfers : held[t] = << >> /\ Len(held[t]) = 0 /\ ChunksIn(t) = {}
  BY <1>1, ChunksAre
<1>4. Queued
  BY <1>2, PoolAssumption DEF Queued, Early
<1>5. Ordered
  BY <1>2, <1>3 DEF Ordered
<1>6. Accounted
  BY <1>2 DEF Accounted, Early
<1>7. QED
  BY <1>1, <1>4, <1>5, <1>6 DEF PoolInv

LEMMA InitIsEmpty == Init => PoolInv
  BY EmptyPool DEF Init

(* A new capture starts with a new pool.                                     *)
LEMMA AgainKeeps == PoolInv /\ Again => PoolInv'
<1>. SUFFICES ASSUME PoolInv, Again
              PROVE  PoolInv'
  OBVIOUS
<1>1. analyzer' \in {"stopped", "capturing", "overrun", "gone"}
  BY DEF PoolInv, Types, Again
<1>2. Types'
  <2>1. inFlight' \in Seq(Transfers) /\ completed' \in Seq(Endings)
        /\ fed' \in Seq(1..sent') /\ cut' \in SUBSET (1..sent')
    BY DEF Again, NewSession
  <2>2. held' \in [Transfers -> Seq(1..sent')]
    BY DEF Again, NewSession
  <2>3. /\ next' \in 1..(TRANSFER_COUNT + 1) /\ sent' \in 0..MaxChunks
        /\ taken' \in 0..Len(fed')
    <3>1. next' = 1 /\ sent' = 0 /\ taken' = 0 /\ fed' = << >>
      BY DEF Again, NewSession
    <3>2. QED
      BY <3>1, PoolAssumption, BoundsAssumption
  <2>4. /\ failure' \in BOOLEAN /\ gaveUp' \in BOOLEAN
        /\ running' \in BOOLEAN /\ stuck' \in BOOLEAN /\ abandoned' \in BOOLEAN
    BY DEF Again, NewSession, PoolInv, Types
  <2>5. broken' \in SUBSET (1..sent') /\ spent' \in SUBSET Transfers
    BY DEF Again, NewSession
  <2>6. QED
    BY <1>1, <2>1, <2>2, <2>3, <2>4, <2>5 DEF Types
<1>3. Due' = 0 /\ Size' = 0
  BY DEF Due, Size, Again, NewSession
<1>4. \A t \in Transfers : held'[t] = << >> /\ Len(held'[t]) = 0 /\ Range(held'[t]) = {}
  <2>1. \A t \in Transfers : held'[t] = << >>
    BY DEF Again, NewSession
  <2>2. Range(<< >>) = {}
    BY DEF Range
  <2>3. QED
    BY <2>1, <2>2
<1>5. Queued'
  BY <1>3, PoolAssumption DEF Queued, Early, Again, NewSession
<1>6. Ordered'
  BY <1>3, <1>4 DEF Ordered, ChunksIn, Again, NewSession
<1>7. Accounted'
  BY <1>3 DEF Accounted, Early, Again, NewSession
<1>8. QED
  BY <1>2, <1>5, <1>6, <1>7 DEF PoolInv

-----------------------------------------------------------------------------
(* Transfers that end *)

\* Those in flight up to a point of the queue end with a status.
Ending(s, d) ==
  /\ inFlight' \in Seq(Transfers) /\ completed' \in Seq(Endings)
  /\ Size' = Size /\ Queue' = Queue /\ Due' = d
  /\ \A j \in 1..Due : completed'[j] = completed[j]
  /\ \A j \in 1..Size : Due < j /\ j <= d =>
       completed'[j].status = s /\ completed'[j].transfer = Queue[j]

\* Their chunks are cut, unless they end well.
CutWith(s, d) ==
  /\ cut \subseteq cut' /\ cut' \subseteq 1..sent
  /\ \A c \in cut' : c \in cut \/
       \E j \in 1..Size : Due < j /\ j <= d /\ c \in ChunksIn(Queue[j])
  /\ s = "completed" => cut' = cut
  /\ s # "completed" => \A j \in 1..Size : Due < j /\ j <= d =>
       ChunksIn(Queue[j]) \subseteq cut'

EndingStep(s, d) ==
  /\ Ending(s, d) /\ CutWith(s, d)
  /\ UNCHANGED << held, sent, fed, pc, next, failure, gaveUp >>
  /\ UNCHANGED << taken, stuck, broken, spent, running, abandoned >>
  /\ analyzer' \in {"stopped", "capturing", "overrun", "gone"}

(* Transfers that end, well or not, keep the invariant.                      *)
LEMMA EndingKeeps ==
  ASSUME PoolInv, NEW s \in Statuses, NEW d \in Due..Size, EndingStep(s, d)
  PROVE  PoolInv'
<1>1. Types /\ Queued /\ Ordered /\ Accounted
  BY DEF PoolInv
<1>2. /\ Due \in Nat /\ Size \in Nat /\ Due <= Size /\ d \in Nat
      /\ Due <= d /\ d <= Size
      /\ \A j \in 1..Size : Queue[j] \in Transfers
      /\ \A j \in 1..Due : Queue[j] = completed[j].transfer
  BY <1>1, QueueType
<1>10. /\ inFlight' \in Seq(Transfers) /\ completed' \in Seq(Endings)
       /\ Size' = Size /\ Queue' = Queue /\ Due' = d
       /\ \A j \in 1..Due : completed'[j] = completed[j]
       /\ \A j \in 1..Size : Due < j /\ j <= d =>
            completed'[j].status = s /\ completed'[j].transfer = Queue[j]
  BY DEF EndingStep, Ending
<1>11. /\ cut \subseteq cut' /\ cut' \subseteq 1..sent
       /\ \A c \in cut' : c \in cut \/
            \E j \in 1..Size : Due < j /\ j <= d /\ c \in ChunksIn(Queue[j])
       /\ s = "completed" => cut' = cut
       /\ s # "completed" => \A j \in 1..Size : Due < j /\ j <= d =>
            ChunksIn(Queue[j]) \subseteq cut'
  BY DEF EndingStep, CutWith
<1>12. /\ analyzer' \in {"stopped", "capturing", "overrun", "gone"}
       /\ UNCHANGED << taken, stuck, broken, spent, running, abandoned >>
  BY DEF EndingStep
<1>3. /\ held' = held /\ sent' = sent /\ fed' = fed /\ pc' = pc /\ next' = next
      /\ failure' = failure /\ gaveUp' = gaveUp
      /\ \A t : ChunksIn(t)' = ChunksIn(t)
  BY DEF ChunksIn, EndingStep
<1>4. Types'
  BY <1>1, <1>3, <1>10, <1>11, <1>12 DEF Types
<1>5. Queued'
  BY <1>1, <1>3, <1>10 DEF Queued, Early
<1>6. Ordered'
  <2>1. /\ \A i, j \in 1..Len(fed) : i < j => fed[i] < fed[j]
        /\ \A t \in Transfers : \A c \in ChunksIn(t) : \A i \in 1..Len(fed) : fed[i] < c
        /\ \A t \in Transfers : \A k \in 1..Len(held[t]) : held[t][k] = held[t][1] + k - 1
        /\ \A i, j \in 1..Size : i < j =>
             \A c \in ChunksIn(Queue[i]), e \in ChunksIn(Queue[j]) : c < e
        /\ \A j \in 1..Size : j > Due + 1 => held[Queue[j]] = << >>
        /\ \A t \in Transfers : held[t] # << >> => \E j \in 1..Size : Queue[j] = t
        /\ Size > Due /\ held[Queue[Due + 1]] # << >> =>
             held[Queue[Due + 1]][Len(held[Queue[Due + 1]])] = sent
    BY <1>1 DEF Ordered
  <2>2. \A j \in 1..Size : j > d + 1 => held[Queue[j]] = << >>
    BY <2>1, <1>2
  <2>3. Size > d /\ held[Queue[d + 1]] # << >> =>
          held[Queue[d + 1]][Len(held[Queue[d + 1]])] = sent
    <3>1. CASE d = Due
      BY <3>1, <2>1
    <3>2. CASE d > Due /\ Size > d
      <4>1. d + 1 \in 1..Size /\ d + 1 > Due + 1
        BY <3>2, <1>2
      <4>2. QED
        BY <4>1, <2>1
    <3>3. QED
      BY <3>1, <3>2, <1>2
  <2>4. QED
    BY <2>1, <2>2, <2>3, <1>3, <1>10 DEF Ordered
<1>7. Accounted'
  <2>1. /\ \A i \in 1..Len(fed) : Intact(fed[i]) => fed[i] = i
        /\ \A c \in 1..sent : Intact(c) =>
             c \in Range(fed) \/ \E t \in Transfers : c \in ChunksIn(t)
        /\ \A j \in 1..Due : completed[j].status # "completed" =>
             ChunksIn(completed[j].transfer) \subseteq cut
        /\ pc \in {"stop", "returned"} /\ ~gaveUp /\ ~failure => Size = 0
    BY <1>1 DEF Accounted
  <2>2. \A c : Intact(c)' => Intact(c)
    BY <1>11, <1>12 DEF Intact
  <2>4. ASSUME NEW j \in 1..d, completed'[j].status # "completed"
        PROVE  ChunksIn(completed'[j].transfer) \subseteq cut'
    <3>1. CASE j <= Due
      <4>1. j \in 1..Due /\ completed'[j] = completed[j]
        BY <3>1, <2>4, <1>2, <1>10
      <4>2. ChunksIn(completed[j].transfer) \subseteq cut
        BY <4>1, <2>4, <2>1
      <4>3. QED
        BY <4>1, <4>2, <1>11
    <3>2. CASE Due < j
      <4>1. /\ j \in 1..Size /\ j <= d
            /\ completed'[j].status = s /\ completed'[j].transfer = Queue[j]
        BY <3>2, <1>2, <1>10
      <4>2. QED
        BY <3>2, <4>1, <2>4, <1>11
    <3>3. QED
      BY <3>1, <3>2, <1>2
  <2>5. QED
    BY <2>1, <2>2, <2>4, <1>3, <1>10 DEF Accounted
<1>8. QED
  BY <1>4, <1>5, <1>6, <1>7 DEF PoolInv

(* A zero-length packet ends the first transfer in flight.                   *)
LEMMA EndShortKeeps == PoolInv /\ EndShort => PoolInv'
<1>. SUFFICES ASSUME PoolInv, EndShort
              PROVE  PoolInv'
  OBVIOUS
<1>1. Types /\ Due \in Nat /\ Size \in Nat /\ "completed" \in Statuses
  BY QueueType DEF PoolInv, Statuses
<1>2. /\ inFlight' \in Seq(Transfers) /\ completed' \in Seq(Endings)
      /\ Due' = Due + 1 /\ Size' = Size /\ Queue' = Queue /\ Due < Size
      /\ \A j \in 1..Due : completed'[j] = completed[j]
      /\ completed'[Due + 1].status = "completed"
      /\ completed'[Due + 1].transfer = Queue[Due + 1]
  BY <1>1, HeadEnds DEF EndShort
<1>3. Due + 1 \in Due..Size
  BY <1>1, <1>2
<1>4. Ending("completed", Due + 1)
  BY <1>1, <1>2 DEF Ending
<1>5. /\ UNCHANGED << held, sent, fed, cut, pc, next, failure, gaveUp >>
      /\ UNCHANGED << taken, stuck, broken, spent, running, abandoned >>
      /\ analyzer' = analyzer
  BY DEF EndShort, fileVars, flagVars
<1>6. CutWith("completed", Due + 1)
  BY <1>1, <1>5 DEF CutWith, Types
<1>7. EndingStep("completed", Due + 1)
  BY <1>1, <1>4, <1>5, <1>6 DEF EndingStep, Types
<1>8. QED
  BY <1>1, <1>3, <1>7, EndingKeeps

(* The first transfer in flight ends in error.                               *)
LEMMA EndInErrorKeeps == PoolInv /\ EndInError => PoolInv'
<1>. SUFFICES ASSUME PoolInv, EndInError
              PROVE  PoolInv'
  OBVIOUS
<1>1. Types /\ Due \in Nat /\ Size \in Nat /\ "error" \in Statuses
  BY QueueType DEF PoolInv, Statuses
<1>2. /\ inFlight' \in Seq(Transfers) /\ completed' \in Seq(Endings)
      /\ Due' = Due + 1 /\ Size' = Size /\ Queue' = Queue
      /\ Due < Size /\ Head(inFlight) = Queue[Due + 1]
      /\ \A j \in 1..Due : completed'[j] = completed[j]
      /\ completed'[Due + 1].status = "error"
      /\ completed'[Due + 1].transfer = Queue[Due + 1]
  BY <1>1, HeadEnds DEF EndInError
<1>3. Due + 1 \in Due..Size /\ Due + 1 \in 1..Size
  BY <1>1, <1>2
<1>4. Ending("error", Due + 1)
  BY <1>1, <1>2 DEF Ending
<1>5. /\ UNCHANGED << held, sent, fed, pc, next, failure, gaveUp >>
      /\ UNCHANGED << taken, stuck, broken, spent, running, abandoned >>
      /\ analyzer' = analyzer
      /\ cut' = cut \union ChunksIn(Queue[Due + 1])
  BY <1>2 DEF EndInError, flagVars
<1>6. CutWith("error", Due + 1)
  <2>1. Queue[Due + 1] \in Transfers
    BY <1>1, <1>3, QueueType
  <2>2. ChunksIn(Queue[Due + 1]) \subseteq 1..sent /\ cut \subseteq 1..sent
    BY <1>1, <2>1, ChunksAre DEF Types
  <2>3. ASSUME NEW c \in cut'
        PROVE  c \in cut \/
          \E j \in 1..Size : Due < j /\ j <= Due + 1 /\ c \in ChunksIn(Queue[j])
    BY <1>1, <1>3, <1>5
  <2>4. ASSUME NEW j \in 1..Size, Due < j /\ j <= Due + 1
        PROVE  ChunksIn(Queue[j]) \subseteq cut'
    <3>1. j = Due + 1
      BY <1>1, <2>4
    <3>2. QED
      BY <3>1, <1>5
  <2>5. cut \subseteq cut' /\ cut' \subseteq 1..sent
    BY <1>5, <2>2
  <2>6. QED
    BY <2>3, <2>4, <2>5 DEF CutWith
<1>7. EndingStep("error", Due + 1)
  BY <1>1, <1>4, <1>5, <1>6 DEF EndingStep, Types
<1>8. QED
  BY <1>1, <1>3, <1>7, EndingKeeps

(* The analyzer is unplugged.                                                *)
LEMMA UnplugKeeps == PoolInv /\ Unplug => PoolInv'
<1>. SUFFICES ASSUME PoolInv, Unplug
              PROVE  PoolInv'
  OBVIOUS
<1>1. Types /\ Due \in Nat /\ Size \in Nat /\ Due <= Size /\ "no_device" \in Statuses
  BY QueueType DEF PoolInv, Statuses
<1>2. Cleared("no_device")
  BY DEF Unplug, Cleared
<1>3. /\ inFlight' \in Seq(Transfers) /\ completed' \in Seq(Endings)
      /\ Due' = Size /\ Size' = Size /\ Queue' = Queue
      /\ \A j \in 1..Due : completed'[j] = completed[j]
      /\ \A j \in 1..Size : j > Due =>
           completed'[j].status = "no_device" /\ completed'[j].transfer = Queue[j]
  BY <1>1, <1>2, AllEnd
<1>4. Size \in Due..Size
  BY <1>1
<1>5. Ending("no_device", Size)
  BY <1>1, <1>3 DEF Ending
<1>6. /\ UNCHANGED << held, sent, fed, pc, next, failure, gaveUp >>
      /\ UNCHANGED << taken, stuck, broken, spent, running, abandoned >>
      /\ analyzer' = "gone"
      /\ cut' = cut \union UNION {ChunksIn(t) : t \in Range(inFlight)}
  BY DEF Unplug, flagVars
<1>7. CutWith("no_device", Size)
  <2>1. /\ Range(inFlight) = {inFlight[k] : k \in 1..Len(inFlight)}
        /\ Len(inFlight) = Size - Due
        /\ \A k \in 1..Len(inFlight) : inFlight[k] \in Transfers
        /\ \A j \in 1..Size : j > Due => Queue[j] = inFlight[j - Due]
    BY <1>1, RangeEquality, QueueType DEF Types
  <2>2. ASSUME NEW c \in cut'
        PROVE  /\ c \in 1..sent
               /\ c \in cut \/
                    \E j \in 1..Size : Due < j /\ j <= Size /\ c \in ChunksIn(Queue[j])
    <3>1. CASE c \in cut
      BY <1>1, <3>1 DEF Types
    <3>2. CASE c \notin cut
      <4>1. PICK k \in 1..Len(inFlight) : c \in ChunksIn(inFlight[k])
        BY <3>2, <2>1, <1>6
      <4>2. c \in 1..sent
        BY <4>1, <2>1, <1>1, ChunksAre
      <4>3. Due + k \in 1..Size /\ Due < Due + k /\ Due + k - Due = k
        BY <1>1, <2>1
      <4>4. c \in ChunksIn(Queue[Due + k]) /\ Due + k <= Size
        BY <4>1, <4>3, <2>1, <1>1
      <4>5. QED
        BY <4>2, <4>3, <4>4
    <3>3. QED
      BY <3>1, <3>2
  <2>3. ASSUME NEW j \in 1..Size, Due < j
        PROVE  ChunksIn(Queue[j]) \subseteq cut'
    <3>1. j - Due \in 1..Len(inFlight) /\ Queue[j] = inFlight[j - Due]
      BY <1>1, <2>1, <2>3
    <3>2. QED
      BY <3>1, <2>1, <1>6
  <2>4. cut \subseteq cut' /\ cut' \subseteq 1..sent
    BY <1>6, <2>2
  <2>5. QED
    BY <2>2, <2>3, <2>4 DEF CutWith
<1>8. EndingStep("no_device", Size)
  BY <1>1, <1>5, <1>6, <1>7 DEF EndingStep, Types
<1>9. QED
  BY <1>1, <1>4, <1>8, EndingKeeps

-----------------------------------------------------------------------------
(* A chunk that arrives *)

(* The first transfer in flight takes it, and ends or not.                   *)
LEMMA ReceiveEnds ==
  ASSUME PoolInv, Receive
  PROVE  /\ Due < Size /\ Head(inFlight) = Queue[Due + 1]
         /\ \E d \in Due..(Due + 1) : Ending("completed", d)
<1>1. Types /\ Due \in Nat /\ Size \in Nat /\ Due <= Size
      /\ "completed" \in Statuses /\ Len(inFlight) = Size - Due
      /\ \A j \in 1..Size : j > Due => Queue[j] = inFlight[j - Due]
  BY QueueType DEF PoolInv, Statuses
<1>2. inFlight \in Seq(Transfers) /\ inFlight # << >> /\ completed \in Seq(Endings)
  BY <1>1 DEF Receive, Types
<1>3. Len(inFlight) > 0 /\ Head(inFlight) = inFlight[1]
  BY <1>2
<1>4. Due < Size /\ Head(inFlight) = Queue[Due + 1]
  BY <1>1, <1>3
<1>5. CASE UNCHANGED << inFlight, completed >>
  <2>1. Due' = Due /\ Size' = Size /\ Queue' = Queue
    BY <1>5 DEF Due, Size, Queue
  <2>2. Due \in Due..(Due + 1) /\ \A j \in 1..Size : ~(Due < j /\ j <= Due)
    BY <1>1
  <2>3. Ending("completed", Due)
    BY <1>2, <1>5, <2>1, <2>2 DEF Ending
  <2>4. QED
    BY <1>4, <2>2, <2>3
<1>6. CASE /\ inFlight' = Tail(inFlight)
           /\ completed' = Append(completed, Ended(Head(inFlight), "completed"))
  <2>1. /\ inFlight' \in Seq(Transfers) /\ completed' \in Seq(Endings)
        /\ Due' = Due + 1 /\ Size' = Size /\ Queue' = Queue
        /\ \A j \in 1..Due : completed'[j] = completed[j]
        /\ completed'[Due + 1].status = "completed"
        /\ completed'[Due + 1].transfer = Queue[Due + 1]
    BY <1>1, <1>2, <1>6, HeadEnds
  <2>2. Due + 1 \in Due..(Due + 1)
    BY <1>1
  <2>3. Ending("completed", Due + 1)
    BY <1>1, <2>1 DEF Ending
  <2>4. QED
    BY <1>4, <2>2, <2>3
<1>7. QED
  BY <1>5, <1>6 DEF Receive

\* What a transfer holds after the step.
After(u) == Range(held'[u])

(* It is the last of the chunks, in the first transfer that is in flight.    *)
LEMMA ReceiveKeeps == PoolInv /\ Receive => PoolInv'
<1>. SUFFICES ASSUME PoolInv, Receive
              PROVE  PoolInv'
  OBVIOUS
<1>1. Types /\ Queued /\ Ordered /\ Accounted
  BY DEF PoolInv
<1>2. PICK d \in Due..(Due + 1) : Ending("completed", d)
  BY ReceiveEnds
<1>3. /\ inFlight' \in Seq(Transfers) /\ completed' \in Seq(Endings)
      /\ Size' = Size /\ Queue' = Queue /\ Due' = d
      /\ \A j \in 1..Due : completed'[j] = completed[j]
      /\ \A j \in 1..Size : Due < j /\ j <= d =>
           completed'[j].status = "completed" /\ completed'[j].transfer = Queue[j]
  BY <1>2 DEF Ending
<1>4. PICK t \in Transfers : t = Queue[Due + 1]
  <2>1. Due + 1 \in 1..Size
    BY <1>1, ReceiveEnds, QueueType
  <2>2. QED
    BY <2>1, <1>1, QueueType
<1>5. /\ Due \in Nat /\ Size \in Nat /\ Due < Size /\ Due + 1 \in 1..Size
      /\ d \in Nat /\ Due <= d /\ d <= Due + 1 /\ sent \in Nat
      /\ \A j \in 1..Size : Queue[j] \in Transfers
      /\ \A j \in 1..Due : Queue[j] = completed[j].transfer
      /\ \A j \in 1..Size : j # Due + 1 => Queue[j] # t
  <2>1. sent \in Nat
    BY <1>1 DEF Types
  <2>2. Due \in Nat /\ Size \in Nat /\ Due < Size
    BY <1>1, ReceiveEnds, QueueType
  <2>3. \A i, j \in 1..Size : Queue[i] = Queue[j] => i = j
    BY <1>1 DEF Queued
  <2>4. QED
    BY <1>1, <1>2, <1>4, <2>1, <2>2, <2>3, QueueType
<1>6. /\ sent' = sent + 1 /\ sent < MaxChunks
      /\ held' = [held EXCEPT ![t] = Append(held[t], sent + 1)]
      /\ fed' = fed /\ cut' = cut /\ pc' = pc /\ next' = next /\ analyzer' = analyzer
      /\ failure' = failure /\ gaveUp' = gaveUp
      /\ UNCHANGED << taken, stuck, broken, spent, running, abandoned >>
  BY <1>4, ReceiveEnds DEF Receive, fileVars, flagVars
<1>7. /\ held[t] \in Seq(1..sent) /\ Len(held[t]) \in Nat
      /\ held'[t] = Append(held[t], sent + 1)
      /\ held'[t] \in Seq(1..(sent + 1))
      /\ Len(held'[t]) = Len(held[t]) + 1
      /\ \A k \in 1..Len(held[t]) : held'[t][k] = held[t][k] /\ held[t][k] \in 1..sent
      /\ held'[t][Len(held[t]) + 1] = sent + 1
  <2>1. held[t] \in Seq(1..sent)
    BY <1>1, ChunksAre
  <2>2. held'[t] = Append(held[t], sent + 1)
    BY <1>1, <1>6 DEF Types
  <2>. DEFINE q == held[t]
  <2>3. q \in Seq(1..sent) /\ sent \in Nat
    BY <2>1, <1>5
  <2>4. q \in Seq(1..(sent + 1))
    <3>1. 1..sent \subseteq 1..(sent + 1)
      BY <1>5
    <3>2. QED
      BY <2>3, <3>1, SeqMonotonic
  <2>5. \A k \in 1..Len(q) : q[k] \in 1..sent
    BY <2>3, ElementOfSeq
  <2>. HIDE DEF q
  <2>6. /\ Append(q, sent + 1) \in Seq(1..(sent + 1)) /\ Len(q) \in Nat
        /\ Len(Append(q, sent + 1)) = Len(q) + 1
        /\ \A k \in 1..Len(q) : Append(q, sent + 1)[k] = q[k]
        /\ Append(q, sent + 1)[Len(q) + 1] = sent + 1
    BY <2>3, <2>4
  <2>7. QED
    BY <2>2, <2>3, <2>5, <2>6 DEF q
<1>8. \A u \in Transfers : u # t => held'[u] = held[u]
  BY <1>1, <1>6 DEF Types
<1>9. Types'
  <2>1. held' \in [Transfers -> Seq(1..(sent + 1))]
    <3>1. \A u \in Transfers : held'[u] \in Seq(1..(sent + 1))
      <4>1. 1..sent \subseteq 1..(sent + 1)
        BY <1>5
      <4>2. \A u \in Transfers : held[u] \in Seq(1..(sent + 1))
        BY <4>1, <1>1, ChunksAre, SeqMonotonic
      <4>3. QED
        BY <4>2, <1>7, <1>8
    <3>2. held' = [u \in Transfers |-> held'[u]]
      BY <1>1, <1>6 DEF Types
    <3>3. QED
      BY <3>1, <3>2
  <2>2. /\ fed \in Seq(1..(sent + 1)) /\ cut \in SUBSET (1..(sent + 1))
        /\ broken \in SUBSET (1..(sent + 1))
    <3>1. 1..sent \subseteq 1..(sent + 1)
      BY <1>5
    <3>2. QED
      BY <3>1, <1>1, SeqMonotonic DEF Types
  <2>3. sent + 1 \in 0..MaxChunks
    BY <1>5, <1>6, BoundsAssumption
  <2>4. QED
    BY <2>1, <2>2, <2>3, <1>1, <1>3, <1>6 DEF Types
<1>10. Queued'
  <2>1. pc \notin Early
    BY <1>1, <1>5 DEF Queued
  <2>2. QED
    BY <2>1, <1>1, <1>3, <1>6 DEF Queued
<1>11. /\ After(t) = ChunksIn(t) \union {sent + 1}
       /\ \A u \in Transfers : u # t => After(u) = ChunksIn(u)
       /\ \A u \in Transfers : ChunksIn(u) \subseteq 1..sent
  <2>1. ChunksIn(t) = {held[t][k] : k \in 1..Len(held[t])}
    BY <1>1, ChunksAre
  <2>2. After(t) = {held'[t][k] : k \in 1..Len(held'[t])}
    BY <1>7, RangeEquality DEF After
  <2>3. After(t) = ChunksIn(t) \union {sent + 1}
    <3>1. \A k \in 1..(Len(held[t]) + 1) :
            k \in 1..Len(held[t]) \/ k = Len(held[t]) + 1
      <4>1. \A w \in Nat : \A k \in 1..(w + 1) : k \in 1..w \/ k = w + 1
        OBVIOUS
      <4>2. QED
        BY <4>1, <1>7
    <3>2. 1..Len(held[t]) \subseteq 1..(Len(held[t]) + 1)
          /\ Len(held[t]) + 1 \in 1..(Len(held[t]) + 1)
      BY <1>7
    <3>3. QED
      BY <2>1, <2>2, <3>1, <3>2, <1>7
  <2>4. \A u \in Transfers : u # t => After(u) = ChunksIn(u)
    BY <1>8 DEF ChunksIn, After
  <2>5. QED
    BY <2>3, <2>4, <1>1, ChunksAre
<1>12. /\ \A i, j \in 1..Len(fed) : i < j => fed[i] < fed[j]
       /\ \A u \in Transfers : \A c \in ChunksIn(u) : \A i \in 1..Len(fed) : fed[i] < c
       /\ \A u \in Transfers : \A k \in 1..Len(held[u]) : held[u][k] = held[u][1] + k - 1
       /\ \A i, j \in 1..Size : i < j =>
            \A c \in ChunksIn(Queue[i]), e \in ChunksIn(Queue[j]) : c < e
       /\ \A j \in 1..Size : j > Due + 1 => held[Queue[j]] = << >>
       /\ \A u \in Transfers : held[u] # << >> => \E j \in 1..Size : Queue[j] = u
       /\ held[t] # << >> => held[t][Len(held[t])] = sent
  BY <1>1, <1>4, <1>5 DEF Ordered
<1>13. Ordered'
  <2>1. ASSUME NEW u \in Transfers, NEW c \in After(u), NEW i \in 1..Len(fed)
        PROVE  fed[i] < c
    <3>1. fed[i] \in 1..sent
      BY <1>1, ElementOfSeq DEF Types
    <3>2. c \in ChunksIn(u) \/ c = sent + 1
      BY <2>1, <1>11
    <3>3. QED
      BY <3>1, <3>2, <1>5, <1>12
  <2>2. ASSUME NEW u \in Transfers, NEW k \in 1..Len(held'[u])
        PROVE  held'[u][k] = held'[u][1] + k - 1
    <3>1. CASE u # t
      BY <2>2, <3>1, <1>8, <1>12
    <3>2. CASE u = t /\ Len(held[t]) = 0
      <4>1. k = 1 /\ held'[t][1] = sent + 1
        BY <2>2, <3>2, <1>7
      <4>2. QED
        BY <3>2, <4>1, <1>5
    <3>3. CASE u = t /\ Len(held[t]) > 0 /\ k <= Len(held[t])
      <4>1. 1 \in 1..Len(held[t]) /\ k \in 1..Len(held[t])
        BY <2>2, <3>3, <1>7
      <4>2. held'[t][k] = held[t][k] /\ held'[t][1] = held[t][1]
        BY <4>1, <1>7
      <4>3. QED
        BY <3>3, <4>1, <4>2, <1>12
    <3>4. CASE u = t /\ Len(held[t]) > 0 /\ k = Len(held[t]) + 1
      <4>1. 1 \in 1..Len(held[t]) /\ Len(held[t]) \in 1..Len(held[t])
        BY <3>4, <1>7
      <4>2. held[t] # << >>
        BY <3>4
      <4>3. held[t][1] + Len(held[t]) - 1 = sent
        BY <4>1, <4>2, <1>12
      <4>4. held'[t][1] = held[t][1] /\ held[t][1] \in 1..sent /\ held'[t][k] = sent + 1
        BY <3>4, <4>1, <1>7
      <4>5. QED
        <5>. DEFINE f == held[t][1]
                    l == Len(held[t])
        <5>1. f \in Nat /\ l \in Nat /\ f + l - 1 = sent
          BY <4>3, <4>4, <1>5, <1>7
        <5>. HIDE DEF f, l
        <5>2. sent + 1 = f + (l + 1) - 1
          BY <5>1, <1>5
        <5>3. QED
          BY <3>4, <4>4, <5>2 DEF f, l
    <3>5. QED
      BY <2>2, <3>1, <3>2, <3>3, <3>4, <1>7
  <2>3. ASSUME NEW i \in 1..Size, NEW j \in 1..Size, i < j,
               NEW c \in After(Queue[i]), NEW e \in After(Queue[j])
        PROVE  c < e
    <3>. DEFINE u == Queue[i]
                v == Queue[j]
    <3>1. u \in Transfers /\ v \in Transfers /\ ChunksIn(u) \subseteq 1..sent
      BY <1>5, <1>11
    <3>2. c \in After(u) /\ e \in After(v)
      OBVIOUS
    <3>3. CASE j = Due + 1
      <4>1. u # t /\ c \in ChunksIn(u)
        BY <2>3, <3>1, <3>2, <3>3, <1>5, <1>11
      <4>2. e \in ChunksIn(v) \/ e = sent + 1
        BY <3>1, <3>2, <1>11
      <4>3. QED
        BY <2>3, <3>1, <4>1, <4>2, <1>5, <1>12
    <3>4. CASE j # Due + 1 /\ i # Due + 1
      <4>1. c \in ChunksIn(u) /\ e \in ChunksIn(v)
        BY <3>1, <3>2, <3>4, <1>5, <1>11
      <4>2. QED
        BY <2>3, <4>1, <1>12
    <3>5. CASE i = Due + 1
      <4>1. j > Due + 1 /\ v # t
        BY <2>3, <3>5, <1>5
      <4>2. held[v] = << >>
        BY <4>1, <1>12
      <4>3. After(v) = {}
        BY <3>1, <4>1, <4>2, <1>1, <1>11, ChunksAre
      <4>4. QED
        BY <3>2, <4>3
    <3>6. QED
      BY <3>3, <3>4, <3>5
  <2>4. ASSUME NEW j \in 1..Size, j > d + 1
        PROVE  held'[Queue[j]] = << >>
    <3>1. j > Due + 1
      BY <2>4, <1>5
    <3>2. Queue[j] # t /\ Queue[j] \in Transfers
      BY <3>1, <1>5
    <3>3. QED
      BY <3>1, <3>2, <1>8, <1>12
  <2>5. ASSUME NEW u \in Transfers, held'[u] # << >>
        PROVE  \E j \in 1..Size : Queue[j] = u
    BY <2>5, <1>4, <1>5, <1>8, <1>12
  <2>6. ASSUME Size > d, held'[Queue[d + 1]] # << >>
        PROVE  held'[Queue[d + 1]][Len(held'[Queue[d + 1]])] = sent + 1
    <3>1. CASE d = Due
      <4>1. held'[t][Len(held'[t])] = sent + 1
        BY <1>7
      <4>2. QED
        BY <3>1, <4>1, <1>4
    <3>2. CASE d = Due + 1
      <4>1. d + 1 \in 1..Size /\ d + 1 > Due + 1
        BY <2>6, <3>2, <1>5
      <4>2. Queue[d + 1] # t /\ Queue[d + 1] \in Transfers
        BY <4>1, <1>5
      <4>3. held'[Queue[d + 1]] = << >>
        BY <4>1, <4>2, <1>8, <1>12
      <4>4. QED
        BY <4>3, <2>6
    <3>3. QED
      BY <3>1, <3>2, <1>5
  <2>7. /\ \A u \in Transfers : \A c \in After(u) : \A i \in 1..Len(fed') : fed'[i] < c
        /\ \A i, j \in 1..Size' : i < j =>
             \A c \in After(Queue'[i]), e \in After(Queue'[j]) : c < e
    BY <2>1, <2>3, <1>3, <1>6
  <2>8. /\ \A j \in 1..Size' : j > Due' + 1 => held'[Queue'[j]] = << >>
        /\ \A u \in Transfers : held'[u] # << >> => \E j \in 1..Size' : Queue'[j] = u
    BY <2>4, <2>5, <1>3
  <2>9. Size' > Due' /\ held'[Queue'[Due' + 1]] # << >> =>
          held'[Queue'[Due' + 1]][Len(held'[Queue'[Due' + 1]])] = sent'
    BY <2>6, <1>3, <1>6
  <2>10. \A i, j \in 1..Len(fed') : i < j => fed'[i] < fed'[j]
    BY <1>6, <1>12
  <2>11. QED
    BY <2>2, <2>7, <2>8, <2>9, <2>10 DEF Ordered, ChunksIn, After
<1>14. Accounted'
  <2>1. /\ \A i \in 1..Len(fed) : Intact(fed[i]) => fed[i] = i
        /\ \A c \in 1..sent : Intact(c) =>
             c \in Range(fed) \/ \E u \in Transfers : c \in ChunksIn(u)
        /\ \A j \in 1..Due : completed[j].status # "completed" =>
             ChunksIn(completed[j].transfer) \subseteq cut
        /\ pc \in {"stop", "returned"} /\ ~gaveUp /\ ~failure => Size = 0
    BY <1>1 DEF Accounted
  <2>2. \A c : Intact(c)' <=> Intact(c)
    BY <1>6 DEF Intact
  <2>3. ASSUME NEW c \in 1..(sent + 1), Intact(c)
        PROVE  c \in Range(fed) \/ \E u \in Transfers : c \in After(u)
    <3>1. CASE c = sent + 1
      BY <3>1, <1>11
    <3>2. CASE c \in 1..sent
      BY <2>3, <3>2, <2>1, <1>11
    <3>3. QED
      BY <3>1, <3>2, <1>5
  <2>4. ASSUME NEW j \in 1..d, completed'[j].status # "completed"
        PROVE  After(completed'[j].transfer) \subseteq cut
    <3>1. j <= Due
      BY <2>4, <1>3, <1>5
    <3>2. /\ j \in 1..Due /\ j # Due + 1 /\ j \in 1..Size
          /\ completed'[j] = completed[j]
      BY <3>1, <1>3, <1>5
    <3>3. completed[j].transfer \in Transfers \ {t}
      BY <3>2, <1>5
    <3>4. After(completed[j].transfer) = ChunksIn(completed[j].transfer)
      BY <3>3, <1>11
    <3>5. QED
      BY <2>4, <3>2, <3>4, <2>1
  <2>5. QED
    BY <2>1, <2>2, <2>3, <2>4, <1>3, <1>6 DEF Accounted, ChunksIn, After
<1>15. QED
  BY <1>9, <1>10, <1>13, <1>14 DEF PoolInv

-----------------------------------------------------------------------------
(* Filling the pool *)

(* One more transfer is submitted, empty, behind all the others.             *)
LEMMA SubmitKeeps ==
  PoolInv /\ SubmitPool /\ next <= TRANSFER_COUNT /\ analyzer # "gone" => PoolInv'
<1>. SUFFICES ASSUME PoolInv, SubmitPool, next <= TRANSFER_COUNT, analyzer # "gone"
              PROVE  PoolInv'
  OBVIOUS
<1>1. Types /\ Queued /\ Ordered /\ Accounted /\ TRANSFER_COUNT \in Nat
      /\ next \in Nat /\ next \in Transfers
  BY PoolAssumption DEF PoolInv, Types, Transfers
<1>2. /\ pc = "submitting" /\ pc' = pc /\ next' = next + 1
      /\ inFlight' = Append(inFlight, next) /\ completed' = completed
      /\ held' = held /\ sent' = sent /\ fed' = fed /\ cut' = cut
      /\ analyzer' = analyzer
      /\ failure' = failure /\ gaveUp' = gaveUp
      /\ UNCHANGED << taken, stuck, broken, spent, running, abandoned >>
  BY <1>1 DEF SubmitPool, Submit, fileVars
<1>3. /\ inFlight' \in Seq(Transfers)
      /\ Due' = Due /\ Size' = Size + 1
      /\ \A j \in 1..Size : Queue'[j] = Queue[j]
      /\ Queue'[Size + 1] = next
  BY <1>1, <1>2, LastJoins
<1>4. /\ Due \in Nat /\ Size \in Nat /\ Due <= Size
      /\ \A j \in 1..Size : Queue[j] \in Transfers /\ Queue[j] < next
      /\ \A j \in 1..Due : Queue[j] = completed[j].transfer
      /\ Size <= next - 1
      /\ \A i, j \in 1..Size : Queue[i] = Queue[j] => i = j
  BY <1>1, <1>2, QueueType DEF Queued
<1>5. \A j \in 1..(Size + 1) : j \in 1..Size \/ j = Size + 1
  BY <1>4
<1>6. Types'
  BY <1>1, <1>2, <1>3 DEF Types
<1>7. Queued'
  <2>1. \A i, j \in 1..(Size + 1) : Queue'[i] = Queue'[j] => i = j
    <3>1. \A j \in 1..Size : Queue'[j] # next
      BY <1>1, <1>3, <1>4
    <3>2. QED
      BY <3>1, <1>3, <1>4, <1>5
  <2>2. \A j \in 1..(Size + 1) : Queue'[j] < next + 1
    <3>1. ASSUME NEW j \in 1..Size
          PROVE  Queue'[j] < next + 1
      <4>1. Queue'[j] \in Nat /\ Queue'[j] < next
        BY <1>3, <1>4 DEF Transfers
      <4>2. QED
        BY <4>1, <1>1
    <3>2. Queue'[Size + 1] < next + 1
      BY <1>1, <1>3
    <3>3. QED
      BY <3>1, <3>2, <1>5
  <2>3. Size + 1 <= (next + 1) - 1 /\ Size + 1 <= TRANSFER_COUNT
    BY <1>1, <1>4
  <2>4. QED
    BY <2>1, <2>2, <2>3, <1>2, <1>3 DEF Queued, Early
<1>8. held[next] = << >> /\ ChunksIn(next) = {}
  <2>1. \A j \in 1..Size : Queue[j] # next
    BY <1>1, <1>4
  <2>2. QED
    BY <2>1, <1>1, ChunksAre DEF Ordered
<1>9. \A u : ChunksIn(u)' = ChunksIn(u)
  BY <1>2 DEF ChunksIn
<1>10. Ordered'
  <2>1. /\ \A i, j \in 1..Len(fed) : i < j => fed[i] < fed[j]
        /\ \A u \in Transfers : \A c \in ChunksIn(u) : \A i \in 1..Len(fed) : fed[i] < c
        /\ \A u \in Transfers : \A k \in 1..Len(held[u]) : held[u][k] = held[u][1] + k - 1
        /\ \A i, j \in 1..Size : i < j =>
             \A c \in ChunksIn(Queue[i]), e \in ChunksIn(Queue[j]) : c < e
        /\ \A j \in 1..Size : j > Due + 1 => held[Queue[j]] = << >>
        /\ \A u \in Transfers : held[u] # << >> => \E j \in 1..Size : Queue[j] = u
        /\ Size > Due /\ held[Queue[Due + 1]] # << >> =>
             held[Queue[Due + 1]][Len(held[Queue[Due + 1]])] = sent
    BY <1>1 DEF Ordered
  <2>2. ASSUME NEW i \in 1..(Size + 1), NEW j \in 1..(Size + 1), i < j,
               NEW c \in ChunksIn(Queue'[i]), NEW e \in ChunksIn(Queue'[j])
        PROVE  c < e
    <3>1. j \in 1..Size
      BY <2>2, <1>3, <1>5, <1>8
    <3>2. i \in 1..Size
      BY <2>2, <3>1, <1>4
    <3>3. QED
      BY <2>1, <2>2, <3>1, <3>2, <1>3
  <2>3. ASSUME NEW j \in 1..(Size + 1), j > Due + 1
        PROVE  held[Queue'[j]] = << >>
    BY <2>1, <2>3, <1>3, <1>5, <1>8
  <2>4. ASSUME NEW u \in Transfers, held[u] # << >>
        PROVE  \E j \in 1..(Size + 1) : Queue'[j] = u
    <3>1. PICK j \in 1..Size : Queue[j] = u
      BY <2>1, <2>4
    <3>2. j \in 1..(Size + 1)
      BY <1>4
    <3>3. QED
      BY <3>1, <3>2, <1>3
  <2>5. ASSUME held[Queue'[Due + 1]] # << >>
        PROVE  held[Queue'[Due + 1]][Len(held[Queue'[Due + 1]])] = sent
    <3>1. Due + 1 \in 1..(Size + 1)
      BY <1>4
    <3>2. Due + 1 \in 1..Size
      BY <2>5, <3>1, <1>3, <1>5, <1>8
    <3>3. Size > Due
      BY <3>2, <1>4
    <3>4. QED
      BY <2>1, <2>5, <3>2, <3>3, <1>3
  <2>6. /\ \A u \in Transfers : \A c \in ChunksIn(u)' : \A i \in 1..Len(fed') : fed'[i] < c
        /\ \A i, j \in 1..Size' : i < j =>
             \A c \in ChunksIn(Queue[i])', e \in ChunksIn(Queue[j])' : c < e
    BY <2>1, <2>2, <1>2, <1>3 DEF ChunksIn
  <2>7. QED
    BY <2>1, <2>3, <2>4, <2>5, <2>6, <1>2, <1>3 DEF Ordered
<1>11. Accounted'
  <2>1. /\ \A i \in 1..Len(fed) : Intact(fed[i]) => fed[i] = i
        /\ \A c \in 1..sent : Intact(c) =>
             c \in Range(fed) \/ \E u \in Transfers : c \in ChunksIn(u)
        /\ \A j \in 1..Due : completed[j].status # "completed" =>
             ChunksIn(completed[j].transfer) \subseteq cut
    BY <1>1 DEF Accounted
  <2>2. \A c : Intact(c)' <=> Intact(c)
    BY <1>2 DEF Intact
  <2>3. pc' \notin {"stop", "returned"}
    BY <1>2
  <2>4. QED
    BY <2>1, <2>2, <2>3, <1>2, <1>3, <1>9 DEF Accounted
<1>12. QED
  BY <1>6, <1>7, <1>10, <1>11 DEF PoolInv

LEMMA SubmitPoolKeeps == PoolInv /\ SubmitPool => PoolInv'
<1>. SUFFICES ASSUME PoolInv, SubmitPool
              PROVE  PoolInv'
  OBVIOUS
<1>1. Types /\ TRANSFER_COUNT \in Nat /\ next \in 1..(TRANSFER_COUNT + 1)
  BY PoolAssumption DEF PoolInv, Types
<1>2. CASE next > TRANSFER_COUNT \/ analyzer = "gone"
  <2>1. Still
    BY <1>1, <1>2 DEF SubmitPool, Still, Fail, fileVars
  <2>2. Turns
    BY <1>1, <1>2 DEF SubmitPool, Turns, Types, Fail, Early
  <2>3. QED
    BY <2>1, <2>2, StillKeeps
<1>3. CASE next <= TRANSFER_COUNT /\ analyzer # "gone"
  BY <1>3, SubmitKeeps
<1>4. QED
  BY <1>1, <1>2, <1>3

-----------------------------------------------------------------------------
(* Cancelling *)

(* A transfer in flight that is cancelled passes the others, none of which   *)
(* but the first holds anything.                                             *)
LEMMA CancelOneKeeps ==
  ASSUME PoolInv, Cancel, NEW k \in 1..Len(inFlight), inFlight[k] = next,
         Cancelled(next, k), cut' = cut \union ChunksIn(next),
         next' = next + 1 /\ UNCHANGED << pc, failure >>
  PROVE  PoolInv'
<1>. DEFINE p(j) == IF j = Due + 1 THEN Due + k
                    ELSE IF Due + 1 < j /\ j <= Due + k THEN j - 1 ELSE j
<1>1. Types /\ Queued /\ Ordered /\ Accounted
  BY DEF PoolInv
<1>2. /\ pc = "cancelling" /\ pc' = pc /\ next' = next + 1 /\ next <= TRANSFER_COUNT
      /\ held' = held /\ sent' = sent /\ fed' = fed /\ analyzer' = analyzer
      /\ failure' = failure /\ gaveUp' = gaveUp
      /\ UNCHANGED << taken, stuck, broken, spent, running, abandoned >>
  BY DEF Cancel
<1>3. /\ inFlight' \in Seq(Transfers) /\ completed' \in Seq(Endings)
      /\ Due' = Due + 1 /\ Size' = Size /\ Due + k \in 1..Size
      /\ \A j \in 1..Due : completed'[j] = completed[j]
      /\ completed'[Due + 1].status = "cancelled"
      /\ completed'[Due + 1].transfer = next
      /\ next = Queue[Due + k]
      /\ \A j \in 1..Size : Queue'[j] =
           IF j = Due + 1 THEN next
           ELSE IF Due + 1 < j /\ j <= Due + k THEN Queue[j - 1] ELSE Queue[j]
  BY <1>1, OnePasses
<1>4. /\ Due \in Nat /\ Size \in Nat /\ Due < Size /\ Due + 1 \in 1..Size
      /\ k \in Nat /\ 1 <= k /\ next \in Transfers
      /\ \A j \in 1..Size : Queue[j] \in Transfers
      /\ \A j \in 1..Due : Queue[j] = completed[j].transfer
      /\ \A i, j \in 1..Size : Queue[i] = Queue[j] => i = j
  <2>1. /\ Due \in Nat /\ Size \in Nat
        /\ \A j \in 1..Size : Queue[j] \in Transfers
        /\ \A j \in 1..Due : Queue[j] = completed[j].transfer
    BY <1>1, QueueType
  <2>2. Due < Size /\ Due + 1 \in 1..Size /\ k \in Nat /\ 1 <= k /\ next \in Transfers
    BY <2>1, <1>1, <1>3
  <2>3. \A i, j \in 1..Size : Queue[i] = Queue[j] => i = j
    BY <1>1 DEF Queued
  <2>4. QED
    BY <2>1, <2>2, <2>3
<1>5. \A j \in 1..Size : p(j) \in 1..Size /\ Queue'[j] = Queue[p(j)]
  BY <1>3, <1>4
<1>6. /\ \A i, j \in 1..Size : p(i) = p(j) => i = j
      /\ \A j \in 1..Due : p(j) = j
      /\ \A j \in 1..Size : j > Due => p(j) > Due
      /\ \A j \in 1..Size : j > Due + 2 => p(j) > Due + 1
      /\ \A i, j \in 1..Size : i < j /\ p(i) <= Due + 1 /\ p(j) <= Due + 1 => p(i) < p(j)
      /\ p(Due + 1) = Due + k
      /\ Due + 2 <= Size /\ k # 1 => p(Due + 2) = Due + 1
      /\ Due + 2 <= Size /\ k = 1 => p(Due + 2) = Due + 2
  <2>1. Due \in Nat /\ Size \in Nat /\ k \in Nat /\ 1 <= k
    BY <1>4
  <2>2. \A i, j \in 1..Size : p(i) = p(j) => i = j
    BY <2>1
  <2>3. /\ \A j \in 1..Due : p(j) = j
        /\ \A j \in 1..Size : j > Due => p(j) > Due
        /\ \A j \in 1..Size : j > Due + 2 => p(j) > Due + 1
    BY <2>1
  <2>4. \A i, j \in 1..Size : i < j /\ p(i) <= Due + 1 /\ p(j) <= Due + 1 => p(i) < p(j)
    BY <2>1
  <2>5. /\ p(Due + 1) = Due + k
        /\ Due + 2 <= Size /\ k # 1 => p(Due + 2) = Due + 1
        /\ Due + 2 <= Size /\ k = 1 => p(Due + 2) = Due + 2
    BY <2>1
  <2>. HIDE DEF p
  <2>6. QED
    BY <2>2, <2>3, <2>4, <2>5
<1>7. \A l \in 1..Size : \E j \in 1..Size : p(j) = l
  <2>. TAKE l \in 1..Size
  <2>1. CASE l <= Due
    <3>1. p(l) = l
      BY <2>1, <1>4
    <3>. HIDE DEF p
    <3>2. QED
      BY <3>1
  <2>2. CASE Due < l /\ l < Due + k
    <3>1. l + 1 \in 1..Size /\ p(l + 1) = l
      BY <2>2, <1>3, <1>4
    <3>2. QED
      BY <3>1
  <2>3. CASE l = Due + k
    BY <2>3, <1>6, <1>4
  <2>4. CASE l > Due + k
    BY <2>4, <1>4
  <2>5. l <= Due \/ (Due < l /\ l < Due + k) \/ l = Due + k \/ l > Due + k
    BY <1>4
  <2>. HIDE DEF p
  <2>6. QED
    BY <2>1, <2>2, <2>3, <2>4, <2>5
<1>. HIDE DEF p
<1>8. ChunksIn(next) \subseteq 1..sent /\ cut \subseteq 1..sent /\ sent \in Nat
  BY <1>1, <1>4, ChunksAre DEF Types
<1>9. Types'
  <2>1. next + 1 \in 1..(TRANSFER_COUNT + 1)
    BY <1>2, <1>4, PoolAssumption DEF Transfers
  <2>2. cut' \in SUBSET (1..sent)
    BY <1>8
  <2>3. QED
    BY <2>1, <2>2, <1>1, <1>2, <1>3 DEF Types
<1>10. Queued'
  <2>1. ASSUME NEW i \in 1..Size, NEW j \in 1..Size, Queue'[i] = Queue'[j]
        PROVE  i = j
    <3>1. p(i) \in 1..Size /\ p(j) \in 1..Size /\ Queue[p(i)] = Queue[p(j)]
      BY <2>1, <1>5
    <3>2. p(i) = p(j)
      BY <3>1, <1>4
    <3>3. QED
      BY <3>2, <1>6
  <2>2. QED
    BY <2>1, <1>1, <1>2, <1>3 DEF Queued, Early
<1>11. /\ \A i, j \in 1..Len(fed) : i < j => fed[i] < fed[j]
       /\ \A u \in Transfers : \A c \in ChunksIn(u) : \A i \in 1..Len(fed) : fed[i] < c
       /\ \A u \in Transfers : \A n \in 1..Len(held[u]) : held[u][n] = held[u][1] + n - 1
       /\ \A i, j \in 1..Size : i < j =>
            \A c \in ChunksIn(Queue[i]), e \in ChunksIn(Queue[j]) : c < e
       /\ \A j \in 1..Size : j > Due + 1 => held[Queue[j]] = << >>
       /\ \A u \in Transfers : held[u] # << >> => \E j \in 1..Size : Queue[j] = u
       /\ held[Queue[Due + 1]] # << >> =>
            held[Queue[Due + 1]][Len(held[Queue[Due + 1]])] = sent
  BY <1>1, <1>4 DEF Ordered
<1>12. \A j \in 1..Size : j > Due + 1 => ChunksIn(Queue[j]) = {}
  BY <1>1, <1>4, <1>11, ChunksAre
<1>13. Ordered'
  <2>1. ASSUME NEW i \in 1..Size, NEW j \in 1..Size, i < j,
               NEW c \in ChunksIn(Queue'[i]), NEW e \in ChunksIn(Queue'[j])
        PROVE  c < e
    <3>1. /\ p(i) \in 1..Size /\ p(j) \in 1..Size
          /\ c \in ChunksIn(Queue[p(i)]) /\ e \in ChunksIn(Queue[p(j)])
      BY <2>1, <1>5
    <3>2. ~(p(i) > Due + 1) /\ ~(p(j) > Due + 1)
      BY <3>1, <1>12
    <3>3. p(i) < p(j)
      BY <2>1, <3>1, <3>2, <1>4, <1>6
    <3>4. QED
      BY <3>1, <3>3, <1>11
  <2>2. ASSUME NEW j \in 1..Size, j > Due + 2
        PROVE  held[Queue'[j]] = << >>
    BY <2>2, <1>5, <1>6, <1>11
  <2>3. ASSUME NEW u \in Transfers, held[u] # << >>
        PROVE  \E j \in 1..Size : Queue'[j] = u
    <3>1. PICK l \in 1..Size : Queue[l] = u
      BY <2>3, <1>11
    <3>2. PICK j \in 1..Size : p(j) = l
      BY <1>7
    <3>3. QED
      BY <3>1, <3>2, <1>5
  <2>4. ASSUME Size > Due + 1, held[Queue'[Due + 2]] # << >>
        PROVE  held[Queue'[Due + 2]][Len(held[Queue'[Due + 2]])] = sent
    <3>1. Due + 2 \in 1..Size /\ Due + 2 <= Size /\ Due + 2 > Due + 1
      BY <2>4, <1>4
    <3>2. CASE k = 1
      <4>1. Queue'[Due + 2] = Queue[Due + 2]
        BY <3>1, <3>2, <1>5, <1>6
      <4>2. QED
        BY <2>4, <3>1, <4>1, <1>11
    <3>3. CASE k # 1
      <4>1. Queue'[Due + 2] = Queue[Due + 1]
        BY <3>1, <3>3, <1>5, <1>6
      <4>2. QED
        BY <2>4, <4>1, <1>11
    <3>4. QED
      BY <3>2, <3>3
  <2>5. \A u : ChunksIn(u)' = ChunksIn(u)
    BY <1>2 DEF ChunksIn
  <2>6. \A i, j \in 1..Size' : i < j =>
          \A c \in ChunksIn(Queue[i])', e \in ChunksIn(Queue[j])' : c < e
    BY <2>1, <1>2, <1>3 DEF ChunksIn
  <2>7. (Due + 1) + 1 = Due + 2
    BY <1>4
  <2>8. QED
    BY <2>2, <2>3, <2>4, <2>5, <2>6, <2>7, <1>2, <1>3, <1>11 DEF Ordered
<1>14. Accounted'
  <2>1. /\ \A i \in 1..Len(fed) : Intact(fed[i]) => fed[i] = i
        /\ \A c \in 1..sent : Intact(c) =>
             c \in Range(fed) \/ \E u \in Transfers : c \in ChunksIn(u)
        /\ \A j \in 1..Due : completed[j].status # "completed" =>
             ChunksIn(completed[j].transfer) \subseteq cut
    BY <1>1 DEF Accounted
  <2>2. \A c : Intact(c)' => Intact(c)
    BY <1>2 DEF Intact
  <2>3. ASSUME NEW j \in 1..(Due + 1), completed'[j].status # "completed"
        PROVE  ChunksIn(completed'[j].transfer) \subseteq cut'
    <3>1. CASE j = Due + 1
      BY <3>1, <1>3
    <3>2. CASE j \in 1..Due
      BY <2>1, <2>3, <3>2, <1>3
    <3>3. QED
      BY <3>1, <3>2, <1>4
  <2>4. /\ \A j \in 1..Due' : completed'[j].status # "completed" =>
             ChunksIn(completed[j].transfer)' \subseteq cut'
        /\ \A u : ChunksIn(u)' = ChunksIn(u)
    BY <2>3, <1>2, <1>3 DEF ChunksIn
  <2>5. pc' \notin {"stop", "returned"}
    BY <1>2
  <2>6. QED
    BY <2>1, <2>2, <2>4, <2>5, <1>2 DEF Accounted
<1>15. QED
  BY <1>9, <1>10, <1>13, <1>14 DEF PoolInv

LEMMA CancelKeeps == PoolInv /\ Cancel => PoolInv'
<1>. SUFFICES ASSUME PoolInv, Cancel
              PROVE  PoolInv'
  OBVIOUS
<1>1. Types
  BY DEF PoolInv
<1>2. CASE UNCHANGED << inFlight, completed, cut >>
  <2>1. Still
    BY <1>2 DEF Cancel, Still
  <2>2. next + 1 \in 1..(TRANSFER_COUNT + 1)
    BY <1>1, PoolAssumption DEF Cancel, Types
  <2>3. Turns
    BY <1>1, <2>2 DEF Cancel, Turns, Types, Fail, Early
  <2>4. QED
    BY <2>1, <2>3, StillKeeps
<1>3. CASE \E k \in DOMAIN inFlight :
             /\ inFlight[k] = next
             /\ inFlight' = RemoveAt(inFlight, k)
             /\ completed' = Append(completed, Ended(next, "cancelled"))
             /\ cut' = cut \union ChunksIn(next)
             /\ next' = next + 1 /\ UNCHANGED << pc, failure >>
  <2>1. DOMAIN inFlight = 1..Len(inFlight)
    BY <1>1 DEF Types
  <2>2. PICK k \in 1..Len(inFlight) :
          /\ inFlight[k] = next /\ Cancelled(next, k) /\ cut' = cut \union ChunksIn(next)
          /\ next' = next + 1 /\ UNCHANGED << pc, failure >>
    BY <1>3, <2>1 DEF Cancelled
  <2>3. QED
    BY <2>2, CancelOneKeeps
<1>4. QED
  BY <1>2, <1>3 DEF Cancel

-----------------------------------------------------------------------------
(* Callbacks *)

\* The first transfer leaves the queue; it may be submitted again at once.
Leaving(n) ==
  /\ inFlight' \in Seq(Transfers) /\ completed' \in Seq(Endings)
  /\ Due > 0 /\ Due' = Due - 1 /\ Size' = n
  /\ \A j \in 1..(Due - 1) : completed'[j] = completed[j + 1]
  /\ \A j \in 1..(Size - 1) : Queue'[j] = Queue[j + 1]
  /\ n = Size => Queue'[Size] = Queue[1]

(* A transfer that is submitted again goes from the front of the queue to    *)
(* its end.                                                                  *)
LEMMA FirstRotates ==
  ASSUME Types, completed # << >>,
         completed' = Tail(completed),
         inFlight' = Append(inFlight, Head(completed).transfer)
  PROVE  Leaving(Size)
<1>. DEFINE t == Head(completed).transfer
<1>1. /\ completed \in Seq(Endings) /\ inFlight \in Seq(Transfers)
      /\ Len(inFlight) \in Nat
      /\ Due \in Nat /\ Due = Len(completed) /\ Size = Due + Len(inFlight)
      /\ Due > 0 /\ Head(completed) = completed[1]
  BY DEF Types, Due, Size
<1>2. /\ completed' \in Seq(Endings) /\ Len(completed') = Due - 1
      /\ \A j \in 1..(Due - 1) : completed'[j] = completed[j + 1]
  BY <1>1
<1>3. t \in Transfers /\ t = Queue[1] /\ inFlight' = Append(inFlight, t)
  <2>1. 1 \in 1..Due /\ 1 \in 1..Size
    BY <1>1
  <2>2. QED
    BY <2>1, <1>1, QueueType
<1>. HIDE DEF t
<1>4. /\ inFlight' \in Seq(Transfers) /\ Len(inFlight') = Len(inFlight) + 1
      /\ \A j \in 1..Len(inFlight) : inFlight'[j] = inFlight[j]
      /\ inFlight'[Len(inFlight) + 1] = t
  BY <1>1, <1>3
<1>5. Due' = Due - 1 /\ Size' = Size
  BY <1>1, <1>2, <1>4 DEF Due, Size
<1>6. Queue' = [j \in 1..Size |-> IF j <= Due - 1 THEN completed'[j].transfer
                                                  ELSE inFlight'[j - (Due - 1)]]
  BY <1>5 DEF Queue
<1>7. ASSUME NEW j \in 1..(Size - 1)
      PROVE  Queue'[j] = Queue[j + 1]
  <2>1. j \in 1..Size /\ j + 1 \in 1..Size /\ (j <= Due - 1 <=> j + 1 <= Due)
        /\ j + 1 - Due = j - (Due - 1)
    BY <1>1
  <2>2. Queue[j + 1] =
          IF j + 1 <= Due THEN completed[j + 1].transfer ELSE inFlight[j + 1 - Due]
    BY <2>1, <1>1 DEF Queue
  <2>3. j <= Due - 1 => completed'[j] = completed[j + 1]
    BY <1>2, <1>1
  <2>4. ~(j <= Due - 1) => j - (Due - 1) \in 1..Len(inFlight)
    BY <1>1
  <2>5. QED
    BY <1>4, <1>6, <2>1, <2>2, <2>3, <2>4
<1>8. Queue'[Size] = t
  <2>1. Size \in 1..Size /\ ~(Size <= Due - 1) /\ Size - (Due - 1) = Len(inFlight) + 1
    BY <1>1
  <2>2. QED
    BY <2>1, <1>4, <1>6
<1>9. QED
  BY <1>1, <1>2, <1>3, <1>4, <1>5, <1>7, <1>8 DEF Leaving

\* What a callback of transfer t does, whether it ends, raises or is broken off.
Runs(t) ==
  /\ completed # << >> /\ t = Head(completed).transfer
  /\ pc \in {"loop", "drain", "stop"}
  /\ completed' = Tail(completed) /\ held' = [held EXCEPT ![t] = << >>]
  /\ inFlight' = inFlight \/ inFlight' = Append(inFlight, t)
  /\ UNCHANGED << analyzer, pc, next, sent, running, gaveUp, abandoned >>
  /\ spent' \in SUBSET Transfers /\ stuck' \in BOOLEAN /\ failure' \in BOOLEAN
  /\ failure => failure'
  /\ taken' \in 0..Len(fed')
  /\ cut \subseteq cut' /\ cut' \subseteq cut \union ChunksIn(t)
  /\ broken \subseteq broken' /\ broken' \subseteq broken \union Range(fed')
  /\ fed' = fed \o held[t] \/ (fed' = fed /\ ChunksIn(t) \subseteq cut')

(* Whatever becomes of it, a callback gives the decoder what its transfer    *)
(* holds or leaves a cut there, and breaks nothing off that it did not feed. *)
LEMMA CallbackRuns ==
  ASSUME PoolInv, Callback \/ BreakOff
  PROVE  \E t \in Transfers : Runs(t)
<1>1. Types /\ Accounted
  BY DEF PoolInv
<1>2. PICK t \in Transfers :
        /\ Return(t)
        /\ \/ OnTransfer(t, Head(completed).status) /\ UNCHANGED << cut, breaks >>
           \/ /\ Head(completed).status = "completed"
              /\ \/ cut' = cut \union ChunksIn(t) /\ UNCHANGED << fed, taken, broken >>
                 \/ /\ ~stuck /\ Decode(t) /\ UNCHANGED cut
                    /\ \/ \E n \in (taken + 1)..Len(fed') : Reaches(n) /\ BreakAt(n)
                       \/ Reaches(Len(fed') + 1) /\ taken' = Len(fed') /\ UNCHANGED broken
              /\ Retire(t)
              /\ UNCHANGED stuck
  BY DEF Callback, BreakOff
<1>3. /\ completed # << >> /\ t = Head(completed).transfer
      /\ pc \in {"loop", "drain", "stop"}
      /\ completed' = Tail(completed) /\ held' = [held EXCEPT ![t] = << >>]
      /\ UNCHANGED << analyzer, pc, next, sent, running, gaveUp, abandoned >>
  BY <1>2 DEF Return
<1>4. /\ fed \in Seq(1..sent) /\ held[t] \in Seq(1..sent)
      /\ Len(fed) \in Nat /\ Len(held[t]) \in Nat
      /\ taken \in 0..Len(fed)
      /\ failure \in BOOLEAN /\ stuck \in BOOLEAN /\ spent \in SUBSET Transfers
  BY <1>1 DEF Types
<1>5. Head(completed).status # "completed" => ChunksIn(t) \subseteq cut
  <2>1. completed \in Seq(Endings)
    BY <1>1 DEF Types
  <2>2. Len(completed) > 0 /\ Len(completed) \in Nat /\ Head(completed) = completed[1]
    BY <2>1, <1>3
  <2>3. 1 \in 1..Due
    BY <2>2 DEF Due
  <2>4. QED
    BY <2>2, <2>3, <1>1, <1>3 DEF Accounted
<1>6. Retire(t) =>
        /\ inFlight' = inFlight /\ failure' = failure /\ spent' \in SUBSET Transfers
  BY <1>4 DEF Retire
<1>7. Resubmit(t) =>
        /\ inFlight' = inFlight \/ inFlight' = Append(inFlight, t)
        /\ failure' \in BOOLEAN /\ (failure => failure')
        /\ spent' \in SUBSET Transfers
  <2>1. Resubmit(t) => inFlight' = inFlight \/ Submit(t)
    BY DEF Resubmit
  <2>2. Resubmit(t) =>
          /\ (failure' = failure \/ failure' = TRUE)
          /\ spent' = spent
    BY DEF Resubmit
  <2>3. QED
    BY <2>1, <2>2, <1>4 DEF Submit
<1>8. Decode(t) =>
        /\ fed' = fed \o held[t] /\ fed' \in Seq(1..sent)
        /\ Len(fed') = Len(fed) + Len(held[t])
        /\ \A n \in 1..Len(fed') : fed'[n] \in Range(fed')
  <2>. DEFINE all == fed \o held[t]
  <2>1. all \in Seq(1..sent) /\ Len(all) = Len(fed) + Len(held[t])
    BY <1>4, ConcatProperties
  <2>. HIDE DEF all
  <2>2. \A n \in 1..Len(all) : all[n] \in Range(all)
    BY <2>1, RangeEquality
  <2>3. Decode(t) => fed' = all
    BY DEF Decode, all
  <2>4. QED
    BY <2>1, <2>2, <2>3 DEF all
<1>9. ASSUME Decode(t), NEW n \in (taken + 1)..Len(fed'), BreakAt(n)
      PROVE  /\ taken' \in 0..Len(fed')
             /\ broken' \subseteq broken \union Range(fed') /\ broken \subseteq broken'
  <2>1. Len(fed') \in Nat /\ n \in 1..Len(fed') /\ n \in Nat
    BY <1>4, <1>8, <1>9
  <2>2. taken' \in 0..Len(fed')
    BY <2>1, <1>9 DEF BreakAt
  <2>3. QED
    BY <2>1, <2>2, <1>8, <1>9 DEF BreakAt
<1>10. CASE OnTransfer(t, Head(completed).status) /\ UNCHANGED << cut, breaks >>
  <2>1. CASE /\ Head(completed).status # "completed" /\ Retire(t)
             /\ UNCHANGED << fed, taken, stuck, broken >>
    BY <2>1, <1>3, <1>4, <1>5, <1>6, <1>10 DEF Runs
  <2>2. CASE Decode(t) /\ WriteAll(t)
    <3>1. taken' \in 0..Len(fed')
      BY <2>2, <1>4, <1>8 DEF WriteAll
    <3>2. QED
      BY <2>2, <3>1, <1>3, <1>4, <1>7, <1>8, <1>10 DEF Runs, WriteAll
  <2>3. CASE Decode(t) /\ Desync(t)
    <3>1. taken' \in 0..Len(fed')
      BY <2>3, <1>4, <1>8 DEF Desync
    <3>2. QED
      BY <2>3, <3>1, <1>3, <1>4, <1>6, <1>8, <1>10 DEF Runs, Desync
  <2>4. CASE Decode(t) /\ WriteToClosed(t)
    <3>1. taken + 1 \in (taken + 1)..Len(fed')
      <4>1. taken < Len(fed') /\ Len(fed') \in Nat
        BY <2>4, <1>4, <1>8 DEF WriteToClosed
      <4>2. QED
        BY <4>1, <1>4
    <3>2. BreakAt(taken + 1)
      BY <2>4 DEF WriteToClosed
    <3>3. /\ taken' \in 0..Len(fed')
          /\ broken' \subseteq broken \union Range(fed') /\ broken \subseteq broken'
      BY <2>4, <3>1, <3>2, <1>9
    <3>4. QED
      BY <2>4, <3>3, <1>3, <1>4, <1>6, <1>8, <1>10 DEF Runs, WriteToClosed
  <2>5. QED
    BY <2>1, <2>2, <2>3, <2>4, <1>10 DEF OnTransfer
<1>11. CASE /\ cut' = cut \union ChunksIn(t) /\ UNCHANGED << fed, taken, broken, stuck >>
            /\ Retire(t)
  BY <1>3, <1>4, <1>6, <1>11 DEF Runs
<1>12. CASE /\ Decode(t) /\ Retire(t) /\ UNCHANGED << cut, stuck >>
            /\ \/ \E n \in (taken + 1)..Len(fed') : BreakAt(n)
               \/ taken' = Len(fed') /\ UNCHANGED broken
  <2>1. /\ taken' \in 0..Len(fed')
        /\ broken' \subseteq broken \union Range(fed') /\ broken \subseteq broken'
    <3>1. CASE taken' = Len(fed') /\ UNCHANGED broken
      BY <3>1, <1>4, <1>8, <1>12
    <3>2. CASE \E n \in (taken + 1)..Len(fed') : BreakAt(n)
      BY <3>2, <1>9, <1>12
    <3>3. QED
      BY <3>1, <3>2, <1>12
  <2>2. QED
    BY <2>1, <1>3, <1>4, <1>6, <1>8, <1>12 DEF Runs
<1>13. QED
  BY <1>2, <1>10, <1>11, <1>12

(* What a callback does to the pool.                                         *)
LEMMA CallbackMoves ==
  ASSUME PoolInv, NEW t \in Transfers, Runs(t)
  PROVE  /\ \E n \in {Size - 1, Size} : Leaving(n)
         /\ t = Queue[1] /\ Due > 0
<1>1. Types
  BY DEF PoolInv
<1>2. /\ completed # << >> /\ completed' = Tail(completed)
      /\ t = Head(completed).transfer
      /\ inFlight' = inFlight \/ inFlight' = Append(inFlight, t)
  BY DEF Runs
<1>3. t = Queue[1]
  <2>1. completed \in Seq(Endings)
    BY <1>1 DEF Types
  <2>2. Len(completed) > 0 /\ Len(completed) \in Nat /\ Head(completed) = completed[1]
    BY <2>1, <1>2
  <2>3. 1 \in 1..Due
    BY <2>2 DEF Due
  <2>4. QED
    BY <2>2, <2>3, <1>1, <1>2, QueueType
<1>4. CASE inFlight' = inFlight
  <2>1. /\ completed' \in Seq(Endings)
        /\ Due > 0 /\ Due' = Due - 1 /\ Size' = Size - 1
        /\ \A j \in 1..(Due - 1) : completed'[j] = completed[j + 1]
        /\ \A j \in 1..(Size - 1) : Queue'[j] = Queue[j + 1]
    BY <1>1, <1>2, <1>4, FirstLeaves
  <2>2. inFlight' \in Seq(Transfers) /\ Size - 1 # Size
    BY <1>1, <1>4, QueueType DEF Types
  <2>3. Leaving(Size - 1)
    BY <2>1, <2>2 DEF Leaving
  <2>4. QED
    BY <2>3, <1>3 DEF Leaving
<1>5. CASE inFlight' = Append(inFlight, t)
  <2>1. Leaving(Size)
    BY <1>1, <1>2, <1>5, FirstRotates
  <2>2. QED
    BY <2>1, <1>3 DEF Leaving
<1>6. QED
  BY <1>2, <1>4, <1>5

(* The chunk that is fed next is the one after those in the file, unless     *)
(* there is a cut before it.                                                 *)
LEMMA NextIsFed ==
  ASSUME PoolInv, Size > 0,
         NEW t \in Transfers, t = Queue[1], NEW k \in 1..Len(held[t]),
         Intact(held[t][k])
  PROVE  held[t][k] = Len(fed) + k
<1>1. Types /\ Ordered /\ Accounted
  BY DEF PoolInv
<1>2. /\ Len(held[t]) \in Nat /\ Len(fed) \in Nat /\ sent \in Nat
      /\ Size \in Nat /\ 1 \in 1..Size
      /\ ChunksIn(t) = {held[t][m] : m \in 1..Len(held[t])}
      /\ ChunksIn(t) \subseteq 1..sent
      /\ \A i \in 1..Len(fed) : fed[i] \in 1..sent
      /\ Range(fed) = {fed[i] : i \in 1..Len(fed)}
      /\ cut \union broken \subseteq 1..sent
  <2>1. fed \in Seq(1..sent) /\ sent \in Nat /\ cut \union broken \subseteq 1..sent
    BY <1>1 DEF Types
  <2>2. Size \in Nat /\ 1 \in 1..Size
    BY <1>1, QueueType
  <2>3. /\ Len(fed) \in Nat /\ \A i \in 1..Len(fed) : fed[i] \in 1..sent
        /\ Range(fed) = {fed[i] : i \in 1..Len(fed)}
    <3>1. Len(fed) \in Nat /\ \A i \in 1..Len(fed) : fed[i] \in 1..sent
      BY <2>1, ElementOfSeq
    <3>2. QED
      BY <2>1, <3>1, RangeEquality
  <2>4. QED
    BY <2>1, <2>2, <2>3, <1>1, ChunksAre
<1>3. 1 \in 1..Len(held[t]) /\ k \in Nat
  BY <1>2
<1>4. PICK f \in 1..sent : f = held[t][1]
  BY <1>2, <1>3
<1>5. /\ held[t][k] = f + k - 1 /\ f \in ChunksIn(t)
      /\ \A m \in 1..Len(held[t]) : held[t][m] = f + m - 1
  BY <1>1, <1>2, <1>3, <1>4 DEF Ordered
<1>6. \A d \in cut \union broken : f < d
  BY <1>2, <1>3, <1>5 DEF Intact
<1>7. \A i \in 1..Len(fed) : fed[i] < f /\ fed[i] = i
  <2>1. \A i \in 1..Len(fed) : fed[i] < f
    BY <1>1, <1>5 DEF Ordered
  <2>2. \A i \in 1..Len(fed) : Intact(fed[i])
    <3>1. ASSUME NEW i \in 1..Len(fed), NEW d \in cut \union broken
          PROVE  fed[i] < d
      <4>1. fed[i] \in 1..sent /\ d \in 1..sent /\ fed[i] < f /\ f < d
        BY <2>1, <1>2, <1>6
      <4>2. QED
        BY <4>1
    <3>2. QED
      BY <3>1 DEF Intact
  <2>3. QED
    BY <2>1, <2>2, <1>1 DEF Accounted
<1>8. ASSUME NEW c \in 1..(f - 1)
      PROVE  c \in Range(fed)
  <2>1. c \in 1..sent /\ c < f
    BY <1>2
  <2>2. Intact(c)
    BY <2>1, <1>2, <1>6 DEF Intact
  <2>3. ASSUME NEW u \in Transfers, c \in ChunksIn(u)
        PROVE  FALSE
    <3>1. held[u] # << >>
      BY <2>3, <1>1, ChunksAre
    <3>2. PICK j \in 1..Size : Queue[j] = u
      BY <3>1, <1>1 DEF Ordered
    <3>3. CASE j = 1
      <4>1. PICK m \in 1..Len(held[t]) : c = held[t][m]
        BY <2>3, <3>2, <3>3, <1>2
      <4>2. QED
        BY <4>1, <2>1, <1>2, <1>5
    <3>4. CASE j # 1
      <4>1. 1 < j
        BY <3>4, <1>2
      <4>2. f < c
        BY <4>1, <3>2, <2>3, <1>1, <1>2, <1>5 DEF Ordered
      <4>3. QED
        BY <4>2, <2>1
    <3>5. QED
      BY <3>3, <3>4
  <2>4. QED
    BY <2>1, <2>2, <2>3, <1>1 DEF Accounted
<1>9. Len(fed) < f
  <2>1. CASE Len(fed) = 0
    BY <2>1
  <2>2. CASE Len(fed) # 0
    <3>1. Len(fed) \in 1..Len(fed)
      BY <2>2, <1>2
    <3>2. fed[Len(fed)] = Len(fed) /\ fed[Len(fed)] < f
      BY <3>1, <1>7
    <3>3. QED
      BY <3>2
  <2>3. QED
    BY <2>1, <2>2
<1>10. f - 1 <= Len(fed)
  <2>1. CASE f = 1
    BY <2>1, <1>2
  <2>2. CASE f # 1
    <3>1. f - 1 \in 1..(f - 1)
      BY <2>2
    <3>2. PICK i \in 1..Len(fed) : fed[i] = f - 1
      BY <3>1, <1>2, <1>8
    <3>3. QED
      BY <3>2, <1>2, <1>7
  <2>3. QED
    BY <2>1, <2>2
<1>11. f = Len(fed) + 1
  BY <1>2, <1>9, <1>10
<1>12. QED
  BY <1>2, <1>3, <1>5, <1>11

(* What a callback does to the file: the chunks of its transfer follow, or   *)
(* come after a cut.                                                         *)
LEMMA CallbackFeeds ==
  ASSUME PoolInv, NEW t \in Transfers, Runs(t), t = Queue[1], Due > 0
  PROVE  /\ fed' \in Seq(1..sent)
         /\ \A i, j \in 1..Len(fed') : i < j => fed'[i] < fed'[j]
         /\ \A i \in 1..Len(fed') :
              (\E j \in 1..Len(fed) : fed'[i] = fed[j]) \/ fed'[i] \in ChunksIn(t)
         /\ Range(fed) \subseteq Range(fed')
         /\ ChunksIn(t) \subseteq cut' \/ ChunksIn(t) \subseteq Range(fed')
         /\ \A i \in 1..Len(fed') : Intact(fed'[i]) => fed'[i] = i
<1>1. Types /\ Ordered /\ Accounted
  BY DEF PoolInv
<1>2. fed' = fed \o held[t] \/ (fed' = fed /\ ChunksIn(t) \subseteq cut')
  BY DEF Runs
<1>3. Due \in Nat /\ 1 \in 1..Size /\ Size \in Nat /\ Size > 0
  BY <1>1, QueueType
<1>4. \A i \in 1..Len(fed) : Intact(fed[i]) => fed[i] = i
  BY <1>1 DEF Accounted
<1>5. /\ fed \in Seq(1..sent) /\ Len(fed) \in Nat /\ sent \in Nat
      /\ Range(fed) = {fed[i] : i \in 1..Len(fed)}
      /\ \A i, j \in 1..Len(fed) : i < j => fed[i] < fed[j]
      /\ held[t] \in Seq(1..sent) /\ Len(held[t]) \in Nat
      /\ ChunksIn(t) = {held[t][m] : m \in 1..Len(held[t])}
      /\ ChunksIn(t) \subseteq 1..sent
  <2>1. fed \in Seq(1..sent) /\ sent \in Nat
    BY <1>1 DEF Types
  <2>2. Range(fed) = {fed[i] : i \in 1..Len(fed)} /\ Len(fed) \in Nat
    BY <2>1, RangeEquality
  <2>3. \A i, j \in 1..Len(fed) : i < j => fed[i] < fed[j]
    BY <1>1 DEF Ordered
  <2>4. QED
    BY <2>1, <2>2, <2>3, <1>1, ChunksAre
<1>6. CASE fed' = fed \o held[t]
  <2>. DEFINE h == held[t]
              all == fed \o h
  <2>1. /\ all \in Seq(1..sent) /\ Len(all) = Len(fed) + Len(h)
        /\ \A i \in 1..(Len(fed) + Len(h)) :
             all[i] = IF i <= Len(fed) THEN fed[i] ELSE h[i - Len(fed)]
    BY <1>5, ConcatProperties
  <2>2. fed' = all
    BY <1>6
  <2>. HIDE DEF all
  <2>3. /\ \A i \in 1..Len(fed) : all[i] = fed[i] /\ i \in 1..Len(all)
        /\ \A m \in 1..Len(h) : all[Len(fed) + m] = h[m] /\ Len(fed) + m \in 1..Len(all)
        /\ \A i \in 1..Len(all) : i \in 1..Len(fed) \/
             \E m \in 1..Len(h) : i = Len(fed) + m
    <3>1. \A i \in 1..Len(fed) : i \in 1..(Len(fed) + Len(h)) /\ i <= Len(fed)
      BY <1>5
    <3>2. \A m \in 1..Len(h) : /\ Len(fed) + m \in 1..(Len(fed) + Len(h))
                               /\ ~(Len(fed) + m <= Len(fed))
                               /\ Len(fed) + m - Len(fed) = m
      BY <1>5
    <3>3. ASSUME NEW i \in 1..Len(all), i \notin 1..Len(fed)
          PROVE  \E m \in 1..Len(h) : i = Len(fed) + m
      <4>1. i - Len(fed) \in 1..Len(h) /\ i = Len(fed) + (i - Len(fed))
        <5>. DEFINE a == Len(fed)
                    w == Len(h)
        <5>1. a \in Nat /\ w \in Nat /\ i \in 1..(a + w) /\ i \notin 1..a
          BY <3>3, <2>1, <1>5
        <5>. HIDE DEF a, w
        <5>2. i - a \in 1..w /\ i = a + (i - a)
          BY <5>1
        <5>3. QED
          BY <5>2 DEF a, w
      <4>2. QED
        BY <4>1
    <3>4. \A i \in 1..Len(fed) : all[i] = fed[i] /\ i \in 1..Len(all)
      BY <2>1, <3>1
    <3>5. \A m \in 1..Len(h) : all[Len(fed) + m] = h[m] /\ Len(fed) + m \in 1..Len(all)
      BY <2>1, <3>2
    <3>6. QED
      BY <3>3, <3>4, <3>5
  <2>4. \A m, n \in 1..Len(h) : m < n => h[m] < h[n]
    <3>. SUFFICES ASSUME NEW m \in 1..Len(h), NEW n \in 1..Len(h), m < n
                  PROVE  h[m] < h[n]
      OBVIOUS
    <3>1. 1 \in 1..Len(h)
      BY <1>5
    <3>2. PICK f \in 1..sent : f = h[1]
      BY <1>5, <3>1
    <3>3. h[m] = f + m - 1 /\ h[n] = f + n - 1
      BY <1>1, <3>2 DEF Ordered
    <3>4. QED
      BY <3>3, <1>5
  <2>5. \A i \in 1..Len(fed), m \in 1..Len(h) : fed[i] < h[m]
    <3>1. \A m \in 1..Len(h) : h[m] \in ChunksIn(t)
      BY <1>5
    <3>2. \A c \in ChunksIn(t) : \A i \in 1..Len(fed) : fed[i] < c
      BY <1>1 DEF Ordered
    <3>3. QED
      BY <3>1, <3>2
  <2>6. ASSUME NEW i \in 1..Len(all), NEW j \in 1..Len(all), i < j
        PROVE  all[i] < all[j]
    <3>1. CASE i \in 1..Len(fed) /\ j \in 1..Len(fed)
      BY <3>1, <2>3, <2>6, <1>5
    <3>2. CASE i \in 1..Len(fed) /\ j \notin 1..Len(fed)
      <4>1. PICK m \in 1..Len(h) : j = Len(fed) + m
        BY <3>2, <2>3
      <4>2. all[i] = fed[i] /\ all[j] = h[m]
        BY <3>2, <4>1, <2>3
      <4>3. QED
        BY <3>2, <4>2, <2>5
    <3>3. CASE i \notin 1..Len(fed)
      <4>1. PICK m \in 1..Len(h) : i = Len(fed) + m
        BY <3>3, <2>3
      <4>2. j \notin 1..Len(fed)
        BY <4>1, <2>6, <1>5
      <4>3. PICK n \in 1..Len(h) : j = Len(fed) + n
        BY <4>2, <2>3
      <4>4. m < n
        BY <4>1, <4>3, <2>6, <1>5
      <4>5. QED
        BY <4>1, <4>3, <4>4, <2>3, <2>4
    <3>4. QED
      BY <3>1, <3>2, <3>3
  <2>7. \A i \in 1..Len(all) :
          (\E j \in 1..Len(fed) : all[i] = fed[j]) \/ all[i] \in ChunksIn(t)
    <3>. TAKE i \in 1..Len(all)
    <3>1. CASE i \in 1..Len(fed)
      BY <3>1, <2>3
    <3>2. CASE i \notin 1..Len(fed)
      <4>1. PICK m \in 1..Len(h) : i = Len(fed) + m
        BY <3>2, <2>3
      <4>2. all[i] = h[m]
        BY <4>1, <2>3
      <4>3. QED
        BY <4>2, <1>5
    <3>3. QED
      BY <3>1, <3>2
  <2>8. Range(all) = {all[i] : i \in 1..Len(all)}
    BY <2>1, RangeEquality
  <2>9. Range(fed) \subseteq Range(all) /\ ChunksIn(t) \subseteq Range(all)
    BY <2>3, <2>8, <1>5
  <2>10. ASSUME NEW i \in 1..Len(all), Intact(all[i])
         PROVE  all[i] = i
    <3>1. CASE i \in 1..Len(fed)
      BY <3>1, <2>3, <2>10, <1>4
    <3>2. CASE i \notin 1..Len(fed)
      <4>1. PICK m \in 1..Len(h) : i = Len(fed) + m
        BY <3>2, <2>3
      <4>2. all[i] = h[m]
        BY <4>1, <2>3
      <4>3. h[m] = Len(fed) + m
        BY <4>2, <2>10, <1>3, NextIsFed
      <4>4. QED
        BY <4>1, <4>2, <4>3
    <3>3. QED
      BY <3>1, <3>2
  <2>11. QED
    BY <2>1, <2>2, <2>6, <2>7, <2>9, <2>10
<1>7. CASE fed' = fed /\ ChunksIn(t) \subseteq cut'
  BY <1>4, <1>5, <1>7
<1>8. QED
  BY <1>2, <1>6, <1>7

(* A callback keeps the invariant of the pool and the file.                  *)
LEMMA CallbackKeeps == PoolInv /\ (Callback \/ BreakOff) => PoolInv'
<1>. SUFFICES ASSUME PoolInv, NEW t \in Transfers, Runs(t)
              PROVE  PoolInv'
  BY CallbackRuns
<1>1. Types /\ Queued /\ Ordered /\ Accounted
  BY DEF PoolInv
<1>2. PICK n \in {Size - 1, Size} : Leaving(n)
  BY CallbackMoves
<1>3. /\ inFlight' \in Seq(Transfers) /\ completed' \in Seq(Endings)
      /\ Due > 0 /\ Due' = Due - 1 /\ Size' = n
      /\ \A j \in 1..(Due - 1) : completed'[j] = completed[j + 1]
      /\ \A j \in 1..(Size - 1) : Queue'[j] = Queue[j + 1]
      /\ n = Size => Queue'[Size] = Queue[1]
  BY <1>2 DEF Leaving
<1>4. /\ Due \in Nat /\ Size \in Nat /\ Due <= Size /\ 1 \in 1..Size
      /\ n = Size - 1 \/ n = Size
      /\ n \in Nat
      /\ \A j \in 1..Size : Queue[j] \in Transfers
      /\ \A j \in 1..Due : Queue[j] = completed[j].transfer
      /\ \A i, j \in 1..Size : Queue[i] = Queue[j] => i = j
  BY <1>1, <1>3, QueueType DEF Queued
<1>5. t = Queue[1]
  BY CallbackMoves
<1>6. /\ fed' \in Seq(1..sent)
      /\ \A i, j \in 1..Len(fed') : i < j => fed'[i] < fed'[j]
      /\ \A i \in 1..Len(fed') :
           (\E j \in 1..Len(fed) : fed'[i] = fed[j]) \/ fed'[i] \in ChunksIn(t)
      /\ Range(fed) \subseteq Range(fed')
      /\ ChunksIn(t) \subseteq cut' \/ ChunksIn(t) \subseteq Range(fed')
      /\ \A i \in 1..Len(fed') : Intact(fed'[i]) => fed'[i] = i
  BY <1>3, <1>5, CallbackFeeds
<1>7. /\ pc \in {"loop", "drain", "stop"} /\ completed # << >>
      /\ completed' = Tail(completed)
      /\ held' = [held EXCEPT ![t] = << >>]
      /\ analyzer' = analyzer /\ pc' = pc /\ next' = next /\ sent' = sent
      /\ running' = running /\ abandoned' = abandoned /\ gaveUp' = gaveUp
      /\ spent' \in SUBSET Transfers /\ stuck' \in BOOLEAN
      /\ taken' \in 0..Len(fed')
  BY DEF Runs
<1>8. /\ failure' \in BOOLEAN /\ (failure => failure')
      /\ cut \subseteq cut' /\ broken \subseteq broken'
      /\ cut' \subseteq 1..sent /\ broken' \subseteq 1..sent
  <2>1. ChunksIn(t) \subseteq 1..sent
    BY <1>1, ChunksAre
  <2>2. Range(fed') \subseteq 1..sent
    <3>. DEFINE f == fed'
    <3>1. f \in Seq(1..sent)
      BY <1>6
    <3>. HIDE DEF f
    <3>2. Range(f) = {f[i] : i \in 1..Len(f)} /\ \A i \in 1..Len(f) : f[i] \in 1..sent
      BY <3>1, RangeEquality, ElementOfSeq
    <3>3. QED
      BY <3>2 DEF f
  <2>3. cut \subseteq 1..sent /\ broken \subseteq 1..sent
    BY <1>1 DEF Types
  <2>4. QED
    BY <2>1, <2>2, <2>3 DEF Runs
<1>9. /\ held'[t] = << >>
      /\ \A u \in Transfers : u # t => held'[u] = held[u]
  BY <1>1, <1>7 DEF Types
<1>10. /\ After(t) = {}
       /\ \A u \in Transfers : u # t => After(u) = ChunksIn(u)
  <2>1. Range(<< >>) = {}
    BY DEF Range
  <2>2. QED
    BY <2>1, <1>9 DEF After, ChunksIn
\* Every place of the new queue is the one before it in the old, or the last.
<1>11. \A j \in 1..n : \/ /\ j + 1 \in 1..Size /\ Queue'[j] = Queue[j + 1]
                          /\ Queue'[j] # t /\ Queue'[j] \in Transfers
                       \/ j = Size /\ Queue'[j] = t
  <2>. TAKE j \in 1..n
  <2>1. CASE j \in 1..(Size - 1)
    <3>1. j + 1 \in 1..Size /\ j + 1 # 1
      BY <2>1, <1>4
    <3>2. QED
      BY <2>1, <3>1, <1>3, <1>4, <1>5
  <2>2. CASE j = Size /\ n = Size
    BY <2>2, <1>3, <1>5
  <2>3. QED
    BY <2>1, <2>2, <1>4
<1>12. Types'
  <2>1. << >> \in Seq(1..sent)
    OBVIOUS
  <2>2. held' \in [Transfers -> Seq(1..sent)]
    BY <2>1, <1>1, <1>7 DEF Types
  <2>3. QED
    BY <2>2, <1>1, <1>3, <1>6, <1>7, <1>8 DEF Types
<1>13. Queued'
  <2>1. ASSUME NEW i \in 1..n, NEW j \in 1..n, Queue'[i] = Queue'[j]
        PROVE  i = j
    <3>1. CASE Queue'[i] = t
      BY <2>1, <3>1, <1>11
    <3>2. CASE Queue'[i] # t
      <4>1. /\ i + 1 \in 1..Size /\ j + 1 \in 1..Size
            /\ Queue[i + 1] = Queue[j + 1]
        BY <2>1, <3>2, <1>11
      <4>2. i + 1 = j + 1
        BY <4>1, <1>4
      <4>3. QED
        BY <4>2
    <3>3. QED
      BY <3>1, <3>2
  <2>2. n <= Size /\ Size <= TRANSFER_COUNT
    BY <1>1, <1>4 DEF Queued
  <2>3. n <= TRANSFER_COUNT
    BY <2>2, <1>4, PoolAssumption
  <2>4. QED
    BY <2>1, <2>3, <1>3, <1>7 DEF Queued, Early
<1>14. /\ \A u \in Transfers : \A c \in ChunksIn(u) : \A i \in 1..Len(fed) : fed[i] < c
       /\ \A u \in Transfers : \A k \in 1..Len(held[u]) : held[u][k] = held[u][1] + k - 1
       /\ \A i, j \in 1..Size : i < j =>
            \A c \in ChunksIn(Queue[i]), e \in ChunksIn(Queue[j]) : c < e
       /\ \A j \in 1..Size : j > Due + 1 => held[Queue[j]] = << >>
       /\ \A u \in Transfers : held[u] # << >> => \E j \in 1..Size : Queue[j] = u
       /\ Size > Due /\ held[Queue[Due + 1]] # << >> =>
            held[Queue[Due + 1]][Len(held[Queue[Due + 1]])] = sent
  BY <1>1 DEF Ordered
<1>15. Ordered'
  <2>1. ASSUME NEW u \in Transfers, NEW c \in After(u), NEW i \in 1..Len(fed')
        PROVE  fed'[i] < c
    <3>1. u # t /\ c \in ChunksIn(u)
      BY <2>1, <1>10
    <3>2. CASE \E j \in 1..Len(fed) : fed'[i] = fed[j]
      BY <3>1, <3>2, <1>14
    <3>3. CASE fed'[i] \in ChunksIn(t)
      <4>1. held[u] # << >>
        BY <3>1, <1>1, ChunksAre
      <4>2. PICK j \in 1..Size : Queue[j] = u
        BY <4>1, <1>14
      <4>3. 1 < j
        <5>1. j # 1
          BY <3>1, <4>2, <1>5
        <5>2. QED
          BY <5>1, <1>4
      <4>4. QED
        BY <3>1, <3>3, <4>2, <4>3, <1>4, <1>5, <1>14
    <3>4. QED
      BY <3>2, <3>3, <1>6
  <2>2. ASSUME NEW u \in Transfers, NEW k \in 1..Len(held'[u])
        PROVE  held'[u][k] = held'[u][1] + k - 1
    <3>1. CASE u = t
      <4>1. Len(held'[u]) = 0
        BY <3>1, <1>9
      <4>2. QED
        BY <4>1, <2>2
    <3>2. CASE u # t
      BY <2>2, <3>2, <1>9, <1>14
    <3>3. QED
      BY <3>1, <3>2
  <2>3. ASSUME NEW i \in 1..n, NEW j \in 1..n, i < j,
               NEW c \in After(Queue'[i]), NEW e \in After(Queue'[j])
        PROVE  c < e
    <3>1. Queue'[i] # t /\ Queue'[j] # t
      BY <2>3, <1>10
    <3>2. /\ i + 1 \in 1..Size /\ j + 1 \in 1..Size /\ i + 1 < j + 1
          /\ Queue'[i] = Queue[i + 1] /\ Queue'[j] = Queue[j + 1]
      BY <2>3, <3>1, <1>11
    <3>3. c \in ChunksIn(Queue[i + 1]) /\ e \in ChunksIn(Queue[j + 1])
      BY <2>3, <3>1, <3>2, <1>4, <1>10
    <3>4. QED
      BY <3>2, <3>3, <1>14
  <2>4. ASSUME NEW j \in 1..n, j > (Due - 1) + 1
        PROVE  held'[Queue'[j]] = << >>
    <3>1. CASE Queue'[j] = t
      BY <3>1, <1>9
    <3>2. CASE Queue'[j] # t
      <4>1. /\ j + 1 \in 1..Size /\ Queue'[j] = Queue[j + 1] /\ j + 1 > Due + 1
            /\ Queue'[j] \in Transfers
        BY <2>4, <3>2, <1>4, <1>11
      <4>2. QED
        BY <3>2, <4>1, <1>9, <1>14
    <3>3. QED
      BY <3>1, <3>2
  <2>5. ASSUME NEW u \in Transfers, held'[u] # << >>
        PROVE  \E j \in 1..n : Queue'[j] = u
    <3>1. u # t /\ held[u] # << >>
      BY <2>5, <1>9
    <3>2. PICK l \in 1..Size : Queue[l] = u
      BY <3>1, <1>14
    <3>3. l # 1
      BY <3>1, <3>2, <1>5
    <3>4. l - 1 \in 1..(Size - 1) /\ l - 1 \in 1..n /\ (l - 1) + 1 = l
      BY <3>3, <1>4
    <3>5. QED
      BY <3>2, <3>4, <1>3
  <2>6. ASSUME n > Due - 1, held'[Queue'[Due]] # << >>
        PROVE  held'[Queue'[Due]][Len(held'[Queue'[Due]])] = sent
    <3>1. Due \in 1..n
      BY <2>6, <1>3, <1>4
    <3>2. Queue'[Due] # t
      BY <2>6, <1>9
    <3>3. /\ Due + 1 \in 1..Size /\ Queue'[Due] = Queue[Due + 1]
          /\ Queue'[Due] \in Transfers
      BY <3>1, <3>2, <1>11
    <3>4. Size > Due /\ held'[Queue'[Due]] = held[Queue[Due + 1]]
      BY <3>2, <3>3, <1>4, <1>9
    <3>5. QED
      BY <2>6, <3>4, <1>14
  <2>7. \A j \in 1..Size' : j > Due' + 1 => held'[Queue'[j]] = << >>
    BY <2>4, <1>3
  <2>8. Size' > Due' /\ held'[Queue'[Due' + 1]] # << >> =>
          held'[Queue'[Due' + 1]][Len(held'[Queue'[Due' + 1]])] = sent'
    <3>1. (Due - 1) + 1 = Due
      BY <1>4
    <3>2. QED
      BY <2>6, <3>1, <1>3, <1>7
  <2>9. \A u \in Transfers : held'[u] # << >> => \E j \in 1..Size' : Queue'[j] = u
    BY <2>5, <1>3
  <2>10. /\ \A i, j \in 1..Len(fed') : i < j => fed'[i] < fed'[j]
         /\ \A i, j \in 1..Size' : i < j =>
              \A c \in After(Queue'[i]), e \in After(Queue'[j]) : c < e
    BY <2>3, <1>3, <1>6
  <2>11. QED
    BY <2>1, <2>2, <2>7, <2>8, <2>9, <2>10 DEF Ordered, ChunksIn, After
<1>16. Accounted'
  <2>1. /\ \A c \in 1..sent : Intact(c) =>
             c \in Range(fed) \/ \E u \in Transfers : c \in ChunksIn(u)
        /\ \A j \in 1..Due : completed[j].status # "completed" =>
             ChunksIn(completed[j].transfer) \subseteq cut
        /\ pc \in {"stop", "returned"} /\ ~gaveUp /\ ~failure => Size = 0
    BY <1>1 DEF Accounted
  <2>. DEFINE Spared(c) == \A d \in cut' \union broken' : c < d
  <2>2. \A c : Spared(c) => Intact(c)
    BY <1>8 DEF Intact
  <2>3. ASSUME NEW c \in 1..sent, Spared(c)
        PROVE  c \in Range(fed') \/ \E u \in Transfers : c \in After(u)
    <3>1. CASE c \in Range(fed)
      BY <3>1, <1>6
    <3>2. CASE \E u \in Transfers : c \in ChunksIn(u)
      <4>1. PICK u \in Transfers : c \in ChunksIn(u)
        BY <3>2
      <4>2. CASE u = t
        <5>1. c \notin cut'
          BY <2>3
        <5>2. QED
          BY <4>1, <4>2, <5>1, <1>6
      <4>3. CASE u # t
        BY <4>1, <4>3, <1>10
      <4>4. QED
        BY <4>2, <4>3
    <3>3. QED
      BY <2>1, <2>2, <2>3, <3>1, <3>2
  <2>4. ASSUME NEW j \in 1..(Due - 1), completed'[j].status # "completed"
        PROVE  After(completed'[j].transfer) \subseteq cut'
    <3>1. /\ j + 1 \in 1..Due /\ j + 1 \in 1..Size /\ j + 1 # 1
          /\ completed'[j] = completed[j + 1]
      BY <1>3, <1>4
    <3>2. completed[j + 1].transfer \in Transfers \ {t}
      BY <3>1, <1>4, <1>5
    <3>3. After(completed[j + 1].transfer) = ChunksIn(completed[j + 1].transfer)
      BY <3>2, <1>10
    <3>4. QED
      BY <2>1, <2>4, <3>1, <3>3, <1>8
  <2>5. \A j \in 1..Due' : completed'[j].status # "completed" =>
             After(completed'[j].transfer) \subseteq cut'
    BY <2>4, <1>3
  <2>6. ~(pc' \in {"stop", "returned"} /\ ~gaveUp' /\ ~failure')
    <3>1. pc \in {"stop", "returned"} /\ ~gaveUp /\ ~failure => FALSE
      BY <2>1, <1>4
    <3>2. QED
      BY <3>1, <1>7, <1>8
  <2>7. \A i \in 1..Len(fed') : Spared(fed'[i]) => fed'[i] = i
    BY <2>2, <1>6
  <2>8. \A c \in 1..sent' : Spared(c) =>
             c \in Range(fed') \/ \E u \in Transfers : c \in After(u)
    BY <2>3, <1>7
  <2>9. QED
    BY <2>5, <2>6, <2>7, <2>8 DEF Accounted, Intact, ChunksIn, After
<1>17. QED
  BY <1>12, <1>13, <1>15, <1>16 DEF PoolInv

-----------------------------------------------------------------------------
(* The theorems *)

LEMMA StutterKeeps == PoolInv /\ UNCHANGED vars => PoolInv'
<1>. SUFFICES ASSUME PoolInv, UNCHANGED vars
              PROVE  Still /\ Turns
  BY StillKeeps
<1>. USE DEF vars, poolVars, fileVars, flagVars
<1>1. Types /\ (pc \in {"stop", "returned"} /\ ~gaveUp /\ ~failure => Size = 0)
  BY DEF PoolInv, Accounted
<1>2. QED
  BY <1>1 DEF Still, Turns, Types

(* The invariant of the pool and the file holds in every capture.            *)
LEMMA AlwaysPoolInv == Spec => []PoolInv
<1>1. PoolInv /\ [Next]_vars => PoolInv'
  BY StutterKeeps, ReceiveKeeps, EndShortKeeps, EndInErrorKeeps, OverrunKeeps,
     UnplugKeeps, CallbackKeeps, OpeningKeeps, SubmitPoolKeeps, LeavingKeeps,
     CancelKeeps, AgainKeeps
     DEF Next, Program
<1>2. QED
  BY InitIsEmpty, <1>1, PTL DEF Spec

\* The transfers that are with the USB stack.
Waiting(t) == \E j \in 1..Size : Queue[j] = t

\* While the pool is filled, and until something failed while it runs, the
\* transfers that are not waiting are those that went wrong.
Filled ==
  /\ pc \in Early \union {"submitting"} => spent = {}
  /\ pc \in {"enabled", "submitting", "loop"} => running
  /\ pc = "submitting" => \A t \in 1..(next - 1) : Waiting(t)
  /\ pc = "loop" /\ ~failure => \A t \in Transfers : Waiting(t) <=> t \notin spent

(* A callback in the loop hands its transfer back, unless it went wrong or   *)
(* the capture has failed.                                                   *)
LEMMA CallbackReturns ==
  ASSUME PoolInv, Filled, Callback \/ BreakOff, pc = "loop", ~failure'
  PROVE  \E t \in Transfers :
           /\ Runs(t)
           /\ \/ inFlight' = inFlight /\ spent' = spent \union {t}
              \/ inFlight' = Append(inFlight, t) /\ spent' = spent
<1>1. PICK u \in Transfers : Runs(u)
  BY CallbackRuns
<1>2. PICK t \in Transfers :
        Return(t) /\ (OnTransfer(t, Head(completed).status) \/ Retire(t))
  BY DEF Callback, BreakOff
<1>3. t = u
  BY <1>1, <1>2 DEF Runs, Return
<1>4. running
  BY DEF Filled
<1>5. Retire(t) \/ Resubmit(t)
  BY <1>2 DEF OnTransfer, WriteAll, Desync, WriteToClosed
<1>6. Resubmit(t) => inFlight' = Append(inFlight, t) /\ spent' = spent
  BY <1>4 DEF Resubmit, Submit
<1>7. Retire(t) => inFlight' = inFlight /\ spent' = spent \union {t}
  BY DEF Retire
<1>8. QED
  BY <1>1, <1>3, <1>5, <1>6, <1>7

(* So a transfer stays in the pool or is one that went wrong.                *)
LEMMA CallbackFills ==
  ASSUME PoolInv, Filled, Callback \/ BreakOff
  PROVE  Filled'
<1>1. Types /\ Queued
  BY DEF PoolInv
<1>2. pc' = pc /\ running' = running /\ pc \in {"loop", "drain", "stop"}
  BY CallbackRuns DEF Runs
<1>3. ASSUME pc = "loop", ~failure'
      PROVE  \A t \in Transfers : (\E j \in 1..Size' : Queue'[j] = t) <=> t \notin spent'
  <2>1. PICK t \in Transfers :
           /\ Runs(t)
           /\ \/ inFlight' = inFlight /\ spent' = spent \union {t}
              \/ inFlight' = Append(inFlight, t) /\ spent' = spent
    BY <1>3, CallbackReturns
  <2>2. ~failure
    BY <1>3, <2>1 DEF Runs
  <2>3. \A u \in Transfers : (\E j \in 1..Size : Queue[j] = u) <=> u \notin spent
    BY <1>3, <2>2 DEF Filled, Waiting
  <2>4. completed # << >> /\ completed' = Tail(completed) /\ t = Head(completed).transfer
    BY <2>1 DEF Runs
  <2>5. t = Queue[1] /\ Due > 0
    BY <2>1, CallbackMoves
  <2>6. /\ Due \in Nat /\ Size \in Nat /\ 1 \in 1..Size
        /\ \A i, j \in 1..Size : Queue[i] = Queue[j] => i = j
    BY <1>1, <2>5, QueueType DEF Queued
  <2>7. CASE inFlight' = inFlight /\ spent' = spent \union {t}
    <3>1. Size' = Size - 1 /\ \A j \in 1..(Size - 1) : Queue'[j] = Queue[j + 1]
      BY <1>1, <2>4, <2>7, FirstLeaves
    <3>2. ASSUME NEW u \in Transfers, NEW j \in 1..(Size - 1), Queue'[j] = u
          PROVE  u # t /\ u \notin spent
      <4>1. j + 1 \in 1..Size /\ j + 1 # 1 /\ Queue[j + 1] = u
        BY <3>1, <3>2, <2>6
      <4>2. QED
        BY <4>1, <2>3, <2>5, <2>6
    <3>3. ASSUME NEW u \in Transfers, u # t, u \notin spent
          PROVE  \E j \in 1..(Size - 1) : Queue'[j] = u
      <4>1. PICK l \in 1..Size : Queue[l] = u
        BY <3>3, <2>3
      <4>2. l # 1
        BY <4>1, <3>3, <2>5
      <4>3. l - 1 \in 1..(Size - 1) /\ (l - 1) + 1 = l
        BY <4>2, <2>6
      <4>4. QED
        BY <4>1, <4>3, <3>1
    <3>4. QED
      BY <3>1, <3>2, <3>3, <2>7
  <2>8. CASE inFlight' = Append(inFlight, t) /\ spent' = spent
    <3>1. Leaving(Size)
      BY <1>1, <2>4, <2>8, FirstRotates
    <3>2. /\ Size' = Size /\ \A j \in 1..(Size - 1) : Queue'[j] = Queue[j + 1]
          /\ Queue'[Size] = Queue[1]
      BY <3>1 DEF Leaving
    <3>3. ASSUME NEW u \in Transfers, NEW j \in 1..Size, Queue'[j] = u
          PROVE  u \notin spent
      <4>1. CASE j = Size
        BY <4>1, <3>2, <3>3, <2>3, <2>6
      <4>2. CASE j # Size
        <5>1. j \in 1..(Size - 1) /\ j + 1 \in 1..Size
          BY <4>2, <2>6
        <5>2. QED
          BY <5>1, <3>2, <3>3, <2>3
      <4>3. QED
        BY <4>1, <4>2
    <3>4. ASSUME NEW u \in Transfers, u \notin spent
          PROVE  \E j \in 1..Size : Queue'[j] = u
      <4>1. PICK l \in 1..Size : Queue[l] = u
        BY <3>4, <2>3
      <4>2. CASE l = 1
        <5>1. Size \in 1..Size
          BY <2>6
        <5>2. QED
          BY <4>1, <4>2, <5>1, <3>2
      <4>3. CASE l # 1
        <5>1. l - 1 \in 1..(Size - 1) /\ l - 1 \in 1..Size /\ (l - 1) + 1 = l
          BY <4>3, <2>6
        <5>2. QED
          BY <4>1, <5>1, <3>2
      <4>4. QED
        BY <4>2, <4>3
    <3>5. QED
      BY <3>2, <3>3, <3>4, <2>8
  <2>9. QED
    BY <2>1, <2>7, <2>8
<1>4. QED
  BY <1>2, <1>3 DEF Filled, Waiting, Early

(* Submitting the pool leaves every transfer waiting.                        *)
LEMMA SubmitFills ==
  ASSUME PoolInv, Filled, SubmitPool
  PROVE  Filled'
<1>1. Types /\ Queued
  BY DEF PoolInv
<1>2. /\ spent = {} /\ spent' = {} /\ running' = running /\ running
      /\ pc = "submitting" /\ completed' = completed
      /\ \A t \in 1..(next - 1) : \E j \in 1..Size : Queue[j] = t
      /\ next \in 1..(TRANSFER_COUNT + 1) /\ TRANSFER_COUNT \in Nat \ {0}
  BY <1>1, PoolAssumption DEF SubmitPool, Filled, Waiting, Early, Types
<1>3. CASE next > TRANSFER_COUNT
  <2>1. inFlight' = inFlight /\ pc' = "loop"
    BY <1>3 DEF SubmitPool
  <2>2. Size' = Size /\ Queue' = Queue
    BY <2>1, <1>2 DEF Size, Due, Queue
  <2>3. Transfers = 1..(next - 1)
    BY <1>2, <1>3 DEF Transfers
  <2>4. QED
    BY <2>1, <2>2, <2>3, <1>2 DEF Filled, Waiting, Early
<1>4. CASE next <= TRANSFER_COUNT /\ analyzer = "gone"
  <2>1. pc' = "stop"
    BY <1>2, <1>4 DEF SubmitPool, Fail
  <2>2. QED
    BY <2>1 DEF Filled, Early
<1>5. CASE next <= TRANSFER_COUNT /\ analyzer # "gone"
  <2>1. /\ inFlight' = Append(inFlight, next) /\ next' = next + 1
        /\ pc' = "submitting" /\ next \in Transfers
    BY <1>2, <1>5 DEF SubmitPool, Submit, Transfers
  <2>2. /\ Size' = Size + 1 /\ \A j \in 1..Size : Queue'[j] = Queue[j]
        /\ Queue'[Size + 1] = next
    BY <1>1, <1>2, <2>1, LastJoins
  <2>3. Size \in Nat /\ Size + 1 \in 1..(Size + 1) /\ \A j \in 1..Size : j \in 1..(Size + 1)
    BY <1>1, QueueType
  <2>4. ASSUME NEW t \in 1..(next' - 1)
        PROVE  \E j \in 1..Size' : Queue'[j] = t
    <3>1. t = next \/ t \in 1..(next - 1)
      BY <1>2, <2>1
    <3>2. QED
      BY <3>1, <1>2, <2>2, <2>3
  <2>5. QED
    BY <2>1, <2>4, <1>2 DEF Filled, Waiting, Early
<1>6. QED
  BY <1>2, <1>3, <1>4, <1>5

(* The transfers that are not waiting in a running capture went wrong.       *)
LEMMA AlwaysFilled == Spec => []Filled
<1>1. Init => Filled
  BY DEF Init, Filled, Early
<1>2. ASSUME PoolInv, Filled, [Next]_vars
      PROVE  Filled'
  <2>. USE DEF poolVars, flagVars
  <2>1. Types /\ Queued
    BY <1>2 DEF PoolInv
  <2>2. ASSUME UNCHANGED << inFlight, completed >>
        PROVE  \A t : Waiting(t)' <=> Waiting(t)
    BY <2>2 DEF Waiting, Queue, Size, Due
  <2>3. ASSUME UNCHANGED << pc, running, next, failure, spent >>,
               Queue' = Queue, Size' = Size
        PROVE  Filled'
    BY <2>3, <1>2 DEF Filled, Waiting
  <2>4. CASE Receive
    <3>1. CASE UNCHANGED << inFlight, completed >>
      <4>1. Queue' = Queue /\ Size' = Size
        BY <3>1 DEF Queue, Size, Due
      <4>2. QED
        BY <4>1, <2>4, <2>3 DEF Receive
    <3>2. CASE ~ UNCHANGED << inFlight, completed >>
      <4>1. inFlight # << >> /\ inFlight' = Tail(inFlight)
            /\ completed' = Append(completed, Ended(Head(inFlight), "completed"))
        BY <2>4, <3>2 DEF Receive
      <4>2. Queue' = Queue /\ Size' = Size
        BY <4>1, <2>1, HeadEnds DEF Statuses
      <4>3. QED
        BY <4>2, <2>4, <2>3 DEF Receive
    <3>3. QED
      BY <3>1, <3>2
  <2>5. CASE EndShort
    <3>1. Queue' = Queue /\ Size' = Size
      BY <2>5, <2>1, HeadEnds DEF Statuses, EndShort
    <3>2. QED
      BY <3>1, <2>5, <2>3 DEF EndShort
  <2>6. CASE EndInError
    <3>1. Queue' = Queue /\ Size' = Size
      BY <2>6, <2>1, HeadEnds DEF Statuses, EndInError
    <3>2. QED
      BY <3>1, <2>6, <2>3 DEF EndInError
  <2>7. CASE Unplug
    <3>1. Cleared("no_device")
      BY <2>7 DEF Cleared, Unplug
    <3>2. Queue' = Queue /\ Size' = Size
      BY <3>1, <2>1, AllEnd DEF Statuses
    <3>3. QED
      BY <3>2, <2>7, <2>3 DEF Unplug
  <2>8. CASE Overrun \/ UNCHANGED vars
    <3>1. UNCHANGED << pc, running, next, failure, spent, inFlight, completed >>
      BY <2>8 DEF Overrun, vars
    <3>2. Queue' = Queue /\ Size' = Size
      BY <3>1 DEF Queue, Size, Due
    <3>3. QED
      BY <3>1, <3>2, <2>3
  <2>9. CASE Callback \/ BreakOff
    BY <2>9, <1>2, CallbackFills
  <2>10. CASE SubmitPool
    BY <2>10, <1>2, SubmitFills
  <2>11. CASE Claim \/ Disable \/ RequestFails \/ Enable
    BY <2>11, <1>2 DEF Filled, Early, Claim, Disable, RequestFails, Enable
  <2>12. CASE OpenWriter
    <3>1. Size = 0 \/ pc' # "submitting"
      BY <2>12, <2>1 DEF OpenWriter, Queued, Early
    <3>2. next = 1 /\ next' = next /\ spent' = spent /\ running' = running
          /\ pc = "enabled" /\ pc' \in {"submitting", "stop"}
      BY <2>12, <2>1 DEF OpenWriter, Queued, Early, Fail
    <3>3. 1..(next' - 1) = {}
      BY <3>2
    <3>4. QED
      BY <3>2, <3>3, <1>2 DEF Filled, Early
  <2>13. CASE LeaveLoop \/ Cancel \/ BeginDrain \/ EndDrain \/ Stop \/ Kill \/ Interrupt
    <3>1. pc' \in {"cancelling", "drain", "stop", "raised", "returned", "killed",
                   "interrupted"}
      BY <2>13 DEF LeaveLoop, BeginCancel, Cancel, Fail, BeginDrain, EndDrain, Stop,
                   Kill, Interrupt
    <3>2. QED
      BY <3>1 DEF Filled, Early
  <2>14. CASE Again
    BY <2>14 DEF Again, NewSession, Filled, Early
  <2>15. QED
    BY <1>2, <2>4, <2>5, <2>6, <2>7, <2>8, <2>9, <2>10, <2>11, <2>12, <2>13, <2>14
       DEF Next, Program
<1>3. QED
  BY <1>1, <1>2, AlwaysPoolInv, PTL DEF Spec

\* What the decoder has and has not yielded comes after a cut or a break.
Yielded ==
  /\ \A i \in 1..Len(fed) : i > taken => \E d \in cut \union broken : d <= fed[i]
  /\ stuck => taken < Len(fed)

\* The decoder stopped yielding at the n-th chunk or after it.
Turned(n) ==
  /\ \E d \in cut' \union broken' : d <= fed'[n]
  /\ taken' >= n - 1
  /\ stuck' => taken' < Len(fed')

(* Where the decoder stops yielding, a chunk was cut or a callback broken    *)
(* off.                                                                      *)
LEMMA CallbackYields ==
  ASSUME PoolInv, Yielded, Callback \/ BreakOff
  PROVE  \/ UNCHANGED << fed, taken, stuck >>
         \/ taken' = Len(fed') /\ ~stuck'
         \/ \E n \in 1..Len(fed') : Turned(n)
<1>1. Types
  BY DEF PoolInv
<1>2. PICK t \in Transfers :
        \/ OnTransfer(t, Head(completed).status) /\ UNCHANGED << cut, breaks >>
        \/ UNCHANGED << fed, taken, broken, stuck >>
        \/ /\ ~stuck /\ Decode(t) /\ UNCHANGED << cut, stuck >>
           /\ \/ \E n \in (taken + 1)..Len(fed') : Reaches(n) /\ BreakAt(n)
              \/ taken' = Len(fed') /\ UNCHANGED broken
  BY DEF Callback, BreakOff
<1>3. /\ fed \in Seq(1..sent) /\ held[t] \in Seq(1..sent) /\ sent \in Nat
      /\ Len(fed) \in Nat /\ Len(held[t]) \in Nat
      /\ taken \in 0..Len(fed) /\ cut \subseteq 1..sent /\ stuck \in BOOLEAN
  BY <1>1 DEF Types
<1>4. Decode(t) =>
        /\ Len(fed') \in Nat /\ Len(fed) <= Len(fed')
        /\ \A i \in 1..Len(fed') : fed'[i] \in 1..sent
        /\ \A i \in 1..Len(fed) : fed'[i] = fed[i]
  <2>. DEFINE h == held[t]
              all == fed \o h
  <2>1. /\ all \in Seq(1..sent) /\ Len(all) = Len(fed) + Len(h)
        /\ \A i \in 1..(Len(fed) + Len(h)) :
             all[i] = IF i <= Len(fed) THEN fed[i] ELSE h[i - Len(fed)]
    BY <1>3, ConcatProperties
  <2>2. \A i \in 1..Len(all) : all[i] \in 1..sent
    BY <2>1, ElementOfSeq
  <2>3. Decode(t) => fed' = all
    BY DEF Decode
  <2>. HIDE DEF all
  <2>4. \A i \in 1..Len(fed) : i \in 1..(Len(fed) + Len(h)) /\ i <= Len(fed)
    BY <1>3
  <2>5. \A i \in 1..Len(fed) : all[i] = fed[i]
    BY <2>1, <2>4
  <2>6. Len(all) \in Nat /\ Len(fed) <= Len(all)
    BY <2>1, <1>3
  <2>7. QED
    BY <2>2, <2>3, <2>5, <2>6
<1>5. ASSUME Decode(t), NEW n \in (taken + 1)..Len(fed'), BreakAt(n), ~stuck'
      PROVE  \E m \in 1..Len(fed') : Turned(m)
  <2>1. n \in 1..Len(fed') /\ n \in Nat
    BY <1>3, <1>4, <1>5
  <2>2. fed'[n] \in 1..sent /\ fed'[n] \in broken' /\ taken' >= n - 1
    BY <2>1, <1>4, <1>5 DEF BreakAt
  <2>3. fed'[n] <= fed'[n]
    BY <2>2
  <2>4. QED
    BY <2>1, <2>2, <2>3, <1>5 DEF Turned
<1>6. CASE UNCHANGED << fed, taken, stuck >>
  BY <1>6
<1>7. CASE Decode(t) /\ WriteAll(t)
  BY <1>7 DEF WriteAll
<1>8. CASE Decode(t) /\ Desync(t) /\ UNCHANGED cut
  <2>1. CASE stuck /\ UNCHANGED taken
    <3>1. taken + 1 \in 1..Len(fed) /\ taken + 1 > taken
      BY <2>1, <1>3 DEF Yielded
    <3>2. PICK d \in cut \union broken : d <= fed[taken + 1]
      BY <3>1 DEF Yielded
    <3>3. /\ taken + 1 \in 1..Len(fed') /\ fed'[taken + 1] = fed[taken + 1]
          /\ taken < Len(fed')
      BY <3>1, <1>3, <1>4, <1>8
    <3>4. d \in cut' \union broken'
      BY <1>8 DEF Desync
    <3>5. taken' >= (taken + 1) - 1
      BY <2>1, <1>3
    <3>6. taken' < Len(fed')
      BY <3>3, <2>1
    <3>7. Turned(taken + 1)
      BY <3>2, <3>3, <3>4, <3>5, <3>6 DEF Turned
    <3>8. QED
      BY <3>3, <3>7
  <2>2. CASE ~stuck /\ \E n \in (taken + 1)..Len(fed') : OutOfStep(n) /\ taken' = n - 1
    <3>1. PICK n \in (taken + 1)..Len(fed') : OutOfStep(n) /\ taken' = n - 1
      BY <2>2
    <3>2. n \in 1..Len(fed') /\ n \in Nat /\ taken' < Len(fed') /\ taken' >= n - 1
      BY <3>1, <1>3, <1>4, <1>8
    <3>3. PICK d \in cut : d < fed'[n]
      BY <3>1 DEF OutOfStep
    <3>4. d \in cut' /\ d <= fed'[n]
      BY <3>2, <3>3, <1>3, <1>4, <1>8
    <3>5. Turned(n)
      BY <3>2, <3>4 DEF Turned
    <3>6. QED
      BY <3>2, <3>5
  <2>3. QED
    BY <2>1, <2>2, <1>8 DEF Desync
<1>9. CASE Decode(t) /\ WriteToClosed(t)
  <2>1. taken + 1 \in (taken + 1)..Len(fed')
    <3>1. taken < Len(fed') /\ Len(fed') \in Nat
      BY <1>9, <1>4 DEF WriteToClosed
    <3>2. QED
      BY <3>1, <1>3
  <2>2. BreakAt(taken + 1) /\ ~stuck'
    BY <1>9 DEF WriteToClosed
  <2>3. QED
    BY <2>1, <2>2, <1>5, <1>9
<1>10. CASE /\ Decode(t) /\ ~stuck /\ UNCHANGED << cut, stuck >>
            /\ \/ \E n \in (taken + 1)..Len(fed') : Reaches(n) /\ BreakAt(n)
               \/ taken' = Len(fed') /\ UNCHANGED broken
  <2>1. ~stuck'
    BY <1>10
  <2>2. CASE taken' = Len(fed')
    BY <2>1, <2>2
  <2>3. CASE \E n \in (taken + 1)..Len(fed') : BreakAt(n)
    BY <2>1, <2>3, <1>5, <1>10
  <2>4. QED
    BY <2>2, <2>3, <1>10
<1>11. QED
  BY <1>2, <1>6, <1>7, <1>8, <1>9, <1>10 DEF OnTransfer

(* The decoder keeps back nothing that comes before the first cut.           *)
LEMMA AlwaysYielded == Spec => []Yielded
<1>1. ASSUME fed = << >>, taken = 0, ~stuck
      PROVE  Yielded
  <2>1. 1..Len(fed) = {}
    BY <1>1
  <2>2. QED
    BY <2>1, <1>1 DEF Yielded
<1>2. Init => Yielded
  BY <1>1 DEF Init
<1>3. ASSUME PoolInv, PoolInv', Yielded, [Next]_vars
      PROVE  Yielded'
  <2>. USE DEF poolVars, fileVars
  <2>1. ASSUME UNCHANGED << fed, taken, stuck >>, cut \subseteq cut', broken \subseteq broken'
        PROVE  Yielded'
    BY <2>1, <1>3 DEF Yielded
  <2>2. CASE Receive \/ EndShort \/ EndInError \/ Overrun \/ Unplug \/ UNCHANGED vars
    BY <2>1, <2>2 DEF Receive, EndShort, EndInError, Overrun, Unplug, vars
  <2>3. CASE Claim \/ Disable \/ Enable \/ RequestFails \/ OpenWriter \/ SubmitPool
    BY <2>1, <2>3 DEF Claim, Disable, Enable, RequestFails, OpenWriter, SubmitPool
  <2>4. CASE LeaveLoop \/ Cancel \/ BeginDrain \/ EndDrain \/ Stop \/ Interrupt \/ Kill
    BY <2>1, <2>4
       DEF LeaveLoop, BeginCancel, Cancel, BeginDrain, EndDrain, Stop, Interrupt, Kill
  <2>5. CASE Callback \/ BreakOff
    <3>1. /\ sent' \in Nat /\ fed' \in Seq(1..sent')
          /\ cut' \union broken' \subseteq 1..sent'
          /\ \A i, j \in 1..Len(fed') : i < j => fed'[i] < fed'[j]
      BY <1>3 DEF PoolInv, Types, Ordered
    <3>2. /\ Len(fed') \in Nat /\ taken' \in 0..Len(fed')
          /\ \A i \in 1..Len(fed') : fed'[i] \in Nat
          /\ \A d \in cut' \union broken' : d \in Nat
      <4>1. Len(fed') \in Nat /\ \A i \in 1..Len(fed') : fed'[i] \in 1..sent'
        BY <3>1, ElementOfSeq
      <4>2. taken' \in 0..Len(fed')
        BY <1>3 DEF PoolInv, Types
      <4>3. QED
        BY <3>1, <4>1, <4>2
    <3>3. cut \subseteq cut' /\ broken \subseteq broken'
      BY <1>3, <2>5, CallbackRuns DEF Runs
    <3>4. CASE UNCHANGED << fed, taken, stuck >>
      BY <3>3, <3>4, <2>1
    <3>5. CASE taken' = Len(fed') /\ ~stuck'
      BY <3>2, <3>5 DEF Yielded
    <3>6. ASSUME NEW n \in 1..Len(fed'), Turned(n)
          PROVE  Yielded'
      <4>. PICK d \in cut' \union broken' : d <= fed'[n]
        BY <3>6 DEF Turned
      <4>1. ASSUME NEW i \in 1..Len(fed'), i > taken'
            PROVE  d <= fed'[i]
        <5>1. i = n \/ n < i
          BY <3>2, <3>6, <4>1 DEF Turned
        <5>2. fed'[i] \in Nat /\ fed'[n] \in Nat /\ d \in Nat
          BY <3>2
        <5>3. CASE n < i
          <6>1. fed'[n] < fed'[i]
            BY <5>3, <3>1
          <6>2. QED
            BY <6>1, <5>2
        <5>4. QED
          BY <5>1, <5>3
      <4>2. QED
        BY <4>1, <3>6 DEF Yielded, Turned
    <3>7. QED
      BY <1>3, <2>5, <3>4, <3>5, <3>6, CallbackYields
  <2>6. CASE Again
    <3>1. fed' = << >> /\ taken' = 0 /\ ~stuck'
      BY <2>6 DEF Again, NewSession
    <3>2. 1..Len(fed') = {}
      BY <3>1
    <3>3. QED
      BY <3>1, <3>2 DEF Yielded
  <2>7. QED
    BY <1>3, <2>2, <2>3, <2>4, <2>5, <2>6 DEF Next, Program
<1>4. QED
  BY <1>2, <1>3, AlwaysPoolInv, PTL DEF Spec

ReturnsClean == pc = "returned" => ~failure

(* A capture that failed does not return.                                    *)
LEMMA AlwaysReturnsClean == Spec => []ReturnsClean
<1>1. Init => ReturnsClean
  BY DEF Init, ReturnsClean
<1>2. ASSUME ReturnsClean, [Next]_vars
      PROVE  ReturnsClean'
  <2>. USE <1>2 DEF ReturnsClean, flagVars
  <2>1. CASE Claim \/ Disable \/ Enable \/ RequestFails \/ OpenWriter
    BY <2>1 DEF Claim, Disable, Enable, RequestFails, OpenWriter, Fail
  <2>2. CASE SubmitPool \/ LeaveLoop \/ Cancel \/ BeginDrain \/ EndDrain \/ Stop
    BY <2>2 DEF SubmitPool, LeaveLoop, BeginCancel, Cancel, BeginDrain, EndDrain, Stop, Fail
  <2>3. CASE Interrupt \/ Kill \/ Again
    BY <2>3 DEF Interrupt, BeginCancel, Kill, Again, NewSession, Fail
  <2>4. CASE Receive \/ EndShort \/ EndInError \/ Overrun \/ Unplug
    BY <2>4 DEF Receive, EndShort, EndInError, Overrun, Unplug
  <2>5. CASE Callback \/ BreakOff
    <3>1. \E t \in Transfers : Return(t)
      BY <2>5 DEF Callback, BreakOff
    <3>2. QED
      BY <3>1 DEF Return
  <2>6. CASE UNCHANGED vars
    BY <2>6 DEF vars
  <2>7. QED
    BY <2>1, <2>2, <2>3, <2>4, <2>5, <2>6 DEF Next, Program
<1>3. QED
  BY <1>1, <1>2, PTL DEF Spec

(* An intact chunk that a returned capture did not give up is in the file,   *)
(* since nothing is in the pool any more.                                    *)
LEMMA ExactFromInv == PoolInv /\ Yielded /\ ReturnsClean => ExactUntilCut
<1>. SUFFICES ASSUME PoolInv, Yielded, ReturnsClean
              PROVE  ExactUntilCut
  OBVIOUS
<1>1. Types /\ Ordered /\ Accounted
  BY DEF PoolInv
<1>2. /\ Len(fed) \in Nat /\ sent \in Nat
      /\ \A i \in 1..taken : i \in 1..Len(fed)
      /\ \A i \in 1..Len(fed) : i <= taken => i \in 1..taken
      /\ Range(fed) = {fed[i] : i \in 1..Len(fed)}
      /\ cut \union broken \subseteq 1..sent
  BY <1>1, RangeEquality DEF Types
<1>3. /\ \A i \in 1..taken : Intact(fed[i]) => fed[i] = i
      /\ \A i, j \in 1..taken : i < j => fed[i] < fed[j]
  BY <1>1, <1>2 DEF Ordered, Accounted
<1>4. ASSUME pc = "returned", ~gaveUp, NEW c \in 1..sent, Intact(c)
      PROVE  \E i \in 1..taken : fed[i] = c
  <2>1. ~failure /\ Size = 0
    BY <1>1, <1>4 DEF Accounted, ReturnsClean
  <2>2. ASSUME NEW u \in Transfers, c \in ChunksIn(u)
        PROVE  FALSE
    <3>1. held[u] # << >>
      BY <2>2, <1>1, ChunksAre
    <3>2. QED
      BY <3>1, <2>1, <1>1 DEF Ordered
  <2>3. c \in Range(fed)
    BY <1>1, <1>4, <2>2 DEF Accounted
  <2>4. PICK i \in 1..Len(fed) : fed[i] = c
    BY <2>3, <1>2
  <2>5. i <= taken
    <3>. SUFFICES ASSUME ~(i <= taken)
                  PROVE  FALSE
      OBVIOUS
    <3>1. i > taken
      BY <1>1, <1>2 DEF Types
    <3>2. PICK d \in cut \union broken : d <= c
      BY <3>1, <2>4 DEF Yielded
    <3>3. c < d /\ d \in 1..sent
      BY <1>2, <1>4 DEF Intact
    <3>4. QED
      BY <3>2, <3>3
  <2>6. QED
    BY <2>4, <2>5, <1>2
<1>5. QED
  BY <1>3, <1>4 DEF ExactUntilCut, Intact

LEMMA SizeFromInv == PoolInv /\ Filled => PoolKeepsItsSize
<1>. SUFFICES ASSUME PoolInv, Filled, pc = "loop", ~failure
              PROVE  Submitted = Transfers \ spent
  BY DEF PoolKeepsItsSize
<1>1. Types
  BY DEF PoolInv
<1>2. \A t \in Transfers : (\E j \in 1..Size : Queue[j] = t) <=> t \notin spent
  BY DEF Filled, Waiting
<1>3. Submitted = {Queue[j] : j \in 1..Size} /\ \A j \in 1..Size : Queue[j] \in Transfers
  BY <1>1, SubmittedIsQueue, QueueType
<1>4. QED
  BY <1>2, <1>3

LEMMA TypeFromInv == PoolInv => TypeOK
<1>. SUFFICES ASSUME PoolInv
              PROVE  TypeOK
  OBVIOUS
<1>. DEFINE ended == [i \in DOMAIN completed |-> completed[i].transfer]
            all == inFlight \o ended
<1>1. Types /\ Queued
  BY DEF PoolInv
<1>2. /\ Due \in Nat /\ Size \in Nat /\ Len(inFlight) = Size - Due /\ Due <= Size
      /\ DOMAIN completed = 1..Due /\ Due = Len(completed)
      /\ \A j \in 1..Size : Queue[j] \in Transfers
      /\ \A j \in 1..Due : Queue[j] = completed[j].transfer
      /\ \A j \in 1..Size : j > Due => Queue[j] = inFlight[j - Due]
      /\ \A i, j \in 1..Size : Queue[i] = Queue[j] => i = j
      /\ Size <= TRANSFER_COUNT /\ TRANSFER_COUNT \in Nat
  BY <1>1, QueueType, PoolAssumption DEF Queued, Types, Due
<1>3. held \in [Transfers -> Seq(1..MaxChunks)]
  <2>1. 1..sent \subseteq 1..MaxChunks
    BY <1>1, BoundsAssumption DEF Types
  <2>2. \A t \in Transfers : held[t] \in Seq(1..MaxChunks)
    BY <2>1, <1>1, ChunksAre, SeqMonotonic
  <2>3. QED
    BY <2>2, <1>1 DEF Types
<1>4. Range(fed) \union cut \union broken \subseteq 1..sent
  <2>1. fed \in Seq(1..sent) /\ cut \subseteq 1..sent /\ broken \subseteq 1..sent
    BY <1>1 DEF Types
  <2>2. Range(fed) = {fed[i] : i \in 1..Len(fed)} /\ \A i \in 1..Len(fed) : fed[i] \in 1..sent
    BY <2>1, RangeEquality, ElementOfSeq
  <2>3. QED
    BY <2>1, <2>2
<1>5. ended \in Seq(Transfers) /\ Len(ended) = Due /\ \A j \in 1..Due : ended[j] = Queue[j]
  <2>1. \A j \in 1..Due : ended[j] = Queue[j]
    BY <1>2
  <2>2. ended \in [1..Due -> Transfers]
    BY <2>1, <1>2
  <2>. HIDE DEF ended
  <2>3. ended \in Seq(Transfers)
    BY <2>2, <1>2, SeqDef
  <2>4. Len(ended) = Due
    BY <2>2, <2>3, <1>2, LenProperties
  <2>5. QED
    BY <2>1, <2>3, <2>4
<1>. HIDE DEF ended
<1>6. /\ Len(all) = Size /\ all \in Seq(Transfers)
      /\ \A j \in 1..Size : all[j] =
           IF j <= Size - Due THEN inFlight[j] ELSE ended[j - (Size - Due)]
  <2>1. inFlight \in Seq(Transfers)
    BY <1>1 DEF Types
  <2>2. Len(inFlight) + Len(ended) = Size
    BY <1>2, <1>5
  <2>3. QED
    BY <2>1, <2>2, <1>2, <1>5, ConcatProperties
<1>. DEFINE q(j) == IF j <= Size - Due THEN j + Due ELSE j - (Size - Due)
<1>7. \A j \in 1..Size : q(j) \in 1..Size /\ all[j] = Queue[q(j)]
  <2>. TAKE j \in 1..Size
  <2>1. CASE j <= Size - Due
    <3>1. j + Due \in 1..Size /\ j + Due > Due /\ j + Due - Due = j
      BY <2>1, <1>2
    <3>2. QED
      BY <2>1, <3>1, <1>2, <1>6
  <2>2. CASE ~(j <= Size - Due)
    <3>1. j - (Size - Due) \in 1..Due /\ j - (Size - Due) \in 1..Size
      BY <2>2, <1>2
    <3>2. QED
      BY <2>2, <3>1, <1>5, <1>6
  <2>3. QED
    BY <2>1, <2>2
<1>8. \A i, j \in 1..Size : q(i) = q(j) => i = j
  BY <1>2
<1>. HIDE DEF q
<1>9. IsInjective(all)
  <2>1. DOMAIN all = 1..Size
    BY <1>2, <1>6
  <2>. HIDE DEF all
  <2>2. ASSUME NEW a \in 1..Size, NEW b \in 1..Size, all[a] = all[b]
        PROVE  a = b
    <3>1. Queue[q(a)] = Queue[q(b)] /\ q(a) \in 1..Size /\ q(b) \in 1..Size
      BY <2>2, <1>7
    <3>2. q(a) = q(b)
      BY <3>1, <1>2
    <3>3. QED
      BY <3>2, <1>8
  <2>3. QED
    BY <2>1, <2>2 DEF IsInjective
<1>10. IsInjective(inFlight \o [i \in DOMAIN completed |-> completed[i].transfer])
  BY <1>9 DEF ended
<1>11. Len(inFlight) + Len(completed) <= TRANSFER_COUNT
  BY <1>2
<1>12. QED
  BY <1>1, <1>3, <1>4, <1>10, <1>11 DEF Types, TypeOK

(* Up to the first chunk that was cut or at which a callback was broken off  *)
(* the file is exact, and complete when the capture returned.                *)
THEOREM AlwaysExactUntilCut == FairSpec => []ExactUntilCut
  BY AlwaysPoolInv, AlwaysYielded, AlwaysReturnsClean, ExactFromInv, PTL DEF FairSpec

(* A running capture lost no transfer but those that ended in error and      *)
(* those whose callback raised or was broken off.                            *)
THEOREM PoolAlwaysKeepsItsSize == FairSpec => []PoolKeepsItsSize
  BY AlwaysPoolInv, AlwaysFilled, SizeFromInv, PTL DEF FairSpec

(* The pool stays in its type, no transfer with the USB stack twice.         *)
THEOREM PoolTypeCorrect == FairSpec => []TypeOK
  BY AlwaysPoolInv, TypeFromInv, PTL DEF FairSpec
=============================================================================
