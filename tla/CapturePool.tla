------------------------------ MODULE CapturePool ------------------------------
(***************************************************************************)
(* One bus capture after another (capture.capture): a pool of asynchronous *)
(* transfers on the analyzer's bulk endpoint, their callback on_transfer,  *)
(* and a program that can be interrupted or killed anywhere.  Everything   *)
(* runs in one thread: callbacks run inside the calls that handle events,  *)
(* and a Ctrl-C that falls into a callback ends the callback, not the      *)
(* capture.  The stream is a sequence of numbered chunks, each of which    *)
(* completes at least one packet; the decoder itself is StreamDecoder's.   *)
(***************************************************************************)
EXTENDS Integers, Sequences, SequencesExt

CONSTANTS
  TRANSFER_COUNT,  \* transfers in the pool
  Timed,           \* whether a duration was given
  MaxChunks,       \* bound: chunks the analyzer sends in a session
  MaxErrors,       \* bound: transfers that end in error in a session
  MaxBreaks,       \* bound: callbacks that are broken off in a session
  MaxSessions      \* bound: captures

ASSUME PoolAssumption == TRANSFER_COUNT \in Nat \ {0} /\ Timed \in BOOLEAN
ASSUME BoundsAssumption ==
  /\ MaxChunks \in Nat /\ MaxErrors \in Nat
  /\ MaxBreaks \in Nat /\ MaxSessions \in Nat \ {0}

VARIABLES
  analyzer,   \* "stopped", "capturing", "overrun" or "gone" (unplugged)
  pc,         \* where capture() is; it is over in one of Exits
  running,    \* the flag the callback looks at
  next,       \* the loop variable over the pool
  inFlight,   \* transfers the USB stack has, in submission order
  held,       \* the chunks in each transfer's buffer
  completed,  \* ended transfers whose callback has not run
  sent,       \* chunks the analyzer has put on the endpoint
  fed,        \* the chunks the decoder was given, in order
  taken,      \* how many of them it has yielded; the others are in its buffer
  stuck,      \* its buffer begins with a length no packet has
  failure,    \* failure is not empty, or an exception is on its way out
  gaveUp,     \* the deadline of the drain passed
  cut,        \* history: chunks of which the decoder did not get all
  broken,     \* history: chunks at which a callback was broken off
  spent,      \* history: transfers whose end or whose callback went wrong
  abandoned,  \* history: killed or interrupted since the analyzer was stopped
  errors, breaks, sessions

poolVars == << inFlight, held, completed, spent >>
fileVars == << fed, taken, stuck, cut, broken >>
flagVars == << running, failure, gaveUp, abandoned >>
countVars == << errors, breaks, sessions >>
vars == << analyzer, pc, next, poolVars, sent, fileVars, flagVars, countVars >>

Transfers == 1..TRANSFER_COUNT
\* "returned" and "raised" went through the finally block; "refused" and
\* "interrupted" are exceptions outside of it or in it, "killed" is no exit.
Exits == {"returned", "raised", "refused", "interrupted", "killed"}
InWith == {"submitting", "loop", "cancelling", "drain"}   \* the file is open

Ended(t, status) == [transfer |-> t, status |-> status]
ChunksIn(t) == Range(held[t])
Submitted ==
  Range(inFlight) \union {completed[i].transfer : i \in DOMAIN completed}

NewSession ==
  /\ pc' = "start" /\ running' = FALSE /\ next' = 1
  /\ inFlight' = << >> /\ held' = [t \in Transfers |-> << >>] /\ completed' = << >>
  /\ sent' = 0 /\ fed' = << >> /\ taken' = 0 /\ stuck' = FALSE
  /\ failure' = FALSE /\ gaveUp' = FALSE
  /\ cut' = {} /\ broken' = {} /\ spent' = {} /\ errors' = 0 /\ breaks' = 0

Init ==
  /\ analyzer \in {"stopped", "overrun"}
  /\ pc = "start" /\ running = FALSE /\ next = 1
  /\ inFlight = << >> /\ held = [t \in Transfers |-> << >>] /\ completed = << >>
  /\ sent = 0 /\ fed = << >> /\ taken = 0 /\ stuck = FALSE
  /\ failure = FALSE /\ gaveUp = FALSE
  /\ cut = {} /\ broken = {} /\ spent = {} /\ errors = 0 /\ breaks = 0
  /\ abandoned = FALSE /\ sessions = 1

-----------------------------------------------------------------------------
(* The analyzer and the USB stack *)

\* A chunk goes to the transfer submitted first; a full buffer or a short
\* packet ends the transfer, anything else leaves it waiting for more.
Receive ==
  /\ analyzer = "capturing" /\ inFlight # << >> /\ sent < MaxChunks
  /\ LET t == Head(inFlight)
     IN  /\ held' = [held EXCEPT ![t] = Append(@, sent + 1)]
         /\ \/ /\ inFlight' = Tail(inFlight)
               /\ completed' = Append(completed, Ended(t, "completed"))
            \/ UNCHANGED << inFlight, completed >>
  /\ sent' = sent + 1
  /\ UNCHANGED << analyzer, pc, next, spent, fileVars, flagVars, countVars >>

\* A zero-length packet ends the transfer with what it has, maybe nothing.
EndShort ==
  /\ analyzer = "capturing" /\ inFlight # << >>
  /\ inFlight' = Tail(inFlight)
  /\ completed' = Append(completed, Ended(Head(inFlight), "completed"))
  /\ UNCHANGED << analyzer, pc, next, held, spent, sent, fileVars, flagVars, countVars >>

EndInError ==
  /\ inFlight # << >> /\ errors < MaxErrors
  /\ completed' = Append(completed, Ended(Head(inFlight), "error"))
  /\ cut' = cut \union ChunksIn(Head(inFlight))
  /\ inFlight' = Tail(inFlight)
  /\ errors' = errors + 1
  /\ UNCHANGED << analyzer, pc, next, held, spent, sent, fed, taken, stuck, broken,
                  flagVars, breaks, sessions >>

Overrun ==
  /\ analyzer = "capturing"
  /\ analyzer' = "overrun"
  /\ UNCHANGED << pc, next, poolVars, sent, fileVars, flagVars, countVars >>

Unplug ==
  /\ analyzer # "gone" /\ pc \notin Exits
  /\ analyzer' = "gone"
  /\ completed' =
       completed \o [i \in DOMAIN inFlight |-> Ended(inFlight[i], "no_device")]
  /\ cut' = cut \union UNION {ChunksIn(t) : t \in Range(inFlight)}
  /\ inFlight' = << >>
  /\ UNCHANGED << pc, next, held, spent, sent, fed, taken, stuck, broken,
                  flagVars, countVars >>

-----------------------------------------------------------------------------
(* on_transfer *)

Submit(t) == inFlight' = Append(inFlight, t)

\* Nothing submits the transfer again.
Retire(t) == spent' = spent \union {t} /\ UNCHANGED << inFlight, failure >>

\* Mutant: the loop variable of the enclosing scope, not the argument.
ResubmitLateBound(t) ==
  \/ ~running /\ UNCHANGED << inFlight, spent, failure >>
  \/ running /\ analyzer # "gone" /\ Submit(TRANSFER_COUNT) /\ UNCHANGED << spent, failure >>
  \/ running /\ analyzer = "gone" /\ failure' = TRUE /\ UNCHANGED << inFlight, spent >>

\* Mutant: an empty transfer is not worth resubmitting.
ResubmitUnlessEmpty(t) ==
  \/ (~running \/ held[t] = << >>) /\ UNCHANGED << inFlight, spent, failure >>
  \/ running /\ held[t] # << >> /\ analyzer # "gone" /\ Submit(t) /\ UNCHANGED << spent, failure >>
  \/ running /\ analyzer = "gone" /\ failure' = TRUE /\ UNCHANGED << inFlight, spent >>

\* if running: ... with the submit that fails once the analyzer is gone.
Resubmit(t) ==
  \/ ~running /\ UNCHANGED << inFlight, spent, failure >>
  \/ running /\ analyzer # "gone" /\ Submit(t) /\ UNCHANGED << spent, failure >>
  \/ running /\ analyzer = "gone" /\ failure' = TRUE /\ UNCHANGED << inFlight, spent >>

\* Bytes are missing somewhere before the n-th chunk the decoder was given.
OutOfStep(n) == \E d \in cut : d < fed'[n]

\* Mutant: a transfer is decoded only while the capture is running.
DecodeOnlyRunning(t) == fed' = IF running THEN fed \o held[t] ELSE fed

\* _buffer.extend(chunk)
Decode(t) == fed' = fed \o held[t]

\* Once the with block has closed the file, the first write raises.
Reaches(n) == pc \in InWith \/ n <= taken + 1

\* Every record the decoder has is yielded and, if there are any, written.
WriteAll(t) ==
  /\ ~stuck /\ Reaches(Len(fed') + 1)
  /\ taken' = Len(fed')
  /\ Resubmit(t)
  /\ UNCHANGED << stuck, broken >>

\* StreamDesyncError goes no further than the USB stack's call of the callback,
\* and every later feed() finds the same length and raises it again.
Desync(t) ==
  /\ \/ stuck /\ UNCHANGED taken
     \/ /\ ~stuck
        /\ \E n \in (taken + 1)..Len(fed') : Reaches(n) /\ OutOfStep(n) /\ taken' = n - 1
  /\ stuck' = TRUE
  /\ Retire(t)
  /\ UNCHANGED broken

\* The callback ends at the n-th chunk, which by then is in the file whole, in
\* part or not at all, and in the last case maybe still in the decoder.
BreakAt(n) ==
  /\ broken' = broken \union {fed'[n]}
  /\ taken' \in {n - 1, n}

WriteToClosed(t) ==
  /\ ~stuck /\ pc \notin InWith /\ taken < Len(fed')
  /\ BreakAt(taken + 1) /\ taken' = taken + 1
  /\ Retire(t)
  /\ UNCHANGED stuck

OnTransfer(t, status) ==
  \/ status # "completed" /\ Retire(t) /\ UNCHANGED << fed, taken, stuck, broken >>
  \/ /\ status = "completed" /\ Decode(t)
     /\ WriteAll(t) \/ Desync(t) \/ WriteToClosed(t)

\* The callback that is run next, of transfer t, takes it from its buffer.
Return(t) ==
  /\ pc \in {"loop", "drain", "stop"} /\ completed # << >>
  /\ t = Head(completed).transfer
  /\ completed' = Tail(completed)
  /\ held' = [held EXCEPT ![t] = << >>]
  /\ UNCHANGED << analyzer, pc, next, sent, running, gaveUp, abandoned, errors, sessions >>

\* handleEventsTimeout, and controlWrite while it waits, run one callback.
Callback ==
  \E t \in Transfers :
    /\ Return(t)
    /\ OnTransfer(t, Head(completed).status)
    /\ UNCHANGED << cut, breaks >>

\* Ctrl-C inside the callback, a write that fails or an on_event that raises:
\* before the decoder has the bytes, at a record, or after the last of them.
BreakOff ==
  \E t \in Transfers :
    /\ Return(t) /\ Head(completed).status = "completed"
    /\ \/ cut' = cut \union ChunksIn(t) /\ UNCHANGED << fed, taken, broken >>
       \/ /\ ~stuck /\ Decode(t) /\ UNCHANGED cut
          /\ \/ \E n \in (taken + 1)..Len(fed') : Reaches(n) /\ BreakAt(n)
             \/ Reaches(Len(fed') + 1) /\ taken' = Len(fed') /\ UNCHANGED broken
    /\ Retire(t)
    /\ breaks < MaxBreaks /\ breaks' = breaks + 1
    /\ UNCHANGED stuck

-----------------------------------------------------------------------------
(* capture() *)

\* openByVendorIDAndProductID and claimInterface.
Claim ==
  /\ pc = "start"
  /\ \/ pc' = "claimed" /\ analyzer # "gone"
     \/ pc' = "refused"
  /\ UNCHANGED << analyzer, next, poolVars, sent, fileVars, flagVars, countVars >>

\* Mutant: the capture that may still be on is not stopped first.
DisableSkipped ==
  /\ pc = "claimed" /\ analyzer # "gone"
  /\ pc' = "disabled"
  /\ UNCHANGED << analyzer, next, poolVars, sent, fileVars, flagVars, countVars >>

Disable ==
  /\ pc = "claimed" /\ analyzer # "gone"
  /\ analyzer' = "stopped" /\ abandoned' = FALSE
  /\ pc' = "disabled"
  /\ UNCHANGED << next, poolVars, sent, fileVars, running, failure, gaveUp, countVars >>

\* Enabling is a silent no-op unless the analyzer is stopped.
Enable ==
  /\ pc = "disabled" /\ analyzer # "gone"
  /\ analyzer' = IF analyzer = "stopped" THEN "capturing" ELSE analyzer
  /\ pc' = "enabled" /\ running' = TRUE
  /\ UNCHANGED << next, poolVars, sent, fileVars, failure, gaveUp, abandoned, countVars >>

RequestFails ==
  /\ pc \in {"claimed", "disabled"} /\ analyzer = "gone"
  /\ pc' = "refused"
  /\ UNCHANGED << analyzer, next, poolVars, sent, fileVars, flagVars, countVars >>

\* An exception on its way to the finally block.
Fail == pc' = "stop" /\ failure' = TRUE

\* Mutant: the file is opened before the try, where nothing stops the analyzer.
OpenWriterOutside ==
  /\ pc = "enabled"
  /\ pc' \in {"submitting", "refused"}
  /\ UNCHANGED << analyzer, next, poolVars, sent, fileVars, flagVars, countVars >>

OpenWriter ==
  /\ pc = "enabled"
  /\ \/ pc' = "submitting" /\ UNCHANGED failure
     \/ Fail
  /\ UNCHANGED << analyzer, next, poolVars, sent, fileVars,
                  running, gaveUp, abandoned, countVars >>

SubmitPool ==
  /\ pc = "submitting"
  /\ IF next > TRANSFER_COUNT
       THEN pc' = "loop" /\ UNCHANGED << next, inFlight, failure >>
     ELSE IF analyzer = "gone"
       THEN Fail /\ UNCHANGED << next, inFlight >>
     ELSE Submit(next) /\ next' = next + 1 /\ UNCHANGED << pc, failure >>
  /\ UNCHANGED << analyzer, held, completed, spent, sent, fileVars,
                  running, gaveUp, abandoned, countVars >>

BeginCancel ==
  /\ pc' = "cancelling" /\ running' = FALSE /\ next' = 1
  /\ UNCHANGED << analyzer, poolVars, sent, fileVars, failure, gaveUp, abandoned, countVars >>

\* Mutant: the duration is not looked at.
LeaveLoopOnFailure == pc = "loop" /\ failure /\ BeginCancel

LeaveLoop == pc = "loop" /\ (Timed \/ failure) /\ BeginCancel

\* cancel() of a transfer that has ended raises if its callback is still due.
Cancel ==
  /\ pc = "cancelling" /\ next <= TRANSFER_COUNT
  /\ \/ /\ \E k \in DOMAIN inFlight :
             /\ inFlight[k] = next
             /\ inFlight' = RemoveAt(inFlight, k)
             /\ completed' = Append(completed, Ended(next, "cancelled"))
             /\ cut' = cut \union ChunksIn(next)
        /\ next' = next + 1 /\ UNCHANGED << pc, failure >>
     \/ /\ next \notin Range(inFlight) /\ UNCHANGED << inFlight, completed, cut >>
        /\ \/ next' = next + 1 /\ UNCHANGED << pc, failure >>
           \/ next \in Submitted /\ Fail /\ UNCHANGED next
  /\ UNCHANGED << analyzer, held, spent, sent, fed, taken, stuck, broken,
                  running, gaveUp, abandoned, countVars >>

BeginDrain ==
  /\ pc = "cancelling" /\ next > TRANSFER_COUNT
  /\ pc' = "drain"
  /\ UNCHANGED << analyzer, next, poolVars, sent, fileVars, flagVars, countVars >>

\* Either nothing is submitted any more or the second is over.
EndDrain ==
  /\ pc = "drain"
  /\ gaveUp' = (Submitted # {})
  /\ pc' = "stop"
  /\ UNCHANGED << analyzer, next, poolVars, sent, fileVars,
                  running, failure, abandoned, countVars >>

\* The finally block, then raise or return.
Stop ==
  /\ pc = "stop"
  /\ analyzer' = IF analyzer = "gone" THEN "gone" ELSE "stopped"
  /\ pc' = IF failure \/ analyzer = "gone" THEN "raised" ELSE "returned"
  /\ UNCHANGED << next, poolVars, sent, fileVars, flagVars, countVars >>

\* Ctrl-C outside of a callback.  The loop catches it, from the rest of the try
\* it goes to the finally block, as does an error of handleEventsTimeout; nothing
\* catches it elsewhere.
Interrupt ==
  \/ pc = "loop" /\ BeginCancel
  \/ /\ pc \in InWith /\ Fail
     /\ UNCHANGED << analyzer, next, poolVars, sent, fileVars,
                     running, gaveUp, abandoned, countVars >>
  \/ /\ pc \in {"start", "claimed", "disabled", "enabled", "stop"}
     /\ pc' = "interrupted"
     /\ abandoned' = (abandoned \/ pc \in {"enabled", "stop"})
     /\ UNCHANGED << analyzer, next, poolVars, sent, fileVars,
                     running, failure, gaveUp, countVars >>

Kill ==
  /\ pc \notin Exits
  /\ pc' = "killed"
  /\ abandoned' = (abandoned \/ pc \in InWith \union {"enabled", "stop"})
  /\ UNCHANGED << analyzer, next, poolVars, sent, fileVars,
                  running, failure, gaveUp, countVars >>

\* The next capture; an analyzer that was unplugged starts up stopped.
Again ==
  /\ pc \in Exits /\ sessions < MaxSessions
  /\ sessions' = sessions + 1
  /\ analyzer' = IF analyzer = "gone" THEN "stopped" ELSE analyzer
  /\ NewSession
  /\ UNCHANGED abandoned

Program ==
  \/ Claim \/ Disable \/ Enable \/ RequestFails \/ OpenWriter \/ SubmitPool
  \/ LeaveLoop \/ Cancel \/ BeginDrain \/ EndDrain \/ Stop

Next ==
  \/ Receive \/ EndShort \/ EndInError \/ Overrun \/ Unplug
  \/ Callback \/ BreakOff \/ Program
  \/ Interrupt \/ Kill \/ Again

Spec == Init /\ [][Next]_vars

\* The program runs on and events are handled; the bus may be idle for ever.
FairSpec == Spec /\ WF_vars(Program) /\ WF_vars(Callback)

-----------------------------------------------------------------------------
(* Properties *)

(* Every variable stays in its type, and no transfer is with the USB stack   *)
(* twice: the callback resubmits only what it was called for.                *)
TypeOK ==
  /\ analyzer \in {"stopped", "capturing", "overrun", "gone"}
  /\ next \in 1..(TRANSFER_COUNT + 1)
  /\ held \in [Transfers -> Seq(1..MaxChunks)]
  /\ Range(fed) \union cut \union broken \subseteq 1..sent
  /\ taken \in 0..Len(fed) /\ spent \subseteq Transfers
  /\ Len(inFlight) + Len(completed) <= TRANSFER_COUNT
  /\ IsInjective(inFlight \o [i \in DOMAIN completed |-> completed[i].transfer])
  /\ {running, stuck, failure, gaveUp, abandoned} \subseteq BOOLEAN

(* The file is exact up to the first chunk that was in a transfer cut short  *)
(* or at which a callback was broken off: chunks are written in the order    *)
(* sent and without a gap, and a capture that returns has written all of     *)
(* them unless its drain gave up.                                            *)
ExactUntilCut ==
  LET intact(c) == \A d \in cut \union broken : c < d
  IN  /\ \A i \in 1..taken : intact(fed[i]) => fed[i] = i
      /\ \A i, j \in 1..taken : i < j => fed[i] < fed[j]
      /\ pc = "returned" /\ ~gaveUp =>
           \A c \in 1..sent : intact(c) => \E i \in 1..taken : fed[i] = c

(* While the capture runs, the transfers that are missing from the pool are  *)
(* those that ended in error and those whose callback raised or was broken   *)
(* off: each of them is lost for good, and no other ever is.                 *)
PoolKeepsItsSize == pc = "loop" /\ ~failure => Submitted = Transfers \ spent

(* Whatever state an earlier capture left the analyzer in, crashed or not,   *)
(* enabling it is never the silent no-op.                                    *)
EnableTakesEffect == [][Enable => analyzer' = "capturing"]_vars

(* "Always stop the analyzer, even on error": whatever fails, a capture that  *)
(* is over leaves it capturing only if it was killed, or if Ctrl-C came      *)
(* between the enable and the try or into the finally block.                 *)
CapturingOnlyIfAbandoned == pc \in Exits /\ analyzer = "capturing" => abandoned

(* A capture that was given a duration comes to an end.                      *)
TimedCaptureEnds == Timed => (pc = "loop" ~> pc \in Exits)

(* "device unplugged mid-capture": a capture without a duration notices that *)
(* the analyzer is gone and ends.                                            *)
UnplugIsNoticed == pc = "loop" /\ analyzer = "gone" ~> pc # "loop"
=============================================================================
