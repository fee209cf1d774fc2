----------------------------- MODULE PinefeatProbe -----------------------------
(***************************************************************************)
(* tools/probe_pinefeat.py: main() and what it calls, one action per       *)
(* question it asks.  pc names the question: where in the program ask() is *)
(* called.  mem holds the local variables that are still needed.  A reply  *)
(* is what ask() returned: the lines that had arrived, usually one.        *)
(***************************************************************************)
EXTENDS PinefeatPort, SequencesExt, FiniteSetsExt

CONSTANTS
  Arguments,  \* command lines: what to do, --travel and --focus
  Cycles,     \* --cycles
  Vet,        \* --vet
  Scan,       \* --scan, << first, last, step >>
  Send,       \* --send
  Pause,      \* parts of a step a lens travels at least while the probe sleeps
  Polls,      \* polls after which settle()'s deadline has passed
  ENVELOPE

ASSUME ProbeAssumption ==
  /\ Cycles \in Nat \ {0} /\ Vet \in Nat \ {0} /\ Polls \in Nat \ {0, 1}
  /\ Pause \in 1..MaxAdvance /\ ENVELOPE \in Nat
  /\ Scan \in Int \X Int \X (Int \ {0})
  /\ Send \in Seq(Commands) \ {<< >>}

VARIABLES
  args,      \* the command line
  pc,        \* the question asked last or next, or "done"
  mem,       \* local variables
  outcome,   \* "running", a verdict, "ok", or "failed" for every other end
  measured,  \* history: the travels this session's calibrations found
  landings,  \* history: where it said a move ended, with where it did
  caught,    \* history: the moving check of this cycle met a moving lens
  slips      \* history: ... and the retarget after it a lens at rest

program == << args, pc, mem, outcome >>
history == << measured, landings, caught, slips >>
vars == << port, program, history >>

Modes == {"identify", "test", "vet", "calibrate", "aperture", "focus", "scan",
          "send"}
Does(mode) == mode \in args.does

ASSUME ArgumentsAssumption ==
  Arguments \subseteq [does : SUBSET Modes, travel : Int, focus : Int]

-----------------------------------------------------------------------------
(* The dialect, pinefeat.py *)

\* check(): the replies that raise PinefeatError.
Refused(reply) == reply \in {<< ER >>, << NC >>}

\* parse_is_moving(): two lines read at once are not "y".
IsMoving(reply) == reply = << << "y" >> >>

\* parse_position() raises ValueError on anything else.
IsPosition(reply) == Len(reply) = 1 /\ reply[1][1] = "position"
Position(reply) == reply[1][2]

\* move_to()
MoveTo(target) == << "m", IF target < 0 THEN 0 ELSE target >>

IsRange(reply) == Len(reply) = 1 /\ reply[1][1] = "range"

\* Mutant: a controller without lens data passes for a usable one.
UsableUnlessFailed(reply) == reply # << << "range", 0 >> >>

Usable(reply) ==
  reply \notin {<< << "range", NoLens >> >>, << << "range", 0 >> >>}

\* int(raw.rsplit("-", 1)[-1]) raises ValueError on anything else.
HasLastField(reply) ==
  \/ reply[Len(reply)][1] = "range"
  \/ IsPosition(reply)
LastField(reply) == reply[Len(reply)][2]

-----------------------------------------------------------------------------
(* The questions, named for the function that asks *)

\* range(first, last + (1 if step > 0 else -1), step)
Steps ==
  LET span == IF Scan[3] > 0 THEN Scan[2] - Scan[1] ELSE Scan[1] - Scan[2]
      step == IF Scan[3] > 0 THEN Scan[3] ELSE -Scan[3]
  IN  IF span < 0 THEN 0 ELSE span \div step + 1
ScanTarget(n) == Scan[1] + n * Scan[3]

\* Mutant: only ever outward, as far as there is room.
CycleTargetOutward ==
  IF mem.start + args.travel <= mem.high THEN mem.start + args.travel ELSE mem.high

\* Away from the start, and back inside the range; low is always zero.
CycleTarget ==
  IF mem.start + args.travel <= mem.high THEN mem.start + args.travel
  ELSE IF mem.start < args.travel THEN 0
  ELSE mem.start - args.travel

Asked ==
  CASE pc = "identify.version" -> {<< "v" >>}
    [] pc \in {"identify.range", "test.range", "vet.range", "calibrate.range"} ->
         {<< "r" >>}
    [] pc \in {"identify.position", "settle.position", "cycle.position",
               "scan.position"} -> {<< "f" >>}
    [] pc \in {"identify.moving", "settle.moving", "cycle.moving", "vet.moving",
               "calibrate.moving", "scan.moving"} -> {<< "e" >>}
    [] pc \in {"test.calibrate", "vet.calibrate", "calibrate"} -> {<< "c" >>}
    [] pc = "aperture.range" -> {<< "a" >>}
    [] pc = "aperture.set" -> {<< "a", "inside" >>, << "a", "outside" >>}
    [] pc = "cycle.move" -> {MoveTo(CycleTarget)}
    [] pc = "cycle.retarget" -> {MoveTo(mem.commanded)}
    [] pc = "test.return" -> {MoveTo(mem.start)}
    [] pc = "focus.move" -> {MoveTo(args.focus)}
    [] pc = "scan.move" -> {MoveTo(ScanTarget(mem.n))}
    [] pc = "send" -> {Send[mem.n + 1]}
    [] OTHER -> {}

\* Mutant: the answer to the retarget is not checked.
UncheckedRetarget ==
  {"vet.calibrate", "calibrate", "test.calibrate", "aperture.set", "send",
   "cycle.retarget"}

\* Replies that are not checked: an error status is printed, compared or ignored.
Unchecked ==
  {"vet.calibrate", "calibrate", "test.calibrate", "aperture.set", "send"}

\* What raises in the code that follows the question.
Raises(reply) ==
  \/ pc \notin Unchecked /\ Refused(reply)
  \/ /\ pc \in {"identify.position", "settle.position", "cycle.position",
                "scan.position"}
     /\ ~IsPosition(reply)
  \/ pc = "identify.moving" /\ ~IsRange(mem.raw)
  \/ pc = "test.range" /\ Usable(reply) /\ ~IsRange(reply)
  \/ pc = "vet.range" /\ Usable(reply) /\ ~HasLastField(reply)
  \/ /\ pc = "aperture.range"
     /\ reply[1][1] \notin {"apertures", "range"} /\ ~IsPosition(reply)
  \/ pc = "cycle.moving" /\ ~IsMoving(reply)   \* RuntimeError

-----------------------------------------------------------------------------
(* Where the program goes *)

Idle == [raw |-> << >>, after |-> "", high |-> 0, start |-> 0, n |-> 0,
         commanded |-> 0, worst |-> 0, polls |-> 0, seen |-> << >>]

Go(place, m) ==
  /\ pc' = place
  /\ mem' = m
  /\ UNCHANGED << args, outcome, landings >>

\* main() is over; local variables are not needed any more.
End(how) ==
  /\ pc' = "done"
  /\ mem' = Idle
  /\ outcome' = how
  /\ UNCHANGED << args, landings >>

\* settle() and --scan take what f says for where the lens came to rest.
Land(what, commanded, reply) ==
  landings' = landings \union
    {[of |-> what, asked |-> MoveTo(commanded)[2],
      reached |-> cef.target, reported |-> Position(reply)]}

\* abs(a - b)
Off(a, b) == IF a < b THEN b - a ELSE a - b

\* What is asked for first, in the order main() looks.
First ==
  IF Does("vet") THEN "vet.calibrate"
  ELSE IF Does("calibrate") THEN "calibrate"
  ELSE IF Does("aperture") THEN "aperture.range"
  ELSE IF Does("focus") THEN "focus.move"
  ELSE IF Does("scan") THEN IF Steps = 0 THEN "done" ELSE "scan.move"
  ELSE IF Does("send") THEN "send"
  ELSE "identify.version"

\* settle(port), to go on as "after" says.
Settle(after) == [mem EXCEPT !.after = after, !.polls = 0]

-----------------------------------------------------------------------------
(* What follows a question whose reply does not raise *)

\* Mutant: the range that was just read is trusted, nothing is calibrated.
IdentifyTrustsRange(reply) ==
  \/ pc = "identify.version" /\ Go("identify.range", mem)
  \/ pc = "identify.range" /\ Go("identify.position", [mem EXCEPT !.raw = reply])
  \/ pc = "identify.position" /\ Go("identify.moving", mem)
  \/ /\ pc = "identify.moving"
     /\ IF Does("test")
          THEN Go("settle.moving", [Settle("start") EXCEPT !.high = mem.raw[1][2]])
          ELSE End("ok")

Identify(reply) ==
  \/ pc = "identify.version" /\ Go("identify.range", mem)
  \/ pc = "identify.range" /\ Go("identify.position", [mem EXCEPT !.raw = reply])
  \/ pc = "identify.position" /\ Go("identify.moving", mem)
  \/ /\ pc = "identify.moving"
     /\ IF Does("test") THEN Go("test.calibrate", Idle) ELSE End("ok")

\* Only a calibration proves that the lens can be driven.
Calibrate(reply) ==
  \/ /\ pc = "test.calibrate"
     /\ IF reply = << OK >> THEN Go("test.range", mem) ELSE End("failed")
  \/ /\ pc = "test.range"
     /\ IF Usable(reply)
          THEN Go("settle.moving", [Settle("start") EXCEPT !.high = reply[1][2]])
          ELSE End("failed")

\* Mutant: one poll too many.
SettlePollLate(reply) ==
  /\ pc = "settle.moving"
  /\ IF ~IsMoving(reply) THEN Go("settle.position", mem)
     ELSE IF mem.polls < Polls THEN Go(pc, [mem EXCEPT !.polls = @ + 1])
     ELSE End("failed")

\* Mutant: no deadline.
SettlePollForever(reply) ==
  /\ pc = "settle.moving"
  /\ IF ~IsMoving(reply) THEN Go("settle.position", mem)
     ELSE Go(pc, [mem EXCEPT !.polls = 1])

\* Mutant: the position is read whatever the poll says.
SettlePollOnce(reply) == pc = "settle.moving" /\ Go("settle.position", mem)

\* settle(), called from four places; the deadline is looked at before a poll.
SettlePoll(reply) ==
  /\ pc = "settle.moving"
  /\ IF ~IsMoving(reply) THEN Go("settle.position", mem)
     ELSE IF mem.polls + 1 < Polls THEN Go(pc, [mem EXCEPT !.polls = @ + 1])
     ELSE End("failed")

Settled(reply) ==
  LET place == Position(reply)
      off == Off(place, mem.commanded)
  IN  /\ pc = "settle.position"
      /\ UNCHANGED args
      /\ \/ /\ mem.after = "start"
            /\ pc' = "cycle.move"
            /\ mem' = [mem EXCEPT !.start = place, !.polls = 0]
            /\ UNCHANGED << outcome, landings >>
         \/ /\ mem.after = "retarget"
            /\ pc' = "test.return"
            /\ mem' = [mem EXCEPT !.worst = IF off > @ THEN off ELSE @, !.polls = 0]
            /\ Land("halt", mem.commanded, reply)
            /\ UNCHANGED outcome
         \/ /\ mem.after = "return" /\ mem.n + 1 < Cycles
            /\ pc' = "cycle.move"
            /\ mem' = [mem EXCEPT !.n = @ + 1, !.polls = 0, !.commanded = 0]
            /\ Land("move", mem.start, reply)
            /\ UNCHANGED outcome
         \/ /\ mem.after = "return" /\ mem.n + 1 = Cycles
            /\ pc' = "done" /\ mem' = Idle
            /\ outcome' = IF mem.worst <= ENVELOPE THEN "VIABLE" ELSE "OUT OF ENVELOPE"
            /\ Land("move", mem.start, reply)
         \/ /\ mem.after = "focus"
            /\ pc' = "done" /\ mem' = Idle
            /\ outcome' = "ok"
            /\ Land("move", args.focus, reply)

\* Mutant: the way back is not waited for.
CycleLeavesAtOnce(reply) ==
  \/ pc = "cycle.move" /\ Go("cycle.moving", mem)
  \/ pc = "cycle.moving" /\ Go("cycle.position", mem)
  \/ /\ pc = "cycle.position"
     /\ Go("cycle.retarget", [mem EXCEPT !.commanded = Position(reply)])
  \/ pc = "cycle.retarget" /\ Go("settle.moving", Settle("retarget"))
  \/ pc = "test.return" /\ Go("settle.position", Settle("return"))

\* retarget_cycle(), and the way back after it.
Cycle(reply) ==
  \/ pc = "cycle.move" /\ Go("cycle.moving", mem)
  \/ pc = "cycle.moving" /\ Go("cycle.position", mem)
  \/ /\ pc = "cycle.position"
     /\ Go("cycle.retarget", [mem EXCEPT !.commanded = Position(reply)])
  \/ pc = "cycle.retarget" /\ Go("settle.moving", Settle("retarget"))
  \/ pc = "test.return" /\ Go("settle.moving", Settle("return"))

\* A loop that polls until the lens is at rest, however long that takes.
Poll(reply, place) ==
  IF IsMoving(reply) THEN Go(pc, [mem EXCEPT !.polls = 1])
  ELSE Go(place, [mem EXCEPT !.polls = 0])

\* share < 0.01, without the division.
Reproducible(seen) ==
  LET all == {seen[k] : k \in DOMAIN seen}
  IN  100 * Len(seen) * (Max(all) - Min(all)) < FoldSeq(+, 0, seen)

Verdict(seen) ==
  IF (\A k \in DOMAIN seen : seen[k] # 0) /\ Reproducible(seen)
    THEN "USABLE" ELSE "UNUSABLE"

VetTurn(reply) ==
  \/ pc = "vet.calibrate" /\ Go("vet.moving", mem)
  \/ pc = "vet.moving" /\ Poll(reply, "vet.range")
  \/ /\ pc = "vet.range"
     /\ LET seen == Append(mem.seen, IF Usable(reply) THEN LastField(reply) ELSE 0)
        IN  IF Len(seen) < Vet THEN Go("vet.calibrate", [mem EXCEPT !.seen = seen])
            ELSE End(Verdict(seen))

\* --calibrate, --aperture and --focus may be given together.
Bench(reply) ==
  \/ pc = "calibrate" /\ Go("calibrate.moving", mem)
  \/ pc = "calibrate.moving" /\ Poll(reply, "calibrate.range")
  \/ /\ pc = "calibrate.range"
     /\ IF Does("aperture") THEN Go("aperture.range", mem)
        ELSE IF Does("focus") THEN Go("focus.move", mem) ELSE End("ok")
  \/ pc = "aperture.range" /\ Go("aperture.set", mem)
  \/ /\ pc = "aperture.set"
     /\ IF Does("focus") THEN Go("focus.move", mem) ELSE End("ok")
  \/ pc = "focus.move" /\ Go("settle.moving", Settle("focus"))

ScanTurn(reply) ==
  \/ pc = "scan.move" /\ Go("scan.moving", mem)
  \/ pc = "scan.moving" /\ Poll(reply, "scan.position")
  \/ /\ pc = "scan.position"
     /\ UNCHANGED args
     /\ Land("move", ScanTarget(mem.n), reply)
     /\ IF mem.n + 1 < Steps
          THEN pc' = "scan.move" /\ mem' = [mem EXCEPT !.n = @ + 1] /\ UNCHANGED outcome
          ELSE pc' = "done" /\ mem' = Idle /\ outcome' = "ok"

\* --send prints a reply or a timeout and goes on.
Sent ==
  /\ pc = "send"
  /\ IF mem.n + 1 < Len(Send) THEN Go(pc, [mem EXCEPT !.n = @ + 1]) ELSE End("ok")

Resume(reply) ==
  \/ Identify(reply) \/ Calibrate(reply) \/ SettlePoll(reply) \/ Settled(reply)
  \/ Cycle(reply) \/ VetTurn(reply) \/ Bench(reply) \/ ScanTurn(reply) \/ Sent

-----------------------------------------------------------------------------
(* Specification *)

Start ==
  /\ args \in Arguments
  /\ pc = First
  /\ mem = Idle
  /\ outcome = IF pc = "done" THEN "ok" ELSE "running"
  /\ measured = << >> /\ landings = {} /\ caught = FALSE /\ slips = 0

Init == Open /\ Start

Write ==
  /\ \E c \in Asked : Ask(c)
  /\ UNCHANGED << program, history >>

\* A question asked after a sleep.
Slept ==
  \/ pc = "cycle.moving"
  \/ mem.polls > 0 /\ pc # "settle.position"
  \/ pc = "scan.move" /\ mem.n > 0

Served ==
  \E d \in (IF Slept THEN Pause ELSE 0)..MaxAdvance :
    /\ Serve(d)
    /\ measured' = IF Head(unserved) = << "c" >> /\ cef.lens = "fitted"
                     THEN Append(measured, cef'.travel) ELSE measured
    /\ caught' = IF pc = "cycle.moving" THEN Moving(cef')
                  ELSE IF pc = "done" THEN FALSE ELSE caught
    /\ slips' = IF pc = "cycle.retarget" /\ caught /\ Whole(cef'.position) = cef.target
                  THEN slips + 1 ELSE slips
    /\ UNCHANGED << program, landings >>

Read ==
  \E k \in 1..Len(line) :
    /\ Receive(k)
    /\ IF Raises(Reply(k)) THEN End("failed") ELSE Resume(Reply(k))
    /\ UNCHANGED << measured, caught, slips >>

\* Only --send catches the TimeoutError and goes on; it does not catch the
\* ValueError of a select() whose time is up before it is called.
GiveUp ==
  /\ TimeOut
  /\ (pc = "send" /\ Sent) \/ End("failed")
  /\ UNCHANGED << measured, caught, slips >>

Probe == Write \/ Read \/ GiveUp

Next == Probe \/ Served

\* The operating system runs the probe; the controller may fall silent.
Spec == Init /\ [][Next]_vars /\ WF_vars(Probe)

-----------------------------------------------------------------------------
(* Properties *)

TypeOK ==
  /\ cef \in Controller /\ waiting \in BOOLEAN /\ timely \in BOOLEAN
  /\ Len(unserved) <= 1 + Len(Send) /\ Len(line) <= 1 + Len(Send)
  /\ args \in Arguments
  /\ mem \in [raw : {mem.raw}, after : {"", "start", "retarget",
                "return", "focus"}, high : Nat, start : Nat, n : Nat,
                commanded : Nat, worst : Nat, polls : 0..(Polls - 1), seen : Seq(Nat)]

(* Whatever an earlier session left under way, "VIABLE: it accepts a         *)
(* retarget mid-move" is printed of a controller that refuses them only if   *)
(* every move came to rest by itself after its moving check and before its   *)
(* retarget was read.                                                        *)
ViableIsEarned == outcome = "VIABLE" /\ ~cef.retargets => slips = Cycles

(* A verdict of --vet rests on calibrations: "USABLE" means that the lens    *)
(* can be driven and that the travels this session measured agree.           *)
UsableIsEarned ==
  outcome = "USABLE" =>
    cef.lens = "fitted" /\ Len(measured) = Vet /\ Reproducible(measured)

(* What the probe measures is where the lens came to rest, wherever that is: *)
(* a position it reports as the end of a move is one unless an answer came   *)
(* too late, though it is asked for after the answer that the lens is at     *)
(* rest; and whatever an earlier session left under way, "VIABLE" is printed *)
(* just when every halt came to rest within the envelope of the place it was *)
(* commanded at.                                                             *)
HaltsAreMeasured ==
  /\ timely => \A l \in landings : l.reported = l.reached
  /\ outcome \in {"VIABLE", "OUT OF ENVELOPE"} =>
       (outcome = "VIABLE" <=>
          \A l \in landings : l.of = "halt" => Off(l.reached, l.asked) <= ENVELOPE)

(* A travel that fits the range leaves room to move wherever the lens is,    *)
(* and the move stays inside the range; a longer one need not, and then the  *)
(* advice to use a still longer one does not help.                           *)
RoomToMove ==
  pc = "cycle.move" /\ args.travel \in 1..mem.high /\ mem.start <= mem.high =>
    CycleTarget \in 0..mem.high /\ CycleTarget # mem.start

(* A session that neither vets, calibrates, focuses, scans nor sends moves   *)
(* nothing but a lens whose calibration it saw succeed, and moves it within  *)
(* the travel the calibration found: the retarget test.                      *)
TestMovesOnlyWhatItCan ==
  [][First = "identify.version" /\ cef'.target # cef.target =>
       /\ cef.lens = "fitted" /\ measured # << >>
       /\ cef'.target \in 0..cef.travel]_vars

(* A test that reaches its verdict has put the lens back, as near as a move   *)
(* takes it, and it has come to rest there.                                   *)
VerdictPutsLensBack ==
  [][outcome = "running" /\ outcome' \in {"VIABLE", "OUT OF ENVELOPE"} =>
       ~Moving(cef) /\ cef.target \in Landings(mem.start, cef.travel)]_vars

\* Loops that poll without a deadline.
Untimed == {"vet", "calibrate", "scan"}

(* Every session ends, also when the controller falls silent, answers too    *)
(* late or the lens jams; only the loops without a deadline need a lens that *)
(* comes to rest.                                                            *)
SessionEnds ==
  (cef.jams => args.does \intersect Untimed = {}) => <>(pc = "done")
=============================================================================
