-------------------------- MODULE PinefeatProbeProofs --------------------------
(***************************************************************************)
(* The probe for every controller, script, command line and timing.  First *)
(* the line: it carries no identifiers, and still every answer belongs to  *)
(* its question until one comes too late.  Then the program: one invariant *)
(* in layers -- the types and what is under way (Base), being in step with *)
(* the controller (SyncOK), being on course (CourseOK) -- on which what    *)
(* the retarget test says (DrivingOK, SlipsOK, TravelOK) and what --vet    *)
(* says (VetSyncOK, VetSeenOK) rest.                                       *)
(***************************************************************************)
EXTENDS PinefeatProbe, SequenceTheorems, TLAPS

-----------------------------------------------------------------------------
(* The line *)

\* What AnswersBelong rests on, spelled out by where the one command is.
HalfDuplex ==
  timely =>
    \/ ~waiting /\ unserved = << >> /\ line = << >>
    \/ waiting /\ unserved = << command >> /\ line = << >>
    \/ /\ waiting /\ unserved = << >>
       /\ Len(line) = 1 /\ line = << [of |-> command, text |-> line[1].text] >>

(* One command under way is one command in the queue or one answer on the    *)
(* line, never both.                                                         *)
LEMMA HalfDuplexSuffices == HalfDuplex => AnswersBelong
<1> SUFFICES ASSUME HalfDuplex, timely
             PROVE  UnderWay = IF waiting THEN << command >> ELSE << >>
  BY DEF AnswersBelong
<1> DEFINE of == [k \in DOMAIN line |-> line[k].of]
<1>1. CASE ~waiting /\ unserved = << >> /\ line = << >>
  <2>1. of = << >>
    BY <1>1
  <2> QED
    BY <1>1, <2>1 DEF UnderWay
<1>2. CASE waiting /\ unserved = << command >> /\ line = << >>
  <2>1. of = << >>
    BY <1>2
  <2>2. << >> \o << command >> = << command >>
    OBVIOUS
  <2> QED
    BY <1>2, <2>1, <2>2 DEF UnderWay
<1>3. CASE /\ waiting /\ unserved = << >>
           /\ Len(line) = 1 /\ line = << [of |-> command, text |-> line[1].text] >>
  <2> DEFINE text == line[1].text
  <2>1. line = << [of |-> command, text |-> text] >>
    BY <1>3
  <2> HIDE DEF text
  <2>2. of = << command >>
    BY <2>1
  <2>3. << command >> \o << >> = << command >>
    OBVIOUS
  <2> QED
    BY <1>3, <2>2, <2>3 DEF UnderWay
<1> QED
  BY <1>1, <1>2, <1>3 DEF HalfDuplex

(* ask() writes only when nothing is under way.                              *)
LEMMA AskKeeps ==
  ASSUME HalfDuplex, NEW c, Ask(c)
  PROVE  HalfDuplex'
<1> SUFFICES ASSUME timely
             PROVE  waiting' /\ unserved' = << command' >> /\ line' = << >>
  BY DEF HalfDuplex, Ask
<1>1. unserved = << >> /\ line = << >>
  BY DEF HalfDuplex, Ask
<1>2. Append(<< >>, c) = << c >>
  OBVIOUS
<1> QED
  BY <1>1, <1>2 DEF Ask

(* The controller turns the one command into its answer.                     *)
LEMMA ServeKeeps ==
  ASSUME HalfDuplex, NEW d, Serve(d)
  PROVE  HalfDuplex'
<1> DEFINE c == Advanced(cef, d)
           text == Answer(c, Head(unserved))
<1>1. /\ unserved # << >>
      /\ line' = Append(line, [of |-> Head(unserved), text |-> text])
      /\ unserved' = Tail(unserved)
      /\ UNCHANGED << command, waiting, timely >>
  BY DEF Serve
<1> HIDE DEF text
<1> SUFFICES ASSUME timely
             PROVE  /\ waiting' /\ unserved' = << >>
                    /\ Len(line') = 1
                    /\ line' = << [of |-> command', text |-> line'[1].text] >>
  BY <1>1 DEF HalfDuplex
<1>2. waiting /\ unserved = << command >> /\ line = << >>
  BY <1>1 DEF HalfDuplex
<1> QED
  BY <1>1, <1>2

(* A reply is the one answer there is, and leaves nothing behind.            *)
LEMMA ReceiveKeeps ==
  ASSUME HalfDuplex, NEW k, Receive(k)
  PROVE  HalfDuplex'
<1> SUFFICES ASSUME timely
             PROVE  ~waiting' /\ unserved' = << >> /\ line' = << >>
  BY DEF HalfDuplex, Receive
<1>1. /\ unserved = << >> /\ Len(line) = 1
      /\ line = << [of |-> command, text |-> line[1].text] >>
  BY DEF HalfDuplex, Receive
<1>2. k = 1
  BY <1>1 DEF Receive
<1> QED
  BY <1>1, <1>2 DEF Receive

(* After a timeout nothing is claimed any more.                              *)
LEMMA TimeOutKeeps ==
  ASSUME HalfDuplex, TimeOut
  PROVE  HalfDuplex'
BY DEF HalfDuplex, TimeOut

(* Until an answer comes too late, nothing is under way between the probe    *)
(* and the controller but the question being asked.                          *)
THEOREM AnswersAlwaysBelong == Spec => []AnswersBelong
<1>1. Init => HalfDuplex
  BY DEF Init, Open, HalfDuplex
<1>2. HalfDuplex /\ [Next]_vars => HalfDuplex'
  <2> SUFFICES ASSUME HalfDuplex, [Next]_vars PROVE HalfDuplex'
    OBVIOUS
  <2>1. CASE Write
    BY <2>1, AskKeeps DEF Write
  <2>2. CASE Served
    BY <2>2, ServeKeeps DEF Served
  <2>3. CASE Read
    BY <2>3, ReceiveKeeps DEF Read
  <2>4. CASE GiveUp
    BY <2>4, TimeOutKeeps DEF GiveUp
  <2>5. CASE UNCHANGED vars
    BY <2>5 DEF HalfDuplex, vars, port
  <2> QED
    BY <2>1, <2>2, <2>3, <2>4, <2>5 DEF Next, Probe
<1> QED
  BY <1>1, <1>2, HalfDuplexSuffices, PTL DEF Spec

-----------------------------------------------------------------------------
(* The controller *)

(* Quotient and remainder are what makes up a number.                        *)
LEMMA DivModUnique ==
  ASSUME NEW n \in Int, NEW b \in Int, b > 0,
         NEW q \in Int, NEW r \in 0..(b - 1), n = b * q + r
  PROVE  n \div b = q /\ n % b = r
  OBVIOUS

(* Which positions are a given step, or within it.                           *)
LEMMA WholeBounds ==
  ASSUME NEW p \in Nat, NEW n \in Nat
  PROVE  /\ Whole(p) \in Nat
         /\ Whole(p) <= n <=> p < Sub * n + Sub
         /\ Whole(p) = n <=> Sub * n <= p /\ p < Sub * n + Sub
<1>. DEFINE q == p \div Sub
            r == p % Sub
<1>1. Sub \in Int /\ Sub > 0
  BY ControllerAssumption
<1>2. q \in Int /\ r \in 0..(Sub - 1) /\ p = Sub * q + r
  BY <1>1
<1>. HIDE DEF q, r
<1>3. q \in Nat
  <2>1. SUFFICES ASSUME q <= -1 PROVE FALSE
    BY <1>2
  <2>2. Sub * q <= Sub * (-1)
    BY <1>1, <1>2, <2>1
  <2>. QED
    BY <1>1, <1>2, <2>2
<1>4. ASSUME q <= n
      PROVE  p < Sub * n + Sub
  <2>1. Sub * q <= Sub * n
    BY <1>1, <1>2, <1>4
  <2>2. Sub * q \in Int /\ Sub * n \in Int
    BY <1>1, <1>2
  <2>. QED
    BY <1>1, <1>2, <2>1, <2>2
<1>5. ASSUME q >= n + 1
      PROVE  p >= Sub * n + Sub
  <2>1. Sub * q >= Sub * (n + 1)
    BY <1>1, <1>2, <1>5
  <2>2. Sub * (n + 1) = Sub * n + Sub /\ Sub * q \in Int /\ Sub * n \in Int
    BY <1>1, <1>2
  <2>. QED
    BY <1>1, <1>2, <2>1, <2>2
<1>6. ASSUME q >= n
      PROVE  p >= Sub * n
  <2>1. Sub * q >= Sub * n
    BY <1>1, <1>2, <1>6
  <2>2. Sub * q \in Int /\ Sub * n \in Int
    BY <1>1, <1>2
  <2>. QED
    BY <1>1, <1>2, <2>1, <2>2
<1>7. ASSUME q <= n - 1
      PROVE  p < Sub * n
  <2>1. Sub * q <= Sub * (n - 1)
    BY <1>1, <1>2, <1>7
  <2>2. Sub * (n - 1) = Sub * n - Sub /\ Sub * q \in Int /\ Sub * n \in Int
    BY <1>1, <1>2
  <2>. QED
    BY <1>1, <1>2, <2>1, <2>2
<1>8. Sub * n + Sub \in Int /\ Sub * n \in Int
  BY <1>1
<1>9. /\ q <= n <=> p < Sub * n + Sub
      /\ q = n <=> Sub * n <= p /\ p < Sub * n + Sub
  BY <1>3, <1>4, <1>5, <1>6, <1>7, <1>8
<1>. QED
  BY <1>3, <1>9 DEF Whole, q

(* The lens is, and is going, within the travel that was last measured.      *)
Within(c) == c.target <= c.travel /\ Whole(c.position) <= c.travel

(* A lens at rest stays at rest, and a lens between two places of its travel *)
(* stays there, while time passes.                                           *)
LEMMA AdvancedKeeps ==
  ASSUME NEW c \in Controller, NEW d \in Nat
  PROVE  /\ Advanced(c, d) \in Controller
         /\ Advanced(c, d).lens = c.lens
         /\ Advanced(c, d).retargets = c.retargets
         /\ Advanced(c, d).failed = c.failed
         /\ Advanced(c, d).target = c.target
         /\ Advanced(c, d).travel = c.travel
         /\ ~Moving(c) => ~Moving(Advanced(c, d))
         /\ Within(c) => Within(Advanced(c, d))
<1>. DEFINE goal == c.target * Sub
            step == IF c.jams THEN 0 ELSE d
            p == c.position
            next == IF p < goal THEN IF p + step < goal THEN p + step ELSE goal
                    ELSE IF p - step > goal THEN p - step ELSE goal
            a == Advanced(c, d)
<1>0. /\ c.target \in Nat /\ p \in Nat /\ c.travel \in Nat
      /\ Sub \in Nat /\ Sub > 0 /\ c.jams \in BOOLEAN
  <2>1. c.target \in Nat /\ p \in Nat /\ c.travel \in Lengths /\ c.jams \in BOOLEAN
    BY DEF Controller
  <2>2. c.travel \in Nat
    BY <2>1, ControllerAssumption
  <2>3. Sub \in Nat /\ Sub > 0
    BY ControllerAssumption
  <2>. QED
    BY <2>1, <2>2, <2>3
<1>1. /\ c.target \in Nat /\ p \in Nat /\ step \in Nat /\ c.travel \in Nat
      /\ Sub \in Nat /\ Sub > 0 /\ goal \in Nat /\ goal = Sub * c.target
  <2>1. step \in Nat
    BY <1>0
  <2>. QED
    BY <1>0, <2>1
<1>2. a = [c EXCEPT !.position = next]
  BY DEF Advanced
<1>. HIDE DEF goal, step
<1>3. /\ next \in Nat
      /\ goal <= p => goal <= next /\ next <= p
      /\ p <= goal => next <= goal
  BY <1>1
<1>. HIDE DEF next, a
<1>4. /\ a \in Controller /\ a.position = next
      /\ a.lens = c.lens /\ a.retargets = c.retargets /\ a.failed = c.failed
      /\ a.target = c.target /\ a.travel = c.travel
  BY <1>2, <1>3 DEF Controller
<1>5. ASSUME ~Moving(c)
      PROVE  ~Moving(a)
  <2>1. Whole(p) = c.target
    BY <1>5 DEF Moving
  <2>2. goal <= p /\ p < Sub * c.target + Sub
    BY <1>1, <2>1, WholeBounds
  <2>3. goal <= next /\ next < Sub * c.target + Sub
    BY <1>1, <1>3, <2>2
  <2>4. Whole(next) = c.target
    BY <1>1, <1>3, <2>3, WholeBounds
  <2>. QED
    BY <1>4, <2>4 DEF Moving
<1>6. ASSUME Within(c)
      PROVE  Within(a)
  <2>1. p < Sub * c.travel + Sub /\ c.target <= c.travel
    BY <1>1, <1>6, WholeBounds DEF Within
  <2>2. Sub * c.target <= Sub * c.travel /\ Sub * c.travel \in Int
    BY <1>1, <2>1
  <2>3. next < Sub * c.travel + Sub
    BY <1>1, <1>3, <2>1, <2>2
  <2>4. Whole(next) <= c.travel
    BY <1>1, <1>3, <2>3, WholeBounds
  <2>. QED
    BY <1>4, <2>1, <2>4 DEF Within
<1>. QED
  BY <1>4, <1>5, <1>6 DEF a

(* A move to a place within the travel comes to rest within it.              *)
LEMMA LandingFacts ==
  ASSUME NEW n \in Nat, NEW travel \in Nat, NEW l \in Landings(n, travel)
  PROVE  l \in Nat /\ (n <= travel => l <= travel)
  BY DEF Landings

(* What an answer says of the controller, and what answering a command       *)
(* changes.                                                                  *)
LEMMA AnswerFacts ==
  ASSUME NEW c \in Controller, NEW asked \in Commands, NEW n \in After(c, asked)
  PROVE  LET t == Answer(c, asked)
         IN  /\ n \in Controller
             /\ n.lens = c.lens /\ n.retargets = c.retargets
             /\ n.position = c.position
             /\ t \in Answers
             /\ asked = << "e" >> =>
                  n = c /\ t = << IF Moving(c) THEN "y" ELSE "n" >>
             /\ asked = << "f" >> => n = c /\ t = << "position", Whole(c.position) >>
             /\ asked = << "r" >> => n = c /\ t = TravelRange(c)
             /\ asked = << "c" >> =>
                  /\ t = IF c.lens = "fitted" THEN OK ELSE ER
                  /\ n.target = c.target
                  /\ c.lens = "fitted" => ~n.failed
                  /\ c.lens = "manual" => n.failed
                  /\ Within(c) => Within(n)
             /\ asked # << "c" >> => n.failed = c.failed /\ n.travel = c.travel
             /\ asked \in {"m"} \X Nat =>
                  /\ t \in {OK, ER}
                  /\ t = OK => n.target \in Landings(asked[2], c.travel) /\ ~Refuses(c)
             /\ n.target = c.target
                  \/ (asked \in {"m"} \X Nat /\ n.target \in Landings(asked[2], c.travel))
<1>. DEFINE t == Answer(c, asked)
<1>1. /\ c.lens \in Lenses /\ c.travel \in Lengths /\ c.target \in Nat
      /\ c.position \in Nat /\ c.travel \in Nat
      /\ \A found \in Findings(c) :
           found \in Lengths
             /\ (Within(c) => c.target <= found /\ Whole(c.position) <= found)
  BY ControllerAssumption DEF Controller, Findings, Within
<1>2. CASE asked = << "e" >>
  BY <1>1, <1>2 DEF After, Answer, Answers
<1>3. CASE asked = << "f" >>
  <2>1. Whole(c.position) \in Nat
    BY <1>1, WholeBounds
  <2>2. << "position", Whole(c.position) >> \in Answers
    BY <2>1 DEF Answers
  <2>3. n = c /\ t = << "position", Whole(c.position) >>
    BY <1>3 DEF After, Answer
  <2>. QED
    BY <1>1, <1>3, <2>2, <2>3
<1>4. CASE asked = << "r" >>
  <2>1. TravelRange(c) \in {"range"} \X Nat
    BY <1>1, ControllerAssumption DEF TravelRange
  <2>2. TravelRange(c) \in Answers
    BY <2>1 DEF Answers
  <2>3. n = c /\ t = TravelRange(c)
    BY <1>4 DEF After, Answer
  <2>. QED
    BY <1>1, <1>4, <2>2, <2>3
<1>5. CASE asked = << "c" >>
  <2>1. t = (IF c.lens = "fitted" THEN OK ELSE ER) /\ t \in Answers
    BY <1>5 DEF Answer, Answers, OK, ER
  <2>2. \/ /\ c.lens = "fitted"
           /\ \E found \in Findings(c) : n = [c EXCEPT !.travel = found, !.failed = FALSE]
        \/ c.lens = "manual" /\ n = [c EXCEPT !.failed = TRUE]
        \/ c.lens \notin {"fitted", "manual"} /\ n = c
    BY <1>5 DEF After
  <2>3. asked # << "e" >> /\ asked # << "f" >> /\ asked # << "r" >>
        /\ asked \notin {"m"} \X Nat
    BY <1>5
  <2>4. CASE c.lens = "fitted"
    <3>1. PICK found \in Findings(c) : n = [c EXCEPT !.travel = found, !.failed = FALSE]
      BY <2>2, <2>4
    <3>2. /\ n \in Controller /\ n.lens = c.lens /\ n.retargets = c.retargets
          /\ n.position = c.position /\ n.target = c.target
          /\ n.travel = found /\ ~n.failed
      BY <1>1, <3>1 DEF Controller
    <3>3. Within(c) => Within(n)
      BY <1>1, <3>2 DEF Within
    <3>. HIDE DEF t
    <3>. QED
      BY <1>5, <2>1, <2>3, <2>4, <3>2, <3>3 DEF t
  <2>5. CASE c.lens = "manual"
    <3>1. n = [c EXCEPT !.failed = TRUE]
      BY <2>2, <2>5
    <3>2. /\ n \in Controller /\ n.lens = c.lens /\ n.retargets = c.retargets
          /\ n.position = c.position /\ n.target = c.target
          /\ n.travel = c.travel /\ n.failed
      BY <1>1, <3>1 DEF Controller
    <3>3. Within(c) => Within(n)
      BY <3>2 DEF Within
    <3>. HIDE DEF t
    <3>. QED
      BY <1>5, <2>1, <2>3, <2>5, <3>2, <3>3 DEF t
  <2>6. CASE c.lens \notin {"fitted", "manual"}
    <3>1. n = c
      BY <2>2, <2>6
    <3>. HIDE DEF t
    <3>. QED
      BY <1>1, <1>5, <2>1, <2>3, <2>6, <3>1 DEF t
  <2>. QED
    BY <2>4, <2>5, <2>6
<1>6. CASE asked \in {"m"} \X Nat
  <2>1. PICK place \in Nat : asked = << "m", place >>
    BY <1>6
  <2>2. t = IF Refuses(c) THEN ER ELSE OK
    BY <2>1 DEF Answer
  <2>3. \/ Refuses(c) /\ n = c
        \/ /\ ~Refuses(c)
           /\ \E l \in Landings(place, c.travel) : n = [c EXCEPT !.target = l]
    BY <2>1 DEF After
  <2>4. asked # << "e" >> /\ asked # << "f" >> /\ asked # << "r" >> /\ asked # << "c" >>
        /\ asked[2] = place
    BY <2>1
  <2>. HIDE DEF t
  <2>5. t \in {OK, ER} /\ t \in Answers /\ (t = OK => ~Refuses(c))
    BY <2>2 DEF Answers, OK, ER
  <2>6. /\ n \in Controller /\ n.lens = c.lens /\ n.retargets = c.retargets
        /\ n.position = c.position /\ n.failed = c.failed /\ n.travel = c.travel
        /\ IF Refuses(c) THEN n.target = c.target
           ELSE n.target \in Landings(place, c.travel)
    <3>1. CASE Refuses(c)
      BY <2>3, <3>1
    <3>2. CASE ~Refuses(c)
      <4>1. PICK l \in Landings(place, c.travel) : n = [c EXCEPT !.target = l]
        BY <2>3, <3>2
      <4>2. l \in Nat
        BY <1>1, LandingFacts
      <4>. QED
        BY <3>2, <4>1, <4>2 DEF Controller
    <3>. QED
      BY <3>1, <3>2
  <2>. QED
    BY <1>6, <2>4, <2>5, <2>6 DEF t
<1>7. CASE asked \in {<< tag >> : tag \in {"v", "a", "x"}}
  <2>1. asked = << "v" >> \/ asked = << "a" >> \/ asked = << "x" >>
    BY <1>7
  <2>2. n = c
    <3>1. asked[1] # "m" /\ asked # << "c" >>
      BY <2>1
    <3>. QED
      BY <3>1 DEF After
  <2>4. t \in Answers
    BY <2>1 DEF Answer, Answers, OK, ER
  <2>3. asked # << "e" >> /\ asked # << "f" >> /\ asked # << "r" >> /\ asked # << "c" >>
        /\ asked \notin {"m"} \X Nat
    BY <2>1
  <2>. QED
    BY <2>2, <2>4, <2>3
<1>8. CASE asked \in {"a"} \X {"inside", "outside"}
  BY <1>1, <1>8 DEF After, Answer, Answers, OK, ER
<1>9. \/ asked = << "e" >> \/ asked = << "f" >> \/ asked = << "r" >>
      \/ asked = << "c" >> \/ asked \in {"m"} \X Nat
      \/ asked \in {<< tag >> : tag \in {"v", "a", "x"}}
      \/ asked \in {"a"} \X {"inside", "outside"}
  BY DEF Commands
<1>. HIDE DEF t
<1>. QED
  BY <1>2, <1>3, <1>4, <1>5, <1>6, <1>7, <1>8, <1>9 DEF t

-----------------------------------------------------------------------------
(* The invariant *)

(* The places of the program, by the function that asks.                     *)
IdentifyPlaces ==
  {"identify.version", "identify.range", "identify.position", "identify.moving"}
VetPlaces == {"vet.calibrate", "vet.moving", "vet.range"}
SettlePlaces == {"settle.moving", "settle.position"}
TestPlaces == {"test.range", "cycle.move", "cycle.moving", "cycle.position",
               "cycle.retarget", "test.return"}
BenchPlaces == {"calibrate", "calibrate.moving", "calibrate.range",
                "aperture.range", "aperture.set", "focus.move"}
ScanPlaces == {"scan.move", "scan.moving", "scan.position"}
AllPlaces ==
  IdentifyPlaces \union {"test.calibrate"} \union TestPlaces \union SettlePlaces
    \union VetPlaces \union BenchPlaces \union ScanPlaces \union {"send", "done"}

\* In the retarget test, after its calibration succeeded.
Driving ==
  \/ pc \in TestPlaces
  \/ pc \in SettlePlaces /\ mem.after # "focus"

\* Answers on the line, with what they answer.
Line == [of : Commands \union {<< >>}, text : Answers]

\* What was found out of the lens by a calibration that has been served.
Calibrated ==
  /\ cef.lens = "fitted" => /\ ~cef.failed /\ measured # << >>
                            /\ measured[Len(measured)] = cef.travel
  /\ cef.lens = "manual" => cef.failed

\* An answer is one to its question ...
Fits(a) ==
  /\ a.of = << "e" >> => a.text \in {<< "y" >>, << "n" >>}
  /\ a.of = << "f" >> => a.text \in {"position"} \X Nat
  /\ a.of = << "r" >> => a.text \in {"range"} \X Nat
  /\ a.of = << "c" >> => a.text = IF cef.lens = "fitted" THEN OK ELSE ER
  /\ a.of \in {"m"} \X Nat => a.text \in {OK, ER}

\* ... and the last one is still true.
Speaks(a) ==
  /\ a.of = << "e" >> => a.text = << IF Moving(cef) THEN "y" ELSE "n" >>
  /\ a.of = << "f" >> => a.text = << "position", Whole(cef.position) >>
  /\ a.of = << "r" >> => a.text = TravelRange(cef)
  /\ a.of = << "c" >> => Calibrated
  /\ (a.of \in {"m"} \X Nat /\ a.text = OK) => cef.target \in Landings(a.of[2], cef.travel)

(* Commands and answers under way between the probe and the controller.      *)
InFlight == Len(unserved) + Len(line)

\* Questions written or answered before the one that is being asked.
Backlog == InFlight - (IF waiting THEN 1 ELSE 0)

(* Where the program may be, and the types of the history.                   *)
HistoryOK ==
  /\ measured \in Seq(Nat) /\ slips \in Nat /\ caught \in BOOLEAN
  /\ pc \in AllPlaces
  /\ (pc = "done" \/ outcome = "running")

(* What is written and what has arrived: every answer fits its question, and *)
(* the last one given is still true.                                         *)
PortOK ==
  /\ unserved \in Seq(Commands) /\ line \in Seq(Line)
  /\ command \in Commands \union {<< >>}
  /\ \A i \in 1..Len(line) : Fits(line[i])
  /\ line # << >> => Speaks(line[Len(line)])

(* The question being asked is the last one under way, and how many there    *)
(* are before it: none or one, except where --send goes on after a timeout.  *)
QueueOK ==
  /\ waiting => /\ command \in Asked
                /\ (unserved # << >> => unserved[Len(unserved)] = command)
                /\ (unserved = << >> => line # << >> /\ line[Len(line)].of = command)
  /\ pc = "done" => ~waiting /\ InFlight <= 1 + Len(Send)
  /\ pc = "send" => mem.n < Len(Send) /\ Backlog <= 1 + mem.n
  /\ pc \notin {"done", "send"} => Backlog \in {0, 1}

(* What most lemmas take for granted.                                        *)
Typed == TypeOK /\ HistoryOK /\ PortOK

-----------------------------------------------------------------------------
(* Questions *)

(* move_to() sends a command whose number is not negative.                   *)
LEMMA MoveToCommands ==
  ASSUME NEW x \in Int
  PROVE  /\ MoveTo(x) \in {"m"} \X Nat /\ MoveTo(x) \in Commands
         /\ MoveTo(x)[2] \in Nat
         /\ x \in Nat => MoveTo(x) = << "m", x >> /\ MoveTo(x)[2] = x
  BY DEF MoveTo, Commands

(* The question each place asks.                                             *)
LEMMA AskedFacts ==
  /\ pc \in {"identify.moving", "settle.moving", "cycle.moving", "vet.moving",
             "calibrate.moving", "scan.moving"} => Asked = {<< "e" >>}
  /\ pc \in {"identify.range", "test.range", "vet.range", "calibrate.range"}
       => Asked = {<< "r" >>}
  /\ pc \in {"identify.position", "settle.position", "cycle.position", "scan.position"}
       => Asked = {<< "f" >>}
  /\ pc \in {"test.calibrate", "vet.calibrate", "calibrate"} => Asked = {<< "c" >>}
  /\ pc = "identify.version" => Asked = {<< "v" >>}
  /\ pc = "aperture.range" => Asked = {<< "a" >>}
  /\ pc = "aperture.set" => Asked = {<< "a", "inside" >>, << "a", "outside" >>}
  /\ pc = "cycle.move" => Asked = {MoveTo(CycleTarget)}
  /\ pc = "cycle.retarget" => Asked = {MoveTo(mem.commanded)}
  /\ pc = "test.return" => Asked = {MoveTo(mem.start)}
  /\ pc = "focus.move" => Asked = {MoveTo(args.focus)}
  /\ pc = "scan.move" => Asked = {MoveTo(ScanTarget(mem.n))}
  /\ pc = "send" => Asked = {Send[mem.n + 1]}
  /\ pc = "done" => Asked = {}
  BY DEF Asked

(* The numbers the program reckons with.                                     *)
LEMMA NumbersAreInts ==
  ASSUME TypeOK
  PROVE  /\ mem.n \in Nat /\ mem.start \in Nat /\ mem.high \in Nat
         /\ mem.commanded \in Nat /\ mem.worst \in Nat
         /\ args.travel \in Int /\ args.focus \in Int
         /\ CycleTarget \in Int /\ ScanTarget(mem.n) \in Int
<1>1. /\ mem.n \in Nat /\ mem.start \in Nat /\ mem.high \in Nat
      /\ mem.commanded \in Nat /\ mem.worst \in Nat
  BY DEF TypeOK
<1>2. args.travel \in Int /\ args.focus \in Int
  BY ArgumentsAssumption DEF TypeOK
<1>3. CycleTarget \in Int
  BY <1>1, <1>2 DEF CycleTarget
<1>4. ScanTarget(mem.n) \in Int
  <2>1. Scan[1] \in Int /\ Scan[3] \in Int
    BY ProbeAssumption
  <2>2. mem.n * Scan[3] \in Int
    BY <1>1, <2>1
  <2>. QED
    BY <2>1, <2>2 DEF ScanTarget
<1>. QED
  BY <1>1, <1>2, <1>3, <1>4

(* Whatever is asked is a command the controller is modelled for.            *)
LEMMA AskedAreCommands ==
  ASSUME TypeOK, pc \in AllPlaces, pc = "send" => mem.n < Len(Send)
  PROVE  Asked \subseteq Commands
<1>1. /\ MoveTo(CycleTarget) \in Commands /\ MoveTo(mem.commanded) \in Commands
      /\ MoveTo(mem.start) \in Commands /\ MoveTo(args.focus) \in Commands
      /\ MoveTo(ScanTarget(mem.n)) \in Commands
  <2>1. /\ CycleTarget \in Int /\ mem.commanded \in Int /\ mem.start \in Int
        /\ args.focus \in Int /\ ScanTarget(mem.n) \in Int
    BY NumbersAreInts
  <2>. QED
    BY <2>1, MoveToCommands, Zenon
<1>2. /\ << "e" >> \in Commands /\ << "r" >> \in Commands /\ << "f" >> \in Commands
      /\ << "c" >> \in Commands /\ << "v" >> \in Commands /\ << "a" >> \in Commands
      /\ << "a", "inside" >> \in Commands /\ << "a", "outside" >> \in Commands
  BY DEF Commands
<1>3. pc = "send" => Send[mem.n + 1] \in Commands
  <2>1. Send \in Seq(Commands)
    BY ProbeAssumption
  <2>2. mem.n \in Nat
    BY NumbersAreInts
  <2>. QED
    BY <2>1, <2>2
<1>4. CASE pc \in IdentifyPlaces \union SettlePlaces \union VetPlaces
  BY <1>2, <1>4, AskedFacts DEF IdentifyPlaces, SettlePlaces, VetPlaces
<1>5. CASE pc \in {"test.calibrate"} \union TestPlaces
  BY <1>1, <1>2, <1>5, AskedFacts DEF TestPlaces
<1>6. CASE pc \in BenchPlaces \union ScanPlaces
  BY <1>1, <1>2, <1>6, AskedFacts DEF BenchPlaces, ScanPlaces
<1>7. CASE pc \in {"send", "done"}
  BY <1>3, <1>7, AskedFacts
<1>. QED
  BY <1>4, <1>5, <1>6, <1>7 DEF AllPlaces

-----------------------------------------------------------------------------
(* One command served *)

\* What the controller made of the command asked, answering it with text.
Answered(asked, text) ==
  /\ text \in Answers /\ asked \in Commands
  /\ cef' \in Controller /\ cef'.lens = cef.lens /\ cef'.retargets = cef.retargets
  /\ asked = << "e" >> => text = << IF Moving(cef') THEN "y" ELSE "n" >>
  /\ asked = << "f" >> => text = << "position", Whole(cef'.position) >>
  /\ asked = << "r" >> => text = TravelRange(cef')
  /\ asked = << "c" >> =>
       /\ text = IF cef.lens = "fitted" THEN OK ELSE ER
       /\ cef.lens = "fitted" => ~cef'.failed
       /\ cef.lens = "manual" => cef'.failed
       /\ cef'.target = cef.target
       /\ Within(cef) => Within(cef')
  /\ asked # << "c" >> => cef'.failed = cef.failed /\ cef'.travel = cef.travel
  /\ asked \in {"m"} \X Nat =>
       /\ text \in {OK, ER}
       /\ text = OK => /\ cef'.target \in Landings(asked[2], cef'.travel)
                       /\ ~cef.retargets => Whole(cef'.position) = cef.target
  /\ asked \notin {"m"} \X Nat =>
       /\ cef'.target = cef.target
       /\ ~Moving(cef) => ~Moving(cef')
       /\ Within(cef) => Within(cef')
  /\ asked \in {"m"} \X Nat /\ asked[2] <= cef.travel /\ Within(cef) => Within(cef')
  /\ asked \in {"m"} \X Nat =>
       cef'.target \in {cef.target} \union Landings(asked[2], cef.travel)

(* One turn of serve() answers the oldest command.                           *)
LEMMA ServeAnswers ==
  ASSUME TypeOK, PortOK, NEW d \in Nat, Serve(d)
  PROVE  /\ unserved # << >> /\ unserved' = Tail(unserved)
         /\ UNCHANGED << command, waiting, timely >>
         /\ \E text : /\ Answered(Head(unserved), text)
                      /\ line' = Append(line, [of |-> Head(unserved), text |-> text])
<1>. DEFINE asked == Head(unserved)
            c == Advanced(cef, d)
            text == Answer(c, asked)
<1>1. /\ unserved # << >> /\ unserved' = Tail(unserved)
      /\ UNCHANGED << command, waiting, timely >>
      /\ line' = Append(line, [of |-> asked, text |-> text])
      /\ cef' \in After(c, asked)
  BY DEF Serve
<1>2. PICK n \in After(c, asked) : cef' = n
  BY <1>1
<1>3. asked \in Commands
  BY <1>1 DEF PortOK
<1>4. cef \in Controller
  BY DEF TypeOK
<1>5. /\ c \in Controller /\ c.lens = cef.lens /\ c.retargets = cef.retargets
      /\ c.failed = cef.failed /\ c.target = cef.target /\ c.travel = cef.travel
      /\ ~Moving(cef) => ~Moving(c)
      /\ Within(cef) => Within(c)
  BY <1>4, AdvancedKeeps
<1>. HIDE DEF c
<1>6. /\ cef' \in Controller
      /\ cef'.lens = c.lens /\ cef'.retargets = c.retargets
      /\ cef'.position = c.position
      /\ text \in Answers
      /\ asked = << "e" >> =>
           cef' = c /\ text = << IF Moving(c) THEN "y" ELSE "n" >>
      /\ asked = << "f" >> => cef' = c /\ text = << "position", Whole(c.position) >>
      /\ asked = << "r" >> => cef' = c /\ text = TravelRange(c)
      /\ asked = << "c" >> =>
           /\ text = IF c.lens = "fitted" THEN OK ELSE ER
           /\ cef'.target = c.target
           /\ c.lens = "fitted" => ~cef'.failed
           /\ c.lens = "manual" => cef'.failed
           /\ Within(c) => Within(cef')
      /\ asked # << "c" >> => cef'.failed = c.failed /\ cef'.travel = c.travel
      /\ asked \in {"m"} \X Nat =>
           /\ text \in {OK, ER}
           /\ text = OK => cef'.target \in Landings(asked[2], c.travel) /\ ~Refuses(c)
      /\ cef'.target = c.target
           \/ (asked \in {"m"} \X Nat /\ cef'.target \in Landings(asked[2], c.travel))
  <2>. HIDE DEF asked
  <2>. QED
    BY <1>2, <1>3, <1>5, AnswerFacts
<1>. HIDE DEF asked, text
<1>7. asked \in {"m"} \X Nat /\ text = OK =>
        (~cef.retargets => Whole(cef'.position) = cef.target)
  BY <1>5, <1>6 DEF Refuses, Moving
<1>8. asked \notin {"m"} \X Nat =>
        /\ cef'.target = cef.target
        /\ ~Moving(cef) => ~Moving(cef')
        /\ Within(cef) => Within(cef')
  <2>. SUFFICES ASSUME asked \notin {"m"} \X Nat
                PROVE  /\ cef'.target = cef.target
                       /\ ~Moving(cef) => ~Moving(cef')
                       /\ Within(cef) => Within(cef')
    OBVIOUS
  <2>1. cef'.target = cef.target /\ cef'.position = c.position
    BY <1>5, <1>6
  <2>2. asked # << "c" >> => cef'.travel = c.travel
    BY <1>6
  <2>. QED
    BY <1>5, <1>6, <2>1, <2>2 DEF Moving, Within
<1>9. asked \in {"m"} \X Nat /\ asked[2] <= cef.travel /\ Within(cef) => Within(cef')
  <2>. SUFFICES ASSUME asked \in {"m"} \X Nat, asked[2] <= cef.travel, Within(cef)
                PROVE  Within(cef')
    OBVIOUS
  <2>1. asked[2] \in Nat /\ cef.travel \in Nat /\ asked # << "c" >>
    <3>1. asked[2] \in Nat /\ asked # << "c" >>
      OBVIOUS
    <3>2. cef.travel \in Nat
      BY <1>4, ControllerAssumption DEF Controller
    <3>. QED
      BY <3>1, <3>2
  <2>2. cef'.target \in Landings(asked[2], cef.travel) => cef'.target <= cef.travel
    BY <2>1, LandingFacts
  <2>3. cef'.target = cef.target \/ cef'.target \in Landings(asked[2], cef.travel)
    BY <1>5, <1>6
  <2>. QED
    BY <1>5, <1>6, <2>1, <2>2, <2>3 DEF Within
<1>10. asked \in {"m"} \X Nat =>
         cef'.target \in {cef.target} \union Landings(asked[2], cef.travel)
  BY <1>5, <1>6
<1>11. asked \in {"m"} \X Nat /\ text = OK => cef'.target \in Landings(asked[2], cef'.travel)
  <2>1. asked \in {"m"} \X Nat => cef'.travel = c.travel
    BY <1>6
  <2>. QED
    BY <1>6, <2>1
<1>12. Answered(asked, text)
  BY <1>3, <1>5, <1>6, <1>7, <1>8, <1>9, <1>10, <1>11 DEF Answered
<1>. QED
  BY <1>1, <1>12 DEF asked

\* What else a served command changes.
Recorded(asked) ==
  /\ measured' = IF asked = << "c" >> /\ cef.lens = "fitted"
                   THEN Append(measured, cef'.travel) ELSE measured
  /\ caught' = IF pc = "cycle.moving" THEN Moving(cef')
               ELSE IF pc = "done" THEN FALSE ELSE caught
  /\ slips' = IF /\ pc = "cycle.retarget" /\ caught
                 /\ Whole(cef'.position) = cef.target
                THEN slips + 1 ELSE slips

(* ... and leaves the program alone.                                         *)
LEMMA ServedFacts ==
  ASSUME Typed, Served
  PROVE  /\ unserved # << >> /\ unserved' = Tail(unserved)
         /\ UNCHANGED << command, waiting, timely, program, landings >>
         /\ UNCHANGED << pc, mem, args, outcome >>
         /\ Recorded(Head(unserved))
         /\ \E text : /\ Answered(Head(unserved), text)
                      /\ line' = Append(line, [of |-> Head(unserved), text |-> text])
<1>1. PICK d \in (IF Slept THEN Pause ELSE 0)..MaxAdvance :
        /\ Serve(d)
        /\ measured' = IF Head(unserved) = << "c" >> /\ cef.lens = "fitted"
                         THEN Append(measured, cef'.travel) ELSE measured
        /\ caught' = IF pc = "cycle.moving" THEN Moving(cef')
                      ELSE IF pc = "done" THEN FALSE ELSE caught
        /\ slips' = IF pc = "cycle.retarget" /\ caught /\ Whole(cef'.position) = cef.target
                      THEN slips + 1 ELSE slips
        /\ UNCHANGED << program, landings >>
  BY DEF Served
<1>2. d \in Nat
  BY PortAssumption, ProbeAssumption
<1>3. Recorded(Head(unserved))
  BY <1>1 DEF Recorded
<1>4. UNCHANGED << pc, mem, args, outcome >>
  BY <1>1 DEF program
<1>. QED
  BY <1>1, <1>2, <1>3, <1>4, ServeAnswers DEF Typed

(* A place needs no more than the unchanged program: the question does not   *)
(* depend on the lens.                                                       *)
LEMMA ProgramFacts ==
  ASSUME UNCHANGED << pc, mem, args >>
  PROVE  /\ Asked' = Asked /\ First' = First /\ Driving' = Driving
  BY DEF Asked, First, Driving, MoveTo, CycleTarget, ScanTarget, Does, Steps

(* The commands whose answers matter are told apart by their tags.           *)
LEMMA CommandKinds ==
  ASSUME NEW asked \in Commands
  PROVE  /\ asked # << >>
         /\ asked \in {"m"} \X Nat =>
              /\ asked # << "e" >> /\ asked # << "f" >> /\ asked # << "r" >>
              /\ asked # << "c" >> /\ asked[2] \in Nat
         /\ << "e" >> # << "f" >> /\ << "e" >> # << "r" >> /\ << "e" >> # << "c" >>
         /\ << "f" >> # << "r" >> /\ << "f" >> # << "c" >> /\ << "r" >> # << "c" >>
  BY DEF Commands

(* An answer goes on fitting its question: a lens is never exchanged.        *)
LEMMA FitsStays ==
  ASSUME NEW a, Fits(a), cef'.lens = cef.lens
  PROVE  Fits(a)'
  BY DEF Fits

(* A new answer fits its question ...                                        *)
LEMMA NewFits ==
  ASSUME NEW asked, NEW text, Answered(asked, text), NEW a,
         a.of = asked, a.text = text
  PROVE  Fits(a)'
<1>1. /\ cef'.position \in Nat /\ cef'.travel \in Nat /\ cef'.lens = cef.lens
  BY ControllerAssumption DEF Answered, Controller
<1>2. << "position", Whole(cef'.position) >> \in {"position"} \X Nat
  BY <1>1, WholeBounds
<1>3. TravelRange(cef') \in {"range"} \X Nat
  BY <1>1, ControllerAssumption DEF TravelRange
<1>. QED
  BY <1>1, <1>2, <1>3 DEF Answered, Fits

(* ... and is true when it is given.                                         *)
LEMMA NewSpeaks ==
  ASSUME Typed, NEW asked, NEW text, Answered(asked, text), Recorded(asked), NEW a,
         a.of = asked, a.text = text
  PROVE  Speaks(a)'
<1>1. asked = << "c" >> => Calibrated'
  <2>. SUFFICES ASSUME asked = << "c" >> PROVE Calibrated'
    OBVIOUS
  <2>1. measured \in Seq(Nat) /\ cef'.lens = cef.lens /\ cef'.travel \in Nat
    BY ControllerAssumption DEF Typed, HistoryOK, Answered, Controller
  <2>2. cef.lens = "fitted" => measured' = Append(measured, cef'.travel) /\ ~cef'.failed
    BY DEF Recorded, Answered
  <2>3. cef.lens = "manual" => cef'.failed
    BY DEF Answered
  <2>. QED
    BY <2>1, <2>2, <2>3 DEF Calibrated
<1>2. asked \in {"m"} \X Nat /\ text = OK => cef'.target \in Landings(asked[2], cef'.travel)
  BY DEF Answered
<1>. QED
  BY <1>1, <1>2 DEF Answered, Speaks

(* Serving moves one command from the queue to the end of the line.          *)
LEMMA ServedKeepsPort ==
  ASSUME Typed, Served
  PROVE  /\ PortOK'
         /\ measured' \in Seq(Nat) /\ slips' \in Nat /\ caught' \in BOOLEAN
         /\ Len(unserved') = Len(unserved) - 1 /\ Len(line') = Len(line) + 1
         /\ Len(unserved) > 0 /\ Len(unserved) \in Nat /\ Len(line) \in Nat
         /\ \A i \in 1..Len(line) : line'[i] = line[i]
         /\ line'[Len(line')].of = Head(unserved)
         /\ \A i \in 1..Len(unserved') : unserved'[i] = unserved[i + 1]
         /\ Answered(Head(unserved), line'[Len(line')].text)
<1>0. PICK asked : asked = Head(unserved)
  OBVIOUS
<1>1. PICK text : /\ Answered(asked, text)
                  /\ line' = Append(line, [of |-> asked, text |-> text])
  BY <1>0, ServedFacts
<1>2. /\ unserved # << >> /\ unserved' = Tail(unserved) /\ command' = command
      /\ Recorded(asked)
  BY <1>0, ServedFacts
<1>3. /\ unserved \in Seq(Commands) /\ line \in Seq(Line)
      /\ command \in Commands \union {<< >>}
      /\ \A i \in 1..Len(line) : Fits(line[i])
  BY DEF Typed, PortOK
<1>4. measured \in Seq(Nat) /\ slips \in Nat /\ caught \in BOOLEAN /\ cef \in Controller
  BY DEF Typed, HistoryOK, TypeOK
<1>. DEFINE new == [of |-> asked, text |-> text]
<1>5. new \in Line /\ new.of = asked /\ new.text = text
  BY <1>1 DEF Answered, Line
<1>. HIDE DEF new
<1>6. /\ line' \in Seq(Line) /\ Len(line') = Len(line) + 1 /\ Len(line) \in Nat
      /\ line'[Len(line')] = new /\ line' # << >>
      /\ \A i \in 1..Len(line) : line'[i] = line[i]
  <2>1. line' = Append(line, new)
    BY <1>1 DEF new
  <2>. QED
    BY <1>3, <1>5, <2>1
<1>7. /\ unserved' \in Seq(Commands) /\ Len(unserved') = Len(unserved) - 1
      /\ Len(unserved) > 0 /\ Len(unserved) \in Nat
      /\ \A i \in 1..Len(unserved') : unserved'[i] = unserved[i + 1]
  BY <1>2, <1>3
<1>8. cef'.travel \in Nat
  BY <1>1, ControllerAssumption DEF Answered, Controller
<1>9. measured' \in Seq(Nat)
  BY <1>2, <1>4, <1>8 DEF Recorded
<1>10. slips' \in Nat
  BY <1>2, <1>4 DEF Recorded
<1>11. caught' \in BOOLEAN
  BY <1>2, <1>4 DEF Recorded, Moving
<1>12. \A i \in 1..Len(line') : Fits(line[i])'
  <2>. SUFFICES ASSUME NEW i \in 1..Len(line') PROVE Fits(line[i])'
    OBVIOUS
  <2>1. PICK a : a = line'[i]
    OBVIOUS
  <2>2. cef'.lens = cef.lens
    BY <1>1 DEF Answered
  <2>3. Fits(a)'
    <3>1. CASE i = Len(line')
      BY <1>1, <1>5, <1>6, <2>1, <3>1, NewFits
    <3>2. CASE i # Len(line')
      <4>1. i \in 1..Len(line)
        BY <1>6, <3>2
      <4>2. Fits(a)
        BY <1>3, <1>6, <2>1, <4>1
      <4>. QED
        BY <2>2, <4>2, FitsStays
    <3>. QED
      BY <3>1, <3>2
  <2>. QED
    BY <2>1, <2>3 DEF Fits
<1>13. Speaks(line[Len(line)])'
  <2>1. Speaks(new)'
    <3>1. PICK a : a = new
      OBVIOUS
    <3>2. Speaks(a)'
      BY <1>1, <1>2, <1>5, <3>1, NewSpeaks
    <3>. QED
      BY <3>1, <3>2 DEF Speaks, new
  <2>. QED
    BY <1>6, <2>1 DEF Speaks, new
<1>14. PortOK'
  BY <1>2, <1>3, <1>6, <1>7, <1>12, <1>13 DEF PortOK
<1>. QED
  BY <1>0, <1>1, <1>2, <1>5, <1>6, <1>7, <1>9, <1>10, <1>11, <1>14

(* Writing adds one command to the end of the queue.                         *)
LEMMA WriteFacts ==
  ASSUME Typed, QueueOK, Write
  PROVE  /\ ~waiting /\ waiting' /\ command' \in Asked /\ command' \in Commands
         /\ UNCHANGED << cef, line, timely, pc, mem, args, outcome >>
         /\ UNCHANGED << measured, landings, caught, slips >>
         /\ unserved' \in Seq(Commands) /\ Len(unserved) \in Nat /\ Len(line) \in Nat
         /\ Len(unserved') = Len(unserved) + 1
         /\ unserved'[Len(unserved) + 1] = command'
         /\ \A i \in 1..Len(unserved) : unserved'[i] = unserved[i]
         /\ PortOK'
<1>1. PICK c \in Asked : Ask(c)
  BY DEF Write
<1>2. /\ ~waiting /\ waiting' /\ command' = c /\ unserved' = Append(unserved, c)
      /\ UNCHANGED << cef, line, timely, pc, mem, args, outcome >>
      /\ UNCHANGED << measured, landings, caught, slips >>
  BY <1>1 DEF Ask, Write, program, history
<1>3. c \in Commands
  <2>1. pc \in AllPlaces /\ (pc = "send" => mem.n < Len(Send)) /\ TypeOK
    BY DEF Typed, HistoryOK, QueueOK
  <2>. QED
    BY <2>1, <1>1, AskedAreCommands
<1>4. unserved \in Seq(Commands) /\ line \in Seq(Line)
  BY DEF Typed, PortOK
<1>5. /\ unserved' \in Seq(Commands) /\ Len(unserved) \in Nat /\ Len(line) \in Nat
      /\ Len(unserved') = Len(unserved) + 1
      /\ unserved'[Len(unserved) + 1] = c
      /\ \A i \in 1..Len(unserved) : unserved'[i] = unserved[i]
  BY <1>2, <1>3, <1>4
<1>6. PortOK'
  BY <1>2, <1>3, <1>5 DEF Typed, PortOK, Fits, Speaks, Calibrated
<1>. QED
  BY <1>1, <1>2, <1>3, <1>5, <1>6

(* Receiving takes the oldest answers off the line.                          *)
LEMMA ReceiveFacts ==
  ASSUME Typed, QueueOK, NEW k \in 1..Len(line), Receive(k)
  PROVE  /\ waiting /\ ~waiting' /\ k \in Nat
         /\ UNCHANGED << cef, command, unserved, timely >>
         /\ Reply(k) \in Seq(Answers) /\ Len(Reply(k)) = k
         /\ \A i \in 1..k : Reply(k)[i] = line[i].text /\ Reply(k)[i] \in Answers
                             /\ line[i] \in Line
         /\ line' \in Seq(Line) /\ Len(line') = Len(line) - k
         /\ Len(line) \in Nat /\ Len(unserved) \in Nat
         /\ \A i \in 1..Len(line') : line'[i] = line[k + i]
         /\ unserved \in Seq(Commands)
<1>1. /\ waiting /\ ~waiting' /\ line' = SubSeq(line, k + 1, Len(line))
      /\ UNCHANGED << cef, command, unserved, timely >>
  BY DEF Receive
<1>2. unserved \in Seq(Commands) /\ line \in Seq(Line)
  BY DEF Typed, PortOK
<1>3. /\ k \in Nat /\ k >= 1 /\ k <= Len(line) /\ Len(line) \in Nat /\ Len(unserved) \in Nat
  BY <1>2
<1>4. /\ line' \in Seq(Line) /\ Len(line') = Len(line) - k
      /\ \A i \in 1..Len(line') : line'[i] = line[k + i]
  BY <1>1, <1>2, <1>3
<1>. DEFINE head == SubSeq(line, 1, k)
<1>5. /\ head \in Seq(Line) /\ Len(head) = k /\ \A i \in 1..k : head[i] = line[i]
  BY <1>2, <1>3
<1>6. \A i \in 1..k : line[i] \in Line
  BY <1>2, <1>3
<1>. HIDE DEF head
<1>7. DOMAIN head = 1..k
  BY <1>5
<1>8. Reply(k) = [i \in 1..k |-> head[i].text]
  BY <1>7 DEF Reply, Texts, head
<1>9. \A i \in 1..k : head[i].text \in Answers
  BY <1>5, <1>6 DEF Line
<1>10. Reply(k) \in Seq(Answers) /\ Len(Reply(k)) = k
  BY <1>3, <1>8, <1>9
<1>11. \A i \in 1..k : Reply(k)[i] = line[i].text /\ Reply(k)[i] \in Answers
                             /\ line[i] \in Line
  BY <1>5, <1>6, <1>8, <1>9
<1>. QED
  BY <1>1, <1>2, <1>3, <1>4, <1>10, <1>11

(* What remains of the line is as good as it was.                            *)
LEMMA ReceiveKeepsPort ==
  ASSUME Typed, QueueOK, NEW k \in 1..Len(line), Receive(k), UNCHANGED measured
  PROVE  PortOK'
<1>1. /\ line' \in Seq(Line) /\ Len(line') = Len(line) - k
      /\ Len(line) \in Nat /\ k \in Nat
      /\ \A i \in 1..Len(line') : line'[i] = line[k + i]
      /\ unserved \in Seq(Commands)
      /\ UNCHANGED << cef, command, unserved, timely >>
  BY ReceiveFacts
<1>2. \A i \in 1..Len(line') : Fits(line[i])'
  <2>. SUFFICES ASSUME NEW i \in 1..Len(line') PROVE Fits(line[i])'
    OBVIOUS
  <2>1. k + i \in 1..Len(line) /\ line'[i] = line[k + i]
    BY <1>1
  <2>2. Fits(line[k + i])
    BY <2>1 DEF Typed, PortOK
  <2>. QED
    BY <1>1, <2>1, <2>2 DEF Fits
<1>3. line' # << >> => Speaks(line[Len(line)])'
  <2>. SUFFICES ASSUME line' # << >> PROVE Speaks(line[Len(line)])'
    OBVIOUS
  <2>1. Len(line') \in 1..Len(line') /\ k + Len(line') = Len(line) /\ line # << >>
    BY <1>1
  <2>2. line'[Len(line')] = line[Len(line)]
    BY <1>1, <2>1
  <2>3. Speaks(line[Len(line)])
    BY <2>1 DEF Typed, PortOK
  <2>. QED
    BY <1>1, <2>2, <2>3 DEF Speaks, Calibrated
<1>. QED
  BY <1>1, <1>2, <1>3 DEF Typed, PortOK

(* A question is asked only when no other one waits.                         *)
LEMMA WriteKeepsQueue ==
  ASSUME Typed, QueueOK, Write
  PROVE  QueueOK' /\ Backlog' = Backlog
<1>1. Backlog' = Backlog
  BY WriteFacts DEF Backlog, InFlight
<1>2. pc # "done"
  BY WriteFacts, AskedFacts
<1>3. Asked' = Asked
  BY WriteFacts, ProgramFacts
<1>4. unserved' # << >> /\ unserved'[Len(unserved')] = command'
  BY WriteFacts
<1>. QED
  BY <1>1, <1>2, <1>3, <1>4, WriteFacts DEF QueueOK

(* A command served is still under way, as an answer.                        *)
LEMMA ServedKeepsQueue ==
  ASSUME Typed, QueueOK, Served
  PROVE  QueueOK' /\ Backlog' = Backlog /\ InFlight' = InFlight
<1>0. /\ Len(unserved') = Len(unserved) - 1 /\ Len(line') = Len(line) + 1
      /\ Len(unserved) > 0 /\ Len(unserved) \in Nat /\ Len(line) \in Nat
      /\ line'[Len(line')].of = Head(unserved)
      /\ \A i \in 1..Len(unserved') : unserved'[i] = unserved[i + 1]
      /\ unserved' \in Seq(Commands) /\ line' \in Seq(Line)
  BY ServedKeepsPort DEF PortOK
<1>3. /\ UNCHANGED << waiting, command, pc, mem >> /\ unserved # << >>
      /\ unserved \in Seq(Commands)
  BY ServedFacts DEF Typed, PortOK
<1>1. Backlog' = Backlog /\ InFlight' = InFlight
  <2>1. InFlight' = InFlight
    BY <1>0 DEF InFlight
  <2>2. waiting' = waiting
    BY <1>3
  <2>. QED
    BY <2>1, <2>2 DEF Backlog
<1>2. Asked' = Asked
  BY ServedFacts, ProgramFacts
<1>4. unserved' # << >> => unserved'[Len(unserved')] = unserved[Len(unserved)]
  BY <1>0
<1>5. unserved' = << >> => /\ line' # << >>
                           /\ line'[Len(line')].of = unserved[Len(unserved)]
  <2>. SUFFICES ASSUME unserved' = << >>
                PROVE  /\ line' # << >>
                       /\ line'[Len(line')].of = unserved[Len(unserved)]
    OBVIOUS
  <2>1. Len(unserved) = 1
    BY <1>0
  <2>2. line' # << >>
    BY <1>0
  <2>3. Head(unserved) = unserved[Len(unserved)]
    BY <1>3, <2>1
  <2>. QED
    BY <1>0, <2>2, <2>3
<1>6. unserved # << >>
  BY ServedFacts
<1>. QED
  BY <1>1, <1>2, <1>3, <1>4, <1>5, <1>6 DEF QueueOK

-----------------------------------------------------------------------------
(* The program's steps *)

(* The values a poll counter takes.                                          *)
Polled == 0..(Polls - 1)

(* The types of the local variables.                                         *)
Mem(raw) ==
  [raw : {raw}, after : {"", "start", "retarget", "return", "focus"},
   high : Nat, start : Nat, n : Nat, commanded : Nat, worst : Nat,
   polls : Polled, seen : Seq(Nat)]

(* The local variables a part of the program starts with are typed.          *)
LEMMA IdleTyped == Idle \in Mem(Idle.raw)
<1>1. 0 \in Polled
  BY ProbeAssumption DEF Polled
<1>2. << >> \in Seq(Nat)
  OBVIOUS
<1>. QED
  BY <1>1, <1>2 DEF Idle, Mem

(* Ranges and positions carry a number, and are no status.                   *)
LEMMA AnswerNumbers ==
  ASSUME NEW a \in Answers, a[1] \in {"range", "position"}
  PROVE  /\ a[2] \in Nat /\ a = << a[1], a[2] >>
         /\ a \notin {OK, ER, NC, << "y" >>, << "n" >>}
  BY DEF Answers, OK, ER, NC

\* Where the program may have gone, and what it may remember there.
Moved ==
  /\ mem' \in Mem(mem'.raw) /\ pc' \in AllPlaces /\ args' = args
  /\ pc' = "done" \/ outcome' = "running"
  /\ pc' = "send" => pc = "send" /\ mem'.n = mem.n + 1 /\ mem'.n < Len(Send)
  /\ pc' \notin {"done", "send"} => pc # "send"

(* Every end of main() keeps the types.                                      *)
LEMMA EndMoves ==
  ASSUME Typed, NEW how, End(how)
  PROVE  Moved
  BY IdleTyped DEF End, Moved, AllPlaces, Idle

(* The local variables have their types, one by one.                         *)
LEMMA MemTyped ==
  ASSUME Typed
  PROVE  /\ mem \in Mem(mem.raw) /\ args \in Arguments /\ pc \in AllPlaces
         /\ mem.n \in Nat /\ mem.n + 1 \in Nat
         /\ mem.start \in Nat /\ mem.high \in Nat /\ mem.commanded \in Nat
         /\ mem.worst \in Nat /\ mem.seen \in Seq(Nat)
         /\ 0 \in Polled /\ 1 \in Polled
         /\ mem.polls + 1 < Polls => mem.polls + 1 \in Polled
<1>1. mem \in Mem(mem.raw) /\ args \in Arguments /\ pc \in AllPlaces
  BY DEF Typed, TypeOK, HistoryOK, Mem, Polled
<1>2. /\ mem.start \in Nat /\ mem.high \in Nat /\ mem.commanded \in Nat
      /\ mem.worst \in Nat /\ mem.n \in Nat /\ mem.polls \in Polled
      /\ mem.seen \in Seq(Nat)
  BY <1>1 DEF Mem
<1>3. mem.n + 1 \in Nat
  BY <1>2
<1>4. /\ 0 \in Polled /\ 1 \in Polled
      /\ mem.polls + 1 < Polls => mem.polls + 1 \in Polled
  <2>1. 0 \in Polled /\ 1 \in Polled
    BY ProbeAssumption DEF Polled
  <2>2. \A p \in Polled : p + 1 < Polls => p + 1 \in Polled
    BY ProbeAssumption DEF Polled
  <2>. QED
    BY <1>2, <2>1, <2>2
<1>. QED
  BY <1>1, <1>2, <1>3, <1>4

(* Going on to another question keeps the types if its local variables do.   *)
LEMMA GoMoves ==
  ASSUME Typed, NEW place \in AllPlaces \ {"send", "done"}, NEW m, m \in Mem(m.raw),
         Go(place, m), pc \notin {"done", "send"}
  PROVE  Moved
  BY DEF Go, Moved, Typed, HistoryOK

(* identify() keeps the types.                                               *)
LEMMA IdentifyMoves ==
  ASSUME Typed, NEW reply, Identify(reply)
  PROVE  Moved
<1>1. mem \in Mem(mem.raw)
  BY MemTyped
<1>2. [mem EXCEPT !.raw = reply] \in Mem([mem EXCEPT !.raw = reply].raw)
  BY <1>1 DEF Mem
<1>3. pc \notin {"done", "send"}
  BY DEF Identify
<1>4. {"identify.range", "identify.position", "identify.moving", "test.calibrate"}
        \subseteq AllPlaces \ {"send", "done"}
  BY DEF AllPlaces, IdentifyPlaces
<1>. QED
  BY <1>1, <1>2, <1>3, <1>4, IdleTyped, GoMoves, EndMoves DEF Identify

(* The calibration of the retarget test keeps the types: a range that is     *)
(* used is a number.                                                         *)
LEMMA CalibrateMoves ==
  ASSUME Typed, NEW reply \in Seq(Answers), Len(reply) > 0, ~Raises(reply),
         Calibrate(reply)
  PROVE  Moved
<1>1. mem \in Mem(mem.raw)
  BY MemTyped
<1>2. pc \notin {"done", "send"}
  BY DEF Calibrate
<1>3. {"test.range", "settle.moving"} \subseteq AllPlaces \ {"send", "done"}
  BY DEF AllPlaces, TestPlaces, SettlePlaces
<1>. DEFINE m == [Settle("start") EXCEPT !.high = reply[1][2]]
<1>4. ASSUME pc = "test.range", Usable(reply)
      PROVE  m \in Mem(m.raw)
  <2>1. reply[1] \in Answers /\ IsRange(reply)
    BY <1>4 DEF Raises
  <2>2. reply[1][2] \in Nat
    BY <2>1, AnswerNumbers DEF IsRange
  <2>. QED
    BY <1>1, <2>2, MemTyped DEF Mem, Settle
<1>. HIDE DEF m
<1>5. CASE pc = "test.calibrate"
  BY <1>1, <1>2, <1>3, <1>5, GoMoves, EndMoves DEF Calibrate
<1>6. CASE pc = "test.range" /\ Usable(reply)
  <2>1. Go("settle.moving", m)
    BY <1>6 DEF Calibrate, m
  <2>. QED
    BY <1>2, <1>3, <1>4, <1>6, <2>1, GoMoves
<1>7. CASE pc = "test.range" /\ ~Usable(reply)
  BY <1>7, EndMoves DEF Calibrate
<1>. QED
  BY <1>5, <1>6, <1>7 DEF Calibrate

(* settle()'s polls stay below the deadline.                                 *)
LEMMA SettlePollMoves ==
  ASSUME Typed, NEW reply, SettlePoll(reply)
  PROVE  Moved
<1>1. mem \in Mem(mem.raw)
  BY MemTyped
<1>2. pc \notin {"done", "send"} /\ pc = "settle.moving"
  BY DEF SettlePoll
<1>3. {"settle.moving", "settle.position"} \subseteq AllPlaces \ {"send", "done"}
  BY DEF AllPlaces, SettlePlaces
<1>. DEFINE m == [mem EXCEPT !.polls = @ + 1]
<1>4. mem.polls + 1 < Polls => m \in Mem(m.raw)
  BY <1>1, MemTyped DEF Mem
<1>. HIDE DEF m
<1>. QED
  BY <1>1, <1>2, <1>3, <1>4, GoMoves, EndMoves DEF SettlePoll, m

(* A reply parse_position() accepts is a number.                             *)
LEMMA PositionNumber ==
  ASSUME NEW reply \in Seq(Answers), IsPosition(reply)
  PROVE  Position(reply) \in Nat /\ reply[1] = << "position", Position(reply) >>
<1>1. reply[1] \in Answers /\ reply[1][1] = "position"
  BY DEF IsPosition
<1>. QED
  BY <1>1, AnswerNumbers DEF Position

(* What follows settle() keeps the types.                                    *)
LEMMA SettledMoves ==
  ASSUME Typed, NEW reply \in Seq(Answers), ~Raises(reply), Settled(reply)
  PROVE  Moved /\ UNCHANGED args
<1>1. mem \in Mem(mem.raw) /\ outcome = "running"
  BY MemTyped DEF Typed, HistoryOK, Settled
<1>2. pc = "settle.position" /\ args' = args
  BY DEF Settled
<1>3. Position(reply) \in Nat
  BY <1>2, PositionNumber DEF Raises
<1>. DEFINE place == Position(reply)
            off == IF place < mem.commanded THEN mem.commanded - place
                   ELSE place - mem.commanded
<1>4. off \in Nat
  BY MemTyped, <1>3
<1>5. \/ /\ pc' = "cycle.move" /\ outcome' = outcome
         /\ mem' = [mem EXCEPT !.start = place, !.polls = 0]
      \/ /\ pc' = "test.return" /\ outcome' = outcome
         /\ mem' = [mem EXCEPT !.worst = IF off > @ THEN off ELSE @, !.polls = 0]
      \/ /\ pc' = "cycle.move" /\ outcome' = outcome
         /\ mem' = [mem EXCEPT !.n = @ + 1, !.polls = 0, !.commanded = 0]
      \/ pc' = "done" /\ mem' = Idle
  BY DEF Settled, Off
<1>. HIDE DEF place, off
<1>6. mem' \in Mem(mem'.raw)
  <2>1. place \in Nat /\ 0 \in Polled /\ 0 \in Nat /\ mem.n + 1 \in Nat
        /\ (IF off > mem.worst THEN off ELSE mem.worst) \in Nat
    BY <1>3, <1>4, MemTyped DEF place
  <2>2. ASSUME mem' = [mem EXCEPT !.start = place, !.polls = 0]
        PROVE  mem' \in Mem(mem'.raw)
    BY <1>1, <2>1, <2>2 DEF Mem
  <2>3. ASSUME mem' = [mem EXCEPT !.worst = IF off > @ THEN off ELSE @, !.polls = 0]
        PROVE  mem' \in Mem(mem'.raw)
    BY <1>1, <2>1, <2>3 DEF Mem
  <2>4. ASSUME mem' = [mem EXCEPT !.n = @ + 1, !.polls = 0, !.commanded = 0]
        PROVE  mem' \in Mem(mem'.raw)
    BY <1>1, <2>1, <2>4 DEF Mem
  <2>5. mem' = Idle => mem' \in Mem(mem'.raw)
    BY IdleTyped
  <2>. QED
    BY <1>5, <2>2, <2>3, <2>4, <2>5
<1>. QED
  BY <1>1, <1>2, <1>5, <1>6 DEF Moved, AllPlaces, TestPlaces

(* retarget_cycle() keeps the types.                                         *)
LEMMA CycleMoves ==
  ASSUME Typed, NEW reply \in Seq(Answers), ~Raises(reply), Cycle(reply)
  PROVE  Moved
<1>1. mem \in Mem(mem.raw)
  BY MemTyped
<1>2. pc \notin {"done", "send"}
  BY DEF Cycle
<1>3. {"cycle.moving", "cycle.position", "cycle.retarget", "settle.moving"}
        \subseteq AllPlaces \ {"send", "done"}
  BY DEF AllPlaces, TestPlaces, SettlePlaces
<1>. DEFINE m == [mem EXCEPT !.commanded = Position(reply)]
<1>4. pc = "cycle.position" => m \in Mem(m.raw)
  BY <1>1, PositionNumber DEF Mem, Raises
<1>5. /\ Settle("retarget") \in Mem(Settle("retarget").raw)
      /\ Settle("return") \in Mem(Settle("return").raw)
  BY <1>1, MemTyped DEF Mem, Settle
<1>. HIDE DEF m
<1>. QED
  BY <1>1, <1>2, <1>3, <1>4, <1>5, GoMoves DEF Cycle, m

(* A loop that polls keeps the types.                                        *)
LEMMA PollMoves ==
  ASSUME Typed, NEW reply, NEW place \in AllPlaces \ {"send", "done"}, Poll(reply, place),
         pc \notin {"done", "send"}
  PROVE  Moved
<1>1. mem \in Mem(mem.raw) /\ pc \in AllPlaces \ {"send", "done"}
  BY MemTyped
<1>2. /\ [mem EXCEPT !.polls = 1] \in Mem([mem EXCEPT !.polls = 1].raw)
      /\ [mem EXCEPT !.polls = 0] \in Mem([mem EXCEPT !.polls = 0].raw)
  BY <1>1, MemTyped DEF Mem
<1>. QED
  BY <1>1, <1>2, GoMoves DEF Poll

(* vet() keeps the types: what it appends is a number.                       *)
LEMMA VetTurnMoves ==
  ASSUME Typed, NEW reply \in Seq(Answers), Len(reply) > 0, ~Raises(reply),
         VetTurn(reply)
  PROVE  Moved
<1>1. mem \in Mem(mem.raw)
  BY MemTyped
<1>2. pc \notin {"done", "send"}
  BY DEF VetTurn
<1>3. VetPlaces \subseteq AllPlaces \ {"send", "done"}
  BY DEF AllPlaces, VetPlaces
<1>. DEFINE seen == Append(mem.seen, IF Usable(reply) THEN LastField(reply) ELSE 0)
            m == [mem EXCEPT !.seen = seen]
<1>4. ASSUME pc = "vet.range"
      PROVE  m \in Mem(m.raw)
  <2>1. reply[1] \in Answers /\ reply[Len(reply)] \in Answers
    OBVIOUS
  <2>2. Usable(reply) => LastField(reply) \in Nat
    BY <1>4, <2>1, AnswerNumbers DEF Raises, HasLastField, LastField, IsPosition
  <2>3. seen \in Seq(Nat)
    BY <2>2, MemTyped
  <2>. HIDE DEF seen
  <2>. QED
    BY <1>1, <2>3 DEF Mem
<1>5. CASE pc = "vet.calibrate"
  BY <1>1, <1>2, <1>3, <1>5, GoMoves DEF VetTurn, VetPlaces
<1>6. CASE pc = "vet.moving"
  BY <1>2, <1>3, <1>6, PollMoves DEF VetTurn, VetPlaces
<1>7. CASE pc = "vet.range"
  <2>. HIDE DEF m
  <2>1. Go("vet.calibrate", m) \/ End(Verdict(seen))
    BY <1>7 DEF VetTurn, m
  <2>. QED
    BY <1>2, <1>3, <1>4, <1>7, <2>1, GoMoves, EndMoves DEF VetPlaces
<1>. QED
  BY <1>5, <1>6, <1>7 DEF VetTurn

(* calibrate(), set_aperture() and focus() keep the types.                   *)
LEMMA BenchMoves ==
  ASSUME Typed, NEW reply, Bench(reply)
  PROVE  Moved
<1>1. mem \in Mem(mem.raw)
  BY MemTyped
<1>2. pc \notin {"done", "send"}
  BY DEF Bench
<1>3. BenchPlaces \union {"settle.moving"} \subseteq AllPlaces \ {"send", "done"}
  BY DEF AllPlaces, BenchPlaces, SettlePlaces
<1>4. Settle("focus") \in Mem(Settle("focus").raw)
  BY <1>1, MemTyped DEF Mem, Settle
<1>. QED
  BY <1>1, <1>2, <1>3, <1>4, GoMoves, EndMoves, PollMoves DEF Bench, BenchPlaces

(* scan() keeps the types.                                                   *)
LEMMA ScanTurnMoves ==
  ASSUME Typed, NEW reply, ScanTurn(reply)
  PROVE  Moved
<1>1. mem \in Mem(mem.raw) /\ outcome = "running"
  BY MemTyped DEF Typed, HistoryOK, ScanTurn
<1>2. pc \notin {"done", "send"}
  BY DEF ScanTurn
<1>3. ScanPlaces \subseteq AllPlaces \ {"send", "done"}
  BY DEF AllPlaces, ScanPlaces
<1>4. [mem EXCEPT !.n = @ + 1] \in Mem([mem EXCEPT !.n = @ + 1].raw)
  BY <1>1, MemTyped DEF Mem
<1>5. CASE pc = "scan.position"
  <2>1. UNCHANGED args
    BY <1>5 DEF ScanTurn
  <2>2. \/ pc' = "scan.move" /\ mem' = [mem EXCEPT !.n = @ + 1] /\ outcome' = outcome
        \/ pc' = "done" /\ mem' = Idle
    BY <1>5 DEF ScanTurn
  <2>3. mem' \in Mem(mem'.raw)
    BY <1>4, <2>2, IdleTyped
  <2>. QED
    BY <1>1, <1>5, <2>1, <2>2, <2>3 DEF Moved, AllPlaces, ScanPlaces
<1>6. CASE pc # "scan.position"
  BY <1>1, <1>2, <1>3, <1>6, GoMoves, PollMoves DEF ScanTurn, ScanPlaces
<1>. QED
  BY <1>5, <1>6

(* --send stays within its script.                                           *)
LEMMA SentMoves ==
  ASSUME Typed, Sent
  PROVE  Moved
<1>1. mem \in Mem(mem.raw) /\ pc = "send" /\ outcome = "running"
  BY MemTyped DEF Sent, Typed, HistoryOK
<1>. DEFINE m == [mem EXCEPT !.n = @ + 1]
<1>2. m \in Mem(m.raw) /\ m.n = mem.n + 1
  BY <1>1, MemTyped DEF Mem
<1>. HIDE DEF m
<1>3. CASE mem.n + 1 < Len(Send)
  <2>1. Go("send", m)
    BY <1>1, <1>3 DEF Sent, m
  <2>. QED
    BY <1>1, <1>2, <1>3, <2>1 DEF Go, Moved, AllPlaces
<1>4. CASE ~(mem.n + 1 < Len(Send))
  BY <1>4, EndMoves DEF Sent
<1>. QED
  BY <1>3, <1>4

(* Whatever the program does with a reply keeps the types.                   *)
LEMMA ResumeMoves ==
  ASSUME Typed, NEW reply \in Seq(Answers), Len(reply) > 0, ~Raises(reply),
         Resume(reply)
  PROVE  Moved
  BY IdentifyMoves, CalibrateMoves, SettlePollMoves, SettledMoves, CycleMoves,
     VetTurnMoves, BenchMoves, ScanTurnMoves, SentMoves DEF Resume

(* The types of what is not in HistoryOK and PortOK.                         *)
CoreOK ==
  /\ cef \in Controller /\ waiting \in BOOLEAN /\ timely \in BOOLEAN
  /\ args \in Arguments /\ mem \in Mem(mem.raw)

(* The types and what is under way: the first layer of the invariant.        *)
Base == CoreOK /\ HistoryOK /\ PortOK /\ QueueOK

(* What the queue bounds: there is never more under way than the script of   *)
(* --send and one late answer.                                               *)
LEMMA BaseBounds ==
  ASSUME Base
  PROVE  /\ Len(unserved) \in Nat /\ Len(line) \in Nat /\ InFlight \in Nat
         /\ Len(Send) \in Nat /\ Len(Send) > 0 /\ pc \in AllPlaces /\ mem.n \in Nat
         /\ Backlog = (IF waiting THEN InFlight - 1 ELSE InFlight)
         /\ InFlight <= 1 + Len(Send)
<1>1. /\ Len(unserved) \in Nat /\ Len(line) \in Nat /\ Len(Send) \in Nat /\ Len(Send) > 0
      /\ pc \in AllPlaces
  BY ProbeAssumption DEF Base, PortOK, HistoryOK
<1>2. mem.n \in Nat
  BY DEF Base, CoreOK, Mem
<1>3. InFlight \in Nat
  BY <1>1 DEF InFlight
<1>4. Backlog = (IF waiting THEN InFlight - 1 ELSE InFlight)
  BY <1>3 DEF Backlog
<1>5. InFlight <= Backlog + 1
  BY <1>3, <1>4
<1>6. Backlog \in Int
  BY <1>3, <1>4
<1>7. InFlight <= 1 + Len(Send)
  <2>1. CASE pc = "done"
    BY <2>1 DEF Base, QueueOK
  <2>2. CASE pc = "send"
    <3>1. mem.n < Len(Send) /\ Backlog <= 1 + mem.n
      BY <2>2 DEF Base, QueueOK
    <3>. QED
      BY <1>1, <1>2, <1>3, <1>5, <1>6, <3>1
  <2>3. CASE pc \notin {"done", "send"}
    <3>1. Backlog \in {0, 1}
      BY <2>3 DEF Base, QueueOK
    <3>. QED
      BY <1>1, <1>3, <1>5, <1>6, <3>1
  <2>. QED
    BY <2>1, <2>2, <2>3
<1>. QED
  BY <1>1, <1>2, <1>3, <1>4, <1>7

(* The first layer implies the type invariant of the runs.                   *)
LEMMA BaseIsTyped ==
  ASSUME Base
  PROVE  Typed /\ QueueOK
<1>1. Len(unserved) <= 1 + Len(Send) /\ Len(line) <= 1 + Len(Send)
  BY BaseBounds DEF InFlight
<1>2. TypeOK
  BY <1>1 DEF Base, CoreOK, Mem, Polled, TypeOK
<1>. QED
  BY <1>2 DEF Base, Typed

(* The first layer holds when the session starts, with an answer owed or     *)
(* without.                                                                  *)
LEMMA InitBase ==
  ASSUME Init
  PROVE  Base
<1>1. First \in AllPlaces \ {"cycle.move"}
  BY DEF First, AllPlaces, IdentifyPlaces, VetPlaces, BenchPlaces, ScanPlaces
<1>2. /\ cef \in Controller /\ command = << >> /\ unserved = << >> /\ ~waiting
      /\ args \in Arguments /\ pc = First /\ mem = Idle
      /\ outcome = (IF pc = "done" THEN "ok" ELSE "running")
      /\ measured = << >> /\ caught = FALSE /\ slips = 0
      /\ waiting \in BOOLEAN /\ timely \in BOOLEAN
      /\ \/ line = << >>
         \/ \E text \in Late : line = << [of |-> << >>, text |-> text] >>
  BY FoundAssumption DEF Init, Open, Start
<1>3. CoreOK
  BY <1>2, IdleTyped DEF CoreOK
<1>4. HistoryOK
  <2>1. << >> \in Seq(Nat)
    OBVIOUS
  <2>. QED
    BY <1>1, <1>2, <2>1 DEF HistoryOK
<1>5. PortOK /\ Len(line) \in {0, 1}
  <2>1. << >> \in Seq(Commands) /\ << >> \in Seq(Line)
    OBVIOUS
  <2>2. CASE line = << >>
    BY <1>2, <2>1, <2>2 DEF PortOK
  <2>3. ASSUME NEW text \in Late, line = << [of |-> << >>, text |-> text] >>
        PROVE  PortOK /\ Len(line) \in {0, 1}
    <3>. DEFINE a == [of |-> << >>, text |-> text]
    <3>1. a \in Line /\ a.of = << >>
      BY <2>3, PortAssumption DEF Line
    <3>2. << >> # << "e" >> /\ << >> # << "f" >> /\ << >> # << "r" >> /\ << >> # << "c" >>
          /\ << >> \notin {"m"} \X Nat
      OBVIOUS
    <3>3. Fits(a) /\ Speaks(a)
      BY <3>1, <3>2 DEF Fits, Speaks
    <3>4. line = << a >>
      BY <2>3
    <3>. HIDE DEF a
    <3>5. line \in Seq(Line) /\ Len(line) = 1 /\ line[1] = a
      BY <3>1, <3>4
    <3>. QED
      BY <1>2, <2>1, <3>3, <3>5 DEF PortOK
  <2>. QED
    BY <1>2, <2>2, <2>3
<1>6. QueueOK
  <2>1. Len(unserved) = 0
    BY <1>2
  <2>5. InFlight \in {0, 1}
    BY <1>5, <2>1 DEF InFlight
  <2>6. Backlog = InFlight - 0
    BY <1>2 DEF Backlog
  <2>2. Backlog \in {0, 1} /\ InFlight <= 1 /\ InFlight \in Nat
    BY <2>5, <2>6
  <2>3. Len(Send) \in Nat /\ Len(Send) > 0
    BY ProbeAssumption
  <2>4. mem.n = 0
    BY <1>2 DEF Idle
  <2>. QED
    BY <1>2, <2>2, <2>3, <2>4 DEF QueueOK
<1>. QED
  BY <1>3, <1>4, <1>5, <1>6 DEF Base

(* Asking keeps the first layer.                                             *)
LEMMA WriteKeepsBase ==
  ASSUME Base, Write
  PROVE  Base'
<1>1. Typed /\ QueueOK
  BY BaseIsTyped
<1>2. PortOK' /\ QueueOK'
  BY <1>1, WriteFacts, WriteKeepsQueue
<1>3. CoreOK' /\ HistoryOK'
  BY <1>1, WriteFacts DEF Base, CoreOK, HistoryOK
<1>. QED
  BY <1>2, <1>3 DEF Base

(* Serving keeps the first layer.                                            *)
LEMMA ServedKeepsBase ==
  ASSUME Base, Served
  PROVE  Base'
<1>1. Typed /\ QueueOK
  BY BaseIsTyped
<1>2. PortOK' /\ QueueOK'
  BY <1>1, ServedKeepsPort, ServedKeepsQueue
<1>3. CoreOK'
  BY <1>1, ServedFacts DEF Base, CoreOK, Answered
<1>4. HistoryOK'
  BY <1>1, ServedFacts, ServedKeepsPort DEF Base, HistoryOK
<1>. QED
  BY <1>2, <1>3, <1>4 DEF Base

\* What a Read or a GiveUp leaves of the queue, when it moved the program.
LEMMA MovedKeepsBase ==
  ASSUME Base, Moved, PortOK', waiting' = FALSE, waiting, timely' \in BOOLEAN, cef' = cef,
         measured' = measured, caught' = caught, slips' = slips,
         NEW k \in Nat, InFlight' = InFlight - k, pc # "send" /\ pc' # "done" => k > 0
  PROVE  Base'
<1>1. waiting' \in BOOLEAN /\ pc # "done"
  BY DEF Base, QueueOK
<1>2. CoreOK' /\ HistoryOK'
  BY <1>1 DEF Base, CoreOK, HistoryOK, Moved
<1>3. /\ InFlight \in Nat /\ InFlight <= 1 + Len(Send) /\ Backlog = InFlight - 1
      /\ Len(Send) \in Nat /\ mem.n \in Nat
  BY BaseBounds
<1>4. InFlight' \in Nat
  BY DEF InFlight, PortOK
<1>5. Backlog' = InFlight'
  BY <1>4 DEF Backlog
<1>6. CASE pc' = "done"
  <2>1. InFlight' <= 1 + Len(Send)
    BY <1>3, <1>4
  <2>2. QueueOK'
    BY <1>6, <2>1 DEF QueueOK
  <2>. QED
    BY <1>2, <2>2 DEF Base
<1>7. CASE pc' = "send"
  <2>1. pc = "send" /\ mem'.n = mem.n + 1 /\ mem'.n < Len(Send)
    BY <1>7 DEF Moved
  <2>2. Backlog <= 1 + mem.n
    BY <2>1 DEF Base, QueueOK
  <2>3. Backlog' <= 1 + mem'.n
    BY <1>3, <1>4, <1>5, <2>1, <2>2
  <2>4. QueueOK'
    BY <1>7, <2>1, <2>3 DEF QueueOK
  <2>. QED
    BY <1>2, <2>4 DEF Base
<1>8. CASE pc' \notin {"done", "send"}
  <2>1. pc # "send" /\ k > 0
    BY <1>8 DEF Moved
  <2>2. Backlog \in {0, 1}
    BY <1>1, <2>1 DEF Base, QueueOK
  <2>3. Backlog' \in {0, 1}
    BY <1>3, <1>4, <1>5, <2>1, <2>2
  <2>4. QueueOK'
    BY <1>8, <2>3 DEF QueueOK
  <2>. QED
    BY <1>2, <2>4 DEF Base
<1>. QED
  BY <1>6, <1>7, <1>8

(* Reading a reply keeps the first layer, however many lines it has.         *)
LEMMA ReadKeepsBase ==
  ASSUME Base, Read
  PROVE  Base'
<1>1. Typed /\ QueueOK
  BY BaseIsTyped
<1>2. PICK k \in 1..Len(line) :
        /\ Receive(k)
        /\ IF Raises(Reply(k)) THEN End("failed") ELSE Resume(Reply(k))
        /\ UNCHANGED << measured, caught, slips >>
  BY DEF Read
<1>3. /\ Reply(k) \in Seq(Answers) /\ Len(Reply(k)) > 0 /\ waiting
      /\ cef' = cef /\ timely' = timely /\ k \in Nat /\ k > 0
      /\ unserved' = unserved /\ Len(line') = Len(line) - k
  BY <1>1, <1>2, ReceiveFacts
<1>8. waiting' = FALSE
  BY <1>2 DEF Receive
<1>4. Moved
  BY <1>1, <1>2, <1>3, ResumeMoves, EndMoves
<1>5. PortOK'
  BY <1>1, <1>2, ReceiveKeepsPort
<1>6. InFlight' = InFlight - k
  BY <1>3, BaseBounds DEF InFlight
<1>7. timely' \in BOOLEAN
  BY <1>3 DEF Base, CoreOK
<1>. QED
  BY <1>2, <1>3, <1>4, <1>5, <1>6, <1>7, <1>8, MovedKeepsBase

(* A timeout keeps the first layer: it leaves one question more under way,   *)
(* and ends the session or goes on in the script.                            *)
LEMMA GiveUpKeepsBase ==
  ASSUME Base, GiveUp
  PROVE  Base'
<1>1. Typed /\ QueueOK
  BY BaseIsTyped
<1>2. /\ waiting /\ waiting' = FALSE /\ cef' = cef /\ timely' \in BOOLEAN
      /\ UNCHANGED << command, unserved, line, measured, caught, slips >>
  BY DEF GiveUp, TimeOut
<1>3. PortOK'
  BY <1>1, <1>2 DEF Typed, PortOK, Fits, Speaks, Calibrated
<1>4. Moved /\ (pc # "send" => pc' = "done")
  <2>1. CASE pc = "send" /\ Sent
    BY <1>1, <2>1, SentMoves
  <2>2. CASE End("failed")
    BY <1>1, <2>2, EndMoves DEF End
  <2>. QED
    BY <2>1, <2>2 DEF GiveUp
<1>5. InFlight' = InFlight - 0
  BY <1>2, BaseBounds DEF InFlight
<1>6. 0 \in Nat
  OBVIOUS
<1>. QED
  <2>1. PICK k \in Nat : k = 0
    OBVIOUS
  <2>2. InFlight' = InFlight - k
    BY <1>5, <2>1
  <2>. QED
    BY <1>2, <1>3, <1>4, <2>2, MovedKeepsBase

(* Every step keeps the first layer.                                         *)
LEMMA StepKeepsBase ==
  ASSUME Base, [Next]_vars
  PROVE  Base'
<1>1. CASE Write
  BY <1>1, WriteKeepsBase
<1>2. CASE Read
  BY <1>2, ReadKeepsBase
<1>3. CASE GiveUp
  BY <1>3, GiveUpKeepsBase
<1>4. CASE Served
  BY <1>4, ServedKeepsBase
<1>5. CASE UNCHANGED vars
  <2>1. /\ UNCHANGED << cef, command, unserved, line, waiting, timely >>
        /\ UNCHANGED << args, pc, mem, outcome, measured, caught, slips >>
    BY <1>5 DEF vars, port, program, history
  <2>2. Asked' = Asked
    BY <2>1, ProgramFacts
  <2>3. InFlight' = InFlight /\ Backlog' = Backlog
    BY <2>1 DEF InFlight, Backlog
  <2>4. CoreOK' /\ HistoryOK'
    BY <2>1 DEF Base, CoreOK, HistoryOK
  <2>5. PortOK'
    BY <2>1 DEF Base, PortOK, Fits, Speaks, Calibrated
  <2>6. QueueOK'
    BY <2>1, <2>2, <2>3 DEF Base, QueueOK
  <2>. QED
    BY <2>4, <2>5, <2>6 DEF Base
<1>. QED
  BY <1>1, <1>2, <1>3, <1>4, <1>5 DEF Next, Probe

(* The probe keeps its types: the script of --send, the polls of settle()    *)
(* and the queues stay within their bounds in every session.                 *)
THEOREM ProbeTypeCorrect == Spec => []TypeOK
<1>1. Base => TypeOK
  BY BaseIsTyped DEF Typed
<1>. QED
  BY <1>1, InitBase, StepKeepsBase, PTL DEF Spec

(* Wherever the lens is in a range as long as --travel, the retarget test    *)
(* finds a place to move to that is inside the range and is not where the    *)
(* lens is.                                                                  *)
THEOREM AlwaysRoomToMove == Spec => []RoomToMove
<1>1. TypeOK => RoomToMove
  BY NumbersAreInts DEF RoomToMove, CycleTarget
<1>. QED
  BY <1>1, ProbeTypeCorrect, PTL

-----------------------------------------------------------------------------
(* One reply *)

\* The answer that is due first.
Overdue == IF line # << >> THEN line[1].of ELSE unserved[1]

\* The reply is the answer to the question, ...
Alone(reply) ==
  /\ Backlog' = 0 /\ unserved = << >> /\ unserved' = << >> /\ line' = << >>
  /\ Len(line) = 1 /\ line[1].of = command /\ reply = << line[1].text >>
  /\ Fits(line[1]) /\ Speaks(line[1])

\* ... the answer to the question before, ...
Behind(reply) ==
  /\ Backlog' = 1 /\ Overdue' = command /\ unserved' = unserved
  /\ Len(line) > 0 /\ line[1].of = Overdue /\ reply = << line[1].text >>
  /\ Fits(line[1])
  /\ (unserved # << >> => Len(unserved) = 1 /\ unserved[1] = command)

\* ... or both in one.
Resynced(reply) ==
  /\ Backlog' = 0 /\ unserved = << >> /\ unserved' = << >> /\ line' = << >>
  /\ Len(line) = 2 /\ line[2].of = command
  /\ Len(reply) = 2 /\ reply[1] = line[1].text /\ reply[2] = line[2].text
  /\ Fits(line[1]) /\ Fits(line[2]) /\ Speaks(line[2])

(* One reply taken, and what it can be.                                      *)
Turn(reply) ==
  /\ waiting /\ waiting' = FALSE /\ pc # "done" /\ outcome = "running"
  /\ command \in Asked
  /\ UNCHANGED << cef, timely, measured, caught, slips >>
  /\ reply \in Seq(Answers) /\ Len(reply) > 0
  /\ IF Raises(reply) THEN End("failed") ELSE Resume(reply)
  /\ Backlog = 0 => Alone(reply)
  /\ Backlog = 1 => Behind(reply) \/ Resynced(reply)

(* Every reply is one of the three when at most one answer is overdue.       *)
LEMMA ReadTurn ==
  ASSUME Base, Read
  PROVE  \E reply : Turn(reply)
<1>1. Typed /\ QueueOK
  BY BaseIsTyped
<1>2. PICK k \in 1..Len(line) :
        /\ Receive(k)
        /\ IF Raises(Reply(k)) THEN End("failed") ELSE Resume(Reply(k))
        /\ UNCHANGED << measured, caught, slips >>
  BY DEF Read
<1>3. /\ Reply(k) \in Seq(Answers) /\ Len(Reply(k)) = k /\ k \in Nat /\ k > 0
      /\ waiting /\ UNCHANGED << cef, command, unserved, timely >>
      /\ \A i \in 1..k : Reply(k)[i] = line[i].text
      /\ Len(line) \in Nat /\ Len(unserved) \in Nat
      /\ line' \in Seq(Line) /\ Len(line') = Len(line) - k
      /\ \A i \in 1..Len(line') : line'[i] = line[k + i]
      /\ unserved \in Seq(Commands)
  <2>1. Receive(k)
    BY <1>2
  <2>2. /\ Reply(k) \in Seq(Answers) /\ Len(Reply(k)) = k /\ k \in Nat
        /\ waiting /\ UNCHANGED << cef, command, unserved, timely >>
        /\ \A i \in 1..k : Reply(k)[i] = line[i].text
        /\ Len(line) \in Nat /\ Len(unserved) \in Nat
        /\ line' \in Seq(Line) /\ Len(line') = Len(line) - k
        /\ \A i \in 1..Len(line') : line'[i] = line[k + i]
        /\ unserved \in Seq(Commands)
    BY <1>1, <2>1, ReceiveFacts, Zenon
  <2>3. k > 0
    BY <2>2
  <2>. QED
    BY <2>2, <2>3
<1>4. waiting' = FALSE
  BY <1>2 DEF Receive
<1>5. /\ command \in Asked
      /\ (unserved # << >> => unserved[Len(unserved)] = command)
      /\ (unserved = << >> => line # << >> /\ line[Len(line)].of = command)
      /\ pc # "done" /\ outcome = "running"
  BY <1>1, <1>3 DEF QueueOK, Typed, HistoryOK
<1>6. /\ \A i \in 1..Len(line) : Fits(line[i])
      /\ Len(line) > 0 => Speaks(line[Len(line)])
  BY <1>1 DEF Typed, PortOK
<1>7. InFlight = Backlog + 1 /\ Backlog' = InFlight' /\ InFlight' = InFlight - k
      /\ Len(line) + Len(unserved) = Backlog + 1 /\ Backlog \in Int
  <2>1. InFlight = Backlog + 1 /\ InFlight = Len(unserved) + Len(line)
    BY <1>3, BaseBounds DEF InFlight
  <2>2. InFlight' = InFlight - k
    BY <1>3, <2>1 DEF InFlight
  <2>3. Backlog' = InFlight' - 0
    BY <1>4 DEF Backlog
  <2>4. InFlight \in Int
    BY <1>3, BaseBounds
  <2>5. Backlog = InFlight - 1
    BY <1>3, BaseBounds, Zenon
  <2>6. InFlight' \in Int
    BY <1>3, <2>2, <2>4
  <2>. QED
    BY <2>1, <2>2, <2>3, <2>4, <2>5, <2>6
<1>. DEFINE reply == Reply(k)
<1>8. /\ reply \in Seq(Answers) /\ Len(reply) = k
      /\ \A i \in 1..k : reply[i] = line[i].text
      /\ IF Raises(reply) THEN End("failed") ELSE Resume(reply)
  BY <1>2, <1>3
<1>. HIDE DEF reply
<1>9. k = 1 => reply = << line[1].text >>
  BY <1>8
<1>10. ASSUME Backlog = 0 PROVE Alone(reply)
  <2>1. Len(line) = 1 /\ Len(unserved) = 0 /\ k = 1 /\ Backlog' = 0
    BY <1>3, <1>7, <1>10
  <2>2. unserved = << >> /\ unserved' = << >>
    BY <1>3, <2>1
  <2>3. Len(line') = 0
    BY <1>3, <2>1
  <2>4. line' = << >>
    BY <1>3, <2>3
  <2>5. Fits(line[1]) /\ Speaks(line[1]) /\ line[1].of = command
    BY <1>5, <1>6, <2>1, <2>2
  <2>. QED
    BY <1>9, <2>1, <2>2, <2>4, <2>5 DEF Alone
<1>11. ASSUME Backlog = 1 PROVE Behind(reply) \/ Resynced(reply)
  <2>1. Len(line) + Len(unserved) = 2 /\ Len(line) >= 1 /\ k \in {1, 2} /\ k <= Len(line)
    BY <1>3, <1>7, <1>11
  <2>2. CASE k = 1
    <3>1. Backlog' = 1 /\ Len(line') = Len(line) - 1
      BY <1>3, <1>7, <1>11, <2>2
    <3>2. line[1].of = Overdue /\ Fits(line[1])
      BY <1>6, <2>1 DEF Overdue
    <3>3. Len(line) \in {1, 2} /\ (Len(line) = 1 => Len(unserved) = 1)
          /\ (Len(line) = 2 => Len(unserved) = 0)
      <4>1. Len(line) \in Nat /\ Len(unserved) \in Nat
        BY <1>3
      <4>2. \A m, n \in Nat : m + n = 2 /\ m >= 1 =>
               m \in {1, 2} /\ (m = 1 => n = 1) /\ (m = 2 => n = 0)
        OBVIOUS
      <4>. QED
        BY <2>1, <4>1, <4>2
    <3>4. Overdue' = command
      <4>1. CASE Len(line) = 1
        <5>0. Len(unserved) = 1 /\ unserved # << >>
          BY <3>3, <4>1
        <5>1. unserved[1] = command
          BY <1>5, <5>0
        <5>2. Len(line') = 0
          BY <3>1, <4>1
        <5>3. line' = << >>
          BY <1>3, <5>2
        <5>. QED
          BY <1>3, <5>0, <5>1, <5>3 DEF Overdue
      <4>2. CASE Len(line) = 2
        <5>1. Len(line') = 1
          BY <3>1, <4>2
        <5>2. line' # << >> /\ line'[1] = line[2]
          BY <1>3, <2>2, <5>1
        <5>3. Len(unserved) = 0
          BY <3>3, <4>2
        <5>4. unserved = << >>
          BY <1>3, <5>3
        <5>5. line[2].of = command
          BY <1>5, <4>2, <5>4
        <5>. QED
          BY <5>2, <5>5 DEF Overdue
      <4>. QED
        BY <3>3, <4>1, <4>2
    <3>5. unserved # << >> => Len(unserved) = 1 /\ unserved[1] = command
      BY <1>3, <1>5, <3>3
    <3>. QED
      BY <1>3, <1>9, <2>1, <2>2, <3>1, <3>2, <3>4, <3>5 DEF Behind
  <2>3. CASE k = 2
    <3>1. Len(line) = 2 /\ Len(unserved) = 0 /\ Backlog' = 0 /\ Len(line') = 0
      BY <1>3, <1>7, <1>11, <2>1, <2>3
    <3>2. unserved = << >> /\ unserved' = << >> /\ line' = << >>
      BY <1>3, <3>1
    <3>3. Fits(line[1]) /\ Fits(line[2]) /\ Speaks(line[2]) /\ line[2].of = command
      BY <1>5, <1>6, <3>1, <3>2
    <3>4. Len(reply) = 2 /\ reply[1] = line[1].text /\ reply[2] = line[2].text
      BY <1>8, <2>3
    <3>. QED
      BY <3>1, <3>2, <3>3, <3>4 DEF Resynced
  <2>. QED
    BY <2>1, <2>2, <2>3
<1>12. Turn(reply)
  BY <1>2, <1>3, <1>4, <1>5, <1>8, <1>10, <1>11 DEF Turn
<1>. QED
  BY <1>12

(* A question served: the answer that is due first stays the same.           *)
LEMMA ServedOverdue ==
  ASSUME Base, Served
  PROVE  /\ Overdue' = Overdue
         /\ waiting /\ Backlog = 0 =>
              /\ Len(unserved) = 1 /\ line = << >> /\ Head(unserved) = command
              /\ command \in Asked /\ Len(line') = 1 /\ unserved' = << >>
              /\ line'[1].of = command
<1>1. Typed /\ QueueOK
  BY BaseIsTyped
<1>2. /\ Len(unserved) > 0 /\ Len(unserved) \in Nat /\ Len(line) \in Nat
      /\ Len(line') = Len(line) + 1 /\ Len(unserved') = Len(unserved) - 1
      /\ \A i \in 1..Len(line) : line'[i] = line[i]
      /\ line'[Len(line')].of = Head(unserved)
      /\ unserved \in Seq(Commands) /\ line \in Seq(Line)
      /\ unserved' \in Seq(Commands)
  BY <1>1, ServedKeepsPort DEF Typed, PortOK
<1>3. Head(unserved) = unserved[1] /\ unserved # << >>
  BY <1>2
<1>4. Overdue' = Overdue
  <2>1. CASE line = << >>
    <3>1. Len(line') = 1
      BY <1>2, <2>1
    <3>2. line' # << >>
      BY <3>1
    <3>3. line'[Len(line')].of = Head(unserved)
      BY <1>2
    <3>4. line'[1].of = unserved[1]
      BY <1>3, <3>1, <3>3
    <3>. QED
      BY <2>1, <3>2, <3>4 DEF Overdue
  <2>2. CASE line # << >>
    <3>1. 1 \in 1..Len(line) /\ line' # << >>
      BY <1>2, <2>2
    <3>. QED
      BY <1>2, <2>2, <3>1 DEF Overdue
  <2>. QED
    BY <2>1, <2>2
<1>5. ASSUME waiting, Backlog = 0
      PROVE  /\ Len(unserved) = 1 /\ line = << >> /\ Head(unserved) = command
             /\ command \in Asked /\ Len(line') = 1 /\ unserved' = << >>
             /\ line'[1].of = command
  <2>1. InFlight = 1
    BY <1>5, BaseBounds
  <2>2. Len(unserved) = 1 /\ Len(line) = 0 /\ Len(unserved') = 0 /\ Len(line') = 1
    BY <1>2, <2>1 DEF InFlight
  <2>3. unserved[1] = command /\ command \in Asked
    BY <1>1, <1>3, <1>5, <2>2 DEF QueueOK
  <2>. QED
    BY <1>2, <1>3, <2>2, <2>3
<1>. QED
  BY <1>4, <1>5

(* Outside main()'s end and --send, a question served while nothing is       *)
(* overdue is the one that is being asked.                                   *)
LEMMA ServedAlone ==
  ASSUME Base, Served, Backlog = 0
  PROVE  /\ waiting /\ line = << >> /\ Head(unserved) = command
         /\ command \in Asked /\ Len(line') = 1 /\ unserved' = << >>
         /\ line'[1].of = command /\ Answered(command, line'[1].text)
         /\ Recorded(command) /\ Len(unserved) = 1
<1>1. Typed /\ QueueOK
  BY BaseIsTyped
<1>3. InFlight > 0
  BY <1>1, ServedKeepsPort DEF InFlight
<1>4. waiting
  BY <1>3, BaseBounds
<1>5. /\ Len(unserved) = 1 /\ line = << >> /\ Head(unserved) = command
      /\ command \in Asked /\ Len(line') = 1 /\ unserved' = << >>
      /\ line'[1].of = command
  BY <1>4, ServedOverdue
<1>6. Answered(Head(unserved), line'[Len(line')].text) /\ Recorded(Head(unserved))
  BY <1>1, ServedKeepsPort, ServedFacts
<1>. QED
  BY <1>4, <1>5, <1>6

-----------------------------------------------------------------------------
(* Steps seen from the program *)

(* A timeout ends the session, or --send goes on; nothing else changes.      *)
LEMMA GiveUpFacts ==
  ASSUME GiveUp
  PROVE  /\ waiting /\ waiting' = FALSE /\ timely' = FALSE
         /\ UNCHANGED << cef, command, unserved, line, measured, caught, slips >>
         /\ UNCHANGED << args, landings >>
         /\ pc' \in {"send", "done"} /\ (pc' = "done" \/ outcome' = outcome)
         /\ (pc' = "done" => outcome' \in {"failed", "ok"})
         /\ (pc' = "send" => pc = "send")
         /\ ~Driving'
  BY DEF GiveUp, TimeOut, Sent, Go, End, Driving, TestPlaces, SettlePlaces

(* A step that changes nothing changes none of what is defined of the state. *)
LEMMA StillFacts ==
  ASSUME UNCHANGED vars
  PROVE  /\ UNCHANGED << cef, command, unserved, line, waiting, timely >>
         /\ UNCHANGED << args, pc, mem, outcome, measured, landings, caught, slips >>
         /\ Backlog' = Backlog /\ Overdue' = Overdue /\ Driving' = Driving
         /\ Asked' = Asked /\ First' = First
<1>1. /\ UNCHANGED << cef, command, unserved, line, waiting, timely >>
      /\ UNCHANGED << args, pc, mem, outcome, measured, landings, caught, slips >>
  BY DEF vars, port, program, history
<1>. QED
  BY <1>1, ProgramFacts DEF Backlog, InFlight, Overdue

(* Asking changes nothing but the queue.                                     *)
LEMMA WriteStill ==
  ASSUME Base, Write
  PROVE  /\ UNCHANGED << cef, line, timely, pc, mem, args, outcome >>
         /\ UNCHANGED << measured, landings, caught, slips >>
         /\ ~waiting /\ waiting' /\ command' \in Asked
         /\ Backlog' = Backlog /\ Driving' = Driving /\ First' = First /\ pc # "done"
         /\ Backlog = 1 => Overdue' = Overdue
         /\ Len(unserved') = Len(unserved) + 1
         /\ unserved'[Len(unserved) + 1] = command'
         /\ \A i \in 1..Len(unserved) : unserved'[i] = unserved[i]
<1>1. Typed /\ QueueOK
  BY BaseIsTyped
<1>2. /\ UNCHANGED << cef, line, timely, pc, mem, args, outcome >>
      /\ UNCHANGED << measured, landings, caught, slips >>
      /\ ~waiting /\ waiting' /\ command' \in Asked
      /\ Len(unserved') = Len(unserved) + 1
      /\ unserved'[Len(unserved) + 1] = command'
      /\ \A i \in 1..Len(unserved) : unserved'[i] = unserved[i]
      /\ Len(unserved) \in Nat /\ Len(line) \in Nat
  BY <1>1, WriteFacts
<1>3. Backlog' = Backlog
  BY <1>1, WriteKeepsQueue
<1>4. ASSUME Backlog = 1 PROVE Overdue' = Overdue
  <2>1. CASE line # << >>
    BY <1>2, <2>1 DEF Overdue
  <2>2. CASE line = << >>
    <3>1. Len(unserved) = 1
      BY <1>2, <1>4, <2>2, BaseBounds DEF InFlight
    <3>. QED
      BY <1>2, <2>2, <3>1 DEF Overdue
  <2>. QED
    BY <2>1, <2>2
<1>5. Driving' = Driving /\ First' = First
  BY <1>2, ProgramFacts
<1>6. pc # "done"
  BY <1>2, AskedFacts
<1>. QED
  BY <1>2, <1>3, <1>4, <1>5, <1>6

(* The retarget test is reached only through a calibration that succeeded.   *)
LEMMA DrivingFrom ==
  ASSUME Base, NEW reply, Turn(reply), Driving'
  PROVE  \/ Driving
         \/ pc = "test.calibrate" /\ reply = << OK >> /\ pc' = "test.range" /\ mem' = mem
<1>0. mem \in Mem(mem.raw)
  BY DEF Base, CoreOK
<1>1. ~Raises(reply) /\ Resume(reply)
  BY DEF Turn, End, Driving, TestPlaces, SettlePlaces
<1>2. CASE Identify(reply)
  BY <1>2 DEF Identify, Go, End, Driving, TestPlaces, SettlePlaces
<1>3. CASE Calibrate(reply)
  BY <1>3 DEF Calibrate, Go, End, Driving, TestPlaces, SettlePlaces, Settle
<1>4. CASE SettlePoll(reply)
  <2>1. CASE pc' = "settle.moving"
    <3>1. mem' = [mem EXCEPT !.polls = @ + 1]
      BY <1>4, <2>1 DEF SettlePoll, Go, End
    <3>2. mem'.after = mem.after /\ pc = "settle.moving"
      BY <1>0, <1>4, <3>1 DEF Mem, SettlePoll
    <3>. QED
      BY <2>1, <3>2 DEF Driving, TestPlaces, SettlePlaces
  <2>2. CASE pc' # "settle.moving"
    BY <1>4, <2>2 DEF SettlePoll, Go, End, Driving, TestPlaces, SettlePlaces
  <2>. QED
    BY <2>1, <2>2
<1>5. CASE Settled(reply)
  BY <1>5 DEF Settled, Driving, TestPlaces, SettlePlaces
<1>6. CASE Cycle(reply)
  BY <1>6 DEF Cycle, Driving, TestPlaces
<1>7. CASE VetTurn(reply)
  BY <1>7 DEF VetTurn, Poll, Go, End, Driving, TestPlaces, SettlePlaces
<1>8. CASE Bench(reply)
  <2>1. CASE pc = "focus.move"
    <3>1. mem'.after = "focus" /\ pc' = "settle.moving"
      BY <1>0, <1>8, <2>1 DEF Bench, Go, Settle, Mem
    <3>. QED
      BY <3>1 DEF Driving, TestPlaces
  <2>2. CASE pc # "focus.move"
    BY <1>8, <2>2 DEF Bench, Poll, Go, End, Driving, TestPlaces, SettlePlaces
  <2>. QED
    BY <2>1, <2>2
<1>9. CASE ScanTurn(reply)
  BY <1>9 DEF ScanTurn, Poll, Go, End, Driving, TestPlaces, SettlePlaces
<1>10. CASE Sent
  BY <1>10 DEF Sent, Go, End, Driving, TestPlaces, SettlePlaces
<1>. QED
  BY <1>1, <1>2, <1>3, <1>4, <1>5, <1>6, <1>7, <1>8, <1>9, <1>10 DEF Resume

(* Where a calibration is asked for in the retarget test.                    *)
LEMMA TestCalibrateFrom ==
  ASSUME NEW reply, Turn(reply), pc' = "test.calibrate"
  PROVE  pc = "identify.moving" /\ mem' = Idle
<1>1. ~Raises(reply) /\ Resume(reply)
  BY DEF Turn, End
<1>2. ~Settled(reply)
  BY DEF Settled
<1>. QED
  BY <1>1, <1>2 DEF Resume, Identify, Calibrate, SettlePoll, Cycle, VetTurn, Bench,
     ScanTurn, Sent, Poll, Go, End

-----------------------------------------------------------------------------
(* In step *)

(* The second layer: nothing is overdue in time or in the retarget test, and *)
(* what is overdue when it calibrates cannot be taken for a calibration.     *)
SyncOK ==
  /\ timely \/ Driving => Backlog = 0
  /\ pc = "test.calibrate" => mem = Idle /\ (Backlog = 1 => Overdue = << "e" >>)

(* A session starts in step, or has not been in time from the beginning.     *)
LEMMA InitSync ==
  ASSUME Init
  PROVE  SyncOK
<1>1. First \notin TestPlaces \union SettlePlaces \union {"test.calibrate"}
  BY DEF First, TestPlaces, SettlePlaces
<1>2. pc = First /\ ~waiting /\ unserved = << >>
      /\ (timely => line = << >>)
  BY DEF Init, Open, Start
<1>3. timely => Backlog = 0
  BY <1>2 DEF Backlog, InFlight
<1>4. ~Driving /\ pc # "test.calibrate"
  BY <1>1, <1>2 DEF Driving
<1>. QED
  BY <1>3, <1>4 DEF SyncOK

(* Asking stays in step.                                                     *)
LEMMA WriteKeepsSync ==
  ASSUME Base, SyncOK, Write
  PROVE  SyncOK'
  BY WriteStill DEF SyncOK

(* Serving stays in step.                                                    *)
LEMMA ServedKeepsSync ==
  ASSUME Base, SyncOK, Served
  PROVE  SyncOK'
<1>1. Backlog' = Backlog
  BY BaseIsTyped, ServedKeepsQueue
<1>2. UNCHANGED << timely, pc, mem, args >>
  BY BaseIsTyped, ServedFacts
<1>3. Driving' = Driving
  BY <1>2, ProgramFacts
<1>4. Overdue' = Overdue
  BY ServedOverdue
<1>. QED
  BY <1>1, <1>2, <1>3, <1>4 DEF SyncOK

(* Reading stays in step: the overdue answer to a poll is not an OK, so only *)
(* the calibration's own answer lets the retarget test begin.                *)
LEMMA ReadKeepsSync ==
  ASSUME Base, SyncOK, Read
  PROVE  SyncOK'
<1>1. PICK reply : Turn(reply)
  BY ReadTurn
<1>2. Backlog = 0 => Backlog' = 0
  BY <1>1 DEF Turn, Alone
<1>3. timely' => Backlog' = 0
  BY <1>1, <1>2 DEF Turn, SyncOK
<1>4. ASSUME Driving' PROVE Backlog' = 0
  <2>1. CASE Driving
    BY <1>2, <2>1 DEF SyncOK
  <2>2. CASE pc = "test.calibrate" /\ reply = << OK >>
    <3>1. Backlog \in {0, 1}
      BY <2>2 DEF Base, QueueOK
    <3>2. CASE Backlog = 1
      <4>1. ~Behind(reply)
        <5>1. SUFFICES ASSUME Behind(reply) PROVE FALSE
          OBVIOUS
        <5>2. line[1].of = << "e" >> /\ line[1].text = OK
          BY <2>2, <3>2, <5>1 DEF Behind, SyncOK
        <5>3. line[1].text \in {<< "y" >>, << "n" >>}
          BY <5>1, <5>2 DEF Behind, Fits
        <5>. QED
          BY <5>2, <5>3 DEF OK
      <4>. QED
        BY <1>1, <3>2, <4>1 DEF Turn, Resynced
    <3>. QED
      BY <1>2, <3>1, <3>2
  <2>. QED
    BY <1>1, <1>4, <2>1, <2>2, DrivingFrom
<1>5. ASSUME pc' = "test.calibrate"
      PROVE  mem' = Idle /\ (Backlog' = 1 => Overdue' = << "e" >>)
  <2>1. pc = "identify.moving" /\ mem' = Idle
    BY <1>1, <1>5, TestCalibrateFrom
  <2>2. command = << "e" >>
    BY <1>1, <2>1, AskedFacts DEF Turn
  <2>3. Backlog \in {0, 1}
    BY <2>1 DEF Base, QueueOK
  <2>4. Backlog' = 1 => Overdue' = command
    BY <1>1, <2>3 DEF Turn, Alone, Behind, Resynced
  <2>. QED
    BY <2>1, <2>2, <2>4
<1>. QED
  BY <1>3, <1>4, <1>5 DEF SyncOK

(* Every step stays in step.                                                 *)
LEMMA StepKeepsSync ==
  ASSUME Base, SyncOK, [Next]_vars
  PROVE  SyncOK'
<1>1. CASE GiveUp
  BY <1>1, GiveUpFacts DEF SyncOK
<1>2. CASE UNCHANGED vars
  BY <1>2, StillFacts DEF SyncOK
<1>. QED
  BY <1>1, <1>2, WriteKeepsSync, ReadKeepsSync, ServedKeepsSync DEF Next, Probe

-----------------------------------------------------------------------------
(* Answers to the question asked *)

(* The answer to a poll says whether the lens moves, now.                    *)
LEMMA AloneMoving ==
  ASSUME NEW reply, Turn(reply), Alone(reply), Asked = {<< "e" >>}
  PROVE  IsMoving(reply) <=> Moving(cef)
<1>1. line[1].of = << "e" >> /\ reply = << line[1].text >>
  BY DEF Turn, Alone
<1>2. line[1].text = << IF Moving(cef) THEN "y" ELSE "n" >>
  BY <1>1 DEF Alone, Speaks
<1>. QED
  BY <1>1, <1>2 DEF IsMoving

(* The answer to a question for the position says where the lens is, now.    *)
LEMMA AlonePosition ==
  ASSUME NEW reply, Turn(reply), Alone(reply), Asked = {<< "f" >>}
  PROVE  Position(reply) = Whole(cef.position)
<1>1. line[1].of = << "f" >> /\ reply = << line[1].text >>
  BY DEF Turn, Alone
<1>2. line[1].text = << "position", Whole(cef.position) >>
  BY <1>1 DEF Alone, Speaks
<1>. QED
  BY <1>1, <1>2 DEF Position

(* A move that is not refused is under way to where it was asked to go.      *)
LEMMA AloneMove ==
  ASSUME NEW reply, Turn(reply), Alone(reply), NEW x \in Int, Asked = {MoveTo(x)},
         ~Refused(reply)
  PROVE  cef.target \in Landings(MoveTo(x)[2], cef.travel) /\ line[1].text = OK
<1>1. line[1].of = MoveTo(x) /\ reply = << line[1].text >>
  BY DEF Turn, Alone
<1>2. MoveTo(x) \in {"m"} \X Nat
  BY MoveToCommands
<1>3. line[1].text \in {OK, ER}
  BY <1>1, <1>2 DEF Alone, Fits
<1>4. line[1].text = OK
  BY <1>1, <1>3 DEF Refused
<1>5. Speaks(line[1])
  BY DEF Alone
<1>. QED
  BY <1>1, <1>2, <1>4, <1>5 DEF Speaks

-----------------------------------------------------------------------------
(* On course *)

\* Where the lens is to go.
Destination ==
  IF pc \in ScanPlaces THEN MoveTo(ScanTarget(mem.n))[2]
  ELSE IF mem.after = "focus" THEN MoveTo(args.focus)[2]
  ELSE IF mem.after = "return" THEN mem.start
  ELSE mem.commanded

(* A move has been accepted and not been reported.                           *)
Heading ==
  \/ pc \in SettlePlaces /\ mem.after # "start"
  \/ pc \in {"scan.moving", "scan.position"}

(* The third layer: the lens is going where the program waits for it, and    *)
(* has come to rest before its position is asked for.                        *)
CourseOK ==
  timely \/ Driving =>
    /\ Heading => cef.target \in Landings(Destination, cef.travel)
    /\ pc \in {"settle.position", "scan.position"} => ~Moving(cef)

(* While the program waits, serving changes no course and sets no lens in    *)
(* motion.                                                                   *)
LEMMA ServedKeepsCourse ==
  ASSUME Base, SyncOK, CourseOK, Served
  PROVE  CourseOK'
<1>1. UNCHANGED << timely, pc, mem, args >>
  BY BaseIsTyped, ServedFacts
<1>2. Driving' = Driving /\ Destination' = Destination /\ Heading' = Heading
  BY <1>1, ProgramFacts DEF Destination, Heading, ScanTarget, MoveTo
<1>3. ASSUME timely \/ Driving, pc \in SettlePlaces \union {"scan.moving", "scan.position"}
      PROVE  /\ cef'.target = cef.target /\ cef'.travel = cef.travel
             /\ ~Moving(cef) => ~Moving(cef')
  <2>1. Backlog = 0
    BY <1>3 DEF SyncOK
  <2>2. command \in Asked /\ Answered(command, line'[1].text)
    BY <2>1, ServedAlone
  <2>3. command \in {<< "e" >>, << "f" >>}
    BY <1>3, <2>2, AskedFacts DEF SettlePlaces
  <2>4. command \notin {"m"} \X Nat /\ command # << "c" >>
    BY <2>3
  <2>. QED
    BY <2>2, <2>4 DEF Answered
<1>. QED
  BY <1>1, <1>2, <1>3 DEF CourseOK, Heading, SettlePlaces

(* A move answered puts the lens on course; the answer that it is at rest    *)
(* lets the program go on to ask where it is.                                *)
LEMMA ResumeKeepsCourse ==
  ASSUME Base, CourseOK, NEW reply, Turn(reply), Alone(reply), timely \/ Driving,
         ~Raises(reply), Resume(reply)
  PROVE  /\ Heading' => cef'.target \in Landings(Destination', cef'.travel)
         /\ pc' \in {"settle.position", "scan.position"} => ~Moving(cef')
<1>0. /\ mem \in Mem(mem.raw) /\ cef' = cef
      /\ mem.start \in Nat /\ mem.commanded \in Nat
  BY DEF Base, CoreOK, Mem, Turn
<1>01. TypeOK
  BY BaseIsTyped DEF Typed
<1>. DEFINE Goal == /\ Heading' => cef'.target \in Landings(Destination', cef'.travel)
                    /\ pc' \in {"settle.position", "scan.position"} => ~Moving(cef')
            Elsewhere == pc' \notin SettlePlaces \union {"scan.moving", "scan.position"}
<1>02. ASSUME Elsewhere PROVE Goal
  BY <1>02 DEF Heading, SettlePlaces
<1>1. CASE Identify(reply)
  BY <1>1, <1>02 DEF Identify, Go, End, SettlePlaces
<1>2. CASE Calibrate(reply)
  <2>1. CASE pc' = "settle.moving"
    <3>1. mem'.after = "start"
      BY <1>0, <1>2, <2>1 DEF Calibrate, Go, End, Settle, Mem
    <3>. QED
      BY <2>1, <3>1 DEF Heading
  <2>2. CASE pc' # "settle.moving"
    BY <1>2, <1>02, <2>2 DEF Calibrate, Go, End, SettlePlaces
  <2>. QED
    BY <2>1, <2>2
<1>3. CASE SettlePoll(reply)
  <2>0. pc = "settle.moving"
    BY <1>3 DEF SettlePoll
  <2>1. CASE pc' = "done"
    BY <1>02, <2>1 DEF SettlePlaces
  <2>2. CASE pc' # "done"
    <3>1. /\ mem'.after = mem.after /\ mem'.start = mem.start
          /\ mem'.commanded = mem.commanded /\ args' = args
          /\ pc' = "settle.moving" \/ (pc' = "settle.position" /\ ~IsMoving(reply))
      BY <1>0, <1>3, <2>2 DEF SettlePoll, Go, End, Mem
    <3>2. Destination' = Destination /\ (Heading' => Heading)
      BY <2>0, <3>1 DEF Destination, Heading, SettlePlaces, ScanPlaces, MoveTo
    <3>3. IsMoving(reply) <=> Moving(cef)
      BY <2>0, AskedFacts, AloneMoving
    <3>. QED
      BY <1>0, <3>1, <3>2, <3>3 DEF CourseOK
  <2>. QED
    BY <2>1, <2>2
<1>4. CASE Settled(reply)
  BY <1>4, <1>02 DEF Settled, SettlePlaces
<1>5. CASE Cycle(reply)
  <2>1. CASE pc \in {"cycle.move", "cycle.moving", "cycle.position"}
    BY <1>5, <1>02, <2>1 DEF Cycle, Go, SettlePlaces
  <2>2. CASE pc = "cycle.retarget"
    <3>1. /\ mem'.after = "retarget" /\ mem'.commanded = mem.commanded
          /\ pc' = "settle.moving"
      BY <1>0, <1>5, <2>2 DEF Cycle, Go, Settle, Mem
    <3>2. ~Refused(reply)
      BY <2>2 DEF Raises, Unchecked
    <3>3. cef.target \in Landings(mem.commanded, cef.travel)
      BY <1>0, <2>2, <3>2, AskedFacts, AloneMove, MoveToCommands
    <3>. QED
      BY <1>0, <3>1, <3>3 DEF Destination, ScanPlaces
  <2>3. CASE pc = "test.return"
    <3>1. /\ mem'.after = "return" /\ mem'.start = mem.start
          /\ pc' = "settle.moving"
      BY <1>0, <1>5, <2>3 DEF Cycle, Go, Settle, Mem
    <3>2. ~Refused(reply)
      BY <2>3 DEF Raises, Unchecked
    <3>3. cef.target \in Landings(mem.start, cef.travel)
      BY <1>0, <2>3, <3>2, AskedFacts, AloneMove, MoveToCommands
    <3>. QED
      BY <1>0, <3>1, <3>3 DEF Destination, ScanPlaces
  <2>. QED
    BY <1>5, <2>1, <2>2, <2>3 DEF Cycle
<1>6. CASE VetTurn(reply)
  BY <1>6, <1>02 DEF VetTurn, Poll, Go, End, SettlePlaces
<1>7. CASE Bench(reply)
  <2>1. CASE pc = "focus.move"
    <3>1. mem'.after = "focus" /\ args' = args /\ pc' = "settle.moving"
      BY <1>0, <1>7, <2>1 DEF Bench, Go, Settle, Mem
    <3>2. ~Refused(reply)
      BY <2>1 DEF Raises, Unchecked
    <3>3. cef.target \in Landings(MoveTo(args.focus)[2], cef.travel)
      BY <1>01, <2>1, <3>2, AskedFacts, AloneMove, NumbersAreInts
    <3>. QED
      BY <1>0, <3>1, <3>3 DEF Destination, ScanPlaces, MoveTo
  <2>2. CASE pc # "focus.move"
    BY <1>7, <1>02, <2>2 DEF Bench, Poll, Go, End, SettlePlaces
  <2>. QED
    BY <2>1, <2>2
<1>8. CASE ScanTurn(reply)
  <2>1. CASE pc = "scan.move"
    <3>1. mem' = mem /\ pc' = "scan.moving"
      BY <1>8, <2>1 DEF ScanTurn, Go
    <3>2. ~Refused(reply)
      BY <2>1 DEF Raises, Unchecked
    <3>3. cef.target \in Landings(MoveTo(ScanTarget(mem.n))[2], cef.travel)
      BY <1>01, <2>1, <3>2, AskedFacts, AloneMove, NumbersAreInts
    <3>. QED
      BY <1>0, <3>1, <3>3 DEF Destination, ScanPlaces, MoveTo, ScanTarget
  <2>2. CASE pc = "scan.moving"
    <3>1. /\ mem'.n = mem.n
          /\ pc' = "scan.moving" \/ (pc' = "scan.position" /\ ~IsMoving(reply))
      BY <1>0, <1>8, <2>2 DEF ScanTurn, Poll, Go, Mem
    <3>2. cef.target \in Landings(MoveTo(ScanTarget(mem.n))[2], cef.travel)
      BY <2>2 DEF CourseOK, Heading, Destination, ScanPlaces
    <3>3. IsMoving(reply) <=> Moving(cef)
      BY <2>2, AskedFacts, AloneMoving
    <3>. QED
      BY <1>0, <3>1, <3>2, <3>3 DEF Destination, ScanPlaces, MoveTo, ScanTarget
  <2>3. CASE pc = "scan.position"
    BY <1>8, <1>02, <2>3 DEF ScanTurn, SettlePlaces
  <2>. QED
    BY <1>8, <2>1, <2>2, <2>3 DEF ScanTurn
<1>9. CASE Sent
  BY <1>9, <1>02 DEF Sent, Go, End, SettlePlaces
<1>. QED
  BY <1>1, <1>2, <1>3, <1>4, <1>5, <1>6, <1>7, <1>8, <1>9 DEF Resume

(* Reading keeps the course, as the retarget test begins before any move.    *)
LEMMA ReadKeepsCourse ==
  ASSUME Base, SyncOK, CourseOK, Read
  PROVE  CourseOK'
<1>1. PICK reply : Turn(reply)
  BY ReadTurn
<1>2. CASE timely \/ Driving
  <2>1. Alone(reply)
    BY <1>1, <1>2 DEF SyncOK, Turn
  <2>2. CASE Raises(reply)
    <3>1. pc' = "done"
      BY <1>1, <2>2 DEF Turn, End
    <3>. QED
      BY <3>1 DEF CourseOK, Heading, SettlePlaces
  <2>3. CASE ~Raises(reply)
    <3>1. Resume(reply)
      BY <1>1, <2>3 DEF Turn
    <3>. QED
      BY <1>1, <1>2, <2>1, <2>3, <3>1, ResumeKeepsCourse DEF CourseOK
  <2>. QED
    BY <2>2, <2>3
<1>3. CASE ~(timely \/ Driving)
  <2>1. ~timely'
    BY <1>1, <1>3 DEF Turn
  <2>2. Driving' => pc' = "test.range"
    BY <1>1, <1>3, DrivingFrom
  <2>. QED
    BY <2>1, <2>2 DEF CourseOK, Heading, SettlePlaces
<1>. QED
  BY <1>2, <1>3

(* Every step keeps the course.                                              *)
LEMMA StepKeepsCourse ==
  ASSUME Base, SyncOK, CourseOK, [Next]_vars
  PROVE  CourseOK'
<1>1. CASE GiveUp
  BY <1>1, GiveUpFacts DEF CourseOK
<1>2. ASSUME UNCHANGED << cef, timely, pc, mem, args >>, Driving' = Driving
      PROVE  CourseOK'
  BY <1>2 DEF CourseOK, Heading, Destination, ScanTarget, MoveTo, Moving
<1>3. CASE UNCHANGED vars
  BY <1>2, <1>3, StillFacts
<1>4. CASE Write
  BY <1>2, <1>4, WriteStill
<1>. QED
  BY <1>1, <1>3, <1>4, ReadKeepsCourse, ServedKeepsCourse DEF Next, Probe

-----------------------------------------------------------------------------
(* Halts *)

(* A position is reported of a lens at rest.                                 *)
LEMMA ReportsWhereItRests ==
  ASSUME Base, CourseOK, NEW reply, Turn(reply), Alone(reply), timely \/ Driving,
         pc \in {"settle.position", "scan.position"}
  PROVE  Position(reply) = cef.target
<1>1. Whole(cef.position) = cef.target
  BY DEF CourseOK, Moving
<1>2. Position(reply) = Whole(cef.position)
  BY AskedFacts, AlonePosition
<1>. QED
  BY <1>1, <1>2

\* By how much a halt missed the place it was commanded at.
Missed(l) == Off(l.reached, l.asked)

\* What the retarget test remembers as the worst ...
WorstIs(worst, seen) ==
  /\ \A l \in seen : l.of = "halt" => Missed(l) <= worst
  /\ worst = 0 \/ \E l \in seen : l.of = "halt" /\ Missed(l) = worst

(* ... is the worst of the halts so far.                                     *)
MeasuredOK ==
  /\ \A l \in landings : l.reached \in Nat /\ l.asked \in Nat
  /\ pc \in IdentifyPlaces \union {"test.calibrate"} => landings = {}
  /\ pc \notin {"send", "done"} => WorstIs(mem.worst, landings)
  /\ HaltsAreMeasured

LEMMA OffFacts ==
  ASSUME NEW a \in Nat, NEW b \in Nat
  PROVE  Off(a, b) \in Nat
  BY DEF Off

(* The worst of the halts is within the envelope if each of them is.         *)
LEMMA WorstDecides ==
  ASSUME NEW worst \in Nat, NEW seen, WorstIs(worst, seen),
         \A l \in seen : l.reached \in Nat /\ l.asked \in Nat
  PROVE  worst <= ENVELOPE <=> \A l \in seen : l.of = "halt" => Missed(l) <= ENVELOPE
<1>1. ENVELOPE \in Nat
  BY ProbeAssumption
<1>2. \A l \in seen : Missed(l) \in Nat
  BY OffFacts DEF Missed
<1>3. ASSUME worst <= ENVELOPE, NEW l \in seen, l.of = "halt"
      PROVE  Missed(l) <= ENVELOPE
  <2>1. Missed(l) <= worst /\ Missed(l) \in Nat
    BY <1>2, <1>3 DEF WorstIs
  <2>. QED
    BY <1>1, <1>3, <2>1
<1>4. ASSUME \A l \in seen : l.of = "halt" => Missed(l) <= ENVELOPE
      PROVE  worst <= ENVELOPE
  BY <1>1, <1>4 DEF WorstIs
<1>. QED
  BY <1>3, <1>4

(* One more halt makes the worst the larger of the two.                      *)
LEMMA WorstGrows ==
  ASSUME NEW worst \in Nat, NEW seen, WorstIs(worst, seen),
         \A l \in seen : l.reached \in Nat /\ l.asked \in Nat,
         NEW new, new.of = "halt", Missed(new) \in Nat,
         NEW next, next = IF Missed(new) > worst THEN Missed(new) ELSE worst
  PROVE  WorstIs(next, seen \union {new})
<1>1. next \in Nat /\ worst <= next /\ Missed(new) <= next
  OBVIOUS
<1>2. ASSUME NEW l \in seen \union {new}, l.of = "halt"
      PROVE  Missed(l) <= next
  <2>1. CASE l = new
    BY <1>1, <2>1
  <2>2. CASE l \in seen
    <3>1. Missed(l) <= worst /\ Missed(l) \in Nat
      BY <1>2, <2>2, OffFacts DEF WorstIs, Missed
    <3>. QED
      BY <1>1, <3>1
  <2>. QED
    BY <2>1, <2>2
<1>3. next = 0 \/ \E l \in seen \union {new} : l.of = "halt" /\ Missed(l) = next
  <2>1. next = Missed(new) \/ next = worst
    OBVIOUS
  <2>2. CASE next = Missed(new)
    BY <2>2
  <2>3. CASE next = worst
    BY <2>3 DEF WorstIs
  <2>. QED
    BY <2>1, <2>2, <2>3
<1>. QED
  BY <1>2, <1>3 DEF WorstIs

\* The verdicts of the retarget test.
Verdicts == {"VIABLE", "OUT OF ENVELOPE"}

(* What a reply makes of the landings: none is added, ...                    *)
NoneLands ==
  /\ landings' = landings
  /\ outcome' \notin Verdicts
  /\ \/ pc' \in {"send", "done"}
     \/ mem'.worst = mem.worst
     \/ pc \in IdentifyPlaces /\ mem'.worst = 0

\* ... or a halt, ...
HaltLands(reply) ==
  /\ pc = "settle.position" /\ pc' = "test.return" /\ Driving
  /\ Land("halt", mem.commanded, reply)
  /\ outcome' \notin Verdicts
  /\ LET off == Off(Position(reply), mem.commanded)
     IN  mem'.worst = IF off > mem.worst THEN off ELSE mem.worst

\* ... or the end of another move, which can be the end of the test.
MoveLands(reply) ==
  /\ pc \in {"settle.position", "scan.position"}
  /\ pc' \notin IdentifyPlaces \union {"test.calibrate"}
  /\ \E x \in Int : Land("move", x, reply)
  /\ pc' = "done" \/ mem'.worst = mem.worst
  /\ outcome' \in Verdicts =>
       outcome' = IF mem.worst <= ENVELOPE THEN "VIABLE" ELSE "OUT OF ENVELOPE"

LEMMA LandedFrom ==
  ASSUME Base, NEW reply, Turn(reply)
  PROVE  NoneLands \/ HaltLands(reply) \/ MoveLands(reply)
<1>0. /\ mem.start \in Int /\ mem.commanded \in Int /\ args.focus \in Int
      /\ ScanTarget(mem.n) \in Int
  BY BaseIsTyped, NumbersAreInts DEF Typed
<1>01. mem \in Mem(mem.raw) /\ outcome = "running"
  BY DEF Base, CoreOK, Turn
<1>1. CASE Raises(reply)
  BY <1>1 DEF Turn, End, NoneLands, Verdicts
<1>2. CASE ~Raises(reply) /\ Settled(reply)
  <2>0. pc = "settle.position"
    BY <1>2 DEF Settled
  <2>1. CASE mem.after = "start"
    <3>1. landings' = landings /\ outcome' = outcome /\ mem'.worst = mem.worst
      BY <1>01, <1>2, <2>1 DEF Settled, Mem
    <3>. QED
      BY <1>01, <3>1 DEF NoneLands, Verdicts
  <2>2. CASE mem.after = "retarget"
    <3>. DEFINE off == Off(Position(reply), mem.commanded)
                w == IF off > mem.worst THEN off ELSE mem.worst
    <3>1. /\ pc' = "test.return" /\ outcome' = outcome
          /\ Land("halt", mem.commanded, reply)
          /\ mem' = [mem EXCEPT !.worst = w, !.polls = 0]
      BY <1>2, <2>2 DEF Settled
    <3>. HIDE DEF w
    <3>2. mem'.worst = w
      BY <1>01, <3>1 DEF Mem
    <3>3. Driving
      BY <2>0, <2>2 DEF Driving, SettlePlaces
    <3>. QED
      BY <1>01, <2>0, <3>1, <3>2, <3>3 DEF HaltLands, Verdicts, w
  <2>3. CASE mem.after = "return"
    <3>1. /\ pc' \in {"cycle.move", "done"} /\ Land("move", mem.start, reply)
          /\ pc' = "done" => outcome' = IF mem.worst <= ENVELOPE THEN "VIABLE"
                                        ELSE "OUT OF ENVELOPE"
          /\ pc' # "done" => outcome' = outcome /\ mem'.worst = mem.worst
      BY <1>01, <1>2, <2>3 DEF Settled, Mem
    <3>. QED
      BY <1>0, <1>01, <2>0, <3>1 DEF MoveLands, Verdicts, IdentifyPlaces
  <2>4. CASE mem.after = "focus"
    <3>1. pc' = "done" /\ outcome' = "ok" /\ Land("move", args.focus, reply)
      BY <1>2, <2>4 DEF Settled
    <3>. QED
      BY <1>0, <2>0, <3>1 DEF MoveLands, Verdicts, IdentifyPlaces
  <2>. QED
    BY <1>2, <2>1, <2>2, <2>3, <2>4 DEF Settled
<1>3. CASE ~Raises(reply) /\ ScanTurn(reply) /\ pc = "scan.position"
  <2>1. /\ Land("move", ScanTarget(mem.n), reply)
        /\ \/ pc' = "done" /\ outcome' = "ok"
           \/ pc' = "scan.move" /\ outcome' = outcome /\ mem'.worst = mem.worst
    BY <1>01, <1>3 DEF ScanTurn, Mem
  <2>. QED
    BY <1>0, <1>01, <1>3, <2>1 DEF MoveLands, Verdicts, IdentifyPlaces
<1>4. CASE ~Raises(reply) /\ Calibrate(reply)
  <2>1. landings' = landings /\ outcome' \in {outcome, "failed"}
    BY <1>4 DEF Calibrate, Go, End
  <2>3. pc' = "done" \/ mem'.worst = mem.worst
    <3>1. CASE pc = "test.calibrate"
      BY <1>4, <3>1 DEF Calibrate, Go, End
    <3>2. CASE pc = "test.range"
      BY <1>01, <1>4, <3>2 DEF Calibrate, Go, End, Settle, Mem
    <3>. QED
      BY <1>4, <3>1, <3>2 DEF Calibrate
  <2>. QED
    BY <1>01, <2>1, <2>3 DEF NoneLands, Verdicts
<1>5. CASE ~Raises(reply) /\ Identify(reply)
  <2>1. /\ landings' = landings /\ outcome' \in {outcome, "ok"} /\ pc \in IdentifyPlaces
        /\ mem' \in {mem, [mem EXCEPT !.raw = reply], Idle}
    BY <1>5 DEF Identify, Go, End, IdentifyPlaces
  <2>2. mem'.worst = mem.worst \/ mem'.worst = 0
    <3>1. CASE mem' = mem
      BY <3>1
    <3>2. CASE mem' = [mem EXCEPT !.raw = reply]
      BY <1>01, <3>2 DEF Mem
    <3>3. CASE mem' = Idle
      BY <3>3 DEF Idle
    <3>. QED
      BY <2>1, <3>1, <3>2, <3>3
  <2>. QED
    BY <1>01, <2>1, <2>2 DEF NoneLands, Verdicts
<1>6. CASE ~Raises(reply) /\ SettlePoll(reply)
  BY <1>01, <1>6 DEF SettlePoll, Go, End, NoneLands, Verdicts, Mem
<1>7. CASE ~Raises(reply) /\ Cycle(reply)
  BY <1>01, <1>7 DEF Cycle, Go, Settle, NoneLands, Verdicts, Mem
<1>8. CASE ~Raises(reply) /\ VetTurn(reply)
  BY <1>01, <1>8 DEF VetTurn, Poll, Go, End, Verdict, NoneLands, Verdicts, Mem
<1>9. CASE ~Raises(reply) /\ Bench(reply)
  BY <1>01, <1>9 DEF Bench, Poll, Go, End, Settle, NoneLands, Verdicts, Mem
<1>10. CASE ~Raises(reply) /\ ScanTurn(reply) /\ pc # "scan.position"
  BY <1>01, <1>10 DEF ScanTurn, Poll, Go, NoneLands, Verdicts, Mem
<1>11. CASE ~Raises(reply) /\ Sent
  BY <1>01, <1>11 DEF Sent, Go, End, NoneLands, Verdicts
<1>. QED
  BY <1>1, <1>2, <1>3, <1>4, <1>5, <1>6, <1>7, <1>8, <1>9, <1>10, <1>11
     DEF Turn, Resume

(* A landing has its types.                                                  *)
LEMMA LandTyped ==
  ASSUME Base, NEW what, NEW x \in Int, NEW reply, Land(what, x, reply)
  PROVE  \E l : /\ landings' = landings \union {l} /\ l.of = what
                /\ l.asked = MoveTo(x)[2] /\ l.reached = cef.target
                /\ l.reported = Position(reply)
                /\ l.reached \in Nat /\ l.asked \in Nat
<1>1. cef.target \in Nat
  BY DEF Base, CoreOK, Controller
<1>2. MoveTo(x)[2] \in Nat
  BY MoveToCommands
<1>. DEFINE l == [of |-> what, asked |-> MoveTo(x)[2],
                  reached |-> cef.target, reported |-> Position(reply)]
<1>3. landings' = landings \union {l}
  BY DEF Land
<1>4. /\ l.of = what /\ l.asked = MoveTo(x)[2] /\ l.reached = cef.target
      /\ l.reported = Position(reply)
  OBVIOUS
<1>. HIDE DEF l
<1>5. l.reached \in Nat /\ l.asked \in Nat
  BY <1>1, <1>2, <1>4
<1>. QED
  BY <1>3, <1>4, <1>5

(* The program comes to identify() only from identify().                     *)
LEMMA IdentifyFrom ==
  ASSUME NEW reply, Turn(reply), pc' \in IdentifyPlaces \union {"test.calibrate"}
  PROVE  pc \in IdentifyPlaces
<1>1. ~Raises(reply) /\ Resume(reply)
  BY DEF Turn, End, IdentifyPlaces
<1>2. ~Settled(reply)
  BY DEF Settled, IdentifyPlaces
<1>. QED
  BY <1>1, <1>2 DEF Resume, Identify, Calibrate, SettlePoll, Cycle, VetTurn, Bench,
     ScanTurn, Sent, Poll, Go, End, IdentifyPlaces

(* A script that goes on stays one.                                          *)
LEMMA PlacesFromSend ==
  ASSUME NEW reply, Turn(reply), pc = "send"
  PROVE  pc' \in {"send", "done"}
<1>1. CASE Raises(reply)
  BY <1>1 DEF Turn, End
<1>2. CASE ~Raises(reply)
  BY <1>2 DEF Turn, Resume, Identify, Calibrate, SettlePoll, Settled, Cycle, VetTurn,
     Bench, ScanTurn, Sent, Go, End
<1>. QED
  BY <1>1, <1>2

(* Reading a reply keeps the measure.                                        *)
LEMMA ReadKeepsMeasured ==
  ASSUME Base, SyncOK, CourseOK, MeasuredOK, Read
  PROVE  MeasuredOK'
<1>1. PICK reply : Turn(reply)
  BY ReadTurn
<1>2. /\ timely' = timely /\ pc # "done" /\ outcome = "running"
      /\ mem.worst \in Nat /\ mem.commanded \in Nat
  BY <1>1 DEF Turn, Base, CoreOK, Mem
<1>3. timely \/ Driving => Alone(reply)
  BY <1>1 DEF SyncOK, Turn
<1>4. pc' \in IdentifyPlaces \union {"test.calibrate"} => pc \in IdentifyPlaces
  BY <1>1, IdentifyFrom
<1>5. /\ \A l \in landings : l.reached \in Nat /\ l.asked \in Nat
      /\ pc \in IdentifyPlaces => landings = {}
      /\ pc # "send" => WorstIs(mem.worst, landings)
      /\ timely => \A l \in landings : l.reported = l.reached
  BY <1>2 DEF MeasuredOK, HaltsAreMeasured
<1>6. pc' \notin {"send", "done"} => pc # "send"
  <2>. SUFFICES ASSUME pc' \notin {"send", "done"}, pc = "send" PROVE FALSE
    OBVIOUS
  <2>. QED
    BY <1>1, PlacesFromSend
<1>7. CASE NoneLands
  <2>1. pc' \notin {"send", "done"} => WorstIs(mem'.worst, landings')
    <3>1. CASE mem'.worst = mem.worst
      BY <1>5, <1>6, <1>7, <3>1 DEF NoneLands
    <3>2. CASE pc \in IdentifyPlaces /\ mem'.worst = 0
      BY <1>5, <1>7, <3>2 DEF NoneLands, WorstIs
    <3>. QED
      BY <1>7, <3>1, <3>2 DEF NoneLands
  <2>. QED
    BY <1>2, <1>4, <1>5, <1>7, <2>1 DEF NoneLands, MeasuredOK, HaltsAreMeasured, Verdicts
<1>8. CASE HaltLands(reply)
  <2>1. mem.commanded \in Int /\ Land("halt", mem.commanded, reply)
    BY <1>2, <1>8 DEF HaltLands
  <2>2. PICK l : /\ landings' = landings \union {l} /\ l.of = "halt"
                 /\ l.asked = MoveTo(mem.commanded)[2] /\ l.reached = cef.target
                 /\ l.reported = Position(reply)
                 /\ l.reached \in Nat /\ l.asked \in Nat
    BY <2>1, LandTyped
  <2>3. l.reported = l.reached
    BY <1>1, <1>3, <1>8, <2>2, ReportsWhereItRests DEF HaltLands
  <2>4. l.asked = mem.commanded
    BY <1>2, <2>1, <2>2, MoveToCommands
  <2>5. Missed(l) = Off(Position(reply), mem.commanded) /\ Missed(l) \in Nat
    BY <2>2, <2>3, <2>4, OffFacts DEF Missed
  <2>6. mem'.worst = IF Missed(l) > mem.worst THEN Missed(l) ELSE mem.worst
    BY <1>8, <2>5 DEF HaltLands
  <2>7. WorstIs(mem.worst, landings)
    BY <1>5, <1>8 DEF HaltLands
  <2>8. WorstIs(mem'.worst, landings')
    BY <1>2, <1>5, <2>2, <2>5, <2>6, <2>7, WorstGrows
  <2>9. /\ \A k \in landings' : k.reached \in Nat /\ k.asked \in Nat
        /\ timely => \A k \in landings' : k.reported = k.reached
    BY <1>5, <2>2, <2>3
  <2>10. pc' = "test.return" /\ outcome' \notin Verdicts
    BY <1>8 DEF HaltLands
  <2>. QED
    BY <1>2, <2>8, <2>9, <2>10 DEF MeasuredOK, HaltsAreMeasured, Verdicts, IdentifyPlaces
<1>9. CASE MoveLands(reply)
  <2>1. PICK x \in Int : Land("move", x, reply)
    BY <1>9 DEF MoveLands
  <2>2. PICK l : /\ landings' = landings \union {l} /\ l.of = "move"
                 /\ l.reached = cef.target /\ l.reported = Position(reply)
                 /\ l.reached \in Nat /\ l.asked \in Nat
    BY <2>1, LandTyped
  <2>3. timely => l.reported = l.reached
    BY <1>1, <1>3, <1>9, <2>2, ReportsWhereItRests DEF MoveLands
  <2>4. WorstIs(mem.worst, landings)
    BY <1>5, <1>9 DEF MoveLands
  <2>5. WorstIs(mem.worst, landings')
    BY <2>2, <2>4 DEF WorstIs
  <2>6. /\ \A k \in landings' : k.reached \in Nat /\ k.asked \in Nat
        /\ timely => \A k \in landings' : k.reported = k.reached
    BY <1>5, <2>2, <2>3
  <2>7. mem.worst <= ENVELOPE <=>
          \A k \in landings' : k.of = "halt" => Missed(k) <= ENVELOPE
    BY <1>2, <2>5, <2>6, WorstDecides
  <2>8. outcome' \in Verdicts =>
          (outcome' = "VIABLE" <=>
             \A k \in landings' : k.of = "halt" => Off(k.reached, k.asked) <= ENVELOPE)
    BY <1>9, <2>7 DEF MoveLands, Missed
  <2>9. pc' \notin {"send", "done"} => WorstIs(mem'.worst, landings')
    BY <1>9, <2>5 DEF MoveLands
  <2>10. HaltsAreMeasured'
    BY <1>2, <2>6, <2>8 DEF HaltsAreMeasured, Verdicts
  <2>. QED
    BY <1>9, <2>6, <2>9, <2>10 DEF MeasuredOK, MoveLands
<1>. QED
  BY <1>1, <1>7, <1>8, <1>9, LandedFrom

(* Every step keeps the measure.                                             *)
LEMMA StepKeepsMeasured ==
  ASSUME Base, SyncOK, CourseOK, MeasuredOK, [Next]_vars
  PROVE  MeasuredOK'
<1>1. CASE GiveUp
  <2>1. /\ landings' = landings /\ ~timely' /\ pc' \in {"send", "done"}
        /\ outcome' = outcome \/ outcome' \in {"failed", "ok"}
    BY <1>1, GiveUpFacts
  <2>. QED
    BY <2>1 DEF MeasuredOK, HaltsAreMeasured, IdentifyPlaces
<1>2. ASSUME UNCHANGED << timely, pc, mem, outcome, landings >>
      PROVE  MeasuredOK'
  BY <1>2 DEF MeasuredOK, HaltsAreMeasured
<1>3. CASE Write
  BY <1>2, <1>3, WriteStill
<1>4. CASE Served
  <2>1. UNCHANGED << timely, pc, mem, outcome, landings >>
    BY <1>4, BaseIsTyped, ServedFacts
  <2>. QED
    BY <1>2, <2>1
<1>5. CASE UNCHANGED vars
  BY <1>2, <1>5, StillFacts
<1>. QED
  BY <1>1, <1>3, <1>4, <1>5, ReadKeepsMeasured DEF Next, Probe

(* What holds in every session.                                              *)
ProbeInv == Base /\ SyncOK /\ CourseOK

(* ... is kept by every step ...                                             *)
LEMMA StepKeepsProbeInv ==
  ASSUME ProbeInv, [Next]_vars
  PROVE  ProbeInv'
  BY StepKeepsBase, StepKeepsSync, StepKeepsCourse DEF ProbeInv

(* ... and holds when a session starts.                                      *)
LEMMA InitProbeInv ==
  ASSUME Init
  PROVE  ProbeInv
<1>1. First \notin SettlePlaces \union {"scan.moving", "scan.position"}
  BY DEF First, SettlePlaces
<1>2. CourseOK
  BY <1>1 DEF Init, Start, CourseOK, Heading, SettlePlaces
<1>. QED
  BY <1>2, InitBase, InitSync DEF ProbeInv

(* What the probe reports as the end of a move is where the lens came to     *)
(* rest, as long as no answer came too late, and its verdict on the          *)
(* controller is the truth about the halts of the session, wherever a move   *)
(* may come to rest and whatever an earlier session left under way.          *)
THEOREM HaltsAreAlwaysMeasured == Spec => []HaltsAreMeasured
<1>1. Init => ProbeInv /\ MeasuredOK
  <2>1. Init => landings = {} /\ mem.worst = 0 /\ outcome \in {"ok", "running"}
    <3>. SUFFICES ASSUME Start
                  PROVE  landings = {} /\ mem.worst = 0 /\ outcome \in {"ok", "running"}
      BY DEF Init
    <3>1. landings = {} /\ mem = Idle
      BY DEF Start
    <3>2. outcome \in {"ok", "running"}
      BY DEF Start
    <3>. QED
      BY <3>1, <3>2 DEF Idle
  <2>2. WorstIs(0, {})
    BY DEF WorstIs
  <2>. QED
    BY <2>1, <2>2, InitProbeInv DEF MeasuredOK, HaltsAreMeasured
<1>2. (ProbeInv /\ MeasuredOK) /\ [Next]_vars => (ProbeInv /\ MeasuredOK)'
  <2>. SUFFICES ASSUME ProbeInv, MeasuredOK, [Next]_vars
                PROVE  ProbeInv' /\ MeasuredOK'
    OBVIOUS
  <2>. QED
    BY StepKeepsProbeInv, StepKeepsMeasured DEF ProbeInv
<1>3. MeasuredOK => HaltsAreMeasured
  BY DEF MeasuredOK
<1>. QED
  BY <1>1, <1>2, <1>3, PTL DEF Spec

(* A verdict of the retarget test is given after the way back of the last    *)
(* cycle.                                                                    *)
LEMMA VerdictFrom ==
  ASSUME Base, NEW reply, Turn(reply), outcome' \in {"VIABLE", "OUT OF ENVELOPE"}
  PROVE  /\ pc = "settle.position" /\ mem.after = "return" /\ Driving
         /\ ~Raises(reply) /\ Settled(reply)
         /\ mem.n + 1 = Cycles /\ pc' = "done"
<1>1. outcome = "running"
  BY DEF Turn
<1>2. ~Raises(reply)
  BY DEF Turn, End
<1>3. Resume(reply)
  BY <1>2 DEF Turn
<1>4. CASE Settled(reply)
  BY <1>1, <1>2, <1>4 DEF Settled, Driving, SettlePlaces
<1>5. CASE VetTurn(reply)
  BY <1>1, <1>5 DEF VetTurn, Poll, Go, End, Verdict
<1>6. CASE ~Settled(reply) /\ ~VetTurn(reply)
  BY <1>1, <1>3, <1>6 DEF Resume, Identify, Calibrate, SettlePoll, Cycle, Bench,
     ScanTurn, Sent, Poll, Go, End
<1>. QED
  BY <1>4, <1>5, <1>6

(* A verdict is given only of a lens that has come to rest where it was sent *)
(* back to the place the test found it at.                                   *)
THEOREM VerdictAlwaysPutsLensBack == Spec => VerdictPutsLensBack
<1>1. ASSUME ProbeInv, [Next]_vars, outcome = "running",
             outcome' \in {"VIABLE", "OUT OF ENVELOPE"}
      PROVE  ~Moving(cef) /\ cef.target \in Landings(mem.start, cef.travel)
  <2>1. CASE Read
    <3>1. PICK reply : Turn(reply)
      BY <1>1, <2>1, ReadTurn DEF ProbeInv
    <3>2. pc = "settle.position" /\ mem.after = "return" /\ Driving
      BY <1>1, <3>1, VerdictFrom DEF ProbeInv
    <3>3. cef.target \in Landings(Destination, cef.travel) /\ ~Moving(cef)
      BY <1>1, <3>2 DEF ProbeInv, CourseOK, Heading, SettlePlaces
    <3>4. Destination = mem.start
      BY <3>2 DEF Destination, ScanPlaces
    <3>. QED
      BY <3>3, <3>4
  <2>2. CASE GiveUp
    BY <1>1, <2>2, GiveUpFacts
  <2>3. CASE Write
    BY <1>1, <2>3, WriteStill DEF ProbeInv
  <2>4. CASE Served
    BY <1>1, <2>4, BaseIsTyped, ServedFacts DEF ProbeInv
  <2>5. CASE UNCHANGED vars
    BY <1>1, <2>5, StillFacts
  <2>. QED
    BY <1>1, <2>1, <2>2, <2>3, <2>4, <2>5 DEF Next, Probe
<1>2. ProbeInv /\ [Next]_vars =>
        [outcome = "running" /\ outcome' \in {"VIABLE", "OUT OF ENVELOPE"} =>
           ~Moving(cef) /\ cef.target \in Landings(mem.start, cef.travel)]_vars
  BY <1>1
<1>. QED
  BY <1>2, InitProbeInv, StepKeepsProbeInv, PTL DEF Spec, VerdictPutsLensBack

-----------------------------------------------------------------------------
(* Slips *)

\* The retarget of this cycle has been answered, and not refused, ...
Slipped ==
  \/ pc = "test.return"
  \/ pc \in SettlePlaces /\ mem.after \in {"retarget", "return"}
  \/ pc = "cycle.retarget" /\ line # << >> /\ line[1].text = OK

\* ... or it has been refused, which ends the test.
Undecided == pc = "cycle.retarget" /\ line # << >> /\ line[1].text # OK

\* What a verdict rests on.
DrivingOK ==
  Driving =>
    /\ mem.n < Cycles /\ cef.lens = "fitted" /\ Calibrated
    /\ pc = "cycle.moving" /\ line # << >> =>
         line[1].text = << IF caught THEN "y" ELSE "n" >>
    /\ pc \in {"cycle.position", "cycle.retarget"} => caught

(* Before the test begins nothing has slipped, and in it each cycle whose    *)
(* retarget was accepted by a controller that refuses to be retargeted has   *)
(* slipped once.                                                             *)
SlipsOK ==
  /\ pc \in IdentifyPlaces \union {"test.calibrate"} => slips = 0
  /\ Driving /\ ~cef.retargets /\ ~Undecided =>
       slips = mem.n + (IF Slipped THEN 1 ELSE 0)
  /\ ViableIsEarned

(* The retarget test calibrates only before it begins.                       *)
LEMMA DrivingAsks ==
  ASSUME Driving
  PROVE  << "c" >> \notin Asked
<1>1. pc \in TestPlaces \union SettlePlaces
  BY DEF Driving
<1>2. \A x : MoveTo(x) # << "c" >>
  BY DEF MoveTo
<1>. QED
  BY <1>1, <1>2, AskedFacts DEF TestPlaces, SettlePlaces

(* Serving keeps what the verdict rests on: the check for motion is answered *)
(* as the lens is.                                                           *)
LEMMA ServedKeepsDriving ==
  ASSUME ProbeInv, DrivingOK, Served
  PROVE  DrivingOK'
<1>1. UNCHANGED << timely, pc, mem, args >>
  BY BaseIsTyped, ServedFacts DEF ProbeInv
<1>2. Driving' = Driving
  BY <1>1, ProgramFacts
<1>. SUFFICES ASSUME Driving
              PROVE  /\ mem'.n < Cycles /\ cef'.lens = "fitted" /\ Calibrated'
                     /\ pc' = "cycle.moving" /\ line' # << >> =>
                          line'[1].text = << IF caught' THEN "y" ELSE "n" >>
                     /\ pc' \in {"cycle.position", "cycle.retarget"} => caught'
  BY <1>2 DEF DrivingOK
<1>3. Backlog = 0
  BY DEF ProbeInv, SyncOK
<1>4. /\ command \in Asked /\ Answered(command, line'[1].text) /\ Recorded(command)
      /\ line'[1].of = command
  BY <1>3, ServedAlone DEF ProbeInv
<1>5. command # << "c" >>
  BY <1>4, DrivingAsks
<1>6. mem.n < Cycles /\ cef.lens = "fitted" /\ Calibrated
  BY DEF DrivingOK
<1>7. /\ cef'.lens = cef.lens /\ measured' = measured
      /\ cef'.failed = cef.failed /\ cef'.travel = cef.travel
  BY <1>4, <1>5 DEF Answered, Recorded
<1>8. Calibrated'
  BY <1>6, <1>7 DEF Calibrated
<1>9. ASSUME pc = "cycle.moving"
      PROVE  line'[1].text = << IF caught' THEN "y" ELSE "n" >>
  <2>1. command = << "e" >>
    BY <1>4, <1>9, AskedFacts
  <2>. QED
    BY <1>4, <1>9, <2>1 DEF Answered, Recorded
<1>10. pc \in {"cycle.position", "cycle.retarget"} => caught'
  BY <1>4 DEF Recorded, DrivingOK
<1>. QED
  BY <1>1, <1>6, <1>7, <1>8, <1>9, <1>10

(* A controller that refuses to be retargeted accepts a retarget only when   *)
(* the lens has come to rest, which is a slip.                               *)
LEMMA ServedKeepsSlips ==
  ASSUME ProbeInv, DrivingOK, SlipsOK, Served
  PROVE  SlipsOK'
<1>1. UNCHANGED << timely, pc, mem, args, outcome >> /\ Recorded(Head(unserved))
  BY BaseIsTyped, ServedFacts DEF ProbeInv
<1>2. Driving' = Driving
  BY <1>1, ProgramFacts
<1>3. cef'.retargets = cef.retargets
  BY BaseIsTyped, ServedFacts DEF ProbeInv, Answered
<1>4. slips \in Nat
  BY DEF ProbeInv, Base, HistoryOK
<1>5. pc # "cycle.retarget" => slips' = slips
  BY <1>1 DEF Recorded
<1>6. pc \in IdentifyPlaces \union {"test.calibrate"} => slips' = 0
  BY <1>5 DEF SlipsOK, IdentifyPlaces
<1>7. ASSUME Driving, ~cef.retargets, ~Undecided'
      PROVE  slips' = mem.n + (IF Slipped' THEN 1 ELSE 0)
  <2>1. CASE pc # "cycle.retarget"
    <3>1. Slipped' = Slipped /\ ~Undecided
      BY <1>1, <2>1 DEF Slipped, Undecided
    <3>. QED
      BY <1>5, <1>7, <2>1, <3>1 DEF SlipsOK
  <2>2. CASE pc = "cycle.retarget"
    <3>1. Backlog = 0
      BY <1>7 DEF ProbeInv, SyncOK
    <3>2. /\ line = << >> /\ Head(unserved) = command /\ command \in Asked
          /\ Len(line') = 1 /\ Answered(command, line'[1].text)
      BY <3>1, ServedAlone DEF ProbeInv
    <3>3. slips = mem.n
      <4>1. ~Slipped /\ ~Undecided
        BY <2>2, <3>2 DEF Slipped, Undecided, SettlePlaces
      <4>2. slips = mem.n + 0
        BY <1>7, <4>1 DEF SlipsOK
      <4>3. mem.n \in Nat
        BY BaseBounds DEF ProbeInv
      <4>. QED
        BY <4>2, <4>3
    <3>4. line' # << >>
      <4>1. Len(line') = 1
        BY <3>2
      <4>. QED
        BY <4>1
    <3>5. line'[1].text = OK /\ Slipped'
      BY <1>1, <1>7, <2>2, <3>4 DEF Undecided, Slipped
    <3>6. command \in {"m"} \X Nat
      <4>1. mem.commanded \in Int
        BY BaseIsTyped, NumbersAreInts DEF ProbeInv, Typed
      <4>2. command = MoveTo(mem.commanded)
        BY <2>2, <3>2, AskedFacts
      <4>. QED
        BY <4>1, <4>2, MoveToCommands
    <3>7. Whole(cef'.position) = cef.target
      BY <1>7, <3>2, <3>5, <3>6 DEF Answered
    <3>8. caught
      BY <1>7, <2>2 DEF DrivingOK
    <3>9. slips' = slips + 1
      BY <1>1, <2>2, <3>7, <3>8 DEF Recorded
    <3>. QED
      BY <3>3, <3>5, <3>9
  <2>. QED
    BY <2>1, <2>2
<1>8. ViableIsEarned'
  <2>1. outcome = "VIABLE" => pc = "done"
    BY DEF ProbeInv, Base, HistoryOK
  <2>. QED
    BY <1>1, <1>3, <1>5, <2>1 DEF SlipsOK, ViableIsEarned
<1>. QED
  BY <1>1, <1>2, <1>3, <1>6, <1>7, <1>8 DEF SlipsOK

(* Reading keeps what the verdict rests on: the test begins on a calibration *)
(* that succeeded, and a retarget follows a lens that was seen moving.       *)
LEMMA ReadKeepsDriving ==
  ASSUME ProbeInv, DrivingOK, Read
  PROVE  DrivingOK'
<1>1. PICK reply : Turn(reply)
  BY ReadTurn DEF ProbeInv
<1>2. SUFFICES ASSUME Driving'
               PROVE  /\ mem'.n < Cycles /\ cef.lens = "fitted" /\ Calibrated
                      /\ line' = << >>
                      /\ pc' \in {"cycle.position", "cycle.retarget"} => caught
  <2>1. cef' = cef /\ measured' = measured /\ caught' = caught
    BY <1>1 DEF Turn
  <2>2. Calibrated' = Calibrated
    BY <2>1 DEF Calibrated
  <2>. QED
    BY <1>2, <2>1, <2>2 DEF DrivingOK
<1>3. ~Raises(reply) /\ Resume(reply)
  BY <1>1, <1>2 DEF Turn, End, Driving, TestPlaces, SettlePlaces
<1>4. CASE ~Driving
  <2>1. pc = "test.calibrate" /\ reply = << OK >> /\ pc' = "test.range" /\ mem' = mem
    BY <1>1, <1>2, <1>4, DrivingFrom DEF ProbeInv
  <2>2. mem = Idle
    BY <2>1 DEF ProbeInv, SyncOK
  <2>3. mem'.n = 0 /\ 0 < Cycles
    <3>1. mem'.n = 0
      BY <2>1, <2>2 DEF Idle
    <3>2. 0 < Cycles
      BY ProbeAssumption
    <3>. QED
      BY <3>1, <3>2
  <2>4. Backlog \in {0, 1}
    BY <2>1 DEF ProbeInv, Base, QueueOK
  <2>5. Alone(reply)
    <3>1. SUFFICES ASSUME Backlog = 1 PROVE FALSE
      BY <1>1, <2>4 DEF Turn
    <3>2. Overdue = << "e" >>
      BY <2>1, <3>1 DEF ProbeInv, SyncOK
    <3>3. Behind(reply)
      BY <1>1, <2>1, <3>1 DEF Turn, Resynced
    <3>4. OK \in {<< "y" >>, << "n" >>}
      BY <2>1, <3>2, <3>3 DEF Behind, Fits
    <3>. QED
      BY <3>4 DEF OK
  <2>6. command = << "c" >>
    BY <1>1, <2>1, AskedFacts DEF Turn
  <2>7. line[1].of = << "c" >> /\ line[1].text = OK
    BY <2>1, <2>5, <2>6 DEF Alone
  <2>8. Calibrated /\ OK = IF cef.lens = "fitted" THEN OK ELSE ER
    BY <2>5, <2>7 DEF Alone, Fits, Speaks
  <2>9. cef.lens = "fitted"
    BY <2>8 DEF OK, ER
  <2>. QED
    BY <2>1, <2>3, <2>5, <2>8, <2>9 DEF Alone
<1>5. CASE Driving
  <2>1. Alone(reply)
    BY <1>1, <1>5 DEF ProbeInv, SyncOK, Turn
  <2>2. mem.n < Cycles /\ cef.lens = "fitted" /\ Calibrated
    BY <1>5 DEF DrivingOK
  <2>3. mem \in Mem(mem.raw) /\ mem.n \in Nat
    BY DEF ProbeInv, Base, CoreOK, Mem
  <2>4. mem'.n = mem.n \/ (mem'.n = mem.n + 1 /\ mem.n + 1 < Cycles)
    <3>1. CASE Settled(reply)
      BY <1>2, <2>3, <3>1 DEF Settled, Driving, TestPlaces, SettlePlaces, Mem
    <3>2. CASE Cycle(reply)
      BY <2>3, <3>2 DEF Cycle, Go, Settle, Mem
    <3>3. CASE Calibrate(reply)
      BY <1>2, <2>3, <3>3 DEF Calibrate, Go, End, Settle, Mem, Driving, TestPlaces,
         SettlePlaces
    <3>4. CASE SettlePoll(reply)
      BY <1>2, <2>3, <3>4 DEF SettlePoll, Go, End, Mem, Driving, TestPlaces,
         SettlePlaces
    <3>5. CASE ~Settled(reply) /\ ~Cycle(reply) /\ ~Calibrate(reply) /\ ~SettlePoll(reply)
      BY <1>3, <1>5, <3>5 DEF Resume, Identify, VetTurn, Bench, ScanTurn, Sent,
         Driving, TestPlaces, SettlePlaces
    <3>. QED
      BY <3>1, <3>2, <3>3, <3>4, <3>5
  <2>5. ASSUME pc' \in {"cycle.position", "cycle.retarget"}
        PROVE  caught
    <3>1. Cycle(reply)
      <4>1. ~Settled(reply)
        BY <2>5 DEF Settled
      <4>. QED
        BY <1>3, <2>5, <4>1 DEF Resume, Identify, Calibrate, SettlePoll, VetTurn, Bench,
           ScanTurn, Sent, Poll, Go, End
    <3>2. pc = "cycle.moving" \/ pc = "cycle.position"
      BY <2>5, <3>1 DEF Cycle, Go
    <3>3. CASE pc = "cycle.moving"
      <4>1. IsMoving(reply)
        BY <1>3, <3>3 DEF Raises
      <4>2. line # << >> /\ line[1].text = << "y" >>
        BY <2>1, <4>1 DEF Alone, IsMoving
      <4>. QED
        BY <1>5, <3>3, <4>2 DEF DrivingOK
    <3>. QED
      BY <1>5, <3>2, <3>3 DEF DrivingOK
  <2>6. Cycles \in Nat
    BY ProbeAssumption
  <2>. QED
    BY <2>1, <2>2, <2>3, <2>4, <2>5, <2>6 DEF Alone
<1>. QED
  BY <1>4, <1>5

(* How a step of the test moves on the count.                                *)
LEMMA SlippedFrom ==
  ASSUME Base, NEW reply, Turn(reply), Alone(reply), Driving, Driving'
  PROVE  /\ ~Undecided
         /\ mem'.n + (IF Slipped' THEN 1 ELSE 0) = mem.n + (IF Slipped THEN 1 ELSE 0)
<1>0. mem \in Mem(mem.raw) /\ mem.n \in Nat
  BY DEF Base, CoreOK, Mem
<1>1. ~Raises(reply) /\ Resume(reply)
  BY DEF Turn, End, Driving, TestPlaces, SettlePlaces
<1>2. line # << >> /\ line' = << >> /\ reply = << line[1].text >>
  BY DEF Alone
<1>3. ASSUME pc = "cycle.retarget" PROVE line[1].text = OK
  <2>1. mem.commanded \in Int /\ Asked = {MoveTo(mem.commanded)}
    BY <1>3, AskedFacts, BaseIsTyped, NumbersAreInts DEF Typed
  <2>2. ~Refused(reply)
    BY <1>1, <1>3 DEF Raises, Unchecked
  <2>. QED
    BY <2>1, <2>2, AloneMove
<1>4. CASE Settled(reply)
  <2>0. pc = "settle.position"
    BY <1>4 DEF Settled
  <2>1. CASE mem.after = "start"
    <3>1. pc' = "cycle.move" /\ mem'.n = mem.n
      BY <1>0, <1>4, <2>1 DEF Settled, Mem
    <3>. QED
      BY <2>0, <2>1, <3>1 DEF Slipped, Undecided, SettlePlaces
  <2>2. CASE mem.after = "retarget"
    <3>1. pc' = "test.return" /\ mem'.n = mem.n
      BY <1>0, <1>4, <2>2 DEF Settled, Mem
    <3>. QED
      BY <2>0, <2>2, <3>1 DEF Slipped, Undecided, SettlePlaces
  <2>3. CASE mem.after = "return"
    <3>1. pc' = "cycle.move" /\ mem'.n = mem.n + 1
      BY <1>0, <1>4, <2>3 DEF Settled, Mem, Driving, TestPlaces, SettlePlaces
    <3>2. Slipped /\ ~Slipped' /\ ~Undecided
      BY <2>0, <2>3, <3>1 DEF Slipped, Undecided, SettlePlaces
    <3>. QED
      BY <1>0, <3>1, <3>2
  <2>4. CASE mem.after = "focus"
    BY <2>0, <2>4 DEF Driving, TestPlaces
  <2>. QED
    BY <1>4, <2>1, <2>2, <2>3, <2>4 DEF Settled
<1>5. CASE Cycle(reply)
  <2>1. CASE pc \in {"cycle.move", "cycle.moving", "cycle.position"}
    <3>1. mem'.n = mem.n /\ pc' \in {"cycle.moving", "cycle.position", "cycle.retarget"}
      BY <1>0, <1>5, <2>1 DEF Cycle, Go, Mem
    <3>. QED
      BY <1>2, <2>1, <3>1 DEF Slipped, Undecided, SettlePlaces
  <2>2. CASE pc = "cycle.retarget"
    <3>1. mem'.n = mem.n /\ mem'.after = "retarget" /\ pc' = "settle.moving"
      BY <1>0, <1>5, <2>2 DEF Cycle, Go, Settle, Mem
    <3>. QED
      BY <1>2, <1>3, <2>2, <3>1 DEF Slipped, Undecided, SettlePlaces
  <2>3. CASE pc = "test.return"
    <3>1. mem'.n = mem.n /\ mem'.after = "return" /\ pc' = "settle.moving"
      BY <1>0, <1>5, <2>3 DEF Cycle, Go, Settle, Mem
    <3>. QED
      BY <2>3, <3>1 DEF Slipped, Undecided, SettlePlaces
  <2>. QED
    BY <1>5, <2>1, <2>2, <2>3 DEF Cycle
<1>6. CASE Calibrate(reply)
  <2>1. pc = "test.range"
    BY <1>6 DEF Calibrate, Driving, TestPlaces, SettlePlaces
  <2>2. mem'.n = mem.n /\ mem'.after = "start" /\ pc' = "settle.moving"
    BY <1>0, <1>6, <2>1 DEF Calibrate, Go, End, Settle, Mem, Driving, TestPlaces,
       SettlePlaces
  <2>. QED
    BY <2>1, <2>2 DEF Slipped, Undecided, SettlePlaces
<1>7. CASE SettlePoll(reply)
  <2>1. /\ mem'.n = mem.n /\ mem'.after = mem.after /\ pc = "settle.moving"
        /\ pc' \in SettlePlaces
    BY <1>0, <1>7 DEF SettlePoll, Go, End, Mem, Driving, TestPlaces, SettlePlaces
  <2>. QED
    BY <2>1 DEF Slipped, Undecided, SettlePlaces
<1>8. CASE ~Settled(reply) /\ ~Cycle(reply) /\ ~Calibrate(reply) /\ ~SettlePoll(reply)
  BY <1>1, <1>8 DEF Resume, Identify, VetTurn, Bench, ScanTurn, Sent,
     Driving, TestPlaces, SettlePlaces
<1>. QED
  BY <1>4, <1>5, <1>6, <1>7, <1>8

(* Reading keeps the count of slips.                                         *)
LEMMA ReadKeepsSlips ==
  ASSUME ProbeInv, SlipsOK, Read
  PROVE  SlipsOK'
<1>1. PICK reply : Turn(reply)
  BY ReadTurn DEF ProbeInv
<1>2. slips' = slips /\ cef' = cef /\ outcome = "running"
  BY <1>1 DEF Turn
<1>3. pc' \in IdentifyPlaces \union {"test.calibrate"} => slips' = 0
  BY <1>1, <1>2, IdentifyFrom DEF SlipsOK
<1>4. Driving => Alone(reply)
  BY <1>1 DEF ProbeInv, SyncOK, Turn
<1>5. ASSUME Driving', ~cef'.retargets, ~Undecided'
      PROVE  slips' = mem'.n + (IF Slipped' THEN 1 ELSE 0)
  <2>1. CASE Driving
    BY <1>1, <1>2, <1>4, <1>5, <2>1, SlippedFrom DEF ProbeInv, SlipsOK
  <2>2. CASE ~Driving
    <3>1. pc = "test.calibrate" /\ pc' = "test.range" /\ mem' = mem
      BY <1>1, <1>5, <2>2, DrivingFrom DEF ProbeInv
    <3>2. slips = 0 /\ mem = Idle
      BY <3>1 DEF ProbeInv, SyncOK, SlipsOK
    <3>3. mem'.n = 0 /\ ~Slipped'
      BY <3>1, <3>2 DEF Idle, Slipped, SettlePlaces
    <3>. QED
      BY <1>2, <3>2, <3>3
  <2>. QED
    BY <2>1, <2>2
<1>6. ASSUME outcome' = "VIABLE", ~cef'.retargets
      PROVE  slips' = Cycles
  <2>1. /\ pc = "settle.position" /\ mem.after = "return" /\ Driving
        /\ mem.n + 1 = Cycles
    BY <1>1, <1>6, VerdictFrom DEF ProbeInv
  <2>2. Slipped /\ ~Undecided
    BY <2>1 DEF Slipped, Undecided, SettlePlaces
  <2>. QED
    BY <1>2, <1>6, <2>1, <2>2 DEF SlipsOK
<1>. QED
  BY <1>3, <1>5, <1>6 DEF SlipsOK, ViableIsEarned

(* Every step keeps what the verdict rests on.                               *)
LEMMA StepKeepsSlips ==
  ASSUME ProbeInv, DrivingOK, SlipsOK, [Next]_vars
  PROVE  DrivingOK' /\ SlipsOK'
<1>1. CASE GiveUp
  <2>1. ~Driving' /\ pc' \in {"send", "done"}
    BY <1>1, GiveUpFacts
  <2>2. outcome' # "VIABLE"
    <3>1. outcome = "running"
      BY <1>1, GiveUpFacts DEF ProbeInv, Base, HistoryOK, QueueOK
    <3>. QED
      BY <1>1, <3>1, GiveUpFacts
  <2>. QED
    BY <2>1, <2>2 DEF DrivingOK, SlipsOK, ViableIsEarned, IdentifyPlaces
<1>2. ASSUME UNCHANGED << cef, line, pc, mem, outcome, measured, caught, slips >>,
             Driving' = Driving
      PROVE  DrivingOK' /\ SlipsOK'
  BY <1>2 DEF DrivingOK, SlipsOK, ViableIsEarned, Slipped, Undecided, Calibrated
<1>3. CASE UNCHANGED vars
  BY <1>2, <1>3, StillFacts
<1>4. CASE Write
  BY <1>2, <1>4, WriteStill DEF ProbeInv
<1>. QED
  BY <1>1, <1>3, <1>4, ReadKeepsDriving, ReadKeepsSlips, ServedKeepsDriving,
     ServedKeepsSlips DEF Next, Probe

(* VIABLE is printed of a controller that refuses to be retargeted only if   *)
(* every cycle slipped.                                                      *)
THEOREM ViableIsAlwaysEarned == Spec => []ViableIsEarned
<1>. DEFINE Inv == ProbeInv /\ DrivingOK /\ SlipsOK
<1>1. Init => Inv
  <2>. SUFFICES ASSUME Init PROVE Inv
    OBVIOUS
  <2>1. First \notin TestPlaces \union SettlePlaces
    BY DEF First, TestPlaces, SettlePlaces
  <2>2. pc = First /\ slips = 0 /\ outcome # "VIABLE"
    BY DEF Init, Start
  <2>3. ~Driving
    BY <2>1, <2>2 DEF Driving
  <2>. QED
    BY <2>2, <2>3, InitProbeInv DEF DrivingOK, SlipsOK, ViableIsEarned
<1>2. Inv /\ [Next]_vars => Inv'
  BY StepKeepsProbeInv, StepKeepsSlips
<1>3. Inv => ViableIsEarned
  BY DEF SlipsOK
<1>. QED
  BY <1>1, <1>2, <1>3, PTL DEF Spec

-----------------------------------------------------------------------------
(* Vetting *)

\* A calibration is to be asked for or to be served.
Due ==
  \/ pc = "vet.calibrate" /\ ~waiting
  \/ unserved # << >> /\ unserved[1] = << "c" >>

\* An answer owed to an earlier session puts the first turn behind at most, ...
VetSyncOK ==
  pc \in VetPlaces =>
    /\ mem.seen # << >> => Backlog = 0
    /\ pc = "vet.moving" /\ Backlog = 1 => Overdue = << "c" >>
    /\ pc = "vet.range" /\ Backlog = 1 => Overdue = << "e" >> /\ cef.lens = "fitted"
    /\ pc = "vet.calibrate" => unserved = << >> \/ (waiting /\ Len(unserved) = 1)
    /\ \A i \in 1..Len(unserved) : unserved[i] = << "c" >> => i = 1

\* ... and what the turns saw is what the calibrations found.
VetSeenOK ==
  pc \in VetPlaces =>
    /\ Len(mem.seen) < Vet
    /\ cef.lens = "fitted" =>
         measured = IF Due THEN mem.seen ELSE Append(mem.seen, cef.travel)
    /\ ~Due => Calibrated
    /\ cef.lens # "fitted" /\ mem.seen # << >> => mem.seen[1] = 0

(* A lens that passed stays as it was vetted: nothing is left to be served.  *)
VettedOK == UsableIsEarned /\ (outcome = "USABLE" => unserved = << >>)

(* The program comes to vet() only from vet().                               *)
LEMMA VetFrom ==
  ASSUME NEW reply, Turn(reply), pc' \in VetPlaces
  PROVE  ~Raises(reply) /\ VetTurn(reply) /\ pc \in VetPlaces
<1>1. ~Raises(reply) /\ Resume(reply)
  BY DEF Turn, End, VetPlaces
<1>2. ~Settled(reply)
  BY DEF Settled, VetPlaces
<1>3. VetTurn(reply)
  BY <1>1, <1>2 DEF Resume, Identify, Calibrate, SettlePoll, Cycle, Bench,
     ScanTurn, Sent, Poll, Go, End, VetPlaces
<1>. QED
  BY <1>1, <1>3 DEF VetTurn, VetPlaces

(* What a turn can take for an answer when one is overdue: the status of a   *)
(* calibration ends the wait for a fitted lens only, and a poll's answer is  *)
(* no range.                                                                 *)
LEMMA VetAnswers ==
  ASSUME ProbeInv, VetSyncOK, NEW reply, Turn(reply), ~Raises(reply), pc \in VetPlaces
  PROVE  /\ pc = "vet.moving" /\ Behind(reply) /\ Backlog = 1 =>
              cef.lens = "fitted" /\ reply = << OK >> /\ line[1].of = << "c" >>
         /\ pc = "vet.range" => unserved = << >> /\ Backlog' = 0 /\ unserved' = << >>
         /\ pc = "vet.range" /\ ~Alone(reply) =>
              cef.lens = "fitted" /\ mem.seen = << >> /\ Resynced(reply)
<1>0. Backlog \in {0, 1} /\ mem.seen \in Seq(Nat)
  BY DEF ProbeInv, Base, QueueOK, VetPlaces, CoreOK, Mem
<1>1. ASSUME pc = "vet.moving", Behind(reply), Backlog = 1
      PROVE  cef.lens = "fitted" /\ reply = << OK >> /\ line[1].of = << "c" >>
  <2>1. line[1].of = << "c" >> /\ reply = << line[1].text >> /\ Fits(line[1])
    BY <1>1 DEF Behind, VetSyncOK
  <2>2. line[1].text = IF cef.lens = "fitted" THEN OK ELSE ER
    BY <2>1 DEF Fits
  <2>3. ~Refused(reply)
    BY <1>1 DEF Raises, Unchecked
  <2>. QED
    BY <2>1, <2>2, <2>3 DEF Refused
<1>2. ASSUME pc = "vet.range", Backlog = 1
      PROVE  ~Behind(reply)
  <2>1. SUFFICES ASSUME Behind(reply) PROVE FALSE
    OBVIOUS
  <2>2. line[1].of = << "e" >> /\ reply = << line[1].text >> /\ Fits(line[1])
    BY <1>2, <2>1 DEF Behind, VetSyncOK
  <2>3. reply = << << "y" >> >> \/ reply = << << "n" >> >>
    BY <2>2 DEF Fits
  <2>4. Usable(reply)
    BY <2>3 DEF Usable
  <2>5. ~HasLastField(reply)
    BY <2>3 DEF HasLastField, IsPosition
  <2>. QED
    BY <1>2, <2>4, <2>5 DEF Raises
<1>3. ASSUME pc = "vet.range" PROVE Alone(reply) \/ (Resynced(reply) /\ Backlog = 1)
  BY <1>0, <1>2, <1>3 DEF Turn
<1>4. ASSUME pc = "vet.range", Backlog = 1
      PROVE  cef.lens = "fitted" /\ mem.seen = << >>
  BY <1>4 DEF VetSyncOK
<1>. QED
  BY <1>1, <1>3, <1>4 DEF Alone, Resynced

(* Reading keeps the turns in step: the first one catches up or fails.       *)
LEMMA ReadKeepsVetSync ==
  ASSUME ProbeInv, VetSyncOK, Read
  PROVE  VetSyncOK'
<1>1. PICK reply : Turn(reply)
  BY ReadTurn DEF ProbeInv
<1>. SUFFICES ASSUME pc' \in VetPlaces
              PROVE  /\ mem'.seen # << >> => Backlog' = 0
                     /\ pc' = "vet.moving" /\ Backlog' = 1 => Overdue' = << "c" >>
                     /\ pc' = "vet.range" /\ Backlog' = 1 =>
                          Overdue' = << "e" >> /\ cef'.lens = "fitted"
                     /\ pc' = "vet.calibrate" =>
                          unserved' = << >> \/ (waiting' /\ Len(unserved') = 1)
                     /\ \A i \in 1..Len(unserved') : unserved'[i] = << "c" >> => i = 1
  BY DEF VetSyncOK
<1>2. ~Raises(reply) /\ VetTurn(reply) /\ pc \in VetPlaces
  BY <1>1, VetFrom
<1>3. cef' = cef /\ command \in Asked /\ Backlog \in {0, 1}
  BY <1>1, <1>2 DEF Turn, ProbeInv, Base, QueueOK, VetPlaces
<1>4. \/ Alone(reply) /\ Backlog = 0
      \/ Behind(reply) /\ Backlog = 1
      \/ Resynced(reply) /\ Backlog = 1
  BY <1>1, <1>3 DEF Turn
<1>5. \A i \in 1..Len(unserved') : unserved'[i] = << "c" >> => i = 1
  <2>1. CASE unserved' = unserved
    BY <1>2, <2>1 DEF VetSyncOK
  <2>2. CASE unserved' = << >>
    BY <2>2
  <2>. QED
    BY <1>4, <2>1, <2>2 DEF Alone, Behind, Resynced
<1>6. mem \in Mem(mem.raw)
  BY DEF ProbeInv, Base, CoreOK
<1>7. Backlog = 0 => Backlog' = 0
  BY <1>4 DEF Alone
<1>8. CASE pc = "vet.calibrate"
  <2>1. pc' = "vet.moving" /\ mem' = mem
    BY <1>2, <1>8 DEF VetTurn, Go
  <2>2. command = << "c" >>
    BY <1>3, <1>8, AskedFacts
  <2>3. Backlog' = 1 => Overdue' = << "c" >>
    BY <1>4, <2>2 DEF Alone, Behind, Resynced
  <2>4. mem.seen # << >> => Backlog = 0
    BY <1>2 DEF VetSyncOK
  <2>. QED
    BY <1>5, <1>7, <2>1, <2>3, <2>4
<1>9. CASE pc = "vet.moving"
  <2>1. mem'.seen = mem.seen /\ pc' \in {"vet.moving", "vet.range"}
        /\ (pc' = "vet.moving" => IsMoving(reply))
    BY <1>2, <1>6, <1>9 DEF VetTurn, Poll, Go, Mem
  <2>2. command = << "e" >>
    BY <1>3, <1>9, AskedFacts
  <2>3. mem.seen # << >> => Backlog = 0
    BY <1>2 DEF VetSyncOK
  <2>4. Backlog' = 1 => Behind(reply) /\ Backlog = 1
    BY <1>4 DEF Alone, Resynced
  <2>5. Backlog' = 1 => cef.lens = "fitted" /\ reply = << OK >>
    BY <1>1, <1>2, <1>9, <2>4, VetAnswers
  <2>6. Backlog' = 1 => pc' # "vet.moving"
    BY <2>1, <2>5 DEF IsMoving, OK
  <2>7. Backlog' = 1 => Overdue' = << "e" >>
    BY <2>2, <2>4 DEF Behind
  <2>. QED
    BY <1>3, <1>5, <1>7, <2>1, <2>3, <2>5, <2>6, <2>7
<1>10. CASE pc = "vet.range"
  <2>1. pc' = "vet.calibrate"
    BY <1>2, <1>10 DEF VetTurn, Go, End, VetPlaces
  <2>2. unserved' = << >> /\ Backlog' = 0
    BY <1>1, <1>2, <1>10, VetAnswers
  <2>. QED
    BY <1>5, <2>1, <2>2
<1>. QED
  BY <1>2, <1>8, <1>9, <1>10 DEF VetPlaces

(* Asking keeps the turns in step.                                           *)
LEMMA WriteKeepsVetSync ==
  ASSUME ProbeInv, VetSyncOK, Write
  PROVE  VetSyncOK'
<1>1. /\ UNCHANGED << cef, pc, mem >> /\ ~waiting /\ waiting' /\ Backlog' = Backlog
      /\ (Backlog = 1 => Overdue' = Overdue) /\ command' \in Asked
      /\ Len(unserved') = Len(unserved) + 1
      /\ unserved'[Len(unserved) + 1] = command'
      /\ \A i \in 1..Len(unserved) : unserved'[i] = unserved[i]
  BY WriteStill DEF ProbeInv
<1>. SUFFICES ASSUME pc \in VetPlaces
              PROVE  /\ pc = "vet.calibrate" => Len(unserved') = 1
                     /\ \A i \in 1..Len(unserved') : unserved'[i] = << "c" >> => i = 1
  BY <1>1 DEF VetSyncOK
<1>2. Len(unserved) \in Nat
  BY BaseBounds DEF ProbeInv
<1>3. pc = "vet.calibrate" => Len(unserved) = 0
  BY <1>1 DEF VetSyncOK
<1>4. pc # "vet.calibrate" => command' # << "c" >>
  BY <1>1, AskedFacts DEF VetPlaces
<1>5. ASSUME NEW i \in 1..Len(unserved'), unserved'[i] = << "c" >>
      PROVE  i = 1
  <2>1. CASE i \in 1..Len(unserved)
    BY <1>1, <1>5, <2>1 DEF VetSyncOK
  <2>2. CASE i = Len(unserved) + 1
    <3>1. unserved'[i] = command'
      BY <1>1, <2>2
    <3>2. Len(unserved) = 0
      BY <1>3, <1>4, <1>5, <3>1
    <3>. QED
      BY <2>2, <3>2
  <2>. QED
    BY <1>1, <1>2, <2>1, <2>2
<1>. QED
  BY <1>1, <1>2, <1>3, <1>5

(* A calibration due is served before anything else.                         *)
LEMMA VetServed ==
  ASSUME ProbeInv, VetSyncOK, pc \in VetPlaces, Served
  PROVE  /\ Due <=> Head(unserved) = << "c" >>
         /\ \A i \in 1..Len(unserved') : unserved'[i] # << "c" >>
         /\ ~Due' /\ pc' = pc /\ mem' = mem
         /\ waiting' = waiting /\ cef'.lens = cef.lens
         /\ Backlog' = Backlog /\ Overdue' = Overdue
         /\ pc = "vet.calibrate" => unserved' = << >>
<1>1. Typed /\ QueueOK
  BY BaseIsTyped DEF ProbeInv
<1>2. /\ unserved # << >> /\ UNCHANGED << pc, mem, waiting >>
      /\ cef'.lens = cef.lens
  BY <1>1, ServedFacts DEF Answered
<1>3. /\ Len(unserved') = Len(unserved) - 1 /\ Len(unserved) \in Nat
      /\ Len(unserved) > 0
      /\ \A i \in 1..Len(unserved') : unserved'[i] = unserved[i + 1]
      /\ unserved \in Seq(Commands) /\ unserved' \in Seq(Commands)
  BY <1>1, ServedKeepsPort DEF PortOK, Typed
<1>4. /\ \A i \in 1..Len(unserved) : unserved[i] = << "c" >> => i = 1
      /\ pc = "vet.calibrate" => waiting /\ Len(unserved) = 1
  BY <1>2 DEF VetSyncOK
<1>5. \A i \in 1..Len(unserved') : unserved'[i] # << "c" >>
  <2>. SUFFICES ASSUME NEW i \in 1..Len(unserved') PROVE unserved'[i] # << "c" >>
    OBVIOUS
  <2>1. i + 1 \in 1..Len(unserved) /\ i + 1 # 1
    BY <1>3
  <2>. QED
    BY <1>3, <1>4, <2>1
<1>6. Due <=> Head(unserved) = << "c" >>
  <2>1. Head(unserved) = unserved[1]
    BY <1>3
  <2>. QED
    BY <1>2, <1>4, <2>1 DEF Due
<1>7. ~Due'
  <2>1. unserved' # << >> => unserved'[1] # << "c" >>
    <3>1. unserved' # << >> => 1 \in 1..Len(unserved')
      BY <1>3
    <3>. QED
      BY <1>5, <3>1
  <2>. QED
    BY <1>2, <1>4, <2>1 DEF Due
<1>8. Backlog' = Backlog /\ Overdue' = Overdue
  BY <1>1, ServedKeepsQueue, ServedOverdue DEF ProbeInv
<1>9. pc = "vet.calibrate" => unserved' = << >>
  <2>1. pc = "vet.calibrate" => Len(unserved') = 0
    BY <1>3, <1>4
  <2>. QED
    BY <1>3, <2>1
<1>. QED
  BY <1>2, <1>5, <1>6, <1>7, <1>8, <1>9

(* Serving keeps the turns in step.                                          *)
LEMMA ServedKeepsVetSync ==
  ASSUME ProbeInv, VetSyncOK, Served
  PROVE  VetSyncOK'
<1>1. pc' = pc
  BY BaseIsTyped, ServedFacts DEF ProbeInv
<1>. SUFFICES ASSUME pc \in VetPlaces PROVE VetSyncOK'
  BY <1>1 DEF VetSyncOK
<1>. QED
  BY VetServed DEF VetSyncOK

(* Serving a calibration measures the travel the turn is going to see.       *)
LEMMA ServedKeepsVetSeen ==
  ASSUME ProbeInv, VetSyncOK, VetSeenOK, Served
  PROVE  VetSeenOK'
<1>1. pc' = pc
  BY BaseIsTyped, ServedFacts DEF ProbeInv
<1>. SUFFICES ASSUME pc \in VetPlaces
              PROVE  VetSeenOK'
  BY <1>1 DEF VetSeenOK
<1>2. /\ Due <=> Head(unserved) = << "c" >>
      /\ ~Due' /\ mem' = mem /\ cef'.lens = cef.lens
  BY VetServed
<1>3. PICK asked : asked = Head(unserved)
  OBVIOUS
<1>4. PICK text : Answered(asked, text)
  BY <1>3, BaseIsTyped, ServedFacts DEF ProbeInv
<1>5. Recorded(asked)
  BY <1>3, BaseIsTyped, ServedFacts DEF ProbeInv
<1>6. /\ Len(mem.seen) < Vet
      /\ cef.lens # "fitted" /\ mem.seen # << >> => mem.seen[1] = 0
      /\ cef.lens = "fitted" =>
           measured = IF Due THEN mem.seen ELSE Append(mem.seen, cef.travel)
      /\ ~Due => Calibrated
  BY DEF VetSeenOK
<1>7. CASE Due
  <2>1. asked = << "c" >>
    BY <1>2, <1>3, <1>7
  <2>2. measured \in Seq(Nat) /\ cef'.travel \in Nat
    BY <1>4, ControllerAssumption DEF ProbeInv, Base, HistoryOK, Answered, Controller
  <2>3. cef.lens = "fitted" =>
          /\ measured' = Append(measured, cef'.travel) /\ ~cef'.failed
          /\ measured = mem.seen
    BY <1>4, <1>5, <1>6, <1>7, <2>1 DEF Answered, Recorded
  <2>4. cef.lens = "manual" => cef'.failed
    BY <1>4, <2>1 DEF Answered
  <2>5. Calibrated'
    BY <1>2, <2>2, <2>3, <2>4 DEF Calibrated
  <2>. QED
    BY <1>2, <1>6, <2>3, <2>5 DEF VetSeenOK
<1>8. CASE ~Due
  <2>1. asked # << "c" >>
    BY <1>2, <1>3, <1>8
  <2>2. measured' = measured /\ cef'.travel = cef.travel /\ cef'.failed = cef.failed
    BY <1>4, <1>5, <2>1 DEF Answered, Recorded
  <2>3. Calibrated'
    BY <1>2, <1>6, <1>8, <2>2 DEF Calibrated
  <2>. QED
    BY <1>2, <1>6, <1>8, <2>2, <2>3 DEF VetSeenOK
<1>. QED
  BY <1>7, <1>8

(* A calibration asked for is as due as one that is going to be.             *)
LEMMA WriteKeepsVetSeen ==
  ASSUME ProbeInv, VetSyncOK, VetSeenOK, Write
  PROVE  VetSeenOK'
<1>1. /\ UNCHANGED << cef, pc, mem, measured >> /\ ~waiting /\ waiting'
      /\ command' \in Asked
      /\ Len(unserved') = Len(unserved) + 1
      /\ unserved'[Len(unserved) + 1] = command'
      /\ \A i \in 1..Len(unserved) : unserved'[i] = unserved[i]
      /\ Len(unserved) \in Nat
  BY WriteStill, BaseBounds DEF ProbeInv
<1>. SUFFICES ASSUME pc \in VetPlaces PROVE Due' = Due
  BY <1>1 DEF VetSeenOK, Calibrated
<1>2. CASE pc = "vet.calibrate"
  <2>1. Len(unserved) = 0
    BY <1>1, <1>2 DEF VetSyncOK
  <2>2. command' = << "c" >>
    BY <1>1, <1>2, AskedFacts
  <2>3. Len(unserved') = 1 /\ unserved'[1] = << "c" >>
    BY <1>1, <2>1, <2>2
  <2>4. unserved' # << >>
    BY <2>3
  <2>. QED
    BY <1>1, <1>2, <2>3, <2>4 DEF Due
<1>3. CASE pc # "vet.calibrate"
  <2>1. command' # << "c" >>
    BY <1>1, <1>3, AskedFacts DEF VetPlaces
  <2>2. unserved' # << >>
    BY <1>1
  <2>3. CASE Len(unserved) = 0
    <3>1. unserved'[1] = command' /\ unserved = << >>
      <4>1. unserved'[1] = command'
        BY <1>1, <2>3
      <4>2. unserved \in Seq(Commands)
        BY DEF ProbeInv, Base, PortOK
      <4>. QED
        BY <2>3, <4>1, <4>2
    <3>. QED
      BY <1>1, <1>3, <2>1, <3>1 DEF Due
  <2>4. CASE Len(unserved) # 0
    <3>1. unserved'[1] = unserved[1] /\ unserved # << >>
      BY <1>1, <2>4
    <3>. QED
      BY <1>1, <1>3, <2>2, <3>1 DEF Due
  <2>. QED
    BY <2>3, <2>4
<1>. QED
  BY <1>2, <1>3

\* What a turn sees of a lens that has been calibrated.
LEMMA RangeSeen ==
  ASSUME ProbeInv, Calibrated, NEW text, text = TravelRange(cef)
  PROVE  /\ text[1] = "range" /\ text = << "range", text[2] >>
         /\ cef.lens = "fitted" =>
              text[2] = cef.travel /\ Usable(<< text >>) /\ text[2] # 0
         /\ cef.lens # "fitted" => ~Usable(<< text >>)
<1>1. cef.lens \in Lenses /\ cef.travel \in Lengths /\ cef.travel \in Nat
  BY ControllerAssumption DEF ProbeInv, Base, CoreOK, Controller
<1>2. cef.travel # 0 /\ cef.travel # NoLens
  BY <1>1, ControllerAssumption
<1>3. CASE cef.lens = "fitted"
  <2>1. text = << "range", cef.travel >>
    BY <1>3 DEF Calibrated, TravelRange
  <2>. QED
    BY <1>2, <1>3, <2>1 DEF Usable
<1>4. CASE cef.lens # "fitted"
  <2>1. text = << "range", 0 >> \/ text = << "range", NoLens >>
    BY <1>1, <1>4 DEF Calibrated, TravelRange, Lenses
  <2>. QED
    BY <1>4, <2>1 DEF Usable
<1>. QED
  BY <1>3, <1>4

\* What a turn adds.
Seen(reply) == Append(mem.seen, IF Usable(reply) THEN LastField(reply) ELSE 0)

(* A turn sees the travel measured last, or zero of a lens that cannot be    *)
(* driven.                                                                   *)
LEMMA TurnSees ==
  ASSUME ProbeInv, VetSyncOK, VetSeenOK, NEW reply, Turn(reply), ~Raises(reply),
         pc = "vet.range"
  PROVE  /\ Seen(reply) \in Seq(Nat) /\ Len(Seen(reply)) = Len(mem.seen) + 1
         /\ cef.lens = "fitted" => measured = Seen(reply)
         /\ cef.lens # "fitted" => Seen(reply)[1] = 0
<1>1. /\ unserved = << >>
      /\ ~Alone(reply) => cef.lens = "fitted" /\ mem.seen = << >> /\ Resynced(reply)
  BY VetAnswers DEF VetPlaces
<1>2. ~Due
  BY <1>1 DEF Due
<1>3. /\ Calibrated /\ mem.seen \in Seq(Nat) /\ command = << "r" >>
      /\ cef.lens = "fitted" => measured = Append(mem.seen, cef.travel)
      /\ cef.lens # "fitted" /\ mem.seen # << >> => mem.seen[1] = 0
  BY <1>2, AskedFacts DEF VetSeenOK, VetPlaces, ProbeInv, Base, CoreOK, Mem, Turn
<1>4. cef.travel \in Nat
  BY ControllerAssumption DEF ProbeInv, Base, CoreOK, Controller
<1>5. CASE cef.lens = "fitted"
  <2>1. Usable(reply) /\ LastField(reply) = cef.travel
    <3>1. CASE Alone(reply)
      <4>1. reply = << line[1].text >> /\ line[1].text = TravelRange(cef)
        BY <1>3, <3>1 DEF Alone, Speaks
      <4>. QED
        BY <1>3, <1>5, <4>1, RangeSeen DEF LastField
    <3>2. CASE ~Alone(reply)
      <4>1. /\ Len(reply) = 2 /\ reply[2] = line[2].text
            /\ line[2].text = TravelRange(cef)
        BY <1>1, <1>3, <3>2 DEF Resynced, Speaks
      <4>2. Usable(reply)
        <5>1. Len(<< << "range", NoLens >> >>) = 1 /\ Len(<< << "range", 0 >> >>) = 1
          OBVIOUS
        <5>. QED
          BY <4>1, <5>1 DEF Usable
      <4>. QED
        BY <1>3, <1>5, <4>1, <4>2, RangeSeen DEF LastField
    <3>. QED
      BY <3>1, <3>2
  <2>2. Seen(reply) = Append(mem.seen, cef.travel)
    BY <2>1 DEF Seen
  <2>. QED
    BY <1>3, <1>4, <1>5, <2>2
<1>6. CASE cef.lens # "fitted"
  <2>1. Alone(reply)
    BY <1>1, <1>6
  <2>2. reply = << line[1].text >> /\ line[1].text = TravelRange(cef)
    BY <1>3, <2>1 DEF Alone, Speaks
  <2>3. ~Usable(reply)
    BY <1>3, <1>6, <2>2, RangeSeen
  <2>4. Seen(reply) = Append(mem.seen, 0)
    BY <2>3 DEF Seen
  <2>5. /\ Seen(reply) \in Seq(Nat) /\ Len(Seen(reply)) = Len(mem.seen) + 1
        /\ mem.seen # << >> => Seen(reply)[1] = mem.seen[1]
        /\ mem.seen = << >> => Seen(reply)[1] = 0
    BY <1>3, <2>4
  <2>. QED
    BY <1>3, <1>6, <2>5
<1>. QED
  BY <1>5, <1>6

(* Reading keeps what the turns saw equal to what was measured.              *)
LEMMA ReadKeepsVetSeen ==
  ASSUME ProbeInv, VetSyncOK, VetSeenOK, Read
  PROVE  VetSeenOK'
<1>1. PICK reply : Turn(reply)
  BY ReadTurn DEF ProbeInv
<1>. SUFFICES ASSUME pc' \in VetPlaces
              PROVE  VetSeenOK'
  BY DEF VetSeenOK
<1>2. ~Raises(reply) /\ VetTurn(reply) /\ pc \in VetPlaces
  BY <1>1, VetFrom
<1>3. cef' = cef /\ measured' = measured /\ Backlog \in {0, 1} /\ waiting
      /\ waiting' = FALSE
  BY <1>1, <1>2 DEF Turn, ProbeInv, Base, QueueOK, VetPlaces
<1>4. Calibrated' = Calibrated
  BY <1>3 DEF Calibrated
<1>5. mem \in Mem(mem.raw)
  BY DEF ProbeInv, Base, CoreOK
<1>6. unserved' = unserved
  BY <1>1, <1>3 DEF Turn, Alone, Behind, Resynced
<1>7. CASE pc \in {"vet.calibrate", "vet.moving"}
  <2>1. mem'.seen = mem.seen /\ pc' # "vet.calibrate"
    BY <1>2, <1>5, <1>7 DEF VetTurn, Poll, Go, Mem
  <2>2. Due' = Due
    BY <1>3, <1>6, <2>1 DEF Due
  <2>. QED
    BY <1>2, <1>3, <1>4, <2>1, <2>2 DEF VetSeenOK
<1>8. CASE pc = "vet.range"
  <2>1. pc' = "vet.calibrate" /\ mem'.seen = Seen(reply) /\ Len(Seen(reply)) < Vet
    BY <1>2, <1>5, <1>8 DEF VetTurn, Go, End, VetPlaces, Seen, Mem
  <2>2. Due'
    BY <1>3, <2>1 DEF Due
  <2>. QED
    BY <1>1, <1>2, <1>3, <1>8, <2>1, <2>2, TurnSees DEF VetSeenOK
<1>. QED
  BY <1>2, <1>7, <1>8 DEF VetPlaces

(* "USABLE" is the verdict on the turns seen, after the last one.            *)
LEMMA UsableFrom ==
  ASSUME NEW reply, Turn(reply), outcome' = "USABLE"
  PROVE  /\ pc = "vet.range" /\ ~Raises(reply)
         /\ ~(Len(Seen(reply)) < Vet) /\ Verdict(Seen(reply)) = "USABLE"
<1>1. outcome = "running" /\ ~Raises(reply)
  BY DEF Turn, End
<1>2. Resume(reply)
  BY <1>1 DEF Turn
<1>3. CASE VetTurn(reply)
  BY <1>1, <1>3 DEF VetTurn, Poll, Go, End, Seen
<1>4. CASE Settled(reply)
  BY <1>1, <1>4 DEF Settled
<1>5. CASE ~VetTurn(reply) /\ ~Settled(reply)
  BY <1>1, <1>2, <1>5 DEF Resume, Identify, Calibrate, SettlePoll, Cycle, Bench,
     ScanTurn, Sent, Poll, Go, End
<1>. QED
  BY <1>3, <1>4, <1>5

(* The verdict is on what was measured.                                      *)
LEMMA ReadKeepsVetted ==
  ASSUME ProbeInv, VetSyncOK, VetSeenOK, Read
  PROVE  VettedOK'
<1>1. PICK reply : Turn(reply)
  BY ReadTurn DEF ProbeInv
<1>. SUFFICES ASSUME outcome' = "USABLE"
              PROVE  /\ cef'.lens = "fitted" /\ Len(measured') = Vet
                     /\ Reproducible(measured') /\ unserved' = << >>
  BY DEF VettedOK, UsableIsEarned
<1>2. /\ pc = "vet.range" /\ ~Raises(reply)
      /\ ~(Len(Seen(reply)) < Vet) /\ Verdict(Seen(reply)) = "USABLE"
  BY <1>1, UsableFrom
<1>3. /\ Seen(reply) \in Seq(Nat) /\ Len(Seen(reply)) = Len(mem.seen) + 1
      /\ cef.lens = "fitted" => measured = Seen(reply)
      /\ cef.lens # "fitted" => Seen(reply)[1] = 0
  BY <1>1, <1>2, TurnSees
<1>4. unserved' = << >>
  BY <1>1, <1>2, VetAnswers DEF VetPlaces
<1>5. cef' = cef /\ measured' = measured
  BY <1>1 DEF Turn
<1>6. /\ \A k \in DOMAIN Seen(reply) : Seen(reply)[k] # 0
      /\ Reproducible(Seen(reply))
  BY <1>2 DEF Verdict
<1>7. Len(mem.seen) < Vet /\ Len(mem.seen) \in Nat /\ Vet \in Nat
  <2>1. mem.seen \in Seq(Nat)
    BY DEF ProbeInv, Base, CoreOK, Mem
  <2>2. Len(mem.seen) < Vet
    BY <1>2 DEF VetSeenOK, VetPlaces
  <2>. QED
    BY <2>1, <2>2, ProbeAssumption
<1>8. Len(Seen(reply)) = Vet
  BY <1>2, <1>3, <1>7
<1>9. 1 \in DOMAIN Seen(reply)
  BY <1>3, <1>7
<1>10. cef.lens = "fitted"
  BY <1>3, <1>6, <1>9
<1>. QED
  BY <1>3, <1>4, <1>5, <1>6, <1>8, <1>10

(* After the verdict nothing is served.                                      *)
LEMMA ServedKeepsVetted ==
  ASSUME ProbeInv, VettedOK, Served
  PROVE  VettedOK'
  BY BaseIsTyped, ServedFacts DEF ProbeInv, VettedOK, UsableIsEarned

(* Every step keeps the turns in step and what they saw.                     *)
LEMMA StepKeepsVet ==
  ASSUME ProbeInv, VetSyncOK, VetSeenOK, VettedOK, [Next]_vars
  PROVE  VetSyncOK' /\ VetSeenOK' /\ VettedOK'
<1>1. CASE GiveUp
  <2>1. pc' \notin VetPlaces
    BY <1>1, GiveUpFacts DEF VetPlaces
  <2>2. outcome = "running"
    BY <1>1, GiveUpFacts DEF ProbeInv, Base, HistoryOK, QueueOK
  <2>3. outcome' # "USABLE"
    BY <1>1, <2>2, GiveUpFacts
  <2>. QED
    BY <2>1, <2>3 DEF VetSyncOK, VetSeenOK, VettedOK, UsableIsEarned
<1>2. CASE UNCHANGED vars
  BY <1>2, StillFacts DEF VetSyncOK, VetSeenOK, VettedOK, UsableIsEarned, Due, Calibrated
<1>3. CASE Write
  <2>1. pc # "done" /\ UNCHANGED outcome
    BY <1>3, WriteStill DEF ProbeInv
  <2>2. outcome' # "USABLE"
    BY <2>1 DEF ProbeInv, Base, HistoryOK
  <2>. QED
    BY <1>3, <2>2, WriteKeepsVetSync, WriteKeepsVetSeen DEF VettedOK, UsableIsEarned
<1>4. CASE Served
  BY <1>4, ServedKeepsVetSync, ServedKeepsVetSeen, ServedKeepsVetted
<1>5. CASE Read
  BY <1>5, ReadKeepsVetSync, ReadKeepsVetSeen, ReadKeepsVetted
<1>. QED
  BY <1>1, <1>2, <1>3, <1>4, <1>5 DEF Next, Probe

(* USABLE is printed only of a lens that can be driven, when the travels     *)
(* that its calibrations measured agree.                                     *)
THEOREM UsableIsAlwaysEarned == Spec => []UsableIsEarned
<1>. DEFINE Inv == ProbeInv /\ VetSyncOK /\ VetSeenOK /\ VettedOK
<1>1. Init => Inv
  <2>. SUFFICES ASSUME Init PROVE Inv
    OBVIOUS
  <2>1. pc = First /\ mem.seen = << >> /\ measured = << >> /\ unserved = << >>
        /\ ~waiting /\ outcome # "USABLE"
    BY DEF Init, Open, Start, Idle
  <2>2. First \in VetPlaces => First = "vet.calibrate"
    BY DEF First, VetPlaces
  <2>3. VetSyncOK
    BY <2>1, <2>2 DEF VetSyncOK
  <2>4. Len(<< >>) < Vet
    BY ProbeAssumption
  <2>5. pc \in VetPlaces => Due
    BY <2>1, <2>2 DEF Due
  <2>6. VetSeenOK
    BY <2>1, <2>4, <2>5 DEF VetSeenOK
  <2>. QED
    BY <2>1, <2>3, <2>6, InitProbeInv DEF VettedOK, UsableIsEarned
<1>2. Inv /\ [Next]_vars => Inv'
  BY StepKeepsProbeInv, StepKeepsVet
<1>3. Inv => UsableIsEarned
  BY DEF VettedOK
<1>. QED
  BY <1>1, <1>2, <1>3, PTL DEF Spec

-----------------------------------------------------------------------------
(* Within the travel *)

\* A session that begins by identifying goes on to the retarget test or ends.
SessionOK ==
  First = "identify.version" =>
    pc \in IdentifyPlaces \union {"test.calibrate", "done"} \/ Driving

\* A move that has been written and not been served.
MoveDueOK ==
  \A i \in 1..Len(unserved) : unserved[i] \in {"m"} \X Nat =>
    /\ Driving \/ pc = "done"
    /\ Len(unserved) = 1 /\ cef.lens = "fitted" /\ measured # << >>
    /\ unserved[i][2] <= cef.travel

(* The places the retarget test remembers lie within the travel.             *)
BoundsOK ==
  Driving =>
    /\ mem.start <= cef.travel /\ mem.commanded <= cef.travel
    /\ pc # "test.range" => mem.high = cef.travel

(* The lens, the places remembered and the move under way are within the     *)
(* travel.                                                                   *)
TravelOK ==
  First = "identify.version" => Within(cef) /\ BoundsOK /\ MoveDueOK

(* A session that begins by identifying never leaves the test.               *)
LEMMA SessionFrom ==
  ASSUME Base, SessionOK, NEW reply, Turn(reply)
  PROVE  SessionOK' /\ First' = First
<1>1. First' = First
  <2>1. args' = args
    <3>1. CASE Raises(reply)
      BY <3>1 DEF Turn, End
    <3>2. CASE Settled(reply)
      BY <3>2 DEF Settled
    <3>3. CASE ScanTurn(reply)
      BY <3>3 DEF ScanTurn, Poll, Go
    <3>4. CASE ~Raises(reply) /\ ~Settled(reply) /\ ~ScanTurn(reply)
      BY <3>4 DEF Turn, Resume, Identify, Calibrate, SettlePoll, Cycle, VetTurn, Bench,
         Sent, Poll, Go, End
    <3>. QED
      BY <3>1, <3>2, <3>3, <3>4
  <2>. QED
    BY <2>1 DEF First, Does, Steps
<1>. SUFFICES ASSUME First = "identify.version", pc' # "done"
              PROVE  pc' \in IdentifyPlaces \union {"test.calibrate"} \/ Driving'
  BY <1>1 DEF SessionOK
<1>2. ~Raises(reply) /\ Resume(reply)
  BY DEF Turn, End
<1>3. pc \in IdentifyPlaces \union {"test.calibrate"} \/ Driving
  BY DEF SessionOK, Turn
<1>4. mem \in Mem(mem.raw)
  BY DEF Base, CoreOK
<1>5. CASE Identify(reply)
  BY <1>5 DEF Identify, Go, End, IdentifyPlaces
<1>6. CASE Calibrate(reply)
  <2>1. CASE pc = "test.calibrate"
    BY <1>6, <2>1 DEF Calibrate, Go, End, Driving, TestPlaces
  <2>2. CASE pc = "test.range"
    <3>1. pc' = "settle.moving" /\ mem'.after = "start"
      BY <1>4, <1>6, <2>2 DEF Calibrate, Go, End, Settle, Mem
    <3>. QED
      BY <3>1 DEF Driving, SettlePlaces
  <2>. QED
    BY <1>6, <2>1, <2>2 DEF Calibrate
<1>7. CASE SettlePoll(reply)
  <2>1. Driving /\ pc = "settle.moving"
    BY <1>3, <1>7 DEF SettlePoll, IdentifyPlaces
  <2>2. pc' \in SettlePlaces /\ mem'.after = mem.after
    BY <1>4, <1>7 DEF SettlePoll, Go, End, SettlePlaces, Mem
  <2>. QED
    BY <2>1, <2>2 DEF Driving, TestPlaces
<1>8. CASE Settled(reply)
  BY <1>8 DEF Settled, Driving, TestPlaces
<1>9. CASE Cycle(reply)
  <2>1. CASE pc \in {"cycle.move", "cycle.moving", "cycle.position"}
    BY <1>9, <2>1 DEF Cycle, Go, Driving, TestPlaces
  <2>2. CASE pc \in {"cycle.retarget", "test.return"}
    <3>1. pc' = "settle.moving" /\ mem'.after \in {"retarget", "return"}
      BY <1>4, <1>9, <2>2 DEF Cycle, Go, Settle, Mem
    <3>. QED
      BY <3>1 DEF Driving, SettlePlaces
  <2>. QED
    BY <1>9, <2>1, <2>2 DEF Cycle
<1>10. CASE VetTurn(reply)
  BY <1>3, <1>10 DEF VetTurn, Driving, TestPlaces, SettlePlaces, IdentifyPlaces
<1>11. CASE Bench(reply)
  BY <1>3, <1>11 DEF Bench, Driving, TestPlaces, SettlePlaces, IdentifyPlaces
<1>12. CASE ScanTurn(reply)
  BY <1>3, <1>12 DEF ScanTurn, Driving, TestPlaces, SettlePlaces, IdentifyPlaces
<1>13. CASE Sent
  BY <1>3, <1>13 DEF Sent, Driving, TestPlaces, SettlePlaces, IdentifyPlaces
<1>. QED
  BY <1>2, <1>5, <1>6, <1>7, <1>8, <1>9, <1>10, <1>11, <1>12, <1>13 DEF Resume

(* ... by any step.                                                          *)
LEMMA StepKeepsSession ==
  ASSUME ProbeInv, SessionOK, [Next]_vars
  PROVE  SessionOK' /\ First' = First
<1>1. CASE Read
  <2>1. PICK reply : Turn(reply)
    BY <1>1, ReadTurn DEF ProbeInv
  <2>. QED
    BY <2>1, SessionFrom DEF ProbeInv
<1>2. CASE GiveUp
  <2>1. First' = First
    BY <1>2, GiveUpFacts DEF First, Does, Steps
  <2>2. pc' = "done" \/ pc = "send"
    BY <1>2, GiveUpFacts
  <2>. QED
    BY <2>1, <2>2 DEF SessionOK, IdentifyPlaces, Driving, TestPlaces, SettlePlaces
<1>3. ASSUME UNCHANGED << pc, mem, args >>
      PROVE  SessionOK' /\ First' = First
  BY <1>3, ProgramFacts DEF SessionOK
<1>4. CASE Write
  BY <1>3, <1>4, WriteStill DEF ProbeInv
<1>5. CASE Served
  BY <1>3, <1>5, BaseIsTyped, ServedFacts DEF ProbeInv
<1>6. CASE UNCHANGED vars
  BY <1>3, <1>6, StillFacts
<1>. QED
  BY <1>1, <1>2, <1>4, <1>5, <1>6 DEF Next, Probe

(* What holds in the retarget test.                                          *)
TestInv == ProbeInv /\ DrivingOK /\ SlipsOK /\ SessionOK /\ TravelOK

\* A session that begins by identifying.
Testing == First = "identify.version"

(* What the test asks a lens to move to lies within its travel.              *)
LEMMA MovesWithin ==
  ASSUME TestInv, Testing, NEW c \in Asked, c \in {"m"} \X Nat
  PROVE  Driving /\ c[2] <= cef.travel
<1>1. pc \in IdentifyPlaces \union {"test.calibrate", "done"} \/ Driving
  BY DEF TestInv, SessionOK, Testing
<1>2. ASSUME pc \in IdentifyPlaces \union {"test.calibrate", "done"} PROVE FALSE
  BY <1>2, AskedFacts DEF IdentifyPlaces
<1>3. Driving
  BY <1>1, <1>2
<1>4. /\ mem.start <= cef.travel /\ mem.commanded <= cef.travel
      /\ pc # "test.range" => mem.high = cef.travel
  BY <1>3 DEF TestInv, TravelOK, Testing, BoundsOK
<1>5. /\ mem.start \in Nat /\ mem.commanded \in Nat /\ args.travel \in Int
      /\ cef.travel \in Nat /\ CycleTarget \in Int /\ mem.high \in Nat
  <2>1. TypeOK
    BY BaseIsTyped DEF TestInv, ProbeInv, Typed
  <2>2. cef.travel \in Nat
    BY <2>1, ControllerAssumption DEF TypeOK, Controller
  <2>. QED
    BY <2>1, <2>2, NumbersAreInts
<1>6. pc \in {"cycle.move", "cycle.retarget", "test.return"}
  <2>1. << "e" >> \notin {"m"} \X Nat /\ << "f" >> \notin {"m"} \X Nat
        /\ << "r" >> \notin {"m"} \X Nat
    OBVIOUS
  <2>. QED
    BY <1>3, <2>1, AskedFacts DEF Driving, TestPlaces, SettlePlaces
<1>7. CASE pc = "cycle.retarget"
  <2>1. c = MoveTo(mem.commanded)
    BY <1>7, AskedFacts
  <2>2. c[2] = mem.commanded
    BY <1>5, <2>1, MoveToCommands
  <2>. QED
    BY <1>3, <1>4, <2>2
<1>8. CASE pc = "test.return"
  <2>1. c = MoveTo(mem.start)
    BY <1>8, AskedFacts
  <2>2. c[2] = mem.start
    BY <1>5, <2>1, MoveToCommands
  <2>. QED
    BY <1>3, <1>4, <2>2
<1>9. CASE pc = "cycle.move"
  <2>1. c[2] = IF CycleTarget < 0 THEN 0 ELSE CycleTarget
    BY <1>9, AskedFacts DEF MoveTo
  <2>2. mem.high = cef.travel
    BY <1>4, <1>9
  <2>3. CycleTarget <= cef.travel
    BY <1>4, <1>5, <2>2 DEF CycleTarget
  <2>. QED
    BY <1>3, <1>5, <2>1, <2>3
<1>. QED
  BY <1>6, <1>7, <1>8, <1>9

(* A move asked for is the only question, and goes to a place within.        *)
LEMMA WriteKeepsTravel ==
  ASSUME TestInv, Write
  PROVE  TravelOK'
<1>1. /\ UNCHANGED << cef, pc, mem, measured >> /\ ~waiting /\ command' \in Asked
      /\ First' = First /\ Driving' = Driving /\ pc # "done"
      /\ Len(unserved') = Len(unserved) + 1
      /\ unserved'[Len(unserved) + 1] = command'
      /\ \A i \in 1..Len(unserved) : unserved'[i] = unserved[i]
      /\ Len(unserved) \in Nat
  BY WriteStill, BaseBounds DEF TestInv, ProbeInv
<1>. SUFFICES ASSUME Testing
              PROVE  MoveDueOK'
  BY <1>1 DEF TestInv, TravelOK, Testing, BoundsOK, Within
<1>2. Within(cef) /\ BoundsOK /\ MoveDueOK
  BY DEF TestInv, TravelOK, Testing
<1>3. Driving => Len(unserved) = 0
  <2>1. Driving => InFlight = 0
    BY <1>1, BaseBounds DEF TestInv, ProbeInv, SyncOK
  <2>. QED
    BY <2>1, BaseBounds DEF InFlight, TestInv, ProbeInv
<1>4. \A i \in 1..Len(unserved) : unserved[i] \notin {"m"} \X Nat
  BY <1>1, <1>2, <1>3 DEF MoveDueOK
<1>. SUFFICES ASSUME NEW i \in 1..Len(unserved'), unserved'[i] \in {"m"} \X Nat
              PROVE  /\ Driving /\ Len(unserved') = 1 /\ cef.lens = "fitted"
                     /\ measured # << >> /\ unserved'[i][2] <= cef.travel
  BY <1>1 DEF MoveDueOK
<1>5. i = Len(unserved) + 1
  <2>1. i \notin 1..Len(unserved)
    BY <1>1, <1>4
  <2>. QED
    BY <1>1, <2>1
<1>6. unserved'[i] = command'
  BY <1>1, <1>5
<1>7. Driving /\ unserved'[i][2] <= cef.travel
  BY <1>1, <1>6, MovesWithin
<1>8. cef.lens = "fitted" /\ measured # << >>
  BY <1>7 DEF TestInv, DrivingOK, Calibrated
<1>. QED
  BY <1>1, <1>3, <1>7, <1>8

(* The lens is asked to move only where it can, and once at a time.          *)
LEMMA ServedMoves ==
  ASSUME TestInv, Testing, Served
  PROVE  /\ \A i \in 1..Len(unserved') : unserved'[i] \notin {"m"} \X Nat
         /\ Within(cef')
         /\ cef'.target # cef.target =>
              /\ cef.lens = "fitted" /\ measured # << >>
              /\ cef'.target \in Nat /\ cef'.target <= cef.travel
<1>1. /\ Len(unserved) > 0 /\ Len(unserved) \in Nat
      /\ Len(unserved') = Len(unserved) - 1
      /\ \A i \in 1..Len(unserved') : unserved'[i] = unserved[i + 1]
      /\ unserved \in Seq(Commands)
  BY BaseIsTyped, ServedKeepsPort DEF TestInv, ProbeInv, Typed, PortOK
<1>2. Within(cef) /\ MoveDueOK
  BY DEF TestInv, TravelOK, Testing
<1>3. PICK asked : asked = Head(unserved)
  OBVIOUS
<1>4. PICK text : Answered(asked, text)
  BY <1>3, BaseIsTyped, ServedFacts DEF TestInv, ProbeInv
<1>5. \A i \in 1..Len(unserved') : unserved'[i] \notin {"m"} \X Nat
  <2>. SUFFICES ASSUME NEW i \in 1..Len(unserved'), unserved'[i] \in {"m"} \X Nat
                PROVE  FALSE
    OBVIOUS
  <2>1. i + 1 \in 1..Len(unserved) /\ Len(unserved) # 1
    BY <1>1
  <2>2. unserved[i + 1] \in {"m"} \X Nat
    BY <1>1
  <2>. QED
    BY <1>2, <2>1, <2>2 DEF MoveDueOK
<1>6. asked \in {"m"} \X Nat =>
        cef.lens = "fitted" /\ measured # << >> /\ asked[2] <= cef.travel
  <2>1. asked = unserved[1] /\ 1 \in 1..Len(unserved)
    BY <1>1, <1>3
  <2>. QED
    BY <1>2, <2>1 DEF MoveDueOK
<1>7. Within(cef')
  BY <1>2, <1>4, <1>6 DEF Answered
<1>8. cef'.target # cef.target =>
        asked \in {"m"} \X Nat /\ cef'.target \in Landings(asked[2], cef.travel)
  BY <1>4 DEF Answered
<1>9. cef'.target \in Nat /\ cef.travel \in Nat
  BY <1>4, BaseIsTyped, ControllerAssumption
     DEF Answered, Controller, TestInv, ProbeInv, Typed, TypeOK
<1>10. cef'.target # cef.target => cef'.target <= cef.travel
  <2>. SUFFICES ASSUME cef'.target # cef.target PROVE cef'.target <= cef.travel
    OBVIOUS
  <2>1. asked[2] \in Nat /\ asked[2] <= cef.travel
    BY <1>6, <1>8
  <2>. QED
    BY <1>8, <1>9, <2>1, LandingFacts
<1>. QED
  BY <1>5, <1>6, <1>7, <1>8, <1>9, <1>10

(* Serving leaves the lens within its travel, and the travel what it was.    *)
LEMMA ServedKeepsTravel ==
  ASSUME TestInv, Served
  PROVE  TravelOK'
<1>1. UNCHANGED << pc, mem, args >>
  BY BaseIsTyped, ServedFacts DEF TestInv, ProbeInv
<1>2. First' = First /\ Driving' = Driving
  BY <1>1, ProgramFacts
<1>. SUFFICES ASSUME Testing
              PROVE  Within(cef') /\ BoundsOK' /\ MoveDueOK'
  BY <1>2 DEF TravelOK, Testing, Within
<1>3. Within(cef') /\ MoveDueOK'
  BY ServedMoves DEF MoveDueOK
<1>4. ASSUME Driving
      PROVE  cef'.travel = cef.travel
  <2>1. Backlog = 0
    BY <1>4 DEF TestInv, ProbeInv, SyncOK
  <2>2. command \in Asked /\ Answered(command, line'[1].text)
    BY <2>1, ServedAlone DEF TestInv, ProbeInv
  <2>3. command # << "c" >>
    BY <1>4, <2>2, DrivingAsks
  <2>. QED
    BY <2>2, <2>3 DEF Answered
<1>5. BoundsOK
  BY DEF TestInv, TravelOK, Testing
<1>6. BoundsOK'
  BY <1>1, <1>2, <1>4, <1>5 DEF BoundsOK
<1>. QED
  BY <1>3, <1>6

(* What the test remembers of where the lens is and how far it goes.         *)
LEMMA NotesFrom ==
  ASSUME Base, NEW reply, Turn(reply), Driving, Driving'
  PROVE  /\ ~Raises(reply) /\ pc' # "test.range"
         /\ \/ mem'.start = mem.start
            \/ pc = "settle.position" /\ mem'.start = Position(reply)
         /\ \/ mem'.commanded \in {mem.commanded, 0}
            \/ pc = "cycle.position" /\ mem'.commanded = Position(reply)
         /\ pc # "test.range" => mem'.high = mem.high
         /\ pc = "test.range" => mem'.high = reply[1][2]
<1>0. mem \in Mem(mem.raw)
  BY DEF Base, CoreOK
<1>1. ~Raises(reply) /\ Resume(reply)
  BY DEF Turn, End, Driving, TestPlaces, SettlePlaces
<1>2. pc \in TestPlaces \union SettlePlaces /\ pc' # "done"
  BY DEF Driving, TestPlaces, SettlePlaces
<1>3. CASE Settled(reply)
  <2>1. pc = "settle.position" /\ pc' \in {"cycle.move", "test.return"}
    BY <1>2, <1>3 DEF Settled
  <2>2. \/ mem'.start = mem.start
        \/ mem'.start = Position(reply)
    BY <1>0, <1>2, <1>3 DEF Settled, Mem
  <2>3. mem'.commanded \in {mem.commanded, 0} /\ mem'.high = mem.high
    BY <1>0, <1>2, <1>3 DEF Settled, Mem
  <2>. QED
    BY <1>1, <2>1, <2>2, <2>3
<1>4. CASE Cycle(reply)
  <2>1. /\ mem'.start = mem.start /\ mem'.high = mem.high
        /\ pc \in {"cycle.move", "cycle.moving", "cycle.position", "cycle.retarget",
                   "test.return"}
        /\ pc' \in {"cycle.moving", "cycle.position", "cycle.retarget", "settle.moving"}
    BY <1>0, <1>4 DEF Cycle, Go, Settle, Mem
  <2>2. \/ mem'.commanded = mem.commanded
        \/ pc = "cycle.position" /\ mem'.commanded = Position(reply)
    BY <1>0, <1>4 DEF Cycle, Go, Settle, Mem
  <2>. QED
    BY <1>1, <2>1, <2>2
<1>5. CASE Calibrate(reply)
  <2>1. pc = "test.range"
    BY <1>2, <1>5 DEF Calibrate, TestPlaces, SettlePlaces
  <2>2. /\ mem'.start = mem.start /\ mem'.commanded = mem.commanded
        /\ mem'.high = reply[1][2] /\ pc' = "settle.moving"
    BY <1>0, <1>2, <1>5, <2>1 DEF Calibrate, Go, End, Settle, Mem
  <2>. QED
    BY <1>1, <2>1, <2>2
<1>6. CASE SettlePoll(reply)
  <2>1. /\ mem'.start = mem.start /\ mem'.commanded = mem.commanded
        /\ mem'.high = mem.high /\ pc = "settle.moving" /\ pc' \in SettlePlaces
    BY <1>0, <1>2, <1>6 DEF SettlePoll, Go, End, SettlePlaces, Mem
  <2>. QED
    BY <1>1, <2>1 DEF SettlePlaces
<1>7. CASE ~Settled(reply) /\ ~Cycle(reply) /\ ~Calibrate(reply) /\ ~SettlePoll(reply)
  BY <1>1, <1>2, <1>7 DEF Resume, Identify, VetTurn, Bench, ScanTurn, Sent,
     TestPlaces, SettlePlaces
<1>. QED
  BY <1>3, <1>4, <1>5, <1>6, <1>7

(* Reading remembers only places within the travel.                          *)
LEMMA ReadKeepsTravel ==
  ASSUME TestInv, Read
  PROVE  TravelOK'
<1>1. PICK reply : Turn(reply)
  BY ReadTurn DEF TestInv, ProbeInv
<1>2. First' = First /\ SessionOK'
  BY <1>1, SessionFrom DEF TestInv, ProbeInv
<1>. SUFFICES ASSUME Testing
              PROVE  Within(cef') /\ BoundsOK' /\ MoveDueOK'
  BY <1>2 DEF TravelOK, Testing, Within
<1>3. cef' = cef /\ measured' = measured
  BY <1>1 DEF Turn
<1>4. Within(cef) /\ BoundsOK /\ MoveDueOK
  BY DEF TestInv, TravelOK, Testing
<1>5. pc # "send" /\ pc # "done"
  BY <1>1 DEF Turn, TestInv, SessionOK, Testing, IdentifyPlaces, Driving, TestPlaces,
     SettlePlaces
<1>6. Backlog \in {0, 1}
  BY <1>5 DEF TestInv, ProbeInv, Base, QueueOK
<1>7. MoveDueOK'
  <2>1. unserved' = << >> \/ unserved' = unserved
    BY <1>1, <1>6 DEF Turn, Alone, Behind, Resynced
  <2>2. CASE Driving
    <3>1. unserved' = << >>
      BY <1>1, <2>2 DEF TestInv, ProbeInv, SyncOK, Turn, Alone
    <3>. QED
      BY <3>1 DEF MoveDueOK
  <2>3. CASE ~Driving
    <3>1. \A i \in 1..Len(unserved) : unserved[i] \notin {"m"} \X Nat
      BY <1>4, <1>5, <2>3 DEF MoveDueOK
    <3>2. \A i \in 1..Len(unserved') : unserved'[i] \notin {"m"} \X Nat
      BY <2>1, <3>1
    <3>. QED
      BY <3>2 DEF MoveDueOK
  <2>. QED
    BY <2>2, <2>3
<1>8. cef.travel \in Nat /\ mem.start \in Nat
  BY ControllerAssumption DEF TestInv, ProbeInv, Base, CoreOK, Controller, Mem
<1>9. BoundsOK'
  <2>. SUFFICES ASSUME Driving'
                PROVE  /\ mem'.start <= cef.travel /\ mem'.commanded <= cef.travel
                       /\ pc' # "test.range" => mem'.high = cef.travel
    BY <1>3 DEF BoundsOK
  <2>1. CASE ~Driving
    <3>1. pc = "test.calibrate" /\ pc' = "test.range" /\ mem' = mem
      BY <1>1, <2>1, DrivingFrom DEF TestInv, ProbeInv
    <3>2. mem = Idle
      BY <3>1 DEF TestInv, ProbeInv, SyncOK
    <3>3. mem'.start = 0 /\ mem'.commanded = 0
      BY <3>1, <3>2 DEF Idle
    <3>. QED
      BY <1>8, <3>1, <3>3
  <2>2. CASE Driving
    <3>1. Alone(reply)
      BY <1>1, <2>2 DEF TestInv, ProbeInv, SyncOK, Turn
    <3>2. /\ mem.start <= cef.travel /\ mem.commanded <= cef.travel
          /\ pc # "test.range" => mem.high = cef.travel
      BY <1>4, <2>2 DEF BoundsOK
    <3>3. pc \in {"settle.position", "cycle.position"} => Position(reply) <= cef.travel
      <4>1. pc \in {"settle.position", "cycle.position"} => Asked = {<< "f" >>}
        BY AskedFacts
      <4>2. Whole(cef.position) <= cef.travel
        BY <1>4 DEF Within
      <4>. QED
        BY <1>1, <3>1, <4>1, <4>2, AlonePosition
    <3>4. pc = "test.range" => reply[1][2] = cef.travel
      <4>. SUFFICES ASSUME pc = "test.range" PROVE reply[1][2] = cef.travel
        OBVIOUS
      <4>1. command = << "r" >>
        BY <1>1, AskedFacts DEF Turn
      <4>2. reply = << line[1].text >> /\ line[1].text = TravelRange(cef)
        BY <3>1, <4>1 DEF Alone, Speaks
      <4>3. Calibrated /\ cef.lens = "fitted"
        BY <2>2 DEF TestInv, DrivingOK
      <4>4. line[1].text[2] = cef.travel
        BY <4>2, <4>3, RangeSeen DEF TestInv
      <4>. QED
        BY <4>2, <4>4
    <3>5. /\ \/ mem'.start = mem.start
             \/ pc = "settle.position" /\ mem'.start = Position(reply)
          /\ \/ mem'.commanded \in {mem.commanded, 0}
             \/ pc = "cycle.position" /\ mem'.commanded = Position(reply)
          /\ pc # "test.range" => mem'.high = mem.high
          /\ pc = "test.range" => mem'.high = reply[1][2]
      BY <1>1, <2>2, NotesFrom DEF TestInv, ProbeInv
    <3>6. mem'.start <= cef.travel
      BY <3>2, <3>3, <3>5
    <3>7. mem'.commanded <= cef.travel
      BY <1>8, <3>2, <3>3, <3>5
    <3>8. mem'.high = cef.travel
      BY <3>2, <3>4, <3>5
    <3>. QED
      BY <3>6, <3>7, <3>8
  <2>. QED
    BY <2>1, <2>2
<1>. QED
  BY <1>3, <1>4, <1>7, <1>9

(* Every step keeps what holds in the retarget test.                         *)
LEMMA StepKeepsTestInv ==
  ASSUME TestInv, [Next]_vars
  PROVE  TestInv'
<1>1. ProbeInv' /\ DrivingOK' /\ SlipsOK'
  BY StepKeepsProbeInv, StepKeepsSlips DEF TestInv
<1>2. SessionOK' /\ First' = First
  BY StepKeepsSession DEF TestInv
<1>3. TravelOK'
  <2>1. CASE GiveUp
    <3>1. /\ ~Driving' /\ UNCHANGED << cef, unserved, measured >>
          /\ (pc' = "done" \/ pc = "send")
      BY <2>1, GiveUpFacts
    <3>. SUFFICES ASSUME Testing PROVE MoveDueOK'
      BY <1>2, <3>1 DEF TestInv, TravelOK, Testing, BoundsOK, Within
    <3>2. pc # "send"
      BY DEF TestInv, SessionOK, Testing, IdentifyPlaces, Driving, TestPlaces,
         SettlePlaces
    <3>3. MoveDueOK
      BY DEF TestInv, TravelOK, Testing
    <3>. QED
      BY <3>1, <3>2, <3>3 DEF MoveDueOK
  <2>2. CASE UNCHANGED vars
    BY <1>2, <2>2, StillFacts DEF TestInv, TravelOK, BoundsOK, MoveDueOK, Within
  <2>. QED
    BY <2>1, <2>2, ReadKeepsTravel, WriteKeepsTravel, ServedKeepsTravel DEF Next, Probe
<1>. QED
  BY <1>1, <1>2, <1>3 DEF TestInv

(* If every lens is found within its travel, a session that only identifies  *)
(* and tests moves none that it has not seen calibrated, and none beyond the *)
(* travel the calibration found. An earlier session can leave a lens beyond  *)
(* it: m takes any number, and the way back is to where the lens was found.  *)
THEOREM TestAlwaysMovesOnlyWhatItCan ==
  ASSUME \A c \in Found : Within(c)
  PROVE  Spec => TestMovesOnlyWhatItCan
<1>1. Init => TestInv
  <2>. SUFFICES ASSUME Init PROVE TestInv
    OBVIOUS
  <2>1. First \notin TestPlaces \union SettlePlaces
    BY DEF First, TestPlaces, SettlePlaces
  <2>2. /\ pc = First /\ slips = 0 /\ outcome # "VIABLE" /\ unserved = << >>
        /\ cef \in Found
    BY DEF Init, Start, Open
  <2>3. ~Driving
    BY <2>1, <2>2 DEF Driving
  <2>4. SlipsOK /\ DrivingOK
    BY <2>2, <2>3 DEF DrivingOK, SlipsOK, ViableIsEarned
  <2>5. SessionOK
    BY <2>2 DEF SessionOK, IdentifyPlaces
  <2>6. TravelOK
    BY <2>2, <2>3 DEF TravelOK, BoundsOK, MoveDueOK
  <2>. QED
    BY <2>4, <2>5, <2>6, InitProbeInv DEF TestInv
<1>2. TestInv /\ [Next]_vars => TestInv'
  BY StepKeepsTestInv
<1>3. ASSUME TestInv, [Next]_vars, Testing, cef'.target # cef.target
      PROVE  /\ cef.lens = "fitted" /\ measured # << >>
             /\ cef'.target \in 0..cef.travel
  <2>1. CASE Served
    <3>1. cef.travel \in Nat
      <4>1. cef \in Controller
        BY <1>3 DEF TestInv, ProbeInv, Base, CoreOK
      <4>. QED
        BY <4>1, ControllerAssumption DEF Controller
    <3>2. /\ cef.lens = "fitted" /\ measured # << >>
          /\ cef'.target \in Nat /\ cef'.target <= cef.travel
      BY <1>3, <2>1, ServedMoves
    <3>. QED
      BY <3>1, <3>2
  <2>2. CASE Read
    <3>1. cef' = cef
      BY <2>2, <1>3, ReadTurn DEF Turn, TestInv, ProbeInv
    <3>. QED
      BY <1>3, <3>1
  <2>3. CASE Write
    BY <1>3, <2>3, WriteStill DEF TestInv, ProbeInv
  <2>4. CASE GiveUp
    BY <1>3, <2>4, GiveUpFacts
  <2>5. CASE UNCHANGED vars
    BY <1>3, <2>5, StillFacts
  <2>. QED
    BY <1>3, <2>1, <2>2, <2>3, <2>4, <2>5 DEF Next, Probe
<1>4. TestInv /\ [Next]_vars =>
        [First = "identify.version" /\ cef'.target # cef.target =>
           /\ cef.lens = "fitted" /\ measured # << >>
           /\ cef'.target \in 0..cef.travel]_vars
  BY <1>3 DEF Testing
<1>. QED
  BY <1>1, <1>2, <1>4, PTL DEF Spec, TestMovesOnlyWhatItCan
=============================================================================
