----------------------------- MODULE CefController -----------------------------
(***************************************************************************)
(* The Pinefeat lens controller as tools/fake_cef.py plays it, with what   *)
(* the probe allows for in a real one besides: a lens switched to manual   *)
(* focus, one that jams, a travel that comes out differently from one      *)
(* calibration to the next, and a move that comes to rest beside where it  *)
(* was sent.  Commands and answers are tuples of a tag and a number; a     *)
(* controller is a record, and answering one command is a function of it.  *)
(***************************************************************************)
EXTENDS Integers

CONSTANTS
  Sub,       \* parts of a step the position is held in
  Lengths,   \* the travels a calibration may find
  Misses,    \* by how many steps a move may come to rest off its mark
  NoLens,    \* the travel reported without lens data (65535)
  Found      \* controllers the probe may find when it starts

ASSUME ControllerAssumption ==
  /\ Sub \in Nat \ {0} /\ Lengths \subseteq Nat \ {0}
  /\ NoLens \in Nat \ (Lengths \union {0}) /\ Misses \subseteq Int

\* "fitted"; "absent" as with --no-lens; or "manual": as if fitted until a
\* calibration fails, and refused from then on.
Lenses == {"fitted", "absent", "manual"}

OK == << "ok" >>
ER == << "er" >>
NC == << "nc" >>

\* What can be written to it, << "x" >> standing for everything it does not know ...
Commands ==
  {<< tag >> : tag \in {"v", "r", "f", "e", "c", "a", "x"}}
    \union ({"a"} \X {"inside", "outside"}) \union ({"m"} \X Nat)

\* ... and what it can answer.
Answers ==
  {OK, ER, NC} \union {<< tag >> : tag \in {"version", "apertures", "y", "n"}}
    \union ({"range", "position"} \X Nat)

\* The target is where the lens comes to rest.
Controller ==
  [lens : Lenses, retargets : BOOLEAN, jams : BOOLEAN, failed : BOOLEAN,
   position : Nat, target : Nat, travel : Lengths]

ASSUME FoundAssumption == Found \subseteq Controller

\* int(self.position): what f answers.
Whole(position) == position \div Sub

Moving(c) == Whole(c.position) # c.target

\* advance(), after a time in which the lens can travel d parts of a step.
Advanced(c, d) ==
  LET goal == c.target * Sub
      step == IF c.jams THEN 0 ELSE d
  IN  [c EXCEPT !.position =
         IF @ < goal THEN IF @ + step < goal THEN @ + step ELSE goal
         ELSE IF @ - step > goal THEN @ - step ELSE goal]

\* What r says.
TravelRange(c) ==
  << "range", IF c.failed THEN 0 ELSE IF c.lens = "absent" THEN NoLens ELSE c.travel >>

\* "The dealbreaker case", and a lens whose calibration has failed.
Refuses(c) == c.failed \/ (Moving(c) /\ ~c.retargets)

\* What a calibration may find: the lens is, and was going, somewhere within.
Findings(c) ==
  {c.travel} \union {l \in Lengths : l >= Whole(c.position) /\ l >= c.target}

\* Where a move to n may come to rest: there, or beside it within the travel.
Landings(n, travel) ==
  {n} \union {l \in 0..travel : l - n \in Misses}

\* reply(): the answer to a command ...
Answer(c, command) ==
  CASE command = << "c" >> -> IF c.lens = "fitted" THEN OK ELSE ER
    [] command = << "v" >> -> << "version" >>
    [] command = << "a" >> -> << "apertures" >>
    [] command = << "a", "inside" >> -> OK
    [] command = << "r" >> -> TravelRange(c)
    [] command = << "f" >> -> << "position", Whole(c.position) >>
    [] command = << "e" >> -> << IF Moving(c) THEN "y" ELSE "n" >>
    [] command[1] = "m" -> IF Refuses(c) THEN ER ELSE OK
    [] OTHER -> ER

\* ... and what it may make of the controller.
After(c, command) ==
  CASE command[1] = "m" /\ ~Refuses(c) ->
         {[c EXCEPT !.target = l] : l \in Landings(command[2], c.travel)}
    [] command = << "c" >> /\ c.lens = "fitted" ->
         {[c EXCEPT !.travel = found, !.failed = FALSE] : found \in Findings(c)}
    [] command = << "c" >> /\ c.lens = "manual" -> {[c EXCEPT !.failed = TRUE]}
    [] OTHER -> {c}
=============================================================================
