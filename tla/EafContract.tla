------------------------------ MODULE EafContract ------------------------------
(***************************************************************************)
(* What the host is promised by an EAF persona and the focuser behind it,  *)
(* whichever vehicle carries them: the Focuser interface (focuser.py,      *)
(* focuser.h) seen through the register file.  The focuser is somewhere,   *)
(* it travels toward one goal and never past it, and it stays where a      *)
(* command or its own arrival left it.                                     *)
(***************************************************************************)
EXTENDS EafCodec

CONSTANTS
  Start,      \* where the focuser is at power-up, in steps
  MaxStep     \* every position up to here must be accepted

VARIABLES
  at,        \* the step the focuser is on
  goal,      \* the step it is travelling to, or resting on
  named,     \* the register the host last named
  stored,    \* body byte 9, which belongs to the host
  command,   \* the last command the device received
  answer     \* the last report the host read

vars == << at, goal, named, stored, command, answer >>

NoAnswer == [register |-> RegState, body |-> [kind |-> "none"]]

Toward(from, to) == IF from <= to THEN from..to ELSE to..from

FixedBody(register) ==
  [kind |-> IF register = RegIdentity THEN "identity"
            ELSE IF register = RegSerial THEN "serial"
            ELSE "zero"]

Init ==
  /\ at = Start
  /\ goal = Start
  /\ named = RegState
  /\ stored = SETTINGS_BASE
  /\ command = Malformed
  /\ answer = NoAnswer

Travel ==
  /\ at' \in Toward(at, goal)
  /\ UNCHANGED << goal, named, stored, command, answer >>

Ignore ==
  /\ command'.kind = "malformed"
  /\ UNCHANGED << at, goal, named, stored, answer >>

NameRegister ==
  /\ command'.kind = "read"
  /\ named' = command'.register
  /\ UNCHANGED << at, goal, stored, answer >>

Write ==
  /\ command'.kind = "write"
  /\ named' = RegState
  /\ stored' = IF command'.settings = Absent THEN stored ELSE command'.settings
  /\ UNCHANGED answer

MoveTo ==
  /\ Write
  /\ command'.go
  /\ goal' = command'.position
  /\ UNCHANGED at

SetPosition ==
  /\ Write
  /\ ~command'.go /\ command'.sync
  /\ at' = command'.position
  /\ goal' = command'.position

Halt ==
  /\ Write
  /\ ~command'.go /\ ~command'.sync
  /\ goal' = at
  /\ UNCHANGED at

\* A vehicle may refuse what it cannot express, and then changes nothing.
Refuse ==
  /\ Write
  /\ command'.go \/ command'.sync
  /\ command'.position > MaxStep
  /\ UNCHANGED << at, goal >>

\* The answer reports a position the focuser is at; it says that the focuser
\* rests only when that position is the goal, and that it moves only when the
\* focuser was still on its way as the answer was begun.
Answer ==
  /\ at' \in Toward(at, goal)
  /\ answer'.register = named
  /\ IF named = RegState
       THEN /\ answer'.body.kind = "state"
            /\ answer'.body.position = at'
            /\ answer'.body.settings = stored
            /\ ~answer'.body.moving => at' = goal
            /\ answer'.body.moving => at # goal
       ELSE answer'.body = FixedBody(named)
  /\ UNCHANGED << goal, named, stored, command >>

Next ==
  \/ Travel \/ Ignore \/ NameRegister
  \/ MoveTo \/ SetPosition \/ Halt \/ Refuse
  \/ Answer

Spec == Init /\ [][Next]_vars
=============================================================================
