------------------------------ MODULE PinefeatPort ------------------------------
(***************************************************************************)
(* The line between the probe and the controller: Port.ask and _read_line  *)
(* on one side, the controller's serving loop on the other.  The protocol  *)
(* carries no identifiers: an answer belongs to a question only because it *)
(* comes next.  ask() writes a command and takes whatever has arrived as   *)
(* soon as there is a newline in it; after a timeout it gives up, and the  *)
(* answer arrives all the same.  A line is one short write and is not cut. *)
(***************************************************************************)
EXTENDS CefController, Sequences

CONSTANTS
  MaxAdvance,  \* parts of a step the lens may travel between two answers
  Late         \* answers the controller may still owe to an earlier session

ASSUME PortAssumption == MaxAdvance \in Nat /\ Late \subseteq Answers

VARIABLES
  cef,       \* the controller
  command,   \* the command asked last
  unserved,  \* commands written that the controller has not read
  line,      \* answers the probe has not read, and what they answer
  waiting,   \* the probe is inside ask()
  timely     \* history: every answer so far came before ask() gave up on it

port == << cef, command, unserved, line, waiting, timely >>

Texts(answers) == [k \in DOMAIN answers |-> answers[k].text]

\* Port.__init__ flushes what has arrived, not what is still to come.
Open ==
  /\ cef \in Found
  /\ command = << >> /\ unserved = << >> /\ waiting = FALSE
  /\ line \in {<< >>} \union {<< [of |-> << >>, text |-> text] >> : text \in Late}
  /\ timely = (line = << >>)

\* Mutant: asked without waiting for the answer before.
AskPipelined(c) ==
  /\ waiting' = TRUE
  /\ command' = c
  /\ unserved' = Append(unserved, c)
  /\ UNCHANGED << cef, line, timely >>

\* The first half of ask().
Ask(c) ==
  /\ ~waiting
  /\ waiting' = TRUE
  /\ command' = c
  /\ unserved' = Append(unserved, c)
  /\ UNCHANGED << cef, line, timely >>

\* One turn of serve(): the lens has travelled d parts since the last one.
Serve(d) ==
  /\ unserved # << >>
  /\ LET c == Advanced(cef, d)
         asked == Head(unserved)
     IN  /\ line' = Append(line, [of |-> asked, text |-> Answer(c, asked)])
         /\ cef' \in After(c, asked)
  /\ unserved' = Tail(unserved)
  /\ UNCHANGED << command, waiting, timely >>

\* _read_line finds k lines; ask() returns them as one reply.
Receive(k) ==
  /\ waiting
  /\ k \in 1..Len(line)
  /\ waiting' = FALSE
  /\ line' = SubSeq(line, k + 1, Len(line))
  /\ UNCHANGED << cef, command, unserved, timely >>

Reply(k) == Texts(SubSeq(line, 1, k))

\* _read_line raises TimeoutError.
TimeOut ==
  /\ waiting
  /\ waiting' = FALSE
  /\ timely' = FALSE
  /\ UNCHANGED << cef, command, unserved, line >>

-----------------------------------------------------------------------------
\* Commands and answers under way, the oldest first.
UnderWay == [k \in DOMAIN line |-> line[k].of] \o unserved

(* An answer belongs to the question: as long as none came too late, nothing *)
(* is under way but what is being asked, so ask() returns one line and it is *)
(* the answer to its command.  Nothing in the protocol says so; it rests on  *)
(* every ask() taking its answer before the next one is written.             *)
AnswersBelong == timely => UnderWay = IF waiting THEN << command >> ELSE << >>
=============================================================================
