-------------------------------- MODULE AppMain --------------------------------
(***************************************************************************)
(* The firmware's main task from reset: static initialisation in main.cpp  *)
(* constructs the persona, which copies the serial array; app_main then    *)
(* runs LoadSerial, starts USB and turns its loop for good, while the USB  *)
(* task answers about register 0x0C.                                       *)
(* A configured character is its hexadecimal value, or Bad; the string     *)
(* ends where the sequence does, and C++ may still read the terminator.    *)
(***************************************************************************)
EXTENDS MainLoop, Sequences

CONSTANTS
  SerialBytes,   \* bytes a serial has (8)
  BodySize,      \* eaf::kBodySize (12)
  Configured     \* values CONFIG_EAF_SERIAL_HEX may be built with

Bad == -1        \* a character that is not a hexadecimal digit
Nothing == << >>

ASSUME SizesAssumption ==
  SerialBytes \in Nat /\ BodySize \in Nat /\ SerialBytes <= BodySize
ASSUME ConfiguredAssumption == Configured \subseteq Seq({Bad} \union 0..15)

VARIABLES
  hex,       \* CONFIG_EAF_SERIAL_HEX
  pc,        \* "static", "load", "install" or "running"
  serial,    \* the array main.cpp fills
  copied,    \* serial_ of the persona
  i,         \* the loop variable of LoadSerial
  readTo,    \* highest position of hex read, the terminator included
  answer     \* body of the last reply about register 0x0C

boot == << hex, pc, serial, copied, i, readTo, answer >>
vars == << boot, clock >>

Zeroed == [k \in 1..BodySize |-> 0]

Init ==
  /\ hex \in Configured
  /\ pc = "static"
  /\ serial = Zeroed
  /\ copied = Nothing
  /\ i = 0 /\ readTo = 0
  /\ answer = Nothing
  /\ InitClock

\* EafPersona::EafPersona, run for the global persona before app_main.
ConstructPersona ==
  /\ pc = "static"
  /\ copied' = serial
  /\ pc' = "load"
  /\ UNCHANGED << hex, serial, i, readTo, answer, clock >>

\* The loop condition: i < 8 && hex[2 * i] && hex[2 * i + 1], left to right.
PairPresent == i < SerialBytes /\ 2 * i + 2 <= Len(hex)
\* Mutant: both characters read before either is tested.
ConditionReadsBoth == IF i >= SerialBytes THEN readTo ELSE 2 * i + 2

ConditionReads ==
  IF i >= SerialBytes THEN readTo
  ELSE IF 2 * i + 1 > Len(hex) THEN 2 * i + 1
  ELSE 2 * i + 2

\* Mutant: the nibbles in the wrong order.
LoadPairSwapped ==
  /\ pc = "load" /\ PairPresent
  /\ hex[2 * i + 1] # Bad /\ hex[2 * i + 2] # Bad
  /\ serial' = [serial EXCEPT ![i + 1] = 16 * hex[2 * i + 2] + hex[2 * i + 1]]
  /\ i' = i + 1
  /\ readTo' = ConditionReads
  /\ UNCHANGED << hex, pc, copied, answer, clock >>

\* One turn of the loop: a pair of digits becomes a byte.
LoadPair ==
  /\ pc = "load" /\ PairPresent
  /\ hex[2 * i + 1] # Bad /\ hex[2 * i + 2] # Bad
  /\ serial' = [serial EXCEPT ![i + 1] = 16 * hex[2 * i + 1] + hex[2 * i + 2]]
  /\ i' = i + 1
  /\ readTo' = ConditionReads
  /\ UNCHANGED << hex, pc, copied, answer, clock >>

\* LoadSerial returns at the end of the string or at the first bad digit, and
\* app_main installs the USB driver.
LoadEnds ==
  /\ pc = "load"
  /\ PairPresent => hex[2 * i + 1] = Bad \/ hex[2 * i + 2] = Bad
  /\ pc' = "install"
  /\ readTo' = ConditionReads
  /\ UNCHANGED << hex, serial, copied, i, answer, clock >>

Install ==
  /\ pc = "install"
  /\ pc' = "running"
  /\ UNCHANGED << hex, serial, copied, i, readTo, answer, clock >>

\* CurrentReply for register 0x0C.
AnswerSerial ==
  /\ pc = "running"
  /\ answer' = copied
  /\ UNCHANGED << hex, pc, serial, copied, i, readTo, clock >>

\* A turn of app_main's loop.
Turn == pc = "running" /\ Loop /\ UNCHANGED boot

Main == ConstructPersona \/ LoadPair \/ LoadEnds \/ Install \/ Turn

Next == Main \/ AnswerSerial

\* FreeRTOS keeps app_main running; nothing is assumed of the host.
Spec == Init /\ [][Next]_vars /\ WF_vars(Main)

-----------------------------------------------------------------------------
(* Properties *)

\* What the configuration says: the digits as bytes, zero padded to a body.
PairIsGood(k) ==
  2 * k <= Len(hex) /\ hex[2 * k - 1] # Bad /\ hex[2 * k] # Bad
WellFormed ==
  Len(hex) = 2 * SerialBytes /\ \A k \in 1..SerialBytes : PairIsGood(k)
Body ==
  [k \in 1..BodySize |->
     IF k <= SerialBytes /\ \A j \in 1..k : PairIsGood(j)
       THEN 16 * hex[2 * k - 1] + hex[2 * k] ELSE 0]

(* LoadSerial reads no character past the string's terminator, whatever the  *)
(* string's length and wherever its digits end.                              *)
ReadsStayInString == readTo <= Len(hex) + 1

(* When USB starts, the array holds the whole of a well-formed string, and    *)
(* whatever the string, no byte is other than zero or the pair in its place. *)
SerialIsFromString ==
  /\ pc \in {"install", "running"} /\ WellFormed => serial = Body
  /\ \A k \in 1..BodySize : serial[k] \in {0, Body[k]}

(* "Register 0x0C, from CONFIG_EAF_SERIAL_HEX": the body answered is the     *)
(* configured serial.                                                        *)
AnswersConfiguredSerial == WellFormed /\ answer # Nothing => answer = Body
=============================================================================
