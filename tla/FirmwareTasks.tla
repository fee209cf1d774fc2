----------------------------- MODULE FirmwareTasks -----------------------------
(***************************************************************************)
(* The firmware vehicle while it runs: main.cpp, EafPersona and the C++    *)
(* SimulatedFocuser.  TinyUSB's task runs the SET_REPORT and GET_REPORT    *)
(* callbacks; app_main's loop integrates movement by calling advance().    *)
(* Both touch position_ and target_, and nothing synchronises them.  One   *)
(* action is at most one access to shared memory: target_ is one 32-bit    *)
(* word, position_ is 64 bits wide and the ESP32-S3 loads and stores it as *)
(* two words, in either order.                                             *)
(***************************************************************************)
EXTENDS EafCodec

CONSTANTS
  Start,        \* CONFIG_EAF_START_POSITION
  Milli,        \* parts of a step position_ is held in (1000)
  Word,         \* values of one memory word (2^32)
  Rate,         \* rate_: parts of a step travelled per millisecond
  MaxElapsed,   \* bound: milliseconds between two advances
  MaxStep,      \* maxStep()
  Reports,      \* the SET_REPORT payloads the host may send
  Scheduling    \* how calls of the two tasks may overlap, see below

\* "harness":   one thread, as firmware/test/host runs these classes
\* "one_core":  the USB task preempts app_main, never the other way round
\* "two_cores": both tasks run at once
ASSUME SchedulingAssumption ==
  Scheduling \in {"harness", "one_core", "two_cores"}
ASSUME MemoryAssumption ==
  /\ Start \in Nat /\ Milli \in Nat \ {0} /\ Word \in Nat \ {0}
  /\ Rate \in Nat \ {0} /\ MaxElapsed \in Nat \ {0}
  /\ MaxStep \in Nat /\ 2 * MaxStep < WordSize    \* an int32_t
ASSUME ReportsAssumption ==
  \A data \in Reports : data \in Seq(Bytes) /\ data # << >>

VARIABLES
  mem,        \* shared: the words of position_ ("hi", "lo") and target_
  appPc,      \* app_main: "idle", "load" or "store"
  appTodo,    \* the words advance() has still to load or to store
  appRegs,    \* what it has loaded
  appNew,     \* the position it is storing
  appElapsed, \* the elapsed_ms it was called with
  usbPc,      \* the call the USB task is in, "idle" between callbacks
  usbTodo,    \* the words that call has still to load or to store
  usbRegs,    \* what it has loaded
  usbCalls,   \* the calls CurrentReply has still to make
  usbFlag,    \* what isMoving() returned
  usbPlace,   \* what position() returned
  pending,    \* pending_
  settings,   \* settings_
  command,    \* the last command ParseCommand returned
  reply       \* the last report the host read

appVars == << appPc, appTodo, appRegs, appNew, appElapsed >>
usbVars == << usbPc, usbTodo, usbRegs, usbCalls, usbFlag, usbPlace >>
personaVars == << pending, settings, command, reply >>
vars == << mem, appVars, usbVars, personaVars >>

Halves == {"hi", "lo"}
Cells == Halves \union {"target"}

\* A 64-bit value and its two words.
Join(words) == words["hi"] * Word + words["lo"]
Split(n) == [c \in Halves |-> IF c = "hi" THEN n \div Word ELSE n % Word]

\* position_ / 1000
Whole(p) == p \div Milli

Position == Join(mem)

\* Registers nothing will read any more; calls return with these.
Dead == [c \in Cells |-> 0]

-----------------------------------------------------------------------------
(* Who may run *)

AppMayStep == Scheduling = "two_cores" \/ usbPc = "idle"
UsbMayStart == usbPc = "idle" /\ (Scheduling = "harness" => appPc = "idle")

-----------------------------------------------------------------------------
(* app_main's loop *)

\* advance(elapsed_ms) is called; it needs target_ and both words of position_.
BeginAdvance ==
  /\ AppMayStep
  /\ appPc = "idle"
  /\ appPc' = "load"
  /\ appTodo' = Cells
  /\ appElapsed' \in 1..MaxElapsed
  /\ UNCHANGED << mem, appRegs, appNew, usbVars, personaVars >>

AdvanceLoad ==
  /\ AppMayStep
  /\ appPc = "load"
  /\ \E c \in appTodo :
       /\ appRegs' = [appRegs EXCEPT ![c] = mem[c]]
       /\ appTodo' = appTodo \ {c}
  /\ UNCHANGED << mem, appPc, appNew, appElapsed, usbVars, personaVars >>

\* Mutant: no arrival, a step is always taken in full.
IntegratedUnclamped(position, target, elapsed) ==
  LET remaining == target * Milli - position
      step == Rate * elapsed
  IN  IF remaining > 0 THEN position + step ELSE position - step

\* Mutant: arrival decided in whole steps.
IntegratedWholeSteps(position, target, elapsed) ==
  LET remaining == target * Milli - position
      step == Rate * elapsed
      distance == IF remaining < 0 THEN -remaining ELSE remaining
  IN  IF Whole(position) = target THEN position
      ELSE IF step >= distance THEN target * Milli
      ELSE IF remaining > 0 THEN position + step
      ELSE position - step

\* The new position, from the values loaded.
Integrated(position, target, elapsed) ==
  LET remaining == target * Milli - position
      step == Rate * elapsed
      distance == IF remaining < 0 THEN -remaining ELSE remaining
  IN  IF step >= distance THEN target * Milli
      ELSE IF remaining > 0 THEN position + step
      ELSE position - step

AdvanceIntegrate ==
  /\ AppMayStep
  /\ appPc = "load" /\ appTodo = {}
  /\ IF appRegs["target"] * Milli = Join(appRegs)
       THEN /\ appPc' = "idle" /\ appRegs' = Dead
            /\ UNCHANGED << appTodo, appNew >>
       ELSE /\ appPc' = "store"
            /\ appTodo' = Halves
            /\ appNew' = Split(Integrated(Join(appRegs), appRegs["target"],
                                          appElapsed))
            /\ UNCHANGED appRegs
  /\ appElapsed' = 0
  /\ UNCHANGED << mem, usbVars, personaVars >>

AdvanceStore ==
  /\ AppMayStep
  /\ appPc = "store"
  /\ \E c \in appTodo :
       /\ mem' = [mem EXCEPT ![c] = appNew[c]]
       /\ appTodo' = appTodo \ {c}
       /\ IF appTodo = {c}
            THEN appPc' = "idle" /\ appRegs' = Dead /\ appNew' = Split(0)
            ELSE UNCHANGED << appPc, appRegs, appNew >>
  /\ UNCHANGED << appElapsed, usbVars, personaVars >>

App == BeginAdvance \/ AdvanceLoad \/ AdvanceIntegrate \/ AdvanceStore

-----------------------------------------------------------------------------
(* The focuser, called from the USB task *)

\* moveTo: one store.
MoveTo(t) ==
  /\ mem' = IF t < 0 THEN mem ELSE [mem EXCEPT !["target"] = t]
  /\ UNCHANGED usbVars

\* setPosition: its three stores follow, in any order.
BeginSetPosition(p) ==
  /\ IF p < 0 THEN UNCHANGED usbVars
     ELSE /\ usbPc' = "setPosition"
          /\ usbTodo' = Cells
          /\ usbRegs' = [c \in Cells |->
                           IF c = "target" THEN p ELSE Split(p * Milli)[c]]
          /\ UNCHANGED << usbCalls, usbFlag, usbPlace >>
  /\ UNCHANGED mem

SetPositionStore ==
  /\ usbPc = "setPosition"
  /\ \E c \in usbTodo :
       /\ mem' = [mem EXCEPT ![c] = usbRegs[c]]
       /\ usbTodo' = usbTodo \ {c}
       /\ IF usbTodo = {c}
            THEN usbPc' = "idle" /\ usbRegs' = Dead
            ELSE UNCHANGED << usbPc, usbRegs >>
  /\ UNCHANGED << usbCalls, usbFlag, usbPlace, appVars, personaVars >>

\* halt: position_ is loaded, then target_ is stored.
BeginHalt ==
  /\ usbPc' = "halt"
  /\ usbTodo' = Halves
  /\ UNCHANGED << mem, usbRegs, usbCalls, usbFlag, usbPlace >>

HaltStore ==
  /\ usbPc = "halt" /\ usbTodo = {}
  /\ mem' = [mem EXCEPT !["target"] = Whole(Join(usbRegs))]
  /\ usbPc' = "idle" /\ usbRegs' = Dead
  /\ UNCHANGED << usbTodo, usbCalls, usbFlag, usbPlace, appVars, personaVars >>

\* The loads of halt(), isMoving() and position().
UsbLoad ==
  /\ usbPc \in {"halt", "isMoving", "position"}
  /\ \E c \in usbTodo :
       /\ usbRegs' = [usbRegs EXCEPT ![c] = mem[c]]
       /\ usbTodo' = usbTodo \ {c}
  /\ UNCHANGED << mem, usbPc, usbCalls, usbFlag, usbPlace, appVars, personaVars >>

-----------------------------------------------------------------------------
(* EafPersona, in the USB task *)

NoReply == [register |-> RegState, body |-> [kind |-> "none"]]

Init ==
  /\ mem = [c \in Cells |->
              IF c = "target" THEN Start ELSE Split(Start * Milli)[c]]
  /\ appPc = "idle" /\ appTodo = {} /\ appElapsed = 0
  /\ appRegs = Dead
  /\ appNew = Split(0)
  /\ usbPc = "idle" /\ usbTodo = {} /\ usbCalls = {}
  /\ usbRegs = Dead
  /\ usbFlag = FALSE /\ usbPlace = 0
  /\ pending = RegState
  /\ settings = SETTINGS_BASE
  /\ command = Malformed
  /\ reply = NoReply

\* Apply for kReadRegister.
ApplyRead(c) ==
  /\ c.kind = "read"
  /\ pending' = c.register
  /\ UNCHANGED << settings, mem, usbVars >>

\* Mutant: a halt taken for a move to the position it carries.
ApplyWriteHaltMoves(c) ==
  /\ c.kind = "write"
  /\ pending' = RegState
  /\ settings' = IF c.settings = Absent THEN settings ELSE c.settings
  /\ \/ c.go /\ MoveTo(ToSigned(c.position))
     \/ ~c.go /\ c.sync /\ BeginSetPosition(ToSigned(c.position))
     \/ ~c.go /\ ~c.sync /\ MoveTo(ToSigned(c.position))

\* Apply for kWriteState.
ApplyWrite(c) ==
  /\ c.kind = "write"
  /\ pending' = RegState
  /\ settings' = IF c.settings = Absent THEN settings ELSE c.settings
  /\ \/ c.go /\ MoveTo(ToSigned(c.position))
     \/ ~c.go /\ c.sync /\ BeginSetPosition(ToSigned(c.position))
     \/ ~c.go /\ ~c.sync /\ BeginHalt

\* tud_hid_set_report_cb
SetReport(data) ==
  LET c == FwParseCommand(StageSetReport(data))
  IN  /\ UsbMayStart
      /\ command' = c
      /\ \/ c.kind = "malformed" /\ UNCHANGED << pending, settings, mem, usbVars >>
         \/ ApplyRead(c)
         \/ ApplyWrite(c)
      /\ UNCHANGED << reply, appVars >>

FixedBody(register) ==
  [kind |-> IF register = RegIdentity THEN "identity"
            ELSE IF register = RegSerial THEN "serial"
            ELSE "zero"]

\* tud_hid_get_report_cb for a register that does not consult the focuser.
GetReportFixed ==
  /\ UsbMayStart
  /\ pending # RegState
  /\ reply' = [register |-> pending, body |-> FixedBody(pending)]
  /\ UNCHANGED << mem, pending, settings, command, usbVars, appVars >>

\* tud_hid_get_report_cb for the state.  C++ leaves open which of isMoving()
\* and position(), two arguments of EncodeState, is called first.
GetReportState ==
  /\ UsbMayStart
  /\ pending = RegState
  /\ usbPc' = "CurrentReply"
  /\ usbCalls' = {"isMoving", "position"}
  /\ UNCHANGED << mem, usbTodo, usbRegs, usbFlag, usbPlace, personaVars, appVars >>

CallFocuser ==
  /\ usbPc = "CurrentReply"
  /\ \E call \in usbCalls :
       /\ usbPc' = call
       /\ usbCalls' = usbCalls \ {call}
       /\ usbTodo' = IF call = "isMoving" THEN Cells ELSE Halves
  /\ UNCHANGED << mem, usbRegs, usbFlag, usbPlace, personaVars, appVars >>

\* Mutant: parts of a step compared with steps.
ReturnFlagInParts ==
  /\ usbPc = "isMoving" /\ usbTodo = {}
  /\ usbFlag' = (Join(usbRegs) # usbRegs["target"])
  /\ usbPc' = "CurrentReply" /\ usbRegs' = Dead
  /\ UNCHANGED << mem, usbTodo, usbCalls, usbPlace, personaVars, appVars >>

ReturnFlag ==
  /\ usbPc = "isMoving" /\ usbTodo = {}
  /\ usbFlag' = (Whole(Join(usbRegs)) # usbRegs["target"])
  /\ usbPc' = "CurrentReply" /\ usbRegs' = Dead
  /\ UNCHANGED << mem, usbTodo, usbCalls, usbPlace, personaVars, appVars >>

ReturnPlace ==
  /\ usbPc = "position" /\ usbTodo = {}
  /\ usbPlace' = Whole(Join(usbRegs))
  /\ usbPc' = "CurrentReply" /\ usbRegs' = Dead
  /\ UNCHANGED << mem, usbTodo, usbCalls, usbFlag, personaVars, appVars >>

FinishReply ==
  /\ usbPc = "CurrentReply" /\ usbCalls = {}
  /\ reply' = [register |-> pending,
               body |-> [kind |-> "state", moving |-> usbFlag,
                         position |-> usbPlace, settings |-> settings]]
  /\ usbPc' = "idle" /\ usbFlag' = FALSE /\ usbPlace' = 0
  /\ UNCHANGED << mem, usbTodo, usbRegs, usbCalls, pending, settings, command,
                  appVars >>

UsbRequest ==
  \/ \E data \in Reports : SetReport(data)
  \/ GetReportFixed
  \/ GetReportState

UsbCall ==
  \/ SetPositionStore \/ HaltStore \/ UsbLoad
  \/ CallFocuser \/ ReturnFlag \/ ReturnPlace \/ FinishReply

Next == App \/ UsbRequest \/ UsbCall

Spec == Init /\ [][Next]_vars

\* FreeRTOS keeps both tasks running; the host may fall silent at any time.
FairSpec == Spec /\ WF_vars(App) /\ WF_vars(UsbCall)

-----------------------------------------------------------------------------
(* Properties *)

(* Every variable stays in its type.  No interleaving of torn stores, stale  *)
(* loads and integration makes a word of position_ or target_ negative, so   *)
(* the casts to uint32_t in CurrentReply never wrap.                         *)
TypeOK ==
  /\ mem \in [Cells -> Nat]
  /\ appPc \in {"idle", "load", "store"} /\ appTodo \subseteq Cells
  /\ appRegs \in [Cells -> Nat] /\ appNew \in [Halves -> Nat]
  /\ appElapsed \in 0..MaxElapsed
  /\ usbPc \in {"idle", "setPosition", "halt", "CurrentReply", "isMoving",
                "position"}
  /\ usbTodo \subseteq Cells /\ usbRegs \in [Cells -> Nat]
  /\ usbCalls \subseteq {"isMoving", "position"}
  /\ usbFlag \in BOOLEAN /\ usbPlace \in Nat
  /\ pending \in Bytes /\ settings \in Bytes /\ command \in Command
  /\ reply \in [register : Bytes,
                body : [kind : {"state"}, moving : BOOLEAN, position : Nat,
                        settings : Bytes]
                         \union [kind : {"none", "identity", "serial", "zero"}]]

\* Where the host may think the focuser is: a call that has begun to store has
\* taken effect if it is setPosition, and has not if it is advance.
SeenAt ==
  IF usbPc = "setPosition" THEN Whole(Join(usbRegs))
  ELSE IF appPc = "store" THEN Whole(Join(appRegs))
  ELSE Whole(Position)

SeenGoal ==
  IF usbPc = "setPosition" THEN usbRegs["target"]
  ELSE IF usbPc = "halt" THEN SeenAt
  ELSE mem["target"]

Contract == INSTANCE EafContract WITH
  at <- SeenAt, goal <- SeenGoal, named <- pending, stored <- settings,
  answer <- reply

(* Without preemption the firmware keeps the whole contract, in either order *)
(* of the two calls in CurrentReply.                                         *)
ImplementsContract == Contract!Spec

Targets ==
  {ToSigned(FwParseCommand(data).position) :
     data \in {d \in Reports : FwParseCommand(d).kind = "write"}}

(* Whatever the races did to the position, once the host has stopped         *)
(* redefining it and leaves the target alone, the focuser comes to rest      *)
(* exactly on the target.                                                    *)
Arrives ==
  \A t \in Targets :
    <>[](mem["target"] = t /\ usbPc # "setPosition")
      => <>[](Position = t * Milli)

(* ... and a host that goes on polling eventually reads nothing but rest at  *)
(* the target.                                                               *)
HostSeesArrival ==
  \A t \in Targets :
    (<>[](mem["target"] = t /\ usbPc # "setPosition") /\ []<>(usbPc = "isMoving"))
      => <>[](reply.body.kind = "state" =>
                ~reply.body.moving /\ reply.body.position = t)

\* Neither task is inside a call on the focuser.
Quiet == appPc = "idle" /\ usbPc = "idle"

\* Between calls, after an accepted sync: the focuser is where the host said.
SyncDoesNotMove ==
  /\ Quiet
  /\ command.kind = "write"
  /\ ~command.go /\ command.sync
  /\ ToSigned(command.position) >= 0
  => Whole(Position) = command.position

\* Between calls, after a halt: there is nowhere left to travel to.
HaltStops ==
  /\ Quiet
  /\ command.kind = "write"
  /\ ~command.go /\ ~command.sync
  => Whole(Position) = mem["target"]

(* "Redefine the current position without moving", and a halt that "must be  *)
(* immediate": what advance() had loaded before the command does not undo it *)
(* afterwards.                                                               *)
CommandsStand == SyncDoesNotMove /\ HaltStops

(* The moving flag falls on arrival: a reply that says the focuser rests     *)
(* carries the position it was sent to.                                      *)
RestIsReportedAtTarget ==
  [][FinishReply /\ ~reply'.body.moving
       => reply'.body.position = mem["target"]]_vars
=============================================================================
