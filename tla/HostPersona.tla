------------------------------ MODULE HostPersona ------------------------------
(***************************************************************************)
(* The Python vehicle: EAFDevice (personas/eaf_device.py) in front of      *)
(* SimulatedFocuser (backends/simulated.py).  One thread serves the USB    *)
(* requests; the focuser has no thread of its own and catches up with the  *)
(* clock whenever it is asked something, so a single state reply consults  *)
(* it twice, at two times.                                                 *)
(***************************************************************************)
EXTENDS EafCodec

CONSTANTS
  Start,        \* SimulatedFocuser(position=...)
  SubSteps,     \* resolution of the float position: parts of a step
  Rate,         \* parts travelled per unit of time (steps_per_second)
  MaxElapsed,   \* bound: units of time the device may go unqueried
  MaxGap,       \* bound: units of time within one state reply
  MaxStep,      \* max_step(): positions the contract obliges us to accept
  Reports       \* the SET_REPORT payloads the host may send

ASSUME StartAssumption == Start \in Nat
ASSUME ClockAssumption ==
  /\ SubSteps \in Nat \ {0} /\ Rate \in Nat \ {0}
  /\ MaxElapsed \in Nat /\ MaxGap \in Nat
ASSUME MaxStepAssumption == MaxStep \in Nat
ASSUME ReportsAssumption == \A data \in Reports : data \in Seq(Bytes)

VARIABLES
  position,   \* _position, in parts of a step
  target,     \* _target, in steps
  elapsed,    \* time since _last
  pending,    \* _pending
  settings,   \* _settings
  command,    \* the last command parse_command returned
  reply       \* the last report the host was sent

focuser == << position, target, elapsed >>
vars == << position, target, elapsed, pending, settings, command, reply >>

-----------------------------------------------------------------------------
(* SimulatedFocuser *)

\* int(self._position); positions are never negative.
Whole(p) == p \div SubSteps

\* Mutant: arrival tested for equality only, as if steps always divided travel.
AdvanceUnclamped(p, t, e) ==
  LET remaining == t * SubSteps - p
      step == Rate * e
  IN  IF remaining = 0 THEN p
      ELSE IF remaining > 0 THEN p + step
      ELSE p - step

\* Mutant: the sign of remaining is forgotten below the target.
AdvanceOnlyUp(p, t, e) ==
  LET remaining == t * SubSteps - p
      step == Rate * e
  IN  IF remaining > 0 /\ remaining <= step THEN t * SubSteps
      ELSE IF remaining > 0 THEN p + step
      ELSE p

\* _advance: where a focuser at p, bound for t, is after e units of time.
Advance(p, t, e) ==
  LET remaining == t * SubSteps - p
      step == Rate * e
  IN  IF remaining <= step /\ -remaining <= step THEN t * SubSteps
      ELSE IF remaining > 0 THEN p + step
      ELSE p - step

Now == Advance(position, target, elapsed)

MoveTo(t) ==
  IF t < 0 THEN UNCHANGED focuser
  ELSE /\ position' = Now
       /\ target' = t
       /\ elapsed' = 0

SetPosition(p) ==
  IF p < 0 THEN UNCHANGED focuser
  ELSE /\ position' = p * SubSteps
       /\ target' = p
       /\ elapsed' = 0

Halt ==
  /\ position' = Now
  /\ target' = Whole(Now)
  /\ elapsed' = 0

-----------------------------------------------------------------------------
(* EAFDevice *)

NoReply == [register |-> RegState, body |-> [kind |-> "none"]]

Init ==
  /\ position = Start * SubSteps
  /\ target = Start
  /\ elapsed = 0
  /\ pending = RegState
  /\ settings = SETTINGS_BASE
  /\ command = Malformed
  /\ reply = NoReply

\* time.monotonic() moves on; nobody is called.
Tick ==
  /\ elapsed < MaxElapsed
  /\ elapsed' = elapsed + 1
  /\ UNCHANGED << position, target, pending, settings, command, reply >>

\* apply(command) for a ReadRegister.
ApplyRead(c) ==
  /\ c.kind = "read"
  /\ pending' = c.register
  /\ UNCHANGED << focuser, settings >>

\* apply(command) for a WriteState.
ApplyWrite(c) ==
  /\ c.kind = "write"
  /\ pending' = RegState
  /\ settings' = IF c.settings = Absent THEN settings ELSE c.settings
  /\ \/ c.go /\ MoveTo(c.position)
     \/ ~c.go /\ c.sync /\ SetPosition(c.position)
     \/ ~c.go /\ ~c.sync /\ Halt

\* handle_set_report: a malformed report is acknowledged and ignored.
HandleSetReport(data) ==
  LET c == ParseCommand(data)
  IN  /\ command' = c
      /\ \/ c.kind = "malformed" /\ UNCHANGED << focuser, pending, settings >>
         \/ ApplyRead(c)
         \/ ApplyWrite(c)
      /\ UNCHANGED reply

FixedBody(register) ==
  [kind |-> IF register = RegIdentity THEN "identity"
            ELSE IF register = RegSerial THEN "serial"
            ELSE "zero"]

\* Mutant: position() before is_moving(), the order of the fields swapped.
ReplyStatePositionFirst(gap) ==
  LET later == Advance(Now, target, gap)
  IN  /\ pending = RegState
      /\ reply' = [register |-> pending,
                   body |-> [kind |-> "state",
                             moving |-> Whole(later) # target,
                             position |-> Whole(Now),
                             settings |-> settings]]
      /\ position' = later
      /\ elapsed' = 0
      /\ UNCHANGED target

\* Mutant: the queries refresh _last and forget to keep the travel.
ReplyStateForgetsTravel(gap) ==
  /\ pending = RegState
  /\ reply' = [register |-> pending,
               body |-> [kind |-> "state",
                         moving |-> Whole(Now) # target,
                         position |-> Whole(Advance(Now, target, gap)),
                         settings |-> settings]]
  /\ elapsed' = 0
  /\ UNCHANGED << position, target >>

\* current_reply for register 0x03: is_moving() first, position() gap later.
ReplyState(gap) ==
  LET later == Advance(Now, target, gap)
  IN  /\ pending = RegState
      /\ reply' = [register |-> pending,
                   body |-> [kind |-> "state",
                             moving |-> Whole(Now) # target,
                             position |-> Whole(later),
                             settings |-> settings]]
      /\ position' = later
      /\ elapsed' = 0
      /\ UNCHANGED target

\* current_reply for every other register: the focuser is not consulted.
ReplyFixed ==
  /\ pending # RegState
  /\ reply' = [register |-> pending, body |-> FixedBody(pending)]
  /\ UNCHANGED focuser

\* handle_get_report.
HandleGetReport ==
  /\ \/ \E gap \in 0..MaxGap : ReplyState(gap)
     \/ ReplyFixed
  /\ UNCHANGED << pending, settings, command >>

Next ==
  \/ Tick
  \/ \E data \in Reports : HandleSetReport(data)
  \/ HandleGetReport

Spec == Init /\ [][Next]_vars

\* The clock does not stop.  Nothing is assumed of the host.
FairSpec == Spec /\ WF_vars(Tick)

-----------------------------------------------------------------------------
(* Every variable stays in its type; in particular the position the focuser *)
(* integrates never leaves the natural numbers.                              *)
TypeOK ==
  /\ position \in Nat
  /\ target \in Nat
  /\ elapsed \in 0..MaxElapsed
  /\ pending \in Bytes
  /\ settings \in Bytes
  /\ command \in Command
  /\ reply \in [register : Bytes,
                body : [kind : {"state"}, moving : BOOLEAN, position : Nat,
                        settings : Bytes]
                         \union [kind : {"none", "identity", "serial", "zero"}]]

Contract == INSTANCE EafContract WITH
  at <- Whole(Now), goal <- target, named <- pending, stored <- settings,
  answer <- reply

(* The lazily integrated focuser behind the persona is indistinguishable     *)
(* from one that travels by itself: a halt stops it for good, a sync does    *)
(* not move it, it never passes its target, and a reply that says it rests   *)
(* reports the target even though the flag and the position are computed at  *)
(* two different times.                                                      *)
ImplementsContract == Contract!Spec

(* Once the host leaves the target alone the focuser comes to rest on it.    *)
Arrives ==
  \A t \in {ParseCommand(data).position :
              data \in {d \in Reports : ParseCommand(d).kind = "write"}} :
    <>[](target = t) => <>[](Whole(Now) = t)

(* A host that goes on polling register 0x03 after a move sees the moving    *)
(* flag fall, and from then on reads nothing but rest at the target.         *)
HostSeesArrival ==
  \A t \in {ParseCommand(data).position :
              data \in {d \in Reports : ParseCommand(d).kind = "write"}} :
    (<>[](target = t) /\ []<><<HandleGetReport /\ pending = RegState>>_vars)
      => <>[](reply.body.kind = "state" =>
                ~reply.body.moving /\ reply.body.position = t)
=============================================================================
