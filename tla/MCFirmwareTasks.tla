---------------------------- MODULE MCFirmwareTasks ----------------------------
(* Sixteen-valued bytes, so that 0x8000 is the first position that a signed   *)
(* word reads as negative; memory words small enough that a travel of three   *)
(* steps carries from the low word into the high one.                         *)
EXTENDS FirmwareTasks

Named(register) == << REPORT_OUT, Magic0, Magic1, RegRead, register >>
State(go, top, p, sync) ==
  << REPORT_OUT, Magic0, Magic1, RegState, go, 0, top, 0, 0, p, sync >>
Settings(s) == << 0, 0, s, 9, 9, 9 >>

MoveReports == {State(1, 0, 0, 0), State(1, 0, 3, 0)}

\* Everything a report can ask of the device.
AllReports ==
  MoveReports
    \union {Named(RegState), Named(RegSerial), Named(7), << REPORT_OUT >>}
    \union {State(0, 0, 3, 0), State(0, 0, 1, 1), State(1, 8, 1, 1) \o Settings(3),
            State(0, 8, 1, 1)}

\* One report of each kind that reaches the focuser, for the runs in which the
\* two tasks overlap.
FocuserReports == {State(1, 0, 2, 0), State(0, 0, 2, 0), State(0, 0, 0, 1)}
=============================================================================
