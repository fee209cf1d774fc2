----------------------------- MODULE MCHostPersona -----------------------------
(* Reports with sixteen-valued bytes; positions 0, 1 and 3 keep every write   *)
(* within reach of the others in a few units of time.                         *)
EXTENDS HostPersona

Named(register) == << REPORT_OUT, Magic0, Magic1, RegRead, register >>
State(go, p, sync) ==
  << REPORT_OUT, Magic0, Magic1, RegState, go, 0, 0, 0, 0, p, sync >>
Settings(s) == << 0, 0, s, 9, 9 >>

MCReports ==
  {Named(RegState), Named(RegSerial), Named(RegIdentity), Named(7)}
    \union {State(1, 0, 0), State(1, 3, 0) \o Settings(3), State(1, 3, 0)}
    \union {State(0, 3, 0), State(0, 0, 1), State(0, 1, 1) \o Settings(1)}
    \union {State(1, 2, 1), SubSeq(State(1, 1, 0), 1, 9), << REPORT_OUT >>}
=============================================================================
