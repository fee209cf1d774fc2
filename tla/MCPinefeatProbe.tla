---------------------------- MODULE MCPinefeatProbe ----------------------------
(* A lens of two or three steps, of two parts each: a third of a move passes  *)
(* between two answers at most, all of it in one sleep at least.              *)
EXTENDS PinefeatProbe

CONSTANTS Places    \* steps the lens may be found at, and may be moving to

MCMisses == {-1, 2}

MCFound ==
  {[lens |-> lens, retargets |-> retargets, jams |-> jams, failed |-> FALSE,
    position |-> Sub * place, target |-> target, travel |-> 3] :
     lens \in Lenses, retargets \in BOOLEAN, jams \in BOOLEAN,
     place \in Places, target \in Places}

Run(modes, travel, focus) == [does |-> modes, travel |-> travel, focus |-> focus]

MCArguments ==
  {Run({mode}, 0, 0) : mode \in {"identify", "vet", "scan", "send"}}
    \union {Run({"test"}, travel, 0) : travel \in {2, 5}}
    \union {Run({"focus"}, 0, place) : place \in {-1, 2}}
    \union {Run({"calibrate", "aperture", "focus"}, 0, 2), Run({"aperture"}, 0, 0)}

MCScan == << 1, -1, -1 >>
MCSend == << << "m", 2 >>, << "e" >>, << "f" >>, << "x" >> >>
MCLate == {OK, ER, << "y" >>, << "position", 1 >>, << "range", 3 >>}
=============================================================================
