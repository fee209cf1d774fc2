------------------------------- MODULE MCAppMain -------------------------------
(* Two-byte serials; every string of up to five characters out of two digits  *)
(* and one that is not a digit.  A millisecond of seven microseconds, and     *)
(* turns of the loop from far shorter than that to a few of them.             *)
EXTENDS AppMain

MCConfigured == UNION {[1..n -> {Bad, 0, 13}] : n \in 0..5}
MCDelays == {1, 3, 10, 20}
=============================================================================
