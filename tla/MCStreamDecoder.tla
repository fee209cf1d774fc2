---------------------------- MODULE MCStreamDecoder ----------------------------
(* Bytes of radix four: timestamps wrap after sixteen cycles, and a payload   *)
(* byte can be the event marker.  The gaps are a cycle, the longest that is   *)
(* still within a wrap, and one beyond it.  A second is nine cycles, five     *)
(* ticks and three microseconds, of which four ticks have passed when the     *)
(* capture starts: some times are rounded into the next microsecond or second *)
(* and some out of the one they are in.                                       *)
EXTENDS StreamDecoder

MCPayloads == {<< >>, << 3 >>, << 3, 1 >>, << 0, 3, 2 >>}
MCGaps == {1, 15, 17}
=============================================================================
