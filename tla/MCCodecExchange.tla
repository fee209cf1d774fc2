---------------------------- MODULE MCCodecExchange ----------------------------
(* Sixteen-valued bytes: the smallest radix that holds every register number. *)
EXTENDS CodecExchange

MCOffered ==
  << {1, 3}, {14, 0}, {10, 0}, {2, 3, 4},   \* id, magic, register
     {0, 1, 13}, {7},                        \* go, or the register to read
     {0, 8, 15}, {0, 15}, {3}, {0, 15},      \* position
     {0, 1}, {7}, {7}, {1, 3},               \* sync, padding, settings
     {9}, {9}, {9}, {9} >>                   \* leaked heap, past 16 bytes too

MCTemperatures == {-200, -118, -117, -1, 0, 20, 138, 139, 300}
=============================================================================
