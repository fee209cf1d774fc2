----------------------------- MODULE MCCapturePool -----------------------------
(* Three transfers: one can be filled while the callback of another waits,    *)
(* and cancelling the first lets the next one take the chunk that follows.    *)
EXTENDS CapturePool
=============================================================================
