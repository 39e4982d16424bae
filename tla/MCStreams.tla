----------------------------- MODULE MCStreams -----------------------------
(* Streams for TLC: as many letters as it takes for a buffer to be filled,  *)
(* for the next one to be filled in part, and for each writer to have three.*)
EXTENDS Streams
=============================================================================
