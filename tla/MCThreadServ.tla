---------------------------- MODULE MCThreadServ ----------------------------
(***************************************************************************)
(* A small instance of ThreadServ for TLC: the configuration gives two     *)
(* connections, one cell and two descriptor numbers.  The connections are  *)
(* model values; they are not permuted, for liveness is checked too.       *)
(***************************************************************************)
EXTENDS ThreadServ
=============================================================================
