------------------------------ MODULE MCThrServ -----------------------------
(***************************************************************************)
(* A small instance of ThrServ for TLC: the configuration gives two        *)
(* connections, two cells and two descriptor numbers.  The connections are *)
(* model values; they are not permuted, for liveness is checked too.       *)
(***************************************************************************)
EXTENDS ThrServ
=============================================================================
