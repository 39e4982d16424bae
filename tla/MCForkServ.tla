----------------------------- MODULE MCForkServ -----------------------------
(***************************************************************************)
(* Small instances of ForkServ for TLC.  The connections are model values  *)
(* that the server does not tell apart, so safety runs may permute them.   *)
(***************************************************************************)
EXTENDS ForkServ, TLC

Symmetry == Permutations(Conns)
=============================================================================
