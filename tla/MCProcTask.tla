---------------------------- MODULE MCProcTask -----------------------------
(* ProcTask for TLC: two users, two processes, a list of two places and one  *)
(* write more than that.                                                     *)
EXTENDS ProcTask, TLC

Symmetry == Permutations(Users) \cup Permutations(Pids)
=============================================================================
