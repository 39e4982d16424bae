------------------------------- MODULE MCFtw --------------------------------
(* A small instance of Ftw for TLC: a root with a file and two directories,  *)
(* of which one is empty and the other has a directory with a file in it.    *)
EXTENDS Ftw

SmallTree == [r |-> Outside, f |-> "r", a |-> "r", b |-> "r", c |-> "a", g |-> "c"]
=============================================================================
