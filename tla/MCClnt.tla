------------------------------- MODULE MCClnt -------------------------------
(* A small instance of Clnt for TLC: two connections, both of clnt.c or one *)
(* of it beside an arbitrary client (Mixes in the .cfg), and two cells.     *)
EXTENDS Clnt
=============================================================================
