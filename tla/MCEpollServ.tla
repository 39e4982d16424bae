----------------------------- MODULE MCEpollServ ----------------------------
(***************************************************************************)
(* A small instance of EpollServ for TLC: the configuration gives two      *)
(* clients, three cells, batches of two events and one fault.  The clients *)
(* are model values; they are not permuted, for liveness is checked too.   *)
(***************************************************************************)
EXTENDS EpollServ
=============================================================================
