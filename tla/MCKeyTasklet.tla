--------------------------- MODULE MCKeyTasklet ----------------------------
(* A small instance of KeyTasklet for TLC, for the versions of lab_ipq and  *)
(* of lab_10: two Shift codes, CapsLock, the releases of a letter, of       *)
(* Enter, of an arrow and of NumLock, which the tables of names do not      *)
(* have, and of a key beyond them, and a press.                             *)
EXTENDS KeyTasklet

SomeCodes == {LeftShiftDown, LeftShiftUp, CapsLockDown,
              158, 156, 200, 197, 212, 30}
=============================================================================
