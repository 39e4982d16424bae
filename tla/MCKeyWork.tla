----------------------------- MODULE MCKeyWork -----------------------------
(* A small instance of KeyWork for TLC.  Three interrupts: a press of Shift *)
(* or of a letter, or the release of an arrow (shown by lab_11 only) or of a*)
(* key beyond the tables; then a release of Shift or a press of CapsLock,   *)
(* which the works of the third interrupt, the release of a letter, may     *)
(* overtake.                                                                *)
EXTENDS KeyWork, TLC

ThreeCodes == <<{RightShiftDown, 200, 212, 30},
                {RightShiftUp, CapsLockDown},
                {158}>>
=============================================================================
