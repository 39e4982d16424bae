----------------------------- MODULE Scancodes -----------------------------
(* The scancodes of an XT keyboard as lab_11/workq.c reads them: one byte,  *)
(* whose top bit tells a release from a press, and five bytes that the      *)
(* works treat as modifiers.                                                *)
EXTENDS Integers

Bytes == 0 .. 255

LeftShiftDown  == 42
LeftShiftUp    == 170
RightShiftDown == 54
RightShiftUp   == 182
CapsLockDown   == 58
Modifiers == {LeftShiftDown, LeftShiftUp, RightShiftDown, RightShiftUp, CapsLockDown}

IsRelease(code) == code >= 128
PressCode(code) == code % 128

(* The tables of key names have 84 entries; Enter (28) is never shown. *)
TableSize == 84

Shown(code) == /\ code \notin Modifiers
               /\ IsRelease(code)
               /\ PressCode(code) < TableSize
               /\ PressCode(code) # 28
=============================================================================
