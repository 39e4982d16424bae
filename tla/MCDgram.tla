------------------------------ MODULE MCDgram ------------------------------
(* Dgram for TLC: a name, a longer one that begins like another, and that   *)
(* one, so that what is left of it in the buffer completes the second.      *)
EXTENDS Dgram

ThreeNames == { <<9>>, <<1, 2>>, <<1, 2, 3>> }
=============================================================================
