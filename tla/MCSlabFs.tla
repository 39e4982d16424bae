------------------------------ MODULE MCSlabFs ------------------------------
(* A small instance of SlabFs for TLC: an array of three elements, one more *)
(* object than that, and two mounts; objects and mounts are interchangeable.*)
EXTENDS SlabFs, TLC

Symmetry == Permutations(Objects) \cup Permutations(Mounts)
=============================================================================
