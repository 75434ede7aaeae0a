---------------------------- MODULE MCConverter ----------------------------
(***************************************************************************)
(* Model for TLC: the sources are interchangeable.                         *)
(***************************************************************************)
EXTENDS Converter, TLC

Symmetry == Permutations(Sources)
============================================================================
