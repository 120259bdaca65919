--------------------------- MODULE MCJobLifecycle ---------------------------
(***************************************************************************)
(* Finite instances of JobLifecycle for TLC.                               *)
(***************************************************************************)
EXTENDS JobLifecycle, TLC

CONSTANTS j1, j2, j3, w1, w2

Symmetry == Permutations(Workers) \cup Permutations(Keyless)
=============================================================================
