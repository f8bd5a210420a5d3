-------------------------- MODULE MCXInactivation --------------------------
(* XInactivation on small nodes: every bound is a value given in the .cfg. *)
EXTENDS XInactivation, TLC

Symmetry == Permutations(Wrapper)
=============================================================================
