---------------------------- MODULE MCGestation ----------------------------
(* Gestation on small clusters: every bound is a value given in the .cfg. *)
EXTENDS Gestation, TLC
=============================================================================
