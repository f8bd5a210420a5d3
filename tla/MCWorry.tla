------------------------------ MODULE MCWorry ------------------------------
(* Worry on small clusters: every bound is a value given in the .cfg. *)
EXTENDS Worry
=============================================================================
