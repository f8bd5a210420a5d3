------------------------- MODULE MCMicrochimerism -------------------------
(* Small instances of Microchimerism for TLC. *)
EXTENDS Microchimerism
=============================================================================
