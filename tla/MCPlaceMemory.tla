--------------------------- MODULE MCPlaceMemory ---------------------------
(* Small instances of PlaceMemory for TLC. *)
EXTENDS PlaceMemory
=============================================================================
