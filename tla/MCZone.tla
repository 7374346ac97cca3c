------------------------------- MODULE MCZone -------------------------------
(***************************************************************************)
(* A small instance of Zone.tla with the sizes of the 32 bit build: blocks *)
(* of 32 to 128 bytes and more, in a zone that holds seven of the smallest. *)
(***************************************************************************)
EXTENDS Zone
=============================================================================
