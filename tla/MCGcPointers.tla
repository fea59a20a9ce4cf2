---------------------------- MODULE MCGcPointers ----------------------------
(* An instance of GcPointers: a thread of the game, one started with
   spawn_attached and one that attaches itself now and then. *)
EXTENDS GcPointers
=============================================================================
