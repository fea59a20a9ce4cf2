---------------------------- MODULE MCArmv7Hook -----------------------------
(* Instances of Armv7Hook: hooks that share a method, and hooks that have a
   method of their own. *)
EXTENDS Armv7Hook, TLC

MixedTarget == "h1" :> "m1" @@ "h2" :> "m1" @@ "h3" :> "m2"
=============================================================================
