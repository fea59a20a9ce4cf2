----------------------------- MODULE MCA64Hook -----------------------------
(* Instances of A64Hook: hooks that share a method, and hooks that have a
   method of their own. *)
EXTENDS A64Hook, TLC

MixedTarget == "h1" :> "m1" @@ "h2" :> "m1" @@ "h3" :> "m2"
OwnTarget == "h1" :> "m1"
=============================================================================
