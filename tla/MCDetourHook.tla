---------------------------- MODULE MCDetourHook ----------------------------
(* Instances of DetourHook: hooks that share a method, and hooks that have a
   method of their own. *)
EXTENDS DetourHook, TLC

MixedTarget == "h1" :> "m1" @@ "h2" :> "m1" @@ "h3" :> "m2"
OwnTarget == "h1" :> "m1"
=============================================================================
