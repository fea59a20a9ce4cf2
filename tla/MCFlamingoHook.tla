--------------------------- MODULE MCFlamingoHook ----------------------------
(* Two hooks that share a method, and one with a method of its own. *)
EXTENDS FlamingoHook, TLC

MixedTarget == "h1" :> "m1" @@ "h2" :> "m1" @@ "h3" :> "m2"
=============================================================================
