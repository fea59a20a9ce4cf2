---------------------------- MODULE HookContract ----------------------------
(***************************************************************************)
(* What the Hook trait, HookHandle (src/hook.rs) and the `# Safety` notes  *)
(* of the backends' uninstall promise of a hook, whatever the backend.  A  *)
(* hook is absent, being published (its method is patched, its original    *)
(* not yet available), installed, or being removed.                        *)
(***************************************************************************)
EXTENDS Naturals

CONSTANTS
  Hook,    \* the hooks
  Caller   \* the threads that call hooked methods

VARIABLES
  phase,    \* the phase of each hook
  handles,  \* the HookHandles the program holds for each hook
  inside    \* the hooks each thread's current call is inside

contractVars == <<phase, handles, inside>>

Phase == {"absent", "publishing", "installed", "removing"}

Init ==
  /\ phase = [h \in Hook |-> "absent"]
  /\ handles = [h \in Hook |-> 0]
  /\ inside = [c \in Caller |-> {}]

Move(h, from, to) ==
  /\ phase[h] = from
  /\ phase' = [phase EXCEPT ![h] = to]

Patch(h) == Move(h, "absent", "publishing") /\ UNCHANGED <<handles, inside>>

\* install returns Ok: the hook is in place and there is one more handle.
Publish(h) ==
  /\ Move(h, "publishing", "installed")
  /\ handles' = [handles EXCEPT ![h] = @ + 1]
  /\ UNCHANGED inside

\* uninstall takes a handle, and nobody may be inside the hook.
Remove(h) ==
  /\ handles[h] > 0
  /\ \A c \in Caller : h \notin inside[c]
  /\ Move(h, "installed", "removing")
  /\ handles' = [handles EXCEPT ![h] = @ - 1]
  /\ UNCHANGED inside

Removed(h) == Move(h, "removing", "absent") /\ UNCHANGED <<handles, inside>>

RemoveFails(h) == Move(h, "removing", "installed") /\ UNCHANGED <<handles, inside>>

Enter(c, h) ==
  /\ phase[h] \in {"publishing", "installed"}
  /\ h \notin inside[c]
  /\ inside' = [inside EXCEPT ![c] = @ \cup {h}]
  /\ UNCHANGED <<phase, handles>>

Leave(c) ==
  /\ inside' = [inside EXCEPT ![c] = {}]
  /\ UNCHANGED <<phase, handles>>

Next ==
  \/ \E h \in Hook :
       Patch(h) \/ Publish(h) \/ Remove(h) \/ Removed(h) \/ RemoveFails(h)
  \/ \E c \in Caller : Leave(c) \/ \E h \in Hook : Enter(c, h)

Spec == Init /\ [][Next]_contractVars
=============================================================================
