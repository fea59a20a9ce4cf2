------------------------------ MODULE A64Hook ------------------------------
(***************************************************************************)
(* The And64InlineHook backend (hook_backend/src/aarch64_linux_android.rs):*)
(* a FunctionHook is an atomic pointer to the trampoline, null at first.   *)
(*                                                                         *)
(* External (And64InlineHook, as the backend uses it): A64HookFunction     *)
(* moves the target's current first instructions to a trampoline, writes a *)
(* jump to the hook over them and hands the trampoline out, or changes     *)
(* nothing and hands out null.  It returns no status and removes nothing.  *)
(***************************************************************************)
EXTENDS HookClient

CONSTANT PatchMayFail   \* whether A64HookFunction can hand out null

ASSUME A64Assumption == PatchMayFail \in BOOLEAN

VARIABLES
  orig,   \* each hook's `original` pointer
  tramp   \* the trampoline an installer got from A64HookFunction

vars == <<clientVars, orig, tramp>>

TypeOK ==
  /\ ClientTypeOK
  /\ orig \in [Hook -> Entry \cup {NoPtr}]
  /\ tramp \in [Installer -> Entry \cup {NoPtr}]

Init ==
  /\ ClientInit
  /\ orig = [h \in Hook |-> NoPtr]
  /\ tramp = [t \in Installer |-> NoPtr]

is_installed(h) == orig[h] # NoPtr

original(h) == orig[h]

-----------------------------------------------------------------------------
\* Slip: the trampoline is made from the method after it was patched.
PatchThenSave(t) ==
  /\ Goto(t, "patch", "store")
  /\ tramp' = [tramp EXCEPT ![t] = cur[t]]
  /\ code' = [code EXCEPT ![TargetOf[cur[t]]] = cur[t]]
  /\ UNCHANGED <<cur, callVars, handles, result, installs, orig>>

(***************************************************************************)
(* FunctionHook::install: the native call, then the store, then true.      *)
(***************************************************************************)
A64HookFunction(t) ==
  LET m == TargetOf[cur[t]] IN
  /\ Goto(t, "patch", "store")
  /\ tramp' = [tramp EXCEPT ![t] = code[m]]
  /\ code' = [code EXCEPT ![m] = cur[t]]
  /\ UNCHANGED <<cur, callVars, handles, result, installs, orig>>

A64HookFunctionFails(t) ==
  /\ PatchMayFail
  /\ Goto(t, "patch", "store")
  /\ tramp' = [tramp EXCEPT ![t] = NoPtr]
  /\ UNCHANGED <<cur, callVars, code, handles, result, installs, orig>>

\* Slip: the target's address is stored even when there is no trampoline.
StoreAddress(t) ==
  /\ ReturnHandle(t, "store")
  /\ orig' = [orig EXCEPT ![cur[t]] = IF tramp[t] = NoPtr THEN Orig ELSE tramp[t]]
  /\ UNCHANGED <<cur, callVars, code, installs, tramp>>

StoreOriginal(t) ==
  /\ ReturnHandle(t, "store")
  /\ orig' = [orig EXCEPT ![cur[t]] = tramp[t]]
  /\ UNCHANGED <<cur, callVars, code, installs, tramp>>

\* Slip: an uninstall that forgets the trampoline and leaves the patch.
UninstallForgets(t) ==
  /\ Return(t, "check", "Removed")
  /\ orig' = [orig EXCEPT ![cur[t]] = NoPtr]
  /\ UNCHANGED <<cur, callVars, code, handles, installs, tramp>>

\* FunctionHook::uninstall.
Uninstall(t) ==
  /\ Return(t, "check", "Unsupported")
  /\ UNCHANGED <<cur, callVars, code, handles, installs, orig, tramp>>

-----------------------------------------------------------------------------
Next ==
  \/ ClientStep(is_installed, original) /\ UNCHANGED <<orig, tramp>>
  \/ \E t \in Installer :
       \/ A64HookFunction(t)
       \/ A64HookFunctionFails(t)
       \/ StoreOriginal(t)
       \/ Uninstall(t)

Spec == Init /\ [][Next]_vars

-----------------------------------------------------------------------------
(***************************************************************************)
(* Between operations on a hook that has its method for itself,            *)
(* is_installed answers whether the method leads to it, also after an      *)
(* install whose patch failed, which a later install may try again.        *)
(***************************************************************************)
InstalledIsPatched ==
  \A h \in Hook : Alone(h) /\ Idle(h) => (is_installed(h) <=> code[TargetOf[h]] = h)

(***************************************************************************)
(* A hook that runs has an original to call, except while the install that *)
(* patched its method has not stored the trampoline yet.                   *)
(***************************************************************************)
OriginalUnlessPublishing ==
  \A c \in Caller :
    pc[c] = "inhook" /\ original(cur[c]) = NoPtr => Publishing(cur[c])

=============================================================================
