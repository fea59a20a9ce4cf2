----------------------------- MODULE Armv7Hook -----------------------------
(***************************************************************************)
(* The Android-Inline-Hook backend                                         *)
(* (hook_backend/src/armv7_linux_androideabi.rs): a FunctionHook is two    *)
(* atomic pointers, `target` and `original`, written one after the other.  *)
(*                                                                         *)
(* External (the native library, as the backend uses it): it keeps one     *)
(* item per method.  registerInlineHook makes the item and the trampoline  *)
(* and fails when there is one; inlineHook patches a registered method;    *)
(* inlineUnHook restores it and drops the item.  Each may also fail for a  *)
(* reason of its own, and then changes nothing.                            *)
(***************************************************************************)
EXTENDS HookClient

VARIABLES
  target,  \* each hook's `target` pointer
  orig,    \* each hook's `original` pointer
  item,    \* the hook the native library has registered for each method
  proto    \* the trampoline an installer got from registerInlineHook

cellVars == <<target, orig, item, proto>>
vars == <<clientVars, cellVars>>

TypeOK ==
  /\ ClientTypeOK
  /\ target \in [Hook -> Target \cup {NoPtr}]
  /\ orig \in [Hook -> Entry \cup {NoPtr}]
  /\ item \in [Target -> Hook \cup {NoPtr}]
  /\ proto \in [Installer -> Entry \cup {NoPtr}]

Init ==
  /\ ClientInit
  /\ target = [h \in Hook |-> NoPtr]
  /\ orig = [h \in Hook |-> NoPtr]
  /\ item = [m \in Target |-> NoPtr]
  /\ proto = [t \in Installer |-> NoPtr]

is_installed(h) == orig[h] # NoPtr

original(h) == orig[h]

-----------------------------------------------------------------------------
InstallFails(t) ==
  /\ \E from \in {"patch", "enable"} : Return(t, from, "InstallError")
  /\ UNCHANGED <<cur, callVars, code, handles, installs, cellVars>>

\* Slip: the method may be registered already.
registerAgain(t) ==
  /\ Goto(t, "patch", "enable")
  /\ item' = [item EXCEPT ![TargetOf[cur[t]]] = cur[t]]
  /\ proto' = [proto EXCEPT ![t] = code[TargetOf[cur[t]]]]
  /\ UNCHANGED <<cur, callVars, code, handles, result, installs, target, orig>>

registerInlineHook(t) ==
  LET m == TargetOf[cur[t]] IN
  /\ Goto(t, "patch", "enable")
  /\ item[m] = NoPtr
  /\ item' = [item EXCEPT ![m] = cur[t]]
  /\ proto' = [proto EXCEPT ![t] = code[m]]
  /\ UNCHANGED <<cur, callVars, code, handles, result, installs, target, orig>>

inlineHook(t) ==
  /\ Goto(t, "enable", "store")
  /\ code' = [code EXCEPT ![TargetOf[cur[t]]] = cur[t]]
  /\ UNCHANGED <<cur, callVars, handles, result, installs, cellVars>>

StoreTarget(t) ==
  /\ Goto(t, "store", "store2")
  /\ target' = [target EXCEPT ![cur[t]] = TargetOf[cur[t]]]
  /\ UNCHANGED <<cur, callVars, code, handles, result, installs, orig, item, proto>>

StoreOriginal(t) ==
  /\ ReturnHandle(t, "store2")
  /\ orig' = [orig EXCEPT ![cur[t]] = proto[t]]
  /\ UNCHANGED <<cur, callVars, code, installs, target, item, proto>>

(***************************************************************************)
(* FunctionHook::uninstall.                                                *)
(***************************************************************************)
NotInstalled(t) ==
  /\ Return(t, "check", "NotInstalled")
  /\ target[cur[t]] = NoPtr
  /\ UNCHANGED <<cur, callVars, code, handles, installs, cellVars>>

\* Slip: `original` is taken out before the method is restored.
LoadAndClear(t) ==
  /\ Goto(t, "check", "unhook")
  /\ target[cur[t]] # NoPtr
  /\ orig' = [orig EXCEPT ![cur[t]] = NoPtr]
  /\ UNCHANGED <<cur, callVars, code, handles, result, installs, target, item, proto>>

LoadTarget(t) ==
  /\ Goto(t, "check", "unhook")
  /\ target[cur[t]] # NoPtr
  /\ UNCHANGED <<cur, callVars, code, handles, result, installs, cellVars>>

inlineUnHook(t) ==
  LET m == TargetOf[cur[t]] IN
  /\ Goto(t, "unhook", "clear")
  /\ code[m] # Orig
  /\ code' = [code EXCEPT ![m] = Orig]
  /\ item' = [item EXCEPT ![m] = NoPtr]
  /\ UNCHANGED <<cur, callVars, handles, result, installs, target, orig, proto>>

\* Slip: the status of inlineUnHook is not looked at.
inlineUnHookIgnored(t) ==
  /\ Goto(t, "unhook", "clear")
  /\ UNCHANGED <<cur, callVars, code, handles, result, installs, cellVars>>

inlineUnHookFails(t) ==
  /\ Return(t, "unhook", "Failed")
  /\ UNCHANGED <<cur, callVars, code, handles, installs, cellVars>>

\* Slip: only `original` is reset.
KeepTarget(t) ==
  /\ Goto(t, "clear", "clear2")
  /\ UNCHANGED <<cur, callVars, code, handles, result, installs, cellVars>>

ClearTarget(t) ==
  /\ Goto(t, "clear", "clear2")
  /\ target' = [target EXCEPT ![cur[t]] = NoPtr]
  /\ UNCHANGED <<cur, callVars, code, handles, result, installs, orig, item, proto>>

ClearOriginal(t) ==
  /\ Return(t, "clear2", "Removed")
  /\ orig' = [orig EXCEPT ![cur[t]] = NoPtr]
  /\ UNCHANGED <<cur, callVars, code, handles, installs, target, item, proto>>

-----------------------------------------------------------------------------
Next ==
  \/ ClientStep(is_installed, original) /\ UNCHANGED cellVars
  \/ \E t \in Installer :
       \/ InstallFails(t)
       \/ registerInlineHook(t)
       \/ inlineHook(t)
       \/ StoreTarget(t)
       \/ StoreOriginal(t)
       \/ NotInstalled(t)
       \/ LoadTarget(t)
       \/ inlineUnHook(t)
       \/ inlineUnHookFails(t)
       \/ ClearTarget(t)
       \/ ClearOriginal(t)

Spec == Init /\ [][Next]_vars

-----------------------------------------------------------------------------
(***************************************************************************)
(* What the backend shows of the contract in HookContract.                 *)
(***************************************************************************)
OrderlyHook == {h \in Hook : TargetOf[h] \in Orderly}

phase ==
  [h \in OrderlyHook |->
     CASE Publishing(h) -> "publishing"
       [] Uninstalling(h) -> "removing"
       [] ~Publishing(h) /\ ~Uninstalling(h) /\ is_installed(h) -> "installed"
       [] OTHER -> "absent"]

inside == [c \in Caller |-> {h \in OrderlyHook : Inside(c, h)}]

Contract == INSTANCE HookContract WITH
  Hook <- OrderlyHook, handles <- [h \in OrderlyHook |-> handles[h]]

(***************************************************************************)
(* For the hooks of methods used in order, and under the uninstall         *)
(* contract, the backend keeps every promise of HookContract: handles come *)
(* only from installs that left the hook in place, a call enters a hook    *)
(* only while it is there and at most once, a hook is cleared only when    *)
(* nobody is inside, and a failed unhook leaves it installed.              *)
(***************************************************************************)
KeepsContract == Contract!Spec

(***************************************************************************)
(* Between operations on a hook of a method used in order, is_installed,   *)
(* which reads `original`, agrees with the method's code, and with         *)
(* `target`, which uninstall reads.                                        *)
(***************************************************************************)
InstalledIsPatched ==
  \A h \in OrderlyHook : Idle(h) =>
    /\ is_installed(h) <=> code[TargetOf[h]] = h
    /\ is_installed(h) <=> target[h] # NoPtr

(***************************************************************************)
(* The library's item for a method makes any install fail while another is *)
(* in force, of the same hook or of another hook of the method, by the     *)
(* same or another thread: no method is patched over a patch.              *)
(***************************************************************************)
NeverPatchedTwice ==
  [][\A m \in Target : code[m] # Orig => code'[m] \in {code[m], Orig}]_vars

(***************************************************************************)
(* A hook that runs, of a method used in order, has an original to call,   *)
(* except while the install that patched its method has not stored the     *)
(* trampoline yet.                                                         *)
(***************************************************************************)
OriginalUnlessPublishing ==
  \A c \in Caller :
    pc[c] = "inhook" /\ cur[c] \in OrderlyHook /\ original(cur[c]) = NoPtr =>
      Publishing(cur[c])
=============================================================================
