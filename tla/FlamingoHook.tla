---------------------------- MODULE FlamingoHook ----------------------------
(***************************************************************************)
(* The flamingo backend (hook_backend/src/aarch64_flamingo.rs): a          *)
(* FunctionHook is a Mutex<Option<InstalledHook>>, locked only to store,   *)
(* take or read the InstalledHook, never around a native call.             *)
(*                                                                         *)
(* External (flamingo, as the backend uses it): a method has a chain of    *)
(* hooks; a call goes through them in order and ends in the method.        *)
(* Installing puts a hook somewhere in the chain (its priority says where) *)
(* or fails; uninstalling takes it out, or reports a RemapFailure and      *)
(* leaves it; `original` of a hook is whatever follows it in the chain.    *)
(***************************************************************************)
EXTENDS HookClient, Sequences, SequencesExt

CONSTANT Stubborn   \* methods whose uninstalls may report a RemapFailure

ASSUME FlamingoAssumption == Stubborn \subseteq Target

VARIABLES
  chain,      \* the InstalledHooks on each method, outermost first
  installed,  \* each hook's Option<InstalledHook>: <<>> or <<i>>
  held,       \* the InstalledHook a thread has on its stack
  made        \* how many InstalledHooks there have been

cellVars == <<chain, installed, held, made>>
vars == <<clientVars, cellVars>>

InstalledHook == [hook : Hook, id : 1..MaxInstalls]

None == <<>>
Option == {None} \cup {<<i>> : i \in InstalledHook}

TypeOK ==
  /\ ClientTypeOK
  /\ chain \in [Target -> Seq(InstalledHook)]
  /\ installed \in [Hook -> Option]
  /\ held \in [Installer -> Option]
  /\ made \in 0..MaxInstalls

Init ==
  /\ ClientInit
  /\ chain = [m \in Target |-> <<>>]
  /\ installed = [h \in Hook |-> None]
  /\ held = [t \in Installer |-> None]
  /\ made = 0

is_installed(h) == installed[h] # None

\* Where a call goes from position k of a method's chain.
Step(m, k) == IF k \in DOMAIN chain[m] THEN chain[m][k].hook ELSE Orig

Position(i) ==
  CHOOSE k \in DOMAIN chain[TargetOf[i.hook]] : chain[TargetOf[i.hook]][k] = i

\* Slip: the hook itself instead of what follows it.
originalIsSelf(h) ==
  IF installed[h] = None THEN NoPtr
  ELSE Step(TargetOf[h], Position(installed[h][1]))

original(h) ==
  IF installed[h] = None THEN NoPtr
  ELSE Step(TargetOf[h], Position(installed[h][1]) + 1)

\* The native library makes the method lead to the first hook of its chain.
SetChain(m, s) ==
  /\ chain' = [chain EXCEPT ![m] = s]
  /\ code' = [code EXCEPT ![m] = IF s = <<>> THEN Orig ELSE s[1].hook]

-----------------------------------------------------------------------------
\* Slip: the status of the native install is not looked at.
InstallIgnoresStatus(t) ==
  /\ ReturnHandle(t, "patch")
  /\ UNCHANGED <<cur, callVars, code, installs, cellVars>>

(***************************************************************************)
(* FunctionHook::install: names and filters to native ones, the native     *)
(* install, and only then, under the lock, the cell.                       *)
(***************************************************************************)
InstallFails(t) ==
  /\ Return(t, "patch", "InstallError")
  /\ UNCHANGED <<cur, callVars, code, handles, installs, cellVars>>

NativeInstall(t) ==
  LET m == TargetOf[cur[t]]
      i == [hook |-> cur[t], id |-> made + 1]
  IN
  /\ Goto(t, "patch", "store")
  /\ \E k \in 1..Len(chain[m]) + 1 : SetChain(m, InsertAt(chain[m], k, i))
  /\ held' = [held EXCEPT ![t] = <<i>>]
  /\ made' = made + 1
  /\ UNCHANGED <<cur, callVars, handles, result, installs, installed>>

\* The InstalledHook that was in the cell, if any, is dropped.
StoreInstalled(t) ==
  /\ ReturnHandle(t, "store")
  /\ installed' = [installed EXCEPT ![cur[t]] = held[t]]
  /\ held' = [held EXCEPT ![t] = None]
  /\ UNCHANGED <<cur, callVars, code, installs, chain, made>>

(***************************************************************************)
(* FunctionHook::uninstall: the cell is emptied under the lock before the  *)
(* native library is asked, and stays empty whatever it answers.           *)
(***************************************************************************)
NotInstalled(t) ==
  /\ Return(t, "check", "NotInstalled")
  /\ installed[cur[t]] = None
  /\ UNCHANGED <<cur, callVars, code, handles, installs, cellVars>>

Take(t) ==
  /\ Goto(t, "check", "unhook")
  /\ installed[cur[t]] # None
  /\ held' = [held EXCEPT ![t] = installed[cur[t]]]
  /\ installed' = [installed EXCEPT ![cur[t]] = None]
  /\ UNCHANGED <<cur, callVars, code, handles, result, installs, chain, made>>

\* Slips: the first hook of the chain is removed; none is.
NativeRemovesFirst(t) ==
  /\ Return(t, "unhook", "Removed")
  /\ SetChain(TargetOf[cur[t]], Tail(chain[TargetOf[cur[t]]]))
  /\ held' = [held EXCEPT ![t] = None]
  /\ UNCHANGED <<cur, callVars, handles, installs, installed, made>>

NativeRemovesNone(t) ==
  /\ Return(t, "unhook", "Removed")
  /\ held' = [held EXCEPT ![t] = None]
  /\ UNCHANGED <<cur, callVars, code, handles, installs, chain, installed, made>>

NativeRemoved(t) ==
  LET m == TargetOf[cur[t]] IN
  /\ Return(t, "unhook", "Removed")
  /\ SetChain(m, RemoveAt(chain[m], Position(held[t][1])))
  /\ held' = [held EXCEPT ![t] = None]
  /\ UNCHANGED <<cur, callVars, handles, installs, installed, made>>

RemapFailure(t) ==
  /\ Return(t, "unhook", "Failed")
  /\ TargetOf[cur[t]] \in Stubborn
  /\ held' = [held EXCEPT ![t] = None]
  /\ UNCHANGED <<cur, callVars, code, handles, installs, chain, installed, made>>

-----------------------------------------------------------------------------
Next ==
  \/ ClientStep(is_installed, original) /\ UNCHANGED cellVars
  \/ \E t \in Installer :
       \/ InstallFails(t)
       \/ NativeInstall(t)
       \/ StoreInstalled(t)
       \/ NotInstalled(t)
       \/ Take(t)
       \/ NativeRemoved(t)
       \/ RemapFailure(t)

Spec == Init /\ [][Next]_vars

-----------------------------------------------------------------------------
(***************************************************************************)
(* What the backend shows of the contract in HookContract: of the hooks of *)
(* the methods used in order and not stubborn.                             *)
(***************************************************************************)
KeptHook == {h \in Hook : TargetOf[h] \in Orderly \ Stubborn}

phase ==
  [h \in KeptHook |->
     CASE Publishing(h) -> "publishing"
       [] Uninstalling(h) -> "removing"
       [] ~Publishing(h) /\ ~Uninstalling(h) /\ is_installed(h) -> "installed"
       [] OTHER -> "absent"]

inside == [c \in Caller |-> {h \in KeptHook : Inside(c, h)}]

Contract == INSTANCE HookContract WITH
  Hook <- KeptHook, handles <- [h \in KeptHook |-> handles[h]]

(***************************************************************************)
(* Several hooks share a method, installed and uninstalled in any order,   *)
(* one operation after the other and under the uninstall contract; while   *)
(* the native library reports no RemapFailure the backend keeps every      *)
(* promise of HookContract.                                                *)
(***************************************************************************)
KeepsContract == Contract!Spec

(***************************************************************************)
(* Between operations on a hook, one that says it is installed is in the   *)
(* chain of its method, whatever raced and whatever uninstall failed:      *)
(* removing one hook leaves the others in place (HookHandle, hook.rs:63,   *)
(* "independently of any other hooks sharing its target").  Where nothing  *)
(* raced or failed, only those are in it.                                  *)
(***************************************************************************)
InstalledIsChained ==
  \A h \in Hook : Idle(h) =>
    LET chained == \E k \in DOMAIN chain[TargetOf[h]] : Step(TargetOf[h], k) = h
    IN /\ is_installed(h) => chained
       /\ h \in KeptHook /\ chained => is_installed(h)

(***************************************************************************)
(* Following the chain of a method whose hooks are kept, a call comes to   *)
(* no hook twice, whatever was inserted or removed on the way.             *)
(***************************************************************************)
KeptHooksChain ==
  \A c \in Caller :
    pc[c] = "jump" /\ at[c] \in KeptHook => at[c] \notin ran[c]

(***************************************************************************)
(* A kept hook that runs has an original to call, except while the install *)
(* that patched its method has not stored the InstalledHook yet.           *)
(***************************************************************************)
OriginalUnlessPublishing ==
  \A c \in Caller :
    pc[c] = "inhook" /\ cur[c] \in KeptHook /\ original(cur[c]) = NoPtr =>
      Publishing(cur[c])
=============================================================================
