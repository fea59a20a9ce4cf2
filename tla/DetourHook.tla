----------------------------- MODULE DetourHook -----------------------------
(***************************************************************************)
(* The `retour` backend (hook_backend/src/detour.rs): a FunctionHook is a  *)
(* OnceLock<RawDetour>, written at most once.                              *)
(*                                                                         *)
(* External (the retour crate, as detour.rs uses it): RawDetour::new reads *)
(* the target's current first instructions into a trampoline; enable       *)
(* writes a jump to the hook over them; disable, and dropping an enabled   *)
(* detour, write the saved instructions back.  Each may fail and then      *)
(* changes nothing.                                                        *)
(***************************************************************************)
EXTENDS HookClient

CONSTANT NoDetour   \* an empty OnceLock

RawDetour == [saved : Entry, enabled : BOOLEAN]

ASSUME DetourAssumption == NoDetour \notin RawDetour

VARIABLES
  detour,   \* each hook's OnceLock
  new       \* the RawDetour an installer holds on its stack

vars == <<clientVars, detour, new>>

TypeOK ==
  /\ ClientTypeOK
  /\ detour \in [Hook -> RawDetour \cup {NoDetour}]
  /\ new \in [Installer -> RawDetour]

Init ==
  /\ ClientInit
  /\ detour = [h \in Hook |-> NoDetour]
  /\ new = [t \in Installer |-> [saved |-> Orig, enabled |-> FALSE]]

is_installed(h) == detour[h] # NoDetour /\ detour[h].enabled

original(h) == IF detour[h] = NoDetour THEN NoPtr ELSE detour[h].saved

-----------------------------------------------------------------------------
(***************************************************************************)
(* FunctionHook::install: RawDetour::new, enable, OnceLock::set.           *)
(***************************************************************************)
InstallFails(t) ==
  /\ \E from \in {"patch", "enable"} : Return(t, from, "InstallError")
  /\ UNCHANGED <<cur, callVars, code, handles, installs, detour, new>>

NewDetour(t) ==
  /\ Goto(t, "patch", "enable")
  /\ new' = [new EXCEPT ![t] = [saved |-> code[TargetOf[cur[t]]], enabled |-> FALSE]]
  /\ UNCHANGED <<cur, callVars, code, handles, result, installs, detour>>

\* Slip: the trampoline is made from the method after it was patched.
EnableThenSave(t) ==
  /\ Goto(t, "enable", "store")
  /\ code' = [code EXCEPT ![TargetOf[cur[t]]] = cur[t]]
  /\ new' = [new EXCEPT ![t] = [saved |-> cur[t], enabled |-> TRUE]]
  /\ UNCHANGED <<cur, callVars, handles, result, installs, detour>>

Enable(t) ==
  /\ Goto(t, "enable", "store")
  /\ code' = [code EXCEPT ![TargetOf[cur[t]]] = cur[t]]
  /\ new' = [new EXCEPT ![t].enabled = TRUE]
  /\ UNCHANGED <<cur, callVars, handles, result, installs, detour>>

SetCell(t) ==
  /\ ReturnHandle(t, "store")
  /\ detour[cur[t]] = NoDetour
  /\ detour' = [detour EXCEPT ![cur[t]] = new[t]]
  /\ UNCHANGED <<cur, callVars, code, installs, new>>

\* The cell is taken: `set` gives the detour back, `.ok()` drops it, which
\* disables it, and install still returns true.
SetCellTaken(t) ==
  /\ ReturnHandle(t, "store")
  /\ detour[cur[t]] # NoDetour
  /\ code' = [code EXCEPT ![TargetOf[cur[t]]] = new[t].saved]
  /\ new' = [new EXCEPT ![t].enabled = FALSE]
  /\ UNCHANGED <<cur, callVars, installs, detour>>

(***************************************************************************)
(* FunctionHook::uninstall.  The cell keeps its detour.                    *)
(***************************************************************************)
NotInstalled(t) ==
  /\ Return(t, "check", "NotInstalled")
  /\ ~is_installed(cur[t])
  /\ UNCHANGED <<cur, callVars, code, handles, installs, detour, new>>

CheckEnabled(t) ==
  /\ Goto(t, "check", "unhook")
  /\ is_installed(cur[t])
  /\ UNCHANGED <<cur, callVars, code, handles, result, installs, detour, new>>

\* Slips: the flag of the cell's detour is not reset; the cell is emptied.
DisableKeepsFlag(t) ==
  /\ Return(t, "unhook", "Removed")
  /\ code' = [code EXCEPT ![TargetOf[cur[t]]] = detour[cur[t]].saved]
  /\ UNCHANGED <<cur, callVars, handles, installs, detour, new>>

DisableEmptiesCell(t) ==
  /\ Return(t, "unhook", "Removed")
  /\ is_installed(cur[t])
  /\ detour' = [detour EXCEPT ![cur[t]] = NoDetour]
  /\ code' = [code EXCEPT ![TargetOf[cur[t]]] = detour[cur[t]].saved]
  /\ UNCHANGED <<cur, callVars, handles, installs, new>>

\* Disabling a detour that another thread disabled meanwhile does nothing.
Disable(t) ==
  /\ Return(t, "unhook", "Removed")
  /\ detour' = [detour EXCEPT ![cur[t]].enabled = FALSE]
  /\ code' = IF is_installed(cur[t])
               THEN [code EXCEPT ![TargetOf[cur[t]]] = detour[cur[t]].saved]
               ELSE code
  /\ UNCHANGED <<cur, callVars, handles, installs, new>>

DisableFails(t) ==
  /\ Return(t, "unhook", "Failed")
  /\ UNCHANGED <<cur, callVars, code, handles, installs, detour, new>>

-----------------------------------------------------------------------------
Next ==
  \/ ClientStep(is_installed, original) /\ UNCHANGED <<detour, new>>
  \/ \E t \in Installer :
       \/ InstallFails(t)
       \/ NewDetour(t)
       \/ Enable(t)
       \/ SetCell(t)
       \/ SetCellTaken(t)
       \/ NotInstalled(t)
       \/ CheckEnabled(t)
       \/ Disable(t)
       \/ DisableFails(t)

Spec == Init /\ [][Next]_vars

(***************************************************************************)
(* The operating system runs a thread that is inside a call, and the body  *)
(* of a hook ends; nothing makes a thread start a call or an operation.    *)
(***************************************************************************)
FairSpec == Spec /\ \A c \in Caller : WF_vars(Continue(c, original) /\ UNCHANGED <<detour, new>>)

-----------------------------------------------------------------------------
(***************************************************************************)
(* Between operations on a hook that has its method for itself, as         *)
(* detour.rs:9 asks, is_installed answers exactly whether the method leads *)
(* to it: through reinstalls, failed enables and failed disables.          *)
(***************************************************************************)
InstalledIsPatched ==
  \A h \in Hook : Alone(h) /\ Idle(h) => (is_installed(h) <=> code[TargetOf[h]] = h)

(***************************************************************************)
(* A hook that runs has an original to call, except while the install that *)
(* patched its method has not stored the detour yet.                       *)
(***************************************************************************)
OriginalUnlessPublishing ==
  \A c \in Caller :
    pc[c] = "inhook" /\ original(cur[c]) = NoPtr => Publishing(cur[c])

(***************************************************************************)
(* `install` redirects the target, "returning true on success"             *)
(* (detour.rs:24): when it returns true the hook is installed.             *)
(***************************************************************************)
OkMeansInstalled ==
  [][\A t \in Installer :
       pc[t] = "store" /\ pc'[t] = "idle" => is_installed(cur[t])']_vars

(***************************************************************************)
(* A call of a hooked method returns, however many hooks share the method  *)
(* and whatever is installed and uninstalled meanwhile.                    *)
(***************************************************************************)
CallsReturn == \A c \in Caller : pc[c] # "idle" ~> pc[c] = "idle" \/ aborted
=============================================================================
