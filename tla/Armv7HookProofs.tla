--------------------------- MODULE Armv7HookProofs ---------------------------
(***************************************************************************)
(* Proofs about the Android-Inline-Hook backend, for any hooks, methods    *)
(* and threads, whether or not they take turns.                            *)
(***************************************************************************)
EXTENDS Armv7Hook, HookClientProofs

Backend(t) ==
  \/ InstallFails(t) \/ registerInlineHook(t) \/ inlineHook(t) \/ StoreTarget(t)
  \/ StoreOriginal(t) \/ NotInstalled(t) \/ LoadTarget(t) \/ inlineUnHook(t)
  \/ inlineUnHookFails(t) \/ ClearTarget(t) \/ ClearOriginal(t)

LEMMA InitType == Init => TypeOK
BY ClientInitType DEF Init, TypeOK

\* The library, its items and the two cells: what a step of the backend does.
LEMMA BackendType ==
  ASSUME TypeOK, NEW t \in Installer, Backend(t)
  PROVE  TypeOK'
<1> USE DEF TypeOK
<1>1. cur[t] \in Hook /\ TargetOf[cur[t]] \in Target
  BY HookAssumption DEF ClientTypeOK, Thread, Backend, InstallFails, registerInlineHook, inlineHook,
     StoreTarget, StoreOriginal, NotInstalled, LoadTarget, inlineUnHook, inlineUnHookFails,
     ClearTarget, ClearOriginal, ReturnHandle, Return, Goto
<1>2. code' \in [Target -> Entry]
  BY <1>1 DEF ClientTypeOK, Entry, Backend, InstallFails, registerInlineHook, inlineHook, StoreTarget,
     StoreOriginal, NotInstalled, LoadTarget, inlineUnHook, inlineUnHookFails, ClearTarget,
     ClearOriginal
<1>3. /\ target' \in [Hook -> Target \cup {NoPtr}]
      /\ orig' \in [Hook -> Entry \cup {NoPtr}]
      /\ item' \in [Target -> Hook \cup {NoPtr}]
      /\ proto' \in [Installer -> Entry \cup {NoPtr}]
  BY <1>1 DEF ClientTypeOK, Backend, InstallFails, registerInlineHook, inlineHook, StoreTarget,
     StoreOriginal, NotInstalled, LoadTarget, inlineUnHook, inlineUnHookFails, ClearTarget,
     ClearOriginal, cellVars
<1>4. ClientTypeOK'
  <2> USE <1>2, BackendKeepsType DEF InstallerPC, InstallResult, UninstallResult
  <2>1. CASE registerInlineHook(t) \/ inlineHook(t) \/ StoreTarget(t)
    BY <2>1 DEF registerInlineHook, inlineHook, StoreTarget
  <2>2. CASE LoadTarget(t) \/ inlineUnHook(t) \/ ClearTarget(t)
    BY <2>2 DEF LoadTarget, inlineUnHook, ClearTarget
  <2>3. CASE StoreOriginal(t)
    BY <2>3 DEF StoreOriginal
  <2>4. CASE NotInstalled(t) \/ inlineUnHookFails(t) \/ ClearOriginal(t)
    BY <2>4 DEF NotInstalled, inlineUnHookFails, ClearOriginal
  <2>5. CASE InstallFails(t)
    BY <2>5 DEF InstallFails
  <2>6. QED
    BY <2>1, <2>2, <2>3, <2>4, <2>5 DEF Backend
<1>5. QED
  BY <1>3, <1>4

LEMMA NextType == TypeOK /\ [Next]_vars => TypeOK'
<1> SUFFICES ASSUME TypeOK, [Next]_vars PROVE TypeOK'
  OBVIOUS
<1>1. ASSUME ClientStep(is_installed, original), UNCHANGED cellVars
      PROVE  TypeOK'
  <2>1. ASSUME NEW c \in Caller, Continue(c, original) \/ \E m \in Target : Call(c, m)
        PROVE  ClientTypeOK'
    BY <2>1, CallerKeepsType DEF TypeOK, Continue
  <2>2. ASSUME NEW t \in Installer, Install(t, is_installed) \/ \E h \in Hook : UninstallBegin(t, h)
        PROVE  ClientTypeOK'
    BY <2>2, InstallerKeepsType DEF TypeOK, Install
  <2>3. QED
    BY <1>1, <2>1, <2>2 DEF TypeOK, ClientStep, cellVars
<1>2. CASE UNCHANGED vars
  BY <1>2 DEF vars, clientVars, cellVars, TypeOK, ClientTypeOK
<1>3. QED
  BY <1>1, <1>2, BackendType DEF Next, Backend

(***************************************************************************)
(* The Android-Inline-Hook backend's state keeps its types.                *)
(***************************************************************************)
THEOREM TypeCorrect == Spec => []TypeOK
<1>1. TypeOK /\ [Next]_vars => TypeOK'
  BY NextType
<1>2. QED
  BY InitType, <1>1, PTL DEF Spec

-----------------------------------------------------------------------------
(***************************************************************************)
(* A patched method is registered; so is, and not yet patched, the method  *)
(* an installer is about to patch, which no other installer is about to.   *)
(***************************************************************************)
Registered ==
  /\ \A m \in Target : code[m] # Orig => item[m] # NoPtr
  /\ \A t \in Installer : pc[t] = "enable" =>
       item[TargetOf[cur[t]]] # NoPtr /\ code[TargetOf[cur[t]]] = Orig
  /\ \A t, u \in Installer :
       pc[t] = "enable" /\ pc[u] = "enable" /\ TargetOf[cur[t]] = TargetOf[cur[u]] => t = u

IInv == TypeOK /\ Registered

\* A step that patches, registers and restores nothing.
Quiet(t) ==
  /\ UNCHANGED <<code, item>>
  /\ \A u \in Thread \ {t} : pc'[u] = pc[u] /\ cur'[u] = cur[u]
  /\ pc'[t] # "enable" \/ t \in Caller

LEMMA StepCases ==
  ASSUME TypeOK, Next
  PROVE  \/ \E t \in Thread : Quiet(t)
         \/ \E t \in Installer : registerInlineHook(t) \/ inlineHook(t) \/ inlineUnHook(t)
<1>1. ASSUME NEW t \in Installer, Install(t, is_installed) \/ \E h \in Hook : UninstallBegin(t, h),
             UNCHANGED cellVars
      PROVE  Quiet(t)
  BY <1>1, InstallerMoves DEF TypeOK, Install, Quiet, cellVars
<1>2. ASSUME NEW c \in Caller, Continue(c, original) \/ \E m \in Target : Call(c, m),
             UNCHANGED cellVars
      PROVE  Quiet(c)
  BY <1>2, CallerMoves DEF TypeOK, Continue, Quiet, cellVars
<1>3. ASSUME NEW t \in Installer,
             \/ InstallFails(t) \/ StoreTarget(t) \/ StoreOriginal(t) \/ NotInstalled(t)
             \/ LoadTarget(t) \/ inlineUnHookFails(t) \/ ClearTarget(t) \/ ClearOriginal(t)
      PROVE  Quiet(t)
  BY <1>3 DEF TypeOK, ClientTypeOK, Thread, InstallFails, StoreTarget, StoreOriginal, NotInstalled,
     LoadTarget, inlineUnHookFails, ClearTarget, ClearOriginal, ReturnHandle, Return, Goto, Quiet,
     cellVars
<1>4. QED
  BY <1>1, <1>2, <1>3 DEF Next, ClientStep, Thread

LEMMA InitRegistered == Init => Registered
BY DEF Init, ClientInit, Registered, Thread

LEMMA NextRegistered == IInv /\ [Next]_vars => Registered'
<1> SUFFICES ASSUME IInv, [Next]_vars PROVE Registered'
  OBVIOUS
<1> USE HookAssumption DEF IInv, TypeOK, ClientTypeOK, Thread
<1>1. ASSUME NEW t \in Thread, Quiet(t)
      PROVE  Registered'
  BY <1>1 DEF Quiet, Registered
<1>2. ASSUME NEW t \in Installer, registerInlineHook(t)
      PROVE  Registered'
  <2>1. /\ cur[t] \in Hook /\ TargetOf[cur[t]] \in Target /\ item[TargetOf[cur[t]]] = NoPtr
        /\ pc' = [pc EXCEPT ![t] = "enable"]
        /\ item' = [item EXCEPT ![TargetOf[cur[t]]] = cur[t]]
        /\ UNCHANGED <<cur, code>>
    BY <1>2 DEF registerInlineHook, Goto
  <2>2. QED
    BY <2>1 DEF Registered
<1>3. ASSUME NEW t \in Installer, inlineHook(t)
      PROVE  Registered'
  <2>1. /\ cur[t] \in Hook /\ TargetOf[cur[t]] \in Target
        /\ pc[t] = "enable" /\ pc' = [pc EXCEPT ![t] = "store"]
        /\ code' = [code EXCEPT ![TargetOf[cur[t]]] = cur[t]]
        /\ UNCHANGED <<cur, item>>
    BY <1>3 DEF inlineHook, Goto, cellVars
  <2>2. QED
    BY <2>1 DEF Registered
<1>4. ASSUME NEW t \in Installer, inlineUnHook(t)
      PROVE  Registered'
  <2>1. /\ cur[t] \in Hook /\ TargetOf[cur[t]] \in Target /\ code[TargetOf[cur[t]]] # Orig
        /\ pc' = [pc EXCEPT ![t] = "clear"]
        /\ code' = [code EXCEPT ![TargetOf[cur[t]]] = Orig]
        /\ item' = [item EXCEPT ![TargetOf[cur[t]]] = NoPtr]
        /\ UNCHANGED cur
    BY <1>4 DEF inlineUnHook, Goto
  <2>2. QED
    BY <2>1 DEF Registered
<1>5. CASE UNCHANGED vars
  BY <1>5 DEF vars, clientVars, cellVars, Registered
<1>6. QED
  BY <1>1, <1>2, <1>3, <1>4, <1>5, StepCases

(***************************************************************************)
(* No method is patched over a patch, however many threads install however *)
(* many hooks on it: the library's item refuses the second registration    *)
(* until an unhook has restored the method.                                *)
(***************************************************************************)
THEOREM NoSecondPatch == Spec => NeverPatchedTwice
<1>1. ASSUME IInv, Next
      PROVE  \A m \in Target : code[m] # Orig => code'[m] \in {code[m], Orig}
  <2>1. ASSUME NEW t \in Installer, registerInlineHook(t) \/ inlineHook(t) \/ inlineUnHook(t)
        PROVE  \A m \in Target : code[m] # Orig => code'[m] \in {code[m], Orig}
    BY <1>1, <2>1, HookAssumption DEF IInv, TypeOK, ClientTypeOK, Thread, Registered,
       registerInlineHook, inlineHook, inlineUnHook, Goto
  <2>2. QED
    BY <1>1, <2>1, StepCases DEF IInv, Quiet
<1>2. IInv /\ [Next]_vars => IInv'
  BY NextType, NextRegistered DEF IInv
<1>3. Init => IInv
  BY InitType, InitRegistered DEF IInv
<1>4. IInv /\ [Next]_vars => [\A m \in Target : code[m] # Orig => code'[m] \in {code[m], Orig}]_vars
  BY <1>1
<1>5. QED
  BY <1>2, <1>3, <1>4, PTL DEF Spec, NeverPatchedTwice

-----------------------------------------------------------------------------
(***************************************************************************)
(* From here on, the methods the program takes turns on.  Row(h, p) is the *)
(* line of a table: what the two pointers of h, its method's code and its  *)
(* handles are while the one thread that operates on h is at p, and, at    *)
(* "idle", while none does.                                                *)
(***************************************************************************)
Patched(h) == code[TargetOf[h]] = h

Row(h, p) ==
  /\ p = "idle" => (is_installed(h) <=> Patched(h)) /\ (is_installed(h) <=> target[h] # NoPtr)
  /\ p \in {"lookup", "patch", "enable"} => ~is_installed(h) /\ target[h] = NoPtr /\ ~Patched(h)
  /\ p = "store" => ~is_installed(h) /\ target[h] = NoPtr /\ Patched(h)
  /\ p = "store2" => ~is_installed(h) /\ target[h] # NoPtr /\ Patched(h)
  /\ p \in {"check", "unhook"} => is_installed(h) /\ target[h] # NoPtr /\ Patched(h)
  /\ p = "clear" => is_installed(h) /\ target[h] # NoPtr /\ ~Patched(h)
  /\ p = "clear2" => is_installed(h) /\ target[h] = NoPtr /\ ~Patched(h)
  /\ handles[h] \in {0, 1}
  /\ handles[h] = 1 => p = "idle" /\ is_installed(h)

Rows ==
  \A h \in OrderlyHook :
    /\ Idle(h) => Row(h, "idle")
    /\ \A t \in Installer : cur[t] = h /\ pc[t] # "idle" => Row(h, pc[t])

(***************************************************************************)
(* A patch leads to a hook of the method, and, because no method is        *)
(* patched over a patch, a trampoline leads to the method itself.          *)
(***************************************************************************)
OwnPatch == \A m \in Target : code[m] # Orig => TargetOf[code[m]] = m

ToMethod ==
  /\ \A t \in Installer : pc[t] \in {"enable", "store", "store2"} => proto[t] = Orig
  /\ \A h \in Hook : orig[h] \in {NoPtr, Orig}

(***************************************************************************)
(* What an installer's step is, and that it is the only operation on its   *)
(* hook's method.                                                          *)
(***************************************************************************)
Installs(t) ==
  \/ Install(t, is_installed) /\ UNCHANGED cellVars
  \/ (\E h \in Hook : UninstallBegin(t, h)) /\ UNCHANGED cellVars
  \/ Backend(t)

Calls(c) ==
  /\ Continue(c, original) \/ \E m \in Target : Call(c, m)
  /\ UNCHANGED cellVars

LEMMA StepOf ==
  ASSUME [Next]_vars
  PROVE  (\E t \in Installer : Installs(t)) \/ (\E c \in Caller : Calls(c)) \/ UNCHANGED vars
BY DEF Next, ClientStep, Installs, Calls, Backend

LEMMA OnlyOneMoves ==
  ASSUME TypeOK, NEW t \in Installer, Installs(t)
  PROVE  Operates(t)
<1> USE HookAssumption DEF TypeOK, ClientTypeOK, Thread, Operates
<1>1. CASE Install(t, is_installed)
  BY <1>1 DEF Install, InstallRefused, InstallBegin, LookupFails, LookupSucceeds, Return, Goto,
     callVars
<1>2. CASE \E h \in Hook : UninstallBegin(t, h)
  BY <1>2 DEF UninstallBegin, Goto, callVars
<1>3. CASE Backend(t)
  BY <1>3 DEF Backend, InstallFails, registerInlineHook, inlineHook, StoreTarget, StoreOriginal,
     NotInstalled, LoadTarget, inlineUnHook, inlineUnHookFails, ClearTarget, ClearOriginal,
     ReturnHandle, Return, Goto, callVars
<1>4. QED
  BY <1>1, <1>2, <1>3 DEF Installs

LEMMA NextOneATime ==
  ASSUME TypeOK, OneATime, [Next]_vars
  PROVE  OneATime'
<1>1. ASSUME NEW t \in Installer, Installs(t)
      PROVE  OneATime'
  BY <1>1, OnlyOneMoves, OneATimeKept
<1>2. ASSUME NEW c \in Caller, Calls(c)
      PROVE  OneATime'
  <2>1. \A u \in Installer : pc'[u] = pc[u] /\ cur'[u] = cur[u]
    BY <1>2, CallerMoves, HookAssumption DEF TypeOK, Calls, Continue, Thread
  <2>2. QED
    BY <2>1, OneATimeKept
<1>3. CASE UNCHANGED vars
  BY <1>3, OneATimeKept DEF vars, clientVars
<1>4. QED
  BY <1>1, <1>2, <1>3, StepOf

LEMMA NextOwnPatch ==
  ASSUME TypeOK, OwnPatch, [Next]_vars
  PROVE  OwnPatch'
<1> USE HookAssumption DEF TypeOK, ClientTypeOK, Thread
<1>1. CASE UNCHANGED code
  BY <1>1 DEF OwnPatch
<1>2. ASSUME NEW t \in Installer, inlineHook(t)
      PROVE  OwnPatch'
  BY <1>2 DEF OwnPatch, inlineHook, Goto
<1>3. ASSUME NEW t \in Installer, inlineUnHook(t)
      PROVE  OwnPatch'
  BY <1>3 DEF OwnPatch, inlineUnHook, Goto
<1>4. QED
  BY <1>1, <1>2, <1>3, StepCases DEF Quiet, registerInlineHook, vars, clientVars

LEMMA NextToMethod ==
  ASSUME IInv, ToMethod, [Next]_vars
  PROVE  ToMethod'
<1> USE HookAssumption DEF IInv, TypeOK, ClientTypeOK, Thread
<1>1. ASSUME NEW t \in Installer, Installs(t), UNCHANGED <<orig, proto>>,
             pc[t] \in {"enable", "store", "store2"} \/ pc'[t] \notin {"enable", "store", "store2"}
      PROVE  ToMethod'
  BY <1>1, OnlyOneMoves DEF Operates, ToMethod
<1>2. ASSUME NEW t \in Installer, registerInlineHook(t)
      PROVE  ToMethod'
  <2>1. code[TargetOf[cur[t]]] = Orig
    BY <1>2 DEF registerInlineHook, Goto, Registered
  <2>2. QED
    BY <1>2, <2>1 DEF registerInlineHook, Goto, ToMethod
<1>3. ASSUME NEW t \in Installer, StoreOriginal(t)
      PROVE  ToMethod'
  BY <1>3 DEF StoreOriginal, ReturnHandle, Return, Goto, ToMethod
<1>4. ASSUME NEW t \in Installer, ClearOriginal(t)
      PROVE  ToMethod'
  BY <1>4 DEF ClearOriginal, Return, Goto, ToMethod
<1>5. ASSUME NEW t \in Installer, Installs(t),
             ~registerInlineHook(t), ~StoreOriginal(t), ~ClearOriginal(t)
      PROVE  /\ UNCHANGED <<orig, proto>>
             /\ \/ pc[t] \in {"enable", "store", "store2"}
                \/ pc'[t] \notin {"enable", "store", "store2"}
  BY <1>5 DEF Installs, Install, InstallRefused, InstallBegin, LookupFails, LookupSucceeds,
     UninstallBegin, Backend, InstallFails, inlineHook, StoreTarget, NotInstalled, LoadTarget,
     inlineUnHook, inlineUnHookFails, ClearTarget, Return, Goto, cellVars
<1>6. ASSUME NEW c \in Caller, Calls(c)
      PROVE  ToMethod'
  <2>1. \A u \in Installer : pc'[u] = pc[u]
    BY <1>6, CallerMoves DEF Calls, Continue
  <2>2. QED
    BY <1>6, <2>1 DEF ToMethod, Calls, cellVars
<1>7. CASE UNCHANGED vars
  BY <1>7 DEF vars, clientVars, cellVars, ToMethod
<1>8. QED
  BY <1>1, <1>2, <1>3, <1>4, <1>5, <1>6, <1>7, StepOf

\* The step of the thread that operates on h goes from one line to another.
LEMMA OwnRow ==
  ASSUME IInv, ToMethod, OwnPatch, NEW t \in Installer, Installs(t), NEW h \in Hook, cur'[t] = h,
         Row(h, pc[t])
  PROVE  Row(h, pc[t])'
<1> USE HookAssumption DEF Row, is_installed, Patched
<1>0. /\ TypeOK /\ ClientTypeOK
      /\ pc[t] \in InstallerPC
      /\ pc[t] # "idle" => cur[t] = h
      /\ pc \in [Thread -> InstallerPC \cup CallerPC] /\ t \in Thread
      /\ cur \in [Thread -> Hook \cup {NoPtr}]
      /\ handles \in [Hook -> Nat]
      /\ target \in [Hook -> Target \cup {NoPtr}]
      /\ orig \in [Hook -> Entry \cup {NoPtr}]
      /\ code \in [Target -> Entry] /\ TargetOf[h] \in Target /\ TargetOf[h] # NoPtr
  BY OnlyOneMoves DEF Operates, IInv, TypeOK, ClientTypeOK, Thread
<1>1. CASE Install(t, is_installed) /\ UNCHANGED cellVars
  BY <1>0, <1>1 DEF Install, InstallRefused, InstallBegin, LookupFails, LookupSucceeds,
     Return, Goto, cellVars
<1>2. ASSUME NEW g \in Hook, UninstallBegin(t, g), UNCHANGED cellVars
      PROVE  Row(h, pc[t])'
  <2>1. g = h /\ pc[t] = "idle" /\ pc'[t] = "check"
    BY <1>0, <1>2 DEF UninstallBegin, Goto
  <2>2. handles[h] = 1 /\ handles'[h] = 0
    BY <1>0, <1>2, <2>1 DEF UninstallBegin
  <2>3. QED
    BY <1>0, <1>2, <2>1, <2>2 DEF UninstallBegin, cellVars
<1>3. CASE InstallFails(t) \/ NotInstalled(t) \/ LoadTarget(t) \/ inlineUnHookFails(t)
  BY <1>0, <1>3 DEF InstallFails, NotInstalled, LoadTarget, inlineUnHookFails, Return, Goto,
     cellVars
<1>4. CASE registerInlineHook(t)
  BY <1>0, <1>4 DEF registerInlineHook, Goto
<1>5. CASE inlineHook(t)
  BY <1>0, <1>5 DEF inlineHook, Goto, cellVars
<1>6. CASE StoreTarget(t)
  BY <1>0, <1>6 DEF StoreTarget, Goto
<1>7. CASE StoreOriginal(t)
  <2>1. pc[t] = "store2" /\ pc'[t] = "idle" /\ orig'[h] = Orig
    BY <1>0, <1>7 DEF StoreOriginal, ReturnHandle, Return, Goto, ToMethod
  <2>2. handles[h] = 0 /\ handles'[h] = 1
    BY <1>0, <1>7, <2>1 DEF StoreOriginal, ReturnHandle
  <2>3. QED
    BY <1>0, <1>7, <2>1, <2>2 DEF StoreOriginal
<1>8. CASE inlineUnHook(t)
  BY <1>0, <1>8 DEF inlineUnHook, Goto
<1>9. CASE ClearTarget(t)
  BY <1>0, <1>9 DEF ClearTarget, Goto
<1>10. CASE ClearOriginal(t)
  BY <1>0, <1>10 DEF ClearOriginal, Return, Goto
<1>11. QED
  BY <1>1, <1>2, <1>3, <1>4, <1>5, <1>6, <1>7, <1>8, <1>9, <1>10 DEF Installs, Backend

(***************************************************************************)
(* It leaves the other hooks' lines as they are: only an uninstall takes a *)
(* patch away, and the patch is then of the hook it uninstalls.            *)
(***************************************************************************)
LEMMA OtherRows ==
  ASSUME IInv, Rows, NEW t \in Installer, Installs(t), NEW h \in OrderlyHook, cur'[t] # h
  PROVE  /\ UNCHANGED <<orig[h], target[h], handles[h]>>
         /\ Patched(h)' <=> Patched(h)
<1> USE HookAssumption DEF IInv, TypeOK, ClientTypeOK, Thread
<1>1. h \in Hook /\ TargetOf[h] \in Orderly
  BY DEF OrderlyHook
<1>2. /\ cur'[t] \in Hook
      /\ pc[t] # "idle" => cur[t] = cur'[t]
  BY OnlyOneMoves DEF Operates
<1>3. UNCHANGED <<orig[h], target[h], handles[h]>>
  <2>1. CASE Install(t, is_installed) /\ UNCHANGED cellVars
    BY <2>1 DEF Install, InstallRefused, InstallBegin, LookupFails, LookupSucceeds, cellVars
  <2>2. CASE (\E g \in Hook : UninstallBegin(t, g)) /\ UNCHANGED cellVars
    BY <2>2 DEF UninstallBegin, cellVars
  <2>3. CASE Backend(t)
    BY <1>1, <1>2, <2>3 DEF Backend, InstallFails, registerInlineHook, inlineHook, StoreTarget,
       StoreOriginal, NotInstalled, LoadTarget, inlineUnHook, inlineUnHookFails, ClearTarget,
       ClearOriginal, ReturnHandle, Return, Goto, cellVars
  <2>4. QED
    BY <2>1, <2>2, <2>3 DEF Installs
<1>4. CASE inlineHook(t)
  BY <1>1, <1>2, <1>3, <1>4 DEF inlineHook, Goto, Registered, Patched
<1>5. CASE inlineUnHook(t)
  <2>1. pc[t] = "unhook" /\ cur[t] # h /\ code' = [code EXCEPT ![TargetOf[cur[t]]] = Orig]
    BY <1>2, <1>5 DEF inlineUnHook, Goto
  <2>2. TargetOf[cur[t]] = TargetOf[h] => code[TargetOf[h]] # h
    BY <1>1, <1>2, <2>1 DEF OrderlyHook, Rows, Row, Patched
  <2>3. QED
    BY <1>1, <1>2, <1>3, <2>1, <2>2 DEF Patched
<1>6. CASE ~inlineHook(t) /\ ~inlineUnHook(t)
  <2>1. UNCHANGED code
    BY <1>6 DEF Installs, Install, InstallRefused, InstallBegin, LookupFails, LookupSucceeds,
       UninstallBegin, Backend, InstallFails, registerInlineHook, StoreTarget, StoreOriginal,
       NotInstalled, LoadTarget, inlineUnHookFails, ClearTarget, ClearOriginal
  <2>2. QED
    BY <1>3, <2>1 DEF Patched
<1>7. QED
  BY <1>3, <1>4, <1>5, <1>6

LEMMA NextRows ==
  ASSUME IInv, OneATime, OwnPatch, ToMethod, Rows, [Next]_vars
  PROVE  Rows'
<1> USE HookAssumption DEF IInv, TypeOK, ClientTypeOK, Thread
<1>1. ASSUME NEW t \in Installer, Installs(t), NEW h \in OrderlyHook
      PROVE  /\ Idle(h)' => Row(h, "idle")'
             /\ \A u \in Installer : cur'[u] = h /\ pc'[u] # "idle" => Row(h, pc[u])'
  <2>1. /\ \A u \in Installer \ {t} : pc'[u] = pc[u] /\ cur'[u] = cur[u]
        /\ pc[t] # "idle" => cur'[t] = cur[t]
        /\ h \in Hook
    BY <1>1, OnlyOneMoves DEF Operates, OrderlyHook
  <2>2. CASE cur'[t] = h
    <3>1. /\ TargetOf[h] \in Orderly /\ Operates(t)
          /\ \A u \in Installer \ {t} : (cur[u] = h => pc[u] = "idle") /\ (cur'[u] = h => pc'[u] = "idle")
      BY <1>1, <2>1, <2>2, OnlyOneMoves, OwnPlace DEF OrderlyHook
    <3>2. Row(h, pc[t])
      BY <2>1, <2>2, <3>1 DEF Rows, Idle
    <3>3. Row(h, pc[t])'
      BY <1>1, <2>1, <2>2, <3>2, OwnRow
    <3>4. Idle(h)' => pc'[t] = "idle"
      BY <2>2 DEF Idle
    <3>5. QED
      BY <3>1, <3>3, <3>4
  <2>3. CASE cur'[t] # h
    <3>1. \A p : Row(h, p)' <=> Row(h, p)
      BY <1>1, <2>3, OtherRows DEF Row, is_installed
    <3>2. QED
      BY <1>1, <2>3, <3>1, OnlyOneMoves, OtherPlace DEF Rows
  <2>4. QED
    BY <2>2, <2>3
<1>2. ASSUME NEW c \in Caller, Calls(c)
      PROVE  Rows'
  <2>1. /\ \A u \in Installer : pc'[u] = pc[u] /\ cur'[u] = cur[u]
        /\ UNCHANGED code
    BY <1>2, CallerMoves DEF Calls, Continue
  <2>2. UNCHANGED <<handles, orig, target>>
    BY <1>2 DEF Calls, Continue, EnterHook, RunOriginal, SkipOriginal, CallOriginal, OriginalPanics,
       Call, cellVars
  <2>3. \A h, p : Row(h, p)' <=> Row(h, p)
    BY <2>1, <2>2 DEF Row, is_installed, Patched
  <2>4. QED
    BY <2>1, <2>3 DEF Rows, Idle
<1>3. CASE UNCHANGED vars
  BY <1>3 DEF vars, clientVars, cellVars, Rows, Row, Idle, is_installed, Patched
<1>4. ASSUME NEW t \in Installer, Installs(t)
      PROVE  Rows'
  BY <1>1, <1>4 DEF Rows
<1>5. QED
  BY <1>2, <1>3, <1>4, StepOf

OrderlyInv == IInv /\ OneATime /\ OwnPatch /\ ToMethod /\ Rows

LEMMA InitOrderly == Init => OrderlyInv
<1> SUFFICES ASSUME Init PROVE OrderlyInv
  OBVIOUS
<1>1. IInv
  BY InitType, InitRegistered DEF IInv
<1>2. OneATime /\ OwnPatch /\ ToMethod
  BY DEF Init, ClientInit, OneATime, OwnPatch, ToMethod, Thread
<1>3. Rows
  BY HookAssumption DEF Init, ClientInit, Rows, Row, is_installed, Patched, OrderlyHook, Thread
<1>4. QED
  BY <1>1, <1>2, <1>3 DEF OrderlyInv

LEMMA NextOrderly == OrderlyInv /\ [Next]_vars => OrderlyInv'
BY NextType, NextRegistered, NextOneATime, NextOwnPatch, NextToMethod, NextRows DEF OrderlyInv, IInv

(***************************************************************************)
(* InstalledIsPatched: for the hooks of the methods the program takes      *)
(* turns on, whatever races on the others and whatever fails, both         *)
(* pointers of a hook say, between operations, whether its method leads to *)
(* it.                                                                     *)
(***************************************************************************)
THEOREM InstalledSaysPatched == Spec => []InstalledIsPatched
<1>1. OrderlyInv => InstalledIsPatched
  BY DEF OrderlyInv, Rows, Row, Patched, InstalledIsPatched
<1>2. QED
  BY <1>1, InitOrderly, NextOrderly, PTL DEF Spec

-----------------------------------------------------------------------------
\* The phase HookContract knows of h, from where the thread working on it is.
LEMMA PhaseOf ==
  ASSUME NEW h \in OrderlyHook, NEW p,
         Publishing(h) <=> p \in PublishPC, Uninstalling(h) <=> p \in RemovePC
  PROVE  phase[h] = PhaseAt(p, is_installed(h))
BY DEF phase, PhaseAt, PublishPC, RemovePC

\* The same in the next state.
LEMMA PhaseOfNext ==
  ASSUME NEW h \in OrderlyHook, NEW p,
         Publishing(h)' <=> p \in PublishPC, Uninstalling(h)' <=> p \in RemovePC
  PROVE  phase'[h] = PhaseAt(p, is_installed(h)')
BY DEF phase, PhaseAt, PublishPC, RemovePC, OrderlyHook

LEMMA OwnPhase ==
  ASSUME TypeOK, OneATime, NEW t \in Installer, Installs(t), NEW h \in OrderlyHook, cur'[t] = h
  PROVE  /\ phase[h] = PhaseAt(pc[t], is_installed(h))
         /\ phase'[h] = PhaseAt(pc'[t], is_installed(h)')
<1>1. h \in Hook /\ TargetOf[h] \in Orderly /\ Operates(t)
  BY OnlyOneMoves DEF OrderlyHook
<1>2. QED
  BY <1>1, OwnPlace, PhaseOf, PhaseOfNext

LEMMA OtherPhase ==
  ASSUME OrderlyInv, NEW t \in Installer, Installs(t), NEW h \in OrderlyHook, cur'[t] # h
  PROVE  UNCHANGED <<phase[h], handles[h]>>
<1>1. OrderlyHook' = OrderlyHook
  BY DEF OrderlyHook
<1>2. UNCHANGED <<orig[h], handles[h]>>
  BY OtherRows DEF OrderlyInv
<1>3. Operates(t)
  BY OnlyOneMoves DEF OrderlyInv, IInv
<1>4. phase[h]' = phase[h]
  BY <1>1, <1>2, <1>3, OtherPlace DEF phase, is_installed
<1>5. QED
  BY <1>2, <1>4

(***************************************************************************)
(* What an installer's step does to the phase and the handles of the hook  *)
(* it works on.                                                            *)
(***************************************************************************)
Turns(h, from, to) == phase[h] = from /\ phase'[h] = to

Removal(h) ==
  /\ Turns(h, "installed", "removing")
  /\ handles[h] > 0 /\ handles'[h] = handles[h] - 1
  /\ UninstallQuiet => \A c \in Caller : ~Inside(c, h)

PhaseStep(h) ==
  \/ UNCHANGED <<phase[h], handles[h]>>
  \/ Turns(h, "absent", "publishing") /\ handles'[h] = handles[h]
  \/ Turns(h, "publishing", "installed") /\ handles'[h] = handles[h] + 1
  \/ Removal(h)
  \/ Turns(h, "removing", "absent") /\ handles'[h] = handles[h]
  \/ Turns(h, "removing", "installed") /\ handles'[h] = handles[h]

LEMMA OwnStep ==
  ASSUME OrderlyInv, NEW t \in Installer, Installs(t), NEW h \in OrderlyHook, cur'[t] = h
  PROVE  PhaseStep(h)
<1> USE HookAssumption DEF PhaseAt, PublishPC, RemovePC, Turns
<1>1. /\ phase[h] = PhaseAt(pc[t], is_installed(h))
      /\ phase'[h] = PhaseAt(pc'[t], is_installed(h)')
  BY OwnPhase DEF OrderlyInv, IInv
<1>2. /\ \A u \in Installer \ {t} : cur[u] = h => pc[u] = "idle"
      /\ pc[t] # "idle" => cur[t] = h
  BY OnlyOneMoves, OwnPlace DEF OrderlyInv, IInv, OrderlyHook, Operates
<1>3. Row(h, pc[t])
  BY <1>2 DEF OrderlyInv, Rows, Idle
<1>4. /\ h \in Hook /\ t \in Thread
      /\ pc \in [Thread -> InstallerPC \cup CallerPC]
      /\ cur \in [Thread -> Hook \cup {NoPtr}]
      /\ handles \in [Hook -> Nat]
      /\ orig \in [Hook -> Entry \cup {NoPtr}]
  BY DEF OrderlyInv, IInv, TypeOK, ClientTypeOK, Thread, OrderlyHook
<1>5. CASE Install(t, is_installed) /\ UNCHANGED cellVars
  <2>1. UNCHANGED <<orig, handles>>
    BY <1>5 DEF Install, InstallRefused, InstallBegin, LookupFails, LookupSucceeds, cellVars
  <2>2. /\ pc[t] \notin PublishPC \cup RemovePC
        /\ pc'[t] \notin PublishPC \cup RemovePC
    BY <1>4, <1>5 DEF Install, InstallRefused, InstallBegin, LookupFails, LookupSucceeds,
       Return, Goto
  <2>3. phase'[h] = phase[h]
    BY <1>1, <2>1, <2>2 DEF is_installed
  <2>4. QED
    BY <2>1, <2>3 DEF PhaseStep
<1>6. ASSUME NEW g \in Hook, UninstallBegin(t, g), UNCHANGED cellVars
      PROVE  PhaseStep(h)
  <2>1. /\ g = h /\ pc[t] = "idle" /\ pc'[t] = "check"
        /\ handles[h] > 0 /\ handles'[h] = handles[h] - 1
        /\ UninstallQuiet => \A c \in Caller : ~Inside(c, h)
    BY <1>4, <1>6 DEF UninstallBegin, Goto
  <2>2. is_installed(h)
    BY <1>3, <2>1 DEF Row
  <2>3. Turns(h, "installed", "removing")
    BY <1>1, <2>1, <2>2
  <2>4. QED
    BY <2>1, <2>3 DEF PhaseStep, Removal
<1>7. CASE InstallFails(t) \/ registerInlineHook(t)
  <2>1. /\ UNCHANGED <<orig, handles>>
        /\ pc[t] \notin PublishPC \cup RemovePC
        /\ pc'[t] \notin PublishPC \cup RemovePC
    BY <1>4, <1>7 DEF InstallFails, registerInlineHook, Return, Goto, cellVars
  <2>2. QED
    BY <1>1, <2>1 DEF PhaseStep, is_installed
<1>8. CASE inlineHook(t)
  <2>1. pc[t] = "enable" /\ pc'[t] = "store" /\ UNCHANGED handles
    BY <1>4, <1>8 DEF inlineHook, Goto
  <2>2. ~is_installed(h)
    BY <1>3, <2>1 DEF Row
  <2>3. QED
    BY <1>1, <2>1, <2>2 DEF PhaseStep
<1>9. CASE StoreTarget(t)
  BY <1>1, <1>4, <1>9 DEF StoreTarget, Goto, PhaseStep
<1>10. CASE StoreOriginal(t)
  <2>1. /\ pc[t] = "store2" /\ pc'[t] = "idle" /\ cur[t] = h
        /\ handles'[h] = handles[h] + 1
    BY <1>2, <1>4, <1>10 DEF StoreOriginal, ReturnHandle, Return, Goto
  <2>2. orig'[h] = Orig
    BY <1>4, <1>10, <2>1 DEF StoreOriginal, OrderlyInv, ToMethod
  <2>3. is_installed(h)'
    BY <2>2 DEF is_installed
  <2>4. QED
    BY <1>1, <2>1, <2>3 DEF PhaseStep
<1>11. CASE NotInstalled(t)
  BY <1>2, <1>3, <1>11 DEF NotInstalled, Return, Goto, Row
<1>12. CASE LoadTarget(t) \/ inlineUnHook(t) \/ ClearTarget(t)
  <2>1. UNCHANGED handles /\ pc[t] \in RemovePC /\ pc'[t] \in RemovePC
    BY <1>4, <1>12 DEF LoadTarget, inlineUnHook, ClearTarget, Goto
  <2>2. QED
    BY <1>1, <2>1 DEF PhaseStep
<1>13. CASE inlineUnHookFails(t)
  <2>1. pc[t] = "unhook" /\ pc'[t] = "idle" /\ UNCHANGED <<orig, handles>>
    BY <1>4, <1>13 DEF inlineUnHookFails, Return, Goto, cellVars
  <2>2. is_installed(h) /\ is_installed(h)'
    BY <1>3, <2>1 DEF Row, is_installed
  <2>3. QED
    BY <1>1, <2>1, <2>2 DEF PhaseStep
<1>14. CASE ClearOriginal(t)
  <2>1. /\ pc[t] = "clear2" /\ pc'[t] = "idle" /\ UNCHANGED handles
        /\ orig'[h] = NoPtr
    BY <1>2, <1>4, <1>14 DEF ClearOriginal, Return, Goto
  <2>2. QED
    BY <1>1, <2>1 DEF PhaseStep, is_installed
<1>15. QED
  BY <1>5, <1>6, <1>7, <1>8, <1>9, <1>10, <1>11, <1>12, <1>13, <1>14 DEF Installs, Backend

(***************************************************************************)
(* Under the uninstall contract: a call is inside a hook, or on its way to *)
(* it, only while the hook is there.                                       *)
(***************************************************************************)
Reaches ==
  \A c \in Caller :
    /\ pc[c] = "inhook" => at[c] = cur[c] /\ cur[c] \in ran[c]
    /\ \A h \in OrderlyHook : Inside(c, h) => phase[h] \in {"publishing", "installed"}

LEMMA InitReaches == Init => Reaches
BY HookAssumption DEF Init, ClientInit, Reaches, Inside, Thread

\* The phase of a hook that a method leads to and nobody is removing.
LEMMA LeadsTo ==
  ASSUME OrderlyInv, NEW m \in Target, code[m] \in OrderlyHook, ~Uninstalling(code[m])
  PROVE  phase[code[m]] \in {"publishing", "installed"}
<1> DEFINE h == code[m]
<1>1. h \in Hook /\ h # Orig /\ TargetOf[h] = m
  BY HookAssumption DEF OrderlyInv, OwnPatch, OrderlyHook
<1>2. Patched(h)
  BY <1>1 DEF Patched
<1>3. CASE Idle(h)
  <2>1. is_installed(h)
    BY <1>2, <1>3 DEF OrderlyInv, Rows, Row
  <2>2. Publishing(h) <=> "idle" \in PublishPC
    BY <1>3 DEF Idle, Publishing, PublishPC
  <2>3. Uninstalling(h) <=> "idle" \in RemovePC
    BY <1>3 DEF Idle, Uninstalling, RemovePC
  <2>4. QED
    BY <2>1, <2>2, <2>3, PhaseOf DEF PhaseAt
<1>4. ASSUME NEW t \in Installer, cur[t] = h, pc[t] # "idle"
      PROVE  phase[h] \in {"publishing", "installed"}
  <2>1. Row(h, pc[t])
    BY <1>4 DEF OrderlyInv, Rows
  <2>2. pc[t] \in InstallerPC /\ pc[t] \notin RemovePC
    BY <1>4 DEF OrderlyInv, IInv, TypeOK, ClientTypeOK, Uninstalling, RemovePC
  <2>3. pc[t] \in PublishPC
    BY <1>2, <1>4, <2>1, <2>2 DEF Row, InstallerPC, PublishPC, RemovePC
  <2>4. Publishing(h)
    BY <1>4, <2>3 DEF Publishing, PublishPC
  <2>5. QED
    BY <2>2, <2>3, <2>4, PhaseOf DEF PhaseAt
<1>5. QED
  BY <1>3, <1>4 DEF Idle

\* A caller's step moves no phase and takes no handle.
LEMMA CallerPhase ==
  ASSUME TypeOK, NEW c \in Caller, Calls(c)
  PROVE  UNCHANGED <<phase, handles, code>>
<1>1. /\ \A u \in Installer : pc'[u] = pc[u] /\ cur'[u] = cur[u]
      /\ UNCHANGED <<code, orig>>
  BY CallerMoves, HookAssumption DEF TypeOK, Calls, Continue, Thread, cellVars
<1>2. UNCHANGED handles
  BY DEF Calls, Continue, EnterHook, RunOriginal, SkipOriginal, CallOriginal, OriginalPanics, Call
<1>3. \A h : /\ Publishing(h)' <=> Publishing(h)
             /\ Uninstalling(h)' <=> Uninstalling(h)
             /\ is_installed(h)' <=> is_installed(h)
  BY <1>1 DEF Publishing, Uninstalling, is_installed
<1>4. OrderlyHook' = OrderlyHook
  BY DEF OrderlyHook
<1>5. phase' = phase
  BY <1>3, <1>4 DEF phase
<1>6. QED
  BY <1>1, <1>2, <1>5

(***************************************************************************)
(* What the hooks a call is inside can become: it enters the one it is led *)
(* to first, leaves all of them, or stays.                                 *)
(***************************************************************************)
HooksOf(c) == {h \in OrderlyHook : Inside(c, h)}

LEMMA CallStep ==
  ASSUME OrderlyInv, Reaches, UninstallQuiet, NEW c \in Caller, Calls(c)
  PROVE  /\ \A d \in Caller \ {c} : UNCHANGED <<pc[d], cur[d], at[d], ran[d]>>
         /\ pc'[c] = "inhook" => at'[c] = cur'[c] /\ cur'[c] \in ran'[c]
         /\ \/ HooksOf(c)' = HooksOf(c)
            \/ HooksOf(c)' = {}
            \/ \E h \in OrderlyHook :
                 /\ phase[h] \in {"publishing", "installed"} /\ h \notin HooksOf(c)
                 /\ HooksOf(c)' = HooksOf(c) \cup {h}
<1> USE HookAssumption DEF HooksOf, Inside
<1>1. /\ pc \in [Thread -> InstallerPC \cup CallerPC] /\ c \in Thread
      /\ cur \in [Thread -> Hook \cup {NoPtr}]
      /\ at \in [Caller -> Entry] /\ ran \in [Caller -> SUBSET Hook]
      /\ pc[c] = "inhook" => cur[c] \in Hook
      /\ \A d \in Caller : d \in Thread
  BY DEF OrderlyInv, IInv, TypeOK, ClientTypeOK, Thread
<1>2. OrderlyHook' = OrderlyHook
  BY DEF OrderlyHook
<1>3. ASSUME NEW m \in Target, Call(c, m)
      PROVE  /\ \A d \in Caller \ {c} : UNCHANGED <<pc[d], cur[d], at[d], ran[d]>>
             /\ pc'[c] = "jump" /\ HooksOf(c) = {}
             /\ code[m] \notin OrderlyHook => HooksOf(c)' = {}
             /\ code[m] \in OrderlyHook => /\ HooksOf(c)' = {code[m]}
                                           /\ phase[code[m]] \in {"publishing", "installed"}
  <2>1. /\ pc[c] = "idle" /\ pc'[c] = "jump" /\ at'[c] = code[m] /\ ran'[c] = {}
        /\ ~Uninstalling(code[m])
        /\ \A d \in Caller \ {c} : UNCHANGED <<pc[d], cur[d], at[d], ran[d]>>
    BY <1>1, <1>3 DEF Call, Goto, MayReach
  <2>2. HooksOf(c)' = {h \in OrderlyHook : h = code[m]}
    BY <1>2, <2>1
  <2>3. QED
    BY <2>1, <2>2, LeadsTo
<1>4. CASE EnterHook(c)
  <2>1. /\ pc[c] = "jump" /\ pc'[c] = "inhook" /\ cur'[c] = at[c] /\ at' = at
        /\ ran'[c] = ran[c] \cup {at[c]}
        /\ \A d \in Caller \ {c} : UNCHANGED <<pc[d], cur[d], at[d], ran[d]>>
    BY <1>1, <1>4 DEF EnterHook, Goto
  <2>2. HooksOf(c)' = HooksOf(c)
    BY <1>2, <2>1
  <2>3. QED
    BY <2>1, <2>2
<1>5. CASE RunOriginal(c) \/ SkipOriginal(c)
  <2>1. /\ pc'[c] = "idle"
        /\ \A d \in Caller \ {c} : UNCHANGED <<pc[d], cur[d], at[d], ran[d]>>
    BY <1>1, <1>5 DEF RunOriginal, SkipOriginal, Goto, callVars
  <2>2. HooksOf(c)' = {}
    BY <2>1
  <2>3. QED
    BY <2>1, <2>2
<1>6. CASE CallOriginal(c, original(cur[c]))
  <2>1. /\ pc[c] = "inhook" /\ pc'[c] = "jump" /\ at'[c] = orig[cur[c]] /\ ran' = ran
        /\ orig[cur[c]] \in Entry
        /\ \A d \in Caller \ {c} : UNCHANGED <<pc[d], cur[d], at[d], ran[d]>>
    BY <1>1, <1>6 DEF CallOriginal, Goto, original
  <2>2. orig[cur[c]] = Orig
    BY <1>1, <2>1 DEF OrderlyInv, ToMethod, Entry
  <2>3. at[c] \in ran[c]
    BY <2>1 DEF Reaches
  <2>4. \A h \in OrderlyHook : h # Orig
    BY DEF OrderlyHook
  <2>5. HooksOf(c)' = HooksOf(c)
    BY <1>2, <2>1, <2>2, <2>3, <2>4
  <2>6. QED
    BY <2>1, <2>5
<1>7. CASE OriginalPanics(c, original(cur[c]))
  <2>1. UNCHANGED <<pc, cur, at, ran>>
    BY <1>7 DEF OriginalPanics
  <2>2. HooksOf(c)' = HooksOf(c)
    BY <1>2, <2>1
  <2>3. QED
    BY <2>1, <2>2 DEF Reaches
<1>8. QED
  BY <1>3, <1>4, <1>5, <1>6, <1>7 DEF Calls, Continue

LEMMA NextReaches ==
  ASSUME OrderlyInv, Reaches, UninstallQuiet, [Next]_vars
  PROVE  Reaches'
<1>1. OrderlyHook' = OrderlyHook
  BY DEF OrderlyHook
<1>2. ASSUME NEW t \in Installer, Installs(t)
      PROVE  Reaches'
  <2>1. \A c \in Caller : UNCHANGED <<pc[c], cur[c], at[c], ran[c]>>
    BY <1>2, OnlyOneMoves, HookAssumption DEF Operates, OrderlyInv, IInv, Thread
  <2>2. \A c \in Caller : \A h : Inside(c, h)' <=> Inside(c, h)
    BY <2>1 DEF Inside
  <2>3. ASSUME NEW c \in Caller, NEW h \in OrderlyHook, Inside(c, h)
        PROVE  phase'[h] \in {"publishing", "installed"}
    <3>1. phase[h] \in {"publishing", "installed"}
      BY <2>3 DEF Reaches
    <3>2. CASE cur'[t] = h
      BY <1>2, <2>3, <3>1, <3>2, OwnStep DEF PhaseStep, Turns, Removal
    <3>3. CASE cur'[t] # h
      BY <1>2, <3>1, <3>3, OtherPhase
    <3>4. QED
      BY <3>2, <3>3
  <2>4. QED
    BY <1>1, <2>1, <2>2, <2>3 DEF Reaches
<1>3. ASSUME NEW c \in Caller, Calls(c)
      PROVE  Reaches'
  <2>1. UNCHANGED phase
    BY <1>3, CallerPhase DEF OrderlyInv, IInv
  <2>2. \A h \in OrderlyHook : Inside(c, h)' => phase[h] \in {"publishing", "installed"}
    BY <1>1, <1>3, CallStep DEF HooksOf, Reaches
  <2>3. \A d \in Caller \ {c} : \A h : Inside(d, h)' <=> Inside(d, h)
    BY <1>3, CallStep DEF Inside
  <2>4. QED
    BY <1>1, <1>3, <2>1, <2>2, <2>3, CallStep DEF Reaches
<1>4. CASE UNCHANGED vars
  <2>1. \A h : /\ Publishing(h)' <=> Publishing(h)
               /\ Uninstalling(h)' <=> Uninstalling(h)
               /\ is_installed(h)' <=> is_installed(h)
    BY <1>4 DEF vars, clientVars, cellVars, Publishing, Uninstalling, is_installed
  <2>2. phase' = phase
    BY <1>1, <2>1 DEF phase
  <2>3. QED
    BY <1>1, <1>4, <2>2 DEF vars, clientVars, Reaches, Inside
<1>5. QED
  BY <1>2, <1>3, <1>4, StepOf

LEMMA SpecReaches ==
  ASSUME UninstallQuiet
  PROVE  Spec => [](OrderlyInv /\ Reaches)
<1>1. Init => OrderlyInv /\ Reaches
  BY InitOrderly, InitReaches
<1>2. OrderlyInv /\ Reaches /\ [Next]_vars => (OrderlyInv /\ Reaches)'
  BY UninstallQuiet, NextOrderly, NextReaches
<1>3. QED
  BY <1>1, <1>2, PTL DEF Spec

(***************************************************************************)
(* OriginalUnlessPublishing: where the program takes turns and keeps the   *)
(* contract of uninstall, a running hook has an original unless its        *)
(* install has yet to store it, whatever hooks and threads there are.      *)
(***************************************************************************)
THEOREM OriginalSafe ==
  ASSUME UninstallQuiet
  PROVE  Spec => []OriginalUnlessPublishing
<1>1. OrderlyInv /\ Reaches => OriginalUnlessPublishing
  <2> SUFFICES ASSUME OrderlyInv, Reaches, NEW c \in Caller, pc[c] = "inhook",
                      cur[c] \in OrderlyHook, original(cur[c]) = NoPtr
               PROVE  Publishing(cur[c])
    BY DEF OriginalUnlessPublishing
  <2>1. Inside(c, cur[c])
    BY DEF Reaches, Inside
  <2>2. phase[cur[c]] \in {"publishing", "installed"}
    BY <2>1 DEF Reaches
  <2>3. ~is_installed(cur[c])
    BY DEF is_installed, original
  <2>4. QED
    BY <2>2, <2>3 DEF phase
<1>2. QED
  BY <1>1, SpecReaches, PTL

-----------------------------------------------------------------------------
(***************************************************************************)
(* The refinement.  Contract!phase is `phase`, Contract!handles the        *)
(* handles of the hooks concerned, Contract!inside `inside`.               *)
(***************************************************************************)
Held == [h \in OrderlyHook |-> handles[h]]

LEMMA InitContract == Init => Contract!Init
<1> SUFFICES ASSUME Init PROVE Contract!Init
  OBVIOUS
<1>1. ASSUME NEW h \in OrderlyHook
      PROVE  phase[h] = "absent" /\ handles[h] = 0
  <2>1. /\ h \in Hook /\ ~is_installed(h) /\ handles[h] = 0
        /\ \A t \in Installer : pc[t] = "idle"
    BY DEF Init, ClientInit, OrderlyHook, is_installed, Thread
  <2>2. Publishing(h) <=> "idle" \in PublishPC
    BY <2>1 DEF Publishing, PublishPC
  <2>3. Uninstalling(h) <=> "idle" \in RemovePC
    BY <2>1 DEF Uninstalling, RemovePC
  <2>4. QED
    BY <2>1, <2>2, <2>3, PhaseOf DEF PhaseAt, PublishPC, RemovePC
<1>2. phase = [h \in OrderlyHook |-> "absent"]
  BY <1>1 DEF phase
<1>3. Held = [h \in OrderlyHook |-> 0]
  BY <1>1 DEF Held
<1>4. \A c \in Caller, h \in OrderlyHook : ~Inside(c, h)
  BY DEF Init, ClientInit, Inside, Thread
<1>5. inside = [c \in Caller |-> {}]
  BY <1>4 DEF inside
<1>6. QED
  BY <1>2, <1>3, <1>5 DEF Contract!Init, Held

\* An installer's step is one of HookContract's steps of its hook, or none.
LEMMA InstallerContract ==
  ASSUME OrderlyInv, UninstallQuiet, NEW t \in Installer, Installs(t)
  PROVE  Contract!Next \/ UNCHANGED Contract!contractVars
<1>1. UNCHANGED inside
  <2>1. \A c \in Caller : UNCHANGED <<pc[c], at[c], ran[c]>>
    BY OnlyOneMoves, HookAssumption DEF Operates, OrderlyInv, IInv, Thread
  <2>2. \A c \in Caller : \A h : Inside(c, h)' <=> Inside(c, h)
    BY <2>1 DEF Inside
  <2>3. OrderlyHook' = OrderlyHook
    BY DEF OrderlyHook
  <2>4. QED
    BY <2>2, <2>3 DEF inside
<1>2. /\ phase = [h \in OrderlyHook |-> phase[h]]
      /\ phase' = [h \in OrderlyHook |-> phase'[h]]
      /\ Held = [h \in OrderlyHook |-> handles[h]]
      /\ Held' = [h \in OrderlyHook |-> handles'[h]]
  BY DEF phase, Held, OrderlyHook
<1>3. \A h \in OrderlyHook : h # cur'[t] => UNCHANGED <<phase[h], handles[h]>>
  BY OtherPhase
<1>4. CASE cur'[t] \notin OrderlyHook
  <2>1. phase' = phase /\ Held' = Held
    BY <1>2, <1>3, <1>4
  <2>2. QED
    BY <1>1, <2>1 DEF Contract!contractVars, Held
<1>5. ASSUME NEW h \in OrderlyHook, cur'[t] = h
      PROVE  Contract!Next \/ UNCHANGED Contract!contractVars
  <2>1. PhaseStep(h)
    BY <1>5, OwnStep
  <2>2. \A s, r : Turns(h, s, r) => phase[h] = s /\ phase' = [phase EXCEPT ![h] = r]
    BY <1>2, <1>3, <1>5 DEF Turns
  <2>3. handles'[h] = handles[h] => Held' = Held
    BY <1>2, <1>3, <1>5
  <2>4. CASE UNCHANGED <<phase[h], handles[h]>>
    <3>1. phase' = phase
      BY <1>2, <1>3, <1>5, <2>4
    <3>2. QED
      BY <1>1, <2>3, <2>4, <3>1 DEF Contract!contractVars, Held
  <2>5. CASE Turns(h, "absent", "publishing") /\ handles'[h] = handles[h]
    <3>1. Contract!Patch(h)
      BY <1>1, <2>2, <2>3, <2>5 DEF Contract!Patch, Contract!Move, Held
    <3>2. QED
      BY <3>1 DEF Contract!Next
  <2>6. CASE Turns(h, "publishing", "installed") /\ handles'[h] = handles[h] + 1
    <3>1. Held' = [Held EXCEPT ![h] = @ + 1]
      BY <1>2, <1>3, <1>5, <2>6
    <3>2. Contract!Publish(h)
      BY <1>1, <2>2, <2>6, <3>1 DEF Contract!Publish, Contract!Move, Held
    <3>3. QED
      BY <3>2 DEF Contract!Next
  <2>7. CASE Removal(h)
    <3>1. Held' = [Held EXCEPT ![h] = @ - 1] /\ Held[h] > 0
      BY <1>2, <1>3, <1>5, <2>7 DEF Removal
    <3>2. \A c \in Caller : h \notin inside[c]
      BY <2>7, UninstallQuiet DEF Removal, inside
    <3>3. Contract!Remove(h)
      BY <1>1, <2>2, <2>7, <3>1, <3>2 DEF Contract!Remove, Contract!Move, Held, Removal
    <3>4. QED
      BY <3>3 DEF Contract!Next
  <2>8. CASE Turns(h, "removing", "absent") /\ handles'[h] = handles[h]
    <3>1. Contract!Removed(h)
      BY <1>1, <2>2, <2>3, <2>8 DEF Contract!Removed, Contract!Move, Held
    <3>2. QED
      BY <3>1 DEF Contract!Next
  <2>9. CASE Turns(h, "removing", "installed") /\ handles'[h] = handles[h]
    <3>1. Contract!RemoveFails(h)
      BY <1>1, <2>2, <2>3, <2>9 DEF Contract!RemoveFails, Contract!Move, Held
    <3>2. QED
      BY <3>1 DEF Contract!Next
  <2>10. QED
    BY <2>1, <2>4, <2>5, <2>6, <2>7, <2>8, <2>9 DEF PhaseStep
<1>6. QED
  BY <1>4, <1>5

\* So is a caller's: it enters a hook that is there, or leaves.
LEMMA CallerContract ==
  ASSUME OrderlyInv, Reaches, UninstallQuiet, NEW c \in Caller, Calls(c)
  PROVE  Contract!Next \/ UNCHANGED Contract!contractVars
<1>1. UNCHANGED <<phase, handles>>
  BY CallerPhase DEF OrderlyInv, IInv
<1>2. Held' = Held
  BY <1>1 DEF Held, OrderlyHook
<1>3. /\ inside = [d \in Caller |-> HooksOf(d)]
      /\ inside' = [d \in Caller |-> HooksOf(d)']
  BY DEF inside, HooksOf, OrderlyHook
<1>4. \A d \in Caller \ {c} : HooksOf(d)' = HooksOf(d)
  BY CallStep DEF HooksOf, Inside, OrderlyHook
<1>5. CASE HooksOf(c)' = HooksOf(c)
  <2>1. inside' = inside
    BY <1>3, <1>4, <1>5
  <2>2. QED
    BY <1>1, <1>2, <2>1 DEF Contract!contractVars, Held
<1>6. CASE HooksOf(c)' = {}
  <2>1. inside' = [inside EXCEPT ![c] = {}]
    BY <1>3, <1>4, <1>6
  <2>2. Contract!Leave(c)
    BY <1>1, <1>2, <2>1 DEF Contract!Leave, Held
  <2>3. QED
    BY <2>2 DEF Contract!Next
<1>7. ASSUME NEW h \in OrderlyHook, phase[h] \in {"publishing", "installed"},
             h \notin HooksOf(c), HooksOf(c)' = HooksOf(c) \cup {h}
      PROVE  Contract!Next
  <2>1. inside' = [inside EXCEPT ![c] = @ \cup {h}] /\ h \notin inside[c]
    BY <1>3, <1>4, <1>7
  <2>2. Contract!Enter(c, h)
    BY <1>1, <1>2, <1>7, <2>1 DEF Contract!Enter, Held
  <2>3. QED
    BY <2>2 DEF Contract!Next
<1>8. QED
  BY <1>5, <1>6, <1>7, CallStep

LEMMA StepContract ==
  ASSUME OrderlyInv, Reaches, UninstallQuiet, [Next]_vars
  PROVE  Contract!Next \/ UNCHANGED Contract!contractVars
<1>1. CASE UNCHANGED vars
  <2>1. UNCHANGED <<phase, handles, inside>>
    BY <1>1 DEF vars, clientVars, cellVars, phase, inside, OrderlyHook, Publishing, Uninstalling,
       is_installed, Inside
  <2>2. QED
    BY <2>1 DEF Contract!contractVars, OrderlyHook
<1>2. QED
  BY <1>1, StepOf, InstallerContract, CallerContract

(***************************************************************************)
(* KeepsContract: where the program takes turns and keeps the contract of  *)
(* uninstall, the backend's two pointers and the library's item behave as  *)
(* HookContract says of any hook, step by step.                            *)
(***************************************************************************)
THEOREM Implements ==
  ASSUME UninstallQuiet
  PROVE  Spec => KeepsContract
<1>1. OrderlyInv /\ Reaches /\ [Next]_vars => [Contract!Next]_(Contract!contractVars)
  BY UninstallQuiet, StepContract
<1>2. QED
  BY <1>1, InitContract, SpecReaches, PTL DEF Spec, KeepsContract, Contract!Spec
=============================================================================
