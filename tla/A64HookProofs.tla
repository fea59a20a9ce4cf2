---------------------------- MODULE A64HookProofs ----------------------------
(***************************************************************************)
(* Proofs about the And64InlineHook backend, for any hooks, methods and    *)
(* callers.                                                                *)
(***************************************************************************)
EXTENDS A64Hook, HookClientProofs

-----------------------------------------------------------------------------
(***************************************************************************)
(* Types.                                                                  *)
(***************************************************************************)
LEMMA InitType == Init => TypeOK
BY ClientInitType DEF Init, TypeOK

LEMMA NextType == TypeOK /\ [Next]_vars => TypeOK'
<1> SUFFICES ASSUME TypeOK, [Next]_vars PROVE TypeOK'
  OBVIOUS
<1> USE DEF TypeOK
<1>1. ASSUME ClientStep(is_installed, original), UNCHANGED <<orig, tramp>>
      PROVE  TypeOK'
  <2>1. ASSUME NEW c \in Caller, Continue(c, original) \/ \E m \in Target : Call(c, m)
        PROVE  ClientTypeOK'
    BY <2>1, CallerKeepsType DEF Continue
  <2>2. ASSUME NEW t \in Installer, Install(t, is_installed) \/ \E h \in Hook : UninstallBegin(t, h)
        PROVE  ClientTypeOK'
    BY <2>2, InstallerKeepsType DEF Install
  <2>3. QED
    BY <1>1, <2>1, <2>2 DEF ClientStep
<1>2. ASSUME NEW t \in Installer,
             A64HookFunction(t) \/ A64HookFunctionFails(t) \/ StoreOriginal(t) \/ Uninstall(t)
      PROVE  TypeOK'
  <2>1. cur[t] \in Hook /\ TargetOf[cur[t]] \in Target
    BY <1>2, HookAssumption DEF ClientTypeOK, Thread, A64HookFunction, A64HookFunctionFails,
       StoreOriginal, Uninstall, ReturnHandle, Return, Goto
  <2>2. code' \in [Target -> Entry] /\ tramp' \in [Installer -> Entry \cup {NoPtr}]
        /\ orig' \in [Hook -> Entry \cup {NoPtr}]
    BY <1>2, <2>1 DEF ClientTypeOK, Entry, A64HookFunction, A64HookFunctionFails, StoreOriginal,
       Uninstall, ReturnHandle, Return, Goto
  <2>3. ClientTypeOK'
    BY <1>2, <2>2, BackendKeepsType DEF InstallerPC, UninstallResult, A64HookFunction,
       A64HookFunctionFails, StoreOriginal, Uninstall
  <2>4. QED
    BY <2>2, <2>3
<1>3. CASE UNCHANGED vars
  BY <1>3 DEF vars, clientVars, ClientTypeOK
<1>4. QED
  BY <1>1, <1>2, <1>3 DEF Next

(***************************************************************************)
(* The And64InlineHook backend's state keeps its types.                    *)
(***************************************************************************)
THEOREM TypeCorrect == Spec => []TypeOK
<1>1. Init => TypeOK
  BY InitType
<1>2. TypeOK /\ [Next]_vars => TypeOK'
  BY NextType
<1>3. QED
  BY <1>1, <1>2, PTL DEF Spec

-----------------------------------------------------------------------------
(***************************************************************************)
(* A hook has an original, or the trampoline that is about to become it.   *)
(* Whatever can be jumped to - a patched method, a trampoline, a caller's  *)
(* next entry - is the method's own code or a hook that has one, and no    *)
(* step takes it away: there is one installing thread, whose checked cell  *)
(* is still null when it stores, or no patch fails and what is stored is   *)
(* never null.                                                             *)
(***************************************************************************)
Has(h) ==
  \/ orig[h] # NoPtr
  \/ \E t \in Installer : pc[t] = "store" /\ cur[t] = h /\ tramp[t] # NoPtr

OneInstaller == \A t, u \in Installer : t = u

NothingLost == OneInstaller \/ ~PatchMayFail

StoresOnce ==
  \A t \in Installer :
    /\ OneInstaller /\ pc[t] \in {"lookup", "patch", "store"} => orig[cur[t]] = NoPtr
    /\ ~PatchMayFail /\ pc[t] = "store" => tramp[t] # NoPtr

Leads ==
  /\ \A m \in Target : code[m] \in Hook => Has(code[m])
  /\ \A h \in Hook : orig[h] \in Hook => Has(orig[h])
  /\ \A t \in Installer : pc[t] = "store" /\ tramp[t] \in Hook => Has(tramp[t])
  /\ \A c \in Caller : pc[c] = "jump" /\ at[c] \in Hook => Has(at[c])
  /\ \A c \in Caller : pc[c] = "inhook" => Has(cur[c])

PatchedHas == \A h \in Hook : Alone(h) => (code[TargetOf[h]] = h <=> Has(h))

IInv == TypeOK /\ StoresOnce /\ Leads /\ PatchedHas

(***************************************************************************)
(* The steps, reduced to what the invariant speaks of: an installer that   *)
(* moves without touching the code or a trampoline it stores, a caller,    *)
(* the native call, and the store.                                         *)
(***************************************************************************)
Quiet(t) ==
  /\ UNCHANGED <<code, at, orig>>
  /\ \A u \in Thread \ {t} : pc'[u] = pc[u] /\ cur'[u] = cur[u]
  /\ \A u \in Installer \ {t} : tramp'[u] = tramp[u]
  /\ pc[t] # "store"
  /\ \/ pc'[t] \in {"idle", "check"}
     \/ pc'[t] = "lookup" /\ orig[cur'[t]] = NoPtr
     \/ pc'[t] = "patch" /\ pc[t] = "lookup" /\ cur'[t] = cur[t]
     \/ /\ pc'[t] = "store" /\ pc[t] = "patch" /\ cur'[t] = cur[t]
        /\ tramp'[t] = NoPtr /\ PatchMayFail

CallerStep(c) ==
  /\ UNCHANGED <<code, orig, tramp>>
  /\ \A u \in Thread \ {c} : pc'[u] = pc[u] /\ cur'[u] = cur[u]
  /\ \A d \in Caller \ {c} : at'[d] = at[d]
  /\ \/ pc'[c] = "idle"
     \/ pc'[c] = pc[c] /\ at'[c] = at[c] /\ cur'[c] = cur[c]
     \/ pc'[c] = "inhook" /\ pc[c] = "jump" /\ cur'[c] = at[c] /\ at[c] \in Hook
     \/ pc'[c] = "jump" /\ \E m \in Target : at'[c] = code[m]
     \/ pc'[c] = "jump" /\ \E h \in Hook : at'[c] = orig[h]

LEMMA StepCases ==
  ASSUME TypeOK, Next
  PROVE  \/ \E t \in Installer : Quiet(t) \/ A64HookFunction(t) \/ StoreOriginal(t)
         \/ \E c \in Caller : CallerStep(c)
<1>1. ASSUME NEW t \in Installer, Install(t, is_installed) \/ \E h \in Hook : UninstallBegin(t, h),
             UNCHANGED <<orig, tramp>>
      PROVE  Quiet(t)
  BY <1>1, InstallerMoves DEF TypeOK, Install, Quiet, is_installed
<1>2. ASSUME NEW c \in Caller, Continue(c, original) \/ \E m \in Target : Call(c, m),
             UNCHANGED <<orig, tramp>>
      PROVE  CallerStep(c)
  <2>1. /\ UNCHANGED code
        /\ \A u \in Thread \ {c} : pc'[u] = pc[u] /\ cur'[u] = cur[u]
        /\ \A d \in Caller \ {c} : at'[d] = at[d]
    BY <1>2, CallerMoves DEF TypeOK, Continue
  <2>2. CASE EnterHook(c)
    BY <1>2, <2>1, <2>2 DEF TypeOK, ClientTypeOK, Thread, EnterHook, Goto, CallerStep
  <2>3. CASE RunOriginal(c) \/ SkipOriginal(c)
    <3>1. pc'[c] = "idle"
      BY <2>3 DEF TypeOK, ClientTypeOK, Thread, RunOriginal, SkipOriginal, Goto
    <3>2. QED
      BY <1>2, <2>1, <3>1 DEF CallerStep
  <2>4. CASE CallOriginal(c, original(cur[c]))
    <3>1. cur[c] \in Hook
      BY <2>4 DEF TypeOK, ClientTypeOK, Thread, CallOriginal, Goto
    <3>2. QED
      BY <1>2, <2>1, <2>4, <3>1 DEF TypeOK, ClientTypeOK, Thread, CallOriginal, Goto, CallerStep,
         original
  <2>5. CASE OriginalPanics(c, original(cur[c]))
    BY <1>2, <2>1, <2>5 DEF OriginalPanics, CallerStep
  <2>6. CASE \E m \in Target : Call(c, m)
    BY <1>2, <2>1, <2>6 DEF TypeOK, ClientTypeOK, Thread, Call, Goto, CallerStep
  <2>7. QED
    BY <1>2, <2>2, <2>3, <2>4, <2>5, <2>6 DEF Continue
<1>3. ASSUME NEW t \in Installer, A64HookFunctionFails(t) \/ Uninstall(t)
      PROVE  Quiet(t)
  BY <1>3 DEF TypeOK, ClientTypeOK, Thread, A64HookFunctionFails, Uninstall, Return, Goto, Quiet,
     callVars
<1>4. QED
  BY <1>1, <1>2, <1>3 DEF Next, ClientStep

\* What has an original keeps it.
LEMMA HasStays ==
  ASSUME IInv, NothingLost, Next, NEW h \in Hook, Has(h)
  PROVE  Has(h)'
<1> USE HookAssumption DEF IInv, TypeOK, ClientTypeOK, Thread
<1>1. ASSUME NEW t \in Installer, Quiet(t)
      PROVE  Has(h)'
  BY <1>1 DEF Quiet, Has
<1>2. ASSUME NEW t \in Installer, A64HookFunction(t)
      PROVE  Has(h)'
  BY <1>2 DEF A64HookFunction, Goto, Has
<1>3. ASSUME NEW t \in Installer, StoreOriginal(t)
      PROVE  Has(h)'
  <2>1. /\ pc[t] = "store" /\ cur[t] \in Hook
        /\ orig' = [orig EXCEPT ![cur[t]] = tramp[t]] /\ UNCHANGED <<cur, tramp>>
        /\ \A u \in Installer \ {t} : pc'[u] = pc[u]
    BY <1>3 DEF StoreOriginal, ReturnHandle, Return, Goto
  <2>2. CASE h = cur[t]
    BY <2>1, <2>2 DEF Has, StoresOnce, NothingLost, OneInstaller
  <2>3. CASE h # cur[t]
    BY <2>1, <2>3 DEF Has
  <2>4. QED
    BY <2>2, <2>3
<1>4. ASSUME NEW c \in Caller, CallerStep(c)
      PROVE  Has(h)'
  BY <1>4 DEF CallerStep, Has
<1>5. QED
  BY <1>1, <1>2, <1>3, <1>4, StepCases

LEMMA InitInv == Init => IInv
<1> SUFFICES ASSUME Init PROVE IInv
  OBVIOUS
<1>1. TypeOK
  BY InitType
<1>2. /\ \A t \in Thread : pc[t] = "idle"
      /\ \A h \in Hook : orig[h] = NoPtr
      /\ \A m \in Target : code[m] = Orig
  BY DEF Init, ClientInit
<1>3. StoresOnce /\ Leads
  BY <1>2, HookAssumption DEF StoresOnce, Leads, Thread
<1>4. PatchedHas
  BY <1>2, HookAssumption DEF PatchedHas, Has, Thread
<1>5. QED
  BY <1>1, <1>3, <1>4 DEF IInv

LEMMA NextStoresOnce == IInv /\ NothingLost /\ Next => StoresOnce'
<1> SUFFICES ASSUME IInv, NothingLost, Next PROVE StoresOnce'
  OBVIOUS
<1> USE HookAssumption DEF IInv, TypeOK, ClientTypeOK, Thread, StoresOnce
<1>1. ASSUME NEW t \in Installer, Quiet(t)
      PROVE  StoresOnce'
  BY <1>1 DEF Quiet
<1>2. ASSUME NEW t \in Installer, A64HookFunction(t)
      PROVE  StoresOnce'
  BY <1>2 DEF A64HookFunction, Goto, Entry
<1>3. ASSUME NEW t \in Installer, StoreOriginal(t)
      PROVE  StoresOnce'
  BY <1>3 DEF StoreOriginal, ReturnHandle, Return, Goto, OneInstaller
<1>4. ASSUME NEW c \in Caller, CallerStep(c)
      PROVE  StoresOnce'
  BY <1>4 DEF CallerStep
<1>5. QED
  BY <1>1, <1>2, <1>3, <1>4, StepCases

LEMMA NextLeads == IInv /\ NothingLost /\ Next => Leads'
<1> SUFFICES ASSUME IInv, NothingLost, Next PROVE Leads'
  OBVIOUS
<1>0. \A h \in Hook : Has(h) => Has(h)'
  BY HasStays
<1> USE HookAssumption DEF IInv, TypeOK, ClientTypeOK, Thread
<1>1. ASSUME NEW t \in Installer, Quiet(t)
      PROVE  Leads'
  BY <1>0, <1>1 DEF Quiet, Leads
<1>2. ASSUME NEW t \in Installer, A64HookFunction(t)
      PROVE  Leads'
  <2>1. /\ cur[t] \in Hook /\ TargetOf[cur[t]] \in Target
        /\ pc' = [pc EXCEPT ![t] = "store"] /\ tramp' = [tramp EXCEPT ![t] = code[TargetOf[cur[t]]]]
        /\ code' = [code EXCEPT ![TargetOf[cur[t]]] = cur[t]]
        /\ UNCHANGED <<cur, at, orig>>
    BY <1>2 DEF A64HookFunction, Goto, callVars
  <2>2. code[TargetOf[cur[t]]] \in Entry /\ tramp'[t] # NoPtr /\ Has(cur[t])'
    BY <2>1 DEF Entry, Has
  <2>3. /\ \A m \in Target : code'[m] \in Hook => Has(code[m])'
        /\ \A u \in Installer : pc'[u] = "store" /\ tramp'[u] \in Hook => Has(tramp[u])'
    BY <1>0, <2>1, <2>2 DEF Leads
  <2>4. QED
    BY <1>0, <2>1, <2>3 DEF Leads
<1>3. ASSUME NEW t \in Installer, StoreOriginal(t)
      PROVE  Leads'
  <2>1. /\ pc[t] = "store" /\ pc' = [pc EXCEPT ![t] = "idle"]
        /\ orig' = [orig EXCEPT ![cur[t]] = tramp[t]]
        /\ UNCHANGED <<cur, at, code, tramp>>
    BY <1>3 DEF StoreOriginal, ReturnHandle, Return, Goto, callVars
  <2>2. QED
    BY <1>0, <2>1 DEF Leads
<1>4. ASSUME NEW c \in Caller, CallerStep(c)
      PROVE  Leads'
  BY <1>0, <1>4 DEF CallerStep, Leads
<1>5. QED
  BY <1>1, <1>2, <1>3, <1>4, StepCases

LEMMA NextPatchedHas == IInv /\ NothingLost /\ Next => PatchedHas'
<1> SUFFICES ASSUME IInv, NothingLost, Next, NEW h \in Hook, Alone(h)
             PROVE  (code[TargetOf[h]] = h <=> Has(h))'
  BY DEF PatchedHas, Alone
<1> USE HookAssumption DEF IInv, TypeOK, ClientTypeOK, Thread
<1>0. (code[TargetOf[h]] = h <=> Has(h)) /\ (Has(h) => Has(h)')
  BY HasStays DEF PatchedHas
<1>1. ASSUME NEW t \in Installer, Quiet(t)
      PROVE  (code[TargetOf[h]] = h <=> Has(h))'
  BY <1>0, <1>1 DEF Quiet, Has
<1>2. ASSUME NEW t \in Installer, A64HookFunction(t)
      PROVE  (code[TargetOf[h]] = h <=> Has(h))'
  <2>1. /\ cur[t] \in Hook /\ TargetOf[cur[t]] \in Target
        /\ pc' = [pc EXCEPT ![t] = "store"] /\ tramp' = [tramp EXCEPT ![t] = code[TargetOf[cur[t]]]]
        /\ code' = [code EXCEPT ![TargetOf[cur[t]]] = cur[t]]
        /\ UNCHANGED <<cur, orig>>
    BY <1>2 DEF A64HookFunction, Goto
  <2>2. CASE cur[t] = h
    BY <2>1, <2>2 DEF Has, Entry
  <2>3. CASE cur[t] # h
    <3>1. TargetOf[cur[t]] # TargetOf[h] /\ (Has(h)' => Has(h))
      BY <2>1, <2>3 DEF Alone, Has
    <3>2. QED
      BY <1>0, <2>1, <3>1
  <2>4. QED
    BY <2>2, <2>3
<1>3. ASSUME NEW t \in Installer, StoreOriginal(t)
      PROVE  (code[TargetOf[h]] = h <=> Has(h))'
  <2>1. /\ pc[t] = "store" /\ pc' = [pc EXCEPT ![t] = "idle"]
        /\ orig' = [orig EXCEPT ![cur[t]] = tramp[t]] /\ cur[t] \in Hook
        /\ UNCHANGED <<cur, code, tramp>>
    BY <1>3 DEF StoreOriginal, ReturnHandle, Return, Goto
  <2>2. Has(h)' => Has(h)
    BY <2>1 DEF Has
  <2>3. QED
    BY <1>0, <2>1, <2>2
<1>4. ASSUME NEW c \in Caller, CallerStep(c)
      PROVE  (code[TargetOf[h]] = h <=> Has(h))'
  BY <1>0, <1>4 DEF CallerStep, Has
<1>5. QED
  BY <1>1, <1>2, <1>3, <1>4, StepCases

LEMMA NextInv == IInv /\ NothingLost /\ [Next]_vars => IInv'
<1> SUFFICES ASSUME IInv, NothingLost, [Next]_vars PROVE IInv'
  OBVIOUS
<1>1. CASE Next
  BY <1>1, NextType, NextStoresOnce, NextLeads, NextPatchedHas DEF IInv
<1>2. CASE UNCHANGED vars
  <2>1. TypeOK'
    BY <1>2, NextType DEF IInv
  <2>2. (StoresOnce /\ Leads /\ PatchedHas)'
    BY <1>2 DEF IInv, vars, clientVars, StoresOnce, Leads, PatchedHas, Has, Alone
  <2>3. QED
    BY <2>1, <2>2 DEF IInv
<1>3. QED
  BY <1>1, <1>2

-----------------------------------------------------------------------------
(***************************************************************************)
(* A hook that runs has an original to call, or the trampoline stored next *)
(* is its own, with one installing thread, and with any number of them     *)
(* where no patch fails.  Without either the null of a second, failing     *)
(* patch can replace the trampoline of the first.                          *)
(***************************************************************************)
THEOREM OriginalSafe ==
  ASSUME NothingLost
  PROVE  Spec => []OriginalUnlessPublishing
<1>1. IInv => OriginalUnlessPublishing
  BY DEF IInv, Leads, Has, OriginalUnlessPublishing, original, Publishing
<1>2. QED
  BY <1>1, InitInv, NextInv, PTL DEF Spec

(***************************************************************************)
(* Under the same condition is_installed says, between the operations on a *)
(* hook, whether its method leads to it.                                   *)
(***************************************************************************)
THEOREM InstalledSaysPatched ==
  ASSUME NothingLost
  PROVE  Spec => []InstalledIsPatched
<1>1. IInv => InstalledIsPatched
  BY DEF IInv, PatchedHas, Has, InstalledIsPatched, is_installed, Idle
<1>2. QED
  BY <1>1, InitInv, NextInv, PTL DEF Spec

-----------------------------------------------------------------------------
(***************************************************************************)
(* From here on, one thread installs.  A pointer once stored stays, and    *)
(* what is stored leads to the method or to hooks whose pointers were      *)
(* stored before: said without the order, no set of hooks is closed under  *)
(* `original`.                                                             *)
(***************************************************************************)
CellSet == {e \in Entry : e \in Hook => orig[e] # NoPtr}

AboutToStore(e) == \E t \in Installer : pc[t] = "store" /\ cur[t] = e

SavedSet ==
  /\ \A t \in Installer : pc[t] = "store" /\ tramp[t] # NoPtr => tramp[t] \in CellSet
  /\ \A h \in Hook : orig[h] # NoPtr => orig[h] \in CellSet
  /\ \A m \in Target : code[m] \in CellSet \/ AboutToStore(code[m])

NoCycle == \A S \in SUBSET Hook : S # {} => \E h \in S : orig[h] \notin S

\* What a caller has behind it: every hook entered led to the next one.
Followed(c, S, next) == \A g \in S : orig[g] \in ran[c] \cup {next}

CallPath ==
  \A c \in Caller :
    /\ pc[c] = "jump" => at[c] \notin ran[c] /\ Followed(c, ran[c], at[c])
    /\ pc[c] = "inhook" => cur[c] \in ran[c] /\ Followed(c, ran[c] \ {cur[c]}, cur[c])

PathInv == SavedSet /\ NoCycle /\ CallPath

LEMMA InitPath == Init => PathInv
<1> SUFFICES ASSUME Init PROVE PathInv
  OBVIOUS
<1> USE HookAssumption DEF Init, ClientInit, Thread
<1>1. SavedSet
  BY DEF SavedSet, CellSet, Entry
<1>2. NoCycle
  BY DEF NoCycle
<1>3. CallPath
  BY DEF CallPath
<1>4. QED
  BY <1>1, <1>2, <1>3 DEF PathInv

LEMMA OrigKept ==
  ASSUME IInv, OneInstaller, Next, NEW h \in Hook, orig[h] # NoPtr
  PROVE  orig'[h] = orig[h]
<1>1. ASSUME NEW t \in Installer, StoreOriginal(t)
      PROVE  orig'[h] = orig[h]
  <2>1. orig[cur[t]] = NoPtr
    BY <1>1 DEF IInv, StoresOnce, StoreOriginal, ReturnHandle, Return, Goto
  <2>2. QED
    BY <1>1, <2>1 DEF IInv, TypeOK, StoreOriginal
<1>2. QED
  BY <1>1, StepCases DEF IInv, Quiet, A64HookFunction, CallerStep

LEMMA NextSaved ==
  ASSUME IInv, OneInstaller, SavedSet, Next
  PROVE  SavedSet'
<1> USE HookAssumption DEF IInv, TypeOK, ClientTypeOK, Thread
<1>1. CellSet \subseteq CellSet'
  BY OrigKept DEF CellSet
<1>2. ASSUME NEW t \in Installer, Quiet(t)
      PROVE  SavedSet'
  <2>1. \A e : ~AboutToStore(e)
    BY <1>2 DEF AboutToStore, OneInstaller, Quiet
  <2>2. pc'[t] = "store" => tramp'[t] = NoPtr
    BY <1>2 DEF Quiet
  <2>3. \A u \in Installer : u = t
    BY DEF OneInstaller
  <2>4. QED
    BY <1>1, <1>2, <2>1, <2>2, <2>3 DEF SavedSet, Quiet
<1>3. ASSUME NEW t \in Installer, A64HookFunction(t)
      PROVE  SavedSet'
  <2>1. /\ cur[t] \in Hook /\ TargetOf[cur[t]] \in Target
        /\ pc[t] = "patch" /\ pc'[t] = "store" /\ tramp'[t] = code[TargetOf[cur[t]]]
        /\ code' = [code EXCEPT ![TargetOf[cur[t]]] = cur[t]]
        /\ UNCHANGED <<cur, orig>>
    BY <1>3 DEF A64HookFunction, Goto
  <2>2. \A u \in Installer : u = t
    BY DEF OneInstaller
  <2>3. \A m \in Target : code[m] \in CellSet
    BY <2>1, <2>2 DEF SavedSet, AboutToStore
  <2>4. AboutToStore(cur[t])'
    BY <2>1 DEF AboutToStore
  <2>5. \A m \in Target : code'[m] \in CellSet' \/ AboutToStore(code[m])'
    BY <1>1, <2>1, <2>3, <2>4
  <2>6. QED
    BY <1>1, <2>1, <2>2, <2>3, <2>5 DEF SavedSet
<1>4. ASSUME NEW t \in Installer, StoreOriginal(t)
      PROVE  SavedSet'
  <2>1. /\ pc[t] = "store" /\ pc'[t] = "idle" /\ cur[t] \in Hook
        /\ orig' = [orig EXCEPT ![cur[t]] = tramp[t]]
        /\ UNCHANGED <<cur, code, tramp>>
    BY <1>4 DEF StoreOriginal, ReturnHandle, Return, Goto
  <2>2. \A u \in Installer : u = t
    BY DEF OneInstaller
  <2>3. \A m \in Target : code[m] = cur[t] => tramp[t] # NoPtr
    BY <2>1, <2>2 DEF Leads, Has, StoresOnce, OneInstaller
  <2>4. \A m \in Target : code[m] \in CellSet'
    <3> SUFFICES ASSUME NEW m \in Target PROVE code[m] \in CellSet'
      OBVIOUS
    <3>1. CASE code[m] \in CellSet
      BY <1>1, <3>1
    <3>2. CASE AboutToStore(code[m])
      <4>1. code[m] = cur[t]
        BY <2>2, <3>2 DEF AboutToStore
      <4>2. QED
        BY <2>1, <2>3, <4>1 DEF CellSet, Entry
    <3>3. QED
      BY <3>1, <3>2 DEF SavedSet
  <2>5. \A h \in Hook : orig'[h] # NoPtr => orig'[h] \in CellSet
    BY <2>1 DEF SavedSet
  <2>6. QED
    BY <1>1, <2>1, <2>2, <2>4, <2>5 DEF SavedSet
<1>5. ASSUME NEW c \in Caller, CallerStep(c)
      PROVE  SavedSet'
  <2>1. \A u \in Installer : pc'[u] = pc[u] /\ cur'[u] = cur[u]
    BY <1>5 DEF CallerStep
  <2>2. QED
    BY <1>1, <1>5, <2>1 DEF CallerStep, SavedSet, AboutToStore
<1>6. QED
  BY <1>2, <1>3, <1>4, <1>5, StepCases

(***************************************************************************)
(* A pointer is stored to a trampoline that leads to stored pointers only, *)
(* so not back to itself, and no trampoline led to it: it closes no cycle. *)
(***************************************************************************)
LEMMA NextNoCycle ==
  ASSUME IInv, OneInstaller, SavedSet, NoCycle, Next
  PROVE  NoCycle'
<1>1. CASE UNCHANGED orig
  BY <1>1 DEF NoCycle
<1>2. ASSUME NEW t \in Installer, StoreOriginal(t)
      PROVE  NoCycle'
  <2> DEFINE h == cur[t]
  <2>1. /\ h \in Hook /\ orig[h] = NoPtr /\ orig'[h] = tramp[t]
        /\ \A g \in Hook : g # h => orig'[g] = orig[g]
    BY <1>2, HookAssumption DEF IInv, StoresOnce, StoreOriginal, ReturnHandle, Return, Goto, TypeOK,
       ClientTypeOK, Thread
  <2>2. tramp[t] # h
    BY <1>2, <2>1, HookAssumption DEF StoreOriginal, ReturnHandle, Return, Goto, SavedSet, CellSet
  <2>3. \A g \in Hook : orig[g] # h
    BY <2>1, HookAssumption DEF SavedSet, CellSet
  <2> HIDE DEF h
  <2> SUFFICES ASSUME NEW S \in SUBSET Hook, S # {}
               PROVE  \E g \in S : orig'[g] \notin S
    BY DEF NoCycle
  <2>4. CASE S = {h}
    BY <2>1, <2>2, <2>4
  <2>5. CASE S # {h}
    <3>1. S \ {h} \in SUBSET Hook /\ S \ {h} # {}
      BY <2>5
    <3>2. PICK g \in S \ {h} : orig[g] \notin S \ {h}
      BY <3>1 DEF NoCycle
    <3>3. QED
      BY <2>1, <2>3, <3>2
  <2>6. QED
    BY <2>4, <2>5
<1>3. QED
  BY <1>1, <1>2, StepCases DEF IInv, Quiet, A64HookFunction, CallerStep

(***************************************************************************)
(* A call keeps off the hooks behind it: a trampoline leading to one of    *)
(* them would make the hooks behind it a closed set.                       *)
(***************************************************************************)
LEMMA NextPath ==
  ASSUME IInv, OneInstaller, NoCycle, CallPath, Next
  PROVE  CallPath'
<1> USE HookAssumption DEF IInv, TypeOK, ClientTypeOK, Thread
<1> DEFINE OnPath(c) ==
             /\ pc[c] = "jump" => at[c] \notin ran[c] /\ Followed(c, ran[c], at[c])
             /\ pc[c] = "inhook" => cur[c] \in ran[c] /\ Followed(c, ran[c] \ {cur[c]}, cur[c])
<1>1. ASSUME NEW c \in Caller, UNCHANGED <<pc[c], cur[c], at[c], ran[c]>>
      PROVE  OnPath(c)'
  <2>1. \A S, next : S \subseteq Hook /\ next # NoPtr /\ Followed(c, S, next) => Followed(c, S, next)'
    BY <1>1, OrigKept DEF Followed
  <2>2. ran[c] \subseteq Hook /\ at[c] # NoPtr /\ (pc[c] = "inhook" => cur[c] # NoPtr)
    BY DEF Entry
  <2>3. QED
    BY <1>1, <2>1, <2>2 DEF CallPath
<1>2. ASSUME NEW t \in Installer,
             \/ Install(t, is_installed) \/ (\E h \in Hook : UninstallBegin(t, h))
             \/ A64HookFunction(t) \/ A64HookFunctionFails(t) \/ StoreOriginal(t) \/ Uninstall(t)
      PROVE  CallPath'
  <2>1. \A c \in Caller : UNCHANGED <<pc[c], cur[c], at[c], ran[c]>>
    BY <1>2 DEF Install, InstallRefused, InstallBegin, LookupFails, LookupSucceeds, UninstallBegin,
       A64HookFunction, A64HookFunctionFails, StoreOriginal, Uninstall, ReturnHandle, Return, Goto,
       callVars
  <2>2. QED
    BY <1>1, <2>1 DEF CallPath
<1>3. ASSUME NEW c \in Caller, Continue(c, original) \/ (\E m \in Target : Call(c, m)),
             UNCHANGED <<orig, tramp>>
      PROVE  CallPath'
  <2>1. ASSUME NEW d \in Caller, d # c
        PROVE  UNCHANGED <<pc[d], cur[d], at[d], ran[d]>>
    BY <1>3, <2>1 DEF Continue, EnterHook, RunOriginal, SkipOriginal, CallOriginal, OriginalPanics,
       Call, Goto, callVars
  <2>2. OnPath(c)'
    <3>1. ASSUME NEW m \in Target, Call(c, m)
          PROVE  /\ pc'[c] = "jump" /\ at'[c] \notin ran'[c]
                 /\ Followed(c, ran[c], at[c])'
      BY <3>1 DEF Call, Goto, Followed
    <3>2. CASE EnterHook(c)
      <4>1. /\ pc[c] = "jump" /\ pc'[c] = "inhook"
            /\ cur'[c] = at[c] /\ ran'[c] = ran[c] \cup {at[c]}
        BY <3>2 DEF EnterHook, Goto
      <4>2. at[c] \notin ran[c] /\ Followed(c, ran[c], at[c])
        BY <4>1 DEF CallPath
      <4>3. QED
        BY <1>3, <4>1, <4>2 DEF Followed
    <3>3. CASE RunOriginal(c) \/ SkipOriginal(c)
      BY <3>3 DEF RunOriginal, SkipOriginal, Goto
    <3>4. CASE CallOriginal(c, original(cur[c]))
      <4>1. /\ pc[c] = "inhook" /\ pc'[c] = "jump"
            /\ at'[c] = orig[cur[c]] /\ ran' = ran
        BY <3>4 DEF CallOriginal, Goto, original
      <4>2. cur[c] \in ran[c] /\ Followed(c, ran[c] \ {cur[c]}, cur[c]) /\ ran[c] \in SUBSET Hook
        BY <4>1 DEF CallPath
      <4>3. \A g \in ran[c] : orig[g] \in ran[c] \cup {at'[c]}
        BY <4>1, <4>2 DEF Followed
      <4>4. at'[c] \notin ran[c]
        BY <4>2, <4>3 DEF NoCycle
      <4>5. QED
        BY <1>3, <4>1, <4>3, <4>4 DEF Followed
    <3>5. CASE OriginalPanics(c, original(cur[c]))
      BY <1>1, <3>5 DEF OriginalPanics
    <3>6. QED
      BY <1>3, <3>1, <3>2, <3>3, <3>4, <3>5 DEF Continue
  <2>3. QED
    BY <1>1, <2>1, <2>2 DEF CallPath
<1>4. QED
  BY <1>2, <1>3 DEF Next, ClientStep

LEMMA StepPath == IInv /\ OneInstaller /\ PathInv /\ [Next]_vars => PathInv'
<1>1. IInv /\ OneInstaller /\ PathInv /\ Next => PathInv'
  BY NextSaved, NextNoCycle, NextPath DEF PathInv
<1>2. PathInv /\ UNCHANGED vars => PathInv'
  BY DEF PathInv, SavedSet, CellSet, AboutToStore, NoCycle, CallPath, Followed, vars, clientVars
<1>3. QED
  BY <1>1, <1>2

(***************************************************************************)
(* NoHookTwice: with one installing thread, however many hooks share a     *)
(* method and whichever patches fail, no call enters a hook twice.  Two    *)
(* that race on one hook can make its trampoline lead back to it.          *)
(***************************************************************************)
THEOREM NoHookEnteredTwice ==
  ASSUME OneInstaller
  PROVE  Spec => []NoHookTwice
<1>1. Init => IInv /\ PathInv
  BY InitInv, InitPath
<1>2. IInv /\ PathInv /\ [Next]_vars => (IInv /\ PathInv)'
  BY OneInstaller, NextInv, StepPath DEF NothingLost
<1>3. PathInv => NoHookTwice
  BY DEF PathInv, CallPath, NoHookTwice
<1>4. QED
  BY <1>1, <1>2, <1>3, PTL DEF Spec
=============================================================================
