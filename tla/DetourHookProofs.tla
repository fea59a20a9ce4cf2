-------------------------- MODULE DetourHookProofs --------------------------
(***************************************************************************)
(* Proofs about the retour backend, for any hooks, methods and threads.    *)
(***************************************************************************)
EXTENDS DetourHook, TLAPS

(***************************************************************************)
(* Wherever the program can be led to a hook, that hook's cell is set or   *)
(* the install that led there is about to set it.                          *)
(***************************************************************************)
Storing(h) == \E t \in Installer : cur[t] = h /\ pc[t] = "store"

Backed == {e \in Entry : e \in Hook => detour[e] # NoDetour \/ Storing(e)}

AllBacked ==
  /\ \A m \in Target : code[m] \in Backed
  /\ \A t \in Installer : pc[t] \in {"enable", "store"} => new[t].saved \in Backed
  /\ \A h \in Hook : detour[h] # NoDetour => detour[h].saved \in Backed
  /\ \A c \in Caller : /\ pc[c] = "jump" => at[c] \in Backed
                       /\ pc[c] = "inhook" => cur[c] \in Backed

(***************************************************************************)
(* With one installer: no saved prologue leads to a hook whose cell is not *)
(* set, so the cells, each written once, are written in an order in which  *)
(* every trampoline leads to an earlier one or to the method.  That is     *)
(* said without the order: no set of hooks is closed under `original`.     *)
(***************************************************************************)
CellSet == {e \in Entry : e \in Hook => detour[e] # NoDetour}

SavedSet ==
  /\ \A t \in Installer : pc[t] \in {"enable", "store"} => new[t].saved \in CellSet
  /\ \A h \in Hook : detour[h] # NoDetour => detour[h].saved \in CellSet
  /\ \A m \in Target : code[m] \in CellSet \/ Storing(code[m])

NoCycle ==
  \A S \in SUBSET Hook : S # {} =>
    \E h \in S : detour[h] = NoDetour \/ detour[h].saved \notin S

\* What a caller has behind it: every hook entered led to the next one.
Followed(c, S, next) ==
  \A g \in S : detour[g] # NoDetour /\ detour[g].saved \in ran[c] \cup {next}

CallPath ==
  \A c \in Caller :
    /\ pc[c] = "jump" => at[c] \notin ran[c] /\ Followed(c, ran[c], at[c])
    /\ pc[c] = "inhook" => /\ cur[c] \in ran[c]
                           /\ Followed(c, ran[c] \ {cur[c]}, cur[c])

-----------------------------------------------------------------------------
(***************************************************************************)
(* Types.  A detour about to be disabled is there: the cell keeps it.      *)
(***************************************************************************)
UnhookSet == \A t \in Installer : pc[t] = "unhook" => detour[cur[t]] # NoDetour

TypeInv == TypeOK /\ UnhookSet

LEMMA InitType == Init => TypeInv
<1> SUFFICES ASSUME Init PROVE TypeInv
  OBVIOUS
<1> USE HookAssumption DEF Init, ClientInit
<1>1. pc \in [Thread -> InstallerPC \cup CallerPC] /\ \A t \in Thread : pc[t] = "idle"
  BY DEF InstallerPC
<1>2. cur \in [Thread -> Hook \cup {NoPtr}]
  OBVIOUS
<1>3. at \in [Caller -> Entry] /\ code \in [Target -> Entry]
  BY DEF Entry
<1>4. ran \in [Caller -> SUBSET Hook] /\ handles \in [Hook -> Nat]
  OBVIOUS
<1>5. result \in [Installer -> InstallResult \cup UninstallResult \cup {"none"}]
  OBVIOUS
<1>6. installs \in 0..MaxInstalls
  OBVIOUS
<1>7. aborted \in BOOLEAN
  OBVIOUS
<1>8. detour \in [Hook -> RawDetour \cup {NoDetour}]
  OBVIOUS
<1>9. new \in [Installer -> RawDetour]
  BY DEF RawDetour, Entry
<1> HIDE DEF Init, ClientInit
<1>10. QED
  BY <1>1, <1>2, <1>3, <1>4, <1>5, <1>6, <1>7, <1>8, <1>9
     DEF TypeInv, TypeOK, ClientTypeOK, UnhookSet, Thread, InstallerPC, CallerPC

(***************************************************************************)
(* A step of a thread that is in a call keeps the types.                   *)
(***************************************************************************)
LEMMA CallerType ==
  ASSUME TypeInv, UNCHANGED <<detour, new>>, NEW c \in Caller,
         Continue(c, original) \/ \E m \in Target : Call(c, m)
  PROVE  TypeInv'
<1> USE HookAssumption
    DEF TypeInv, TypeOK, ClientTypeOK, UnhookSet, Thread, InstallerPC, CallerPC
<1>1. CASE EnterHook(c)
  BY <1>1 DEF EnterHook, Goto
<1>2. CASE RunOriginal(c)
  BY <1>2 DEF RunOriginal, Goto, callVars
<1>3. CASE SkipOriginal(c)
  BY <1>3 DEF SkipOriginal, Goto, callVars
<1>4. CASE CallOriginal(c, original(cur[c]))
  BY <1>4 DEF CallOriginal, Goto
<1>5. CASE OriginalPanics(c, original(cur[c]))
  BY <1>5 DEF OriginalPanics
<1>6. ASSUME NEW m \in Target, Call(c, m)
      PROVE  TypeInv'
  BY <1>6 DEF Call, Goto
<1>7. QED
  BY <1>1, <1>2, <1>3, <1>4, <1>5, <1>6 DEF Continue

(***************************************************************************)
(* So do the steps of an installer around the ones that patch.             *)
(***************************************************************************)
LEMMA InstallerType ==
  ASSUME TypeInv, UNCHANGED <<detour, new>>, NEW t \in Installer,
         \/ Install(t, is_installed)
         \/ \E h \in Hook : UninstallBegin(t, h)
         \/ InstallFails(t)
         \/ NotInstalled(t)
         \/ CheckEnabled(t)
         \/ DisableFails(t)
  PROVE  TypeInv'
<1> USE HookAssumption
    DEF TypeInv, TypeOK, ClientTypeOK, UnhookSet, Thread, InstallerPC, CallerPC, callVars
<1>1. ASSUME NEW h \in Hook, InstallRefused(t, h, is_installed(h))
      PROVE  TypeInv'
  BY <1>1 DEF InstallRefused, Return, Goto, InstallResult
<1>2. ASSUME NEW h \in Hook, InstallBegin(t, h, is_installed(h))
      PROVE  TypeInv'
  BY <1>2 DEF InstallBegin, Goto
<1>3. CASE LookupFails(t)
  BY <1>3 DEF LookupFails, Return, Goto, InstallResult
<1>4. CASE LookupSucceeds(t)
  BY <1>4 DEF LookupSucceeds, Goto
<1>5. ASSUME NEW h \in Hook, UninstallBegin(t, h)
      PROVE  TypeInv'
  BY <1>5 DEF UninstallBegin, Goto
<1>6. CASE InstallFails(t)
  BY <1>6 DEF InstallFails, Return, Goto, InstallResult
<1>7. CASE NotInstalled(t)
  BY <1>7 DEF NotInstalled, Return, Goto, UninstallResult
<1>8. CASE CheckEnabled(t)
  BY <1>8 DEF CheckEnabled, is_installed, Goto
<1>9. CASE DisableFails(t)
  BY <1>9 DEF DisableFails, Return, Goto, UninstallResult
<1>10. QED
  BY <1>1, <1>2, <1>3, <1>4, <1>5, <1>6, <1>7, <1>8, <1>9 DEF Install

(***************************************************************************)
(* And the steps that patch.                                               *)
(***************************************************************************)
LEMMA PatchType ==
  ASSUME TypeInv, NEW t \in Installer,
         NewDetour(t) \/ Enable(t) \/ SetCell(t) \/ SetCellTaken(t) \/ Disable(t)
  PROVE  TypeInv'
<1> USE HookAssumption DEF TypeInv, Thread, InstallerPC, CallerPC, callVars
<1>1. /\ new[t] \in RawDetour
      /\ new[t].saved \in Entry
      /\ pc[t] # "idle" => cur[t] \in Hook
  BY DEF TypeOK, ClientTypeOK, RawDetour
<1>2. CASE NewDetour(t)
  <2>1. code[TargetOf[cur[t]]] \in Entry
    BY <1>1, <1>2 DEF NewDetour, Goto, TypeOK, ClientTypeOK
  <2>2. new' \in [Installer -> RawDetour]
    BY <1>2, <2>1 DEF NewDetour, RawDetour, TypeOK
  <2>3. QED
    BY <1>2, <2>2 DEF NewDetour, Goto, TypeOK, ClientTypeOK, UnhookSet
<1>3. CASE Enable(t)
  <2>1. new' \in [Installer -> RawDetour]
    BY <1>3, <1>1 DEF Enable, RawDetour, TypeOK
  <2>2. code' \in [Target -> Entry]
    BY <1>3, <1>1 DEF Enable, Goto, Entry, TypeOK, ClientTypeOK
  <2>3. QED
    BY <1>3, <2>1, <2>2 DEF Enable, Goto, TypeOK, ClientTypeOK, UnhookSet
<1>4. CASE SetCell(t)
  BY <1>1, <1>4
     DEF SetCell, ReturnHandle, Return, Goto, InstallResult, TypeOK, ClientTypeOK, UnhookSet
<1>5. CASE SetCellTaken(t)
  <2>1. new' \in [Installer -> RawDetour]
    BY <1>5, <1>1 DEF SetCellTaken, RawDetour, TypeOK
  <2>2. code' \in [Target -> Entry]
    BY <1>5, <1>1 DEF SetCellTaken, TypeOK, ClientTypeOK
  <2>3. QED
    BY <1>5, <1>1, <2>1, <2>2
       DEF SetCellTaken, ReturnHandle, Return, Goto, InstallResult, TypeOK, ClientTypeOK, UnhookSet
<1>6. CASE Disable(t)
  <2>1. /\ detour[cur[t]] \in RawDetour
        /\ detour[cur[t]].saved \in Entry
    BY <1>6, <1>1 DEF Disable, Return, Goto, UnhookSet, TypeOK, RawDetour
  <2>2. /\ detour' \in [Hook -> RawDetour \cup {NoDetour}]
        /\ \A h \in Hook : detour[h] # NoDetour => detour'[h] # NoDetour
    BY <1>6, <1>1, <2>1, DetourAssumption DEF Disable, RawDetour, TypeOK
  <2>3. code' \in [Target -> Entry]
    BY <1>6, <2>1 DEF Disable, TypeOK, ClientTypeOK
  <2>4. QED
    BY <1>6, <1>1, <2>2, <2>3
       DEF Disable, Return, Goto, UninstallResult, TypeOK, ClientTypeOK, UnhookSet
<1>7. QED
  BY <1>2, <1>3, <1>4, <1>5, <1>6

LEMMA NextType == TypeInv /\ [Next]_vars => TypeInv'
<1> SUFFICES ASSUME TypeInv, [Next]_vars PROVE TypeInv'
  OBVIOUS
<1>1. CASE ClientStep(is_installed, original) /\ UNCHANGED <<detour, new>>
  BY <1>1, CallerType, InstallerType DEF ClientStep
<1>2. ASSUME NEW t \in Installer,
             InstallFails(t) \/ NotInstalled(t) \/ CheckEnabled(t) \/ DisableFails(t)
      PROVE  TypeInv'
  <2>1. UNCHANGED <<detour, new>>
    BY <1>2 DEF InstallFails, NotInstalled, CheckEnabled, DisableFails
  <2>2. QED
    BY <1>2, <2>1, InstallerType
<1>3. CASE UNCHANGED vars
  BY <1>3 DEF vars, clientVars, TypeInv, TypeOK, ClientTypeOK, UnhookSet
<1>4. QED
  BY <1>1, <1>2, <1>3, PatchType DEF Next

(***************************************************************************)
(* Type correctness of the retour backend.                                 *)
(***************************************************************************)
THEOREM TypeCorrect == Spec => []TypeOK
<1>1. TypeInv => TypeOK
  BY DEF TypeInv
<1>2. QED
  BY <1>1, InitType, NextType, PTL DEF Spec

-----------------------------------------------------------------------------
(***************************************************************************)
(* What a step does to the cells and to the installers, seen from the      *)
(* patched methods.  Callers touch neither; most steps of an installer     *)
(* touch no cell, no code and no detour, and neither begin nor end the     *)
(* stretch of an install from its new detour to its store.                 *)
(***************************************************************************)
Native == <<detour, new, code>>

\* A caller moves: no installer does, and no patch is made or undone.
CallerMoves(c) ==
  /\ UNCHANGED Native
  /\ \A t \in Installer : pc'[t] = pc[t] /\ cur'[t] = cur[t]
  /\ \A d \in Caller : d # c =>
       pc'[d] = pc[d] /\ cur'[d] = cur[d] /\ at'[d] = at[d] /\ ran'[d] = ran[d]
  /\ Continue(c, original) \/ \E m \in Target : Call(c, m)

\* Installer t is the only thread that moves.
OnlyMoves(t) ==
  /\ UNCHANGED <<at, ran>>
  /\ \A u \in Thread : u # t => pc'[u] = pc[u] /\ cur'[u] = cur[u]

\* It returns, starts an operation on a hook, or goes on to the next check.
Advances(t) ==
  \/ pc'[t] = "idle"
  \/ /\ pc[t] = "idle" /\ pc'[t] \in {"lookup", "check"}
     /\ cur'[t] \in Hook /\ Turn(cur'[t])
     /\ pc'[t] = "lookup" => ~is_installed(cur'[t])
  \/ pc[t] = "lookup" /\ pc'[t] = "patch" /\ cur'[t] = cur[t]
  \/ pc[t] = "check" /\ pc'[t] = "unhook" /\ cur'[t] = cur[t]

\* It moves outside the stretch of its install in which it has a new detour.
OutsidePatch(t) ==
  /\ OnlyMoves(t)
  /\ UNCHANGED Native
  /\ pc[t] # "store" /\ pc'[t] \notin {"enable", "store"}
  /\ Advances(t)

Patch(t) == NewDetour(t) \/ Enable(t) \/ SetCell(t) \/ SetCellTaken(t) \/ Disable(t)

LEMMA StepKinds ==
  ASSUME TypeInv, [Next]_vars
  PROVE  \/ \E c \in Caller : CallerMoves(c)
         \/ \E t \in Installer : OutsidePatch(t) \/ (OnlyMoves(t) /\ Patch(t))
         \/ UNCHANGED vars
<1> USE HookAssumption DEF TypeInv, TypeOK, ClientTypeOK, Thread
<1>1. ASSUME NEW c \in Caller, UNCHANGED <<detour, new>>,
             Continue(c, original) \/ \E m \in Target : Call(c, m)
      PROVE  CallerMoves(c)
  BY <1>1 DEF CallerMoves, Native, Continue, EnterHook, RunOriginal, SkipOriginal,
              CallOriginal, OriginalPanics, Call, Goto, callVars
<1>2. ASSUME NEW t \in Installer, UNCHANGED <<detour, new>>,
             Install(t, is_installed) \/ \E h \in Hook : UninstallBegin(t, h)
      PROVE  OutsidePatch(t)
  <2>1. /\ OnlyMoves(t) /\ UNCHANGED Native
        /\ pc[t] # "store" /\ pc'[t] \notin {"enable", "store"}
    BY <1>2 DEF OnlyMoves, Native, Install, InstallRefused, InstallBegin, LookupFails,
                LookupSucceeds, UninstallBegin, Return, Goto, callVars
  <2>2. Advances(t)
    BY <1>2 DEF Advances, Install, InstallRefused, InstallBegin, LookupFails, LookupSucceeds,
                UninstallBegin, Return, Goto
  <2>3. QED
    BY <2>1, <2>2 DEF OutsidePatch
<1>3. ASSUME NEW t \in Installer,
             InstallFails(t) \/ NotInstalled(t) \/ CheckEnabled(t) \/ DisableFails(t)
      PROVE  OutsidePatch(t)
  BY <1>3 DEF OutsidePatch, OnlyMoves, Native, Advances, InstallFails, NotInstalled,
              CheckEnabled, DisableFails, Return, Goto, callVars
<1>4. ASSUME NEW t \in Installer, Patch(t)
      PROVE  OnlyMoves(t)
  BY <1>4 DEF Patch, OnlyMoves, NewDetour, Enable, SetCell, SetCellTaken, Disable,
              ReturnHandle, Return, Goto, callVars
<1>5. QED
  BY <1>1, <1>2, <1>3, <1>4 DEF Next, ClientStep, Patch

(***************************************************************************)
(* A cell once set keeps its trampoline.                                   *)
(***************************************************************************)
LEMMA CellKept ==
  ASSUME TypeInv, [Next]_vars, NEW h \in Hook, detour[h] # NoDetour
  PROVE  detour'[h] # NoDetour /\ detour'[h].saved = detour[h].saved
<1>1. CASE UNCHANGED detour
  BY <1>1
<1>2. ASSUME NEW t \in Installer, SetCell(t)
      PROVE  detour'[h] = detour[h]
  BY <1>2 DEF SetCell, TypeInv, TypeOK
<1>3. ASSUME NEW t \in Installer, Disable(t)
      PROVE  detour'[h] # NoDetour /\ detour'[h].saved = detour[h].saved
  BY <1>3, DetourAssumption DEF Disable, TypeInv, TypeOK, RawDetour
<1>4. QED
  BY <1>1, <1>2, <1>3, StepKinds
     DEF CallerMoves, OutsidePatch, Native, Patch, NewDetour, Enable, SetCellTaken, vars

-----------------------------------------------------------------------------
(***************************************************************************)
(* The end of an install is the store of its cell, so what is backed stays *)
(* backed.                                                                 *)
(***************************************************************************)
LEMMA BackedKept ==
  ASSUME TypeInv, [Next]_vars
  PROVE  Backed \subseteq Backed'
<1> SUFFICES ASSUME NEW e \in Hook, detour[e] # NoDetour \/ Storing(e)
             PROVE  detour'[e] # NoDetour \/ Storing(e)'
  BY DEF Backed
<1>1. CASE detour[e] # NoDetour
  BY <1>1, CellKept
<1>2. ASSUME NEW t \in Installer, cur[t] = e, pc[t] = "store"
      PROVE  detour'[e] # NoDetour \/ Storing(e)'
  <2>1. CASE UNCHANGED <<pc, cur>>
    BY <2>1, <1>2 DEF Storing
  <2>2. CASE \E c \in Caller : CallerMoves(c)
    BY <2>2, <1>2 DEF CallerMoves, Storing
  <2>3. ASSUME NEW u \in Installer, OutsidePatch(u) \/ (OnlyMoves(u) /\ Patch(u)), u # t
        PROVE  Storing(e)'
    BY <2>3, <1>2 DEF OutsidePatch, OnlyMoves, Storing, Thread
  <2>4. CASE SetCell(t)
    BY <2>4, <1>2, DetourAssumption DEF SetCell, TypeInv, TypeOK
  <2>5. CASE SetCellTaken(t)
    BY <2>5, <1>2, CellKept DEF SetCellTaken
  <2>6. ~OutsidePatch(t) /\ ~NewDetour(t) /\ ~Enable(t) /\ ~Disable(t)
    BY <1>2 DEF OutsidePatch, NewDetour, Enable, Disable, Return, Goto
  <2>7. QED
    BY <2>1, <2>2, <2>3, <2>4, <2>5, <2>6, StepKinds DEF Patch, vars, clientVars
<1>3. QED
  BY <1>1, <1>2 DEF Storing

LEMMA InitBacked == Init => AllBacked
BY HookAssumption DEF Init, ClientInit, AllBacked, Backed, Entry, Thread

(***************************************************************************)
(* Code, saved prologues and calls under way only ever lead where one of   *)
(* them led before, or to a hook whose install is at its store.            *)
(***************************************************************************)
LEMMA NextBacked ==
  ASSUME TypeInv, AllBacked, [Next]_vars
  PROVE  AllBacked'
<1> USE HookAssumption DEF TypeInv, TypeOK, ClientTypeOK, Thread
<1>1. Backed \subseteq Backed'
  BY BackedKept
<1>2. CASE UNCHANGED vars
  BY <1>2, <1>1 DEF vars, clientVars, AllBacked
<1>3. ASSUME NEW c \in Caller, CallerMoves(c)
      PROVE  AllBacked'
  <2>1. /\ \A m \in Target : code'[m] \in Backed'
        /\ \A t \in Installer : pc'[t] \in {"enable", "store"} => new'[t].saved \in Backed'
        /\ \A h \in Hook : detour'[h] # NoDetour => detour'[h].saved \in Backed'
    BY <1>1, <1>3 DEF AllBacked, CallerMoves, Native
  <2>2. ASSUME NEW d \in Caller
        PROVE  /\ pc'[d] = "jump" => at'[d] \in Backed'
               /\ pc'[d] = "inhook" => cur'[d] \in Backed'
    <3>1. CASE d # c
      BY <3>1, <1>1, <1>3 DEF AllBacked, CallerMoves
    <3>2. CASE d = c
      <4>1. ASSUME NEW m \in Target, Call(c, m)
            PROVE  pc'[c] = "jump" /\ at'[c] \in Backed'
        BY <4>1, <1>1 DEF Call, Goto, AllBacked
      <4>2. CASE EnterHook(c)
        BY <4>2, <3>2, <1>1 DEF EnterHook, Goto, AllBacked
      <4>3. CASE RunOriginal(c) \/ SkipOriginal(c)
        BY <4>3, <3>2 DEF RunOriginal, SkipOriginal, Goto
      <4>4. CASE CallOriginal(c, original(cur[c]))
        <5>1. pc[c] = "inhook" /\ cur[c] \in Hook /\ original(cur[c]) \in Entry
          BY <4>4 DEF CallOriginal, Goto
        <5>2. detour[cur[c]] # NoDetour /\ original(cur[c]) = detour[cur[c]].saved
          BY <5>1 DEF original, Entry
        <5>3. QED
          BY <4>4, <3>2, <1>1, <5>1, <5>2 DEF CallOriginal, Goto, AllBacked
      <4>5. CASE OriginalPanics(c, original(cur[c]))
        BY <4>5, <3>2, <1>1 DEF OriginalPanics, AllBacked
      <4>6. QED
        BY <1>3, <3>2, <4>1, <4>2, <4>3, <4>4, <4>5 DEF CallerMoves, Continue
    <3>3. QED
      BY <3>1, <3>2
  <2>3. QED
    BY <2>1, <2>2 DEF AllBacked
<1>4. ASSUME NEW t \in Installer, OutsidePatch(t) \/ (OnlyMoves(t) /\ Patch(t))
      PROVE  AllBacked'
  <2>1. \A c \in Caller : /\ pc'[c] = "jump" => at'[c] \in Backed'
                          /\ pc'[c] = "inhook" => cur'[c] \in Backed'
    BY <1>4, <1>1 DEF AllBacked, OutsidePatch, OnlyMoves
  <2>2. CASE OutsidePatch(t)
    BY <2>1, <2>2, <1>1 DEF AllBacked, OutsidePatch, OnlyMoves, Native
  <2>3. CASE NewDetour(t)
    BY <1>1, <1>4, <2>1, <2>3 DEF AllBacked, OnlyMoves, NewDetour, Goto
  <2>4. CASE Enable(t)
    <3>1. cur[t] \in Backed'
      BY <2>4, BackedKept DEF Enable, Goto, Backed, Storing, Entry
    <3>2. \A u \in Installer : new'[u].saved = new[u].saved
      BY <2>4 DEF Enable, RawDetour
    <3>3. QED
      BY <1>1, <1>4, <2>1, <2>4, <3>1, <3>2 DEF AllBacked, OnlyMoves, Enable, Goto
  <2>5. CASE SetCell(t)
    BY <1>1, <1>4, <2>1, <2>5
       DEF AllBacked, OnlyMoves, SetCell, ReturnHandle, Return, Goto
  <2>6. CASE SetCellTaken(t)
    <3>1. \A u \in Installer : new'[u].saved = new[u].saved
      BY <2>6 DEF SetCellTaken, RawDetour
    <3>2. QED
      BY <1>1, <1>4, <2>1, <2>6, <3>1
         DEF AllBacked, OnlyMoves, SetCellTaken, ReturnHandle, Return, Goto
  <2>7. CASE Disable(t)
    <3>1. \A h \in Hook : detour'[h] # NoDetour => /\ detour[h] # NoDetour
                                                   /\ detour'[h].saved = detour[h].saved
      BY <2>7, CellKept DEF Disable, Return, Goto, UnhookSet
    <3>2. \A m \in Target : code'[m] \in Backed
      BY <2>7 DEF Disable, is_installed, Return, Goto, AllBacked
    <3>3. QED
      BY <1>1, <1>4, <2>1, <2>7, <3>1, <3>2 DEF AllBacked, OnlyMoves, Disable, Return, Goto
  <2>8. QED
    BY <1>4, <2>2, <2>3, <2>4, <2>5, <2>6, <2>7 DEF Patch
<1>5. QED
  BY <1>2, <1>3, <1>4, StepKinds

(***************************************************************************)
(* OriginalUnlessPublishing: whoever installs and uninstalls and in        *)
(* whatever order, a running hook has an original unless an install of it  *)
(* is between its patch and its store.                                     *)
(***************************************************************************)
THEOREM OriginalSafe == Spec => []OriginalUnlessPublishing
<1>1. TypeInv /\ AllBacked => OriginalUnlessPublishing
  <2> SUFFICES ASSUME TypeInv, AllBacked, NEW c \in Caller, pc[c] = "inhook",
                      original(cur[c]) = NoPtr
               PROVE  Publishing(cur[c])
    BY DEF OriginalUnlessPublishing
  <2>1. cur[c] \in Hook
    BY DEF TypeInv, TypeOK, ClientTypeOK, Thread
  <2>2. detour[cur[c]] = NoDetour
    <3> SUFFICES ASSUME detour[cur[c]] # NoDetour PROVE FALSE
      OBVIOUS
    <3>1. detour[cur[c]] \in RawDetour
      BY <2>1 DEF TypeInv, TypeOK
    <3>2. original(cur[c]) \in Entry
      BY <3>1 DEF original, RawDetour
    <3>3. QED
      BY <3>2, HookAssumption DEF Entry
  <2>3. QED
    BY <2>1, <2>2 DEF AllBacked, Backed, Storing, Publishing
<1>2. QED
  BY <1>1, InitType, NextType, InitBacked, NextBacked, PTL DEF Spec

-----------------------------------------------------------------------------
(***************************************************************************)
(* A hook that has its method for itself and is operated on by one thread  *)
(* at a time.  Its cell's flag and its method's code change in two steps   *)
(* of an install, and in one of an uninstall; before the first and after   *)
(* the last they agree.  What that rests on is that nothing saved, on a    *)
(* stack or in the cell, ever leads to the hook itself.                    *)
(***************************************************************************)
OneAtATime(h) ==
  \A t, u \in Installer :
    cur[t] = h /\ cur[u] = h /\ pc[t] # "idle" /\ pc[u] # "idle" => t = u

Agrees(h) ==
  /\ OneAtATime(h)
  /\ is_installed(h) => code[TargetOf[h]] = h
  /\ code[TargetOf[h]] = h => is_installed(h) \/ Storing(h)
  /\ \A t \in Installer : cur[t] = h =>
       /\ pc[t] \in {"lookup", "patch", "enable", "store"} => ~is_installed(h)
       /\ pc[t] \in {"enable", "store"} => new[t].saved # h
       /\ pc[t] = "store" => new[t].enabled /\ code[TargetOf[h]] = h
  /\ detour[h] # NoDetour => detour[h].saved # h

\* One thread installs, or the program takes turns on the hook's method.
TakesTurns(h) == TargetOf[h] \in Orderly \/ \A t, u \in Installer : t = u

LEMMA InitAgrees ==
  ASSUME Init, NEW h \in Hook
  PROVE  Agrees(h)
<1> USE HookAssumption DEF Init, ClientInit, Thread
<1>1. OneAtATime(h)
  BY DEF OneAtATime
<1>2. ~is_installed(h) /\ code[TargetOf[h]] # h /\ detour[h] = NoDetour
  BY DEF is_installed
<1>3. \A t \in Installer : pc[t] = "idle"
  OBVIOUS
<1> HIDE DEF Init, ClientInit
<1>4. QED
  BY <1>1, <1>2, <1>3 DEF Agrees

LEMMA NextOneAtATime ==
  ASSUME TypeInv, [Next]_vars, NEW h \in Hook, TakesTurns(h), OneAtATime(h)
  PROVE  OneAtATime(h)'
<1> USE HookAssumption DEF TypeInv, TypeOK, ClientTypeOK, Thread
<1>1. CASE \A t, u \in Installer : t = u
  BY <1>1 DEF OneAtATime
<1>2. CASE UNCHANGED <<pc, cur>> \/ \E c \in Caller : CallerMoves(c)
  BY <1>2 DEF OneAtATime, CallerMoves
<1>3. ASSUME NEW t \in Installer, OutsidePatch(t), TargetOf[h] \in Orderly
      PROVE  OneAtATime(h)'
  BY <1>3 DEF OneAtATime, OutsidePatch, OnlyMoves, Advances, Turn
<1>4. ASSUME NEW t \in Installer, OnlyMoves(t), Patch(t)
      PROVE  OneAtATime(h)'
  <2>1. pc[t] # "idle" /\ cur'[t] = cur[t]
    BY <1>4 DEF Patch, NewDetour, Enable, SetCell, SetCellTaken, Disable, ReturnHandle, Return, Goto
  <2>2. QED
    BY <1>4, <2>1 DEF OneAtATime, OnlyMoves
<1>5. QED
  BY <1>1, <1>2, <1>3, <1>4, StepKinds DEF TakesTurns, vars, clientVars

LEMMA NextAgrees ==
  ASSUME TypeInv, [Next]_vars, NEW h \in Hook, Alone(h), TakesTurns(h), Agrees(h)
  PROVE  Agrees(h)'
<1> USE HookAssumption DEF TypeInv, TypeOK, ClientTypeOK, Thread
<1>1. OneAtATime(h)'
  BY NextOneAtATime DEF Agrees
<1>2. CASE UNCHANGED vars
  BY <1>1, <1>2 DEF vars, clientVars, Agrees, Storing, is_installed
<1>3. ASSUME NEW c \in Caller, CallerMoves(c)
      PROVE  Agrees(h)'
  BY <1>1, <1>3 DEF Agrees, Storing, is_installed, CallerMoves, Native
<1>4. ASSUME NEW t \in Installer, OutsidePatch(t)
      PROVE  Agrees(h)'
  BY <1>1, <1>4 DEF Agrees, Storing, is_installed, OutsidePatch, OnlyMoves, Native, Advances
<1>5. ASSUME NEW t \in Installer, OnlyMoves(t), Patch(t), cur[t] # h
      PROVE  Agrees(h)'
  <2>1. /\ cur[t] \in Hook /\ TargetOf[cur[t]] # TargetOf[h] /\ cur'[t] = cur[t]
        /\ pc[t] # "idle"
    BY <1>5 DEF Alone, Patch, NewDetour, Enable, SetCell, SetCellTaken, Disable,
                ReturnHandle, Return, Goto
  <2>2. /\ UNCHANGED <<detour[h], code[TargetOf[h]]>>
        /\ \A u \in Installer : u # t => new'[u] = new[u]
    BY <1>5, <2>1 DEF Patch, NewDetour, Enable, SetCell, SetCellTaken, Disable
  <2>3. \A u \in Installer : cur'[u] = h => UNCHANGED <<pc[u], cur[u], new[u]>>
    BY <1>5, <2>1, <2>2 DEF OnlyMoves
  <2>4. \A u \in Installer : cur[u] = h => cur'[u] = h
    BY <1>5, <2>1 DEF OnlyMoves
  <2>5. QED
    BY <1>1, <2>2, <2>3, <2>4 DEF Agrees, Storing, is_installed
<1>6. ASSUME NEW t \in Installer, OnlyMoves(t), Patch(t), cur[t] = h
      PROVE  Agrees(h)'
  <2>1. /\ pc[t] # "idle" /\ cur' = cur
        /\ \A u \in Installer : u # t => pc'[u] = pc[u]
    BY <1>6 DEF OnlyMoves, Patch, NewDetour, Enable, SetCell, SetCellTaken, Disable,
                ReturnHandle, Return, Goto
  <2>2. \A u \in Installer : u # t /\ cur[u] = h => pc[u] = "idle"
    BY <1>6, <2>1 DEF Agrees, OneAtATime
  <2>3. new[t] \in RawDetour
    OBVIOUS
  <2>4. CASE NewDetour(t)
    <3>1. ~is_installed(h) /\ code[TargetOf[h]] # h
      BY <1>6, <2>2, <2>4 DEF Agrees, NewDetour, Goto, Storing
    <3>2. UNCHANGED <<code, detour>> /\ pc'[t] = "enable" /\ new'[t].saved # h
      BY <1>6, <2>4, <3>1 DEF NewDetour, Goto
    <3>3. QED
      BY <1>1, <1>6, <2>1, <2>2, <3>1, <3>2 DEF Agrees, is_installed
  <2>5. CASE Enable(t)
    <3>1. /\ code'[TargetOf[h]] = h /\ UNCHANGED detour /\ pc'[t] = "store"
          /\ new'[t].saved # h /\ new'[t].enabled
      BY <1>6, <2>3, <2>5 DEF Agrees, Enable, Goto, RawDetour
    <3>2. ~is_installed(h)'
      BY <1>6, <2>5 DEF Agrees, Enable, Goto, is_installed
    <3>3. QED
      BY <1>1, <1>6, <2>1, <2>2, <3>1, <3>2 DEF Agrees, Storing, is_installed
  <2>6. CASE SetCell(t)
    <3>1. /\ detour'[h] = new[t] /\ new[t].enabled /\ new[t].saved # h
          /\ code[TargetOf[h]] = h
          /\ pc[t] = "store" /\ pc'[t] = "idle" /\ UNCHANGED code
      BY <1>6, <2>6 DEF Agrees, SetCell, ReturnHandle, Return, Goto
    <3>2. is_installed(h)'
      BY <2>3, <3>1, DetourAssumption DEF is_installed
    <3>3. QED
      BY <1>1, <1>6, <2>1, <2>2, <3>1, <3>2 DEF Agrees
  <2>7. CASE SetCellTaken(t)
    <3>1. /\ code'[TargetOf[h]] # h /\ UNCHANGED detour /\ ~is_installed(h)
          /\ pc'[t] = "idle"
      BY <1>6, <2>7 DEF Agrees, SetCellTaken, ReturnHandle, Return, Goto
    <3>2. QED
      BY <1>1, <1>6, <2>1, <2>2, <3>1 DEF Agrees, is_installed
  <2>8. CASE Disable(t)
    <3>1. detour[h] \in RawDetour /\ pc[t] = "unhook" /\ pc'[t] = "idle"
      BY <1>6, <2>8 DEF Disable, Return, Goto, UnhookSet
    <3>2. ~is_installed(h)' /\ detour'[h].saved = detour[h].saved
      BY <1>6, <2>8, <3>1 DEF Disable, is_installed, RawDetour
    <3>3. code'[TargetOf[h]] # h
      BY <1>6, <2>2, <2>8, <3>1, DetourAssumption DEF Disable, Agrees, Storing
    <3>4. detour[h] # NoDetour
      BY <3>1, DetourAssumption
    <3>5. QED
      BY <1>1, <1>6, <2>1, <2>2, <3>1, <3>2, <3>3, <3>4 DEF Agrees
  <2>9. QED
    BY <1>6, <2>4, <2>5, <2>6, <2>7, <2>8 DEF Patch
<1>7. QED
  BY <1>2, <1>3, <1>4, <1>5, <1>6, StepKinds

(***************************************************************************)
(* InstalledIsPatched: for every hook that has its method for itself,      *)
(* is_installed is right between operations, through failed enables and    *)
(* disables and through reinstalls, whose detour the full cell refuses;    *)
(* with one installing thread, or with any number that take turns.  Two    *)
(* that do not can leave the flag up and the method unpatched.             *)
(***************************************************************************)
THEOREM InstalledSaysPatched ==
  ASSUME \A h \in Hook : Alone(h) => TakesTurns(h)
  PROVE  Spec => []InstalledIsPatched
<1> DEFINE Agreement == \A h \in Hook : Alone(h) => Agrees(h)
<1>1. Init => TypeInv /\ Agreement
  BY InitType, InitAgrees
<1>2. TypeInv /\ Agreement /\ [Next]_vars => (TypeInv /\ Agreement)'
  BY NextType, NextAgrees DEF Alone
<1>3. Agreement => InstalledIsPatched
  BY DEF Agrees, InstalledIsPatched, Storing, Idle
<1> HIDE DEF Agreement
<1>4. QED
  BY <1>1, <1>2, <1>3, PTL DEF Spec

-----------------------------------------------------------------------------
(***************************************************************************)
(* From here on, one thread installs.                                      *)
(***************************************************************************)
OneInstaller == \A t, u \in Installer : t = u

PathInv == SavedSet /\ NoCycle /\ CallPath

LEMMA InitPath == Init => PathInv
<1> SUFFICES ASSUME Init PROVE PathInv
  OBVIOUS
<1> USE HookAssumption, DetourAssumption DEF Init, ClientInit, Thread
<1>1. SavedSet
  BY DEF SavedSet, CellSet, Entry
<1>2. NoCycle
  BY DEF NoCycle
<1>3. CallPath
  BY DEF CallPath
<1>4. QED
  BY <1>1, <1>2, <1>3 DEF PathInv

LEMMA SetKept == ASSUME TypeInv, [Next]_vars PROVE CellSet \subseteq CellSet'
BY CellKept DEF CellSet

(***************************************************************************)
(* With nobody else installing, what NewDetour finds at the method is the  *)
(* method or a hook whose cell is set.                                     *)
(***************************************************************************)
LEMMA NextSaved ==
  ASSUME OneInstaller, TypeInv, SavedSet, [Next]_vars
  PROVE  SavedSet'
<1> USE HookAssumption DEF TypeInv, TypeOK, ClientTypeOK, Thread
<1>1. CellSet \subseteq CellSet'
  BY SetKept
<1>2. CASE UNCHANGED vars
  BY <1>2, <1>1 DEF vars, clientVars, SavedSet, Storing
<1>3. ASSUME NEW c \in Caller, CallerMoves(c)
      PROVE  SavedSet'
  BY <1>1, <1>3 DEF SavedSet, Storing, CallerMoves, Native
<1>4. ASSUME NEW t \in Installer, OutsidePatch(t)
      PROVE  SavedSet'
  <2>1. \A u \in Installer : u = t
    BY DEF OneInstaller
  <2>2. \A e : ~Storing(e)
    BY <1>4, <2>1 DEF Storing, OutsidePatch
  <2>3. QED
    BY <1>1, <1>4, <2>1, <2>2 DEF SavedSet, OutsidePatch, Native
<1>5. ASSUME NEW t \in Installer, OnlyMoves(t), Patch(t)
      PROVE  SavedSet'
  <2>1. \A u \in Installer : u = t
    BY DEF OneInstaller
  <2>2. pc[t] # "store" => \A e : ~Storing(e)
    BY <2>1 DEF Storing
  <2>3. \A e : Storing(e) => e = cur[t]
    BY <2>1 DEF Storing
  <2>4. CASE NewDetour(t)
    <3>1. code[TargetOf[cur[t]]] \in CellSet
      BY <2>4, <2>2 DEF NewDetour, Goto, SavedSet
    <3>2. QED
      BY <1>1, <2>1, <2>2, <2>4, <3>1 DEF SavedSet, NewDetour, Goto
  <2>5. CASE Enable(t)
    <3>1. Storing(cur[t])'
      BY <2>5 DEF Enable, Goto, Storing
    <3>2. new'[t].saved = new[t].saved
      BY <2>5 DEF Enable, RawDetour
    <3>3. \A m \in Target : code'[m] \in CellSet \/ code'[m] = cur[t]
      BY <2>5, <2>2 DEF Enable, Goto, SavedSet
    <3>4. cur'[t] = cur[t]
      BY <2>5 DEF Enable
    <3>5. QED
      BY <1>1, <2>1, <2>5, <3>1, <3>2, <3>3, <3>4 DEF SavedSet, Enable, Goto
  <2>6. CASE SetCell(t)
    <3>1. cur[t] \in CellSet'
      BY <2>6, DetourAssumption DEF SetCell, ReturnHandle, Return, Goto, CellSet, Entry
    <3>2. \A m \in Target : code'[m] \in CellSet'
      BY <1>1, <2>3, <2>6, <3>1 DEF SetCell, SavedSet
    <3>3. \A h \in Hook : detour'[h] # NoDetour => detour'[h].saved \in CellSet
      BY <2>6 DEF SetCell, ReturnHandle, Return, Goto, SavedSet
    <3>4. QED
      BY <1>1, <2>1, <2>6, <3>2, <3>3
         DEF SavedSet, SetCell, ReturnHandle, Return, Goto
  <2>7. CASE SetCellTaken(t)
    <3>1. cur[t] \in CellSet
      BY <2>7 DEF SetCellTaken, ReturnHandle, Return, Goto, CellSet, Entry
    <3>2. \A m \in Target : code'[m] \in CellSet
      BY <2>3, <2>7, <3>1 DEF SetCellTaken, ReturnHandle, Return, Goto, SavedSet
    <3>3. QED
      BY <1>1, <2>1, <2>7, <3>2 DEF SavedSet, SetCellTaken, ReturnHandle, Return, Goto
  <2>8. CASE Disable(t)
    <3>1. \A h \in Hook : detour'[h] # NoDetour => /\ detour[h] # NoDetour
                                                   /\ detour'[h].saved = detour[h].saved
      BY <2>8, CellKept DEF Disable, Return, Goto, UnhookSet
    <3>2. \A m \in Target : code'[m] \in CellSet
      BY <2>2, <2>8 DEF Disable, is_installed, Return, Goto, SavedSet
    <3>3. QED
      BY <1>1, <2>1, <2>8, <3>1, <3>2 DEF SavedSet, Disable, Return, Goto
  <2>9. QED
    BY <1>5, <2>4, <2>5, <2>6, <2>7, <2>8 DEF Patch
<1>6. QED
  BY <1>2, <1>3, <1>4, <1>5, StepKinds

(***************************************************************************)
(* A cell is set to a trampoline that leads to set cells only, so not back *)
(* to itself, and no saved prologue led to it: it closes no cycle.         *)
(***************************************************************************)
LEMMA NextNoCycle ==
  ASSUME TypeInv, SavedSet, NoCycle, [Next]_vars
  PROVE  NoCycle'
<1>1. ASSUME \A h \in Hook : detour'[h] # NoDetour =>
               detour[h] # NoDetour /\ detour'[h].saved = detour[h].saved
      PROVE  NoCycle'
  BY <1>1 DEF NoCycle
<1>2. ASSUME NEW t \in Installer, SetCell(t)
      PROVE  NoCycle'
  <2> DEFINE h == cur[t]
  <2>1. /\ h \in Hook /\ detour[h] = NoDetour
        /\ detour'[h] = new[t]
        /\ \A g \in Hook : g # h => detour'[g] = detour[g]
    BY <1>2, HookAssumption
       DEF SetCell, ReturnHandle, Return, Goto, TypeInv, TypeOK, ClientTypeOK, Thread
  <2>2. new[t].saved \in CellSet
    BY <1>2 DEF SetCell, ReturnHandle, Return, Goto, SavedSet
  <2>3. h \notin CellSet
    BY <2>1 DEF CellSet
  <2> HIDE DEF h
  <2> SUFFICES ASSUME NEW S \in SUBSET Hook, S # {}
               PROVE  \E g \in S : detour'[g] = NoDetour \/ detour'[g].saved \notin S
    BY DEF NoCycle
  <2>4. CASE S = {h}
    BY <2>1, <2>2, <2>3, <2>4
  <2>5. CASE S # {h}
    <3>1. S \ {h} \in SUBSET Hook /\ S \ {h} # {}
      BY <2>5
    <3>2. PICK g \in S \ {h} : detour[g] = NoDetour \/ detour[g].saved \notin S \ {h}
      BY <3>1 DEF NoCycle
    <3>3. detour[g] # NoDetour => detour[g].saved # h
      BY <2>3, <3>2 DEF SavedSet
    <3>4. QED
      BY <2>1, <3>2, <3>3
  <2>6. QED
    BY <2>4, <2>5
<1>3. ASSUME NEW t \in Installer, Disable(t), NEW h \in Hook, detour'[h] # NoDetour
      PROVE  detour[h] # NoDetour
  BY <1>3 DEF Disable, Return, Goto, TypeInv, TypeOK, UnhookSet
<1>4. QED
  BY <1>1, <1>2, <1>3, CellKept, StepKinds
     DEF CallerMoves, OutsidePatch, Native, Patch, NewDetour, Enable, SetCellTaken, vars

(***************************************************************************)
(* A call keeps off the hooks behind it: a trampoline leading to one of    *)
(* them would make the hooks behind it a closed set.                       *)
(***************************************************************************)
LEMMA NextPath ==
  ASSUME TypeInv, NoCycle, CallPath, [Next]_vars
  PROVE  CallPath'
<1> USE HookAssumption DEF TypeInv, TypeOK, ClientTypeOK, Thread
<1>1. ASSUME NEW c \in Caller, UNCHANGED <<pc[c], cur[c], at[c], ran[c]>>
      PROVE  /\ pc'[c] = "jump" => at'[c] \notin ran'[c] /\ Followed(c, ran[c], at[c])'
             /\ pc'[c] = "inhook" => /\ cur'[c] \in ran'[c]
                                     /\ Followed(c, ran[c] \ {cur[c]}, cur[c])'
  BY <1>1, CellKept DEF CallPath, Followed
<1>2. CASE UNCHANGED vars
  BY <1>1, <1>2 DEF vars, clientVars, CallPath
<1>3. ASSUME NEW t \in Installer, UNCHANGED <<at, ran>>,
             \A u \in Thread : u # t => pc'[u] = pc[u] /\ cur'[u] = cur[u]
      PROVE  CallPath'
  <2>1. \A c \in Caller : UNCHANGED <<pc[c], cur[c], at[c], ran[c]>>
    BY <1>3
  <2>2. QED
    BY <1>1, <2>1 DEF CallPath
<1>4. ASSUME NEW c \in Caller, CallerMoves(c)
      PROVE  CallPath'
  <2>1. UNCHANGED detour
    BY <1>4 DEF CallerMoves, Native
  <2>2. ASSUME NEW d \in Caller, d # c
        PROVE  UNCHANGED <<pc[d], cur[d], at[d], ran[d]>>
    BY <1>4, <2>2 DEF CallerMoves
  <2>3. /\ pc'[c] = "jump" => at'[c] \notin ran'[c] /\ Followed(c, ran[c], at[c])'
        /\ pc'[c] = "inhook" => /\ cur'[c] \in ran'[c]
                                /\ Followed(c, ran[c] \ {cur[c]}, cur[c])'
    <3>1. ASSUME NEW m \in Target, Call(c, m)
          PROVE  /\ pc'[c] = "jump" /\ ran'[c] = {}
                 /\ Followed(c, ran[c], at[c])'
      BY <3>1 DEF Call, Goto, Followed
    <3>2. CASE EnterHook(c)
      <4>1. /\ pc[c] = "jump" /\ pc'[c] = "inhook"
            /\ cur'[c] = at[c] /\ ran'[c] = ran[c] \cup {at[c]}
        BY <3>2 DEF EnterHook, Goto
      <4>2. at[c] \notin ran[c] /\ Followed(c, ran[c], at[c])
        BY <4>1 DEF CallPath
      <4>3. QED
        BY <2>1, <4>1, <4>2 DEF Followed
    <3>3. CASE RunOriginal(c) \/ SkipOriginal(c)
      BY <3>3 DEF RunOriginal, SkipOriginal, Goto
    <3>4. CASE CallOriginal(c, original(cur[c]))
      <4>1. /\ pc[c] = "inhook" /\ pc'[c] = "jump"
            /\ at'[c] = original(cur[c]) /\ original(cur[c]) \in Entry
            /\ UNCHANGED <<cur, ran>>
        BY <3>4 DEF CallOriginal, Goto
      <4>2. /\ cur[c] \in ran[c] /\ Followed(c, ran[c] \ {cur[c]}, cur[c])
            /\ ran[c] \in SUBSET Hook
        BY <4>1 DEF CallPath
      <4>3. detour[cur[c]] # NoDetour /\ original(cur[c]) = detour[cur[c]].saved
        BY <4>1 DEF original, Entry
      <4>4. \A g \in ran[c] : detour[g] # NoDetour /\ detour[g].saved \in ran[c] \cup {at'[c]}
        BY <4>1, <4>2, <4>3 DEF Followed
      <4>5. at'[c] \notin ran[c]
        BY <4>2, <4>4 DEF NoCycle
      <4>6. QED
        BY <2>1, <4>1, <4>4, <4>5 DEF Followed
    <3>5. CASE OriginalPanics(c, original(cur[c]))
      BY <1>1, <3>5 DEF OriginalPanics
    <3>6. QED
      BY <1>4, <3>1, <3>2, <3>3, <3>4, <3>5 DEF CallerMoves, Continue
  <2>4. QED
    BY <1>1, <2>2, <2>3 DEF CallPath
<1>5. QED
  BY <1>2, <1>3, <1>4, StepKinds DEF OutsidePatch, OnlyMoves

(***************************************************************************)
(* NoHookTwice: with one installing thread, however many hooks share a     *)
(* method and however they are installed and uninstalled while threads run *)
(* them, no call enters a hook twice.                                      *)
(***************************************************************************)
THEOREM NoHookEnteredTwice ==
  ASSUME OneInstaller
  PROVE  Spec => []NoHookTwice
<1>1. Init => TypeInv /\ PathInv
  BY InitType, InitPath
<1>2. TypeInv /\ PathInv /\ [Next]_vars => (TypeInv /\ PathInv)'
  BY OneInstaller, NextType, NextSaved, NextNoCycle, NextPath DEF PathInv
<1>3. PathInv => NoHookTwice
  BY DEF PathInv, CallPath, NoHookTwice
<1>4. QED
  BY <1>1, <1>2, <1>3, PTL DEF Spec
=============================================================================
