-------------------------- MODULE HookClientProofs --------------------------
(***************************************************************************)
(* What the steps around every backend do to the state they share: lemmas  *)
(* for the proofs about the backends.                                      *)
(***************************************************************************)
EXTENDS HookClient, TLAPS

\* The program starts with nothing installed and every thread idle.
LEMMA ClientInitType == ClientInit => ClientTypeOK
<1> SUFFICES ASSUME ClientInit PROVE ClientTypeOK
  OBVIOUS
<1> USE HookAssumption DEF ClientInit
<1>1. pc \in [Thread -> InstallerPC \cup CallerPC] /\ \A t \in Thread : pc[t] = "idle"
  BY DEF InstallerPC
<1>2. cur \in [Thread -> Hook \cup {NoPtr}]
  OBVIOUS
<1>3. at \in [Caller -> Entry] /\ code \in [Target -> Entry]
  BY DEF Entry
<1>4. ran \in [Caller -> SUBSET Hook] /\ handles \in [Hook -> Nat]
  OBVIOUS
<1>5. result \in [Installer -> InstallResult \cup UninstallResult \cup {"none"}]
  OBVIOUS
<1>6. installs \in 0 .. MaxInstalls
  OBVIOUS
<1>7. aborted \in BOOLEAN
  OBVIOUS
<1>8. /\ \A t \in Installer : pc[t] \in InstallerPC
      /\ \A c \in Caller : pc[c] \in CallerPC
      /\ \A t \in Thread : pc[t] \notin {"idle", "jump"} => cur[t] \in Hook
  BY <1>1 DEF Thread, InstallerPC, CallerPC
<1> HIDE DEF ClientInit
<1>9. QED
  BY <1>1, <1>2, <1>3, <1>4, <1>5, <1>6, <1>7, <1>8 DEF ClientTypeOK

\* A caller's steps, whatever `original` is, keep the types.
LEMMA CallerKeepsType ==
  ASSUME ClientTypeOK, NEW c \in Caller, NEW original, NEW m,
         \/ EnterHook(c) \/ RunOriginal(c) \/ SkipOriginal(c)
         \/ CallOriginal(c, original) \/ OriginalPanics(c, original)
         \/ m \in Target /\ Call(c, m)
  PROVE  ClientTypeOK'
<1> USE HookAssumption DEF ClientTypeOK, Thread, InstallerPC, CallerPC
<1>1. CASE EnterHook(c)
  BY <1>1 DEF EnterHook, Goto
<1>2. CASE RunOriginal(c)
  BY <1>2 DEF RunOriginal, Goto, callVars
<1>3. CASE SkipOriginal(c)
  BY <1>3 DEF SkipOriginal, Goto, callVars
<1>4. CASE CallOriginal(c, original)
  BY <1>4 DEF CallOriginal, Goto
<1>5. CASE OriginalPanics(c, original)
  BY <1>5 DEF OriginalPanics
<1>6. CASE m \in Target /\ Call(c, m)
  BY <1>6 DEF Call, Goto
<1>7. QED
  BY <1>1, <1>2, <1>3, <1>4, <1>5, <1>6

\* So do an installer's, whatever is_installed answers.
LEMMA InstallerKeepsType ==
  ASSUME ClientTypeOK, NEW t \in Installer, NEW h, NEW installed,
         \/ LookupFails(t) \/ LookupSucceeds(t)
         \/ h \in Hook /\ \/ InstallRefused(t, h, installed)
                          \/ InstallBegin(t, h, installed)
                          \/ UninstallBegin(t, h)
  PROVE  ClientTypeOK'
<1> USE HookAssumption DEF ClientTypeOK, Thread, InstallerPC, CallerPC, callVars
<1>1. CASE h \in Hook /\ InstallRefused(t, h, installed)
  BY <1>1 DEF InstallRefused, Return, Goto, InstallResult
<1>2. CASE h \in Hook /\ InstallBegin(t, h, installed)
  BY <1>2 DEF InstallBegin, Goto
<1>3. CASE LookupFails(t)
  BY <1>3 DEF LookupFails, Return, Goto, InstallResult
<1>4. CASE LookupSucceeds(t)
  BY <1>4 DEF LookupSucceeds, Goto
<1>5. CASE h \in Hook /\ UninstallBegin(t, h)
  BY <1>5 DEF UninstallBegin, Goto
<1>6. QED
  BY <1>1, <1>2, <1>3, <1>4, <1>5

\* And the steps of a backend that go from one place to another, or return.
LEMMA BackendKeepsType ==
  ASSUME ClientTypeOK, NEW t \in Installer, NEW to \in InstallerPC,
         NEW from \in InstallerPC \ {"idle"}, NEW r \in InstallResult \cup UninstallResult,
         UNCHANGED <<cur, callVars, installs>>, code' \in [Target -> Entry],
         \/ Goto(t, from, to) /\ UNCHANGED <<handles, result>>
         \/ Return(t, from, r) /\ UNCHANGED handles
         \/ ReturnHandle(t, from)
  PROVE  ClientTypeOK'
<1> USE HookAssumption DEF ClientTypeOK, Thread, callVars
<1>0. "idle" \in InstallerPC /\ "Ok" \in InstallResult
  BY DEF InstallerPC, InstallResult
<1>1. CASE Goto(t, from, to) /\ UNCHANGED <<handles, result>>
  BY <1>1 DEF Goto, InstallerPC
<1>2. CASE Return(t, from, r) /\ UNCHANGED handles
  BY <1>0, <1>2 DEF Return, Goto
<1>3. CASE ReturnHandle(t, from)
  <2>1. cur[t] \in Hook
    BY <1>3 DEF ReturnHandle, Return, Goto, InstallerPC
  <2>2. handles' \in [Hook -> Nat]
    BY <1>3, <2>1 DEF ReturnHandle
  <2>3. QED
    BY <1>0, <1>3, <2>2 DEF ReturnHandle, Return, Goto
<1>4. QED
  BY <1>1, <1>2, <1>3

-----------------------------------------------------------------------------
\* What a step of an installer before and around its backend leaves alone, and
\* what it may do to where the installer is.
LEMMA InstallerMoves ==
  ASSUME ClientTypeOK, NEW t \in Installer, NEW h, NEW installed,
         \/ LookupFails(t) \/ LookupSucceeds(t)
         \/ h \in Hook /\ \/ InstallRefused(t, h, installed)
                          \/ InstallBegin(t, h, installed)
                          \/ UninstallBegin(t, h)
  PROVE  /\ UNCHANGED <<code, at, ran>>
         /\ \A u \in Thread \ {t} : pc'[u] = pc[u] /\ cur'[u] = cur[u]
         /\ pc[t] \in {"idle", "lookup"}
         /\ \/ pc'[t] = "idle"
            \/ pc[t] = "idle" /\ pc'[t] = "lookup" /\ ~installed /\ cur'[t] = h
            \/ pc[t] = "lookup" /\ pc'[t] = "patch" /\ cur'[t] = cur[t]
            \/ pc[t] = "idle" /\ pc'[t] = "check"
BY HookAssumption DEF ClientTypeOK, Thread, InstallRefused, InstallBegin, LookupFails,
   LookupSucceeds, UninstallBegin, Return, Goto, callVars

\* What a caller's step leaves alone.
LEMMA CallerMoves ==
  ASSUME ClientTypeOK, NEW c \in Caller, NEW original, NEW m,
         \/ EnterHook(c) \/ RunOriginal(c) \/ SkipOriginal(c)
         \/ CallOriginal(c, original) \/ OriginalPanics(c, original)
         \/ m \in Target /\ Call(c, m)
  PROVE  /\ UNCHANGED code
         /\ \A u \in Thread \ {c} : pc'[u] = pc[u] /\ cur'[u] = cur[u]
         /\ \A d \in Caller \ {c} : at'[d] = at[d]
BY HookAssumption DEF ClientTypeOK, Thread, EnterHook, RunOriginal, SkipOriginal, CallOriginal,
   OriginalPanics, Call, Goto, callVars

-----------------------------------------------------------------------------
(***************************************************************************)
(* The methods the program takes turns on: what a backend's proof needs of *)
(* a step of an installer to know that its hook's method is its own.       *)
(***************************************************************************)
OneATime ==
  \A t, u \in Installer :
    /\ pc[t] # "idle" /\ pc[u] # "idle"
    /\ TargetOf[cur[t]] = TargetOf[cur[u]] /\ TargetOf[cur[t]] \in Orderly
    => t = u

\* t is the only thread that moves, and it works on cur'[t].
Operates(t) ==
  /\ UNCHANGED <<at, ran>>
  /\ \A u \in Thread \ {t} : pc'[u] = pc[u] /\ cur'[u] = cur[u]
  /\ cur'[t] \in Hook
  /\ pc[t] # "idle" => cur'[t] = cur[t]
  /\ pc[t] = "idle" => Turn(cur'[t])

LEMMA Solo ==
  ASSUME OneATime, NEW t \in Installer, Operates(t), TargetOf[cur'[t]] \in Orderly
  PROVE  \A u \in Installer \ {t} : pc[u] # "idle" => TargetOf[cur[u]] # TargetOf[cur'[t]]
BY DEF OneATime, Operates, Turn

LEMMA OneATimeKept ==
  ASSUME OneATime,
         \/ UNCHANGED <<pc, cur>>
         \/ \A u \in Installer : pc'[u] = pc[u] /\ cur'[u] = cur[u]
         \/ \E t \in Installer : Operates(t)
  PROVE  OneATime'
<1>1. ASSUME NEW t \in Installer, Operates(t)
      PROVE  OneATime'
  <2>1. \A u \in Installer \ {t} : pc'[u] = pc[u] /\ cur'[u] = cur[u]
    BY <1>1 DEF Operates, Thread
  <2>2. QED
    BY <1>1, <2>1, Solo DEF OneATime
<1>2. QED
  BY <1>1 DEF OneATime

(***************************************************************************)
(* The phase that HookContract knows of a hook, from where the one thread  *)
(* that operates on it is.                                                 *)
(***************************************************************************)
PublishPC == {"store", "store2"}
RemovePC == {"check", "unhook", "clear", "clear2"}

PhaseAt(p, installed) ==
  IF p \in PublishPC THEN "publishing"
  ELSE IF p \in RemovePC THEN "removing"
  ELSE IF installed THEN "installed" ELSE "absent"

\* The hook that an installer's step works on.
LEMMA OwnPlace ==
  ASSUME OneATime, NEW t \in Installer, Operates(t), NEW h \in Hook, cur'[t] = h,
         TargetOf[h] \in Orderly
  PROVE  /\ \A u \in Installer \ {t} : (cur[u] = h => pc[u] = "idle") /\ (cur'[u] = h => pc'[u] = "idle")
         /\ Publishing(h) <=> pc[t] \in PublishPC
         /\ Uninstalling(h) <=> pc[t] \in RemovePC
         /\ Publishing(h)' <=> pc'[t] \in PublishPC
         /\ Uninstalling(h)' <=> pc'[t] \in RemovePC
<1>1. \A u \in Installer \ {t} : (cur[u] = h => pc[u] = "idle") /\ (cur'[u] = h => pc'[u] = "idle")
  BY Solo DEF Operates, Thread
<1>2. pc[t] # "idle" => cur[t] = h
  BY DEF Operates
<1>3. /\ Publishing(h) <=> pc[t] \in PublishPC
      /\ Uninstalling(h) <=> pc[t] \in RemovePC
  BY <1>1, <1>2 DEF Publishing, Uninstalling, PublishPC, RemovePC
<1>4. /\ Publishing(h)' <=> pc'[t] \in PublishPC
      /\ Uninstalling(h)' <=> pc'[t] \in RemovePC
  BY <1>1 DEF Publishing, Uninstalling, PublishPC, RemovePC
<1>5. QED
  BY <1>1, <1>3, <1>4

\* And the others.
LEMMA OtherPlace ==
  ASSUME NEW t \in Installer, Operates(t), NEW h, cur'[t] # h
  PROVE  /\ Publishing(h)' <=> Publishing(h)
         /\ Uninstalling(h)' <=> Uninstalling(h)
         /\ Idle(h)' => Idle(h)
         /\ \A u \in Installer : cur'[u] = h => cur[u] = h /\ pc'[u] = pc[u]
<1>1. \A u \in Installer : (cur'[u] = h /\ pc'[u] # "idle") <=> (cur[u] = h /\ pc[u] # "idle")
  BY DEF Operates, Thread
<1>2. \A u \in Installer : cur[u] = h /\ pc[u] # "idle" => pc'[u] = pc[u]
  BY DEF Operates, Thread
<1>3. Publishing(h)' <=> Publishing(h)
  BY <1>1, <1>2 DEF Publishing
<1>4. Uninstalling(h)' <=> Uninstalling(h)
  BY <1>1, <1>2 DEF Uninstalling
<1>5. Idle(h)' => Idle(h)
  BY <1>1, <1>2 DEF Idle
<1>6. \A u \in Installer : cur'[u] = h => cur[u] = h /\ pc'[u] = pc[u]
  BY DEF Operates, Thread
<1>7. QED
  BY <1>3, <1>4, <1>5, <1>6
=============================================================================
