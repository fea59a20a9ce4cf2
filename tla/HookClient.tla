----------------------------- MODULE HookClient -----------------------------
(***************************************************************************)
(* What every function-hook backend of quest_hook has around it:           *)
(*   - the `install` and `original` methods that `#[hook]` generates       *)
(*     (proc_macros/src/hook.rs) and `HookHandle` (src/hook.rs), run by    *)
(*     the threads in Installer;                                           *)
(*   - the threads in Caller, which run the patched program: they call a   *)
(*     target, run the hooks its first instructions lead to, and go on     *)
(*     through the trampoline that `original` hands out.                   *)
(* A backend module supplies the state of its FunctionHook cells and the   *)
(* steps of its install and uninstall, and instantiates the actions below  *)
(* with its own `is_installed` and `original`.                             *)
(***************************************************************************)
EXTENDS Naturals, FiniteSets

CONSTANTS
  Installer,    \* threads that install and uninstall hooks
  Caller,       \* threads that call the hooked methods
  Hook,         \* the statics `#[hook]` defines, each holding a FunctionHook
  Target,       \* the il2cpp methods that can be hooked
  TargetOf,     \* the method each hook was declared for
  Orig,         \* what an unpatched method, or its relocated prologue, runs
  NoPtr,        \* a null pointer or None
  MaxInstalls,  \* bound: installs that get past the is_installed check
  Orderly,      \* the methods whose hooks the program installs and uninstalls
                \* one operation after the other, whatever the threads
  UninstallQuiet  \* whether the program keeps the contract of the backends'
                  \* uninstall, "No other thread may be currently executing
                  \* inside the hook" (detour.rs:48); HookHandle's safe
                  \* uninstall does not ask for it

ASSUME HookAssumption ==
  /\ Installer \cap Caller = {}
  /\ TargetOf \in [Hook -> Target]
  /\ Orig \notin Hook
  /\ NoPtr \notin Hook \cup Target \cup {Orig}
  /\ MaxInstalls \in Nat
  /\ Orderly \subseteq Target
  /\ UninstallQuiet \in BOOLEAN

Thread == Installer \cup Caller

\* What a stretch of code starts with: the method itself, or a jump to a hook.
Entry == Hook \cup {Orig}

VARIABLES
  pc,        \* where each thread is
  cur,       \* the hook each thread works on (an installer) or runs (a caller)
  at,        \* the entry a caller is about to execute
  ran,       \* the hooks a caller's current call has already entered
  code,      \* what the first instructions of each method lead to
  handles,   \* HookHandles the program holds for each hook
  result,    \* what an installer's last operation returned
  installs,  \* installs that got past the is_installed check (bounded)
  aborted    \* a hook panicked across `extern "C"`: the process is gone

callVars == <<at, ran, aborted>>
clientVars == <<pc, cur, at, ran, code, handles, result, installs, aborted>>

InstallResult == {"Ok", "AlreadyInstalled", "ClassNotFound",
                  "MethodNotFound", "InstallError", "Panic"}
UninstallResult == {"Removed", "NotInstalled", "Unsupported", "Failed"}

InstallerPC == {"idle", "lookup", "patch", "enable", "store", "store2",
                "check", "unhook", "clear", "clear2"}
CallerPC == {"idle", "jump", "inhook"}

ClientTypeOK ==
  /\ pc \in [Thread -> InstallerPC \cup CallerPC]
  /\ \A t \in Installer : pc[t] \in InstallerPC
  /\ \A c \in Caller : pc[c] \in CallerPC
  /\ cur \in [Thread -> Hook \cup {NoPtr}]
  /\ \A t \in Thread : pc[t] \notin {"idle", "jump"} => cur[t] \in Hook
  /\ at \in [Caller -> Entry]
  /\ ran \in [Caller -> SUBSET Hook]
  /\ code \in [Target -> Entry]
  /\ handles \in [Hook -> Nat]
  /\ result \in [Installer -> InstallResult \cup UninstallResult \cup {"none"}]
  /\ installs \in 0..MaxInstalls
  /\ aborted \in BOOLEAN

ClientInit ==
  /\ pc = [t \in Thread |-> "idle"]
  /\ cur = [t \in Thread |-> NoPtr]
  /\ at = [c \in Caller |-> Orig]
  /\ ran = [c \in Caller |-> {}]
  /\ code = [m \in Target |-> Orig]
  /\ handles = [h \in Hook |-> 0]
  /\ result = [t \in Installer |-> "none"]
  /\ installs = 0
  /\ aborted = FALSE

-----------------------------------------------------------------------------
Idle(h) == \A t \in Installer : cur[t] = h => pc[t] = "idle"

\* h has its method for itself.
Alone(h) == \A g \in Hook : TargetOf[g] = TargetOf[h] => g = h

\* Some installer is inside the backend's install of h, with its patch made.
Publishing(h) ==
  \E t \in Installer : cur[t] = h /\ pc[t] \in {"store", "store2"}

Uninstalling(h) ==
  \E t \in Installer : cur[t] = h /\ pc[t] \in {"check", "unhook", "clear", "clear2"}

\* The hooks a caller's call has entered or is about to enter.
Inside(c, h) == pc[c] # "idle" /\ h \in ran[c] \cup {at[c]}

\* A thread may start an operation on h.
Turn(h) ==
  TargetOf[h] \in Orderly =>
    \A t \in Installer : pc[t] # "idle" => TargetOf[cur[t]] # TargetOf[h]

MayReach(e) == ~(UninstallQuiet /\ Uninstalling(e))

(***************************************************************************)
(* Moving a thread of the live process from one place to another, and      *)
(* returning from an operation.                                            *)
(***************************************************************************)
Goto(t, from, to) ==
  /\ ~aborted
  /\ pc[t] = from
  /\ pc' = [pc EXCEPT ![t] = to]

Return(t, from, r) ==
  /\ Goto(t, from, "idle")
  /\ result' = [result EXCEPT ![t] = r]

\* The backend's install returned true: the generated method makes a handle.
ReturnHandle(t, from) ==
  /\ Return(t, from, "Ok")
  /\ handles' = [handles EXCEPT ![cur[t]] = @ + 1]

(***************************************************************************)
(* Generated `install`: the is_installed check comes first and nothing is  *)
(* locked between it and the backend's install.                            *)
(***************************************************************************)
InstallRefused(t, h, isInstalled) ==
  /\ isInstalled /\ Turn(h)
  /\ Return(t, "idle", "AlreadyInstalled")
  /\ cur' = [cur EXCEPT ![t] = h]
  /\ UNCHANGED <<callVars, code, handles, installs>>

InstallBegin(t, h, isInstalled) ==
  /\ ~isInstalled /\ Turn(h)
  /\ installs < MaxInstalls
  /\ Goto(t, "idle", "lookup")
  /\ cur' = [cur EXCEPT ![t] = h]
  /\ installs' = installs + 1
  /\ UNCHANGED <<callVars, code, handles, result>>

\* The class or the method is not there, or the method has no pointer.
LookupFails(t) ==
  /\ \E e \in {"ClassNotFound", "MethodNotFound", "Panic"} : Return(t, "lookup", e)
  /\ UNCHANGED <<cur, callVars, code, handles, installs>>

LookupSucceeds(t) ==
  /\ Goto(t, "lookup", "patch")
  /\ UNCHANGED <<cur, callVars, code, handles, result, installs>>

\* Slip: a handle that can be copied, so that it is used more than once.
UninstallWithoutHandle(t, h) ==
  /\ Turn(h) /\ (UninstallQuiet => \A c \in Caller : ~Inside(c, h))
  /\ Goto(t, "idle", "check")
  /\ cur' = [cur EXCEPT ![t] = h]
  /\ handles' = [handles EXCEPT ![h] = @ - 1]
  /\ UNCHANGED <<callVars, code, result, installs>>

\* HookHandle::uninstall takes the handle by value: whatever happens next,
\* the program no longer has it.
UninstallBegin(t, h) ==
  /\ handles[h] > 0
  /\ Turn(h) /\ (UninstallQuiet => \A c \in Caller : ~Inside(c, h))
  /\ Goto(t, "idle", "check")
  /\ cur' = [cur EXCEPT ![t] = h]
  /\ handles' = [handles EXCEPT ![h] = @ - 1]
  /\ UNCHANGED <<callVars, code, result, installs>>

-----------------------------------------------------------------------------
(***************************************************************************)
(* A caller's side.  Jump to a method; execute what is found there: the    *)
(* method itself, which ends the call, or a hook; from a hook either       *)
(* return or go on through `original`, which panics when there is none.    *)
(***************************************************************************)
Call(c, m) ==
  /\ Goto(c, "idle", "jump")
  /\ MayReach(code[m])
  /\ at' = [at EXCEPT ![c] = code[m]]
  /\ ran' = [ran EXCEPT ![c] = {}]
  /\ UNCHANGED <<cur, code, handles, result, installs, aborted>>

EnterHook(c) ==
  /\ at[c] \in Hook
  /\ Goto(c, "jump", "inhook")
  /\ cur' = [cur EXCEPT ![c] = at[c]]
  /\ ran' = [ran EXCEPT ![c] = @ \cup {at[c]}]
  /\ UNCHANGED <<at, code, handles, result, installs, aborted>>

RunOriginal(c) ==
  /\ at[c] = Orig
  /\ Goto(c, "jump", "idle")
  /\ UNCHANGED <<cur, callVars, code, handles, result, installs>>

\* The hook's body does not call `original`.
SkipOriginal(c) ==
  /\ Goto(c, "inhook", "idle")
  /\ UNCHANGED <<cur, callVars, code, handles, result, installs>>

\* Slip: `original` gives the method's own address instead of the trampoline.
CallMethodAgain(c, original) ==
  /\ Goto(c, "inhook", "jump")
  /\ original \in Entry
  /\ at' = [at EXCEPT ![c] = code[TargetOf[cur[c]]]]
  /\ UNCHANGED <<cur, ran, code, handles, result, installs, aborted>>

CallOriginal(c, original) ==
  /\ Goto(c, "inhook", "jump")
  /\ original \in Entry
  /\ MayReach(original)
  /\ at' = [at EXCEPT ![c] = original]
  /\ UNCHANGED <<cur, ran, code, handles, result, installs, aborted>>

\* `.expect("hook is not installed")` inside an `extern "C"` function.
OriginalPanics(c, original) ==
  /\ ~aborted
  /\ pc[c] = "inhook"
  /\ original = NoPtr
  /\ aborted' = TRUE
  /\ UNCHANGED <<pc, cur, at, ran, code, handles, result, installs>>

\* The steps of a generated `install` outside the backend, given its
\* is_installed, and of a call under way, given its `original`.
Install(t, isInstalled(_)) ==
  \/ \E h \in Hook : \/ InstallRefused(t, h, isInstalled(h))
                     \/ InstallBegin(t, h, isInstalled(h))
  \/ LookupFails(t)
  \/ LookupSucceeds(t)

Continue(c, originalOf(_)) ==
  \/ EnterHook(c)
  \/ RunOriginal(c)
  \/ SkipOriginal(c)
  \/ CallOriginal(c, originalOf(cur[c]))
  \/ OriginalPanics(c, originalOf(cur[c]))

ClientStep(isInstalled(_), originalOf(_)) ==
  \/ \E t \in Installer : \/ Install(t, isInstalled)
                          \/ \E h \in Hook : UninstallBegin(t, h)
  \/ \E c \in Caller : \/ Continue(c, originalOf)
                       \/ \E m \in Target : Call(c, m)

-----------------------------------------------------------------------------
(***************************************************************************)
(* Within one call no hook is entered a second time: following `original`  *)
(* from hook to hook always gets to the method (hook.rs, "Pointer to the   *)
(* hooked method").                                                        *)
(***************************************************************************)
NoHookTwice == \A c \in Caller : pc[c] = "jump" => at[c] \notin ran[c]
=============================================================================
