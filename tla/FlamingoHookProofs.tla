-------------------------- MODULE FlamingoHookProofs --------------------------
(***************************************************************************)
(* Proofs about the flamingo backend, for any hooks, methods and threads,  *)
(* wherever the native library puts a hook in a chain.                     *)
(***************************************************************************)
EXTENDS FlamingoHook, HookClientProofs, SequenceTheorems, FiniteSetTheorems

(***************************************************************************)
(* What installing and uninstalling do to a chain.  r is s with e put in   *)
(* as element k; the elements from k on move up by one.                    *)
(***************************************************************************)
Up(k, j) == IF j < k THEN j ELSE j + 1

Inserted(s, r, k, e) ==
  /\ Len(r) = Len(s) + 1 /\ k \in 1 .. Len(r) /\ r[k] = e
  /\ \A j \in 1 .. Len(s) : r[Up(k, j)] = s[j]

\* Of a chain s: the InstalledHook x is in it; h has an entry; h has at most one; an
\* entry of g comes before one of h.
Links(s, x) == \E j \in 1 .. Len(s) : s[j] = x
LinksHook(s, h) == \E j \in 1 .. Len(s) : s[j].hook = h
LinksOnce(s, h) ==
  \A j, k \in 1 .. Len(s) : s[j].hook = h /\ s[k].hook = h => j = k
Precedes(s, g, h) ==
  \E j, k \in 1 .. Len(s) : j < k /\ s[j].hook = g /\ s[k].hook = h

\* InsertAt and RemoveAt do just that.
LEMMA InsertAtInserts ==
  ASSUME NEW S, NEW s \in Seq(S), NEW e \in S, NEW k \in 1 .. Len(s) + 1
  PROVE  InsertAt(s, k, e) \in Seq(S) /\ Inserted(s, InsertAt(s, k, e), k, e)
<1> DEFINE before == SubSeq(s, 1, k - 1)
           after == SubSeq(s, k, Len(s))
<1>0. Len(s) \in Nat /\ \A j \in 1 .. Len(s) : s[j] \in S
  BY LenProperties, ElementOfSeq
<1>1. /\ before \in Seq(S) /\ Len(before) = k - 1
      /\ \A j \in 1 .. k - 1 : before[j] = s[j]
  BY <1>0, SubSeqProperties
<1>2. /\ after \in Seq(S) /\ Len(after) = Len(s) - k + 1
      /\ \A j \in 1 .. Len(s) - k + 1 : after[j] = s[k + j - 1]
  BY <1>0, SubSeqProperties
<1>3. <<e>> \in Seq(S) /\ Len(<<e>>) = 1 /\ <<e>>[1] = e
  OBVIOUS
<1> HIDE DEF before, after
<1>4. /\ before \o <<e>> \in Seq(S) /\ Len(before \o <<e>>) = k
      /\ \A j \in 1 .. k : (before \o <<e>>)[j] = IF j < k THEN s[j] ELSE e
  BY <1>0, <1>1, <1>3, ConcatProperties
<1>5. /\ (before \o <<e>>) \o after \in Seq(S)
      /\ Len((before \o <<e>>) \o after) = Len(s) + 1
      /\ \A j \in 1 .. Len(s) + 1 : ((before \o <<e>>) \o after)[j] =
           IF j <= k THEN (before \o <<e>>)[j] ELSE after[j - k]
  BY <1>0, <1>2, <1>4, ConcatProperties
<1>6. InsertAt(s, k, e) = (before \o <<e>>) \o after
  BY DEF InsertAt, before, after
<1>7. \A j \in 1 .. Len(s) : ((before \o <<e>>) \o after)[Up(k, j)] = s[j]
  <2> TAKE j \in 1 .. Len(s)
  <2>1. CASE j < k
    BY <1>0, <1>4, <1>5, <2>1 DEF Up
  <2>2. CASE ~(j < k)
    <3>1. Up(k, j) = j + 1 /\ j + 1 \in 1 .. Len(s) + 1 /\ ~(j + 1 <= k) /\ (j + 1) - k \in 1 .. Len(s) - k + 1
      BY <1>0, <2>2 DEF Up
    <3>2. after[(j + 1) - k] = s[k + ((j + 1) - k) - 1] /\ k + ((j + 1) - k) - 1 = j
      BY <1>0, <1>2, <3>1
    <3>3. ((before \o <<e>>) \o after)[j + 1] = after[(j + 1) - k]
      BY <1>5, <3>1
    <3>4. after[(j + 1) - k] = s[j]
      BY <3>2
    <3>5. ((before \o <<e>>) \o after)[Up(k, j)] = ((before \o <<e>>) \o after)[j + 1]
      BY <3>1
    <3>6. QED
      BY <3>3, <3>4, <3>5
  <2>3. QED
    BY <2>1, <2>2
<1>8. ((before \o <<e>>) \o after)[k] = e
  BY <1>0, <1>4, <1>5
<1>9. Inserted(s, (before \o <<e>>) \o after, k, e)
  BY <1>0, <1>5, <1>7, <1>8 DEF Inserted
<1>10. QED
  BY <1>5, <1>6, <1>9

LEMMA RemoveAtRemoves ==
  ASSUME NEW S, NEW s \in Seq(S), NEW k \in 1 .. Len(s)
  PROVE  RemoveAt(s, k) \in Seq(S) /\ Inserted(RemoveAt(s, k), s, k, s[k])
<1> DEFINE before == SubSeq(s, 1, k - 1)
           after == SubSeq(s, k + 1, Len(s))
<1>0. Len(s) \in Nat /\ \A j \in 1 .. Len(s) : s[j] \in S
  BY LenProperties, ElementOfSeq
<1>1. /\ before \in Seq(S) /\ Len(before) = k - 1
      /\ \A j \in 1 .. k - 1 : before[j] = s[j]
  BY <1>0, SubSeqProperties
<1>2. /\ after \in Seq(S) /\ Len(after) = Len(s) - k
      /\ \A j \in 1 .. Len(s) - k : after[j] = s[k + j]
  BY <1>0, SubSeqProperties
<1> HIDE DEF before, after
<1>3. /\ before \o after \in Seq(S) /\ Len(before \o after) = Len(s) - 1
      /\ \A j \in 1 .. Len(s) - 1 : (before \o after)[j] =
           IF j <= k - 1 THEN before[j] ELSE after[j - (k - 1)]
  BY <1>0, <1>1, <1>2, ConcatProperties
<1>4. RemoveAt(s, k) = before \o after
  BY DEF RemoveAt, before, after
<1>5. \A j \in 1 .. Len(s) - 1 : (before \o after)[j] = s[Up(k, j)]
  <2> TAKE j \in 1 .. Len(s) - 1
  <2>1. CASE j < k
    BY <1>0, <1>1, <1>3, <2>1 DEF Up
  <2>2. CASE ~(j < k)
    <3>1. Up(k, j) = j + 1 /\ ~(j <= k - 1) /\ j - (k - 1) \in 1 .. Len(s) - k
      BY <1>0, <2>2 DEF Up
    <3>2. after[j - (k - 1)] = s[k + (j - (k - 1))] /\ k + (j - (k - 1)) = j + 1
      BY <1>0, <1>2, <3>1
    <3>3. QED
      BY <1>3, <3>1, <3>2
  <2>3. QED
    BY <2>1, <2>2
<1>6. QED
  BY <1>0, <1>3, <1>4, <1>5 DEF Inserted

\* Every element of the longer chain is e or comes from the shorter one, and
\* the order is kept.
LEMMA InsertedElements ==
  ASSUME NEW s, NEW r, NEW k, NEW e, Len(s) \in Nat, Inserted(s, r, k, e)
  PROVE  /\ \A j \in 1 .. Len(s) : Up(k, j) \in 1 .. Len(r) /\ Up(k, j) # k
         /\ \A j \in 1 .. Len(r) : j = k \/ \E i \in 1 .. Len(s) : j = Up(k, i)
         /\ \A i, j \in 1 .. Len(s) : i < j <=> Up(k, i) < Up(k, j)
<1>1. k \in 1 .. Len(s) + 1 /\ Len(r) = Len(s) + 1
  BY DEF Inserted
<1>2. \A j \in 1 .. Len(r) : j # k => \E i \in 1 .. Len(s) : j = Up(k, i)
  <2> SUFFICES ASSUME NEW j \in 1 .. Len(r), j # k PROVE \E i \in 1 .. Len(s) : j = Up(k, i)
    OBVIOUS
  <2>1. CASE j < k
    BY <1>1, <2>1 DEF Up
  <2>2. CASE ~(j < k)
    <3>1. j - 1 \in 1 .. Len(s) /\ j = Up(k, j - 1)
      BY <1>1, <2>2 DEF Up
    <3>2. QED
      BY <3>1
  <2>3. QED
    BY <2>1, <2>2
<1>3. QED
  BY <1>1, <1>2 DEF Up

LEMMA InsertedLinks ==
  ASSUME NEW s, NEW r, NEW k, NEW e, Len(s) \in Nat, Inserted(s, r, k, e), NEW x
  PROVE  Links(r, x) <=> x = e \/ Links(s, x)
<1>1. /\ k \in 1 .. Len(r) /\ r[k] = e
      /\ \A j \in 1 .. Len(s) : r[Up(k, j)] = s[j]
  BY DEF Inserted
<1>2. QED
  BY <1>1, InsertedElements DEF Links

LEMMA InsertedHooks ==
  ASSUME NEW s, NEW r, NEW k, NEW e, Len(s) \in Nat, Inserted(s, r, k, e), NEW h
  PROVE  /\ LinksHook(r, h) <=> e.hook = h \/ LinksHook(s, h)
         /\ h # e.hook => (LinksOnce(r, h) <=> LinksOnce(s, h))
         /\ h = e.hook => (LinksOnce(r, h) <=> ~LinksHook(s, h))
<1>1. /\ k \in 1 .. Len(r) /\ r[k] = e
      /\ \A j \in 1 .. Len(s) : r[Up(k, j)] = s[j]
  BY DEF Inserted
<1>2. /\ \A j \in 1 .. Len(s) : Up(k, j) \in 1 .. Len(r) /\ Up(k, j) # k
      /\ \A j \in 1 .. Len(r) : j = k \/ \E i \in 1 .. Len(s) : j = Up(k, i)
      /\ \A i, j \in 1 .. Len(s) : Up(k, i) = Up(k, j) => i = j
  BY InsertedElements
<1>3. LinksHook(r, h) <=> e.hook = h \/ LinksHook(s, h)
  <2>1. ASSUME LinksHook(r, h), e.hook # h PROVE LinksHook(s, h)
    BY <1>1, <1>2, <2>1 DEF LinksHook
  <2>2. ASSUME e.hook = h PROVE LinksHook(r, h)
    BY <1>1, <2>2 DEF LinksHook
  <2>3. ASSUME LinksHook(s, h) PROVE LinksHook(r, h)
    BY <1>1, <1>2, <2>3 DEF LinksHook
  <2>4. QED
    BY <2>1, <2>2, <2>3
<1>4. ASSUME LinksOnce(r, h) PROVE LinksOnce(s, h)
  BY <1>1, <1>2, <1>4 DEF LinksOnce
<1>5. ASSUME h # e.hook, LinksOnce(s, h), NEW i \in 1 .. Len(r), NEW j \in 1 .. Len(r),
             r[i].hook = h, r[j].hook = h
      PROVE  i = j
  BY <1>1, <1>2, <1>5 DEF LinksOnce
<1>6. ASSUME h = e.hook, ~LinksHook(s, h), NEW i \in 1 .. Len(r), r[i].hook = h
      PROVE  i = k
  BY <1>1, <1>2, <1>6 DEF LinksHook
<1>7. ASSUME h = e.hook, LinksOnce(r, h), NEW j \in 1 .. Len(s), s[j].hook = h
      PROVE  FALSE
  BY <1>1, <1>2, <1>7 DEF LinksOnce
<1>8. h # e.hook /\ LinksOnce(s, h) => LinksOnce(r, h)
  BY <1>5 DEF LinksOnce
<1>9. h = e.hook => (LinksOnce(r, h) <=> ~LinksHook(s, h))
  BY <1>6, <1>7 DEF LinksOnce, LinksHook
<1>10. QED
  BY <1>3, <1>4, <1>8, <1>9

LEMMA InsertedOrder ==
  ASSUME NEW s, NEW r, NEW k, NEW e, Len(s) \in Nat, Inserted(s, r, k, e), NEW g, NEW h
  PROVE  /\ Precedes(s, g, h) => Precedes(r, g, h)
         /\ g # e.hook /\ h # e.hook /\ Precedes(r, g, h) => Precedes(s, g, h)
<1> USE DEF Precedes
<1>1. /\ k \in 1 .. Len(r) /\ r[k] = e
      /\ \A j \in 1 .. Len(s) : r[Up(k, j)] = s[j]
  BY DEF Inserted
<1>2. Precedes(s, g, h) => Precedes(r, g, h)
  BY <1>1, InsertedElements
<1>3. ASSUME g # e.hook, h # e.hook, NEW i \in 1 .. Len(r), NEW j \in 1 .. Len(r),
             i < j, r[i].hook = g, r[j].hook = h
      PROVE  Precedes(s, g, h)
  <2>1. PICK i0 \in 1 .. Len(s) : i = Up(k, i0)
    BY <1>1, <1>3, InsertedElements
  <2>2. PICK j0 \in 1 .. Len(s) : j = Up(k, j0)
    BY <1>1, <1>3, InsertedElements
  <2>3. i0 < j0 /\ s[i0].hook = g /\ s[j0].hook = h
    BY <1>1, <1>3, <2>1, <2>2, InsertedElements
  <2>4. QED
    BY <2>3
<1>4. QED
  BY <1>2, <1>3

-----------------------------------------------------------------------------
ChainOf(h) == chain[TargetOf[h]]

\* The threads that may yet make an InstalledHook.
Making == {t \in Installer : pc[t] \in {"lookup", "patch"}}

Bounded == IsFiniteSet(Making) /\ made + Cardinality(Making) <= installs

(***************************************************************************)
(* The InstalledHook in a cell or on a thread's stack is in the chain of   *)
(* its hook's method, and it is nowhere else.                              *)
(***************************************************************************)
OwnToken(h, i) == i.hook = h /\ i.id <= made /\ Links(ChainOf(h), i)

Holds(t) == pc[t] \in {"store", "unhook"}

Tokens ==
  /\ \A h \in Hook : is_installed(h) => OwnToken(h, installed[h][1])
  /\ \A t \in Installer : Holds(t) => held[t] # None /\ OwnToken(cur[t], held[t][1])
  /\ \A t, u \in Installer : Holds(t) /\ Holds(u) /\ held[t] = held[u] => t = u
  /\ \A t \in Installer, h \in Hook : Holds(t) => held[t] # installed[h]

\* A method leads to the first hook of its chain, which has hooks of its own.
Leads ==
  \A m \in Target :
    /\ code[m] = IF chain[m] = <<>> THEN Orig ELSE chain[m][1].hook
    /\ \A h \in Hook : LinksHook(chain[m], h) => TargetOf[h] = m

IInv == TypeOK /\ Bounded /\ Tokens /\ Leads

(***************************************************************************)
(* The kept hooks.  Row(h, p) is the line of a table: whether h is in its  *)
(* chain and in its cell, and its handles, while the one thread that       *)
(* operates on h is at p, and, at "idle", while none does.                 *)
(***************************************************************************)
Row(h, p) ==
  /\ p \in {"idle", "lookup", "patch", "store", "check", "unhook"}
  /\ p = "idle" => (is_installed(h) <=> LinksHook(ChainOf(h), h))
  /\ p \in {"lookup", "patch"} => ~is_installed(h) /\ ~LinksHook(ChainOf(h), h)
  /\ p \in {"store", "unhook"} => ~is_installed(h) /\ LinksHook(ChainOf(h), h)
  /\ p = "check" => is_installed(h) /\ LinksHook(ChainOf(h), h)
  /\ LinksOnce(ChainOf(h), h)
  /\ handles[h] \in {0, 1}
  /\ handles[h] = 1 => p = "idle" /\ is_installed(h)

Rows ==
  \A h \in KeptHook :
    /\ Idle(h) => Row(h, "idle")
    /\ \A t \in Installer : cur[t] = h /\ pc[t] # "idle" => Row(h, pc[t])

KeptInv == IInv /\ OneATime /\ Rows

(***************************************************************************)
(* Under the uninstall contract: a call is inside a kept hook, or on its   *)
(* way to it, only while the hook is there, and the hooks it has been      *)
(* through come before it in the chain.                                    *)
(***************************************************************************)
Behind(c) ==
  pc[c] # "idle" /\ at[c] \in KeptHook =>
    \A g \in ran[c] :
      \/ pc[c] = "inhook" /\ g = at[c]
      \/ Precedes(ChainOf(at[c]), g, at[c])

Reaches ==
  \A c \in Caller :
    /\ pc[c] = "inhook" => at[c] = cur[c] /\ cur[c] \in ran[c]
    /\ \A h \in KeptHook : Inside(c, h) => phase[h] \in {"publishing", "installed"}
    /\ Behind(c)

-----------------------------------------------------------------------------
Backend(t) ==
  \/ InstallFails(t) \/ NativeInstall(t) \/ StoreInstalled(t) \/ NotInstalled(t)
  \/ Take(t) \/ NativeRemoved(t) \/ RemapFailure(t)

Installs(t) ==
  \/ Install(t, is_installed) /\ UNCHANGED cellVars
  \/ (\E h \in Hook : UninstallBegin(t, h)) /\ UNCHANGED cellVars
  \/ Backend(t)

Calls(c) ==
  /\ Continue(c, original) \/ \E m \in Target : Call(c, m)
  /\ UNCHANGED cellVars

LEMMA StepOf ==
  ASSUME [Next]_vars
  PROVE  (\E t \in Installer : Installs(t)) \/ (\E c \in Caller : Calls(c)) \/ UNCHANGED vars
BY DEF Next, ClientStep, Installs, Calls, Backend

\* What the types say of the thread and the hook of a step.
LEMMA Typed ==
  ASSUME TypeOK
  PROVE  /\ pc \in [Thread -> InstallerPC \cup CallerPC]
         /\ cur \in [Thread -> Hook \cup {NoPtr}]
         /\ \A t \in Installer : pc[t] \in InstallerPC /\ (pc[t] # "idle" => cur[t] \in Hook)
         /\ \A t \in Installer : t \in Thread
         /\ handles \in [Hook -> Nat] /\ code \in [Target -> Entry]
         /\ made \in Nat /\ installs \in Nat /\ MaxInstalls \in Nat /\ installs <= MaxInstalls
         /\ \A h \in Hook : TargetOf[h] \in Target
         /\ \A m \in Target : Len(chain[m]) \in Nat
<1>1. \A m \in Target : chain[m] \in Seq(InstalledHook)
  BY DEF TypeOK
<1>2. \A m \in Target : Len(chain[m]) \in Nat
  BY <1>1, LenProperties
<1>3. \A t \in Installer : pc[t] # "idle" => cur[t] \in Hook
  BY DEF TypeOK, ClientTypeOK, Thread, InstallerPC
<1>4. QED
  BY <1>2, <1>3, HookAssumption DEF TypeOK, ClientTypeOK, Thread

\* An Option is <<>> or the tuple of its only element.
LEMMA Options ==
  ASSUME NEW x \in Option
  PROVE  x # None => x[1] \in InstalledHook /\ x = <<x[1]>>
BY DEF Option

LEMMA FirstHook ==
  ASSUME NEW s \in Seq(InstalledHook), s # <<>>
  PROVE  1 \in 1 .. Len(s) /\ s[1] \in InstalledHook /\ s[1].hook \in Hook
<1>1. Len(s) \in Nat /\ Len(s) # 0
  BY EmptySeq, LenProperties
<1>2. s[1] \in InstalledHook
  BY <1>1, ElementOfSeq
<1>3. QED
  BY <1>1, <1>2 DEF InstalledHook

(***************************************************************************)
(* What a native install and a native uninstall do to the chain.           *)
(***************************************************************************)
LEMMA Installing ==
  ASSUME IInv, NEW t \in Installer, NativeInstall(t),
         NEW m, m = TargetOf[cur[t]], NEW i, i = [hook |-> cur[t], id |-> made + 1]
  PROVE  /\ pc[t] = "patch" /\ cur[t] \in Hook /\ m \in Target /\ i \in InstalledHook
         /\ \E k \in Nat : Inserted(chain[m], chain'[m], k, i)
         /\ chain'[m] \in Seq(InstalledHook)
         /\ chain' = [chain EXCEPT ![m] = chain'[m]]
         /\ code' = [code EXCEPT ![m] = IF chain'[m] = <<>> THEN Orig ELSE chain'[m][1].hook]
         /\ held' = [held EXCEPT ![t] = <<i>>]
<1>1. pc[t] = "patch" /\ cur[t] \in Hook /\ m \in Target
  BY Typed DEF IInv, NativeInstall, Goto
<1>2. t \in Making
  BY <1>1 DEF Making
<1>3. Cardinality(Making) \in Nat /\ Cardinality(Making) # 0
  BY <1>2, FS_CardinalityType, FS_EmptySet DEF IInv, Bounded
<1>4. i \in InstalledHook
  BY <1>1, <1>3, Typed DEF IInv, Bounded, InstalledHook
<1>5. chain[m] \in Seq(InstalledHook)
  BY <1>1 DEF IInv, TypeOK
<1>6. PICK k \in 1 .. Len(chain[m]) + 1 : SetChain(m, InsertAt(chain[m], k, i))
  BY DEF NativeInstall
<1>7. /\ InsertAt(chain[m], k, i) \in Seq(InstalledHook)
      /\ Inserted(chain[m], InsertAt(chain[m], k, i), k, i)
  BY <1>4, <1>5, InsertAtInserts
<1>8. k \in Nat
  BY <1>1, Typed DEF IInv
<1>9. /\ chain' = [chain EXCEPT ![m] = InsertAt(chain[m], k, i)]
      /\ chain'[m] = InsertAt(chain[m], k, i)
  BY <1>1, <1>6 DEF SetChain, IInv, TypeOK
<1>10. code' = [code EXCEPT ![m] = IF chain'[m] = <<>> THEN Orig ELSE chain'[m][1].hook]
  BY <1>6, <1>9 DEF SetChain
<1>11. QED
  BY <1>1, <1>4, <1>7, <1>8, <1>9, <1>10 DEF NativeInstall

LEMMA Removing ==
  ASSUME IInv, NEW t \in Installer, NativeRemoved(t),
         NEW m, m = TargetOf[cur[t]], NEW i, i = held[t][1]
  PROVE  /\ pc[t] = "unhook" /\ cur[t] \in Hook /\ m \in Target /\ i.hook = cur[t]
         /\ held[t] = <<i>>
         /\ \E k \in Nat : Inserted(chain'[m], chain[m], k, i)
         /\ chain'[m] \in Seq(InstalledHook)
         /\ chain' = [chain EXCEPT ![m] = chain'[m]]
         /\ code' = [code EXCEPT ![m] = IF chain'[m] = <<>> THEN Orig ELSE chain'[m][1].hook]
<1>1. pc[t] = "unhook" /\ cur[t] \in Hook /\ m \in Target
  BY Typed DEF IInv, NativeRemoved, Return, Goto
<1>2. held[t] # None /\ i.hook = cur[t] /\ Links(chain[m], i)
  BY <1>1 DEF IInv, Tokens, Holds, OwnToken, ChainOf
<1>3. held[t] = <<i>>
  BY <1>2, Options DEF IInv, TypeOK
<1>4. chain[m] \in Seq(InstalledHook)
  BY <1>1 DEF IInv, TypeOK
<1> DEFINE k == Position(i)
<1>5. k \in 1 .. Len(chain[m]) /\ chain[m][k] = i
  <2>1. DOMAIN chain[TargetOf[i.hook]] = 1 .. Len(chain[m])
    BY <1>2, <1>4, LenProperties
  <2>2. \E j \in DOMAIN chain[TargetOf[i.hook]] : chain[TargetOf[i.hook]][j] = i
    BY <1>2, <2>1 DEF Links
  <2>3. QED
    BY <1>2, <2>1, <2>2 DEF Position
<1> HIDE DEF k
<1>6. /\ RemoveAt(chain[m], k) \in Seq(InstalledHook)
      /\ Inserted(RemoveAt(chain[m], k), chain[m], k, i)
  BY <1>4, <1>5, RemoveAtRemoves
<1>7. SetChain(m, RemoveAt(chain[m], k))
  BY DEF NativeRemoved, k
<1>8. k \in Nat
  BY <1>1, <1>5, Typed DEF IInv
<1>9. /\ chain' = [chain EXCEPT ![m] = RemoveAt(chain[m], k)]
      /\ chain'[m] = RemoveAt(chain[m], k)
  BY <1>1, <1>7 DEF SetChain, IInv, TypeOK
<1>10. code' = [code EXCEPT ![m] = IF chain'[m] = <<>> THEN Orig ELSE chain'[m][1].hook]
  BY <1>7, <1>9 DEF SetChain
<1>11. QED
  BY <1>1, <1>2, <1>3, <1>6, <1>8, <1>9, <1>10

\* The other steps leave the chains alone.
LEMMA ChainsAlone ==
  ASSUME NEW t \in Installer, Installs(t), ~NativeInstall(t), ~NativeRemoved(t)
  PROVE  UNCHANGED <<chain, code, made>>
BY DEF Installs, Install, InstallRefused, InstallBegin, LookupFails, LookupSucceeds, UninstallBegin,
   Backend, InstallFails, StoreInstalled, NotInstalled, Take, RemapFailure, cellVars

LEMMA OnlyOneMoves ==
  ASSUME TypeOK, NEW t \in Installer, Installs(t)
  PROVE  Operates(t)
<1> USE HookAssumption DEF TypeOK, ClientTypeOK, Thread, Operates
<1>1. CASE Install(t, is_installed)
  BY <1>1 DEF Install, InstallRefused, InstallBegin, LookupFails, LookupSucceeds, Return, Goto,
     callVars
<1>2. CASE \E h \in Hook : UninstallBegin(t, h)
  BY <1>2 DEF UninstallBegin, Goto, callVars
<1>3. CASE Backend(t)
  BY <1>3 DEF Backend, InstallFails, NativeInstall, StoreInstalled, NotInstalled, Take,
     NativeRemoved, RemapFailure, ReturnHandle, Return, Goto, callVars
<1>4. QED
  BY <1>1, <1>2, <1>3 DEF Installs

\* A caller's step leaves the installers and the backend alone.
LEMMA CallerAlone ==
  ASSUME TypeOK, NEW c \in Caller, Calls(c)
  PROVE  /\ UNCHANGED <<cellVars, code, handles, installs, made>>
         /\ \A t \in Installer : pc'[t] = pc[t] /\ cur'[t] = cur[t]
<1>1. UNCHANGED code /\ \A t \in Installer : pc'[t] = pc[t] /\ cur'[t] = cur[t]
  BY CallerMoves, HookAssumption DEF Calls, Continue, TypeOK, Thread
<1>2. UNCHANGED <<handles, installs>>
  BY DEF Calls, Continue, EnterHook, RunOriginal, SkipOriginal, CallOriginal, OriginalPanics, Call,
     callVars
<1>3. QED
  BY <1>1, <1>2 DEF Calls, cellVars

-----------------------------------------------------------------------------
\* The four parts of the invariant, one after the other.
LEMMA InitInv == Init => IInv
<1> SUFFICES ASSUME Init PROVE IInv
  OBVIOUS
<1>1. TypeOK
  <2>1. <<>> \in Seq(InstalledHook)
    BY EmptySeq
  <2>2. None \in Option
    BY DEF Option
  <2>3. QED
    BY <2>1, <2>2, ClientInitType, HookAssumption DEF Init, TypeOK
<1>2. Bounded
  <2>1. Making = {}
    BY DEF Init, ClientInit, Making, Thread
  <2>2. QED
    BY <2>1, FS_EmptySet DEF Init, ClientInit, Bounded
<1>3. Tokens
  BY DEF Init, ClientInit, Tokens, Holds, is_installed, Thread
<1>4. Leads
  BY EmptySeq, HookAssumption DEF Init, ClientInit, Leads, LinksHook
<1>5. QED
  BY <1>1, <1>2, <1>3, <1>4 DEF IInv

LEMMA NextType ==
  ASSUME IInv, [Next]_vars
  PROVE  TypeOK'
<1> USE DEF IInv, TypeOK
<1>1. ASSUME NEW t \in Installer, NativeInstall(t) PROVE TypeOK'
  <2> DEFINE m == TargetOf[cur[t]]
             i == [hook |-> cur[t], id |-> made + 1]
  <2>1. /\ m \in Target /\ i \in InstalledHook /\ chain'[m] \in Seq(InstalledHook)
        /\ chain' = [chain EXCEPT ![m] = chain'[m]]
        /\ code' = [code EXCEPT ![m] = IF chain'[m] = <<>> THEN Orig ELSE chain'[m][1].hook]
        /\ held' = [held EXCEPT ![t] = <<i>>]
    BY <1>1, Installing
  <2>2. chain'[m] # <<>> => chain'[m][1].hook \in Hook
    BY <2>1, FirstHook
  <2>3. code' \in [Target -> Entry]
    BY <2>1, <2>2 DEF ClientTypeOK, Entry
  <2>4. ClientTypeOK'
    <3>1. /\ Goto(t, "patch", "store")
          /\ UNCHANGED <<cur, callVars, handles, result, installs>>
          /\ ClientTypeOK
      BY <1>1 DEF NativeInstall
    <3>2. /\ "patch" \in InstallerPC \ {"idle"} /\ "store" \in InstallerPC
          /\ "Ok" \in InstallResult \cup UninstallResult
      BY DEF InstallerPC, InstallResult
    <3>3. QED
      BY <2>3, <3>1, <3>2, BackendKeepsType
  <2>5. made' \in 0 .. MaxInstalls
    BY <1>1, <2>1 DEF NativeInstall, InstalledHook
  <2>6. <<i>> \in Option
    BY <2>1 DEF Option
  <2> HIDE DEF i, m
  <2>7. chain' \in [Target -> Seq(InstalledHook)] /\ held' \in [Installer -> Option]
    BY <2>1, <2>6
  <2>8. QED
    BY <1>1, <2>4, <2>5, <2>7 DEF NativeInstall
<1>2. ASSUME NEW t \in Installer, NativeRemoved(t) PROVE TypeOK'
  <2> DEFINE m == TargetOf[cur[t]]
  <2>1. /\ m \in Target /\ chain'[m] \in Seq(InstalledHook)
        /\ chain' = [chain EXCEPT ![m] = chain'[m]]
        /\ code' = [code EXCEPT ![m] = IF chain'[m] = <<>> THEN Orig ELSE chain'[m][1].hook]
    BY <1>2, Removing
  <2>2. chain'[m] # <<>> => chain'[m][1].hook \in Hook
    BY <2>1, FirstHook
  <2>3. code' \in [Target -> Entry]
    BY <2>1, <2>2 DEF ClientTypeOK, Entry
  <2>4. ClientTypeOK'
    <3>1. /\ Return(t, "unhook", "Removed")
          /\ UNCHANGED <<cur, callVars, handles, installs>>
          /\ ClientTypeOK
      BY <1>2 DEF NativeRemoved
    <3>2. /\ "unhook" \in InstallerPC \ {"idle"} /\ "idle" \in InstallerPC
          /\ "Removed" \in InstallResult \cup UninstallResult
      BY DEF InstallerPC, UninstallResult
    <3>3. QED
      BY <2>3, <3>1, <3>2, BackendKeepsType
  <2> HIDE DEF m
  <2>5. chain' \in [Target -> Seq(InstalledHook)]
    BY <2>1
  <2>6. QED
    BY <1>2, <2>4, <2>5 DEF NativeRemoved, Option
<1>3. ASSUME NEW t \in Installer, StoreInstalled(t) \/ Take(t) PROVE TypeOK'
  <2>1. ClientTypeOK'
    BY <1>3, BackendKeepsType DEF StoreInstalled, Take, InstallerPC, InstallResult, ClientTypeOK
  <2>2. cur[t] \in Hook
    BY <1>3, Typed DEF StoreInstalled, Take, ReturnHandle, Return, Goto
  <2>3. QED
    BY <1>3, <2>1, <2>2 DEF StoreInstalled, Take, Option
<1>4. ASSUME NEW t \in Installer, InstallFails(t) \/ NotInstalled(t) \/ RemapFailure(t) PROVE TypeOK'
  <2>1. ClientTypeOK'
    BY <1>4, BackendKeepsType DEF InstallFails, NotInstalled, RemapFailure, InstallerPC,
       InstallResult, UninstallResult, ClientTypeOK
  <2>2. QED
    BY <1>4, <2>1 DEF InstallFails, NotInstalled, RemapFailure, cellVars, Option
<1>5. ASSUME ClientStep(is_installed, original), UNCHANGED cellVars
      PROVE  TypeOK'
  <2>1. ASSUME NEW c \in Caller, Continue(c, original) \/ \E m \in Target : Call(c, m)
        PROVE  ClientTypeOK'
    BY <2>1, CallerKeepsType DEF Continue
  <2>2. ASSUME NEW t \in Installer, Install(t, is_installed) \/ \E h \in Hook : UninstallBegin(t, h)
        PROVE  ClientTypeOK'
    BY <2>2, InstallerKeepsType DEF Install
  <2>3. QED
    BY <1>5, <2>1, <2>2 DEF ClientStep, cellVars
<1>6. CASE UNCHANGED vars
  BY <1>6 DEF vars, clientVars, cellVars, ClientTypeOK
<1>7. QED
  BY <1>1, <1>2, <1>3, <1>4, <1>5, <1>6 DEF Next

\* Every InstalledHook was made by an install that got past the check.
LEMMA NextBounded ==
  ASSUME IInv, [Next]_vars
  PROVE  Bounded'
<1>1. IsFiniteSet(Making) /\ Cardinality(Making) \in Nat /\ made + Cardinality(Making) <= installs
  BY FS_CardinalityType DEF IInv, Bounded
<1>2. made \in Nat /\ installs \in Nat
  BY Typed DEF IInv
<1>3. ASSUME Making' = Making, UNCHANGED <<made, installs>>
      PROVE  Bounded'
  BY <1>1, <1>3 DEF Bounded
<1>4. ASSUME NEW t \in Installer, Making' = Making \cup {t}, t \notin Making,
             made' = made, installs' = installs + 1
      PROVE  Bounded'
  <2>1. IsFiniteSet(Making') /\ Cardinality(Making') = Cardinality(Making) + 1
    BY <1>1, <1>4, FS_AddElement
  <2>2. QED
    BY <1>1, <1>2, <1>4, <2>1 DEF Bounded
<1>5. ASSUME NEW t \in Installer, Making' = Making \ {t}, t \in Making,
             made' \in {made, made + 1}, installs' = installs
      PROVE  Bounded'
  <2>1. IsFiniteSet(Making') /\ Cardinality(Making') = Cardinality(Making) - 1
    BY <1>1, <1>5, FS_RemoveElement
  <2>2. QED
    BY <1>1, <1>2, <1>5, <2>1 DEF Bounded
<1>6. ASSUME NEW t \in Installer, Installs(t)
      PROVE  Bounded'
  <2>1. \A u \in Installer \ {t} : pc'[u] = pc[u]
    BY <1>6, OnlyOneMoves DEF Operates, IInv, Thread
  <2>2. /\ t \in Thread /\ pc \in [Thread -> InstallerPC \cup CallerPC]
    BY Typed DEF IInv
  <2>3. CASE \E h \in Hook : InstallBegin(t, h, is_installed(h)) /\ UNCHANGED cellVars
    <3>1. /\ pc[t] = "idle" /\ pc'[t] = "lookup"
          /\ made' = made /\ installs' = installs + 1
      BY <2>2, <2>3 DEF InstallBegin, Goto, cellVars
    <3>2. Making' = Making \cup {t} /\ t \notin Making
      BY <2>1, <3>1 DEF Making
    <3>3. QED
      BY <1>4, <3>1, <3>2
  <2>4. CASE InstallFails(t) \/ NativeInstall(t) \/ (LookupFails(t) /\ UNCHANGED cellVars)
    <3>1. /\ pc[t] \in {"lookup", "patch"} /\ pc'[t] \notin {"lookup", "patch"}
          /\ made' \in {made, made + 1} /\ installs' = installs
      BY <2>2, <2>4 DEF InstallFails, NativeInstall, LookupFails, Return, Goto, cellVars
    <3>2. Making' = Making \ {t} /\ t \in Making
      BY <2>1, <3>1 DEF Making
    <3>3. QED
      BY <1>5, <3>1, <3>2
  <2>5. ASSUME \/ LookupSucceeds(t) /\ UNCHANGED cellVars
               \/ \E h \in Hook : InstallRefused(t, h, is_installed(h)) /\ UNCHANGED cellVars
               \/ (\E h \in Hook : UninstallBegin(t, h)) /\ UNCHANGED cellVars
               \/ StoreInstalled(t) \/ NotInstalled(t) \/ Take(t) \/ NativeRemoved(t)
               \/ RemapFailure(t)
        PROVE  Bounded'
    <3>1. /\ pc[t] \in {"lookup", "patch"} <=> pc'[t] \in {"lookup", "patch"}
          /\ UNCHANGED <<made, installs>>
      BY <2>2, <2>5 DEF LookupSucceeds, InstallRefused, UninstallBegin, StoreInstalled, NotInstalled,
         Take, NativeRemoved, RemapFailure, ReturnHandle, Return, Goto, cellVars
    <3>2. Making' = Making
      BY <2>1, <3>1 DEF Making
    <3>3. QED
      BY <1>3, <3>1, <3>2
  <2>6. QED
    BY <1>6, <2>3, <2>4, <2>5 DEF Installs, Install, Backend
<1>7. ASSUME NEW c \in Caller, Calls(c)
      PROVE  Bounded'
  <2>1. Making' = Making /\ UNCHANGED <<made, installs>>
    BY <1>7, CallerAlone DEF Making, IInv
  <2>2. QED
    BY <1>3, <2>1
<1>8. CASE UNCHANGED vars
  BY <1>3, <1>8 DEF vars, clientVars, cellVars, Making
<1>9. QED
  BY <1>6, <1>7, <1>8, StepOf

LEMMA NextTokens ==
  ASSUME IInv, [Next]_vars
  PROVE  Tokens'
<1> USE DEF is_installed
<1>1. Tokens /\ TypeOK /\ made \in Nat
  BY Typed DEF IInv
<1>2. ASSUME NEW t \in Installer, Installs(t)
      PROVE  /\ \A u \in Installer \ {t} : pc'[u] = pc[u] /\ cur'[u] = cur[u]
             /\ t \in Thread /\ pc \in [Thread -> InstallerPC \cup CallerPC]
             /\ pc[t] # "idle" => cur[t] \in Hook /\ cur'[t] = cur[t]
             /\ held \in [Installer -> Option] /\ installed \in [Hook -> Option]
  BY <1>1, <1>2, OnlyOneMoves, Typed DEF Operates, Thread, TypeOK
\* The InstalledHooks that are left are the ones there were.
<1>3. ASSUME NEW t \in Installer, Installs(t), ~Holds(t)', UNCHANGED <<chain, installed, made>>,
             \A u \in Installer \ {t} : held'[u] = held[u]
      PROVE  Tokens'
  BY <1>1, <1>2, <1>3 DEF Tokens, Holds, OwnToken, ChainOf
<1>4. ASSUME NEW t \in Installer, NativeInstall(t)
      PROVE  Tokens'
  <2> DEFINE m == TargetOf[cur[t]]
  <2>0. PICK i : i = [hook |-> cur[t], id |-> made + 1]
    OBVIOUS
  <2>1. /\ cur[t] \in Hook /\ m \in Target
        /\ \E k \in Nat : Inserted(chain[m], chain'[m], k, i)
        /\ chain' = [chain EXCEPT ![m] = chain'[m]]
        /\ held' = [held EXCEPT ![t] = <<i>>]
        /\ i.hook = cur[t] /\ i.id = made + 1
    BY <1>4, <2>0, Installing DEF IInv
  <2>2. /\ made' = made + 1 /\ UNCHANGED <<installed, cur>>
        /\ pc[t] = "patch" /\ pc'[t] = "store"
    BY <1>2, <1>4 DEF NativeInstall, Goto, Installs, Backend
  <2> HIDE DEF m
  <2>3. \A x : Links(chain'[m], x) <=> x = i \/ Links(chain[m], x)
    BY <2>1, InsertedLinks, Typed DEF IInv
  <2>4. \A h \in Hook : TargetOf[h] # m => ChainOf(h)' = ChainOf(h)
    BY <2>1, Typed DEF ChainOf, IInv, TypeOK
  <2>5. \A h \in Hook : TargetOf[h] = m => ChainOf(h) = chain[m] /\ ChainOf(h)' = chain'[m]
    BY DEF ChainOf
  <2>6. ASSUME NEW h \in Hook, NEW x \in InstalledHook, OwnToken(h, x)
        PROVE  /\ x.hook = h /\ x.id <= made' /\ Links(ChainOf(h)', x)
               /\ <<x>> # <<i>>
    <3>1. x.hook = h /\ x.id <= made /\ Links(ChainOf(h), x) /\ x.id \in Nat
      BY <2>6 DEF OwnToken, InstalledHook
    <3>2. x.id <= made' /\ x.id # i.id
      BY <1>1, <2>1, <2>2, <3>1
    <3>3. Links(ChainOf(h)', x)
      BY <2>3, <2>4, <2>5, <3>1
    <3>4. QED
      BY <3>1, <3>2, <3>3
  <2>7. OwnToken(cur[t], i)'
    <3>1. Links(chain'[m], i) /\ i.hook = cur'[t] /\ i.id <= made' /\ UNCHANGED cur
      BY <1>1, <2>1, <2>2, <2>3
    <3>2. QED
      BY <3>1 DEF OwnToken, ChainOf, m
  <2>8. \A h \in Hook : is_installed(h) => /\ OwnToken(h, installed[h][1])'
                                           /\ installed[h] # <<i>>
    <3> SUFFICES ASSUME NEW h \in Hook, is_installed(h)
                 PROVE  OwnToken(h, installed[h][1])' /\ installed[h] # <<i>>
      OBVIOUS
    <3>1. /\ OwnToken(h, installed[h][1]) /\ installed[h][1] \in InstalledHook
          /\ installed[h] = <<installed[h][1]>>
      BY <1>1, Options DEF Tokens, TypeOK
    <3>2. QED
      BY <2>2, <2>6, <3>1 DEF OwnToken
  <2>9. \A u \in Installer \ {t} : Holds(u) => /\ OwnToken(cur[u], held[u][1])'
                                               /\ held[u] # <<i>>
    <3> SUFFICES ASSUME NEW u \in Installer \ {t}, Holds(u)
                 PROVE  held[u] # <<i>> /\ OwnToken(cur[u], held[u][1])'
      OBVIOUS
    <3>1. /\ OwnToken(cur[u], held[u][1]) /\ held[u][1] \in InstalledHook
          /\ held[u] = <<held[u][1]>> /\ cur[u] \in Hook
      BY <1>1, Options, Typed DEF Tokens, TypeOK, Holds
    <3>2. held'[u] = held[u] /\ cur'[u] = cur[u]
      BY <2>1, <2>2 DEF IInv, TypeOK
    <3>3. QED
      BY <2>6, <3>1, <3>2 DEF OwnToken
  <2>10. /\ held'[t] = <<i>> /\ \A u \in Installer \ {t} : held'[u] = held[u]
         /\ <<i>> # None /\ held'[t][1] = i /\ held'[t] # None
    BY <2>1 DEF TypeOK, IInv, None
  <2>11. \A u \in Installer \ {t} : Holds(u)' <=> Holds(u)
    BY <1>2, <1>4 DEF Holds, Installs, Backend
  <2>12. \A h \in Hook : is_installed(h)' => OwnToken(h, installed[h][1])'
    BY <2>2, <2>8
  <2>13. \A u \in Installer : Holds(u)' => held'[u] # None /\ OwnToken(cur[u], held[u][1])'
    BY <1>1, <2>2, <2>7, <2>9, <2>10, <2>11 DEF Tokens
  <2>14. \A u, v \in Installer : Holds(u)' /\ Holds(v)' /\ held'[u] = held'[v] => u = v
    BY <1>1, <2>9, <2>10, <2>11 DEF Tokens
  <2>15. \A u \in Installer, h \in Hook : Holds(u)' => held'[u] # installed'[h]
    BY <1>1, <2>2, <2>8, <2>10, <2>11 DEF Tokens
  <2>16. QED
    BY <2>12, <2>13, <2>14, <2>15 DEF Tokens
<1>5. ASSUME NEW t \in Installer, StoreInstalled(t)
      PROVE  Tokens'
  <2>1. /\ Installs(t) /\ Holds(t) /\ ~Holds(t)' /\ UNCHANGED <<chain, made, cur>>
        /\ pc[t] = "store" /\ cur[t] \in Hook
        /\ installed' = [installed EXCEPT ![cur[t]] = held[t]]
        /\ held' = [held EXCEPT ![t] = None]
    BY <1>1, <1>5, Typed DEF Installs, Backend, StoreInstalled, ReturnHandle, Return, Goto, Holds
  <2>2. \A u \in Installer \ {t} : (Holds(u)' <=> Holds(u)) /\ held'[u] = held[u]
    BY <1>2, <2>1 DEF Holds
  <2>3. \A h \in Hook : installed'[h] = IF h = cur[t] THEN held[t] ELSE installed[h]
    BY <1>2, <2>1
  <2>4. \A h, x : OwnToken(h, x)' <=> OwnToken(h, x)
    BY <2>1 DEF OwnToken, ChainOf
  <2>5. \A h \in Hook : is_installed(h)' => OwnToken(h, installed'[h][1])
    BY <1>1, <2>1, <2>3 DEF Tokens
  <2>6. \A u \in Installer, h \in Hook : Holds(u)' => held'[u] # installed'[h]
    BY <1>1, <2>1, <2>2, <2>3 DEF Tokens
  <2>7. QED
    BY <1>1, <2>1, <2>2, <2>4, <2>5, <2>6 DEF Tokens
<1>6. ASSUME NEW t \in Installer, Take(t)
      PROVE  Tokens'
  <2>1. /\ Installs(t) /\ ~Holds(t) /\ UNCHANGED <<chain, made, cur>>
        /\ pc[t] = "check" /\ cur[t] \in Hook /\ installed[cur[t]] # None
        /\ installed' = [installed EXCEPT ![cur[t]] = None]
        /\ held' = [held EXCEPT ![t] = installed[cur[t]]]
    BY <1>1, <1>6, Typed DEF Installs, Backend, Take, Goto, Holds
  <2>2. \A u \in Installer \ {t} : (Holds(u)' <=> Holds(u)) /\ held'[u] = held[u]
    BY <1>2, <2>1 DEF Holds
  <2>3. \A h \in Hook : installed'[h] = IF h = cur[t] THEN None ELSE installed[h]
    BY <1>2, <2>1
  <2>4. held'[t] = installed[cur[t]]
    BY <1>2, <2>1
  <2>5. \A h, x : OwnToken(h, x)' <=> OwnToken(h, x)
    BY <2>1 DEF OwnToken, ChainOf
  <2>6. \A h \in Hook : is_installed(h)' => OwnToken(h, installed'[h][1])
    BY <1>1, <2>3 DEF Tokens
  <2>7. \A u \in Installer : Holds(u)' => held'[u] # None /\ OwnToken(cur[u], held'[u][1])
    BY <1>1, <2>1, <2>2, <2>4 DEF Tokens
  <2>8. \A u, v \in Installer : Holds(u)' /\ Holds(v)' /\ held'[u] = held'[v] => u = v
    BY <1>1, <2>1, <2>2, <2>4 DEF Tokens
  <2>9. \A h \in Hook : installed'[h] # held'[t]
    BY <1>1, <2>1, <2>3, <2>4 DEF Tokens, OwnToken
  <2>10. \A u \in Installer, h \in Hook : Holds(u)' => held'[u] # installed'[h]
    BY <1>1, <2>2, <2>3, <2>9 DEF Tokens
  <2>11. QED
    BY <2>1, <2>5, <2>6, <2>7, <2>8, <2>10 DEF Tokens
<1>7. ASSUME NEW t \in Installer, NativeRemoved(t)
      PROVE  Tokens'
  <2> DEFINE m == TargetOf[cur[t]]
             i == held[t][1]
  <2>1. /\ cur[t] \in Hook /\ m \in Target /\ held[t] = <<i>>
        /\ \E k \in Nat : Inserted(chain'[m], chain[m], k, i)
        /\ chain'[m] \in Seq(InstalledHook)
        /\ chain' = [chain EXCEPT ![m] = chain'[m]]
    BY <1>7, Removing
  <2>2. /\ Installs(t) /\ Holds(t) /\ ~Holds(t)' /\ UNCHANGED <<installed, made, cur>>
        /\ held' = [held EXCEPT ![t] = None]
    BY <1>1, <1>7, Typed DEF Installs, Backend, NativeRemoved, Return, Goto, Holds
  <2> HIDE DEF m, i
  <2>3. \A x : Links(chain[m], x) <=> x = i \/ Links(chain'[m], x)
    BY <2>1, InsertedLinks, LenProperties
  <2>4. \A h \in Hook : TargetOf[h] # m => ChainOf(h)' = ChainOf(h)
    BY <2>1, Typed DEF ChainOf, IInv, TypeOK
  <2>5. \A h \in Hook : TargetOf[h] = m => ChainOf(h) = chain[m] /\ ChainOf(h)' = chain'[m]
    BY DEF ChainOf
  <2>6. ASSUME NEW h \in Hook, NEW x, OwnToken(h, x), x # i
        PROVE  OwnToken(h, x)'
    BY <2>2, <2>3, <2>4, <2>5, <2>6 DEF OwnToken
  <2>7. \A u \in Installer \ {t} : (Holds(u)' <=> Holds(u)) /\ held'[u] = held[u]
    BY <1>2, <2>2 DEF Holds
  <2>8. \A h \in Hook : is_installed(h) => installed[h][1] # i
    BY <1>1, <2>1, <2>2, Options DEF Tokens, TypeOK
  <2>9. \A u \in Installer \ {t} : Holds(u) => held[u][1] # i /\ cur[u] \in Hook
    BY <1>1, <2>1, <2>2, Options, Typed DEF Tokens, TypeOK, Holds
  <2>10. \A h \in Hook : is_installed(h)' => OwnToken(h, installed[h][1])'
    BY <1>1, <2>2, <2>6, <2>8 DEF Tokens
  <2>11. \A u \in Installer : Holds(u)' => held'[u] # None /\ OwnToken(cur[u], held[u][1])'
    BY <1>1, <2>2, <2>6, <2>7, <2>9 DEF Tokens
  <2>12. \A u, v \in Installer : Holds(u)' /\ Holds(v)' /\ held'[u] = held'[v] => u = v
    BY <1>1, <2>2, <2>7 DEF Tokens
  <2>13. \A u \in Installer, h \in Hook : Holds(u)' => held'[u] # installed'[h]
    BY <1>1, <2>2, <2>7 DEF Tokens
  <2>14. QED
    BY <2>10, <2>11, <2>12, <2>13 DEF Tokens
<1>8. ASSUME NEW t \in Installer, Installs(t), ~NativeInstall(t), ~StoreInstalled(t), ~Take(t),
             ~NativeRemoved(t)
      PROVE  Tokens'
  <2>1. /\ ~Holds(t)' /\ UNCHANGED <<chain, installed, made>>
        /\ \A u \in Installer \ {t} : held'[u] = held[u]
    BY <1>2, <1>8 DEF Installs, Install, InstallRefused, InstallBegin, LookupFails, LookupSucceeds,
       UninstallBegin, Backend, InstallFails, NotInstalled, RemapFailure, Return, Goto, Holds,
       cellVars
  <2>2. QED
    BY <1>3, <1>8, <2>1
<1>9. ASSUME NEW c \in Caller, Calls(c)
      PROVE  Tokens'
  BY <1>1, <1>9, CallerAlone DEF Tokens, Holds, OwnToken, ChainOf, cellVars
<1>10. CASE UNCHANGED vars
  BY <1>1, <1>10 DEF vars, clientVars, cellVars, Tokens, Holds, OwnToken, ChainOf
<1>11. QED
  BY <1>4, <1>5, <1>6, <1>7, <1>8, <1>9, <1>10, StepOf

LEMMA NextLeads ==
  ASSUME IInv, [Next]_vars
  PROVE  Leads'
<1>1. Leads /\ TypeOK /\ code \in [Target -> Entry] /\ chain \in [Target -> Seq(InstalledHook)]
  BY Typed DEF IInv, TypeOK
<1>2. ASSUME NEW m0 \in Target, NEW s \in Seq(InstalledHook),
             chain' = [chain EXCEPT ![m0] = s],
             code' = [code EXCEPT ![m0] = IF s = <<>> THEN Orig ELSE s[1].hook],
             \A h \in Hook : LinksHook(s, h) => TargetOf[h] = m0
      PROVE  Leads'
  BY <1>1, <1>2 DEF Leads
<1>3. ASSUME NEW t \in Installer, NativeInstall(t)
      PROVE  Leads'
  <2> DEFINE m == TargetOf[cur[t]]
             i == [hook |-> cur[t], id |-> made + 1]
  <2>1. /\ m \in Target /\ chain'[m] \in Seq(InstalledHook) /\ i.hook = cur[t]
        /\ \E k \in Nat : Inserted(chain[m], chain'[m], k, i)
        /\ chain' = [chain EXCEPT ![m] = chain'[m]]
        /\ code' = [code EXCEPT ![m] = IF chain'[m] = <<>> THEN Orig ELSE chain'[m][1].hook]
    BY <1>3, Installing
  <2> HIDE DEF i
  <2>2. \A h : LinksHook(chain'[m], h) => h = cur[t] \/ LinksHook(chain[m], h)
    BY <1>1, <2>1, InsertedHooks, Typed
  <2>3. \A h \in Hook : LinksHook(chain'[m], h) => TargetOf[h] = m
    BY <1>1, <2>1, <2>2 DEF Leads
  <2> HIDE DEF m
  <2>4. QED
    BY <1>2, <2>1, <2>3
<1>4. ASSUME NEW t \in Installer, NativeRemoved(t)
      PROVE  Leads'
  <2> DEFINE m == TargetOf[cur[t]]
             i == held[t][1]
  <2>1. /\ m \in Target /\ chain'[m] \in Seq(InstalledHook)
        /\ \E k \in Nat : Inserted(chain'[m], chain[m], k, i)
        /\ chain' = [chain EXCEPT ![m] = chain'[m]]
        /\ code' = [code EXCEPT ![m] = IF chain'[m] = <<>> THEN Orig ELSE chain'[m][1].hook]
    BY <1>4, Removing
  <2> HIDE DEF i
  <2>2. \A h : LinksHook(chain'[m], h) => LinksHook(chain[m], h)
    BY <2>1, InsertedHooks, LenProperties
  <2>3. \A h \in Hook : LinksHook(chain'[m], h) => TargetOf[h] = m
    BY <1>1, <2>1, <2>2 DEF Leads
  <2> HIDE DEF m
  <2>4. QED
    BY <1>2, <2>1, <2>3
<1>5. CASE UNCHANGED <<chain, code>>
  BY <1>1, <1>5 DEF Leads
<1>6. QED
  BY <1>1, <1>3, <1>4, <1>5, StepOf, ChainsAlone, CallerAlone DEF vars, clientVars, cellVars

LEMMA NextInv == IInv /\ [Next]_vars => IInv'
BY NextType, NextBounded, NextTokens, NextLeads DEF IInv

(***************************************************************************)
(* The flamingo backend's state keeps its types: no InstalledHook is made  *)
(* but by an install that got past the check, and what is removed from a   *)
(* chain is there.                                                         *)
(***************************************************************************)
THEOREM TypeCorrect == Spec => []TypeOK
<1>1. IInv => TypeOK
  BY DEF IInv
<1>2. QED
  BY <1>1, InitInv, NextInv, PTL DEF Spec

-----------------------------------------------------------------------------
(***************************************************************************)
(* A step of an installer leaves the other hooks of a chain in it, in      *)
(* their order.                                                            *)
(***************************************************************************)
LEMMA OtherLinks ==
  ASSUME IInv, NEW t \in Installer, Installs(t), NEW m \in Target, NEW h, h # cur'[t]
  PROVE  /\ LinksHook(chain[m], h)' <=> LinksHook(chain[m], h)
         /\ LinksOnce(chain[m], h)' <=> LinksOnce(chain[m], h)
         /\ \A g : g # cur'[t] /\ Precedes(chain[m], g, h) => Precedes(chain[m], g, h)'
<1>1. Len(chain[m]) \in Nat /\ chain \in [Target -> Seq(InstalledHook)]
  BY Typed DEF IInv, TypeOK
<1>2. CASE NativeInstall(t)
  <2> DEFINE n == TargetOf[cur[t]]
  <2>1. PICK i : i = [hook |-> cur[t], id |-> made + 1]
    OBVIOUS
  <2>2. /\ cur'[t] = cur[t] /\ i.hook = cur[t]
        /\ \E k \in Nat : Inserted(chain[n], chain'[n], k, i)
        /\ chain' = [chain EXCEPT ![n] = chain'[n]]
    BY <1>2, <2>1, Installing DEF NativeInstall
  <2> HIDE DEF n
  <2>3. CASE m = n
    <3>1. PICK k \in Nat : Inserted(chain[m], chain'[m], k, i)
      BY <2>2, <2>3
    <3>2. i.hook # h
      BY <2>2
    <3>3. /\ LinksHook(chain'[m], h) <=> LinksHook(chain[m], h)
          /\ LinksOnce(chain'[m], h) <=> LinksOnce(chain[m], h)
      BY <1>1, <3>1, <3>2, InsertedHooks
    <3>4. \A g : Precedes(chain[m], g, h) => Precedes(chain'[m], g, h)
      BY <1>1, <3>1, InsertedOrder
    <3>5. QED
      BY <3>3, <3>4
  <2>4. CASE m # n
    <3>1. chain'[m] = chain[m]
      BY <1>1, <2>2, <2>4
    <3>2. QED
      BY <3>1
  <2>5. QED
    BY <2>3, <2>4
<1>3. CASE NativeRemoved(t)
  <2> DEFINE n == TargetOf[cur[t]]
  <2>1. PICK i : i = held[t][1]
    OBVIOUS
  <2>2. /\ cur'[t] = cur[t] /\ i.hook = cur[t]
        /\ \E k \in Nat : Inserted(chain'[n], chain[n], k, i)
        /\ chain'[n] \in Seq(InstalledHook)
        /\ chain' = [chain EXCEPT ![n] = chain'[n]]
    BY <1>3, <2>1, Removing DEF NativeRemoved
  <2> HIDE DEF n
  <2>3. CASE m = n
    <3>1. PICK k \in Nat : Inserted(chain'[m], chain[m], k, i)
      BY <2>2, <2>3
    <3>2. Len(chain'[m]) \in Nat /\ i.hook # h
      BY <2>2, <2>3, LenProperties
    <3>3. /\ LinksHook(chain'[m], h) <=> LinksHook(chain[m], h)
          /\ LinksOnce(chain'[m], h) <=> LinksOnce(chain[m], h)
      BY <3>1, <3>2, InsertedHooks
    <3>4. \A g : g # cur'[t] /\ Precedes(chain[m], g, h) => Precedes(chain'[m], g, h)
      BY <2>2, <3>1, <3>2, InsertedOrder
    <3>5. QED
      BY <3>3, <3>4
  <2>4. CASE m # n
    <3>1. chain'[m] = chain[m]
      BY <1>1, <2>2, <2>4
    <3>2. QED
      BY <3>1
  <2>5. QED
    BY <2>3, <2>4
<1>4. CASE ~NativeInstall(t) /\ ~NativeRemoved(t)
  <2>1. UNCHANGED chain
    BY <1>4, ChainsAlone
  <2>2. QED
    BY <2>1
<1>5. QED
  BY <1>2, <1>3, <1>4

\* It leaves their cells and their handles alone as well.
LEMMA OtherRows ==
  ASSUME IInv, NEW t \in Installer, Installs(t), NEW h \in Hook, cur'[t] # h
  PROVE  /\ UNCHANGED <<installed[h], handles[h]>>
         /\ \A p : Row(h, p)' <=> Row(h, p)
<1>1. /\ pc[t] # "idle" => cur[t] # h
      /\ pc \in [Thread -> InstallerPC \cup CallerPC] /\ cur \in [Thread -> Hook \cup {NoPtr}]
      /\ installed \in [Hook -> Option] /\ handles \in [Hook -> Nat]
      /\ TargetOf[h] \in Target /\ t \in Thread
  BY OnlyOneMoves, Typed DEF Operates, IInv, TypeOK
<1>2. UNCHANGED <<installed[h], handles[h]>>
  <2>1. CASE Install(t, is_installed) /\ UNCHANGED cellVars
    BY <2>1 DEF Install, InstallRefused, InstallBegin, LookupFails, LookupSucceeds, cellVars
  <2>2. ASSUME NEW g \in Hook, UninstallBegin(t, g), UNCHANGED cellVars
        PROVE  UNCHANGED <<installed[h], handles[h]>>
    BY <1>1, <2>2 DEF UninstallBegin, cellVars
  <2>3. CASE StoreInstalled(t) \/ Take(t)
    BY <1>1, <2>3 DEF StoreInstalled, Take, ReturnHandle, Return, Goto
  <2>4. CASE InstallFails(t) \/ NativeInstall(t) \/ NotInstalled(t) \/ NativeRemoved(t) \/ RemapFailure(t)
    BY <2>4 DEF InstallFails, NativeInstall, NotInstalled, NativeRemoved, RemapFailure, cellVars
  <2>5. QED
    BY <2>1, <2>2, <2>3, <2>4 DEF Installs, Backend
<1>3. /\ LinksHook(ChainOf(h), h)' <=> LinksHook(ChainOf(h), h)
      /\ LinksOnce(ChainOf(h), h)' <=> LinksOnce(ChainOf(h), h)
  BY <1>1, OtherLinks DEF ChainOf
<1>4. QED
  BY <1>2, <1>3 DEF Row, is_installed

\* The step of the thread that operates on h goes from one line to another.
LEMMA OwnRow ==
  ASSUME IInv, NEW t \in Installer, Installs(t), NEW h \in KeptHook, cur'[t] = h, Row(h, pc[t])
  PROVE  Row(h, pc[t])'
<1>1. /\ h \in Hook /\ TargetOf[h] \notin Stubborn /\ t \in Thread
      /\ pc[t] # "idle" => cur[t] = h
      /\ pc \in [Thread -> InstallerPC \cup CallerPC] /\ cur \in [Thread -> Hook \cup {NoPtr}]
      /\ handles \in [Hook -> Nat]
      /\ installed \in [Hook -> Option]
  BY OnlyOneMoves, Typed DEF Operates, IInv, TypeOK, KeptHook
<1> USE DEF is_installed, ChainOf
<1>2. CASE Install(t, is_installed) /\ UNCHANGED cellVars
  BY <1>1, <1>2 DEF Install, InstallRefused, InstallBegin, LookupFails, LookupSucceeds, Return,
     Goto, cellVars, Row
<1>3. ASSUME NEW g \in Hook, UninstallBegin(t, g), UNCHANGED cellVars
      PROVE  Row(h, pc[t])'
  <2>1. g = h /\ pc[t] = "idle" /\ pc'[t] = "check" /\ handles[h] > 0 /\ handles'[h] = handles[h] - 1
    BY <1>1, <1>3 DEF UninstallBegin, Goto
  <2>2. handles[h] = 1 /\ handles'[h] = 0
    BY <1>1, <2>1 DEF Row
  <2>3. QED
    BY <1>3, <2>1, <2>2 DEF cellVars, Row
<1>4. CASE InstallFails(t)
  BY <1>1, <1>4 DEF InstallFails, Return, Goto, cellVars, Row
<1>5. CASE NativeInstall(t)
  <2> DEFINE m == TargetOf[h]
  <2>1. PICK i : i = [hook |-> cur[t], id |-> made + 1]
    OBVIOUS
  <2>2. /\ pc[t] = "patch" /\ pc'[t] = "store" /\ cur[t] = h /\ UNCHANGED <<installed, handles>>
    BY <1>1, <1>5 DEF NativeInstall, Goto
  <2>3. i.hook = h /\ m \in Target /\ \E k \in Nat : Inserted(chain[m], chain'[m], k, i)
    BY <1>5, <2>1, <2>2, Installing
  <2>4. LinksHook(chain'[m], h) /\ (~LinksHook(chain[m], h) => LinksOnce(chain'[m], h))
    BY <2>3, InsertedHooks, Typed DEF IInv
  <2>5. QED
    BY <2>2, <2>4 DEF Row
<1>6. CASE StoreInstalled(t)
  <2>1. /\ pc[t] = "store" /\ pc'[t] = "idle" /\ cur[t] = h /\ UNCHANGED chain
        /\ installed'[h] = held[t] /\ handles'[h] = handles[h] + 1
    BY <1>1, <1>6 DEF StoreInstalled, ReturnHandle, Return, Goto
  <2>2. held[t] # None /\ handles[h] = 0
    BY <2>1 DEF IInv, Tokens, Holds, Row
  <2>3. QED
    BY <2>1, <2>2 DEF Row
<1>7. CASE NotInstalled(t)
  BY <1>1, <1>7 DEF NotInstalled, Return, Goto, Row
<1>8. CASE Take(t)
  BY <1>1, <1>8 DEF Take, Goto, Row
<1>9. CASE NativeRemoved(t)
  <2> DEFINE m == TargetOf[h]
  <2>1. PICK i : i = held[t][1]
    OBVIOUS
  <2>2. /\ pc[t] = "unhook" /\ pc'[t] = "idle" /\ cur[t] = h /\ UNCHANGED <<installed, handles>>
    BY <1>1, <1>9 DEF NativeRemoved, Return, Goto
  <2>3. /\ i.hook = h /\ chain'[m] \in Seq(InstalledHook)
        /\ \E k \in Nat : Inserted(chain'[m], chain[m], k, i)
    BY <1>9, <2>1, <2>2, Removing
  <2>4. LinksOnce(chain[m], h) => ~LinksHook(chain'[m], h)
    BY <2>3, InsertedHooks, LenProperties
  <2>5. ~LinksHook(chain'[m], h) => LinksOnce(chain'[m], h)
    BY DEF LinksHook, LinksOnce
  <2>6. QED
    BY <2>2, <2>4, <2>5 DEF Row
<1>10. CASE RemapFailure(t)
  BY <1>1, <1>10 DEF RemapFailure, Return, Goto
<1>11. QED
  BY <1>2, <1>3, <1>4, <1>5, <1>6, <1>7, <1>8, <1>9, <1>10 DEF Installs, Backend

LEMMA NextRows ==
  ASSUME KeptInv, [Next]_vars
  PROVE  Rows'
<1> USE DEF KeptInv
<1>1. KeptHook' = KeptHook
  BY DEF KeptHook
<1>2. ASSUME NEW t \in Installer, Installs(t), NEW h \in KeptHook
      PROVE  /\ Idle(h)' => Row(h, "idle")'
             /\ \A u \in Installer : cur'[u] = h /\ pc'[u] # "idle" => Row(h, pc[u])'
  <2>1. Operates(t) /\ h \in Hook /\ TargetOf[h] \in Orderly
    BY <1>2, OnlyOneMoves DEF IInv, KeptHook
  <2>2. CASE cur'[t] = h
    <3>1. \A u \in Installer \ {t} : (cur[u] = h => pc[u] = "idle") /\ (cur'[u] = h => pc'[u] = "idle")
      BY <2>1, <2>2, OwnPlace
    <3>2. Row(h, pc[t])
      BY <2>1, <2>2, <3>1 DEF Rows, Idle, Operates
    <3>3. Row(h, pc[t])'
      BY <1>2, <2>2, <3>2, OwnRow
    <3>4. Idle(h)' => pc'[t] = "idle"
      BY <2>2 DEF Idle
    <3>5. QED
      BY <3>1, <3>3, <3>4
  <2>3. CASE cur'[t] # h
    <3>1. \A p : Row(h, p)' <=> Row(h, p)
      BY <1>2, <2>1, <2>3, OtherRows
    <3>2. QED
      BY <1>2, <2>1, <2>3, <3>1, OtherPlace DEF Rows
  <2>4. QED
    BY <2>2, <2>3
<1>3. ASSUME NEW c \in Caller, Calls(c)
      PROVE  Rows'
  <2>1. /\ \A u \in Installer : pc'[u] = pc[u] /\ cur'[u] = cur[u]
        /\ UNCHANGED <<cellVars, handles>>
    BY <1>3, CallerAlone DEF IInv
  <2>2. \A h, p : Row(h, p)' <=> Row(h, p)
    BY <2>1 DEF Row, is_installed, ChainOf, cellVars
  <2>3. QED
    BY <1>1, <2>1, <2>2 DEF Rows, Idle
<1>4. CASE UNCHANGED vars
  <2>1. UNCHANGED <<pc, cur, handles, installed, chain>>
    BY <1>4 DEF vars, clientVars, cellVars
  <2>2. \A h, p : Row(h, p)' <=> Row(h, p)
    BY <2>1 DEF Row, is_installed, ChainOf
  <2>3. QED
    BY <1>1, <2>1, <2>2 DEF Rows, Idle
<1>5. ASSUME NEW t \in Installer, Installs(t)
      PROVE  Rows'
  BY <1>1, <1>2, <1>5 DEF Rows
<1>6. QED
  BY <1>3, <1>4, <1>5, StepOf

LEMMA NextOneATime ==
  ASSUME TypeOK, OneATime, [Next]_vars
  PROVE  OneATime'
<1>1. ASSUME NEW t \in Installer, Installs(t)
      PROVE  OneATime'
  BY <1>1, OnlyOneMoves, OneATimeKept
<1>2. ASSUME NEW c \in Caller, Calls(c)
      PROVE  OneATime'
  BY <1>2, CallerAlone, OneATimeKept
<1>3. CASE UNCHANGED vars
  BY <1>3, OneATimeKept DEF vars, clientVars
<1>4. QED
  BY <1>1, <1>2, <1>3, StepOf

LEMMA InitKept == Init => KeptInv
<1> SUFFICES ASSUME Init PROVE KeptInv
  OBVIOUS
<1>1. OneATime
  BY DEF Init, ClientInit, OneATime, Thread
<1>2. ASSUME NEW h \in KeptHook
      PROVE  Row(h, "idle")
  <2>1. ChainOf(h) = <<>> /\ ~is_installed(h) /\ handles[h] = 0
    BY <1>2, HookAssumption DEF Init, ClientInit, ChainOf, is_installed, KeptHook
  <2>2. ~LinksHook(<<>>, h) /\ LinksOnce(<<>>, h)
    BY EmptySeq DEF LinksHook, LinksOnce
  <2>3. QED
    BY <2>1, <2>2 DEF Row
<1>3. Rows
  BY <1>2 DEF Init, ClientInit, Rows, Thread
<1>4. QED
  BY <1>1, <1>3, InitInv DEF KeptInv

LEMMA NextKept == KeptInv /\ [Next]_vars => KeptInv'
BY NextInv, NextOneATime, NextRows DEF KeptInv, IInv

(***************************************************************************)
(* InstalledIsChained: between operations on a hook, one that says it is   *)
(* installed is in the chain of its method, whatever races, wherever hooks *)
(* are put and whatever uninstall fails; and of the kept hooks, only those *)
(* are.                                                                    *)
(***************************************************************************)
THEOREM InstalledSaysChained == Spec => []InstalledIsChained
<1>1. KeptInv => InstalledIsChained
  <2> SUFFICES ASSUME KeptInv, NEW h \in Hook, Idle(h)
               PROVE  LET chained == \E k \in DOMAIN chain[TargetOf[h]] : Step(TargetOf[h], k) = h
                      IN /\ is_installed(h) => chained
                         /\ h \in KeptHook /\ chained => is_installed(h)
    BY DEF InstalledIsChained
  <2>1. DOMAIN ChainOf(h) = 1 .. Len(ChainOf(h))
    BY HookAssumption, LenProperties DEF KeptInv, IInv, TypeOK, ChainOf
  <2>2. (\E k \in DOMAIN chain[TargetOf[h]] : Step(TargetOf[h], k) = h) <=> LinksHook(ChainOf(h), h)
    BY <2>1 DEF Step, LinksHook, ChainOf
  <2>3. is_installed(h) => LinksHook(ChainOf(h), h)
    BY DEF KeptInv, IInv, Tokens, OwnToken, Links, LinksHook
  <2>4. h \in KeptHook => (is_installed(h) <=> LinksHook(ChainOf(h), h))
    BY DEF KeptInv, Rows, Row
  <2>5. QED
    BY <2>2, <2>3, <2>4
<1>2. QED
  BY <1>1, InitKept, NextKept, PTL DEF Spec

-----------------------------------------------------------------------------
\* The phase HookContract knows of h, from where the thread working on it is.
LEMMA PhaseOf ==
  ASSUME NEW h \in KeptHook, NEW p,
         Publishing(h) <=> p \in PublishPC, Uninstalling(h) <=> p \in RemovePC
  PROVE  phase[h] = PhaseAt(p, is_installed(h))
BY DEF phase, PhaseAt, PublishPC, RemovePC

\* The same in the next state.
LEMMA PhaseOfNext ==
  ASSUME NEW h \in KeptHook, NEW p,
         Publishing(h)' <=> p \in PublishPC, Uninstalling(h)' <=> p \in RemovePC
  PROVE  phase'[h] = PhaseAt(p, is_installed(h)')
BY DEF phase, PhaseAt, PublishPC, RemovePC, KeptHook

LEMMA OwnPhase ==
  ASSUME TypeOK, OneATime, NEW t \in Installer, Installs(t), NEW h \in KeptHook, cur'[t] = h
  PROVE  /\ phase[h] = PhaseAt(pc[t], is_installed(h))
         /\ phase'[h] = PhaseAt(pc'[t], is_installed(h)')
<1>1. h \in Hook /\ TargetOf[h] \in Orderly /\ Operates(t)
  BY OnlyOneMoves DEF KeptHook
<1>2. QED
  BY <1>1, OwnPlace, PhaseOf, PhaseOfNext

LEMMA OtherPhase ==
  ASSUME KeptInv, NEW t \in Installer, Installs(t), NEW h \in KeptHook, cur'[t] # h
  PROVE  UNCHANGED <<phase[h], handles[h]>>
<1>1. KeptHook' = KeptHook /\ h \in Hook
  BY DEF KeptHook
<1>2. UNCHANGED <<installed[h], handles[h]>>
  BY <1>1, OtherRows DEF KeptInv
<1>3. Operates(t)
  BY OnlyOneMoves DEF KeptInv, IInv
<1>4. phase[h]' = phase[h]
  BY <1>1, <1>2, <1>3, OtherPlace DEF phase, is_installed
<1>5. QED
  BY <1>2, <1>4

(***************************************************************************)
(* What an installer's step does to the phase and the handles of the hook  *)
(* it works on.                                                            *)
(***************************************************************************)
Turns(h, from, to) == phase[h] = from /\ phase'[h] = to

Removal(h) ==
  /\ Turns(h, "installed", "removing")
  /\ handles[h] > 0 /\ handles'[h] = handles[h] - 1
  /\ UninstallQuiet => \A c \in Caller : ~Inside(c, h)

PhaseStep(h) ==
  \/ UNCHANGED <<phase[h], handles[h]>>
  \/ Turns(h, "absent", "publishing") /\ handles'[h] = handles[h]
  \/ Turns(h, "publishing", "installed") /\ handles'[h] = handles[h] + 1
  \/ Removal(h)
  \/ Turns(h, "removing", "absent") /\ handles'[h] = handles[h]

LEMMA OwnLine ==
  ASSUME KeptInv, NEW t \in Installer, Installs(t), NEW h \in KeptHook, cur'[t] = h
  PROVE  Row(h, pc[t])
<1>1. h \in Hook /\ TargetOf[h] \in Orderly /\ Operates(t)
  BY OnlyOneMoves DEF KeptHook, KeptInv, IInv
<1>2. /\ \A u \in Installer \ {t} : cur[u] = h => pc[u] = "idle"
      /\ pc[t] # "idle" => cur[t] = h
  BY <1>1, OwnPlace DEF KeptInv, Operates
<1>3. QED
  BY <1>2 DEF KeptInv, Rows, Idle

LEMMA OwnStep ==
  ASSUME KeptInv, NEW t \in Installer, Installs(t), NEW h \in KeptHook, cur'[t] = h
  PROVE  PhaseStep(h)
<1> USE DEF PhaseAt, PublishPC, RemovePC, Turns, is_installed
<1>1. /\ phase[h] = PhaseAt(pc[t], is_installed(h))
      /\ phase'[h] = PhaseAt(pc'[t], is_installed(h)')
  BY OwnPhase DEF KeptInv, IInv
<1>2. Row(h, pc[t])
  BY OwnLine
<1>3. /\ h \in Hook /\ t \in Thread /\ TargetOf[h] \notin Stubborn
      /\ pc \in [Thread -> InstallerPC \cup CallerPC]
      /\ cur \in [Thread -> Hook \cup {NoPtr}]
      /\ handles \in [Hook -> Nat]
      /\ installed \in [Hook -> Option]
      /\ pc[t] # "idle" => cur[t] = h
  BY OnlyOneMoves, Typed DEF KeptInv, IInv, TypeOK, KeptHook, Operates
<1>4. CASE Install(t, is_installed) /\ UNCHANGED cellVars
  <2>1. UNCHANGED <<installed, handles>>
    BY <1>4 DEF Install, InstallRefused, InstallBegin, LookupFails, LookupSucceeds, cellVars
  <2>2. /\ pc[t] \notin PublishPC \cup RemovePC
        /\ pc'[t] \notin PublishPC \cup RemovePC
    BY <1>3, <1>4 DEF Install, InstallRefused, InstallBegin, LookupFails, LookupSucceeds, Return,
       Goto
  <2>3. phase'[h] = phase[h]
    BY <1>1, <2>1, <2>2
  <2>4. QED
    BY <2>1, <2>3 DEF PhaseStep
<1>5. ASSUME NEW g \in Hook, UninstallBegin(t, g), UNCHANGED cellVars
      PROVE  PhaseStep(h)
  <2>1. /\ g = h /\ pc[t] = "idle" /\ pc'[t] = "check"
        /\ handles[h] > 0 /\ handles'[h] = handles[h] - 1
        /\ UninstallQuiet => \A c \in Caller : ~Inside(c, h)
    BY <1>3, <1>5 DEF UninstallBegin, Goto
  <2>2. is_installed(h)
    BY <1>2, <2>1 DEF Row
  <2>3. Turns(h, "installed", "removing")
    BY <1>1, <2>1, <2>2
  <2>4. QED
    BY <2>1, <2>3 DEF PhaseStep, Removal
<1>6. CASE InstallFails(t)
  <2>1. /\ UNCHANGED <<installed, handles>> /\ pc[t] = "patch" /\ pc'[t] = "idle"
    BY <1>3, <1>6 DEF InstallFails, Return, Goto, cellVars
  <2>2. QED
    BY <1>1, <2>1 DEF PhaseStep
<1>7. CASE NativeInstall(t)
  <2>1. pc[t] = "patch" /\ pc'[t] = "store" /\ UNCHANGED handles
    BY <1>3, <1>7 DEF NativeInstall, Goto
  <2>2. ~is_installed(h)
    BY <1>2, <2>1 DEF Row
  <2>3. QED
    BY <1>1, <2>1, <2>2 DEF PhaseStep
<1>8. CASE StoreInstalled(t)
  <2>1. /\ pc[t] = "store" /\ pc'[t] = "idle" /\ installed'[h] = held[t]
        /\ handles'[h] = handles[h] + 1
    BY <1>3, <1>8 DEF StoreInstalled, ReturnHandle, Return, Goto
  <2>2. held[t] # None
    BY <2>1 DEF KeptInv, IInv, Tokens, Holds
  <2>3. QED
    BY <1>1, <2>1, <2>2 DEF PhaseStep
<1>9. CASE NotInstalled(t)
  BY <1>2, <1>3, <1>9 DEF NotInstalled, Return, Goto, Row
<1>10. CASE Take(t)
  <2>1. UNCHANGED handles /\ pc[t] \in RemovePC /\ pc'[t] \in RemovePC
    BY <1>3, <1>10 DEF Take, Goto
  <2>2. QED
    BY <1>1, <2>1 DEF PhaseStep
<1>11. CASE NativeRemoved(t)
  <2>1. pc[t] = "unhook" /\ pc'[t] = "idle" /\ UNCHANGED <<installed, handles>>
    BY <1>3, <1>11 DEF NativeRemoved, Return, Goto
  <2>2. ~is_installed(h)
    BY <1>2, <2>1 DEF Row
  <2>3. QED
    BY <1>1, <2>1, <2>2 DEF PhaseStep
<1>12. CASE RemapFailure(t)
  BY <1>3, <1>12 DEF RemapFailure, Return, Goto
<1>13. QED
  BY <1>4, <1>5, <1>6, <1>7, <1>8, <1>9, <1>10, <1>11, <1>12 DEF Installs, Backend

\* The phase of a kept hook that is in its chain and that nobody is removing.
LEMMA InPlace ==
  ASSUME KeptInv, NEW h \in KeptHook, LinksHook(ChainOf(h), h), ~Uninstalling(h)
  PROVE  phase[h] \in {"publishing", "installed"}
<1>1. CASE Idle(h)
  <2>1. is_installed(h)
    BY <1>1 DEF KeptInv, Rows, Row
  <2>2. (Publishing(h) <=> "idle" \in PublishPC) /\ (Uninstalling(h) <=> "idle" \in RemovePC)
    BY <1>1 DEF Idle, Publishing, Uninstalling, PublishPC, RemovePC
  <2>3. QED
    BY <2>1, <2>2, PhaseOf DEF PhaseAt
<1>2. ASSUME NEW t \in Installer, cur[t] = h, pc[t] # "idle"
      PROVE  phase[h] \in {"publishing", "installed"}
  <2>1. Row(h, pc[t])
    BY <1>2 DEF KeptInv, Rows
  <2>2. pc[t] \notin RemovePC
    BY <1>2 DEF Uninstalling, RemovePC
  <2>3. pc[t] \notin {"lookup", "patch"}
    BY <2>1 DEF Row
  <2>4. pc[t] \in PublishPC
    BY <1>2, <2>1, <2>2, <2>3 DEF Row, PublishPC, RemovePC
  <2>5. Publishing(h)
    BY <1>2, <2>4 DEF Publishing, PublishPC
  <2>6. QED
    BY <2>2, <2>4, <2>5, PhaseOf DEF PhaseAt
<1>3. QED
  BY <1>1, <1>2 DEF Idle

-----------------------------------------------------------------------------
\* The order of a chain, around a hook that is in it once.
LEMMA OrderOnce ==
  ASSUME NEW s, Len(s) \in Nat, NEW h, LinksOnce(s, h)
  PROVE  /\ ~Precedes(s, h, h)
         /\ \A g, e : Precedes(s, g, h) /\ Precedes(s, h, e) => Precedes(s, g, e)
<1>1. ~Precedes(s, h, h)
  BY DEF LinksOnce, Precedes
<1>2. ASSUME NEW g, NEW e, Precedes(s, g, h), Precedes(s, h, e)
      PROVE  Precedes(s, g, e)
  <2>1. PICK i, j \in 1 .. Len(s) : i < j /\ s[i].hook = g /\ s[j].hook = h
    BY <1>2 DEF Precedes
  <2>2. PICK k, l \in 1 .. Len(s) : k < l /\ s[k].hook = h /\ s[l].hook = e
    BY <1>2 DEF Precedes
  <2>3. j = k
    BY <2>1, <2>2 DEF LinksOnce
  <2>4. i < l
    BY <2>1, <2>2, <2>3
  <2>5. QED
    BY <2>1, <2>2, <2>4 DEF Precedes
<1>3. QED
  BY <1>1, <1>2

\* `original` of a hook goes on in the chain, behind the hook.
LEMMA Follow ==
  ASSUME IInv, NEW h \in Hook, is_installed(h)
  PROVE  /\ original(h) \in Entry
         /\ original(h) \in Hook => /\ Precedes(ChainOf(h), h, original(h))
                                    /\ TargetOf[original(h)] = TargetOf[h]
                                    /\ LinksHook(ChainOf(h), original(h))
<1> DEFINE m == TargetOf[h]
           i == installed[h][1]
           k == Position(i)
<1>1. /\ m \in Target /\ chain[m] \in Seq(InstalledHook) /\ Len(chain[m]) \in Nat
      /\ DOMAIN chain[m] = 1 .. Len(chain[m])
  BY Typed, LenProperties DEF IInv, TypeOK
<1>2. i.hook = h /\ Links(chain[m], i)
  BY DEF IInv, Tokens, OwnToken, ChainOf
<1>3. k \in 1 .. Len(chain[m]) /\ chain[m][k] = i
  BY <1>1, <1>2 DEF Position, Links
<1>4. original(h) = IF k + 1 \in 1 .. Len(chain[m]) THEN chain[m][k + 1].hook ELSE Orig
  BY <1>1 DEF original, Step, is_installed
<1> HIDE DEF i, k
<1>5. ASSUME NEW l \in 1 .. Len(chain[m]), l = k + 1
      PROVE  /\ original(h) \in Hook /\ TargetOf[original(h)] = m
             /\ Precedes(chain[m], h, original(h)) /\ LinksHook(chain[m], original(h))
  <2>1. original(h) = chain[m][l].hook
    BY <1>4, <1>5
  <2>2. original(h) \in Hook
    <3>1. chain[m][l] \in InstalledHook
      BY <1>1, <1>5, ElementOfSeq
    <3>2. QED
      BY <2>1, <3>1 DEF InstalledHook
  <2>3. k < l /\ chain[m][k].hook = h
    BY <1>1, <1>2, <1>3, <1>5
  <2>4. Precedes(chain[m], h, original(h)) /\ LinksHook(chain[m], original(h))
    BY <1>3, <1>5, <2>1, <2>3 DEF Precedes, LinksHook
  <2>5. QED
    BY <1>1, <2>2, <2>4 DEF IInv, Leads
<1>6. CASE k + 1 \notin 1 .. Len(chain[m])
  BY <1>4, <1>6, HookAssumption DEF Entry
<1>7. QED
  BY <1>5, <1>6 DEF Entry, ChainOf

\* A method that leads to a hook has it in its chain.
LEMMA LeadsTo ==
  ASSUME IInv, NEW m \in Target, code[m] \in Hook
  PROVE  TargetOf[code[m]] = m /\ LinksHook(chain[m], code[m])
<1>1. chain[m] # <<>> /\ code[m] = chain[m][1].hook
  BY HookAssumption DEF IInv, Leads
<1>2. 1 \in 1 .. Len(chain[m])
  BY <1>1, FirstHook DEF IInv, TypeOK
<1>3. LinksHook(chain[m], code[m])
  BY <1>1, <1>2 DEF LinksHook
<1>4. QED
  BY <1>3 DEF IInv, Leads

LEMMA InitReaches == Init => Reaches
BY HookAssumption DEF Init, ClientInit, Reaches, Behind, Inside, Thread, KeptHook

\* A caller's step moves no phase and takes no handle.
LEMMA CallerPhase ==
  ASSUME TypeOK, NEW c \in Caller, Calls(c)
  PROVE  UNCHANGED <<phase, handles, chain>>
<1>1. /\ \A u \in Installer : pc'[u] = pc[u] /\ cur'[u] = cur[u]
      /\ UNCHANGED <<cellVars, handles>>
  BY CallerAlone
<1>2. \A h : /\ Publishing(h)' <=> Publishing(h)
             /\ Uninstalling(h)' <=> Uninstalling(h)
             /\ is_installed(h)' <=> is_installed(h)
  BY <1>1 DEF Publishing, Uninstalling, is_installed, cellVars
<1>3. KeptHook' = KeptHook
  BY DEF KeptHook
<1>4. phase' = phase
  BY <1>2, <1>3 DEF phase
<1>5. QED
  BY <1>1, <1>4 DEF cellVars

(***************************************************************************)
(* What the hooks a call is inside can become: it enters one that is there *)
(* and that it has not been in, leaves all of them, or stays.              *)
(***************************************************************************)
HooksOf(c) == {h \in KeptHook : Inside(c, h)}

LEMMA CallStep ==
  ASSUME KeptInv, Reaches, UninstallQuiet, NEW c \in Caller, Calls(c)
  PROVE  /\ \A d \in Caller \ {c} : UNCHANGED <<pc[d], cur[d], at[d], ran[d]>>
         /\ pc'[c] = "inhook" => at'[c] = cur'[c] /\ cur'[c] \in ran'[c]
         /\ Behind(c)'
         /\ \/ HooksOf(c)' = HooksOf(c)
            \/ HooksOf(c)' = {}
            \/ \E h \in KeptHook :
                 /\ phase[h] \in {"publishing", "installed"} /\ h \notin HooksOf(c)
                 /\ HooksOf(c)' = HooksOf(c) \cup {h}
<1> USE HookAssumption DEF HooksOf, Inside
<1>1. /\ pc \in [Thread -> InstallerPC \cup CallerPC] /\ c \in Thread
      /\ cur \in [Thread -> Hook \cup {NoPtr}]
      /\ at \in [Caller -> Entry] /\ ran \in [Caller -> SUBSET Hook]
      /\ pc[c] = "inhook" => cur[c] \in Hook
      /\ \A d \in Caller : d \in Thread
      /\ IInv
  BY DEF KeptInv, IInv, TypeOK, ClientTypeOK, Thread
<1>2. KeptHook' = KeptHook /\ UNCHANGED <<phase, chain>> /\ \A h \in KeptHook : h \in Hook /\ h # Orig
  BY CallerPhase DEF KeptInv, IInv, KeptHook
<1>3. \A h : ChainOf(h)' = ChainOf(h)
  BY <1>2 DEF ChainOf
<1>4. ASSUME NEW m \in Target, Call(c, m)
      PROVE  /\ \A d \in Caller \ {c} : UNCHANGED <<pc[d], cur[d], at[d], ran[d]>>
             /\ pc'[c] = "jump" /\ ran'[c] = {} /\ HooksOf(c) = {}
             /\ code[m] \notin KeptHook => HooksOf(c)' = {}
             /\ code[m] \in KeptHook => /\ HooksOf(c)' = {code[m]}
                                        /\ phase[code[m]] \in {"publishing", "installed"}
  <2>1. /\ pc[c] = "idle" /\ pc'[c] = "jump" /\ at'[c] = code[m] /\ ran'[c] = {}
        /\ ~Uninstalling(code[m])
        /\ \A d \in Caller \ {c} : UNCHANGED <<pc[d], cur[d], at[d], ran[d]>>
    BY <1>1, <1>4 DEF Call, Goto, MayReach
  <2>2. HooksOf(c)' = {h \in KeptHook : h = code[m]}
    BY <1>2, <2>1
  <2>3. code[m] \in KeptHook => LinksHook(ChainOf(code[m]), code[m])
    BY <1>1, <1>2, LeadsTo DEF ChainOf
  <2>4. QED
    BY <2>1, <2>2, <2>3, InPlace
<1>5. CASE EnterHook(c)
  <2>1. /\ pc[c] = "jump" /\ pc'[c] = "inhook" /\ cur'[c] = at[c] /\ at' = at
        /\ ran'[c] = ran[c] \cup {at[c]}
        /\ \A d \in Caller \ {c} : UNCHANGED <<pc[d], cur[d], at[d], ran[d]>>
    BY <1>1, <1>5 DEF EnterHook, Goto
  <2>2. HooksOf(c)' = HooksOf(c)
    BY <1>2, <2>1
  <2>3. Behind(c)'
    BY <1>2, <1>3, <2>1 DEF Reaches, Behind
  <2>4. QED
    BY <2>1, <2>2, <2>3
<1>6. CASE RunOriginal(c) \/ SkipOriginal(c)
  <2>1. /\ pc'[c] = "idle"
        /\ \A d \in Caller \ {c} : UNCHANGED <<pc[d], cur[d], at[d], ran[d]>>
    BY <1>1, <1>6 DEF RunOriginal, SkipOriginal, Goto, callVars
  <2>2. HooksOf(c)' = {}
    BY <2>1
  <2>3. QED
    BY <2>1, <2>2 DEF Behind
<1>7. CASE CallOriginal(c, original(cur[c]))
  <2> DEFINE h == cur[c]
  <2>1. PICK e : e = original(h)
    OBVIOUS
  <2>2. /\ pc[c] = "inhook" /\ pc'[c] = "jump" /\ at'[c] = e /\ ran' = ran
        /\ e \in Entry /\ ~Uninstalling(e) /\ h \in Hook
        /\ \A d \in Caller \ {c} : UNCHANGED <<pc[d], cur[d], at[d], ran[d]>>
    BY <1>1, <1>7, <2>1 DEF CallOriginal, Goto, MayReach
  <2>3. at[c] = h /\ h \in ran[c]
    BY <2>2 DEF Reaches
  <2>4. is_installed(h)
    BY <2>1, <2>2 DEF original, is_installed, Entry
  <2>5. CASE e \notin KeptHook
    <3>1. HooksOf(c)' = HooksOf(c)
      BY <1>2, <2>2, <2>3, <2>5
    <3>2. QED
      BY <1>2, <2>2, <2>5, <3>1 DEF Behind
  <2>6. CASE e \in KeptHook
    <3>1. /\ Precedes(ChainOf(h), h, e) /\ TargetOf[e] = TargetOf[h]
          /\ LinksHook(ChainOf(h), e) /\ ChainOf(e) = ChainOf(h)
      BY <1>1, <1>2, <2>1, <2>2, <2>4, <2>6, Follow DEF ChainOf
    <3>2. h \in KeptHook
      BY <2>2, <2>6, <3>1 DEF KeptHook
    <3>3. /\ LinksOnce(ChainOf(h), h) /\ LinksOnce(ChainOf(h), e)
          /\ Len(ChainOf(h)) \in Nat
      <4>1. \A g \in KeptHook : LinksOnce(ChainOf(g), g)
        BY DEF KeptInv, Rows, Row, Idle
      <4>2. QED
        BY <1>1, <2>2, <2>6, <3>1, <3>2, <4>1, Typed DEF IInv, ChainOf
    <3>4. \A g \in ran[c] : Precedes(ChainOf(e), g, e)
      <4> SUFFICES ASSUME NEW g \in ran[c], g # h PROVE Precedes(ChainOf(e), g, e)
        BY <3>1
      <4>1. Precedes(ChainOf(h), g, h)
        BY <2>2, <2>3, <3>2 DEF Reaches, Behind
      <4>2. QED
        BY <3>1, <3>3, <4>1, OrderOnce
    <3>5. e \notin ran[c]
      BY <3>1, <3>3, <3>4, OrderOnce
    <3>6. phase[e] \in {"publishing", "installed"}
      BY <2>2, <2>6, <3>1, InPlace
    <3>7. HooksOf(c)' = HooksOf(c) \cup {e} /\ e \notin HooksOf(c)
      BY <1>2, <2>2, <2>3, <2>6, <3>5
    <3>8. Behind(c)'
      BY <1>3, <2>2, <3>4 DEF Behind
    <3>9. QED
      BY <2>2, <2>6, <3>6, <3>7, <3>8
  <2>7. QED
    BY <2>5, <2>6
<1>8. CASE OriginalPanics(c, original(cur[c]))
  <2>1. UNCHANGED <<pc, cur, at, ran>>
    BY <1>8 DEF OriginalPanics
  <2>2. HooksOf(c)' = HooksOf(c)
    BY <1>2, <2>1
  <2>3. Behind(c)'
    BY <1>2, <1>3, <2>1 DEF Reaches, Behind
  <2>4. QED
    BY <2>1, <2>2, <2>3 DEF Reaches
<1>9. ASSUME NEW m \in Target, Call(c, m)
      PROVE  Behind(c)'
  BY <1>4, <1>9 DEF Behind
<1>10. QED
  BY <1>4, <1>5, <1>6, <1>7, <1>8, <1>9 DEF Calls, Continue

(***************************************************************************)
(* An installer's step keeps what a call has been through in front of it:  *)
(* the hook it puts in a chain or takes out of one is not of a call under  *)
(* way.                                                                    *)
(***************************************************************************)
LEMMA InstallerBehind ==
  ASSUME KeptInv, Reaches, NEW t \in Installer, Installs(t), NEW c \in Caller
  PROVE  Behind(c)'
<1>1. UNCHANGED <<pc[c], at[c], ran[c]>> /\ KeptHook' = KeptHook
  BY OnlyOneMoves, HookAssumption DEF KeptInv, IInv, Thread, Operates, KeptHook
<1>2. ran[c] \subseteq Hook
  BY DEF KeptInv, IInv, TypeOK, ClientTypeOK
<1> SUFFICES ASSUME pc[c] # "idle", at[c] \in KeptHook, NEW g \in ran[c],
                    ~(pc[c] = "inhook" /\ g = at[c])
             PROVE  Precedes(ChainOf(at[c]), g, at[c])'
  BY <1>1 DEF Behind
<1>0. PICK a \in KeptHook : a = at[c]
  OBVIOUS
<1>3. Precedes(ChainOf(a), g, a) /\ a \in Hook /\ TargetOf[a] \in Target
  BY <1>0, HookAssumption DEF Reaches, Behind, KeptHook
<1>4. g \in KeptHook
  <2>1. LinksHook(ChainOf(a), g)
    BY <1>3 DEF Precedes, LinksHook
  <2>2. TargetOf[g] = TargetOf[a]
    BY <1>2, <1>3, <2>1 DEF KeptInv, IInv, Leads, ChainOf
  <2>3. QED
    BY <1>2, <2>2 DEF KeptHook
<1>5. phase[a] \in {"publishing", "installed"} /\ phase[g] \in {"publishing", "installed"}
  BY <1>0, <1>4 DEF Reaches, Inside
<1>6. CASE UNCHANGED chain
  BY <1>0, <1>1, <1>3, <1>6 DEF ChainOf
<1>7. CASE NativeInstall(t) \/ NativeRemoved(t)
  <2>1. pc[t] \in {"patch", "unhook"}
    BY <1>7 DEF NativeInstall, NativeRemoved, Return, Goto
  <2>2. ASSUME NEW h \in KeptHook, cur'[t] = h
        PROVE  phase[h] \notin {"publishing", "installed"}
    <3>1. phase[h] = PhaseAt(pc[t], is_installed(h)) /\ Row(h, pc[t])
      BY <2>2, OwnPhase, OwnLine DEF KeptInv, IInv
    <3>2. QED
      BY <2>1, <3>1 DEF Row, PhaseAt, PublishPC, RemovePC
  <2>3. cur'[t] # a /\ cur'[t] # g
    BY <1>4, <1>5, <2>2
  <2>4. Precedes(chain'[TargetOf[a]], g, a)
    BY <1>3, <2>3, OtherLinks DEF KeptInv, ChainOf
  <2>5. QED
    BY <1>0, <1>1, <2>4 DEF ChainOf
<1>8. QED
  BY <1>6, <1>7, ChainsAlone

LEMMA NextReaches ==
  ASSUME KeptInv, Reaches, UninstallQuiet, [Next]_vars
  PROVE  Reaches'
<1>1. KeptHook' = KeptHook
  BY DEF KeptHook
<1>2. ASSUME NEW t \in Installer, Installs(t)
      PROVE  Reaches'
  <2>1. \A c \in Caller : UNCHANGED <<pc[c], cur[c], at[c], ran[c]>>
    BY <1>2, OnlyOneMoves, HookAssumption DEF KeptInv, IInv, Thread, Operates
  <2>2. \A c \in Caller : \A h : Inside(c, h)' <=> Inside(c, h)
    BY <2>1 DEF Inside
  <2>3. ASSUME NEW c \in Caller, NEW h \in KeptHook, Inside(c, h)
        PROVE  phase'[h] \in {"publishing", "installed"}
    <3>1. phase[h] \in {"publishing", "installed"}
      BY <2>3 DEF Reaches
    <3>2. CASE cur'[t] = h
      BY <1>2, <2>3, <3>1, <3>2, OwnStep DEF PhaseStep, Turns, Removal
    <3>3. CASE cur'[t] # h
      BY <1>2, <3>1, <3>3, OtherPhase
    <3>4. QED
      BY <3>2, <3>3
  <2>4. \A c \in Caller : Behind(c)'
    BY <1>2, InstallerBehind
  <2>5. QED
    BY <1>1, <2>1, <2>2, <2>3, <2>4 DEF Reaches
<1>3. ASSUME NEW c \in Caller, Calls(c)
      PROVE  Reaches'
  <2>1. UNCHANGED <<phase, chain>>
    BY <1>3, CallerPhase DEF KeptInv, IInv
  <2>2. \A h \in KeptHook : Inside(c, h)' => phase[h] \in {"publishing", "installed"}
    BY <1>1, <1>3, CallStep DEF HooksOf, Reaches
  <2>3. \A d \in Caller \ {c} : UNCHANGED <<pc[d], cur[d], at[d], ran[d]>>
    BY <1>3, CallStep
  <2>4. \A d \in Caller \ {c} : /\ \A h : Inside(d, h)' <=> Inside(d, h)
                                /\ Behind(d)'
    BY <1>1, <2>1, <2>3 DEF Inside, Behind, ChainOf, Reaches
  <2>5. QED
    BY <1>1, <1>3, <2>1, <2>2, <2>3, <2>4, CallStep DEF Reaches
<1>4. CASE UNCHANGED vars
  <2>1. \A h : /\ Publishing(h)' <=> Publishing(h)
               /\ Uninstalling(h)' <=> Uninstalling(h)
               /\ is_installed(h)' <=> is_installed(h)
    BY <1>4 DEF vars, clientVars, cellVars, Publishing, Uninstalling, is_installed
  <2>2. phase' = phase
    BY <1>1, <2>1 DEF phase
  <2>3. QED
    BY <1>1, <1>4, <2>2 DEF vars, clientVars, cellVars, Reaches, Behind, ChainOf, Inside
<1>5. QED
  BY <1>2, <1>3, <1>4, StepOf

LEMMA SpecReaches ==
  ASSUME UninstallQuiet
  PROVE  Spec => [](KeptInv /\ Reaches)
<1>1. Init => KeptInv /\ Reaches
  BY InitKept, InitReaches
<1>2. KeptInv /\ Reaches /\ [Next]_vars => (KeptInv /\ Reaches)'
  BY UninstallQuiet, NextKept, NextReaches
<1>3. QED
  BY <1>1, <1>2, PTL DEF Spec

(***************************************************************************)
(* OriginalUnlessPublishing: where the program takes turns and keeps the   *)
(* contract of uninstall, and no native uninstall fails, a running hook    *)
(* has an original unless its install has yet to store it.                 *)
(***************************************************************************)
THEOREM OriginalSafe ==
  ASSUME UninstallQuiet
  PROVE  Spec => []OriginalUnlessPublishing
<1>1. KeptInv /\ Reaches => OriginalUnlessPublishing
  <2> SUFFICES ASSUME KeptInv, Reaches, NEW c \in Caller, pc[c] = "inhook",
                      cur[c] \in KeptHook, original(cur[c]) = NoPtr
               PROVE  Publishing(cur[c])
    BY DEF OriginalUnlessPublishing
  <2>1. phase[cur[c]] \in {"publishing", "installed"}
    BY DEF Reaches, Inside
  <2>2. ~is_installed(cur[c])
    <3>1. NoPtr \notin Entry /\ cur[c] \in Hook
      BY HookAssumption DEF Entry, KeptHook
    <3>2. QED
      BY <3>1, Follow DEF KeptInv
  <2>3. QED
    BY <2>1, <2>2 DEF phase
<1>2. QED
  BY <1>1, SpecReaches, PTL

(***************************************************************************)
(* KeptHooksChain: under the same conditions a call comes to no hook       *)
(* twice, however many hooks share the method, wherever the native library *)
(* puts them and whichever are installed and uninstalled during the call.  *)
(***************************************************************************)
THEOREM ChainsKept ==
  ASSUME UninstallQuiet
  PROVE  Spec => []KeptHooksChain
<1>1. KeptInv /\ Reaches => KeptHooksChain
  <2> SUFFICES ASSUME KeptInv, Reaches, NEW c \in Caller, pc[c] = "jump",
                      at[c] \in KeptHook, at[c] \in ran[c]
               PROVE  FALSE
    BY DEF KeptHooksChain
  <2>1. Precedes(ChainOf(at[c]), at[c], at[c])
    BY DEF Reaches, Behind
  <2>2. LinksOnce(ChainOf(at[c]), at[c])
    BY DEF KeptInv, Rows, Row, Idle
  <2>3. Len(ChainOf(at[c])) \in Nat
    BY Typed DEF KeptInv, IInv, ChainOf, KeptHook
  <2>4. QED
    BY <2>1, <2>2, <2>3, OrderOnce
<1>2. QED
  BY <1>1, SpecReaches, PTL

-----------------------------------------------------------------------------
(***************************************************************************)
(* The refinement.  Contract!phase is `phase`, Contract!handles the        *)
(* handles of the kept hooks, Contract!inside `inside`.                    *)
(***************************************************************************)
Kept == [h \in KeptHook |-> handles[h]]

LEMMA InitContract == Init => Contract!Init
<1> SUFFICES ASSUME Init PROVE Contract!Init
  OBVIOUS
<1>1. ASSUME NEW h \in KeptHook
      PROVE  phase[h] = "absent" /\ handles[h] = 0
  <2>1. /\ h \in Hook /\ ~is_installed(h) /\ handles[h] = 0
        /\ \A t \in Installer : pc[t] = "idle"
    BY DEF Init, ClientInit, KeptHook, is_installed, Thread
  <2>2. Publishing(h) <=> "idle" \in PublishPC
    BY <2>1 DEF Publishing, PublishPC
  <2>3. Uninstalling(h) <=> "idle" \in RemovePC
    BY <2>1 DEF Uninstalling, RemovePC
  <2>4. QED
    BY <2>1, <2>2, <2>3, PhaseOf DEF PhaseAt, PublishPC, RemovePC
<1>2. phase = [h \in KeptHook |-> "absent"]
  BY <1>1 DEF phase
<1>3. Kept = [h \in KeptHook |-> 0]
  BY <1>1 DEF Kept
<1>4. \A c \in Caller, h \in KeptHook : ~Inside(c, h)
  BY DEF Init, ClientInit, Inside, Thread
<1>5. inside = [c \in Caller |-> {}]
  BY <1>4 DEF inside
<1>6. QED
  BY <1>2, <1>3, <1>5 DEF Contract!Init, Kept

\* An installer's step is one of HookContract's steps of its hook, or none.
LEMMA InstallerContract ==
  ASSUME KeptInv, UninstallQuiet, NEW t \in Installer, Installs(t)
  PROVE  Contract!Next \/ UNCHANGED Contract!contractVars
<1>1. UNCHANGED inside
  <2>1. \A c \in Caller : UNCHANGED <<pc[c], at[c], ran[c]>>
    BY OnlyOneMoves, HookAssumption DEF KeptInv, IInv, Thread, Operates
  <2>2. \A c \in Caller : \A h : Inside(c, h)' <=> Inside(c, h)
    BY <2>1 DEF Inside
  <2>3. KeptHook' = KeptHook
    BY DEF KeptHook
  <2>4. QED
    BY <2>2, <2>3 DEF inside
<1>2. /\ phase = [h \in KeptHook |-> phase[h]]
      /\ phase' = [h \in KeptHook |-> phase'[h]]
      /\ Kept = [h \in KeptHook |-> handles[h]]
      /\ Kept' = [h \in KeptHook |-> handles'[h]]
  BY DEF phase, Kept, KeptHook
<1>3. \A h \in KeptHook : h # cur'[t] => UNCHANGED <<phase[h], handles[h]>>
  BY OtherPhase
<1>4. CASE cur'[t] \notin KeptHook
  <2>1. phase' = phase /\ Kept' = Kept
    BY <1>2, <1>3, <1>4
  <2>2. QED
    BY <1>1, <2>1 DEF Contract!contractVars, Kept
<1>5. ASSUME NEW h \in KeptHook, cur'[t] = h
      PROVE  Contract!Next \/ UNCHANGED Contract!contractVars
  <2>1. PhaseStep(h)
    BY <1>5, OwnStep
  <2>2. \A s, r : Turns(h, s, r) => phase[h] = s /\ phase' = [phase EXCEPT ![h] = r]
    BY <1>2, <1>3, <1>5 DEF Turns
  <2>3. handles'[h] = handles[h] => Kept' = Kept
    BY <1>2, <1>3, <1>5
  <2>4. CASE UNCHANGED <<phase[h], handles[h]>>
    <3>1. phase' = phase
      BY <1>2, <1>3, <1>5, <2>4
    <3>2. QED
      BY <1>1, <2>3, <2>4, <3>1 DEF Contract!contractVars, Kept
  <2>5. CASE Turns(h, "absent", "publishing") /\ handles'[h] = handles[h]
    <3>1. Contract!Patch(h)
      BY <1>1, <2>2, <2>3, <2>5 DEF Contract!Patch, Contract!Move, Kept
    <3>2. QED
      BY <3>1 DEF Contract!Next
  <2>6. CASE Turns(h, "publishing", "installed") /\ handles'[h] = handles[h] + 1
    <3>1. Kept' = [Kept EXCEPT ![h] = @ + 1]
      BY <1>2, <1>3, <1>5, <2>6
    <3>2. Contract!Publish(h)
      BY <1>1, <2>2, <2>6, <3>1 DEF Contract!Publish, Contract!Move, Kept
    <3>3. QED
      BY <3>2 DEF Contract!Next
  <2>7. CASE Removal(h)
    <3>1. Kept' = [Kept EXCEPT ![h] = @ - 1] /\ Kept[h] > 0
      BY <1>2, <1>3, <1>5, <2>7 DEF Removal
    <3>2. \A c \in Caller : h \notin inside[c]
      BY <2>7, UninstallQuiet DEF Removal, inside
    <3>3. Contract!Remove(h)
      BY <1>1, <2>2, <2>7, <3>1, <3>2 DEF Contract!Remove, Contract!Move, Kept, Removal
    <3>4. QED
      BY <3>3 DEF Contract!Next
  <2>8. CASE Turns(h, "removing", "absent") /\ handles'[h] = handles[h]
    <3>1. Contract!Removed(h)
      BY <1>1, <2>2, <2>3, <2>8 DEF Contract!Removed, Contract!Move, Kept
    <3>2. QED
      BY <3>1 DEF Contract!Next
  <2>9. QED
    BY <2>1, <2>4, <2>5, <2>6, <2>7, <2>8 DEF PhaseStep
<1>6. QED
  BY <1>4, <1>5

\* So is a caller's: it enters a hook that is there, or leaves.
LEMMA CallerContract ==
  ASSUME KeptInv, Reaches, UninstallQuiet, NEW c \in Caller, Calls(c)
  PROVE  Contract!Next \/ UNCHANGED Contract!contractVars
<1>1. UNCHANGED <<phase, handles>>
  BY CallerPhase DEF KeptInv, IInv
<1>2. Kept' = Kept
  BY <1>1 DEF Kept, KeptHook
<1>3. /\ inside = [d \in Caller |-> HooksOf(d)]
      /\ inside' = [d \in Caller |-> HooksOf(d)']
  BY DEF inside, HooksOf, KeptHook
<1>4. \A d \in Caller \ {c} : HooksOf(d)' = HooksOf(d)
  BY CallStep DEF HooksOf, Inside, KeptHook
<1>5. CASE HooksOf(c)' = HooksOf(c)
  <2>1. inside' = inside
    BY <1>3, <1>4, <1>5
  <2>2. QED
    BY <1>1, <1>2, <2>1 DEF Contract!contractVars, Kept
<1>6. CASE HooksOf(c)' = {}
  <2>1. inside' = [inside EXCEPT ![c] = {}]
    BY <1>3, <1>4, <1>6
  <2>2. Contract!Leave(c)
    BY <1>1, <1>2, <2>1 DEF Contract!Leave, Kept
  <2>3. QED
    BY <2>2 DEF Contract!Next
<1>7. ASSUME NEW h \in KeptHook, phase[h] \in {"publishing", "installed"},
             h \notin HooksOf(c), HooksOf(c)' = HooksOf(c) \cup {h}
      PROVE  Contract!Next
  <2>1. inside' = [inside EXCEPT ![c] = @ \cup {h}] /\ h \notin inside[c]
    BY <1>3, <1>4, <1>7
  <2>2. Contract!Enter(c, h)
    BY <1>1, <1>2, <1>7, <2>1 DEF Contract!Enter, Kept
  <2>3. QED
    BY <2>2 DEF Contract!Next
<1>8. QED
  BY <1>5, <1>6, <1>7, CallStep

LEMMA StepContract ==
  ASSUME KeptInv, Reaches, UninstallQuiet, [Next]_vars
  PROVE  Contract!Next \/ UNCHANGED Contract!contractVars
<1>1. CASE UNCHANGED vars
  <2>1. UNCHANGED <<phase, handles, inside>>
    BY <1>1 DEF vars, clientVars, cellVars, phase, inside, KeptHook, Publishing, Uninstalling,
       is_installed, Inside
  <2>2. QED
    BY <2>1 DEF Contract!contractVars, KeptHook
<1>2. QED
  BY <1>1, StepOf, InstallerContract, CallerContract

(***************************************************************************)
(* KeepsContract: where the program takes turns and keeps the contract of  *)
(* uninstall, and no native uninstall fails, the backend's cells and the   *)
(* library's chains behave as HookContract says of any hook, step by step. *)
(***************************************************************************)
THEOREM Implements ==
  ASSUME UninstallQuiet
  PROVE  Spec => KeepsContract
<1>1. KeptInv /\ Reaches /\ [Next]_vars => [Contract!Next]_(Contract!contractVars)
  BY UninstallQuiet, StepContract
<1>2. QED
  BY <1>1, InitContract, SpecReaches, PTL DEF Spec, KeepsContract, Contract!Spec
=============================================================================
