-------------------------- MODULE GcPointersProofs --------------------------
(***************************************************************************)
(* Proofs about GcPointers, for any number of threads, objects, SafePtrs   *)
(* and allocations.                                                        *)
(***************************************************************************)
EXTENDS GcPointers, TLAPS

-----------------------------------------------------------------------------
(***************************************************************************)
(* Who has each allocation.  A SafePtr shares one that is written; a       *)
(* thread inside SafePtr::new or the drop has one to itself; there are no  *)
(* others.                                                                 *)
(***************************************************************************)
Shared ==
  \A h \in Handle : safe[h] # Null =>
    safe[h].root \in allocated /\ content[safe[h].root] \in Object

Busy ==
  \A t \in Thread : task[t] # Idle =>
    /\ task[t].root \in allocated
    /\ \A h \in Handle : safe[h] # Null => safe[h].root # task[t].root
    /\ \A u \in Thread : task[u].root = task[t].root => u = t

Owned ==
  \A r \in allocated :
    \/ \E h \in Handle : safe[h] # Null /\ safe[h].root = r
    \/ \E t \in Thread : task[t].root = r

RootInv == TypeOK /\ Shared /\ Busy /\ Owned

\* Every SafePtr stays, and stays with its Arc, whoever has it; a new one is
\* the clone of another.
Moved ==
  /\ \A h \in Handle : safe[h] # Null => safe'[h] # Null /\ safe'[h].root = safe[h].root
  /\ \A h \in Handle : safe'[h] # Null =>
       \E g \in Handle : safe[g] # Null /\ safe'[h].root = safe[g].root

LEMMA TaskShape ==
  ASSUME TypeOK, NEW t \in Thread
  PROVE  /\ task[t] = Idle <=> task[t].op = "idle"
         /\ task[t] = Idle <=> task[t].root = Null
         /\ task[t] # Idle => task[t].root \in Root
         /\ task[t].op = "write" => task[t].obj \in Object
<1>1. task[t] \in Tasks
  BY DEF TypeOK
<1>. QED
  BY <1>1, GcAssumption DEF Tasks, Idle

LEMMA SafeShape ==
  ASSUME TypeOK, NEW h \in Handle, safe[h] # Null
  PROVE  safe[h] \in SafePtr /\ safe[h].by \in Thread /\ safe[h].root \in Root
BY DEF TypeOK, SafePtr

-----------------------------------------------------------------------------
LEMMA InitRoots == Init => RootInv
<1>1. SUFFICES ASSUME Init PROVE RootInv
  OBVIOUS
<1>2. state \in [Thread -> ThreadState] /\ \A t \in Game : state[t] = "running"
  BY <1>1, GcAssumption DEF Init, Thread, ThreadState
<1>3. task \in [Thread -> Tasks]
  BY <1>1 DEF Init, Tasks
<1>4. safe \in [Handle -> SafePtr \cup {Null}] /\ content \in [Root -> Object \cup {Null}]
  BY <1>1 DEF Init
<1>5. object \in [Object -> {"unborn", "live", "collected"}]
  BY <1>1 DEF Init
<1>6. gcs \in [Thread -> SUBSET Object]
  BY <1>1 DEF Init
<1>7. TypeOK
  BY <1>1, <1>2, <1>3, <1>4, <1>5, <1>6 DEF Init, TypeOK, Thread
<1>8. Shared /\ Busy /\ Owned
  BY <1>1 DEF Init, Shared, Busy, Owned
<1>. QED
  BY <1>7, <1>8 DEF RootInv

\* What a thread does when it takes an allocation for a new SafePtr.
LEMMA AllocateKeeps ==
  ASSUME RootInv, NEW t \in Thread, NEW r \in Root, NEW o \in Object,
         task[t] = Idle, Allocate(t, r, o), UNCHANGED <<safe, content>>
  PROVE  /\ task' \in [Thread -> Tasks] /\ allocated' \in SUBSET Root
         /\ Shared' /\ Busy' /\ Owned'
<1>. DEFINE new == [op |-> "write", root |-> r, obj |-> o]
<1>1. TypeOK /\ Shared /\ Busy /\ Owned
  BY DEF RootInv
<1>2. new \in Tasks /\ new # Idle /\ new.root = r
  BY DEF Tasks, Idle
<1>3. task' = [task EXCEPT ![t] = new] /\ allocated' = allocated \cup {r} /\ r \notin allocated
  BY DEF Allocate
<1>4. task \in [Thread -> Tasks]
  BY <1>1 DEF TypeOK
<1>5. task' \in [Thread -> Tasks] /\ task'[t] = new /\ \A u \in Thread : u # t => task'[u] = task[u]
  BY <1>2, <1>3, <1>4
<1>6. allocated' \in SUBSET Root
  BY <1>1, <1>3 DEF TypeOK
<1>7. Shared'
  BY <1>1, <1>3 DEF Shared
<1>8. \A u \in Thread : task[u].root # r
  <2>1. SUFFICES ASSUME NEW u \in Thread, task[u].root = r PROVE FALSE
    OBVIOUS
  <2>2. task[u] # Idle
    BY <1>1, <2>1, TaskShape, GcAssumption DEF Idle
  <2>. QED
    BY <1>1, <1>3, <2>1, <2>2 DEF Busy
<1>9. Busy'
  <2>1. SUFFICES ASSUME NEW u \in Thread, task'[u] # Idle
                 PROVE  /\ task'[u].root \in allocated'
                        /\ \A h \in Handle : safe[h] # Null => safe[h].root # task'[u].root
                        /\ \A v \in Thread : task'[v].root = task'[u].root => v = u
    BY DEF Busy
  <2>2. CASE u = t
    BY <1>1, <1>2, <1>3, <1>5, <1>8, <2>2 DEF Shared
  <2>3. CASE u # t
    BY <1>1, <1>2, <1>3, <1>5, <1>8, <2>1, <2>3 DEF Busy
  <2>. QED
    BY <2>2, <2>3
<1>10. Owned'
  <2>1. SUFFICES ASSUME NEW q \in allocated'
                 PROVE  \/ \E h \in Handle : safe[h] # Null /\ safe[h].root = q
                        \/ \E u \in Thread : task'[u].root = q
    BY DEF Owned
  <2>2. CASE q = r
    BY <1>2, <1>5, <2>2
  <2>3. CASE q # r
    <3>1. q \in allocated
      BY <1>3, <2>1, <2>3
    <3>2. ASSUME NEW u \in Thread, task[u].root = q PROVE u # t
      BY <3>2, <1>1, <3>1, GcAssumption DEF Idle, TypeOK
    <3>. QED
      BY <1>1, <1>5, <3>1, <3>2 DEF Owned
  <2>. QED
    BY <2>2, <2>3
<1>. QED
  BY <1>5, <1>6, <1>7, <1>9, <1>10

\* SafePtrs change threads, or are cloned: every Arc keeps a handle.
LEMMA MoveKeeps ==
  ASSUME RootInv, Moved, UNCHANGED <<allocated, content, task>>
  PROVE  Shared' /\ Busy' /\ Owned'
<1>1. TypeOK /\ Shared /\ Busy /\ Owned
  BY DEF RootInv
<1>2. Shared'
  BY <1>1 DEF Shared, Moved
<1>3. Busy'
  BY <1>1 DEF Busy, Moved
<1>4. Owned'
  BY <1>1 DEF Owned, Moved
<1>. QED
  BY <1>2, <1>3, <1>4

\* The Arc steps: the write that makes a handle, a clone, a drop, a free.
LEMMA WriteKeeps ==
  ASSUME RootInv, NEW t \in Thread, NEW h \in Handle, Write(t, h)
  PROVE  RootInv'
<1>1. TypeOK /\ Shared /\ Busy /\ Owned
  BY DEF RootInv
<1>. DEFINE r == task[t].root
<1>2. task[t] # Idle /\ r \in Root /\ task[t].obj \in Object
  BY <1>1, TaskShape DEF Write, Idle
<1>3. /\ safe' = [safe EXCEPT ![h] = [by |-> t, root |-> r]]
      /\ content' = [content EXCEPT ![r] = task[t].obj]
      /\ task' = [task EXCEPT ![t] = Idle]
      /\ UNCHANGED <<rest, gcs, allocated>> /\ safe[h] = Null
  BY DEF Write
<1>4. [by |-> t, root |-> r] \in SafePtr
  BY <1>2 DEF SafePtr
<1>5. safe \in [Handle -> SafePtr \cup {Null}] /\ content \in [Root -> Object \cup {Null}]
      /\ task \in [Thread -> Tasks]
  BY <1>1 DEF TypeOK
<1>6. TypeOK'
  BY <1>1, <1>2, <1>3, <1>4 DEF TypeOK, rest, Tasks
<1>7. /\ safe'[h] # Null /\ safe'[h].root = r
      /\ \A g \in Handle : g # h => safe'[g] = safe[g]
  BY <1>3, <1>4, <1>5, GcAssumption
<1>8. content'[r] \in Object /\ \A q \in Root : q # r => content'[q] = content[q]
  BY <1>2, <1>3, <1>5
<1>9. task'[t] = Idle /\ \A u \in Thread : u # t => task'[u] = task[u]
  BY <1>3, <1>5
<1>10. Shared'
  <2>1. SUFFICES ASSUME NEW g \in Handle, safe'[g] # Null
                 PROVE  safe'[g].root \in allocated /\ content'[safe'[g].root] \in Object
    BY <1>3 DEF Shared
  <2>2. CASE g = h
    BY <1>1, <1>2, <1>7, <1>8, <2>2 DEF Busy
  <2>3. CASE g # h
    <3>1. safe[g] # Null /\ safe'[g] = safe[g]
      BY <1>7, <2>1, <2>3
    <3>2. safe[g].root \in Root /\ safe[g].root # r
      BY <1>1, <1>2, <3>1, SafeShape DEF Busy
    <3>. QED
      BY <1>1, <1>8, <3>1, <3>2 DEF Shared
  <2>. QED
    BY <2>2, <2>3
<1>11. Busy'
  <2>1. SUFFICES ASSUME NEW u \in Thread, task'[u] # Idle
                 PROVE  /\ task'[u].root \in allocated
                        /\ \A g \in Handle : safe'[g] # Null => safe'[g].root # task'[u].root
                        /\ \A v \in Thread : task'[v].root = task'[u].root => v = u
    BY <1>3 DEF Busy
  <2>2. u # t /\ task'[u] = task[u] /\ task[u] # Idle
    BY <1>9, <2>1
  <2>3. task[u].root # r /\ task[u].root \in Root
    BY <1>1, <1>2, <2>2, TaskShape DEF Busy
  <2>4. \A v \in Thread : task'[v].root = task[u].root => v = u
    BY <1>1, <1>9, <2>2, <2>3, GcAssumption DEF Busy, Idle
  <2>. QED
    BY <1>1, <1>7, <2>2, <2>3, <2>4 DEF Busy
<1>12. Owned'
  <2>1. SUFFICES ASSUME NEW q \in allocated
                 PROVE  \/ \E g \in Handle : safe'[g] # Null /\ safe'[g].root = q
                        \/ \E u \in Thread : task'[u].root = q
    BY <1>3 DEF Owned
  <2>2. CASE q = r
    BY <1>7, <2>2
  <2>3. CASE q # r
    BY <1>1, <1>3, <1>7, <1>9, <2>3 DEF Owned
  <2>. QED
    BY <2>2, <2>3
<1>. QED
  BY <1>6, <1>10, <1>11, <1>12 DEF RootInv

LEMMA DropKeeps ==
  ASSUME RootInv, NEW t \in Thread, NEW h \in Handle, Drop(t, h)
  PROVE  RootInv'
<1>1. TypeOK /\ Shared /\ Busy /\ Owned
  BY DEF RootInv
<1>. DEFINE r == safe[h].root
            last == Sharing(r) = {h}
            free == [op |-> "free", root |-> r, obj |-> Null]
<1>2. /\ safe[h] # Null /\ task[t] = Idle
      /\ safe' = [safe EXCEPT ![h] = Null]
      /\ task' = IF last THEN [task EXCEPT ![t] = free] ELSE task
      /\ UNCHANGED <<rest, gcs, allocated, content>>
  BY DEF Drop, Mine
<1>3. r \in Root /\ r \in allocated
  BY <1>1, <1>2, SafeShape DEF Shared
<1>4. free \in Tasks /\ free # Idle /\ free.root = r
  BY <1>3 DEF Tasks, Idle
<1>5. safe \in [Handle -> SafePtr \cup {Null}] /\ task \in [Thread -> Tasks]
  BY <1>1 DEF TypeOK
<1>6. safe'[h] = Null /\ \A g \in Handle : g # h => safe'[g] = safe[g]
  BY <1>2, <1>5
<1>7. task' \in [Thread -> Tasks] /\ \A u \in Thread : u # t => task'[u] = task[u]
  BY <1>2, <1>4, <1>5
<1>8. (last => task'[t] = free) /\ (~last => task'[t] = Idle)
  BY <1>2, <1>5
<1>9. safe' \in [Handle -> SafePtr \cup {Null}]
  BY <1>2, <1>5
<1>10. TypeOK'
  BY <1>1, <1>2, <1>7, <1>9 DEF TypeOK, rest
<1>11. Shared'
  BY <1>1, <1>2, <1>6 DEF Shared
<1>12. ASSUME NEW g \in Handle, safe'[g] # Null PROVE safe[g] # Null /\ safe'[g] = safe[g] /\ g # h
  BY <1>6, <1>12
<1>13. \A u \in Thread : task[u].root # r
  <2>1. SUFFICES ASSUME NEW u \in Thread, task[u].root = r PROVE FALSE
    OBVIOUS
  <2>2. task[u] # Idle
    BY <1>1, <1>3, <2>1, GcAssumption DEF Idle
  <2>. QED
    BY <1>1, <1>2, <2>1, <2>2 DEF Busy
<1>14. Busy'
  <2>1. SUFFICES ASSUME NEW u \in Thread, task'[u] # Idle
                 PROVE  /\ task'[u].root \in allocated
                        /\ \A g \in Handle : safe'[g] # Null => safe'[g].root # task'[u].root
                        /\ \A v \in Thread : task'[v].root = task'[u].root => v = u
    BY <1>2 DEF Busy
  <2>2. CASE u = t
    <3>1. last /\ task'[u].root = r
      BY <1>4, <1>8, <2>1, <2>2
    <3>2. \A g \in Handle : safe'[g] # Null => safe'[g].root # r
      BY <1>12, <3>1 DEF Sharing
    <3>. QED
      BY <1>3, <1>7, <1>13, <2>2, <3>1, <3>2
  <2>3. CASE u # t
    <3>1. task'[u] = task[u] /\ task[u] # Idle
      BY <1>7, <2>1, <2>3
    <3>2. task[u].root # Null
      BY <1>1, <3>1, TaskShape
    <3>3. task'[t].root # task[u].root
      BY <1>4, <1>8, <1>13, <3>2 DEF Idle
    <3>. QED
      BY <1>1, <1>7, <1>12, <2>3, <3>1, <3>3 DEF Busy
  <2>. QED
    BY <2>2, <2>3
<1>15. Owned'
  <2>1. SUFFICES ASSUME NEW q \in allocated
                 PROVE  \/ \E g \in Handle : safe'[g] # Null /\ safe'[g].root = q
                        \/ \E u \in Thread : task'[u].root = q
    BY <1>2 DEF Owned
  <2>2. CASE \E u \in Thread : task[u].root = q
    <3>1. PICK u \in Thread : task[u].root = q
      BY <2>2
    <3>2. u # t
      BY <1>1, <1>2, <2>1, <3>1, GcAssumption DEF Idle, TypeOK
    <3>. QED
      BY <1>7, <3>1, <3>2
  <2>3. CASE \E g \in Handle : safe[g] # Null /\ safe[g].root = q
    <3>1. CASE q = r /\ last
      BY <1>4, <1>8, <3>1
    <3>2. CASE q = r /\ ~last
      <4>1. PICK g \in Handle : g # h /\ safe[g] # Null /\ safe[g].root = r
        BY <1>2, <3>2 DEF Sharing
      <4>. QED
        BY <1>6, <3>2, <4>1
    <3>3. CASE q # r
      BY <1>6, <2>3, <3>3
    <3>. QED
      BY <3>1, <3>2, <3>3
  <2>. QED
    BY <1>1, <2>1, <2>2, <2>3 DEF Owned
<1>. QED
  BY <1>10, <1>11, <1>14, <1>15 DEF RootInv

LEMMA FreeKeeps ==
  ASSUME RootInv, NEW t \in Thread, Free(t)
  PROVE  RootInv'
<1>1. TypeOK /\ Shared /\ Busy /\ Owned
  BY DEF RootInv
<1>. DEFINE r == task[t].root
<1>2. /\ task[t] # Idle /\ allocated' = allocated \ {r}
      /\ content' = [content EXCEPT ![r] = Null]
      /\ task' = [task EXCEPT ![t] = Idle]
      /\ UNCHANGED <<rest, gcs, safe>>
  BY <1>1, TaskShape DEF Free, Idle
<1>3. TypeOK'
  BY <1>1, <1>2 DEF TypeOK, Tasks, rest
<1>4. task'[t] = Idle /\ \A u \in Thread : u # t => task'[u] = task[u]
  BY <1>1, <1>2 DEF TypeOK
<1>5. \A q \in Root : q # r => content'[q] = content[q]
  BY <1>1, <1>2 DEF TypeOK
<1>6. Shared'
  <2>1. SUFFICES ASSUME NEW h \in Handle, safe[h] # Null
                 PROVE  safe[h].root \in allocated' /\ content'[safe[h].root] \in Object
    BY <1>2 DEF Shared
  <2>2. safe[h].root \in Root /\ safe[h].root # r
    BY <1>1, <1>2, <2>1, SafeShape DEF Busy
  <2>. QED
    BY <1>1, <1>2, <1>5, <2>1, <2>2 DEF Shared
<1>7. Busy'
  <2>1. SUFFICES ASSUME NEW u \in Thread, task'[u] # Idle
                 PROVE  /\ task'[u].root \in allocated'
                        /\ \A h \in Handle : safe[h] # Null => safe[h].root # task'[u].root
                        /\ \A v \in Thread : task'[v].root = task'[u].root => v = u
    BY <1>2 DEF Busy
  <2>2. u # t /\ task'[u] = task[u] /\ task[u] # Idle
    BY <1>4, <2>1
  <2>3. task[u].root # r /\ task[u].root # Null
    BY <1>1, <1>2, <2>2, TaskShape DEF Busy
  <2>. QED
    BY <1>1, <1>2, <1>4, <2>2, <2>3 DEF Busy, Idle
<1>8. Owned'
  BY <1>1, <1>2, <1>4 DEF Owned
<1>. QED
  BY <1>3, <1>6, <1>7, <1>8 DEF RootInv

\* Handing a set of SafePtrs to another thread, as Spawn and Join do.
LEMMA HandOver ==
  ASSUME RootInv, NEW w \in Thread, NEW hs \in SUBSET Handle,
         \A h \in hs : safe[h] # Null,
         safe' = [h \in Handle |-> IF h \in hs THEN [safe[h] EXCEPT !.by = w] ELSE safe[h]]
  PROVE  Moved /\ safe' \in [Handle -> SafePtr \cup {Null}]
<1>1. TypeOK
  BY DEF RootInv
<1>2. \A h \in hs : safe[h] \in SafePtr
  BY <1>1, SafeShape
<1>3. \A h \in hs : safe'[h] \in SafePtr /\ safe'[h].root = safe[h].root
  BY <1>2 DEF SafePtr
<1>4. \A h \in Handle \ hs : safe'[h] = safe[h]
  OBVIOUS
<1>5. safe' \in [Handle -> SafePtr \cup {Null}]
  BY <1>1, <1>3, <1>4 DEF TypeOK
<1>6. \A h \in Handle : safe'[h] # Null => safe[h] # Null
  BY <1>4
<1>7. \A h \in Handle : safe[h] # Null => safe'[h] # Null /\ safe'[h].root = safe[h].root
  BY <1>3, <1>4, GcAssumption
<1>. QED
  BY <1>5, <1>6, <1>7 DEF Moved

LEMMA StepRoots == RootInv /\ [Next]_vars => RootInv'
<1>1. SUFFICES ASSUME RootInv, [Next]_vars PROVE RootInv'
  OBVIOUS
<1>2. TypeOK /\ Shared /\ Busy /\ Owned
  BY <1>1 DEF RootInv
<1>3. ASSUME TypeOK', UNCHANGED <<safe, allocated, content, task>> PROVE RootInv'
  BY <1>2, <1>3 DEF RootInv, Shared, Busy, Owned
<1>4. CASE UNCHANGED vars
  BY <1>2, <1>3, <1>4 DEF vars, TypeOK
<1>5. ASSUME NEW o \in Object, Collect(o) PROVE RootInv'
  <2>1. TypeOK'
    BY <1>2, <1>5 DEF Collect, TypeOK
  <2>. QED
    BY <1>3, <1>5, <2>1 DEF Collect
<1>6. ASSUME NEW t \in Thread, xref_init(t) PROVE RootInv'
  <2>1. TypeOK'
    BY <1>2, <1>6 DEF xref_init, TypeOK
  <2>. QED
    BY <1>3, <1>6, <2>1 DEF xref_init
<1>7. ASSUME NEW t \in Thread, NewPanics(t) PROVE RootInv'
  <2>1. TypeOK'
    <3>1. (state' = [state EXCEPT ![t] = "unwinding"] /\ t \notin Game) \/ state' = state
      BY <1>7, GcAssumption DEF NewPanics, Spawned
    <3>2. state' \in [Thread -> ThreadState] /\ \A u \in Game : state'[u] = "running"
      BY <1>2, <3>1, GcAssumption DEF TypeOK, ThreadState, Thread
    <3>3. aborted' \in BOOLEAN
      BY <1>2, <1>7 DEF NewPanics, TypeOK
    <3>4. UNCHANGED <<ready, attached, gcs, safe, allocated, content, task, object>>
      BY <1>7 DEF NewPanics
    <3>. QED
      BY <1>2, <3>2, <3>3, <3>4 DEF TypeOK
  <2>. QED
    BY <1>3, <1>7, <2>1 DEF NewPanics
<1>8. ASSUME NEW t \in Thread, AllocFails(t) PROVE RootInv'
  <2>1. TypeOK'
    BY <1>2, <1>8 DEF AllocFails, TypeOK
  <2>. QED
    BY <1>3, <1>8, <2>1 DEF AllocFails
<1>9. ASSUME NEW t \in Thread, Free(t) PROVE RootInv'
  BY <1>1, <1>9, FreeKeeps
<1>10. ASSUME NEW t \in Thread, NEW o \in Object, NewObject(t, o) \/ ForgetGc(t, o) PROVE RootInv'
  <2>1. TypeOK'
    BY <1>2, <1>10 DEF NewObject, ForgetGc, TypeOK, rest
  <2>. QED
    BY <1>3, <1>10, <2>1 DEF NewObject, ForgetGc
<1>11. ASSUME NEW t \in Thread, NEW r \in Root, New(t, r) PROVE RootInv'
  <2>1. PICK o \in gcs[t] : Allocate(t, r, o)
    BY <1>11 DEF New
  <2>2. o \in Object /\ task[t] = Idle /\ UNCHANGED <<rest, gcs, safe, content>>
    BY <1>2, <1>11 DEF New, CanRun, TypeOK
  <2>3. task' \in [Thread -> Tasks] /\ allocated' \in SUBSET Root /\ Shared' /\ Busy' /\ Owned'
    BY <1>1, <2>1, <2>2, AllocateKeeps
  <2>. QED
    BY <1>2, <2>2, <2>3 DEF RootInv, TypeOK, rest
<1>12. ASSUME NEW t \in Thread, NEW h \in Handle, NEW r \in Root, Cast(t, h, r) PROVE RootInv'
  <2>1. ObjectOf(h) \in Object
    BY <1>2, <1>12 DEF Cast, Mine, Shared, ObjectOf
  <2>2. task[t] = Idle /\ Allocate(t, r, ObjectOf(h)) /\ UNCHANGED <<rest, gcs, safe, content>>
    BY <1>12 DEF Cast, CanRun
  <2>3. task' \in [Thread -> Tasks] /\ allocated' \in SUBSET Root /\ Shared' /\ Busy' /\ Owned'
    BY <1>1, <2>1, <2>2, AllocateKeeps
  <2>. QED
    BY <1>2, <2>2, <2>3 DEF RootInv, TypeOK, rest
<1>13. ASSUME NEW t \in Thread, NEW h \in Handle, Write(t, h) PROVE RootInv'
  BY <1>1, <1>13, WriteKeeps
<1>14. ASSUME NEW t \in Thread, NEW h \in Handle, as_weak(t, h) PROVE RootInv'
  <2>1. ObjectOf(h) \in Object
    BY <1>2, <1>14 DEF as_weak, Mine, Shared, ObjectOf
  <2>2. TypeOK'
    BY <1>2, <1>14, <2>1 DEF as_weak, TypeOK, rest
  <2>. QED
    BY <1>3, <1>14, <2>2 DEF as_weak
<1>15. ASSUME NEW t \in Thread, NEW h \in Handle, Drop(t, h) PROVE RootInv'
  BY <1>1, <1>15, DropKeeps
<1>16. ASSUME NEW t \in Thread, NEW h \in Handle, NEW g \in Handle, Clone(t, h, g) PROVE RootInv'
  <2>1. /\ safe[h] # Null /\ safe[h] \in SafePtr
        /\ safe' = [safe EXCEPT ![g] = safe[h]]
        /\ safe[g] = Null
        /\ UNCHANGED <<rest, gcs, allocated, content, task>>
    BY <1>2, <1>16, SafeShape DEF Clone, Mine
  <2>2. safe'[g] = safe[h] /\ \A k \in Handle : k # g => safe'[k] = safe[k]
    BY <1>2, <2>1 DEF TypeOK
  <2>3. Moved
    BY <2>1, <2>2 DEF Moved
  <2>4. TypeOK'
    BY <1>2, <2>1 DEF TypeOK, rest
  <2>. QED
    BY <1>1, <2>1, <2>3, <2>4, MoveKeeps DEF RootInv
<1>17. ASSUME NEW t \in Thread, NEW u \in Thread, NEW h \in Handle, Send(t, u, h) PROVE RootInv'
  <2>1. /\ safe[h] # Null /\ safe[h] \in SafePtr
        /\ safe' = [safe EXCEPT ![h] = [safe[h] EXCEPT !.by = u]]
        /\ UNCHANGED <<rest, gcs, allocated, content, task>>
    BY <1>2, <1>17, SafeShape DEF Send, Mine
  <2>2. safe' = [k \in Handle |-> IF k \in {h} THEN [safe[k] EXCEPT !.by = u] ELSE safe[k]]
    BY <1>2, <2>1 DEF TypeOK
  <2>3. Moved /\ safe' \in [Handle -> SafePtr \cup {Null}]
    <3>1. {h} \in SUBSET Handle /\ \A k \in {h} : safe[k] # Null
      BY <2>1
    <3>. QED
      BY <1>1, <2>2, <3>1, HandOver
  <2>4. TypeOK'
    BY <1>2, <2>1, <2>3 DEF TypeOK, rest
  <2>. QED
    BY <1>1, <2>1, <2>3, <2>4, MoveKeeps DEF RootInv
<1>18. ASSUME NEW t \in Thread, NEW w \in Worker, NEW hs \in SUBSET Handle,
              NEW os \in SUBSET Object, Spawn(t, w, hs, os)
       PROVE  RootInv'
  <2>1. w \in Thread /\ \A h \in hs : safe[h] # Null
    BY <1>18 DEF Spawn, Mine, Thread
  <2>2. Moved /\ safe' \in [Handle -> SafePtr \cup {Null}]
    BY <1>1, <1>18, <2>1, HandOver DEF Spawn
  <2>3. TypeOK'
    BY <1>2, <1>18, <2>1, <2>2, GcAssumption DEF Spawn, TypeOK, ThreadState
  <2>. QED
    BY <1>1, <1>18, <2>2, <2>3, MoveKeeps DEF RootInv, Spawn
<1>19. ASSUME NEW t \in Thread, NEW w \in Worker, Join(t, w) PROVE RootInv'
  <2>1. Mine(w) \in SUBSET Handle /\ \A h \in Mine(w) : safe[h] # Null
    BY DEF Mine
  <2>2. Moved /\ safe' \in [Handle -> SafePtr \cup {Null}]
    BY <1>1, <1>19, <2>1, HandOver DEF Join
  <2>3. TypeOK'
    BY <1>2, <1>19, <2>2, GcAssumption DEF Join, TypeOK, ThreadState, Thread
  <2>. QED
    BY <1>1, <1>19, <2>2, <2>3, MoveKeeps DEF RootInv, Join
<1>20. ASSUME NEW w \in Worker, Attach(w) \/ AttachFails(w) \/ Abandon(w) PROVE RootInv'
  <2>1. TypeOK'
    BY <1>2, <1>20, GcAssumption DEF Attach, AttachFails, Abandon, TypeOK, ThreadState, Thread
  <2>. QED
    BY <1>3, <1>20, <2>1 DEF Attach, AttachFails, Abandon
<1>21. ASSUME NEW w \in Worker, NEW os \in SUBSET Object, ReturnFrom(w, os) PROVE RootInv'
  <2>1. TypeOK'
    BY <1>2, <1>21, GcAssumption DEF ReturnFrom, TypeOK, ThreadState, Thread
  <2>. QED
    BY <1>3, <1>21, <2>1 DEF ReturnFrom
<1>22. ASSUME NEW t \in Thread, Unwound(t) \/ Detach(t) PROVE RootInv'
  <2>1. t \notin Game
    BY <1>2, <1>22 DEF TypeOK, Unwound, Detach
  <2>2. \E s \in ThreadState : state' = [state EXCEPT ![t] = s]
    BY <1>22 DEF Unwound, Detach, ThreadState
  <2>3. state' \in [Thread -> ThreadState] /\ \A g \in Game : state'[g] = "running"
    BY <1>2, <2>1, <2>2 DEF TypeOK, Thread
  <2>4. attached' \in SUBSET Thread /\ gcs' \in [Thread -> SUBSET Object]
    BY <1>2, <1>22 DEF Unwound, Detach, TypeOK
  <2>5. TypeOK'
    BY <1>2, <1>22, <2>3, <2>4 DEF Unwound, Detach, TypeOK
  <2>. QED
    BY <1>3, <1>22, <2>5 DEF Unwound, Detach
<1>23. ASSUME NEW p \in Plain, attached_invoke(p) PROVE RootInv'
  <2>1. TypeOK'
    BY <1>2, <1>23, GcAssumption DEF attached_invoke, TypeOK, ThreadState, Thread
  <2>. QED
    BY <1>3, <1>23, <2>1 DEF attached_invoke
<1>24. ASSUME NEW p \in Plain, NEW os \in SUBSET Object, InvokeReturns(p, os) PROVE RootInv'
  <2>1. TypeOK'
    BY <1>2, <1>24 DEF InvokeReturns, TypeOK, Thread
  <2>. QED
    BY <1>3, <1>24, <2>1 DEF InvokeReturns
<1>. QED
  BY <1>1, <1>4, <1>5, <1>6, <1>7, <1>8, <1>9, <1>10, <1>11, <1>12, <1>13, <1>14, <1>15,
     <1>16, <1>17, <1>18, <1>19, <1>20, <1>21, <1>22, <1>23, <1>24 DEF Next

(***************************************************************************)
(* Every variable has its type in every reachable state: a SafePtr in the  *)
(* making, and every one there is, points at an object, never at null.     *)
(***************************************************************************)
THEOREM GcTypeCorrect == Spec => []TypeOK
<1>1. RootInv => TypeOK
  BY DEF RootInv
<1>. QED
  BY <1>1, InitRoots, StepRoots, PTL DEF Spec

(***************************************************************************)
(* No allocation is leaked and none is freed twice: each has SafePtrs that *)
(* share it, or one thread that is filling or freeing it (Arc's last drop, *)
(* gc_alloc.rs:75-76), with any number of threads and panics.              *)
(***************************************************************************)
THEOREM NoRootLeaks == Spec => []RootHasOwner
<1>1. RootInv => RootHasOwner
  <2>1. SUFFICES ASSUME RootInv, NEW r \in allocated
                 PROVE  LET busy == {t \in Thread : task[t].root = r} IN
                        IF Sharing(r) = {} THEN \E t \in Thread : busy = {t} ELSE busy = {}
    BY DEF RootHasOwner
  <2>2. r \in Root /\ r # Null /\ Busy /\ Owned
    BY <2>1, GcAssumption DEF RootInv, TypeOK
  <2>3. \A t \in Thread : task[t].root = r => task[t] # Idle
    BY <2>2 DEF Idle
  <2>4. CASE Sharing(r) = {}
    <3>1. PICK t \in Thread : task[t].root = r
      BY <2>2, <2>4 DEF Owned, Sharing
    <3>2. {u \in Thread : task[u].root = r} = {t}
      BY <2>2, <2>3, <3>1 DEF Busy
    <3>. QED
      BY <2>4, <3>2
  <2>5. CASE Sharing(r) # {}
    BY <2>2, <2>3, <2>5 DEF Busy, Sharing
  <2>. QED
    BY <2>4, <2>5
<1>. QED
  BY <1>1, InitRoots, StepRoots, PTL DEF Spec

-----------------------------------------------------------------------------
(***************************************************************************)
(* What is alive, in a program that lets no Gc leave its stack.  What an   *)
(* allocation points at is alive because the collector reaches it; what a  *)
(* thread is about to root is on an attached stack, or has a SafePtr of    *)
(* the same thread, which cannot drop it meanwhile.                        *)
(***************************************************************************)
Written ==
  /\ \A r \in Root \ allocated : content[r] = Null
  /\ \A r \in Root : content[r] \in Object => object[content[r]] = "live"

Rooting ==
  \A t \in Thread : task[t].op = "write" =>
    /\ state[t] = "running"
    /\ object[task[t].obj] = "live"
    /\ \/ task[t].obj \in gcs[t]
       \/ \E h \in Handle : /\ safe[h] # Null /\ safe[h].by = t
                            /\ content[safe[h].root] = task[t].obj

Stacks ==
  \A t \in Thread : \A o \in gcs[t] : t \in attached /\ object[o] = "live"

Lives ==
  /\ Game \subseteq attached
  /\ \A w \in Worker :
       /\ state[w] = "running" => w \in attached
       /\ w \in attached => state[w] \in {"running", "unwinding", "leaving"}
       /\ state[w] \in {"idle", "spawned"} => gcs[w] = {}
  /\ \A t \in Spawned : state[t] = "leaving" => gcs[t] = {}

LiveInv == Written /\ Rooting /\ Stacks /\ Lives

LEMMA InitLive == Init => LiveInv
<1>1. SUFFICES ASSUME Init PROVE LiveInv
  OBVIOUS
<1>2. Written
  BY <1>1, GcAssumption DEF Init, Written
<1>3. Rooting
  BY <1>1 DEF Init, Rooting, Idle
<1>4. Stacks
  BY <1>1 DEF Init, Stacks
<1>5. Lives
  BY <1>1, GcAssumption DEF Init, Lives, Thread, Spawned
<1>. QED
  BY <1>2, <1>3, <1>4, <1>5 DEF LiveInv

\* No object in the collector's reach is collected.
LEMMA CollectSpares ==
  ASSUME RootInv, LiveInv, NEW o \in Object, Collect(o)
  PROVE  LiveInv'
<1>1. TypeOK /\ Written /\ Rooting /\ Stacks /\ Lives /\ Shared
  BY DEF RootInv, LiveInv
<1>2. /\ object' = [object EXCEPT ![o] = "collected"]
      /\ o \notin Reached
      /\ UNCHANGED <<ready, state, attached, gcs, safe, allocated, content, task, aborted>>
  BY DEF Collect
<1>3. \A p \in Object : p # o /\ object[p] = "live" => object'[p] = "live"
  BY <1>1, <1>2 DEF TypeOK
<1>. DEFINE scanned == {gcs[t] \cup {task[t].obj} : t \in attached}
<1>4. \A r \in allocated : content[r] # o
  <2>1. o \notin UNION scanned /\ o \notin {content[r] : r \in allocated}
    BY <1>2 DEF Reached
  <2>2. \A r \in allocated : content[r] \in {content[q] : q \in allocated}
    OBVIOUS
  <2>. QED
    BY <2>1, <2>2
<1>5. \A t \in attached : o \notin gcs[t] /\ task[t].obj # o
  <2>1. o \notin UNION scanned
    BY <1>2 DEF Reached
  <2>2. SUFFICES ASSUME NEW t \in attached PROVE o \notin gcs[t] \cup {task[t].obj}
    OBVIOUS
  <2>3. gcs[t] \cup {task[t].obj} \in scanned
    BY <2>2
  <2>. QED
    BY <2>1, <2>3
<1>6. Written'
  BY <1>1, <1>2, <1>3, <1>4, GcAssumption DEF Written
<1>7. Rooting'
  <2>1. SUFFICES ASSUME NEW t \in Thread, task[t].op = "write"
                 PROVE  object'[task[t].obj] = "live"
    BY <1>1, <1>2 DEF Rooting
  <2>2. task[t].obj \in Object
    BY <1>1, <2>1, TaskShape
  <2>3. task[t].obj # o
    <3>1. CASE task[t].obj \in gcs[t]
      BY <1>1, <1>5, <3>1 DEF Stacks
    <3>2. CASE \E h \in Handle : /\ safe[h] # Null /\ safe[h].by = t
                                 /\ content[safe[h].root] = task[t].obj
      BY <1>1, <1>4, <3>2 DEF Shared
    <3>. QED
      BY <1>1, <2>1, <3>1, <3>2 DEF Rooting
  <2>. QED
    BY <1>1, <1>3, <2>1, <2>2, <2>3 DEF Rooting
<1>8. Stacks'
  BY <1>1, <1>2, <1>3, <1>5 DEF Stacks, TypeOK
<1>9. Lives'
  BY <1>1, <1>2 DEF Lives
<1>. QED
  BY <1>6, <1>7, <1>8, <1>9 DEF LiveInv

\* A thread takes an allocation for an object that is alive.
LEMMA AllocateLive ==
  ASSUME RootInv, LiveInv, NEW t \in Thread, NEW r \in Root, NEW o \in Object,
         CanRun(t), Allocate(t, r, o), UNCHANGED <<rest, gcs, safe, content>>,
         object[o] = "live",
         \/ o \in gcs[t]
         \/ \E h \in Handle : /\ safe[h] # Null /\ safe[h].by = t
                              /\ content[safe[h].root] = o
  PROVE  LiveInv'
<1>. DEFINE new == [op |-> "write", root |-> r, obj |-> o]
<1>1. TypeOK /\ Written /\ Rooting /\ Stacks /\ Lives
  BY DEF RootInv, LiveInv
<1>2. task' = [task EXCEPT ![t] = new] /\ allocated' = allocated \cup {r}
  BY DEF Allocate
<1>3. task'[t] = new /\ \A u \in Thread : u # t => task'[u] = task[u]
  BY <1>1, <1>2 DEF TypeOK
<1>4. Rooting'
  <2>1. SUFFICES ASSUME NEW u \in Thread, task'[u].op = "write"
                 PROVE  /\ state[u] = "running"
                        /\ object[task'[u].obj] = "live"
                        /\ \/ task'[u].obj \in gcs[u]
                           \/ \E h \in Handle : /\ safe[h] # Null /\ safe[h].by = u
                                                /\ content[safe[h].root] = task'[u].obj
    BY DEF Rooting, rest
  <2>2. CASE u = t
    BY <1>3, <2>2 DEF CanRun
  <2>3. CASE u # t
    BY <1>1, <1>3, <2>1, <2>3 DEF Rooting
  <2>. QED
    BY <2>2, <2>3
<1>5. Written' /\ Stacks' /\ Lives'
  BY <1>1, <1>2 DEF Written, Stacks, Lives, rest
<1>. QED
  BY <1>4, <1>5 DEF LiveInv

\* SafePtrs move or are cloned; no SafePtr of a thread that is making one.
LEMMA MoveLive ==
  ASSUME LiveInv, UNCHANGED <<rest, gcs, allocated, content, task>>,
         NEW ts \in SUBSET Thread, \A t \in ts : task[t] = Idle,
         \A h \in Handle : safe[h] # Null => safe'[h] = safe[h] \/ safe[h].by \in ts
  PROVE  LiveInv'
<1>1. Written /\ Rooting /\ Stacks /\ Lives
  BY DEF LiveInv
<1>2. Rooting'
  <2>1. SUFFICES ASSUME NEW t \in Thread, task[t].op = "write"
                 PROVE  /\ state[t] = "running"
                        /\ object[task[t].obj] = "live"
                        /\ \/ task[t].obj \in gcs[t]
                           \/ \E h \in Handle : /\ safe'[h] # Null /\ safe'[h].by = t
                                                /\ content[safe'[h].root] = task[t].obj
    BY DEF Rooting, rest
  <2>2. t \notin ts
    BY <2>1 DEF Idle
  <2>. QED
    BY <1>1, <2>1, <2>2 DEF Rooting
<1>3. Written' /\ Stacks' /\ Lives'
  BY <1>1 DEF Written, Stacks, Lives, rest
<1>. QED
  BY <1>2, <1>3 DEF LiveInv

LEMMA StepLive ==
  ASSUME GcLeaves = {}, RootInv, LiveInv, [Next]_vars
  PROVE  LiveInv'
<1>1. TypeOK /\ Shared /\ Busy /\ Written /\ Rooting /\ Stacks /\ Lives
  BY DEF RootInv, LiveInv
<1>. DEFINE life == <<state, attached, gcs>>
            memory == <<safe, allocated, content, task, object>>
<1>2. ASSUME NEW h \in Handle, safe[h] # Null PROVE object[ObjectOf(h)] = "live"
  BY <1>1, <1>2, SafeShape DEF Shared, Written, ObjectOf
<1>3. CASE UNCHANGED vars
  BY <1>1, <1>3 DEF LiveInv, Written, Rooting, Stacks, Lives, vars
<1>4. ASSUME NEW o \in Object, Collect(o) PROVE LiveInv'
  BY <1>4, CollectSpares
<1>5. ASSUME NEW t \in Thread, xref_init(t) \/ AllocFails(t) PROVE LiveInv'
  BY <1>1, <1>5 DEF xref_init, AllocFails, LiveInv, Written, Rooting, Stacks, Lives
<1>6. ASSUME NEW t \in Thread, NewPanics(t) PROVE LiveInv'
  <2>1. /\ state' = [state EXCEPT ![t] = "unwinding"] \/ state' = state
        /\ task[t] = Idle /\ state[t] = "running"
        /\ UNCHANGED <<attached, gcs, memory>>
    BY <1>6 DEF NewPanics, CanRun
  <2>2. \A u \in Thread : state'[u] = state[u] \/ (u = t /\ state'[u] = "unwinding")
    BY <1>1, <2>1 DEF TypeOK
  <2>3. Rooting'
    BY <1>1, <2>1, <2>2 DEF Rooting, Idle
  <2>4. Written' /\ Stacks'
    BY <1>1, <2>1 DEF Written, Stacks
  <2>5. Lives'
    BY <1>1, <2>1, <2>2 DEF Lives, Thread, Spawned
  <2>. QED
    BY <2>3, <2>4, <2>5 DEF LiveInv
<1>7. ASSUME NEW t \in Thread, Free(t) PROVE LiveInv'
  <2>. DEFINE r == task[t].root
  <2>1. /\ task[t].op = "free" /\ task[t] # Idle
        /\ allocated' = allocated \ {r} /\ content' = [content EXCEPT ![r] = Null]
        /\ task' = [task EXCEPT ![t] = Idle]
        /\ UNCHANGED <<life, safe, object>>
    BY <1>7 DEF Free, rest, Idle
  <2>2. r \in Root /\ \A h \in Handle : safe[h] # Null => safe[h].root # r
    BY <1>1, <2>1, TaskShape DEF Busy
  <2>3. content'[r] = Null /\ \A q \in Root : q # r => content'[q] = content[q]
    BY <1>1, <2>1, <2>2 DEF TypeOK
  <2>4. task'[t] = Idle /\ \A u \in Thread : u # t => task'[u] = task[u]
    BY <1>1, <2>1 DEF TypeOK
  <2>5. Written'
    BY <1>1, <2>1, <2>3, GcAssumption DEF Written
  <2>6. Rooting'
    <3>1. SUFFICES ASSUME NEW u \in Thread, task'[u].op = "write"
                   PROVE  /\ state[u] = "running"
                          /\ object[task'[u].obj] = "live"
                          /\ \/ task'[u].obj \in gcs[u]
                             \/ \E h \in Handle : /\ safe[h] # Null /\ safe[h].by = u
                                                  /\ content'[safe[h].root] = task'[u].obj
      BY <2>1 DEF Rooting
    <3>2. u # t /\ task'[u] = task[u] /\ task[u].op = "write"
      BY <2>4, <3>1 DEF Idle
    <3>3. ASSUME NEW h \in Handle, safe[h] # Null
          PROVE  content'[safe[h].root] = content[safe[h].root]
      BY <1>1, <2>2, <2>3, <3>3, SafeShape
    <3>. QED
      BY <1>1, <3>2, <3>3 DEF Rooting
  <2>7. Stacks' /\ Lives'
    BY <1>1, <2>1 DEF Stacks, Lives
  <2>. QED
    BY <2>5, <2>6, <2>7 DEF LiveInv
<1>8. ASSUME NEW t \in Thread, NEW o \in Object, NewObject(t, o) PROVE LiveInv'
  <2>1. /\ t \in Managed /\ state[t] = "running"
        /\ object' = [object EXCEPT ![o] = "live"]
        /\ gcs' = [gcs EXCEPT ![t] = @ \cup {o}]
        /\ UNCHANGED <<state, attached, safe, allocated, content, task>>
    BY <1>8 DEF NewObject, CanRun
  <2>8. t \in attached
    BY <1>1, <2>1 DEF Lives, Managed
  <2>2. \A p \in Object : object[p] = "live" => object'[p] = "live"
    BY <1>1, <2>1 DEF TypeOK
  <2>3. object'[o] = "live" /\ gcs'[t] = gcs[t] \cup {o} /\ \A u \in Thread : u # t => gcs'[u] = gcs[u]
    BY <1>1, <2>1 DEF TypeOK
  <2>4. Written'
    BY <1>1, <2>1, <2>2 DEF Written
  <2>5. Rooting'
    BY <1>1, <2>1, <2>2, <2>3, TaskShape DEF Rooting
  <2>6. Stacks'
    BY <1>1, <2>1, <2>2, <2>3, <2>8 DEF Stacks, TypeOK
  <2>7. Lives'
    BY <1>1, <2>1, <2>3 DEF Lives, Thread, Spawned
  <2>. QED
    BY <2>4, <2>5, <2>6, <2>7 DEF LiveInv
<1>9. ASSUME NEW t \in Thread, NEW o \in Object, ForgetGc(t, o) PROVE LiveInv'
  <2>1. gcs' = [gcs EXCEPT ![t] = @ \ {o}] /\ task[t] = Idle /\ UNCHANGED <<state, attached, memory>>
    BY <1>9 DEF ForgetGc, CanRun, rest
  <2>2. \A u \in Thread : gcs'[u] \subseteq gcs[u] /\ (u # t => gcs'[u] = gcs[u])
    BY <1>1, <2>1 DEF TypeOK
  <2>3. Written' /\ Rooting' /\ Stacks'
    BY <1>1, <2>1, <2>2 DEF Written, Rooting, Stacks, Idle
  <2>4. Lives'
    BY <1>1, <2>1, <2>2 DEF Lives, Thread, Spawned
  <2>. QED
    BY <2>3, <2>4 DEF LiveInv
<1>10. ASSUME NEW t \in Thread, NEW r \in Root, New(t, r) PROVE LiveInv'
  <2>1. PICK o \in gcs[t] : Allocate(t, r, o)
    BY <1>10 DEF New
  <2>2. o \in Object /\ t \in attached /\ object[o] = "live"
    BY <1>1, <2>1 DEF Stacks, TypeOK
  <2>3. CanRun(t) /\ UNCHANGED <<rest, gcs, safe, content>>
    BY <1>10 DEF New
  <2>. QED
    BY <2>1, <2>2, <2>3, AllocateLive
<1>11. ASSUME NEW t \in Thread, NEW h \in Handle, NEW r \in Root, Cast(t, h, r) PROVE LiveInv'
  <2>1. /\ safe[h] # Null /\ safe[h].by = t /\ content[safe[h].root] = ObjectOf(h)
        /\ CanRun(t) /\ Allocate(t, r, ObjectOf(h)) /\ UNCHANGED <<rest, gcs, safe, content>>
    BY <1>11 DEF Cast, Mine, ObjectOf
  <2>2. ObjectOf(h) \in Object /\ object[ObjectOf(h)] = "live"
    BY <1>1, <1>2, <2>1 DEF Shared
  <2>. QED
    BY <2>1, <2>2, AllocateLive
<1>12. ASSUME NEW t \in Thread, NEW h \in Handle, Write(t, h) PROVE LiveInv'
  <2>. DEFINE r == task[t].root
  <2>1. /\ task[t].op = "write" /\ task[t] # Idle /\ safe[h] = Null
        /\ content' = [content EXCEPT ![r] = task[t].obj]
        /\ safe' = [safe EXCEPT ![h] = [by |-> t, root |-> r]]
        /\ task' = [task EXCEPT ![t] = Idle]
        /\ UNCHANGED <<life, allocated, object>>
    BY <1>12 DEF Write, rest, Idle
  <2>2. /\ r \in Root /\ r \in allocated /\ object[task[t].obj] = "live"
        /\ \A g \in Handle : safe[g] # Null => safe[g].root # r
    BY <1>1, <2>1, TaskShape DEF Busy, Rooting
  <2>3. content'[r] = task[t].obj /\ \A q \in Root : q # r => content'[q] = content[q]
    BY <1>1, <2>1, <2>2 DEF TypeOK
  <2>4. task'[t] = Idle /\ \A u \in Thread : u # t => task'[u] = task[u]
    BY <1>1, <2>1 DEF TypeOK
  <2>5. \A g \in Handle : safe[g] # Null => safe'[g] = safe[g]
    BY <1>1, <2>1 DEF TypeOK
  <2>6. Written'
    BY <1>1, <2>1, <2>2, <2>3 DEF Written
  <2>7. Rooting'
    <3>1. SUFFICES ASSUME NEW u \in Thread, task'[u].op = "write"
                   PROVE  /\ state[u] = "running"
                          /\ object[task'[u].obj] = "live"
                          /\ \/ task'[u].obj \in gcs[u]
                             \/ \E g \in Handle : /\ safe'[g] # Null /\ safe'[g].by = u
                                                  /\ content'[safe'[g].root] = task'[u].obj
      BY <2>1 DEF Rooting
    <3>2. u # t /\ task'[u] = task[u] /\ task[u].op = "write"
      BY <2>4, <3>1 DEF Idle
    <3>3. ASSUME NEW g \in Handle, safe[g] # Null
          PROVE  safe'[g] = safe[g] /\ content'[safe[g].root] = content[safe[g].root]
      BY <1>1, <2>2, <2>3, <2>5, <3>3, SafeShape
    <3>. QED
      BY <1>1, <3>2, <3>3 DEF Rooting
  <2>8. Stacks' /\ Lives'
    BY <1>1, <2>1 DEF Stacks, Lives
  <2>. QED
    BY <2>6, <2>7, <2>8 DEF LiveInv
<1>13. ASSUME NEW t \in Thread, NEW h \in Handle, as_weak(t, h) PROVE LiveInv'
  <2>1. /\ t \in Managed /\ state[t] = "running" /\ safe[h] # Null
        /\ gcs' = [gcs EXCEPT ![t] = @ \cup {ObjectOf(h)}]
        /\ UNCHANGED <<state, attached, memory>>
    BY <1>13 DEF as_weak, CanRun, Mine, rest
  <2>2. object[ObjectOf(h)] = "live" /\ t \in attached
    BY <1>1, <1>2, <2>1 DEF Lives, Managed
  <2>3. gcs'[t] = gcs[t] \cup {ObjectOf(h)} /\ \A u \in Thread : u # t => gcs'[u] = gcs[u]
    BY <1>1, <2>1 DEF TypeOK
  <2>4. Written' /\ Rooting'
    BY <1>1, <2>1, <2>3 DEF Written, Rooting
  <2>5. Stacks'
    BY <1>1, <2>1, <2>2, <2>3 DEF Stacks
  <2>6. Lives'
    BY <1>1, <2>1, <2>3 DEF Lives, Thread, Spawned
  <2>. QED
    BY <2>4, <2>5, <2>6 DEF LiveInv
<1>14. ASSUME NEW t \in Thread, NEW h \in Handle, Drop(t, h) PROVE LiveInv'
  <2>1. /\ safe[h] # Null /\ safe[h].by = t /\ task[t] = Idle
        /\ safe' = [safe EXCEPT ![h] = Null]
        /\ UNCHANGED <<life, allocated, content, object>>
        /\ \/ task' = task
           \/ task' = [task EXCEPT ![t] = [op |-> "free", root |-> safe[h].root, obj |-> Null]]
    BY <1>14 DEF Drop, Mine, rest
  <2>2. \A u \in Thread : task'[u] = task[u] \/ (u = t /\ task'[u].op = "free")
    BY <1>1, <2>1 DEF TypeOK
  <2>3. \A g \in Handle : g # h => safe'[g] = safe[g]
    BY <1>1, <2>1 DEF TypeOK
  <2>4. Rooting'
    <3>1. SUFFICES ASSUME NEW u \in Thread, task'[u].op = "write"
                   PROVE  /\ state[u] = "running"
                          /\ object[task'[u].obj] = "live"
                          /\ \/ task'[u].obj \in gcs[u]
                             \/ \E g \in Handle : /\ safe'[g] # Null /\ safe'[g].by = u
                                                  /\ content[safe'[g].root] = task'[u].obj
      BY <2>1 DEF Rooting
    <3>2. task'[u] = task[u] /\ task[u].op = "write" /\ u # t
      BY <2>1, <2>2, <3>1 DEF Idle
    <3>. QED
      BY <1>1, <2>1, <2>3, <3>2 DEF Rooting
  <2>5. Written' /\ Stacks' /\ Lives'
    BY <1>1, <2>1 DEF Written, Stacks, Lives
  <2>. QED
    BY <2>4, <2>5 DEF LiveInv
<1>15. ASSUME NEW t \in Thread, NEW h \in Handle, NEW g \in Handle, Clone(t, h, g) PROVE LiveInv'
  <2>1. /\ safe[g] = Null /\ safe' = [safe EXCEPT ![g] = safe[h]]
        /\ UNCHANGED <<rest, gcs, allocated, content, task>>
    BY <1>15 DEF Clone
  <2>2. \A k \in Handle : safe[k] # Null => safe'[k] = safe[k] \/ safe[k].by \in {}
    BY <1>1, <2>1 DEF TypeOK
  <2>3. {} \in SUBSET Thread /\ \A u \in {} : task[u] = Idle
    OBVIOUS
  <2>. QED
    BY <2>1, <2>2, <2>3, MoveLive
<1>16. ASSUME NEW t \in Thread, NEW u \in Thread, NEW h \in Handle, Send(t, u, h) PROVE LiveInv'
  <2>1. /\ safe[h].by = t /\ task[t] = Idle
        /\ safe' = [safe EXCEPT ![h] = [safe[h] EXCEPT !.by = u]]
        /\ UNCHANGED <<rest, gcs, allocated, content, task>>
    BY <1>16 DEF Send, Mine, CanRun
  <2>2. \A k \in Handle : safe[k] # Null => safe'[k] = safe[k] \/ safe[k].by \in {t}
    BY <1>1, <2>1 DEF TypeOK
  <2>3. {t} \in SUBSET Thread /\ \A v \in {t} : task[v] = Idle
    BY <2>1
  <2>. QED
    BY <2>1, <2>2, <2>3, MoveLive
<1>17. ASSUME NEW t \in Thread, NEW w \in Worker, NEW hs \in SUBSET Handle,
              NEW os \in SUBSET Object, Spawn(t, w, hs, os)
       PROVE  LiveInv'
  <2>1. /\ task[t] = Idle /\ state[w] = "idle" /\ hs \subseteq Mine(t) /\ os = {}
        /\ state' = [state EXCEPT ![w] = "spawned"]
        /\ gcs' = [gcs EXCEPT ![w] = os]
        /\ safe' = [h \in Handle |-> IF h \in hs THEN [safe[h] EXCEPT !.by = w] ELSE safe[h]]
        /\ UNCHANGED <<attached, allocated, content, task, object>>
    BY <1>17 DEF Spawn, CanRun
  <2>2. w \in Thread /\ gcs[w] = {} /\ w \notin attached
    BY <1>1, <2>1 DEF Lives, Thread, Spawned
  <2>3. \A u \in Thread : gcs'[u] = gcs[u]
    BY <1>1, <2>1, <2>2 DEF TypeOK
  <2>4. state'[w] = "spawned" /\ \A u \in Thread : u # w => state'[u] = state[u]
    BY <1>1, <2>1, <2>2 DEF TypeOK
  <2>5. \A h \in Handle : safe[h] # Null => safe'[h] = safe[h] \/ safe[h].by = t
    BY <2>1 DEF Mine
  <2>6. Rooting'
    <3>1. SUFFICES ASSUME NEW u \in Thread, task[u].op = "write"
                   PROVE  /\ state'[u] = "running"
                          /\ object[task[u].obj] = "live"
                          /\ \/ task[u].obj \in gcs'[u]
                             \/ \E h \in Handle : /\ safe'[h] # Null /\ safe'[h].by = u
                                                  /\ content[safe'[h].root] = task[u].obj
      BY <2>1 DEF Rooting
    <3>2. u # w /\ u # t /\ state[u] = "running"
      BY <1>1, <2>1, <2>2, <3>1 DEF Rooting, Idle
    <3>3. \A h \in Handle : safe[h] # Null /\ safe[h].by = u => safe'[h] = safe[h]
      BY <2>5, <3>2
    <3>. QED
      BY <1>1, <2>3, <2>4, <3>1, <3>2, <3>3 DEF Rooting
  <2>7. Written' /\ Stacks'
    BY <1>1, <2>1, <2>3 DEF Written, Stacks
  <2>8. Lives'
    BY <1>1, <2>1, <2>2, <2>3, <2>4 DEF Lives, Thread, Spawned
  <2>. QED
    BY <2>6, <2>7, <2>8 DEF LiveInv
<1>18. ASSUME NEW t \in Thread, NEW w \in Worker, Join(t, w) PROVE LiveInv'
  <2>1. /\ state[w] = "returned" /\ state[t] = "running"
        /\ state' = [state EXCEPT ![w] = "done"]
        /\ gcs' = [gcs EXCEPT ![t] = @ \cup gcs[w], ![w] = {}]
        /\ safe' = [h \in Handle |-> IF h \in Mine(w) THEN [safe[h] EXCEPT !.by = t] ELSE safe[h]]
        /\ UNCHANGED <<attached, allocated, content, task, object>>
    BY <1>18 DEF Join, CanRun
  <2>2. w \in Thread /\ w \notin attached /\ gcs[w] = {} /\ task[w].op # "write" /\ t # w
    BY <1>1, <2>1 DEF Lives, Stacks, Rooting, Thread
  <2>3. \A u \in Thread : gcs'[u] = gcs[u]
    BY <1>1, <2>1, <2>2 DEF TypeOK
  <2>4. state'[w] = "done" /\ \A u \in Thread : u # w => state'[u] = state[u]
    BY <1>1, <2>1, <2>2 DEF TypeOK
  <2>5. \A h \in Handle : safe[h] # Null => safe'[h] = safe[h] \/ safe[h].by = w
    BY <2>1 DEF Mine
  <2>6. UNCHANGED <<task, object, content>>
    BY <2>1
  <2>7. Rooting'
    <3>1. SUFFICES ASSUME NEW u \in Thread, task[u].op = "write"
                   PROVE  /\ state'[u] = "running"
                          /\ object[task[u].obj] = "live"
                          /\ \/ task[u].obj \in gcs'[u]
                             \/ \E h \in Handle : /\ safe'[h] # Null /\ safe'[h].by = u
                                                  /\ content[safe'[h].root] = task[u].obj
      BY <2>6 DEF Rooting
    <3>2. u # w /\ state[u] = "running"
      BY <1>1, <2>1, <2>2, <3>1 DEF Rooting, Idle
    <3>3. \A h \in Handle : safe[h] # Null /\ safe[h].by = u => safe'[h] = safe[h]
      BY <2>5, <3>2
    <3>. QED
      BY <1>1, <2>3, <2>4, <3>1, <3>2, <3>3 DEF Rooting
  <2>8. Written'
    BY <1>1, <2>1 DEF Written
  <2>9. Stacks'
    BY <1>1, <2>1, <2>3 DEF Stacks
  <2>10. Lives'
    BY <1>1, <2>1, <2>2, <2>3, <2>4 DEF Lives, Thread, Spawned
  <2>. QED
    BY <2>7, <2>8, <2>9, <2>10 DEF LiveInv
<1>19. ASSUME NEW w \in Worker, Attach(w) \/ AttachFails(w) \/ Abandon(w) PROVE LiveInv'
  <2>1. /\ state[w] \in {"spawned", "returned"} /\ w \in Thread
        /\ \/ state' = [state EXCEPT ![w] = "running"] /\ attached' = attached \cup {w}
           \/ state' = [state EXCEPT ![w] = "unwinding"] /\ attached' = attached
        /\ UNCHANGED <<gcs, memory>>
    BY <1>19 DEF Attach, AttachFails, Abandon, Thread
  <2>2. /\ state'[w] = "running" \/ (state'[w] = "unwinding" /\ attached' = attached)
        /\ \A u \in Thread : u # w => state'[u] = state[u]
        /\ attached \subseteq attached' /\ attached' \subseteq attached \cup {w}
        /\ state'[w] = "running" => w \in attached'
    BY <1>1, <2>1 DEF TypeOK
  <2>3. Rooting'
    BY <1>1, <2>1, <2>2 DEF Rooting
  <2>4. Written' /\ Stacks'
    BY <1>1, <2>1, <2>2 DEF Written, Stacks
  <2>5. Lives'
    BY <1>1, <2>1, <2>2 DEF Lives, Thread, Spawned
  <2>. QED
    BY <2>3, <2>4, <2>5 DEF LiveInv
<1>20. ASSUME NEW w \in Worker, NEW os \in SUBSET Object, ReturnFrom(w, os) PROVE LiveInv'
  <2>1. /\ state[w] = "running" /\ task[w] = Idle /\ os = {} /\ w \in Thread
        /\ state' = [state EXCEPT ![w] = "leaving"]
        /\ gcs' = [gcs EXCEPT ![w] = os]
        /\ UNCHANGED <<attached, memory>>
    BY <1>20 DEF ReturnFrom, CanRun, Thread
  <2>2. /\ state'[w] = "leaving" /\ gcs'[w] = {}
        /\ \A u \in Thread : u # w => state'[u] = state[u] /\ gcs'[u] = gcs[u]
    BY <1>1, <2>1 DEF TypeOK
  <2>3. Rooting'
    BY <1>1, <2>1, <2>2 DEF Rooting, Idle
  <2>4. Written' /\ Stacks' /\ Lives'
    BY <1>1, <2>1, <2>2 DEF Written, Stacks, Lives, Thread, Spawned
  <2>. QED
    BY <2>3, <2>4 DEF LiveInv
<1>21. ASSUME NEW t \in Thread, Unwound(t) PROVE LiveInv'
  <2>1. /\ state[t] = "unwinding" /\ task[t] = Idle
        /\ state' = [state EXCEPT ![t] = IF t \in attached THEN "leaving" ELSE "done"]
        /\ gcs' = [gcs EXCEPT ![t] = {}]
        /\ UNCHANGED <<attached, memory>>
    BY <1>21 DEF Unwound
  <2>2. /\ state'[t] = (IF t \in attached THEN "leaving" ELSE "done") /\ gcs'[t] = {}
        /\ \A u \in Thread : u # t => state'[u] = state[u] /\ gcs'[u] = gcs[u]
    BY <1>1, <2>1 DEF TypeOK
  <2>3. Rooting'
    BY <1>1, <2>1, <2>2 DEF Rooting, Idle
  <2>4. Written' /\ Stacks' /\ Lives'
    BY <1>1, <2>1, <2>2 DEF Written, Stacks, Lives, Thread, Spawned
  <2>. QED
    BY <2>3, <2>4 DEF LiveInv
<1>22. ASSUME NEW t \in Thread, Detach(t) PROVE LiveInv'
  <2>1. /\ state[t] = "leaving" /\ t \in Spawned
        /\ state' = [state EXCEPT ![t] = IF t \in Worker THEN "returned" ELSE "unwinding"]
        /\ attached' = attached \ {t}
        /\ UNCHANGED <<gcs, memory>>
    BY <1>1, <1>22 DEF Detach, TypeOK, Thread, Spawned
  <2>2. gcs[t] = {} /\ task[t].op # "write"
    BY <1>1, <2>1 DEF Lives, Rooting
  <2>3. /\ state'[t] = IF t \in Worker THEN "returned" ELSE "unwinding"
        /\ \A u \in Thread : u # t => state'[u] = state[u]
    BY <1>1, <2>1 DEF TypeOK
  <2>4. Rooting'
    BY <1>1, <2>1, <2>2, <2>3 DEF Rooting
  <2>5. Written' /\ Stacks'
    BY <1>1, <2>1, <2>2 DEF Written, Stacks
  <2>6. t \notin Game
    BY <2>1, GcAssumption DEF Spawned
  <2>7. Lives'
    BY <1>1, <2>1, <2>2, <2>3, <2>6 DEF Lives, Thread, Spawned
  <2>. QED
    BY <2>4, <2>5, <2>7 DEF LiveInv
<1>23. ASSUME NEW p \in Plain, attached_invoke(p) PROVE LiveInv'
  <2>1. /\ p \in Thread /\ p \notin Game \cup Worker /\ state[p] = "running" /\ task[p] = Idle
        /\ attached \subseteq attached' /\ attached' \subseteq attached \cup {p}
        /\ state' = state \/ state' = [state EXCEPT ![p] = "unwinding"]
        /\ UNCHANGED <<gcs, memory>>
    BY <1>23, GcAssumption DEF attached_invoke, CanRun, Thread
  <2>2. /\ state'[p] # "leaving" /\ \A u \in Thread : u # p => state'[u] = state[u]
    BY <1>1, <2>1 DEF TypeOK
  <2>3. Rooting'
    BY <1>1, <2>1, <2>2 DEF Rooting, Idle
  <2>4. Written' /\ Stacks'
    BY <1>1, <2>1 DEF Written, Stacks
  <2>5. Lives'
    BY <1>1, <2>1, <2>2 DEF Lives, Thread, Spawned
  <2>. QED
    BY <2>3, <2>4, <2>5 DEF LiveInv
<1>24. ASSUME NEW p \in Plain, NEW os \in SUBSET Object, InvokeReturns(p, os) PROVE LiveInv'
  <2>1. /\ p \in Thread /\ p \notin Game \cup Worker /\ task[p] = Idle /\ os = {}
        /\ attached' = attached \ {p} /\ gcs' = [gcs EXCEPT ![p] = os]
        /\ UNCHANGED <<state, memory>>
    BY <1>24, GcAssumption DEF InvokeReturns, CanRun, Thread
  <2>2. gcs'[p] = {} /\ \A u \in Thread : u # p => gcs'[u] = gcs[u]
    BY <1>1, <2>1 DEF TypeOK
  <2>3. Rooting'
    BY <1>1, <2>1, <2>2 DEF Rooting, Idle
  <2>4. Written' /\ Stacks'
    BY <1>1, <2>1, <2>2 DEF Written, Stacks
  <2>5. Lives'
    BY <1>1, <2>1, <2>2 DEF Lives, Thread, Spawned
  <2>. QED
    BY <2>3, <2>4, <2>5 DEF LiveInv
<1>. QED
  BY <1>3, <1>4, <1>5, <1>6, <1>7, <1>8, <1>9, <1>10, <1>11, <1>12, <1>13, <1>14, <1>15,
     <1>16, <1>17, <1>18, <1>19, <1>20, <1>21, <1>22, <1>23, <1>24 DEF Next

\* Both invariants hold as long as no Gc leaves the stack it is on.
LEMMA SpecLive ==
  ASSUME GcLeaves = {}
  PROVE  Spec => [](RootInv /\ LiveInv)
<1>1. Init => RootInv /\ LiveInv
  BY InitRoots, InitLive
<1>2. RootInv /\ LiveInv /\ [Next]_vars => (RootInv /\ LiveInv)'
  BY StepRoots, StepLive
<1>. QED
  BY <1>1, <1>2, PTL DEF Spec

(***************************************************************************)
(* SafePtr's promise, as long as no Gc leaves the stack it is on: the      *)
(* object of a SafePtr is alive on whatever thread the SafePtr is.         *)
(***************************************************************************)
THEOREM SafePtrIsSafe ==
  ASSUME GcLeaves = {}
  PROVE  Spec => []SafePtrKeepsAlive
<1>1. RootInv /\ LiveInv => SafePtrKeepsAlive
  <2>1. SUFFICES ASSUME RootInv, LiveInv, NEW h \in Handle, safe[h] # Null
                 PROVE  /\ safe[h].root \in allocated
                        /\ ObjectOf(h) \in Object
                        /\ object[ObjectOf(h)] = "live"
    BY DEF SafePtrKeepsAlive
  <2>. QED
    BY <2>1, SafeShape DEF RootInv, LiveInv, Shared, Written, ObjectOf
<1>. QED
  BY <1>1, SpecLive, PTL

(***************************************************************************)
(* What being attached is for, under the same condition: a Gc on the stack *)
(* of an attached thread points at a live object, whatever SafePtrs other  *)
(* threads drop and whenever the collector runs.                           *)
(***************************************************************************)
THEOREM AttachedStackIsSafe ==
  ASSUME GcLeaves = {}
  PROVE  Spec => []StackKeepsAlive
<1>1. RootInv /\ LiveInv => StackKeepsAlive
  BY DEF RootInv, TypeOK, LiveInv, Stacks, StackKeepsAlive, Managed, Thread
<1>. QED
  BY <1>1, SpecLive, PTL

-----------------------------------------------------------------------------
(***************************************************************************)
(* The refinement of SafePtrContract.  It needs no condition on where the  *)
(* program takes its Gcs, so neither do these: an allocation is blank      *)
(* until it is written, nobody refers to an object that is yet to be made, *)
(* and who is attached when.                                               *)
(***************************************************************************)
Blank ==
  \A r \in Root :
    r \notin allocated \/ (\E t \in Thread : task[t].op = "write" /\ task[t].root = r)
      => content[r] = Null

Born ==
  /\ \A t \in Thread : \A o \in gcs[t] : object[o] # "unborn"
  /\ \A t \in Thread : task[t].op = "write" => object[task[t].obj] # "unborn"
  /\ \A r \in Root : content[r] \in Object => object[content[r]] # "unborn"

Attending ==
  /\ Game \subseteq attached
  /\ \A w \in Worker :
       /\ state[w] = "running" => w \in attached
       /\ w \in attached => state[w] \in {"running", "unwinding", "leaving"}

PinInv == RootInv /\ Blank /\ Born /\ Attending /\ (GcLeaves = {} => LiveInv)

LEMMA InitPins == Init => PinInv
<1>1. SUFFICES ASSUME Init PROVE PinInv
  OBVIOUS
<1>2. RootInv /\ LiveInv
  BY <1>1, InitRoots, InitLive
<1>3. Blank /\ Born
  BY <1>1, GcAssumption DEF Init, Blank, Born, Idle
<1>4. Attending
  BY <1>2 DEF LiveInv, Lives, Attending
<1>. QED
  BY <1>2, <1>3, <1>4 DEF PinInv

LEMMA StepBlank ==
  ASSUME RootInv, Blank, [Next]_vars
  PROVE  Blank'
<1>1. TypeOK /\ Busy
  BY DEF RootInv
<1>2. ASSUME NEW t \in Thread, NEW r \in Root, NEW o, task[t] = Idle, Allocate(t, r, o), UNCHANGED content
      PROVE  Blank'
  <2>1. allocated' = allocated \cup {r} /\ r \notin allocated
        /\ \A u \in Thread : u # t => task'[u] = task[u]
    BY <1>1, <1>2 DEF Allocate, TypeOK
  <2>2. task'[t].root = r
    BY <1>1, <1>2 DEF Allocate, TypeOK
  <2>3. SUFFICES ASSUME NEW q \in Root,
                        q \notin allocated'
                          \/ (\E u \in Thread : task'[u].op = "write" /\ task'[u].root = q)
                 PROVE  content[q] = Null
    BY <1>2 DEF Blank
  <2>. QED
    BY <2>1, <2>2, <2>3 DEF Blank
<1>3. ASSUME NEW t \in Thread, NEW r \in Root, New(t, r) PROVE Blank'
  BY <1>2, <1>3 DEF New, CanRun
<1>4. ASSUME NEW t \in Thread, NEW h \in Handle, NEW r \in Root, Cast(t, h, r) PROVE Blank'
  BY <1>2, <1>4 DEF Cast, CanRun
<1>5. ASSUME NEW t \in Thread, NEW h \in Handle, Write(t, h) PROVE Blank'
  <2>1. /\ content' = [content EXCEPT ![task[t].root] = task[t].obj] /\ allocated' = allocated
        /\ task' = [task EXCEPT ![t] = Idle] /\ task[t] # Idle
    BY <1>5 DEF Write, Idle
  <2>2. task'[t].op # "write" /\ \A u \in Thread : u # t => task'[u] = task[u]
    BY <1>1, <2>1 DEF TypeOK, Idle
  <2>3. task[t].root \in allocated
    BY <1>1, <2>1 DEF Busy
  <2>4. ASSUME NEW u \in Thread, u # t, task[u].op = "write" PROVE task[u].root # task[t].root
    BY <1>1, <2>1, <2>4 DEF Busy, Idle
  <2>5. SUFFICES ASSUME NEW q \in Root,
                        q \notin allocated
                          \/ (\E u \in Thread : task'[u].op = "write" /\ task'[u].root = q)
                 PROVE  content'[q] = Null
    BY <2>1 DEF Blank
  <2>6. q # task[t].root
    BY <2>2, <2>3, <2>4, <2>5
  <2>7. content[q] = Null
    BY <2>2, <2>5 DEF Blank
  <2>. QED
    BY <1>1, <2>1, <2>6, <2>7 DEF TypeOK
<1>6. ASSUME NEW t \in Thread, Free(t) PROVE Blank'
  <2>1. /\ content' = [content EXCEPT ![task[t].root] = Null] /\ allocated' = allocated \ {task[t].root}
        /\ task' = [task EXCEPT ![t] = Idle]
    BY <1>6 DEF Free
  <2>2. task'[t].op # "write" /\ \A u \in Thread : u # t => task'[u] = task[u]
    BY <1>1, <2>1 DEF TypeOK, Idle
  <2>. QED
    BY <1>1, <2>1, <2>2 DEF Blank, TypeOK
<1>7. ASSUME NEW t \in Thread, NEW h \in Handle, Drop(t, h) PROVE Blank'
  <2>1. UNCHANGED <<content, allocated>>
        /\ \A u \in Thread : task'[u] = task[u] \/ task'[u].op = "free"
    BY <1>1, <1>7 DEF Drop, TypeOK
  <2>. QED
    BY <2>1 DEF Blank
<1>8. ASSUME UNCHANGED <<content, allocated, task>> PROVE Blank'
  BY <1>8 DEF Blank
<1>. QED
  BY <1>3, <1>4, <1>5, <1>6, <1>7, <1>8
     DEF Next, vars, rest, xref_init, NewObject, ForgetGc, Collect, NewPanics, AllocFails, Clone, as_weak,
         Send, Spawn, Attach, AttachFails, ReturnFrom, Unwound, Detach, attached_invoke, InvokeReturns,
         Join, Abandon

LEMMA StepBorn ==
  ASSUME RootInv, Born, [Next]_vars
  PROVE  Born'
<1>1. TypeOK /\ Shared
  BY DEF RootInv
<1>2. ASSUME UNCHANGED <<task, content, object>>,
             \A t \in Thread : \A o \in gcs'[t] : \E u \in Thread : o \in gcs[u]
      PROVE  Born'
  BY <1>2 DEF Born
<1>3. ASSUME NEW t \in Thread, NEW r \in Root, NEW o \in Object, task[t] = Idle, object[o] # "unborn",
             Allocate(t, r, o), UNCHANGED <<gcs, content, object>>
      PROVE  Born'
  <2>1. /\ task'[t] = [op |-> "write", root |-> r, obj |-> o]
        /\ \A u \in Thread : u # t => task'[u] = task[u]
    BY <1>1, <1>3 DEF Allocate, TypeOK
  <2>. QED
    BY <1>3, <2>1 DEF Born
<1>4. ASSUME NEW t \in Thread, NEW r \in Root, New(t, r) PROVE Born'
  <2>1. PICK o \in gcs[t] : Allocate(t, r, o)
    BY <1>4 DEF New
  <2>2. o \in Object /\ object[o] # "unborn"
    BY <1>1, <2>1 DEF TypeOK, Born
  <2>. QED
    BY <1>3, <1>4, <2>1, <2>2 DEF New, CanRun, rest
<1>5. ASSUME NEW t \in Thread, NEW h \in Handle, h \in Mine(t)
      PROVE  ObjectOf(h) \in Object /\ object[ObjectOf(h)] # "unborn"
  BY <1>1, <1>5, SafeShape DEF Mine, ObjectOf, Shared, Born
<1>6. ASSUME NEW t \in Thread, NEW h \in Handle, NEW r \in Root, Cast(t, h, r) PROVE Born'
  BY <1>3, <1>5, <1>6 DEF Cast, CanRun, rest
<1>7. ASSUME NEW t \in Thread, NEW h \in Handle, Write(t, h) PROVE Born'
  <2>1. /\ task[t].op = "write" /\ UNCHANGED <<gcs, object>>
        /\ content' = [content EXCEPT ![task[t].root] = task[t].obj]
        /\ task' = [task EXCEPT ![t] = Idle]
    BY <1>7 DEF Write, rest
  <2>2. \A q \in Root : content'[q] \in {content[q], task[t].obj}
    BY <1>1, <2>1 DEF TypeOK
  <2>3. \A u \in Thread : task'[u].op = "write" => task'[u] = task[u]
    BY <1>1, <2>1 DEF TypeOK, Idle
  <2>. QED
    BY <2>1, <2>2, <2>3 DEF Born
<1>8. ASSUME NEW t \in Thread, Free(t) \/ \E h \in Handle : Drop(t, h) PROVE Born'
  <2>1. UNCHANGED <<gcs, object>>
    BY <1>8 DEF Drop, Free, rest
  <2>2. \A u \in Thread : task'[u].op = "write" => task'[u] = task[u]
    BY <1>1, <1>8 DEF TypeOK, Idle, Drop, Free
  <2>3. \A q \in Root : content'[q] \in {content[q], Null}
    BY <1>1, <1>8 DEF TypeOK, Drop, Free
  <2>. QED
    BY <2>1, <2>2, <2>3, GcAssumption DEF Born
<1>9. ASSUME NEW t \in Thread, NEW h \in Handle, as_weak(t, h) PROVE Born'
  <2>1. /\ UNCHANGED <<task, content, object>> /\ h \in Mine(t)
        /\ \A u \in Thread : gcs'[u] \subseteq gcs[u] \cup {ObjectOf(h)}
    BY <1>1, <1>9 DEF as_weak, TypeOK, rest
  <2>. QED
    BY <1>5, <2>1 DEF Born
<1>10. ASSUME NEW t \in Thread, NEW o \in Object, NewObject(t, o) PROVE Born'
  <2>1. /\ UNCHANGED <<task, content>>
        /\ object'[o] = "live" /\ \A p \in Object : p # o => object'[p] = object[p]
        /\ \A u \in Thread : gcs'[u] \subseteq gcs[u] \cup {o}
    BY <1>1, <1>10 DEF NewObject, TypeOK
  <2>2. \A p \in Object : object[p] # "unborn" => object'[p] # "unborn"
    BY <2>1
  <2>3. \A u \in Thread : task[u].op = "write" => task[u].obj \in Object
    BY <1>1, TaskShape
  <2>. QED
    BY <1>1, <2>1, <2>2, <2>3 DEF Born, TypeOK
<1>11. ASSUME NEW o \in Object, Collect(o) PROVE Born'
  <2>1. /\ UNCHANGED <<task, content, gcs>>
        /\ \A p \in Object : object[p] # "unborn" => object'[p] # "unborn"
    BY <1>1, <1>11 DEF Collect, TypeOK
  <2>2. \A u \in Thread : task[u].op = "write" => task[u].obj \in Object
    BY <1>1, TaskShape
  <2>. QED
    BY <1>1, <2>1, <2>2 DEF Born, TypeOK
<1>12. ASSUME NEW t \in Thread, NEW o \in Object, ForgetGc(t, o) PROVE Born'
  BY <1>1, <1>2, <1>12 DEF ForgetGc, TypeOK, rest
<1>13. ASSUME NEW t \in Thread, NEW w \in Worker, NEW hs \in SUBSET Handle,
              NEW os \in SUBSET Object, Spawn(t, w, hs, os)
       PROVE  Born'
  BY <1>1, <1>2, <1>13 DEF Spawn, TypeOK
<1>14. ASSUME NEW t \in Thread, NEW w \in Worker, Join(t, w) PROVE Born'
  <2>1. w \in Thread /\ \A u \in Thread : gcs'[u] \subseteq gcs[u] \cup gcs[w]
    BY <1>1, <1>14 DEF Join, TypeOK, Thread
  <2>. QED
    BY <1>2, <1>14, <2>1 DEF Join
<1>15. ASSUME NEW w \in Thread, NEW os \in SUBSET Object,
              ReturnFrom(w, os) \/ InvokeReturns(w, os) \/ Unwound(w)
       PROVE  Born'
  <2>1. \A u \in Thread : gcs'[u] \subseteq gcs[u]
    BY <1>1, <1>15 DEF ReturnFrom, InvokeReturns, Unwound, TypeOK
  <2>. QED
    BY <1>2, <1>15, <2>1 DEF ReturnFrom, InvokeReturns, Unwound
<1>16. ASSUME UNCHANGED <<task, content, object, gcs>> PROVE Born'
  BY <1>16 DEF Born
<1>17. Worker \subseteq Thread /\ Plain \subseteq Thread
  BY DEF Thread
<1>18. CASE \E o \in Object : Collect(o)
  BY <1>11, <1>18
<1>19. CASE \E t \in Thread : \E w \in Worker, hs \in SUBSET Handle, os \in SUBSET Object : Spawn(t, w, hs, os)
  BY <1>13, <1>19
<1>20. CASE \E t \in Thread :
              \/ Free(t) \/ Unwound(t)
              \/ \E o \in Object : NewObject(t, o) \/ ForgetGc(t, o)
              \/ \E r \in Root : New(t, r)
              \/ \E h \in Handle, r \in Root : Cast(t, h, r)
              \/ \E h \in Handle : Write(t, h) \/ as_weak(t, h) \/ Drop(t, h)
              \/ \E w \in Worker : Join(t, w)
  BY <1>4, <1>6, <1>7, <1>8, <1>9, <1>10, <1>12, <1>14, <1>15, <1>20
<1>21. CASE \/ \E w \in Worker : \E os \in SUBSET Object : ReturnFrom(w, os)
            \/ \E p \in Plain : \E os \in SUBSET Object : InvokeReturns(p, os)
  BY <1>15, <1>17, <1>21
<1>22. CASE \/ UNCHANGED vars
            \/ \E t \in Thread :
                 \/ xref_init(t) \/ NewPanics(t) \/ AllocFails(t) \/ Detach(t)
                 \/ \E h \in Handle, g \in Handle : Clone(t, h, g)
                 \/ \E u \in Thread, h \in Handle : Send(t, u, h)
            \/ \E w \in Worker : Attach(w) \/ AttachFails(w) \/ Abandon(w)
            \/ \E p \in Plain : attached_invoke(p)
  BY <1>16, <1>22 DEF vars, rest, xref_init, NewPanics, AllocFails, Detach, Clone, Send, Attach,
     AttachFails, Abandon, attached_invoke
<1>. QED
  BY <1>18, <1>19, <1>20, <1>21, <1>22 DEF Next

LEMMA StepAttending ==
  ASSUME RootInv, Attending, [Next]_vars
  PROVE  Attending'
<1>1. TypeOK
  BY DEF RootInv
<1>2. ASSUME UNCHANGED <<state, attached>> PROVE Attending'
  BY <1>2 DEF Attending
<1>3. ASSUME NEW w \in Worker, Attach(w) \/ AttachFails(w) \/ Abandon(w) PROVE Attending'
  <2>1. w \in Thread /\ state[w] \in {"spawned", "returned"} /\ w \notin attached
    BY <1>3 DEF Thread, Attending, Attach, AttachFails, Abandon
  <2>2. \/ state'[w] = "running" /\ attached' = attached \cup {w}
        \/ state'[w] = "unwinding" /\ attached' = attached
    BY <1>1, <1>3, <2>1 DEF Attach, AttachFails, Abandon, TypeOK
  <2>3. \A u \in Thread : u # w => state'[u] = state[u]
    BY <1>1, <1>3, <2>1 DEF Attach, AttachFails, Abandon, TypeOK
  <2>. QED
    BY <2>1, <2>2, <2>3 DEF Attending, Thread
<1>4. ASSUME NEW t \in Thread, NewPanics(t) PROVE Attending'
  BY <1>1, <1>4 DEF Attending, NewPanics, CanRun, TypeOK, Thread
<1>5. ASSUME NEW t \in Thread, NEW w \in Worker,
             state[w] \in {"idle", "returned"}, attached' = attached,
             \E s \in {"spawned", "done"} : state' = [state EXCEPT ![w] = s]
      PROVE  Attending'
  BY <1>1, <1>5 DEF Attending, TypeOK, Thread
<1>6. ASSUME NEW w \in Worker, NEW os \in SUBSET Object, ReturnFrom(w, os) PROVE Attending'
  BY <1>1, <1>6 DEF Attending, ReturnFrom, CanRun, TypeOK, Thread
<1>7. ASSUME NEW t \in Thread, Unwound(t) PROVE Attending'
  BY <1>1, <1>7 DEF Attending, Unwound, TypeOK, Thread
<1>8. ASSUME NEW t \in Thread, Detach(t) PROVE Attending'
  <2>1. t \notin Game
    BY <1>1, <1>8 DEF Detach, TypeOK
  <2>. QED
    BY <1>1, <1>8, <2>1 DEF Attending, Detach, TypeOK, Thread
<1>9. ASSUME NEW p \in Plain, attached_invoke(p) PROVE Attending'
  <2>1. p \notin Worker /\ p \in Thread
    BY GcAssumption DEF Thread
  <2>2. /\ attached \subseteq attached' /\ attached' \subseteq attached \cup {p}
        /\ \A u \in Thread : u # p => state'[u] = state[u]
    BY <1>1, <1>9, <2>1 DEF attached_invoke, TypeOK
  <2>. QED
    BY <2>1, <2>2 DEF Attending, Thread
<1>10. ASSUME NEW p \in Plain, NEW os \in SUBSET Object, InvokeReturns(p, os) PROVE Attending'
  <2>1. p \notin Worker /\ p \notin Game
    BY GcAssumption
  <2>. QED
    BY <1>1, <1>10, <2>1 DEF Attending, InvokeReturns, TypeOK
<1>11. ASSUME NEW t \in Thread, NEW w \in Worker, NEW hs \in SUBSET Handle, NEW os \in SUBSET Object,
              Spawn(t, w, hs, os) \/ Join(t, w)
       PROVE  Attending'
  BY <1>5, <1>11 DEF Spawn, Join
<1>. QED
  BY <1>2, <1>3, <1>4, <1>6, <1>7, <1>8, <1>9, <1>10, <1>11
     DEF Next, vars, rest, xref_init, NewObject, ForgetGc, Collect, AllocFails, Clone, as_weak, New, Cast,
         Write, Drop, Free, Send

LEMMA SpecPins == Spec => []PinInv
<1>1. PinInv /\ [Next]_vars => PinInv'
  BY StepRoots, StepLive, StepBlank, StepBorn, StepAttending DEF PinInv
<1>. QED
  BY <1>1, InitPins, PTL DEF Spec

-----------------------------------------------------------------------------
(* What the contract's variables are, and how the code's moves change them. *)
LEMMA HeldShape ==
  ASSUME RootInv, NEW h \in Handle
  PROVE  /\ Held[h] # Null <=> safe[h] # Null
         /\ safe[h] # Null => /\ Held[h] = [by |-> safe[h].by, obj |-> ObjectOf(h)]
                              /\ Held[h] \in [by : Thread, obj : Object]
<1>1. ASSUME safe[h] # Null PROVE [by |-> safe[h].by, obj |-> ObjectOf(h)] \in [by : Thread, obj : Object]
  <2>1. safe[h].by \in Thread /\ ObjectOf(h) \in Object
    BY <1>1, SafeShape DEF RootInv, Shared, ObjectOf
  <2>. QED
    BY <2>1
<1>. QED
  BY <1>1, GcAssumption DEF Held

LEMMA HeldStays ==
  ASSUME UNCHANGED safe,
         \A h \in Handle : safe[h] # Null => content'[safe[h].root] = content[safe[h].root]
  PROVE  UNCHANGED Held
BY DEF Held, ObjectOf

LEMMA HeldMoves ==
  ASSUME RootInv, NEW w \in Thread, NEW hs \in SUBSET Handle,
         \A h \in hs : safe[h] # Null,
         safe' = [h \in Handle |-> IF h \in hs THEN [safe[h] EXCEPT !.by = w] ELSE safe[h]],
         UNCHANGED content
  PROVE  /\ Held' = [h \in Handle |-> IF h \in hs THEN [Held[h] EXCEPT !.by = w] ELSE Held[h]]
         /\ \A h \in hs : Held[h] # Null
<1>1. ASSUME NEW h \in hs PROVE Held[h] # Null /\ Held'[h] = [Held[h] EXCEPT !.by = w]
  <2>1. safe[h] # Null /\ safe[h] \in SafePtr
    BY SafeShape DEF RootInv
  <2>2. safe'[h] = [by |-> w, root |-> safe[h].root] /\ safe'[h] \in SafePtr
    BY <2>1 DEF SafePtr
  <2>3. safe'[h] # Null
    BY <2>2, GcAssumption
  <2>4. Held'[h] = [by |-> w, obj |-> ObjectOf(h)]
    BY <2>2, <2>3 DEF Held, ObjectOf
  <2>5. Held[h] = [by |-> safe[h].by, obj |-> ObjectOf(h)] /\ Held[h] # Null
    BY <2>1, HeldShape
  <2>6. [Held[h] EXCEPT !.by = w] = [by |-> w, obj |-> ObjectOf(h)]
    BY <2>5
  <2>. QED
    BY <2>4, <2>5, <2>6
<1>2. ASSUME NEW h \in Handle \ hs PROVE Held'[h] = Held[h]
  BY DEF Held, ObjectOf
<1>3. Held' = [h \in Handle |-> Held'[h]]
  BY DEF Held
<1>. QED
  BY <1>1, <1>2, <1>3

\* A thread that may get Gcs, and runs, is where the collector looks.
LEMMA ManagedIsSeen ==
  ASSUME RootInv, Attending, NEW t \in Managed, state[t] = "running"
  PROVE  t \in attached
BY DEF Attending, Managed

LEMMA PinnedByNew ==
  ASSUME RootInv, Blank, NEW t, NEW r \in Root, NEW o, Allocate(t, r, o), UNCHANGED content
  PROVE  UNCHANGED Pinned
BY DEF Allocate, Blank, Pinned

LEMMA InitContract == Init => Contract!Init
BY GcAssumption DEF Init, Contract!Init, Held, Seen, Pinned

LEMMA StepContract == PinInv /\ [Next]_vars => [Contract!Next]_(Contract!contractVars)
<1>1. SUFFICES ASSUME PinInv, [Next]_vars PROVE [Contract!Next]_(Contract!contractVars)
  OBVIOUS
<1>2. RootInv /\ TypeOK /\ Shared /\ Busy /\ Blank /\ Born /\ Attending
  BY <1>1 DEF PinInv, RootInv
<1>3. GcLeaves = {} => Stacks /\ Rooting
  BY <1>1 DEF PinInv, LiveInv
<1>. DEFINE same == UNCHANGED <<Held, Seen, Pinned, object>>
<1>4. same => [Contract!Next]_(Contract!contractVars)
  BY DEF Contract!contractVars
<1>5. ASSUME NEW o \in Object, Collect(o) PROVE [Contract!Next]_(Contract!contractVars)
  <2>1. UNCHANGED <<Held, Seen, Pinned>>
    BY <1>5 DEF Collect, Held, Seen, Pinned, ObjectOf
  <2>2. o \notin Pinned /\ \A t \in Thread : o \notin Seen[t]
    BY <1>5 DEF Collect, Reached, Pinned, Seen
  <2>3. Contract!Collect(o)
    BY <1>5, <2>1, <2>2 DEF Collect, Contract!Collect
  <2>. QED
    BY <2>3 DEF Contract!Next
<1>6. ASSUME UNCHANGED <<gcs, safe, allocated, content, object, attached>> PROVE same
  BY <1>6 DEF Held, Seen, Pinned, ObjectOf
<1>7. ASSUME NEW t \in Thread, Free(t) PROVE [Contract!Next]_(Contract!contractVars)
  <2>. DEFINE r == task[t].root
              o == content[r]
  <2>1. /\ task[t] # Idle /\ allocated' = allocated \ {r} /\ content' = [content EXCEPT ![r] = Null]
        /\ UNCHANGED <<safe, gcs, attached, object>>
    BY <1>7 DEF Free, rest, Idle
  <2>2. r \in Root /\ r \in allocated /\ o \in Object \cup {Null}
    BY <1>2, <2>1, TaskShape DEF Busy, TypeOK
  <2>3. \A h \in Handle : safe[h] # Null => safe[h].root \in allocated /\ safe[h].root # r
    BY <1>2, <2>1 DEF Busy, Shared
  <2>4. \A q \in Root : q # r => content'[q] = content[q]
    BY <1>2, <2>1 DEF TypeOK
  <2>5. UNCHANGED Held
    BY <1>2, <2>1, <2>3, <2>4, HeldStays, SafeShape
  <2>6. UNCHANGED Seen
    BY <2>1 DEF Seen
  <2>7. Pinned' = {content[q] : q \in allocated \ {r}} \ {Null}
    BY <1>2, <2>1, <2>4 DEF Pinned, TypeOK
  <2>8. CASE o = Null \/ \E q \in allocated \ {r} : content[q] = o
    <3>1. UNCHANGED Pinned
      BY <2>7, <2>8 DEF Pinned
    <3>. QED
      BY <1>4, <2>1, <2>5, <2>6, <3>1
  <2>9. CASE o # Null /\ \A q \in allocated \ {r} : content[q] # o
    <3>1. Pinned' = Pinned \ {o}
      BY <2>2, <2>7, <2>9 DEF Pinned
    <3>2. ~Contract!Held(o)
      <4>1. SUFFICES ASSUME NEW h \in Handle, Held[h] # Null, Held[h].obj = o PROVE FALSE
        BY DEF Contract!Held
      <4>2. safe[h] # Null /\ Held[h] = [by |-> safe[h].by, obj |-> ObjectOf(h)]
        BY <1>2, <4>1, HeldShape
      <4>3. content[safe[h].root] = o
        BY <4>1, <4>2 DEF ObjectOf
      <4>. QED
        BY <2>3, <2>9, <4>2, <4>3
    <3>3. Contract!Unpin(o)
      BY <2>1, <2>5, <2>6, <3>1, <3>2 DEF Contract!Unpin
    <3>. QED
      BY <2>2, <2>9, <3>3 DEF Contract!Next
  <2>. QED
    BY <2>8, <2>9
<1>8. ASSUME NEW t \in Thread, NEW o \in Object, NewObject(t, o) PROVE [Contract!Next]_(Contract!contractVars)
  <2>1. t \in attached
    BY <1>2, <1>8, ManagedIsSeen DEF NewObject, CanRun
  <2>2. Seen' = [Seen EXCEPT ![t] = @ \cup {o}]
    BY <1>2, <1>8, <2>1 DEF NewObject, Seen, TypeOK
  <2>3. UNCHANGED <<Held, Pinned>>
    BY <1>8 DEF NewObject, Held, Pinned, ObjectOf
  <2>4. Contract!Create(t, o)
    BY <1>8, <2>2, <2>3 DEF NewObject, Contract!Create
  <2>. QED
    BY <2>4 DEF Contract!Next
<1>9. ASSUME NEW t \in Thread, NEW os \in SUBSET Object,
             gcs' = [gcs EXCEPT ![t] = @ \ os], UNCHANGED <<safe, allocated, content, object, attached>>
      PROVE  [Contract!Next]_(Contract!contractVars)
  <2>1. Seen' = [Seen EXCEPT ![t] = @ \ os]
    BY <1>2, <1>9 DEF Seen, TypeOK
  <2>2. UNCHANGED <<Held, Pinned>>
    BY <1>9 DEF Held, Pinned, ObjectOf
  <2>3. Contract!Forget(t, os)
    BY <1>9, <2>1, <2>2 DEF Contract!Forget
  <2>. QED
    BY <2>3 DEF Contract!Next
<1>10. ASSUME NEW t \in Thread, NEW r \in Root, New(t, r) PROVE [Contract!Next]_(Contract!contractVars)
  <2>1. PICK o \in gcs[t] : Allocate(t, r, o)
    BY <1>10 DEF New
  <2>2. UNCHANGED <<gcs, safe, content, object, attached>>
    BY <1>10 DEF New, rest
  <2>3. UNCHANGED <<Held, Seen>>
    BY <2>2 DEF Held, Seen, ObjectOf
  <2>. QED
    BY <1>2, <1>4, <2>1, <2>2, <2>3, PinnedByNew
<1>11. ASSUME NEW t \in Thread, NEW h \in Handle, NEW r \in Root, Cast(t, h, r)
       PROVE  [Contract!Next]_(Contract!contractVars)
  <2>1. Allocate(t, r, ObjectOf(h)) /\ UNCHANGED <<gcs, safe, content, object, attached>>
    BY <1>11 DEF Cast, rest
  <2>2. UNCHANGED <<Held, Seen>>
    BY <2>1 DEF Held, Seen, ObjectOf
  <2>. QED
    BY <1>2, <1>4, <2>1, <2>2, PinnedByNew
<1>12. ASSUME NEW t \in Thread, NEW h \in Handle, Write(t, h) PROVE [Contract!Next]_(Contract!contractVars)
  <2>. DEFINE r == task[t].root
              o == task[t].obj
  <2>1. /\ task[t].op = "write" /\ task[t] # Idle /\ safe[h] = Null
        /\ safe' = [safe EXCEPT ![h] = [by |-> t, root |-> r]]
        /\ content' = [content EXCEPT ![r] = o]
        /\ UNCHANGED <<gcs, allocated, object, attached>>
    BY <1>12 DEF Write, Idle, rest
  <2>2. r \in Root /\ r \in allocated /\ o \in Object /\ content[r] = Null
    BY <1>2, <2>1, TaskShape DEF Busy, Blank
  <2>3. content'[r] = o /\ \A q \in Root : q # r => content'[q] = content[q]
    BY <1>2, <2>1, <2>2 DEF TypeOK
  <2>4. Pinned' = Pinned \cup {o}
    BY <1>2, <2>1, <2>2, <2>3, GcAssumption DEF Pinned, TypeOK
  <2>5. safe'[h] = [by |-> t, root |-> r] /\ \A g \in Handle : g # h => safe'[g] = safe[g]
    BY <1>2, <2>1 DEF TypeOK
  <2>6. safe'[h] # Null
    BY <2>2, <2>5, GcAssumption DEF SafePtr
  <2>7. Held'[h] = [by |-> t, obj |-> o]
    BY <2>3, <2>5, <2>6 DEF Held, ObjectOf
  <2>8. ASSUME NEW g \in Handle, g # h PROVE Held'[g] = Held[g]
    <3>1. safe[g] # Null => safe[g].root \in Root /\ safe[g].root # r
      BY <1>2, <2>1, SafeShape DEF Busy
    <3>. QED
      BY <2>3, <2>5, <2>8, <3>1 DEF Held, ObjectOf
  <2>9. Held' = [Held EXCEPT ![h] = [by |-> t, obj |-> o]]
    BY <2>7, <2>8 DEF Held
  <2>10. UNCHANGED Seen
    BY <2>1 DEF Seen
  <2>11. Held[h] = Null
    BY <2>1 DEF Held
  <2>12. \/ o \in Seen[t] \/ Contract!Holds(t, o)
         \/ GcLeaves # {} /\ object[o] # "unborn"
    <3>1. CASE GcLeaves # {}
      BY <1>2, <2>1, <3>1 DEF Born
    <3>2. CASE GcLeaves = {}
      <4>1. CASE o \in gcs[t]
        BY <1>3, <3>2, <4>1 DEF Stacks, Seen
      <4>2. CASE \E g \in Handle : safe[g] # Null /\ safe[g].by = t /\ content[safe[g].root] = o
        BY <1>2, <4>2, HeldShape DEF Contract!Holds, ObjectOf
      <4>. QED
        BY <1>3, <2>1, <3>2, <4>1, <4>2 DEF Rooting
    <3>. QED
      BY <3>1, <3>2
  <2>13. Contract!Hold(t, h, o)
    BY <2>1, <2>4, <2>9, <2>10, <2>11, <2>12 DEF Contract!Hold
  <2>. QED
    BY <2>2, <2>13 DEF Contract!Next
<1>13. ASSUME NEW t \in Thread, NEW h \in Handle, as_weak(t, h) PROVE [Contract!Next]_(Contract!contractVars)
  <2>1. t \in attached
    BY <1>2, <1>13, ManagedIsSeen DEF as_weak, CanRun
  <2>2. ObjectOf(h) \in Object /\ Contract!Holds(t, ObjectOf(h))
    BY <1>2, <1>13, HeldShape DEF as_weak, Mine, Contract!Holds, Shared, ObjectOf
  <2>3. Seen' = [Seen EXCEPT ![t] = @ \cup {ObjectOf(h)}]
    BY <1>2, <1>13, <2>1 DEF as_weak, Seen, TypeOK, rest
  <2>4. UNCHANGED <<Held, Pinned, object>>
    BY <1>13 DEF as_weak, Held, Pinned, ObjectOf, rest
  <2>5. Contract!Look(t, ObjectOf(h))
    BY <2>2, <2>3, <2>4 DEF Contract!Look
  <2>. QED
    BY <2>2, <2>5 DEF Contract!Next
<1>14. ASSUME NEW t \in Thread, NEW h \in Handle, Drop(t, h) PROVE [Contract!Next]_(Contract!contractVars)
  <2>1. safe' = [safe EXCEPT ![h] = Null] /\ UNCHANGED <<gcs, allocated, content, object, attached>>
    BY <1>14 DEF Drop, rest
  <2>2. Held' = [Held EXCEPT ![h] = Null]
    BY <1>2, <2>1 DEF Held, ObjectOf, TypeOK
  <2>3. UNCHANGED <<Seen, Pinned>>
    BY <2>1 DEF Seen, Pinned
  <2>4. Contract!Drop(h)
    BY <2>1, <2>2, <2>3 DEF Contract!Drop
  <2>. QED
    BY <2>4 DEF Contract!Next
<1>15. ASSUME NEW t \in Thread, NEW h \in Handle, NEW g \in Handle, Clone(t, h, g)
       PROVE  [Contract!Next]_(Contract!contractVars)
  <2>1. /\ safe[h] # Null /\ safe[g] = Null /\ safe' = [safe EXCEPT ![g] = safe[h]]
        /\ UNCHANGED <<gcs, allocated, content, object, attached>>
    BY <1>15 DEF Clone, Mine, rest
  <2>2. Held' = [Held EXCEPT ![g] = Held[h]]
    BY <1>2, <2>1 DEF Held, ObjectOf, TypeOK
  <2>3. Held[h] # Null /\ Held[g] = Null
    BY <1>2, <2>1, HeldShape
  <2>4. UNCHANGED <<Seen, Pinned>>
    BY <2>1 DEF Seen, Pinned
  <2>5. Contract!Share(h, g)
    BY <2>1, <2>2, <2>3, <2>4 DEF Contract!Share
  <2>. QED
    BY <2>5 DEF Contract!Next
\* SafePtrs or Gcs that reach thread u.
<1>16. ASSUME NEW u \in Thread, NEW hs \in SUBSET Handle, NEW os \in SUBSET Object,
              \A h \in hs : safe[h] # Null,
              safe' = [h \in Handle |-> IF h \in hs THEN [safe[h] EXCEPT !.by = u] ELSE safe[h]],
              UNCHANGED <<allocated, content, object>>,
              Seen' = [Seen EXCEPT ![u] = @ \cup os],
              os # {} => GcLeaves # {},
              \A o \in os : object[o] # "unborn"
       PROVE  [Contract!Next]_(Contract!contractVars)
  <2>1. /\ Held' = [h \in Handle |-> IF h \in hs THEN [Held[h] EXCEPT !.by = u] ELSE Held[h]]
        /\ \A h \in hs : Held[h] # Null
    BY <1>2, <1>16, HeldMoves
  <2>2. UNCHANGED Pinned
    BY <1>16 DEF Pinned
  <2>3. Contract!Deliver(u, hs, os)
    BY <1>16, <2>1, <2>2 DEF Contract!Deliver
  <2>. QED
    BY <2>3 DEF Contract!Next
<1>17. ASSUME NEW t \in Thread, NEW u \in Thread, NEW h \in Handle, Send(t, u, h)
       PROVE  [Contract!Next]_(Contract!contractVars)
  <2>1. /\ safe[h] # Null /\ safe' = [safe EXCEPT ![h].by = u]
        /\ UNCHANGED <<gcs, allocated, content, object, attached>>
    BY <1>17 DEF Send, Mine, rest
  <2>2. safe' = [k \in Handle |-> IF k \in {h} THEN [safe[k] EXCEPT !.by = u] ELSE safe[k]]
    BY <1>2, <2>1 DEF TypeOK
  <2>3. Seen' = [Seen EXCEPT ![u] = @ \cup {}]
    BY <2>1 DEF Seen
  <2>4. {h} \in SUBSET Handle /\ {} \in SUBSET Object /\ \A k \in {h} : safe[k] # Null
    BY <2>1
  <2>. QED
    BY <1>16, <2>1, <2>2, <2>3, <2>4
<1>18. ASSUME NEW t \in Thread, NEW w \in Worker, NEW hs \in SUBSET Handle,
              NEW os \in SUBSET Object, Spawn(t, w, hs, os)
       PROVE  [Contract!Next]_(Contract!contractVars)
  <2>1. /\ w \in Thread /\ w \notin attached /\ \A h \in hs : safe[h] # Null
        /\ safe' = [h \in Handle |-> IF h \in hs THEN [safe[h] EXCEPT !.by = w] ELSE safe[h]]
        /\ gcs' = [gcs EXCEPT ![w] = os]
        /\ UNCHANGED <<attached, allocated, content, object>>
    BY <1>2, <1>18 DEF Spawn, Mine, Thread, Attending
  <2>2. Seen' = [Seen EXCEPT ![w] = @ \cup {}]
    BY <1>2, <2>1 DEF Seen, TypeOK
  <2>3. {} \in SUBSET Object
    OBVIOUS
  <2>. QED
    BY <1>16, <2>1, <2>2, <2>3
<1>19. ASSUME NEW t \in Thread, NEW w \in Worker, Join(t, w) PROVE [Contract!Next]_(Contract!contractVars)
  <2>1. /\ w \in Thread /\ w \notin attached /\ t # w
        /\ safe' = [h \in Handle |-> IF h \in Mine(w) THEN [safe[h] EXCEPT !.by = t] ELSE safe[h]]
        /\ gcs' = [gcs EXCEPT ![t] = @ \cup gcs[w], ![w] = {}]
        /\ UNCHANGED <<attached, allocated, content, object>>
    BY <1>2, <1>19 DEF Join, CanRun, Thread, Attending
  <2>2. Mine(w) \in SUBSET Handle /\ \A h \in Mine(w) : safe[h] # Null
    BY DEF Mine
  <2>. DEFINE os == IF t \in attached THEN gcs[w] ELSE {}
  <2>3. gcs[w] \in SUBSET Object /\ os \in SUBSET Object
    BY <1>2, <2>1 DEF TypeOK
  <2>4. Seen' = [Seen EXCEPT ![t] = @ \cup os]
    BY <1>2, <2>1 DEF Seen, TypeOK
  <2>5. os # {} => GcLeaves # {}
    BY <1>3, <2>1, <2>3 DEF Stacks
  <2>6. \A o \in os : object[o] # "unborn"
    BY <1>2, <2>1, <2>3 DEF Born
  <2>. HIDE DEF os
  <2>. QED
    BY <1>16, <2>1, <2>2, <2>3, <2>4, <2>5, <2>6
\* A thread that begins to be one the collector looks at, with the Gcs that reached it before.
<1>20. ASSUME NEW w \in Thread, w \notin attached, attached' = attached \cup {w},
              UNCHANGED <<gcs, safe, allocated, content, object>>
       PROVE  [Contract!Next]_(Contract!contractVars)
  <2>1. gcs[w] \in SUBSET Object /\ gcs[w] # {} => GcLeaves # {}
    BY <1>3, <1>20 DEF Stacks
  <2>2. Seen' = [Seen EXCEPT ![w] = @ \cup gcs[w]]
    BY <1>2, <1>20 DEF Seen, TypeOK
  <2>3. safe' = [h \in Handle |-> IF h \in {} THEN [safe[h] EXCEPT !.by = w] ELSE safe[h]]
    BY <1>2, <1>20 DEF TypeOK
  <2>4. gcs[w] \in SUBSET Object /\ \A o \in gcs[w] : object[o] # "unborn"
    BY <1>2 DEF TypeOK, Born
  <2>5. {} \in SUBSET Handle /\ \A h \in {} : safe[h] # Null
    OBVIOUS
  <2>. QED
    BY <1>16, <1>20, <2>1, <2>2, <2>3, <2>4, <2>5
<1>21. ASSUME NEW w \in Worker, Attach(w) PROVE [Contract!Next]_(Contract!contractVars)
  BY <1>2, <1>20, <1>21 DEF Attach, Attending, Thread
<1>22. ASSUME NEW p \in Plain, attached_invoke(p) PROVE [Contract!Next]_(Contract!contractVars)
  <2>1. p \in Thread \ attached /\ UNCHANGED <<gcs, safe, allocated, content, object>>
        /\ (attached' = attached \cup {p} \/ attached' = attached)
    BY <1>22 DEF attached_invoke, Thread
  <2>. QED
    BY <1>4, <1>6, <1>20, <2>1
\* A thread that forgets, and may be detached with it.
<1>23. ASSUME NEW t \in Thread, NEW os \in SUBSET Object, Seen' = [Seen EXCEPT ![t] = @ \ os],
              UNCHANGED <<safe, allocated, content, object>>
       PROVE  [Contract!Next]_(Contract!contractVars)
  <2>1. UNCHANGED <<Held, Pinned>>
    BY <1>23 DEF Held, Pinned, ObjectOf
  <2>2. Contract!Forget(t, os)
    BY <1>23, <2>1 DEF Contract!Forget
  <2>. QED
    BY <2>2 DEF Contract!Next
<1>24. ASSUME NEW w \in Thread, NEW os \in SUBSET Object, ReturnFrom(w, os)
       PROVE  [Contract!Next]_(Contract!contractVars)
  <2>1. Seen' = [Seen EXCEPT ![w] = @ \ (gcs[w] \ os)] /\ gcs[w] \ os \in SUBSET Object
    BY <1>2, <1>24 DEF ReturnFrom, Seen, TypeOK
  <2>. QED
    BY <1>23, <1>24, <2>1 DEF ReturnFrom
<1>25. ASSUME NEW t \in Thread, Unwound(t) PROVE [Contract!Next]_(Contract!contractVars)
  <2>1. Seen' = [Seen EXCEPT ![t] = @ \ gcs[t]] /\ gcs[t] \in SUBSET Object
    BY <1>2, <1>25 DEF Unwound, Seen, TypeOK
  <2>. QED
    BY <1>23, <1>25, <2>1 DEF Unwound
<1>26. ASSUME NEW t \in Thread, attached' = attached \ {t},
              \A u \in Thread : u # t => gcs'[u] = gcs[u],
              UNCHANGED <<safe, allocated, content, object>>
       PROVE  [Contract!Next]_(Contract!contractVars)
  <2>1. Seen' = [Seen EXCEPT ![t] = @ \ gcs[t]] /\ gcs[t] \in SUBSET Object
    BY <1>2, <1>26 DEF Seen, TypeOK
  <2>. QED
    BY <1>23, <1>26, <2>1
<1>27. ASSUME NEW t \in Thread, NEW os \in SUBSET Object, Detach(t) \/ InvokeReturns(t, os)
       PROVE  [Contract!Next]_(Contract!contractVars)
  <2>1. /\ attached' = attached \ {t} /\ UNCHANGED <<safe, allocated, content, object>>
        /\ \A u \in Thread : u # t => gcs'[u] = gcs[u]
    BY <1>2, <1>27 DEF Detach, InvokeReturns, TypeOK
  <2>. QED
    BY <1>26, <2>1
<1>28. ASSUME NEW t \in Thread, NEW o \in Object, ForgetGc(t, o) PROVE [Contract!Next]_(Contract!contractVars)
  <2>1. gcs' = [gcs EXCEPT ![t] = @ \ {o}] /\ UNCHANGED <<safe, allocated, content, object, attached>>
    BY <1>28 DEF ForgetGc, rest
  <2>. QED
    BY <1>9, <2>1
<1>29. CASE \/ UNCHANGED vars
            \/ \E t \in Thread : xref_init(t) \/ NewPanics(t) \/ AllocFails(t)
            \/ \E w \in Worker : AttachFails(w) \/ Abandon(w)
  <2>1. UNCHANGED <<gcs, safe, allocated, content, object, attached>>
    BY <1>29 DEF vars, xref_init, NewPanics, AllocFails, AttachFails, Abandon
  <2>. QED
    BY <1>4, <1>6, <2>1
<1>30. Worker \subseteq Thread /\ Plain \subseteq Thread
  BY DEF Thread
<1>31. CASE \E t \in Thread :
              \/ Free(t) \/ Unwound(t)
              \/ \E o \in Object : NewObject(t, o) \/ ForgetGc(t, o)
              \/ \E r \in Root : New(t, r)
              \/ \E h \in Handle, r \in Root : Cast(t, h, r)
              \/ \E h \in Handle : Write(t, h) \/ as_weak(t, h) \/ Drop(t, h)
              \/ \E h \in Handle, g \in Handle : Clone(t, h, g)
              \/ \E u \in Thread, h \in Handle : Send(t, u, h)
  BY <1>7, <1>8, <1>10, <1>11, <1>12, <1>13, <1>14, <1>15, <1>17, <1>25, <1>28, <1>31
<1>32. CASE \E t \in Thread :
              \/ \E w \in Worker, hs \in SUBSET Handle, os \in SUBSET Object : Spawn(t, w, hs, os)
              \/ \E w \in Worker : Join(t, w)
              \/ Detach(t)
  BY <1>18, <1>19, <1>27, <1>32
<1>33. CASE \/ \E w \in Worker : Attach(w) \/ \E os \in SUBSET Object : ReturnFrom(w, os)
            \/ \E p \in Plain : attached_invoke(p) \/ \E os \in SUBSET Object : InvokeReturns(p, os)
  BY <1>21, <1>22, <1>24, <1>27, <1>30, <1>33
<1>. QED
  BY <1>1, <1>5, <1>29, <1>31, <1>32, <1>33 DEF Next

(***************************************************************************)
(* SafePtr keeps the whole of its promise, in every program, those that    *)
(* carry Gcs about included: the object of a SafePtr is pinned from when   *)
(* the SafePtr is made until after the last one of the object is gone,     *)
(* whichever threads have them, and what is pinned, or on an attached      *)
(* stack, is not collected (gc_alloc.rs:63-77).                            *)
(***************************************************************************)
THEOREM SafePtrKeepsContract == Spec => KeepsContract
<1>. QED
  BY InitContract, SpecPins, StepContract, PTL DEF Spec, KeepsContract, Contract!Spec

(***************************************************************************)
(* The contract is enough for its users, whoever keeps it: what a SafePtr  *)
(* holds is pinned, and where no Gc is carried about, all that is pinned   *)
(* and all that a thread sees is alive.                                    *)
(***************************************************************************)
THEOREM ContractKeepsAlive == KeepsContract => []Contract!KeepsAlive
<1>. DEFINE Inv == Contract!TypeOK /\ Contract!KeepsAlive
<1>1. Contract!Init => Inv
  BY DEF Contract!Init, Contract!TypeOK, Contract!KeepsAlive, Contract!Pins, Contract!Alive
<1>2. ASSUME Inv, [Contract!Next]_(Contract!contractVars) PROVE Inv'
  <2>1. /\ Held \in [Handle -> [by : Thread, obj : Object] \cup {Null}]
        /\ Seen \in [Thread -> SUBSET Object]
        /\ Pinned \in SUBSET Object
        /\ object \in [Object -> {"unborn", "live", "collected"}]
        /\ \A h \in Handle : Held[h] # Null => Held[h].obj \in Pinned
    BY <1>2 DEF Contract!TypeOK, Contract!KeepsAlive, Contract!Pins
  <2>2. GcLeaves = {} => /\ \A o \in Pinned : object[o] = "live"
                         /\ \A t \in Thread : \A o \in Seen[t] : object[o] = "live"
    BY <1>2 DEF Contract!KeepsAlive, Contract!Alive
  <2>. DEFINE Goal ==
         /\ Held' \in [Handle -> [by : Thread, obj : Object] \cup {Null}]
         /\ Seen' \in [Thread -> SUBSET Object]
         /\ Pinned' \in SUBSET Object
         /\ object' \in [Object -> {"unborn", "live", "collected"}]
         /\ \A h \in Handle : Held'[h] # Null => Held'[h].obj \in Pinned'
         /\ GcLeaves = {} => /\ \A o \in Pinned' : object'[o] = "live"
                             /\ \A t \in Thread : \A o \in Seen'[t] : object'[o] = "live"
  <2>3. SUFFICES Goal
    BY DEF Contract!TypeOK, Contract!KeepsAlive, Contract!Pins, Contract!Alive
  <2>4. ASSUME NEW t \in Thread, NEW o \in Object, Contract!Create(t, o) PROVE Goal
    BY <2>1, <2>2, <2>4 DEF Contract!Create
  <2>5. ASSUME NEW t \in Thread, NEW o \in Object, Contract!Look(t, o) PROVE Goal
    <3>1. o \in Pinned
      BY <2>1, <2>5 DEF Contract!Look, Contract!Holds
    <3>. QED
      BY <2>1, <2>2, <2>5, <3>1 DEF Contract!Look
  <2>6. ASSUME NEW t \in Thread, NEW os \in SUBSET Object, Contract!Forget(t, os) PROVE Goal
    BY <2>1, <2>2, <2>6 DEF Contract!Forget
  <2>7. ASSUME NEW t \in Thread, NEW h \in Handle, NEW o \in Object, Contract!Hold(t, h, o) PROVE Goal
    <3>1. GcLeaves = {} => object[o] = "live"
      <4>1. Contract!Holds(t, o) => o \in Pinned
        BY <2>1 DEF Contract!Holds
      <4>. QED
        BY <2>2, <2>7, <4>1 DEF Contract!Hold
    <3>2. /\ Held' = [Held EXCEPT ![h] = [by |-> t, obj |-> o]] /\ Pinned' = Pinned \cup {o}
          /\ UNCHANGED <<Seen, object>>
      BY <2>7 DEF Contract!Hold
    <3>3. [by |-> t, obj |-> o] \in [by : Thread, obj : Object]
      OBVIOUS
    <3>4. \A g \in Handle : Held'[g] # Null => Held'[g].obj \in Pinned'
      BY <2>1, <3>2, <3>3
    <3>. QED
      BY <2>1, <2>2, <3>1, <3>2, <3>3, <3>4
  <2>8. ASSUME NEW h \in Handle, NEW g \in Handle, Contract!Share(h, g) PROVE Goal
    <3>1. /\ Held[h] # Null /\ Held' = [Held EXCEPT ![g] = Held[h]]
          /\ UNCHANGED <<Seen, Pinned, object>>
      BY <2>8 DEF Contract!Share
    <3>. QED
      BY <2>1, <2>2, <3>1
  <2>9. ASSUME NEW t \in Thread, NEW hs \in SUBSET Handle, NEW os \in SUBSET Object,
               Contract!Deliver(t, hs, os)
        PROVE  Goal
    <3>1. /\ \A h \in hs : Held[h] # Null
          /\ os # {} => GcLeaves # {}
          /\ Held' = [h \in Handle |-> IF h \in hs THEN [Held[h] EXCEPT !.by = t] ELSE Held[h]]
          /\ Seen' = [Seen EXCEPT ![t] = @ \cup os]
          /\ UNCHANGED <<Pinned, object>>
      BY <2>9 DEF Contract!Deliver
    <3>2. \A h \in hs : /\ Held'[h] \in [by : Thread, obj : Object]
                        /\ Held'[h].obj = Held[h].obj
      BY <2>1, <3>1
    <3>3. \A h \in Handle \ hs : Held'[h] = Held[h]
      BY <3>1
    <3>4. Held' \in [Handle -> [by : Thread, obj : Object] \cup {Null}]
      BY <2>1, <3>1, <3>2, <3>3
    <3>5. \A h \in Handle : Held'[h] # Null => Held'[h].obj \in Pinned'
      BY <2>1, <3>1, <3>2, <3>3
    <3>6. Seen' \in [Thread -> SUBSET Object] /\ (GcLeaves = {} => Seen' = Seen)
      BY <2>1, <3>1
    <3>. QED
      BY <2>1, <2>2, <3>1, <3>4, <3>5, <3>6
  <2>10. ASSUME NEW h \in Handle, Contract!Drop(h) PROVE Goal
    <3>1. Held' = [Held EXCEPT ![h] = Null] /\ UNCHANGED <<Seen, Pinned, object>>
      BY <2>10 DEF Contract!Drop
    <3>. QED
      BY <2>1, <2>2, <3>1
  <2>11. ASSUME NEW o \in Object, Contract!Unpin(o) PROVE Goal
    <3>1. /\ \A h \in Handle : Held[h] # Null => Held[h].obj # o
          /\ Pinned' = Pinned \ {o} /\ UNCHANGED <<Held, Seen, object>>
      BY <2>11 DEF Contract!Unpin, Contract!Held
    <3>. QED
      BY <2>1, <2>2, <3>1
  <2>12. ASSUME NEW o \in Object, Contract!Collect(o) PROVE Goal
    BY <2>1, <2>2, <2>12 DEF Contract!Collect
  <2>13. CASE UNCHANGED Contract!contractVars
    <3>1. UNCHANGED <<Held, Seen, Pinned, object>>
      BY <2>13 DEF Contract!contractVars
    <3>. QED
      BY <2>1, <2>2, <3>1
  <2>. HIDE DEF Goal
  <2>. QED
    BY <1>2, <2>4, <2>5, <2>6, <2>7, <2>8, <2>9, <2>10, <2>11, <2>12, <2>13 DEF Contract!Next
<1>3. Inv => Contract!KeepsAlive
  OBVIOUS
<1>. HIDE DEF Inv
<1>. QED
  BY <1>1, <1>2, <1>3, PTL DEF KeepsContract, Contract!Spec
=============================================================================
