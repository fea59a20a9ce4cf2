----------------------------- MODULE GcPointers -----------------------------
(***************************************************************************)
(* What keeps a managed object alive while Rust code uses it:              *)
(*   - Gc<T> (libil2cpp/src/gc.rs), a plain pointer that counts as a       *)
(*     reference only where the collector looks, the stacks of the threads *)
(*     attached to il2cpp;                                                 *)
(*   - SafePtr<T> (gc_alloc.rs), an Arc of such a pointer in an allocation *)
(*     of gc_alloc_fixed, which the collector scans until it is freed;     *)
(*   - spawn_attached and attached_invoke (thread.rs), which attach a new  *)
(*     thread, or one that is not attached, while it runs a closure.       *)
(*                                                                         *)
(* External: the collector, gc_alloc_fixed and gc_free_fixed, which the    *)
(* library calls through the pointers in GcFunctions; std's Arc, which     *)
(* frees the allocation with its last handle; std's thread and JoinHandle, *)
(* which keep the closure before it runs, and its result after, on the     *)
(* Rust heap, where no collector looks (README.md:98).                     *)
(*                                                                         *)
(* `cast` that fails, the comparisons and the dereferences change nothing. *)
(***************************************************************************)
CONSTANTS
  Game,     \* threads of the game, attached before the library runs on them
  Worker,   \* threads the program starts with spawn_attached, each at most once
  Plain,    \* other threads, not attached but inside attached_invoke
  Object,   \* bound: the managed objects that are created, none twice
  Root,     \* bound: the allocations of gc_alloc_fixed there are at a time
  Handle,   \* bound: the SafePtrs there are at a time
  Null,
  GcLeaves  \* where the program lets a Gc leave the stack it is on, which
            \* Gc's Send impl allows: with the closure it spawns ("spawn"),
            \* with what a closure returns ("join")

Thread == Game \cup Worker \cup Plain

SafePtr == [by : Thread, root : Root]

Spawned == Worker \cup Plain    \* threads that a panic ends, and not the process

ASSUME GcAssumption ==
  /\ Game \cap Worker = {} /\ Game \cap Plain = {} /\ Worker \cap Plain = {}
  /\ Null \notin Object \cup Root \cup SafePtr \cup [by : Thread, obj : Object]
  /\ GcLeaves \subseteq {"spawn", "join"}

VARIABLES
  ready,      \* GC_FUNCTIONS is set, with both functions resolved
  state,      \* where each thread is in its life
  attached,   \* the threads il2cpp knows
  gcs,        \* the objects a thread has Gcs of: on its stack while it runs,
              \* in its closure before, in its result after
  safe,       \* each SafePtr: whose it is and the Arc it shares
  allocated,  \* the fixed allocations
  content,    \* the object an allocation points at, Null until it is written
  task,       \* what a thread is doing inside SafePtr::new or Arc's drop
  object,     \* the life of each managed object
  aborted     \* the process is gone

vars == <<ready, state, attached, gcs, safe, allocated, content, task, object, aborted>>

Idle == [op |-> "idle", root |-> Null, obj |-> Null]
Tasks == {Idle} \cup [op : {"write"}, root : Root, obj : Object]
                \cup [op : {"free"}, root : Root, obj : {Null}]

ThreadState == {"idle", "spawned", "running", "unwinding", "leaving", "returned", "done"}

(***************************************************************************)
(* Every variable has its type; in particular a SafePtr in the making      *)
(* points at an object, never at null.                                     *)
(***************************************************************************)
TypeOK ==
  /\ ready \in BOOLEAN
  /\ state \in [Thread -> ThreadState]
  /\ \A t \in Game : state[t] = "running"
  /\ attached \in SUBSET Thread
  /\ gcs \in [Thread -> SUBSET Object]
  /\ safe \in [Handle -> SafePtr \cup {Null}]
  /\ allocated \in SUBSET Root
  /\ content \in [Root -> Object \cup {Null}]
  /\ task \in [Thread -> Tasks]
  /\ object \in [Object -> {"unborn", "live", "collected"}]
  /\ aborted \in BOOLEAN

Init ==
  /\ ready = FALSE
  /\ state = [t \in Thread |-> IF t \in Worker THEN "idle" ELSE "running"]
  /\ attached = Game
  /\ gcs = [t \in Thread |-> {}]
  /\ safe = [h \in Handle |-> Null]
  /\ allocated = {}
  /\ content = [r \in Root |-> Null]
  /\ task = [t \in Thread |-> Idle]
  /\ object = [o \in Object |-> "unborn"]
  /\ aborted = FALSE

Mine(t) == {h \in Handle : safe[h] # Null /\ safe[h].by = t}
Sharing(r) == {h \in Handle : safe[h] # Null /\ safe[h].root = r}
ObjectOf(h) == content[safe[h].root]

\* The threads whose code may get Gcs: those of the game, and those that think
\* they are attached (thread.rs:7-12).
Managed == Game \cup Worker \cup attached

CanRun(t) == ~aborted /\ state[t] = "running" /\ task[t] = Idle

rest == <<ready, state, attached, object, aborted>>

-----------------------------------------------------------------------------
(***************************************************************************)
(* The runtime and its collector.                                          *)
(***************************************************************************)
\* xref_init: GC_FUNCTIONS is a OnceLock, later calls change nothing.
xref_init(t) ==
  /\ t \in Game /\ CanRun(t)
  /\ ready' = TRUE
  /\ UNCHANGED <<state, attached, gcs, safe, allocated, content, task, object, aborted>>

\* A call into il2cpp answers a Gc of an object, here a new one.
NewObject(t, o) ==
  /\ t \in Managed /\ CanRun(t)
  /\ object[o] = "unborn"
  /\ object' = [object EXCEPT ![o] = "live"]
  /\ gcs' = [gcs EXCEPT ![t] = @ \cup {o}]
  /\ UNCHANGED <<ready, state, attached, safe, allocated, content, task, aborted>>

\* A local goes out of scope; Gc is Copy and has no drop.
ForgetGc(t, o) ==
  /\ CanRun(t)
  /\ o \in gcs[t]
  /\ gcs' = [gcs EXCEPT ![t] = @ \ {o}]
  /\ UNCHANGED <<rest, safe, allocated, content, task>>

Reached ==
  (UNION {gcs[t] \cup {task[t].obj} : t \in attached}) \cup {content[r] : r \in allocated}

Collect(o) ==
  /\ ~aborted
  /\ object[o] = "live" /\ o \notin Reached
  /\ object' = [object EXCEPT ![o] = "collected"]
  /\ UNCHANGED <<ready, state, attached, gcs, safe, allocated, content, task, aborted>>

-----------------------------------------------------------------------------
(***************************************************************************)
(* SafePtr.  Making one allocates, then writes the pointer; dropping one   *)
(* gives its share up, and whoever gave up the last frees the allocation.  *)
(***************************************************************************)
Allocate(t, r, o) ==
  /\ r \notin allocated
  /\ allocated' = allocated \cup {r}
  /\ task' = [task EXCEPT ![t] = [op |-> "write", root |-> r, obj |-> o]]

\* Slip: SafePtr::new without its null check.
NewUnchecked(t, r) ==
  /\ ready /\ CanRun(t)
  /\ \E o \in gcs[t] \cup {Null} : Allocate(t, r, o)
  /\ UNCHANGED <<rest, gcs, safe, content>>

\* The Gc is on the thread's own stack, so the thread is one of Managed.
New(t, r) ==
  /\ ready /\ CanRun(t)
  /\ \E o \in gcs[t] : Allocate(t, r, o)
  /\ UNCHANGED <<rest, gcs, safe, content>>

\* A null pointer, or a GcAllocator that is not there yet: `expect` panics.
\* A thread of the game is inside an `extern "C"` function, which aborts.
NewPanics(t) ==
  /\ t \in Managed /\ CanRun(t)
  /\ \E p \in gcs[t] \cup {Null} : p = Null \/ ~ready
  /\ IF t \in Spawned THEN state' = [state EXCEPT ![t] = "unwinding"] /\ UNCHANGED aborted
                      ELSE aborted' = TRUE /\ UNCHANGED state
  /\ UNCHANGED <<ready, attached, gcs, safe, allocated, content, task, object>>

\* gc_alloc_fixed answers null: AllocError, and Arc::new_in aborts.
AllocFails(t) ==
  /\ ready /\ CanRun(t)
  /\ gcs[t] # {} \/ Mine(t) # {}
  /\ aborted' = TRUE
  /\ UNCHANGED <<ready, state, attached, gcs, safe, allocated, content, task, object>>

Write(t, h) ==
  /\ ~aborted
  /\ task[t].op = "write"
  /\ safe[h] = Null
  /\ content' = [content EXCEPT ![task[t].root] = task[t].obj]
  /\ safe' = [safe EXCEPT ![h] = [by |-> t, root |-> task[t].root]]
  /\ task' = [task EXCEPT ![t] = Idle]
  /\ UNCHANGED <<rest, gcs, allocated>>

\* Slip: a cast that takes the SafePtr by value, its root gone before the
\* new one is made.
CastConsumes(t, h, r) ==
  /\ CanRun(t)
  /\ h \in Mine(t)
  /\ r \notin allocated
  /\ allocated' = (IF Sharing(safe[h].root) = {h} THEN allocated \ {safe[h].root}
                                                  ELSE allocated) \cup {r}
  /\ task' = [task EXCEPT ![t] = [op |-> "write", root |-> r, obj |-> ObjectOf(h)]]
  /\ safe' = [safe EXCEPT ![h] = Null]
  /\ UNCHANGED <<rest, gcs, content>>

\* type_cast, and cast when the object's class allows it: a root of its own
\* for the same object, while the SafePtr it is made from is borrowed.
Cast(t, h, r) ==
  /\ CanRun(t)
  /\ h \in Mine(t)
  /\ Allocate(t, r, ObjectOf(h))
  /\ UNCHANGED <<rest, gcs, safe, content>>

Clone(t, h, g) ==
  /\ CanRun(t)
  /\ h \in Mine(t)
  /\ safe[g] = Null
  /\ safe' = [safe EXCEPT ![g] = safe[h]]
  /\ UNCHANGED <<rest, gcs, allocated, content, task>>

\* Slip: the conversion to Gc moves the pointer out and never drops the Arc.
IntoWeakForgets(t, h) ==
  /\ t \in Managed /\ CanRun(t)
  /\ h \in Mine(t)
  /\ gcs' = [gcs EXCEPT ![t] = @ \cup {ObjectOf(h)}]
  /\ safe' = [safe EXCEPT ![h] = Null]
  /\ UNCHANGED <<rest, allocated, content, task>>

\* as_weak; Gc::from(SafePtr) is this and then the drop of its argument.
as_weak(t, h) ==
  /\ t \in Managed /\ CanRun(t)
  /\ h \in Mine(t)
  /\ gcs' = [gcs EXCEPT ![t] = @ \cup {ObjectOf(h)}]
  /\ UNCHANGED <<rest, safe, allocated, content, task>>

\* SafePtr is Send: through a channel, a mutex, a static.
Send(t, u, h) ==
  /\ CanRun(t) /\ CanRun(u) /\ t # u
  /\ h \in Mine(t)
  /\ safe' = [safe EXCEPT ![h].by = u]
  /\ UNCHANGED <<rest, gcs, allocated, content, task>>

\* Slip: a SafePtr that owns its allocation though its clones share it.
DropFrees(t, h) ==
  /\ ~aborted
  /\ state[t] \in {"running", "unwinding"} /\ task[t] = Idle
  /\ h \in Mine(t)
  /\ safe' = [safe EXCEPT ![h] = Null]
  /\ task' = [task EXCEPT ![t] = [op |-> "free", root |-> safe[h].root, obj |-> Null]]
  /\ UNCHANGED <<rest, gcs, allocated, content>>

Drop(t, h) ==
  /\ ~aborted
  /\ state[t] \in {"running", "unwinding"} /\ task[t] = Idle
  /\ h \in Mine(t)
  /\ safe' = [safe EXCEPT ![h] = Null]
  /\ task' = IF Sharing(safe[h].root) = {h}
             THEN [task EXCEPT ![t] = [op |-> "free", root |-> safe[h].root, obj |-> Null]]
             ELSE task
  /\ UNCHANGED <<rest, gcs, allocated, content>>

\* GcAllocator::deallocate, on whichever thread dropped the last handle.
Free(t) ==
  /\ ~aborted
  /\ task[t].op = "free"
  /\ allocated' = allocated \ {task[t].root}
  /\ content' = [content EXCEPT ![task[t].root] = Null]
  /\ task' = [task EXCEPT ![t] = Idle]
  /\ UNCHANGED <<rest, gcs, safe>>

-----------------------------------------------------------------------------
(***************************************************************************)
(* spawn_attached: thread::spawn(|| { let _guard = attach(); f() }), and   *)
(* what the program does with the JoinHandle; attached_invoke elsewhere.   *)
(***************************************************************************)
Spawn(t, w, hs, os) ==
  /\ CanRun(t) /\ state[w] = "idle"
  /\ hs \subseteq Mine(t)
  /\ os \subseteq gcs[t]
  /\ os # {} => "spawn" \in GcLeaves
  /\ state' = [state EXCEPT ![w] = "spawned"]
  /\ gcs' = [gcs EXCEPT ![w] = os]
  /\ safe' = [h \in Handle |-> IF h \in hs THEN [safe[h] EXCEPT !.by = w] ELSE safe[h]]
  /\ UNCHANGED <<ready, attached, allocated, content, task, object, aborted>>

\* Slip: `let _ = attach()` drops the guard where it stands.
AttachUnguarded(w) ==
  /\ ~aborted /\ state[w] = "spawned"
  /\ state' = [state EXCEPT ![w] = "running"]
  /\ UNCHANGED <<ready, attached, gcs, safe, allocated, content, task, object, aborted>>

Attach(w) ==
  /\ ~aborted /\ state[w] = "spawned"
  /\ state' = [state EXCEPT ![w] = "running"]
  /\ attached' = attached \cup {w}
  /\ UNCHANGED <<ready, gcs, safe, allocated, content, task, object, aborted>>

\* il2cpp_thread_attach returned null: `expect` panics, with no guard yet.
AttachFails(w) ==
  /\ ~aborted /\ state[w] = "spawned"
  /\ state' = [state EXCEPT ![w] = "unwinding"]
  /\ UNCHANGED <<ready, attached, gcs, safe, allocated, content, task, object, aborted>>

\* The closure returns: what it still has is its result, and the guard is
\* dropped next.
ReturnFrom(w, os) ==
  /\ w \in Worker /\ CanRun(w)
  /\ os \subseteq gcs[w]
  /\ os # {} => "join" \in GcLeaves
  /\ state' = [state EXCEPT ![w] = "leaving"]
  /\ gcs' = [gcs EXCEPT ![w] = os]
  /\ UNCHANGED <<ready, attached, safe, allocated, content, task, object, aborted>>

\* Slip: thread_detach is called after f() instead of by the guard's drop.
UnwoundUnguarded(t) ==
  /\ ~aborted /\ state[t] = "unwinding" /\ task[t] = Idle
  /\ Mine(t) = {}
  /\ state' = [state EXCEPT ![t] = "done"]
  /\ gcs' = [gcs EXCEPT ![t] = {}]
  /\ UNCHANGED <<ready, attached, safe, allocated, content, task, object, aborted>>

\* A panic has dropped the locals of the closure and drops the guard, if it exists;
\* a thread outside attached_invoke has dropped all it had.
Unwound(t) ==
  /\ ~aborted /\ state[t] = "unwinding" /\ task[t] = Idle
  /\ t \in Worker \/ t \notin attached => Mine(t) = {}
  /\ state' = [state EXCEPT ![t] = IF t \in attached THEN "leaving" ELSE "done"]
  /\ gcs' = [gcs EXCEPT ![t] = {}]
  /\ UNCHANGED <<ready, attached, safe, allocated, content, task, object, aborted>>

\* The guard's drop.  A worker has ended with it; the panic of another thread goes on
\* through what called attached_invoke.
Detach(t) ==
  /\ ~aborted /\ state[t] = "leaving"
  /\ state' = [state EXCEPT ![t] = IF t \in Worker THEN "returned" ELSE "unwinding"]
  /\ attached' = attached \ {t}
  /\ UNCHANGED <<ready, gcs, safe, allocated, content, task, object, aborted>>

\* On a thread that is not attached, as its Safety section asks.
attached_invoke(t) ==
  /\ t \in Plain \ attached /\ CanRun(t)
  /\ \/ attached' = attached \cup {t} /\ UNCHANGED state
     \/ state' = [state EXCEPT ![t] = "unwinding"] /\ UNCHANGED attached
  /\ UNCHANGED <<ready, gcs, safe, allocated, content, task, object, aborted>>

InvokeReturns(t, os) ==
  /\ t \in Plain \cap attached /\ CanRun(t)
  /\ os \subseteq gcs[t]
  /\ os # {} => "join" \in GcLeaves
  /\ attached' = attached \ {t}
  /\ gcs' = [gcs EXCEPT ![t] = os]
  /\ UNCHANGED <<ready, state, safe, allocated, content, task, object, aborted>>

Join(t, w) ==
  /\ CanRun(t) /\ state[w] = "returned"
  /\ state' = [state EXCEPT ![w] = "done"]
  /\ gcs' = [gcs EXCEPT ![t] = @ \cup gcs[w], ![w] = {}]
  /\ safe' = [h \in Handle |-> IF h \in Mine(w) THEN [safe[h] EXCEPT !.by = t] ELSE safe[h]]
  /\ UNCHANGED <<ready, attached, allocated, content, task, object, aborted>>

\* The program dropped the JoinHandle: the finished thread drops its result,
\* detached already.
Abandon(w) ==
  /\ ~aborted /\ state[w] = "returned"
  /\ state' = [state EXCEPT ![w] = "unwinding"]
  /\ UNCHANGED <<ready, attached, gcs, safe, allocated, content, task, object, aborted>>

-----------------------------------------------------------------------------
Next ==
  \/ \E o \in Object : Collect(o)
  \/ \E t \in Thread :
       \/ xref_init(t)
       \/ NewPanics(t)
       \/ AllocFails(t)
       \/ Free(t)
       \/ \E o \in Object : NewObject(t, o) \/ ForgetGc(t, o)
       \/ \E r \in Root : New(t, r)
       \/ \E h \in Handle, r \in Root : Cast(t, h, r)
       \/ \E h \in Handle : Write(t, h) \/ as_weak(t, h) \/ Drop(t, h)
       \/ \E h \in Handle, g \in Handle : Clone(t, h, g)
       \/ \E u \in Thread, h \in Handle : Send(t, u, h)
       \/ \E w \in Worker, hs \in SUBSET Handle, os \in SUBSET Object : Spawn(t, w, hs, os)
       \/ \E w \in Worker : Join(t, w)
       \/ Unwound(t)
       \/ Detach(t)
  \/ \E w \in Worker :
       \/ Attach(w)
       \/ AttachFails(w)
       \/ \E os \in SUBSET Object : ReturnFrom(w, os)
       \/ Abandon(w)
  \/ \E p \in Plain :
       \/ attached_invoke(p)
       \/ \E os \in SUBSET Object : InvokeReturns(p, os)

Spec == Init /\ [][Next]_vars

(***************************************************************************)
(* A thread goes on inside gc_free_fixed, and one that unwinds or leaves   *)
(* goes on doing so: nobody else's step is needed.  Nothing forces a       *)
(* closure to end, a program to join, or the collector to run.             *)
(***************************************************************************)
FairSpec ==
  /\ Spec
  /\ \A t \in Thread : WF_vars(Free(t))
  /\ \A t \in Spawned :
       /\ WF_vars(state[t] = "unwinding" /\ \E h \in Handle : Drop(t, h))
       /\ WF_vars(Unwound(t))
       /\ WF_vars(Detach(t))

-----------------------------------------------------------------------------
(***************************************************************************)
(* SafePtr's promise (gc_alloc.rs:63-77): the object of a SafePtr is alive *)
(* as long as it or any clone exists, on whatever thread it is, attached   *)
(* or not, and whatever the other threads drop, clone and cast meanwhile.  *)
(***************************************************************************)
SafePtrKeepsAlive ==
  \A h \in Handle : safe[h] # Null =>
    /\ safe[h].root \in allocated
    /\ ObjectOf(h) \in Object
    /\ object[ObjectOf(h)] = "live"

(***************************************************************************)
(* A Gc that a thread of the game, or a running closure of spawn_attached  *)
(* or attached_invoke, has on its stack points at an object that has not   *)
(* been collected (thread.rs:3-12).                                        *)
(***************************************************************************)
StackKeepsAlive ==
  \A t \in Managed : state[t] = "running" =>
    \A o \in gcs[t] : object[o] = "live"

(***************************************************************************)
(* Nothing is rooted for ever: an allocation has a SafePtr that shares it, *)
(* or a thread that is filling or freeing it, and never two threads        *)
(* (gc_alloc.rs:75-76), panics and abandoned threads included.             *)
(***************************************************************************)
RootHasOwner ==
  \A r \in allocated :
    LET busy == {t \in Thread : task[t].root = r} IN
    IF Sharing(r) = {} THEN \E t \in Thread : busy = {t} ELSE busy = {}

(***************************************************************************)
(* The whole of SafePtr's promise, SafePtrContract: what a SafePtr points  *)
(* at is pinned by the fixed allocation, from when it is made until after  *)
(* the last SafePtr of the object is gone, whichever threads have it, and  *)
(* also in programs that carry Gcs about.                                  *)
(***************************************************************************)
Held   == [h \in Handle |-> IF safe[h] = Null THEN Null
                           ELSE [by |-> safe[h].by, obj |-> ObjectOf(h)]]
Seen   == [t \in Thread |-> IF t \in attached THEN gcs[t] ELSE {}]
Pinned == {content[r] : r \in allocated} \ {Null}

Contract == INSTANCE SafePtrContract WITH
  None <- Null, Carries <- GcLeaves # {},
  held <- Held, seen <- Seen, pinned <- Pinned, life <- object

KeepsContract == Contract!Spec

(***************************************************************************)
(* The guard detaches the thread however the closure ends, a panic         *)
(* included (thread.rs:28-29).                                             *)
(***************************************************************************)
GuardDetaches ==
  \A t \in Spawned :
    state[t] \in {"unwinding", "leaving"} ~> (t \notin attached \/ aborted)
=============================================================================
