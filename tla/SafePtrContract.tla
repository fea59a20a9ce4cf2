--------------------------- MODULE SafePtrContract ---------------------------
(***************************************************************************)
(* What SafePtr promises (gc_alloc.rs:63-86), without the allocations and  *)
(* reference counts that keep it: an object is pinned from when a thread   *)
(* that refers to it makes a SafePtr of it until after the last SafePtr of *)
(* it is gone, and what is pinned is not collected.                        *)
(***************************************************************************)
CONSTANTS
  Thread, Object,
  Handle,   \* the SafePtrs
  None,     \* no SafePtr
  Carries   \* whether the program carries Gcs from one stack to another

VARIABLES
  held,     \* whose each SafePtr is, and its object
  seen,     \* the objects each thread has Gcs of where the collector looks
  pinned,   \* the objects that SafePtrs keep
  life      \* unborn, live or collected

contractVars == <<held, seen, pinned, life>>

Init ==
  /\ held = [h \in Handle |-> None]
  /\ seen = [t \in Thread |-> {}]
  /\ pinned = {}
  /\ life = [o \in Object |-> "unborn"]

Holds(t, o) == \E h \in Handle : held[h] # None /\ held[h] = [by |-> t, obj |-> o]
Held(o)     == \E h \in Handle : held[h] # None /\ held[h].obj = o

-----------------------------------------------------------------------------
Create(t, o) ==
  /\ life[o] = "unborn"
  /\ life' = [life EXCEPT ![o] = "live"]
  /\ seen' = [seen EXCEPT ![t] = @ \cup {o}]
  /\ UNCHANGED <<held, pinned>>

\* A Gc of what the thread has a SafePtr of.
Look(t, o) ==
  /\ Holds(t, o)
  /\ seen' = [seen EXCEPT ![t] = @ \cup {o}]
  /\ UNCHANGED <<held, pinned, life>>

Forget(t, os) ==
  /\ seen' = [seen EXCEPT ![t] = @ \ os]
  /\ UNCHANGED <<held, pinned, life>>

\* A SafePtr of an object that the thread refers to.
Hold(t, h, o) ==
  /\ held[h] = None
  /\ \/ o \in seen[t] \/ Holds(t, o)
     \/ Carries /\ life[o] # "unborn"
  /\ held' = [held EXCEPT ![h] = [by |-> t, obj |-> o]]
  /\ pinned' = pinned \cup {o}
  /\ UNCHANGED <<seen, life>>

Share(h, g) ==
  /\ held[h] # None /\ held[g] = None
  /\ held' = [held EXCEPT ![g] = held[h]]
  /\ UNCHANGED <<seen, pinned, life>>

\* SafePtrs, and in some programs Gcs, reach another thread.
Deliver(t, hs, os) ==
  /\ \A h \in hs : held[h] # None
  /\ os # {} => Carries
  /\ \A o \in os : life[o] # "unborn"
  /\ held' = [h \in Handle |-> IF h \in hs THEN [held[h] EXCEPT !.by = t] ELSE held[h]]
  /\ seen' = [seen EXCEPT ![t] = @ \cup os]
  /\ UNCHANGED <<pinned, life>>

Drop(h) ==
  /\ held' = [held EXCEPT ![h] = None]
  /\ UNCHANGED <<seen, pinned, life>>

Unpin(o) ==
  /\ ~Held(o)
  /\ pinned' = pinned \ {o}
  /\ UNCHANGED <<held, seen, life>>

Collect(o) ==
  /\ life[o] = "live"
  /\ o \notin pinned /\ \A t \in Thread : o \notin seen[t]
  /\ life' = [life EXCEPT ![o] = "collected"]
  /\ UNCHANGED <<held, seen, pinned>>

Next ==
  \/ \E t \in Thread :
       \/ \E o \in Object : Create(t, o) \/ Look(t, o)
       \/ \E h \in Handle, o \in Object : Hold(t, h, o)
       \/ \E os \in SUBSET Object : Forget(t, os) \/ \E hs \in SUBSET Handle : Deliver(t, hs, os)
  \/ \E h \in Handle : Drop(h) \/ \E g \in Handle : Share(h, g)
  \/ \E o \in Object : Unpin(o) \/ Collect(o)

Spec == Init /\ [][Next]_contractVars

-----------------------------------------------------------------------------
\* What follows from it.  An object with a SafePtr is pinned, so that it stays alive if
\* it was when the SafePtr was made; it was, if the program carries no Gc.
TypeOK ==
  /\ held \in [Handle -> [by : Thread, obj : Object] \cup {None}]
  /\ seen \in [Thread -> SUBSET Object]
  /\ pinned \in SUBSET Object
  /\ life \in [Object -> {"unborn", "live", "collected"}]

Pins == \A h \in Handle : held[h] # None => held[h].obj \in pinned

Alive == \A o \in pinned \cup UNION {seen[t] : t \in Thread} : life[o] = "live"

KeepsAlive == Pins /\ (~Carries => Alive)
=============================================================================
