---------------------------- MODULE MethodLookup ---------------------------
(***************************************************************************)
(* How libil2cpp finds the method a Rust caller names: find_method and     *)
(* find_static_method (MethodLooker in class.rs), the overload ranking     *)
(* they use and the method cache of each thread.                           *)
(*                                                                         *)
(* An argument is a value of a value type, a reference (Gc, &mut, *mut) to *)
(* a reference type, or, with byref, a ByRef of a value type.  Matching is *)
(* what the two type macros generate (impl_type.rs).                       *)
(***************************************************************************)
EXTENDS ClassTables, Integers

CONSTANTS
  Interfaces,    \* the interfaces each class implements, in the order listed
  Address,       \* where each class lives in memory
  Request        \* the calls of find_method and find_static_method

ASSUME RequestAssumption ==
  /\ Interfaces \in [Class -> Seq(Interface)]
  /\ Address \in [Class -> Nat] /\ \A c, d \in Class : Address[c] = Address[d] => c = d
  /\ \A r \in Request : /\ r.on \in Class /\ r.static \in BOOLEAN
                        /\ r.args \in Seq([type : RustType, byref : BOOLEAN])
                        /\ r.generics \in Seq(RustType)
                        /\ r.ret \in RustType \cup {Unit}

VARIABLE METHOD_CACHE    \* what each thread has resolved

vars == <<classVars, methods, METHOD_CACHE>>

-----------------------------------------------------------------------------
(***************************************************************************)
(* How near a method's parameters are to the arguments' classes.           *)
(***************************************************************************)

\* The merge of two interface lists that supposes both are sorted by address.
SharedInterfaces(a, b) ==
  LET merge[p \in (1 .. Len(a) + 1) \X (1 .. Len(b) + 1)] ==
        LET i == p[1]  j == p[2] IN
        IF i > Len(a) \/ j > Len(b) THEN 0
        ELSE IF Address[a[i]] < Address[b[j]] THEN merge[<<i + 1, j>>]
        ELSE IF Address[a[i]] > Address[b[j]] THEN merge[<<i, j + 1>>]
        ELSE 1 + merge[<<i + 1, j + 1>>]
  IN merge[<<1, 1>>]

\* Slip: the walk counts one step at most.
param_distanceOneStep(to, passed) ==
  IF to = passed THEN 0
  ELSE IF passed \in Interface /\ to \notin Interface THEN 1000
  ELSE 1 + (IF to \in Interface THEN 5 ELSE 0)
       - SharedInterfaces(Interfaces[to], Interfaces[passed])

\* The walk from the passed class up its parents stops at the parameter's class,
\* at the first that cannot be assigned to it, or at the root.
param_distance(to, passed) ==
  LET up   == hierarchy[passed]
      Stop == {k \in 1 .. Len(up) : k = Len(up) \/ up[k] = to \/ ~is_assignable_from(to, up[k])}
      last == Min(Stop)
  IN IF to = passed THEN 0
     ELSE IF passed \in Interface /\ to \notin Interface THEN 1000
     ELSE last - 1 + (IF to \in Interface THEN 5 ELSE 0)
          - SharedInterfaces(Interfaces[to], Interfaces[up[last]])

\* matches_value_argument and matches_reference_argument, for an argument whose
\* type's class is c.
matches_argument(arg, c, ty) ==
  /\ arg.type \in ValueType => (arg.byref = ty.byref)
  /\ is_assignable_from(ty.class, c)

\* A parameter typed by the method's own generic parameter takes its class.
Substituted(p, gs) == IF p.index = 0 THEN p ELSE [p EXCEPT !.class = gs[p.index]]

\* What a method is checked for before any type is.
NameAndShape(r, m) ==
  /\ Info(m).name = r.name
  /\ Info(m).static \/ ~r.static
  /\ Len(Info(m).params) = Len(r.args)
  /\ Info(m).generics = Len(r.generics)

\* The types whose class resolving r asks for, in that order: those of the
\* arguments, of the generics and, when some method gets as far as the check of
\* its return type, of that.  A class not found is a panic, and ends it.
Types(r) ==
  [i \in 1 .. Len(r.args) |-> r.args[i].type] \o r.generics \o
  IF /\ r.generics = << >> /\ r.ret # Unit
     /\ \E i \in 1 .. Len(hierarchy_methods(r.on)) : NameAndShape(r, hierarchy_methods(r.on)[i])
  THEN <<r.ret>> ELSE << >>

Evaluate(v, r) ==
  FoldLeft(LAMBDA e, T : IF NoClass \in ToSet(e.classes) THEN e
                         ELSE LET w == class(e.view, T)
                              IN [view |-> w, classes |-> Append(e.classes, w.class)],
           [view |-> v, classes |-> << >>], Types(r))

\* The classes `cs` are in the order of Types.
generics(r, cs) == SubSeq(cs, Len(r.args) + 1, Len(r.args) + Len(r.generics))

is_candidate(r, cs, m) ==
  /\ NameAndShape(r, m)
  /\ \/ r.generics # << >>
     \/ IF r.ret = Unit THEN Info(m).ret = Void
        ELSE is_assignable_from(cs[Len(r.args) + 1], Info(m).ret)

\* method_weight: whether it answers Some, and what.
Fits(r, cs, m) ==
  \A i \in 1 .. Len(r.args) :
    /\ Info(m).params[i].index <= Len(r.generics)
    /\ matches_argument(r.args[i], cs[i], Substituted(Info(m).params[i], generics(r, cs)))

ParamClass(r, cs, m, i) == Substituted(Info(m).params[i], generics(r, cs)).class

Exact(r, cs, m) == \A i \in 1 .. Len(r.args) : ParamClass(r, cs, m, i) = cs[i]

method_weight(r, cs, m) ==
  FoldLeft(+, 0, [i \in 1 .. Len(r.args) |-> param_distance(ParamClass(r, cs, m, i), cs[i])])

-----------------------------------------------------------------------------
(***************************************************************************)
(* The loop of resolve_caller_method, as a fold: an exact match ends it,   *)
(* and a strictly smaller weight replaces the best so far.                 *)
(***************************************************************************)
i32_MAX == 2147483647

resolve_caller_method(r, cs) ==
  FoldLeft(LAMBDA best, m :
      IF best.exact \/ ~is_candidate(r, cs, m) \/ ~Fits(r, cs, m) THEN best
      ELSE IF Exact(r, cs, m) THEN [best EXCEPT !.method = m, !.exact = TRUE]
      ELSE IF method_weight(r, cs, m) < best.weight
      THEN [best EXCEPT !.method = m, !.weight = method_weight(r, cs, m)]
      ELSE best,
    [method |-> NoMethod, weight |-> i32_MAX, exact |-> FALSE], hierarchy_methods(r.on)).method

-----------------------------------------------------------------------------
\* Slip: static and other lookups share an entry.
KeyWithoutThis(r) ==
  [class |-> NameOf[r.on], name |-> r.name,
   args |-> [i \in 1 .. Len(r.args) |-> r.args[i].type], generics |-> r.generics, ret |-> r.ret]

\* The key of the method cache has the class's name, not the class, and the Rust
\* types behind the arguments, not how they are passed.
KeyOf(r) ==
  [class |-> NameOf[r.on], name |-> r.name, static |-> r.static,
   args |-> [i \in 1 .. Len(r.args) |-> r.args[i].type], generics |-> r.generics, ret |-> r.ret]

Hit(t, r) == KeyOf(r) \in DOMAIN METHOD_CACHE[t] /\ UNCHANGED vars

\* Slip: a failure is remembered too.
MissRemembersFailure(t, r) ==
  LET e == Evaluate(View(t), r)
      m == IF NoClass \in ToSet(e.classes) THEN NoMethod
           ELSE resolve_caller_method(r, e.classes)
  IN /\ KeyOf(r) \notin DOMAIN METHOD_CACHE[t]
     /\ Keep(t, e.view)
     /\ METHOD_CACHE' = [METHOD_CACHE EXCEPT ![t] = With(@, KeyOf(r), m)]
     /\ UNCHANGED <<loaded, methods>>

Miss(t, r) ==
  LET e == Evaluate(View(t), r)
      m == IF NoClass \in ToSet(e.classes) THEN NoMethod
           ELSE resolve_caller_method(r, e.classes)
  IN /\ KeyOf(r) \notin DOMAIN METHOD_CACHE[t]
     /\ Keep(t, e.view)
     /\ METHOD_CACHE' = IF m = NoMethod THEN METHOD_CACHE
                        ELSE [METHOD_CACHE EXCEPT ![t] = With(@, KeyOf(r), m)]
     /\ UNCHANGED <<loaded, methods>>

Init ==
  /\ ClassInit
  /\ methods \in MethodTables
  /\ METHOD_CACHE = [t \in Thread |-> << >>]

Next ==
  \/ ClassNext /\ UNCHANGED <<methods, METHOD_CACHE>>
  \/ \E t \in Thread, r \in Request : Hit(t, r) \/ Miss(t, r)

Spec == Init /\ [][Next]_vars

-----------------------------------------------------------------------------
TypeOK ==
  /\ ClassTypeOK
  /\ methods \in MethodTables
  /\ \A t \in Thread : \A k \in DOMAIN METHOD_CACHE[t] :
       \E c \in Class : \E i \in DOMAIN methods[c] : METHOD_CACHE[t][k] = <<c, i>>

\* What thread t's next call of r answers, cached or not.
Answer(t, r) ==
  LET e == Evaluate(View(t), r) IN
  IF KeyOf(r) \in DOMAIN METHOD_CACHE[t] THEN METHOD_CACHE[t][KeyOf(r)]
  ELSE IF NoClass \in ToSet(e.classes) THEN NoMethod
  ELSE resolve_caller_method(r, e.classes)

\* The methods that the request could be answered with, and their places.
Applicable(r, cs) ==
  {i \in 1 .. Len(hierarchy_methods(r.on)) :
     LET m == hierarchy_methods(r.on)[i] IN is_candidate(r, cs, m) /\ Fits(r, cs, m)}

\* "Find a method belonging to the class or its parents" (find_method): whatever
\* was looked up before, on this class or another.
AnswerBelongs ==
  \A t \in Thread, r \in Request :
    Answer(t, r) # NoMethod => Answer(t, r)[1] \in ToSet(hierarchy[r.on])

\* A method that the cache answers is the one that ranking all of the class's
\* methods now, with all that was loaded and cached since, would answer.
BestIsAnswered ==
  \A t \in Thread, r \in Request :
    LET cs == Evaluate(View(t), r).classes
        ms == hierarchy_methods(r.on)
        A  == Applicable(r, cs)
        E  == {i \in A : Exact(r, cs, ms[i])}
        W  == {i \in A : \A j \in A : method_weight(r, cs, ms[i]) <= method_weight(r, cs, ms[j])}
    IN NoClass \notin ToSet(cs) =>
         Answer(t, r) = IF A = {} THEN NoMethod ELSE ms[Min(IF E # {} THEN E ELSE W)]

\* The overload answered for one argument never takes a class, implementing no
\* interface, from which the class that another applicable overload takes derives.
NearerClassWins ==
  \A t \in Thread, r \in {q \in Request : Len(q.args) = 1} :
    LET cs == Evaluate(View(t), r).classes
        ms == hierarchy_methods(r.on)
        far == ParamClass(r, cs, Answer(t, r), 1)
    IN NoClass \notin ToSet(cs) /\ Answer(t, r) # NoMethod /\ far \notin Interface
         /\ Interfaces[far] = << >> =>
       \A i \in Applicable(r, cs) :
         LET near == ParamClass(r, cs, ms[i], 1)
         IN near \notin Interface => near = far \/ far \notin ToSet(hierarchy[near])

-----------------------------------------------------------------------------
(***************************************************************************)
(* What the theorems of LookupProofs suppose of a program.                 *)
(***************************************************************************)
\* No two requests differ only in what the key of the method cache leaves out: which
\* class of a name is meant, and how an argument is passed.
OwnKeys ==
  \A q, r \in Request :
    /\ NameOf[q.on] = NameOf[r.on] /\ q.name = r.name /\ q.static = r.static
    /\ [i \in 1 .. Len(q.args) |-> q.args[i].type] = [i \in 1 .. Len(r.args) |-> r.args[i].type]
    /\ q.generics = r.generics /\ q.ret = r.ret
    => q = r

\* No class is further than Far from one that can be passed for it, so that no
\* weight reaches i32::MAX.
Near(Far) ==
  /\ Far \in Nat /\ \A to, passed \in Class : param_distance(to, passed) <= Far
  /\ \A r \in Request : Far * Len(r.args) < i32_MAX

\* A class that is no interface is assignable from what derives from it, and from
\* nothing else, but for a root, which any interface is assignable to.
ClassesByParent ==
  \A to \in Class \ Interface : \A from \in Class :
    /\ to \in ToSet(hierarchy[from]) => is_assignable_from(to, from)
    /\ is_assignable_from(to, from) =>
         \/ to = from
         \/ from \in Interface /\ Parent[to] = NoClass
         \/ from \notin Interface /\ to \in ToSet(hierarchy[from])

=============================================================================
