-------------------------- MODULE LookupProofs ------------------------------
(***************************************************************************)
(* Proofs about the lookups of classes and of methods, for any threads,    *)
(* assemblies, classes, methods, requests and hooks.                       *)
(*                                                                         *)
(* Classes: what loading assemblies does to what was found before.         *)
(* Operators: what the folds, hierarchy and the merge of param_distance    *)
(* compute, each by going up the elements it has gone through.             *)
(* Methods: resolve_caller_method finds the best one, and the method cache *)
(* keeps it.                                                               *)
(* Hooks: find_method_callee answers the one method of the class that      *)
(* passes every check by what the runtime has now, and goes on to.         *)
(***************************************************************************)
EXTENDS MethodLookup, HookTarget, WellFoundedInduction, TLAPS

\* Any numbers have a least one.
LEMMA LeastNumber ==
  ASSUME NEW S \in SUBSET Nat, S # {}
  PROVE  \E m \in S : \A k \in S : m <= k
<1>1. PICK m \in S : \A k \in S : <<k, m>> \notin OpToRel(<, Nat)
  BY NatLessThanWellFounded, WFMin
<1>2. ASSUME NEW k \in S PROVE m <= k
  <2>1. ~(k < m)
    BY <1>1 DEF OpToRel
  <2>2. QED
    BY <2>1
<1>3. QED
  BY <1>2

\* And it is the one that CHOOSE takes.
LEMMA LeastChosen ==
  ASSUME NEW S \in SUBSET Nat, NEW m \in S, \A k \in S : m <= k
  PROVE  (CHOOSE i \in S : \A j \in S : i <= j) = m
<1> DEFINE x == CHOOSE i \in S : \A j \in S : i <= j
<1>1. x \in S /\ \A j \in S : x <= j
  OBVIOUS
<1>2. m \in Nat /\ x \in Nat /\ x <= m /\ m <= x
  BY <1>1
<1> HIDE DEF x
<1>3. x = m
  BY <1>2
<1>4. QED
  BY <1>3 DEF x

-----------------------------------------------------------------------------
(***************************************************************************)
(* A search for n over the first k assemblies.                             *)
(***************************************************************************)
Having(n, k) == {i \in 1 .. k : {c \in Image[i] : NameOf[c] = n} # {}}

ScanFirst(n, k) ==
  IF Having(n, k) = {} THEN NoClass
  ELSE CHOOSE c \in {c \in Image[CHOOSE i \in Having(n, k) : \A j \in Having(n, k) : i <= j] : NameOf[c] = n} : TRUE

LEMMA ScanIsFirst == ASSUME NEW n PROVE Scan(n) = ScanFirst(n, loaded)
BY Zenon DEF Scan, ScanFirst, Having

\* One assembly more does not change what was found.
LEMMA FirstStays ==
  ASSUME NEW n, NEW k \in Nat, Having(n, k) # {}
  PROVE  ScanFirst(n, k + 1) = ScanFirst(n, k)
<1>1. Having(n, k) \in SUBSET Nat /\ Having(n, k + 1) \in SUBSET Nat
  BY DEF Having
<1>2. PICK m \in Having(n, k) : \A j \in Having(n, k) : m <= j
  BY <1>1, LeastNumber
<1>3. m \in Having(n, k + 1) /\ \A j \in Having(n, k + 1) : m <= j
  <2>1. m \in Having(n, k + 1) /\ m <= k
    BY DEF Having
  <2>2. ASSUME NEW j \in Having(n, k + 1) PROVE m <= j
    <3>1. CASE j \in Having(n, k)
      BY <1>2, <3>1
    <3>2. CASE j \notin Having(n, k)
      BY <2>1, <3>2 DEF Having
    <3>3. QED
      BY <3>1, <3>2
  <2>3. QED
    BY <2>1, <2>2
<1>4. (CHOOSE i \in Having(n, k) : \A j \in Having(n, k) : i <= j) = m
  BY <1>1, <1>2, LeastChosen
<1>5. (CHOOSE i \in Having(n, k + 1) : \A j \in Having(n, k + 1) : i <= j) = m
  BY <1>1, <1>3, LeastChosen
<1>6. ScanFirst(n, k) = CHOOSE c \in {c \in Image[m] : NameOf[c] = n} : TRUE
  BY <1>4, Zenon DEF ScanFirst
<1>7. Having(n, k + 1) # {}
  BY <1>3
<1>8. ScanFirst(n, k + 1) = CHOOSE c \in {c \in Image[m] : NameOf[c] = n} : TRUE
  BY <1>5, <1>7, Zenon DEF ScanFirst
<1>9. QED
  BY <1>6, <1>8

LEMMA ScanKept == ASSUME NEW n, UNCHANGED loaded PROVE Scan(n)' = Scan(n)
BY DEF Scan

LEMMA FoundStays ==
  ASSUME NEW n, loaded \in Nat, LoadAssembly, Scan(n) # NoClass
  PROVE  Scan(n)' = Scan(n)
<1>1. Scan(n) = ScanFirst(n, loaded) /\ Scan(n)' = ScanFirst(n, loaded')
  BY Zenon, ScanIsFirst DEF ScanFirst, Having, Scan
<1>2. Having(n, loaded) # {}
  BY <1>1 DEF ScanFirst
<1>3. loaded' = loaded + 1
  BY DEF LoadAssembly
<1>4. QED
  BY <1>1, <1>2, <1>3, FirstStays

-----------------------------------------------------------------------------
(***************************************************************************)
(* What a cache may hold, and the OnceLocks where each generic impl is     *)
(* used with one argument.                                                 *)
(***************************************************************************)
Option == Class \cup {NoClass}

Loaded == loaded \in 0 .. Len(Image)

Fresh(cache) ==
  /\ DOMAIN cache \subseteq Name
  /\ \A n \in DOMAIN cache : cache[n] = Scan(n) /\ Scan(n) # NoClass

IsOwn(T, c) ==
  \/ c = NoClass
  \/ /\ Scan(TypeName[T]) # NoClass /\ Scan(TypeName[TypeArg[T]]) # NoClass
     /\ c = Instance[<<Scan(TypeName[T]), Scan(TypeName[TypeArg[T]])>>]

Owned(cells) ==
  /\ cells \in [GenericName -> Option]
  /\ OneArgument => \A T \in GenericType : IsOwn(T, cells[TypeName[T]])

\* The class of a Rust type as the runtime has it now.
Made(T) ==
  IF NoClass \in {Scan(TypeName[T]), Scan(TypeName[TypeArg[T]])} THEN NoClass
  ELSE Instance[<<Scan(TypeName[T]), Scan(TypeName[TypeArg[T]])>>]

Own(T) == IF T \in GenericType THEN Made(T) ELSE Scan(TypeName[T])

\* A OnceLock once filled keeps what it holds.
Grows(b, b2) == \A n \in GenericName : b[n] # NoClass => b2[n] = b[n]

\* What Type::class answers once it has been asked.
Answers(b, T) == IF T \in GenericType THEN b[TypeName[T]] ELSE Scan(TypeName[T])

IInv ==
  /\ Loaded
  /\ CLASS_CACHE = [t \in Thread |-> CLASS_CACHE[t]]
  /\ \A t \in Thread : Fresh(CLASS_CACHE[t])
  /\ Owned(CLASS)

V(cache, cells, c) == [cache |-> cache, cells |-> cells, class |-> c]

LEMMA ScanType == ASSUME NEW n, Loaded PROVE Scan(n) \in Option
<1>1. CASE Having(n, loaded) = {}
  BY <1>1, ScanIsFirst DEF ScanFirst, Option
<1>2. CASE Having(n, loaded) # {}
  <2>1. loaded \in Nat /\ Having(n, loaded) \in SUBSET Nat
    BY ClassAssumption DEF Having, Loaded
  <2>2. PICK m \in Having(n, loaded) : \A j \in Having(n, loaded) : m <= j
    BY <1>2, <2>1, LeastNumber
  <2>3. (CHOOSE i \in Having(n, loaded) : \A j \in Having(n, loaded) : i <= j) = m
    BY <2>1, <2>2, LeastChosen
  <2>4. ScanFirst(n, loaded) = CHOOSE c \in {c \in Image[m] : NameOf[c] = n} : TRUE
    BY <1>2, <2>3, Zenon DEF ScanFirst
  <2>5. m \in 1 .. Len(Image) /\ {c \in Image[m] : NameOf[c] = n} # {}
    BY DEF Having, Loaded
  <2>6. ScanFirst(n, loaded) \in Image[m]
    BY <2>4, <2>5, Zenon
  <2>7. Image[m] \subseteq Class
    BY <2>5, ClassAssumption
  <2>8. QED
    BY <2>6, <2>7, ScanIsFirst DEF Option
<1>3. QED
  BY <1>1, <1>2

\* The names of types.
LEMMA NamesOfTypes ==
  /\ \A T \in RustType : TypeName[T] \in Name
  /\ \A T \in GenericType : T \in RustType /\ TypeArg[T] \in RustType /\ TypeName[T] \in GenericName
BY ClassAssumption DEF GenericType, GenericName

\* What a lookup by name does to what its thread knows.
LEMMA FindIs ==
  ASSUME NEW a, NEW b, NEW c, NEW n \in Name, Fresh(a)
  PROVE  \E a2 : find(V(a, b, c), n) = V(a2, b, Scan(n)) /\ Fresh(a2)
<1> DEFINE a2 == IF Scan(n) = NoClass THEN a ELSE With(a, n, Scan(n))
<1>1. (IF n \in DOMAIN a THEN a[n] ELSE Scan(n)) = Scan(n)
  BY DEF Fresh
<1>2. find(V(a, b, c), n) = V(a2, b, Scan(n))
  <2>1. V(a, b, c).cache = a
    BY DEF V
  <2>2. find(V(a, b, c), n) = [V(a, b, c) EXCEPT !.class = Scan(n), !.cache = a2]
    BY <1>1, <2>1 DEF find
  <2> HIDE DEF a2
  <2>3. QED
    BY <2>2 DEF V
<1>3. Fresh(a2)
  BY DEF Fresh, With
<1> HIDE DEF a2
<1>4. QED
  BY <1>2, <1>3

LEMMA FindGenericIs ==
  ASSUME NEW a, NEW b, NEW c, NEW T \in GenericType, Fresh(a), Loaded
  PROVE  \E a2, g : /\ find_generic(V(a, b, c), TypeName[T], TypeArg[T]) = V(a2, b, g)
                    /\ Fresh(a2) /\ IsOwn(T, g) /\ g = Made(T) /\ g \in Option
<1> DEFINE n == TypeName[T]  m == TypeName[TypeArg[T]]
<1>0. n \in Name /\ m \in Name /\ Scan(n) \in Option /\ Scan(m) \in Option
  BY NamesOfTypes, ScanType
<1>1. PICK d : find(V(a, b, c), n) = V(d, b, Scan(n)) /\ Fresh(d)
  BY <1>0, FindIs
<1>2. PICK e : find(V(d, b, Scan(n)), m) = V(e, b, Scan(m)) /\ Fresh(e)
  BY <1>0, <1>1, FindIs
<1>3. CASE Scan(n) = NoClass
  <2>1. find_generic(V(a, b, c), n, TypeArg[T]) = V(d, b, NoClass)
    BY <1>1, <1>3 DEF find_generic, V
  <2>2. QED
    BY <1>1, <1>3, <2>1 DEF IsOwn, Option, Made
<1>4. CASE Scan(n) # NoClass
  <2> DEFINE g == IF Scan(m) = NoClass THEN NoClass ELSE Instance[<<Scan(n), Scan(m)>>]
  <2>1. find_generic(V(a, b, c), n, TypeArg[T]) = make_generic(V(d, b, Scan(n)), Scan(n), TypeArg[T])
    BY <1>1, <1>4 DEF find_generic, V
  <2>2. make_generic(V(d, b, Scan(n)), Scan(n), TypeArg[T]) = V(e, b, g)
    BY <1>2 DEF make_generic, V
  <2>3. IsOwn(T, g) /\ g = Made(T)
    BY <1>4 DEF IsOwn, Made
  <2>4. g \in Option
    <3>1. CASE Scan(m) = NoClass
      BY <3>1 DEF Option
    <3>2. CASE Scan(m) # NoClass
      <4>1. <<Scan(n), Scan(m)>> \in Class \X Class
        BY <1>0, <1>4, <3>2 DEF Option
      <4>2. QED
        BY <3>2, <4>1, ClassAssumption DEF Option
    <3>3. QED
      BY <3>1, <3>2
  <2> HIDE DEF g
  <2>5. QED
    BY <1>2, <2>1, <2>2, <2>3, <2>4
<1>5. QED
  BY <1>3, <1>4

LEMMA ClassIs ==
  ASSUME NEW a, NEW b, NEW c, NEW T \in RustType, Fresh(a), Owned(b), Loaded
  PROVE  \E a2, b2 : /\ class(V(a, b, c), T) = V(a2, b2, Answers(b2, T))
                     /\ Fresh(a2) /\ Owned(b2) /\ Grows(b, b2)
                     /\ OneArgument => Answers(b2, T) = Own(T)
<1> DEFINE n == TypeName[T]
<1>1. CASE T \notin GenericType
  <2>1. PICK a2 : find(V(a, b, c), n) = V(a2, b, Scan(n)) /\ Fresh(a2)
    BY NamesOfTypes, FindIs
  <2>2. class(V(a, b, c), T) = V(a2, b, Answers(b, T))
    BY <1>1, <2>1 DEF class, Answers
  <2>3. QED
    BY <1>1, <2>1, <2>2 DEF Grows, Answers, Own
<1>2. CASE T \in GenericType /\ b[n] # NoClass
  <2>1. class(V(a, b, c), T) = V(a, b, b[n])
    BY <1>2 DEF class, V
  <2>2. OneArgument => b[n] = Own(T)
    BY <1>2 DEF Owned, IsOwn, Own, Made
  <2>3. QED
    BY <1>2, <2>1, <2>2 DEF Grows, Answers
<1>3. CASE T \in GenericType /\ b[n] = NoClass
  <2>0. n \in GenericName
    BY <1>3 DEF GenericName
  <2>1. PICK a2, g : /\ find_generic(V(a, b, c), n, TypeArg[T]) = V(a2, b, g)
                     /\ Fresh(a2) /\ IsOwn(T, g) /\ g = Made(T) /\ g \in Option
    BY <1>3, FindGenericIs
  <2> DEFINE b2 == [b EXCEPT ![n] = g]
  <2>2. class(V(a, b, c), T) = V(a2, b2, g)
    BY <1>3, <2>1 DEF class, V
  <2>3. b2 \in [GenericName -> Option] /\ b2[n] = g
    BY <2>0, <2>1 DEF Owned
  <2>4. Owned(b2)
    <3>1. ASSUME OneArgument, NEW U \in GenericType
          PROVE  IsOwn(U, b2[TypeName[U]])
      <4>1. CASE TypeName[U] = n
        BY <1>3, <2>1, <2>3, <3>1, <4>1 DEF OneArgument, IsOwn
      <4>2. CASE TypeName[U] # n
        BY <3>1, <4>2 DEF Owned, GenericName
      <4>3. QED
        BY <4>1, <4>2
    <3> HIDE DEF b2
    <3>2. QED
      BY <2>3, <3>1 DEF Owned
  <2>5. Grows(b, b2)
    BY <1>3 DEF Grows, Owned
  <2>6. Answers(b2, T) = g /\ g = Own(T)
    BY <1>3, <2>1, <2>3 DEF Answers, Own
  <2> HIDE DEF b2
  <2>7. QED
    BY <2>1, <2>2, <2>4, <2>5, <2>6
<1>4. QED
  BY <1>1, <1>2, <1>3

-----------------------------------------------------------------------------
LEMMA InitInv == ClassInit => IInv
<1> SUFFICES ASSUME ClassInit PROVE IInv
  OBVIOUS
<1>1. Loaded /\ CLASS_CACHE = [t \in Thread |-> CLASS_CACHE[t]]
  BY ClassAssumption DEF ClassInit, Loaded
<1>2. \A t \in Thread : Fresh(CLASS_CACHE[t])
  BY DEF ClassInit, Fresh
<1>3. Owned(CLASS)
  BY DEF ClassInit, Owned, IsOwn, Option, GenericName
<1>4. QED
  BY <1>1, <1>2, <1>3 DEF IInv

\* A thread keeps what a lookup told it.
LEMMA KeepInv ==
  ASSUME IInv, NEW t \in Thread, NEW a, NEW b, NEW g,
         Keep(t, V(a, b, g)), UNCHANGED loaded, Fresh(a), Owned(b)
  PROVE  IInv'
<1>1. CLASS_CACHE' = [CLASS_CACHE EXCEPT ![t] = a] /\ CLASS' = b
  BY DEF Keep, V
<1>2. ASSUME NEW n PROVE Scan(n)' = Scan(n)
  BY ScanKept
<1>3. \A u \in Thread : Fresh(CLASS_CACHE[u])'
  BY <1>1, <1>2 DEF IInv, Fresh
<1>4. Owned(CLASS)'
  BY <1>1, <1>2 DEF Owned, IsOwn
<1>5. QED
  BY <1>1, <1>3, <1>4 DEF IInv, Loaded

LEMMA LoadInv == IInv /\ LoadAssembly => IInv'
<1> SUFFICES ASSUME IInv, LoadAssembly PROVE IInv'
  OBVIOUS
<1>0. loaded \in Nat /\ Loaded'
  BY ClassAssumption DEF IInv, Loaded, LoadAssembly
<1>1. ASSUME NEW n, Scan(n) # NoClass PROVE Scan(n)' = Scan(n)
  BY <1>0, <1>1, FoundStays
<1>2. UNCHANGED <<CLASS_CACHE, CLASS>>
  BY DEF LoadAssembly
<1>3. \A u \in Thread : Fresh(CLASS_CACHE[u])'
  BY <1>1, <1>2 DEF IInv, Fresh
<1>4. Owned(CLASS)'
  BY <1>1, <1>2 DEF IInv, Owned, IsOwn
<1>5. QED
  BY <1>0, <1>2, <1>3, <1>4 DEF IInv

LEMMA ViewIs ==
  ASSUME IInv, NEW t \in Thread
  PROVE  /\ View(t) = V(CLASS_CACHE[t], CLASS, NoClass)
         /\ Fresh(CLASS_CACHE[t]) /\ Owned(CLASS) /\ Loaded
BY DEF View, V, IInv

\* What any lookup of a class does.
Looked(t) == \E a, b, g : /\ Keep(t, V(a, b, g)) /\ UNCHANGED loaded
                          /\ Fresh(a) /\ Owned(b) /\ Grows(CLASS, b)

LEMMA LookupIs ==
  ASSUME IInv, ClassNext
  PROVE  LoadAssembly \/ \E t \in Thread : Looked(t)
<1>1. ASSUME NEW t \in Thread, NEW n \in Sought, Find(t, n)
      PROVE  Looked(t)
  <2>1. n \in Name
    BY ClassAssumption
  <2>2. PICK a2 : find(View(t), n) = V(a2, CLASS, Scan(n)) /\ Fresh(a2)
    BY <2>1, ViewIs, FindIs
  <2>3. QED
    BY <1>1, <2>2, ViewIs DEF Find, Looked, Grows
<1>2. ASSUME NEW t \in Thread, NEW T \in GenericType, FindGeneric(t, TypeName[T], TypeArg[T])
      PROVE  Looked(t)
  <2>1. PICK a2, g : find_generic(View(t), TypeName[T], TypeArg[T]) = V(a2, CLASS, g) /\ Fresh(a2)
    BY ViewIs, FindGenericIs
  <2>2. QED
    BY <1>2, <2>1, ViewIs DEF FindGeneric, Looked, Grows
<1>3. ASSUME NEW t \in Thread, NEW T \in GenericType, TypeClass(t, T)
      PROVE  Looked(t)
  <2>1. T \in RustType
    BY NamesOfTypes
  <2>2. PICK a2, b2 : /\ class(View(t), T) = V(a2, b2, Answers(b2, T))
                      /\ Fresh(a2) /\ Owned(b2) /\ Grows(CLASS, b2)
    BY <2>1, ViewIs, ClassIs
  <2>3. QED
    BY <1>3, <2>2 DEF TypeClass, Looked
<1>4. QED
  BY <1>1, <1>2, <1>3 DEF ClassNext

LEMMA LookedInv == ASSUME IInv, NEW t \in Thread, Looked(t) PROVE IInv'
BY KeepInv DEF Looked

LEMMA StillInv == ASSUME IInv, UNCHANGED classVars PROVE IInv'
<1>1. ASSUME NEW n PROVE Scan(n)' = Scan(n)
  BY ScanKept DEF classVars
<1>2. \A t \in Thread : Fresh(CLASS_CACHE[t])'
  BY <1>1 DEF classVars, IInv, Fresh
<1>3. Owned(CLASS)'
  BY <1>1 DEF classVars, IInv, Owned, IsOwn
<1>4. QED
  BY <1>2, <1>3 DEF classVars, IInv, Loaded

LEMMA NextInv == IInv /\ [ClassNext]_classVars => IInv'
BY LookupIs, LookedInv, LoadInv, StillInv

LEMMA InvGivesFirst == IInv => CachedClassIsFirst
BY DEF IInv, Fresh, CachedClassIsFirst

LEMMA InvGivesOwn == ASSUME OneArgument PROVE IInv => TypeClassIsOwn
BY DEF IInv, Owned, IsOwn, TypeClassIsOwn

LEMMA InvGivesType == IInv => ClassTypeOK
<1> SUFFICES ASSUME IInv PROVE ClassTypeOK
  OBVIOUS
<1>1. ASSUME NEW t \in Thread, NEW n \in DOMAIN CLASS_CACHE[t] PROVE CLASS_CACHE[t][n] \in Class
  <2>1. CLASS_CACHE[t][n] = Scan(n) /\ Scan(n) # NoClass
    BY DEF IInv, Fresh
  <2>2. Scan(n) \in Option
    BY ScanType DEF IInv
  <2>3. QED
    BY <2>1, <2>2 DEF Option
<1>2. QED
  BY <1>1 DEF IInv, Loaded, Fresh, Owned, Option, ClassTypeOK

-----------------------------------------------------------------------------
(***************************************************************************)
(* Folds over sequences: the set that a fold has still to go through is    *)
(* the first k indices.                                                    *)
(***************************************************************************)
LEMMA GreatestNumber ==
  ASSUME NEW n \in Nat, NEW S \in SUBSET (1 .. n), S # {}
  PROVE  Max(S) \in S /\ \A k \in S : k <= Max(S)
<1> DEFINE R == {n - i : i \in S}
<1>1. R \in SUBSET Nat /\ R # {}
  <2>1. \A i \in S : i \in Nat /\ n - i \in Nat
    OBVIOUS
  <2>2. QED
    BY <2>1
<1>2. PICK m \in R : \A k \in R : m <= k
  BY <1>1, LeastNumber
<1>3. PICK i \in S : m = n - i
  BY <1>2
<1>4. \A k \in S : i >= k
  <2> SUFFICES ASSUME NEW k \in S PROVE i >= k
    OBVIOUS
  <2>1. m <= n - k
    BY <1>2
  <2>2. i \in 1 .. n /\ k \in 1 .. n
    OBVIOUS
  <2> HIDE DEF R
  <2>3. QED
    BY <1>3, <2>1, <2>2
<1>5. Max(S) \in S /\ \A k \in S : Max(S) >= k
  BY <1>4, Zenon DEF Max
<1>6. QED
  BY <1>5

LEMMA LastOfFirst ==
  ASSUME NEW k \in Nat
  PROVE  Max(1 .. (k + 1)) = k + 1 /\ (1 .. (k + 1)) \ {k + 1} = 1 .. k
<1>1. Max(1 .. (k + 1)) \in 1 .. (k + 1) /\ k + 1 <= Max(1 .. (k + 1))
  <2>1. 1 .. (k + 1) \in SUBSET (1 .. (k + 1)) /\ k + 1 \in 1 .. (k + 1) /\ k + 1 \in Nat
    OBVIOUS
  <2> DEFINE S == 1 .. (k + 1)
  <2>2. S # {}
    BY <2>1
  <2> HIDE DEF S
  <2>3. Max(S) \in S /\ \A i \in S : i <= Max(S)
    BY <2>1, <2>2, GreatestNumber DEF S
  <2>4. QED
    BY <2>1, <2>3 DEF S
<1>2. Max(1 .. (k + 1)) = k + 1
  BY <1>1
<1>3. (1 .. (k + 1)) \ {k + 1} = 1 .. k
  OBVIOUS
<1>4. QED
  BY <1>2, <1>3

LEMMA FirstOfMore ==
  ASSUME NEW n \in Nat, NEW k \in 0 .. (n - 1)
  PROVE  /\ 1 .. (k + 1) \in SUBSET (1 .. n) /\ 1 .. (k + 1) # {}
         /\ Max(1 .. (k + 1)) = k + 1 /\ (1 .. (k + 1)) \ {k + 1} = 1 .. k
<1>1. k \in Nat /\ k + 1 \in 1 .. (k + 1) /\ k + 1 <= n
  OBVIOUS
<1>2. \A i \in 1 .. (k + 1) : i \in 1 .. n
  BY <1>1
<1>3. 1 .. (k + 1) # {}
  BY <1>1, Zenon
<1>4. 1 .. (k + 1) \in SUBSET (1 .. n)
  BY <1>2, Zenon
<1>5. QED
  BY <1>1, <1>3, <1>4, LastOfFirst

\* What holds of the first number and of the next of each holds of all.
LEMMA Upwards ==
  ASSUME NEW n \in Nat, NEW Good, 0 \in Good, \A k \in 0 .. (n - 1) : k \in Good => k + 1 \in Good
  PROVE  \A k \in 0 .. n : k \in Good
<1> DEFINE Bad == {k \in 0 .. n : k \notin Good}
<1>1. SUFFICES ASSUME Bad # {} PROVE FALSE
  OBVIOUS
<1>2. PICK m \in Bad : \A k \in Bad : m <= k
  <2>1. Bad \in SUBSET Nat
    OBVIOUS
  <2>2. QED
    BY <1>1, <2>1, LeastNumber
<1>3. m # 0 /\ m \in Nat
  BY <1>2
<1>4. m - 1 \in 0 .. (n - 1)
  BY <1>2, <1>3
<1>5. m - 1 \notin Bad
  BY <1>2, <1>4
<1>6. (m - 1) + 1 \in Good
  BY <1>4, <1>5
<1>7. QED
  BY <1>2, <1>3, <1>6

-----------------------------------------------------------------------------
(***************************************************************************)
(* The folds that ask for classes, as one: over the types of a request,    *)
(* the questions put to a method, and the methods of a class.              *)
(***************************************************************************)
EvalStep(e, T) ==
  IF NoClass \in ToSet(e.classes) THEN e
  ELSE LET w == class(e.view, T) IN [view |-> w, classes |-> Append(e.classes, w.class)]

EvalStart(v) == [view |-> v, classes |-> << >>]

AskStart(v) == [view |-> v, yes |-> TRUE, panicked |-> FALSE]

MatchStep(c, name, sig, e, k) ==
  IF e.panicked THEN e
  ELSE Sorted(e.found, FoldLeft(Ask, AskStart(e.view), Questions(name, sig, <<c, k>>)), <<c, k>>)

MatchStart(v) == [view |-> v, panicked |-> FALSE, found |-> << >>]

OverTypes(Ts)             == [over |-> "types", types |-> Ts]
OverQuestions(qs)         == [over |-> "questions", questions |-> qs]
OverMethods(c, name, sig) == [over |-> "methods", class |-> c, name |-> name, sig |-> sig]

Do(x, e, k) ==
  IF x.over = "types" THEN EvalStep(e, x.types[k])
  ELSE IF x.over = "questions" THEN Ask(e, x.questions[k])
  ELSE MatchStep(x.class, x.name, x.sig, e, k)

WalkBody(g, x, v, s) == IF s = {} THEN v ELSE Do(x, g[s \ {Max(s)}], Max(s))

Walks(g, x, v, k) == g = [s \in SUBSET (1 .. k) |-> WalkBody(g, x, v, s)]

LEMMA WalkExists ==
  ASSUME NEW x, NEW v, NEW n \in Nat
  PROVE  \E g : Walks(g, x, v, n)
<1> DEFINE Good == {k \in Nat : \E g : Walks(g, x, v, k)}
<1>1. 0 \in Good
  <2> DEFINE g == [s \in SUBSET (1 .. 0) |-> v]
  <2>1. \A s \in SUBSET (1 .. 0) : WalkBody(g, x, v, s) = v
    BY DEF WalkBody
  <2>2. g = [s \in SUBSET (1 .. 0) |-> WalkBody(g, x, v, s)]
    BY <2>1, Zenon
  <2> HIDE DEF g
  <2>3. QED
    BY <2>2 DEF Walks
<1>2. ASSUME NEW k \in Nat, k \in Good PROVE k + 1 \in Good
  <2>1. PICK g : Walks(g, x, v, k)
    BY <1>2
  <2> DEFINE h == [s \in SUBSET (1 .. (k + 1)) |-> WalkBody(g, x, v, s)]
  <2>2. ASSUME NEW s \in SUBSET (1 .. k) PROVE h[s] = g[s]
    <3>1. s \in SUBSET (1 .. (k + 1))
      OBVIOUS
    <3>2. h[s] = WalkBody(g, x, v, s)
      BY <3>1, Zenon
    <3>3. g[s] = WalkBody(g, x, v, s)
      BY <2>1, Zenon DEF Walks
    <3>4. QED
      BY <3>2, <3>3, Zenon
  <2> HIDE DEF h
  <2>3. ASSUME NEW s \in SUBSET (1 .. (k + 1)) PROVE WalkBody(g, x, v, s) = WalkBody(h, x, v, s)
    <3>1. CASE s = {}
      BY <3>1, Zenon DEF WalkBody
    <3>2. CASE s # {}
      <4>1. Max(s) \in s /\ \A i \in s : i <= Max(s)
        <5>1. k + 1 \in Nat
          OBVIOUS
        <5>2. QED
          BY <3>2, <5>1, GreatestNumber
      <4>2. s \ {Max(s)} \in SUBSET (1 .. k)
        <5>1. ASSUME NEW i \in s \ {Max(s)} PROVE i \in 1 .. k
          <6>1. i \in 1 .. (k + 1) /\ Max(s) \in 1 .. (k + 1) /\ i # Max(s) /\ i <= Max(s)
            BY <4>1
          <6> HIDE <4>1
          <6>2. QED
            BY <6>1
        <5>2. QED
          BY <5>1
      <4>3. h[s \ {Max(s)}] = g[s \ {Max(s)}]
        BY <2>2, <4>2
      <4>4. QED
        BY <4>3, Zenon DEF WalkBody
    <3>3. QED
      BY <3>1, <3>2
  <2>4. h = [s \in SUBSET (1 .. (k + 1)) |-> WalkBody(h, x, v, s)]
    BY <2>3, Zenon DEF h
  <2>5. QED
    BY <2>4 DEF Walks
<1>3. \A k \in 0 .. n : k \in Good
  <2> HIDE DEF Good
  <2>1. \A k \in 0 .. (n - 1) : k \in Good => k + 1 \in Good
    BY <1>2
  <2>2. QED
    BY <1>1, <2>1, Upwards
<1>4. QED
  BY <1>3

Walked(g, x, v, n) ==
  /\ g[1 .. 0] = v
  /\ \A k \in 0 .. (n - 1) : g[1 .. (k + 1)] = Do(x, g[1 .. k], k + 1)

LEMMA WalkFirst ==
  ASSUME NEW x, NEW v, NEW n \in Nat, NEW g, Walks(g, x, v, n)
  PROVE  Walked(g, x, v, n)
<1>1. \A s \in SUBSET (1 .. n) : g[s] = WalkBody(g, x, v, s)
  BY Zenon DEF Walks
<1>2. g[1 .. 0] = v
  <2>1. 1 .. 0 = {} /\ 1 .. 0 \in SUBSET (1 .. n)
    OBVIOUS
  <2>2. QED
    BY <1>1, <2>1, Zenon DEF WalkBody
<1>3. ASSUME NEW k \in 0 .. (n - 1)
      PROVE  g[1 .. (k + 1)] = Do(x, g[1 .. k], k + 1)
  BY <1>1, FirstOfMore, Zenon DEF WalkBody
<1>4. QED
  BY <1>2, <1>3, Zenon DEF Walked

\* Evaluate, Ask one question after the other, and Matching are such folds.
LEMMA EvaluateIsWalk ==
  ASSUME NEW v, NEW r, NEW n \in Nat, DOMAIN Types(r) = 1 .. n
  PROVE  \E g : Walks(g, OverTypes(Types(r)), EvalStart(v), n) /\ Evaluate(v, r) = g[1 .. n]
<1> DEFINE x == OverTypes(Types(r))
           P(g) == g = [s \in SUBSET (1 .. n) |-> IF s = {} THEN EvalStart(v) ELSE EvalStep(g[s \ {Max(s)}], Types(r)[Max(s)])]
<1>1. \A e, k : Do(x, e, k) = EvalStep(e, Types(r)[k])
  BY DEF Do, OverTypes
<1> HIDE DEF x
<1>2. \A g : P(g) <=> Walks(g, x, EvalStart(v), n)
  BY <1>1, Zenon DEF Walks, WalkBody
<1>3. Evaluate(v, r) = (CHOOSE g : P(g))[1 .. n]
  BY Zenon DEF Evaluate, EvalStart, EvalStep, FoldLeft, MapThenFoldSet
<1>4. P(CHOOSE g : P(g))
  BY <1>2, WalkExists, Zenon
<1> HIDE DEF P
<1>5. QED
  BY <1>2, <1>3, <1>4 DEF x

LEMMA AskingIsWalk ==
  ASSUME NEW v, NEW qs, NEW n \in Nat, DOMAIN qs = 1 .. n
  PROVE  \E g : Walks(g, OverQuestions(qs), v, n) /\ FoldLeft(Ask, v, qs) = g[1 .. n]
<1> DEFINE x == OverQuestions(qs)
           P(g) == g = [s \in SUBSET (1 .. n) |-> IF s = {} THEN v ELSE Ask(g[s \ {Max(s)}], qs[Max(s)])]
<1>1. \A e, k : Do(x, e, k) = Ask(e, qs[k])
  BY DEF Do, OverQuestions
<1> HIDE DEF x
<1>2. \A g : P(g) <=> Walks(g, x, v, n)
  BY <1>1, Zenon DEF Walks, WalkBody
<1>3. FoldLeft(Ask, v, qs) = (CHOOSE g : P(g))[1 .. n]
  BY Zenon DEF FoldLeft, MapThenFoldSet
<1>4. P(CHOOSE g : P(g))
  BY <1>2, WalkExists, Zenon
<1> HIDE DEF P
<1>5. QED
  BY <1>2, <1>3, <1>4 DEF x

LEMMA MatchingIsWalk ==
  ASSUME NEW v, NEW c, NEW name, NEW sig, NEW n \in Nat, n = Len(methods[c])
  PROVE  \E g : Walks(g, OverMethods(c, name, sig), MatchStart(v), n) /\ Matching(v, c, name, sig) = g[1 .. n]
<1> DEFINE x == OverMethods(c, name, sig)
           ks == [k \in 1 .. Len(methods[c]) |-> k]
           P(g) == g = [s \in SUBSET DOMAIN ks |-> IF s = {} THEN MatchStart(v)
                                                 ELSE MatchStep(c, name, sig, g[s \ {Max(s)}], ks[Max(s)])]
<1>1. \A e, k : Do(x, e, k) = MatchStep(c, name, sig, e, k)
  BY DEF Do, OverMethods
<1> HIDE DEF x
<1>2. \A g : P(g) <=> Walks(g, x, MatchStart(v), n)
  <2> SUFFICES ASSUME NEW g PROVE P(g) <=> Walks(g, x, MatchStart(v), n)
    OBVIOUS
  <2>0. DOMAIN ks = 1 .. n
    OBVIOUS
  <2>1. ASSUME NEW s \in SUBSET (1 .. n), s # {} PROVE ks[Max(s)] = Max(s)
    <3>1. Max(s) \in 1 .. n
      BY <2>1, GreatestNumber
    <3>2. QED
      BY <3>1
  <2> HIDE DEF ks
  <2>2. ASSUME NEW s \in SUBSET (1 .. n)
        PROVE  WalkBody(g, x, MatchStart(v), s)
                 = IF s = {} THEN MatchStart(v) ELSE MatchStep(c, name, sig, g[s \ {Max(s)}], ks[Max(s)])
    BY <1>1, <2>1, Zenon DEF WalkBody
  <2>3. QED
    BY <2>0, <2>2, Zenon DEF Walks
<1>3. Matching(v, c, name, sig) = (CHOOSE g : P(g))[1 .. n]
  <2>1. Matching(v, c, name, sig) = (CHOOSE g : P(g))[DOMAIN ks]
    BY Zenon DEF Matching, MatchStart, MatchStep, AskStart, FoldLeft, MapThenFoldSet
  <2>2. DOMAIN ks = 1 .. n
    OBVIOUS
  <2> HIDE DEF ks, P
  <2>3. QED
    BY <2>1, <2>2, Zenon
<1>4. P(CHOOSE g : P(g))
  BY <1>2, WalkExists, Zenon
<1> HIDE DEF P
<1>5. QED
  BY <1>2, <1>3, <1>4 DEF x

-----------------------------------------------------------------------------
LEMMA AnswersType ==
  ASSUME NEW b, Owned(b), Loaded, NEW T \in RustType
  PROVE  Answers(b, T) \in Option
BY ScanType, NamesOfTypes DEF Answers, Owned

LEMMA AnswersStay ==
  ASSUME NEW b, NEW b2, Grows(b, b2), NEW T, Answers(b, T) # NoClass
  PROVE  Answers(b2, T) = Answers(b, T)
BY NamesOfTypes DEF Answers, Grows

\* The classes of the types Ts, once they have been asked for.
Known(b, Ts) == [i \in 1 .. Len(Ts) |-> Answers(b, Ts[i])]

\* What evaluating the first k types leaves: every class, or a class not found.
Evaluated(b, Ts, k, e) ==
  \E a2, b2, c2 :
    /\ e = [view |-> V(a2, b2, c2), classes |-> e.classes]
    /\ Fresh(a2) /\ Owned(b2) /\ Grows(b, b2)
    /\ \/ NoClass \in ToSet(e.classes) /\ \E i \in 1 .. k : Answers(b, Ts[i]) = NoClass
       \/ /\ NoClass \notin ToSet(e.classes)
          /\ e.classes = [i \in 1 .. k |-> Answers(b2, Ts[i])]

LEMMA EvaluatedEvery ==
  ASSUME NEW b, NEW Ts, NEW k, NEW e, NEW a2, NEW b2, NEW c2,
         e = [view |-> V(a2, b2, c2), classes |-> e.classes],
         Fresh(a2), Owned(b2), Grows(b, b2), NoClass \notin ToSet(e.classes),
         e.classes = [i \in 1 .. k |-> Answers(b2, Ts[i])]
  PROVE  Evaluated(b, Ts, k, e)
<1> DEFINE Q(x, y, z) ==
    /\ e = [view |-> V(x, y, z), classes |-> e.classes]
    /\ Fresh(x) /\ Owned(y) /\ Grows(b, y)
    /\ \/ NoClass \in ToSet(e.classes) /\ \E i \in 1 .. k : Answers(b, Ts[i]) = NoClass
       \/ /\ NoClass \notin ToSet(e.classes)
          /\ e.classes = [i \in 1 .. k |-> Answers(y, Ts[i])]
<1>1. Q(a2, b2, c2)
  OBVIOUS
<1>2. Evaluated(b, Ts, k, e) <=> \E x, y, z : Q(x, y, z)
  BY Zenon DEF Evaluated
<1> HIDE DEF Q
<1>3. QED
  BY <1>1, <1>2

LEMMA EvaluateOne ==
  ASSUME Loaded, NEW b, NEW Ts \in Seq(RustType), NEW k \in 0 .. (Len(Ts) - 1), NEW e,
         Evaluated(b, Ts, k, e)
  PROVE  Evaluated(b, Ts, k + 1, EvalStep(e, Ts[k + 1]))
<1> DEFINE cs == e.classes  T == Ts[k + 1]
<1>0. T \in RustType /\ k \in Nat /\ k + 1 \in 1 .. (k + 1)
  OBVIOUS
<1>1. PICK a2, b2, c2 : 
    /\ e = [view |-> V(a2, b2, c2), classes |-> e.classes]
    /\ Fresh(a2) /\ Owned(b2) /\ Grows(b, b2)
    /\ \/ NoClass \in ToSet(e.classes) /\ \E i \in 1 .. k : Answers(b, Ts[i]) = NoClass
       \/ /\ NoClass \notin ToSet(e.classes)
          /\ e.classes = [i \in 1 .. k |-> Answers(b2, Ts[i])]
  BY Zenon DEF Evaluated
<1>2. CASE NoClass \in ToSet(cs)
  <2>1. EvalStep(e, T) = e
    BY <1>2, Zenon DEF EvalStep
  <2>2. \E i \in 1 .. (k + 1) : Answers(b, Ts[i]) = NoClass
    BY <1>0, <1>1, <1>2
  <2>3. QED
    BY <1>1, <1>2, <2>1, <2>2, Zenon DEF Evaluated
<1>3. CASE NoClass \notin ToSet(cs)
  <2>1. PICK a3, b3 : /\ class(V(a2, b2, c2), T) = V(a3, b3, Answers(b3, T))
                      /\ Fresh(a3) /\ Owned(b3) /\ Grows(b2, b3)
    <3>1. Fresh(a2) /\ Owned(b2) /\ T \in RustType
      BY <1>0, <1>1
    <3> HIDE DEF T
    <3>2. QED
      BY <3>1, ClassIs
  <2> DEFINE w == V(a3, b3, Answers(b3, T))  ds == Append(cs, Answers(b3, T))
  <2>2. EvalStep(e, T) = [view |-> w, classes |-> ds]
    <3>1. e.view = V(a2, b2, c2) /\ w.class = Answers(b3, T)
      BY <1>1 DEF V
    <3> HIDE DEF w
    <3>2. QED
      BY <1>3, <2>1, <3>1, Zenon DEF EvalStep, w
  <2>3. Grows(b, b3)
    BY <1>1, <2>1 DEF Grows
  <2>4. \A i \in 1 .. k : cs[i] = Answers(b3, Ts[i])
    <3> SUFFICES ASSUME NEW i \in 1 .. k PROVE cs[i] = Answers(b3, Ts[i])
      OBVIOUS
    <3>1. cs[i] = Answers(b2, Ts[i]) /\ cs[i] \in ToSet(cs)
      BY <1>1, <1>3 DEF ToSet
    <3>2. Answers(b2, Ts[i]) # NoClass
      BY <1>3, <3>1
    <3>3. QED
      BY <2>1, <3>1, <3>2, AnswersStay
  <2>5. ds = [i \in 1 .. (k + 1) |-> Answers(b3, Ts[i])]
    <3>1. cs \in Seq({cs[i] : i \in 1 .. k}) /\ Len(cs) = k
      BY <1>0, <1>1, <1>3
    <3>2. ds = [i \in 1 .. (k + 1) |-> ds[i]] /\ ds[k + 1] = Answers(b3, T) /\ \A i \in 1 .. k : ds[i] = cs[i]
      BY <1>0, <3>1
    <3> HIDE DEF ds, cs
    <3>3. \A i \in 1 .. (k + 1) : ds[i] = Answers(b3, Ts[i])
      <4>1. ASSUME NEW i \in 1 .. (k + 1), i # k + 1 PROVE i \in 1 .. k
        BY <1>0, <4>1
      <4>2. QED
        BY <2>4, <3>2, <4>1
    <3>4. QED
      BY <3>2, <3>3
  <2>6. [view |-> w, classes |-> ds].classes = ds
    OBVIOUS
  <2>7. CASE Answers(b3, T) = NoClass
    <3>1. Answers(b, T) = NoClass
      BY <2>3, <2>7, AnswersStay
    <3>2. NoClass \in ToSet(ds)
      BY <1>0, <2>5, <2>7 DEF ToSet
    <3>3. \E i \in 1 .. (k + 1) : Answers(b, Ts[i]) = NoClass
      BY <1>0, <3>1
    <3> HIDE DEF ds
    <3>4. QED
      BY <2>1, <2>2, <2>3, <2>6, <3>2, <3>3, Zenon DEF Evaluated
  <2>8. CASE Answers(b3, T) # NoClass
    <3>1. NoClass \notin ToSet(ds)
      <4>1. ASSUME NEW i \in 1 .. (k + 1) PROVE Answers(b3, Ts[i]) # NoClass
        <5>1. CASE i = k + 1
          BY <2>8, <5>1
        <5>2. CASE i # k + 1
          <6>1. i \in 1 .. k
            BY <1>0, <5>2
          <6>2. cs[i] \in ToSet(cs) /\ cs[i] = Answers(b3, Ts[i])
            BY <1>1, <1>3, <2>4, <6>1 DEF ToSet
          <6>3. QED
            BY <1>3, <6>2
        <5>3. QED
          BY <5>1, <5>2
      <4> HIDE DEF ds
      <4>2. QED
        BY <2>5, <4>1 DEF ToSet
    <3> HIDE DEF ds
    <3> DEFINE f == [view |-> w, classes |-> ds]
    <3>2. f.classes = [i \in 1 .. (k + 1) |-> Answers(b3, Ts[i])] /\ NoClass \notin ToSet(f.classes)
      BY <2>5, <2>6, <3>1
    <3>3. f = [view |-> w, classes |-> f.classes]
      BY <2>6
    <3> HIDE DEF f
    <3>4. Evaluated(b, Ts, k + 1, f)
      BY <2>1, <2>3, <3>2, <3>3, EvaluatedEvery
    <3>5. QED
      BY <2>2, <3>4 DEF f
  <2>9. QED
    BY <2>7, <2>8
<1>4. QED
  BY <1>2, <1>3

\* Evaluating the types of a request.
LEMMA EvaluateAll ==
  ASSUME Loaded, NEW a, NEW b, NEW c, Fresh(a), Owned(b), NEW r, Types(r) \in Seq(RustType)
  PROVE  Evaluated(b, Types(r), Len(Types(r)), Evaluate(V(a, b, c), r))
<1> DEFINE Ts == Types(r)  n == Len(Ts)
<1>1. n \in Nat /\ DOMAIN Ts = 1 .. n
  OBVIOUS
<1>2. PICK e : Walks(e, OverTypes(Ts), EvalStart(V(a, b, c)), n) /\ Evaluate(V(a, b, c), r) = e[1 .. n]
  <2> HIDE DEF n, Ts
  <2>1. QED
    BY <1>1, EvaluateIsWalk DEF Ts
<1> DEFINE Good == {k \in 0 .. n : Evaluated(b, Ts, k, e[1 .. k])}
<1>3. /\ e[1 .. 0] = EvalStart(V(a, b, c))
      /\ \A k \in 0 .. (n - 1) : e[1 .. (k + 1)] = EvalStep(e[1 .. k], Ts[k + 1])
  <2> DEFINE x == OverTypes(Ts)  v == EvalStart(V(a, b, c))
  <2>1. \A f, k : Do(x, f, k) = EvalStep(f, Ts[k])
    BY DEF Do, OverTypes
  <2>2. Walks(e, x, v, n)
    BY <1>2
  <2> HIDE DEF n, Ts, x, v, Good
  <2>3. Walked(e, x, v, n)
    BY <1>1, <2>2, WalkFirst, Zenon
  <2>4. QED
    BY <2>1, <2>3, Zenon DEF v, Walked
<1>4. 0 \in Good
  <2>1. NoClass \notin ToSet(<< >>) /\ << >> = [i \in 1 .. 0 |-> Answers(b, Ts[i])] /\ Grows(b, b)
    BY DEF ToSet, Grows
  <2>2. Evaluated(b, Ts, 0, EvalStart(V(a, b, c)))
    BY <2>1, Zenon DEF Evaluated, EvalStart
  <2>3. QED
    BY <1>1, <1>3, <2>2
<1>5. ASSUME NEW k \in 0 .. (n - 1), k \in Good PROVE k + 1 \in Good
  <2>1. k + 1 \in 0 .. n
    BY <1>1
  <2> HIDE DEF n
  <2>2. Evaluated(b, Ts, k + 1, EvalStep(e[1 .. k], Ts[k + 1]))
    BY <1>5, EvaluateOne DEF n
  <2>3. QED
    BY <1>3, <2>1, <2>2
<1>6. n \in Good
  <2> HIDE DEF Good, n
  <2>1. \A k \in 0 .. n : k \in Good
    BY <1>1, <1>4, <1>5, Upwards
  <2>2. QED
    BY <1>1, <2>1
<1>7. QED
  BY <1>6, <1>2

-----------------------------------------------------------------------------
(***************************************************************************)
(* The classes that a class inherits from.                                 *)
(***************************************************************************)

\* What holds of a class when it holds of its parent holds of every class.
LEMMA Downwards ==
  ASSUME NEW S, \A c \in Class : Parent[c] = NoClass \/ Parent[c] \in S => c \in S
  PROVE  \A c \in Class : c \in S
<1>1. SUFFICES ASSUME Class \ S # {} PROVE FALSE
  OBVIOUS
<1>2. PICK c \in Class \ S : Parent[c] \notin Class \ S
  BY <1>1, MetadataAssumption
<1>3. Parent[c] \in Class \cup {NoClass}
  BY MetadataAssumption
<1>4. QED
  BY <1>2, <1>3

ClimbBody(g, c) == <<c>> \o IF Parent[c] = NoClass THEN << >> ELSE g[Parent[c]]

\* g climbs from the classes of A, which has their parents.
Climbs(A, g) ==
  /\ A \subseteq Class
  /\ \A c \in A : Parent[c] = NoClass \/ Parent[c] \in A
  /\ g = [c \in A |-> ClimbBody(g, c)]

LEMMA ClimbsFrom ==
  ASSUME NEW c \in Class
  PROVE  \E A, g : c \in A /\ Climbs(A, g)
<1> DEFINE S == {d \in Class : \E A, g : d \in A /\ Climbs(A, g)}
<1>1. ASSUME NEW d \in Class, Parent[d] = NoClass \/ Parent[d] \in S
      PROVE  d \in S
  <2>1. PICK A, g : (Parent[d] = NoClass \/ Parent[d] \in A) /\ Climbs(A, g)
    <3>1. CASE Parent[d] = NoClass
      <4>1. [x \in {} |-> x] = [x \in {} |-> ClimbBody([y \in {} |-> y], x)]
        OBVIOUS
      <4>2. Climbs({}, [x \in {} |-> x])
        BY <4>1, Zenon DEF Climbs
      <4>3. QED
        BY <3>1, <4>2
    <3>2. CASE Parent[d] \in S
      BY <3>2
    <3>3. QED
      BY <1>1, <3>1, <3>2
  <2> DEFINE B == A \cup {d}  h == [x \in B |-> ClimbBody(g, x)]
  <2>2. \A x \in A : h[x] = g[x]
    <3> SUFFICES ASSUME NEW x \in A PROVE h[x] = g[x]
      OBVIOUS
    <3>1. h[x] = ClimbBody(g, x)
      BY Zenon
    <3>2. g[x] = ClimbBody(g, x)
      BY <2>1, Zenon DEF Climbs
    <3>3. QED
      BY <3>1, <3>2, Zenon
  <2>3. \A x \in B : Parent[x] = NoClass \/ Parent[x] \in A
    BY <2>1 DEF Climbs
  <2> HIDE DEF h
  <2>4. \A x \in B : ClimbBody(g, x) = ClimbBody(h, x)
    <3> SUFFICES ASSUME NEW x \in B PROVE ClimbBody(g, x) = ClimbBody(h, x)
      OBVIOUS
    <3>1. Parent[x] = NoClass \/ h[Parent[x]] = g[Parent[x]]
      BY <2>2, <2>3
    <3>2. QED
      BY <3>1, Zenon DEF ClimbBody
  <2>5. h = [x \in B |-> ClimbBody(h, x)]
    BY <2>4, Zenon DEF h
  <2>6. Climbs(B, h)
    BY <2>1, <2>3, <2>5 DEF Climbs
  <2>7. QED
    BY <2>6
<1>2. c \in S
  <2> HIDE DEF S
  <2>1. QED
    BY <1>1, Downwards
<1>3. QED
  BY <1>2

LEMMA ClimbsAlike ==
  ASSUME NEW A, NEW g, NEW B, NEW h, Climbs(A, g), Climbs(B, h), NEW c \in Class, c \in A, c \in B
  PROVE  g[c] = h[c]
<1> DEFINE S == {d \in Class : d \in A /\ d \in B => g[d] = h[d]}
<1>1. ASSUME NEW d \in Class, Parent[d] = NoClass \/ Parent[d] \in S
      PROVE  d \in S
  <2> SUFFICES ASSUME d \in A, d \in B PROVE g[d] = h[d]
    OBVIOUS
  <2>1. g[d] = ClimbBody(g, d) /\ h[d] = ClimbBody(h, d)
    BY Zenon DEF Climbs
  <2>2. Parent[d] = NoClass \/ g[Parent[d]] = h[Parent[d]]
    BY <1>1 DEF Climbs
  <2>3. QED
    BY <2>1, <2>2, Zenon DEF ClimbBody
<1>2. c \in S
  <2> HIDE DEF S
  <2>1. QED
    BY <1>1, Downwards
<1>3. QED
  BY <1>2

LEMMA HierarchyIs ==
  ASSUME NEW c \in Class
  PROVE  hierarchy[c] = <<c>> \o IF Parent[c] = NoClass THEN << >> ELSE hierarchy[Parent[c]]
<1> DEFINE G(x) == CHOOSE g : \E A : x \in A /\ Climbs(A, g)
           H == [x \in Class |-> G(x)[x]]
<1>1. ASSUME NEW x \in Class PROVE \E A : x \in A /\ Climbs(A, G(x))
  BY ClimbsFrom, Zenon
<1> HIDE DEF G
<1>2. ASSUME NEW x \in Class PROVE H[x] = ClimbBody(H, x)
  <2>1. PICK A : x \in A /\ Climbs(A, G(x))
    BY <1>1
  <2>2. H[x] = ClimbBody(G(x), x)
    BY <2>1, Zenon DEF Climbs
  <2>3. CASE Parent[x] = NoClass
    BY <2>2, <2>3, Zenon DEF ClimbBody
  <2>4. CASE Parent[x] # NoClass
    <3>1. Parent[x] \in A /\ Parent[x] \in Class
      BY <2>1, <2>4 DEF Climbs
    <3>2. PICK B : Parent[x] \in B /\ Climbs(B, G(Parent[x]))
      BY <1>1, <3>1
    <3>3. G(x)[Parent[x]] = G(Parent[x])[Parent[x]]
      BY <2>1, <3>1, <3>2, ClimbsAlike
    <3>4. H[Parent[x]] = G(x)[Parent[x]]
      BY <3>1, <3>3, Zenon
    <3>5. QED
      BY <2>2, <2>4, <3>4, Zenon DEF ClimbBody
  <2>5. QED
    BY <2>3, <2>4
<1>3. H = [x \in Class |-> ClimbBody(H, x)]
  BY <1>2, Zenon
<1>4. hierarchy = CHOOSE g : g = [x \in Class |-> ClimbBody(g, x)]
  BY Zenon DEF hierarchy, ClimbBody
<1>5. hierarchy = [x \in Class |-> ClimbBody(hierarchy, x)]
  <2> HIDE DEF H
  <2>1. QED
    BY <1>3, <1>4, Zenon
<1>2x. hierarchy[c] = ClimbBody(hierarchy, c)
  BY <1>5, Zenon
<1>7. QED
  BY <1>2x, Zenon DEF ClimbBody

LEMMA HierarchyType ==
  ASSUME NEW c \in Class
  PROVE  hierarchy[c] \in Seq(Class) /\ Len(hierarchy[c]) > 0 /\ hierarchy[c][1] = c
<1> DEFINE S == {d \in Class : hierarchy[d] \in Seq(Class)}
<1>1. ASSUME NEW d \in Class, Parent[d] = NoClass \/ Parent[d] \in S
      PROVE  d \in S
  <2> DEFINE rest == IF Parent[d] = NoClass THEN << >> ELSE hierarchy[Parent[d]]
  <2>1. rest \in Seq(Class)
    BY <1>1
  <2>2. hierarchy[d] = <<d>> \o rest
    BY HierarchyIs
  <2> HIDE DEF rest
  <2>3. <<d>> \o rest \in Seq(Class)
    BY <2>1
  <2>4. QED
    BY <2>2, <2>3
<1>2. \A d \in Class : d \in S
  <2> HIDE DEF S
  <2>1. QED
    BY <1>1, Downwards
<1> DEFINE rest == IF Parent[c] = NoClass THEN << >> ELSE hierarchy[Parent[c]]
<1>3. rest \in Seq(Class)
  BY <1>2, MetadataAssumption
<1>4. hierarchy[c] = <<c>> \o rest
  BY HierarchyIs
<1> HIDE DEF rest, S
<1>5. QED
  BY <1>3, <1>4

-----------------------------------------------------------------------------
(***************************************************************************)
(* The methods of a class and of those it inherits from.                   *)
(***************************************************************************)
FlattenBody(ss, g, i) == IF i = 1 THEN ss[i] ELSE g[i - 1] \o ss[i]

Flattens(ss, g, k) == g = [i \in 1 .. k |-> FlattenBody(ss, g, i)]

LEMMA FlattenExists ==
  ASSUME NEW ss, NEW n \in Nat
  PROVE  \E g : Flattens(ss, g, n)
<1> DEFINE Good == {k \in Nat : \E g : Flattens(ss, g, k)}
<1>1. 0 \in Good
  <2> DEFINE g == [i \in 1 .. 0 |-> i]
  <2>1. g = [i \in 1 .. 0 |-> FlattenBody(ss, g, i)]
    OBVIOUS
  <2> HIDE DEF g
  <2>2. QED
    BY <2>1 DEF Flattens
<1>2. ASSUME NEW k \in Nat, k \in Good PROVE k + 1 \in Good
  <2>1. PICK g : Flattens(ss, g, k)
    BY <1>2
  <2> DEFINE h == [i \in 1 .. (k + 1) |-> FlattenBody(ss, g, i)]
  <2>2. ASSUME NEW i \in 1 .. k PROVE h[i] = g[i]
    <3>1. h[i] = FlattenBody(ss, g, i)
      BY i \in 1 .. (k + 1), Zenon
    <3>2. g[i] = FlattenBody(ss, g, i)
      BY <2>1, Zenon DEF Flattens
    <3>3. QED
      BY <3>1, <3>2, Zenon
  <2> HIDE DEF h
  <2>3. ASSUME NEW i \in 1 .. (k + 1) PROVE FlattenBody(ss, g, i) = FlattenBody(ss, h, i)
    <3>1. i = 1 \/ i - 1 \in 1 .. k
      OBVIOUS
    <3>2. i = 1 \/ h[i - 1] = g[i - 1]
      BY <2>2, <3>1
    <3>3. QED
      BY <3>2, Zenon DEF FlattenBody
  <2>4. h = [i \in 1 .. (k + 1) |-> FlattenBody(ss, h, i)]
    BY <2>3, Zenon DEF h
  <2>5. QED
    BY <2>4 DEF Flattens
<1>3. \A k \in 0 .. n : k \in Good
  <2> HIDE DEF Good
  <2>1. \A k \in 0 .. (n - 1) : k \in Good => k + 1 \in Good
    BY <1>2
  <2>2. QED
    BY <1>1, <2>1, Upwards
<1>4. QED
  BY <1>3

LEMMA FlattenType ==
  ASSUME NEW S, NEW ss \in Seq(Seq(S)), Len(ss) > 0
  PROVE  FlattenSeq(ss) \in Seq(S)
<1> DEFINE n == Len(ss)
           f == CHOOSE g : Flattens(ss, g, n)
           Good == {k \in 0 .. n : k = 0 \/ f[k] \in Seq(S)}
<1>1. FlattenSeq(ss) = f[n]
  <2>1. Len(ss) # 0
    OBVIOUS
  <2>2. QED
    BY <2>1, Zenon DEF FlattenSeq, Flattens, FlattenBody
<1>2. n \in Nat /\ n > 0
  OBVIOUS
<1>3. Flattens(ss, f, n)
  <2> HIDE DEF n
  <2>1. QED
    BY <1>2, FlattenExists, Zenon
<1> HIDE DEF f
<1>4. ASSUME NEW k \in 0 .. (n - 1), k \in Good PROVE k + 1 \in Good
  <2>1. k + 1 \in 1 .. n /\ k + 1 \in 0 .. n
    OBVIOUS
  <2>2. f[k + 1] = FlattenBody(ss, f, k + 1)
    BY <1>3, <2>1, Zenon DEF Flattens
  <2>3. ss[k + 1] \in Seq(S)
    BY <2>1
  <2>4. CASE k = 0
    BY <2>1, <2>2, <2>3, <2>4 DEF FlattenBody
  <2>5. CASE k # 0
    <3>1. f[k + 1] = f[k] \o ss[k + 1]
      <4>1. (k + 1) - 1 = k /\ k + 1 # 1
        BY <2>5
      <4>2. QED
        BY <2>2, <4>1 DEF FlattenBody
    <3>2. f[k] \in Seq(S)
      BY <1>4, <2>5
    <3> HIDE DEF n
    <3>3. f[k] \o ss[k + 1] \in Seq(S)
      BY <2>3, <3>2
    <3>4. QED
      BY <2>1, <3>1, <3>3
  <2>6. QED
    BY <2>4, <2>5
<1>5. n \in Good
  <2>1. 0 \in Good
    BY <1>2
  <2> HIDE DEF Good, n
  <2>2. \A k \in 0 .. n : k \in Good
    BY <1>2, <1>4, <2>1, Upwards
  <2>3. QED
    BY <1>2, <2>2
<1>2x. QED
  BY <1>1, <1>2, <1>5

\* The methods that are declared somewhere.
Declared == {m \in Class \X Nat : m[2] \in DOMAIN methods[m[1]]}

LEMMA InfoType ==
  ASSUME methods \in MethodTables, NEW m \in Declared
  PROVE  Info(m) \in Method
<1>1. m[1] \in Class /\ m[2] \in DOMAIN methods[m[1]]
  BY DEF Declared
<1>2. methods \in [Class -> Seq(Method)]
  BY MetadataAssumption
<1>3. methods[m[1]] \in Seq(Method)
  BY <1>1, <1>2
<1> DEFINE s == methods[m[1]]
<1> HIDE DEF s
<1>4. s[m[2]] \in Method
  BY <1>1, <1>3 DEF s
<1>5. QED
  BY <1>4 DEF s, Info

LEMMA HierarchyMethodsType ==
  ASSUME methods \in MethodTables, NEW c \in Class
  PROVE  hierarchy_methods(c) \in Seq(Declared)
<1> DEFINE h == hierarchy[c]
           of(i) == [k \in 1 .. Len(methods[h[i]]) |-> <<h[i], k>>]
           ss == [i \in 1 .. Len(h) |-> of(i)]
<1>1. h \in Seq(Class) /\ Len(h) > 0 /\ Len(h) \in Nat
  BY HierarchyType
<1> HIDE DEF h
<1>2. ASSUME NEW i \in 1 .. Len(h) PROVE of(i) \in Seq(Declared)
  <2>1. h[i] \in Class
    BY <1>1
  <2>2. methods[h[i]] \in Seq(Method)
    BY <2>1, MetadataAssumption
  <2>3. Len(methods[h[i]]) \in Nat /\ DOMAIN methods[h[i]] = 1 .. Len(methods[h[i]])
    BY <2>2
  <2>4. \A k \in 1 .. Len(methods[h[i]]) : <<h[i], k>> \in Declared
    BY <2>1, <2>3 DEF Declared
  <2>5. QED
    BY <2>3, <2>4
<1> HIDE DEF of
<1>3. ss \in Seq(Seq(Declared)) /\ Len(ss) > 0
  BY <1>1, <1>2
<1>4. FlattenSeq(ss) \in Seq(Declared)
  <2> HIDE DEF ss
  <2>1. QED
    BY <1>3, FlattenType
<1>5. QED
  BY <1>4, Zenon DEF of, h, hierarchy_methods

LEMMA ThreeInOne ==
  ASSUME NEW S, NEW p \in Seq(S), NEW q \in Seq(S), NEW s \in Seq(S)
  PROVE  p \o q \o s \in Seq(S) /\ Len(p \o q \o s) >= Len(p) + Len(q)
<1>1. Len(p) \in Nat /\ Len(q) \in Nat /\ Len(s) \in Nat
  OBVIOUS
<1>2. p \o q \in Seq(S) /\ Len(p \o q) = Len(p) + Len(q)
  OBVIOUS
<1>3. (p \o q) \o s \in Seq(S) /\ Len((p \o q) \o s) = Len(p \o q) + Len(s)
  BY <1>2
<1>4. QED
  BY <1>1, <1>2, <1>3

LEMMA RequestType ==
  ASSUME NEW r \in Request
  PROVE  /\ r.on \in Class /\ r.args \in Seq([type : RustType, byref : BOOLEAN])
         /\ r.generics \in Seq(RustType) /\ r.ret \in RustType \cup {Unit}
         /\ Len(r.args) \in Nat /\ Len(r.generics) \in Nat
<1>1. /\ r.on \in Class /\ r.args \in Seq([type : RustType, byref : BOOLEAN])
      /\ r.generics \in Seq(RustType) /\ r.ret \in RustType \cup {Unit}
  BY RequestAssumption
<1>2. QED
  BY <1>1

\* The types of a request: those of its arguments, its generics, what it returns.
LEMMA TypesType ==
  ASSUME NEW r \in Request
  PROVE  /\ Types(r) \in Seq(RustType)
         /\ Len(Types(r)) >= Len(r.args) + Len(r.generics)
<1> DEFINE some == /\ r.generics = << >> /\ r.ret # Unit
                   /\ \E i \in 1 .. Len(hierarchy_methods(r.on)) : NameAndShape(r, hierarchy_methods(r.on)[i])
           as == [i \in 1 .. Len(r.args) |-> r.args[i].type]
           last == IF some THEN <<r.ret>> ELSE << >>
<1>1. as \in Seq(RustType) /\ Len(as) = Len(r.args)
  <2> DEFINE As == r.args  A == [type : RustType, byref : BOOLEAN]
  <2>0. As \in Seq(A)
    BY RequestType
  <2> HIDE DEF As, A
  <2>1. \A i \in 1 .. Len(As) : As[i] \in A
    BY <2>0
  <2> USE DEF As, A
  <2>2. \A i \in 1 .. Len(r.args) : r.args[i].type \in RustType
    BY <2>1
  <2>3. Len(r.args) \in Nat
    BY RequestType
  <2>4. QED
    BY <2>2, <2>3
<1>2. last \in Seq(RustType)
  <2>1. some => r.ret \in RustType
    BY RequestType
  <2> HIDE DEF some
  <2>2. QED
    BY <2>1
<1>3. Types(r) = as \o r.generics \o last
  BY Zenon DEF Types
<1> HIDE DEF as, last
<1>4. QED
  <2>1. r.generics \in Seq(RustType)
    BY RequestType
  <2>2. Types(r) \in Seq(RustType) /\ Len(Types(r)) >= Len(as) + Len(r.generics)
    BY <1>1, <1>2, <1>3, <2>1, ThreeInOne
  <2>3. QED
    BY <1>1, <2>2

-----------------------------------------------------------------------------
(***************************************************************************)
(* Folds whose step is a function.                                         *)
(***************************************************************************)
FoldBody(base, step, g, s) == IF s = {} THEN base ELSE step[<<g[s \ {Max(s)}], Max(s)>>]

FoldsTo(X, base, step, g, k) ==
  /\ g \in [SUBSET (1 .. k) -> X]
  /\ \A s \in SUBSET (1 .. k) : g[s] = FoldBody(base, step, g, s)

LEMMA FoldExists ==
  ASSUME NEW X, NEW base \in X, NEW n \in Nat, NEW step \in [X \X (1 .. n) -> X]
  PROVE  \E g : FoldsTo(X, base, step, g, n)
<1> DEFINE Folds(g, k) == FoldsTo(X, base, step, g, k)
           Good == {k \in 0 .. n : \E g : Folds(g, k)}
<1> USE DEF FoldsTo
<1>1. 0 \in Good
  <2> DEFINE g == [s \in SUBSET (1 .. 0) |-> base]
  <2>1. \A s \in SUBSET (1 .. 0) : g[s] = FoldBody(base, step, g, s)
    BY DEF FoldBody
  <2>2. g \in [SUBSET (1 .. 0) -> X]
    OBVIOUS
  <2> HIDE DEF g
  <2>3. \E f : Folds(f, 0)
    BY <2>1, <2>2
  <2> HIDE DEF Folds
  <2>4. QED
    BY <2>3
<1>2. ASSUME NEW k \in 0 .. (n - 1), k \in Good PROVE k + 1 \in Good
  <2>0. k \in Nat /\ k + 1 \in Nat /\ k + 1 <= n
    OBVIOUS
  <2>1. PICK g : Folds(g, k)
    BY <1>2
  <2> DEFINE h == [s \in SUBSET (1 .. (k + 1)) |-> FoldBody(base, step, g, s)]
  <2>2. ASSUME NEW s \in SUBSET (1 .. k) PROVE h[s] = g[s]
    <3>1. s \in SUBSET (1 .. (k + 1))
      BY <2>0
    <3>2. h[s] = FoldBody(base, step, g, s)
      BY <3>1, Zenon
    <3>3. QED
      BY <2>1, <3>2
  <2>3. ASSUME NEW s \in SUBSET (1 .. (k + 1)), s # {}
        PROVE  Max(s) \in 1 .. n /\ s \ {Max(s)} \in SUBSET (1 .. k)
    <3>1. Max(s) \in s /\ \A i \in s : i <= Max(s)
      BY <2>0, <2>3, GreatestNumber
    <3>2. ASSUME NEW i \in s \ {Max(s)} PROVE i \in 1 .. k
      <4>1. i \in 1 .. (k + 1) /\ Max(s) \in 1 .. (k + 1) /\ i # Max(s) /\ i <= Max(s)
        BY <3>1
      <4>2. QED
        BY <2>0, <4>1
    <3>3. Max(s) \in 1 .. (k + 1)
      BY <3>1
    <3>4. QED
      <4>1. Max(s) \in 1 .. n
        BY <2>0, <3>3
      <4>2. s \ {Max(s)} \in SUBSET (1 .. k)
        BY <3>2, Zenon
      <4>3. QED
        BY <4>1, <4>2
  <2>4. ASSUME NEW s \in SUBSET (1 .. (k + 1))
        PROVE  FoldBody(base, step, g, s) \in X /\ FoldBody(base, step, g, s) = FoldBody(base, step, h, s)
    <3>1. CASE s = {}
      BY <3>1, Zenon DEF FoldBody
    <3>2. CASE s # {}
      <4>1. h[s \ {Max(s)}] = g[s \ {Max(s)}] /\ g[s \ {Max(s)}] \in X /\ Max(s) \in 1 .. n
        BY <2>1, <2>2, <2>3, <3>2
      <4> HIDE DEF h
      <4>2. step[<<g[s \ {Max(s)}], Max(s)>>] \in X
        BY <4>1
      <4>3. QED
        BY <3>2, <4>1, <4>2 DEF FoldBody
    <3>3. QED
      BY <3>1, <3>2
  <2>5. h \in [SUBSET (1 .. (k + 1)) -> X]
    BY <2>4
  <2>6. \A s \in SUBSET (1 .. (k + 1)) : h[s] = FoldBody(base, step, h, s)
    <3>1. \A s \in SUBSET (1 .. (k + 1)) : h[s] = FoldBody(base, step, g, s)
      BY Zenon
    <3> HIDE DEF h
    <3>2. QED
      BY <2>4, <3>1
  <2> HIDE DEF h
  <2>7. \E f : Folds(f, k + 1)
    BY <2>5, <2>6
  <2>8. k + 1 \in 0 .. n
    BY <2>0
  <2> HIDE DEF Folds
  <2>9. QED
    BY <2>7, <2>8
<1>3. n \in Good
  <2> HIDE DEF Good
  <2>1. \A k \in 0 .. n : k \in Good
    BY <1>1, <1>2, Upwards
  <2>2. QED
    BY <2>1
<1>4. QED
  BY <1>3

-----------------------------------------------------------------------------
(***************************************************************************)
(* The weight of a method is the sum of its parameters' distances.         *)
(***************************************************************************)
SumBody(ds, g, s) == IF s = {} THEN 0 ELSE g[s \ {Max(s)}] + ds[Max(s)]

SumOver(ds) ==
  LET iter[s \in SUBSET DOMAIN ds] == IF s = {} THEN 0 ELSE iter[s \ {Max(s)}] + ds[Max(s)]
  IN iter

LEMMA SumIsOver ==
  ASSUME NEW ds
  PROVE  FoldLeft(+, 0, ds) = SumOver(ds)[DOMAIN ds]
BY Zenon DEF SumOver, FoldLeft, MapThenFoldSet

LEMMA SumUpTo ==
  ASSUME NEW n \in Nat, NEW ds \in [1 .. n -> Int]
  PROVE  /\ SumOver(ds)[1 .. 0] = 0
         /\ \A k \in 0 .. (n - 1) : SumOver(ds)[1 .. (k + 1)] = SumOver(ds)[1 .. k] + ds[k + 1]
<1> DEFINE f == SumOver(ds)
           step == [p \in Int \X (1 .. n) |-> p[1] + ds[p[2]]]
           Sums(g) == g = [s \in SUBSET (1 .. n) |-> SumBody(ds, g, s)]
<1>1. step \in [Int \X (1 .. n) -> Int]
  OBVIOUS
<1>2. PICK g : FoldsTo(Int, 0, step, g, n)
  <2> DEFINE X == Int
  <2>1. 0 \in X /\ step \in [X \X (1 .. n) -> X]
    BY <1>1
  <2> HIDE DEF step, X
  <2>2. \E g : FoldsTo(X, 0, step, g, n)
    BY <2>1, FoldExists
  <2>3. QED
    BY <2>2 DEF X
<1>3. ASSUME NEW s \in SUBSET (1 .. n) PROVE FoldBody(0, step, g, s) = SumBody(ds, g, s)
  <2>1. CASE s = {}
    BY <2>1, Zenon DEF FoldBody, SumBody
  <2>2. CASE s # {}
    <3>1. Max(s) \in s
      BY <2>2, GreatestNumber
    <3>2. Max(s) \in 1 .. n /\ g[s \ {Max(s)}] \in Int
      BY <1>2, <3>1 DEF FoldsTo
    <3>3. step[<<g[s \ {Max(s)}], Max(s)>>] = g[s \ {Max(s)}] + ds[Max(s)]
      BY <3>2
    <3> HIDE DEF step
    <3>4. QED
      BY <2>2, <3>3, Zenon DEF FoldBody, SumBody
  <2>3. QED
    BY <2>1, <2>2
<1>4. Sums(g)
  <2> HIDE DEF step
  <2>1. \A s \in SUBSET (1 .. n) : g[s] = SumBody(ds, g, s)
    BY <1>2, <1>3 DEF FoldsTo
  <2>2. g = [s \in SUBSET (1 .. n) |-> g[s]]
    BY <1>2 DEF FoldsTo
  <2>3. g = [s \in SUBSET (1 .. n) |-> SumBody(ds, g, s)]
    BY <2>1, <2>2, Zenon
  <2>4. QED
    BY <2>3, Zenon
<1>5. f = CHOOSE h : Sums(h)
  <2>1. DOMAIN ds = 1 .. n
    OBVIOUS
  <2>2. QED
    BY <2>1, Zenon DEF SumOver, SumBody
<1> HIDE DEF f
<1>2x. Sums(f)
  <2> HIDE DEF Sums
  <2>1. QED
    BY <1>4, <1>5, Zenon
<1>7. \A s \in SUBSET (1 .. n) : f[s] = SumBody(ds, f, s)
  BY <1>2x, Zenon
<1>8. f[1 .. 0] = 0
  <2>1. 1 .. 0 = {} /\ 1 .. 0 \in SUBSET (1 .. n)
    OBVIOUS
  <2>2. QED
    BY <1>7, <2>1, Zenon DEF SumBody
<1>9. ASSUME NEW k \in 0 .. (n - 1)
      PROVE  f[1 .. (k + 1)] = f[1 .. k] + ds[k + 1]
  <2>1. /\ 1 .. (k + 1) \in SUBSET (1 .. n) /\ 1 .. (k + 1) # {}
        /\ Max(1 .. (k + 1)) = k + 1 /\ (1 .. (k + 1)) \ {k + 1} = 1 .. k
    BY FirstOfMore
  <2>2. f[1 .. (k + 1)] = SumBody(ds, f, 1 .. (k + 1))
    BY <1>7, <2>1
  <2>3. QED
    BY <2>1, <2>2, Zenon DEF SumBody
<1>10. QED
  BY <1>8, <1>9 DEF f

\* The sum of integers is one, and is no larger than they allow.
LEMMA SumType ==
  ASSUME NEW n \in Nat, NEW ds \in [1 .. n -> Int]
  PROVE  /\ FoldLeft(+, 0, ds) \in Int
         /\ \A D \in Nat : (\A i \in 1 .. n : ds[i] <= D) => FoldLeft(+, 0, ds) <= D * n
<1> DEFINE f == SumOver(ds)
           Good(D) == {k \in 0 .. n : f[1 .. k] \in Int /\ ((\A i \in 1 .. n : ds[i] <= D) => f[1 .. k] <= D * k)}
<1>1. ASSUME NEW D \in Nat PROVE 0 \in Good(D)
  <2>1. f[1 .. 0] = 0 /\ D * 0 = 0
    BY SumUpTo
  <2> HIDE DEF f
  <2>2. QED
    BY <2>1
<1>2. ASSUME NEW D \in Nat, NEW k \in 0 .. (n - 1), k \in Good(D) PROVE k + 1 \in Good(D)
  <2>1. f[1 .. (k + 1)] = f[1 .. k] + ds[k + 1]
    BY SumUpTo
  <2>2. k + 1 \in 0 .. n /\ k + 1 \in 1 .. n /\ ds[k + 1] \in Int
    <3>1. k + 1 \in 1 .. n
      OBVIOUS
    <3>2. QED
      BY <3>1
  <2>3. D * (k + 1) = D * k + D /\ D * k \in Int
    OBVIOUS
  <2> HIDE DEF f
  <2>4. f[1 .. k] \in Int
    BY <1>2
  <2> DEFINE p == D * k
  <2>5. ASSUME \A i \in 1 .. n : ds[i] <= D PROVE f[1 .. k] + ds[k + 1] <= p + D
    <3>1. f[1 .. k] <= p /\ ds[k + 1] <= D
      BY <1>2, <2>2, <2>5
    <3> HIDE DEF p
    <3>2. QED
      BY <2>2, <2>3, <2>4, <3>1 DEF p
  <2>6. QED
    BY <2>1, <2>2, <2>3, <2>4, <2>5
<1>3. ASSUME NEW D \in Nat PROVE n \in Good(D)
  <2>1. 0 \in Good(D) /\ \A k \in 0 .. (n - 1) : k \in Good(D) => k + 1 \in Good(D)
    BY <1>1, <1>2
  <2> HIDE DEF Good
  <2>2. \A k \in 0 .. n : k \in Good(D)
    BY <2>1, Upwards
  <2>3. QED
    BY <2>2
<1>4. FoldLeft(+, 0, ds) = f[1 .. n]
  BY SumIsOver
<1> HIDE DEF f
<1>5. FoldLeft(+, 0, ds) \in Int
  BY <1>3, <1>4, 0 \in Nat
<1>2x. QED
  BY <1>3, <1>4, <1>5

-----------------------------------------------------------------------------
(***************************************************************************)
(* How far a class is from another is a number, whatever their interfaces. *)
(***************************************************************************)
Pairs(a, b) == (1 .. Len(a) + 1) \X (1 .. Len(b) + 1)

MergeBody(a, b, g, p) ==
  IF p[1] > Len(a) \/ p[2] > Len(b) THEN 0
  ELSE IF Address[a[p[1]]] < Address[b[p[2]]] THEN g[<<p[1] + 1, p[2]>>]
  ELSE IF Address[a[p[1]]] > Address[b[p[2]]] THEN g[<<p[1], p[2] + 1>>]
  ELSE 1 + g[<<p[1] + 1, p[2] + 1>>]

Merges(a, b, g) == g = [p \in Pairs(a, b) |-> MergeBody(a, b, g, p)]

\* How much of the lists is left.
Left(a, b, p) == (Len(a) + 1 - p[1]) + (Len(b) + 1 - p[2])

\* g merges what is left of the lists where that is at most k.
MergesLast(a, b, g, k) ==
  /\ DOMAIN g = Pairs(a, b)
  /\ \A p \in Pairs(a, b) : Left(a, b, p) <= k => g[p] = MergeBody(a, b, g, p)

LEMMA SharedIs ==
  ASSUME NEW a, NEW b
  PROVE  SharedInterfaces(a, b) = (CHOOSE g : Merges(a, b, g))[<<1, 1>>]
BY Zenon DEF SharedInterfaces, Merges, MergeBody, Pairs

\* What MergeBody asks g for has less left.
LEMMA MergeAsks ==
  ASSUME NEW a, NEW b, Len(a) \in Nat, Len(b) \in Nat, NEW p \in Pairs(a, b),
         ~(p[1] > Len(a) \/ p[2] > Len(b))
  PROVE  \A q \in {<<p[1] + 1, p[2]>>, <<p[1], p[2] + 1>>, <<p[1] + 1, p[2] + 1>>} :
           q \in Pairs(a, b) /\ Left(a, b, q) <= Left(a, b, p) - 1 /\ Left(a, b, q) \in Nat
<1>1. PICK i \in 1 .. Len(a) + 1, j \in 1 .. Len(b) + 1 : p = <<i, j>>
  BY DEF Pairs
<1>2. i \in 1 .. Len(a) /\ j \in 1 .. Len(b)
  BY <1>1
<1>3. ASSUME NEW k \in {i, i + 1}, NEW l \in {j, j + 1}, k + l > i + j
      PROVE  <<k, l>> \in Pairs(a, b) /\ Left(a, b, <<k, l>>) <= Left(a, b, p) - 1 /\ Left(a, b, <<k, l>>) \in Nat
  <2>1. k \in 1 .. Len(a) + 1 /\ l \in 1 .. Len(b) + 1
    BY <1>2
  <2>2. Left(a, b, p) = (Len(a) + 1 - i) + (Len(b) + 1 - j)
    BY <1>1 DEF Left
  <2>3. Left(a, b, <<k, l>>) = (Len(a) + 1 - k) + (Len(b) + 1 - l)
    BY DEF Left
  <2>4. QED
    BY <1>2, <1>3, <2>1, <2>2, <2>3 DEF Pairs
<1>4. /\ (i + 1) + j > i + j /\ i + (j + 1) > i + j /\ (i + 1) + (j + 1) > i + j
      /\ p[1] = i /\ p[2] = j
  BY <1>1, <1>2
<1>5. QED
  BY <1>3, <1>4

LEMMA MergeAlike ==
  ASSUME NEW a, NEW b, Len(a) \in Nat, Len(b) \in Nat, NEW p \in Pairs(a, b), NEW g, NEW h,
         \A q \in Pairs(a, b) : Left(a, b, q) <= Left(a, b, p) - 1 => g[q] = h[q]
  PROVE  MergeBody(a, b, g, p) = MergeBody(a, b, h, p)
<1>1. CASE p[1] > Len(a) \/ p[2] > Len(b)
  BY <1>1, Zenon DEF MergeBody
<1>2. CASE ~(p[1] > Len(a) \/ p[2] > Len(b))
  <2>1. \A q \in {<<p[1] + 1, p[2]>>, <<p[1], p[2] + 1>>, <<p[1] + 1, p[2] + 1>>} : g[q] = h[q]
    BY <1>2, MergeAsks
  <2>2. /\ g[<<p[1] + 1, p[2]>>] = h[<<p[1] + 1, p[2]>>]
        /\ g[<<p[1], p[2] + 1>>] = h[<<p[1], p[2] + 1>>]
        /\ g[<<p[1] + 1, p[2] + 1>>] = h[<<p[1] + 1, p[2] + 1>>]
    BY <2>1
  <2>3. QED
    BY <2>2, Zenon DEF MergeBody
<1>3. QED
  BY <1>1, <1>2

LEMMA MergeExists ==
  ASSUME NEW a, NEW b, Len(a) \in Nat, Len(b) \in Nat
  PROVE  \E g : Merges(a, b, g)
<1> DEFINE n == Len(a) + Len(b)
           Good == {k \in 0 .. n : \E g : MergesLast(a, b, g, k)}
<1>0. n \in Nat /\ \A p \in Pairs(a, b) : Left(a, b, p) \in 0 .. n
  BY DEF Pairs, Left
<1> HIDE DEF n
<1>1. ASSUME NEW k \in Nat, NEW g, \A p \in Pairs(a, b) : Left(a, b, p) <= k - 1 => g[p] = MergeBody(a, b, g, p)
      PROVE  MergesLast(a, b, [p \in Pairs(a, b) |-> MergeBody(a, b, g, p)], k)
  <2> DEFINE h == [p \in Pairs(a, b) |-> MergeBody(a, b, g, p)]
  <2>1. DOMAIN h = Pairs(a, b) /\ \A p \in Pairs(a, b) : h[p] = MergeBody(a, b, g, p)
    OBVIOUS
  <2> HIDE DEF h
  <2>2. ASSUME NEW p \in Pairs(a, b), Left(a, b, p) <= k PROVE h[p] = MergeBody(a, b, h, p)
    <3>1. ASSUME NEW q \in Pairs(a, b), Left(a, b, q) <= Left(a, b, p) - 1 PROVE g[q] = h[q]
      <4>1. Left(a, b, q) \in Nat /\ Left(a, b, p) \in Nat
        BY <1>0
      <4>2. Left(a, b, q) <= k - 1
        BY <2>2, <3>1, <4>1
      <4>3. QED
        BY <1>1, <2>1, <4>2
    <3>2. MergeBody(a, b, g, p) = MergeBody(a, b, h, p)
      BY <3>1, MergeAlike
    <3>3. QED
      BY <2>1, <3>2
  <2>3. QED
    BY <2>1, <2>2 DEF MergesLast, h
<1>2. 0 \in Good
  <2>1. \A p \in Pairs(a, b) : ~(Left(a, b, p) <= 0 - 1)
    BY <1>0
  <2>2. MergesLast(a, b, [p \in Pairs(a, b) |-> MergeBody(a, b, << >>, p)], 0)
    BY <1>1, <2>1
  <2>3. QED
    BY <1>0, <2>2
<1>3. ASSUME NEW k \in 0 .. (n - 1), k \in Good PROVE k + 1 \in Good
  <2>0. k + 1 \in 0 .. n /\ k + 1 \in Nat /\ (k + 1) - 1 = k
    BY <1>0
  <2>1. PICK g : MergesLast(a, b, g, k)
    BY <1>3
  <2>2. \A p \in Pairs(a, b) : Left(a, b, p) <= (k + 1) - 1 => g[p] = MergeBody(a, b, g, p)
    BY <2>0, <2>1 DEF MergesLast
  <2>3. MergesLast(a, b, [p \in Pairs(a, b) |-> MergeBody(a, b, g, p)], k + 1)
    BY <1>1, <2>0, <2>2
  <2>4. QED
    BY <2>0, <2>3
<1>4. n \in Good
  <2> HIDE DEF Good
  <2>1. \A k \in 0 .. n : k \in Good
    BY <1>0, <1>2, <1>3, Upwards
  <2>2. QED
    BY <1>0, <2>1
<1>5. PICK g : MergesLast(a, b, g, n)
  BY <1>4
<1> DEFINE h == [p \in Pairs(a, b) |-> MergeBody(a, b, g, p)]
<1>2x. MergesLast(a, b, h, n + 1)
  <2>1. n + 1 \in Nat /\ (n + 1) - 1 = n
    BY <1>0
  <2>2. \A p \in Pairs(a, b) : Left(a, b, p) <= (n + 1) - 1 => g[p] = MergeBody(a, b, g, p)
    BY <1>5, <2>1 DEF MergesLast
  <2>3. QED
    BY <1>1, <2>1, <2>2
<1>7. h = [p \in Pairs(a, b) |-> h[p]]
  OBVIOUS
<1> HIDE DEF h
<1>8. \A p \in Pairs(a, b) : h[p] = MergeBody(a, b, h, p)
  BY <1>0, <1>2x DEF MergesLast
<1>9. h = [p \in Pairs(a, b) |-> MergeBody(a, b, h, p)]
  BY <1>7, <1>8, Zenon
<1>10. QED
  BY <1>9 DEF Merges

LEMMA SharedType ==
  ASSUME NEW a, NEW b, Len(a) \in Nat, Len(b) \in Nat
  PROVE  SharedInterfaces(a, b) \in Nat
<1> DEFINE n == Len(a) + Len(b)
           f == CHOOSE g : Merges(a, b, g)
           Good == {k \in 0 .. n : \A p \in Pairs(a, b) : Left(a, b, p) <= k => f[p] \in Nat}
<1>0. /\ n \in Nat
      /\ \A p \in Pairs(a, b) : Left(a, b, p) \in 0 .. n
      /\ <<1, 1>> \in Pairs(a, b)
  BY DEF Pairs, Left
<1>1. Merges(a, b, f)
  BY MergeExists, Zenon
<1> HIDE DEF f, n
<1>2. ASSUME NEW p \in Pairs(a, b),
             \A q \in Pairs(a, b) : Left(a, b, q) <= Left(a, b, p) - 1 => f[q] \in Nat
      PROVE  f[p] \in Nat
  <2>1. f[p] = MergeBody(a, b, f, p)
    BY <1>1, Zenon DEF Merges
  <2>2. CASE p[1] > Len(a) \/ p[2] > Len(b)
    BY <2>1, <2>2 DEF MergeBody
  <2>3. CASE ~(p[1] > Len(a) \/ p[2] > Len(b))
    <3>1. \A q \in {<<p[1] + 1, p[2]>>, <<p[1], p[2] + 1>>, <<p[1] + 1, p[2] + 1>>} : f[q] \in Nat
      BY <1>2, <2>3, MergeAsks
    <3>2. f[<<p[1] + 1, p[2]>>] \in Nat /\ f[<<p[1], p[2] + 1>>] \in Nat /\ 1 + f[<<p[1] + 1, p[2] + 1>>] \in Nat
      BY <3>1
    <3>3. f[p] \in {f[<<p[1] + 1, p[2]>>], f[<<p[1], p[2] + 1>>], 1 + f[<<p[1] + 1, p[2] + 1>>]}
      BY <2>1, <2>3, Zenon DEF MergeBody
    <3>4. QED
      BY <3>2, <3>3
  <2>4. QED
    BY <2>2, <2>3
<1>3. 0 \in Good
  <2>1. ASSUME NEW p \in Pairs(a, b), Left(a, b, p) <= 0 PROVE f[p] \in Nat
    <3>1. \A q \in Pairs(a, b) : ~(Left(a, b, q) <= Left(a, b, p) - 1)
      BY <1>0, <2>1
    <3>2. QED
      BY <1>2, <3>1
  <2>2. QED
    BY <1>0, <2>1
<1>4. ASSUME NEW k \in 0 .. (n - 1), k \in Good PROVE k + 1 \in Good
  <2>0. k + 1 \in 0 .. n /\ k \in Nat
    BY <1>0
  <2>1. ASSUME NEW p \in Pairs(a, b), Left(a, b, p) <= k + 1 PROVE f[p] \in Nat
    <3>1. ASSUME NEW q \in Pairs(a, b), Left(a, b, q) <= Left(a, b, p) - 1 PROVE f[q] \in Nat
      <4>1. Left(a, b, q) \in Nat /\ Left(a, b, p) \in Nat
        BY <1>0
      <4>2. Left(a, b, q) <= k
        BY <2>0, <2>1, <3>1, <4>1
      <4>3. QED
        BY <1>4, <4>2
    <3>2. QED
      BY <1>2, <3>1
  <2>2. QED
    BY <2>0, <2>1
<1>5. n \in Good
  <2> HIDE DEF Good
  <2>1. \A k \in 0 .. n : k \in Good
    BY <1>0, <1>3, <1>4, Upwards
  <2>2. QED
    BY <1>0, <2>1
<1>2x. f[<<1, 1>>] \in Nat
  BY <1>0, <1>5
<1>7. QED
  BY <1>2x, SharedIs, Zenon DEF f

\* The least element of a set of indices is what Min takes.
LEMMA LeastIndex ==
  ASSUME NEW S \in SUBSET Nat, S # {}
  PROVE  Min(S) \in S /\ \A k \in S : Min(S) <= k
<1>1. PICK m \in S : \A k \in S : m <= k
  BY LeastNumber
<1>2. QED
  BY <1>1, Zenon DEF Min

LEMMA DistanceType ==
  ASSUME NEW to \in Class, NEW passed \in Class
  PROVE  param_distance(to, passed) \in Int
<1> DEFINE up == hierarchy[passed]
           Stop == {k \in 1 .. Len(up) : k = Len(up) \/ up[k] = to \/ ~is_assignable_from(to, up[k])}
           last == Min(Stop)
           s == SharedInterfaces(Interfaces[to], Interfaces[up[last]])
<1>1. up \in Seq(Class) /\ Len(up) > 0
  BY HierarchyType
<1> HIDE DEF up
<1>2. Len(up) \in Nat /\ Len(up) \in Stop /\ Stop \in SUBSET Nat
  BY <1>1
<1>3. last \in 1 .. Len(up)
  <2>1. last \in Stop
    <3> HIDE DEF Stop
    <3>1. QED
      BY <1>2, LeastIndex
  <2>2. QED
    BY <2>1
<1> HIDE DEF last
<1>4. up[last] \in Class
  BY <1>1, <1>3
<1>5. s \in Nat
  <2>1. Interfaces[to] \in Seq(Interface) /\ Interfaces[up[last]] \in Seq(Interface)
    BY <1>4, RequestAssumption
  <2>2. Len(Interfaces[to]) \in Nat /\ Len(Interfaces[up[last]]) \in Nat
    BY <2>1
  <2>3. QED
    BY <2>2, SharedType
<1>2x. param_distance(to, passed) =
        IF to = passed THEN 0
        ELSE IF passed \in Interface /\ to \notin Interface THEN 1000
        ELSE last - 1 + (IF to \in Interface THEN 5 ELSE 0) - s
  BY Zenon DEF param_distance, last, up
<1> HIDE DEF s
<1>7. last - 1 + (IF to \in Interface THEN 5 ELSE 0) - s \in Int
  BY <1>3, <1>5
<1>8. QED
  BY <1>2x, <1>7

-----------------------------------------------------------------------------
(***************************************************************************)
(* The classes cs that a request is resolved with, and what a method that  *)
(* fits weighs.                                                            *)
(***************************************************************************)
ClassesOf(r, cs) == cs \in Seq(Class) /\ Len(cs) = Len(Types(r))

Passes(r, cs, m) == is_candidate(r, cs, m) /\ Fits(r, cs, m)

LEMMA ParamType ==
  ASSUME methods \in MethodTables, NEW r \in Request, NEW cs, ClassesOf(r, cs),
         NEW m \in Declared, Passes(r, cs, m), NEW i \in 1 .. Len(r.args)
  PROVE  ParamClass(r, cs, m, i) \in Class /\ cs[i] \in Class
<1> DEFINE n == Len(r.args)  l == Len(r.generics)  p == Info(m).params[i]
<1>1. n \in Nat /\ l \in Nat /\ Len(cs) >= n + l /\ cs \in Seq(Class)
  BY RequestType, TypesType DEF ClassesOf
<1>2. Info(m).params \in Seq(Param) /\ Len(Info(m).params) = n
  BY InfoType DEF Method, Passes, is_candidate, NameAndShape
<1>3. p \in Param /\ p.index <= l
  <2>1. p \in Param
    BY <1>1, <1>2
  <2>2. p.index <= l
    BY DEF Passes, Fits
  <2>3. QED
    BY <2>1, <2>2
<1> HIDE DEF n, l, p
<1>4. i \in 1 .. n
  BY DEF n
<1>5. cs[i] \in Class
  BY <1>1, <1>4
<1>2x. ParamClass(r, cs, m, i) = Substituted(p, generics(r, cs)).class
  BY Zenon DEF ParamClass, p
<1>7. CASE p.index = 0
  BY <1>3, <1>5, <1>2x, <1>7 DEF Substituted, Param
<1>8. CASE p.index # 0
  <2> DEFINE gs == generics(r, cs)
  <2>1. p.index \in 1 .. l
    BY <1>1, <1>3, <1>8 DEF Param
  <2>2. gs[p.index] = cs[n + p.index]
    <3>1. gs = SubSeq(cs, n + 1, n + l)
      BY Zenon DEF generics, n, l
    <3> HIDE DEF gs
    <3>2. QED
      BY <1>1, <2>1, <3>1
  <2>3. cs[n + p.index] \in Class
    BY <1>1, <2>1
  <2> HIDE DEF gs
  <2>4. Substituted(p, gs).class = gs[p.index]
    BY <1>3, <1>8 DEF Substituted, Param
  <2>5. QED
    BY <1>5, <1>2x, <2>2, <2>3, <2>4 DEF gs
<1>9. QED
  BY <1>7, <1>8

LEMMA WeightType ==
  ASSUME methods \in MethodTables, NEW r \in Request, NEW cs, ClassesOf(r, cs),
         NEW m \in Declared, Passes(r, cs, m)
  PROVE  /\ method_weight(r, cs, m) \in Int
         /\ \A D \in Nat : (\A to, passed \in Class : param_distance(to, passed) <= D)
                           => method_weight(r, cs, m) <= D * Len(r.args)
<1> DEFINE n == Len(r.args)
           ds == [i \in 1 .. n |-> param_distance(ParamClass(r, cs, m, i), cs[i])]
<1>1. n \in Nat
  BY RequestType
<1>2. ASSUME NEW i \in 1 .. n
      PROVE  /\ ds[i] \in Int
             /\ \A D \in Nat : (\A to, passed \in Class : param_distance(to, passed) <= D) => ds[i] <= D
  <2>1. ParamClass(r, cs, m, i) \in Class /\ cs[i] \in Class
    BY ParamType
  <2>2. ds[i] = param_distance(ParamClass(r, cs, m, i), cs[i])
    OBVIOUS
  <2> HIDE DEF ds
  <2>3. QED
    BY <2>1, <2>2, DistanceType
<1>3. method_weight(r, cs, m) = FoldLeft(+, 0, ds)
  BY Zenon DEF method_weight
<1>4. ds \in [1 .. n -> Int]
  <2>1. ds = [i \in 1 .. n |-> ds[i]]
    OBVIOUS
  <2> HIDE DEF ds
  <2>2. QED
    BY <1>2, <2>1
<1> HIDE DEF ds
<1>5. method_weight(r, cs, m) \in Int
  <2> HIDE DEF n
  <2>1. QED
    BY <1>1, <1>3, <1>4, SumType
<1>2x. ASSUME NEW D \in Nat, \A to, passed \in Class : param_distance(to, passed) <= D
      PROVE  method_weight(r, cs, m) <= D * n
  <2>1. \A i \in 1 .. n : ds[i] <= D
    BY <1>2, <1>2x
  <2> HIDE DEF n
  <2>2. QED
    BY <1>1, <1>3, <1>4, <2>1, SumType
<1>7. QED
  BY <1>5, <1>2x

LEMMA WeightFits ==
  ASSUME methods \in MethodTables, NEW r \in Request, NEW cs, ClassesOf(r, cs),
         NEW m \in Declared, Passes(r, cs, m), NEW Far, Near(Far)
  PROVE  method_weight(r, cs, m) < i32_MAX
<1> DEFINE p == Far * Len(r.args)  q == method_weight(r, cs, m)
<1>1. Far \in Nat /\ Len(r.args) \in Nat /\ \A to, passed \in Class : param_distance(to, passed) <= Far
  BY RequestType DEF Near
<1>2. q \in Int /\ q <= p
  BY <1>1, WeightType
<1>3. p \in Int /\ p < i32_MAX /\ i32_MAX \in Int
  BY <1>1 DEF Near, i32_MAX
<1> HIDE DEF p, q
<1>4. q < i32_MAX
  BY <1>2, <1>3
<1>5. QED
  BY <1>4 DEF q

-----------------------------------------------------------------------------
(***************************************************************************)
(* The loop of resolve_caller_method.                                      *)
(***************************************************************************)
Start == [method |-> NoMethod, weight |-> i32_MAX, exact |-> FALSE]

ResolveStep(r, cs, best, m) ==
  IF best.exact \/ ~is_candidate(r, cs, m) \/ ~Fits(r, cs, m) THEN best
  ELSE IF Exact(r, cs, m) THEN [best EXCEPT !.method = m, !.exact = TRUE]
  ELSE IF method_weight(r, cs, m) < best.weight
  THEN [best EXCEPT !.method = m, !.weight = method_weight(r, cs, m)]
  ELSE best

ResolveBody(r, cs, ms, g, s) ==
  IF s = {} THEN Start ELSE ResolveStep(r, cs, g[s \ {Max(s)}], ms[Max(s)])

ResolveOver(r, cs, ms) ==
  LET iter[s \in SUBSET DOMAIN ms] ==
        IF s = {} THEN Start ELSE ResolveStep(r, cs, iter[s \ {Max(s)}], ms[Max(s)])
  IN iter

LEMMA ResolveIsOver ==
  ASSUME NEW r, NEW cs
  PROVE  resolve_caller_method(r, cs) =
           ResolveOver(r, cs, hierarchy_methods(r.on))[DOMAIN hierarchy_methods(r.on)].method
BY Zenon DEF resolve_caller_method, ResolveOver, ResolveStep, Start, FoldLeft, MapThenFoldSet

\* The best of some methods: the last two fields say how it got to be.
Best == [method : Declared \cup {NoMethod}, weight : Int, exact : BOOLEAN]

LEMMA StepType ==
  ASSUME methods \in MethodTables, NEW r \in Request, NEW cs, ClassesOf(r, cs),
         NEW best \in Best, NEW m \in Declared
  PROVE  ResolveStep(r, cs, best, m) \in Best
<1>1. CASE best.exact \/ ~is_candidate(r, cs, m) \/ ~Fits(r, cs, m)
  BY <1>1, Zenon DEF ResolveStep
<1>2. CASE ~(best.exact \/ ~is_candidate(r, cs, m) \/ ~Fits(r, cs, m))
  <2>1. method_weight(r, cs, m) \in Int
    BY <1>2, WeightType DEF Passes
  <2>2. [best EXCEPT !.method = m, !.exact = TRUE] \in Best
    BY DEF Best
  <2>3. [best EXCEPT !.method = m, !.weight = method_weight(r, cs, m)] \in Best
    BY <2>1 DEF Best
  <2>4. QED
    BY <2>2, <2>3, Zenon DEF ResolveStep
<1>3. QED
  BY <1>1, <1>2

LEMMA ResolveUpTo ==
  ASSUME methods \in MethodTables, NEW r \in Request, NEW cs, ClassesOf(r, cs),
         NEW n \in Nat, NEW ms \in [1 .. n -> Declared]
  PROVE  /\ ResolveOver(r, cs, ms)[1 .. 0] = Start
         /\ \A k \in 0 .. (n - 1) :
              ResolveOver(r, cs, ms)[1 .. (k + 1)] = ResolveStep(r, cs, ResolveOver(r, cs, ms)[1 .. k], ms[k + 1])
<1> DEFINE f == ResolveOver(r, cs, ms)
           step == [p \in Best \X (1 .. n) |-> ResolveStep(r, cs, p[1], ms[p[2]])]
           Resolves(g) == g = [s \in SUBSET (1 .. n) |-> ResolveBody(r, cs, ms, g, s)]
<1>1. step \in [Best \X (1 .. n) -> Best]
  <2>1. ASSUME NEW p \in Best \X (1 .. n) PROVE ResolveStep(r, cs, p[1], ms[p[2]]) \in Best
    <3>1. p[1] \in Best /\ ms[p[2]] \in Declared
      OBVIOUS
    <3>2. QED
      BY <3>1, StepType
  <2>2. QED
    BY <2>1
<1>2. Start \in Best
  BY DEF Start, Best, i32_MAX
<1>3. PICK g : FoldsTo(Best, Start, step, g, n)
  <2> HIDE DEF step
  <2>1. QED
    BY <1>1, <1>2, FoldExists
<1>4. ASSUME NEW s \in SUBSET (1 .. n) PROVE FoldBody(Start, step, g, s) = ResolveBody(r, cs, ms, g, s)
  <2>1. CASE s = {}
    BY <2>1, Zenon DEF FoldBody, ResolveBody
  <2>2. CASE s # {}
    <3>1. Max(s) \in s
      BY <2>2, GreatestNumber
    <3>2. Max(s) \in 1 .. n /\ g[s \ {Max(s)}] \in Best
      BY <1>3, <3>1 DEF FoldsTo
    <3>3. step[<<g[s \ {Max(s)}], Max(s)>>] = ResolveStep(r, cs, g[s \ {Max(s)}], ms[Max(s)])
      BY <3>2
    <3> HIDE DEF step
    <3>4. QED
      BY <2>2, <3>3, Zenon DEF FoldBody, ResolveBody
  <2>3. QED
    BY <2>1, <2>2
<1>5. Resolves(g)
  <2> HIDE DEF step
  <2>1. \A s \in SUBSET (1 .. n) : g[s] = ResolveBody(r, cs, ms, g, s)
    BY <1>3, <1>4 DEF FoldsTo
  <2>2. g = [s \in SUBSET (1 .. n) |-> g[s]]
    BY <1>3 DEF FoldsTo
  <2>3. g = [s \in SUBSET (1 .. n) |-> ResolveBody(r, cs, ms, g, s)]
    BY <2>1, <2>2, Zenon
  <2>4. QED
    BY <2>3, Zenon
<1>2x. f = CHOOSE h : Resolves(h)
  <2>1. DOMAIN ms = 1 .. n
    OBVIOUS
  <2>2. QED
    BY <2>1, Zenon DEF ResolveOver, ResolveBody
<1> HIDE DEF f
<1>7. Resolves(f)
  <2> HIDE DEF Resolves
  <2>1. QED
    BY <1>5, <1>2x, Zenon
<1>8. \A s \in SUBSET (1 .. n) : f[s] = ResolveBody(r, cs, ms, f, s)
  BY <1>7, Zenon
<1>9. f[1 .. 0] = Start
  <2>1. 1 .. 0 = {} /\ 1 .. 0 \in SUBSET (1 .. n)
    OBVIOUS
  <2>2. QED
    BY <1>8, <2>1, Zenon DEF ResolveBody
<1>10. ASSUME NEW k \in 0 .. (n - 1)
       PROVE  f[1 .. (k + 1)] = ResolveStep(r, cs, f[1 .. k], ms[k + 1])
  <2>1. /\ 1 .. (k + 1) \in SUBSET (1 .. n) /\ 1 .. (k + 1) # {}
        /\ Max(1 .. (k + 1)) = k + 1 /\ (1 .. (k + 1)) \ {k + 1} = 1 .. k
    BY FirstOfMore
  <2>2. f[1 .. (k + 1)] = ResolveBody(r, cs, ms, f, 1 .. (k + 1))
    BY <1>8, <2>1
  <2>3. QED
    BY <2>1, <2>2, Zenon DEF ResolveBody
<1>11. QED
  BY <1>9, <1>10 DEF f

\* Resolving answers a method that is declared, or none.
LEMMA ResolveType ==
  ASSUME methods \in MethodTables, NEW r \in Request, NEW cs, ClassesOf(r, cs)
  PROVE  resolve_caller_method(r, cs) \in Declared \cup {NoMethod}
<1> DEFINE ms == hierarchy_methods(r.on)  n == Len(ms)  f == ResolveOver(r, cs, ms)
           Good == {k \in 0 .. n : f[1 .. k] \in Best}
<1>1. n \in Nat /\ ms \in [1 .. n -> Declared] /\ DOMAIN ms = 1 .. n
  <2>1. ms \in Seq(Declared)
    BY HierarchyMethodsType, RequestType
  <2> HIDE DEF ms
  <2>2. QED
    BY <2>1
<1> HIDE DEF ms, n
<1>2. /\ f[1 .. 0] = Start
      /\ \A k \in 0 .. (n - 1) : f[1 .. (k + 1)] = ResolveStep(r, cs, f[1 .. k], ms[k + 1])
  BY <1>1, ResolveUpTo
<1> HIDE DEF f
<1>3. 0 \in Good
  <2>1. Start \in Best
    BY DEF Start, Best, i32_MAX
  <2>2. QED
    BY <1>1, <1>2, <2>1
<1>4. ASSUME NEW k \in 0 .. (n - 1), k \in Good PROVE k + 1 \in Good
  <2>1. k + 1 \in 0 .. n /\ k + 1 \in 1 .. n
    BY <1>1
  <2>2. ms[k + 1] \in Declared
    BY <1>1, <2>1
  <2>3. ResolveStep(r, cs, f[1 .. k], ms[k + 1]) \in Best
    BY <1>4, <2>2, StepType
  <2>4. QED
    BY <1>2, <2>1, <2>3
<1>5. n \in Good
  <2> HIDE DEF Good
  <2>1. \A k \in 0 .. n : k \in Good
    BY <1>1, <1>3, <1>4, Upwards
  <2>2. QED
    BY <1>1, <2>1
<1>2x. f[1 .. n].method \in Declared \cup {NoMethod}
  BY <1>5 DEF Best
<1>7. resolve_caller_method(r, cs) = f[1 .. n].method
  BY <1>1, ResolveIsOver, Zenon DEF f, ms
<1>8. QED
  BY <1>2x, <1>7

-----------------------------------------------------------------------------
(***************************************************************************)
(* The loop answers the first method that matches exactly or, when none    *)
(* does, the first of those that weigh least.                              *)
(***************************************************************************)

\* The best b of the first k methods ms: A fit, E of them exactly, w are their weights.
BestSoFar(ms, A, E, w, k, b) ==
  \/ /\ b.exact
     /\ \E i \in E : i <= k /\ b.method = ms[i] /\ \A j \in E : i <= j
  \/ /\ ~b.exact
     /\ \A j \in E : j > k
     /\ \/ (\A j \in A : j > k) /\ b.method = NoMethod /\ b.weight = i32_MAX
        \/ \E i \in A : /\ i <= k /\ b.method = ms[i] /\ b.weight = w[i]
                        /\ \A j \in A : j <= k => w[i] <= w[j] /\ (w[i] = w[j] => i <= j)

LEMMA KeptBest ==
  ASSUME NEW n \in Nat, NEW A \in SUBSET (1 .. n), NEW E \in SUBSET A, NEW ms, NEW w,
         NEW k \in 0 .. (n - 1), NEW b, BestSoFar(ms, A, E, w, k, b), b.exact \/ k + 1 \notin A
  PROVE  BestSoFar(ms, A, E, w, k + 1, b)
<1>1. \A j \in A : j \in Nat /\ (j # k + 1 => (j > k => j > k + 1) /\ (j <= k + 1 => j <= k)) /\ (j <= k => j <= k + 1)
  OBVIOUS
<1>2. CASE b.exact
  BY <1>1, <1>2 DEF BestSoFar
<1>3. CASE ~b.exact
  <2>1. k + 1 \notin A /\ k + 1 \notin E
    BY <1>3
  <2>2. \A j \in E : j > k + 1
    BY <1>1, <1>3, <2>1 DEF BestSoFar
  <2>3. CASE \A j \in A : j > k
    <3>1. (\A j \in A : j > k + 1) /\ ~(\E i \in A : i <= k)
      BY <1>1, <2>1, <2>3
    <3>2. b.method = NoMethod /\ b.weight = i32_MAX
      BY <1>3, <3>1 DEF BestSoFar
    <3>3. QED
      BY <1>3, <2>2, <3>1, <3>2 DEF BestSoFar
  <2>4. CASE ~\A j \in A : j > k
    <3>1. PICK i \in A : /\ i <= k /\ b.method = ms[i] /\ b.weight = w[i]
                         /\ \A j \in A : j <= k => w[i] <= w[j] /\ (w[i] = w[j] => i <= j)
      BY <1>3, <2>4 DEF BestSoFar
    <3>2. \A j \in A : j <= k + 1 => w[i] <= w[j] /\ (w[i] = w[j] => i <= j)
      BY <1>1, <2>1, <3>1
    <3>3. i <= k + 1
      BY <1>1, <3>1
    <3>4. QED
      BY <1>3, <2>2, <3>1, <3>2, <3>3 DEF BestSoFar
  <2>5. QED
    BY <2>3, <2>4
<1>4. QED
  BY <1>2, <1>3

LEMMA ExactBest ==
  ASSUME NEW n \in Nat, NEW A \in SUBSET (1 .. n), NEW E \in SUBSET A, NEW ms, NEW w,
         NEW k \in 0 .. (n - 1), NEW b, BestSoFar(ms, A, E, w, k, b), ~b.exact, k + 1 \in E,
         NEW c, c.method = ms[k + 1], c.exact
  PROVE  BestSoFar(ms, A, E, w, k + 1, c)
<1>1. \A j \in E : j > k
  BY DEF BestSoFar
<1>2. k + 1 <= k + 1 /\ \A j \in E : k + 1 <= j
  BY <1>1
<1>3. QED
  BY <1>2 DEF BestSoFar

LEMMA LighterBest ==
  ASSUME NEW n \in Nat, NEW A \in SUBSET (1 .. n), NEW E \in SUBSET A, NEW ms, NEW w \in [A -> Int],
         \A i \in A : w[i] < i32_MAX,
         NEW k \in 0 .. (n - 1), NEW b, BestSoFar(ms, A, E, w, k, b), ~b.exact,
         k + 1 \in A, k + 1 \notin E,
         NEW c, ~c.exact,
         IF w[k + 1] < b.weight THEN c.method = ms[k + 1] /\ c.weight = w[k + 1]
                                ELSE c.method = b.method /\ c.weight = b.weight
  PROVE  BestSoFar(ms, A, E, w, k + 1, c)
<1>1. \A j \in A : j \in Nat /\ w[j] \in Int /\ (j # k + 1 => (j > k => j > k + 1) /\ (j <= k + 1 => j <= k)) /\ (j <= k => j <= k + 1)
  OBVIOUS
<1>2. \A j \in E : j > k + 1
  BY <1>1 DEF BestSoFar
<1>3. k + 1 <= k + 1 /\ k \in Nat
  OBVIOUS
<1>4. CASE \A j \in A : j > k
  <2>1. ~(\E i \in A : i <= k)
    BY <1>1, <1>3, <1>4
  <2>2. b.weight = i32_MAX
    BY <2>1 DEF BestSoFar
  <2>3. c.method = ms[k + 1] /\ c.weight = w[k + 1]
    BY <2>2
  <2>4. \A j \in A : j <= k + 1 => j = k + 1
    BY <1>1, <1>3, <1>4
  <2>5. \A j \in A : j <= k + 1 => w[k + 1] <= w[j] /\ (w[k + 1] = w[j] => k + 1 <= j)
    BY <1>1, <1>3, <2>4
  <2>6. QED
    BY <1>2, <1>3, <2>3, <2>5 DEF BestSoFar
<1>5. CASE ~\A j \in A : j > k
  <2>1. PICK i \in A : /\ i <= k /\ b.method = ms[i] /\ b.weight = w[i]
                       /\ \A j \in A : j <= k => w[i] <= w[j] /\ (w[i] = w[j] => i <= j)
    BY <1>5 DEF BestSoFar
  <2>2. CASE w[k + 1] < w[i]
    <3>1. c.method = ms[k + 1] /\ c.weight = w[k + 1]
      BY <2>1, <2>2
    <3>2. ASSUME NEW j \in A, j <= k + 1
          PROVE  w[k + 1] <= w[j] /\ (w[k + 1] = w[j] => k + 1 <= j)
      <4>1. CASE j = k + 1
        BY <1>1, <1>3, <4>1
      <4>2. CASE j # k + 1
        <5>1. w[i] <= w[j]
          BY <1>1, <2>1, <3>2, <4>2
        <5>2. w[i] \in Int /\ w[j] \in Int /\ w[k + 1] \in Int
          BY <1>1
        <5>3. QED
          BY <2>2, <5>1, <5>2
      <4>3. QED
        BY <4>1, <4>2
    <3>3. QED
      BY <1>2, <1>3, <3>1, <3>2 DEF BestSoFar
  <2>3. CASE ~(w[k + 1] < w[i])
    <3>1. c.method = ms[i] /\ c.weight = w[i] /\ i <= k + 1
      BY <1>1, <2>1, <2>3
    <3>2. ASSUME NEW j \in A, j <= k + 1
          PROVE  w[i] <= w[j] /\ (w[i] = w[j] => i <= j)
      <4>1. CASE j = k + 1
        BY <1>1, <2>3, <3>1, <4>1
      <4>2. CASE j # k + 1
        BY <1>1, <2>1, <3>2, <4>2
      <4>3. QED
        BY <4>1, <4>2
    <3>3. QED
      BY <1>2, <3>1, <3>2 DEF BestSoFar
  <2>4. QED
    BY <2>2, <2>3
<1>2x. QED
  BY <1>4, <1>5

\* What the loop is to answer.
Chosen(ms, A, E, w) ==
  IF A = {} THEN NoMethod
  ELSE ms[Min(IF E # {} THEN E ELSE {i \in A : \A j \in A : w[i] <= w[j]})]

LEMMA LastBest ==
  ASSUME NEW n \in Nat, NEW A \in SUBSET (1 .. n), NEW E \in SUBSET A, NEW ms, NEW w \in [A -> Int],
         NEW b, BestSoFar(ms, A, E, w, n, b)
  PROVE  b.method = Chosen(ms, A, E, w)
<1> DEFINE W == {i \in A : \A j \in A : w[i] <= w[j]}
<1>1. \A j \in A : j \in Nat /\ j <= n /\ ~(j > n) /\ w[j] \in Int
  OBVIOUS
<1>2. ASSUME NEW S \in SUBSET A, NEW i \in S, \A j \in S : i <= j PROVE Min(S) = i
  <2>1. S \in SUBSET Nat
    BY <1>1
  <2>2. Min(S) \in S /\ \A j \in S : Min(S) <= j
    BY <2>1, LeastIndex
  <2>3. Min(S) \in Nat /\ i \in Nat /\ Min(S) <= i /\ i <= Min(S)
    BY <1>1, <1>2, <2>2
  <2>4. QED
    BY <2>3
<1>3. CASE b.exact
  <2>1. PICK i \in E : b.method = ms[i] /\ \A j \in E : i <= j
    BY <1>3 DEF BestSoFar
  <2>2. Min(E) = i
    BY <1>2, <2>1
  <2>3. E # {} /\ A # {}
    BY <2>1
  <2>4. QED
    BY <2>1, <2>2, <2>3 DEF Chosen
<1>4. CASE ~b.exact
  <2>1. E = {}
    BY <1>1, <1>4 DEF BestSoFar
  <2>2. CASE A = {}
    BY <1>4, <2>2 DEF BestSoFar, Chosen
  <2>3. CASE A # {}
    <3>1. PICK i \in A : /\ b.method = ms[i]
                         /\ \A j \in A : j <= n => w[i] <= w[j] /\ (w[i] = w[j] => i <= j)
      BY <1>1, <1>4, <2>3 DEF BestSoFar
    <3>2. i \in W
      BY <1>1, <3>1
    <3>3. ASSUME NEW j \in W PROVE i <= j
      <4>1. j \in A /\ w[j] <= w[i] /\ w[i] <= w[j] /\ w[i] \in Int /\ w[j] \in Int
        BY <1>1, <3>1
      <4>2. w[i] = w[j]
        BY <4>1
      <4>3. QED
        BY <1>1, <3>1, <4>1, <4>2
    <3>4. Min(W) = i
      <4>1. W \in SUBSET A
        OBVIOUS
      <4> HIDE DEF W
      <4>2. QED
        BY <1>2, <3>2, <3>3, <4>1
    <3>5. Chosen(ms, A, E, w) = ms[Min(W)]
      BY <2>1, <2>3, Zenon DEF Chosen
    <3>6. QED
      BY <3>1, <3>4, <3>5
  <2>4. QED
    BY <2>2, <2>3
<1>5. QED
  BY <1>3, <1>4

-----------------------------------------------------------------------------
\* The best method of a request resolved with the classes cs.
BestMethod(r, cs) ==
  LET ms == hierarchy_methods(r.on)
      A  == Applicable(r, cs)
      E  == {i \in A : Exact(r, cs, ms[i])}
      W  == {i \in A : \A j \in A : method_weight(r, cs, ms[i]) <= method_weight(r, cs, ms[j])}
  IN IF A = {} THEN NoMethod ELSE ms[Min(IF E # {} THEN E ELSE W)]

LEMMA ResolveIsBest ==
  ASSUME methods \in MethodTables, NEW r \in Request, NEW cs, ClassesOf(r, cs), NEW Far, Near(Far)
  PROVE  resolve_caller_method(r, cs) = BestMethod(r, cs)
<1> DEFINE ms == hierarchy_methods(r.on)  n == Len(ms)  f == ResolveOver(r, cs, ms)
           A == Applicable(r, cs)
           E == {i \in A : Exact(r, cs, ms[i])}
           w == [i \in A |-> method_weight(r, cs, ms[i])]
           Good == {k \in 0 .. n : f[1 .. k] \in Best /\ BestSoFar(ms, A, E, w, k, f[1 .. k])}
<1>1. n \in Nat /\ ms \in [1 .. n -> Declared] /\ DOMAIN ms = 1 .. n
  <2>1. ms \in Seq(Declared)
    BY HierarchyMethodsType, RequestType
  <2> HIDE DEF ms
  <2>2. QED
    BY <2>1
<1>2. A = {i \in 1 .. n : Passes(r, cs, ms[i])}
  BY DEF Applicable, Passes
<1>3. /\ f[1 .. 0] = Start
      /\ \A k \in 0 .. (n - 1) : f[1 .. (k + 1)] = ResolveStep(r, cs, f[1 .. k], ms[k + 1])
  <2> HIDE DEF ms, n
  <2>1. QED
    BY <1>1, ResolveUpTo
<1> HIDE DEF ms, n, f, A
<1>4. A \in SUBSET (1 .. n) /\ E \in SUBSET A
  BY <1>2
<1>5. \A i \in A : w[i] = method_weight(r, cs, ms[i]) /\ w[i] \in Int /\ w[i] < i32_MAX
  <2> SUFFICES ASSUME NEW i \in A
               PROVE  w[i] = method_weight(r, cs, ms[i]) /\ w[i] \in Int /\ w[i] < i32_MAX
    OBVIOUS
  <2>1. w[i] = method_weight(r, cs, ms[i])
    OBVIOUS
  <2> HIDE DEF w
  <2>2. ms[i] \in Declared /\ Passes(r, cs, ms[i])
    BY <1>1, <1>2
  <2>3. method_weight(r, cs, ms[i]) \in Int
    BY <2>2, WeightType
  <2>4. method_weight(r, cs, ms[i]) < i32_MAX
    BY <2>2, WeightFits
  <2>5. QED
    BY <2>1, <2>3, <2>4
<1>2x. w = [i \in A |-> w[i]]
  OBVIOUS
<1>7. w \in [A -> Int]
  <2> HIDE DEF w
  <2>1. QED
    BY <1>5, <1>2x
<1>8. \A i \in A : i \in E <=> Exact(r, cs, ms[i])
  OBVIOUS
<1> HIDE DEF w, E
<1>9. 0 \in Good
  <2>1. \A j \in A : j > 0
    BY <1>4
  <2>2. \A j \in E : j > 0
    BY <1>4, <2>1
  <2>3. BestSoFar(ms, A, E, w, 0, Start)
    BY <2>1, <2>2 DEF BestSoFar, Start
  <2>4. Start \in Best
    BY DEF Start, Best, i32_MAX
  <2>5. QED
    BY <1>1, <1>3, <2>3, <2>4
<1>10. ASSUME NEW k \in 0 .. (n - 1), k \in Good PROVE k + 1 \in Good
  <2> DEFINE b == f[1 .. k]  c == f[1 .. (k + 1)]  m == ms[k + 1]
  <2>1. k + 1 \in 1 .. n /\ k + 1 \in 0 .. n
    BY <1>1
  <2>2. b \in Best /\ BestSoFar(ms, A, E, w, k, b)
    BY <1>10
  <2>3. c = ResolveStep(r, cs, b, m)
    BY <1>3
  <2>4. m \in Declared /\ (k + 1 \in A <=> Passes(r, cs, m))
    BY <1>1, <1>2, <2>1
  <2>5. k + 1 \in A => /\ w[k + 1] = method_weight(r, cs, m)
                       /\ (k + 1 \in E <=> Exact(r, cs, m))
    BY <1>5, <1>8
  <2> HIDE DEF b, c, m
  <2>6. c \in Best
    BY <2>2, <2>3, <2>4, StepType
  <2>7. ASSUME b.exact \/ k + 1 \notin A PROVE BestSoFar(ms, A, E, w, k + 1, c)
    <3>1. c = b
      BY <2>3, <2>4, <2>7, Zenon DEF ResolveStep, Passes
    <3>2. QED
      BY <1>1, <1>4, <2>2, <2>7, <3>1, KeptBest
  <2>8. ASSUME ~b.exact /\ k + 1 \in E PROVE BestSoFar(ms, A, E, w, k + 1, c)
    <3>1. k + 1 \in A
      BY <1>4, <2>8
    <3>2. c = [b EXCEPT !.method = m, !.exact = TRUE]
      BY <2>3, <2>4, <2>5, <2>8, <3>1, Zenon DEF ResolveStep, Passes
    <3>3. c.method = m /\ c.exact
      BY <2>2, <3>2 DEF Best
    <3>4. QED
      BY <1>1, <1>4, <2>2, <2>8, <3>3, ExactBest DEF m
  <2>9. ASSUME ~b.exact /\ k + 1 \in A /\ k + 1 \notin E PROVE BestSoFar(ms, A, E, w, k + 1, c)
    <3>1. c = IF w[k + 1] < b.weight THEN [b EXCEPT !.method = m, !.weight = w[k + 1]] ELSE b
      BY <2>3, <2>4, <2>5, <2>9, Zenon DEF ResolveStep, Passes
    <3>2. CASE w[k + 1] < b.weight
      <4>1. c = [b EXCEPT !.method = m, !.weight = w[k + 1]]
        BY <3>1, <3>2
      <4>2. c.method = m /\ c.weight = w[k + 1] /\ c.exact = b.exact
        BY <2>2, <4>1 DEF Best
      <4>3. QED
        BY <1>1, <1>4, <1>5, <1>7, <2>2, <2>9, <3>2, <4>2, LighterBest DEF m
    <3>3. CASE ~(w[k + 1] < b.weight)
      <4>1. c = b
        BY <3>1, <3>3
      <4>2. QED
        BY <1>1, <1>4, <1>5, <1>7, <2>2, <2>9, <3>3, <4>1, LighterBest
    <3>4. QED
      BY <3>2, <3>3
  <2>10. BestSoFar(ms, A, E, w, k + 1, c)
    BY <2>7, <2>8, <2>9
  <2>11. QED
    BY <2>1, <2>6, <2>10 DEF c
<1>11. n \in Good
  <2> HIDE DEF Good
  <2>1. \A k \in 0 .. n : k \in Good
    BY <1>1, <1>9, <1>10, Upwards
  <2>2. QED
    BY <1>1, <2>1
<1>12. f[1 .. n].method = Chosen(ms, A, E, w)
  <2> DEFINE b == f[1 .. n]
  <2>1. BestSoFar(ms, A, E, w, n, b)
    BY <1>11
  <2> HIDE DEF b
  <2>2. b.method = Chosen(ms, A, E, w)
    BY <1>1, <1>4, <1>7, <2>1, LastBest
  <2>3. QED
    BY <2>2 DEF b
<1>13. resolve_caller_method(r, cs) = f[1 .. n].method
  BY <1>1, ResolveIsOver, Zenon DEF f, ms
<1>14. {i \in A : \A j \in A : w[i] <= w[j]}
         = {i \in A : \A j \in A : method_weight(r, cs, ms[i]) <= method_weight(r, cs, ms[j])}
  BY <1>5
<1>15. Chosen(ms, A, E, w) = BestMethod(r, cs)
  BY <1>14, Zenon DEF Chosen, BestMethod, E, A, ms
<1>16. QED
  BY <1>12, <1>13, <1>15

-----------------------------------------------------------------------------
(***************************************************************************)
(* The methods of a class do not change, nor does what is the best of them.*)
(***************************************************************************)
LEMMA MethodsKept ==
  ASSUME UNCHANGED methods, NEW c
  PROVE  hierarchy_methods(c)' = hierarchy_methods(c)
BY SMT DEF hierarchy_methods

LEMMA ShapeKept ==
  ASSUME UNCHANGED methods, NEW r, NEW m
  PROVE  Info(m)' = Info(m) /\ NameAndShape(r, m)' = NameAndShape(r, m)
BY SMT DEF NameAndShape, Info

LEMMA TypesKept ==
  ASSUME UNCHANGED methods, NEW r
  PROVE  Types(r)' = Types(r)
<1> DEFINE some == \E i \in 1 .. Len(hierarchy_methods(r.on)) : NameAndShape(r, hierarchy_methods(r.on)[i])
<1>1. some' <=> some
  BY MethodsKept, ShapeKept
<1> HIDE DEF some
<1>2. Types(r) = [i \in 1 .. Len(r.args) |-> r.args[i].type] \o r.generics \o
                 IF r.generics = << >> /\ r.ret # Unit /\ some THEN <<r.ret>> ELSE << >>
  BY Zenon DEF Types, some
<1>3. QED
  BY <1>1, <1>2, Zenon DEF Types, some

LEMMA FitsKept ==
  ASSUME UNCHANGED methods, NEW r, NEW cs, NEW m
  PROVE  /\ is_candidate(r, cs, m)' <=> is_candidate(r, cs, m)
         /\ Fits(r, cs, m)' <=> Fits(r, cs, m)
         /\ Exact(r, cs, m)' <=> Exact(r, cs, m)
         /\ method_weight(r, cs, m)' = method_weight(r, cs, m)
<1>1. Info(m)' = Info(m) /\ (NameAndShape(r, m)' <=> NameAndShape(r, m))
  BY ShapeKept
<1>2. is_candidate(r, cs, m)' <=> is_candidate(r, cs, m)
  BY <1>1, Zenon DEF is_candidate
<1>3. Fits(r, cs, m)' <=> Fits(r, cs, m)
  BY <1>1, Zenon DEF Fits
<1>4. ASSUME NEW i PROVE ParamClass(r, cs, m, i)' = ParamClass(r, cs, m, i)
  BY <1>1, Zenon DEF ParamClass
<1>5. Exact(r, cs, m)' <=> Exact(r, cs, m)
  BY <1>4, Zenon DEF Exact
<1>2x. method_weight(r, cs, m)' = method_weight(r, cs, m)
  <2> DEFINE ds == [i \in 1 .. Len(r.args) |-> param_distance(ParamClass(r, cs, m, i), cs[i])]
  <2>1. ds' = ds
    BY <1>4
  <2>2. method_weight(r, cs, m) = FoldLeft(+, 0, ds)
    BY Zenon DEF method_weight
  <2>3. method_weight(r, cs, m)' = FoldLeft(+, 0, ds')
    BY SMT DEF method_weight, FoldLeft, MapThenFoldSet
  <2> HIDE DEF ds
  <2>4. QED
    BY <2>1, <2>2, <2>3, Zenon
<1>7. QED
  BY <1>2, <1>3, <1>5, <1>2x

LEMMA BestKept ==
  ASSUME UNCHANGED methods, NEW r, NEW cs
  PROVE  BestMethod(r, cs)' = BestMethod(r, cs)
<1>1. hierarchy_methods(r.on)' = hierarchy_methods(r.on)
  BY MethodsKept
<1>2. Applicable(r, cs)' = Applicable(r, cs)
  BY <1>1, FitsKept DEF Applicable
<1>3. QED
  BY <1>1, <1>2, FitsKept DEF BestMethod

-----------------------------------------------------------------------------
(***************************************************************************)
(* The method caches.                                                      *)
(***************************************************************************)
MethodInv ==
  /\ IInv
  /\ methods \in MethodTables
  /\ METHOD_CACHE = [t \in Thread |-> METHOD_CACHE[t]]
  /\ \A t \in Thread : \A k \in DOMAIN METHOD_CACHE[t] : METHOD_CACHE[t][k] \in Declared

\* A remembered method is the best for the classes of the request's types, all of
\* which are known by then.
Remembered(r, m) ==
  /\ NoClass \notin ToSet(Known(CLASS, Types(r)))
  /\ m = BestMethod(r, Known(CLASS, Types(r)))

CacheInv ==
  \A t \in Thread, r \in Request :
    KeyOf(r) \in DOMAIN METHOD_CACHE[t] => Remembered(r, METHOD_CACHE[t][KeyOf(r)])

LEMMA KnownType ==
  ASSUME Loaded, NEW b, Owned(b), NEW r \in Request, NoClass \notin ToSet(Known(b, Types(r)))
  PROVE  ClassesOf(r, Known(b, Types(r)))
<1> DEFINE Ts == Types(r)  n == Len(Ts)  cs == Known(b, Ts)
<1>1. Ts \in Seq(RustType) /\ n \in Nat
  <2>1. Ts \in Seq(RustType)
    BY TypesType
  <2> HIDE DEF Ts
  <2>2. QED
    BY <2>1
<1> HIDE DEF Ts, n
<1>2. cs = [i \in 1 .. n |-> Answers(b, Ts[i])]
  BY DEF Known, n
<1> HIDE DEF cs
<1>3. ASSUME NEW i \in 1 .. n PROVE cs[i] \in Class
  <2>1. Ts[i] \in RustType
    BY <1>1 DEF n
  <2>2. cs[i] = Answers(b, Ts[i]) /\ cs[i] \in Option
    BY <1>2, <2>1, AnswersType
  <2>3. cs[i] \in ToSet(cs)
    BY <1>2 DEF ToSet
  <2>4. QED
    BY <2>2, <2>3 DEF Option, cs, Ts
<1>4. cs = [i \in 1 .. n |-> cs[i]]
  BY <1>2
<1>5. cs \in Seq(Class) /\ Len(cs) = n
  BY <1>1, <1>3, <1>4
<1>2x. QED
  BY <1>5 DEF ClassesOf, cs, Ts, n

\* What evaluating a request on a thread comes to.
LEMMA EvaluateIs ==
  ASSUME IInv, NEW t \in Thread, NEW r \in Request
  PROVE  \E a, b, c, cs :
           /\ Evaluate(View(t), r) = [view |-> V(a, b, c), classes |-> cs]
           /\ Fresh(a) /\ Owned(b) /\ Grows(CLASS, b)
           /\ NoClass \notin ToSet(cs) => cs = Known(b, Types(r)) /\ ClassesOf(r, cs)
<1> DEFINE Ts == Types(r)  e == Evaluate(View(t), r)
<1>1. Evaluated(CLASS, Ts, Len(Ts), e)
  BY ViewIs, TypesType, EvaluateAll
<1> HIDE DEF e
<1>2. PICK a, b, c :
         /\ e = [view |-> V(a, b, c), classes |-> e.classes]
         /\ Fresh(a) /\ Owned(b) /\ Grows(CLASS, b)
         /\ NoClass \notin ToSet(e.classes) => e.classes = [i \in 1 .. Len(Ts) |-> Answers(b, Ts[i])]
  BY <1>1, Zenon DEF Evaluated
<1>3. NoClass \notin ToSet(e.classes) => e.classes = Known(b, Ts) /\ ClassesOf(r, e.classes)
  BY <1>2, ViewIs, KnownType DEF Known
<1>4. QED
  BY <1>2, <1>3 DEF e

LEMMA KnownGrows ==
  ASSUME NEW b, NEW b2, Grows(b, b2), NEW Ts, NoClass \notin ToSet(Known(b, Ts))
  PROVE  Known(b2, Ts) = Known(b, Ts)
<1>1. ASSUME NEW i \in 1 .. Len(Ts) PROVE Answers(b2, Ts[i]) = Answers(b, Ts[i])
  <2>1. Answers(b, Ts[i]) \in ToSet(Known(b, Ts))
    BY DEF ToSet, Known
  <2>2. QED
    BY <2>1, AnswersStay
<1>2. QED
  BY <1>1 DEF Known

-----------------------------------------------------------------------------
LEMMA MethodInit == Init => MethodInv
<1> SUFFICES ASSUME Init PROVE MethodInv
  OBVIOUS
<1>1. IInv
  BY InitInv DEF Init
<1>2. QED
  BY <1>1 DEF Init, MethodInv

\* What a lookup of a method does: it looks classes up and remembers a method that
\* it found.
LEMMA MissIs ==
  ASSUME MethodInv, NEW t \in Thread, NEW r \in Request, Miss(t, r)
  PROVE  /\ Looked(t) /\ UNCHANGED <<loaded, methods>>
         /\ KeyOf(r) \notin DOMAIN METHOD_CACHE[t]
         /\ \/ UNCHANGED METHOD_CACHE
            \/ \E cs : /\ cs = Known(CLASS', Types(r)) /\ NoClass \notin ToSet(cs) /\ ClassesOf(r, cs)
                       /\ resolve_caller_method(r, cs) # NoMethod
                       /\ METHOD_CACHE' = [METHOD_CACHE EXCEPT ![t] =
                                             With(@, KeyOf(r), resolve_caller_method(r, cs))]
<1>1. PICK a, b, c, cs :
         /\ Evaluate(View(t), r) = [view |-> V(a, b, c), classes |-> cs]
         /\ Fresh(a) /\ Owned(b) /\ Grows(CLASS, b)
         /\ NoClass \notin ToSet(cs) => cs = Known(b, Types(r)) /\ ClassesOf(r, cs)
  BY EvaluateIs DEF MethodInv
<1> DEFINE e == Evaluate(View(t), r)
           m == IF NoClass \in ToSet(e.classes) THEN NoMethod ELSE resolve_caller_method(r, e.classes)
<1>2. /\ KeyOf(r) \notin DOMAIN METHOD_CACHE[t]
      /\ Keep(t, e.view)
      /\ METHOD_CACHE' = IF m = NoMethod THEN METHOD_CACHE
                         ELSE [METHOD_CACHE EXCEPT ![t] = With(@, KeyOf(r), m)]
      /\ UNCHANGED <<loaded, methods>>
  BY Zenon DEF Miss
<1>3. e.view = V(a, b, c) /\ e.classes = cs
  BY <1>1
<1> HIDE DEF e
<1>4. Looked(t)
  BY <1>1, <1>2, <1>3, Zenon DEF Looked
<1>5. CLASS' = b
  BY <1>2, <1>3 DEF Keep, V
<1>2x. CASE NoClass \in ToSet(cs)
  BY <1>2, <1>3, <1>4, <1>2x
<1>7. CASE NoClass \notin ToSet(cs)
  <2>1. m = resolve_caller_method(r, cs)
    BY <1>3, <1>7
  <2> HIDE DEF m
  <2>2. cs = Known(CLASS', Types(r)) /\ ClassesOf(r, cs)
    BY <1>1, <1>5, <1>7
  <2>3. QED
    BY <1>2, <1>4, <1>7, <2>1, <2>2
<1>8. QED
  BY <1>2x, <1>7

LEMMA DeclaredKept == ASSUME UNCHANGED methods PROVE Declared' = Declared
BY DEF Declared

LEMMA MethodNext == MethodInv /\ [Next]_vars => MethodInv'
<1> SUFFICES ASSUME MethodInv, [Next]_vars PROVE MethodInv'
  OBVIOUS
<1>1. CASE [ClassNext]_classVars /\ UNCHANGED <<methods, METHOD_CACHE>>
  BY <1>1, NextInv, DeclaredKept DEF MethodInv
<1>2. ASSUME NEW t \in Thread, NEW r \in Request, Miss(t, r) PROVE MethodInv'
  <2>1. IInv' /\ UNCHANGED <<loaded, methods>> /\ Declared' = Declared
    BY <1>2, MissIs, LookedInv, DeclaredKept DEF MethodInv
  <2>2. CASE UNCHANGED METHOD_CACHE
    BY <2>1, <2>2 DEF MethodInv
  <2>3. CASE ~UNCHANGED METHOD_CACHE
    <3>1. PICK cs : /\ ClassesOf(r, cs) /\ resolve_caller_method(r, cs) # NoMethod
                    /\ METHOD_CACHE' = [METHOD_CACHE EXCEPT ![t] =
                                          With(@, KeyOf(r), resolve_caller_method(r, cs))]
      BY <1>2, <2>3, MissIs
    <3>2. resolve_caller_method(r, cs) \in Declared
      BY <3>1, ResolveType DEF MethodInv
    <3> DEFINE f == With(METHOD_CACHE[t], KeyOf(r), resolve_caller_method(r, cs))
    <3>3. \A k \in DOMAIN f : f[k] \in Declared
      <4> DEFINE g == METHOD_CACHE[t]  key == KeyOf(r)  m == resolve_caller_method(r, cs)
      <4>1. key \notin DOMAIN g /\ \A k \in DOMAIN g : g[k] \in Declared
        BY <1>2, MissIs DEF MethodInv
      <4>2. m \in Declared
        BY <3>2
      <4> HIDE DEF g, key, m
      <4>3. \A k \in DOMAIN With(g, key, m) : With(g, key, m)[k] \in Declared
        BY <4>1, <4>2 DEF With
      <4>4. QED
        BY <4>3 DEF f, g, key, m
    <3> HIDE DEF f
    <3>4. METHOD_CACHE' = [METHOD_CACHE EXCEPT ![t] = f]
      BY <3>1 DEF f
    <3>5. METHOD_CACHE' = [u \in Thread |-> METHOD_CACHE'[u]]
      BY <3>4 DEF MethodInv
    <3>6. \A u \in Thread : METHOD_CACHE'[u] = IF u = t THEN f ELSE METHOD_CACHE[u]
      BY <3>4 DEF MethodInv
    <3>7. \A u \in Thread : \A k \in DOMAIN METHOD_CACHE'[u] : METHOD_CACHE'[u][k] \in Declared
      BY <3>3, <3>6 DEF MethodInv
    <3>8. QED
      BY <2>1, <3>5, <3>7 DEF MethodInv
  <2>4. QED
    BY <2>2, <2>3
<1>3. QED
  BY <1>1, <1>2 DEF Next, Hit, vars, classVars

-----------------------------------------------------------------------------
(***************************************************************************)
(* What a thread remembers stays the best.                                 *)
(***************************************************************************)
LEMMA RememberedStays ==
  ASSUME UNCHANGED methods, Grows(CLASS, CLASS'), \A n : Scan(n) # NoClass => Scan(n)' = Scan(n),
         NEW r, NEW m, Remembered(r, m)
  PROVE  Remembered(r, m)'
<1> DEFINE Ts == Types(r)
<1>1. PICK cs : cs = Known(CLASS, Ts) /\ NoClass \notin ToSet(cs) /\ m = BestMethod(r, cs)
  BY DEF Remembered
<1>2. Ts' = Ts
  BY TypesKept
<1>3. ASSUME NEW i \in 1 .. Len(Ts) PROVE Answers(CLASS, Ts[i])' = Answers(CLASS, Ts[i])
  <2>1. Answers(CLASS, Ts[i]) \in ToSet(cs)
    BY <1>1 DEF Known, ToSet
  <2>2. Answers(CLASS, Ts[i]) # NoClass
    BY <1>1, <2>1
  <2> DEFINE T == Ts[i]
  <2>3. T' = T
    BY <1>2
  <2> HIDE DEF T
  <2>4. CASE T \in GenericType
    BY <2>2, <2>3, <2>4, NamesOfTypes DEF Answers, Grows, T
  <2>5. CASE T \notin GenericType
    <3>1. Answers(CLASS, T) = Scan(TypeName[T]) /\ Answers(CLASS, T)' = Scan(TypeName[T])'
      BY <2>3, <2>5 DEF Answers
    <3>2. PICK n : n = TypeName[T]
      OBVIOUS
    <3>3. Scan(n)' = Scan(n)
      BY <2>2, <3>1, <3>2 DEF T
    <3>4. Scan(TypeName[T])' = Scan(n)'
      BY <2>3, <3>2 DEF Scan
    <3>5. QED
      BY <3>1, <3>2, <3>3, <3>4 DEF T
  <2>6. QED
    BY <2>4, <2>5
<1>4. Known(CLASS, Ts)' = Known(CLASS, Ts)
  BY <1>2, <1>3 DEF Known
<1>5. BestMethod(r, cs)' = BestMethod(r, cs)
  BY BestKept
<1>2x. Known(CLASS, Ts)' = cs
  BY <1>1, <1>4
<1>7. BestMethod(r, Known(CLASS, Ts))' = BestMethod(r, cs)'
  BY <1>2x
<1>8. QED
  BY <1>1, <1>5, <1>2x, <1>7 DEF Remembered

-----------------------------------------------------------------------------
LEMMA CacheInit == Init => CacheInv
BY DEF Init, CacheInv

\* A lookup keeps the OnceLocks that are filled.
LEMMA LookedGrows == ASSUME NEW t \in Thread, Looked(t) PROVE Grows(CLASS, CLASS')
BY DEF Looked, Keep, V

\* What is remembered stays right when a step forgets nothing it rests on.
LEMMA CacheStays ==
  ASSUME CacheInv, UNCHANGED <<methods, METHOD_CACHE>>, Grows(CLASS, CLASS'),
         \A n : Scan(n) # NoClass => Scan(n)' = Scan(n)
  PROVE  CacheInv'
<1> SUFFICES ASSUME NEW t \in Thread, NEW r \in Request, KeyOf(r) \in DOMAIN METHOD_CACHE'[t]
             PROVE  Remembered(r, METHOD_CACHE[t][KeyOf(r)])'
  BY DEF CacheInv, KeyOf
<1>1. PICK m : m = METHOD_CACHE[t][KeyOf(r)]
  OBVIOUS
<1>2. Remembered(r, m)
  BY <1>1 DEF CacheInv
<1>3. Remembered(r, m)'
  BY <1>2, RememberedStays
<1>4. METHOD_CACHE'[t][KeyOf(r)] = m
  BY <1>1
<1>5. QED
  BY <1>3, <1>4 DEF Remembered

\* So it does when a thread remembers a method that is the best.
LEMMA CacheGains ==
  ASSUME OwnKeys, MethodInv, CacheInv, NEW Far, Near(Far), NEW t \in Thread, NEW r \in Request,
         Miss(t, r), ~UNCHANGED METHOD_CACHE
  PROVE  CacheInv'
<1>1. Looked(t) /\ UNCHANGED <<loaded, methods>> /\ KeyOf(r) \notin DOMAIN METHOD_CACHE[t]
  BY MissIs
<1>2. PICK cs : /\ cs = Known(CLASS', Types(r)) /\ NoClass \notin ToSet(cs) /\ ClassesOf(r, cs)
                /\ METHOD_CACHE' = [METHOD_CACHE EXCEPT ![t] =
                                      With(@, KeyOf(r), resolve_caller_method(r, cs))]
  BY MissIs
<1>3. PICK m : m = resolve_caller_method(r, cs)
  OBVIOUS
<1>4. Remembered(r, m)'
  <2>1. m = BestMethod(r, cs)
    BY <1>2, <1>3, ResolveIsBest DEF MethodInv
  <2>2. BestMethod(r, cs)' = BestMethod(r, cs)
    BY <1>1, BestKept
  <2>3. Types(r)' = Types(r)
    BY <1>1, TypesKept
  <2>4. ASSUME NEW n PROVE Scan(n)' = Scan(n)
    BY <1>1, ScanKept
  <2>5. Known(CLASS, Types(r))' = cs
    BY <1>2, <2>3, <2>4 DEF Known, Answers
  <2>6. BestMethod(r, Known(CLASS, Types(r)))' = BestMethod(r, cs)'
    BY <2>5
  <2>7. QED
    BY <1>2, <2>1, <2>2, <2>5, <2>6 DEF Remembered
<1>5. Grows(CLASS, CLASS')
  BY <1>1, LookedGrows
<1>2x. \A n : Scan(n)' = Scan(n)
  <2>1. ASSUME NEW n PROVE Scan(n)' = Scan(n)
    BY <1>1, ScanKept
  <2>2. QED
    BY <2>1
<1> SUFFICES ASSUME NEW u \in Thread, NEW q \in Request, KeyOf(q) \in DOMAIN METHOD_CACHE'[u]
             PROVE  Remembered(q, METHOD_CACHE[u][KeyOf(q)])'
  BY DEF CacheInv, KeyOf
<1> DEFINE f == With(METHOD_CACHE[t], KeyOf(r), m)
<1>7. METHOD_CACHE'[u] = IF u = t THEN f ELSE METHOD_CACHE[u]
  BY <1>2, <1>3 DEF MethodInv
<1>8. /\ DOMAIN f = DOMAIN METHOD_CACHE[t] \cup {KeyOf(r)} /\ f[KeyOf(r)] = m
      /\ \A x \in DOMAIN METHOD_CACHE[t] : f[x] = METHOD_CACHE[t][x]
  <2> DEFINE g == METHOD_CACHE[t]  key == KeyOf(r)
  <2>1. key \notin DOMAIN g
    BY <1>1
  <2> HIDE DEF g, key
  <2>2. /\ DOMAIN With(g, key, m) = DOMAIN g \cup {key} /\ With(g, key, m)[key] = m
        /\ \A x \in DOMAIN g : With(g, key, m)[x] = g[x]
    BY <2>1 DEF With
  <2>3. QED
    BY <2>2, Zenon DEF f, g, key
<1> HIDE DEF f
<1>9. CASE u = t /\ KeyOf(q) = KeyOf(r)
  <2>1. q = r
    BY <1>9 DEF OwnKeys, KeyOf
  <2>2. METHOD_CACHE'[u][KeyOf(q)] = m
    BY <1>7, <1>8, <1>9
  <2>3. QED
    BY <1>4, <2>1, <2>2 DEF Remembered
<1>10. CASE ~(u = t /\ KeyOf(q) = KeyOf(r))
  <2>1. KeyOf(q) \in DOMAIN METHOD_CACHE[u] /\ METHOD_CACHE'[u][KeyOf(q)] = METHOD_CACHE[u][KeyOf(q)]
    BY <1>7, <1>8, <1>10
  <2>2. PICK old : old = METHOD_CACHE[u][KeyOf(q)]
    OBVIOUS
  <2>3. Remembered(q, old)
    BY <2>1, <2>2 DEF CacheInv
  <2>4. Remembered(q, old)'
    BY <1>1, <1>5, <1>2x, <2>3, RememberedStays
  <2>5. QED
    BY <2>1, <2>2, <2>4 DEF Remembered
<1>11. QED
  BY <1>9, <1>10

LEMMA CacheNext ==
  ASSUME OwnKeys, NEW Far, Near(Far)
  PROVE  MethodInv /\ CacheInv /\ [Next]_vars => CacheInv'
<1> SUFFICES ASSUME MethodInv, CacheInv, [Next]_vars PROVE CacheInv'
  OBVIOUS
<1>1. CASE LoadAssembly /\ UNCHANGED <<methods, METHOD_CACHE>>
  <2>1. loaded \in Nat
    BY ClassAssumption DEF MethodInv, IInv, Loaded
  <2>2. \A n : Scan(n) # NoClass => Scan(n)' = Scan(n)
    <3>1. ASSUME NEW n, Scan(n) # NoClass PROVE Scan(n)' = Scan(n)
      BY <1>1, <2>1, <3>1, FoundStays
    <3>2. QED
      BY <3>1
  <2>3. Grows(CLASS, CLASS')
    BY <1>1 DEF LoadAssembly, Grows
  <2>4. QED
    BY <1>1, <2>2, <2>3, CacheStays
<1>2. ASSUME UNCHANGED <<loaded, methods, METHOD_CACHE>>, Grows(CLASS, CLASS') PROVE CacheInv'
  <2>1. \A n : Scan(n) # NoClass => Scan(n)' = Scan(n)
    <3>1. ASSUME NEW n PROVE Scan(n)' = Scan(n)
      BY <1>2, ScanKept
    <3>2. QED
      BY <3>1
  <2>2. QED
    BY <1>2, <2>1, CacheStays
<1>3. ASSUME NEW t \in Thread, Looked(t), UNCHANGED <<methods, METHOD_CACHE>> PROVE CacheInv'
  BY <1>2, <1>3, LookedGrows DEF Looked
<1>4. CASE ClassNext /\ UNCHANGED <<methods, METHOD_CACHE>>
  BY <1>1, <1>3, <1>4, LookupIs DEF MethodInv
<1>5. ASSUME NEW t \in Thread, NEW r \in Request, Miss(t, r) PROVE CacheInv'
  <2>1. CASE UNCHANGED METHOD_CACHE
    BY <1>3, <1>5, <2>1, MissIs
  <2>2. CASE ~UNCHANGED METHOD_CACHE
    BY <1>5, <2>2, CacheGains
  <2>3. QED
    BY <2>1, <2>2
<1>2x. CASE UNCHANGED vars
  BY <1>2, <1>2x DEF vars, classVars, Grows
<1>7. QED
  BY <1>4, <1>5, <1>2x DEF Next, Hit

-----------------------------------------------------------------------------
(***************************************************************************)
(* Where a class's ancestors stand in its hierarchy, and how near one of   *)
(* them is.                                                                *)
(***************************************************************************)
Ancestors(up, k) ==
  /\ hierarchy[up[k]] \in Seq(Class) /\ Len(hierarchy[up[k]]) = Len(up) - k + 1
  /\ \A i \in 1 .. (Len(up) - k + 1) : hierarchy[up[k]][i] = up[k + i - 1]

\* The hierarchy of a class goes on with that of each of its ancestors.
LEMMA HierarchyGoesOn ==
  ASSUME NEW c \in Class
  PROVE  \A k \in 1 .. Len(hierarchy[c]) : Ancestors(hierarchy[c], k)
<1> DEFINE S == {d \in Class : \A k \in 1 .. Len(hierarchy[d]) : Ancestors(hierarchy[d], k)}
<1>1. ASSUME NEW d \in Class, Parent[d] = NoClass \/ Parent[d] \in S
      PROVE  d \in S
  <2> DEFINE up == hierarchy[d]
  <2>1. up \in Seq(Class) /\ Len(up) \in Nat /\ Len(up) > 0 /\ up[1] = d
    BY HierarchyType
  <2>2. Ancestors(up, 1)
    <3>1. hierarchy[up[1]] = up
      BY <2>1
    <3> HIDE DEF up
    <3>2. QED
      BY <2>1, <3>1 DEF Ancestors
  <2>3. ASSUME NEW k \in 1 .. Len(up), k # 1 PROVE Ancestors(up, k)
    <3> DEFINE rest == hierarchy[Parent[d]]
    <3>1. up = <<d>> \o IF Parent[d] = NoClass THEN << >> ELSE rest
      BY HierarchyIs
    <3>2. Parent[d] # NoClass
      <4>1. ASSUME Parent[d] = NoClass PROVE FALSE
        <5>1. up = <<d>>
          BY <3>1, <4>1
        <5> HIDE DEF up
        <5>2. QED
          BY <2>3, <5>1
      <4>2. QED
        BY <4>1
    <3>3. Parent[d] \in Class /\ \A j \in 1 .. Len(rest) : Ancestors(rest, j)
      BY <1>1, <3>2
    <3>4. rest \in Seq(Class) /\ Len(rest) \in Nat /\ up = <<d>> \o rest
      BY <3>1, <3>2, <3>3, HierarchyType
    <3> HIDE DEF up, rest
    <3>5. Len(up) = Len(rest) + 1 /\ \A i \in 1 .. Len(rest) : up[i + 1] = rest[i]
      BY <3>4
    <3>6. PICK j \in 1 .. Len(rest) : k = j + 1
      <4>1. k - 1 \in 1 .. Len(rest) /\ k = (k - 1) + 1
        BY <2>3, <3>4, <3>5
      <4>2. QED
        BY <4>1
    <3>7. up[k] = rest[j] /\ Len(up) - k + 1 = Len(rest) - j + 1
      BY <3>4, <3>5, <3>6
    <3>8. ASSUME NEW i \in 1 .. (Len(rest) - j + 1) PROVE up[k + i - 1] = rest[j + i - 1]
      <4>1. j + i - 1 \in 1 .. Len(rest) /\ k + i - 1 = (j + i - 1) + 1
        BY <3>4, <3>6
      <4>2. QED
        BY <3>5, <4>1
    <3>9. Ancestors(rest, j)
      BY <3>3
    <3> DEFINE h == hierarchy[up[k]]
    <3>10. h \in Seq(Class) /\ Len(h) = Len(rest) - j + 1 /\ \A i \in 1 .. (Len(rest) - j + 1) : h[i] = rest[j + i - 1]
      BY <3>7, <3>9 DEF Ancestors
    <3> HIDE DEF h
    <3>11. h \in Seq(Class) /\ Len(h) = Len(up) - k + 1 /\ \A i \in 1 .. (Len(up) - k + 1) : h[i] = up[k + i - 1]
      BY <3>7, <3>8, <3>10
    <3>12. QED
      BY <3>11 DEF Ancestors, h
  <2>4. QED
    BY <2>2, <2>3
<1>2. c \in S
  <2> HIDE DEF S
  <2>1. QED
    BY <1>1, Downwards
<1>3. QED
  BY <1>2

\* A class derives from those of its hierarchy; near stands before far.
LEMMA FarIsFurther ==
  ASSUME NEW c \in Class, NEW near, near \in ToSet(hierarchy[c]),
         NEW far, far \in ToSet(hierarchy[near]), far # near
  PROVE  \E k \in 1 .. Len(hierarchy[c]) :
           /\ hierarchy[c][k] = near /\ k < Len(hierarchy[c])
           /\ \A i \in 1 .. k : /\ hierarchy[c][i] \in Class /\ hierarchy[c][i] # far
                                /\ far \in ToSet(hierarchy[hierarchy[c][i]])
<1> DEFINE up == hierarchy[c]
<1>1. up \in Seq(Class) /\ Len(up) \in Nat /\ \A k \in 1 .. Len(up) : Ancestors(up, k)
  <2>1. up \in Seq(Class)
    BY HierarchyType
  <2>2. Len(up) \in Nat
    <3> HIDE DEF up
    <3>1. QED
      BY <2>1
  <2>3. QED
    BY <2>1, <2>2, HierarchyGoesOn
<1>2. near \in ToSet(up)
  OBVIOUS
<1> HIDE DEF up
<1>3. PICK k \in 1 .. Len(up) : up[k] = near
  BY <1>1, <1>2 DEF ToSet
<1> DEFINE h == hierarchy[near]
<1>4. h \in Seq(Class) /\ Len(h) = Len(up) - k + 1 /\ \A i \in 1 .. (Len(up) - k + 1) : h[i] = up[k + i - 1]
  BY <1>1, <1>3 DEF Ancestors
<1>5. far \in ToSet(h)
  OBVIOUS
<1> HIDE DEF h
<1>2x. PICK l \in 1 .. Len(h) : h[l] = far
  BY <1>4, <1>5 DEF ToSet
<1>7. PICK j \in 1 .. Len(up) : j = k + l - 1 /\ up[j] = far /\ j >= k
  <2>1. k + l - 1 \in 1 .. Len(up) /\ l \in 1 .. (Len(up) - k + 1) /\ k + l - 1 >= k
    BY <1>1, <1>4, <1>2x
  <2>2. QED
    BY <1>4, <1>2x, <2>1
<1>8. j > k
  BY <1>1, <1>3, <1>7
<1>9. ASSUME NEW i \in 1 .. k
      PROVE  up[i] \in Class /\ up[i] # far /\ far \in ToSet(hierarchy[up[i]])
  <2>1. i \in 1 .. Len(up) /\ i < j
    BY <1>1, <1>8
  <2>2. Len(hierarchy[up[i]]) = Len(up) - i + 1 /\ Len(hierarchy[up[j]]) = Len(up) - j + 1
    BY <1>1, <2>1 DEF Ancestors
  <2>3. up[i] # up[j]
    <3>1. Len(up) - i + 1 # Len(up) - j + 1
      BY <1>1, <2>1
    <3>2. QED
      BY <2>2, <3>1
  <2>4. far \in ToSet(hierarchy[up[i]])
    <3> DEFINE g == hierarchy[up[i]]  x == j - i + 1
    <3>1. x \in 1 .. (Len(up) - i + 1) /\ i + x - 1 = j
      BY <1>1, <2>1
    <3>2. Len(g) = Len(up) - i + 1 /\ \A y \in 1 .. (Len(up) - i + 1) : g[y] = up[i + y - 1]
      BY <1>1, <2>1 DEF Ancestors
    <3>3. g \in Seq(Class)
      BY <1>1, <2>1 DEF Ancestors
    <3> HIDE DEF g, x
    <3>4. x \in 1 .. Len(g) /\ g[x] = far
      BY <1>7, <3>1, <3>2
    <3>5. far \in ToSet(g)
      BY <3>3, <3>4 DEF ToSet
    <3>6. QED
      BY <3>5 DEF g
  <2>5. QED
    BY <1>1, <1>7, <2>1, <2>3, <2>4
<1>10. k < Len(up)
  BY <1>1, <1>8
<1>11. QED
  BY <1>3, <1>9, <1>10 DEF up

\* A list with nothing in it shares nothing.
LEMMA NothingShared ==
  ASSUME NEW b, Len(b) \in Nat
  PROVE  SharedInterfaces(<< >>, b) = 0
<1> DEFINE f == CHOOSE g : Merges(<< >>, b, g)
<1>1. Len(<< >>) \in Nat /\ <<1, 1>> \in Pairs(<< >>, b) /\ <<1, 1>>[1] > Len(<< >>)
  BY DEF Pairs
<1>2. Merges(<< >>, b, f)
  BY <1>1, MergeExists, Zenon
<1> HIDE DEF f
<1>3. f[<<1, 1>>] = MergeBody(<< >>, b, f, <<1, 1>>)
  BY <1>1, <1>2, Zenon DEF Merges
<1>4. f[<<1, 1>>] = 0
  BY <1>1, <1>3, Zenon DEF MergeBody
<1>5. QED
  BY <1>4, SharedIs, Zenon DEF f

\* Where the walk up to a class stops.
StopsAt(to, up) ==
  {k \in 1 .. Len(up) : k = Len(up) \/ up[k] = to \/ ~is_assignable_from(to, up[k])}

LEMMA DistanceIs ==
  ASSUME NEW to \in Class \ Interface, NEW passed \in Class \ Interface, to # passed
  PROVE  \E last \in StopsAt(to, hierarchy[passed]) :
           /\ \A k \in StopsAt(to, hierarchy[passed]) : last <= k
           /\ param_distance(to, passed) <= last - 1
           /\ Interfaces[to] = << >> => param_distance(to, passed) = last - 1
<1> DEFINE up == hierarchy[passed]
           Stop == StopsAt(to, up)
           last == Min(Stop)
           s == SharedInterfaces(Interfaces[to], Interfaces[up[last]])
<1>1. up \in Seq(Class) /\ Len(up) > 0
  BY HierarchyType
<1> HIDE DEF up
<1>2. Len(up) \in Nat /\ Len(up) \in Stop /\ Stop \in SUBSET (1 .. Len(up))
  BY <1>1 DEF StopsAt
<1>3. last \in Stop /\ \A k \in Stop : last <= k
  <2>1. Stop \in SUBSET Nat /\ Stop # {}
    BY <1>2
  <2> HIDE DEF Stop
  <2>2. QED
    BY <2>1, LeastIndex
<1>4. param_distance(to, passed) = last - 1 + 0 - s
  BY Zenon DEF param_distance, StopsAt, up
<1>5. last \in Nat
  BY <1>2, <1>3
<1> HIDE DEF last, Stop
<1>2x. up[last] \in Class
  BY <1>1, <1>2, <1>3
<1>7. Interfaces[to] \in Seq(Interface) /\ Interfaces[up[last]] \in Seq(Interface)
  BY <1>2x, RequestAssumption
<1>8. Len(Interfaces[to]) \in Nat /\ Len(Interfaces[up[last]]) \in Nat
  BY <1>7
<1>9. s \in Nat /\ (Interfaces[to] = << >> => s = 0)
  BY <1>8, SharedType, NothingShared
<1> HIDE DEF s
<1>10. /\ param_distance(to, passed) <= last - 1
       /\ Interfaces[to] = << >> => param_distance(to, passed) = last - 1
  BY <1>4, <1>5, <1>9
<1>11. QED
  BY <1>3, <1>10 DEF Stop, up

\* The nearer of two ancestors, if the further has no interfaces.
LEMMA NearerIsLighter ==
  ASSUME ClassesByParent, NEW c \in Class \ Interface,
         NEW near \in Class \ Interface, near # c, near \in ToSet(hierarchy[c]),
         NEW far \in Class \ Interface, far # c, far # near, far \in ToSet(hierarchy[near]),
         Interfaces[far] = << >>
  PROVE  param_distance(near, c) < param_distance(far, c)
<1> DEFINE up == hierarchy[c]
<1>1. up \in Seq(Class)
  BY HierarchyType
<1>2. PICK k \in 1 .. Len(up) :
         /\ up[k] = near /\ k < Len(up)
         /\ \A i \in 1 .. k : up[i] \in Class /\ up[i] # far /\ far \in ToSet(hierarchy[up[i]])
  BY FarIsFurther
<1>3. PICK n \in StopsAt(near, up) : (\A i \in StopsAt(near, up) : n <= i) /\ param_distance(near, c) <= n - 1
  BY DistanceIs
<1>4. PICK f \in StopsAt(far, up) : param_distance(far, c) = f - 1
  BY DistanceIs
<1>5. Len(up) \in Nat
  <2> HIDE DEF up
  <2>1. QED
    BY <1>1
<1> HIDE DEF up
<1>2x. n <= k
  BY <1>2, <1>3 DEF StopsAt
<1>7. f > k
  <2>1. ASSUME NEW i \in 1 .. k PROVE i \notin StopsAt(far, up)
    <3>1. is_assignable_from(far, up[i])
      BY <1>2 DEF ClassesByParent
    <3>2. i # Len(up) /\ up[i] # far
      BY <1>2, <1>5
    <3>3. QED
      BY <3>1, <3>2, Zenon DEF StopsAt
  <2>2. f \in 1 .. Len(up)
    BY <1>4 DEF StopsAt
  <2>3. QED
    BY <1>2, <1>4, <1>5, <2>1, <2>2
<1>8. n \in Nat /\ f \in Nat /\ param_distance(near, c) \in Int
  BY <1>3, <1>4, <1>5, DistanceType DEF StopsAt
<1>9. QED
  BY <1>2, <1>3, <1>4, <1>2x, <1>7, <1>8

\* Of some weights there is a least.
LEMMA LightestExists ==
  ASSUME NEW n \in Nat, NEW A \in SUBSET (1 .. n), A # {}, NEW w \in [A -> Int]
  PROVE  \E i \in A : \A j \in A : w[i] <= w[j]
<1> DEFINE Good == {k \in 0 .. n : (\A j \in A : j > k) \/ \E i \in A : i <= k /\ \A j \in A : j <= k => w[i] <= w[j]}
<1>0. \A j \in A : j \in Nat /\ j > 0 /\ j <= n /\ w[j] \in Int
  OBVIOUS
<1>1. 0 \in Good
  BY <1>0
<1>2. ASSUME NEW k \in 0 .. (n - 1), k \in Good PROVE k + 1 \in Good
  <2>0. k \in Nat /\ k + 1 \in 0 .. n
    OBVIOUS
  <2>1. CASE k + 1 \notin A
    <3>1. \A j \in A : (j > k => j > k + 1) /\ (j <= k + 1 => j <= k)
      BY <1>0, <2>0, <2>1
    <3>2. QED
      BY <1>0, <1>2, <2>0, <3>1
  <2>2. CASE k + 1 \in A /\ \A j \in A : j > k
    <3>1. \A j \in A : j <= k + 1 => j = k + 1
      BY <1>0, <2>0, <2>2
    <3>2. \A j \in A : j <= k + 1 => w[k + 1] <= w[j]
      BY <1>0, <2>2, <3>1
    <3>3. QED
      BY <2>0, <2>2, <3>2
  <2>3. ASSUME k + 1 \in A, NEW i \in A, i <= k, \A j \in A : j <= k => w[i] <= w[j]
        PROVE  k + 1 \in Good
    <3>1. \A j \in A : j <= k + 1 => j <= k \/ j = k + 1
      BY <1>0, <2>0
    <3>2. w[i] \in Int /\ w[k + 1] \in Int /\ i <= k + 1 /\ i \in Nat
      BY <1>0, <2>0, <2>3
    <3>3. CASE w[k + 1] < w[i]
      <4>1. \A j \in A : j <= k + 1 => w[k + 1] <= w[j]
        BY <1>0, <2>3, <3>1, <3>2, <3>3
      <4>2. QED
        BY <2>0, <2>3, <4>1
    <3>4. CASE ~(w[k + 1] < w[i])
      <4>1. \A j \in A : j <= k + 1 => w[i] <= w[j]
        BY <1>0, <2>3, <3>1, <3>2, <3>4
      <4>2. QED
        BY <2>0, <3>2, <4>1
    <3>5. QED
      BY <3>3, <3>4
  <2>4. QED
    BY <1>2, <2>1, <2>2, <2>3
<1>3. n \in Good
  <2> HIDE DEF Good
  <2>1. \A k \in 0 .. n : k \in Good
    BY <1>1, <1>2, Upwards
  <2>2. QED
    BY <2>1
<1>4. \A j \in A : ~(j > n)
  BY <1>0
<1>5. QED
  BY <1>0, <1>3, <1>4

\* The weight of a method with one parameter is that parameter's distance.
LEMMA OneWeight ==
  ASSUME methods \in MethodTables, NEW r \in Request, Len(r.args) = 1, NEW cs, ClassesOf(r, cs),
         NEW m \in Declared, Passes(r, cs, m)
  PROVE  method_weight(r, cs, m) = param_distance(ParamClass(r, cs, m, 1), cs[1])
<1> DEFINE ds == [i \in 1 .. Len(r.args) |-> param_distance(ParamClass(r, cs, m, i), cs[i])]
           d == param_distance(ParamClass(r, cs, m, 1), cs[1])
<1>1. d \in Int
  BY ParamType, DistanceType
<1>2. DOMAIN ds = 1 .. 1 /\ ds \in [1 .. 1 -> Int] /\ ds[1] = d
  <2>1. ds = [i \in 1 .. 1 |-> param_distance(ParamClass(r, cs, m, i), cs[i])]
    OBVIOUS
  <2>2. ds[1] = d /\ DOMAIN ds = 1 .. 1 /\ ds = [i \in 1 .. 1 |-> ds[i]]
    BY <2>1
  <2>3. \A i \in 1 .. 1 : i = 1
    OBVIOUS
  <2> HIDE DEF ds, d
  <2>4. QED
    BY <1>1, <2>2, <2>3
<1>3. method_weight(r, cs, m) = FoldLeft(+, 0, ds)
  BY Zenon DEF method_weight
<1> HIDE DEF ds, d
<1>4. FoldLeft(+, 0, ds) = SumOver(ds)[1 .. 1]
  BY <1>2, SumIsOver
<1>5. SumOver(ds)[1 .. 1] = 0 + ds[1]
  <2>0. SumOver(ds)[1 .. 0] = 0
    BY <1>2, 1 \in Nat, SumUpTo
  <2>1. PICK z \in 0 .. (1 - 1) : z = 0
    OBVIOUS
  <2>2. SumOver(ds)[1 .. (z + 1)] = SumOver(ds)[1 .. z] + ds[z + 1]
    BY <1>2, 1 \in Nat, SumUpTo
  <2>3. z + 1 = 1
    BY <2>1
  <2>4. QED
    BY <2>0, <2>1, <2>2, <2>3, Zenon
<1>2x. method_weight(r, cs, m) = SumOver(ds)[1 .. 1]
  BY <1>3, <1>4, Zenon
<1>7. SumOver(ds)[1 .. 1] = d
  BY <1>1, <1>2, <1>5
<1>8. QED
  BY <1>2x, <1>7 DEF d

\* No class derives from one that derives from it.
LEMMA NoneAbove ==
  ASSUME NEW c \in Class, NEW d \in Class, c \in ToSet(hierarchy[d]), d \in ToSet(hierarchy[c])
  PROVE  c = d
<1>1. SUFFICES ASSUME c # d PROVE FALSE
  OBVIOUS
<1>2. d \in ToSet(hierarchy[d])
  <2> DEFINE h == hierarchy[d]
  <2>1. h \in Seq(Class) /\ Len(h) > 0 /\ h[1] = d
    BY HierarchyType
  <2> HIDE DEF h
  <2>2. d \in ToSet(h)
    BY <2>1 DEF ToSet
  <2>3. QED
    BY <2>2 DEF h
<1>3. PICK k \in 1 .. Len(hierarchy[d]) :
        /\ hierarchy[d][k] = c
        /\ \A i \in 1 .. k : hierarchy[d][i] # d
  BY <1>1, FarIsFurther
<1>4. hierarchy[d][1] = d /\ Len(hierarchy[d]) \in Nat
  <2> DEFINE h == hierarchy[d]
  <2>1. h \in Seq(Class) /\ h[1] = d
    BY HierarchyType
  <2> HIDE DEF h
  <2>2. Len(h) \in Nat
    BY <2>1
  <2>3. QED
    BY <2>1, <2>2 DEF h
<1>5. 1 \in 1 .. k
  BY <1>3, <1>4
<1>2x. QED
  BY <1>3, <1>4, <1>5

\* What it takes for the best method to have the further parameter.
LEMMA BestIsNearest ==
  ASSUME ClassesByParent, methods \in MethodTables, NEW r \in Request, Len(r.args) = 1,
         NEW cs, ClassesOf(r, cs), BestMethod(r, cs) # NoMethod,
         NEW far, far = ParamClass(r, cs, BestMethod(r, cs), 1),
         far \notin Interface, Interfaces[far] = << >>,
         NEW x \in Applicable(r, cs),
         NEW near, near = ParamClass(r, cs, hierarchy_methods(r.on)[x], 1), near \notin Interface
  PROVE  near = far \/ far \notin ToSet(hierarchy[near])
<1> DEFINE ms == hierarchy_methods(r.on)
           A == Applicable(r, cs)
           E == {i \in A : Exact(r, cs, ms[i])}
           W == {i \in A : \A j \in A : method_weight(r, cs, ms[i]) <= method_weight(r, cs, ms[j])}
           y == Min(IF E # {} THEN E ELSE W)
<1>1. /\ A \subseteq DOMAIN ms /\ A \in SUBSET Nat /\ \E n \in Nat : A \in SUBSET (1 .. n)
      /\ \A i \in A : ms[i] \in Declared /\ Passes(r, cs, ms[i])
  <2>1. ms \in Seq(Declared)
    BY HierarchyMethodsType, RequestType
  <2>2. A = {i \in 1 .. Len(ms) : Passes(r, cs, ms[i])}
    BY Zenon DEF Applicable, Passes
  <2> HIDE DEF ms, A
  <2>3. QED
    BY <2>1, <2>2
<1>2. x \in A /\ BestMethod(r, cs) = ms[y]
  <2>1. BestMethod(r, cs) = IF A = {} THEN NoMethod ELSE ms[y]
    BY Zenon DEF BestMethod
  <2> HIDE DEF ms, A, y
  <2>2. QED
    BY <2>1 DEF A
<1> DEFINE c == cs[1]
<1>3. ASSUME NEW i \in A
      PROVE  /\ ParamClass(r, cs, ms[i], 1) \in Class /\ c \in Class
             /\ is_assignable_from(ParamClass(r, cs, ms[i], 1), c)
             /\ Exact(r, cs, ms[i]) <=> ParamClass(r, cs, ms[i], 1) = c
             /\ method_weight(r, cs, ms[i]) = param_distance(ParamClass(r, cs, ms[i], 1), c)
             /\ method_weight(r, cs, ms[i]) \in Int
  <2>1. ms[i] \in Declared /\ Passes(r, cs, ms[i])
    BY <1>1
  <2> DEFINE m == ms[i]
  <2>2. m \in Declared /\ Passes(r, cs, m)
    BY <2>1
  <2> HIDE DEF m, ms, A
  <2>3. 1 \in 1 .. Len(r.args) /\ \A j \in 1 .. Len(r.args) : j = 1
    OBVIOUS
  <2>4. ParamClass(r, cs, m, 1) \in Class /\ c \in Class
    BY <2>2, <2>3, ParamType
  <2>5. is_assignable_from(ParamClass(r, cs, m, 1), c)
    BY <2>2, <2>3, Zenon DEF Passes, Fits, matches_argument, ParamClass
  <2>6. Exact(r, cs, m) <=> ParamClass(r, cs, m, 1) = c
    BY <2>3, Zenon DEF Exact
  <2>7. method_weight(r, cs, m) = param_distance(ParamClass(r, cs, m, 1), c) /\ method_weight(r, cs, m) \in Int
    BY <2>2, OneWeight, WeightType
  <2>8. QED
    BY <2>4, <2>5, <2>6, <2>7 DEF m
<1>4. y \in A /\ IF E # {} THEN Exact(r, cs, ms[y]) ELSE \A j \in A : method_weight(r, cs, ms[y]) <= method_weight(r, cs, ms[j])
  <2> HIDE DEF ms
  <2>1. CASE E # {}
    <3>1. E \in SUBSET Nat
      BY <1>1
    <3>2. y = Min(E)
      BY <2>1
    <3> HIDE DEF y, E
    <3>3. y \in E
      BY <2>1, <3>1, <3>2, LeastIndex
    <3>4. QED
      BY <2>1, <3>3 DEF E
  <2>2. CASE E = {}
    <3>1. W \in SUBSET Nat
      BY <1>1
    <3>2. y = Min(W)
      BY <2>2
    <3>3. W # {}
      <4> DEFINE w == [i \in A |-> method_weight(r, cs, ms[i])]
      <4>1. w \in [A -> Int] /\ A # {}
        BY <1>2, <1>3
      <4>2. \A i \in A : w[i] = method_weight(r, cs, ms[i])
        OBVIOUS
      <4>3. PICK n \in Nat : A \in SUBSET (1 .. n)
        BY <1>1
      <4> HIDE DEF w, A
      <4>4. PICK i \in A : \A j \in A : w[i] <= w[j]
        BY <4>1, <4>3, LightestExists
      <4>5. i \in W
        BY <4>2, <4>4
      <4>6. QED
        BY <4>5
    <3> HIDE DEF y, W
    <3>4. y \in W
      BY <3>1, <3>2, <3>3, LeastIndex
    <3>5. QED
      BY <2>2, <3>4 DEF W
  <2>3. QED
    BY <2>1, <2>2
<1> HIDE DEF y, A
<1> HIDE DEF ms, E, W
<1>5. /\ near \in Class /\ far \in Class /\ c \in Class
      /\ is_assignable_from(near, c) /\ is_assignable_from(far, c)
      /\ far = ParamClass(r, cs, ms[y], 1) /\ near = ParamClass(r, cs, ms[x], 1)
  BY <1>2, <1>3, <1>4 DEF ms
<1>2x. SUFFICES ASSUME near # far, far \in ToSet(hierarchy[near]) PROVE FALSE
  OBVIOUS
<1>7. Parent[near] # NoClass
  <2>1. ASSUME Parent[near] = NoClass PROVE FALSE
    <3>1. hierarchy[near] = <<near>> \o << >>
      BY <1>5, <2>1, HierarchyIs
    <3>2. ToSet(hierarchy[near]) = {near}
      BY <3>1 DEF ToSet
    <3>3. QED
      BY <1>2x, <3>2
  <2>2. QED
    BY <2>1
<1>8. /\ near = c \/ (c \notin Interface /\ near \in ToSet(hierarchy[c]))
      /\ c \notin Interface
  BY <1>5, <1>7 DEF ClassesByParent
<1>9. far # c
  <2>1. ASSUME far = c PROVE FALSE
    <3>1. near \in ToSet(hierarchy[far]) /\ far \in ToSet(hierarchy[near])
      BY <1>2x, <1>8, <2>1
    <3>2. QED
      BY <1>5, <1>2x, <3>1, NoneAbove
  <2>2. QED
    BY <2>1
<1>10. near # c
  BY <1>2, <1>3, <1>4, <1>5, <1>9 DEF E
<1>11. param_distance(near, c) < param_distance(far, c)
  BY <1>5, <1>2x, <1>8, <1>9, <1>10, NearerIsLighter
<1>12. E = {}
  BY <1>3, <1>4, <1>5, <1>9
<1>13. method_weight(r, cs, ms[y]) <= method_weight(r, cs, ms[x])
  BY <1>2, <1>4, <1>12
<1>14. /\ method_weight(r, cs, ms[y]) = param_distance(far, c) /\ method_weight(r, cs, ms[x]) = param_distance(near, c)
       /\ param_distance(far, c) \in Int /\ param_distance(near, c) \in Int
  BY <1>2, <1>3, <1>4, <1>5
<1>15. QED
  BY <1>11, <1>13, <1>14

-----------------------------------------------------------------------------
(***************************************************************************)
(* The theorems.                                                           *)
(***************************************************************************)
LEMMA InvGivesMethodType == MethodInv => TypeOK
<1> SUFFICES ASSUME MethodInv PROVE TypeOK
  OBVIOUS
<1>1. ClassTypeOK
  BY InvGivesType DEF MethodInv
<1>2. ASSUME NEW t \in Thread, NEW k \in DOMAIN METHOD_CACHE[t]
      PROVE  \E c \in Class : \E i \in DOMAIN methods[c] : METHOD_CACHE[t][k] = <<c, i>>
  <2>1. PICK m \in Class \X Nat : m = METHOD_CACHE[t][k] /\ m[2] \in DOMAIN methods[m[1]]
    BY <1>2 DEF MethodInv, Declared
  <2>2. m = <<m[1], m[2]>> /\ m[1] \in Class
    OBVIOUS
  <2>3. QED
    BY <2>1, <2>2
<1>3. QED
  BY <1>1, <1>2 DEF MethodInv, TypeOK

(***************************************************************************)
(* A class that a thread has cached was found, and a method that it has    *)
(* cached is a declared one: no failure is ever remembered.                *)
(***************************************************************************)
THEOREM TypeCorrect == Spec => []TypeOK
<1>1. Init => MethodInv
  BY MethodInit
<1>2. MethodInv /\ [Next]_vars => MethodInv'
  BY MethodNext
<1>3. MethodInv => TypeOK
  BY InvGivesMethodType
<1>4. QED
  BY <1>1, <1>2, <1>3, PTL DEF Spec

(***************************************************************************)
(* However many assemblies are loaded afterwards, what a thread has cached *)
(* for a name is what a search of all of them finds: the first assembly    *)
(* that has the name stays the first.                                      *)
(***************************************************************************)
THEOREM CacheStaysRight == Spec => []CachedClassIsFirst
<1>1. Init => MethodInv
  BY MethodInit
<1>2. MethodInv /\ [Next]_vars => MethodInv'
  BY MethodNext
<1>3. MethodInv => CachedClassIsFirst
  BY InvGivesFirst DEF MethodInv
<1>4. QED
  BY <1>1, <1>2, <1>3, PTL DEF Spec

(***************************************************************************)
(* Where each generic impl is used with one argument, Type::class is the   *)
(* class of that very type, whichever thread filled the OnceLock, for a    *)
(* lookup of a class or of a method, and whatever was loaded since.        *)
(***************************************************************************)
THEOREM ClassOfTypeIsOwn ==
  ASSUME OneArgument
  PROVE  Spec => []TypeClassIsOwn
<1>1. Init => MethodInv
  BY MethodInit
<1>2. MethodInv /\ [Next]_vars => MethodInv'
  BY MethodNext
<1>3. MethodInv => TypeClassIsOwn
  BY InvGivesOwn DEF MethodInv
<1>4. QED
  BY <1>1, <1>2, <1>3, PTL DEF Spec

\* Cached or not, the answer is the best of the methods there are.
LEMMA AnswerIsBest ==
  ASSUME MethodInv, CacheInv, NEW Far, Near(Far), NEW t \in Thread, NEW r \in Request,
         NoClass \notin ToSet(Evaluate(View(t), r).classes)
  PROVE  Answer(t, r) = BestMethod(r, Evaluate(View(t), r).classes)
<1>1. PICK a, b, c, cs :
         /\ Evaluate(View(t), r) = [view |-> V(a, b, c), classes |-> cs]
         /\ Fresh(a) /\ Owned(b) /\ Grows(CLASS, b)
         /\ NoClass \notin ToSet(cs) => cs = Known(b, Types(r)) /\ ClassesOf(r, cs)
  BY EvaluateIs DEF MethodInv
<1> DEFINE e == Evaluate(View(t), r)
<1>2. e.classes = cs /\ NoClass \notin ToSet(cs)
  BY <1>1
<1>3. cs = Known(b, Types(r)) /\ ClassesOf(r, cs)
  BY <1>1, <1>2
<1>4. Answer(t, r) = IF KeyOf(r) \in DOMAIN METHOD_CACHE[t] THEN METHOD_CACHE[t][KeyOf(r)]
                     ELSE IF NoClass \in ToSet(e.classes) THEN NoMethod
                     ELSE resolve_caller_method(r, e.classes)
  BY Zenon DEF Answer
<1> HIDE DEF e
<1>5. CASE KeyOf(r) \in DOMAIN METHOD_CACHE[t]
  <2>1. Remembered(r, METHOD_CACHE[t][KeyOf(r)])
    BY <1>5 DEF CacheInv
  <2>2. PICK d : d = CLASS
    OBVIOUS
  <2>3. NoClass \notin ToSet(Known(d, Types(r))) /\ METHOD_CACHE[t][KeyOf(r)] = BestMethod(r, Known(d, Types(r)))
    BY <2>1, <2>2, Zenon DEF Remembered
  <2>4. Grows(d, b)
    BY <1>1, <2>2
  <2>5. Known(b, Types(r)) = Known(d, Types(r))
    BY <2>3, <2>4, KnownGrows
  <2>6. BestMethod(r, Known(d, Types(r))) = BestMethod(r, cs)
    BY <1>3, <2>5
  <2>7. QED
    BY <1>2, <1>4, <1>5, <2>3, <2>6 DEF e
<1>2x. CASE KeyOf(r) \notin DOMAIN METHOD_CACHE[t]
  <2>1. Answer(t, r) = resolve_caller_method(r, cs)
    BY <1>2, <1>4, <1>2x
  <2>2. resolve_caller_method(r, cs) = BestMethod(r, cs)
    BY <1>3, ResolveIsBest DEF MethodInv
  <2>3. QED
    BY <1>2, <2>1, <2>2 DEF e
<1>7. QED
  BY <1>5, <1>2x

LEMMA CacheGivesBest ==
  ASSUME NEW Far, Near(Far)
  PROVE  MethodInv /\ CacheInv => BestIsAnswered
<1> SUFFICES ASSUME MethodInv, CacheInv, NEW t \in Thread, NEW r \in Request,
                    NoClass \notin ToSet(Evaluate(View(t), r).classes)
             PROVE  Answer(t, r) = BestMethod(r, Evaluate(View(t), r).classes)
  BY Zenon DEF BestIsAnswered, BestMethod
<1>1. QED
  BY AnswerIsBest

(***************************************************************************)
(* A request is answered with what ranking every method of the class now   *)
(* would answer: the first exact match or else the first of the lightest.  *)
(* Nothing that is loaded, looked up or cached in between changes it, if   *)
(* no two requests share a key and no hierarchy is so deep that a weight   *)
(* reaches i32::MAX.                                                       *)
(***************************************************************************)
THEOREM BestMethodAnswered ==
  ASSUME OwnKeys, NEW Far, Near(Far)
  PROVE  Spec => []BestIsAnswered
<1>1. Init => MethodInv /\ CacheInv
  BY MethodInit, CacheInit
<1>2. MethodInv /\ CacheInv /\ [Next]_vars => (MethodInv /\ CacheInv)'
  BY MethodNext, CacheNext
<1>3. MethodInv /\ CacheInv => BestIsAnswered
  BY CacheGivesBest
<1>4. QED
  BY <1>1, <1>2, <1>3, PTL DEF Spec

LEMMA CacheGivesNearest ==
  ASSUME ClassesByParent, NEW Far, Near(Far)
  PROVE  MethodInv /\ CacheInv => NearerClassWins
<1> SUFFICES ASSUME MethodInv, CacheInv, NEW t \in Thread, NEW r \in Request, Len(r.args) = 1,
                    NEW cs, cs = Evaluate(View(t), r).classes,
                    NEW far, far = ParamClass(r, cs, Answer(t, r), 1),
                    NoClass \notin ToSet(cs), Answer(t, r) # NoMethod, far \notin Interface,
                    Interfaces[far] = << >>,
                    NEW x \in Applicable(r, cs),
                    NEW near, near = ParamClass(r, cs, hierarchy_methods(r.on)[x], 1), near \notin Interface
             PROVE  near = far \/ far \notin ToSet(hierarchy[near])
  BY Zenon DEF NearerClassWins
<1>1. ClassesOf(r, cs)
  <2>1. PICK a, b, c, ds :
         /\ Evaluate(View(t), r) = [view |-> V(a, b, c), classes |-> ds]
         /\ NoClass \notin ToSet(ds) => ClassesOf(r, ds)
    BY EvaluateIs DEF MethodInv
  <2>2. cs = ds
    BY <2>1
  <2>3. QED
    BY <2>1, <2>2
<1>2. Answer(t, r) = BestMethod(r, cs)
  BY AnswerIsBest
<1>3. BestMethod(r, cs) # NoMethod /\ far = ParamClass(r, cs, BestMethod(r, cs), 1)
  BY <1>2
<1>4. methods \in MethodTables
  BY DEF MethodInv
<1>5. QED
  BY <1>1, <1>3, <1>4, BestIsNearest

(***************************************************************************)
(* The method answered for one argument never takes a class from which the *)
(* class that another applicable one takes derives: of two parameters on   *)
(* the way up from the argument the walk comes to the nearer one first.    *)
(* It is so for a further class without interfaces, and where a class is   *)
(* assignable only from what derives from it, which the variance of arrays *)
(* and of generic delegates breaks.                                        *)
(***************************************************************************)
THEOREM NearestClassAnswered ==
  ASSUME OwnKeys, ClassesByParent, NEW Far, Near(Far)
  PROVE  Spec => []NearerClassWins
<1>1. Init => MethodInv /\ CacheInv
  BY MethodInit, CacheInit
<1>2. MethodInv /\ CacheInv /\ [Next]_vars => (MethodInv /\ CacheInv)'
  BY MethodNext, CacheNext
<1>3. MethodInv /\ CacheInv => NearerClassWins
  BY CacheGivesNearest
<1>4. QED
  BY <1>1, <1>2, <1>3, PTL DEF Spec

-----------------------------------------------------------------------------
(***************************************************************************)
(* find_method_callee: the questions put to a method of a hook's class, by *)
(* what the runtime has now.                                               *)
(***************************************************************************)
Compares(q) ==
  IF q.returned THEN is_assignable_from(q.class, Own(q.type)) ELSE is_assignable_from(Own(q.type), q.class)

Ok(q) == q.plain /\ (q.type # Unit => Own(q.type) # NoClass /\ Compares(q))

Panics(q) == q.plain /\ q.type # Unit /\ Own(q.type) = NoClass

\* The first k questions are answered yes; or one of them panics.
AllOk(qs, k) == \A i \in 1 .. k : Ok(qs[i])

Panicked(qs, k) == \E i \in 1 .. k : Panics(qs[i]) /\ AllOk(qs, i - 1)

Question(q) == q.plain \in BOOLEAN /\ q.type \in RustType \cup {Unit} /\ q.returned \in BOOLEAN

LEMMA OneMoreOk ==
  ASSUME NEW qs, NEW k \in Nat
  PROVE  /\ AllOk(qs, k + 1) <=> AllOk(qs, k) /\ Ok(qs[k + 1])
         /\ Panicked(qs, k + 1) <=> Panicked(qs, k) \/ (Panics(qs[k + 1]) /\ AllOk(qs, k))
<1>0. k + 1 \in 1 .. (k + 1) /\ (k + 1) - 1 = k
  OBVIOUS
<1>1. \A i : i \in 1 .. (k + 1) <=> i \in 1 .. k \/ i = k + 1
  OBVIOUS
<1>2. AllOk(qs, k + 1) <=> AllOk(qs, k) /\ Ok(qs[k + 1])
  BY <1>1, Zenon DEF AllOk
<1>3. Panicked(qs, k + 1) <=> Panicked(qs, k) \/ (Panics(qs[k + 1]) /\ AllOk(qs, k))
  BY <1>0, <1>1, Zenon DEF Panicked
<1>4. QED
  BY <1>2, <1>3

LEMMA PanicIsNotOk ==
  ASSUME NEW qs, NEW k \in Nat, Panicked(qs, k)
  PROVE  ~AllOk(qs, k)
BY DEF Panicked, AllOk, Panics, Ok

\* What the first k questions leave.
Asked(qs, k, e) ==
  \E a, b, c :
    /\ e = [view |-> V(a, b, c), yes |-> e.yes, panicked |-> e.panicked]
    /\ Fresh(a) /\ Owned(b) /\ e.yes \in BOOLEAN /\ e.panicked \in BOOLEAN
    /\ OneArgument => /\ e.panicked <=> Panicked(qs, k)
                      /\ e.yes /\ ~e.panicked <=> AllOk(qs, k)

LEMMA AskOne ==
  ASSUME Loaded, NEW qs, NEW k \in Nat, NEW e, Asked(qs, k, e), Question(qs[k + 1])
  PROVE  Asked(qs, k + 1, Ask(e, qs[k + 1]))
<1> DEFINE q == qs[k + 1]  f == Ask(e, q)
<1>1. PICK a, b, c :
    /\ e = [view |-> V(a, b, c), yes |-> e.yes, panicked |-> e.panicked]
    /\ Fresh(a) /\ Owned(b) /\ e.yes \in BOOLEAN /\ e.panicked \in BOOLEAN
    /\ OneArgument => /\ e.panicked <=> Panicked(qs, k)
                      /\ e.yes /\ ~e.panicked <=> AllOk(qs, k)
  BY Zenon DEF Asked
<1>2. Question(q)
  OBVIOUS
<1>3. /\ AllOk(qs, k + 1) <=> AllOk(qs, k) /\ Ok(q)
      /\ Panicked(qs, k + 1) <=> Panicked(qs, k) \/ (Panics(q) /\ AllOk(qs, k))
      /\ Panicked(qs, k) => ~AllOk(qs, k)
  BY OneMoreOk, PanicIsNotOk
<1> HIDE DEF q
<1>4. CASE e.panicked \/ ~e.yes
  <2>1. f = e
    BY <1>4, Zenon DEF Ask
  <2>2. OneArgument => /\ e.panicked <=> Panicked(qs, k + 1)
                       /\ e.yes /\ ~e.panicked <=> AllOk(qs, k + 1)
    BY <1>1, <1>3, <1>4, Zenon
  <2>3. Asked(qs, k + 1, e)
    BY <1>1, <2>2, Zenon DEF Asked
  <2>4. QED
    BY <2>1, <2>3, Zenon DEF q
<1>5. CASE ~(e.panicked \/ ~e.yes) /\ (~q.plain \/ q.type = Unit)
  <2>1. f = [view |-> V(a, b, c), yes |-> q.plain, panicked |-> e.panicked]
    <3>1. f = [e EXCEPT !.yes = q.plain]
      BY <1>5, Zenon DEF Ask
    <3> HIDE DEF f
    <3>2. QED
      BY <3>1, <1>1
  <2>2. Ok(q) <=> q.plain
    BY <1>5, Zenon DEF Ok
  <2>3. ~Panics(q)
    BY <1>5, Zenon DEF Panics
  <2> HIDE DEF f
  <2>4. f.yes = q.plain /\ f.panicked = e.panicked /\ f.yes \in BOOLEAN
    BY <2>1, <1>2 DEF Question
  <2>5. f = [view |-> V(a, b, c), yes |-> f.yes, panicked |-> f.panicked]
    BY <2>1, <2>4, Zenon
  <2>6. OneArgument => /\ f.panicked <=> Panicked(qs, k + 1)
                       /\ f.yes /\ ~f.panicked <=> AllOk(qs, k + 1)
    BY <1>1, <1>3, <1>5, <2>2, <2>3, <2>4, Zenon
  <2>7. f.panicked \in BOOLEAN
    BY <1>1, <2>4, Zenon
  <2>8. Asked(qs, k + 1, f)
    BY <1>1, <2>4, <2>5, <2>6, <2>7, Zenon DEF Asked
  <2>9. QED
    BY <2>8 DEF f, q
<1>6. CASE ~(e.panicked \/ ~e.yes) /\ ~(~q.plain \/ q.type = Unit)
  <2> DEFINE T == q.type
  <2>1. T \in RustType
    BY <1>2, <1>6 DEF Question
  <2> HIDE DEF T
  <2>2. PICK a3, b3 : /\ class(V(a, b, c), T) = V(a3, b3, Answers(b3, T))
                      /\ Fresh(a3) /\ Owned(b3)
                      /\ OneArgument => Answers(b3, T) = Own(T)
    <3>1. Fresh(a) /\ Owned(b)
      BY <1>1
    <3>2. QED
      BY <2>1, <3>1, ClassIs
  <2> DEFINE w == V(a3, b3, Answers(b3, T))
  <2>3. f = Compared(w, q)
    <3>1. e.view = V(a, b, c)
      BY <1>1
    <3>2. QED
      BY <1>6, <2>2, <3>1, Zenon DEF Ask, T
  <2>4. w.class = Answers(b3, T)
    BY DEF V
  <2> HIDE DEF f
  <2>5. /\ f = [view |-> w, yes |-> f.yes, panicked |-> f.panicked]
        /\ f.yes = IF q.returned THEN is_assignable_from(q.class, w.class) ELSE is_assignable_from(w.class, q.class)
        /\ f.panicked = (w.class = NoClass)
    <3> HIDE DEF w
    <3>1. QED
      BY <2>3 DEF Compared
  <2>6. f.yes \in BOOLEAN /\ f.panicked \in BOOLEAN
    <3> HIDE DEF w
    <3>1. QED
      BY <2>5 DEF is_assignable_from
  <2>7. OneArgument => /\ f.panicked <=> Panics(q)
                       /\ f.yes /\ ~f.panicked <=> Ok(q)
    <3>1. ASSUME OneArgument PROVE w.class = Own(q.type)
      BY <2>2, <2>4, <3>1 DEF T
    <3> HIDE DEF w
    <3>2. ASSUME OneArgument PROVE f.panicked <=> Panics(q)
      BY <1>6, <2>5, <3>1, <3>2, Zenon DEF Panics
    <3>3. ASSUME OneArgument PROVE f.yes /\ ~f.panicked <=> Ok(q)
      BY <1>6, <2>5, <3>1, <3>3, Zenon DEF Ok, Compares
    <3>4. QED
      BY <3>2, <3>3, Zenon
  <2>8. OneArgument => /\ f.panicked <=> Panicked(qs, k + 1)
                       /\ f.yes /\ ~f.panicked <=> AllOk(qs, k + 1)
    BY <1>1, <1>3, <1>6, <2>7, Zenon
  <2>9. Asked(qs, k + 1, f)
    BY <2>2, <2>5, <2>6, <2>8, Zenon DEF Asked
  <2>10. QED
    BY <2>9 DEF f, q
<1>7. QED
  BY <1>4, <1>5, <1>6, Zenon

-----------------------------------------------------------------------------
\* The whole of what is asked of one method.
Signature(sig) ==
  /\ sig.inputs \in Seq([ident : STRING, attrs : SUBSET STRING, ty : [form : STRING, type : RustType]])
  /\ sig.ret \in [form : STRING, type : RustType \cup {Unit}]

ParamQuestion(ps, m, i) ==
  IF i <= Len(Info(m).params) THEN matches_parameter(ps[i], Info(m).params[i]) ELSE Plain(FALSE)

LEMMA ParamsOfSignature ==
  ASSUME NEW sig, Signature(sig)
  PROVE  LET skip == IF has_this(sig) THEN 1 ELSE 0 IN
         /\ skip \in {0, 1} /\ skip <= Len(sig.inputs) /\ Len(sig.inputs) \in Nat
         /\ params_ty(sig) \in Seq([form : STRING, type : RustType])
         /\ Len(params_ty(sig)) = Len(sig.inputs) - skip
         /\ \A i \in 1 .. Len(params_ty(sig)) : params_ty(sig)[i] = sig.inputs[i + skip].ty
         /\ has_this(sig) => sig.inputs[1].ty \in [form : STRING, type : RustType]
<1> DEFINE In  == [ident : STRING, attrs : SUBSET STRING, ty : [form : STRING, type : RustType]]
           Ty  == [form : STRING, type : RustType]
           skip == IF has_this(sig) THEN 1 ELSE 0
           n == Len(sig.inputs)
           ps == params_ty(sig)
<1>1. n \in Nat /\ \A i \in 1 .. n : sig.inputs[i] \in In
  <2>1. sig.inputs \in Seq(In)
    BY Zenon DEF Signature
  <2> HIDE DEF In
  <2>2. QED
    BY <2>1
<1>2. skip \in {0, 1} /\ (has_this(sig) => n >= 1) /\ skip <= n
  BY DEF Signature, has_this
<1>3. ps = [i \in 1 .. n - skip |-> sig.inputs[i + skip].ty]
  BY Zenon DEF params_ty
<1>4. \A i \in 1 .. n : sig.inputs[i].ty \in Ty
  BY <1>1
<1> HIDE DEF skip, In, Ty, n
<1>5. \A i \in 1 .. n - skip : i + skip \in 1 .. n
  BY <1>1, <1>2
<1>6. n - skip \in Nat
  BY <1>1, <1>2
<1>7. ps \in Seq(Ty) /\ Len(ps) = n - skip /\ \A i \in 1 .. n - skip : ps[i] = sig.inputs[i + skip].ty
  BY <1>3, <1>4, <1>5, <1>6
<1>8. has_this(sig) => sig.inputs[1].ty \in Ty
  BY <1>1, <1>2, <1>4
<1>9. QED
  BY <1>1, <1>2, <1>7, <1>8 DEF skip, Ty, n

LEMMA Joined ==
  ASSUME NEW x, NEW y, NEW z, NEW f, NEW r, NEW L \in Nat, f = [i \in 1 .. L |-> f[i]]
  PROVE  LET s == <<x, y, z>> \o f \o <<r>> IN
         /\ DOMAIN s = 1 .. (L + 4)
         /\ s[1] = x /\ s[2] = y /\ s[3] = z /\ s[L + 4] = r
         /\ \A i \in 1 .. L : s[i + 3] = f[i]
<1> DEFINE U == {x, y, z, r} \cup {f[i] : i \in 1 .. L}
<1>1. f \in Seq(U) /\ Len(f) = L
  OBVIOUS
<1>2. <<x, y, z>> \in Seq(U) /\ <<r>> \in Seq(U)
  OBVIOUS
<1> HIDE DEF U
<1>3. QED
  BY <1>1, <1>2

LEMMA QuestionsAre ==
  ASSUME NEW sig, Signature(sig), NEW m, NEW name
  PROVE  LET qs == Questions(name, sig, m)  ps == params_ty(sig) IN
         /\ Len(ps) \in Nat /\ DOMAIN qs = 1 .. (Len(ps) + 4)
         /\ qs[1] = Plain(Info(m).name = name) /\ qs[2] = matches_this_parameter(sig, m)
         /\ qs[3] = Plain(Len(Info(m).params) = Len(ps))
         /\ qs[Len(ps) + 4] = matches_return(sig.ret, m)
         /\ \A i \in 1 .. Len(ps) : qs[i + 3] = ParamQuestion(ps, m, i)
<1> DEFINE ps == params_ty(sig)  f == [i \in 1 .. Len(ps) |-> ParamQuestion(ps, m, i)]
           x == Plain(Info(m).name = name)  y == matches_this_parameter(sig, m)
           z == Plain(Len(Info(m).params) = Len(ps))  r == matches_return(sig.ret, m)
<1>1. Len(ps) \in Nat
  <2>1. ps \in Seq([form : STRING, type : RustType])
    BY ParamsOfSignature
  <2> HIDE DEF ps
  <2>2. QED
    BY <2>1
<1>2. Questions(name, sig, m) = <<x, y, z>> \o f \o <<r>>
  BY Zenon DEF Questions, ParamQuestion
<1>3. f = [i \in 1 .. Len(ps) |-> f[i]] /\ \A i \in 1 .. Len(ps) : f[i] = ParamQuestion(ps, m, i)
  BY Zenon
<1> HIDE DEF ps, f, x, y, z, r
<1> DEFINE s == <<x, y, z>> \o f \o <<r>>
<1>4. /\ DOMAIN s = 1 .. (Len(ps) + 4)
      /\ s[1] = x /\ s[2] = y /\ s[3] = z /\ s[Len(ps) + 4] = r
      /\ \A i \in 1 .. Len(ps) : s[i + 3] = f[i]
  BY <1>1, <1>3, Joined
<1> HIDE DEF s
<1>5. Questions(name, sig, m) = s
  BY <1>2 DEF s
<1>6. QED
  BY <1>1, <1>3, <1>4, <1>5, Zenon DEF ps, x, y, z, r

-----------------------------------------------------------------------------
LEMMA QuestionsType ==
  ASSUME methods \in MethodTables, NEW sig, Signature(sig), NEW m \in Declared, NEW name,
         NEW i \in 1 .. (Len(params_ty(sig)) + 4)
  PROVE  Question(Questions(name, sig, m)[i])
<1> DEFINE qs == Questions(name, sig, m)  ps == params_ty(sig)  L == Len(ps)
<1>1. /\ L \in Nat
      /\ qs[1] = Plain(Info(m).name = name) /\ qs[2] = matches_this_parameter(sig, m)
      /\ qs[3] = Plain(Len(Info(m).params) = Len(ps))
      /\ qs[L + 4] = matches_return(sig.ret, m)
      /\ \A j \in 1 .. L : qs[j + 3] = ParamQuestion(ps, m, j)
  BY QuestionsAre
<1>2. i \in 1 .. (L + 4)
  OBVIOUS
<1> HIDE DEF qs, L, ps
<1>3. i = 1 \/ i = 2 \/ i = 3 \/ i = L + 4 \/ i - 3 \in 1 .. L
  BY <1>1, <1>2
<1>4. ASSUME NEW y \in BOOLEAN PROVE Question(Plain(y))
  BY DEF Question, Plain
<1>5. CASE i = 1
  <2>1. (Info(m).name = name) \in BOOLEAN
    BY Zenon
  <2>2. Question(Plain(Info(m).name = name))
    BY <1>4, <2>1, Zenon
  <2>3. QED
    BY <1>1, <1>5, <2>2, Zenon DEF qs
<1>6. CASE i = 2
  <2>1. CASE has_this(sig)
    <3> DEFINE T == sig.inputs[1].ty
    <3>1. T \in [form : STRING, type : RustType]
      BY <2>1, ParamsOfSignature
    <3> HIDE DEF T
    <3>2. Question([Plain(TRUE) EXCEPT !.type = T.type, !.class = m[1]])
      BY <3>1 DEF Question, Plain
    <3>3. matches_this_parameter(sig, m) = [Plain(TRUE) EXCEPT !.type = T.type, !.class = m[1]]
      BY <2>1, Zenon DEF matches_this_parameter, T
    <3>4. QED
      BY <1>1, <1>6, <3>2, <3>3, Zenon DEF qs
  <2>2. CASE ~has_this(sig)
    <3>1. Info(m).static \in BOOLEAN
      BY InfoType DEF Method
    <3>2. Question(Plain(Info(m).static))
      BY <1>4, <3>1, Zenon
    <3>3. matches_this_parameter(sig, m) = Plain(Info(m).static)
      BY <2>2, Zenon DEF matches_this_parameter
    <3>4. QED
      BY <1>1, <1>6, <3>2, <3>3, Zenon DEF qs
  <2>3. QED
    BY <2>1, <2>2
<1>7. CASE i = 3
  <2>1. (Len(Info(m).params) = Len(ps)) \in BOOLEAN
    BY Zenon
  <2>2. Question(Plain(Len(Info(m).params) = Len(ps)))
    BY <1>4, <2>1, Zenon
  <2>3. QED
    BY <1>1, <1>7, <2>2, Zenon DEF qs
<1>8. CASE i = L + 4
  <2> DEFINE r == sig.ret
  <2>0. r.type \in RustType \cup {Unit}
    <3>1. r \in [form : STRING, type : RustType \cup {Unit}]
      BY Zenon DEF Signature
    <3> HIDE DEF r
    <3>2. QED
      BY <3>1
  <2> HIDE DEF r
  <2>1. Question(matches_return(r, m))
    <3>1. CASE r.type = Unit
      <4>1. (Info(m).ret = Void) \in BOOLEAN
        BY Zenon
      <4>2. Question(Plain(Info(m).ret = Void))
        BY <1>4, <4>1, Zenon
      <4>3. QED
        BY <3>1, <4>2, Zenon DEF matches_return
    <3>2. CASE r.type # Unit
      BY <2>0, <3>2 DEF matches_return, Question
    <3>3. QED
      BY <3>1, <3>2
  <2>2. QED
    BY <1>1, <1>8, <2>1, Zenon DEF qs, r
<1>9. CASE i - 3 \in 1 .. L
  <2> DEFINE j == i - 3
  <2>0. j + 3 = i
    BY <1>2
  <2> DEFINE ty == ps[j]  p == Info(m).params[j]
  <2>1. ps[j] \in [form : STRING, type : RustType]
    <3> DEFINE Ty == [form : STRING, type : RustType]
    <3>1. ps \in Seq(Ty)
      BY ParamsOfSignature DEF ps
    <3>2. j \in 1 .. Len(ps)
      BY <1>9 DEF L
    <3> HIDE DEF Ty, j
    <3>3. ps[j] \in Ty
      BY <3>1, <3>2
    <3>4. QED
      BY <3>3, Zenon DEF Ty
  <2> HIDE DEF j
  <2>2. qs[i] = ParamQuestion(ps, m, j)
    BY <1>1, <1>9, <2>0, Zenon DEF j
  <2>3. Question(ParamQuestion(ps, m, j))
    <3>1. CASE j <= Len(Info(m).params)
      <4>1. (ty.type \in ValueType => (ty.form = "byref") = p.byref) \in BOOLEAN /\ ty.type \in RustType
        BY <2>1
      <4>2. ParamQuestion(ps, m, j) = matches_parameter(ty, p)
        BY <3>1, Zenon DEF ParamQuestion
      <4> HIDE DEF ty, p
      <4>3. Question(matches_parameter(ty, p))
        BY <4>1 DEF matches_parameter, Question
      <4>4. QED
        BY <4>2, <4>3, Zenon
    <3>2. CASE ~(j <= Len(Info(m).params))
      <4>1. ParamQuestion(ps, m, j) = Plain(FALSE)
        BY <3>2, Zenon DEF ParamQuestion
      <4>2. QED
        BY <1>4, <4>1, Zenon
    <3>3. QED
      BY <3>1, <3>2
  <2>4. QED
    BY <2>2, <2>3, Zenon DEF qs
<1>10. QED
  BY <1>3, <1>5, <1>6, <1>7, <1>8, <1>9

Yes(name, sig, m) ==
  \E qs : qs = Questions(name, sig, m) /\ AllOk(qs, Len(params_ty(sig)) + 4)

Panicky(name, sig, m) ==
  \E qs : qs = Questions(name, sig, m) /\ Panicked(qs, Len(params_ty(sig)) + 4)

LEMMA AskAll ==
  ASSUME Loaded, methods \in MethodTables, NEW sig, Signature(sig), NEW m \in Declared, NEW name,
         NEW a, NEW b, NEW c, Fresh(a), Owned(b)
  PROVE  Asked(Questions(name, sig, m), Len(params_ty(sig)) + 4,
               FoldLeft(Ask, AskStart(V(a, b, c)), Questions(name, sig, m)))
<1> DEFINE qs == Questions(name, sig, m)  n == Len(params_ty(sig)) + 4
           v == AskStart(V(a, b, c))  x == OverQuestions(qs)
<1>1. n \in Nat /\ DOMAIN qs = 1 .. n
  <2>1. Len(params_ty(sig)) \in Nat /\ DOMAIN qs = 1 .. n
    BY QuestionsAre
  <2>2. QED
    BY <2>1
<1>2. \A i \in 1 .. n : Question(qs[i])
  BY QuestionsType
<1>3. \A f, k : Do(x, f, k) = Ask(f, qs[k])
  BY DEF Do, OverQuestions
<1> HIDE DEF qs, n, x
<1>4. PICK g : Walks(g, x, v, n) /\ FoldLeft(Ask, v, qs) = g[1 .. n]
  BY <1>1, AskingIsWalk DEF x
<1>5. v = [view |-> V(a, b, c), yes |-> v.yes, panicked |-> v.panicked] /\ v.yes = TRUE /\ v.panicked = FALSE
  BY DEF AskStart
<1> HIDE DEF v
<1>6. Walked(g, x, v, n)
  BY <1>1, <1>4, WalkFirst, Zenon
<1>7. g[1 .. 0] = v /\ \A k \in 0 .. (n - 1) : g[1 .. (k + 1)] = Ask(g[1 .. k], qs[k + 1])
  BY <1>3, <1>6, Zenon DEF Walked
<1> DEFINE Good == {k \in 0 .. n : Asked(qs, k, g[1 .. k])}
<1>8. 0 \in Good
  <2>1. AllOk(qs, 0) /\ ~Panicked(qs, 0)
    BY DEF AllOk, Panicked
  <2>2. v.yes \in BOOLEAN /\ v.panicked \in BOOLEAN
    BY <1>5, Zenon
  <2>3. (v.panicked <=> Panicked(qs, 0)) /\ (v.yes /\ ~v.panicked <=> AllOk(qs, 0))
    BY <1>5, <2>1, Zenon
  <2>4. Asked(qs, 0, v)
    BY <1>5, <2>2, <2>3, Zenon DEF Asked
  <2>5. QED
    BY <1>1, <1>7, <2>4
<1>9. ASSUME NEW k \in 0 .. (n - 1), k \in Good PROVE k + 1 \in Good
  <2>1. k + 1 \in 0 .. n /\ k + 1 \in 1 .. n /\ k \in Nat
    BY <1>1
  <2>2. Question(qs[k + 1])
    BY <1>2, <2>1
  <2>3. Asked(qs, k, g[1 .. k])
    BY <1>9
  <2> HIDE DEF Good
  <2>4. Asked(qs, k + 1, Ask(g[1 .. k], qs[k + 1]))
    BY <2>1, <2>2, <2>3, AskOne, Zenon
  <2>5. QED
    BY <1>7, <2>1, <2>4 DEF Good
<1>10. n \in Good
  <2> HIDE DEF Good
  <2>1. \A k \in 0 .. n : k \in Good
    BY <1>1, <1>8, <1>9, Upwards
  <2>2. QED
    BY <1>1, <2>1
<1>11. QED
  BY <1>4, <1>10 DEF qs, n, v

-----------------------------------------------------------------------------
\* The methods found among the first k: each that answers yes, once.
Lists(c, name, sig, k, s) ==
  /\ \A i \in 1 .. Len(s) : Yes(name, sig, s[i])
  /\ \A j \in 1 .. k : Yes(name, sig, <<c, j>>) => \E i \in 1 .. Len(s) : s[i] = <<c, j>>
  /\ \A i, j \in 1 .. Len(s) : s[i] = s[j] => i = j

LEMMA ListsMore ==
  ASSUME NEW c, NEW name, NEW sig, NEW k \in Nat, NEW s \in Seq({<<c, j>> : j \in 1 .. k}),
         Lists(c, name, sig, k, s)
  PROVE  IF Yes(name, sig, <<c, k + 1>>) THEN Lists(c, name, sig, k + 1, Append(s, <<c, k + 1>>))
         ELSE Lists(c, name, sig, k + 1, s)
<1> DEFINE n == Len(s)  m == <<c, k + 1>>  t == Append(s, m)
<1>1. n \in Nat /\ Len(t) = n + 1 /\ t[n + 1] = m /\ \A i \in 1 .. n : t[i] = s[i]
  OBVIOUS
<1>2. \A i \in 1 .. n : s[i] # m
  <2> SUFFICES ASSUME NEW i \in 1 .. n PROVE s[i] # m
    OBVIOUS
  <2>1. PICK j \in 1 .. k : s[i] = <<c, j>>
    OBVIOUS
  <2>2. j # k + 1
    OBVIOUS
  <2>3. QED
    BY <2>1, <2>2
<1>3. /\ \A i \in 1 .. n : Yes(name, sig, s[i])
      /\ \A j \in 1 .. k : Yes(name, sig, <<c, j>>) => \E i \in 1 .. n : s[i] = <<c, j>>
      /\ \A i, j \in 1 .. n : s[i] = s[j] => i = j
  BY Zenon DEF Lists
<1>4. \A j : j \in 1 .. (k + 1) <=> j \in 1 .. k \/ j = k + 1
  OBVIOUS
<1>5. \A j : j \in 1 .. (n + 1) <=> j \in 1 .. n \/ j = n + 1
  BY <1>1
<1>6. CASE Yes(name, sig, m)
  <2> HIDE DEF t, n
  <2>1. \A i \in 1 .. Len(t) : Yes(name, sig, t[i])
    BY <1>1, <1>3, <1>5, <1>6, Zenon
  <2>2. \A j \in 1 .. (k + 1) : Yes(name, sig, <<c, j>>) => \E i \in 1 .. Len(t) : t[i] = <<c, j>>
    <3>1. n + 1 \in 1 .. Len(t)
      BY <1>1, <1>5, Zenon
    <3>2. ASSUME NEW j \in 1 .. k, Yes(name, sig, <<c, j>>) PROVE \E i \in 1 .. Len(t) : t[i] = <<c, j>>
      BY <1>1, <1>3, <1>5, <3>2, Zenon
    <3>3. QED
      BY <1>1, <1>4, <3>1, <3>2, Zenon
  <2>3. \A i, j \in 1 .. Len(t) : t[i] = t[j] => i = j
    <3> HIDE DEF m
    <3>1. QED
      BY <1>1, <1>2, <1>3, <1>5, Zenon
  <2>4. QED
    BY <1>6, <2>1, <2>2, <2>3, Zenon DEF Lists, t
<1>7. CASE ~Yes(name, sig, m)
  BY <1>3, <1>4, <1>7, Zenon DEF Lists
<1>8. QED
  BY <1>6, <1>7

\* The method that find_method_callee answers.
Yeses(c, name, sig) == {j \in 1 .. Len(methods[c]) : Yes(name, sig, <<c, j>>)}

Quiet(c, name, sig) == \A j \in 1 .. Len(methods[c]) : ~Panicky(name, sig, <<c, j>>)

Callee(c, name, sig) ==
  IF Quiet(c, name, sig) /\ \E j : Yeses(c, name, sig) = {j}
  THEN <<c, CHOOSE j : Yeses(c, name, sig) = {j}>> ELSE NoMethod

LEMMA OneListed ==
  ASSUME NEW c, NEW name, NEW sig, Len(methods[c]) \in Nat,
         NEW s \in Seq({<<c, j>> : j \in 1 .. Len(methods[c])}),
         Lists(c, name, sig, Len(methods[c]), s), Quiet(c, name, sig)
  PROVE  Callee(c, name, sig) = IF Len(s) # 1 THEN NoMethod ELSE s[1]
<1> DEFINE n == Len(methods[c])  Y == Yeses(c, name, sig)
<1>1. /\ \A i \in 1 .. Len(s) : Yes(name, sig, s[i])
      /\ \A j \in 1 .. n : Yes(name, sig, <<c, j>>) => \E i \in 1 .. Len(s) : s[i] = <<c, j>>
      /\ \A i, j \in 1 .. Len(s) : s[i] = s[j] => i = j
  BY Zenon DEF Lists
<1>2. \A i \in 1 .. Len(s) : \E j \in 1 .. n : s[i] = <<c, j>>
  OBVIOUS
<1>3. \A j : j \in Y <=> j \in 1 .. n /\ Yes(name, sig, <<c, j>>)
  BY DEF Yeses
<1>4. Len(s) \in Nat
  OBVIOUS
<1>5. CASE Len(s) = 1
  <2>1. PICK j \in 1 .. n : s[1] = <<c, j>>
    BY <1>2, <1>5
  <2>2. j \in Y
    <3>1. 1 \in 1 .. Len(s)
      BY <1>5
    <3>2. QED
      BY <1>1, <1>3, <2>1, <3>1, Zenon
  <2>3. ASSUME NEW i \in Y PROVE i = j
    <3>1. PICK x \in 1 .. Len(s) : s[x] = <<c, i>>
      BY <1>1, <1>3, Zenon
    <3>2. x = 1
      BY <1>5
    <3>3. QED
      BY <2>1, <3>1, <3>2
  <2> HIDE DEF Y
  <2>4. Y = {j}
    BY <2>2, <2>3
  <2>5. (CHOOSE i : Y = {i}) = j
    <3>1. Y = {CHOOSE i : Y = {i}}
      BY <2>4, Zenon
    <3>2. QED
      BY <2>4, <3>1
  <2>6. Callee(c, name, sig) = <<c, j>>
    BY <2>4, <2>5, Zenon DEF Callee, Y
  <2>7. QED
    BY <1>5, <2>1, <2>6
<1>6. CASE Len(s) # 1
  <2>1. ASSUME NEW j, Y = {j} PROVE FALSE
    <3>1. j \in 1 .. n /\ Yes(name, sig, <<c, j>>)
      BY <1>3, <2>1
    <3>2. PICK x \in 1 .. Len(s) : s[x] = <<c, j>>
      BY <1>1, <3>1, Zenon
    <3>3. ASSUME NEW i \in 1 .. Len(s) PROVE s[i] = <<c, j>>
      <4>1. PICK k \in 1 .. n : s[i] = <<c, k>>
        BY <1>2
      <4>2. Yes(name, sig, <<c, k>>)
        BY <1>1, <4>1, Zenon
      <4>3. k \in Y
        BY <1>3, <4>2, Zenon
      <4>4. k = j
        BY <2>1, <4>3
      <4>5. QED
        BY <4>1, <4>4
    <3>4. \A i \in 1 .. Len(s) : i = x
      BY <1>1, <3>2, <3>3, Zenon
    <3>5. Len(s) >= 1 /\ 1 \in 1 .. Len(s) /\ Len(s) \in 1 .. Len(s)
      BY <1>4
    <3>6. Len(s) = 1
      BY <3>4, <3>5, Zenon
    <3>7. QED
      BY <1>6, <3>6
  <2>2. Callee(c, name, sig) = NoMethod
    BY <2>1, Zenon DEF Callee
  <2>3. QED
    BY <1>6, <2>2
<1>7. QED
  BY <1>5, <1>6

-----------------------------------------------------------------------------
Upto(c, k) == {<<c, j>> : j \in 1 .. k}

\* What asking the first k methods of a class leaves.
Matched(c, name, sig, k, e) ==
  \E a, b, d :
    /\ e = [view |-> V(a, b, d), panicked |-> e.panicked, found |-> e.found]
    /\ Fresh(a) /\ Owned(b) /\ e.panicked \in BOOLEAN /\ e.found \in Seq(Upto(c, k))
    /\ OneArgument => /\ e.panicked <=> \E j \in 1 .. k : Panicky(name, sig, <<c, j>>)
                      /\ ~e.panicked => Lists(c, name, sig, k, e.found)

LEMMA MethodOf ==
  ASSUME methods \in MethodTables, NEW c \in Class
  PROVE  /\ Len(methods[c]) \in Nat /\ DOMAIN methods[c] = 1 .. Len(methods[c])
         /\ \A k \in 1 .. Len(methods[c]) : <<c, k>> \in Declared
<1>1. methods[c] \in Seq(Method)
  BY MetadataAssumption
<1> DEFINE s == methods[c]
<1> HIDE DEF s
<1>2. Len(s) \in Nat /\ DOMAIN s = 1 .. Len(s)
  BY <1>1 DEF s
<1>3. \A k \in 1 .. Len(s) : <<c, k>> \in Declared
  <2> SUFFICES ASSUME NEW k \in 1 .. Len(s) PROVE <<c, k>> \in Declared
    OBVIOUS
  <2>1. k \in Nat /\ k \in DOMAIN s
    BY <1>2
  <2>2. QED
    BY <2>1 DEF Declared, s
<1>4. QED
  BY <1>2, <1>3 DEF s

LEMMA MatchOne ==
  ASSUME Loaded, methods \in MethodTables, NEW sig, Signature(sig), NEW c \in Class, NEW name,
         NEW k \in 0 .. (Len(methods[c]) - 1), NEW e, Matched(c, name, sig, k, e)
  PROVE  Matched(c, name, sig, k + 1, MatchStep(c, name, sig, e, k + 1))
<1> DEFINE m == <<c, k + 1>>  f == MatchStep(c, name, sig, e, k + 1)
<1>0. k \in Nat /\ m \in Declared
  <2>1. Len(methods[c]) \in Nat
    BY MethodOf
  <2>2. k \in Nat /\ k + 1 \in 1 .. Len(methods[c])
    BY <2>1
  <2>3. QED
    BY <2>2, MethodOf
<1>1. PICK a, b, d :
    /\ e = [view |-> V(a, b, d), panicked |-> e.panicked, found |-> e.found]
    /\ Fresh(a) /\ Owned(b) /\ e.panicked \in BOOLEAN /\ e.found \in Seq(Upto(c, k))
    /\ OneArgument => /\ e.panicked <=> \E j \in 1 .. k : Panicky(name, sig, <<c, j>>)
                      /\ ~e.panicked => Lists(c, name, sig, k, e.found)
  BY Zenon DEF Matched
<1>2. \A j : j \in 1 .. (k + 1) <=> j \in 1 .. k \/ j = k + 1
  BY <1>0
<1>3. e.found \in Seq(Upto(c, k + 1)) /\ Append(e.found, m) \in Seq(Upto(c, k + 1))
  <2>1. Upto(c, k) \subseteq Upto(c, k + 1) /\ m \in Upto(c, k + 1)
    BY <1>0 DEF Upto
  <2> HIDE DEF m
  <2>2. QED
    BY <1>1, <2>1
<1>4. CASE e.panicked
  <2>1. f = e
    BY <1>4, Zenon DEF MatchStep
  <2>2. OneArgument => /\ e.panicked <=> \E j \in 1 .. (k + 1) : Panicky(name, sig, <<c, j>>)
                       /\ ~e.panicked => Lists(c, name, sig, k + 1, e.found)
    BY <1>1, <1>2, <1>4, Zenon
  <2> HIDE DEF f
  <2>3. Matched(c, name, sig, k + 1, e)
    BY <1>1, <1>3, <2>2, Zenon DEF Matched
  <2>4. QED
    BY <2>1, <2>3, Zenon DEF f
<1>5. CASE ~e.panicked
  <2> DEFINE qs == Questions(name, sig, m)  n == Len(params_ty(sig)) + 4
             r == FoldLeft(Ask, AskStart(e.view), qs)
  <2>1. f = Sorted(e.found, r, m)
    BY <1>5, Zenon DEF MatchStep
  <2>2. e.view = V(a, b, d)
    BY <1>1
  <2> HIDE DEF m
  <2>3. Asked(qs, n, FoldLeft(Ask, AskStart(V(a, b, d)), qs))
    BY <1>0, <1>1, AskAll
  <2>4. Asked(qs, n, r)
    BY <2>2, <2>3, Zenon
  <2> HIDE DEF r, f, qs, n
  <2>5. PICK a2, b2, d2 :
      /\ r = [view |-> V(a2, b2, d2), yes |-> r.yes, panicked |-> r.panicked]
      /\ Fresh(a2) /\ Owned(b2) /\ r.yes \in BOOLEAN /\ r.panicked \in BOOLEAN
      /\ OneArgument => /\ r.panicked <=> Panicked(qs, n)
                        /\ r.yes /\ ~r.panicked <=> AllOk(qs, n)
    BY <2>4, Zenon DEF Asked
  <2>6. /\ f = [view |-> V(a2, b2, d2), panicked |-> f.panicked, found |-> f.found]
        /\ f.panicked = r.panicked
        /\ f.found = IF r.yes THEN Append(e.found, m) ELSE e.found
    <3>1. r.view = V(a2, b2, d2)
      BY <2>5
    <3>2. f = [view |-> r.view, panicked |-> r.panicked, found |-> IF r.yes THEN Append(e.found, m) ELSE e.found]
      BY <2>1, Zenon DEF Sorted
    <3>3. QED
      BY <3>1, <3>2
  <2>7. f.panicked \in BOOLEAN /\ f.found \in Seq(Upto(c, k + 1))
    <3>1. f.panicked \in BOOLEAN
      BY <2>5, <2>6, Zenon
    <3>2. f.found \in Seq(Upto(c, k + 1))
      BY <1>3, <2>6, Zenon DEF m
    <3>3. QED
      BY <3>1, <3>2
  <2>8. (Panicked(qs, n) <=> Panicky(name, sig, m)) /\ (AllOk(qs, n) <=> Yes(name, sig, m))
    BY Zenon DEF Panicky, Yes, qs, n
  <2>9. ASSUME OneArgument PROVE f.panicked <=> \E j \in 1 .. (k + 1) : Panicky(name, sig, <<c, j>>)
    BY <1>1, <1>2, <1>5, <2>5, <2>6, <2>8, <2>9, Zenon DEF m
  <2>10. ASSUME OneArgument, ~f.panicked PROVE Lists(c, name, sig, k + 1, f.found)
    <3>1. e.found \in Seq({<<c, j>> : j \in 1 .. k}) /\ Lists(c, name, sig, k, e.found)
      BY <1>1, <1>5, <2>10 DEF Upto
    <3>2. IF Yes(name, sig, m) THEN Lists(c, name, sig, k + 1, Append(e.found, m))
          ELSE Lists(c, name, sig, k + 1, e.found)
      BY <1>0, <3>1, ListsMore, Zenon DEF m
    <3>3. r.yes <=> Yes(name, sig, m)
      BY <2>5, <2>6, <2>8, <2>10, Zenon
    <3>4. QED
      BY <2>6, <3>2, <3>3, Zenon
  <2>11. Matched(c, name, sig, k + 1, f)
    BY <2>5, <2>6, <2>7, <2>9, <2>10, Zenon DEF Matched
  <2>12. QED
    BY <2>11 DEF f
<1>6. QED
  BY <1>4, <1>5

LEMMA MatchAll ==
  ASSUME Loaded, methods \in MethodTables, NEW sig, Signature(sig), NEW c \in Class, NEW name,
         NEW a, NEW b, NEW d, Fresh(a), Owned(b)
  PROVE  Matched(c, name, sig, Len(methods[c]), Matching(V(a, b, d), c, name, sig))
<1> DEFINE n == Len(methods[c])  v == MatchStart(V(a, b, d))  x == OverMethods(c, name, sig)
<1>1. n \in Nat
  BY MethodOf
<1>2. \A f, k : Do(x, f, k) = MatchStep(c, name, sig, f, k)
  BY DEF Do, OverMethods
<1> HIDE DEF n, x
<1>3. PICK g : Walks(g, x, v, n) /\ Matching(V(a, b, d), c, name, sig) = g[1 .. n]
  BY <1>1, MatchingIsWalk DEF x, n
<1>4. v = [view |-> V(a, b, d), panicked |-> v.panicked, found |-> v.found] /\ v.found = << >> /\ v.panicked = FALSE
  BY DEF MatchStart
<1> HIDE DEF v
<1>5. Walked(g, x, v, n)
  BY <1>1, <1>3, WalkFirst, Zenon
<1>6. g[1 .. 0] = v /\ \A k \in 0 .. (n - 1) : g[1 .. (k + 1)] = MatchStep(c, name, sig, g[1 .. k], k + 1)
  BY <1>2, <1>5, Zenon DEF Walked
<1> DEFINE Good == {k \in 0 .. n : Matched(c, name, sig, k, g[1 .. k])}
<1>7. 0 \in Good
  <2>1. v.found \in Seq(Upto(c, 0)) /\ Lists(c, name, sig, 0, v.found) /\ 1 .. 0 = {}
    BY <1>4 DEF Lists
  <2>2. v.panicked \in BOOLEAN
    BY <1>4, Zenon
  <2>3. ~v.panicked /\ ~\E j \in 1 .. 0 : Panicky(name, sig, <<c, j>>)
    BY <1>4, <2>1, Zenon
  <2>4. Matched(c, name, sig, 0, v)
    BY <1>4, <2>1, <2>2, <2>3, Zenon DEF Matched
  <2>5. QED
    BY <1>1, <1>6, <2>4
<1>8. ASSUME NEW k \in 0 .. (n - 1), k \in Good PROVE k + 1 \in Good
  <2>1. k + 1 \in 0 .. n
    BY <1>1
  <2>2. Matched(c, name, sig, k, g[1 .. k])
    BY <1>8
  <2> HIDE DEF Good
  <2>3. Matched(c, name, sig, k + 1, MatchStep(c, name, sig, g[1 .. k], k + 1))
    BY <2>2, MatchOne DEF n
  <2>4. QED
    BY <1>6, <2>1, <2>3 DEF Good
<1>9. n \in Good
  <2> HIDE DEF Good
  <2>1. \A k \in 0 .. n : k \in Good
    BY <1>1, <1>7, <1>8, Upwards
  <2>2. QED
    BY <1>1, <2>1
<1>10. QED
  BY <1>3, <1>9 DEF n

\* find_method_callee: what it leaves, and its answer.
LEMMA CalleeIs ==
  ASSUME Loaded, methods \in MethodTables, NEW sig, Signature(sig), NEW c \in Class, NEW name,
         NEW a, NEW b, NEW d, Fresh(a), Owned(b)
  PROVE  \E a2, b2, d2, m :
           /\ find_method_callee(V(a, b, d), c, name, sig) = [view |-> V(a2, b2, d2), method |-> m]
           /\ Fresh(a2) /\ Owned(b2) /\ m \in Upto(c, Len(methods[c])) \cup {NoMethod}
           /\ OneArgument => m = Callee(c, name, sig)
<1> DEFINE n == Len(methods[c])  e == Matching(V(a, b, d), c, name, sig)
           m == IF e.panicked \/ Len(e.found) # 1 THEN NoMethod ELSE e.found[1]
<1>1. Matched(c, name, sig, n, e) /\ n \in Nat
  BY MatchAll, MethodOf
<1> HIDE DEF e
<1>2. PICK a2, b2, d2 :
    /\ e = [view |-> V(a2, b2, d2), panicked |-> e.panicked, found |-> e.found]
    /\ Fresh(a2) /\ Owned(b2) /\ e.panicked \in BOOLEAN /\ e.found \in Seq(Upto(c, n))
    /\ OneArgument => /\ e.panicked <=> \E j \in 1 .. n : Panicky(name, sig, <<c, j>>)
                      /\ ~e.panicked => Lists(c, name, sig, n, e.found)
  BY <1>1, Zenon DEF Matched
<1>3. find_method_callee(V(a, b, d), c, name, sig) = [view |-> e.view, method |-> m]
  BY Zenon DEF find_method_callee, OnlyOne, e
<1>4. e.view = V(a2, b2, d2)
  BY <1>2
<1>5. m \in Upto(c, n) \cup {NoMethod}
  BY <1>2
<1>6. ASSUME OneArgument PROVE m = Callee(c, name, sig)
  <2>1. CASE e.panicked
    <3>1. ~Quiet(c, name, sig)
      BY <1>2, <1>6, <2>1, Zenon DEF Quiet
    <3>2. m = NoMethod
      BY <2>1, Zenon
    <3>3. QED
      BY <3>1, <3>2, Zenon DEF Callee
  <2>2. CASE ~e.panicked
    <3>1. Quiet(c, name, sig)
      BY <1>2, <1>6, <2>2, Zenon DEF Quiet
    <3>2. m = IF Len(e.found) # 1 THEN NoMethod ELSE e.found[1]
      BY <2>2, Zenon
    <3>3. e.found \in Seq({<<c, j>> : j \in 1 .. n}) /\ Lists(c, name, sig, n, e.found)
      BY <1>2, <1>6, <2>2 DEF Upto
    <3>4. Callee(c, name, sig) = IF Len(e.found) # 1 THEN NoMethod ELSE e.found[1]
      BY <1>1, <3>1, <3>3, OneListed
    <3>5. QED
      BY <3>2, <3>4, Zenon
  <2>3. QED
    BY <2>1, <2>2
<1> HIDE DEF m
<1>7. QED
  BY <1>2, <1>3, <1>4, <1>5, <1>6, Zenon

-----------------------------------------------------------------------------
(***************************************************************************)
(* What a hook can be installed on, and that it stays so while assemblies  *)
(* are loaded.                                                             *)
(***************************************************************************)
IsFound(h, m) ==
  \E c : /\ c = Scan(Args(h).class)
         /\ m = IF c = NoClass THEN NoMethod ELSE Callee(c, Args(h).method, Sig(h))

LEMMA HookIs ==
  ASSUME NEW h \in Compiled
  PROVE  h \in Hook /\ Args(h).class \in Name /\ Signature(Sig(h))
<1>1. h \in Hook
  BY DEF Compiled
<1>2. QED
  BY <1>1, HookAssumption, Zenon DEF Args, Sig, Signature

\* What looking for a hook's method leaves, and its answer.
Finds(v, h) ==
  \E a, b, d, m :
    /\ Lookup(v, h) = [view |-> V(a, b, d), method |-> m]
    /\ Fresh(a) /\ Owned(b) /\ m \in Declared \cup {NoMethod}
    /\ OneArgument => IsFound(h, m)

LEMMA TargetIs ==
  ASSUME Loaded, methods \in MethodTables, NEW h \in Compiled, NEW a, NEW b, NEW d, Fresh(a), Owned(b)
  PROVE  Finds(V(a, b, d), h)
<1> DEFINE n == Args(h).class  c == Scan(n)  name == Args(h).method  sig == Sig(h)
<1>1. n \in Name /\ Signature(sig)
  BY HookIs
<1> HIDE DEF n, name, sig
<1>2. PICK a1 : find(V(a, b, d), n) = V(a1, b, c) /\ Fresh(a1)
  BY <1>1, FindIs
<1>3. V(a1, b, c).class = c
  BY DEF V
<1>4. c \in Option
  BY ScanType
<1>5. Lookup(V(a, b, d), h) = MethodIn(V(a1, b, c), h)
  BY <1>2, Zenon DEF Lookup, n
<1>6. CASE c = NoClass
  <2>1. Lookup(V(a, b, d), h) = [view |-> V(a1, b, c), method |-> NoMethod]
    BY <1>3, <1>5, <1>6, Zenon DEF MethodIn
  <2>2. IsFound(h, NoMethod)
    BY <1>6, Zenon DEF IsFound, n
  <2>3. NoMethod \in Declared \cup {NoMethod}
    OBVIOUS
  <2>4. QED
    BY <1>2, <2>1, <2>2, <2>3, Zenon DEF Finds
<1>7. CASE c # NoClass
  <2>1. c \in Class
    BY <1>4, <1>7 DEF Option
  <2> HIDE DEF c
  <2>2. PICK a2, b2, d2, m :
           /\ find_method_callee(V(a1, b, c), c, name, sig) = [view |-> V(a2, b2, d2), method |-> m]
           /\ Fresh(a2) /\ Owned(b2) /\ m \in Upto(c, Len(methods[c])) \cup {NoMethod}
           /\ OneArgument => m = Callee(c, name, sig)
    BY <1>1, <1>2, <2>1, CalleeIs
  <2>3. Lookup(V(a, b, d), h) = [view |-> V(a2, b2, d2), method |-> m]
    BY <1>3, <1>5, <1>7, <2>2, Zenon DEF MethodIn, name, sig
  <2>4. m \in Declared \cup {NoMethod}
    BY <2>1, <2>2, MethodOf DEF Upto
  <2>5. OneArgument => IsFound(h, m)
    BY <1>7, <2>2, Zenon DEF IsFound, c, n, name, sig
  <2>6. QED
    BY <2>2, <2>3, <2>4, <2>5, Zenon DEF Finds
<1>8. QED
  BY <1>6, <1>7

LEMMA ViewFinds ==
  ASSUME IInv, methods \in MethodTables, NEW h \in Compiled, NEW t \in Thread
  PROVE  Finds(View(t), h)
<1> DEFINE v == V(CLASS_CACHE[t], CLASS, NoClass)
<1>1. View(t) = v /\ Fresh(CLASS_CACHE[t]) /\ Owned(CLASS) /\ Loaded
  BY ViewIs
<1>2. Finds(v, h)
  BY <1>1, TargetIs, Zenon
<1> HIDE DEF v
<1>3. QED
  BY <1>1, <1>2, Zenon

-----------------------------------------------------------------------------
\* Either no assembly is loaded or one is.
Later == loaded \in Nat /\ (LoadAssembly \/ UNCHANGED loaded)

LEMMA ScanStays ==
  ASSUME Later, NEW n, Scan(n) # NoClass
  PROVE  Scan(n)' = Scan(n)
BY ScanKept, FoundStays DEF Later

LEMMA OwnStays ==
  ASSUME Later, NEW T, Own(T) # NoClass
  PROVE  Own(T)' = Own(T)
<1> DEFINE n == TypeName[T]  m == TypeName[TypeArg[T]]
<1>1. CASE T \notin GenericType
  <2>1. Own(T) = Scan(n) /\ Own(T)' = Scan(n)'
    BY <1>1 DEF Own
  <2>2. QED
    BY <2>1, ScanStays
<1>2. CASE T \in GenericType
  <2>1. Own(T) = IF NoClass \in {Scan(n), Scan(m)} THEN NoClass ELSE Instance[<<Scan(n), Scan(m)>>]
    BY <1>2 DEF Own, Made
  <2>2. Own(T)' = IF NoClass \in {Scan(n)', Scan(m)'} THEN NoClass ELSE Instance[<<Scan(n)', Scan(m)'>>]
    BY <1>2 DEF Own, Made
  <2>3. Scan(n) # NoClass /\ Scan(m) # NoClass
    BY <2>1
  <2>4. Scan(n)' = Scan(n) /\ Scan(m)' = Scan(m)
    BY <2>3, ScanStays
  <2>5. QED
    BY <2>1, <2>2, <2>4
<1>3. QED
  BY <1>1, <1>2

\* Later a question has the answer it had, but where it panicked.
LEMMA OkStays ==
  ASSUME Later, NEW q
  PROVE  /\ Ok(q) => Ok(q)' /\ ~Panics(q)'
         /\ ~Ok(q) /\ ~Panics(q) => ~Ok(q)' /\ ~Panics(q)'
<1>1. CASE Own(q.type) # NoClass
  <2>1. Own(q.type)' = Own(q.type)
    BY <1>1, OwnStays
  <2>2. Compares(q)' <=> Compares(q)
    BY <2>1 DEF Compares, is_assignable_from
  <2>3. (Ok(q)' <=> Ok(q)) /\ ~Panics(q)'
    BY <1>1, <2>1, <2>2 DEF Ok, Panics
  <2>4. QED
    BY <2>3
<1>2. CASE Own(q.type) = NoClass
  BY <1>2 DEF Ok, Panics
<1>3. QED
  BY <1>1, <1>2

LEMMA VerdictStays ==
  ASSUME Later, NEW qs, NEW n \in Nat, ~Panicked(qs, n)
  PROVE  ~Panicked(qs, n)' /\ (AllOk(qs, n)' <=> AllOk(qs, n))
<1>1. CASE AllOk(qs, n)
  BY <1>1, OkStays DEF AllOk, Panicked
<1>2. CASE ~AllOk(qs, n)
  <2> DEFINE S == {i \in 1 .. n : ~Ok(qs[i])}
  <2>1. S \in SUBSET Nat /\ S # {}
    BY <1>2 DEF AllOk
  <2>2. PICK i \in S : \A j \in S : i <= j
    BY <2>1, LeastNumber
  <2>3. i \in 1 .. n /\ ~Ok(qs[i]) /\ \A j \in 1 .. (i - 1) : Ok(qs[j])
    BY <2>2
  <2>4. ~Panics(qs[i])
    BY <2>3 DEF Panicked, AllOk
  <2>5. ~Ok(qs[i])' /\ ~Panics(qs[i])'
    BY <2>3, <2>4, OkStays
  <2>6. \A j \in 1 .. (i - 1) : ~Panics(qs[j])'
    BY <2>3, OkStays
  <2> HIDE DEF S
  <2>7. ~AllOk(qs, n)'
    BY <2>3, <2>5 DEF AllOk
  <2>8. ASSUME NEW j \in 1 .. n, Panics(qs[j])', AllOk(qs, j - 1)' PROVE FALSE
    <3>1. j \notin 1 .. (i - 1) /\ j # i
      BY <2>5, <2>6, <2>8
    <3>2. i \in 1 .. (j - 1)
      BY <2>3, <3>1
    <3>3. QED
      BY <2>5, <2>8, <3>2 DEF AllOk
  <2>9. ~Panicked(qs, n)'
    BY <2>8 DEF Panicked
  <2>10. QED
    BY <1>2, <2>7, <2>9
<1>3. QED
  BY <1>1, <1>2

LEMMA QuestionsKept ==
  ASSUME UNCHANGED methods, NEW name, NEW sig, NEW m
  PROVE  Questions(name, sig, m)' = Questions(name, sig, m)
BY DEF Questions, matches_this_parameter, matches_return, Info

LEMMA YesStays ==
  ASSUME Later, UNCHANGED methods, NEW name, NEW sig, Signature(sig), NEW m, ~Panicky(name, sig, m)
  PROVE  ~Panicky(name, sig, m)' /\ (Yes(name, sig, m)' <=> Yes(name, sig, m))
<1> DEFINE n == Len(params_ty(sig)) + 4
<1>1. PICK qs : qs = Questions(name, sig, m)
  OBVIOUS
<1>2. qs = Questions(name, sig, m)'
  BY <1>1, QuestionsKept
<1>3. n \in Nat
  <2>1. Len(params_ty(sig)) \in Nat
    BY QuestionsAre
  <2>2. QED
    BY <2>1
<1> HIDE DEF n
<1>4. ~Panicked(qs, n)
  BY <1>1, Zenon DEF Panicky, n
<1>5. ~Panicked(qs, n)' /\ (AllOk(qs, n)' <=> AllOk(qs, n))
  BY <1>3, <1>4, VerdictStays
<1>6. (Yes(name, sig, m) <=> AllOk(qs, n)) /\ (Yes(name, sig, m)' <=> AllOk(qs, n)')
  BY <1>1, <1>2, Zenon DEF Yes, n
<1>7. Panicky(name, sig, m)' <=> Panicked(qs, n)'
  BY <1>2, Zenon DEF Panicky, n
<1>8. QED
  BY <1>5, <1>6, <1>7

LEMMA CalleeStays ==
  ASSUME Later, UNCHANGED methods, NEW c, NEW name, NEW sig, Signature(sig), Callee(c, name, sig) # NoMethod
  PROVE  Callee(c, name, sig)' = Callee(c, name, sig)
<1>1. \A j \in 1 .. Len(methods[c]) : ~Panicky(name, sig, <<c, j>>)
  BY DEF Callee, Quiet
<1>2. \A j \in 1 .. Len(methods[c]) :
        ~Panicky(name, sig, <<c, j>>)' /\ (Yes(name, sig, <<c, j>>)' <=> Yes(name, sig, <<c, j>>))
  BY <1>1, YesStays
<1>3. Quiet(c, name, sig)' /\ Quiet(c, name, sig)
  BY <1>1, <1>2 DEF Quiet
<1>4. Yeses(c, name, sig)' = Yeses(c, name, sig)
  BY <1>2 DEF Yeses
<1>5. PICK Y : Y = Yeses(c, name, sig)
  OBVIOUS
<1>6. Y = Yeses(c, name, sig)'
  BY <1>4, <1>5
<1>7. PICK j : Y = {j}
  BY <1>5 DEF Callee
<1>8. Callee(c, name, sig) = <<c, j>>
  BY <1>3, <1>5, <1>7 DEF Callee
<1>9. Callee(c, name, sig)' = <<c, j>>
  BY <1>3, <1>6, <1>7 DEF Callee
<1>10. QED
  BY <1>8, <1>9

LEMMA FoundRemains ==
  ASSUME Later, UNCHANGED methods, NEW h \in Compiled, NEW m, m # NoMethod, IsFound(h, m)
  PROVE  IsFound(h, m)'
<1>1. PICK c : /\ c = Scan(Args(h).class)
               /\ m = IF c = NoClass THEN NoMethod ELSE Callee(c, Args(h).method, Sig(h))
  BY DEF IsFound
<1>2. c # NoClass /\ m = Callee(c, Args(h).method, Sig(h))
  BY <1>1
<1>3. c = Scan(Args(h).class)'
  BY <1>1, <1>2, ScanStays
<1>4. m = Callee(c, Args(h).method, Sig(h))'
  BY <1>2, HookIs, CalleeStays
<1>5. QED
  BY <1>2, <1>3, <1>4, Zenon DEF IsFound

-----------------------------------------------------------------------------
TargetInv ==
  /\ IInv /\ methods \in MethodTables
  /\ target = [h \in Compiled |-> target[h]]
  /\ \A h \in Compiled : \A m : m = target[h] /\ m # NoMethod =>
       /\ m \in Declared /\ Info(m).code
       /\ OneArgument => IsFound(h, m)

LEMMA TargetFirst == TargetInit => TargetInv
<1> SUFFICES ASSUME TargetInit PROVE TargetInv
  OBVIOUS
<1>1. IInv
  BY InitInv DEF TargetInit
<1>2. target = [h \in Compiled |-> NoMethod] /\ methods \in MethodTables
  BY Zenon DEF TargetInit
<1> HIDE DEF Compiled
<1>3. target = [h \in Compiled |-> target[h]] /\ \A h \in Compiled : target[h] = NoMethod
  BY <1>2
<1>4. QED
  BY <1>1, <1>2, <1>3, Zenon DEF TargetInv

\* A hook that is installed stays where it is, whatever is loaded.
LEMMA InstalledStays ==
  ASSUME TargetInv, IInv', Later, UNCHANGED methods,
         target' = [h \in Compiled |-> target'[h]],
         \A h \in Compiled : \A m : m = target'[h] /\ m # NoMethod =>
            m = target[h] \/ (m \in Declared /\ Info(m).code /\ (OneArgument => IsFound(h, m)))
  PROVE  TargetInv'
<1>1. ASSUME NEW h \in Compiled, NEW m, m = target'[h], m # NoMethod
      PROVE  m \in Declared' /\ Info(m).code' /\ (OneArgument => IsFound(h, m)')
  <2>1. m \in Declared /\ Info(m).code /\ (OneArgument => IsFound(h, m))
    BY <1>1, Zenon DEF TargetInv
  <2>2. m \in Declared' /\ Info(m).code'
    BY <2>1, DeclaredKept DEF Info
  <2>3. OneArgument => IsFound(h, m)'
    BY <1>1, <2>1, FoundRemains
  <2>4. QED
    BY <2>2, <2>3
<1>2. methods' \in MethodTables
  BY DEF TargetInv
<1>3. QED
  BY <1>1, <1>2, Zenon DEF TargetInv

LEMMA TargetOn == TargetInv /\ [TargetNext]_targetVars => TargetInv'
<1> SUFFICES ASSUME TargetInv, [TargetNext]_targetVars PROVE TargetInv'
  OBVIOUS
<1>0. /\ IInv /\ Loaded /\ loaded \in Nat /\ methods \in MethodTables
      /\ target = [h \in Compiled |-> target[h]]
  BY ClassAssumption DEF TargetInv, IInv, Loaded
<1>1. CASE LoadAssembly /\ UNCHANGED <<methods, target>>
  <2>1. IInv' /\ Later
    BY <1>0, <1>1, LoadInv DEF Later
  <2>2. UNCHANGED methods /\ UNCHANGED target
    BY <1>1
  <2> HIDE DEF Compiled
  <2>3. QED
    BY <1>0, <2>1, <2>2, InstalledStays
<1>2. CASE UNCHANGED targetVars
  <2>1. UNCHANGED classVars /\ UNCHANGED methods /\ UNCHANGED target
    BY <1>2 DEF targetVars
  <2>2. IInv' /\ Later
    BY <1>0, <2>1, StillInv DEF Later, classVars
  <2>3. QED
    BY <1>0, <2>1, <2>2, InstalledStays
<1>3. ASSUME NEW h \in Compiled, AlreadyInstalled(h) PROVE TargetInv'
  BY <1>2, <1>3 DEF AlreadyInstalled
<1>4. ASSUME NEW h \in Compiled, Uninstall(h) PROVE TargetInv'
  <2>1. UNCHANGED classVars /\ UNCHANGED methods /\ target' = [target EXCEPT ![h] = NoMethod]
    BY <1>4 DEF Uninstall
  <2>2. IInv' /\ Later
    BY <1>0, <2>1, StillInv DEF Later, classVars
  <2>3. /\ target' = [g \in Compiled |-> target'[g]]
        /\ \A g \in Compiled : \A m : m = target'[g] /\ m # NoMethod => m = target[g]
    BY <1>0, <2>1
  <2>4. QED
    BY <2>1, <2>2, <2>3, InstalledStays, Zenon
<1>5. ASSUME NEW h \in Compiled, NEW t \in Thread, Install(t, h) PROVE TargetInv'
  <2>1. PICK a : /\ a = Lookup(View(t), h)
                 /\ Keep(t, a.view) /\ UNCHANGED <<loaded, methods>>
                 /\ \E success \in BOOLEAN :
                      target' = IF a.method # NoMethod /\ success /\ Info(a.method).code
                                THEN [target EXCEPT ![h] = a.method] ELSE target
    BY <1>5, Zenon DEF Install
  <2>2. PICK a2, b2, d2, m :
           /\ Lookup(View(t), h) = [view |-> V(a2, b2, d2), method |-> m]
           /\ Fresh(a2) /\ Owned(b2) /\ m \in Declared \cup {NoMethod}
           /\ OneArgument => IsFound(h, m)
    BY <1>0, ViewFinds, Zenon DEF Finds
  <2>3. a.view = V(a2, b2, d2) /\ a.method = m
    BY <2>1, <2>2
  <2>4. IInv' /\ Later /\ UNCHANGED methods
    <3>1. Keep(t, V(a2, b2, d2)) /\ UNCHANGED loaded /\ UNCHANGED methods
      BY <2>1, <2>3
    <3>2. IInv'
      BY <1>0, <2>2, <3>1, KeepInv
    <3>3. QED
      BY <1>0, <3>1, <3>2 DEF Later
  <2>5. target' = target \/ (m # NoMethod /\ Info(m).code /\ target' = [target EXCEPT ![h] = m])
    BY <2>1, <2>3
  <2>6. target' = [g \in Compiled |-> target'[g]]
    BY <1>0, <2>5
  <2>7. ASSUME NEW g \in Compiled, NEW x, x = target'[g], x # NoMethod
        PROVE  x = target[g] \/ (x \in Declared /\ Info(x).code /\ (OneArgument => IsFound(g, x)))
    <3>1. CASE target' = target
      BY <2>7, <3>1
    <3>2. CASE m # NoMethod /\ Info(m).code /\ target' = [target EXCEPT ![h] = m]
      <4>1. CASE g = h
        <5>1. x = m
          BY <1>0, <2>7, <3>2, <4>1
        <5>2. m \in Declared
          BY <2>2, <3>2
        <5>3. QED
          BY <2>2, <3>2, <4>1, <5>1, <5>2, Zenon
      <4>2. CASE g # h
        BY <1>0, <2>7, <3>2, <4>2
      <4>3. QED
        BY <4>1, <4>2
    <3>3. QED
      BY <2>5, <3>1, <3>2
  <2>8. QED
    BY <2>4, <2>6, <2>7, InstalledStays, Zenon
<1>6. QED
  BY <1>1, <1>2, <1>3, <1>4, <1>5 DEF TargetNext

LEMMA TargetGivesType == TargetInv => TargetTypeOK
<1> SUFFICES ASSUME TargetInv PROVE TargetTypeOK
  OBVIOUS
<1>1. ClassTypeOK /\ methods \in MethodTables
  BY InvGivesType DEF TargetInv
<1>2. DOMAIN target = Compiled
  <2>1. target = [h \in Compiled |-> target[h]]
    BY DEF TargetInv
  <2> HIDE DEF Compiled
  <2>2. QED
    BY <2>1
<1>3. ASSUME NEW h \in Compiled, target[h] # NoMethod
      PROVE  /\ target[h][1] \in Class /\ target[h][2] \in DOMAIN methods[target[h][1]]
             /\ Info(target[h]).code
  <2>1. target[h] \in Declared /\ Info(target[h]).code
    BY <1>3, Zenon DEF TargetInv
  <2>2. QED
    BY <2>1 DEF Declared
<1>4. QED
  BY <1>1, <1>2, <1>3, Zenon DEF TargetTypeOK

LEMMA TargetGivesFresh == ASSUME OneArgument PROVE TargetInv => AnswerIsFresh
<1> SUFFICES ASSUME TargetInv PROVE AnswerIsFresh
  OBVIOUS
<1>0. IInv /\ Loaded /\ methods \in MethodTables
  BY DEF TargetInv, IInv
<1>1. \A h, m, x : IsFound(h, m) /\ IsFound(h, x) => m = x
  BY Zenon DEF IsFound
<1>2. ASSUME NEW v, NEW h, Finds(v, h) PROVE IsFound(h, Lookup(v, h).method)
  <2>1. PICK a, b, d, m : Lookup(v, h) = [view |-> V(a, b, d), method |-> m] /\ IsFound(h, m)
    BY <1>2, Zenon DEF Finds
  <2>2. Lookup(v, h).method = m
    BY <2>1
  <2>3. QED
    BY <2>1, <2>2, Zenon
<1>3. ASSUME NEW h \in Compiled PROVE IsFound(h, Lookup(Nothing, h).method)
  <2> DEFINE none == << >>  cells == [n \in GenericName |-> NoClass]
  <2>1. Nothing = V(none, cells, NoClass)
    BY DEF Nothing, V
  <2>2. Fresh(none) /\ Owned(cells)
    BY DEF Fresh, Owned, IsOwn, Option, GenericName
  <2> HIDE DEF none, cells
  <2>3. Finds(V(none, cells, NoClass), h)
    BY <1>0, <2>2, TargetIs
  <2>4. Finds(Nothing, h)
    BY <2>1, <2>3, Zenon
  <2>5. QED
    BY <1>2, <2>4
<1>4. ASSUME NEW h \in Compiled, NEW t \in Thread PROVE IsFound(h, Lookup(View(t), h).method)
  BY <1>0, <1>2, ViewFinds
<1>5. ASSUME NEW h \in Installed PROVE h \in Compiled /\ IsFound(h, target[h])
  BY <1>0, Zenon DEF Installed, TargetInv
<1>6. \A h \in Compiled : \A t \in Thread : Lookup(View(t), h).method = Lookup(Nothing, h).method
  BY <1>1, <1>3, <1>4, Zenon
<1>7. \A h \in Compiled : h \in Installed => target[h] = Lookup(Nothing, h).method
  BY <1>1, <1>3, <1>5, Zenon
<1>8. QED
  BY <1>6, <1>7, Zenon DEF AnswerIsFresh

-----------------------------------------------------------------------------
(***************************************************************************)
(* What the checks leave of a method.                                      *)
(***************************************************************************)

\* The method a hook is on answered yes, and no other of its class did.
LEMMA OnlyYes ==
  ASSUME OneArgument, TargetInv, NEW h \in Installed
  PROVE  \E c \in Class : \E k \in 1 .. Len(methods[c]) :
           /\ target[h] = <<c, k>> /\ Yes(Args(h).method, Sig(h), <<c, k>>)
           /\ \A j \in 1 .. Len(methods[c]) : Yes(Args(h).method, Sig(h), <<c, j>>) => j = k
<1>1. h \in Compiled /\ target[h] # NoMethod /\ methods \in MethodTables /\ Loaded
  BY DEF Installed, TargetInv, IInv
<1>2. IsFound(h, target[h])
  BY <1>1, Zenon DEF TargetInv
<1>3. PICK c : /\ c = Scan(Args(h).class)
               /\ target[h] = IF c = NoClass THEN NoMethod ELSE Callee(c, Args(h).method, Sig(h))
  BY <1>2, Zenon DEF IsFound
<1>4. c \in Class
  BY <1>1, <1>3, ScanType DEF Option
<1> DEFINE Y == Yeses(c, Args(h).method, Sig(h))
<1>5. target[h] = Callee(c, Args(h).method, Sig(h))
  BY <1>1, <1>3
<1>6. PICK k : Y = {k}
  BY <1>1, <1>5, Zenon DEF Callee
<1>7. target[h] = <<c, k>>
  BY <1>1, <1>5, <1>6 DEF Callee
<1>8. \A j : j = k <=> j \in 1 .. Len(methods[c]) /\ Yes(Args(h).method, Sig(h), <<c, j>>)
  <2>1. \A j : j \in Y <=> j \in 1 .. Len(methods[c]) /\ Yes(Args(h).method, Sig(h), <<c, j>>)
    BY DEF Yeses
  <2> HIDE DEF Y
  <2>2. \A j : j \in Y <=> j = k
    BY <1>6
  <2>3. QED
    BY <2>1, <2>2, Zenon
<1>9. QED
  BY <1>4, <1>7, <1>8

\* A method answers yes where every one of its questions does.
LEMMA YesMeans ==
  ASSUME NEW sig, Signature(sig), NEW m, NEW name
  PROVE  LET ps == params_ty(sig) IN
         Yes(name, sig, m) <=>
           /\ Info(m).name = name /\ Ok(matches_this_parameter(sig, m))
           /\ Len(Info(m).params) = Len(ps)
           /\ \A i \in 1 .. Len(ps) : Ok(ParamQuestion(ps, m, i))
           /\ Ok(matches_return(sig.ret, m))
<1> DEFINE qs == Questions(name, sig, m)  ps == params_ty(sig)  L == Len(ps)
<1>1. /\ L \in Nat
      /\ qs[1] = Plain(Info(m).name = name) /\ qs[2] = matches_this_parameter(sig, m)
      /\ qs[3] = Plain(Len(Info(m).params) = L)
      /\ qs[L + 4] = matches_return(sig.ret, m)
      /\ \A i \in 1 .. L : qs[i + 3] = ParamQuestion(ps, m, i)
  BY QuestionsAre
<1>2. Yes(name, sig, m) <=> \A i \in 1 .. (L + 4) : Ok(qs[i])
  BY Zenon DEF Yes, AllOk
<1>3. ASSUME NEW y PROVE Ok(Plain(y)) <=> y
  <2>1. Plain(y).plain = y /\ Plain(y).type = Unit
    BY DEF Plain
  <2>2. QED
    BY <2>1, Zenon DEF Ok
<1> HIDE DEF qs, L, ps
<1>4. (\A i \in 1 .. (L + 4) : Ok(qs[i])) <=>
        /\ Ok(qs[1]) /\ Ok(qs[2]) /\ Ok(qs[3]) /\ Ok(qs[L + 4])
        /\ \A i \in 1 .. L : Ok(qs[i + 3])
  <2>1. ASSUME NEW i \in 1 .. L PROVE i + 3 \in 1 .. (L + 4)
    BY <1>1
  <2>2. ASSUME NEW i \in 1 .. (L + 4), i # 1, i # 2, i # 3, i # L + 4
        PROVE  \E j \in 1 .. L : i = j + 3
    <3>1. i - 3 \in 1 .. L /\ i = (i - 3) + 3
      BY <1>1, <2>2
    <3>2. QED
      BY <3>1
  <2>3. 1 \in 1 .. (L + 4) /\ 2 \in 1 .. (L + 4) /\ 3 \in 1 .. (L + 4) /\ L + 4 \in 1 .. (L + 4)
    BY <1>1
  <2>4. QED
    BY <2>1, <2>2, <2>3, Zenon
<1>5. (\A i \in 1 .. L : Ok(qs[i + 3])) <=> \A i \in 1 .. L : Ok(ParamQuestion(ps, m, i))
  BY <1>1, Zenon
<1>6. (Ok(qs[1]) <=> Info(m).name = name) /\ (Ok(qs[3]) <=> Len(Info(m).params) = L)
  BY <1>1, <1>3, Zenon
<1>7. (Ok(qs[2]) <=> Ok(matches_this_parameter(sig, m))) /\ (Ok(qs[L + 4]) <=> Ok(matches_return(sig.ret, m)))
  BY <1>1, Zenon
<1>8. QED
  BY <1>2, <1>4, <1>5, <1>6, <1>7, Zenon DEF L, ps

\* The class of a declared type.
LEMMA ClassOfIs ==
  ASSUME OneArgument, Loaded, NEW ty, ty.type \in RustType
  PROVE  ClassOf(ty) = Own(ty.type)
<1> DEFINE none == << >>  cells == [n \in GenericName |-> NoClass]  T == ty.type
<1>1. Nothing = V(none, cells, NoClass)
  BY DEF Nothing, V
<1>2. Fresh(none) /\ Owned(cells)
  BY DEF Fresh, Owned, IsOwn, Option, GenericName
<1> HIDE DEF none, cells, T
<1>3. T \in RustType
  BY DEF T
<1>4. PICK a2, b2 : class(V(none, cells, NoClass), T) = V(a2, b2, Answers(b2, T)) /\ Answers(b2, T) = Own(T)
  BY <1>2, <1>3, ClassIs
<1>5. ClassOf(ty) = V(a2, b2, Answers(b2, T)).class
  BY <1>1, <1>4, Zenon DEF ClassOf, T
<1>6. QED
  BY <1>4, <1>5 DEF V, T

-----------------------------------------------------------------------------
\* An overload declared exactly as the hook answers yes.
LEMMA ExactOk ==
  ASSUME OneArgument, Loaded, NEW ty, ty.type \in RustType, NEW p, p.class \in Class, ExactParam(ty, p)
  PROVE  Ok(matches_parameter(ty, p))
<1> DEFINE q == matches_parameter(ty, p)
<1>1. p.class = Own(ty.type) /\ p.byref = (ty.form = "byref")
  BY ClassOfIs DEF ExactParam
<1>2. q.plain = (ty.type \in ValueType => (ty.form = "byref") = p.byref)
      /\ q.type = ty.type /\ q.class = p.class /\ q.returned = FALSE
  BY DEF matches_parameter
<1> HIDE DEF q
<1>3. q.plain
  BY <1>1, <1>2, Zenon
<1>4. Own(q.type) # NoClass
  BY <1>1, <1>2, ClassAssumption
<1>5. Compares(q)
  BY <1>1, <1>2, Zenon DEF Compares, is_assignable_from
<1>6. QED
  BY <1>3, <1>4, <1>5, Zenon DEF Ok, q

LEMMA ExactReturnOk ==
  ASSUME OneArgument, Loaded, NEW ty, ty.type \in RustType \cup {Unit}, NEW m, Info(m).ret \in Class,
         Info(m).ret = IF ty.type = Unit THEN Void ELSE ClassOf(ty)
  PROVE  Ok(matches_return(ty, m))
<1> DEFINE q == matches_return(ty, m)
<1>1. CASE ty.type = Unit
  <2>1. q = Plain(Info(m).ret = Void)
    BY <1>1, Zenon DEF matches_return
  <2>2. q.plain = (Info(m).ret = Void) /\ q.type = Unit
    BY <2>1 DEF Plain
  <2>3. Info(m).ret = Void
    BY <1>1, Zenon
  <2> HIDE DEF q
  <2>4. QED
    BY <2>2, <2>3, Zenon DEF Ok, q
<1>2. CASE ty.type # Unit
  <2>1. Info(m).ret = Own(ty.type)
    BY <1>2, ClassOfIs
  <2>2. q.plain = TRUE /\ q.type = ty.type /\ q.class = Info(m).ret /\ q.returned = TRUE
    BY <1>2 DEF matches_return
  <2> HIDE DEF q
  <2>3. Own(q.type) # NoClass
    BY <2>1, <2>2, ClassAssumption
  <2>4. Compares(q)
    BY <2>1, <2>2, Zenon DEF Compares, is_assignable_from
  <2>5. QED
    BY <2>2, <2>3, <2>4, Zenon DEF Ok, q
<1>3. QED
  BY <1>1, <1>2

LEMMA DeclaredIs ==
  ASSUME methods \in MethodTables, NEW m \in Declared
  PROVE  /\ Len(Info(m).params) \in Nat /\ Info(m).static \in BOOLEAN /\ Info(m).ret \in Class
         /\ Info(m).params \in Seq(Param)
         /\ \A i \in 1 .. Len(Info(m).params) : Info(m).params[i].class \in Class
<1>1. Info(m) \in Method
  BY InfoType
<1> DEFINE f == Info(m)
<1> HIDE DEF f
<1>2. f.params \in Seq(Param) /\ f.static \in BOOLEAN /\ f.ret \in Class
  BY <1>1 DEF f, Method
<1>3. Len(f.params) \in Nat /\ \A i \in 1 .. Len(f.params) : f.params[i] \in Param
  BY <1>2
<1>4. \A i \in 1 .. Len(f.params) : f.params[i].class \in Class
  BY <1>3 DEF Param
<1>5. QED
  BY <1>2, <1>3, <1>4 DEF f

LEMMA TypeOfParam ==
  ASSUME NEW sig, Signature(sig)
  PROVE  /\ Len(params_ty(sig)) \in Nat /\ DOMAIN params_ty(sig) = 1 .. Len(params_ty(sig))
         /\ \A i \in 1 .. Len(params_ty(sig)) : params_ty(sig)[i].type \in RustType
         /\ sig.ret.type \in RustType \cup {Unit}
         /\ has_this(sig) => sig.inputs[1].ty.type \in RustType
<1> DEFINE ps == params_ty(sig)  Ty == [form : STRING, type : RustType]  In == sig.inputs[1].ty  R == sig.ret
<1>1. ps \in Seq(Ty) /\ (has_this(sig) => In \in Ty)
  BY ParamsOfSignature
<1>2. R \in [form : STRING, type : RustType \cup {Unit}]
  BY Zenon DEF Signature
<1>3. \A x \in Ty : x.type \in RustType
  OBVIOUS
<1> HIDE DEF ps, Ty, In, R
<1>4. Len(ps) \in Nat /\ DOMAIN ps = 1 .. Len(ps) /\ \A i \in 1 .. Len(ps) : ps[i] \in Ty
  BY <1>1
<1>5. R.type \in RustType \cup {Unit}
  BY <1>2
<1>6. QED
  BY <1>1, <1>3, <1>4, <1>5, Zenon DEF ps, In, R

LEMMA TargetGivesOwn == ASSUME OneArgument PROVE TargetInv => OwnOverload
<1> SUFFICES ASSUME TargetInv, NEW h \in Installed,
                    NEW k \in DOMAIN methods[target[h][1]],
                    methods[target[h][1]][k].name = Args(h).method,
                    methods[target[h][1]][k].static = ~has_this(Sig(h)),
                    Len(methods[target[h][1]][k].params) = Len(params_ty(Sig(h))),
                    \A i \in DOMAIN params_ty(Sig(h)) :
                       ExactParam(params_ty(Sig(h))[i], methods[target[h][1]][k].params[i]),
                    methods[target[h][1]][k].ret = IF Sig(h).ret.type = Unit THEN Void ELSE ClassOf(Sig(h).ret)
             PROVE  target[h] = <<target[h][1], k>>
  BY Zenon DEF OwnOverload
<1>1. /\ methods \in MethodTables /\ Loaded /\ h \in Compiled
  BY DEF TargetInv, IInv, Installed
<1>2. PICK c \in Class : \E x \in 1 .. Len(methods[c]) :
           /\ target[h] = <<c, x>> /\ Yes(Args(h).method, Sig(h), <<c, x>>)
           /\ \A j \in 1 .. Len(methods[c]) : Yes(Args(h).method, Sig(h), <<c, j>>) => j = x
  BY OnlyYes
<1>3. PICK x \in 1 .. Len(methods[c]) :
           /\ target[h] = <<c, x>> /\ Yes(Args(h).method, Sig(h), <<c, x>>)
           /\ \A j \in 1 .. Len(methods[c]) : Yes(Args(h).method, Sig(h), <<c, j>>) => j = x
  BY <1>2
<1> DEFINE m == <<c, k>>  sig == Sig(h)  name == Args(h).method  ps == params_ty(sig)
<1>4. target[h][1] = c /\ Info(m) = methods[target[h][1]][k] /\ k \in 1 .. Len(methods[c])
  <2>1. target[h][1] = c
    BY <1>3
  <2>2. QED
    BY <1>1, <2>1, MethodOf DEF Info
<1>5. Signature(sig)
  BY <1>1, HookIs
<1>6. m \in Declared
  BY <1>1, <1>4, MethodOf
<1>7. /\ Info(m).name = name /\ Info(m).static = ~has_this(sig) /\ Len(Info(m).params) = Len(ps)
      /\ \A i \in DOMAIN ps : ExactParam(ps[i], Info(m).params[i])
      /\ Info(m).ret = IF sig.ret.type = Unit THEN Void ELSE ClassOf(sig.ret)
  BY <1>4, Zenon
<1> HIDE DEF sig, name, ps
<1>8. Ok(matches_this_parameter(sig, m))
  <2>1. CASE has_this(sig)
    <3>1. Ok(matches_this_parameter(sig, <<c, x>>))
      BY <1>3, <1>5, YesMeans DEF sig
    <3>2. matches_this_parameter(sig, m) = matches_this_parameter(sig, <<c, x>>)
      BY <2>1 DEF matches_this_parameter
    <3>3. QED
      BY <3>1, <3>2, Zenon
  <2>2. CASE ~has_this(sig)
    <3>1. matches_this_parameter(sig, m) = Plain(Info(m).static)
      BY <2>2, Zenon DEF matches_this_parameter
    <3>2. Plain(Info(m).static).plain = Info(m).static /\ Plain(Info(m).static).type = Unit
      BY DEF Plain
    <3>3. Info(m).static
      BY <1>7, <2>2, Zenon
    <3>4. QED
      BY <3>1, <3>2, <3>3, Zenon DEF Ok
  <2>3. QED
    BY <2>1, <2>2
<1>9. ASSUME NEW i \in 1 .. Len(ps) PROVE Ok(ParamQuestion(ps, m, i))
  <2>1. i \in DOMAIN ps /\ i <= Len(Info(m).params) /\ ps[i].type \in RustType /\ i \in 1 .. Len(Info(m).params)
    BY <1>5, <1>7, TypeOfParam DEF ps
  <2>2. Info(m).params[i].class \in Class
    BY <1>1, <1>6, <2>1, DeclaredIs
  <2>3. Ok(matches_parameter(ps[i], Info(m).params[i]))
    BY <1>1, <1>7, <2>1, <2>2, ExactOk
  <2>4. QED
    BY <2>1, <2>3, Zenon DEF ParamQuestion
<1>10. Ok(matches_return(sig.ret, m))
  <2>1. sig.ret.type \in RustType \cup {Unit} /\ Info(m).ret \in Class
    BY <1>1, <1>5, <1>6, TypeOfParam, DeclaredIs
  <2>2. QED
    BY <1>1, <1>7, <2>1, ExactReturnOk
<1>11. Yes(name, sig, m)
  BY <1>5, <1>7, <1>8, <1>9, <1>10, YesMeans DEF ps
<1>12. k = x
  BY <1>3, <1>4, <1>11, Zenon DEF name, sig
<1>13. QED
  BY <1>3, <1>4, <1>12

-----------------------------------------------------------------------------
\* A class found by a name, or instantiated from one, has that name.
LEMMA ScanNamed ==
  ASSUME Loaded, NEW n, Scan(n) # NoClass
  PROVE  NameOf[Scan(n)] = n
<1>1. loaded \in Nat /\ Having(n, loaded) \in SUBSET Nat /\ Having(n, loaded) # {}
  BY ScanIsFirst, ClassAssumption DEF Having, Loaded, ScanFirst
<1>2. PICK m \in Having(n, loaded) : \A j \in Having(n, loaded) : m <= j
  BY <1>1, LeastNumber
<1>3. (CHOOSE i \in Having(n, loaded) : \A j \in Having(n, loaded) : i <= j) = m
  BY <1>1, <1>2, LeastChosen
<1>4. ScanFirst(n, loaded) = CHOOSE c \in {c \in Image[m] : NameOf[c] = n} : TRUE
  BY <1>1, <1>3, Zenon DEF ScanFirst
<1>5. {c \in Image[m] : NameOf[c] = n} # {}
  BY <1>2 DEF Having
<1>6. ScanFirst(n, loaded) \in {c \in Image[m] : NameOf[c] = n}
  BY <1>4, <1>5, Zenon
<1>7. QED
  BY <1>6, ScanIsFirst

LEMMA OwnNamed ==
  ASSUME Loaded, NEW T \in RustType, Own(T) # NoClass
  PROVE  Own(T) \in Class /\ NameOf[Own(T)] = TypeName[T]
<1> DEFINE n == TypeName[T]  m == TypeName[TypeArg[T]]
<1>1. \A x : Scan(x) # NoClass => Scan(x) \in Class /\ NameOf[Scan(x)] = x
  BY ScanType, ScanNamed DEF Option
<1>2. CASE T \notin GenericType
  BY <1>1, <1>2 DEF Own
<1>3. CASE T \in GenericType
  <2>1. Scan(n) # NoClass /\ Scan(m) # NoClass /\ Own(T) = Instance[<<Scan(n), Scan(m)>>]
    BY <1>3 DEF Own, Made
  <2>2. Scan(n) \in Class /\ Scan(m) \in Class /\ NameOf[Scan(n)] = n
    BY <1>1, <2>1
  <2> DEFINE p == <<Scan(n), Scan(m)>>
  <2>3. p \in Class \X Class /\ p[1] = Scan(n)
    BY <2>2
  <2> HIDE DEF p
  <2>4. Instance[p] \in Class \cup {NoClass} /\ (Instance[p] # NoClass => NameOf[Instance[p]] = NameOf[p[1]])
    BY <2>3, ClassAssumption
  <2>5. QED
    BY <2>1, <2>2, <2>3, <2>4 DEF p
<1>4. QED
  BY <1>2, <1>3

\* What is assignable to a parameter's class is to its declared type's.
LEMMA TakesAssignable ==
  ASSUME Transitive, NEW w \in Class, NEW c \in Class, is_assignable_from(w, c)
  PROVE  \A d \in Class : is_assignable_from(c, d) => is_assignable_from(w, d)
BY DEF Transitive

LEMMA ParamTakes ==
  ASSUME OneArgument, Transitive, ValuesSealed, Loaded,
         NEW ty, ty.type \in RustType, NEW p, p.class \in Class, Ok(matches_parameter(ty, p))
  PROVE  /\ ty.type \in ValueType => (ty.form = "byref") = p.byref /\ p.class = ClassOf(ty)
         /\ \A d \in Class : is_assignable_from(p.class, d) => is_assignable_from(ClassOf(ty), d)
<1> DEFINE q == matches_parameter(ty, p)  T == ty.type  w == Own(T)
<1>1. /\ q.plain = (ty.type \in ValueType => (ty.form = "byref") = p.byref)
      /\ q.type = T /\ q.class = p.class /\ q.returned = FALSE
  BY DEF matches_parameter
<1>2. T # Unit
  BY MetadataAssumption
<1>3. ClassOf(ty) = w
  BY ClassOfIs
<1> HIDE DEF q
<1>4. q.plain /\ w # NoClass /\ is_assignable_from(w, p.class)
  BY <1>1, <1>2, Zenon DEF Ok, Compares, q
<1>5. w \in Class /\ NameOf[w] = TypeName[T]
  BY <1>4, OwnNamed
<1> HIDE DEF w
<1>6. T \in ValueType => p.class = w
  BY <1>4, <1>5 DEF ValuesSealed
<1>7. \A d \in Class : is_assignable_from(p.class, d) => is_assignable_from(w, d)
  BY <1>4, <1>5, TakesAssignable
<1>8. T \in ValueType => (ty.form = "byref") = p.byref
  BY <1>1, <1>4, Zenon
<1>9. QED
  BY <1>3, <1>6, <1>7, <1>8, Zenon

LEMMA ThisTakes ==
  ASSUME OneArgument, Transitive, Loaded, NEW sig, has_this(sig), sig.inputs[1].ty.type \in RustType,
         NEW m, m[1] \in Class, Ok(matches_this_parameter(sig, m))
  PROVE  \A d \in Class : is_assignable_from(m[1], d) => is_assignable_from(ClassOf(sig.inputs[1].ty), d)
<1> DEFINE q == matches_this_parameter(sig, m)  ty == sig.inputs[1].ty  T == ty.type  w == Own(T)
<1>1. q.plain = TRUE /\ q.type = T /\ q.class = m[1] /\ q.returned = FALSE
  <2> HIDE DEF T
  <2>1. q = [Plain(TRUE) EXCEPT !.type = T, !.class = m[1]]
    BY Zenon DEF matches_this_parameter, T
  <2>2. QED
    BY <2>1 DEF Plain
<1>2. T # Unit
  BY MetadataAssumption
<1>3. ClassOf(ty) = w
  BY ClassOfIs
<1> HIDE DEF q
<1>4. w # NoClass /\ is_assignable_from(w, m[1])
  BY <1>1, <1>2, Zenon DEF Ok, Compares, q
<1>5. w \in Class
  BY <1>4, OwnNamed
<1> HIDE DEF w
<1>6. QED
  BY <1>3, <1>4, <1>5, TakesAssignable

LEMMA TargetGivesPassed ==
  ASSUME OneArgument, Transitive, ValuesSealed
  PROVE  TargetInv => ReceivesWhatIsPassed
<1> DEFINE This(h) == IF Info(target[h]).static THEN << >>
                      ELSE <<[class |-> target[h][1], index |-> 0, byref |-> FALSE]>>
<1> SUFFICES ASSUME TargetInv, NEW h \in Installed, has_this(Sig(h)) => ~Info(target[h]).static
             PROVE  /\ Len(original_ty(Sig(h))) = Len(This(h) \o Info(target[h]).params)
                    /\ \A i \in DOMAIN original_ty(Sig(h)) :
                         /\ i > Len(This(h)) /\ original_ty(Sig(h))[i].type \in ValueType
                              => ExactParam(original_ty(Sig(h))[i], (This(h) \o Info(target[h]).params)[i])
                         /\ \A d \in Class :
                              is_assignable_from((This(h) \o Info(target[h]).params)[i].class, d)
                                => is_assignable_from(ClassOf(original_ty(Sig(h))[i]), d)
  BY Zenon DEF ReceivesWhatIsPassed
<1> DEFINE sig == Sig(h)  ps == params_ty(sig)  this == This(h)  L == Len(ps)
           taken == original_ty(sig)  qs == Info(target[h]).params  passed == this \o qs
<1>1. /\ methods \in MethodTables /\ Loaded /\ h \in Compiled
  BY DEF TargetInv, IInv, Installed
<1>2. PICK c \in Class : \E k \in 1 .. Len(methods[c]) :
           target[h] = <<c, k>> /\ Yes(Args(h).method, Sig(h), <<c, k>>)
  BY OnlyYes
<1>3. PICK k \in 1 .. Len(methods[c]) : target[h] = <<c, k>> /\ Yes(Args(h).method, Sig(h), <<c, k>>)
  BY <1>2
<1> DEFINE m == <<c, k>>
<1>4. m \in Declared /\ target[h] = m /\ m[1] = c
  BY <1>1, <1>3, MethodOf
<1>5. Signature(sig)
  BY <1>1, HookIs
<1>6. /\ Ok(matches_this_parameter(sig, m)) /\ Len(qs) = L
      /\ \A i \in 1 .. L : Ok(ParamQuestion(ps, m, i))
  BY <1>3, <1>5, YesMeans
<1>7. /\ L \in Nat /\ DOMAIN ps = 1 .. L /\ \A i \in 1 .. L : ps[i].type \in RustType
      /\ has_this(sig) => sig.inputs[1].ty.type \in RustType
  BY <1>5, TypeOfParam
<1>8. qs \in Seq(Param) /\ Info(m).static \in BOOLEAN /\ \A i \in 1 .. L : qs[i].class \in Class
  <2>1. /\ Info(m).params \in Seq(Param) /\ Info(m).static \in BOOLEAN
        /\ \A i \in 1 .. Len(Info(m).params) : Info(m).params[i].class \in Class
    BY <1>1, <1>4, DeclaredIs
  <2> HIDE DEF m
  <2>2. QED
    BY <1>4, <1>6, <2>1
<1>9. ps \in Seq([form : STRING, type : RustType])
  BY <1>5, ParamsOfSignature
<1>10. Info(target[h]).static = ~has_this(sig)
  <2>1. CASE has_this(sig)
    BY <1>4, <1>8, <2>1, Zenon
  <2>2. CASE ~has_this(sig)
    <3>1. matches_this_parameter(sig, m) = Plain(Info(m).static)
      BY <2>2, Zenon DEF matches_this_parameter
    <3>2. Plain(Info(m).static).plain = Info(m).static
      BY DEF Plain
    <3>3. Info(m).static
      BY <1>6, <3>1, <3>2, Zenon DEF Ok
    <3>4. QED
      BY <1>4, <1>8, <2>2, <3>3, Zenon
  <2>3. QED
    BY <2>1, <2>2
<1>11. ASSUME NEW i \in 1 .. L
       PROVE  /\ ps[i].type \in ValueType => ExactParam(ps[i], qs[i])
              /\ \A d \in Class : is_assignable_from(qs[i].class, d) => is_assignable_from(ClassOf(ps[i]), d)
  <2>1. ParamQuestion(ps, m, i) = matches_parameter(ps[i], qs[i])
    <3>1. i <= Len(Info(m).params)
      BY <1>4, <1>6, <1>7
    <3>2. QED
      BY <1>4, <3>1, Zenon DEF ParamQuestion
  <2>2. ps[i].type \in RustType /\ qs[i].class \in Class /\ Ok(matches_parameter(ps[i], qs[i]))
    BY <1>6, <1>7, <1>8, <2>1, Zenon
  <2> HIDE DEF ps, qs
  <2>3. /\ ps[i].type \in ValueType => (ps[i].form = "byref") = qs[i].byref /\ qs[i].class = ClassOf(ps[i])
        /\ \A d \in Class : is_assignable_from(qs[i].class, d) => is_assignable_from(ClassOf(ps[i]), d)
    BY <1>1, <2>2, ParamTakes
  <2>4. QED
    BY <2>3, Zenon DEF ExactParam
<1>12. CASE has_this(sig)
  <2> DEFINE first == sig.inputs[1].ty  me == [class |-> target[h][1], index |-> 0, byref |-> FALSE]
  <2>1. taken = <<first>> \o ps /\ passed = <<me>> \o qs /\ this = <<me>>
    BY <1>10, <1>12, Zenon DEF original_ty, this_ty
  <2>2. me.class = c
    BY <1>4
  <2>3. \A d \in Class : is_assignable_from(me.class, d) => is_assignable_from(ClassOf(first), d)
    BY <1>1, <1>4, <1>6, <1>7, <1>12, <2>2, ThisTakes
  <2> HIDE DEF ps, qs, taken, passed, this, first, me, L
  <2>4. Len(taken) = L + 1 /\ Len(passed) = L + 1 /\ taken[1] = first /\ passed[1] = me
        /\ (\A i \in 1 .. L : taken[i + 1] = ps[i] /\ passed[i + 1] = qs[i]) /\ DOMAIN taken = 1 .. (L + 1)
    BY <1>6, <1>7, <1>8, <1>9, <2>1 DEF L
  <2>5. Len(this) = 1
    BY <2>1
  <2>6. ASSUME NEW i \in DOMAIN taken
        PROVE  /\ i > Len(this) /\ taken[i].type \in ValueType => ExactParam(taken[i], passed[i])
               /\ \A d \in Class : is_assignable_from(passed[i].class, d) => is_assignable_from(ClassOf(taken[i]), d)
    <3>1. CASE i = 1
      <4>1. ~(i > Len(this))
        BY <2>5, <3>1
      <4>2. QED
        BY <2>3, <2>4, <3>1, <4>1, Zenon
    <3>2. CASE i # 1
      <4>1. PICK j \in 1 .. L : i = j + 1
        <5>1. i - 1 \in 1 .. L /\ i = (i - 1) + 1
          BY <1>7, <2>4, <3>2
        <5>2. QED
          BY <5>1
      <4>2. QED
        BY <1>11, <2>4, <4>1, Zenon
    <3>3. QED
      BY <3>1, <3>2
  <2>7. QED
    BY <2>4, <2>6, Zenon DEF taken, passed, this, qs, sig
<1>13. CASE ~has_this(sig)
  <2>1. taken = << >> \o ps /\ passed = << >> \o qs /\ this = << >>
    BY <1>10, <1>13, Zenon DEF original_ty, this_ty
  <2> HIDE DEF ps, qs, taken, passed, this, L
  <2>2. taken = ps /\ passed = qs
    BY <1>8, <1>9, <2>1
  <2>3. Len(taken) = L /\ Len(passed) = L
    BY <1>6, <2>2 DEF L
  <2>4. QED
    BY <1>7, <1>11, <2>2, <2>3, Zenon DEF taken, passed, this, qs, sig
<1>14. QED
  BY <1>12, <1>13

-----------------------------------------------------------------------------
(***************************************************************************)
(* The lookups by slot and through the vtable.                             *)
(***************************************************************************)

\* What SelectInSeq answers where the index k is the first that fits.
LEMMA FirstFits ==
  ASSUME NEW n \in Nat, NEW I \in SUBSET (1 .. n), NEW k \in I, \A j \in I : k <= j
  PROVE  (IF I # {} THEN Min(I) ELSE 0) = k /\ k # 0
<1>1. I \in SUBSET Nat /\ k # 0
  OBVIOUS
<1>2. Min(I) = k
  BY <1>1, LeastChosen, Zenon DEF Min
<1>3. I # {}
  OBVIOUS
<1>4. QED
  BY <1>1, <1>2, <1>3, Zenon

\* What sequences are flattened to begins with the first of them.
LEMMA FlattenFirst ==
  ASSUME NEW S, NEW ss \in Seq(Seq(S)), Len(ss) > 0, NEW k \in 1 .. Len(ss[1])
  PROVE  k \in 1 .. Len(FlattenSeq(ss)) /\ FlattenSeq(ss)[k] = ss[1][k]
<1> DEFINE n == Len(ss)
           f == CHOOSE g : Flattens(ss, g, n)
           Begins(p) == p \in Seq(S) /\ k \in 1 .. Len(p) /\ p[k] = ss[1][k]
           Good == {j \in 0 .. n : j = 0 \/ Begins(f[j])}
<1>1. FlattenSeq(ss) = f[n]
  <2>1. Len(ss) # 0
    OBVIOUS
  <2>2. QED
    BY <2>1, Zenon DEF FlattenSeq, Flattens, FlattenBody
<1>2. n \in Nat /\ n > 0
  OBVIOUS
<1>3. Flattens(ss, f, n)
  <2> HIDE DEF n
  <2>1. QED
    BY <1>2, FlattenExists, Zenon
<1> HIDE DEF f
<1>4. ASSUME NEW j \in 0 .. (n - 1), j \in Good PROVE j + 1 \in Good
  <2>1. j + 1 \in 1 .. n /\ j + 1 \in 0 .. n
    OBVIOUS
  <2>2. f[j + 1] = FlattenBody(ss, f, j + 1)
    BY <1>3, <2>1, Zenon DEF Flattens
  <2>3. ss[j + 1] \in Seq(S)
    BY <2>1
  <2>4. CASE j = 0
    <3>1. f[j + 1] = ss[1]
      BY <2>2, <2>4 DEF FlattenBody
    <3>2. ss[1] \in Seq(S)
      BY <2>3, <2>4
    <3>3. QED
      BY <2>1, <3>1, <3>2
  <2>5. CASE j # 0
    <3>1. f[j + 1] = f[j] \o ss[j + 1]
      <4>1. (j + 1) - 1 = j /\ j + 1 # 1
        BY <2>5
      <4>2. QED
        BY <2>2, <4>1 DEF FlattenBody
    <3>2. Begins(f[j])
      BY <1>4, <2>5
    <3> DEFINE p == f[j]  q == ss[j + 1]  first == ss[1][k]
    <3> HIDE DEF n, p, q, first
    <3>3. p \in Seq(S) /\ q \in Seq(S) /\ k \in 1 .. Len(p) /\ p[k] = first
      BY <2>3, <3>2 DEF p, q, first
    <3>4. p \o q \in Seq(S) /\ k \in 1 .. Len(p \o q) /\ (p \o q)[k] = first
      BY <3>3
    <3>5. Begins(f[j + 1])
      BY <3>1, <3>4 DEF p, q, first
    <3>6. QED
      BY <2>1, <3>5
  <2>6. QED
    BY <2>4, <2>5
<1>5. n \in Good
  <2>1. 0 \in Good
    BY <1>2
  <2> HIDE DEF Good, n
  <2>2. \A j \in 0 .. n : j \in Good
    BY <1>2, <1>4, <2>1, Upwards
  <2>3. QED
    BY <1>2, <2>2
<1>6. QED
  BY <1>1, <1>2, <1>5

\* A class's own methods are the first of those that it has or inherits.
LEMMA OwnMethodsFirst ==
  ASSUME methods \in MethodTables, NEW c \in Class, NEW k \in 1 .. Len(methods[c])
  PROVE  k \in 1 .. Len(hierarchy_methods(c)) /\ hierarchy_methods(c)[k] = <<c, k>>
<1> DEFINE h == hierarchy[c]
           of(i) == [j \in 1 .. Len(methods[h[i]]) |-> <<h[i], j>>]
           ss == [i \in 1 .. Len(h) |-> of(i)]
<1>1. h \in Seq(Class) /\ Len(h) > 0 /\ Len(h) \in Nat /\ h[1] = c
  BY HierarchyType
<1> HIDE DEF h
<1>2. ASSUME NEW i \in 1 .. Len(h) PROVE of(i) \in Seq(Declared)
  <2>1. h[i] \in Class
    BY <1>1
  <2>2. Len(methods[h[i]]) \in Nat /\ \A j \in 1 .. Len(methods[h[i]]) : <<h[i], j>> \in Declared
    BY <2>1, MethodOf
  <2>3. QED
    BY <2>2
<1>3. Len(of(1)) = Len(methods[c]) /\ of(1)[k] = <<c, k>>
  <2>1. Len(methods[c]) \in Nat
    BY MethodOf
  <2>2. QED
    BY <1>1, <2>1
<1> HIDE DEF of
<1>4. ss \in Seq(Seq(Declared)) /\ Len(ss) > 0 /\ ss[1] = of(1)
  BY <1>1, <1>2
<1> HIDE DEF ss
<1>5. k \in 1 .. Len(FlattenSeq(ss)) /\ FlattenSeq(ss)[k] = <<c, k>>
  BY <1>3, <1>4, FlattenFirst
<1>6. hierarchy_methods(c) = FlattenSeq(ss)
  BY Zenon DEF of, h, ss, hierarchy_methods
<1>7. QED
  BY <1>5, <1>6

\* A class that is no interface inherits from none.
LEMMA NoInterfaceAbove ==
  ASSUME VtableLayout, NEW c \in Class \ Interface, NEW d \in ToSet(hierarchy[c])
  PROVE  d \notin Interface
<1> DEFINE None(s) == \A i \in DOMAIN s : s[i] \notin Interface
           S == {e \in Class : e \in Interface \/ None(hierarchy[e])}
<1>1. ASSUME NEW e \in Class, Parent[e] = NoClass \/ Parent[e] \in S PROVE e \in S
  <2> SUFFICES ASSUME e \notin Interface PROVE None(hierarchy[e])
    OBVIOUS
  <2> DEFINE rest == IF Parent[e] = NoClass THEN << >> ELSE hierarchy[Parent[e]]
  <2>1. Parent[e] \notin Interface
    BY DEF VtableLayout
  <2>2. None(rest)
    BY <1>1, <2>1
  <2>3. rest \in Seq(Class)
    BY <1>1, HierarchyType
  <2>4. hierarchy[e] = <<e>> \o rest
    BY HierarchyIs
  <2> HIDE DEF rest
  <2>5. ASSUME NEW i \in DOMAIN (<<e>> \o rest) PROVE (<<e>> \o rest)[i] \notin Interface
    <3>1. i = 1 \/ i - 1 \in DOMAIN rest
      BY <2>3
    <3>2. (<<e>> \o rest)[i] = IF i = 1 THEN e ELSE rest[i - 1]
      BY <2>3
    <3>3. QED
      BY <2>2, <3>1, <3>2
  <2>6. QED
    BY <2>4, <2>5
<1>2. c \in S
  <2> HIDE DEF S
  <2>1. QED
    BY <1>1, Downwards
<1>3. QED
  BY <1>2 DEF ToSet

\* The method that a class declares for a slot.
Declares(c, k, s) ==
  /\ methods \in MethodTables /\ c \in Class \ Interface /\ k \in 1 .. Len(methods[c])
  /\ methods[c][k].slot = s /\ s # NonVirtual

LEMMA OneForSlot ==
  ASSUME VtableLayout, NEW c, NEW k, NEW s, Declares(c, k, s),
         NEW j \in 1 .. Len(methods[c]), methods[c][j].slot = s
  PROVE  j = k
<1>1. k \in DOMAIN methods[c] /\ j \in DOMAIN methods[c] /\ c \in Class /\ methods \in MethodTables
  BY MethodOf DEF Declares
<1>2. methods[c][j].slot = methods[c][k].slot => j = k \/ methods[c][j].slot = NonVirtual
  BY <1>1, Zenon DEF VtableLayout
<1>3. QED
  BY <1>2 DEF Declares

LEMMA SlotIs ==
  ASSUME VtableLayout, NEW c, NEW k, NEW s, Declares(c, k, s)
  PROVE  find_method_by_slot(c, s) = <<c, k>>
<1> DEFINE n == Len(methods[c])
           I == {j \in 1 .. n : methods[c][j].slot = s}
           first == IF I # {} THEN Min(I) ELSE 0
<1>1. n \in Nat /\ k \in 1 .. n /\ I \in SUBSET (1 .. n) /\ k \in I
  BY MethodOf DEF Declares
<1>2. \A j \in I : k <= j
  <2>1. \A j \in I : j = k
    BY OneForSlot
  <2>2. QED
    BY <1>1, <2>1
<1>3. find_method_by_slot(c, s) = IF first = 0 THEN NoMethod ELSE <<c, first>>
  BY Zenon DEF find_method_by_slot, SelectInSeq
<1> HIDE DEF I, n
<1>4. first = k /\ first # 0
  BY <1>1, <1>2, FirstFits
<1>5. QED
  BY <1>3, <1>4, Zenon

\* The methods of interfaces that stand at a position of a class's vtable.
At(c, s) == {x \in Interface \X (1 .. s + 1) :
               /\ <<c, x[1]>> \in DOMAIN Offset /\ Offset[<<c, x[1]>>] + x[2] - 1 = s
               /\ x[2] \in DOMAIN methods[x[1]]}

LEMMA VtableIs ==
  ASSUME VtableLayout, NEW c, NEW k, NEW s, Declares(c, k, s)
  PROVE  vtable(c, s) \in {<<c, k>>} \cup At(c, s)
<1> DEFINE hm == hierarchy_methods(c)
           n == Len(hm)
           I == {j \in 1 .. n : Info(hm[j]).slot = s /\ hm[j][1] \notin Interface}
           m == IF I # {} THEN Min(I) ELSE 0
<1>1. methods \in MethodTables /\ c \in Class /\ c \notin Interface /\ k \in 1 .. Len(methods[c])
      /\ Len(methods[c]) \in Nat
  BY MethodOf DEF Declares
<1>2. ASSUME NEW j \in 1 .. Len(methods[c]) PROVE j \in 1 .. n /\ hm[j] = <<c, j>>
  BY <1>1, OwnMethodsFirst
<1>3. n \in Nat
  <2>1. hm \in Seq(Declared)
    BY <1>1, HierarchyMethodsType
  <2> HIDE DEF hm
  <2>2. QED
    BY <2>1
<1>4. vtable(c, s) = IF m = 0 \/ s = NonVirtual THEN NoMethod
                     ELSE IF ~Info(hm[m]).code /\ At(c, s) # {} THEN CHOOSE x \in At(c, s) : TRUE
                     ELSE hm[m]
  BY Zenon DEF vtable, SelectInSeq, At
<1> HIDE DEF hm, n
<1>5. k \in I
  <2>1. k \in 1 .. n /\ hm[k] = <<c, k>>
    BY <1>1, <1>2
  <2>2. Info(hm[k]).slot = s /\ hm[k][1] \notin Interface
    BY <1>1, <2>1 DEF Info, Declares
  <2>3. QED
    BY <2>1, <2>2
<1>6. \A j \in I : k <= j
  <2> SUFFICES ASSUME NEW j \in I, ~(k <= j) PROVE FALSE
    OBVIOUS
  <2>1. j \in 1 .. Len(methods[c])
    BY <1>1, <1>3
  <2>2. hm[j] = <<c, j>>
    BY <1>2, <2>1
  <2>3. methods[c][j].slot = s
    BY <2>2 DEF Info
  <2>4. j = k
    BY <2>1, <2>3, OneForSlot
  <2>5. QED
    BY <1>1, <2>4
<1>7. m = k /\ m # 0
  <2>1. I \in SUBSET (1 .. n)
    OBVIOUS
  <2> HIDE DEF I
  <2>2. QED
    BY <1>3, <1>5, <1>6, <2>1, FirstFits
<1>8. hm[m] = <<c, k>>
  BY <1>1, <1>2, <1>7
<1>9. s # NonVirtual
  BY DEF Declares
<1> HIDE DEF m
<1>10. QED
  BY <1>4, <1>7, <1>8, <1>9, Zenon

\* An interface's method at a class's slot has another slot in its interface, and is
\* the only one there.
LEMMA AtIs ==
  ASSUME VtableLayout, NEW c, NEW k, NEW s, Declares(c, k, s), NEW x \in At(c, s)
  PROVE  /\ x # NoMethod /\ Info(x).slot # s
         /\ \A i \in Interface : \A n \in DOMAIN methods[i] :
              <<c, i>> \in DOMAIN Offset /\ s = Offset[<<c, i>>] + n - 1 => x = <<i, n>>
<1> DEFINE j == x[1]  l == x[2]  p == <<c, j>>
<1>1. /\ x = <<j, l>> /\ j \in Interface /\ p \in DOMAIN Offset /\ Offset[p] + l - 1 = s
      /\ l \in DOMAIN methods[j]
  <2>1. x \in Interface \X (1 .. s + 1)
    BY Zenon DEF At
  <2>2. x = <<j, l>> /\ j \in Interface
    BY <2>1
  <2>3. p \in DOMAIN Offset /\ Offset[p] + l - 1 = s /\ l \in DOMAIN methods[j]
    BY Zenon DEF At
  <2>4. QED
    BY <2>2, <2>3
<1>2. methods \in MethodTables /\ Interface \subseteq Class /\ NoMethod \notin Class \X Nat
      /\ c \in Class /\ s # NonVirtual
  BY MetadataAssumption DEF Declares
<1>3. j \in Class
  BY <1>1, <1>2
<1>4. Len(methods[j]) \in Nat /\ l \in 1 .. Len(methods[j])
  BY <1>1, <1>2, <1>3, MethodOf
<1>5. Offset[p] \in Nat /\ Offset[p] > 0
  BY <1>1, OffsetAssumption DEF VtableLayout
<1>6. x # NoMethod
  <2>1. <<j, l>> \in Class \X Nat
    BY <1>3, <1>4
  <2>2. QED
    BY <1>1, <1>2, <2>1
<1>7. Info(x).slot # s
  <2>1. methods[j][l].slot \in {l - 1, NonVirtual}
    BY <1>1, <1>2, Zenon DEF VtableLayout
  <2>2. Info(x) = methods[j][l]
    BY Zenon DEF Info
  <2>3. l - 1 # s
    BY <1>1, <1>4, <1>5
  <2>4. QED
    BY <1>2, <2>1, <2>2, <2>3
<1>8. ASSUME NEW i \in Interface, NEW n \in DOMAIN methods[i],
             <<c, i>> \in DOMAIN Offset, s = Offset[<<c, i>>] + n - 1
      PROVE  x = <<i, n>>
  <2> DEFINE q == <<c, i>>
  <2>1. n \in Nat /\ i \in Class
    BY <1>2, MethodOf
  <2>2. Offset[q] \in Nat
    BY <1>8, OffsetAssumption
  <2>3. Offset[p] + l = Offset[q] + n
    <3> DEFINE a == Offset[p]  b == Offset[q]
    <3>1. a \in Nat /\ b \in Nat /\ l \in Nat /\ a + l - 1 = s /\ b + n - 1 = s
      BY <1>1, <1>4, <1>5, <1>8, <2>2
    <3> HIDE DEF a, b, l
    <3>2. a + l = b + n
      BY <2>1, <3>1
    <3>3. QED
      BY <3>2 DEF a, b
  <2>4. p[1] = c /\ p[2] = j /\ q[1] = c /\ q[2] = i
    OBVIOUS
  <2>5. p = q
    <3>1. l \in DOMAIN methods[p[2]] /\ n \in DOMAIN methods[q[2]] /\ p[1] = q[1] /\ q \in DOMAIN Offset
      BY <1>1, <1>8, <2>4
    <3> HIDE DEF p, q, l
    <3>2. \A table \in MethodTables : \A a \in DOMAIN table[p[2]], b \in DOMAIN table[q[2]] :
            p[1] = q[1] /\ Offset[p] + a = Offset[q] + b => p = q
      BY <1>1, <3>1, Zenon DEF VtableLayout
    <3>3. \A a \in DOMAIN methods[p[2]], b \in DOMAIN methods[q[2]] :
            p[1] = q[1] /\ Offset[p] + a = Offset[q] + b => p = q
      BY <1>2, <3>2
    <3>4. QED
      BY <2>3, <3>1, <3>3, Zenon
  <2>6. j = i
    BY <2>4, <2>5
  <2>7. l = n
    BY <1>4, <1>5, <2>1, <2>3, <2>5
  <2>8. QED
    BY <1>1, <2>6, <2>7
<1>9. QED
  BY <1>6, <1>7, <1>8

\* A virtual method is found by its slot, and through the vtable by whichever class
\* of the hierarchy or interface.
LEMMA VirtualIsFound ==
  ASSUME VtableLayout, NEW c, NEW k, NEW s, Declares(c, k, s)
  PROVE  /\ \A d \in ToSet(hierarchy[c]) : find_method_by_vtable(c, d, s) = <<c, k>>
         /\ \A i \in Interface : \A n \in DOMAIN methods[i] :
              <<c, i>> \in DOMAIN Offset /\ s = Offset[<<c, i>>] + n - 1 =>
                find_method_by_vtable(c, i, n - 1) \in {<<c, k>>, <<i, n>>}
<1>1. vtable(c, s) \in {<<c, k>>} \cup At(c, s) /\ find_method_by_slot(c, s) = <<c, k>>
  BY VtableIs, SlotIs
<1>2. /\ c \in Class \ Interface /\ methods \in MethodTables /\ Interface \subseteq Class
      /\ Info(<<c, k>>).slot = s
  BY MetadataAssumption DEF Declares, Info
<1>3. ASSUME NEW d \in ToSet(hierarchy[c]) PROVE find_method_by_vtable(c, d, s) = <<c, k>>
  <2> DEFINE m == vtable(c, s)
  <2>1. d \notin Interface
    BY <1>2, NoInterfaceAbove
  <2>2. find_method_by_vtable(c, d, s) =
          IF m # NoMethod /\ Info(m).slot # s THEN find_method_by_slot(c, s) ELSE m
    BY <2>1, Zenon DEF find_method_by_vtable
  <2> HIDE DEF m
  <2>3. CASE m = <<c, k>>
    BY <1>2, <2>2, <2>3, Zenon
  <2>4. CASE m \in At(c, s)
    <3>1. m # NoMethod /\ Info(m).slot # s
      BY <2>4, AtIs
    <3>2. QED
      BY <1>1, <2>2, <3>1, Zenon
  <2>5. QED
    BY <1>1, <2>3, <2>4 DEF m
<1>4. ASSUME NEW i \in Interface, NEW n \in DOMAIN methods[i],
             <<c, i>> \in DOMAIN Offset, s = Offset[<<c, i>>] + n - 1
      PROVE  find_method_by_vtable(c, i, n - 1) \in {<<c, k>>, <<i, n>>}
  <2>1. n \in Nat /\ Offset[<<c, i>>] \in Nat
    BY <1>2, <1>4, MethodOf, OffsetAssumption
  <2>2. Offset[<<c, i>>] + (n - 1) = s
    BY <1>4, <2>1
  <2>3. find_method_by_vtable(c, i, n - 1) = vtable(c, s)
    BY <1>4, <2>2, Zenon DEF find_method_by_vtable
  <2>4. \A x \in At(c, s) : x = <<i, n>>
    BY <1>4, AtIs
  <2>5. QED
    BY <1>1, <2>3, <2>4
<1>5. QED
  BY <1>3, <1>4

\* What the name and the count of parameters leave has every method of the class
\* itself that they fit.
LEMMA OwnIsLeft ==
  ASSUME methods \in MethodTables, NEW c \in Class, NEW k \in 1 .. Len(methods[c]), NEW name, NEW count,
         Info(<<c, k>>).name = name, Len(Info(<<c, k>>).params) = count
  PROVE  <<c, k>> \in find_method_unchecked(c, name, count)
<1> DEFINE Here(d) == {j \in DOMAIN methods[d] : Info(<<d, j>>).name = name /\ Len(Info(<<d, j>>).params) = count}
           h == hierarchy[c]
           I == {j \in 1 .. Len(h) : Here(h[j]) # {}}
           i == IF I # {} THEN Min(I) ELSE 0
<1>1. h \in Seq(Class) /\ Len(h) > 0 /\ Len(h) \in Nat /\ h[1] = c
  BY HierarchyType
<1>2. k \in Here(c)
  BY MethodOf
<1>3. find_method_unchecked(c, name, count) = IF i = 0 THEN {} ELSE {<<h[i], j>> : j \in Here(h[i])}
  BY Zenon DEF find_method_unchecked, SelectInSeq
<1> HIDE DEF h, Here
<1>4. 1 \in I /\ I \in SUBSET (1 .. Len(h)) /\ \A j \in I : 1 <= j
  BY <1>1, <1>2
<1> HIDE DEF I
<1>5. i = 1 /\ i # 0
  BY <1>1, <1>4, FirstFits
<1> HIDE DEF i
<1>6. h[i] = c
  BY <1>1, <1>5
<1>7. QED
  BY <1>2, <1>3, <1>5, <1>6, Zenon

LEMMA TargetGivesAgree == ASSUME OneArgument, VtableLayout PROVE TargetInv => LookupsAgree
<1> SUFFICES ASSUME TargetInv PROVE LookupsAgree
  OBVIOUS
<1>1. methods \in MethodTables
  BY DEF TargetInv
<1>2. ASSUME NEW h \in Installed
      PROVE  target[h] \in find_method_unchecked(target[h][1], Args(h).method, Len(params_ty(Sig(h))))
  <2> DEFINE name == Args(h).method  sig == Sig(h)
  <2>1. PICK c \in Class : \E k \in 1 .. Len(methods[c]) :
           target[h] = <<c, k>> /\ Yes(Args(h).method, Sig(h), <<c, k>>)
    BY OnlyYes
  <2>2. PICK k \in 1 .. Len(methods[c]) : target[h] = <<c, k>> /\ Yes(name, sig, <<c, k>>)
    BY <2>1
  <2>3. Signature(sig)
    BY HookIs DEF Installed
  <2> HIDE DEF sig, name
  <2>4. Info(<<c, k>>).name = name /\ Len(Info(<<c, k>>).params) = Len(params_ty(sig))
    BY <2>2, <2>3, YesMeans
  <2>5. <<c, k>> \in find_method_unchecked(c, name, Len(params_ty(sig)))
    BY <1>1, <2>4, OwnIsLeft
  <2>6. target[h] = <<c, k>> /\ target[h][1] = c
    BY <2>2
  <2>7. QED
    BY <2>5, <2>6, Zenon DEF sig, name
<1>3. ASSUME NEW c \in Class \ Interface, NEW k \in DOMAIN methods[c], methods[c][k].slot # NonVirtual
      PROVE  Declares(c, k, methods[c][k].slot)
  BY <1>1, <1>3, MethodOf DEF Declares
<1>4. QED
  BY <1>2, <1>3, SlotIs, VirtualIsFound, Zenon DEF LookupsAgree

-----------------------------------------------------------------------------
(***************************************************************************)
(* A hook that reports success is on a declared method of a class that has *)
(* code, also where Type::class mixes up the instantiations of a generic   *)
(* type.                                                                   *)
(***************************************************************************)
THEOREM TargetHasCode == TargetSpec => []TargetTypeOK
<1>1. TargetInit => TargetInv
  BY TargetFirst
<1>2. TargetInv /\ [TargetNext]_targetVars => TargetInv'
  BY TargetOn
<1>3. TargetInv => TargetTypeOK
  BY TargetGivesType
<1>4. QED
  BY <1>1, <1>2, <1>3, PTL DEF TargetSpec

(***************************************************************************)
(* Which method a hook is installed on does not depend on what threads     *)
(* found, failed to find or loaded before, and assemblies that are loaded  *)
(* afterwards do not make it another: a check that was answered stays      *)
(* answered, and only one that panicked can still turn out either way.     *)
(***************************************************************************)
THEOREM HistoryDoesNotMatter ==
  ASSUME OneArgument
  PROVE  TargetSpec => []AnswerIsFresh
<1>1. TargetInit => TargetInv
  BY TargetFirst
<1>2. TargetInv /\ [TargetNext]_targetVars => TargetInv'
  BY TargetOn
<1>3. TargetInv => AnswerIsFresh
  BY TargetGivesFresh
<1>4. QED
  BY <1>1, <1>2, <1>3, PTL DEF TargetSpec

(***************************************************************************)
(* A hook declared exactly as an overload of the class it is installed on  *)
(* is installed on that overload: the others that only are compatible with *)
(* it make the lookup fail.                                                *)
(***************************************************************************)
THEOREM NoOverloadMistaken ==
  ASSUME OneArgument
  PROVE  TargetSpec => []OwnOverload
<1>1. TargetInit => TargetInv
  BY TargetFirst
<1>2. TargetInv /\ [TargetNext]_targetVars => TargetInv'
  BY TargetOn
<1>3. TargetInv => OwnOverload
  BY TargetGivesOwn
<1>4. QED
  BY <1>1, <1>2, <1>3, PTL DEF TargetSpec

(***************************************************************************)
(* Where assignability is transitive and nothing derives from a value      *)
(* type, the native function of an installed hook is passed what its       *)
(* declared types say, one by one, `this` included.                        *)
(***************************************************************************)
THEOREM PassedAsDeclared ==
  ASSUME OneArgument, Transitive, ValuesSealed
  PROVE  TargetSpec => []ReceivesWhatIsPassed
<1>1. TargetInit => TargetInv
  BY TargetFirst
<1>2. TargetInv /\ [TargetNext]_targetVars => TargetInv'
  BY TargetOn
<1>3. TargetInv => ReceivesWhatIsPassed
  BY TargetGivesPassed
<1>4. QED
  BY <1>1, <1>2, <1>3, PTL DEF TargetSpec

(***************************************************************************)
(* Where vtables are laid out as il2cpp's are, the method that a hook is   *)
(* on is one that its name and count leave, and a class's own method for a *)
(* slot is what the slot finds and what the vtable leads to, whichever     *)
(* base class or interface the slot is given by.                           *)
(***************************************************************************)
THEOREM LookupsAlwaysAgree ==
  ASSUME OneArgument, VtableLayout
  PROVE  TargetSpec => []LookupsAgree
<1>1. TargetInit => TargetInv
  BY TargetFirst
<1>2. TargetInv /\ [TargetNext]_targetVars => TargetInv'
  BY TargetOn
<1>3. TargetInv => LookupsAgree
  BY TargetGivesAgree
<1>4. QED
  BY <1>1, <1>2, <1>3, PTL DEF TargetSpec

=============================================================================
