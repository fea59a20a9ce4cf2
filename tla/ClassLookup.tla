---------------------------- MODULE ClassLookup -----------------------------
(***************************************************************************)
(* How libil2cpp finds classes: Il2CppClass::find and find_generic         *)
(* (class.rs), the class of a Rust type, Type::class (typecheck/ty.rs and  *)
(* the getter that unsafe_impl_reference_type! and unsafe_impl_value_type! *)
(* generate, proc_macros/src/impl_type.rs), and the state those keep: a    *)
(* class cache per thread and one OnceLock per generic Rust type.          *)
(*                                                                         *)
(* A namespace and a name together are a member of Name.  A Rust type has  *)
(* at most one generic argument, itself not generic.                       *)
(*                                                                         *)
(* External (the il2cpp runtime, as class.rs uses it): assemblies are      *)
(* loaded one after the other and never unloaded; an assembly without an   *)
(* image is one with no classes; an instantiation of a generic class is    *)
(* made once and has the name of the class it is made from.                *)
(***************************************************************************)
EXTENDS Naturals, Sequences, FiniteSets, TLC

CONSTANTS
  Thread,
  Class, NoClass,
  Name,        \* namespaces with names
  NameOf,      \* each class's
  Image,       \* the classes each assembly defines, in the order they load
  Instance,    \* <<generic class, argument>> -> the class made from them, if any
  Sought,      \* the names looked for directly: a bound
  RustType, NoType,
  TypeName,    \* NAMESPACE and CLASS_NAME of each Rust type
  TypeArg      \* a generic Rust type's argument, or NoType

GenericType == {T \in RustType : TypeArg[T] # NoType}
GenericName == {TypeName[T] : T \in GenericType}

ASSUME ClassAssumption ==
  /\ NoClass \notin Class /\ NoType \notin RustType
  /\ NameOf \in [Class -> Name]
  /\ Instance \in [Class \X Class -> Class \cup {NoClass}]
  /\ \A p \in Class \X Class : Instance[p] # NoClass => NameOf[Instance[p]] = NameOf[p[1]]
  /\ Image \in Seq(SUBSET Class) /\ Sought \subseteq Name
  /\ TypeName \in [RustType -> Name]
  /\ TypeArg \in [RustType -> RustType \cup {NoType}]
  /\ \A T \in GenericType : TypeArg[T] \notin GenericType

VARIABLES
  loaded,        \* how many assemblies il2cpp has loaded
  CLASS_CACHE,   \* what each thread has found
  CLASS          \* the OnceLock of each generic Rust type, NoClass while empty

classVars == <<loaded, CLASS_CACHE, CLASS>>

ClassTypeOK ==
  /\ loaded \in 0 .. Len(Image)
  /\ \A t \in Thread : /\ DOMAIN CLASS_CACHE[t] \subseteq Name
                       /\ \A n \in DOMAIN CLASS_CACHE[t] : CLASS_CACHE[t][n] \in Class
  /\ CLASS \in [GenericName -> Class \cup {NoClass}]

ClassInit ==
  /\ loaded = 0
  /\ CLASS_CACHE = [t \in Thread |-> << >>]
  /\ CLASS = [n \in GenericName |-> NoClass]

-----------------------------------------------------------------------------
(***************************************************************************)
(* A lookup runs to its end without another thread seeing anything of it   *)
(* but the OnceLock.  It is a function on what it can change: the thread's *)
(* cache and the OnceLocks, with the class it answers (NoClass for None,   *)
(* or for a panic where the caller unwraps it).                            *)
(***************************************************************************)
View(t) == [cache |-> CLASS_CACHE[t], cells |-> CLASS, class |-> NoClass]

Keep(t, v) ==
  /\ CLASS_CACHE' = [CLASS_CACHE EXCEPT ![t] = v.cache]
  /\ CLASS' = v.cells

\* Slip: the assemblies are searched from the newest to the oldest.
ScanBackwards(n) ==
  LET Hit(i) == {c \in Image[i] : NameOf[c] = n}
      hits   == {i \in 1 .. loaded : Hit(i) # {}}
  IN IF hits = {} THEN NoClass
     ELSE CHOOSE c \in Hit(CHOOSE i \in hits : \A j \in hits : i >= j) : TRUE

\* class_from_name over the assemblies in order; a miss is not remembered.
Scan(n) ==
  LET Hit(i) == {c \in Image[i] : NameOf[c] = n}
      hits   == {i \in 1 .. loaded : Hit(i) # {}}
  IN IF hits = {} THEN NoClass
     ELSE CHOOSE c \in Hit(CHOOSE i \in hits : \A j \in hits : i <= j) : TRUE

With(cache, n, c) == [k \in DOMAIN cache \cup {n} |-> IF k = n THEN c ELSE cache[k]]

find(v, n) ==
  LET c == IF n \in DOMAIN v.cache THEN v.cache[n] ELSE Scan(n)
  IN [v EXCEPT !.class = c, !.cache = IF c = NoClass THEN @ ELSE With(@, n, c)]

\* `def` is instantiated with the class of the Rust type T.
make_generic(v, def, T) ==
  LET arg == find(v, TypeName[T])
  IN [arg EXCEPT !.class = IF @ = NoClass THEN NoClass ELSE Instance[<<def, @>>]]

find_generic(v, n, T) ==
  LET def == find(v, n)
  IN IF def.class = NoClass THEN def ELSE make_generic(def, def.class, T)

\* Slip: the getter stops at the generic definition.
classOfDefinition(v, T) ==
  LET d == find(v, TypeName[T])
  IN IF T \notin GenericType THEN d ELSE [d EXCEPT !.cells[TypeName[T]] = d.class]

\* Type::class.  For a generic type it is computed by get_or_init, on a cell
\* that belongs to the impl, not to the instantiation; a panic in it leaves the
\* cell empty.
class(v, T) ==
  LET n == TypeName[T] IN
  IF T \notin GenericType THEN find(v, n)
  ELSE IF v.cells[n] # NoClass THEN [v EXCEPT !.class = v.cells[n]]
  ELSE LET g == find_generic(v, n, TypeArg[T]) IN [g EXCEPT !.cells[n] = g.class]

-----------------------------------------------------------------------------
LoadAssembly == loaded < Len(Image) /\ loaded' = loaded + 1 /\ UNCHANGED <<CLASS_CACHE, CLASS>>

Find(t, n) == Keep(t, find(View(t), n)) /\ UNCHANGED loaded

FindGeneric(t, n, T) == Keep(t, find_generic(View(t), n, T)) /\ UNCHANGED loaded

TypeClass(t, T) == Keep(t, class(View(t), T)) /\ UNCHANGED loaded

ClassNext ==
  \/ LoadAssembly
  \/ \E t \in Thread : \/ \E n \in Sought : Find(t, n)
                       \/ \E T \in GenericType : \/ FindGeneric(t, TypeName[T], TypeArg[T])
                                                 \/ TypeClass(t, T)

-----------------------------------------------------------------------------
\* A class a thread has cached is the one a search of every assembly loaded
\* since would find: loading assemblies never makes the cache stale.
CachedClassIsFirst ==
  \A t \in Thread : \A n \in DOMAIN CLASS_CACHE[t] : CLASS_CACHE[t][n] = Scan(n)

\* What Type::class keeps for a generic Rust type is the class of that very type,
\* the definition instantiated with the class of its argument: what
\* Il2CppClass::instantiate asserts of its T.
TypeClassIsOwn ==
  \A T \in GenericType :
    LET def == Scan(TypeName[T])
        arg == Scan(TypeName[TypeArg[T]])
    IN NoClass \notin {def, arg} => CLASS[TypeName[T]] \in {NoClass, Instance[<<def, arg>>]}

-----------------------------------------------------------------------------
\* Supposed of a program where it is said so: every generic impl is used with one
\* argument.
OneArgument ==
  \A T, U \in GenericType : TypeName[T] = TypeName[U] => TypeArg[T] = TypeArg[U]

=============================================================================
