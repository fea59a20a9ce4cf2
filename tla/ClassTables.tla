---------------------------- MODULE ClassTables -----------------------------
(***************************************************************************)
(* The metadata that the method lookups of class.rs read: the methods of a *)
(* class, its base classes and what il2cpp says of assignability.          *)
(*                                                                         *)
(* A method is <<class, position>> in the table of the class's methods.    *)
(***************************************************************************)
EXTENDS ClassLookup, SequencesExt

CONSTANTS
  Parent,        \* the class each class inherits from, or NoClass
  Interface,     \* the classes that are interfaces
  Assignable,    \* <<to, from>>: what class_is_assignable_from answers (external)
  ValueType,     \* the Rust types that are C# value types
  Void, Unit,    \* the class System.Void and the Rust type ()
  MethodTables,  \* the ways to declare methods that are looked at
  NoMethod

\* index: which generic parameter of the method types it, 0 for none.
\* slot: the method's place in the vtable; code: whether methodPointer is set.
Param  == [class : Class, index : Nat, byref : BOOLEAN]
Method == [name : STRING, static : BOOLEAN, params : Seq(Param), generics : Nat,
           ret : Class, slot : Nat, code : BOOLEAN]

ASSUME MetadataAssumption ==
  /\ Parent \in [Class -> Class \cup {NoClass}]
  /\ \A S \in SUBSET Class : S # {} => \E c \in S : Parent[c] \notin S
  /\ Interface \subseteq Class /\ Assignable \subseteq Class \X Class
  /\ ValueType \subseteq RustType /\ Void \in Class /\ Unit \notin RustType
  /\ MethodTables \subseteq [Class -> Seq(Method)] /\ NoMethod \notin Class \X Nat

VARIABLE methods    \* the methods of each class: chosen at the start, never changed

hierarchy[c \in Class] ==
  <<c>> \o IF Parent[c] = NoClass THEN << >> ELSE hierarchy[Parent[c]]

hierarchy_methods(c) ==
  FlattenSeq([i \in 1 .. Len(hierarchy[c]) |->
     [k \in 1 .. Len(methods[hierarchy[c][i]]) |-> <<hierarchy[c][i], k>>]])

Info(m) == methods[m[1]][m[2]]

is_assignable_from(c, other) == c = other \/ <<c, other>> \in Assignable

=============================================================================
