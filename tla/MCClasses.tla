---------------------------- MODULE MCClasses -------------------------------
(***************************************************************************)
(* A small il2cpp world: C derives from B from A from Object, A implements *)
(* the interface I, List<A> and List<B> are instantiations of List and the *)
(* last assembly has a second class of B's name.                           *)
(***************************************************************************)
EXTENDS ClassTables

MCClass == {"Object", "A", "B", "C", "I", "Int", "Void", "List", "List<A>", "List<B>", "B2"}

MCNameOf == [c \in MCClass |-> IF c = "B2" THEN "B"
                               ELSE IF c \in {"List<A>", "List<B>"} THEN "List" ELSE c]

MCImage == <<{"Object", "A", "I", "Int", "Void", "List"}, {}, {"B", "C"}, {"B2"}>>

MCInstance == [p \in MCClass \X MCClass |-> CASE p = <<"List", "A">> -> "List<A>"
                                              [] p = <<"List", "B">> -> "List<B>"
                                              [] OTHER -> "none"]

MCParent == [c \in MCClass |-> CASE c \in {"Object", "I"} -> "none"
                                 [] c = "B" -> "A"
                                 [] c = "C" -> "B"
                                 [] OTHER -> "Object"]

MCAssignable ==
  {<<to, from>> \in MCClass \X MCClass :
     \/ to \in ToSet(hierarchy[from])
     \/ to = "Object"
     \/ to = "I" /\ "A" \in ToSet(hierarchy[from])}

\* The Rust types: a class's own, i32, and List<A>, List<B>.
MCRustType == {"Object", "A", "B", "C", "Int", "List<A>", "List<B>"}
MCTypeName == [T \in MCRustType |-> IF T \in {"List<A>", "List<B>"} THEN "List" ELSE T]
MCTypeArg  == [T \in MCRustType |-> IF T = "List<A>" THEN "A" ELSE IF T = "List<B>" THEN "B" ELSE "none"]

\* The Rust types of a program that instantiates List once.
OneList == MCRustType \ {"List<B>"}
OneListName == [T \in OneList |-> MCTypeName[T]]
OneListArg  == [T \in OneList |-> MCTypeArg[T]]

UpTo(n, S) == UNION {[1 .. k -> S] : k \in 0 .. n}

=============================================================================
