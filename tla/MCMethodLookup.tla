--------------------------- MODULE MCMethodLookup ---------------------------
EXTENDS MethodLookup, MCClasses

MCInterfaces == [c \in MCClass |-> IF c = "A" THEN <<"I">> ELSE << >>]

Layout == <<"Object", "A", "B", "C", "I", "Int", "Void", "List", "List<A>", "List<B>", "B2">>
MCAddress == [c \in MCClass |-> CHOOSE i \in DOMAIN Layout : Layout[i] = c]

-----------------------------------------------------------------------------
Foo(c, byref) == [name |-> "Foo", static |-> FALSE, generics |-> 0, ret |-> "Void",
                  slot |-> 0, code |-> TRUE,
                  params |-> <<[class |-> c, index |-> 0, byref |-> byref]>>]
FooStatic(c)  == [Foo(c, FALSE) EXCEPT !.static = TRUE]
FooReturns(c) == [Foo(c, FALSE) EXCEPT !.ret = "A"]
FooGeneric    == [Foo("Object", FALSE) EXCEPT !.generics = 1, !.params[1].index = 1]
Overload == {Foo("Object", FALSE), FooReturns("A"), Foo("B", FALSE), Foo("I", FALSE),
             Foo("Int", TRUE), FooStatic("B"), FooGeneric}

Get == [Foo("Object", FALSE) EXCEPT !.name = "Get", !.ret = "Object", !.params = << >>]

\* C declares at most two overloads, its base class A at most one of three.
MCTables == {[c \in MCClass |-> CASE c = "C" -> own [] c = "A" -> base [] OTHER -> << >>] :
               own \in UpTo(2, Overload), base \in UpTo(1, {Foo("A", FALSE), FooStatic("B"), FooGeneric})}

\* Each instantiation of List has a Get of its own.
ListTables == {[c \in MCClass |-> IF c \in S THEN <<Get>> ELSE << >>] : S \in SUBSET {"List", "List<A>", "List<B>", "Object"}}

-----------------------------------------------------------------------------
Call(on, name, args) == [on |-> on, name |-> name, static |-> FALSE, args |-> args,
                         generics |-> << >>, ret |-> "unit"]
Ref(T)   == [type |-> T, byref |-> FALSE]
ByRef(T) == [type |-> T, byref |-> TRUE]

\* No two of them share a key of the cache and differ.
MCRequest == {Call("C", "Foo", <<Ref("C")>>),
              [Call("C", "Foo", <<Ref("C")>>) EXCEPT !.static = TRUE],
              [Call("C", "Foo", <<Ref("B")>>) EXCEPT !.ret = "Object"],
              [Call("C", "Foo", <<Ref("A")>>) EXCEPT !.generics = <<"A">>],
              Call("C", "Foo", <<ByRef("Int")>>),
              Call("C", "Foo", <<Ref("List<A>")>>)}

\* The same request of two instantiations.
ListRequest == {[Call(c, "Get", << >>) EXCEPT !.ret = "Object"] : c \in {"List<A>", "List<B>"}}

-----------------------------------------------------------------------------
\* What LookupProofs supposes holds of this world, but for the two instantiations
\* of List and the requests that the findings are about.
ASSUME MCHypotheses ==
  /\ ClassesByParent /\ Near(1000)
  /\ Request = MCRequest => OwnKeys
  /\ RustType = OneList => OneArgument

=============================================================================
