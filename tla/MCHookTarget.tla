---------------------------- MODULE MCHookTarget -----------------------------
EXTENDS HookTarget, MCClasses

NoSlot == 65535
Foo(c, byref) == [name |-> "Foo", static |-> FALSE, generics |-> 0, ret |-> "Void",
                  slot |-> NoSlot, code |-> TRUE,
                  params |-> <<[class |-> c, index |-> 0, byref |-> byref]>>]
Virtual(code) == [Foo("Object", FALSE) EXCEPT !.slot = 1, !.code = code]

\* C declares at most two overloads, A has a method that implements I's or leaves
\* it abstract, and C may override that.
Overload == <<Foo("B", FALSE), Foo("Int", FALSE), Foo("Int", TRUE),
              Foo("List<A>", FALSE), [Foo("B", FALSE) EXCEPT !.static = TRUE],
              [Foo("A", FALSE) EXCEPT !.ret = "A"], [Foo("B", FALSE) EXCEPT !.code = FALSE],
              Virtual(TRUE)>>
Own == {SelectSeq(Overload, LAMBDA o : o \in S) : S \in
          {S \in SUBSET ToSet(Overload) : Cardinality(S) <= 2 /\ Cardinality({o.params : o \in S}) = Cardinality(S)}}
Threads == Permutations(Thread)
MCTables == {[c \in MCClass |-> CASE c = "C" -> own [] c = "A" -> base
                                  [] c = "I" -> <<[Virtual(FALSE) EXCEPT !.slot = 0]>>
                                  [] OTHER -> << >>] :
               own \in Own, base \in {<<Virtual(TRUE)>>, <<Virtual(FALSE)>>}}
MCOffset == [p \in {"A", "B", "C"} \X {"I"} |-> 1]

-----------------------------------------------------------------------------
Ty(form, T) == [form |-> form, type |-> T]
In(ident, ty) == [ident |-> ident, attrs |-> {}, ty |-> ty]
Fn(inputs) == [const |-> FALSE, async |-> FALSE, variadic |-> FALSE, abi |-> "Rust", generics |-> {},
               inputs |-> inputs, ret |-> Ty("value", "unit")]
OnFoo == [path |-> FALSE, segments |-> 3, class |-> "C", method |-> "Foo", extra |-> << >>]
Literal(sig) == [args |-> OnFoo, sig |-> sig, real |-> [inputs |-> << >>, ret |-> Ty("value", "unit")]]
This(T) == In("this", Ty("reference", T))

TakesB     == Literal(Fn(<<This("C"), In("p", Ty("reference", "B"))>>))
TakesAny   == Literal(Fn(<<This("A"), In("p", Ty("reference", "Object"))>>))
Returns    == [TakesAny EXCEPT !.sig.ret = Ty("reference", "B")]
TakesInt   == Literal(Fn(<<This("C"), In("p", Ty("value", "Int"))>>))
TakesRef   == Literal(Fn(<<This("Object"), In("p", Ty("byref", "Int"))>>))
TakesList  == Literal(Fn(<<This("C"), In("p", Ty("reference", "List<A>"))>>))
Static     == Literal(Fn(<<In("p", Ty("reference", "B"))>>))
Path       == [TakesB EXCEPT !.args.path = TRUE, !.real.inputs = original_ty(TakesB.sig)]
WrongPath  == [Path EXCEPT !.sig.inputs = TakesInt.sig.inputs]
Async      == [TakesB EXCEPT !.sig.async = TRUE]
TwoNames   == [TakesB EXCEPT !.args.extra = <<[key |-> "namespace", value |-> <<"x">>], [key |-> "namespace", value |-> <<"x">>]>>]

MCItem == [TakesB |-> Path, TakesAny |-> TakesAny, Returns |-> Returns, TakesInt |-> TakesInt, TakesRef |-> TakesRef,
           TakesList |-> TakesList, Static |-> Static, WrongPath |-> WrongPath, Async |-> Async,
           TwoNames |-> TwoNames]

-----------------------------------------------------------------------------
\* What LookupProofs supposes holds of this world.
ASSUME MCHypotheses == OneArgument /\ Transitive /\ ValuesSealed /\ VtableLayout

=============================================================================
