------------------------------ MODULE HookMacro ------------------------------
(***************************************************************************)
(* What #[hook] (proc_macros/src/hook.rs) accepts and what it makes of a   *)
(* function: the signature checked against the method at installation, and *)
(* the one the generated native functions have.                            *)
(*                                                                         *)
(* An item is [args, sig, real].  args: whether the target is a path to a  *)
(* method or literals, how many segments the path has, the class's name,   *)
(* the method's, and the key = value arguments; a filter's value is split  *)
(* at each "::".  sig: the annotated function.  real: the types of the     *)
(* function a path leads to (external: as rustc sees it).                  *)
(***************************************************************************)
EXTENDS Naturals, Sequences, FiniteSets

\* HookFilter::parse: "name", "namespace::" or "namespace::name"; there is no
\* namespace before the "::" of "::name".
FilterParses(value) == Len(value) = 1 \/ value[1] # ""

KeyArg(args, key) == {i \in DOMAIN args.extra : args.extra[i].key = key}

ArgsParse(args) ==
  /\ args.path => args.segments > 1
  /\ DOMAIN args.extra = KeyArg(args, "namespace") \cup KeyArg(args, "before") \cup KeyArg(args, "after")
  /\ Cardinality(KeyArg(args, "namespace")) <= 1
  /\ \A i \in KeyArg(args, "before") \cup KeyArg(args, "after") : FilterParses(args.extra[i].value)

validate(sig) ==
  /\ ~sig.const /\ ~sig.async /\ ~sig.variadic
  /\ sig.abi \in {"Rust", "unnamed", "C"}
  /\ sig.generics \subseteq {"lifetime"}
  /\ \A i \in DOMAIN sig.inputs :
       sig.inputs[i].ident # "self" /\ ("this" \in sig.inputs[i].attrs => i = 1)

-----------------------------------------------------------------------------
has_this(sig) == sig.inputs # << >> /\ (sig.inputs[1].ident = "this" \/ "this" \in sig.inputs[1].attrs)

params_ty(sig) ==
  LET skip == IF has_this(sig) THEN 1 ELSE 0
  IN [i \in 1 .. Len(sig.inputs) - skip |-> sig.inputs[i + skip].ty]

this_ty(sig) == IF has_this(sig) THEN <<sig.inputs[1].ty>> ELSE << >>

\* The parameters of the native function (outer_fn), and of the pointer that
\* `original` calls: their ABI is that of the types declared.
original_ty(sig) == this_ty(sig) \o params_ty(sig)

\* method_check: a path's function is coerced to the declared types.
method_check(item) ==
  item.args.path => item.real = [inputs |-> original_ty(item.sig), ret |-> item.sig.ret]

\* rustc's verdict on the generated code (external): a `this` is some kind of
\* pointer, what a parameter is passed as fits the kind of its type, and
\* `inner` keeps the attributes of its parameters, of which rustc knows no #[this].
TypeChecks(item, ValueType) ==
  /\ method_check(item)
  /\ has_this(item.sig) => item.sig.inputs[1].ty.form # "value"
  /\ \A i \in DOMAIN params_ty(item.sig) :
       LET ty == params_ty(item.sig)[i]
       IN ty.form # "byref" => (ty.form = "value") = (ty.type \in ValueType)
  /\ \A i \in DOMAIN item.sig.inputs : item.sig.inputs[i].attrs = {}

\* A hook that is part of a program.
Expands(item) == ArgsParse(item.args) /\ validate(item.sig)

=============================================================================
