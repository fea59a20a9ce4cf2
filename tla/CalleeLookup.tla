----------------------------- MODULE CalleeLookup ----------------------------
(***************************************************************************)
(* The lookups of class.rs that keep no state of their own: the method a   *)
(* hook's signature names (find_method_callee, with the checks of          *)
(* typecheck/callee.rs and those the type macros generate), and those by   *)
(* name and count, by slot and through the vtable.                         *)
(*                                                                         *)
(* A declared type is [form, type]: a "value" of the Rust type, a          *)
(* "reference" to it (Gc, &mut, *mut) or a "byref" (ByRef); the type Unit  *)
(* is (), and a Result is what it has when Ok.                             *)
(***************************************************************************)
EXTENDS ClassTables, HookMacro

CONSTANT Offset    \* <<class, interface>> -> where its vtable has the interface's

NonVirtual == 65535    \* the slot of a method that is not virtual

ASSUME OffsetAssumption ==
  /\ DOMAIN Offset \subseteq Class \X Interface
  /\ \A p \in DOMAIN Offset : Offset[p] \in Nat

-----------------------------------------------------------------------------
(***************************************************************************)
(* What is asked of a method, one question after the other until one is    *)
(* answered no: a plain one, and then, unless `type` is Unit, whether the  *)
(* type's class can be assigned from `class`, or, for what is returned,    *)
(* `class` from it.                                                        *)
(***************************************************************************)
Plain(yes) == [plain |-> yes, type |-> Unit, class |-> NoClass, returned |-> FALSE]

\* Slip: the check of a parameter is that of an argument.
matches_parameterReversed(ty, p) ==
  [plain |-> ty.type \in ValueType => (ty.form = "byref") = p.byref,
   type |-> ty.type, class |-> p.class, returned |-> TRUE]

\* matches_value_parameter and matches_reference_parameter: a reference type's
\* does not ask whether the parameter is a ref.
matches_parameter(ty, p) ==
  [plain |-> ty.type \in ValueType => (ty.form = "byref") = p.byref,
   type |-> ty.type, class |-> p.class, returned |-> FALSE]

matches_this_parameter(sig, m) ==
  IF has_this(sig) THEN [Plain(TRUE) EXCEPT !.type = sig.inputs[1].ty.type, !.class = m[1]]
  ELSE Plain(Info(m).static)

matches_return(ty, m) ==
  IF ty.type = Unit THEN Plain(Info(m).ret = Void)
  ELSE [plain |-> TRUE, type |-> ty.type, class |-> Info(m).ret, returned |-> TRUE]

Questions(name, sig, m) ==
  LET ps == params_ty(sig) IN
  <<Plain(Info(m).name = name), matches_this_parameter(sig, m), Plain(Len(Info(m).params) = Len(ps))>>
  \o [i \in 1 .. Len(ps) |-> IF i <= Len(Info(m).params)
                             THEN matches_parameter(ps[i], Info(m).params[i]) ELSE Plain(FALSE)]
  \o <<matches_return(sig.ret, m)>>

\* A type's class that is not found is a panic, which ends the whole lookup.
Compared(w, q) ==
  [view |-> w, panicked |-> w.class = NoClass,
   yes |-> IF q.returned THEN is_assignable_from(q.class, w.class)
           ELSE is_assignable_from(w.class, q.class)]

Ask(e, q) ==
  IF e.panicked \/ ~e.yes THEN e
  ELSE IF ~q.plain \/ q.type = Unit THEN [e EXCEPT !.yes = q.plain]
  ELSE Compared(class(e.view, q.type), q)

\* The methods of the class, not of its bases, that answer yes to everything.
Sorted(found, a, m) ==
  [view |-> a.view, panicked |-> a.panicked, found |-> IF a.yes THEN Append(found, m) ELSE found]

Matching(v, c, name, sig) ==
  FoldLeft(LAMBDA e, k :
      IF e.panicked THEN e
      ELSE Sorted(e.found, FoldLeft(Ask, [view |-> e.view, yes |-> TRUE, panicked |-> FALSE],
                                    Questions(name, sig, <<c, k>>)), <<c, k>>),
    [view |-> v, panicked |-> FALSE, found |-> << >>], [k \in 1 .. Len(methods[c]) |-> k])

\* Slip: the first of several that match is taken.
OnlyOneFirst(e) ==
  [view |-> e.view, method |-> IF e.panicked \/ e.found = << >> THEN NoMethod ELSE e.found[1]]

OnlyOne(e) ==
  [view |-> e.view, method |-> IF e.panicked \/ Len(e.found) # 1 THEN NoMethod ELSE e.found[1]]

find_method_callee(v, c, name, sig) == OnlyOne(Matching(v, c, name, sig))

-----------------------------------------------------------------------------
\* The methods that the name and count of parameters leave: those of the first
\* class, from c up, that has any.  One is the answer; several are refused.
find_method_unchecked(c, name, count) ==
  LET Here(d) == {k \in DOMAIN methods[d] : Info(<<d, k>>).name = name /\ Len(Info(<<d, k>>).params) = count}
      i == SelectInSeq(hierarchy[c], LAMBDA d : Here(d) # {})
  IN IF i = 0 THEN {} ELSE {<<hierarchy[c][i], k>> : k \in Here(hierarchy[c][i])}

find_method_by_slot(c, slot) ==
  LET k == SelectInSeq(methods[c], LAMBDA m : m.slot = slot)
  IN IF k = 0 THEN NoMethod ELSE <<c, k>>

\* External: the method that c inherits or declares at the slot; where that is
\* abstract and stands for an interface's, the interface's own.
vtable(c, slot) ==
  LET m == SelectInSeq(hierarchy_methods(c), LAMBDA x : Info(x).slot = slot /\ x[1] \notin Interface)
      of == {x \in Interface \X (1 .. slot + 1) :
               /\ <<c, x[1]>> \in DOMAIN Offset /\ Offset[<<c, x[1]>>] + x[2] - 1 = slot
               /\ x[2] \in DOMAIN methods[x[1]]}
  IN IF m = 0 \/ slot = NonVirtual THEN NoMethod
     ELSE IF ~Info(hierarchy_methods(c)[m]).code /\ of # {} THEN CHOOSE x \in of : TRUE
     ELSE hierarchy_methods(c)[m]

\* Slip: an entry with another slot is answered as it is.
find_method_by_vtableAsItIs(c, declaring, slot) ==
  IF declaring \notin Interface THEN vtable(c, slot)
  ELSE IF <<c, declaring>> \in DOMAIN Offset THEN vtable(c, Offset[<<c, declaring>>] + slot)
  ELSE IF c \in Interface /\ slot + 1 \in DOMAIN methods[c] THEN <<c, slot + 1>>
  ELSE NoMethod

find_method_by_vtable(c, declaring, slot) ==
  LET method == vtable(c, slot) IN
  IF declaring \notin Interface
  THEN IF method # NoMethod /\ Info(method).slot # slot THEN find_method_by_slot(c, slot) ELSE method
  ELSE IF <<c, declaring>> \in DOMAIN Offset THEN vtable(c, Offset[<<c, declaring>>] + slot)
  ELSE IF c \in Interface /\ slot + 1 \in DOMAIN methods[c] THEN <<c, slot + 1>>
  ELSE NoMethod

=============================================================================
