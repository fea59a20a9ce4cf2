------------------------------ MODULE HookTarget -----------------------------
(***************************************************************************)
(* Which method a hook made by #[hook] is installed on: `install` of the   *)
(* generated code up to the backend's answer, with the class cache and the *)
(* classes that its checks load or fail to find on the way.  An install    *)
(* here is one step; what threads see of each other in it is the subject   *)
(* of the backends' modules.                                               *)
(***************************************************************************)
EXTENDS CalleeLookup

CONSTANTS Hook, Item    \* the program's hooks: their attributes and functions

ASSUME HookAssumption ==
  \A h \in Hook :
    /\ Item[h].args.class \in Name
    /\ Item[h].sig.inputs \in Seq([ident : STRING, attrs : SUBSET STRING,
                                   ty : [form : STRING, type : RustType]])
    /\ Item[h].sig.ret \in [form : STRING, type : RustType \cup {Unit}]

VARIABLE target         \* the method each hook is installed on

targetVars == <<classVars, methods, target>>

\* The hooks that the program compiles with.
Compiled == {h \in Hook : Expands(Item[h]) /\ TypeChecks(Item[h], ValueType)}

Args(h) == Item[h].args
Sig(h)  == Item[h].sig

MethodIn(c, h) ==
  IF c.class = NoClass THEN [view |-> c, method |-> NoMethod]
  ELSE find_method_callee(c, c.class, Args(h).method, Sig(h))

Lookup(v, h) == MethodIn(find(v, Args(h).class), h)

TargetInit ==
  /\ ClassInit
  /\ methods \in MethodTables
  /\ target = [h \in Compiled |-> NoMethod]

AlreadyInstalled(h) == target[h] # NoMethod /\ UNCHANGED targetVars

\* Slip: a method without code is patched.
InstallAbstract(t, h) ==
  \E a \in {Lookup(View(t), h)} :
  /\ target[h] = NoMethod
  /\ Keep(t, a.view)
  /\ \E success \in BOOLEAN : target' = IF success THEN [target EXCEPT ![h] = a.method] ELSE target
  /\ UNCHANGED <<loaded, methods>>

\* A method without code is a panic; whether the backend can patch one with code
\* is left open.
Install(t, h) ==
  \E a \in {Lookup(View(t), h)} :
  /\ target[h] = NoMethod
  /\ Keep(t, a.view)
  /\ \E success \in BOOLEAN :
       target' = IF a.method # NoMethod /\ success /\ Info(a.method).code
                 THEN [target EXCEPT ![h] = a.method] ELSE target
  /\ UNCHANGED <<loaded, methods>>

Uninstall(h) ==
  /\ target[h] # NoMethod
  /\ target' = [target EXCEPT ![h] = NoMethod]
  /\ UNCHANGED <<classVars, methods>>

TargetNext ==
  \/ LoadAssembly /\ UNCHANGED <<methods, target>>
  \/ \E h \in Compiled : \/ AlreadyInstalled(h) \/ Uninstall(h)
                         \/ \E t \in Thread : Install(t, h)

TargetSpec == TargetInit /\ [][TargetNext]_targetVars

-----------------------------------------------------------------------------
\* A hook is on a method that has code.
TargetTypeOK ==
  /\ ClassTypeOK
  /\ methods \in MethodTables
  /\ DOMAIN target = Compiled
  /\ \A h \in Compiled : target[h] # NoMethod =>
       /\ target[h][1] \in Class /\ target[h][2] \in DOMAIN methods[target[h][1]]
       /\ Info(target[h]).code

Installed == {h \in Compiled : target[h] # NoMethod}

\* What a thread sees that has looked for nothing, in a program that has not.
Nothing == [cache |-> << >>, cells |-> [n \in GenericName |-> NoClass], class |-> NoClass]

\* The class of a declared type as the runtime has it now; its parameter exactly.
ClassOf(ty) == class(Nothing, ty.type).class
ExactParam(ty, p) == p.class = ClassOf(ty) /\ p.byref = (ty.form = "byref")

\* "We want to find the method that is actually being called, not a method that
\* is compatible with the types" (find_method_callee): compatible is what the
\* checks ask, but where the class also has an overload declared exactly as the
\* hook is, a hook is on no other.
OwnOverload ==
  \A h \in Installed :
    LET c  == target[h][1]
        ps == params_ty(Sig(h))
    IN \A k \in DOMAIN methods[c] :
         LET m == methods[c][k] IN
         /\ m.name = Args(h).method /\ m.static = ~has_this(Sig(h))
         /\ Len(m.params) = Len(ps)
         /\ \A i \in DOMAIN ps : ExactParam(ps[i], m.params[i])
         /\ m.ret = IF Sig(h).ret.type = Unit THEN Void ELSE ClassOf(Sig(h).ret)
         => target[h] = <<c, k>>

\* The native function of a hook takes what il2cpp passes: as many parameters,
\* `this` first; a C# value type as declared, by value or by reference; and as a
\* reference to T only what is a T, whatever is passed where the method is called.
\* Not checked by the code, and supposed here: that the method of a hook that takes
\* `this` is not static.  Nor is what a reference type's parameter is passed as: a
\* value type's value is assignable to an Object, and a ref to one is no Object.
ReceivesWhatIsPassed ==
  \A h \in Installed :
    LET m      == Info(target[h])
        this   == IF m.static THEN << >> ELSE <<[class |-> target[h][1], index |-> 0, byref |-> FALSE]>>
        passed == this \o m.params
        taken  == original_ty(Sig(h))
    IN (has_this(Sig(h)) => ~m.static) =>
       /\ Len(taken) = Len(passed)
       /\ \A i \in DOMAIN taken :
            LET ty == taken[i] IN
            /\ i > Len(this) /\ ty.type \in ValueType => ExactParam(ty, passed[i])
            /\ \A d \in Class : is_assignable_from(passed[i].class, d) => is_assignable_from(ClassOf(ty), d)

\* What was found, not found or loaded before, by whichever thread, changes nothing
\* of what a hook can be installed on: it is what a search with nothing cached finds
\* now, and a hook that is installed is still on that.
AnswerIsFresh ==
  \A h \in Compiled :
    /\ \A t \in Thread : Lookup(View(t), h).method = Lookup(Nothing, h).method
    /\ h \in Installed => target[h] = Lookup(Nothing, h).method

\* The lookups agree on a method: the one that a hook's signature names is what its
\* name and count leave, and a virtual one is found by its slot, also where the vtable
\* has an interface's method in its stead, or through the interface's part of the vtable.
LookupsAgree ==
  /\ \A h \in Installed :
       target[h] \in find_method_unchecked(target[h][1], Args(h).method, Len(params_ty(Sig(h))))
  /\ \A c \in Class \ Interface : \A k \in DOMAIN methods[c] :
       LET s == methods[c][k].slot IN
       s # NonVirtual =>
         /\ find_method_by_slot(c, s) = <<c, k>>
         /\ \A d \in ToSet(hierarchy[c]) : find_method_by_vtable(c, d, s) = <<c, k>>
         /\ \A i \in Interface : \A n \in DOMAIN methods[i] :
              <<c, i>> \in DOMAIN Offset /\ s = Offset[<<c, i>>] + n - 1 =>
                find_method_by_vtable(c, i, n - 1) \in {<<c, k>>, <<i, n>>}

-----------------------------------------------------------------------------
\* What the theorem on ReceivesWhatIsPassed supposes of il2cpp: that assignability
\* is transitive, and that nothing else is assignable to a value type's class.
Transitive ==
  \A a, b, c \in Class : is_assignable_from(a, b) /\ is_assignable_from(b, c) => is_assignable_from(a, c)

ValuesSealed ==
  \A T \in ValueType : \A c, d \in Class :
    NameOf[c] = TypeName[T] /\ is_assignable_from(c, d) => d = c

\* What the theorem on LookupsAgree supposes of il2cpp's vtables: no class inherits
\* from an interface; a class declares one method for a slot, an interface its methods
\* in the order of theirs; and a vtable has a part for each interface, none of which is
\* at its beginning and no two of which overlap.
VtableLayout ==
  /\ \A c \in Class \ Interface : Parent[c] \notin Interface
  /\ \A table \in MethodTables, c \in Class : \A k, l \in DOMAIN table[c] :
       table[c][k].slot = table[c][l].slot => k = l \/ table[c][k].slot = NonVirtual
  /\ \A table \in MethodTables, i \in Interface : \A n \in DOMAIN table[i] :
       table[i][n].slot \in {n - 1, NonVirtual}
  /\ \A p, q \in DOMAIN Offset :
       /\ Offset[p] > 0
       /\ \A table \in MethodTables : \A n \in DOMAIN table[p[2]], l \in DOMAIN table[q[2]] :
            p[1] = q[1] /\ Offset[p] + n = Offset[q] + l => p = q

=============================================================================
