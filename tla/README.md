# A verification development for quest-hook-rs

`quest_hook` lets Rust code run inside a Unity game on the Quest headset: it
replaces methods of the game by Rust functions (hooks), finds the game's classes
and methods through `libil2cpp`, and holds references to objects that belong to
the game's garbage collector. This directory holds TLA+ modules of those parts,
TLC configurations that check them on small instances, and proofs that TLAPS
checks for every instance. `PROJECT.json` maps each definition to the lines it
models and lists the hazards each property is for. Paths below are relative to
the repository.

## 1. The system

### Components

| component | state it keeps | operations | modelled by |
|---|---|---|---|
| `#[hook]` life cycle (`proc_macros/src/hook.rs`, `src/hook.rs`) | one static per hook, a `HookHandle` per install | `install`, `original`, `uninstall`, the `extern "C"` wrapper | `HookClient`, `HookContract` |
| retour backend (`hook_backend/src/detour.rs`) | `OnceLock<RawDetour>` | `install`, `uninstall`, `is_installed`, `original` | `DetourHook` |
| And64InlineHook backend (`aarch64_linux_android.rs`) | `AtomicPtr` original | the same; `uninstall` is unsupported | `A64Hook` |
| Android-Inline-Hook backend (`armv7_linux_androideabi.rs`) | two `AtomicPtr`s | the same | `Armv7Hook` |
| flamingo backend (`aarch64_flamingo.rs`) | `Mutex<Option<InstalledHook>>` | the same, and priorities | `FlamingoHook` |
| class lookup (`class.rs`, `typecheck/ty.rs`, `impl_type.rs`) | a class cache per thread, a `OnceLock` per generic type | `find`, `find_generic`, `Type::class` | `ClassLookup` |
| method lookup (`class.rs`, `typecheck/caller.rs`) | a method cache per thread | `find_method`, `find_static_method`, overload ranking | `MethodLookup` |
| GC pointers (`gc.rs`, `gc_alloc.rs`, `raw/gc.rs`) | `GC_FUNCTIONS`, fixed allocations, `Arc`s | `SafePtr::new`, `cast`, `clone`, `as_weak`, drop | `GcPointers`, `SafePtrContract` |
| attached threads (`thread.rs`) | what il2cpp knows to be attached | `spawn_attached`, `attached_invoke`, the guard's drop | `GcPointers` |
| stateless lookups (`class.rs`) | none | `find_method_callee`, `find_method_unchecked`, by slot, by vtable; fields, properties | `CalleeLookup`, but for fields and properties |
| callee-side checks (`typecheck/callee.rs`, `ty.rs`, `impl_type.rs`) | none but the class caches they fill | `matches` of `this`, parameters and return | `CalleeLookup` |
| `#[hook]` parsing and validation (`proc_macros/src/hook.rs`) | none (compile time) | `HookFilter::parse`, `Metadata::new`, `validate`, the signatures generated | `HookMacro` |
| installation of a hook, all three together | the method each hook is on | the generated `install` up to the backend's answer | `HookTarget` |
| cross-reference search (`xref.rs`, `xref/`, `raw/gc.rs`) | the `OnceLock`s of the image, of the functions and of each wrapper | `xref_init`: image, branch trace, signature scan | `XrefSearch`; its outcome is `ready` in `GcPointers` |
| method invocation (`method_info.rs`, `object.rs`) | none | `invoke`, `make_generic` | no |
| FFI table (`raw/functions.rs`, `il2cpp_functions.rs`) and the generated `raw/types*` | a `OnceLock` per symbol | symbol resolution | no |
| wrappers (`array.rs`, `string.rs`, `exception.rs`, `byref.rs`, `valuetype.rs`, fields, properties) | memory of the game | accessors, conversions | no |
| logging and the panic hook (`src/util.rs`), the build helper, examples, tests | none that matters here | | no |

About 68 000 of the repository's lines are the generated layouts in `raw/types*`;
some 9 700 are written by hand.

### How they interact

`install` (generated) reads the backend's `is_installed`, finds the class with
`Il2CppClass::find` (the class cache) and the method with `find_method_callee`,
and calls the backend with the method's pointer. The backend calls a native
library, which rewrites the first instructions of the method and makes a
trampoline. From then on any thread of the game that calls the method runs the
Rust function; that function reads the backend's cell again to find `original`.
There is no lock over any of this: what the threads share are the cell, the
method's code and il2cpp's own tables.

Inside a hook Rust code calls il2cpp: `find_method` (the method cache, then the
ranking, then the type checks, which call `Type::class`, which uses the class
cache or a `OnceLock`), gets `Gc` pointers back, keeps some of them in
`SafePtr`s, and may hand those to threads it starts with `spawn_attached`.

### What is hard

- *Interleaving.* A method is patched before its cell is written; two threads can
  pass the `is_installed` check of one hook; a thread may be inside a hook, or
  hold a trampoline's address, when another uninstalls it.
- *Order.* Hooks sharing a method are uninstalled in any order, each backend
  having its own idea of what "the method before me" was.
- *Partial failure.* Native calls fail after others succeeded; uninstalling takes
  the handle first and fails afterwards.
- *Stale state.* Class and method caches never forget, their keys are names, and
  assemblies go on loading; the class getter of a generic type keeps one class.
- *Approximate matching.* A hook is checked against a method by questions, about
  classes that are looked up one by one while assemblies load, and that may each
  panic; what they ask is assignability, while the native signature is fixed.
- *Blocking.* `xref_init` computes in `OnceLock`s on which other threads wait, and
  panics in them when libil2cpp is not mapped yet.
- *Reachability.* A `Gc` keeps its object alive only on an attached stack; an
  object moves between stacks, fixed allocations and the Rust heap while the
  collector may run at any moment; a panic unwinds through all of it.

What makes each component correct:

- hooks: `is_installed` tells what calls of the method do; a hook that runs has
  an `original`; following `original` ends in the method; a handle stands for an
  installed hook; uninstalling one hook disturbs no other;
- lookups: a cache answers what a search would; the method belongs to the class
  asked or a base of it; among the applicable overloads the ranking's best is
  answered, and the nearer class wins;
- hook targets: a hook is on the method declared as it is where there is one, takes
  what il2cpp passes there, and which method that is depends on nothing that was
  looked up before;
- the search: it finds what the machine code says, the wrapper it publishes has a
  function to call, and no caller of `xref_init` waits for ever;
- pointers: what a live `SafePtr` or the stack of an attached thread points at is
  not collected; every fixed allocation has an owner who will free it; an attached
  worker detaches whatever happens in it.

## 2. The modules

Every definition carries the name it has in the source where it has one.
Definitions preceded by a comment that starts with "Slip" are not part of any
specification: each is a plausible error in an action, and `PROJECT.json` names
the property that must fail when it takes the action's place.

### HookClient

What stands around any backend. Threads are *installers*, which run the generated
`install` and `HookHandle::uninstall` one step at a time, and *callers*, which
call methods. A caller jumps to what the first instructions lead to, enters that
hook, and from it returns or goes on through `original`; if there is none, the
generated `expect("hook is not installed")` panics inside an `extern "C"`
function and the process is gone (`aborted`). The steps of an `install` are the
check, the lookup with its failures, and the backend's own steps; control is in
`pc`, the hook in hand in `cur`. Machine code is abstracted to what it leads to:
`code[m]` is a hook or `Orig`; a trampoline is a hook or `Orig` as well, namely
what the method led to when the trampoline was made.

Handles are counted, because uninstalling consumes one. `UninstallQuiet` says
whether the program keeps the backends' condition that nobody is inside a hook
while it is uninstalled (`detour.rs:48` and its siblings), which the safe
`HookHandle::uninstall` does not ask for. `Orderly` names the methods whose hooks
the program installs and uninstalls one operation at a time; the code locks
nothing, so on the other methods operations overlap as they like.

### The four backends

Each has one action for every step that another thread can see.

- `DetourHook`: `NewDetour`, `Enable`, then `SetCell`, or `SetCellTaken` when the
  `OnceLock` is full (the new detour is dropped, which undoes its patch);
  uninstalling disables the cell's detour and leaves it in the cell.
- `A64Hook`: one native call whose failure shows only as a null trampoline, one
  store, no uninstall.
- `Armv7Hook`: register, hook, two stores; unhook, two stores. The library refuses
  a second registration of a method.
- `FlamingoHook`: the native chain of a method, an insertion at any place of it
  (the priority chooses), the lock taken only to store or take the
  `InstalledHook`. `Stubborn` names the methods whose uninstalls may report a
  `RemapFailure`; the hooks kept in good order (`KeptHook`) are those of methods
  used in order and not stubborn.

### HookContract

The abstract specification: each hook is absent, publishing (patched, original
not yet there), installed or removing; handles come only from a completed
install; a thread enters a hook only while it is in place and at most once;
removing needs a handle and nobody inside. `FlamingoHook` and `Armv7Hook` are
shown to implement it (`KeepsContract == Contract!Spec`, the instance's `phase`
and `inside` being computed from the backend's own variables). The retour and
And64InlineHook backends do not: an install of the first may return Ok with
nothing installed (`DetourHook_reinstall`), and the second cannot uninstall.

### ClassLookup and MethodLookup

`ClassLookup` has the assemblies loaded so far, each thread's `CLASS_CACHE` and
the `CLASS` cell of each generic Rust type. A lookup is a function on a *view*,
the part of the state it can change, because one lookup makes others:
`find_generic` finds the argument's class, `Type::class` calls `find_generic`
inside `get_or_init`. `ClassTables` extends it with what il2cpp says of classes:
parents, assignability, and the methods each declares, with their slots and
whether they have code. `MethodLookup` extends that with the `METHOD_CACHE`.
`Types(r)` lists the types whose classes a resolution asks for, in order, and
`Evaluate` threads the view through them; a class that is not found is a panic and
ends the resolution with nothing cached. `param_distance` is the walk up the parents
with the interface adjustment, including the merge of interface lists by address;
`resolve_caller_method` is the loop as a fold.

The method tables are chosen in `Init` and then fixed, so that one run ranks
every table of the instance. External: `class_from_name`, `is_assignable_from`,
and the metadata itself.

### HookMacro, CalleeLookup, HookTarget

`HookMacro` is the compile-time half of a hook: which attributes and functions
`#[hook]` accepts (`ArgsParse`, `validate`), what it takes for `this` and for
parameters, and what rustc then says of the generated code (`TypeChecks`, external).
`CalleeLookup` is the run-time half: the questions that `find_method_callee` asks of
each method, in order, each a plain one or one that looks a class up (`Questions`,
`Ask`); all must be yes, and one method must be left. Beside it are the lookups by
name and count, by slot and by vtable, whose layout is external. `HookTarget` is the
generated `install` as a program runs it: only hooks that compile, on any thread,
while assemblies load; an attempt that finds nothing or panics keeps what it cached.
There an install is one step; what threads see of each other within one is the
subject of the backends' modules.

`MCClasses` is the small world of classes that `MCMethodLookup` and `MCHookTarget`
share.

### XrefSearch

`xref_init` on any number of threads: the image in its `OnceLock`, found in the list
of modules, which grows; the address of `il2cpp_domain_get`; the functions in theirs,
with the trace of branches first and the signature scan second. A cell that a thread
is computing is `Busy` and other threads wait; a panic inside leaves it empty. The
memory is a sequence of words, of which the disassembler says whether they branch
and where to, and the signature eight words (fewer in the instance) of which some
are wildcards. Memory, exports and the build's feature are chosen in `Init`, so that
one run searches them all.

### GcPointers

The objects a thread has `Gc`s of (`gcs`), the `SafePtr`s with the thread and the
allocation of each (`safe`), the fixed allocations and their contents, what a
thread is doing inside `SafePtr::new` or a drop (`task`), each worker's life, and
each object's. Making a `SafePtr` is two steps, allocating and writing; dropping
one gives up its share of the `Arc`, and frees in a second step if it was the
last. A worker is idle, spawned, running, perhaps unwinding, leaving (its guard
is next), returned (its result in the `JoinHandle`'s packet), done. A `Plain` thread
is one that is not attached but inside `attached_invoke`, into which it goes again
and again, and whose closure may end by a panic like a worker's. `Reached` is what
the collector sees: the stacks of attached threads and the fixed allocations. The
closure before it runs and the result after are on the Rust heap, where it does not
look (`README.md:98-106`).

`GcLeaves` says where the program lets a `Gc` leave the stack it is on, which
`Gc`'s `Send` allows: with the closure, or with the result. The passing run and
the proofs of `SafePtrIsSafe` and `AttachedStackIsSafe` need it empty; that is the
discipline the library relies on and does not enforce. The refinement below is
proved for any `GcLeaves`. The other assumption about the client is that
`SafePtr::new` is called on attached threads, since only those have `Gc`s of their
own (`thread.rs:7-12`); cloning, casting, sending and dropping happen anywhere.

### SafePtrContract

The abstract specification of `SafePtr`, without allocations and reference counts:
each handle is nobody's, or a thread's with an object (`held`); an object is pinned
(`pinned`) from when a thread that refers to it makes a `SafePtr` of it until some
time after the last `SafePtr` of it is gone; what is neither pinned nor on a stack the
collector scans (`seen`) may be collected, and nothing else. `Carries` says whether
the program takes `Gc`s from one stack to another, in which case a `SafePtr` may be
made of an object that nobody kept. `GcPointers` implements it
(`KeepsContract == Contract!Spec`): `Held` reads a handle's object through its
allocation, `Pinned` is what the allocations have been written with, `Seen` the `Gc`s
of attached threads. An allocation that is not written yet pins nothing, so that
`SafePtr::new` takes its abstract step when it writes.

## 3. The runs

Violation runs check a sentence of the repository which the code breaks, and
`findings` quotes it.

| run | instance | what it shows |
|---|---|---|
| `DetourHook` | 1 installer, 1 caller, 3 hooks (two on one of 2 methods), 4 installs | `is_installed` says what a method hooked by one hook does, through reinstalls and failures (`InstalledIsPatched`); a running hook has an original unless its install is between patch and store; no hook is entered twice; calls end |
| `DetourHook_reinstall` | 1 hook, 2 installs | *violated:* install, uninstall, install answers Ok with nothing installed |
| `A64Hook` | 1 installer, 1 caller, 3 hooks on 2 methods, patches may fail | `is_installed` and the original as for retour; hooks of one method chain without a cycle |
| `A64Hook_raced` | 2 installers, 1 hook | *violated:* two installs that both passed the check leave a trampoline that leads back into the hook |
| `Armv7Hook` | 2 installers, 1 caller, 3 hooks on 2 methods, the shared one used in order, 3 installs, quiet uninstalls | for the hooks used in order: implements `HookContract`, both pointers and the code agree between operations; for all, raced ones too: a method is never patched over a patch |
| `FlamingoHook` | 2 installers, 1 caller, 3 hooks on 2 methods, 3 installs, quiet uninstalls; the shared method is used in order, on the other installs race and uninstalls report a `RemapFailure` | for the hooks used in order: implements `HookContract`, for any place in the chain and any order of removal, and no call comes to one twice; for all: a hook that says it is installed is in the chain |
| `MethodLookup` | 11 classes, 4 assemblies, 228 method tables, 6 requests | a cached class is the one a search would find; a generic getter keeps its own class while the type is instantiated once; a method answered is the ranking's best; the nearer class wins where no interface interferes |
| `MethodLookup_cache` | two instantiations of List | *violated:* a lookup on one answers the method of the other |
| `MethodLookup_generic` | `List<A>` and `List<B>` as Rust types | *violated:* the getter of one answers the class of the other |
| `GcPointers` | 1 game, 1 worker, 1 plain thread, 2 objects, 2 allocations, 2 handles | implements `SafePtrContract`; `SafePtr`s and attached stacks keep their objects alive, each allocation has its owner, and a guard always detaches |
| `HookTarget` | 2 threads, 11 classes, 4 assemblies, every choice of up to two overloads out of eight on one class and of its base's virtual method; 7 hooks that compile and 3 that do not | a hook is on the overload declared exactly as it is, if there is one; what it takes is what is passed; what was cached or missing before never decides; the lookups by name, slot and vtable agree with it |
| `XrefSearch` | 2 threads, 864 memories of 10 words, 3 modules, `il2cpp_domain_get` exported or not, `gc_alloc_fixed` exported or not | the allocator is the one that the branches, or else the signature, lead to, where they lead anywhere; the published wrapper has its cell; nobody is left waiting in `xref_init` |

### Bounds, and why they are enough

- Hooks: the hazards need two hooks on one method and one by itself, which three
  hooks on two methods give (`MixedTarget`); a reinstall needs two installs of one
  hook, and `MaxInstalls` of 3 or 4 leaves room for that with another hook between.
  `MaxInstalls` bounds only the installs that get past the check. Callers share
  nothing with each other and a caller changes nothing another thread reads, but
  for the abort of the process, so one stands for all. Races of one hook's
  operations need two installers and no more.
- Lookups: caches are thread-local and a second thread meets the first only in the
  `OnceLock`s, whose values do not depend on who computes them; so one thread.
  Overloads come from a class and a base two levels up (so that a distance of two
  exists, and one to the class between), with an interface, a `ref` parameter, a
  static, a generic and one with another return type among them. A Rust type has at
  most one generic argument, itself not generic. `Sought` bounds the names looked
  up directly. No two requests of the passing run share a cache key and differ (6).
- Hook targets: two threads differ in what they have cached, and they are
  interchangeable (`SYMMETRY`; nothing names a thread). Two overloads of one method
  make every question of the check decide once: the class of a parameter, value or
  ref, generic, static or not, the return type, code or none.
- The search: three words of reach let a branch be too far, two code stretches of
  three words let one run over into the other, a word that does not decode stand
  before or behind the branch, and the signature be there not at all, once or
  twice, at the end of the image too. Two threads are one that computes in a
  `OnceLock` and one that waits.
- Pointers: two objects and two allocations let a cast and its source coexist, and
  an allocation be freed and used again for another object; two handles share one
  allocation, or have one each, on any two of the threads. Objects are never reused,
  so that a collected one stays told apart.

### Fairness

Three liveness properties. `CallsReturn` (retour) assumes weak
fairness of a caller's `Continue`: the system runs a thread that is inside a call,
and the body of a hook ends. Nothing makes a thread start a call or an operation,
and installers need not go on. `GuardDetaches` assumes weak fairness of the steps a
thread makes by itself inside `gc_free_fixed`, while unwinding and in the guard's
drop; nothing makes a closure return, so it says that a thread whose closure is over
does detach (unless the process aborts). `InitEnds` assumes weak fairness of each
step a thread makes by itself inside `xref_init`, waiting for a `OnceLock` included:
the standard library wakes the waiters of a cell, and a search looks at a bounded
number of words. It speaks of threads inside once libil2cpp is mapped; nothing makes
a thread call `xref_init` or the linker load a module.

Deadlock is not checked where the system may stop: once the installs and calls of
the instance are made or the process is gone. `MethodLookup` is always able to
look something up again, as `HookTarget` is to install and `XrefSearch` to call
`xref_init`, and there it is checked.

## 4. What is proved

Everything here holds for any value of the constants that the assumptions named in
the modules allow: any sets of hooks, methods, threads, any bound on installs, any
memory, and so on. Where a theorem assumes more of the program, it says so below.

| theorem | property | assumes of the program |
|---|---|---|
| `DetourHookProofs` `TypeCorrect`, `OriginalSafe` | `TypeOK`, `OriginalUnlessPublishing` | |
| `InstalledSaysPatched` | `InstalledIsPatched` | installers of a hook alone on its method take turns |
| `NoHookEnteredTwice` | `NoHookTwice` | one installing thread |
| `A64HookProofs` `TypeCorrect` | `TypeOK` | |
| `OriginalSafe`, `InstalledSaysPatched` | `OriginalUnlessPublishing`, `InstalledIsPatched` | one installing thread, or no patch fails |
| `NoHookEnteredTwice` | `NoHookTwice` | one installing thread |
| `Armv7HookProofs` `TypeCorrect`, `NoSecondPatch`, `InstalledSaysPatched` | `TypeOK`, `NeverPatchedTwice`, `InstalledIsPatched` | |
| `OriginalSafe`, `Implements` | `OriginalUnlessPublishing`, `KeepsContract` | no uninstall of a hook that runs |
| `FlamingoHookProofs` `TypeCorrect`, `InstalledSaysChained` | `TypeOK`, `InstalledIsChained` | |
| `OriginalSafe`, `ChainsKept`, `Implements` | `OriginalUnlessPublishing`, `KeptHooksChain`, `KeepsContract` | no uninstall of a hook that runs |
| `GcPointersProofs` `GcTypeCorrect`, `NoRootLeaks` | `TypeOK`, `RootHasOwner` | |
| `SafePtrKeepsContract` | `KeepsContract` | |
| `ContractKeepsAlive` | (what `SafePtrContract` gives its users) | |
| `SafePtrIsSafe`, `AttachedStackIsSafe` | `SafePtrKeepsAlive`, `StackKeepsAlive` | no `Gc` leaves its stack |
| `LookupProofs` `TypeCorrect`, `CacheStaysRight` | `MethodLookup`'s `TypeOK`, `CachedClassIsFirst` | |
| `ClassOfTypeIsOwn` | `TypeClassIsOwn` | a generic impl is used with one argument (`OneArgument`) |
| `BestMethodAnswered` | `BestIsAnswered` | requests differ in more than the cache key leaves out (`OwnKeys`); no weight reaches `i32::MAX` (`Near`) |
| `NearestClassAnswered` | `NearerClassWins` | both, and a class is assignable only from what derives from it (`ClassesByParent`) |
| `TargetHasCode` | `HookTarget`'s `TargetTypeOK` | |
| `HistoryDoesNotMatter`, `NoOverloadMistaken` | `AnswerIsFresh`, `OwnOverload` | `OneArgument` |
| `PassedAsDeclared` | `ReceivesWhatIsPassed` | `OneArgument`; assignability is transitive (`Transitive`); nothing derives from a value type (`ValuesSealed`) |
| `LookupsAlwaysAgree` | `LookupsAgree` | `OneArgument`; il2cpp's layout of vtables (`VtableLayout`) |
| `XrefSearchProofs` `TypeCorrect`, `WrapperIsBacked`, `AllocatorFound` | `TypeOK`, `WrapperHasTarget`, `AllocatorIsOwn` | |

The assumptions are conditions of the code, or what a finding shows to be needed.
"No uninstall of a hook that runs" is `UninstallQuiet`, the `# Safety` condition of
the backends' `uninstall`. "One installing thread" is false of `A64Hook_raced`, and
"one argument" of `MethodLookup_generic`; `OwnKeys` is what `MethodLookup_cache`
breaks. `Near` says that some distance bounds all, and that times the number of a
call's arguments it is below 2^31 - 1, the weight that the loop starts from.
`ClassesByParent` leaves out variance: with an array of strings, or a generic delegate,
a class is assignable from one that does not derive from it, the walk stops at the
first parent that is not assignable, and a base class further up can tie with it.
`Transitive` and `ValuesSealed` are rules of the .NET type system that il2cpp keeps.
`VtableLayout` is what il2cpp's tables are like: every class's vtable begins with the
virtual methods of `Object`, so no interface's part is at its beginning; the parts do
not overlap; one class declares one method for a slot, and an interface its methods
in the order of their slots; no class inherits from an interface.
`MCMethodLookup` and `MCHookTarget` have TLC evaluate these on their instances
(`MCHypotheses`). Of il2cpp's tables the proofs use that a class is not its own ancestor
(`MetadataAssumption`) and that an instantiation, if there is one, is a class with the
name of its definition (`ClassAssumption`); of the hooks, only their types
(`HookAssumption`). Two installers of one hook on retour that
do not take turns can end with `is_installed` true of a method that is not patched,
which TLC shows on the run's instance with a second installer.

### The hooks

`HookClientProofs` holds what the backends share. The first part is the types of
the steps around a backend (`CallerKeepsType`, `InstallerKeepsType`,
`BackendKeepsType`) and where they move a thread (`InstallerMoves`, `CallerMoves`).
The second is about the hooks of `Orderly` methods: `OneATime` says that no two
threads operate on hooks of one such method, `OneATimeKept` that every step keeps
it, and `PhaseAt`, `OwnPlace` and `OtherPlace` read a hook's phase off the place of
the one thread, if any, that operates on it.

*retour.*

- `TypeCorrect`, by `TypeInv`: it needs `UnhookSet`, that a thread about to disable
  a detour found the cell full, or else `![h].enabled = FALSE` would be applied to
  an empty cell.
- `OriginalSafe`: its invariant `AllBacked` says that every place a thread can get
  from, a method's code, a trampoline, a detour in the making and a caller's next
  jump, leads only to hooks whose cell is full or being stored. The property alone
  is not inductive: it says nothing of where the next jump goes.
- `InstalledSaysPatched`: `Agrees(h)` says what the cell, its flag and the method's
  code are at each place of the thread that operates on h, a detour refused by the
  full cell and one about to undo its patch included.
- `NoHookEnteredTwice`: `PathInv` says that the trampolines form no cycle (`NoCycle`)
  and that what a caller may still reach and what it has already entered are disjoint
  (`CallPath`).

*And64InlineHook.* `IInv` says that whatever can be jumped to is a hook which *has*
an original, stored or about to be (`Leads`), that the method of a hook alone on it
leads to it exactly if it has one (`PatchedHas`), and why a store takes none away
(`StoresOnce`): the cell is still null with one thread, and what is stored is not
null if no patch fails. With both conditions dropped the theorem is false: of two
raced installs the second may fail and store its null. `NoHookEnteredTwice` goes
along a `PathInv` like retour's.

*Android-Inline-Hook.* `NoSecondPatch` is by `Registered`: a patched method has an
item in the library, and a method about to be patched has one too, is not patched,
and is no other thread's to patch. For the hooks used in order `OrderlyInv` adds
`OneATime`, `Rows`, a table with what the two pointers, the code and the handles are
at each place of an operation, and `ToMethod`: no method being patched over a patch,
a trampoline leads to the method itself. That gives `InstalledSaysPatched`. With
quiet uninstalls `Reaches` says that a call is inside a hook, or on its way to it,
only while the hook is in place, and at most once: from it come `OriginalSafe` and,
action by action, the refinement `Implements`.

*flamingo.* A chain is a sequence that installs and uninstalls change at any place,
so the proofs begin with what `InsertAt` and `RemoveAt` do to a sequence
(`InsertAtInserts`, `RemoveAtRemoves`) and what that leaves of its elements and of
their order (`InsertedElements`, `InsertedLinks`, `InsertedHooks`, `InsertedOrder`).
`IInv == TypeOK /\ Bounded /\ Tokens /\ Leads`: an `InstalledHook` in a cell or on
a thread's stack is in the chain and nowhere else, its number is no larger than the
installs begun, and a method leads to the first of its chain. `KeptInv` adds
`OneATime` and a table `Rows` for the kept hooks; of raced hooks and failed removals
`Tokens` alone gives the first half of `InstalledIsChained`. `Reaches` is as above,
with `Behind`: the kept hooks a call has been through come before the one it is at in
the chain. From it come `OriginalSafe`, `ChainsKept` and the refinement `Implements`.

### Pointers

- `GcTypeCorrect` and `NoRootLeaks`, by `RootInv == TypeOK /\ Shared /\ Busy /\ Owned`:
  a `SafePtr`'s allocation exists and nobody is writing or freeing it, two threads
  never work on one allocation, and each allocation is shared, being written or
  being freed.
- `SafePtrIsSafe` and `AttachedStackIsSafe`, by
  `LiveInv == Written /\ Rooting /\ Stacks /\ Lives`: what an allocation points at is
  alive; what a thread is about to root is alive and on an attached stack, or the
  same thread has a `SafePtr` of it; a `Gc` is on an attached stack and alive; the
  game's threads and running workers are attached, and a worker that has not started,
  or is leaving, has no `Gc`. Alone, the two properties do not survive a cast, whose
  object is known only to the allocation the `SafePtr` shares.

- `SafePtrKeepsContract`: the initial states map to initial ones (`InitContract`) and
  every step to a step or a stutter (`StepContract`), one action after the other;
  `HeldShape`, `HeldStays` and `HeldMoves` say what an action does to the mapped
  handles. It assumes nothing of where `Gc`s go, so `LiveInv` is not at hand and three
  weaker invariants stand in its place (`SpecPins`): an allocation that is free or
  being written has no content left (`Blank`); what a thread refers to was created
  (`Born`), collected since or not; and a thread inside `SafePtr::new` has a `Gc` of
  the object on an attached stack, or a `SafePtr` of it, unless `Gc`s are carried
  about (`Attending`). `PinnedByNew` is the write, `ManagedIsSeen` that a managed
  thread's `Gc`s are seen.
- `ContractKeepsAlive`: from the contract alone, `Contract!KeepsAlive`. A `SafePtr`'s
  object is pinned in any program, and all that is pinned or seen is alive in one that
  carries no `Gc` about. With the refinement this is a second way to `SafePtrIsSafe`,
  along which nothing of allocations or threads is needed any more.

### Classes and methods

- `TypeCorrect`, `CacheStaysRight` and `ClassOfTypeIsOwn`, by `MethodInv`: what is
  cached was found (`Fresh`), and `FoundStays` says that the first assembly with a name
  stays the first; `IsOwn` says what a cell may hold, nothing or the instantiation of
  the classes found first. `LookedInv` shows it of any lookup that does no more to the
  state than `Looked`, and `MissIs` that the resolution of a method is one.
- What the operators compute is proved as steps along a finite set of indices, which
  needs no induction theorem with an operator parameter: `Upwards` goes up the numbers
  of an interval and `Downwards` down the classes from the roots, both for a *set* of
  those of which the claim holds. `FoldExists`, `MergeExists` and `ClimbsFrom` show that
  the recursive functions exist at all, without which nothing is known of their values.
  From them: `EvaluateAll` (the classes of a resolution's types are what
  `Type::class` answers of each, and the cells only fill), `HierarchyGoesOn` (the
  hierarchy of a class goes on with that of each ancestor), `SharedType`,
  `DistanceType`, `WeightType`, and `ResolveIsBest`: the loop of
  `resolve_caller_method`, which keeps one method and one weight, ends with the first
  exact match, or else the first of the lightest.
- `BestMethodAnswered`: `CacheInv` says of each remembered method that the classes of
  the request's types were all found and that it is the best for those (`Remembered`).
  That a method is among the declared ones is not enough: the classes must be there to
  say which is best, and stay what they were (`RememberedStays`) while assemblies load
  and `OnceLock`s fill.
- `NearestClassAnswered`: the walk up from the argument comes to the nearer class first
  (`FarIsFurther`), stops there at the latest, and cannot stop before the further one
  (`NearerIsLighter`); a further class that is the argument's own would be nearer.

### The target of a hook

`find_method_callee` is a fold over methods, in it one over the questions put to each,
and in that `Type::class`, which changes the caches. `Do` and `Walks` make these folds,
and the one of `Evaluate`, one; `AskAll` and `MatchAll` go up their steps.

- `CalleeIs` says what is left: caches that are right, and, under `OneArgument`, the
  answer `Callee`, in which no cache occurs: the only method of the class whose questions
  are all answered yes by the classes as they are now (`Ok`), if on none of the methods
  the first that is not is about a class not found (`Panicky`).
- `TargetHasCode`, `HistoryDoesNotMatter`, by `TargetInv`: each hook that is installed is
  on the method that `IsFound` describes. That `AnswerIsFresh` itself is kept is not
  clear from it alone: while assemblies load, a class that was not found may appear. What
  keeps it is `OkStays`: a question that did not panic keeps its answer, yes or no;
  `VerdictStays` carries that through a list of questions, of which those after the
  first no were never asked and may change, and `CalleeStays` through the methods.
- `NoOverloadMistaken`: an overload declared exactly as the hook answers yes to
  everything (`ExactOk`, `ExactReturnOk`), so it is the only one that does (`OnlyYes`).
- `PassedAsDeclared`, by `OnlyYes` and `YesMeans`, one parameter after the other
  (`ParamTakes`, `ThisTakes`). For a value type the check asks for assignability only;
  that it is the very class follows from the class found for the type having the type's
  name (`OwnNamed`) and `ValuesSealed`.
- `LookupsAlwaysAgree`: the methods of a class are the first of those it has or
  inherits (`OwnMethodsFirst`, from `FlattenFirst`), so what the search of the vtable
  comes to first is the class's own (`VtableIs`), unless an interface's method stands
  in its stead (`At`); that one's slot in its interface is a smaller number, and it is
  the only one there (`AtIs`), so the lookup sees that the entry is another's and goes
  by the slot (`SlotIs`). No class above is an interface (`NoInterfaceAbove`), by
  `Downwards`. That the hooked method is among those its name and count leave is by
  `OnlyYes` and `OwnIsLeft`.

### The search

- The searches: `FirstBranch` says that what `find_nth_matching_branch_target` finds
  for n = 1 is the target of the one branch in reach, if there is one; `FindType` that
  the image found is a segment; `TracedIsCalled` and `ScannedIsSigned` that the trace
  and the scan answer what `AllocatorIsOwn` describes in its own terms.
- `TypeCorrect`, by `SearchInv == TypeOK /\ BytesHeld`: one thread at a time looks for
  the image, with the cell `Busy`, and from then on it is there. The types of the
  wrappers' cells need it, for an address is relative to the image.
- `WrapperIsBacked`, by `WrapperInv`: one thread resolves, only while `GC_FUNCTIONS`
  is `Busy`, and the two cells follow what it has found.
- `AllocatorFound`, by `AllocatorInv`, which adds to both that what is about to be
  published, or is, answers the searches as they would answer now (`OwnFound`);
  `SearchesStay` says that no step changes those answers. Where both searches answer
  nothing the invariant knows that None is published; the property says nothing (6).

### Only model-checked

- Liveness: `CallsReturn`, `GuardDetaches`, `InitEnds`. The provers have no rule for
  fairness here. Every safety property of a passing run and the refinements are
  proved, under the conditions of the table.

## 5. Not modelled

- *Method invocation, wrappers, FFI*: a native call with conversions around it, no
  state of its own. Field and array accessors read memory the game owns.
- *Symbol resolution*: one `OnceLock` per symbol, each written once with the same
  value whoever writes it, or the program aborts.
- *Generated layouts*: `raw/types*` declare some 68 000 lines of C structures, with
  no control; the model covers about a fifth of what is written by hand.
- *`find_field` and `find_property`*: the first of a name up the hierarchy, by the
  loop that `find_method_unchecked` is modelled with, and native calls.
- *The type macros' own parsing and token building, and the generated conversions*:
  they run in the compiler or move bytes; the checks and the getter they generate are
  in `ClassLookup`, `MethodLookup` and `CalleeLookup`. Tuples are the lists of
  arguments and parameters.
- *The pattern parser* (`xref/pattern.rs`): it reads one constant text.
  `module_bytes` on Windows and macOS, and the ARM decoder: external.
- *Build helper, logging, examples, tests*: no part of the running system; the
  examples and tests were read for what the crates promise.
- What a `HookFilter` and a priority select is in `FlamingoHook` only as the freedom
  of where in the chain a hook goes; which of them parse is in `HookMacro`.

## 6. Observations without a run

Met while modelling; each can be found in the code at the lines given.

- `original` still answers after an uninstall on retour (`detour.rs:66-68`), though
  `hook.rs:38` and `detour.rs:64` say "if installed". No property asks for either: it
  is what lets a thread that is inside when the hook is removed go on, and what makes
  a second install fail (`DetourHook_reinstall`).
- A caller that arrives between the patch and the store finds no original and
  aborts the process (`detour.rs:37-38`, `proc_macros/src/hook.rs:720`). All
  backends have this window; `OriginalUnlessPublishing` says there is no other.
- On And64InlineHook a failed patch is answered with `true`
  (`aarch64_linux_android.rs:45-46`).
- On Android-Inline-Hook two installers that do not take turns can leave the two
  pointers and the code in disagreement (the run's `Orderly` excludes it), and
  removing a hook under a running thread aborts it (`:72-74`).
- flamingo: after a `RemapFailure` the hook still runs and nobody can remove it
  (`aarch64_flamingo.rs:78-87`).
- `HookHandle` says that only flamingo can uninstall (`hook.rs:66-68`); retour and
  Android-Inline-Hook do too. With the two hooks of `examples/hook_priority.rs`,
  uninstalling the first on retour takes the second's patch away with it.
- The method cache's key has the Rust type behind an argument, the same for `i32`
  and `ByRef<i32>` (`class.rs:1004`): one more way to get another overload's answer.
- Shared interfaces are subtracted from a distance, so a farther base with
  interfaces can beat a nearer one (`class.rs:799` against the comment at `:121`).
  `NearerClassWins` is stated where no interface interferes.
- `find_method_callee` is documented as an exact match (`class.rs:166-168`) and uses
  assignability: with no exact overload a compatible one is hooked.
- A reference type's check ignores `is_ref` and boxing (`impl_type.rs:262-287`): a
  hook on an `Object` matches a method that takes an `int`, or a `ref` to an object.
  The same holds for what it returns and, in `find_method`, for a value passed where
  an object is taken. Nothing asks of a hook with `this` whether the method is static
  (`callee.rs:18`). `ReceivesWhatIsPassed` says in words what it leaves out.
- `#[this]` on a parameter is accepted by `validate` and stays on the inner function,
  where rustc rejects it; lifetime parameters are accepted and dropped.
- `before = "a::b::c"` is split at the first `::` (`hook.rs:146-168`), so that the
  name is `b::c`.
- With the `trace` feature `find_method_callee` asks all questions of every method,
  and so may panic on a class that is not found where the plain build does not.
- `module_bytes` takes the first module whose name ends with `IL2CPP_BINARY`
  (`module_bytes.rs:40`).
- Where neither trace nor signature gives an allocator, None is published and kept for
  the process's life (`xref/arm64/gc.rs:126`, `raw/gc.rs:61`), and every
  `SafePtr::new` panics. The comment at `raw/gc.rs:38-40` says that None is "only
  possible on unity2018/il2cpp_v24 without the `xref` feature"; this is with it.
  `AllocatorIsOwn` says nothing of such a memory, and with `GC_FUNCTIONS # None` as an
  invariant the run's instance violates it: `il2cpp_domain_get` is not exported, the
  signature is not in the image, and one call of `xref_init` publishes None.
- `Gc` is `Send`, and a thread's result travels to its joiner on the Rust heap, after
  the worker has detached: a bare `Gc` returned from a worker is kept by nothing until
  then. `examples/thread.rs:29` does return one, and says that the joiner holds it;
  `gc.rs:180` asks itself whether the `Send` should be there. With
  `GcLeaves = {"join"}` TLC finds `StackKeepsAlive` violated: the collector runs
  between the return and the join.
- On And64InlineHook, of two raced installs of one hook the second may fail and put
  its null over the first's trampoline, in a method that stays patched
  (`aarch64_linux_android.rs:43-45`).
- `*mut T` and `*const T` answer `matches_value_parameter` with
  `matches_value_argument` (`typecheck/ty.rs:152-154`, `:175-177`); no parameter can
  be declared that gets there, since one of `*mut T` requires a reference type.
- `List<List<T>>::class()` would initialise its `OnceLock` from within its own
  initialiser (`impl_type.rs:240`).
- The last `SafePtr` may be dropped on a thread that is not attached, which then
  calls `gc_free_fixed`; the model allows it, the library does not say whether
  il2cpp does.

## 7. Plan

Done: the hook life cycle with its four backends, their contract and its
refinements; the lookups with caches; pointers and threads; the callee side and the
macro (`HookTarget`); the search (`XrefSearch`); the contract of `SafePtr` and its
refinement; proofs of every safety property of the backends, the pointers, the
lookups, the targets of hooks and the search, and of the three refinements.

Left, in this order:

1. Generic arguments that are generic themselves, and requests that share a cache key
   and differ, in `MethodLookup`.
2. `find_field`, `find_property`, and the invocation of a found method with its
   boxing and unboxing.
