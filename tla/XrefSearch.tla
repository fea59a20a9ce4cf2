----------------------------- MODULE XrefSearch -----------------------------
(***************************************************************************)
(* xref_init (libil2cpp/src/xref.rs): finds the image of libil2cpp in      *)
(* memory and in it the functions that make and free fixed allocations     *)
(* (raw/gc.rs).  Newer Unity versions export both.  For the older ones the *)
(* first is looked for in the machine code (xref/arm64), by following      *)
(* branches from il2cpp_domain_get or else by a signature.                 *)
(*                                                                         *)
(* The memory is a sequence of instruction words; the signature, eight     *)
(* words of which two are wildcards, is a sequence of words as well.       *)
(* External: the dynamic linker's list of modules, which only grows, and   *)
(* bad64, which says what a word is.                                       *)
(***************************************************************************)
EXTENDS Naturals, Sequences, FiniteSets, SequencesExt

CONSTANTS
  Thread,
  Size,        \* of the memory, in words
  Memories,    \* the memories that are looked at
  Modules,     \* those of the process in the order they load: whether the name
               \* ends with IL2CPP_BINARY, and the segments that are mapped
  DomainGet,   \* where il2cpp_domain_get may be, or None where it is not exported
  Signature,   \* of GC_Malloc_Uncollectable: words, or Wildcard
  Wildcard,
  None, Busy,  \* a cell whose value one thread computes while others wait is Busy
  MAX_BRANCH_SEARCH_INSTRUCTIONS

Address == 1 .. Size
Word == [op : {"B", "BL", "other", "undecodable"}, to : Address]
Segment == {s \in [start : Address, end : Address] : s.start <= s.end}

Function == {"gc_alloc_fixed_shim", "wrapper_garbage_collector_allocate_fixed",
             "wrapper_gc_malloc_uncollectable"}

ASSUME XrefAssumption ==
  /\ Size \in Nat /\ Memories \subseteq [Address -> Word]
  /\ Modules \in Seq([il2cpp : BOOLEAN, segments : SUBSET Segment])
  /\ DomainGet \subseteq Address \cup {None}
  /\ Signature \in Seq(Word \cup {Wildcard})
  /\ Busy # None /\ {None, Busy} \cap (Address \cup Segment \cup Function \cup {"empty"}) = {}
  /\ Wildcard \notin Word
  /\ MAX_BRANCH_SEARCH_INSTRUCTIONS \in Nat \ {0}

VARIABLES
  memory,      \* what the process has mapped: chosen at the start
  domain_get,  \* where il2cpp_domain_get is: chosen at the start
  exported,    \* whether gc_alloc_fixed is exported: a feature of the build
  mapped,      \* how many modules are loaded
  BYTES,       \* the image: None, Busy or a segment
  GC_FUNCTIONS,                     \* gc_alloc_fixed: "empty", Busy, a function or None
  GARBAGE_COLLECTOR_ALLOCATE_FIXED, \* what the two wrappers call
  WRAPPED_GC_MALLOC_UNCOLLECTABLE,
  pc,          \* where each thread is in xref_init
  found        \* what resolve answers the one thread that is in it

process == <<memory, domain_get, exported>>
cells == <<GARBAGE_COLLECTOR_ALLOCATE_FIXED, WRAPPED_GC_MALLOC_UNCOLLECTABLE>>
vars == <<process, mapped, BYTES, GC_FUNCTIONS, cells, pc, found>>

\* Every variable has its type.
TypeOK ==
  /\ memory \in Memories /\ domain_get \in DomainGet /\ exported \in BOOLEAN
  /\ mapped \in 0 .. Len(Modules)
  /\ BYTES \in Segment \cup {None, Busy}
  /\ GC_FUNCTIONS \in Function \cup {None, "empty", Busy}
  /\ GARBAGE_COLLECTOR_ALLOCATE_FIXED \in Address \cup {None}
  /\ WRAPPED_GC_MALLOC_UNCOLLECTABLE \in Address \cup {None}
  /\ pc \in [Thread -> {"outside", "bytes", "locate", "functions", "resolve", "scan", "publish"}]
  /\ found \in Function \cup {None}

Init ==
  /\ memory \in Memories /\ domain_get \in DomainGet /\ exported \in BOOLEAN
  /\ mapped = 0
  /\ BYTES = None
  /\ GC_FUNCTIONS = "empty"
  /\ GARBAGE_COLLECTOR_ALLOCATE_FIXED = None
  /\ WRAPPED_GC_MALLOC_UNCOLLECTABLE = None
  /\ pc = [t \in Thread |-> "outside"]
  /\ found = None

-----------------------------------------------------------------------------
(***************************************************************************)
(* The searches.                                                           *)
(***************************************************************************)

\* Slip: one past the end.
findInclusive ==
  LET named == {i \in 1 .. mapped : Modules[i].il2cpp}
      first == Modules[CHOOSE i \in named : \A j \in named : i <= j].segments
  IN IF named = {} \/ first = {} THEN None
     ELSE [start |-> Min({s.start : s \in first}), end |-> 1 + Max({s.end : s \in first})]

\* module_bytes::find: from the lowest to the highest byte mapped of the first
\* module of the name, or None.
find ==
  LET named == {i \in 1 .. mapped : Modules[i].il2cpp}
      first == Modules[CHOOSE i \in named : \A j \in named : i <= j].segments
  IN IF named = {} \/ first = {} THEN None
     ELSE [start |-> Min({s.start : s \in first}), end |-> Max({s.end : s \in first})]

\* Slip: a word that does not decode is stepped over.
find_nthSkipsBad(addr, n, ops) ==
  LET end == Min({addr + MAX_BRANCH_SEARCH_INSTRUCTIONS - 1, Size})
      hit == {i \in addr .. end : memory[i].op \in ops}
  IN IF Cardinality(hit) < n THEN None ELSE memory[SetToSortSeq(hit, <)[n]].to

\* find_nth_matching_branch_target on the live code at addr: what the loop stops
\* at, the n-th match of those that it gets to.
find_nth_matching_branch_target(addr, n, ops) ==
  LET end == Min({addr + MAX_BRANCH_SEARCH_INSTRUCTIONS - 1, Size})
      hit == {i \in addr .. end : /\ memory[i].op \in ops
                                 /\ \A j \in addr .. i : memory[j].op # "undecodable"}
      nth == {i \in hit : Cardinality({j \in hit : j < i}) = n - 1}
  IN IF nth = {} THEN None ELSE memory[CHOOSE i \in nth : TRUE].to

find_domain_get_current ==
  IF domain_get = None THEN None
  ELSE find_nth_matching_branch_target(domain_get, 1, {"B", "BL"})

trace_gc_alloc_fixed(domain_get_current) ==
  find_nth_matching_branch_target(domain_get_current, 1, {"BL"})

\* find_domain_get_current().and_then(trace_gc_alloc_fixed).
traced == IF find_domain_get_current = None THEN None
          ELSE trace_gc_alloc_fixed(find_domain_get_current)

\* find_all: the offsets at which the pattern matches the haystack.
find_all(haystack, pattern) ==
  {i \in 0 .. Len(haystack) - Len(pattern) :
     pattern # << >> /\ \A k \in DOMAIN pattern : pattern[k] \in {Wildcard, haystack[i + k]}}

\* The first of them, if there are several, relative to where the image is.
find_gc_malloc_uncollectable ==
  LET matches == find_all(SubSeq(memory, BYTES.start, BYTES.end), Signature)
  IN IF matches = {} THEN None ELSE BYTES.start + Min(matches)

-----------------------------------------------------------------------------
(***************************************************************************)
(* xref_init by thread t.  Both OnceLocks have one thread compute a value  *)
(* and make the others wait; a panic leaves the cell empty.                *)
(***************************************************************************)
Goto(t, from, to) == pc[t] = from /\ pc' = [pc EXCEPT ![t] = to]

LoadModule ==
  /\ mapped < Len(Modules)
  /\ mapped' = mapped + 1
  /\ UNCHANGED <<process, BYTES, GC_FUNCTIONS, cells, pc, found>>

xref_init(t) ==
  /\ Goto(t, "outside", "bytes")
  /\ UNCHANGED <<process, mapped, BYTES, GC_FUNCTIONS, cells, found>>

BytesThere(t) ==
  /\ Goto(t, "bytes", "functions")
  /\ BYTES \in Segment
  /\ UNCHANGED <<process, mapped, BYTES, GC_FUNCTIONS, cells, found>>

BytesEmpty(t) ==
  /\ Goto(t, "bytes", "locate")
  /\ BYTES = None
  /\ BYTES' = Busy
  /\ UNCHANGED <<process, mapped, GC_FUNCTIONS, cells, found>>

Locate(t) ==
  /\ Goto(t, "locate", "functions")
  /\ find # None
  /\ BYTES' = find
  /\ UNCHANGED <<process, mapped, GC_FUNCTIONS, cells, found>>

\* Slip: the cell is as it was left when the panic began.
LocatePoisons(t) ==
  /\ Goto(t, "locate", "outside")
  /\ find = None
  /\ UNCHANGED <<process, mapped, BYTES, GC_FUNCTIONS, cells, found>>

LocatePanics(t) ==
  /\ Goto(t, "locate", "outside")
  /\ find = None
  /\ BYTES' = None
  /\ UNCHANGED <<process, mapped, GC_FUNCTIONS, cells, found>>

FunctionsThere(t) ==
  /\ Goto(t, "functions", "outside")
  /\ GC_FUNCTIONS \notin {"empty", Busy}
  /\ UNCHANGED <<process, mapped, BYTES, GC_FUNCTIONS, cells, found>>

\* Slip: the cell is looked at and filled later, with nobody kept waiting.
FunctionsRaced(t) ==
  /\ Goto(t, "functions", "resolve")
  /\ GC_FUNCTIONS = "empty"
  /\ UNCHANGED <<process, mapped, BYTES, GC_FUNCTIONS, cells, found>>

FunctionsEmpty(t) ==
  /\ Goto(t, "functions", "resolve")
  /\ GC_FUNCTIONS = "empty"
  /\ GC_FUNCTIONS' = Busy
  /\ UNCHANGED <<process, mapped, BYTES, cells, found>>

ResolveExported(t) ==
  /\ Goto(t, "resolve", "publish")
  /\ exported
  /\ found' = "gc_alloc_fixed_shim"
  /\ UNCHANGED <<process, mapped, BYTES, GC_FUNCTIONS, cells>>

\* The branches lead to the allocator: `set` keeps it, unless the cell is full,
\* when the answer is None.
Traced(t) ==
  /\ Goto(t, "resolve", "publish")
  /\ ~exported /\ traced # None
  /\ IF GARBAGE_COLLECTOR_ALLOCATE_FIXED = None
     THEN /\ GARBAGE_COLLECTOR_ALLOCATE_FIXED' = traced
          /\ found' = "wrapper_garbage_collector_allocate_fixed"
     ELSE found' = None /\ UNCHANGED GARBAGE_COLLECTOR_ALLOCATE_FIXED
  /\ UNCHANGED <<process, mapped, BYTES, GC_FUNCTIONS, WRAPPED_GC_MALLOC_UNCOLLECTABLE>>

NotTraced(t) ==
  /\ Goto(t, "resolve", "scan")
  /\ ~exported /\ traced = None
  /\ UNCHANGED <<process, mapped, BYTES, GC_FUNCTIONS, cells, found>>

Scanned(t) ==
  /\ Goto(t, "scan", "publish")
  /\ find_gc_malloc_uncollectable # None
  /\ IF WRAPPED_GC_MALLOC_UNCOLLECTABLE = None
     THEN /\ WRAPPED_GC_MALLOC_UNCOLLECTABLE' = find_gc_malloc_uncollectable
          /\ found' = "wrapper_gc_malloc_uncollectable"
     ELSE found' = None /\ UNCHANGED WRAPPED_GC_MALLOC_UNCOLLECTABLE
  /\ UNCHANGED <<process, mapped, BYTES, GC_FUNCTIONS, GARBAGE_COLLECTOR_ALLOCATE_FIXED>>

NotScanned(t) ==
  /\ Goto(t, "scan", "publish")
  /\ find_gc_malloc_uncollectable = None
  /\ found' = None
  /\ UNCHANGED <<process, mapped, BYTES, GC_FUNCTIONS, cells>>

Publish(t) ==
  /\ Goto(t, "publish", "outside")
  /\ GC_FUNCTIONS' = found
  /\ UNCHANGED <<process, mapped, BYTES, cells, found>>

\* GcAllocator::new on any thread of the program: reads GC_FUNCTIONS, empty or
\* not, and never waits.
GcAllocatorNew == UNCHANGED vars

\* What a thread in xref_init does by itself.
Go(t) ==
  \/ BytesThere(t) \/ BytesEmpty(t) \/ Locate(t) \/ LocatePanics(t)
  \/ FunctionsThere(t) \/ FunctionsEmpty(t) \/ ResolveExported(t)
  \/ Traced(t) \/ NotTraced(t) \/ Scanned(t) \/ NotScanned(t) \/ Publish(t)

Next == LoadModule \/ GcAllocatorNew \/ \E t \in Thread : xref_init(t) \/ Go(t)

Spec == Init /\ [][Next]_vars

FairSpec == Spec /\ \A t \in Thread : WF_vars(Go(t))

-----------------------------------------------------------------------------
\* What a function GcAllocator got calls when it is called: nothing where it got
\* none, and where the wrapper's cell is empty, which panics.
wrapped(f) ==
  CASE f = "gc_alloc_fixed_shim" -> f
    [] f = "wrapper_garbage_collector_allocate_fixed" -> GARBAGE_COLLECTOR_ALLOCATE_FIXED
    [] f = "wrapper_gc_malloc_uncollectable" -> WRAPPED_GC_MALLOC_UNCOLLECTABLE
    [] f = None -> f

(***************************************************************************)
(* However many threads call xref_init at a time, and however often it has *)
(* panicked, the wrapper that GcAllocator can see is the one whose cell is *)
(* set: neither `expect` in xref/arm64/gc.rs fails, and no search loses    *)
(* its answer to a `set` that comes second.                                *)
(***************************************************************************)
WrapperHasTarget ==
  GC_FUNCTIONS \notin {"empty", Busy} =>
    /\ GC_FUNCTIONS = "wrapper_garbage_collector_allocate_fixed"
         <=> GARBAGE_COLLECTOR_ALLOCATE_FIXED # None
    /\ GC_FUNCTIONS = "wrapper_gc_malloc_uncollectable"
         <=> WRAPPED_GC_MALLOC_UNCOLLECTABLE # None

\* The first word of the kinds `ops` from addr on, in reach and with nothing
\* before it that does not decode.
Reach(addr, ops) ==
  {i \in addr .. Size :
     /\ i < addr + MAX_BRANCH_SEARCH_INSTRUCTIONS
     /\ memory[i].op \in ops
     /\ \A j \in addr .. i - 1 : memory[j].op \notin ops \cup {"undecodable"}}

(***************************************************************************)
(* What fixed allocations call is the allocator of XREF's comment          *)
(* (xref/arm64/gc.rs:16): the first function called by the function that   *)
(* il2cpp_domain_get's first branch leads to; where there is none, the     *)
(* first place of the image with the signature, as an address.  Where      *)
(* neither leads anywhere nothing is said: the code publishes None, which  *)
(* raw/gc.rs:38-40 says only a build without the xref feature does.        *)
(***************************************************************************)
AllocatorIsOwn ==
  GC_FUNCTIONS \notin {"empty", Busy} /\ ~exported =>
    LET calls == {memory[j].to : j \in UNION {Reach(memory[i].to, {"BL"}) :
                    i \in IF domain_get = None THEN {} ELSE Reach(domain_get, {"B", "BL"})}}
        signed == {a \in Address : \E s \in Segment :
                     /\ s.start = a /\ s.end = a + Len(Signature) - 1
                     /\ BYTES.start <= s.start /\ s.end <= BYTES.end
                     /\ \A k \in DOMAIN Signature : Signature[k] \in {Wildcard, memory[a + k - 1]}}
    IN /\ calls # {} => {wrapped(GC_FUNCTIONS)} = calls
       /\ calls = {} /\ signed # {} =>
            /\ wrapped(GC_FUNCTIONS) \in signed
            /\ \A a \in signed : wrapped(GC_FUNCTIONS) <= a

(***************************************************************************)
(* Once libil2cpp is mapped, a thread that is in xref_init, or comes to    *)
(* call it, leaves it, whoever else is in it and whatever panicked before: *)
(* no panic leaves a cell that all wait for.                               *)
(***************************************************************************)
InitEnds == \A t \in Thread : pc[t] # "outside" /\ find # None ~> pc[t] = "outside"

=============================================================================
