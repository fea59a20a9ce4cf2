-------------------------- MODULE XrefSearchProofs --------------------------
(***************************************************************************)
(* Proofs about xref_init, for any threads, memories and modules: the      *)
(* image it finds has addresses, the wrapper it publishes has a function   *)
(* to call, and that is the one the branches, or else the signature, lead  *)
(* to.                                                                     *)
(***************************************************************************)
EXTENDS XrefSearch, FiniteSetTheorems, SequenceTheorems, WellFoundedInduction, TLAPS

-----------------------------------------------------------------------------
(***************************************************************************)
(* The least and the greatest of some numbers.                             *)
(***************************************************************************)
LEMMA LeastNumber ==
  ASSUME NEW S \in SUBSET Nat, S # {}
  PROVE  \E m \in S : \A k \in S : m <= k
<1>1. PICK m \in S : \A k \in S : <<k, m>> \notin OpToRel(<, Nat)
  BY NatLessThanWellFounded, WFMin
<1>2. ASSUME NEW k \in S PROVE m <= k
  <2>1. ~(k < m)
    BY <1>1 DEF OpToRel
  <2>2. QED
    BY <2>1
<1>3. QED
  BY <1>2

LEMMA MinIsLeast ==
  ASSUME NEW S \in SUBSET Nat, S # {}
  PROVE  Min(S) \in S /\ \A k \in S : Min(S) <= k
BY LeastNumber DEF Min

LEMMA MaxIsGreatest ==
  ASSUME NEW S \in SUBSET Nat, S # {}, NEW n \in Nat, \A k \in S : k <= n
  PROVE  Max(S) \in S /\ \A k \in S : Max(S) >= k
<1>1. PICK m \in {n - k : k \in S} : \A j \in {n - k : k \in S} : m <= j
  <2>1. \A k \in S : n - k \in Nat
    OBVIOUS
  <2>2. {n - k : k \in S} \in SUBSET Nat
    BY ONLY <2>1
  <2>3. {n - k : k \in S} # {}
    OBVIOUS
  <2> QED
    BY <2>2, <2>3, LeastNumber
<1>2. PICK x \in S : m = n - x
  BY <1>1
<1>3. \A k \in S : x >= k
  BY <1>1, <1>2
<1> QED
  BY <1>3 DEF Max

\* The image that is found has addresses.
LEMMA FindType ==
  ASSUME mapped \in 0 .. Len(Modules)
  PROVE  find \in Segment \cup {None}
<1> DEFINE named == {i \in 1 .. mapped : Modules[i].il2cpp}
           first == Modules[CHOOSE i \in named : \A j \in named : i <= j].segments
<1> SUFFICES ASSUME named # {}, first # {}
             PROVE  [start |-> Min({s.start : s \in first}), end |-> Max({s.end : s \in first})] \in Segment
  BY Zenon DEF find
<1>1. (CHOOSE i \in named : \A j \in named : i <= j) \in 1 .. Len(Modules)
  <2>1. named \in SUBSET Nat
    OBVIOUS
  <2>2. \E m \in named : \A k \in named : m <= k
    BY <2>1, LeastNumber
  <2>3. (CHOOSE i \in named : \A j \in named : i <= j) \in named
    BY <2>2
  <2>4. named \in SUBSET (1 .. Len(Modules))
    BY XrefAssumption
  <2> QED
    BY <2>3, <2>4
<1>2. first \in SUBSET Segment
  <2> DEFINE Module == [il2cpp : BOOLEAN, segments : SUBSET Segment]
  <2>1. \A i \in 1 .. Len(Modules) : Modules[i] \in Module
    <3>1. Modules \in Seq(Module)
      BY XrefAssumption
    <3> HIDE DEF Module
    <3> QED
      BY ONLY <3>1
  <2>2. \A i \in 1 .. Len(Modules) : Modules[i].segments \in SUBSET Segment
    BY <2>1
  <2> HIDE DEF named
  <2> QED
    BY <1>1, <2>2
<1> DEFINE starts == {s.start : s \in first}
           ends   == {s.end : s \in first}
<1> HIDE DEF first, named
<1>3. /\ \A s \in first : s.start \in 1 .. Size /\ s.end \in 1 .. Size /\ s.start <= s.end
      /\ Size \in Nat
  BY <1>2, XrefAssumption DEF Segment, Address
<1>4. starts \in SUBSET Nat /\ starts # {} /\ ends \in SUBSET Nat /\ ends # {} /\ \A k \in ends : k <= Size
  BY <1>3
<1>5. Min(starts) \in starts /\ \A k \in starts : Min(starts) <= k
  BY <1>4, MinIsLeast
<1>6. Max(ends) \in ends /\ \A k \in ends : Max(ends) >= k
  BY <1>3, <1>4, MaxIsGreatest
<1>7. PICK a \in first, b \in first : Min(starts) = a.start /\ Max(ends) = b.end
  BY <1>5, <1>6
<1>8. a.start <= b.start
  <2>1. b.start \in starts
    OBVIOUS
  <2> QED
    BY <2>1, <1>5, <1>7
<1>9. a.start \in Address /\ b.end \in Address /\ a.start <= b.end
  BY <1>3, <1>8 DEF Address
<1> QED
  BY <1>7, <1>9 DEF Segment

-----------------------------------------------------------------------------
(***************************************************************************)
(* The searches and what they look for.                                    *)
(***************************************************************************)

\* What a search for the first branch finds is what is in reach.
LEMMA FirstBranch ==
  ASSUME memory \in [Address -> Word], NEW addr \in Address,
         NEW ops, "undecodable" \notin ops
  PROVE  LET target == find_nth_matching_branch_target(addr, 1, ops)
         IN \/ Reach(addr, ops) = {} /\ target = None
            \/ \E i \in Address : Reach(addr, ops) = {i} /\ target = memory[i].to /\ target \in Address
<1> DEFINE last == addr + MAX_BRANCH_SEARCH_INSTRUCTIONS - 1
           end == Min({last, Size})
           hit == {i \in addr .. end : /\ memory[i].op \in ops
                                       /\ \A j \in addr .. i : memory[j].op # "undecodable"}
           nth == {i \in hit : Cardinality({j \in hit : j < i}) = 1 - 1}
<1>1. addr \in Nat /\ Size \in Nat /\ last \in Nat /\ end \in Nat /\ 1 <= addr
      /\ \A i \in Nat : i <= end <=> i < addr + MAX_BRANCH_SEARCH_INSTRUCTIONS /\ i <= Size
  <2>1. addr \in Nat /\ Size \in Nat /\ last \in Nat /\ 1 <= addr /\ MAX_BRANCH_SEARCH_INSTRUCTIONS \in Nat
    BY XrefAssumption DEF Address
  <2> HIDE DEF last
  <2>2. end \in {last, Size} /\ end <= last /\ end <= Size
    BY <2>1, MinIsLeast
  <2> HIDE DEF end
  <2>3. \A i \in Nat : i <= end <=> i <= last /\ i <= Size
    BY <2>1, <2>2
  <2> QED
    BY <2>1, <2>2, <2>3 DEF last
<1>2. \A i \in hit : IsFiniteSet({j \in hit : j < i})
  <2>1. IsFiniteSet(addr .. end)
    BY <1>1, FS_Interval
  <2> HIDE DEF end
  <2> QED
    BY <2>1, FS_Subset
<1> HIDE DEF end, last
<1>3. \A i \in hit : i \in nth <=> \A j \in hit : ~(j < i)
  <2> TAKE i \in hit
  <2> DEFINE before == {j \in hit : j < i}
  <2>1. IsFiniteSet(before)
    BY <1>2
  <2>2. i \in nth <=> Cardinality(before) = 0
    OBVIOUS
  <2>3. Cardinality(before) = 0 <=> before = {}
    BY <2>1, FS_EmptySet
  <2> QED
    BY <2>2, <2>3
<1>4. nth = Reach(addr, ops)
  <2>1. ASSUME NEW i \in nth PROVE i \in Reach(addr, ops)
    <3>1. i \in hit /\ \A j \in hit : ~(j < i)
      BY <1>3
    <3>2. i \in addr .. Size /\ i < addr + MAX_BRANCH_SEARCH_INSTRUCTIONS /\ memory[i].op \in ops
      BY <3>1, <1>1
    <3>3. ASSUME NEW j \in addr .. i - 1 PROVE memory[j].op \notin ops \cup {"undecodable"}
      <4>1. j \in addr .. i /\ j \in addr .. end /\ j < i
        BY <1>1, <3>1
      <4>2. \A k \in addr .. j : k \in addr .. i
        BY <4>1, <1>1, <3>1
      <4> QED
        BY <3>1, <4>1, <4>2
    <3> QED
      BY <3>2, <3>3 DEF Reach
  <2>2. ASSUME NEW i \in Reach(addr, ops) PROVE i \in nth
    <3>1. i \in addr .. end /\ memory[i].op \in ops /\ \A j \in addr .. i - 1 : memory[j].op \notin ops \cup {"undecodable"}
      BY <1>1 DEF Reach
    <3>2. \A j \in addr .. i : j = i \/ j \in addr .. i - 1
      BY <1>1, <3>1
    <3>3. i \in hit
      BY <3>1, <3>2
    <3>4. \A j \in hit : ~(j < i)
      <4>1. ASSUME NEW j \in hit, j < i PROVE FALSE
        <5>1. j \in addr .. i - 1
          BY <4>1, <1>1, <3>1
        <5> QED
          BY <5>1, <3>1
      <4> QED
        BY <4>1
    <3> QED
      BY <3>3, <3>4, <1>3
  <2> HIDE DEF nth
  <2> QED
    BY <2>1, <2>2
<1>5. \A i, j \in nth : i = j
  <2>1. \A i, j \in nth : i \in Nat /\ j \in Nat /\ ~(j < i)
    BY <1>1, <1>3
  <2> HIDE DEF nth
  <2> QED
    BY <2>1
<1>6. \A i \in nth : i \in Address /\ memory[i].to \in Address
  <2>1. \A i \in nth : i \in Address
    BY <1>1 DEF Address
  <2> QED
    BY <2>1 DEF Word
<1>7. find_nth_matching_branch_target(addr, 1, ops) =
        IF nth = {} THEN None ELSE memory[CHOOSE i \in nth : TRUE].to
  BY Zenon DEF find_nth_matching_branch_target, end, last
<1> HIDE DEF nth
<1>8. CASE nth = {}
  BY <1>4, <1>7, <1>8
<1>9. CASE nth # {}
  <2>1. PICK i \in nth : i = CHOOSE k \in nth : TRUE
    BY <1>9
  <2>2. nth = {i}
    BY <1>5
  <2> QED
    BY <1>4, <1>6, <1>7, <1>9, <2>1, <2>2
<1> QED
  BY <1>8, <1>9

\* The functions called by the function that il2cpp_domain_get's first branch
\* leads to.
Calls == {memory[j].to : j \in UNION {Reach(memory[i].to, {"BL"}) :
            i \in IF domain_get = None THEN {} ELSE Reach(domain_get, {"B", "BL"})}}

LEMMA TracedIsCalled ==
  ASSUME TypeOK
  PROVE  traced \in Address \cup {None} /\ Calls = IF traced = None THEN {} ELSE {traced}
<1>1. memory \in [Address -> Word] /\ domain_get \in Address \cup {None} /\ None \notin Address
  BY XrefAssumption DEF TypeOK
<1>2. CASE domain_get = None
  <2>1. traced = None
    BY <1>2 DEF traced, find_domain_get_current
  <2> QED
    BY <2>1, <1>2 DEF Calls
<1>3. CASE domain_get # None
  <2> DEFINE current == find_nth_matching_branch_target(domain_get, 1, {"B", "BL"})
             called  == find_nth_matching_branch_target(current, 1, {"BL"})
  <2>1. domain_get \in Address /\ find_domain_get_current = current
    BY <1>1, <1>3 DEF find_domain_get_current
  <2>2. traced = IF current = None THEN None ELSE called
    BY <2>1 DEF traced, trace_gc_alloc_fixed
  <2>3. Calls = {memory[j].to : j \in UNION {Reach(memory[i].to, {"BL"}) : i \in Reach(domain_get, {"B", "BL"})}}
    BY <1>3 DEF Calls
  <2>4. \/ Reach(domain_get, {"B", "BL"}) = {} /\ current = None
        \/ \E i \in Address : /\ Reach(domain_get, {"B", "BL"}) = {i}
                              /\ current = memory[i].to /\ current \in Address
    BY <1>1, <2>1, FirstBranch
  <2> HIDE DEF current
  <2>5. CASE Reach(domain_get, {"B", "BL"}) = {} /\ current = None
    BY <2>2, <2>3, <2>5
  <2>6. ASSUME NEW i \in Address, Reach(domain_get, {"B", "BL"}) = {i},
               current = memory[i].to, current \in Address
        PROVE  traced \in Address \cup {None} /\ Calls = IF traced = None THEN {} ELSE {traced}
    <3>1. \/ Reach(current, {"BL"}) = {} /\ called = None
          \/ \E j \in Address : Reach(current, {"BL"}) = {j} /\ called = memory[j].to /\ called \in Address
      BY <1>1, <2>6, FirstBranch
    <3>2. Calls = {memory[j].to : j \in Reach(current, {"BL"})}
      BY <2>3, <2>6
    <3>3. traced = called
      BY <1>1, <2>2, <2>6
    <3> HIDE DEF called
    <3> QED
      BY <1>1, <3>1, <3>2, <3>3
  <2> QED
    BY <2>4, <2>5, <2>6
<1> QED
  BY <1>2, <1>3

\* The places of the image with the signature.
Signed == {a \in Address : \E s \in Segment :
             /\ s.start = a /\ s.end = a + Len(Signature) - 1
             /\ BYTES.start <= s.start /\ s.end <= BYTES.end
             /\ \A k \in DOMAIN Signature : Signature[k] \in {Wildcard, memory[a + k - 1]}}

LEMMA ScannedIsSigned ==
  ASSUME TypeOK, BYTES \in Segment
  PROVE  LET found_at == find_gc_malloc_uncollectable
         IN \/ Signed = {} /\ found_at = None
            \/ found_at \in Signed /\ found_at \in Address /\ \A a \in Signed : found_at <= a
<1> DEFINE start == BYTES.start
           end == BYTES.end
           image == SubSeq(memory, start, end)
           n == Len(Signature)
           matches == find_all(image, Signature)
<1>1. start \in Nat /\ end \in Nat /\ 1 <= start /\ start <= end /\ end <= Size /\ Size \in Nat
  BY XrefAssumption DEF Segment, Address
<1>2. n \in Nat /\ DOMAIN Signature = 1 .. n /\ (Signature = << >> <=> n = 0)
  <2> DEFINE W == Word \cup {Wildcard}
  <2>1. Signature \in Seq(W)
    BY XrefAssumption
  <2> HIDE DEF W
  <2> QED
    BY ONLY <2>1
<1>3. Len(image) = end - start + 1 /\ \A i \in 1 .. end - start + 1 : image[i] = memory[start + i - 1]
  <2>1. \A i \in start .. end : memory[i] \in Word
    BY <1>1, XrefAssumption DEF TypeOK, Address
  <2> HIDE DEF start, end
  <2> QED
    BY <1>1, <2>1, SubSeqProperties
<1> HIDE DEF image, start, end
<1>4. \A i \in matches : i \in Nat /\ start + i \in Signed
  <2> TAKE i \in matches
  <2>1. i \in 0 .. (end - start + 1) - n /\ n # 0
        /\ \A k \in DOMAIN Signature : Signature[k] \in {Wildcard, image[i + k]}
    BY <1>1, <1>2, <1>3 DEF find_all
  <2>2. \A k \in DOMAIN Signature : image[i + k] = memory[(start + i) + k - 1]
    <3> TAKE k \in DOMAIN Signature
    <3>1. i + k \in 1 .. end - start + 1 /\ start + (i + k) - 1 = (start + i) + k - 1
      BY <1>1, <1>2, <2>1
    <3> QED
      BY <1>3, <3>1
  <2> DEFINE s == [start |-> start + i, end |-> start + i + n - 1]
  <2>3. start + i \in Address /\ start + i + n - 1 \in Address /\ start + i <= start + i + n - 1
        /\ start <= start + i /\ start + i + n - 1 <= end
    BY <1>1, <1>2, <2>1 DEF Address
  <2>4. s \in Segment
    BY <2>3 DEF Segment
  <2> QED
    BY <2>1, <2>2, <2>3, <2>4 DEF Signed, start, end
<1>5. \A a \in Signed : a - start \in matches
  <2> TAKE a \in Signed
  <2>1. a \in Nat /\ start <= a /\ a + n - 1 <= end /\ a <= a + n - 1
    BY <1>1, <1>2 DEF Signed, Segment, Address, start, end
  <2>2. \A k \in DOMAIN Signature : Signature[k] \in {Wildcard, memory[a + k - 1]}
    BY DEF Signed
  <2>3. \A k \in DOMAIN Signature : image[(a - start) + k] = memory[a + k - 1]
    <3> TAKE k \in DOMAIN Signature
    <3>1. (a - start) + k \in 1 .. end - start + 1 /\ start + ((a - start) + k) - 1 = a + k - 1
      BY <1>1, <1>2, <2>1
    <3> QED
      BY <1>3, <3>1
  <2>4. a - start \in 0 .. Len(image) - n /\ Signature # << >>
    BY <1>1, <1>2, <1>3, <2>1
  <2> QED
    BY <2>2, <2>3, <2>4 DEF find_all
<1>6. find_gc_malloc_uncollectable = IF matches = {} THEN None ELSE start + Min(matches)
  BY Zenon DEF find_gc_malloc_uncollectable, image, start, end
<1> HIDE DEF matches
<1>7. CASE matches = {}
  BY <1>5, <1>6, <1>7
<1>8. CASE matches # {}
  <2>1. Min(matches) \in matches /\ \A k \in matches : Min(matches) <= k
    BY <1>4, <1>8, MinIsLeast
  <2>2. start + Min(matches) \in Signed
    BY <1>4, <2>1
  <2>3. \A a \in Signed : a \in Nat /\ Min(matches) <= a - start
    BY <1>5, <2>1 DEF Signed, Address
  <2>4. \A a \in Signed : start + Min(matches) <= a
    BY <1>1, <1>4, <2>1, <2>3
  <2> QED
    BY <1>6, <1>8, <2>2, <2>4 DEF Signed
<1> QED
  BY <1>7, <1>8

-----------------------------------------------------------------------------
(***************************************************************************)
(* The image: whoever looks for it does so alone, and once it is there it  *)
(* stays.                                                                  *)
(***************************************************************************)
Located == {t \in Thread : pc[t] \in {"functions", "resolve", "scan", "publish"}}

BytesHeld ==
  /\ \A t \in Thread : pc[t] = "locate" => BYTES = Busy
  /\ \A t, u \in Thread : pc[t] = "locate" /\ pc[u] = "locate" => t = u
  /\ Located # {} \/ GC_FUNCTIONS \notin {"empty", Busy} => BYTES \in Segment

SearchInv == TypeOK /\ BytesHeld

LEMMA SearchStart == Init => SearchInv
<1> SUFFICES ASSUME Init PROVE SearchInv
  OBVIOUS
<1>1. Len(Modules) \in Nat
  <2> DEFINE Module == [il2cpp : BOOLEAN, segments : SUBSET Segment]
  <2>1. Modules \in Seq(Module)
    BY XrefAssumption
  <2> HIDE DEF Module
  <2> QED
    BY ONLY <2>1
<1>2. TypeOK
  BY <1>1 DEF Init, TypeOK
<1>3. BytesHeld
  BY DEF Init, BytesHeld, Located
<1> QED
  BY <1>2, <1>3 DEF SearchInv

LEMMA SearchStep == SearchInv /\ [Next]_vars => SearchInv'
<1> SUFFICES ASSUME SearchInv, [Next]_vars PROVE SearchInv'
  OBVIOUS
<1>0. TypeOK /\ BytesHeld /\ Busy # None /\ Busy \notin Segment /\ None \notin Segment
  BY XrefAssumption DEF SearchInv
<1> DEFINE Places == {"outside", "bytes", "locate", "functions", "resolve", "scan", "publish"}
<1>1. CASE UNCHANGED vars
  BY <1>0, <1>1 DEF SearchInv, TypeOK, BytesHeld, Located, vars, process, cells
<1>2. CASE LoadModule
  <2>1. mapped' \in 0 .. Len(Modules)
    BY <1>0, <1>2 DEF LoadModule, TypeOK
  <2> QED
    BY <1>0, <1>2, <2>1 DEF SearchInv, TypeOK, BytesHeld, Located, LoadModule, process, cells
<1>3. ASSUME NEW t \in Thread, xref_init(t) \/ BytesThere(t) \/ BytesEmpty(t) \/ LocatePanics(t)
                                 \/ FunctionsThere(t) \/ FunctionsEmpty(t) \/ NotTraced(t)
      PROVE  SearchInv'
  <2>1. TypeOK'
    BY <1>0, <1>3 DEF TypeOK, Goto, process, cells, xref_init, BytesThere, BytesEmpty, LocatePanics,
       FunctionsThere, FunctionsEmpty, NotTraced
  <2>2. BytesHeld'
    BY <1>0, <1>3 DEF TypeOK, BytesHeld, Located, Goto, xref_init, BytesThere, BytesEmpty,
       LocatePanics, FunctionsThere, FunctionsEmpty, NotTraced
  <2> QED
    BY <2>1, <2>2 DEF SearchInv
<1>4. ASSUME NEW t \in Thread, Locate(t) PROVE SearchInv'
  <2>1. find \in Segment
    BY <1>0, <1>4, FindType DEF TypeOK, Locate
  <2>2. TypeOK'
    BY <1>0, <1>4, <2>1 DEF TypeOK, Goto, process, cells, Locate
  <2>3. BytesHeld'
    BY <1>0, <1>4, <2>1 DEF TypeOK, BytesHeld, Located, Goto, Locate
  <2> QED
    BY <2>2, <2>3 DEF SearchInv
<1>5. ASSUME NEW t \in Thread,
             ResolveExported(t) \/ Traced(t) \/ Scanned(t) \/ NotScanned(t) \/ Publish(t)
      PROVE  SearchInv'
  <2>1. traced \in Address \cup {None}
    BY <1>0, TracedIsCalled
  <2>2. BYTES \in Segment
    BY <1>0, <1>5 DEF BytesHeld, Located, Goto, ResolveExported, Traced, Scanned, NotScanned, Publish
  <2>3. find_gc_malloc_uncollectable \in Address \cup {None}
    BY <1>0, <2>2, ScannedIsSigned
  <2>4. TypeOK'
    BY <1>0, <1>5, <2>1, <2>3 DEF TypeOK, Goto, process, cells, Function, ResolveExported, Traced,
       Scanned, NotScanned, Publish
  <2>5. BytesHeld'
    BY <1>0, <1>5, <2>2 DEF TypeOK, BytesHeld, Goto, ResolveExported, Traced, Scanned, NotScanned,
       Publish
  <2> QED
    BY <2>4, <2>5 DEF SearchInv
<1> QED
  BY <1>1, <1>2, <1>3, <1>4, <1>5 DEF Next, Go, GcAllocatorNew

(***************************************************************************)
(* The cells of xref_init, of any threads, memories and modules, hold what *)
(* they are declared to, an image and addresses in the memory.             *)
(***************************************************************************)
THEOREM TypeCorrect == Spec => []TypeOK
<1>1. SearchInv => TypeOK
  BY DEF SearchInv
<1> QED
  BY <1>1, SearchStart, SearchStep, PTL DEF Spec

-----------------------------------------------------------------------------
\* The thread that fills GC_FUNCTIONS.
Resolving == {t \in Thread : pc[t] \in {"resolve", "scan", "publish"}}

Traced1 == GARBAGE_COLLECTOR_ALLOCATE_FIXED # None
Scanned1 == WRAPPED_GC_MALLOC_UNCOLLECTABLE # None

\* The control state has its type; the addresses need none here.
ControlOK ==
  /\ pc \in [Thread -> {"outside", "bytes", "locate", "functions", "resolve", "scan", "publish"}]
  /\ found \in Function \cup {None}
  /\ GC_FUNCTIONS \in Function \cup {None, "empty", Busy}

\* One thread resolves, and only while GC_FUNCTIONS is Busy.
OneResolver ==
  /\ \A t \in Resolving : GC_FUNCTIONS = Busy
  /\ \A t, u \in Resolving : t = u

\* Before its answer there is nothing in the cells, and then what it answers.
CellsFollow ==
  /\ GC_FUNCTIONS = "empty" => ~Traced1 /\ ~Scanned1
  /\ \A t \in Thread : pc[t] \in {"resolve", "scan"} => ~Traced1 /\ ~Scanned1
  /\ \A t \in Thread : pc[t] = "publish" =>
       /\ found = "wrapper_garbage_collector_allocate_fixed" <=> Traced1
       /\ found = "wrapper_gc_malloc_uncollectable" <=> Scanned1

WrapperInv == ControlOK /\ OneResolver /\ CellsFollow /\ WrapperHasTarget

LEMMA WrapperStart == Init => WrapperInv
BY XrefAssumption DEF Init, WrapperInv, ControlOK, OneResolver, CellsFollow, WrapperHasTarget,
   Resolving, Traced1, Scanned1, Function

LEMMA WrapperStep == WrapperInv /\ [Next]_vars => WrapperInv'
<1> SUFFICES ASSUME WrapperInv, [Next]_vars PROVE WrapperInv'
  OBVIOUS
<1> USE XrefAssumption DEF WrapperInv, ControlOK, OneResolver, CellsFollow, WrapperHasTarget,
        Resolving, Traced1, Scanned1, Function, Goto, cells
<1>1. CASE UNCHANGED vars
  BY <1>1 DEF vars
<1>2. CASE LoadModule
  BY <1>2 DEF LoadModule
<1>3. ASSUME NEW t \in Thread, xref_init(t) \/ BytesThere(t) \/ BytesEmpty(t) \/ Locate(t)
                                 \/ LocatePanics(t) \/ FunctionsThere(t)
      PROVE  WrapperInv'
  BY <1>3 DEF xref_init, BytesThere, BytesEmpty, Locate, LocatePanics, FunctionsThere
<1>4. ASSUME NEW t \in Thread, FunctionsEmpty(t) PROVE WrapperInv'
  BY <1>4 DEF FunctionsEmpty
<1>5. ASSUME NEW t \in Thread, ResolveExported(t) PROVE WrapperInv'
  BY <1>5 DEF ResolveExported
<1>6. ASSUME NEW t \in Thread, Traced(t) PROVE WrapperInv'
  <2>1. GARBAGE_COLLECTOR_ALLOCATE_FIXED = None /\ WRAPPED_GC_MALLOC_UNCOLLECTABLE = None
    BY <1>6 DEF Traced
  <2>2. GARBAGE_COLLECTOR_ALLOCATE_FIXED' # None /\ WRAPPED_GC_MALLOC_UNCOLLECTABLE' = None
    BY ONLY <1>6, <2>1 DEF Traced
  <2>3. found' = "wrapper_garbage_collector_allocate_fixed"
    BY ONLY <1>6, <2>1 DEF Traced
  <2>4. pc' = [pc EXCEPT ![t] = "publish"] /\ GC_FUNCTIONS' = GC_FUNCTIONS /\ GC_FUNCTIONS = Busy
    BY <1>6 DEF Traced
  <2>5. ControlOK' /\ WrapperHasTarget'
    BY <2>3, <2>4
  <2>6. \A u \in Thread \ {t} : u \notin Resolving /\ pc'[u] = pc[u]
    BY <1>6, <2>4 DEF Traced
  <2>7. OneResolver'
    BY <2>4, <2>6
  <2>8. CellsFollow'
    BY <2>2, <2>3, <2>4, <2>6
  <2> QED
    BY <2>5, <2>7, <2>8
<1>7. ASSUME NEW t \in Thread, NotTraced(t) PROVE WrapperInv'
  BY <1>7 DEF NotTraced
<1>8. ASSUME NEW t \in Thread, Scanned(t) PROVE WrapperInv'
  <2>1. WRAPPED_GC_MALLOC_UNCOLLECTABLE = None /\ GARBAGE_COLLECTOR_ALLOCATE_FIXED = None
    BY <1>8 DEF Scanned
  <2>2. WRAPPED_GC_MALLOC_UNCOLLECTABLE' # None /\ GARBAGE_COLLECTOR_ALLOCATE_FIXED' = None
    BY ONLY <1>8, <2>1 DEF Scanned
  <2>3. found' = "wrapper_gc_malloc_uncollectable"
    BY ONLY <1>8, <2>1 DEF Scanned
  <2>4. pc' = [pc EXCEPT ![t] = "publish"] /\ GC_FUNCTIONS' = GC_FUNCTIONS /\ GC_FUNCTIONS = Busy
    BY <1>8 DEF Scanned
  <2>5. ControlOK' /\ WrapperHasTarget'
    BY <2>3, <2>4
  <2>6. \A u \in Thread \ {t} : u \notin Resolving /\ pc'[u] = pc[u]
    BY <1>8, <2>4 DEF Scanned
  <2>7. OneResolver'
    BY <2>4, <2>6
  <2>8. CellsFollow'
    BY <2>2, <2>3, <2>4, <2>6
  <2> QED
    BY <2>5, <2>7, <2>8
<1>9. ASSUME NEW t \in Thread, NotScanned(t) PROVE WrapperInv'
  BY <1>9 DEF NotScanned
<1>10. ASSUME NEW t \in Thread, Publish(t) PROVE WrapperInv'
  BY <1>10 DEF Publish
<1> QED
  BY <1>1, <1>2, <1>3, <1>4, <1>5, <1>6, <1>7, <1>8, <1>9, <1>10 DEF Next, Go, GcAllocatorNew

(***************************************************************************)
(* However many threads are in xref_init, of any memory and with any       *)
(* modules: what the code published is backed by its cell.                 *)
(***************************************************************************)
THEOREM WrapperIsBacked == Spec => []WrapperHasTarget
<1>1. Init => WrapperInv
  BY WrapperStart
<1>2. WrapperInv /\ [Next]_vars => WrapperInv'
  BY WrapperStep
<1>3. WrapperInv => WrapperHasTarget
  BY DEF WrapperInv
<1> QED
  BY <1>1, <1>2, <1>3, PTL DEF Spec

-----------------------------------------------------------------------------
(***************************************************************************)
(* What is published is what there is to find in the memory.               *)
(***************************************************************************)
IsOwn(f) ==
  /\ traced # None => /\ f = "wrapper_garbage_collector_allocate_fixed"
                      /\ GARBAGE_COLLECTOR_ALLOCATE_FIXED = traced
  /\ traced = None /\ find_gc_malloc_uncollectable # None =>
       /\ f = "wrapper_gc_malloc_uncollectable"
       /\ WRAPPED_GC_MALLOC_UNCOLLECTABLE = find_gc_malloc_uncollectable
  /\ traced = None /\ find_gc_malloc_uncollectable = None => f = None

OwnFound ==
  /\ \A t \in Thread : pc[t] = "scan" => ~exported /\ traced = None
  /\ \A t \in Thread : pc[t] = "publish" /\ ~exported => IsOwn(found)
  /\ GC_FUNCTIONS \notin {"empty", Busy} /\ ~exported => IsOwn(GC_FUNCTIONS)

AllocatorInv == SearchInv /\ WrapperInv /\ OwnFound

\* The branches never change; the signature is where it was once the image is there.
LEMMA SearchesStay ==
  ASSUME AllocatorInv, [Next]_vars
  PROVE  /\ traced' = traced /\ exported' = exported
         /\ Located # {} \/ GC_FUNCTIONS \notin {"empty", Busy} =>
              find_gc_malloc_uncollectable' = find_gc_malloc_uncollectable
<1>1. UNCHANGED process
  BY DEF Next, Go, vars, LoadModule, GcAllocatorNew, xref_init, BytesThere, BytesEmpty, Locate,
     LocatePanics, FunctionsThere, FunctionsEmpty, ResolveExported, Traced, NotTraced, Scanned,
     NotScanned, Publish
<1>2. traced' = traced
  BY <1>1 DEF process, traced, find_domain_get_current, trace_gc_alloc_fixed,
     find_nth_matching_branch_target
<1>3. ASSUME BYTES \in Segment PROVE BYTES' = BYTES
  <2>1. BYTES # None /\ BYTES # Busy
    BY <1>3, XrefAssumption
  <2>2. \A t \in Thread : pc[t] # "locate"
    BY <2>1 DEF AllocatorInv, SearchInv, BytesHeld
  <2> QED
    BY <2>1, <2>2 DEF Next, Go, vars, LoadModule, GcAllocatorNew, xref_init, BytesThere, BytesEmpty,
       Locate, LocatePanics, FunctionsThere, FunctionsEmpty, ResolveExported, Traced, NotTraced,
       Scanned, NotScanned, Publish, Goto
<1>4. Located # {} \/ GC_FUNCTIONS \notin {"empty", Busy} => BYTES' = BYTES
  BY <1>3 DEF AllocatorInv, SearchInv, BytesHeld
<1>5. BYTES' = BYTES => find_gc_malloc_uncollectable' = find_gc_malloc_uncollectable
  BY <1>1 DEF process, find_gc_malloc_uncollectable, find_all
<1> QED
  BY <1>1, <1>2, <1>4, <1>5 DEF process

LEMMA OwnStart == Init => OwnFound
BY XrefAssumption DEF Init, OwnFound

LEMMA OwnStep == AllocatorInv /\ [Next]_vars => OwnFound'
<1> SUFFICES ASSUME AllocatorInv, [Next]_vars PROVE OwnFound'
  OBVIOUS
<1>1. /\ traced' = traced /\ exported' = exported
      /\ Located # {} \/ GC_FUNCTIONS \notin {"empty", Busy} =>
           find_gc_malloc_uncollectable' = find_gc_malloc_uncollectable
  BY SearchesStay
<1>2. /\ SearchInv /\ OwnFound /\ ControlOK /\ OneResolver /\ CellsFollow
      /\ pc \in [Thread -> {"outside", "bytes", "locate", "functions", "resolve", "scan", "publish"}]
      /\ Busy \notin Function \cup {None, "empty"}
  BY XrefAssumption DEF AllocatorInv, WrapperInv, ControlOK
\* A step that leaves the cells alone keeps what was so.
<1>3. ASSUME UNCHANGED cells, Located # {} \/ GC_FUNCTIONS \notin {"empty", Busy}, NEW f
      PROVE  IsOwn(f)' <=> IsOwn(f)
  BY <1>1, <1>3 DEF IsOwn, cells
<1>4. CASE UNCHANGED <<GC_FUNCTIONS, cells, pc, found>>
  <2>1. \A t \in Thread : pc[t] = "publish" => Located # {}
    BY DEF Located
  <2> QED
    BY <1>1, <1>2, <1>3, <1>4, <2>1 DEF OwnFound
<1>5. ASSUME NEW t \in Thread, xref_init(t) \/ BytesThere(t) \/ BytesEmpty(t) \/ Locate(t)
                                 \/ LocatePanics(t) \/ FunctionsThere(t)
      PROVE  OwnFound'
  <2>1. UNCHANGED <<GC_FUNCTIONS, cells, found>>
    BY <1>5 DEF xref_init, BytesThere, BytesEmpty, Locate, LocatePanics, FunctionsThere
  <2>2. \A u \in Thread : pc'[u] \in {"scan", "publish"} => pc'[u] = pc[u] /\ Located # {}
    BY <1>2, <1>5 DEF xref_init, BytesThere, BytesEmpty, Locate, LocatePanics, FunctionsThere, Goto,
       Located
  <2> QED
    BY <1>1, <1>2, <1>3, <2>1, <2>2 DEF OwnFound
<1>6. ASSUME NEW t \in Thread, FunctionsEmpty(t) PROVE OwnFound'
  <2>1. \A u \in Thread : pc'[u] \notin {"scan", "publish"}
    BY <1>2, <1>6, XrefAssumption DEF FunctionsEmpty, Goto, OneResolver, Resolving
  <2>2. GC_FUNCTIONS' = Busy
    BY <1>6 DEF FunctionsEmpty
  <2> QED
    BY <2>1, <2>2 DEF OwnFound
\* The other steps are those of the one thread that resolves.
<1>7. ASSUME NEW t \in Resolving
      PROVE  /\ GC_FUNCTIONS = Busy /\ Located # {} /\ BYTES \in Segment
             /\ \A u \in Thread \ {t} : pc[u] \notin {"scan", "publish"}
             /\ pc[t] \in {"resolve", "scan"} =>
                  GARBAGE_COLLECTOR_ALLOCATE_FIXED = None /\ WRAPPED_GC_MALLOC_UNCOLLECTABLE = None
  BY <1>2 DEF OneResolver, Resolving, Located, CellsFollow, Traced1, Scanned1, SearchInv, BytesHeld
<1>8. ASSUME NEW t \in Resolving, pc' = [pc EXCEPT ![t] = "publish"], UNCHANGED GC_FUNCTIONS,
             ~exported => IsOwn(found)'
      PROVE  OwnFound'
  <2>1. t \in Thread
    BY DEF Resolving
  <2>2. \A u \in Thread : pc'[u] # "scan" /\ (pc'[u] = "publish" /\ ~exported => IsOwn(found)')
    BY <1>2, <1>7, <1>8, <2>1
  <2>3. GC_FUNCTIONS' = Busy
    BY <1>7, <1>8
  <2> QED
    BY <1>1, <2>2, <2>3 DEF OwnFound
<1>9. ASSUME NEW t \in Thread, ResolveExported(t) PROVE OwnFound'
  <2>1. t \in Resolving /\ exported /\ pc' = [pc EXCEPT ![t] = "publish"] /\ UNCHANGED GC_FUNCTIONS
    BY <1>9 DEF ResolveExported, Goto, Resolving
  <2> QED
    BY <1>8, <2>1
<1>10. ASSUME NEW t \in Thread, Traced(t) PROVE OwnFound'
  <2>1. /\ t \in Resolving /\ pc[t] = "resolve" /\ pc' = [pc EXCEPT ![t] = "publish"]
        /\ UNCHANGED GC_FUNCTIONS /\ traced # None
    BY <1>10 DEF Traced, Goto, Resolving
  <2>2. /\ found' = "wrapper_garbage_collector_allocate_fixed"
        /\ GARBAGE_COLLECTOR_ALLOCATE_FIXED' = traced
    BY <1>7, <1>10, <2>1 DEF Traced
  <2>3. IsOwn(found)'
    BY <1>1, <2>1, <2>2 DEF IsOwn
  <2> QED
    BY <1>8, <2>1, <2>3
<1>11. ASSUME NEW t \in Thread, NotTraced(t) PROVE OwnFound'
  <2>1. /\ t \in Resolving /\ pc' = [pc EXCEPT ![t] = "scan"]
        /\ UNCHANGED GC_FUNCTIONS /\ traced = None /\ ~exported
    BY <1>11 DEF NotTraced, Goto, Resolving
  <2>2. \A u \in Thread : pc'[u] # "publish"
    BY <1>2, <1>7, <2>1
  <2>3. GC_FUNCTIONS' = Busy
    BY <1>7, <2>1
  <2> QED
    BY <1>1, <2>1, <2>2, <2>3 DEF OwnFound
<1>12. ASSUME NEW t \in Thread, Scanned(t) PROVE OwnFound'
  <2>1. /\ t \in Resolving /\ pc[t] = "scan" /\ pc' = [pc EXCEPT ![t] = "publish"]
        /\ UNCHANGED GC_FUNCTIONS /\ find_gc_malloc_uncollectable # None
    BY <1>12 DEF Scanned, Goto, Resolving
  <2>2. traced = None
    BY <1>2, <1>12, <2>1 DEF OwnFound
  <2>3. /\ found' = "wrapper_gc_malloc_uncollectable"
        /\ WRAPPED_GC_MALLOC_UNCOLLECTABLE' = find_gc_malloc_uncollectable
    BY <1>7, <1>12, <2>1 DEF Scanned
  <2>4. IsOwn(found)'
    BY <1>1, <1>7, <2>1, <2>2, <2>3 DEF IsOwn
  <2> QED
    BY <1>8, <2>1, <2>4
<1>13. ASSUME NEW t \in Thread, NotScanned(t) PROVE OwnFound'
  <2>1. /\ t \in Resolving /\ pc[t] = "scan" /\ pc' = [pc EXCEPT ![t] = "publish"]
        /\ UNCHANGED GC_FUNCTIONS /\ find_gc_malloc_uncollectable = None /\ found' = None
    BY <1>13 DEF NotScanned, Goto, Resolving
  <2>2. traced = None
    BY <1>2, <1>13, <2>1 DEF OwnFound
  <2>3. IsOwn(found)'
    BY <1>1, <1>7, <2>1, <2>2 DEF IsOwn
  <2> QED
    BY <1>8, <2>1, <2>3
<1>14. ASSUME NEW t \in Thread, Publish(t) PROVE OwnFound'
  <2>1. /\ t \in Resolving /\ pc[t] = "publish" /\ pc' = [pc EXCEPT ![t] = "outside"]
        /\ GC_FUNCTIONS' = found /\ UNCHANGED <<cells, found>>
    BY <1>14 DEF Publish, Goto, Resolving
  <2>2. ~exported => IsOwn(found)
    BY <1>2, <1>14, <2>1 DEF OwnFound
  <2>3. \A f : IsOwn(f)' <=> IsOwn(f)
    BY <1>3, <1>7, <2>1
  <2>4. \A u \in Thread : pc'[u] \notin {"scan", "publish"}
    BY <1>2, <1>7, <2>1
  <2>5. IsOwn(GC_FUNCTIONS)' <=> IsOwn(found)
    BY <2>1, <2>3 DEF IsOwn
  <2> QED
    BY <1>1, <2>2, <2>4, <2>5 DEF OwnFound
<1>15. LoadModule \/ GcAllocatorNew \/ UNCHANGED vars => UNCHANGED <<GC_FUNCTIONS, cells, pc, found>>
  BY DEF LoadModule, GcAllocatorNew, vars
<1> QED
  BY <1>4, <1>5, <1>6, <1>9, <1>10, <1>11, <1>12, <1>13, <1>14, <1>15 DEF Next, Go

LEMMA OwnSuffices == AllocatorInv => AllocatorIsOwn
<1> SUFFICES ASSUME AllocatorInv, GC_FUNCTIONS \notin {"empty", Busy}, ~exported PROVE AllocatorIsOwn
  BY DEF AllocatorIsOwn
<1>1. TypeOK /\ BYTES \in Segment /\ IsOwn(GC_FUNCTIONS) /\ None \notin Address \cup Function
  BY XrefAssumption DEF AllocatorInv, SearchInv, BytesHeld, OwnFound
<1>2. traced \in Address \cup {None} /\ Calls = IF traced = None THEN {} ELSE {traced}
  BY <1>1, TracedIsCalled
<1>3. \/ Signed = {} /\ find_gc_malloc_uncollectable = None
      \/ /\ find_gc_malloc_uncollectable \in Signed /\ find_gc_malloc_uncollectable # None
         /\ \A a \in Signed : find_gc_malloc_uncollectable <= a
  BY <1>1, ScannedIsSigned
<1>4. CASE Calls # {}
  <2>1. traced # None /\ Calls = {traced}
    BY <1>2, <1>4
  <2>2. wrapped(GC_FUNCTIONS) = traced
    BY <1>1, <2>1 DEF IsOwn, wrapped, Function
  <2> QED
    BY <1>4, <2>1, <2>2 DEF AllocatorIsOwn, Calls, Signed
<1>5. CASE Calls = {} /\ Signed # {}
  <2>1. wrapped(GC_FUNCTIONS) = find_gc_malloc_uncollectable
    BY <1>1, <1>2, <1>3, <1>5 DEF IsOwn, wrapped, Function
  <2> QED
    BY <1>3, <1>5, <2>1 DEF AllocatorIsOwn, Calls, Signed
<1>6. CASE Calls = {} /\ Signed = {}
  BY <1>6 DEF AllocatorIsOwn, Calls, Signed
<1> QED
  BY <1>4, <1>5, <1>6

(***************************************************************************)
(* Whichever threads call xref_init, whenever libil2cpp is mapped and      *)
(* however often it has panicked before: where gc_alloc_fixed is not       *)
(* exported, what GcAllocator gets calls the function that the branches    *)
(* lead to, or else the first place with the signature, in any memory.     *)
(***************************************************************************)
THEOREM AllocatorFound == Spec => []AllocatorIsOwn
<1>1. Init => AllocatorInv
  BY SearchStart, WrapperStart, OwnStart DEF AllocatorInv
<1>2. AllocatorInv /\ [Next]_vars => AllocatorInv'
  BY SearchStep, WrapperStep, OwnStep DEF AllocatorInv
<1> QED
  BY <1>1, <1>2, OwnSuffices, PTL DEF Spec

=============================================================================
