---------------------------- MODULE MCXrefSearch ----------------------------
(***************************************************************************)
(* il2cpp_domain_get is at 2, if it is exported, and Domain::GetCurrent at *)
(* 4; a search looks at three words, so that the code of the first runs    *)
(* over into the other's.  The signature is at 8, at 7 and 8, or at 5 if   *)
(* the code leaves it there.  The image is mapped in two segments, 2 to 4  *)
(* and 6 to 10, of the second of three modules.                            *)
(***************************************************************************)
EXTENDS XrefSearch

W(op, to) == [op |-> op, to |-> to]
nop == W("other", 1)
sig == W("other", 2)
bad == W("undecodable", 1)

MCMemories ==
  {<<nop, first, second>> \o current \o rest :
     first \in {nop, bad, W("B", 4), W("BL", 5)}, second \in {nop, W("BL", 5)},
     current \in {sig, bad, W("B", 8), W("BL", 9)} \X {sig, bad, W("BL", 9)} \X {sig, bad, W("BL", 9)},
     rest \in {<<bad, sig, bad, nop>>, <<sig, sig, nop, nop>>, <<nop, bad, sig, bad>>}}

MCModules == <<[il2cpp |-> FALSE, segments |-> {[start |-> 1, end |-> 1]}],
               [il2cpp |-> TRUE, segments |-> {[start |-> 6, end |-> 10], [start |-> 2, end |-> 4]}],
               [il2cpp |-> TRUE, segments |-> {}]>>

MCSignature == <<sig, Wildcard, nop>>

=============================================================================
