--------------------------- MODULE PublishedChain ---------------------------
(***************************************************************************)
(* What a network's warehouse promises to a reader: the blocks it sees are *)
(* one chain.  The chain grows at its tip by one block at a time, a        *)
(* reorganisation cuts it back to one of its own blocks or empties it, and *)
(* nothing of the inserts behind those steps is ever visible.              *)
(***************************************************************************)
EXTENDS Naturals

CONSTANTS
  Hashes,    \* block hashes
  NumberOf,  \* hash -> height
  ParentOf   \* hash -> hash of the parent block

VARIABLE chain  \* the visible block hashes

\* h is the visible block of the greatest height.
IsTip(h) == h \in chain /\ \A g \in chain : NumberOf[g] <= NumberOf[h]

Init == chain = {}

Append(h) ==
  /\ chain # {} => IsTip(ParentOf[h]) /\ NumberOf[h] = NumberOf[ParentOf[h]] + 1
  /\ chain' = chain \cup {h}

CutBack(h) == chain' = {g \in chain : NumberOf[g] <= NumberOf[h]}

Reset == chain' = {}

Next == (\E h \in Hashes : Append(h)) \/ (\E h \in chain : CutBack(h)) \/ Reset

Spec == Init /\ [][Next]_chain
=============================================================================
