--------------------------- MODULE MCPublication ---------------------------
(* Instance of Publication: two branches that fork above the first block.   *)
EXTENDS Publication

MCHashes == {"a1", "a2", "a3", "b2"}

MCNumberOf == [a1 |-> 1, a2 |-> 2, a3 |-> 3, b2 |-> 2]

MCParentOf == [a1 |-> "none", a2 |-> "a1", a3 |-> "a2", b2 |-> "a1"]
=============================================================================
