---------------------------- MODULE MCBscIngestion ----------------------------
(* Instance of BscIngestion: two branches above the genesis block.           *)
EXTENDS BscIngestion

MCHashes == {"g", "a1", "a2", "b1", "b2"}

MCNumberOf == [g |-> 0, a1 |-> 1, a2 |-> 2, b1 |-> 1, b2 |-> 2]

MCParentOf == [g |-> "none", a1 |-> "g", a2 |-> "a1", b1 |-> "g", b2 |-> "b1"]
=============================================================================
