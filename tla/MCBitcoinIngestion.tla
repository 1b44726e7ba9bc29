------------------------- MODULE MCBitcoinIngestion -------------------------
(* Instance of BitcoinIngestion: a branch at and one above the start block,  *)
(* a primary that may move to either and a fallback on the first.           *)
EXTENDS BitcoinIngestion

MCHashes == {"a1", "a2", "b2", "c1", "c2"}

MCNumberOf == [a1 |-> 1, a2 |-> 2, b2 |-> 2, c1 |-> 1, c2 |-> 2]

MCParentOf == [a1 |-> "none", a2 |-> "a1", b2 |-> "a1", c1 |-> "none", c2 |-> "c1"]

MCFallbacks == <<"fallback">>

MCViewsOf == [primary |-> {"down", "a2", "b2", "c2"}, fallback |-> {"down", "a2"}]
=============================================================================
