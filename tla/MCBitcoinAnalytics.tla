------------------------- MODULE MCBitcoinAnalytics -------------------------
(* Instance of BitcoinAnalyticsWorker: a fork above the first block and a    *)
(* history that starts later, over three addresses.                          *)
EXTENDS BitcoinAnalyticsWorker

MCHashes == {"a1", "a2", "b2"}

MCNumberOf == [a1 |-> 1, a2 |-> 2, b2 |-> 2]

MCParentOf == [a1 |-> "none", a2 |-> "a1", b2 |-> "a1"]

MCAddresses == {1, 2, 3}

MCAddressesOf == [a1 |-> {2}, a2 |-> {1, 3}, b2 |-> {3}]
=============================================================================
