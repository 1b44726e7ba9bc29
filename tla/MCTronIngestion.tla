--------------------------- MODULE MCTronIngestion ---------------------------
(***************************************************************************)
(* A block of one transaction, then one of two.                           *)
(***************************************************************************)
EXTENDS TronIngestion

MCTxsOf == <<{"v"}, {"t", "u"}>>
=============================================================================
