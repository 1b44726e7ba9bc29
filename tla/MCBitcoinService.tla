------------------------- MODULE MCBitcoinService -------------------------
(***************************************************************************)
(* Two clients and two clusters; an investigation and a reader over a      *)
(* chain that forks above its first block; old tables that grow, fork and  *)
(* are replaced under a backfill; and answers of a wallet, with exposure   *)
(* or without, and of paths, which an analyst keeps.                       *)
(***************************************************************************)
EXTENDS BitcoinService, TLC

MCHashes == {"g", "a", "b"}
MCParentOf == [g |-> "none", a |-> "g", b |-> "g"]

MCHistories == {<<>>, <<"a", "b">>, <<"a", "c">>, <<"a", "b", "d">>}

Bundle == {"intelligence", "exposure", "semantics", "clusters", "holdings", "risk"}
Reply(bitcoin, parts, scored) == [bitcoin |-> bitcoin, parts |-> parts, scored |-> scored]
MCAnswers == {Reply(TRUE, Bundle, TRUE), Reply(TRUE, Bundle \ {"exposure"}, TRUE),
             Reply(TRUE, {}, FALSE), Reply(FALSE, {}, TRUE)}

Symmetry == Permutations(Clients)
=============================================================================
