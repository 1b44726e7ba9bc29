------------------------ MODULE MCEthereumIngestion ------------------------
(***************************************************************************)
(* Two heights, a reorganisation of both, one operator command and one     *)
(* fault.                                                                  *)
(***************************************************************************)
EXTENDS EthereumIngestion

MCBranches == {<<"a1", "a2">>, <<"b1", "b2">>}
=============================================================================
