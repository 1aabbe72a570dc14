------------------------ MODULE MCPriceFloorClient ------------------------
(***************************************************************************)
(* Constants of the run of the agreement's TypeScript client.              *)
(***************************************************************************)
EXTENDS PriceFloorClient, TLC

AccountSymmetry == Permutations(Account)

SignedNotionals == {-1, 1}
=============================================================================
