---------------------------- MODULE MCPriceFloor ----------------------------
(***************************************************************************)
(* Constants of the price-floor agreement's runs.                          *)
(***************************************************************************)
EXTENDS PriceFloor, TLC

AccountSymmetry == Permutations(Account)

\* Negative terms, which initialize accepts like any others.
SignedNotionals == {-1, 1, 2}
=============================================================================
