-------------------------- MODULE MCOracleClient --------------------------
(***************************************************************************)
(* Constants of the run of the oracle's TypeScript client.                 *)
(***************************************************************************)
EXTENDS OracleClient

AddressSymmetry == Permutations(Address)
=============================================================================
