------------------------------ MODULE MCOracle ------------------------------
(***************************************************************************)
(* Constants of the oracle's runs.                                         *)
(***************************************************************************)
EXTENDS Oracle

\* Every account can be the admin, a node or a stranger.
AddressSymmetry == Permutations(Address)
=============================================================================
