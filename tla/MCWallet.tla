------------------------------ MODULE MCWallet ------------------------------
(***************************************************************************)
(* The instance of Wallet that TLC checks.                                 *)
(***************************************************************************)
EXTENDS Wallet, TLC

CONSTANTS c1, c2

\* The calls are interchangeable.
Symmetry == Permutations(Calls)

=============================================================================
