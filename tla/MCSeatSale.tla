----------------------------- MODULE MCSeatSale -----------------------------
(***************************************************************************)
(* The instance of SeatSale that TLC checks.                               *)
(***************************************************************************)
EXTENDS SeatSale, TLC

CONSTANTS s1, s2

MCSeats == {s1, s2}

\* The seats are interchangeable.
Symmetry == Permutations(MCSeats)

=============================================================================
