-------------------------- MODULE MCRoomInventory ---------------------------
(***************************************************************************)
(* The instances of RoomInventory that TLC checks.                         *)
(***************************************************************************)
EXTENDS RoomInventory, TLC

CONSTANTS c1, c2

MCCustomers == {c1, c2}

\* Two customers, each known again when they return.
MCSamePerson == {<<c, c>> : c \in MCCustomers}

Symmetry == Permutations(MCCustomers)

=============================================================================
