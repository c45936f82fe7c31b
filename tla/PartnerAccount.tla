--------------------------- MODULE PartnerAccount ---------------------------
(***************************************************************************)
(* What the platform promises about the money of a partner, with no locks  *)
(* and no reads: it is earned and taken back, a part of the balance is set *)
(* aside for the partner at once, and what is set aside is paid out or     *)
(* returned.  Wallet implements this with transactions of many statements. *)
(***************************************************************************)
EXTENDS Integers

VARIABLES
    earned,     \* money credited so far
    taken,      \* money taken back so far
    promised,   \* money set aside for the partner, what it has received included
    received    \* money the partner has received

accountVars == <<earned, taken, promised, received>>

AccountInit == earned = 0 /\ taken = 0 /\ promised = 0 /\ received = 0

Earn ==
    /\ earned' > earned
    /\ UNCHANGED <<taken, promised, received>>

\* Money is taken back whatever was promised.
TakeBack ==
    /\ taken' > taken
    /\ UNCHANGED <<earned, promised, received>>

\* Only the balance of this very moment can be promised.
Promise ==
    /\ promised' > promised
    /\ promised' <= earned - taken
    /\ UNCHANGED <<earned, taken, received>>

\* A promise can be taken back, a payment cannot.
Decline ==
    /\ promised' < promised
    /\ promised' >= received
    /\ UNCHANGED <<earned, taken, received>>

PayOut ==
    /\ received' > received
    /\ received' <= promised
    /\ UNCHANGED <<earned, taken, promised>>

AccountNext == Earn \/ TakeBack \/ Promise \/ Decline \/ PayOut

AccountSpec == AccountInit /\ [][AccountNext]_accountVars

=============================================================================
