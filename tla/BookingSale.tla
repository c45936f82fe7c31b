---------------------------- MODULE BookingSale -----------------------------
(***************************************************************************)
(* What the platform promises about one online booking, whatever services, *)
(* crons and webhooks bring it about: it is sold at most once and only     *)
(* while it is open, the partner is credited in the step that sells it and *)
(* in no other, and a booking that has been settled stays settled.         *)
(***************************************************************************)
EXTENDS Naturals

VARIABLES phase,    \* "open", "sold" or "settled"
          credits   \* booking_earned entries in the partner's ledger

saleVars == <<phase, credits>>

SaleInit == phase = "open" /\ credits = 0

\* Paid in time.
Sell == phase = "open" /\ phase' = "sold" /\ credits' = credits + 1

\* Expired or cancelled before it was sold.
Lapse == phase = "open" /\ phase' = "settled" /\ UNCHANGED credits

\* Cancelled, refused, reversed or refunded after it was sold.
Undo == phase = "sold" /\ phase' = "settled" /\ UNCHANGED credits

SaleNext == Sell \/ Lapse \/ Undo

SaleSpec == SaleInit /\ [][SaleNext]_saleVars

=============================================================================
