----------------------------- MODULE Settlement -----------------------------
(***************************************************************************)
(* The life of one booking from its creation to its last refund: the       *)
(* handlers of payments.service, bookings.service, refunds.service,        *)
(* admin.service and partners.service, interleaved at every await.         *)
(***************************************************************************)
EXTENDS Payments, Bookings, Refunds, PartnerDesk

\* The booking is offered, paid online, and lapses or is cancelled.
SaleStep == PaymentStep \/ OnlineBookingStep

\* ... and refunded.  The partner's staff leave it alone.
OnlineNext == SaleStep \/ RefundStep

\* ... and may be paid on the spot, and handled by the partner's staff.
Next == OnlineNext \/ CashBookingStep \/ PartnerStep

Spec       == Init /\ [][Next]_vars
OnlineSpec == Init /\ [][OnlineNext]_vars

\* The clock runs, and the crons of every minute do.  Nothing is assumed of
\* customers, providers or staff.
CronFairness ==
    /\ WF_vars(ExpiryPasses) /\ WF_vars(DeadlinePasses)
    /\ WF_vars(Expire) /\ WF_vars(PartnerTimeout)
    /\ WF_vars(FailStaleUzumTransactions)
    /\ \A p \in PaymentIds : WF_vars(PaymentAges(p))

FairSaleSpec == Init /\ [][SaleStep]_vars /\ CronFairness

-----------------------------------------------------------------------------
(* Safety of every handler together.                                       *)

\* However many providers report the same booking paid, in whatever order and
\* however often, and whatever the staff do meanwhile, the partner is credited
\* for it at most once (processPaymentEvent, creditPartnerLedger).
CreditedAtMostOnce == ledger.earned <= 1

\* Once a booking has left pending/awaiting_payment no handler, not even one
\* that writes a status it decided on before an await, makes it payable again
\* (the open-status test is all that keeps a second credit out).
NeverReopened ==
    [][booking.status \notin OpenStatuses => booking'.status \notin OpenStatuses]_vars

-----------------------------------------------------------------------------
(* Safety of a booking that is paid online.                                *)

\* No payment is ever paid while its booking still waits for payment, so the
\* expiry cron can never take a paid booking for an unpaid one
\* (expireStaleBookings and processPaymentEvent).
OpenIsUnpaid == booking.status \in OpenStatuses => ~HasPaid

\* A booking that has been sold and not undone has a payment that is paid: a
\* refund or a reversal takes the booking with it (refundApprove, uzumReverse).
SoldIsBacked == booking.status \in SoldStatuses => HasPaid

\* Uzum Bank has given the money of a transaction of the booking back.
ReversedByUzum == \E t \in UzumTxns : <<"reverse", t>> \in events

\* A refund was asked for and not given: it is in the queue, or was refused.
RefundOutstanding == \E r \in RefundIds : refunds[r] \in {"requested", "rejected"}

\* A refund was approved that found nothing paid, and none has found anything.
ApprovedForNothing ==
    ledger.refund = 0 /\ \E r \in RefundIds : refunds[r] = "approved"

\* The money of an expired or cancelled booking is never forgotten: while a
\* payment of it is still paid, a refund waits in the admin's queue, or an admin
\* has refused it, whichever of the payment, the cancellation, the expiry, the
\* partner's deadline and earlier refunds came first (autoRefundForLostRace,
\* cancel, expireStaleBookings, refundApprove).  Two ways round the queue are
\* left open: a reversal by Uzum cancels the booking without looking at its
\* other payments (uzumReverse), and a refund that was approved before there
\* was anything to give back keeps a cancellation from asking for another.
PaidIsRefundable ==
    booking.status \in SettledStatuses /\ HasPaid =>
        RefundOutstanding \/ ReversedByUzum \/ ApprovedForNothing

\* The partner is debited no more often than a payment has turned refunded,
\* however many refund requests of the booking are approved (refundApprove).
DebitMatchesRefund == ledger.refund <= Cardinality(WithStatus({"refunded"}))

\* Money that Uzum Checkout has given back is not forgotten when the transaction
\* that asked for it does not commit: as long as our row says paid, the refund
\* is still outstanding, and approving it finds the order refunded already
\* (refundApprove asks the provider inside its transaction).
RefundIsRemembered ==
    \A p \in WithStatus({"paid"}) :
        /\ payments[p].ref \in Orders
        /\ orders[payments[p].ref] = "refunded"
        => RefundOutstanding

\* A payment whose outcome is known keeps it: late or repeated webhooks, polls
\* and crons do not pay, fail or reopen it; only a paid one may still be
\* reversed or refunded.  (That it may be deleted is OnlyDraftsDeleted.)
OutcomeIsFinal ==
    [][\A p \in WithStatus(TerminalPayment) :
          \/ payments'[p].status = payments[p].status
          \/ payments'[p] = Absent
          \/ /\ payments[p].status = "paid"
             /\ payments'[p].status \in {"reversed", "refunded"}]_vars

\* An online booking implements the sale the platform promises.
Sale == INSTANCE BookingSale WITH
          phase   <- IF booking.status \in OpenStatuses THEN "open"
                     ELSE IF booking.status \in SoldStatuses THEN "sold" ELSE "settled",
          credits <- ledger.earned

ImplementsSale == Sale!SaleSpec

-----------------------------------------------------------------------------
(* Liveness under the clock and the crons.                                 *)

\* A booking does not stay payable for ever: it is paid, cancelled or expired,
\* even if a provider prepares a payment and is never heard of again.
OpenIsResolved == booking.status \in OpenStatuses ~> booking.status \notin OpenStatuses

\* A paid booking does not wait for its partner for ever.
PartnerIsNotAwaited ==
    booking.status = "awaiting_partner_confirmation"
        ~> booking.status # "awaiting_partner_confirmation"

\* A payment at either Uzum API does not stay open for ever, so the customer
\* can always come back to try again.
UzumIsClosed ==
    \A p \in PaymentIds :
        /\ payments[p].provider \in {"uzum", "uzum_checkout"}
        /\ payments[p].status \in OpenPayment
        ~> payments[p].status \notin OpenPayment

-----------------------------------------------------------------------------
(* What comments of the code claim, and some interleaving refutes.         *)

\* createPayment deletes only a draft that no provider has touched.
OnlyDraftsDeleted ==
    [][\A p \in Stored : payments'[p] = Absent =>
          payments[p].status = "pending" /\ payments[p].ref = NoTxn]_vars

\* Money the customer has paid at Uzum Checkout is not written off as failed.
PaidOrderIsNotFailed ==
    \A p \in WithStatus({"failed"}) :
        payments[p].idem \in Orders => orders[payments[p].idem] # "completed"

\* Only what the partner was credited with is taken back.
DebitIsBacked == ledger.reversed + ledger.refund <= ledger.earned

=============================================================================
