------------------------------- MODULE Wallet -------------------------------
(***************************************************************************)
(* The balance of one partner organisation: what its bookings earned, what *)
(* was taken back, and the withdrawals it asks for (partners.service) and  *)
(* administrators decide on (admin.service).                               *)
(*                                                                         *)
(* A withdrawal is a transaction of three statements, between which the    *)
(* others run: it locks the organisation, reads the balance, reads what is *)
(* already promised, and inserts the request.  A ledger entry refers to    *)
(* the organisation, so that its INSERT waits for that lock; a decision on *)
(* a request does not.                                                     *)
(***************************************************************************)
EXTENDS Integers, FiniteSets

CONSTANTS
    Calls,          \* calls of withdrawal that may run at the same time
    MaxRequests,    \* bound: withdrawal requests ever made
    MaxEarned,      \* bound: money ever credited
    MaxDebited      \* bound: money ever taken back

ASSUME WalletAssumption ==
    /\ MaxRequests \in Nat
    /\ MaxEarned \in Nat
    /\ MaxDebited \in Nat

RequestIds == 1..MaxRequests

VARIABLES
    earned,     \* sum of the positive rows of partner_ledger_entries
    debited,    \* sum of the negative ones, without their sign
    requests,   \* the rows of withdrawal_requests, by id
    calls,      \* the transactions of withdrawal under way
    paidOut     \* history: money administrators marked as paid

vars == <<earned, debited, requests, calls, paidOut>>

-----------------------------------------------------------------------------

WithdrawalStatus == {"requested", "approved", "rejected", "paid"}

Withdrawal == [status : WithdrawalStatus, amount : 1..MaxEarned]
NoRequest  == [status |-> "none", amount |-> 0]

\* A call: before its transaction holds the organisation, then with the balance
\* it read, then with what it read as promised, too.
Idle == [at |-> "idle"]
Call == [at : {"locking"}, amount : 1..MaxEarned]
        \union [at : {"holding"}, amount : 1..MaxEarned]
        \union [at : {"balanced"}, amount : 1..MaxEarned, balance : Int]
        \union [at : {"counted"}, amount : 1..MaxEarned, balance : Int, promised : Nat]

TypeOK ==
    /\ earned \in 0..MaxEarned
    /\ debited \in 0..MaxDebited
    /\ requests \in [RequestIds -> Withdrawal \union {NoRequest}]
    /\ calls \in [Calls -> Call \union {Idle}]
    /\ paidOut \in Nat

Init ==
    /\ earned = 0
    /\ debited = 0
    /\ requests = [r \in RequestIds |-> NoRequest]
    /\ calls = [c \in Calls |-> Idle]
    /\ paidOut = 0

\* The call that holds the organisation FOR UPDATE, if any.
InTransaction(c) == calls[c].at \in {"holding", "balanced", "counted"}

Unlocked == \A c \in Calls : ~InTransaction(c)

LedgerBalance == earned - debited

\* The money of the requests whose status is one of those given, each unit of
\* it named by its request: SUM(amount) as a cardinality, which can be reasoned
\* about without an induction.
UnitsIn(rows, statuses) ==
    {unit \in RequestIds \X (1..MaxEarned) :
        /\ rows[unit[1]].status \in statuses
        /\ unit[2] <= rows[unit[1]].amount}

MoneyIn(rows, statuses) == Cardinality(UnitsIn(rows, statuses))

CommittedWithdrawals == MoneyIn(requests, {"requested", "approved", "paid"})

-----------------------------------------------------------------------------
(* The ledger.                                                              *)

\* A paid booking, a booking taken at the desk, an adjustment by an
\* administrator.
Credit(amount) ==
    /\ Unlocked
    /\ earned + amount <= MaxEarned
    /\ earned' = earned + amount
    /\ UNCHANGED <<debited, requests, calls, paidOut>>

\* A refund, a reversed payment, an adjustment.  None of them looks at the
\* balance or at what the partner has asked for.
Debit(amount) ==
    /\ Unlocked
    /\ debited + amount <= MaxDebited
    /\ debited' = debited + amount
    /\ UNCHANGED <<earned, requests, calls, paidOut>>

-----------------------------------------------------------------------------
(* withdrawal                                                               *)

CallIsNow(c, call) ==
    /\ calls' = [calls EXCEPT ![c] = call]
    /\ UNCHANGED <<earned, debited, requests, paidOut>>

\* Faulty variants, used by no action: each is what a plausible mistake would
\* make of the definition it is named for.

\* for AskWithdrawal: the amount is not looked at.
AskAnything(c, amount) ==
    /\ calls[c] = Idle
    /\ CallIsNow(c, [at |-> "locking", amount |-> amount])

\* for LockOrganisation: the row is read without FOR UPDATE.
LookAtOrganisation(c) ==
    /\ calls[c].at = "locking"
    /\ CallIsNow(c, [at |-> "holding", amount |-> calls[c].amount])

\* for ReadPromised: what was already paid out is not counted.
ReadOutstanding(c) ==
    /\ calls[c].at = "balanced"
    /\ CallIsNow(c, [at |-> "counted", amount |-> calls[c].amount,
                     balance |-> calls[c].balance,
                     promised |-> MoneyIn(requests, {"requested", "approved"})])

\* What a partner may write in the form, nothing included.
Amounts == 0..MaxEarned

AskWithdrawal(c, amount) ==
    /\ calls[c] = Idle
    /\ amount > 0
    /\ CallIsNow(c, [at |-> "locking", amount |-> amount])

LockOrganisation(c) ==
    /\ calls[c].at = "locking"
    /\ Unlocked
    /\ CallIsNow(c, [at |-> "holding", amount |-> calls[c].amount])

ReadBalance(c) ==
    /\ calls[c].at = "holding"
    /\ CallIsNow(c, [at |-> "balanced", amount |-> calls[c].amount,
                     balance |-> LedgerBalance])

ReadPromised(c) ==
    /\ calls[c].at = "balanced"
    /\ CallIsNow(c, [at |-> "counted", amount |-> calls[c].amount,
                     balance |-> calls[c].balance, promised |-> CommittedWithdrawals])

Affordable(call) == call.amount <= call.balance - call.promised

InsertRequest(c, r) ==
    /\ calls[c].at = "counted"
    /\ Affordable(calls[c])
    /\ requests[r] = NoRequest
    /\ \A q \in 1..(r - 1) : requests[q] # NoRequest
    /\ requests' = [requests EXCEPT ![r] = [status |-> "requested", amount |-> calls[c].amount]]
    /\ calls' = [calls EXCEPT ![c] = Idle]
    /\ UNCHANGED <<earned, debited, paidOut>>

RefuseRequest(c) ==
    /\ calls[c].at = "counted"
    /\ ~Affordable(calls[c])
    /\ CallIsNow(c, Idle)

\* The process dies, or the connection does: the transaction is rolled back.
AbandonRequest(c) ==
    /\ calls[c] # Idle
    /\ CallIsNow(c, Idle)

-----------------------------------------------------------------------------
(* withdrawalStatus, one conditional UPDATE.                                *)

\* for AllowedFrom: a paid withdrawal can still be rejected.
AllowedFromAny(next) ==
    CASE next = "approved"  -> {"requested"}
      [] next = "rejected"  -> {"requested", "approved", "paid"}
      [] next = "paid"      -> {"approved"}
      [] next = "requested" -> {}

AllowedFrom(next) ==
    CASE next = "approved"  -> {"requested"}
      [] next = "rejected"  -> {"requested", "approved"}
      [] next = "paid"      -> {"approved"}
      [] next = "requested" -> {}

WriteStatus(r, next) ==
    /\ requests[r].status \in AllowedFrom(next)
    /\ requests' = [requests EXCEPT ![r].status = next]
    /\ paidOut' = IF next = "paid" THEN paidOut + requests[r].amount ELSE paidOut
    /\ UNCHANGED <<earned, debited, calls>>

-----------------------------------------------------------------------------

Next ==
    \/ \E amount \in 1..MaxEarned : Credit(amount)
    \/ \E amount \in 1..MaxDebited : Debit(amount)
    \/ \E c \in Calls :
        \/ \E amount \in Amounts : AskWithdrawal(c, amount)
        \/ LockOrganisation(c)
        \/ ReadBalance(c)
        \/ ReadPromised(c)
        \/ \E r \in RequestIds : InsertRequest(c, r)
        \/ RefuseRequest(c)
        \/ AbandonRequest(c)
    \/ \E r \in RequestIds, next \in WithdrawalStatus : WriteStatus(r, next)

Spec == Init /\ [][Next]_vars

-----------------------------------------------------------------------------
(* Properties.                                                              *)

\* Whatever is refunded in the meantime, the money paid out to the partner and
\* the money promised to it together never exceed what it has earned: a request
\* is not counted twice or forgotten, and no decision brings back money that
\* was already paid (withdrawal, withdrawalStatus).
MoneyOutIsEarned ==
    paidOut + MoneyIn(requests, {"requested", "approved"}) <= earned

\* A new promise never exceeds the balance at the moment it is made, however
\* many calls of withdrawal, ledger entries and decisions run with it: nothing
\* it read under the lock of the organisation has become smaller since.
PromisesAreCovered ==
    [][CommittedWithdrawals' > CommittedWithdrawals =>
           CommittedWithdrawals' <= LedgerBalance']_vars

\* The statements of withdrawal and withdrawalStatus, interleaved as they may be,
\* are together no more than an account whose every operation is atomic: no
\* promise outside the balance of its moment, no promise taken back once paid,
\* no payment that was not promised.
Account == INSTANCE PartnerAccount WITH
             taken    <- debited,
             promised <- CommittedWithdrawals,
             received <- paidOut

ImplementsAccount == Account!AccountSpec

=============================================================================
