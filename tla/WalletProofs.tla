---------------------------- MODULE WalletProofs ----------------------------
(***************************************************************************)
(* What TLAPS proves of Wallet, for any number of withdrawals and amounts. *)
(***************************************************************************)
EXTENDS Wallet, FiniteSetTheorems, TLAPS

-----------------------------------------------------------------------------
(* MoneyIn behaves like the sum it stands for.                             *)

Rows == [RequestIds -> Withdrawal \union {NoRequest}]

LEMMA UnitsFinite ==
    ASSUME NEW rows, NEW S
    PROVE  IsFiniteSet(UnitsIn(rows, S)) /\ MoneyIn(rows, S) \in Nat
<1>1. IsFiniteSet(RequestIds) /\ IsFiniteSet(1..MaxEarned)
    BY FS_Interval, WalletAssumption DEF RequestIds
<1>2. IsFiniteSet(RequestIds \X (1..MaxEarned))
    BY <1>1, FS_Product
<1>3. UnitsIn(rows, S) \subseteq RequestIds \X (1..MaxEarned)
    BY DEF UnitsIn
<1> QED
    BY <1>2, <1>3, FS_Subset, FS_CardinalityType DEF MoneyIn

LEMMA DisjointUnion ==
    ASSUME NEW A, NEW B, IsFiniteSet(A), IsFiniteSet(B), A \intersect B = {}
    PROVE  Cardinality(A \union B) = Cardinality(A) + Cardinality(B)
<1>1. Cardinality(A \union B) = Cardinality(A) + Cardinality(B) - Cardinality(A \intersect B)
    BY FS_Union
<1>2. Cardinality(A \intersect B) = 0
    BY FS_EmptySet
<1>3. Cardinality(A) \in Nat /\ Cardinality(B) \in Nat
    BY FS_CardinalityType
<1> QED
    BY <1>1, <1>2, <1>3

\* More statuses, or requests that leave a status, only add or take money.
LEMMA MoneyMonotone ==
    ASSUME NEW before, NEW after, NEW S, NEW T, UnitsIn(before, S) \subseteq UnitsIn(after, T)
    PROVE  MoneyIn(before, S) <= MoneyIn(after, T)
BY UnitsFinite, FS_Subset DEF MoneyIn

\* The money of disjoint statuses adds up.
LEMMA MoneyAddsUp ==
    ASSUME NEW rows, NEW S, NEW T, S \intersect T = {}
    PROVE  MoneyIn(rows, S \union T) = MoneyIn(rows, S) + MoneyIn(rows, T)
<1>1. UnitsIn(rows, S \union T) = UnitsIn(rows, S) \union UnitsIn(rows, T)
    BY DEF UnitsIn
<1>2. UnitsIn(rows, S) \intersect UnitsIn(rows, T) = {}
    BY DEF UnitsIn
<1> QED
    BY <1>1, <1>2, UnitsFinite, DisjointUnion DEF MoneyIn

\* The units of one request are as many as its amount.
LEMMA UnitsOfOne ==
    ASSUME NEW r, NEW amount \in 0..MaxEarned
    PROVE  IsFiniteSet({r} \X (1..amount)) /\ Cardinality({r} \X (1..amount)) = amount
<1>1. IsFiniteSet(1..amount) /\ Cardinality(1..amount) = amount
    BY FS_Interval, WalletAssumption
<1>2. IsFiniteSet({r}) /\ Cardinality({r}) = 1
    BY FS_Singleton
<1>3. Cardinality({r} \X (1..amount)) = 1 * amount /\ IsFiniteSet({r} \X (1..amount))
    BY <1>1, <1>2, FS_Product
<1> QED
    BY <1>3, WalletAssumption

\* A request that enters some statuses brings its amount, and nothing else.
LEMMA RequestEnters ==
    ASSUME NEW rows \in Rows, NEW r \in RequestIds, NEW S,
           rows[r].status \notin S,
           NEW row \in Withdrawal, row.status \in S
    PROVE  MoneyIn([rows EXCEPT ![r] = row], S) = MoneyIn(rows, S) + row.amount
<1> DEFINE after == [rows EXCEPT ![r] = row]
           units == {r} \X (1..row.amount)
<1>1. row.amount \in 1..MaxEarned
    BY DEF Withdrawal
<1>2. after[r] = row /\ \A q \in RequestIds : q # r => after[q] = rows[q]
    BY DEF Rows
<1> HIDE DEF after
<1>3. UnitsIn(after, S) = UnitsIn(rows, S) \union units
    <2>1. ASSUME NEW u \in UnitsIn(after, S) PROVE u \in UnitsIn(rows, S) \union units
        BY <1>1, <1>2, <2>1, WalletAssumption DEF UnitsIn
    <2>2. ASSUME NEW u \in UnitsIn(rows, S) PROVE u \in UnitsIn(after, S)
        BY <1>2, <2>2 DEF UnitsIn
    <2>3. ASSUME NEW u \in units PROVE u \in UnitsIn(after, S)
        BY <1>1, <1>2, <2>3, WalletAssumption DEF UnitsIn
    <2> QED
        BY <2>1, <2>2, <2>3
<1>4. UnitsIn(rows, S) \intersect units = {}
    BY DEF UnitsIn
<1>5. IsFiniteSet(units) /\ Cardinality(units) = row.amount
    <2>1. row.amount \in 0..MaxEarned
        BY <1>1, WalletAssumption
    <2> QED
        BY <2>1, UnitsOfOne
<1> HIDE DEF units
<1>6. Cardinality(UnitsIn(rows, S) \union units) = Cardinality(UnitsIn(rows, S)) + row.amount
    BY <1>4, <1>5, UnitsFinite, DisjointUnion
<1>7. MoneyIn(after, S) = MoneyIn(rows, S) + row.amount
    BY <1>3, <1>6 DEF MoneyIn
<1> QED
    BY <1>7 DEF after

\* A request that is in none of some statuses afterwards brings them nothing.
LEMMA RequestLeaves ==
    ASSUME NEW rows \in Rows, NEW r \in RequestIds, NEW S, NEW row, row.status \notin S
    PROVE  MoneyIn([rows EXCEPT ![r] = row], S) <= MoneyIn(rows, S)
<1> DEFINE after == [rows EXCEPT ![r] = row]
<1>1. after[r] = row /\ \A q \in RequestIds : q # r => after[q] = rows[q]
    BY DEF Rows
<1> HIDE DEF after
<1>2. UnitsIn(after, S) \subseteq UnitsIn(rows, S)
    BY <1>1 DEF UnitsIn
<1>3. MoneyIn(after, S) <= MoneyIn(rows, S)
    BY <1>2, MoneyMonotone
<1> QED
    BY <1>3 DEF after

\* A request that stays among some statuses with its amount changes nothing.
LEMMA RequestStays ==
    ASSUME NEW rows \in Rows, NEW r \in RequestIds, NEW S, NEW row,
           row.amount = rows[r].amount, row.status \in S <=> rows[r].status \in S
    PROVE  MoneyIn([rows EXCEPT ![r] = row], S) = MoneyIn(rows, S)
<1> DEFINE after == [rows EXCEPT ![r] = row]
<1>1. after[r] = row /\ \A q \in RequestIds : q # r => after[q] = rows[q]
    BY DEF Rows
<1> HIDE DEF after
<1>2. UnitsIn(after, S) = UnitsIn(rows, S)
    BY <1>1 DEF UnitsIn
<1> QED
    BY <1>2 DEF MoneyIn, after

-----------------------------------------------------------------------------
(* The invariant.                                                          *)

Promised == {"requested", "approved", "paid"}

\* The lock of the organisation admits one call of withdrawal.
OneTransaction == \A c, d \in Calls : InTransaction(c) /\ InTransaction(d) => c = d

\* What a call has read under that lock is still so, or has become better.
ReadsHold ==
    \A c \in Calls :
        /\ calls[c].at \in {"balanced", "counted"} => calls[c].balance = LedgerBalance
        /\ calls[c].at = "counted" => calls[c].promised >= CommittedWithdrawals

\* What was paid out is what the paid requests say.
PaidIsKnown == paidOut = MoneyIn(requests, {"paid"})

CommittedIsEarned == CommittedWithdrawals <= earned

WalletInv == TypeOK /\ OneTransaction /\ ReadsHold /\ PaidIsKnown /\ CommittedIsEarned

LEMMA InitWalletInv == Init => WalletInv
<1> SUFFICES ASSUME Init PROVE WalletInv
    OBVIOUS
<1>1. TypeOK
    BY WalletAssumption DEF Init, TypeOK
<1>2. \A c \in Calls : calls[c].at = "idle"
    BY DEF Init, Idle
<1>3. OneTransaction /\ ReadsHold
    BY <1>2 DEF OneTransaction, ReadsHold, InTransaction
<1>4. ASSUME NEW S, "none" \notin S PROVE MoneyIn(requests, S) = 0
    <2>1. UnitsIn(requests, S) = {}
        BY <1>4 DEF Init, UnitsIn, NoRequest
    <2> QED
        BY <2>1, FS_EmptySet DEF MoneyIn
<1>5. PaidIsKnown /\ CommittedIsEarned
    BY <1>4 DEF Init, PaidIsKnown, CommittedIsEarned, CommittedWithdrawals
<1> QED
    BY <1>1, <1>3, <1>5 DEF WalletInv

-----------------------------------------------------------------------------
(* The calls of withdrawal.                                                *)

\* One call moves on; the money stays where it is.
LEMMA CallMoves ==
    ASSUME WalletInv, NEW c \in Calls, NEW call \in Call \union {Idle}, CallIsNow(c, call),
           call.at \in {"holding", "balanced", "counted"} => InTransaction(c) \/ Unlocked,
           call.at \in {"balanced", "counted"} => call.balance = LedgerBalance,
           call.at = "counted" => call.promised >= CommittedWithdrawals
    PROVE  WalletInv' /\ UNCHANGED CommittedWithdrawals
<1>1. calls' = [calls EXCEPT ![c] = call] /\ UNCHANGED <<earned, debited, requests, paidOut>>
    BY DEF CallIsNow
<1>2. calls'[c] = call /\ \A d \in Calls : d # c => calls'[d] = calls[d]
    BY <1>1 DEF WalletInv, TypeOK
<1>3. UNCHANGED <<CommittedWithdrawals, LedgerBalance, MoneyIn(requests, {"paid"})>>
    BY <1>1 DEF CommittedWithdrawals, LedgerBalance
<1>4. TypeOK'
    BY <1>1 DEF WalletInv, TypeOK
<1>5. OneTransaction'
    BY <1>2 DEF WalletInv, OneTransaction, InTransaction, Unlocked
<1>6. ReadsHold'
    BY <1>2, <1>3 DEF WalletInv, ReadsHold
<1>7. PaidIsKnown' /\ CommittedIsEarned'
    BY <1>1, <1>3 DEF WalletInv, PaidIsKnown, CommittedIsEarned
<1> QED
    BY <1>3, <1>4, <1>5, <1>6, <1>7 DEF WalletInv

LEMMA CallFields ==
    ASSUME WalletInv, NEW c \in Calls, calls[c].at # "idle"
    PROVE  /\ calls[c].amount \in 1..MaxEarned
           /\ calls[c].at \in {"balanced", "counted"} => calls[c].balance \in Int
           /\ calls[c].at = "counted" => calls[c].promised \in Nat
BY DEF WalletInv, TypeOK, Call, Idle

\* The steps of a call but the last one.
LEMMA CallSteps ==
    ASSUME WalletInv, NEW c \in Calls,
           \/ \E amount \in Amounts : AskWithdrawal(c, amount)
           \/ LockOrganisation(c) \/ ReadBalance(c) \/ ReadPromised(c)
           \/ RefuseRequest(c) \/ AbandonRequest(c)
    PROVE  WalletInv' /\ UNCHANGED CommittedWithdrawals
<1>0. LedgerBalance \in Int /\ CommittedWithdrawals \in Nat
    BY UnitsFinite, WalletAssumption DEF WalletInv, TypeOK, LedgerBalance, CommittedWithdrawals
<1>1. ASSUME NEW amount \in Amounts, AskWithdrawal(c, amount)
      PROVE  WalletInv' /\ UNCHANGED CommittedWithdrawals
    <2> DEFINE call == [at |-> "locking", amount |-> amount]
    <2>1. call \in Call /\ call.at = "locking"
        BY <1>1, WalletAssumption DEF AskWithdrawal, Amounts, Call
    <2>2. CallIsNow(c, call)
        BY <1>1 DEF AskWithdrawal
    <2> HIDE DEF call
    <2> QED
        BY <2>1, <2>2, CallMoves
<1>2. CASE LockOrganisation(c)
    <2> DEFINE call == [at |-> "holding", amount |-> calls[c].amount]
    <2>1. call \in Call /\ call.at = "holding"
        BY <1>2, CallFields DEF LockOrganisation, Call
    <2>2. CallIsNow(c, call) /\ Unlocked
        BY <1>2 DEF LockOrganisation
    <2> HIDE DEF call
    <2> QED
        BY <2>1, <2>2, CallMoves
<1>3. CASE ReadBalance(c)
    <2> DEFINE call == [at |-> "balanced", amount |-> calls[c].amount,
                        balance |-> LedgerBalance]
    <2>1. call \in Call /\ call.at = "balanced" /\ call.balance = LedgerBalance
        BY <1>0, <1>3, CallFields DEF ReadBalance, Call
    <2>2. CallIsNow(c, call) /\ InTransaction(c)
        BY <1>3 DEF ReadBalance, InTransaction
    <2> HIDE DEF call
    <2> QED
        BY <2>1, <2>2, CallMoves
<1>4. CASE ReadPromised(c)
    <2> DEFINE call == [at |-> "counted", amount |-> calls[c].amount,
                        balance |-> calls[c].balance, promised |-> CommittedWithdrawals]
    <2>1. calls[c].at = "balanced" /\ calls[c].balance = LedgerBalance
        BY <1>4 DEF ReadPromised, WalletInv, ReadsHold
    <2>2. /\ call \in Call /\ call.at = "counted"
          /\ call.balance = LedgerBalance /\ call.promised = CommittedWithdrawals
        BY <1>0, <2>1, CallFields DEF Call
    <2>3. CallIsNow(c, call) /\ InTransaction(c)
        BY <1>4 DEF ReadPromised, InTransaction
    <2> HIDE DEF call
    <2>4. call.promised >= CommittedWithdrawals
        BY <1>0, <2>2
    <2> QED
        BY <2>2, <2>3, <2>4, CallMoves
<1>5. CASE RefuseRequest(c) \/ AbandonRequest(c)
    <2>1. CallIsNow(c, Idle) /\ Idle.at = "idle"
        BY <1>5 DEF RefuseRequest, AbandonRequest, Idle
    <2> QED
        BY <2>1, CallMoves
<1> QED
    BY <1>1, <1>2, <1>3, <1>4, <1>5

\* The request is inserted: the promise it adds is within the balance.
LEMMA InsertStep ==
    ASSUME WalletInv, NEW c \in Calls, NEW r \in RequestIds, InsertRequest(c, r)
    PROVE  /\ WalletInv'
           /\ CommittedWithdrawals' <= LedgerBalance'
           /\ CommittedWithdrawals' > CommittedWithdrawals
           /\ UNCHANGED <<earned, debited, paidOut>>
<1> DEFINE row == [status |-> "requested", amount |-> calls[c].amount]
<1>1. calls[c].at = "counted" /\ calls[c].amount \in 1..MaxEarned
    BY CallFields DEF InsertRequest
<1>2. row \in Withdrawal /\ row.status = "requested" /\ row.amount = calls[c].amount
    BY <1>1 DEF Withdrawal, WithdrawalStatus
<1>3. requests \in Rows /\ requests[r].status = "none"
    BY DEF InsertRequest, NoRequest, WalletInv, TypeOK, Rows
<1>4. requests' = [requests EXCEPT ![r] = row]
    BY DEF InsertRequest
<1> HIDE DEF row
<1>5. requests' \in Rows
    BY <1>2, <1>3, <1>4 DEF Rows
<1>6. CommittedWithdrawals' = CommittedWithdrawals + calls[c].amount
    <2>1. requests[r].status \notin Promised /\ row.status \in Promised
        BY <1>2, <1>3 DEF Promised
    <2>2. MoneyIn(requests', Promised) = MoneyIn(requests, Promised) + row.amount
        BY <1>2, <1>3, <1>4, <2>1, RequestEnters
    <2> QED
        BY <1>2, <2>2 DEF CommittedWithdrawals, Promised
<1>7. MoneyIn(requests', {"paid"}) = MoneyIn(requests, {"paid"})
    <2>1. UnitsIn(requests', {"paid"}) = UnitsIn(requests, {"paid"})
        BY <1>2, <1>3, <1>4 DEF UnitsIn, Rows
    <2> QED
        BY <2>1 DEF MoneyIn
<1>8. /\ calls[c].amount <= calls[c].balance - calls[c].promised
      /\ calls[c].balance = LedgerBalance
      /\ calls[c].promised >= CommittedWithdrawals
    BY <1>1 DEF InsertRequest, Affordable, WalletInv, ReadsHold
<1>9. /\ LedgerBalance \in Int /\ CommittedWithdrawals \in Nat /\ calls[c].promised \in Nat
      /\ LedgerBalance' = LedgerBalance
    BY <1>1, UnitsFinite, CallFields, WalletAssumption
       DEF WalletInv, TypeOK, LedgerBalance, CommittedWithdrawals, InsertRequest
<1>10. CommittedWithdrawals' <= LedgerBalance'
    BY <1>1, <1>6, <1>8, <1>9
<1>11. LedgerBalance <= earned
    BY WalletAssumption DEF WalletInv, TypeOK, LedgerBalance
<1>12. UNCHANGED <<earned, debited, paidOut>> /\ calls' = [calls EXCEPT ![c] = Idle]
    BY DEF InsertRequest
<1>13. CommittedIsEarned' /\ PaidIsKnown'
    <2>1. earned \in Int /\ CommittedWithdrawals' \in Int
        BY <1>1, <1>6, <1>9, WalletAssumption DEF WalletInv, TypeOK
    <2> QED
        BY <1>7, <1>9, <1>10, <1>11, <1>12, <2>1
           DEF WalletInv, PaidIsKnown, CommittedIsEarned
<1>14. TypeOK'
    BY <1>5, <1>12 DEF WalletInv, TypeOK, Rows
<1>15. \A d \in Calls : InTransaction(d)' => InTransaction(d) /\ d # c
    BY <1>12 DEF WalletInv, TypeOK, InTransaction, Idle
<1>16. \A d \in Calls : ~InTransaction(d)'
    BY <1>1, <1>15 DEF WalletInv, OneTransaction, InTransaction
<1>17. OneTransaction' /\ ReadsHold'
    BY <1>16 DEF OneTransaction, ReadsHold, InTransaction
<1> QED
    BY <1>1, <1>6, <1>9, <1>10, <1>12, <1>13, <1>14, <1>17 DEF WalletInv

-----------------------------------------------------------------------------
(* The ledger and the administrators.                                      *)

\* The ledger moves only while no call has read it.
LEMMA LedgerStep ==
    ASSUME WalletInv,
           \/ \E amount \in 1..MaxEarned : Credit(amount)
           \/ \E amount \in 1..MaxDebited : Debit(amount)
    PROVE  WalletInv' /\ UNCHANGED CommittedWithdrawals
<1>1. Unlocked /\ UNCHANGED <<requests, calls, paidOut>>
    BY DEF Credit, Debit
<1>2. earned' \in 0..MaxEarned /\ debited' \in 0..MaxDebited /\ earned <= earned'
    BY WalletAssumption DEF Credit, Debit, WalletInv, TypeOK
<1>3. UNCHANGED <<CommittedWithdrawals, MoneyIn(requests, {"paid"})>>
    BY <1>1 DEF CommittedWithdrawals
<1>4. CommittedIsEarned'
    <2>1. CommittedWithdrawals \in Nat /\ earned \in Nat /\ earned' \in Nat
        BY <1>2, UnitsFinite, WalletAssumption DEF CommittedWithdrawals, WalletInv, TypeOK
    <2> QED
        BY <1>2, <1>3, <2>1 DEF WalletInv, CommittedIsEarned
<1>5. OneTransaction' /\ ReadsHold'
    BY <1>1 DEF Unlocked, OneTransaction, ReadsHold, InTransaction
<1>6. TypeOK' /\ PaidIsKnown'
    BY <1>1, <1>2, <1>3 DEF WalletInv, TypeOK, PaidIsKnown
<1> QED
    BY <1>3, <1>4, <1>5, <1>6 DEF WalletInv

\* A decision promises nothing new.
LEMMA DecisionStep ==
    ASSUME WalletInv, NEW r \in RequestIds, NEW next \in WithdrawalStatus,
           WriteStatus(r, next)
    PROVE  /\ WalletInv'
           /\ CommittedWithdrawals' <= CommittedWithdrawals
           /\ next # "rejected" => UNCHANGED CommittedWithdrawals
           /\ next # "paid" => UNCHANGED paidOut
           /\ paidOut <= paidOut'
           /\ UNCHANGED <<earned, debited>>
<1> DEFINE row == [requests[r] EXCEPT !.status = next]
<1>1. requests \in Rows /\ requests[r].status \in AllowedFrom(next)
    BY DEF WriteStatus, WalletInv, TypeOK, Rows
<1>2. /\ next \in {"approved", "rejected", "paid"}
      /\ requests[r].status \in {"requested", "approved"}
      /\ next = "paid" => requests[r].status = "approved"
    BY <1>1 DEF AllowedFrom, WithdrawalStatus
<1>3. requests[r] \in Withdrawal
    BY <1>1, <1>2 DEF Rows, NoRequest
<1>4. row \in Withdrawal /\ row.status = next /\ row.amount = requests[r].amount
    BY <1>3 DEF Withdrawal
<1>5. requests' = [requests EXCEPT ![r] = row]
    BY <1>1 DEF WriteStatus, Rows
<1> HIDE DEF row
<1>6. /\ MoneyIn(requests', Promised) <= MoneyIn(requests, Promised)
      /\ next # "rejected" => MoneyIn(requests', Promised) = MoneyIn(requests, Promised)
    <2>1. CASE next = "rejected"
        <3>1. row.status \notin Promised
            BY <1>4, <2>1 DEF Promised
        <3> QED
            BY <1>1, <1>5, <2>1, <3>1, RequestLeaves
    <2>2. CASE next # "rejected"
        <3>1. row.status \in Promised /\ requests[r].status \in Promised
            BY <1>2, <1>4, <2>2 DEF Promised
        <3>2. MoneyIn(requests', Promised) = MoneyIn(requests, Promised)
            BY <1>1, <1>4, <1>5, <3>1, RequestStays
        <3> QED
            BY <3>2, UnitsFinite
    <2> QED
        BY <2>1, <2>2
<1>7. /\ CommittedWithdrawals' <= CommittedWithdrawals
      /\ next # "rejected" => UNCHANGED CommittedWithdrawals
    BY <1>6 DEF CommittedWithdrawals, Promised
<1>8. /\ PaidIsKnown' /\ paidOut' \in Nat /\ paidOut <= paidOut'
      /\ next # "paid" => UNCHANGED paidOut
    <2>1. requests[r].status \notin {"paid"}
        BY <1>2
    <2>2. CASE next = "paid"
        <3>1. row.status \in {"paid"}
            BY <1>4, <2>2
        <3>2. MoneyIn(requests', {"paid"}) = MoneyIn(requests, {"paid"}) + row.amount
            BY <1>1, <1>4, <1>5, <2>1, <3>1, RequestEnters
        <3>3. paidOut' = paidOut + requests[r].amount
            BY <2>2 DEF WriteStatus
        <3> QED
            BY <1>3, <1>4, <2>2, <3>2, <3>3, WalletAssumption
               DEF WalletInv, TypeOK, PaidIsKnown, Withdrawal
    <2>3. CASE next # "paid"
        <3>1. row.status \in {"paid"} <=> requests[r].status \in {"paid"}
            BY <1>4, <2>1, <2>3
        <3>2. MoneyIn(requests', {"paid"}) = MoneyIn(requests, {"paid"})
            BY <1>1, <1>4, <1>5, <3>1, RequestStays
        <3> QED
            BY <2>3, <3>2 DEF WriteStatus, WalletInv, TypeOK, PaidIsKnown
    <2> QED
        BY <2>2, <2>3
<1>9. requests' \in Rows
    BY <1>1, <1>4, <1>5 DEF Rows
<1>10. UNCHANGED <<earned, debited, calls>>
    BY DEF WriteStatus
<1>11. TypeOK' /\ OneTransaction'
    BY <1>8, <1>9, <1>10 DEF WalletInv, TypeOK, Rows, OneTransaction, InTransaction
<1>12. CommittedWithdrawals \in Nat /\ CommittedWithdrawals' \in Nat
    BY UnitsFinite DEF CommittedWithdrawals
<1>13. ReadsHold'
    <2> SUFFICES ASSUME NEW c \in Calls
                 PROVE  /\ calls[c].at \in {"balanced", "counted"} =>
                               calls[c].balance = LedgerBalance
                        /\ calls[c].at = "counted" =>
                               calls[c].promised >= CommittedWithdrawals'
        BY <1>10 DEF ReadsHold, LedgerBalance
    <2>1. calls[c].at = "counted" => calls[c].promised \in Nat
        BY CallFields
    <2> QED
        BY <1>7, <1>12, <2>1 DEF WalletInv, ReadsHold
<1>14. CommittedIsEarned'
    BY <1>7, <1>10, <1>12, WalletAssumption DEF WalletInv, TypeOK, CommittedIsEarned
<1> QED
    BY <1>7, <1>8, <1>10, <1>11, <1>13, <1>14 DEF WalletInv

-----------------------------------------------------------------------------
(* The theorems.                                                           *)

\* A step keeps the invariant, and promises more only within the balance.
LEMMA WalletStep ==
    ASSUME WalletInv, [Next]_vars
    PROVE  /\ WalletInv'
           /\ CommittedWithdrawals' > CommittedWithdrawals =>
                  CommittedWithdrawals' <= LedgerBalance'
<1>0. CommittedWithdrawals \in Nat /\ CommittedWithdrawals' \in Nat
    BY UnitsFinite DEF CommittedWithdrawals
<1>1. CASE UNCHANGED vars
    BY <1>0, <1>1 DEF vars, WalletInv, TypeOK, OneTransaction, ReadsHold, PaidIsKnown,
                CommittedIsEarned, CommittedWithdrawals, LedgerBalance, InTransaction
<1>2. CASE Next
    BY <1>0, <1>2, CallSteps, InsertStep, LedgerStep, DecisionStep DEF Next
<1> QED
    BY <1>1, <1>2

LEMMA WalletInvHolds == Spec => []WalletInv
BY InitWalletInv, WalletStep, PTL DEF Spec

\* The rows keep their types, whatever is asked for and decided.
THEOREM WalletTypeCorrect == Spec => []TypeOK
BY WalletInvHolds, PTL DEF WalletInv

\* The money paid out and promised to a partner is money it has earned.
THEOREM MoneyOutStaysEarned == Spec => []MoneyOutIsEarned
<1>1. WalletInv => MoneyOutIsEarned
    <2> SUFFICES ASSUME WalletInv PROVE MoneyOutIsEarned
        OBVIOUS
    <2>1. {"requested", "approved"} \intersect {"paid"} = {}
        OBVIOUS
    <2>2. {"requested", "approved"} \union {"paid"} = {"requested", "approved", "paid"}
        OBVIOUS
    <2>3. CommittedWithdrawals = MoneyIn(requests, {"requested", "approved"})
                                     + MoneyIn(requests, {"paid"})
        BY <2>1, <2>2, MoneyAddsUp DEF CommittedWithdrawals
    <2>4. /\ MoneyIn(requests, {"requested", "approved"}) \in Nat
          /\ MoneyIn(requests, {"paid"}) \in Nat
        BY UnitsFinite
    <2> QED
        BY <2>3, <2>4 DEF WalletInv, PaidIsKnown, CommittedIsEarned, MoneyOutIsEarned
<1> QED
    BY <1>1, WalletInvHolds, PTL

\* A promise never exceeds the balance at the moment it is made.
THEOREM PromisesStayCovered == Spec => PromisesAreCovered
<1>1. WalletInv /\ [Next]_vars =>
          [CommittedWithdrawals' > CommittedWithdrawals =>
               CommittedWithdrawals' <= LedgerBalance']_vars
    BY WalletStep
<1> QED
    BY <1>1, WalletInvHolds, PTL DEF Spec, PromisesAreCovered

-----------------------------------------------------------------------------
(* The refinement of PartnerAccount.                                       *)

\* What was paid is among what is promised.
LEMMA PaidIsPromised ==
    /\ MoneyIn(requests, {"paid"}) <= CommittedWithdrawals
    /\ MoneyIn(requests', {"paid"}) <= CommittedWithdrawals'
<1>1. ASSUME NEW rows
      PROVE  MoneyIn(rows, {"paid"}) <= MoneyIn(rows, {"requested", "approved", "paid"})
    <2>1. UnitsIn(rows, {"paid"}) \subseteq UnitsIn(rows, {"requested", "approved", "paid"})
        BY DEF UnitsIn
    <2> QED
        BY <2>1, MoneyMonotone
<1> QED
    BY <1>1 DEF CommittedWithdrawals

LEMMA WalletStepIsAccountStep ==
    ASSUME WalletInv, Next
    PROVE  Account!AccountNext \/ UNCHANGED Account!accountVars
<1> USE DEF Account!AccountNext, Account!Earn, Account!TakeBack, Account!Promise,
            Account!Decline, Account!PayOut, Account!accountVars
<1>0. CommittedWithdrawals \in Nat /\ CommittedWithdrawals' \in Nat
    BY UnitsFinite DEF CommittedWithdrawals
<1>1. ASSUME NEW amount \in 1..MaxEarned, Credit(amount) PROVE Account!Earn
    <2>1. earned' > earned
        BY <1>1, WalletAssumption DEF Credit, WalletInv, TypeOK
    <2> QED
        BY <1>1, <2>1, LedgerStep DEF Credit
<1>2. ASSUME NEW amount \in 1..MaxDebited, Debit(amount) PROVE Account!TakeBack
    <2>1. debited' > debited
        BY <1>2, WalletAssumption DEF Debit, WalletInv, TypeOK
    <2> QED
        BY <1>2, <2>1, LedgerStep DEF Debit
<1>3. ASSUME NEW c \in Calls, NEW r \in RequestIds, InsertRequest(c, r)
      PROVE  Account!Promise
    BY <1>3, InsertStep DEF LedgerBalance
<1>4. ASSUME NEW r \in RequestIds, NEW next \in WithdrawalStatus, WriteStatus(r, next)
      PROVE  Account!Decline \/ Account!PayOut \/ UNCHANGED Account!accountVars
    <2>1. /\ WalletInv'
          /\ CommittedWithdrawals' <= CommittedWithdrawals
          /\ next # "rejected" => UNCHANGED CommittedWithdrawals
          /\ next # "paid" => UNCHANGED paidOut
          /\ paidOut <= paidOut'
          /\ UNCHANGED <<earned, debited>>
        BY <1>4, DecisionStep
    <2>2. paidOut' <= CommittedWithdrawals'
        BY <2>1, PaidIsPromised DEF WalletInv, PaidIsKnown
    <2>3. paidOut \in Nat /\ paidOut' \in Nat
        BY <2>1 DEF WalletInv, TypeOK
    <2>4. CASE next = "rejected"
        <3>1. UNCHANGED <<earned, debited, paidOut>>
            BY <2>1, <2>4
        <3> QED
            BY <1>0, <2>1, <2>2, <2>3, <3>1
    <2>5. CASE next # "rejected"
        <3>1. UNCHANGED <<earned, debited, CommittedWithdrawals>>
            BY <2>1, <2>5
        <3> QED
            BY <1>0, <2>1, <2>2, <2>3, <3>1
    <2> QED
        BY <2>4, <2>5
<1>5. ASSUME NEW c \in Calls,
             \/ \E amount \in Amounts : AskWithdrawal(c, amount)
             \/ LockOrganisation(c) \/ ReadBalance(c) \/ ReadPromised(c)
             \/ RefuseRequest(c) \/ AbandonRequest(c)
      PROVE  UNCHANGED Account!accountVars
    <2>1. UNCHANGED <<earned, debited, paidOut>>
        BY <1>5 DEF AskWithdrawal, LockOrganisation, ReadBalance, ReadPromised,
                    RefuseRequest, AbandonRequest, CallIsNow
    <2> QED
        BY <1>5, <2>1, CallSteps
<1> QED
    BY <1>1, <1>2, <1>3, <1>4, <1>5 DEF Next

\* The statements of withdrawal and the decisions implement an atomic account.
THEOREM WalletImplementsAccount == Spec => ImplementsAccount
<1>1. Init => Account!AccountInit
    <2> SUFFICES ASSUME Init PROVE CommittedWithdrawals = 0
        BY DEF Init, Account!AccountInit
    <2>1. UnitsIn(requests, {"requested", "approved", "paid"}) = {}
        BY DEF Init, UnitsIn, NoRequest
    <2> QED
        BY <2>1, FS_EmptySet DEF CommittedWithdrawals, MoneyIn
<1>2. WalletInv /\ [Next]_vars => [Account!AccountNext]_(Account!accountVars)
    <2>1. CASE UNCHANGED vars
        BY <2>1 DEF vars, Account!accountVars, CommittedWithdrawals
    <2> QED
        BY <2>1, WalletStepIsAccountStep
<1> QED
    BY <1>1, <1>2, WalletInvHolds, PTL DEF Spec, ImplementsAccount, Account!AccountSpec

=============================================================================
