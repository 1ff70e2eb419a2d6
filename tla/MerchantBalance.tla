-------------------------- MODULE MerchantBalance --------------------------
(***************************************************************************)
(* A merchant's money between the credit of a payment and the transfer to  *)
(* the merchant's bank: the append-only ledger, the payouts requested      *)
(* against its sum, and the admins who process them, refund payments and   *)
(* adjust balances meanwhile.                                              *)
(*                                                                         *)
(* PayoutRepository.Request is a transaction of several statements, each   *)
(* of which sees what others committed since the one before (READ          *)
(* COMMITTED); only its lock on the merchant's row holds others back.  The *)
(* other operations are one statement, or one transaction whose effects    *)
(* appear together, and are one action each.                               *)
(***************************************************************************)
EXTENDS Integers, FiniteSets, FiniteSetsExt

CONSTANTS
    Merchant,
    Payout,        \* payout identifiers
    Account,       \* payout accounts a merchant may register
    NoMerchant,
    NoAccount,     \* the account columns are NULL
    Requester,     \* goroutines that serve payout requests
    MinAmount,     \* [payout] min_amount
    MaxMoney       \* bound on what is credited, raised and lowered per merchant

ASSUME BalanceAssumption ==
    /\ MinAmount \in Nat \ {0}
    /\ MaxMoney \in Nat
    /\ NoMerchant \notin Merchant
    /\ NoAccount \notin Account

VARIABLES
    \* merchant_ledger, summed per merchant and kind of row
    credited,    \* payment_credit
    refunded,    \* refund_debit
    raised,      \* adjustment, the positive ones
    lowered,     \* adjustment, the negative ones
    paidOut,     \* payout_debit less payout_reversal
    \* the other tables
    payouts,
    account,     \* merchants.payout_account_number and its companions
    \* the process
    task         \* the payout request a goroutine is in the middle of

ledger == <<credited, refunded, raised, lowered, paidOut>>
vars == <<ledger, payouts, account, task>>

Amounts == MinAmount .. 2 * MaxMoney

Unrequested == [status |-> "none", merchant |-> NoMerchant, amount |-> 0,
                account |-> NoAccount]
Requested == [status : {"requested", "paid", "rejected"}, merchant : Merchant,
              amount : Amounts, account : Account]

Idle == [step |-> "idle", merchant |-> NoMerchant, amount |-> 0, account |-> NoAccount]
Requesting == [step : {"check", "sum", "insert"}, merchant : Merchant,
               amount : Amounts, account : Account]

balance(m) == credited[m] - refunded[m] + raised[m] - lowered[m] - paidOut[m]
open(m) == \E po \in Payout : /\ payouts[po].merchant = m
                              /\ payouts[po].status = "requested"

\* Slip: the merchant's row is read without FOR NO KEY UPDATE.
LockedByNobody(m) == FALSE
\* Somebody's Request holds the row, from its first statement to its end.
Locked(m) == \E r \in Requester : task[r] # Idle /\ task[r].merchant = m

Goto(r, step) == task' = [task EXCEPT ![r].step = step]
Done(r) == task' = [task EXCEPT ![r] = Idle]

Init ==
    /\ credited = [m \in Merchant |-> 0]
    /\ refunded = [m \in Merchant |-> 0]
    /\ raised = [m \in Merchant |-> 0]
    /\ lowered = [m \in Merchant |-> 0]
    /\ paidOut = [m \in Merchant |-> 0]
    /\ payouts = [po \in Payout |-> Unrequested]
    /\ account = [m \in Merchant |-> NoAccount]
    /\ task = [r \in Requester |-> Idle]

-----------------------------------------------------------------------------
(* Others who write to the ledger.  The foreign keys of their rows take    *)
(* FOR KEY SHARE on the merchant's row, which no lock below holds back.    *)

\* The credit of PaymentRepository.MarkPaid.
Credit(m, amount) ==
    /\ credited[m] + amount <= MaxMoney
    /\ credited' = [credited EXCEPT ![m] = @ + amount]
    /\ UNCHANGED <<refunded, raised, lowered, paidOut, payouts, account, task>>

\* RefundWithRemaining: no refund exceeds what its payment credited.
Refund(m, amount) ==
    /\ refunded[m] + amount <= credited[m]
    /\ refunded' = [refunded EXCEPT ![m] = @ + amount]
    /\ UNCHANGED <<credited, raised, lowered, paidOut, payouts, account, task>>

\* Adjust: a single row of either sign, with no look at the balance.
Adjust(m, amount) ==
    /\ \/ /\ raised[m] + amount <= MaxMoney
          /\ raised' = [raised EXCEPT ![m] = @ + amount]
          /\ UNCHANGED lowered
       \/ /\ lowered[m] + amount <= MaxMoney
          /\ lowered' = [lowered EXCEPT ![m] = @ + amount]
          /\ UNCHANGED raised
    /\ UNCHANGED <<credited, refunded, paidOut, payouts, account, task>>

\* An UPDATE of the merchant's row waits for the lock.
SetPayoutAccount(m, a) ==
    /\ ~Locked(m)
    /\ account' = [account EXCEPT ![m] = a]
    /\ UNCHANGED <<ledger, payouts, task>>

-----------------------------------------------------------------------------
(* PayoutRepository.Request.                                               *)

\* Slip: nobody looks whether the account columns are NULL.
LockMerchantAnyAccount(r, m, amount) ==
    /\ task[r] = Idle
    /\ amount >= MinAmount
    /\ ~Locked(m)
    /\ task' = [task EXCEPT ![r] = [step |-> "check", merchant |-> m,
                                    amount |-> amount, account |-> account[m]]]
    /\ UNCHANGED <<ledger, payouts, account>>

LockMerchant(r, m, amount) ==
    /\ task[r] = Idle
    /\ amount >= MinAmount
    /\ ~Locked(m)
    /\ account[m] # NoAccount
    /\ task' = [task EXCEPT ![r] = [step |-> "check", merchant |-> m,
                                    amount |-> amount, account |-> account[m]]]
    /\ UNCHANGED <<ledger, payouts, account>>

CheckOpen(r) ==
    /\ task[r].step = "check"
    /\ IF open(task[r].merchant) THEN Done(r) ELSE Goto(r, "sum")
    /\ UNCHANGED <<ledger, payouts, account>>

SumLedger(r) ==
    /\ task[r].step = "sum"
    /\ IF task[r].amount > balance(task[r].merchant) THEN Done(r) ELSE Goto(r, "insert")
    /\ UNCHANGED <<ledger, payouts, account>>

\* Both inserts and the commit, held to uq_payouts_one_open_per_merchant.
Insert(r, po) ==
    LET m == task[r].merchant
    IN /\ task[r].step = "insert"
       /\ payouts[po] = Unrequested
       /\ ~open(m)
       /\ payouts' = [payouts EXCEPT ![po] =
             [status |-> "requested", merchant |-> m,
              amount |-> task[r].amount, account |-> task[r].account]]
       /\ paidOut' = [paidOut EXCEPT ![m] = @ + task[r].amount]
       /\ Done(r)
       /\ UNCHANGED <<credited, refunded, raised, lowered, account>>

\* A statement failed, the request was cancelled or the process died.
RollBack(r) ==
    /\ task[r] # Idle
    /\ Done(r)
    /\ UNCHANGED <<ledger, payouts, account>>

-----------------------------------------------------------------------------
(* An admin processes a payout.                                            *)

\* Slip: the debit is taken again although it was taken at the request.
MarkPaidWithDebit(po) ==
    /\ payouts[po].status = "requested"
    /\ payouts' = [payouts EXCEPT ![po].status = "paid"]
    /\ paidOut' = [paidOut EXCEPT ![payouts[po].merchant] = @ + payouts[po].amount]
    /\ UNCHANGED <<credited, refunded, raised, lowered, account, task>>

MarkPaid(po) ==
    /\ payouts[po].status = "requested"
    /\ payouts' = [payouts EXCEPT ![po].status = "paid"]
    /\ UNCHANGED <<ledger, account, task>>

\* Slip: the update is not guarded by the status.
RejectAnyway(po) ==
    /\ payouts[po].status \in {"requested", "paid"}
    /\ payouts' = [payouts EXCEPT ![po].status = "rejected"]
    /\ paidOut' = [paidOut EXCEPT ![payouts[po].merchant] = @ - payouts[po].amount]
    /\ UNCHANGED <<credited, refunded, raised, lowered, account, task>>

\* The status and the reversal, or neither.
Reject(po) ==
    /\ payouts[po].status = "requested"
    /\ payouts' = [payouts EXCEPT ![po].status = "rejected"]
    /\ paidOut' = [paidOut EXCEPT ![payouts[po].merchant] = @ - payouts[po].amount]
    /\ UNCHANGED <<credited, refunded, raised, lowered, account, task>>

-----------------------------------------------------------------------------
(* The handlers.                                                           *)

UpdatePayoutAccount(m) == \E a \in Account : SetPayoutAccount(m, a)
\* AdjustMerchantBalance: any amount but zero.
AdjustMerchantBalance(m) == \E amount \in 1 .. MaxMoney : Adjust(m, amount)
RequestPayout(r) ==
    \/ \E m \in Merchant, amount \in 1 .. 2 * MaxMoney : LockMerchant(r, m, amount)
    \/ CheckOpen(r)
    \/ SumLedger(r)
    \/ \E po \in Payout : Insert(r, po)
    \/ RollBack(r)
processPayout(po) == MarkPaid(po) \/ Reject(po)

Next ==
    \/ \E m \in Merchant :
          \/ \E amount \in 1 .. MaxMoney : Credit(m, amount) \/ Refund(m, amount)
          \/ AdjustMerchantBalance(m) \/ UpdatePayoutAccount(m)
    \/ \E r \in Requester : RequestPayout(r)
    \/ \E po \in Payout : processPayout(po)

Spec == Init /\ [][Next]_vars

-----------------------------------------------------------------------------
(* What must hold.                                                         *)

\* The variables take the values their comments say.
TypeOK ==
    /\ credited \in [Merchant -> Nat]
    /\ refunded \in [Merchant -> Nat]
    /\ raised \in [Merchant -> Nat]
    /\ lowered \in [Merchant -> Nat]
    /\ paidOut \in [Merchant -> Int]
    /\ payouts \in [Payout -> Requested \union {Unrequested}]
    /\ account \in [Merchant -> Account \union {NoAccount}]
    /\ task \in [Requester -> Requesting \union {Idle}]

\* The lock of Request keeps the balance from being spent twice: what payouts
\* take never exceeds what payments and adjustments ever brought.  Only a
\* refund or a negative adjustment makes a balance negative, also one that
\* commits between the sum and the insert (DEPLOY.md 4.6).
PayoutsWithinEarnings ==
    \A m \in Merchant : paidOut[m] <= credited[m] + raised[m]

\* The ledger and the payouts table tell the same story: Summary.TotalPaidOut
\* is the sum of the payouts that are requested or paid, through every order of
\* requests, payments and rejections.
Held(m) == {po \in Payout : /\ payouts[po].merchant = m
                            /\ payouts[po].status \in {"requested", "paid"}}
TotalPaidOutTruthful ==
    \A m \in Merchant :
        paidOut[m] = MapThenSumSet(LAMBDA po : payouts[po].amount, Held(m))

\* An admin's transfer is final: of two admins who process the same payout only
\* one has an effect, so money that left is never also given back.
ProcessedOnce ==
    [][\A po \in Payout :
          payouts[po].status \in {"paid", "rejected"} => payouts'[po] = payouts[po]]_vars

\* A payout goes to the account the merchant has at the moment the request
\* commits, though the account was read several statements before.
PaidToCurrentAccount ==
    [][\A po \in Payout :
          payouts[po] # payouts'[po] /\ payouts'[po].status = "requested"
              => payouts'[po].account = account[payouts'[po].merchant]]_vars
=============================================================================
