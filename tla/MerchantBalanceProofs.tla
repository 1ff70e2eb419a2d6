----------------------- MODULE MerchantBalanceProofs -----------------------
(***************************************************************************)
(* MerchantBalance for every number of merchants, payouts and requests:    *)
(* its type invariant, that payouts never take more than was ever earned,  *)
(* that a processed payout stays as it is, whose account it names, and     *)
(* that the ledger and the payouts tell the same sum.                      *)
(***************************************************************************)
EXTENDS MerchantBalance, TLAPS, FiniteSetTheorems, WellFoundedInduction

(* A goroutine's task is Idle, or it is a request of a merchant.           *)
LEMMA TaskKind ==
    ASSUME TypeOK, NEW r \in Requester, task[r].step # "idle"
    PROVE  task[r] \in Requesting
  BY DEF TypeOK, Idle

(* The variables keep their types (TypeOK).                                *)
THEOREM BalanceTypeCorrect == Spec => []TypeOK
<1>1. Init => TypeOK
  BY DEF Init, TypeOK
<1>2. TypeOK /\ [Next]_vars => TypeOK'
  <2> SUFFICES ASSUME TypeOK, [Next]_vars PROVE TypeOK'
    OBVIOUS
  <2> USE BalanceAssumption
  <2>1. ASSUME NEW m \in Merchant, NEW amount \in 1 .. MaxMoney,
               Credit(m, amount) \/ Refund(m, amount) \/ Adjust(m, amount)
        PROVE  TypeOK'
    BY <2>1 DEF TypeOK, Credit, Refund, Adjust
  <2>2. ASSUME NEW m \in Merchant, NEW a \in Account, SetPayoutAccount(m, a)
        PROVE  TypeOK'
    BY <2>2 DEF TypeOK, SetPayoutAccount, ledger
  <2>3. ASSUME NEW r \in Requester, NEW m \in Merchant,
               NEW amount \in 1 .. 2 * MaxMoney, LockMerchant(r, m, amount)
        PROVE  TypeOK'
    <3>1. [step |-> "check", merchant |-> m, amount |-> amount,
           account |-> account[m]] \in Requesting
      <4>1. amount \in Amounts
        BY <2>3 DEF LockMerchant, Amounts, ledger
      <4>2. account[m] \in Account
        BY <2>3 DEF LockMerchant, TypeOK
      <4> QED BY <4>1, <4>2 DEF Requesting
    <3> QED BY <2>3, <3>1 DEF TypeOK, LockMerchant, ledger
  <2>4. ASSUME NEW r \in Requester, CheckOpen(r) \/ SumLedger(r) \/ RollBack(r)
        PROVE  TypeOK'
    <3>1. UNCHANGED <<ledger, payouts, account>>
      BY <2>4 DEF CheckOpen, SumLedger, RollBack
    <3>2. task' \in [Requester -> Requesting \union {Idle}]
      <4>1. CASE Done(r)
        BY <4>1 DEF Done, TypeOK
      <4>2. CASE task[r].step # "idle" /\ \E step \in {"sum", "insert"} : Goto(r, step)
        <5>1. task[r] \in Requesting
          BY <4>2, TaskKind
        <5> QED BY <4>2, <5>1 DEF Goto, TypeOK, Requesting
      <4> QED BY <2>4, <4>1, <4>2 DEF CheckOpen, SumLedger, RollBack
    <3> QED BY <3>1, <3>2 DEF TypeOK, ledger
  <2>5. ASSUME NEW r \in Requester, NEW po \in Payout, Insert(r, po)
        PROVE  TypeOK'
    <3>1. task[r] \in Requesting
      BY <2>5, TaskKind DEF Insert
    <3>2. task[r].merchant \in Merchant /\ task[r].amount \in Amounts /\ task[r].amount \in Int
          /\ task[r].account \in Account
      BY <3>1 DEF Requesting, Amounts
    <3>3. [status |-> "requested", merchant |-> task[r].merchant,
           amount |-> task[r].amount, account |-> task[r].account] \in Requested
      BY <3>2 DEF Requested
    <3> QED BY <2>5, <3>2, <3>3 DEF TypeOK, Insert, Done
  <2>6. ASSUME NEW po \in Payout, MarkPaid(po) \/ Reject(po)
        PROVE  TypeOK'
    <3>1. payouts[po] \in Requested
      BY <2>6 DEF MarkPaid, Reject, TypeOK, Unrequested
    <3>2. payouts[po].merchant \in Merchant /\ payouts[po].amount \in Int
      BY <3>1 DEF Requested, Amounts
    <3>3. payouts' \in [Payout -> Requested \union {Unrequested}]
      BY <2>6, <3>1 DEF MarkPaid, Reject, TypeOK, Requested
    <3>4. paidOut' \in [Merchant -> Int]
      BY <2>6, <3>2 DEF MarkPaid, Reject, TypeOK, ledger
    <3> QED BY <2>6, <3>3, <3>4 DEF MarkPaid, Reject, TypeOK, ledger
  <2>7. CASE UNCHANGED vars
    BY <2>7 DEF TypeOK, vars, ledger
  <2> QED BY <2>1, <2>2, <2>3, <2>4, <2>5, <2>6, <2>7 DEF Next, UpdatePayoutAccount, AdjustMerchantBalance, RequestPayout,
             processPayout
<1> QED BY <1>1, <1>2, PTL DEF Spec

-----------------------------------------------------------------------------
(* Why payouts stay within earnings.  The sum a request has checked stays  *)
(* good until its insert: its lock keeps other requests of the merchant    *)
(* out, a rejection only lowers paidOut, and refunds and adjustments do    *)
(* not lower what was earned.                                              *)

Earned(m) == credited[m] + raised[m]

OneRequestEach ==
    \A r, q \in Requester :
        task[r] # Idle /\ task[q] # Idle /\ task[r].merchant = task[q].merchant
            => r = q
SumStillGood ==
    \A r \in Requester :
        task[r].step = "insert" =>
            paidOut[task[r].merchant] + task[r].amount <= Earned(task[r].merchant)

BalanceInv == TypeOK /\ OneRequestEach /\ SumStillGood /\ PayoutsWithinEarnings

(* The request's lock is exclusive, whoever begins, continues or ends one. *)
LEMMA OneRequestEachKept ==
    ASSUME TypeOK, OneRequestEach, [Next]_vars
    PROVE  OneRequestEach'
<1>1. ASSUME NEW r \in Requester, NEW m \in Merchant,
             NEW amount \in 1 .. 2 * MaxMoney, LockMerchant(r, m, amount)
      PROVE  OneRequestEach'
  <2>1. \A q \in Requester \ {r} : task'[q] = task[q]
    BY <1>1 DEF LockMerchant, TypeOK
  <2>2. task'[r].merchant = m
    BY <1>1 DEF LockMerchant, TypeOK
  <2>3. \A q \in Requester : task[q] # Idle => task[q].merchant # m
    BY <1>1 DEF LockMerchant, Locked
  <2> QED BY <2>1, <2>2, <2>3 DEF OneRequestEach
<1>2. ASSUME NEW r \in Requester,
             Done(r) \/ (task[r] # Idle /\ \E step \in {"sum", "insert"} : Goto(r, step))
      PROVE  OneRequestEach'
  <2>1. \A q \in Requester \ {r} : task'[q] = task[q]
    BY <1>2 DEF Done, Goto, TypeOK
  <2>2. CASE Done(r)
    BY <2>1, <2>2 DEF Done, TypeOK, OneRequestEach
  <2>3. CASE task[r] # Idle /\ \E step \in {"sum", "insert"} : Goto(r, step)
    <3>1. task[r] \in Requesting
      BY <2>3 DEF TypeOK
    <3>2. task'[r].merchant = task[r].merchant
      BY <2>3, <3>1 DEF Goto, TypeOK, Requesting
    <3> QED BY <2>1, <2>3, <3>2 DEF OneRequestEach
  <2> QED BY <1>2, <2>2, <2>3
<1>3. CASE UNCHANGED task
  BY <1>3 DEF OneRequestEach
<1>4. ASSUME NEW r \in Requester, NEW po \in Payout,
             CheckOpen(r) \/ SumLedger(r) \/ Insert(r, po) \/ RollBack(r)
      PROVE  OneRequestEach'
  BY <1>2, <1>4 DEF CheckOpen, SumLedger, Insert, RollBack, Idle
<1>5. ASSUME NEW r \in Requester, CheckOpen(r) \/ SumLedger(r) \/ RollBack(r)
      PROVE  OneRequestEach'
  BY <1>2, <1>5 DEF CheckOpen, SumLedger, RollBack, Idle
<1> QED
  BY <1>1, <1>3, <1>4, <1>5
  DEF Next, UpdatePayoutAccount, AdjustMerchantBalance, RequestPayout, processPayout, Credit, Refund, Adjust, SetPayoutAccount, MarkPaid, Reject, vars

(* Payouts never take more than payments and adjustments ever brought      *)
(* (PayoutsWithinEarnings), however requests, refunds, adjustments,        *)
(* credits and the processing of payouts interleave.                       *)
THEOREM PayoutsCovered == Spec => []PayoutsWithinEarnings
<1>1. Init => BalanceInv
  BY DEF Init, BalanceInv, TypeOK, OneRequestEach, SumStillGood,
         PayoutsWithinEarnings, Idle, Earned
<1>2. BalanceInv /\ TypeOK' /\ [Next]_vars => BalanceInv'
  <2> SUFFICES ASSUME BalanceInv, TypeOK', [Next]_vars
               PROVE  SumStillGood' /\ PayoutsWithinEarnings'
    BY OneRequestEachKept DEF BalanceInv
  <2>t. TypeOK
    BY DEF BalanceInv
  <2>i. /\ \A m \in Merchant : /\ credited[m] \in Nat /\ raised[m] \in Nat
                               /\ refunded[m] \in Nat /\ lowered[m] \in Nat
                               /\ paidOut[m] \in Int
                               /\ credited'[m] \in Nat /\ raised'[m] \in Nat
                               /\ paidOut'[m] \in Int
    BY <2>t DEF TypeOK
  <2>k. \A r \in Requester : task[r].step # "idle" =>
            task[r].merchant \in Merchant /\ task[r].amount \in Nat
    BY <2>t, TaskKind, BalanceAssumption DEF Requesting, Amounts
  <2>1. ASSUME task' = task,
               \A m \in Merchant : Earned(m) <= Earned(m)' /\ paidOut'[m] <= paidOut[m]
        PROVE  SumStillGood' /\ PayoutsWithinEarnings'
    BY <2>1, <2>i, <2>k DEF BalanceInv, SumStillGood, PayoutsWithinEarnings, Earned
  <2>2. ASSUME NEW m \in Merchant, NEW amount \in 1 .. MaxMoney,
               Credit(m, amount) \/ Refund(m, amount) \/ Adjust(m, amount)
        PROVE  SumStillGood' /\ PayoutsWithinEarnings'
    <3>1. task' = task /\ paidOut' = paidOut
      BY <2>2 DEF Credit, Refund, Adjust
    <3>2. \A n \in Merchant : Earned(n) <= Earned(n)'
      BY <2>2, <2>t, <2>i DEF Credit, Refund, Adjust, Earned, TypeOK
    <3> QED BY <3>1, <3>2, <2>1, <2>i
  <2>3. ASSUME NEW m \in Merchant, NEW a \in Account, SetPayoutAccount(m, a)
        PROVE  SumStillGood' /\ PayoutsWithinEarnings'
    BY <2>3, <2>1, <2>i DEF SetPayoutAccount, ledger, Earned
  <2>4. ASSUME UNCHANGED ledger, NEW r \in Requester,
               \A q \in Requester \ {r} : task'[q] = task[q],
               task'[r].step = "insert" =>
                   /\ task[r].amount <= balance(task[r].merchant)
                   /\ task'[r].merchant = task[r].merchant
                   /\ task'[r].amount = task[r].amount
                   /\ task[r].step # "idle"
        PROVE  SumStillGood' /\ PayoutsWithinEarnings'
    <3>1. task'[r].step = "insert" =>
              paidOut[task[r].merchant] + task[r].amount <= Earned(task[r].merchant)
      BY <2>4, <2>i, <2>k DEF balance, Earned
    <3>2. UNCHANGED <<credited, raised, paidOut>>
      BY <2>4 DEF ledger
    <3>3. SumStillGood'
      BY <2>4, <3>1, <3>2 DEF BalanceInv, SumStillGood, Earned
    <3> QED BY <3>2, <3>3 DEF BalanceInv, PayoutsWithinEarnings
  <2>5. ASSUME NEW r \in Requester, NEW m \in Merchant,
               NEW amount \in 1 .. 2 * MaxMoney, LockMerchant(r, m, amount)
        PROVE  SumStillGood' /\ PayoutsWithinEarnings'
    BY <2>5, <2>4, <2>t DEF LockMerchant, TypeOK
  <2>6. ASSUME NEW r \in Requester, CheckOpen(r) \/ RollBack(r)
        PROVE  SumStillGood' /\ PayoutsWithinEarnings'
    <3>1. task'[r].step # "insert"
      <4>1. CASE Done(r)
        BY <4>1, <2>t DEF Done, TypeOK, Idle
      <4>2. CASE task[r].step = "check" /\ Goto(r, "sum")
        <5>1. task[r] \in Requesting
          BY <4>2, <2>t, TaskKind
        <5> QED BY <4>2, <5>1, <2>t DEF Goto, TypeOK, Requesting
      <4> QED BY <2>6, <4>1, <4>2 DEF CheckOpen, RollBack
    <3>2. UNCHANGED ledger /\ \A q \in Requester \ {r} : task'[q] = task[q]
      BY <2>6, <2>t DEF CheckOpen, RollBack, Done, Goto, TypeOK
    <3> QED BY <3>1, <3>2, <2>4
  <2>7. ASSUME NEW r \in Requester, SumLedger(r)
        PROVE  SumStillGood' /\ PayoutsWithinEarnings'
    <3>1. UNCHANGED ledger /\ \A q \in Requester \ {r} : task'[q] = task[q]
      BY <2>7, <2>t DEF SumLedger, Done, Goto, TypeOK
    <3>2. task[r] \in Requesting
      BY <2>7, <2>t, TaskKind DEF SumLedger
    <3>3. CASE task[r].amount > balance(task[r].merchant)
      <4>1. task'[r].step # "insert"
        BY <2>7, <2>t, <3>3 DEF SumLedger, Done, TypeOK, Idle
      <4> QED BY <4>1, <3>1, <2>4
    <3>4. CASE ~(task[r].amount > balance(task[r].merchant))
      <4>1. Goto(r, "insert")
        BY <2>7, <3>4 DEF SumLedger
      <4>2. task'[r].merchant = task[r].merchant /\ task'[r].amount = task[r].amount
        BY <4>1, <3>2, <2>t DEF Goto, TypeOK, Requesting
      <4>3. task[r].amount <= balance(task[r].merchant)
        BY <3>4, <2>7, <2>i, <2>k DEF balance, SumLedger
      <4> QED BY <4>2, <4>3, <3>1, <2>4, <2>7 DEF SumLedger
    <3> QED BY <3>3, <3>4
  <2>8. ASSUME NEW r \in Requester, NEW po \in Payout, Insert(r, po)
        PROVE  SumStillGood' /\ PayoutsWithinEarnings'
    <3> DEFINE m == task[r].merchant
    <3>1. m \in Merchant /\ task[r].amount \in Nat /\ task[r] # Idle
      BY <2>8, <2>k DEF Insert, Idle
    <3>2. paidOut[m] + task[r].amount <= Earned(m)
      BY <2>8 DEF Insert, BalanceInv, SumStillGood
    <3>3. UNCHANGED <<credited, raised>>
          /\ paidOut' = [paidOut EXCEPT ![m] = @ + task[r].amount]
      BY <2>8 DEF Insert
    <3>4. PayoutsWithinEarnings'
      BY <3>1, <3>2, <3>3, <2>t, <2>i DEF BalanceInv, PayoutsWithinEarnings, Earned, TypeOK
    <3>5. \A q \in Requester : task'[q].step = "insert" =>
              q # r /\ task'[q] = task[q] /\ task[q].merchant # m
      <4>1. task'[r].step # "insert" /\ \A q \in Requester \ {r} : task'[q] = task[q]
        BY <2>8, <2>t DEF Insert, Done, TypeOK, Idle
      <4>2. \A q \in Requester : task[q].step = "insert" => task[q] # Idle
        BY DEF Idle
      <4> QED BY <3>1, <4>1, <4>2 DEF BalanceInv, OneRequestEach
    <3>6. \A n \in Merchant \ {m} : paidOut'[n] = paidOut[n]
      BY <3>3, <2>t DEF TypeOK
    <3>7. SumStillGood'
      BY <3>3, <3>5, <3>6, <2>k DEF BalanceInv, SumStillGood, Earned
    <3> QED BY <3>4, <3>7
  <2>9. ASSUME NEW po \in Payout, MarkPaid(po) \/ Reject(po)
        PROVE  SumStillGood' /\ PayoutsWithinEarnings'
    <3>1. payouts[po] \in Requested
      BY <2>9, <2>t DEF MarkPaid, Reject, TypeOK, Unrequested
    <3>2. payouts[po].merchant \in Merchant /\ payouts[po].amount \in Nat
      BY <3>1, BalanceAssumption DEF Requested, Amounts
    <3>3. UNCHANGED <<task, credited, raised>>
      BY <2>9 DEF MarkPaid, Reject, ledger
    <3>4. \A n \in Merchant : paidOut'[n] <= paidOut[n]
      BY <2>9, <2>t, <2>i, <3>2 DEF MarkPaid, Reject, ledger, TypeOK
    <3> QED BY <3>3, <3>4, <2>1, <2>i DEF Earned
  <2>10. CASE UNCHANGED vars
    BY <2>10, <2>1, <2>i DEF vars, ledger, Earned
  <2> QED BY <2>2, <2>3, <2>5, <2>6, <2>7, <2>8, <2>9, <2>10 DEF Next, UpdatePayoutAccount, AdjustMerchantBalance, RequestPayout,
             processPayout
<1>3. BalanceInv => PayoutsWithinEarnings
  BY DEF BalanceInv
<1> QED BY <1>1, <1>2, <1>3, BalanceTypeCorrect, PTL DEF Spec

(* Whatever two admins do at once, a payout that was paid or rejected      *)
(* never changes again (ProcessedOnce).                                    *)
THEOREM PayoutProcessedOnce == Spec => ProcessedOnce
<1>1. TypeOK /\ [Next]_vars =>
        \A po \in Payout :
            payouts[po].status \in {"paid", "rejected"} => payouts'[po] = payouts[po]
  <2> SUFFICES ASSUME TypeOK, [Next]_vars, NEW po \in Payout,
                      payouts[po].status \in {"paid", "rejected"}
               PROVE  payouts'[po] = payouts[po]
    OBVIOUS
  <2>1. ASSUME NEW r \in Requester, NEW other \in Payout, Insert(r, other)
        PROVE  payouts'[po] = payouts[po]
    BY <2>1 DEF Insert, Unrequested, TypeOK
  <2>2. ASSUME NEW other \in Payout, MarkPaid(other) \/ Reject(other)
        PROVE  payouts'[po] = payouts[po]
    BY <2>2 DEF MarkPaid, Reject, TypeOK
  <2>3. CASE UNCHANGED payouts
    BY <2>3
  <2> QED
    BY <2>1, <2>2, <2>3 DEF Next, UpdatePayoutAccount, AdjustMerchantBalance, RequestPayout, processPayout, vars, Credit, Refund, Adjust, SetPayoutAccount,
       LockMerchant, CheckOpen, SumLedger, RollBack
<1> QED BY <1>1, BalanceTypeCorrect, PTL DEF Spec, ProcessedOnce
-----------------------------------------------------------------------------
(* Why the account of a request is the merchant's still when it commits:   *)
(* the same lock holds back whoever would set another one.                 *)

AccountHeld ==
    \A r \in Requester : task[r] # Idle => task[r].account = account[task[r].merchant]

LEMMA AccountHeldKept ==
    ASSUME TypeOK, AccountHeld, [Next]_vars
    PROVE  AccountHeld'
<1>1. ASSUME NEW r \in Requester, NEW m \in Merchant,
             NEW amount \in 1 .. 2 * MaxMoney, LockMerchant(r, m, amount)
      PROVE  AccountHeld'
  <2>1. task'[r].account = account'[task'[r].merchant]
    BY <1>1 DEF LockMerchant, TypeOK
  <2>2. UNCHANGED account /\ \A q \in Requester \ {r} : task'[q] = task[q]
    BY <1>1 DEF LockMerchant, TypeOK
  <2> QED BY <2>1, <2>2 DEF AccountHeld
<1>2. ASSUME NEW m \in Merchant, NEW a \in Account, SetPayoutAccount(m, a)
      PROVE  AccountHeld'
  <2>1. \A r \in Requester : task[r] # Idle => task[r].merchant # m
    BY <1>2 DEF SetPayoutAccount, Locked
  <2>2. task' = task /\ account' = [account EXCEPT ![m] = a]
    BY <1>2 DEF SetPayoutAccount
  <2> QED BY <2>1, <2>2 DEF AccountHeld, TypeOK
<1>3. ASSUME NEW r \in Requester, UNCHANGED account,
             Done(r) \/ (task[r] # Idle /\ \E step \in {"sum", "insert"} : Goto(r, step))
      PROVE  AccountHeld'
  <2>1. \A q \in Requester \ {r} : task'[q] = task[q]
    BY <1>3 DEF Done, Goto, TypeOK
  <2>2. CASE Done(r)
    BY <1>3, <2>1, <2>2 DEF Done, TypeOK, AccountHeld
  <2>3. CASE task[r] # Idle /\ \E step \in {"sum", "insert"} : Goto(r, step)
    <3>1. task[r] \in Requesting
      BY <2>3 DEF TypeOK
    <3>2. task'[r].merchant = task[r].merchant /\ task'[r].account = task[r].account
      BY <2>3, <3>1 DEF Goto, TypeOK, Requesting
    <3> QED BY <1>3, <2>1, <2>3, <3>2 DEF AccountHeld
  <2> QED BY <1>3, <2>2, <2>3
<1>4. ASSUME NEW r \in Requester, RequestPayout(r) PROVE AccountHeld'
  BY <1>1, <1>3, <1>4 DEF RequestPayout, CheckOpen, SumLedger, Insert, RollBack, Idle
<1>5. CASE UNCHANGED <<task, account>>
  BY <1>5 DEF AccountHeld
<1> QED
  BY <1>2, <1>4, <1>5
  DEF Next, UpdatePayoutAccount, AdjustMerchantBalance, processPayout, Credit, Refund, Adjust,
      MarkPaid, Reject, vars

(* A payout names the account the merchant has when the request commits,   *)
(* though it was read when the request began (PaidToCurrentAccount).       *)
THEOREM PayoutsFollowTheAccount == Spec => PaidToCurrentAccount
<1>1. Init => AccountHeld
  BY DEF Init, AccountHeld
<1>2. TypeOK /\ AccountHeld /\ [Next]_vars => AccountHeld'
  BY AccountHeldKept
<1>3. TypeOK /\ AccountHeld /\ [Next]_vars =>
        \A po \in Payout :
            payouts[po] # payouts'[po] /\ payouts'[po].status = "requested"
                => payouts'[po].account = account[payouts'[po].merchant]
  <2> SUFFICES ASSUME TypeOK, AccountHeld, [Next]_vars, NEW po \in Payout,
                      payouts[po] # payouts'[po], payouts'[po].status = "requested"
               PROVE  payouts'[po].account = account[payouts'[po].merchant]
    OBVIOUS
  <2>1. ASSUME NEW r \in Requester, NEW other \in Payout, Insert(r, other)
        PROVE  payouts'[po].account = account[payouts'[po].merchant]
    <3>1. task[r].account = account[task[r].merchant]
      BY <2>1 DEF Insert, AccountHeld, Idle
    <3>2. payouts'[po] = [status |-> "requested", merchant |-> task[r].merchant,
                          amount |-> task[r].amount, account |-> task[r].account]
      BY <2>1 DEF Insert, TypeOK
    <3> QED BY <3>1, <3>2
  <2>2. ASSUME NEW other \in Payout, MarkPaid(other) \/ Reject(other) PROVE FALSE
    <3>1. payouts[other] \in Requested
      BY <2>2 DEF MarkPaid, Reject, TypeOK, Unrequested
    <3>2. po # other => payouts'[po] = payouts[po]
      BY <2>2 DEF MarkPaid, Reject, TypeOK
    <3>3. payouts'[other].status \in {"paid", "rejected"}
      BY <2>2, <3>1 DEF MarkPaid, Reject, TypeOK, Requested
    <3> QED BY <3>2, <3>3
  <2> QED
    BY <2>1, <2>2
    DEF Next, UpdatePayoutAccount, AdjustMerchantBalance, RequestPayout, processPayout, vars,
        Credit, Refund, Adjust, SetPayoutAccount, LockMerchant, CheckOpen, SumLedger, RollBack
<1> QED BY <1>1, <1>2, <1>3, BalanceTypeCorrect, PTL DEF Spec, PaidToCurrentAccount

-----------------------------------------------------------------------------
(* Sums over finite sets.  MapThenSumSet recurses over the subsets of its  *)
(* set, taking out what CHOOSE picks; the lemmas below show that this      *)
(* recursion has a solution, and only one, and that the order of the       *)
(* elements makes no difference to it.                                     *)

\* Induction on the natural numbers, for a set.
LEMMA NaturalsReached ==
    ASSUME NEW S, 0 \in S, \A n \in Nat : n \in S => n + 1 \in S
    PROVE  Nat \subseteq S
<1> DEFINE T == Nat \ S
<1>1. ASSUME T # {} PROVE FALSE
  <2>1. T \subseteq Nat
    OBVIOUS
  <2>2. PICK t \in T : \A u \in T : <<u, t>> \notin OpToRel(<, Nat)
    BY <1>1, <2>1, NatLessThanWellFounded, WFMin, Zenon
  <2>3. t \in Nat /\ t \notin S /\ t # 0
    BY <2>2
  <2>4. t - 1 \in Nat /\ (t - 1) + 1 = t /\ t - 1 < t
    BY <2>3
  <2>5. t - 1 \in T
    BY <2>3, <2>4
  <2>6. <<t - 1, t>> \in OpToRel(<, Nat)
    BY <2>3, <2>4 DEF OpToRel
  <2> QED BY <2>2, <2>5, <2>6
<1> QED BY <1>1

\* The element the recursion takes out next.
Pick(T) == CHOOSE x \in T : TRUE
\* g is a solution of the recursion for the amounts of the payouts p in S.
Sums(g, p, S) ==
    g = [T \in SUBSET S |->
            IF T = {} THEN 0 ELSE p[Pick(T)].amount + g[T \ {Pick(T)}]]
\* The sum itself, and what TotalPaidOutTruthful says with it.
Total(p, S) == MapThenSumSet(LAMBDA po : p[po].amount, S)

LEMMA PickIsElement == ASSUME NEW T, T # {} PROVE Pick(T) \in T
BY DEF Pick

LEMMA TotalIsSum == ASSUME NEW p, NEW S PROVE Total(p, S) = (CHOOSE g : Sums(g, p, S))[S]
BY DEF Total, MapThenSumSet, MapThenFoldSet, Sums, Pick

\* What a solution says of each set.
LEMMA SumsAt ==
    ASSUME NEW g, NEW p, NEW S, Sums(g, p, S), NEW T \in SUBSET S, NEW x, x = Pick(T)
    PROVE  /\ T = {} => g[T] = 0
           /\ T # {} => x \in T /\ g[T] = p[x].amount + g[T \ {x}]
<1> DEFINE f == [U \in SUBSET S |->
                  IF U = {} THEN 0 ELSE p[Pick(U)].amount + g[U \ {Pick(U)}]]
<1>1. g = f
  BY DEF Sums
<1>2. f[T] = IF T = {} THEN 0 ELSE p[x].amount + g[T \ {x}]
  BY Zenon
<1>3. T # {} => x \in T
  BY PickIsElement
<1> HIDE DEF f
<1> QED BY <1>1, <1>2, <1>3

\* Taking an element out of a finite set counts it down.
LEMMA OneLess ==
    ASSUME NEW T, IsFiniteSet(T), NEW x \in T, NEW n \in Nat, Cardinality(T) = n + 1
    PROVE  IsFiniteSet(T \ {x}) /\ Cardinality(T \ {x}) = n
<1>1. IsFiniteSet(T \ {x}) /\ Cardinality(T \ {x}) = Cardinality(T) - 1
  BY FS_RemoveElement
<1> QED BY <1>1

\* There is a solution: one for the sets of up to n elements gives one for
\* those of n + 1.
LEMMA SumsExist ==
    ASSUME NEW p, NEW S, IsFiniteSet(S)
    PROVE  \E g : Sums(g, p, S)
<1> DEFINE Upto(n) == {T \in SUBSET S : Cardinality(T) <= n}
           Next1(g, T) == IF T = {} THEN 0 ELSE p[Pick(T)].amount + g[T \ {Pick(T)}]
           Solves(g, n) == \A T \in Upto(n) : g[T] = Next1(g, T)
           Q == {n \in Nat : \E g : Solves(g, n)}
<1>1. \A T \in SUBSET S : IsFiniteSet(T) /\ Cardinality(T) \in Nat
                          /\ (Cardinality(T) = 0 <=> T = {})
  BY FS_Subset, FS_CardinalityType, FS_EmptySet
<1>2. 0 \in Q
  <2> DEFINE g == [T \in SUBSET S |-> 0]
  <2>1. \A T \in Upto(0) : T = {} /\ T \in SUBSET S
    BY <1>1
  <2>2. Solves(g, 0)
    BY <2>1
  <2> QED BY <2>2
<1>3. ASSUME NEW n \in Nat, n \in Q PROVE n + 1 \in Q
  <2>1. PICK g : Solves(g, n)
    BY <1>3
  <2> DEFINE h == [T \in SUBSET S |-> Next1(g, T)]
  <2>2. \A T \in Upto(n) : h[T] = g[T]
    BY <2>1
  <2>3. ASSUME NEW T \in Upto(n + 1) PROVE h[T] = Next1(h, T)
    <3>1. T \in SUBSET S /\ Cardinality(T) <= n + 1
      OBVIOUS
    <3>2. h[T] = Next1(g, T)
      BY <3>1
    <3>3. ASSUME T # {} PROVE T \ {Pick(T)} \in Upto(n)
      <4>1. Pick(T) \in T
        BY <3>3, PickIsElement
      <4>2. Cardinality(T \ {Pick(T)}) = Cardinality(T) - 1
        BY <1>1, <3>1, <4>1, FS_RemoveElement
      <4>3. Cardinality(T) \in Nat /\ T \ {Pick(T)} \in SUBSET S
        BY <1>1, <3>1
      <4> QED BY <3>1, <4>2, <4>3
    <3>4. ASSUME T # {} PROVE h[T \ {Pick(T)}] = g[T \ {Pick(T)}]
      BY <2>2, <3>3, <3>4
    <3> HIDE DEF h, Upto
    <3> QED BY <3>2, <3>4
  <2>4. Solves(h, n + 1)
    BY <2>3
  <2> HIDE DEF h, Solves
  <2> QED BY <2>4
<1>4. Nat \subseteq Q
  <2> HIDE DEF Q
  <2> QED BY <1>2, <1>3, NaturalsReached
<1>5. PICK g : Solves(g, Cardinality(S))
  <2>1. Cardinality(S) \in Q
    BY <1>1, <1>4
  <2> QED BY <2>1
<1> DEFINE h == [T \in SUBSET S |-> g[T]]
<1>6. \A T \in SUBSET S : T \in Upto(Cardinality(S)) /\ T \ {Pick(T)} \in SUBSET S
  BY FS_Subset
<1>7. \A T \in SUBSET S : g[T] = Next1(h, T)
  BY <1>5, <1>6
<1>8. h = [T \in SUBSET S |-> Next1(h, T)]
  BY <1>7
<1>9. Sums(h, p, S)
  BY <1>8 DEF Sums
<1> QED BY <1>9

\* The solution takes integer values where the amounts are integers, and depends
\* on nothing but the amounts of the elements.
LEMMA SumsAgree ==
    ASSUME NEW p, NEW q, NEW S, NEW R, NEW g, NEW h,
           IsFiniteSet(S), Sums(g, p, S), Sums(h, q, R), S \subseteq R,
           \A x \in S : p[x].amount \in Int /\ p[x].amount = q[x].amount
    PROVE  \A T \in SUBSET S : g[T] \in Int /\ g[T] = h[T]
<1> DEFINE Good(T) == g[T] \in Int /\ g[T] = h[T]
           Q == {n \in Nat : \A T \in SUBSET S : Cardinality(T) = n => Good(T)}
<1>1. \A T \in SUBSET S : IsFiniteSet(T) /\ Cardinality(T) \in Nat
                          /\ (Cardinality(T) = 0 <=> T = {})
  BY FS_Subset, FS_CardinalityType, FS_EmptySet
<1>2. ASSUME NEW T \in SUBSET S, NEW x, x = Pick(T)
      PROVE  /\ T = {} => g[T] = 0 /\ h[T] = 0
             /\ T # {} => /\ x \in T
                          /\ g[T] = p[x].amount + g[T \ {x}]
                          /\ h[T] = q[x].amount + h[T \ {x}]
  <2>1. T \in SUBSET R
    OBVIOUS
  <2>2. /\ T = {} => h[T] = 0
        /\ T # {} => h[T] = q[x].amount + h[T \ {x}]
    BY <1>2, <2>1, SumsAt
  <2>3. /\ T = {} => g[T] = 0
        /\ T # {} => x \in T /\ g[T] = p[x].amount + g[T \ {x}]
    BY <1>2, SumsAt
  <2> QED BY <2>2, <2>3
<1>3. 0 \in Q
  <2>1. ASSUME NEW T \in SUBSET S, Cardinality(T) = 0 PROVE Good(T)
    <3>1. g[T] = 0 /\ h[T] = 0
      BY <1>1, <1>2, <2>1
    <3> QED BY <3>1
  <2> HIDE DEF Good
  <2> QED BY <2>1
<1>4. ASSUME NEW n \in Nat, n \in Q PROVE n + 1 \in Q
  <2>1. ASSUME NEW T \in SUBSET S, Cardinality(T) = n + 1 PROVE Good(T)
    <3>1. PICK x : x = Pick(T)
      OBVIOUS
    <3>2. x \in T /\ x \in S /\ g[T] = p[x].amount + g[T \ {x}] /\ h[T] = q[x].amount + h[T \ {x}]
      BY <1>1, <1>2, <2>1, <3>1
    <3>3. T \ {x} \in SUBSET S /\ Cardinality(T \ {x}) = n
      BY <1>1, <2>1, <3>2, OneLess
    <3>4. Good(T \ {x})
      BY <1>4, <3>3
    <3> QED BY <3>2, <3>4
  <2> HIDE DEF Good
  <2> QED BY <2>1
<1>5. Nat \subseteq Q
  <2> HIDE DEF Q
  <2> QED BY <1>3, <1>4, NaturalsReached
<1>6. ASSUME NEW T \in SUBSET S PROVE Good(T)
  <2>1. Cardinality(T) \in Q
    BY <1>1, <1>5
  <2> HIDE DEF Good
  <2> QED BY <2>1
<1> QED BY <1>6

\* Any element may be taken out first.
LEMMA SumsAnyOrder ==
    ASSUME NEW p, NEW S, NEW g, IsFiniteSet(S), Sums(g, p, S),
           \A x \in S : p[x].amount \in Int
    PROVE  \A T \in SUBSET S : \A y \in T : g[T] = p[y].amount + g[T \ {y}]
<1> DEFINE Good(T) == \A y \in T : g[T] = p[y].amount + g[T \ {y}]
           Q == {n \in Nat : \A T \in SUBSET S : Cardinality(T) = n => Good(T)}
<1>1. \A T \in SUBSET S : IsFiniteSet(T) /\ Cardinality(T) \in Nat
                          /\ (Cardinality(T) = 0 <=> T = {})
  BY FS_Subset, FS_CardinalityType, FS_EmptySet
<1>2. \A T \in SUBSET S : g[T] \in Int
  BY SumsAgree
<1>3. 0 \in Q
  BY <1>1
<1>4. ASSUME NEW n \in Nat, n \in Q PROVE n + 1 \in Q
  <2>1. ASSUME NEW T \in SUBSET S, Cardinality(T) = n + 1, NEW y \in T
        PROVE  g[T] = p[y].amount + g[T \ {y}]
    <3>1. PICK x : x = Pick(T)
      OBVIOUS
    <3> DEFINE U == T \ {x}
               V == T \ {y}
               W == U \ {y}
    <3>2. x \in T /\ x \in S /\ y \in S /\ g[T] = p[x].amount + g[U]
      BY <2>1, <3>1, SumsAt
    <3>3. CASE x = y
      BY <3>2, <3>3
    <3>4. CASE x # y
      <4>1. U \in SUBSET S /\ V \in SUBSET S /\ W \in SUBSET S /\ y \in U /\ x \in V
            /\ W = V \ {x}
        BY <3>2, <3>4
      <4>2. Cardinality(U) = n /\ Cardinality(V) = n
        BY <1>1, <2>1, <3>2, OneLess
      <4>3. Good(U) /\ Good(V)
        BY <1>4, <4>1, <4>2
      <4>4. g[U] = p[y].amount + g[W]
        BY <4>1, <4>3
      <4>5. g[V] = p[x].amount + g[W]
        BY <4>1, <4>3
      <4>6. g[U] \in Int /\ g[V] \in Int /\ g[W] \in Int
            /\ p[x].amount \in Int /\ p[y].amount \in Int
        BY <1>2, <3>2, <4>1
      <4> HIDE DEF U, V, W
      <4>7. g[T] = p[y].amount + g[V]
        BY <3>2, <4>4, <4>5, <4>6
      <4> QED BY <4>7 DEF V
    <3> QED BY <3>3, <3>4
  <2>2. ASSUME NEW T \in SUBSET S, Cardinality(T) = n + 1 PROVE Good(T)
    BY <2>1, <2>2
  <2> HIDE DEF Good
  <2> QED BY <2>2
<1>5. Nat \subseteq Q
  <2> HIDE DEF Q
  <2> QED BY <1>3, <1>4, NaturalsReached
<1>6. ASSUME NEW T \in SUBSET S PROVE Good(T)
  <2>1. Cardinality(T) \in Q
    BY <1>1, <1>5
  <2> HIDE DEF Good
  <2> QED BY <2>1
<1> QED BY <1>6

-----------------------------------------------------------------------------
(* What the invariant needs of the sum.                                    *)

\* The sum is the value of a solution.
LEMMA TotalSolution ==
    ASSUME NEW p, NEW S, IsFiniteSet(S)
    PROVE  \E g : Sums(g, p, S) /\ Total(p, S) = g[S]
<1>1. \E g : Sums(g, p, S)
  BY SumsExist
<1> DEFINE f == CHOOSE g : Sums(g, p, S)
<1>2. Sums(f, p, S)
  BY <1>1
<1>3. Total(p, S) = f[S]
  BY TotalIsSum
<1> HIDE DEF f
<1> QED BY <1>2, <1>3

\* The sum over no payouts.
LEMMA TotalOfNone == ASSUME NEW p PROVE Total(p, {}) = 0
<1>1. IsFiniteSet({})
  BY FS_EmptySet
<1>2. PICK g : Sums(g, p, {}) /\ Total(p, {}) = g[{}]
  BY <1>1, TotalSolution
<1>3. g[{}] = 0
  <2>1. PICK x : x = Pick({})
    OBVIOUS
  <2>2. {} \in SUBSET {}
    OBVIOUS
  <2> QED BY <1>2, <2>1, <2>2, SumsAt
<1> QED BY <1>2, <1>3

\* The sum depends on the amounts alone.
LEMMA TotalAgrees ==
    ASSUME NEW p, NEW q, NEW S, IsFiniteSet(S),
           \A x \in S : p[x].amount \in Int /\ p[x].amount = q[x].amount
    PROVE  Total(p, S) \in Int /\ Total(p, S) = Total(q, S)
<1>1. PICK g : Sums(g, p, S) /\ Total(p, S) = g[S]
  BY TotalSolution
<1>2. PICK h : Sums(h, q, S) /\ Total(q, S) = h[S]
  BY TotalSolution
<1>3. g[S] \in Int /\ g[S] = h[S]
  BY <1>1, <1>2, SumsAgree
<1> QED BY <1>1, <1>2, <1>3

\* A payout that leaves the sum takes its amount with it.
LEMMA TotalWithout ==
    ASSUME NEW p, NEW S, IsFiniteSet(S), \A x \in S : p[x].amount \in Int, NEW y \in S
    PROVE  Total(p, S) = p[y].amount + Total(p, S \ {y})
<1> DEFINE R == S \ {y}
<1>1. IsFiniteSet(R) /\ R \subseteq S
  BY FS_Subset
<1>2. PICK g : Sums(g, p, S) /\ Total(p, S) = g[S]
  BY TotalSolution
<1>3. PICK h : Sums(h, p, R) /\ Total(p, R) = h[R]
  BY <1>1, TotalSolution
<1>4. g[S] = p[y].amount + g[R]
  BY <1>2, SumsAnyOrder
<1>5. h[R] = g[R]
  <2>1. \A x \in R : p[x].amount \in Int /\ p[x].amount = p[x].amount
    BY <1>1
  <2> HIDE DEF R
  <2> QED BY <1>1, <1>2, <1>3, <2>1, SumsAgree
<1> QED BY <1>2, <1>3, <1>4, <1>5

-----------------------------------------------------------------------------
(* Summary.TotalPaidOut.  The payouts that hold a merchant's money are     *)
(* finitely many in every state, whatever the set of identifiers: each was *)
(* inserted by a step.                                                     *)

HeldInv == \A m \in Merchant : IsFiniteSet(Held(m)) /\ paidOut[m] = Total(payouts, Held(m))

LEMMA HeldIsTruthful == HeldInv <=> /\ TotalPaidOutTruthful
                                    /\ \A m \in Merchant : IsFiniteSet(Held(m))
BY DEF HeldInv, TotalPaidOutTruthful, Total

LEMMA HeldAmounts ==
    ASSUME TypeOK, NEW m
    PROVE  \A po \in Held(m) : payouts[po].amount \in Int
<1> SUFFICES ASSUME NEW po \in Held(m) PROVE payouts[po].amount \in Int
  OBVIOUS
<1>1. po \in Payout /\ payouts[po].status \in {"requested", "paid"}
  BY DEF Held
<1>2. payouts[po] \in Requested
  BY <1>1 DEF TypeOK, Unrequested
<1> QED BY <1>2, BalanceAssumption DEF Requested, Amounts

\* Where no payout and no sum changes, nothing is to be shown.
LEMMA HeldFrame ==
    ASSUME HeldInv, UNCHANGED <<paidOut, payouts>>
    PROVE  HeldInv'
<1>1. \A m : Held(m)' = Held(m)
  BY DEF Held
<1> QED BY <1>1 DEF HeldInv

\* The two inserts of Request bring the debit and the payout together.
LEMMA InsertKeepsTotal ==
    ASSUME TypeOK, HeldInv, NEW r \in Requester, NEW po \in Payout, Insert(r, po)
    PROVE  HeldInv'
<1> DEFINE m == task[r].merchant
           a == task[r].amount
<1>1. task[r] \in Requesting
  BY TaskKind DEF Insert
<1>2. m \in Merchant /\ a \in Int
  BY <1>1, BalanceAssumption DEF Requesting, Amounts
<1>3. /\ payouts[po].status = "none"
      /\ payouts' = [payouts EXCEPT ![po] = [status |-> "requested", merchant |-> m,
                                             amount |-> a, account |-> task[r].account]]
      /\ paidOut' = [paidOut EXCEPT ![m] = @ + a]
  BY DEF Insert, Unrequested
<1>4. /\ payouts'[po].status = "requested" /\ payouts'[po].merchant = m
      /\ payouts'[po].amount = a
      /\ \A other \in Payout \ {po} : payouts'[other] = payouts[other]
  BY <1>3 DEF TypeOK
<1> HIDE DEF m, a
<1>5. ASSUME NEW n \in Merchant
      PROVE  IsFiniteSet(Held(n)') /\ paidOut'[n] = Total(payouts', Held(n)')
  <2>1. IsFiniteSet(Held(n)) /\ paidOut[n] = Total(payouts, Held(n)) /\ po \notin Held(n)
    BY <1>3 DEF HeldInv, Held
  <2>2. \A other \in Held(n) : /\ payouts[other].amount \in Int
                               /\ payouts[other].amount = payouts'[other].amount
    BY <1>4, <2>1, HeldAmounts DEF Held
  <2>3. Total(payouts, Held(n)) \in Int /\ Total(payouts, Held(n)) = Total(payouts', Held(n))
    BY <2>1, <2>2, TotalAgrees
  <2>4. CASE n # m
    <3>1. Held(n)' = Held(n)
      BY <1>3, <1>4, <2>4 DEF Held
    <3>2. paidOut'[n] = paidOut[n]
      BY <1>3, <2>4 DEF TypeOK
    <3> QED BY <2>1, <2>3, <3>1, <3>2
  <2>5. CASE n = m
    <3> DEFINE H == Held(n)'
    <3>1. H = Held(n) \union {po}
      BY <1>3, <1>4, <2>5 DEF Held
    <3>2. IsFiniteSet(H) /\ po \in H /\ H \ {po} = Held(n)
      BY <2>1, <3>1, FS_AddElement
    <3>3. \A x \in H : payouts'[x].amount \in Int
      BY <1>2, <1>4, <2>2, <3>1
    <3> HIDE DEF H
    <3>4. Total(payouts', H) = payouts'[po].amount + Total(payouts', H \ {po})
      BY <3>2, <3>3, TotalWithout
    <3>5. paidOut'[n] = paidOut[n] + a
      BY <1>2, <1>3, <2>5 DEF TypeOK
    <3>6. Total(payouts', H) = paidOut[n] + a
      <4>1. Total(payouts', H) = a + paidOut[n]
        BY <1>4, <2>1, <2>3, <3>2, <3>4, Zenon
      <4>2. paidOut[n] \in Int
        BY <2>1, <2>3, Zenon
      <4> QED BY <1>2, <4>1, <4>2
    <3> QED BY <3>2, <3>5, <3>6 DEF H
  <2> QED BY <2>4, <2>5
<1> QED BY <1>5 DEF HeldInv

\* A payment changes no amount and no sum.
LEMMA PaidKeepsTotal ==
    ASSUME TypeOK, HeldInv, NEW po \in Payout, MarkPaid(po)
    PROVE  HeldInv'
<1>1. payouts[po] \in Requested /\ payouts[po].status = "requested"
      /\ payouts' = [payouts EXCEPT ![po].status = "paid"] /\ paidOut' = paidOut
  BY DEF MarkPaid, TypeOK, Unrequested, ledger
<1>2. /\ payouts'[po].status = "paid" /\ payouts'[po].merchant = payouts[po].merchant
      /\ payouts'[po].amount = payouts[po].amount
      /\ \A other \in Payout \ {po} : payouts'[other] = payouts[other]
  BY <1>1 DEF TypeOK, Requested
<1>3. ASSUME NEW n \in Merchant
      PROVE  IsFiniteSet(Held(n)') /\ paidOut'[n] = Total(payouts', Held(n)')
  <2>1. IsFiniteSet(Held(n)) /\ paidOut[n] = Total(payouts, Held(n))
    BY DEF HeldInv
  <2>2. Held(n)' = Held(n)
    BY <1>1, <1>2 DEF Held
  <2>3. \A x \in Held(n) : payouts[x].amount \in Int /\ payouts[x].amount = payouts'[x].amount
    BY <1>2, HeldAmounts DEF Held
  <2>4. Total(payouts, Held(n)) = Total(payouts', Held(n))
    BY <2>1, <2>3, TotalAgrees
  <2> QED BY <1>1, <2>1, <2>2, <2>4
<1> QED BY <1>3 DEF HeldInv

\* A rejection gives back exactly what the request took.
LEMMA RejectKeepsTotal ==
    ASSUME TypeOK, HeldInv, NEW po \in Payout, Reject(po)
    PROVE  HeldInv'
<1> DEFINE m == payouts[po].merchant
           a == payouts[po].amount
<1>1. payouts[po] \in Requested /\ payouts[po].status = "requested"
      /\ payouts' = [payouts EXCEPT ![po].status = "rejected"]
      /\ paidOut' = [paidOut EXCEPT ![m] = @ - a]
  BY DEF Reject, TypeOK, Unrequested
<1>2. m \in Merchant /\ a \in Int
  BY <1>1, BalanceAssumption DEF Requested, Amounts
<1>3. /\ payouts'[po].status = "rejected"
      /\ \A other \in Payout \ {po} : payouts'[other] = payouts[other]
  BY <1>1 DEF TypeOK, Requested
<1>4. ASSUME NEW n \in Merchant
      PROVE  IsFiniteSet(Held(n)') /\ paidOut'[n] = Total(payouts', Held(n)')
  <2>1. IsFiniteSet(Held(n)) /\ paidOut[n] = Total(payouts, Held(n))
    BY DEF HeldInv
  <2> DEFINE H == Held(n) \ {po}
  <2>2. Held(n)' = H
    BY <1>1, <1>3 DEF Held
  <2>3. IsFiniteSet(H)
    BY <2>1, FS_RemoveElement
  <2>4. \A x \in H : payouts[x].amount \in Int /\ payouts[x].amount = payouts'[x].amount
    BY <1>3, HeldAmounts DEF Held
  <2>5. Total(payouts, H) \in Int /\ Total(payouts, H) = Total(payouts', H)
    <3> HIDE DEF H
    <3> QED BY <2>3, <2>4, TotalAgrees
  <2>6. CASE n # m
    <3>1. H = Held(n)
      BY <2>6 DEF Held
    <3>2. paidOut'[n] = paidOut[n]
      BY <1>1, <2>6 DEF TypeOK
    <3> QED BY <2>1, <2>2, <2>3, <2>5, <3>1, <3>2
  <2>7. CASE n = m
    <3>1. po \in Held(n)
      BY <1>1, <2>7 DEF Held
    <3>2. Total(payouts, Held(n)) = a + Total(payouts, H)
      BY <2>1, <3>1, HeldAmounts, TotalWithout
    <3>3. paidOut'[n] = paidOut[n] - a
      BY <1>2, <1>1, <2>7 DEF TypeOK
    <3> HIDE DEF H, a
    <3>4. paidOut[n] - a = Total(payouts, H)
      BY <1>2, <2>1, <2>5, <3>2
    <3> QED BY <2>2, <2>3, <2>5, <3>3, <3>4
  <2> QED BY <2>6, <2>7
<1> QED BY <1>4 DEF HeldInv

LEMMA HeldStart == Init => HeldInv
<1> SUFFICES ASSUME Init, NEW m \in Merchant
             PROVE  IsFiniteSet(Held(m)) /\ paidOut[m] = Total(payouts, Held(m))
  BY DEF HeldInv
<1>1. Held(m) = {} /\ paidOut[m] = 0
  BY DEF Init, Held, Unrequested
<1> QED BY <1>1, TotalOfNone, FS_EmptySet

LEMMA HeldStep == TypeOK /\ HeldInv /\ [Next]_vars => HeldInv'
<1> SUFFICES ASSUME TypeOK, HeldInv, [Next]_vars PROVE HeldInv'
  OBVIOUS
<1>1. CASE UNCHANGED <<paidOut, payouts>>
  BY <1>1, HeldFrame
<1>2. ASSUME NEW r \in Requester, NEW po \in Payout, Insert(r, po) PROVE HeldInv'
  BY <1>2, InsertKeepsTotal
<1>3. ASSUME NEW po \in Payout, processPayout(po) PROVE HeldInv'
  BY <1>3, PaidKeepsTotal, RejectKeepsTotal DEF processPayout
<1> QED
  BY <1>1, <1>2, <1>3
  DEF Next, UpdatePayoutAccount, AdjustMerchantBalance, RequestPayout, vars, ledger,
      Credit, Refund, Adjust, SetPayoutAccount, LockMerchant, CheckOpen, SumLedger, RollBack

(* The debits and reversals of the ledger add up to the payouts requested  *)
(* or paid, for every merchant and through every order of requests,        *)
(* payments and rejections (TotalPaidOutTruthful).                         *)
THEOREM LedgerTellsThePayouts == Spec => []TotalPaidOutTruthful
<1>1. HeldInv => TotalPaidOutTruthful
  BY HeldIsTruthful
<1> QED BY <1>1, HeldStart, HeldStep, BalanceTypeCorrect, PTL DEF Spec
=============================================================================
