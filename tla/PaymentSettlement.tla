------------------------- MODULE PaymentSettlement -------------------------
(***************************************************************************)
(* How a stored payment reaches its final status: the HTTP handlers (the   *)
(* provider's webhook, the status checks a merchant or an admin asks for,  *)
(* the refund), the reconcile job and the expiry job all race on the same  *)
(* row of the payments table.  Each of them reads a snapshot, asks the     *)
(* provider, and only then writes, in one guarded statement; the winner of *)
(* the write queues the merchant's callback in a second transaction.       *)
(*                                                                         *)
(* One action is one database transaction or one provider call.  A check   *)
(* that fails, a write that is rolled back, a commit whose reply never     *)
(* arrives and a crash of the process are actions of their own.            *)
(***************************************************************************)
EXTENDS Fee, FiniteSets

CONSTANTS
    Payment,        \* payment identifiers; > is the ORDER BY id
    Handler,        \* goroutines that serve HTTP requests
    Reconciler,     \* the reconcile-payments job (one process: DEPLOY.md)
    Expirer,        \* the expire-payments job
    Requests,       \* the terms a payment may be created with
    Grace,          \* expireGracePeriod
    PendingWindow,  \* reconcilePendingWindow, by created_at
    ExpiredWindow,  \* reconcileExpiredWindow, by expires_at
    Batch,          \* reconcileBatchSize
    ExpireBatch,    \* batchSize of ExpirePayments
    MaxTime         \* bound on the clock

Terms == [env : {"production", "sandbox"}, amount : Nat \ {0},
          fee : Nat, lifetime : Nat]

ASSUME PaymentAssumption == Payment \subseteq Nat \ {0}
ASSUME RequestsAssumption == Requests \subseteq Terms
ASSUME ClockAssumption ==
    /\ {Grace, PendingWindow, ExpiredWindow, MaxTime} \subseteq Nat
    /\ {Batch, ExpireBatch} \subseteq Nat \ {0}
ASSUME ActorAssumption ==
    /\ Reconciler # Expirer
    /\ {Reconciler, Expirer} \cap Handler = {}
    /\ IsFiniteSet(Handler)

None == 0
Unstored == [env |-> "none", amount |-> 0, fee |-> 0, lifetime |-> 0]
Actor == Handler \union {Reconciler, Expirer}
Statuses == {"absent", "pending", "paid", "expired", "refunded"}
Events == {"paid", "expired", "refunded"}

VARIABLES
    \* the database
    status,      \* payments.status; "absent" until the row exists
    terms,       \* the columns fixed at creation
    created,     \* payments.created_at
    net,         \* payments.merchant_net_amount
    credit,      \* payment_credit in merchant_ledger, summed per payment
    refunded,    \* payment_refunds (and refund_debit), summed per payment
    flagged,     \* payments with an amount_mismatch row in webhook_events
    queued,      \* merchant_callbacks rows per payment and event
    lateQueued,  \* payments whose paid callback says late_payment
    \* the process
    task,        \* what each actor is in the middle of
    todo,        \* the snapshot rows an actor has yet to work through
    cursor,      \* reconcileCursor, by the identifier of its row
    up,          \* whether the process runs
    \* the outside
    prov,        \* what the provider reports of each payment
    now,
    \* history
    won,         \* status changes committed per payment and event
    unsent,      \* callbacks dropped with a line in the log
    lost,        \* callbacks dropped with none
    acked        \* payments whose paid webhook was answered as settled

db == <<status, terms, created, net, credit, refunded>>
callbacks == <<queued, lateQueued, won, unsent, lost>>
vars == <<db, callbacks, flagged, task, todo, cursor, up, prov, now, acked>>

-----------------------------------------------------------------------------
(* Payments.                                                               *)

\* Slips of the transition table that the runs must notice.
PendingMayBePaidOnly(newStatus) ==
    CASE newStatus = "paid"     -> {"pending"}
      [] newStatus = "expired"  -> {"pending"}
      [] newStatus = "refunded" -> {"paid"}
RefundMayBePaidAgain(newStatus) ==
    CASE newStatus = "paid"     -> {"pending", "expired", "refunded"}
      [] newStatus = "expired"  -> {"pending"}
      [] newStatus = "refunded" -> {"paid"}
AllowedSourceStatuses(newStatus) ==
    CASE newStatus = "paid"     -> {"pending", "expired"}
      [] newStatus = "expired"  -> {"pending"}
      [] newStatus = "refunded" -> {"paid"}

expiresAt(p) == created[p] + terms[p].lifetime
pastExpiry(p) == now > expiresAt(p) + Grace

NetOf(t) == merchantNetFor(t.amount, t.fee)
Production(p) == terms[p].env = "production"

\* The provider confirms the settlement and the amount it was asked for.
Confirmed(p) == prov[p] \in {"paid", "corrected"}

\* The first n of a set of payments in a strict total order.
Page(S, n, Before(_, _)) ==
    {p \in S : Cardinality({q \in S : Before(q, p)}) < n}
NewestFirst(p, q) == \/ created[p] > created[q]
                     \/ created[p] = created[q] /\ p > q
OldestDeadlineFirst(p, q) == \/ expiresAt(p) < expiresAt(q)
                             \/ expiresAt(p) = expiresAt(q) /\ p < q

Snapshot(S) == {[pay |-> p, seen |-> status[p]] : p \in S}

-----------------------------------------------------------------------------
(* Tasks.  A webhook's task remembers the amount the webhook carried.      *)

Said == {"nothing", "unstated", "right", "wrong"}

Idle == [step |-> "idle", pay |-> None, said |-> "nothing",
         past |-> FALSE, event |-> "none", late |-> FALSE]
Settling == [step : {"check", "record", "settle", "expire"}, pay : Payment,
             said : Said, past : BOOLEAN, event : {"none"}, late : {FALSE}]
Announcing == [step : {"notify"}, pay : Payment, said : Said,
               past : {FALSE}, event : Events, late : BOOLEAN]

Free(a) == up /\ task[a] = Idle /\ todo[a] = {}

Become(a, t) == task' = [task EXCEPT ![a] = t]
Goto(a, step) == Become(a, [task[a] EXCEPT !.step = step, !.past = FALSE])
Done(a) == Become(a, Idle)
Announce(a, p, said, event, late) ==
    Become(a, [step |-> "notify", pay |-> p, said |-> said,
               past |-> FALSE, event |-> event, late |-> late])

ByWebhook(a) == task[a].said # "nothing"
Acknowledge(a) == acked' = IF ByWebhook(a) THEN acked \union {task[a].pay} ELSE acked

Count(f, p, e) == [f EXCEPT ![p][e] = @ + 1]

-----------------------------------------------------------------------------
Init ==
    /\ status = [p \in Payment |-> "absent"]
    /\ terms = [p \in Payment |-> Unstored]
    /\ created = [p \in Payment |-> 0]
    /\ net = [p \in Payment |-> 0]
    /\ credit = [p \in Payment |-> 0]
    /\ refunded = [p \in Payment |-> 0]
    /\ flagged = {}
    /\ queued = [p \in Payment |-> [e \in Events |-> 0]]
    /\ lateQueued = {}
    /\ task = [a \in Actor |-> Idle]
    /\ todo = [a \in Actor |-> {}]
    /\ cursor = None
    /\ up = TRUE
    /\ prov = [p \in Payment |-> "unpaid"]
    /\ now = 0
    /\ won = [p \in Payment |-> [e \in Events |-> 0]]
    /\ unsent = [p \in Payment |-> [e \in Events |-> 0]]
    /\ lost = [p \in Payment |-> [e \in Events |-> 0]]
    /\ acked = {}

-----------------------------------------------------------------------------
(* The outside: creation, the customer, the provider, the clock.           *)

\* The tail of CreatePayment: both adapters answer "pending" with a reference.
CreatePayment(p, t) ==
    /\ status[p] = "absent"
    /\ status' = [status EXCEPT ![p] = "pending"]
    /\ terms' = [terms EXCEPT ![p] = t]
    /\ created' = [created EXCEPT ![p] = now]
    /\ UNCHANGED <<net, credit, refunded, callbacks, flagged, task, todo,
                   cursor, prov, now, acked, up>>

\* The customer pays; the provider may report it with another amount or none.
CustomerPays(p, report) ==
    /\ Production(p)
    /\ prov[p] = "unpaid"
    /\ prov' = [prov EXCEPT ![p] = report]
    /\ UNCHANGED <<db, callbacks, flagged, task, todo, cursor, now, acked, up>>

\* The provider puts its report of the amount right.
ProviderCorrects(p) ==
    /\ prov[p] = "other"
    /\ prov' = [prov EXCEPT ![p] = "corrected"]
    /\ UNCHANGED <<db, callbacks, flagged, task, todo, cursor, now, acked, up>>

Tick ==
    /\ now < MaxTime
    /\ now' = now + 1
    /\ UNCHANGED <<db, callbacks, flagged, task, todo, cursor, prov, acked, up>>

-----------------------------------------------------------------------------
(* Who starts work on a payment.                                           *)

\* A paid webhook arrives: late, twice, or with nothing behind it.
ReceiveWebhook(h, p, said) ==
    /\ Free(h)
    /\ Production(p)
    /\ status[p] \in {"pending", "expired"}
    /\ Become(h, [Idle EXCEPT !.step = "check", !.pay = p, !.said = said])
    /\ UNCHANGED <<db, callbacks, flagged, todo, cursor, prov, now, acked, up>>

\* The payment is past settling: ErrDuplicateWebhook, ErrPaymentAlreadyTerminal.
DuplicateWebhook(h, p) ==
    /\ Free(h)
    /\ Production(p)
    /\ status[p] \in {"paid", "refunded"}
    /\ acked' = acked \union {p}
    /\ UNCHANGED <<db, callbacks, flagged, task, todo, cursor, prov, now, up>>

\* A merchant or an admin asks for one payment, or an admin for pending ones.
ReconcilePayment(h, p) ==
    /\ Free(h)
    /\ status[p] # "absent"
    /\ todo' = [todo EXCEPT ![h] = Snapshot({p})]
    /\ UNCHANGED <<db, callbacks, flagged, task, cursor, prov, now, acked, up>>

ReconcilePendingPayments(h, limit) ==
    /\ Free(h)
    /\ todo' = [todo EXCEPT ![h] =
          Snapshot(Page({p \in Payment : status[p] = "pending"}, limit, NewestFirst))]
    /\ UNCHANGED <<db, callbacks, flagged, task, cursor, prov, now, acked, up>>

\* The rows ListReconcileCandidates looks at.
candidate(p) ==
    /\ Production(p)
    /\ \/ status[p] = "pending" /\ created[p] + PendingWindow >= now
       \/ status[p] = "expired" /\ expiresAt(p) + ExpiredWindow >= now
    /\ p \notin flagged

ListReconcileCandidates ==
    Page({p \in Payment : candidate(p) /\ (cursor = None \/ NewestFirst(cursor, p))},
         Batch, NewestFirst)

\* Slip: the cursor never moves, so only the newest batch is ever looked at.
ReconcileNewestOnly ==
    /\ Free(Reconciler)
    /\ todo' = [todo EXCEPT ![Reconciler] = Snapshot(ListReconcileCandidates)]
    /\ UNCHANGED <<db, callbacks, flagged, task, cursor, prov, now, acked, up>>

\* One run of the job: the cursor moves before the batch is worked through.
ReconcileRecentPayments ==
    LET page == ListReconcileCandidates
        wrapped == Cardinality(page) < Batch
    IN /\ Free(Reconciler)
       /\ todo' = [todo EXCEPT ![Reconciler] = Snapshot(page)]
       /\ \/ wrapped /\ cursor' = None
          \/ ~wrapped /\ \E p \in page : /\ \A q \in page : ~NewestFirst(p, q)
                                         /\ cursor' = p
       /\ UNCHANGED <<db, callbacks, flagged, task, prov, now, acked, up>>

ExpirePayments ==
    /\ Free(Expirer)
    /\ todo' = [todo EXCEPT ![Expirer] =
          Snapshot(Page({p \in Payment : status[p] = "pending" /\ pastExpiry(p)},
                        ExpireBatch, OldestDeadlineFirst))]
    /\ UNCHANGED <<db, callbacks, flagged, task, cursor, prov, now, acked, up>>

-----------------------------------------------------------------------------
(* The work itself: reconcilePaymentData, ProcessWebhook and expireLocally *)
(* from the provider call on.                                              *)

ComesFirst(a, row) ==
    LET Before(p, q) == IF a = Expirer THEN OldestDeadlineFirst(p, q) ELSE NewestFirst(p, q)
    IN \A other \in todo[a] : ~Before(other.pay, row.pay)

\* The next row of a snapshot.  What it says of the payment may be stale.
NextItem(a) ==
    /\ task[a] = Idle
    /\ \E row \in todo[a] :
          /\ ComesFirst(a, row)
          /\ todo' = [todo EXCEPT ![a] = @ \ {row}]
          /\ Become(a,
                CASE a = Expirer ->
                        [Idle EXCEPT !.step = "expire", !.pay = row.pay]
                  [] a # Expirer /\ row.seen \in {"pending", "expired"} ->
                        [Idle EXCEPT !.step = "check", !.pay = row.pay,
                                     !.past = row.seen = "pending" /\ pastExpiry(row.pay)]
                  [] OTHER -> Idle)
    /\ UNCHANGED <<db, callbacks, flagged, cursor, prov, now, acked, up>>

\* Slip: the webhook is believed without the provider's confirmation.
BelieveWebhook(a) ==
    /\ task[a].step = "check"
    /\ Confirmed(task[a].pay) \/ task[a].said = "right"
    /\ Goto(a, "settle")
    /\ UNCHANGED <<db, callbacks, flagged, todo, cursor, prov, now, acked, up>>

\* verifyProviderPayment on a report that confirms the amount.
CheckConfirmed(a) ==
    /\ task[a].step = "check"
    /\ Confirmed(task[a].pay)
    /\ task[a].said # "wrong"
    /\ Goto(a, "settle")
    /\ UNCHANGED <<db, callbacks, flagged, todo, cursor, prov, now, acked, up>>

\* Slip: both kinds of mismatch are recorded alike.
FlagWebhookMismatch(a) ==
    /\ task[a].step = "check"
    /\ Confirmed(task[a].pay)
    /\ task[a].said = "wrong"
    /\ Goto(a, "record")
    /\ UNCHANGED <<db, callbacks, flagged, todo, cursor, prov, now, acked, up>>

\* ErrWebhookAmountMismatch: the webhook alone is wrong and is dropped.
CheckWebhookMismatch(a) ==
    /\ task[a].step = "check"
    /\ Confirmed(task[a].pay)
    /\ task[a].said = "wrong"
    /\ Done(a)
    /\ UNCHANGED <<db, callbacks, flagged, todo, cursor, prov, now, acked, up>>

\* ErrAmountMismatch: the provider settled something else.
CheckMismatch(a) ==
    /\ task[a].step = "check"
    /\ prov[task[a].pay] = "other"
    /\ Goto(a, "record")
    /\ UNCHANGED <<db, callbacks, flagged, todo, cursor, prov, now, acked, up>>

\* Not settled, or no answer within providerVerifyTimeout whatever the truth.
CheckNotConfirmed(a) ==
    /\ task[a].step = "check"
    /\ IF task[a].past THEN Goto(a, "expire") ELSE Done(a)
    /\ UNCHANGED <<db, callbacks, flagged, todo, cursor, prov, now, acked, up>>

\* recordReconcileMismatch, or the webhook's own row finalized with the cause.
RecordMismatch(a) ==
    /\ task[a].step = "record"
    /\ flagged' = flagged \union {task[a].pay}
    /\ Done(a)
    /\ UNCHANGED <<db, callbacks, todo, cursor, prov, now, acked, up>>

-----------------------------------------------------------------------------
(* The guarded writes.                                                     *)

\* Slip: late is judged by the deadline instead of the status before.
MarkPaidLateByClock(a) ==
    LET p == task[a].pay
    IN /\ task[a].step = "settle"
       /\ status[p] \in AllowedSourceStatuses("paid")
       /\ status' = [status EXCEPT ![p] = "paid"]
       /\ net' = [net EXCEPT ![p] = NetOf(terms[p])]
       /\ credit' = IF Production(p) /\ NetOf(terms[p]) > 0
                    THEN [credit EXCEPT ![p] = @ + NetOf(terms[p])]
                    ELSE credit
       /\ won' = Count(won, p, "paid")
       /\ Announce(a, p, task[a].said, "paid", pastExpiry(p))
       /\ UNCHANGED <<terms, created, refunded, queued, lateQueued, unsent, lost,
                      flagged, todo, cursor, prov, now, acked, up>>

\* MarkPaid won: status, net and ledger credit in one transaction.
MarkPaid(a) ==
    LET p == task[a].pay
    IN /\ task[a].step = "settle"
       /\ status[p] \in AllowedSourceStatuses("paid")
       /\ status' = [status EXCEPT ![p] = "paid"]
       /\ net' = [net EXCEPT ![p] = NetOf(terms[p])]
       /\ credit' = IF Production(p) /\ NetOf(terms[p]) > 0
                    THEN [credit EXCEPT ![p] = @ + NetOf(terms[p])]
                    ELSE credit
       /\ won' = Count(won, p, "paid")
       /\ Announce(a, p, task[a].said, "paid", status[p] = "expired")
       /\ UNCHANGED <<terms, created, refunded, queued, lateQueued, unsent, lost,
                      flagged, todo, cursor, prov, now, acked, up>>

\* UpdateStatus(expired) won.
UpdateStatus(a) ==
    LET p == task[a].pay
    IN /\ task[a].step = "expire"
       /\ status[p] \in AllowedSourceStatuses("expired")
       /\ status' = [status EXCEPT ![p] = "expired"]
       /\ won' = Count(won, p, "expired")
       /\ Announce(a, p, "nothing", "expired", FALSE)
       /\ UNCHANGED <<terms, created, net, credit, refunded, queued, lateQueued,
                      unsent, lost, flagged, todo, cursor, prov, now, acked, up>>

\* The guard matched no row: somebody else won.  ErrPaymentAlreadyTerminal
\* tells the webhook's sender that the payment is settled.
LostRace(a) ==
    /\ \/ /\ task[a].step = "settle"
          /\ status[task[a].pay] \notin AllowedSourceStatuses("paid")
       \/ /\ task[a].step = "expire"
          /\ status[task[a].pay] \notin AllowedSourceStatuses("expired")
    /\ Acknowledge(a)
    /\ Done(a)
    /\ UNCHANGED <<db, callbacks, flagged, todo, cursor, prov, now, up>>

\* The transaction (or the insert of a mismatch row) failed and was undone.
WriteFails(a) ==
    /\ task[a].step \in {"record", "settle", "expire"}
    /\ Done(a)
    /\ UNCHANGED <<db, callbacks, flagged, todo, cursor, prov, now, acked, up>>

\* Slip: the limit forgets what was refunded before.
RefundIgnoringEarlier(h, p, amount) ==
    LET full == amount = net[p]
    IN /\ Free(h)
       /\ status[p] = "paid"
       /\ Production(p)
       /\ net[p] > 0
       /\ amount <= net[p]
       /\ refunded' = [refunded EXCEPT ![p] = @ + amount]
       /\ IF full
          THEN /\ status' = [status EXCEPT ![p] = "refunded"]
               /\ won' = Count(won, p, "refunded")
               /\ Announce(h, p, "nothing", "refunded", FALSE)
          ELSE UNCHANGED <<status, won, task, up>>
       /\ UNCHANGED <<terms, created, net, credit, queued, lateQueued, unsent, lost,
                      flagged, todo, cursor, prov, now, acked, up>>

\* RefundWithRemaining: everything happens under the lock on the payment row.
RefundWithRemaining(h, p, amount) ==
    LET full == amount = net[p] - refunded[p]
    IN /\ Free(h)
       /\ status[p] = "paid"
       /\ Production(p)
       /\ net[p] > 0
       /\ amount <= net[p] - refunded[p]
       /\ refunded' = [refunded EXCEPT ![p] = @ + amount]
       /\ IF full
          THEN /\ status' = [status EXCEPT ![p] = "refunded"]
               /\ won' = Count(won, p, "refunded")
               /\ Announce(h, p, "nothing", "refunded", FALSE)
          ELSE UNCHANGED <<status, won, task, up>>
       /\ UNCHANGED <<terms, created, net, credit, queued, lateQueued, unsent, lost,
                      flagged, todo, cursor, prov, now, acked, up>>

-----------------------------------------------------------------------------
(* NotifyMerchantPaymentEvent, after the commit.                           *)

Notify(a) ==
    LET t == task[a]
    IN /\ t.step = "notify"
       /\ queued' = Count(queued, t.pay, t.event)
       /\ lateQueued' = IF t.late THEN lateQueued \union {t.pay} ELSE lateQueued
       /\ Acknowledge(a)
       /\ Done(a)
       /\ UNCHANGED <<db, won, unsent, lost, flagged, todo, cursor, prov, now, up>>

\* No address, the merchant's row unreadable, or the insert failed: all logged.
NotifySkipped(a) ==
    LET t == task[a]
    IN /\ t.step = "notify"
       /\ unsent' = Count(unsent, t.pay, t.event)
       /\ Acknowledge(a)
       /\ Done(a)
       /\ UNCHANGED <<db, queued, lateQueued, won, lost, flagged, todo, cursor, prov, now, up>>

\* The commit took place but its reply was lost: the caller sees an error.
CommitReplyLost(a) ==
    LET t == task[a]
    IN /\ t.step = "notify"
       /\ lost' = Count(lost, t.pay, t.event)
       /\ Done(a)
       /\ UNCHANGED <<db, queued, lateQueued, won, unsent, flagged, todo, cursor,
                      prov, now, acked, up>>

\* The process dies: memory is gone, and with it the callbacks about to be queued.
Notifying(p, e) == {a \in Actor : /\ task[a].step = "notify"
                                  /\ task[a].pay = p
                                  /\ task[a].event = e}
Crash ==
    /\ up
    /\ up' = FALSE
    /\ lost' = [p \in Payment |-> [e \in Events |->
                   lost[p][e] + Cardinality(Notifying(p, e))]]
    /\ task' = [a \in Actor |-> Idle]
    /\ todo' = [a \in Actor |-> {}]
    /\ cursor' = None
    /\ UNCHANGED <<db, queued, lateQueued, won, unsent, flagged, prov, now, acked>>

Restart ==
    /\ ~up
    /\ up' = TRUE
    /\ UNCHANGED <<db, callbacks, flagged, task, todo, cursor, prov, now, acked>>

-----------------------------------------------------------------------------
Work(a) ==
    \/ NextItem(a)
    \/ CheckConfirmed(a) \/ CheckWebhookMismatch(a)
    \/ CheckMismatch(a) \/ CheckNotConfirmed(a)
    \/ RecordMismatch(a) \/ MarkPaid(a) \/ UpdateStatus(a)
    \/ LostRace(a) \/ WriteFails(a)
    \/ Notify(a) \/ NotifySkipped(a) \/ CommitReplyLost(a)

HandleProviderWebhook(h, p) ==
    (\E said \in Said \ {"nothing"} : ReceiveWebhook(h, p, said)) \/ DuplicateWebhook(h, p)
CheckReconciliationPayment(h, p) == ReconcilePayment(h, p)
CheckReconciliationBatch(h) == \E limit \in 1 .. Batch : ReconcilePendingPayments(h, limit)
RefundPayment(h, p) == \E amount \in 1 .. net[p] : RefundWithRemaining(h, p, amount)

Request(h) ==
    \/ \E p \in Payment : HandleProviderWebhook(h, p) \/ CheckReconciliationPayment(h, p)
                            \/ RefundPayment(h, p)
    \/ CheckReconciliationBatch(h)

Outside ==
    \/ \E p \in Payment :
          \/ \E t \in Requests : CreatePayment(p, t)
          \/ \E report \in {"paid", "other"} : CustomerPays(p, report)
          \/ ProviderCorrects(p)
    \/ Tick

Next ==
    \/ \E a \in Actor : Work(a)
    \/ \E h \in Handler : Request(h)
    \/ ReconcileRecentPayments
    \/ ExpirePayments
    \/ Outside
    \/ Crash
    \/ Restart

Spec == Init /\ [][Next]_vars

-----------------------------------------------------------------------------
(* What must hold.                                                         *)

\* The variables take the values their comments say.
TypeOK ==
    /\ status \in [Payment -> Statuses]
    /\ terms \in [Payment -> Terms \union {Unstored}]
    /\ created \in [Payment -> Nat]
    /\ net \in [Payment -> Nat]
    /\ credit \in [Payment -> Nat]
    /\ refunded \in [Payment -> Nat]
    /\ flagged \subseteq Payment
    /\ queued \in [Payment -> [Events -> Nat]]
    /\ lateQueued \subseteq Payment
    /\ task \in [Actor -> {Idle} \union Settling \union Announcing]
    /\ todo \in [Actor -> SUBSET [pay : Payment, seen : Statuses]]
    /\ cursor \in Payment \union {None}
    /\ prov \in [Payment -> {"unpaid", "paid", "other", "corrected"}]
    /\ now \in Nat
    /\ won \in [Payment -> [Events -> Nat]]
    /\ unsent \in [Payment -> [Events -> Nat]]
    /\ lost \in [Payment -> [Events -> Nat]]
    /\ acked \subseteq Payment
    /\ up \in BOOLEAN

\* The credit a settled payment must have brought its merchant.
Share(p) == IF Production(p) THEN NetOf(terms[p]) ELSE 0

\* MarkPaid and RefundWithRemaining keep status and ledger in step whoever
\* races: a settled payment has its credit exactly once and no other has one,
\* refunds never exceed it, and the payment is refunded exactly when they have
\* consumed it.
LedgerBacksPayment ==
    \A p \in Payment :
        /\ credit[p] = IF status[p] \in {"paid", "refunded"} THEN Share(p) ELSE 0
        /\ refunded[p] <= credit[p]
        /\ status[p] = "refunded" <=> credit[p] > 0 /\ refunded[p] = credit[p]

\* NotifyMerchantPaymentEvent runs only for the winner of a guarded write, and
\* each write is won once: every committed change has met exactly one of the
\* fates of a callback, or its winner is still about to queue it.
CallbackAccounted ==
    \A p \in Payment, e \in Events :
        /\ won[p][e] <= 1
        /\ won[p][e] = queued[p][e] + unsent[p][e] + lost[p][e]
                       + Cardinality(Notifying(p, e))

\* late_payment in the callback tells the merchant whether an expiry of the
\* same payment was committed before, whatever snapshot the settling actor
\* worked from.
LateFlagTruthful ==
    \A p \in Payment :
        queued[p]["paid"] > 0 => (p \in lateQueued <=> won[p]["expired"] = 1)

\* A provider is told that its paid webhook needs no retry as "processed" or
\* "duplicate" only when the payment really is settled: ErrPaymentAlreadyTerminal
\* counts an expired payment as terminal too, and such a webhook must not be
\* swallowed.
AckImpliesSettled ==
    \A p \in acked : status[p] \in {"paid", "refunded"}

\* Only a provider that reported another amount takes a payment out of the
\* automatic reconcile; a wrong webhook alone never does.
FlaggedOnlyByProvider ==
    \A p \in flagged : prov[p] \in {"other", "corrected"}

\* A snapshot however stale never moves a payment backwards: the provider's
\* money is behind every paid status, and status, settlement and claim change
\* as PaymentLifecycle says.
Lifecycle == INSTANCE PaymentLifecycle WITH
    settled <- {p \in Payment : Confirmed(p)},
    share   <- [p \in Payment |-> Share(p)],
    claim   <- [p \in Payment |-> credit[p] - refunded[p]]
ImplementsLifecycle == Lifecycle!Spec

\* The documents' claim (docs/payment-state-machine.md, README.md): a callback
\* disappears only where queueing it failed, and that is logged.
LossIsLogged ==
    \A p \in Payment, e \in Events :
        won[p][e] = queued[p][e] + unsent[p][e] + Cardinality(Notifying(p, e))

-----------------------------------------------------------------------------
(* Progress.  The scheduler runs the reconcile job for as long as the      *)
(* process lives; a provider and a database that are asked again and again *)
(* answer in the end, and the process stops crashing.                      *)

FairSpec ==
    /\ Spec
    /\ WF_vars(ReconcileRecentPayments)
    /\ WF_vars(Work(Reconciler))
    /\ SF_vars(CheckConfirmed(Reconciler))
    /\ SF_vars(MarkPaid(Reconciler))
    /\ <>[]up

\* The safety net under lost webhooks: while a settled payment stays in the
\* windows of ListReconcileCandidates and no human has to look at it, the job
\* reaches it in the end, however many payments rotate past and whatever one
\* of them does.
SettledIsRecovered ==
    \A p \in Payment :
        Confirmed(p) /\ candidate(p)
            ~> status[p] \in {"paid", "refunded"} \/ ~candidate(p)
=============================================================================
