---------------------- MODULE PaymentSettlementProofs ----------------------
(***************************************************************************)
(* Proofs about PaymentSettlement for every set of payments and handlers,  *)
(* every batch size, window and clock bound.                               *)
(***************************************************************************)
EXTENDS PaymentSettlement, FeeProofs, FiniteSetTheorems

USE PaymentAssumption, RequestsAssumption, ClockAssumption, ActorAssumption

-----------------------------------------------------------------------------
(* Type correctness.                                                       *)

(* The net of a payment's terms is a natural number.                       *)
LEMMA NetOfType == \A t \in Terms \union {Unstored} : NetOf(t) \in Nat
<1>1. TAKE t \in Terms \union {Unstored}
<1>2. CASE t \in Terms
  BY <1>2, NetIsNatural DEF NetOf, Terms
<1>3. CASE t = Unstored
  BY <1>3 DEF NetOf, Unstored, merchantNetFor, MerchantNetBasisPoints, FeeOn, CeilDiv,
              ProviderBasisPoints, bpsDenominator
<1>4. QED
  BY <1>2, <1>3

(* A task changes to another of its kinds.                                 *)
Task == {Idle} \union Settling \union Announcing

LEMMA BecomeType ==
    ASSUME TypeOK, NEW a \in Actor, NEW t \in Task, Become(a, t)
    PROVE  task' \in [Actor -> Task]
BY DEF Become, TypeOK, Task

(* A winner of a guarded write becomes an announcer.                       *)
LEMMA AnnounceType ==
    ASSUME TypeOK, NEW a \in Actor, NEW p \in Payment,
           NEW said \in Said, NEW event \in Events, NEW late \in BOOLEAN,
           Announce(a, p, said, event, late)
    PROVE  task' \in [Actor -> Task]
<1>1. [step |-> "notify", pay |-> p, said |-> said, past |-> FALSE,
       event |-> event, late |-> late] \in Task
  BY DEF Task, Announcing
<1>2. QED
  BY <1>1, BecomeType DEF Announce

(* A check leads to a write on the same payment.                           *)
LEMMA GotoType ==
    ASSUME TypeOK, NEW a \in Actor, task[a] \in Settling,
           NEW step \in {"record", "settle", "expire"}, Goto(a, step)
    PROVE  task' \in [Actor -> Task]
<1>1. [task[a] EXCEPT !.step = step, !.past = FALSE] \in Task
  BY DEF Task, Settling
<1>2. QED
  BY <1>1, BecomeType DEF Goto

(* Work that ends leaves its actor idle.                                   *)
LEMMA DoneType ==
    ASSUME TypeOK, NEW a \in Actor, Done(a)
    PROVE  task' \in [Actor -> Task]
<1>1. Idle \in Task
  BY DEF Task
<1>2. QED
  BY <1>1, BecomeType DEF Done

(* An actor's step tells which kind of task it has.                        *)
LEMMA StepKind ==
    ASSUME TypeOK, NEW a \in Actor
    PROVE  /\ task[a].step \in {"check", "record", "settle", "expire"}
                  <=> task[a] \in Settling
           /\ task[a].step = "notify" <=> task[a] \in Announcing
           /\ task[a].step = "idle" <=> task[a] = Idle
<1>1. task[a] \in Task
  BY DEF TypeOK, Task
<1>2. CASE task[a] = Idle
  BY <1>2 DEF Idle, Settling, Announcing
<1> DEFINE step == task[a].step
<1>a. task[a] \in Settling => step \in {"check", "record", "settle", "expire"}
  BY DEF Settling
<1>b. task[a] \in Announcing => step = "notify"
  BY DEF Announcing
<1>c. task[a] = Idle => step = "idle"
  BY DEF Idle
<1> HIDE DEF step
<1>3. CASE task[a] \in Settling
  BY <1>3, <1>a, <1>b, <1>c DEF step
<1>4. CASE task[a] \in Announcing
  BY <1>4, <1>a, <1>b, <1>c DEF step
<1>5. QED
  BY <1>1, <1>2, <1>3, <1>4 DEF Task

(* Counting keeps a table of counters one.                                 *)
LEMMA CountType ==
    ASSUME NEW f \in [Payment -> [Events -> Nat]], NEW p \in Payment, NEW e \in Events
    PROVE  Count(f, p, e) \in [Payment -> [Events -> Nat]]
BY DEF Count

(* A snapshot is a set of rows.                                            *)
LEMMA SnapshotType ==
    ASSUME TypeOK, NEW S \in SUBSET Payment
    PROVE  Snapshot(S) \in SUBSET [pay : Payment, seen : Statuses]
BY DEF Snapshot, TypeOK

(* The next row of a snapshot becomes a task.                              *)
LEMMA NextItemType ==
    ASSUME TypeOK, NEW a \in Actor, NextItem(a)
    PROVE  /\ task' \in [Actor -> Task]
           /\ todo' \in [Actor -> SUBSET [pay : Payment, seen : Statuses]]
<1>1. PICK row \in todo[a] :
          /\ todo' = [todo EXCEPT ![a] = @ \ {row}]
          /\ Become(a,
                CASE a = Expirer ->
                        [Idle EXCEPT !.step = "expire", !.pay = row.pay]
                  [] a # Expirer /\ row.seen \in {"pending", "expired"} ->
                        [Idle EXCEPT !.step = "check", !.pay = row.pay,
                                     !.past = row.seen = "pending" /\ pastExpiry(row.pay)]
                  [] OTHER -> Idle)
  BY DEF NextItem
<1>2. row.pay \in Payment
  BY DEF TypeOK
<1>3. [Idle EXCEPT !.step = "expire", !.pay = row.pay] \in Task
  BY <1>2 DEF Task, Settling, Idle, Said
<1>4. (row.seen = "pending" /\ pastExpiry(row.pay)) \in BOOLEAN
  OBVIOUS
<1>5. [Idle EXCEPT !.step = "check", !.pay = row.pay,
                   !.past = row.seen = "pending" /\ pastExpiry(row.pay)] \in Task
  BY <1>2, <1>4 DEF Task, Settling, Idle, Said
<1>6. Idle \in Task
  BY DEF Task
<1>7. task' \in [Actor -> Task]
  <2>1. CASE a = Expirer
    BY <1>1, <1>3, <2>1, BecomeType
  <2>2. CASE a # Expirer /\ row.seen \in {"pending", "expired"}
    BY <1>1, <1>5, <2>2, BecomeType
  <2>3. CASE a # Expirer /\ row.seen \notin {"pending", "expired"}
    BY <1>1, <1>6, <2>3, BecomeType
  <2>4. QED
    BY <2>1, <2>2, <2>3
<1>8. QED
  BY <1>1, <1>7 DEF TypeOK

(* Every page of candidates is a set of payments.                          *)
LEMMA PagesType ==
    /\ ListReconcileCandidates \subseteq Payment
    /\ \A limit : Page({p \in Payment : status[p] = "pending"}, limit, NewestFirst)
                      \subseteq Payment
    /\ Page({p \in Payment : status[p] = "pending" /\ pastExpiry(p)},
            ExpireBatch, OldestDeadlineFirst) \subseteq Payment
BY DEF Page, ListReconcileCandidates

(* The cursor is the last row of a full page, or unset.                    *)
LEMMA CursorType ==
    ASSUME TypeOK, ReconcileRecentPayments
    PROVE  cursor' \in Payment \union {None}
BY PagesType DEF ReconcileRecentPayments

(* Any step of an actor's work.                                            *)
LEMMA WorkPreservesType ==
    ASSUME TypeOK, NEW a \in Actor, Work(a)
    PROVE  TypeOK'
<1> DEFINE p == task[a].pay
<1>0. /\ task[a] \in Settling \/ task[a] \in Announcing => p \in Payment /\ task[a].said \in Said
      /\ task[a] \in Announcing => task[a].event \in Events
  BY DEF Settling, Announcing
<1>1. CASE NextItem(a)
  BY <1>1, NextItemType DEF NextItem, TypeOK, Task, db, callbacks
<1>2. CASE CheckConfirmed(a)
  <2>1. task' \in [Actor -> Task]
    BY <1>2, GotoType, StepKind DEF CheckConfirmed
  <2>2. QED
    BY <1>2, <2>1 DEF CheckConfirmed, TypeOK, Task, db, callbacks
<1>3. CASE CheckWebhookMismatch(a)
  <2>1. task' \in [Actor -> Task]
    BY <1>3, DoneType DEF CheckWebhookMismatch
  <2>2. QED
    BY <1>3, <2>1 DEF CheckWebhookMismatch, TypeOK, Task, db, callbacks
<1>4. CASE CheckMismatch(a)
  <2>1. task' \in [Actor -> Task]
    BY <1>4, GotoType, StepKind DEF CheckMismatch
  <2>2. QED
    BY <1>4, <2>1 DEF CheckMismatch, TypeOK, Task, db, callbacks
<1>5. CASE CheckNotConfirmed(a)
  <2>1. task' \in [Actor -> Task]
    BY <1>5, GotoType, DoneType, StepKind DEF CheckNotConfirmed
  <2>2. QED
    BY <1>5, <2>1 DEF CheckNotConfirmed, TypeOK, Task, db, callbacks
<1>6. CASE RecordMismatch(a)
  <2>1. task' \in [Actor -> Task]
    BY <1>6, DoneType DEF RecordMismatch
  <2>2. p \in Payment
    BY <1>0, <1>6, StepKind DEF RecordMismatch
  <2>3. QED
    BY <1>6, <2>1, <2>2 DEF RecordMismatch, TypeOK, Task, db, callbacks
<1>7. CASE MarkPaid(a)
  <2>1. p \in Payment /\ task[a].said \in Said
    BY <1>0, <1>7, StepKind DEF MarkPaid
  <2>2. task' \in [Actor -> Task]
    BY <1>7, <2>1, AnnounceType DEF MarkPaid, Events
  <2>3. status[p] # "absent"
    BY <1>7 DEF MarkPaid, AllowedSourceStatuses
  <2>4. NetOf(terms[p]) \in Nat
    BY <2>1, NetOfType DEF TypeOK
  <2>5. won' \in [Payment -> [Events -> Nat]]
    BY <1>7, <2>1, CountType DEF MarkPaid, TypeOK, Events
  <2>6. status' \in [Payment -> Statuses]
    BY <1>7, <2>1 DEF MarkPaid, TypeOK, Statuses
  <2>7. net' \in [Payment -> Nat]
    BY <1>7, <2>1, <2>4 DEF MarkPaid, TypeOK
  <2>8. credit' \in [Payment -> Nat]
    <3>1. credit[p] + NetOf(terms[p]) \in Nat
      <4>1. credit[p] \in Nat
        BY <2>1 DEF TypeOK
      <4>2. QED
        BY <4>1, <2>4
    <3>2. CASE Production(p) /\ NetOf(terms[p]) > 0
      BY <1>7, <3>1, <3>2 DEF MarkPaid, TypeOK
    <3>3. CASE ~(Production(p) /\ NetOf(terms[p]) > 0)
      BY <1>7, <3>3 DEF MarkPaid, TypeOK
    <3>4. QED
      BY <3>2, <3>3
  <2>9. QED
    BY <1>7, <2>2, <2>5, <2>6, <2>7, <2>8 DEF MarkPaid, TypeOK, Task
<1>8. CASE UpdateStatus(a)
  <2>1. p \in Payment
    BY <1>0, <1>8, StepKind DEF UpdateStatus
  <2>2. task' \in [Actor -> Task]
    BY <1>8, <2>1, AnnounceType DEF UpdateStatus, Events, Said
  <2>3. won' \in [Payment -> [Events -> Nat]]
    BY <1>8, <2>1, CountType DEF UpdateStatus, TypeOK, Events
  <2>4. QED
    BY <1>8, <2>1, <2>2, <2>3 DEF UpdateStatus, TypeOK, Task, Statuses
<1>9. CASE LostRace(a)
  <2>1. task' \in [Actor -> Task]
    BY <1>9, DoneType DEF LostRace
  <2>2. p \in Payment
    BY <1>0, <1>9, StepKind DEF LostRace
  <2>3. acked' \subseteq Payment
    BY <1>9, <2>2 DEF LostRace, Acknowledge, TypeOK
  <2>4. QED
    BY <1>9, <2>1, <2>3 DEF LostRace, TypeOK, Task, db, callbacks
<1>10. CASE WriteFails(a)
  <2>1. task' \in [Actor -> Task]
    BY <1>10, DoneType DEF WriteFails
  <2>2. QED
    BY <1>10, <2>1 DEF WriteFails, TypeOK, Task, db, callbacks
<1>11. CASE Notify(a)
  <2>1. task' \in [Actor -> Task]
    BY <1>11, DoneType DEF Notify
  <2>2. p \in Payment /\ task[a].event \in Events
    BY <1>0, <1>11, StepKind DEF Notify
  <2>3. queued' \in [Payment -> [Events -> Nat]]
    BY <1>11, <2>2, CountType DEF Notify, TypeOK
  <2>4. acked' \subseteq Payment /\ lateQueued' \subseteq Payment
    BY <1>11, <2>2 DEF Notify, Acknowledge, TypeOK
  <2>5. QED
    BY <1>11, <2>1, <2>3, <2>4 DEF Notify, TypeOK, Task, db
<1>12. CASE NotifySkipped(a)
  <2>1. task' \in [Actor -> Task]
    BY <1>12, DoneType DEF NotifySkipped
  <2>2. p \in Payment /\ task[a].event \in Events
    BY <1>0, <1>12, StepKind DEF NotifySkipped
  <2>3. unsent' \in [Payment -> [Events -> Nat]]
    BY <1>12, <2>2, CountType DEF NotifySkipped, TypeOK
  <2>4. acked' \subseteq Payment
    BY <1>12, <2>2 DEF NotifySkipped, Acknowledge, TypeOK
  <2>5. QED
    BY <1>12, <2>1, <2>3, <2>4 DEF NotifySkipped, TypeOK, Task, db
<1>13. CASE CommitReplyLost(a)
  <2>1. task' \in [Actor -> Task]
    BY <1>13, DoneType DEF CommitReplyLost
  <2>2. p \in Payment /\ task[a].event \in Events
    BY <1>0, <1>13, StepKind DEF CommitReplyLost
  <2>3. lost' \in [Payment -> [Events -> Nat]]
    BY <1>13, <2>2, CountType DEF CommitReplyLost, TypeOK
  <2>4. QED
    BY <1>13, <2>1, <2>3 DEF CommitReplyLost, TypeOK, Task, db
<1>14. QED
  BY <1>1, <1>2, <1>3, <1>4, <1>5, <1>6, <1>7, <1>8, <1>9, <1>10, <1>11, <1>12,
     <1>13 DEF Work

(* There are finitely many actors.                                         *)
LEMMA ActorsFinite == IsFiniteSet(Actor)
<1>1. IsFiniteSet({Reconciler, Expirer})
  <2>1. IsFiniteSet({Reconciler}) /\ IsFiniteSet({Expirer})
    BY FS_Singleton
  <2>2. {Reconciler, Expirer} = {Reconciler} \union {Expirer}
    OBVIOUS
  <2>3. IsFiniteSet({Reconciler} \union {Expirer})
    BY <2>1, FS_Union
  <2>4. QED
    BY <2>2, <2>3, Zenon
<1>2. QED
  BY <1>1, ActorAssumption, FS_Union DEF Actor

(* So only finitely many are about to announce.                            *)
LEMMA NotifyingFinite ==
    \A p, e : /\ IsFiniteSet(Notifying(p, e))
              /\ Cardinality(Notifying(p, e)) \in Nat
<1>1. TAKE p, e
<1>2. Notifying(p, e) \subseteq Actor
  BY DEF Notifying
<1>3. QED
  BY <1>2, ActorsFinite, FS_Subset, FS_CardinalityType

(* Any request a handler takes on.                                         *)
LEMMA RequestPreservesType ==
    ASSUME TypeOK, NEW h \in Handler, Request(h)
    PROVE  TypeOK'
<1>0. h \in Actor
  BY DEF Actor
<1>1. ASSUME NEW p \in Payment, NEW said \in Said \ {"nothing"}, ReceiveWebhook(h, p, said)
      PROVE  TypeOK'
  <2>1. [Idle EXCEPT !.step = "check", !.pay = p, !.said = said] \in Task
    BY DEF Idle, Task, Settling
  <2>2. task' \in [Actor -> Task]
    BY <1>0, <1>1, <2>1, BecomeType DEF ReceiveWebhook
  <2>3. QED
    BY <1>1, <2>2 DEF ReceiveWebhook, TypeOK, Task, db, callbacks
<1>2. ASSUME NEW p \in Payment, DuplicateWebhook(h, p)
      PROVE  TypeOK'
  BY <1>2 DEF DuplicateWebhook, TypeOK, db, callbacks
<1>3. ASSUME NEW p \in Payment, ReconcilePayment(h, p)
      PROVE  TypeOK'
  BY <1>0, <1>3, SnapshotType DEF ReconcilePayment, TypeOK, db, callbacks
<1>4. ASSUME NEW p \in Payment, NEW amount \in 1 .. net[p], RefundWithRemaining(h, p, amount)
      PROVE  TypeOK'
  <2>1. refunded' \in [Payment -> Nat]
    BY <1>4 DEF RefundWithRemaining, TypeOK
  <2>2. status' \in [Payment -> Statuses]
    BY <1>4, ZenonT(40) DEF RefundWithRemaining, TypeOK, Statuses
  <2>3. won' \in [Payment -> [Events -> Nat]]
    <3>1. Count(won, p, "refunded") \in [Payment -> [Events -> Nat]]
      BY CountType DEF TypeOK, Events
    <3>2. won' = Count(won, p, "refunded") \/ won' = won
      BY <1>4 DEF RefundWithRemaining
    <3>3. QED
      BY <3>1, <3>2 DEF TypeOK
  <2>4. task' \in [Actor -> Task]
    <3>1. CASE amount = net[p] - refunded[p]
      BY <1>0, <1>4, <3>1, AnnounceType DEF RefundWithRemaining, Events, Said
    <3>2. CASE amount # net[p] - refunded[p]
      BY <1>4, <3>2 DEF RefundWithRemaining, TypeOK, Task
    <3>3. QED
      BY <3>1, <3>2
  <2>5. QED
    BY <1>4, <2>1, <2>2, <2>3, <2>4 DEF RefundWithRemaining, TypeOK, Task
<1>5. ASSUME NEW limit \in 1 .. Batch, ReconcilePendingPayments(h, limit)
      PROVE  TypeOK'
  BY <1>0, <1>5, SnapshotType, PagesType DEF ReconcilePendingPayments, TypeOK, db, callbacks
<1>6. QED
  BY <1>1, <1>2, <1>3, <1>4, <1>5 DEF Request, HandleProviderWebhook, CheckReconciliationPayment,
      CheckReconciliationBatch, RefundPayment

(* Everything that happens outside the process, the jobs' runs, the crash. *)
LEMMA RestPreservesType ==
    ASSUME TypeOK, \/ Outside \/ ReconcileRecentPayments \/ ExpirePayments
                   \/ Crash \/ Restart
    PROVE  TypeOK'
<1>1. ASSUME NEW p \in Payment, NEW t \in Requests, CreatePayment(p, t)
      PROVE  TypeOK'
  BY <1>1 DEF CreatePayment, TypeOK, Statuses, callbacks
<1>2. ASSUME NEW p \in Payment, NEW report \in {"paid", "other"}, CustomerPays(p, report)
      PROVE  TypeOK'
  BY <1>2 DEF CustomerPays, TypeOK, db, callbacks
<1>3. ASSUME NEW p \in Payment, ProviderCorrects(p)
      PROVE  TypeOK'
  BY <1>3 DEF ProviderCorrects, TypeOK, db, callbacks
<1>4. CASE Tick
  BY <1>4 DEF Tick, TypeOK, db, callbacks
<1>5. CASE ReconcileRecentPayments
  <2>1. cursor' \in Payment \union {None}
    BY <1>5, CursorType
  <2>2. todo' \in [Actor -> SUBSET [pay : Payment, seen : Statuses]]
    BY <1>5, SnapshotType, PagesType DEF ReconcileRecentPayments, TypeOK
  <2>3. QED
    BY <1>5, <2>1, <2>2 DEF ReconcileRecentPayments, TypeOK, db, callbacks
<1>6. CASE ExpirePayments
  <2>1. todo' \in [Actor -> SUBSET [pay : Payment, seen : Statuses]]
    BY <1>6, SnapshotType, PagesType DEF ExpirePayments, TypeOK
  <2>2. QED
    BY <1>6, <2>1 DEF ExpirePayments, TypeOK, db, callbacks
<1>7. CASE Crash
  <2>1. \A p \in Payment, e \in Events : Cardinality(Notifying(p, e)) \in Nat
    BY NotifyingFinite
  <2>2. lost' \in [Payment -> [Events -> Nat]]
    BY <1>7, <2>1 DEF Crash, TypeOK
  <2>3. QED
    BY <1>7, <2>2 DEF Crash, TypeOK, db
<1>8. CASE Restart
  BY <1>8 DEF Restart, TypeOK, db, callbacks
<1>9. QED
  BY <1>1, <1>2, <1>3, <1>4, <1>5, <1>6, <1>7, <1>8 DEF Outside

(* Any step.                                                               *)
LEMMA TypeStep == TypeOK /\ [Next]_vars => TypeOK'
<1>1. CASE UNCHANGED vars
  BY <1>1 DEF vars, db, callbacks, TypeOK
<1>2. QED
  BY <1>1, WorkPreservesType, RequestPreservesType, RestPreservesType DEF Next

(* PaymentSettlement keeps its variables within their types.               *)
THEOREM TypeCorrect == Spec => []TypeOK
<1>1. Init => TypeOK
  BY DEF Init, TypeOK, Statuses, Terms
<1>2. QED
  BY <1>1, TypeStep, PTL DEF Spec

-----------------------------------------------------------------------------
(* The ledger.                                                             *)

(* Only four kinds of step write the payment's rows.                       *)
LEMMA DatabaseSteps ==
    ASSUME [Next]_vars
    PROVE  \/ UNCHANGED db
           \/ \E p \in Payment, t \in Requests : CreatePayment(p, t)
           \/ \E a \in Actor : MarkPaid(a)
           \/ \E a \in Actor : UpdateStatus(a)
           \/ \E h \in Handler, p \in Payment : \E amount \in 1 .. net[p] :
                  RefundWithRemaining(h, p, amount)
<1>1. CASE UNCHANGED vars
  BY <1>1 DEF vars
<1>2. ASSUME NEW a \in Actor, Work(a), ~MarkPaid(a), ~UpdateStatus(a)
      PROVE  UNCHANGED db
  BY <1>2 DEF Work, NextItem, CheckConfirmed, CheckWebhookMismatch, CheckMismatch,
       CheckNotConfirmed, RecordMismatch, LostRace, WriteFails, Notify,
       NotifySkipped, CommitReplyLost
<1>3. ASSUME NEW h \in Handler, Request(h),
             ~\E p \in Payment : \E amount \in 1 .. net[p] : RefundWithRemaining(h, p, amount)
      PROVE  UNCHANGED db
  BY <1>3 DEF Request, HandleProviderWebhook, CheckReconciliationPayment,
      CheckReconciliationBatch, RefundPayment, ReceiveWebhook, DuplicateWebhook, ReconcilePayment,
       ReconcilePendingPayments
<1>4. ASSUME Outside, ~\E p \in Payment, t \in Requests : CreatePayment(p, t)
      PROVE  UNCHANGED db
  BY <1>4 DEF Outside, CustomerPays, ProviderCorrects, Tick
<1>5. CASE ReconcileRecentPayments \/ ExpirePayments \/ Crash \/ Restart
  BY <1>5 DEF ReconcileRecentPayments, ExpirePayments, Crash, Restart
<1>6. QED
  BY <1>1, <1>2, <1>3, <1>4, <1>5 DEF Next

(* The ledger is in step with the status, and so is the net the refund     *)
(* limit is computed from.                                                 *)
LedgerInv ==
    /\ LedgerBacksPayment
    /\ \A p \in Payment :
          net[p] = IF status[p] \in {"paid", "refunded"} THEN NetOf(terms[p]) ELSE 0

(* The actor of a guarded write works on a payment.                        *)
LEMMA WriterWorksOnPayment ==
    ASSUME TypeOK, NEW a \in Actor, task[a].step \in {"check", "record", "settle", "expire", "notify"}
    PROVE  task[a].pay \in Payment
BY StepKind DEF Settling, Announcing

(* Settling credits the merchant's share, and nothing was there before.    *)
LEMMA MarkPaidKeepsLedger ==
    ASSUME TypeOK, LedgerInv, NEW a \in Actor, MarkPaid(a)
    PROVE  LedgerInv'
<1> DEFINE p == task[a].pay
           n == NetOf(terms[p])
<1>1. p \in Payment
  BY WriterWorksOnPayment DEF MarkPaid
<1>2. n \in Nat
  BY <1>1, NetOfType DEF TypeOK
<1>3. /\ status[p] \in {"pending", "expired"}
      /\ status' = [status EXCEPT ![p] = "paid"]
      /\ net' = [net EXCEPT ![p] = n]
      /\ terms' = terms /\ refunded' = refunded
  BY DEF MarkPaid, AllowedSourceStatuses
<1>4. credit[p] = 0 /\ refunded[p] = 0
  <2>1. credit[p] = 0 /\ refunded[p] <= credit[p]
    BY <1>1, <1>3 DEF LedgerInv, LedgerBacksPayment
  <2>2. refunded[p] \in Nat
    BY <1>1 DEF TypeOK
  <2>3. QED
    BY <2>1, <2>2
<1>5. credit' = IF Production(p) /\ n > 0 THEN [credit EXCEPT ![p] = credit[p] + n] ELSE credit
  BY DEF MarkPaid
<1>6. credit'[p] = Share(p)
  BY <1>1, <1>2, <1>4, <1>5 DEF Share, TypeOK
<1>7. \A q \in Payment \ {p} : credit'[q] = credit[q]
  BY <1>1, <1>5 DEF TypeOK
<1>8. \A q \in Payment : Share(q)' = Share(q)
  BY <1>3 DEF Share, Production
<1>9. ASSUME NEW q \in Payment
      PROVE  /\ credit'[q] = IF status'[q] \in {"paid", "refunded"} THEN Share(q)' ELSE 0
             /\ refunded'[q] <= credit'[q]
             /\ status'[q] = "refunded" <=> credit'[q] > 0 /\ refunded'[q] = credit'[q]
             /\ net'[q] = IF status'[q] \in {"paid", "refunded"} THEN NetOf(terms[q]) ELSE 0
  <2>1. CASE q = p
    <3>1. Share(p) \in Nat
      BY <1>2 DEF Share
    <3>2. QED
      BY <1>1, <1>3, <1>4, <1>6, <1>8, <2>1, <3>1 DEF TypeOK
  <2>2. CASE q # p
    BY <1>1, <1>3, <1>7, <1>8, <2>2 DEF TypeOK, LedgerInv, LedgerBacksPayment
  <2>3. QED
    BY <2>1, <2>2
<1>10. QED
  BY <1>3, <1>9 DEF LedgerInv, LedgerBacksPayment

(* A refund takes what is left at most, and the last of it is final.       *)
LEMMA RefundKeepsLedger ==
    ASSUME TypeOK, LedgerInv, NEW h \in Handler, NEW p \in Payment,
           NEW amount \in 1 .. net[p], RefundWithRemaining(h, p, amount)
    PROVE  LedgerInv'
<1>1. /\ status[p] = "paid" /\ Production(p) /\ net[p] > 0
      /\ amount <= net[p] - refunded[p]
      /\ refunded' = [refunded EXCEPT ![p] = refunded[p] + amount]
      /\ terms' = terms /\ net' = net /\ credit' = credit
  BY DEF RefundWithRemaining
<1>2. status' = IF amount = net[p] - refunded[p]
                THEN [status EXCEPT ![p] = "refunded"] ELSE status
  BY DEF RefundWithRemaining
<1>3. /\ net[p] = credit[p] /\ net[p] \in Nat /\ refunded[p] \in Nat /\ amount \in Nat
      /\ credit[p] = Share(p) /\ net[p] = NetOf(terms[p])
  BY <1>1 DEF LedgerInv, LedgerBacksPayment, Share, TypeOK
<1>4. \A q \in Payment : Share(q)' = Share(q)
  BY <1>1 DEF Share, Production
<1>5. ASSUME NEW q \in Payment
      PROVE  /\ credit'[q] = IF status'[q] \in {"paid", "refunded"} THEN Share(q)' ELSE 0
             /\ refunded'[q] <= credit'[q]
             /\ status'[q] = "refunded" <=> credit'[q] > 0 /\ refunded'[q] = credit'[q]
             /\ net'[q] = IF status'[q] \in {"paid", "refunded"} THEN NetOf(terms[q]) ELSE 0
  <2>a. /\ refunded'[p] = refunded[p] + amount
        /\ status'[p] = IF amount = net[p] - refunded[p] THEN "refunded" ELSE "paid"
        /\ credit'[p] = credit[p] /\ net'[p] = net[p] /\ Share(p)' = Share(p)
    BY <1>1, <1>2, <1>4 DEF TypeOK
  <2>1. CASE q = p /\ amount = net[p] - refunded[p]
    BY <1>1, <1>3, <2>a, <2>1
  <2>2. CASE q = p /\ amount # net[p] - refunded[p]
    BY <1>1, <1>3, <2>a, <2>2
  <2>3. CASE q # p
    BY <1>1, <1>2, <1>4, <2>3 DEF TypeOK, LedgerInv, LedgerBacksPayment
  <2>4. QED
    BY <2>1, <2>2, <2>3
<1>6. QED
  BY <1>1, <1>5 DEF LedgerInv, LedgerBacksPayment

(* Ledger and status stay in step.                                         *)
LEMMA LedgerStep == TypeOK /\ LedgerInv /\ [Next]_vars => LedgerInv'
<1> SUFFICES ASSUME TypeOK, LedgerInv, [Next]_vars PROVE LedgerInv'
  OBVIOUS
<1>1. CASE UNCHANGED db
  BY <1>1 DEF db, LedgerInv, LedgerBacksPayment, Share, Production
<1>2. ASSUME NEW p \in Payment, NEW t \in Requests, CreatePayment(p, t)
      PROVE  LedgerInv'
  BY <1>2 DEF CreatePayment, TypeOK, LedgerInv, LedgerBacksPayment, Share, Production
<1>3. ASSUME NEW a \in Actor, MarkPaid(a)
      PROVE  LedgerInv'
  BY <1>3, MarkPaidKeepsLedger
<1>4. ASSUME NEW a \in Actor, UpdateStatus(a)
      PROVE  LedgerInv'
  <2>1. task[a].pay \in Payment
    BY <1>4, WriterWorksOnPayment DEF UpdateStatus
  <2>2. QED
    BY <1>4, <2>1 DEF UpdateStatus, AllowedSourceStatuses, TypeOK, LedgerInv,
         LedgerBacksPayment, Share, Production
<1>5. ASSUME NEW h \in Handler, NEW p \in Payment, NEW amount \in 1 .. net[p],
             RefundWithRemaining(h, p, amount)
      PROVE  LedgerInv'
  BY <1>5, RefundKeepsLedger
<1>6. QED
  BY <1>1, <1>2, <1>3, <1>4, <1>5, DatabaseSteps

(* The ledger backs every settled payment exactly once, and refunds never  *)
(* exceed it, however webhooks, jobs, admins and crashes interleave.       *)
THEOREM LedgerCorrect == Spec => []LedgerBacksPayment
<1>1. Init => LedgerInv
  BY DEF Init, LedgerInv, LedgerBacksPayment
<1>2. LedgerInv => LedgerBacksPayment
  BY DEF LedgerInv
<1>3. QED
  BY <1>1, <1>2, LedgerStep, TypeCorrect, PTL DEF Spec

-----------------------------------------------------------------------------
(* How a status and a task change.                                         *)

Settled == {"paid", "refunded"}

\* The changes of a status, each counted as it is won.
Changes(p) ==
    \/ status'[p] = status[p] /\ won'[p] = won[p]
    \/ status[p] = "absent" /\ status'[p] = "pending" /\ won'[p] = won[p]
    \/ /\ status[p] = "pending" /\ status'[p] = "expired"
       /\ won'[p] = [won[p] EXCEPT !["expired"] = @ + 1]
    \/ /\ status[p] \in {"pending", "expired"} /\ status'[p] = "paid"
       /\ won'[p] = [won[p] EXCEPT !["paid"] = @ + 1]
    \/ /\ status[p] = "paid" /\ status'[p] = "refunded"
       /\ won'[p] = [won[p] EXCEPT !["refunded"] = @ + 1]

(* Every step changes every status in one of these ways.                   *)
LEMMA StatusChanges ==
    ASSUME TypeOK, [Next]_vars, NEW p \in Payment
    PROVE  Changes(p)
<1>1. CASE UNCHANGED <<status, won>>
  BY <1>1 DEF Changes
<1>2. ASSUME NEW q \in Payment, NEW t \in Requests, CreatePayment(q, t) PROVE Changes(p)
  BY <1>2 DEF CreatePayment, callbacks, TypeOK, Changes
<1>3. ASSUME NEW a \in Actor, MarkPaid(a) PROVE Changes(p)
  <2>1. task[a].pay \in Payment
    BY <1>3, WriterWorksOnPayment DEF MarkPaid
  <2> QED BY <1>3, <2>1 DEF MarkPaid, AllowedSourceStatuses, Count, TypeOK, Changes
<1>4. ASSUME NEW a \in Actor, UpdateStatus(a) PROVE Changes(p)
  <2>1. task[a].pay \in Payment
    BY <1>4, WriterWorksOnPayment DEF UpdateStatus
  <2> QED BY <1>4, <2>1 DEF UpdateStatus, AllowedSourceStatuses, Count, TypeOK, Changes
<1>5. ASSUME NEW h \in Handler, NEW q \in Payment, NEW amount \in 1 .. net[q],
             RefundWithRemaining(h, q, amount)
      PROVE  Changes(p)
  <2>1. CASE amount = net[q] - refunded[q]
    <3>1. /\ status[q] = "paid" /\ status' = [status EXCEPT ![q] = "refunded"]
          /\ won' = [won EXCEPT ![q]["refunded"] = @ + 1]
      BY <1>5, <2>1 DEF RefundWithRemaining, Count
    <3> QED BY <3>1 DEF TypeOK, Changes
  <2>2. CASE amount # net[q] - refunded[q]
    BY <1>1, <1>5, <2>2 DEF RefundWithRemaining
  <2> QED BY <2>1, <2>2
<1>6. CASE UNCHANGED vars
  BY <1>1, <1>6 DEF vars, db, callbacks
<1>7. ASSUME NEW a \in Actor, Work(a) PROVE Changes(p)
  <2>1. MarkPaid(a) \/ UpdateStatus(a) \/ UNCHANGED <<status, won>>
    BY <1>7 DEF Work, NextItem, CheckConfirmed, CheckWebhookMismatch, CheckMismatch,
       CheckNotConfirmed, RecordMismatch, LostRace, WriteFails, Notify, NotifySkipped,
       CommitReplyLost, db, callbacks
  <2> QED BY <1>1, <1>3, <1>4, <2>1
<1>8. ASSUME NEW h \in Handler, Request(h) PROVE Changes(p)
  <2>1. \/ \E q \in Payment : \E amount \in 1 .. net[q] : RefundWithRemaining(h, q, amount)
        \/ UNCHANGED <<status, won>>
    BY <1>8 DEF Request, HandleProviderWebhook, CheckReconciliationPayment,
       CheckReconciliationBatch, RefundPayment, ReceiveWebhook, DuplicateWebhook,
       ReconcilePayment, ReconcilePendingPayments, db, callbacks
  <2> QED BY <1>1, <1>5, <2>1
<1>9. CASE Outside
  <2>1. \/ \E q \in Payment, t \in Requests : CreatePayment(q, t)
        \/ UNCHANGED <<status, won>>
    BY <1>9 DEF Outside, CustomerPays, ProviderCorrects, Tick, db, callbacks
  <2> QED BY <1>1, <1>2, <2>1
<1>10. CASE ReconcileRecentPayments \/ ExpirePayments \/ Crash \/ Restart
  BY <1>1, <1>10 DEF ReconcileRecentPayments, ExpirePayments, Crash, Restart, db, callbacks
<1> QED BY <1>6, <1>7, <1>8, <1>9, <1>10 DEF Next

\* How an actor's task changes: it ends or begins, a check decides it, a write
\* is won.
Begins(t) ==
    /\ t.step \in {"check", "expire"} /\ t.pay \in Payment
    /\ t.said = "nothing" \/ (t.step = "check" /\ status[t.pay] # "absent" /\ ~t.past)
Decided(t, u) ==
    /\ t.step = "check" /\ u.pay = t.pay /\ u.said = t.said /\ ~u.past
    /\ \/ u.step = "settle" /\ Confirmed(t.pay)
       \/ u.step = "record" /\ prov[t.pay] = "other"
       \/ u.step = "expire" /\ t.past
Wins(t, u) ==
    /\ u.step = "notify" /\ u.pay \in Payment /\ ~u.past
    /\ \/ /\ u.event = "paid" /\ u.pay = t.pay /\ u.said = t.said
          /\ status[u.pay] \in {"pending", "expired"} /\ status'[u.pay] = "paid"
          /\ u.late = (status[u.pay] = "expired")
       \/ u.event # "paid" /\ u.late = FALSE /\ u.said = "nothing"
Moves(a) ==
    \/ task'[a] = task[a]
    \/ task'[a] = Idle
    \/ Begins(task'[a])
    \/ Decided(task[a], task'[a])
    \/ Wins(task[a], task'[a])

(* Every step changes every task in one of these ways.                     *)
LEMMA TaskMoves ==
    ASSUME TypeOK, [Next]_vars, NEW b \in Actor
    PROVE  Moves(b)
<1>1. CASE UNCHANGED task
  BY <1>1 DEF Moves
<1>2. ASSUME NEW a \in Actor, NEW t, Become(a, t),
             t = Idle \/ Begins(t) \/ Decided(task[a], t) \/ Wins(task[a], t)
      PROVE  Moves(b)
  <2>1. task'[b] = IF b = a THEN t ELSE task[b]
    BY <1>2 DEF Become, TypeOK
  <2> QED BY <1>2, <2>1 DEF Moves
<1>3. ASSUME NEW a \in Actor, Done(a) PROVE Moves(b)
  BY <1>2, <1>3 DEF Done
<1>4. ASSUME NEW a \in Actor, NextItem(a) PROVE Moves(b)
  <2>1. PICK row \in todo[a] :
          Become(a,
                CASE a = Expirer ->
                        [Idle EXCEPT !.step = "expire", !.pay = row.pay]
                  [] a # Expirer /\ row.seen \in {"pending", "expired"} ->
                        [Idle EXCEPT !.step = "check", !.pay = row.pay,
                                     !.past = row.seen = "pending" /\ pastExpiry(row.pay)]
                  [] OTHER -> Idle)
    BY <1>4 DEF NextItem
  <2>2. row.pay \in Payment
    BY DEF TypeOK
  <2>3. CASE a = Expirer
    <3>1. Begins([Idle EXCEPT !.step = "expire", !.pay = row.pay])
      BY <2>2 DEF Begins, Idle
    <3> QED BY <1>2, <2>1, <2>3, <3>1
  <2>4. CASE a # Expirer /\ row.seen \in {"pending", "expired"}
    <3>1. Begins([Idle EXCEPT !.step = "check", !.pay = row.pay,
                              !.past = row.seen = "pending" /\ pastExpiry(row.pay)])
      BY <2>2 DEF Begins, Idle
    <3> QED BY <1>2, <2>1, <2>4, <3>1
  <2>5. CASE a # Expirer /\ row.seen \notin {"pending", "expired"}
    BY <1>2, <2>1, <2>5
  <2> QED BY <2>3, <2>4, <2>5
<1>5. ASSUME NEW a \in Actor, task[a].step = "check", NEW step, Goto(a, step),
             \/ step = "settle" /\ Confirmed(task[a].pay)
             \/ step = "record" /\ prov[task[a].pay] = "other"
             \/ step = "expire" /\ task[a].past
      PROVE  Moves(b)
  <2>1. task[a] \in Settling
    BY <1>5, StepKind
  <2>2. Decided(task[a], [task[a] EXCEPT !.step = step, !.past = FALSE])
    BY <1>5, <2>1 DEF Decided, Settling
  <2> QED BY <1>2, <1>5, <2>2 DEF Goto
<1>6. ASSUME NEW a \in Actor, MarkPaid(a) PROVE Moves(b)
  <2> DEFINE p == task[a].pay
             u == [step |-> "notify", pay |-> p, said |-> task[a].said, past |-> FALSE,
                   event |-> "paid", late |-> status[p] = "expired"]
  <2>1. p \in Payment
    BY <1>6, WriterWorksOnPayment DEF MarkPaid
  <2>2. status[p] \in {"pending", "expired"} /\ status'[p] = "paid"
    BY <1>6, <2>1 DEF MarkPaid, AllowedSourceStatuses, TypeOK
  <2>3. Wins(task[a], u)
    BY <2>1, <2>2 DEF Wins
  <2>4. Become(a, u)
    BY <1>6 DEF MarkPaid, Announce
  <2> QED BY <1>2, <2>3, <2>4
<1>7. ASSUME NEW a \in Actor, NEW p \in Payment, NEW event \in {"expired", "refunded"},
             Announce(a, p, "nothing", event, FALSE)
      PROVE  Moves(b)
  <2> DEFINE u == [step |-> "notify", pay |-> p, said |-> "nothing", past |-> FALSE,
                   event |-> event, late |-> FALSE]
  <2>1. Wins(task[a], u) /\ Become(a, u)
    BY <1>7 DEF Wins, Announce
  <2> QED BY <1>2, <2>1
<1>8. ASSUME NEW a \in Actor, Work(a) PROVE Moves(b)
  <2>1. CASE CheckConfirmed(a) \/ CheckMismatch(a) \/ CheckNotConfirmed(a)
    BY <1>3, <1>5, <2>1 DEF CheckConfirmed, CheckMismatch, CheckNotConfirmed
  <2>2. CASE UpdateStatus(a)
    <3>1. task[a].pay \in Payment
      BY <2>2, WriterWorksOnPayment DEF UpdateStatus
    <3> QED BY <1>7, <2>2, <3>1 DEF UpdateStatus
  <2>3. CASE \/ CheckWebhookMismatch(a) \/ RecordMismatch(a) \/ LostRace(a) \/ WriteFails(a)
             \/ Notify(a) \/ NotifySkipped(a) \/ CommitReplyLost(a)
    BY <1>3, <2>3 DEF CheckWebhookMismatch, RecordMismatch, LostRace, WriteFails, Notify,
       NotifySkipped, CommitReplyLost
  <2> QED BY <1>4, <1>6, <1>8, <2>1, <2>2, <2>3 DEF Work
<1>9. ASSUME NEW h \in Handler, Request(h) PROVE Moves(b)
  <2>0. h \in Actor
    BY DEF Actor
  <2>1. ASSUME NEW p \in Payment, NEW said \in Said \ {"nothing"}, ReceiveWebhook(h, p, said)
        PROVE  Moves(b)
    <3>1. Begins([Idle EXCEPT !.step = "check", !.pay = p, !.said = said])
      BY <2>1 DEF ReceiveWebhook, Begins, Idle
    <3> QED BY <1>2, <2>0, <2>1, <3>1 DEF ReceiveWebhook
  <2>2. ASSUME NEW p \in Payment, NEW amount \in 1 .. net[p], RefundWithRemaining(h, p, amount)
        PROVE  Moves(b)
    BY <1>1, <1>7, <2>0, <2>2 DEF RefundWithRemaining
  <2>3. \/ \E p \in Payment, said \in Said \ {"nothing"} : ReceiveWebhook(h, p, said)
        \/ \E p \in Payment : \E amount \in 1 .. net[p] : RefundWithRemaining(h, p, amount)
        \/ UNCHANGED task
    BY <1>9 DEF Request, HandleProviderWebhook, CheckReconciliationPayment,
       CheckReconciliationBatch, RefundPayment, DuplicateWebhook, ReconcilePayment,
       ReconcilePendingPayments
  <2> QED BY <1>1, <2>1, <2>2, <2>3
<1>10. CASE Outside \/ ReconcileRecentPayments \/ ExpirePayments \/ Restart \/ UNCHANGED vars
  BY <1>1, <1>10 DEF Outside, CreatePayment, CustomerPays, ProviderCorrects, Tick,
     ReconcileRecentPayments, ExpirePayments, Restart, vars
<1>11. CASE Crash
  BY <1>11 DEF Crash, Moves
<1> QED BY <1>8, <1>9, <1>10, <1>11 DEF Next

-----------------------------------------------------------------------------
(* Flags and confirmations.                                                *)

\* What a task has heard from the provider still stands, and so does what a
\* flag says.
HeardInv ==
    /\ \A a \in Actor :
          /\ task[a].step = "settle" => Confirmed(task[a].pay)
          /\ task[a].step = "record" => prov[task[a].pay] \in {"other", "corrected"}
    /\ FlaggedOnlyByProvider

(* The provider's report only becomes known and is only put right.         *)
LEMMA ReportStands ==
    ASSUME TypeOK, [Next]_vars, NEW p \in Payment
    PROVE  \/ prov'[p] = prov[p]
           \/ prov[p] = "unpaid"
           \/ prov[p] = "other" /\ prov'[p] = "corrected"
<1>1. CASE UNCHANGED prov
  BY <1>1
<1>2. ASSUME NEW a \in Actor, Work(a) PROVE UNCHANGED prov
  BY <1>2 DEF Work, NextItem, CheckConfirmed, CheckWebhookMismatch, CheckMismatch,
     CheckNotConfirmed, RecordMismatch, MarkPaid, UpdateStatus, LostRace, WriteFails, Notify,
     NotifySkipped, CommitReplyLost
<1>3. ASSUME NEW h \in Handler, Request(h) PROVE UNCHANGED prov
  BY <1>3 DEF Request, HandleProviderWebhook, CheckReconciliationPayment,
     CheckReconciliationBatch, RefundPayment, ReceiveWebhook, DuplicateWebhook,
     ReconcilePayment, ReconcilePendingPayments, RefundWithRemaining
<1>4. ASSUME NEW q \in Payment, NEW report, CustomerPays(q, report)
      PROVE  prov'[p] = prov[p] \/ prov[p] = "unpaid"
  BY <1>4 DEF CustomerPays, TypeOK
<1>5. ASSUME NEW q \in Payment, ProviderCorrects(q)
      PROVE  prov'[p] = prov[p] \/ (prov[p] = "other" /\ prov'[p] = "corrected")
  BY <1>5 DEF ProviderCorrects, TypeOK
<1>6. ASSUME NEW q \in Payment, NEW t, CreatePayment(q, t) PROVE UNCHANGED prov
  BY <1>6 DEF CreatePayment
<1>7. CASE ReconcileRecentPayments \/ ExpirePayments \/ Crash \/ Restart \/ Tick \/ UNCHANGED vars
  BY <1>7 DEF ReconcileRecentPayments, ExpirePayments, Crash, Restart, Tick, vars
<1> QED BY <1>1, <1>2, <1>3, <1>4, <1>5, <1>6, <1>7 DEF Next, Outside

(* Only a recorded mismatch flags a payment.                               *)
LEMMA FlagSteps ==
    ASSUME [Next]_vars
    PROVE  \/ UNCHANGED flagged
           \/ \E a \in Actor : /\ task[a].step = "record"
                               /\ flagged' = flagged \union {task[a].pay}
<1>1. ASSUME NEW a \in Actor, Work(a), ~RecordMismatch(a) PROVE UNCHANGED flagged
  BY <1>1 DEF Work, NextItem, CheckConfirmed, CheckWebhookMismatch, CheckMismatch,
     CheckNotConfirmed, MarkPaid, UpdateStatus, LostRace, WriteFails, Notify,
     NotifySkipped, CommitReplyLost
<1>2. ASSUME NEW a \in Actor, RecordMismatch(a)
      PROVE  task[a].step = "record" /\ flagged' = flagged \union {task[a].pay}
  BY <1>2 DEF RecordMismatch
<1>3. ASSUME NEW h \in Handler, Request(h) PROVE UNCHANGED flagged
  BY <1>3 DEF Request, HandleProviderWebhook, CheckReconciliationPayment,
     CheckReconciliationBatch, RefundPayment, ReceiveWebhook, DuplicateWebhook,
     ReconcilePayment, ReconcilePendingPayments, RefundWithRemaining
<1>4. CASE \/ Outside \/ ReconcileRecentPayments \/ ExpirePayments \/ Crash \/ Restart
           \/ UNCHANGED vars
  BY <1>4 DEF Outside, CreatePayment, CustomerPays, ProviderCorrects, Tick,
     ReconcileRecentPayments, ExpirePayments, Crash, Restart, vars
<1> QED BY <1>1, <1>2, <1>3, <1>4 DEF Next

(* What was heard stays heard.                                             *)
LEMMA HeardStep == TypeOK /\ HeardInv /\ [Next]_vars => HeardInv'
<1> SUFFICES ASSUME TypeOK, HeardInv, [Next]_vars PROVE HeardInv'
  OBVIOUS
<1>1. ASSUME NEW p \in Payment
      PROVE  /\ Confirmed(p) => Confirmed(p)'
             /\ prov[p] \in {"other", "corrected"} => prov'[p] \in {"other", "corrected"}
  BY ReportStands DEF Confirmed
<1>2. ASSUME NEW a \in Actor
      PROVE  /\ task'[a].step = "settle" => prov'[task'[a].pay] \in {"paid", "corrected"}
             /\ task'[a].step = "record" => prov'[task'[a].pay] \in {"other", "corrected"}
  <2>1. Moves(a)
    BY TaskMoves
  <2>2. CASE task'[a] = task[a]
    <3>1. task[a].step \in {"settle", "record"} => task[a].pay \in Payment
      BY WriterWorksOnPayment
    <3> QED BY <1>1, <2>2, <3>1 DEF HeardInv, Confirmed
  <2>3. CASE task'[a] = Idle \/ Begins(task'[a]) \/ Wins(task[a], task'[a])
    BY <2>3 DEF Idle, Begins, Wins
  <2>4. CASE Decided(task[a], task'[a])
    <3>1. task[a].pay \in Payment
      BY <2>4, WriterWorksOnPayment DEF Decided
    <3> QED BY <1>1, <2>4, <3>1 DEF Decided, Confirmed
  <2> QED BY <2>1, <2>2, <2>3, <2>4 DEF Moves
<1>3. FlaggedOnlyByProvider'
  <2>1. ASSUME NEW p \in flagged PROVE prov'[p] \in {"other", "corrected"}
    BY <1>1 DEF HeardInv, FlaggedOnlyByProvider, TypeOK
  <2>2. ASSUME NEW a \in Actor, task[a].step = "record"
        PROVE  prov'[task[a].pay] \in {"other", "corrected"}
    BY <1>1, <2>2, WriterWorksOnPayment DEF HeardInv
  <2> QED BY <2>1, <2>2, FlagSteps DEF FlaggedOnlyByProvider
<1> QED BY <1>2, <1>3 DEF HeardInv, Confirmed

(* A payment leaves the automatic reconcile only because the provider      *)
(* itself reported another amount (FlaggedOnlyByProvider), whatever the    *)
(* webhooks said.                                                          *)
THEOREM FlagsComeFromProvider == Spec => []FlaggedOnlyByProvider
<1>1. Init => HeardInv
  BY DEF Init, HeardInv, FlaggedOnlyByProvider, Idle
<1>2. HeardInv => FlaggedOnlyByProvider
  BY DEF HeardInv
<1> QED BY <1>1, <1>2, HeardStep, TypeCorrect, PTL DEF Spec

-----------------------------------------------------------------------------
(* Acknowledged webhooks.                                                  *)

\* A task that answers a webhook works on a stored payment, never leads to an
\* expiry, and announces only a settlement.
AckInv ==
    /\ AckImpliesSettled
    /\ \A a \in Actor : ByWebhook(a) =>
          /\ status[task[a].pay] # "absent"
          /\ ~task[a].past
          /\ task[a].step # "expire"
          /\ task[a].step = "notify" => status[task[a].pay] \in Settled

(* A webhook is acknowledged as settled by who finds it settled, loses the *)
(* race, or has announced the settlement.                                  *)
LEMMA AckSteps ==
    ASSUME [Next]_vars
    PROVE  \/ UNCHANGED acked
           \/ \E p \in Payment : status[p] \in Settled /\ acked' = acked \union {p}
           \/ \E a \in Actor :
                 /\ ByWebhook(a) /\ acked' = acked \union {task[a].pay}
                 /\ \/ task[a].step = "notify"
                    \/ task[a].step = "expire"
                    \/ task[a].step = "settle" /\ status[task[a].pay] \notin {"pending", "expired"}
<1>1. ASSUME NEW a \in Actor, Work(a), ~(LostRace(a) \/ Notify(a) \/ NotifySkipped(a))
      PROVE  UNCHANGED acked
  BY <1>1 DEF Work, NextItem, CheckConfirmed, CheckWebhookMismatch, CheckMismatch,
     CheckNotConfirmed, RecordMismatch, MarkPaid, UpdateStatus, WriteFails, CommitReplyLost
<1>2. ASSUME NEW a \in Actor, LostRace(a) \/ Notify(a) \/ NotifySkipped(a)
      PROVE  /\ \/ UNCHANGED acked
                \/ ByWebhook(a) /\ acked' = acked \union {task[a].pay}
             /\ \/ task[a].step = "notify"
                \/ task[a].step = "expire"
                \/ task[a].step = "settle" /\ status[task[a].pay] \notin {"pending", "expired"}
  BY <1>2 DEF LostRace, Notify, NotifySkipped, Acknowledge, AllowedSourceStatuses
<1>3. ASSUME NEW h \in Handler, Request(h), ~\E p \in Payment : DuplicateWebhook(h, p)
      PROVE  UNCHANGED acked
  BY <1>3 DEF Request, HandleProviderWebhook, CheckReconciliationPayment,
     CheckReconciliationBatch, RefundPayment, ReceiveWebhook,
     ReconcilePayment, ReconcilePendingPayments, RefundWithRemaining
<1>4. ASSUME NEW h \in Handler, NEW p \in Payment, DuplicateWebhook(h, p)
      PROVE  status[p] \in Settled /\ acked' = acked \union {p}
  BY <1>4 DEF DuplicateWebhook, Settled
<1>5. CASE \/ Outside \/ ReconcileRecentPayments \/ ExpirePayments \/ Crash \/ Restart
           \/ UNCHANGED vars
  BY <1>5 DEF Outside, CreatePayment, CustomerPays, ProviderCorrects, Tick,
     ReconcileRecentPayments, ExpirePayments, Crash, Restart, vars
<1> QED BY <1>1, <1>2, <1>3, <1>4, <1>5 DEF Next

(* Statuses never become unstored, and a settlement is never undone.       *)
LEMMA SettledStays ==
    ASSUME TypeOK, [Next]_vars, NEW p \in Payment
    PROVE  /\ status[p] # "absent" => status'[p] # "absent"
           /\ status[p] \in Settled => status'[p] \in Settled
BY StatusChanges DEF Changes, Settled

(* No webhook comes to be answered too early.                              *)
LEMMA AckStep == TypeOK /\ AckInv /\ [Next]_vars => AckInv'
<1> SUFFICES ASSUME TypeOK, AckInv, [Next]_vars PROVE AckInv'
  OBVIOUS
<1>1. AckImpliesSettled'
  <2>1. ASSUME NEW p \in acked PROVE status'[p] \in Settled
    BY SettledStays DEF AckInv, AckImpliesSettled, TypeOK, Settled
  <2>2. ASSUME NEW a \in Actor, ByWebhook(a),
               \/ task[a].step = "notify"
               \/ task[a].step = "expire"
               \/ task[a].step = "settle" /\ status[task[a].pay] \notin {"pending", "expired"}
        PROVE  status'[task[a].pay] \in Settled
    <3>1. task[a].pay \in Payment
      BY <2>2, WriterWorksOnPayment
    <3>2. status[task[a].pay] \in Settled
      BY <2>2, <3>1 DEF AckInv, TypeOK, Statuses, Settled
    <3> QED BY <3>1, <3>2, SettledStays
  <2>3. ASSUME NEW p \in Payment, status[p] \in Settled PROVE status'[p] \in Settled
    BY <2>3, SettledStays
  <2> QED BY <2>1, <2>2, <2>3, AckSteps DEF AckImpliesSettled, Settled
<1>2. ASSUME NEW a \in Actor, ByWebhook(a)'
      PROVE  /\ status'[task'[a].pay] # "absent"
             /\ ~task'[a].past
             /\ task'[a].step # "expire"
             /\ task'[a].step = "notify" => status'[task'[a].pay] \in Settled
  <2>1. Moves(a)
    BY TaskMoves
  <2>2. CASE task'[a] = task[a]
    <3>1. ByWebhook(a)
      BY <1>2, <2>2 DEF ByWebhook
    <3>2. task[a] # Idle
      BY <3>1 DEF ByWebhook, Idle
    <3>3. task[a].pay \in Payment
      BY <3>2 DEF TypeOK, Settling, Announcing
    <3> QED BY <2>2, <3>1, <3>3, SettledStays DEF AckInv
  <2>3. CASE task'[a] = Idle
    BY <1>2, <2>3 DEF ByWebhook, Idle
  <2>4. CASE Begins(task'[a])
    BY <1>2, <2>4, SettledStays DEF Begins, ByWebhook
  <2>5. CASE Decided(task[a], task'[a])
    <3>1. ByWebhook(a) /\ task[a].pay \in Payment
      BY <1>2, <2>5, WriterWorksOnPayment DEF Decided, ByWebhook
    <3> QED BY <2>5, <3>1, SettledStays DEF Decided, AckInv
  <2>6. CASE Wins(task[a], task'[a])
    <3>1. task'[a].event = "paid" /\ status'[task'[a].pay] = "paid" /\ task'[a].step = "notify"
      BY <1>2, <2>6 DEF Wins, ByWebhook
    <3>2. ~task'[a].past
      BY <2>6 DEF Wins
    <3> QED BY <3>1, <3>2 DEF Settled
  <2> QED BY <2>1, <2>2, <2>3, <2>4, <2>5, <2>6 DEF Moves
<1> QED BY <1>1, <1>2 DEF AckInv

(* A provider hears that its webhook is done with only of a payment that   *)
(* is settled (AckImpliesSettled): no paid webhook of an expired payment   *)
(* is swallowed.                                                           *)
THEOREM AcknowledgedIsSettled == Spec => []AckImpliesSettled
<1>1. Init => AckInv
  BY DEF Init, AckInv, AckImpliesSettled, ByWebhook, Idle
<1>2. AckInv => AckImpliesSettled
  BY DEF AckInv
<1> QED BY <1>1, <1>2, AckStep, TypeCorrect, PTL DEF Spec

-----------------------------------------------------------------------------
(* The late flag.                                                          *)

\* The count of expiries follows the status; a task about to announce a payment
\* as paid knows whether it expired; so does every callback queued for it.
ExpiryCounted == \A p \in Payment :
    /\ status[p] \in {"absent", "pending"} => won[p]["expired"] = 0
    /\ status[p] = "expired" => won[p]["expired"] = 1
LateQueued == \A p \in Payment :
    /\ p \in lateQueued => status[p] \in Settled /\ won[p]["expired"] = 1
    /\ queued[p]["paid"] > 0 => status[p] \in Settled
    /\ queued[p]["paid"] > 0 /\ won[p]["expired"] = 1 => p \in lateQueued
LateKnown == \A a \in Actor : task[a].step = "notify" =>
    /\ task[a].event # "paid" => task[a].late = FALSE
    /\ task[a].event = "paid" => /\ status[task[a].pay] \in Settled
                                 /\ task[a].late = (won[task[a].pay]["expired"] = 1)
LateInv == ExpiryCounted /\ LateQueued /\ LateKnown

(* A callback is queued by who is about to announce its event.             *)
LEMMA QueueSteps ==
    ASSUME [Next]_vars
    PROVE  UNCHANGED <<queued, lateQueued>> \/ \E a \in Actor : Notify(a)
<1>1. ASSUME NEW a \in Actor, Work(a), ~Notify(a) PROVE UNCHANGED <<queued, lateQueued>>
  BY <1>1 DEF Work, NextItem, CheckConfirmed, CheckWebhookMismatch, CheckMismatch,
     CheckNotConfirmed, RecordMismatch, MarkPaid, UpdateStatus, LostRace, WriteFails,
     NotifySkipped, CommitReplyLost, callbacks
<1>2. ASSUME NEW h \in Handler, Request(h) PROVE UNCHANGED <<queued, lateQueued>>
  BY <1>2 DEF Request, HandleProviderWebhook, CheckReconciliationPayment,
     CheckReconciliationBatch, RefundPayment, ReceiveWebhook, DuplicateWebhook,
     ReconcilePayment, ReconcilePendingPayments, RefundWithRemaining, callbacks
<1>3. CASE \/ Outside \/ ReconcileRecentPayments \/ ExpirePayments \/ Crash \/ Restart
           \/ UNCHANGED vars
  BY <1>3 DEF Outside, CreatePayment, CustomerPays, ProviderCorrects, Tick,
     ReconcileRecentPayments, ExpirePayments, Crash, Restart, vars, callbacks
<1> QED BY <1>1, <1>2, <1>3 DEF Next

(* Flag, count and status keep agreeing.                                   *)
LEMMA LateStep == TypeOK /\ LateInv /\ [Next]_vars => LateInv'
<1> SUFFICES ASSUME TypeOK, LateInv, [Next]_vars PROVE LateInv'
  OBVIOUS
<1>a. ExpiryCounted /\ LateQueued /\ LateKnown
  BY DEF LateInv
<1>0. TypeOK'
  BY TypeStep
<1>1. ASSUME NEW p \in Payment
      PROVE  /\ status'[p] \in {"absent", "pending"} => won'[p]["expired"] = 0
             /\ status'[p] = "expired" => won'[p]["expired"] = 1
             /\ status[p] \in Settled => status'[p] \in Settled
             /\ status[p] \in Settled => won'[p]["expired"] = won[p]["expired"]
             /\ status'[p] = "paid" => won'[p]["expired"] = won[p]["expired"]
  <2>1. won[p] \in [Events -> Nat] /\ "expired" \in Events
    BY DEF TypeOK, Events
  <2>2. /\ status[p] \in {"absent", "pending"} => won[p]["expired"] = 0
        /\ status[p] = "expired" => won[p]["expired"] = 1
    BY <1>a DEF ExpiryCounted
  <2>3. Changes(p)
    BY StatusChanges
  <2> QED BY <2>1, <2>2, <2>3 DEF Changes, Settled, Events
<1>2. ASSUME NEW a \in Actor, task'[a].step = "notify"
      PROVE  /\ task'[a].event # "paid" => task'[a].late = FALSE
             /\ task'[a].event = "paid" =>
                   /\ status'[task'[a].pay] \in Settled
                   /\ task'[a].late = (won'[task'[a].pay]["expired"] = 1)
  <2>1. Moves(a)
    BY TaskMoves
  <2>2. CASE task'[a] = task[a]
    <3>1. task[a].pay \in Payment
      BY <1>2, <2>2, WriterWorksOnPayment
    <3>2. /\ task[a].event # "paid" => task[a].late = FALSE
          /\ task[a].event = "paid" => /\ status[task[a].pay] \in Settled
                                       /\ task[a].late = (won[task[a].pay]["expired"] = 1)
      BY <1>2, <1>a, <2>2 DEF LateKnown
    <3>3. task[a].event = "paid" =>
             /\ status'[task[a].pay] \in Settled
             /\ won'[task[a].pay]["expired"] = won[task[a].pay]["expired"]
      BY <1>1, <3>1, <3>2
    <3> QED BY <2>2, <3>2, <3>3
  <2>3. CASE task'[a] = Idle \/ Begins(task'[a]) \/ Decided(task[a], task'[a])
    BY <1>2, <2>3 DEF Idle, Begins, Decided
  <2>4. CASE Wins(task[a], task'[a])
    <3> DEFINE p == task'[a].pay
    <3>1. CASE task'[a].event # "paid"
      BY <2>4, <3>1 DEF Wins
    <3>2. CASE task'[a].event = "paid"
      <4>1. /\ p \in Payment /\ status[p] \in {"pending", "expired"} /\ status'[p] = "paid"
            /\ task'[a].late = (status[p] = "expired")
        BY <2>4, <3>2 DEF Wins
      <4>2. won'[p]["expired"] = won[p]["expired"]
        BY <1>1, <4>1
      <4>3. won[p]["expired"] = IF status[p] = "expired" THEN 1 ELSE 0
        BY <1>a, <4>1 DEF ExpiryCounted
      <4>4. (won'[p]["expired"] = 1) = (status[p] = "expired")
        BY <4>2, <4>3
      <4> QED BY <3>2, <4>1, <4>4 DEF Settled
    <3> QED BY <3>1, <3>2
  <2> QED BY <2>1, <2>2, <2>3, <2>4 DEF Moves
<1> DEFINE Told(p) == /\ p \in lateQueued' => status'[p] \in Settled /\ won'[p]["expired"] = 1
                      /\ queued'[p]["paid"] > 0 => status'[p] \in Settled
                      /\ queued'[p]["paid"] > 0 /\ won'[p]["expired"] = 1 => p \in lateQueued'
<1>3. ASSUME NEW p \in Payment,
             p \in lateQueued' <=> p \in lateQueued, queued'[p]["paid"] = queued[p]["paid"]
      PROVE  Told(p)
  <2>1. CASE status[p] \in Settled
    BY <1>1, <1>3, <1>a, <2>1 DEF LateQueued
  <2>2. CASE status[p] \notin Settled
    BY <1>3, <1>a, <2>2 DEF LateQueued
  <2> QED BY <2>1, <2>2
<1>4. ASSUME NEW p \in Payment PROVE Told(p)
  <2>1. CASE UNCHANGED <<queued, lateQueued>>
    BY <1>3, <2>1
  <2>2. ASSUME NEW a \in Actor, Notify(a) PROVE Told(p)
    <3> DEFINE t == task[a]
    <3>1. t.step = "notify" /\ t.pay \in Payment /\ t.event \in Events
      BY <2>2, StepKind DEF Notify, Announcing
    <3>2. /\ queued' = [queued EXCEPT ![t.pay][t.event] = @ + 1]
          /\ lateQueued' = IF t.late THEN lateQueued \union {t.pay} ELSE lateQueued
      BY <2>2 DEF Notify, Count
    <3>3. CASE t.event = "paid" /\ p = t.pay
      <4>1. status[p] \in Settled /\ t.late = (won[p]["expired"] = 1)
        BY <1>a, <3>1, <3>3 DEF LateKnown
      <4>2. status'[p] \in Settled /\ won'[p]["expired"] = won[p]["expired"]
        BY <1>1, <4>1
      <4>3. p \in lateQueued => won[p]["expired"] = 1
        BY <1>a DEF LateQueued
      <4> QED BY <3>2, <3>3, <4>1, <4>2, <4>3
    <3>4. CASE t.event # "paid" \/ p # t.pay
      <4>1. queued[p] \in [Events -> Nat] /\ "paid" \in Events
        BY DEF TypeOK, Events
      <4>2. queued'[p]["paid"] = queued[p]["paid"]
        BY <3>1, <3>2, <3>4, <4>1 DEF TypeOK
      <4>3. t.event # "paid" => t.late = FALSE
        BY <1>a, <3>1 DEF LateKnown
      <4>4. p \in lateQueued' <=> p \in lateQueued
        BY <3>2, <3>4, <4>3
      <4> QED BY <1>3, <4>2, <4>4
    <3> QED BY <3>3, <3>4
  <2> QED BY <2>1, <2>2, QueueSteps
<1>5. ExpiryCounted'
  BY <1>1 DEF ExpiryCounted
<1>6. LateQueued'
  BY <1>4 DEF LateQueued
<1>7. LateKnown'
  BY <1>2 DEF LateKnown
<1> QED BY <1>5, <1>6, <1>7 DEF LateInv

(* Every paid callback says late_payment exactly if the payment had        *)
(* expired before (LateFlagTruthful), whatever the settling actor read.    *)
THEOREM LateFlagsAreTruthful == Spec => []LateFlagTruthful
<1>1. Init => LateInv
  BY DEF Init, LateInv, ExpiryCounted, LateQueued, LateKnown, Idle, Events
<1>2. LateInv => LateFlagTruthful
  BY DEF LateInv, LateQueued, LateFlagTruthful
<1> QED BY <1>1, <1>2, LateStep, TypeCorrect, PTL DEF Spec

-----------------------------------------------------------------------------
(* The account of callbacks.                                               *)

\* Each change of status is won once.
WonOnce == \A p \in Payment :
    /\ won[p]["paid"] = IF status[p] \in Settled THEN 1 ELSE 0
    /\ won[p]["refunded"] = IF status[p] = "refunded" THEN 1 ELSE 0
    /\ won[p]["expired"] <= 1
    /\ status[p] \in {"absent", "pending"} => won[p]["expired"] = 0

(* The wins follow the status.                                             *)
LEMMA WonOnceStep == TypeOK /\ WonOnce /\ [Next]_vars => WonOnce'
<1> SUFFICES ASSUME TypeOK, WonOnce, [Next]_vars, NEW p \in Payment
             PROVE  /\ won'[p]["paid"] = IF status'[p] \in Settled THEN 1 ELSE 0
                    /\ won'[p]["refunded"] = IF status'[p] = "refunded" THEN 1 ELSE 0
                    /\ won'[p]["expired"] <= 1
                    /\ status'[p] \in {"absent", "pending"} => won'[p]["expired"] = 0
  BY DEF WonOnce
<1>1. won[p] \in [Events -> Nat] /\ {"paid", "expired", "refunded"} = Events
  BY DEF TypeOK, Events
<1>2. /\ won[p]["paid"] = IF status[p] \in Settled THEN 1 ELSE 0
      /\ won[p]["refunded"] = IF status[p] = "refunded" THEN 1 ELSE 0
      /\ won[p]["expired"] <= 1
      /\ status[p] \in {"absent", "pending"} => won[p]["expired"] = 0
  BY DEF WonOnce
<1>3. Changes(p)
  BY StatusChanges
<1>4. CASE status'[p] = status[p] /\ won'[p] = won[p]
  BY <1>2, <1>4
<1>5. CASE status[p] = "absent" /\ status'[p] = "pending" /\ won'[p] = won[p]
  BY <1>2, <1>5 DEF Settled
<1>6. CASE /\ status[p] = "pending" /\ status'[p] = "expired"
           /\ won'[p] = [won[p] EXCEPT !["expired"] = @ + 1]
  <2>1. /\ won'[p]["expired"] = 1 /\ won'[p]["paid"] = won[p]["paid"]
        /\ won'[p]["refunded"] = won[p]["refunded"]
    BY <1>1, <1>2, <1>6
  <2> QED BY <1>2, <1>6, <2>1 DEF Settled
<1>7. CASE /\ status[p] \in {"pending", "expired"} /\ status'[p] = "paid"
           /\ won'[p] = [won[p] EXCEPT !["paid"] = @ + 1]
  <2>1. /\ won'[p]["paid"] = won[p]["paid"] + 1 /\ won'[p]["expired"] = won[p]["expired"]
        /\ won'[p]["refunded"] = won[p]["refunded"]
    BY <1>1, <1>7
  <2> QED BY <1>2, <1>7, <2>1 DEF Settled
<1>8. CASE /\ status[p] = "paid" /\ status'[p] = "refunded"
           /\ won'[p] = [won[p] EXCEPT !["refunded"] = @ + 1]
  <2>1. /\ won'[p]["refunded"] = won[p]["refunded"] + 1 /\ won'[p]["paid"] = won[p]["paid"]
        /\ won'[p]["expired"] = won[p]["expired"]
    BY <1>1, <1>8
  <2> QED BY <1>2, <1>8, <2>1 DEF Settled
<1> QED BY <1>3, <1>4, <1>5, <1>6, <1>7, <1>8 DEF Changes

\* The steps that leave the account of callbacks alone, that win a change,
\* that settle what becomes of its callback.
LeavesAccount ==
    /\ UNCHANGED queued /\ UNCHANGED unsent /\ UNCHANGED lost /\ UNCHANGED won
    /\ \A a \in Actor :
          task'[a] = task[a] \/ (task[a].step # "notify" /\ task'[a].step # "notify")
WinsBy(a) == \E t \in Announcing :
    /\ task[a].step # "notify"
    /\ Become(a, t)
    /\ won' = Count(won, t.pay, t.event)
    /\ UNCHANGED <<queued, unsent, lost>>
SettlesBy(a) ==
    /\ task[a].step = "notify"
    /\ Done(a)
    /\ UNCHANGED won
    /\ \/ queued' = Count(queued, task[a].pay, task[a].event) /\ UNCHANGED <<unsent, lost>>
       \/ unsent' = Count(unsent, task[a].pay, task[a].event) /\ UNCHANGED <<queued, lost>>
       \/ lost' = Count(lost, task[a].pay, task[a].event) /\ UNCHANGED <<queued, unsent>>

(* Every step but a crash is one of these.                                 *)
LEMMA AccountSteps ==
    ASSUME TypeOK, [Next]_vars
    PROVE  LeavesAccount \/ Crash \/ \E a \in Actor : WinsBy(a) \/ SettlesBy(a)
<1>1. ASSUME UNCHANGED <<queued, unsent, lost, won>>, UNCHANGED task PROVE LeavesAccount
  BY <1>1 DEF LeavesAccount
<1>2. ASSUME NEW a \in Actor, NEW t, Become(a, t), task[a].step # "notify", t.step # "notify",
             UNCHANGED <<queued, unsent, lost, won>>
      PROVE  LeavesAccount
  BY <1>2 DEF Become, TypeOK, LeavesAccount
<1>3. ASSUME NEW a \in Actor, Goto(a, "settle") \/ Goto(a, "record") \/ Goto(a, "expire"),
             task[a].step = "check", UNCHANGED <<queued, unsent, lost, won>>
      PROVE  LeavesAccount
  <2>1. PICK step \in {"settle", "record", "expire"} :
               Become(a, [task[a] EXCEPT !.step = step, !.past = FALSE])
    BY <1>3 DEF Goto
  <2>2. task[a] \in Settling
    BY <1>3, StepKind
  <2>3. [task[a] EXCEPT !.step = step, !.past = FALSE].step # "notify"
    BY <2>2 DEF Settling
  <2> QED BY <1>2, <1>3, <2>1, <2>3
<1>4. ASSUME NEW a \in Actor, Done(a), task[a].step # "notify",
             UNCHANGED <<queued, unsent, lost, won>>
      PROVE  LeavesAccount
  BY <1>2, <1>4 DEF Done, Idle
<1>5. ASSUME NEW a \in Actor, NEW p \in Payment, NEW said \in Said, NEW event \in Events,
             NEW late \in BOOLEAN, Announce(a, p, said, event, late), task[a].step # "notify",
             won' = Count(won, p, event), UNCHANGED <<queued, unsent, lost>>
      PROVE  WinsBy(a)
  <2> DEFINE t == [step |-> "notify", pay |-> p, said |-> said, past |-> FALSE,
                   event |-> event, late |-> late]
  <2>1. t \in Announcing /\ t.pay = p /\ t.event = event
    BY DEF Announcing
  <2>2. Become(a, t)
    BY <1>5 DEF Announce
  <2> HIDE DEF t
  <2> QED BY <1>5, <2>1, <2>2 DEF WinsBy
<1>6. ASSUME NEW a \in Actor, NextItem(a) PROVE LeavesAccount
  <2>1. UNCHANGED <<queued, unsent, lost, won>> /\ task[a].step # "notify"
    BY <1>6 DEF NextItem, callbacks, Idle
  <2>2. PICK t : Become(a, t) /\ t.step # "notify"
    <3>1. PICK row \in todo[a] :
          Become(a,
                CASE a = Expirer ->
                        [Idle EXCEPT !.step = "expire", !.pay = row.pay]
                  [] a # Expirer /\ row.seen \in {"pending", "expired"} ->
                        [Idle EXCEPT !.step = "check", !.pay = row.pay,
                                     !.past = row.seen = "pending" /\ pastExpiry(row.pay)]
                  [] OTHER -> Idle)
      BY <1>6 DEF NextItem
    <3>2. [Idle EXCEPT !.step = "expire", !.pay = row.pay].step # "notify"
      BY DEF Idle
    <3>3. [Idle EXCEPT !.step = "check", !.pay = row.pay,
                       !.past = row.seen = "pending" /\ pastExpiry(row.pay)].step # "notify"
      BY DEF Idle
    <3>4. Idle.step # "notify"
      BY DEF Idle
    <3>5. CASE a = Expirer
      BY <3>1, <3>2, <3>5
    <3>6. CASE a # Expirer /\ row.seen \in {"pending", "expired"}
      BY <3>1, <3>3, <3>6
    <3>7. CASE a # Expirer /\ row.seen \notin {"pending", "expired"}
      BY <3>1, <3>4, <3>7
    <3> QED BY <3>5, <3>6, <3>7
  <2> QED BY <1>2, <2>1, <2>2
<1>7. ASSUME NEW a \in Actor, MarkPaid(a) PROVE WinsBy(a)
  <2>1. task[a] \in Settling /\ task[a].step # "notify"
    BY <1>7, StepKind DEF MarkPaid
  <2>2. task[a].pay \in Payment /\ task[a].said \in Said
    BY <2>1 DEF Settling
  <2> QED BY <1>5, <1>7, <2>1, <2>2 DEF MarkPaid, Events
<1>8. ASSUME NEW a \in Actor, UpdateStatus(a) PROVE WinsBy(a)
  <2>1. task[a] \in Settling /\ task[a].step # "notify"
    BY <1>8, StepKind DEF UpdateStatus
  <2>2. task[a].pay \in Payment
    BY <2>1 DEF Settling
  <2> QED BY <1>5, <1>8, <2>1, <2>2 DEF UpdateStatus, Events, Said
<1>9. ASSUME NEW a \in Actor, Notify(a) \/ NotifySkipped(a) \/ CommitReplyLost(a)
      PROVE  SettlesBy(a)
  BY <1>9 DEF Notify, NotifySkipped, CommitReplyLost, SettlesBy
<1>10. ASSUME NEW a \in Actor, Work(a)
       PROVE  LeavesAccount \/ WinsBy(a) \/ SettlesBy(a)
  <2>1. CASE CheckConfirmed(a) \/ CheckMismatch(a) \/ CheckNotConfirmed(a) \/ CheckWebhookMismatch(a)
    BY <1>3, <1>4, <2>1 DEF CheckConfirmed, CheckMismatch, CheckNotConfirmed,
       CheckWebhookMismatch, callbacks
  <2>2. CASE RecordMismatch(a) \/ LostRace(a) \/ WriteFails(a)
    BY <1>4, <2>2 DEF RecordMismatch, LostRace, WriteFails, callbacks
  <2> QED BY <1>6, <1>7, <1>8, <1>9, <1>10, <2>1, <2>2 DEF Work
<1>11. ASSUME NEW h \in Handler, Request(h) PROVE LeavesAccount \/ WinsBy(h)
  <2>0. h \in Actor
    BY DEF Actor
  <2>1. ASSUME NEW p \in Payment, NEW said, ReceiveWebhook(h, p, said) PROVE LeavesAccount
    <3>1. [Idle EXCEPT !.step = "check", !.pay = p, !.said = said].step # "notify"
      BY DEF Idle
    <3>2. task[h].step # "notify" /\ UNCHANGED <<queued, unsent, lost, won>>
      BY <2>1 DEF ReceiveWebhook, Free, Idle, callbacks
    <3> QED BY <1>2, <2>0, <2>1, <3>1, <3>2 DEF ReceiveWebhook
  <2>2. ASSUME NEW p \in Payment, NEW amount \in 1 .. net[p], RefundWithRemaining(h, p, amount)
        PROVE  LeavesAccount \/ WinsBy(h)
    <3>1. task[h].step # "notify" /\ UNCHANGED <<queued, unsent, lost>>
      BY <2>2 DEF RefundWithRemaining, Free, Idle
    <3>2. CASE amount = net[p] - refunded[p]
      BY <1>5, <2>0, <2>2, <3>1, <3>2 DEF RefundWithRemaining, Events, Said
    <3>3. CASE amount # net[p] - refunded[p]
      BY <1>1, <2>2, <3>1, <3>3 DEF RefundWithRemaining
    <3> QED BY <3>2, <3>3
  <2>3. ASSUME NEW p \in Payment, DuplicateWebhook(h, p) \/ ReconcilePayment(h, p)
        PROVE  LeavesAccount
    BY <1>1, <2>3 DEF DuplicateWebhook, ReconcilePayment, callbacks
  <2>4. ASSUME NEW limit, ReconcilePendingPayments(h, limit) PROVE LeavesAccount
    BY <1>1, <2>4 DEF ReconcilePendingPayments, callbacks
  <2> QED BY <1>11, <2>1, <2>2, <2>3, <2>4 DEF Request, HandleProviderWebhook,
          CheckReconciliationPayment, CheckReconciliationBatch, RefundPayment
<1>12. CASE \/ Outside \/ ReconcileRecentPayments \/ ExpirePayments \/ Restart \/ UNCHANGED vars
  BY <1>1, <1>12 DEF Outside, CreatePayment, CustomerPays, ProviderCorrects, Tick,
     ReconcileRecentPayments, ExpirePayments, Restart, vars, callbacks
<1> QED BY <1>10, <1>11, <1>12 DEF Next, Actor

(* Counting adds one, at one place.                                        *)
LEMMA CountAdds ==
    ASSUME NEW f \in [Payment -> [Events -> Nat]], NEW p \in Payment, NEW e \in Events,
           NEW q \in Payment, NEW g \in Events
    PROVE  Count(f, p, e)[q][g] = IF q = p /\ g = e THEN f[q][g] + 1 ELSE f[q][g]
<1>1. f[p] \in [Events -> Nat]
  OBVIOUS
<1>2. CASE q = p
  BY <1>1, <1>2 DEF Count
<1>3. CASE q # p
  BY <1>3 DEF Count
<1> QED BY <1>2, <1>3

(* One announcer more.                                                     *)
LEMMA OneMore ==
    ASSUME TypeOK, NEW a \in Actor, task[a].step # "notify",
           NEW t \in Announcing, Become(a, t), NEW p \in Payment, NEW e \in Events
    PROVE  Cardinality(Notifying(p, e))' =
              IF p = t.pay /\ e = t.event THEN Cardinality(Notifying(p, e)) + 1
                                          ELSE Cardinality(Notifying(p, e))
<1>1. \A b \in Actor : task'[b] = IF b = a THEN t ELSE task[b]
  BY DEF Become, TypeOK
<1>2. t.step = "notify"
  BY DEF Announcing
<1>3. a \notin Notifying(p, e)
  BY DEF Notifying
<1>4. CASE p = t.pay /\ e = t.event
  <2>1. Notifying(p, e)' = Notifying(p, e) \union {a}
    BY <1>1, <1>2, <1>4 DEF Notifying
  <2> QED BY <1>3, <1>4, <2>1, NotifyingFinite, FS_AddElement, ZenonT(40)
<1>5. CASE ~(p = t.pay /\ e = t.event)
  <2>1. Notifying(p, e)' = Notifying(p, e)
    BY <1>1, <1>3, <1>5 DEF Notifying
  <2> QED BY <1>5, <2>1
<1> QED BY <1>4, <1>5

(* One announcer less.                                                     *)
LEMMA OneLess ==
    ASSUME TypeOK, NEW a \in Actor, task[a].step = "notify", Done(a),
           NEW p \in Payment, NEW e \in Events
    PROVE  Cardinality(Notifying(p, e)) =
              IF p = task[a].pay /\ e = task[a].event THEN Cardinality(Notifying(p, e))' + 1
                                                      ELSE Cardinality(Notifying(p, e))'
<1>1. \A b \in Actor : task'[b] = IF b = a THEN Idle ELSE task[b]
  BY DEF Done, Become, TypeOK
<1>2. Idle.step # "notify"
  BY DEF Idle
<1>3. CASE p = task[a].pay /\ e = task[a].event
  <2>1. a \in Notifying(p, e) /\ Notifying(p, e)' = Notifying(p, e) \ {a}
    BY <1>1, <1>2, <1>3 DEF Notifying
  <2>2. Cardinality(Notifying(p, e)) \in Nat /\ IsFiniteSet(Notifying(p, e))
    BY NotifyingFinite
  <2>3. Cardinality(Notifying(p, e) \ {a}) = Cardinality(Notifying(p, e)) - 1
    BY <2>1, <2>2, FS_RemoveElement
  <2> QED BY <1>3, <2>1, <2>2, <2>3
<1>4. CASE ~(p = task[a].pay /\ e = task[a].event)
  <2>1. Notifying(p, e)' = Notifying(p, e)
    BY <1>1, <1>2, <1>4 DEF Notifying
  <2> QED BY <1>4, <2>1
<1> QED BY <1>3, <1>4

AccountInv == WonOnce /\ CallbackAccounted

(* No step loses a callback without entering it.                           *)
LEMMA AccountStep == TypeOK /\ AccountInv /\ [Next]_vars => AccountInv'
<1> SUFFICES ASSUME TypeOK, AccountInv, [Next]_vars PROVE AccountInv'
  OBVIOUS
<1>1. WonOnce' /\ TypeOK'
  BY WonOnceStep, TypeStep DEF AccountInv
<1>2. ASSUME NEW p \in Payment, NEW e \in Events
      PROVE  won'[p][e] = queued'[p][e] + unsent'[p][e] + lost'[p][e]
                          + Cardinality(Notifying(p, e))'
  <2>1. won[p][e] = queued[p][e] + unsent[p][e] + lost[p][e] + Cardinality(Notifying(p, e))
    BY DEF AccountInv, CallbackAccounted
  <2>2. /\ won[p][e] \in Nat /\ queued[p][e] \in Nat /\ unsent[p][e] \in Nat
        /\ lost[p][e] \in Nat /\ Cardinality(Notifying(p, e)) \in Nat
    BY NotifyingFinite DEF TypeOK
  <2>3. CASE LeavesAccount
    <3>1. Notifying(p, e)' = Notifying(p, e)
      BY <2>3 DEF LeavesAccount, Notifying
    <3> QED BY <2>1, <2>3, <3>1 DEF LeavesAccount
  <2>4. ASSUME NEW a \in Actor, WinsBy(a)
        PROVE  won'[p][e] = queued'[p][e] + unsent'[p][e] + lost'[p][e]
                            + Cardinality(Notifying(p, e))'
    <3>1. PICK t \in Announcing : /\ task[a].step # "notify" /\ Become(a, t)
                                  /\ won' = Count(won, t.pay, t.event)
                                  /\ UNCHANGED <<queued, unsent, lost>>
      BY <2>4 DEF WinsBy
    <3>2. t.pay \in Payment /\ t.event \in Events
      BY DEF Announcing
    <3>3. won'[p][e] = IF p = t.pay /\ e = t.event THEN won[p][e] + 1 ELSE won[p][e]
      <4>1. won \in [Payment -> [Events -> Nat]]
        BY DEF TypeOK
      <4>2. Count(won, t.pay, t.event)[p][e] =
               IF p = t.pay /\ e = t.event THEN won[p][e] + 1 ELSE won[p][e]
        BY <3>2, <4>1, CountAdds
      <4> QED BY <3>1, <4>2
    <3>4. Cardinality(Notifying(p, e))' =
              IF p = t.pay /\ e = t.event THEN Cardinality(Notifying(p, e)) + 1
                                          ELSE Cardinality(Notifying(p, e))
      BY <3>1, OneMore
    <3> QED BY <2>1, <2>2, <3>1, <3>3, <3>4
  <2>5. ASSUME NEW a \in Actor, SettlesBy(a)
        PROVE  won'[p][e] = queued'[p][e] + unsent'[p][e] + lost'[p][e]
                            + Cardinality(Notifying(p, e))'
    <3> DEFINE Here == p = task[a].pay /\ e = task[a].event
               n == Cardinality(Notifying(p, e))'
    <3>1. task[a].pay \in Payment /\ task[a].event \in Events
      BY <2>5, StepKind DEF SettlesBy, Announcing
    <3>2. Cardinality(Notifying(p, e)) = IF Here THEN n + 1 ELSE n
      BY <2>5, OneLess DEF SettlesBy
    <3>3. \A f \in [Payment -> [Events -> Nat]] :
             Count(f, task[a].pay, task[a].event)[p][e] = IF Here THEN f[p][e] + 1 ELSE f[p][e]
      BY <3>1, CountAdds
    <3>4. /\ won'[p][e] = won[p][e]
          /\ \/ /\ queued'[p][e] = IF Here THEN queued[p][e] + 1 ELSE queued[p][e]
                /\ unsent'[p][e] = unsent[p][e] /\ lost'[p][e] = lost[p][e]
             \/ /\ unsent'[p][e] = IF Here THEN unsent[p][e] + 1 ELSE unsent[p][e]
                /\ queued'[p][e] = queued[p][e] /\ lost'[p][e] = lost[p][e]
             \/ /\ lost'[p][e] = IF Here THEN lost[p][e] + 1 ELSE lost[p][e]
                /\ queued'[p][e] = queued[p][e] /\ unsent'[p][e] = unsent[p][e]
      BY <2>5, <3>3 DEF SettlesBy, TypeOK
    <3>5. n \in Nat
      <4>1. Notifying(p, e)' \subseteq Actor
        BY DEF Notifying
      <4>2. Cardinality(Notifying(p, e)') \in Nat
        BY <4>1, ActorsFinite, FS_Subset, FS_CardinalityType
      <4> QED BY <4>2
    <3> HIDE DEF Here, n
    <3>6. won'[p][e] = queued'[p][e] + unsent'[p][e] + lost'[p][e] + n
      BY <2>1, <2>2, <3>2, <3>4, <3>5
    <3> QED BY <3>6 DEF n
  <2>6. CASE Crash
    <3>1. Notifying(p, e)' = {}
      BY <2>6 DEF Crash, Notifying, Idle
    <3>2. Cardinality(Notifying(p, e))' = 0
      BY <3>1, FS_EmptySet
    <3>3. /\ won'[p][e] = won[p][e] /\ queued'[p][e] = queued[p][e]
          /\ unsent'[p][e] = unsent[p][e]
          /\ lost'[p][e] = lost[p][e] + Cardinality(Notifying(p, e))
      BY <2>6 DEF Crash
    <3> QED BY <2>1, <2>2, <3>2, <3>3
  <2> QED BY <2>3, <2>4, <2>5, <2>6, AccountSteps
<1>3. \A p \in Payment, e \in Events : won'[p][e] <= 1
  BY <1>1 DEF WonOnce, Events
<1> QED BY <1>1, <1>2, <1>3 DEF AccountInv, CallbackAccounted

(* Every change of status is won once, and its callback is queued, dropped *)
(* with a line in the log, lost, or still its winner's to queue            *)
(* (CallbackAccounted), for any number of handlers and payments.           *)
THEOREM CallbacksAccountedFor == Spec => []CallbackAccounted
<1>1. Init => AccountInv
  <2> SUFFICES ASSUME Init PROVE AccountInv
    OBVIOUS
  <2>1. \A p \in Payment, e \in Events : Notifying(p, e) = {}
    BY DEF Init, Notifying, Idle
  <2>2. \A p \in Payment, e \in Events : Cardinality(Notifying(p, e)) = 0
    BY <2>1, FS_EmptySet
  <2> QED BY <2>2 DEF Init, AccountInv, WonOnce, CallbackAccounted, Settled, Events
<1>2. AccountInv => CallbackAccounted
  BY DEF AccountInv
<1> QED BY <1>1, <1>2, AccountStep, TypeCorrect, PTL DEF Spec

-----------------------------------------------------------------------------
(* The abstract life of a payment.                                         *)

\* A payment that is not stored has no terms, and nobody has paid it.
StoredInv == \A p \in Payment :
    status[p] = "absent" => terms[p] = Unstored /\ prov[p] = "unpaid"

(* Terms are set with the status, and only a stored payment is paid.       *)
LEMMA StoredStep == TypeOK /\ StoredInv /\ [Next]_vars => StoredInv'
<1> SUFFICES ASSUME TypeOK, StoredInv, [Next]_vars, NEW p \in Payment, status'[p] = "absent"
             PROVE  terms'[p] = Unstored /\ prov'[p] = "unpaid"
  BY DEF StoredInv
<1>1. status[p] = "absent"
  <2>1. Changes(p)
    BY StatusChanges
  <2> QED BY <2>1 DEF Changes, TypeOK
<1>2. terms[p] = Unstored /\ prov[p] = "unpaid"
  BY <1>1 DEF StoredInv
<1>3. terms'[p] = terms[p]
  <2>1. CASE UNCHANGED db
    BY <2>1 DEF db
  <2>2. ASSUME NEW q \in Payment, NEW t \in Requests, CreatePayment(q, t)
        PROVE  terms'[p] = terms[p]
    <3>1. p # q
      BY <2>2 DEF CreatePayment, TypeOK
    <3> QED BY <2>2, <3>1 DEF CreatePayment, TypeOK
  <2>3. CASE \/ \E a \in Actor : MarkPaid(a) \/ UpdateStatus(a)
             \/ \E h \in Handler, q \in Payment : \E amount \in 1 .. net[q] :
                    RefundWithRemaining(h, q, amount)
    BY <2>3 DEF MarkPaid, UpdateStatus, RefundWithRemaining
  <2> QED BY <2>1, <2>2, <2>3, DatabaseSteps
<1>4. prov'[p] = prov[p]
  <2>1. ~Production(p)
    BY <1>2 DEF Production, Unstored
  <2>2. ASSUME NEW a \in Actor, Work(a) PROVE UNCHANGED prov
    BY <2>2 DEF Work, NextItem, CheckConfirmed, CheckWebhookMismatch, CheckMismatch,
       CheckNotConfirmed, RecordMismatch, MarkPaid, UpdateStatus, LostRace, WriteFails, Notify,
       NotifySkipped, CommitReplyLost
  <2>3. ASSUME NEW h \in Handler, Request(h) PROVE UNCHANGED prov
    BY <2>3 DEF Request, HandleProviderWebhook, CheckReconciliationPayment,
       CheckReconciliationBatch, RefundPayment, ReceiveWebhook, DuplicateWebhook,
       ReconcilePayment, ReconcilePendingPayments, RefundWithRemaining
  <2>4. ASSUME NEW q \in Payment, NEW report, CustomerPays(q, report) PROVE prov'[p] = prov[p]
    BY <2>1, <2>4 DEF CustomerPays, TypeOK
  <2>5. ASSUME NEW q \in Payment, ProviderCorrects(q) PROVE prov'[p] = prov[p]
    BY <1>2, <2>5 DEF ProviderCorrects, TypeOK
  <2>6. CASE \/ \E q \in Payment, t \in Requests : CreatePayment(q, t)
             \/ Tick \/ ReconcileRecentPayments \/ ExpirePayments \/ Crash \/ Restart
             \/ UNCHANGED vars
    BY <2>6 DEF CreatePayment, Tick, ReconcileRecentPayments, ExpirePayments, Crash, Restart, vars
  <2> QED BY <2>2, <2>3, <2>4, <2>5, <2>6 DEF Next, Outside
<1> QED BY <1>2, <1>3, <1>4

LifeInv == TypeOK /\ LedgerInv /\ HeardInv /\ StoredInv

(* What the provider confirms changes by one payment, which is stored.     *)
LEMMA CollectSteps ==
    ASSUME LifeInv, [Next]_vars
    PROVE  LET S == {p \in Payment : Confirmed(p)}
           IN \/ S' = S
              \/ \E p \in Payment : /\ status[p] # "absent" /\ S' = S \union {p}
                                    /\ UNCHANGED db
<1> DEFINE S == {p \in Payment : Confirmed(p)}
<1> SUFFICES S' = S \/ \E p \in Payment : /\ status[p] # "absent" /\ S' = S \union {p}
                                          /\ UNCHANGED db
  OBVIOUS
<1>1. CASE UNCHANGED prov
  BY <1>1 DEF Confirmed
<1>2. ASSUME NEW a \in Actor, Work(a) PROVE UNCHANGED prov
  BY <1>2 DEF Work, NextItem, CheckConfirmed, CheckWebhookMismatch, CheckMismatch,
     CheckNotConfirmed, RecordMismatch, MarkPaid, UpdateStatus, LostRace, WriteFails, Notify,
     NotifySkipped, CommitReplyLost
<1>3. ASSUME NEW h \in Handler, Request(h) PROVE UNCHANGED prov
  BY <1>3 DEF Request, HandleProviderWebhook, CheckReconciliationPayment,
     CheckReconciliationBatch, RefundPayment, ReceiveWebhook, DuplicateWebhook,
     ReconcilePayment, ReconcilePendingPayments, RefundWithRemaining
<1>4. ASSUME NEW q \in Payment, NEW report \in {"paid", "other"}, CustomerPays(q, report)
      PROVE  S' = S \/ (status[q] # "absent" /\ S' = S \union {q} /\ UNCHANGED db)
  <2>1. prov[q] = "unpaid" /\ prov' = [prov EXCEPT ![q] = report] /\ UNCHANGED db /\ Production(q)
    BY <1>4 DEF CustomerPays
  <2>2. status[q] # "absent"
    BY <2>1 DEF LifeInv, StoredInv, Production, Unstored
  <2>3. CASE report = "paid"
    BY <2>1, <2>2, <2>3 DEF LifeInv, TypeOK, Confirmed
  <2>4. CASE report = "other"
    BY <2>1, <2>4 DEF LifeInv, TypeOK, Confirmed
  <2> QED BY <2>3, <2>4
<1>5. ASSUME NEW q \in Payment, ProviderCorrects(q)
      PROVE  status[q] # "absent" /\ S' = S \union {q} /\ UNCHANGED db
  <2>1. prov[q] = "other" /\ prov' = [prov EXCEPT ![q] = "corrected"] /\ UNCHANGED db
    BY <1>5 DEF ProviderCorrects
  <2>2. status[q] # "absent"
    BY <2>1 DEF LifeInv, StoredInv
  <2> QED BY <2>1, <2>2 DEF LifeInv, TypeOK, Confirmed
<1>6. CASE \/ \E q \in Payment, t \in Requests : CreatePayment(q, t)
           \/ Tick \/ ReconcileRecentPayments \/ ExpirePayments \/ Crash \/ Restart
           \/ UNCHANGED vars
  BY <1>1, <1>6 DEF CreatePayment, Tick, ReconcileRecentPayments, ExpirePayments, Crash, Restart,
     vars
<1> QED BY <1>1, <1>2, <1>3, <1>4, <1>5, <1>6 DEF Next, Outside

(* A step that writes the payment's rows leaves the provider's word alone. *)
LEMMA WritersAreSilent ==
    /\ \A p, t : CreatePayment(p, t) => UNCHANGED prov
    /\ \A a : MarkPaid(a) \/ UpdateStatus(a) => UNCHANGED prov
    /\ \A h, p, amount : RefundWithRemaining(h, p, amount) => UNCHANGED prov
BY DEF CreatePayment, MarkPaid, UpdateStatus, RefundWithRemaining

(* Every step is a step of a payment's life, or none.                      *)
LEMMA LifeStep == LifeInv /\ [Next]_vars => [Lifecycle!Next]_(Lifecycle!vars)
<1> SUFFICES ASSUME LifeInv, [Next]_vars PROVE [Lifecycle!Next]_(Lifecycle!vars)
  OBVIOUS
<1> DEFINE settled == {p \in Payment : Confirmed(p)}
           share == [p \in Payment |-> Share(p)]
           claim == [p \in Payment |-> credit[p] - refunded[p]]
<1>0. TypeOK /\ LedgerInv /\ HeardInv /\ TypeOK'
  BY TypeStep DEF LifeInv
<1>1. CASE UNCHANGED db
  <2>1. UNCHANGED status /\ UNCHANGED share /\ UNCHANGED claim
    BY <1>1 DEF db, Share, Production
  <2>2. CASE settled' = settled
    BY <2>1, <2>2 DEF Lifecycle!vars
  <2>3. ASSUME NEW p \in Payment, status[p] # "absent", settled' = settled \union {p}
        PROVE  Lifecycle!Collect(p)
    BY <2>1, <2>3 DEF Lifecycle!Collect
  <2> QED BY <2>2, <2>3, CollectSteps DEF Lifecycle!Next
<1>2. ASSUME NEW p \in Payment, NEW t \in Requests, CreatePayment(p, t)
      PROVE  Lifecycle!Create(p)
  <2>1. /\ status[p] = "absent" /\ status' = [status EXCEPT ![p] = "pending"]
        /\ terms' = [terms EXCEPT ![p] = t]
        /\ UNCHANGED credit /\ UNCHANGED refunded /\ UNCHANGED prov
    BY <1>2 DEF CreatePayment
  <2>2. UNCHANGED settled /\ UNCHANGED claim
    BY <2>1 DEF Confirmed
  <2>3. share' \in [Payment -> Nat]
    <3>1. \A q \in Payment : Share(q)' \in Nat
      BY <1>0, NetOfType DEF Share, TypeOK
    <3> QED BY <3>1
  <2>4. \A q \in Payment \ {p} : share'[q] = share[q]
    BY <1>0, <2>1 DEF Share, Production, TypeOK
  <2> QED BY <2>1, <2>2, <2>3, <2>4 DEF Lifecycle!Create
<1>3. ASSUME NEW a \in Actor, MarkPaid(a) PROVE Lifecycle!Next
  <2> DEFINE p == task[a].pay
  <2>1. p \in Payment /\ Confirmed(p)
    BY <1>0, <1>3, WriterWorksOnPayment DEF MarkPaid, HeardInv
  <2>2. /\ status[p] \in {"pending", "expired"} /\ status' = [status EXCEPT ![p] = "paid"]
        /\ UNCHANGED terms /\ UNCHANGED refunded /\ UNCHANGED prov
    BY <1>3 DEF MarkPaid, AllowedSourceStatuses
  <2>3. UNCHANGED settled /\ UNCHANGED share
    BY <2>2 DEF Confirmed, Share, Production
  <2>4. credit[p] = 0 /\ refunded[p] = 0
    <3>1. credit[p] = 0 /\ refunded[p] <= credit[p] /\ refunded[p] \in Nat
      BY <1>0, <2>1, <2>2 DEF LedgerInv, LedgerBacksPayment, TypeOK
    <3> QED BY <3>1
  <2>5. /\ credit'[p] = Share(p)
        /\ \A q \in Payment \ {p} : credit'[q] = credit[q]
    <3> DEFINE n == NetOf(terms[p])
    <3>1. n \in Nat
      BY <1>0, <2>1, NetOfType DEF TypeOK
    <3>2. credit' = IF Production(p) /\ n > 0 THEN [credit EXCEPT ![p] = credit[p] + n] ELSE credit
      BY <1>3 DEF MarkPaid
    <3>3. Share(p) = IF Production(p) THEN n ELSE 0
      BY DEF Share
    <3> HIDE DEF n, p
    <3> QED BY <1>0, <2>1, <2>4, <3>1, <3>2, <3>3 DEF TypeOK
  <2>6. claim' = [claim EXCEPT ![p] = share[p]]
    <3>1. Share(p) \in Nat
      BY <1>0, <2>1, NetOfType DEF Share, TypeOK
    <3>2. claim'[p] = share[p]
      BY <2>1, <2>2, <2>4, <2>5, <3>1
    <3>3. \A q \in Payment \ {p} : claim'[q] = claim[q]
      BY <2>2, <2>5
    <3> QED BY <2>1, <3>2, <3>3
  <2>7. p \in settled
    BY <2>1
  <2>8. Lifecycle!Settle(p)
    BY <2>1, <2>2, <2>3, <2>6, <2>7 DEF Lifecycle!Settle, Lifecycle!AllowedSources
  <2> QED BY <2>1, <2>8 DEF Lifecycle!Next, Lifecycle!Settle
<1>4. ASSUME NEW a \in Actor, UpdateStatus(a) PROVE Lifecycle!Expire(task[a].pay)
  <2>1. /\ status[task[a].pay] = "pending"
        /\ status' = [status EXCEPT ![task[a].pay] = "expired"]
        /\ UNCHANGED terms /\ UNCHANGED credit /\ UNCHANGED refunded /\ UNCHANGED prov
    BY <1>4 DEF UpdateStatus, AllowedSourceStatuses
  <2>2. UNCHANGED settled /\ UNCHANGED share /\ UNCHANGED claim
    BY <2>1 DEF Confirmed, Share, Production
  <2> QED BY <2>1, <2>2 DEF Lifecycle!Expire, Lifecycle!AllowedSources
<1>5. ASSUME NEW h \in Handler, NEW p \in Payment, NEW amount \in 1 .. net[p],
             RefundWithRemaining(h, p, amount)
      PROVE  Lifecycle!Refund(p)
  <2>1. /\ status[p] = "paid" /\ Production(p) /\ amount <= net[p] - refunded[p]
        /\ refunded' = [refunded EXCEPT ![p] = refunded[p] + amount]
        /\ status' = IF amount = net[p] - refunded[p]
                     THEN [status EXCEPT ![p] = "refunded"] ELSE status
        /\ UNCHANGED terms /\ UNCHANGED credit /\ UNCHANGED prov
    BY <1>5 DEF RefundWithRemaining
  <2>2. UNCHANGED settled /\ UNCHANGED share
    BY <2>1 DEF Confirmed, Share, Production
  <2>3. /\ credit[p] = net[p] /\ credit[p] \in Nat /\ refunded[p] \in Nat /\ amount \in Nat
        /\ amount > 0
    BY <1>0, <2>1 DEF LedgerInv, LedgerBacksPayment, Share, TypeOK
  <2>4. claim[p] = net[p] - refunded[p] /\ amount \in 1 .. claim[p]
    BY <2>1, <2>3
  <2>5. claim' = [claim EXCEPT ![p] = @ - amount]
    <3>1. claim'[p] = claim[p] - amount
      BY <1>0, <2>1, <2>3 DEF TypeOK
    <3>2. \A q \in Payment \ {p} : claim'[q] = claim[q]
      BY <1>0, <2>1 DEF TypeOK
    <3> QED BY <3>1, <3>2
  <2> HIDE DEF claim, share, settled
  <2>6. \E n \in 1 .. claim[p] :
          /\ claim' = [claim EXCEPT ![p] = @ - n]
          /\ status' = IF n = claim[p] THEN [status EXCEPT ![p] = "refunded"] ELSE status
    BY <2>1, <2>4, <2>5
  <2> USE DEF claim, share, settled
  <2> QED BY <2>1, <2>2, <2>6 DEF Lifecycle!Refund
<1>6. ASSUME NEW a \in Actor, UpdateStatus(a) PROVE task[a].pay \in Payment
  BY <1>0, <1>6, WriterWorksOnPayment DEF UpdateStatus
<1>7. ASSUME NEW p \in Payment,
             Lifecycle!Create(p) \/ Lifecycle!Expire(p) \/ Lifecycle!Refund(p)
      PROVE  Lifecycle!Next
  BY <1>7 DEF Lifecycle!Next
<1>8. CASE \E p \in Payment, t \in Requests : CreatePayment(p, t)
  BY <1>2, <1>7, <1>8
<1>9. CASE \E a \in Actor : MarkPaid(a) \/ UpdateStatus(a)
  <2>1. ASSUME NEW a \in Actor, UpdateStatus(a) PROVE Lifecycle!Next
    <3>1. task[a].pay \in Payment /\ Lifecycle!Expire(task[a].pay)
      BY <1>4, <1>6, <2>1
    <3> QED BY <1>7, <3>1
  <2> QED BY <1>3, <1>9, <2>1
<1>10. CASE \E h \in Handler, p \in Payment : \E amount \in 1 .. net[p] :
               RefundWithRemaining(h, p, amount)
  BY <1>5, <1>7, <1>10
<1> HIDE DEF settled, share, claim
<1> QED BY <1>1, <1>8, <1>9, <1>10, DatabaseSteps

(* With all its snapshots, jobs, webhooks and crashes, settlement is the   *)
(* life of a payment PaymentLifecycle promises (ImplementsLifecycle).      *)
THEOREM LifecycleImplemented == Spec => ImplementsLifecycle
<1>1. Init => Lifecycle!Init
  BY DEF Init, Lifecycle!Init, Confirmed, Share, Production, Unstored
<1>2. Init => HeardInv /\ StoredInv /\ LedgerInv
  BY DEF Init, HeardInv, FlaggedOnlyByProvider, Idle, StoredInv, LedgerInv, LedgerBacksPayment
<1>3. TypeOK /\ LedgerInv /\ [Next]_vars => LedgerInv'
  BY LedgerStep
<1>4. LifeInv <=> TypeOK /\ LedgerInv /\ HeardInv /\ StoredInv
  BY DEF LifeInv
<1> QED BY <1>1, <1>2, <1>3, <1>4, HeardStep, StoredStep, LifeStep, TypeCorrect, PTL
        DEF Spec, ImplementsLifecycle, Lifecycle!Spec
=============================================================================
