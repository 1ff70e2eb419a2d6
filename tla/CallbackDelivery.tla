-------------------------- MODULE CallbackDelivery --------------------------
(***************************************************************************)
(* The queue of merchant callbacks (merchant_callback_deliveries) from the *)
(* insert of a row to its final status.  The deliver-merchant-callbacks    *)
(* job of one process, or of two while a deploy rolls over, requeues what  *)
(* failed, claims a batch and sends it row by row; an admin may resend any *)
(* row meanwhile.  A result is written by row identifier, whatever the row *)
(* says by then, and a row left "sending" for StaleAfter is claimed again. *)
(*                                                                         *)
(* Time is kept as ages and countdowns, so it needs no bound.  A statement *)
(* of the job is taken to be short against one tick (10 s); a send, with   *)
(* the queries around it, takes up to SendTimeout.                         *)
(***************************************************************************)
EXTENDS Integers, FiniteSets, Functions

CONSTANTS
    Callback,      \* the changes NotifyMerchantPaymentEvent queues a row for
    Row,           \* row identifiers, in order of creation (bounds the table)
    Worker,        \* the job, once per process
    Admin,         \* goroutines that serve RetryMerchantCallback
    MaxAttempts,   \* maxCallbackAttempts
    Batch,         \* callbackBatchSize
    StaleAfter,    \* callbackSendingStaleAfter
    Budget,        \* callbackBatchBudget
    SendTimeout,   \* postCommitTimeout, around one send and its record
    RetryDelay     \* the delay of nextRetryAt

ASSUME DeliveryAssumption ==
    /\ Row \subseteq Nat \ {0}
    /\ {MaxAttempts, Batch, StaleAfter, RetryDelay} \subseteq Nat \ {0}
    /\ {Budget, SendTimeout} \subseteq Nat
    /\ Budget + 2 * SendTimeout < RetryDelay
    /\ Worker \intersect Admin = {}

None == 0
NoRetry == -1              \* next_retry_at IS NULL
Actor == Worker \union Admin

VARIABLES
    rows,        \* the table; Row identifiers not yet used are absent
    task,        \* what each actor is in the middle of
    down,        \* the actors whose process is down
    \* history
    notified,    \* callbacks that were queued
    delivered,   \* callbacks the merchant answered with a 2xx
    permanent,   \* callbacks that failed in a way no retry can fix
    dropped,     \* callbacks whose manual retry lost the schedule
    requeued     \* requeued[d]: attempts RequeueDueFailed made out of row d

history == <<notified, delivered, permanent, dropped, requeued>>
vars == <<rows, task, down, history>>

Absent == [status |-> "absent", callback |-> None, attempt |-> 0, age |-> 0, wait |-> NoRetry]
Present == [status : {"pending", "sending", "success", "failed"}, callback : Callback,
            attempt : Nat \ {0}, age : 0 .. StaleAfter, wait : 0 .. RetryDelay \union {NoRetry}]
Fresh(c, attempt, status) ==
    [status |-> status, callback |-> c, attempt |-> attempt, age |-> 0, wait |-> NoRetry]

\* Identifiers are given out in order, so < on Row is ORDER BY created_at.
free == {d \in Row : rows[d] = Absent}
next == {d \in free : \A e \in free : d <= e}

Idle == [step |-> "idle", batch |-> {}, row |-> None, result |-> "none",
         wait |-> NoRetry, elapsed |-> 0, left |-> 0]
Steps == {"claim", "batch", "send", "record", "create"}
Results == {"none", "success", "failed"}
Busy == [step : Steps, batch : SUBSET Row, row : Row \union {None}, result : Results,
         wait : 0 .. RetryDelay \union {NoRetry}, elapsed : 0 .. Budget + 1,
         left : 0 .. SendTimeout]

Become(a, t) == task' = [task EXCEPT ![a] = t]
Done(a) == Become(a, Idle)
Free(a) == task[a] = Idle /\ a \notin down

Init ==
    /\ rows = [d \in Row |-> Absent]
    /\ task = [a \in Actor |-> Idle]
    /\ down = {}
    /\ notified = {}
    /\ delivered = {}
    /\ permanent = {}
    /\ dropped = {}
    /\ requeued = [d \in Row |-> 0]

-----------------------------------------------------------------------------
\* NotifyMerchantPaymentEvent: the winner of a status change queues one row.
Queue(c) ==
    /\ c \notin notified
    /\ \E d \in next : rows' = [rows EXCEPT ![d] = Fresh(c, 1, "pending")]
    /\ notified' = notified \union {c}
    /\ UNCHANGED <<task, delivered, permanent, dropped, requeued, down>>

\* Slips: the last attempt is never made; the delay grows with the attempts.
nextRetryAtOneShort(attempt) == IF attempt >= MaxAttempts - 1 THEN NoRetry ELSE RetryDelay
nextRetryAtGrowing(attempt) == IF attempt >= MaxAttempts THEN NoRetry
                                                         ELSE RetryDelay * (attempt + 1)
\* The time until next_retry_at, or that there is none after the last attempt.
nextRetryAt(attempt) == IF attempt >= MaxAttempts THEN NoRetry ELSE RetryDelay

due == {d \in Row : rows[d].status = "failed" /\ rows[d].wait = 0}

\* Up to Batch due rows, and the identifiers of the attempts made out of them.
dueBatches == {S \in SUBSET due : /\ Cardinality(S) <= Batch
                                  /\ S = due \/ Cardinality(S) = Batch}
newRows(S) == {d \in free : Cardinality({e \in free : e < d}) < Cardinality(S)}

NewAttempt(d) == Fresh(rows[d].callback, rows[d].attempt + 1, "pending")
CountRequeued(S) == requeued' = [d \in Row |-> requeued[d] + IF d \in S THEN 1 ELSE 0]

\* Slip: the schedule of a failed row is left standing.
RequeueWithoutClearing(w) ==
    /\ Free(w)
    /\ Become(w, [Idle EXCEPT !.step = "claim"])
    /\ \E S \in dueBatches : \E source \in Bijection(newRows(S), S) :
          /\ rows' = [d \in Row |->
                IF d \in newRows(S) THEN NewAttempt(source[d]) ELSE rows[d]]
          /\ CountRequeued(S)
    /\ UNCHANGED <<notified, delivered, permanent, dropped, down>>

\* RequeueDueFailed, at the start of a run: one statement for the batch.
RequeueDueFailed(w) ==
    /\ Free(w)
    /\ Become(w, [Idle EXCEPT !.step = "claim"])
    /\ \E S \in dueBatches : \E source \in Bijection(newRows(S), S) :
          /\ rows' = [d \in Row |->
                IF d \in newRows(S) THEN NewAttempt(source[d])
                ELSE IF d \in S THEN [rows[d] EXCEPT !.wait = NoRetry, !.age = 0]
                ELSE rows[d]]
          /\ CountRequeued(S)
    /\ UNCHANGED <<notified, delivered, permanent, dropped, down>>

claimable == {d \in Row : \/ rows[d].status = "pending"
                          \/ rows[d].status = "sending" /\ rows[d].age = StaleAfter}

\* Slip: rows of a dead worker stay with it.
ClaimPendingOnly(w) ==
    LET batch == {d \in Row : rows[d].status = "pending"}
    IN /\ task[w].step = "claim"
       /\ rows' = [d \in Row |-> IF d \in batch
                                 THEN [rows[d] EXCEPT !.status = "sending", !.age = 0]
                                 ELSE rows[d]]
       /\ Become(w, [Idle EXCEPT !.step = "batch", !.batch = batch])
       /\ UNCHANGED <<history, down>>

\* ClaimDue: the oldest rows first.
ClaimDue(w) ==
    LET batch == {d \in claimable : Cardinality({e \in claimable : e < d}) < Batch}
    IN /\ task[w].step = "claim"
       /\ rows' = [d \in Row |-> IF d \in batch
                                 THEN [rows[d] EXCEPT !.status = "sending", !.age = 0]
                                 ELSE rows[d]]
       /\ Become(w, [Idle EXCEPT !.step = "batch", !.batch = batch])
       /\ UNCHANGED <<history, down>>

\* The claim fails and the run ends; the attempts it requeued stay.
ClaimFails(w) ==
    /\ task[w].step = "claim"
    /\ Done(w)
    /\ UNCHANGED <<rows, history, down>>

\* The loop of DeliverMerchantCallbacks takes the next row while it has time.
TakeRow(w) ==
    /\ task[w].step = "batch"
    /\ task[w].elapsed <= Budget
    /\ \E d \in task[w].batch :
          Become(w, [task[w] EXCEPT !.step = "send", !.row = d, !.batch = @ \ {d},
                                    !.left = SendTimeout])
    /\ UNCHANGED <<rows, history, down>>

BatchDone(w) ==
    /\ task[w].step = "batch"
    /\ task[w].batch = {}
    /\ Done(w)
    /\ UNCHANGED <<rows, history, down>>

\* ReleaseClaimed, out of budget or at shutdown; it may fail and is not retried.
ReleaseClaimed(w) ==
    /\ task[w].step = "batch"
    /\ task[w].batch # {}
    /\ \/ rows' = [d \in Row |->
             IF d \in task[w].batch /\ rows[d].status = "sending"
             THEN [rows[d] EXCEPT !.status = "pending", !.age = 0]
             ELSE rows[d]]
       \/ UNCHANGED rows
    /\ Done(w)
    /\ UNCHANGED <<history, down>>

-----------------------------------------------------------------------------
(* executeCallbackDelivery, for the job and for an admin alike.            *)

Result(a, result, wait) ==
    Become(a, [task[a] EXCEPT !.step = "record", !.result = result, !.wait = wait])

SendAccepted(a) ==
    /\ task[a].step = "send"
    /\ Result(a, "success", NoRetry)
    /\ delivered' = delivered \union {rows[task[a].row].callback}
    /\ UNCHANGED <<rows, notified, permanent, dropped, requeued, down>>

\* Another status, no answer in time (though the merchant may have accepted),
\* or the payment could not be looked up.
SendFailed(a) ==
    /\ task[a].step = "send"
    /\ Result(a, "failed", nextRetryAt(rows[task[a].row].attempt))
    /\ \E got \in SUBSET {rows[task[a].row].callback} : delivered' = delivered \union got
    /\ UNCHANGED <<rows, notified, permanent, dropped, requeued, down>>

\* failCallbackPermanently, a blocked address, or a contained panic.
SendRefused(a) ==
    /\ task[a].step = "send"
    /\ Result(a, "failed", NoRetry)
    /\ permanent' = permanent \union {rows[task[a].row].callback}
    /\ UNCHANGED <<rows, notified, delivered, dropped, requeued, down>>

Return(a) ==
    IF a \in Admin THEN Done(a)
    ELSE Become(a, [Idle EXCEPT !.step = "batch", !.batch = task[a].batch,
                                !.elapsed = task[a].elapsed])

\* UpdateResult: by identifier, with no look at the row's status.
RecordResult(a) ==
    /\ task[a].step = "record"
    /\ rows' = [rows EXCEPT ![task[a].row].status = task[a].result,
                            ![task[a].row].wait = task[a].wait,
                            ![task[a].row].age = 0]
    /\ Return(a)
    /\ UNCHANGED <<history, down>>

\* Both attempts to write the result failed: the row stays "sending".
RecordLost(a) ==
    /\ task[a].step = "record"
    /\ Return(a)
    /\ UNCHANGED <<rows, history, down>>

-----------------------------------------------------------------------------
(* retryMerchantCallbackData.                                              *)

\* ClearRetrySchedule on a row of any status, before the new attempt.
ClearRetrySchedule(a, d) ==
    /\ Free(a)
    /\ rows[d] # Absent
    /\ rows' = IF rows[d].status = "failed" THEN [rows EXCEPT ![d].wait = NoRetry] ELSE rows
    /\ Become(a, [Idle EXCEPT !.step = "create", !.row = d, !.left = SendTimeout,
                              !.wait = rows[d].wait])
    /\ UNCHANGED <<history, down>>

CreateAttempt(a) ==
    LET d == task[a].row
    IN /\ task[a].step = "create"
       /\ \E e \in next :
             /\ rows' = [rows EXCEPT
                   ![e] = Fresh(rows[d].callback, rows[d].attempt + 1, "sending")]
             /\ Become(a, [Idle EXCEPT !.step = "send", !.row = e, !.left = SendTimeout])
       /\ UNCHANGED <<history, down>>

\* The schedule it took from the source goes with the retry.
RetryBroken(a) ==
    dropped' = IF task[a].step = "create" /\ task[a].wait # NoRetry
               THEN dropped \union {rows[task[a].row].callback} ELSE dropped

\* The insert failed: the schedule is gone and no attempt took its place.
CreateFails(a) ==
    /\ task[a].step = "create"
    /\ RetryBroken(a)
    /\ Done(a)
    /\ UNCHANGED <<rows, notified, delivered, permanent, requeued, down>>

\* The actor's process dies between any two statements.
Crash(a) ==
    /\ a \notin down
    /\ down' = down \union {a}
    /\ Done(a)
    /\ RetryBroken(a)
    /\ UNCHANGED <<rows, notified, delivered, permanent, requeued>>

Restart(a) ==
    /\ a \in down
    /\ down' = down \ {a}
    /\ UNCHANGED <<rows, task, history>>

-----------------------------------------------------------------------------
\* A tick passes.  It waits for the statements of a claim and for whatever has
\* run into its timeout.
Tick ==
    /\ \A a \in Actor : /\ task[a].step # "claim"
                        /\ task[a].step \in {"send", "record", "create"} => task[a].left > 0
    /\ rows' = [d \in Row |->
          IF rows[d] = Absent THEN Absent
          ELSE [rows[d] EXCEPT !.age = IF @ < StaleAfter THEN @ + 1 ELSE @,
                               !.wait = IF @ > 0 THEN @ - 1 ELSE @]]
    /\ task' = [a \in Actor |->
          IF task[a] = Idle THEN Idle
          ELSE [task[a] EXCEPT
                   !.elapsed = IF a \in Worker /\ @ <= Budget THEN @ + 1 ELSE @,
                   !.left = IF @ > 0 THEN @ - 1 ELSE @,
                   !.wait = IF @ > 0 THEN @ - 1 ELSE @]]
    /\ UNCHANGED <<history, down>>

Deliver(a) == SendAccepted(a) \/ SendFailed(a) \/ SendRefused(a)
                 \/ RecordResult(a) \/ RecordLost(a)
Run(w) == RequeueDueFailed(w) \/ ClaimDue(w) \/ ClaimFails(w) \/ TakeRow(w) \/ BatchDone(w)
             \/ ReleaseClaimed(w) \/ Deliver(w)
Retry(a) == (\E d \in Row : ClearRetrySchedule(a, d))
               \/ CreateAttempt(a) \/ CreateFails(a) \/ Deliver(a)

Next ==
    \/ \E c \in Callback : Queue(c)
    \/ \E w \in Worker : Run(w)
    \/ \E a \in Admin : Retry(a)
    \/ \E a \in Actor : Crash(a) \/ Restart(a)
    \/ Tick

Spec == Init /\ [][Next]_vars

-----------------------------------------------------------------------------
(* What must hold.                                                         *)

\* The variables take the values their comments say.
TypeOK ==
    /\ rows \in [Row -> Present \union {Absent}]
    /\ task \in [Actor -> Busy \union {Idle}]
    /\ down \subseteq Actor
    /\ notified \subseteq Callback
    /\ delivered \subseteq Callback
    /\ permanent \subseteq Callback
    /\ dropped \subseteq Callback
    /\ requeued \in [Row -> Nat]

Live(d) == \/ rows[d].status \in {"pending", "sending"}
           \/ rows[d].status = "failed" /\ rows[d].wait # NoRetry
Exhausted(d) == rows[d].status = "failed" /\ rows[d].attempt >= MaxAttempts
Alive(c) ==
    \/ \E d \in Row : rows[d].callback = c /\ (Live(d) \/ Exhausted(d))
    \/ \E a \in Admin : task[a].step = "create" /\ rows[task[a].row].callback = c

\* At least once: whatever crashes, overlaps or is retried by hand, a queued
\* callback has reached its merchant, or has a row the job still acts on, or
\* used up its attempts, or failed for good.  The one way out is a manual retry
\* that takes the schedule and breaks off before its own attempt is stored.
NothingStranded ==
    \A c \in notified \ (delivered \union permanent \union dropped) : Alive(c)

\* RequeueDueFailed picks a failure up once: also when a worker that was slow
\* writes its result over that of the worker that took the row over, the row
\* is not scheduled again after it was requeued.
RequeuedOnce == \A d \in Row : requeued[d] <= 1

\* The documents' claim (docs/payment-state-machine.md): a callback is lost
\* only if queueing it failed, if it failed for good or used up its attempts.
LostOnlyWhenRecorded ==
    \A c \in notified \ (delivered \union permanent) : Alive(c)

-----------------------------------------------------------------------------
(* Progress.  The scheduler runs the job again and again in at least one   *)
(* process, the statements of a run take next to no time, the loop of a    *)
(* run goes on, time passes, the database takes a claim and a result in    *)
(* the end, and crashes end.                                               *)

FairSpec ==
    /\ Spec
    /\ SF_vars(Tick) /\ []<>(\A w \in Worker : task[w].step # "claim")
    /\ \A w \in Worker :
          /\ WF_vars(RequeueDueFailed(w) \/ BatchDone(w) \/ Deliver(w) \/ ReleaseClaimed(w))
          /\ SF_vars(ClaimDue(w)) /\ SF_vars(TakeRow(w))
          /\ SF_vars(RecordResult(w))
    /\ \A a \in Admin : WF_vars(CreateAttempt(a) \/ CreateFails(a) \/ Deliver(a))
    /\ <>[](down = {})

\* A callback once queued is not carried around for ever: it reaches its
\* merchant, fails for good, uses up its attempts or is dropped by hand, with
\* rows of a dead worker taken over and results that could not be written.
EveryCallbackEnds ==
    \A c \in Callback :
        c \in notified ~>
            \/ c \in delivered \union permanent \union dropped
            \/ \E d \in Row : rows[d].callback = c /\ Exhausted(d)
=============================================================================
