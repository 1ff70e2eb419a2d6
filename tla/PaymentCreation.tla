--------------------------- MODULE PaymentCreation ---------------------------
(***************************************************************************)
(* Creation of a payment under an Idempotency-Key: the claim of the key,   *)
(* the providers tried one after the other, the insert of the payment, and *)
(* the claim completed or released.  A request is a goroutine that serves  *)
(* one HTTP call; its name stands for the identifiers it draws, that of    *)
(* its claim and that of its payment.                                      *)
(*                                                                         *)
(* Time is kept as ages and countdowns.  A creation ends by its deadline   *)
(* and settling its claim by another; a claim is short against a tick.     *)
(***************************************************************************)
EXTENDS Integers

CONSTANTS
    Request,         \* calls of CreatePaymentIdempotent (bounds the run)
    Key,             \* idempotency keys of one merchant and environment
    Body,            \* what RequestHash tells apart
    Provider,        \* the candidates resolveProvidersForMerchant returns
    Failover,        \* the candidates with failoverEnabled
    None,            \* no key, no request, no provider
    MaxClaims,       \* maxClaimAttempts
    CreateTimeout,   \* claimedCreateTimeout
    SettleTimeout,   \* postCommitTimeout
    AbandonedAfter,
    TTL

ASSUME CreationAssumption ==
    /\ None \notin Request \union Key \union Provider
    /\ Failover \subseteq Provider
    /\ {MaxClaims, CreateTimeout, SettleTimeout, AbandonedAfter, TTL} \subseteq Nat \ {0}
    /\ CreateTimeout + SettleTimeout <= AbandonedAfter
    /\ AbandonedAfter < TTL

VARIABLES
    keys,        \* idempotency_keys, by key
    payments,    \* payments[r]: the provider stored with the payment of r
    orders,      \* orders a provider has accepted, by request
    task,        \* where each request is
    answer,      \* answer[r]: the payment r was answered with
    \* history
    given,       \* given[k]: payments answered for k while k is remembered
    unlinked     \* keys a payment was answered for that could not be linked

vars == <<keys, payments, orders, task, answer, given, unlinked>>

NoRow == [owner |-> None, body |-> None, payment |-> None, age |-> 0]
Rows == [owner : Request \union {None}, body : Body \union {None},
         payment : Request \union {None}, age : 0 .. TTL + 1]

Task(step, k, b, left) == [step |-> step, key |-> k, body |-> b, claims |-> 0,
                           tried |-> {}, response |-> None, left |-> left]
Unborn == Task("new", None, None, 0)
Steps == {"new", "claim", "read", "create", "save", "complete", "release", "done"}
Tasks == [step : Steps, key : Key \union {None}, body : Body \union {None}, claims : 0 .. MaxClaims - 1,
          tried : SUBSET Provider, response : Provider \union {None},
          left : 0 .. CreateTimeout + SettleTimeout]

Init ==
    /\ keys = [k \in Key |-> NoRow]
    /\ payments = [r \in Request |-> None]
    /\ orders = [r \in Request |-> {}]
    /\ task = [r \in Request |-> Unborn]
    /\ answer = [r \in Request |-> None]
    /\ given = [k \in Key |-> {}]
    /\ unlinked = {}

At(r, step) == task[r].step = step
Goto(r, step) == task' = [task EXCEPT ![r].step = step]
Own(r) == task[r].key # None
\* What a finished request leaves behind is what it asked for.
Ended(r, step) == Task(step, task[r].key, task[r].body, 0)
Finish(r) == task' = [task EXCEPT ![r] = Ended(r, "done")]

Give(r, p) ==
    /\ answer' = [answer EXCEPT ![r] = p]
    /\ given' = IF Own(r) THEN [given EXCEPT ![task[r].key] = @ \union {p}] ELSE given

-----------------------------------------------------------------------------
(* CreatePaymentIdempotent: taking the key.                                *)

\* A validated call; without a key it creates at once, under no deadline.
Arrive(r, k, b) ==
    /\ At(r, "new")
    /\ task' = [task EXCEPT ![r] =
          Task(IF k = None THEN "create" ELSE "claim", k, b, 0)]
    /\ UNCHANGED <<keys, payments, orders, answer, given, unlinked>>

\* Slips: any claim without a payment is up for grabs; so is one past the
\* creation's deadline; so is an old one that has its payment.
claimableAtOnce(row) == row = NoRow \/ row.age > TTL \/ row.payment = None
claimablePastDeadline(row) == row = NoRow \/ row.age > TTL
                                 \/ (row.payment = None /\ row.age > CreateTimeout)
claimableOld(row) == row = NoRow \/ row.age > AbandonedAfter
\* The upsert's condition: no row, a row forgotten, or one left without payment.
claimable(row) == row = NoRow \/ row.age > TTL
                     \/ (row.payment = None /\ row.age > AbandonedAfter)

\* What a key forgotten by age takes with it.
Forgotten(K) ==
    /\ given' = [k \in Key |-> IF k \in K THEN {} ELSE given[k]]
    /\ unlinked' = unlinked \ K

\* Claim: the insert takes the row, or the row is somebody's.
Claim(r) ==
    LET k == task[r].key
    IN /\ At(r, "claim")
       /\ IF claimable(keys[k])
          THEN /\ keys' = [keys EXCEPT ![k] =
                     [owner |-> r, body |-> task[r].body, payment |-> None, age |-> 0]]
               /\ task' = [task EXCEPT ![r] = Task("create", k, task[r].body, CreateTimeout)]
               /\ Forgotten({k} \intersect {j \in Key : keys[j].age > TTL})
          ELSE Goto(r, "read") /\ UNCHANGED <<keys, given, unlinked>>
       /\ UNCHANGED <<payments, orders, answer>>

\* Slip: the loop has no end.
ReadNothingForever(r) ==
    /\ At(r, "read")
    /\ keys[task[r].key] = NoRow
    /\ task' = [task EXCEPT ![r].claims = @ + 1, ![r].step = "claim"]
    /\ UNCHANGED <<keys, payments, orders, answer, given, unlinked>>

\* The row has vanished since: claim again, a few times.
ReadNothing(r) ==
    /\ At(r, "read")
    /\ keys[task[r].key] = NoRow
    /\ task' = [task EXCEPT ![r] =
          IF task[r].claims + 1 < MaxClaims
          THEN [task[r] EXCEPT !.claims = @ + 1, !.step = "claim"] ELSE Ended(r, "done")]
    /\ UNCHANGED <<keys, payments, orders, answer, given, unlinked>>

\* Slip: the hash is not compared.
ReplayAnyBody(r) ==
    LET row == keys[task[r].key]
    IN /\ At(r, "read")
       /\ row # NoRow
       /\ row.payment # None
       /\ Give(r, row.payment)
       /\ Finish(r)
       /\ UNCHANGED <<keys, payments, orders, unlinked>>

\* The payment an earlier call with this key and this body created.
Replay(r) ==
    LET row == keys[task[r].key]
    IN /\ At(r, "read")
       /\ row # NoRow
       /\ row.body = task[r].body
       /\ row.payment # None
       /\ Give(r, row.payment)
       /\ Finish(r)
       /\ UNCHANGED <<keys, payments, orders, unlinked>>

\* ErrKeyReused or ErrInProgress.
Refuse(r) ==
    LET row == keys[task[r].key]
    IN /\ At(r, "read")
       /\ row # NoRow
       /\ row.body # task[r].body \/ row.payment = None
       /\ Finish(r)
       /\ UNCHANGED <<keys, payments, orders, answer, given, unlinked>>

-----------------------------------------------------------------------------
(* CreatePayment: the providers in turn, then the insert.                  *)

Settling(r, step) == Task(step, task[r].key, task[r].body, SettleTimeout)
\* createClaimed releases the key of a creation that failed.
Failing(r) == IF Own(r) THEN Settling(r, "release") ELSE Ended(r, "done")

ProviderAccepts(r, p) ==
    /\ At(r, "create")
    /\ p \notin task[r].tried
    /\ orders' = [orders EXCEPT ![r] = @ \union {p}]
    /\ task' = [task EXCEPT ![r] = [task[r] EXCEPT !.step = "save", !.response = p]]
    /\ UNCHANGED <<keys, payments, answer, given, unlinked>>

\* Slip: the response that came with the last candidate's error is kept.
ProviderFailsKept(r, p) ==
    /\ At(r, "create")
    /\ p \notin task[r].tried
    /\ \E placed \in SUBSET {p} : orders' = [orders EXCEPT ![r] = @ \union placed]
    /\ task' = [task EXCEPT ![r] =
          IF p \in Failover /\ task[r].tried \union {p} # Provider
          THEN [task[r] EXCEPT !.tried = @ \union {p}]
          ELSE [task[r] EXCEPT !.step = "save", !.response = p]]
    /\ UNCHANGED <<keys, payments, answer, given, unlinked>>

\* No quote, an error, or no answer in time, when the order may stand.  The
\* next candidate is tried if this one allows it.
ProviderFails(r, p) ==
    /\ At(r, "create")
    /\ p \notin task[r].tried
    /\ \E placed \in SUBSET {p} : orders' = [orders EXCEPT ![r] = @ \union placed]
    /\ task' = [task EXCEPT ![r] =
          IF p \in Failover /\ task[r].tried \union {p} # Provider
          THEN [task[r] EXCEPT !.tried = @ \union {p}] ELSE Failing(r)]
    /\ UNCHANGED <<keys, payments, answer, given, unlinked>>

\* The merchant may not create or no provider is left for it; or the provider
\* charged less than the nominal, or the insert failed.
GiveUp(r) ==
    /\ (At(r, "create") /\ task[r].tried = {}) \/ At(r, "save")
    /\ task' = [task EXCEPT ![r] = Failing(r)]
    /\ UNCHANGED <<keys, payments, orders, answer, given, unlinked>>

\* The payment is stored; without a key that is all.
Save(r) ==
    /\ At(r, "save")
    /\ payments' = [payments EXCEPT ![r] = task[r].response]
    /\ task' = [task EXCEPT ![r] = IF Own(r) THEN Settling(r, "complete") ELSE Ended(r, "done")]
    /\ IF Own(r) THEN UNCHANGED <<answer, given>> ELSE Give(r, r)
    /\ UNCHANGED <<keys, orders, unlinked>>

\* The insert committed and the reply was lost, at the deadline say.
SaveUnknown(r) ==
    /\ At(r, "save")
    /\ payments' = [payments EXCEPT ![r] = task[r].response]
    /\ task' = [task EXCEPT ![r] = Failing(r)]
    /\ UNCHANGED <<keys, orders, answer, given, unlinked>>

-----------------------------------------------------------------------------
(* createClaimed: settling the claim.                                      *)

heldBy(r) == keys[task[r].key].owner = r
Linked(r) == IF heldBy(r) THEN [keys EXCEPT ![task[r].key].payment = r] ELSE keys

\* Complete, by claim identifier; a claim that is lost is only logged.
Complete(r) ==
    /\ At(r, "complete")
    /\ keys' = Linked(r)
    /\ Give(r, r)
    /\ Finish(r)
    /\ UNCHANGED <<payments, orders, unlinked>>

\* The update failed: logged, and the caller is answered all the same.
CompleteFails(r) ==
    /\ At(r, "complete")
    /\ unlinked' = unlinked \union {task[r].key}
    /\ Give(r, r)
    /\ Finish(r)
    /\ UNCHANGED <<keys, payments, orders>>

\* Release, or an attempt at it that failed.
Release(r) ==
    LET k == task[r].key
    IN /\ At(r, "release")
       /\ \/ heldBy(r) /\ keys[k].payment = None /\ keys' = [keys EXCEPT ![k] = NoRow]
          \/ UNCHANGED keys
       /\ Finish(r)
       /\ UNCHANGED <<payments, orders, answer, given, unlinked>>

\* PurgeIdempotencyKeys, every hour.
Purge ==
    LET old == {k \in Key : keys[k] # NoRow /\ keys[k].age > TTL}
    IN /\ old # {}
       /\ keys' = [k \in Key |-> IF k \in old THEN NoRow ELSE keys[k]]
       /\ Forgotten(old)
       /\ UNCHANGED <<payments, orders, task, answer>>

\* The process that serves the request dies, or, before the key is taken, the
\* database fails.
Crash(r) ==
    /\ task[r].step \notin {"new", "done"}
    /\ Finish(r)
    /\ UNCHANGED <<keys, payments, orders, answer, given, unlinked>>

\* Time passes, but not over a claim or a deadline.
Tick ==
    /\ \A r \in Request : /\ ~At(r, "claim")
                          /\ Own(r) /\ task[r].step \in {"create", "save", "complete", "release"}
                                => task[r].left > 0
    /\ keys' = [k \in Key |-> IF keys[k] = NoRow THEN NoRow
                              ELSE [keys[k] EXCEPT !.age = IF @ > TTL THEN @ ELSE @ + 1]]
    /\ task' = [r \in Request |-> [task[r] EXCEPT !.left = IF @ > 0 THEN @ - 1 ELSE @]]
    /\ UNCHANGED <<payments, orders, answer, given, unlinked>>

Take(r) == (\E k \in Key \union {None}, b \in Body : Arrive(r, k, b))
              \/ Claim(r) \/ ReadNothing(r) \/ Replay(r) \/ Refuse(r)
Create(r) == (\E p \in Provider : ProviderAccepts(r, p) \/ ProviderFails(r, p))
                \/ GiveUp(r) \/ Save(r) \/ SaveUnknown(r)
Settle(r) == Complete(r) \/ CompleteFails(r) \/ Release(r)

Next ==
    \/ \E r \in Request : Take(r) \/ Create(r) \/ Settle(r) \/ Crash(r)
    \/ Purge
    \/ Tick

Spec == Init /\ [][Next]_vars

-----------------------------------------------------------------------------
(* What must hold.                                                         *)

\* The variables take the values their comments say.
TypeOK ==
    /\ keys \in [Key -> Rows]
    /\ payments \in [Request -> Provider \union {None}]
    /\ orders \in [Request -> SUBSET Provider]
    /\ task \in [Request -> Tasks]
    /\ answer \in [Request -> Request \union {None}]
    /\ given \in [Key -> SUBSET Request]
    /\ unlinked \subseteq Key

Creating(r, k) == task[r].key = k /\ task[r].step \in {"create", "save", "complete", "release"}

\* Concurrent duplicates cannot both charge: a key that is taken over, released
\* or purged never has two requests between its claim and its settling.
OneCreator ==
    \A k \in Key, r, s \in Request : Creating(r, k) /\ Creating(s, k) => r = s

\* As long as a key is remembered its callers get one and the same payment,
\* through crashes, takeovers and lost replies.  The exception is a payment
\* answered although its claim could not be completed.
AnswersAgree ==
    \A k \in Key \ unlinked : \A p, q \in given[k] : p = q

\* Once a caller was answered with a payment for a key, the customer is billed
\* no second time for it while it is remembered: no provider accepts another
\* order, no other payment is stored.  The exception is the one above.
NoSecondBill == [][
    \A r \in Request : LET k == task[r].key
                      IN k \in Key \ unlinked /\ given[k] # {} =>
                            orders'[r] = orders[r] /\ payments'[r] = payments[r]]_vars

\* A caller is only ever replayed a payment that exists, of its own key, and
\* that a request with its own body created.
ReplayTruthful ==
    \A r \in Request : answer[r] # None =>
        LET p == answer[r]
        IN /\ payments[p] # None
           /\ task[p].key = task[r].key
           /\ task[p].body = task[r].body

\* A payment names a provider that holds an order for it, whatever other
\* candidates failed before.
PaymentBackedByOrder ==
    \A r \in Request : payments[r] # None => payments[r] \in orders[r]
=============================================================================
