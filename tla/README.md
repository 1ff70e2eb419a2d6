# Formal verification of the payment aggregator

The aggregator (Go, PostgreSQL) stands between merchants and payment providers.
It creates a QRIS payment with a provider, learns of its settlement from a
webhook or by asking, credits the merchant's ledger, tells the merchant by a
callback, and pays the merchant out. This directory holds TLA+ models of the
parts of it where order, failure and concurrency decide whether money is right,
TLC runs that check them on small instances, and proofs, checked by TLAPS, that
hold for instances of any size.

Paths below are relative to the repository's root. `PROJECT.json` maps every
definition to the lines it models.

## 1. Inventory of the system

| Component | Code | State it keeps | Operations |
|---|---|---|---|
| Payment status and settlement | `internal/service/payment_{service,webhook_service,verify}.go`, `internal/repository/payment_repository*.go` | `payments`, `webhook_events`, the in-memory reconcile cursor | `ProcessWebhook`, `ReconcilePayment`, `ReconcilePendingPayments`, `ReconcileRecentPayments`, `ExpirePayments`, the guarded writes `MarkPaid` and `UpdateStatus` |
| Fees | `internal/fee`, `payment_net.go` | none | `QuoteTotalBasisPoints`, `MerchantNetBasisPoints`, `merchantNetFor` |
| Refunds | `refund_repository.go` | `payment_refunds`, `merchant_ledger` | `RefundWithRemaining` |
| Ledger, balance, payouts | `ledger_repository.go`, `payout_repository.go` | `merchant_ledger` (append only), `payouts`, the payout account of `merchants` | `Request`, `MarkPaid`, `Reject`, `Adjust`, `SetPayoutAccount` |
| Callback queue | `merchant_callback_service.go`, `merchant_callback_repository.go` | `merchant_callback_deliveries` | `NotifyMerchantPaymentEvent`, `DeliverMerchantCallbacks`, `RetryMerchantCallback` |
| Creation and idempotency | `payment_idempotency.go`, `idempotency_repository.go`, `CreatePayment` | `idempotency_keys`, `payments`, the provider's orders | `CreatePaymentIdempotent`, `PurgeIdempotencyKeys` |
| Provider routing | `internal/provider/adapter.go`, `resolveProvidersForMerchant` | registry, health (in memory), `merchant_provider_configs` | `SelectProviders`, `SetProviderHealth` |
| Provider adapters | `internal/provider/{cashi,sandbox}` | the sandbox's orders (in memory) | `CreatePayment`, `GetPaymentStatus`, `ParseWebhook` |
| Payment links | `paymentlink.go`, `payment_link_service.go` | `payment_links` | `CreateLink`, `UpdateLink`, `SetActive`, `InitiateCheckout` |
| Sessions | `auth_service.go`, `internal/middleware/admin_auth.go` | password and `sessions_valid_after` of `admins` and `merchant_users` | logins, the checks of a request, `ChangePassword`, `Logout` |
| API keys | `merchant_api_key_service.go` | `merchant_api_keys` | `Upsert` (deletes one row, creates another), `Delete`, `Authenticate` |
| Merchant administration | `admin_merchant_service.go`, `merchant_repository.go` | `merchants`, `merchant_users` | edits (a read and a write back), status, webhook secret, registration |
| Rate limiter | `internal/middleware/rate_limit.go` | token buckets per address | `allow`, `Cleanup` |
| Scheduler and shutdown | `internal/scheduler`, `cmd/api` | goroutines | `RunPeriodic`, `waitForJobs` |
| Dashboards, exports, address guard, configuration, logging | `internal/handler`, `internal/netsafe`, `internal/config`, `pkg/logger` | none of their own | reads and checks |

**How they interact.** HTTP handlers and four jobs (expiry every minute,
reconcile every two minutes, callback delivery every five seconds, purge of
idempotency keys every hour) run in one process and share nothing but the
database, apart from the reconcile cursor. A settlement is a chain: the
provider call, `MarkPaid` (one transaction over status and ledger credit), the
callback's insert (another). The delivery job reads the rows that insert
leaves. Refunds, adjustments and payouts meet in the merchant's ledger. Only a
rolling deploy has two processes at once (`DEPLOY.md` demands one instance).

**What is hard.** Every writer of a payment works from a row it read before a
provider call that may take seconds. Webhooks are lost, repeated, late or
wrong. A commit whose reply is lost looks like a failure. A process may die
between any two statements. Payout requests are several statements under READ
COMMITTED. Claims on callback rows and on idempotency keys expire by time while
their holder may be slow and not dead. The reconcile job sees a page at a time
of a set that changes under it. `PROJECT.json` lists each of these under
`hazards`, at the line where it bites.

**What makes each component correct.**

- Settlement: only money the provider confirms makes a payment paid; it is
  credited once; nothing moves backwards; each change is announced once and
  truthfully; lost webhooks are made up for.
- Ledger: refunds never exceed the net; a payout never spends what another has
  spent; a processed payout is final; ledger and payouts agree.
- Callbacks: at least once, until a recorded end; a failure is retried once per
  schedule, and rows of dead workers are taken over.
- Creation: one payment per key, no second bill for a key whose caller was
  answered, no answer that belongs to somebody else, no payment without an
  order at its provider.
- Routing: no order at a provider known to be sick, none of a production link
  at the mock; no healthy provider of the merchant passed over.
- Links: nothing is ordered through a link that was closed when the customer
  came, nor for a nominal outside the platform's limits; a customer who bears
  the fee is asked for the least total that leaves the nominal at the rate of
  the provider that takes the order; an edit undoes another only if the two
  overlapped.
- Limiter: a client's reserve grows no faster than its refill and every
  request let through is paid for; forgetting idle clients lets nobody through
  who would have been turned away; a client cannot choose the address it is
  counted under.
- Sessions: what was revoked stays out and what is new gets in, to the
  rounding of a token's second; an inactive merchant is shut out everywhere.
- API keys: one live key per environment, which is not lost but by a deletion.
- Merchant rows: an edit or a secret lasts until the next one; a registration
  is whole or undone.

## 2. Modules

| Module | Models |
|---|---|
| `PaymentLifecycle` | Abstract specification: one payment's life as the transition table in `internal/domain/payment/payment.go` and the ledger promise it |
| `Fee`, `FeeProofs` | The fee arithmetic, with theorems |
| `PaymentSettlement`, `...MC`, `...Proofs` | Settlement, expiry, reconcile, refund and the queueing of callbacks; implements `PaymentLifecycle` |
| `ReconcileRotation`, `...Proofs` | The cursor of `ReconcileRecentPayments` over many candidates |
| `MerchantBalance`, `...MC`, `...Proofs` | Ledger, payouts, adjustments, payout accounts |
| `CallbackDelivery`, `...MC`, `...Proofs` | The callback queue from insert to final status |
| `PaymentCreation`, `...MC`, `...Proofs` | Idempotency claims, provider failover, the insert |
| `AccountRows` | The rows behind the dashboards and the requests that work on them |
| `Sessions`, `ApiKeys`, `MerchantProfile`, `Registration` | Logins and revocation; keys; the merchant's row and its secret; new merchants |
| `Accounts`, `...MC`, `...Proofs` | The four together, and what holds of them |
| `RateLimiter`, `Routing`, `PaymentLinks` | Token buckets and the client's address; configs, health and candidates; the link's row |
| `Checkout`, `...MC`, `...Proofs` | A checkout through all three, beside edits and an admin's changes |

The composition follows the code's own seams. `PaymentSettlement` extends `Fee`
and implements `PaymentLifecycle`; its `queued` counts the rows with which
`CallbackDelivery` starts (`Queue`); its credits and refunds are the `Credit`
and `Refund` of `MerchantBalance`; its `CreatePayment` is the end of
`PaymentCreation`. `ReconcileRotation` takes the paging of
`PaymentSettlement.ReconcileRecentPayments` by itself, since it needs many
rows and no work on them. `Checkout` ends where `PaymentCreation` begins: it
decides which providers `PaymentCreation` tries, and in which order.
`Sessions`, `ApiKeys`, `MerchantProfile` and `Registration` each extend the
rows of `AccountRows` with their actions, and `Accounts` lets all of them
interleave; the merchant's status, which an admin changes in `Sessions`, is
the same column that `ApiKeys` reads. `Checkout` has its own copy of that
column, since the two families share nothing else.

### 2.1 PaymentSettlement

One action is one transaction or one provider call. An *actor* is an HTTP
handler, the reconcile job or the expiry job. `todo[a]` is the snapshot the
actor read (`GetByID`, `ListAdmin`, `ListReconcileCandidates`,
`ListExpiredPending`), each row with the status it had then; `task[a]` is the
row it works on and where in `ProcessWebhook`, `reconcilePaymentData` or
`expireLocally` it is: `check` (the provider call), `record` (a mismatch),
`settle` or `expire` (about to write), `notify` (written, callback not yet
queued). `MarkPaid`, `UpdateStatus` and `RefundWithRemaining` test the status
*at the write*, as the SQL does, and never the snapshot. `LostRace` is the
branch of `ErrPaymentAlreadyTerminal`, `WriteFails` a rolled back statement,
`CommitReplyLost` a commit the caller takes for a failure. `Crash` empties
memory, the cursor included.

Abstracted: a webhook is what it says of the amount (right, wrong or nothing);
the provider's report is one of unpaid, paid, other amount, corrected; only the
`amount_mismatch` rows of `webhook_events` are kept (`flagged`), because only
they steer anything. `won`, `unsent`, `lost` and `acked` are history variables.
The statuses `failed` and `cancelled` are left out: no code path writes them.

The documents say that amounts are compared with `payments.amount`
(`docs/payment-state-machine.md:137-146`); the code compares with
`TotalAmount()`, nominal plus fee (`payment_verify.go:45`), which is right for
fees on top. Only "the amount asked for" or another is distinguished here.

### 2.2 MerchantBalance

`PayoutRepository.Request` is four actions under the lock that its first
statement takes: `LockMerchant`, `CheckOpen`, `SumLedger`, `Insert`; each sees
what has been committed so far, and `RollBack` may strike anywhere. Credits,
refunds and adjustments take no such lock (their foreign keys take FOR KEY
SHARE, which does not conflict) and interleave freely; an UPDATE of the
merchant's row waits. The ledger is kept as its sums per kind of row. `Insert`
honours the unique index on open payouts.

### 2.3 CallbackDelivery

A run of the job is `RequeueDueFailed`, `ClaimDue`, then the loop of `TakeRow`,
a send, `RecordResult`, under the batch budget; `ReleaseClaimed` hands the rest
back. `RecordLost` is the failure of both attempts to write a result. An
admin's retry is `ClearRetrySchedule` and `CreateAttempt`, two statements.
Rows age and countdowns run by `Tick`; ages are cut off at the stale window, so
time needs no bound. Workers are processes of their own, which is a rolling
deploy; `Crash` and `Restart` take any of them down and up.

### 2.4 PaymentCreation

`Claim` is the upsert of `IdempotencyRepository.Claim`, the later SELECT is
`ReadNothing`, `Replay` or `Refuse`. The creation is the failover loop
(`ProviderAccepts`, `ProviderFails`, `GiveUp`) and the insert (`Save`, or
`SaveUnknown` when its reply is lost). `Complete`, `CompleteFails` and
`Release` settle the claim. A request's own name serves as the identifier of
its claim and of its payment, as both are fresh UUIDs. Providers are tried in
any order, which covers every configured priority; whether a failed one allows
another is `Failover`. A provider that fails may hold the order all the same.

### 2.5 ReconcileRotation

Rows are numbered by `(created_at, id)`, the order the job pages through. `Run`
reads a batch below the cursor and moves it as the code does. `life[r]` is what
the job's query sees of a payment: `pending` within 24 h of its creation, `aged`
(pending but older, so no candidate), `expired` within 6 h of its deadline, or
`done`. Between runs rows come and go anywhere in the order, on either side of
the cursor: `Store` may put a payment below others, as `CreatePayment` dates it
before it asks the provider and stores it afterwards; `AgeOut` takes the oldest
pending one out of its window; `Expire` keeps a young one where it is and brings
an aged one back with its old date (a payment may live longer than 24 h). What
leaves for good is `Leave`, without a guard on the clock or the status, which is
more than the code does.

`waited` and `met` are history: the runs a candidate has waited, and the others
that were candidates meanwhile. The bound counts these, so it grows with every
payment that becomes a candidate while one waits; a bound on the candidates at
one moment would not do, since rows may enter between the cursor and the one
that waits, and leave again once they are checked.

### 2.6 Accounts

A *request* is a goroutine that serves one HTTP call; one action is one SQL
statement, or the code between two. `task[r]` is the operation, the step it
has reached and what it has read. Every dashboard route begins with `Enter`
(the token is parsed, the account's row read) and, for a merchant user,
`EnterMerchant` (the parent's row), as `RequireMerchant` and `RequireAdmin`
do; a second password check (`VerifyPassword`) reads the row again. `Fail`
may strike a request at any step. What a request draws (a password, a key, a
secret, an id) is named by the request.

- *Sessions.* A logout and a change of password take the clock first
  (`StampRevocation`) and write later. A token's `iat` and the cutoff lose
  what is below a second, as in the code (`Sec`); a second is two ticks.
- *API keys.* `Upsert` reads the merchant, deletes the environment's row and
  inserts another: three actions.
- *The merchant's row.* An edit is `ReadProfile` and `WriteProfile`; the write
  carries the columns of `Field` as they were read, with the one asked for
  replaced. The first use of the webhook secret is a read and a write too.
- *Registration* checks both tables, inserts the merchant, then the owner, and
  deletes the merchant when the owner fails, which may also be a lost reply
  (`InsertOwnerUnheard`).

`barred`, `cut`, `undone`, `deleted`, `overlapped`, `since`, `asked` and
`shown` are history variables.

### 2.7 Checkout

A checkout is the limiter's turn (`Arrive`), the one read of the link
(`ReadLink`), the merchant's row, the configs, the health in memory, and the
failover loop of the providers. What a checkout is for is the *nominal*
(`Nominal`); what a provider is asked for is its `charge`: `chargeFor` is the
nominal, or the total that this candidate quotes (`Fee`) when the merchant's
row, at the time it was read, said that the customer bears the fee. A provider
that cannot quote is passed over like one that refuses. A charge may lie above
the platform's maximum, whose limits are for the nominal (section 3.3 and the
limits of `docs/superpowers/specs/2026-11-04-customer-borne-fee-design.md`).
What is stored of an accepted order, and the amount the provider reports, are
`PaymentCreation`'s and `PaymentSettlement`'s. Meanwhile the merchant edits the
link (a read and a write of the whole row) or switches it, and an admin changes
the merchant's status, its fee bearer, the configs and the health. `Candidates` is
`resolveProvidersForMerchant`, its loop the recursive function of
`UsableOnes`; configs of equal priority come in any order (`EnabledOrders`),
which covers the weights and dates that break ties.

The limiter counts tokens in units that one tick refills, so a request costs
`Cost` of them. `Cleanup` reads the clock in one action and sweeps in another,
as it takes the lock after the clock. `clientIP` walks the forwarded header
from the right past the trusted proxies. `Reserve` is what a client could
spend now, the units trickled in since its last look included. `kept`, `closed`, `sick`, `asked` and
`since` are history variables; `kept` are the buckets of a limiter that never
forgets, beside the real ones.

## 3. Runs

| Run | Instance | States | Checks |
|---|---|---|---|
| `settlement_safety` | 1 payment with each of 3 terms, 2 handlers, both jobs, clock to 2 | 723 000 | `TypeOK`, `LedgerBacksPayment`, `CallbackAccounted`, `AckImpliesSettled`, `FlaggedOnlyByProvider`, `LateFlagTruthful`, `ImplementsLifecycle` |
| `settlement_liveness` | 2 payments, the reconcile job with batch 1, crashes | 100 000 | `SettledIsRecovered` |
| `settlement_callback_loss` | as safety, 1 handler and 1 term | violated | `LossIsLogged` |
| `rotation_coverage` | batch 2, 5 rows | 397 000 | `NoCandidateStarves` |
| `rotation_documented_period` | the same | violated | `CoveredEveryCeilRuns` |
| `balance_payouts` | 1 merchant, 2 requesters, 2 payouts, 2 accounts, money to 2 | 44 000 | `TypeOK`, `PayoutsWithinEarnings`, `TotalPaidOutTruthful`, `ProcessedOnce`, `PaidToCurrentAccount` |
| `delivery_retries` | 1 callback, 3 rows, 1 worker, 1 admin | 338 000 | `TypeOK`, `NothingStranded` |
| `delivery_overlap` | 1 callback, 3 rows, 2 workers | 19 000 | `RequeuedOnce`, `EveryCallbackEnds` |
| `delivery_retry_lost` | as retries | violated | `LostOnlyWhenRecorded` |
| `creation_claims` | 3 requests, 1 key, 2 bodies, 2 providers | 284 000 | `TypeOK`, `OneCreator`, `AnswersAgree`, `NoSecondBill`, `ReplayTruthful`, `PaymentBackedByOrder` |
| `accounts` | 3 requests, a user and an admin, 6 mixes | 501 000 | `TypeOK`, `SessionEnds`, `FreshSessionWorks`, `DeactivationHolds`, `SoleKey`, `KeyKept`, `EditKept`, `SecretKept`, `RegistrationWhole` |
| `checkout` | 3 requests, 5 providers, 5 mixes | 950 000 | `TypeOK`, `CleanupInvisible`, `RateHeld`, `AmountsAsQuoted`, `ClosedTakesNoOrder`, `LinkAsAsked`, `RoutedSafely` |

**The bounds.**

- *Settlement.* Nothing but the reconcile page relates two payments, so the
  safety run has one; two handlers beside the two jobs are every pair and
  triple of racing writers. The terms are a fee on top, an amount of which the
  fee leaves nothing, and the mock provider's; `Grace` is 0 because the grace
  period only shifts the deadline (nothing compares it with another time). A
  clock of two ticks around a lifetime of one separates pending and expired;
  the smallest payment outlives the clock and is only ever settled in time. No
  payment leaves the reconcile windows in these runs: `SettledIsRecovered` is
  about payments the windows still hold. The liveness run has two payments and
  a batch of one, so that a full batch, a wrap and a rotation past another
  payment happen.
- *Rotation.* Five rows with batches of two give a candidate two full batches of
  others, on either side of it and of the cursor, whichever of them come late,
  leave, or come back expired.
- *Balance.* Merchants share no rows, so one is enough; two requesters race for
  the lock, two payouts give a rejected or paid one beside an open one.
- *Delivery.* The times keep the order of the code's: budget plus send passes
  the stale window, the retry delay outlasts both. Three rows leave room for
  the first attempt, the last and a manual one. A run that needs a fourth row
  stops there (`Row` is the only bound).
- *Creation.* Three requests are an owner, one that takes over and one that
  meets either; the timeouts fill `AbandonedAfter` exactly, as 90 s and 30 s
  fill 120 s.
- *Mixes.* In `accounts` and `checkout` the initial state picks one of a few
  sets of operations (`Mixes`), and only those run: each set holds operations
  that touch the same rows, so the state space is the sum over the sets and
  not the product. The proofs assume nothing of the sets.
- *Accounts.* Three requests are two that race and one that observes, or two
  revocations and a visit. A second is two ticks and a token lives two
  seconds, so that stamps fall inside a second, on its edge and in the next.
  An admin and a user, two environments, two columns and two e-mails are the
  least that can be mistaken for each other.
- *Checkout.* The mixes are a link under edits, routing under an admin's
  changes, failover while an admin changes who bears the fee, the limiter by
  itself for twelve ticks, and a checkout that the limiter turns away. A bucket
  of three requests at two units each takes six to fill and goes after six of
  idleness, which is the tight case, twice over. The platform's limits are 2
  and 3; customers and edits name 1, 3 and 5, below, on and above them, and a
  fixed price of 5 is refused when the link is created. Of the five providers
  one is the mock, one is not registered any more, one cannot quote a fee, and
  one takes half of what is paid, so that a quote at another's rate falls
  short.

Deadlock is checked except in `accounts` and `checkout`, where every request
may have ended and nothing is left to happen. Each property has a mutant in
`PROJECT.json`: a plausible slip in one definition (the operators marked
*Slip* in the modules) that makes TLC find the property violated.

**Where code and documents differ** (the violated runs).

1. *Lost callbacks.* A crash, or a lost commit reply, between `MarkPaid` and
   the callback's insert drops a callback without a line in the log, contrary
   to `docs/payment-state-machine.md:294-295` and `README.md:334-335`.
2. *The period of the rotation.* When the last batch is full the next run finds
   nothing and only wraps, so the window is not covered every ceil(N/batch)
   runs as `payment_service.go:555-556` says; two payments and batches of two
   show it. `NoCandidateStarves` gives the bound that does hold, one run more.
3. *The manual retry.* `retryMerchantCallbackData` clears the schedule in one
   statement and inserts the attempt in another; the code guards this pair
   against a client that disconnects, not against a failed insert or a crash.

## 4. Fairness

`PaymentSettlement.FairSpec`: `RunPeriodic` calls the job again and again and
waits for it, hence weak fairness of the job's start and of its steps. A
provider and a database that are asked repeatedly answer in the end: strong
fairness of `CheckConfirmed` and `MarkPaid` *for the reconcile job only*; they
may fail any finite number of times in a row. `<>[]up`: the process stops
crashing some day; a process that restarts for ever may restart before every
provider call. Nothing is assumed of handlers, customers or webhooks, nor of
the expiry job and the clock.

`CallbackDelivery.FairSpec`: weak fairness of a worker's run and of its loop;
strong fairness of `ClaimDue`, `TakeRow` and `RecordResult`, for the same
reason as above; crashes end; time passes (`Tick`, strongly, since it waits for
whatever is at its deadline). `[]<>(no worker is at its claim)` says that the
claims of two processes, milliseconds every five seconds, do not overlap in an
unbroken chain; without it time could stand still in the model although every
single claim is short.

Safety runs assume no fairness.

## 5. Proofs

TLAPS proves the theorems below for every value of the constants. The only
assumptions are the `ASSUME`s of the modules, which TLC evaluates in the runs.

| Theorem | Says | Argument |
|---|---|---|
| `TypeCorrect`, `LedgerCorrect` (`PaymentSettlementProofs`) | `Spec => []TypeOK`, `Spec => []LedgerBacksPayment` | `TypeOK` is inductive, and given it `LedgerBacksPayment` is too. Only `CreatePayment`, `MarkPaid`, `UpdateStatus` and `RefundWithRemaining` change the database (`DatabaseSteps`); each is guarded by the status it replaces. Needs `NetIsNatural` |
| `FlagsComeFromProvider`, `AcknowledgedIsSettled`, `LateFlagsAreTruthful`, `CallbacksAccountedFor` | `[]FlaggedOnlyByProvider`, `[]AckImpliesSettled`, `[]LateFlagTruthful`, `[]CallbackAccounted` | One invariant each on what tasks know: `HeardInv` (a task about to record or settle has heard the provider say so), `AckInv` (one about to acknowledge has seen or made the settlement), `LateInv` (one about to announce knows whether the payment had expired), `AccountInv` (each change of status was won once, and its announcement is queued, in a task, or lost). `Moves` says what one step may do to a task |
| `LifecycleImplemented` | `Spec => ImplementsLifecycle`, the refinement | Under `LifeInv` (types, ledger, `HeardInv`, and that a stored payment is what was asked for) every step maps to a step of `PaymentLifecycle` or to a stutter |
| `RotationStarvesNobody` (`ReconcileRotationProofs`) | `[]NoCandidateStarves`: one run more than ceil(N/batch), wherever rows enter the order and come back into it | `WaitInv` charges the runs a candidate has waited to the others it met (`Paid`), in two stages: the cursor has passed it (`Behind`) and works off what is further down, or it has wrapped and comes down to it. `Before` are the others met that this way still leads past. A run that does not check the candidate spends a whole batch of them (`BatchComesFirst`, `BatchIsSpent`), but for the one that wraps, which comes once, when nothing is left below the cursor (`ShortBatchIsAll`, `Wrap`). A row that enters adds one to those met and at most one to those still in front (`MeetingIsPaid`), wherever it enters. Rests on a lemma about division by the batch size |
| `BalanceTypeCorrect`, `PayoutsCovered`, `PayoutProcessedOnce`, `PayoutsFollowTheAccount` (`MerchantBalanceProofs`) | `[]TypeOK`, `[]PayoutsWithinEarnings`, `ProcessedOnce`, `PaidToCurrentAccount` | The strengthening adds that at most one request per merchant is under way (the lock), that one which has passed `SumLedger` still finds its amount below earnings less payouts, since other writers only add to that difference, and that the account a request has read is the merchant's until it ends |
| `LedgerTellsThePayouts` (`MerchantBalanceProofs`) | `[]TotalPaidOutTruthful` | `HeldInv`: the payouts requested or paid are finitely many and the ledger holds their sum. That a sum over a finite set is one number, and what one member more or less does to it, is shown in the module, by induction over its size |
| `DeliveryTypeCorrect`, `CallbacksAreCarried`, `FailuresAreRequeuedOnce` (`CallbackDeliveryProofs`) | `[]TypeOK`, `[]NothingStranded`, `[]RequeuedOnce` | `StrandInv`: a callback not over has a row that is live or exhausted, or an admin who took its schedule and is about to store an attempt. `OnceInv` is about time: whoever still works on a scheduled row, or has it in a batch, is done with it before the schedule runs out. It holds because a failure is written at most one send after its schedule was drawn, and `Budget + 2 * SendTimeout < RetryDelay` (100 s and twice 30 s against 5 min) |
| `CreationTypeCorrect`, `OneCreatorPerKey`, `AnswersOfAKeyAgree`, `KeysAreBilledOnce` (`PaymentCreationProofs`) | `[]TypeOK`, `[]OneCreator`, `[]AnswersAgree`, `NoSecondBill` | `LeaseInv`: the claim is a lease. While a request with a key is between claim and settling, the key's row is its own, has no payment yet, and the row's age plus the time the request has left stays within the two timeouts, so the row is too young to be taken over or purged (`Leased`). What a key was answered with is what its row names, unless it is in `unlinked` (`Recorded`); a request that still creates would hold a row without a payment, so no key that was answered is billed again. This is where `CreateTimeout + SettleTimeout <= AbandonedAfter` is used: the assumption is the lease argument of `idempotency.go` |
| `PaymentsHaveOrders`, `ReplaysAreTruthful` | `[]PaymentBackedByOrder`, `[]ReplayTruthful` | `ReplayInv`: a request that saves holds an order of the provider it names (`Ordered`); a key's row is of the body of its owner (`Owned`) and names a payment made for that key and body (`PaidFor`); so do answers (`Truthful`) |
| `RowsTyped`, `KeysAreKept`, `OneKeyUnlessOverlapped`, `InactivityHolds`, `RevocationsEndSessions`, `LoginsAfterRevocationWork`, `OnlyOverlapsUndoProfile`, `SecretsAreKept`, `RegistrationsAreWhole` (`AccountsProofs`) | `TypeOK` and the eight properties of the run `accounts` | One invariant per group of rows: `SoleInv` (an environment between DELETE and INSERT has no key), `BarInv` (a call begun under an inactivity that lasts is held up at a check), `SessionInv` (the stored stamp is the latest unless an older one was written over it), `EditInv` and `SecretInv` (what a request has read is current or `since` tells what it missed), `RegInv`. Rounding rests on two lemmas about multiples of a second |
| `CleanupIsInvisible`, `ForgedPrefixIgnored`, `ClosedLinkTakesNoOrder`, `OnlyOverlapsUndoEdits` (`CheckoutProofs`) | `[]CleanupInvisible`, a lemma on `clientIP`, `[]ClosedTakesNoOrder`, `[]LinkAsAsked` | `BucketInv`: a bucket is the one of the limiter that never forgets, or that one would be full by now. This uses `IdleAfter >= MaxTokens`. `ClosedInv` and `AskedInv` say what a checkout or an edit carries |
| `OrdersKeepToTheQuote` | `[]AmountsAsQuoted`: the nominal of an order, and what its provider is asked for | `AmountInv`: a checkout carries a nominal its row and the platform allow, whatever the edits left in the row; `RouteInv` adds who bears the fee as the merchant's row said, and that an order's charge is its own provider's quote. That the quote is enough and the least that is comes from `QuoteSuffices` and `QuoteIsMinimal` (`ChargeIsQuoted`), for every nominal and every rate below 100 % |
| `NobodyOutrunsTheRate` | `RateHeld` | From `BucketInv` a client's reserve is that of the bucket that is never dropped, so the cleaning job cannot change it (`ReserveKept`); time adds one unit, a look takes `Cost` or nothing; and only a bucket that had `Cost` lets a new checkout reach the link (`LetThrough`) |
| `CandidatesAreTheUsable`, `FailoverByPriority` | `resolveProvidersForMerchant` returns exactly the usable rows, in the order read; hence every usable provider of the merchant once, by priority | Induction over the rows the loop has passed (`LoopRuns`, `LoopSelects`); `EnabledOrders` is one to one and so misses no row |
| `OrdersAreRoutedSafely`, `CheckoutTypeCorrect` | `[]RoutedSafely`, `[]TypeOK` | `RouteInv`: the list a checkout carries holds only candidates that may serve it, given what was unhealthy since before it began. `CountInv` bounds the clock and the switches |
| `MerchantNetBounded`, `NetIsNatural`, `QuoteSuffices`, `QuoteIsMinimal` (`FeeProofs`) | Rounding never makes a net negative; the quote is enough and the least that is | Linear arithmetic from one lemma on division rounding up |

Beside the types of the constants the assumptions are few, and each is a fact
about the code's constants or configuration: the two timeouts fit in
`AbandonedAfter`; the retry delay outlasts a batch budget and two sends; a
bucket fills within the idle time (`internal/config/config.go:267` does *not*
relate the configured rate and burst to the fixed 30 minutes, so an operator
could break it); the names a config may carry are finitely many; the addresses
of a request are addresses; names of one kind are not names of another.

*Induction.* The loop over candidates and the sums over finite sets need one,
and the library states it for an operator parameter, which the provers cannot
instantiate. The modules argue by the least counterexample instead: a set of
naturals that is not empty has a smallest member, since `<` is well-founded on
`Nat` (`NaturalsReached`). The same fact gives the greatest row of a batch and
the rightmost place of a header.

**Only model-checked.** Every invariant and action property of the passing runs
is a theorem. The liveness properties `SettledIsRecovered` and
`EveryCallbackEnds` are not: liveness under fairness, and anything that needs
ENABLED, is beyond the prover. The modules declare no RECURSIVE operator; where
the code loops they use recursive functions or the folds of the community
modules.

## 6. What is not modelled

- The bodies of messages: validation of fields, JSON, signatures of webhooks
  and callbacks, CSV, wording.
- Integer overflow: the code bounds every nominal by `MaxNominal`, which keeps
  the products of `internal/fee` inside int64; the models use unbounded
  integers.
- `PaymentCreation` takes the statements of `Claim` to be short against a
  tick: a claim stamped with a time that is old when it commits is outside the
  model (there is no slack for it in 90 + 30 = 120 s).
- A claim that cannot be completed after the payment exists is excused in
  `AnswersAgree` and `NoSecondBill` (`unlinked`); the code logs it and accepts
  a second payment.
- Orders left at a provider without a payment: the comment at
  `CreatePaymentIdempotent` names this limit, and the model has the steps.
- A balance below zero through a refund beside a payout request: accepted by
  `DEPLOY.md`; `PayoutsWithinEarnings` says what remains true.
- Of modelled components: the order of the shutdown steps and their timeouts
  (goroutines and contexts, with no state to keep); `last_used_at` of keys;
  `is_active` of admins and users, which no code path writes; an admin's
  change of its own name; titles, slugs and ownership checks of links. An edit
  of a merchant or of a link asks for one column, while the code's requests may
  replace several at once.
- The fee bearer has its action in `Checkout`, where the charge depends on it;
  `PaymentCreation` and `PaymentSettlement` take the outcome, a fee on top or
  none, as terms of the payment.
- A restart of the process during `Checkout`: it would fill every bucket of the
  limiter and forget which providers are unhealthy, both kept in memory. So
  `RateHeld`, `CleanupInvisible` and `RoutedSafely` are about one process's
  life.
- Components without a module: dashboards, listings and exports (reads and
  formatting), the address guard (pure predicates, seen as `SendRefused`),
  configuration and logging (read once, plumbing), schema, seeds and scripts.

**Exceptions the properties name.** Each is a way in which the code really
behaves, left in the model and excused by name: two revocations at once may
store the older stamp over the later one (`undone`), although the comment at
`RevokeSessions` speaks of every token issued before; two overlapping
rotations leave two live keys (`overlapped`); a rotation that fails halfway
leaves none (`deleted`); an edit that overlaps another writes the older column
back (`since`), which can switch a link on again; a registration cut short
leaves a merchant without an owner. `UpdateLink` does not hold new bounds to
the platform's limits, which `EffectiveBounds` makes up for at every checkout;
disabling a merchant's only config sends its payments to the defaults.

## 7. Plan

Done, in this order: `PaymentLifecycle`, `Fee`, `PaymentSettlement` (the heart
of the system), `ReconcileRotation`, `MerchantBalance`, `CallbackDelivery`,
`PaymentCreation`; then access (`AccountRows` to `Accounts`), then routing,
links and the limiter (`Checkout`); with the proofs of section 5.

What is left, in the order of what it would show:

1. Shutdown: that `waitForJobs` lets the batch in hand end before the database
   closes, with the timeouts of `cmd/api`.
2. The settlement's reconcile windows with several payments in the safety run,
   beyond what TLC explores in minutes today.
3. An abstract specification of payouts in which a request is one step, and the
   proof that the four statements of `PayoutRepository.Request` implement it.
