------------------------------ MODULE Checkout ------------------------------
(***************************************************************************)
(* A customer pays through a payment link, while the merchant edits it and *)
(* an admin changes the merchant's status, who bears the fee, its provider *)
(* configs and the providers' health.  A request is a goroutine; each of   *)
(* its actions is one SQL statement, one look at the memory or one call of *)
(* a provider.                                                             *)
(***************************************************************************)
EXTENDS RateLimiter, Routing, PaymentLinks, Fee

CONSTANTS
    Rate,         \* basis points a provider quotes its fee by, or None if it cannot
    Changes,      \* the configs an admin writes
    MaxTime,      \* bounds the clock
    MaxSwitches,  \* bounds the changes of the admin
    Mixes         \* what runs together: operations, routes, amounts, links, configs
                  \* at the start and the clock's end (bounds the run)

ASSUME CheckoutAssumption ==
    /\ Rate \in [Provider -> 0 .. bpsDenominator - 1 \union {None}]
    /\ Changes \subseteq Config
    /\ {MaxTime, MaxSwitches} \subseteq Nat
    /\ \A m \in Mixes : /\ m.until \in 0 .. MaxTime /\ m.amounts \subseteq Amount
                        /\ m.links \subseteq Link
                        /\ \A route \in m.routes : /\ route.peer \in IP
                                                 /\ route.forwarded \in Seq(IP \union Unreadable)
                        /\ m.stored \subseteq [Provider -> Config \union {NoConfig}]

VARIABLES
    active,      \* the merchant's is_active
    bearer,      \* its fee_bearer
    orders,      \* orders[r]: the order a provider accepted for r, or None
    task,        \* where each request is
    mix,
    \* history
    switches,
    closed,      \* by cause, checkouts begun when it stood in their way, as it still does
    sick         \* sick[r]: providers unhealthy since before r began

checkoutVars == <<active, bearer, orders, switches, closed, sick>>
vars == <<now, limiterVars, routingVars, linkVars, checkoutVars, task, mix>>

Unborn == [op |-> "none", step |-> "new", amount |-> None, row |-> None,
           bearer |-> None, column |-> None, value |-> None, list |-> <<>>]
At(r, op, step) == task[r].op = op /\ task[r].step = step
Finish(r, step) == task' = [task EXCEPT ![r] = [Unborn EXCEPT !.op = task[r].op, !.step = step]]
\* Edits that have read the row and not written it.
Editing == {r \in Request : At(r, "edit", "write")}

\* What stands in a customer's way: the link (missing, off or past its
\* deadline), or its merchant's status.  They are looked at one after the other.
Causes == {"link", "merchant"}
Stands(cause) ==
    IF cause = "merchant" THEN ~active
    ELSE link = None \/ ~link.active \/ (link.expires # None /\ link.expires < now)
Reclose == closed' = [c \in Causes |-> IF Stands(c)' THEN closed[c] ELSE {}]

Init ==
    /\ mix \in Mixes
    /\ LimiterInit /\ RoutingInit(mix.stored) /\ LinkInit
    /\ active = TRUE /\ bearer = "merchant"
    /\ orders = [r \in Request |-> None]
    /\ task = [r \in Request |-> Unborn]
    /\ switches = 0
    /\ closed = [c \in Causes |-> {}]
    /\ sick = [r \in Request |-> {}]

-----------------------------------------------------------------------------
(* InitiatePaymentLinkCheckout, behind the public limiter.                 *)

\* The limiter's turn; one that is turned away ends here.
Arrive(r, peer, forwarded, a) ==
    LET ip == clientIP(peer, forwarded)
    IN /\ task[r].step = "new" /\ "checkout" \in mix.ops
       /\ allow(ip)
       /\ task' = [task EXCEPT ![r] = [Unborn EXCEPT !.op = "checkout", !.amount = a,
             !.step = IF Passes(Bucket(ip)) THEN "link" ELSE "refused"]]
       /\ closed' = [c \in Causes |-> IF Stands(c) THEN closed[c] \union {r} ELSE closed[c]]
       /\ sick' = [sick EXCEPT ![r] = health]
       /\ UNCHANGED <<routingVars, linkVars, active, bearer, orders, switches, mix>>

\* The public page of the link: it takes its share of the bucket.
GetPublicLink(peer, forwarded) ==
    /\ "visit" \in mix.ops
    /\ allow(clientIP(peer, forwarded))
    /\ UNCHANGED <<routingVars, linkVars, checkoutVars, task, mix>>

\* InitiateCheckout reads the link once and settles the amount by it.
ReadLink(r) ==
    LET a == task[r].amount
    IN /\ At(r, "checkout", "link")
       /\ IF link # None /\ IsAvailable(link, now) /\ Accepts(link, a)
          THEN task' = [task EXCEPT ![r].step = "merchant", ![r].row = link,
                                    ![r].amount = Nominal(link, a)]
          ELSE Finish(r, "refused")
       /\ UNCHANGED <<now, limiterVars, routingVars, linkVars, checkoutVars, mix>>

\* checkMerchantForCreate reads status and fee bearer at once; a sandbox link is
\* the mock's.
CheckMerchant(r) ==
    /\ At(r, "checkout", "merchant")
    /\ IF ~active THEN Finish(r, "refused")
       ELSE IF task[r].row.env = "sandbox"
       THEN task' = [task EXCEPT ![r].step = "order", ![r].bearer = bearer,
                        ![r].list = <<[provider |-> Sandbox, failover |-> FALSE]>>]
       ELSE task' = [task EXCEPT ![r].step = "configs", ![r].bearer = bearer]
    /\ UNCHANGED <<now, limiterVars, routingVars, linkVars, checkoutVars, mix>>

ReadConfigs(r) ==
    /\ At(r, "checkout", "configs")
    /\ \E s \in EnabledOrders :
          task' = [task EXCEPT ![r].step = "resolve", ![r].list = [i \in DOMAIN s |-> Row(s[i])]]
    /\ UNCHANGED <<now, limiterVars, routingVars, linkVars, checkoutVars, mix>>

\* The health of the providers, in memory (one after the other in the code;
\* what is stated of it is older than the checkout).
Resolve(r) ==
    LET list == Candidates(task[r].list)
    IN /\ At(r, "checkout", "resolve")
       /\ IF list = <<>> THEN Finish(r, "refused")
          ELSE task' = [task EXCEPT ![r].step = "order", ![r].list = list]
       /\ UNCHANGED <<now, limiterVars, routingVars, linkVars, checkoutVars, mix>>

\* A provider that cannot quote its fee takes no order of a customer's fee.
CanCharge(p, who) == who = "customer" => Rate[p] # None
\* Slip: one quote for all candidates, at the platform's usual rate.
chargeAtOneRate(p, who, nominal) ==
    IF who = "customer" THEN QuoteTotalBasisPoints(nominal, ProviderBasisPoints) ELSE nominal
\* chargeFor: the nominal, or the provider's quote of the total.
chargeFor(p, who, nominal) ==
    IF who = "customer" THEN QuoteTotalBasisPoints(nominal, Rate[p]) ELSE nominal

\* The first candidate left takes the order; the payment's insert may still fail.
OrderAccepted(r) ==
    LET t == task[r]
        p == Head(t.list).provider
    IN /\ At(r, "checkout", "order")
       /\ CanCharge(p, t.bearer)
       /\ orders' = [orders EXCEPT ![r] =
             [provider |-> p, nominal |-> t.amount, charge |-> chargeFor(p, t.bearer, t.amount),
              bearer |-> t.bearer, link |-> t.row]]
       /\ Finish(r, "done")
       /\ UNCHANGED <<now, limiterVars, routingVars, linkVars,
                      active, bearer, switches, closed, sick, mix>>

\* It refuses, or cannot quote: the next one, if this one's row lets it.
OrderRefused(r) ==
    LET list == task[r].list
    IN /\ At(r, "checkout", "order")
       /\ IF Head(list).failover /\ Len(list) > 1
          THEN task' = [task EXCEPT ![r].list = Tail(list)] ELSE Finish(r, "failed")
       /\ UNCHANGED <<now, limiterVars, routingVars, linkVars, checkoutVars, mix>>

-----------------------------------------------------------------------------
(* The merchant's dashboard.                                               *)

MerchantCreates(l) ==
    /\ "create" \in mix.ops
    /\ CreateLink(l)
    /\ UNCHANGED <<now, limiterVars, routingVars, active, bearer, orders, switches, sick, task, mix>>
    /\ Reclose

\* UpdateLink reads the row; bounds that would cross are refused.
ReadForEdit(r, c, v) ==
    /\ task[r].step = "new" /\ "edit" \in mix.ops
    /\ link # None
    /\ Ordered([link EXCEPT ![c] = v])
    /\ task' = [task EXCEPT ![r] = [Unborn EXCEPT
          !.op = "edit", !.step = "write", !.row = link, !.column = c, !.value = v]]
    /\ UNCHANGED <<now, limiterVars, routingVars, linkVars, checkoutVars, mix>>

WriteEdit(r) ==
    /\ At(r, "edit", "write")
    /\ WriteLink(r, task[r].row, task[r].column, task[r].value, Editing)
    /\ Finish(r, "done")
    /\ UNCHANGED <<now, limiterVars, routingVars, active, bearer, orders, switches, sick, mix>>
    /\ Reclose

\* SetPaymentLinkActive.
SetLinkActive(r, on) ==
    /\ task[r].step = "new" /\ "edit" \in mix.ops
    /\ link # None
    /\ SetActive(r, on, Editing)
    /\ task' = [task EXCEPT ![r] = [Unborn EXCEPT !.op = "toggle", !.step = "done"]]
    /\ UNCHANGED <<now, limiterVars, routingVars, active, bearer, orders, switches, sick, mix>>
    /\ Reclose

-----------------------------------------------------------------------------
(* The admin, the clock and the cleaning job.                              *)

Spend(op) == op \in mix.ops /\ switches < MaxSwitches /\ switches' = switches + 1

SetMerchantActive ==
    /\ Spend("switch")
    /\ active' = ~active
    /\ UNCHANGED <<now, limiterVars, routingVars, linkVars, bearer, orders, sick, task, mix>>
    /\ Reclose

\* An UPDATE of that column alone.
SetFeeBearer ==
    /\ Spend("bearer")
    /\ bearer' = IF bearer = "merchant" THEN "customer" ELSE "merchant"
    /\ UNCHANGED <<now, limiterVars, routingVars, linkVars, active, orders, closed, sick, task, mix>>

UpsertMerchantProviderConfig(p) ==
    /\ Spend("config")
    /\ \E c \in Changes : UpsertConfig(p, c)
    /\ UNCHANGED <<now, limiterVars, linkVars, active, bearer, orders, closed, sick, task, mix>>

DeleteMerchantProviderConfig(p) ==
    /\ Spend("config")
    /\ DeleteConfig(p)
    /\ UNCHANGED <<now, limiterVars, linkVars, active, bearer, orders, closed, sick, task, mix>>

UpdateProviderHealth(p) ==
    /\ Spend("config")
    /\ SetProviderHealth(p)
    /\ sick' = [r \in Request |-> sick[r] \intersect health']
    /\ UNCHANGED <<now, limiterVars, linkVars, active, bearer, orders, closed, task, mix>>

Tick ==
    /\ now < mix.until
    /\ now' = now + 1
    /\ UNCHANGED <<limiterVars, routingVars, linkVars, active, bearer, orders, switches, sick, task, mix>>
    /\ Reclose

Cleanup ==
    /\ "visit" \in mix.ops
    /\ CleanupBegin \/ CleanupSweep
    /\ UNCHANGED <<routingVars, linkVars, checkoutVars, task, mix>>

\* A statement fails, the caller goes away or the process stops.
Fail(r) ==
    /\ task[r].step \notin {"new", "done", "refused", "failed"}
    /\ Finish(r, "failed")
    /\ UNCHANGED <<now, limiterVars, routingVars, linkVars, checkoutVars, mix>>

Next ==
    \/ \E route \in mix.routes : GetPublicLink(route.peer, route.forwarded)
    \/ \E r \in Request :
          \/ \E route \in mix.routes, a \in mix.amounts : Arrive(r, route.peer, route.forwarded, a)
          \/ ReadLink(r) \/ CheckMerchant(r) \/ ReadConfigs(r) \/ Resolve(r)
          \/ OrderAccepted(r) \/ OrderRefused(r)
          \/ \E c \in Columns : \E v \in Values(c) : ReadForEdit(r, c, v)
          \/ WriteEdit(r)
          \/ \E on \in BOOLEAN : SetLinkActive(r, on)
          \/ Fail(r)
    \/ \E l \in mix.links : MerchantCreates(l)
    \/ \E p \in Provider :
          \/ UpsertMerchantProviderConfig(p) \/ DeleteMerchantProviderConfig(p)
          \/ UpdateProviderHealth(p)
    \/ SetMerchantActive \/ SetFeeBearer
    \/ Tick
    \/ Cleanup
Spec == Init /\ [][Next]_vars

-----------------------------------------------------------------------------
Candidate == [provider : Provider, failover : BOOLEAN]
Steps == {"new", "link", "merchant", "configs", "resolve", "order", "write",
          "done", "refused", "failed"}
Bearers == {"merchant", "customer"}
Order == [provider : Provider, nominal : Amount, charge : Nat, bearer : Bearers, link : Link]

\* Rows, buckets, requests and orders stay within their ranges.
TypeOK ==
    /\ LimiterTypeOK /\ now <= MaxTime
    /\ configs \in [Provider -> Config \union {NoConfig}]
    /\ health \subseteq Provider
    /\ link \in Link \union {None}
    /\ active \in BOOLEAN /\ bearer \in Bearers
    /\ orders \in [Request -> Order \union {None}]
    /\ \A r \in Request :
          /\ task[r].step \in Steps
          /\ task[r].amount \in Amount \union {None}
          /\ task[r].row \in Link \union {None}
          /\ task[r].bearer \in Bearers \union {None}
          /\ task[r].column # None => task[r].value \in Values(task[r].column)
          /\ \A i \in DOMAIN task[r].list : task[r].list[i] \in Candidate
    /\ switches \in 0 .. MaxSwitches
    /\ closed \in [Causes -> SUBSET Request]
    /\ sick \in [Request -> SUBSET Provider]

\* A client's reserve grows no faster than time refills it, through cleanings
\* too, and a checkout that is let through takes its cost out of one.  So over
\* any stretch of time a client starts at most a burst of checkouts beside
\* those that the stretch refills.
Reserve(ip) == refill(Bucket(ip)).tokens
RateHeld == [][
    /\ \A ip \in IP : Reserve(ip)' <= Reserve(ip) + (now' - now)
    /\ \A r \in Request : task[r].step = "new" /\ At(r, "checkout", "link")' =>
          \E ip \in IP : Reserve(ip) >= Cost /\ Reserve(ip)' = Reserve(ip) - Cost]_vars

\* The least total that leaves the nominal once a fee of bps is taken off it.
JustCovers(total, nominal, bps) ==
    /\ MerchantNetBasisPoints(total, bps) >= nominal
    /\ MerchantNetBasisPoints(total - 1, bps) < nominal

\* Whatever edits overlap, a link's bounds never cross, and an order is for a
\* nominal within the platform's limits, which is a fixed link's price.  The
\* provider is asked for that nominal or, when the customer bears the fee, for
\* the least total that leaves it after the fee of that provider, whichever
\* were tried before it.  (Such a total may exceed the platform's maximum.)
AmountsAsQuoted ==
    /\ link # None => Ordered(link)
    /\ \A r \in Request : orders[r] # None =>
          LET o == orders[r]
          IN /\ PlatformMin <= o.nominal /\ o.nominal <= PlatformMax
             /\ o.link.amount # None => o.nominal = o.link.amount
             /\ IF o.bearer = "customer"
                THEN Rate[o.provider] # None /\ JustCovers(o.charge, o.nominal, Rate[o.provider])
                ELSE o.charge = o.nominal

\* A checkout begun while its link was off or past its deadline never becomes
\* an order before the link is available again; nor does one begun while the
\* merchant was inactive before the merchant is active again.
ClosedTakesNoOrder == \A c \in Causes : \A r \in closed[c] : orders[r] = None

\* A link's columns hold what was last asked for, unless an edit that had
\* read the row before was written after: the only way a link that was
\* switched off comes back on by itself.
LinkAsAsked == link # None => \A c \in Columns :
    link[c] # asked[c].value =>
        \E q \in Request : At(q, "edit", "done") /\ asked[c].by \in since[q]

\* An order of a production link is never the mock's, one of a sandbox link
\* always is, and no order goes to a provider that was unhealthy from before
\* the checkout began.
RoutedSafely == \A r \in Request : orders[r] # None =>
    /\ (orders[r].provider = Sandbox) <=> (orders[r].link.env = "sandbox")
    /\ orders[r].link.env = "production" => orders[r].provider \notin sick[r]
=============================================================================
