--------------------------- MODULE CheckoutProofs ---------------------------
(***************************************************************************)
(* What is proved of the checkout for every number of requests, clients,   *)
(* amounts, deadlines and every set of operations that run together: the   *)
(* limiter's cleaning job changes no answer and no client outruns its      *)
(* rate, a closed link or merchant takes no order, an order is for a       *)
(* nominal the link and the platform allow and charged as its own provider *)
(* quotes it, only an edit that overlapped another undoes it, and a        *)
(* payment is tried at the usable providers of its merchant, in the order  *)
(* of their priority, and at no others.                                    *)
(***************************************************************************)
EXTENDS Checkout, FeeProofs, NaturalsInduction, WellFoundedInduction, FiniteSetTheorems

-----------------------------------------------------------------------------
(* The limiter.                                                            *)

\* A bucket is the one of a limiter that never cleans, or its client's would
\* have filled up by now.
BucketInv == \A ip \in IP :
    IF buckets[ip] = NoBucket
    THEN kept[ip].tokens + (now - kept[ip].lastRefill) >= MaxTokens
    ELSE buckets[ip] = kept[ip]
LimiterInv == LimiterTypeOK /\ BucketInv

\* What a step of the whole may do to the limiter.
LEMMA LimiterFrame ==
    ASSUME [Next]_vars
    PROVE  \/ \E ip : allow(ip)
           \/ CleanupBegin
           \/ CleanupSweep
           \/ UNCHANGED limiterVars /\ now' \in {now, now + 1}
<1>1. CASE UNCHANGED vars
  BY <1>1 DEF vars
<1>2. ASSUME NEW route \in mix.routes, GetPublicLink(route.peer, route.forwarded)
      PROVE  \E ip : allow(ip)
  BY <1>2 DEF GetPublicLink
<1>3. ASSUME NEW r \in Request, NEW route \in mix.routes, NEW a \in mix.amounts,
             Arrive(r, route.peer, route.forwarded, a)
      PROVE  \E ip : allow(ip)
  BY <1>3 DEF Arrive
<1>4. ASSUME NEW r \in Request,
             \/ ReadLink(r) \/ CheckMerchant(r) \/ ReadConfigs(r) \/ Resolve(r)
             \/ OrderAccepted(r) \/ OrderRefused(r)
             \/ \E c \in Columns : \E v \in Values(c) : ReadForEdit(r, c, v)
             \/ WriteEdit(r)
             \/ \E on \in BOOLEAN : SetLinkActive(r, on)
             \/ Fail(r)
      PROVE  UNCHANGED limiterVars /\ now' = now
  BY <1>4 DEF ReadLink, CheckMerchant, ReadConfigs, Resolve, OrderAccepted, OrderRefused,
       ReadForEdit, WriteEdit, SetLinkActive, Fail
<1>5. ASSUME \/ \E l \in mix.links : MerchantCreates(l)
             \/ \E p \in Provider : \/ UpsertMerchantProviderConfig(p)
                                    \/ DeleteMerchantProviderConfig(p)
                                    \/ UpdateProviderHealth(p)
             \/ SetMerchantActive \/ SetFeeBearer
             \/ Tick
      PROVE  UNCHANGED limiterVars /\ now' \in {now, now + 1}
  BY <1>5 DEF MerchantCreates, UpsertMerchantProviderConfig, DeleteMerchantProviderConfig,
       UpdateProviderHealth, SetMerchantActive, SetFeeBearer, Tick
<1>6. CASE Cleanup
  BY <1>6 DEF Cleanup
<1> QED BY <1>1, <1>2, <1>3, <1>4, <1>5, <1>6 DEF Next

\* A bucket that is looked at keeps its type, and is as of now.
LEMMA TakenType ==
    ASSUME now \in Nat, NEW b \in BucketType, b.lastRefill <= now
    PROVE  /\ Taken(b) \in BucketType
           /\ Taken(b).lastRefill = now
BY LimiterAssumption DEF Taken, Passes, refill, Capped, BucketType

\* Two buckets that refill to the same are the same once looked at.
LEMMA TakenEqual ==
    ASSUME NEW b, NEW c, refill(b).tokens = refill(c).tokens
    PROVE  Taken(b) = Taken(c)
BY DEF Taken, Passes, refill

LEMMA LimiterStart == Init => LimiterInv
BY LimiterAssumption DEF Init, LimiterInit, LimiterInv, LimiterTypeOK, BucketInv, BucketType

\* What is in the map, or what a new bucket would hold, refills to the same as
\* the bucket that was never dropped.
LEMMA BucketsAgree == LimiterInv => CleanupInvisible
<1> SUFFICES ASSUME LimiterInv, NEW ip \in IP
             PROVE  refill(Bucket(ip)).tokens = refill(kept[ip]).tokens
  BY DEF CleanupInvisible
<1> USE LimiterAssumption
<1>1. CASE buckets[ip] = NoBucket
  <2>1. kept[ip].tokens + (now - kept[ip].lastRefill) >= MaxTokens
    BY <1>1 DEF LimiterInv, BucketInv
  <2>2. refill(kept[ip]).tokens = MaxTokens
    <3>1. now \in Nat /\ kept[ip] \in BucketType
      BY DEF LimiterInv, LimiterTypeOK
    <3>2. MaxTokens \in Nat /\ kept[ip].tokens \in Int /\ kept[ip].lastRefill \in Int
      BY <3>1 DEF BucketType
    <3> QED BY <2>1, <3>1, <3>2 DEF refill, Capped
  <2>3. refill(Full).tokens = MaxTokens
    BY DEF LimiterInv, LimiterTypeOK, Full, refill, Capped
  <2> QED BY <1>1, <2>2, <2>3 DEF Bucket
<1>2. CASE buckets[ip] # NoBucket
  BY <1>2 DEF LimiterInv, BucketInv, Bucket
<1> QED BY <1>1, <1>2

LEMMA LimiterStep == LimiterInv /\ [Next]_vars => LimiterInv'
<1> SUFFICES ASSUME LimiterInv, [Next]_vars PROVE LimiterInv'
  OBVIOUS
<1> USE LimiterAssumption
<1>1. ASSUME NEW ip, allow(ip) PROVE LimiterInv'
  <2>1. now' = now /\ cutoff' = cutoff
    BY <1>1 DEF allow
  <2>2. CASE ip \in IP
    <3>1. refill(Bucket(ip)).tokens = refill(kept[ip]).tokens
      BY <2>2, BucketsAgree DEF CleanupInvisible
    <3>2. Taken(Bucket(ip)) = Taken(kept[ip])
      BY <3>1, TakenEqual
    <3>3. Taken(kept[ip]) \in BucketType /\ Taken(kept[ip]).lastRefill = now
      BY <2>2, TakenType DEF LimiterInv, LimiterTypeOK
    <3>4. Taken(kept[ip]) # NoBucket
      BY <3>3 DEF BucketType
    <3> QED BY <1>1, <2>1, <2>2, <3>2, <3>3, <3>4
         DEF allow, LimiterInv, LimiterTypeOK, BucketInv
  <2>3. CASE ip \notin IP
    BY <1>1, <2>1, <2>3 DEF allow, LimiterInv, LimiterTypeOK, BucketInv
  <2> QED BY <2>2, <2>3
<1>2. CASE CleanupBegin
  BY <1>2 DEF CleanupBegin, LimiterInv, LimiterTypeOK, BucketInv
<1>3. CASE CleanupSweep
  BY <1>3 DEF CleanupSweep, LimiterInv, LimiterTypeOK, BucketInv, BucketType
<1>4. CASE UNCHANGED limiterVars /\ now' \in {now, now + 1}
  BY <1>4 DEF limiterVars, LimiterInv, LimiterTypeOK, BucketInv, BucketType
<1> QED BY <1>1, <1>2, <1>3, <1>4, LimiterFrame

\* Dropping idle buckets changes no answer of the limiter, whatever its rate,
\* its burst and the addresses, provided a bucket fills up within IdleAfter.
THEOREM CleanupIsInvisible == Spec => []CleanupInvisible
BY BucketsAgree, LimiterStart, LimiterStep, PTL DEF Spec

\* A nonempty set of places of a sequence has a rightmost one.
LEMMA RightmostExists ==
    ASSUME NEW n \in Nat, NEW P \in SUBSET (1 .. n), P # {}
    PROVE  /\ Rightmost(P) \in P
           /\ \A j \in P : j <= Rightmost(P)
<1>0. \A k \in P : k \in Nat /\ k <= n
  OBVIOUS
<1> DEFINE T == {n - i : i \in P}
<1>1. T \subseteq Nat /\ T # {}
  <2>1. ASSUME NEW i \in P PROVE n - i \in Nat
    <3>1. i \in Nat /\ i <= n
      BY <1>0, Zenon
    <3> HIDE DEF T
    <3> QED BY <3>1
  <2>2. T \subseteq Nat
    BY <2>1, Zenon
  <2>3. PICK k : k \in P
    BY Zenon
  <2>4. n - k \in T
    BY <2>3, Zenon
  <2> QED BY <2>2, <2>4, Zenon
<1>2. PICK t \in T : \A u \in T : <<u, t>> \notin OpToRel(<, Nat)
  BY <1>1, NatLessThanWellFounded, WFMin, Zenon
<1>3. PICK i \in P : t = n - i
  BY <1>2
<1>4. \A u \in T : ~(u < t)
  <2> SUFFICES ASSUME NEW u \in T, u < t PROVE FALSE
    OBVIOUS
  <2>1. u \in Nat /\ t \in Nat
    BY <1>1
  <2>2. <<u, t>> \in OpToRel(<, Nat)
    BY <2>1 DEF OpToRel
  <2> QED BY <1>2, <2>2
<1>5. ASSUME NEW j \in P PROVE j <= i
  <2>1. n - j \in T
    BY Zenon
  <2>2. ~(n - j < n - i)
    BY <1>3, <1>4, <2>1
  <2>3. j \in Nat /\ i \in Nat
    BY <1>0, Zenon
  <2> HIDE DEF T
  <2> QED BY <2>2, <2>3
<1> QED BY <1>5 DEF Rightmost

\* The rightmost place is the only one that no other is right of.
LEMMA RightmostUnique ==
    ASSUME NEW P \in SUBSET Nat, NEW i \in P, \A j \in P : j <= i
    PROVE  Rightmost(P) = i
<1> DEFINE c == CHOOSE k \in P : \A j \in P : j <= k
<1>1. c \in P /\ \A j \in P : j <= c
  OBVIOUS
<1> HIDE DEF c
<1>2. c <= i /\ i <= c
  BY <1>1
<1>3. c = i
  BY <1>1, <1>2
<1> QED BY <1>3 DEF Rightmost, c

\* What a client writes into the header before what a trusted proxy adds does
\* not change the address it is counted under: entries further left are not
\* looked at.
THEOREM ForgedPrefixIgnored ==
    ASSUME NEW peer, NEW f \in Seq(IP \union Unreadable), NEW g \in Seq(IP \union Unreadable),
           Places(g) # {}
    PROVE  clientIP(peer, f \o g) = clientIP(peer, g)
<1> DEFINE i == Rightmost(Places(g))
<1>1. Places(g) \in SUBSET (1 .. Len(g)) /\ Len(g) \in Nat /\ Len(f) \in Nat
  BY DEF Places
<1>2. i \in Places(g) /\ \A j \in Places(g) : j <= i
  BY <1>1, RightmostExists
<1> HIDE DEF i
<1>3. DOMAIN (f \o g) = 1 .. Len(f) + Len(g)
  OBVIOUS
<1>4. (f \o g)[Len(f) + i] = g[i]
  BY <1>1, <1>2
<1>5. Len(f) + i \in Places(f \o g)
  BY <1>1, <1>2, <1>3, <1>4 DEF Places
<1>6. ASSUME NEW k \in Places(f \o g) PROVE k <= Len(f) + i
  <2>1. k \in 1 .. Len(f) + Len(g) /\ (f \o g)[k] \notin Proxies
    BY <1>3, <1>6 DEF Places
  <2>2. CASE k <= Len(f)
    BY <1>1, <1>2, <2>1, <2>2
  <2>3. CASE k > Len(f)
    <3>1. k - Len(f) \in 1 .. Len(g) /\ (f \o g)[k] = g[k - Len(f)]
      BY <1>1, <2>1, <2>3
    <3>2. k - Len(f) \in Places(g)
      BY <2>1, <3>1 DEF Places
    <3> QED BY <1>1, <1>2, <2>1, <3>2
  <2> QED BY <1>1, <2>1, <2>2, <2>3
<1>7. Places(f \o g) \in SUBSET Nat
  BY <1>1, <1>3 DEF Places
<1>8. Rightmost(Places(f \o g)) = Len(f) + i
  BY <1>5, <1>6, <1>7, RightmostUnique
<1> QED BY <1>4, <1>5, <1>8 DEF clientIP, i

-----------------------------------------------------------------------------
(* What each step does to the requests.                                    *)

Fields == {"op", "step", "amount", "row", "bearer", "column", "value", "list"}
Carrying == {"merchant", "configs", "resolve", "order"}
TasksOK ==
    /\ DOMAIN task = Request
    /\ \A r \in Request : /\ DOMAIN task[r] = Fields
                          /\ task[r].amount \in Bound
                          /\ task[r].row \in Link \union {None}
LinkTyped == link \in Link \union {None}
OthersKept(r) == \A q \in Request : q # r => task'[q] = task[q]

LEMMA FinishEffect ==
    ASSUME TasksOK, NEW r \in Request, NEW step, Finish(r, step)
    PROVE  /\ TasksOK' /\ OthersKept(r)
           /\ task'[r].op = task[r].op /\ task'[r].step = step
BY DEF Finish, Unborn, TasksOK, Fields, Bound, OthersKept

LEMMA ArriveEffect ==
    ASSUME TasksOK, mix \in Mixes, NEW r \in Request, NEW peer, NEW f, NEW a \in mix.amounts,
           Arrive(r, peer, f, a)
    PROVE  /\ TasksOK' /\ OthersKept(r)
           /\ task'[r].op = "checkout" /\ task'[r].step \in {"link", "refused"}
           /\ task'[r].amount = a
BY CheckoutAssumption DEF Arrive, Unborn, TasksOK, Fields, Bound, OthersKept

LEMMA ReadLinkEffect ==
    ASSUME TasksOK, LinkTyped, NEW r \in Request, ReadLink(r)
    PROVE  /\ TasksOK' /\ OthersKept(r)
           /\ task'[r].op = "checkout"
           /\ \/ task'[r].step = "refused"
              \/ /\ link # None /\ IsAvailable(link, now) /\ Accepts(link, task[r].amount)
                 /\ task'[r].step = "merchant" /\ task'[r].row = link
                 /\ task'[r].amount = Nominal(link, task[r].amount)
<1> DEFINE ok == link # None /\ IsAvailable(link, now) /\ Accepts(link, task[r].amount)
<1>1. CASE ok
  BY <1>1 DEF ReadLink, At, TasksOK, LinkTyped, Fields, Bound, OthersKept, Nominal, Link
<1>2. CASE ~ok
  BY <1>2, FinishEffect DEF ReadLink, At
<1> QED BY <1>1, <1>2

LEMMA CheckoutEffect ==
    ASSUME TasksOK, NEW r \in Request,
           CheckMerchant(r) \/ ReadConfigs(r) \/ Resolve(r) \/ OrderRefused(r)
    PROVE  /\ TasksOK' /\ OthersKept(r)
           /\ task[r].op = "checkout" /\ task[r].step \in Carrying /\ task'[r].op = "checkout"
           /\ \/ task'[r].step \in {"refused", "failed"}
              \/ /\ task'[r].step \in Carrying \ {"merchant"}
                 /\ task'[r].row = task[r].row /\ task'[r].amount = task[r].amount
           /\ task[r].step = "merchant" => active \/ task'[r].step = "refused"
<1>1. CASE CheckMerchant(r)
  <2>1. CASE ~active
    BY <1>1, <2>1, FinishEffect DEF CheckMerchant, At, Carrying
  <2>2. CASE active
    BY <1>1, <2>2 DEF CheckMerchant, At, Carrying, TasksOK, Fields, OthersKept
  <2> QED BY <2>1, <2>2
<1>2. CASE ReadConfigs(r)
  <2>1. PICK list : task' = [task EXCEPT ![r].step = "resolve", ![r].list = list]
    BY <1>2 DEF ReadConfigs
  <2>2. task[r].op = "checkout" /\ task[r].step = "configs"
    BY <1>2 DEF ReadConfigs, At
  <2> QED BY <2>1, <2>2 DEF Carrying, TasksOK, Fields, OthersKept
<1>3. CASE Resolve(r)
  <2> DEFINE list == Candidates(task[r].list)
  <2> HIDE DEF list
  <2>1. CASE list = <<>>
    BY <1>3, <2>1, FinishEffect DEF Resolve, At, Carrying, list
  <2>2. CASE list # <<>>
    <3>1. task' = [task EXCEPT ![r].step = "order", ![r].list = list]
      BY <1>3, <2>2 DEF Resolve, list
    <3>2. task[r].op = "checkout" /\ task[r].step = "resolve"
      BY <1>3 DEF Resolve, At
    <3> QED BY <3>1, <3>2 DEF Carrying, TasksOK, Fields, OthersKept
  <2> QED BY <2>1, <2>2
<1>4. CASE OrderRefused(r)
  <2>1. CASE Finish(r, "failed")
    BY <1>4, <2>1, FinishEffect DEF OrderRefused, At, Carrying
  <2>2. CASE ~Finish(r, "failed")
    <3> DEFINE rest == Tail(task[r].list)
    <3> HIDE DEF rest
    <3>1. task' = [task EXCEPT ![r].list = rest]
      BY <1>4, <2>2 DEF OrderRefused, rest
    <3> QED BY <1>4, <3>1 DEF OrderRefused, At, Carrying, TasksOK, Fields, OthersKept
  <2> QED BY <2>1, <2>2
<1> QED BY <1>1, <1>2, <1>3, <1>4

LEMMA EditEffect ==
    ASSUME TasksOK, LinkTyped, NEW r \in Request, NEW c \in Columns, NEW v \in Values(c),
           ReadForEdit(r, c, v)
    PROVE  /\ TasksOK' /\ OthersKept(r)
           /\ task'[r].op = "edit" /\ task'[r].step = "write" /\ task'[r].row = link
           /\ task'[r].column = c /\ task'[r].value = v
BY DEF ReadForEdit, Unborn, TasksOK, LinkTyped, Fields, Bound, OthersKept

LEMMA ToggleEffect ==
    ASSUME TasksOK, NEW r \in Request, NEW on \in BOOLEAN, SetLinkActive(r, on)
    PROVE  /\ TasksOK' /\ OthersKept(r)
           /\ task'[r].op = "toggle" /\ task'[r].step = "done"
BY DEF SetLinkActive, Unborn, TasksOK, Fields, Bound, OthersKept

\* Visits, the cleaning job and what the admin sets but the merchant's status
\* leave requests and link alone.
still == <<now, linkVars, active, orders, closed, task, mix>>
Carry(r) == CheckMerchant(r) \/ ReadConfigs(r) \/ Resolve(r) \/ OrderRefused(r)

LEMMA StepCases ==
    ASSUME [Next]_vars
    PROVE  \/ UNCHANGED still
           \/ \E r \in Request :
                 \/ \E peer, f : \E a \in mix.amounts : Arrive(r, peer, f, a)
                 \/ ReadLink(r) \/ Carry(r) \/ OrderAccepted(r)
                 \/ \E c \in Columns : \E v \in Values(c) : ReadForEdit(r, c, v)
                 \/ WriteEdit(r)
                 \/ \E on \in BOOLEAN : SetLinkActive(r, on)
                 \/ Fail(r)
           \/ \E l \in mix.links : MerchantCreates(l)
           \/ SetMerchantActive \/ Tick
<1>1. CASE UNCHANGED vars
  BY <1>1 DEF vars, still, checkoutVars
<1>2. ASSUME \/ \E route \in mix.routes : GetPublicLink(route.peer, route.forwarded)
             \/ \E p \in Provider : \/ UpsertMerchantProviderConfig(p)
                                    \/ DeleteMerchantProviderConfig(p)
                                    \/ UpdateProviderHealth(p)
             \/ SetFeeBearer
             \/ Cleanup
      PROVE  UNCHANGED still
  BY <1>2 DEF still, checkoutVars, GetPublicLink, allow, UpsertMerchantProviderConfig,
     DeleteMerchantProviderConfig, UpdateProviderHealth, SetFeeBearer, Cleanup, CleanupBegin,
     CleanupSweep
<1>3. ASSUME NEW r \in Request, NEW route \in mix.routes, NEW a \in mix.amounts,
             Arrive(r, route.peer, route.forwarded, a)
      PROVE  \E peer, f : \E b \in mix.amounts : Arrive(r, peer, f, b)
  BY <1>3
<1> QED BY <1>1, <1>2, <1>3 DEF Next, Carry

EditsTyped == \A r \in Request : At(r, "edit", "write") =>
    /\ link # None /\ task[r].row \in Link
    /\ task[r].column \in Columns /\ task[r].value \in Values(task[r].column)
BaseInv == LimiterInv /\ mix \in Mixes /\ TasksOK /\ LinkTyped /\ EditsTyped

LEMMA EditedIsLink ==
    ASSUME NEW l \in Link, NEW c \in Columns, NEW v \in Values(c)
    PROVE  /\ [l EXCEPT ![c] = v] \in Link
           /\ [l EXCEPT ![c] = v].amount = l.amount
           /\ [l EXCEPT ![c] = v][c] = v
           /\ \A d \in Columns \ {c} : [l EXCEPT ![c] = v][d] = l[d]
BY DEF Link, Columns, Values, Bound

LEMMA BaseStart == Init => BaseInv
<1> SUFFICES ASSUME Init PROVE BaseInv
  OBVIOUS
<1>1. TasksOK
  BY DEF Init, Unborn, TasksOK, Fields, Bound
<1> QED BY <1>1, LimiterStart DEF Init, LinkInit, BaseInv, LinkTyped, EditsTyped, At, Unborn

LEMMA BaseStep == BaseInv /\ [Next]_vars => BaseInv'
<1> SUFFICES ASSUME BaseInv, [Next]_vars PROVE BaseInv'
  OBVIOUS
<1>0. LimiterInv'
  BY LimiterStep DEF BaseInv
<1> USE DEF BaseInv
<1>1. CASE UNCHANGED still
  BY <1>0, <1>1 DEF still, linkVars, TasksOK, LinkTyped, EditsTyped, At
<1>2. ASSUME NEW r \in Request, NEW peer, NEW f, NEW a \in mix.amounts, Arrive(r, peer, f, a)
      PROVE  BaseInv'
  <2>1. UNCHANGED <<link, mix>>
    BY <1>2 DEF Arrive, linkVars
  <2> QED BY <1>0, <1>2, <2>1, ArriveEffect DEF LinkTyped, EditsTyped, At, OthersKept
<1>3. ASSUME NEW r \in Request, ReadLink(r) PROVE BaseInv'
  <2>1. UNCHANGED <<link, mix>>
    BY <1>3 DEF ReadLink, linkVars
  <2> QED BY <1>0, <1>3, <2>1, ReadLinkEffect DEF LinkTyped, EditsTyped, At, OthersKept
<1>4. ASSUME NEW r \in Request, Carry(r) PROVE BaseInv'
  <2>1. UNCHANGED <<link, mix>>
    BY <1>4 DEF Carry, CheckMerchant, ReadConfigs, Resolve, OrderRefused, linkVars
  <2> QED BY <1>0, <1>4, <2>1, CheckoutEffect DEF Carry, LinkTyped, EditsTyped, At, OthersKept
<1>5. ASSUME NEW r \in Request, OrderAccepted(r) \/ Fail(r) PROVE BaseInv'
  <2>1. /\ UNCHANGED <<link, mix>>
        /\ Finish(r, "done") \/ Finish(r, "failed")
    BY <1>5 DEF OrderAccepted, Fail, linkVars
  <2> QED BY <1>0, <2>1, FinishEffect DEF LinkTyped, EditsTyped, At, OthersKept
<1>6. ASSUME NEW r \in Request, NEW c \in Columns, NEW v \in Values(c), ReadForEdit(r, c, v)
      PROVE  BaseInv'
  <2>1. UNCHANGED <<link, mix>> /\ link # None
    BY <1>6 DEF ReadForEdit, linkVars
  <2> QED BY <1>0, <1>6, <2>1, EditEffect DEF LinkTyped, EditsTyped, At, OthersKept
<1>7. ASSUME NEW r \in Request, WriteEdit(r) PROVE BaseInv'
  <2>1. /\ mix' = mix /\ At(r, "edit", "write") /\ Finish(r, "done")
        /\ link' = [task[r].row EXCEPT ![task[r].column] = task[r].value]
    BY <1>7 DEF WriteEdit, WriteLink
  <2>2. link' \in Link
    BY <2>1, EditedIsLink DEF EditsTyped
  <2> QED BY <1>0, <2>1, <2>2, NoneIsNoLink, FinishEffect DEF LinkTyped, EditsTyped, At, OthersKept
<1>8. ASSUME NEW r \in Request, NEW on \in BOOLEAN, SetLinkActive(r, on) PROVE BaseInv'
  <2>1. mix' = mix /\ link # None /\ link' = [link EXCEPT !.active = on]
    BY <1>8 DEF SetLinkActive, SetActive
  <2>2. link' \in Link
    BY <2>1 DEF LinkTyped, Link
  <2> QED BY <1>0, <1>8, <2>1, <2>2, NoneIsNoLink, ToggleEffect DEF LinkTyped, EditsTyped, At, OthersKept
<1>9. ASSUME NEW l \in mix.links, MerchantCreates(l) PROVE BaseInv'
  <2>1. l \in Link
    BY CheckoutAssumption
  <2>2. link' = l /\ UNCHANGED <<task, mix>>
    BY <1>9 DEF MerchantCreates, CreateLink
  <2> QED BY <1>0, <2>1, <2>2, NoneIsNoLink DEF LinkTyped, EditsTyped, At, TasksOK
<1>10. CASE SetMerchantActive \/ Tick
  BY <1>0, <1>10 DEF SetMerchantActive, Tick, linkVars, LinkTyped, EditsTyped, At, TasksOK
<1> QED BY <1>1, <1>2, <1>3, <1>4, <1>5, <1>6, <1>7, <1>8, <1>9, <1>10, StepCases

-----------------------------------------------------------------------------
(* The rate.                                                               *)

\* The address a request is counted under is one.
LEMMA ClientIsAddress ==
    ASSUME NEW peer \in IP, NEW f \in Seq(IP \union Unreadable)
    PROVE  clientIP(peer, f) \in IP
<1>1. CASE Places(f) = {}
  BY <1>1 DEF clientIP
<1>2. CASE Places(f) # {}
  <2>1. Places(f) \in SUBSET (1 .. Len(f)) /\ Len(f) \in Nat
    BY DEF Places
  <2>2. Rightmost(Places(f)) \in 1 .. Len(f)
    BY <1>2, <2>1, RightmostExists
  <2>3. f[Rightmost(Places(f))] \in IP \union Unreadable
    BY <2>2
  <2> QED BY <2>3 DEF clientIP
<1> QED BY <1>1, <1>2

\* What bucket b holds at time t.
Holds(b, t) == Capped(b.tokens + (t - b.lastRefill))

LEMMA ReserveKept == LimiterInv => \A ip \in IP : Reserve(ip) = Holds(kept[ip], now)
BY BucketsAgree DEF CleanupInvisible, Reserve, Holds, refill

LEMMA ReserveKeptNext == (LimiterInv => \A ip \in IP : Reserve(ip) = Holds(kept[ip], now))'
BY ReserveKept, PTL

\* Time fills it, a look takes from it.
LEMMA HoldsMore ==
    ASSUME NEW b \in BucketType, NEW t \in Nat, b.lastRefill <= t
    PROVE  /\ Holds(b, t) \in Nat
           /\ Holds(b, t + 1) \in Nat /\ Holds(b, t + 1) <= Holds(b, t) + 1
BY LimiterAssumption DEF Holds, Capped, BucketType

LEMMA HoldsLess ==
    ASSUME now \in Nat, NEW b \in BucketType, b.lastRefill <= now
    PROVE  Holds(Taken(b), now) =
              IF Holds(b, now) >= Cost THEN Holds(b, now) - Cost ELSE Holds(b, now)
<1> DEFINE full == Holds(b, now)
<1>1. full \in Nat /\ full <= MaxTokens
  BY LimiterAssumption DEF Holds, Capped, BucketType
<1>2. Passes(b) <=> full >= Cost
  BY DEF Passes, refill, Holds
<1>3. refill(b) = [tokens |-> full, lastRefill |-> now]
  BY DEF refill, Holds
<1> HIDE DEF full
<1>4. CASE full >= Cost
  <2>1. Taken(b) = [tokens |-> full - Cost, lastRefill |-> now]
    BY <1>2, <1>3, <1>4 DEF Taken
  <2> QED BY <1>1, <1>4, <2>1, LimiterAssumption DEF Holds, Capped, full
<1>5. CASE ~(full >= Cost)
  <2>1. Taken(b) = [tokens |-> full, lastRefill |-> now]
    BY <1>2, <1>3, <1>5 DEF Taken
  <2> QED BY <1>1, <1>5, <2>1, LimiterAssumption DEF Holds, Capped, full
<1> QED BY <1>4, <1>5 DEF full

\* A look at one bucket, seen from all.
LEMMA ReserveTaken ==
    ASSUME LimiterInv, LimiterInv', NEW x \in IP, allow(x), NEW ip \in IP
    PROVE  /\ Reserve(ip) \in Nat
           /\ ip # x => Reserve(ip)' = Reserve(ip)
           /\ ip = x => Reserve(ip)' = IF Reserve(ip) >= Cost THEN Reserve(ip) - Cost ELSE Reserve(ip)
<1>1. now' = now /\ kept' = [kept EXCEPT ![x] = Taken(@)]
  BY DEF allow
<1>2. kept[ip] \in BucketType /\ kept[ip].lastRefill <= now /\ now \in Nat
  BY DEF LimiterInv, LimiterTypeOK
<1>3. Reserve(ip) = Holds(kept[ip], now)
  BY ReserveKept
<1>4. Reserve(ip)' = Holds(kept'[ip], now')
  BY ReserveKeptNext
<1>5. kept'[ip] = IF ip = x THEN Taken(kept[ip]) ELSE kept[ip]
  BY <1>1 DEF LimiterInv, LimiterTypeOK
<1>6. Holds(kept[ip], now) \in Nat
  BY <1>2, HoldsMore
<1>7. Holds(Taken(kept[ip]), now) =
          IF Holds(kept[ip], now) >= Cost THEN Holds(kept[ip], now) - Cost ELSE Holds(kept[ip], now)
  BY <1>2, HoldsLess
<1> QED BY <1>1, <1>3, <1>4, <1>5, <1>6, <1>7

LEMMA ReserveStep ==
    ASSUME LimiterInv, LimiterInv', [Next]_vars, NEW ip \in IP
    PROVE  Reserve(ip)' <= Reserve(ip) + (now' - now)
<1>1. /\ Reserve(ip) = Holds(kept[ip], now) /\ Reserve(ip)' = Holds(kept'[ip], now')
      /\ kept[ip] \in BucketType /\ kept[ip].lastRefill <= now /\ now \in Nat
  BY ReserveKept, ReserveKeptNext DEF LimiterInv, LimiterTypeOK
<1>2. /\ Holds(kept[ip], now) \in Nat
      /\ Holds(kept[ip], now + 1) \in Nat
      /\ Holds(kept[ip], now + 1) <= Holds(kept[ip], now) + 1
  BY <1>1, HoldsMore
<1>3. ASSUME NEW x, allow(x) PROVE Reserve(ip)' <= Reserve(ip) + (now' - now)
  <2>1. now' = now
    BY <1>3 DEF allow
  <2>2. CASE x = ip
    BY <1>1, <1>2, <1>3, <2>1, <2>2, ReserveTaken, LimiterAssumption
  <2>3. CASE x # ip
    <3>1. kept'[ip] = kept[ip]
      BY <1>3, <2>3 DEF allow, LimiterInv, LimiterTypeOK
    <3> QED BY <1>1, <1>2, <2>1, <3>1
  <2> QED BY <2>2, <2>3
<1>4. CASE kept' = kept /\ now' = now
  BY <1>1, <1>2, <1>4
<1>5. CASE kept' = kept /\ now' = now + 1
  BY <1>1, <1>2, <1>5
<1>6. CASE CleanupBegin \/ CleanupSweep
  BY <1>4, <1>6 DEF CleanupBegin, CleanupSweep
<1>7. CASE UNCHANGED limiterVars /\ now' \in {now, now + 1}
  BY <1>4, <1>5, <1>7 DEF limiterVars
<1> QED BY <1>3, <1>6, <1>7, LimiterFrame

\* Only the limiter sends a new request on to the link.
LEMMA LetThrough ==
    ASSUME BaseInv, [Next]_vars, NEW r \in Request,
           task[r].step = "new", At(r, "checkout", "link")'
    PROVE  \E route \in mix.routes, a \in mix.amounts : Arrive(r, route.peer, route.forwarded, a)
<1>0. TasksOK /\ LinkTyped /\ mix \in Mixes
  BY DEF BaseInv
<1>1. CASE UNCHANGED still
  BY <1>1 DEF still, At
<1>2. ASSUME NEW q \in Request, NEW route \in mix.routes, NEW a \in mix.amounts,
             Arrive(q, route.peer, route.forwarded, a)
      PROVE  q = r
  BY <1>0, <1>2, ArriveEffect DEF OthersKept, At
<1>3. ASSUME NEW q \in Request, Carry(q) \/ ReadLink(q) \/ Fail(q) \/ WriteEdit(q) \/ OrderAccepted(q)
      PROVE  FALSE
  <2>1. OthersKept(q)
    BY <1>0, <1>3, CheckoutEffect, ReadLinkEffect, FinishEffect
    DEF Carry, Fail, WriteEdit, OrderAccepted
  <2>2. task[q].step # "new"
    BY <1>3 DEF Carry, CheckMerchant, ReadConfigs, Resolve, OrderRefused, ReadLink, Fail, WriteEdit,
       OrderAccepted, At
  <2> QED BY <2>1, <2>2 DEF OthersKept, At
<1>4. ASSUME NEW q \in Request, NEW c \in Columns, NEW v \in Values(c), ReadForEdit(q, c, v)
      PROVE  FALSE
  BY <1>0, <1>4, EditEffect DEF OthersKept, At
<1>5. ASSUME NEW q \in Request, NEW on \in BOOLEAN, SetLinkActive(q, on) PROVE FALSE
  BY <1>0, <1>5, ToggleEffect DEF OthersKept, At
<1>6. ASSUME \/ \E l \in mix.links : MerchantCreates(l)
             \/ \E p \in Provider : \/ UpsertMerchantProviderConfig(p)
                                    \/ DeleteMerchantProviderConfig(p)
                                    \/ UpdateProviderHealth(p)
             \/ SetMerchantActive \/ SetFeeBearer \/ Tick \/ Cleanup
             \/ \E route \in mix.routes : GetPublicLink(route.peer, route.forwarded)
      PROVE  FALSE
  BY <1>6 DEF MerchantCreates, UpsertMerchantProviderConfig, DeleteMerchantProviderConfig,
     UpdateProviderHealth, SetMerchantActive, SetFeeBearer, Tick, Cleanup, GetPublicLink, At
<1>7. CASE UNCHANGED vars
  BY <1>7 DEF vars, At
<1>8. PICK q \in Request : \E route \in mix.routes, a \in mix.amounts :
                             Arrive(q, route.peer, route.forwarded, a)
  BY <1>3, <1>4, <1>5, <1>6, <1>7 DEF Next, Carry
<1> QED BY <1>2, <1>8

\* However requests, clock and cleaning interleave, no client's reserve grows
\* faster than its refill, and none starts a checkout it does not pay for.
THEOREM NobodyOutrunsTheRate == Spec => RateHeld
<1>1. BaseInv /\ BaseInv' /\ [Next]_vars => [
          /\ \A ip \in IP : Reserve(ip)' <= Reserve(ip) + (now' - now)
          /\ \A r \in Request : task[r].step = "new" /\ At(r, "checkout", "link")' =>
                \E ip \in IP : Reserve(ip) >= Cost /\ Reserve(ip)' = Reserve(ip) - Cost]_vars
  <2> SUFFICES ASSUME BaseInv, BaseInv', [Next]_vars
               PROVE  /\ \A ip \in IP : Reserve(ip)' <= Reserve(ip) + (now' - now)
                      /\ \A r \in Request : task[r].step = "new" /\ At(r, "checkout", "link")' =>
                            \E ip \in IP : Reserve(ip) >= Cost /\ Reserve(ip)' = Reserve(ip) - Cost
    OBVIOUS
  <2>0. LimiterInv /\ LimiterInv'
    BY DEF BaseInv
  <2>1. \A ip \in IP : Reserve(ip)' <= Reserve(ip) + (now' - now)
    BY <2>0, ReserveStep
  <2>2. ASSUME NEW r \in Request, task[r].step = "new", At(r, "checkout", "link")'
        PROVE  \E ip \in IP : Reserve(ip) >= Cost /\ Reserve(ip)' = Reserve(ip) - Cost
    <3>1. PICK route \in mix.routes, a \in mix.amounts : Arrive(r, route.peer, route.forwarded, a)
      BY <2>2, LetThrough
    <3> DEFINE ip == clientIP(route.peer, route.forwarded)
    <3>2. route.peer \in IP /\ route.forwarded \in Seq(IP \union Unreadable)
      BY CheckoutAssumption DEF BaseInv
    <3>3. ip \in IP
      BY <3>2, ClientIsAddress
    <3>4. allow(ip)
      BY <3>1 DEF Arrive
    <3>5. task' = [task EXCEPT ![r] = [Unborn EXCEPT !.op = "checkout", !.amount = a,
             !.step = IF Passes(Bucket(ip)) THEN "link" ELSE "refused"]]
      BY <3>1 DEF Arrive
    <3> HIDE DEF ip
    <3>6. Passes(Bucket(ip))
      BY <2>2, <3>5 DEF At, BaseInv, TasksOK, Unborn
    <3>7. Reserve(ip) >= Cost
      BY <3>6 DEF Passes, Reserve
    <3>8. Reserve(ip)' = Reserve(ip) - Cost
      BY <2>0, <3>3, <3>4, <3>7, ReserveTaken
    <3> QED BY <3>3, <3>7, <3>8
  <2> QED BY <2>1, <2>2
<1> QED BY <1>1, BaseStart, BaseStep, PTL DEF Spec, RateHeld

-----------------------------------------------------------------------------
(* A closed link or merchant.                                              *)

\* The steps a checkout cannot be at while what closed it still stands.
Beyond(c) == IF c = "link" THEN Carrying \union {"new"} ELSE (Carrying \ {"merchant"}) \union {"new"}
ClosedInv ==
    /\ \A r \in Request : task[r].step = "new" => orders[r] = None
    /\ DOMAIN orders = Request
    /\ \A c \in Causes : \A r \in closed[c] :
          r \in Request /\ Stands(c) /\ orders[r] = None /\ task[r].step \notin Beyond(c)

LEMMA ClosedStart == Init => ClosedInv
BY DEF Init, Unborn, ClosedInv, Causes

\* While what stands in the way stands, a step that leaves the orders alone
\* and moves one request at most to where it may be keeps the invariant.
LEMMA ClosedMove ==
    ASSUME BaseInv, ClosedInv, NEW r \in Request, OthersKept(r),
           UNCHANGED <<now, link, active, orders, closed>>,
           task'[r].step # "new",
           \A c \in Causes : r \in closed[c] => task'[r].step \notin Beyond(c)
    PROVE  ClosedInv'
BY DEF ClosedInv, OthersKept, Stands, Beyond

LEMMA Reclosed ==
    ASSUME ClosedInv, Reclose, orders' = orders,
           \A q \in Request : task'[q].step \in {task[q].step, "done"}
    PROVE  ClosedInv'
BY DEF ClosedInv, Reclose, Beyond, Carrying, Causes

LEMMA ClosedStep == BaseInv /\ ClosedInv /\ [Next]_vars => ClosedInv'
<1> SUFFICES ASSUME BaseInv, ClosedInv, [Next]_vars PROVE ClosedInv'
  OBVIOUS
<1>1. CASE UNCHANGED still
  BY <1>1 DEF still, linkVars, ClosedInv, Stands
<1>2. ASSUME NEW r \in Request, NEW peer, NEW f, NEW a \in mix.amounts, Arrive(r, peer, f, a)
      PROVE  ClosedInv'
  <2>1. /\ UNCHANGED <<now, link, active, orders>> /\ task[r].step = "new"
        /\ closed' = [c \in Causes |-> IF Stands(c) THEN closed[c] \union {r} ELSE closed[c]]
    BY <1>2 DEF Arrive, linkVars, allow
  <2>2. OthersKept(r) /\ task'[r].step \in {"link", "refused"}
    BY <1>2, ArriveEffect DEF BaseInv
  <2> QED BY <2>1, <2>2 DEF ClosedInv, OthersKept, Stands, Beyond, Causes, Carrying
<1>3. ASSUME NEW r \in Request, ReadLink(r) PROVE ClosedInv'
  <2>1. UNCHANGED <<now, link, active, orders, closed>>
    BY <1>3 DEF ReadLink, linkVars, limiterVars, checkoutVars
  <2>2. /\ OthersKept(r)
        /\ \/ task'[r].step = "refused"
           \/ task'[r].step = "merchant" /\ link # None /\ IsAvailable(link, now)
    BY <1>3, ReadLinkEffect DEF BaseInv
  <2>3. ASSUME link # None, IsAvailable(link, now) PROVE ~Stands("link")
    <3>1. now \in Nat
      BY DEF BaseInv, LimiterInv, LimiterTypeOK
    <3>2. link.expires \in Deadline \union {None}
      BY <2>3 DEF BaseInv, LinkTyped, Link
    <3>3. link.active /\ (link.expires = None \/ now <= link.expires)
      BY <2>3, Zenon DEF IsAvailable
    <3>4. link.expires # None => link.expires \in Nat
      BY <3>2, LinksAssumption
    <3>5. ~(link.expires # None /\ link.expires < now)
      BY <3>1, <3>3, <3>4
    <3> QED BY <2>3, <3>3, <3>5, Zenon DEF Stands
  <2> QED BY <2>1, <2>2, <2>3, ClosedMove DEF ClosedInv, Beyond, Carrying, Causes
<1>4. ASSUME NEW r \in Request, Carry(r) PROVE ClosedInv'
  <2>1. UNCHANGED <<now, link, active, orders, closed>>
    BY <1>4 DEF Carry, CheckMerchant, ReadConfigs, Resolve, OrderRefused, linkVars, checkoutVars
  <2>2. /\ OthersKept(r) /\ task[r].step \in Carrying
        /\ task'[r].step \in {"refused", "failed"} \/ task'[r].step \in Carrying \ {"merchant"}
        /\ task[r].step = "merchant" => active \/ task'[r].step = "refused"
    BY <1>4, CheckoutEffect DEF Carry, BaseInv
  <2>3. Stands("merchant") <=> ~active
    BY DEF Stands
  <2> QED BY <2>1, <2>2, <2>3, ClosedMove DEF ClosedInv, Beyond, Carrying, Causes
<1>5. ASSUME NEW r \in Request, OrderAccepted(r) PROVE ClosedInv'
  <2>1. PICK o : orders' = [orders EXCEPT ![r] = o]
    BY <1>5 DEF OrderAccepted
  <2>2. UNCHANGED <<now, link, active, closed>> /\ task[r].step = "order"
    BY <1>5 DEF OrderAccepted, linkVars, At
  <2>3. OthersKept(r) /\ task'[r].step = "done"
    BY <1>5, FinishEffect DEF OrderAccepted, BaseInv
  <2>4. \A c \in Causes : r \notin closed[c]
    BY <2>2 DEF ClosedInv, Beyond, Carrying, Causes
  <2> QED BY <2>1, <2>2, <2>3, <2>4 DEF ClosedInv, OthersKept, Stands, Beyond
<1>6. ASSUME NEW r \in Request, Fail(r) PROVE ClosedInv'
  <2>1. UNCHANGED <<now, link, active, orders, closed>>
    BY <1>6 DEF Fail, linkVars, checkoutVars
  <2>2. OthersKept(r) /\ task'[r].step = "failed"
    BY <1>6, FinishEffect DEF Fail, BaseInv
  <2> QED BY <2>1, <2>2, ClosedMove DEF Beyond, Carrying
<1>7. ASSUME NEW r \in Request, NEW c \in Columns, NEW v \in Values(c), ReadForEdit(r, c, v)
      PROVE  ClosedInv'
  <2>1. UNCHANGED <<now, link, active, orders, closed>>
    BY <1>7 DEF ReadForEdit, linkVars, checkoutVars
  <2>2. OthersKept(r) /\ task'[r].step = "write"
    BY <1>7, EditEffect DEF BaseInv
  <2> QED BY <2>1, <2>2, ClosedMove DEF Beyond, Carrying
<1>8. ASSUME NEW r \in Request, WriteEdit(r) \/ \E on \in BOOLEAN : SetLinkActive(r, on)
      PROVE  ClosedInv'
  <2>1. Reclose /\ orders' = orders
    BY <1>8 DEF WriteEdit, SetLinkActive
  <2>2. OthersKept(r) /\ task'[r].step = "done"
    BY <1>8, FinishEffect, ToggleEffect DEF WriteEdit, BaseInv
  <2> QED BY <2>1, <2>2, Reclosed DEF OthersKept
<1>9. ASSUME (\E l \in mix.links : MerchantCreates(l)) \/ SetMerchantActive \/ Tick
      PROVE  ClosedInv'
  <2>1. Reclose /\ UNCHANGED <<orders, task>>
    BY <1>9 DEF MerchantCreates, SetMerchantActive, Tick
  <2> QED BY <2>1, Reclosed
<1> QED BY <1>1, <1>2, <1>3, <1>4, <1>5, <1>6, <1>7, <1>8, <1>9, StepCases

\* However the merchant, the admin and the clock interleave with a checkout,
\* one that began while its link or its merchant was closed takes no order
\* unless what closed it was undone meanwhile.
THEOREM ClosedLinkTakesNoOrder == Spec => []ClosedTakesNoOrder
<1>1. ClosedInv => ClosedTakesNoOrder
  BY DEF ClosedInv, ClosedTakesNoOrder
<1> QED BY <1>1, BaseStart, BaseStep, ClosedStart, ClosedStep, PTL DEF Spec

-----------------------------------------------------------------------------
(* The amounts.                                                            *)

\* The row an edit will write keeps its bounds in order.
EditKeeps(r) ==
    /\ Within(task[r].row.amount)
    /\ Ordered([task[r].row EXCEPT ![task[r].column] = task[r].value])
\* The nominal a checkout carries is the one its row allows.
InLimits(a) == PlatformMin <= a /\ a <= PlatformMax
Charged(a, row) == InLimits(a) /\ (row.amount # None => a = row.amount)
AmountInv ==
    /\ link # None => Ordered(link) /\ Within(link.amount)
    /\ \A r \in Request :
          /\ At(r, "checkout", "link") => task[r].amount \in Amount
          /\ At(r, "edit", "write") => EditKeeps(r)
          /\ task[r].op = "checkout" /\ task[r].step \in Carrying
                => Charged(task[r].amount, task[r].row)
    /\ DOMAIN orders = Request
    /\ \A r \in Request : orders[r] # None => Charged(orders[r].nominal, orders[r].link)

\* What a link lets through is within the platform's limits, whatever bounds
\* its edits left it with.
LEMMA AcceptedIsCharged ==
    ASSUME NEW l \in Link, Within(l.amount), NEW a \in Amount, Accepts(l, a)
    PROVE  Charged(Nominal(l, a), l)
<1> USE LinksAssumption
<1>1. CASE l.amount # None
  BY <1>1 DEF Nominal, Charged, InLimits, Within
<1>2. CASE l.amount = None
  <2>1. EffectiveBounds(l).min <= a /\ a <= EffectiveBounds(l).max
    BY <1>2 DEF Accepts
  <2>2. /\ l.min # None => l.min \in Int
        /\ l.max # None => l.max \in Int
        /\ PlatformMin \in Int /\ PlatformMax \in Int /\ a \in Int
    <3>1. l.min \in Bound /\ l.max \in Bound
      BY DEF Link
    <3>2. PlatformMin \in Int /\ PlatformMax \in Int /\ a \in Int
      OBVIOUS
    <3> QED BY <3>1, <3>2 DEF Bound
  <2>3. EffectiveBounds(l).min \in Int /\ PlatformMin <= EffectiveBounds(l).min
    BY <2>2 DEF EffectiveBounds
  <2>4. EffectiveBounds(l).max \in Int /\ EffectiveBounds(l).max <= PlatformMax
    BY <2>2 DEF EffectiveBounds
  <2> HIDE DEF EffectiveBounds
  <2>5. InLimits(a)
    BY <2>1, <2>2, <2>3, <2>4 DEF InLimits
  <2> QED BY <1>2, <2>5 DEF Nominal, Charged
<1> QED BY <1>1, <1>2

LEMMA AmountStart == Init => AmountInv
BY DEF Init, LinkInit, Unborn, AmountInv, At

LEMMA AmountStep == BaseInv /\ AmountInv /\ [Next]_vars => AmountInv'
<1> SUFFICES ASSUME BaseInv, AmountInv, [Next]_vars PROVE AmountInv'
  OBVIOUS
<1> USE DEF AmountInv, At, OthersKept
<1>1. CASE UNCHANGED still
  BY <1>1 DEF still, linkVars, EditKeeps
<1>2. ASSUME NEW r \in Request, NEW peer, NEW f, NEW a \in mix.amounts, Arrive(r, peer, f, a)
      PROVE  AmountInv'
  <2>1. UNCHANGED <<link, orders>>
    BY <1>2 DEF Arrive, linkVars
  <2>2. a \in Amount
    BY CheckoutAssumption DEF BaseInv
  <2> QED BY <1>2, <2>1, <2>2, ArriveEffect DEF BaseInv, Carrying, EditKeeps
<1>3. ASSUME NEW r \in Request, ReadLink(r) PROVE AmountInv'
  <2>1. UNCHANGED <<link, orders>> /\ task[r].amount \in Amount
    BY <1>3 DEF ReadLink, linkVars, checkoutVars
  <2>2. /\ OthersKept(r) /\ task'[r].op = "checkout"
        /\ \/ task'[r].step = "refused"
           \/ link \in Link /\ Charged(task'[r].amount, task'[r].row)
    BY <1>3, <2>1, ReadLinkEffect, AcceptedIsCharged DEF BaseInv, LinkTyped
  <2> QED BY <2>1, <2>2, ReadLinkEffect, <1>3 DEF BaseInv, Carrying, EditKeeps
<1>4. ASSUME NEW r \in Request, Carry(r) PROVE AmountInv'
  <2>1. UNCHANGED <<link, orders>>
    BY <1>4 DEF Carry, CheckMerchant, ReadConfigs, Resolve, OrderRefused, linkVars, checkoutVars
  <2>2. /\ OthersKept(r) /\ task'[r].op = "checkout"
        /\ Charged(task[r].amount, task[r].row)
        /\ \/ task'[r].step \in {"refused", "failed"}
           \/ /\ task'[r].step \in Carrying
              /\ task'[r].row = task[r].row /\ task'[r].amount = task[r].amount
    BY <1>4, CheckoutEffect DEF Carry, BaseInv
  <2> QED BY <2>1, <2>2 DEF Carrying, EditKeeps
<1>5. ASSUME NEW r \in Request, OrderAccepted(r) PROVE AmountInv'
  <2>1. PICK p, charge, who : orders' = [orders EXCEPT ![r] =
            [provider |-> p, nominal |-> task[r].amount, charge |-> charge, bearer |-> who,
             link |-> task[r].row]]
    BY <1>5 DEF OrderAccepted
  <2>2. link' = link /\ Charged(task[r].amount, task[r].row)
    BY <1>5 DEF OrderAccepted, linkVars, Carrying
  <2>3. OthersKept(r) /\ task'[r].step = "done"
    BY <1>5, FinishEffect DEF OrderAccepted, BaseInv
  <2> QED BY <2>1, <2>2, <2>3 DEF Carrying, EditKeeps
<1>6. ASSUME NEW r \in Request, Fail(r) PROVE AmountInv'
  <2>1. UNCHANGED <<link, orders>>
    BY <1>6 DEF Fail, linkVars, checkoutVars
  <2>2. OthersKept(r) /\ task'[r].step = "failed"
    BY <1>6, FinishEffect DEF Fail, BaseInv
  <2> QED BY <2>1, <2>2 DEF Carrying, EditKeeps
<1>7. ASSUME NEW r \in Request, NEW c \in Columns, NEW v \in Values(c), ReadForEdit(r, c, v)
      PROVE  AmountInv'
  <2>1. UNCHANGED <<link, orders>> /\ link # None /\ Ordered([link EXCEPT ![c] = v])
    BY <1>7 DEF ReadForEdit, linkVars, checkoutVars
  <2> QED BY <1>7, <2>1, EditEffect DEF BaseInv, Carrying, EditKeeps
<1>8. ASSUME NEW r \in Request, WriteEdit(r) PROVE AmountInv'
  <2>1. /\ orders' = orders /\ At(r, "edit", "write") /\ Finish(r, "done")
        /\ link' = [task[r].row EXCEPT ![task[r].column] = task[r].value]
    BY <1>8 DEF WriteEdit, WriteLink
  <2>2. Ordered(link') /\ Within(link'.amount)
    BY <2>1, EditedIsLink DEF BaseInv, EditsTyped, EditKeeps
  <2> QED BY <2>1, <2>2, FinishEffect DEF BaseInv, Carrying, EditKeeps
<1>9. ASSUME NEW r \in Request, NEW on \in BOOLEAN, SetLinkActive(r, on) PROVE AmountInv'
  <2>1. orders' = orders /\ link # None /\ link' = [link EXCEPT !.active = on]
    BY <1>9 DEF SetLinkActive, SetActive
  <2>2. Ordered(link') /\ Within(link'.amount)
    BY <2>1 DEF BaseInv, LinkTyped, Link, Ordered
  <2> QED BY <1>9, <2>1, <2>2, ToggleEffect DEF BaseInv, Carrying, EditKeeps
<1>10. ASSUME NEW l \in mix.links, MerchantCreates(l) PROVE AmountInv'
  <2>1. link' = l /\ Ordered(l) /\ Within(l.amount) /\ UNCHANGED <<task, orders>>
    BY <1>10 DEF MerchantCreates, CreateLink, Valid
  <2> QED BY <2>1 DEF EditKeeps
<1>11. CASE SetMerchantActive \/ Tick
  BY <1>11 DEF SetMerchantActive, Tick, linkVars, EditKeeps
<1> QED BY <1>1, <1>2, <1>3, <1>4, <1>5, <1>6, <1>7, <1>8, <1>9, <1>10, <1>11, StepCases

-----------------------------------------------------------------------------
(* Overlapping edits.                                                      *)

\* An edit that was done had read the row before the column was last asked for.
Undone(c) == \E q \in Request : At(q, "edit", "done") /\ asked[c].by \in since[q]
AskedInv ==
    /\ DOMAIN asked = Columns /\ DOMAIN since = Request
    /\ link # None => \A c \in Columns : link[c] = asked[c].value \/ Undone(c)
    /\ \A q \in Request : At(q, "edit", "write") => \A c \in Columns :
          task[q].row[c] = asked[c].value \/ asked[c].by \in since[q] \/ Undone(c)

LEMMA AskedStart == Init => AskedInv
BY DEF Init, LinkInit, Unborn, AskedInv, At

\* A request that leaves the row and the edits of others alone.
LEMMA AskedMove ==
    ASSUME BaseInv, AskedInv, NEW r \in Request, UNCHANGED linkVars, OthersKept(r),
           ~At(r, "edit", "done"),
           task'[r].op # "edit" \/ task'[r].step \notin {"write", "done"}
    PROVE  AskedInv'
<1>1. \A c \in Columns : Undone(c) => Undone(c)'
  BY DEF Undone, At, OthersKept, linkVars
<1> QED BY <1>1 DEF AskedInv, At, OthersKept, linkVars

\* One column is asked for and written, by r, from a row as good as the link's.
LEMMA AskedWrite ==
    ASSUME BaseInv, AskedInv, NEW r \in Request, NEW c \in Columns, NEW v,
           Ask(r, c, v), Written(r, Editing), OthersKept(r),
           task'[r].step = "done", ~At(r, "edit", "done"),
           link'[c] = v,
           \A d \in Columns \ {c} : link'[d] = asked[d].value \/ Undone(d)
               \/ (At(r, "edit", "done")' /\ asked[d].by \in since[r])
    PROVE  AskedInv'
<1>1. /\ DOMAIN asked' = Columns /\ DOMAIN since' = Request
      /\ asked'[c].by = r /\ asked'[c].value = v
      /\ \A d \in Columns \ {c} : asked'[d] = asked[d]
  BY DEF Ask, Written, AskedInv
<1>2. /\ \A q \in Request : At(q, "edit", "write") /\ q # r => since'[q] = since[q] \union {r}
      /\ \A q \in Request : ~At(q, "edit", "write") \/ q = r => since'[q] = since[q]
  BY DEF Written, Editing
<1>3. \A d \in Columns \ {c} : Undone(d) => Undone(d)'
  BY <1>1, <1>2 DEF Undone, At, OthersKept
<1>4. \A d \in Columns \ {c} : link'[d] = asked'[d].value \/ Undone(d)'
  BY <1>1, <1>2, <1>3 DEF Undone, At
<1>5. ASSUME NEW q \in Request, At(q, "edit", "write")', NEW d \in Columns
      PROVE  task'[q].row[d] = asked'[d].value \/ asked'[d].by \in since'[q] \/ Undone(d)'
  <2>1. q # r /\ At(q, "edit", "write") /\ task'[q] = task[q]
    BY <1>5 DEF At, OthersKept
  <2>2. CASE d = c
    BY <1>1, <1>2, <2>1, <2>2
  <2>3. CASE d # c
    BY <1>1, <1>2, <1>3, <2>1, <2>3 DEF AskedInv
  <2> QED BY <2>2, <2>3
<1> QED BY <1>1, <1>4, <1>5 DEF AskedInv

LEMMA AskedStep == BaseInv /\ AskedInv /\ [Next]_vars => AskedInv'
<1> SUFFICES ASSUME BaseInv, AskedInv, [Next]_vars PROVE AskedInv'
  OBVIOUS
<1>1. CASE UNCHANGED still
  BY <1>1 DEF still, linkVars, AskedInv, Undone, At
<1>2. ASSUME NEW r \in Request, NEW peer, NEW f, NEW a \in mix.amounts, Arrive(r, peer, f, a)
      PROVE  AskedInv'
  <2>1. UNCHANGED linkVars /\ task[r].step = "new"
    BY <1>2 DEF Arrive
  <2> QED BY <1>2, <2>1, ArriveEffect, AskedMove DEF BaseInv, At
<1>3. ASSUME NEW r \in Request, ReadLink(r) PROVE AskedInv'
  <2>1. UNCHANGED linkVars /\ task[r].op = "checkout"
    BY <1>3 DEF ReadLink, At
  <2> QED BY <1>3, <2>1, ReadLinkEffect, AskedMove DEF BaseInv, At
<1>4. ASSUME NEW r \in Request, Carry(r) PROVE AskedInv'
  <2>1. UNCHANGED linkVars
    BY <1>4 DEF Carry, CheckMerchant, ReadConfigs, Resolve, OrderRefused
  <2> QED BY <1>4, <2>1, CheckoutEffect, AskedMove DEF Carry, BaseInv, At
<1>5. ASSUME NEW r \in Request, OrderAccepted(r) PROVE AskedInv'
  <2>1. UNCHANGED linkVars /\ task[r].op = "checkout"
    BY <1>5 DEF OrderAccepted, At
  <2> QED BY <1>5, <2>1, FinishEffect, AskedMove DEF OrderAccepted, BaseInv, At
<1>6. ASSUME NEW r \in Request, Fail(r) PROVE AskedInv'
  <2>1. UNCHANGED linkVars /\ task[r].step # "done"
    BY <1>6 DEF Fail
  <2> QED BY <1>6, <2>1, FinishEffect, AskedMove DEF Fail, BaseInv, At
<1>7. ASSUME NEW r \in Request, NEW c \in Columns, NEW v \in Values(c), ReadForEdit(r, c, v)
      PROVE  AskedInv'
  <2>1. UNCHANGED linkVars /\ task[r].step = "new" /\ link # None
    BY <1>7 DEF ReadForEdit
  <2>2. /\ OthersKept(r) /\ task'[r].step = "write" /\ task'[r].row = link
    BY <1>7, EditEffect DEF BaseInv
  <2>3. \A d \in Columns : Undone(d) => Undone(d)'
    BY <2>1, <2>2 DEF Undone, At, OthersKept, linkVars
  <2> QED BY <2>1, <2>2, <2>3 DEF AskedInv, At, OthersKept, linkVars
<1>8. ASSUME NEW r \in Request, WriteEdit(r) PROVE AskedInv'
  <2> DEFINE row == task[r].row  c == task[r].column  v == task[r].value
  <2>1. /\ At(r, "edit", "write") /\ Finish(r, "done")
        /\ link' = [row EXCEPT ![c] = v] /\ Ask(r, c, v) /\ Written(r, Editing)
    BY <1>8 DEF WriteEdit, WriteLink
  <2>2. row \in Link /\ c \in Columns /\ v \in Values(c)
    BY <2>1 DEF BaseInv, EditsTyped
  <2>3. link'[c] = v /\ \A d \in Columns \ {c} : link'[d] = row[d]
    BY <2>1, <2>2, EditedIsLink
  <2>4. OthersKept(r) /\ task'[r].step = "done" /\ At(r, "edit", "done")'
    BY <2>1, FinishEffect DEF BaseInv, At
  <2>5. \A d \in Columns : row[d] = asked[d].value \/ asked[d].by \in since[r] \/ Undone(d)
    BY <2>1 DEF AskedInv
  <2>6. ~At(r, "edit", "done")
    BY <2>1 DEF At
  <2> QED BY <2>1, <2>2, <2>3, <2>4, <2>5, <2>6, AskedWrite
<1>9. ASSUME NEW r \in Request, NEW on \in BOOLEAN, SetLinkActive(r, on) PROVE AskedInv'
  <2>1. /\ task[r].step = "new" /\ link # None
        /\ link' = [link EXCEPT !.active = on] /\ Ask(r, "active", on) /\ Written(r, Editing)
    BY <1>9 DEF SetLinkActive, SetActive
  <2>2. link'["active"] = on /\ \A d \in Columns \ {"active"} : link'[d] = link[d]
    BY <2>1 DEF BaseInv, LinkTyped, Link, Columns
  <2>3. OthersKept(r) /\ task'[r].step = "done"
    BY <1>9, ToggleEffect DEF BaseInv
  <2>4. "active" \in Columns /\ ~At(r, "edit", "done")
    BY <2>1 DEF Columns, At
  <2>5. \A d \in Columns : link[d] = asked[d].value \/ Undone(d)
    BY <2>1 DEF AskedInv
  <2> QED BY <2>1, <2>2, <2>3, <2>4, <2>5, AskedWrite
<1>10. ASSUME NEW l \in mix.links, MerchantCreates(l) PROVE AskedInv'
  <2>1. /\ link = None /\ link' = l /\ UNCHANGED <<task, since>>
        /\ asked' = [c \in Columns |-> [by |-> None, value |-> l[c]]]
    BY <1>10 DEF MerchantCreates, CreateLink
  <2>2. \A q \in Request : ~At(q, "edit", "write")
    BY <2>1 DEF BaseInv, EditsTyped
  <2> QED BY <2>1, <2>2 DEF AskedInv, At
<1>11. CASE SetMerchantActive \/ Tick
  BY <1>11 DEF SetMerchantActive, Tick, linkVars, AskedInv, Undone, At
<1> QED BY <1>1, <1>2, <1>3, <1>4, <1>5, <1>6, <1>7, <1>8, <1>9, <1>10, <1>11, StepCases

\* A column of a link differs from what was last asked for only when an edit
\* that had read the row before that was written after it.
THEOREM OnlyOverlapsUndoEdits == Spec => []LinkAsAsked
<1>1. AskedInv => LinkAsAsked
  BY DEF AskedInv, LinkAsAsked, Undone
<1> QED BY <1>1, BaseStart, BaseStep, AskedStart, AskedStep, PTL DEF Spec

-----------------------------------------------------------------------------
(* The candidates of a payment.                                            *)

\* Induction over the naturals, from the well-foundedness of their order.
LEMMA NaturalsReached ==
    ASSUME NEW S, 0 \in S, \A n \in Nat : n \in S => n + 1 \in S
    PROVE  Nat \subseteq S
<1> DEFINE T == Nat \ S
<1>1. ASSUME T # {} PROVE FALSE
  <2>1. T \subseteq Nat
    OBVIOUS
  <2>2. PICK t \in T : \A u \in T : <<u, t>> \notin OpToRel(<, Nat)
    BY <1>1, <2>1, NatLessThanWellFounded, WFMin, Zenon
  <2>3. t \in Nat /\ t \notin S /\ t # 0
    BY <2>2
  <2>4. t - 1 \in Nat /\ (t - 1) + 1 = t /\ t - 1 < t
    BY <2>3
  <2>5. t - 1 \in T
    BY <2>3, <2>4
  <2>6. <<t - 1, t>> \in OpToRel(<, Nat)
    BY <2>3, <2>4 DEF OpToRel
  <2> QED BY <2>2, <2>5, <2>6
<1> QED BY <1>1

\* What the loop has appended after row i, from what it had before; g holds
\* what it has after each of the first n rows.
Appended(rows, g, i) ==
    IF i = 0 THEN <<>>
    ELSE IF Usable(rows[i].provider) THEN Append(g[i - 1], rows[i]) ELSE g[i - 1]
Follows(rows, g, n) == \A i \in 0 .. n : g[i] = Appended(rows, g, i)

LEMMA LoopRuns ==
    ASSUME NEW rows, NEW n \in Nat
    PROVE  \E g : Follows(rows, g, n)
<1> DEFINE Q == {k \in Nat : \E g : Follows(rows, g, k)}
<1>1. 0 \in Q
  <2> DEFINE g == [i \in {0} |-> <<>>]
  <2>1. Follows(rows, g, 0)
    BY DEF Follows, Appended
  <2> QED BY <2>1
<1>2. ASSUME NEW k \in Nat, k \in Q PROVE k + 1 \in Q
  <2>1. PICK g : Follows(rows, g, k)
    BY <1>2
  <2> DEFINE h == [i \in 0 .. k + 1 |-> Appended(rows, g, i)]
  <2>2. \A i \in 0 .. k : h[i] = g[i]
    BY <2>1 DEF Follows
  <2>3. \A i \in 0 .. k + 1 : i = 0 \/ i - 1 \in 0 .. k
    OBVIOUS
  <2>4. \A i \in 0 .. k + 1 : h[i] = Appended(rows, h, i)
    BY <2>2, <2>3 DEF Appended
  <2> HIDE DEF h
  <2>5. Follows(rows, h, k + 1)
    BY <2>4 DEF Follows
  <2> QED BY <2>5
<1> HIDE DEF Q
<1>3. n \in Q
  BY <1>1, <1>2, NaturalsReached
<1> QED BY <1>3 DEF Q

LEMMA UsableOnesIsLoop ==
    ASSUME NEW rows, Len(rows) \in Nat
    PROVE  \E g : Follows(rows, g, Len(rows)) /\ UsableOnes(rows) = g[Len(rows)]
<1> DEFINE n == Len(rows)
           Is(g) == g = [i \in 0 .. n |-> Appended(rows, g, i)]
           f == CHOOSE g : Is(g)
<1>1. PICK g : Follows(rows, g, n)
  BY LoopRuns
<1>2. \E h : Is(h)
  <2> DEFINE h == [i \in 0 .. n |-> g[i]]
  <2>1. \A i \in 0 .. n : i = 0 \/ i - 1 \in 0 .. n
    OBVIOUS
  <2>2. \A i \in 0 .. n : g[i] = Appended(rows, h, i)
    BY <1>1, <2>1 DEF Follows, Appended
  <2>3. h = [i \in 0 .. n |-> Appended(rows, h, i)]
    BY <2>2
  <2> QED BY <2>3
<1>3. Is(f)
  BY <1>2
<1>4. UsableOnes(rows) = f[n]
  BY DEF UsableOnes, Appended
<1> HIDE DEF f
<1>5. Follows(rows, f, n)
  BY <1>3 DEF Follows
<1> QED BY <1>4, <1>5

\* list is what may be used of the first n rows: at tells the row each element
\* comes from, and no row that may be used is missing.
Usables(rows, n) == {i \in 1 .. n : Usable(rows[i].provider)}
Selection(rows, n, list, at) ==
    /\ list \in Seq(Candidate)
    /\ at \in [1 .. Len(list) -> Usables(rows, n)]
    /\ \A j \in 1 .. Len(list) : list[j] = rows[at[j]]
    /\ \A j, k \in 1 .. Len(list) : j < k => at[j] < at[k]
    /\ \A i \in Usables(rows, n) : \E j \in 1 .. Len(list) : at[j] = i

LEMMA LoopSelects ==
    ASSUME NEW rows \in Seq(Candidate), NEW g, Follows(rows, g, Len(rows))
    PROVE  \E at : Selection(rows, Len(rows), g[Len(rows)], at)
<1> DEFINE L == Len(rows)
           Q == {n \in Nat : n <= L => \E at : Selection(rows, n, g[n], at)}
<1>0. L \in Nat /\ \A i \in 1 .. L : rows[i] \in Candidate
  OBVIOUS
<1>1. 0 \in Q
  <2>1. g[0] = <<>>
    BY DEF Follows, Appended
  <2>2. Selection(rows, 0, <<>>, [j \in {} |-> 0])
    BY DEF Selection, Usables
  <2> QED BY <2>1, <2>2
<1>2. ASSUME NEW n \in Nat, n \in Q PROVE n + 1 \in Q
  <2> SUFFICES ASSUME n + 1 <= L PROVE \E at : Selection(rows, n + 1, g[n + 1], at)
    OBVIOUS
  <2>1. PICK at : Selection(rows, n, g[n], at)
    BY <1>0, <1>2
  <2>2. n + 1 \in 0 .. L /\ n + 1 \in 1 .. L /\ (n + 1) - 1 = n /\ n + 1 # 0
    BY <1>0
  <2>3. g[n + 1] = Appended(rows, g, n + 1)
    BY <2>2 DEF Follows
  <2> DEFINE row == rows[n + 1]  list == g[n]  m == Len(list)
  <2>4. row \in Candidate
    BY <1>0, <2>2
  <2>5. \A i : i \in Usables(rows, n + 1) <=>
            i \in Usables(rows, n) \/ (i = n + 1 /\ Usable(row.provider))
    BY DEF Usables
  <2>6. list \in Seq(Candidate) /\ m \in Nat
    BY <2>1 DEF Selection
  <2>7. CASE ~Usable(row.provider)
    <3>1. g[n + 1] = list
      BY <2>2, <2>3, <2>7 DEF Appended
    <3>2. Usables(rows, n + 1) = Usables(rows, n)
      BY <2>5, <2>7
    <3> QED BY <2>1, <3>1, <3>2 DEF Selection
  <2>8. CASE Usable(row.provider)
    <3> DEFINE new == Append(list, row)
               to == [j \in 1 .. m + 1 |-> IF j = m + 1 THEN n + 1 ELSE at[j]]
    <3>1. g[n + 1] = new
      BY <2>2, <2>3, <2>8 DEF Appended
    <3>2. /\ new \in Seq(Candidate) /\ Len(new) = m + 1 /\ new[m + 1] = row
          /\ \A j \in 1 .. m : new[j] = list[j]
      BY <2>4, <2>6
    <3>3. \A j \in 1 .. m : at[j] \in Usables(rows, n) /\ at[j] \in Nat /\ at[j] <= n
      <4>1. \A i \in Usables(rows, n) : i \in Nat /\ i <= n
        BY DEF Usables
      <4>2. \A j \in 1 .. m : at[j] \in Usables(rows, n)
        BY <2>1 DEF Selection
      <4> QED BY <4>1, <4>2
    <3>4. to[m + 1] = n + 1 /\ \A j \in 1 .. m : to[j] = at[j]
      BY <2>6
    <3>5. \A j \in 1 .. m + 1 : j = m + 1 \/ j \in 1 .. m
      BY <2>6
    <3>6. to \in [1 .. m + 1 -> Usables(rows, n + 1)]
      BY <2>5, <2>8, <3>3, <3>5
    <3> HIDE DEF to, new
    <3>7. \A j \in 1 .. m + 1 : new[j] = rows[to[j]]
      BY <2>1, <3>2, <3>4, <3>5 DEF Selection
    <3>8. \A j, k \in 1 .. m + 1 : j < k => to[j] < to[k]
      <4> SUFFICES ASSUME NEW j \in 1 .. m + 1, NEW k \in 1 .. m + 1, j < k PROVE to[j] < to[k]
        OBVIOUS
      <4>1. j \in 1 .. m
        BY <2>6, <3>5
      <4>2. CASE k = m + 1
        BY <3>3, <3>4, <4>1, <4>2
      <4>3. CASE k \in 1 .. m
        BY <2>1, <3>4, <4>1, <4>3 DEF Selection
      <4> QED BY <3>5, <4>2, <4>3
    <3>9. \A i \in Usables(rows, n + 1) : \E j \in 1 .. m + 1 : to[j] = i
      <4> SUFFICES ASSUME NEW i \in Usables(rows, n + 1) PROVE \E j \in 1 .. m + 1 : to[j] = i
        OBVIOUS
      <4>1. CASE i = n + 1
        BY <2>6, <3>4, <4>1
      <4>2. CASE i # n + 1
        <5>1. PICK j \in 1 .. m : at[j] = i
          BY <2>1, <2>5, <4>2 DEF Selection
        <5>2. j \in 1 .. m + 1
          BY <2>6
        <5> QED BY <3>4, <5>1, <5>2
      <4> QED BY <4>1, <4>2
    <3>10. Selection(rows, n + 1, new, to)
      BY <3>2, <3>6, <3>7, <3>8, <3>9 DEF Selection
    <3> QED BY <3>1, <3>10
  <2> QED BY <2>7, <2>8
<1>3. L \in Q
  <2> HIDE DEF Q
  <2> QED BY <1>0, <1>1, <1>2, NaturalsReached
<1> QED BY <1>0, <1>3

\* What is tried for a payment is exactly the usable ones of the rows read (of
\* the defaults, when none is enabled), each once, in the order of the rows:
\* no healthy provider of the merchant is passed over, none comes before one
\* that was read before it.
THEOREM CandidatesAreTheUsable ==
    ASSUME NEW rows \in Seq(Candidate)
    PROVE  LET read == IF rows = <<>> THEN Standard ELSE rows
           IN  \E at : Selection(read, Len(read), Candidates(rows), at)
<1> DEFINE read == IF rows = <<>> THEN Standard ELSE rows
<1>1. Standard \in Seq(Candidate)
  <2>1. Defaults \in Seq(Provider)
    BY RoutingAssumption
  <2>2. DOMAIN Defaults = 1 .. Len(Defaults) /\ Len(Defaults) \in Nat
        /\ \A i \in 1 .. Len(Defaults) : Defaults[i] \in Provider
    BY <2>1
  <2>3. Standard \in [1 .. Len(Defaults) -> Candidate]
    BY <2>2 DEF Standard, Candidate
  <2> QED BY <2>2, <2>3
<1>2. read \in Seq(Candidate)
  BY <1>1
<1> HIDE DEF read
<1>3. PICK g : Follows(read, g, Len(read)) /\ UsableOnes(read) = g[Len(read)]
  BY <1>2, UsableOnesIsLoop
<1>4. \E at : Selection(read, Len(read), UsableOnes(read), at)
  BY <1>2, <1>3, LoopSelects
<1> QED BY <1>4 DEF Candidates, read

-----------------------------------------------------------------------------
(* The clock and the admin.                                                *)

\* The clock, the admin's changes and the history of what was closed.
CountInv ==
    /\ now <= MaxTime
    /\ active \in BOOLEAN /\ bearer \in Bearers
    /\ switches \in 0 .. MaxSwitches
    /\ closed \in [Causes -> SUBSET Request]

LEMMA CountStart == Init => CountInv
BY CheckoutAssumption DEF Init, LimiterInit, CountInv, Bearers

LEMMA CountStep == BaseInv /\ CountInv /\ [Next]_vars => CountInv'
<1> SUFFICES ASSUME BaseInv, CountInv, [Next]_vars PROVE CountInv'
  OBVIOUS
<1> USE CheckoutAssumption
<1>0. now \in Nat /\ mix.until \in Nat /\ mix.until <= MaxTime
  BY DEF BaseInv, LimiterInv, LimiterTypeOK
<1>1. ASSUME UNCHANGED <<now, active, bearer, switches, closed>> PROVE CountInv'
  BY <1>1 DEF CountInv
<1>2. ASSUME Reclose PROVE closed' \in [Causes -> SUBSET Request]
  BY <1>2 DEF Reclose, CountInv
<1>3. ASSUME NEW op, Spend(op) PROVE switches' \in 0 .. MaxSwitches
  BY <1>3 DEF Spend, CountInv
<1>4. CASE UNCHANGED vars
  BY <1>1, <1>4 DEF vars, checkoutVars
<1>5. CASE Cleanup \/ \E route \in mix.routes : GetPublicLink(route.peer, route.forwarded)
  BY <1>1, <1>5 DEF Cleanup, CleanupBegin, CleanupSweep, GetPublicLink, allow, checkoutVars
<1>6. ASSUME NEW r \in Request, NEW peer, NEW f, NEW a, Arrive(r, peer, f, a) PROVE CountInv'
  BY <1>6 DEF Arrive, allow, CountInv
<1>7. ASSUME NEW r \in Request,
             \/ ReadLink(r) \/ CheckMerchant(r) \/ ReadConfigs(r) \/ Resolve(r)
             \/ OrderAccepted(r) \/ OrderRefused(r) \/ Fail(r)
             \/ \E c \in Columns : \E v \in Values(c) : ReadForEdit(r, c, v)
      PROVE  CountInv'
  BY <1>1, <1>7 DEF ReadLink, CheckMerchant, ReadConfigs, Resolve, OrderAccepted, OrderRefused,
     Fail, ReadForEdit, checkoutVars
<1>8. ASSUME \/ \E r \in Request : WriteEdit(r) \/ \E on \in BOOLEAN : SetLinkActive(r, on)
             \/ \E l \in mix.links : MerchantCreates(l)
      PROVE  CountInv'
  BY <1>2, <1>8 DEF WriteEdit, SetLinkActive, MerchantCreates, CountInv
<1>9. CASE SetMerchantActive
  BY <1>2, <1>3, <1>9 DEF SetMerchantActive, CountInv
<1>10. CASE Tick
  BY <1>0, <1>2, <1>10 DEF Tick, CountInv
<1>11. ASSUME NEW p \in Provider,
              \/ UpsertMerchantProviderConfig(p) \/ DeleteMerchantProviderConfig(p)
              \/ UpdateProviderHealth(p)
       PROVE  CountInv'
  BY <1>3, <1>11 DEF UpsertMerchantProviderConfig, DeleteMerchantProviderConfig,
     UpdateProviderHealth, CountInv
<1>12. CASE SetFeeBearer
  BY <1>3, <1>12 DEF SetFeeBearer, CountInv, Bearers
<1> QED BY <1>4, <1>5, <1>6, <1>7, <1>8, <1>9, <1>10, <1>11, <1>12 DEF Next

-----------------------------------------------------------------------------
(* Where a checkout goes.                                                  *)

\* Provider p may have the order of a link, when those in ill are unhealthy
\* since before the checkout began.
Serves(p, row, ill) ==
    /\ p = Sandbox <=> row.env = "sandbox"
    /\ row.env = "production" => p \notin ill
\* What a request carries at each step.
Travels(t, ill) ==
    /\ t.step \in Steps
    /\ t.column # None => t.value \in Values(t.column)
    /\ t.list \in Seq(Candidate)
    /\ t.bearer \in Bearers \union {None}
    /\ t.op = "checkout" =>
          /\ t.step = "link" => t.amount \in Amount
          /\ t.step \in Carrying => t.row \in Link /\ t.amount \in Amount
          /\ t.step \in {"configs", "resolve"} => t.row.env = "production"
          /\ t.step \in Carrying \ {"merchant"} => t.bearer \in Bearers
          /\ t.step = "order" =>
                /\ t.list # <<>>
                /\ \A i \in DOMAIN t.list : Serves(t.list[i].provider, t.row, ill)
\* What the provider of an order is asked for.
Quoted(o) ==
    IF o.bearer = "customer"
    THEN Rate[o.provider] # None /\ JustCovers(o.charge, o.nominal, Rate[o.provider])
    ELSE o.charge = o.nominal
RouteInv ==
    /\ configs \in [Provider -> Config \union {NoConfig}]
    /\ health \subseteq Provider
    /\ sick \in [Request -> SUBSET Provider]
    /\ \A r \in Request : sick[r] \subseteq health
    /\ orders \in [Request -> Order \union {None}]
    /\ \A r \in Request : orders[r] # None =>
          Serves(orders[r].provider, orders[r].link, sick[r]) /\ Quoted(orders[r])
    /\ \A r \in Request : Travels(task[r], sick[r])

LEMMA RouteStart == Init => RouteInv
<1> SUFFICES ASSUME Init PROVE RouteInv
  OBVIOUS
<1>1. configs \in [Provider -> Config \union {NoConfig}]
  BY CheckoutAssumption DEF Init, RoutingInit
<1>2. \A ill : Travels(Unborn, ill)
  BY DEF Travels, Unborn, Steps
<1> QED BY <1>1, <1>2 DEF Init, RoutingInit, RouteInv

\* A request that ends carries nothing.
LEMMA FinishTravels ==
    ASSUME TasksOK, NEW r \in Request, NEW step \in {"done", "refused", "failed"},
           Finish(r, step)
    PROVE  OthersKept(r) /\ \A ill : Travels(task'[r], ill)
<1>1. task'[r] = [Unborn EXCEPT !.op = task[r].op, !.step = step]
  BY DEF Finish, TasksOK
<1> QED BY <1>1, FinishEffect DEF Travels, Unborn, Steps, Carrying

\* One request moves, to where it may be.
LEMMA RouteMove ==
    ASSUME RouteInv, NEW r \in Request, OthersKept(r),
           UNCHANGED <<configs, health, sick, orders>>, Travels(task'[r], sick[r])
    PROVE  RouteInv'
BY DEF RouteInv, OthersKept

\* The rows read, in any order of the enabled ones.
LEMMA RowsRead ==
    ASSUME RouteInv, NEW s \in EnabledOrders
    PROVE  [i \in DOMAIN s |-> Row(s[i])] \in Seq(Candidate)
<1> DEFINE n == Cardinality(Enabled)
<1>1. n \in Nat
  <2>1. Enabled \subseteq Provider
    BY DEF Enabled
  <2> QED BY <2>1, RoutingAssumption, FS_Subset, FS_CardinalityType
<1>2. \A p \in Enabled : Row(p) \in Candidate
  BY DEF Enabled, Row, Candidate, RouteInv, Config
<1>3. s \in [1 .. n -> Enabled]
  BY DEF EnabledOrders
<1> HIDE DEF n
<1>4. DOMAIN s = 1 .. n /\ \A i \in 1 .. n : s[i] \in Enabled
  BY <1>3
<1>5. [i \in DOMAIN s |-> Row(s[i])] \in [1 .. n -> Candidate]
  BY <1>2, <1>4
<1> QED BY <1>1, <1>5

\* Enabled rows are read once each.
LEMMA RowsComplete ==
    ASSUME NEW s \in EnabledOrders
    PROVE  /\ Cardinality(Enabled) \in Nat
           /\ s \in [1 .. Cardinality(Enabled) -> Enabled]
           /\ \A p \in Enabled : \E i \in 1 .. Cardinality(Enabled) : s[i] = p
<1> DEFINE n == Cardinality(Enabled)
<1>1. IsFiniteSet(Enabled) /\ n \in Nat
  <2>1. Enabled \subseteq Provider
    BY DEF Enabled
  <2> QED BY <2>1, RoutingAssumption, FS_Subset, FS_CardinalityType
<1>2. s \in [1 .. n -> Enabled]
  BY DEF EnabledOrders
<1>3. \A i, j \in 1 .. n : i < j => s[i] # s[j]
  BY <1>2 DEF EnabledOrders
<1>4. Cardinality(1 .. n) = n
  <2> HIDE DEF n
  <2>1. Cardinality(1 .. n) = IF 1 > n THEN 0 ELSE n - 1 + 1
    BY <1>1, FS_Interval
  <2> QED BY <1>1, <2>1
<1>5. s \in Injection(1 .. n, Enabled)
  <2> HIDE DEF n
  <2>1. ASSUME NEW i \in 1 .. n, NEW j \in 1 .. n, s[i] = s[j] PROVE i = j
    <3>1. i \in Int /\ j \in Int
      BY <1>1
    <3>2. ~(i < j) /\ ~(j < i)
      BY <1>3, <2>1
    <3> QED BY <3>1, <3>2
  <2> QED BY <1>2, <2>1 DEF Injection, IsInjective
<1>6. s \in Surjection(1 .. n, Enabled)
  BY <1>1, <1>4, <1>5, FS_Injection
<1> QED BY <1>1, <1>2, <1>6 DEF Surjection

\* resolveProvidersForMerchant, of configs and health as they stand: a merchant
\* with enabled configs has its payments tried at exactly the providers of these
\* that are usable, each once and none before one of a better priority, whichever
\* way the database settles ties.
THEOREM FailoverByPriority ==
    ASSUME RouteInv, NEW s \in EnabledOrders, Enabled # {}
    PROVE  LET list == Candidates([i \in DOMAIN s |-> Row(s[i])])
           IN  /\ {list[j].provider : j \in DOMAIN list} = {p \in Enabled : Usable(p)}
               /\ \A j, k \in DOMAIN list : j < k =>
                     /\ list[j].provider # list[k].provider
                     /\ configs[list[j].provider].priority <= configs[list[k].provider].priority
<1> DEFINE n == Cardinality(Enabled)
           rows == [i \in DOMAIN s |-> Row(s[i])]
           list == Candidates(rows)
<1>1. /\ n \in Nat /\ s \in [1 .. n -> Enabled]
      /\ \A p \in Enabled : \E i \in 1 .. n : s[i] = p
  BY RowsComplete
<1>2. \A i, j \in 1 .. n : i < j => /\ s[i] # s[j]
                                    /\ configs[s[i]].priority <= configs[s[j]].priority
  BY <1>1 DEF EnabledOrders
<1>3. DOMAIN s = 1 .. n
  BY <1>1
<1>4. /\ rows \in Seq(Candidate) /\ Len(rows) = n
      /\ \A i \in 1 .. n : rows[i].provider = s[i]
  <2>1. rows \in Seq(Candidate)
    BY RowsRead
  <2>2. DOMAIN rows = 1 .. n
    BY <1>3
  <2>3. Len(rows) = n
    <3> HIDE DEF n, rows
    <3> QED BY <1>1, <2>1, <2>2
  <2>4. ASSUME NEW i \in 1 .. n PROVE rows[i].provider = s[i]
    BY <1>3, <2>4 DEF Row
  <2> QED BY <2>1, <2>3, <2>4
<1> HIDE DEF n, rows
<1>5. rows # <<>>
  <2>1. n # 0
    BY <1>1
  <2> QED BY <1>4, <2>1
<1>6. PICK at : Selection(rows, Len(rows), list, at)
  <2>1. \E at : Selection(IF rows = <<>> THEN Standard ELSE rows,
                          Len(IF rows = <<>> THEN Standard ELSE rows), list, at)
    BY <1>4, CandidatesAreTheUsable
  <2> QED BY <1>5, <2>1
<1> HIDE DEF list
<1>7. /\ DOMAIN list = 1 .. Len(list) /\ Len(list) \in Nat
      /\ \A j \in 1 .. Len(list) : /\ at[j] \in 1 .. n /\ Usable(rows[at[j]].provider)
                                   /\ list[j] = rows[at[j]]
      /\ \A j, k \in 1 .. Len(list) : j < k => at[j] < at[k]
      /\ \A i \in 1 .. n : Usable(rows[i].provider) => \E j \in 1 .. Len(list) : at[j] = i
  <2>1. list \in Seq(Candidate) /\ at \in [1 .. Len(list) -> Usables(rows, n)]
    BY <1>4, <1>6 DEF Selection
  <2>2. \A j \in 1 .. Len(list) : at[j] \in 1 .. n /\ Usable(rows[at[j]].provider)
    BY <2>1 DEF Usables
  <2>3. \A i \in 1 .. n : Usable(rows[i].provider) => i \in Usables(rows, n)
    BY DEF Usables
  <2>4. /\ \A j \in 1 .. Len(list) : list[j] = rows[at[j]]
        /\ \A j, k \in 1 .. Len(list) : j < k => at[j] < at[k]
        /\ \A i \in Usables(rows, n) : \E j \in 1 .. Len(list) : at[j] = i
    BY <1>4, <1>6 DEF Selection
  <2>5. DOMAIN list = 1 .. Len(list) /\ Len(list) \in Nat
    BY <2>1
  <2> QED BY <2>2, <2>3, <2>4, <2>5, Zenon
<1>8. \A j \in DOMAIN list : list[j].provider = s[at[j]] /\ s[at[j]] \in Enabled /\ Usable(s[at[j]])
  BY <1>1, <1>4, <1>7
<1>9. ASSUME NEW p \in Enabled, Usable(p) PROVE \E j \in DOMAIN list : list[j].provider = p
  <2>1. PICK i \in 1 .. n : s[i] = p
    BY <1>1
  <2>2. PICK j \in 1 .. Len(list) : at[j] = i
    BY <1>4, <1>7, <1>9, <2>1
  <2> QED BY <1>7, <1>8, <2>1, <2>2
<1>10. {list[j].provider : j \in DOMAIN list} = {p \in Enabled : Usable(p)}
  BY <1>8, <1>9
<1>11. ASSUME NEW j \in DOMAIN list, NEW k \in DOMAIN list, j < k
       PROVE  /\ list[j].provider # list[k].provider
              /\ configs[list[j].provider].priority <= configs[list[k].provider].priority
  <2>1. at[j] \in 1 .. n /\ at[k] \in 1 .. n /\ at[j] < at[k]
    BY <1>7, <1>11
  <2> QED BY <1>2, <1>8, <2>1
<1> QED BY <1>10, <1>11 DEF list, rows

\* Candidates are registered, not the mock, and healthy when they are listed.
LEMMA CandidatesServe ==
    ASSUME RouteInv, NEW rows \in Seq(Candidate), NEW row, row.env = "production",
           NEW r \in Request
    PROVE  /\ Candidates(rows) \in Seq(Candidate)
           /\ \A i \in DOMAIN Candidates(rows) :
                 Serves(Candidates(rows)[i].provider, row, sick[r])
<1> DEFINE read == IF rows = <<>> THEN Standard ELSE rows
<1>1. PICK at : Selection(read, Len(read), Candidates(rows), at)
  BY CandidatesAreTheUsable
<1> HIDE DEF read
<1> DEFINE list == Candidates(rows)
<1>2. list \in Seq(Candidate) /\ DOMAIN list = 1 .. Len(list)
  BY <1>1 DEF Selection
<1>3. ASSUME NEW i \in DOMAIN list PROVE Serves(list[i].provider, row, sick[r])
  <2>1. Usable(list[i].provider)
    BY <1>1, <1>2 DEF Selection, Usables
  <2> QED BY <2>1 DEF Usable, Eligible, Serves, RouteInv
<1> QED BY <1>2, <1>3

\* A provider that can quote is asked for its own quote, which is enough for
\* the nominal and the least that is.
LEMMA ChargeIsQuoted ==
    ASSUME NEW p \in Provider, NEW who \in Bearers, CanCharge(p, who), NEW nominal \in Nat \ {0}
    PROVE  /\ chargeFor(p, who, nominal) \in Nat
           /\ IF who = "customer"
              THEN Rate[p] # None /\ JustCovers(chargeFor(p, who, nominal), nominal, Rate[p])
              ELSE chargeFor(p, who, nominal) = nominal
<1>1. CASE who = "customer"
  <2> DEFINE bps == Rate[p]  total == QuoteTotalBasisPoints(nominal, bps)
  <2>1. bps # None /\ bps \in 0 .. bpsDenominator - 1
    BY <1>1, CheckoutAssumption DEF CanCharge
  <2>2. chargeFor(p, who, nominal) = total
    BY <1>1 DEF chargeFor
  <2> HIDE DEF bps
  <2>3. total \in Nat /\ total - FeeOn(total, bps) >= nominal
    BY <2>1, QuoteSuffices
  <2>4. \A smaller \in Nat : smaller < total => smaller - FeeOn(smaller, bps) < nominal
    BY <2>1, QuoteIsMinimal
  <2> HIDE DEF total
  <2>5. bps \in Nat
    BY <2>1 DEF bpsDenominator
  <2>6. FeeOn(total, bps) \in Nat
    BY <2>3, <2>5, FeeOnNatural
  <2>7. total - 1 \in Nat /\ total - 1 < total
    BY <2>3, <2>6
  <2>8. JustCovers(total, nominal, bps)
    BY <2>3, <2>4, <2>7 DEF JustCovers, MerchantNetBasisPoints
  <2> QED BY <1>1, <2>1, <2>2, <2>3, <2>8 DEF bps
<1>2. CASE who # "customer"
  BY <1>2 DEF chargeFor
<1> QED BY <1>1, <1>2

LEMMA RouteStep ==
    BaseInv /\ ClosedInv /\ CountInv /\ AmountInv /\ RouteInv /\ [Next]_vars => RouteInv'
<1> SUFFICES ASSUME BaseInv, ClosedInv, CountInv, AmountInv, RouteInv, [Next]_vars PROVE RouteInv'
  OBVIOUS
<1>0. TasksOK /\ LinkTyped /\ mix \in Mixes
  BY DEF BaseInv
<1>1. ASSUME UNCHANGED <<configs, health, sick, orders, task>> PROVE RouteInv'
  BY <1>1 DEF RouteInv
<1>2. CASE UNCHANGED vars
  BY <1>1, <1>2 DEF vars, routingVars, checkoutVars
<1>3. ASSUME NEW route \in mix.routes, GetPublicLink(route.peer, route.forwarded)
      PROVE  RouteInv'
  BY <1>1, <1>3 DEF GetPublicLink, routingVars, checkoutVars
<1>4. ASSUME NEW r \in Request, NEW peer, NEW f, NEW a \in mix.amounts, Arrive(r, peer, f, a)
      PROVE  RouteInv'
  <2>1. /\ UNCHANGED <<configs, health, orders>> /\ task[r].step = "new"
        /\ sick' = [sick EXCEPT ![r] = health]
    BY <1>4 DEF Arrive, routingVars
  <2>2. a \in Amount /\ orders[r] = None
    BY <1>0, <2>1, CheckoutAssumption DEF ClosedInv
  <2>3. PICK step \in {"link", "refused"} :
            task' = [task EXCEPT ![r] = [Unborn EXCEPT !.op = "checkout", !.amount = a, !.step = step]]
    BY <1>4 DEF Arrive
  <2>4. task'[r] = [Unborn EXCEPT !.op = "checkout", !.amount = a, !.step = step]
    BY <1>0, <2>3 DEF TasksOK
  <2>5. Travels(task'[r], health)
    BY <2>2, <2>4 DEF Travels, Unborn, Steps, Carrying
  <2>6. \A q \in Request : q # r => task'[q] = task[q]
    BY <2>3
  <2> QED BY <2>1, <2>2, <2>5, <2>6 DEF RouteInv
<1>5. ASSUME NEW r \in Request, ReadLink(r) PROVE RouteInv'
  <2>1. UNCHANGED <<configs, health, sick, orders>> /\ At(r, "checkout", "link")
    BY <1>5 DEF ReadLink, routingVars, checkoutVars
  <2>2. CASE Finish(r, "refused")
    BY <1>0, <2>1, <2>2, FinishTravels, RouteMove
  <2>3. CASE ~Finish(r, "refused")
    <3> DEFINE a == task[r].amount
    <3>1. /\ link # None /\ Accepts(link, a)
          /\ task' = [task EXCEPT ![r].step = "merchant", ![r].row = link,
                                  ![r].amount = Nominal(link, a)]
      BY <1>5, <2>3 DEF ReadLink
    <3>2. link \in Link /\ a \in Amount
      BY <1>0, <2>1, <3>1 DEF LinkTyped, RouteInv, Travels, At
    <3>3. Nominal(link, a) \in Amount
      BY <3>2 DEF Nominal, Link, Bound
    <3>4. OthersKept(r) /\ task'[r] = [task[r] EXCEPT !.step = "merchant", !.row = link,
                                                      !.amount = Nominal(link, a)]
      BY <1>0, <3>1 DEF OthersKept, TasksOK
    <3>5. Travels(task'[r], sick[r])
      BY <1>0, <3>2, <3>3, <3>4 DEF Travels, RouteInv, TasksOK, Fields, Steps, Carrying
    <3> QED BY <2>1, <3>4, <3>5, RouteMove
  <2> QED BY <2>2, <2>3
<1>6. ASSUME NEW r \in Request, CheckMerchant(r) PROVE RouteInv'
  <2>1. UNCHANGED <<configs, health, sick, orders>> /\ At(r, "checkout", "merchant")
    BY <1>6 DEF CheckMerchant, routingVars, checkoutVars
  <2>2. Travels(task[r], sick[r]) /\ task[r].row \in Link
    BY <2>1 DEF RouteInv, Travels, At, Carrying
  <2>0. bearer \in Bearers
    BY DEF CountInv
  <2>3. CASE ~active
    BY <1>0, <1>6, <2>1, <2>3, FinishTravels, RouteMove DEF CheckMerchant
  <2>4. CASE active /\ task[r].row.env = "sandbox"
    <3> DEFINE list == <<[provider |-> Sandbox, failover |-> FALSE]>>
    <3>1. task' = [task EXCEPT ![r].step = "order", ![r].bearer = bearer, ![r].list = list]
      BY <1>6, <2>4 DEF CheckMerchant
    <3>2. OthersKept(r) /\ task'[r] =
              [task[r] EXCEPT !.step = "order", !.bearer = bearer, !.list = list]
      BY <1>0, <3>1 DEF OthersKept, TasksOK
    <3>3. list \in Seq(Candidate) /\ list # <<>>
          /\ \A i \in DOMAIN list : Serves(list[i].provider, task[r].row, sick[r])
      BY <2>4, RoutingAssumption DEF Candidate, Serves
    <3> HIDE DEF list
    <3>4. Travels(task'[r], sick[r])
      BY <1>0, <2>0, <2>1, <2>2, <3>2, <3>3 DEF Travels, TasksOK, Fields, Steps, Carrying, At
    <3> QED BY <2>1, <3>2, <3>4, RouteMove
  <2>5. CASE active /\ task[r].row.env # "sandbox"
    <3>1. task' = [task EXCEPT ![r].step = "configs", ![r].bearer = bearer]
      BY <1>6, <2>5 DEF CheckMerchant
    <3>2. OthersKept(r) /\ task'[r] = [task[r] EXCEPT !.step = "configs", !.bearer = bearer]
      BY <1>0, <3>1 DEF OthersKept, TasksOK
    <3>3. task[r].row.env = "production"
      BY <2>2, <2>5 DEF Link
    <3>4. Travels(task'[r], sick[r])
      BY <1>0, <2>0, <2>1, <2>2, <3>2, <3>3 DEF Travels, TasksOK, Fields, Steps, Carrying, At
    <3> QED BY <2>1, <3>2, <3>4, RouteMove
  <2> QED BY <2>3, <2>4, <2>5
<1>7. ASSUME NEW r \in Request, ReadConfigs(r) PROVE RouteInv'
  <2>1. UNCHANGED <<configs, health, sick, orders>> /\ At(r, "checkout", "configs")
    BY <1>7 DEF ReadConfigs, routingVars, checkoutVars
  <2>2. PICK s \in EnabledOrders :
            task' = [task EXCEPT ![r].step = "resolve", ![r].list = [i \in DOMAIN s |-> Row(s[i])]]
    BY <1>7 DEF ReadConfigs
  <2> DEFINE list == [i \in DOMAIN s |-> Row(s[i])]
  <2>3. list \in Seq(Candidate)
    BY RowsRead
  <2>4. task' = [task EXCEPT ![r].step = "resolve", ![r].list = list]
    BY <2>2
  <2> HIDE DEF list
  <2>5. OthersKept(r) /\ task'[r] = [task[r] EXCEPT !.step = "resolve", !.list = list]
    BY <1>0, <2>4 DEF OthersKept, TasksOK
  <2>6. Travels(task'[r], sick[r])
    BY <1>0, <2>1, <2>3, <2>5 DEF RouteInv, Travels, TasksOK, Fields, Steps, Carrying, At
  <2> QED BY <2>1, <2>5, <2>6, RouteMove
<1>8. ASSUME NEW r \in Request, Resolve(r) PROVE RouteInv'
  <2>1. UNCHANGED <<configs, health, sick, orders>> /\ At(r, "checkout", "resolve")
    BY <1>8 DEF Resolve, routingVars, checkoutVars
  <2> DEFINE list == Candidates(task[r].list)
  <2>2. Travels(task[r], sick[r]) /\ task[r].row.env = "production"
        /\ task[r].list \in Seq(Candidate)
    BY <2>1 DEF RouteInv, Travels, At
  <2>3. /\ list \in Seq(Candidate)
        /\ \A i \in DOMAIN list : Serves(list[i].provider, task[r].row, sick[r])
    BY <2>2, CandidatesServe
  <2>4. \/ Finish(r, "refused")
        \/ list # <<>> /\ task' = [task EXCEPT ![r].step = "order", ![r].list = list]
    BY <1>8 DEF Resolve
  <2> HIDE DEF list
  <2>5. CASE Finish(r, "refused")
    BY <1>0, <2>1, <2>5, FinishTravels, RouteMove
  <2>6. CASE list # <<>> /\ task' = [task EXCEPT ![r].step = "order", ![r].list = list]
    <3>1. OthersKept(r) /\ task'[r] = [task[r] EXCEPT !.step = "order", !.list = list]
      BY <1>0, <2>6 DEF OthersKept, TasksOK
    <3>2. Travels(task'[r], sick[r])
      BY <1>0, <2>1, <2>2, <2>3, <2>6, <3>1 DEF Travels, TasksOK, Fields, Steps, Carrying, At
    <3> QED BY <2>1, <3>1, <3>2, RouteMove
  <2> QED BY <2>4, <2>5, <2>6
<1>9. ASSUME NEW r \in Request, OrderAccepted(r) PROVE RouteInv'
  <2> DEFINE t == task[r]
             p == Head(t.list).provider
             charge == chargeFor(p, t.bearer, t.amount)
             o == [provider |-> p, nominal |-> t.amount, charge |-> charge,
                   bearer |-> t.bearer, link |-> t.row]
  <2>1. /\ UNCHANGED <<configs, health, sick>> /\ At(r, "checkout", "order")
        /\ CanCharge(p, t.bearer)
        /\ orders' = [orders EXCEPT ![r] = o] /\ Finish(r, "done")
    BY <1>9 DEF OrderAccepted, routingVars
  <2>2. /\ t.list \in Seq(Candidate) /\ t.list # <<>> /\ t.row \in Link /\ t.amount \in Amount
        /\ t.bearer \in Bearers
        /\ \A i \in DOMAIN t.list : Serves(t.list[i].provider, t.row, sick[r])
    BY <2>1 DEF RouteInv, Travels, At, Carrying
  <2>3. Head(t.list) = t.list[1] /\ 1 \in DOMAIN t.list /\ t.list[1] \in Candidate
    BY <2>2
  <2>4. p \in Provider /\ Serves(p, t.row, sick[r])
    BY <2>2, <2>3 DEF Candidate
  <2>5. t.amount \in Nat \ {0}
    <3>1. PlatformMin <= t.amount
      BY <2>1 DEF AmountInv, Charged, InLimits, At, Carrying
    <3>2. t.amount \in Int /\ PlatformMin \in Nat \ {0}
      BY <2>2, LinksAssumption
    <3> HIDE DEF t
    <3> QED BY <3>1, <3>2
  <2> HIDE DEF p
  <2>6. charge \in Nat /\ Quoted(o)
    BY <2>1, <2>2, <2>4, <2>5, ChargeIsQuoted DEF Quoted
  <2> HIDE DEF charge
  <2>7. o \in Order
    BY <2>2, <2>4, <2>6 DEF Order
  <2>8. Serves(o.provider, o.link, sick[r])
    BY <2>4
  <2> HIDE DEF o
  <2>9. OthersKept(r) /\ Travels(task'[r], sick[r])
    BY <1>0, <2>1, FinishTravels
  <2> QED BY <2>1, <2>6, <2>7, <2>8, <2>9 DEF RouteInv, OthersKept
<1>10. ASSUME NEW r \in Request, OrderRefused(r) PROVE RouteInv'
  <2>1. UNCHANGED <<configs, health, sick, orders>> /\ At(r, "checkout", "order")
    BY <1>10 DEF OrderRefused, routingVars, checkoutVars
  <2> DEFINE list == task[r].list  rest == Tail(list)
  <2>2. /\ Travels(task[r], sick[r]) /\ list \in Seq(Candidate)
        /\ \A i \in DOMAIN list : Serves(list[i].provider, task[r].row, sick[r])
    BY <2>1 DEF RouteInv, Travels, At
  <2>3. \/ Finish(r, "failed")
        \/ Len(list) > 1 /\ task' = [task EXCEPT ![r].list = rest]
    BY <1>10 DEF OrderRefused
  <2>4. CASE Finish(r, "failed")
    BY <1>0, <2>1, <2>4, FinishTravels, RouteMove
  <2>5. CASE Len(list) > 1 /\ task' = [task EXCEPT ![r].list = rest]
    <3>1. /\ rest \in Seq(Candidate) /\ Len(rest) = Len(list) - 1
          /\ \A i \in 1 .. Len(rest) : rest[i] = list[i + 1] /\ i + 1 \in DOMAIN list
      BY <2>2, <2>5
    <3>2. rest # <<>> /\ \A i \in DOMAIN rest : Serves(rest[i].provider, task[r].row, sick[r])
      <4>1. Len(rest) > 0 /\ DOMAIN rest = 1 .. Len(rest)
        BY <2>2, <2>5, <3>1
      <4> HIDE DEF rest
      <4>2. rest # <<>>
        BY <4>1
      <4> QED BY <2>2, <3>1, <4>1, <4>2
    <3> HIDE DEF rest
    <3>3. OthersKept(r) /\ task'[r] = [task[r] EXCEPT !.list = rest]
      BY <1>0, <2>5 DEF OthersKept, TasksOK
    <3>4. Travels(task'[r], sick[r])
      BY <1>0, <2>1, <2>2, <3>1, <3>2, <3>3 DEF Travels, TasksOK, Fields, Steps, Carrying, At
    <3> QED BY <2>1, <3>3, <3>4, RouteMove
  <2> QED BY <2>3, <2>4, <2>5
<1>11. ASSUME NEW r \in Request, NEW c \in Columns, NEW v \in Values(c), ReadForEdit(r, c, v)
       PROVE  RouteInv'
  <2>1. UNCHANGED <<configs, health, sick, orders>>
    BY <1>11 DEF ReadForEdit, routingVars, checkoutVars
  <2>2. task' = [task EXCEPT ![r] = [Unborn EXCEPT
          !.op = "edit", !.step = "write", !.row = link, !.column = c, !.value = v]]
    BY <1>11 DEF ReadForEdit
  <2>3. OthersKept(r) /\ task'[r] = [Unborn EXCEPT
          !.op = "edit", !.step = "write", !.row = link, !.column = c, !.value = v]
    BY <1>0, <2>2 DEF OthersKept, TasksOK
  <2>4. Travels(task'[r], sick[r])
    BY <2>3 DEF Travels, Unborn, Steps
  <2> QED BY <2>1, <2>3, <2>4, RouteMove
<1>12. ASSUME NEW r \in Request, WriteEdit(r) \/ Fail(r) PROVE RouteInv'
  <2>1. UNCHANGED <<configs, health, sick, orders>>
        /\ (Finish(r, "done") \/ Finish(r, "failed"))
    BY <1>12 DEF WriteEdit, Fail, routingVars, checkoutVars
  <2> QED BY <1>0, <2>1, FinishTravels, RouteMove
<1>13. ASSUME NEW r \in Request, NEW on \in BOOLEAN, SetLinkActive(r, on) PROVE RouteInv'
  <2>1. UNCHANGED <<configs, health, sick, orders>>
        /\ task' = [task EXCEPT ![r] = [Unborn EXCEPT !.op = "toggle", !.step = "done"]]
    BY <1>13 DEF SetLinkActive, routingVars
  <2>2. OthersKept(r) /\ task'[r] = [Unborn EXCEPT !.op = "toggle", !.step = "done"]
    BY <1>0, <2>1 DEF OthersKept, TasksOK
  <2>3. Travels(task'[r], sick[r])
    BY <2>2 DEF Travels, Unborn, Steps
  <2> QED BY <2>1, <2>2, <2>3, RouteMove
<1>14. ASSUME (\E l \in mix.links : MerchantCreates(l)) \/ SetMerchantActive \/ SetFeeBearer
              \/ Tick \/ Cleanup
       PROVE  RouteInv'
  BY <1>1, <1>14 DEF MerchantCreates, SetMerchantActive, SetFeeBearer, Tick, Cleanup, routingVars, checkoutVars
<1>15. ASSUME NEW p \in Provider,
              UpsertMerchantProviderConfig(p) \/ DeleteMerchantProviderConfig(p)
       PROVE  RouteInv'
  <2>1. PICK c \in Config \union {NoConfig} : configs' = [configs EXCEPT ![p] = c]
    BY <1>15, CheckoutAssumption DEF UpsertMerchantProviderConfig, DeleteMerchantProviderConfig,
       UpsertConfig, DeleteConfig
  <2>2. UNCHANGED <<health, sick, orders, task>>
    BY <1>15 DEF UpsertMerchantProviderConfig, DeleteMerchantProviderConfig,
       UpsertConfig, DeleteConfig
  <2> QED BY <2>1, <2>2 DEF RouteInv
<1>16. ASSUME NEW p \in Provider, UpdateProviderHealth(p) PROVE RouteInv'
  <2>1. /\ UNCHANGED <<configs, orders, task>> /\ health' \subseteq Provider
        /\ sick' = [r \in Request |-> sick[r] \intersect health']
    BY <1>16 DEF UpdateProviderHealth, SetProviderHealth, RouteInv
  <2>2. \A t, ill, less : less \subseteq ill /\ Travels(t, ill) => Travels(t, less)
    BY DEF Travels, Serves
  <2>3. \A q, row, ill, less : less \subseteq ill /\ Serves(q, row, ill) => Serves(q, row, less)
    BY DEF Serves
  <2>4. \A r \in Request : sick'[r] \subseteq sick[r] /\ sick'[r] \subseteq health'
    BY <2>1
  <2> QED BY <2>1, <2>2, <2>3, <2>4 DEF RouteInv
<1> QED BY <1>2, <1>3, <1>4, <1>5, <1>6, <1>7, <1>8, <1>9, <1>10, <1>11, <1>12, <1>13, <1>14,
           <1>15, <1>16 DEF Next

LEMMA RouteHolds == Spec => []RouteInv
BY BaseStart, BaseStep, ClosedStart, ClosedStep, CountStart, CountStep, AmountStart, AmountStep,
   RouteStart, RouteStep, PTL DEF Spec

\* Whatever the admin does to the configs and the providers' health between the
\* steps of a checkout, a production payment never reaches the mock, a sandbox
\* one reaches nothing else, and none goes to a provider that was unhealthy
\* from before the checkout began.
THEOREM OrdersAreRoutedSafely == Spec => []RoutedSafely
<1>1. RouteInv => RoutedSafely
  BY DEF RouteInv, RoutedSafely, Serves
<1> QED BY <1>1, RouteHolds, PTL

\* Whatever edits of a link overlap each other and the checkouts, and whenever
\* the admin changes who bears the fee, a link's bounds never cross, an order
\* is for a nominal within the platform's limits and at the price of the row
\* the checkout read, and its provider is asked for that nominal or for its own
\* least quote of it: the merchant is never left short, nor a customer charged
\* a unit too much, by a failover between providers of different rates.
THEOREM OrdersKeepToTheQuote == Spec => []AmountsAsQuoted
<1>1. AmountInv /\ RouteInv => AmountsAsQuoted
  BY DEF AmountInv, RouteInv, AmountsAsQuoted, Charged, InLimits, Quoted
<1> QED BY <1>1, BaseStart, BaseStep, AmountStart, AmountStep, RouteHolds, PTL DEF Spec

-----------------------------------------------------------------------------
(* The types.                                                              *)

\* Every row, bucket, order, list of candidates and half-done request is what
\* its type says, for every set of configs found at the start.
THEOREM CheckoutTypeCorrect == Spec => []TypeOK
<1>1. BaseInv /\ RouteInv /\ CountInv => TypeOK
  <2> SUFFICES ASSUME BaseInv, RouteInv, CountInv PROVE TypeOK
    OBVIOUS
  <2>1. \A r \in Request :
          /\ task[r].step \in Steps
          /\ task[r].amount \in Amount \union {None}
          /\ task[r].row \in Link \union {None}
          /\ task[r].bearer \in Bearers \union {None}
          /\ task[r].column # None => task[r].value \in Values(task[r].column)
          /\ \A i \in DOMAIN task[r].list : task[r].list[i] \in Candidate
    BY DEF BaseInv, TasksOK, Bound, RouteInv, Travels
  <2> QED BY <2>1 DEF BaseInv, LimiterInv, LinkTyped, RouteInv, CountInv, TypeOK
<1> QED BY <1>1, BaseStart, BaseStep, CountStart, CountStep, RouteHolds, PTL DEF Spec
=============================================================================
