----------------------- MODULE PaymentCreationProofs -----------------------
(***************************************************************************)
(* PaymentCreation for every number of requests, keys and providers: the   *)
(* claim of a key is a lease.  While its holder works, the row is the      *)
(* holder's, has no payment yet and is younger than what the holder has    *)
(* used of its deadlines, hence too young to be taken over or purged.      *)
(***************************************************************************)
EXTENDS PaymentCreation, TLAPS

Held(r) == task[r].step \in {"create", "save", "complete", "release"} /\ task[r].key # None
Deadline(step) == IF step \in {"create", "save"} THEN CreateTimeout
                                                 ELSE CreateTimeout + SettleTimeout

\* Only requests with a key claim, read and settle.
Keyed == \A r \in Request :
    task[r].step \in {"claim", "read", "complete", "release"} => task[r].key # None

Leased == \A r \in Request : Held(r) =>
    /\ keys[task[r].key].owner = r
    /\ keys[task[r].key].payment = None
    /\ keys[task[r].key].age + task[r].left <= Deadline(task[r].step)

\* What was answered for a key is what its row says.
Recorded == \A k \in Key \ unlinked : \A p \in given[k] : keys[k].payment = p

LeaseInv == TypeOK /\ Keyed /\ Leased /\ Recorded

(* The bounds are positive numbers.                                        *)
LEMMA Bounds ==
    /\ MaxClaims \in Nat /\ MaxClaims > 0 /\ CreateTimeout \in Nat /\ CreateTimeout > 0
    /\ SettleTimeout \in Nat /\ SettleTimeout > 0
    /\ AbandonedAfter \in Nat /\ TTL \in Nat
    /\ CreateTimeout + SettleTimeout <= AbandonedAfter /\ AbandonedAfter < TTL
  BY CreationAssumption

(* The tasks a step can leave behind are tasks.                            *)
LEMMA TaskKinds ==
    ASSUME TypeOK, NEW r \in Request
    PROVE  /\ task[r] \in Tasks
           /\ Ended(r, "done") \in Tasks
           /\ Settling(r, "complete") \in Tasks
           /\ Failing(r) \in Tasks
<1>1. task[r] \in Tasks
  BY DEF TypeOK
<1>2. ASSUME NEW st \in Steps PROVE Ended(r, st) \in Tasks /\ Settling(r, st) \in Tasks
  BY <1>1, Bounds DEF Tasks, Ended, Settling, Task
<1>3. "done" \in Steps /\ "complete" \in Steps /\ "release" \in Steps
  BY DEF Steps
<1>4. Failing(r) \in Tasks
  BY <1>2, <1>3 DEF Failing
<1> QED BY <1>1, <1>2, <1>3, <1>4

(* The variables keep their types (TypeOK); only requests with a key claim, *)
(* read and settle.                                                        *)
LEMMA TypeStep == TypeOK /\ Keyed /\ [Next]_vars => TypeOK' /\ Keyed'
<1> SUFFICES ASSUME TypeOK, Keyed, [Next]_vars PROVE TypeOK' /\ Keyed'
  OBVIOUS
<1> USE CreationAssumption, Bounds
<1>1. ASSUME NEW r \in Request, NEW k \in Key \union {None}, NEW b \in Body, Arrive(r, k, b)
      PROVE  TypeOK' /\ Keyed'
  <2>1. Task(IF k = None THEN "create" ELSE "claim", k, b, 0) \in Tasks
    BY DEF Task, Tasks, Steps
  <2>2. TypeOK'
    BY <1>1, <2>1 DEF TypeOK, Arrive
  <2>3. Keyed'
    BY <1>1 DEF TypeOK, Keyed, Arrive, Task
  <2> QED BY <2>2, <2>3
<1>2. ASSUME NEW r \in Request, Claim(r) PROVE TypeOK' /\ Keyed'
  <2>1. task[r] \in Tasks /\ task[r].key \in Key
    BY <1>2 DEF TypeOK, Keyed, Claim, At, Tasks
  <2>2. CASE claimable(keys[task[r].key])
    <3>1. Task("create", task[r].key, task[r].body, CreateTimeout) \in Tasks
      BY <2>1 DEF Task, Tasks, Steps
    <3>2. [owner |-> r, body |-> task[r].body, payment |-> None, age |-> 0] \in Rows
      BY <2>1 DEF Tasks, Rows
    <3>3. task' = [task EXCEPT ![r] =
                     Task("create", task[r].key, task[r].body, CreateTimeout)]
      BY <1>2, <2>2 DEF Claim
    <3>4. keys' \in [Key -> Rows] /\ UNCHANGED <<payments, orders, answer>>
      BY <1>2, <2>2, <3>2 DEF Claim, TypeOK
    <3>5. given' \in [Key -> SUBSET Request] /\ unlinked' \subseteq Key
      BY <1>2, <2>2 DEF Claim, TypeOK, Forgotten
    <3>6. task' \in [Request -> Tasks]
      BY <3>1, <3>3 DEF TypeOK
    <3>7. Keyed'
      BY <3>3, <2>1 DEF Keyed, TypeOK, Task
    <3> QED BY <3>4, <3>5, <3>6, <3>7 DEF TypeOK
  <2>3. CASE ~claimable(keys[task[r].key])
    <3>1. task' = [task EXCEPT ![r] = [task[r] EXCEPT !.step = "read"]]
          /\ UNCHANGED <<keys, payments, orders, answer, given, unlinked>>
      BY <1>2, <2>3 DEF Claim, Goto, TypeOK
    <3>2. [task[r] EXCEPT !.step = "read"] \in Tasks
      BY <2>1 DEF Tasks, Steps
    <3> QED BY <2>1, <3>1, <3>2 DEF TypeOK, Keyed, Tasks
  <2> QED BY <2>2, <2>3
<1>3. ASSUME NEW r \in Request,
             ReadNothing(r) \/ Replay(r) \/ Refuse(r) \/ GiveUp(r) \/ Crash(r)
                \/ Complete(r) \/ CompleteFails(r) \/ Release(r)
      PROVE  task' \in [Request -> Tasks] /\ Keyed'
  <2>1. \/ task' = [task EXCEPT ![r] = Ended(r, "done")]
        \/ task' = [task EXCEPT ![r] = Failing(r)]
        \/ /\ task' = [task EXCEPT ![r] = [task[r] EXCEPT !.claims = @ + 1, !.step = "claim"]]
           /\ At(r, "read")
           /\ task[r].claims + 1 < MaxClaims
    BY <1>3 DEF ReadNothing, Replay, Refuse, GiveUp, Crash, Complete, CompleteFails, Release,
                Finish
  <2>2. CASE task' = [task EXCEPT ![r] = Ended(r, "done")]
    BY <2>2, TaskKinds DEF TypeOK, Keyed, Ended, Task, Steps
  <2>3. CASE task' = [task EXCEPT ![r] = Failing(r)]
    BY <2>3, TaskKinds DEF TypeOK, Keyed, Failing, Settling, Own, Ended, Task, Steps
  <2>4. CASE /\ task' = [task EXCEPT ![r] = [task[r] EXCEPT !.claims = @ + 1, !.step = "claim"]]
             /\ At(r, "read")
             /\ task[r].claims + 1 < MaxClaims
    <3>1. task[r] \in Tasks
      BY DEF TypeOK
    <3> DEFINE claims == task[r].claims + 1
    <3>2. claims \in 0 .. MaxClaims - 1
      BY <2>4, <3>1 DEF Tasks
    <3>3. task' = [task EXCEPT ![r] = [task[r] EXCEPT !.claims = claims, !.step = "claim"]]
      BY <2>4
    <3> HIDE DEF claims
    <3>4. [task[r] EXCEPT !.claims = claims, !.step = "claim"] \in Tasks
      BY <3>1, <3>2 DEF Tasks, Steps
    <3> QED BY <2>4, <3>1, <3>3, <3>4 DEF TypeOK, Keyed, At, Tasks
  <2> QED BY <2>1, <2>2, <2>3, <2>4
<1>4. ASSUME NEW r \in Request, ReadNothing(r) \/ Refuse(r) \/ GiveUp(r) \/ Crash(r)
      PROVE  TypeOK' /\ Keyed'
  BY <1>3, <1>4 DEF TypeOK, ReadNothing, Refuse, GiveUp, Crash
<1>5. ASSUME NEW r \in Request, Replay(r) PROVE TypeOK' /\ Keyed'
  <2>1. task[r].key \in Key
    BY <1>5 DEF TypeOK, Keyed, Replay, At, Tasks
  <2>2. keys[task[r].key].payment \in Request
    BY <1>5, <2>1 DEF TypeOK, Replay, Rows
  <2> QED BY <1>3, <1>5, <2>1, <2>2 DEF TypeOK, Replay, Give
<1>6. ASSUME NEW r \in Request, NEW p \in Provider, ProviderAccepts(r, p)
      PROVE  TypeOK' /\ Keyed'
  <2>1. task[r] \in Tasks
    BY DEF TypeOK
  <2>2. [task[r] EXCEPT !.step = "save", !.response = p] \in Tasks
    BY <2>1 DEF Tasks, Steps
  <2>3. task' = [task EXCEPT ![r] = [task[r] EXCEPT !.step = "save", !.response = p]]
    BY <1>6 DEF ProviderAccepts, TypeOK
  <2> QED BY <1>6, <2>1, <2>2, <2>3 DEF TypeOK, Keyed, ProviderAccepts, Tasks
<1>7. ASSUME NEW r \in Request, NEW p \in Provider, ProviderFails(r, p)
      PROVE  TypeOK' /\ Keyed'
  <2>1. task[r] \in Tasks /\ task[r].step = "create"
    BY <1>7 DEF TypeOK, ProviderFails, At
  <2>2. [task[r] EXCEPT !.tried = @ \union {p}] \in Tasks
    BY <2>1 DEF Tasks
  <2>3. \/ task' = [task EXCEPT ![r] = [task[r] EXCEPT !.tried = @ \union {p}]]
        \/ task' = [task EXCEPT ![r] = Failing(r)]
    BY <1>7 DEF ProviderFails
  <2>4. /\ orders' \in [Request -> SUBSET Provider]
        /\ UNCHANGED <<keys, payments, answer, given, unlinked>>
    BY <1>7 DEF TypeOK, ProviderFails
  <2>5. CASE task' = [task EXCEPT ![r] = [task[r] EXCEPT !.tried = @ \union {p}]]
    <3>1. task' \in [Request -> Tasks]
      BY <2>2, <2>5 DEF TypeOK
    <3>2. Keyed'
      BY <2>1, <2>5 DEF TypeOK, Keyed, Tasks
    <3> QED BY <2>4, <3>1, <3>2 DEF TypeOK
  <2>6. CASE task' = [task EXCEPT ![r] = Failing(r)]
    <3>1. Keyed'
      BY <2>6 DEF TypeOK, Keyed, Failing, Settling, Own, Ended, Task
    <3>2. task' \in [Request -> Tasks]
      BY <2>6, TaskKinds DEF TypeOK
    <3> QED BY <2>4, <3>1, <3>2 DEF TypeOK
  <2> QED BY <2>3, <2>5, <2>6
<1>8. ASSUME NEW r \in Request, Save(r) \/ SaveUnknown(r) PROVE TypeOK' /\ Keyed'
  <2>1. task[r] \in Tasks
    BY DEF TypeOK
  <2>2. \/ task' = [task EXCEPT ![r] = Settling(r, "complete")] /\ task[r].key # None
        \/ task' = [task EXCEPT ![r] = Ended(r, "done")]
        \/ task' = [task EXCEPT ![r] = Failing(r)]
    BY <1>8 DEF Save, SaveUnknown, Own
  <2>3. task' \in [Request -> Tasks]
    BY <2>2, TaskKinds DEF TypeOK
  <2>4. Keyed'
    BY <2>2 DEF TypeOK, Keyed, Failing, Settling, Own, Ended, Task
  <2>5. payments' \in [Request -> Provider \union {None}]
    BY <1>8, <2>1 DEF TypeOK, Save, SaveUnknown, Tasks
  <2>6. answer' \in [Request -> Request \union {None}] /\ given' \in [Key -> SUBSET Request]
    BY <1>8 DEF TypeOK, Save, SaveUnknown, Give, Own
  <2> QED BY <1>8, <2>3, <2>4, <2>5, <2>6 DEF TypeOK, Save, SaveUnknown
<1>9. ASSUME NEW r \in Request, Complete(r) \/ CompleteFails(r) PROVE TypeOK' /\ Keyed'
  <2>1. task[r].key \in Key
    BY <1>9 DEF TypeOK, Keyed, Complete, CompleteFails, At, Tasks
  <2>2. keys' \in [Key -> Rows]
    BY <1>9, <2>1 DEF TypeOK, Complete, CompleteFails, Linked, Rows
  <2>3. answer' \in [Request -> Request \union {None}] /\ given' \in [Key -> SUBSET Request]
    BY <1>9, <2>1 DEF TypeOK, Complete, CompleteFails, Give
  <2>4. unlinked' \subseteq Key
    BY <1>9, <2>1 DEF TypeOK, Complete, CompleteFails
  <2> QED BY <1>3, <1>9, <2>2, <2>3, <2>4 DEF TypeOK, Complete, CompleteFails
<1>10. ASSUME NEW r \in Request, Release(r) PROVE TypeOK' /\ Keyed'
  <2>1. NoRow \in Rows
    BY DEF NoRow, Rows
  <2>2. keys' \in [Key -> Rows]
    BY <1>10, <2>1 DEF TypeOK, Release
  <2> QED BY <1>3, <1>10, <2>2 DEF TypeOK, Release
<1>11. CASE Purge
  <2>1. NoRow \in Rows
    BY DEF NoRow, Rows
  <2> QED BY <1>11, <2>1 DEF TypeOK, Keyed, Purge, Forgotten
<1>12. CASE Tick
  <2>1. ASSUME NEW k \in Key PROVE keys'[k] \in Rows
    <3>1. keys[k] \in Rows
      BY DEF TypeOK
    <3>2. keys'[k] = IF keys[k] = NoRow THEN NoRow
                     ELSE [keys[k] EXCEPT !.age = IF @ > TTL THEN @ ELSE @ + 1]
      BY <1>12 DEF Tick
    <3>3. NoRow \in Rows
      BY DEF NoRow, Rows
    <3>4. CASE keys[k] # NoRow
      <4>1. keys[k].age \in 0 .. TTL + 1
        BY <3>1 DEF Rows
      <4> DEFINE age == IF keys[k].age > TTL THEN keys[k].age ELSE keys[k].age + 1
      <4>2. age \in 0 .. TTL + 1
        BY <4>1
      <4>3. keys'[k] = [keys[k] EXCEPT !.age = age]
        BY <3>2, <3>4
      <4> HIDE DEF age
      <4> QED BY <3>1, <4>2, <4>3 DEF Rows
    <3> QED BY <3>2, <3>3, <3>4
  <2>2. ASSUME NEW r \in Request
        PROVE  task'[r] \in Tasks /\ task'[r].step = task[r].step /\ task'[r].key = task[r].key
    <3>1. task[r] \in Tasks
      BY DEF TypeOK
    <3> QED BY <1>12, <3>1 DEF Tick, Tasks
  <2>3. keys' \in [Key -> Rows] /\ task' \in [Request -> Tasks]
    BY <1>12, <2>1, <2>2 DEF Tick
  <2> QED BY <1>12, <2>2, <2>3 DEF TypeOK, Keyed, Tick
<1>13. CASE UNCHANGED vars
  BY <1>13 DEF TypeOK, Keyed, vars
<1> QED BY <1>1, <1>2, <1>4, <1>5, <1>6, <1>7, <1>8, <1>9, <1>10, <1>11, <1>12, <1>13
        DEF Next, Take, Create, Settle

\* A step of r that takes no key, or takes its creation on to the next step.
Onward(r) ==
    /\ UNCHANGED <<keys, given, unlinked>>
    /\ \A s \in Request \ {r} : task'[s] = task[s]
    /\ Held(r)' => /\ Held(r)
                   /\ task'[r].key = task[r].key
                   /\ \/ /\ task'[r].left = task[r].left
                         /\ task[r].step = "create"
                         /\ task'[r].step \in {"create", "save"}
                      \/ /\ task'[r].left = SettleTimeout
                         /\ task[r].step \in {"create", "save"}
                         /\ task'[r].step \in {"complete", "release"}

(* Most steps only move a request on.                                      *)
LEMMA MovesOn ==
    ASSUME TypeOK, Keyed, NEW r \in Request,
           \/ \E k \in Key \union {None}, b \in Body : Arrive(r, k, b)
           \/ Claim(r) /\ ~claimable(keys[task[r].key])
           \/ ReadNothing(r) \/ Refuse(r) \/ Crash(r)
           \/ \E p \in Provider : ProviderAccepts(r, p) \/ ProviderFails(r, p)
           \/ GiveUp(r) \/ Save(r) \/ SaveUnknown(r)
    PROVE  Onward(r)
<1>1. ASSUME NEW k \in Key \union {None}, NEW b \in Body, Arrive(r, k, b) PROVE Onward(r)
  BY <1>1 DEF TypeOK, Arrive, Onward, Held, Task
<1>2. CASE Claim(r) /\ ~claimable(keys[task[r].key])
  <2>1. /\ task' = [task EXCEPT ![r].step = "read"]
        /\ UNCHANGED <<keys, given, unlinked>>
    BY <1>2 DEF Claim, Goto
  <2>2. task[r] \in Tasks
    BY DEF TypeOK
  <2>3. task'[r].step = "read"
    BY <2>1, <2>2 DEF TypeOK, Tasks
  <2> QED BY <2>1, <2>3 DEF TypeOK, Onward, Held
<1>3. CASE ReadNothing(r)
  <2>1. task[r] \in Tasks
    BY DEF TypeOK
  <2>2. task'[r].step \in {"claim", "done"}
    BY <1>3, <2>1 DEF ReadNothing, TypeOK, Ended, Task, Tasks
  <2> QED BY <1>3, <2>2 DEF TypeOK, ReadNothing, Onward, Held
<1>4. CASE Refuse(r) \/ Crash(r)
  BY <1>4 DEF TypeOK, Refuse, Crash, Finish, Ended, Task, Onward, Held
<1>5. ASSUME NEW p \in Provider, ProviderAccepts(r, p) PROVE Onward(r)
  <2>1. task[r] \in Tasks
    BY DEF TypeOK
  <2>2. /\ task'[r].key = task[r].key /\ task'[r].left = task[r].left
        /\ task'[r].step = "save" /\ task[r].step = "create"
    BY <1>5, <2>1 DEF ProviderAccepts, At, TypeOK, Tasks
  <2> QED BY <1>5, <2>2 DEF TypeOK, ProviderAccepts, Onward, Held
<1>6. ASSUME task' = [task EXCEPT ![r] = Failing(r)], task[r].step \in {"create", "save"},
             UNCHANGED <<keys, given, unlinked>>
      PROVE  Onward(r)
  <2>1. CASE Own(r)
    <3>1. /\ task'[r].key = task[r].key /\ task'[r].left = SettleTimeout
          /\ task'[r].step = "release"
      BY <1>6, <2>1 DEF TypeOK, Failing, Settling, Task
    <3> QED BY <1>6, <2>1, <3>1 DEF TypeOK, Onward, Held, Own
  <2>2. CASE ~Own(r)
    <3>1. task'[r].step = "done"
      BY <1>6, <2>2 DEF TypeOK, Failing, Ended, Task
    <3> QED BY <1>6, <3>1 DEF TypeOK, Onward, Held
  <2> QED BY <2>1, <2>2
<1>7. ASSUME NEW p \in Provider, ProviderFails(r, p) PROVE Onward(r)
  <2>1. task[r] \in Tasks /\ task[r].step = "create" /\ UNCHANGED <<keys, given, unlinked>>
    BY <1>7 DEF TypeOK, ProviderFails, At
  <2>2. \/ task' = [task EXCEPT ![r] = [task[r] EXCEPT !.tried = @ \union {p}]]
        \/ task' = [task EXCEPT ![r] = Failing(r)]
    BY <1>7 DEF ProviderFails
  <2>3. CASE task' = [task EXCEPT ![r] = [task[r] EXCEPT !.tried = @ \union {p}]]
    <3>1. /\ task'[r].key = task[r].key /\ task'[r].left = task[r].left
          /\ task'[r].step = task[r].step
      BY <2>1, <2>3 DEF TypeOK, Tasks
    <3> QED BY <2>1, <2>3, <3>1 DEF TypeOK, Onward, Held
  <2> QED BY <1>6, <2>1, <2>2, <2>3
<1>8. CASE GiveUp(r) \/ SaveUnknown(r)
  BY <1>6, <1>8 DEF GiveUp, SaveUnknown, At
<1>9. CASE Save(r)
  <2>1. UNCHANGED <<keys, given, unlinked>> /\ task[r].step = "save"
    BY <1>9 DEF Save, Give, At
  <2>2. CASE Own(r)
    <3>1. /\ task'[r].key = task[r].key /\ task'[r].left = SettleTimeout
          /\ task'[r].step = "complete"
      BY <1>9, <2>2 DEF TypeOK, Save, Settling, Task
    <3> QED BY <1>9, <2>1, <2>2, <3>1 DEF TypeOK, Save, Onward, Held, Own
  <2>3. CASE ~Own(r)
    <3>1. task'[r].step = "done"
      BY <1>9, <2>3 DEF TypeOK, Save, Ended, Task
    <3> QED BY <1>9, <2>1, <3>1 DEF TypeOK, Save, Onward, Held
  <2> QED BY <2>2, <2>3
<1> QED BY <1>1, <1>2, <1>3, <1>4, <1>5, <1>7, <1>8, <1>9

(* A step onward leaves every lease as good as it was.                     *)
LEMMA OnwardKeeps ==
    ASSUME LeaseInv, TypeOK', NEW r \in Request, Onward(r)
    PROVE  Leased' /\ Recorded'
<1>1. Recorded'
  BY DEF LeaseInv, Recorded, Onward
<1>2. ASSUME NEW s \in Request, Held(s)'
      PROVE  /\ keys'[task'[s].key].owner = s
             /\ keys'[task'[s].key].payment = None
             /\ keys'[task'[s].key].age + task'[s].left <= Deadline(task'[s].step)
  <2>1. CASE s # r
    BY <1>2, <2>1 DEF LeaseInv, Leased, Onward, Held
  <2>2. CASE s = r
    <3>1. task[r] \in Tasks /\ task'[r].key = task[r].key /\ keys' = keys /\ Held(r)
      BY <1>2, <2>2 DEF LeaseInv, TypeOK, Onward
    <3>2. task[r].key \in Key
      BY <3>1 DEF Tasks, Held
    <3> DEFINE age == keys[task[r].key].age
    <3>3. /\ keys[task[r].key].owner = r /\ keys[task[r].key].payment = None
          /\ age + task[r].left <= Deadline(task[r].step)
      BY <3>1 DEF LeaseInv, Leased
    <3>4. age \in Nat /\ task[r].left \in Nat
      BY <3>1, <3>2, Bounds DEF LeaseInv, TypeOK, Rows, Tasks
    <3>5. age + task'[r].left <= Deadline(task'[r].step)
      <4>1. CASE /\ task'[r].left = task[r].left
                 /\ task[r].step = "create"
                 /\ task'[r].step \in {"create", "save"}
        BY <3>3, <4>1 DEF Deadline
      <4>2. CASE /\ task'[r].left = SettleTimeout
                 /\ task[r].step \in {"create", "save"}
                 /\ task'[r].step \in {"complete", "release"}
        <5>1. age + task[r].left <= CreateTimeout
          BY <3>3, <4>2 DEF Deadline
        <5>2. Deadline(task'[r].step) = CreateTimeout + SettleTimeout
          BY <4>2 DEF Deadline
        <5> HIDE DEF age
        <5> QED BY <5>1, <5>2, <4>2, <3>4, Bounds
      <4> QED BY <1>2, <2>2, <4>1, <4>2 DEF Onward
    <3> QED BY <2>2, <3>1, <3>3, <3>5
  <2> QED BY <2>1, <2>2
<1> QED BY <1>1, <1>2 DEF Leased

(* The lease and the record of a key survive every step.                   *)
LEMMA LeaseStep == LeaseInv /\ [Next]_vars => LeaseInv'
<1> SUFFICES ASSUME LeaseInv, [Next]_vars PROVE LeaseInv'
  OBVIOUS
<1> USE Bounds
<1>1. TypeOK' /\ Keyed'
  BY TypeStep DEF LeaseInv
<1> SUFFICES Leased' /\ Recorded'
  BY <1>1 DEF LeaseInv
<1>2. TypeOK /\ Keyed /\ Leased /\ Recorded /\ None \notin Request
  BY CreationAssumption DEF LeaseInv
<1>3. ASSUME NEW s \in Request, Held(s)
      PROVE  /\ task[s].key \in Key
             /\ keys[task[s].key].age \in Nat
             /\ task[s].left \in Nat
             /\ keys[task[s].key].age + task[s].left <= AbandonedAfter
             /\ keys[task[s].key].owner = s
             /\ keys[task[s].key].payment = None
             /\ keys[task[s].key] # NoRow
             /\ ~claimable(keys[task[s].key])
  <2>1. task[s] \in Tasks /\ task[s].key \in Key
    BY <1>2, <1>3 DEF TypeOK, Tasks, Held
  <2>2. keys[task[s].key] \in Rows
    BY <1>2, <2>1 DEF TypeOK
  <2>3. keys[task[s].key].age \in Nat /\ task[s].left \in Nat
    BY <2>1, <2>2 DEF Rows, Tasks
  <2>4. /\ keys[task[s].key].age + task[s].left <= Deadline(task[s].step)
        /\ keys[task[s].key].owner = s
        /\ keys[task[s].key].payment = None
    BY <1>2, <1>3 DEF Leased
  <2>5. keys[task[s].key].age + task[s].left <= AbandonedAfter
    <3>1. CASE Deadline(task[s].step) = CreateTimeout
      BY <2>3, <2>4, <3>1
    <3>2. CASE Deadline(task[s].step) = CreateTimeout + SettleTimeout
      BY <2>3, <2>4, <3>2
    <3> QED BY <3>1, <3>2 DEF Deadline
  <2>6. keys[task[s].key] # NoRow
    BY <1>2, <2>4 DEF NoRow
  <2>7. ~claimable(keys[task[s].key])
    <3>1. ~(keys[task[s].key].age > AbandonedAfter) /\ ~(keys[task[s].key].age > TTL)
      BY <2>3, <2>5
    <3> QED BY <2>6, <3>1 DEF claimable
  <2> QED BY <2>1, <2>3, <2>4, <2>5, <2>6, <2>7
<1>4. ASSUME NEW r \in Request, Onward(r) PROVE Leased' /\ Recorded'
  BY <1>1, <1>4, OnwardKeeps
<1>5. ASSUME NEW r \in Request, Claim(r), claimable(keys[task[r].key])
      PROVE  Leased' /\ Recorded'
  <2> DEFINE k == task[r].key
  <2>1. k \in Key
    BY <1>2, <1>5 DEF TypeOK, Keyed, Claim, At, Tasks
  <2>2. /\ keys' = [keys EXCEPT ![k] =
              [owner |-> r, body |-> task[r].body, payment |-> None, age |-> 0]]
        /\ task' = [task EXCEPT ![r] = Task("create", k, task[r].body, CreateTimeout)]
        /\ Forgotten({k} \intersect {j \in Key : keys[j].age > TTL})
    BY <1>5 DEF Claim
  <2>3. ASSUME NEW s \in Request, Held(s)'
        PROVE  /\ keys'[task'[s].key].owner = s
               /\ keys'[task'[s].key].payment = None
               /\ keys'[task'[s].key].age + task'[s].left <= Deadline(task'[s].step)
    <3>1. CASE s = r
      <4>1. task'[r] = Task("create", k, task[r].body, CreateTimeout)
        BY <1>2, <2>2 DEF TypeOK
      <4>2. keys'[k] = [owner |-> r, body |-> task[r].body, payment |-> None, age |-> 0]
        BY <1>2, <2>1, <2>2 DEF TypeOK
      <4>3. task'[r].key = k /\ task'[r].left = CreateTimeout /\ task'[r].step = "create"
        BY <4>1 DEF Task
      <4> HIDE DEF k
      <4>4. keys'[k].owner = r /\ keys'[k].payment = None /\ keys'[k].age = 0
        BY <4>2
      <4>5. Deadline("create") = CreateTimeout
        BY DEF Deadline
      <4> QED BY <3>1, <4>3, <4>4, <4>5
    <3>2. CASE s # r
      <4>1. task'[s] = task[s] /\ Held(s)
        BY <2>2, <2>3, <3>2, <1>2 DEF TypeOK, Held
      <4>2. task[s].key # k
        BY <1>3, <1>5, <4>1
      <4>3. keys'[task[s].key] = keys[task[s].key]
        BY <1>2, <1>3, <2>2, <4>1, <4>2 DEF TypeOK
      <4> QED BY <1>2, <4>1, <4>3 DEF Leased
    <3> QED BY <3>1, <3>2
  <2>4. ASSUME NEW j \in Key, j \notin unlinked', NEW p \in given'[j]
        PROVE  keys'[j].payment = p
    <3>1. CASE j # k
      <4>1. given'[j] = given[j] /\ j \notin unlinked
        BY <2>2, <2>4, <3>1 DEF Forgotten
      <4>2. keys'[j] = keys[j]
        BY <1>2, <2>2, <3>1 DEF TypeOK
      <4> QED BY <1>2, <2>4, <4>1, <4>2 DEF Recorded
    <3>2. CASE j = k
      <4>1. ~(keys[k].age > TTL)
        BY <2>1, <2>2, <2>4, <3>2 DEF Forgotten
      <4>2. given'[k] = given[k] /\ k \notin unlinked
        BY <2>1, <2>2, <2>4, <3>2, <4>1 DEF Forgotten
      <4>3. keys[k].payment = None
        BY <1>5, <4>1 DEF claimable, NoRow
      <4>4. p \in Request /\ keys[k].payment = p
        BY <1>2, <2>1, <2>4, <3>2, <4>2 DEF Recorded, TypeOK
      <4> QED BY <1>2, <4>3, <4>4
    <3> QED BY <3>1, <3>2
  <2> QED BY <2>3, <2>4 DEF Leased, Recorded
<1>6. ASSUME NEW r \in Request, Replay(r) PROVE Leased' /\ Recorded'
  <2>1. task[r].key \in Key
    BY <1>2, <1>6 DEF TypeOK, Keyed, Replay, At, Tasks
  <2>2. /\ given' = [given EXCEPT ![task[r].key] = @ \union {keys[task[r].key].payment}]
        /\ UNCHANGED <<keys, unlinked>>
        /\ task' = [task EXCEPT ![r] = Ended(r, "done")]
    BY <1>2, <1>6 DEF Keyed, Replay, At, Give, Own, Finish
  <2>3. Recorded'
    BY <1>2, <2>1, <2>2 DEF Recorded, TypeOK
  <2>4. ASSUME NEW s \in Request, Held(s)' PROVE task'[s] = task[s] /\ Held(s)
    BY <1>2, <2>2, <2>4 DEF TypeOK, Held, Ended, Task
  <2>5. Leased'
    BY <1>2, <2>2, <2>4 DEF Leased
  <2> QED BY <2>3, <2>5
<1>7. ASSUME NEW r \in Request, Complete(r) \/ CompleteFails(r) \/ Release(r)
      PROVE  Leased' /\ Recorded'
  <2> DEFINE k == task[r].key
  <2>1. Held(r) /\ k \in Key
    BY <1>2, <1>7 DEF TypeOK, Keyed, Complete, CompleteFails, Release, At, Tasks, Held
  <2>2. keys[k].owner = r /\ keys[k].payment = None
    BY <1>3, <2>1
  <2>3. task' = [task EXCEPT ![r] = Ended(r, "done")]
    BY <1>7 DEF Complete, CompleteFails, Release, Finish
  <2>4. \A j \in Key \ {k} : keys'[j] = keys[j] /\ given'[j] = given[j]
                                /\ (j \notin unlinked' => j \notin unlinked)
    BY <1>2, <1>7, <2>1 DEF TypeOK, Complete, CompleteFails, Release, Linked, Give
  <2>5. ASSUME NEW s \in Request, Held(s)'
        PROVE  task'[s] = task[s] /\ Held(s) /\ keys'[task[s].key] = keys[task[s].key]
    <3>1. s # r
      BY <1>2, <2>3, <2>5 DEF TypeOK, Held, Ended, Task
    <3>2. task'[s] = task[s] /\ Held(s)
      BY <1>2, <2>3, <2>5, <3>1 DEF TypeOK, Held
    <3>3. task[s].key \in Key \ {k}
      BY <1>3, <2>2, <3>1, <3>2
    <3> QED BY <2>4, <3>2, <3>3
  <2>6. Leased'
    BY <1>2, <2>5 DEF Leased
  <2>7. k \notin unlinked => given[k] = {}
    BY <1>2, <2>1, <2>2 DEF Recorded, TypeOK
  <2>8. ASSUME k \notin unlinked', NEW p \in given'[k] PROVE keys'[k].payment = p
    <3>1. CASE Complete(r)
      <4>1. /\ unlinked' = unlinked
            /\ given' = [given EXCEPT ![k] = @ \union {r}]
            /\ keys' = [keys EXCEPT ![k].payment = r]
        BY <3>1, <2>1, <2>2 DEF Complete, Give, Own, Held, Linked, heldBy
      <4>2. p = r
        BY <1>2, <2>1, <2>7, <2>8, <4>1 DEF TypeOK
      <4>3. keys[k] \in Rows
        BY <1>2, <2>1 DEF TypeOK
      <4> QED BY <1>2, <2>1, <4>1, <4>2, <4>3 DEF TypeOK, Rows
    <3>2. CASE CompleteFails(r)
      BY <2>8, <3>2 DEF CompleteFails
    <3>3. CASE Release(r)
      BY <2>7, <2>8, <3>3 DEF Release
    <3> QED BY <1>7, <3>1, <3>2, <3>3
  <2>9. Recorded'
    BY <1>2, <2>1, <2>4, <2>8 DEF Recorded
  <2> QED BY <2>6, <2>9
<1>8. CASE Purge
  <2>1. ASSUME NEW s \in Request, Held(s)'
        PROVE  task'[s] = task[s] /\ Held(s) /\ keys'[task[s].key] = keys[task[s].key]
    <3>1. task'[s] = task[s] /\ Held(s)
      BY <1>8, <2>1 DEF Purge, Held
    <3>2. ~(keys[task[s].key].age > TTL) /\ task[s].key \in Key
      BY <1>3, <3>1
    <3> QED BY <1>8, <3>1, <3>2 DEF Purge
  <2>2. Leased'
    BY <1>2, <2>1 DEF Leased
  <2>3. ASSUME NEW j \in Key, j \notin unlinked', NEW p \in given'[j]
        PROVE  keys'[j].payment = p
    BY <1>2, <1>8, <2>3 DEF Purge, Forgotten, Recorded
  <2> QED BY <2>2, <2>3 DEF Recorded
<1>9. CASE Tick
  <2>1. ASSUME NEW j \in Key
        PROVE  /\ keys'[j].owner = keys[j].owner
               /\ keys'[j].payment = keys[j].payment
               /\ keys'[j].age <= keys[j].age + 1
    <3>1. keys[j] \in Rows /\ keys[j].age \in Nat
      BY <1>2 DEF TypeOK, Rows
    <3>2. keys'[j] = IF keys[j] = NoRow THEN NoRow
                     ELSE [keys[j] EXCEPT !.age = IF @ > TTL THEN @ ELSE @ + 1]
      BY <1>9 DEF Tick
    <3> QED BY <3>1, <3>2 DEF Rows
  <2>2. ASSUME NEW s \in Request, Held(s)'
        PROVE  /\ task'[s].step = task[s].step /\ task'[s].key = task[s].key /\ Held(s)
               /\ task'[s].left = task[s].left - 1
    <3>1. task[s] \in Tasks
      BY <1>2 DEF TypeOK
    <3>2. task'[s] = [task[s] EXCEPT !.left = IF @ > 0 THEN @ - 1 ELSE @]
      BY <1>9 DEF Tick
    <3>3. task'[s].step = task[s].step /\ task'[s].key = task[s].key
      BY <3>1, <3>2 DEF Tasks
    <3>4. Held(s)
      BY <2>2, <3>3 DEF Held
    <3>5. task[s].left > 0
      BY <1>9, <3>4 DEF Tick, Held, Own
    <3> QED BY <3>1, <3>2, <3>3, <3>4, <3>5 DEF Tasks
  <2>3. ASSUME NEW s \in Request, Held(s)'
        PROVE  /\ keys'[task'[s].key].owner = s
               /\ keys'[task'[s].key].payment = None
               /\ keys'[task'[s].key].age + task'[s].left <= Deadline(task'[s].step)
    <3>1. task[s].key \in Key /\ Held(s)
      BY <1>3, <2>2, <2>3
    <3>2. /\ keys[task[s].key].owner = s
          /\ keys[task[s].key].payment = None
          /\ keys[task[s].key].age + task[s].left <= Deadline(task[s].step)
      BY <1>2, <3>1 DEF Leased
    <3>3. keys[task[s].key].age \in Nat /\ task[s].left \in Nat
      BY <1>3, <3>1
    <3>4. keys'[task[s].key].age \in Nat
      BY <1>1, <3>1 DEF TypeOK, Rows
    <3>5. Deadline(task[s].step) \in Nat
      BY DEF Deadline
    <3>6. keys'[task[s].key].age <= keys[task[s].key].age + 1
      BY <2>1, <3>1
    <3>7. keys'[task[s].key].age + (task[s].left - 1) <= Deadline(task[s].step)
      BY <3>2, <3>3, <3>4, <3>5, <3>6
    <3> QED BY <2>1, <2>2, <2>3, <3>1, <3>2, <3>7
  <2>4. Recorded'
    BY <1>2, <1>9, <2>1 DEF Tick, Recorded
  <2> QED BY <2>3, <2>4 DEF Leased
<1>10. CASE UNCHANGED vars
  BY <1>2, <1>10 DEF vars, Leased, Recorded, Held
<1>11. ASSUME NEW r \in Request, Take(r) \/ Create(r) \/ Settle(r) \/ Crash(r)
       PROVE  Leased' /\ Recorded'
  <2>1. \/ Onward(r)
        \/ Claim(r) /\ claimable(keys[task[r].key])
        \/ Replay(r)
        \/ Complete(r) \/ CompleteFails(r) \/ Release(r)
    BY <1>2, <1>11, MovesOn DEF Take, Create, Settle
  <2> QED BY <1>4, <1>5, <1>6, <1>7, <2>1
<1> QED BY <1>8, <1>9, <1>10, <1>11 DEF Next

(* Initially no request works and nothing was answered.                    *)
LEMMA LeaseInit == Init => LeaseInv
<1> SUFFICES ASSUME Init PROVE LeaseInv
  OBVIOUS
<1>1. NoRow \in Rows
  BY Bounds DEF NoRow, Rows
<1>2. Unborn \in Tasks
  BY Bounds DEF Unborn, Task, Tasks, Steps
<1>3. TypeOK
  BY <1>1, <1>2 DEF Init, TypeOK
<1>4. \A r \in Request : task[r].step = "new"
  BY DEF Init, Unborn, Task
<1>5. Keyed /\ Leased
  BY <1>4 DEF Keyed, Leased, Held
<1>6. Recorded
  BY DEF Init, Recorded
<1> QED BY <1>3, <1>5, <1>6 DEF LeaseInv

(* The variables keep their types (TypeOK).                                *)
THEOREM CreationTypeCorrect == Spec => []TypeOK
<1>1. LeaseInv => TypeOK
  BY DEF LeaseInv
<1> QED BY LeaseInit, LeaseStep, <1>1, PTL DEF Spec

(* At no time do two requests work on one key (OneCreator): concurrent     *)
(* duplicates cannot both charge, for any numbers of requests and keys,    *)
(* if a creation and its settling fit into AbandonedAfter.                 *)
THEOREM OneCreatorPerKey == Spec => []OneCreator
<1>1. LeaseInv => OneCreator
  <2> SUFFICES ASSUME LeaseInv, NEW k \in Key, NEW r \in Request, NEW s \in Request,
                      Creating(r, k), Creating(s, k)
               PROVE  r = s
    BY DEF OneCreator
  <2>1. k # None
    BY CreationAssumption
  <2>2. Held(r) /\ Held(s) /\ task[r].key = k /\ task[s].key = k
    BY <2>1 DEF Creating, Held
  <2> QED BY <2>2 DEF LeaseInv, Leased
<1> QED BY LeaseInit, LeaseStep, <1>1, PTL DEF Spec

(* All callers of a remembered key get the same payment, unless the claim  *)
(* of one that was answered could not be completed (AnswersAgree).         *)
THEOREM AnswersOfAKeyAgree == Spec => []AnswersAgree
<1>1. LeaseInv => AnswersAgree
  BY DEF LeaseInv, Recorded, AnswersAgree
<1> QED BY LeaseInit, LeaseStep, <1>1, PTL DEF Spec

(* A key that was answered is not billed again while it is remembered      *)
(* (NoSecondBill): whoever is still under way to a provider or to the      *)
(* insert has a row without a payment, and an answered key's row has one.  *)
THEOREM KeysAreBilledOnce == Spec => NoSecondBill
<1> DEFINE Answered(k) == k \in Key \ unlinked /\ given[k] # {}
           Billed(r) == orders'[r] # orders[r] \/ payments'[r] # payments[r]
<1>1. LeaseInv /\ [Next]_vars => \A r \in Request : Answered(task[r].key) => ~Billed(r)
  <2> SUFFICES ASSUME LeaseInv, [Next]_vars, NEW r \in Request, Billed(r), Answered(task[r].key)
               PROVE  FALSE
    OBVIOUS
  <2>1. At(r, "create") \/ At(r, "save")
    <3>1. ASSUME NEW q \in Request, Create(q) PROVE q = r /\ (At(q, "create") \/ At(q, "save"))
      BY <3>1 DEF Create, ProviderAccepts, ProviderFails, GiveUp, Save, SaveUnknown,
         LeaseInv, TypeOK
    <3>2. ASSUME NEW q \in Request, Take(q) \/ Settle(q) \/ Crash(q) PROVE FALSE
      BY <3>2 DEF Take, Arrive, Claim, ReadNothing, Replay, Refuse, Settle, Complete,
         CompleteFails, Release, Crash
    <3>3. CASE Purge \/ Tick \/ UNCHANGED vars
      BY <3>3 DEF Purge, Tick, vars
    <3> QED BY <3>1, <3>2, <3>3 DEF Next
  <2>2. task[r].key \in Key /\ task[r].key # None
    BY CreationAssumption
  <2>3. keys[task[r].key].payment = None
    BY <2>1, <2>2 DEF LeaseInv, Leased, Held, At
  <2>4. PICK p \in given[task[r].key] : keys[task[r].key].payment = p
    BY DEF LeaseInv, Recorded
  <2>5. p \in Request
    BY <2>2, <2>4 DEF LeaseInv, TypeOK
  <2> QED BY <2>3, <2>4, <2>5, CreationAssumption
<1>2. LeaseInv /\ [Next]_vars => [
          \A r \in Request : LET k == task[r].key
                            IN k \in Key \ unlinked /\ given[k] # {} =>
                                  orders'[r] = orders[r] /\ payments'[r] = payments[r]]_vars
  BY <1>1
<1> QED BY LeaseInit, LeaseStep, <1>2, PTL DEF Spec, NoSecondBill

-----------------------------------------------------------------------------
(* Payments and replays.  An order, once accepted, stays; a row names its   *)
(* owner's key and body and, at most, its owner's payment.                 *)

\* What is stored, or about to be, is an order that was accepted.
Ordered == \A r \in Request :
    /\ task[r].step = "save" => task[r].response \in orders[r]
    /\ payments[r] # None => payments[r] \in orders[r]

\* The claim in a row is its owner's, as the owner asked for it.
Owned == \A k \in Key : keys[k].owner # None =>
    /\ task[keys[k].owner].step # "new"
    /\ task[keys[k].owner].key = k
    /\ task[keys[k].owner].body = keys[k].body

\* A payment in a row is its owner's, and stored.
PaidFor ==
    /\ \A k \in Key : keys[k].payment # None =>
          keys[k].payment = keys[k].owner /\ payments[keys[k].owner] # None
    /\ \A r \in Request : task[r].step = "complete" => payments[r] # None

\* ReplayTruthful, of requests that have asked.
Truthful == \A r \in Request : answer[r] # None =>
    /\ task[r].step # "new"
    /\ payments[answer[r]] # None
    /\ task[answer[r]].step # "new"
    /\ task[answer[r]].key = task[r].key
    /\ task[answer[r]].body = task[r].body

ReplayInv == TypeOK /\ Keyed /\ Ordered /\ Owned /\ PaidFor /\ Truthful

(* A request's key and body are what it asked for, from its arrival on.    *)
LEMMA AskedOnce ==
    ASSUME TypeOK, [Next]_vars, NEW s \in Request, task[s].step # "new"
    PROVE  /\ task'[s].step # "new"
           /\ task'[s].key = task[s].key
           /\ task'[s].body = task[s].body
<1> DEFINE Stays == /\ task'[s].step # "new"
                    /\ task'[s].key = task[s].key
                    /\ task'[s].body = task[s].body
<1>1. task[s] \in Tasks
  BY DEF TypeOK
<1>2. ASSUME NEW r \in Request, Take(r) PROVE Stays
  <2>1. CASE \E k \in Key \union {None}, b \in Body : Arrive(r, k, b)
    BY <2>1 DEF Arrive, At, TypeOK
  <2>2. CASE Claim(r)
    BY <1>1, <2>2 DEF Claim, Goto, At, Task, TypeOK, Tasks
  <2>3. CASE ReadNothing(r)
    <3>1. \/ task' = [task EXCEPT ![r] = Ended(r, "done")]
          \/ task' = [task EXCEPT ![r] = [task[r] EXCEPT !.claims = @ + 1, !.step = "claim"]]
      BY <2>3 DEF ReadNothing
    <3>2. CASE task' = [task EXCEPT ![r] = Ended(r, "done")]
      BY <1>1, <3>2 DEF Ended, Task, TypeOK
    <3> DEFINE claims == task[r].claims + 1
    <3>3. CASE task' = [task EXCEPT ![r] = [task[r] EXCEPT !.claims = claims, !.step = "claim"]]
      <4> HIDE DEF claims
      <4> QED BY <1>1, <3>3 DEF TypeOK, Tasks
    <3> QED BY <3>1, <3>2, <3>3
  <2>4. CASE Replay(r) \/ Refuse(r)
    BY <1>1, <2>4 DEF Replay, Refuse, Finish, Ended, Task, TypeOK
  <2> QED BY <1>2, <2>1, <2>2, <2>3, <2>4 DEF Take
<1>3. ASSUME NEW r \in Request, Create(r) PROVE Stays
  <2>1. ASSUME NEW p \in Provider, ProviderAccepts(r, p) PROVE Stays
    BY <1>1, <2>1 DEF ProviderAccepts, TypeOK, Tasks
  <2>2. ASSUME NEW p \in Provider, ProviderFails(r, p) PROVE Stays
    <3>1. \/ task' = [task EXCEPT ![r] = [task[r] EXCEPT !.tried = @ \union {p}]]
          \/ task' = [task EXCEPT ![r] = Failing(r)]
      BY <2>2 DEF ProviderFails
    <3> QED BY <1>1, <3>1 DEF Failing, Settling, Ended, Task, TypeOK, Tasks
  <2>3. CASE GiveUp(r) \/ Save(r) \/ SaveUnknown(r)
    BY <1>1, <2>3 DEF GiveUp, Save, SaveUnknown, Failing, Settling, Ended, Task, TypeOK
  <2> QED BY <1>3, <2>1, <2>2, <2>3 DEF Create
<1>4. ASSUME NEW r \in Request, Settle(r) \/ Crash(r) PROVE Stays
  BY <1>1, <1>4 DEF Settle, Complete, CompleteFails, Release, Crash, Finish, Ended, Task, TypeOK
<1>5. CASE Purge
  BY <1>5 DEF Purge
<1>6. CASE Tick
  BY <1>1, <1>6 DEF Tick, Tasks
<1>7. CASE UNCHANGED vars
  BY <1>7 DEF vars
<1> QED BY <1>2, <1>3, <1>4, <1>5, <1>6, <1>7 DEF Next

(* What is stored has its order, and is never unstored.                    *)
LEMMA OrderedStep ==
    ASSUME TypeOK, Ordered, [Next]_vars
    PROVE  /\ Ordered'
           /\ \A r \in Request : payments[r] # None => payments'[r] # None
<1> DEFINE Kept == \A r \in Request : payments[r] # None => payments'[r] # None
<1> USE CreationAssumption
<1>1. ASSUME NEW r \in Request, UNCHANGED <<payments, orders>>,
             \A s \in Request : task'[s].step = "save" => task'[s] = task[s]
      PROVE  Ordered' /\ Kept
  BY <1>1 DEF Ordered
<1>2. ASSUME NEW r \in Request, Take(r) \/ Settle(r) \/ Crash(r) \/ GiveUp(r)
      PROVE  Ordered' /\ Kept
  <2>1. UNCHANGED <<payments, orders>>
    BY <1>2 DEF Take, Settle, Arrive, Claim, ReadNothing, Replay, Refuse, Complete,
                CompleteFails, Release, Crash, GiveUp
  <2>2. ASSUME NEW s \in Request, task'[s].step = "save" PROVE task'[s] = task[s]
    <3>1. task[r] \in Tasks
      BY DEF TypeOK
    <3>2. s # r => task'[s] = task[s]
      BY <1>2 DEF Take, Settle, Arrive, Claim, ReadNothing, Replay, Refuse, Complete,
                  CompleteFails, Release, Crash, GiveUp, Finish, Goto, TypeOK
    <3>3. task'[r].step # "save"
      <4>1. CASE \E k \in Key \union {None}, b \in Body : Arrive(r, k, b)
        BY <4>1 DEF Arrive, Task, TypeOK
      <4>2. CASE Claim(r)
        BY <3>1, <4>2 DEF Claim, Goto, Task, TypeOK, Tasks
      <4>3. CASE ReadNothing(r)
        <5>1. \/ task' = [task EXCEPT ![r] = Ended(r, "done")]
              \/ task' = [task EXCEPT ![r] =
                            [task[r] EXCEPT !.claims = @ + 1, !.step = "claim"]]
          BY <4>3 DEF ReadNothing
        <5>2. CASE task' = [task EXCEPT ![r] = Ended(r, "done")]
          BY <5>2 DEF Ended, Task, TypeOK
        <5> DEFINE claims == task[r].claims + 1
        <5>3. CASE task' = [task EXCEPT ![r] =
                              [task[r] EXCEPT !.claims = claims, !.step = "claim"]]
          <6> HIDE DEF claims
          <6> QED BY <3>1, <5>3 DEF TypeOK, Tasks
        <5> QED BY <5>1, <5>2, <5>3
      <4>4. CASE Replay(r) \/ Refuse(r) \/ Settle(r) \/ Crash(r)
        BY <4>4 DEF Replay, Refuse, Settle, Complete, CompleteFails, Release, Crash, Finish,
                    Ended, Task, TypeOK
      <4>5. CASE GiveUp(r)
        BY <4>5 DEF GiveUp, Failing, Settling, Ended, Task, TypeOK
      <4> QED BY <1>2, <4>1, <4>2, <4>3, <4>4, <4>5 DEF Take
    <3> QED BY <2>2, <3>2, <3>3
  <2> QED BY <1>1, <2>1, <2>2
<1>3. ASSUME NEW r \in Request, NEW p \in Provider, ProviderAccepts(r, p) PROVE Ordered' /\ Kept
  <2>1. task[r] \in Tasks /\ UNCHANGED payments
    BY <1>3 DEF TypeOK, ProviderAccepts
  <2>2. task'[r].response = p /\ p \in orders'[r]
    BY <1>3, <2>1 DEF ProviderAccepts, TypeOK, Tasks
  <2>3. \A s \in Request : orders[s] \subseteq orders'[s] /\ (s # r => task'[s] = task[s])
    BY <1>3 DEF ProviderAccepts, TypeOK
  <2> QED BY <2>1, <2>2, <2>3 DEF Ordered
<1>4. ASSUME NEW r \in Request, NEW p \in Provider, ProviderFails(r, p) PROVE Ordered' /\ Kept
  <2>1. task[r] \in Tasks /\ UNCHANGED payments
    BY <1>4 DEF TypeOK, ProviderFails
  <2>2. task'[r].step # "save"
    <3>1. \/ task' = [task EXCEPT ![r] = [task[r] EXCEPT !.tried = @ \union {p}]]
          \/ task' = [task EXCEPT ![r] = Failing(r)]
      BY <1>4 DEF ProviderFails
    <3>2. task[r].step = "create"
      BY <1>4 DEF ProviderFails, At
    <3>3. CASE task' = [task EXCEPT ![r] = [task[r] EXCEPT !.tried = @ \union {p}]]
      BY <2>1, <3>2, <3>3 DEF TypeOK, Tasks
    <3>4. CASE task' = [task EXCEPT ![r] = Failing(r)]
      BY <3>4 DEF Failing, Settling, Ended, Task, TypeOK
    <3> QED BY <3>1, <3>3, <3>4
  <2>3. \A s \in Request : orders[s] \subseteq orders'[s] /\ (s # r => task'[s] = task[s])
    BY <1>4 DEF ProviderFails, TypeOK
  <2> QED BY <2>1, <2>2, <2>3 DEF Ordered
<1>5. ASSUME NEW r \in Request, Save(r) \/ SaveUnknown(r) PROVE Ordered' /\ Kept
  <2>1. /\ payments' = [payments EXCEPT ![r] = task[r].response]
        /\ UNCHANGED orders
        /\ task[r].response \in orders[r]
    BY <1>5 DEF Ordered, Save, SaveUnknown, At
  <2>2. payments'[r] \in orders'[r] /\ payments'[r] # None
    BY <2>1 DEF TypeOK
  <2>3. task'[r].step # "save"
    BY <1>5 DEF Save, SaveUnknown, Failing, Settling, Ended, Task, TypeOK
  <2>4. \A s \in Request : s # r => task'[s] = task[s] /\ payments'[s] = payments[s]
    BY <1>5, <2>1 DEF Save, SaveUnknown, TypeOK
  <2> QED BY <2>1, <2>2, <2>3, <2>4 DEF Ordered
<1>6. CASE Purge \/ UNCHANGED vars
  BY <1>6 DEF Purge, vars, Ordered
<1>7. CASE Tick
  <2>1. ASSUME NEW s \in Request
        PROVE  task'[s].step = task[s].step /\ task'[s].response = task[s].response
    BY <1>7 DEF Tick, TypeOK, Tasks
  <2> QED BY <1>7, <2>1 DEF Tick, Ordered
<1> QED BY <1>2, <1>3, <1>4, <1>5, <1>6, <1>7 DEF Next, Create

(* Only the insert of a payment leads a request on to its claim.           *)
LEMMA CompleteAfterSave ==
    ASSUME TypeOK, [Next]_vars, NEW s \in Request,
           task'[s].step = "complete", task[s].step # "complete"
    PROVE  Save(s)
<1>1. task[s] \in Tasks
  BY DEF TypeOK
<1>2. ASSUME NEW r \in Request, Take(r) PROVE FALSE
  <2>1. CASE \E k \in Key \union {None}, b \in Body : Arrive(r, k, b)
    BY <2>1 DEF Arrive, Task, TypeOK
  <2>2. CASE Claim(r)
    <3>1. \/ task' = [task EXCEPT ![r].step = "read"]
          \/ task' = [task EXCEPT ![r] =
                        Task("create", task[r].key, task[r].body, CreateTimeout)]
      BY <2>2 DEF Claim, Goto
    <3>2. CASE task' = [task EXCEPT ![r].step = "read"]
      BY <1>1, <3>2 DEF TypeOK, Tasks
    <3>3. CASE task' = [task EXCEPT ![r] =
                         Task("create", task[r].key, task[r].body, CreateTimeout)]
      BY <3>3 DEF Task, TypeOK
    <3> QED BY <3>1, <3>2, <3>3
  <2>3. CASE ReadNothing(r)
    <3>1. \/ task' = [task EXCEPT ![r] = Ended(r, "done")]
          \/ task' = [task EXCEPT ![r] = [task[r] EXCEPT !.claims = @ + 1, !.step = "claim"]]
      BY <2>3 DEF ReadNothing
    <3>2. CASE task' = [task EXCEPT ![r] = Ended(r, "done")]
      BY <3>2 DEF Ended, Task, TypeOK
    <3> DEFINE claims == task[r].claims + 1
    <3>3. CASE task' = [task EXCEPT ![r] = [task[r] EXCEPT !.claims = claims, !.step = "claim"]]
      <4> HIDE DEF claims
      <4> QED BY <1>1, <3>3 DEF TypeOK, Tasks
    <3> QED BY <3>1, <3>2, <3>3
  <2>4. CASE Replay(r) \/ Refuse(r)
    BY <2>4 DEF Replay, Refuse, Finish, Ended, Task, TypeOK
  <2> QED BY <1>2, <2>1, <2>2, <2>3, <2>4 DEF Take
<1>3. ASSUME NEW r \in Request, Create(r) PROVE Save(s)
  <2>1. ASSUME NEW p \in Provider, ProviderAccepts(r, p) PROVE FALSE
    BY <1>1, <2>1 DEF ProviderAccepts, TypeOK, Tasks
  <2>2. ASSUME NEW p \in Provider, ProviderFails(r, p) PROVE FALSE
    <3>1. \/ task' = [task EXCEPT ![r] = [task[r] EXCEPT !.tried = @ \union {p}]]
          \/ task' = [task EXCEPT ![r] = Failing(r)]
      BY <2>2 DEF ProviderFails
    <3>2. CASE task' = [task EXCEPT ![r] = [task[r] EXCEPT !.tried = @ \union {p}]]
      BY <1>1, <3>2 DEF TypeOK, Tasks
    <3>3. CASE task' = [task EXCEPT ![r] = Failing(r)]
      BY <3>3 DEF Failing, Settling, Ended, Task, TypeOK
    <3> QED BY <3>1, <3>2, <3>3
  <2>3. CASE GiveUp(r) \/ SaveUnknown(r)
    BY <2>3 DEF GiveUp, SaveUnknown, Failing, Settling, Ended, Task, TypeOK
  <2>4. CASE Save(r)
    BY <2>4 DEF Save, TypeOK
  <2> QED BY <1>3, <2>1, <2>2, <2>3, <2>4 DEF Create
<1>4. ASSUME NEW r \in Request, Settle(r) \/ Crash(r) PROVE FALSE
  BY <1>4 DEF Settle, Complete, CompleteFails, Release, Crash, Finish, Ended, Task, TypeOK
<1>5. CASE Purge \/ UNCHANGED vars
  BY <1>5 DEF Purge, vars
<1>6. CASE Tick
  BY <1>1, <1>6 DEF Tick, Tasks
<1> QED BY <1>2, <1>3, <1>4, <1>5, <1>6 DEF Next

(* Rows, payments and answers keep agreeing.                               *)
LEMMA ReplayStep == ReplayInv /\ [Next]_vars => ReplayInv'
<1> SUFFICES ASSUME ReplayInv, [Next]_vars PROVE ReplayInv'
  OBVIOUS
<1> USE CreationAssumption
<1>1. TypeOK' /\ Keyed'
  BY TypeStep DEF ReplayInv
<1>2. TypeOK /\ Keyed /\ Ordered /\ Owned /\ PaidFor /\ Truthful
  BY DEF ReplayInv
<1>3. Ordered' /\ \A r \in Request : payments[r] # None => payments'[r] # None
  BY <1>2, OrderedStep
<1>4. \A s \in Request : task[s].step # "new" =>
         task'[s].step # "new" /\ task'[s].key = task[s].key /\ task'[s].body = task[s].body
  BY <1>2, AskedOnce
\* What a row says of its owner stays true while the row does.
<1>5. ASSUME NEW k \in Key, keys[k].owner # None,
             keys'[k].owner = keys[k].owner, keys'[k].body = keys[k].body
      PROVE  /\ task'[keys'[k].owner].step # "new"
             /\ task'[keys'[k].owner].key = k
             /\ task'[keys'[k].owner].body = keys'[k].body
  BY <1>2, <1>4, <1>5 DEF TypeOK, Rows, Owned
<1>6. ASSUME NEW k \in Key,
             \/ keys'[k].owner = None
             \/ keys'[k].owner = keys[k].owner /\ keys'[k].body = keys[k].body,
             \/ keys'[k].payment = None
             \/ keys'[k].owner = keys[k].owner /\ keys'[k].payment = keys[k].payment
      PROVE  /\ keys'[k].owner # None =>
                    /\ task'[keys'[k].owner].step # "new"
                    /\ task'[keys'[k].owner].key = k
                    /\ task'[keys'[k].owner].body = keys'[k].body
             /\ keys'[k].payment # None =>
                    keys'[k].payment = keys'[k].owner /\ payments'[keys'[k].owner] # None
  <2>1. keys[k].owner \in Request \union {None} /\ keys[k].payment \in Request \union {None}
    BY <1>2 DEF TypeOK, Rows
  <2>2. keys[k].payment # None => keys[k].payment = keys[k].owner /\ payments[keys[k].owner] # None
    BY <1>2 DEF PaidFor
  <2> QED BY <1>3, <1>5, <1>6, <2>1, <2>2
\* So does what an earlier answer said.
<1>7. ASSUME NEW s \in Request, answer'[s] = answer[s], answer[s] # None
      PROVE  /\ task'[s].step # "new"
             /\ payments'[answer'[s]] # None
             /\ task'[answer'[s]].step # "new"
             /\ task'[answer'[s]].key = task'[s].key
             /\ task'[answer'[s]].body = task'[s].body
  <2>1. answer[s] \in Request
    BY <1>2, <1>7 DEF TypeOK
  <2> QED BY <1>2, <1>3, <1>4, <1>7, <2>1 DEF Truthful
<1> DEFINE Untouched ==
      \A k \in Key : /\ \/ keys'[k].owner = None
                        \/ keys'[k].owner = keys[k].owner /\ keys'[k].body = keys[k].body
                     /\ \/ keys'[k].payment = None
                        \/ keys'[k].owner = keys[k].owner /\ keys'[k].payment = keys[k].payment
<1>8. \A r \in Request : task'[r].step = "complete" => payments'[r] # None
  <2> SUFFICES ASSUME NEW r \in Request, task'[r].step = "complete" PROVE payments'[r] # None
    OBVIOUS
  <2>1. CASE task[r].step = "complete"
    BY <1>2, <1>3, <2>1 DEF PaidFor
  <2>2. CASE task[r].step # "complete"
    <3>1. Save(r)
      BY <1>2, <2>2, CompleteAfterSave
    <3>2. payments' = [payments EXCEPT ![r] = task[r].response] /\ task[r].response \in orders[r]
      BY <1>2, <3>1 DEF Save, At, Ordered
    <3> QED BY <1>2, <3>2 DEF TypeOK
  <2> QED BY <2>1, <2>2
<1>9. ASSUME Untouched PROVE Owned' /\ PaidFor'
  BY <1>6, <1>8, <1>9 DEF Owned, PaidFor
<1>10. ASSUME UNCHANGED answer PROVE Truthful'
  BY <1>7, <1>10 DEF Truthful
<1>11. ASSUME NEW r \in Request, NEW p \in Request,
              answer' = [answer EXCEPT ![r] = p], task[r].step # "new",
              payments'[p] # None, task[p].step # "new",
              task[p].key = task[r].key, task[p].body = task[r].body
       PROVE  Truthful'
  <2>1. \A s \in Request : s # r => answer'[s] = answer[s]
    BY <1>2, <1>11 DEF TypeOK
  <2>2. answer'[r] = p
    BY <1>2, <1>11 DEF TypeOK
  <2>3. /\ task'[r].step # "new" /\ task'[p].step # "new"
        /\ task'[p].key = task'[r].key /\ task'[p].body = task'[r].body
    BY <1>4, <1>11
  <2> QED BY <1>7, <1>11, <2>1, <2>2, <2>3 DEF Truthful
<1> HIDE DEF Untouched
<1>12. ASSUME NEW r \in Request, UNCHANGED keys PROVE Untouched
  BY <1>12 DEF Untouched
<1>13. ASSUME NEW r \in Request, Take(r) PROVE Owned' /\ PaidFor' /\ Truthful'
  <2>1. CASE \/ \E k \in Key \union {None}, b \in Body : Arrive(r, k, b)
             \/ ReadNothing(r) \/ Refuse(r)
    BY <1>9, <1>10, <1>12, <2>1 DEF Arrive, ReadNothing, Refuse
  <2>2. CASE Claim(r) /\ ~claimable(keys[task[r].key])
    BY <1>9, <1>10, <1>12, <2>2 DEF Claim
  <2>3. CASE Claim(r) /\ claimable(keys[task[r].key])
    <3> DEFINE k == task[r].key
    <3>1. k \in Key /\ task[r].step # "new"
      BY <1>2, <2>3 DEF TypeOK, Keyed, Claim, At, Tasks
    <3>2. /\ keys' = [keys EXCEPT ![k] =
                [owner |-> r, body |-> task[r].body, payment |-> None, age |-> 0]]
          /\ UNCHANGED answer
      BY <2>3 DEF Claim
    <3>3. keys'[k] = [owner |-> r, body |-> task[r].body, payment |-> None, age |-> 0]
      BY <1>2, <3>1, <3>2 DEF TypeOK
    <3>4. /\ task'[r].step # "new" /\ task'[r].key = k /\ task'[r].body = task[r].body
      BY <1>4, <3>1
    <3> HIDE DEF k
    <3>5. /\ keys'[k].owner = r /\ keys'[k].body = task[r].body /\ keys'[k].payment = None
      BY <3>3
    <3>6. \A j \in Key : j # k => keys'[j] = keys[j]
      BY <1>2, <3>2 DEF TypeOK
    <3>7. Owned'
      BY <1>6, <3>4, <3>5, <3>6 DEF Owned
    <3>8. PaidFor'
      BY <1>6, <1>8, <3>5, <3>6 DEF PaidFor
    <3> QED BY <1>10, <3>2, <3>7, <3>8
  <2>4. CASE Replay(r)
    <3> DEFINE k == task[r].key
               p == keys[k].payment
    <3>1. k \in Key /\ task[r].step # "new"
      BY <1>2, <2>4 DEF TypeOK, Keyed, Replay, At, Tasks
    <3>2. /\ p # None /\ keys[k].body = task[r].body
          /\ answer' = [answer EXCEPT ![r] = p] /\ UNCHANGED <<keys, payments>>
      BY <2>4 DEF Replay, Give
    <3>3. p \in Request /\ p = keys[k].owner /\ payments[p] # None
      BY <1>2, <3>1, <3>2 DEF TypeOK, Rows, PaidFor
    <3>4. task[p].step # "new" /\ task[p].key = k /\ task[p].body = keys[k].body
      BY <1>2, <3>1, <3>2, <3>3 DEF Owned
    <3> HIDE DEF p
    <3>5. Truthful'
      BY <1>11, <3>1, <3>2, <3>3, <3>4
    <3> QED BY <1>9, <1>12, <3>2, <3>5
  <2> QED BY <1>13, <2>1, <2>2, <2>3, <2>4 DEF Take
<1>14. ASSUME NEW r \in Request, Create(r) PROVE Owned' /\ PaidFor' /\ Truthful'
  <2>1. UNCHANGED keys
    BY <1>14 DEF Create, ProviderAccepts, ProviderFails, GiveUp, Save, SaveUnknown
  <2>2. CASE UNCHANGED answer
    BY <1>9, <1>10, <1>12, <2>1, <2>2
  <2>3. CASE Save(r) /\ ~Own(r)
    <3>1. /\ answer' = [answer EXCEPT ![r] = r] /\ task[r].step = "save"
          /\ payments' = [payments EXCEPT ![r] = task[r].response]
          /\ task[r].response \in orders[r]
      BY <1>2, <2>3 DEF Save, At, Give, Ordered
    <3>2. payments'[r] # None
      BY <1>2, <3>1 DEF TypeOK
    <3> QED BY <1>9, <1>11, <1>12, <2>1, <3>1, <3>2
  <2>4. UNCHANGED answer \/ (Save(r) /\ ~Own(r))
    BY <1>14 DEF Create, ProviderAccepts, ProviderFails, GiveUp, Save, SaveUnknown
  <2> QED BY <2>2, <2>3, <2>4
<1>15. ASSUME NEW r \in Request, Complete(r) \/ CompleteFails(r)
       PROVE  Owned' /\ PaidFor' /\ Truthful'
  <2> DEFINE k == task[r].key
  <2>1. /\ k \in Key /\ task[r].step = "complete" /\ UNCHANGED payments
        /\ answer' = [answer EXCEPT ![r] = r]
    BY <1>2, <1>15 DEF TypeOK, Keyed, Complete, CompleteFails, At, Give, Tasks
  <2>2. payments'[r] # None
    BY <1>2, <2>1 DEF PaidFor
  <2>3. Truthful'
    BY <1>11, <2>1, <2>2
  <2>4. CASE UNCHANGED keys
    BY <1>9, <1>12, <2>3, <2>4
  <2>5. CASE keys[k].owner = r /\ keys' = [keys EXCEPT ![k].payment = r]
    <3>1. keys[k] \in Rows
      BY <1>2, <2>1 DEF TypeOK
    <3>2. \A j \in Key : j # k => keys'[j] = keys[j]
      BY <1>2, <2>5 DEF TypeOK
    <3>3. /\ keys'[k].owner = keys[k].owner /\ keys'[k].body = keys[k].body
          /\ keys'[k].payment = r
      BY <1>2, <2>1, <2>5, <3>1 DEF TypeOK, Rows
    <3> HIDE DEF k
    <3>4. \A j \in Key : keys'[j].owner = keys[j].owner /\ keys'[j].body = keys[j].body
      BY <3>2, <3>3
    <3>5. Owned'
      BY <1>5, <3>4 DEF Owned
    <3>6. PaidFor'
      BY <1>6, <1>8, <2>2, <2>5, <3>2, <3>3 DEF PaidFor
    <3> QED BY <2>3, <3>5, <3>6
  <2>6. UNCHANGED keys \/ (keys[k].owner = r /\ keys' = [keys EXCEPT ![k].payment = r])
    BY <1>15 DEF Complete, CompleteFails, Linked, heldBy
  <2> QED BY <2>4, <2>5, <2>6
<1>16. ASSUME NEW K \in SUBSET Key, \A j \in Key : keys'[j] = IF j \in K THEN NoRow ELSE keys[j]
       PROVE  Untouched
  BY <1>16 DEF Untouched, NoRow
<1>17. ASSUME NEW r \in Request, Release(r) \/ Crash(r)
       PROVE  Owned' /\ PaidFor' /\ Truthful'
  <2>1. UNCHANGED answer
    BY <1>17 DEF Release, Crash
  <2>2. UNCHANGED keys \/ keys' = [keys EXCEPT ![task[r].key] = NoRow]
    BY <1>17 DEF Release, Crash
  <2>3. \E K \in SUBSET Key : \A j \in Key : keys'[j] = IF j \in K THEN NoRow ELSE keys[j]
    <3>1. CASE UNCHANGED keys
      <4> DEFINE K == Key \ Key
      <4>1. K \in SUBSET Key /\ \A j \in Key : keys'[j] = IF j \in K THEN NoRow ELSE keys[j]
        BY <3>1
      <4> HIDE DEF K
      <4> QED BY <4>1
    <3>2. CASE keys' = [keys EXCEPT ![task[r].key] = NoRow]
      <4> DEFINE K == Key \intersect {task[r].key}
      <4>1. K \in SUBSET Key /\ \A j \in Key : keys'[j] = IF j \in K THEN NoRow ELSE keys[j]
        BY <1>2, <3>2 DEF TypeOK
      <4> HIDE DEF K
      <4> QED BY <4>1
    <3> QED BY <2>2, <3>1, <3>2
  <2> QED BY <1>9, <1>10, <1>16, <2>1, <2>3
<1>18. ASSUME Purge PROVE Owned' /\ PaidFor' /\ Truthful'
  <2> DEFINE K == {k \in Key : keys[k] # NoRow /\ keys[k].age > TTL}
  <2>1. UNCHANGED answer /\ \A j \in Key : keys'[j] = IF j \in K THEN NoRow ELSE keys[j]
    BY <1>18 DEF Purge
  <2>2. K \in SUBSET Key
    OBVIOUS
  <2> HIDE DEF K
  <2> QED BY <1>9, <1>10, <1>16, <2>1, <2>2
<1>19. ASSUME Tick PROVE Owned' /\ PaidFor' /\ Truthful'
  <2>1. ASSUME NEW j \in Key
        PROVE  /\ keys'[j].owner = keys[j].owner
               /\ keys'[j].body = keys[j].body
               /\ keys'[j].payment = keys[j].payment
    <3>1. keys[j] \in Rows
      BY <1>2 DEF TypeOK
    <3>2. \/ keys[j] = NoRow /\ keys'[j] = NoRow
          \/ \E age : keys'[j] = [keys[j] EXCEPT !.age = age]
      BY <1>19 DEF Tick
    <3> QED BY <3>1, <3>2 DEF Rows
  <2>2. Untouched
    BY <2>1 DEF Untouched
  <2> QED BY <1>9, <1>10, <1>19, <2>2 DEF Tick
<1>20. ASSUME UNCHANGED vars PROVE Owned' /\ PaidFor' /\ Truthful'
  <2>1. Untouched /\ UNCHANGED answer
    BY <1>20 DEF vars, Untouched
  <2> QED BY <1>9, <1>10, <2>1
<1>21. Owned' /\ PaidFor' /\ Truthful'
  BY <1>13, <1>14, <1>15, <1>17, <1>18, <1>19, <1>20 DEF Next, Settle
<1> QED BY <1>1, <1>3, <1>21 DEF ReplayInv

(* Initially no row is taken and nothing is stored or answered.            *)
LEMMA ReplayInit == Init => ReplayInv
<1> SUFFICES ASSUME Init PROVE ReplayInv
  OBVIOUS
<1>1. TypeOK /\ Keyed
  BY LeaseInit DEF LeaseInv
<1>2. \A r \in Request : task[r].step = "new"
  BY DEF Init, Unborn, Task
<1>3. \A k \in Key : keys[k].owner = None /\ keys[k].payment = None
  BY DEF Init, NoRow
<1>4. \A r \in Request : payments[r] = None /\ answer[r] = None
  BY DEF Init
<1> QED BY <1>1, <1>2, <1>3, <1>4 DEF ReplayInv, Ordered, Owned, PaidFor, Truthful

(* Every stored payment names a provider that accepted an order for it     *)
(* (PaymentBackedByOrder), whichever candidates failed before, and whether *)
(* the reply of the insert arrived or not.                                 *)
THEOREM PaymentsHaveOrders == Spec => []PaymentBackedByOrder
<1>1. ReplayInv => PaymentBackedByOrder
  BY DEF ReplayInv, Ordered, PaymentBackedByOrder
<1> QED BY ReplayInit, ReplayStep, <1>1, PTL DEF Spec

(* Whoever is answered gets a payment that is stored, of its own key and   *)
(* its own body (ReplayTruthful), however often the key was taken over,    *)
(* released, purged and claimed again.                                     *)
THEOREM ReplaysAreTruthful == Spec => []ReplayTruthful
<1>1. ReplayInv => ReplayTruthful
  BY DEF ReplayInv, Truthful, ReplayTruthful
<1> QED BY ReplayInit, ReplayStep, <1>1, PTL DEF Spec
=============================================================================
