--------------------------- MODULE AccountsProofs ---------------------------
(***************************************************************************)
(* What is proved of the dashboards' rows for every number of requests,    *)
(* accounts, environments and columns, every length of a second and every  *)
(* set of operations that run together.  One lemma says how a request      *)
(* moves (Edge), and each invariant then looks only at the actions that    *)
(* write the rows it is about.                                             *)
(***************************************************************************)
EXTENDS Accounts, TLAPS

-----------------------------------------------------------------------------
(* Types, and how a request moves.                                         *)

Ended == {"done", "refused", "failed"}
\* What a request is about fits what it does.
Placed(t) ==
    /\ t.step \notin Ended \union {"new"} /\ t.op \notin {"api", "register", "create"}
          => t.who \in Account
    /\ t.op = "rotate" => t.target \in Env
    /\ t.op = "edit" => t.target \in Field
    /\ t.op \in {"register", "create", "email"} => t.target \in Email
    /\ t.step = "write" => t.row \in Rows
    /\ t.step = "new" => t.token = None
TasksPlaced == task \in [Request -> Tasks] /\ \A r \in Request : Placed(task[r])
TypeInv == TypeOK /\ TasksPlaced

OthersKept(r) == \A q \in Request : q # r => task'[q] = task[q]

\* The steps of each operation.
Edge(op, from, to) ==
    \/ from \notin Ended \union {"new"} /\ to = "failed"
    \/ from = "merchant" /\ op # "api" /\ to \in {"mint", "in", "refused"}
    \/ from = "merchant" /\ op = "api" /\ to \in {"done", "refused"}
    \/ op = "login" /\ from = "mint" /\ to = "done"
    \/ op = "visit" /\ from = "in" /\ to = "done"
    \/ op \in {"password", "rotate", "revoke", "resecret"} /\ from = "in" /\ to \in {"verified", "refused"}
    \/ op = "logout" /\ from = "in" /\ to = "store"
    \/ op = "password" /\ from = "verified" /\ to = "store"
    \/ op \in {"logout", "password"} /\ from = "store" /\ to = "done"
    \/ op = "rotate" /\ from = "verified" /\ to \in {"delete", "refused"}
    \/ op = "rotate" /\ from = "delete" /\ to = "create"
    \/ op = "rotate" /\ from = "create" /\ to = "done"
    \/ op \in {"revoke", "resecret"} /\ from = "verified" /\ to = "done"
    \/ op = "edit" /\ from = "in" /\ to = "write"
    \/ op = "edit" /\ from = "write" /\ to = "done"
    \/ op = "secret" /\ from = "in" /\ to \in {"set", "done"}
    \/ op = "secret" /\ from = "set" /\ to = "done"
    \/ op = "register" /\ from = "user" /\ to \in {"insert", "refused"}
    \/ op = "register" /\ from = "insert" /\ to \in {"owner", "refused"}
    \/ op = "create" /\ from = "insert" /\ to \in {"done", "refused"}
    \/ op = "register" /\ from = "owner" /\ to \in {"rollback", "done"}
    \/ op = "register" /\ from = "rollback" /\ to = "refused"
    \/ op = "email" /\ from = "in" /\ to \in {"done", "refused"}

\* A request begins.
Fits(op, target) ==
    /\ target \in Env \union Field \union Email \union Names
    /\ op = "rotate" => target \in Env
    /\ op = "edit" => target \in Field
    /\ op = "email" => target \in Email
Entry(r) == \E op \in Ops \ {"login", "api", "register", "create"} : \E t \in tokens : \E target :
    Fits(op, target) /\ Enter(r, op, t, target)
Start(r) ==
    \/ \E a \in Account : Login(r, a)
    \/ Entry(r)
    \/ \E k \in keys : PresentKey(r, k)
    \/ \E op : \E e \in Email : BeginMerchant(r, op, e)
\* It goes on without writing a row.
Quiet(r) ==
    \/ EnterMerchant(r) \/ Answer(r) \/ VerifyPassword(r) \/ StampRevocation(r)
    \/ UpsertReadMerchant(r) \/ Authenticate(r) \/ ReadProfile(r) \/ CheckUser(r)
Writes(r) ==
    \/ Mint(r) \/ UpdatePasswordHash(r) \/ RevokeSessions(r) \/ Fail(r)
    \/ DeleteByMerchantAndName(r) \/ CreateKey(r) \/ DeleteKey(r)
    \/ WriteProfile(r) \/ EnsureSecret(r) \/ SetWebhookSecret(r)
    \/ InsertMerchant(r) \/ InsertOwner(r) \/ InsertOwnerUnheard(r) \/ DeleteMerchant(r)
    \/ UpdateEmail(r)

LEMMA Entries ==
    ASSUME TypeOK, NEW r \in Request,
           \/ GetMerchantMe(r) \/ GetMe(r) \/ LogoutMerchant(r) \/ LogoutAdmin(r)
           \/ ChangeMerchantPassword(r) \/ ChangePassword(r)
           \/ UpsertAPIKey(r) \/ UpsertMerchantAPIKey(r) \/ DeleteAPIKey(r) \/ DeleteMerchantAPIKey(r)
           \/ UpdateBusiness(r) \/ UpdateMerchant(r) \/ GetWebhookSecret(r)
           \/ RegenerateWebhookSecret(r) \/ UpdateMerchantProfile(r)
    PROVE  Entry(r)
<1> USE DEF TokensOf, Entry, Fits, Ops, Names
<1>1. CASE \/ GetMerchantMe(r) \/ GetMe(r) \/ LogoutMerchant(r) \/ LogoutAdmin(r)
           \/ ChangeMerchantPassword(r) \/ ChangePassword(r)
           \/ GetWebhookSecret(r) \/ RegenerateWebhookSecret(r)
  BY <1>1 DEF GetMerchantMe, GetMe, LogoutMerchant, LogoutAdmin, ChangeMerchantPassword,
     ChangePassword, GetWebhookSecret, RegenerateWebhookSecret
<1>2. CASE UpsertAPIKey(r) \/ UpsertMerchantAPIKey(r)
  BY <1>2 DEF UpsertAPIKey, UpsertMerchantAPIKey
<1>3. CASE DeleteAPIKey(r) \/ DeleteMerchantAPIKey(r)
  <2>1. \A k \in keys : k.id \in Names
    BY DEF TypeOK
  <2> QED BY <1>3, <2>1 DEF DeleteAPIKey, DeleteMerchantAPIKey
<1>4. CASE UpdateBusiness(r) \/ UpdateMerchant(r) \/ UpdateMerchantProfile(r)
  BY <1>4 DEF UpdateBusiness, UpdateMerchant, UpdateMerchantProfile
<1> QED BY <1>1, <1>2, <1>3, <1>4

LEMMA StepCases ==
    ASSUME TypeOK, [Next]_vars
    PROVE  \/ UNCHANGED vars
           \/ SetMerchantActive \/ Tick
           \/ \E r \in Request : Start(r) \/ Quiet(r) \/ Writes(r)
<1>1. CASE UNCHANGED vars
  BY <1>1
<1>2. CASE SessionNext
  BY <1>2, Entries DEF SessionNext, LoginMerchant, LoginAdmin, Account, Start, Quiet, Writes
<1>3. CASE ApiKeyNext
  BY <1>3, Entries DEF ApiKeyNext, Start, Quiet, Writes
<1>4. CASE ProfileNext
  BY <1>4, Entries DEF ProfileNext, Start, Quiet, Writes
<1>5. CASE RegistrationNext
  BY <1>5, Entries DEF RegistrationNext, RegisterMerchant, CreateMerchant, Start, Quiet, Writes
<1> QED BY <1>1, <1>2, <1>3, <1>4, <1>5 DEF Next

Targets == Env \union Field \union Email \union Names

LEMMA UnbornTyped == Unborn \in Tasks
<1>1. 0 \in 0 .. MaxTime
  BY AccountsAssumption
<1> QED BY <1>1 DEF Unborn, Tasks, Names, Steps

LEMMA UnbornFields == Unborn.who = None /\ Unborn.token = None
BY DEF Unborn

LEMMA FinishMove ==
    ASSUME TypeInv, NEW r \in Request, NEW step \in Ended, Finish(r, step)
    PROVE  /\ TasksPlaced' /\ OthersKept(r)
           /\ task'[r].op = task[r].op /\ task'[r].step = step
           /\ task'[r].who = None /\ task'[r].token = None
<1> DEFINE t == [Unborn EXCEPT !.op = task[r].op, !.step = step, !.target = task[r].target]
<1>1. task[r] \in Tasks /\ Placed(task[r])
  BY DEF TypeInv, TasksPlaced
<1>2. task' = [task EXCEPT ![r] = t]
  BY DEF Finish
<1>3. /\ t \in Tasks /\ t.op = task[r].op /\ t.step = step /\ t.target = task[r].target
      /\ t.who = None /\ t.token = None
  <2>1. task[r].op \in Ops \union {"none"} /\ task[r].target \in Targets
    BY <1>1 DEF Tasks, Targets
  <2>2. step \in Steps /\ None \in Names
    BY DEF Steps, Ended, Names
  <2> QED BY <2>1, <2>2, UnbornTyped, UnbornFields DEF Tasks, Targets
<1> HIDE DEF t
<1>4. Placed(t)
  BY <1>1, <1>3 DEF Placed, Ended
<1> QED BY <1>2, <1>3, <1>4 DEF TypeInv, TasksPlaced, OthersKept

LEMMA GotoMove ==
    ASSUME TypeInv, NEW r \in Request, NEW step \in Steps \ (Ended \union {"new", "write"}),
           task[r].step \notin Ended \union {"new"}, Goto(r, step)
    PROVE  /\ TasksPlaced' /\ OthersKept(r)
           /\ task'[r].op = task[r].op /\ task'[r].step = step /\ task'[r].who = task[r].who
<1> DEFINE t == [task[r] EXCEPT !.step = step]
<1>1. task[r] \in Tasks /\ Placed(task[r])
  BY DEF TypeInv, TasksPlaced
<1>2. /\ t \in Tasks
      /\ t.op = task[r].op /\ t.step = step /\ t.who = task[r].who
      /\ t.target = task[r].target
  BY <1>1 DEF Tasks
<1>3. task' = [task EXCEPT ![r] = t]
  BY DEF Goto
<1> HIDE DEF t
<1>4. Placed(t)
  BY <1>1, <1>2 DEF Placed, Ended
<1> QED BY <1>2, <1>3, <1>4 DEF TypeInv, TasksPlaced, OthersKept

Starting == {"merchant", "mint", "in", "refused", "user", "insert"}
LEMMA StartMove ==
    ASSUME TypeInv, NEW r \in Request, Start(r)
    PROVE  /\ TasksPlaced' /\ OthersKept(r)
           /\ task[r].step = "new" /\ task'[r].step \in Starting
<1> DEFINE Good(t) == t \in Tasks /\ Placed(t) /\ t.step \in Starting
<1>1. \E t : Good(t) /\ task' = [task EXCEPT ![r] = t]
  <2>0. None \in Names /\ None \in Targets /\ Starting \subseteq Steps
    BY DEF Names, Targets, Starting, Steps
  <2>1. ASSUME NEW a \in Account, Login(r, a)
        PROVE  \E t : Good(t) /\ task' = [task EXCEPT ![r] = t]
    <3> DEFINE step == IF a \in MerchantUser THEN "merchant" ELSE "mint"
               t == [Unborn EXCEPT !.op = "login", !.who = a, !.password = accounts[a].password,
                       !.step = step]
    <3>1. accounts[a].password \in Names
      BY DEF TypeInv, TypeOK
    <3>2. step \in Starting /\ "login" \in Ops
      BY DEF Starting, Ops
    <3>3. task' = [task EXCEPT ![r] = t]
      BY <2>1 DEF Login
    <3> HIDE DEF step
    <3>4. t \in Tasks /\ t.op = "login" /\ t.step = step /\ t.who = a
      BY <2>0, <3>1, <3>2, UnbornTyped DEF Tasks
    <3> HIDE DEF t
    <3>5. Placed(t)
      BY <3>2, <3>4 DEF Placed, Starting
    <3> QED BY <3>2, <3>3, <3>4, <3>5
  <2>2. CASE Entry(r)
    <3>0. PICK op \in Ops \ {"login", "api", "register", "create"}, u \in tokens :
            \E target : Fits(op, target) /\ Enter(r, op, u, target)
      BY <2>2 DEF Entry
    <3>1. PICK target : Fits(op, target) /\ Enter(r, op, u, target)
      BY <3>0
    <3> DEFINE step == IF sessionRevoked(u) THEN "refused"
                       ELSE IF u.who \in MerchantUser THEN "merchant" ELSE "in"
               t == [Unborn EXCEPT !.op = op, !.who = u.who, !.token = u, !.target = target,
                       !.password = accounts[u.who].password, !.step = step]
    <3>2. u \in Tokens /\ u.who \in Account
      BY DEF TypeInv, TypeOK, Tokens
    <3>3. accounts[u.who].password \in Names
      BY <3>2 DEF TypeInv, TypeOK
    <3>4. step \in Starting /\ target \in Targets
      BY <3>1 DEF Starting, Fits, Targets
    <3>5. task' = [task EXCEPT ![r] = t]
      BY <3>1 DEF Enter
    <3> HIDE DEF step
    <3>6. t \in Tasks /\ t.op = op /\ t.step = step /\ t.who = u.who /\ t.target = target
      BY <2>0, <3>2, <3>3, <3>4, UnbornTyped DEF Tasks, Targets
    <3> HIDE DEF t
    <3>7. Placed(t)
      BY <3>1, <3>2, <3>4, <3>6 DEF Placed, Starting, Fits
    <3> QED BY <3>4, <3>5, <3>6, <3>7
  <2>3. ASSUME NEW k \in keys, PresentKey(r, k)
        PROVE  \E t : Good(t) /\ task' = [task EXCEPT ![r] = t]
    <3> DEFINE t == [Unborn EXCEPT !.op = "api", !.step = "merchant", !.target = k.env]
    <3>1. k.env \in Targets /\ "api" \in Ops /\ "merchant" \in Starting
      BY DEF TypeInv, TypeOK, Targets, Ops, Starting
    <3>2. t \in Tasks /\ t.op = "api" /\ t.step = "merchant"
      BY <2>0, <3>1, UnbornTyped DEF Tasks, Targets
    <3>4. task' = [task EXCEPT ![r] = t]
      BY <2>3 DEF PresentKey
    <3> HIDE DEF t
    <3>3. t.step \in Starting /\ Placed(t)
      BY <3>1, <3>2 DEF Placed
    <3> QED BY <3>2, <3>3, <3>4
  <2>4. ASSUME NEW op, NEW e \in Email, BeginMerchant(r, op, e)
        PROVE  \E t : Good(t) /\ task' = [task EXCEPT ![r] = t]
    <3> DEFINE step == IF e \in MerchantEmails THEN "refused"
                       ELSE IF op = "register" THEN "user" ELSE "insert"
               t == [Unborn EXCEPT !.op = op, !.target = e, !.step = step]
    <3>1. op \in Ops /\ op \in {"register", "create"} /\ e \in Targets /\ step \in Starting
      BY <2>4 DEF BeginMerchant, Ops, Targets, Starting
    <3>2. task' = [task EXCEPT ![r] = t]
      BY <2>4 DEF BeginMerchant
    <3> HIDE DEF step
    <3>3. t \in Tasks /\ t.op = op /\ t.step = step /\ t.target = e
      BY <2>0, <3>1, UnbornTyped DEF Tasks, Targets
    <3> HIDE DEF t
    <3>4. t.step \in Starting /\ Placed(t)
      BY <3>1, <3>3 DEF Placed, Starting
    <3> QED BY <3>2, <3>3, <3>4
  <2> QED BY <2>1, <2>2, <2>3, <2>4 DEF Start
<1>2. task[r].step = "new"
  BY DEF Start, Entry, Login, Enter, PresentKey, BeginMerchant
<1> QED BY <1>1, <1>2 DEF TypeInv, TasksPlaced, OthersKept

\* A step along an edge, by Goto or by Finish.
Hop(r) ==
    \/ \E s \in Steps \ (Ended \union {"new", "write"}) :
          /\ Goto(r, s) /\ task[r].step \notin Ended \union {"new"}
          /\ Edge(task[r].op, task[r].step, s)
    \/ \E s \in Ended : Finish(r, s) /\ Edge(task[r].op, task[r].step, s)
Moved(r) ==
    /\ TasksPlaced' /\ OthersKept(r)
    /\ task'[r].op = task[r].op
    /\ Edge(task[r].op, task[r].step, task'[r].step)

LEMMA HopMove == ASSUME TypeInv, NEW r \in Request, Hop(r) PROVE Moved(r)
BY FinishMove, GotoMove DEF Hop, Moved

LEMMA StampMove == ASSUME TypeInv, NEW r \in Request, StampRevocation(r) PROVE Moved(r)
<1> DEFINE t == [task[r] EXCEPT !.step = "store", !.stamp = now]
<1>1. task[r] \in Tasks /\ Placed(task[r]) /\ now \in 0 .. MaxTime
  BY DEF TypeInv, TasksPlaced, TypeOK
<1>2. task' = [task EXCEPT ![r] = t]
  BY DEF StampRevocation
<1>3. /\ t \in Tasks /\ t.op = task[r].op /\ t.step = "store" /\ t.who = task[r].who
      /\ t.target = task[r].target
  BY <1>1 DEF Tasks, Steps
<1> HIDE DEF t
<1>4. Placed(t) /\ Edge(task[r].op, task[r].step, "store")
  BY <1>1, <1>3 DEF StampRevocation, At, Placed, Ended, Edge
<1> QED BY <1>2, <1>3, <1>4 DEF TypeInv, TasksPlaced, OthersKept, Moved

LEMMA ReadMove == ASSUME TypeInv, NEW r \in Request, ReadProfile(r) PROVE Moved(r)
<1> DEFINE row == [active |-> merchant.active, columns |-> merchant.columns]
           t == [task[r] EXCEPT !.step = "write", !.row = row]
<1>1. task[r] \in Tasks /\ Placed(task[r]) /\ row \in Rows
  BY DEF TypeInv, TasksPlaced, TypeOK, Rows
<1>2. task' = [task EXCEPT ![r] = t]
  BY DEF ReadProfile
<1> HIDE DEF row
<1>3. /\ t \in Tasks /\ t.op = task[r].op /\ t.step = "write" /\ t.who = task[r].who
      /\ t.target = task[r].target /\ t.row = row
  BY <1>1 DEF Tasks, Steps
<1> HIDE DEF t
<1>4. Placed(t) /\ Edge(task[r].op, task[r].step, "write")
  BY <1>1, <1>3 DEF ReadProfile, At, Placed, Ended, Edge
<1> QED BY <1>2, <1>3, <1>4 DEF TypeInv, TasksPlaced, OthersKept, Moved

LEMMA FailMove == ASSUME TypeInv, NEW r \in Request, Fail(r) PROVE Moved(r)
<1> DEFINE t == [task[r] EXCEPT !.step = "failed", !.token = None, !.row = None,
                                !.password = None, !.stamp = 0]
<1>1. task[r] \in Tasks /\ Placed(task[r]) /\ 0 \in 0 .. MaxTime
  BY AccountsAssumption DEF TypeInv, TasksPlaced
<1>2. task' = [task EXCEPT ![r] = t]
  BY DEF Fail
<1>3. t \in Tasks /\ t.op = task[r].op /\ t.step = "failed" /\ t.target = task[r].target
  BY <1>1 DEF Tasks, Steps, Names
<1> HIDE DEF t
<1>4. Placed(t) /\ Edge(task[r].op, task[r].step, "failed")
  BY <1>1, <1>3 DEF Fail, Running, Placed, Ended, Edge
<1> QED BY <1>2, <1>3, <1>4 DEF TypeInv, TasksPlaced, OthersKept, Moved

\* However a request goes on, it is along an edge, and alone.
LEMMA Moves == ASSUME TypeInv, NEW r \in Request, Quiet(r) \/ Writes(r) PROVE Moved(r)
<1> USE DEF Hop, Edge, Ended, Steps, At
<1>1. CASE EnterMerchant(r)
  BY <1>1, HopMove DEF EnterMerchant
<1>2. CASE Answer(r) \/ VerifyPassword(r) \/ Mint(r)
  BY <1>2, HopMove DEF Answer, VerifyPassword, Mint
<1>3. CASE UpdatePasswordHash(r) \/ RevokeSessions(r)
  BY <1>3, HopMove DEF UpdatePasswordHash, RevokeSessions
<1>4. CASE UpsertReadMerchant(r) \/ DeleteByMerchantAndName(r) \/ CreateKey(r)
  BY <1>4, HopMove DEF UpsertReadMerchant, DeleteByMerchantAndName, CreateKey
<1>5. CASE DeleteKey(r) \/ Authenticate(r)
  BY <1>5, HopMove DEF DeleteKey, Authenticate
<1>6. CASE WriteProfile(r) \/ EnsureSecret(r) \/ SetWebhookSecret(r)
  BY <1>6, HopMove DEF WriteProfile, EnsureSecret, SetWebhookSecret
<1>7. CASE CheckUser(r) \/ InsertMerchant(r)
  BY <1>7, HopMove DEF CheckUser, InsertMerchant
<1>8. CASE InsertOwner(r) \/ InsertOwnerUnheard(r) \/ DeleteMerchant(r) \/ UpdateEmail(r)
  BY <1>8, HopMove DEF InsertOwner, InsertOwnerUnheard, DeleteMerchant, UpdateEmail
<1> HIDE DEF Hop, Edge
<1> QED BY <1>1, <1>2, <1>3, <1>4, <1>5, <1>6, <1>7, <1>8, StampMove, ReadMove, FailMove
     DEF Quiet, Writes

\* The rows, which a request that begins or goes on quietly leaves alone.
rows == <<now, sessionVars, switches, keyVars, profileVars, emailVars, mix>>

LEMMA StartFrame ==
    ASSUME NEW r, Start(r)
    PROVE  UNCHANGED rows /\ barred' \in {barred, barred \union {r}}
BY DEF Start, Entry, Login, Enter, PresentKey, BeginMerchant, BarMerchantCall, statusVars, rows

LEMMA QuietFrame == ASSUME NEW r, Quiet(r) PROVE UNCHANGED rows /\ barred' = barred
BY DEF Quiet, EnterMerchant, Answer, VerifyPassword, StampRevocation, UpsertReadMerchant,
   Authenticate, ReadProfile, CheckUser, statusVars, rows

LEMMA TypeStart == Init => TypeInv
<1> SUFFICES ASSUME Init PROVE TypeInv
  OBVIOUS
<1> USE AccountsAssumption
<1>1. TasksPlaced
  BY UnbornTyped DEF Init, TasksPlaced, Placed, Unborn
<1>2. 0 \in 0 .. MaxTime /\ 0 \in 0 .. MaxSwitches /\ None \in Names
  BY DEF Names
<1>3. tokens \subseteq Tokens
  BY <1>2 DEF Init, Token, Tokens
<1>4. accounts \in [Account -> [password : Names, validAfter : 0 .. MaxTime]]
  BY <1>2 DEF Init
<1>5. merchant \in [active : BOOLEAN, secret : Names, columns : [Field -> Names]]
  BY <1>2 DEF Init
<1>6. /\ keys \subseteq [id : Names, env : Env]
      /\ merchants \subseteq [id : Names, email : Email, by : {"register", "create"}]
      /\ owners \subseteq [merchant : Names, email : Email]
  BY <1>2 DEF Init
<1>7. since \in [Request -> SUBSET Request] /\ asked \in [Field -> Names]
  BY <1>2 DEF Init
<1> QED BY <1>1, <1>2, <1>3, <1>4, <1>5, <1>6, <1>7 DEF Init, TypeInv, TypeOK, TasksPlaced

LEMMA TypeStep == TypeInv /\ [Next]_vars => TypeInv'
<1> SUFFICES ASSUME TypeInv, [Next]_vars PROVE TypeInv'
  OBVIOUS
<1>1. CASE UNCHANGED vars
  BY <1>1 DEF vars, sessionVars, statusVars, keyVars, profileVars, emailVars, TypeInv, TypeOK, TasksPlaced
<1>2. CASE SetMerchantActive
  <2>1. merchant' \in [active : BOOLEAN, secret : Names, columns : [Field -> Names]]
    BY <1>2 DEF SetMerchantActive, TypeInv, TypeOK
  <2>2. switches' \in 0 .. MaxSwitches /\ barred' \subseteq Request
    BY <1>2, AccountsAssumption DEF SetMerchantActive, TypeInv, TypeOK
  <2> QED BY <1>2, <2>1, <2>2
       DEF SetMerchantActive, sessionVars, keyVars, emailVars, TypeInv, TypeOK, TasksPlaced
<1>3. CASE Tick
  BY <1>3, AccountsAssumption DEF Tick, sessionVars, statusVars, keyVars, profileVars, emailVars, TypeInv, TypeOK, TasksPlaced
<1>4. ASSUME NEW r \in Request, Start(r) \/ Quiet(r) PROVE TypeInv'
  <2>1. TasksPlaced' /\ UNCHANGED rows /\ barred' \in {barred, barred \union {r}}
    BY <1>4, StartMove, StartFrame, QuietFrame, Moves DEF Moved
  <2> QED BY <2>1 DEF rows, sessionVars, keyVars, profileVars, emailVars, TypeInv, TypeOK, TasksPlaced
<1>5. ASSUME NEW r \in Request, Writes(r) PROVE TypeInv'
  <2>1. TasksPlaced'
    BY <1>5, Moves DEF Moved
  <2>2. task' \in [Request -> Tasks]
    BY <2>1 DEF TasksPlaced
  <2>3. task[r] \in Tasks /\ Placed(task[r]) /\ r \in Names
    BY DEF TypeInv, TasksPlaced, Names
  <2> USE DEF sessionVars, statusVars, keyVars, profileVars, emailVars, At, TypeInv
  <2>4. CASE Mint(r)
    <3>1. Token(task[r].who, now, task[r].password) \in Tokens
      BY <2>3, <2>4 DEF Mint, Placed, Ended, Token, Tokens, Tasks, TypeOK
    <3> QED BY <2>1, <2>2, <2>4, <3>1 DEF Mint, TypeOK
  <2>5. CASE UpdatePasswordHash(r) \/ RevokeSessions(r)
    <3>1. task[r].who \in Account /\ task[r].stamp \in 0 .. MaxTime
      BY <2>3, <2>5 DEF UpdatePasswordHash, RevokeSessions, Placed, Ended, Tasks
    <3>2. accounts' \in [Account -> [password : Names, validAfter : 0 .. MaxTime]]
      BY <2>3, <2>5, <3>1 DEF UpdatePasswordHash, RevokeSessions, TypeOK
    <3>3. cut' \in [Account -> 0 .. MaxTime] /\ undone' \subseteq Account
      BY <2>5, <3>1 DEF UpdatePasswordHash, RevokeSessions, Stamped, TypeOK
    <3> QED BY <2>1, <2>2, <2>5, <3>2, <3>3 DEF UpdatePasswordHash, RevokeSessions, TypeOK
  <2>6. CASE Fail(r)
    <3>1. At(r, "rotate", "create") => task[r].target \in Env
      BY <2>3 DEF Placed
    <3> QED BY <2>1, <2>2, <2>6, <3>1 DEF Fail, TypeOK
  <2>7. CASE DeleteByMerchantAndName(r) \/ CreateKey(r) \/ DeleteKey(r)
    <3>1. ~DeleteKey(r) => task[r].target \in Env
      BY <2>3, <2>7 DEF DeleteByMerchantAndName, CreateKey, Placed
    <3>2. keys' \subseteq [id : Names, env : Env]
      BY <2>3, <2>7, <3>1 DEF DeleteByMerchantAndName, CreateKey, DeleteKey, TypeOK
    <3>3. deleted' \subseteq Env /\ overlapped' \subseteq Env
      BY <2>7, <3>1 DEF DeleteByMerchantAndName, CreateKey, DeleteKey, TypeOK
    <3> QED BY <2>1, <2>2, <2>7, <3>2, <3>3 DEF DeleteByMerchantAndName, CreateKey, DeleteKey, TypeOK
  <2>8. CASE WriteProfile(r)
    <3>1. task[r].target \in Field /\ task[r].row \in Rows
      BY <2>3, <2>8 DEF WriteProfile, Placed
    <3>2. [task[r].row.columns EXCEPT ![task[r].target] = r] \in [Field -> Names]
      BY <2>3, <3>1 DEF Rows
    <3>3. merchant' \in [active : BOOLEAN, secret : Names, columns : [Field -> Names]]
      BY <2>8, <3>2 DEF WriteProfile, TypeOK
    <3>4. since' \in [Request -> SUBSET Request] /\ asked' \in [Field -> Names]
      BY <2>3, <2>8, <3>1 DEF WriteProfile, Written, TypeOK
    <3> QED BY <2>1, <2>2, <2>8, <3>3, <3>4 DEF WriteProfile, TypeOK
  <2>9. CASE EnsureSecret(r)
    <3>1. shown' \subseteq Request
      BY <2>9 DEF EnsureSecret, TypeOK, Names
    <3> QED BY <2>1, <2>2, <2>9, <3>1 DEF EnsureSecret, TypeOK
  <2>10. CASE SetWebhookSecret(r)
    <3>1. merchant' \in [active : BOOLEAN, secret : Names, columns : [Field -> Names]]
      BY <2>3, <2>10 DEF SetWebhookSecret, TypeOK
    <3>2. since' \in [Request -> SUBSET Request]
      BY <2>10 DEF SetWebhookSecret, Written, TypeOK
    <3> QED BY <2>1, <2>2, <2>10, <3>1, <3>2 DEF SetWebhookSecret, TypeOK
  <2>11. CASE InsertMerchant(r)
    <3>1. task[r].target \in Email /\ task[r].op \in {"register", "create"}
      BY <2>3, <2>11 DEF InsertMerchant, Placed
    <3>2. merchants' \subseteq [id : Names, email : Email, by : {"register", "create"}]
      BY <2>3, <2>11, <3>1 DEF InsertMerchant, TypeOK
    <3> QED BY <2>1, <2>2, <2>11, <3>2 DEF InsertMerchant, TypeOK
  <2>12. CASE InsertOwner(r) \/ InsertOwnerUnheard(r) \/ UpdateEmail(r)
    <3>1. task[r].target \in Email /\ None \in Names
      BY <2>3, <2>12 DEF InsertOwner, InsertOwnerUnheard, UpdateEmail, Placed, Names
    <3>2. owners' \subseteq [merchant : Names, email : Email]
      BY <2>3, <2>12, <3>1 DEF InsertOwner, InsertOwnerUnheard, UpdateEmail, TypeOK
    <3> QED BY <2>1, <2>2, <2>12, <3>2 DEF InsertOwner, InsertOwnerUnheard, UpdateEmail, TypeOK
  <2>13. CASE DeleteMerchant(r)
    BY <2>1, <2>2, <2>13 DEF DeleteMerchant, TypeOK
  <2> QED BY <1>5, <2>4, <2>5, <2>6, <2>7, <2>8, <2>9, <2>10, <2>11, <2>12, <2>13 DEF Writes
<1>6. TypeOK
  BY DEF TypeInv
<1> QED BY <1>1, <1>2, <1>3, <1>4, <1>5, <1>6, StepCases

\* Rows, requests and history keep to their columns.
THEOREM RowsTyped == Spec => []TypeOK
<1>1. TypeInv => TypeOK
  BY DEF TypeInv
<1> QED BY <1>1, TypeStart, TypeStep, PTL DEF Spec

-----------------------------------------------------------------------------
(* The API keys.                                                           *)

KeyInv == KeyKept
SoleInv == \A e \in Env \ overlapped :
    /\ \A k, l \in KeysOf(e) : k = l
    /\ Replacing(e) # {} => KeysOf(e) = {}
    /\ \A p, q \in Replacing(e) : p = q

KeyWrite(r) == Moved(r) /\ (DeleteByMerchantAndName(r) \/ CreateKey(r) \/ DeleteKey(r) \/ Fail(r))
KeysStill ==
    /\ UNCHANGED keyVars
    /\ \A e \in Env : Replacing(e)' = Replacing(e) /\ KeysOf(e)' = KeysOf(e)

\* A request that is not between its DELETE and its INSERT, and leaves the
\* keys alone, changes nothing of who is.
LEMMA KeysAside ==
    ASSUME NEW r \in Request, OthersKept(r), UNCHANGED keyVars,
           ~At(r, "rotate", "create"), ~At(r, "rotate", "create")'
    PROVE  KeysStill
BY DEF KeysStill, OthersKept, keyVars, Replacing, KeysOf, At

\* The steps that are the keys' own, and all the others.
LEMMA KeyCases ==
    ASSUME TypeInv, [Next]_vars
    PROVE  \/ KeysStill
           \/ \E r \in Request : KeyWrite(r)
<1>1. CASE UNCHANGED vars \/ SetMerchantActive \/ Tick
  <2>1. UNCHANGED <<keyVars, task>>
    BY <1>1 DEF vars, SetMerchantActive, Tick
  <2> QED BY <2>1 DEF KeysStill, keyVars, Replacing, KeysOf, At
<1>2. ASSUME NEW r \in Request, Start(r) PROVE KeysStill
  <2>1. UNCHANGED keyVars /\ OthersKept(r) /\ task[r].step = "new" /\ task'[r].step \in Starting
    BY <1>2, StartMove, StartFrame DEF rows
  <2> QED BY <2>1, KeysAside DEF Starting, At
<1>3. ASSUME NEW r \in Request, Quiet(r) PROVE KeysStill
  <2>1. UNCHANGED keyVars /\ Moved(r)
    BY <1>3, Moves, QuietFrame DEF rows
  <2>2. ~At(r, "rotate", "create") /\ ~At(r, "rotate", "delete")
    BY <1>3 DEF Quiet, EnterMerchant, Answer, VerifyPassword, StampRevocation, UpsertReadMerchant,
       Authenticate, ReadProfile, CheckUser, At
  <2> QED BY <2>1, <2>2, KeysAside DEF Moved, Edge, At
<1>4. ASSUME NEW r \in Request, Writes(r),
             ~(DeleteByMerchantAndName(r) \/ CreateKey(r) \/ DeleteKey(r) \/ Fail(r))
      PROVE  KeysStill
  <2>1. UNCHANGED keyVars /\ task[r].op # "rotate"
    BY <1>4 DEF Writes, Mint, UpdatePasswordHash, RevokeSessions, WriteProfile, EnsureSecret,
       SetWebhookSecret, InsertMerchant, InsertOwner, InsertOwnerUnheard, DeleteMerchant,
       UpdateEmail, At
  <2>2. Moved(r)
    BY <1>4, Moves
  <2> QED BY <2>1, <2>2, KeysAside DEF Moved, At
<1>5. ASSUME NEW r \in Request, Writes(r),
             DeleteByMerchantAndName(r) \/ CreateKey(r) \/ DeleteKey(r) \/ Fail(r)
      PROVE  KeyWrite(r)
  BY <1>5, Moves DEF KeyWrite
<1> QED BY <1>1, <1>2, <1>3, <1>4, <1>5, StepCases DEF TypeInv

LEMMA KeyStep == TypeInv /\ KeyInv /\ SoleInv /\ [Next]_vars => KeyInv' /\ SoleInv'
<1> SUFFICES ASSUME TypeInv, KeyInv, SoleInv, [Next]_vars PROVE KeyInv' /\ SoleInv'
  OBVIOUS
<1>1. CASE KeysStill
  BY <1>1 DEF KeysStill, keyVars, KeyInv, KeyKept, SoleInv
<1>2. ASSUME NEW r \in Request, Moved(r), DeleteByMerchantAndName(r) PROVE KeyInv' /\ SoleInv'
  <2> DEFINE e == task[r].target
  <2>1. /\ keys' = keys \ KeysOf(e) /\ deleted' = deleted
        /\ overlapped' = IF Replacing(e) = {} THEN overlapped ELSE overlapped \union {e}
        /\ Goto(r, "create") /\ At(r, "rotate", "delete")
    BY <1>2 DEF DeleteByMerchantAndName
  <2>2. At(r, "rotate", "create")' /\ task'[r].target = e /\ OthersKept(r)
    BY <1>2, <2>1 DEF Moved, Goto, At, TypeInv, TypeOK, Tasks
  <2>3. \A d : Replacing(d)' = IF d = e THEN Replacing(e) \union {r} ELSE Replacing(d)
    BY <2>1, <2>2 DEF Replacing, At, OthersKept
  <2>4. \A d : KeysOf(d)' = IF d = e THEN {} ELSE KeysOf(d)
    BY <2>1 DEF KeysOf
  <2> QED BY <2>1, <2>3, <2>4 DEF KeyInv, KeyKept, SoleInv
<1>3. ASSUME NEW r \in Request, Moved(r), CreateKey(r) PROVE KeyInv' /\ SoleInv'
  <2> DEFINE e == task[r].target
  <2>1. /\ keys' = keys \union {[id |-> r, env |-> e]} /\ deleted' = deleted \ {e}
        /\ overlapped' = overlapped /\ At(r, "rotate", "create")
    BY <1>3 DEF CreateKey
  <2>2. task'[r].step = "done" /\ OthersKept(r)
    BY <1>3, FinishMove DEF CreateKey, Ended
  <2>3. \A d : Replacing(d)' = Replacing(d) \ {r}
    BY <2>2 DEF Replacing, At, OthersKept
  <2>4. r \in Replacing(e) /\ \A d : r \in Replacing(d) => d = e
    BY <2>1 DEF Replacing
  <2>5. \A d : KeysOf(d)' = IF d = e THEN KeysOf(e) \union {[id |-> r, env |-> e]} ELSE KeysOf(d)
    BY <2>1 DEF KeysOf
  <2>6. \A d : d # e => Replacing(d)' = Replacing(d)
    BY <2>3, <2>4
  <2>7. KeyInv'
    BY <2>1, <2>5, <2>6 DEF KeyInv, KeyKept
  <2>8. ASSUME NEW d \in Env \ overlapped, d = e
        PROVE  KeysOf(d)' = {[id |-> r, env |-> e]} /\ Replacing(d)' = {}
    BY <2>3, <2>4, <2>5, <2>8 DEF SoleInv
  <2> QED BY <2>1, <2>5, <2>6, <2>7, <2>8 DEF SoleInv
<1>4. ASSUME NEW r \in Request, Moved(r), DeleteKey(r) PROVE KeyInv' /\ SoleInv'
  <2>1. /\ keys' \subseteq keys /\ deleted' = deleted \union {k.env : k \in keys \ keys'}
        /\ overlapped' = overlapped /\ At(r, "revoke", "verified")
    BY <1>4 DEF DeleteKey
  <2>2. OthersKept(r) /\ task'[r].op = "revoke"
    BY <1>4, <2>1 DEF Moved, At
  <2>3. \A d : Replacing(d)' = Replacing(d)
    BY <2>1, <2>2 DEF Replacing, At, OthersKept
  <2>4. \A d : KeysOf(d)' = {} => KeysOf(d) = {} \/ d \in deleted'
    BY <2>1 DEF KeysOf
  <2>5. KeyInv'
    BY <2>1, <2>3, <2>4 DEF KeyInv, KeyKept
  <2>6. SoleInv'
    <3>1. \A d : KeysOf(d)' \subseteq KeysOf(d)
      BY <2>1 DEF KeysOf
    <3> QED BY <2>1, <2>3, <3>1 DEF SoleInv
  <2> QED BY <2>5, <2>6
<1>5. ASSUME NEW r \in Request, Moved(r), Fail(r) PROVE KeyInv' /\ SoleInv'
  <2>1. /\ UNCHANGED <<keys, overlapped>> /\ deleted \subseteq deleted'
        /\ At(r, "rotate", "create") => task[r].target \in deleted'
    BY <1>5 DEF Fail
  <2>2. task'[r].step = "failed" /\ OthersKept(r)
    BY <1>5 DEF Fail, Moved, TypeInv, TypeOK, Tasks
  <2>3. \A d : Replacing(d)' = Replacing(d) \ {r}
    BY <2>2 DEF Replacing, At, OthersKept
  <2>4. \A d : r \in Replacing(d) => d \in deleted'
    BY <2>1 DEF Replacing
  <2>5. \A d : KeysOf(d)' = KeysOf(d)
    BY <2>1 DEF KeysOf
  <2>6. KeyInv'
    BY <2>1, <2>3, <2>4, <2>5 DEF KeyInv, KeyKept
  <2>7. ASSUME NEW d \in Env \ overlapped
        PROVE  /\ \A k, l \in KeysOf(d)' : k = l
               /\ Replacing(d)' # {} => KeysOf(d)' = {}
               /\ \A p, q \in Replacing(d)' : p = q
    BY <2>3, <2>5 DEF SoleInv
  <2>8. overlapped' = overlapped
    BY <2>1
  <2> QED BY <2>6, <2>7, <2>8 DEF SoleInv
<1> QED BY <1>1, <1>2, <1>3, <1>4, <1>5, KeyCases DEF KeyWrite

LEMMA KeyStart == Init => KeyInv /\ SoleInv
<1> SUFFICES ASSUME Init PROVE KeyInv /\ SoleInv
  OBVIOUS
<1>1. \A e : Replacing(e) = {}
  BY DEF Init, Unborn, Replacing, At
<1>2. \A e \in Env : KeysOf(e) = {[id |-> None, env |-> e]}
  BY DEF Init, KeysOf
<1> QED BY <1>1, <1>2 DEF KeyInv, KeyKept, SoleInv

\* An environment without an API key was asked to be, or is being rotated, or
\* its rotation failed between the DELETE and the INSERT.
THEOREM KeysAreKept == Spec => []KeyKept
<1>1. KeyInv => KeyKept
  BY DEF KeyInv
<1> QED BY <1>1, TypeStart, TypeStep, KeyStart, KeyStep, PTL DEF Spec

\* However calls interleave, two live keys of one environment need two
\* rotations of it at once.
THEOREM OneKeyUnlessOverlapped == Spec => []SoleKey
<1>1. SoleInv => SoleKey
  BY DEF SoleInv, SoleKey
<1> QED BY <1>1, TypeStart, TypeStep, KeyStart, KeyStep, PTL DEF Spec

-----------------------------------------------------------------------------
(* The merchant's status.                                                  *)

\* Where a call begun under an inactivity that still lasts may be.
HeldUp(t) ==
    \/ t.step \in {"merchant", "refused", "failed"}
    \/ t.op = "rotate" /\ t.who \in Admin /\ t.step \in {"in", "verified"}
BarInv == \A r \in barred : ~merchant.active /\ HeldUp(task[r])

\* A request that begins under an inactive merchant is held up at its door.
LEMMA StartHeld ==
    ASSUME TypeInv, NEW r \in Request, Start(r)
    PROVE  \/ barred' = barred
           \/ barred' = barred \union {r} /\ ~merchant.active /\ HeldUp(task'[r])
<1> USE DEF BarMerchantCall
<1>1. ASSUME NEW a \in Account, Login(r, a), barred' # barred
      PROVE  barred' = barred \union {r} /\ ~merchant.active /\ task'[r].step = "merchant"
  BY <1>1 DEF Login, Unborn, TypeInv, TasksPlaced
<1>2. ASSUME Entry(r), barred' # barred
      PROVE  barred' = barred \union {r} /\ ~merchant.active /\ HeldUp(task'[r])
  <2>0. PICK op \in Ops, u \in tokens : \E target : Enter(r, op, u, target)
    BY <1>2 DEF Entry
  <2>1. PICK target : Enter(r, op, u, target)
    BY <2>0
  <2>2. /\ barred' = barred \union {r} /\ ~merchant.active
        /\ u.who \in MerchantUser \/ op = "rotate"
    BY <1>2, <2>1 DEF Enter
  <2>3. u.who \in Account
    BY DEF TypeInv, TypeOK, Tokens
  <2> DEFINE step == IF sessionRevoked(u) THEN "refused"
                     ELSE IF u.who \in MerchantUser THEN "merchant" ELSE "in"
  <2>4. /\ task'[r].step = step /\ task'[r].op = op /\ task'[r].who = u.who
    BY <2>1, UnbornTyped DEF Enter, TypeInv, TasksPlaced, Tasks
  <2>5. \/ step \in {"refused", "merchant"}
        \/ step = "in" /\ u.who \notin MerchantUser
    OBVIOUS
  <2> HIDE DEF step
  <2> QED BY <2>2, <2>3, <2>4, <2>5 DEF HeldUp, Account
<1>3. ASSUME NEW k \in keys, PresentKey(r, k), barred' # barred
      PROVE  barred' = barred \union {r} /\ ~merchant.active /\ task'[r].step = "merchant"
  BY <1>3 DEF PresentKey, Unborn, TypeInv, TasksPlaced
<1>4. ASSUME NEW op, NEW e \in Email, BeginMerchant(r, op, e) PROVE barred' = barred
  BY <1>4 DEF BeginMerchant, statusVars
<1> QED BY <1>1, <1>2, <1>3, <1>4 DEF Start, HeldUp

LEMMA QuietHeld ==
    ASSUME TypeInv, NEW r \in Request, Quiet(r), ~merchant.active, HeldUp(task[r])
    PROVE  HeldUp(task'[r])
<1> USE DEF At, Ended, HeldUp
<1>1. CASE EnterMerchant(r) \/ Authenticate(r)
  BY <1>1, FinishMove DEF EnterMerchant, Authenticate
<1>2. CASE VerifyPassword(r)
  <2>1. CASE Goto(r, "verified")
    BY <1>2, <2>1, GotoMove DEF VerifyPassword, Steps
  <2>2. CASE Finish(r, "refused")
    BY <1>2, <2>2, FinishMove DEF VerifyPassword
  <2> QED BY <1>2, <2>1, <2>2 DEF VerifyPassword
<1>3. CASE UpsertReadMerchant(r)
  BY <1>3, FinishMove DEF UpsertReadMerchant
<1>4. CASE Answer(r) \/ StampRevocation(r) \/ ReadProfile(r) \/ CheckUser(r)
  BY <1>4 DEF Answer, StampRevocation, ReadProfile, CheckUser
<1> QED BY <1>1, <1>2, <1>3, <1>4 DEF Quiet

LEMMA BarStep == TypeInv /\ BarInv /\ [Next]_vars => BarInv'
<1> SUFFICES ASSUME TypeInv, BarInv, [Next]_vars PROVE BarInv'
  OBVIOUS
<1>0. barred \subseteq Request
  BY DEF TypeInv, TypeOK
<1>1. CASE UNCHANGED vars \/ Tick
  BY <1>1 DEF vars, Tick, statusVars, profileVars, BarInv, HeldUp
<1>2. CASE SetMerchantActive
  <2>1. merchant'.active = ~merchant.active /\ task' = task
        /\ barred' = IF merchant'.active THEN {} ELSE barred
    BY <1>2 DEF SetMerchantActive, TypeInv, TypeOK
  <2> QED BY <2>1 DEF BarInv
<1>3. ASSUME NEW r \in Request, Start(r) PROVE BarInv'
  <2>1. merchant' = merchant
    BY <1>3, StartFrame DEF rows, profileVars
  <2>2. OthersKept(r) /\ task[r].step = "new"
    BY <1>3, StartMove
  <2>3. r \notin barred
    BY <2>2 DEF BarInv, HeldUp
  <2> QED BY <1>0, <1>3, <2>1, <2>2, <2>3, StartHeld DEF BarInv, OthersKept
<1>4. ASSUME NEW r \in Request, Quiet(r) PROVE BarInv'
  <2>1. merchant' = merchant /\ barred' = barred
    BY <1>4, QuietFrame DEF rows, profileVars
  <2>2. OthersKept(r)
    BY <1>4, Moves DEF Moved
  <2> QED BY <1>0, <1>4, <2>1, <2>2, QuietHeld DEF BarInv, OthersKept
<1>5. ASSUME NEW r \in Request, Writes(r) PROVE BarInv'
  <2>1. merchant'.active = merchant.active /\ barred' = barred
    BY <1>5 DEF Writes, Mint, UpdatePasswordHash, RevokeSessions, Fail, DeleteByMerchantAndName,
       CreateKey, DeleteKey, WriteProfile, EnsureSecret, SetWebhookSecret, InsertMerchant,
       InsertOwner, InsertOwnerUnheard, DeleteMerchant, UpdateEmail, statusVars, profileVars,
       TypeInv, TypeOK
  <2>2. OthersKept(r) /\ (r \in barred => task'[r].step = "failed")
    <3>1. CASE Fail(r)
      <4>1. task'[r].step = "failed"
        BY <3>1 DEF Fail, TypeInv, TasksPlaced, Tasks
      <4> QED BY <1>5, <4>1, Moves DEF Moved
    <3>2. CASE ~Fail(r)
      <4>1. ~HeldUp(task[r])
        BY <1>5, <3>2 DEF Writes, Mint, UpdatePasswordHash, RevokeSessions,
           DeleteByMerchantAndName, CreateKey, DeleteKey, WriteProfile, EnsureSecret,
           SetWebhookSecret, InsertMerchant, InsertOwner, InsertOwnerUnheard, DeleteMerchant,
           UpdateEmail, At, HeldUp
      <4> QED BY <1>5, <4>1, Moves DEF Moved, BarInv
    <3> QED BY <3>1, <3>2
  <2> QED BY <1>0, <2>1, <2>2 DEF BarInv, OthersKept, HeldUp
<1>6. TypeOK
  BY DEF TypeInv
<1> QED BY <1>1, <1>2, <1>3, <1>4, <1>5, <1>6, StepCases

\* While a merchant stays inactive nothing begun since on its behalf gets
\* through: not a login, not a dashboard or API call, not a new key.
THEOREM InactivityHolds == Spec => []DeactivationHolds
<1>1. TypeInv /\ BarInv => DeactivationHolds
  BY DEF BarInv, HeldUp, DeactivationHolds
<1>2. Init => BarInv
  BY DEF Init, BarInv
<1> QED BY <1>1, <1>2, TypeStart, TypeStep, BarStep, PTL DEF Spec

-----------------------------------------------------------------------------
(* Sessions.                                                               *)

LEMMA ProductNatural == ASSUME NEW a \in Nat, NEW b \in Nat PROVE a * b \in Nat
OBVIOUS

LEMMA ProductMonotone ==
    ASSUME NEW a \in Nat, NEW b \in Nat, NEW c \in Nat, a <= b
    PROVE  c * a <= c * b
<1>1. PICK d \in Nat : b = a + d
  <2>1. b - a \in Nat /\ b = a + (b - a)
    OBVIOUS
  <2> QED BY <2>1
<1>2. c * b = c * a + c * d
  BY <1>1
<1>3. c * d \in Nat /\ c * a \in Nat
  BY <1>1, ProductNatural
<1> QED BY <1>2, <1>3

\* A time truncated to the second is no later, and truncation keeps order.
LEMMA SecBelow ==
    ASSUME NEW t \in Nat
    PROVE  Sec(t) \in Nat /\ Sec(t) <= t
<1>1. t % Second \in 0 .. Second - 1 /\ t \div Second \in Nat
      /\ t = Second * (t \div Second) + (t % Second)
  BY AccountsAssumption
<1>2. Second * (t \div Second) \in Nat
  BY <1>1, ProductNatural, AccountsAssumption
<1> QED BY <1>1, <1>2 DEF Sec

LEMMA SecMonotone ==
    ASSUME NEW s \in Nat, NEW t \in Nat, s <= t
    PROVE  Sec(s) <= Sec(t)
<1> DEFINE p == s \div Second  q == t \div Second
<1>1. /\ p \in Nat /\ s % Second \in 0 .. Second - 1 /\ s = Second * p + (s % Second)
      /\ q \in Nat /\ t % Second \in 0 .. Second - 1 /\ t = Second * q + (t % Second)
  BY AccountsAssumption
<1> HIDE DEF p, q
<1>2. Second \in Nat /\ Second > 0 /\ Second * p \in Nat /\ Second * q \in Nat
  BY <1>1, ProductNatural, AccountsAssumption
<1>3. p <= q
  <2> SUFFICES ASSUME q + 1 <= p PROVE FALSE
    BY <1>1
  <2>1. Second * (q + 1) <= Second * p
    BY <1>1, <1>2, ProductMonotone
  <2>2. Second * (q + 1) = Second * q + Second
    BY <1>1, <1>2
  <2> QED BY <1>1, <1>2, <2>1, <2>2
<1>4. Second * p <= Second * q
  BY <1>1, <1>2, <1>3, ProductMonotone
<1> QED BY <1>1, <1>2, <1>4 DEF Sec

\* The stored stamp is the latest one, unless an older one was written over it.
SessionInv == \A a \in Account :
    /\ accounts[a].validAfter <= cut[a]
    /\ a \notin undone => accounts[a].validAfter = cut[a]

LEMMA SessionStart == Init => SessionInv
BY DEF Init, SessionInv

LEMMA SessionStep == TypeInv /\ SessionInv /\ [Next]_vars => SessionInv'
<1> SUFFICES ASSUME TypeInv, SessionInv, [Next]_vars PROVE SessionInv'
  OBVIOUS
<1>1. CASE UNCHANGED <<accounts, cut, undone>>
  BY <1>1 DEF SessionInv
<1>2. ASSUME NEW r \in Request, UpdatePasswordHash(r) \/ RevokeSessions(r) PROVE SessionInv'
  <2> DEFINE a == task[r].who  stamp == task[r].stamp
  <2>1. a \in Account /\ stamp \in Nat
    <3>1. task[r] \in Tasks /\ Placed(task[r])
      BY DEF TypeInv, TasksPlaced
    <3> QED BY <1>2, <3>1, AccountsAssumption
         DEF UpdatePasswordHash, RevokeSessions, At, Placed, Ended, Tasks
  <2>2. /\ accounts'[a].validAfter = stamp
        /\ \A b \in Account : b # a => accounts'[b] = accounts[b]
    BY <1>2, <2>1 DEF UpdatePasswordHash, RevokeSessions, TypeInv, TypeOK
  <2>3. /\ cut'[a] = IF stamp > cut[a] THEN stamp ELSE cut[a]
        /\ \A b \in Account : b # a => cut'[b] = cut[b]
        /\ undone' = IF stamp < cut[a] THEN undone \union {a} ELSE undone \ {a}
    BY <1>2, <2>1 DEF UpdatePasswordHash, RevokeSessions, Stamped, TypeInv, TypeOK
  <2>4. cut[a] \in Nat
    BY <2>1, AccountsAssumption DEF TypeInv, TypeOK
  <2> HIDE DEF a, stamp
  <2> QED BY <2>1, <2>2, <2>3, <2>4 DEF SessionInv
<1>3. ASSUME NEW r \in Request, Writes(r), ~(UpdatePasswordHash(r) \/ RevokeSessions(r))
      PROVE  UNCHANGED <<accounts, cut, undone>>
  BY <1>3 DEF Writes, Mint, Fail, DeleteByMerchantAndName, CreateKey, DeleteKey, WriteProfile,
     EnsureSecret, SetWebhookSecret, InsertMerchant, InsertOwner, InsertOwnerUnheard,
     DeleteMerchant, UpdateEmail, sessionVars
<1>4. ASSUME NEW r \in Request, Start(r) \/ Quiet(r) PROVE UNCHANGED <<accounts, cut, undone>>
  BY <1>4, StartFrame, QuietFrame DEF rows, sessionVars
<1>5. CASE UNCHANGED vars \/ SetMerchantActive \/ Tick
  BY <1>1, <1>5 DEF vars, SetMerchantActive, Tick, sessionVars
<1>6. TypeOK
  BY DEF TypeInv
<1> QED BY <1>1, <1>2, <1>3, <1>4, <1>5, <1>6, StepCases

\* Only a request that enters with a token presents one.
LEMMA Presenting ==
    ASSUME TypeInv, [Next]_vars, NEW r \in Request, Presents(r)
    PROVE  /\ task'[r].token \in tokens
           /\ (task'[r].step = "refused") <=> sessionRevoked(task'[r].token)
           /\ UNCHANGED <<cut, undone>>
<1>1. ASSUME NEW q \in Request, Quiet(q) \/ Writes(q) PROVE FALSE
  <2>1. OthersKept(q) /\ Edge(task[q].op, task[q].step, task'[q].step)
    BY <1>1, Moves DEF Moved
  <2>2. task[q].step # "new"
    BY <2>1 DEF Edge
  <2>3. task'[r] = task[r]
    BY <2>1, <2>2 DEF OthersKept, Presents
  <2> QED BY <2>3 DEF Presents, TypeInv, TasksPlaced, Placed
<1>2. task' # task
  BY DEF Presents, TypeInv, TasksPlaced, Placed
<1>3. PICK q \in Request : Start(q)
  BY <1>1, <1>2, StepCases DEF TypeInv, vars, SetMerchantActive, Tick
<1>4. q = r
  BY <1>3, StartMove DEF OthersKept, Presents, TypeInv, TasksPlaced, Placed
<1>5. Entry(r)
  <2>1. ASSUME NEW a \in Account, Login(r, a) PROVE task'[r].token = None
    BY <2>1 DEF Login, Unborn, TypeInv, TasksPlaced
  <2>2. ASSUME NEW k \in keys, PresentKey(r, k) PROVE task'[r].token = None
    BY <2>2 DEF PresentKey, Unborn, TypeInv, TasksPlaced
  <2>3. ASSUME NEW op, NEW e \in Email, BeginMerchant(r, op, e) PROVE task'[r].token = None
    BY <2>3 DEF BeginMerchant, Unborn, TypeInv, TasksPlaced
  <2> QED BY <1>3, <1>4, <2>1, <2>2, <2>3 DEF Start, Presents
<1>6. PICK op \in Ops, u \in tokens : \E target : Enter(r, op, u, target)
  BY <1>5 DEF Entry
<1>7. PICK target : Enter(r, op, u, target)
  BY <1>6
<1> DEFINE step == IF sessionRevoked(u) THEN "refused"
                   ELSE IF u.who \in MerchantUser THEN "merchant" ELSE "in"
<1>8. task'[r].token = u /\ task'[r].step = step /\ UNCHANGED <<cut, undone>>
  BY <1>7, UnbornTyped DEF Enter, TypeInv, TasksPlaced, Tasks, sessionVars
<1>9. (step = "refused") <=> sessionRevoked(u)
  OBVIOUS
<1> HIDE DEF step
<1> QED BY <1>7, <1>8, <1>9

\* What is known of a token that is presented.
LEMMA Presented ==
    ASSUME TypeInv, NEW t \in tokens
    PROVE  /\ t.who \in Account /\ t.minted \in Nat
           /\ accounts[t.who].validAfter \in Nat /\ cut[t.who] \in Nat
<1>1. t.who \in Account /\ t.minted \in 0 .. MaxTime
  BY DEF TypeInv, TypeOK, Tokens
<1>2. accounts[t.who].validAfter \in 0 .. MaxTime /\ cut[t.who] \in 0 .. MaxTime
  BY <1>1 DEF TypeInv, TypeOK
<1> QED BY <1>1, <1>2, AccountsAssumption

\* A token older than the second of the latest revocation of its account gets
\* nobody past the check, unless an older stamp was written over the later one.
THEOREM RevocationsEndSessions == Spec => SessionEnds
<1>1. ASSUME TypeInv, SessionInv, [Next]_vars, NEW r \in Request,
             Presents(r), task'[r].step # "refused"
      PROVE  LET t == task'[r].token
             IN t.minted >= Sec(cut[t.who]) \/ t.who \in undone
  <2> DEFINE t == task'[r].token
  <2>1. t \in tokens /\ ~sessionRevoked(t)
    BY <1>1, Presenting
  <2> HIDE DEF t
  <2>2. t.who \in Account /\ t.minted \in Nat /\ cut[t.who] \in Nat
    BY <1>1, <2>1, Presented
  <2>3. Sec(t.minted) >= Sec(accounts[t.who].validAfter)
    <3>1. Sec(t.minted) \in Nat /\ Sec(accounts[t.who].validAfter) \in Nat
      BY <1>1, <2>1, Presented, SecBelow
    <3> QED BY <2>1, <3>1 DEF sessionRevoked, Iat
  <2>4. t.who \notin undone => t.minted >= Sec(cut[t.who])
    <3>1. Sec(t.minted) <= t.minted /\ Sec(t.minted) \in Nat /\ Sec(cut[t.who]) \in Nat
      BY <2>2, SecBelow
    <3> QED BY <1>1, <2>2, <2>3, <3>1 DEF SessionInv
  <2> QED BY <2>4 DEF t
<1>2. TypeInv /\ SessionInv /\ [Next]_vars
        => [\A r \in Request : Presents(r) /\ task'[r].step # "refused" =>
              LET t == task'[r].token
              IN t.minted >= Sec(cut[t.who]) \/ t.who \in undone]_vars
  BY <1>1
<1> QED BY <1>2, TypeStart, TypeStep, SessionStart, SessionStep, PTL DEF Spec, SessionEnds

\* Whoever is turned away had a token from before a revocation: a login after
\* it, in the same second too, is never mistaken for an earlier one.
THEOREM LoginsAfterRevocationWork == Spec => FreshSessionWorks
<1>1. ASSUME TypeInv, SessionInv, [Next]_vars, NEW r \in Request,
             Presents(r), task'[r].step = "refused"
      PROVE  LET t == task'[r].token IN t.minted < cut[t.who]
  <2> DEFINE t == task'[r].token  after == accounts[t.who].validAfter
  <2>1. t \in tokens /\ sessionRevoked(t)
    BY <1>1, Presenting
  <2> HIDE DEF t
  <2>2. t.who \in Account /\ t.minted \in Nat /\ after \in Nat /\ cut[t.who] \in Nat
    BY <1>1, <2>1, Presented
  <2>3. Sec(t.minted) < Sec(after)
    BY <2>1 DEF sessionRevoked, Iat
  <2>4. after <= cut[t.who]
    BY <1>1, <2>2 DEF SessionInv
  <2> HIDE DEF after
  <2>5. Sec(t.minted) \in Nat /\ Sec(after) \in Nat
    BY <2>2, SecBelow
  <2>6. ~(after <= t.minted)
    BY <2>2, <2>3, <2>5, SecMonotone
  <2>7. t.minted < cut[t.who]
    BY <2>2, <2>4, <2>6
  <2> QED BY <2>7 DEF t
<1>2. TypeInv /\ SessionInv /\ [Next]_vars
        => [\A r \in Request : Presents(r) /\ task'[r].step = "refused" =>
              LET t == task'[r].token IN t.minted < cut[t.who]]_vars
  BY <1>1
<1> QED BY <1>2, TypeStart, TypeStep, SessionStart, SessionStep, PTL DEF Spec, FreshSessionWorks

-----------------------------------------------------------------------------
(* The merchant's row.                                                     *)

\* An edit that was done had read the row before f was last asked for.
UndoneBy(f, q) == At(q, "edit", "done") /\ asked[f] \in since[q]
Undone(f) == \E q \in Request : UndoneBy(f, q)
EditInv ==
    /\ \A f \in Field : merchant.columns[f] = asked[f] \/ Undone(f)
    /\ \A q \in Request : At(q, "edit", "write") => \A f \in Field :
          task[q].row.columns[f] = asked[f] \/ asked[f] \in since[q] \/ Undone(f)
\* Secrets are handed out once stored, and a first use that found none will
\* replace only those stored since.
SecretInv ==
    /\ merchant.secret = None => shown = {}
    /\ merchant.secret # None => merchant.secret \in shown
    /\ SecretKept
    /\ \A q \in Request : At(q, "secret", "set") => shown \subseteq since[q]
RowInv == EditInv /\ SecretInv

LEMMA RowStart == Init => RowInv
<1> SUFFICES ASSUME Init PROVE RowInv
  OBVIOUS
<1>1. \A q \in Request : task[q].step = "new"
  BY DEF Init, Unborn
<1> QED BY <1>1 DEF Init, RowInv, EditInv, SecretInv, SecretKept, At

\* A step that writes neither the columns nor the secret: since may grow, and
\* what it takes to a pending write is read from the row as it is.
LEMMA RowAside ==
    ASSUME TypeInv, RowInv, NEW r \in Request, OthersKept(r), UNCHANGED profileVars,
           task[r].op \in {"edit", "secret", "resecret"} => task[r].step # "done",
           ~At(r, "edit", "write")', ~At(r, "secret", "set")'
    PROVE  RowInv'
<1>1. \A f \in Field : Undone(f) => Undone(f)'
  BY DEF Undone, UndoneBy, At, OthersKept, profileVars
<1>2. EditInv'
  BY <1>1 DEF RowInv, EditInv, At, OthersKept, profileVars
<1>3. SecretKept'
  <2>1. SecretKept
    BY DEF RowInv, SecretInv
  <2> QED BY <2>1 DEF SecretKept, At, OthersKept, profileVars
<1>4. SecretInv'
  BY <1>3 DEF RowInv, SecretInv, At, OthersKept, profileVars
<1> QED BY <1>2, <1>4 DEF RowInv

LEMMA ReadRow == TypeInv /\ RowInv => \A r \in Request : ReadProfile(r) => RowInv'
<1> SUFFICES ASSUME TypeInv, RowInv, NEW r \in Request, ReadProfile(r) PROVE RowInv'
  OBVIOUS
<1>1. /\ UNCHANGED profileVars /\ At(r, "edit", "in")
      /\ task'[r].row.columns = merchant.columns /\ task'[r].step = "write"
      /\ OthersKept(r) /\ task'[r].op = "edit"
  <2>1. /\ UNCHANGED profileVars /\ At(r, "edit", "in") /\ OthersKept(r) /\ task'[r].op = "edit"
    BY ReadMove DEF ReadProfile, Moved, At
  <2> DEFINE row == [active |-> merchant.active, columns |-> merchant.columns]
  <2>2. row.columns = merchant.columns
    OBVIOUS
  <2>3. task' = [task EXCEPT ![r].step = "write", ![r].row = row]
    BY DEF ReadProfile
  <2> HIDE DEF row
  <2>4. task'[r].row = row /\ task'[r].step = "write"
    BY <2>3 DEF TypeInv, TasksPlaced, Tasks
  <2> QED BY <2>1, <2>2, <2>4
<1>2. \A f \in Field : Undone(f) => Undone(f)'
  BY <1>1 DEF Undone, UndoneBy, At, OthersKept, profileVars
<1>3. \A f \in Field : merchant.columns[f] = asked[f] \/ Undone(f)
  BY DEF RowInv, EditInv
<1>4. EditInv'
  BY <1>1, <1>2, <1>3 DEF RowInv, EditInv, At, OthersKept, profileVars
<1>5. SecretKept'
  <2>1. SecretKept
    BY DEF RowInv, SecretInv
  <2> QED BY <1>1, <2>1 DEF SecretKept, At, OthersKept, profileVars
<1>6. SecretInv'
  BY <1>1, <1>5 DEF RowInv, SecretInv, At, OthersKept, profileVars
<1> QED BY <1>4, <1>6 DEF RowInv

LEMMA WriteRowStep == TypeInv /\ RowInv => \A r \in Request : WriteProfile(r) => RowInv'
<1> SUFFICES ASSUME TypeInv, RowInv, NEW r \in Request, WriteProfile(r) PROVE RowInv'
  OBVIOUS
<1> DEFINE f == task[r].target
<1>1. /\ At(r, "edit", "write") /\ Written(r) /\ shown' = shown
      /\ merchant' = [merchant EXCEPT !.columns = [task[r].row.columns EXCEPT ![f] = r]]
      /\ asked' = [asked EXCEPT ![f] = r]
  BY DEF WriteProfile
<1>2. f \in Field /\ task[r].row \in Rows
  BY <1>1 DEF TypeInv, TasksPlaced, Placed, At
<1>3. OthersKept(r) /\ At(r, "edit", "done")'
  BY <1>1, FinishMove DEF WriteProfile, Ended, At
<1>4. /\ merchant'.secret = merchant.secret /\ merchant'.columns[f] = r
      /\ \A g \in Field : g # f => merchant'.columns[g] = task[r].row.columns[g]
  BY <1>1, <1>2 DEF TypeInv, TypeOK, Rows
<1>5. asked'[f] = r /\ \A g \in Field : g # f => asked'[g] = asked[g]
  BY <1>1, <1>2 DEF TypeInv, TypeOK
<1>6. /\ \A q \in Request : since[q] \subseteq since'[q]
      /\ \A q \in Request : task[q].step = "write" /\ q # r => r \in since'[q]
  BY <1>1 DEF Written, TypeInv, TypeOK
<1>7. \A g \in Field : g # f /\ Undone(g) => Undone(g)'
  BY <1>1, <1>3, <1>5, <1>6 DEF Undone, UndoneBy, At, OthersKept
<1>8. ASSUME NEW g \in Field, merchant'.columns[g] # asked'[g] PROVE Undone(g)'
  <2>1. g # f
    BY <1>4, <1>5, <1>8
  <2>2. asked[g] \in since[r] \/ Undone(g)
    BY <1>1, <1>4, <1>5, <1>8, <2>1 DEF RowInv, EditInv
  <2>3. asked[g] \in since[r] => Undone(g)'
    BY <1>3, <1>5, <1>6, <2>1 DEF Undone, UndoneBy
  <2> QED BY <1>7, <2>1, <2>2, <2>3
<1>9. ASSUME NEW q \in Request, At(q, "edit", "write")', NEW g \in Field
      PROVE  task'[q].row.columns[g] = asked'[g] \/ asked'[g] \in since'[q] \/ Undone(g)'
  <2>1. q # r /\ At(q, "edit", "write") /\ task'[q] = task[q]
    BY <1>3, <1>9 DEF At, OthersKept
  <2>2. CASE g = f
    BY <1>5, <1>6, <2>1, <2>2 DEF At
  <2>3. CASE g # f
    BY <1>5, <1>6, <1>7, <2>1, <2>3 DEF RowInv, EditInv
  <2> QED BY <2>2, <2>3
<1>10. EditInv'
  BY <1>8, <1>9 DEF EditInv
<1>11. SecretKept'
  <2>1. SecretKept
    BY DEF RowInv, SecretInv
  <2> QED BY <1>1, <1>3, <1>4, <1>6, <2>1 DEF SecretKept, At, OthersKept
<1>12. SecretInv'
  BY <1>1, <1>3, <1>4, <1>6, <1>11 DEF RowInv, SecretInv, At, OthersKept
<1> QED BY <1>10, <1>12 DEF RowInv

LEMMA SecretSetStep == TypeInv /\ RowInv => \A r \in Request : SetWebhookSecret(r) => RowInv'
<1> SUFFICES ASSUME TypeInv, RowInv, NEW r \in Request, SetWebhookSecret(r) PROVE RowInv'
  OBVIOUS
<1>1. /\ At(r, "secret", "set") \/ At(r, "resecret", "verified")
      /\ merchant' = [merchant EXCEPT !.secret = r] /\ shown' = shown \union {r}
      /\ Written(r) /\ asked' = asked
  BY DEF SetWebhookSecret
<1>2. /\ OthersKept(r) /\ task'[r].step = "done"
      /\ task'[r].op = task[r].op
  BY FinishMove DEF SetWebhookSecret, Ended
<1>3. merchant'.secret = r /\ merchant'.columns = merchant.columns /\ r # None
  BY <1>1, AccountsAssumption DEF TypeInv, TypeOK
<1>4. /\ \A q \in Request : since[q] \subseteq since'[q]
      /\ \A q \in Request : task[q].step = "set" /\ q # r => r \in since'[q]
      /\ task[r].op = "resecret" => shown \subseteq since'[r]
  BY <1>1 DEF Written, TypeInv, TypeOK, At
<1>5. \A f \in Field : Undone(f) => Undone(f)'
  BY <1>1, <1>2, <1>4 DEF Undone, UndoneBy, At, OthersKept
<1>6. EditInv'
  <2>1. \A f \in Field : merchant'.columns[f] = asked'[f] \/ Undone(f)'
    BY <1>1, <1>3, <1>5 DEF RowInv, EditInv
  <2>2. ASSUME NEW q \in Request, At(q, "edit", "write")', NEW f \in Field
        PROVE  task'[q].row.columns[f] = asked'[f] \/ asked'[f] \in since'[q] \/ Undone(f)'
    <3>1. At(q, "edit", "write") /\ task'[q] = task[q]
      BY <1>2, <2>2 DEF At, OthersKept
    <3> QED BY <1>1, <1>4, <1>5, <3>1 DEF RowInv, EditInv
  <2> QED BY <2>1, <2>2 DEF EditInv
<1>7. shown \subseteq since'[r]
  BY <1>1, <1>4 DEF RowInv, SecretInv, At
<1>8. SecretKept'
  BY <1>1, <1>2, <1>3, <1>7 DEF SecretKept, At
<1>9. \A q \in Request : At(q, "secret", "set")' => shown' \subseteq since'[q]
  <2>1. ASSUME NEW q \in Request, At(q, "secret", "set")'
        PROVE  q # r /\ At(q, "secret", "set")
    BY <1>2, <2>1 DEF At, OthersKept
  <2> QED BY <1>1, <1>4, <2>1 DEF RowInv, SecretInv, At
<1> QED BY <1>1, <1>3, <1>6, <1>8, <1>9 DEF RowInv, SecretInv

LEMMA SecretEnsureStep == TypeInv /\ RowInv => \A r \in Request : EnsureSecret(r) => RowInv'
<1> SUFFICES ASSUME TypeInv, RowInv, NEW r \in Request, EnsureSecret(r) PROVE RowInv'
  OBVIOUS
<1>1. /\ At(r, "secret", "in") /\ UNCHANGED <<merchant, since, asked>>
      /\ \/ merchant.secret = None /\ Goto(r, "set") /\ shown' = shown
         \/ merchant.secret # None /\ Finish(r, "done") /\ shown' = shown \union {merchant.secret}
  BY DEF EnsureSecret
<1>2. OthersKept(r) /\ task'[r].op = "secret" /\ task'[r].step \in {"set", "done"}
  BY <1>1, FinishMove, GotoMove DEF At, Ended, Steps
<1>3. shown' = shown /\ (task'[r].step = "set" => merchant.secret = None)
  <2>1. merchant.secret # None => merchant.secret \in shown
    BY DEF RowInv, SecretInv
  <2>2. CASE merchant.secret # None /\ Finish(r, "done")
    BY <1>1, <2>1, <2>2, FinishMove DEF Ended
  <2> QED BY <1>1, <2>2
<1>4. \A f \in Field : Undone(f) => Undone(f)'
  BY <1>1, <1>2 DEF Undone, UndoneBy, At, OthersKept
<1>5. EditInv'
  BY <1>1, <1>2, <1>4 DEF RowInv, EditInv, At, OthersKept
<1>6. SecretKept'
  <2>1. SecretKept
    BY DEF RowInv, SecretInv
  <2> QED BY <1>1, <1>2, <1>3, <2>1 DEF SecretKept, At, OthersKept
<1>7. SecretInv'
  BY <1>1, <1>2, <1>3, <1>6 DEF RowInv, SecretInv, At, OthersKept
<1> QED BY <1>5, <1>7 DEF RowInv

LEMMA RowStep == TypeInv /\ RowInv /\ [Next]_vars => RowInv'
<1> SUFFICES ASSUME TypeInv, RowInv, [Next]_vars PROVE RowInv'
  OBVIOUS
<1>1. CASE UNCHANGED vars \/ Tick
  <2>1. UNCHANGED <<profileVars, task>>
    BY <1>1 DEF vars, Tick
  <2> QED BY <2>1 DEF profileVars, RowInv, EditInv, SecretInv, SecretKept, Undone, UndoneBy, At
<1>2. CASE SetMerchantActive
  <2>1. /\ UNCHANGED <<since, asked, shown, task>>
        /\ merchant'.secret = merchant.secret /\ merchant'.columns = merchant.columns
    BY <1>2 DEF SetMerchantActive, TypeInv, TypeOK
  <2> QED BY <2>1 DEF RowInv, EditInv, SecretInv, SecretKept, Undone, UndoneBy, At
<1>3. ASSUME NEW r \in Request, Start(r) PROVE RowInv'
  <2>1. UNCHANGED profileVars
    BY <1>3, StartFrame DEF rows
  <2>2. OthersKept(r) /\ task[r].step = "new" /\ task'[r].step \in Starting
    BY <1>3, StartMove
  <2> QED BY <2>1, <2>2, RowAside DEF Starting, At
<1>4. ASSUME NEW r \in Request, Quiet(r), ~ReadProfile(r) PROVE RowInv'
  <2>1. UNCHANGED profileVars
    BY <1>4, QuietFrame DEF rows
  <2>2. Moved(r)
    BY <1>4, Moves
  <2>3. ~At(r, "edit", "write")' /\ ~At(r, "secret", "set")'
    BY <1>4, <2>2 DEF Quiet, EnterMerchant, Answer, VerifyPassword, StampRevocation,
       UpsertReadMerchant, Authenticate, CheckUser, At, Moved, Edge, Ended
  <2>4. task[r].step # "done"
    BY <2>2 DEF Moved, Edge, Ended
  <2> QED BY <2>1, <2>2, <2>3, <2>4, RowAside DEF Moved
<1>5. ASSUME NEW r \in Request, Writes(r),
             ~(WriteProfile(r) \/ EnsureSecret(r) \/ SetWebhookSecret(r))
      PROVE  RowInv'
  <2>1. UNCHANGED profileVars
    BY <1>5 DEF Writes, Mint, UpdatePasswordHash, RevokeSessions, Fail, DeleteByMerchantAndName,
       CreateKey, DeleteKey, InsertMerchant, InsertOwner, InsertOwnerUnheard, DeleteMerchant,
       UpdateEmail
  <2>2. Moved(r)
    BY <1>5, Moves
  <2>3. task'[r].step = "failed" \/ task[r].op \notin {"edit", "secret"}
    <3>1. Fail(r) => task'[r].step = "failed"
      BY DEF Fail, TypeInv, TasksPlaced, Tasks
    <3> QED BY <1>5, <3>1 DEF Writes, Mint, UpdatePasswordHash, RevokeSessions,
         DeleteByMerchantAndName, CreateKey, DeleteKey, InsertMerchant, InsertOwner,
         InsertOwnerUnheard, DeleteMerchant, UpdateEmail, At
  <2>4. task[r].step # "done"
    BY <2>2 DEF Moved, Edge, Ended
  <2> QED BY <2>1, <2>2, <2>3, <2>4, RowAside DEF Moved, At
<1>6. TypeOK
  BY DEF TypeInv
<1> QED BY <1>1, <1>2, <1>3, <1>4, <1>5, <1>6, ReadRow, WriteRowStep, SecretSetStep,
        SecretEnsureStep, StepCases

\* A column differs from what was last asked for only when an edit that had
\* read the row before that was written after it.
THEOREM OnlyOverlapsUndoProfile == Spec => []EditKept
<1>1. RowInv => EditKept
  BY DEF RowInv, EditInv, Undone, UndoneBy, EditKept
<1> QED BY <1>1, TypeStart, TypeStep, RowStart, RowStep, PTL DEF Spec

\* A webhook secret that was handed out is replaced only on request, or by a
\* first use that had read the row before it was stored.
THEOREM SecretsAreKept == Spec => []SecretKept
<1>1. RowInv => SecretKept
  BY DEF RowInv, SecretInv
<1> QED BY <1>1, TypeStart, TypeStep, RowStart, RowStep, PTL DEF Spec

-----------------------------------------------------------------------------
(* Registration.                                                           *)

HasOwner(i) == \E o \in owners : o.merchant = i
IsMerchant(i) == \E m \in merchants : m.id = i
UnderWay == {"owner", "rollback", "failed"}
\* The merchant of the start stays, with its user; one a registration works
\* on is there; and both halves of RegistrationWhole.
RegInv ==
    /\ HasOwner(None) /\ IsMerchant(None)
    /\ \A m \in merchants :
          HasOwner(m.id) \/ m.by = "create" \/ (m.id \in Request /\ task[m.id].step \in UnderWay)
    /\ \A o \in owners : IsMerchant(o.merchant)
    /\ \A r \in Request : task[r].step \in {"owner", "rollback"}
          => task[r].op = "register" /\ IsMerchant(r)

LEMMA RegAside ==
    ASSUME TypeInv, RegInv, UNCHANGED emailVars, NEW r \in Request, OthersKept(r),
           task[r].step \in UnderWay => task'[r].step \in UnderWay,
           task'[r].step \notin {"owner", "rollback"}
    PROVE  RegInv'
<1>1. /\ \A i : HasOwner(i)' = HasOwner(i)
      /\ \A i : IsMerchant(i)' = IsMerchant(i)
      /\ merchants' = merchants /\ owners' = owners
  BY DEF emailVars, HasOwner, IsMerchant
<1> QED BY <1>1 DEF RegInv, OthersKept

LEMMA RegStep == TypeInv /\ RegInv /\ [Next]_vars => RegInv'
<1> SUFFICES ASSUME TypeInv, RegInv, [Next]_vars PROVE RegInv'
  OBVIOUS
<1>0. None \notin Request
  BY AccountsAssumption
<1>1. CASE UNCHANGED vars \/ SetMerchantActive \/ Tick
  <2>1. UNCHANGED <<merchants, owners, task>>
    BY <1>1 DEF vars, SetMerchantActive, Tick, emailVars
  <2> QED BY <2>1 DEF RegInv, HasOwner, IsMerchant
<1>2. ASSUME NEW r \in Request, Start(r) PROVE RegInv'
  <2>1. UNCHANGED emailVars
    BY <1>2, StartFrame DEF rows
  <2>2. OthersKept(r) /\ task[r].step = "new" /\ task'[r].step \in Starting
    BY <1>2, StartMove
  <2> QED BY <2>1, <2>2, RegAside DEF Starting, UnderWay
<1>3. ASSUME NEW r \in Request, Moved(r), UNCHANGED emailVars,
             ~(task[r].op = "register" /\ task[r].step \in {"insert", "owner", "rollback"})
                 \/ task'[r].step = "failed"
      PROVE  RegInv'
  <2>1. task'[r].step \notin {"owner", "rollback"} /\ task[r].step \notin Ended \union {"new"}
    BY <1>3 DEF Moved, Edge, Ended
  <2>2. task[r].step \in UnderWay => task'[r].step \in UnderWay
    BY <1>3, <2>1 DEF UnderWay, Ended, RegInv
  <2> QED BY <1>3, <2>1, <2>2, RegAside DEF Moved
<1>4. ASSUME NEW r \in Request, Quiet(r) PROVE RegInv'
  <2>1. UNCHANGED emailVars /\ Moved(r)
    BY <1>4, QuietFrame, Moves DEF rows
  <2>2. ~(task[r].op = "register" /\ task[r].step \in {"insert", "owner", "rollback"})
    BY <1>4 DEF Quiet, EnterMerchant, Answer, VerifyPassword, StampRevocation, UpsertReadMerchant,
       Authenticate, ReadProfile, CheckUser, At
  <2> QED BY <1>3, <2>1, <2>2
<1>5. ASSUME NEW r \in Request, Writes(r),
             ~(InsertMerchant(r) \/ InsertOwner(r) \/ InsertOwnerUnheard(r) \/ DeleteMerchant(r)
                 \/ UpdateEmail(r))
      PROVE  RegInv'
  <2>1. UNCHANGED emailVars
    BY <1>5 DEF Writes, Mint, UpdatePasswordHash, RevokeSessions, Fail, DeleteByMerchantAndName,
       CreateKey, DeleteKey, WriteProfile, EnsureSecret, SetWebhookSecret
  <2>2. Moved(r)
    BY <1>5, Moves
  <2>3. task'[r].step = "failed" \/ task[r].op # "register"
    <3>1. Fail(r) => task'[r].step = "failed"
      BY DEF Fail, TypeInv, TasksPlaced, Tasks
    <3> QED BY <1>5, <3>1 DEF Writes, Mint, UpdatePasswordHash, RevokeSessions,
         DeleteByMerchantAndName, CreateKey, DeleteKey, WriteProfile, EnsureSecret,
         SetWebhookSecret, At
  <2> QED BY <1>3, <2>1, <2>2, <2>3
<1>6. ASSUME NEW r \in Request, Writes(r), InsertMerchant(r) PROVE RegInv'
  <2> DEFINE new == [id |-> r, email |-> task[r].target, by |-> task[r].op]
  <2>1. /\ owners' = owners /\ task[r].op \in {"register", "create"} /\ task[r].step = "insert"
        /\ \/ merchants' = merchants /\ task'[r].step = "refused"
           \/ /\ merchants' = merchants \union {new}
              /\ task[r].op = "register" => task'[r].step = "owner"
              /\ task[r].op = "create" => task'[r].step = "done"
    BY <1>6, FinishMove, GotoMove DEF InsertMerchant, Ended, Steps
  <2>2. OthersKept(r) /\ task'[r].op = task[r].op
    BY <1>6, Moves DEF Moved
  <2>3. /\ \A i : HasOwner(i)' = HasOwner(i)
        /\ \A i : IsMerchant(i) => IsMerchant(i)'
        /\ merchants' = merchants \union {new} => IsMerchant(r)'
    <3>1. new.id = r
      OBVIOUS
    <3> HIDE DEF new
    <3> QED BY <2>1, <3>1 DEF HasOwner, IsMerchant
  <2>4. task[r].step \notin UnderWay
    BY <2>1 DEF UnderWay
  <2>5. ASSUME NEW m \in merchants'
        PROVE  HasOwner(m.id)' \/ m.by = "create" \/ (m.id \in Request /\ task'[m.id].step \in UnderWay)
    <3>1. CASE m \in merchants
      BY <2>2, <2>3, <2>4, <3>1 DEF RegInv, OthersKept
    <3>2. CASE m \notin merchants
      BY <2>1, <3>2 DEF UnderWay
    <3> QED BY <3>1, <3>2
  <2>6. \A q \in Request : task'[q].step \in {"owner", "rollback"}
            => task'[q].op = "register" /\ IsMerchant(q)'
    BY <2>1, <2>2, <2>3 DEF RegInv, OthersKept
  <2> QED BY <2>1, <2>3, <2>5, <2>6 DEF RegInv
<1>7. ASSUME NEW r \in Request, Writes(r), InsertOwner(r) \/ InsertOwnerUnheard(r) PROVE RegInv'
  <2> DEFINE new == [merchant |-> r, email |-> task[r].target]
  <2>1. /\ merchants' = merchants /\ At(r, "register", "owner")
        /\ \/ owners' = owners /\ task'[r].step = "rollback"
           \/ owners' = owners \union {new} /\ task'[r].step \in {"done", "rollback"}
    BY <1>7, FinishMove, GotoMove DEF InsertOwner, InsertOwnerUnheard, At, Ended, Steps
  <2>2. OthersKept(r) /\ task'[r].op = "register"
    BY <1>7, <2>1, Moves DEF Moved, At
  <2>3. /\ \A i : HasOwner(i) => HasOwner(i)'
        /\ \A i : IsMerchant(i)' = IsMerchant(i)
        /\ task'[r].step # "rollback" => HasOwner(r)'
        /\ IsMerchant(r)
    <3>1. new.merchant = r
      OBVIOUS
    <3> HIDE DEF new
    <3>2. IsMerchant(r)
      BY <2>1 DEF RegInv, At
    <3> QED BY <2>1, <3>1, <3>2 DEF HasOwner, IsMerchant
  <2>4. ASSUME NEW m \in merchants
        PROVE  HasOwner(m.id)' \/ m.by = "create" \/ (m.id \in Request /\ task'[m.id].step \in UnderWay)
    <3>1. CASE m.id = r
      BY <2>1, <2>3, <3>1 DEF UnderWay
    <3>2. CASE m.id # r
      BY <2>2, <2>3, <3>2 DEF RegInv, OthersKept
    <3> QED BY <3>1, <3>2
  <2>5. \A o \in owners' : IsMerchant(o.merchant)'
    BY <2>1, <2>3 DEF RegInv
  <2>6. \A q \in Request : task'[q].step \in {"owner", "rollback"}
            => task'[q].op = "register" /\ IsMerchant(q)'
    BY <2>2, <2>3 DEF RegInv, OthersKept
  <2> QED BY <2>1, <2>3, <2>4, <2>5, <2>6 DEF RegInv
<1>8. ASSUME NEW r \in Request, Writes(r), DeleteMerchant(r) PROVE RegInv'
  <2>1. /\ merchants' = {m \in merchants : m.id # r} /\ owners' = {o \in owners : o.merchant # r}
        /\ task'[r].step = "refused"
    BY <1>8, FinishMove DEF DeleteMerchant, Ended
  <2>2. OthersKept(r)
    BY <1>8, Moves DEF Moved
  <2>3. \A i : i # r => HasOwner(i)' = HasOwner(i) /\ IsMerchant(i)' = IsMerchant(i)
    BY <2>1 DEF HasOwner, IsMerchant
  <2>4. \A m \in merchants' : HasOwner(m.id)' \/ m.by = "create"
            \/ (m.id \in Request /\ task'[m.id].step \in UnderWay)
    BY <2>1, <2>2, <2>3 DEF RegInv, OthersKept
  <2>5. \A o \in owners' : IsMerchant(o.merchant)'
    BY <2>1, <2>3 DEF RegInv
  <2>6. \A q \in Request : task'[q].step \in {"owner", "rollback"}
            => task'[q].op = "register" /\ IsMerchant(q)'
    BY <2>1, <2>2, <2>3 DEF RegInv, OthersKept
  <2> QED BY <1>0, <2>3, <2>4, <2>5, <2>6 DEF RegInv
<1>9. ASSUME NEW r \in Request, Writes(r), UpdateEmail(r) PROVE RegInv'
  <2> DEFINE new == [merchant |-> None, email |-> task[r].target]
  <2>1. /\ merchants' = merchants /\ At(r, "email", "in")
        /\ \/ owners' = owners
           \/ owners' = {o \in owners : o.merchant # None} \union {new}
    BY <1>9 DEF UpdateEmail
  <2>2. OthersKept(r) /\ task'[r].step \in Ended /\ task[r].step \notin UnderWay
    BY <1>9, <2>1, Moves DEF Moved, Edge, At, UnderWay, Ended
  <2>3. /\ \A i : HasOwner(i) => HasOwner(i)'
        /\ \A i : IsMerchant(i)' = IsMerchant(i)
    <3>1. new.merchant = None
      OBVIOUS
    <3> HIDE DEF new
    <3> QED BY <2>1, <3>1 DEF HasOwner, IsMerchant
  <2>4. \A m \in merchants' : HasOwner(m.id)' \/ m.by = "create"
            \/ (m.id \in Request /\ task'[m.id].step \in UnderWay)
    BY <2>1, <2>2, <2>3 DEF RegInv, OthersKept
  <2>5. \A o \in owners' : IsMerchant(o.merchant)'
    BY <2>1, <2>3 DEF RegInv
  <2>6. \A q \in Request : task'[q].step \in {"owner", "rollback"}
            => task'[q].op = "register" /\ IsMerchant(q)'
    BY <2>2, <2>3 DEF RegInv, OthersKept, Ended
  <2> QED BY <2>3, <2>4, <2>5, <2>6 DEF RegInv
<1>10. TypeOK
  BY DEF TypeInv
<1> QED BY <1>1, <1>2, <1>4, <1>5, <1>6, <1>7, <1>8, <1>9, <1>10, StepCases

LEMMA RegStart == Init => RegInv
<1> SUFFICES ASSUME Init PROVE RegInv
  OBVIOUS
<1>1. HasOwner(None) /\ IsMerchant(None)
  BY DEF Init, HasOwner, IsMerchant
<1>2. \A m \in merchants : m.id = None
  BY DEF Init
<1>3. \A o \in owners : o.merchant = None
  BY DEF Init
<1>4. \A r \in Request : task[r].step = "new"
  BY DEF Init, Unborn
<1> QED BY <1>1, <1>2, <1>3, <1>4 DEF RegInv

\* A merchant without an owner is an admin's, or a registration is at work on
\* it or failed before it could undo it; an owner always has its merchant.
THEOREM RegistrationsAreWhole == Spec => []RegistrationWhole
<1>1. RegInv => RegistrationWhole
  BY DEF RegInv, HasOwner, IsMerchant, UnderWay, RegistrationWhole
<1> QED BY <1>1, TypeStart, TypeStep, RegStart, RegStep, PTL DEF Spec
=============================================================================
