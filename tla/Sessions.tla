------------------------------ MODULE Sessions ------------------------------
(***************************************************************************)
(* Logins, the checks every dashboard request passes, and what takes a     *)
(* session away: logout, a change of the password, the merchant's status,  *)
(* the token's age.  AuthService and AuthMiddleware.                       *)
(***************************************************************************)
EXTENDS AccountRows

\* Slip: the cutoff is not truncated as iat is.
revokedToTheTick(t) == Iat(t) < accounts[t.who].validAfter
sessionRevoked(t) == Iat(t) < Sec(accounts[t.who].validAfter)

\* A call on behalf of the merchant that found the merchant inactive.
BarMerchantCall(r, isMerchants) ==
    /\ barred' = IF isMerchants /\ ~merchant.active THEN barred \union {r} ELSE barred
    /\ UNCHANGED switches

-----------------------------------------------------------------------------
(* LoginMerchant and LoginAdmin.                                           *)

\* The account's row is read; with its password the caller will pass, so a
\* wrong one, refused after these reads and without effect, is left out.
Login(r, a) ==
    /\ task[r].step = "new"
    /\ "login" \in mix.ops /\ a \in mix.who
    /\ task' = [task EXCEPT ![r] = [Unborn EXCEPT
          !.op = "login", !.who = a, !.password = accounts[a].password,
          !.step = IF a \in MerchantUser THEN "merchant" ELSE "mint"]]
    /\ BarMerchantCall(r, a \in MerchantUser)
    /\ UNCHANGED <<now, sessionVars, keyVars, profileVars, emailVars, mix>>

LoginMerchant(r) == \E a \in MerchantUser : Login(r, a)
LoginAdmin(r) == \E a \in Admin : Login(r, a)

Mint(r) ==
    /\ At(r, "login", "mint")
    /\ tokens' = tokens \union {Token(task[r].who, now, task[r].password)}
    /\ Finish(r, "done")
    /\ UNCHANGED <<now, accounts, cut, undone, statusVars, keyVars, profileVars, emailVars, mix>>

-----------------------------------------------------------------------------
(* RequireMerchant and RequireAdmin, in front of every dashboard route.    *)

TokensOf(A) == {t \in tokens : t.who \in A}

\* The token is parsed and its account's row read and checked.  The caller
\* also holds the account's password of this moment.
Enter(r, op, t, target) ==
    /\ task[r].step = "new"
    /\ op \in mix.ops
    /\ ~ Expired(t)
    /\ task' = [task EXCEPT ![r] = [Unborn EXCEPT
          !.op = op, !.who = t.who, !.token = t, !.target = target,
          !.password = accounts[t.who].password,
          !.step = IF sessionRevoked(t) THEN "refused"
                   ELSE IF t.who \in MerchantUser THEN "merchant" ELSE "in"]]
    /\ BarMerchantCall(r, t.who \in MerchantUser \/ op = "rotate")
    /\ UNCHANGED <<now, sessionVars, keyVars, profileVars, emailVars, mix>>

\* The parent merchant's row, read by a login and by every merchant request.
EnterMerchant(r) ==
    /\ task[r].step = "merchant"
    /\ task[r].op # "api"
    /\ IF merchant.active
       THEN Goto(r, IF task[r].op = "login" THEN "mint" ELSE "in")
       ELSE Finish(r, "refused")
    /\ UNCHANGED <<now, sessionVars, statusVars, keyVars, profileVars, emailVars, mix>>

\* What the two dashboards ask for about the session itself; a visit stands
\* for every route that only reads.
GetMerchantMe(r) == \E t \in TokensOf(MerchantUser) : Enter(r, "visit", t, None)
GetMe(r) == \E t \in TokensOf(Admin) : Enter(r, "visit", t, None)
LogoutMerchant(r) == \E t \in TokensOf(MerchantUser) : Enter(r, "logout", t, None)
LogoutAdmin(r) == \E t \in TokensOf(Admin) : Enter(r, "logout", t, None)
ChangeMerchantPassword(r) == \E t \in TokensOf(MerchantUser) : Enter(r, "password", t, None)
ChangePassword(r) == \E t \in TokensOf(Admin) : Enter(r, "password", t, None)

Answer(r) ==
    /\ At(r, "visit", "in")
    /\ Finish(r, "done")
    /\ UNCHANGED <<now, sessionVars, statusVars, keyVars, profileVars, emailVars, mix>>

\* VerifyMerchantPassword, VerifyAdminPassword, and the same check of a
\* change of the password: the row is read again.
VerifyPassword(r) ==
    /\ task[r].step = "in"
    /\ task[r].op \in {"password", "rotate", "revoke", "resecret"}
    /\ IF accounts[task[r].who].password = task[r].password
       THEN Goto(r, "verified") ELSE Finish(r, "refused")
    /\ UNCHANGED <<now, sessionVars, statusVars, keyVars, profileVars, emailVars, mix>>

-----------------------------------------------------------------------------
(* Revocation.                                                             *)

\* Slip: the cutoff is when the sessions would have expired anyway.
StampExpiry(r) ==
    /\ At(r, "logout", "in") \/ At(r, "password", "verified")
    /\ task' = [task EXCEPT ![r].step = "store", ![r].stamp = now + TokenTTL]
    /\ UNCHANGED <<now, sessionVars, statusVars, keyVars, profileVars, emailVars, mix>>

\* The stamp is the server's clock before the UPDATE is sent.
StampRevocation(r) ==
    /\ At(r, "logout", "in") \/ At(r, "password", "verified")
    /\ task' = [task EXCEPT ![r].step = "store", ![r].stamp = now]
    /\ UNCHANGED <<now, sessionVars, statusVars, keyVars, profileVars, emailVars, mix>>

Stamped(r) ==
    LET a == task[r].who
        stamp == task[r].stamp
    IN /\ cut' = [cut EXCEPT ![a] = IF stamp > @ THEN stamp ELSE @]
       /\ undone' = IF stamp < cut[a] THEN undone \union {a} ELSE undone \ {a}

\* Slip: a change of the password leaves the sessions alone.
UpdateHashOnly(r) ==
    /\ At(r, "password", "store")
    /\ accounts' = [accounts EXCEPT ![task[r].who].password = r]
    /\ Stamped(r)
    /\ Finish(r, "done")
    /\ UNCHANGED <<now, tokens, statusVars, keyVars, profileVars, emailVars, mix>>

UpdatePasswordHash(r) ==
    /\ At(r, "password", "store")
    /\ accounts' = [accounts EXCEPT ![task[r].who] =
                       [password |-> r, validAfter |-> task[r].stamp]]
    /\ Stamped(r)
    /\ Finish(r, "done")
    /\ UNCHANGED <<now, tokens, statusVars, keyVars, profileVars, emailVars, mix>>

RevokeSessions(r) ==
    /\ At(r, "logout", "store")
    /\ accounts' = [accounts EXCEPT ![task[r].who].validAfter = task[r].stamp]
    /\ Stamped(r)
    /\ Finish(r, "done")
    /\ UNCHANGED <<now, tokens, statusVars, keyVars, profileVars, emailVars, mix>>

\* An admin changes the merchant's status, by a single UPDATE of that column.
SetMerchantActive ==
    /\ "switch" \in mix.ops
    /\ switches < MaxSwitches
    /\ switches' = switches + 1
    /\ merchant' = [merchant EXCEPT !.active = ~ @]
    /\ barred' = IF merchant'.active THEN {} ELSE barred
    /\ UNCHANGED <<now, sessionVars, keyVars, since, asked, shown, emailVars, task, mix>>

-----------------------------------------------------------------------------
\* A statement fails, the caller goes away or the process stops: what the
\* request has stored stays, and nothing more of it is done.
Fail(r) ==
    /\ Running(r)
    /\ task' = [task EXCEPT ![r].step = "failed", ![r].token = None, ![r].row = None,
                            ![r].password = None, ![r].stamp = 0]
    /\ deleted' = IF At(r, "rotate", "create") THEN deleted \union {task[r].target} ELSE deleted
    /\ UNCHANGED <<now, sessionVars, statusVars, keys, overlapped, profileVars, emailVars, mix>>

Tick ==
    /\ "tick" \in mix.ops
    /\ now < MaxTime
    /\ now' = now + 1
    /\ UNCHANGED <<sessionVars, statusVars, keyVars, profileVars, emailVars, task, mix>>

SessionNext ==
    \/ \E r \in Request :
          \/ LoginMerchant(r) \/ LoginAdmin(r) \/ GetMerchantMe(r) \/ GetMe(r)
          \/ LogoutMerchant(r) \/ LogoutAdmin(r)
          \/ ChangeMerchantPassword(r) \/ ChangePassword(r)
          \/ EnterMerchant(r) \/ Mint(r) \/ Answer(r) \/ VerifyPassword(r)
          \/ StampRevocation(r) \/ UpdatePasswordHash(r) \/ RevokeSessions(r)
          \/ Fail(r)
    \/ SetMerchantActive
    \/ Tick
=============================================================================
