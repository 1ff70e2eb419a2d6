------------------------------ MODULE Accounts ------------------------------
(***************************************************************************)
(* Sessions, API keys, the merchant's row and registration over the same   *)
(* rows, and what holds of them whatever the order of the statements.      *)
(***************************************************************************)
EXTENDS ApiKeys, MerchantProfile, Registration

Next == SessionNext \/ ApiKeyNext \/ ProfileNext \/ RegistrationNext
Spec == Init /\ [][Next]_vars

-----------------------------------------------------------------------------
Names == Request \union {None}
Tokens == [who : Account, minted : 0 .. MaxTime, password : Names]
Steps == {"new", "merchant", "mint", "in", "verified", "store", "delete", "create", "write",
          "set", "user", "insert", "owner", "rollback", "done", "refused", "failed"}
Rows == [active : BOOLEAN, columns : [Field -> Names]]
Tasks == [op : Ops \union {"none"}, step : Steps, who : Account \union {None},
          token : Tokens \union {None}, password : Names,
          target : Env \union Field \union Email \union Names,
          row : Rows \union {None}, stamp : 0 .. MaxTime]

\* The rows, the requests and the history stay within their columns.
TypeOK ==
    /\ mix \in Mixes
    /\ now \in 0 .. MaxTime
    /\ accounts \in [Account -> [password : Names, validAfter : 0 .. MaxTime]]
    /\ merchant \in [active : BOOLEAN, secret : Names, columns : [Field -> Names]]
    /\ tokens \subseteq Tokens
    /\ keys \subseteq [id : Names, env : Env]
    /\ merchants \subseteq [id : Names, email : Email, by : {"register", "create"}]
    /\ owners \subseteq [merchant : Names, email : Email]
    /\ task \in [Request -> Tasks]
    /\ cut \in [Account -> 0 .. MaxTime]
    /\ undone \subseteq Account
    /\ switches \in 0 .. MaxSwitches
    /\ barred \subseteq Request
    /\ {deleted, overlapped} \subseteq SUBSET Env
    /\ since \in [Request -> SUBSET Request]
    /\ asked \in [Field -> Names]
    /\ shown \subseteq Request

-----------------------------------------------------------------------------
Presents(r) == task[r].step = "new" /\ task'[r].token # None

\* A logout or a change of password ends every session of an earlier second:
\* no request gets past the check of its account's row with such a token, in
\* whatever order stamps are taken and written, unless an older stamp has
\* since been written over the later one (two revocations at once).
SessionEnds == [][\A r \in Request :
    Presents(r) /\ task'[r].step # "refused" =>
        LET t == task'[r].token
        IN t.minted >= Sec(cut[t.who]) \/ t.who \in undone]_vars

\* A session opened after every revocation so far is not taken for a revoked
\* one, in the same second as the revocation too.
FreshSessionWorks == [][\A r \in Request :
    Presents(r) /\ task'[r].step = "refused" =>
        LET t == task'[r].token IN t.minted < cut[t.who]]_vars

\* While the merchant stays inactive none of the calls begun since gets
\* through: no login hands out a token, no request of the merchant's dashboard
\* and no API call is let in, no API key is stored, for an admin either.
DeactivationHolds == \A r \in barred :
    /\ task[r].step \notin {"mint", "store", "delete", "create", "write", "set", "done"}
    /\ task[r].who \in Admin \/ task[r].step # "in"

\* One live key per environment, unless two of its rotations overlapped.
SoleKey == \A e \in Env \ overlapped : \A k, l \in KeysOf(e) : k = l

\* An environment loses its key only by a deletion, or for the time of a
\* rotation, or for good when that rotation fails halfway.
KeyKept == \A e \in Env : KeysOf(e) = {} => Replacing(e) # {} \/ e \in deleted

\* A column holds what the last edit that asked for it put there, unless an
\* edit of other columns that read the row earlier wrote it back later.
EditKept == \A f \in Field :
    merchant.columns[f] # asked[f] =>
        \E q \in Request : At(q, "edit", "done") /\ asked[f] \in since[q]

\* A webhook secret somebody was given stays the merchant's, unless a new one
\* was asked for, or another first use had read the row before it was stored.
SecretKept == \A s \in shown :
    merchant.secret # s =>
        \E q \in Request : /\ At(q, "secret", "done") \/ At(q, "resecret", "done")
                           /\ s \in since[q]

\* A registration leaves a merchant and its owner, or nothing: a merchant
\* without an owner is an admin's, or a registration is still at work on it
\* or was cut short before it could undo it; an owner has its merchant.
RegistrationWhole ==
    /\ \A m \in merchants :
          (\E o \in owners : o.merchant = m.id) \/ m.by = "create"
             \/ task[m.id].step \in {"owner", "rollback", "failed"}
    /\ \A o \in owners : \E m \in merchants : m.id = o.merchant
=============================================================================
