----------------------------- MODULE AccountRows -----------------------------
(***************************************************************************)
(* The rows behind the dashboards: admins and merchant users, one merchant *)
(* with its API keys and its webhook secret, and the merchants and owners  *)
(* that registration adds.  A request is a goroutine that serves one HTTP  *)
(* call: one action per SQL statement, the requests interleaved between    *)
(* them.  What a request draws (a password, an API key, a secret, a name,  *)
(* a merchant id) is named by the request.                                 *)
(***************************************************************************)
EXTENDS Integers

CONSTANTS
    Request,        \* HTTP calls (bounds the run)
    MerchantUser,   \* dashboard users of the merchant
    Admin,
    Env,            \* sandbox and production
    Field,          \* columns of a merchant that an edit may ask for
    Email,
    Held,           \* the e-mail of the merchant and of its user at the start
    None,           \* what was there before any request; nothing
    Second,         \* ticks in a second
    TokenTTL,       \* merchantTokenTTL and adminTokenTTL
    MaxTime,        \* bounds the clock
    MaxSwitches,    \* bounds the changes of the merchant's status
    Mixes           \* which operations and accounts run together (bounds the run)

Account == MerchantUser \union Admin
Ops == {"login", "visit", "logout", "password", "api", "rotate", "revoke",
        "edit", "secret", "resecret", "register", "create", "email"}

ASSUME AccountsAssumption ==
    /\ None \notin Request \union Account \union Env \union Field \union Email
    /\ MerchantUser \intersect Admin = {}
    /\ Held \in Email
    /\ Second \in Nat \ {0}
    /\ {TokenTTL, MaxTime, MaxSwitches} \subseteq Nat
    /\ \A m \in Mixes : m.ops \subseteq Ops \union {"switch", "tick"} /\ m.who \subseteq Account

VARIABLES
    now,
    accounts,    \* admins and merchant_users: the password, and sessions_valid_after
                 \* (NULL is 0: no token is older)
    merchant,    \* the merchant's row: is_active, webhook_secret and the columns of Field
    tokens,      \* the JWTs handed out
    keys,        \* merchant_api_keys: the request that made the key, and its name
    merchants,   \* merchants by id and e-mail, with the operation that created them
    owners,      \* merchant_users by merchant and e-mail
    task,        \* where each request is
    mix,         \* the operations that run together
    \* history
    cut,         \* cut[a]: the latest stamp of a revocation of a's sessions
    undone,      \* accounts where an older stamp was written over a later one
    switches,
    barred,      \* merchant requests begun under an inactivity that still lasts
    deleted,     \* environments whose key was asked to be deleted, or lost to a failed rotation
    overlapped,  \* environments where two rotations overlapped
    since,       \* since[r]: requests that wrote the merchant's row between r's read and its
                 \* write; for a new secret, the secrets it was asked to replace
    asked,       \* asked[f]: the last edit that asked for f
    shown        \* webhook secrets handed out

sessionVars == <<accounts, tokens, cut, undone>>
statusVars == <<switches, barred>>
keyVars == <<keys, deleted, overlapped>>
profileVars == <<merchant, since, asked, shown>>
emailVars == <<merchants, owners>>
vars == <<now, sessionVars, statusVars, keyVars, profileVars, emailVars, task, mix>>

Token(a, minted, p) == [who |-> a, minted |-> minted, password |-> p]
\* iat and exp lose what is below a second (jwt.NewNumericDate).
Sec(t) == t - (t % Second)
Iat(token) == Sec(token.minted)
Expired(token) == now >= Sec(token.minted + TokenTTL)

Unborn == [op |-> "none", step |-> "new", who |-> None, token |-> None,
           password |-> None, target |-> None, row |-> None, stamp |-> 0]

At(r, op, step) == task[r].op = op /\ task[r].step = step
Goto(r, step) == task' = [task EXCEPT ![r].step = step]
Running(r) == task[r].step \notin {"new", "done", "refused", "failed"}
\* What a finished request leaves behind: what it was and what it was about.
Finish(r, step) == task' = [task EXCEPT ![r] =
    [Unborn EXCEPT !.op = task[r].op, !.step = step, !.target = task[r].target]]

Init ==
    /\ mix \in Mixes
    /\ now = 0
    /\ accounts = [a \in Account |-> [password |-> None, validAfter |-> 0]]
    /\ merchant = [active |-> TRUE, secret |-> None, columns |-> [f \in Field |-> None]]
    /\ tokens = {Token(a, 0, None) : a \in Account}
    /\ keys = [id : {None}, env : Env]
    /\ merchants = {[id |-> None, email |-> Held, by |-> "register"]}
    /\ owners = {[merchant |-> None, email |-> Held]}
    /\ task = [r \in Request |-> Unborn]
    /\ cut = [a \in Account |-> 0]
    /\ undone = {}
    /\ switches = 0
    /\ barred = {}
    /\ deleted = {}
    /\ overlapped = {}
    /\ since = [r \in Request |-> {}]
    /\ asked = [f \in Field |-> None]
    /\ shown = {}
=============================================================================
