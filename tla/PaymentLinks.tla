---------------------------- MODULE PaymentLinks ----------------------------
(***************************************************************************)
(* A merchant's payment link: created once with its amount, edited by a    *)
(* read and a write of the whole row, switched on and off, and read by     *)
(* every checkout, which is for what the row said when it was read.        *)
(***************************************************************************)
EXTENDS Integers

CONSTANTS
    Request,        \* HTTP calls (bounds the run)
    Amount,         \* amounts a caller may name, good and bad
    Deadline,       \* values of expires_at
    None,
    PlatformMin,    \* PlatformMinAmount
    PlatformMax     \* PlatformMaxAmount

ASSUME LinksAssumption ==
    /\ Amount \subseteq Int /\ Deadline \subseteq Nat
    /\ None \notin Amount \union Deadline \union Request
    /\ {PlatformMin, PlatformMax} \subseteq Nat \ {0} /\ PlatformMin <= PlatformMax

VARIABLES
    link,      \* the row, or None
    \* history
    asked,     \* asked[c]: the last value asked for of a column, and who asked
    since      \* since[r]: requests that wrote the row between r's read and its write

linkVars == <<link, asked, since>>

Columns == {"active", "expires", "min", "max"}
Bound == Amount \union {None}
Link == [amount : Bound, min : Bound, max : Bound, active : BOOLEAN,
         expires : Deadline \union {None}, env : {"sandbox", "production"}]
ASSUME NoneIsNoLink == None \notin Link
Values(c) == CASE c = "active" -> BOOLEAN
               [] c = "expires" -> Deadline
               [] OTHER -> Amount

Within(a) == a # None => PlatformMin <= a /\ a <= PlatformMax
Ordered(l) == l.min # None /\ l.max # None => l.min <= l.max
\* CreatePaymentLinkRequest.Validate; no amount is an open link.
Valid(l) == Within(l.amount) /\ Within(l.min) /\ Within(l.max) /\ Ordered(l)

\* Slip: the deadline is not looked at.
availableIfActive(l, at) == l.active
IsAvailable(l, at) == l.active /\ (l.expires = None \/ at <= l.expires)
\* EffectiveBounds: a link's bound may only narrow the platform's.
EffectiveBounds(l) ==
    [min |-> IF l.min # None /\ l.min > PlatformMin THEN l.min ELSE PlatformMin,
     max |-> IF l.max # None /\ l.max < PlatformMax THEN l.max ELSE PlatformMax]
\* What a checkout that names a is for, if it is accepted: the nominal.
Accepts(l, a) == l.amount # None
    \/ (a > 0 /\ EffectiveBounds(l).min <= a /\ a <= EffectiveBounds(l).max)
Nominal(l, a) == IF l.amount # None THEN l.amount ELSE a

-----------------------------------------------------------------------------
LinkInit ==
    /\ link = None
    /\ asked = [c \in Columns |-> [by |-> None, value |-> None]]
    /\ since = [r \in Request |-> {}]

Ask(r, c, v) == asked' = [asked EXCEPT ![c] = [by |-> r, value |-> v]]
Written(r, reading) ==
    since' = [q \in Request |-> IF q \in reading \ {r} THEN since[q] \union {r} ELSE since[q]]

\* CreateLink.
CreateLink(l) ==
    /\ link = None
    /\ Valid(l)
    /\ l.active
    /\ link' = l
    /\ asked' = [c \in Columns |-> [by |-> None, value |-> l[c]]]
    /\ UNCHANGED since

\* Slip: a column the request leaves out goes back to its default.
WriteAskedOnly(r, row, c, v, reading) ==
    /\ link' = [[link EXCEPT !.active = TRUE, !.expires = None] EXCEPT ![c] = v]
    /\ Ask(r, c, v)
    /\ Written(r, reading)

\* UpdateLink, from the row it read: one column replaced, all written.
WriteLink(r, row, c, v, reading) ==
    /\ link' = [row EXCEPT ![c] = v]
    /\ Ask(r, c, v)
    /\ Written(r, reading)

\* SetActive: an UPDATE of that column alone.
SetActive(r, on, reading) ==
    /\ link' = [link EXCEPT !.active = on]
    /\ Ask(r, "active", on)
    /\ Written(r, reading)
=============================================================================
