----------------------------- MODULE AccountsMC -----------------------------
EXTENDS Accounts, TLC

CONSTANTS user, admin, sandbox, production, name, url, e1, e2

Mix(ops, who) == [ops |-> ops, who |-> who]
\* Sessions of a user, by time and by the merchant's status, and of an admin;
\* keys; the row; registration.
MixesValue == {
    Mix({"login", "logout", "password", "tick"}, {user}),
    Mix({"login", "visit", "password", "switch"}, {user}),
    Mix({"login", "visit", "logout", "password", "tick"}, {admin}),
    Mix({"api", "rotate", "revoke", "password", "switch"}, {user, admin}),
    Mix({"edit", "secret", "resecret", "switch", "visit"}, {user, admin}),
    Mix({"register", "create", "email"}, {user})}

Requests == Permutations(Request)
=============================================================================
