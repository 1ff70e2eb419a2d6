----------------------------- MODULE CheckoutMC -----------------------------
EXTENDS Checkout, TLC

CONSTANTS cashi, plain, other, gone, mock, ip1, ip2, proxy, garbled

DefaultsValue == <<mock, cashi, plain, other>>
\* Fees of their own, and one provider that cannot quote.
RateValue == [p \in Provider |-> CASE p = other -> 5000
                                   [] p = plain -> None
                                   [] OTHER -> ProviderBasisPoints]

\* Amounts are small numbers: 2 and 3 stand for the platform's limits.
Fixed == [amount |-> 3, min |-> None, max |-> None, active |-> TRUE,
          expires |-> None, env |-> "production"]
Dear == [Fixed EXCEPT !.amount = 5]
Mocked == [Fixed EXCEPT !.env = "sandbox"]
\* A sandbox link goes to the mock alone.
Donation == [Mocked EXCEPT !.amount = None]
Sale == [Mocked EXCEPT !.expires = 0]

First == [enabled |-> TRUE, priority |-> 1, failover |-> TRUE]
Second == [enabled |-> TRUE, priority |-> 2, failover |-> FALSE]
Off == [enabled |-> FALSE, priority |-> 1, failover |-> FALSE]
ChangesValue == {First, Off}

NoConfigs == [p \in Provider |-> NoConfig]
Left == [NoConfigs EXCEPT ![mock] = First, ![gone] = First, ![other] = Second]

Direct(ip) == [peer |-> ip, forwarded |-> <<>>]
Behind(f) == [peer |-> proxy, forwarded |-> f]
Mix(ops, until, routes, amounts, links, stored) ==
    [ops |-> ops, until |-> until, routes |-> routes, amounts |-> amounts,
     links |-> links, stored |-> stored]

\* A link under edits; routing under the admin's changes; failover under changes
\* of the fee bearer; the limiter; and a checkout that it turns away.
MixesValue == {
    Mix({"create", "checkout", "edit", "switch"}, 1, {Direct(ip1)}, {1, 3, 5},
        {Donation, Sale}, {NoConfigs}),
    Mix({"create", "checkout", "config"}, 0, {Direct(ip1)}, {3},
        {Fixed, Dear}, {NoConfigs, Left}),
    Mix({"create", "checkout", "bearer"}, 0, {Direct(ip1)}, {3},
        {Fixed, Mocked}, {NoConfigs, Left}),
    Mix({"visit"}, 12, {Direct(ip1), Behind(<<ip2, ip1, proxy>>), Behind(<<ip1, garbled>>)},
        {}, {}, {NoConfigs}),
    Mix({"visit", "checkout"}, 2, {Direct(ip1)}, {3}, {}, {NoConfigs})}

Requests == Permutations(Request)
=============================================================================
