------------------------------ MODULE Routing ------------------------------
(***************************************************************************)
(* Which providers a payment of the merchant may go to, and in which       *)
(* order: the merchant's provider configs, the platform's defaults, and    *)
(* the health an admin gives a provider in memory.                         *)
(***************************************************************************)
EXTENDS Integers, Sequences, FiniteSets

CONSTANTS
    Provider,     \* names a config may carry
    Sandbox,      \* the mock provider
    Defaults,     \* providers registered for the payment method, in order
    Priority,
    NoConfig

ASSUME RoutingAssumption ==
    /\ Sandbox \in Provider
    /\ Defaults \in Seq(Provider)
    /\ IsFiniteSet(Provider)

VARIABLES
    configs,      \* merchant_provider_configs of the merchant, by provider
    health        \* providers an admin has marked unhealthy

routingVars == <<configs, health>>

Registered == {Defaults[i] : i \in DOMAIN Defaults} \union {Sandbox}
Config == [enabled : BOOLEAN, priority : Priority, failover : BOOLEAN]

Eligible(p) == p \in Registered /\ p # Sandbox

\* The rows found at the start; some may be of providers that are not
\* registered any more, or of the mock.
RoutingInit(stored) ==
    /\ configs \in stored
    /\ health = {}

\* ListEnabledByMerchantAndPaymentMethod: the enabled ones by priority (ties,
\* which weight and age settle, in any order).
Enabled == {p \in Provider : configs[p] # NoConfig /\ configs[p].enabled}
EnabledOrders == {s \in [1 .. Cardinality(Enabled) -> Enabled] :
    \A i, j \in DOMAIN s : i < j => /\ s[i] # s[j]
                                    /\ configs[s[i]].priority <= configs[s[j]].priority}
Row(p) == [provider |-> p, failover |-> configs[p].failover]

\* Slip: a provider is used whatever its health.
UsableSick(p) == Eligible(p)
Usable(p) == Eligible(p) /\ p \notin health

\* The rows a payment may use, appended one by one in the order they come in.
UsableOnes(rows) ==
    LET upto[i \in 0 .. Len(rows)] ==
            IF i = 0 THEN <<>>
            ELSE IF Usable(rows[i].provider) THEN Append(upto[i - 1], rows[i]) ELSE upto[i - 1]
    IN upto[Len(rows)]

\* resolveProvidersForMerchant, from the rows it has read: none enabled, the
\* defaults with failover; of either, those that are registered, healthy and
\* not the mock.
Standard == [i \in DOMAIN Defaults |-> [provider |-> Defaults[i], failover |-> TRUE]]
Candidates(rows) == UsableOnes(IF rows = <<>> THEN Standard ELSE rows)

-----------------------------------------------------------------------------
\* UpsertMerchantProviderConfig: of registered providers, never of the mock.
UpsertConfig(p, c) ==
    /\ Eligible(p)
    /\ configs[p] # c
    /\ configs' = [configs EXCEPT ![p] = c]
    /\ UNCHANGED health

DeleteConfig(p) ==
    /\ configs[p] # NoConfig
    /\ configs' = [configs EXCEPT ![p] = NoConfig]
    /\ UNCHANGED health

\* UpdateProviderHealth, of a registered provider.
SetProviderHealth(p) ==
    /\ p \in Registered
    /\ health' = IF p \in health THEN health \ {p} ELSE health \union {p}
    /\ UNCHANGED configs
=============================================================================
