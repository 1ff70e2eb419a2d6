------------------------ MODULE PaymentSettlementMC ------------------------
(***************************************************************************)
(* Instances of PaymentSettlement small enough for TLC.                    *)
(***************************************************************************)
EXTENDS PaymentSettlement, TLC

CONSTANTS h1, h2

\* The merchant bears the fee; the customer bears it; nothing is left after
\* the fee (it outlives the clock); the mock provider.
Customary == [env |-> "production", amount |-> 3, fee |-> 0, lifetime |-> 1]
OnTop     == [env |-> "production", amount |-> 3, fee |-> 1, lifetime |-> 1]
Tiny      == [env |-> "production", amount |-> 1, fee |-> 0, lifetime |-> 2]
Mock      == [env |-> "sandbox", amount |-> 2, fee |-> 0, lifetime |-> 1]

\* A deadline within the tick of the creation.
Brief     == [env |-> "production", amount |-> 3, fee |-> 0, lifetime |-> 0]

EveryRequest == {OnTop, Tiny, Mock}
OneRequest == {Customary}
BriefRequest == {Brief}

Handlers == Permutations({h1, h2})
=============================================================================
