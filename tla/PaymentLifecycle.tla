-------------------------- MODULE PaymentLifecycle --------------------------
(***************************************************************************)
(* What the aggregator promises about one payment, with none of the        *)
(* webhooks, jobs, snapshots and crashes that keep the promise.  A payment *)
(* moves along the transition table of internal/domain/payment/payment.go, *)
(* it becomes paid only once the provider holds the customer's money, and  *)
(* the merchant's claim on it rises and falls in the same step as the      *)
(* status does.                                                            *)
(***************************************************************************)
EXTENDS Naturals

CONSTANT Payment       \* identifiers of payments

VARIABLES
    status,    \* status[p], "absent" until the payment is stored
    settled,   \* payments for which the provider confirms the asked amount
    share,     \* share[p]: the ledger credit the merchant is due once p is paid
    claim      \* claim[p]: what the ledger currently holds for p

vars == <<status, settled, share, claim>>

(* The statuses a payment may leave for newStatus (AllowedSourceStatuses). *)
AllowedSources(newStatus) ==
    CASE newStatus = "paid"                                 -> {"pending", "expired"}
      [] newStatus \in {"expired", "failed", "cancelled"}   -> {"pending"}
      [] newStatus = "refunded"                             -> {"paid"}
      [] OTHER                                              -> {}

Init ==
    /\ status = [p \in Payment |-> "absent"]
    /\ settled = {}
    /\ share = [p \in Payment |-> 0]
    /\ claim = [p \in Payment |-> 0]

Create(p) ==
    /\ status[p] = "absent"
    /\ status' = [status EXCEPT ![p] = "pending"]
    /\ share' \in [Payment -> Nat]
    /\ \A q \in Payment \ {p} : share'[q] = share[q]
    /\ UNCHANGED <<settled, claim>>

Collect(p) ==
    /\ status[p] # "absent"
    /\ settled' = settled \union {p}
    /\ UNCHANGED <<status, share, claim>>

Expire(p) ==
    /\ status[p] \in AllowedSources("expired")
    /\ status' = [status EXCEPT ![p] = "expired"]
    /\ UNCHANGED <<settled, share, claim>>

Settle(p) ==
    /\ p \in settled
    /\ status[p] \in AllowedSources("paid")
    /\ status' = [status EXCEPT ![p] = "paid"]
    /\ claim' = [claim EXCEPT ![p] = share[p]]
    /\ UNCHANGED <<settled, share>>

(* A refund takes from the claim; the one that empties it is final. *)
Refund(p) ==
    /\ status[p] = "paid"
    /\ \E amount \in 1 .. claim[p] :
          /\ claim' = [claim EXCEPT ![p] = @ - amount]
          /\ status' = IF amount = claim[p]
                       THEN [status EXCEPT ![p] = "refunded"]
                       ELSE status
    /\ UNCHANGED <<settled, share>>

Next == \E p \in Payment :
           Create(p) \/ Collect(p) \/ Expire(p) \/ Settle(p) \/ Refund(p)

Spec == Init /\ [][Next]_vars
=============================================================================
