-------------------------------- MODULE Fee --------------------------------
(***************************************************************************)
(* The fee arithmetic of internal/fee/fee.go: what a customer is asked to  *)
(* pay when the fee is on top, and what a merchant keeps when it is not.   *)
(* Integers are unbounded here; MaxNominal keeps every product of the code *)
(* inside int64 (see FeeProofs).                                           *)
(***************************************************************************)
EXTENDS Integers

bpsDenominator == 10000
ProviderBasisPoints == 70

(* Integer division rounding up, as (a + b - 1) / b is written in the code. *)
CeilDiv(a, b) == (a + b - 1) \div b

(* MerchantNetBasisPoints: nominal minus the fee, the fee rounded up. *)
FeeOn(nominal, bps) == CeilDiv(nominal * bps, bpsDenominator)
MerchantNetBasisPoints(nominal, bps) == nominal - FeeOn(nominal, bps)

(* QuoteTotalBasisPoints: the total that leaves nominal after the fee. *)
QuoteTotalBasisPoints(nominal, bps) ==
    IF bps = 0 THEN nominal
               ELSE CeilDiv(nominal * bpsDenominator, bpsDenominator - bps)

(* Slip: the provider's fee is taken although it was taken before.         *)
merchantNetTwice(amount, feeAmount) ==
    IF feeAmount > 0
    THEN amount
    ELSE MerchantNetBasisPoints(amount, ProviderBasisPoints)
         - FeeOn(amount, ProviderBasisPoints)

(* merchantNetFor: a payment that carries a fee was paid for by the        *)
(* customer and nets its nominal; any other loses the provider's fee.      *)
merchantNetFor(amount, feeAmount) ==
    IF feeAmount > 0 THEN amount
                     ELSE MerchantNetBasisPoints(amount, ProviderBasisPoints)
=============================================================================
