----------------------------- MODULE FeeProofs -----------------------------
(***************************************************************************)
(* What the fee arithmetic of internal/fee/fee.go does for every nominal   *)
(* and every rate.                                                         *)
(***************************************************************************)
EXTENDS Fee, TLAPS

(* Rounding up never falls short and overshoots by less than one unit.     *)
LEMMA CeilDivBounds ==
    ASSUME NEW a \in Nat, NEW b \in Nat \ {0}
    PROVE  /\ CeilDiv(a, b) \in Nat
           /\ b * CeilDiv(a, b) >= a
           /\ b * CeilDiv(a, b) < a + b
<1> DEFINE n == a + b - 1
<1>1. n \in Nat /\ b \in Nat /\ b > 0
  OBVIOUS
<1>2. n \div b \in Nat /\ n % b \in 0 .. b - 1 /\ n = b * (n \div b) + (n % b)
  BY <1>1, SMTT(30)
<1>3. QED
  BY <1>1, <1>2, SMTT(30) DEF CeilDiv

(* The same for the denominator of basis points.                           *)
LEMMA BasisPointBounds ==
    \A a \in Nat : /\ CeilDiv(a, 10000) \in Nat
                   /\ 10000 * CeilDiv(a, 10000) >= a
                   /\ 10000 * CeilDiv(a, 10000) < a + 10000
<1>1. TAKE a \in Nat
<1>2. 10000 \in Nat \ {0}
  OBVIOUS
<1>3. QED
  BY <1>2, CeilDivBounds

(* The provider's fee on a total, rounded up to a whole unit.              *)
LEMMA FeeOnBounds ==
    ASSUME NEW t \in Nat, NEW bps \in Nat
    PROVE  /\ FeeOn(t, bps) \in Nat
           /\ 10000 * FeeOn(t, bps) >= t * bps
           /\ 10000 * FeeOn(t, bps) < t * bps + 10000
<1> DEFINE m == t * bps
<1>1. m \in Nat
  OBVIOUS
<1>2. FeeOn(t, bps) = CeilDiv(m, 10000)
  BY DEF FeeOn, bpsDenominator
<1> HIDE DEF m
<1>3. /\ FeeOn(t, bps) \in Nat
      /\ 10000 * FeeOn(t, bps) >= m
      /\ 10000 * FeeOn(t, bps) < m + 10000
  BY <1>1, <1>2, BasisPointBounds
<1>4. QED
  BY <1>3 DEF m

(* In particular it is a natural number.                                   *)
LEMMA FeeOnNatural ==
    ASSUME NEW t \in Nat, NEW bps \in Nat
    PROVE  FeeOn(t, bps) \in Nat
BY FeeOnBounds

(* A merchant who bears the provider's fee keeps something between nothing *)
(* and the nominal: the ledger is never credited a negative amount.        *)
THEOREM MerchantNetBounded ==
    ASSUME NEW nominal \in Nat \ {0}
    PROVE  /\ MerchantNetBasisPoints(nominal, ProviderBasisPoints) \in Nat
           /\ MerchantNetBasisPoints(nominal, ProviderBasisPoints) < nominal
<1> DEFINE feeDue == CeilDiv(nominal * 70, 10000)
<1>1. /\ feeDue \in Nat
      /\ 10000 * feeDue >= nominal * 70
      /\ 10000 * feeDue < nominal * 70 + 10000
  BY BasisPointBounds
<1>2. feeDue <= nominal /\ feeDue > 0
  BY <1>1
<1>3. QED
  BY <1>1, <1>2
  DEF MerchantNetBasisPoints, FeeOn, ProviderBasisPoints, bpsDenominator

(* merchantNetFor is a natural number whoever bears the fee.               *)
THEOREM NetIsNatural ==
    ASSUME NEW amount \in Nat \ {0}, NEW feeAmount \in Nat
    PROVE  merchantNetFor(amount, feeAmount) \in Nat
BY MerchantNetBounded DEF merchantNetFor

(* The closed form of QuoteTotalBasisPoints: the total leaves the merchant *)
(* the nominal after the provider has taken its rounded-up fee.            *)
THEOREM QuoteSuffices ==
    ASSUME NEW nominal \in Nat \ {0}, NEW bps \in 0 .. bpsDenominator - 1
    PROVE  LET total == QuoteTotalBasisPoints(nominal, bps)
           IN total \in Nat /\ total - FeeOn(total, bps) >= nominal
<1> DEFINE D == 10000
           total == QuoteTotalBasisPoints(nominal, bps)
<1>1. D - bps \in Nat \ {0} /\ bps \in Nat
  BY DEF bpsDenominator
<1>2. total \in Nat /\ total * (D - bps) >= nominal * D
  <2>1. CASE bps = 0
    BY <2>1 DEF QuoteTotalBasisPoints
  <2>2. CASE bps # 0
    <3>1. nominal * D \in Nat
      OBVIOUS
    <3>2. total = CeilDiv(nominal * D, D - bps)
      BY <2>2 DEF QuoteTotalBasisPoints, bpsDenominator
    <3> HIDE DEF total, D
    <3>3. total \in Nat /\ (D - bps) * total >= nominal * D
      BY <1>1, <3>1, <3>2, CeilDivBounds
    <3>4. QED
      BY <1>1, <3>3 DEF D
  <2>3. QED
    BY <2>1, <2>2
<1> HIDE DEF total
<1> DEFINE f == FeeOn(total, bps)
<1>3. /\ f \in Nat
      /\ 10000 * f >= total * bps
      /\ 10000 * f < total * bps + 10000
  <2>1. bps \in Nat /\ total \in Nat
    BY <1>1, <1>2
  <2>2. f \in Nat
    BY <2>1, FeeOnNatural
  <2>3. 10000 * f >= total * bps
    BY <2>1, FeeOnBounds
  <2>4. 10000 * f < total * bps + 10000
    BY <2>1, FeeOnBounds
  <2>5. QED
    BY <2>2, <2>3, <2>4
<1> HIDE DEF f
<1>4. total * (D - bps) = D * total - total * bps
  BY <1>1, <1>2
<1>5. 10000 * (total - f) > nominal * 10000 - 10000
  BY <1>1, <1>2, <1>3, <1>4
<1>6. total - f >= nominal
  BY <1>2, <1>3, <1>5
<1>7. QED
  BY <1>2, <1>6 DEF total, f

(* The quote is the smallest such total: asking for less would leave the   *)
(* merchant short, so no customer is charged a unit more than needed.      *)
THEOREM QuoteIsMinimal ==
    ASSUME NEW nominal \in Nat \ {0}, NEW bps \in 0 .. bpsDenominator - 1,
           NEW smaller \in Nat
    PROVE  smaller < QuoteTotalBasisPoints(nominal, bps)
               => smaller - FeeOn(smaller, bps) < nominal
<1> DEFINE D == 10000
           total == QuoteTotalBasisPoints(nominal, bps)
<1>1. D - bps \in Nat \ {0} /\ bps \in Nat /\ smaller * bps \in Nat
  BY DEF bpsDenominator
<1>2. total \in Nat /\ total * (D - bps) < nominal * D + (D - bps)
  <2>1. CASE bps = 0
    BY <2>1 DEF QuoteTotalBasisPoints
  <2>2. CASE bps # 0
    <3>1. nominal * D \in Nat
      OBVIOUS
    <3>2. total = CeilDiv(nominal * D, D - bps)
      BY <2>2 DEF QuoteTotalBasisPoints, bpsDenominator
    <3> HIDE DEF total, D
    <3>3. total \in Nat /\ (D - bps) * total < nominal * D + (D - bps)
      BY <1>1, <3>1, <3>2, CeilDivBounds
    <3>4. QED
      BY <1>1, <3>3 DEF D
  <2>3. QED
    BY <2>1, <2>2
<1>3. smaller < total => smaller <= total - 1 /\ total - 1 \in Nat
  BY <1>2
<1>4. smaller < total => smaller * (D - bps) < nominal * D
  <2>1. smaller < total => smaller * (D - bps) <= (total - 1) * (D - bps)
    <3> HIDE DEF total, D
    <3>1. QED BY <1>1, <1>3
  <2>2. (total - 1) * (D - bps) = total * (D - bps) - (D - bps)
    <3> HIDE DEF total, D
    <3>1. QED BY <1>1, <1>2 DEF D
  <2>3. QED
    <3> HIDE DEF total
    <3>1. QED BY <1>1, <1>2, <1>3, <2>1, <2>2
<1> HIDE DEF total
<1> DEFINE f == FeeOn(smaller, bps)
<1>5. /\ f \in Nat
      /\ 10000 * f >= smaller * bps
      /\ 10000 * f < smaller * bps + 10000
  <2>1. bps \in Nat /\ smaller \in Nat
    BY <1>1, <1>2
  <2>2. f \in Nat
    BY <2>1, FeeOnNatural
  <2>3. 10000 * f >= smaller * bps
    BY <2>1, FeeOnBounds
  <2>4. 10000 * f < smaller * bps + 10000
    BY <2>1, FeeOnBounds
  <2>5. QED
    BY <2>2, <2>3, <2>4
<1> HIDE DEF f
<1>6. smaller * (D - bps) = D * smaller - smaller * bps
  BY <1>1
<1>7. smaller < total => 10000 * (smaller - f) < nominal * 10000
  BY <1>1, <1>4, <1>5, <1>6
<1>8. smaller < total => smaller - f < nominal
  BY <1>5, <1>7
<1>9. QED
  BY <1>8 DEF f, total
=============================================================================
