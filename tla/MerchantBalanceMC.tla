------------------------- MODULE MerchantBalanceMC -------------------------
(***************************************************************************)
(* An instance of MerchantBalance small enough for TLC.                    *)
(***************************************************************************)
EXTENDS MerchantBalance, TLC

CONSTANTS m1, r1, r2, po1, po2, a1, a2

Symmetric == Permutations({r1, r2}) \union Permutations({po1, po2})
                \union Permutations({a1, a2})
=============================================================================
