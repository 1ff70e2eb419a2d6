------------------------- MODULE PaymentCreationMC -------------------------
(***************************************************************************)
(* An instance of PaymentCreation small enough for TLC.  The times keep    *)
(* the order of the code's: 90 s to create and 30 s to settle fill the     *)
(* 2 min after which a claim counts as abandoned, and the TTL is longer.   *)
(***************************************************************************)
EXTENDS PaymentCreation, TLC

CONSTANTS r1, r2, r3, k1, b1, b2, p1, p2

Symmetric == Permutations({r1, r2, r3}) \union Permutations({b1, b2})
=============================================================================
