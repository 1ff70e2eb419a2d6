------------------------ MODULE CallbackDeliveryMC ------------------------
(***************************************************************************)
(* Instances of CallbackDelivery small enough for TLC.  The times keep the *)
(* order of the code's: a budget of 100 s and a send of up to 30 s pass    *)
(* the stale window of 2 min, the retry delay of 5 min outlasts both.      *)
(***************************************************************************)
EXTENDS CallbackDelivery

CONSTANTS w1, w2, a1, c1
=============================================================================
