------------------------------- MODULE ApiKeys -------------------------------
(***************************************************************************)
(* The merchant's API keys, one per environment: rotated and deleted from  *)
(* both dashboards under the account's password, and authenticated on      *)
(* every call of the merchant API.  MerchantAPIKeyService.                 *)
(***************************************************************************)
EXTENDS Sessions

KeysOf(e) == {k \in keys : k.env = e}
\* Rotations of e between their DELETE and their INSERT.
Replacing(e) == {r \in Request : At(r, "rotate", "create") /\ task[r].target = e}

\* Both dashboards rotate and delete.
UpsertAPIKey(r) == \E t \in TokensOf(MerchantUser), e \in Env : Enter(r, "rotate", t, e)
UpsertMerchantAPIKey(r) == \E t \in TokensOf(Admin), e \in Env : Enter(r, "rotate", t, e)
DeleteAPIKey(r) == \E t \in TokensOf(MerchantUser), k \in keys : Enter(r, "revoke", t, k.id)
DeleteMerchantAPIKey(r) == \E t \in TokensOf(Admin), k \in keys : Enter(r, "revoke", t, k.id)

\* Upsert reads the merchant once more; an admin's call reads it here first.
UpsertReadMerchant(r) ==
    /\ At(r, "rotate", "verified")
    /\ IF merchant.active THEN Goto(r, "delete") ELSE Finish(r, "refused")
    /\ UNCHANGED <<now, sessionVars, statusVars, keyVars, profileVars, emailVars, mix>>

\* Slip: a rotation adds a key and leaves the old one.
DeleteNone(r) ==
    /\ At(r, "rotate", "delete")
    /\ Goto(r, "create")
    /\ UNCHANGED <<now, sessionVars, statusVars, keyVars, profileVars, emailVars, mix>>

\* Slip: the DELETE forgets its name = $2.
DeleteByMerchant(r) ==
    /\ At(r, "rotate", "delete")
    /\ keys' = {}
    /\ overlapped' = IF Replacing(task[r].target) = {}
                     THEN overlapped ELSE overlapped \union {task[r].target}
    /\ Goto(r, "create")
    /\ UNCHANGED <<now, sessionVars, statusVars, deleted, profileVars, emailVars, mix>>

DeleteByMerchantAndName(r) ==
    LET e == task[r].target
    IN /\ At(r, "rotate", "delete")
       /\ keys' = keys \ KeysOf(e)
       /\ overlapped' = IF Replacing(e) = {} THEN overlapped ELSE overlapped \union {e}
       /\ Goto(r, "create")
       /\ UNCHANGED <<now, sessionVars, statusVars, deleted, profileVars, emailVars, mix>>

CreateKey(r) ==
    LET e == task[r].target
    IN /\ At(r, "rotate", "create")
       /\ keys' = keys \union {[id |-> r, env |-> e]}
       /\ deleted' = deleted \ {e}
       /\ Finish(r, "done")
       /\ UNCHANGED <<now, sessionVars, statusVars, overlapped, profileVars, emailVars, mix>>

\* Delete: the merchant is there (nothing removes it), so the row of this id
\* goes, if another call has not replaced it since.
DeleteKey(r) ==
    /\ At(r, "revoke", "verified")
    /\ keys' = {k \in keys : k.id # task[r].target}
    /\ deleted' = deleted \union {k.env : k \in keys \ keys'}
    /\ Finish(r, "done")
    /\ UNCHANGED <<now, sessionVars, statusVars, overlapped, profileVars, emailVars, mix>>

-----------------------------------------------------------------------------
(* RequireMerchantAPIKey and Authenticate.                                 *)

\* The key is found by the hash of the secret the caller presents.
PresentKey(r, k) ==
    /\ task[r].step = "new"
    /\ "api" \in mix.ops
    /\ task' = [task EXCEPT ![r] = [Unborn EXCEPT
          !.op = "api", !.step = "merchant", !.target = k.env]]
    /\ BarMerchantCall(r, TRUE)
    /\ UNCHANGED <<now, sessionVars, keyVars, profileVars, emailVars, mix>>

Authenticate(r) ==
    /\ At(r, "api", "merchant")
    /\ Finish(r, IF merchant.active THEN "done" ELSE "refused")
    /\ UNCHANGED <<now, sessionVars, statusVars, keyVars, profileVars, emailVars, mix>>

ApiKeyNext ==
    \E r \in Request :
       \/ UpsertAPIKey(r) \/ UpsertMerchantAPIKey(r)
       \/ DeleteAPIKey(r) \/ DeleteMerchantAPIKey(r)
       \/ UpsertReadMerchant(r) \/ DeleteByMerchantAndName(r) \/ CreateKey(r) \/ DeleteKey(r)
       \/ \E k \in keys : PresentKey(r, k)
       \/ Authenticate(r)
=============================================================================
