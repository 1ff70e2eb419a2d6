--------------------------- MODULE MerchantProfile ---------------------------
(***************************************************************************)
(* The merchant's row: edits of its columns from both dashboards, a read   *)
(* and a write back, and its webhook secret, drawn when first asked for    *)
(* or when the merchant asks for a new one.                                *)
(***************************************************************************)
EXTENDS Sessions

\* r's write, as the requests see it that have read the row and not written it.
Written(r) == since' = [q \in Request |->
    IF task[q].step \in {"write", "set"} /\ q # r THEN since[q] \union {r}
    ELSE IF q = r /\ task[r].op = "resecret" THEN since[q] \union shown ELSE since[q]]

UpdateBusiness(r) == \E t \in TokensOf(MerchantUser), f \in Field : Enter(r, "edit", t, f)
UpdateMerchant(r) == \E t \in TokensOf(Admin), f \in Field : Enter(r, "edit", t, f)

\* MerchantRepository.Update: the row is read.
ReadProfile(r) ==
    /\ At(r, "edit", "in")
    /\ task' = [task EXCEPT ![r].step = "write",
                            ![r].row = [active |-> merchant.active, columns |-> merchant.columns]]
    /\ UNCHANGED <<now, sessionVars, statusVars, keyVars, profileVars, emailVars, mix>>

\* Slip: the UPDATE carries every column of the row that was read.
WriteRow(r) ==
    LET f == task[r].target
    IN /\ At(r, "edit", "write")
       /\ merchant' = [merchant EXCEPT !.columns = [task[r].row.columns EXCEPT ![f] = r],
                                       !.active = task[r].row.active]
       /\ asked' = [asked EXCEPT ![f] = r]
       /\ Written(r)
       /\ Finish(r, "done")
       /\ UNCHANGED <<now, sessionVars, statusVars, keyVars, shown, emailVars, mix>>

\* Slip: a field the request leaves out is emptied.
WriteAskedOnly(r) ==
    LET f == task[r].target
    IN /\ At(r, "edit", "write")
       /\ merchant' = [merchant EXCEPT !.columns = [g \in Field |-> IF g = f THEN r ELSE None]]
       /\ asked' = [asked EXCEPT ![f] = r]
       /\ Written(r)
       /\ Finish(r, "done")
       /\ UNCHANGED <<now, sessionVars, statusVars, keyVars, shown, emailVars, mix>>

\* The UPDATE of all the columns of Field, with the one asked for replaced.
WriteProfile(r) ==
    LET f == task[r].target
    IN /\ At(r, "edit", "write")
       /\ merchant' = [merchant EXCEPT !.columns = [task[r].row.columns EXCEPT ![f] = r]]
       /\ asked' = [asked EXCEPT ![f] = r]
       /\ Written(r)
       /\ Finish(r, "done")
       /\ UNCHANGED <<now, sessionVars, statusVars, keyVars, shown, emailVars, mix>>

-----------------------------------------------------------------------------
(* EnsureMerchantWebhookSecret and RegenerateMerchantWebhookSecret.        *)

GetWebhookSecret(r) == \E t \in TokensOf(MerchantUser) : Enter(r, "secret", t, None)
RegenerateWebhookSecret(r) == \E t \in TokensOf(MerchantUser) : Enter(r, "resecret", t, None)

\* Slip: every look at the secret draws a new one.
EnsureAlwaysDraws(r) ==
    /\ At(r, "secret", "in")
    /\ Goto(r, "set")
    /\ UNCHANGED <<now, sessionVars, statusVars, keyVars, profileVars, emailVars, mix>>

\* The row is read; the secret it has is the answer.
EnsureSecret(r) ==
    /\ At(r, "secret", "in")
    /\ IF merchant.secret = None
       THEN Goto(r, "set") /\ UNCHANGED shown
       ELSE Finish(r, "done") /\ shown' = shown \union {merchant.secret}
    /\ UNCHANGED <<now, sessionVars, statusVars, keyVars, merchant, since, asked, emailVars, mix>>

SetWebhookSecret(r) ==
    /\ At(r, "secret", "set") \/ At(r, "resecret", "verified")
    /\ merchant' = [merchant EXCEPT !.secret = r]
    /\ shown' = shown \union {r}
    /\ Written(r)
    /\ Finish(r, "done")
    /\ UNCHANGED <<now, sessionVars, statusVars, keyVars, asked, emailVars, mix>>

ProfileNext ==
    \E r \in Request :
       \/ UpdateBusiness(r) \/ UpdateMerchant(r)
       \/ GetWebhookSecret(r) \/ RegenerateWebhookSecret(r)
       \/ ReadProfile(r) \/ WriteProfile(r) \/ EnsureSecret(r) \/ SetWebhookSecret(r)
=============================================================================
