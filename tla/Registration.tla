---------------------------- MODULE Registration ----------------------------
(***************************************************************************)
(* New merchants: registered from the public page, a merchant and then its *)
(* owner, in two statements and a third that undoes the first; or created  *)
(* by an admin, without an owner.  And a user's change of e-mail, which    *)
(* may take the address a registration is about to use.                    *)
(***************************************************************************)
EXTENDS Sessions

MerchantEmails == {m.email : m \in merchants}
OwnerEmails == {o.email : o \in owners}

\* CreateMerchant (admin) and RegisterMerchant: no merchant has the address.
BeginMerchant(r, op, e) ==
    /\ task[r].step = "new"
    /\ op \in {"register", "create"} \intersect mix.ops
    /\ task' = [task EXCEPT ![r] = [Unborn EXCEPT !.op = op, !.target = e,
          !.step = IF e \in MerchantEmails THEN "refused"
                   ELSE IF op = "register" THEN "user" ELSE "insert"]]
    /\ UNCHANGED <<now, sessionVars, statusVars, keyVars, profileVars, emailVars, mix>>

RegisterMerchant(r) == \E e \in Email : BeginMerchant(r, "register", e)
CreateMerchant(r) == \E e \in Email : BeginMerchant(r, "create", e)

\* Nor has a dashboard user.
CheckUser(r) ==
    /\ At(r, "register", "user")
    /\ IF task[r].target \in OwnerEmails THEN Finish(r, "refused") ELSE Goto(r, "insert")
    /\ UNCHANGED <<now, sessionVars, statusVars, keyVars, profileVars, emailVars, mix>>

\* merchants.email is unique: a second merchant with it is an error.
InsertMerchant(r) ==
    LET op == task[r].op
        e == task[r].target
    IN /\ op \in {"register", "create"} /\ task[r].step = "insert"
       /\ IF e \in MerchantEmails
          THEN Finish(r, "refused") /\ UNCHANGED merchants
          ELSE /\ merchants' = merchants \union {[id |-> r, email |-> e, by |-> op]}
               /\ IF op = "register" THEN Goto(r, "owner") ELSE Finish(r, "done")
       /\ UNCHANGED <<now, sessionVars, statusVars, keyVars, profileVars, owners, mix>>

\* Slip: the merchant is left behind when its owner cannot be stored.
InsertOwnerNoRollback(r) ==
    LET e == task[r].target
    IN /\ At(r, "register", "owner")
       /\ IF e \in OwnerEmails
          THEN Finish(r, "refused") /\ UNCHANGED owners
          ELSE owners' = owners \union {[merchant |-> r, email |-> e]} /\ Finish(r, "done")
       /\ UNCHANGED <<now, sessionVars, statusVars, keyVars, profileVars, merchants, mix>>

\* The owner's address is unique among users: taken since, it is an error.
InsertOwner(r) ==
    LET e == task[r].target
    IN /\ At(r, "register", "owner")
       /\ IF e \in OwnerEmails
          THEN Goto(r, "rollback") /\ UNCHANGED owners
          ELSE owners' = owners \union {[merchant |-> r, email |-> e]} /\ Finish(r, "done")
       /\ UNCHANGED <<now, sessionVars, statusVars, keyVars, profileVars, merchants, mix>>

\* The owner is stored, and the statement reported as failed.
InsertOwnerUnheard(r) ==
    LET e == task[r].target
    IN /\ At(r, "register", "owner")
       /\ e \notin OwnerEmails
       /\ owners' = owners \union {[merchant |-> r, email |-> e]}
       /\ Goto(r, "rollback")
       /\ UNCHANGED <<now, sessionVars, statusVars, keyVars, profileVars, merchants, mix>>

\* Delete takes the merchant's users along (ON DELETE CASCADE).
DeleteMerchant(r) ==
    /\ At(r, "register", "rollback")
    /\ merchants' = {m \in merchants : m.id # r}
    /\ owners' = {o \in owners : o.merchant # r}
    /\ Finish(r, "refused")
    /\ UNCHANGED <<now, sessionVars, statusVars, keyVars, profileVars, mix>>

UpdateMerchantProfile(r) ==
    \E t \in TokensOf(MerchantUser), e \in Email : Enter(r, "email", t, e)

\* UpdateMerchantUserProfile, by the user there was at the start; a taken
\* address fails the UPDATE, on the unique index.
UpdateEmail(r) ==
    LET e == task[r].target
    IN /\ At(r, "email", "in")
       /\ IF \E o \in owners : o.merchant # None /\ o.email = e
          THEN Finish(r, "refused") /\ UNCHANGED owners
          ELSE /\ owners' = {o \in owners : o.merchant # None}
                               \union {[merchant |-> None, email |-> e]}
               /\ Finish(r, "done")
       /\ UNCHANGED <<now, sessionVars, statusVars, keyVars, profileVars, merchants, mix>>

RegistrationNext ==
    \E r \in Request :
       \/ RegisterMerchant(r) \/ CreateMerchant(r) \/ UpdateMerchantProfile(r)
       \/ CheckUser(r) \/ InsertMerchant(r)
       \/ InsertOwner(r) \/ InsertOwnerUnheard(r) \/ DeleteMerchant(r)
       \/ UpdateEmail(r)
=============================================================================
