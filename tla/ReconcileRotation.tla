------------------------- MODULE ReconcileRotation -------------------------
(***************************************************************************)
(* How often ReconcileRecentPayments comes round to each candidate.  Rows  *)
(* are numbered by (created_at, id); a run reads the highest Batch         *)
(* candidates below its cursor.  A row may become a candidate anywhere in  *)
(* that order: a payment is dated before its provider is asked and stored  *)
(* after, and one that outlived the pending window comes back with its old *)
(* date when it expires.  The cursor lives in memory; PaymentSettlement    *)
(* models the work on a batch and the restart of the process.              *)
(***************************************************************************)
EXTENDS Integers, FiniteSets

CONSTANTS Batch,    \* reconcileBatchSize
          MaxRow    \* bound on the payments

ASSUME RotationAssumption == Batch \in Nat \ {0} /\ MaxRow \in Nat

None == 0           \* reconcileCursor == nil

VARIABLES
    life,       \* life[r]: what the job's query sees of payment r
    cursor,     \* reconcileCursor
    waited,     \* waited[r]: runs candidate r has waited to be checked
    met         \* met[r]: the others that were candidates while r waited

vars == <<life, cursor, waited, met>>

Row == 1 .. MaxRow
Lives == {"unstored", "pending", "aged", "expired", "done"}

\* Pending within pendingWindow, or expired within expiredWindow.
rows == {r \in Row : life[r] \in {"pending", "expired"}}

\* ORDER BY created_at DESC, id DESC LIMIT Batch, below the cursor.
BelowCursor == {r \in rows : cursor = None \/ r < cursor}
Candidates == {r \in BelowCursor : Cardinality({q \in BelowCursor : q > r}) < Batch}

Init ==
    /\ life = [r \in Row |-> "unstored"]
    /\ cursor = None
    /\ waited = [r \in Row |-> 0]
    /\ met = [r \in Row |-> {}]

\* Row r becomes a candidate, and so one of the others that each candidate meets.
Enter(r, as) ==
    /\ life' = [life EXCEPT ![r] = as]
    /\ met' = [q \in Row |->
                 IF q = r THEN rows ELSE IF q \in rows THEN met[q] \union {r} ELSE {}]
    /\ UNCHANGED <<cursor, waited>>

\* Row r is no candidate any more.
Quit(r, as) ==
    /\ life' = [life EXCEPT ![r] = as]
    /\ waited' = [waited EXCEPT ![r] = 0]
    /\ met' = [met EXCEPT ![r] = {}]
    /\ UNCHANGED cursor

\* CreatePayment stores a production payment.
Store(r) == life[r] = "unstored" /\ Enter(r, "pending")

\* A payment that lives longer than pendingWindow falls out of it, the oldest
\* of those in it first.
AgeOut(r) ==
    /\ life[r] = "pending"
    /\ \A q \in Row : life[q] = "pending" => q >= r
    /\ Quit(r, "aged")

\* The deadline passes and ExpirePayments (or a check) expires the payment: one
\* within pendingWindow stays a candidate, one that had aged is one again.
Expire(r) ==
    \/ /\ life[r] = "pending"
       /\ life' = [life EXCEPT ![r] = "expired"]
       /\ UNCHANGED <<cursor, waited, met>>
    \/ life[r] = "aged" /\ Enter(r, "expired")

\* A payment settles, fails, is flagged with a mismatch, or its deadline is
\* further back than expiredWindow.
Leave(r) == life[r] \in {"pending", "aged", "expired"} /\ Quit(r, "done")

\* What a run does to the waits: those it checks start anew.
Checked ==
    /\ waited' = [r \in Row |-> IF r \in rows \ Candidates THEN waited[r] + 1 ELSE 0]
    /\ met' = [r \in Row |-> IF r \in Candidates THEN rows \ {r} ELSE met[r]]
    /\ UNCHANGED life

\* Slip: the cursor names the first row of the batch instead of the last.
RunFromFirst ==
    /\ IF Cardinality(Candidates) < Batch
       THEN cursor' = None
       ELSE \E r \in Candidates : /\ \A q \in Candidates : q <= r
                                  /\ cursor' = r
    /\ Checked

Run ==
    /\ IF Cardinality(Candidates) < Batch
       THEN cursor' = None
       ELSE \E r \in Candidates : /\ \A q \in Candidates : q >= r
                                  /\ cursor' = r
    /\ Checked

Next ==
    \/ \E r \in Row : Store(r) \/ AgeOut(r) \/ Expire(r) \/ Leave(r)
    \/ Run

Spec == Init /\ [][Next]_vars

-----------------------------------------------------------------------------
\* Full or part batches that r and the others it met fill: ceil(N/batch), N
\* counting every payment that was a candidate at some time while r waited.
Period(r) == (Cardinality(met[r]) + Batch) \div Batch

\* A candidate that waited for n runs is checked in the next one at the latest.
CoveredWithin(n, r) == waited[r] < n

\* Rotation starves no candidate, wherever others enter the order, leave it and
\* come back into it between the runs: while one waits nobody else is checked
\* twice and the cursor wraps once, so it is checked within one run more than
\* the batches that it and those others fill.
NoCandidateStarves == \A r \in rows : CoveredWithin(Period(r) + 1, r)

\* The documented period (the comment of ReconcileRecentPayments and
\* docs/payment-state-machine.md): every ceil(N/batch) runs.
CoveredEveryCeilRuns == \A r \in rows : CoveredWithin(Period(r), r)
=============================================================================
