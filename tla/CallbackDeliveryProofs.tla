----------------------- MODULE CallbackDeliveryProofs -----------------------
(***************************************************************************)
(* CallbackDelivery for every number of callbacks, rows, processes and     *)
(* admins and for all times that keep to the assumption: its type          *)
(* invariant, that no queued callback is left with nothing to act on it,   *)
(* and that a failure is requeued once.                                    *)
(***************************************************************************)
EXTENDS CallbackDelivery, TLAPS

\* What an actor works on is in the table, and the steps of a run are a
\* worker's, those of a manual retry an admin's.
Fit(a, t, table) ==
    /\ \A d \in t.batch : table[d] # Absent
    /\ t.step \in {"send", "record", "create"} => t.row \in Row /\ table[t.row] # Absent
    /\ t.step = "create" => a \in Admin
    /\ t.step \in {"claim", "batch"} \/ t.batch # {} => a \in Worker
    /\ t.step = "record" => t.result # "none"
Placed == \A a \in Actor : Fit(a, task[a], rows)
TypeInv == TypeOK /\ Placed

Waits == 0 .. RetryDelay \union {NoRetry}
Tasks == [step : Steps \union {"idle"}, batch : SUBSET Row, row : Row \union {None},
          result : Results, wait : Waits, elapsed : 0 .. Budget + 1, left : 0 .. SendTimeout]

LEMMA IdleTyped == /\ Idle \in Tasks /\ Idle.step = "idle" /\ Idle.batch = {}
                   /\ Idle.elapsed = 0 /\ Idle.wait = NoRetry
BY DeliveryAssumption DEF Idle, Tasks, Results, Waits

LEMMA BusyTyped == ASSUME NEW t \in Tasks, t.step \in Steps PROVE t \in Busy
BY DEF Tasks, Busy, Steps, Waits

LEMMA TaskKinds ==
    ASSUME TypeOK, NEW a \in Actor
    PROVE  /\ task[a] \in Tasks
           /\ task[a].step # "idle" => task[a] \in Busy
           /\ task[a].step = "idle" => task[a] = Idle
<1>1. task[a] \in Busy \union {Idle}
  BY DEF TypeOK
<1>2. CASE task[a] \in Busy
  BY <1>2 DEF Busy, Tasks, Steps, Waits
<1>3. CASE task[a] = Idle
  BY <1>3, IdleTyped
<1> QED BY <1>1, <1>2, <1>3

LEMMA RowKinds ==
    ASSUME TypeOK, NEW d \in Row
    PROVE  /\ rows[d] # Absent => rows[d] \in Present
           /\ rows[d] # Absent <=> rows[d].status # "absent"
BY DEF TypeOK, Absent, Present

LEMMA FreshTyped ==
    ASSUME NEW c \in Callback, NEW n \in Nat \ {0}, NEW s \in {"pending", "sending"}
    PROVE  /\ Fresh(c, n, s) \in Present /\ Fresh(c, n, s) # Absent
           /\ Fresh(c, n, s).status = s /\ Fresh(c, n, s).callback = c
           /\ Fresh(c, n, s).attempt = n
<1>1. NoRetry \in 0 .. RetryDelay \union {NoRetry} /\ 0 \in 0 .. StaleAfter
  BY DeliveryAssumption
<1> QED BY <1>1 DEF Fresh, Present, Absent

-----------------------------------------------------------------------------
(* Types: the table.                                                       *)

\* A row once stored stays, with its callback and its attempt.
RowsKept ==
    /\ rows' \in [Row -> Present \union {Absent}]
    /\ \A d \in Row : rows[d] # Absent =>
          /\ rows'[d] \in Present /\ rows'[d] # Absent
          /\ rows'[d].callback = rows[d].callback /\ rows'[d].attempt = rows[d].attempt

LEMMA Unmoved == ASSUME TypeInv, UNCHANGED rows PROVE RowsKept
BY RowKinds DEF TypeInv, TypeOK, RowsKept

\* A step that stores rows where there were none, and touches status, age and
\* schedule of others.
LEMMA Touched ==
    ASSUME TypeInv,
           rows' = [d \in Row |-> rows'[d]],
           \A d \in Row : \/ rows'[d] = rows[d]
                          \/ rows[d] = Absent /\ rows'[d] \in Present
                          \/ /\ rows[d] # Absent /\ rows'[d] \in Present
                             /\ rows'[d].callback = rows[d].callback
                             /\ rows'[d].attempt = rows[d].attempt
    PROVE  RowsKept
BY RowKinds DEF TypeInv, TypeOK, RowsKept, Present, Absent

\* The columns that are written one with the other.
Same(r, s) == s \in Present /\ s.callback = r.callback /\ s.attempt = r.attempt

LEMMA Columns ==
    ASSUME NEW r \in Present
    PROVE  /\ \A st \in {"pending", "sending"} : Same(r, [r EXCEPT !.status = st, !.age = 0])
           /\ Same(r, [r EXCEPT !.wait = NoRetry, !.age = 0])
           /\ \A g \in 0 .. StaleAfter, w \in Waits : Same(r, [r EXCEPT !.age = g, !.wait = w])
<1>1. 0 \in 0 .. StaleAfter
  BY DeliveryAssumption
<1>2. ASSUME NEW st \in {"pending", "sending"} PROVE Same(r, [r EXCEPT !.status = st, !.age = 0])
  BY <1>1 DEF Present, Same
<1>3. Same(r, [r EXCEPT !.wait = NoRetry, !.age = 0])
  BY <1>1 DEF Present, Same
<1>4. ASSUME NEW g \in 0 .. StaleAfter, NEW w \in Waits
      PROVE  Same(r, [r EXCEPT !.age = g, !.wait = w])
  BY DEF Present, Same, Waits
<1> QED BY <1>2, <1>3, <1>4

LEMMA QueueRows == ASSUME TypeInv, NEW c \in Callback, Queue(c) PROVE RowsKept
<1>1. PICK d \in next : rows' = [rows EXCEPT ![d] = Fresh(c, 1, "pending")]
  BY DEF Queue
<1>2. d \in Row /\ rows[d] = Absent
  BY DEF next, free
<1>3. Fresh(c, 1, "pending") \in Present
  BY FreshTyped
<1> QED BY <1>1, <1>2, <1>3, Touched DEF TypeInv, TypeOK

\* What the batch of RequeueDueFailed does to the table.
LEMMA RequeueEffect ==
    ASSUME TypeInv, NEW w \in Worker, RequeueDueFailed(w)
    PROVE  \E S \in SUBSET due, N \in SUBSET free : \E source \in [N -> S] :
              /\ \A d \in S : \E e \in N : source[e] = d
              /\ rows' = [d \in Row |-> rows'[d]]
              /\ \A d \in N : rows'[d] = NewAttempt(source[d]) /\ rows'[d] \in Present
              /\ \A d \in S : rows'[d] = [rows[d] EXCEPT !.wait = NoRetry, !.age = 0]
              /\ \A d \in Row \ (N \union S) : rows'[d] = rows[d]
              /\ CountRequeued(S)
<1>1. PICK S \in dueBatches : \E source \in Bijection(newRows(S), S) :
         /\ rows' = [d \in Row |->
               IF d \in newRows(S) THEN NewAttempt(source[d])
               ELSE IF d \in S THEN [rows[d] EXCEPT !.wait = NoRetry, !.age = 0]
               ELSE rows[d]]
         /\ CountRequeued(S)
  BY DEF RequeueDueFailed
<1> DEFINE N == newRows(S)
<1>2. PICK source \in Bijection(N, S) :
         /\ rows' = [d \in Row |->
               IF d \in N THEN NewAttempt(source[d])
               ELSE IF d \in S THEN [rows[d] EXCEPT !.wait = NoRetry, !.age = 0]
               ELSE rows[d]]
         /\ CountRequeued(S)
  BY <1>1
<1>3. S \subseteq due /\ S \subseteq Row /\ N \subseteq free /\ N \subseteq Row
  BY DEF dueBatches, due, newRows, free
<1> HIDE DEF N
<1>4. source \in [N -> S] /\ \A d \in S : \E e \in N : source[e] = d
  BY DEF Bijection, Injection, Surjection
<1>5. ASSUME NEW d \in N PROVE NewAttempt(source[d]) \in Present
  <2>1. source[d] \in S
    BY <1>4
  <2>2. rows[source[d]] \in Present
    BY <1>3, <2>1, RowKinds DEF TypeInv, due
  <2>3. rows[source[d]].callback \in Callback /\ rows[source[d]].attempt + 1 \in Nat \ {0}
    BY <2>2 DEF Present
  <2> QED BY <2>3, FreshTyped DEF NewAttempt
<1>6. N \intersect S = {}
  BY <1>3 DEF free, due, Absent
<1>7. /\ \A d \in N : rows'[d] = NewAttempt(source[d]) /\ rows'[d] \in Present
      /\ \A d \in S : rows'[d] = [rows[d] EXCEPT !.wait = NoRetry, !.age = 0]
      /\ \A d \in Row \ (N \union S) : rows'[d] = rows[d]
  BY <1>2, <1>3, <1>5, <1>6
<1>8. rows' = [d \in Row |-> rows'[d]]
  BY <1>2
<1> QED BY <1>2, <1>3, <1>4, <1>7, <1>8

LEMMA RequeueRows == ASSUME TypeInv, NEW w \in Worker, RequeueDueFailed(w) PROVE RowsKept
<1>1. PICK S \in SUBSET due, N \in SUBSET free : \E source \in [N -> S] :
              /\ rows' = [d \in Row |-> rows'[d]]
              /\ \A d \in N : rows'[d] \in Present
              /\ \A d \in S : rows'[d] = [rows[d] EXCEPT !.wait = NoRetry, !.age = 0]
              /\ \A d \in Row \ (N \union S) : rows'[d] = rows[d]
  BY RequeueEffect
<1>2. ASSUME NEW d \in S
      PROVE  /\ rows[d] # Absent /\ rows'[d] \in Present
             /\ rows'[d].callback = rows[d].callback /\ rows'[d].attempt = rows[d].attempt
  <2>1. d \in Row /\ rows[d] # Absent /\ rows[d] \in Present
    BY RowKinds DEF due, TypeInv, Absent
  <2> QED BY <1>1, <2>1, Columns DEF Same
<1>3. \A d \in N : rows[d] = Absent
  BY DEF free
<1> QED BY <1>1, <1>2, <1>3, Touched

\* Claims, releases, results and manual retries.
LEMMA StatementRows ==
    ASSUME TypeInv, NEW a \in Actor,
           \/ ClaimDue(a) \/ ReleaseClaimed(a) \/ RecordResult(a)
           \/ \E d \in Row : ClearRetrySchedule(a, d)
           \/ CreateAttempt(a)
    PROVE  RowsKept
<1>0. /\ DOMAIN rows = Row /\ 0 \in 0 .. StaleAfter
      /\ \A d \in Row : rows[d] # Absent => rows[d] \in Present
  BY RowKinds, DeliveryAssumption DEF TypeInv, TypeOK
<1>1. CASE ClaimDue(a)
  <2>1. PICK B \in SUBSET claimable : rows' = [d \in Row |->
            IF d \in B THEN [rows[d] EXCEPT !.status = "sending", !.age = 0] ELSE rows[d]]
    BY <1>1 DEF ClaimDue
  <2>2. \A d \in B : d \in Row /\ rows[d] # Absent
    BY DEF claimable, Absent
  <2>3. \A d \in B : Same(rows[d], rows'[d])
    BY <1>0, <2>1, <2>2, Columns
  <2>4. rows' = [d \in Row |-> rows'[d]] /\ \A d \in Row \ B : rows'[d] = rows[d]
    BY <2>1
  <2> QED BY <2>2, <2>3, <2>4, Touched DEF Same
<1>2. CASE ReleaseClaimed(a)
  <2>1. CASE UNCHANGED rows
    BY <2>1, Unmoved
  <2>2. CASE rows' = [d \in Row |->
            IF d \in task[a].batch /\ rows[d].status = "sending"
            THEN [rows[d] EXCEPT !.status = "pending", !.age = 0]
            ELSE rows[d]]
    <3>1. \A d \in Row : rows[d].status = "sending" => rows[d] # Absent
      BY DEF Absent
    <3>2. \A d \in Row : rows'[d] = rows[d] \/ (rows[d] # Absent /\ Same(rows[d], rows'[d]))
      BY <1>0, <2>2, <3>1, Columns
    <3>3. rows' = [d \in Row |-> rows'[d]]
      BY <2>2
    <3> QED BY <3>2, <3>3, Touched DEF Same
  <2> QED BY <1>2, <2>1, <2>2 DEF ReleaseClaimed
<1>3. CASE RecordResult(a)
  <2>1. /\ task[a] \in Busy /\ task[a].row \in Row /\ rows[task[a].row] # Absent
        /\ task[a].result \in {"success", "failed"}
    BY <1>3, TaskKinds DEF RecordResult, TypeInv, Placed, Fit, Busy, Results
  <2>2. task[a].wait \in 0 .. RetryDelay \union {NoRetry}
    BY <2>1 DEF Busy
  <2>3. rows[task[a].row] \in Present
    BY <1>0, <2>1
  <2>4. rows' = [rows EXCEPT ![task[a].row] = [rows[task[a].row] EXCEPT
                    !.status = task[a].result, !.wait = task[a].wait, !.age = 0]]
    BY <1>0, <1>3, <2>1 DEF RecordResult
  <2> QED BY <1>0, <2>1, <2>2, <2>3, <2>4, Touched DEF Present
<1>4. ASSUME NEW d \in Row, ClearRetrySchedule(a, d) PROVE RowsKept
  <2>1. rows[d] # Absent /\ rows[d] \in Present
    BY <1>0, <1>4 DEF ClearRetrySchedule
  <2>2. CASE UNCHANGED rows
    BY <2>2, Unmoved
  <2>3. CASE rows' = [rows EXCEPT ![d].wait = NoRetry]
    BY <1>0, <2>1, <2>3, Touched DEF Present
  <2> QED BY <1>4, <2>2, <2>3 DEF ClearRetrySchedule
<1>5. CASE CreateAttempt(a)
  <2> DEFINE d == task[a].row
             new == Fresh(rows[d].callback, rows[d].attempt + 1, "sending")
  <2>1. PICK e \in next : rows' = [rows EXCEPT ![e] = new]
    BY <1>5 DEF CreateAttempt
  <2>2. e \in Row /\ rows[e] = Absent
    BY DEF next, free
  <2>3. d \in Row /\ rows[d] \in Present
    BY <1>0, <1>5 DEF CreateAttempt, TypeInv, Placed, Fit
  <2>4. rows[d].callback \in Callback /\ rows[d].attempt + 1 \in Nat \ {0}
    BY <2>3 DEF Present
  <2>5. new \in Present
    BY <2>4, FreshTyped
  <2> HIDE DEF new
  <2> QED BY <1>0, <2>1, <2>2, <2>5, Touched
<1> QED BY <1>1, <1>2, <1>3, <1>4, <1>5

LEMMA TickRows == ASSUME TypeInv, Tick PROVE RowsKept
<1>1. /\ rows' = [d \in Row |-> rows'[d]]
      /\ \A d \in Row : rows[d] # Absent =>
            rows'[d] = [rows[d] EXCEPT !.age = IF @ < StaleAfter THEN @ + 1 ELSE @,
                                       !.wait = IF @ > 0 THEN @ - 1 ELSE @]
      /\ \A d \in Row : rows[d] = Absent => rows'[d] = rows[d]
  BY DEF Tick
<1>2. ASSUME NEW d \in Row, rows[d] # Absent PROVE Same(rows[d], rows'[d])
  <2> DEFINE g == IF rows[d].age < StaleAfter THEN rows[d].age + 1 ELSE rows[d].age
             w == IF rows[d].wait > 0 THEN rows[d].wait - 1 ELSE rows[d].wait
  <2>1. rows[d] \in Present
    BY <1>2, RowKinds DEF TypeInv
  <2>2. rows[d].age \in 0 .. StaleAfter /\ rows[d].wait \in Waits
    BY <2>1 DEF Present, Waits
  <2>3. g \in 0 .. StaleAfter
    BY <2>2, DeliveryAssumption
  <2>4. w \in Waits
    BY <2>2, DeliveryAssumption DEF Waits, NoRetry
  <2>5. rows'[d] = [rows[d] EXCEPT !.age = g, !.wait = w]
    BY <1>1, <1>2
  <2>6. \A i \in 0 .. StaleAfter, j \in Waits : Same(rows[d], [rows[d] EXCEPT !.age = i, !.wait = j])
    BY <2>1, Columns
  <2> HIDE DEF g, w
  <2> QED BY <2>3, <2>4, <2>5, <2>6
<1> QED BY <1>1, <1>2, Touched DEF Same

LEMMA RowsStep == TypeInv /\ [Next]_vars => RowsKept
<1> SUFFICES ASSUME TypeInv, [Next]_vars PROVE RowsKept
  OBVIOUS
<1>1. CASE UNCHANGED rows
  BY <1>1, Unmoved
<1>2. ASSUME NEW a \in Actor, Deliver(a) PROVE RowsKept \/ UNCHANGED rows
  BY <1>2, StatementRows DEF Deliver, SendAccepted, SendFailed, SendRefused, RecordLost
<1>3. ASSUME NEW w \in Worker, Run(w) PROVE RowsKept \/ UNCHANGED rows
  <2>1. w \in Actor
    BY DEF Actor
  <2> QED BY <1>2, <1>3, <2>1, RequeueRows, StatementRows
          DEF Run, ClaimFails, TakeRow, BatchDone
<1>4. ASSUME NEW a \in Admin, Retry(a) PROVE RowsKept \/ UNCHANGED rows
  <2>1. a \in Actor
    BY DEF Actor
  <2> QED BY <1>2, <1>4, <2>1, StatementRows DEF Retry, CreateFails
<1> QED BY <1>1, <1>3, <1>4, QueueRows, TickRows DEF Next, Crash, Restart, vars

-----------------------------------------------------------------------------
(* Types: the tasks and the history.                                       *)

LEMMA TasksStay == ASSUME TypeInv, RowsKept, UNCHANGED task PROVE Placed'
<1> SUFFICES ASSUME NEW a \in Actor PROVE Fit(a, task[a], rows')
  BY DEF Placed
<1>1. task[a] \in Tasks /\ Fit(a, task[a], rows)
  BY TaskKinds DEF TypeInv, Placed
<1>2. task[a].batch \subseteq Row
  BY <1>1 DEF Tasks
<1> QED BY <1>1, <1>2 DEF Fit, RowsKept

LEMMA TaskMove ==
    ASSUME TypeInv, RowsKept, NEW a \in Actor, NEW t \in Busy \union {Idle},
           task' = [task EXCEPT ![a] = t], Fit(a, t, rows')
    PROVE  task' \in [Actor -> Busy \union {Idle}] /\ Placed'
<1>1. task' \in [Actor -> Busy \union {Idle}]
  BY DEF TypeInv, TypeOK
<1>2. ASSUME NEW b \in Actor PROVE Fit(b, task'[b], rows')
  <2>1. CASE b = a
    BY <2>1 DEF TypeInv, TypeOK
  <2>2. CASE b # a
    <3>1. task[b] \in Tasks /\ Fit(b, task[b], rows) /\ task'[b] = task[b]
      BY <2>2, TaskKinds DEF TypeInv, TypeOK, Placed
    <3>2. task[b].batch \subseteq Row
      BY <3>1 DEF Tasks
    <3> QED BY <3>1, <3>2 DEF Fit, RowsKept
  <2> QED BY <2>1, <2>2
<1> QED BY <1>1, <1>2 DEF Placed

\* An actor that ends what it was doing.
LEMMA Ends ==
    ASSUME TypeInv, RowsKept, NEW a \in Actor, Done(a)
    PROVE  task' \in [Actor -> Busy \union {Idle}] /\ Placed'
BY TaskMove, IdleTyped DEF Done, Become, Fit

LEMMA BatchMoves ==
    ASSUME TypeInv, RowsKept, NEW w \in Worker,
           RequeueDueFailed(w) \/ ClaimDue(w) \/ TakeRow(w)
    PROVE  task' \in [Actor -> Busy \union {Idle}] /\ Placed'
<1>0. w \in Actor
  BY DEF Actor
<1>1. CASE RequeueDueFailed(w)
  <2> DEFINE t == [Idle EXCEPT !.step = "claim"]
  <2>1. task' = [task EXCEPT ![w] = t]
    BY <1>1 DEF RequeueDueFailed, Become
  <2>2. t \in Tasks /\ t.step = "claim" /\ t.batch = {}
    BY IdleTyped DEF Tasks, Steps
  <2> HIDE DEF t
  <2>3. t \in Busy /\ Fit(w, t, rows')
    BY <2>2, BusyTyped DEF Fit, Steps
  <2> QED BY <1>0, <2>1, <2>3, TaskMove
<1>2. CASE ClaimDue(w)
  <2>1. PICK B \in SUBSET claimable : task' = [task EXCEPT ![w] =
            [Idle EXCEPT !.step = "batch", !.batch = B]]
    BY <1>2 DEF ClaimDue, Become
  <2> DEFINE t == [Idle EXCEPT !.step = "batch", !.batch = B]
  <2>2. B \in SUBSET Row /\ \A d \in B : rows'[d] # Absent
    BY DEF claimable, Absent, RowsKept
  <2>3. t \in Tasks /\ t.step = "batch" /\ t.batch = B
    BY <2>2, IdleTyped DEF Tasks, Steps
  <2>4. task' = [task EXCEPT ![w] = t]
    BY <2>1
  <2> HIDE DEF t
  <2>5. t \in Busy /\ Fit(w, t, rows')
    BY <2>2, <2>3, BusyTyped DEF Fit, Steps
  <2> QED BY <1>0, <2>4, <2>5, TaskMove
<1>3. CASE TakeRow(w)
  <2>1. PICK d \in task[w].batch : task' = [task EXCEPT ![w] =
            [task[w] EXCEPT !.step = "send", !.row = d, !.batch = task[w].batch \ {d},
                            !.left = SendTimeout]]
    BY <1>3 DEF TakeRow, Become
  <2> DEFINE t == [task[w] EXCEPT !.step = "send", !.row = d, !.batch = task[w].batch \ {d},
                                  !.left = SendTimeout]
  <2>2. task[w] \in Tasks /\ Fit(w, task[w], rows)
    BY <1>0, TaskKinds DEF TypeInv, Placed
  <2>3. d \in Row /\ task[w].batch \subseteq Row /\ SendTimeout \in 0 .. SendTimeout
    BY <2>2, DeliveryAssumption DEF Tasks
  <2>4. t \in Tasks /\ t.step = "send" /\ t.row = d /\ t.batch = task[w].batch \ {d}
    BY <2>2, <2>3 DEF Tasks, Steps
  <2>5. task' = [task EXCEPT ![w] = t]
    BY <2>1
  <2> HIDE DEF t
  <2>6. \A e \in task[w].batch : rows'[e] # Absent
    BY <2>2, <2>3 DEF Fit, RowsKept
  <2>7. t \in Busy /\ Fit(w, t, rows')
    BY <2>3, <2>4, <2>6, BusyTyped DEF Fit, Steps
  <2> QED BY <1>0, <2>5, <2>7, TaskMove
<1> QED BY <1>1, <1>2, <1>3

LEMMA NextRetryTyped == ASSUME NEW n PROVE nextRetryAt(n) \in Waits
BY DeliveryAssumption DEF nextRetryAt, Waits

\* What a send comes to, and the row it was about.
LEMMA SendMoves ==
    ASSUME TypeInv, RowsKept, NEW a \in Actor,
           SendAccepted(a) \/ SendFailed(a) \/ SendRefused(a)
    PROVE  task' \in [Actor -> Busy \union {Idle}] /\ Placed'
<1>1. PICK result \in {"success", "failed"}, wait \in Waits : Result(a, result, wait)
  BY NextRetryTyped DEF SendAccepted, SendFailed, SendRefused, Waits
<1> DEFINE t == [task[a] EXCEPT !.step = "record", !.result = result, !.wait = wait]
<1>2. task[a].step = "send" /\ task[a] \in Tasks /\ Fit(a, task[a], rows)
  BY TaskKinds DEF TypeInv, Placed, SendAccepted, SendFailed, SendRefused
<1>3. /\ t \in Tasks /\ t.step = "record" /\ t.row = task[a].row /\ t.batch = task[a].batch
      /\ t.result = result
  BY <1>2 DEF Tasks, Steps, Results
<1>4. task' = [task EXCEPT ![a] = t]
  BY <1>1 DEF Result, Become
<1> HIDE DEF t
<1>5. task[a].batch \subseteq Row
  BY <1>2 DEF Tasks
<1>6. t \in Busy /\ Fit(a, t, rows')
  BY <1>2, <1>3, <1>5, BusyTyped DEF Fit, Steps, RowsKept
<1> QED BY <1>4, <1>6, TaskMove

LEMMA RecordMoves ==
    ASSUME TypeInv, RowsKept, NEW a \in Actor, Return(a), task[a].step = "record"
    PROVE  task' \in [Actor -> Busy \union {Idle}] /\ Placed'
<1>1. CASE a \in Admin
  BY <1>1, Ends DEF Return
<1>2. CASE a \notin Admin
  <2> DEFINE t == [Idle EXCEPT !.step = "batch", !.batch = task[a].batch,
                               !.elapsed = task[a].elapsed]
  <2>1. task[a] \in Tasks /\ Fit(a, task[a], rows)
    BY TaskKinds DEF TypeInv, Placed
  <2>2. task[a].batch \subseteq Row /\ task[a].elapsed \in 0 .. Budget + 1
    BY <2>1 DEF Tasks
  <2>3. t \in Tasks /\ t.step = "batch" /\ t.batch = task[a].batch
    BY <2>2, IdleTyped DEF Tasks, Steps
  <2>4. task' = [task EXCEPT ![a] = t]
    BY <1>2 DEF Return, Become
  <2> HIDE DEF t
  <2>5. a \in Worker
    BY <1>2 DEF Actor
  <2>6. t \in Busy /\ Fit(a, t, rows')
    BY <2>1, <2>2, <2>3, <2>5, BusyTyped DEF Fit, Steps, RowsKept
  <2> QED BY <2>4, <2>6, TaskMove
<1> QED BY <1>1, <1>2

LEMMA RetryMoves ==
    ASSUME TypeInv, RowsKept, NEW a \in Admin,
           (\E d \in Row : ClearRetrySchedule(a, d)) \/ CreateAttempt(a)
    PROVE  task' \in [Actor -> Busy \union {Idle}] /\ Placed'
<1>0. a \in Actor /\ SendTimeout \in 0 .. SendTimeout
  BY DeliveryAssumption DEF Actor
<1>1. ASSUME NEW d \in Row, ClearRetrySchedule(a, d)
      PROVE  task' \in [Actor -> Busy \union {Idle}] /\ Placed'
  <2> DEFINE t == [Idle EXCEPT !.step = "create", !.row = d, !.left = SendTimeout,
                               !.wait = rows[d].wait]
  <2>1. rows[d] # Absent /\ rows[d] \in Present
    BY <1>1, RowKinds DEF ClearRetrySchedule, TypeInv
  <2>2. rows[d].wait \in Waits
    BY <2>1 DEF Present, Waits
  <2>3. t \in Tasks /\ t.step = "create" /\ t.row = d /\ t.batch = {}
    BY <1>0, <2>2, IdleTyped DEF Tasks, Steps
  <2>4. task' = [task EXCEPT ![a] = t]
    BY <1>1 DEF ClearRetrySchedule, Become
  <2> HIDE DEF t
  <2>5. t \in Busy /\ Fit(a, t, rows')
    BY <2>1, <2>3, BusyTyped DEF Fit, Steps, RowsKept
  <2> QED BY <1>0, <2>4, <2>5, TaskMove
<1>2. CASE CreateAttempt(a)
  <2> DEFINE d == task[a].row
             new == Fresh(rows[d].callback, rows[d].attempt + 1, "sending")
  <2>1. PICK e \in next : /\ rows' = [rows EXCEPT ![e] = new]
                          /\ task' = [task EXCEPT ![a] =
                                [Idle EXCEPT !.step = "send", !.row = e, !.left = SendTimeout]]
    BY <1>2 DEF CreateAttempt, Become
  <2> DEFINE t == [Idle EXCEPT !.step = "send", !.row = e, !.left = SendTimeout]
  <2>2. e \in Row
    BY DEF next, free
  <2>3. new # Absent
    BY DEF Fresh, Absent
  <2>4. t \in Tasks /\ t.step = "send" /\ t.row = e /\ t.batch = {}
    BY <1>0, <2>2, IdleTyped DEF Tasks, Steps
  <2>5. task' = [task EXCEPT ![a] = t]
    BY <2>1
  <2> HIDE DEF t, new
  <2>6. rows'[e] # Absent
    BY <2>1, <2>2, <2>3 DEF TypeInv, TypeOK
  <2>7. t \in Busy /\ Fit(a, t, rows')
    BY <2>2, <2>4, <2>6, BusyTyped DEF Fit, Steps
  <2> QED BY <1>0, <2>5, <2>7, TaskMove
<1> QED BY <1>1, <1>2

\* What a tick does to a task.
LEMMA TickTask ==
    ASSUME TypeInv, Tick, NEW a \in Actor
    PROVE  /\ task' = [b \in Actor |-> task'[b]]
           /\ task'[a] \in Tasks
           /\ task'[a].step = task[a].step /\ task'[a].row = task[a].row
           /\ task'[a].batch = task[a].batch /\ task'[a].result = task[a].result
           /\ task'[a].wait = IF task[a].wait > 0 THEN task[a].wait - 1 ELSE task[a].wait
           /\ task'[a].left = IF task[a].left > 0 THEN task[a].left - 1 ELSE task[a].left
           /\ task'[a].elapsed = IF a \in Worker /\ task[a].step # "idle" /\ task[a].elapsed <= Budget
                                 THEN task[a].elapsed + 1 ELSE task[a].elapsed
           /\ task[a] = Idle => task'[a] = Idle
<1>1. /\ task' = [b \in Actor |-> task'[b]]
      /\ task[a] = Idle => task'[a] = Idle
      /\ task[a] # Idle => task'[a] = [task[a] EXCEPT
             !.elapsed = IF a \in Worker /\ @ <= Budget THEN @ + 1 ELSE @,
             !.left = IF @ > 0 THEN @ - 1 ELSE @,
             !.wait = IF @ > 0 THEN @ - 1 ELSE @]
  BY DEF Tick
<1>2. CASE task[a] = Idle
  BY <1>1, <1>2, IdleTyped DEF Idle, NoRetry
<1>3. CASE task[a] # Idle
  <2> DEFINE e == IF a \in Worker /\ task[a].elapsed <= Budget
                  THEN task[a].elapsed + 1 ELSE task[a].elapsed
             l == IF task[a].left > 0 THEN task[a].left - 1 ELSE task[a].left
             w == IF task[a].wait > 0 THEN task[a].wait - 1 ELSE task[a].wait
  <2>1. task[a] \in Tasks /\ task[a].step # "idle"
    BY <1>3, TaskKinds DEF TypeInv
  <2>2. task[a].elapsed \in 0 .. Budget + 1 /\ task[a].left \in 0 .. SendTimeout
        /\ task[a].wait \in Waits
    BY <2>1 DEF Tasks
  <2>3. e \in 0 .. Budget + 1
    BY <2>2, DeliveryAssumption
  <2>4. l \in 0 .. SendTimeout
    BY <2>2, DeliveryAssumption
  <2>5. w \in Waits
    BY <2>2, DeliveryAssumption DEF Waits, NoRetry
  <2>6. task'[a] = [task[a] EXCEPT !.elapsed = e, !.left = l, !.wait = w]
    BY <1>1, <1>3
  <2>7. /\ task'[a].elapsed = e /\ task'[a].left = l /\ task'[a].wait = w
        /\ task'[a].step = task[a].step /\ task'[a].row = task[a].row
        /\ task'[a].batch = task[a].batch /\ task'[a].result = task[a].result
    BY <2>1, <2>6 DEF Tasks
  <2>8. task'[a] \in Tasks
    <3> HIDE DEF e, l, w
    <3> QED BY <2>1, <2>3, <2>4, <2>5, <2>6 DEF Tasks
  <2> QED BY <1>1, <1>3, <2>1, <2>7, <2>8
<1> QED BY <1>2, <1>3

LEMMA TickMoves ==
    ASSUME TypeInv, RowsKept, Tick
    PROVE  task' \in [Actor -> Busy \union {Idle}] /\ Placed'
<1>1. ASSUME NEW a \in Actor PROVE task'[a] \in Busy \union {Idle} /\ Fit(a, task'[a], rows')
  <2>1. task[a] \in Tasks /\ Fit(a, task[a], rows)
    BY TaskKinds DEF TypeInv, Placed
  <2>2. task[a].batch \subseteq Row
    BY <2>1 DEF Tasks
  <2>3. /\ task'[a] \in Tasks
        /\ task'[a].step = task[a].step /\ task'[a].row = task[a].row
        /\ task'[a].batch = task[a].batch /\ task'[a].result = task[a].result
        /\ task[a] = Idle => task'[a] = Idle
    BY TickTask
  <2>4. task'[a] \in Busy \union {Idle}
    BY <2>3, TaskKinds, BusyTyped DEF TypeInv, Tasks
  <2> QED BY <2>1, <2>2, <2>3, <2>4 DEF Fit, RowsKept
<1>2. task' = [a \in Actor |-> task'[a]]
  BY DEF Tick
<1> QED BY <1>1, <1>2 DEF Placed

LEMMA TasksStep == TypeInv /\ [Next]_vars => task' \in [Actor -> Busy \union {Idle}] /\ Placed'
<1> SUFFICES ASSUME TypeInv, [Next]_vars, RowsKept
             PROVE  task' \in [Actor -> Busy \union {Idle}] /\ Placed'
  BY RowsStep
<1>1. CASE UNCHANGED task
  BY <1>1, TasksStay DEF TypeInv, TypeOK
<1>2. ASSUME NEW a \in Actor, Deliver(a)
      PROVE  task' \in [Actor -> Busy \union {Idle}] /\ Placed'
  BY <1>2, SendMoves, RecordMoves DEF Deliver, RecordResult, RecordLost
<1>3. ASSUME NEW w \in Worker, Run(w)
      PROVE  task' \in [Actor -> Busy \union {Idle}] /\ Placed'
  <2>1. w \in Actor
    BY DEF Actor
  <2> QED BY <1>2, <1>3, <2>1, BatchMoves, Ends DEF Run, ClaimFails, BatchDone, ReleaseClaimed
<1>4. ASSUME NEW a \in Admin, Retry(a)
      PROVE  task' \in [Actor -> Busy \union {Idle}] /\ Placed'
  <2>1. a \in Actor
    BY DEF Actor
  <2> QED BY <1>2, <1>4, <2>1, RetryMoves, Ends DEF Retry, CreateFails
<1>5. ASSUME NEW a \in Actor, Crash(a)
      PROVE  task' \in [Actor -> Busy \union {Idle}] /\ Placed'
  BY <1>5, Ends DEF Crash
<1> QED BY <1>1, <1>3, <1>4, <1>5, TickMoves DEF Next, Queue, Restart, vars

\* The row an actor works on has a callback.
LEMMA Subject ==
    ASSUME TypeInv, NEW a \in Actor, task[a].step \in {"send", "record", "create"}
    PROVE  /\ task[a].row \in Row /\ rows[task[a].row] # Absent
           /\ rows[task[a].row].callback \in Callback
<1>1. task[a].row \in Row /\ rows[task[a].row] # Absent
  BY DEF TypeInv, Placed, Fit
<1>2. rows[task[a].row] \in Present
  BY <1>1, RowKinds DEF TypeInv
<1> QED BY <1>1, <1>2 DEF Present

\* What is remembered of callbacks only grows.
HistoryGrows ==
    /\ notified' \subseteq Callback /\ delivered' \subseteq Callback
    /\ permanent' \subseteq Callback /\ dropped' \subseteq Callback
    /\ delivered \subseteq delivered' /\ permanent \subseteq permanent' /\ dropped \subseteq dropped'

LEMMA HistoryStep == TypeInv /\ [Next]_vars => HistoryGrows
<1> SUFFICES ASSUME TypeInv, [Next]_vars PROVE HistoryGrows
  OBVIOUS
<1> USE DEF HistoryGrows, history
<1>0. /\ notified \subseteq Callback /\ delivered \subseteq Callback
      /\ permanent \subseteq Callback /\ dropped \subseteq Callback
  BY DEF TypeInv, TypeOK
<1>1. CASE UNCHANGED <<notified, delivered, permanent, dropped>>
  BY <1>0, <1>1
<1>2. ASSUME NEW c \in Callback, Queue(c) PROVE HistoryGrows
  BY <1>0, <1>2 DEF Queue
<1>3. ASSUME NEW a \in Actor, Deliver(a) PROVE HistoryGrows
  <2>1. CASE SendAccepted(a)
    BY <1>0, <2>1, Subject DEF SendAccepted
  <2>2. CASE SendFailed(a)
    BY <1>0, <2>2, Subject DEF SendFailed
  <2>3. CASE SendRefused(a)
    BY <1>0, <2>3, Subject DEF SendRefused
  <2> QED BY <1>1, <1>3, <2>1, <2>2, <2>3 DEF Deliver, RecordResult, RecordLost
<1>4. ASSUME NEW a \in Actor, CreateFails(a) \/ Crash(a) PROVE HistoryGrows
  BY <1>0, <1>4, Subject DEF CreateFails, Crash, RetryBroken
<1>5. ASSUME NEW w \in Worker, Run(w) PROVE HistoryGrows
  <2>1. w \in Actor
    BY DEF Actor
  <2> QED BY <1>1, <1>3, <1>5, <2>1
          DEF Run, RequeueDueFailed, ClaimDue, ClaimFails, TakeRow, BatchDone, ReleaseClaimed
<1>6. ASSUME NEW a \in Admin, Retry(a) PROVE HistoryGrows
  <2>1. a \in Actor
    BY DEF Actor
  <2> QED BY <1>1, <1>3, <1>4, <1>6, <2>1 DEF Retry, ClearRetrySchedule, CreateAttempt
<1> QED BY <1>1, <1>2, <1>4, <1>5, <1>6 DEF Next, Restart, Tick, vars

LEMMA CountersStep == TypeInv /\ [Next]_vars => requeued' \in [Row -> Nat] /\ down' \subseteq Actor
<1> SUFFICES ASSUME TypeInv, [Next]_vars PROVE requeued' \in [Row -> Nat] /\ down' \subseteq Actor
  OBVIOUS
<1> USE DEF TypeInv, TypeOK, history
<1>1. CASE UNCHANGED <<requeued, down>>
  BY <1>1
<1>2. ASSUME NEW w \in Worker, RequeueDueFailed(w)
      PROVE  requeued' \in [Row -> Nat] /\ down' \subseteq Actor
  <2>1. PICK S \in SUBSET due : CountRequeued(S)
    BY <1>2, RequeueEffect
  <2>2. requeued' = [d \in Row |-> requeued[d] + IF d \in S THEN 1 ELSE 0]
    BY <2>1 DEF CountRequeued
  <2>3. \A d \in Row : requeued[d] \in Nat
    OBVIOUS
  <2>4. requeued' \in [Row -> Nat]
    BY <2>2, <2>3
  <2>5. UNCHANGED down
    BY <1>2 DEF RequeueDueFailed
  <2> QED BY <2>4, <2>5
<1>3. ASSUME NEW a \in Actor, Crash(a) \/ Restart(a)
      PROVE  requeued' \in [Row -> Nat] /\ down' \subseteq Actor
  BY <1>3 DEF Crash, Restart
<1>4. ASSUME NEW a, Deliver(a) PROVE UNCHANGED <<requeued, down>>
  BY <1>4 DEF Deliver, SendAccepted, SendFailed, SendRefused, RecordResult, RecordLost
<1>5. ASSUME NEW w \in Worker, Run(w), ~ RequeueDueFailed(w) PROVE UNCHANGED <<requeued, down>>
  BY <1>4, <1>5 DEF Run, ClaimDue, ClaimFails, TakeRow, BatchDone, ReleaseClaimed
<1>6. ASSUME NEW a \in Admin, Retry(a) PROVE UNCHANGED <<requeued, down>>
  BY <1>4, <1>6 DEF Retry, ClearRetrySchedule, CreateAttempt, CreateFails
<1>7. ASSUME (\E c \in Callback : Queue(c)) \/ Tick PROVE UNCHANGED <<requeued, down>>
  BY <1>7 DEF Queue, Tick
<1> QED BY <1>1, <1>2, <1>3, <1>5, <1>6, <1>7 DEF Next, vars

LEMMA TypeStep == TypeInv /\ [Next]_vars => TypeInv'
BY RowsStep, TasksStep, HistoryStep, CountersStep DEF TypeInv, TypeOK, RowsKept, HistoryGrows

LEMMA TypeStart == Init => TypeInv
BY IdleTyped DEF Init, TypeInv, TypeOK, Placed, Fit

\* The variables keep their types (TypeOK): in particular ages, countdowns and
\* schedules stay within the times of the code.
THEOREM DeliveryTypeCorrect == Spec => []TypeOK
<1>1. TypeInv => TypeOK
  BY DEF TypeInv
<1> QED BY <1>1, TypeStart, TypeStep, PTL DEF Spec

-----------------------------------------------------------------------------
(* Nothing is stranded.                                                    *)

\* A row that carries its callback on, or an admin that took the schedule of
\* one and is about to store the attempt that replaces it.
Carries(d) == Live(d) \/ Exhausted(d)
Resending(a) == task[a].step = "create" /\ task[a].wait # NoRetry
Carried(c) == \/ \E d \in Row : rows[d].callback = c /\ Carries(d)
              \/ \E a \in Admin : Resending(a) /\ rows[task[a].row].callback = c

\* A failure without a next attempt is one for good, or it was the last.
Final(a) == \/ task[a].result = "success"
            \/ task[a].wait # NoRetry
            \/ rows[task[a].row].callback \in permanent
            \/ rows[task[a].row].attempt >= MaxAttempts

StrandInv ==
    /\ \A c \in notified \ (delivered \union permanent \union dropped) : Carried(c)
    /\ \A d \in Row : rows[d].status = "success" => rows[d].callback \in delivered
    /\ \A a \in Actor : task[a].step = "record" =>
          /\ task[a].result = "success" => rows[task[a].row].callback \in delivered
          /\ Final(a)

LEMMA StrandStart == Init => StrandInv
BY IdleTyped DEF Init, StrandInv, Absent

Over(c) == c \in delivered \union permanent \union dropped

\* Statements of the job and of a retry that leave the row of a callback that
\* is carried on to carry it on, or put another in its place.
LEMMA RowCarried ==
    ASSUME TypeInv, StrandInv, [Next]_vars, NEW d \in Row, NEW c,
           Carries(d), rows[d].callback = c
    PROVE  Carried(c)' \/ Over(c)'
<1>0. /\ rows[d] # Absent /\ rows[d] \in Present /\ rows'[d] # Absent /\ rows'[d] \in Present
      /\ rows'[d].callback = c /\ rows'[d].attempt = rows[d].attempt
      /\ Over(c) => Over(c)'
  BY RowsStep, HistoryStep, RowKinds
     DEF TypeInv, Carries, Live, Exhausted, Absent, RowsKept, HistoryGrows, Over
<1> USE DEF Carried, Carries
<1>1. ASSUME rows'[d] = rows[d] PROVE Carried(c)'
  BY <1>0, <1>1 DEF Live, Exhausted
<1>2. ASSUME NEW w \in Worker, RequeueDueFailed(w) PROVE Carried(c)'
  <2>1. PICK S \in SUBSET due, N \in SUBSET free : \E source \in [N -> S] :
              /\ \A x \in S : \E e \in N : source[e] = x
              /\ rows' = [x \in Row |-> rows'[x]]
              /\ \A x \in N : rows'[x] = NewAttempt(source[x]) /\ rows'[x] \in Present
              /\ \A x \in S : rows'[x] = [rows[x] EXCEPT !.wait = NoRetry, !.age = 0]
              /\ \A x \in Row \ (N \union S) : rows'[x] = rows[x]
              /\ CountRequeued(S)
    BY <1>2, RequeueEffect
  <2>2. CASE d \in S
    <3>1. PICK e \in N : rows'[e] = NewAttempt(d)
      BY <2>1, <2>2, ZenonT(40)
    <3>2. rows'[e].callback = c /\ rows'[e].status = "pending" /\ e \in Row
      BY <3>1 DEF NewAttempt, Fresh, free
    <3> QED BY <3>2 DEF Live
  <2>3. d \notin N
    BY <1>0 DEF free
  <2> QED BY <1>1, <2>1, <2>2, <2>3
<1>3. ASSUME NEW a, ClaimDue(a) \/ ReleaseClaimed(a) PROVE Carried(c)'
  <2>1. \/ rows'[d] = rows[d]
        \/ rows'[d].status \in {"pending", "sending"}
    <3>1. CASE ClaimDue(a)
      <4>1. PICK B \in SUBSET claimable : rows' = [x \in Row |->
                IF x \in B THEN [rows[x] EXCEPT !.status = "sending", !.age = 0] ELSE rows[x]]
        BY <3>1 DEF ClaimDue
      <4>2. rows'[d] = rows[d] \/ rows'[d] = [rows[d] EXCEPT !.status = "sending", !.age = 0]
        BY <4>1
      <4> QED BY <1>0, <4>2 DEF Present
    <3>2. CASE ReleaseClaimed(a)
      <4>1. rows'[d] = rows[d] \/ rows'[d] = [rows[d] EXCEPT !.status = "pending", !.age = 0]
        BY <3>2 DEF ReleaseClaimed
      <4> QED BY <1>0, <4>1 DEF Present
    <3> QED BY <1>3, <3>1, <3>2
  <2> QED BY <1>0, <1>1, <2>1 DEF Live
<1>4. ASSUME NEW a \in Actor, RecordResult(a), rows'[d] # rows[d] PROVE Carried(c)' \/ Over(c)'
  <2>1. /\ d = task[a].row /\ rows'[d].status = task[a].result /\ rows'[d].wait = task[a].wait
        /\ task[a].step = "record"
    BY <1>0, <1>4 DEF RecordResult, TypeInv, TypeOK, Present
  <2>2. task[a].result \in {"success", "failed"}
    BY <2>1, TaskKinds DEF TypeInv, Placed, Fit, Tasks, Results
  <2>3. /\ task[a].result = "success" => Over(c)
        /\ \/ task[a].result = "success" \/ task[a].wait # NoRetry
           \/ Over(c) \/ rows[d].attempt >= MaxAttempts
    BY <2>1 DEF StrandInv, Final, Over
  <2> QED BY <1>0, <2>1, <2>2, <2>3 DEF Live, Exhausted
<1>5. ASSUME NEW a \in Admin, NEW x \in Row, ClearRetrySchedule(a, x), rows'[d] # rows[d]
      PROVE  Carried(c)'
  <2>1. /\ x = d /\ rows[d].status = "failed" /\ rows' = [rows EXCEPT ![d].wait = NoRetry]
        /\ task' = [task EXCEPT ![a] = [Idle EXCEPT !.step = "create", !.row = d,
                                            !.left = SendTimeout, !.wait = rows[d].wait]]
    BY <1>5 DEF ClearRetrySchedule, Become, TypeInv, TypeOK
  <2>2. CASE Exhausted(d)
    <3>1. rows'[d].status = "failed"
      BY <1>0, <2>1 DEF TypeInv, TypeOK, Present
    <3> QED BY <1>0, <2>2, <3>1 DEF Exhausted
  <2>3. CASE rows[d].wait # NoRetry
    <3>1. task'[a].step = "create" /\ task'[a].wait # NoRetry /\ task'[a].row = d
      BY <2>1, <2>3, IdleTyped DEF Actor, TypeInv, TypeOK, Tasks
    <3> QED BY <1>0, <3>1 DEF Resending
  <2> QED BY <2>1, <2>2, <2>3 DEF Live
<1>6. ASSUME Tick PROVE Carried(c)'
  <2>1. rows'[d].status = rows[d].status
        /\ rows'[d].wait = IF rows[d].wait > 0 THEN rows[d].wait - 1 ELSE rows[d].wait
    BY <1>0, <1>6 DEF Tick, Present
  <2>2. rows[d].wait \in Waits
    BY <1>0 DEF Present, Waits
  <2>3. rows[d].wait # NoRetry => rows'[d].wait # NoRetry
    BY <2>1, <2>2, DeliveryAssumption DEF Waits, NoRetry
  <2> QED BY <1>0, <2>1, <2>3 DEF Live, Exhausted
<1>7. ASSUME (\E e \in Callback : Queue(e)) \/ (\E a : CreateAttempt(a)) PROVE Carried(c)'
  <2>1. rows'[d] = rows[d]
    BY <1>0, <1>7 DEF Queue, CreateAttempt, next, free, TypeInv, TypeOK
  <2> QED BY <1>1, <2>1
<1>8. ASSUME NEW a \in Actor, Deliver(a) PROVE Carried(c)' \/ Over(c)'
  BY <1>1, <1>4, <1>8 DEF Deliver, SendAccepted, SendFailed, SendRefused, RecordLost
<1>9. ASSUME NEW w \in Worker, Run(w) PROVE Carried(c)' \/ Over(c)'
  <2>1. w \in Actor
    BY DEF Actor
  <2> QED BY <1>1, <1>2, <1>3, <1>8, <1>9, <2>1 DEF Run, ClaimFails, TakeRow, BatchDone
<1>10. ASSUME NEW a \in Admin, Retry(a) PROVE Carried(c)' \/ Over(c)'
  <2>1. a \in Actor
    BY DEF Actor
  <2> QED BY <1>1, <1>5, <1>7, <1>8, <1>10, <2>1 DEF Retry, CreateFails
<1> QED BY <1>1, <1>6, <1>7, <1>9, <1>10 DEF Next, Crash, Restart, vars

\* A retry that took the schedule stores its attempt or is recorded as broken.
LEMMA RetryCarried ==
    ASSUME TypeInv, StrandInv, [Next]_vars, NEW a \in Admin, NEW c,
           Resending(a), rows[task[a].row].callback = c
    PROVE  Carried(c)' \/ Over(c)'
<1> DEFINE d == task[a].row
<1>0. /\ a \in Actor /\ d \in Row /\ rows[d] # Absent /\ rows'[d].callback = c
      /\ task[a].step = "create" /\ task[a].wait # NoRetry
  <2>1. a \in Actor /\ task[a].step = "create" /\ task[a].wait # NoRetry
    BY DEF Actor, Resending
  <2> QED BY <2>1, Subject, RowsStep DEF RowsKept
<1>1. ASSUME task'[a] = task[a] PROVE Carried(c)'
  BY <1>0, <1>1 DEF Carried, Resending
<1>2. ASSUME NEW b \in Actor, NEW t, Become(b, t), b # a PROVE Carried(c)'
  BY <1>0, <1>1, <1>2 DEF Become, TypeInv, TypeOK
<1>3. CASE Tick
  <2>1. /\ task'[a].step = task[a].step /\ task'[a].row = d
        /\ task'[a].wait = IF task[a].wait > 0 THEN task[a].wait - 1 ELSE task[a].wait
    BY <1>0, <1>3, TickTask
  <2>2. task[a].wait \in Waits
    BY <1>0, TaskKinds DEF TypeInv, Tasks
  <2>3. task'[a].wait # NoRetry
    BY <1>0, <2>1, <2>2, DeliveryAssumption DEF Waits, NoRetry
  <2> QED BY <1>0, <2>1, <2>3 DEF Carried, Resending
<1>4. CASE CreateAttempt(a)
  <2> DEFINE new == Fresh(rows[d].callback, rows[d].attempt + 1, "sending")
  <2>1. PICK e \in next : rows' = [rows EXCEPT ![e] = new]
    BY <1>4 DEF CreateAttempt
  <2>2. e \in Row /\ rows'[e] = new
    BY <2>1 DEF next, free, TypeInv, TypeOK
  <2>3. new.callback = c /\ new.status = "sending"
    BY DEF Fresh
  <2> HIDE DEF new
  <2> QED BY <2>2, <2>3 DEF Carried, Carries, Live
<1>5. CASE CreateFails(a) \/ Crash(a)
  BY <1>0, <1>5 DEF CreateFails, Crash, RetryBroken, Over
<1>6. ASSUME NEW b \in Actor, Deliver(b) PROVE \E t : Become(b, t) /\ b # a
  BY <1>0, <1>6 DEF Deliver, SendAccepted, SendFailed, SendRefused, RecordResult, RecordLost,
     Result, Return, Done
<1>7. ASSUME NEW w \in Worker, Run(w) PROVE Carried(c)'
  <2>1. w \in Actor /\ w # a
    BY DeliveryAssumption DEF Actor
  <2>2. ASSUME ~ Deliver(w) PROVE \E t : Become(w, t)
    BY <1>7, <2>2 DEF Run, RequeueDueFailed, ClaimDue, ClaimFails, TakeRow, BatchDone,
       ReleaseClaimed, Done
  <2> QED BY <1>2, <1>6, <2>1, <2>2
<1>8. ASSUME NEW b \in Admin, Retry(b), ~ CreateAttempt(a), ~ CreateFails(a) PROVE Carried(c)'
  <2>1. b \in Actor
    BY DEF Actor
  <2>2. CASE Deliver(b)
    BY <1>2, <1>6, <2>1, <2>2
  <2>3. ASSUME NEW x \in Row, ClearRetrySchedule(b, x) PROVE Carried(c)'
    <3>1. b # a
      BY <1>0, <2>3, IdleTyped DEF ClearRetrySchedule, Free
    <3> QED BY <1>2, <2>1, <2>3, <3>1 DEF ClearRetrySchedule
  <2>4. CASE CreateAttempt(b) \/ CreateFails(b)
    <3>1. b # a
      BY <1>8, <2>4
    <3> QED BY <1>2, <2>1, <2>4, <3>1 DEF CreateAttempt, CreateFails, Done
  <2> QED BY <1>8, <2>2, <2>3, <2>4 DEF Retry
<1>9. ASSUME NEW b \in Actor, Crash(b), b # a PROVE Carried(c)'
  BY <1>2, <1>9 DEF Crash, Done
<1> QED BY <1>1, <1>3, <1>4, <1>5, <1>7, <1>8, <1>9 DEF Next, Queue, Restart, vars

\* Only a result makes a row a success, and results of success are true.
LEMMA SuccessStep ==
    ASSUME TypeInv, StrandInv, [Next]_vars, NEW d \in Row, rows'[d].status = "success"
    PROVE  rows'[d].callback \in delivered'
<1>0. ASSUME rows[d].status = "success" PROVE rows'[d].callback \in delivered'
  <2>1. rows[d] # Absent /\ rows[d].callback \in delivered
    BY <1>0 DEF StrandInv, Absent
  <2> QED BY <2>1, RowsStep, HistoryStep DEF RowsKept, HistoryGrows
<1>1. ASSUME rows'[d] = rows[d] PROVE rows'[d].callback \in delivered'
  BY <1>0, <1>1
<1>2. ASSUME NEW w \in Worker, RequeueDueFailed(w) PROVE rows[d].status = "success"
  <2>1. PICK S \in SUBSET due, N \in SUBSET free : \E source \in [N -> S] :
              /\ \A x \in S : \E e \in N : source[e] = x
              /\ rows' = [x \in Row |-> rows'[x]]
              /\ \A x \in N : rows'[x] = NewAttempt(source[x]) /\ rows'[x] \in Present
              /\ \A x \in S : rows'[x] = [rows[x] EXCEPT !.wait = NoRetry, !.age = 0]
              /\ \A x \in Row \ (N \union S) : rows'[x] = rows[x]
              /\ CountRequeued(S)
    BY <1>2, RequeueEffect
  <2>2. ASSUME d \in N PROVE FALSE
    <3>1. PICK source \in [N -> S] : \A x \in N : rows'[x] = NewAttempt(source[x])
      BY <2>1
    <3>2. rows'[d] = NewAttempt(source[d])
      BY <2>2, <3>1
    <3>3. rows'[d].status = "pending"
      BY <3>2 DEF NewAttempt, Fresh
    <3> QED BY <3>3
  <2>3. CASE d \in S
    <3>1. rows[d] \in Present
      BY <2>3, RowKinds DEF due, TypeInv, Absent
    <3> QED BY <2>1, <2>3, <3>1, ZenonT(40) DEF Present
  <2> QED BY <2>1, <2>2, <2>3
<1>3. ASSUME NEW a, ClaimDue(a) \/ ReleaseClaimed(a) \/ (\E x \in Row : ClearRetrySchedule(a, x))
      PROVE  rows[d].status = "success"
  <2>1. rows[d] \in Present \union {Absent} /\ DOMAIN rows = Row
    BY DEF TypeInv, TypeOK
  <2>2. CASE ClaimDue(a)
    <3>1. rows'[d] = rows[d] \/ rows'[d] = [rows[d] EXCEPT !.status = "sending", !.age = 0]
      BY <2>2 DEF ClaimDue
    <3> QED BY <2>1, <3>1 DEF Present, Absent
  <2>3. CASE ReleaseClaimed(a)
    <3>1. rows'[d] = rows[d] \/ rows'[d] = [rows[d] EXCEPT !.status = "pending", !.age = 0]
      BY <2>3 DEF ReleaseClaimed
    <3> QED BY <2>1, <3>1 DEF Present, Absent
  <2>4. ASSUME NEW x \in Row, ClearRetrySchedule(a, x) PROVE rows[d].status = "success"
    <3>1. rows'[d] = rows[d] \/ rows'[d] = [rows[d] EXCEPT !.wait = NoRetry]
      BY <2>1, <2>4 DEF ClearRetrySchedule
    <3> QED BY <2>1, <3>1 DEF Present, Absent
  <2> QED BY <1>3, <2>2, <2>3, <2>4
<1>4. ASSUME NEW a \in Actor, RecordResult(a), rows'[d] # rows[d]
      PROVE  rows'[d].callback \in delivered'
  <2>1. /\ d = task[a].row /\ rows'[d].status = task[a].result /\ task[a].step = "record"
        /\ rows'[d].callback = rows[d].callback
    <3>1. rows[d] # Absent /\ task[a].row = d
      BY <1>4, Subject DEF RecordResult, TypeInv, TypeOK
    <3>2. rows[d] \in Present
      BY <3>1, RowKinds DEF TypeInv
    <3> QED BY <1>4, <3>1, <3>2 DEF RecordResult, TypeInv, TypeOK, Present
  <2>2. rows[d].callback \in delivered
    BY <2>1 DEF StrandInv
  <2> QED BY <2>1, <2>2, HistoryStep DEF HistoryGrows
<1>5. ASSUME (\E e \in Callback : Queue(e)) \/ (\E a : CreateAttempt(a))
      PROVE  rows[d].status = "success"
  <2>1. DOMAIN rows = Row
    BY DEF TypeInv, TypeOK
  <2>2. PICK e \in next : \E c, n :
            \/ rows' = [rows EXCEPT ![e] = Fresh(c, n, "pending")]
            \/ rows' = [rows EXCEPT ![e] = Fresh(c, n, "sending")]
    BY <1>5 DEF Queue, CreateAttempt
  <2>3. d = e => rows'[d].status \in {"pending", "sending"}
    BY <2>1, <2>2 DEF Fresh
  <2>4. d # e => rows'[d] = rows[d]
    BY <2>1, <2>2
  <2> QED BY <2>3, <2>4
<1>6. ASSUME Tick PROVE rows[d].status = "success"
  <2>1. rows[d] \in Present \union {Absent}
    BY DEF TypeInv, TypeOK
  <2> QED BY <1>6, <2>1 DEF Tick, Present, Absent
<1>7. ASSUME NEW a \in Actor, Deliver(a) PROVE rows'[d].callback \in delivered'
  BY <1>1, <1>4, <1>7 DEF Deliver, SendAccepted, SendFailed, SendRefused, RecordLost
<1>8. ASSUME NEW w \in Worker, Run(w) PROVE rows'[d].callback \in delivered'
  <2>1. w \in Actor
    BY DEF Actor
  <2> QED BY <1>0, <1>1, <1>2, <1>3, <1>7, <1>8, <2>1 DEF Run, ClaimFails, TakeRow, BatchDone
<1>9. ASSUME NEW a \in Admin, Retry(a) PROVE rows'[d].callback \in delivered'
  <2>1. a \in Actor
    BY DEF Actor
  <2> QED BY <1>0, <1>1, <1>3, <1>5, <1>7, <1>9, <2>1 DEF Retry, CreateFails
<1> QED BY <1>0, <1>1, <1>5, <1>6, <1>8, <1>9 DEF Next, Crash, Restart, vars

\* What is about to be recorded of a row.
Recorded(a) ==
    /\ task[a].result = "success" => rows[task[a].row].callback \in delivered
    /\ Final(a)

\* The outcome of a send is as the merchant's answer and the attempts have it.
LEMMA SendRecorded ==
    ASSUME TypeInv, NEW a \in Actor, SendAccepted(a) \/ SendFailed(a) \/ SendRefused(a)
    PROVE  Recorded(a)'
<1> DEFINE d == task[a].row
<1>0. /\ rows' = rows /\ task[a] \in Tasks /\ d \in Row
      /\ rows[d].callback \in Callback /\ rows[d].attempt \in Nat
  <2>1. task[a].step = "send" /\ rows' = rows
    BY DEF SendAccepted, SendFailed, SendRefused
  <2>2. d \in Row /\ rows[d] # Absent
    BY <2>1, Subject
  <2>3. rows[d] \in Present
    BY <2>2, RowKinds DEF TypeInv
  <2> QED BY <2>1, <2>2, <2>3, TaskKinds DEF Present, TypeInv
<1>1. ASSUME NEW result \in Results, NEW wait \in Waits, Result(a, result, wait)
      PROVE  task'[a].result = result /\ task'[a].wait = wait /\ task'[a].row = d
  BY <1>0, <1>1 DEF Result, Become, TypeInv, TypeOK, Tasks
<1>2. CASE SendAccepted(a)
  <2>1. task'[a].result = "success" /\ task'[a].row = d
    BY <1>1, <1>2 DEF SendAccepted, Results, Waits
  <2>2. rows[d].callback \in delivered'
    BY <1>2 DEF SendAccepted
  <2> QED BY <1>0, <2>1, <2>2 DEF Recorded, Final
<1>3. CASE SendFailed(a)
  <2>1. task'[a].result = "failed" /\ task'[a].row = d /\ task'[a].wait = nextRetryAt(rows[d].attempt)
    BY <1>1, <1>3, NextRetryTyped DEF SendFailed, Results
  <2>2. rows[d].attempt >= MaxAttempts \/ task'[a].wait # NoRetry
    BY <1>0, <2>1, DeliveryAssumption DEF nextRetryAt, NoRetry
  <2> QED BY <1>0, <2>1, <2>2 DEF Recorded, Final
<1>4. CASE SendRefused(a)
  <2>1. task'[a].result = "failed" /\ task'[a].row = d
    BY <1>1, <1>4 DEF SendRefused, Results, Waits
  <2>2. rows[d].callback \in permanent'
    BY <1>4 DEF SendRefused
  <2> QED BY <1>0, <2>1, <2>2 DEF Recorded, Final
<1> QED BY <1>2, <1>3, <1>4

LEMMA RecordedStep ==
    ASSUME TypeInv, StrandInv, [Next]_vars, NEW a \in Actor, task'[a].step = "record"
    PROVE  Recorded(a)'
<1>1. ASSUME task[a].step = "record", task'[a].row = task[a].row, task'[a].result = task[a].result,
             task[a].wait # NoRetry => task'[a].wait # NoRetry
      PROVE  Recorded(a)'
  <2>1. /\ task[a].row \in Row /\ rows[task[a].row] # Absent
        /\ Recorded(a)
    BY <1>1, Subject DEF StrandInv, Recorded
  <2>2. /\ rows'[task[a].row].callback = rows[task[a].row].callback
        /\ rows'[task[a].row].attempt = rows[task[a].row].attempt
    BY <2>1, RowsStep DEF RowsKept
  <2> QED BY <1>1, <2>1, <2>2, HistoryStep DEF Recorded, Final, HistoryGrows
<1>2. ASSUME task'[a] = task[a] PROVE Recorded(a)'
  BY <1>1, <1>2
<1>3. ASSUME NEW b \in Actor, NEW t, Become(b, t), t.step # "record" PROVE Recorded(a)'
  <2>1. b # a
    BY <1>3 DEF Become, TypeInv, TypeOK
  <2> QED BY <1>2, <1>3, <2>1 DEF Become, TypeInv, TypeOK
<1>4. ASSUME NEW b \in Actor, Done(b) PROVE Recorded(a)'
  BY <1>3, <1>4, IdleTyped DEF Done
<1>5. CASE Tick
  <2>1. /\ task'[a].step = task[a].step /\ task'[a].row = task[a].row
        /\ task'[a].result = task[a].result
        /\ task'[a].wait = IF task[a].wait > 0 THEN task[a].wait - 1 ELSE task[a].wait
    BY <1>5, TickTask
  <2>2. task[a].wait \in Waits
    BY TaskKinds DEF TypeInv, Tasks
  <2>3. task[a].wait # NoRetry => task'[a].wait # NoRetry
    BY <2>1, <2>2, DeliveryAssumption DEF Waits, NoRetry
  <2> QED BY <1>1, <2>1, <2>3
<1>6. ASSUME NEW b \in Actor, Deliver(b) PROVE Recorded(a)'
  <2>1. CASE SendAccepted(b) \/ SendFailed(b) \/ SendRefused(b)
    <3>1. CASE b = a
      BY <2>1, <3>1, SendRecorded
    <3>2. CASE b # a
      BY <1>2, <2>1, <3>2
         DEF SendAccepted, SendFailed, SendRefused, Result, Become, TypeInv, TypeOK
    <3> QED BY <3>1, <3>2
  <2>2. CASE RecordResult(b) \/ RecordLost(b)
    <3>1. Return(b)
      BY <2>2 DEF RecordResult, RecordLost
    <3>2. CASE b \in Admin
      BY <1>4, <3>1, <3>2 DEF Return
    <3>3. CASE b \notin Admin
      <4> DEFINE t == [Idle EXCEPT !.step = "batch", !.batch = task[b].batch,
                                   !.elapsed = task[b].elapsed]
      <4>1. Become(b, t) /\ t.step = "batch"
        BY <3>1, <3>3, IdleTyped DEF Return, Tasks
      <4> QED BY <1>3, <4>1
    <3> QED BY <3>2, <3>3
  <2> QED BY <1>6, <2>1, <2>2 DEF Deliver
<1>7. ASSUME NEW w \in Worker, Run(w) PROVE Recorded(a)'
  <2>1. w \in Actor
    BY DEF Actor
  <2>2. CASE RequeueDueFailed(w)
    <3>1. [Idle EXCEPT !.step = "claim"].step # "record"
      BY IdleTyped DEF Tasks
    <3> QED BY <1>3, <2>1, <2>2, <3>1 DEF RequeueDueFailed
  <2>3. CASE ClaimDue(w)
    <3>1. PICK B : Become(w, [Idle EXCEPT !.step = "batch", !.batch = B])
      BY <2>3 DEF ClaimDue
    <3>2. [Idle EXCEPT !.step = "batch", !.batch = B].step # "record"
      BY IdleTyped DEF Tasks
    <3> QED BY <1>3, <2>1, <3>1, <3>2
  <2>4. CASE TakeRow(w)
    <3>1. PICK d, B : Become(w, [task[w] EXCEPT !.step = "send", !.row = d, !.batch = B,
                                                !.left = SendTimeout])
      BY <2>4 DEF TakeRow
    <3>2. task[w] \in Tasks
      BY <2>1, TaskKinds DEF TypeInv
    <3>3. [task[w] EXCEPT !.step = "send", !.row = d, !.batch = B, !.left = SendTimeout].step # "record"
      BY <3>2 DEF Tasks
    <3> QED BY <1>3, <2>1, <3>1, <3>3
  <2> QED BY <1>4, <1>6, <1>7, <2>1, <2>2, <2>3, <2>4
          DEF Run, ClaimFails, BatchDone, ReleaseClaimed
<1>8. ASSUME NEW b \in Admin, Retry(b) PROVE Recorded(a)'
  <2>1. b \in Actor
    BY DEF Actor
  <2>2. ASSUME NEW d \in Row, ClearRetrySchedule(b, d) PROVE Recorded(a)'
    <3>1. [Idle EXCEPT !.step = "create", !.row = d, !.left = SendTimeout,
                       !.wait = rows[d].wait].step # "record"
      BY IdleTyped DEF Tasks
    <3> QED BY <1>3, <2>1, <2>2, <3>1 DEF ClearRetrySchedule
  <2>3. CASE CreateAttempt(b)
    <3>1. PICK e : Become(b, [Idle EXCEPT !.step = "send", !.row = e, !.left = SendTimeout])
      BY <2>3 DEF CreateAttempt
    <3>2. [Idle EXCEPT !.step = "send", !.row = e, !.left = SendTimeout].step # "record"
      BY IdleTyped DEF Tasks
    <3> QED BY <1>3, <2>1, <3>1, <3>2
  <2> QED BY <1>4, <1>6, <1>8, <2>1, <2>2, <2>3 DEF Retry, CreateFails
<1>9. ASSUME NEW b \in Actor, Crash(b) PROVE Recorded(a)'
  BY <1>4, <1>9 DEF Crash
<1> QED BY <1>2, <1>5, <1>7, <1>8, <1>9 DEF Next, Queue, Restart, vars

LEMMA StrandStep == TypeInv /\ StrandInv /\ [Next]_vars => StrandInv'
<1> SUFFICES ASSUME TypeInv, StrandInv, [Next]_vars PROVE StrandInv'
  OBVIOUS
<1>1. ASSUME NEW c \in notified', ~ Over(c)' PROVE Carried(c)'
  <2>1. CASE c \in notified
    <3>1. Carried(c)
      BY <1>1, <2>1, HistoryStep DEF StrandInv, Over, HistoryGrows
    <3> QED BY <1>1, <3>1, RowCarried, RetryCarried DEF Carried
  <2>2. CASE c \notin notified
    <3>1. ASSUME NEW a, Deliver(a) \/ Run(a) \/ Retry(a) PROVE UNCHANGED notified
      BY <3>1 DEF Run, Retry, Deliver, RequeueDueFailed, ClaimDue, ClaimFails, TakeRow, BatchDone,
         ReleaseClaimed, SendAccepted, SendFailed, SendRefused, RecordResult, RecordLost,
         ClearRetrySchedule, CreateAttempt, CreateFails, history
    <3>2. PICK e \in Callback : Queue(e)
      BY <1>1, <2>2, <3>1 DEF Next, Crash, Restart, Tick, vars, history
    <3>3. c = e
      BY <1>1, <2>2, <3>2 DEF Queue
    <3>4. PICK d \in next : rows' = [rows EXCEPT ![d] = Fresh(c, 1, "pending")]
      BY <3>2, <3>3 DEF Queue
    <3>5. d \in Row /\ rows'[d] = Fresh(c, 1, "pending")
      BY <3>4 DEF next, free, TypeInv, TypeOK
    <3>6. rows'[d].callback = c /\ rows'[d].status = "pending"
      BY <3>5 DEF Fresh
    <3> QED BY <3>5, <3>6 DEF Carried, Carries, Live
  <2> QED BY <2>1, <2>2
<1>2. ASSUME NEW a \in Actor, task'[a].step = "record" PROVE Recorded(a)'
  BY <1>2, RecordedStep
<1> QED BY <1>1, <1>2, SuccessStep DEF StrandInv, Over, Recorded

\* At least once: whatever crashes, overlaps or is retried by hand, a queued
\* callback has reached its merchant, has failed for good, or something still
\* acts on it, unless a manual retry broke off (NothingStranded).
THEOREM CallbacksAreCarried == Spec => []NothingStranded
<1>1. StrandInv => NothingStranded
  BY DEF StrandInv, NothingStranded, Carried, Carries, Resending, Alive
<1> QED BY <1>1, TypeStart, TypeStep, StrandStart, StrandStep, PTL DEF Spec
-----------------------------------------------------------------------------
(* A failure is requeued once.                                             *)

\* A task has let go of row d before n ticks are over: it has its time left
\* for the row it works on, and takes rows of its batch while in its budget.
LetGo(t, d, n) ==
    /\ t.step \in {"send", "record"} /\ t.row = d => t.left < n
    /\ d \in t.batch /\ t.elapsed <= Budget => Budget - t.elapsed + SendTimeout < n

Scheduled(d) == rows[d].status = "failed" /\ rows[d].wait # NoRetry

\* Whoever still works on a scheduled row ends before the schedule does, so
\* that nothing is left to schedule the row again once it was requeued.
OnceInv ==
    /\ \A d \in Row : Scheduled(d) => \A a \in Actor : LetGo(task[a], d, rows[d].wait)
    /\ \A d \in Row : requeued[d] > 0 =>
          /\ requeued[d] = 1
          /\ rows[d].status = "failed" /\ rows[d].wait = NoRetry
          /\ \A a \in Actor : LetGo(task[a], d, 0)
    /\ \A a \in Actor : task[a].step = "record" /\ task[a].wait # NoRetry =>
          task[a].wait >= RetryDelay - SendTimeout + task[a].left

LEMMA OnceStart == Init => OnceInv
BY IdleTyped DEF Init, OnceInv, Scheduled, Absent

\* The retry delay outlasts all that an actor may still do.
LEMMA DelayOutlasts ==
    ASSUME NEW t \in Tasks, NEW d, NEW n \in Int, n >= RetryDelay - SendTimeout
    PROVE  LetGo(t, d, n)
<1>1. t.left \in 0 .. SendTimeout /\ t.elapsed \in 0 .. Budget + 1
  BY DEF Tasks
<1> QED BY <1>1, DeliveryAssumption DEF LetGo

\* How task s turns into task t while no time passes.
Turn(s, t) ==
    \/ t = s
    \/ /\ t.step \notin {"send", "record"}
       /\ \/ t.batch = {}
          \/ t.batch = s.batch /\ t.elapsed = s.elapsed
          \/ t.batch \subseteq claimable
    \/ /\ t.step = "send" /\ t.row \in s.batch /\ t.left = SendTimeout /\ s.elapsed <= Budget
       /\ t.batch \subseteq s.batch /\ t.elapsed = s.elapsed
    \/ t.step = "send" /\ t.row \in free /\ t.batch = {}
    \/ /\ s.step = "send" /\ t.step = "record" /\ t.row = s.row /\ t.left = s.left
       /\ t.batch = s.batch /\ t.elapsed = s.elapsed /\ t.wait \in {NoRetry, RetryDelay}

LEMMA Turns ==
    ASSUME TypeInv, [Next]_vars, ~ Tick, NEW a \in Actor
    PROVE  Turn(task[a], task'[a])
<1> DEFINE Goal == Turn(task[a], task'[a])
<1>0. ASSUME NEW b \in Actor, NEW t, Become(b, t), Turn(task[b], t) PROVE Goal
  <2>1. task'[a] = task[a] \/ (a = b /\ task'[a] = t)
    BY <1>0 DEF Become, TypeInv, TypeOK
  <2> QED BY <1>0, <2>1 DEF Turn
<1>a. ASSUME task'[a] = task[a] PROVE Goal
  BY <1>a DEF Turn
<1> HIDE DEF Goal
<1>b. /\ Idle \in Tasks /\ Idle.step = "idle" /\ Idle.batch = {}
      /\ \A b \in Actor : task[b] \in Tasks
  BY IdleTyped, TaskKinds DEF TypeInv
<1>1. ASSUME NEW b \in Actor, Done(b) PROVE Goal
  <2>1. Turn(task[b], Idle)
    BY <1>b DEF Turn
  <2> QED BY <1>0, <1>1, <2>1 DEF Done
<1>2. ASSUME NEW b \in Actor, Deliver(b) PROVE Goal
  <2>1. ASSUME NEW result, NEW wait \in {NoRetry, RetryDelay}, task[b].step = "send",
               Result(b, result, wait)
        PROVE  Goal
    <3> DEFINE t == [task[b] EXCEPT !.step = "record", !.result = result, !.wait = wait]
    <3>1. /\ t.step = "record" /\ t.row = task[b].row /\ t.left = task[b].left
          /\ t.batch = task[b].batch /\ t.elapsed = task[b].elapsed /\ t.wait = wait
      BY <1>b DEF Tasks
    <3>2. Become(b, t)
      BY <2>1 DEF Result
    <3> HIDE DEF t
    <3>3. Turn(task[b], t)
      BY <2>1, <3>1 DEF Turn
    <3> QED BY <1>0, <3>2, <3>3
  <2>2. CASE SendAccepted(b) \/ SendFailed(b) \/ SendRefused(b)
    BY <2>1, <2>2 DEF SendAccepted, SendFailed, SendRefused, nextRetryAt
  <2>3. CASE RecordResult(b) \/ RecordLost(b)
    <3>1. Return(b)
      BY <2>3 DEF RecordResult, RecordLost
    <3>2. CASE b \in Admin
      BY <1>1, <3>1, <3>2 DEF Return
    <3>3. CASE b \notin Admin
      <4> DEFINE t == [Idle EXCEPT !.step = "batch", !.batch = task[b].batch,
                                   !.elapsed = task[b].elapsed]
      <4>1. t.step = "batch" /\ t.batch = task[b].batch /\ t.elapsed = task[b].elapsed
        BY <1>b DEF Tasks
      <4>2. Become(b, t)
        BY <3>1, <3>3 DEF Return
      <4> HIDE DEF t
      <4>3. Turn(task[b], t)
        BY <4>1 DEF Turn
      <4> QED BY <1>0, <4>2, <4>3
    <3> QED BY <3>2, <3>3
  <2> QED BY <1>2, <2>2, <2>3 DEF Deliver
<1>3. ASSUME NEW w \in Worker, Run(w) PROVE Goal
  <2>1. w \in Actor
    BY DEF Actor
  <2>2. CASE RequeueDueFailed(w)
    <3> DEFINE t == [Idle EXCEPT !.step = "claim"]
    <3>1. t.step = "claim" /\ t.batch = {}
      BY <1>b DEF Tasks
    <3>2. Become(w, t)
      BY <2>2 DEF RequeueDueFailed
    <3> HIDE DEF t
    <3>3. Turn(task[w], t)
      BY <3>1 DEF Turn
    <3> QED BY <1>0, <2>1, <3>2, <3>3
  <2>3. CASE ClaimDue(w)
    <3>1. PICK B \in SUBSET claimable : Become(w, [Idle EXCEPT !.step = "batch", !.batch = B])
      BY <2>3 DEF ClaimDue
    <3> DEFINE t == [Idle EXCEPT !.step = "batch", !.batch = B]
    <3>2. t.step = "batch" /\ t.batch = B
      BY <1>b DEF Tasks
    <3>3. Become(w, t)
      BY <3>1
    <3> HIDE DEF t
    <3>4. Turn(task[w], t)
      BY <3>2 DEF Turn
    <3> QED BY <1>0, <2>1, <3>3, <3>4
  <2>4. CASE TakeRow(w)
    <3>1. PICK d \in task[w].batch :
             Become(w, [task[w] EXCEPT !.step = "send", !.row = d, !.batch = task[w].batch \ {d},
                                       !.left = SendTimeout])
      BY <2>4 DEF TakeRow
    <3> DEFINE t == [task[w] EXCEPT !.step = "send", !.row = d, !.batch = task[w].batch \ {d},
                                    !.left = SendTimeout]
    <3>2. /\ t.step = "send" /\ t.row = d /\ t.batch = task[w].batch \ {d}
          /\ t.left = SendTimeout /\ t.elapsed = task[w].elapsed
      BY <1>b, <2>1 DEF Tasks
    <3>3. Become(w, t)
      BY <3>1
    <3> HIDE DEF t
    <3>4. Turn(task[w], t)
      BY <2>4, <3>2 DEF Turn, TakeRow
    <3> QED BY <1>0, <2>1, <3>3, <3>4
  <2> QED BY <1>1, <1>2, <1>3, <2>1, <2>2, <2>3, <2>4
          DEF Run, ClaimFails, BatchDone, ReleaseClaimed
<1>4. ASSUME NEW b \in Admin, Retry(b) PROVE Goal
  <2>1. b \in Actor
    BY DEF Actor
  <2>2. ASSUME NEW d \in Row, ClearRetrySchedule(b, d) PROVE Goal
    <3> DEFINE t == [Idle EXCEPT !.step = "create", !.row = d, !.left = SendTimeout,
                                 !.wait = rows[d].wait]
    <3>1. t.step = "create" /\ t.batch = {}
      BY <1>b DEF Tasks
    <3>2. Become(b, t)
      BY <2>2 DEF ClearRetrySchedule
    <3> HIDE DEF t
    <3>3. Turn(task[b], t)
      BY <3>1 DEF Turn
    <3> QED BY <1>0, <2>1, <3>2, <3>3
  <2>3. CASE CreateAttempt(b)
    <3>1. PICK e \in next :
             Become(b, [Idle EXCEPT !.step = "send", !.row = e, !.left = SendTimeout])
      BY <2>3 DEF CreateAttempt
    <3> DEFINE t == [Idle EXCEPT !.step = "send", !.row = e, !.left = SendTimeout]
    <3>2. t.step = "send" /\ t.row = e /\ t.batch = {} /\ e \in free
      BY <1>b DEF Tasks, next
    <3>3. Become(b, t)
      BY <3>1
    <3> HIDE DEF t
    <3>4. Turn(task[b], t)
      BY <3>2 DEF Turn
    <3> QED BY <1>0, <2>1, <3>3, <3>4
  <2> QED BY <1>1, <1>2, <1>4, <2>1, <2>2, <2>3 DEF Retry, CreateFails
<1>5. ASSUME NEW b \in Actor, Crash(b) PROVE Goal
  BY <1>1, <1>5 DEF Crash
<1>6. Goal
  BY <1>a, <1>3, <1>4, <1>5 DEF Next, Queue, Restart, vars
<1> QED BY <1>6 DEF Goal

\* While no time passes nobody takes up a row that failed.
LEMMA LetGoKept ==
    ASSUME TypeInv, [Next]_vars, ~ Tick, NEW a \in Actor, NEW d \in Row,
           rows[d].status = "failed", NEW n \in Int, LetGo(task[a], d, n)
    PROVE  LetGo(task'[a], d, n)
<1>1. d \notin claimable /\ d \notin free
  BY DEF claimable, free, Absent
<1>2. task[a].elapsed \in 0 .. Budget + 1
  BY TaskKinds DEF TypeInv, Tasks
<1>3. Turn(task[a], task'[a])
  BY Turns
<1> QED BY <1>1, <1>2, <1>3, DeliveryAssumption DEF Turn, LetGo

\* A tick brings a task as much nearer to its end as a schedule to its own.
LEMMA LetGoTicks ==
    ASSUME TypeInv, Tick, NEW a \in Actor, NEW d \in Row, NEW n \in Nat, LetGo(task[a], d, n)
    PROVE  LetGo(task'[a], d, IF n > 0 THEN n - 1 ELSE n)
<1>1. task[a] \in Tasks /\ Fit(a, task[a], rows)
  BY TaskKinds DEF TypeInv, Placed
<1>2. task[a].elapsed \in 0 .. Budget + 1 /\ task[a].left \in 0 .. SendTimeout
  BY <1>1 DEF Tasks
<1>3. task[a].step \in {"send", "record"} => task[a].left > 0
  BY DEF Tick
<1>4. d \in task[a].batch => a \in Worker /\ task[a].step # "idle"
  BY <1>1, TaskKinds, IdleTyped DEF Fit, TypeInv
<1>5. /\ task'[a].step = task[a].step /\ task'[a].row = task[a].row
      /\ task'[a].batch = task[a].batch
      /\ task'[a].left = IF task[a].left > 0 THEN task[a].left - 1 ELSE task[a].left
      /\ task'[a].elapsed = IF a \in Worker /\ task[a].step # "idle" /\ task[a].elapsed <= Budget
                            THEN task[a].elapsed + 1 ELSE task[a].elapsed
  BY TickTask
<1>6. ASSUME task[a].step \in {"send", "record"}, task[a].row = d
      PROVE  task'[a].left < IF n > 0 THEN n - 1 ELSE n
  BY <1>2, <1>3, <1>5, <1>6, DeliveryAssumption DEF LetGo
<1>7. ASSUME d \in task[a].batch, task'[a].elapsed <= Budget
      PROVE  Budget - task'[a].elapsed + SendTimeout < IF n > 0 THEN n - 1 ELSE n
  BY <1>2, <1>4, <1>5, <1>7, DeliveryAssumption DEF LetGo
<1> QED BY <1>5, <1>6, <1>7 DEF LetGo

\* What a step that takes no time does to the schedule of a row.
Kept(d) == rows'[d] = rows[d] /\ requeued'[d] = requeued[d]
Taken(d) == rows'[d].status \in {"pending", "sending"} /\ rows[d].status # "failed"
            /\ requeued'[d] = requeued[d]
Cleared(d) == /\ rows[d].status = "failed" /\ rows'[d].status = "failed"
              /\ rows'[d].wait = NoRetry /\ requeued'[d] = requeued[d]
Requeued(d) == /\ d \in due /\ rows'[d].status = "failed" /\ rows'[d].wait = NoRetry
               /\ requeued'[d] = requeued[d] + 1
Written(a, d) == /\ task[a].step = "record" /\ task[a].row = d /\ rows'[d].wait = task[a].wait
                 /\ requeued'[d] = requeued[d]
RowTurn(d) == Kept(d) \/ Taken(d) \/ Cleared(d) \/ Requeued(d) \/ \E a \in Actor : Written(a, d)

LEMMA RowTurns == ASSUME TypeInv, [Next]_vars, ~ Tick, NEW d \in Row PROVE RowTurn(d)
<1>a. /\ Kept(d) \/ Taken(d) \/ Cleared(d) \/ Requeued(d) => RowTurn(d)
      /\ \A a \in Actor : Written(a, d) => RowTurn(d)
  BY DEF RowTurn
<1>0. /\ DOMAIN rows = Row /\ rows[d] \in Present \union {Absent}
      /\ requeued \in [Row -> Nat]
  BY DEF TypeInv, TypeOK
<1>1. ASSUME UNCHANGED <<rows, requeued>> PROVE RowTurn(d)
  BY <1>a, <1>1 DEF Kept
<1>2. ASSUME NEW a \in Actor, RecordResult(a) PROVE RowTurn(d)
  <2>1. task[a].row \in Row /\ rows[task[a].row] \in Present
    BY <1>2, Subject, RowKinds DEF RecordResult, TypeInv
  <2>2. UNCHANGED requeued
    BY <1>2 DEF RecordResult, history
  <2>3. CASE task[a].row = d
    <3>1. rows'[d].wait = task[a].wait
      BY <1>0, <1>2, <2>1, <2>3 DEF RecordResult, Present
    <3> QED BY <1>a, <1>2, <2>2, <2>3, <3>1 DEF Written, RecordResult
  <2>4. CASE task[a].row # d
    BY <1>a, <1>0, <1>2, <2>2, <2>4 DEF RecordResult, Kept
  <2> QED BY <2>3, <2>4
<1>3. ASSUME NEW a \in Actor, Deliver(a) PROVE RowTurn(d)
  BY <1>1, <1>2, <1>3 DEF Deliver, SendAccepted, SendFailed, SendRefused, RecordLost, history
<1>4. ASSUME NEW e \in next, NEW c, NEW n, NEW st \in {"pending", "sending"},
             rows' = [rows EXCEPT ![e] = Fresh(c, n, st)], UNCHANGED requeued
      PROVE  RowTurn(d)
  <2>1. rows[e].status # "failed"
    BY DEF next, free, Absent
  <2>2. CASE d = e
    <3>1. rows'[d].status = st
      BY <1>0, <1>4, <2>2 DEF Fresh
    <3> QED BY <1>a, <1>4, <2>1, <2>2, <3>1 DEF Taken
  <2>3. CASE d # e
    BY <1>a, <1>0, <1>4, <2>3 DEF Kept
  <2> QED BY <2>2, <2>3
<1>5. ASSUME NEW w \in Worker, RequeueDueFailed(w) PROVE RowTurn(d)
  <2>1. PICK S \in SUBSET due, N \in SUBSET free : \E source \in [N -> S] :
              /\ \A x \in S : \E e \in N : source[e] = x
              /\ rows' = [x \in Row |-> rows'[x]]
              /\ \A x \in N : rows'[x] = NewAttempt(source[x]) /\ rows'[x] \in Present
              /\ \A x \in S : rows'[x] = [rows[x] EXCEPT !.wait = NoRetry, !.age = 0]
              /\ \A x \in Row \ (N \union S) : rows'[x] = rows[x]
              /\ CountRequeued(S)
    BY <1>5, RequeueEffect
  <2>2. requeued'[d] = requeued[d] + IF d \in S THEN 1 ELSE 0
    BY <2>1 DEF CountRequeued
  <2>3. CASE d \in S
    <3>1. rows[d] \in Present /\ d \in due
      BY <2>3, RowKinds DEF due, TypeInv, Absent
    <3>2. rows'[d] = [rows[d] EXCEPT !.wait = NoRetry, !.age = 0]
      BY <2>1, <2>3
    <3>3. rows'[d].status = "failed" /\ rows'[d].wait = NoRetry
      BY <3>1, <3>2 DEF Present, due
    <3> QED BY <1>a, <2>2, <2>3, <3>1, <3>3 DEF Requeued
  <2>4. CASE d \in N
    <3>1. rows[d] = Absent
      BY <2>4 DEF free
    <3>2. rows[d].status = "absent" /\ d \notin S
      BY <3>1 DEF due, Absent
    <3>3. PICK source \in [N -> S] : \A x \in N : rows'[x] = NewAttempt(source[x])
      BY <2>1
    <3>4. rows'[d] = NewAttempt(source[d])
      BY <2>4, <3>3
    <3>5. rows'[d].status = "pending"
      BY <3>4 DEF NewAttempt, Fresh
    <3> QED BY <1>a, <1>0, <2>2, <3>2, <3>5 DEF Taken
  <2>5. CASE d \notin N \union S
    <3>1. rows'[d] = rows[d]
      BY <2>1, <2>5
    <3> QED BY <1>a, <1>0, <2>2, <2>5, <3>1 DEF Kept
  <2> QED BY <2>3, <2>4, <2>5
<1>6. ASSUME NEW w \in Worker, ClaimDue(w) PROVE RowTurn(d)
  <2>1. PICK B \in SUBSET claimable : rows' = [x \in Row |->
            IF x \in B THEN [rows[x] EXCEPT !.status = "sending", !.age = 0] ELSE rows[x]]
    BY <1>6 DEF ClaimDue
  <2>2. UNCHANGED requeued
    BY <1>6 DEF ClaimDue, history
  <2>3. CASE d \in B
    <3>1. rows[d] \in Present /\ rows[d].status # "failed"
      BY <2>3, RowKinds DEF claimable, TypeInv, Absent
    <3>2. rows'[d].status = "sending"
      BY <2>1, <2>3, <3>1 DEF Present
    <3> QED BY <1>a, <2>2, <3>1, <3>2 DEF Taken
  <2> QED BY <1>a, <2>1, <2>2, <2>3 DEF Kept
<1>7. ASSUME NEW w \in Worker, ReleaseClaimed(w) PROVE RowTurn(d)
  <2>1. UNCHANGED requeued
    BY <1>7 DEF ReleaseClaimed, history
  <2>2. CASE rows'[d] = rows[d]
    BY <1>a, <2>1, <2>2 DEF Kept
  <2>3. CASE rows[d].status = "sending" /\ rows'[d] = [rows[d] EXCEPT !.status = "pending", !.age = 0]
    <3>1. rows'[d].status = "pending"
      BY <1>0, <2>3 DEF Present, Absent
    <3> QED BY <1>a, <2>1, <2>3, <3>1 DEF Taken
  <2> QED BY <1>1, <1>7, <2>1, <2>2, <2>3 DEF ReleaseClaimed
<1>8. ASSUME NEW w \in Worker, Run(w) PROVE RowTurn(d)
  <2>1. w \in Actor
    BY DEF Actor
  <2> QED BY <1>1, <1>3, <1>5, <1>6, <1>7, <1>8, <2>1
          DEF Run, ClaimFails, TakeRow, BatchDone, history
<1>9. ASSUME NEW a \in Admin, Retry(a) PROVE RowTurn(d)
  <2>1. a \in Actor
    BY DEF Actor
  <2>2. ASSUME NEW x \in Row, ClearRetrySchedule(a, x) PROVE RowTurn(d)
    <3>1. CASE rows'[d] = rows[d]
      BY <1>a, <2>2, <3>1 DEF ClearRetrySchedule, history, Kept
    <3>2. CASE rows'[d] # rows[d]
      <4>1. x = d /\ rows[d].status = "failed" /\ rows' = [rows EXCEPT ![d].wait = NoRetry]
        BY <1>0, <2>2, <3>2 DEF ClearRetrySchedule
      <4>2. rows'[d].status = "failed" /\ rows'[d].wait = NoRetry
        BY <1>0, <4>1 DEF Present, Absent
      <4> QED BY <1>a, <2>2, <4>1, <4>2 DEF ClearRetrySchedule, history, Cleared
    <3> QED BY <3>1, <3>2
  <2>3. CASE CreateAttempt(a)
    BY <1>4, <2>3 DEF CreateAttempt, history
  <2> QED BY <1>1, <1>3, <1>9, <2>1, <2>2, <2>3 DEF Retry, CreateFails
<1>10. ASSUME NEW c \in Callback, Queue(c) PROVE RowTurn(d)
  BY <1>4, <1>10 DEF Queue
<1> QED BY <1>1, <1>8, <1>9, <1>10 DEF Next, Crash, Restart, vars, history

\* The schedules, between two ticks.
LEMMA OnceTurn ==
    ASSUME TypeInv, TypeInv', OnceInv, [Next]_vars, ~ Tick, NEW d \in Row
    PROVE  /\ Scheduled(d)' => \A a \in Actor : LetGo(task'[a], d, rows'[d].wait)
           /\ requeued'[d] > 0 =>
                 /\ requeued'[d] = 1
                 /\ rows'[d].status = "failed" /\ rows'[d].wait = NoRetry
                 /\ \A a \in Actor : LetGo(task'[a], d, 0)
<1>0. /\ requeued[d] \in Nat /\ rows[d].wait \in Waits /\ rows'[d].wait \in Waits
      /\ Waits \subseteq Int
  <2>1. \A r \in Present \union {Absent} : r.wait \in Waits
    BY DEF Present, Absent, Waits
  <2> QED BY <2>1, DeliveryAssumption DEF TypeInv, TypeOK, Waits, NoRetry
<1>1. /\ Scheduled(d) => \A a \in Actor : LetGo(task[a], d, rows[d].wait)
      /\ requeued[d] > 0 => /\ requeued[d] = 1
                            /\ rows[d].status = "failed" /\ rows[d].wait = NoRetry
                            /\ \A a \in Actor : LetGo(task[a], d, 0)
  BY DEF OnceInv
<1>2. \A n \in Int, a \in Actor :
         rows[d].status = "failed" /\ LetGo(task[a], d, n) => LetGo(task'[a], d, n)
  BY LetGoKept
<1>3. CASE Kept(d)
  <2>1. rows'[d] = rows[d] /\ requeued'[d] = requeued[d]
    BY <1>3 DEF Kept
  <2>2. ASSUME Scheduled(d)' PROVE \A a \in Actor : LetGo(task'[a], d, rows'[d].wait)
    <3>1. Scheduled(d) /\ rows[d].status = "failed" /\ rows[d].wait \in Int
      BY <1>0, <2>1, <2>2 DEF Scheduled
    <3> QED BY <1>1, <1>2, <2>1, <3>1
  <2>3. ASSUME requeued[d] > 0 PROVE \A a \in Actor : LetGo(task'[a], d, 0)
    BY <1>1, <1>2, <2>3
  <2> QED BY <1>1, <2>1, <2>2, <2>3
<1>4. CASE Taken(d)
  BY <1>0, <1>1, <1>4 DEF Taken, Scheduled
<1>5. CASE Cleared(d)
  BY <1>0, <1>1, <1>2, <1>5 DEF Cleared, Scheduled
<1>6. CASE Requeued(d)
  BY <1>0, <1>1, <1>2, <1>6 DEF Requeued, Scheduled, due, NoRetry
<1>7. ASSUME NEW b \in Actor, Written(b, d)
      PROVE  /\ Scheduled(d)' => \A a \in Actor : LetGo(task'[a], d, rows'[d].wait)
             /\ requeued'[d] = 0
  <2>1. task[b].left \in 0 .. SendTimeout
    BY TaskKinds DEF TypeInv, Tasks
  <2>2. requeued[d] = 0
    BY <1>0, <1>1, <1>7, <2>1 DEF Written, LetGo
  <2>3. ASSUME Scheduled(d)' PROVE rows'[d].wait >= RetryDelay - SendTimeout
    <3>1. rows'[d].wait = task[b].wait /\ task[b].step = "record" /\ rows'[d].wait # NoRetry
      BY <1>7, <2>3 DEF Written, Scheduled
    <3>2. task[b].wait >= RetryDelay - SendTimeout + task[b].left
      BY <3>1 DEF OnceInv
    <3>3. rows'[d].wait \in Int
      BY <1>0
    <3>4. RetryDelay \in Nat /\ SendTimeout \in Nat
      BY DeliveryAssumption
    <3> QED BY <2>1, <3>1, <3>2, <3>3, <3>4
  <2>4. \A a \in Actor : task'[a] \in Tasks
    <3>1. \A t \in Busy \union {Idle} : t \in Tasks
      BY IdleTyped DEF Busy, Tasks, Waits
    <3> QED BY <3>1 DEF TypeInv, TypeOK
  <2> QED BY <1>0, <1>7, <2>2, <2>3, <2>4, DelayOutlasts DEF Written
<1> QED BY <1>3, <1>4, <1>5, <1>6, <1>7, RowTurns DEF RowTurn

\* The schedules, when a tick passes.
LEMMA OnceTick ==
    ASSUME TypeInv, OnceInv, Tick, NEW d \in Row
    PROVE  /\ Scheduled(d)' => \A a \in Actor : LetGo(task'[a], d, rows'[d].wait)
           /\ requeued'[d] > 0 =>
                 /\ requeued'[d] = 1
                 /\ rows'[d].status = "failed" /\ rows'[d].wait = NoRetry
                 /\ \A a \in Actor : LetGo(task'[a], d, 0)
<1>1. requeued' = requeued
  BY DEF Tick, history
<1>2. CASE rows[d] = Absent
  <2>1. rows'[d] = Absent
    BY <1>2 DEF Tick
  <2>2. Absent.status = "absent"
    BY DEF Absent
  <2>3. ~ (requeued[d] > 0) /\ ~ Scheduled(d)'
    BY <1>2, <2>1, <2>2 DEF OnceInv, Scheduled
  <2> QED BY <1>1, <2>3
<1>3. CASE rows[d] # Absent
  <2>1. rows[d] \in Present
    BY <1>3, RowKinds DEF TypeInv
  <2>2. /\ rows'[d].status = rows[d].status
        /\ rows'[d].wait = IF rows[d].wait > 0 THEN rows[d].wait - 1 ELSE rows[d].wait
    BY <1>3, <2>1 DEF Tick, Present
  <2>3. rows[d].wait \in Nat \union {NoRetry}
    BY <2>1, DeliveryAssumption DEF Present
  <2>4. ASSUME Scheduled(d)', NEW a \in Actor PROVE LetGo(task'[a], d, rows'[d].wait)
    <3>1. Scheduled(d) /\ rows[d].wait \in Nat
      BY <2>2, <2>3, <2>4 DEF Scheduled, NoRetry
    <3>2. LetGo(task[a], d, rows[d].wait)
      BY <3>1 DEF OnceInv
    <3> QED BY <2>2, <3>1, <3>2, LetGoTicks
  <2>5. ASSUME requeued[d] > 0
        PROVE  /\ requeued[d] = 1
               /\ rows'[d].status = "failed" /\ rows'[d].wait = NoRetry
               /\ \A a \in Actor : LetGo(task'[a], d, 0)
    <3>1. /\ requeued[d] = 1
          /\ rows[d].status = "failed" /\ rows[d].wait = NoRetry
          /\ \A a \in Actor : LetGo(task[a], d, 0)
      BY <2>5 DEF OnceInv
    <3>2. rows'[d].wait = NoRetry
      BY <2>2, <3>1 DEF NoRetry
    <3>3. ASSUME NEW a \in Actor PROVE LetGo(task'[a], d, 0)
      <4>1. LetGo(task'[a], d, IF 0 > 0 THEN 0 - 1 ELSE 0)
        BY <3>1, LetGoTicks
      <4> QED BY <4>1
    <3> QED BY <2>2, <3>1, <3>2, <3>3
  <2> QED BY <1>1, <2>4, <2>5
<1> QED BY <1>2, <1>3

\* The schedule of a failure about to be written.
LEMMA ScheduleKept ==
    ASSUME TypeInv, OnceInv, [Next]_vars, NEW a \in Actor,
           task'[a].step = "record", task'[a].wait # NoRetry
    PROVE  task'[a].wait >= RetryDelay - SendTimeout + task'[a].left
<1>1. /\ task[a].left \in 0 .. SendTimeout /\ task[a].wait \in 0 .. RetryDelay \union {NoRetry}
  BY TaskKinds DEF TypeInv, Tasks, Waits
<1>2. task[a].step = "record" /\ task[a].wait # NoRetry =>
         task[a].wait >= RetryDelay - SendTimeout + task[a].left
  BY DEF OnceInv
<1>3. CASE Tick
  <2>1. /\ task'[a].step = task[a].step
        /\ task'[a].wait = IF task[a].wait > 0 THEN task[a].wait - 1 ELSE task[a].wait
        /\ task'[a].left = IF task[a].left > 0 THEN task[a].left - 1 ELSE task[a].left
    BY <1>3, TickTask
  <2>2. task[a].step = "record" => task[a].left > 0
    BY <1>3 DEF Tick
  <2> QED BY <1>1, <1>2, <2>1, <2>2, DeliveryAssumption DEF NoRetry
<1>4. CASE ~ Tick
  <2>1. Turn(task[a], task'[a])
    BY <1>4, Turns
  <2> QED BY <1>1, <1>2, <2>1, DeliveryAssumption DEF Turn
<1> QED BY <1>3, <1>4

LEMMA OnceStep == TypeInv /\ OnceInv /\ [Next]_vars => OnceInv'
<1> SUFFICES ASSUME TypeInv, OnceInv, [Next]_vars PROVE OnceInv'
  OBVIOUS
<1>1. CASE Tick
  BY <1>1, OnceTick, ScheduleKept DEF OnceInv
<1>2. CASE ~ Tick
  BY <1>2, TypeStep, OnceTurn, ScheduleKept DEF OnceInv
<1> QED BY <1>1, <1>2

\* A failure is picked up once, also when a slow worker writes its result over
\* that of the worker that took the row over (RequeuedOnce): the retry delay
\* outlasts a batch budget and two sends.
THEOREM FailuresAreRequeuedOnce == Spec => []RequeuedOnce
<1>1. TypeInv /\ OnceInv => RequeuedOnce
  BY DEF TypeInv, TypeOK, OnceInv, RequeuedOnce
<1> QED BY <1>1, TypeStart, TypeStep, OnceStart, OnceStep, PTL DEF Spec
=============================================================================
