------------------------------- MODULE Store -------------------------------
(***************************************************************************)
(* The tables of the store (store.go for Postgres, sqlite_store.go,        *)
(* memory_store.go) and the Store operations that change them, as          *)
(* functions from one content d of the database to the next.  StoreKind    *)
(* says which implementation is meant where the three differ.  Inputs,     *)
(* outputs, errors, timestamps and the event log carry no control and are  *)
(* left out; a step row is identified by its index in d.steps, which is    *)
(* also the order of created_at.                                           *)
(***************************************************************************)
EXTENDS WorkflowDef

CONSTANTS
    Instances,   \* the workflow instances that may be started
    Start,       \* instance -> GraphDefinition.Start of its workflow
    DLQEnabled,  \* instance -> GraphDefinition.DLQEnabled of its workflow
    Workers,     \* the workers polling the queue
    StoreKind    \* "postgres", "sqlite" or "memory"

ASSUME StoreAssumption ==
    /\ StoreKind \in {"postgres", "sqlite", "memory"}
    /\ Start \in [Instances -> Steps]
    /\ \A i \in Instances : Def[Start[i]].prev # NoStep
    /\ DLQEnabled \in [Instances -> BOOLEAN]
    /\ "" \notin Workers

Nobody == ""     \* attempted_by IS NULL

WorkflowStatus == {"none",        \* no row yet: Start has not run
    "running", "completed", "failed", "cancelling", "cancelled", "aborted", "dlq"}
StepStatus == {"pending", "running", "completed", "failed", "skipped", "compensation",
    "rolled_back", "waiting_decision", "confirmed", "rejected", "paused"}

WorkflowStep ==
    [inst : Instances, name : Steps, status : StepStatus,
     retry : Nat,                                   \* retry_count
     comp  : Nat,                                   \* compensation_retry_count
     decision : {"none", "confirmed", "rejected"}]  \* the step's human_decisions row
QueueItem   == [id : Nat, inst : Instances, step : Nat, by : Workers \cup {Nobody}]
JoinState   == [exists : BOOLEAN, waiting : Seq(WaitNames), completed : SUBSET Steps,
                failed : SUBSET Steps, ready : BOOLEAN]
DeadLetter  == [id : Nat, inst : Instances, step : Nat]

Database ==
    [inst   : [Instances -> WorkflowStatus],
     steps  : Seq(WorkflowStep),
     queue  : SUBSET QueueItem,
     nq     : Nat,                                  \* next queue id
     waitFor : [JoinSteps -> Seq(WaitNames)],       \* WaitFor of the stored definition
     join   : [Instances -> [JoinSteps -> JoinState]],
     cancel : [Instances -> {"none", "cancel", "abort"}],
     dlq    : SUBSET DeadLetter,
     nd     : Nat]                                  \* next dead letter id

NoJoinState == [exists |-> FALSE, waiting |-> <<>>, completed |-> {}, failed |-> {},
                ready |-> FALSE]

EmptyDatabase ==
    [inst   |-> [i \in Instances |-> "none"],
     steps  |-> <<>>,
     queue  |-> {},
     nq     |-> 1,
     waitFor |-> [j \in JoinSteps |-> Def[j].waitFor],
     join   |-> [i \in Instances |-> [j \in JoinSteps |-> NoJoinState]],
     cancel |-> [i \in Instances |-> "none"],
     dlq    |-> {},
     nd     |-> 1]

----------------------------------------------------------------------------
\* Instances and steps

UpdateInstanceStatus(d, i, status) == [d EXCEPT !.inst[i] = status]

Rows(d, i) == {k \in DOMAIN d.steps : d.steps[k].inst = i}   \* GetStepsByInstance
\* Mutant: the row of a step is never found.
HasNoStep(d, i, n) == FALSE

HasStep(d, i, n) == \E k \in Rows(d, i) : d.steps[k].name = n

\* The Postgres query of GetStepsByInstance does not select compensation_retry_count.
CompensationRetryCount(d, k) == IF StoreKind = "postgres" THEN 0 ELSE d.steps[k].comp

NewStep(i, n, status) ==
    [inst |-> i, name |-> n, status |-> status, retry |-> 0, comp |-> 0, decision |-> "none"]

\* CreateStep for each name of the sequence, in order.
CreateSteps(d, i, names, status) ==
    [d EXCEPT !.steps = @ \o [k \in 1..Len(names) |-> NewStep(i, names[k], status)]]

\* Mutant: attempts are counted down.
WithCountdown(row, status) ==
    [row EXCEPT !.status = status, !.retry = IF status = "failed" THEN @ - 1 ELSE @]

\* UPDATE workflow_steps: 'failed' also counts an attempt.
WithStatus(row, status) ==
    [row EXCEPT !.status = status, !.retry = IF status = "failed" THEN @ + 1 ELSE @]

\* UpdateStep on every row of K.
UpdateSteps(d, K, status) ==
    [d EXCEPT !.steps = [k \in DOMAIN @ |->
        IF k \in K THEN WithStatus(@[k], status) ELSE @[k]]]

UpdateStep(d, k, status) == UpdateSteps(d, {k}, status)

UpdateStepStatus(d, k, status) == [d EXCEPT !.steps[k].status = status]

\* UpdateStepCompensationRetry on every row of K, with the count of that row.
UpdateStepsCompensationRetry(d, K, count) ==
    [d EXCEPT !.steps = [k \in DOMAIN @ |->
        IF k \in K THEN [@[k] EXCEPT !.comp = count[k], !.status = "compensation"]
                   ELSE @[k]]]

\* GetActiveStepsForUpdate; in Postgres the query skips the rows in `locked'.
GetActiveStepsForUpdate(d, i, locked) ==
    {k \in Rows(d, i) :
        /\ d.steps[k].status \in {"pending", "running", "waiting_decision"}
        /\ StoreKind = "postgres" => k \notin locked}

\* SQLite cannot scan the NULL output of an active row: the call fails if it finds one.
ActiveStepsUnreadable(d, i, locked) ==
    StoreKind = "sqlite" /\ GetActiveStepsForUpdate(d, i, locked) # {}

----------------------------------------------------------------------------
\* The queue

\* Mutant: ids are given out again.
EnqueueReusingIds(d, i, base, n) ==
    [d EXCEPT !.queue = @ \cup {[id |-> d.nq + k - 1, inst |-> i, step |-> base + k,
                                 by |-> Nobody] : k \in 1..n}]

\* EnqueueStep for the rows base+1 .. base+n, in that order.
EnqueueRange(d, i, base, n) ==
    [d EXCEPT !.queue = @ \cup {[id |-> d.nq + k - 1, inst |-> i, step |-> base + k,
                                 by |-> Nobody] : k \in 1..n},
              !.nq = @ + n]

EnqueueStep(d, i, k) == EnqueueRange(d, i, k - 1, 1)

\* EnqueueStep for every row of K, latest first.
EnqueueRows(d, i, K) ==
    [d EXCEPT !.queue = @ \cup {[id |-> d.nq + Cardinality({m \in K : m > k}),
                                 inst |-> i, step |-> k, by |-> Nobody] : k \in K},
              !.nq = @ + Cardinality(K)]

\* Mutant: attempted_at is not looked at.
DequeueClaimed(d) == d.queue

\* DequeueStep returns one of these.  Which one depends on delays, priorities and
\* aging, which move with the clock: any due item may come first.
Dequeuable(d) == {q \in d.queue : q.by = Nobody}

Claim(d, q, w) == [d EXCEPT !.queue = (@ \ {q}) \cup {[q EXCEPT !.by = w]}]

\* Mutant: the items before it are removed too.
RemoveUpTo(d, id) == [d EXCEPT !.queue = {q \in @ : q.id > id}]

RemoveFromQueue(d, id) == [d EXCEPT !.queue = {q \in @ : q.id # id}]

\* Mutant: a rollback loses the item.
ReleaseAsRemove(d, id) == [d EXCEPT !.queue = {q \in @ : q.id # id}]

ReleaseQueueItem(d, id) ==
    [d EXCEPT !.queue = {IF q.id = id THEN [q EXCEPT !.by = Nobody] ELSE q : q \in @}]

----------------------------------------------------------------------------
\* Join states

\* Mutant: one step too early.
ReadyTooEarly(j, js) ==
    Cardinality(js.completed) + Cardinality(js.failed) + 1 >= Len(js.waiting)

checkJoinReady(j, js) ==
    IF Def[j].strategy = "any" THEN js.completed \cup js.failed # {}
    ELSE Cardinality(js.completed) + Cardinality(js.failed) >= Len(js.waiting)

Rechecked(j, js) == [js EXCEPT !.ready = checkJoinReady(j, js)]

\* CreateJoinState: an existing row is kept (ON CONFLICT DO NOTHING).  The plain INSERT
\* of SQLite would fail, but a fork is executed once and addToWaitFor looks first.
CreateJoinState(d, i, j, waitFor) ==
    IF d.join[i][j].exists THEN d
    ELSE [d EXCEPT !.join[i][j] = [NoJoinState EXCEPT !.exists = TRUE, !.waiting = waitFor]]

\* UpdateJoinState moves n to the completed or to the failed list; SQLite only adds it.
JoinUpdated(j, js, n, success) ==
    LET drop == IF StoreKind = "sqlite" THEN {} ELSE {n}
    IN  Rechecked(j, IF success
          THEN [js EXCEPT !.completed = @ \cup {n}, !.failed = @ \ drop]
          ELSE [js EXCEPT !.failed = @ \cup {n}, !.completed = @ \ drop])

\* On the join states J, which exist: a fork creates its join state in the same step as
\* its branches (the stores differ in what they make of a missing one, see StoreAPI).
UpdateJoinStates(d, i, J, n, success) ==
    [d EXCEPT !.join[i] = [j \in DOMAIN @ |->
        IF j \in J THEN JoinUpdated(j, @[j], n, success) ELSE @[j]]]

AddToJoinWaitFor(d, i, j, n) ==
    LET js == d.join[i][j]
    IN  [d EXCEPT !.join[i][j] =
            Rechecked(j, [js EXCEPT !.waiting = Append(js.waiting, n)])]

\* Mutant: the virtual step stays in the list.
AppendedOnly(waiting, v, n) == Append(waiting, n)

\* ReplaceInJoinWaitFor turns the first occurrence of the virtual step v into n, and
\* appends n when there is none.
Replaced(waiting, v, n) ==
    LET k == SelectInSeq(waiting, LAMBDA x : x = v)
    IN  IF k = 0 THEN Append(waiting, n) ELSE [waiting EXCEPT ![k] = n]

\* The memory store keeps the WaitFor slice of the definition in the join state it
\* creates, so an assignment to one of its elements is seen by the definition and by
\* every join state that still shares the slice: those nothing was appended to.  (A
\* slice the builder grew to exactly its capacity: the number of branches is a power
\* of two.)
ReplacedInSharedSlice(d, i, j, v, n) ==
    LET k == SelectInSeq(d.waitFor[j], LAMBDA x : x = v)
        shares(h) == d.join[h][j].exists /\ Len(d.join[h][j].waiting) = Len(d.waitFor[j])
    IN  IF StoreKind # "memory" \/ k = 0 \/ ~shares(i) THEN d
        ELSE [d EXCEPT !.waitFor[j][k] = n,
                       !.join = [h \in Instances |->
                            IF shares(h) THEN [@[h] EXCEPT ![j].waiting[k] = n] ELSE @[h]]]

\* Postgres looks at the newest row of n, memory at the oldest; SQLite at none.
StatusForJoin(d, i, n) ==
    LET K == {k \in Rows(d, i) : d.steps[k].name = n}
    IN  CASE StoreKind = "sqlite" \/ K = {} -> "none"
          [] StoreKind = "postgres" /\ K # {} -> d.steps[Max(K)].status
          [] OTHER -> d.steps[Min(K)].status

ReplaceInJoinWaitFor(d, i, j, v, n) ==
    LET js  == d.join[i][j]
        st  == StatusForJoin(d, i, n)
        new == n \notin js.completed \cup js.failed
        js2 == [js EXCEPT
                  !.waiting = Replaced(@, v, n),
                  !.completed = IF new /\ st = "completed" THEN @ \cup {n} ELSE @,
                  !.failed = IF new /\ st \in {"failed", "rolled_back"} THEN @ \cup {n} ELSE @]
    IN  [ReplacedInSharedSlice(d, i, j, v, n) EXCEPT !.join[i][j] = Rechecked(j, js2)]

----------------------------------------------------------------------------
\* Cancel requests

\* A second request: DO NOTHING and an error in Postgres, ignored in memory,
\* INSERT OR REPLACE in SQLite.
CreateCancelRequest(d, i, kind) ==
    IF d.cancel[i] # "none" /\ StoreKind # "sqlite" THEN d
    ELSE [d EXCEPT !.cancel[i] = kind]

DeleteCancelRequest(d, i) == [d EXCEPT !.cancel[i] = "none"]

----------------------------------------------------------------------------
\* Dead letters

\* CreateDeadLetterRecord for every row of K, latest first.
CreateDeadLetterRecords(d, K) ==
    [d EXCEPT !.dlq = @ \cup {[id |-> d.nd + Cardinality({m \in K : m > k}),
                               inst |-> d.steps[k].inst, step |-> k] : k \in K},
              !.nd = @ + Cardinality(K)]

PausedByDLQ ==
    IF StoreKind = "sqlite" THEN {"running", "pending", "compensation"} ELSE {"running"}

PauseActiveStepsAndClearQueue(d, i) ==
    [UpdateSteps(d, {k \in Rows(d, i) : d.steps[k].status \in PausedByDLQ}, "paused")
       EXCEPT !.queue = {q \in @ : q.inst # i}]

\* The step starts afresh and the instance runs again.
Reset(d, rec) ==
    [d EXCEPT !.steps[rec.step] = [@ EXCEPT !.status = "pending", !.retry = 0, !.comp = 0],
              !.inst[rec.inst] = IF @ \in {"failed", "dlq"} THEN "running" ELSE @,
              !.dlq = @ \ {rec}]

PausedJoins(d, i) ==
    {k \in Rows(d, i) : d.steps[k].name \in JoinSteps /\ d.steps[k].status = "paused"}

RequeueDeadLetterPostgres(d, rec) ==
    EnqueueStep(UpdateSteps(Reset(d, rec), PausedJoins(d, rec.inst), "pending"),
                rec.inst, rec.step)

RequeueDeadLetterSQLite(d, rec) == EnqueueStep(Reset(d, rec), rec.inst, rec.step)

\* The memory store resets the step but puts nothing in the queue.
RequeueDeadLetterMemory(d, rec) ==
    UpdateSteps(Reset(d, rec), PausedJoins(d, rec.inst), "pending")

RequeueDeadLetter(d, rec) ==
    CASE StoreKind = "postgres" -> RequeueDeadLetterPostgres(d, rec)
      [] StoreKind = "sqlite"   -> RequeueDeadLetterSQLite(d, rec)
      [] StoreKind = "memory"   -> RequeueDeadLetterMemory(d, rec)
============================================================================
