------------------------------ MODULE Branches ------------------------------
(***************************************************************************)
(* Two branches of one fork that end at the same time: ExecuteNext with    *)
(* one step for every statement it sends to the store.  The fork has been  *)
(* executed, the first step of each branch is in the queue.                *)
(*                                                                         *)
(* On Postgres the statements of a worker are one transaction: rows it has *)
(* written are locked and not seen by others until it commits, a write to  *)
(* a locked row waits, every read sees what is committed at that moment    *)
(* (READ COMMITTED), and Postgres ends a deadlock by aborting one of the   *)
(* two.  The other stores have no transactions, and SQLite reads a join    *)
(* state and writes it back in two statements.                             *)
(*                                                                         *)
(* Every task has a compensation that succeeds; there are no retries, save *)
(* points, cancel requests or dead letters here: those are in Engine, as   *)
(* is the removal of a queue item by the id of a skipped step.             *)
(***************************************************************************)
EXTENDS Naturals, Sequences, FiniteSets, SequencesExt

CONSTANTS
    Workers, Nobody,
    Fork,          \* the row of the fork step
    JoinRows,      \* the rows a join step may get, in this order
    Inst,          \* the row of the instance
    JoinState,     \* the row of the join state
    NoRow,
    Scenarios      \* records [store, heads, next, virtual, strategy, failing]

ASSUME BranchesAssumption ==
    /\ Nobody \notin Workers
    /\ JoinRows \in Seq(ToSet(JoinRows))
    /\ {Fork, Inst, JoinState, NoRow} \cap ToSet(JoinRows) = {}
    /\ JoinState \notin {Fork, Inst, NoRow}
    /\ \A x \in Scenarios :
         /\ x.store \in {"postgres", "sqlite", "memory"}
         /\ x.strategy \in {"all", "any", "none"}     \* "none": the fork has no join
         /\ x.heads \in Seq(DOMAIN x.next) \ {<<>>}
         /\ x.next \in [DOMAIN x.next -> DOMAIN x.next \cup {NoRow}]
         /\ \A s \in DOMAIN x.next \ ToSet(x.heads) : \E r \in DOMAIN x.next : x.next[r] = s
         /\ DOMAIN x.next \cap ({Fork, Inst, JoinState, NoRow} \cup ToSet(JoinRows)) = {}

VARIABLES
    store,
    heads, next,   \* the first steps of the branches; step -> the step after it
    virtual,       \* the ends of branches that have a condition
    strategy,      \* of the join
    failing,       \* the steps that may return an error
    committed,   \* row -> what everybody reads
    draft,       \* row -> what the worker that has locked it reads
    holder,      \* row -> the worker whose transaction has locked it
    queue,       \* row -> number of its unclaimed queue items
    wk,          \* what a worker does: the row it executes and the statements ahead of it
    effect       \* history: task -> what its handlers have done

scenario == <<store, heads, next, virtual, strategy, failing>>
tables   == <<committed, draft, holder>>
vars     == <<scenario, tables, queue, wk, effect>>

Steps == DOMAIN next
Heads == ToSet(heads)
Ends  == {s \in Steps : next[s] = NoRow}
Predecessor(s) == CHOOSE r \in Steps : next[r] = s

\* A condition step: what follows it ends a branch that the join knows as virtual.
IsTask(r) == r \in Steps /\ next[r] \notin virtual
HasJoin   == strategy # "none"

\* The elements of sequence s that are in S.
Keep(s, S) == FlattenSeq([k \in DOMAIN s |-> IF s[k] \in S THEN <<s[k]>> ELSE <<>>])

\* The rows of the instance in the order of their creation.
StepRows == <<Fork>> \o heads
            \o Keep([b \in DOMAIN heads |-> next[heads[b]]], Steps)
            \o JoinRows

Idle == [row |-> NoRow, todo |-> <<>>, seen |-> <<>>, items |-> <<>>]

Init ==
    /\ \E x \in Scenarios :
         /\ store = x.store /\ heads = x.heads /\ next = x.next
         /\ virtual = x.virtual /\ strategy = x.strategy /\ failing = x.failing
    /\ committed = [r \in ToSet(StepRows) \cup {Inst, JoinState} |->
                      CASE r = Fork -> "completed"
                        [] r \in Heads -> "pending"
                        [] r = Inst -> "running"
                        [] r = JoinState -> [virtual |-> virtual, completed |-> {},
                                             failed |-> {}, ready |-> FALSE]
                        [] OTHER -> "none"]
    /\ draft = committed
    /\ holder = [r \in DOMAIN committed |-> Nobody]
    /\ queue = [r \in ToSet(StepRows) |-> IF r \in Heads THEN 1 ELSE 0]
    /\ wk = [w \in Workers |-> Idle]
    /\ effect = [s \in Steps |-> "none"]

----------------------------------------------------------------------------
\* Statements

Statement(op, row, val) == [op |-> op, row |-> row, val |-> val]
Set(row, status) == Statement("set", row, status)
Enqueue(row)     == Statement("enqueue", row, "")

Busy(w)   == wk[w].row # NoRow
Now(w)    == Head(wk[w].todo)
At(w, op) == wk[w].todo # <<>> /\ Now(w).op = op

\* What worker w reads, and the rows of the instance it sees.
See(w, r) == IF holder[r] = w THEN draft[r] ELSE committed[r]
Rows(w, statuses) == {r \in DOMAIN queue : See(w, r) \in statuses}
Sees(w, statuses) == Rows(w, statuses) # {}

\* Worker w goes on with the statements in more.
Continue(w, more) ==
    wk' = [wk EXCEPT ![w].todo = more \o Tail(@), ![w].seen = <<>>]

Write(w, r, val) ==
    /\ holder[r] \in {Nobody, w}
    /\ draft' = [draft EXCEPT ![r] = val]
    /\ IF store = "postgres"
       THEN holder' = [holder EXCEPT ![r] = w] /\ UNCHANGED committed
       ELSE committed' = [committed EXCEPT ![r] = val] /\ UNCHANGED holder

\* UpdateStep and UpdateInstanceStatus, on the tables of steps and instances.
UpdateStep(w) ==
    /\ At(w, "set")
    /\ Write(w, Now(w).row, Now(w).val)
    /\ Continue(w, <<>>)
    /\ UNCHANGED <<scenario, queue, effect>>

EnqueueStep(w) ==
    /\ At(w, "enqueue")
    /\ IF store = "postgres"
       THEN /\ wk' = [wk EXCEPT ![w].todo = Tail(@), ![w].items = Append(@, Now(w).row)]
            /\ UNCHANGED queue
       ELSE /\ Continue(w, <<>>)
            /\ queue' = [queue EXCEPT ![Now(w).row] = @ + 1]
    /\ UNCHANGED <<scenario, tables, effect>>

\* A row nobody else sees before it is committed; a join step gets a row of its own, the
\* first that is left of JoinRows.
NewRow(r) ==
    IF r \in Steps THEN r
    ELSE JoinRows[SelectInSeq(JoinRows, LAMBDA j : draft[j] = "none")]

CreateStep(w) ==
    /\ At(w, "create")
    /\ Now(w).row \in Steps \/ \E j \in ToSet(JoinRows) : draft[j] = "none"
    /\ LET r == NewRow(Now(w).row)
       IN  Write(w, r, "pending") /\ Continue(w, <<Enqueue(r)>>)
    /\ UNCHANGED <<scenario, queue, effect>>

----------------------------------------------------------------------------
\* The join state

checkJoinReady(completed, failed) ==
    IF strategy = "any" THEN completed # {} \/ failed # {}
    ELSE Cardinality(completed) + Cardinality(failed) >= Len(heads)

JoinOps == {"replace", "notifyForStep", "notify", "again"}
JoinStatement(w) == wk[w].todo # <<>> /\ Now(w).op \in JoinOps

\* SQLite: the SELECT of ReplaceInJoinWaitFor and UpdateJoinState.
SelectJoinState(w) ==
    /\ store = "sqlite"
    /\ JoinStatement(w)
    /\ wk[w].seen = <<>>
    /\ wk' = [wk EXCEPT ![w].seen = <<committed[JoinState]>>]
    /\ UNCHANGED <<scenario, tables, queue, effect>>

CanUpdateJoin(w) == JoinStatement(w) /\ (store = "sqlite" => wk[w].seen # <<>>)
Base(w) == IF store = "sqlite" THEN wk[w].seen[1] ELSE See(w, JoinState)

\* The virtual step gives way to the real one, whose end Postgres and memory also enter.
ReplaceInJoinWaitFor(w) ==
    LET s == Now(w).row
        b == Base(w)
        enters == store # "sqlite"
        c == IF enters /\ See(w, s) = "completed" THEN b.completed \cup {s} ELSE b.completed
        f == IF enters /\ See(w, s) \in {"failed", "rolled_back"} THEN b.failed \cup {s}
             ELSE b.failed
        j == See(w, JoinState)
    IN  /\ At(w, "replace")
        /\ CanUpdateJoin(w)
        /\ Write(w, JoinState,
                 [virtual |-> b.virtual \ {s}, ready |-> checkJoinReady(c, f),
                  completed |-> IF enters THEN c ELSE j.completed,
                  failed |-> IF enters THEN f ELSE j.failed])
        /\ Continue(w, <<>>)
        /\ UNCHANGED <<scenario, queue, effect>>

\* notifyJoinSteps leaves out a step the join still knows as virtual.
Unknown(w) == At(w, "notify") /\ Now(w).row \in See(w, JoinState).virtual

SkipNotification(w) ==
    /\ Unknown(w)
    /\ Continue(w, <<>>)
    /\ UNCHANGED <<scenario, tables, queue, effect>>

UpdateJoinState(w) ==
    LET s == Now(w).row
        b == Base(w)
        c == IF Now(w).val = "completed" THEN b.completed \cup {s} ELSE b.completed
        f == IF Now(w).val = "failed" THEN b.failed \cup {s} ELSE b.failed
        ready == checkJoinReady(c, f)
    IN  /\ CanUpdateJoin(w)
        /\ Now(w).op # "replace"
        /\ ~Unknown(w)
        /\ Write(w, JoinState, [virtual |-> See(w, JoinState).virtual, completed |-> c,
                                failed |-> f, ready |-> ready])
        /\ Continue(w, IF ready /\ Now(w).op # "again"
                       THEN <<Statement("ready", s, Now(w).val)>> ELSE <<>>)
        /\ UNCHANGED <<scenario, queue, effect>>

\* Looked up by the first steps of branches that the join waits for: without one, nothing
\* is found to be pending.
hasPendingStepsInParallelBranches(w) ==
    LET waitFor == Ends \ virtual
    IN  /\ Heads \cap waitFor # {}
        /\ \E s \in Steps \ waitFor : See(w, s) \in {"pending", "running"}

\* Mutant: the join step is created whether or not there is one.
JoinIsReadyUnchecked(w) ==
    /\ At(w, "ready")
    /\ Continue(w,
         IF hasPendingStepsInParallelBranches(w)
         THEN <<Statement("again", Now(w).row, Now(w).val)>>
         ELSE <<Statement("create", NoRow, "")>>)
    /\ UNCHANGED <<scenario, tables, queue, effect>>

\* The join is ready: its step is created unless there is one.
JoinIsReady(w) ==
    /\ At(w, "ready")
    /\ Continue(w,
         IF hasPendingStepsInParallelBranches(w)
         THEN <<Statement("again", Now(w).row, Now(w).val)>>
         ELSE IF \E j \in ToSet(JoinRows) : See(w, j) # "none" THEN <<>>
         ELSE <<Statement("create", NoRow, "")>>)
    /\ UNCHANGED <<scenario, tables, queue, effect>>

----------------------------------------------------------------------------
\* What follows the end of a step

Notifications(s, status) ==
    IF ~HasJoin \/ s \notin Ends THEN <<>>
    ELSE IF s \in virtual
         THEN << Statement("replace", s, status), Statement("notifyForStep", s, status),
                 Statement("notify", s, status) >>
         ELSE << Statement("notify", s, status) >>

\* Mutant: looks for unfinished steps before its own step is completed.
handleStepSuccessLate(s) ==
    (IF s \in Steps \ Ends
     THEN <<Statement("create", next[s], "")>>
     ELSE <<Statement("hasUnfinished", NoRow, "")>>)
    \o <<Set(s, "completed")>> \o Notifications(s, "completed")

handleStepSuccess(s) ==
    <<Set(s, "completed")>> \o Notifications(s, "completed")
    \o IF s \in Steps \ Ends
       THEN <<Statement("create", next[s], "")>>
       ELSE <<Statement("hasUnfinished", NoRow, "")>>

handleStepFailure(s) ==
    <<Set(s, "failed")>> \o Notifications(s, "failed")
    \o (IF s \in Heads THEN <<Statement("stop", s, "")>> ELSE <<>>)
    \o <<Statement("rollback", s, ""), Set(Inst, "failed")>>

rollbackStep(r) ==
    IF IsTask(r) THEN <<Set(r, "compensation"), Enqueue(r)>> ELSE <<Set(r, "rolled_back")>>

Unfinished == {"pending", "running"}

hasUnfinishedSteps(w) ==
    /\ At(w, "hasUnfinished")
    /\ Continue(w, IF Sees(w, Unfinished) THEN <<>>
                   ELSE <<Statement("completeWorkflow", NoRow, "")>>)
    /\ UNCHANGED <<scenario, tables, queue, effect>>

completeWorkflow(w) ==
    /\ At(w, "completeWorkflow")
    /\ Continue(w, IF Sees(w, {"failed", "rolled_back"})
                   THEN << Statement("undoCompleted", NoRow, ""),
                           Statement("hasCompensation", NoRow, "") >>
                   ELSE <<Set(Inst, "completed")>>)
    /\ UNCHANGED <<scenario, tables, queue, effect>>

\* What has no compensation is marked first, then tasks are enqueued, the latest first.
enqueueCompletedStepsForRollback(w) ==
    /\ At(w, "undoCompleted")
    /\ \E rows \in {Keep(StepRows, Rows(w, {"completed"}))} :
          Continue(w, FlattenSeq([k \in DOMAIN rows |->
                          IF IsTask(rows[k]) THEN <<>> ELSE rollbackStep(rows[k])])
                       \o FlattenSeq(Reverse([k \in DOMAIN rows |->
                          IF IsTask(rows[k]) THEN rollbackStep(rows[k]) ELSE <<>>])))
    /\ UNCHANGED <<scenario, tables, queue, effect>>

hasStepsInCompensation(w) ==
    /\ At(w, "hasCompensation")
    /\ Continue(w, IF Sees(w, {"compensation"}) THEN <<>> ELSE <<Set(Inst, "failed")>>)
    /\ UNCHANGED <<scenario, tables, queue, effect>>

stopParallelBranchesInFork(w) ==
    /\ At(w, "stop")
    /\ \E rows \in {Keep(StepRows, Rows(w, Unfinished) \cap (Steps \ {Now(w).row}))} :
          Continue(w, [k \in DOMAIN rows |-> Set(rows[k], "skipped")])
    /\ UNCHANGED <<scenario, tables, queue, effect>>

\* A branch of at most two steps, from its end.
FromEnd(h) == IF next[h] = NoRow THEN <<h>> ELSE <<next[h], h>>

\* Mutant: a rollback follows the Prev links and does not look into the other branches.
RollbackOwnBranch(s) ==
    <<s>> \o (IF s \in Steps \ Heads THEN <<Predecessor(s)>> ELSE <<>>) \o <<Fork>>

\* The step, the one before it in its branch, the other branches from their ends, the fork.
RollbackOrder(s) ==
    LET before == IF s \in Steps \ Heads THEN <<Predecessor(s)>> ELSE <<>>
        other  == [b \in DOMAIN heads |->
                     IF heads[b] \in {s} \cup ToSet(before) THEN <<>> ELSE FromEnd(heads[b])]
    IN  <<s>> \o before \o FlattenSeq(other) \o <<Fork>>

\* The branch of a condition is walked only if the condition is completed.
Walked(w, s, r) ==
    r \in virtual \ {s} => See(w, Predecessor(r)) = "completed"

rollbackToSavePointOrRoot(w) ==
    /\ At(w, "rollback")
    /\ \E rows \in {Keep(RollbackOrder(Now(w).row),
                        {r \in Rows(w, {"completed", "failed"}) : Walked(w, Now(w).row, r)})} :
          Continue(w, FlattenSeq([k \in DOMAIN rows |-> rollbackStep(rows[k])]))
    /\ UNCHANGED <<scenario, tables, queue, effect>>

----------------------------------------------------------------------------
\* ExecuteNext

Inactive == {"skipped", "paused", "rolled_back"}

DequeueStep(w, r) ==
    /\ ~Busy(w)
    /\ queue[r] > 0
    /\ queue' = [queue EXCEPT ![r] = @ - 1]
    /\ wk' = [wk EXCEPT ![w].row = r, ![w].todo =
                CASE committed[r] \in Inactive -> <<>>
                  [] committed[r] = "compensation" -> <<Statement("compensate", r, "")>>
                  [] OTHER -> <<Set(r, "running"), Statement("execute", r, "")>>]
    /\ UNCHANGED <<scenario, tables, effect>>

\* The handler of a task returns, or a condition is evaluated.
ExecuteTask(w, ok) ==
    LET s == Now(w).row
    IN  /\ At(w, "execute")
        /\ s \in Steps
        /\ ok \/ s \in failing
        /\ Continue(w, IF ok THEN handleStepSuccess(s) ELSE handleStepFailure(s))
        /\ effect' = [effect EXCEPT ![s] = IF ok /\ IsTask(s) THEN "done" ELSE @]
        /\ UNCHANGED <<scenario, tables, queue>>

executeJoin(w) ==
    LET j == See(w, JoinState)
        r == Now(w).row
    IN  /\ At(w, "execute")
        /\ r \notin Steps
        /\ Continue(w, IF j.ready /\ ~(strategy = "all" /\ j.failed # {})
                       THEN handleStepSuccess(r) ELSE handleStepFailure(r))
        /\ UNCHANGED <<scenario, tables, queue, effect>>

executeCompensationStep(w) ==
    LET s == Now(w).row
    IN  /\ At(w, "compensate")
        /\ effect' = [effect EXCEPT ![s] = "undone"]
        /\ Continue(w, <<Set(s, "rolled_back"), Statement("compensated", s, "")>>)
        /\ UNCHANGED <<scenario, tables, queue>>

AfterCompensation(w) ==
    /\ At(w, "compensated")
    /\ Continue(w, IF Sees(w, Unfinished) THEN <<>>
                   ELSE <<Statement("hasCompensation", NoRow, "")>>)
    /\ UNCHANGED <<scenario, tables, queue, effect>>

\* The row that worker w is about to write, and that another worker has locked.
Wanted(w) ==
    CASE JoinStatement(w) /\ ~Unknown(w) -> {JoinState}
      [] At(w, "set") -> {Now(w).row}
      [] OTHER -> {}
WaitsFor(w, v) == \E r \in Wanted(w) : holder[r] = v

\* Worker w gives up its locks.  Whoever waits for a row gets it before w, which has to
\* poll and execute a step first, can ask for it again.
Released(w) ==
    [r \in DOMAIN holder |->
        IF holder[r] # w THEN holder[r]
        ELSE IF \E v \in Workers \ {w} : r \in Wanted(v)
             THEN CHOOSE v \in Workers \ {w} : r \in Wanted(v)
             ELSE Nobody]

\* ExecuteNext returns and its transaction is committed.
Commit(w) ==
    /\ Busy(w)
    /\ wk[w].todo = <<>>
    /\ committed' = [r \in DOMAIN committed |-> See(w, r)]
    /\ holder' = Released(w)
    /\ queue' = [r \in DOMAIN queue |->
                   queue[r] + Cardinality({k \in DOMAIN wk[w].items : wk[w].items[k] = r})]
    /\ wk' = [wk EXCEPT ![w] = Idle]
    /\ UNCHANGED <<scenario, draft, effect>>

\* Postgres finds a deadlock and aborts one of the two: ExecuteNext returns an error, its
\* transaction is rolled back, and its queue item is free again.
DeadlockAbort(w) ==
    /\ \E v \in Workers \ {w} : WaitsFor(w, v) /\ WaitsFor(v, w)
    /\ draft' = [r \in DOMAIN draft |-> IF holder[r] = w THEN committed[r] ELSE draft[r]]
    /\ holder' = Released(w)
    /\ queue' = [queue EXCEPT ![wk[w].row] = @ + 1]
    /\ wk' = [wk EXCEPT ![w] = Idle]
    /\ UNCHANGED <<scenario, committed, effect>>

----------------------------------------------------------------------------
Goes(w) ==
    \/ UpdateStep(w) \/ EnqueueStep(w) \/ CreateStep(w)
    \/ SelectJoinState(w) \/ ReplaceInJoinWaitFor(w) \/ SkipNotification(w)
    \/ UpdateJoinState(w) \/ JoinIsReady(w)
    \/ hasUnfinishedSteps(w) \/ completeWorkflow(w) \/ enqueueCompletedStepsForRollback(w)
    \/ hasStepsInCompensation(w) \/ stopParallelBranchesInFork(w)
    \/ rollbackToSavePointOrRoot(w)
    \/ \E ok \in BOOLEAN : ExecuteTask(w, ok)
    \/ executeJoin(w) \/ executeCompensationStep(w) \/ AfterCompensation(w)
    \/ Commit(w)

Polls(w) == \E r \in DOMAIN queue : DequeueStep(w, r)

Next == \E w \in Workers : Goes(w) \/ Polls(w) \/ DeadlockAbort(w)

Spec == Init /\ [][Next]_vars
=============================================================================
