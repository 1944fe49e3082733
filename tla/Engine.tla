------------------------------- MODULE Engine -------------------------------
(***************************************************************************)
(* The engine (engine.go) and the workers that call ExecuteNext            *)
(* (worker.go) over the tables of module Store.                            *)
(*                                                                         *)
(* Handlers are the only part of ExecuteNext that takes time: a worker     *)
(* dequeues an item and starts a handler in one step, and applies its      *)
(* result in another; between the two, other workers, API calls, crashes   *)
(* and the cancel-requests worker act.  Steps without a handler (fork,     *)
(* join, save point, condition, human) are executed by the dequeuing step. *)
(* In Postgres ExecuteNext is one transaction: what it wrote before the    *)
(* handler ("running", the claim) is seen by no one until it commits, and  *)
(* the rows it wrote stay locked.                                          *)
(*                                                                         *)
(* SQLite and the memory store have no transaction: the statements that    *)
(* apply an outcome are seen one by one.  An atomic step is then exact     *)
(* only when no other worker is at work on the same instance, which        *)
(* AtomicityAssumption demands.  What happens between the statements of    *)
(* two branches is the subject of module Branches.                         *)
(***************************************************************************)
EXTENDS Store

CONSTANTS
    Handlers,        \* worker -> the steps its engine has a handler registered for
    CancelKinds,     \* instance -> the requests users make: a subset of {"cancel", "abort"}
    PluginRejects,   \* instances for whose steps an OnStepStart plugin may return an error
    Together,        \* bound: the sets of instances that are started in one behaviour
    Pool,            \* bound: instance -> the workers that poll in its behaviours
    MaxQueueIds,     \* bound: polling a human step or retrying a compensation stops here
    MaxDeadLetters,  \* bound: a dead letter is requeued only up to this id
    MaxCrashes       \* bound on worker crashes (in Postgres also on aborted transactions)

ASSUME EngineAssumption ==
    /\ Handlers \in [Workers -> SUBSET Steps]
    /\ CancelKinds \in [Instances -> SUBSET {"cancel", "abort"}]
    /\ PluginRejects \subseteq Instances
    /\ Together \subseteq SUBSET Instances
    /\ Pool \in [Instances -> SUBSET Workers]
    /\ MaxQueueIds \in Nat /\ MaxDeadLetters \in Nat /\ MaxCrashes \in Nat

\* Where an outcome is not applied in a transaction, one worker at a time works on an
\* instance: there is one worker, or no step of the workflow runs beside another.
ASSUME AtomicityAssumption ==
    \/ StoreKind = "postgres"
    \/ \A i \in Instances :
         \/ \A v, w \in Pool[i] : v = w
         \/ \A n \in Steps : IsForking(n) => ~isStepDescendantOf(n, Start[i])

VARIABLES
    db,       \* the tables
    wk,       \* what each worker is doing
    calls,    \* history: completed handler calls per instance and step
    crashes   \* history: number of crashes

vars == <<db, wk, calls, crashes>>

\* A worker inside a handler holds the queue item, the row and what it read of the row.
InFlight == [kind : {"task", "compensation"}, item : Nat, step : Nat, inst : Instances,
             retry : Nat, comp : Nat, cancelled : BOOLEAN]
Idle == [kind |-> "idle"]

Busy(w)   == wk[w].kind # "idle"
Locked(w) == {wk[v].step : v \in {x \in Workers \ {w} : Busy(x)}}

\* Handler calls that returned: of the task (run, of which ok without an error) and of
\* its compensation (undo, of which undone without an error).
Calls == [run : Nat, ok : Nat, undo : Nat, undone : Nat]
NoCalls == [run |-> 0, ok |-> 0, undo |-> 0, undone |-> 0]
TaskReturned(c, ok) == [c EXCEPT !.run = c.run + 1, !.ok = IF ok THEN c.ok + 1 ELSE c.ok]
CompensationReturned(c, ok) ==
    [c EXCEPT !.undo = c.undo + 1, !.undone = IF ok THEN c.undone + 1 ELSE c.undone]

Init ==
    /\ db = EmptyDatabase
    /\ wk = [w \in Workers |-> Idle]
    /\ calls = [i \in Instances |-> [n \in Steps |-> NoCalls]]
    /\ crashes = 0

----------------------------------------------------------------------------
\* Questions about the rows of an instance

HasStatus(d, i, S) == \E k \in Rows(d, i) : d.steps[k].status \in S
\* Mutant: steps that have not started do not count.
hasRunningSteps(d, i) == HasStatus(d, i, {"running"})

hasUnfinishedSteps(d, i) == HasStatus(d, i, {"pending", "running", "paused"})
hasFailedOrRolledBackSteps(d, i) == HasStatus(d, i, {"failed", "rolled_back"})
hasStepsInCompensation(d, i)     == HasStatus(d, i, {"compensation"})

\* stepMap: the last row of each step name, 0 when there is none.
LastRow(d, i, n) ==
    LET K == {k \in Rows(d, i) : d.steps[k].name = n} IN IF K = {} THEN 0 ELSE Max(K)
LastStatus(d, i) ==
    [n \in Steps |-> IF LastRow(d, i, n) = 0 THEN "absent"
                     ELSE d.steps[LastRow(d, i, n)].status]

----------------------------------------------------------------------------
\* Enqueueing

\* CreateStep and EnqueueStep for each name of the sequence.
CreateAndEnqueue(d, i, names) ==
    EnqueueRange(CreateSteps(d, i, names, "pending"), i, Len(d.steps), Len(names))

enqueueNextSteps(d, i, names) ==
    IF d.inst[i] = "dlq" THEN d ELSE CreateAndEnqueue(d, i, names)

executeFork(d, i, f) ==
    LET made == CreateAndEnqueue(d, i, Def[f].parallel)
        j    == JoinAfter(f)
    IN  IF j = NoStep THEN made
        ELSE CreateJoinState(made, i, j,
                 IF d.waitFor[j] = <<>> THEN Def[f].parallel ELSE d.waitFor[j])

----------------------------------------------------------------------------
\* Joins

\* A step of the join's fork is still active and is not itself waited for.
hasPendingStepsInParallelBranches(d, i, j) ==
    LET w == First(d.waitFor[j], LAMBDA x :
               ~IsVirtual(x) /\ HasStep(d, i, x) /\ isStepInForkBranch(x))
    IN  /\ w # NoStep
        /\ \E k \in Rows(d, i) :
             /\ d.steps[k].status \in {"pending", "running"}
             /\ isStepInParallelBranch(d.steps[k].name, findForkStepForParallelStep(w))
             /\ d.steps[k].name \notin ToSet(d.waitFor[j])

\* The outcome of step n is recorded in the joins J; those that become ready get a row.
createReadyJoins(d, i, J) ==
    LET names == SetToSeq({j \in J : /\ d.join[i][j].ready
                                     /\ ~hasPendingStepsInParallelBranches(d, i, j)
                                     /\ ~HasStep(d, i, j)})
    IN  IF d.inst[i] = "dlq" THEN CreateSteps(d, i, names, "paused")
        ELSE CreateAndEnqueue(d, i, names)

notifyJoins(d, i, J, n, success) ==
    createReadyJoins(UpdateJoinStates(d, i, J, n, success), i, J)

notifyJoinStepsForStep(d, i, j, n, success) == notifyJoins(d, i, {j}, n, success)

notifyJoinSteps(d, i, n, success) ==
    notifyJoins(d, i,
        {j \in JoinSteps : n \in ToSet(d.join[i][j].waiting) \cup ToSet(d.waitFor[j])},
        n, success)

\* A step under a condition takes the place of the condition's virtual step.
replaceVirtualOf(d, i, n, c, j, success) ==
    IF c = NoStep \/ j = NoStep THEN d
    ELSE notifyJoinStepsForStep(ReplaceInJoinWaitFor(d, i, j, Virtual[c], n),
                                i, j, n, success)

replaceVirtualStep(d, i, n, success) ==
    replaceVirtualOf(d, i, n, findConditionStepInBranch(n), findJoinStepForForkBranch(n),
                     success)

\* A terminal step of a branch without conditions is waited for from now on.
addToWaitFor(d, i, n, j) ==
    LET js == d.join[i][j]
    IN  IF j = NoStep THEN d
        ELSE IF ~js.exists THEN CreateJoinState(d, i, j, <<n>>)
        ELSE IF \E x \in ToSet(js.waiting) : x = n \/ IsVirtual(x) THEN d
        ELSE AddToJoinWaitFor(d, i, j, n)

addTerminalStep(d, i, n) ==
    IF isTerminalStepInForkBranch(n) THEN addToWaitFor(d, i, n, findJoinStepForForkBranch(n))
    ELSE d

----------------------------------------------------------------------------
\* Rollback

\* rollbackStep on the last row of each of the steps: no compensation -> rolled_back;
\* budget spent -> failed and a dead letter; otherwise one more compensation is queued.
rollbackRows(d, i, K) ==
    LET OnF(k) == Def[d.steps[k].name].onFailure
        Plain  == {k \in K : OnF(k) = NoStep}
        Spent  == {k \in K \ Plain : CompensationRetryCount(d, k) >= Def[OnF(k)].maxRetries}
        Undo   == K \ (Plain \cup Spent)
        d1 == UpdateSteps(UpdateSteps(d, Plain, "rolled_back"), Spent, "failed")
        d2 == CreateDeadLetterRecords(d1, Spent)
        d3 == UpdateStepsCompensationRetry(d2, Undo,
                 [k \in Undo |-> CompensationRetryCount(d, k) + 1])
    IN  EnqueueRows(d3, i, Undo)

rollbackSteps(d, i, names) ==
    rollbackRows(d, i, {LastRow(d, i, n) : n \in names} \cap Rows(d, i))

\* Mutant: only the failed step is rolled back.
rollbackFailedStep(d, i, n) == rollbackSteps(d, i, {n})

rollbackToSavePointOrRoot(d, i, n) ==
    rollbackSteps(d, i, rollbackStepChain(n, findNearestSavePoint(n), LastStatus(d, i)))

\* The completed steps created after the last save point.
enqueueCompletedStepsForRollback(d, i) ==
    LET SP   == {k \in Rows(d, i) : Def[d.steps[k].name].type = "savepoint"}
        Late == {k \in Rows(d, i) : /\ d.steps[k].status = "completed"
                                    /\ \A s \in SP : k > s}
        Undo == {k \in Late : Def[d.steps[k].name].onFailure # NoStep}
        d1   == UpdateSteps(d, Late \ Undo, "rolled_back")
    IN  EnqueueRows(UpdateStepsCompensationRetry(d1, Undo, [k \in Undo |-> 0]), i, Undo)

failUnlessCompensating(d, i) ==
    IF hasStepsInCompensation(d, i) THEN d ELSE UpdateInstanceStatus(d, i, "failed")

completeWorkflow(d, i) ==
    IF hasFailedOrRolledBackSteps(d, i)
    THEN failUnlessCompensating(enqueueCompletedStepsForRollback(d, i), i)
    ELSE UpdateInstanceStatus(d, i, "completed")

\* Only for the head of a branch of a fork: its siblings that are still active.
stopParallelBranchesInFork(d, i, n) ==
    LET f == findForkStepForParallelStep(n)
    IN  IF f = NoStep THEN d
        ELSE UpdateSteps(d, {k \in Rows(d, i) :
                 /\ d.steps[k].name # n
                 /\ d.steps[k].status \in {"pending", "running"}
                 /\ isStepInParallelBranch(d.steps[k].name, f)}, "skipped")

----------------------------------------------------------------------------
\* The outcome of a step

\* The join of the branch learns what it has to wait for.
prepareJoin(d, i, n) ==
    IF findConditionStepInBranch(n) # NoStep THEN replaceVirtualStep(d, i, n, TRUE)
    ELSE addTerminalStep(d, i, n)

\* The followers of a step are started; after the last step of all the workflow ends.
continueWorkflow(d, i, last, names) ==
    IF ~last THEN enqueueNextSteps(d, i, SetToSeq(names))
    ELSE IF hasUnfinishedSteps(d, i) THEN d
    ELSE completeWorkflow(d, i)

\* next is FALSE only for a condition that evaluated to false.  A join among the next
\* steps is left to notifyJoinSteps; the else step is started whatever its type.
handleStepSuccess(d, i, k, next) ==
    LET n == d.steps[k].name
        followers == IF next THEN ToSet(Def[n].next) ELSE {Def[n].else} \ {NoStep}
    IN  continueWorkflow(
            notifyJoinSteps(prepareJoin(UpdateStep(d, k, "completed"), i, n), i, n, TRUE),
            i, followers = {}, IF next THEN followers \ JoinSteps ELSE followers)

\* Mutant: one attempt too many.
MayRetryOnceMore(n, retry) == retry <= Def[n].maxRetries + 1 /\ Def[n].maxRetries > 0

\* retry is the retry count the worker read when it dequeued the item.  After the first
\* retry the row's MaxRetries counts, which is 0 in the row of a join.
MayRetry(n, retry) ==
    \/ retry = 0 /\ Def[n].maxRetries > 0
    \/ /\ retry > 0 /\ retry < Def[n].maxRetries
       /\ ~Def[n].noIdempotent /\ n \notin JoinSteps

\* Mutants: the retry is not queued; it is queued twice.
failStep(d, i, k) == UpdateStep(d, k, "failed")
retryStepTwice(d, i, k) == EnqueueStep(EnqueueStep(UpdateStep(d, k, "failed"), i, k), i, k)

retryStep(d, i, k) == EnqueueStep(UpdateStep(d, k, "failed"), i, k)

\* Mutant: no dead letter is written.
pauseWorkflow(d, i, k) ==
    UpdateInstanceStatus(PauseActiveStepsAndClearQueue(UpdateStep(d, k, "paused"), i), i, "dlq")

moveToDLQ(d, i, k) ==
    LET d1 == notifyJoinSteps(UpdateStep(d, k, "paused"), i, d.steps[k].name, FALSE)
        d2 == PauseActiveStepsAndClearQueue(CreateDeadLetterRecords(d1, {k}), i)
    IN  UpdateInstanceStatus(d2, i, "dlq")

failWorkflow(d, i, k) ==
    LET n  == d.steps[k].name
        d1 == replaceVirtualStep(UpdateStep(d, k, "failed"), i, n, FALSE)
        d2 == notifyJoinSteps(d1, i, n, FALSE)
        d3 == stopParallelBranchesInFork(d2, i, n)
    IN  UpdateInstanceStatus(rollbackToSavePointOrRoot(d3, i, n), i, "failed")

handleStepFailure(d, i, k, retry) ==
    IF MayRetry(d.steps[k].name, retry) THEN retryStep(d, i, k)
    ELSE IF DLQEnabled[i] THEN moveToDLQ(d, i, k)
    ELSE failWorkflow(d, i, k)

\* From the last completed step to the root.
rollbackAll(d, i) ==
    LET Done == {k \in Rows(d, i) : d.steps[k].status = "completed"}
    IN  IF Done = {} THEN d
        ELSE rollbackSteps(d, i, rollbackStepChain(d.steps[Max(Done)].name, RootStep,
                                                   LastStatus(d, i)))

\* Mutant: an abort rolls back like a cancellation.
rollbackAndStop(d, i) ==
    DeleteCancelRequest(UpdateInstanceStatus(rollbackAll(d, i), i,
        IF d.cancel[i] = "cancel" THEN "cancelled" ELSE "aborted"), i)

cancelOrAbort(d, i) ==
    DeleteCancelRequest(
        IF d.cancel[i] = "cancel"
        THEN UpdateInstanceStatus(rollbackAll(UpdateInstanceStatus(d, i, "cancelling"), i),
                                  i, "cancelled")
        ELSE UpdateInstanceStatus(d, i, "aborted"), i)

\* Mutant: the active steps are not stopped.
handleWithoutStopping(d, i, locked) == cancelOrAbort(d, i)

\* stopActiveSteps first.  Its error leaves everything as it is: the request stays, and
\* the caller drops the item.
handleCancellation(d, i, locked) ==
    IF ActiveStepsUnreadable(d, i, locked) THEN d
    ELSE cancelOrAbort(UpdateSteps(d, GetActiveStepsForUpdate(d, i, locked), "skipped"), i)

\* comp is the compensation count the worker read when it dequeued the item.
compensationSucceeded(d, i, k) ==
    LET d1 == UpdateStep(d, k, "rolled_back")
    IN  IF hasUnfinishedSteps(d1, i) \/ ~hasFailedOrRolledBackSteps(d1, i) THEN d1
        ELSE failUnlessCompensating(d1, i)

\* Mutant: the retry count is not advanced.
compensationRetried(d, i, k, comp) ==
    IF comp < Def[Def[d.steps[k].name].onFailure].maxRetries
    THEN EnqueueStep(d, i, k) ELSE UpdateStep(d, k, "failed")

compensationFailed(d, i, k, comp) ==
    IF comp < Def[Def[d.steps[k].name].onFailure].maxRetries
    THEN EnqueueStep(UpdateStepsCompensationRetry(d, {k}, [r \in {k} |-> comp + 1]), i, k)
    ELSE UpdateStep(d, k, "failed")

----------------------------------------------------------------------------
\* ExecuteNext

\* In Postgres a transaction that writes a row another one holds waits for it.
LocksFree(w, d) ==
    StoreKind = "postgres" =>
        \A v \in Workers \ {w} : Busy(v) =>
            /\ d.steps[wk[v].step] = db.steps[wk[v].step]
            /\ \E q \in d.queue : q.id = wk[v].item

\* The transaction of worker w on item id ends with content d.
Commit(w, id, d) ==
    /\ LocksFree(w, RemoveFromQueue(d, id))
    /\ db' = RemoveFromQueue(d, id)
    /\ wk' = [wk EXCEPT ![w] = Idle]
    /\ UNCHANGED crashes

Inactive == {"skipped", "paused", "rolled_back"}

\* Worker w is idle, dequeues q and gets past the DLQ check.
Dequeues(w, q) ==
    /\ ~Busy(w) /\ w \in Pool[q.inst]
    /\ q \in Dequeuable(db)
    /\ db.inst[q.inst] # "dlq"

\* The item is for a forward execution; a task whose handler the engine of w lacks is
\* put back instead (a step that changes nothing here).
Forward(w, q, types) ==
    LET n == db.steps[q.step].name
    IN  /\ Dequeues(w, q)
        /\ db.steps[q.step].status \notin Inactive \cup {"compensation"}
        /\ Def[n].type \in types
        /\ Def[n].type = "task" => n \in Handlers[w]

\* An item of an instance in DLQ state is dropped.
DropFrozen(w, q) ==
    /\ ~Busy(w) /\ w \in Pool[q.inst]
    /\ q \in Dequeuable(db)
    /\ db.inst[q.inst] = "dlq"
    /\ Commit(w, q.id, db)
    /\ UNCHANGED calls

\* So is an item of a step that is not to run; the code also removes the queue item
\* whose id is the id of the step.
DropInactive(w, q) ==
    /\ Dequeues(w, q)
    /\ db.steps[q.step].status \in Inactive
    /\ Commit(w, q.id, RemoveFromQueue(db, q.step))
    /\ UNCHANGED calls

\* The row a worker sees between dequeuing and committing: in Postgres "running" is
\* its own uncommitted write.
Running(d, k) == UpdateStep(d, k, "running")
Started(d, q) == IF StoreKind = "postgres" THEN d ELSE Running(d, q.step)

StartTask(w, q) ==
    /\ Forward(w, q, {"task"})
    /\ db.cancel[q.inst] = "none"
    /\ db' = Started(Claim(db, q, w), q)
    /\ wk' = [wk EXCEPT ![w] = [kind |-> "task", item |-> q.id, step |-> q.step,
                inst |-> q.inst, retry |-> db.steps[q.step].retry, comp |-> 0,
                cancelled |-> FALSE]]
    /\ UNCHANGED <<calls, crashes>>

StartCompensation(w, q) ==
    /\ Dequeues(w, q)
    /\ db.steps[q.step].status = "compensation"
    /\ Def[db.steps[q.step].name].onFailure \in Handlers[w]
    /\ db' = Claim(db, q, w)
    /\ wk' = [wk EXCEPT ![w] = [kind |-> "compensation", item |-> q.id, step |-> q.step,
                inst |-> q.inst, retry |-> 0, comp |-> CompensationRetryCount(db, q.step),
                cancelled |-> FALSE]]
    /\ UNCHANGED <<calls, crashes>>

\* OnStepStart fails: Postgres rolls back, the others have already lost the item.
RejectedByPlugin(w, q) ==
    /\ q.inst \in PluginRejects /\ StoreKind # "postgres"
    /\ Forward(w, q, StepTypes)
    /\ Commit(w, q.id, db)
    /\ UNCHANGED calls

CancelAtStart(w, q) ==
    /\ Forward(w, q, StepTypes)
    /\ db.cancel[q.inst] # "none"
    /\ Commit(w, q.id, handleCancellation(db, q.inst, Locked(w)))
    /\ UNCHANGED calls

ExecuteFork(w, q) ==
    /\ Forward(w, q, {"fork", "parallel"})
    /\ db.cancel[q.inst] = "none"
    /\ LET d == executeFork(Running(db, q.step), q.inst, db.steps[q.step].name)
       IN  Commit(w, q.id, handleStepSuccess(d, q.inst, q.step, TRUE))
    /\ UNCHANGED calls

ExecuteSavePoint(w, q) ==
    /\ Forward(w, q, {"savepoint"})
    /\ db.cancel[q.inst] = "none"
    /\ Commit(w, q.id, handleStepSuccess(Running(db, q.step), q.inst, q.step, TRUE))
    /\ UNCHANGED calls

\* The join fails when it is not ready or when "all" was asked and a branch failed.
ExecuteJoin(w, q) ==
    LET j  == db.steps[q.step].name
        js == db.join[q.inst][j]
        d  == Running(db, q.step)
    IN  /\ Forward(w, q, {"join"})
        /\ db.cancel[q.inst] = "none"
        /\ IF js.ready /\ (Def[j].strategy = "all" => js.failed = {})
           THEN Commit(w, q.id, handleStepSuccess(d, q.inst, q.step, TRUE))
           ELSE Commit(w, q.id, handleStepFailure(d, q.inst, q.step, db.steps[q.step].retry))
        /\ UNCHANGED calls

\* The expression depends on the step's input: either result, or an evaluation error.
ExecuteCondition(w, q, result) ==
    LET d == Running(db, q.step)
    IN  /\ Forward(w, q, {"condition"})
        /\ db.cancel[q.inst] = "none"
        /\ IF result = "error"
           THEN Commit(w, q.id, handleStepFailure(d, q.inst, q.step, db.steps[q.step].retry))
           ELSE Commit(w, q.id, handleStepSuccess(d, q.inst, q.step, result = "true"))
        /\ UNCHANGED calls

\* No decision yet: wait, and look again when the new item comes up.
PollHuman(w, q) ==
    /\ Forward(w, q, {"human"})
    /\ db.cancel[q.inst] = "none"
    /\ db.steps[q.step].decision = "none"
    /\ db.nq < MaxQueueIds
    /\ Commit(w, q.id, EnqueueStep(UpdateStepStatus(Running(db, q.step), q.step,
                                       "waiting_decision"), q.inst, q.step))
    /\ UNCHANGED calls

\* Mutant: a rejection is taken for a confirmation.
processConfirmation(d, i, k, waiting) ==
    IF waiting THEN d ELSE handleStepSuccess(Running(d, k), i, k, TRUE)

\* processHumanDecision with the decision of the row in d, then handleStepSuccess unless
\* the row the worker has read before was still waiting for the decision.
processHumanDecision(d, i, k, waiting) ==
    LET decision == d.steps[k].decision
        d1 == UpdateStepStatus(Running(d, k), k, decision)
    IN  IF decision = "rejected" THEN UpdateInstanceStatus(d1, i, "aborted")
        ELSE IF waiting THEN d1 ELSE handleStepSuccess(d1, i, k, TRUE)

ResumeHuman(w, q) ==
    /\ Forward(w, q, {"human"})
    /\ db.cancel[q.inst] = "none"
    /\ db.steps[q.step].decision # "none"
    /\ Commit(w, q.id, processHumanDecision(db, q.inst, q.step, FALSE))
    /\ UNCHANGED calls

\* Mutant: every store goes on at once.
decideAndContinue(d, k, decision) ==
    LET d1 == [d EXCEPT !.steps[k] = [@ EXCEPT !.decision = decision, !.status = decision]]
        i  == d.steps[k].inst
    IN  IF decision = "rejected" THEN UpdateInstanceStatus(d1, i, "aborted")
        ELSE handleStepSuccess(d1, i, k, TRUE)

\* MakeHumanDecision, for a row that waits for it.  The memory store hands out its own
\* row, so the step read before the update is "confirmed" after it and the workflow goes
\* on at once; the other stores hand out a copy, which is still waiting, and leave the
\* rest to the queued item.
humanDecision(d, k, decision) ==
    LET d1 == [d EXCEPT !.steps[k] = [@ EXCEPT !.decision = decision, !.status = decision]]
        i  == d.steps[k].inst
    IN  IF decision = "rejected" THEN UpdateInstanceStatus(d1, i, "aborted")
        ELSE IF StoreKind = "memory" THEN handleStepSuccess(d1, i, k, TRUE)
        ELSE d1

\* The decision is made while worker w looks for it, after it has read the waiting row.
DecidedWhilePolling(w, q, decision) ==
    /\ Forward(w, q, {"human"})
    /\ db.cancel[q.inst] = "none"
    /\ db.steps[q.step].status = "waiting_decision"
    /\ Commit(w, q.id, processHumanDecision(humanDecision(db, q.step, decision),
                                            q.inst, q.step, TRUE))
    /\ UNCHANGED calls

\* The task handler of worker w returns; ok says whether without an error.
FinishTask(w, ok) ==
    LET f == wk[w]
        i == f.inst
        n == db.steps[f.step].name
        d == IF StoreKind = "postgres" THEN Running(db, f.step) ELSE db
    IN  /\ f.kind = "task"
        /\ Commit(w, f.item,
             CASE f.cancelled /\ db.cancel[i] # "none" -> handleCancellation(d, i, Locked(w))
               [] ~(f.cancelled /\ db.cancel[i] # "none") /\ ok
                    -> handleStepSuccess(d, i, f.step, TRUE)
               [] OTHER -> handleStepFailure(d, i, f.step, f.retry))
        /\ calls' = [calls EXCEPT ![i][n] = TaskReturned(@, ok)]

\* The compensation handler of worker w returns.
FinishCompensation(w, ok) ==
    LET f == wk[w]
        n == db.steps[f.step].name
    IN  /\ f.kind = "compensation"
        /\ ok \/ db.nq < MaxQueueIds
        /\ Commit(w, f.item,
             IF ok THEN compensationSucceeded(db, f.inst, f.step)
             ELSE compensationFailed(db, f.inst, f.step, f.comp))
        /\ calls' = [calls EXCEPT ![f.inst][n] = CompensationReturned(@, ok)]

----------------------------------------------------------------------------
\* The API, the cancel-requests worker and crashes

StartWorkflow(i) ==
    /\ db.inst[i] = "none"
    /\ \E G \in Together : {i} \cup {h \in Instances : db.inst[h] # "none"} \subseteq G
    /\ db' = enqueueNextSteps(UpdateInstanceStatus(db, i, "running"), i, <<Start[i]>>)
    /\ UNCHANGED <<wk, calls, crashes>>

\* CancelWorkflow and AbortWorkflow.
RequestCancel(i, kind) ==
    /\ db.inst[i] \notin {"none", "completed", "failed", "cancelled", "aborted"}
    /\ db' = CreateCancelRequest(db, i, kind)
    /\ UNCHANGED <<wk, calls, crashes>>

\* processCancelRequests cancels the context of a running task.
CancelTick(w) ==
    /\ wk[w].kind = "task"
    /\ ~wk[w].cancelled
    /\ db.cancel[wk[w].inst] # "none"
    /\ wk' = [wk EXCEPT ![w].cancelled = TRUE]
    /\ UNCHANGED <<db, calls, crashes>>

MakeHumanDecision(k, decision) ==
    /\ Def[db.steps[k].name].type = "human"
    /\ db.steps[k].status = "waiting_decision"
    /\ db' = humanDecision(db, k, decision)
    /\ UNCHANGED <<wk, calls, crashes>>

RequeueFromDLQ(rec) ==
    /\ rec.id <= MaxDeadLetters
    /\ db' = RequeueDeadLetter(db, rec)
    /\ UNCHANGED <<wk, calls, crashes>>

\* A worker dies in a handler, or (Postgres) its transaction is aborted.  Postgres
\* rolls the dequeue back; SQLite keeps the claim and the status for ever; the memory
\* store dies with the process, so there is no crash to model.
Crash(w) ==
    /\ StoreKind # "memory"
    /\ crashes < MaxCrashes
    /\ Busy(w)
    /\ db' = IF StoreKind = "postgres" THEN ReleaseQueueItem(db, wk[w].item) ELSE db
    /\ wk' = [wk EXCEPT ![w] = Idle]
    /\ crashes' = crashes + 1
    /\ UNCHANGED calls

----------------------------------------------------------------------------
ExecuteNext(w) ==
    \/ \E q \in db.queue :
         \/ DropFrozen(w, q) \/ DropInactive(w, q)
         \/ StartTask(w, q) \/ StartCompensation(w, q)
         \/ RejectedByPlugin(w, q) \/ CancelAtStart(w, q)
         \/ ExecuteFork(w, q) \/ ExecuteSavePoint(w, q) \/ ExecuteJoin(w, q)
         \/ \E result \in {"true", "false", "error"} : ExecuteCondition(w, q, result)
         \/ PollHuman(w, q) \/ ResumeHuman(w, q)
         \/ \E decision \in {"confirmed", "rejected"} : DecidedWhilePolling(w, q, decision)
    \/ \E ok \in BOOLEAN : FinishTask(w, ok) \/ FinishCompensation(w, ok)

Api ==
    \/ \E i \in Instances : StartWorkflow(i)
    \/ \E i \in Instances : \E kind \in CancelKinds[i] : RequestCancel(i, kind)
    \/ \E k \in DOMAIN db.steps, decision \in {"confirmed", "rejected"} :
         MakeHumanDecision(k, decision)
    \/ \E rec \in db.dlq : RequeueFromDLQ(rec)

Next ==
    \/ Api
    \/ \E w \in Workers : ExecuteNext(w) \/ CancelTick(w) \/ Crash(w)

Spec == Init /\ [][Next]_vars
============================================================================
