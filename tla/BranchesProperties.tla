------------------------- MODULE BranchesProperties -------------------------
(***************************************************************************)
(* What can be said of branches that end at the same time, store by store. *)
(***************************************************************************)
EXTENDS Branches

\* Workers poll, handlers return, statements come back, and Postgres resolves deadlocks.
Fairness ==
    \A w \in Workers :
        WF_vars(Goes(w)) /\ WF_vars(Polls(w)) /\ WF_vars(DeadlockAbort(w))
FairSpec == Spec /\ Fairness

\* No worker is at work and nothing is in the queue.
AtRest == (\A w \in Workers : ~Busy(w)) /\ \A r \in DOMAIN queue : queue[r] = 0

\* What is committed, seen as a fork and its join.
FJ == INSTANCE ForkJoin WITH
        serial   <- store = "postgres" /\ HasJoin,
        wanted   <- IF strategy = "any" THEN 1 ELSE Len(heads),
        branches <- Ends,
        ended    <- committed[JoinState].completed \cup committed[JoinState].failed,
        started  <- Cardinality({j \in ToSet(JoinRows) : committed[j] # "none"}),
        result   <- committed[Inst]

\* On Postgres the statements of two ExecuteNext calls interleave (tx_manager.go opens READ
\* COMMITTED transactions), and still what is committed goes through the steps of ForkJoin:
\* no report of a branch to UpdateJoinState is lost, the one that completes the set starts
\* the join in the same transaction, no second join step is created, and the instance is not
\* completed before the join.
ImplementsForkJoin == FJ!Spec

Deadlocked == \E v, w \in Workers : v # w /\ WaitsFor(v, w) /\ WaitsFor(w, v)

\* Postgres: everything has ended, but the last two to end did not see each other.
Unnoticed ==
    /\ AtRest /\ store = "postgres" /\ strategy # "all" /\ committed[Inst] = "running"
    /\ \A r \in ToSet(StepRows) : committed[r] \notin Unfinished

Finished == AtRest /\ committed[Inst] \in {"completed", "failed"}

\* Every instance comes to rest as completed or failed, in every order of the statements of
\* handleStepSuccess, handleStepFailure and completeWorkflow.  Two things stand in the way
\* on Postgres: two branches may deadlock over the join row and a step row again and again,
\* and without a join that waits for all branches the last two steps to end may each find
\* the other unfinished, so that nobody calls completeWorkflow.
Settles == []<>Deadlocked \/ <>[](Finished \/ Unnoticed)

\* The claim of the specification that no row of a failed instance is left completed once
\* the preventive stop (stopParallelBranchesInFork) and the reactive rollback
\* (enqueueCompletedStepsForRollback) have done their work.
NothingLeftCompleted ==
    AtRest /\ committed[Inst] = "failed" => \A r \in ToSet(StepRows) : committed[r] # "completed"

\* With branches of one step and a join that waits for all of them the claim does hold, and
\* more: when a failed instance is at rest every step is compensated or skipped, and what a
\* handler has done is undone by the rollback of its sibling, of the join or of
\* completeWorkflow, unless stopParallelBranchesInFork has overwritten its row.
UndoneOrSkipped ==
    strategy = "all" /\ Heads = Ends /\ AtRest /\ committed[Inst] = "failed" =>
        \A s \in Steps : /\ committed[s] \in {"rolled_back", "skipped"}
                         /\ effect[s] = "done" => committed[s] = "skipped"

\* What is committed of the join state never goes back, however the statements of the
\* branches interleave: no report of a branch to UpdateJoinState is overwritten by another
\* one, a step the join has come to know stays known, and a join that is ready stays so.
\* SQLite reads the state and writes it back in two statements, and is not promised this.
JoinGrows ==
    LET old == committed[JoinState]
        new == committed'[JoinState]
    IN  /\ old.completed \subseteq new.completed
        /\ old.failed \subseteq new.failed
        /\ new.virtual \subseteq old.virtual
        /\ old.ready => new.ready
ReportsKept == [][store # "sqlite" => JoinGrows]_vars

\* Postgres: however many branches report at the same time, and whatever deadlocks are
\* broken, at most one join step of the instance exists.  The worker that finds the join
\* ready and no step for it (notifyJoinSteps) has the join state locked.
JoinStartedOnce ==
    store = "postgres" =>
        \A j, k \in ToSet(JoinRows) : committed[j] # "none" /\ committed[k] # "none" => j = k
=============================================================================
