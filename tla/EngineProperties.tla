--------------------------- MODULE EngineProperties ---------------------------
(***************************************************************************)
(* What the engine promises: invariants, properties of steps and liveness  *)
(* of the specification of module Engine.                                  *)
(***************************************************************************)
EXTENDS Engine

Flying(i) == {w \in Workers : Busy(w) /\ wk[w].inst = i}
ItemsOf(i) == {q \in db.queue : q.inst = i}
Quiet(i)  == Flying(i) = {} /\ ItemsOf(i) = {}
StatusesOf(i, n) == {db.steps[k].status : k \in {r \in Rows(db, i) : db.steps[r].name = n}}
Finished == {"completed", "failed", "cancelled", "aborted"}

\* Every table and every worker holds values of its type.
TypeOK ==
    /\ db \in Database
    /\ wk \in [Workers -> InFlight \cup {Idle}]
    /\ calls \in [Instances -> [Steps -> Calls]]
    /\ crashes \in Nat

\* The queue (EnqueueStep, DequeueStep): an id is given out once, an item names a row
\* of its own instance, and a worker inside a handler works on a row of its instance.
QueueSound ==
    /\ \A q \in db.queue :
         /\ q.id < db.nq
         /\ q.step \in DOMAIN db.steps
         /\ db.steps[q.step].inst = q.inst
    /\ \A q, r \in db.queue : q.id = r.id => q = r
    /\ \A w \in Workers : Busy(w) =>
         /\ wk[w].step \in DOMAIN db.steps
         /\ db.steps[wk[w].step].inst = wk[w].inst
         /\ wk[w].item < db.nq

\* Two workers never hold the same queue item (DequeueStep): a claimed item is not
\* handed out again, not even after a crash while somebody still works on it.
ExclusiveClaims ==
    \A v, w \in Workers : Busy(v) /\ Busy(w) /\ wk[v].item = wk[w].item => v = w

\* Inductive invariant: queue and claims fit together.  A worker's item is never free for
\* another (Claim, ReleaseQueueItem), and a dead letter names a row of its instance.
ClaimsHeld ==
    \A w \in Workers, q \in db.queue : Busy(w) /\ q.id = wk[w].item => q.by # Nobody
LettersSound ==
    \A rec \in db.dlq :
        rec.step \in DOMAIN db.steps /\ db.steps[rec.step].inst = rec.inst
Inv == TypeOK /\ QueueSound /\ ExclusiveClaims /\ ClaimsHeld /\ LettersSound

\* Two workers are never inside handlers of the same step at the same time.
OneExecutionPerStep ==
    \A v, w \in Workers : Busy(v) /\ Busy(w) /\ wk[v].step = wk[w].step => v = w

\* A step of the definition gets at most one row per instance: no branch, join or
\* follower is ever started twice.
StepsCreatedOnce ==
    \A k, l \in DOMAIN db.steps :
        db.steps[k].inst = db.steps[l].inst /\ db.steps[k].name = db.steps[l].name => k = l

\* A task handler is never called again once it has succeeded (handleStepSuccess), and it
\* is called again after an error only so often: after the first error whenever retries
\* are allowed at all, after the others up to MaxRetries and not for a step that is not
\* idempotent (handleStepFailure).  That is one call more than the documents allow
\* (AttemptsAsDocumented).
MaxCalls(n) ==
    1 + (IF Def[n].noIdempotent /\ Def[n].maxRetries > 0 THEN 1 ELSE Def[n].maxRetries)
AttemptsBounded ==
    \A i \in Instances, n \in Steps : calls[i][n].run <= MaxCalls(n) /\ calls[i][n].ok <= 1

\* The bound of ENGINE_SPEC.md: MaxRetries is the total number of calls, the first one
\* included, and a step that is not idempotent is executed at most once.
AttemptsAsDocumented ==
    \A i \in Instances, n \in Steps : Def[n].maxRetries > 0 =>
        /\ calls[i][n].run <= Def[n].maxRetries
        /\ Def[n].noIdempotent => calls[i][n].run <= 1

\* A compensation handler is called at most MaxRetries times and never again once it has
\* succeeded (rollbackStep, executeCompensationStep).
CompensationsBounded ==
    \A i \in Instances, n \in Steps : calls[i][n].undo > 0 =>
        /\ calls[i][n].undo <= Def[Def[n].onFailure].maxRetries
        /\ calls[i][n].undone <= 1

\* A completed instance: each of its rows completed, each task succeeded once, nothing
\* was compensated, the join of each fork ran, and nothing is left in the queue.
CompletedMeansDone ==
    \A i \in Instances : db.inst[i] = "completed" =>
        /\ Quiet(i)
        /\ \A k \in Rows(db, i) :
             LET row == db.steps[k] IN
             /\ row.status = "completed"
             /\ Def[row.name].type = "task" => calls[i][row.name].ok = 1
             /\ calls[i][row.name].undo = 0
             /\ IsForking(row.name) /\ JoinAfter(row.name) # NoStep
                    => HasStep(db, i, JoinAfter(row.name))

\* A save point later than the step was reached: a failure does not undo the step.
BehindSavePoint(i, n) ==
    \E s, k \in Rows(db, i) :
        /\ k < s
        /\ db.steps[k].name = n
        /\ Def[db.steps[s].name].type = "savepoint"
        /\ db.steps[s].status = "completed"

\* The saga: when a failed or cancelled instance has come to rest, every task that
\* succeeded and has a compensation was compensated, except what a save point protects
\* from a failure, what is recorded as failed because the compensation kept failing,
\* and what is recorded as skipped because the handler returned after the cancellation.
SagaUndone ==
    \A i \in Instances : db.inst[i] \in {"failed", "cancelled"} /\ Quiet(i) =>
        \A n \in Steps :
            calls[i][n].ok > 0 /\ Def[n].onFailure # NoStep =>
                \/ calls[i][n].undone = 1
                \/ db.inst[i] = "failed" /\ BehindSavePoint(i, n)
                \/ "failed" \in StatusesOf(i, n)
                \/ "skipped" \in StatusesOf(i, n)

\* An instance that is not finished has a queued item or a worker: it cannot be
\* forgotten by everybody.
NotForgotten ==
    \A i \in Instances : db.inst[i] \notin Finished \cup {"none", "dlq"} => ~Quiet(i)

\* An instance in DLQ state can be taken out of it: a dead letter names a paused step.
DeadLetterKept ==
    \A i \in Instances : db.inst[i] = "dlq" =>
        \E rec \in db.dlq : rec.inst = i /\ db.steps[rec.step].status = "paused"

\* Postgres: the item of a worker inside a handler stays in the queue until the worker
\* commits or dies (its row is locked), and nobody works for an instance in DLQ state
\* (PauseActiveStepsAndClearQueue waits for them).
ItemsHeld ==
    \A w \in Workers : Busy(w) =>
        \E q \in db.queue : q.id = wk[w].item /\ q.inst = wk[w].inst
FrozenIsIdle == \A w \in Workers : Busy(w) => db.inst[wk[w].inst] # "dlq"

\* A join that waits for all branches gets its row (notifyJoinSteps) only when every
\* branch of its fork has come to an end: its last step is done, or a step of it failed.
JoinAfterBranches ==
    \A f \in Steps, i \in Instances : IsForking(f) =>
        LET j == JoinAfter(f) IN
        (j # NoStep /\ Def[j].strategy = "all" /\ HasStep(db, i, j)) =>
            \A b \in ToSet(Def[f].parallel) :
                \E k \in Rows(db, i) :
                    /\ isStepDescendantOf(db.steps[k].name, b)
                    /\ db.steps[k].status \notin {"pending", "running"}
                    /\ Def[db.steps[k].name].next = <<>> \/ db.steps[k].status # "completed"

----------------------------------------------------------------------------
\* Workflows whose steps follow each other

\* The steps a step may be followed by.
Followers(D, n) == ToSet(D[n].next) \cup ({D[n].else} \ {NoStep})

\* Definitions D, with steps S, without forks, joins and human steps: a follower has the
\* step as its Prev, there is no cycle, and compensations are called at least once.
SequentialDef(S, D) ==
    /\ NoStep \notin S /\ RootStep \notin S
    /\ \A n \in S : D[n].type \in {"task", "savepoint", "condition"}
    /\ \A n \in S : D[n].onFailure # NoStep => D[D[n].onFailure].maxRetries > 0
    /\ \E rank \in [S -> 0..Cardinality(S)] :
         \A n \in S : \A m \in Followers(D, n) : D[m].prev = n /\ rank[n] < rank[m]

----------------------------------------------------------------------------
\* Steps

StartsTask(i) == \E w \in Workers : ~Busy(w) /\ wk'[w].kind = "task" /\ wk'[w].inst = i

\* Once an instance is cancelled or aborted no task of it is started.
NothingAfterStop ==
    [][\A i \in Instances : db.inst[i] \in {"cancelled", "aborted"} => ~StartsTask(i)]_vars

\* "completed" and "aborted" are final.
FinalStays ==
    [][\A i \in Instances :
         db.inst[i] \in {"completed", "aborted"} => db'.inst[i] = db.inst[i]]_vars

\* One call of ExecuteNext, or of the API, takes items of one instance out of the queue.
Removed(q) == \A r \in db'.queue : r.id # q.id
OtherItemsStay ==
    [][\A q, r \in db.queue : Removed(q) /\ Removed(r) => q.inst = r.inst]_vars

\* From content d of the tables to content e nothing changed for any instance but i:
\* neither its status and its cancel request, nor its rows, nor its dead letters, nor
\* (but for the slices the memory store shares) its join states.
Apart(d, e, i) ==
    /\ \A h \in Instances \ {i} :
         /\ e.inst[h] = d.inst[h]
         /\ e.cancel[h] = d.cancel[h]
         /\ StoreKind # "memory" => e.join[h] = d.join[h]
    /\ \A k \in 1..Len(d.steps) : d.steps[k].inst # i => e.steps[k] = d.steps[k]
    /\ \A k \in 1..Len(e.steps) : k > Len(d.steps) => e.steps[k].inst = i
    /\ \A rec \in d.dlq : rec.inst # i => rec \in e.dlq
    /\ \A rec \in e.dlq : rec.inst # i => rec \in d.dlq

\* Instances do not meet: one call of ExecuteNext, or of the API, changes the status, the
\* rows and the dead letters of one instance only, however the workers interleave.
InstancesApart == [][\E i \in Instances : Apart(db, db', i)]_vars

----------------------------------------------------------------------------
\* Liveness

\* Worker w is inside a handler, or an item it has the handler for is due.
HasWork(w) ==
    \/ Busy(w)
    \/ \E q \in {x \in Dequeuable(db) : w \in Pool[x.inst]} :
         LET row == db.steps[q.step] IN
         \/ db.inst[q.inst] = "dlq" \/ row.status \in Inactive
         \/ row.status = "compensation" /\ Def[row.name].onFailure \in Handlers[w]
         \/ /\ row.status # "compensation"
            /\ Def[row.name].type = "task" => row.name \in Handlers[w]

\* Workers keep polling and handlers return: as long as a worker has work, some worker
\* takes a step.  (Weak fairness of the pool as a whole, which is less than that of each
\* worker, with its enabling condition written out.)
Fairness == []<>(\A w \in Workers : ~HasWork(w)) \/ []<><<\E w \in DOMAIN wk : ExecuteNext(w)>>_vars
FairSpec == Spec /\ Fairness

\* A started instance comes to an end and to rest.
Terminates ==
    \A i \in Instances :
        db.inst[i] # "none" ~> db.inst[i] \in Finished /\ Quiet(i)
=============================================================================
