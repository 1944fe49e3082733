# TLA+ models and proofs for Floxy

Floxy is a Go library that runs sagas: workflows of steps with compensations,
kept in a database and executed by workers that poll a queue. This project models
its engine, its three stores, its builder, its queue and the life of a process in TLA+,
checks them with TLC on small instances, and proves with TLAPS what holds for every
definition.

`PROJECT.json` lists components, runs, mutants, findings, hazards and theorems, and
maps every definition to the source lines it models.

## 1. Inventory

| Component | Source | State it keeps | Operations |
|---|---|---|---|
| Builder, definitions | `builder.go`, `models.go` | `GraphDefinition`: steps with Next, Prev, Else, OnFailure, Parallel, WaitFor, retries | `Step`, `Then`, `Fork`, `Join`, `JoinStep`, `Parallel`, `Condition`, `SavePoint`, `WaitHumanConfirm`, `OnFailure`, `Build` |
| Store | `store.go` (Postgres), `sqlite_store.go`, `memory_store.go` | instances, steps, queue, join states, cancel requests, human decisions, dead letters, events | one method per change; three implementations that differ in places |
| Engine | `engine.go` | handlers, cancel contexts, shutdown flag; all else is in the store | `Start`, `ExecuteNext`, `CancelWorkflow`, `AbortWorkflow`, `MakeHumanDecision`, `RequeueFromDLQ`, `Shutdown`, the cancel-requests worker |
| Workers | `worker.go` | a ticker each | poll `ExecuteNext` |
| Transactions | `tx_manager.go`, `memory_tx_manager.go` | | Postgres: READ COMMITTED around a whole `ExecuteNext`, handler included. Memory, also used with SQLite: none |
| Helpers | `helpers.go`, `evaluate_condition.go` | | retry delays, condition templates |
| Plugins | `plugins.go`, `plugins/engine/*` | per plugin | hooks around workflows and steps; only `OnStepStart` can stop a step |
| API, monitor, visualizer | `api/`, `plugins/api/`, `monitor.go`, `visualizer.go` | | decode requests, read the store |

How they interact. Workers call `ExecuteNext`: it dequeues an item, looks at the
status of the instance and of the step, runs a handler or a step without one, and
applies the outcome: it creates and queues followers, notifies joins, retries, rolls
back, pauses into the dead-letter queue, or finishes the instance. Everything else
talks to the workers only through the store: API calls insert cancel requests and
decisions, other branches of a fork change rows of the same instance, the
cancel-requests worker cancels the context of a running handler.

What is hard. (1) Handlers take arbitrarily long, and what was read before one is used
after it. (2) Branches of a fork end in any order, one may fail or be cancelled while
the other is inside a handler, and the outcome of the instance is decided by whoever
ends last. (3) Joins wait for names that are only known at run time when a branch has
a condition. (4) Crashes lose a worker, or in Postgres roll a transaction back.
(5) The three stores differ: in which columns they read, in what they return (the
memory store hands out its own rows and slices), in how they treat a second request,
in what a requeue does. (6) On Postgres the statements of two transactions interleave,
wait for each other's rows and do not see what the other has not committed yet. (7)
Shutdown, the pool's context, cancel requests and the goroutines of a process race with
each other. (8) The builder shares step definitions between builders. `PROJECT.json`
lists each such place under `hazards`.

What makes it correct, per component:
* queue: ids unique, items name rows of their instance, claims exclusive;
* execution: no step created twice, handler calls bounded, nothing forgotten;
* fork and join: the join starts once, after every branch has ended;
* rollback: what succeeded and has a compensation is compensated, once, unless a save
  point protects it or the failure of the compensation is recorded;
* cancel, abort, human decision: a stopped instance stays stopped;
* dead letters: a paused instance can be brought back;
* stores: the same calls have the same effect and the same answers;
* builder: joins wait for their branches, rollbacks find their way back, no cycles;
* queue order: nothing starves, nothing is overtaken by what is less urgent;
* a process: Shutdown returns, what it waits for has ended, no claimed item is lost;
* all together: a started instance ends and comes to rest.

## 2. Modules

The engine between handlers:

| Module | Models |
|---|---|
| `WorkflowDef` | a definition (constant) and the graph queries of the engine: fork and join of a branch, condition above a step, nearest save point, rollback chain |
| `Store` (extends it) | the tables as one record, and each store operation as a function from one content to the next; `StoreKind` selects the implementation where they differ |
| `Engine` (extends it) | the engine's functions as compositions of store operations, and the actions: one per way through `ExecuteNext`, one per API call, the cancel tick, the crash |
| `EngineProperties` | invariants, action properties, fairness and liveness |
| `MCEngine` | small definitions as the builder produces them, for TLC |
| `StoreProofs`, `EngineProofs`, `IsolationProofs` | lemmas on store operations; types, queue and claims; instances apart, queue items of others, dead letters |
| `ChainProofs`, `SequentialProofs` | which steps a rollback visits in a workflow without forks; the saga and the other promises of the engine for such workflows |

Two branches, statement by statement:

| Module | Models |
|---|---|
| `ForkJoin` | abstract: what a fork and its join promise |
| `Branches` | `ExecuteNext` of two workers on two branches that end together, one step per store statement, with row locks, READ COMMITTED reads, commit and deadlock |
| `BranchesProperties`, `MCBranches` | the refinement of `ForkJoin`, liveness, the rollback of one-step branches |
| `BranchesProofs` | no report is lost and the join is started once, for any number of branches |

The stores side by side:

| Module | Models |
|---|---|
| `Tables` | the tables behind the `Store` interface and what the three implementations share |
| `PostgresStore`, `SqliteStore`, `MemoryStore` | every method of the interface, as each implementation does it |
| `HttpAPI` | the HTTP handlers: from a store's answer to a status code, paging |
| `StoreAPI` | the composition: the same calls on the three stores, by the engine or over HTTP; the definition cache of two processes |
| `StoreProperties`, `MCStores` | in what the three agree |

The rest:

| Module | Models |
|---|---|
| `Builder`, `BuilderProperties`, `MCBuilder` | the calls of the workflow builder, with step definitions on a heap that nested builders share; `Build`, validation, cycle detection |
| `Lifecycle`, `LifecycleProperties`, `MCLifecycle` | one process: workers and pool, the goroutine for cancel requests, `StartAwait`, the reader of human-decision events, `Stop`, `Shutdown` |
| `LifecycleProofs` | no item is lost, shutdown is graceful |
| `Queue`, `QueueProperties`, `MCQueue` | the order of the queue: priority, aging, delays; rescheduling; `CalculateRetryDelay` |
| `QueueProofs` | the queue stays in order, retries back off |

Why the engine is modelled more than once. `Engine` has all step types and outcomes and
takes what happens between two handler calls as one step. That is exact for what one
worker does alone, and on Postgres as long as transactions do not meet. SQLite and the
memory store apply an outcome statement by statement, without a transaction, so there
`AtomicityAssumption` lets one worker only (`Pool`) execute a workflow that forks.
`Branches` is the same code with every statement a step, for the one place where workers
do meet: it says what the abstraction of `Engine` hides (section 4). `Lifecycle` has every goroutine of a
process and reduces a step to its outcome.

### Engine

State. `db` is the database: instance statuses, rows (`db.steps`, in order of
`created_at`), queue, join states, cancel requests, dead letters, and the WaitFor lists
of the stored definition (only the memory store ever changes them). `wk[w]` is what a
worker inside a handler remembers: its queue item, the row, and the counters it read.
`calls` is a history variable that counts returned handler calls; the properties of the
saga are about it, not about statuses alone. `crashes` bounds crashes.

Atomicity. Handlers are the only slow part, so a worker dequeues and starts a
handler in one action (`StartTask`, `StartCompensation`) and applies the result in
another (`FinishTask`, `FinishCompensation`). In memory and SQLite "running" and the
claim are visible in between; in Postgres they are the uncommitted writes of the
transaction, the claim is a row lock, and an action that would write a row locked by a
transaction inside a handler waits (`LocksFree`). The one interleaving inside the
post-dequeue code that is modelled here is a human decision made while a worker looks for
it (`DecidedWhilePolling`). Where an outcome is not one transaction, two workers never work
on one instance: `AtomicityAssumption` asks for a pool of one worker, or for a workflow in
which no step runs beside another. `executeFork` is one step too; the code queues the
branches (`engine.go:1138`) before it creates the join state (`engine.go:1157`), which only
a second worker without transactions could see.

Errors of the store are an outcome in one place: on SQLite `GetActiveStepsForUpdate` cannot
read the NULL output of an active row (`sqlite_store.go:830`), so `handleCancellation`
returns before it has changed anything, and the item is dropped all the same
(`ActiveStepsUnreadable`). A cancellation on SQLite takes effect only when no row is
active: while a step waits for its retry, or after a human has confirmed. The error path of
a rollback inside `handleCancellation` (`engine.go:899`) needs a statement that fails; on
Postgres that is the aborted transaction of `Crash`, on the other stores it is left out.

Abstractions a reader should know of:
* inputs, outputs, errors, events and timestamps are left out; a timeout is a handler
  error; a condition may evaluate either way or fail;
* any due queue item may be dequeued: the order is in `Queue`;
* an item whose handler is not registered here is put back, a step that changes nothing;
* the order of the visits of a rollback shows only in queue ids, so a rollback is the
  set of rows it visits (`rollbackSteps`), queued latest first;
* the joins an outcome is reported to are notified together; in the checked definitions
  a step belongs to one fork, so it is one join;
* `RequeueDeadLetter` of Postgres updates a paused join row in two CTEs of a statement;
  the model lets the reset win.

### Branches

A worker has a list of statements it still has to send (`wk[w].todo`); functions of
`engine.go` put their statements in front of it (`handleStepSuccess`,
`handleStepFailure`, `rollbackStep`), and the statements that read decide what follows
(`JoinIsReady`, `hasUnfinishedSteps`, `completeWorkflow`, `stopParallelBranchesInFork`).
`committed` is what everybody reads, `draft` and `holder` are the uncommitted value of a
row and the transaction that has it locked. `SelectJoinState` is the SELECT that SQLite
sends before it writes a join state back. `effect` is a history variable: what handlers
have done and compensations undone. Row locks, READ COMMITTED and the deadlock detector
are Postgres itself and marked external. The dequeue and the read of the step's row are
one step: nobody else touches a claimed item.

### StoreAPI

Each method is an operator from the content of the tables to the new content and an
error. An action makes one call on all three stores. A call whose answers are known to
differ says so (`known`), and the properties list the other differences by name; what
they do not list is the same on all three, and that is the statement. Timestamps are
"null", "new" or "old" (older than the age limit of a cleanup).

### Builder

`heap` is the list of all step definitions, a builder maps names to places in it, and
`stack` is the nesting of `Fork` and `Condition` callbacks. A definition is shared when a
builder takes over the steps of a nested one, so a later change shows in both, as with
Go's pointers.

### Lifecycle and Queue

`pc[w]` is the place of a worker in `ExecuteNext`: the three looks at the shutdown flag,
the claim, the wait group, the registration of the cancel context, the handler, the
commit. A worker that finds a cancel request carries it out for the rows that nobody has
locked (`SKIP LOCKED`) and deletes it; on SQLite the attempt fails while a step is active.
When a handler's context was cancelled, a request goes before what the handler returned.
`queue` in `Queue` is a sequence in the order of `scheduled_at`, each item with
the ticks it has waited; ages beyond the cap are cut off, the order is kept. Identities
of items are used again after they have left, so that arrivals never end. A compensation
that fails puts a new item in place of its old one, with the delay of the retry the engine
believes it is: on Postgres always the first, because the counter is not read.

## 3. Runs

| Run | Instance | Shows |
|---|---|---|
| `memory` | two workers with different handlers: a saga with retries, cancel and abort, and two instances of a short workflow; one worker: a fork with cancel, an "any" join followed by `Parallel` with cancel and abort | types; calls of handlers and compensations bounded; the saga; completed means done; no step created twice; final statuses stay; nothing starts after a stop; a call takes items of one instance only; every instance ends |
| `sqlite` | a crash; two workers: a save point with requests and a plugin that rejects, a human step; one worker: a condition in a branch | the saga up to the save point; the queue stays sound; no step created twice; the join waits for the branch that was taken; completed means done; nothing starts after a rejection |
| `postgres` | a saga with dead letters, cancel and abort; a fork; a crash at any point | the inductive invariant; exclusive claims; joins after branches; nothing forgotten; dead letters kept; one execution per step |
| `branches` | 14 forks of two branches of one or two steps, with and without conditions, "all", "any" and no join, failing steps, on the three stores | what Postgres commits implements `ForkJoin`; every instance settles; one-step branches are undone or skipped |
| `stores` | groups of methods whose tables depend on each other, with the HTTP API in front; two processes with a cache | the three stores agree but for the listed differences; pages cover lists; a cleanup takes what ended long ago; caches converge |
| `builder` | every sequence of calls up to cost 7, nesting up to 3 | rollbacks reach the root; joins wait for branches; cycle detection is exact |
| `lifecycle` | two workers, two steps, eleven combinations of store, handlers and callers | graceful shutdown; no item lost; everyone returns; a cancel request reaches the running handlers or is carried out by another worker |
| `queue` | three identities, two priorities, two delays, with and without aging; failing compensations with each strategy, with the counter (SQLite, memory) and without (Postgres) | no starvation; no overtaking; back-off until the overflow, none on Postgres |
| `wrong_item`, `lost_decision`, `abort_resumed`, `left_completed` | violations | section 4 |

In `memory`, `sqlite` and `postgres` a behaviour is about one instance, or about two of
one workflow that may disturb each other (`Together`), executed by two workers, or, for a
fork without transactions, by one (`Pool`). One worker still takes the branches in any
order, and requests, decisions and crashes fall between any two of its steps; what two
workers do to each other in a fork is in `postgres` and, statement by statement for each
store, in `branches`.

Bounds. Two workers suffice for a fork of two branches: each can be inside a handler, or
between two statements, while the other acts; a deadlock of the code needs two.
`MaxQueueIds` stops only the endless loops (polling a human step, retrying a compensation
on Postgres); `MaxDeadLetters` bounds requeues; `MaxCrashes` is 1, a crash at every point
of every behaviour. The other loops are bounded by the code's retries. In `Builder` a
call costs 1 and a rare one 2: cost 7 has forks and conditions inside the branches of a
fork, and reused names. In `Queue` the cap is 2 and a duration has 3
bits, which overflow within the four retries as 64 bits do at the thirty-fourth; three
identities let two newer items pass a third again and again. In `StoreAPI` a scenario
bounds rows per table, because methods of unrelated tables commute. In `Branches` the
second step of a branch is what distinguishes a step that the join waits for from one it
does not know, and a third adds nothing to that.
`CHECK_DEADLOCK FALSE` because a finished system has nothing to do.

Every property has a mutant: a plausible bug in a mapped definition under which TLC
finds the property violated (`mutants`; the mutated forms stand before the definition
they replace).

Fairness, and why the code justifies it:
* `EngineProperties`: a worker that has work from some moment on takes a step, because
  `worker.go` polls on a ticker for ever and a handler returns. It is weak fairness of
  `ExecuteNext(w)` with the enabling condition written out as `HasWork(w)`, because TLC
  evaluates the `ENABLED` of so large an action slowly. None is assumed of users, of the
  cancel tick or of crashes, and the run with `Terminates` has none of the loops that the
  bounds would cut.
* `Branches`: weak fairness of every worker's statements and polls, and of Postgres'
  deadlock detector. A row that is released goes to whoever waits for it (`Released`),
  as Postgres' lock queue does.
* `Lifecycle`: weak fairness of each goroutine; strong fairness only where a Go `select`
  has two ready cases and picks one at random, again and again. Handlers called
  "patient" return only when their context is cancelled; none is assumed to return.
* `Queue`: time passes, workers poll, what is claimed is executed or sent back. None of
  arrivals.
* `StoreAPI`: time passes, and a read or a save that has begun is finished.

## 4. Where the code and its documentation disagree

Four disagreements are kept as runs (`findings`):
* `wrong_item`: for a skipped step `ExecuteNext` calls `RemoveFromQueue` with the id of
  the step (`engine.go:401`); the item that happens to have this id is deleted, here
  one of another instance.
* `lost_decision`: a confirmation made while a worker looks for it is marked and then
  dropped (`engine.go:1421`); the instance is running and nobody will continue it.
* `abort_resumed`: a branch inside its handler when its sibling handles the abort goes
  on afterwards (`engine.go:1412`) and overwrites `aborted`.
* `left_completed`: on Postgres, in the workflow of section 5.5.4 of
  `docs/ENGINE_SPEC.md`, a first step fails and reads its sibling as pending
  (`engine.go:2845`); the sibling completes and creates its second step; the failing
  branch overwrites the completed row with skipped, and the second step, which it has not
  read, completes and stays so in the failed instance.

Others were met while modelling. Those of `Engine` are reproduced with the definition of
`MCEngine` (`Def`, with its `Steps` and `Start`), the `StoreKind` and the property named
here. The line in the last column is of `docs/ENGINE_SPEC.md`.

| Code | What it does | Change | Says |
|---|---|---|---|
| `engine.go:1573` | `MaxRetries = 1` gives two calls, also for a NoIdempotent step | `SagaDef`, any store, `AttemptsAsDocumented` | 178, 185, 1306 |
| `engine.go:1716` | the instance is `failed` while compensations are still queued | any saga, `failed => no row in compensation` | 375 |
| `engine.go:1052` | the last compensation of a cancelled instance makes it `failed` | `memory`, FinalStays with "cancelled" added | 813, 824 |
| `store.go:281` | Postgres reads 0 as compensation retry count: retries without end, each after the delay of the first | `SagaDef`, postgres, without a dead-letter queue (`NoDLQ`), `CompensationsBounded` | 369 |
| `engine.go:1445` | a join starts while a branch goes on behind its condition | `ForkConditionDef` with a step behind `kx`, `JoinAfterBranches` | 671 |
| `store.go:1583` | the items of siblings deleted by a pause are not queued again | `ForkDef` with DLQ, postgres, `NotForgotten` | 1216 |
| `engine.go:1983` | an instance completes while a human step of a branch waits | `ForkDef` with a human step in a branch, `CompletedMeansDone` | 716 |
| `memory_store.go:981` | a confirmation continues the workflow twice | `HumanDef`, memory, `StepsCreatedOnce` | 739 |
| `builder.go:129` | the join `Parallel` adds is not behind the parallel step: its branches are not compensated | `AnyThenParallelDef` with compensations, `SagaUndone` | 1320 |
| `engine.go:2358` | the branch that waits for its retry has an item; its failing sibling rolls it back and queues another: two workers run its compensation at once | `ForkRetryDef`, postgres, `OneExecutionPerStep` | 368 |
| `memory_store.go:1025` | requeueing queues nothing | `SagaDef` with DLQ, memory, `NotForgotten` | 1208 |
| `engine.go:1019` | an exhausted compensation writes no dead letter | any saga, `failed row => dead letter` | 1168 |
| `memory_store.go:543` | join states share the WaitFor slice of the definition, and an instance completes without its join | `ForkConditionDef`, memory, two instances, one worker, `CompletedMeansDone` | 671 |
| `sqlite_store.go:830` | a cancel request that meets an active step fails: the item is dropped, the instance runs for ever | `SavePointDef`, sqlite, `NotForgotten` | 810, 813 |
| `engine.go:1055` | the last compensation of an instance that was aborted while it was failing makes it `failed` again | `ForkDef` with abort requests (`AbortsFork`), memory, one worker, `FinalStays` | 839 |

The comments on the properties say what they require in spite of these: `SagaUndone`
accepts a task recorded as `failed` or `skipped`, `AttemptsBounded` is the bound of the code
and allows `MaxRetries + 1` calls, two for a NoIdempotent step, where the documents allow
`MaxRetries` and one, `FinalStays` leaves `cancelled` and `failed` out.

Of the statement level (`Branches`; drop the exception from the property named):

| Code | What it does | Property |
|---|---|---|
| `store.go:475` | on Postgres a branch that fails while its sibling ends deadlocks with it; the victim's handler runs again, or its step is skipped although its handler has succeeded | `Settles` without `[]<>Deadlocked`, `UndoneOrSkipped` without "skipped" |
| `engine.go:1983` | Postgres: with an "any" join or without a join, the last two steps to end do not see each other and the instance runs for ever | `Settles` without `Unnoticed` |
| `sqlite_store.go:453` | the report of a branch is lost between SELECT and UPDATE: the join never runs, the instance is completed | `ImplementsForkJoin` with `serial` for every store |
| `engine.go:1523` | without transactions: an instance is completed before its join has run; two join steps behind conditions | the same |

Read in the code, and outside the models: without transactions the rollback of a failing
branch (`engine.go:2358`) and that of a sibling that ends (`engine.go:2024`) can both read a
step in front of the fork as completed and compensate it twice, and a branch can end before
`executeFork` has created the join state (`engine.go:1138`, `1157`), where
`ReplaceInJoinWaitFor` of the memory store then blocks on its own mutex
(`memory_store.go:537`).

Of the stores, the builder and a process, with the property that excepts them:

| Code | What it does | Property |
|---|---|---|
| `store.go:196`, `sqlite_store.go:1126`, `memory_store.go:1139` | an aborted instance gets no `completed_at`, so no cleanup on Postgres or in memory takes it (`migrations/008_update_cleanup_function.up.sql:16` "Includes terminal states: completed, failed, cancelled, aborted"), unless it had failed before; SQLite also deletes instances that run, memory those that were requeued | `CleanupByAge` (not for aborted, the last part for Postgres only) |
| `sqlite_store.go:830` | `GetActiveStepsForUpdate` fails when there is something to return | `StoresAgree` (`SameActiveSteps`) |
| `store.go:1450` | a dead letter that is gone: 204 on Postgres, 500 on SQLite, 404 in memory | `StoresAgree` (`known`) |
| `store.go:113` | the comment says "Return a copy", the code returns the cached pointer itself | none: nobody writes through it on Postgres |
| `store.go:147` | a slow read puts an old definition into the cache after the save has invalidated it, until the TTL ends | `CacheConverges` (eventually) |
| `builder.go:104` | a compensation with the name of a step replaces the step | `RollbackReachesRoot` (`~reused`) |
| `builder.go:497` | a human step or a save point in front of the first step is silently left out | `RollbackReachesRoot` |
| `builder.go:215` | a join behind a fork whose branch ends in a fork without a join waits for the inner fork step only | `JoinsWaitForBranches` |
| `engine.go:348` | `Shutdown` returns without error while a worker that has passed the last look at the flag executes a step; on Postgres steps that were waited for may not be committed | `GracefulShutdown` (`late`) |
| `sqlite_store.go:298`, `830` | a claim given back with a cancelled context stays for good; a cancel request costs the item that met it | `NoItemLost` (`Excused`) |
| `engine.go:1322` | `executeHuman` hangs when the reader of events is gone | `ShutdownSettles` (`Hangs`) |
| `engine.go:936` | the worker that begins another branch takes the cancel request and deletes it; the handler that is running is not told (`docs/ENGINE_SPEC.md:857` "cancelled simultaneously"), on each store | `CancelReachesHandlers`; `BranchesCancelled` (with `MCForkCancelled`) is the promise without this exception |
| `engine.go:474` | a rescheduled item loses its age; the service that has its handler may never get it (`README.md:59` "Prevents queue starvation") | `NoStarvation` (claimed, not executed) |
| `helpers.go:96` | exponential delays overflow, and a retry is due at once | `BackoffHolds` |

Read, but outside every model: `monitor.go:88` selects columns of a view that migration
010 has dropped.

## 5. Proofs

All theorems hold for every value of the constants that the named assumptions admit.

| Theorem | States | Store |
|---|---|---|
| `EngineProofs!Invariance` | `Spec => []Inv` | all |
| `EngineProofs!TypeCorrect`, `QueueIsSound`, `ClaimsAreExclusive` | `TypeOK`, `QueueSound`, `ExclusiveClaims` in every state | all |
| `IsolationProofs!InstancesStayApart` | every step satisfies `InstancesApart` | all |
| `IsolationProofs!OnlyDropsTakeOthers` | every step satisfies the action of `OtherItemsStay` or is a `DropInactive` | all |
| `IsolationProofs!DeadLettersKept` | `DeadLetterKept`, `FrozenIsIdle` in every state | Postgres |
| `SequentialProofs!SequentialInvariance` | `Spec => []SInv`, for sequential workflows (as all below) | all |
| `SequentialProofs!SagasAreUndone` | `SagaUndone` in every state | all |
| `SequentialProofs!CompletedIsDone`, `StepsAreCreatedOnce`, `StepsRunOnce` | `CompletedMeansDone`, `StepsCreatedOnce`, `OneExecutionPerStep` in every state | all |
| `SequentialProofs!FinalStatusesStay`, `NothingStartsAfterStop`, `ItemsOfOthersStay` | every step satisfies `FinalStays`, `NothingAfterStop`, `OtherItemsStay` | all |
| `SequentialProofs!AttemptsAreBounded` | `AttemptsBounded` in every state, without a dead-letter queue | all |
| `SequentialProofs!CompensationsAreBounded` | `CompensationsBounded` in every state | SQLite, memory |
| `SequentialProofs!NoneForgotten` | `NotForgotten` in every state | Postgres |
| `LifecycleProofs!NoItemIsLost` | `NoItemLost` in every state | all |
| `LifecycleProofs!ShutdownIsGraceful` | `GracefulShutdown` in every state | all |
| `QueueProofs!NobodyOvertakes` | every step satisfies `NotOvertaken` | all |
| `QueueProofs!RetriesBackOff` | every step satisfies `BackoffHolds` | all |
| `BranchesProofs!JoinStartsOnce` | `JoinStartedOnce` in every state | Postgres |
| `BranchesProofs!ReportsAreKept` | every step satisfies `ReportsKept` | Postgres, memory |

A property that is claimed for some stores only is false, or not promised, for the
others: SQLite loses reports; without row locks a worker may go on for an instance
that has been put into DLQ state; Postgres does not read the counter of compensation
retries; SQLite and memory lose the item of a worker that dies or is rejected, and SQLite
that of a cancel request it cannot carry out.

### Engine: types, queue, claims

Assumptions: `DefinitionAssumption` (the definition is typed, its set of steps finite),
`StoreAssumption` (a store kind; no worker is called ""), `EngineAssumption`.
`BuilderAssumption` of `WorkflowDef` and `AtomicityAssumption` are not used in any proof: the
first, because the theorems hold also for definitions the builder does not produce; the
second says for which instances the atomic steps are faithful to a store without
transactions, and a theorem about such a store is about the code only within it. Sequential
workflows satisfy it with any number of workers.

Why an inductive invariant is needed. That no two workers hold the same item does not
follow from itself: a worker could claim an item another one holds, if that item were
free. `Inv` adds `ClaimsHeld` (the item of a busy worker, if it is still in the queue, is
not free), the uniqueness of ids (so that claiming one item frees or takes no other),
`id < nq` (so that a new item never gets the id of an item somebody holds and that was
cleared from the queue meanwhile), and `LettersSound` (so that a requeue creates an item
for an existing row). TLC checks `Inv` in `postgres`.

How the proof goes. `StoreProofs` defines `Leads(d, e)`: content e is well typed and
sound, the rows of d keep owner and decision, and every item of e was in d as it is or is
new and free. It is reflexive and transitive. A lemma per store operation shows that it
leads from its argument to its result; a lemma per function of the engine chains them
(the rollback chain, the graph queries and the readiness of a join need no property at
all: whatever they return, rows of the instance are queued). `WorkersKept` says that a
leading step leaves every claim alone, so all actions that commit follow from one lemma,
`CommitSound`. The two that change a claim, dequeuing (`ClaimSound`) and rolling back
(`ReleaseSound`), are proved by themselves: the second is where exclusiveness is used to
prove exclusiveness.

### Engine: instances apart, dead letters

`Touches(d, e, i)` says that e follows from d by work for instance i: `Leads`, nothing of
another instance is changed (`Apart`), and i does not enter the DLQ state. Every store
operation and every function of the engine touches its instance, and the relation is
transitive, so that the lemmas compose as those about `Leads` do. `moveToDLQ` is the one
function that does not touch but settles (`Settles`): it leaves the instance with a dead
letter that names a paused row, and with nothing in the queue.

`DeadLetterKept` is not inductive: a worker still inside a handler of a frozen instance
would overwrite the paused row. On Postgres there is none, because `moveToDLQ` clears the
queue, and the row of an item somebody works on is locked. `PInv` says so: the item of a
busy worker is in the queue and belongs to its instance (`ItemsHeld`), and nobody works
for an instance in DLQ state (`FrozenIsIdle`).

What leaves the queue. `Touches` also says that the items of other instances stay
(`Keeps`). At the end of a transaction a worker removes the item it remembers, so that
item has to be one of its own instance: `OwnItems`, inductive because no item ever
changes its instance and no id is given out twice. The one call without `Keeps` is
`DropInactive`, which removes an item by the id of a step (`engine.go:401`). That is the
finding of `wrong_item`; `OnlyDropsTakeOthers` says that there is no second one like it.

### Engine: sequential workflows

Most of what the engine promises is false for some workflow with forks or human steps
(section 4). `Sequential` is the shape for which it is true on every store: tasks, save
points and conditions only, each step but the first with the step before it as its Prev,
no cycle, and a compensation that may be called at least once (`MaxRetries > 0`; the
builder's default is 3, and with 0 a compensation is recorded as failed without a call).
Both branches of a condition are allowed, any number of instances of any such workflow
run together, and retries, dead letters, cancel and abort requests, rejecting plugins and
crashes happen as in the runs. `SequentialExamples` in `MCEngine` evaluates the condition
on the saga, the short and the save-point definitions of the runs, so it is not empty; the
definitions with forks, joins and human steps are outside it.

Why `SInv`. None of these properties is inductive. Whether a rollback reaches a step
depends on the Prev links between the rows there are and on their statuses; whether a
step may complete an instance, on all rows before it; whether its handler may be called
again, on a counter a worker has read. `SInv` says of each instance what its status
(`Phase`), its rows, its queue items and its dead letters can be:
* its rows follow each other: each is the Prev of the next, in the order of a rank that
  rises along the workflow, so no step has two (`Ordered`); a step without a row was
  never called (`Fresh`);
* running: every row but the last is completed and its task succeeded once; the last one
  is pending, running or failed, its task has not succeeded, and it was called no more
  often than its retry counter says; there is at most one item, for the last row, and on
  Postgres exactly one (`Running1`); or it is stuck on SQLite, without an item, after a
  cancel request that could not be carried out (`Stuck1`);
* in DLQ state: the same with a paused last row, one dead letter for it and no item
  (`Paused1`);
* completed: all rows are, and nothing is queued;
* failed or cancelled: each row in compensation has one item, its counter is the number of
  calls plus one (except on Postgres), and each task that succeeded is undone, or on its
  way, or recorded as failed or skipped, or in front of a completed save point
  (`Stopped1`, `Undoing`);
and of each worker that its item is still queued and what it has read of the row is still
true (`WorkerValid`): the stale reads of this code are harmless when nobody else works on
the row.

How the proof goes. `ChainProofs` computes the rollback: on rows that follow each other
the visits of `rollbackStepChain` are the steps from the failed one back to the nearest
completed save point, no more and no fewer (by induction over the line, as a least
counterexample). `rollbackStepChain` is a function of the depth of the calls for that
purpose. `SequentialProofs` first shows that forks and joins play no part, then that every
store operation changes what an instance looks like in a known way (`...View`), then what
each function of the engine makes of a valid instance (`...After`), and last that every
action is a step of one instance that leaves the others and their workers alone
(`StepFor`). The theorems are read off `SInv`, those about steps off `StepFor`.

The bound on handler calls is `MaxCalls`: after the first error a handler is called again
whenever `MaxRetries > 0` (`engine.go:1573`), so it is `MaxRetries + 1`, or 2 for a step that
is not idempotent. A compensation is called `MaxRetries` times, because `rollbackStep` has
counted the first call before it is made.

TLC has checked `SInv` on `SagaDef`, `SavePointDef` and two instances of `ShortDef`, with dead
letters, cancel and abort requests, rejecting plugins and a crash, in the three stores (up
to 636,961 states).

### Lifecycle

`IInv` ties the program counter of each worker to what it has: the item it has claimed
(`ItemsHeld`) and the outcome it carries to the commit (`OutcomesKnown`); every step is in
the queue or somebody's (`StepsOwned`), unless SQLite has lost it: with a cancelled context a
claim cannot be given back, and a cancel request that fails costs an item (`Excused`, which
stays true once it is: on SQLite a request that has met an active step is never deleted
while the instance runs); the counter of the wait group is the number of
workers between `Add` and `Done` (`Counted`); and once the shutdown flag is set only those
that were past their last look at it get to add themselves (`FlagSeen`). `GracefulShutdown` follows from the last two:
with the counter at zero whoever executes has been added after the wait. The wait group
counts workers, which is why `LifecycleAssumption` asks for a finite set of them. Actions
of callers, of the canceller and of the awaiter leave all of this alone (`QuietSteps`).

### Queue

`QInv`: the queue is in the order of `scheduled_at` and has an identity at most once
(`Sound`). `NotOvertaken` needs the order only at the moment of a claim, but it has to be
kept by insertion, by removal and by the clock. `BackoffHolds` compares
a retry with the exact delay and needs arithmetic of powers of two, of which the provers
know nothing: `PowerIsCardinality` identifies `2^n` with the number of subsets of `1..n`,
and that the next power is twice the last follows from theorems on finite sets. With the
counter of SQLite and the memory store the delay grows with every retry; on Postgres the
theorem says the opposite, that every retry waits as long as the first. `OnlyRetryReplaces`
shows that no other step puts an item in the place of one that a worker has.
`QueueAssumption` says that rates, delays and the cap are natural numbers.

### Branches

`BranchesAssumption` says what a scenario is: row identities are distinct, every branch
has a first step, and every other step of a branch a predecessor. The number of
branches, of workers and of rows that a join could get is arbitrary.

`ReportsAreKept`, from `JInv`: a draft of the join state contains what is committed of it,
and equals it when nobody has it locked; the flag `ready` agrees with the reports. A
transaction that gets the lock starts from what is committed, and the lock keeps the
others from committing before it does; so the committed reports only grow, and with them
the two cardinalities that `checkJoinReady` adds up.

`JoinStartsOnce`, from `OInv`: a draft of a join step that is not committed belongs to the
worker that has the join state (`OneJoin`). A worker at the statement "ready" has the join
state, as it has just written it, so when it reads no join step there is no draft of
another one either, and that stays so until it writes its own. The invariant is about
everything a worker has still to do (`WorkerOK`): the statements ahead of it are safe,
that is, name rows it can read and start no join, except for the first one when the
worker is starting the join (`StartsJoin`). Every function that puts statements in front
of the list is shown to produce safe ones.

This needs `FlattenSeq`, which the library defines by recursion, to return a sequence over
the same set (`FlattenIs`). It is proved by the least counterexample: the set of lengths
up to which the recursion has no solution has no least element (`LeastNatural`).

TLC has checked `JInv`, `OInv`, `PInv`, `IInv` and `QInv` on the instances of the runs
before they were proved, and `JoinStartedOnce` and `ReportsKept` are consequences of what
`branches` checks as `ImplementsForkJoin` (for a fork with a join on Postgres).

### Only model-checked, and why

* Liveness (`Terminates`, `Settles`, `NoStarvation`, `ShutdownSettles`,
  `CancelReachesHandlers`, `CacheConverges`): fairness and `ENABLED` are out of the
  prover's reach.
* `SagaUndone`, `CompletedMeansDone`, `StepsCreatedOnce`, `AttemptsBounded`,
  `CompensationsBounded`, `OneExecutionPerStep`, `NotForgotten`, `FinalStays`,
  `NothingAfterStop`, `OtherItemsStay` for workflows with forks, joins or human steps: not
  true of every such definition on every store (section 4 has the counterexamples). The
  definitions for which they are true, those of the runs, have no simple shape.
* `JoinAfterBranches`: about forks only, and false behind a condition that is followed by
  another step.
* `StoresAgree`, `QueriesAgree`, `PagesCover`, `CleanupByAge`: about sorted and
  filtered sequences of three implementations; `SelectSeq` is built into the prover and
  has no definition there to unfold.
* `RollbackReachesRoot`, `JoinsWaitForBranches`, `CyclesFound`: closures of a graph, by
  RECURSIVE operators.
* `UndoneOrSkipped` and the rest of `ImplementsForkJoin`: that the last report finds
  nothing pending and that the instance is not completed before its join need the
  status of every row of every branch.

## 6. Not modelled

* The template language of conditions (`evaluate_condition.go`): pure text processing;
  a condition may have any result.
* Observability plugins, monitor, visualizer: they read and write text.
* The rate limiter waits on a library; to the engine it is an `OnStepStart` that is slow
  or rejects. The rollback-depth plugin only records depths.
* Decoding and encoding of requests; migrations; generated mocks; examples.
* `sync.WaitGroup` may panic when `Add` meets `Wait` at zero (`engine.go:348`): the
  model shows the interleaving but not the panic.
* `PRAGMA busy_timeout` holds for one pooled connection only (`sqlite_store.go:63`);
  a busy error of SQLite is not an outcome in the models.
* SQLite compares `scheduled_at` as Go has formatted it; `Queue` takes the comparison to
  be right.
* `memory_store.go:537` blocks on its own mutex when a join state is missing. `executeFork`
  queues the branches before it creates the join state, so that two workers on the memory
  store can get there; the models execute a fork in one step. `CreateJoinState` and
  `UpdateJoinState`, which differ between the stores when the row exists already or is
  missing, are for the same reason compared in `StoreAPI` only.
* Two workers on one fork without transactions, other than in `Branches`
  (`AtomicityAssumption`).
* Nested forks at run time: `Engine` and `Branches` have one fork per definition.

## 7. Plan

Done: the engine between handlers for the three stores; the stores side by side; the
builder; the life of a process; the order of the queue; two branches at statement level
and their refinement of `ForkJoin`. Theorems about the engine, for every workflow and for
sequential ones, about the process, the queue and the branches (section 5).

Next, in this order:
1. More of `ImplementsForkJoin` for every number of branches: a transaction enters the
   report of one branch only, and only the end of a branch; the join is not started
   before it is ready.
2. `Engine`: the properties of sequential workflows for a fork of sequential branches with
   an "all" join on Postgres, where they are not known to fail.
3. `StoreAPI`: agreement of the three stores on the methods that do not sort or filter.
4. Nested forks in `Engine`.
