----------------------------- MODULE Lifecycle -----------------------------
(***************************************************************************)
(* One process of floxy: the worker pool (worker.go), the goroutine that   *)
(* looks for cancel requests, a caller of StartAwait, a reader of the      *)
(* human-decision events and the caller of Stop and Shutdown (engine.go).  *)
(* ExecuteNext is cut at every place where another goroutine can tell the  *)
(* difference; what a step does to its instance, which Engine models, is   *)
(* one choice of an outcome.  There is one instance.                       *)
(*                                                                         *)
(* On Postgres, ExecuteNext is one transaction that is committed after the *)
(* function has returned; the two other stores change at once.             *)
(***************************************************************************)
EXTENDS Naturals, FiniteSets

CONSTANTS
    Workers, Steps,
    NoStep,        \* no queue item
    Nobody,        \* no worker
    Scenarios,     \* store, kinds of the steps, and what callers do: records [store, kind, calls]
    MaxRequests    \* bound: cancel requests

\* A handler returns by itself, or with an error once its context is cancelled; or a human
\* decides.
StepKind == {"prompt", "patient", "human"}

Calls == {"stop", "context", "shutdown", "cancel", "decide", "reader", "await"}

ASSUME LifecycleAssumption ==
    /\ NoStep \notin Steps /\ Nobody \notin Workers /\ IsFiniteSet(Workers)
    /\ Scenarios \subseteq [store : {"postgres", "sqlite", "memory"},
                            kind : [Steps -> StepKind], calls : SUBSET Calls]
    /\ MaxRequests \in Nat

VARIABLES
    store, kind, calls,   \* what this process has: chosen initially
    \* the database
    status,           \* of the instance
    queue,            \* the steps that have a queue item nobody has claimed
    done,             \* the steps that have ended
    request,          \* is there a cancel request?
    decided,          \* has a human decided?
    \* the workers
    pc, item,         \* where a worker is, and the item it has claimed
    outcome,          \* what executing the item has come to
    cancelled,        \* the workers whose handler's context is cancelled
    cancelContexts,   \* step -> the worker whose context is registered
    stopCh, ctxDone,  \* closed stop channels; is the context of the pool cancelled?
    \* the engine
    isShuttingDown, shutdownCh,
    activeSteps,      \* the counter of the wait group
    shutdown,         \* where Shutdown is
    canceller,        \* where cancelRequestsWorker is
    awaiter,          \* where StartAwait is
    reader,           \* does somebody read the human-decision events?
    requests,         \* the cancel requests made so far
    late              \* history: workers past their last look at isShuttingDown when it was set

database == <<status, queue, done, request>>
worker   == <<pc, item, outcome>>
contexts == <<cancelled, cancelContexts>>
stopping == <<isShuttingDown, shutdownCh, shutdown, late>>
fixed    == <<store, kind, calls>>
vars == <<fixed, database, decided, worker, contexts, stopCh, ctxDone, stopping, activeSteps,
          canceller, awaiter, reader, requests>>

Init ==
    /\ \E x \in Scenarios : store = x.store /\ kind = x.kind /\ calls = x.calls
    /\ status = "running" /\ queue = Steps /\ done = {} /\ request = FALSE /\ decided = FALSE
    /\ pc = [w \in Workers |-> "off"] /\ item = [w \in Workers |-> NoStep]
    /\ outcome = [w \in Workers |-> "none"]
    /\ cancelled = {} /\ cancelContexts = [s \in Steps |-> Nobody]
    /\ stopCh = {} /\ ctxDone = FALSE
    /\ isShuttingDown = FALSE /\ shutdownCh = FALSE /\ shutdown = "no" /\ late = {}
    /\ activeSteps = 0
    /\ canceller = "select" /\ awaiter = "off" /\ reader = "none"
    /\ requests = 0

isShutdown == isShuttingDown

\* With a cancelled context every statement fails, but for the maps of the memory store.
Broken == ctxDone /\ store # "memory"

----------------------------------------------------------------------------
\* What an outcome does to the database

Effect(o, s) ==
    /\ done' = IF o = "success" THEN done \cup {s} ELSE done
    /\ queue' = IF o = "again" THEN queue \cup {s} ELSE queue
    /\ request' = IF o = "cancelled" THEN FALSE ELSE request
    /\ status' = IF o = "cancelled" THEN o
                 ELSE IF status # "running" THEN status
                 ELSE IF o = "success" /\ done' = Steps THEN "completed"
                 ELSE IF o \in {"failed", "dlq"} THEN o
                 ELSE status

\* Executing the item of w has come to o: stores without transactions change now.
Comes(w, o, next) ==
    /\ outcome' = [outcome EXCEPT ![w] = o]
    /\ pc' = [pc EXCEPT ![w] = next]
    /\ UNCHANGED item
    /\ IF store = "postgres" \/ Broken THEN UNCHANGED database ELSE Effect(o, item[w])

----------------------------------------------------------------------------
\* A worker: the loop of Worker.Start and ExecuteNext

Goes(w, next) == pc' = [pc EXCEPT ![w] = next] /\ UNCHANGED <<item, outcome>>

\* WorkerPool.Start: one goroutine per worker.
PoolStart ==
    /\ \A w \in Workers : pc[w] = "off"
    /\ pc' = [w \in Workers |-> "select"]
    /\ UNCHANGED <<fixed, database, decided, item, outcome, contexts, stopCh, ctxDone, stopping,
                   activeSteps, canceller, awaiter, reader, requests>>

\* What a worker does on its own, besides what the action names.
Alone == UNCHANGED <<fixed, decided, stopCh, ctxDone, stopping, canceller, awaiter, reader, requests>>

Stopped(w) ==
    /\ pc[w] = "select" /\ (ctxDone \/ w \in stopCh)
    /\ Goes(w, "stopped")
    /\ Alone /\ UNCHANGED <<database, contexts, activeSteps>>

\* A tick: the first two looks at isShuttingDown, before and inside the transaction, which
\* a cancelled context does not let begin.
Begin(w) ==
    /\ pc[w] = "select"
    /\ Goes(w, IF isShutdown \/ (ctxDone /\ store = "postgres") THEN "select" ELSE "dequeue")
    /\ Alone /\ UNCHANGED <<database, contexts, activeSteps>>

DequeueStep(w) ==
    /\ pc[w] = "dequeue"
    /\ \/ /\ queue # {} /\ ~Broken
          /\ \E s \in queue :
               /\ item' = [item EXCEPT ![w] = s] /\ queue' = queue \ {s}
               /\ pc' = [pc EXCEPT ![w] = "claimed"]
          /\ UNCHANGED <<outcome, status, done, request>>
       \/ /\ queue = {} \/ Broken
          /\ Goes(w, "select") /\ UNCHANGED database
    /\ Alone /\ UNCHANGED <<contexts, activeSteps>>

\* Worker w has no item any more and goes back to its select.
Drops(w) ==
    /\ pc' = [pc EXCEPT ![w] = "select"] /\ item' = [item EXCEPT ![w] = NoStep]
    /\ outcome' = [outcome EXCEPT ![w] = "none"]

\* The item that w has claimed is nobody's again: given back, or rolled back.
GiveBack(w) ==
    /\ Drops(w)
    /\ queue' = queue \cup {item[w]}
    /\ UNCHANGED <<status, done, request>>

\* The third look, with the item claimed: ReleaseQueueItem gives it back.  A statement on
\* SQLite that fails leaves the item with a worker that does not know of it.
\* Mutant: the item is not given back.
CheckClaimedKeeps(w) ==
    /\ pc[w] = "claimed"
    /\ IF ~isShutdown THEN Goes(w, "add") /\ UNCHANGED database
       ELSE Drops(w) /\ UNCHANGED database
    /\ Alone /\ UNCHANGED <<contexts, activeSteps>>
\* Mutant: no third look.
CheckClaimedSkipped(w) ==
    /\ pc[w] = "claimed"
    /\ Goes(w, "add") /\ UNCHANGED database
    /\ Alone /\ UNCHANGED <<contexts, activeSteps>>
CheckClaimed(w) ==
    /\ pc[w] = "claimed"
    /\ IF ~isShutdown THEN Goes(w, "add") /\ UNCHANGED database
       ELSE IF store = "sqlite" /\ Broken
       THEN Drops(w) /\ UNCHANGED database
       ELSE GiveBack(w)
    /\ Alone /\ UNCHANGED <<contexts, activeSteps>>

\* activeSteps.Add(1), and a look at the instance.  In the dead-letter state nothing is
\* executed, and of an instance that has ended in another way only some steps; otherwise
\* the context is registered.
\* Mutant: an instance has one context, the one registered last.
AddActivePerInstance(w) ==
    /\ pc[w] = "add"
    /\ activeSteps' = activeSteps + 1
    /\ Goes(w, "registered")
    /\ cancelContexts' = [s \in Steps |-> IF s = item[w] THEN w ELSE Nobody]
    /\ Alone /\ UNCHANGED <<cancelled, database>>
AddActive(w) ==
    /\ pc[w] = "add"
    /\ activeSteps' = activeSteps + 1
    /\ \/ /\ Broken \/ status # "running"
          /\ Comes(w, "nothing", "leave") /\ UNCHANGED contexts
       \/ /\ ~Broken /\ status # "dlq"
          /\ Goes(w, "registered")
          /\ cancelContexts' = [cancelContexts EXCEPT ![item[w]] = w]
          /\ cancelled' = cancelled \ {w}
          /\ UNCHANGED database
    /\ Alone

\* The steps whose rows are pending, running or waiting for a decision, as long as the
\* instance runs; in one that has failed they may have been skipped.
Active == {s \in Steps \ done : ~(kind[s] = "human" /\ decided)}

\* The request is carried out for the whole instance and deleted; an abort is like a
\* cancellation here.  Postgres skips the rows that other workers have locked.  SQLite
\* cannot read an active row: the call fails, and the item is dropped all the same.
handleCancellation(w) ==
    \/ store = "sqlite" /\ Active # {} /\ Comes(w, "nothing", "leave")
    \/ /\ store = "sqlite" => Active = {} \/ (status # "running" /\ item[w] \notin Active)
       /\ Comes(w, "cancelled", "leave")

\* executeStep looks for a cancel request, or the step runs.
GetCancelRequest(w) ==
    /\ pc[w] = "registered"
    /\ IF Broken THEN Comes(w, "nothing", "leave")
       ELSE IF request THEN handleCancellation(w)
       ELSE IF kind[item[w]] # "human" THEN Goes(w, "handler") /\ UNCHANGED database
       ELSE IF decided THEN Comes(w, "success", "leave")
       ELSE Comes(w, "again", IF reader = "none" THEN "leave" ELSE "sending")
    /\ Alone /\ UNCHANGED <<contexts, activeSteps>>

\* The context of a handler is derived from the one of the pool.
Interrupted(w) == w \in cancelled \/ ctxDone

\* When the context was cancelled a request goes before what the handler has returned.
HandlerReturns(w) ==
    LET results == IF kind[item[w]] = "prompt" THEN {"success", "dlq"} ELSE {"failed"} IN
    /\ pc[w] = "handler"
    /\ kind[item[w]] = "patient" => Interrupted(w)
    /\ IF Interrupted(w) /\ request /\ ~Broken THEN handleCancellation(w)
       ELSE \E o \in results : Comes(w, o, "leave")
    /\ Alone /\ UNCHANGED <<contexts, activeSteps>>

\* The deferred calls: unregisterInstanceContext, RemoveFromQueue, then activeSteps.Done.
\* The context is deleted by its step, whoever has registered it.
Leave(w) ==
    /\ pc[w] = "leave"
    /\ activeSteps' = activeSteps - 1
    /\ cancelContexts' = [cancelContexts EXCEPT ![item[w]] = Nobody]
    /\ cancelled' = cancelled \ {w}
    /\ IF store = "postgres" THEN Goes(w, "commit") ELSE Drops(w)
    /\ Alone /\ UNCHANGED database

\* On Postgres the transaction ends after that, and fails with a cancelled context.
Commit(w) ==
    /\ pc[w] = "commit"
    /\ IF ctxDone THEN GiveBack(w)
       ELSE Effect(outcome[w], item[w]) /\ Drops(w)
    /\ Alone /\ UNCHANGED <<contexts, activeSteps>>

WorkerStep(w) ==
    \/ Begin(w) \/ DequeueStep(w) \/ CheckClaimed(w) \/ AddActive(w) \/ GetCancelRequest(w)
    \/ HandlerReturns(w) \/ Leave(w) \/ Commit(w)

----------------------------------------------------------------------------
\* The human-decision events: an unbuffered channel

HumanDecisionWaitingEvents ==
    /\ "reader" \in calls /\ reader = "none" /\ reader' = "reads"
    /\ UNCHANGED <<fixed, database, decided, worker, contexts, stopCh, ctxDone, stopping,
                   activeSteps, canceller, awaiter, requests>>

Receive(w) ==
    /\ pc[w] = "sending" /\ reader = "reads"
    /\ Goes(w, "leave")
    /\ Alone /\ UNCHANGED <<database, contexts, activeSteps>>

ReaderLeaves ==
    /\ reader = "reads" /\ reader' = "gone"
    /\ UNCHANGED <<fixed, database, decided, worker, contexts, stopCh, ctxDone, stopping,
                   activeSteps, canceller, awaiter, requests>>

----------------------------------------------------------------------------
\* cancelRequestsWorker and processCancelRequests

Looks == UNCHANGED <<fixed, database, decided, worker, stopCh, ctxDone, stopping, activeSteps,
                     awaiter, reader, requests>>

CancellerStops ==
    /\ canceller = "select" /\ shutdownCh
    /\ canceller' = "stopped" /\ Looks /\ UNCHANGED contexts

\* A tick: the instances that have a context registered.
ListInstances ==
    /\ canceller = "select" /\ \E s \in Steps : cancelContexts[s] # Nobody
    /\ canceller' = "ask" /\ Looks /\ UNCHANGED contexts

AskForRequest ==
    /\ canceller = "ask"
    /\ canceller' = (IF request THEN "cancel" ELSE "select")
    /\ Looks /\ UNCHANGED contexts

CancelContexts ==
    /\ canceller = "cancel"
    /\ cancelled' = (cancelled \cup {cancelContexts[s] : s \in Steps}) \ {Nobody}
    /\ cancelContexts' = [s \in Steps |-> Nobody]
    /\ canceller' = "select" /\ Looks

----------------------------------------------------------------------------
\* StartAwait

Awaits == UNCHANGED <<fixed, database, decided, worker, contexts, stopCh, ctxDone, stopping,
                      activeSteps, canceller, reader, requests>>

StartAwait == "await" \in calls /\ awaiter = "off" /\ awaiter' = "waiting" /\ Awaits

isTerminalStatus(st) == st \in {"completed", "failed", "cancelled", "aborted", "dlq"}

\* Mutant: only the status of the instance is looked at.
awaitStatus ==
    /\ awaiter = "waiting" /\ isTerminalStatus(status) /\ awaiter' = status
    /\ Awaits
awaitCompletion ==
    /\ awaiter = "waiting"
    /\ \/ isTerminalStatus(status) /\ awaiter' = status
       \/ shutdownCh /\ awaiter' = "engine shutdown"
    /\ Awaits

AwaitCancelled == awaiter = "waiting" /\ awaiter' = "context cancelled" /\ Awaits

----------------------------------------------------------------------------
\* Stop and Shutdown

StopPool ==
    /\ "stop" \in calls /\ stopCh = {} /\ stopCh' = Workers
    /\ UNCHANGED <<fixed, database, decided, worker, contexts, ctxDone, stopping, activeSteps,
                   canceller, awaiter, reader, requests>>

CancelContext ==
    /\ "context" \in calls /\ ~ctxDone /\ ctxDone' = TRUE
    /\ UNCHANGED <<fixed, database, decided, worker, contexts, stopCh, stopping, activeSteps,
                   canceller, awaiter, reader, requests>>

Shuts == UNCHANGED <<fixed, database, decided, worker, contexts, stopCh, ctxDone, activeSteps,
                     canceller, awaiter, reader, requests>>

SetFlag ==
    /\ "shutdown" \in calls /\ shutdown = "no"
    /\ shutdown' = "flagged" /\ isShuttingDown' = TRUE
    /\ late' = {w \in Workers : pc[w] = "add"}
    /\ UNCHANGED shutdownCh /\ Shuts

CloseShutdownCh ==
    /\ shutdown = "flagged" /\ shutdown' = "waiting" /\ shutdownCh' = TRUE
    /\ UNCHANGED <<isShuttingDown, late>> /\ Shuts

\* activeSteps.Wait in a goroutine of its own, then the select of Shutdown.
WaitEnds ==
    /\ shutdown = "waiting" /\ activeSteps = 0 /\ shutdown' = "waited"
    /\ UNCHANGED <<isShuttingDown, shutdownCh, late>> /\ Shuts

ShutdownReturns ==
    /\ \/ shutdown = "waited" /\ shutdown' = "graceful"
       \/ shutdown \in {"waiting", "waited"} /\ shutdown' = "timeout"
    /\ UNCHANGED <<isShuttingDown, shutdownCh, late>> /\ Shuts

----------------------------------------------------------------------------
\* Other callers

Requested ==
    /\ "cancel" \in calls /\ requests < MaxRequests /\ status \in {"running", "dlq"} /\ ~request
    /\ request' = TRUE /\ requests' = requests + 1
    /\ UNCHANGED <<fixed, status, queue, done, decided, worker, contexts, stopCh, ctxDone,
                   stopping, activeSteps, canceller, awaiter, reader>>

Decide ==
    /\ "decide" \in calls /\ ~decided /\ decided' = TRUE
    /\ UNCHANGED <<fixed, database, worker, contexts, stopCh, ctxDone, stopping, activeSteps,
                   canceller, awaiter, reader, requests>>

EngineStep    == CloseShutdownCh \/ WaitEnds \/ ShutdownReturns
CancellerStep == ListInstances \/ AskForRequest \/ CancelContexts
Caller ==
    \/ PoolStart \/ StartAwait \/ AwaitCancelled \/ StopPool \/ CancelContext \/ SetFlag
    \/ Requested \/ Decide \/ HumanDecisionWaitingEvents \/ ReaderLeaves

Next ==
    \/ \E w \in Workers : WorkerStep(w) \/ Stopped(w) \/ Receive(w)
    \/ CancellerStep \/ CancellerStops
    \/ awaitCompletion \/ EngineStep \/ Caller

Spec == Init /\ [][Next]_vars

\* The Go scheduler runs every goroutine that can run, tickers tick, and Shutdown's timer
\* fires.  A select takes each of its ready cases at random, so that a loop that gets back
\* to a select with a closed channel again and again takes that case.
Fairness ==
    /\ \A w \in Workers : WF_vars(WorkerStep(w)) /\ WF_vars(Receive(w)) /\ SF_vars(Stopped(w))
    /\ WF_vars(CancellerStep) /\ SF_vars(CancellerStops)
    /\ WF_vars(awaitCompletion) /\ WF_vars(EngineStep)

FairSpec == Spec /\ Fairness
============================================================================
