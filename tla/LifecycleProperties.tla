------------------------ MODULE LifecycleProperties ------------------------
\* What callers of Shutdown, StartAwait and CancelWorkflow may count on.
EXTENDS Lifecycle

Executing(w) == pc[w] \in {"registered", "handler", "sending", "leave"}

\* When Shutdown has returned without an error, no step is being executed but by a worker
\* that had looked at isShuttingDown for the third time before Shutdown set it and that was
\* added to the wait group too late to be waited for; and that worker does so only once.
\* On Postgres the transactions of steps that were waited for may still have to commit.
GracefulShutdown ==
    shutdown = "graceful" => \A w \in Workers : Executing(w) => w \in late

\* What may cost an item: a cancelled context, or a cancel request, without transactions.
Excused == store = "sqlite" /\ (ctxDone \/ request)

\* However stops, shutdowns and cancelled contexts fall between the statements of
\* ExecuteNext, a step of a running instance that has not ended is in the queue for other
\* workers, or a worker of this process has it.  The exceptions are on SQLite, which has no
\* transactions: a claim that is to be given back with a cancelled context stays for good,
\* and a cancel request that cannot be carried out costs the item that met it.
NoItemLost ==
    status = "running" =>
        \A s \in Steps \ done :
            s \in queue \/ (\E w \in Workers : item[w] = s) \/ Excused

\* What keeps a worker from finishing: a handler that nobody interrupts, and the event that
\* executeHuman sends inside the transaction when its reader has gone.
Hangs(w) ==
    \/ pc[w] = "handler" /\ kind[item[w]] = "patient" /\ ~Interrupted(w)
    \/ pc[w] = "sending" /\ reader = "gone"

Settled ==
    /\ shutdown \in {"graceful", "timeout"} /\ canceller = "stopped" /\ awaiter # "waiting"
    /\ \A w \in Workers : item[w] = NoStep \/ Hangs(w)

\* After Shutdown has begun it returns, StartAwait returns, the goroutine for cancel
\* requests ends, and every worker gives up or finishes the item it has, unless it hangs in
\* a handler or on the event channel.
ShutdownSettles == isShuttingDown ~> Settled

\* A handler that runs when its instance is to be cancelled has its context cancelled
\* (cancelRequestsWorker), unless Shutdown stops the goroutine that does it, or another
\* worker that begins or ends a step of the instance is faster: it carries the request out
\* and deletes it before the goroutine has seen it.
CancelReachesHandlers ==
    \A w \in Workers :
        (pc[w] = "handler" /\ request) ~>
            w \in cancelled \/ pc[w] # "handler" \/ shutdownCh \/ status = "cancelled"

\* Without the last exception: a cancellation stops every handler of the instance.
BranchesCancelled ==
    \A w \in Workers :
        (pc[w] = "handler" /\ request) ~> w \in cancelled \/ pc[w] # "handler" \/ shutdownCh
============================================================================
