---------------------------- MODULE MCLifecycle ----------------------------
\* Instances of Lifecycle for TLC.
EXTENDS LifecycleProperties, TLC

Case(st, k1, k2, c) == [store |-> st, kind |-> "s1" :> k1 @@ "s2" :> k2, calls |-> c]

\* What happens together: a cancelled context with Shutdown on each store, a cancel request
\* with and without Shutdown, StartAwait, and the events of a human step.
MCScenarios ==
    {Case(st, "patient", "prompt", {"shutdown", "context"}) :
        st \in {"postgres", "sqlite", "memory"}}
    \cup
    {Case("postgres", "patient", "prompt", {"cancel"}),
     Case("sqlite", "patient", "prompt", {"cancel"}),
     Case("sqlite", "patient", "human", {"cancel", "decide"}),
     Case("memory", "patient", "prompt", {"cancel", "shutdown"}),
     Case("memory", "patient", "prompt", {"await", "stop", "shutdown"}),
     Case("postgres", "patient", "human", {"cancel", "reader", "decide"}),
     Case("memory", "patient", "human", {"cancel", "reader", "decide"}),
     Case("postgres", "human", "prompt", {"shutdown", "reader"})}

\* Two branches of a fork, one of which is inside a handler when the instance is cancelled.
MCForkCancelled == {Case("postgres", "patient", "prompt", {"cancel"})}
============================================================================
