------------------------------ MODULE MCQueue ------------------------------
\* Instances of Queue for TLC.
EXTENDS QueueProperties

\* Items for every process and for one, with aging; without it; and compensations that fail,
\* with the counter and without.
Case(st, r, s, k, n) == [store |-> st, rate |-> r, strategy |-> s, kinds |-> k, ids |-> 1..n]
MCScenarios ==
    {Case("postgres", 1, "fixed", {"local", "remote"}, 3),
     Case("sqlite", 0, "fixed", {"local"}, 3),
     Case("memory", 1, "exponential", {"failing"}, 2),
     Case("sqlite", 1, "linear", {"failing"}, 2),
     Case("postgres", 1, "exponential", {"failing"}, 2)}
============================================================================
