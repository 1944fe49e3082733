-------------------------- MODULE QueueProperties --------------------------
\* What the order of the queue promises.
EXTENDS Queue

Waits(id)  == id \in Used /\ Claimable(Place(id))
Claimed(n) == Claimable(n) /\ \E w \in Workers : queue' = [queue EXCEPT ![n].by = w]

\* With aging, an item that is due is claimed in the end, whatever arrives meanwhile: at the
\* cap its age decides.  (Claimed, not executed: a worker without the handler sends it back
\* with a new scheduled_at, by which it loses its age.)
NoStarvation ==
    \A id \in UNION {x.ids : x \in Scenarios} : (rate > 0 /\ Waits(id)) ~> ~Waits(id)

\* With or without aging, no item is claimed while another one waits that is scheduled
\* earlier and has no lower priority.
KeepsOrder ==
    \A n \in DOMAIN queue : Claimed(n) =>
        \A m \in 1..(n - 1) : Claimable(m) => queue[m].prio < queue[n].prio
NotOvertaken == [][KeepsOrder]_vars

Exact(s, base, attempt) ==
    CASE s = "exponential" -> base * 2^attempt [] s = "linear" -> base * attempt [] OTHER -> base

\* The worker that had item n of a compensation has put item m in its place.
RetryOf(n, m) ==
    /\ queue[n].kind = "failing" /\ queue[n].by # Nobody
    /\ queue'[m].id = queue[n].id /\ queue'[m].by = Nobody

\* As long as the delay fits into a time.Duration, the retry of a compensation that has a
\* delay is not due at once, and waits longer than the one before, or as long if delays are
\* fixed; beyond that it may be due at once, in front of everything else.  On Postgres there
\* is no such growth: the engine does not learn how many retries there were, and each waits
\* as long as the first.
BacksOff ==
    \A n \in DOMAIN queue, m \in DOMAIN queue' : RetryOf(n, m) =>
        LET delay  == -queue'[m].wait
            before == Exact(strategy, BaseDelay, queue[n].tries)
            first  == Exact(strategy, BaseDelay, 1)
        IN  \/ /\ BaseDelay + OnFailureDelay > 0 => delay > 0
               /\ store = "postgres" => delay = IF first = 0 THEN OnFailureDelay ELSE first
               /\ store # "postgres" => delay >= before
               /\ store # "postgres" /\ strategy # "fixed" /\ BaseDelay > 0 => delay > before
            \/ Exact(strategy, BaseDelay, queue'[m].tries) > MaxDuration
BackoffHolds == [][BacksOff]_vars
============================================================================
