------------------------------- MODULE Queue -------------------------------
(***************************************************************************)
(* The order of the queue: priorities, aging, delays, and what a worker    *)
(* does with an item it has claimed (DequeueStep of the three stores, and  *)
(* ExecuteNext and executeCompensationStep of engine.go).                  *)
(*                                                                         *)
(* A tick is the time in which aging adds one point.  An item has the      *)
(* number of ticks since its scheduled_at, negative before it; once aging  *)
(* has taken it to the cap, more time makes no difference but for the      *)
(* order of the items, so that the queue is a sequence in the order of     *)
(* scheduled_at, which is the tie-break of every store.  No two items have *)
(* the same scheduled_at.                                                  *)
(***************************************************************************)
EXTENDS Integers, SequencesExt

CONSTANTS
    Workers,
    Remote,        \* the worker whose process has the handler of the remote steps
    Nobody,        \* attempted_by of an item that is not claimed
    Priorities,    \* the priorities of new items
    Delays,        \* their delays
    Cap,           \* the highest effective priority
    Cooldown, Jitter,   \* of an item whose handler is missing
    Width,         \* of a time.Duration, in bits
    BaseDelay, MaxRetries, OnFailureDelay,   \* of a compensation
    Scenarios      \* the store, the aging rate (points per tick; 0 is no aging), the retry
                   \* strategy, the kinds of the items and their identities (as many as there
                   \* can be at a time): records [store, rate, strategy, kinds, ids]

\* What a step needs: any worker can do it; only one process has its handler; or it is a
\* compensation that fails.
Kinds == {"local", "remote", "failing"}

ASSUME QueueAssumption ==
    /\ Remote \in Workers /\ Nobody \notin Workers
    /\ Cap \in Nat /\ Priorities \subseteq 0..Cap /\ Delays \subseteq Nat
    /\ {Cooldown, Jitter, BaseDelay, MaxRetries, OnFailureDelay} \subseteq Nat /\ Width \in Nat \ {0}
    /\ \A x \in Scenarios :
         /\ x.store \in {"postgres", "sqlite", "memory"} /\ x.rate \in Nat /\ x.kinds \subseteq Kinds
         /\ x.strategy \in {"exponential", "linear", "fixed"}

VARIABLES
    store, rate, strategy, kinds, ids,   \* chosen initially
    queue          \* the items, the one with the earliest scheduled_at first

fixed == <<store, rate, strategy, kinds, ids>>
vars  == <<fixed, queue>>

Init ==
    /\ \E x \in Scenarios :
         /\ store = x.store /\ rate = x.rate /\ strategy = x.strategy
         /\ kinds = x.kinds /\ ids = x.ids
    /\ queue = <<>>

----------------------------------------------------------------------------
\* Time

\* The ticks after which aging makes no difference any more.
Aged == Cap
Elapsed(t) == IF t > Aged THEN Aged ELSE t

\* The item is put where its scheduled_at belongs; of two items whose scheduled_at falls
\* into the same tick either may be the earlier one.
Insert(q, x) ==
    {InsertAt(q, n, x) : n \in {m \in 1..(Len(q) + 1) :
        /\ \A k \in 1..(m - 1) : q[k].wait >= x.wait
        /\ \A k \in m..Len(q)  : q[k].wait <= x.wait}}

Tick ==
    /\ queue' = [n \in DOMAIN queue |-> [queue[n] EXCEPT !.wait = Elapsed(@ + 1)]]
    /\ UNCHANGED fixed

Used == {queue[n].id : n \in DOMAIN queue}
Place(id) == CHOOSE n \in DOMAIN queue : queue[n].id = id

\* tries is the compensation_retry_count of the step's row.
EnqueueStep(q, id, kind, prio, delay, tries) ==
    Insert(q, [id |-> id, kind |-> kind, prio |-> prio, wait |-> Elapsed(-delay),
               by |-> Nobody, tries |-> tries])

\* A step of some workflow is to be executed.
Arrive(id, kind, prio, delay) ==
    /\ id \notin Used
    /\ queue' \in EnqueueStep(queue, id, kind, prio, delay, 0)
    /\ UNCHANGED fixed

----------------------------------------------------------------------------
\* DequeueStep

\* LEAST(100, priority + FLOOR(wait * rate)).  Without a rate the priority alone counts.
EffectivePriority(x) ==
    LET aged == x.prio + x.wait * rate
    IN  IF rate > 0 /\ aged > Cap THEN Cap ELSE aged

Claimable(n) == queue[n].by = Nobody /\ queue[n].wait >= 0

\* The item that is claimed next: the earliest of those with the highest priority.
\* Mutant: the latest one.
IsLatest(n) ==
    /\ Claimable(n)
    /\ \A m \in DOMAIN queue : Claimable(m) =>
         \/ EffectivePriority(queue[m]) < EffectivePriority(queue[n])
         \/ EffectivePriority(queue[m]) = EffectivePriority(queue[n]) /\ m <= n
\* Mutant: the time that an item has waited counts against it.
IsLeastAged(n) ==
    /\ Claimable(n)
    /\ \A m \in DOMAIN queue : Claimable(m) =>
         \/ queue[m].prio - queue[m].wait * rate < queue[n].prio - queue[n].wait * rate
         \/ queue[m].prio - queue[m].wait * rate = queue[n].prio - queue[n].wait * rate /\ n <= m
IsNext(n) ==
    /\ Claimable(n)
    /\ \A m \in DOMAIN queue : Claimable(m) =>
         \/ EffectivePriority(queue[m]) < EffectivePriority(queue[n])
         \/ EffectivePriority(queue[m]) = EffectivePriority(queue[n]) /\ n <= m

DequeueStep(w) ==
    /\ \A n \in DOMAIN queue : queue[n].by # w
    /\ \E n \in DOMAIN queue : IsNext(n) /\ queue' = [queue EXCEPT ![n].by = w]
    /\ UNCHANGED fixed

----------------------------------------------------------------------------
\* What the worker does with its item

Removed(n) == RemoveAt(queue, n)

\* The process has no handler: the item is for another one, after a while.  The later of
\* the two scheduled_at, and the new one alone on SQLite, are the same, as an item that is
\* claimed was due.  Without a cooldown the item is only released.
jitteredCooldown == IF Cooldown = 0 THEN {0}
                    ELSE {d \in (Cooldown - Jitter)..(Cooldown + Jitter) : d >= 1}

RescheduleAndReleaseQueueItem(n, delay) ==
    Insert(Removed(n), [queue[n] EXCEPT !.wait = -delay, !.by = Nobody])
ReleaseQueueItem(n) == [queue EXCEPT ![n].by = Nobody]

SkipMissingHandler(w, n) ==
    /\ queue[n].by = w /\ queue[n].kind = "remote" /\ w # Remote
    /\ \E d \in jitteredCooldown :
         IF d > 0 THEN queue' \in RescheduleAndReleaseQueueItem(n, d)
         ELSE queue' = ReleaseQueueItem(n)
    /\ UNCHANGED fixed

\* What GetStepsByInstance reads of it: nothing on Postgres.
CompensationRetryCount(n) == IF store = "postgres" THEN 0 ELSE queue[n].tries

\* The step is executed, or a compensation given up, and the item removed.
Execute(w, n) ==
    /\ queue[n].by = w /\ (queue[n].kind = "remote" => w = Remote)
    /\ queue[n].kind # "failing" \/ CompensationRetryCount(n) >= MaxRetries
    /\ queue' = Removed(n)
    /\ UNCHANGED fixed

----------------------------------------------------------------------------
\* Retries

MaxDuration == 2^(Width - 1) - 1

\* A float64 as a time.Duration: outside the range of int64 the result depends on the
\* architecture, the least value (amd64) or the greatest (arm64).
FromFloat(x) == IF x <= MaxDuration THEN {x} ELSE {-MaxDuration - 1, MaxDuration}
\* A product of two integers wraps around.
Wrapped(x) == ((x + MaxDuration + 1) % 2^Width) - MaxDuration - 1

\* Mutant: the attempts are counted from the other end.
RetryDelayBackwards(s, base, attempt) ==
    IF s = "exponential" THEN FromFloat(base * 2^(MaxRetries - attempt)) ELSE {base}
CalculateRetryDelay(s, base, attempt) ==
    CASE s = "exponential" -> FromFloat(base * 2^attempt)
      [] s = "linear"      -> {Wrapped(base * attempt)}
      [] OTHER             -> {base}

\* Compensation number `attempt' of a step is enqueued at PriorityHigh.
EnqueueCompensation(q, id, attempt) ==
    UNION {EnqueueStep(q, id, "failing", Cap, IF d = 0 THEN OnFailureDelay ELSE d, attempt) :
             d \in CalculateRetryDelay(strategy, BaseDelay, attempt)}

\* rollbackStep: the first one.
Rollback(id) ==
    /\ id \notin Used /\ MaxRetries > 0
    /\ queue' \in EnqueueCompensation(queue, id, 1)
    /\ UNCHANGED fixed

\* A compensation fails: there is a new item, and the old one is removed.
Retry(w, n) ==
    /\ queue[n].by = w /\ queue[n].kind = "failing" /\ CompensationRetryCount(n) < MaxRetries
    /\ queue' \in EnqueueCompensation(Removed(n), queue[n].id, CompensationRetryCount(n) + 1)
    /\ UNCHANGED fixed

Works(w) ==
    \E n \in DOMAIN queue : SkipMissingHandler(w, n) \/ Execute(w, n) \/ Retry(w, n)

Arrives ==
    \E id \in ids, kind \in kinds :
        IF kind = "failing" THEN Rollback(id)
        ELSE \E prio \in Priorities, delay \in Delays : Arrive(id, kind, prio, delay)

Next == Tick \/ Arrives \/ \E w \in Workers : DequeueStep(w) \/ Works(w)

Spec == Init /\ [][Next]_vars

\* Time goes on, a worker that has an item does its work, and the workers' tickers make some
\* worker look at the queue as long as there is one without an item.
Fairness ==
    /\ WF_vars(Tick)
    /\ \A w \in Workers : WF_vars(Works(w))
    /\ WF_vars(\E w \in Workers : DequeueStep(w))

FairSpec == Spec /\ Fairness
============================================================================
