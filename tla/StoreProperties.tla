-------------------------- MODULE StoreProperties --------------------------
\* What the callers of the Store interface may rely on, whichever store they have.
EXTENDS StoreAPI

Held == {i \in Inst : InstanceEverywhere(i)}     \* the instances all three still hold

\* SQLite pauses more steps than the others and unpauses no join, and it sets
\* completed_at of a step that was rolled back.
StepAsOnSqlite(q, m) ==
    /\ \/ q.status = m.status
       \/ q.status = "paused" /\ m.status \in {"pending", "compensation"}
    /\ [q EXCEPT !.status = m.status, !.completed = m.completed] = m
    /\ m.completed => q.completed

SameSteps(i) ==
    LET p == P!GetWorkflowSteps(pg, i)
        q == Q!GetWorkflowSteps(sq, i)
        m == M!GetWorkflowSteps(mem, i)
    IN  p = m /\ Len(q) = Len(m) /\ \A n \in DOMAIN m : StepAsOnSqlite(q[n], m[n])

\* What a cancellation stops: SQLite fails when there is something to stop.
SameActiveSteps(i) ==
    LET m == M!GetActiveStepsForUpdate(mem, i)
    IN  /\ P!GetActiveStepsForUpdate(pg, i) = m
        /\ Q!GetActiveStepsForUpdate(sq, i) \in {{<<>>}} \cup (IF m = {<<>>} THEN {} ELSE {{}})

SameInstance(i) ==
    LET seen(rows) == {<<r.wf, r.status, r.started, r.completed>> : r \in rows}
    IN  /\ seen(P!GetInstance(pg, i)) = seen(M!GetInstance(mem, i))
        /\ seen(Q!GetInstance(sq, i)) = seen(M!GetInstance(mem, i))

\* SQLite keeps a step in both lists when it failed once and then succeeded, and does
\* not look for the row of the step that replaces a virtual one.
SameJoin(i) ==
    /\ P!GetJoinState(pg, i) = M!GetJoinState(mem, i)
    /\ i \in DOMAIN sq.join <=> i \in DOMAIN mem.join
    /\ \A q \in Q!GetJoinState(sq, i), m \in M!GetJoinState(mem, i) :
             /\ q.waiting = m.waiting /\ q.strategy = m.strategy
             /\ \A n \in (m.completed \ q.completed) \cup (m.failed \ q.failed) :
                  \E k \in Of(mem.steps, i) : mem.steps[k].name = n
             /\ q.completed = m.completed /\ q.failed = m.failed => q.ready = m.ready

SameCancel(i) ==
    /\ P!GetCancelRequest(pg, i) = M!GetCancelRequest(mem, i)
    /\ Q!GetCancelRequest(sq, i) = {} <=> M!GetCancelRequest(mem, i) = {}

SameDecision(k) ==
    /\ P!GetHumanDecision(pg, k) = M!GetHumanDecision(mem, k)
    /\ Q!GetHumanDecision(sq, k) = M!GetHumanDecision(mem, k)

SameQueue ==
    LET of(d) == SelectSeq(d.queue, LAMBDA x : x.inst \in Held)
    IN  of(pg) = of(sq) /\ Range(of(mem)) \subseteq Range(of(pg))

SameDeadLetters == \A id \in 1..mem.nextDlq - 1 :
    id \in DOMAIN mem.dlq /\ mem.dlq[id].inst \in Held =>
        /\ HandleGet(P!GetDeadLetterByID(pg, id)) = HandleGet(M!GetDeadLetterByID(mem, id))
        /\ HandleGet(Q!GetDeadLetterByID(sq, id)) = HandleGet(M!GetDeadLetterByID(mem, id))

\* The three stores, given the same calls, show the engine the same instances, steps,
\* join states, requests, dead letters and errors, but for the differences named above.
StoresAgree ==
    /\ \A i \in Held : /\ SameInstance(i) /\ SameSteps(i) /\ SameActiveSteps(i)
                     /\ SameJoin(i) /\ SameCancel(i)
    /\ \A k \in Steps : StepEverywhere(k) =>
         /\ SameDecision(k)
         /\ P!GetStepByID(pg, k) = M!GetStepByID(mem, k)
    /\ SameQueue /\ SameDeadLetters
    /\ last.known \/ (last.code[1] = last.code[2] /\ last.code[2] = last.code[3])

----------------------------------------------------------------------------
\* What the HTTP API shows of the three stores.

SameRows == DOMAIN pg.inst = DOMAIN sq.inst /\ DOMAIN sq.inst = DOMAIN mem.inst

\* Postgres counts instances with dead letters as active; SQLite fails while there is none.
SameSummary ==
    LET dlq == Cardinality(InStatus(mem, {"dlq"}))
    IN  /\ HandleGetSummaryStats(P!GetSummaryStats(pg)) =
           HandleGetSummaryStats({[s EXCEPT !.active = @ + dlq] : s \in M!GetSummaryStats(mem)})
        /\ HandleGetSummaryStats(Q!GetSummaryStats(sq)) =
           IF mem.inst = <<>> THEN [code |-> 500, body |-> {}]
           ELSE HandleGetSummaryStats(M!GetSummaryStats(mem))

\* The lists of instances, newest first; the one that SQLite gives without pages is
\* oldest first.
SameLists ==
    LET all == M!GetAllWorkflowInstances(mem)
    IN  /\ P!GetAllWorkflowInstances(pg) = all
        /\ Q!GetAllWorkflowInstances(sq) = Reverse(all)
        /\ \A wf \in DOMAIN mem.defs :
             LET own == M!GetWorkflowInstances(mem, wf)
             IN  P!GetWorkflowInstances(pg, wf) = own /\ Q!GetWorkflowInstances(sq, wf) = Reverse(own)

\* The first page of the instances of a definition, which may not exist.
SamePages ==
    LET r == PageRequest(0, 2)
    IN  \A wf \in DOMAIN Defs :
          LET m == HandleGetWorkflowInstances(M!GetWorkflowDefinition(mem, wf),
                      M!GetWorkflowInstancesPaginated(mem, wf, r.offset, r.limit))
          IN  /\ HandleGetWorkflowInstances(P!GetWorkflowDefinition(pg, wf),
                      P!GetWorkflowInstancesPaginated(pg, wf, r.offset, r.limit)) = m
              /\ HandleGetWorkflowInstances(Q!GetWorkflowDefinition(sq, wf),
                      Q!GetWorkflowInstancesPaginated(sq, wf, r.offset, r.limit)) = m

SameActive ==
    LET shown(rows) == [n \in DOMAIN rows |-> <<rows[n].id, rows[n].status, rows[n].total>>]
    IN  /\ P!GetActiveInstances(pg) = M!GetActiveInstances(mem)
        /\ shown(Q!GetActiveInstances(sq)) = shown(M!GetActiveInstances(mem))

SameStats ==
    /\ P!GetWorkflowStats(pg) = Q!GetWorkflowStats(sq)
    /\ M!GetWorkflowStats(mem) = {s \in P!GetWorkflowStats(pg) : s.total > 0}

SameDefinitions ==
    /\ P!GetWorkflowDefinitions(pg) = M!GetWorkflowDefinitions(mem)
    /\ Range(Q!GetWorkflowDefinitions(sq)) = Range(M!GetWorkflowDefinitions(mem))
    /\ \A id \in DOMAIN Defs : HandleGetWorkflowDefinition(P!GetWorkflowDefinition(pg, id)) =
                               HandleGetWorkflowDefinition(M!GetWorkflowDefinition(mem, id))

\* A second cancel request logs no event on Postgres.
SameEvents(i) ==
    LET seen(events) == SelectSeq(events, LAMBDA e : e \notin {"cancel", "abort"})
        m == HandleGetWorkflowEvents(M!GetInstance(mem, i), seen(M!GetWorkflowEvents(mem, i)))
    IN  /\ HandleGetWorkflowEvents(P!GetInstance(pg, i), seen(P!GetWorkflowEvents(pg, i)))
             = m
        /\ HandleGetWorkflowEvents(Q!GetInstance(sq, i), seen(Q!GetWorkflowEvents(sq, i)))
             = m

\* While no cleanup has taken different rows, every query of the HTTP API has the same
\* answer on each store, but for the differences named above.
QueriesAgree ==
    SameRows =>
        /\ SameSummary /\ SameLists /\ SamePages
        /\ SameActive /\ SameStats /\ SameDefinitions
        /\ \A i \in Held : SameEvents(i)

\* The pages of a size, one after the other; some clients call the first one page 0.
Paged(page(_, _), first, size) ==
    FlattenSeq([n \in 1..3 |-> LET r == PageRequest(IF n = 1 THEN first ELSE n, size)
                               IN  page(r.offset, r.limit)])

\* Whatever the page size, also one that is refused (0), and whether the client counts from 0
\* or from 1, the pages that HandleGetAllInstances, HandleGetWorkflowInstances and HandleList
\* of the dead letters return hold every row once, newest first, on each of the three stores.
PagesCover == \A first \in {0, 1}, size \in {0, 1, 2} :
    LET covers(page(_, _), rows) == Paged(page, first, size) = Descending(rows)
        own(d, wf) == {i \in DOMAIN d.inst : d.inst[i].wf = wf}
    IN  /\ covers(LAMBDA o, l : P!GetAllWorkflowInstancesPaginated(pg, o, l), DOMAIN pg.inst)
        /\ covers(LAMBDA o, l : Q!GetAllWorkflowInstancesPaginated(sq, o, l), DOMAIN sq.inst)
        /\ covers(LAMBDA o, l : M!GetAllWorkflowInstancesPaginated(mem, o, l), DOMAIN mem.inst)
        /\ covers(LAMBDA o, l : P!ListDeadLetters(pg, o, l), DOMAIN pg.dlq)
        /\ covers(LAMBDA o, l : Q!ListDeadLetters(sq, o, l), DOMAIN sq.dlq)
        /\ covers(LAMBDA o, l : M!ListDeadLetters(mem, o, l), DOMAIN mem.dlq)
        /\ \A wf \in DOMAIN Defs :
             /\ covers(LAMBDA o, l : P!GetWorkflowInstancesPaginated(pg, wf, o, l), own(pg, wf))
             /\ covers(LAMBDA o, l : Q!GetWorkflowInstancesPaginated(sq, wf, o, l), own(sq, wf))
             /\ covers(LAMBDA o, l : M!GetWorkflowInstancesPaginated(mem, wf, o, l), own(mem, wf))

\* A cleanup takes an instance that was completed, failed or cancelled when that was longer ago
\* than the given number of days, and not before, although the stores decide by different
\* columns and completed_at is not cleared when a dead letter brings an instance back; and on
\* Postgres it takes nothing that is not finished.  Aborted instances are left out: they get
\* no completed_at.
Cleaned(d, e) ==
    \A i \in InStatus(d, {"completed", "failed", "cancelled"}) :
        i \notin DOMAIN e.inst <=> d.inst[i].updated = "old"
CleanupByAge ==
    [][ CleanupOldWorkflows(30) =>
          /\ Cleaned(pg, pg') /\ Cleaned(sq, sq') /\ Cleaned(mem, mem')
          /\ InStatus(pg, {"pending", "running", "cancelling", "dlq"}) \subseteq DOMAIN pg'.inst
      ]_vars

\* Once nobody saves definitions any more, what the caches of all processes answer
\* becomes the definition in the database, and stays it.
CacheConverges ==
    <>[](\A p \in Procs, id \in CachedDefs :
            Valid(p, id) => cache[p][id].graph = pg.defs[id].graph)
============================================================================
