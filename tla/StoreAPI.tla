------------------------------ MODULE StoreAPI ------------------------------
(***************************************************************************)
(* The Store interface (store_interface.go) as its callers see it: the     *)
(* same calls are made on a Postgres, an SQLite and a memory store, one    *)
(* after the other, and what the three hold is compared.  The engine calls *)
(* the store itself or through the HTTP API.  A Postgres store has a cache *)
(* of workflow definitions in every process; its reads and writes are      *)
(* several steps, and they race.                                           *)
(***************************************************************************)
EXTENDS Tables, HttpAPI

CONSTANTS
    Defs,        \* ids of workflow definitions: id -> [name, version]
    Procs,       \* processes that use the Postgres database
    CachedDefs,  \* bound: the definitions GetWorkflowDefinition is called for
    TTL,         \* defCacheTTL, in ticks
    MaxGraph,    \* bound: how often a definition is saved
    Scenarios    \* bounds: the methods called in one behaviour and the rows they are called on

ASSUME StoreAPIAssumption ==
    /\ DOMAIN Defs # {} /\ Procs # {} /\ TTL \in Nat \ {0} /\ MaxGraph \in Nat
    /\ \A s \in Scenarios : {s.inst, s.steps, s.retry, s.events, s.queue, s.dlq} \subseteq Nat

P == INSTANCE PostgresStore
Q == INSTANCE SqliteStore
M == INSTANCE MemoryStore

VARIABLES
    bound,       \* the scenario of this behaviour
    pg, sq, mem, \* the tables of the three stores
    last,        \* the answers to the last call, and whether they are known to differ
    cache,       \* process, id -> the cached definition and the ticks it has left
    ttl,         \* process -> defCacheTTL
    reading,     \* process -> definitions read and not yet put into the cache
    saving       \* process -> ids saved whose cache entry is not yet invalidated

tables == <<pg, sq, mem, last>>
caches == <<cache, ttl, reading, saving>>
vars   == <<bound, tables, caches>>

NotCached == [graph |-> 0, left |-> 0]

\* The tables when all workflows are registered.
Registered ==
    FoldSet(LAMBDA id, d : P!SaveWorkflowDefinition(d, id, Defs[id].name, Defs[id].version, 1).db,
            NoTables, DOMAIN Defs)

Init ==
    /\ bound \in Scenarios
    /\ pg = IF "SaveWorkflowDefinition" \in bound.calls THEN NoTables ELSE Registered
    /\ sq = pg /\ mem = pg
    /\ last = [code |-> <<200, 200, 200>>, known |-> FALSE]
    /\ cache = [p \in Procs |-> [id \in CachedDefs |-> NotCached]]
    /\ ttl = [p \in Procs |-> TTL]
    /\ reading = [p \in Procs |-> {}]
    /\ saving = [p \in Procs |-> {}]

\* One request to the three stores; `known' says that they answer it differently.
Request(method, p, q, m, known) ==
    /\ method \in bound.calls
    /\ pg' = p.db /\ sq' = q.db /\ mem' = m.db
    /\ last' = [code |-> <<p.code, q.code, m.code>>, known |-> known]
    /\ UNCHANGED bound

\* One call by the engine.
Call(method, p, q, m, known) == Request(method, Posted(p), Posted(q), Posted(m), known)

\* The ids a caller may hold, also of rows that a cleanup has deleted.
Inst  == 1..mem.nextInst - 1
Steps == 1..mem.nextStep - 1
InstanceEverywhere(i) == i \in DOMAIN pg.inst \cap DOMAIN sq.inst \cap DOMAIN mem.inst
StepEverywhere(k) == k \in DOMAIN pg.steps \cap DOMAIN sq.steps \cap DOMAIN mem.steps

----------------------------------------------------------------------------
\* Definitions.  RegisterWorkflow saves what the builder made: the id follows from the
\* name and the version.

SaveWorkflowDefinition(p, id, graph) ==
    /\ graph = (IF id \in DOMAIN pg.defs THEN pg.defs[id].graph ELSE 0) + 1 /\ graph <= MaxGraph
    /\ LET n == Defs[id].name
           v == Defs[id].version
       IN  Call("SaveWorkflowDefinition", P!SaveWorkflowDefinition(pg, id, n, v, graph),
                Q!SaveWorkflowDefinition(sq, id, n, v, graph),
                M!SaveWorkflowDefinition(mem, id, n, v, graph), FALSE)
    /\ saving' = [saving EXCEPT ![p] = @ \cup ({id} \cap CachedDefs)]
    /\ UNCHANGED <<cache, ttl, reading>>

InvalidateDefinitionCache(p, id) ==
    /\ id \in saving[p]
    /\ saving' = [saving EXCEPT ![p] = @ \ {id}]
    /\ cache' = [cache EXCEPT ![p][id] = NotCached]
    /\ UNCHANGED <<bound, tables, ttl, reading>>

\* Mutant: an entry is valid for ever.
AlwaysValid(p, id) == cache[p][id] # NotCached

\* An entry of the cache that has not expired answers GetWorkflowDefinition.
Valid(p, id) == ttl[p] > 0 /\ cache[p][id].left > 0

\* Otherwise GetWorkflowDefinition drops the entry and reads the row ...
ReadDefinition(p, id) ==
    /\ "GetWorkflowDefinition" \in bound.calls
    /\ ~Valid(p, id) /\ id \in DOMAIN pg.defs
    /\ reading' = [reading EXCEPT ![p] = @ \cup {[id |-> id, graph |-> pg.defs[id].graph]}]
    /\ cache' = IF ttl[p] > 0 THEN [cache EXCEPT ![p][id] = NotCached] ELSE cache
    /\ UNCHANGED <<bound, tables, ttl, saving>>

\* ... and what it read goes into the cache.
CacheDefinition(p, r) ==
    /\ r \in reading[p]
    /\ reading' = [reading EXCEPT ![p] = @ \ {r}]
    /\ cache' = IF ttl[p] > 0
                THEN [cache EXCEPT ![p][r.id] = [graph |-> r.graph, left |-> ttl[p]]] ELSE cache
    /\ UNCHANGED <<bound, tables, ttl, saving>>

\* With 0 also ClearDefinitionCache.
SetDefinitionCacheTTL(p, t) ==
    /\ "SetDefinitionCacheTTL" \in bound.calls
    /\ ttl' = [ttl EXCEPT ![p] = t]
    /\ cache' = IF t = 0 THEN [cache EXCEPT ![p] = [id \in CachedDefs |-> NotCached]] ELSE cache
    /\ UNCHANGED <<bound, tables, reading, saving>>

Tick ==
    /\ \E p \in Procs, id \in CachedDefs : cache[p][id].left > 0
    /\ cache' = [p \in Procs |-> [id \in CachedDefs |->
                    [cache[p][id] EXCEPT !.left = IF @ > 0 THEN @ - 1 ELSE 0]]]
    /\ UNCHANGED <<bound, tables, ttl, reading, saving>>

----------------------------------------------------------------------------
\* Instances, steps, events

CreateInstance(wf) ==
    /\ wf \in DOMAIN mem.defs \cap bound.defs      \* Start reads the definition first
    /\ mem.nextInst <= bound.inst
    /\ Call("CreateInstance", P!CreateInstance(pg, wf), Q!CreateInstance(sq, wf),
            M!CreateInstance(mem, wf), FALSE)
    /\ UNCHANGED caches

UpdateInstanceStatus(i, s) ==
    /\ Call("UpdateInstanceStatus", P!UpdateInstanceStatus(pg, i, s),
            Q!UpdateInstanceStatus(sq, i, s), M!UpdateInstanceStatus(mem, i, s),
            ~InstanceEverywhere(i))
    /\ UNCHANGED caches

LogEvent(i, type) ==
    /\ mem.nextEvent <= bound.events
    /\ Call("LogEvent", P!LogEvent(pg, i, type), Q!LogEvent(sq, i, type),
            M!LogEvent(mem, i, type), ~InstanceEverywhere(i))
    /\ UNCHANGED caches

\* The engine creates a step of a name once in an instance (StepsCreatedOnce).
CreateStep(i, r) ==
    /\ mem.nextStep <= bound.steps /\ InstanceEverywhere(i)
    /\ ~\E k \in Of(mem.steps, i) : mem.steps[k].name = r.name
    /\ Call("CreateStep", P!CreateStep(pg, i, r.name, r.type), Q!CreateStep(sq, i, r.name, r.type),
            M!CreateStep(mem, i, r.name, r.type), FALSE)
    /\ UNCHANGED caches

UpdateStep(k, s) ==
    /\ s = "failed" /\ k \in DOMAIN mem.steps => mem.steps[k].retry < bound.retry
    /\ Call("UpdateStep", P!UpdateStep(pg, k, s), Q!UpdateStep(sq, k, s), M!UpdateStep(mem, k, s),
            ~StepEverywhere(k))
    /\ UNCHANGED caches

\* executeHuman lets a step wait that has no decision.
UpdateStepStatus(k, s) ==
    /\ M!GetHumanDecision(mem, k) = {}
    /\ Call("UpdateStepStatus", P!UpdateStepStatus(pg, k, s), Q!UpdateStepStatus(sq, k, s),
            M!UpdateStepStatus(mem, k, s), ~StepEverywhere(k))
    /\ UNCHANGED caches

UpdateStepCompensationRetry(k, n) ==
    /\ Call("UpdateStepCompensationRetry", P!UpdateStepCompensationRetry(pg, k, n, "compensation"),
            Q!UpdateStepCompensationRetry(sq, k, n, "compensation"),
            M!UpdateStepCompensationRetry(mem, k, n, "compensation"), ~StepEverywhere(k))
    /\ UNCHANGED caches

EnqueueStep(k) ==
    /\ StepEverywhere(k) /\ Len(sq.queue) < bound.queue
    /\ LET i == mem.steps[k].inst
       IN  Call("EnqueueStep", P!EnqueueStep(pg, i, k), Q!EnqueueStep(sq, i, k),
                M!EnqueueStep(mem, i, k), FALSE)
    /\ UNCHANGED caches

\* MakeHumanDecision writes the decision, the status of the step, an event and the status
\* of the instance.  handleStepSuccess, which goes on with what follows the step, is in
\* module Engine.
DecisionRequest(i, by, v) ==
    LET made(d, K, create(_, _, _, _, _), status(_, _, _), log(_, _, _), update(_, _, _)) ==
            LET k  == CHOOSE x \in K : TRUE
                r  == create(d, i, k, by, v)
                d1 == log(status(r.db, k, v).db, i, "step_completed").db
            IN  HandleHumanDecision(d, K, r,
                    IF v = "rejected" THEN update(d1, i, "aborted")
                    ELSE IF d1.inst[i].status = "pending" THEN update(d1, i, "running")
                    ELSE Ok(d1))
    IN  /\ mem.nextHuman <= bound.events
        /\ Request("CreateHumanDecision",
             made(pg, P!GetHumanDecisionStepByInstanceID(pg, i), P!CreateHumanDecision,
                  P!UpdateStepStatus, P!LogEvent, P!UpdateInstanceStatus),
             made(sq, Q!GetHumanDecisionStepByInstanceID(sq, i), Q!CreateHumanDecision,
                  Q!UpdateStepStatus, Q!LogEvent, Q!UpdateInstanceStatus),
             made(mem, M!GetHumanDecisionStepByInstanceID(mem, i), M!CreateHumanDecision,
                  M!UpdateStepStatus, M!LogEvent, M!UpdateInstanceStatus),
             FALSE)
        /\ UNCHANGED caches

----------------------------------------------------------------------------
\* Joins, cancel requests, dead letters, cleanup

\* A fork creates the join state before its branches report to it.
CreateJoinState(i, waiting, strategy) ==
    /\ InstanceEverywhere(i)
    /\ Call("CreateJoinState", P!CreateJoinState(pg, i, waiting, strategy),
            Q!CreateJoinState(sq, i, waiting, strategy), M!CreateJoinState(mem, i, waiting, strategy),
            i \in DOMAIN mem.join)
    /\ UNCHANGED caches

UpdateJoinState(i, step, success) ==
    /\ i \in DOMAIN mem.join
    /\ Call("UpdateJoinState", P!UpdateJoinState(pg, i, step, success),
            Q!UpdateJoinState(sq, i, step, success), M!UpdateJoinState(mem, i, step, success), FALSE)
    /\ UNCHANGED caches

\* handleStepSuccess adds a step only after it has looked for it in the list.
AddToJoinWaitFor(i, step) ==
    /\ i \in DOMAIN mem.join /\ ~\E n \in DOMAIN mem.join[i].waiting : mem.join[i].waiting[n] = step
    /\ Len(mem.join[i].waiting) < 3
    /\ Call("AddToJoinWaitFor", P!AddToJoinWaitFor(pg, i, step), Q!AddToJoinWaitFor(sq, i, step),
            M!AddToJoinWaitFor(mem, i, step), FALSE)
    /\ UNCHANGED caches

ReplaceInJoinWaitFor(i, virtual, real) ==
    /\ i \in DOMAIN mem.join
    /\ Len(mem.join[i].waiting) < 3
    /\ Call("ReplaceInJoinWaitFor", P!ReplaceInJoinWaitFor(pg, i, virtual, real),
            Q!ReplaceInJoinWaitFor(sq, i, virtual, real),
            M!ReplaceInJoinWaitFor(mem, i, virtual, real), FALSE)
    /\ UNCHANGED caches

\* A second request is an error on Postgres, replaces the first on SQLite and changes
\* nothing in memory.
CancelRequest(i, type, reason) ==
    LET p == P!CreateCancelRequest(pg, i, type)
        q == Q!CreateCancelRequest(sq, i, type)
        m == M!CreateCancelRequest(mem, i, type)
    IN  /\ mem.nextEvent <= bound.events
        /\ Request("CreateCancelRequest",
             HandleCancelWorkflow(pg, i, reason, p, P!LogEvent(p.db, i, type)),
             HandleCancelWorkflow(sq, i, reason, q, Q!LogEvent(q.db, i, type)),
             HandleCancelWorkflow(mem, i, reason, m, M!LogEvent(m.db, i, type)),
             i \in DOMAIN mem.cancel \/ ~InstanceEverywhere(i))
        /\ UNCHANGED caches

DeleteCancelRequest(i) ==
    /\ Call("DeleteCancelRequest", P!DeleteCancelRequest(pg, i), Q!DeleteCancelRequest(sq, i),
            M!DeleteCancelRequest(mem, i), FALSE)
    /\ UNCHANGED caches

CreateDeadLetterRecord(k) ==
    /\ StepEverywhere(k) /\ mem.nextDlq <= bound.dlq
    /\ LET i == mem.steps[k].inst
       IN  Call("CreateDeadLetterRecord", P!CreateDeadLetterRecord(pg, i, k),
                Q!CreateDeadLetterRecord(sq, i, k), M!CreateDeadLetterRecord(mem, i, k), FALSE)
    /\ UNCHANGED caches

\* A dead letter that is gone: 204 on Postgres, 500 on SQLite, 404 in memory.
RequeueRequest(id) ==
    /\ Len(sq.queue) < bound.queue
    /\ Request("RequeueDeadLetter", HandleRequeue(P!RequeueDeadLetter(pg, id)),
               HandleRequeue(Q!RequeueDeadLetter(sq, id)),
               HandleRequeue(M!RequeueDeadLetter(mem, id)),
               \/ id \notin DOMAIN pg.dlq \cap DOMAIN sq.dlq \cap DOMAIN mem.dlq
               \/ ~StepEverywhere(mem.dlq[id].step))
    /\ UNCHANGED caches

PauseActiveStepsAndClearQueue(i) ==
    /\ Call("PauseActiveStepsAndClearQueue", P!PauseActiveStepsAndClearQueue(pg, i),
            Q!PauseActiveStepsAndClearQueue(sq, i), M!PauseActiveStepsAndClearQueue(mem, i), FALSE)
    /\ UNCHANGED caches

CleanupOldWorkflows(days) ==
    /\ Request("CleanupOldWorkflows",
               HandleCleanupWorkflows(pg, days, P!CleanupOldWorkflows(pg)),
               HandleCleanupWorkflows(sq, days, Q!CleanupOldWorkflows(sq)),
               HandleCleanupWorkflows(mem, days, M!CleanupOldWorkflows(mem)), FALSE)
    /\ UNCHANGED caches

\* The time after which a cleanup takes a row passes.
Aged(d) ==
    [d EXCEPT !.inst = [i \in DOMAIN @ |->
        [@[i] EXCEPT !.updated = "old", !.completed = IF @ = "null" THEN @ ELSE "old"]]]
DaysPass ==
    /\ "CleanupOldWorkflows" \in bound.calls
    /\ pg' = Aged(pg) /\ sq' = Aged(sq) /\ mem' = Aged(mem)
    /\ UNCHANGED <<bound, last, caches>>

----------------------------------------------------------------------------

Definitions ==
    \/ \E p \in Procs, id \in DOMAIN Defs, g \in 1..MaxGraph : SaveWorkflowDefinition(p, id, g)
    \/ \E p \in Procs, id \in CachedDefs :
         InvalidateDefinitionCache(p, id) \/ ReadDefinition(p, id)
    \/ \E p \in Procs : \E r \in reading[p] : CacheDefinition(p, r)
    \/ \E p \in Procs, t \in {0, TTL} : SetDefinitionCacheTTL(p, t)
    \/ Tick
    \/ \E wf \in DOMAIN Defs : CreateInstance(wf)

OnInstance(i) ==
    \/ \E s \in bound.statuses : UpdateInstanceStatus(i, s)
    \/ LogEvent(i, "event")
    \/ \E r \in bound.rows : CreateStep(i, r)
    \/ \E by \in {"u1", "u2"}, v \in {"confirmed", "rejected"} : DecisionRequest(i, by, v)
    \/ \E strategy \in {"all", "any"} : CreateJoinState(i, <<"a", "v">>, strategy)
    \/ \E n \in {"a", "c"}, success \in BOOLEAN : UpdateJoinState(i, n, success)
    \/ AddToJoinWaitFor(i, "c") \/ ReplaceInJoinWaitFor(i, "v", "c")
    \/ \E type \in {"cancel", "abort"}, reason \in {"", "r"} : CancelRequest(i, type, reason)
    \/ DeleteCancelRequest(i) \/ PauseActiveStepsAndClearQueue(i)

OnStep(k) ==
    \/ \E s \in bound.stepStatuses : UpdateStep(k, s)
    \/ UpdateStepStatus(k, "waiting_decision")
    \/ UpdateStepCompensationRetry(k, 1)
    \/ EnqueueStep(k) \/ CreateDeadLetterRecord(k)

Next ==
    \/ Definitions
    \/ \E i \in Inst : OnInstance(i)
    \/ \E k \in Steps : OnStep(k)
    \/ \E id \in 1..mem.nextDlq - 1 : RequeueRequest(id)
    \/ \E days \in {0, 30} : CleanupOldWorkflows(days)
    \/ DaysPass

Spec == Init /\ [][Next]_vars

\* A call that has begun goes on, and time passes.
Fairness ==
    /\ WF_vars(Tick)
    /\ \A p \in Procs, id \in CachedDefs :
         /\ WF_vars(InvalidateDefinitionCache(p, id))
         /\ \A g \in 1..MaxGraph : WF_vars(CacheDefinition(p, [id |-> id, graph |-> g]))

FairSpec == Spec /\ Fairness
============================================================================
