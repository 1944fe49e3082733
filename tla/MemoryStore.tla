---------------------------- MODULE MemoryStore ----------------------------
(***************************************************************************)
(* The methods of MemoryStore (memory_store.go).  Each holds the store's   *)
(* mutex from its first to its last line.  A write to a row that does not  *)
(* exist is an error.  That rows and slices are shared with the caller is  *)
(* the subject of modules Store and Engine.                                *)
(***************************************************************************)
EXTENDS Tables

Hangs(d) == [db |-> d, err |-> "hangs"]     \* the mutex is locked twice

\* The key is the id, and the stored row becomes the argument.
SaveWorkflowDefinition(d, id, name, version, graph) ==
    Ok([d EXCEPT !.defs = With(@, id, [name |-> name, version |-> version, graph |-> graph,
            created |-> IF id \in DOMAIN d.defs THEN d.defs[id].created
                        ELSE Cardinality(DOMAIN d.defs)])])
GetWorkflowDefinition(d, id) == Row(d.defs, id)
GetWorkflowDefinitions(d) ==      \* by name, then by version, latest first
    SetToSortSeq(DOMAIN d.defs, LAMBDA x, y :
        IF d.defs[x].name # d.defs[y].name THEN d.defs[x].name < d.defs[y].name
        ELSE d.defs[x].version > d.defs[y].version)

CreateInstance(d, wf) ==
    Ok([d EXCEPT !.inst = With(@, d.nextInst, NewInstance(wf)), !.nextInst = @ + 1])
UpdateInstanceStatus(d, i, status) ==
    IF i \in DOMAIN d.inst THEN Ok([d EXCEPT !.inst[i] = InstanceWithStatus(@, status)])
    ELSE Missing(d)
GetInstance(d, i) == Row(d.inst, i)
GetWorkflowInstances(d, wf) == Descending({i \in DOMAIN d.inst : d.inst[i].wf = wf})
GetAllWorkflowInstances(d)  == Descending(DOMAIN d.inst)
\* Mutant: the page ends one element early.
PageEndsEarly(s, offset, limit) ==
    IF offset >= Len(s) THEN <<>> ELSE SubSeq(s, offset + 1, Min({offset + limit, Len(s) - 1}))
\* instances[offset:end]
Page(s, offset, limit) ==
    IF offset >= Len(s) THEN <<>> ELSE SubSeq(s, offset + 1, Min({offset + limit, Len(s)}))
GetWorkflowInstancesPaginated(d, wf, offset, limit) ==
    Page(GetWorkflowInstances(d, wf), offset, limit)
GetAllWorkflowInstancesPaginated(d, offset, limit) ==
    Page(GetAllWorkflowInstances(d), offset, limit)

CreateStep(d, i, name, type) ==
    Ok([d EXCEPT !.steps = With(@, d.nextStep, NewStep(i, name, type)), !.nextStep = @ + 1])
UpdateStep(d, k, status) ==
    IF k \in DOMAIN d.steps
    THEN Ok([d EXCEPT !.steps[k] = StepWithStatus(@, status, {"completed", "failed", "skipped"})])
    ELSE Missing(d)
UpdateStepStatus(d, k, status) ==
    IF k \in DOMAIN d.steps THEN Ok([d EXCEPT !.steps[k].status = status]) ELSE Missing(d)
UpdateStepCompensationRetry(d, k, count, status) ==
    IF k \in DOMAIN d.steps
    THEN Ok([d EXCEPT !.steps[k].comp = count, !.steps[k].status = status]) ELSE Missing(d)
GetStepsByInstance(d, i) ==
    LET ids == Ascending(Of(d.steps, i)) IN [n \in DOMAIN ids |-> d.steps[ids[n]]]
GetWorkflowSteps(d, i) == GetStepsByInstance(d, i)
GetActiveStepsForUpdate(d, i) == {Descending(ActiveOf(d, i))}
GetStepByID(d, k) == Row(d.steps, k)
GetHumanDecisionStepByInstanceID(d, i) ==
    LET H == {k \in Of(d.steps, i) : d.steps[k].type = "human"}
    IN  {k \in H : \A h \in H : h <= k}

EnqueueStep(d, i, k) == Ok([d EXCEPT !.queue = Append(@, [inst |-> i, step |-> k])])

\* Mutant: only the slice gets the event.
LogEventUnindexed(d, i, type) ==
    Ok([d EXCEPT !.events = With(@, d.nextEvent, [inst |-> i, type |-> type]),
                 !.nextEvent = @ + 1])
\* The events are in one slice, the ids of an instance's events in an index.
LogEvent(d, i, type) ==
    Ok([d EXCEPT !.events = With(@, d.nextEvent, [inst |-> i, type |-> type]),
                 !.index = @ \cup {i}, !.nextEvent = @ + 1])
GetWorkflowEvents(d, i) == IF i \in d.index THEN EventsOf(d, i) ELSE <<>>

CreateJoinState(d, i, waiting, strategy) ==
    Ok(IF i \in DOMAIN d.join THEN d
       ELSE [d EXCEPT !.join = With(@, i, NewJoinState(waiting, strategy))])
UpdateJoinState(d, i, step, success) ==
    IF i \in DOMAIN d.join
    THEN Ok([d EXCEPT !.join[i] = Checked(MovedTo(@, step, success))]) ELSE Missing(d)
GetJoinState(d, i) == Row(d.join, i)
\* CreateJoinState is called with the mutex held.
AddToJoinWaitFor(d, i, step) ==
    IF i \notin DOMAIN d.join THEN Hangs(d)
    ELSE Ok(IF \E n \in DOMAIN d.join[i].waiting : d.join[i].waiting[n] = step THEN d
            ELSE [d EXCEPT !.join[i] = Checked([@ EXCEPT !.waiting = Append(@, step)])])
ReplaceInJoinWaitFor(d, i, virtual, real) ==
    LET K == {k \in Of(d.steps, i) : d.steps[k].name = real}
        status == IF K = {} THEN "none" ELSE d.steps[Min(K)].status
    IN  IF i \notin DOMAIN d.join THEN Hangs(d)
        ELSE Ok([d EXCEPT !.join[i] = Checked(Accounted(
                    [@ EXCEPT !.waiting = ReplacedIn(@, virtual, real)], real, status))])

CreateCancelRequest(d, i, type) ==
    Ok(IF i \in DOMAIN d.cancel THEN d
       ELSE [d EXCEPT !.cancel = With(@, i, [inst |-> i, type |-> type])])
GetCancelRequest(d, i) == Row(d.cancel, i)
DeleteCancelRequest(d, i) == Ok([d EXCEPT !.cancel = Without(@, {i})])

\* humanDecisions is keyed by the step: the last decision stays.
CreateHumanDecision(d, i, k, by, decision) ==
    Ok([d EXCEPT !.human = With(Without(@, {h \in DOMAIN @ : @[h].step = k}), d.nextHuman,
                    [inst |-> i, step |-> k, by |-> by, decision |-> decision]),
                 !.nextHuman = @ + 1])
GetHumanDecision(d, k) ==
    {d.human[h].decision : h \in {x \in DOMAIN d.human : d.human[x].step = k}}

CreateDeadLetterRecord(d, i, k) ==
    Ok([d EXCEPT !.dlq = With(@, d.nextDlq, [inst |-> i, step |-> k]), !.nextDlq = @ + 1])
ListDeadLetters(d, offset, limit) ==
    LET s == Descending(DOMAIN d.dlq)
    IN  SubSeq(s, Min({offset, Len(s)}) + 1, Min({offset + limit, Len(s)}))
GetDeadLetterByID(d, id) == Row(d.dlq, id)
\* Nothing is put in the queue.
RequeueDeadLetter(d, id) ==
    LET rec == d.dlq[id]
    IN  IF id \notin DOMAIN d.dlq \/ rec.step \notin DOMAIN d.steps THEN Missing(d)
        ELSE Ok([d EXCEPT
               !.steps = [k \in DOMAIN @ |->
                    LET row == IF k = rec.step THEN Restarted(@[k]) ELSE @[k]
                    IN  IF row.inst = rec.inst /\ row.type = "join" /\ row.status = "paused"
                        THEN [row EXCEPT !.status = "pending"] ELSE row],
               !.inst = [i \in DOMAIN @ |->
                    IF i = rec.inst /\ @[i].status \in {"failed", "dlq"}
                    THEN [@[i] EXCEPT !.status = "running"] ELSE @[i]],
               !.dlq = Without(@, {id})])
PauseActiveStepsAndClearQueue(d, i) ==
    Ok([d EXCEPT
         !.steps = [k \in DOMAIN @ |-> IF @[k].inst = i /\ @[k].status = "running"
                                       THEN [@[k] EXCEPT !.status = "paused"] ELSE @[k]],
         !.queue = SelectSeq(@, LAMBDA q : q.inst # i)])

\* The queue, the decisions, the dead letters and the slice of events are left as they are.
CleanupOldWorkflows(d) ==
    LET I == {i \in DOMAIN d.inst : d.inst[i].completed = "old"}
    IN  [d EXCEPT !.inst = Without(@, I), !.steps = NotOf(@, I), !.index = @ \ I,
                  !.cancel = Without(@, I), !.join = Without(@, I)]

GetSummaryStats(d) == {SummaryOf(d, {"running", "pending"})}
GetActiveInstances(d) ==
    LET ids == Descending(InStatus(d, {"running", "pending", "dlq"}))
    IN  [n \in DOMAIN ids |-> ActiveRow(d, ids[n])]
\* Only definitions that have instances.
GetWorkflowStats(d) ==
    {StatsOf(d, w) : w \in {x \in DOMAIN d.defs : \E i \in DOMAIN d.inst : d.inst[i].wf = x}}
============================================================================
