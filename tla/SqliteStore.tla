---------------------------- MODULE SqliteStore ----------------------------
(***************************************************************************)
(* The methods of SQLiteStore (sqlite_store.go) on the schema of           *)
(* migrations_sqlite/, which has no foreign keys.  The statements of the   *)
(* join-state methods are taken as one step here and one by one in module  *)
(* Branches.                                                               *)
(***************************************************************************)
EXTENDS Tables

\* ON CONFLICT (name, version) DO UPDATE; the id of the argument is kept either way.
SaveWorkflowDefinition(d, id, name, version, graph) ==
    LET same == {x \in DOMAIN d.defs : d.defs[x].name = name /\ d.defs[x].version = version}
    IN  IF same # {}
        THEN Ok([d EXCEPT !.defs = [x \in DOMAIN @ |->
                    IF x \in same THEN [@[x] EXCEPT !.graph = graph] ELSE @[x]]])
        ELSE IF id \in DOMAIN d.defs THEN Failed(d)
        ELSE Ok([d EXCEPT !.defs = With(@, id, [name |-> name, version |-> version,
                    graph |-> graph, created |-> Cardinality(DOMAIN d.defs)])])
GetWorkflowDefinition(d, id) == Row(d.defs, id)
GetWorkflowDefinitions(d) ==      \* ORDER BY created_at DESC
    SetToSortSeq(DOMAIN d.defs, LAMBDA x, y : d.defs[x].created > d.defs[y].created)

CreateInstance(d, wf) ==
    Ok([d EXCEPT !.inst = With(@, d.nextInst, NewInstance(wf)), !.nextInst = @ + 1])
UpdateInstanceStatus(d, i, status) ==
    Ok(IF i \in DOMAIN d.inst THEN [d EXCEPT !.inst[i] = InstanceWithStatus(@, status)] ELSE d)
GetInstance(d, i) == Row(d.inst, i)
GetWorkflowInstances(d, wf) == Ascending({i \in DOMAIN d.inst : d.inst[i].wf = wf})
GetAllWorkflowInstances(d)  == Ascending(DOMAIN d.inst)
\* The pages are ordered by created_at DESC, the lists by id.
GetWorkflowInstancesPaginated(d, wf, offset, limit) ==
    Limited(Descending({i \in DOMAIN d.inst : d.inst[i].wf = wf}), offset, limit)
GetAllWorkflowInstancesPaginated(d, offset, limit) ==
    Limited(Descending(DOMAIN d.inst), offset, limit)

CreateStep(d, i, name, type) ==
    Ok([d EXCEPT !.steps = With(@, d.nextStep, NewStep(i, name, type)), !.nextStep = @ + 1])
UpdateStep(d, k, status) ==
    Ok(IF k \in DOMAIN d.steps
       THEN [d EXCEPT !.steps[k] = StepWithStatus(@, status,
                {"completed", "failed", "skipped", "rolled_back"})]
       ELSE d)
UpdateStepStatus(d, k, status) ==
    Ok(IF k \in DOMAIN d.steps THEN [d EXCEPT !.steps[k].status = status] ELSE d)
UpdateStepCompensationRetry(d, k, count, status) ==
    Ok(IF k \in DOMAIN d.steps
       THEN [d EXCEPT !.steps[k].comp = count, !.steps[k].status = status] ELSE d)
GetStepsByInstance(d, i) ==
    LET ids == Ascending(Of(d.steps, i)) IN [n \in DOMAIN ids |-> d.steps[ids[n]]]
GetWorkflowSteps(d, i) == GetStepsByInstance(d, i)
\* The output of an active row is NULL, which Scan refuses.
GetActiveStepsForUpdate(d, i) == IF ActiveOf(d, i) = {} THEN {<<>>} ELSE {}
GetStepByID(d, k) == Row(d.steps, k)
GetHumanDecisionStepByInstanceID(d, i) ==
    LET H == {k \in Of(d.steps, i) : d.steps[k].type = "human"}
    IN  {k \in H : \A h \in H : h <= k}

EnqueueStep(d, i, k) == Ok([d EXCEPT !.queue = Append(@, [inst |-> i, step |-> k])])

LogEvent(d, i, type) ==
    Ok([d EXCEPT !.events = With(@, d.nextEvent, [inst |-> i, type |-> type]),
                 !.nextEvent = @ + 1])
GetWorkflowEvents(d, i) == EventsOf(d, i)

CreateJoinState(d, i, waiting, strategy) ==      \* PRIMARY KEY (instance_id, join_step_name)
    IF i \in DOMAIN d.join THEN Failed(d)
    ELSE Ok([d EXCEPT !.join = With(@, i, NewJoinState(waiting, strategy))])
\* Mutant: the step is not counted when it failed.
UpdateJoinStateOnSuccess(d, i, step, success) ==
    Ok(IF success THEN [d EXCEPT !.join[i] = Checked(AddedTo(@, step, success))] ELSE d)
\* A missing row is created with the step as the only one to wait for.
UpdateJoinState(d, i, step, success) ==
    LET js == IF i \in DOMAIN d.join THEN d.join[i] ELSE NewJoinState(<<step>>, "all")
    IN  Ok([d EXCEPT !.join = With(@, i, Checked(AddedTo(js, step, success)))])
GetJoinState(d, i) == Row(d.join, i)
AddToJoinWaitFor(d, i, step) ==
    IF i \notin DOMAIN d.join THEN CreateJoinState(d, i, <<step>>, "")
    ELSE Ok([d EXCEPT !.join[i] = Checked([@ EXCEPT !.waiting = Append(@, step)])])
ReplaceInJoinWaitFor(d, i, virtual, real) ==
    IF i \notin DOMAIN d.join THEN CreateJoinState(d, i, <<real>>, "all")
    ELSE Ok([d EXCEPT !.join[i] =
                Checked([@ EXCEPT !.waiting = ReplacedIn(@, virtual, real)])])

CreateCancelRequest(d, i, type) ==               \* INSERT OR REPLACE
    Ok([d EXCEPT !.cancel = With(@, i, [inst |-> i, type |-> type])])
GetCancelRequest(d, i) == Row(d.cancel, i)
DeleteCancelRequest(d, i) == Ok([d EXCEPT !.cancel = Without(@, {i})])

CreateHumanDecision(d, i, k, by, decision) ==
    Ok([d EXCEPT !.human = With(@, d.nextHuman, [inst |-> i, step |-> k, by |-> by,
                                                 decision |-> decision]),
                 !.nextHuman = @ + 1])
GetHumanDecision(d, k) ==
    {d.human[h].decision : h \in {x \in DOMAIN d.human : d.human[x].step = k}}

CreateDeadLetterRecord(d, i, k) ==
    Ok([d EXCEPT !.dlq = With(@, d.nextDlq, [inst |-> i, step |-> k]), !.nextDlq = @ + 1])
ListDeadLetters(d, offset, limit) == Limited(Descending(DOMAIN d.dlq), offset, limit)
GetDeadLetterByID(d, id) == Row(d.dlq, id)
RequeueDeadLetter(d, id) ==
    LET rec == d.dlq[id]
    IN  IF id \notin DOMAIN d.dlq THEN Failed(d)
        ELSE Ok([d EXCEPT
               !.steps = [k \in DOMAIN @ |-> IF k = rec.step THEN Restarted(@[k]) ELSE @[k]],
               !.queue = Append(@, [inst |-> rec.inst, step |-> rec.step]),
               !.inst = [i \in DOMAIN @ |->
                    IF i = rec.inst /\ @[i].status \in {"failed", "dlq"}
                    THEN [@[i] EXCEPT !.status = "running"] ELSE @[i]],
               !.dlq = Without(@, {id})])
PauseActiveStepsAndClearQueue(d, i) ==
    Ok([d EXCEPT
         !.steps = [k \in DOMAIN @ |->
            IF @[k].inst = i /\ @[k].status \in {"running", "pending", "compensation"}
            THEN [@[k] EXCEPT !.status = "paused"] ELSE @[k]],
         !.queue = SelectSeq(@, LAMBDA q : q.inst # i)])

\* Whatever was not touched since the cutoff goes, in any status.
CleanupOldWorkflows(d) ==
    LET I == {i \in DOMAIN d.inst : d.inst[i].updated = "old"}
    IN  [d EXCEPT !.inst = Without(@, I), !.steps = NotOf(@, I), !.events = NotOf(@, I)]

\* SUM over no rows is NULL, which Scan refuses.
GetSummaryStats(d) ==
    IF DOMAIN d.inst = {} THEN {} ELSE {SummaryOf(d, {"running", "pending"})}
GetActiveInstances(d) ==
    LET ids == Descending(InStatus(d, {"running", "pending", "dlq"}))
    IN  [n \in DOMAIN ids |-> ActiveRow(d, ids[n])]
GetWorkflowStats(d) == {StatsOf(d, w) : w \in DOMAIN d.defs}
============================================================================
