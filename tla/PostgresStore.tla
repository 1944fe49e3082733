--------------------------- MODULE PostgresStore ---------------------------
(***************************************************************************)
(* The methods of StoreImpl (store.go) on the schema of migrations/.       *)
(* An UPDATE or DELETE that matches no row is no error; foreign keys and   *)
(* ON DELETE CASCADE are those of the migrations.  The definition cache    *)
(* is in module StoreAPI, the queue's claims and order in module Queue.    *)
(***************************************************************************)
EXTENDS Tables

\* INSERT ... ON CONFLICT (name, version) DO UPDATE SET definition
SaveWorkflowDefinition(d, id, name, version, graph) ==
    LET same == {x \in DOMAIN d.defs : d.defs[x].name = name /\ d.defs[x].version = version}
    IN  IF same # {}
        THEN Ok([d EXCEPT !.defs = [x \in DOMAIN @ |->
                    IF x \in same THEN [@[x] EXCEPT !.graph = graph] ELSE @[x]]])
        ELSE IF id \in DOMAIN d.defs THEN Failed(d)
        ELSE Ok([d EXCEPT !.defs = With(@, id, [name |-> name, version |-> version,
                    graph |-> graph, created |-> Cardinality(DOMAIN d.defs)])])
GetWorkflowDefinition(d, id) == Row(d.defs, id)
GetWorkflowDefinitions(d) ==      \* ORDER BY name, version DESC
    SetToSortSeq(DOMAIN d.defs, LAMBDA x, y :
        \/ d.defs[x].name < d.defs[y].name
        \/ d.defs[x].name = d.defs[y].name /\ d.defs[x].version > d.defs[y].version)

CreateInstance(d, wf) ==
    IF wf \notin DOMAIN d.defs THEN Failed(d)
    ELSE Ok([d EXCEPT !.inst = With(@, d.nextInst, NewInstance(wf)), !.nextInst = @ + 1])
UpdateInstanceStatus(d, i, status) ==
    Ok(IF i \in DOMAIN d.inst THEN [d EXCEPT !.inst[i] = InstanceWithStatus(@, status)] ELSE d)
GetInstance(d, i) == Row(d.inst, i)
GetWorkflowInstances(d, wf) == Descending({i \in DOMAIN d.inst : d.inst[i].wf = wf})
GetAllWorkflowInstances(d)  == Descending(DOMAIN d.inst)
GetWorkflowInstancesPaginated(d, wf, offset, limit) ==
    Limited(GetWorkflowInstances(d, wf), offset, limit)
GetAllWorkflowInstancesPaginated(d, offset, limit) ==
    Limited(GetAllWorkflowInstances(d), offset, limit)

CreateStep(d, i, name, type) ==
    IF i \notin DOMAIN d.inst THEN Failed(d)
    ELSE Ok([d EXCEPT !.steps = With(@, d.nextStep, NewStep(i, name, type)), !.nextStep = @ + 1])
UpdateStep(d, k, status) ==
    Ok(IF k \in DOMAIN d.steps
       THEN [d EXCEPT !.steps[k] = StepWithStatus(@, status, {"completed", "failed", "skipped"})]
       ELSE d)
UpdateStepStatus(d, k, status) ==
    Ok(IF k \in DOMAIN d.steps THEN [d EXCEPT !.steps[k].status = status] ELSE d)
UpdateStepCompensationRetry(d, k, count, status) ==
    Ok(IF k \in DOMAIN d.steps
       THEN [d EXCEPT !.steps[k].comp = count, !.steps[k].status = status] ELSE d)
\* The query leaves out compensation_retry_count.
GetStepsByInstance(d, i) ==
    LET ids == Ascending(Of(d.steps, i))
    IN  [n \in DOMAIN ids |-> [d.steps[ids[n]] EXCEPT !.comp = 0]]
GetWorkflowSteps(d, i) ==
    LET ids == Ascending(Of(d.steps, i)) IN [n \in DOMAIN ids |-> d.steps[ids[n]]]
GetActiveStepsForUpdate(d, i) == {Descending(ActiveOf(d, i))}
GetStepByID(d, k) == Row(d.steps, k)
GetHumanDecisionStepByInstanceID(d, i) ==
    LET H == {k \in Of(d.steps, i) : d.steps[k].type = "human"}
    IN  {k \in H : \A h \in H : h <= k}

EnqueueStep(d, i, k) ==
    IF i \in DOMAIN d.inst /\ k \in DOMAIN d.steps
    THEN Ok([d EXCEPT !.queue = Append(@, [inst |-> i, step |-> k])]) ELSE Failed(d)

LogEvent(d, i, type) ==
    IF i \notin DOMAIN d.inst THEN Failed(d)
    ELSE Ok([d EXCEPT !.events = With(@, d.nextEvent, [inst |-> i, type |-> type]),
                      !.nextEvent = @ + 1])
GetWorkflowEvents(d, i) == EventsOf(d, i)

CreateJoinState(d, i, waiting, strategy) ==
    Ok(IF i \in DOMAIN d.join THEN d
       ELSE [d EXCEPT !.join = With(@, i, NewJoinState(waiting, strategy))])
UpdateJoinState(d, i, step, success) ==
    IF i \in DOMAIN d.join
    THEN Ok([d EXCEPT !.join[i] = Checked(MovedTo(@, step, success))]) ELSE Failed(d)
GetJoinState(d, i) == Row(d.join, i)
AddToJoinWaitFor(d, i, step) ==
    IF i \notin DOMAIN d.join THEN CreateJoinState(d, i, <<step>>, "all")
    ELSE Ok(IF \E n \in DOMAIN d.join[i].waiting : d.join[i].waiting[n] = step THEN d
            ELSE [d EXCEPT !.join[i] = Checked([@ EXCEPT !.waiting = Append(@, step)])])
ReplaceInJoinWaitFor(d, i, virtual, real) ==
    LET K == {k \in Of(d.steps, i) : d.steps[k].name = real}
        status == IF K = {} THEN "none" ELSE d.steps[Max(K)].status
    IN  IF i \notin DOMAIN d.join THEN CreateJoinState(d, i, <<real>>, "all")
        ELSE Ok([d EXCEPT !.join[i] = Checked(Accounted(
                    [@ EXCEPT !.waiting = ReplacedIn(@, virtual, real)], real, status))])

\* ON CONFLICT (instance_id) DO NOTHING RETURNING: a second request has no row to scan.
CreateCancelRequest(d, i, type) ==
    IF i \in DOMAIN d.cancel \/ i \notin DOMAIN d.inst THEN Failed(d)
    ELSE Ok([d EXCEPT !.cancel = With(@, i, [inst |-> i, type |-> type])])
GetCancelRequest(d, i) == Row(d.cancel, i)
DeleteCancelRequest(d, i) == Ok([d EXCEPT !.cancel = Without(@, {i})])

\* UNIQUE (step_id, decided_by)
CreateHumanDecision(d, i, k, by, decision) ==
    IF \E h \in DOMAIN d.human : d.human[h].step = k /\ d.human[h].by = by THEN Failed(d)
    ELSE Ok([d EXCEPT !.human = With(@, d.nextHuman, [inst |-> i, step |-> k, by |-> by,
                                                     decision |-> decision]),
                      !.nextHuman = @ + 1])
\* What GetHumanDecision may return: there is no ORDER BY.
GetHumanDecision(d, k) ==
    {d.human[h].decision : h \in {x \in DOMAIN d.human : d.human[x].step = k}}

CreateDeadLetterRecord(d, i, k) ==
    Ok([d EXCEPT !.dlq = With(@, d.nextDlq, [inst |-> i, step |-> k]), !.nextDlq = @ + 1])
ListDeadLetters(d, offset, limit) == Limited(Descending(DOMAIN d.dlq), offset, limit)
GetDeadLetterByID(d, id) == Row(d.dlq, id)
\* The trigger update_updated_at_column touches the instance.
RequeueDeadLetter(d, id) ==
    LET rec == d.dlq[id]
        unpaused == {k \in Of(d.steps, rec.inst) :
                        d.steps[k].type = "join" /\ d.steps[k].status = "paused"}
    IN  Ok(IF id \notin DOMAIN d.dlq THEN d
           ELSE [d EXCEPT
             !.steps = [k \in DOMAIN @ |->
                CASE k = rec.step   -> Restarted(@[k])
                  [] k # rec.step /\ k \in unpaused -> [@[k] EXCEPT !.status = "pending"]
                  [] OTHER -> @[k]],
             !.queue = Append(@, [inst |-> rec.inst, step |-> rec.step]),
             !.inst[rec.inst] = IF @.status \in {"failed", "dlq"}
                    THEN [@ EXCEPT !.status = "running", !.updated = "new"] ELSE @,
             !.dlq = Without(@, {id})])
PauseActiveStepsAndClearQueue(d, i) ==
    Ok([d EXCEPT
         !.steps = [k \in DOMAIN @ |-> IF @[k].inst = i /\ @[k].status = "running"
                                       THEN [@[k] EXCEPT !.status = "paused"] ELSE @[k]],
         !.queue = SelectSeq(@, LAMBDA q : q.inst # i)])

\* The function cleanup_old_workflows of migration 008; the rows of the other tables
\* go with ON DELETE CASCADE.
CleanupOldWorkflows(d) ==
    LET I == {i \in InStatus(d, {"completed", "failed", "cancelled", "aborted"}) :
                d.inst[i].completed = "old"}
    IN  [d EXCEPT !.inst = Without(@, I), !.steps = NotOf(@, I), !.events = NotOf(@, I),
                  !.join = Without(@, I), !.cancel = Without(@, I), !.human = NotOf(@, I),
                  !.dlq = NotOf(@, I), !.queue = SelectSeq(@, LAMBDA q : q.inst \notin I)]

\* The views active_workflows and workflow_stats.
GetSummaryStats(d) == {SummaryOf(d, {"pending", "running", "dlq"})}
GetActiveInstances(d) ==
    LET ids == Descending({i \in InStatus(d, {"running", "pending", "dlq"}) :
                    d.inst[i].wf \in DOMAIN d.defs})
    IN  [n \in DOMAIN ids |-> ActiveRow(d, ids[n])]
GetWorkflowStats(d) == {StatsOf(d, w) : w \in DOMAIN d.defs}
============================================================================
