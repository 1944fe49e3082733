------------------------------- MODULE Tables -------------------------------
(***************************************************************************)
(* The tables behind the Store interface, as the methods of the three      *)
(* implementations read and change them (modules PostgresStore,            *)
(* SqliteStore and MemoryStore).  Every method is an operator from the     *)
(* content d of the tables to what it returns.                             *)
(*                                                                         *)
(* A table with a key is a function whose domain is the keys in use, ids   *)
(* are given out in the order of created_at, and a timestamp that is       *)
(* compared with the age limit of a cleanup is "null", "new" or "old".     *)
(* Inputs, outputs and error texts are left out.                           *)
(***************************************************************************)
EXTENDS Integers, SequencesExt

\* What a method that writes leaves in the tables and returns.
Ok(d)      == [db |-> d, err |-> "nil"]
Failed(d)  == [db |-> d, err |-> "error"]
Missing(d) == [db |-> d, err |-> "not found"]     \* ErrEntityNotFound

NoTables ==
    [defs   |-> <<>>,    \* id -> [name, version, graph, created]
     inst   |-> <<>>,    \* id -> [wf, status, started, completed, updated]
     steps  |-> <<>>,    \* id -> [inst, name, type, status, retry, comp, started, completed]
     queue  |-> <<>>,    \* [inst, step], in the order of their ids
     events |-> <<>>,    \* id -> [inst, type]
     index  |-> {},      \* the instances eventsByInstance has (memory only)
     join   |-> <<>>,    \* instance -> [waiting, completed, failed, strategy, ready]
     cancel |-> <<>>,    \* instance -> [inst, type]
     human  |-> <<>>,    \* id -> [inst, step, by, decision]
     dlq    |-> <<>>,    \* id -> [inst, step]
     nextInst |-> 1, nextStep |-> 1, nextEvent |-> 1, nextHuman |-> 1, nextDlq |-> 1]

\* The row with a key, as a set that is empty when there is none.
Row(table, id)       == {table[k] : k \in DOMAIN table \cap {id}}
With(table, id, row) == [k \in DOMAIN table \cup {id} |-> IF k = id THEN row ELSE table[k]]
Without(table, ids)  == [k \in DOMAIN table \ ids |-> table[k]]
\* The rows that belong to none of the instances I.
NotOf(table, I) == [k \in {x \in DOMAIN table : table[x].inst \notin I} |-> table[k]]
\* The ids of the rows of instance i.
Of(table, i) == {k \in DOMAIN table : table[k].inst = i}

\* Those of its steps that have not ended.
ActiveOf(d, i) ==
    {k \in Of(d.steps, i) : d.steps[k].status \in {"pending", "running", "waiting_decision"}}

Ascending(S)  == SetToSortSeq(S, <)
Descending(S) == SetToSortSeq(S, >)

\* LIMIT limit OFFSET offset
Limited(s, offset, limit) == SubSeq(s, offset + 1, Min({offset + limit, Len(s)}))

----------------------------------------------------------------------------
\* Rows

NewInstance(wf) ==
    [wf |-> wf, status |-> "pending", started |-> FALSE, completed |-> "null", updated |-> "new"]

\* Mutant: the first end of an instance counts.
InstanceEndedOnce(row, status) ==
    [row EXCEPT !.status = status, !.updated = "new", !.started = @ \/ status = "running",
                !.completed = IF status \in {"completed", "failed", "cancelled"} /\ @ = "null"
                              THEN "new" ELSE @]
InstanceWithStatus(row, status) ==
    [row EXCEPT !.status = status, !.updated = "new", !.started = @ \/ status = "running",
                !.completed = IF status \in {"completed", "failed", "cancelled"}
                              THEN "new" ELSE @]

NewStep(i, name, type) ==
    [inst |-> i, name |-> name, type |-> type, status |-> "pending", retry |-> 0, comp |-> 0,
     started |-> FALSE, completed |-> FALSE]

\* UpdateStep, where `ends' are the statuses that set completed_at.
StepWithStatus(row, status, ends) ==
    [row EXCEPT !.status = status, !.completed = @ \/ status \in ends,
                !.started = @ \/ status = "running",
                !.retry = IF status = "failed" THEN @ + 1 ELSE @]

Restarted(row) ==
    [row EXCEPT !.status = "pending", !.retry = 0, !.comp = 0, !.started = FALSE,
                !.completed = FALSE]

NewJoinState(waiting, strategy) ==
    [waiting |-> waiting, completed |-> {}, failed |-> {}, strategy |-> strategy,
     ready |-> FALSE]

ReadyWith(js) ==     \* checkJoinReady
    IF js.strategy = "any" THEN js.completed \cup js.failed # {}
    ELSE Cardinality(js.completed) + Cardinality(js.failed) >= Len(js.waiting)

Checked(js) == [js EXCEPT !.ready = ReadyWith(js)]

\* The first occurrence of the virtual step becomes the real one; without one the real
\* step is appended.
ReplacedIn(waiting, virtual, real) ==
    LET k == SelectInSeq(waiting, LAMBDA x : x = virtual)
    IN  IF k = 0 THEN Append(waiting, real) ELSE [waiting EXCEPT ![k] = real]

\* The lists after the status of the real step was looked up.
Accounted(js, real, status) ==
    LET new == real \notin js.completed \cup js.failed
    IN  [js EXCEPT
            !.completed = IF new /\ status = "completed" THEN @ \cup {real} ELSE @,
            !.failed = IF new /\ status \in {"failed", "rolled_back"} THEN @ \cup {real} ELSE @]

\* Postgres and memory move the step from one list to the other; SQLite only adds it.
MovedTo(js, step, success) ==
    IF success THEN [js EXCEPT !.completed = @ \cup {step}, !.failed = @ \ {step}]
               ELSE [js EXCEPT !.failed = @ \cup {step}, !.completed = @ \ {step}]
AddedTo(js, step, success) ==
    IF success THEN [js EXCEPT !.completed = @ \cup {step}]
               ELSE [js EXCEPT !.failed = @ \cup {step}]

\* The types of the events of an instance, oldest first.
EventsOf(d, i) ==
    LET ids == Ascending(Of(d.events, i)) IN [n \in DOMAIN ids |-> d.events[ids[n]].type]

----------------------------------------------------------------------------
\* Counts

InStatus(d, S) == {i \in DOMAIN d.inst : d.inst[i].status \in S}

SummaryOf(d, active) ==
    [total     |-> Cardinality(DOMAIN d.inst),
     completed |-> Cardinality(InStatus(d, {"completed"})),
     failed    |-> Cardinality(InStatus(d, {"failed"})),
     running   |-> Cardinality(InStatus(d, {"running"})),
     pending   |-> Cardinality(InStatus(d, {"pending"})),
     active    |-> Cardinality(InStatus(d, active))]

StatsOf(d, w) ==
    LET n(S) == Cardinality({i \in InStatus(d, S) : d.inst[i].wf = w})
    IN  [wf |-> w, total |-> Cardinality({i \in DOMAIN d.inst : d.inst[i].wf = w}),
         completed |-> n({"completed"}), failed |-> n({"failed"}), running |-> n({"running"})]

\* A row of GetActiveInstances, without its current step.
ActiveRow(d, i) ==
    LET n(s) == Cardinality({k \in Of(d.steps, i) : d.steps[k].status = s})
    IN  [id |-> i, status |-> d.inst[i].status, total |-> Cardinality(Of(d.steps, i)),
         completed |-> n("completed"), rolledBack |-> n("rolled_back")]
============================================================================
