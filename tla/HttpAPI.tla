------------------------------ MODULE HttpAPI ------------------------------
(***************************************************************************)
(* The HTTP handlers of api/ and plugins/api/: the store's answer becomes  *)
(* a status code and a body.  Ids that do not parse and the user that is   *)
(* not known (400, 404) are left out.                                      *)
(***************************************************************************)
EXTENDS Integers

\* page and page_size of the query; 0 stands for a value that is missing or no number.
PageRequest(page, size) ==
    LET p == IF page > 0 THEN page ELSE 1
        s == IF size \in 1..1000 THEN size ELSE 20
    IN  [offset |-> (p - 1) * s, limit |-> s]

\* GET of one entity, and of something that belongs to it.
Answer(entity, body) ==
    IF entity = {} THEN [code |-> 404, body |-> {}] ELSE [code |-> 200, body |-> {body}]

HandleGetWorkflowDefinition(row)       == Answer(row, row)
HandleGetWorkflowInstances(def, page)  == Answer(def, page)
HandleGetWorkflowInstance(row)         == Answer(row, row)
HandleGetWorkflowSteps(inst, steps)    == Answer(inst, steps)
HandleGetWorkflowEvents(inst, events)  == Answer(inst, events)
HandleGet(row)                         == Answer(row, row)          \* of a dead letter
\* 500 when the store fails
HandleGetSummaryStats(stats) == [code |-> IF stats = {} THEN 500 ELSE 200, body |-> stats]

\* POST: the code for the error the store returned through the engine.
Posted(r) ==
    [db |-> r.db, code |-> CASE r.err = "nil" -> 204 [] r.err = "not found" -> 404
                             [] OTHER -> 500]
Refused(d, code) == [db |-> d, code |-> code]

HandleRequeue(requeued) == Posted(requeued)

\* CancelWorkflow and AbortWorkflow: `created' is what CreateCancelRequest returns, and
\* `logged' what LogEvent returns after it.
HandleCancelWorkflow(d, i, reason, created, logged) ==
    CASE reason = ""           -> Refused(d, 400)
      [] reason # "" /\ i \notin DOMAIN d.inst -> Refused(d, 404)
      [] reason # "" /\ i \in DOMAIN d.inst
           /\ d.inst[i].status \in {"completed", "failed", "cancelled", "aborted"} -> Refused(d, 409)
      [] OTHER -> Posted(IF created.err = "nil" THEN logged ELSE created)

\* The newest human step K of the instance gets the decision; MakeHumanDecision looks at its
\* status once more and finds what the handler found.  `created' is what CreateHumanDecision
\* returns, `decided' what the statements after it leave.
HandleHumanDecision(d, K, created, decided) ==
    CASE K = {} -> Refused(d, 404)
      [] \E k \in K : d.steps[k].status # "waiting_decision" -> Refused(d, 409)
      [] OTHER -> Posted(IF created.err = "nil" THEN decided ELSE created)

HandleCleanupWorkflows(d, days, cleaned) ==
    IF days <= 0 THEN Refused(d, 400) ELSE [db |-> cleaned, code |-> 200]
============================================================================
