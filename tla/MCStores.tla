------------------------------ MODULE MCStores ------------------------------
\* Instances of StoreAPI for TLC.
EXTENDS StoreProperties

MCDefs == "d1" :> [name |-> 1, version |-> 1] @@ "d2" :> [name |-> 1, version |-> 2]

Task  == [name |-> "a", type |-> "task"]
Join  == [name |-> "c", type |-> "join"]
Human == [name |-> "h", type |-> "human"]

Final == {"completed", "failed", "cancelled", "aborted", "dlq"}

\* Methods whose tables depend on each other are called together.
Scenario(calls) ==
    [calls |-> calls, defs |-> {"d1"}, inst |-> 1, steps |-> 2, retry |-> 1, events |-> 1,
     queue |-> 1, dlq |-> 1, rows |-> {Task, Join, Human},
     statuses |-> Final \cup {"running", "cancelling"},
     stepStatuses |-> {"running", "completed", "failed", "skipped", "rolled_back",
                       "compensation"}]

MCScenarios ==
    { Scenario({"SaveWorkflowDefinition", "GetWorkflowDefinition", "SetDefinitionCacheTTL"}),
      [Scenario({"SaveWorkflowDefinition", "CreateInstance", "UpdateInstanceStatus"})
          EXCEPT !.inst = 3, !.defs = {"d1", "d2"}, !.statuses = {"dlq"}],
      [Scenario({"CreateInstance", "UpdateInstanceStatus", "LogEvent", "CleanupOldWorkflows"})
          EXCEPT !.inst = 2, !.statuses = {"running", "completed", "aborted"}],
      [Scenario({"CreateInstance", "CreateCancelRequest", "DeleteCancelRequest",
                 "UpdateInstanceStatus"}) EXCEPT !.events = 2],
      Scenario({"CreateInstance", "CreateStep", "UpdateStep", "UpdateStepCompensationRetry"}),
      [Scenario({"CreateInstance", "CreateStep", "UpdateStepStatus", "CreateHumanDecision"})
          EXCEPT !.events = 3, !.rows = {Task, Human}],
      [Scenario({"CreateInstance", "CreateStep", "UpdateStep", "CreateJoinState",
                 "UpdateJoinState", "AddToJoinWaitFor", "ReplaceInJoinWaitFor"})
          EXCEPT !.rows = {Task, Join}, !.stepStatuses = {"completed", "failed"}],
      [Scenario({"CreateInstance", "CreateStep", "UpdateStep", "EnqueueStep",
                 "UpdateInstanceStatus", "CreateDeadLetterRecord",
                 "PauseActiveStepsAndClearQueue", "RequeueDeadLetter"})
          EXCEPT !.rows = {Task, Join}, !.stepStatuses = {"running", "failed"},
                 !.statuses = {"dlq"}, !.queue = 2],
      [Scenario({"CreateInstance", "CreateStep", "CreateDeadLetterRecord", "RequeueDeadLetter"})
          EXCEPT !.dlq = 3, !.rows = {Task, Join}, !.queue = 3],
      [Scenario({"CreateInstance", "CreateStep", "EnqueueStep", "UpdateInstanceStatus",
                 "CreateDeadLetterRecord", "RequeueDeadLetter", "CreateCancelRequest",
                 "CreateJoinState", "CleanupOldWorkflows"})
          EXCEPT !.rows = {Task}, !.statuses = {"completed", "failed"}, !.steps = 1] }
============================================================================
