---------------------------- MODULE EngineProofs ----------------------------
(***************************************************************************)
(* Theorems about the specification of module Engine: types, the queue and *)
(* the claims of the workers.  Inv of EngineProperties is inductive.  Each *)
(* function of the engine is shown to be harmless in the sense of module   *)
(* StoreProofs (Leads); the actions that change a claim, dequeuing and     *)
(* rolling a transaction back, are treated on their own.                   *)
(***************************************************************************)
EXTENDS EngineProperties, StoreProofs

----------------------------------------------------------------------------
(* Creating steps and joins *)

\* A set of step names, taken in some order, is a sequence of step names.
LEMMA NamesAreSeq ==
    ASSUME NEW S \in SUBSET Steps
    PROVE  SetToSeq(S) \in Seq(Steps)
<1>1. IsFiniteSet(S) BY DefinitionAssumption, FS_Subset
<1>2. Cardinality(S) \in Nat /\ ExistsBijection(1..Cardinality(S), S)
  BY <1>1, FS_CardinalityType
<1>3. \E f \in [1..Cardinality(S) -> S] : IsInjective(f)
  BY <1>2 DEF ExistsBijection, Bijection, Injection, Surjection, IsInjective
<1>4. SetToSeq(S) \in [1..Cardinality(S) -> S] BY <1>3 DEF SetToSeq
<1>5. SetToSeq(S) \in [1..Cardinality(S) -> Steps] BY <1>4
<1>6. QED BY <1>2, <1>5

\* What the type of a definition says of a step.
LEMMA DefTypes ==
    ASSUME NEW n \in Steps
    PROVE  /\ Def[n].next \in Seq(Steps)
           /\ Def[n].parallel \in Seq(Steps)
           /\ Def[n].else \in Steps \cup {NoStep}
           /\ Def[n].onFailure \in Steps \cup {NoStep}
           /\ Def[n].maxRetries \in Nat
           /\ ToSet(Def[n].next) \subseteq Steps
<1>1. Def[n] \in StepDefinition BY DefinitionAssumption
<1>2. Def[n].next \in Seq(Steps) BY <1>1 DEF StepDefinition
<1>3. ToSet(Def[n].next) \subseteq Steps BY <1>2 DEF ToSet
<1>4. QED BY <1>1, <1>2, <1>3 DEF StepDefinition

\* Creating steps and queueing exactly these is harmless.
LEMMA CreateAndEnqueueLeads ==
    ASSUME NEW d, Good(d), NEW i \in Instances, NEW names \in Seq(Steps)
    PROVE  Leads(d, CreateAndEnqueue(d, i, names))
<1> DEFINE e == CreateSteps(d, i, names, "pending")
           b == Len(d.steps)
           n == Len(names)
<1>1. b \in Nat /\ n \in Nat BY FieldTypes, LenProperties DEF Good
<1>2. /\ Leads(d, e) /\ Len(e.steps) = b + n
      /\ \A k \in 1..n : e.steps[b + k].inst = i
  <2>1. "pending" \in StepStatus BY DEF StepStatus
  <2>2. QED BY <2>1, CreateStepsLeads
<1>3. CreateAndEnqueue(d, i, names) = EnqueueRange(e, i, b, n)
  BY DEF CreateAndEnqueue
<1> HIDE DEF e, b, n
<1>4. Good(e) BY <1>2 DEF Leads
<1>5. \A k \in 1..n : b + k \in 1..Len(e.steps) /\ e.steps[b + k].inst = i
  <2>1. \A k \in 1..n : b + k \in 1..(b + n) BY <1>1
  <2>2. QED BY <1>2, <2>1
<1>6. Leads(e, EnqueueRange(e, i, b, n)) BY <1>1, <1>4, <1>5, EnqueueRangeLeads, Zenon
<1>7. QED BY <1>2, <1>3, <1>6, LeadsTrans

\* enqueueNextSteps is harmless.
LEMMA EnqueueNextStepsLeads ==
    ASSUME NEW d, Good(d), NEW i \in Instances, NEW names \in Seq(Steps)
    PROVE  Leads(d, enqueueNextSteps(d, i, names))
BY CreateAndEnqueueLeads, LeadsRefl DEF enqueueNextSteps

\* The join after a fork is a join or none.
LEMMA JoinAfterType ==
    ASSUME NEW f PROVE JoinAfter(f) \in JoinSteps \cup {NoStep}
BY DEF JoinAfter

\* findJoinStepForForkBranch returns a join or none.
LEMMA FindJoinType ==
    ASSUME NEW n PROVE findJoinStepForForkBranch(n) \in JoinSteps \cup {NoStep}
<1>1. \A f : JoinAfter(f) \in JoinSteps \cup {NoStep} BY JoinAfterType
<1>2. QED BY <1>1, Zenon DEF findJoinStepForForkBranch

\* executeFork is harmless.
LEMMA ExecuteForkLeads ==
    ASSUME NEW d, Good(d), NEW i \in Instances, NEW f \in Steps
    PROVE  Leads(d, executeFork(d, i, f))
<1> DEFINE made == CreateAndEnqueue(d, i, Def[f].parallel)
           j == JoinAfter(f)
           w == IF d.waitFor[j] = <<>> THEN Def[f].parallel ELSE d.waitFor[j]
<1>1. executeFork(d, i, f) = IF j = NoStep THEN made ELSE CreateJoinState(made, i, j, w)
  BY DEF executeFork
<1>2. Def[f].parallel \in Seq(Steps) BY DefTypes
<1>3. Leads(d, made) BY <1>2, CreateAndEnqueueLeads
<1>4. Good(made) BY <1>3 DEF Leads
<1>5. j \in JoinSteps \cup {NoStep} BY JoinAfterType
<1>6. Def[f].parallel \in Seq(WaitNames)
  BY <1>2, SeqMonotonic DEF WaitNames
<1> HIDE DEF made, j
<1>7. j \in JoinSteps => w \in Seq(WaitNames) BY <1>6, FieldTypes DEF Good
<1> HIDE DEF w
<1>8. CASE j = NoStep BY <1>1, <1>3, <1>8
<1>9. CASE j # NoStep
  <2>1. Leads(made, CreateJoinState(made, i, j, w))
    BY <1>4, <1>5, <1>7, <1>9, CreateJoinStateLeads
  <2>2. QED BY <1>1, <1>3, <1>9, <2>1, LeadsTrans
<1>10. QED BY <1>8, <1>9

\* Starting the joins that are ready is harmless.
LEMMA CreateReadyJoinsLeads ==
    ASSUME NEW d, Good(d), NEW i \in Instances, NEW J \in SUBSET JoinSteps
    PROVE  Leads(d, createReadyJoins(d, i, J))
<1> DEFINE Ready == {j \in J : /\ d.join[i][j].ready
                               /\ ~hasPendingStepsInParallelBranches(d, i, j)
                               /\ ~HasStep(d, i, j)}
           names == SetToSeq(Ready)
<1>1. createReadyJoins(d, i, J) =
        IF d.inst[i] = "dlq" THEN CreateSteps(d, i, names, "paused")
        ELSE CreateAndEnqueue(d, i, names)
  BY DEF createReadyJoins
<1>2. Ready \in SUBSET Steps
  <2>1. J \subseteq Steps BY DEF JoinSteps
  <2>2. QED BY <2>1
<1> HIDE DEF Ready
<1>3. names \in Seq(Steps) BY <1>2, NamesAreSeq
<1> HIDE DEF names
<1>4. "paused" \in StepStatus BY DEF StepStatus
<1>5. Leads(d, CreateSteps(d, i, names, "paused")) BY <1>3, <1>4, CreateStepsLeads
<1>6. Leads(d, CreateAndEnqueue(d, i, names)) BY <1>3, CreateAndEnqueueLeads
<1>7. QED BY <1>1, <1>5, <1>6

\* Recording an outcome in joins and starting the ready ones is harmless.
LEMMA NotifyJoinsLeads ==
    ASSUME NEW d, Good(d), NEW i \in Instances, NEW J \in SUBSET JoinSteps,
           NEW n \in Steps, NEW success \in BOOLEAN
    PROVE  Leads(d, notifyJoins(d, i, J, n, success))
<1> DEFINE d1 == UpdateJoinStates(d, i, J, n, success)
<1>1. Leads(d, d1) BY UpdateJoinStatesLeads
<1>2. Good(d1) BY <1>1 DEF Leads
<1>3. notifyJoins(d, i, J, n, success) = createReadyJoins(d1, i, J) BY DEF notifyJoins
<1> HIDE DEF d1
<1>4. Leads(d1, createReadyJoins(d1, i, J)) BY <1>2, CreateReadyJoinsLeads
<1>5. QED BY <1>1, <1>3, <1>4, LeadsTrans

\* notifyJoinSteps and notifyJoinStepsForStep are harmless.
LEMMA NotifyJoinStepsLeads ==
    ASSUME NEW d, Good(d), NEW i \in Instances, NEW n \in Steps, NEW success \in BOOLEAN
    PROVE  /\ Leads(d, notifyJoinSteps(d, i, n, success))
           /\ \A j \in JoinSteps : Leads(d, notifyJoinStepsForStep(d, i, j, n, success))
<1> DEFINE J == {j \in JoinSteps : n \in ToSet(d.join[i][j].waiting) \cup ToSet(d.waitFor[j])}
<1>1. J \in SUBSET JoinSteps OBVIOUS
<1>2. notifyJoinSteps(d, i, n, success) = notifyJoins(d, i, J, n, success)
  BY DEF notifyJoinSteps
<1> HIDE DEF J
<1>3. Leads(d, notifyJoins(d, i, J, n, success)) BY <1>1, NotifyJoinsLeads
<1>4. \A j \in JoinSteps : Leads(d, notifyJoinStepsForStep(d, i, j, n, success))
  BY NotifyJoinsLeads DEF notifyJoinStepsForStep
<1>5. QED BY <1>2, <1>3, <1>4

\* Replacing the virtual step of a condition is harmless.
LEMMA ReplaceVirtualStepLeads ==
    ASSUME NEW d, Good(d), NEW i \in Instances, NEW n \in Steps, NEW success \in BOOLEAN
    PROVE  Leads(d, replaceVirtualStep(d, i, n, success))
<1> DEFINE c == findConditionStepInBranch(n)
           j == findJoinStepForForkBranch(n)
           e == ReplaceInJoinWaitFor(d, i, j, Virtual[c], n)
<1>1. replaceVirtualStep(d, i, n, success) =
        IF c = NoStep \/ j = NoStep THEN d ELSE notifyJoinStepsForStep(e, i, j, n, success)
  BY Zenon DEF replaceVirtualStep, replaceVirtualOf
<1>2. j \in JoinSteps \cup {NoStep} BY FindJoinType
<1> HIDE DEF c, j
<1>3. CASE c = NoStep \/ j = NoStep BY <1>1, <1>3, LeadsRefl
<1>4. CASE ~(c = NoStep \/ j = NoStep)
  <2>1. j \in JoinSteps BY <1>2, <1>4
  <2>2. Leads(d, e) BY <2>1, ReplaceInJoinWaitForLeads
  <2>3. Good(e) BY <2>2 DEF Leads
  <2> HIDE DEF e
  <2>4. Leads(e, notifyJoinStepsForStep(e, i, j, n, success)) BY <2>1, <2>3, NotifyJoinStepsLeads
  <2>5. QED BY <1>1, <1>4, <2>2, <2>4, LeadsTrans
<1>5. QED BY <1>3, <1>4

\* Adding a terminal step to a WaitFor list is harmless.
LEMMA AddTerminalStepLeads ==
    ASSUME NEW d, Good(d), NEW i \in Instances, NEW n \in Steps
    PROVE  Leads(d, addTerminalStep(d, i, n))
<1> DEFINE j == findJoinStepForForkBranch(n)
<1>1. \/ addTerminalStep(d, i, n) = d
      \/ j # NoStep /\ addTerminalStep(d, i, n) = CreateJoinState(d, i, j, <<n>>)
      \/ j # NoStep /\ addTerminalStep(d, i, n) = AddToJoinWaitFor(d, i, j, n)
  BY Zenon DEF addTerminalStep, addToWaitFor
<1>2. j \in JoinSteps \cup {NoStep} BY FindJoinType
<1>3. <<n>> \in Seq(WaitNames) BY DEF WaitNames
<1> HIDE DEF j
<1>4. j # NoStep => Leads(d, CreateJoinState(d, i, j, <<n>>))
  BY <1>2, <1>3, CreateJoinStateLeads
<1>5. j # NoStep => Leads(d, AddToJoinWaitFor(d, i, j, n))
  BY <1>2, AddToJoinWaitForLeads
<1>6. QED BY <1>1, <1>4, <1>5, LeadsRefl

----------------------------------------------------------------------------
(* Rollback *)

\* rollbackStep on any set of steps is harmless: it queues rows of the instance only.
LEMMA RollbackStepsLeads ==
    ASSUME NEW d, Good(d), NEW i \in Instances, NEW names
    PROVE  Leads(d, rollbackSteps(d, i, names))
<1> DEFINE K      == {LastRow(d, i, n) : n \in names} \cap Rows(d, i)
           OnF(k) == Def[d.steps[k].name].onFailure
           Plain  == {k \in K : OnF(k) = NoStep}
           Spent  == {k \in K \ Plain : CompensationRetryCount(d, k) >= Def[OnF(k)].maxRetries}
           Undo   == K \ (Plain \cup Spent)
           count  == [k \in Undo |-> CompensationRetryCount(d, k) + 1]
           d0 == UpdateSteps(d, Plain, "rolled_back")
           d1 == UpdateSteps(d0, Spent, "failed")
           d2 == CreateDeadLetterRecords(d1, Spent)
           d3 == UpdateStepsCompensationRetry(d2, Undo, count)
           d4 == EnqueueRows(d3, i, Undo)
<1>1. rollbackSteps(d, i, names) = d4 BY Zenon DEF rollbackSteps, rollbackRows
<1>2. K \subseteq Rows(d, i) OBVIOUS
<1> HIDE DEF K
<1>3. Spent \subseteq Rows(d, i) /\ Undo \subseteq Rows(d, i) BY <1>2
<1> HIDE DEF Plain, Spent, Undo
<1>4. \A k \in Spent \cup Undo : IsRow(d, i, k) BY <1>3, RowsAre
<1>5. count \in [Undo -> Nat]
  <2>1. \A k \in Undo : CompensationRetryCount(d, k) \in Nat
    BY <1>4, RowName DEF CompensationRetryCount, WorkflowStep
  <2>2. QED BY <2>1
<1> HIDE DEF count
<1>6. "rolled_back" \in StepStatus /\ "failed" \in StepStatus BY DEF StepStatus
<1>7. Leads(d, d0) BY <1>6, UpdateStepsLeads
<1>8. Good(d0) BY <1>7 DEF Leads
<1> HIDE DEF d0
<1>9. Leads(d, d1) BY <1>6, <1>7, <1>8, UpdateStepsLeads, LeadsTrans
<1>10. Good(d1) BY <1>9 DEF Leads
<1> HIDE DEF d1
<1>11. Spent \in SUBSET (1..Len(d1.steps)) BY <1>4, <1>9, RowStays DEF IsRow
<1>12. Leads(d, d2) BY <1>9, <1>10, <1>11, CreateDeadLetterRecordsLeads, LeadsTrans
<1>13. Good(d2) BY <1>12 DEF Leads
<1> HIDE DEF d2
<1>14. Leads(d, d3) BY <1>5, <1>12, <1>13, CompensationRetryLeads, LeadsTrans
<1>15. Good(d3) BY <1>14 DEF Leads
<1> HIDE DEF d3
<1>16. Undo \in SUBSET (1..Len(d3.steps)) /\ \A k \in Undo : d3.steps[k].inst = i
  BY <1>4, <1>14, RowStays DEF IsRow
<1>17. Leads(d, d4) BY <1>14, <1>15, <1>16, EnqueueRowsLeads, LeadsTrans
<1>18. QED BY <1>1, <1>17

\* rollbackToSavePointOrRoot is harmless, whatever chain of steps it visits.
LEMMA RollbackToSavePointLeads ==
    ASSUME NEW d, Good(d), NEW i \in Instances, NEW n
    PROVE  Leads(d, rollbackToSavePointOrRoot(d, i, n))
BY RollbackStepsLeads, Zenon DEF rollbackToSavePointOrRoot

\* enqueueCompletedStepsForRollback is harmless.
LEMMA EnqueueCompletedLeads ==
    ASSUME NEW d, Good(d), NEW i \in Instances
    PROVE  Leads(d, enqueueCompletedStepsForRollback(d, i))
<1> DEFINE SP   == {k \in Rows(d, i) : Def[d.steps[k].name].type = "savepoint"}
           Late == {k \in Rows(d, i) : /\ d.steps[k].status = "completed"
                                       /\ \A s \in SP : k > s}
           Undo == {k \in Late : Def[d.steps[k].name].onFailure # NoStep}
           count == [k \in Undo |-> 0]
           d1   == UpdateSteps(d, Late \ Undo, "rolled_back")
           d2   == UpdateStepsCompensationRetry(d1, Undo, count)
           d3   == EnqueueRows(d2, i, Undo)
<1>1. enqueueCompletedStepsForRollback(d, i) = d3
  BY Zenon DEF enqueueCompletedStepsForRollback
<1> HIDE DEF SP
<1>2. Undo \subseteq Rows(d, i) OBVIOUS
<1> HIDE DEF Late, Undo
<1>3. \A k \in Undo : IsRow(d, i, k) BY <1>2, RowsAre
<1>4. count \in [Undo -> Nat] OBVIOUS
<1> HIDE DEF count
<1>5. "rolled_back" \in StepStatus BY DEF StepStatus
<1>6. Leads(d, d1) BY <1>5, UpdateStepsLeads
<1>7. Good(d1) BY <1>6 DEF Leads
<1> HIDE DEF d1
<1>8. Leads(d, d2) BY <1>4, <1>6, <1>7, CompensationRetryLeads, LeadsTrans
<1>9. Good(d2) BY <1>8 DEF Leads
<1> HIDE DEF d2
<1>10. Undo \in SUBSET (1..Len(d2.steps)) /\ \A k \in Undo : d2.steps[k].inst = i
  BY <1>3, <1>8, RowStays DEF IsRow
<1>11. Leads(d, d3) BY <1>8, <1>9, <1>10, EnqueueRowsLeads, LeadsTrans
<1>12. QED BY <1>1, <1>11

\* completeWorkflow is harmless.
LEMMA CompleteWorkflowLeads ==
    ASSUME NEW d, Good(d), NEW i \in Instances
    PROVE  Leads(d, completeWorkflow(d, i))
<1> DEFINE d1 == enqueueCompletedStepsForRollback(d, i)
<1>1. "completed" \in WorkflowStatus /\ "failed" \in WorkflowStatus BY DEF WorkflowStatus
<1>2. Leads(d, d1) /\ Good(d1) BY EnqueueCompletedLeads DEF Leads
<1>3. completeWorkflow(d, i) \in
        {UpdateInstanceStatus(d, i, "completed"), d1, UpdateInstanceStatus(d1, i, "failed")}
  BY DEF completeWorkflow, failUnlessCompensating
<1> HIDE DEF d1
<1>4. Leads(d, UpdateInstanceStatus(d, i, "completed")) BY <1>1, UpdateInstanceStatusLeads
<1>5. Leads(d, UpdateInstanceStatus(d1, i, "failed"))
  BY <1>1, <1>2, UpdateInstanceStatusLeads, LeadsTrans
<1>6. QED BY <1>2, <1>3, <1>4, <1>5

\* stopParallelBranchesInFork is harmless.
LEMMA StopParallelLeads ==
    ASSUME NEW d, Good(d), NEW i \in Instances, NEW n
    PROVE  Leads(d, stopParallelBranchesInFork(d, i, n))
<1>1. "skipped" \in StepStatus BY DEF StepStatus
<1>2. \A K : Leads(d, UpdateSteps(d, K, "skipped")) BY <1>1, UpdateStepsLeads
<1>3. Leads(d, d) BY LeadsRefl
<1>4. QED BY <1>2, <1>3, Zenon DEF stopParallelBranchesInFork

----------------------------------------------------------------------------
(* The outcome of a step *)

\* handleStepSuccess on a row of the instance is harmless.
LEMMA HandleStepSuccessLeads ==
    ASSUME NEW d, Good(d), NEW i, NEW k, IsRow(d, i, k), NEW next \in BOOLEAN
    PROVE  Leads(d, handleStepSuccess(d, i, k, next))
<1> DEFINE n  == d.steps[k].name
           d1 == UpdateStep(d, k, "completed")
           d2 == prepareJoin(d1, i, n)
           d3 == notifyJoinSteps(d2, i, n, TRUE)
           followers == IF next THEN ToSet(Def[n].next) ELSE {Def[n].else} \ {NoStep}
           started == IF next THEN followers \ JoinSteps ELSE followers
           names == SetToSeq(started)
<1>1. handleStepSuccess(d, i, k, next) \in
        {enqueueNextSteps(d3, i, names), d3, completeWorkflow(d3, i)}
  <2>1. handleStepSuccess(d, i, k, next) =
          IF ~(followers = {}) THEN enqueueNextSteps(d3, i, names)
          ELSE IF hasUnfinishedSteps(d3, i) THEN d3 ELSE completeWorkflow(d3, i)
    BY Zenon DEF handleStepSuccess, continueWorkflow
  <2> HIDE DEF d3, names, started, followers
  <2>2. QED BY <2>1
<1>2. n \in Steps /\ i \in Instances BY RowName
<1>3. names \in Seq(Steps)
  <2>1. started \in SUBSET Steps BY <1>2, DefTypes
  <2> HIDE DEF started
  <2>2. QED BY <2>1, NamesAreSeq
<1> HIDE DEF n, followers, started, names
<1>4. "completed" \in StepStatus BY DEF StepStatus
<1>5. Leads(d, d1) BY <1>4, UpdateStepLeads
<1>6. Good(d1) BY <1>5 DEF Leads
<1> HIDE DEF d1
<1>7. Leads(d1, d2) BY <1>2, <1>6, ReplaceVirtualStepLeads, AddTerminalStepLeads DEF prepareJoin
<1>8. Leads(d, d2) /\ Good(d2) BY <1>5, <1>7, LeadsTrans DEF Leads
<1> HIDE DEF d2
<1>9. Leads(d2, d3) BY <1>2, <1>8, NotifyJoinStepsLeads
<1>10. Leads(d, d3) /\ Good(d3) BY <1>8, <1>9, LeadsTrans DEF Leads
<1> HIDE DEF d3
<1>11. Leads(d, enqueueNextSteps(d3, i, names))
  BY <1>2, <1>3, <1>10, EnqueueNextStepsLeads, LeadsTrans
<1>12. Leads(d, completeWorkflow(d3, i))
  BY <1>2, <1>10, CompleteWorkflowLeads, LeadsTrans
<1>13. QED BY <1>1, <1>10, <1>11, <1>12

\* Retrying a step is harmless.
LEMMA RetryStepLeads ==
    ASSUME NEW d, Good(d), NEW i, NEW k, IsRow(d, i, k)
    PROVE  Leads(d, retryStep(d, i, k))
<1> DEFINE d1 == UpdateStep(d, k, "failed")
<1>1. "failed" \in StepStatus BY DEF StepStatus
<1>2. Leads(d, d1) BY <1>1, UpdateStepLeads
<1>3. Good(d1) /\ IsRow(d1, i, k) BY <1>2, RowStays DEF Leads
<1> HIDE DEF d1
<1>4. Leads(d, EnqueueStep(d1, i, k)) BY <1>2, <1>3, EnqueueRowLeads, LeadsTrans
<1>5. QED BY <1>4 DEF retryStep, d1

\* moveToDLQ is harmless.
LEMMA MoveToDLQLeads ==
    ASSUME NEW d, Good(d), NEW i, NEW k, IsRow(d, i, k)
    PROVE  Leads(d, moveToDLQ(d, i, k))
<1> DEFINE n  == d.steps[k].name
           d0 == UpdateStep(d, k, "paused")
           d1 == notifyJoinSteps(d0, i, n, FALSE)
           d2 == CreateDeadLetterRecords(d1, {k})
           d3 == PauseActiveStepsAndClearQueue(d2, i)
           d4 == UpdateInstanceStatus(d3, i, "dlq")
<1>1. moveToDLQ(d, i, k) = d4 BY DEF moveToDLQ
<1>2. n \in Steps /\ i \in Instances BY RowName
<1> HIDE DEF n
<1>3. "paused" \in StepStatus /\ "dlq" \in WorkflowStatus BY DEF StepStatus, WorkflowStatus
<1>4. Leads(d, d0) BY <1>3, UpdateStepLeads
<1>5. Good(d0) BY <1>4 DEF Leads
<1> HIDE DEF d0
<1>6. Leads(d, d1) BY <1>2, <1>4, <1>5, NotifyJoinStepsLeads, LeadsTrans
<1>7. Good(d1) /\ IsRow(d1, i, k) BY <1>6, RowStays DEF Leads
<1> HIDE DEF d1
<1>8. {k} \in SUBSET (1..Len(d1.steps)) BY <1>7 DEF IsRow
<1>9. Leads(d, d2) BY <1>6, <1>7, <1>8, CreateDeadLetterRecordsLeads, LeadsTrans
<1>10. Good(d2) BY <1>9 DEF Leads
<1> HIDE DEF d2
<1>11. Leads(d, d3) BY <1>9, <1>10, PauseLeads, LeadsTrans
<1>12. Good(d3) BY <1>11 DEF Leads
<1> HIDE DEF d3
<1>13. Leads(d, d4) BY <1>2, <1>3, <1>11, <1>12, UpdateInstanceStatusLeads, LeadsTrans
<1>14. QED BY <1>1, <1>13

\* Failing the workflow, with the rollback, is harmless.
LEMMA FailWorkflowLeads ==
    ASSUME NEW d, Good(d), NEW i, NEW k, IsRow(d, i, k)
    PROVE  Leads(d, failWorkflow(d, i, k))
<1> DEFINE n  == d.steps[k].name
           d0 == UpdateStep(d, k, "failed")
           d1 == replaceVirtualStep(d0, i, n, FALSE)
           d2 == notifyJoinSteps(d1, i, n, FALSE)
           d3 == stopParallelBranchesInFork(d2, i, n)
           d4 == rollbackToSavePointOrRoot(d3, i, n)
           d5 == UpdateInstanceStatus(d4, i, "failed")
<1>1. failWorkflow(d, i, k) = d5 BY Zenon DEF failWorkflow
<1>2. n \in Steps /\ i \in Instances BY RowName
<1> HIDE DEF n
<1>3. "failed" \in StepStatus /\ "failed" \in WorkflowStatus BY DEF StepStatus, WorkflowStatus
<1>4. Leads(d, d0) BY <1>3, UpdateStepLeads
<1>5. Good(d0) BY <1>4 DEF Leads
<1> HIDE DEF d0
<1>6. Leads(d, d1) BY <1>2, <1>4, <1>5, ReplaceVirtualStepLeads, LeadsTrans
<1>7. Good(d1) BY <1>6 DEF Leads
<1> HIDE DEF d1
<1>8. Leads(d, d2) BY <1>2, <1>6, <1>7, NotifyJoinStepsLeads, LeadsTrans
<1>9. Good(d2) BY <1>8 DEF Leads
<1> HIDE DEF d2
<1>10. Leads(d, d3) BY <1>2, <1>8, <1>9, StopParallelLeads, LeadsTrans
<1>11. Good(d3) BY <1>10 DEF Leads
<1> HIDE DEF d3
<1>12. Leads(d, d4) BY <1>2, <1>10, <1>11, RollbackToSavePointLeads, LeadsTrans
<1>13. Good(d4) BY <1>12 DEF Leads
<1> HIDE DEF d4
<1>14. Leads(d, d5) BY <1>2, <1>3, <1>12, <1>13, UpdateInstanceStatusLeads, LeadsTrans
<1>15. QED BY <1>1, <1>14

\* handleStepFailure on a row of the instance is harmless.
LEMMA HandleStepFailureLeads ==
    ASSUME NEW d, Good(d), NEW i, NEW k, IsRow(d, i, k), NEW retry
    PROVE  Leads(d, handleStepFailure(d, i, k, retry))
BY RetryStepLeads, MoveToDLQLeads, FailWorkflowLeads DEF handleStepFailure

\* Rolling back from the last completed step to the root is harmless.
LEMMA RollbackAllLeads ==
    ASSUME NEW d, Good(d), NEW i \in Instances
    PROVE  Leads(d, rollbackAll(d, i))
<1>1. \A names : Leads(d, rollbackSteps(d, i, names)) BY RollbackStepsLeads
<1>2. Leads(d, d) BY LeadsRefl
<1>3. QED BY <1>1, <1>2, Zenon DEF rollbackAll

\* Ending the instance as the cancel request asks is harmless.
LEMMA CancelOrAbortLeads ==
    ASSUME NEW d, Good(d), NEW i \in Instances
    PROVE  Leads(d, cancelOrAbort(d, i))
<1> DEFINE d1 == UpdateInstanceStatus(d, i, "cancelling")
           d2 == rollbackAll(d1, i)
           stopped == IF d.cancel[i] = "cancel" THEN UpdateInstanceStatus(d2, i, "cancelled")
                      ELSE UpdateInstanceStatus(d, i, "aborted")
<1>1. cancelOrAbort(d, i) = DeleteCancelRequest(stopped, i) BY DEF cancelOrAbort
<1>2. /\ "cancelling" \in WorkflowStatus /\ "cancelled" \in WorkflowStatus
      /\ "aborted" \in WorkflowStatus
  BY DEF WorkflowStatus
<1>3. Leads(d, d1) /\ Good(d1) BY <1>2, UpdateInstanceStatusLeads DEF Leads
<1> HIDE DEF d1
<1>4. Leads(d, d2) BY <1>3, RollbackAllLeads, LeadsTrans
<1>5. Good(d2) BY <1>4 DEF Leads
<1> HIDE DEF d2
<1>6. Leads(d, stopped) BY <1>2, <1>4, <1>5, UpdateInstanceStatusLeads, LeadsTrans
<1>7. Good(stopped) BY <1>6 DEF Leads
<1> HIDE DEF stopped
<1>8. Leads(d, DeleteCancelRequest(stopped, i)) BY <1>6, <1>7, CancelRequestLeads, LeadsTrans
<1>9. QED BY <1>1, <1>8

\* handleCancellation is harmless.
LEMMA HandleCancellationLeads ==
    ASSUME NEW d, Good(d), NEW i \in Instances, NEW locked
    PROVE  Leads(d, handleCancellation(d, i, locked))
<1> DEFINE d1 == UpdateSteps(d, GetActiveStepsForUpdate(d, i, locked), "skipped")
<1>1. handleCancellation(d, i, locked) \in {d, cancelOrAbort(d1, i)} BY DEF handleCancellation
<1>2. "skipped" \in StepStatus BY DEF StepStatus
<1>3. Leads(d, d1) /\ Good(d1) BY <1>2, UpdateStepsLeads DEF Leads
<1> HIDE DEF d1
<1>4. Leads(d1, cancelOrAbort(d1, i)) BY <1>3, CancelOrAbortLeads
<1>5. QED BY <1>1, <1>3, <1>4, LeadsTrans, LeadsRefl

\* The end of a compensation is harmless.
LEMMA CompensationSucceededLeads ==
    ASSUME NEW d, Good(d), NEW i \in Instances, NEW k
    PROVE  Leads(d, compensationSucceeded(d, i, k))
<1> DEFINE d1 == UpdateStep(d, k, "rolled_back")
<1>1. "rolled_back" \in StepStatus /\ "failed" \in WorkflowStatus
  BY DEF StepStatus, WorkflowStatus
<1>2. Leads(d, d1) /\ Good(d1) BY <1>1, UpdateStepLeads DEF Leads
<1>3. compensationSucceeded(d, i, k) \in {d1, UpdateInstanceStatus(d1, i, "failed")}
  BY DEF compensationSucceeded, failUnlessCompensating
<1> HIDE DEF d1
<1>4. Leads(d, UpdateInstanceStatus(d1, i, "failed"))
  BY <1>1, <1>2, UpdateInstanceStatusLeads, LeadsTrans
<1>5. QED BY <1>2, <1>3, <1>4

\* The failure of a compensation is harmless.
LEMMA CompensationFailedLeads ==
    ASSUME NEW d, Good(d), NEW i, NEW k, IsRow(d, i, k), NEW comp \in Nat
    PROVE  Leads(d, compensationFailed(d, i, k, comp))
<1> DEFINE count == [r \in {k} |-> comp + 1]
           d1 == UpdateStepsCompensationRetry(d, {k}, count)
<1>1. count \in [{k} -> Nat] OBVIOUS
<1>2. compensationFailed(d, i, k, comp) \in {EnqueueStep(d1, i, k), UpdateStep(d, k, "failed")}
  BY DEF compensationFailed
<1> HIDE DEF count
<1>3. Leads(d, d1) BY <1>1, CompensationRetryLeads
<1>4. Good(d1) /\ IsRow(d1, i, k) BY <1>3, RowStays DEF Leads
<1> HIDE DEF d1
<1>5. Leads(d, EnqueueStep(d1, i, k)) BY <1>3, <1>4, EnqueueRowLeads, LeadsTrans
<1>6. Leads(d, UpdateStep(d, k, "failed"))
  <2>1. "failed" \in StepStatus BY DEF StepStatus
  <2>2. QED BY <2>1, UpdateStepLeads
<1>7. QED BY <1>2, <1>5, <1>6

----------------------------------------------------------------------------
(* Human decisions *)

\* Marking a step as running is harmless.
LEMMA RunningLeads ==
    ASSUME NEW d, Good(d), NEW k
    PROVE  Leads(d, Running(d, k)) /\ Good(Running(d, k))
<1>1. "running" \in StepStatus BY DEF StepStatus
<1>2. QED BY <1>1, UpdateStepLeads DEF Running, Leads

\* MakeHumanDecision is harmless, and the decision is still there when it returns.
LEMMA HumanDecisionLeads ==
    ASSUME NEW d, Good(d), NEW i, NEW k, IsRow(d, i, k), NEW decision \in {"confirmed", "rejected"}
    PROVE  /\ Leads(d, humanDecision(d, k, decision))
           /\ humanDecision(d, k, decision).steps[k].decision # "none"
<1> DEFINE row == [d.steps[k] EXCEPT !.decision = decision, !.status = decision]
           s == [d.steps EXCEPT ![k] = row]
           d1 == [d EXCEPT !.steps = s]
<1>1. d \in Database BY DEF Good
<1>2. /\ k \in 1..Len(d.steps) /\ d.steps[k] \in WorkflowStep
      /\ i \in Instances /\ d.steps[k].inst = i
  BY RowName DEF IsRow
<1>3. row \in WorkflowStep /\ Kept(d.steps[k], row) /\ row.decision # "none"
  BY <1>2 DEF WorkflowStep, StepStatus, Kept
<1>4. [d EXCEPT !.steps[k] = [@ EXCEPT !.decision = decision, !.status = decision]] = d1
  BY <1>1 DEF Database
<1>5. humanDecision(d, k, decision) \in
        {UpdateInstanceStatus(d1, i, "aborted"), handleStepSuccess(d1, i, k, TRUE), d1}
  <2> HIDE DEF d1
  <2> QED BY <1>2, <1>4 DEF humanDecision
<1> HIDE DEF row
<1>6. /\ s \in [1..Len(d.steps) -> WorkflowStep]
      /\ \A m \in 1..Len(d.steps) : Kept(d.steps[m], s[m])
      /\ s[k].decision # "none"
  BY <1>1, <1>2, <1>3, FieldTypes DEF Kept
<1> HIDE DEF s
<1>7. Leads(d, d1) BY <1>6, RowsMapped, Zenon
<1>8. Good(d1) /\ IsRow(d1, i, k) BY <1>7, RowStays DEF Leads
<1>9. d1.steps[k].decision # "none" BY <1>1, <1>6 DEF Database
<1> HIDE DEF d1
<1>10. "aborted" \in WorkflowStatus BY DEF WorkflowStatus
<1>11. Leads(d1, UpdateInstanceStatus(d1, i, "aborted"))
  BY <1>2, <1>8, <1>10, UpdateInstanceStatusLeads
<1>12. Leads(d1, handleStepSuccess(d1, i, k, TRUE))
  BY <1>8, HandleStepSuccessLeads
<1>13. Leads(d1, humanDecision(d, k, decision))
  BY <1>5, <1>8, <1>11, <1>12, LeadsRefl
<1>14. humanDecision(d, k, decision).steps[k].decision # "none"
  BY <1>8, <1>9, <1>13 DEF Leads, Extends, RowsKept, Kept, IsRow
<1>15. QED BY <1>7, <1>13, <1>14, LeadsTrans

\* processHumanDecision is harmless once there is a decision.
LEMMA ProcessHumanDecisionLeads ==
    ASSUME NEW d, Good(d), NEW i, NEW k, IsRow(d, i, k), NEW waiting \in BOOLEAN,
           d.steps[k].decision # "none"
    PROVE  Leads(d, processHumanDecision(d, i, k, waiting))
<1> DEFINE decision == d.steps[k].decision
           d0 == Running(d, k)
           d1 == UpdateStepStatus(d0, k, decision)
<1>1. processHumanDecision(d, i, k, waiting) \in
        {UpdateInstanceStatus(d1, i, "aborted"), d1, handleStepSuccess(d1, i, k, TRUE)}
  <2> HIDE DEF d0
  <2> QED BY DEF processHumanDecision, d0
<1>2. decision \in StepStatus /\ i \in Instances
  BY RowName DEF WorkflowStep, StepStatus
<1> HIDE DEF decision
<1>3. Leads(d, d0) /\ Good(d0) BY RunningLeads
<1>4. IsRow(d0, i, k) BY <1>3, RowStays
<1> HIDE DEF d0
<1>5. Leads(d0, d1) BY <1>2, <1>3, <1>4, UpdateStepStatusLeads DEF IsRow
<1>6. Leads(d, d1) /\ Good(d1) BY <1>3, <1>5, LeadsTrans DEF Leads
<1>7. IsRow(d1, i, k) BY <1>6, RowStays
<1> HIDE DEF d1
<1>8. "aborted" \in WorkflowStatus BY DEF WorkflowStatus
<1>9. Leads(d, UpdateInstanceStatus(d1, i, "aborted"))
  BY <1>2, <1>6, <1>8, UpdateInstanceStatusLeads, LeadsTrans
<1>10. Leads(d, handleStepSuccess(d1, i, k, TRUE))
  BY <1>6, <1>7, HandleStepSuccessLeads, LeadsTrans
<1>11. QED BY <1>1, <1>6, <1>9, <1>10

----------------------------------------------------------------------------
(* Workers *)

\* u is what the workers do: each busy one has a row of its instance and an item that
\* nobody can dequeue, and no two have the same.
WorkersSound(d, u) ==
    /\ u \in [Workers -> InFlight \cup {Idle}]
    /\ \A w \in Workers : u[w] \in InFlight =>
         /\ IsRow(d, u[w].inst, u[w].step)
         /\ u[w].item < d.nq
         /\ \A q \in d.queue : q.id = u[w].item => q.by # Nobody
    /\ \A v, w \in Workers : u[v] \in InFlight /\ u[w] \in InFlight /\ u[v].item = u[w].item => v = w

\* A worker is busy when it holds an item.
LEMMA BusyIs ==
    ASSUME NEW f \in InFlight \cup {Idle}
    PROVE  f.kind # "idle" <=> f \in InFlight
BY DEF InFlight, Idle

\* A harmless change of the store leaves every worker its row and its claim.
LEMMA WorkersKept ==
    ASSUME NEW d, NEW e, NEW u, Good(d), Leads(d, e), WorkersSound(d, u)
    PROVE  WorkersSound(e, u)
<1>1. d.nq \in Nat /\ e.nq \in Nat /\ d.nq <= e.nq /\ e.queue \subseteq QueueItem
  BY FieldTypes DEF Good, Leads, Extends
<1>2. ASSUME NEW w \in Workers, u[w] \in InFlight
      PROVE  /\ IsRow(e, u[w].inst, u[w].step)
             /\ u[w].item < e.nq
             /\ \A q \in e.queue : q.id = u[w].item => q.by # Nobody
  <2>1. IsRow(e, u[w].inst, u[w].step) BY <1>2, RowStays DEF WorkersSound
  <2>2. u[w].item \in Nat /\ u[w].item < d.nq BY <1>2 DEF WorkersSound, InFlight
  <2>3. \A q \in e.queue : q.id \in Nat /\ (q \in d.queue \/ q.id >= d.nq)
    BY <1>1 DEF Leads, Extends, QueueItem
  <2>4. \A q \in e.queue : q.id = u[w].item => q.by # Nobody
    BY <1>1, <1>2, <2>2, <2>3 DEF WorkersSound
  <2>5. QED BY <1>1, <2>1, <2>2, <2>4
<1>3. QED BY <1>2 DEF WorkersSound

\* A worker that becomes idle takes no claim from the others.
LEMMA WorkerDone ==
    ASSUME NEW d, NEW u, WorkersSound(d, u), NEW w \in Workers
    PROVE  WorkersSound(d, [u EXCEPT ![w] = Idle])
<1>1. Idle \notin InFlight BY DEF Idle, InFlight
<1>2. QED BY <1>1 DEF WorkersSound

\* The inductive invariant as a predicate of the values of the variables.
Sound(d, u, c, n) ==
    /\ Good(d)
    /\ WorkersSound(d, u)
    /\ c \in [Instances -> [Steps -> Calls]]
    /\ n \in Nat

\* The inductive invariant, in the form the steps below use.
LEMMA InvIsSound == Inv <=> Sound(db, wk, calls, crashes)
<1>1. db \in Database => DOMAIN db.steps = 1..Len(db.steps) BY FieldTypes
<1>2. \A f \in InFlight \cup {Idle} : f.kind # "idle" <=> f \in InFlight BY BusyIs
<1>3. Inv => Sound(db, wk, calls, crashes)
  <2> SUFFICES ASSUME Inv PROVE Sound(db, wk, calls, crashes) OBVIOUS
  <2>1. Good(db)
    BY <1>1 DEF Inv, TypeOK, QueueSound, LettersSound, Good, SoundItems, SoundLetters
  <2>2. WorkersSound(db, wk)
    BY <1>1, <1>2 DEF Inv, TypeOK, QueueSound, ExclusiveClaims, ClaimsHeld, Busy,
                      WorkersSound, IsRow
  <2>3. QED BY <2>1, <2>2 DEF Sound, Inv, TypeOK
<1>4. Sound(db, wk, calls, crashes) => Inv
  <2> SUFFICES ASSUME Sound(db, wk, calls, crashes) PROVE Inv OBVIOUS
  <2>1. TypeOK BY DEF Sound, Good, WorkersSound, TypeOK
  <2>2. QueueSound /\ LettersSound
    BY <1>1, <1>2 DEF Sound, Good, SoundItems, SoundLetters, WorkersSound, IsRow,
                      QueueSound, LettersSound, Busy
  <2>3. ExclusiveClaims /\ ClaimsHeld
    BY <1>2 DEF Sound, WorkersSound, ExclusiveClaims, ClaimsHeld, Busy
  <2>4. QED BY <2>1, <2>2, <2>3 DEF Inv
<1>5. QED BY <1>3, <1>4

----------------------------------------------------------------------------
(* The actions *)

\* The invariant before and after a step.
Now  == Sound(db, wk, calls, crashes)
Then == Sound(db', wk', calls', crashes')

\* The end of a transaction of ExecuteNext keeps the invariant when what the engine
\* wrote in it is harmless.
LEMMA CommitSound ==
    ASSUME Now, NEW w \in Workers, NEW id, NEW d, Leads(db, d), Commit(w, id, d),
           calls' \in [Instances -> [Steps -> Calls]]
    PROVE  Then
<1> DEFINE e == RemoveFromQueue(d, id)
<1>1. Good(db) /\ Good(d) BY DEF Now, Sound, Leads
<1>2. Leads(db, e) BY <1>1, RemoveFromQueueLeads, LeadsTrans
<1>3. WorkersSound(e, wk) BY <1>1, <1>2, WorkersKept DEF Now, Sound
<1>4. WorkersSound(e, [wk EXCEPT ![w] = Idle]) BY <1>3, WorkerDone
<1>5. db' = e /\ wk' = [wk EXCEPT ![w] = Idle] /\ crashes' = crashes BY DEF Commit
<1> HIDE DEF e
<1>6. QED BY <1>2, <1>4, <1>5 DEF Then, Sound, Now, Leads

\* A queue item names a row of its instance.
LEMMA ItemRow ==
    ASSUME NEW d, Good(d), NEW q \in d.queue
    PROVE  IsRow(d, q.inst, q.step) /\ q.inst \in Instances
<1>1. IsRow(d, q.inst, q.step) BY DEF Good, SoundItems, IsRow
<1>2. QED BY <1>1, RowName

\* DequeueStep: a free item becomes the item of an idle worker.
LEMMA ClaimSound ==
    ASSUME NEW d, Good(d), NEW u, WorkersSound(d, u), NEW w \in Workers,
           NEW q \in d.queue, q.by = Nobody,
           NEW f \in InFlight, f.item = q.id, f.step = q.step, f.inst = q.inst
    PROVE  Good(Claim(d, q, w)) /\ WorkersSound(Claim(d, q, w), [u EXCEPT ![w] = f])
<1> DEFINE c == [q EXCEPT !.by = w]
           Q == (d.queue \ {q}) \cup {c}
           e == [d EXCEPT !.queue = Q]
<1>1. d \in Database /\ d.queue \subseteq QueueItem /\ d.nq \in Nat BY FieldTypes DEF Good
<1>2. /\ c \in QueueItem /\ c.id = q.id /\ c.inst = q.inst /\ c.step = q.step /\ c.by = w
  BY <1>1 DEF QueueItem
<1>3. w # Nobody BY StoreAssumption DEF Nobody
<1>4. Claim(d, q, w) = e BY DEF Claim
<1> HIDE DEF c
<1>5. Q \in SUBSET QueueItem BY <1>1, <1>2
<1>6. e \in Database BY <1>1, <1>5 DEF Database
<1>7. e.queue = Q /\ e.nq = d.nq /\ e.steps = d.steps /\ e.dlq = d.dlq BY <1>1 DEF Database
<1> HIDE DEF e
<1>8. \A r \in Q : \/ r \in d.queue /\ r # q
                   \/ r = c
  OBVIOUS
<1>9. SoundItems(e)
  <2>1. \A r \in Q : r.id < e.nq /\ r.step \in 1..Len(e.steps) /\ e.steps[r.step].inst = r.inst
    BY <1>2, <1>7, <1>8 DEF Good, SoundItems
  <2>2. \A r \in d.queue : r.id = q.id => r = q BY DEF Good, SoundItems
  <2>3. \A r, s \in Q : r.id = s.id => r = s
    BY <1>2, <1>8, <2>2 DEF Good, SoundItems
  <2>4. QED BY <1>7, <2>1, <2>3 DEF SoundItems
<1>10. SoundLetters(e) BY <1>7 DEF Good, SoundLetters
<1> DEFINE u2 == [u EXCEPT ![w] = f]
<1>11. u2 \in [Workers -> InFlight \cup {Idle}] BY DEF WorkersSound
<1>12. u2[w] = f /\ \A v \in Workers : v # w => u2[v] = u[v] BY DEF WorkersSound
<1> HIDE DEF u2
<1>13. \A r \in d.queue : r.id = q.id => r = q BY DEF Good, SoundItems
<1>14. \A v \in Workers : v # w /\ u2[v] \in InFlight => u2[v].item # q.id
  BY <1>12 DEF WorkersSound
<1>15. ASSUME NEW v \in Workers, u2[v] \in InFlight
       PROVE  /\ IsRow(e, u2[v].inst, u2[v].step)
              /\ u2[v].item < e.nq
              /\ \A r \in e.queue : r.id = u2[v].item => r.by # Nobody
  <2>1. CASE v = w
    <3>1. IsRow(d, q.inst, q.step) /\ q.id < d.nq BY DEF Good, SoundItems, IsRow
    <3>2. \A r \in Q : r.id = q.id => r.by # Nobody BY <1>2, <1>3, <1>8, <1>13
    <3>3. QED BY <1>7, <1>12, <2>1, <3>1, <3>2 DEF IsRow
  <2>2. CASE v # w
    BY <1>2, <1>3, <1>7, <1>8, <1>12, <1>15, <2>2 DEF WorkersSound, IsRow
  <2>3. QED BY <2>1, <2>2
<1>16. \A v, x \in Workers :
          u2[v] \in InFlight /\ u2[x] \in InFlight /\ u2[v].item = u2[x].item => v = x
  BY <1>12, <1>14 DEF WorkersSound
<1>17. WorkersSound(e, u2) BY <1>11, <1>15, <1>16 DEF WorkersSound
<1>18. QED BY <1>4, <1>6, <1>9, <1>10, <1>17 DEF Good, u2

\* An aborted transaction: the item of worker w is free again and w is idle.  Nobody
\* else holds the item, so no claim of another worker is lost.
LEMMA ReleaseSound ==
    ASSUME NEW d, Good(d), NEW u, WorkersSound(d, u), NEW w \in Workers, u[w] \in InFlight
    PROVE  LET e == ReleaseQueueItem(d, u[w].item)
           IN  Good(e) /\ WorkersSound(e, [u EXCEPT ![w] = Idle])
<1> DEFINE id == u[w].item
           free(q) == [q EXCEPT !.by = Nobody]
           Q == {IF q.id = id THEN free(q) ELSE q : q \in d.queue}
           e == [d EXCEPT !.queue = Q]
<1>1. d \in Database /\ d.queue \subseteq QueueItem BY FieldTypes DEF Good
<1>2. \A q \in QueueItem : /\ free(q) \in QueueItem /\ free(q).id = q.id
                           /\ free(q).inst = q.inst /\ free(q).step = q.step
  BY DEF QueueItem
<1>3. ReleaseQueueItem(d, id) = e BY DEF ReleaseQueueItem
<1>4. \A r \in Q : \E q \in d.queue :
         /\ r.id = q.id /\ r.inst = q.inst /\ r.step = q.step /\ r \in QueueItem
         /\ r = IF q.id = id THEN free(q) ELSE q
  <2> HIDE DEF free
  <2> QED BY <1>1, <1>2
<1> HIDE DEF free, Q
<1>5. Q \in SUBSET QueueItem BY <1>4
<1>6. e \in Database BY <1>1, <1>5 DEF Database
<1>7. e.queue = Q /\ e.nq = d.nq /\ e.steps = d.steps /\ e.dlq = d.dlq BY <1>1 DEF Database
<1> HIDE DEF e
<1>8. SoundItems(e)
  <2>1. \A r \in Q : r.id < e.nq /\ r.step \in 1..Len(e.steps) /\ e.steps[r.step].inst = r.inst
    BY <1>4, <1>7 DEF Good, SoundItems
  <2>2. ASSUME NEW r \in Q, NEW s \in Q, r.id = s.id PROVE r = s
    <3>1. PICK q \in d.queue : r.id = q.id /\ r = IF q.id = id THEN free(q) ELSE q BY <1>4
    <3>2. PICK t \in d.queue : s.id = t.id /\ s = IF t.id = id THEN free(t) ELSE t BY <1>4
    <3>3. q = t BY <2>2, <3>1, <3>2 DEF Good, SoundItems
    <3>4. QED BY <3>1, <3>2, <3>3
  <2>3. QED BY <1>7, <2>1, <2>2 DEF SoundItems
<1>9. SoundLetters(e) BY <1>7 DEF Good, SoundLetters
<1> DEFINE u2 == [u EXCEPT ![w] = Idle]
<1>10. Idle \notin InFlight BY DEF Idle, InFlight
<1>11. u2 \in [Workers -> InFlight \cup {Idle}] BY DEF WorkersSound
<1>12. \A v \in Workers : u2[v] \in InFlight => v # w /\ u2[v] = u[v] /\ u[v].item # id
  BY <1>10 DEF WorkersSound
<1> HIDE DEF u2, id
<1>13. \A v \in Workers : u2[v] \in InFlight =>
          \A r \in e.queue : r.id = u2[v].item => r.by # Nobody
  BY <1>4, <1>7, <1>12 DEF WorkersSound
<1>14. WorkersSound(e, u2)
  BY <1>7, <1>11, <1>12, <1>13 DEF WorkersSound, IsRow
<1>15. QED BY <1>3, <1>6, <1>8, <1>9, <1>14 DEF Good, u2, id

\* The API calls keep the invariant.
LEMMA ApiSound ==
    ASSUME Now, Api PROVE Then
<1>1. Good(db) /\ WorkersSound(db, wk) BY DEF Now, Sound
<1>2. ASSUME Leads(db, db'), UNCHANGED <<wk, calls, crashes>> PROVE Then
  BY <1>1, <1>2, WorkersKept DEF Now, Then, Sound, Leads
<1>3. ASSUME NEW i \in Instances, StartWorkflow(i) PROVE Then
  <2> DEFINE d1 == UpdateInstanceStatus(db, i, "running")
  <2>1. "running" \in WorkflowStatus /\ <<Start[i]>> \in Seq(Steps)
    <3>1. Start[i] \in Steps BY StoreAssumption, <1>3
    <3>2. <<Start[i]>> \in Seq(Steps) BY <3>1
    <3>3. QED BY <3>2 DEF WorkflowStatus
  <2>2. Leads(db, d1) /\ Good(d1) BY <1>1, <2>1, UpdateInstanceStatusLeads DEF Leads
  <2>3. db' = enqueueNextSteps(d1, i, <<Start[i]>>) /\ UNCHANGED <<wk, calls, crashes>>
    BY <1>3 DEF StartWorkflow
  <2> HIDE DEF d1
  <2>4. Leads(db, db') BY <1>1, <2>1, <2>2, <2>3, EnqueueNextStepsLeads, LeadsTrans
  <2>5. QED BY <1>2, <2>3, <2>4
<1>4. ASSUME NEW i \in Instances, NEW kind \in CancelKinds[i], RequestCancel(i, kind) PROVE Then
  <2>1. kind \in {"cancel", "abort"} BY EngineAssumption
  <2>2. QED BY <1>1, <1>2, <1>4, <2>1, CancelRequestLeads DEF RequestCancel
<1>5. ASSUME NEW k \in DOMAIN db.steps, NEW decision \in {"confirmed", "rejected"},
             MakeHumanDecision(k, decision) PROVE Then
  <2>1. IsRow(db, db.steps[k].inst, k) BY <1>1, FieldTypes DEF Good, IsRow
  <2>2. Leads(db, humanDecision(db, k, decision)) BY <1>1, <2>1, HumanDecisionLeads
  <2>3. QED BY <1>2, <1>5, <2>2 DEF MakeHumanDecision
<1>6. ASSUME NEW rec \in db.dlq, RequeueFromDLQ(rec) PROVE Then
  BY <1>1, <1>2, <1>6, RequeueDeadLetterLeads DEF RequeueFromDLQ
<1>7. QED BY <1>3, <1>4, <1>5, <1>6 DEF Api

\* The calls of ExecuteNext that start no handler keep the invariant.
LEMMA DequeueSound ==
    ASSUME Now, NEW w \in Workers, NEW q \in db.queue,
           \/ DropFrozen(w, q) \/ DropInactive(w, q)
           \/ RejectedByPlugin(w, q) \/ CancelAtStart(w, q)
           \/ ExecuteFork(w, q) \/ ExecuteSavePoint(w, q) \/ ExecuteJoin(w, q)
           \/ \E result \in {"true", "false", "error"} : ExecuteCondition(w, q, result)
           \/ PollHuman(w, q) \/ ResumeHuman(w, q)
           \/ \E decision \in {"confirmed", "rejected"} : DecidedWhilePolling(w, q, decision)
    PROVE  Then
<1> DEFINE i == q.inst
           k == q.step
           d == Running(db, k)
           j == db.steps[k].name
<1>1. Good(db) /\ calls \in [Instances -> [Steps -> Calls]] BY DEF Now, Sound
<1>2. IsRow(db, i, k) /\ i \in Instances BY <1>1, ItemRow
<1>3. Leads(db, d) /\ Good(d) BY <1>1, RunningLeads
<1>4. IsRow(d, i, k) BY <1>1, <1>2, <1>3, RowStays
<1>5. j \in Steps BY <1>1, <1>2, RowName
<1>6. ASSUME NEW e, Leads(db, e), Commit(w, q.id, e), UNCHANGED calls PROVE Then
  BY <1>1, <1>6, CommitSound
<1>7. ASSUME NEW b \in BOOLEAN PROVE Leads(db, handleStepSuccess(d, i, k, b))
  <2> HIDE DEF d, i, k
  <2> QED BY <1>1, <1>3, <1>4, HandleStepSuccessLeads, LeadsTrans
<1>8. ASSUME NEW r PROVE Leads(db, handleStepFailure(d, i, k, r))
  <2> HIDE DEF d, i, k
  <2> QED BY <1>1, <1>3, <1>4, HandleStepFailureLeads, LeadsTrans
<1>9. CASE DropFrozen(w, q) BY <1>1, <1>6, <1>9, LeadsRefl DEF DropFrozen
<1>10. CASE DropInactive(w, q)
  BY <1>1, <1>6, <1>10, RemoveFromQueueLeads DEF DropInactive
<1>11. CASE RejectedByPlugin(w, q)
  BY <1>1, <1>6, <1>11, LeadsRefl DEF RejectedByPlugin
<1>12. CASE CancelAtStart(w, q)
  BY <1>1, <1>2, <1>6, <1>12, HandleCancellationLeads DEF CancelAtStart
<1>13. CASE ExecuteFork(w, q)
  <2> DEFINE e == executeFork(d, i, j)
  <2>1. Leads(d, e) BY <1>2, <1>3, <1>5, ExecuteForkLeads
  <2>2. Leads(db, e) /\ Good(e) BY <1>1, <1>3, <2>1, LeadsTrans DEF Leads
  <2>3. IsRow(e, i, k) BY <1>1, <1>2, <2>2, RowStays
  <2>4. Commit(w, q.id, handleStepSuccess(e, i, k, TRUE)) /\ UNCHANGED calls
    BY <1>13 DEF ExecuteFork
  <2> HIDE DEF e, d, i, k
  <2>5. Leads(db, handleStepSuccess(e, i, k, TRUE))
    BY <1>1, <2>2, <2>3, HandleStepSuccessLeads, LeadsTrans
  <2>6. QED BY <1>6, <2>4, <2>5
<1>14. CASE ExecuteSavePoint(w, q)
  BY <1>6, <1>7, <1>14 DEF ExecuteSavePoint
<1>15. CASE ExecuteJoin(w, q)
  <2>1. \/ Commit(w, q.id, handleStepSuccess(d, i, k, TRUE))
        \/ Commit(w, q.id, handleStepFailure(d, i, k, db.steps[k].retry))
    BY <1>15, Zenon DEF ExecuteJoin
  <2>2. UNCHANGED calls BY <1>15 DEF ExecuteJoin
  <2> HIDE DEF d, i, k
  <2>3. QED BY <1>6, <1>7, <1>8, <2>1, <2>2
<1>16. CASE \E result \in {"true", "false", "error"} : ExecuteCondition(w, q, result)
  <2>1. PICK result \in {"true", "false", "error"} : ExecuteCondition(w, q, result) BY <1>16
  <2>2. \/ Commit(w, q.id, handleStepSuccess(d, i, k, result = "true"))
        \/ Commit(w, q.id, handleStepFailure(d, i, k, db.steps[k].retry))
    BY <2>1, Zenon DEF ExecuteCondition
  <2>3. UNCHANGED calls BY <2>1 DEF ExecuteCondition
  <2> HIDE DEF d, i, k
  <2>4. (result = "true") \in BOOLEAN OBVIOUS
  <2>5. QED BY <1>6, <1>7, <1>8, <2>2, <2>3, <2>4
<1>17. CASE PollHuman(w, q)
  <2> DEFINE e == UpdateStepStatus(d, k, "waiting_decision")
  <2>1. "waiting_decision" \in StepStatus BY DEF StepStatus
  <2>2. Leads(d, e) BY <1>3, <1>4, <2>1, UpdateStepStatusLeads DEF IsRow
  <2>3. Leads(db, e) /\ Good(e) BY <1>1, <1>3, <2>2, LeadsTrans DEF Leads
  <2>4. IsRow(e, i, k) BY <1>1, <1>2, <2>3, RowStays
  <2>5. Commit(w, q.id, EnqueueStep(e, i, k)) /\ UNCHANGED calls BY <1>17 DEF PollHuman
  <2> HIDE DEF e, d, i, k
  <2>6. Leads(db, EnqueueStep(e, i, k)) BY <1>1, <2>3, <2>4, EnqueueRowLeads, LeadsTrans
  <2>7. QED BY <1>6, <2>5, <2>6
<1>18. CASE ResumeHuman(w, q)
  BY <1>1, <1>2, <1>6, <1>18, ProcessHumanDecisionLeads DEF ResumeHuman
<1>19. CASE \E decision \in {"confirmed", "rejected"} : DecidedWhilePolling(w, q, decision)
  <2>1. PICK decision \in {"confirmed", "rejected"} : DecidedWhilePolling(w, q, decision)
    BY <1>19
  <2> DEFINE e == humanDecision(db, k, decision)
  <2>2. Leads(db, e) /\ Good(e) /\ e.steps[k].decision # "none"
    BY <1>1, <1>2, HumanDecisionLeads DEF Leads
  <2>3. IsRow(e, i, k) BY <1>1, <1>2, <2>2, RowStays
  <2>4. Commit(w, q.id, processHumanDecision(e, i, k, TRUE)) /\ UNCHANGED calls
    BY <2>1 DEF DecidedWhilePolling
  <2> HIDE DEF e, i, k
  <2>5. Leads(db, processHumanDecision(e, i, k, TRUE))
    BY <1>1, <2>2, <2>3, ProcessHumanDecisionLeads, LeadsTrans
  <2>6. QED BY <1>6, <2>4, <2>5
<1>20. QED BY <1>9, <1>10, <1>11, <1>12, <1>13, <1>14, <1>15, <1>16, <1>17, <1>18, <1>19

\* Dequeuing an item and starting a handler keeps the invariant.
LEMMA StartSound ==
    ASSUME Now, NEW w \in Workers, NEW q \in db.queue,
           StartTask(w, q) \/ StartCompensation(w, q)
    PROVE  Then
<1> DEFINE row == db.steps[q.step]
           ft == [kind |-> "task", item |-> q.id, step |-> q.step, inst |-> q.inst,
                  retry |-> row.retry, comp |-> 0, cancelled |-> FALSE]
           fc == [kind |-> "compensation", item |-> q.id, step |-> q.step, inst |-> q.inst,
                  retry |-> 0, comp |-> CompensationRetryCount(db, q.step),
                  cancelled |-> FALSE]
           d  == Claim(db, q, w)
<1>1. Good(db) /\ WorkersSound(db, wk) BY DEF Now, Sound
<1>2. IsRow(db, q.inst, q.step) /\ row \in WorkflowStep /\ q.inst \in Instances
  BY <1>1, ItemRow, RowName
<1>3. q \in QueueItem BY <1>1, FieldTypes DEF Good
<1>4. /\ q.id \in Nat /\ q.step \in Nat /\ row.retry \in Nat
      /\ CompensationRetryCount(db, q.step) \in Nat
  BY <1>2, <1>3 DEF QueueItem, WorkflowStep, CompensationRetryCount
<1>5. ft \in InFlight /\ fc \in InFlight BY <1>2, <1>4 DEF InFlight
<1>6. q.by = Nobody BY DEF StartTask, StartCompensation, Forward, Dequeues, Dequeuable
<1>7. CASE StartTask(w, q)
  <2>1. db' = Started(d, q) /\ wk' = [wk EXCEPT ![w] = ft] /\ UNCHANGED <<calls, crashes>>
    BY <1>7 DEF StartTask
  <2>2. ft.item = q.id /\ ft.step = q.step /\ ft.inst = q.inst OBVIOUS
  <2> HIDE DEF ft
  <2>3. Good(d) /\ WorkersSound(d, [wk EXCEPT ![w] = ft])
    BY <1>1, <1>5, <1>6, <2>2, ClaimSound
  <2> HIDE DEF d
  <2>4. Leads(d, Started(d, q)) BY <2>3, RunningLeads, LeadsRefl DEF Started
  <2>5. WorkersSound(Started(d, q), [wk EXCEPT ![w] = ft]) BY <2>3, <2>4, WorkersKept
  <2>6. QED BY <2>1, <2>4, <2>5 DEF Now, Then, Sound, Leads
<1>8. CASE StartCompensation(w, q)
  <2>1. db' = d /\ wk' = [wk EXCEPT ![w] = fc] /\ UNCHANGED <<calls, crashes>>
    BY <1>8 DEF StartCompensation
  <2>2. fc.item = q.id /\ fc.step = q.step /\ fc.inst = q.inst OBVIOUS
  <2> HIDE DEF fc
  <2>3. Good(d) /\ WorkersSound(d, [wk EXCEPT ![w] = fc])
    BY <1>1, <1>5, <1>6, <2>2, ClaimSound
  <2> HIDE DEF d
  <2>4. QED BY <2>1, <2>3 DEF Now, Then, Sound
<1>9. QED BY <1>7, <1>8

\* Counting a call keeps the history well typed.
LEMMA CallsType ==
    ASSUME NEW c \in Calls, NEW ok \in BOOLEAN
    PROVE  TaskReturned(c, ok) \in Calls /\ CompensationReturned(c, ok) \in Calls
<1>1. \A a, b \in Nat : /\ [c EXCEPT !.run = a, !.ok = b] \in Calls
                        /\ [c EXCEPT !.undo = a, !.undone = b] \in Calls
  BY DEF Calls
<1>2. /\ c.run + 1 \in Nat /\ (IF ok THEN c.ok + 1 ELSE c.ok) \in Nat
      /\ c.undo + 1 \in Nat /\ (IF ok THEN c.undone + 1 ELSE c.undone) \in Nat
  BY DEF Calls
<1>3. QED BY <1>1, <1>2, Zenon DEF TaskReturned, CompensationReturned

\* Applying the result of a handler keeps the invariant.
LEMMA FinishSound ==
    ASSUME Now, NEW w \in Workers, NEW ok \in BOOLEAN,
           FinishTask(w, ok) \/ FinishCompensation(w, ok)
    PROVE  Then
<1> DEFINE f == wk[w]
           i == f.inst
           k == f.step
           n == db.steps[k].name
           d == IF StoreKind = "postgres" THEN Running(db, k) ELSE db
<1>1. Good(db) /\ WorkersSound(db, wk) /\ calls \in [Instances -> [Steps -> Calls]]
  BY DEF Now, Sound
<1>2. f \in InFlight
  <2>1. f.kind # "idle" BY DEF FinishTask, FinishCompensation
  <2>2. QED BY <1>1, <2>1, BusyIs DEF WorkersSound
<1>3. IsRow(db, i, k) BY <1>1, <1>2 DEF WorkersSound
<1>4. n \in Steps /\ i \in Instances BY <1>1, <1>3, RowName
<1>5. Leads(db, d) /\ Good(d) BY <1>1, RunningLeads, LeadsRefl
<1>6. IsRow(d, i, k) BY <1>1, <1>3, <1>5, RowStays
<1>7. f.comp \in Nat BY <1>2 DEF InFlight
<1>8. CASE FinishTask(w, ok)
  <2>1. calls' \in [Instances -> [Steps -> Calls]]
    <3>1. calls' = [calls EXCEPT ![i][n] = TaskReturned(calls[i][n], ok)]
      BY <1>8 DEF FinishTask
    <3> HIDE DEF i, n
    <3>2. QED BY <1>1, <1>4, <3>1, CallsType
  <2>2. PICK e : /\ Commit(w, f.item, e)
                 /\ e \in {handleCancellation(d, i, Locked(w)), handleStepSuccess(d, i, k, TRUE),
                           handleStepFailure(d, i, k, f.retry)}
    BY <1>8 DEF FinishTask
  <2> HIDE DEF d, i, k, f
  <2>3. Leads(d, e)
    BY <1>4, <1>5, <1>6, <2>2, HandleCancellationLeads, HandleStepSuccessLeads,
       HandleStepFailureLeads
  <2>4. Leads(db, e) BY <1>1, <1>5, <2>3, LeadsTrans
  <2>5. QED BY <2>1, <2>2, <2>4, CommitSound
<1>9. CASE FinishCompensation(w, ok)
  <2>1. calls' \in [Instances -> [Steps -> Calls]]
    <3>1. calls' = [calls EXCEPT ![i][n] = CompensationReturned(calls[i][n], ok)]
      BY <1>9 DEF FinishCompensation
    <3> HIDE DEF i, n
    <3>2. QED BY <1>1, <1>4, <3>1, CallsType
  <2>2. PICK e : /\ Commit(w, f.item, e)
                 /\ e \in {compensationSucceeded(db, i, k), compensationFailed(db, i, k, f.comp)}
    BY <1>9 DEF FinishCompensation
  <2> HIDE DEF i, k, f
  <2>3. Leads(db, e)
    BY <1>1, <1>3, <1>4, <1>7, <2>2, CompensationSucceededLeads, CompensationFailedLeads
  <2>4. QED BY <2>1, <2>2, <2>3, CommitSound
<1>10. QED BY <1>8, <1>9

\* Cancelling a context and losing a worker keep the invariant.
LEMMA TickCrashSound ==
    ASSUME Now, NEW w \in Workers, CancelTick(w) \/ Crash(w)
    PROVE  Then
<1>1. Good(db) /\ WorkersSound(db, wk) BY DEF Now, Sound
<1>2. wk[w] \in InFlight
  <2>1. wk[w].kind # "idle" BY DEF CancelTick, Crash, Busy
  <2>2. QED BY <1>1, <2>1, BusyIs DEF WorkersSound
<1>3. CASE CancelTick(w)
  <2> DEFINE f == [wk[w] EXCEPT !.cancelled = TRUE]
  <2>1. /\ f \in InFlight /\ f.item = wk[w].item /\ f.step = wk[w].step
        /\ f.inst = wk[w].inst
    BY <1>2 DEF InFlight
  <2>2. wk' = [wk EXCEPT ![w] = f] /\ UNCHANGED <<db, calls, crashes>>
    BY <1>3 DEF CancelTick
  <2> HIDE DEF f
  <2>3. WorkersSound(db, [wk EXCEPT ![w] = f]) BY <1>1, <1>2, <2>1 DEF WorkersSound
  <2>4. QED BY <2>2, <2>3 DEF Now, Then, Sound
<1>4. CASE Crash(w)
  <2>1. crashes' \in Nat /\ calls' = calls /\ wk' = [wk EXCEPT ![w] = Idle]
    BY <1>4 DEF Crash, Now, Sound
  <2>2. db' = db \/ db' = ReleaseQueueItem(db, wk[w].item) BY <1>4 DEF Crash
  <2>3. Good(db') /\ WorkersSound(db', wk')
    BY <1>1, <1>2, <2>1, <2>2, ReleaseSound, WorkerDone
  <2>4. QED BY <2>1, <2>3 DEF Now, Then, Sound
<1>5. QED BY <1>3, <1>4

----------------------------------------------------------------------------
(* The theorems *)

\* The invariant holds when nothing has been started.
LEMMA InitSound == Init => Inv
<1> SUFFICES ASSUME Init PROVE Sound(db, wk, calls, crashes)
  BY InvIsSound
<1>1. db = EmptyDatabase BY DEF Init
<1>2. \A j \in JoinSteps : Def[j].waitFor \in Seq(WaitNames)
  <2>1. \A j \in JoinSteps : Def[j] \in StepDefinition BY DefinitionAssumption DEF JoinSteps
  <2>2. QED BY <2>1 DEF StepDefinition
<1>3. NoJoinState \in JoinState BY DEF NoJoinState, JoinState
<1>4. EmptyDatabase \in Database
  BY <1>2, <1>3 DEF EmptyDatabase, Database, WorkflowStatus
<1>5. EmptyDatabase.queue = {} /\ EmptyDatabase.dlq = {} BY DEF EmptyDatabase
<1>6. Good(db) BY <1>1, <1>4, <1>5 DEF Good, SoundItems, SoundLetters
<1>7. wk = [w \in Workers |-> Idle] /\ Idle \notin InFlight BY DEF Init, Idle, InFlight
<1>8. WorkersSound(db, wk) BY <1>7 DEF WorkersSound
<1>9. calls \in [Instances -> [Steps -> Calls]] /\ crashes \in Nat
  BY DEF Init, Calls, NoCalls
<1>10. QED BY <1>6, <1>8, <1>9 DEF Sound

\* Every step of the engine, of the workers and of the users keeps the invariant.
LEMMA NextSound == Inv /\ [Next]_vars => Inv'
<1> SUFFICES ASSUME Inv, [Next]_vars PROVE Inv'
  OBVIOUS
<1>1. Now BY InvIsSound DEF Now
<1>2. Then => Inv'
  <2>1. (Sound(db, wk, calls, crashes))' => Inv' BY InvIsSound, PTL
  <2>2. QED BY <2>1 DEF Then
<1>3. CASE Api BY <1>1, <1>2, <1>3, ApiSound
<1>4. ASSUME NEW w \in Workers, ExecuteNext(w) PROVE Inv'
  <2>1. CASE \E q \in db.queue : StartTask(w, q) \/ StartCompensation(w, q)
    BY <1>1, <1>2, <2>1, StartSound
  <2>2. CASE \E ok \in BOOLEAN : FinishTask(w, ok) \/ FinishCompensation(w, ok)
    BY <1>1, <1>2, <2>2, FinishSound
  <2>3. CASE \E q \in db.queue :
           \/ DropFrozen(w, q) \/ DropInactive(w, q)
           \/ RejectedByPlugin(w, q) \/ CancelAtStart(w, q)
           \/ ExecuteFork(w, q) \/ ExecuteSavePoint(w, q) \/ ExecuteJoin(w, q)
           \/ \E result \in {"true", "false", "error"} : ExecuteCondition(w, q, result)
           \/ PollHuman(w, q) \/ ResumeHuman(w, q)
           \/ \E decision \in {"confirmed", "rejected"} : DecidedWhilePolling(w, q, decision)
    BY <1>1, <1>2, <2>3, DequeueSound
  <2>4. QED BY <1>4, <2>1, <2>2, <2>3 DEF ExecuteNext
<1>5. ASSUME NEW w \in Workers, CancelTick(w) \/ Crash(w) PROVE Inv'
  BY <1>1, <1>2, <1>5, TickCrashSound
<1>6. CASE UNCHANGED vars
  <2>1. Then BY <1>1, <1>6 DEF Now, Then, vars
  <2>2. QED BY <1>2, <2>1
<1>7. QED BY <1>3, <1>4, <1>5, <1>6 DEF Next

\* The inductive invariant holds for every definition, every set of instances and
\* workers, each of the three stores and every bound.
THEOREM Invariance == Spec => []Inv
BY InitSound, NextSound, PTL DEF Spec

\* Every table and every worker always holds values of its type.
THEOREM TypeCorrect == Spec => []TypeOK
<1>1. Inv => TypeOK BY DEF Inv
<1>2. QED BY <1>1, Invariance, PTL

\* Queue ids are never given out twice, every item and every worker has a row of its
\* own instance (EnqueueStep, CreateStep, RequeueDeadLetter, rollbackStep).
THEOREM QueueIsSound == Spec => []QueueSound
<1>1. Inv => QueueSound BY DEF Inv
<1>2. QED BY <1>1, Invariance, PTL

\* No two workers ever hold the same queue item (DequeueStep), also when crashed
\* transactions give items back and dead letters are requeued meanwhile.
THEOREM ClaimsAreExclusive == Spec => []ExclusiveClaims
<1>1. Inv => ExclusiveClaims BY DEF Inv
<1>2. QED BY <1>1, Invariance, PTL
=============================================================================
