--------------------------- MODULE IsolationProofs ---------------------------
(***************************************************************************)
(* Instances do not meet, and a workflow in DLQ state can be taken out of  *)
(* it.  Touches(d, e, i) says of an operation from d to e that it is       *)
(* harmless (Leads of module StoreProofs), changes instance i only, leaves *)
(* the queue items of the others, and does not put i into DLQ state.  It   *)
(* is transitive, so every function of the engine but moveToDLQ has it;    *)
(* what moveToDLQ leaves is Frozen.                                        *)
(***************************************************************************)
EXTENDS EngineProofs

\* The items of the other instances stay in the queue.
Keeps(d, e, i) == \A q \in d.queue : q.inst # i => q \in e.queue

Touches(d, e, i) ==
    /\ Leads(d, e)
    /\ Apart(d, e, i)
    /\ Keeps(d, e, i)
    /\ e.inst[i] = "dlq" => d.inst[i] = "dlq"

\* Instance i is in DLQ state as moveToDLQ leaves it: a dead letter names a paused row,
\* and nothing of it is queued.
Frozen(d, i) ==
    /\ \E rec \in d.dlq : rec.inst = i /\ d.steps[rec.step].status = "paused"
    /\ \A q \in d.queue : q.inst # i

\* The same, except that i may come into DLQ state in the way it should.
Ends(d, e, i) ==
    /\ Leads(d, e)
    /\ Apart(d, e, i)
    /\ e.inst[i] = "dlq" => d.inst[i] = "dlq" \/ Frozen(e, i)
Settles(d, e, i) == Ends(d, e, i) /\ Keeps(d, e, i)

\* An operation that does nothing touches nothing.
LEMMA TouchesRefl ==
    ASSUME NEW d, Good(d), NEW i PROVE Touches(d, d, i)
<1>1. \A k \in 1..Len(d.steps) : ~(k > Len(d.steps)) BY FieldTypes DEF Good
<1>2. QED BY <1>1, LeadsRefl DEF Touches, Apart, Keeps

\* Operations for the same instance can be chained.
LEMMA ApartTrans ==
    ASSUME NEW d, NEW e, NEW f, NEW i, Good(d), Leads(d, e), Leads(e, f),
           Apart(d, e, i), Apart(e, f, i)
    PROVE  Apart(d, f, i)
<1>1. Len(d.steps) \in Nat /\ Len(e.steps) \in Nat /\ Len(f.steps) \in Nat
  BY FieldTypes DEF Good, Leads
<1>2. /\ Len(d.steps) <= Len(e.steps)
      /\ \A k \in 1..Len(d.steps) : e.steps[k].inst = d.steps[k].inst
      /\ \A k \in 1..Len(e.steps) : f.steps[k].inst = e.steps[k].inst
  BY DEF Leads, Extends, RowsKept, Kept
<1>3. \A k \in 1..Len(d.steps) : d.steps[k].inst # i => f.steps[k] = d.steps[k]
  BY <1>1, <1>2 DEF Apart
<1>4. \A k \in 1..Len(f.steps) : k > Len(d.steps) => f.steps[k].inst = i
  <2> TAKE k \in 1..Len(f.steps)
  <2>1. CASE k > Len(e.steps) BY <2>1 DEF Apart
  <2>2. CASE ~(k > Len(e.steps))
    <3>1. k \in 1..Len(e.steps) BY <1>1, <2>2
    <3>2. QED BY <1>2, <3>1 DEF Apart
  <2>3. QED BY <2>1, <2>2
<1>5. QED BY <1>3, <1>4 DEF Apart

\* Two parts of a handler for the same instance, one after the other.
LEMMA TouchesTrans ==
    ASSUME NEW d, NEW e, NEW f, NEW i, Good(d), Touches(d, e, i), Touches(e, f, i)
    PROVE  Touches(d, f, i)
BY ApartTrans, LeadsTrans DEF Touches, Keeps

\* What comes last may put the instance into DLQ state.
LEMMA SettlesAfter ==
    ASSUME NEW d, NEW e, NEW f, NEW i, Good(d), Touches(d, e, i), Settles(e, f, i)
    PROVE  Settles(d, f, i)
BY ApartTrans, LeadsTrans DEF Touches, Settles, Ends, Keeps

\* What does not enter the DLQ state settles.
LEMMA TouchesSettles ==
    ASSUME NEW d, NEW e, NEW i, Touches(d, e, i) PROVE Settles(d, e, i)
BY DEF Touches, Settles, Ends

\* A good database is left behind.
LEMMA TouchesGood ==
    ASSUME NEW d, NEW e, NEW i, Touches(d, e, i) PROVE Good(e)
BY DEF Touches, Leads

----------------------------------------------------------------------------
(* The operations of the store *)

\* Statuses, cancel requests and dead letters stay; rows of other instances do.
LEMMA RowsTouched ==
    ASSUME NEW d, NEW e, NEW i, Good(d), Leads(d, e),
           e.inst = d.inst, e.cancel = d.cancel, e.join = d.join, e.dlq = d.dlq,
           Len(e.steps) = Len(d.steps),
           \A k \in 1..Len(d.steps) : d.steps[k].inst # i => e.steps[k] = d.steps[k],
           Keeps(d, e, i)
    PROVE  Touches(d, e, i)
<1>1. Len(d.steps) \in Nat BY FieldTypes DEF Good
<1>2. \A k \in 1..Len(e.steps) : ~(k > Len(d.steps)) BY <1>1
<1>3. QED BY <1>2 DEF Touches, Apart

\* Only the queue is changed: EnqueueStep, RemoveFromQueue.
LEMMA QueueTouched ==
    ASSUME NEW d, NEW i, Good(d), NEW q, NEW n, \A r \in d.queue : r.inst # i => r \in q
    PROVE  /\ Leads(d, [d EXCEPT !.queue = q, !.nq = n]) =>
                 Touches(d, [d EXCEPT !.queue = q, !.nq = n], i)
           /\ Leads(d, [d EXCEPT !.queue = q]) => Touches(d, [d EXCEPT !.queue = q], i)
<1>1. d \in Database BY DEF Good
<1> DEFINE e == [d EXCEPT !.queue = q, !.nq = n]
           f == [d EXCEPT !.queue = q]
<1>2. /\ e.inst = d.inst /\ e.cancel = d.cancel /\ e.join = d.join /\ e.dlq = d.dlq
      /\ e.steps = d.steps /\ e.queue = q
  BY <1>1 DEF Database
<1>3. /\ f.inst = d.inst /\ f.cancel = d.cancel /\ f.join = d.join /\ f.dlq = d.dlq
      /\ f.steps = d.steps /\ f.queue = q
  BY <1>1 DEF Database
<1> HIDE DEF e, f
<1>4. Leads(d, e) => Touches(d, e, i) BY <1>2, RowsTouched DEF Keeps
<1>5. Leads(d, f) => Touches(d, f, i) BY <1>3, RowsTouched DEF Keeps
<1>6. QED BY <1>4, <1>5 DEF e, f

\* Queueing a row of the instance.
LEMMA EnqueueStepTouches ==
    ASSUME NEW d, Good(d), NEW i, NEW k, IsRow(d, i, k)
    PROVE  Touches(d, EnqueueStep(d, i, k), i)
<1>1. Leads(d, EnqueueStep(d, i, k)) BY EnqueueRowLeads
<1>2. QED BY <1>1, QueueTouched DEF EnqueueStep, EnqueueRange

\* Taking an item out of the queue changes nothing else.
LEMMA RemoveFromQueueEnds ==
    ASSUME NEW d, Good(d), NEW i, NEW id
    PROVE  Ends(d, RemoveFromQueue(d, id), i)
<1> DEFINE e == RemoveFromQueue(d, id)
<1>1. /\ e.inst = d.inst /\ e.cancel = d.cancel /\ e.join = d.join /\ e.dlq = d.dlq
      /\ e.steps = d.steps
  BY DEF RemoveFromQueue, Good, Database
<1>2. Leads(d, e) BY RemoveFromQueueLeads
<1> HIDE DEF e
<1>3. \A k \in 1..Len(d.steps) : ~(k > Len(d.steps)) BY FieldTypes DEF Good
<1>4. Ends(d, e, i) BY <1>1, <1>2, <1>3 DEF Ends, Apart
<1>5. QED BY <1>4 DEF e

\* UpdateInstanceStatus, to anything but DLQ state.
LEMMA UpdateInstanceStatusTouches ==
    ASSUME NEW d, Good(d), NEW i \in Instances, NEW s \in WorkflowStatus, s # "dlq"
    PROVE  Touches(d, UpdateInstanceStatus(d, i, s), i)
<1> DEFINE e == UpdateInstanceStatus(d, i, s)
<1>1. d \in Database /\ d.inst \in [Instances -> WorkflowStatus] BY FieldTypes DEF Good
<1>2. /\ e.inst = [d.inst EXCEPT ![i] = s] /\ e.cancel = d.cancel /\ e.join = d.join
      /\ e.dlq = d.dlq /\ e.steps = d.steps /\ e.queue = d.queue
  BY <1>1 DEF Database, UpdateInstanceStatus
<1>3. Leads(d, e) BY UpdateInstanceStatusLeads
<1> HIDE DEF e
<1>4. Len(d.steps) \in Nat BY <1>1, FieldTypes
<1>5. \A k \in 1..Len(e.steps) : ~(k > Len(d.steps)) BY <1>2, <1>4
<1>6. e.inst[i] # "dlq" /\ \A h \in Instances \ {i} : e.inst[h] = d.inst[h] BY <1>1, <1>2
<1>7. Touches(d, e, i) BY <1>2, <1>3, <1>5, <1>6 DEF Touches, Apart, Keeps
<1>8. QED BY <1>7 DEF e

\* The steps table is replaced by one of the same length that has the rows of the others.
LEMMA StepsTouched ==
    ASSUME NEW d, Good(d), NEW i, NEW s, Leads(d, [d EXCEPT !.steps = s]),
           Len(s) = Len(d.steps),
           \A k \in 1..Len(d.steps) : d.steps[k].inst # i => s[k] = d.steps[k]
    PROVE  Touches(d, [d EXCEPT !.steps = s], i)
<1> DEFINE e == [d EXCEPT !.steps = s]
<1>1. /\ e.inst = d.inst /\ e.cancel = d.cancel /\ e.join = d.join /\ e.dlq = d.dlq
      /\ e.steps = s /\ e.queue = d.queue
  BY DEF Good, Database
<1>2. Leads(d, e) OBVIOUS
<1> HIDE DEF e
<1>3. Touches(d, e, i) BY <1>1, <1>2, RowsTouched DEF Keeps
<1>4. QED BY <1>3 DEF e

\* UpdateStep on rows of the instance.
LEMMA UpdateStepsTouches ==
    ASSUME NEW d, Good(d), NEW i, NEW K, NEW status \in StepStatus,
           \A k \in K : k \in 1..Len(d.steps) => d.steps[k].inst = i
    PROVE  Touches(d, UpdateSteps(d, K, status), i)
<1> DEFINE s == [k \in DOMAIN d.steps |->
                   IF k \in K THEN WithStatus(d.steps[k], status) ELSE d.steps[k]]
<1>1. d \in Database BY DEF Good
<1>2. DOMAIN d.steps = 1..Len(d.steps) /\ Len(d.steps) \in Nat BY <1>1, FieldTypes
<1>3. UpdateSteps(d, K, status) = [d EXCEPT !.steps = s] BY DEF UpdateSteps
<1>4. Leads(d, UpdateSteps(d, K, status)) BY UpdateStepsLeads
<1>5. \A k \in 1..Len(d.steps) : d.steps[k].inst # i => s[k] = d.steps[k] BY <1>2
<1>6. Len(s) = Len(d.steps) BY <1>2
<1> HIDE DEF s
<1>7. QED BY <1>3, <1>4, <1>5, <1>6, StepsTouched

\* UpdateStep on one row of the instance.
LEMMA UpdateStepTouches ==
    ASSUME NEW d, Good(d), NEW i, NEW k, IsRow(d, i, k), NEW status \in StepStatus
    PROVE  Touches(d, UpdateStep(d, k, status), i)
BY UpdateStepsTouches DEF UpdateStep, IsRow

\* UpdateStepStatus on a row of the instance.
LEMMA UpdateStepStatusTouches ==
    ASSUME NEW d, Good(d), NEW i, NEW k, IsRow(d, i, k), NEW status \in StepStatus
    PROVE  Touches(d, UpdateStepStatus(d, k, status), i)
<1> DEFINE s == [d.steps EXCEPT ![k] = [d.steps[k] EXCEPT !.status = status]]
<1>1. d \in Database BY DEF Good
<1>2. DOMAIN d.steps = 1..Len(d.steps) /\ Len(d.steps) \in Nat BY <1>1, FieldTypes
<1>3. UpdateStepStatus(d, k, status) = [d EXCEPT !.steps = s]
  BY <1>1, FieldTypes DEF UpdateStepStatus
<1>4. Leads(d, UpdateStepStatus(d, k, status)) BY UpdateStepStatusLeads DEF IsRow
<1>5. \A m \in 1..Len(d.steps) : d.steps[m].inst # i => s[m] = d.steps[m] BY <1>2 DEF IsRow
<1>6. Len(s) = Len(d.steps) BY <1>1, FieldTypes
<1> HIDE DEF s
<1>7. QED BY <1>3, <1>4, <1>5, <1>6, StepsTouched

\* UpdateStepCompensationRetry on rows of the instance.
LEMMA CompensationRetryTouches ==
    ASSUME NEW d, Good(d), NEW i, NEW K, NEW count \in [K -> Nat],
           \A k \in K : k \in 1..Len(d.steps) => d.steps[k].inst = i
    PROVE  Touches(d, UpdateStepsCompensationRetry(d, K, count), i)
<1> DEFINE s == [k \in DOMAIN d.steps |->
                   IF k \in K THEN [d.steps[k] EXCEPT !.comp = count[k], !.status = "compensation"]
                   ELSE d.steps[k]]
<1>1. d \in Database BY DEF Good
<1>2. DOMAIN d.steps = 1..Len(d.steps) /\ Len(d.steps) \in Nat BY <1>1, FieldTypes
<1>3. UpdateStepsCompensationRetry(d, K, count) = [d EXCEPT !.steps = s]
  BY DEF UpdateStepsCompensationRetry
<1>4. Leads(d, UpdateStepsCompensationRetry(d, K, count)) BY CompensationRetryLeads
<1>5. \A k \in 1..Len(d.steps) : d.steps[k].inst # i => s[k] = d.steps[k] BY <1>2
<1>6. Len(s) = Len(d.steps) BY <1>2
<1> HIDE DEF s
<1>7. QED BY <1>3, <1>4, <1>5, <1>6, StepsTouched

\* CreateStep adds rows of the instance and changes none.
LEMMA CreateStepsTouches ==
    ASSUME NEW d, Good(d), NEW i \in Instances, NEW names \in Seq(Steps), NEW st \in StepStatus
    PROVE  /\ Touches(d, CreateSteps(d, i, names, st), i)
           /\ \A k \in 1..Len(d.steps) : CreateSteps(d, i, names, st).steps[k] = d.steps[k]
<1> DEFINE new == [k \in 1..Len(names) |-> NewStep(i, names[k], st)]
           e == CreateSteps(d, i, names, st)
           b == Len(d.steps)
<1>1. d \in Database /\ d.steps \in Seq(WorkflowStep) BY FieldTypes DEF Good
<1>2. new \in Seq(WorkflowStep) /\ Len(new) = Len(names) BY DEF NewStep, WorkflowStep
<1>3. /\ e.inst = d.inst /\ e.cancel = d.cancel /\ e.join = d.join /\ e.dlq = d.dlq
      /\ e.steps = d.steps \o new /\ e.queue = d.queue
  BY <1>1 DEF Database, CreateSteps
<1>4. /\ Leads(d, e) /\ Len(e.steps) = b + Len(names)
      /\ \A k \in 1..Len(names) : e.steps[b + k].inst = i
  BY CreateStepsLeads
<1>5. b \in Nat /\ Len(names) \in Nat BY <1>1, LenProperties
<1> HIDE DEF new, e
<1>6. \A k \in 1..b : e.steps[k] = d.steps[k]
  <2> DEFINE c == d.steps \o new
  <2>1. \A k \in 1..b + Len(new) : c[k] = IF k <= b THEN d.steps[k] ELSE new[k - b]
    BY <1>1, <1>2, ConcatProperties
  <2>2. e.steps = c BY <1>3
  <2> HIDE DEF b, c
  <2>3. QED BY <1>2, <1>5, <2>1, <2>2
<1>7. \A k \in 1..Len(e.steps) : k > b => e.steps[k].inst = i
  <2> HIDE DEF b
  <2> TAKE k \in 1..Len(e.steps)
  <2>1. k > b => k - b \in 1..Len(names) /\ b + (k - b) = k BY <1>4, <1>5
  <2>2. QED BY <1>4, <2>1
<1>8. QED BY <1>3, <1>4, <1>6, <1>7 DEF Touches, Apart, Keeps, e

\* Only the join states are changed, and those of the other instances only by the
\* memory store.
LEMMA JoinsTouched ==
    ASSUME NEW d, Good(d), NEW i, NEW J, Leads(d, [d EXCEPT !.join = J]),
           StoreKind # "memory" => \A h \in Instances \ {i} : J[h] = d.join[h]
    PROVE  Touches(d, [d EXCEPT !.join = J], i)
<1> DEFINE e == [d EXCEPT !.join = J]
<1>1. /\ e.inst = d.inst /\ e.cancel = d.cancel /\ e.join = J /\ e.dlq = d.dlq
      /\ e.steps = d.steps /\ e.queue = d.queue
  BY DEF Good, Database
<1>2. Leads(d, e) OBVIOUS
<1> HIDE DEF e
<1>3. \A k \in 1..Len(d.steps) : ~(k > Len(d.steps)) BY FieldTypes DEF Good
<1>4. Touches(d, e, i) BY <1>1, <1>2, <1>3 DEF Touches, Apart, Keeps
<1>5. QED BY <1>4 DEF e

\* One join state of the instance is changed.
LEMMA OneJoinTouched ==
    ASSUME NEW d, Good(d), NEW i \in Instances, NEW j \in JoinSteps, NEW js \in JoinState
    PROVE  Touches(d, [d EXCEPT !.join[i][j] = js], i)
<1> DEFINE J == [d.join EXCEPT ![i] = [d.join[i] EXCEPT ![j] = js]]
<1>1. d \in Database BY DEF Good
<1>2. [d EXCEPT !.join[i][j] = js] = [d EXCEPT !.join = J] BY <1>1 DEF Database
<1>3. Leads(d, [d EXCEPT !.join[i][j] = js]) BY OneJoinReplacedLeads, Zenon
<1>4. \A h \in Instances \ {i} : J[h] = d.join[h] BY <1>1, FieldTypes
<1> HIDE DEF J
<1>5. Leads(d, [d EXCEPT !.join = J]) BY <1>2, <1>3, Zenon
<1>6. Touches(d, [d EXCEPT !.join = J], i) BY <1>4, <1>5, JoinsTouched, Zenon
<1>7. QED BY <1>2, <1>6, Zenon

\* UpdateJoinState, CreateJoinState, AddToJoinWaitFor and ReplaceInJoinWaitFor.
LEMMA UpdateJoinStatesTouches ==
    ASSUME NEW d, Good(d), NEW i \in Instances, NEW J, NEW n \in Steps, NEW success \in BOOLEAN
    PROVE  Touches(d, UpdateJoinStates(d, i, J, n, success), i)
<1> DEFINE ji == [j \in DOMAIN d.join[i] |->
                    IF j \in J THEN JoinUpdated(j, d.join[i][j], n, success) ELSE d.join[i][j]]
           JJ == [d.join EXCEPT ![i] = ji]
<1>1. d \in Database BY DEF Good
<1>2. UpdateJoinStates(d, i, J, n, success) = [d EXCEPT !.join = JJ]
  BY <1>1 DEF Database, UpdateJoinStates
<1>3. Leads(d, UpdateJoinStates(d, i, J, n, success)) BY UpdateJoinStatesLeads
<1> HIDE DEF ji
<1>4. \A h \in Instances \ {i} : JJ[h] = d.join[h] BY <1>1, FieldTypes
<1> HIDE DEF JJ
<1>5. Leads(d, [d EXCEPT !.join = JJ]) BY <1>2, <1>3, Zenon
<1>6. Touches(d, [d EXCEPT !.join = JJ], i) BY <1>4, <1>5, JoinsTouched, Zenon
<1>7. QED BY <1>2, <1>6, Zenon

\* CreateJoinState.
LEMMA CreateJoinStateTouches ==
    ASSUME NEW d, Good(d), NEW i \in Instances, NEW j \in JoinSteps, NEW w \in Seq(WaitNames)
    PROVE  Touches(d, CreateJoinState(d, i, j, w), i)
<1> DEFINE js == [NoJoinState EXCEPT !.exists = TRUE, !.waiting = w]
<1>1. js \in JoinState BY DEF NoJoinState, JoinState
<1>2. CreateJoinState(d, i, j, w) = IF d.join[i][j].exists THEN d ELSE [d EXCEPT !.join[i][j] = js]
  BY DEF CreateJoinState
<1> HIDE DEF js
<1>3. Touches(d, [d EXCEPT !.join[i][j] = js], i) BY <1>1, OneJoinTouched, Zenon
<1>4. Touches(d, d, i) BY TouchesRefl
<1>5. QED BY <1>2, <1>3, <1>4, Zenon

\* AddToJoinWaitFor.
LEMMA AddToJoinWaitForTouches ==
    ASSUME NEW d, Good(d), NEW i \in Instances, NEW j \in JoinSteps, NEW n \in Steps
    PROVE  Touches(d, AddToJoinWaitFor(d, i, j, n), i)
<1> DEFINE js1 == [d.join[i][j] EXCEPT !.waiting = Append(d.join[i][j].waiting, n)]
           js2 == Rechecked(j, js1)
<1>1. d.join[i][j] \in JoinState BY FieldTypes DEF Good
<1>2. Append(d.join[i][j].waiting, n) \in Seq(WaitNames) BY <1>1 DEF JoinState, WaitNames
<1>3. js1 \in JoinState BY <1>1, <1>2 DEF JoinState
<1>4. AddToJoinWaitFor(d, i, j, n) = [d EXCEPT !.join[i][j] = js2]
  BY Zenon DEF AddToJoinWaitFor
<1> HIDE DEF js1
<1>5. js2 \in JoinState BY <1>3, RecheckedType
<1> HIDE DEF js2
<1>6. Touches(d, [d EXCEPT !.join[i][j] = js2], i) BY <1>5, OneJoinTouched, Zenon
<1>7. QED BY <1>4, <1>6, Zenon

\* ReplaceInJoinWaitFor.
LEMMA ReplaceInJoinWaitForTouches ==
    ASSUME NEW d, Good(d), NEW i \in Instances, NEW j \in JoinSteps, NEW v, NEW n \in Steps
    PROVE  Touches(d, ReplaceInJoinWaitFor(d, i, j, v, n), i)
<1> DEFINE e == ReplacedInSharedSlice(d, i, j, v, n)
           f == ReplaceInJoinWaitFor(d, i, j, v, n)
<1>1. d \in Database BY DEF Good
<1>2. Leads(d, f) BY ReplaceInJoinWaitForLeads
<1>3. e \in Database BY SharedSliceLeads DEF Leads, Good
<1>4. PICK js : f = [e EXCEPT !.join[i][j] = js] BY Zenon DEF ReplaceInJoinWaitFor
<1>5. StoreKind # "memory" => e = d BY Zenon DEF ReplacedInSharedSlice
<1>6. e.inst = d.inst /\ e.cancel = d.cancel /\ e.dlq = d.dlq /\ e.steps = d.steps
      /\ e.queue = d.queue
  <2> DEFINE k == SelectInSeq(d.waitFor[j], LAMBDA x : x = v)
             shares(h) == d.join[h][j].exists /\ Len(d.join[h][j].waiting) = Len(d.waitFor[j])
             J == [h \in Instances |->
                     IF shares(h) THEN [d.join[h] EXCEPT ![j].waiting[k] = n] ELSE d.join[h]]
             g == [d EXCEPT !.waitFor[j][k] = n, !.join = J]
  <2>1. e = d \/ e = g BY Zenon DEF ReplacedInSharedSlice
  <2> HIDE DEF k, J
  <2>2. g.inst = d.inst /\ g.cancel = d.cancel /\ g.dlq = d.dlq /\ g.steps = d.steps
        /\ g.queue = d.queue
    BY <1>1 DEF Database
  <2> HIDE DEF e, g
  <2>3. QED BY <2>1, <2>2
<1> HIDE DEF e, f
<1>7. /\ f.inst = d.inst /\ f.cancel = d.cancel /\ f.dlq = d.dlq /\ f.steps = d.steps
      /\ f.join = [e.join EXCEPT ![i][j] = js] /\ f.queue = d.queue
  BY <1>3, <1>4, <1>6 DEF Database
<1>8. StoreKind # "memory" => \A h \in Instances \ {i} : f.join[h] = d.join[h]
  BY <1>1, <1>5, <1>7, FieldTypes
<1>9. \A k \in 1..Len(d.steps) : ~(k > Len(d.steps)) BY <1>1, FieldTypes
<1>10. Touches(d, f, i) BY <1>2, <1>7, <1>8, <1>9 DEF Touches, Apart, Keeps
<1>11. QED BY <1>10 DEF f

\* The cancel request of the instance is made or deleted.
LEMMA CancelRequestTouches ==
    ASSUME NEW d, Good(d), NEW i \in Instances, NEW kind \in {"cancel", "abort"}
    PROVE  /\ Touches(d, CreateCancelRequest(d, i, kind), i)
           /\ Touches(d, DeleteCancelRequest(d, i), i)
<1>1. ASSUME NEW c \in {"none", "cancel", "abort"}
      PROVE  Touches(d, [d EXCEPT !.cancel[i] = c], i)
  <2> DEFINE e == [d EXCEPT !.cancel[i] = c]
  <2>1. d \in Database /\ d.cancel \in [Instances -> {"none", "cancel", "abort"}]
    BY FieldTypes DEF Good
  <2>2. /\ e.inst = d.inst /\ e.cancel = [d.cancel EXCEPT ![i] = c] /\ e.join = d.join
        /\ e.dlq = d.dlq /\ e.steps = d.steps /\ e.queue = d.queue
    BY <2>1 DEF Database
  <2>3. Leads(d, e) BY CancelReplacedLeads, Zenon
  <2> HIDE DEF e
  <2>4. \A h \in Instances \ {i} : e.cancel[h] = d.cancel[h] BY <2>1, <2>2
  <2>5. \A k \in 1..Len(d.steps) : ~(k > Len(d.steps)) BY <2>1, FieldTypes
  <2>6. Touches(d, e, i) BY <2>2, <2>3, <2>4, <2>5 DEF Touches, Apart, Keeps
  <2>7. QED BY <2>6 DEF e
<1>2. Touches(d, d, i) BY TouchesRefl
<1>3. QED BY <1>1, <1>2, Zenon DEF CreateCancelRequest, DeleteCancelRequest

\* There is a dead letter of instance i for row k.
HasLetter(d, i, k) == \E rec \in d.dlq : rec.inst = i /\ rec.step = k

\* Dead letters are written for rows of the instance.
LEMMA CreateDeadLetterRecordsTouches ==
    ASSUME NEW d, Good(d), NEW i, NEW K \in SUBSET (1..Len(d.steps)),
           \A k \in K : d.steps[k].inst = i
    PROVE  /\ Touches(d, CreateDeadLetterRecords(d, K), i)
           /\ CreateDeadLetterRecords(d, K).steps = d.steps
           /\ \A k \in K : HasLetter(CreateDeadLetterRecords(d, K), i, k)
<1> DEFINE C(k) == Cardinality({m \in K : m > k})
           new == {[id |-> d.nd + C(k), inst |-> d.steps[k].inst, step |-> k] : k \in K}
           e == CreateDeadLetterRecords(d, K)
<1>1. d \in Database BY DEF Good
<1>2. /\ e.inst = d.inst /\ e.cancel = d.cancel /\ e.join = d.join
      /\ e.dlq = d.dlq \cup new /\ e.steps = d.steps /\ e.queue = d.queue
  BY <1>1 DEF Database, CreateDeadLetterRecords
<1>3. Leads(d, e) BY CreateDeadLetterRecordsLeads
<1> HIDE DEF C
<1>4. \A rec \in new : rec.inst = i OBVIOUS
<1>5. \A k \in K : \E rec \in new : rec.inst = i /\ rec.step = k
  <2> TAKE k \in K
  <2> DEFINE r == [id |-> d.nd + C(k), inst |-> d.steps[k].inst, step |-> k]
  <2>1. r \in new /\ r.inst = i /\ r.step = k OBVIOUS
  <2>2. QED BY <2>1
<1> HIDE DEF e, new
<1>6. \A k \in 1..Len(d.steps) : ~(k > Len(d.steps)) BY <1>1, FieldTypes
<1>7. Touches(d, e, i) BY <1>2, <1>3, <1>4, <1>6 DEF Touches, Apart, Keeps
<1>8. \A k \in K : HasLetter(e, i, k) BY <1>2, <1>5 DEF HasLetter
<1>9. QED BY <1>2, <1>7, <1>8 DEF e

\* PauseActiveStepsAndClearQueue: rows that are paused stay so, the dead letters stay,
\* and no item of the instance is left.
LEMMA PauseTouches ==
    ASSUME NEW d, Good(d), NEW i
    PROVE  LET e == PauseActiveStepsAndClearQueue(d, i)
           IN  /\ Touches(d, e, i)
               /\ e.dlq = d.dlq
               /\ \A q \in e.queue : q.inst # i
               /\ \A k \in 1..Len(d.steps) :
                    d.steps[k].status = "paused" => e.steps[k].status = "paused"
<1> DEFINE K == {k \in Rows(d, i) : d.steps[k].status \in PausedByDLQ}
           d1 == UpdateSteps(d, K, "paused")
           Q == {q \in d1.queue : q.inst # i}
           e == [d1 EXCEPT !.queue = Q]
<1>1. d \in Database BY DEF Good
<1>2. "paused" \in StepStatus BY DEF StepStatus
<1>3. \A k \in K : k \in 1..Len(d.steps) => d.steps[k].inst = i BY DEF Rows
<1>4. PauseActiveStepsAndClearQueue(d, i) = e BY DEF PauseActiveStepsAndClearQueue
<1>5. Leads(d, e) BY <1>4, PauseLeads
<1> HIDE DEF K
<1>6. Touches(d, d1, i) BY <1>2, <1>3, UpdateStepsTouches
<1>7. \A k \in 1..Len(d.steps) :
         d.steps[k].status = "paused" => d1.steps[k].status = "paused"
  <2>1. d1.steps = [k \in 1..Len(d.steps) |->
                      IF k \in K THEN WithStatus(d.steps[k], "paused") ELSE d.steps[k]]
    BY <1>1, FieldTypes DEF UpdateSteps, Database
  <2>2. \A row \in WorkflowStep : WithStatus(row, "paused").status = "paused"
    BY DEF WithStatus, WorkflowStep
  <2> HIDE DEF d1
  <2>3. QED BY <1>1, <2>1, <2>2, FieldTypes
<1>8. d1.dlq = d.dlq BY <1>1 DEF UpdateSteps, Database
<1>9. d1 \in Database /\ Good(d1) BY <1>6 DEF Touches, Leads, Good
<1> HIDE DEF d1
<1>10. Q \in SUBSET d1.queue /\ \A r \in d1.queue : r.inst # i => r \in Q OBVIOUS
<1>11. \A q \in Q : q.inst # i OBVIOUS
<1> HIDE DEF Q
<1>12. Leads(d1, e) BY <1>9, <1>10, QueueShrinks, Zenon
<1>13. Touches(d1, e, i) BY <1>9, <1>10, <1>12, QueueTouched, Zenon
<1>14. e.queue = Q /\ e.dlq = d1.dlq /\ e.steps = d1.steps BY <1>9 DEF Database
<1> HIDE DEF e
<1>15. Touches(d, e, i) BY <1>6, <1>13, TouchesTrans
<1>16. QED BY <1>4, <1>7, <1>8, <1>11, <1>14, <1>15

\* RequeueDeadLetter, in all three stores, touches the instance of the letter.
LEMMA RequeueDeadLetterTouches ==
    ASSUME NEW d, Good(d), NEW rec \in d.dlq
    PROVE  Touches(d, RequeueDeadLetter(d, rec), rec.inst)
<1> DEFINE i == rec.inst
           k == rec.step
           e == Reset(d, rec)
           f == UpdateSteps(e, PausedJoins(d, i), "pending")
<1>1. d \in Database BY DEF Good
<1>2. IsRow(d, i, k) BY DEF Good, SoundLetters, IsRow
<1>3. i \in Instances BY <1>2, RowName
<1>4. /\ e.inst = [d.inst EXCEPT ![i] = IF @ \in {"failed", "dlq"} THEN "running" ELSE @]
      /\ e.cancel = d.cancel /\ e.join = d.join /\ e.dlq = d.dlq \ {rec}
      /\ e.steps = [d.steps EXCEPT ![k] = [@ EXCEPT !.status = "pending", !.retry = 0, !.comp = 0]]
      /\ e.queue = d.queue
  BY <1>1 DEF Reset, Database
<1>5. Leads(d, e) BY ResetLeads
<1> HIDE DEF e, i, k
<1>6. Touches(d, e, i)
  <2>1. d.inst \in [Instances -> WorkflowStatus] BY <1>1, FieldTypes
  <2>2. e.inst[i] # "dlq" /\ \A h \in Instances \ {i} : e.inst[h] = d.inst[h]
    BY <1>3, <1>4, <2>1
  <2>3. /\ Len(e.steps) = Len(d.steps)
        /\ \A m \in 1..Len(d.steps) : d.steps[m].inst # i => e.steps[m] = d.steps[m]
    BY <1>1, <1>2, <1>4, FieldTypes DEF IsRow
  <2>4. \A m \in 1..Len(d.steps) : ~(m > Len(d.steps)) BY <1>1, FieldTypes
  <2>5. \A r \in d.dlq : r.inst # i => r \in e.dlq BY <1>4 DEF i
  <2>6. QED BY <1>4, <1>5, <2>2, <2>3, <2>4, <2>5 DEF Touches, Apart, Keeps
<1>7. Good(e) /\ IsRow(e, i, k) BY <1>2, <1>5, RowStays DEF Leads
<1>8. Touches(e, f, i)
  <2>1. \A m \in PausedJoins(d, i) : IsRow(d, i, m) BY RowsAre DEF PausedJoins
  <2>2. \A m \in PausedJoins(d, i) : IsRow(e, i, m) BY <1>5, <2>1, RowStays
  <2>3. "pending" \in StepStatus BY DEF StepStatus
  <2>4. QED BY <1>7, <2>2, <2>3, UpdateStepsTouches DEF IsRow
<1>9. Touches(d, f, i) /\ Good(f) BY <1>6, <1>8, TouchesTrans, TouchesGood
<1>10. IsRow(f, i, k) BY <1>7, <1>8, RowStays DEF Touches
<1> HIDE DEF f
<1>11. Touches(d, EnqueueStep(e, i, k), i) BY <1>6, <1>7, EnqueueStepTouches, TouchesTrans
<1>12. Touches(d, EnqueueStep(f, i, k), i) BY <1>9, <1>10, EnqueueStepTouches, TouchesTrans
<1>13. RequeueDeadLetter(d, rec) \in {f, EnqueueStep(e, i, k), EnqueueStep(f, i, k)}
  BY StoreAssumption DEF e, f, i, k, RequeueDeadLetter, RequeueDeadLetterPostgres,
     RequeueDeadLetterSQLite, RequeueDeadLetterMemory
<1>14. QED BY <1>9, <1>11, <1>12, <1>13 DEF i

----------------------------------------------------------------------------
(* The functions of the engine *)

\* CreateStep and EnqueueStep for the same steps leave the rows there are as they are.
LEMMA CreateAndEnqueueTouches ==
    ASSUME NEW d, Good(d), NEW i \in Instances, NEW names \in Seq(Steps)
    PROVE  /\ Touches(d, CreateAndEnqueue(d, i, names), i)
           /\ \A k \in 1..Len(d.steps) : CreateAndEnqueue(d, i, names).steps[k] = d.steps[k]
<1> DEFINE e == CreateSteps(d, i, names, "pending")
           f == CreateAndEnqueue(d, i, names)
<1>1. "pending" \in StepStatus BY DEF StepStatus
<1>2. Touches(d, e, i) /\ \A k \in 1..Len(d.steps) : e.steps[k] = d.steps[k]
  BY <1>1, CreateStepsTouches
<1>3. Leads(d, f) BY CreateAndEnqueueLeads
<1>4. PICK Q, n : f = [e EXCEPT !.queue = e.queue \cup Q, !.nq = n]
  BY Zenon DEF CreateAndEnqueue, EnqueueRange
<1>5. e \in Database /\ Good(e) BY <1>2 DEF Touches, Leads, Good
<1> HIDE DEF e, f
<1>6. /\ f.inst = e.inst /\ f.cancel = e.cancel /\ f.join = e.join /\ f.dlq = e.dlq
      /\ f.steps = e.steps /\ e.queue \subseteq f.queue
  BY <1>4, <1>5 DEF Database
<1>7. Touches(d, f, i) BY <1>2, <1>3, <1>6 DEF Touches, Apart, Keeps
<1>8. QED BY <1>2, <1>6, <1>7 DEF f

\* enqueueNextSteps.
LEMMA EnqueueNextStepsTouches ==
    ASSUME NEW d, Good(d), NEW i \in Instances, NEW names \in Seq(Steps)
    PROVE  Touches(d, enqueueNextSteps(d, i, names), i)
BY CreateAndEnqueueTouches, TouchesRefl DEF enqueueNextSteps

\* executeFork.
LEMMA ExecuteForkTouches ==
    ASSUME NEW d, Good(d), NEW i \in Instances, NEW f \in Steps
    PROVE  Touches(d, executeFork(d, i, f), i)
<1> DEFINE made == CreateAndEnqueue(d, i, Def[f].parallel)
           j == JoinAfter(f)
           w == IF d.waitFor[j] = <<>> THEN Def[f].parallel ELSE d.waitFor[j]
<1>1. executeFork(d, i, f) = IF j = NoStep THEN made ELSE CreateJoinState(made, i, j, w)
  BY DEF executeFork
<1>2. Def[f].parallel \in Seq(Steps) BY DefTypes
<1>3. Touches(d, made, i) BY <1>2, CreateAndEnqueueTouches
<1>4. Good(made) BY <1>3, TouchesGood
<1>5. j \in JoinSteps \cup {NoStep} BY JoinAfterType
<1>6. Def[f].parallel \in Seq(WaitNames) BY <1>2, SeqMonotonic DEF WaitNames
<1> HIDE DEF made, j
<1>7. j \in JoinSteps => w \in Seq(WaitNames) BY <1>6, FieldTypes DEF Good
<1> HIDE DEF w
<1>8. CASE j = NoStep BY <1>1, <1>3, <1>8
<1>9. CASE j # NoStep
  <2>1. Touches(made, CreateJoinState(made, i, j, w), i)
    BY <1>4, <1>5, <1>7, <1>9, CreateJoinStateTouches
  <2>2. QED BY <1>1, <1>3, <1>9, <2>1, TouchesTrans
<1>10. QED BY <1>8, <1>9

\* Telling the joins of a step's outcome leaves the rows there are as they are.
LEMMA NotifyJoinsTouches ==
    ASSUME NEW d, Good(d), NEW i \in Instances, NEW J \in SUBSET JoinSteps,
           NEW n \in Steps, NEW success \in BOOLEAN
    PROVE  /\ Touches(d, notifyJoins(d, i, J, n, success), i)
           /\ \A k \in 1..Len(d.steps) : notifyJoins(d, i, J, n, success).steps[k] = d.steps[k]
<1> DEFINE d1 == UpdateJoinStates(d, i, J, n, success)
           Ready == {j \in J : /\ d1.join[i][j].ready
                               /\ ~hasPendingStepsInParallelBranches(d1, i, j)
                               /\ ~HasStep(d1, i, j)}
           names == SetToSeq(Ready)
           e == notifyJoins(d, i, J, n, success)
<1>1. Touches(d, d1, i) BY UpdateJoinStatesTouches
<1>2. Good(d1) BY <1>1, TouchesGood
<1>3. d1.steps = d.steps BY DEF UpdateJoinStates, Good, Database
<1>4. e = IF d1.inst[i] = "dlq" THEN CreateSteps(d1, i, names, "paused")
          ELSE CreateAndEnqueue(d1, i, names)
  BY Zenon DEF notifyJoins, createReadyJoins
<1> HIDE DEF d1, e
<1>5. Ready \in SUBSET Steps
  <2>1. J \subseteq Steps BY DEF JoinSteps
  <2>2. QED BY <2>1
<1> HIDE DEF Ready
<1>6. names \in Seq(Steps) BY <1>5, NamesAreSeq
<1>7. "paused" \in StepStatus BY DEF StepStatus
<1> HIDE DEF names
<1>8. Touches(d1, e, i) /\ \A k \in 1..Len(d1.steps) : e.steps[k] = d1.steps[k]
  BY <1>2, <1>4, <1>6, <1>7, CreateStepsTouches, CreateAndEnqueueTouches
<1>9. Touches(d, e, i) BY <1>1, <1>8, TouchesTrans
<1>10. QED BY <1>3, <1>8, <1>9 DEF e

\* notifyJoinSteps.
LEMMA NotifyJoinStepsTouches ==
    ASSUME NEW d, Good(d), NEW i \in Instances, NEW n \in Steps, NEW success \in BOOLEAN
    PROVE  /\ Touches(d, notifyJoinSteps(d, i, n, success), i)
           /\ \A k \in 1..Len(d.steps) : notifyJoinSteps(d, i, n, success).steps[k] = d.steps[k]
           /\ \A j \in JoinSteps : Touches(d, notifyJoinStepsForStep(d, i, j, n, success), i)
<1> DEFINE J == {j \in JoinSteps : n \in ToSet(d.join[i][j].waiting) \cup ToSet(d.waitFor[j])}
<1>1. J \in SUBSET JoinSteps OBVIOUS
<1>2. notifyJoinSteps(d, i, n, success) = notifyJoins(d, i, J, n, success)
  BY DEF notifyJoinSteps
<1> HIDE DEF J
<1>3. /\ Touches(d, notifyJoins(d, i, J, n, success), i)
      /\ \A k \in 1..Len(d.steps) : notifyJoins(d, i, J, n, success).steps[k] = d.steps[k]
  BY <1>1, NotifyJoinsTouches
<1>4. \A j \in JoinSteps : Touches(d, notifyJoinStepsForStep(d, i, j, n, success), i)
  BY NotifyJoinsTouches DEF notifyJoinStepsForStep
<1>5. QED BY <1>2, <1>3, <1>4

\* The end of a branch with a condition takes the place of its virtual step.
LEMMA ReplaceVirtualStepTouches ==
    ASSUME NEW d, Good(d), NEW i \in Instances, NEW n \in Steps, NEW success \in BOOLEAN
    PROVE  Touches(d, replaceVirtualStep(d, i, n, success), i)
<1> DEFINE c == findConditionStepInBranch(n)
           j == findJoinStepForForkBranch(n)
           e == ReplaceInJoinWaitFor(d, i, j, Virtual[c], n)
<1>1. replaceVirtualStep(d, i, n, success) =
        IF c = NoStep \/ j = NoStep THEN d ELSE notifyJoinStepsForStep(e, i, j, n, success)
  BY Zenon DEF replaceVirtualStep, replaceVirtualOf
<1>2. j \in JoinSteps \cup {NoStep} BY FindJoinType
<1> HIDE DEF c, j
<1>3. CASE c = NoStep \/ j = NoStep BY <1>1, <1>3, TouchesRefl
<1>4. CASE ~(c = NoStep \/ j = NoStep)
  <2>1. j \in JoinSteps BY <1>2, <1>4
  <2>2. Touches(d, e, i) BY <2>1, ReplaceInJoinWaitForTouches
  <2>3. Good(e) BY <2>2, TouchesGood
  <2> HIDE DEF e
  <2>4. Touches(e, notifyJoinStepsForStep(e, i, j, n, success), i)
    BY <2>1, <2>3, NotifyJoinStepsTouches
  <2>5. QED BY <1>1, <1>4, <2>2, <2>4, TouchesTrans
<1>5. QED BY <1>3, <1>4

\* The last step of a branch is entered in the join state.
LEMMA AddTerminalStepTouches ==
    ASSUME NEW d, Good(d), NEW i \in Instances, NEW n \in Steps
    PROVE  Touches(d, addTerminalStep(d, i, n), i)
<1> DEFINE j == findJoinStepForForkBranch(n)
<1>1. \/ addTerminalStep(d, i, n) = d
      \/ j # NoStep /\ addTerminalStep(d, i, n) = CreateJoinState(d, i, j, <<n>>)
      \/ j # NoStep /\ addTerminalStep(d, i, n) = AddToJoinWaitFor(d, i, j, n)
  BY Zenon DEF addTerminalStep, addToWaitFor
<1>2. j \in JoinSteps \cup {NoStep} BY FindJoinType
<1>3. <<n>> \in Seq(WaitNames) BY DEF WaitNames
<1> HIDE DEF j
<1>4. j # NoStep => Touches(d, CreateJoinState(d, i, j, <<n>>), i)
  BY <1>2, <1>3, CreateJoinStateTouches
<1>5. j # NoStep => Touches(d, AddToJoinWaitFor(d, i, j, n), i)
  BY <1>2, AddToJoinWaitForTouches
<1>6. QED BY <1>1, <1>4, <1>5, TouchesRefl

\* Queueing rows of the instance.
LEMMA EnqueueRowsTouches ==
    ASSUME NEW d, Good(d), NEW i \in Instances, NEW K,
           \A k \in K : IsRow(d, i, k)
    PROVE  Touches(d, EnqueueRows(d, i, K), i)
<1>1. K \in SUBSET (1..Len(d.steps)) /\ \A k \in K : d.steps[k].inst = i BY DEF IsRow
<1>2. Leads(d, EnqueueRows(d, i, K)) BY <1>1, EnqueueRowsLeads
<1>3. PICK new, n : EnqueueRows(d, i, K) = [d EXCEPT !.queue = d.queue \cup new, !.nq = n]
  BY Zenon DEF EnqueueRows
<1> DEFINE Q == d.queue \cup new
<1>4. \A r \in d.queue : r.inst # i => r \in Q OBVIOUS
<1>5. Leads(d, [d EXCEPT !.queue = Q, !.nq = n]) BY <1>2, <1>3, Zenon
<1> HIDE DEF Q
<1>6. Touches(d, [d EXCEPT !.queue = Q, !.nq = n], i) BY <1>4, <1>5, QueueTouched, Zenon
<1>7. QED BY <1>3, <1>6, Zenon DEF Q

\* Rows stay rows of the instance.
LEMMA RowsStay ==
    ASSUME NEW d, NEW e, NEW i, Good(d), Touches(d, e, i)
    PROVE  \A k : IsRow(d, i, k) => IsRow(e, i, k)
BY RowStays DEF Touches

\* rollbackStep on any set of steps changes rows, items and dead letters of one instance.
LEMMA RollbackStepsTouches ==
    ASSUME NEW d, Good(d), NEW i \in Instances, NEW names
    PROVE  Touches(d, rollbackSteps(d, i, names), i)
<1> DEFINE K      == {LastRow(d, i, n) : n \in names} \cap Rows(d, i)
           OnF(k) == Def[d.steps[k].name].onFailure
           Plain  == {k \in K : OnF(k) = NoStep}
           Spent  == {k \in K \ Plain : CompensationRetryCount(d, k) >= Def[OnF(k)].maxRetries}
           Undo   == K \ (Plain \cup Spent)
           count  == [k \in Undo |-> CompensationRetryCount(d, k) + 1]
           d0 == UpdateSteps(d, Plain, "rolled_back")
           d1 == UpdateSteps(d0, Spent, "failed")
           d2 == CreateDeadLetterRecords(d1, Spent)
           d3 == UpdateStepsCompensationRetry(d2, Undo, count)
           d4 == EnqueueRows(d3, i, Undo)
<1>1. rollbackSteps(d, i, names) = d4 BY Zenon DEF rollbackSteps, rollbackRows
<1>2. K \subseteq Rows(d, i) OBVIOUS
<1> HIDE DEF K
<1>3. Plain \subseteq Rows(d, i) /\ Spent \subseteq Rows(d, i) /\ Undo \subseteq Rows(d, i)
  BY <1>2
<1> HIDE DEF Plain, Spent, Undo
<1>4. \A k \in Plain \cup Spent \cup Undo : IsRow(d, i, k) BY <1>3, RowsAre
<1>5. count \in [Undo -> Nat]
  <2>1. \A k \in Undo : CompensationRetryCount(d, k) \in Nat
    BY <1>4, RowName DEF CompensationRetryCount, WorkflowStep
  <2>2. QED BY <2>1
<1> HIDE DEF count
<1>6. "rolled_back" \in StepStatus /\ "failed" \in StepStatus BY DEF StepStatus
<1>7. Touches(d, d0, i) BY <1>4, <1>6, UpdateStepsTouches DEF IsRow
<1>8. Good(d0) /\ \A k \in Spent \cup Undo : IsRow(d0, i, k)
  BY <1>4, <1>7, TouchesGood, RowsStay
<1> HIDE DEF d0
<1>9. Touches(d0, d1, i) BY <1>6, <1>8, UpdateStepsTouches DEF IsRow
<1>10. /\ Touches(d, d1, i) /\ Good(d1)
       /\ \A k \in Spent \cup Undo : IsRow(d1, i, k)
  BY <1>7, <1>8, <1>9, TouchesTrans, TouchesGood, RowsStay
<1> HIDE DEF d1
<1>11. Spent \in SUBSET (1..Len(d1.steps)) /\ \A k \in Spent : d1.steps[k].inst = i
  BY <1>10 DEF IsRow
<1>12. Touches(d1, d2, i) BY <1>10, <1>11, CreateDeadLetterRecordsTouches
<1>13. Touches(d, d2, i) /\ Good(d2) /\ \A k \in Undo : IsRow(d2, i, k)
  BY <1>10, <1>12, TouchesTrans, TouchesGood, RowsStay
<1> HIDE DEF d2
<1>14. Touches(d2, d3, i) BY <1>5, <1>13, CompensationRetryTouches DEF IsRow
<1>15. Touches(d, d3, i) /\ Good(d3) /\ \A k \in Undo : IsRow(d3, i, k)
  BY <1>13, <1>14, TouchesTrans, TouchesGood, RowsStay
<1> HIDE DEF d3
<1>16. Touches(d3, d4, i) BY <1>15, EnqueueRowsTouches
<1>17. Touches(d, d4, i) BY <1>15, <1>16, TouchesTrans
<1>18. QED BY <1>1, <1>17

\* rollbackToSavePointOrRoot.
LEMMA RollbackToSavePointTouches ==
    ASSUME NEW d, Good(d), NEW i \in Instances, NEW n
    PROVE  Touches(d, rollbackToSavePointOrRoot(d, i, n), i)
BY RollbackStepsTouches, Zenon DEF rollbackToSavePointOrRoot

\* enqueueCompletedStepsForRollback.
LEMMA EnqueueCompletedTouches ==
    ASSUME NEW d, Good(d), NEW i \in Instances
    PROVE  Touches(d, enqueueCompletedStepsForRollback(d, i), i)
<1> DEFINE SP   == {k \in Rows(d, i) : Def[d.steps[k].name].type = "savepoint"}
           Late == {k \in Rows(d, i) : /\ d.steps[k].status = "completed"
                                       /\ \A s \in SP : k > s}
           Undo == {k \in Late : Def[d.steps[k].name].onFailure # NoStep}
           count == [k \in Undo |-> 0]
           d1   == UpdateSteps(d, Late \ Undo, "rolled_back")
           d2   == UpdateStepsCompensationRetry(d1, Undo, count)
           d3   == EnqueueRows(d2, i, Undo)
<1>1. enqueueCompletedStepsForRollback(d, i) = d3
  BY Zenon DEF enqueueCompletedStepsForRollback
<1> HIDE DEF SP
<1>2. Late \subseteq Rows(d, i) /\ Undo \subseteq Rows(d, i) OBVIOUS
<1> HIDE DEF Late, Undo
<1>3. \A k \in Late \cup Undo : IsRow(d, i, k) BY <1>2, RowsAre
<1>4. count \in [Undo -> Nat] OBVIOUS
<1> HIDE DEF count
<1>5. "rolled_back" \in StepStatus BY DEF StepStatus
<1>6. Touches(d, d1, i) BY <1>3, <1>5, UpdateStepsTouches DEF IsRow
<1>7. Good(d1) /\ \A k \in Undo : IsRow(d1, i, k) BY <1>3, <1>6, TouchesGood, RowsStay
<1> HIDE DEF d1
<1>8. Touches(d1, d2, i) BY <1>4, <1>7, CompensationRetryTouches DEF IsRow
<1>9. Touches(d, d2, i) /\ Good(d2) /\ \A k \in Undo : IsRow(d2, i, k)
  BY <1>6, <1>7, <1>8, TouchesTrans, TouchesGood, RowsStay
<1> HIDE DEF d2
<1>10. Touches(d2, d3, i) BY <1>9, EnqueueRowsTouches
<1>11. QED BY <1>1, <1>9, <1>10, TouchesTrans

\* completeWorkflow.
LEMMA CompleteWorkflowTouches ==
    ASSUME NEW d, Good(d), NEW i \in Instances
    PROVE  Touches(d, completeWorkflow(d, i), i)
<1> DEFINE d1 == enqueueCompletedStepsForRollback(d, i)
<1>1. "completed" \in WorkflowStatus /\ "failed" \in WorkflowStatus BY DEF WorkflowStatus
<1>2. Touches(d, d1, i) /\ Good(d1) BY EnqueueCompletedTouches, TouchesGood
<1>3. completeWorkflow(d, i) \in
        {UpdateInstanceStatus(d, i, "completed"), d1, UpdateInstanceStatus(d1, i, "failed")}
  BY DEF completeWorkflow, failUnlessCompensating
<1> HIDE DEF d1
<1>4. Touches(d, UpdateInstanceStatus(d, i, "completed"), i)
  BY <1>1, UpdateInstanceStatusTouches
<1>5. Touches(d1, UpdateInstanceStatus(d1, i, "failed"), i)
  BY <1>1, <1>2, UpdateInstanceStatusTouches
<1>6. QED BY <1>2, <1>3, <1>4, <1>5, TouchesTrans

\* stopParallelBranchesInFork.
LEMMA StopParallelTouches ==
    ASSUME NEW d, Good(d), NEW i \in Instances, NEW n
    PROVE  Touches(d, stopParallelBranchesInFork(d, i, n), i)
<1> DEFINE f == findForkStepForParallelStep(n)
           K == {k \in Rows(d, i) : /\ d.steps[k].name # n
                                    /\ d.steps[k].status \in {"pending", "running"}
                                    /\ isStepInParallelBranch(d.steps[k].name, f)}
<1>1. stopParallelBranchesInFork(d, i, n) \in {d, UpdateSteps(d, K, "skipped")}
  BY Zenon DEF stopParallelBranchesInFork
<1>2. \A k \in K : IsRow(d, i, k) BY RowsAre
<1> HIDE DEF K
<1>3. "skipped" \in StepStatus BY DEF StepStatus
<1>4. Touches(d, UpdateSteps(d, K, "skipped"), i) BY <1>2, <1>3, UpdateStepsTouches DEF IsRow
<1>5. QED BY <1>1, <1>4, TouchesRefl

\* handleStepSuccess touches the instance of the step only.
LEMMA HandleStepSuccessTouches ==
    ASSUME NEW d, Good(d), NEW i, NEW k, IsRow(d, i, k), NEW next \in BOOLEAN
    PROVE  Touches(d, handleStepSuccess(d, i, k, next), i)
<1> DEFINE n  == d.steps[k].name
           d1 == UpdateStep(d, k, "completed")
           d2 == prepareJoin(d1, i, n)
           d3 == notifyJoinSteps(d2, i, n, TRUE)
           followers == IF next THEN ToSet(Def[n].next) ELSE {Def[n].else} \ {NoStep}
           started == IF next THEN followers \ JoinSteps ELSE followers
           names == SetToSeq(started)
<1>1. handleStepSuccess(d, i, k, next) \in
        {enqueueNextSteps(d3, i, names), d3, completeWorkflow(d3, i)}
  <2>1. handleStepSuccess(d, i, k, next) =
          IF ~(followers = {}) THEN enqueueNextSteps(d3, i, names)
          ELSE IF hasUnfinishedSteps(d3, i) THEN d3 ELSE completeWorkflow(d3, i)
    BY Zenon DEF handleStepSuccess, continueWorkflow
  <2> HIDE DEF d3, names, started, followers
  <2>2. QED BY <2>1
<1>2. n \in Steps /\ i \in Instances BY RowName
<1>3. names \in Seq(Steps)
  <2>1. started \in SUBSET Steps BY <1>2, DefTypes
  <2> HIDE DEF started
  <2>2. QED BY <2>1, NamesAreSeq
<1> HIDE DEF n, followers, started, names
<1>4. "completed" \in StepStatus BY DEF StepStatus
<1>5. Touches(d, d1, i) /\ Good(d1) BY <1>4, UpdateStepTouches, TouchesGood
<1> HIDE DEF d1
<1>6. Touches(d1, d2, i)
  BY <1>2, <1>5, ReplaceVirtualStepTouches, AddTerminalStepTouches DEF prepareJoin
<1>7. Touches(d, d2, i) /\ Good(d2) BY <1>5, <1>6, TouchesTrans, TouchesGood
<1> HIDE DEF d2
<1>8. Touches(d2, d3, i) BY <1>2, <1>7, NotifyJoinStepsTouches
<1>9. Touches(d, d3, i) /\ Good(d3) BY <1>7, <1>8, TouchesTrans, TouchesGood
<1> HIDE DEF d3
<1>10. Touches(d3, enqueueNextSteps(d3, i, names), i)
  BY <1>2, <1>3, <1>9, EnqueueNextStepsTouches
<1>11. Touches(d3, completeWorkflow(d3, i), i) BY <1>2, <1>9, CompleteWorkflowTouches
<1>12. QED BY <1>1, <1>9, <1>10, <1>11, TouchesTrans

\* handleStepFailure with retries left.
LEMMA RetryStepTouches ==
    ASSUME NEW d, Good(d), NEW i, NEW k, IsRow(d, i, k)
    PROVE  Touches(d, retryStep(d, i, k), i)
<1> DEFINE d1 == UpdateStep(d, k, "failed")
<1>1. "failed" \in StepStatus BY DEF StepStatus
<1>2. Touches(d, d1, i) BY <1>1, UpdateStepTouches
<1>3. Good(d1) /\ IsRow(d1, i, k) BY <1>2, TouchesGood, RowsStay
<1> HIDE DEF d1
<1>4. Touches(d, EnqueueStep(d1, i, k), i) BY <1>2, <1>3, EnqueueStepTouches, TouchesTrans
<1>5. QED BY <1>4 DEF retryStep, d1

\* moveToDLQ puts the instance into DLQ state with a dead letter for a paused row, and
\* leaves nothing of it in the queue.
LEMMA MoveToDLQSettles ==
    ASSUME NEW d, Good(d), NEW i, NEW k, IsRow(d, i, k)
    PROVE  Settles(d, moveToDLQ(d, i, k), i)
<1> DEFINE n  == d.steps[k].name
           d0 == UpdateStep(d, k, "paused")
           d1 == notifyJoinSteps(d0, i, n, FALSE)
           K  == {k}
           d2 == CreateDeadLetterRecords(d1, K)
           d3 == PauseActiveStepsAndClearQueue(d2, i)
           d4 == UpdateInstanceStatus(d3, i, "dlq")
<1>1. moveToDLQ(d, i, k) = d4 BY DEF moveToDLQ
<1>2. n \in Steps /\ i \in Instances BY RowName
<1> HIDE DEF n
<1>3. "paused" \in StepStatus BY DEF StepStatus
<1>4. Touches(d, d0, i) /\ Good(d0) /\ IsRow(d0, i, k)
  BY <1>3, UpdateStepTouches, TouchesGood, RowsStay
<1>5. d0.steps[k].status = "paused"
  <2>1. d0.steps = [m \in 1..Len(d.steps) |->
                      IF m \in {k} THEN WithStatus(d.steps[m], "paused") ELSE d.steps[m]]
    BY FieldTypes DEF Good, UpdateStep, UpdateSteps, Database
  <2>2. d.steps[k] \in WorkflowStep BY RowName
  <2>3. WithStatus(d.steps[k], "paused").status = "paused"
    BY <2>2 DEF WithStatus, WorkflowStep
  <2> HIDE DEF d0
  <2>4. QED BY <2>1, <2>3 DEF IsRow
<1> HIDE DEF d0
<1>6. Touches(d0, d1, i) /\ d1.steps[k] = d0.steps[k]
  BY <1>2, <1>4, NotifyJoinStepsTouches DEF IsRow
<1>7. Touches(d, d1, i) /\ Good(d1) /\ IsRow(d1, i, k)
  BY <1>4, <1>6, TouchesTrans, TouchesGood, RowsStay
<1> HIDE DEF d1
<1>8. K \in SUBSET (1..Len(d1.steps)) /\ k \in K /\ \A m \in K : d1.steps[m].inst = i
  BY <1>7 DEF IsRow
<1> HIDE DEF K
<1>9. /\ Touches(d1, d2, i) /\ d2.steps = d1.steps
      /\ HasLetter(d2, i, k)
  BY <1>7, <1>8, CreateDeadLetterRecordsTouches
<1>10. Touches(d, d2, i) /\ Good(d2) /\ IsRow(d2, i, k)
  BY <1>7, <1>9, TouchesTrans, TouchesGood, RowsStay
<1> HIDE DEF d2
<1>11. /\ Touches(d2, d3, i) /\ d3.dlq = d2.dlq
       /\ \A q \in d3.queue : q.inst # i
       /\ d2.steps[k].status = "paused" => d3.steps[k].status = "paused"
  BY <1>10, PauseTouches DEF IsRow
<1>12. Touches(d, d3, i) /\ Good(d3) BY <1>10, <1>11, TouchesTrans, TouchesGood
<1> HIDE DEF d3
<1>13. d3.steps[k].status = "paused" BY <1>5, <1>6, <1>9, <1>11
<1>14. /\ d4.inst = [d3.inst EXCEPT ![i] = "dlq"] /\ d4.cancel = d3.cancel
       /\ d4.join = d3.join /\ d4.dlq = d3.dlq /\ d4.steps = d3.steps /\ d4.queue = d3.queue
  BY <1>12 DEF Good, Database, UpdateInstanceStatus
<1>15. Leads(d, d4) BY <1>1, MoveToDLQLeads
<1> HIDE DEF d4
<1>16. Frozen(d4, i) BY <1>9, <1>11, <1>13, <1>14 DEF Frozen, HasLetter
<1>17. \A h \in Instances \ {i} : d4.inst[h] = d3.inst[h] BY <1>12, <1>14, FieldTypes DEF Good
<1>18. Apart(d, d4, i) BY <1>12, <1>14, <1>17 DEF Touches, Apart
<1>19. Keeps(d, d4, i) BY <1>12, <1>14 DEF Touches, Keeps
<1>20. QED BY <1>1, <1>15, <1>16, <1>18, <1>19 DEF Settles, Ends

\* handleStepFailure without retries left.
LEMMA FailWorkflowTouches ==
    ASSUME NEW d, Good(d), NEW i, NEW k, IsRow(d, i, k)
    PROVE  Touches(d, failWorkflow(d, i, k), i)
<1> DEFINE n  == d.steps[k].name
           d0 == UpdateStep(d, k, "failed")
           d1 == replaceVirtualStep(d0, i, n, FALSE)
           d2 == notifyJoinSteps(d1, i, n, FALSE)
           d3 == stopParallelBranchesInFork(d2, i, n)
           d4 == rollbackToSavePointOrRoot(d3, i, n)
           d5 == UpdateInstanceStatus(d4, i, "failed")
<1>1. failWorkflow(d, i, k) = d5 BY Zenon DEF failWorkflow
<1>2. n \in Steps /\ i \in Instances BY RowName
<1> HIDE DEF n
<1>3. "failed" \in StepStatus /\ "failed" \in WorkflowStatus BY DEF StepStatus, WorkflowStatus
<1>4. Touches(d, d0, i) /\ Good(d0) BY <1>3, UpdateStepTouches, TouchesGood
<1> HIDE DEF d0
<1>5. Touches(d, d1, i) /\ Good(d1)
  BY <1>2, <1>4, ReplaceVirtualStepTouches, TouchesTrans, TouchesGood
<1> HIDE DEF d1
<1>6. Touches(d, d2, i) /\ Good(d2)
  BY <1>2, <1>5, NotifyJoinStepsTouches, TouchesTrans, TouchesGood
<1> HIDE DEF d2
<1>7. Touches(d, d3, i) /\ Good(d3)
  BY <1>2, <1>6, StopParallelTouches, TouchesTrans, TouchesGood
<1> HIDE DEF d3
<1>8. Touches(d, d4, i) /\ Good(d4)
  BY <1>2, <1>7, RollbackToSavePointTouches, TouchesTrans, TouchesGood
<1> HIDE DEF d4
<1>9. Touches(d4, d5, i) BY <1>2, <1>3, <1>8, UpdateInstanceStatusTouches
<1>10. QED BY <1>1, <1>8, <1>9, TouchesTrans

\* handleStepFailure: retried, moved to the dead letters or rolled back.
LEMMA HandleStepFailureSettles ==
    ASSUME NEW d, Good(d), NEW i, NEW k, IsRow(d, i, k), NEW retry
    PROVE  Settles(d, handleStepFailure(d, i, k, retry), i)
BY RetryStepTouches, MoveToDLQSettles, FailWorkflowTouches, TouchesSettles
   DEF handleStepFailure

\* A cancellation or an abort ends the instance, or fails, and touches no other.
LEMMA HandleCancellationTouches ==
    ASSUME NEW d, Good(d), NEW i \in Instances, NEW locked
    PROVE  Touches(d, handleCancellation(d, i, locked), i)
<1> DEFINE K == GetActiveStepsForUpdate(d, i, locked)
           d0 == UpdateSteps(d, K, "skipped")
           d1 == UpdateInstanceStatus(d0, i, "cancelling")
           d2 == rollbackAll(d1, i)
           stopped == IF d0.cancel[i] = "cancel" THEN UpdateInstanceStatus(d2, i, "cancelled")
                      ELSE UpdateInstanceStatus(d0, i, "aborted")
<1>1. handleCancellation(d, i, locked) \in {d, DeleteCancelRequest(stopped, i)}
  BY DEF handleCancellation, cancelOrAbort
<1>2. /\ "cancelling" \in WorkflowStatus /\ "cancelled" \in WorkflowStatus
      /\ "aborted" \in WorkflowStatus /\ "skipped" \in StepStatus
  BY DEF WorkflowStatus, StepStatus
<1>3. \A k \in K : IsRow(d, i, k) BY RowsAre DEF GetActiveStepsForUpdate
<1> HIDE DEF K
<1>4. Touches(d, d0, i) /\ Good(d0)
  BY <1>2, <1>3, UpdateStepsTouches, TouchesGood DEF IsRow
<1> HIDE DEF d0
<1>5. Touches(d, d1, i) /\ Good(d1)
  BY <1>2, <1>4, UpdateInstanceStatusTouches, TouchesTrans, TouchesGood
<1> HIDE DEF d1
<1>6. Touches(d1, d2, i)
  <2>1. \A names : Touches(d1, rollbackSteps(d1, i, names), i) BY <1>5, RollbackStepsTouches
  <2>2. Touches(d1, d1, i) BY <1>5, TouchesRefl
  <2>3. QED BY <2>1, <2>2, Zenon DEF rollbackAll
<1>7. Touches(d, d2, i) /\ Good(d2) BY <1>5, <1>6, TouchesTrans, TouchesGood
<1> HIDE DEF d2
<1>8. Touches(d, stopped, i) /\ Good(stopped)
  BY <1>2, <1>4, <1>7, UpdateInstanceStatusTouches, TouchesTrans, TouchesGood
<1> HIDE DEF stopped
<1>9. Touches(stopped, DeleteCancelRequest(stopped, i), i) BY <1>8, CancelRequestTouches
<1>10. QED BY <1>1, <1>8, <1>9, TouchesTrans, TouchesRefl

\* The end of a compensation, well or not.
LEMMA CompensationTouches ==
    ASSUME NEW d, Good(d), NEW i, NEW k, IsRow(d, i, k), NEW comp \in Nat
    PROVE  /\ Touches(d, compensationSucceeded(d, i, k), i)
           /\ Touches(d, compensationFailed(d, i, k, comp), i)
<1> DEFINE d1 == UpdateStep(d, k, "rolled_back")
           count == [r \in {k} |-> comp + 1]
           d2 == UpdateStepsCompensationRetry(d, {k}, count)
<1>1. /\ "rolled_back" \in StepStatus /\ "failed" \in StepStatus
      /\ "failed" \in WorkflowStatus /\ i \in Instances
  BY RowName DEF StepStatus, WorkflowStatus
<1>2. Touches(d, d1, i) /\ Good(d1) BY <1>1, UpdateStepTouches, TouchesGood
<1>3. compensationSucceeded(d, i, k) \in {d1, UpdateInstanceStatus(d1, i, "failed")}
  BY DEF compensationSucceeded, failUnlessCompensating
<1> HIDE DEF d1
<1>4. Touches(d, UpdateInstanceStatus(d1, i, "failed"), i)
  BY <1>1, <1>2, UpdateInstanceStatusTouches, TouchesTrans
<1>5. compensationFailed(d, i, k, comp) \in {EnqueueStep(d2, i, k), UpdateStep(d, k, "failed")}
  BY DEF compensationFailed
<1>6. count \in [{k} -> Nat] OBVIOUS
<1> HIDE DEF count
<1>7. Touches(d, d2, i) BY <1>6, CompensationRetryTouches DEF IsRow
<1>8. Good(d2) /\ IsRow(d2, i, k) BY <1>7, TouchesGood, RowsStay
<1> HIDE DEF d2
<1>9. Touches(d, EnqueueStep(d2, i, k), i) BY <1>7, <1>8, EnqueueStepTouches, TouchesTrans
<1>10. Touches(d, UpdateStep(d, k, "failed"), i) BY <1>1, UpdateStepTouches
<1>11. QED BY <1>2, <1>3, <1>4, <1>5, <1>9, <1>10

\* Marking a step of the instance as running.
LEMMA RunningTouches ==
    ASSUME NEW d, Good(d), NEW i, NEW k, IsRow(d, i, k)
    PROVE  /\ Touches(d, Running(d, k), i) /\ Good(Running(d, k))
           /\ IsRow(Running(d, k), i, k)
<1>1. "running" \in StepStatus BY DEF StepStatus
<1>2. Touches(d, Running(d, k), i) BY <1>1, UpdateStepTouches DEF Running
<1>3. QED BY <1>2, TouchesGood, RowsStay

\* MakeHumanDecision.
LEMMA HumanDecisionTouches ==
    ASSUME NEW d, Good(d), NEW i, NEW k, IsRow(d, i, k), NEW decision \in {"confirmed", "rejected"}
    PROVE  Touches(d, humanDecision(d, k, decision), i)
<1> DEFINE row == [d.steps[k] EXCEPT !.decision = decision, !.status = decision]
           s == [d.steps EXCEPT ![k] = row]
           d1 == [d EXCEPT !.steps = s]
<1>1. d \in Database BY DEF Good
<1>2. /\ k \in 1..Len(d.steps) /\ d.steps[k] \in WorkflowStep
      /\ i \in Instances /\ d.steps[k].inst = i
  BY RowName DEF IsRow
<1>3. row \in WorkflowStep /\ Kept(d.steps[k], row)
  BY <1>2 DEF WorkflowStep, StepStatus, Kept
<1>4. [d EXCEPT !.steps[k] = [@ EXCEPT !.decision = decision, !.status = decision]] = d1
  BY <1>1 DEF Database
<1>5. humanDecision(d, k, decision) \in
        {UpdateInstanceStatus(d1, i, "aborted"), handleStepSuccess(d1, i, k, TRUE), d1}
  <2> HIDE DEF d1
  <2> QED BY <1>2, <1>4 DEF humanDecision
<1> HIDE DEF row
<1>6. /\ s \in [1..Len(d.steps) -> WorkflowStep]
      /\ \A m \in 1..Len(d.steps) : Kept(d.steps[m], s[m])
      /\ \A m \in 1..Len(d.steps) : d.steps[m].inst # i => s[m] = d.steps[m]
      /\ Len(s) = Len(d.steps)
  BY <1>1, <1>2, <1>3, FieldTypes DEF Kept
<1> HIDE DEF s
<1>7. Leads(d, d1) BY <1>6, RowsMapped, Zenon
<1>8. Touches(d, d1, i) BY <1>6, <1>7, StepsTouched
<1> HIDE DEF d1
<1>9. Good(d1) /\ IsRow(d1, i, k) BY <1>8, TouchesGood, RowsStay
<1>10. "aborted" \in WorkflowStatus BY DEF WorkflowStatus
<1>11. Touches(d1, UpdateInstanceStatus(d1, i, "aborted"), i)
  BY <1>2, <1>9, <1>10, UpdateInstanceStatusTouches
<1>12. Touches(d1, handleStepSuccess(d1, i, k, TRUE), i) BY <1>9, HandleStepSuccessTouches
<1>13. QED BY <1>5, <1>8, <1>11, <1>12, TouchesTrans

\* processHumanDecision once there is a decision.
LEMMA ProcessHumanDecisionTouches ==
    ASSUME NEW d, Good(d), NEW i, NEW k, IsRow(d, i, k), NEW waiting \in BOOLEAN,
           d.steps[k].decision # "none"
    PROVE  Touches(d, processHumanDecision(d, i, k, waiting), i)
<1> DEFINE decision == d.steps[k].decision
           d0 == Running(d, k)
           d1 == UpdateStepStatus(d0, k, decision)
<1>1. processHumanDecision(d, i, k, waiting) \in
        {UpdateInstanceStatus(d1, i, "aborted"), d1, handleStepSuccess(d1, i, k, TRUE)}
  <2> HIDE DEF d0
  <2> QED BY DEF processHumanDecision, d0
<1>2. decision \in StepStatus /\ i \in Instances BY RowName DEF WorkflowStep, StepStatus
<1> HIDE DEF decision
<1>3. Touches(d, d0, i) /\ Good(d0) /\ IsRow(d0, i, k) BY RunningTouches
<1> HIDE DEF d0
<1>4. Touches(d0, d1, i) BY <1>2, <1>3, UpdateStepStatusTouches
<1>5. Touches(d, d1, i) /\ Good(d1) /\ IsRow(d1, i, k)
  BY <1>3, <1>4, TouchesTrans, TouchesGood, RowsStay
<1> HIDE DEF d1
<1>6. "aborted" \in WorkflowStatus BY DEF WorkflowStatus
<1>7. Touches(d1, UpdateInstanceStatus(d1, i, "aborted"), i)
  BY <1>2, <1>5, <1>6, UpdateInstanceStatusTouches
<1>8. Touches(d1, handleStepSuccess(d1, i, k, TRUE), i) BY <1>5, HandleStepSuccessTouches
<1>9. QED BY <1>1, <1>5, <1>7, <1>8, TouchesTrans

----------------------------------------------------------------------------
(* The actions *)

\* An API call touches one instance.
LEMMA ApiTouches ==
    ASSUME Now, Api PROVE \E i \in Instances : Touches(db, db', i)
<1>1. Good(db) BY DEF Now, Sound
<1>2. ASSUME NEW i \in Instances, StartWorkflow(i) PROVE Touches(db, db', i)
  <2> DEFINE d1 == UpdateInstanceStatus(db, i, "running")
  <2>1. "running" \in WorkflowStatus BY DEF WorkflowStatus
  <2>2. Touches(db, d1, i) /\ Good(d1) BY <1>1, <2>1, UpdateInstanceStatusTouches, TouchesGood
  <2>3. db' = enqueueNextSteps(d1, i, <<Start[i]>>) BY <1>2 DEF StartWorkflow
  <2> HIDE DEF d1
  <2>4. <<Start[i]>> \in Seq(Steps)
    <3>1. Start[i] \in Steps BY StoreAssumption
    <3>2. QED BY <3>1
  <2>5. QED BY <1>1, <2>2, <2>3, <2>4, EnqueueNextStepsTouches, TouchesTrans
<1>3. ASSUME NEW i \in Instances, NEW kind \in CancelKinds[i], RequestCancel(i, kind)
      PROVE  Touches(db, db', i)
  <2>1. kind \in {"cancel", "abort"} BY EngineAssumption
  <2>2. QED BY <1>1, <1>3, <2>1, CancelRequestTouches DEF RequestCancel
<1>4. ASSUME NEW k \in DOMAIN db.steps, NEW decision \in {"confirmed", "rejected"},
             MakeHumanDecision(k, decision)
      PROVE  db.steps[k].inst \in Instances /\ Touches(db, db', db.steps[k].inst)
  <2>1. IsRow(db, db.steps[k].inst, k) BY <1>1, FieldTypes DEF Good, IsRow
  <2>2. Touches(db, humanDecision(db, k, decision), db.steps[k].inst)
    BY <1>1, <2>1, HumanDecisionTouches
  <2>3. QED BY <1>1, <1>4, <2>1, <2>2, RowName DEF MakeHumanDecision
<1>5. ASSUME NEW rec \in db.dlq, RequeueFromDLQ(rec)
      PROVE  rec.inst \in Instances /\ Touches(db, db', rec.inst)
  BY <1>1, <1>5, RequeueDeadLetterTouches, FieldTypes DEF RequeueFromDLQ, Good, DeadLetter
<1>6. QED BY <1>2, <1>3, <1>4, <1>5 DEF Api

\* A call of ExecuteNext that starts no handler touches the instance of its item, and
\* changes nothing but the queue when that is in DLQ state.
LEMMA DequeueSettles ==
    ASSUME Now, NEW w \in Workers, NEW q \in db.queue,
           \/ DropFrozen(w, q) \/ DropInactive(w, q)
           \/ RejectedByPlugin(w, q) \/ CancelAtStart(w, q)
           \/ ExecuteFork(w, q) \/ ExecuteSavePoint(w, q) \/ ExecuteJoin(w, q)
           \/ \E result \in {"true", "false", "error"} : ExecuteCondition(w, q, result)
           \/ PollHuman(w, q) \/ ResumeHuman(w, q)
           \/ \E decision \in {"confirmed", "rejected"} : DecidedWhilePolling(w, q, decision)
    PROVE  \E e : /\ Commit(w, q.id, e) /\ Ends(db, e, q.inst)
                  /\ Keeps(db, e, q.inst) \/ DropInactive(w, q)
                  /\ db.inst[q.inst] # "dlq" \/ e = db
<1> DEFINE i == q.inst
           k == q.step
           d == Running(db, k)
           j == db.steps[k].name
           Live == db.inst[i] # "dlq"
           Goal == \E e : /\ Commit(w, q.id, e) /\ Ends(db, e, i)
                          /\ Keeps(db, e, i) \/ DropInactive(w, q)
                          /\ Live \/ e = db
<1> SUFFICES Goal OBVIOUS
<1>1. Good(db) BY DEF Now, Sound
<1>2. IsRow(db, i, k) /\ i \in Instances BY <1>1, ItemRow
<1>3. Touches(db, d, i) /\ Good(d) /\ IsRow(d, i, k) BY <1>1, <1>2, RunningTouches
<1>4. j \in Steps BY <1>1, <1>2, RowName
<1>5. DropFrozen(w, q) \/ Live
  BY DEF DropFrozen, DropInactive, RejectedByPlugin, CancelAtStart, ExecuteFork,
         ExecuteSavePoint, ExecuteJoin, ExecuteCondition, PollHuman, ResumeHuman,
         DecidedWhilePolling, Forward, Dequeues
<1>6. ASSUME NEW e, Settles(db, e, i), Commit(w, q.id, e), Live PROVE Goal
  BY <1>6 DEF Settles
<1> HIDE DEF Live
<1>7. ASSUME NEW b \in BOOLEAN PROVE Touches(db, handleStepSuccess(d, i, k, b), i)
  <2> HIDE DEF d, i, k
  <2> QED BY <1>1, <1>3, HandleStepSuccessTouches, TouchesTrans
<1>8. ASSUME NEW r PROVE Settles(db, handleStepFailure(d, i, k, r), i)
  <2> HIDE DEF d, i, k
  <2> QED BY <1>1, <1>3, HandleStepFailureSettles, SettlesAfter
<1>9. CASE DropFrozen(w, q) BY <1>1, <1>9, TouchesRefl, TouchesSettles DEF DropFrozen, Settles
<1> HIDE DEF Goal
<1>10. CASE DropInactive(w, q) /\ Live
  <2> DEFINE e == RemoveFromQueue(db, k)
  <2>1. Ends(db, e, i) BY <1>1, RemoveFromQueueEnds
  <2>2. Commit(w, q.id, e) BY <1>10 DEF DropInactive
  <2> HIDE DEF e
  <2>3. QED BY <1>10, <2>1, <2>2 DEF Goal
<1>11. CASE RejectedByPlugin(w, q) /\ Live
  BY <1>1, <1>6, <1>11, TouchesRefl, TouchesSettles DEF RejectedByPlugin
<1>12. CASE CancelAtStart(w, q) /\ Live
  BY <1>1, <1>2, <1>6, <1>12, HandleCancellationTouches, TouchesSettles DEF CancelAtStart
<1>13. CASE ExecuteFork(w, q) /\ Live
  <2> DEFINE e == executeFork(d, i, j)
  <2>1. Commit(w, q.id, handleStepSuccess(e, i, k, TRUE)) BY <1>13 DEF ExecuteFork
  <2> HIDE DEF d, i, k, j
  <2>2. Touches(d, e, i) BY <1>2, <1>3, <1>4, ExecuteForkTouches
  <2>3. Touches(db, e, i) /\ Good(e) /\ IsRow(e, i, k)
    BY <1>1, <1>2, <1>3, <2>2, TouchesTrans, TouchesGood, RowsStay
  <2> HIDE DEF e
  <2>4. Touches(db, handleStepSuccess(e, i, k, TRUE), i)
    BY <1>1, <2>3, HandleStepSuccessTouches, TouchesTrans
  <2>5. QED BY <1>6, <1>13, <2>1, <2>4, TouchesSettles
<1>14. CASE ExecuteSavePoint(w, q) /\ Live
  BY <1>6, <1>7, <1>14, TouchesSettles DEF ExecuteSavePoint
<1>15. CASE ExecuteJoin(w, q) /\ Live
  <2>1. \/ Commit(w, q.id, handleStepSuccess(d, i, k, TRUE))
        \/ Commit(w, q.id, handleStepFailure(d, i, k, db.steps[k].retry))
    BY <1>15, Zenon DEF ExecuteJoin
  <2> HIDE DEF d, i, k
  <2>2. QED BY <1>6, <1>7, <1>8, <1>15, <2>1, TouchesSettles
<1>16. CASE (\E result \in {"true", "false", "error"} : ExecuteCondition(w, q, result)) /\ Live
  <2>1. PICK result \in {"true", "false", "error"} : ExecuteCondition(w, q, result) BY <1>16
  <2>2. \/ Commit(w, q.id, handleStepSuccess(d, i, k, result = "true"))
        \/ Commit(w, q.id, handleStepFailure(d, i, k, db.steps[k].retry))
    BY <2>1, Zenon DEF ExecuteCondition
  <2>3. (result = "true") \in BOOLEAN OBVIOUS
  <2> HIDE DEF d, i, k
  <2>4. QED BY <1>6, <1>7, <1>8, <1>16, <2>2, <2>3, TouchesSettles
<1>17. CASE PollHuman(w, q) /\ Live
  <2> DEFINE e == UpdateStepStatus(d, k, "waiting_decision")
  <2>1. "waiting_decision" \in StepStatus BY DEF StepStatus
  <2>2. Commit(w, q.id, EnqueueStep(e, i, k)) BY <1>17 DEF PollHuman
  <2> HIDE DEF d, i, k
  <2>3. Touches(d, e, i) BY <1>3, <2>1, UpdateStepStatusTouches
  <2>4. Touches(db, e, i) /\ Good(e) /\ IsRow(e, i, k)
    BY <1>1, <1>2, <1>3, <2>3, TouchesTrans, TouchesGood, RowsStay
  <2> HIDE DEF e
  <2>5. Touches(db, EnqueueStep(e, i, k), i) BY <1>1, <2>4, EnqueueStepTouches, TouchesTrans
  <2>6. QED BY <1>6, <1>17, <2>2, <2>5, TouchesSettles
<1>18. CASE ResumeHuman(w, q) /\ Live
  BY <1>1, <1>2, <1>6, <1>18, ProcessHumanDecisionTouches, TouchesSettles DEF ResumeHuman
<1>19. CASE (\E decision \in {"confirmed", "rejected"} : DecidedWhilePolling(w, q, decision)) /\ Live
  <2>1. PICK decision \in {"confirmed", "rejected"} : DecidedWhilePolling(w, q, decision)
    BY <1>19
  <2> DEFINE e == humanDecision(db, k, decision)
  <2>2. Commit(w, q.id, processHumanDecision(e, i, k, TRUE))
    BY <2>1 DEF DecidedWhilePolling
  <2> HIDE DEF i, k
  <2>3. e.steps[k].decision # "none" BY <1>1, <1>2, HumanDecisionLeads
  <2>4. Touches(db, e, i) /\ Good(e) /\ IsRow(e, i, k)
    BY <1>1, <1>2, HumanDecisionTouches, TouchesGood, RowsStay
  <2> HIDE DEF e
  <2>5. Touches(db, processHumanDecision(e, i, k, TRUE), i)
    BY <1>1, <2>3, <2>4, ProcessHumanDecisionTouches, TouchesTrans
  <2>6. QED BY <1>6, <1>19, <2>2, <2>5, TouchesSettles
<1>20. QED BY <1>5, <1>9, <1>10, <1>11, <1>12, <1>13, <1>14, <1>15, <1>16, <1>17, <1>18, <1>19

\* The result of a handler touches the instance the worker works for.
LEMMA FinishSettles ==
    ASSUME Now, NEW w \in Workers, NEW ok \in BOOLEAN,
           FinishTask(w, ok) \/ FinishCompensation(w, ok)
    PROVE  /\ wk[w].inst \in Instances
           /\ \E e : Commit(w, wk[w].item, e) /\ Settles(db, e, wk[w].inst)
<1> DEFINE f == wk[w]
           i == f.inst
           k == f.step
           d == IF StoreKind = "postgres" THEN Running(db, k) ELSE db
<1>1. Good(db) /\ WorkersSound(db, wk) BY DEF Now, Sound
<1>2. f \in InFlight
  <2>1. f.kind # "idle" BY DEF FinishTask, FinishCompensation
  <2>2. QED BY <1>1, <2>1, BusyIs DEF WorkersSound
<1>3. IsRow(db, i, k) BY <1>1, <1>2 DEF WorkersSound
<1>4. i \in Instances BY <1>1, <1>3, RowName
<1>5. Touches(db, d, i) /\ Good(d) /\ IsRow(d, i, k)
  BY <1>1, <1>3, RunningTouches, TouchesRefl
<1>6. f.comp \in Nat BY <1>2 DEF InFlight
<1>7. CASE FinishTask(w, ok)
  <2>1. PICK e : /\ Commit(w, f.item, e)
                 /\ e \in {handleCancellation(d, i, Locked(w)), handleStepSuccess(d, i, k, TRUE),
                           handleStepFailure(d, i, k, f.retry)}
    BY <1>7 DEF FinishTask
  <2> HIDE DEF d, i, k, f
  <2>2. Settles(d, e, i)
    BY <1>4, <1>5, <2>1, HandleCancellationTouches, HandleStepSuccessTouches,
       HandleStepFailureSettles, TouchesSettles
  <2>3. Settles(db, e, i) BY <1>1, <1>5, <2>2, SettlesAfter
  <2>4. QED BY <1>4, <2>1, <2>3 DEF i, f
<1>8. CASE FinishCompensation(w, ok)
  <2>1. PICK e : /\ Commit(w, f.item, e)
                 /\ e \in {compensationSucceeded(db, i, k), compensationFailed(db, i, k, f.comp)}
    BY <1>8 DEF FinishCompensation
  <2> HIDE DEF d, i, k, f
  <2>2. Settles(db, e, i) BY <1>1, <1>3, <1>6, <2>1, CompensationTouches, TouchesSettles
  <2>3. QED BY <1>4, <2>1, <2>2 DEF i, f
<1>9. QED BY <1>7, <1>8

\* The commit itself takes one item out of the queue.
LEMMA CommitApart ==
    ASSUME Now, NEW w, NEW id, NEW e, NEW i, Commit(w, id, e), Ends(db, e, i)
    PROVE  /\ Ends(db, db', i)
           /\ db'.inst = e.inst /\ db'.steps = e.steps /\ db'.dlq = e.dlq
<1>1. Good(db) /\ Good(e) BY DEF Now, Sound, Ends, Leads
<1>2. db' = RemoveFromQueue(e, id) BY DEF Commit
<1>3. Leads(e, db') BY <1>1, <1>2, RemoveFromQueueLeads
<1>4. /\ db'.inst = e.inst /\ db'.steps = e.steps /\ db'.dlq = e.dlq
      /\ db'.cancel = e.cancel /\ db'.join = e.join /\ db'.queue \subseteq e.queue
  BY <1>1, <1>2 DEF RemoveFromQueue, Good, Database
<1>5. Leads(db, db') BY <1>1, <1>3, LeadsTrans DEF Ends
<1>6. QED BY <1>4, <1>5 DEF Ends, Apart, Frozen

\* Claiming and releasing an item change the queue only.
LEMMA ClaimApart ==
    ASSUME NEW d, Good(d), NEW q, NEW w, NEW i
    PROVE  /\ Claim(d, q, w).inst = d.inst /\ Claim(d, q, w).steps = d.steps
           /\ Claim(d, q, w).dlq = d.dlq /\ Apart(d, Claim(d, q, w), i)
<1> DEFINE e == Claim(d, q, w)
<1>1. /\ e.inst = d.inst /\ e.cancel = d.cancel /\ e.join = d.join /\ e.dlq = d.dlq
      /\ e.steps = d.steps
  BY DEF Claim, Good, Database
<1>2. \A k \in 1..Len(d.steps) : ~(k > Len(d.steps)) BY FieldTypes DEF Good
<1> HIDE DEF e
<1>3. Apart(d, e, i) BY <1>1, <1>2 DEF Apart
<1>4. QED BY <1>1, <1>3 DEF e

\* ReleaseQueueItem concerns the queue only.
LEMMA ReleaseApart ==
    ASSUME NEW d, Good(d), NEW id, NEW i
    PROVE  /\ ReleaseQueueItem(d, id).inst = d.inst /\ ReleaseQueueItem(d, id).steps = d.steps
           /\ ReleaseQueueItem(d, id).dlq = d.dlq /\ Apart(d, ReleaseQueueItem(d, id), i)
<1> DEFINE e == ReleaseQueueItem(d, id)
<1>1. /\ e.inst = d.inst /\ e.cancel = d.cancel /\ e.join = d.join /\ e.dlq = d.dlq
      /\ e.steps = d.steps
  BY DEF ReleaseQueueItem, Good, Database
<1>2. \A k \in 1..Len(d.steps) : ~(k > Len(d.steps)) BY FieldTypes DEF Good
<1> HIDE DEF e
<1>3. Apart(d, e, i) BY <1>1, <1>2 DEF Apart
<1>4. QED BY <1>1, <1>3 DEF e

\* Dequeuing an item and starting a handler touch the instance of the item.
LEMMA StartApart ==
    ASSUME Now, NEW w \in Workers, NEW q \in db.queue,
           StartTask(w, q) \/ StartCompensation(w, q)
    PROVE  q.inst \in Instances /\ Apart(db, db', q.inst)
<1> DEFINE i == q.inst
           d == Claim(db, q, w)
<1>1. Good(db) /\ WorkersSound(db, wk) BY DEF Now, Sound
<1>2. IsRow(db, i, q.step) /\ i \in Instances BY <1>1, ItemRow
<1>3. /\ d.inst = db.inst /\ d.steps = db.steps /\ d.dlq = db.dlq
      /\ d.cancel = db.cancel /\ d.join = db.join
  BY <1>1 DEF Claim, Good, Database
<1>4. Apart(db, d, i) BY <1>1, ClaimApart
<1>5. db' \in {d, Running(d, q.step)} BY DEF StartTask, StartCompensation, Started
<1>6. Good(d)
  <2> DEFINE f == [kind |-> "task", item |-> q.id, step |-> q.step, inst |-> q.inst,
                   retry |-> 0, comp |-> 0, cancelled |-> FALSE]
  <2>1. q \in QueueItem /\ q.by = Nobody
    BY <1>1, FieldTypes
       DEF Good, StartTask, StartCompensation, Forward, Dequeues, Dequeuable
  <2>2. f \in InFlight /\ f.item = q.id /\ f.step = q.step /\ f.inst = q.inst
    BY <1>2, <2>1 DEF QueueItem, InFlight
  <2> HIDE DEF f
  <2>3. QED BY <1>1, <2>1, <2>2, ClaimSound
<1>7. IsRow(d, i, q.step) BY <1>2, <1>3 DEF IsRow
<1> HIDE DEF d, i
<1>8. Touches(d, Running(d, q.step), i) BY <1>6, <1>7, RunningTouches
<1>9. Apart(db, Running(d, q.step), i) BY <1>3, <1>8 DEF Touches, Apart
<1>10. Apart(db, db', i) BY <1>4, <1>5, <1>9
<1>11. QED BY <1>2, <1>10 DEF i

\* Every step changes one instance only.
LEMMA StepApart ==
    ASSUME Now, Next PROVE \E i \in Instances : Apart(db, db', i)
<1>1. Good(db) /\ WorkersSound(db, wk) BY DEF Now, Sound
<1>2. CASE Api BY <1>2, ApiTouches DEF Touches
<1>3. ASSUME NEW w \in Workers, ExecuteNext(w) PROVE \E i \in Instances : Apart(db, db', i)
  <2>1. CASE \E q \in db.queue : StartTask(w, q) \/ StartCompensation(w, q)
    BY <2>1, StartApart
  <2>2. CASE \E ok \in BOOLEAN : FinishTask(w, ok) \/ FinishCompensation(w, ok)
    <3>1. PICK e : wk[w].inst \in Instances /\ Commit(w, wk[w].item, e) /\ Settles(db, e, wk[w].inst)
      BY <2>2, FinishSettles
    <3>2. QED BY <3>1, CommitApart DEF Settles, Ends
  <2>3. CASE \E q \in db.queue :
           \/ DropFrozen(w, q) \/ DropInactive(w, q)
           \/ RejectedByPlugin(w, q) \/ CancelAtStart(w, q)
           \/ ExecuteFork(w, q) \/ ExecuteSavePoint(w, q) \/ ExecuteJoin(w, q)
           \/ \E result \in {"true", "false", "error"} : ExecuteCondition(w, q, result)
           \/ PollHuman(w, q) \/ ResumeHuman(w, q)
           \/ \E decision \in {"confirmed", "rejected"} : DecidedWhilePolling(w, q, decision)
    <3>1. PICK q \in db.queue : \E e : Commit(w, q.id, e) /\ Ends(db, e, q.inst)
      BY <2>3, DequeueSettles
    <3>2. PICK e : Commit(w, q.id, e) /\ Ends(db, e, q.inst) BY <3>1
    <3>3. q.inst \in Instances BY <1>1, ItemRow
    <3>4. QED BY <3>2, <3>3, CommitApart DEF Ends
  <2>4. QED BY <1>3, <2>1, <2>2, <2>3 DEF ExecuteNext
<1>4. ASSUME NEW w \in Workers, CancelTick(w) \/ Crash(w)
      PROVE  \E i \in Instances : Apart(db, db', i)
  <2>1. wk[w] \in InFlight
    <3>1. wk[w].kind # "idle" BY <1>4 DEF CancelTick, Crash, Busy
    <3>2. QED BY <1>1, <3>1, BusyIs DEF WorkersSound
  <2>2. wk[w].inst \in Instances BY <2>1 DEF InFlight
  <2>3. db' = db \/ db' = ReleaseQueueItem(db, wk[w].item) BY <1>4 DEF CancelTick, Crash
  <2>4. Apart(db, db', wk[w].inst)
    BY <1>1, <2>3, ReleaseApart, TouchesRefl DEF Touches
  <2>5. QED BY <2>2, <2>4
<1>5. QED BY <1>2, <1>3, <1>4 DEF Next

\* Instances do not meet, whatever the definitions, however many workers there are and
\* in each of the three stores: a step changes the status, the rows, the cancel request
\* and the dead letters of one instance only, and but for the slices the memory store
\* shares its join states.
THEOREM InstancesStayApart == Spec => InstancesApart
<1>1. Inv /\ [Next]_vars => [\E i \in Instances : Apart(db, db', i)]_vars
  BY InvIsSound, StepApart DEF Now
<1>2. QED BY <1>1, Invariance, PTL DEF Spec, InstancesApart

----------------------------------------------------------------------------
(* Queue items of others *)

\* OtherItemsStay is not a consequence of Inv: that the item a worker removes is one of its
\* own instance needs that the item, if it still is in the queue, never changes hands.
OwnItems(d, u) ==
    \A w \in Workers, q \in d.queue :
        u[w] \in InFlight /\ q.id = u[w].item => q.inst = u[w].inst
OInv == OwnItems(db, wk)

\* The items of d are still there in e, but for those of i: a claim or a release changes
\* who holds an item, nothing else.
StillThere(d, e, i) == \A q \in d.queue : q.inst # i => \E r \in e.queue : r.id = q.id

\* Items in the queue were there before, for the same instance, or are new.
OldOrNew(d, e) ==
    \A r \in e.queue : r.id >= d.nq \/ \E q \in d.queue : q.id = r.id /\ q.inst = r.inst

\* A worker in u2 had its item in u already, or it was in the queue.
SameItem(d, u, u2) ==
    \A w \in Workers : u2[w] \in InFlight =>
        \/ u[w] \in InFlight /\ u[w].item = u2[w].item /\ u[w].inst = u2[w].inst
        \/ \E q \in d.queue : q.id = u2[w].item /\ q.inst = u2[w].inst

\* A step of that kind keeps the items in their hands.
LEMMA OwnItemsStay ==
    ASSUME NEW d, NEW u, NEW e, NEW u2, Good(d), WorkersSound(d, u), OwnItems(d, u),
           OldOrNew(d, e), SameItem(d, u, u2)
    PROVE  OwnItems(e, u2)
<1> SUFFICES ASSUME NEW w \in Workers, NEW r \in e.queue, u2[w] \in InFlight, r.id = u2[w].item
             PROVE  r.inst = u2[w].inst
  BY DEF OwnItems
<1>1. d.nq \in Nat /\ (\A q \in d.queue : q.id < d.nq /\ q.id \in Nat)
      /\ \A q, p \in d.queue : q.id = p.id => q = p
  BY FieldTypes DEF Good, SoundItems, QueueItem
<1>2. u2[w].item \in Nat /\ u2[w].item < d.nq
  <2>1. u2[w].item \in Nat BY DEF InFlight
  <2>2. CASE u[w] \in InFlight /\ u[w].item = u2[w].item BY <2>1, <2>2 DEF WorkersSound
  <2>3. CASE \E q \in d.queue : q.id = u2[w].item BY <1>1, <2>3
  <2>4. QED BY <2>2, <2>3 DEF SameItem
<1>3. PICK q \in d.queue : q.id = r.id /\ q.inst = r.inst BY <1>1, <1>2 DEF OldOrNew
<1>4. CASE u[w] \in InFlight /\ u[w].item = u2[w].item /\ u[w].inst = u2[w].inst
  BY <1>3, <1>4 DEF OwnItems
<1>5. CASE \E p \in d.queue : p.id = u2[w].item /\ p.inst = u2[w].inst BY <1>1, <1>3, <1>5
<1>6. QED BY <1>4, <1>5 DEF SameItem

\* The end of a transaction removes an item of the instance.
LEMMA CommitItems ==
    ASSUME Now, NEW w \in Workers, NEW id, NEW e, NEW i, Commit(w, id, e), Ends(db, e, i)
    PROVE  /\ Keeps(db, e, i) /\ (\A q \in db.queue : q.id = id => q.inst = i) =>
                StillThere(db, db', i)
           /\ OldOrNew(db, db') /\ SameItem(db, wk, wk')
<1>1. Leads(db, e) BY DEF Ends
<1>2. db' = RemoveFromQueue(e, id) /\ wk' = [wk EXCEPT ![w] = Idle] BY DEF Commit
<1>3. db'.queue = {q \in e.queue : q.id # id} BY <1>1, <1>2 DEF RemoveFromQueue, Leads, Good, Database
<1>4. Keeps(db, e, i) /\ (\A q \in db.queue : q.id = id => q.inst = i) => StillThere(db, db', i)
  BY <1>3 DEF Keeps, StillThere
<1>5. OldOrNew(db, db') BY <1>1, <1>3 DEF Leads, Extends, OldOrNew
<1>6. SameItem(db, wk, wk')
  <2>1. Idle \notin InFlight BY DEF Idle, InFlight
  <2>2. wk \in [Workers -> InFlight \cup {Idle}] BY DEF Now, Sound, WorkersSound
  <2>3. QED BY <1>2, <2>1, <2>2 DEF SameItem
<1>7. QED BY <1>4, <1>5, <1>6

\* Dropping an item, which removes the item with the id of the step as well.
Drops == \E w \in Workers, q \in db.queue : DropInactive(w, q)

\* No item changes hands, and every step but DropInactive takes items of one instance out
\* of the queue.
LEMMA StepItems ==
    ASSUME Now, OInv, Next
    PROVE  /\ Drops \/ \E i \in Instances : StillThere(db, db', i)
           /\ OldOrNew(db, db') /\ SameItem(db, wk, wk')
<1> DEFINE Goal == /\ Drops \/ \E i \in Instances : StillThere(db, db', i)
                   /\ OldOrNew(db, db') /\ SameItem(db, wk, wk')
<1>1. Good(db) /\ WorkersSound(db, wk) BY DEF Now, Sound
<1>2. \A q \in db.queue : q.inst \in Instances BY <1>1, ItemRow
<1>3. CASE Api
  <2>1. PICK i \in Instances : Touches(db, db', i) BY <1>3, ApiTouches
  <2>2. StillThere(db, db', i) BY <2>1 DEF Touches, Keeps, StillThere
  <2>3. OldOrNew(db, db') BY <2>1 DEF Touches, Leads, Extends, OldOrNew
  <2>4. wk' = wk BY <1>3 DEF Api, StartWorkflow, RequestCancel, MakeHumanDecision, RequeueFromDLQ
  <2>5. SameItem(db, wk, wk') BY <2>4 DEF SameItem
  <2>6. QED BY <2>2, <2>3, <2>5
<1>4. ASSUME NEW w \in Workers, NEW q \in db.queue, StartTask(w, q) \/ StartCompensation(w, q)
      PROVE  Goal
  <2> DEFINE d == Claim(db, q, w)
             q2 == [q EXCEPT !.by = w]
  <2>1. q \in QueueItem BY <1>1, FieldTypes DEF Good
  <2>2. q2.id = q.id /\ q2.inst = q.inst BY <2>1 DEF QueueItem
  <2>3. db' \in {d, Running(d, q.step)} BY <1>4 DEF StartTask, StartCompensation, Started
  <2>4. d.queue = (db.queue \ {q}) \cup {q2} /\ Running(d, q.step).queue = d.queue
    BY <1>1 DEF Claim, Good, Database, Running, UpdateStep, UpdateSteps
  <2>5. db'.queue = (db.queue \ {q}) \cup {q2} BY <2>3, <2>4
  <2> HIDE DEF d, q2
  <2>6. StillThere(db, db', q.inst) /\ OldOrNew(db, db') BY <2>2, <2>5 DEF StillThere, OldOrNew
  <2>7. SameItem(db, wk, wk')
    <3>1. wk \in [Workers -> InFlight \cup {Idle}] BY <1>1 DEF WorkersSound
    <3>2. wk'[w].item = q.id /\ wk'[w].inst = q.inst
      BY <1>4, <3>1 DEF StartTask, StartCompensation
    <3>3. \A v \in Workers \ {w} : wk'[v] = wk[v] BY <1>4, <3>1 DEF StartTask, StartCompensation
    <3>4. QED BY <3>2, <3>3 DEF SameItem
  <2>8. QED BY <1>2, <2>6, <2>7
<1>5. ASSUME NEW w \in Workers, NEW ok \in BOOLEAN, FinishTask(w, ok) \/ FinishCompensation(w, ok)
      PROVE  Goal
  <2>1. PICK e : wk[w].inst \in Instances /\ Commit(w, wk[w].item, e) /\ Settles(db, e, wk[w].inst)
    BY <1>5, FinishSettles
  <2>2. wk[w] \in InFlight
    <3>1. wk[w].kind # "idle" BY <1>5 DEF FinishTask, FinishCompensation
    <3>2. QED BY <1>1, <3>1, BusyIs DEF WorkersSound
  <2>3. \A q \in db.queue : q.id = wk[w].item => q.inst = wk[w].inst BY <2>2 DEF OInv, OwnItems
  <2>4. QED BY <2>1, <2>3, CommitItems DEF Settles
<1>6. ASSUME NEW w \in Workers, NEW q \in db.queue,
             \/ DropFrozen(w, q) \/ DropInactive(w, q)
             \/ RejectedByPlugin(w, q) \/ CancelAtStart(w, q)
             \/ ExecuteFork(w, q) \/ ExecuteSavePoint(w, q) \/ ExecuteJoin(w, q)
             \/ \E result \in {"true", "false", "error"} : ExecuteCondition(w, q, result)
             \/ PollHuman(w, q) \/ ResumeHuman(w, q)
             \/ \E decision \in {"confirmed", "rejected"} : DecidedWhilePolling(w, q, decision)
      PROVE  Goal
  <2>1. PICK e : /\ Commit(w, q.id, e) /\ Ends(db, e, q.inst)
                 /\ Keeps(db, e, q.inst) \/ DropInactive(w, q)
    BY <1>6, DequeueSettles
  <2>2. \A r \in db.queue : r.id = q.id => r.inst = q.inst BY <1>1 DEF Good, SoundItems
  <2>3. OldOrNew(db, db') /\ SameItem(db, wk, wk') BY <2>1, CommitItems
  <2>4. Keeps(db, e, q.inst) => StillThere(db, db', q.inst) BY <2>1, <2>2, CommitItems
  <2>5. QED BY <1>2, <2>1, <2>3, <2>4 DEF Drops
<1>7. ASSUME NEW w \in Workers, CancelTick(w) \/ Crash(w) PROVE Goal
  <2>1. wk[w] \in InFlight
    <3>1. wk[w].kind # "idle" BY <1>7 DEF CancelTick, Crash, Busy
    <3>2. QED BY <1>1, <3>1, BusyIs DEF WorkersSound
  <2>2. wk[w].inst \in Instances BY <2>1 DEF InFlight
  <2>3. db' = db \/ db' = ReleaseQueueItem(db, wk[w].item) BY <1>7 DEF CancelTick, Crash
  <2>4. \A q \in db.queue : [q EXCEPT !.by = Nobody].id = q.id /\ [q EXCEPT !.by = Nobody].inst = q.inst
    BY <1>1, FieldTypes DEF Good, QueueItem
  <2>5. db'.queue = db.queue \/
        db'.queue = {IF q.id = wk[w].item THEN [q EXCEPT !.by = Nobody] ELSE q : q \in db.queue}
    BY <1>1, <2>3 DEF ReleaseQueueItem, Good, Database
  <2> DEFINE g(q) == IF q.id = wk[w].item THEN [q EXCEPT !.by = Nobody] ELSE q
  <2>6. StillThere(db, db', wk[w].inst) /\ OldOrNew(db, db')
    <3>1. CASE db'.queue = db.queue BY <3>1 DEF StillThere, OldOrNew
    <3>2. CASE db'.queue = {g(q) : q \in db.queue}
      <4>1. \A q \in db.queue : g(q).id = q.id /\ g(q).inst = q.inst BY <2>4
      <4> HIDE DEF g
      <4>2. QED BY <3>2, <4>1 DEF StillThere, OldOrNew
    <3>3. QED BY <2>5, <3>1, <3>2
  <2>7. SameItem(db, wk, wk')
    <3>1. wk \in [Workers -> InFlight \cup {Idle}] BY <1>1 DEF WorkersSound
    <3>2. wk' = [wk EXCEPT ![w] = [wk[w] EXCEPT !.cancelled = TRUE]] \/ wk' = [wk EXCEPT ![w] = Idle]
      BY <1>7 DEF CancelTick, Crash
    <3>3. [wk[w] EXCEPT !.cancelled = TRUE].item = wk[w].item
          /\ [wk[w] EXCEPT !.cancelled = TRUE].inst = wk[w].inst
      BY <2>1 DEF InFlight
    <3>4. Idle \notin InFlight BY DEF Idle, InFlight
    <3>5. QED BY <2>1, <3>1, <3>2, <3>3, <3>4 DEF SameItem
  <2>8. QED BY <2>2, <2>6, <2>7
<1> HIDE DEF Goal
<1>8. ASSUME NEW w \in Workers, ExecuteNext(w) PROVE Goal
  BY <1>4, <1>5, <1>6, <1>8 DEF ExecuteNext
<1>9. Goal BY <1>3, <1>7, <1>8 DEF Next, Goal
<1>10. QED BY <1>9 DEF Goal

\* What a worker removes from the queue stays its own.
LEMMA OwnItemsInvariance == Spec => []OInv
<1>1. Init => OInv
  <2>1. Init => db.queue = {} BY DEF Init, EmptyDatabase
  <2>2. QED BY <2>1 DEF OInv, OwnItems
<1>2. Inv /\ OInv /\ [Next]_vars => OInv'
  <2> SUFFICES ASSUME Inv, OInv, [Next]_vars PROVE OInv' OBVIOUS
  <2>1. Now BY InvIsSound DEF Now
  <2>2. CASE Next
    <3>1. OldOrNew(db, db') /\ SameItem(db, wk, wk') BY <2>1, <2>2, StepItems
    <3>2. Good(db) /\ WorkersSound(db, wk) BY <2>1 DEF Now, Sound
    <3>3. QED BY <3>1, <3>2, OwnItemsStay DEF OInv
  <2>3. CASE UNCHANGED vars BY <2>3 DEF vars, OInv
  <2>4. QED BY <2>2, <2>3
<1>3. QED BY <1>1, <1>2, Invariance, PTL DEF Spec

\* Whatever the definitions, however many workers there are and in each of the three stores,
\* neither the end of a transaction nor PauseActiveStepsAndClearQueue takes items of two
\* instances out of the queue.  OtherItemsStay fails (run wrong_item), and this says that
\* only the call for a step that is skipped, paused or rolled back can break it.
THEOREM OnlyDropsTakeOthers ==
    Spec => [][(\A q, r \in db.queue : Removed(q) /\ Removed(r) => q.inst = r.inst) \/ Drops]_vars
<1>1. Inv /\ OInv /\ [Next]_vars =>
        [(\A q, r \in db.queue : Removed(q) /\ Removed(r) => q.inst = r.inst) \/ Drops]_vars
  <2> SUFFICES ASSUME Inv, OInv, Next, ~Drops,
                      NEW q \in db.queue, NEW r \in db.queue, Removed(q), Removed(r)
               PROVE  q.inst = r.inst
    OBVIOUS
  <2>1. Now BY InvIsSound DEF Now
  <2>2. PICK i \in Instances : StillThere(db, db', i) BY <2>1, StepItems
  <2>3. QED BY <2>2 DEF StillThere, Removed
<1>2. QED BY <1>1, Invariance, OwnItemsInvariance, PTL DEF Spec

----------------------------------------------------------------------------
(* Dead letters in Postgres *)

\* A worker's item is in the queue and its instance is not in DLQ state.
Held(d, u) ==
    \A v \in Workers : u[v] \in InFlight =>
        /\ \E q \in d.queue : q.id = u[v].item /\ q.inst = u[v].inst
        /\ d.inst[u[v].inst] # "dlq"

\* If instance i is in DLQ state, a dead letter of it names a paused row.
Recoverable(d, i) ==
    d.inst[i] = "dlq" => \E rec \in d.dlq : rec.inst = i /\ d.steps[rec.step].status = "paused"

\* DeadLetterKept is not inductive: what freezes an instance is that nobody works for it.
PInv == ItemsHeld /\ FrozenIsIdle /\ DeadLetterKept

\* The invariant in the form the steps below use.
LEMMA PInvIs ==
    TypeOK => (PInv <=> Held(db, wk) /\ \A i \in Instances : Recoverable(db, i))
<1> SUFFICES ASSUME TypeOK
             PROVE  PInv <=> Held(db, wk) /\ \A i \in Instances : Recoverable(db, i)
  OBVIOUS
<1>1. \A v \in Workers : Busy(v) <=> wk[v] \in InFlight BY BusyIs DEF TypeOK, Busy
<1>2. QED BY <1>1 DEF PInv, ItemsHeld, FrozenIsIdle, DeadLetterKept, Held, Recoverable

\* What does not concern an instance leaves its dead letter and the paused row.
LEMMA OthersRecoverable ==
    ASSUME NEW d, Good(d), NEW e, NEW i, Apart(d, e, i),
           NEW h \in Instances \ {i}, Recoverable(d, h)
    PROVE  Recoverable(e, h)
<1> SUFFICES ASSUME e.inst[h] = "dlq"
             PROVE  \E rec \in e.dlq : rec.inst = h /\ e.steps[rec.step].status = "paused"
  BY DEF Recoverable
<1>1. PICK rec \in d.dlq : rec.inst = h /\ d.steps[rec.step].status = "paused"
  BY DEF Recoverable, Apart
<1>2. rec.step \in 1..Len(d.steps) /\ d.steps[rec.step].inst = h BY <1>1 DEF Good, SoundLetters
<1>3. QED BY <1>1, <1>2 DEF Apart

\* A busy worker in the next state, and the item it still has: it was in the queue before.
LEMMA CommitHolds ==
    ASSUME Now, StoreKind = "postgres", Held(db, wk), NEW w \in Workers, NEW id, NEW e,
           Commit(w, id, e), Leads(db, e),
           NEW v \in Workers, wk'[v] \in InFlight
    PROVE  /\ wk'[v] = wk[v]
           /\ \E q \in db'.queue : q.id = wk[v].item /\ q.inst = wk[v].inst
<1>1. Good(db) /\ Good(e) /\ WorkersSound(db, wk) BY DEF Now, Sound, Leads
<1>2. v # w /\ wk'[v] = wk[v]
  <2>1. Idle \notin InFlight BY DEF Idle, InFlight
  <2>2. QED BY <1>1, <2>1 DEF Commit, WorkersSound
<1>3. Busy(v) BY <1>1, <1>2, BusyIs DEF Busy, WorkersSound
<1>4. PICK q \in db'.queue : q.id = wk[v].item BY <1>2, <1>3 DEF Commit, LocksFree
<1>5. Leads(db, db') BY <1>1, RemoveFromQueueLeads, LeadsTrans DEF Commit
<1>6. q \in db.queue
  <2>1. wk[v].item < db.nq BY <1>1, <1>2 DEF WorkersSound
  <2>2. q.id < db.nq /\ q.id \in Nat /\ db.nq \in Nat
    <3>1. q \in QueueItem BY <1>5, FieldTypes DEF Leads, Good
    <3>2. QED BY <1>1, <1>4, <2>1, <3>1, FieldTypes DEF QueueItem, Good
  <2>3. QED BY <1>5, <2>2 DEF Leads, Extends
<1>7. PICK r \in db.queue : r.id = wk[v].item /\ r.inst = wk[v].inst BY <1>2 DEF Held
<1>8. q = r BY <1>1, <1>4, <1>6, <1>7 DEF Good, SoundItems
<1>9. QED BY <1>2, <1>4, <1>7, <1>8

\* The end of a transaction of ExecuteNext: an instance comes into DLQ state with its
\* dead letter, and only when nobody else works for it.
LEMMA CommitRecovers ==
    ASSUME Now, StoreKind = "postgres", Held(db, wk), \A h \in Instances : Recoverable(db, h),
           NEW w \in Workers, NEW id, NEW e, NEW i \in Instances,
           Commit(w, id, e), Ends(db, e, i), db.inst[i] # "dlq" \/ e = db
    PROVE  Held(db', wk') /\ \A h \in Instances : Recoverable(db', h)
<1>1. Good(db) /\ WorkersSound(db, wk) /\ Leads(db, e) BY DEF Now, Sound, Ends
<1>2. /\ Ends(db, db', i)
      /\ db'.inst = e.inst /\ db'.steps = e.steps /\ db'.dlq = e.dlq
  BY CommitApart
<1>3. ASSUME NEW v \in Workers, wk'[v] \in InFlight
      PROVE  /\ \E q \in db'.queue : q.id = wk'[v].item /\ q.inst = wk'[v].inst
             /\ db'.inst[wk'[v].inst] # "dlq"
  <2>1. /\ wk'[v] = wk[v] /\ wk[v] \in InFlight
        /\ \E q \in db'.queue : q.id = wk[v].item /\ q.inst = wk[v].inst
    BY <1>1, <1>3, CommitHolds
  <2>2. wk[v].inst \in Instances BY <2>1 DEF InFlight
  <2>3. db.inst[wk[v].inst] # "dlq" BY <2>1 DEF Held
  <2>4. db'.inst[wk[v].inst] # "dlq"
    <3>1. CASE wk[v].inst = i BY <1>2, <2>1, <2>3, <3>1 DEF Ends, Frozen
    <3>2. CASE wk[v].inst # i BY <1>2, <2>2, <2>3, <3>2 DEF Ends, Apart
    <3>3. QED BY <3>1, <3>2
  <2>5. QED BY <2>1, <2>4
<1>4. ASSUME NEW h \in Instances PROVE Recoverable(db', h)
  <2>1. CASE h # i BY <1>1, <1>2, <2>1, OthersRecoverable DEF Ends
  <2>2. CASE h = i
    <3>1. CASE e = db BY <1>2, <2>2, <3>1 DEF Recoverable
    <3>2. CASE db.inst[i] # "dlq" BY <1>2, <2>2, <3>2 DEF Recoverable, Ends, Frozen
    <3>3. QED BY <3>1, <3>2
  <2>3. QED BY <2>1, <2>2
<1>5. QED BY <1>3, <1>4 DEF Held

\* A call that takes nothing out of the queue and leaves its own instance recoverable.
LEMMA CallRecovers ==
    ASSUME NEW d, Good(d), NEW u, WorkersSound(d, u), Held(d, u),
           \A h \in Instances : Recoverable(d, h),
           NEW e, NEW i, Touches(d, e, i), d.queue \subseteq e.queue, Recoverable(e, i)
    PROVE  Held(e, u) /\ \A h \in Instances : Recoverable(e, h)
<1>1. \A h \in Instances : d.inst[h] # "dlq" => e.inst[h] # "dlq" BY DEF Touches, Apart
<1>2. \A v \in Workers : u[v] \in InFlight => u[v].inst \in Instances BY DEF InFlight
<1>3. Held(e, u) BY <1>1, <1>2 DEF Held
<1>4. \A h \in Instances : Recoverable(e, h)
  <2> TAKE h \in Instances
  <2>1. CASE h # i BY <2>1, OthersRecoverable DEF Touches
  <2>2. QED BY <2>1
<1>5. QED BY <1>3, <1>4

\* StartWorkflow, CancelWorkflow, AbortWorkflow, MakeHumanDecision, RequeueFromDLQ.
LEMMA ApiRecovers ==
    ASSUME Now, StoreKind = "postgres", Held(db, wk), \A h \in Instances : Recoverable(db, h),
           Api
    PROVE  Held(db', wk') /\ \A h \in Instances : Recoverable(db', h)
<1>1. Good(db) /\ WorkersSound(db, wk) /\ db \in Database BY DEF Now, Sound, Good
<1>2. wk' = wk
  BY DEF Api, StartWorkflow, RequestCancel, MakeHumanDecision, RequeueFromDLQ
<1> DEFINE Goal == Held(db', wk') /\ \A h \in Instances : Recoverable(db', h)
<1>3. ASSUME NEW i, Touches(db, db', i), db.queue \subseteq db'.queue, Recoverable(db', i)
      PROVE  Goal
  BY <1>1, <1>2, <1>3, CallRecovers
<1> HIDE DEF Goal
<1>4. ASSUME NEW i \in Instances, StartWorkflow(i) PROVE Goal
  <2> DEFINE d1 == UpdateInstanceStatus(db, i, "running")
  <2>1. "running" \in WorkflowStatus BY DEF WorkflowStatus
  <2>2. Touches(db, d1, i) /\ Good(d1) BY <1>1, <2>1, UpdateInstanceStatusTouches, TouchesGood
  <2>3. db' = enqueueNextSteps(d1, i, <<Start[i]>>) /\ db.inst[i] = "none"
    BY <1>4 DEF StartWorkflow
  <2>4. d1.queue = db.queue BY <1>1 DEF UpdateInstanceStatus, Database
  <2> HIDE DEF d1
  <2>5. <<Start[i]>> \in Seq(Steps)
    <3>1. Start[i] \in Steps BY StoreAssumption
    <3>2. QED BY <3>1
  <2>6. Touches(db, db', i) BY <1>1, <2>2, <2>3, <2>5, EnqueueNextStepsTouches, TouchesTrans
  <2>7. d1.queue \subseteq enqueueNextSteps(d1, i, <<Start[i]>>).queue
    BY <2>2 DEF enqueueNextSteps, CreateAndEnqueue, CreateSteps, EnqueueRange, Good, Database
  <2>8. Recoverable(db', i) BY <2>3, <2>6 DEF Touches, Recoverable
  <2>9. QED BY <1>3, <2>3, <2>4, <2>6, <2>7, <2>8
<1>5. ASSUME NEW i \in Instances, NEW kind \in CancelKinds[i], RequestCancel(i, kind) PROVE Goal
  <2>1. kind \in {"cancel", "abort"} BY EngineAssumption
  <2>2. Touches(db, db', i) BY <1>1, <1>5, <2>1, CancelRequestTouches DEF RequestCancel
  <2>3. /\ db'.inst = db.inst /\ db'.steps = db.steps /\ db'.dlq = db.dlq
        /\ db'.queue = db.queue
    BY <1>1, <1>5 DEF RequestCancel, CreateCancelRequest, Database
  <2>4. Recoverable(db', i) BY <2>3 DEF Recoverable
  <2>5. QED BY <1>3, <2>2, <2>3, <2>4
<1>6. ASSUME NEW k \in DOMAIN db.steps, NEW decision \in {"confirmed", "rejected"},
             MakeHumanDecision(k, decision)
      PROVE  Goal
  <2> DEFINE i == db.steps[k].inst
             s == [db.steps EXCEPT ![k] = [db.steps[k] EXCEPT !.decision = decision, !.status = decision]]
             d1 == [db EXCEPT !.steps = s]
  <2>1. IsRow(db, i, k) BY <1>1, FieldTypes DEF IsRow
  <2>2. Touches(db, db', i) BY <1>1, <1>6, <2>1, HumanDecisionTouches DEF MakeHumanDecision
  <2>3. db' = d1 \/ db' = UpdateInstanceStatus(d1, i, "aborted")
    BY <1>1, <1>6, FieldTypes DEF MakeHumanDecision, humanDecision
  <2>4. db.steps[k].status = "waiting_decision" BY <1>6 DEF MakeHumanDecision
  <2>5. /\ d1.inst = db.inst /\ d1.steps = s /\ d1.dlq = db.dlq /\ d1.queue = db.queue
        /\ UpdateInstanceStatus(d1, i, "aborted").inst = [db.inst EXCEPT ![i] = "aborted"]
        /\ UpdateInstanceStatus(d1, i, "aborted").queue = db.queue
    BY <1>1 DEF UpdateInstanceStatus, Database
  <2>6. \A m \in 1..Len(db.steps) : db.steps[m].status = "paused" => s[m] = db.steps[m]
    BY <1>1, <2>4, FieldTypes
  <2>7. i \in Instances BY <1>1, <2>1, RowName
  <2> HIDE DEF s, d1, i
  <2>8. Recoverable(d1, i)
    <3>1. \A rec \in db.dlq : rec.step \in 1..Len(db.steps) BY <1>1 DEF Good, SoundLetters
    <3>2. QED BY <2>5, <2>6, <2>7, <3>1 DEF Recoverable
  <2>9. Recoverable(UpdateInstanceStatus(d1, i, "aborted"), i)
    BY <1>1, <2>5, <2>7, FieldTypes DEF Recoverable
  <2>10. QED BY <1>3, <2>2, <2>3, <2>5, <2>8, <2>9
<1>7. ASSUME NEW rec \in db.dlq, RequeueFromDLQ(rec) PROVE Goal
  <2> DEFINE i == rec.inst
             e == Reset(db, rec)
             f == UpdateSteps(e, PausedJoins(db, i), "pending")
  <2>1. Touches(db, db', i) BY <1>1, <1>7, RequeueDeadLetterTouches DEF RequeueFromDLQ
  <2>2. db' = EnqueueStep(f, i, rec.step)
    BY <1>7 DEF RequeueFromDLQ, RequeueDeadLetter, RequeueDeadLetterPostgres
  <2>3. /\ e.inst = [db.inst EXCEPT ![i] = IF @ \in {"failed", "dlq"} THEN "running" ELSE @]
        /\ e.queue = db.queue
    BY <1>1 DEF Reset, Database
  <2>4. e \in Database BY <1>1, ResetLeads DEF Leads, Good
  <2> HIDE DEF e
  <2>5. f.inst = e.inst /\ f.queue = e.queue BY <2>4 DEF UpdateSteps, Database
  <2>6. f \in Database
    <3>1. Good(e) BY <1>1, ResetLeads DEF Leads, e
    <3>2. "pending" \in StepStatus BY DEF StepStatus
    <3>3. QED BY <3>1, <3>2, UpdateStepsLeads DEF Leads, Good
  <2> HIDE DEF f
  <2>7. db'.inst = f.inst /\ f.queue \subseteq db'.queue
    BY <2>2, <2>6 DEF EnqueueStep, EnqueueRange, Database
  <2>8. i \in Instances BY <1>1, FieldTypes DEF DeadLetter
  <2>9. db'.inst[i] # "dlq" BY <1>1, <2>3, <2>5, <2>7, <2>8, FieldTypes
  <2>10. QED BY <1>3, <2>1, <2>3, <2>5, <2>7, <2>9 DEF Recoverable
<1>8. QED BY <1>4, <1>5, <1>6, <1>7 DEF Api, Goal

\* Dequeuing an item: it is free, so no other worker has it, and its instance is not in
\* DLQ state.
LEMMA StartRecovers ==
    ASSUME Now, StoreKind = "postgres", Held(db, wk), \A h \in Instances : Recoverable(db, h),
           NEW w \in Workers, NEW q \in db.queue, StartTask(w, q) \/ StartCompensation(w, q)
    PROVE  Held(db', wk') /\ \A h \in Instances : Recoverable(db', h)
<1> DEFINE c == [q EXCEPT !.by = w]
<1>1. Good(db) /\ WorkersSound(db, wk) /\ db \in Database BY DEF Now, Sound, Good
<1>2. db' = Claim(db, q, w) BY DEF StartTask, StartCompensation, Started
<1>3. q.by = Nobody /\ db.inst[q.inst] # "dlq"
  BY DEF StartTask, StartCompensation, Forward, Dequeues, Dequeuable
<1>4. /\ \A v \in Workers \ {w} : wk'[v] = wk[v]
      /\ wk'[w].item = q.id /\ wk'[w].inst = q.inst
  BY <1>1 DEF StartTask, StartCompensation, WorkersSound
<1>5. /\ db'.inst = db.inst /\ db'.steps = db.steps /\ db'.dlq = db.dlq
      /\ db'.queue = (db.queue \ {q}) \cup {c}
  BY <1>1, <1>2 DEF Claim, Database
<1>6. c.id = q.id /\ c.inst = q.inst
  <2>1. q \in QueueItem BY <1>1, FieldTypes
  <2>2. QED BY <2>1 DEF QueueItem
<1> HIDE DEF c
<1>7. ASSUME NEW v \in Workers, wk'[v] \in InFlight
      PROVE  /\ \E r \in db'.queue : r.id = wk'[v].item /\ r.inst = wk'[v].inst
             /\ db'.inst[wk'[v].inst] # "dlq"
  <2>1. CASE v = w BY <1>3, <1>4, <1>5, <1>6, <2>1
  <2>2. CASE v # w
    <3>1. wk'[v] = wk[v] /\ wk[v] \in InFlight BY <1>4, <1>7, <2>2
    <3>2. PICK r \in db.queue : r.id = wk[v].item /\ r.inst = wk[v].inst BY <3>1 DEF Held
    <3>3. r # q BY <1>1, <1>3, <3>1, <3>2 DEF WorkersSound
    <3>4. QED BY <1>5, <3>1, <3>2, <3>3 DEF Held
  <2>3. QED BY <2>1, <2>2
<1>8. QED BY <1>5, <1>7 DEF Held, Recoverable

\* Cancelling a context, and a transaction that is rolled back.
LEMMA TickCrashRecovers ==
    ASSUME Now, StoreKind = "postgres", Held(db, wk), \A h \in Instances : Recoverable(db, h),
           NEW w \in Workers, CancelTick(w) \/ Crash(w)
    PROVE  Held(db', wk') /\ \A h \in Instances : Recoverable(db', h)
<1>1. Good(db) /\ WorkersSound(db, wk) /\ db \in Database BY DEF Now, Sound, Good
<1>2. wk[w] \in InFlight
  <2>1. wk[w].kind # "idle" BY DEF CancelTick, Crash, Busy
  <2>2. QED BY <1>1, <2>1, BusyIs DEF WorkersSound
<1>3. CASE CancelTick(w)
  <2> DEFINE f == [wk[w] EXCEPT !.cancelled = TRUE]
  <2>1. f.item = wk[w].item /\ f.inst = wk[w].inst BY <1>2 DEF InFlight
  <2>2. wk' = [wk EXCEPT ![w] = f] /\ db' = db BY <1>3 DEF CancelTick
  <2> HIDE DEF f
  <2>3. \A v \in Workers : wk'[v] \in InFlight =>
          wk[v] \in InFlight /\ wk'[v].item = wk[v].item /\ wk'[v].inst = wk[v].inst
    BY <1>1, <1>2, <2>1, <2>2 DEF WorkersSound
  <2>4. QED BY <2>2, <2>3 DEF Held
<1>4. CASE Crash(w)
  <2> DEFINE id == wk[w].item
             R(q) == IF q.id = id THEN [q EXCEPT !.by = Nobody] ELSE q
  <2>1. db' = ReleaseQueueItem(db, id) /\ wk' = [wk EXCEPT ![w] = Idle] BY <1>4 DEF Crash
  <2>2. /\ db'.inst = db.inst /\ db'.steps = db.steps /\ db'.dlq = db.dlq
        /\ db'.queue = {R(q) : q \in db.queue}
    BY <1>1, <2>1 DEF ReleaseQueueItem, Database
  <2>3. \A q \in db.queue : R(q).id = q.id /\ R(q).inst = q.inst
    BY <1>1, FieldTypes DEF QueueItem
  <2> HIDE DEF R
  <2>4. \A q \in db.queue : \E r \in db'.queue : r.id = q.id /\ r.inst = q.inst
    BY <2>2, <2>3
  <2>5. \A v \in Workers : wk'[v] \in InFlight => wk'[v] = wk[v]
    <3>1. Idle \notin InFlight BY DEF Idle, InFlight
    <3>2. QED BY <1>1, <2>1, <3>1 DEF WorkersSound
  <2>6. Held(db', wk')
    <3> SUFFICES ASSUME NEW v \in Workers, wk'[v] \in InFlight
                 PROVE  /\ \E r \in db'.queue : r.id = wk'[v].item /\ r.inst = wk'[v].inst
                        /\ db'.inst[wk'[v].inst] # "dlq"
      BY DEF Held
    <3>1. wk'[v] = wk[v] BY <2>5
    <3>2. PICK q \in db.queue : q.id = wk[v].item /\ q.inst = wk[v].inst BY <3>1 DEF Held
    <3>3. QED BY <2>2, <2>4, <3>1, <3>2 DEF Held
  <2>7. QED BY <2>2, <2>6 DEF Recoverable
<1>5. QED BY <1>3, <1>4

\* At first nobody works and no instance has been started.
LEMMA InitRecovers == Init => PInv
<1> SUFFICES ASSUME Init PROVE PInv OBVIOUS
<1>1. \A i \in Instances : db.inst[i] # "dlq" BY DEF Init, EmptyDatabase
<1>2. \A w \in Workers : ~Busy(w) BY DEF Init, Busy, Idle
<1>3. QED BY <1>1, <1>2 DEF PInv, ItemsHeld, FrozenIsIdle, DeadLetterKept

\* In Postgres every step keeps it.
LEMMA NextRecovers ==
    ASSUME StoreKind = "postgres" PROVE Inv /\ Inv' /\ PInv /\ [Next]_vars => PInv'
<1> SUFFICES ASSUME Inv, Inv', PInv, [Next]_vars PROVE PInv' OBVIOUS
<1> DEFINE Goal == Held(db', wk') /\ \A h \in Instances : Recoverable(db', h)
<1>1. Now BY InvIsSound DEF Now
<1>2. Good(db) /\ WorkersSound(db, wk) BY <1>1 DEF Now, Sound
<1>3. Held(db, wk) /\ \A h \in Instances : Recoverable(db, h) BY PInvIs DEF Inv
<1>4. Goal => PInv'
  <2>1. (TypeOK => (PInv <=> Held(db, wk) /\ \A i \in Instances : Recoverable(db, i)))'
    BY PInvIs, PTL
  <2>2. TypeOK' BY DEF Inv
  <2>3. QED BY <2>1, <2>2
<1>5. CASE Api BY <1>1, <1>3, <1>4, <1>5, ApiRecovers
<1>6. ASSUME NEW w \in Workers, ExecuteNext(w) PROVE PInv'
  <2>1. CASE \E q \in db.queue : StartTask(w, q) \/ StartCompensation(w, q)
    BY <1>1, <1>3, <1>4, <2>1, StartRecovers
  <2>2. CASE \E ok \in BOOLEAN : FinishTask(w, ok) \/ FinishCompensation(w, ok)
    <3>1. PICK e : wk[w].inst \in Instances /\ Commit(w, wk[w].item, e) /\ Settles(db, e, wk[w].inst)
      BY <1>1, <2>2, FinishSettles
    <3>2. wk[w] \in InFlight
      <4>1. wk[w].kind # "idle" BY <2>2 DEF FinishTask, FinishCompensation
      <4>2. QED BY <1>2, <4>1, BusyIs DEF WorkersSound
    <3>3. db.inst[wk[w].inst] # "dlq" BY <1>3, <3>2 DEF Held
    <3>4. QED BY <1>1, <1>3, <1>4, <3>1, <3>3, CommitRecovers DEF Settles
  <2>3. CASE \E q \in db.queue :
           \/ DropFrozen(w, q) \/ DropInactive(w, q)
           \/ RejectedByPlugin(w, q) \/ CancelAtStart(w, q)
           \/ ExecuteFork(w, q) \/ ExecuteSavePoint(w, q) \/ ExecuteJoin(w, q)
           \/ \E result \in {"true", "false", "error"} : ExecuteCondition(w, q, result)
           \/ PollHuman(w, q) \/ ResumeHuman(w, q)
           \/ \E decision \in {"confirmed", "rejected"} : DecidedWhilePolling(w, q, decision)
    <3>1. PICK q \in db.queue : \E e : /\ Commit(w, q.id, e) /\ Ends(db, e, q.inst)
                                       /\ db.inst[q.inst] # "dlq" \/ e = db
      BY <1>1, <2>3, DequeueSettles
    <3>2. PICK e : /\ Commit(w, q.id, e) /\ Ends(db, e, q.inst)
                   /\ db.inst[q.inst] # "dlq" \/ e = db
      BY <3>1
    <3>3. q.inst \in Instances BY <1>2, ItemRow
    <3>4. QED BY <1>1, <1>3, <1>4, <3>2, <3>3, CommitRecovers
  <2>4. QED BY <1>6, <2>1, <2>2, <2>3 DEF ExecuteNext
<1>7. ASSUME NEW w \in Workers, CancelTick(w) \/ Crash(w) PROVE PInv'
  BY <1>1, <1>3, <1>4, <1>7, TickCrashRecovers
<1>8. CASE UNCHANGED vars BY <1>3, <1>4, <1>8 DEF vars
<1>9. QED BY <1>5, <1>6, <1>7, <1>8 DEF Next

\* A workflow in DLQ state in Postgres can always be taken out of it: a dead letter names
\* one of its paused steps (moveToDLQ, PauseActiveStepsAndClearQueue, RequeueDeadLetter),
\* and no worker is inside one of its handlers, whatever crashes or is requeued meanwhile.
THEOREM DeadLettersKept ==
    ASSUME StoreKind = "postgres" PROVE Spec => [](DeadLetterKept /\ FrozenIsIdle)
<1>1. Init => PInv BY InitRecovers
<1>2. Inv /\ Inv' /\ PInv /\ [Next]_vars => PInv' BY NextRecovers
<1>3. PInv => DeadLetterKept /\ FrozenIsIdle BY DEF PInv
<1>4. QED BY <1>1, <1>2, <1>3, Invariance, PTL DEF Spec
=============================================================================
