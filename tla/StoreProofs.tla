---------------------------- MODULE StoreProofs ----------------------------
(***************************************************************************)
(* What every operation of module Store keeps, whatever the definition,    *)
(* the instances and the store kind: the tables stay well typed, queue     *)
(* items and dead letters name rows of their instance, ids are given out   *)
(* once, and a claimed item is neither freed nor given away.  Leads(d, e)  *)
(* says so of an operation from d to e; it is transitive, so the functions *)
(* of the engine, which chain these operations, inherit it.                *)
(***************************************************************************)
EXTENDS Store, FiniteSetTheorems, SequenceTheorems, TLAPS

\* The queue of a database content d: ids are unique and below the next one, and an
\* item names a row of its instance.
SoundItems(d) ==
    /\ \A q \in d.queue : /\ q.id < d.nq
                          /\ q.step \in 1..Len(d.steps)
                          /\ d.steps[q.step].inst = q.inst
    /\ \A q, r \in d.queue : q.id = r.id => q = r

\* A dead letter names a row of its instance.
SoundLetters(d) ==
    \A rec \in d.dlq : rec.step \in 1..Len(d.steps) /\ d.steps[rec.step].inst = rec.inst

Good(d) == d \in Database /\ SoundItems(d) /\ SoundLetters(d)

\* A row keeps its owner, and a decision once made is not unmade.
Kept(old, new) ==
    new.inst = old.inst /\ (old.decision # "none" => new.decision # "none")

RowsKept(d, e) ==
    /\ Len(d.steps) <= Len(e.steps)
    /\ \A k \in 1..Len(d.steps) : Kept(d.steps[k], e.steps[k])

\* What an operation may do to the queue: items of e were in d, claimed or not as they
\* are, or are new, under ids d never gave out, and free.
Extends(d, e) ==
    /\ RowsKept(d, e)
    /\ d.nq <= e.nq
    /\ \A q \in e.queue : q \in d.queue \/ (q.id >= d.nq /\ q.by = Nobody)

\* The operation from d to e is harmless: it leaves a good database and no claim in d is
\* lost or taken over.
Leads(d, e) == Good(e) /\ Extends(d, e)

\* What the type of a database says of each of its tables.
LEMMA FieldTypes ==
    ASSUME NEW d \in Database
    PROVE  /\ d.inst \in [Instances -> WorkflowStatus]
           /\ d.steps \in Seq(WorkflowStep)
           /\ DOMAIN d.steps = 1..Len(d.steps)
           /\ Len(d.steps) \in Nat
           /\ \A k \in 1..Len(d.steps) : d.steps[k] \in WorkflowStep
           /\ d.queue \subseteq QueueItem
           /\ d.nq \in Nat
           /\ d.waitFor \in [JoinSteps -> Seq(WaitNames)]
           /\ d.join \in [Instances -> [JoinSteps -> JoinState]]
           /\ d.cancel \in [Instances -> {"none", "cancel", "abort"}]
           /\ d.dlq \subseteq DeadLetter
           /\ d.nd \in Nat
<1>1. d.steps \in Seq(WorkflowStep)
  BY DEF Database
<1>2. QED BY <1>1 DEF Database

\* Leads is reflexive: an operation that does nothing is harmless.
LEMMA LeadsRefl ==
    ASSUME NEW d, Good(d) PROVE Leads(d, d)
BY FieldTypes DEF Leads, Good, Extends, RowsKept, Kept

\* Leads is transitive: operations on the store can be chained, as the engine does.
LEMMA LeadsTrans ==
    ASSUME NEW d, NEW e, NEW f, Good(d), Leads(d, e), Leads(e, f) PROVE Leads(d, f)
BY FieldTypes DEF Leads, Good, Extends, RowsKept, Kept, QueueItem

\* An operation that gives out no queue id, adds no dead letter and keeps the rows.
LEMMA SameQueueLeads ==
    ASSUME NEW d, NEW e \in Database, Good(d), RowsKept(d, e),
           e.queue = d.queue, e.nq = d.nq, e.dlq \subseteq d.dlq
    PROVE Leads(d, e)
<1>1. d \in Database BY DEF Good
<1>2. SoundItems(e)
  BY <1>1, FieldTypes DEF Good, SoundItems, RowsKept, Kept
<1>3. SoundLetters(e)
  BY <1>1, FieldTypes DEF Good, SoundLetters, RowsKept, Kept
<1>4. Extends(d, e)
  BY <1>1, FieldTypes DEF Extends
<1>5. QED BY <1>2, <1>3, <1>4 DEF Leads, Good

\* An operation that touches neither steps nor queue nor dead letters.
LEMMA SameRowsLeads ==
    ASSUME NEW d, NEW e \in Database, Good(d), e.steps = d.steps,
           e.queue = d.queue, e.nq = d.nq, e.dlq \subseteq d.dlq
    PROVE Leads(d, e)
<1>1. RowsKept(d, e)
  BY FieldTypes DEF RowsKept, Kept
<1>2. QED BY <1>1, SameQueueLeads

\* The steps table is replaced by one that keeps every row it had.
LEMMA StepsReplacedLeads ==
    ASSUME NEW d, Good(d), NEW s \in Seq(WorkflowStep), Len(d.steps) <= Len(s),
           \A k \in 1..Len(d.steps) : Kept(d.steps[k], s[k])
    PROVE  Leads(d, [d EXCEPT !.steps = s])
<1> DEFINE e == [d EXCEPT !.steps = s]
<1>1. e \in Database
  BY DEF Good, Database
<1>2. /\ e.steps = s /\ e.queue = d.queue /\ e.nq = d.nq /\ e.dlq = d.dlq
  BY DEF Good, Database
<1>3. RowsKept(d, e)
  BY <1>2 DEF RowsKept
<1>4. Leads(d, e)
  <2> HIDE DEF e
  <2> QED BY <1>1, <1>2, <1>3, SameQueueLeads
<1>5. QED BY <1>4

\* An UPDATE workflow_steps: every row is changed in place.
LEMMA RowsMapped ==
    ASSUME NEW d, Good(d), NEW s \in [1..Len(d.steps) -> WorkflowStep],
           \A k \in 1..Len(d.steps) : Kept(d.steps[k], s[k])
    PROVE  Leads(d, [d EXCEPT !.steps = s])
<1>1. d \in Database BY DEF Good
<1>2. DOMAIN d.steps = 1..Len(d.steps) /\ Len(d.steps) \in Nat BY <1>1, FieldTypes
<1>4. s \in Seq(WorkflowStep) /\ Len(s) = Len(d.steps) BY <1>2
<1>5. Len(d.steps) <= Len(s) BY <1>2, <1>4
<1>6. QED BY <1>4, <1>5, StepsReplacedLeads, Zenon

\* UpdateInstanceStatus is harmless.
LEMMA UpdateInstanceStatusLeads ==
    ASSUME NEW d, Good(d), NEW i \in Instances, NEW s \in WorkflowStatus
    PROVE  Leads(d, UpdateInstanceStatus(d, i, s))
<1> DEFINE e == UpdateInstanceStatus(d, i, s)
<1>1. e \in Database
  BY DEF Good, Database, UpdateInstanceStatus
<1>2. e.steps = d.steps /\ e.queue = d.queue /\ e.nq = d.nq /\ e.dlq = d.dlq
  BY DEF Good, Database, UpdateInstanceStatus
<1>3. Leads(d, e)
  <2> HIDE DEF e
  <2> QED BY <1>1, <1>2, SameRowsLeads
<1>4. QED BY <1>3

\* A new status leaves a row well typed and keeps its owner and its decision.
LEMMA WithStatusRow ==
    ASSUME NEW row \in WorkflowStep, NEW status \in StepStatus
    PROVE  WithStatus(row, status) \in WorkflowStep /\ Kept(row, WithStatus(row, status))
<1>1. CASE status = "failed"
  <2>1. WithStatus(row, status) = [row EXCEPT !.status = "failed", !.retry = row.retry + 1]
    BY <1>1 DEF WithStatus
  <2>2. row.retry + 1 \in Nat
    BY DEF WorkflowStep
  <2>3. QED BY <2>1, <2>2 DEF WorkflowStep, StepStatus, Kept
<1>2. CASE status # "failed"
  BY <1>2 DEF WithStatus, WorkflowStep, Kept
<1>3. QED BY <1>1, <1>2

\* UpdateStep, on any set of rows, is harmless.
LEMMA UpdateStepsLeads ==
    ASSUME NEW d, Good(d), NEW K, NEW status \in StepStatus
    PROVE  Leads(d, UpdateSteps(d, K, status))
<1> DEFINE s == [k \in DOMAIN d.steps |->
                   IF k \in K THEN WithStatus(d.steps[k], status) ELSE d.steps[k]]
<1>1. d \in Database BY DEF Good
<1>2. \A k \in 1..Len(d.steps) : s[k] \in WorkflowStep /\ Kept(d.steps[k], s[k])
  BY <1>1, FieldTypes, WithStatusRow DEF Kept
<1>3. UpdateSteps(d, K, status) = [d EXCEPT !.steps = s]
  BY DEF UpdateSteps
<1>4. s \in [1..Len(d.steps) -> WorkflowStep] BY <1>1, <1>2, FieldTypes
<1> HIDE DEF s
<1>5. \A k \in 1..Len(d.steps) : Kept(d.steps[k], s[k]) BY <1>2
<1>6. Leads(d, [d EXCEPT !.steps = s]) BY <1>4, <1>5, RowsMapped, Zenon
<1>7. QED BY <1>3, <1>6, Zenon

\* UpdateStepStatus on an existing row is harmless.
LEMMA UpdateStepStatusLeads ==
    ASSUME NEW d, Good(d), NEW k0 \in 1..Len(d.steps), NEW status \in StepStatus
    PROVE  Leads(d, UpdateStepStatus(d, k0, status))
<1> DEFINE s == [d.steps EXCEPT ![k0] = [d.steps[k0] EXCEPT !.status = status]]
<1>1. d \in Database BY DEF Good
<1>2. \A k \in 1..Len(d.steps) : s[k] \in WorkflowStep /\ Kept(d.steps[k], s[k])
  <2>1. \A row \in WorkflowStep : [row EXCEPT !.status = status] \in WorkflowStep
                                  /\ Kept(row, [row EXCEPT !.status = status])
    BY DEF WorkflowStep, Kept
  <2>2. QED BY <1>1, <2>1, FieldTypes DEF Kept
<1>3. UpdateStepStatus(d, k0, status) = [d EXCEPT !.steps = s]
  BY <1>1, FieldTypes DEF UpdateStepStatus
<1>4. s \in [1..Len(d.steps) -> WorkflowStep] BY <1>1, <1>2, FieldTypes
<1> HIDE DEF s
<1>5. \A k \in 1..Len(d.steps) : Kept(d.steps[k], s[k]) BY <1>2
<1>6. Leads(d, [d EXCEPT !.steps = s]) BY <1>4, <1>5, RowsMapped, Zenon
<1>7. QED BY <1>3, <1>6, Zenon

\* UpdateStepCompensationRetry, on any set of rows, is harmless.
LEMMA CompensationRetryLeads ==
    ASSUME NEW d, Good(d), NEW K, NEW count \in [K -> Nat]
    PROVE  Leads(d, UpdateStepsCompensationRetry(d, K, count))
<1> DEFINE s == [k \in DOMAIN d.steps |->
                   IF k \in K THEN [d.steps[k] EXCEPT !.comp = count[k], !.status = "compensation"]
                   ELSE d.steps[k]]
<1>1. d \in Database BY DEF Good
<1>2. \A k \in 1..Len(d.steps) : s[k] \in WorkflowStep /\ Kept(d.steps[k], s[k])
  <2>1. \A row \in WorkflowStep, c \in Nat :
          /\ [row EXCEPT !.comp = c, !.status = "compensation"] \in WorkflowStep
          /\ Kept(row, [row EXCEPT !.comp = c, !.status = "compensation"])
    BY DEF WorkflowStep, StepStatus, Kept
  <2>2. QED BY <1>1, <2>1, FieldTypes DEF Kept
<1>3. UpdateStepsCompensationRetry(d, K, count) = [d EXCEPT !.steps = s]
  BY DEF UpdateStepsCompensationRetry
<1>4. s \in [1..Len(d.steps) -> WorkflowStep] BY <1>1, <1>2, FieldTypes
<1> HIDE DEF s
<1>5. \A k \in 1..Len(d.steps) : Kept(d.steps[k], s[k]) BY <1>2
<1>6. Leads(d, [d EXCEPT !.steps = s]) BY <1>4, <1>5, RowsMapped, Zenon
<1>7. QED BY <1>3, <1>6, Zenon

\* CreateStep appends its rows behind the existing ones, all of the same instance.
LEMMA CreateStepsLeads ==
    ASSUME NEW d, Good(d), NEW i \in Instances, NEW names \in Seq(Steps), NEW st \in StepStatus
    PROVE  /\ Leads(d, CreateSteps(d, i, names, st))
           /\ Len(CreateSteps(d, i, names, st).steps) = Len(d.steps) + Len(names)
           /\ \A k \in 1..Len(names) :
                CreateSteps(d, i, names, st).steps[Len(d.steps) + k].inst = i
           /\ CreateSteps(d, i, names, st).nq = d.nq
<1> DEFINE new == [k \in 1..Len(names) |-> NewStep(i, names[k], st)]
           s   == d.steps \o new
<1>0. d \in Database /\ d.steps \in Seq(WorkflowStep) BY FieldTypes DEF Good
<1>1. new \in Seq(WorkflowStep) /\ Len(new) = Len(names)
  BY DEF NewStep, WorkflowStep
<1>2. /\ s \in Seq(WorkflowStep)
      /\ Len(s) = Len(d.steps) + Len(names)
      /\ \A k \in 1..Len(d.steps) : s[k] = d.steps[k]
      /\ \A k \in 1..Len(names) : s[Len(d.steps) + k] = new[k]
  <2> HIDE DEF new
  <2>1. /\ s \in Seq(WorkflowStep)
        /\ Len(s) = Len(d.steps) + Len(new)
        /\ \A k \in 1..Len(d.steps) + Len(new) :
              s[k] = IF k <= Len(d.steps) THEN d.steps[k] ELSE new[k - Len(d.steps)]
    BY <1>0, <1>1, ConcatProperties
  <2>2. Len(d.steps) \in Nat /\ Len(names) \in Nat BY <1>0, LenProperties
  <2> HIDE DEF s
  <2>3. \A k \in 1..Len(d.steps) : s[k] = d.steps[k] BY <1>1, <2>1, <2>2
  <2>4. ASSUME NEW k \in 1..Len(names) PROVE s[Len(d.steps) + k] = new[k]
    <3>1. /\ Len(d.steps) + k \in 1..Len(d.steps) + Len(new)
          /\ ~(Len(d.steps) + k <= Len(d.steps))
          /\ (Len(d.steps) + k) - Len(d.steps) = k
      BY <1>1, <2>2
    <3>2. QED BY <2>1, <3>1
  <2>5. QED BY <1>1, <2>1, <2>3, <2>4
<1>3. \A k \in 1..Len(names) : new[k].inst = i
  BY DEF NewStep
<1>4. CreateSteps(d, i, names, st) = [d EXCEPT !.steps = s]
  BY DEF CreateSteps
<1>5. [d EXCEPT !.steps = s].steps = s /\ [d EXCEPT !.steps = s].nq = d.nq
  BY <1>0 DEF Database
<1>6. Len(d.steps) <= Len(s) BY <1>0, <1>2
<1> HIDE DEF s, new
<1>9. \A k \in 1..Len(d.steps) : Kept(d.steps[k], s[k]) BY <1>2 DEF Kept
<1>7. Leads(d, [d EXCEPT !.steps = s])
  BY <1>2, <1>3, <1>6, <1>9, StepsReplacedLeads, Zenon
<1>8. QED BY <1>2, <1>3, <1>4, <1>5, <1>7

----------------------------------------------------------------------------
(* The queue *)

\* Items put into the queue under fresh ids, unclaimed and for existing rows, are harmless.
LEMMA QueueGrows ==
    ASSUME NEW d, Good(d), NEW new \in SUBSET QueueItem, NEW n \in Nat,
           \A q \in new : /\ d.nq <= q.id /\ q.id < d.nq + n /\ q.by = Nobody
                          /\ q.step \in 1..Len(d.steps)
                          /\ d.steps[q.step].inst = q.inst,
           \A q, r \in new : q.id = r.id => q = r
    PROVE  Leads(d, [d EXCEPT !.queue = d.queue \cup new, !.nq = d.nq + n])
<1> DEFINE e == [d EXCEPT !.queue = d.queue \cup new, !.nq = d.nq + n]
<1>1. d \in Database /\ d.nq \in Nat /\ d.queue \subseteq QueueItem BY FieldTypes DEF Good
<1>2. /\ e.queue = d.queue \cup new /\ e.nq = d.nq + n
      /\ e.steps = d.steps /\ e.dlq = d.dlq
  BY <1>1 DEF Database
<1>3. e \in Database
  <2>1. d.queue \cup new \in SUBSET QueueItem /\ d.nq + n \in Nat BY <1>1
  <2>2. QED BY <1>1, <2>1 DEF Database
<1> HIDE DEF e
<1>4. \A q \in d.queue : q.id \in Nat /\ q.id < d.nq BY <1>1 DEF Good, SoundItems, QueueItem
<1>5. \A q \in new : q.id \in Nat BY DEF QueueItem
<1>6. SoundItems(e)
  <2>1. \A q \in e.queue : q.id < e.nq BY <1>1, <1>2, <1>4, <1>5
  <2>2. \A q \in e.queue : q.step \in 1..Len(e.steps) /\ e.steps[q.step].inst = q.inst
    BY <1>2 DEF Good, SoundItems
  <2>3. \A q, r \in e.queue : q.id = r.id => q = r
    <3>1. \A q \in d.queue, r \in new : q.id # r.id BY <1>1, <1>4, <1>5
    <3>2. QED BY <1>2, <3>1 DEF Good, SoundItems
  <2>4. QED BY <2>1, <2>2, <2>3 DEF SoundItems
<1>7. SoundLetters(e) BY <1>2 DEF Good, SoundLetters
<1>8. Extends(d, e)
  BY <1>1, <1>2, FieldTypes DEF Extends, RowsKept, Kept
<1>9. Leads(d, e) BY <1>3, <1>6, <1>7, <1>8 DEF Leads, Good
<1>10. QED BY <1>9 DEF e

\* Taking items out of the queue is harmless.
LEMMA QueueShrinks ==
    ASSUME NEW d, Good(d), NEW Q \in SUBSET d.queue
    PROVE  Leads(d, [d EXCEPT !.queue = Q])
<1> DEFINE e == [d EXCEPT !.queue = Q]
<1>1. d \in Database /\ d.nq \in Nat /\ d.queue \subseteq QueueItem BY FieldTypes DEF Good
<1>2. e.queue = Q /\ e.nq = d.nq /\ e.steps = d.steps /\ e.dlq = d.dlq
  BY <1>1 DEF Database
<1>3. e \in Database BY <1>1 DEF Database
<1> HIDE DEF e
<1>4. SoundItems(e) BY <1>2 DEF Good, SoundItems
<1>5. SoundLetters(e) BY <1>2 DEF Good, SoundLetters
<1>6. Extends(d, e)
  BY <1>1, <1>2, FieldTypes DEF Extends, RowsKept, Kept
<1>7. Leads(d, e) BY <1>3, <1>4, <1>5, <1>6 DEF Leads, Good
<1>8. QED BY <1>7 DEF e

\* RemoveFromQueue is harmless and does not touch the steps.
LEMMA RemoveFromQueueLeads ==
    ASSUME NEW d, Good(d), NEW id
    PROVE  /\ Leads(d, RemoveFromQueue(d, id))
           /\ RemoveFromQueue(d, id).steps = d.steps
<1>1. {q \in d.queue : q.id # id} \in SUBSET d.queue OBVIOUS
<1>2. RemoveFromQueue(d, id) = [d EXCEPT !.queue = {q \in d.queue : q.id # id}]
  BY DEF RemoveFromQueue
<1>3. [d EXCEPT !.queue = {q \in d.queue : q.id # id}].steps = d.steps
  BY DEF Good, Database
<1>4. QED BY <1>1, <1>2, <1>3, QueueShrinks, Zenon

\* EnqueueStep for a run of existing rows of one instance is harmless.
LEMMA EnqueueRangeLeads ==
    ASSUME NEW d, Good(d), NEW i \in Instances, NEW base \in Nat, NEW n \in Nat,
           \A k \in 1..n : base + k \in 1..Len(d.steps) /\ d.steps[base + k].inst = i
    PROVE  Leads(d, EnqueueRange(d, i, base, n))
<1> DEFINE new == {[id |-> d.nq + k - 1, inst |-> i, step |-> base + k, by |-> Nobody] : k \in 1..n}
<1>1. d \in Database /\ d.nq \in Nat BY FieldTypes DEF Good
<1>2. new \in SUBSET QueueItem
  BY <1>1 DEF QueueItem
<1>3. \A q \in new : /\ d.nq <= q.id /\ q.id < d.nq + n /\ q.by = Nobody
                     /\ q.step \in 1..Len(d.steps)
                     /\ d.steps[q.step].inst = q.inst
  <2> TAKE q \in new
  <2>1. PICK k \in 1..n : q = [id |-> d.nq + k - 1, inst |-> i, step |-> base + k, by |-> Nobody]
    OBVIOUS
  <2>2. q.id = d.nq + k - 1 /\ q.inst = i /\ q.step = base + k /\ q.by = Nobody BY <2>1
  <2>3. QED BY <1>1, <2>2
<1>4. \A q, r \in new : q.id = r.id => q = r
  <2> TAKE q, r \in new
  <2>1. PICK k \in 1..n : q = [id |-> d.nq + k - 1, inst |-> i, step |-> base + k, by |-> Nobody]
    OBVIOUS
  <2>2. PICK m \in 1..n : r = [id |-> d.nq + m - 1, inst |-> i, step |-> base + m, by |-> Nobody]
    OBVIOUS
  <2>3. q.id = r.id => k = m BY <1>1, <2>1, <2>2
  <2>4. QED BY <2>1, <2>2, <2>3
<1>5. EnqueueRange(d, i, base, n) = [d EXCEPT !.queue = d.queue \cup new, !.nq = d.nq + n]
  BY DEF EnqueueRange
<1> HIDE DEF new
<1>6. Leads(d, [d EXCEPT !.queue = d.queue \cup new, !.nq = d.nq + n])
  BY <1>2, <1>3, <1>4, QueueGrows, Zenon
<1>7. QED BY <1>5, <1>6, Zenon

\* EnqueueStep for one existing row is harmless.
LEMMA EnqueueStepLeads ==
    ASSUME NEW d, Good(d), NEW i \in Instances, NEW k \in 1..Len(d.steps),
           d.steps[k].inst = i
    PROVE  Leads(d, EnqueueStep(d, i, k))
<1>1. Len(d.steps) \in Nat BY FieldTypes DEF Good
<1>2. k - 1 \in Nat /\ 1 \in Nat /\ \A m \in 1..1 : (k - 1) + m = k BY <1>1
<1>3. \A m \in 1..1 : (k - 1) + m \in 1..Len(d.steps) /\ d.steps[(k - 1) + m].inst = i
  BY <1>2
<1>4. Leads(d, EnqueueRange(d, i, k - 1, 1))
  BY <1>2, <1>3, EnqueueRangeLeads, Zenon
<1>5. QED BY <1>4 DEF EnqueueStep

\* The number of later rows tells the rows of a set apart: the ids EnqueueRows and
\* CreateDeadLetterRecords give out are distinct and below the new counter.
LEMMA RowsFinite ==
    ASSUME NEW d, Good(d), NEW K \in SUBSET (1..Len(d.steps))
    PROVE  /\ IsFiniteSet(K)
           /\ Cardinality(K) \in Nat
           /\ \A k \in K : /\ Cardinality({m \in K : m > k}) \in Nat
                           /\ Cardinality({m \in K : m > k}) < Cardinality(K)
           /\ \A j, k \in K :
                Cardinality({m \in K : m > k}) = Cardinality({m \in K : m > j}) => j = k
<1>1. Len(d.steps) \in Nat BY FieldTypes DEF Good
<1>2. IsFiniteSet(1..Len(d.steps)) BY <1>1, FS_Interval
<1>3. IsFiniteSet(K) BY <1>2, FS_Subset
<1>4. Cardinality(K) \in Nat BY <1>3, FS_CardinalityType
<1> DEFINE above(k) == {m \in K : m > k}
<1>5. \A k \in K : IsFiniteSet(above(k)) /\ Cardinality(above(k)) \in Nat
  <2> TAKE k \in K
  <2>1. above(k) \in SUBSET K OBVIOUS
  <2>2. IsFiniteSet(above(k)) BY <1>3, <2>1, FS_Subset
  <2>3. QED BY <2>2, FS_CardinalityType
<1>6. ASSUME NEW S \in SUBSET K, NEW T \in SUBSET S, NEW x \in S, x \notin T
      PROVE  Cardinality(T) < Cardinality(S)
  <2>1. IsFiniteSet(S) BY <1>3, FS_Subset
  <2>2. T # S BY <1>6
  <2>3. Cardinality(T) <= Cardinality(S) /\ Cardinality(S) # Cardinality(T)
    BY <2>1, <2>2, FS_Subset
  <2>4. IsFiniteSet(T) BY <2>1, FS_Subset
  <2>5. Cardinality(S) \in Nat /\ Cardinality(T) \in Nat BY <2>1, <2>4, FS_CardinalityType
  <2>6. QED BY <2>3, <2>5
<1>7. \A k \in K : Cardinality(above(k)) < Cardinality(K)
  <2> TAKE k \in K
  <2>1. k \notin above(k) /\ above(k) \in SUBSET K BY <1>1
  <2>2. QED BY <1>6, <2>1
<1>8. ASSUME NEW j \in K, NEW k \in K, j < k
      PROVE  Cardinality(above(k)) < Cardinality(above(j))
  <2>1. j \in Int /\ k \in Int /\ \A m \in K : m \in Int BY <1>1
  <2>2. \A m \in K : m > k => m > j BY <1>8, <2>1
  <2>3. above(k) \in SUBSET above(j) BY <2>2
  <2>4. k \in above(j) /\ k \notin above(k) /\ above(j) \in SUBSET K BY <1>8, <2>1
  <2>5. QED BY <1>6, <2>3, <2>4
<1>9. \A j, k \in K : Cardinality(above(k)) = Cardinality(above(j)) => j = k
  <2> TAKE j, k \in K
  <2>1. j < k \/ k < j \/ j = k BY <1>1
  <2>2. Cardinality(above(j)) \in Nat /\ Cardinality(above(k)) \in Nat BY <1>5
  <2>3. j < k => Cardinality(above(k)) < Cardinality(above(j)) BY <1>8
  <2>4. k < j => Cardinality(above(j)) < Cardinality(above(k)) BY <1>8
  <2> HIDE DEF above
  <2>5. QED BY <2>1, <2>2, <2>3, <2>4
<1>10. QED BY <1>3, <1>4, <1>5, <1>7, <1>9

\* EnqueueStep for a set of existing rows of one instance, latest first, is harmless.
LEMMA EnqueueRowsLeads ==
    ASSUME NEW d, Good(d), NEW i \in Instances, NEW K \in SUBSET (1..Len(d.steps)),
           \A k \in K : d.steps[k].inst = i
    PROVE  Leads(d, EnqueueRows(d, i, K))
<1> DEFINE C(k) == Cardinality({m \in K : m > k})
           new == {[id |-> d.nq + C(k), inst |-> i, step |-> k, by |-> Nobody] : k \in K}
           n == Cardinality(K)
<1>1. d \in Database /\ d.nq \in Nat /\ Len(d.steps) \in Nat BY FieldTypes DEF Good
<1>2. n \in Nat /\ (\A k \in K : C(k) \in Nat /\ C(k) < n) /\ (\A j, k \in K : C(k) = C(j) => j = k)
  BY RowsFinite
<1>3. EnqueueRows(d, i, K) = [d EXCEPT !.queue = d.queue \cup new, !.nq = d.nq + n]
  BY DEF EnqueueRows
<1> HIDE DEF C, n
<1>4. new \in SUBSET QueueItem
  BY <1>1, <1>2 DEF QueueItem
<1>5. \A q \in new : /\ d.nq <= q.id /\ q.id < d.nq + n /\ q.by = Nobody
                     /\ q.step \in 1..Len(d.steps)
                     /\ d.steps[q.step].inst = q.inst
  BY <1>1, <1>2
<1>6. \A q, r \in new : q.id = r.id => q = r
  BY <1>1, <1>2
<1> HIDE DEF new
<1>7. Leads(d, [d EXCEPT !.queue = d.queue \cup new, !.nq = d.nq + n])
  BY <1>2, <1>4, <1>5, <1>6, QueueGrows, Zenon
<1>8. QED BY <1>3, <1>7, Zenon

----------------------------------------------------------------------------
(* Join states *)

\* Any change of the join states is harmless to the queue.
LEMMA JoinReplacedLeads ==
    ASSUME NEW d, Good(d), NEW J \in [Instances -> [JoinSteps -> JoinState]]
    PROVE  Leads(d, [d EXCEPT !.join = J])
<1> DEFINE e == [d EXCEPT !.join = J]
<1>1. e \in Database BY DEF Good, Database
<1>2. e.steps = d.steps /\ e.queue = d.queue /\ e.nq = d.nq /\ e.dlq = d.dlq
  BY DEF Good, Database
<1>3. Leads(d, e)
  <2> HIDE DEF e
  <2> QED BY <1>1, <1>2, SameRowsLeads
<1>4. QED BY <1>3

\* So is any change of the WaitFor lists of the definition.
LEMMA WaitForReplacedLeads ==
    ASSUME NEW d, Good(d), NEW W \in [JoinSteps -> Seq(WaitNames)]
    PROVE  Leads(d, [d EXCEPT !.waitFor = W])
<1> DEFINE e == [d EXCEPT !.waitFor = W]
<1>1. e \in Database BY DEF Good, Database
<1>2. e.steps = d.steps /\ e.queue = d.queue /\ e.nq = d.nq /\ e.dlq = d.dlq
  BY DEF Good, Database
<1>3. Leads(d, e)
  <2> HIDE DEF e
  <2> QED BY <1>1, <1>2, SameRowsLeads
<1>4. QED BY <1>3

\* A join state of one join of one instance is replaced.
LEMMA OneJoinReplacedLeads ==
    ASSUME NEW d, Good(d), NEW i \in Instances, NEW j \in JoinSteps, NEW js \in JoinState
    PROVE  Leads(d, [d EXCEPT !.join[i][j] = js])
<1> DEFINE J == [d.join EXCEPT ![i] = [d.join[i] EXCEPT ![j] = js]]
<1>1. d \in Database BY DEF Good
<1>2. J \in [Instances -> [JoinSteps -> JoinState]] BY <1>1, FieldTypes
<1>3. [d EXCEPT !.join[i][j] = js] = [d EXCEPT !.join = J]
  BY <1>1 DEF Database
<1> HIDE DEF J
<1>4. Leads(d, [d EXCEPT !.join = J]) BY <1>2, JoinReplacedLeads, Zenon
<1>5. QED BY <1>3, <1>4, Zenon

\* Computing is_ready keeps a join state well typed.
LEMMA RecheckedType ==
    ASSUME NEW j, NEW js \in JoinState
    PROVE  Rechecked(j, js) \in JoinState
<1>1. checkJoinReady(j, js) \in BOOLEAN
  <2>1. js.completed \subseteq Steps /\ js.failed \subseteq Steps BY DEF JoinState
  <2>2. /\ Cardinality(js.completed) \in Nat /\ Cardinality(js.failed) \in Nat
    BY <2>1, DefinitionAssumption, FS_Subset, FS_CardinalityType
  <2>3. Len(js.waiting) \in Nat BY DEF JoinState
  <2>4. CASE Def[j].strategy = "any" BY <2>4 DEF checkJoinReady
  <2>5. CASE Def[j].strategy # "any" BY <2>2, <2>3, <2>5 DEF checkJoinReady
  <2>6. QED BY <2>4, <2>5
<1>2. QED BY <1>1 DEF Rechecked, JoinState

\* UpdateJoinState keeps a join state well typed.
LEMMA JoinUpdatedType ==
    ASSUME NEW j, NEW js \in JoinState, NEW n \in Steps, NEW success \in BOOLEAN
    PROVE  JoinUpdated(j, js, n, success) \in JoinState
<1> DEFINE drop == IF StoreKind = "sqlite" THEN {} ELSE {n}
           js1 == IF success
                  THEN [js EXCEPT !.completed = @ \cup {n}, !.failed = @ \ drop]
                  ELSE [js EXCEPT !.failed = @ \cup {n}, !.completed = @ \ drop]
<1>1. js1 \in JoinState
  <2> HIDE DEF drop
  <2> QED BY DEF JoinState
<1>2. JoinUpdated(j, js, n, success) = Rechecked(j, js1) BY DEF JoinUpdated
<1> HIDE DEF js1
<1>3. QED BY <1>1, <1>2, RecheckedType

\* UpdateJoinState is harmless.
LEMMA UpdateJoinStatesLeads ==
    ASSUME NEW d, Good(d), NEW i \in Instances, NEW J, NEW n \in Steps, NEW success \in BOOLEAN
    PROVE  Leads(d, UpdateJoinStates(d, i, J, n, success))
<1> DEFINE ji == [j \in DOMAIN d.join[i] |->
                    IF j \in J THEN JoinUpdated(j, d.join[i][j], n, success) ELSE d.join[i][j]]
           JJ == [d.join EXCEPT ![i] = ji]
<1>1. d \in Database BY DEF Good
<1>2. ji \in [JoinSteps -> JoinState] BY <1>1, FieldTypes, JoinUpdatedType
<1>3. UpdateJoinStates(d, i, J, n, success) = [d EXCEPT !.join = JJ]
  BY <1>1 DEF Database, UpdateJoinStates
<1> HIDE DEF ji
<1>4. JJ \in [Instances -> [JoinSteps -> JoinState]] BY <1>1, <1>2, FieldTypes
<1> HIDE DEF JJ
<1>5. Leads(d, [d EXCEPT !.join = JJ]) BY <1>4, JoinReplacedLeads, Zenon
<1>6. QED BY <1>3, <1>5, Zenon

\* CreateJoinState is harmless.
LEMMA CreateJoinStateLeads ==
    ASSUME NEW d, Good(d), NEW i \in Instances, NEW j \in JoinSteps, NEW w \in Seq(WaitNames)
    PROVE  Leads(d, CreateJoinState(d, i, j, w))
<1> DEFINE js == [NoJoinState EXCEPT !.exists = TRUE, !.waiting = w]
<1>1. js \in JoinState BY DEF NoJoinState, JoinState
<1>2. CreateJoinState(d, i, j, w) = IF d.join[i][j].exists THEN d ELSE [d EXCEPT !.join[i][j] = js]
  BY DEF CreateJoinState
<1> HIDE DEF js
<1>3. Leads(d, [d EXCEPT !.join[i][j] = js]) BY <1>1, OneJoinReplacedLeads, Zenon
<1>4. Leads(d, d) BY LeadsRefl
<1>5. QED BY <1>2, <1>3, <1>4, Zenon

\* AddToJoinWaitFor is harmless.
LEMMA AddToJoinWaitForLeads ==
    ASSUME NEW d, Good(d), NEW i \in Instances, NEW j \in JoinSteps, NEW n \in Steps
    PROVE  Leads(d, AddToJoinWaitFor(d, i, j, n))
<1> DEFINE js1 == [d.join[i][j] EXCEPT !.waiting = Append(d.join[i][j].waiting, n)]
           js2 == Rechecked(j, js1)
<1>1. d \in Database BY DEF Good
<1>2. d.join[i][j] \in JoinState BY <1>1, FieldTypes
<1>3. Append(d.join[i][j].waiting, n) \in Seq(WaitNames) BY <1>2 DEF JoinState, WaitNames
<1>4. js1 \in JoinState BY <1>2, <1>3 DEF JoinState
<1>5. AddToJoinWaitFor(d, i, j, n) = [d EXCEPT !.join[i][j] = js2]
  BY Zenon DEF AddToJoinWaitFor
<1> HIDE DEF js1
<1>6. js2 \in JoinState BY <1>4, RecheckedType
<1> HIDE DEF js2
<1>7. Leads(d, [d EXCEPT !.join[i][j] = js2]) BY <1>6, OneJoinReplacedLeads, Zenon
<1>8. QED BY <1>5, <1>7, Zenon

\* An assignment to an element leaves a sequence a sequence, at whatever index.
LEMMA ExceptAnySeq ==
    ASSUME NEW S, NEW s \in Seq(S), NEW k, NEW x \in S
    PROVE  [s EXCEPT ![k] = x] \in Seq(S)
<1>1. CASE k \in 1..Len(s) BY <1>1, ExceptSeq
<1>2. CASE k \notin 1..Len(s)
  <2>1. s = [m \in 1..Len(s) |-> s[m]] OBVIOUS
  <2>2. [s EXCEPT ![k] = x] = s BY <1>2, <2>1
  <2>3. QED BY <2>2
<1>3. QED BY <1>1, <1>2

\* ReplaceInJoinWaitFor makes a WaitFor list out of a WaitFor list.
LEMMA ReplacedType ==
    ASSUME NEW s \in Seq(WaitNames), NEW v, NEW n \in Steps
    PROVE  Replaced(s, v, n) \in Seq(WaitNames)
<1> DEFINE k == SelectInSeq(s, LAMBDA x : x = v)
<1>1. Replaced(s, v, n) = IF k = 0 THEN Append(s, n) ELSE [s EXCEPT ![k] = n]
  BY DEF Replaced
<1>2. n \in WaitNames BY DEF WaitNames
<1> HIDE DEF k
<1>3. Append(s, n) \in Seq(WaitNames) BY <1>2
<1>4. [s EXCEPT ![k] = n] \in Seq(WaitNames) BY <1>2, ExceptAnySeq
<1>5. QED BY <1>1, <1>3, <1>4

\* Writing through the slice the memory store shares is harmless to the queue.
LEMMA SharedSliceLeads ==
    ASSUME NEW d, Good(d), NEW i \in Instances, NEW j \in JoinSteps, NEW v, NEW n \in Steps
    PROVE  Leads(d, ReplacedInSharedSlice(d, i, j, v, n))
<1> DEFINE k == SelectInSeq(d.waitFor[j], LAMBDA x : x = v)
           shares(h) == d.join[h][j].exists /\ Len(d.join[h][j].waiting) = Len(d.waitFor[j])
           W == [d.waitFor EXCEPT ![j] = [d.waitFor[j] EXCEPT ![k] = n]]
           set(js) == [js EXCEPT !.waiting = [js.waiting EXCEPT ![k] = n]]
           J == [h \in Instances |-> IF shares(h) THEN [d.join[h] EXCEPT ![j] = set(d.join[h][j])]
                                                  ELSE d.join[h]]
<1>1. d \in Database BY DEF Good
<1>2. n \in WaitNames BY DEF WaitNames
<1>3. \/ ReplacedInSharedSlice(d, i, j, v, n) = d
      \/ ReplacedInSharedSlice(d, i, j, v, n) = [[d EXCEPT !.waitFor = W] EXCEPT !.join = J]
  <2> HIDE DEF k, shares
  <2>1. [d EXCEPT !.waitFor[j][k] = n,
                  !.join = [h \in Instances |->
                     IF shares(h) THEN [@[h] EXCEPT ![j].waiting[k] = n] ELSE @[h]]]
         = [[d EXCEPT !.waitFor = W] EXCEPT !.join = J]
    BY <1>1 DEF Database
  <2>2. QED BY <2>1, Zenon DEF ReplacedInSharedSlice, k, shares
<1> HIDE DEF k, shares
<1>4. W \in [JoinSteps -> Seq(WaitNames)]
  <2>1. d.waitFor \in [JoinSteps -> Seq(WaitNames)] BY <1>1, FieldTypes
  <2>2. d.waitFor[j] \in Seq(WaitNames) BY <2>1
  <2>4. [d.waitFor[j] EXCEPT ![k] = n] \in Seq(WaitNames) BY <1>2, <2>2, ExceptAnySeq, Zenon
  <2>3. QED BY <2>1, <2>4
<1>5. J \in [Instances -> [JoinSteps -> JoinState]]
  <2>1. d.join \in [Instances -> [JoinSteps -> JoinState]] BY <1>1, FieldTypes
  <2>2. ASSUME NEW js \in JoinState PROVE set(js) \in JoinState
    <3>0. js.waiting \in Seq(WaitNames) BY DEF JoinState
    <3>1. [js.waiting EXCEPT ![k] = n] \in Seq(WaitNames) BY <1>2, <3>0, ExceptAnySeq, Zenon
    <3>2. QED BY <3>1 DEF JoinState
  <2> HIDE DEF set
  <2>3. QED BY <2>1, <2>2
<1> HIDE DEF W, J
<1> DEFINE e == [d EXCEPT !.waitFor = W]
<1>6. Leads(d, e) BY <1>4, WaitForReplacedLeads, Zenon
<1>7. Good(e) BY <1>6 DEF Leads
<1> HIDE DEF e
<1>8. Leads(e, [e EXCEPT !.join = J]) BY <1>5, <1>7, JoinReplacedLeads, Zenon
<1>9. Leads(d, [e EXCEPT !.join = J]) BY <1>6, <1>8, LeadsTrans, Zenon
<1>10. Leads(d, d) BY LeadsRefl
<1>11. QED BY <1>3, <1>9, <1>10, Zenon DEF e

\* ReplaceInJoinWaitFor is harmless.
LEMMA ReplaceInJoinWaitForLeads ==
    ASSUME NEW d, Good(d), NEW i \in Instances, NEW j \in JoinSteps, NEW v, NEW n \in Steps
    PROVE  Leads(d, ReplaceInJoinWaitFor(d, i, j, v, n))
<1> DEFINE js  == d.join[i][j]
           st  == StatusForJoin(d, i, n)
           new == n \notin js.completed \cup js.failed
           js2 == [js EXCEPT
                  !.waiting = Replaced(@, v, n),
                  !.completed = IF new /\ st = "completed" THEN @ \cup {n} ELSE @,
                  !.failed = IF new /\ st \in {"failed", "rolled_back"} THEN @ \cup {n} ELSE @]
           js3 == Rechecked(j, js2)
           e   == ReplacedInSharedSlice(d, i, j, v, n)
<1>1. d \in Database BY DEF Good
<1>2. js \in JoinState BY <1>1, FieldTypes
<1>3. js2 \in JoinState
  <2> HIDE DEF js, st, new
  <2>1. Replaced(js.waiting, v, n) \in Seq(WaitNames) BY <1>2, ReplacedType DEF JoinState
  <2>2. QED BY <1>2, <2>1 DEF JoinState
<1>4. ReplaceInJoinWaitFor(d, i, j, v, n) = [e EXCEPT !.join[i][j] = js3]
  BY Zenon DEF ReplaceInJoinWaitFor
<1> HIDE DEF js2
<1>5. js3 \in JoinState BY <1>3, RecheckedType
<1>6. Leads(d, e) BY SharedSliceLeads
<1>7. Good(e) BY <1>6 DEF Leads
<1> HIDE DEF js3, e
<1>8. Leads(e, [e EXCEPT !.join[i][j] = js3]) BY <1>5, <1>7, OneJoinReplacedLeads, Zenon
<1>9. Leads(d, [e EXCEPT !.join[i][j] = js3]) BY <1>6, <1>8, LeadsTrans, Zenon
<1>10. QED BY <1>4, <1>9, Zenon

----------------------------------------------------------------------------
(* Cancel requests *)

\* Any change of a cancel request is harmless to the queue.
LEMMA CancelReplacedLeads ==
    ASSUME NEW d, Good(d), NEW i \in Instances, NEW kind \in {"none", "cancel", "abort"}
    PROVE  Leads(d, [d EXCEPT !.cancel[i] = kind])
<1> DEFINE e == [d EXCEPT !.cancel[i] = kind]
<1>1. e \in Database BY DEF Good, Database
<1>2. e.steps = d.steps /\ e.queue = d.queue /\ e.nq = d.nq /\ e.dlq = d.dlq
  BY DEF Good, Database
<1>3. Leads(d, e)
  <2> HIDE DEF e
  <2> QED BY <1>1, <1>2, SameRowsLeads
<1>4. QED BY <1>3

\* CreateCancelRequest and DeleteCancelRequest are harmless.
LEMMA CancelRequestLeads ==
    ASSUME NEW d, Good(d), NEW i \in Instances, NEW kind \in {"cancel", "abort"}
    PROVE  /\ Leads(d, CreateCancelRequest(d, i, kind))
           /\ Leads(d, DeleteCancelRequest(d, i))
<1>1. Leads(d, [d EXCEPT !.cancel[i] = kind]) BY CancelReplacedLeads, Zenon
<1>2. Leads(d, [d EXCEPT !.cancel[i] = "none"]) BY CancelReplacedLeads, Zenon
<1>3. Leads(d, d) BY LeadsRefl
<1>4. QED BY <1>1, <1>2, <1>3, Zenon DEF CreateCancelRequest, DeleteCancelRequest

----------------------------------------------------------------------------
(* Dead letters *)

\* CreateDeadLetterRecord for existing rows is harmless.
LEMMA CreateDeadLetterRecordsLeads ==
    ASSUME NEW d, Good(d), NEW K \in SUBSET (1..Len(d.steps))
    PROVE  Leads(d, CreateDeadLetterRecords(d, K))
<1> DEFINE C(k) == Cardinality({m \in K : m > k})
           new == {[id |-> d.nd + C(k), inst |-> d.steps[k].inst, step |-> k] : k \in K}
           n == Cardinality(K)
           e == [d EXCEPT !.dlq = d.dlq \cup new, !.nd = d.nd + n]
<1>1. d \in Database BY DEF Good
<1>2. n \in Nat /\ \A k \in K : C(k) \in Nat BY RowsFinite
<1>3. CreateDeadLetterRecords(d, K) = e BY DEF CreateDeadLetterRecords
<1> HIDE DEF C, n
<1>4. \A k \in K : d.steps[k].inst \in Instances /\ k \in Nat /\ d.nd + C(k) \in Nat
  BY <1>1, <1>2, FieldTypes DEF WorkflowStep
<1>5. new \subseteq DeadLetter BY <1>4 DEF DeadLetter
<1>6. \A rec \in new : rec.step \in 1..Len(d.steps) /\ d.steps[rec.step].inst = rec.inst
  OBVIOUS
<1> HIDE DEF new
<1>7. e \in Database
  <2>1. d.dlq \cup new \in SUBSET DeadLetter /\ d.nd + n \in Nat BY <1>1, <1>2, <1>5, FieldTypes
  <2>2. QED BY <1>1, <2>1 DEF Database
<1>8. e.steps = d.steps /\ e.queue = d.queue /\ e.nq = d.nq /\ e.dlq = d.dlq \cup new
  BY <1>1 DEF Database
<1> HIDE DEF e
<1>9. SoundItems(e) BY <1>8 DEF Good, SoundItems
<1>10. SoundLetters(e) BY <1>6, <1>8 DEF Good, SoundLetters
<1>11. Extends(d, e) BY <1>1, <1>8, FieldTypes DEF Extends, RowsKept, Kept
<1>12. QED BY <1>3, <1>7, <1>9, <1>10, <1>11 DEF Leads, Good

\* PauseActiveStepsAndClearQueue is harmless.
LEMMA PauseLeads ==
    ASSUME NEW d, Good(d), NEW i
    PROVE  Leads(d, PauseActiveStepsAndClearQueue(d, i))
<1> DEFINE K == {k \in Rows(d, i) : d.steps[k].status \in PausedByDLQ}
           e == UpdateSteps(d, K, "paused")
           Q == {q \in e.queue : q.inst # i}
<1>1. Leads(d, e) BY UpdateStepsLeads DEF StepStatus
<1>2. Good(e) BY <1>1 DEF Leads
<1>3. PauseActiveStepsAndClearQueue(d, i) = [e EXCEPT !.queue = Q]
  BY DEF PauseActiveStepsAndClearQueue
<1> HIDE DEF e
<1>4. Q \in SUBSET e.queue OBVIOUS
<1> HIDE DEF Q
<1>5. Leads(e, [e EXCEPT !.queue = Q]) BY <1>2, <1>4, QueueShrinks, Zenon
<1>6. Leads(d, [e EXCEPT !.queue = Q]) BY <1>1, <1>5, LeadsTrans, Zenon
<1>7. QED BY <1>3, <1>6, Zenon

\* Resetting the step of a dead letter is harmless.
LEMMA ResetLeads ==
    ASSUME NEW d, Good(d), NEW rec \in d.dlq
    PROVE  Leads(d, Reset(d, rec))
<1> DEFINE k0 == rec.step
           i == rec.inst
           row == [d.steps[k0] EXCEPT !.status = "pending", !.retry = 0, !.comp = 0]
           s == [d.steps EXCEPT ![k0] = row]
           st == IF d.inst[i] \in {"failed", "dlq"} THEN "running" ELSE d.inst[i]
           I == [d.inst EXCEPT ![i] = st]
           L == d.dlq \ {rec}
           e == [d EXCEPT !.steps = s, !.inst = I, !.dlq = L]
<1>1. d \in Database BY DEF Good
<1>2. k0 \in 1..Len(d.steps) /\ i \in Instances
  BY <1>1, FieldTypes DEF Good, SoundLetters, DeadLetter
<1>3. d.steps[k0] \in WorkflowStep BY <1>1, <1>2, FieldTypes
<1>4. row \in WorkflowStep /\ Kept(d.steps[k0], row)
  BY <1>3 DEF WorkflowStep, StepStatus, Kept
<1>5. Reset(d, rec) = e
  BY <1>1 DEF Reset, Database
<1> HIDE DEF row
<1>6. /\ s \in Seq(WorkflowStep) /\ Len(s) = Len(d.steps)
      /\ \A k \in 1..Len(d.steps) : Kept(d.steps[k], s[k])
  BY <1>1, <1>2, <1>4, FieldTypes, ExceptSeq DEF Kept
<1>7. st \in WorkflowStatus BY <1>1, <1>2, FieldTypes DEF WorkflowStatus
<1> HIDE DEF st
<1>8. I \in [Instances -> WorkflowStatus] BY <1>1, <1>2, <1>7, FieldTypes
<1>9. L \subseteq d.dlq /\ L \in SUBSET DeadLetter BY <1>1, FieldTypes
<1> HIDE DEF s, I, L
<1>10. e \in Database BY <1>1, <1>6, <1>8, <1>9 DEF Database
<1>11. e.steps = s /\ e.queue = d.queue /\ e.nq = d.nq /\ e.dlq = L
  BY <1>1 DEF Database
<1> HIDE DEF e
<1>12. RowsKept(d, e) BY <1>1, <1>6, <1>11, FieldTypes DEF RowsKept
<1>13. QED BY <1>5, <1>9, <1>10, <1>11, <1>12, SameQueueLeads

----------------------------------------------------------------------------
(* Rows *)

IsRow(d, i, k) == k \in 1..Len(d.steps) /\ d.steps[k].inst = i

\* A row of an instance stays a row of that instance.
LEMMA RowStays ==
    ASSUME NEW d, NEW e, Good(d), Leads(d, e), NEW i, NEW k, IsRow(d, i, k)
    PROVE  IsRow(e, i, k)
<1>1. Len(d.steps) \in Nat /\ Len(e.steps) \in Nat BY FieldTypes DEF Good, Leads
<1>2. QED BY <1>1 DEF IsRow, Leads, Extends, RowsKept, Kept

\* GetStepsByInstance returns the rows of the instance.
LEMMA RowsAre ==
    ASSUME NEW d, Good(d), NEW i
    PROVE  /\ Rows(d, i) \in SUBSET (1..Len(d.steps))
           /\ \A k : k \in Rows(d, i) <=> IsRow(d, i, k)
BY FieldTypes DEF Good, Rows, IsRow

\* A row names a step of the definition and an instance.
LEMMA RowName ==
    ASSUME NEW d, Good(d), NEW i, NEW k, IsRow(d, i, k)
    PROVE  d.steps[k] \in WorkflowStep /\ d.steps[k].name \in Steps /\ i \in Instances
<1>1. d.steps[k] \in WorkflowStep BY FieldTypes DEF Good, IsRow
<1>2. QED BY <1>1 DEF WorkflowStep, IsRow

\* EnqueueStep for a row of an instance is harmless.
LEMMA EnqueueRowLeads ==
    ASSUME NEW d, Good(d), NEW i, NEW k, IsRow(d, i, k)
    PROVE  Leads(d, EnqueueStep(d, i, k))
<1>1. i \in Instances BY RowName
<1>2. QED BY <1>1, EnqueueStepLeads DEF IsRow

\* UpdateStep is harmless.
LEMMA UpdateStepLeads ==
    ASSUME NEW d, Good(d), NEW k, NEW status \in StepStatus
    PROVE  Leads(d, UpdateStep(d, k, status))
BY UpdateStepsLeads DEF UpdateStep

\* RequeueDeadLetter is harmless in all three stores.
LEMMA RequeueDeadLetterLeads ==
    ASSUME NEW d, Good(d), NEW rec \in d.dlq
    PROVE  Leads(d, RequeueDeadLetter(d, rec))
<1> DEFINE e == Reset(d, rec)
           f == UpdateSteps(e, PausedJoins(d, rec.inst), "pending")
<1>1. IsRow(d, rec.inst, rec.step) BY DEF Good, SoundLetters, IsRow
<1>2. Leads(d, e) /\ Good(e) BY ResetLeads DEF Leads
<1>3. IsRow(e, rec.inst, rec.step) BY <1>1, <1>2, RowStays
<1>4. Leads(e, f) /\ Good(f)
  <2> HIDE DEF e
  <2> QED BY <1>2, UpdateStepsLeads DEF Leads, StepStatus
<1> HIDE DEF f
<1>5. Leads(d, f) BY <1>2, <1>4, LeadsTrans
<1>6. IsRow(f, rec.inst, rec.step) BY <1>1, <1>5, RowStays
<1> HIDE DEF e
<1>7. Leads(d, EnqueueStep(e, rec.inst, rec.step))
  BY <1>2, <1>3, EnqueueRowLeads, LeadsTrans
<1>8. Leads(d, EnqueueStep(f, rec.inst, rec.step))
  BY <1>4, <1>5, <1>6, EnqueueRowLeads, LeadsTrans
<1>9. QED BY <1>5, <1>7, <1>8, StoreAssumption DEF e, f, RequeueDeadLetter,
    RequeueDeadLetterPostgres, RequeueDeadLetterSQLite, RequeueDeadLetterMemory
=============================================================================
