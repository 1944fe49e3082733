--------------------------- MODULE SequentialProofs ---------------------------
(***************************************************************************)
(* Workflows without forks: what is false in general is proved for them.   *)
(* An instance is seen through its status, its rows, its queue items and   *)
(* its dead letters; while it runs there is one step it is at, with one    *)
(* item, and every step before is completed.                               *)
(***************************************************************************)
EXTENDS IsolationProofs, ChainProofs

\* The workflows the theorems are about.
Sequential ==
    SequentialDef(Steps, Def) /\ \A i \in Instances : Def[Start[i]].prev \notin Steps

----------------------------------------------------------------------------
(* Without forks there are no joins to tell *)

\* Nothing but tasks, save points and conditions.
LEMMA NoJoins ==
    ASSUME Sequential
    PROVE  /\ JoinSteps = {} /\ NoForks
           /\ \A n \in Steps : Def[n].type \in {"task", "savepoint", "condition"}
           /\ NoStep \notin Steps /\ RootStep \notin Steps
           /\ \A f : JoinAfter(f) = NoStep
           /\ \A n : findJoinStepForForkBranch(n) = NoStep
           /\ \A n : findForkStepForParallelStep(n) = NoStep
<1>1. \A n \in Steps : Def[n].type \in {"task", "savepoint", "condition"}
  BY DEF Sequential, SequentialDef
<1>2. JoinSteps = {} BY <1>1 DEF JoinSteps
<1>3. NoForks BY <1>1 DEF NoForks, IsForking
<1>4. \A f : JoinAfter(f) = NoStep BY <1>2 DEF JoinAfter
<1>5. \A n : findJoinStepForForkBranch(n) = NoStep BY <1>4 DEF findJoinStepForForkBranch
<1>6. \A n : findForkStepForParallelStep(n) = NoStep BY <1>1 DEF findForkStepForParallelStep
<1>7. NoStep \notin Steps /\ RootStep \notin Steps BY DEF Sequential, SequentialDef
<1>8. QED BY <1>1, <1>2, <1>3, <1>4, <1>5, <1>6, <1>7

\* A set of at most one name as a sequence.
LEMMA NoNames == SetToSeq({}) = <<>>
<1> DEFINE F == [1..Cardinality({}) -> {}]
<1>1. Cardinality({}) = 0 BY FS_EmptySet
<1>2. <<>> \in F /\ IsInjective(<<>>) BY <1>1 DEF IsInjective
<1>3. \A f \in F : f = <<>> BY <1>1
<1>4. SetToSeq({}) = CHOOSE f \in F : IsInjective(f) BY DEF SetToSeq
<1> HIDE DEF F
<1>5. QED BY <1>2, <1>3, <1>4

\* The only order of one step.
LEMMA OneName ==
    ASSUME NEW m PROVE SetToSeq({m}) = <<m>>
<1> DEFINE F == [1..Cardinality({m}) -> {m}]
<1>1. Cardinality({m}) = 1 BY FS_Singleton
<1>2. <<m>> \in F /\ IsInjective(<<m>>) BY <1>1 DEF IsInjective
<1>3. \A f \in F : f = <<m>> BY <1>1
<1>4. SetToSeq({m}) = CHOOSE f \in F : IsInjective(f) BY DEF SetToSeq
<1> HIDE DEF F
<1>5. QED BY <1>2, <1>3, <1>4

\* A record of the database is determined by its tables.
LEMMA SameTables ==
    ASSUME NEW d \in Database, NEW e \in Database,
           e.inst = d.inst, e.steps = d.steps, e.queue = d.queue, e.nq = d.nq,
           e.waitFor = d.waitFor, e.join = d.join, e.cancel = d.cancel, e.dlq = d.dlq, e.nd = d.nd
    PROVE  e = d
<1> DEFINE Rec(x) == [inst |-> x.inst, steps |-> x.steps, queue |-> x.queue, nq |-> x.nq,
                      waitFor |-> x.waitFor, join |-> x.join, cancel |-> x.cancel,
                      dlq |-> x.dlq, nd |-> x.nd]
<1>1. d = Rec(d) BY DEF Database
<1>2. e = Rec(e) BY DEF Database
<1>3. Rec(e) = Rec(d) OBVIOUS
<1> HIDE DEF Rec
<1>4. QED BY <1>1, <1>2, <1>3

\* No steps are created.
LEMMA NothingCreated ==
    ASSUME NEW d, Good(d), NEW i \in Instances
    PROVE  /\ CreateSteps(d, i, <<>>, "paused") = d
           /\ CreateAndEnqueue(d, i, <<>>) = d
<1>1. d \in Database BY DEF Good
<1>2. <<>> \in Seq(Steps) /\ Len(<<>>) = 0 OBVIOUS
<1>3. ASSUME NEW st \in StepStatus PROVE CreateSteps(d, i, <<>>, st) = d
  <2> DEFINE e == CreateSteps(d, i, <<>>, st)
             tail == [k \in 1..Len(<<>>) |-> NewStep(i, <<>>[k], st)]
  <2>1. Leads(d, e) BY <1>2, CreateStepsLeads
  <2>2. e \in Database BY <2>1 DEF Leads, Good
  <2>3. tail = <<>> BY <1>2
  <2>4. e = [d EXCEPT !.steps = d.steps \o tail] BY DEF CreateSteps
  <2> HIDE DEF tail
  <2>5. d.steps \o tail = d.steps BY <1>1, <2>3, FieldTypes
  <2> HIDE DEF e
  <2>6. e.inst = d.inst /\ e.steps = d.steps /\ e.queue = d.queue /\ e.nq = d.nq
        /\ e.waitFor = d.waitFor /\ e.join = d.join /\ e.cancel = d.cancel /\ e.dlq = d.dlq
        /\ e.nd = d.nd
    BY <1>1, <2>4, <2>5 DEF Database
  <2>7. e = d BY <1>1, <2>2, <2>6, SameTables
  <2>8. QED BY <2>7 DEF e
<1>4. "paused" \in StepStatus /\ "pending" \in StepStatus BY DEF StepStatus
<1>5. CreateAndEnqueue(d, i, <<>>) = EnqueueRange(d, i, Len(d.steps), 0)
  BY <1>2, <1>3, <1>4 DEF CreateAndEnqueue
<1> DEFINE e == EnqueueRange(d, i, Len(d.steps), 0)
<1>6. e \in Database BY <1>2, <1>5, CreateAndEnqueueLeads DEF Leads, Good
<1>7. e = [d EXCEPT !.queue = d.queue \cup {}, !.nq = d.nq + 0]
  <2> DEFINE new == {[id |-> d.nq + k - 1, inst |-> i, step |-> Len(d.steps) + k,
                      by |-> Nobody] : k \in 1..0}
  <2>1. new = {} OBVIOUS
  <2>2. e = [d EXCEPT !.queue = d.queue \cup new, !.nq = d.nq + 0] BY DEF EnqueueRange
  <2>3. QED BY <2>1, <2>2
<1> HIDE DEF e
<1>8. d.nq + 0 = d.nq /\ d.queue \cup {} = d.queue BY <1>1, FieldTypes
<1>9. e.inst = d.inst /\ e.steps = d.steps /\ e.queue = d.queue /\ e.nq = d.nq
      /\ e.waitFor = d.waitFor /\ e.join = d.join /\ e.cancel = d.cancel /\ e.dlq = d.dlq
      /\ e.nd = d.nd
  BY <1>1, <1>7, <1>8 DEF Database
<1>10. e = d BY <1>1, <1>6, <1>9, SameTables
<1>11. QED BY <1>3, <1>4, <1>5, <1>10 DEF e

\* There is nobody to notify.
LEMMA NothingNotified ==
    ASSUME Sequential, NEW d, Good(d), NEW i \in Instances, NEW n \in Steps, NEW success \in BOOLEAN
    PROVE  /\ notifyJoinSteps(d, i, n, success) = d
           /\ replaceVirtualStep(d, i, n, success) = d
           /\ addTerminalStep(d, i, n) = d
           /\ prepareJoin(d, i, n) = d
           /\ stopParallelBranchesInFork(d, i, n) = d
<1>1. d \in Database BY DEF Good
<1> DEFINE e == UpdateJoinStates(d, i, {}, n, success)
<1>2. e = d
  <2>1. e \in Database BY UpdateJoinStatesLeads DEF Leads, Good
  <2>2. d.join \in [Instances -> [JoinSteps -> JoinState]] BY <1>1, FieldTypes
  <2>3. [j \in DOMAIN d.join[i] |-> d.join[i][j]] = d.join[i] BY <2>2
  <2>4. e = [d EXCEPT !.join = [d.join EXCEPT ![i] = d.join[i]]]
    BY <2>3 DEF UpdateJoinStates
  <2>5. [d.join EXCEPT ![i] = d.join[i]] = d.join BY <2>2
  <2> HIDE DEF e
  <2>6. e.inst = d.inst /\ e.steps = d.steps /\ e.queue = d.queue /\ e.nq = d.nq
        /\ e.waitFor = d.waitFor /\ e.join = d.join /\ e.cancel = d.cancel /\ e.dlq = d.dlq
        /\ e.nd = d.nd
    BY <1>1, <2>4, <2>5 DEF Database
  <2>7. QED BY <1>1, <2>1, <2>6, SameTables
<1>3. notifyJoinSteps(d, i, n, success) = d
  <2>1. {j \in JoinSteps : n \in ToSet(d.join[i][j].waiting) \cup ToSet(d.waitFor[j])} = {}
    BY NoJoins
  <2>2. notifyJoinSteps(d, i, n, success) = createReadyJoins(e, i, {})
    BY <2>1 DEF notifyJoinSteps, notifyJoins
  <2>3. createReadyJoins(d, i, {}) = d
    <3>1. {j \in {} : /\ d.join[i][j].ready /\ ~hasPendingStepsInParallelBranches(d, i, j)
                      /\ ~HasStep(d, i, j)} = {} OBVIOUS
    <3>2. QED BY <3>1, NoNames, NothingCreated DEF createReadyJoins
  <2>4. QED BY <1>2, <2>2, <2>3
<1>4. replaceVirtualStep(d, i, n, success) = d
  BY NoJoins DEF replaceVirtualStep, replaceVirtualOf
<1>5. addTerminalStep(d, i, n) = d BY NoJoins DEF addTerminalStep, addToWaitFor
<1>6. prepareJoin(d, i, n) = d
  <2>1. replaceVirtualStep(d, i, n, TRUE) = d BY NoJoins DEF replaceVirtualStep, replaceVirtualOf
  <2>2. QED BY <1>5, <2>1 DEF prepareJoin
<1>7. stopParallelBranchesInFork(d, i, n) = d BY NoJoins DEF stopParallelBranchesInFork
<1>8. QED BY <1>3, <1>4, <1>5, <1>6, <1>7

----------------------------------------------------------------------------
(* What an instance of a sequential workflow looks like *)

\* A rank that rises along the workflow.
Rises(r) == \A n \in Steps : \A m \in Followers(Def, n) : Def[m].prev = n /\ r[n] < r[m]
Rank == CHOOSE r \in [Steps -> 0..Cardinality(Steps)] : Rises(r)

\* The rows, the queue items (whoever has claimed them) and the dead letters of instance i
\* in the tables s, Q and L.
RowsIn(s, i) == [k \in {x \in DOMAIN s : s[x].inst = i} |-> s[k]]
ItemsIn(Q, i) == {<<q.id, q.step>> : q \in {x \in Q : x.inst = i}}
LettersIn(L, i) == {rec \in L : rec.inst = i}

\* The rows R of an instance follow each other.
NamesIn(R) == [x \in DOMAIN R |-> R[x].name]
Ordered(R) == Line(DOMAIN R, NamesIn(R), Rank)
\* Steps without a row were not called; c are the calls of the instance.
Fresh(R, c) == \A n \in Steps : (\A x \in DOMAIN R : R[x].name # n) => c[n] = NoCalls

MaxUndo(n) == Def[Def[n].onFailure].maxRetries

\* How often the handlers of a step may have returned; y are its calls.
Bounds(i, row, y) ==
    /\ y.ok <= 1 /\ y.undone <= 1
    /\ y.ok > 0 => Def[row.name].type = "task"
    /\ ~DLQEnabled[i] => y.run <= MaxCalls(row.name)
    /\ y.undo > 0 => /\ Def[row.name].onFailure # NoStep
                     /\ StoreKind # "postgres" => y.undo <= MaxUndo(row.name)

\* A step that is done, and one that is being executed.
Done(i, row, y) ==
    /\ row.status = "completed" /\ row.comp = 0
    /\ y.ok = (IF Def[row.name].type = "task" THEN 1 ELSE 0) /\ y.undo = 0 /\ y.undone = 0
    /\ ~DLQEnabled[i] => y.run <= MaxCalls(row.name)
Active(i, row, y, S) ==
    /\ row.status \in S /\ row.comp = 0
    /\ y.ok = 0 /\ y.undo = 0 /\ y.undone = 0
    /\ ~DLQEnabled[i] => y.run <= row.retry /\ row.retry + 1 <= MaxCalls(row.name)

\* The rows before row k, the last one, are done.
Before(i, R, c, k) ==
    /\ k \in DOMAIN R
    /\ \A x \in DOMAIN R : x # k => x < k /\ Done(i, R[x], c[R[x].name])
\* The instance is at row k.
At(i, R, c, k, S) == Before(i, R, c, k) /\ Active(i, R[k], c[R[k].name], S)

\* A save point later than row x was passed.
Protected(R, x) ==
    \E z \in DOMAIN R : x < z /\ IsSavePoint(R[z].name) /\ R[z].status = "completed"

\* Row x of an instance that failed or was cancelled.
Undoing(i, s, R, Q, x, y) ==
    /\ Bounds(i, R[x], y)
    /\ R[x].status = "compensation" =>
         /\ \E q \in Q : q[2] = x
         /\ Def[R[x].name].onFailure # NoStep /\ y.undone = 0
         /\ StoreKind # "postgres" =>
              y.undo + 1 = R[x].comp /\ R[x].comp <= MaxUndo(R[x].name)
    /\ y.ok > 0 /\ Def[R[x].name].onFailure # NoStep =>
         \/ y.undone = 1 \/ R[x].status \in {"compensation", "failed", "skipped"}
         \/ s = "failed" /\ Protected(R, x)

\* Each status.
Running1(i, R, Q, c) ==
    \E k \in DOMAIN R :
        /\ At(i, R, c, k, {"pending", "running", "failed"})
        /\ \A q \in Q : q[2] = k
        /\ \A q, r \in Q : q = r
        /\ StoreKind = "postgres" => Q # {}
\* SQLite dropped the item with a cancel request that it could not carry out.
Stuck1(i, R, Q, c) ==
    /\ StoreKind = "sqlite" /\ Q = {}
    /\ \A x \in DOMAIN R : Bounds(i, R[x], c[R[x].name])
Paused1(i, R, L, c) ==
    DLQEnabled[i] /\ \E rec \in L : L = {rec} /\ At(i, R, c, rec.step, {"paused"})
Stopped1(i, s, R, Q, c) ==
    /\ \A x \in DOMAIN R : Undoing(i, s, R, Q, x, c[R[x].name])
    /\ \A q \in Q : q[2] \in DOMAIN R /\ R[q[2]].status = "compensation"
    /\ \A q, r \in Q : q[2] = r[2] => q = r

Phase(i, s, R, Q, L, c) ==
    /\ s # "cancelling"
    /\ s = "none"      => DOMAIN R = {}
    /\ s = "running"   => Running1(i, R, Q, c) \/ Stuck1(i, R, Q, c)
    /\ s = "dlq"       => Paused1(i, R, L, c)
    /\ s = "completed" => \A x \in DOMAIN R : Done(i, R[x], c[R[x].name])
    /\ s = "aborted"   => \A x \in DOMAIN R : Bounds(i, R[x], c[R[x].name])
    /\ s \in {"failed", "cancelled"} => Stopped1(i, s, R, Q, c)
    /\ s \notin {"running", "failed", "cancelled"} => Q = {}
    /\ s # "dlq" => L = {}

\* The inductive invariant, for one instance.
Valid(i, s, R, Q, L, c) == Ordered(R) /\ Fresh(R, c) /\ Phase(i, s, R, Q, L, c)

\* A worker inside a handler has an item of the instance; what it read of its row is still
\* true, and the instance is as it was when it dequeued the item.
WorkerValid(d, f) ==
    LET R == RowsIn(d.steps, f.inst)
    IN  /\ <<f.item, f.step>> \in ItemsIn(d.queue, f.inst)
        /\ f.kind = "task" => /\ d.inst[f.inst] = "running"
                              /\ f.retry = R[f.step].retry /\ Def[R[f.step].name].type = "task"
        /\ f.kind = "compensation" =>
             /\ d.inst[f.inst] \in {"failed", "cancelled"}
             /\ f.comp = IF StoreKind = "postgres" THEN 0 ELSE R[f.step].comp

\* The inductive invariant, of the tables d, the workers u and the calls c.
ValidIn(d, i, c) ==
    Valid(i, d.inst[i], RowsIn(d.steps, i), ItemsIn(d.queue, i), LettersIn(d.dlq, i), c[i])
WorkersValid(d, u) == \A w \in Workers : u[w].kind # "idle" => WorkerValid(d, u[w])
SInv == (\A i \in Instances : ValidIn(db, i, calls)) /\ WorkersValid(db, wk)

\* Rows and calls are well typed.
Typed(R, c) == (\A x \in DOMAIN R : R[x] \in WorkflowStep) /\ c \in [Steps -> Calls]

\* The rank exists.
LEMMA RankIs ==
    ASSUME Sequential PROVE Rank \in [Steps -> 0..Cardinality(Steps)] /\ Rises(Rank)
<1>1. \E r \in [Steps -> 0..Cardinality(Steps)] : Rises(r)
  BY DEF Sequential, SequentialDef, Rises
<1>2. QED BY <1>1 DEF Rank

\* No two rows of an instance have the same name.
LEMMA RowsDiffer ==
    ASSUME NEW R, Ordered(R), NEW x \in DOMAIN R, NEW y \in DOMAIN R, R[x].name = R[y].name
    PROVE  x = y
<1> DEFINE D == DOMAIN R
           name == NamesIn(R)
<1>1. name[x] = name[y] BY DEF NamesIn
<1>2. Line(D, name, Rank) BY DEF Ordered
<1> HIDE DEF name
<1>3. QED BY <1>1, <1>2, NamesDiffer

\* Row numbers are numbers, and ranks of rows rise.
LEMMA RowNumbers ==
    ASSUME NEW R, Ordered(R)
    PROVE  /\ DOMAIN R \in SUBSET Nat
           /\ \A x \in DOMAIN R : R[x].name \in Steps
<1>1. NamesIn(R) \in [DOMAIN R -> Steps] /\ DOMAIN R \in SUBSET Nat BY DEF Ordered, Line
<1>2. \A x \in DOMAIN R : NamesIn(R)[x] = R[x].name BY DEF NamesIn
<1>3. QED BY <1>1, <1>2

\* Only row k, and only the calls of its step, change.
Moved(R, c, R2, c2, k) ==
    /\ k \in DOMAIN R
    /\ DOMAIN R2 = DOMAIN R
    /\ R2[k].name = R[k].name
    /\ \A x \in DOMAIN R : x # k => R2[x] = R[x]
    /\ \A n \in Steps : n # R[k].name => c2[n] = c[n]

\* Then the order stays, other steps are as before, and steps without a row stay uncalled.
LEMMA MovedKeeps ==
    ASSUME NEW R, NEW c, NEW R2, NEW c2, NEW k, Ordered(R), Fresh(R, c), Moved(R, c, R2, c2, k)
    PROVE  /\ Ordered(R2) /\ Fresh(R2, c2)
           /\ \A x \in DOMAIN R : R2[x].name = R[x].name
           /\ \A x \in DOMAIN R : x # k => c2[R2[x].name] = c[R[x].name]
<1>1. \A x \in DOMAIN R : R2[x].name = R[x].name BY DEF Moved
<1>2. NamesIn(R2) = NamesIn(R) BY <1>1 DEF NamesIn, Moved
<1>3. Ordered(R2) BY <1>2 DEF Ordered, Moved
<1>4. \A x \in DOMAIN R : x # k => c2[R2[x].name] = c[R[x].name]
  <2> SUFFICES ASSUME NEW x \in DOMAIN R, x # k PROVE c2[R2[x].name] = c[R[x].name] OBVIOUS
  <2>1. R[x].name # R[k].name /\ R[x].name \in Steps BY RowsDiffer, RowNumbers DEF Moved
  <2>2. QED BY <1>1, <2>1 DEF Moved
<1>5. Fresh(R2, c2)
  <2> SUFFICES ASSUME NEW n \in Steps, \A x \in DOMAIN R2 : R2[x].name # n PROVE c2[n] = NoCalls
    BY DEF Fresh
  <2>1. \A x \in DOMAIN R : R[x].name # n BY <1>1 DEF Moved
  <2>2. n # R[k].name BY <2>1 DEF Moved
  <2>3. QED BY <2>1, <2>2 DEF Moved, Fresh
<1>6. QED BY <1>1, <1>3, <1>4, <1>5

\* The rows before k stay done.
LEMMA MovedBefore ==
    ASSUME NEW i, NEW R, NEW c, NEW R2, NEW c2, NEW k, Ordered(R), Fresh(R, c),
           Moved(R, c, R2, c2, k), Before(i, R, c, k)
    PROVE  Before(i, R2, c2, k)
<1>1. \A x \in DOMAIN R : x # k => c2[R2[x].name] = c[R[x].name] BY MovedKeeps
<1>2. DOMAIN R2 = DOMAIN R /\ k \in DOMAIN R /\ \A x \in DOMAIN R : x # k => R2[x] = R[x]
  BY DEF Moved
<1>3. ASSUME NEW x \in DOMAIN R, x # k PROVE x < k /\ Done(i, R2[x], c2[R2[x].name])
  <2>1. x < k /\ Done(i, R[x], c[R[x].name]) BY <1>3 DEF Before
  <2>2. R2[x] = R[x] /\ c2[R2[x].name] = c[R[x].name] BY <1>1, <1>2, <1>3
  <2>3. QED BY <2>1, <2>2
<1>4. QED BY <1>2, <1>3 DEF Before

----------------------------------------------------------------------------
(* One step of an instance, seen through its rows and calls *)

\* The handler of a task returned at most once between the calls y and y2.
Called(y, y2, ok) ==
    y2.run <= y.run + 1 /\ y2.ok \in ok /\ y2.undo = y.undo /\ y2.undone = y.undone

\* A handler may be called once, and once more for every error that is tried again.
LEMMA MaxCallsIs ==
    ASSUME NEW n \in Steps
    PROVE  /\ MaxCalls(n) \in Nat /\ MaxCalls(n) >= 1
           /\ \A retry \in Nat : MayRetry(n, retry) => retry + 2 <= MaxCalls(n)
<1>1. Def[n].maxRetries \in Nat BY DefTypes
<1>2. QED BY <1>1 DEF MaxCalls, MayRetry

\* What is done is within its bounds.
LEMMA DoneBounds ==
    ASSUME NEW i, NEW row, NEW y \in Calls, Done(i, row, y)
    PROVE  Bounds(i, row, y)
<1>1. y.ok \in Nat /\ y.undo = 0 /\ y.undone = 0 BY DEF Done, Calls
<1>2. QED BY <1>1 DEF Done, Bounds

\* The fields of a row with a new status.
LEMMA WithStatusIs ==
    ASSUME NEW row \in WorkflowStep, NEW st \in StepStatus
    PROVE  LET r == WithStatus(row, st)
           IN  /\ r \in WorkflowStep /\ r.inst = row.inst /\ r.name = row.name
               /\ r.status = st /\ r.comp = row.comp
               /\ r.retry = IF st = "failed" THEN row.retry + 1 ELSE row.retry
<1> DEFINE r == WithStatus(row, st)
<1>1. r \in WorkflowStep BY WithStatusRow
<1>2. r.inst = row.inst /\ r.name = row.name /\ r.status = st /\ r.comp = row.comp
      /\ r.retry = IF st = "failed" THEN row.retry + 1 ELSE row.retry
  BY DEF WithStatus, WorkflowStep
<1>3. QED BY <1>1, <1>2

\* A step succeeds.
LEMMA RowCompletes ==
    ASSUME NEW i, NEW row \in WorkflowStep, NEW y \in Calls, NEW y2 \in Calls, NEW S,
           Active(i, row, y, S),
           Called(y, y2, {IF Def[row.name].type = "task" THEN 1 ELSE 0})
    PROVE  Done(i, WithStatus(row, "completed"), y2)
<1> DEFINE r == WithStatus(row, "completed")
           N == MaxCalls(row.name)
<1>1. r.name = row.name /\ r.status = "completed" /\ r.comp = row.comp
  BY WithStatusIs DEF StepStatus
<1>2. N \in Nat /\ row.retry \in Nat /\ y.run \in Nat /\ y2.run \in Nat
  BY MaxCallsIs DEF WorkflowStep, Calls
<1>3. ~DLQEnabled[i] => y2.run <= N BY <1>2 DEF Active, Called
<1> HIDE DEF r
<1>4. QED BY <1>1, <1>3 DEF Active, Called, Done, r

\* A step is tried again.
LEMMA RowRetries ==
    ASSUME NEW i, NEW row \in WorkflowStep, NEW y \in Calls, NEW y2 \in Calls, NEW S,
           Active(i, row, y, S), Called(y, y2, {0}), MayRetry(row.name, row.retry)
    PROVE  Active(i, WithStatus(row, "failed"), y2, {"failed"})
<1> DEFINE r == WithStatus(row, "failed")
           N == MaxCalls(row.name)
<1>1. r.name = row.name /\ r.status = "failed" /\ r.comp = row.comp /\ r.retry = row.retry + 1
  BY WithStatusIs DEF StepStatus
<1>2. N \in Nat /\ row.retry \in Nat /\ y.run \in Nat /\ y2.run \in Nat
  BY MaxCallsIs DEF WorkflowStep, Calls
<1>3. row.retry + 2 <= N
  <2>1. row.name \in Steps BY DEF WorkflowStep
  <2>2. QED BY <1>2, <2>1, MaxCallsIs
<1>4. ~DLQEnabled[i] => y2.run <= row.retry + 1 BY <1>2 DEF Active, Called
<1> HIDE DEF r
<1>5. QED BY <1>1, <1>2, <1>3, <1>4 DEF Active, Called, r

\* A step of a workflow with DLQ is paused, or marked as running.
LEMMA RowMarked ==
    ASSUME NEW i, NEW row \in WorkflowStep, NEW y \in Calls, NEW y2 \in Calls, NEW S,
           NEW st \in StepStatus \ {"failed"}, Active(i, row, y, S),
           (DLQEnabled[i] /\ Called(y, y2, {0})) \/ y2 = y
    PROVE  Active(i, WithStatus(row, st), y2, {st})
<1> DEFINE r == WithStatus(row, st)
<1>1. r.name = row.name /\ r.status = st /\ r.comp = row.comp /\ r.retry = row.retry
  BY WithStatusIs
<1> HIDE DEF r
<1>2. QED BY <1>1 DEF Active, Called, r

\* A step that is given up stays within its bounds.
LEMMA RowEnds ==
    ASSUME NEW i, NEW row \in WorkflowStep, NEW y \in Calls, NEW y2 \in Calls, NEW S,
           Active(i, row, y, S), Called(y, y2, {0, 1}), y2.ok > 0 => Def[row.name].type = "task",
           NEW r, r.name = row.name
    PROVE  Bounds(i, r, y2)
<1> DEFINE N == MaxCalls(row.name)
<1>2. N \in Nat /\ row.retry \in Nat /\ y.run \in Nat /\ y2.run \in Nat
  BY MaxCallsIs DEF WorkflowStep, Calls
<1>3. ~DLQEnabled[i] => y2.run <= N BY <1>2 DEF Active, Called
<1>4. QED BY <1>3 DEF Active, Called, Bounds

----------------------------------------------------------------------------
(* The status of an instance after a step *)

\* Row k moves and the rows before it are done: the instance is at row k.
LEMMA AtMoves ==
    ASSUME NEW i, NEW R, NEW c, NEW R2, NEW c2, NEW k, NEW S, Ordered(R), Fresh(R, c),
           Moved(R, c, R2, c2, k), Before(i, R, c, k), Active(i, R2[k], c2[R2[k].name], S)
    PROVE  Ordered(R2) /\ Fresh(R2, c2) /\ At(i, R2, c2, k, S)
<1>1. Ordered(R2) /\ Fresh(R2, c2) BY MovedKeeps
<1>2. Before(i, R2, c2, k) BY MovedBefore
<1>3. QED BY <1>1, <1>2 DEF At

\* It runs, with at most one item.
LEMMA RunningValid ==
    ASSUME NEW i, NEW R, NEW c, NEW k, NEW S, NEW Q, NEW id, Ordered(R), Fresh(R, c),
           At(i, R, c, k, S), S \subseteq {"pending", "running", "failed"},
           Q \subseteq {<<id, k>>}, StoreKind = "postgres" => Q # {}
    PROVE  Valid(i, "running", R, Q, {}, c)
<1>1. At(i, R, c, k, {"pending", "running", "failed"}) BY DEF At, Active
<1>2. k \in DOMAIN R BY DEF At, Before
<1>3. \A q \in Q : q[2] = k OBVIOUS
<1>4. \A q, r \in Q : q = r OBVIOUS
<1>5. Running1(i, R, Q, c) BY <1>1, <1>2, <1>3, <1>4 DEF Running1
<1>6. QED BY <1>5 DEF Valid, Phase

\* Its only item is lost.
LEMMA StuckValid ==
    ASSUME NEW i, NEW R, NEW c, Ordered(R), Fresh(R, c), StoreKind = "sqlite",
           \A x \in DOMAIN R : Bounds(i, R[x], c[R[x].name])
    PROVE  Valid(i, "running", R, {}, {}, c)
<1>1. Stuck1(i, R, {}, c) BY DEF Stuck1
<1>2. QED BY <1>1 DEF Valid, Phase

\* It is in DLQ state, with one dead letter.
LEMMA PausedValid ==
    ASSUME NEW i, NEW R, NEW c, NEW rec, Ordered(R), Fresh(R, c), DLQEnabled[i],
           At(i, R, c, rec.step, {"paused"})
    PROVE  Valid(i, "dlq", R, {}, {rec}, c)
<1>1. Paused1(i, R, {rec}, c) BY DEF Paused1
<1>2. QED BY <1>1 DEF Valid, Phase

\* Row k, the last one, is done as well.
LEMMA AllDone ==
    ASSUME NEW i, NEW R, NEW c, NEW R2, NEW c2, NEW k, Ordered(R), Fresh(R, c),
           Moved(R, c, R2, c2, k), Before(i, R, c, k), Done(i, R2[k], c2[R2[k].name])
    PROVE  /\ Ordered(R2) /\ Fresh(R2, c2) /\ k \in DOMAIN R2
           /\ \A x \in DOMAIN R2 : x # k => x < k
           /\ \A x \in DOMAIN R2 : Done(i, R2[x], c2[R2[x].name])
<1>1. Ordered(R2) /\ Fresh(R2, c2) BY MovedKeeps
<1>2. Before(i, R2, c2, k) BY MovedBefore
<1>3. QED BY <1>1, <1>2 DEF Before

\* It is completed.
LEMMA CompletedValid ==
    ASSUME NEW i, NEW R, NEW c, Ordered(R), Fresh(R, c),
           \A x \in DOMAIN R : Done(i, R[x], c[R[x].name])
    PROVE  Valid(i, "completed", R, {}, {}, c)
BY DEF Valid, Phase

\* It is aborted.
LEMMA AbortedValid ==
    ASSUME NEW i, NEW R, NEW c, Ordered(R), Fresh(R, c),
           \A x \in DOMAIN R : Bounds(i, R[x], c[R[x].name])
    PROVE  Valid(i, "aborted", R, {}, {}, c)
BY DEF Valid, Phase

\* Rows R and a new row for step m with number k2.
Grown(R, i, m, k2) ==
    [x \in DOMAIN R \cup {k2} |-> IF x = k2 THEN NewStep(i, m, "pending") ELSE R[x]]

\* The fields of a new row.
LEMMA NewStepIs ==
    ASSUME NEW i \in Instances, NEW m \in Steps
    PROVE  LET r == NewStep(i, m, "pending")
           IN  /\ r \in WorkflowStep /\ r.inst = i /\ r.name = m /\ r.status = "pending"
               /\ r.comp = 0 /\ r.retry = 0
BY DEF NewStep, WorkflowStep, StepStatus

\* A step that was not called is ready to be executed.
LEMMA NewActive ==
    ASSUME NEW i \in Instances, NEW m \in Steps
    PROVE  Active(i, NewStep(i, m, "pending"), NoCalls, {"pending"})
<1> DEFINE r == NewStep(i, m, "pending")
<1>1. r.name = m /\ r.status = "pending" /\ r.comp = 0 /\ r.retry = 0 BY NewStepIs
<1>2. NoCalls.run = 0 /\ NoCalls.ok = 0 /\ NoCalls.undo = 0 /\ NoCalls.undone = 0 BY DEF NoCalls
<1>3. MaxCalls(m) \in Nat /\ MaxCalls(m) >= 1 BY MaxCallsIs
<1> HIDE DEF r
<1>4. QED BY <1>1, <1>2, <1>3 DEF Active, r

\* A step was done and its follower gets a row.
LEMMA LineGrows ==
    ASSUME Sequential, NEW i \in Instances, NEW R, NEW k, NEW k2 \in Nat, NEW m \in Steps,
           Ordered(R), k \in DOMAIN R, \A x \in DOMAIN R : x # k => x < k,
           k2 > k, m \in Followers(Def, R[k].name)
    PROVE  /\ Ordered(Grown(R, i, m, k2))
           /\ \A x \in DOMAIN R : R[x].name # m
<1> DEFINE D == DOMAIN R
           D2 == D \cup {k2}
           name == NamesIn(R)
           G == Grown(R, i, m, k2)
           name2 == NamesIn(G)
<1>1. Line(D, name, Rank) BY DEF Ordered
<1>2. D \in SUBSET Nat /\ name \in [D -> Steps] /\ Rank \in [Steps -> 0..Cardinality(Steps)]
      /\ (\A x, y \in D : x < y => Rank[name[x]] < Rank[name[y]])
      /\ (\A x, y \in D : x < y /\ (\A z \in D : z <= x \/ z >= y) => Def[name[y]].prev = name[x])
      /\ (\A y \in D : (\A x \in D : y <= x) => Def[name[y]].prev \notin Steps)
  BY <1>1 DEF Line
<1>3. DOMAIN G = D2 BY DEF Grown
<1>4. \A x \in D : name[x] = R[x].name BY DEF NamesIn
<1>5. k \in Nat /\ \A x \in D : x \in Nat /\ x <= k /\ x < k2 BY <1>2
<1>6. name2[k2] = m
  <2>1. G[k2].name = m BY NewStepIs DEF Grown
  <2>2. QED BY <1>3, <2>1 DEF NamesIn
<1>7. \A x \in D : name2[x] = name[x]
  <2>1. \A x \in D : G[x] = R[x] BY <1>5 DEF Grown
  <2>2. QED BY <1>3, <1>4, <2>1 DEF NamesIn
<1>8. DOMAIN name2 = D2 BY <1>3 DEF NamesIn
<1>9. Def[m].prev = name[k] /\ Rank[name[k]] < Rank[m]
  <2>1. Rises(Rank) BY RankIs
  <2>2. R[k].name \in Steps BY RowNumbers
  <2>3. QED BY <1>4, <2>1, <2>2 DEF Rises
<1>10. \A x \in D : Rank[name[x]] < Rank[m]
  <2>1. ASSUME NEW x \in D PROVE Rank[name[x]] < Rank[m]
    <3>1. x = k \/ Rank[name[x]] < Rank[name[k]] BY <1>2
    <3>2. name[x] \in Steps /\ name[k] \in Steps BY <1>2
    <3>3. Rank[name[x]] \in Int /\ Rank[name[k]] \in Int /\ Rank[m] \in Int BY <1>2, <3>2
    <3>4. QED BY <1>9, <3>1, <3>3
  <2>2. QED BY <2>1
<1>11. \A x \in D : R[x].name # m
  <2> SUFFICES ASSUME NEW x \in D, R[x].name = m PROVE FALSE OBVIOUS
  <2>1. Rank[m] \in Int BY <1>2
  <2>2. QED BY <1>4, <1>10, <2>1
<1> HIDE DEF name, name2, D2
<1>12. name2 \in [D2 -> Steps]
  <2>1. name2 = [x \in D2 |-> name2[x]] BY <1>8 DEF name2, NamesIn
  <2>2. \A x \in D2 : name2[x] \in Steps BY <1>2, <1>6, <1>7 DEF D2
  <2>3. QED BY <2>1, <2>2
<1>13. D2 \in SUBSET Nat BY <1>2 DEF D2
<1>14. ASSUME NEW x \in D2, NEW y \in D2, x < y PROVE Rank[name2[x]] < Rank[name2[y]]
  <2>1. x \in D BY <1>5, <1>14 DEF D2
  <2>2. CASE y = k2 BY <1>6, <1>7, <1>10, <2>1, <2>2
  <2>3. CASE y \in D BY <1>2, <1>7, <1>14, <2>1, <2>3
  <2>4. QED BY <2>2, <2>3 DEF D2
<1>15. ASSUME NEW x \in D2, NEW y \in D2, x < y, \A z \in D2 : z <= x \/ z >= y
       PROVE  Def[name2[y]].prev = name2[x]
  <2>1. x \in D BY <1>5, <1>15 DEF D2
  <2>2. CASE y = k2
    <3>1. k <= x \/ k >= k2 BY <1>15, <2>2 DEF D2
    <3>2. x = k BY <1>5, <2>1, <3>1
    <3>3. QED BY <1>6, <1>7, <1>9, <2>2, <3>2
  <2>3. CASE y \in D
    <3>1. \A z \in D : z <= x \/ z >= y BY <1>15 DEF D2
    <3>2. QED BY <1>2, <1>7, <1>15, <2>1, <2>3, <3>1
  <2>4. QED BY <2>2, <2>3 DEF D2
<1>16. ASSUME NEW y \in D2, \A x \in D2 : y <= x PROVE Def[name2[y]].prev \notin Steps
  <2>1. y <= k BY <1>16 DEF D2
  <2>2. y \in D BY <1>5, <2>1 DEF D2
  <2>3. \A x \in D : y <= x BY <1>16 DEF D2
  <2>4. QED BY <1>2, <1>7, <2>2, <2>3
<1>17. Line(D2, name2, Rank) BY <1>2, <1>12, <1>13, <1>14, <1>15, <1>16 DEF Line
<1>18. Ordered(G) BY <1>3, <1>17 DEF Ordered, name2, D2
<1>19. QED BY <1>11, <1>18

\* The instance goes on with the follower of the step that was done.
LEMMA NextValid ==
    ASSUME Sequential, NEW i \in Instances, NEW R, NEW c, NEW k, NEW k2 \in Nat, NEW m \in Steps,
           NEW id, Ordered(R), Fresh(R, c), k \in DOMAIN R, \A x \in DOMAIN R : x # k => x < k,
           \A x \in DOMAIN R : Done(i, R[x], c[R[x].name]),
           k2 > k, m \in Followers(Def, R[k].name)
    PROVE  Valid(i, "running", Grown(R, i, m, k2), {<<id, k2>>}, {}, c)
<1> DEFINE G == Grown(R, i, m, k2)
<1>1. Ordered(G) /\ \A x \in DOMAIN R : R[x].name # m BY LineGrows
<1>2. k \in Nat /\ \A x \in DOMAIN R : x \in Nat BY RowNumbers
<1>3. \A x \in DOMAIN R : x < k2 /\ x # k2 BY <1>2
<1>4. DOMAIN G = DOMAIN R \cup {k2} /\ G[k2] = NewStep(i, m, "pending")
      /\ \A x \in DOMAIN R : G[x] = R[x]
  BY <1>3 DEF Grown
<1>5. G[k2].name = m BY <1>4, NewStepIs
<1> HIDE DEF G
<1>6. c[m] = NoCalls BY <1>1 DEF Fresh
<1>7. Fresh(G, c) BY <1>4 DEF Fresh
<1>8. Active(i, G[k2], c[G[k2].name], {"pending"}) BY <1>4, <1>5, <1>6, NewActive
<1>9. Before(i, G, c, k2) BY <1>3, <1>4 DEF Before
<1>10. At(i, G, c, k2, {"pending"}) BY <1>8, <1>9 DEF At
<1> DEFINE Q == {<<id, k2>>}
<1>11. Q \subseteq {<<id, k2>>} /\ Q # {} OBVIOUS
<1> HIDE DEF Q
<1>12. Valid(i, "running", G, Q, {}, c) BY <1>1, <1>7, <1>10, <1>11, RunningValid
<1>13. QED BY <1>12 DEF G, Q

\* The instance is started.
LEMMA StartedValid ==
    ASSUME Sequential, NEW i \in Instances, NEW R, NEW c, NEW k2 \in Nat, NEW id,
           DOMAIN R = {}, Fresh(R, c)
    PROVE  Valid(i, "running", Grown(R, i, Start[i], k2), {<<id, k2>>}, {}, c)
<1> DEFINE m == Start[i]
           G == Grown(R, i, m, k2)
           name == NamesIn(G)
<1>1. m \in Steps /\ Def[m].prev \notin Steps BY StoreAssumption DEF Sequential
<1> HIDE DEF m
<1>2. DOMAIN G = {k2} /\ G[k2] = NewStep(i, m, "pending") BY DEF Grown
<1>3. G[k2].name = m BY <1>1, <1>2, NewStepIs
<1> HIDE DEF G
<1>4. name \in [{k2} -> Steps] /\ name[k2] = m BY <1>1, <1>2, <1>3 DEF NamesIn
<1> HIDE DEF name
<1>5. Line({k2}, name, Rank) BY <1>1, <1>4, RankIs DEF Line
<1>6. Ordered(G) BY <1>2, <1>5 DEF Ordered, name
<1>7. Fresh(G, c) /\ c[m] = NoCalls BY <1>1 DEF Fresh
<1>8. Active(i, G[k2], c[G[k2].name], {"pending"}) BY <1>1, <1>2, <1>3, <1>7, NewActive
<1>9. At(i, G, c, k2, {"pending"}) BY <1>2, <1>8 DEF At, Before
<1> DEFINE Q == {<<id, k2>>}
<1>10. Q \subseteq {<<id, k2>>} /\ Q # {} OBVIOUS
<1> HIDE DEF Q
<1>11. Valid(i, "running", G, Q, {}, c) BY <1>6, <1>7, <1>9, <1>10, RunningValid
<1>12. QED BY <1>11 DEF G, Q, m

----------------------------------------------------------------------------
(* Rollback *)

\* rollbackStep on a row that has not been compensated, and on the rows K.
RolledBackRow(row) ==
    IF Def[row.name].onFailure = NoStep THEN WithStatus(row, "rolled_back")
    ELSE [row EXCEPT !.comp = 1, !.status = "compensation"]
RolledBack(R, K) == [x \in DOMAIN R |-> IF x \in K THEN RolledBackRow(R[x]) ELSE R[x]]

\* The items Q are the compensations of the rows K.
ItemsFor(R, K, Q) ==
    /\ \A q \in Q : q[2] \in K /\ Def[R[q[2]].name].onFailure # NoStep
    /\ \A x \in K : Def[R[x].name].onFailure # NoStep => \E q \in Q : q[2] = x
    /\ \A q, r \in Q : q[2] = r[2] => q = r

\* The rollback to K misses only what a save point protects from a failure.
Reaches(s, R, k, K) ==
    \A x \in DOMAIN R :
        x # k /\ Def[R[x].name].type = "task" /\ Def[R[x].name].onFailure # NoStep =>
            \/ x \in K
            \/ /\ s = "failed"
               /\ \E z \in DOMAIN R \ K :
                    x < z /\ IsSavePoint(R[z].name) /\ R[z].status = "completed"

\* The fields of such a row.
LEMMA RolledBackRowIs ==
    ASSUME NEW row \in WorkflowStep
    PROVE  LET r == RolledBackRow(row)
           IN  /\ r \in WorkflowStep /\ r.inst = row.inst /\ r.name = row.name
               /\ IF Def[row.name].onFailure = NoStep THEN r.status = "rolled_back"
                  ELSE r.status = "compensation" /\ r.comp = 1
<1>1. CASE Def[row.name].onFailure = NoStep BY <1>1, WithStatusIs DEF RolledBackRow, StepStatus
<1>2. CASE Def[row.name].onFailure # NoStep
  BY <1>2 DEF RolledBackRow, WorkflowStep, StepStatus
<1>3. QED BY <1>1, <1>2

\* One row of an instance that stops.
LEMMA RowStops ==
    ASSUME Sequential, NEW i, NEW s \in {"failed", "cancelled"}, NEW R, NEW c, NEW k, NEW K, NEW Q,
           Typed(R, c), Ordered(R), Before(i, R, c, k), K \subseteq DOMAIN R,
           Bounds(i, R[k], c[R[k].name]), R[k].status \in {"failed", "skipped"},
           c[R[k].name].undo = 0, c[R[k].name].undone = 0,
           ItemsFor(R, K, Q), Reaches(s, R, k, K), NEW x \in DOMAIN R
    PROVE  Undoing(i, s, RolledBack(R, K), Q, x, c[RolledBack(R, K)[x].name])
<1> DEFINE R2 == RolledBack(R, K)
           n == R[x].name
           y == c[n]
           r == R2[x]
           of == Def[n].onFailure
<1>1. R[x] \in WorkflowStep /\ n \in Steps /\ y \in Calls BY DEF Typed, WorkflowStep
<1>2. r.name = n /\ (x \notin K => r = R[x])
      /\ (x \in K /\ of = NoStep => r.status = "rolled_back")
      /\ (x \in K /\ of # NoStep => r.status = "compensation" /\ r.comp = 1)
  BY <1>1, RolledBackRowIs DEF RolledBack
<1>3. Done(i, R[x], y) \/ x = k BY DEF Before
<1>4. Bounds(i, R[x], y) /\ y.undo = 0 /\ y.undone = 0
  <2>1. CASE x = k BY <2>1
  <2>2. CASE Done(i, R[x], y) BY <1>1, <2>2, DoneBounds DEF Done
  <2>3. QED BY <1>3, <2>1, <2>2
<1>5. R[x].status # "compensation"
  <2>1. CASE x = k BY <2>1
  <2>2. CASE Done(i, R[x], y) BY <2>2 DEF Done
  <2>3. QED BY <1>3, <2>1, <2>2
<1> HIDE DEF r, R2
<1>6. Bounds(i, r, y) BY <1>2, <1>4 DEF Bounds
<1>7. r.status = "compensation" =>
        /\ \E q \in Q : q[2] = x
        /\ of # NoStep /\ y.undone = 0
        /\ StoreKind # "postgres" => y.undo + 1 = r.comp /\ r.comp <= MaxUndo(n)
  <2> SUFFICES ASSUME r.status = "compensation"
               PROVE  /\ \E q \in Q : q[2] = x
                      /\ of # NoStep /\ y.undone = 0
                      /\ y.undo + 1 = r.comp /\ r.comp <= MaxUndo(n)
    OBVIOUS
  <2>1. x \in K /\ of # NoStep BY <1>2, <1>5
  <2>2. \E q \in Q : q[2] = x BY <2>1 DEF ItemsFor
  <2>3. of \in Steps BY <1>1, <2>1, DefTypes
  <2>4. Def[of].maxRetries \in Nat BY <2>3, DefTypes
  <2>5. Def[of].maxRetries > 0 BY <1>1, <2>1 DEF Sequential, SequentialDef
  <2>6. 1 <= MaxUndo(n) BY <2>4, <2>5 DEF MaxUndo
  <2>7. QED BY <1>2, <1>4, <2>1, <2>2, <2>6
<1>8. y.ok > 0 /\ of # NoStep =>
        \/ y.undone = 1 \/ r.status \in {"compensation", "failed", "skipped"}
        \/ s = "failed" /\ Protected(R2, x)
  <2> SUFFICES ASSUME y.ok > 0, of # NoStep
               PROVE  \/ r.status \in {"compensation", "failed", "skipped"}
                      \/ s = "failed" /\ Protected(R2, x)
    OBVIOUS
  <2>1. CASE x \in K BY <1>2, <2>1
  <2>2. CASE x \notin K /\ x = k BY <1>2, <2>2
  <2>3. CASE x \notin K /\ x # k
    <3>1. Def[n].type = "task" BY <1>4 DEF Bounds
    <3>2. s = "failed" /\ \E z \in DOMAIN R \ K :
            x < z /\ IsSavePoint(R[z].name) /\ R[z].status = "completed"
      BY <2>3, <3>1 DEF Reaches
    <3>3. \A z \in DOMAIN R \ K : R2[z] = R[z] BY DEF R2, RolledBack
    <3>4. DOMAIN R2 = DOMAIN R BY DEF R2, RolledBack
    <3>5. Protected(R2, x) BY <3>2, <3>3, <3>4 DEF Protected
    <3>6. QED BY <3>2, <3>5
  <2>4. QED BY <2>1, <2>2, <2>3
<1>9. Undoing(i, s, R2, Q, x, y) BY <1>2, <1>6, <1>7, <1>8 DEF Undoing, r
<1>10. c[R2[x].name] = y BY <1>2 DEF r
<1>11. QED BY <1>9, <1>10 DEF R2

\* The instance has failed or is cancelled, and its rollback is queued.
LEMMA StoppedValid ==
    ASSUME Sequential, NEW i, NEW s \in {"failed", "cancelled"}, NEW R, NEW c, NEW k, NEW K, NEW Q,
           Typed(R, c), Ordered(R), Fresh(R, c), Before(i, R, c, k), K \subseteq DOMAIN R,
           Bounds(i, R[k], c[R[k].name]), R[k].status \in {"failed", "skipped"},
           c[R[k].name].undo = 0, c[R[k].name].undone = 0,
           ItemsFor(R, K, Q), Reaches(s, R, k, K)
    PROVE  Valid(i, s, RolledBack(R, K), Q, {}, c)
<1> DEFINE R2 == RolledBack(R, K)
<1>1. DOMAIN R2 = DOMAIN R BY DEF RolledBack
<1>2. \A x \in DOMAIN R : R2[x].name = R[x].name
  BY RolledBackRowIs DEF RolledBack, Typed
<1>3. \A x \in DOMAIN R2 : Undoing(i, s, R2, Q, x, c[R2[x].name]) BY <1>1, RowStops
<1>4. \A q \in Q : q[2] \in DOMAIN R2 /\ R2[q[2]].status = "compensation"
  <2> SUFFICES ASSUME NEW q \in Q PROVE q[2] \in DOMAIN R2 /\ R2[q[2]].status = "compensation"
    OBVIOUS
  <2>1. q[2] \in K /\ Def[R[q[2]].name].onFailure # NoStep BY DEF ItemsFor
  <2>2. q[2] \in DOMAIN R /\ R[q[2]] \in WorkflowStep BY <2>1 DEF Typed
  <2>3. R2[q[2]] = RolledBackRow(R[q[2]]) BY <2>1, <2>2 DEF RolledBack
  <2>4. QED BY <1>1, <2>1, <2>2, <2>3, RolledBackRowIs
<1> HIDE DEF R2
<1>5. NamesIn(R2) = NamesIn(R) BY <1>1, <1>2 DEF NamesIn
<1>6. Ordered(R2) BY <1>1, <1>5 DEF Ordered
<1>7. Fresh(R2, c) BY <1>1, <1>2 DEF Fresh
<1>8. Stopped1(i, s, R2, Q, c) BY <1>3, <1>4 DEF Stopped1, ItemsFor
<1>9. Valid(i, s, R2, Q, {}, c) BY <1>6, <1>7, <1>8 DEF Valid, Phase
<1>10. QED BY <1>9 DEF R2

\* The rows whose steps a rollback visits.
ChainRows(R, from, sp, last) ==
    {x \in DOMAIN R : R[x].name \in rollbackStepChain(from, sp, last)}

\* A failure: the rollback starts at the failed step and ends at the nearest save point.
LEMMA FailureReaches ==
    ASSUME Sequential, NEW i, NEW R, NEW c, NEW k, NEW last, Ordered(R), Before(i, R, c, k),
           ~IsSavePoint(R[k].name), \A x \in DOMAIN R : last[R[x].name] = R[x].status
    PROVE  Reaches("failed", R, k,
               ChainRows(R, R[k].name, findNearestSavePoint(R[k].name), last))
<1> DEFINE D == DOMAIN R
           name == NamesIn(R)
           stop == findNearestSavePoint(R[k].name)
           chain == rollbackStepChain(R[k].name, stop, last)
           K == ChainRows(R, R[k].name, stop, last)
<1>1. NoForks /\ NoStep \notin Steps /\ RootStep \notin Steps BY NoJoins
<1>2. Line(D, name, Rank) BY DEF Ordered
<1>3. k \in D /\ D \in SUBSET Nat /\ (\A x \in D : R[x].name \in Steps)
  BY RowNumbers DEF Before
<1>4. \A x \in D : name[x] = R[x].name BY DEF NamesIn
<1>5. \A x \in D : x <= k /\ (x # k => x < k /\ R[x].status = "completed")
  BY <1>3 DEF Before, Done
<1>6. \A x \in D : x \in K <=> name[x] \in chain BY <1>4 DEF ChainRows
<1> HIDE DEF D, name, K, chain
<1>7. PICK sp : /\ SavePointUpTo(D, name, k, sp)
                /\ findNearestSavePoint(name[k]) = IF sp = NoStep THEN RootStep ELSE sp
  BY <1>1, <1>2, <1>3, NearestSavePoint
<1>8. stop = IF sp = NoStep THEN RootStep ELSE sp BY <1>3, <1>4, <1>7
<1> HIDE DEF stop
<1>9. chain = rollbackStepChain(name[k], stop, last) BY <1>3, <1>4 DEF chain
<1>10. ASSUME NEW x \in D, x # k, \A z \in D : x <= z /\ z <= k => name[z] # stop
       PROVE  x \in K
  <2>1. last[name[x]] \in {"completed", "failed"} BY <1>4, <1>5, <1>10 DEF D
  <2>2. x <= k /\ k \in D BY <1>3, <1>5
  <2>3. name[x] \in rollbackStepChain(name[k], stop, last)
    BY <1>1, <1>2, <1>10, <2>1, <2>2, ChainCovers
  <2>4. QED BY <1>6, <1>9, <2>3
<1>11. ASSUME NEW x \in D, x # k, Def[R[x].name].type = "task"
       PROVE  \/ x \in K
              \/ \E z \in D \ K : x < z /\ IsSavePoint(R[z].name) /\ R[z].status = "completed"
  <2>1. CASE sp = NoStep
    <3>1. \A z \in D : name[z] # stop BY <1>1, <1>3, <1>4, <1>8, <2>1
    <3>2. QED BY <1>10, <1>11, <3>1
  <2>2. CASE sp # NoStep
    <3>1. stop = sp BY <1>8, <2>2
    <3>2. PICK y \in D : /\ y <= k /\ IsSavePoint(name[y]) /\ sp = name[y]
                         /\ \A z \in D : y < z /\ z <= k => ~IsSavePoint(name[z])
      BY <1>7, <2>2 DEF SavePointUpTo
    <3>3. y # k BY <1>4, <3>2
    <3>4. R[y].status = "completed" /\ IsSavePoint(R[y].name) BY <1>4, <1>5, <3>2, <3>3
    <3>5. y \notin K
      <4>1. name[k] \in Steps BY <1>3, <1>4
      <4>2. stop \notin rollbackStepChain(name[k], stop, last) BY <1>1, <4>1, ChainStops
      <4>3. QED BY <1>6, <1>9, <3>1, <3>2, <4>2
    <3>6. x # y BY <1>11, <3>4 DEF IsSavePoint
    <3>7. CASE x < y BY <3>4, <3>5, <3>7
    <3>8. CASE y < x
      <4>1. ASSUME NEW z \in D, x <= z, z <= k PROVE name[z] # stop
        <5>1. z # y BY <1>3, <3>8, <4>1
        <5>2. QED BY <1>2, <3>1, <3>2, <5>1, NamesDiffer
      <4>2. QED BY <1>10, <1>11, <4>1
    <3>9. QED BY <1>3, <3>6, <3>7, <3>8
  <2>3. QED BY <2>1, <2>2
<1>12. Reaches("failed", R, k, K) BY <1>11 DEF Reaches, D
<1>13. QED BY <1>12 DEF K, stop

\* A cancellation: the rollback starts at the last completed step and ends at the root.
LEMMA CancellationReaches ==
    ASSUME Sequential, NEW i, NEW R, NEW c, NEW k, NEW last, Ordered(R), Before(i, R, c, k),
           R[k].status # "completed", \A x \in DOMAIN R : last[R[x].name] = R[x].status,
           NEW m \in DOMAIN R, R[m].status = "completed",
           \A x \in DOMAIN R : R[x].status = "completed" => x <= m
    PROVE  Reaches("cancelled", R, k, ChainRows(R, R[m].name, RootStep, last))
<1> DEFINE D == DOMAIN R
           name == NamesIn(R)
           chain == rollbackStepChain(R[m].name, RootStep, last)
           K == ChainRows(R, R[m].name, RootStep, last)
<1>1. NoForks /\ RootStep \notin Steps BY NoJoins
<1>2. Line(D, name, Rank) BY DEF Ordered
<1>3. D \in SUBSET Nat /\ (\A x \in D : R[x].name \in Steps) BY RowNumbers
<1>4. \A x \in D : name[x] = R[x].name BY DEF NamesIn
<1>5. \A x \in D : x # k => R[x].status = "completed" BY DEF Before, Done
<1>6. \A x \in D : x \in K <=> name[x] \in chain BY <1>4 DEF ChainRows
<1>7. m \in D OBVIOUS
<1> HIDE DEF D, name, K
<1>8. ASSUME NEW x \in D, x # k PROVE x \in K
  <2>1. last[name[x]] \in {"completed", "failed"} BY <1>4, <1>5, <1>8 DEF D
  <2>2. x <= m BY <1>5, <1>8 DEF D
  <2>3. \A z \in D : x <= z /\ z <= m => name[z] # RootStep BY <1>1, <1>3, <1>4
  <2>4. name[x] \in rollbackStepChain(name[m], RootStep, last)
    BY <1>1, <1>2, <1>7, <2>1, <2>2, <2>3, ChainCovers
  <2>5. QED BY <1>4, <1>6, <1>7, <2>4
<1>9. Reaches("cancelled", R, k, K) BY <1>8 DEF Reaches, D
<1>10. QED BY <1>9 DEF K

----------------------------------------------------------------------------
(* Compensation *)

\* A compensation of row k returned: that row, its items and its calls change.
LEMMA CompensatedValid ==
    ASSUME NEW i, NEW s, NEW R, NEW Q, NEW c, NEW s2 \in {"failed", "cancelled"}, NEW R2, NEW Q2,
           NEW c2, NEW k, Ordered(R), Fresh(R, c), Stopped1(i, s, R, Q, c), s2 = s \/ s2 = "failed",
           Moved(R, c, R2, c2, k), R[k].status = "compensation",
           Undoing(i, s2, R2, Q2, k, c2[R2[k].name]),
           \A q \in Q : q[2] # k => q \in Q2,
           \A q \in Q2 : (q \in Q /\ q[2] # k) \/ (q[2] = k /\ R2[k].status = "compensation"),
           \A q, r \in Q2 : q[2] = k /\ r[2] = k => q = r
    PROVE  Valid(i, s2, R2, Q2, {}, c2)
<1>1. Ordered(R2) /\ Fresh(R2, c2) /\ (\A x \in DOMAIN R : R2[x].name = R[x].name)
      /\ (\A x \in DOMAIN R : x # k => c2[R2[x].name] = c[R[x].name])
  BY MovedKeeps
<1>2. DOMAIN R2 = DOMAIN R /\ k \in DOMAIN R /\ \A x \in DOMAIN R : x # k => R2[x] = R[x]
  BY DEF Moved
<1>3. ASSUME NEW x \in DOMAIN R, x # k PROVE Undoing(i, s2, R2, Q2, x, c2[R2[x].name])
  <2> DEFINE y == c[R[x].name]
  <2>1. Undoing(i, s, R, Q, x, y) BY DEF Stopped1
  <2>2. R2[x] = R[x] /\ c2[R2[x].name] = y BY <1>1, <1>2, <1>3
  <2>3. Protected(R, x) => Protected(R2, x)
    <3>1. \A z \in DOMAIN R : R[z].status = "completed" => R2[z] = R[z] BY <1>2
    <3>2. QED BY <1>2, <3>1 DEF Protected
  <2>4. (\E q \in Q : q[2] = x) => \E q \in Q2 : q[2] = x BY <1>3
  <2>5. s = "failed" => s2 = "failed" OBVIOUS
  <2> HIDE DEF y
  <2>6. Undoing(i, s2, R2, Q2, x, y) BY <2>1, <2>2, <2>3, <2>4, <2>5 DEF Undoing
  <2>7. QED BY <2>2, <2>6
<1>4. \A x \in DOMAIN R2 : Undoing(i, s2, R2, Q2, x, c2[R2[x].name]) BY <1>2, <1>3
<1>5. \A q \in Q2 : q[2] \in DOMAIN R2 /\ R2[q[2]].status = "compensation"
  <2> SUFFICES ASSUME NEW q \in Q2 PROVE q[2] \in DOMAIN R2 /\ R2[q[2]].status = "compensation"
    OBVIOUS
  <2>1. CASE q \in Q /\ q[2] # k
    <3>1. q[2] \in DOMAIN R /\ R[q[2]].status = "compensation" BY <2>1 DEF Stopped1
    <3>2. QED BY <1>2, <2>1, <3>1
  <2>2. CASE q[2] = k /\ R2[k].status = "compensation" BY <1>2, <2>2
  <2>3. QED BY <2>1, <2>2
<1>6. \A q, r \in Q2 : q[2] = r[2] => q = r
  <2> SUFFICES ASSUME NEW q \in Q2, NEW r \in Q2, q[2] = r[2] PROVE q = r OBVIOUS
  <2>1. CASE q[2] = k BY <2>1
  <2>2. CASE q[2] # k BY <2>2 DEF Stopped1
  <2>3. QED BY <2>1, <2>2
<1>7. Stopped1(i, s2, R2, Q2, c2) BY <1>4, <1>5, <1>6 DEF Stopped1
<1>8. QED BY <1>1, <1>7 DEF Valid, Phase

\* A row that is compensated: what the invariant says of it.
LEMMA Compensating ==
    ASSUME NEW i, NEW s, NEW R, NEW Q, NEW c, NEW k \in DOMAIN R, Stopped1(i, s, R, Q, c),
           R[k].status = "compensation"
    PROVE  LET n == R[k].name
               y == c[n]
           IN  /\ Bounds(i, R[k], y) /\ Def[n].onFailure # NoStep /\ y.undone = 0
               /\ StoreKind # "postgres" => y.undo + 1 = R[k].comp /\ R[k].comp <= MaxUndo(n)
BY DEF Stopped1, Undoing

\* The compensation handler returned once more between the calls y and y2.
Undid(y, y2, undone) ==
    y2.run = y.run /\ y2.ok = y.ok /\ y2.undo = y.undo + 1 /\ y2.undone = undone

\* The row of a compensation that succeeded, or failed for the last time.
LEMMA RowCompensated ==
    ASSUME NEW i, NEW s, NEW s2, NEW R, NEW Q, NEW c, NEW k \in DOMAIN R, Stopped1(i, s, R, Q, c),
           R[k].status = "compensation", Typed(R, c), NEW R2, NEW Q2, NEW y2 \in Calls,
           R2[k].name = R[k].name,
           \/ R2[k].status = "rolled_back" /\ Undid(c[R[k].name], y2, 1)
           \/ R2[k].status = "failed" /\ Undid(c[R[k].name], y2, 0)
    PROVE  Undoing(i, s2, R2, Q2, k, y2)
<1> DEFINE n == R[k].name
           y == c[n]
<1>1. /\ Bounds(i, R[k], y) /\ Def[n].onFailure # NoStep /\ y.undone = 0
      /\ StoreKind # "postgres" => y.undo + 1 = R[k].comp /\ R[k].comp <= MaxUndo(n)
  BY Compensating
<1>2. n \in Steps /\ y \in Calls /\ R[k].comp \in Nat BY DEF Typed, WorkflowStep
<1>3. y.undo \in Nat /\ y2.undo \in Nat BY <1>2 DEF Calls
<1> HIDE DEF y
<1>4. y2.run = y.run /\ y2.ok = y.ok /\ y2.undo = y.undo + 1 /\ y2.undone \in {0, 1}
  BY DEF Undid, y
<1>5. Bounds(i, R2[k], y2)
  <2>1. StoreKind # "postgres" => y2.undo <= MaxUndo(n) BY <1>1, <1>4
  <2>2. QED BY <1>1, <1>4, <2>1 DEF Bounds
<1>6. R2[k].status \in {"rolled_back", "failed"} /\ (R2[k].status = "failed" \/ y2.undone = 1)
  BY DEF Undid
<1>7. QED BY <1>5, <1>6 DEF Undoing

\* The row of a compensation that is tried again.
LEMMA RowCompensatedAgain ==
    ASSUME NEW i, NEW s, NEW s2, NEW R, NEW Q, NEW c, NEW k \in DOMAIN R, Stopped1(i, s, R, Q, c),
           R[k].status = "compensation", Typed(R, c), NEW R2, NEW Q2, NEW y2 \in Calls,
           R2[k].name = R[k].name, R2[k].status = "compensation",
           StoreKind # "postgres" =>
               R2[k].comp = R[k].comp + 1 /\ R[k].comp < MaxUndo(R[k].name),
           \E q \in Q2 : q[2] = k, Undid(c[R[k].name], y2, 0)
    PROVE  Undoing(i, s2, R2, Q2, k, y2)
<1> DEFINE n == R[k].name
           y == c[n]
<1>1. /\ Bounds(i, R[k], y) /\ Def[n].onFailure # NoStep /\ y.undone = 0
      /\ StoreKind # "postgres" => y.undo + 1 = R[k].comp /\ R[k].comp <= MaxUndo(n)
  BY Compensating
<1>2. n \in Steps /\ y \in Calls /\ R[k].comp \in Nat BY DEF Typed, WorkflowStep
<1>3. y.undo \in Nat /\ y2.undo \in Nat BY <1>2 DEF Calls
<1>4. MaxUndo(n) \in Nat
  <2>1. Def[n].onFailure \in Steps BY <1>1, <1>2, DefTypes
  <2>2. QED BY <2>1, DefTypes DEF MaxUndo
<1> HIDE DEF y
<1>5. y2.run = y.run /\ y2.ok = y.ok /\ y2.undo = y.undo + 1 /\ y2.undone = 0
  BY DEF Undid, y
<1>6. StoreKind # "postgres" => /\ y2.undo <= MaxUndo(n)
                                /\ y2.undo + 1 = R2[k].comp /\ R2[k].comp <= MaxUndo(n)
  BY <1>1, <1>2, <1>3, <1>4, <1>5
<1>7. Bounds(i, R2[k], y2) BY <1>1, <1>5, <1>6 DEF Bounds
<1>8. QED BY <1>1, <1>5, <1>6, <1>7 DEF Undoing

----------------------------------------------------------------------------
(* What the operations of the store do to an instance *)

\* Nothing changed for instance h, and for any but i.
SameFor(d, e, h) ==
    /\ e.inst[h] = d.inst[h]
    /\ RowsIn(e.steps, h) = RowsIn(d.steps, h)
    /\ ItemsIn(e.queue, h) = ItemsIn(d.queue, h)
    /\ LettersIn(e.dlq, h) = LettersIn(d.dlq, h)
Others(d, e, i) == \A h \in Instances \ {i} : SameFor(d, e, h)

\* Instance i has status s, rows R, items Q and dead letters L.
Looks(d, i, s, R, Q, L) ==
    /\ d.inst[i] = s /\ RowsIn(d.steps, i) = R
    /\ ItemsIn(d.queue, i) = Q /\ LettersIn(d.dlq, i) = L

\* Operations for one instance can be chained.
LEMMA OthersTrans ==
    ASSUME NEW d, NEW e, NEW f, NEW i, Others(d, e, i), Others(e, f, i)
    PROVE  Others(d, f, i)
BY DEF Others, SameFor

\* The rows of an instance.
LEMMA RowsInIs ==
    ASSUME NEW d, Good(d), NEW i
    PROVE  /\ DOMAIN RowsIn(d.steps, i) = Rows(d, i)
           /\ \A k : k \in Rows(d, i) <=> IsRow(d, i, k)
           /\ \A k \in Rows(d, i) : /\ RowsIn(d.steps, i)[k] = d.steps[k]
                                    /\ d.steps[k] \in WorkflowStep
<1>1. \A k : k \in Rows(d, i) <=> IsRow(d, i, k) BY RowsAre
<1>2. DOMAIN RowsIn(d.steps, i) = Rows(d, i) BY DEF RowsIn, Rows
<1>3. \A k \in Rows(d, i) : RowsIn(d.steps, i)[k] = d.steps[k] BY DEF RowsIn, Rows
<1>4. \A k \in Rows(d, i) : d.steps[k] \in WorkflowStep BY <1>1, RowName
<1>5. QED BY <1>1, <1>2, <1>3, <1>4

\* The same, by the numbers of the rows.
LEMMA RowsOf ==
    ASSUME NEW d, Good(d), NEW i, NEW k \in DOMAIN RowsIn(d.steps, i)
    PROVE  /\ RowsIn(d.steps, i)[k] = d.steps[k] /\ d.steps[k] \in WorkflowStep
           /\ k \in 1..Len(d.steps) /\ d.steps[k].inst = i /\ IsRow(d, i, k)
<1>1. k \in Rows(d, i) /\ RowsIn(d.steps, i)[k] = d.steps[k] /\ d.steps[k] \in WorkflowStep
      /\ IsRow(d, i, k)
  BY RowsInIs, Zenon
<1>2. QED BY <1>1 DEF IsRow

\* The same, of all rows at once.
LEMMA AllRowsOf ==
    ASSUME NEW d, Good(d), NEW i
    PROVE  \A x \in DOMAIN RowsIn(d.steps, i) :
             /\ RowsIn(d.steps, i)[x] = d.steps[x] /\ d.steps[x] \in WorkflowStep
             /\ x \in 1..Len(d.steps)
<1>1. ASSUME NEW x \in DOMAIN RowsIn(d.steps, i)
      PROVE  /\ RowsIn(d.steps, i)[x] = d.steps[x] /\ d.steps[x] \in WorkflowStep
             /\ x \in 1..Len(d.steps)
  BY RowsOf
<1>2. QED BY <1>1

\* Tables with the same rows of an instance.
LEMMA SameRowsIn ==
    ASSUME NEW d, Good(d), NEW e, Good(e), NEW h,
           \A k : IsRow(e, h, k) <=> IsRow(d, h, k),
           \A k : IsRow(d, h, k) => e.steps[k] = d.steps[k]
    PROVE  RowsIn(e.steps, h) = RowsIn(d.steps, h)
<1> DEFINE A == RowsIn(e.steps, h)
           B == RowsIn(d.steps, h)
<1>a. DOMAIN A = Rows(e, h) /\ (\A k : k \in Rows(e, h) <=> IsRow(e, h, k))
      /\ \A k \in Rows(e, h) : A[k] = e.steps[k]
  BY RowsInIs
<1>b. DOMAIN B = Rows(d, h) /\ (\A k : k \in Rows(d, h) <=> IsRow(d, h, k))
      /\ \A k \in Rows(d, h) : B[k] = d.steps[k]
  BY RowsInIs
<1>1. DOMAIN A = DOMAIN B BY <1>a, <1>b, Zenon
<1>2. \A k \in DOMAIN B : A[k] = B[k] BY <1>a, <1>b, Zenon
<1>3. A = [k \in DOMAIN A |-> A[k]] /\ B = [k \in DOMAIN B |-> B[k]] BY DEF RowsIn
<1> HIDE DEF A, B
<1>4. A = B BY <1>1, <1>2, <1>3
<1>5. QED BY <1>4 DEF A, B

\* Rows of one instance are changed in place; f[k] is what becomes of row k.
Rewritten(d, e, i, f) ==
    /\ Len(e.steps) = Len(d.steps)
    /\ \A k \in 1..Len(d.steps) : e.steps[k].inst = d.steps[k].inst
    /\ \A k \in 1..Len(d.steps) : d.steps[k].inst # i => e.steps[k] = d.steps[k]
    /\ \A k \in 1..Len(d.steps) : d.steps[k].inst = i => e.steps[k] = f[k]
RowsBecome(d, e, i, f) ==
    /\ \A h \in Instances \ {i} : RowsIn(e.steps, h) = RowsIn(d.steps, h)
    /\ RowsIn(e.steps, i) = [k \in DOMAIN RowsIn(d.steps, i) |-> f[k]]

\* The rows of the other instances stay, those of i become f.
LEMMA RowsChanged ==
    ASSUME NEW d, Good(d), NEW e, Good(e), NEW i, NEW f, Rewritten(d, e, i, f)
    PROVE  RowsBecome(d, e, i, f)
<1> USE DEF Rewritten
<1>1. \A h, k : IsRow(e, h, k) <=> IsRow(d, h, k) BY DEF IsRow
<1>2. ASSUME NEW h \in Instances \ {i} PROVE RowsIn(e.steps, h) = RowsIn(d.steps, h)
  <2>1. \A k : IsRow(d, h, k) => e.steps[k] = d.steps[k] BY DEF IsRow
  <2>2. QED BY <1>1, <2>1, SameRowsIn
<1>3. RowsIn(e.steps, i) = [k \in DOMAIN RowsIn(d.steps, i) |-> f[k]]
  <2> DEFINE A == RowsIn(e.steps, i)
             B == RowsIn(d.steps, i)
  <2>a. DOMAIN A = Rows(e, i) /\ (\A k : k \in Rows(e, i) <=> IsRow(e, i, k))
        /\ \A k \in Rows(e, i) : A[k] = e.steps[k]
    BY RowsInIs
  <2>b. DOMAIN B = Rows(d, i) /\ (\A k : k \in Rows(d, i) <=> IsRow(d, i, k)) BY RowsInIs
  <2>1. DOMAIN A = DOMAIN B BY <1>1, <2>a, <2>b, Zenon
  <2>2. \A k \in DOMAIN B : A[k] = f[k]
    <3>1. \A k \in DOMAIN B : IsRow(d, i, k) /\ A[k] = e.steps[k] BY <2>1, <2>a, <2>b, Zenon
    <3>2. QED BY <3>1 DEF IsRow
  <2>3. A = [k \in DOMAIN A |-> A[k]] BY DEF RowsIn
  <2> HIDE DEF A, B
  <2>4. A = [k \in DOMAIN B |-> f[k]] BY <2>1, <2>2, <2>3
  <2>5. QED BY <2>4 DEF A, B
<1>4. QED BY <1>2, <1>3 DEF RowsBecome

\* Same tables but for the rows.
OnlySteps(d, e) ==
    e.inst = d.inst /\ e.queue = d.queue /\ e.dlq = d.dlq /\ e.nq = d.nq /\ e.cancel = d.cancel
    /\ Len(e.steps) = Len(d.steps)

\* UpdateStep on rows K of the instance.
Statused(R, K, st) == [x \in DOMAIN R |-> IF x \in K THEN WithStatus(R[x], st) ELSE R[x]]

\* UpdateStep on rows of the instance, as the instance sees it.
LEMMA UpdateStepsView ==
    ASSUME NEW d, Good(d), NEW i, NEW K, \A k \in K : IsRow(d, i, k), NEW st \in StepStatus
    PROVE  LET e == UpdateSteps(d, K, st)
           IN  /\ Leads(d, e) /\ Good(e) /\ OnlySteps(d, e) /\ Others(d, e, i)
               /\ RowsIn(e.steps, i) = Statused(RowsIn(d.steps, i), K, st)
<1> DEFINE e == UpdateSteps(d, K, st)
           f == [k \in 1..Len(d.steps) |-> IF k \in K THEN WithStatus(d.steps[k], st) ELSE d.steps[k]]
           R == RowsIn(d.steps, i)
<1>1. d \in Database BY DEF Good
<1>2. DOMAIN d.steps = 1..Len(d.steps) /\ Len(d.steps) \in Nat
      /\ \A k \in 1..Len(d.steps) : d.steps[k] \in WorkflowStep
  BY <1>1, FieldTypes
<1>3. Leads(d, e) /\ Good(e) BY UpdateStepsLeads DEF Leads
<1>4. e = [d EXCEPT !.steps = f] BY <1>2 DEF UpdateSteps
<1>5. e.inst = d.inst /\ e.queue = d.queue /\ e.dlq = d.dlq /\ e.nq = d.nq /\ e.cancel = d.cancel
      /\ e.steps = f
  BY <1>1, <1>4 DEF Database
<1>6. Len(e.steps) = Len(d.steps) BY <1>2, <1>5
<1>7. OnlySteps(d, e) BY <1>5, <1>6 DEF OnlySteps
<1>8. \A k \in 1..Len(d.steps) : f[k].inst = d.steps[k].inst BY <1>2, WithStatusIs
<1>9. \A k \in 1..Len(d.steps) : d.steps[k].inst # i => f[k] = d.steps[k] BY DEF IsRow
<1>z. Rewritten(d, e, i, f) BY <1>5, <1>6, <1>8, <1>9 DEF Rewritten
<1> HIDE DEF e, f
<1>10. /\ \A h \in Instances \ {i} : RowsIn(e.steps, h) = RowsIn(d.steps, h)
       /\ RowsIn(e.steps, i) = [k \in DOMAIN R |-> f[k]]
  BY <1>3, <1>z, RowsChanged DEF RowsBecome
<1>11. [k \in DOMAIN R |-> f[k]] = Statused(R, K, st)
  <2>1. ASSUME NEW k \in DOMAIN R PROVE R[k] = d.steps[k] /\ k \in 1..Len(d.steps)
    <3>1. QED BY RowsOf
  <2>2. \A k \in DOMAIN R : f[k] = IF k \in K THEN WithStatus(R[k], st) ELSE R[k]
    BY <2>1 DEF f
  <2> HIDE DEF R
  <2>3. QED BY <2>2 DEF Statused
<1>12. Others(d, e, i) BY <1>5, <1>10 DEF Others, SameFor
<1>13. QED BY <1>3, <1>7, <1>10, <1>11, <1>12 DEF e

\* One row.
LEMMA UpdateStepView ==
    ASSUME NEW d, Good(d), NEW i, NEW k, IsRow(d, i, k), NEW st \in StepStatus
    PROVE  LET e == UpdateStep(d, k, st)
               R == RowsIn(d.steps, i)
           IN  /\ Leads(d, e) /\ Good(e) /\ OnlySteps(d, e) /\ Others(d, e, i) /\ IsRow(e, i, k)
               /\ RowsIn(e.steps, i) = [R EXCEPT ![k] = WithStatus(R[k], st)]
<1> DEFINE e == UpdateSteps(d, {k}, st)
           R == RowsIn(d.steps, i)
<1>1. UpdateStep(d, k, st) = e BY DEF UpdateStep
<1>2. /\ Leads(d, e) /\ Good(e) /\ OnlySteps(d, e) /\ Others(d, e, i)
      /\ RowsIn(e.steps, i) = Statused(R, {k}, st)
  BY UpdateStepsView
<1>3. IsRow(e, i, k) BY <1>2, RowStays
<1>4. Statused(R, {k}, st) = [R EXCEPT ![k] = WithStatus(R[k], st)]
  <2>1. R = [x \in DOMAIN R |-> R[x]] BY DEF RowsIn
  <2> HIDE DEF R
  <2>2. QED BY <2>1 DEF Statused
<1>5. QED BY <1>1, <1>2, <1>3, <1>4

\* UpdateInstanceStatus.
LEMMA InstanceStatusView ==
    ASSUME NEW d, Good(d), NEW i \in Instances, NEW s \in WorkflowStatus
    PROVE  LET e == UpdateInstanceStatus(d, i, s)
           IN  /\ Leads(d, e) /\ Good(e) /\ Others(d, e, i)
               /\ Looks(e, i, s, RowsIn(d.steps, i), ItemsIn(d.queue, i), LettersIn(d.dlq, i))
               /\ e.steps = d.steps /\ e.cancel = d.cancel /\ e.queue = d.queue
<1> DEFINE e == UpdateInstanceStatus(d, i, s)
<1>1. d \in Database BY DEF Good
<1>2. d.inst \in [Instances -> WorkflowStatus] BY <1>1, FieldTypes
<1>3. Leads(d, e) /\ Good(e) BY UpdateInstanceStatusLeads DEF Leads
<1>4. e.inst = [d.inst EXCEPT ![i] = s] /\ e.steps = d.steps /\ e.queue = d.queue /\ e.dlq = d.dlq
      /\ e.cancel = d.cancel
  BY <1>1 DEF UpdateInstanceStatus, Database
<1> HIDE DEF e
<1>5. e.inst[i] = s /\ \A h \in Instances \ {i} : e.inst[h] = d.inst[h] BY <1>2, <1>4
<1>6. QED BY <1>3, <1>4, <1>5 DEF Others, SameFor, Looks, e

\* UpdateStepCompensationRetry on rows K of the instance.
Recounted(R, K, count) ==
    [x \in DOMAIN R |-> IF x \in K THEN [R[x] EXCEPT !.comp = count[x], !.status = "compensation"]
                        ELSE R[x]]

\* UpdateStepCompensationRetry on rows of the instance.
LEMMA CompensationRetryView ==
    ASSUME NEW d, Good(d), NEW i, NEW K, \A k \in K : IsRow(d, i, k), NEW count \in [K -> Nat]
    PROVE  LET e == UpdateStepsCompensationRetry(d, K, count)
           IN  /\ Leads(d, e) /\ Good(e) /\ OnlySteps(d, e) /\ Others(d, e, i)
               /\ RowsIn(e.steps, i) = Recounted(RowsIn(d.steps, i), K, count)
<1> DEFINE e == UpdateStepsCompensationRetry(d, K, count)
           f == [k \in 1..Len(d.steps) |->
                   IF k \in K THEN [d.steps[k] EXCEPT !.comp = count[k], !.status = "compensation"]
                   ELSE d.steps[k]]
           R == RowsIn(d.steps, i)
<1>1. d \in Database BY DEF Good
<1>2. DOMAIN d.steps = 1..Len(d.steps) /\ Len(d.steps) \in Nat
      /\ \A k \in 1..Len(d.steps) : d.steps[k] \in WorkflowStep
  BY <1>1, FieldTypes
<1>3. Leads(d, e) /\ Good(e) BY CompensationRetryLeads DEF Leads
<1>4. e = [d EXCEPT !.steps = f] BY <1>2 DEF UpdateStepsCompensationRetry
<1>5. e.inst = d.inst /\ e.queue = d.queue /\ e.dlq = d.dlq /\ e.nq = d.nq /\ e.cancel = d.cancel
      /\ e.steps = f
  BY <1>1, <1>4 DEF Database
<1>6. Len(e.steps) = Len(d.steps)
  <2>1. DOMAIN f = 1..Len(d.steps) OBVIOUS
  <2> HIDE DEF e, f
  <2>2. DOMAIN e.steps = 1..Len(e.steps) /\ Len(e.steps) \in Nat BY <1>3, FieldTypes DEF Good
  <2>3. QED BY <1>2, <1>5, <2>1, <2>2
<1>7. OnlySteps(d, e) BY <1>5, <1>6 DEF OnlySteps
<1>8. \A k \in 1..Len(d.steps) : f[k].inst = d.steps[k].inst BY <1>2 DEF WorkflowStep
<1>9. \A k \in 1..Len(d.steps) : d.steps[k].inst # i => f[k] = d.steps[k] BY DEF IsRow
<1>10. Rewritten(d, e, i, f) BY <1>5, <1>6, <1>8, <1>9 DEF Rewritten
<1> HIDE DEF e, f
<1>11. /\ \A h \in Instances \ {i} : RowsIn(e.steps, h) = RowsIn(d.steps, h)
       /\ RowsIn(e.steps, i) = [k \in DOMAIN R |-> f[k]]
  BY <1>3, <1>10, RowsChanged DEF RowsBecome
<1>12. [k \in DOMAIN R |-> f[k]] = Recounted(R, K, count)
  <2>1. ASSUME NEW k \in DOMAIN R PROVE R[k] = d.steps[k] /\ k \in 1..Len(d.steps)
    <3>1. QED BY RowsOf
  <2>2. \A k \in DOMAIN R :
          f[k] = IF k \in K THEN [R[k] EXCEPT !.comp = count[k], !.status = "compensation"]
                 ELSE R[k]
    BY <2>1 DEF f
  <2> HIDE DEF R
  <2>3. QED BY <2>2 DEF Recounted
<1>13. Others(d, e, i) BY <1>5, <1>11 DEF Others, SameFor
<1>14. QED BY <1>3, <1>7, <1>11, <1>12, <1>13 DEF e

\* The items as pairs.
Pairs(Q) == {<<q.id, q.step>> : q \in Q}

\* A pair is that of an item.
LEMMA InPairs ==
    ASSUME NEW Q, NEW p PROVE p \in Pairs(Q) <=> \E q \in Q : p = <<q.id, q.step>>
BY DEF Pairs

\* An item of an instance, as a pair.
LEMMA InItems ==
    ASSUME NEW Q, NEW i, NEW p
    PROVE  p \in ItemsIn(Q, i) <=> \E q \in Q : q.inst = i /\ p = <<q.id, q.step>>
BY DEF ItemsIn

\* Items of one instance are added.
LEMMA ItemsAdded ==
    ASSUME NEW Q, NEW new, NEW i, \A q \in new : q.inst = i
    PROVE  /\ \A h : h # i => ItemsIn(Q \cup new, h) = ItemsIn(Q, h)
           /\ ItemsIn(Q \cup new, i) = ItemsIn(Q, i) \cup Pairs(new)
<1>1. ASSUME NEW h, h # i PROVE ItemsIn(Q \cup new, h) = ItemsIn(Q, h)
  <2>1. ASSUME NEW p PROVE p \in ItemsIn(Q \cup new, h) <=> p \in ItemsIn(Q, h)
    BY <1>1, InItems
  <2>2. QED BY <2>1
<1>2. ASSUME NEW p
      PROVE  p \in ItemsIn(Q \cup new, i) <=> p \in ItemsIn(Q, i) \cup Pairs(new)
  BY InItems, InPairs
<1>3. QED BY <1>1, <1>2

\* Only items P of the instance are added.
Queued(d, e, i, P) ==
    /\ e.inst = d.inst /\ e.steps = d.steps /\ e.dlq = d.dlq /\ e.cancel = d.cancel
    /\ ItemsIn(e.queue, i) = ItemsIn(d.queue, i) \cup P
    /\ Others(d, e, i)

\* Items of one instance are added to the queue.
LEMMA QueueView ==
    ASSUME NEW d, Good(d), NEW i, NEW new, NEW n, \A q \in new : q.inst = i
    PROVE  Queued(d, [d EXCEPT !.queue = d.queue \cup new, !.nq = n], i, Pairs(new))
<1> DEFINE e == [d EXCEPT !.queue = d.queue \cup new, !.nq = n]
<1>1. d \in Database BY DEF Good
<1>2. e.inst = d.inst /\ e.steps = d.steps /\ e.dlq = d.dlq /\ e.cancel = d.cancel
      /\ e.queue = d.queue \cup new
  BY <1>1 DEF Database
<1> HIDE DEF e
<1>3. /\ \A h : h # i => ItemsIn(e.queue, h) = ItemsIn(d.queue, h)
      /\ ItemsIn(e.queue, i) = ItemsIn(d.queue, i) \cup Pairs(new)
  <2> DEFINE Q2 == d.queue \cup new
  <2>1. /\ \A h : h # i => ItemsIn(Q2, h) = ItemsIn(d.queue, h)
        /\ ItemsIn(Q2, i) = ItemsIn(d.queue, i) \cup Pairs(new)
    BY ItemsAdded
  <2>2. e.queue = Q2 BY <1>2
  <2> HIDE DEF Q2
  <2>3. QED BY <2>1, <2>2
<1>4. Others(d, e, i) BY <1>2, <1>3 DEF Others, SameFor
<1>5. Queued(d, e, i, Pairs(new)) BY <1>2, <1>3, <1>4 DEF Queued
<1>6. QED BY <1>5 DEF e

\* EnqueueStep for the row base + 1.
LEMMA EnqueueOneView ==
    ASSUME NEW d, Good(d), NEW i, NEW base \in Nat
    PROVE  Queued(d, EnqueueRange(d, i, base, 1), i, {<<d.nq, base + 1>>})
<1> DEFINE new == {[id |-> d.nq + k - 1, inst |-> i, step |-> base + k, by |-> Nobody] : k \in 1..1}
           q0 == [id |-> d.nq, inst |-> i, step |-> base + 1, by |-> Nobody]
<1>1. d.nq \in Nat BY FieldTypes DEF Good
<1>2. new = {q0}
  <2>1. 1..1 = {1} OBVIOUS
  <2>2. d.nq + 1 - 1 = d.nq BY <1>1
  <2>3. new = {[id |-> d.nq + k - 1, inst |-> i, step |-> base + k, by |-> Nobody] : k \in {1}}
    BY <2>1
  <2>4. QED BY <2>2, <2>3
<1>3. EnqueueRange(d, i, base, 1) = [d EXCEPT !.queue = d.queue \cup new, !.nq = d.nq + 1]
  BY DEF EnqueueRange
<1>4. q0.inst = i /\ q0.id = d.nq /\ q0.step = base + 1 OBVIOUS
<1> HIDE DEF new, q0
<1>5. \A q \in new : q.inst = i BY <1>2, <1>4
<1>6. Pairs(new) = {<<d.nq, base + 1>>}
  <2>1. ASSUME NEW p PROVE p \in Pairs(new) <=> p = <<d.nq, base + 1>> BY <1>2, <1>4, InPairs
  <2>2. QED BY <2>1
<1> DEFINE n == d.nq + 1
<1> HIDE DEF n
<1>7. Queued(d, [d EXCEPT !.queue = d.queue \cup new, !.nq = n], i, Pairs(new))
  BY <1>5, QueueView
<1>8. QED BY <1>3, <1>6, <1>7 DEF n

\* EnqueueStep for a row of the instance.
LEMMA EnqueueStepView ==
    ASSUME NEW d, Good(d), NEW i, NEW k, IsRow(d, i, k)
    PROVE  /\ Leads(d, EnqueueStep(d, i, k)) /\ Good(EnqueueStep(d, i, k))
           /\ Queued(d, EnqueueStep(d, i, k), i, {<<d.nq, k>>})
<1>1. k \in Nat \ {0} BY FieldTypes DEF IsRow, Good
<1>2. k - 1 \in Nat /\ (k - 1) + 1 = k BY <1>1
<1>3. Queued(d, EnqueueRange(d, i, k - 1, 1), i, {<<d.nq, (k - 1) + 1>>})
  BY <1>2, EnqueueOneView
<1>4. Queued(d, EnqueueStep(d, i, k), i, {<<d.nq, k>>}) BY <1>2, <1>3 DEF EnqueueStep
<1>5. QED BY <1>4, EnqueueRowLeads DEF Leads

\* EnqueueStep for the rows K.
LEMMA EnqueueRowsView ==
    ASSUME NEW d, Good(d), NEW i \in Instances, NEW K, \A k \in K : IsRow(d, i, k)
    PROVE  /\ Leads(d, EnqueueRows(d, i, K)) /\ Good(EnqueueRows(d, i, K))
           /\ \E P : /\ Queued(d, EnqueueRows(d, i, K), i, P)
                     /\ \A p \in P : p[2] \in K /\ p[1] >= d.nq
                     /\ \A k \in K : \E p \in P : p[2] = k
                     /\ \A p, q \in P : p[2] = q[2] => p = q
<1> DEFINE N(k) == Cardinality({m \in K : m > k})
           item(k) == [id |-> d.nq + N(k), inst |-> i, step |-> k, by |-> Nobody]
           new == {item(k) : k \in K}
           P == Pairs(new)
           e == EnqueueRows(d, i, K)
<1>1. d.nq \in Nat BY FieldTypes DEF Good
<1>2. K \in SUBSET (1..Len(d.steps)) /\ \A k \in K : d.steps[k].inst = i BY DEF IsRow
<1>3. Leads(d, e) /\ Good(e) BY <1>2, EnqueueRowsLeads DEF Leads
<1>4. \A k \in K : N(k) \in Nat BY <1>2, RowsFinite
<1>5. e = [d EXCEPT !.queue = d.queue \cup new, !.nq = d.nq + Cardinality(K)]
  BY DEF EnqueueRows
<1> HIDE DEF N
<1>6. \A k \in K : item(k).inst = i /\ item(k).id = d.nq + N(k) /\ item(k).step = k OBVIOUS
<1> HIDE DEF item
<1>7. \A q \in new : q.inst = i BY <1>6
<1>8. \A p : p \in P <=> \E k \in K : p = <<d.nq + N(k), k>>
  <2> SUFFICES ASSUME NEW p PROVE p \in P <=> \E k \in K : p = <<d.nq + N(k), k>> OBVIOUS
  <2>1. p \in P <=> \E q \in new : p = <<q.id, q.step>> BY InPairs
  <2>2. QED BY <1>6, <2>1
<1> HIDE DEF P, new
<1>9. Queued(d, e, i, P)
  <2> DEFINE n == d.nq + Cardinality(K)
  <2> HIDE DEF n
  <2>1. Queued(d, [d EXCEPT !.queue = d.queue \cup new, !.nq = n], i, Pairs(new))
    BY <1>7, QueueView
  <2>2. QED BY <1>5, <2>1 DEF n, P
<1>10. \A p \in P : p[2] \in K /\ p[1] >= d.nq
  <2> SUFFICES ASSUME NEW p \in P PROVE p[2] \in K /\ p[1] >= d.nq OBVIOUS
  <2>1. PICK k \in K : p = <<d.nq + N(k), k>> BY <1>8
  <2>2. p[1] = d.nq + N(k) /\ p[2] = k BY <2>1
  <2>3. QED BY <1>1, <1>4, <2>2
<1>11. \A k \in K : \E p \in P : p[2] = k
  <2> SUFFICES ASSUME NEW k \in K PROVE \E p \in P : p[2] = k OBVIOUS
  <2>1. <<d.nq + N(k), k>> \in P /\ <<d.nq + N(k), k>>[2] = k BY <1>8
  <2>2. QED BY <2>1
<1>12. \A p, q \in P : p[2] = q[2] => p = q BY <1>8
<1> HIDE DEF e
<1>13. QED BY <1>3, <1>9, <1>10, <1>11, <1>12 DEF e

\* CreateStep and EnqueueStep for one step.
LEMMA CreateOneView ==
    ASSUME NEW d, Good(d), NEW i \in Instances, NEW m \in Steps
    PROVE  LET e == CreateAndEnqueue(d, i, <<m>>)
               k == Len(d.steps) + 1
           IN  /\ Leads(d, e) /\ Good(e) /\ Others(d, e, i)
               /\ Looks(e, i, d.inst[i], Grown(RowsIn(d.steps, i), i, m, k),
                        ItemsIn(d.queue, i) \cup {<<d.nq, k>>}, LettersIn(d.dlq, i))
<1> DEFINE names == <<m>>
           d1 == CreateSteps(d, i, names, "pending")
           e == EnqueueRange(d1, i, Len(d.steps), 1)
           k2 == Len(d.steps) + 1
           R == RowsIn(d.steps, i)
           G == Grown(R, i, m, k2)
<1>1. d \in Database BY DEF Good
<1>2. d.steps \in Seq(WorkflowStep) /\ DOMAIN d.steps = 1..Len(d.steps) /\ Len(d.steps) \in Nat
  BY <1>1, FieldTypes
<1>3. names \in Seq(Steps) /\ Len(names) = 1 /\ names[1] = m OBVIOUS
<1>4. Leads(d, d1) /\ Len(d1.steps) = Len(d.steps) + Len(names) /\ d1.nq = d.nq
  <2>1. "pending" \in StepStatus BY DEF StepStatus
  <2> HIDE DEF names
  <2>2. QED BY <1>3, <2>1, CreateStepsLeads, ZenonT(60)
<1>5. Good(d1) BY <1>4 DEF Leads
<1>6. CreateAndEnqueue(d, i, names) = e BY <1>3 DEF CreateAndEnqueue
<1>7. Leads(d, e) BY <1>3, <1>6, CreateAndEnqueueLeads
<1>8. Good(e) BY <1>7 DEF Leads
<1>9. d1.inst = d.inst /\ d1.queue = d.queue /\ d1.dlq = d.dlq
  BY <1>1 DEF CreateSteps, Database
<1>10. d1.steps[k2] = NewStep(i, m, "pending") /\ \A x \in 1..Len(d.steps) : d1.steps[x] = d.steps[x]
  <2> DEFINE tail == [x \in 1..Len(names) |-> NewStep(i, names[x], "pending")]
  <2>1. tail \in Seq(WorkflowStep) /\ Len(tail) = 1 /\ tail[1] = NewStep(i, m, "pending")
    BY <1>3, NewStepIs
  <2>2. d1.steps = d.steps \o tail BY <1>1 DEF CreateSteps, Database
  <2> HIDE DEF tail
  <2>3. \A x \in 1..Len(d.steps) + Len(tail) :
          (d.steps \o tail)[x] = IF x <= Len(d.steps) THEN d.steps[x] ELSE tail[x - Len(d.steps)]
    BY <1>2, <2>1, ConcatProperties
  <2>4. k2 \in 1..Len(d.steps) + Len(tail) /\ ~(k2 <= Len(d.steps)) /\ k2 - Len(d.steps) = 1
    BY <1>2, <2>1
  <2>5. \A x \in 1..Len(d.steps) : x \in 1..Len(d.steps) + Len(tail) /\ x <= Len(d.steps)
    BY <1>2, <2>1
  <2> HIDE DEF d1, k2
  <2>6. QED BY <2>1, <2>2, <2>3, <2>4, <2>5
<1>11. Queued(d1, e, i, {<<d1.nq, k2>>}) BY <1>2, <1>5, EnqueueOneView
<1> HIDE DEF d1, e, k2, names
<1>12. /\ e.inst = d.inst /\ e.steps = d1.steps /\ e.dlq = d.dlq /\ Others(d1, e, i)
       /\ ItemsIn(e.queue, i) = ItemsIn(d.queue, i) \cup {<<d.nq, k2>>}
  BY <1>4, <1>9, <1>11 DEF Queued
<1>13. k2 \in Nat /\ k2 \notin 1..Len(d.steps) /\ k2 = Len(d1.steps)
       /\ 1..Len(d1.steps) = 1..Len(d.steps) \cup {k2}
  BY <1>2, <1>3, <1>4 DEF k2
<1>14. d1.steps[k2].inst = i BY <1>10, NewStepIs
<1>15. ASSUME NEW h \in Instances \ {i} PROVE RowsIn(d1.steps, h) = RowsIn(d.steps, h)
  <2>1. \A x : IsRow(d1, h, x) <=> IsRow(d, h, x) BY <1>10, <1>13, <1>14 DEF IsRow
  <2>2. \A x : IsRow(d, h, x) => d1.steps[x] = d.steps[x] BY <1>10 DEF IsRow
  <2>3. QED BY <1>5, <2>1, <2>2, SameRowsIn
<1>16. Others(d, d1, i) BY <1>9, <1>15 DEF Others, SameFor
<1>17. Others(d, e, i) BY <1>12, <1>16, OthersTrans
<1>18. RowsIn(d1.steps, i) = G
  <2> DEFINE A == RowsIn(d1.steps, i)
  <2>1. DOMAIN A = Rows(d1, i) /\ (\A k : k \in Rows(d1, i) <=> IsRow(d1, i, k))
        /\ \A k \in Rows(d1, i) : A[k] = d1.steps[k]
    BY <1>5, RowsInIs
  <2>2. DOMAIN R = Rows(d, i) /\ (\A k : k \in Rows(d, i) <=> IsRow(d, i, k))
        /\ \A k \in Rows(d, i) : R[k] = d.steps[k]
    BY RowsInIs
  <2>3. \A k : IsRow(d1, i, k) <=> IsRow(d, i, k) \/ k = k2
    BY <1>10, <1>13, <1>14 DEF IsRow
  <2>4. A = [k \in DOMAIN A |-> A[k]] BY DEF RowsIn
  <2>5. \A k \in DOMAIN R : k # k2 /\ d1.steps[k] = d.steps[k] BY <1>10, <1>13, <2>2 DEF IsRow
  <2> HIDE DEF A, R
  <2>6. DOMAIN A = DOMAIN R \cup {k2} BY <2>1, <2>2, <2>3
  <2>7. \A k \in DOMAIN A : A[k] = IF k = k2 THEN NewStep(i, m, "pending") ELSE R[k]
    BY <1>10, <2>1, <2>2, <2>3, <2>5
  <2>8. QED BY <2>4, <2>6, <2>7 DEF Grown, A
<1>19. Looks(e, i, d.inst[i], G, ItemsIn(d.queue, i) \cup {<<d.nq, k2>>}, LettersIn(d.dlq, i))
  BY <1>12, <1>18 DEF Looks
<1>20. QED BY <1>6, <1>7, <1>8, <1>17, <1>19 DEF names, k2

\* The end of a transaction: an item of the instance is removed.
LEMMA RemoveView ==
    ASSUME NEW d, Good(d), NEW i, NEW id, \A q \in d.queue : q.id = id => q.inst = i
    PROVE  LET e == RemoveFromQueue(d, id)
           IN  /\ Leads(d, e) /\ Good(e) /\ Others(d, e, i)
               /\ Looks(e, i, d.inst[i], RowsIn(d.steps, i),
                        {p \in ItemsIn(d.queue, i) : p[1] # id}, LettersIn(d.dlq, i))
<1> DEFINE e == RemoveFromQueue(d, id)
<1>1. d \in Database BY DEF Good
<1>2. e.inst = d.inst /\ e.steps = d.steps /\ e.dlq = d.dlq
      /\ e.queue = {q \in d.queue : q.id # id}
  BY <1>1 DEF RemoveFromQueue, Database
<1>3. Leads(d, e) /\ Good(e) BY RemoveFromQueueLeads DEF Leads
<1> HIDE DEF e
<1>4. ASSUME NEW h \in Instances \ {i} PROVE ItemsIn(e.queue, h) = ItemsIn(d.queue, h)
  <2>1. ASSUME NEW p PROVE p \in ItemsIn(e.queue, h) <=> p \in ItemsIn(d.queue, h)
    BY <1>2, InItems
  <2>2. QED BY <2>1
<1>5. ItemsIn(e.queue, i) = {p \in ItemsIn(d.queue, i) : p[1] # id}
  <2>1. ASSUME NEW p PROVE p \in ItemsIn(e.queue, i) <=> p \in ItemsIn(d.queue, i) /\ p[1] # id
    <3>1. p \in ItemsIn(e.queue, i) <=>
            \E q \in d.queue : q.id # id /\ q.inst = i /\ p = <<q.id, q.step>>
      BY <1>2, InItems
    <3>2. p \in ItemsIn(d.queue, i) <=> \E q \in d.queue : q.inst = i /\ p = <<q.id, q.step>>
      BY InItems
    <3>3. QED BY <3>1, <3>2
  <2>2. QED BY <2>1
<1>6. QED BY <1>2, <1>3, <1>4, <1>5 DEF Others, SameFor, Looks, e

\* A cancel request is made or deleted.
LEMMA CancelView ==
    ASSUME NEW d, Good(d), NEW h, NEW i \in Instances, NEW kind \in {"cancel", "abort"}
    PROVE  /\ SameFor(d, CreateCancelRequest(d, i, kind), h)
           /\ SameFor(d, DeleteCancelRequest(d, i), h)
           /\ Leads(d, DeleteCancelRequest(d, i)) /\ Good(DeleteCancelRequest(d, i))
<1>1. d \in Database BY DEF Good
<1>2. ASSUME NEW e, NEW v, e = [d EXCEPT !.cancel[i] = v] PROVE SameFor(d, e, h)
  <2>1. e.inst = d.inst /\ e.steps = d.steps /\ e.queue = d.queue /\ e.dlq = d.dlq
    BY <1>1, <1>2 DEF Database
  <2>2. QED BY <2>1 DEF SameFor
<1>3. SameFor(d, d, h) BY DEF SameFor
<1>4. SameFor(d, CreateCancelRequest(d, i, kind), h) BY <1>2, <1>3 DEF CreateCancelRequest
<1>5. SameFor(d, DeleteCancelRequest(d, i), h) BY <1>2 DEF DeleteCancelRequest
<1>6. QED BY <1>4, <1>5, CancelRequestLeads DEF Leads

\* Claiming and releasing an item leave every instance as it is.
LEMMA ClaimView ==
    ASSUME NEW d, Good(d), NEW q \in d.queue, NEW w, NEW h
    PROVE  SameFor(d, Claim(d, q, w), h)
<1> DEFINE e == Claim(d, q, w)
           q2 == [q EXCEPT !.by = w]
<1>1. d \in Database BY DEF Good
<1>2. e.inst = d.inst /\ e.steps = d.steps /\ e.dlq = d.dlq
      /\ e.queue = (d.queue \ {q}) \cup {q2}
  BY <1>1 DEF Claim, Database
<1>3. q \in QueueItem BY <1>1, FieldTypes
<1>4. q2.id = q.id /\ q2.step = q.step /\ q2.inst = q.inst BY <1>3 DEF QueueItem
<1> HIDE DEF e, q2
<1>5. ItemsIn(e.queue, h) = ItemsIn(d.queue, h)
  <2>1. ASSUME NEW p PROVE p \in ItemsIn(e.queue, h) <=> p \in ItemsIn(d.queue, h)
    BY <1>2, <1>4, InItems
  <2>2. QED BY <2>1
<1>6. QED BY <1>2, <1>5 DEF SameFor, e

\* ReleaseQueueItem changes no instance: who holds an item does not count.
LEMMA ReleaseView ==
    ASSUME NEW d, Good(d), NEW id, NEW h
    PROVE  SameFor(d, ReleaseQueueItem(d, id), h)
<1> DEFINE e == ReleaseQueueItem(d, id)
           free(q) == IF q.id = id THEN [q EXCEPT !.by = Nobody] ELSE q
<1>1. d \in Database BY DEF Good
<1>2. e.inst = d.inst /\ e.steps = d.steps /\ e.dlq = d.dlq
      /\ e.queue = {free(q) : q \in d.queue}
  BY <1>1 DEF ReleaseQueueItem, Database
<1>3. d.queue \subseteq QueueItem BY <1>1, FieldTypes
<1>4. \A q \in d.queue : free(q).id = q.id /\ free(q).step = q.step /\ free(q).inst = q.inst
  BY <1>3 DEF QueueItem
<1> HIDE DEF e, free
<1>5. ItemsIn(e.queue, h) = ItemsIn(d.queue, h)
  <2>1. ASSUME NEW p PROVE p \in ItemsIn(e.queue, h) <=> p \in ItemsIn(d.queue, h)
    <3>1. p \in ItemsIn(e.queue, h) <=>
            \E q \in d.queue : free(q).inst = h /\ p = <<free(q).id, free(q).step>>
      BY <1>2, InItems
    <3>2. p \in ItemsIn(d.queue, h) <=> \E q \in d.queue : q.inst = h /\ p = <<q.id, q.step>>
      BY InItems
    <3>3. QED BY <1>4, <3>1, <3>2
  <2>2. QED BY <2>1
<1>6. QED BY <1>2, <1>5 DEF SameFor, e

\* A dead letter for a row of the instance.
LEMMA LetterView ==
    ASSUME NEW d, Good(d), NEW i, NEW k, IsRow(d, i, k)
    PROVE  LET e == CreateDeadLetterRecords(d, {k})
           IN  /\ Leads(d, e) /\ Good(e) /\ Others(d, e, i)
               /\ \E rec : /\ rec.step = k
                           /\ Looks(e, i, d.inst[i], RowsIn(d.steps, i), ItemsIn(d.queue, i),
                                    LettersIn(d.dlq, i) \cup {rec})
<1> DEFINE e == CreateDeadLetterRecords(d, {k})
           N == Cardinality({m \in {k} : m > k})
           rec == [id |-> d.nd + N, inst |-> d.steps[k].inst, step |-> k]
<1>1. d \in Database BY DEF Good
<1>2. k \in 1..Len(d.steps) /\ d.steps[k].inst = i BY DEF IsRow
<1>3. Leads(d, e) /\ Good(e) BY <1>2, CreateDeadLetterRecordsLeads DEF Leads
<1>4. e.inst = d.inst /\ e.steps = d.steps /\ e.queue = d.queue /\ e.dlq = d.dlq \cup {rec}
  BY <1>1 DEF CreateDeadLetterRecords, Database
<1>5. rec.inst = i /\ rec.step = k BY <1>2
<1> HIDE DEF e, rec
<1>6. ASSUME NEW h \in Instances \ {i} PROVE LettersIn(e.dlq, h) = LettersIn(d.dlq, h)
  BY <1>4, <1>5 DEF LettersIn
<1>7. LettersIn(e.dlq, i) = LettersIn(d.dlq, i) \cup {rec} BY <1>4, <1>5 DEF LettersIn
<1>8. Others(d, e, i) BY <1>4, <1>6 DEF Others, SameFor
<1>9. Looks(e, i, d.inst[i], RowsIn(d.steps, i), ItemsIn(d.queue, i), LettersIn(d.dlq, i) \cup {rec})
  BY <1>4, <1>7 DEF Looks
<1>10. QED BY <1>3, <1>5, <1>8, <1>9 DEF e

\* UpdateStep on no row.
LEMMA StatusedNone ==
    ASSUME NEW d, NEW i, NEW st
    PROVE  Statused(RowsIn(d.steps, i), {}, st) = RowsIn(d.steps, i)
<1> DEFINE R == RowsIn(d.steps, i)
<1>1. R = [x \in DOMAIN R |-> R[x]] BY DEF RowsIn
<1> HIDE DEF R
<1>2. Statused(R, {}, st) = R BY <1>1 DEF Statused
<1>3. QED BY <1>2 DEF R

\* PauseActiveStepsAndClearQueue when no row of the instance is to be paused.
LEMMA PauseView ==
    ASSUME NEW d, Good(d), NEW i,
           LET R == RowsIn(d.steps, i) IN \A x \in DOMAIN R : R[x].status \notin PausedByDLQ
    PROVE  LET e == PauseActiveStepsAndClearQueue(d, i)
           IN  /\ Leads(d, e) /\ Good(e) /\ Others(d, e, i)
               /\ Looks(e, i, d.inst[i], RowsIn(d.steps, i), {}, LettersIn(d.dlq, i))
<1> DEFINE e == PauseActiveStepsAndClearQueue(d, i)
           R == RowsIn(d.steps, i)
           K == {k \in Rows(d, i) : d.steps[k].status \in PausedByDLQ}
           d1 == UpdateSteps(d, K, "paused")
<1>1. K = {}
  <2> SUFFICES ASSUME NEW k \in Rows(d, i) PROVE d.steps[k].status \notin PausedByDLQ OBVIOUS
  <2>1. k \in DOMAIN R /\ R[k] = d.steps[k] BY RowsInIs
  <2> HIDE DEF R
  <2>2. R[k].status \notin PausedByDLQ BY <2>1 DEF R
  <2>3. QED BY <2>1, <2>2
<1>2. Good(d1) /\ OnlySteps(d, d1) /\ Others(d, d1, i) /\ RowsIn(d1.steps, i) = R
  <2> HIDE DEF K
  <2>1. \A k \in K : IsRow(d, i, k) BY <1>1
  <2>2. "paused" \in StepStatus BY DEF StepStatus
  <2>3. Good(d1) /\ OnlySteps(d, d1) /\ Others(d, d1, i)
        /\ RowsIn(d1.steps, i) = Statused(R, K, "paused")
    BY <2>1, <2>2, UpdateStepsView
  <2>4. QED BY <1>1, <2>3, StatusedNone
<1>3. Leads(d, e) /\ Good(e) BY PauseLeads DEF Leads
<1>4. e.inst = d1.inst /\ e.steps = d1.steps /\ e.dlq = d1.dlq
      /\ e.queue = {q \in d1.queue : q.inst # i}
  <2> DEFINE Q2 == {q \in d1.queue : q.inst # i}
  <2>1. e = [d1 EXCEPT !.queue = Q2] BY DEF PauseActiveStepsAndClearQueue
  <2>2. d1 \in Database BY <1>2 DEF Good
  <2> HIDE DEF d1, e, Q2
  <2>3. QED BY <2>1, <2>2 DEF Database, Q2
<1> HIDE DEF d1, e
<1>5. ASSUME NEW h \in Instances \ {i} PROVE ItemsIn(e.queue, h) = ItemsIn(d1.queue, h)
  <2>1. ASSUME NEW p PROVE p \in ItemsIn(e.queue, h) <=> p \in ItemsIn(d1.queue, h)
    BY <1>4, InItems
  <2>2. QED BY <2>1
<1>6. ItemsIn(e.queue, i) = {}
  <2>1. \A p : p \notin ItemsIn(e.queue, i) BY <1>4, InItems
  <2>2. QED BY <2>1
<1>7. Others(d1, e, i) BY <1>4, <1>5 DEF Others, SameFor
<1>8. Others(d, e, i) BY <1>2, <1>7, OthersTrans
<1>9. Looks(e, i, d.inst[i], R, {}, LettersIn(d.dlq, i)) BY <1>2, <1>4, <1>6 DEF Looks, OnlySteps
<1>10. QED BY <1>3, <1>8, <1>9 DEF e

\* RequeueDeadLetter of an instance in DLQ state, without joins; P is what is queued.
AfreshRow(row) == [row EXCEPT !.status = "pending", !.retry = 0, !.comp = 0]

\* Reset, the part of RequeueDeadLetter that the three stores share.
LEMMA ResetView ==
    ASSUME NEW d, Good(d), NEW rec \in d.dlq, NEW i, i = rec.inst, d.inst[i] = "dlq"
    PROVE  LET e == Reset(d, rec)
               R == RowsIn(d.steps, i)
           IN  /\ Leads(d, e) /\ Good(e) /\ Others(d, e, i) /\ IsRow(d, i, rec.step) /\ e.nq = d.nq
               /\ Looks(e, i, "running", [R EXCEPT ![rec.step] = AfreshRow(R[rec.step])],
                        ItemsIn(d.queue, i), LettersIn(d.dlq, i) \ {rec})
<1> DEFINE e == Reset(d, rec)
           k == rec.step
           R == RowsIn(d.steps, i)
           R2 == [R EXCEPT ![k] = AfreshRow(R[k])]
           f == [d.steps EXCEPT ![k] = AfreshRow(d.steps[k])]
<1>1. d \in Database BY DEF Good
<1>2. DOMAIN d.steps = 1..Len(d.steps) /\ Len(d.steps) \in Nat /\ d.dlq \subseteq DeadLetter
      /\ d.steps \in Seq(WorkflowStep)
      /\ d.inst \in [Instances -> WorkflowStatus]
  BY <1>1, FieldTypes
<1>3. IsRow(d, i, k) BY DEF Good, SoundLetters, IsRow
<1>4. i \in Instances BY <1>2 DEF DeadLetter
<1>5. Leads(d, e) /\ Good(e) BY ResetLeads DEF Leads
<1>6. /\ e.steps = f /\ e.queue = d.queue /\ e.nq = d.nq /\ e.dlq = d.dlq \ {rec}
      /\ e.inst = [d.inst EXCEPT ![i] = IF @ \in {"failed", "dlq"} THEN "running" ELSE @]
  BY <1>1 DEF Reset, Database, AfreshRow
<1>7. e.inst[i] = "running" /\ \A h \in Instances \ {i} : e.inst[h] = d.inst[h]
  BY <1>2, <1>4, <1>6
<1>8. k \in 1..Len(d.steps) /\ d.steps[k].inst = i /\ d.steps[k] \in WorkflowStep
  BY <1>3, RowName DEF IsRow
<1>9. AfreshRow(d.steps[k]).inst = i BY <1>8 DEF AfreshRow, WorkflowStep
<1>10. Rewritten(d, e, i, f)
  <2>1. DOMAIN f = 1..Len(d.steps) /\ f[k] = AfreshRow(d.steps[k])
        /\ \A x \in 1..Len(d.steps) : x # k => f[x] = d.steps[x]
    BY <1>2, <1>8
  <2> HIDE DEF e, f
  <2>2. DOMAIN e.steps = 1..Len(e.steps) /\ Len(e.steps) \in Nat BY <1>5, FieldTypes DEF Good
  <2>3. Len(e.steps) = Len(d.steps) BY <1>2, <1>6, <2>1, <2>2
  <2>4. \A x \in 1..Len(d.steps) : f[x].inst = d.steps[x].inst BY <1>8, <1>9, <2>1
  <2>5. \A x \in 1..Len(d.steps) : d.steps[x].inst # i => f[x] = d.steps[x] BY <1>8, <2>1
  <2>6. QED BY <1>6, <2>3, <2>4, <2>5 DEF Rewritten
<1>11. /\ \A h \in Instances \ {i} : RowsIn(e.steps, h) = RowsIn(d.steps, h)
       /\ RowsIn(e.steps, i) = [x \in DOMAIN R |-> f[x]]
  <2> HIDE DEF e, f
  <2>1. QED BY <1>5, <1>10, RowsChanged DEF RowsBecome
<1>12. [x \in DOMAIN R |-> f[x]] = R2
  <2>1. ASSUME NEW x \in DOMAIN R PROVE R[x] = d.steps[x] /\ x \in DOMAIN d.steps
    <3>1. R[x] = d.steps[x] /\ x \in 1..Len(d.steps)
      BY AllRowsOf, Zenon
    <3>2. QED BY <1>2, <3>1
  <2>2. R = [x \in DOMAIN R |-> R[x]] BY DEF RowsIn
  <2>3. k \in DOMAIN R BY <1>3, RowsInIs
  <2> HIDE DEF R
  <2>4. R2[k] = AfreshRow(R[k]) /\ \A x \in DOMAIN R : x # k => R2[x] = R[x] BY <2>2, <2>3
  <2>5. R2 = [x \in DOMAIN R |-> R2[x]] OBVIOUS
  <2>7. f[k] = AfreshRow(d.steps[k]) /\ \A x \in DOMAIN d.steps : x # k => f[x] = d.steps[x]
    BY <1>2, <1>8
  <2> HIDE DEF R2, f
  <2>8. ASSUME NEW x \in DOMAIN R PROVE f[x] = R2[x] BY <2>1, <2>3, <2>4, <2>7
  <2>6. QED BY <2>5, <2>8
<1> HIDE DEF e, f
<1>13. LettersIn(e.dlq, i) = LettersIn(d.dlq, i) \ {rec} BY <1>6 DEF LettersIn
<1>14. \A h \in Instances \ {i} : LettersIn(e.dlq, h) = LettersIn(d.dlq, h) BY <1>6 DEF LettersIn
<1>15. Others(d, e, i) BY <1>6, <1>7, <1>11, <1>14 DEF Others, SameFor
<1>16. Looks(e, i, "running", R2, ItemsIn(d.queue, i), LettersIn(d.dlq, i) \ {rec})
  BY <1>6, <1>7, <1>11, <1>12, <1>13 DEF Looks
<1>17. QED BY <1>3, <1>5, <1>6, <1>15, <1>16 DEF e

----------------------------------------------------------------------------
(* The outcome of a step *)

\* Instance i runs; it is at row k, with no item but id, and c are its calls.
Runs(d, i, k, c, id) ==
    LET R == RowsIn(d.steps, i)
    IN  /\ Good(d) /\ i \in Instances /\ d.inst[i] = "running"
        /\ Ordered(R) /\ Fresh(R, c) /\ c \in [Steps -> Calls]
        /\ At(i, R, c, k, {"pending", "running", "failed"})
        /\ ItemsIn(d.queue, i) \subseteq {<<id, k>>} /\ id < d.nq /\ id \in Nat
        /\ LettersIn(d.dlq, i) = {}

\* Once item id is removed the instance is as it should be after an operation from d to e.
After(d, e, i, id, c2) ==
    /\ Leads(d, e) /\ Others(d, e, i)
    /\ Valid(i, e.inst[i], RowsIn(e.steps, i), {p \in ItemsIn(e.queue, i) : p[1] # id},
             LettersIn(e.dlq, i), c2)

\* Calls of other steps stay, and those of step n are y2.
CallsOf(c, c2, n, y2) ==
    /\ c2 \in [Steps -> Calls] /\ y2 = c2[n]
    /\ \A m \in Steps : m # n => c2[m] = c[m]

\* The same, by what the instance looks like.
LEMMA AfterLooks ==
    ASSUME NEW d, NEW e, NEW i, NEW id, NEW c2, NEW s, NEW R, NEW Q, NEW L, NEW Q2,
           Leads(d, e), Others(d, e, i), Looks(e, i, s, R, Q, L), {p \in Q : p[1] # id} = Q2,
           Valid(i, s, R, Q2, L, c2)
    PROVE  After(d, e, i, id, c2)
BY DEF After, Looks

\* The rows of an instance are well typed.
LEMMA RowsTyped ==
    ASSUME NEW d, Good(d), NEW i, NEW c \in [Steps -> Calls]
    PROVE  Typed(RowsIn(d.steps, i), c)
<1>1. \A x \in DOMAIN RowsIn(d.steps, i) :
        RowsIn(d.steps, i)[x] = d.steps[x] /\ d.steps[x] \in WorkflowStep
  BY AllRowsOf, Zenon
<1>2. QED BY <1>1 DEF Typed

\* The row the instance is at.
LEMMA RunsRow ==
    ASSUME NEW d, NEW i, NEW k, NEW c, NEW id, Runs(d, i, k, c, id)
    PROVE  LET R == RowsIn(d.steps, i)
           IN  /\ IsRow(d, i, k) /\ k \in DOMAIN R /\ R[k] = d.steps[k] /\ R[k] \in WorkflowStep
               /\ R[k].name \in Steps /\ c[R[k].name] \in Calls /\ Before(i, R, c, k)
               /\ Active(i, R[k], c[R[k].name], {"pending", "running", "failed"})
               /\ R = [x \in DOMAIN R |-> R[x]]
<1> DEFINE R == RowsIn(d.steps, i)
<1>1. k \in DOMAIN R /\ Before(i, R, c, k)
      /\ Active(i, R[k], c[R[k].name], {"pending", "running", "failed"})
  BY DEF Runs, At, Before
<1>2. R[k] = d.steps[k] /\ d.steps[k] \in WorkflowStep /\ IsRow(d, i, k)
  <2>1. Good(d) BY DEF Runs
  <2>2. QED BY <1>1, <2>1, RowsOf
<1>3. R[k].name \in Steps BY <1>2 DEF WorkflowStep
<1>4. c[R[k].name] \in Calls BY <1>3 DEF Runs
<1>5. R = [x \in DOMAIN R |-> R[x]] BY DEF RowsIn
<1>6. QED BY <1>1, <1>2, <1>3, <1>4, <1>5

\* Row k is replaced by r.
Put(R, R2, k, r) ==
    DOMAIN R2 = DOMAIN R /\ R2[k] = r /\ \A x \in DOMAIN R : x # k => R2[x] = R[x]

\* EXCEPT is such a change.
LEMMA PutIs ==
    ASSUME NEW R, R = [x \in DOMAIN R |-> R[x]], NEW k \in DOMAIN R, NEW r
    PROVE  Put(R, [R EXCEPT ![k] = r], k, r)
BY DEF Put

\* Row k gets another status, or other counters; the calls of its step change.
LEMMA RowMoves ==
    ASSUME NEW R, NEW k, NEW r, NEW n, NEW R2, k \in DOMAIN R, n = R[k].name, r.name = n,
           NEW c, NEW c2, NEW y2, CallsOf(c, c2, n, y2), Put(R, R2, k, r)
    PROVE  Moved(R, c, R2, c2, k) /\ R2[k] = r /\ c2[R2[k].name] = y2
<1>1. DOMAIN R2 = DOMAIN R /\ R2[k] = r /\ (\A x \in DOMAIN R : x # k => R2[x] = R[x])
  BY DEF Put
<1>2. Moved(R, c, R2, c2, k) BY <1>1 DEF Moved, CallsOf
<1>3. QED BY <1>1, <1>2 DEF CallsOf

\* Marking the step as running.
LEMMA MarkedRuns ==
    ASSUME NEW d, NEW i, NEW k, NEW c, NEW id, Runs(d, i, k, c, id)
    PROVE  LET e == Running(d, k)
           IN  /\ Runs(e, i, k, c, id) /\ Leads(d, e) /\ Others(d, e, i)
               /\ ItemsIn(e.queue, i) = ItemsIn(d.queue, i) /\ e.cancel = d.cancel
               /\ RowsIn(e.steps, i)[k].retry = RowsIn(d.steps, i)[k].retry
               /\ RowsIn(e.steps, i)[k].name = RowsIn(d.steps, i)[k].name
               /\ e.steps[k].name = d.steps[k].name
<1> DEFINE e == Running(d, k)
           R == RowsIn(d.steps, i)
           r == WithStatus(R[k], "running")
           R2 == [R EXCEPT ![k] = r]
           n == R[k].name
<1>1. Good(d) /\ i \in Instances /\ d.inst[i] = "running" /\ Ordered(R) /\ Fresh(R, c)
      /\ c \in [Steps -> Calls] /\ ItemsIn(d.queue, i) \subseteq {<<id, k>>} /\ id < d.nq
      /\ LettersIn(d.dlq, i) = {} /\ id \in Nat
  BY DEF Runs
<1>2. /\ IsRow(d, i, k) /\ k \in DOMAIN R /\ R[k] \in WorkflowStep /\ n \in Steps /\ c[n] \in Calls
      /\ R[k] = d.steps[k]
      /\ Before(i, R, c, k) /\ Active(i, R[k], c[n], {"pending", "running", "failed"})
      /\ R = [x \in DOMAIN R |-> R[x]]
  BY RunsRow
<1>3. "running" \in StepStatus \ {"failed"} BY DEF StepStatus
<1>4. /\ Leads(d, e) /\ Good(e) /\ OnlySteps(d, e) /\ Others(d, e, i)
      /\ RowsIn(e.steps, i) = R2
  BY <1>1, <1>2, <1>3, UpdateStepView DEF Running
<1>5. r.name = n /\ r.retry = R[k].retry BY <1>2, <1>3, WithStatusIs
<1>6. Active(i, r, c[n], {"running"}) BY <1>2, <1>3, RowMarked
<1>7. CallsOf(c, c, n, c[n]) BY <1>1 DEF CallsOf
<1>a. Put(R, R2, k, r)
  <2> HIDE DEF R, r
  <2>1. QED BY <1>2, PutIs
<1> HIDE DEF R, r, R2
<1>8. Moved(R, c, R2, c, k) /\ R2[k] = r /\ c[R2[k].name] = c[n]
  <2>1. k \in DOMAIN R /\ r.name = n BY <1>2, <1>5
  <2> HIDE DEF n
  <2>2. n = R[k].name BY DEF n
  <2>3. QED BY <2>1, <2>2, <1>7, <1>a, RowMoves, SMT
<1>9. Ordered(R2) /\ Fresh(R2, c) /\ At(i, R2, c, k, {"running"})
  BY <1>1, <1>2, <1>6, <1>8, AtMoves
<1>10. At(i, R2, c, k, {"pending", "running", "failed"}) BY <1>9 DEF At, Active
<1>11. e.inst = d.inst /\ e.queue = d.queue /\ e.dlq = d.dlq /\ e.nq = d.nq /\ e.cancel = d.cancel
  BY <1>4 DEF OnlySteps
<1>12. Runs(e, i, k, c, id) BY <1>1, <1>4, <1>9, <1>10, <1>11 DEF Runs
<1>13. e.steps[k].name = d.steps[k].name
  <2> HIDE DEF e
  <2>1. IsRow(e, i, k) /\ Good(e) BY <1>2, <1>4, <1>1, RowStays
  <2>2. k \in DOMAIN RowsIn(e.steps, i) BY <2>1, RowsInIs
  <2>3. RowsIn(e.steps, i)[k] = e.steps[k] BY <2>1, <2>2, RowsOf
  <2>4. QED BY <1>2, <1>4, <1>5, <1>8, <2>3
<1>14. QED BY <1>4, <1>5, <1>8, <1>11, <1>12, <1>13 DEF R

\* At most one step follows.
LEMMA OneFollower ==
    ASSUME Sequential, NEW n \in Steps, ToSet(Def[n].next) # {}
    PROVE  \E m \in Steps : ToSet(Def[n].next) = {m}
<1> DEFINE S == ToSet(Def[n].next)
<1>1. S \subseteq Steps BY DefTypes
<1>2. JoinSteps = {} BY NoJoins
<1>3. S \ JoinSteps = S BY <1>2
<1>4. Cardinality(S) <= 1 BY <1>3, BuilderAssumption
<1>5. IsFiniteSet(S) BY <1>1, FS_Subset, DefinitionAssumption
<1>6. Cardinality(S) \in Nat /\ Cardinality(S) # 0 BY <1>5, FS_CardinalityType, FS_EmptySet
<1>7. Cardinality(S) = 1 BY <1>4, <1>6
<1> HIDE DEF S
<1>8. \E m : S = {m} BY <1>5, <1>7, FS_Singleton
<1>9. QED BY <1>1, <1>8 DEF S

\* The items that are left when item id goes.
LEMMA ItemsLeft ==
    ASSUME NEW Q, NEW id \in Nat, NEW k, Q \subseteq {<<id, k>>}, NEW new \in Nat, id < new, NEW k2
    PROVE  /\ {p \in Q : p[1] # id} = {}
           /\ {p \in Q \cup {<<new, k2>>} : p[1] # id} = {<<new, k2>>}
<1>1. \A p \in Q : p[1] = id
  <2>1. <<id, k>>[1] = id OBVIOUS
  <2>2. QED BY <2>1
<1>2. <<new, k2>>[1] # id OBVIOUS
<1>3. QED BY <1>1, <1>2

\* What follows a step, by the result of its condition.
NextOf(n, next) == IF next THEN ToSet(Def[n].next) ELSE {Def[n].else} \ {NoStep}

AllCompleted(d, i) ==
    \A x \in DOMAIN RowsIn(d.steps, i) : RowsIn(d.steps, i)[x].status = "completed"

\* The last step is done: handleStepSuccess ends the workflow or starts the follower.
SuccessContent(d, i, k, followers) ==
    LET d1 == UpdateStep(d, k, "completed")
    IN  IF followers = {} THEN UpdateInstanceStatus(d1, i, "completed")
        ELSE CreateAndEnqueue(d1, i, SetToSeq(followers))

\* handleStepSuccess of a sequential workflow, whose rows are all completed, is this.
LEMMA SuccessIs ==
    ASSUME Sequential, NEW d, Good(d), NEW i \in Instances, NEW k, IsRow(d, i, k),
           d.inst[i] = "running", NEW next \in BOOLEAN,
           AllCompleted(UpdateStep(d, k, "completed"), i)
    PROVE  handleStepSuccess(d, i, k, next)
             = SuccessContent(d, i, k, NextOf(d.steps[k].name, next))
<1> DEFINE n == d.steps[k].name
           F == NextOf(n, next)
           d1 == UpdateStep(d, k, "completed")
           R == RowsIn(d1.steps, i)
<1>1. n \in Steps BY RowName
<1>2. Good(d1) /\ OnlySteps(d, d1) BY UpdateStepView DEF StepStatus
<1>3. d1.inst[i] = "running" BY <1>2 DEF OnlySteps
<1>4. \A x \in Rows(d1, i) : d1.steps[x].status = "completed"
  <2> SUFFICES ASSUME NEW x \in Rows(d1, i) PROVE d1.steps[x].status = "completed" OBVIOUS
  <2> HIDE DEF d1
  <2>1. x \in DOMAIN R /\ R[x] = d1.steps[x] BY <1>2, RowsInIs
  <2>2. R[x].status = "completed" BY <2>1 DEF d1, AllCompleted
  <2>3. QED BY <2>1, <2>2
<1>5. (IF next THEN F \ JoinSteps ELSE F) = F
  <2>1. JoinSteps = {} BY NoJoins
  <2>2. QED BY <2>1
<1>6. handleStepSuccess(d, i, k, next) =
        continueWorkflow(notifyJoinSteps(prepareJoin(d1, i, n), i, n, TRUE), i, F = {},
                         IF next THEN F \ JoinSteps ELSE F)
  BY DEF handleStepSuccess, NextOf
<1> HIDE DEF d1, F, n
<1>7. prepareJoin(d1, i, n) = d1 /\ notifyJoinSteps(d1, i, n, TRUE) = d1
  BY <1>1, <1>2, NothingNotified
<1>8. handleStepSuccess(d, i, k, next) = continueWorkflow(d1, i, F = {}, F) BY <1>5, <1>6, <1>7
<1>9. ~hasUnfinishedSteps(d1, i) /\ ~hasFailedOrRolledBackSteps(d1, i)
  BY <1>4 DEF hasUnfinishedSteps, hasFailedOrRolledBackSteps, HasStatus
<1>10. CASE F = {}
  <2>1. continueWorkflow(d1, i, F = {}, F) = UpdateInstanceStatus(d1, i, "completed")
    BY <1>9, <1>10 DEF continueWorkflow, completeWorkflow
  <2>2. QED BY <1>8, <1>10, <2>1 DEF SuccessContent, d1, F, n
<1>11. CASE F # {}
  <2>1. continueWorkflow(d1, i, F = {}, F) = CreateAndEnqueue(d1, i, SetToSeq(F))
    BY <1>3, <1>11 DEF continueWorkflow, enqueueNextSteps
  <2>2. QED BY <1>8, <1>11, <2>1 DEF SuccessContent, d1, F, n
<1>12. QED BY <1>10, <1>11

\* handleStepSuccess leaves the instance completed or at the follower.
LEMMA SuccessAfter ==
    ASSUME Sequential, NEW d, NEW i, NEW k, NEW c, NEW id, Runs(d, i, k, c, id),
           NEW c2, NEW y2, CallsOf(c, c2, d.steps[k].name, y2),
           Called(c[d.steps[k].name], y2, {IF Def[d.steps[k].name].type = "task" THEN 1 ELSE 0}),
           NEW next \in BOOLEAN
    PROVE  After(d, handleStepSuccess(d, i, k, next), i, id, c2)
<1> DEFINE n == d.steps[k].name
           F == NextOf(n, next)
           d1 == UpdateStep(d, k, "completed")
           R == RowsIn(d.steps, i)
           r == WithStatus(R[k], "completed")
           R2 == [R EXCEPT ![k] = r]
           e == handleStepSuccess(d, i, k, next)
<1>1. Good(d) /\ i \in Instances /\ d.inst[i] = "running" /\ Ordered(R) /\ Fresh(R, c)
      /\ c \in [Steps -> Calls] /\ ItemsIn(d.queue, i) \subseteq {<<id, k>>} /\ id < d.nq
      /\ LettersIn(d.dlq, i) = {} /\ id \in Nat
  BY DEF Runs
<1>2. /\ IsRow(d, i, k) /\ k \in DOMAIN R /\ R[k] \in WorkflowStep /\ n \in Steps /\ c[n] \in Calls
      /\ R[k] = d.steps[k] /\ n = R[k].name
      /\ Before(i, R, c, k) /\ Active(i, R[k], c[n], {"pending", "running", "failed"})
      /\ R = [x \in DOMAIN R |-> R[x]]
  BY RunsRow
<1>3. "completed" \in StepStatus BY DEF StepStatus
<1>4. /\ Leads(d, d1) /\ Good(d1) /\ OnlySteps(d, d1) /\ Others(d, d1, i)
      /\ RowsIn(d1.steps, i) = R2
  BY <1>1, <1>2, <1>3, UpdateStepView
<1>5. r.name = n BY <1>2, <1>3, WithStatusIs
<1>6. y2 \in Calls BY <1>2 DEF CallsOf
<1>7. Done(i, r, y2) BY <1>2, <1>6, RowCompletes
<1>c. Put(R, R2, k, r)
  <2> HIDE DEF R, r
  <2>1. QED BY <1>2, PutIs
<1> HIDE DEF R, r, n, R2
<1>9. Moved(R, c, R2, c2, k) /\ R2[k] = r /\ c2[R2[k].name] = y2
  <2>1. k \in DOMAIN R /\ n = R[k].name /\ CallsOf(c, c2, n, y2) BY <1>2 DEF n
  <2>2. QED BY <2>1, <1>5, <1>c, RowMoves, SMT
<1>10. /\ Ordered(R2) /\ Fresh(R2, c2) /\ k \in DOMAIN R2
       /\ \A x \in DOMAIN R2 : x # k => x < k
       /\ \A x \in DOMAIN R2 : Done(i, R2[x], c2[R2[x].name])
  BY <1>1, <1>2, <1>7, <1>9, AllDone
<1>11. \A x \in DOMAIN R2 : R2[x].status = "completed" BY <1>10 DEF Done
<1>b. AllCompleted(d1, i) BY <1>4, <1>11 DEF AllCompleted
<1>12. e = SuccessContent(d, i, k, F) BY <1>1, <1>2, <1>b, SuccessIs DEF n
<1>13. d1.inst = d.inst /\ d1.queue = d.queue /\ d1.dlq = d.dlq /\ d1.nq = d.nq
       /\ Len(d1.steps) = Len(d.steps)
  BY <1>4 DEF OnlySteps
<1> HIDE DEF d1, e
<1> DEFINE Q == ItemsIn(d.queue, i)
<1>14. d.nq \in Nat /\ Len(d.steps) \in Nat BY <1>1, FieldTypes DEF Good
<1>15. CASE F = {}
  <2> DEFINE f == UpdateInstanceStatus(d1, i, "completed")
  <2>1. e = f BY <1>12, <1>15 DEF SuccessContent, d1
  <2>2. "completed" \in WorkflowStatus BY DEF WorkflowStatus
  <2>3. /\ Leads(d1, f) /\ Others(d1, f, i)
        /\ Looks(f, i, "completed", R2, Q, {})
    BY <1>1, <1>4, <1>13, <2>2, InstanceStatusView
  <2> HIDE DEF f, Q
  <2>4. Leads(d, f) /\ Others(d, f, i) BY <1>1, <1>4, <2>3, LeadsTrans, OthersTrans
  <2>5. {p \in Q : p[1] # id} = {} BY <1>1, <1>14, ItemsLeft DEF Q
  <2>6. Valid(i, "completed", R2, {}, {}, c2) BY <1>10, CompletedValid
  <2>7. QED BY <2>1, <2>3, <2>4, <2>5, <2>6, AfterLooks DEF e
<1>16. CASE F # {}
  <2>1. PICK m \in Steps : F = {m} /\ m \in Followers(Def, n)
    <3>1. CASE next
      <4>1. F = ToSet(Def[n].next) BY <3>1 DEF NextOf
      <4>2. PICK m \in Steps : ToSet(Def[n].next) = {m} BY <1>2, <1>16, <4>1, OneFollower
      <4>3. QED BY <4>1, <4>2 DEF Followers
    <3>2. CASE ~next
      <4>1. F = {Def[n].else} \ {NoStep} BY <3>2 DEF NextOf
      <4>2. Def[n].else \in Steps \cup {NoStep} BY <1>2, DefTypes
      <4>3. QED BY <1>16, <4>1, <4>2 DEF Followers
    <3>3. QED BY <3>1, <3>2
  <2> DEFINE f == CreateAndEnqueue(d1, i, <<m>>)
             k2 == Len(d.steps) + 1
             G == Grown(R2, i, m, k2)
  <2> HIDE DEF F
  <2>2. e = f BY <1>12, <1>16, <2>1, OneName DEF SuccessContent, d1
  <2>3. /\ Leads(d1, f) /\ Others(d1, f, i)
        /\ Looks(f, i, "running", G, Q \cup {<<d.nq, k2>>}, {})
    BY <1>1, <1>4, <1>13, CreateOneView
  <2>4. k2 \in Nat /\ k2 > k BY <1>2, <1>14 DEF IsRow
  <2> HIDE DEF f, Q, k2
  <2>5. Leads(d, f) /\ Others(d, f, i) BY <1>1, <1>4, <2>3, LeadsTrans, OthersTrans
  <2>6. {p \in Q \cup {<<d.nq, k2>>} : p[1] # id} = {<<d.nq, k2>>}
    BY <1>1, <1>14, ItemsLeft DEF Q
  <2>7. R2[k].name = n BY <1>5, <1>9
  <2>8. Valid(i, "running", G, {<<d.nq, k2>>}, {}, c2)
    BY <1>1, <1>10, <2>1, <2>4, <2>7, NextValid
  <2> HIDE DEF G
  <2>9. QED BY <2>2, <2>3, <2>5, <2>6, <2>8, AfterLooks DEF e
<1>17. QED BY <1>15, <1>16 DEF e

\* The row the instance is at gets status st: what is left, with the calls c2.
Marked(d, e, i, k, st, c, c2, y2) ==
    LET R  == RowsIn(d.steps, i)
        R2 == RowsIn(e.steps, i)
    IN  /\ Leads(d, e) /\ Good(e) /\ Others(d, e, i) /\ OnlySteps(d, e) /\ IsRow(e, i, k)
        /\ Moved(R, c, R2, c2, k) /\ R2[k] = WithStatus(R[k], st) /\ R2[k] \in WorkflowStep
        /\ R2[k].name = d.steps[k].name /\ e.steps[k].name = d.steps[k].name
        /\ c2[R2[k].name] = y2 /\ y2 \in Calls

\* UpdateStep on a row of the instance marks it.
LEMMA RowIsMarked ==
    ASSUME NEW d, NEW i, NEW k, Good(d), IsRow(d, i, k), NEW c,
           NEW c2, NEW y2, CallsOf(c, c2, d.steps[k].name, y2), NEW st \in StepStatus
    PROVE  Marked(d, UpdateStep(d, k, st), i, k, st, c, c2, y2)
<1> DEFINE e == UpdateStep(d, k, st)
           n == d.steps[k].name
           R == RowsIn(d.steps, i)
           r == WithStatus(R[k], st)
           R2 == [R EXCEPT ![k] = r]
<1>1. Good(d) OBVIOUS
<1>2. /\ IsRow(d, i, k) /\ k \in DOMAIN R /\ R[k] \in WorkflowStep /\ n \in Steps
      /\ R[k] = d.steps[k] /\ n = R[k].name /\ R = [x \in DOMAIN R |-> R[x]]
  <2>1. k \in DOMAIN R BY RowsInIs
  <2>2. R[k] = d.steps[k] BY <2>1, RowsOf
  <2>3. d.steps[k] \in WorkflowStep /\ d.steps[k].name \in Steps BY RowName
  <2>4. R = [x \in DOMAIN R |-> R[x]] BY DEF RowsIn
  <2>5. QED BY <2>1, <2>2, <2>3, <2>4
<1>3. /\ Leads(d, e) /\ Good(e) /\ OnlySteps(d, e) /\ Others(d, e, i) /\ IsRow(e, i, k)
      /\ RowsIn(e.steps, i) = R2
  BY <1>1, <1>2, UpdateStepView
<1>4. r.name = n /\ r \in WorkflowStep BY <1>2, WithStatusIs
<1>5. Put(R, R2, k, r)
  <2> HIDE DEF R, r
  <2>1. QED BY <1>2, PutIs
<1>6. Moved(R, c, R2, c2, k) /\ R2[k] = r /\ c2[R2[k].name] = y2
  <2>1. CallsOf(c, c2, n, y2) OBVIOUS
  <2> HIDE DEF R, r, R2, n
  <2>2. QED BY <1>2, <1>4, <1>5, <2>1, RowMoves, SMT
<1>7. y2 \in Calls BY <1>2 DEF CallsOf
<1> HIDE DEF R, r, R2, n, e
<1>8. e.steps[k] = R2[k]
  <2>1. k \in DOMAIN RowsIn(e.steps, i) BY <1>3, RowsInIs
  <2>2. QED BY <1>3, <2>1, RowsOf
<1>9. Marked(d, e, i, k, st, c, c2, y2)
  <2>1. e.steps[k].name = n /\ R2[k].name = n /\ R2[k] \in WorkflowStep BY <1>4, <1>6, <1>8
  <2>2. QED BY <2>1, <1>3, <1>6, <1>7 DEF Marked, R, r, n
<1>10. QED BY <1>9 DEF e

\* The same for the row a running instance is at.
LEMMA StepMarked ==
    ASSUME NEW d, NEW i, NEW k, NEW c, NEW id, Runs(d, i, k, c, id),
           NEW c2, NEW y2, CallsOf(c, c2, d.steps[k].name, y2), NEW st \in StepStatus
    PROVE  Marked(d, UpdateStep(d, k, st), i, k, st, c, c2, y2)
<1>1. Good(d) BY DEF Runs
<1>2. IsRow(d, i, k) BY RunsRow
<1>3. QED BY <1>1, <1>2, RowIsMarked

\* handleStepFailure with retries left: the step is queued again.
LEMMA RetryAfter ==
    ASSUME NEW d, NEW i, NEW k, NEW c, NEW id, Runs(d, i, k, c, id),
           NEW c2, NEW y2, CallsOf(c, c2, d.steps[k].name, y2),
           Called(c[d.steps[k].name], y2, {0}), MayRetry(d.steps[k].name, d.steps[k].retry)
    PROVE  After(d, retryStep(d, i, k), i, id, c2)
<1> DEFINE d1 == UpdateStep(d, k, "failed")
           e == EnqueueStep(d1, i, k)
           n == d.steps[k].name
           R == RowsIn(d.steps, i)
           R2 == RowsIn(d1.steps, i)
           Q == ItemsIn(d.queue, i)
<1>1. Good(d) /\ i \in Instances /\ d.inst[i] = "running" /\ Ordered(R) /\ Fresh(R, c)
      /\ Q \subseteq {<<id, k>>} /\ id < d.nq /\ LettersIn(d.dlq, i) = {} /\ id \in Nat
  BY DEF Runs
<1>2. /\ IsRow(d, i, k) /\ k \in DOMAIN R /\ R[k] \in WorkflowStep /\ n \in Steps /\ c[n] \in Calls
      /\ R[k] = d.steps[k] /\ n = R[k].name
      /\ Before(i, R, c, k) /\ Active(i, R[k], c[n], {"pending", "running", "failed"})
      /\ R = [x \in DOMAIN R |-> R[x]]
  BY RunsRow
<1>3. Marked(d, d1, i, k, "failed", c, c2, y2) BY StepMarked DEF StepStatus
<1> HIDE DEF d1
<1>4. /\ Leads(d, d1) /\ Good(d1) /\ Others(d, d1, i) /\ OnlySteps(d, d1) /\ IsRow(d1, i, k)
      /\ Moved(R, c, R2, c2, k) /\ R2[k] = WithStatus(R[k], "failed") /\ R2[k] \in WorkflowStep
      /\ c2[R2[k].name] = y2 /\ y2 \in Calls
  BY <1>3 DEF Marked
<1>5. d1.inst = d.inst /\ d1.queue = d.queue /\ d1.dlq = d.dlq /\ d1.nq = d.nq
  BY <1>4 DEF OnlySteps
<1>6. Active(i, WithStatus(R[k], "failed"), y2, {"failed"}) BY <1>2, <1>4, RowRetries
<1>7. Leads(d1, e) /\ Queued(d1, e, i, {<<d.nq, k>>}) BY <1>4, <1>5, EnqueueStepView
<1>8. retryStep(d, i, k) = e BY DEF retryStep, d1
<1> HIDE DEF e, R, R2, Q, n
<1>9. Ordered(R2) /\ Fresh(R2, c2) /\ At(i, R2, c2, k, {"failed"})
  BY <1>1, <1>2, <1>4, <1>6, AtMoves
<1>10. Looks(e, i, "running", R2, Q \cup {<<d.nq, k>>}, {}) /\ Others(d1, e, i)
  BY <1>1, <1>5, <1>7 DEF Looks, Queued, R2, Q
<1>11. Leads(d, e) /\ Others(d, e, i) BY <1>1, <1>4, <1>7, <1>10, LeadsTrans, OthersTrans
<1>12. {p \in Q \cup {<<d.nq, k>>} : p[1] # id} = {<<d.nq, k>>}
  <2>1. d.nq \in Nat BY <1>1, FieldTypes DEF Good
  <2>2. QED BY <1>1, <2>1, ItemsLeft
<1>13. Valid(i, "running", R2, {<<d.nq, k>>}, {}, c2) BY <1>9, RunningValid
<1>14. QED BY <1>8, <1>10, <1>11, <1>12, <1>13, AfterLooks

\* handleStepFailure with a DLQ: the instance is paused with one dead letter.
LEMMA PauseAfter ==
    ASSUME Sequential, NEW d, NEW i, NEW k, NEW c, NEW id, Runs(d, i, k, c, id),
           NEW c2, NEW y2, CallsOf(c, c2, d.steps[k].name, y2),
           Called(c[d.steps[k].name], y2, {0}), DLQEnabled[i]
    PROVE  After(d, moveToDLQ(d, i, k), i, id, c2)
<1> DEFINE d1 == UpdateStep(d, k, "paused")
           d2 == CreateDeadLetterRecords(d1, {k})
           d3 == PauseActiveStepsAndClearQueue(d2, i)
           e == UpdateInstanceStatus(d3, i, "dlq")
           n == d.steps[k].name
           R == RowsIn(d.steps, i)
           R2 == RowsIn(d1.steps, i)
<1>1. Good(d) /\ i \in Instances /\ d.inst[i] = "running" /\ Ordered(R) /\ Fresh(R, c)
      /\ LettersIn(d.dlq, i) = {}
  BY DEF Runs
<1>2. /\ IsRow(d, i, k) /\ k \in DOMAIN R /\ R[k] \in WorkflowStep /\ n \in Steps /\ c[n] \in Calls
      /\ R[k] = d.steps[k] /\ n = R[k].name
      /\ Before(i, R, c, k) /\ Active(i, R[k], c[n], {"pending", "running", "failed"})
      /\ R = [x \in DOMAIN R |-> R[x]]
  BY RunsRow
<1>3. Marked(d, d1, i, k, "paused", c, c2, y2) BY StepMarked DEF StepStatus
<1>a. "paused" \in StepStatus \ {"failed"} BY DEF StepStatus
<1> HIDE DEF d1
<1>4. /\ Leads(d, d1) /\ Good(d1) /\ Others(d, d1, i) /\ OnlySteps(d, d1) /\ IsRow(d1, i, k)
      /\ Moved(R, c, R2, c2, k) /\ R2[k] = WithStatus(R[k], "paused") /\ R2[k] \in WorkflowStep
      /\ c2[R2[k].name] = y2 /\ y2 \in Calls
  BY <1>3 DEF Marked
<1>5. d1.inst = d.inst /\ d1.queue = d.queue /\ d1.dlq = d.dlq /\ d1.nq = d.nq
  BY <1>4 DEF OnlySteps
<1>6. Active(i, WithStatus(R[k], "paused"), y2, {"paused"}) BY <1>2, <1>4, <1>a, RowMarked
<1>7. moveToDLQ(d, i, k) = e
  <2>1. notifyJoinSteps(d1, i, n, FALSE) = d1 BY <1>1, <1>2, <1>4, NothingNotified
  <2>2. QED BY <2>1 DEF moveToDLQ, d1
<1>8. PICK rec : /\ Leads(d1, d2) /\ Good(d2) /\ Others(d1, d2, i) /\ rec.step = k
                 /\ Looks(d2, i, d1.inst[i], R2, ItemsIn(d1.queue, i),
                          LettersIn(d1.dlq, i) \cup {rec})
  BY <1>4, LetterView
<1> HIDE DEF d2, R, n
<1>9. Ordered(R2) /\ Fresh(R2, c2) /\ At(i, R2, c2, k, {"paused"})
  <2> HIDE DEF R2
  <2>1. QED BY <1>1, <1>2, <1>4, <1>6, AtMoves
<1>10. RowsIn(d2.steps, i) = R2 /\ d2.inst[i] = "running" /\ LettersIn(d2.dlq, i) = {rec}
  BY <1>1, <1>5, <1>8 DEF Looks
<1> HIDE DEF R2
<1>11. \A x \in DOMAIN R2 : R2[x].status \notin PausedByDLQ
  <2>1. \A x \in DOMAIN R2 : R2[x].status \in {"paused", "completed"}
    BY <1>9 DEF At, Before, Active, Done
  <2>2. QED BY <2>1 DEF PausedByDLQ
<1>12. /\ Leads(d2, d3) /\ Good(d3) /\ Others(d2, d3, i)
       /\ Looks(d3, i, "running", R2, {}, {rec})
  BY <1>8, <1>10, <1>11, PauseView
<1> HIDE DEF d3
<1>13. /\ Leads(d3, e) /\ Good(e) /\ Others(d3, e, i) /\ Looks(e, i, "dlq", R2, {}, {rec})
  <2>1. "dlq" \in WorkflowStatus BY DEF WorkflowStatus
  <2>2. RowsIn(d3.steps, i) = R2 /\ ItemsIn(d3.queue, i) = {} /\ LettersIn(d3.dlq, i) = {rec}
    BY <1>12 DEF Looks
  <2>3. QED BY <1>1, <1>12, <2>1, <2>2, InstanceStatusView
<1> HIDE DEF e
<1>14. Leads(d, e)
  <2>1. Leads(d, d2) BY <1>1, <1>4, <1>8, LeadsTrans
  <2>2. Leads(d, d3) BY <1>1, <1>12, <2>1, LeadsTrans
  <2>3. QED BY <1>1, <1>13, <2>2, LeadsTrans
<1>15. Others(d, e, i) BY <1>4, <1>8, <1>12, <1>13, OthersTrans
<1>16. Valid(i, "dlq", R2, {}, {rec}, c2) BY <1>8, <1>9, PausedValid
<1>17. {p \in {} : p[1] # id} = {} OBVIOUS
<1>18. QED BY <1>7, <1>13, <1>14, <1>15, <1>16, <1>17, AfterLooks

\* The row of each step is its only one.
LEMMA LastRows ==
    ASSUME NEW d, Good(d), NEW i, Ordered(RowsIn(d.steps, i))
    PROVE  LET R == RowsIn(d.steps, i)
           IN  /\ \A x \in DOMAIN R : /\ LastRow(d, i, R[x].name) = x
                                      /\ LastStatus(d, i)[R[x].name] = R[x].status
               /\ \A n : LastRow(d, i, n) \in DOMAIN R => R[LastRow(d, i, n)].name = n
<1> DEFINE R == RowsIn(d.steps, i)
           Of(n) == {k \in Rows(d, i) : d.steps[k].name = n}
<1>1. DOMAIN R = Rows(d, i) /\ \A x \in DOMAIN R : R[x] = d.steps[x] BY RowsInIs
<1>2. DOMAIN R \in SUBSET Nat /\ \A x \in DOMAIN R : R[x].name \in Steps BY RowNumbers
<1>3. \A n : LastRow(d, i, n) = IF Of(n) = {} THEN 0 ELSE Max(Of(n)) BY DEF LastRow
<1> HIDE DEF R
<1>4. ASSUME NEW x \in DOMAIN R
      PROVE  /\ LastRow(d, i, R[x].name) = x /\ LastStatus(d, i)[R[x].name] = R[x].status
             /\ Of(R[x].name) = {x}
  <2> DEFINE n == R[x].name
  <2>1. Of(n) = {x}
    <3>1. \A y \in DOMAIN R : R[y].name = n => y = x BY RowsDiffer DEF R
    <3>2. \A y \in Rows(d, i) : d.steps[y].name = n <=> y = x BY <1>1, <3>1
    <3>3. QED BY <1>1, <3>2
  <2>2. Max({x}) = x
    <3>1. {x} \in SUBSET Nat /\ x \in {x} /\ \A y \in {x} : y <= x BY <1>2
    <3>2. QED BY <3>1, GreatestIsMax
  <2> HIDE DEF Of
  <2>3. LastRow(d, i, n) = x BY <1>3, <2>1, <2>2
  <2>4. x # 0
    <3>1. x \in 1..Len(d.steps) BY RowsOf DEF R
    <3>2. QED BY <3>1
  <2>5. n \in Steps BY <1>2
  <2> HIDE DEF n
  <2>6. LastStatus(d, i)[n] = d.steps[x].status BY <2>3, <2>4, <2>5 DEF LastStatus
  <2>7. QED BY <1>1, <2>1, <2>3, <2>6 DEF n
<1>5. ASSUME NEW n, LastRow(d, i, n) \in DOMAIN R PROVE R[LastRow(d, i, n)].name = n
  <2>1. LastRow(d, i, n) # 0
    <3>1. LastRow(d, i, n) \in 1..Len(d.steps) BY <1>5, RowsOf DEF R
    <3>2. QED BY <3>1
  <2>2. PICK y : y \in Of(n) BY <1>3, <2>1
  <2>3. y \in DOMAIN R /\ R[y].name = n BY <1>1, <2>2
  <2>4. QED BY <1>4, <2>3
<1>6. QED BY <1>4, <1>5 DEF R

\* So the rows rollbackSteps works on are those of the steps it is given.
LEMMA RowsOfNames ==
    ASSUME NEW d, Good(d), NEW i, Ordered(RowsIn(d.steps, i)), NEW names
    PROVE  rollbackSteps(d, i, names)
             = rollbackRows(d, i, {x \in DOMAIN RowsIn(d.steps, i) :
                                       RowsIn(d.steps, i)[x].name \in names})
<1> DEFINE R == RowsIn(d.steps, i)
           K == {x \in DOMAIN R : R[x].name \in names}
           A == {LastRow(d, i, n) : n \in names} \cap Rows(d, i)
<1>1. DOMAIN R = Rows(d, i) BY RowsInIs
<1>2. /\ \A x \in DOMAIN R : LastRow(d, i, R[x].name) = x
      /\ \A n : LastRow(d, i, n) \in DOMAIN R => R[LastRow(d, i, n)].name = n
  BY LastRows
<1> HIDE DEF R
<1>3. A = K
  <2>1. ASSUME NEW x \in A PROVE x \in K
    <3>1. PICK n \in names : x = LastRow(d, i, n) OBVIOUS
    <3>2. x \in DOMAIN R BY <1>1
    <3>3. R[x].name = n BY <1>2, <3>1, <3>2
    <3>4. QED BY <3>1, <3>2, <3>3
  <2>2. ASSUME NEW x \in K PROVE x \in A
    <3>1. x \in DOMAIN R /\ R[x].name \in names OBVIOUS
    <3>2. LastRow(d, i, R[x].name) = x BY <1>2, <3>1
    <3>3. QED BY <1>1, <3>1, <3>2
  <2> HIDE DEF A, K
  <2>3. QED BY <2>1, <2>2
<1>4. rollbackSteps(d, i, names) = rollbackRows(d, i, A) BY DEF rollbackSteps
<1>5. QED BY <1>3, <1>4 DEF K, R

\* No dead letters are written.
LEMMA NoLetters ==
    ASSUME NEW d, Good(d) PROVE CreateDeadLetterRecords(d, {}) = d
<1> DEFINE e == CreateDeadLetterRecords(d, {})
           new == {[id |-> d.nd + Cardinality({m \in {} : m > k}),
                    inst |-> d.steps[k].inst, step |-> k] : k \in {}}
<1>1. d \in Database BY DEF Good
<1>2. e = [d EXCEPT !.dlq = d.dlq \cup new, !.nd = d.nd + Cardinality({})]
  BY DEF CreateDeadLetterRecords
<1>3. new = {} OBVIOUS
<1>4. Cardinality({}) = 0 BY FS_EmptySet
<1>5. d.nd + 0 = d.nd /\ d.dlq \cup {} = d.dlq BY <1>1, FieldTypes
<1> HIDE DEF new
<1>6. e = [d EXCEPT !.dlq = d.dlq, !.nd = d.nd] BY <1>2, <1>3, <1>4, <1>5
<1> HIDE DEF e
<1>7. e = d BY <1>1, <1>6 DEF Database
<1>8. QED BY <1>7 DEF e

\* rollbackStep on rows that have not been compensated: none has spent its budget.
LEMMA RollbackView ==
    ASSUME Sequential, NEW d, Good(d), NEW i \in Instances, NEW R, R = RowsIn(d.steps, i),
           NEW K \in SUBSET DOMAIN R, \A x \in K : R[x].comp = 0
    PROVE  LET e == rollbackRows(d, i, K)
           IN  /\ Leads(d, e) /\ Good(e) /\ Others(d, e, i)
               /\ \E P : /\ Looks(e, i, d.inst[i], RolledBack(R, K), ItemsIn(d.queue, i) \cup P,
                                  LettersIn(d.dlq, i))
                         /\ ItemsFor(R, K, P) /\ \A p \in P : p[1] >= d.nq
<1> DEFINE OnF(k) == Def[d.steps[k].name].onFailure
           Plain == {k \in K : OnF(k) = NoStep}
           Spent == {k \in K \ Plain : CompensationRetryCount(d, k) >= Def[OnF(k)].maxRetries}
           Undo == K \ (Plain \cup Spent)
           count == [k \in Undo |-> CompensationRetryCount(d, k) + 1]
           d0 == UpdateSteps(d, Plain, "rolled_back")
           d1 == UpdateSteps(d0, Spent, "failed")
           d2 == CreateDeadLetterRecords(d1, Spent)
           d3 == UpdateStepsCompensationRetry(d2, Undo, count)
           e == EnqueueRows(d3, i, Undo)
<1>1. \A x \in DOMAIN R : /\ R[x] = d.steps[x] /\ d.steps[x] \in WorkflowStep /\ IsRow(d, i, x)
                          /\ d.steps[x].name \in Steps
  <2>1. ASSUME NEW x \in DOMAIN R PROVE R[x] = d.steps[x] /\ d.steps[x] \in WorkflowStep /\ IsRow(d, i, x)
    BY RowsOf
  <2>2. QED BY <2>1 DEF WorkflowStep
<1>2. \A k \in K : CompensationRetryCount(d, k) = 0 BY <1>1 DEF CompensationRetryCount
<1>3. \A k \in K : OnF(k) # NoStep => Def[OnF(k)].maxRetries > 0 /\ Def[OnF(k)].maxRetries \in Nat
  <2> SUFFICES ASSUME NEW k \in K, OnF(k) # NoStep
               PROVE  Def[OnF(k)].maxRetries > 0 /\ Def[OnF(k)].maxRetries \in Nat
    OBVIOUS
  <2>1. OnF(k) \in Steps BY <1>1, DefTypes
  <2>2. Def[OnF(k)].maxRetries \in Nat BY <2>1, DefTypes
  <2>3. Def[OnF(k)].maxRetries > 0 BY <1>1 DEF Sequential, SequentialDef
  <2>4. QED BY <2>2, <2>3
<1>4. Spent = {}
  <2> SUFFICES ASSUME NEW k \in Spent PROVE FALSE OBVIOUS
  <2>1. k \in K /\ OnF(k) # NoStep /\ CompensationRetryCount(d, k) >= Def[OnF(k)].maxRetries OBVIOUS
  <2> HIDE DEF OnF
  <2>2. QED BY <1>2, <1>3, <2>1
<1>5. /\ Undo = K \ Plain
      /\ count = [k \in Undo |-> 1]
  <2>1. Undo = K \ Plain BY <1>4
  <2>2. \A k \in Undo : CompensationRetryCount(d, k) + 1 = 1 BY <1>2
  <2>3. QED BY <2>1, <2>2
<1>6. rollbackRows(d, i, K) = e BY DEF rollbackRows
<1>7. /\ Leads(d, d0) /\ Good(d0) /\ OnlySteps(d, d0) /\ Others(d, d0, i)
      /\ RowsIn(d0.steps, i) = Statused(R, Plain, "rolled_back")
  <2>1. \A k \in Plain : IsRow(d, i, k) BY <1>1
  <2>2. "rolled_back" \in StepStatus BY DEF StepStatus
  <2> HIDE DEF Plain
  <2>3. QED BY <2>1, <2>2, UpdateStepsView
<1> HIDE DEF d0
<1>8. /\ Leads(d0, d1) /\ Good(d1) /\ OnlySteps(d0, d1) /\ Others(d0, d1, i)
      /\ RowsIn(d1.steps, i) = RowsIn(d0.steps, i)
  <2>1. "failed" \in StepStatus /\ \A k \in {} : IsRow(d0, i, k) BY DEF StepStatus
  <2>2. LET x == UpdateSteps(d0, {}, "failed")
        IN  /\ Leads(d0, x) /\ Good(x) /\ OnlySteps(d0, x) /\ Others(d0, x, i)
            /\ RowsIn(x.steps, i) = Statused(RowsIn(d0.steps, i), {}, "failed")
    BY <1>7, <2>1, UpdateStepsView
  <2>3. QED BY <1>4, <2>2, StatusedNone
<1>9. d2 = d1 BY <1>4, <1>8, NoLetters
<1> HIDE DEF d1, d2, Spent
<1>10. Leads(d, d1) BY <1>7, <1>8, LeadsTrans
<1>11. /\ Leads(d1, d3) /\ Good(d3) /\ OnlySteps(d1, d3) /\ Others(d1, d3, i)
       /\ RowsIn(d3.steps, i) = Recounted(RowsIn(d1.steps, i), Undo, count)
  <2>1. \A k \in Undo : IsRow(d1, i, k) BY <1>1, <1>10, RowStays
  <2>2. count \in [Undo -> Nat] BY <1>5
  <2> HIDE DEF Undo, count
  <2>3. QED BY <1>8, <1>9, <2>1, <2>2, CompensationRetryView
<1> HIDE DEF d3
<1>12. Leads(d, d3) BY <1>10, <1>11, LeadsTrans
<1>13. PICK P : /\ Leads(d3, e) /\ Good(e) /\ Queued(d3, e, i, P)
                /\ \A p \in P : p[2] \in Undo /\ p[1] >= d3.nq
                /\ \A k \in Undo : \E p \in P : p[2] = k
                /\ \A p, q \in P : p[2] = q[2] => p = q
  <2>1. \A k \in Undo : IsRow(d3, i, k) BY <1>1, <1>12, RowStays
  <2> HIDE DEF Undo
  <2>2. QED BY <1>11, <2>1, EnqueueRowsView
<1> HIDE DEF e
<1>14. Leads(d, e) BY <1>12, <1>13, LeadsTrans
<1>15. Others(d, e, i)
  <2>1. Others(d3, e, i) BY <1>13 DEF Queued
  <2>2. QED BY <1>7, <1>8, <1>11, <2>1, OthersTrans
<1>16. RowsIn(e.steps, i) = RolledBack(R, K)
  <2>1. RowsIn(e.steps, i) = Recounted(Statused(R, Plain, "rolled_back"), Undo, count)
    BY <1>7, <1>8, <1>11, <1>13 DEF Queued
  <2>2. ASSUME NEW x \in DOMAIN R
        PROVE  (IF x \in Undo THEN [(IF x \in Plain THEN WithStatus(R[x], "rolled_back") ELSE R[x])
                                      EXCEPT !.comp = count[x], !.status = "compensation"]
                ELSE IF x \in Plain THEN WithStatus(R[x], "rolled_back") ELSE R[x])
               = IF x \in K THEN RolledBackRow(R[x]) ELSE R[x]
    <3>1. x \in Plain <=> x \in K /\ Def[R[x].name].onFailure = NoStep BY <1>1
    <3>2. x \in Undo <=> x \in K /\ Def[R[x].name].onFailure # NoStep BY <1>5, <3>1
    <3>3. x \in Undo => count[x] = 1 BY <1>5
    <3> HIDE DEF Plain, Undo, count
    <3>4. QED BY <3>1, <3>2, <3>3 DEF RolledBackRow
  <2> HIDE DEF Plain, Undo, count
  <2>3. Recounted(Statused(R, Plain, "rolled_back"), Undo, count) = RolledBack(R, K)
    BY <2>2 DEF Recounted, Statused, RolledBack
  <2>4. QED BY <2>1, <2>3
<1>17. d3.inst = d.inst /\ d3.queue = d.queue /\ d3.dlq = d.dlq /\ d3.nq = d.nq
  BY <1>7, <1>8, <1>11 DEF OnlySteps
<1>18. Looks(e, i, d.inst[i], RolledBack(R, K), ItemsIn(d.queue, i) \cup P, LettersIn(d.dlq, i))
  BY <1>13, <1>16, <1>17 DEF Queued, Looks
<1>19. ItemsFor(R, K, P)
  <2>1. \A x \in DOMAIN R : x \in Undo <=> x \in K /\ Def[R[x].name].onFailure # NoStep
    BY <1>1, <1>5
  <2>2. Undo \subseteq DOMAIN R OBVIOUS
  <2> HIDE DEF Undo
  <2>3. QED BY <1>13, <2>1, <2>2 DEF ItemsFor
<1>20. \A p \in P : p[1] >= d.nq BY <1>13, <1>17
<1>21. QED BY <1>6, <1>13, <1>14, <1>15, <1>18, <1>19, <1>20

\* Step k, the last one, is given up; its item is id.
GivenUp(d, i, k, c, id) ==
    LET R == RowsIn(d.steps, i)
        y == c[R[k].name]
    IN  /\ Good(d) /\ i \in Instances
        /\ Ordered(R) /\ Fresh(R, c) /\ c \in [Steps -> Calls] /\ Before(i, R, c, k)
        /\ Bounds(i, R[k], y) /\ y.undo = 0 /\ y.undone = 0
        /\ R[k].comp = 0 /\ R[k].status \in {"failed", "skipped"}
        /\ ItemsIn(d.queue, i) \subseteq {<<id, k>>} /\ id < d.nq /\ id \in Nat
        /\ LettersIn(d.dlq, i) = {}

\* What comes before may have changed the instance only.
LEMMA AfterTrans ==
    ASSUME NEW d, NEW e, NEW f, NEW i, NEW id, NEW c, Good(d), Leads(d, e), Others(d, e, i),
           After(e, f, i, id, c)
    PROVE  After(d, f, i, id, c)
<1>1. Leads(e, f) /\ Others(e, f, i) BY DEF After
<1>2. Leads(d, f) /\ Others(d, f, i) BY <1>1, LeadsTrans, OthersTrans
<1>3. QED BY <1>2 DEF After

\* Nothing changes for the instance afterwards.
LEMMA AfterSame ==
    ASSUME NEW d, NEW e, NEW f, NEW i, NEW id, NEW c, Good(d), After(d, e, i, id, c),
           Leads(e, f), Others(e, f, i), SameFor(e, f, i)
    PROVE  After(d, f, i, id, c)
<1>1. Leads(d, e) /\ Others(d, e, i) BY DEF After
<1>2. Leads(d, f) /\ Others(d, f, i) BY <1>1, LeadsTrans, OthersTrans
<1>3. QED BY <1>2 DEF After, SameFor

\* All rows were never compensated.
LEMMA GivenUpRows ==
    ASSUME NEW d, NEW i, NEW k, NEW c, NEW id, GivenUp(d, i, k, c, id), NEW R,
           R = RowsIn(d.steps, i), NEW x \in DOMAIN R
    PROVE  /\ R[x].comp = 0
           /\ x # k => x < k /\ R[x].status = "completed" /\ Bounds(i, R[x], c[R[x].name])
<1>1. CASE x = k BY <1>1 DEF GivenUp
<1>2. CASE x # k
  <2>1. Done(i, R[x], c[R[x].name]) /\ x < k BY <1>2 DEF GivenUp, Before
  <2>2. R[x].name \in Steps /\ c \in [Steps -> Calls]
    <3>1. Ordered(R) /\ c \in [Steps -> Calls] BY DEF GivenUp
    <3>2. QED BY <3>1, RowNumbers
  <2>3. Bounds(i, R[x], c[R[x].name]) BY <2>1, <2>2, DoneBounds
  <2>4. QED BY <1>2, <2>1, <2>3 DEF Done
<1>3. QED BY <1>1, <1>2

\* The rollback of rows K is queued and the instance stops with status s.
LEMMA StopAfter ==
    ASSUME Sequential, NEW d, NEW i, NEW k, NEW c, NEW id, GivenUp(d, i, k, c, id),
           NEW s \in {"failed", "cancelled"}, NEW R, R = RowsIn(d.steps, i), NEW K \in SUBSET DOMAIN R,
           Reaches(s, R, k, K)
    PROVE  After(d, UpdateInstanceStatus(rollbackRows(d, i, K), i, s), i, id, c)
<1> DEFINE d1 == rollbackRows(d, i, K)
           e == UpdateInstanceStatus(d1, i, s)
           Q == ItemsIn(d.queue, i)
           y == c[R[k].name]
<1>1. /\ Good(d) /\ i \in Instances /\ Ordered(R) /\ Fresh(R, c) /\ c \in [Steps -> Calls]
      /\ Before(i, R, c, k) /\ Bounds(i, R[k], y) /\ y.undo = 0 /\ y.undone = 0
      /\ R[k].status \in {"failed", "skipped"} /\ Q \subseteq {<<id, k>>} /\ id < d.nq
      /\ id \in Nat /\ LettersIn(d.dlq, i) = {}
  BY DEF GivenUp
<1>2. \A x \in K : R[x].comp = 0 BY GivenUpRows
<1>3. PICK P : /\ Leads(d, d1) /\ Good(d1) /\ Others(d, d1, i)
               /\ Looks(d1, i, d.inst[i], RolledBack(R, K), Q \cup P, LettersIn(d.dlq, i))
               /\ ItemsFor(R, K, P) /\ \A p \in P : p[1] >= d.nq
  BY <1>1, <1>2, RollbackView
<1> HIDE DEF d1
<1>4. RowsIn(d1.steps, i) = RolledBack(R, K) /\ ItemsIn(d1.queue, i) = Q \cup P
      /\ LettersIn(d1.dlq, i) = {}
  BY <1>1, <1>3 DEF Looks
<1>5. /\ Leads(d1, e) /\ Others(d1, e, i) /\ Looks(e, i, s, RolledBack(R, K), Q \cup P, {})
  <2>1. s \in WorkflowStatus BY DEF WorkflowStatus
  <2>2. Good(d1) /\ i \in Instances BY <1>1, <1>3
  <2>3. /\ Leads(d1, e) /\ Others(d1, e, i)
        /\ Looks(e, i, s, RowsIn(d1.steps, i), ItemsIn(d1.queue, i), LettersIn(d1.dlq, i))
    BY <2>1, <2>2, InstanceStatusView
  <2> HIDE DEF e, Q
  <2>4. QED BY <1>4, <2>3
<1> HIDE DEF e
<1>6. {p \in Q \cup P : p[1] # id} = P
  <2>1. d.nq \in Nat BY <1>1, FieldTypes DEF Good
  <2>2. \A p \in P : p[1] # id BY <1>1, <1>3, <2>1
  <2>3. \A p \in Q : p[1] = id
    <3>1. <<id, k>>[1] = id OBVIOUS
    <3>2. QED BY <1>1, <3>1
  <2>4. QED BY <2>2, <2>3
<1>7. Typed(R, c) BY <1>1, RowsTyped
<1>8. Valid(i, s, RolledBack(R, K), P, {}, c)
  <2>1. K \subseteq DOMAIN R OBVIOUS
  <2>2. QED BY <1>1, <1>3, <1>7, <2>1, StoppedValid
<1>9. Leads(d, e) /\ Others(d, e, i) BY <1>1, <1>3, <1>5, LeadsTrans, OthersTrans
<1>10. QED BY <1>5, <1>6, <1>8, <1>9, AfterLooks DEF e, d1

\* The step is failed or skipped: it is given up.
LEMMA StepGivenUp ==
    ASSUME NEW d, NEW i, NEW k, NEW c, NEW id, Runs(d, i, k, c, id),
           NEW c2, NEW y2, CallsOf(c, c2, d.steps[k].name, y2),
           Called(c[d.steps[k].name], y2, {0, 1}), y2.ok > 0 => Def[d.steps[k].name].type = "task",
           NEW st \in {"failed", "skipped"}
    PROVE  GivenUp(UpdateStep(d, k, st), i, k, c2, id)
<1> DEFINE d1 == UpdateStep(d, k, st)
           n == d.steps[k].name
           R == RowsIn(d.steps, i)
           R2 == RowsIn(d1.steps, i)
<1>1. /\ Good(d) /\ i \in Instances /\ Ordered(R) /\ Fresh(R, c) /\ LettersIn(d.dlq, i) = {}
      /\ ItemsIn(d.queue, i) \subseteq {<<id, k>>} /\ id < d.nq /\ id \in Nat
  BY DEF Runs
<1>2. /\ IsRow(d, i, k) /\ k \in DOMAIN R /\ R[k] \in WorkflowStep /\ n \in Steps /\ c[n] \in Calls
      /\ R[k] = d.steps[k] /\ n = R[k].name
      /\ Before(i, R, c, k) /\ Active(i, R[k], c[n], {"pending", "running", "failed"})
      /\ R = [x \in DOMAIN R |-> R[x]]
  BY RunsRow
<1>3. st \in StepStatus BY DEF StepStatus
<1>4. Marked(d, d1, i, k, st, c, c2, y2) BY <1>3, StepMarked
<1> HIDE DEF d1
<1>5. /\ Good(d1) /\ OnlySteps(d, d1) /\ Moved(R, c, R2, c2, k)
      /\ R2[k] = WithStatus(R[k], st) /\ R2[k].name = n /\ c2[R2[k].name] = y2 /\ y2 \in Calls
  BY <1>4 DEF Marked
<1>6. d1.inst = d.inst /\ d1.queue = d.queue /\ d1.dlq = d.dlq /\ d1.nq = d.nq
  BY <1>5 DEF OnlySteps
<1>7. c2 \in [Steps -> Calls] BY DEF CallsOf
<1> HIDE DEF R, R2, n
<1>8. Ordered(R2) /\ Fresh(R2, c2) /\ Before(i, R2, c2, k)
  BY <1>1, <1>2, <1>5, MovedKeeps, MovedBefore
<1>9. R2[k].status = st /\ R2[k].comp = R[k].comp BY <1>2, <1>3, <1>5, WithStatusIs
<1>10. Bounds(i, R2[k], y2)
  <2>1. Called(c[n], y2, {0, 1}) /\ (y2.ok > 0 => Def[R[k].name].type = "task") BY <1>2 DEF n
  <2>2. R2[k].name = R[k].name BY <1>2, <1>5
  <2>3. QED BY <1>2, <1>5, <2>1, <2>2, RowEnds
<1>11. R[k].comp = 0 /\ y2.undo = 0 /\ y2.undone = 0
  <2>1. Called(c[n], y2, {0, 1}) BY DEF n
  <2>2. QED BY <1>2, <2>1 DEF Active, Called
<1>12. GivenUp(d1, i, k, c2, id)
  BY <1>1, <1>5, <1>6, <1>7, <1>8, <1>9, <1>10, <1>11 DEF GivenUp, R2
<1>13. QED BY <1>12 DEF d1

\* handleStepFailure without a DLQ: the instance fails and is rolled back to the save point.
LEMMA FailAfter ==
    ASSUME Sequential, NEW d, NEW i, NEW k, NEW c, NEW id, Runs(d, i, k, c, id),
           NEW c2, NEW y2, CallsOf(c, c2, d.steps[k].name, y2),
           Called(c[d.steps[k].name], y2, {0}), ~IsSavePoint(d.steps[k].name)
    PROVE  After(d, failWorkflow(d, i, k), i, id, c2)
<1> DEFINE d1 == UpdateStep(d, k, "failed")
           n == d.steps[k].name
           R == RowsIn(d1.steps, i)
           last == LastStatus(d1, i)
           K == ChainRows(R, n, findNearestSavePoint(n), last)
           names == rollbackStepChain(n, findNearestSavePoint(n), last)
           e == UpdateInstanceStatus(rollbackRows(d1, i, K), i, "failed")
<1>1. Good(d) /\ i \in Instances BY DEF Runs
<1>2. n \in Steps /\ IsRow(d, i, k) BY RunsRow
<1>3. Marked(d, d1, i, k, "failed", c, c2, y2) BY StepMarked DEF StepStatus
<1>4. GivenUp(d1, i, k, c2, id)
  <2>1. Called(c[n], y2, {0, 1}) /\ y2.ok = 0 BY DEF Called
  <2>2. y2.ok > 0 => Def[d.steps[k].name].type = "task" BY <2>1
  <2>3. "failed" \in {"failed", "skipped"} OBVIOUS
  <2>4. QED BY <2>1, <2>2, <2>3, StepGivenUp
<1>5. Leads(d, d1) /\ Good(d1) /\ Others(d, d1, i) /\ R[k].name = n BY <1>3 DEF Marked
<1>6. Ordered(R) /\ Before(i, R, c2, k) BY <1>4 DEF GivenUp
<1>7. failWorkflow(d, i, k) = UpdateInstanceStatus(rollbackToSavePointOrRoot(d1, i, n), i, "failed")
  <2>1. /\ replaceVirtualStep(d1, i, n, FALSE) = d1 /\ notifyJoinSteps(d1, i, n, FALSE) = d1
        /\ stopParallelBranchesInFork(d1, i, n) = d1
    BY <1>1, <1>2, <1>5, NothingNotified
  <2>2. QED BY <2>1 DEF failWorkflow
<1> HIDE DEF d1
<1>8. rollbackToSavePointOrRoot(d1, i, n) = rollbackRows(d1, i, K)
  <2>1. rollbackToSavePointOrRoot(d1, i, n) = rollbackSteps(d1, i, names)
    BY DEF rollbackToSavePointOrRoot
  <2>2. K = {x \in DOMAIN R : R[x].name \in names} BY DEF ChainRows
  <2> HIDE DEF names, K
  <2>3. QED BY <1>5, <1>6, <2>1, <2>2, RowsOfNames
<1>9. \A x \in DOMAIN R : last[R[x].name] = R[x].status BY <1>5, <1>6, LastRows
<1>10. K \in SUBSET DOMAIN R BY DEF ChainRows
<1>11. Reaches("failed", R, k, K)
  <2>1. K = ChainRows(R, R[k].name, findNearestSavePoint(R[k].name), last) BY <1>5
  <2>2. ~IsSavePoint(R[k].name) BY <1>5
  <2> HIDE DEF R, K, last
  <2>3. QED BY <1>6, <1>9, <2>1, <2>2, FailureReaches
<1>12. After(d1, e, i, id, c2)
  <2> HIDE DEF K, n
  <2>1. QED BY <1>4, <1>10, <1>11, StopAfter
<1>13. After(d, e, i, id, c2) BY <1>1, <1>5, <1>12, AfterTrans
<1>14. QED BY <1>7, <1>8, <1>13

\* handleStepFailure, whichever way it goes.
LEMMA FailureAfter ==
    ASSUME Sequential, NEW d, NEW i, NEW k, NEW c, NEW id, Runs(d, i, k, c, id),
           NEW c2, NEW y2, CallsOf(c, c2, d.steps[k].name, y2),
           Called(c[d.steps[k].name], y2, {0}), ~IsSavePoint(d.steps[k].name),
           NEW retry, retry = d.steps[k].retry
    PROVE  After(d, handleStepFailure(d, i, k, retry), i, id, c2)
<1>1. CASE MayRetry(d.steps[k].name, retry)
  <2>1. handleStepFailure(d, i, k, retry) = retryStep(d, i, k) BY <1>1 DEF handleStepFailure
  <2>2. QED BY <1>1, <2>1, RetryAfter
<1>2. CASE ~MayRetry(d.steps[k].name, retry) /\ DLQEnabled[i]
  <2>1. handleStepFailure(d, i, k, retry) = moveToDLQ(d, i, k) BY <1>2 DEF handleStepFailure
  <2>2. QED BY <1>2, <2>1, PauseAfter
<1>3. CASE ~MayRetry(d.steps[k].name, retry) /\ ~DLQEnabled[i]
  <2>1. handleStepFailure(d, i, k, retry) = failWorkflow(d, i, k) BY <1>3 DEF handleStepFailure
  <2>2. QED BY <2>1, FailAfter
<1>4. QED BY <1>1, <1>2, <1>3

\* UpdateStep on no row.
LEMMA NoUpdate ==
    ASSUME NEW d, Good(d), NEW st \in StepStatus PROVE UpdateSteps(d, {}, st) = d
<1> DEFINE e == UpdateSteps(d, {}, st)
<1>1. d \in Database BY DEF Good
<1>2. e = [d EXCEPT !.steps = [k \in DOMAIN d.steps |-> d.steps[k]]] BY DEF UpdateSteps
<1>3. [k \in DOMAIN d.steps |-> d.steps[k]] = d.steps
  <2>1. d.steps \in Seq(WorkflowStep) BY <1>1, FieldTypes
  <2>2. d.steps \in [1..Len(d.steps) -> WorkflowStep] BY <2>1
  <2>3. QED BY <2>2
<1>4. e = [d EXCEPT !.steps = d.steps] BY <1>2, <1>3
<1> HIDE DEF e
<1>5. e = d BY <1>1, <1>4 DEF Database
<1>6. QED BY <1>5 DEF e

\* A step that waits for its retry is given up as it is.
LEMMA FailedGivenUp ==
    ASSUME NEW d, NEW i, NEW k, NEW c, NEW id, Runs(d, i, k, c, id),
           NEW c2, NEW y2, CallsOf(c, c2, d.steps[k].name, y2),
           Called(c[d.steps[k].name], y2, {0, 1}), y2.ok > 0 => Def[d.steps[k].name].type = "task",
           d.steps[k].status = "failed"
    PROVE  GivenUp(d, i, k, c2, id)
<1> DEFINE n == d.steps[k].name
           R == RowsIn(d.steps, i)
<1>1. /\ Good(d) /\ i \in Instances /\ Ordered(R) /\ Fresh(R, c) /\ LettersIn(d.dlq, i) = {}
      /\ ItemsIn(d.queue, i) \subseteq {<<id, k>>} /\ id < d.nq /\ id \in Nat
  BY DEF Runs
<1>2. /\ IsRow(d, i, k) /\ k \in DOMAIN R /\ R[k] \in WorkflowStep /\ n \in Steps /\ c[n] \in Calls
      /\ R[k] = d.steps[k] /\ n = R[k].name
      /\ Before(i, R, c, k) /\ Active(i, R[k], c[n], {"pending", "running", "failed"})
      /\ R = [x \in DOMAIN R |-> R[x]]
  BY RunsRow
<1>3. Put(R, R, k, R[k]) BY DEF Put
<1>4. c2 \in [Steps -> Calls] /\ y2 \in Calls BY <1>2 DEF CallsOf
<1>5. CallsOf(c, c2, n, y2) /\ Called(c[n], y2, {0, 1}) /\ (y2.ok > 0 => Def[n].type = "task")
      /\ R[k].status = "failed"
  BY <1>2
<1> HIDE DEF R, n
<1>6. Moved(R, c, R, c2, k) /\ c2[R[k].name] = y2
  <2> DEFINE r == R[k]
  <2>1. r.name = n /\ n = R[k].name /\ k \in DOMAIN R BY <1>2
  <2>2. Put(R, R, k, r) BY <1>3
  <2> HIDE DEF r
  <2>3. QED BY <1>5, <2>1, <2>2, RowMoves, SMT
<1>7. Ordered(R) /\ Fresh(R, c2) /\ Before(i, R, c2, k)
  BY <1>1, <1>2, <1>6, MovedKeeps, MovedBefore
<1>8. Bounds(i, R[k], y2) BY <1>2, <1>4, <1>5, RowEnds
<1>9. R[k].comp = 0 /\ y2.undo = 0 /\ y2.undone = 0 BY <1>2, <1>5 DEF Active, Called
<1>10. QED BY <1>1, <1>4, <1>5, <1>6, <1>7, <1>8, <1>9 DEF GivenUp, R

\* A new status of the instance leaves the rest.
LEMMA GivenUpStays ==
    ASSUME NEW d, NEW i, NEW k, NEW c, NEW id, GivenUp(d, i, k, c, id), NEW s \in WorkflowStatus
    PROVE  LET e == UpdateInstanceStatus(d, i, s)
           IN  /\ Leads(d, e) /\ Good(e) /\ Others(d, e, i) /\ GivenUp(e, i, k, c, id)
               /\ e.steps = d.steps
<1> DEFINE e == UpdateInstanceStatus(d, i, s)
<1>1. Good(d) /\ i \in Instances BY DEF GivenUp
<1>2. /\ Leads(d, e) /\ Good(e) /\ Others(d, e, i)
      /\ Looks(e, i, s, RowsIn(d.steps, i), ItemsIn(d.queue, i), LettersIn(d.dlq, i))
      /\ e.steps = d.steps
  BY <1>1, InstanceStatusView
<1>3. e.nq = d.nq BY <1>1 DEF UpdateInstanceStatus, Good, Database
<1> HIDE DEF e
<1>4. GivenUp(e, i, k, c, id) BY <1>2, <1>3 DEF GivenUp, Looks
<1>5. QED BY <1>2, <1>4 DEF e

\* Nothing is completed: there is nothing to roll back.
LEMMA NothingDone ==
    ASSUME Sequential, NEW d, NEW i, NEW k, NEW c, NEW id, GivenUp(d, i, k, c, id),
           \A x \in Rows(d, i) : d.steps[x].status # "completed"
    PROVE  After(d, UpdateInstanceStatus(d, i, "cancelled"), i, id, c)
<1> DEFINE R == RowsIn(d.steps, i)
           Q == ItemsIn(d.queue, i)
           y == c[R[k].name]
           e == UpdateInstanceStatus(d, i, "cancelled")
<1>1. /\ Good(d) /\ i \in Instances /\ Ordered(R) /\ Fresh(R, c) /\ c \in [Steps -> Calls]
      /\ Before(i, R, c, k) /\ Bounds(i, R[k], y) /\ y.undo = 0 /\ y.undone = 0
      /\ R[k].status \in {"failed", "skipped"} /\ Q \subseteq {<<id, k>>} /\ id < d.nq
      /\ id \in Nat /\ LettersIn(d.dlq, i) = {}
  BY DEF GivenUp
<1>2. DOMAIN R = Rows(d, i) /\ \A x \in DOMAIN R : R[x] = d.steps[x] BY <1>1, RowsInIs
<1>3. \A x \in DOMAIN R : x = k
  <2>1. \A x \in DOMAIN R : x # k => R[x].status = "completed" BY GivenUpRows
  <2>2. QED BY <1>2, <2>1
<1>4. R = [x \in DOMAIN R |-> R[x]] BY DEF RowsIn
<1>5. Typed(R, c) BY <1>1, RowsTyped
<1>6. /\ Leads(d, e) /\ Others(d, e, i) /\ Looks(e, i, "cancelled", R, Q, {})
  <2>1. "cancelled" \in WorkflowStatus BY DEF WorkflowStatus
  <2>2. QED BY <1>1, <2>1, InstanceStatusView
<1> HIDE DEF R, e, Q
<1>7. RolledBack(R, {}) = R BY <1>4 DEF RolledBack
<1>8. ItemsFor(R, {}, {}) BY DEF ItemsFor
<1>9. Reaches("cancelled", R, k, {}) BY <1>3 DEF Reaches
<1>10. Valid(i, "cancelled", R, {}, {}, c)
  <2>1. {} \subseteq DOMAIN R /\ "cancelled" \in {"failed", "cancelled"} OBVIOUS
  <2>2. Valid(i, "cancelled", RolledBack(R, {}), {}, {}, c)
    BY <1>1, <1>5, <1>8, <1>9, <2>1, StoppedValid
  <2>3. QED BY <1>7, <2>2
<1>11. {p \in Q : p[1] # id} = {}
  <2>1. d.nq \in Nat BY <1>1, FieldTypes DEF Good
  <2>2. QED BY <1>1, <2>1, ItemsLeft
<1>12. QED BY <1>6, <1>10, <1>11, AfterLooks DEF e

\* The rollback starts at the last completed step.
LEMMA RolledBackAfter ==
    ASSUME Sequential, NEW d, NEW i, NEW k, NEW c, NEW id, GivenUp(d, i, k, c, id)
    PROVE  After(d, UpdateInstanceStatus(rollbackAll(d, i), i, "cancelled"), i, id, c)
<1> DEFINE R == RowsIn(d.steps, i)
           F == {x \in Rows(d, i) : d.steps[x].status = "completed"}
<1>1. /\ Good(d) /\ Ordered(R) /\ Before(i, R, c, k) /\ R[k].status \in {"failed", "skipped"}
  BY DEF GivenUp
<1>2. DOMAIN R = Rows(d, i) /\ \A x \in DOMAIN R : R[x] = d.steps[x] BY <1>1, RowsInIs
<1>3. CASE F = {}
  <2>1. rollbackAll(d, i) = d BY <1>3 DEF rollbackAll
  <2>2. \A x \in Rows(d, i) : d.steps[x].status # "completed" BY <1>3
  <2>3. QED BY <2>1, <2>2, NothingDone
<1>4. CASE F # {}
  <2> DEFINE m == Max(F)
             last == LastStatus(d, i)
             names == rollbackStepChain(d.steps[m].name, RootStep, last)
             K == ChainRows(R, R[m].name, RootStep, last)
  <2>1. m \in F /\ \A x \in F : x <= m
    <3>1. Len(d.steps) \in Nat BY <1>1, FieldTypes DEF Good
    <3>2. \A x \in Rows(d, i) : x \in 1..Len(d.steps) BY <1>1, RowsInIs DEF IsRow
    <3>3. F \in SUBSET Nat /\ \A x \in F : x <= Len(d.steps) BY <3>1, <3>2
    <3>4. PICK x \in F : \A y \in F : y <= x
      <4> HIDE DEF F
      <4>1. QED BY <1>4, <3>1, <3>3, GreatestNumber
    <3>5. Max(F) = x
      <4> HIDE DEF F
      <4>1. QED BY <3>3, <3>4, GreatestIsMax
    <3>6. QED BY <3>4, <3>5
  <2>2. rollbackAll(d, i) = rollbackSteps(d, i, names) BY <1>4 DEF rollbackAll
  <2> HIDE DEF m
  <2>3. m \in DOMAIN R /\ R[m].status = "completed" /\ R[m] = d.steps[m] BY <1>2, <2>1
  <2>4. \A x \in DOMAIN R : R[x].status = "completed" => x <= m BY <1>2, <2>1
  <2>5. K = {x \in DOMAIN R : R[x].name \in names} BY <2>3 DEF ChainRows
  <2>6. rollbackAll(d, i) = rollbackRows(d, i, K)
    <3> HIDE DEF names, K
    <3>1. QED BY <1>1, <2>2, <2>5, RowsOfNames
  <2>7. \A x \in DOMAIN R : last[R[x].name] = R[x].status BY <1>1, LastRows
  <2>8. K \in SUBSET DOMAIN R BY <2>5
  <2>9. Reaches("cancelled", R, k, K)
    <3>1. R[k].status # "completed" BY <1>1
    <3> HIDE DEF R, last
    <3>2. QED BY <1>1, <2>3, <2>4, <2>7, <3>1, CancellationReaches
  <2>10. "cancelled" \in {"failed", "cancelled"} OBVIOUS
  <2> HIDE DEF K
  <2>11. After(d, UpdateInstanceStatus(rollbackRows(d, i, K), i, "cancelled"), i, id, c)
    BY <2>8, <2>9, <2>10, StopAfter
  <2>12. QED BY <2>6, <2>11
<1>5. QED BY <1>3, <1>4

\* An abort rolls nothing back.
LEMMA AbortedAfter ==
    ASSUME NEW d, NEW i, NEW k, NEW c, NEW id, GivenUp(d, i, k, c, id)
    PROVE  After(d, UpdateInstanceStatus(d, i, "aborted"), i, id, c)
<1> DEFINE R == RowsIn(d.steps, i)
           Q == ItemsIn(d.queue, i)
           e == UpdateInstanceStatus(d, i, "aborted")
<1>1. /\ Good(d) /\ i \in Instances /\ Ordered(R) /\ Fresh(R, c) /\ Bounds(i, R[k], c[R[k].name])
      /\ Q \subseteq {<<id, k>>} /\ id < d.nq /\ id \in Nat /\ LettersIn(d.dlq, i) = {}
  BY DEF GivenUp
<1>2. /\ Leads(d, e) /\ Others(d, e, i) /\ Looks(e, i, "aborted", R, Q, {})
  <2>1. "aborted" \in WorkflowStatus BY DEF WorkflowStatus
  <2>2. QED BY <1>1, <2>1, InstanceStatusView
<1>3. \A x \in DOMAIN R : Bounds(i, R[x], c[R[x].name]) BY <1>1, GivenUpRows
<1> HIDE DEF R, Q, e
<1>4. Valid(i, "aborted", R, {}, {}, c) BY <1>1, <1>3, AbortedValid
<1>5. {p \in Q : p[1] # id} = {}
  <2>1. d.nq \in Nat BY <1>1, FieldTypes DEF Good
  <2>2. QED BY <1>1, <2>1, ItemsLeft
<1>6. QED BY <1>2, <1>4, <1>5, AfterLooks DEF e

\* cancelOrAbort, then the cancel request is deleted.
LEMMA CancelOrAbortAfter ==
    ASSUME Sequential, NEW d, NEW i, NEW k, NEW c, NEW id, GivenUp(d, i, k, c, id)
    PROVE  After(d, cancelOrAbort(d, i), i, id, c)
<1> DEFINE d1 == UpdateInstanceStatus(d, i, "cancelling")
           e == IF d.cancel[i] = "cancel"
                THEN UpdateInstanceStatus(rollbackAll(d1, i), i, "cancelled")
                ELSE UpdateInstanceStatus(d, i, "aborted")
           f == DeleteCancelRequest(e, i)
<1>1. Good(d) /\ i \in Instances BY DEF GivenUp
<1>2. After(d, e, i, id, c)
  <2>1. "cancelling" \in WorkflowStatus BY DEF WorkflowStatus
  <2>2. Leads(d, d1) /\ Others(d, d1, i) /\ GivenUp(d1, i, k, c, id) BY <2>1, GivenUpStays
  <2> HIDE DEF d1
  <2>3. After(d1, UpdateInstanceStatus(rollbackAll(d1, i), i, "cancelled"), i, id, c)
    BY <2>2, RolledBackAfter
  <2>4. After(d, UpdateInstanceStatus(rollbackAll(d1, i), i, "cancelled"), i, id, c)
    BY <1>1, <2>2, <2>3, AfterTrans
  <2>5. After(d, UpdateInstanceStatus(d, i, "aborted"), i, id, c) BY AbortedAfter
  <2>6. QED BY <2>4, <2>5
<1>3. cancelOrAbort(d, i) = f BY DEF cancelOrAbort
<1> HIDE DEF e
<1>4. Good(e) BY <1>2 DEF After, Leads
<1>5. Leads(e, f) /\ Others(e, f, i) /\ SameFor(e, f, i)
  <2>1. "cancel" \in {"cancel", "abort"} OBVIOUS
  <2>2. \A h : SameFor(e, f, h) /\ Leads(e, f) BY <1>1, <1>4, <2>1, CancelView
  <2>3. QED BY <2>2 DEF Others
<1> HIDE DEF f
<1>6. After(d, f, i, id, c) BY <1>1, <1>2, <1>5, AfterSame
<1>7. QED BY <1>3, <1>6

\* A cancel request that cannot be carried out leaves nothing but the end of the item.
LEMMA UnreadableAfter ==
    ASSUME NEW d, NEW i, NEW k, NEW c, NEW id, Runs(d, i, k, c, id),
           NEW c2, NEW y2, CallsOf(c, c2, d.steps[k].name, y2),
           Called(c[d.steps[k].name], y2, {0, 1}), y2.ok > 0 => Def[d.steps[k].name].type = "task",
           StoreKind = "sqlite"
    PROVE  After(d, d, i, id, c2)
<1> DEFINE n == d.steps[k].name
           R == RowsIn(d.steps, i)
           Q == ItemsIn(d.queue, i)
<1>1. /\ Good(d) /\ i \in Instances /\ Ordered(R) /\ Fresh(R, c)
      /\ Q \subseteq {<<id, k>>} /\ id < d.nq /\ id \in Nat
      /\ Looks(d, i, "running", R, Q, {})
  BY DEF Runs, Looks
<1>2. /\ IsRow(d, i, k) /\ k \in DOMAIN R /\ R[k] \in WorkflowStep /\ n \in Steps /\ c[n] \in Calls
      /\ R[k] = d.steps[k] /\ n = R[k].name
      /\ Before(i, R, c, k) /\ Active(i, R[k], c[n], {"pending", "running", "failed"})
      /\ R = [x \in DOMAIN R |-> R[x]]
  BY RunsRow
<1>3. Put(R, R, k, R[k]) BY <1>2 DEF Put
<1>4. c2 \in [Steps -> Calls] /\ y2 \in Calls BY <1>2 DEF CallsOf
<1>5. CallsOf(c, c2, n, y2) /\ Called(c[n], y2, {0, 1}) /\ (y2.ok > 0 => Def[n].type = "task")
  BY <1>2
<1>6. Leads(d, d) /\ Others(d, d, i) BY <1>1, LeadsRefl DEF Others, SameFor
<1>7. {p \in Q : p[1] # id} = {}
  <2>1. d.nq \in Nat BY <1>1, FieldTypes DEF Good
  <2>2. QED BY <1>1, <2>1, ItemsLeft
<1> HIDE DEF R, Q, n
<1>8. Moved(R, c, R, c2, k) /\ c2[R[k].name] = y2
  <2> DEFINE r == R[k]
  <2>1. r.name = n /\ n = R[k].name /\ k \in DOMAIN R BY <1>2
  <2>2. Put(R, R, k, r) BY <1>3
  <2> HIDE DEF r
  <2>3. QED BY <1>5, <2>1, <2>2, RowMoves, SMT
<1>9. Fresh(R, c2) /\ Before(i, R, c2, k) BY <1>1, <1>2, <1>8, MovedKeeps, MovedBefore
<1>10. Bounds(i, R[k], y2) BY <1>2, <1>4, <1>5, RowEnds
<1>11. ASSUME NEW x \in DOMAIN R PROVE Bounds(i, R[x], c2[R[x].name])
  <2>1. CASE x = k BY <1>8, <1>10, <2>1
  <2>2. CASE x # k
    <3>1. Done(i, R[x], c2[R[x].name]) BY <1>9, <2>2 DEF Before
    <3>2. c2[R[x].name] \in Calls BY <1>1, <1>4, RowNumbers
    <3>3. QED BY <3>1, <3>2, DoneBounds
  <2>3. QED BY <2>1, <2>2
<1>12. Valid(i, "running", R, {}, {}, c2) BY <1>1, <1>9, <1>11, StuckValid
<1>13. QED BY <1>1, <1>6, <1>7, <1>12, AfterLooks

\* handleCancellation: the active step is skipped, unless it waits for its retry; on SQLite
\* it cannot be read.
LEMMA CancellationAfter ==
    ASSUME Sequential, NEW d, NEW i, NEW k, NEW c, NEW id, Runs(d, i, k, c, id),
           NEW c2, NEW y2, CallsOf(c, c2, d.steps[k].name, y2),
           Called(c[d.steps[k].name], y2, {0, 1}), y2.ok > 0 => Def[d.steps[k].name].type = "task",
           NEW locked, StoreKind = "postgres" => k \notin locked
    PROVE  After(d, handleCancellation(d, i, locked), i, id, c2)
<1> DEFINE A == GetActiveStepsForUpdate(d, i, locked)
           n == d.steps[k].name
           R == RowsIn(d.steps, i)
<1>1. Good(d) BY DEF Runs
<1>2. /\ IsRow(d, i, k) /\ k \in DOMAIN R /\ R[k] \in WorkflowStep /\ n \in Steps /\ c[n] \in Calls
      /\ R[k] = d.steps[k] /\ n = R[k].name
      /\ Before(i, R, c, k) /\ Active(i, R[k], c[n], {"pending", "running", "failed"})
      /\ R = [x \in DOMAIN R |-> R[x]]
  BY RunsRow
<1>3. DOMAIN R = Rows(d, i) /\ \A x \in DOMAIN R : R[x] = d.steps[x] BY <1>1, RowsInIs
<1>4. \A x \in Rows(d, i) : x # k => d.steps[x].status = "completed"
  BY <1>2, <1>3 DEF Before, Done
<1>5. d.steps[k].status \in {"pending", "running", "failed"} BY <1>2 DEF Active
<1>6. "skipped" \in StepStatus BY DEF StepStatus
<1>7. /\ ~ActiveStepsUnreadable(d, i, locked) =>
           handleCancellation(d, i, locked) = cancelOrAbort(UpdateSteps(d, A, "skipped"), i)
      /\ ActiveStepsUnreadable(d, i, locked) => handleCancellation(d, i, locked) = d
  BY DEF handleCancellation
<1>8. \A x \in A : x = k /\ d.steps[k].status # "failed" BY <1>4 DEF GetActiveStepsForUpdate
<1>u. CASE ActiveStepsUnreadable(d, i, locked)
  <2>1. StoreKind = "sqlite" BY <1>u DEF ActiveStepsUnreadable
  <2>2. After(d, d, i, id, c2) BY <2>1, UnreadableAfter
  <2>3. QED BY <1>7, <1>u, <2>2
<1>9. CASE ~ActiveStepsUnreadable(d, i, locked) /\ d.steps[k].status = "failed"
  <2>1. A = {} BY <1>8, <1>9
  <2>2. GivenUp(d, i, k, c2, id) BY <1>9, FailedGivenUp
  <2>3. UpdateSteps(d, A, "skipped") = d BY <1>1, <1>6, <2>1, NoUpdate
  <2>4. QED BY <1>7, <1>9, <2>2, <2>3, CancelOrAbortAfter
<1>10. CASE ~ActiveStepsUnreadable(d, i, locked) /\ d.steps[k].status # "failed"
  <2> DEFINE d1 == UpdateStep(d, k, "skipped")
  <2>1. k \in A BY <1>2, <1>3, <1>5, <1>10 DEF GetActiveStepsForUpdate
  <2>2. A = {k} BY <1>8, <2>1
  <2>3. UpdateSteps(d, A, "skipped") = d1 BY <2>2 DEF UpdateStep
  <2>4. "skipped" \in {"failed", "skipped"} OBVIOUS
  <2>5. GivenUp(d1, i, k, c2, id) BY <2>4, StepGivenUp
  <2>6. Leads(d, d1) /\ Others(d, d1, i) BY <1>6, StepMarked DEF Marked
  <2> HIDE DEF d1
  <2>7. After(d1, cancelOrAbort(d1, i), i, id, c2) BY <2>5, CancelOrAbortAfter
  <2>8. After(d, cancelOrAbort(d1, i), i, id, c2) BY <1>1, <2>6, <2>7, AfterTrans
  <2>9. QED BY <1>7, <1>10, <2>3, <2>8
<1>11. QED BY <1>9, <1>10, <1>u

----------------------------------------------------------------------------
(* Compensations, starting and requeueing *)

\* Instance i has stopped, and item id is for the compensation of its row k.
Undoes(d, i, k, c, id) ==
    LET R == RowsIn(d.steps, i)
        Q == ItemsIn(d.queue, i)
    IN  /\ Good(d) /\ i \in Instances /\ d.inst[i] \in {"failed", "cancelled"}
        /\ Ordered(R) /\ Fresh(R, c) /\ c \in [Steps -> Calls]
        /\ Stopped1(i, d.inst[i], R, Q, c) /\ <<id, k>> \in Q
        /\ LettersIn(d.dlq, i) = {}

\* The other compensations of the instance stay as they are.
OthersUndone(d, e, i, k) ==
    /\ e.inst[i] \in {"failed", "cancelled"}
    /\ ItemsIn(d.queue, i) \subseteq ItemsIn(e.queue, i)
    /\ \A x \in DOMAIN RowsIn(d.steps, i) :
         x # k => RowsIn(e.steps, i)[x] = RowsIn(d.steps, i)[x]

\* The items of an instance: ids are unique and given out, rows are its own.
LEMMA ItemIds ==
    ASSUME NEW d, Good(d), NEW i
    PROVE  /\ \A p, q \in ItemsIn(d.queue, i) : p[1] = q[1] => p = q
           /\ \A p \in ItemsIn(d.queue, i) : /\ p[1] \in Nat /\ p[1] < d.nq /\ p = <<p[1], p[2]>>
                                             /\ IsRow(d, i, p[2])
<1> DEFINE Q == ItemsIn(d.queue, i)
<1>1. /\ \A q \in d.queue : /\ q.id < d.nq /\ q.step \in 1..Len(d.steps)
                            /\ d.steps[q.step].inst = q.inst /\ q.id \in Nat
      /\ \A q, r \in d.queue : q.id = r.id => q = r
  <2>1. d.queue \subseteq QueueItem BY FieldTypes DEF Good
  <2>2. \A q \in d.queue : q.id \in Nat BY <2>1 DEF QueueItem
  <2>3. QED BY <2>2 DEF Good, SoundItems
<1>2. \A p \in Q : \E q \in d.queue : q.inst = i /\ p = <<q.id, q.step>> BY InItems
<1> HIDE DEF Q
<1>3. ASSUME NEW p \in Q PROVE p[1] \in Nat /\ p[1] < d.nq /\ p = <<p[1], p[2]>> /\ IsRow(d, i, p[2])
  <2>1. PICK q \in d.queue : q.inst = i /\ p = <<q.id, q.step>> BY <1>2
  <2>2. p[1] = q.id /\ p[2] = q.step BY <2>1
  <2>3. QED BY <1>1, <2>1, <2>2 DEF IsRow
<1>4. ASSUME NEW p \in Q, NEW q \in Q, p[1] = q[1] PROVE p = q
  <2>1. PICK x \in d.queue : x.inst = i /\ p = <<x.id, x.step>> BY <1>2
  <2>2. PICK y \in d.queue : y.inst = i /\ q = <<y.id, y.step>> BY <1>2
  <2>3. p[1] = x.id /\ q[1] = y.id BY <2>1, <2>2
  <2>4. x = y BY <1>1, <1>4, <2>3
  <2>5. QED BY <2>1, <2>2, <2>4
<1>5. QED BY <1>3, <1>4 DEF Q

\* The row that is compensated.
LEMMA UndoesRow ==
    ASSUME NEW d, NEW i, NEW k, NEW c, NEW id, Undoes(d, i, k, c, id)
    PROVE  LET R == RowsIn(d.steps, i)
           IN  /\ IsRow(d, i, k) /\ k \in DOMAIN R /\ R[k] = d.steps[k] /\ R[k] \in WorkflowStep
               /\ R[k].name \in Steps /\ c[R[k].name] \in Calls /\ R[k].status = "compensation"
               /\ R = [x \in DOMAIN R |-> R[x]] /\ Typed(R, c)
<1> DEFINE R == RowsIn(d.steps, i)
           Q == ItemsIn(d.queue, i)
<1>1. Good(d) /\ <<id, k>> \in Q /\ c \in [Steps -> Calls] /\ Stopped1(i, d.inst[i], R, Q, c)
  BY DEF Undoes
<1>2. <<id, k>>[2] = k OBVIOUS
<1>3. k \in DOMAIN R /\ R[k].status = "compensation"
  <2> HIDE DEF R, Q
  <2>1. QED BY <1>1, <1>2 DEF Stopped1
<1>4. R[k] = d.steps[k] /\ d.steps[k] \in WorkflowStep /\ IsRow(d, i, k) BY <1>1, <1>3, RowsOf
<1>5. R[k].name \in Steps BY <1>4 DEF WorkflowStep
<1>6. R = [x \in DOMAIN R |-> R[x]] BY DEF RowsIn
<1>7. Typed(R, c) BY <1>1, RowsTyped
<1>8. QED BY <1>1, <1>3, <1>4, <1>5, <1>6, <1>7

\* Row k changes, its item goes, and P may be queued for it.
LEMMA UndoneAfter ==
    ASSUME NEW d, NEW i, NEW k, NEW c, NEW id, Undoes(d, i, k, c, id), NEW e,
           Leads(d, e), Others(d, e, i), NEW s2 \in {"failed", "cancelled"},
           s2 = d.inst[i] \/ s2 = "failed", NEW R2, NEW P, P \subseteq {<<d.nq, k>>},
           P # {} => R2[k].status = "compensation", NEW Q2,
           Q2 = {p \in ItemsIn(d.queue, i) \cup P : p[1] # id},
           Looks(e, i, s2, R2, ItemsIn(d.queue, i) \cup P, {}), NEW c2,
           Moved(RowsIn(d.steps, i), c, R2, c2, k), Undoing(i, s2, R2, Q2, k, c2[R2[k].name])
    PROVE  After(d, e, i, id, c2) /\ OthersUndone(d, e, i, k)
<1> DEFINE R == RowsIn(d.steps, i)
           Q == ItemsIn(d.queue, i)
           s == d.inst[i]
<1>1. /\ Good(d) /\ Ordered(R) /\ Fresh(R, c) /\ Stopped1(i, s, R, Q, c) /\ <<id, k>> \in Q
  BY DEF Undoes
<1>2. /\ IsRow(d, i, k) /\ k \in DOMAIN R /\ R[k] = d.steps[k] /\ R[k] \in WorkflowStep
      /\ R[k].name \in Steps /\ c[R[k].name] \in Calls /\ R[k].status = "compensation"
      /\ R = [x \in DOMAIN R |-> R[x]] /\ Typed(R, c)
  BY UndoesRow
<1>3. /\ \A p, q \in Q : p[1] = q[1] => p = q
      /\ \A p \in Q : p[1] \in Nat /\ p[1] < d.nq /\ p = <<p[1], p[2]>>
  BY <1>1, ItemIds
<1>4. d.nq \in Nat BY <1>1, FieldTypes DEF Good
<1>5. <<id, k>>[1] = id /\ <<id, k>>[2] = k /\ <<d.nq, k>>[1] = d.nq /\ <<d.nq, k>>[2] = k OBVIOUS
<1>6. \A p \in P : p = <<d.nq, k>> OBVIOUS
<1> HIDE DEF R, Q
<1>7. \A q \in Q : q[2] # k => q \in Q2
  <2> SUFFICES ASSUME NEW q \in Q, q[2] # k PROVE q \in Q2 OBVIOUS
  <2>1. q[1] # id BY <1>1, <1>3, <1>5
  <2>2. QED BY <2>1 DEF Q
<1>8. \A q, r \in Q : q[2] = r[2] => q = r BY <1>1 DEF Stopped1
<1>9. \A q \in Q2 : (q \in Q /\ q[2] # k) \/ (q[2] = k /\ R2[k].status = "compensation")
  <2> SUFFICES ASSUME NEW q \in Q2
               PROVE  (q \in Q /\ q[2] # k) \/ (q[2] = k /\ R2[k].status = "compensation")
    OBVIOUS
  <2>1. CASE q \in P BY <1>5, <1>6, <2>1
  <2>2. CASE q \notin P
    <3>1. q \in Q /\ q[1] # id BY <2>2 DEF Q
    <3>2. q[2] # k BY <1>1, <1>5, <1>8, <3>1
    <3>3. QED BY <3>1, <3>2, Zenon
  <2>3. QED BY <2>1, <2>2
<1>10. \A q, r \in Q2 : q[2] = k /\ r[2] = k => q = r
  <2>1. \A q \in Q2 : q[2] = k => q \in P
    <3> SUFFICES ASSUME NEW q \in Q2, q[2] = k, q \notin P PROVE FALSE OBVIOUS
    <3>1. q \in Q /\ q[1] # id BY DEF Q
    <3>2. QED BY <1>1, <1>5, <1>8, <3>1
  <2>2. QED BY <1>6, <2>1
<1>11. Moved(R, c, R2, c2, k) BY DEF R
<1>12. Valid(i, s2, R2, Q2, {}, c2)
  <2> HIDE DEF s
  <2>1. s2 = s \/ s2 = "failed" BY DEF s
  <2>2. QED BY <1>1, <1>2, <1>7, <1>9, <1>10, <1>11, <2>1, CompensatedValid
<1>13. Looks(e, i, s2, R2, Q \cup P, {}) /\ {p \in Q \cup P : p[1] # id} = Q2 BY DEF Q
<1>14. After(d, e, i, id, c2) BY <1>12, <1>13, AfterLooks
<1>15. OthersUndone(d, e, i, k) BY <1>11, <1>13 DEF OthersUndone, Looks, Moved, R, Q
<1>16. QED BY <1>14, <1>15

\* compensationSucceeded: the instance may turn from cancelled to failed.
LEMMA CompensationSucceededAfter ==
    ASSUME NEW d, NEW i, NEW k, NEW c, NEW id, Undoes(d, i, k, c, id),
           NEW c2, NEW y2, CallsOf(c, c2, d.steps[k].name, y2), Undid(c[d.steps[k].name], y2, 1)
    PROVE  LET e == compensationSucceeded(d, i, k)
           IN  After(d, e, i, id, c2) /\ OthersUndone(d, e, i, k)
<1> DEFINE d1 == UpdateStep(d, k, "rolled_back")
           f == UpdateInstanceStatus(d1, i, "failed")
           n == d.steps[k].name
           R == RowsIn(d.steps, i)
           R2 == RowsIn(d1.steps, i)
           Q == ItemsIn(d.queue, i)
           Q2 == {p \in Q \cup {} : p[1] # id}
           s == d.inst[i]
<1>1. /\ Good(d) /\ i \in Instances /\ Stopped1(i, s, R, Q, c) /\ LettersIn(d.dlq, i) = {}
      /\ s \in {"failed", "cancelled"}
  BY DEF Undoes
<1>2. /\ IsRow(d, i, k) /\ k \in DOMAIN R /\ R[k] = d.steps[k] /\ R[k] \in WorkflowStep
      /\ R[k].name \in Steps /\ c[R[k].name] \in Calls /\ R[k].status = "compensation"
      /\ R = [x \in DOMAIN R |-> R[x]] /\ Typed(R, c)
  BY UndoesRow
<1>3. "rolled_back" \in StepStatus BY DEF StepStatus
<1>4. Marked(d, d1, i, k, "rolled_back", c, c2, y2) BY <1>1, <1>2, <1>3, RowIsMarked
<1>5. \/ compensationSucceeded(d, i, k) = d1 \/ compensationSucceeded(d, i, k) = f
  BY DEF compensationSucceeded, failUnlessCompensating
<1> HIDE DEF d1
<1>6. /\ Leads(d, d1) /\ Good(d1) /\ Others(d, d1, i) /\ OnlySteps(d, d1)
      /\ Moved(R, c, R2, c2, k) /\ R2[k] = WithStatus(R[k], "rolled_back")
      /\ R2[k].name = n /\ c2[R2[k].name] = y2 /\ y2 \in Calls
  BY <1>4 DEF Marked
<1>7. d1.inst = d.inst /\ d1.queue = d.queue /\ d1.dlq = d.dlq BY <1>6 DEF OnlySteps
<1>8. Looks(d1, i, s, R2, Q, {}) BY <1>1, <1>7 DEF Looks
<1>9. /\ Leads(d1, f) /\ Others(d1, f, i) /\ Looks(f, i, "failed", R2, Q, {})
  <2>1. "failed" \in WorkflowStatus BY DEF WorkflowStatus
  <2>2. QED BY <1>1, <1>6, <1>7, <2>1, InstanceStatusView
<1>10. Leads(d, f) /\ Others(d, f, i) BY <1>1, <1>6, <1>9, LeadsTrans, OthersTrans
<1> HIDE DEF R2, f
<1>11. R2[k].status = "rolled_back" BY <1>2, <1>3, <1>6, WithStatusIs
<1>12. \A s2 : Undoing(i, s2, R2, Q2, k, c2[R2[k].name])
  <2> SUFFICES ASSUME NEW s2 PROVE Undoing(i, s2, R2, Q2, k, c2[R2[k].name]) OBVIOUS
  <2>1. Undid(c[R[k].name], y2, 1) /\ R2[k].name = R[k].name BY <1>2, <1>6
  <2> HIDE DEF R, Q2, Q, s
  <2>2. Undoing(i, s2, R2, Q2, k, y2) BY <1>1, <1>2, <1>6, <1>11, <2>1, RowCompensated
  <2>3. QED BY <1>6, <2>2
<1>13. Q \cup {} = Q /\ {} \subseteq {<<d.nq, k>>} OBVIOUS
<1>14. Moved(RowsIn(d.steps, i), c, R2, c2, k) BY <1>6
<1>15. After(d, d1, i, id, c2) /\ OthersUndone(d, d1, i, k)
  <2>1. Looks(d1, i, s, R2, ItemsIn(d.queue, i) \cup {}, {}) BY <1>8, <1>13
  <2>2. Q2 = {p \in ItemsIn(d.queue, i) \cup {} : p[1] # id} OBVIOUS
  <2> HIDE DEF Q2
  <2>3. QED BY <1>1, <1>6, <1>12, <1>13, <1>14, <2>1, <2>2, UndoneAfter
<1>16. After(d, f, i, id, c2) /\ OthersUndone(d, f, i, k)
  <2>1. Looks(f, i, "failed", R2, ItemsIn(d.queue, i) \cup {}, {}) BY <1>9, <1>13
  <2>2. Q2 = {p \in ItemsIn(d.queue, i) \cup {} : p[1] # id} OBVIOUS
  <2>3. "failed" \in {"failed", "cancelled"} OBVIOUS
  <2> HIDE DEF Q2
  <2>4. QED BY <1>10, <1>12, <1>13, <1>14, <2>1, <2>2, <2>3, UndoneAfter
<1>17. QED BY <1>5, <1>15, <1>16

\* compensationFailed without attempts left: the row is recorded as failed.
LEMMA CompensationGivenUpAfter ==
    ASSUME NEW d, NEW i, NEW k, NEW c, NEW id, Undoes(d, i, k, c, id),
           NEW c2, NEW y2, CallsOf(c, c2, d.steps[k].name, y2), Undid(c[d.steps[k].name], y2, 0)
    PROVE  LET e == UpdateStep(d, k, "failed")
           IN  After(d, e, i, id, c2) /\ OthersUndone(d, e, i, k)
<1> DEFINE d1 == UpdateStep(d, k, "failed")
           n == d.steps[k].name
           R == RowsIn(d.steps, i)
           R2 == RowsIn(d1.steps, i)
           Q == ItemsIn(d.queue, i)
           Q2 == {p \in Q \cup {} : p[1] # id}
           s == d.inst[i]
<1>1. /\ Good(d) /\ i \in Instances /\ Stopped1(i, s, R, Q, c) /\ LettersIn(d.dlq, i) = {}
      /\ s \in {"failed", "cancelled"}
  BY DEF Undoes
<1>2. /\ IsRow(d, i, k) /\ k \in DOMAIN R /\ R[k] = d.steps[k] /\ R[k] \in WorkflowStep
      /\ R[k].name \in Steps /\ c[R[k].name] \in Calls /\ R[k].status = "compensation"
      /\ R = [x \in DOMAIN R |-> R[x]] /\ Typed(R, c)
  BY UndoesRow
<1>3. "failed" \in StepStatus BY DEF StepStatus
<1>4. Marked(d, d1, i, k, "failed", c, c2, y2) BY <1>1, <1>2, <1>3, RowIsMarked
<1> HIDE DEF d1
<1>6. /\ Leads(d, d1) /\ Good(d1) /\ Others(d, d1, i) /\ OnlySteps(d, d1)
      /\ Moved(R, c, R2, c2, k) /\ R2[k] = WithStatus(R[k], "failed")
      /\ R2[k].name = n /\ c2[R2[k].name] = y2 /\ y2 \in Calls
  BY <1>4 DEF Marked
<1>7. d1.inst = d.inst /\ d1.queue = d.queue /\ d1.dlq = d.dlq BY <1>6 DEF OnlySteps
<1>8. Looks(d1, i, s, R2, Q, {}) BY <1>1, <1>7 DEF Looks
<1> HIDE DEF R2
<1>11. R2[k].status = "failed" BY <1>2, <1>3, <1>6, WithStatusIs
<1>12. Undoing(i, s, R2, Q2, k, c2[R2[k].name])
  <2>1. Undid(c[R[k].name], y2, 0) /\ R2[k].name = R[k].name BY <1>2, <1>6
  <2> HIDE DEF R, Q2, Q, s
  <2>2. Undoing(i, s, R2, Q2, k, y2) BY <1>1, <1>2, <1>6, <1>11, <2>1, RowCompensated
  <2>3. QED BY <1>6, <2>2
<1>13. Q \cup {} = Q /\ {} \subseteq {<<d.nq, k>>} OBVIOUS
<1>14. Moved(RowsIn(d.steps, i), c, R2, c2, k) BY <1>6
<1>15. After(d, d1, i, id, c2) /\ OthersUndone(d, d1, i, k)
  <2>1. Looks(d1, i, s, R2, ItemsIn(d.queue, i) \cup {}, {}) BY <1>8, <1>13
  <2>2. Q2 = {p \in ItemsIn(d.queue, i) \cup {} : p[1] # id} OBVIOUS
  <2> HIDE DEF Q2
  <2>3. QED BY <1>1, <1>6, <1>12, <1>13, <1>14, <2>1, <2>2, UndoneAfter
<1>16. QED BY <1>15 DEF d1

\* compensationFailed with attempts left: one more is counted and queued.
LEMMA CompensationRetriedAfter ==
    ASSUME NEW d, NEW i, NEW k, NEW c, NEW id, Undoes(d, i, k, c, id),
           NEW c2, NEW y2, CallsOf(c, c2, d.steps[k].name, y2), Undid(c[d.steps[k].name], y2, 0),
           NEW comp \in Nat, StoreKind # "postgres" => comp = d.steps[k].comp,
           comp < MaxUndo(d.steps[k].name)
    PROVE  LET d1 == UpdateStepsCompensationRetry(d, {k}, [r \in {k} |-> comp + 1])
               e == EnqueueStep(d1, i, k)
           IN  After(d, e, i, id, c2) /\ OthersUndone(d, e, i, k)
<1> DEFINE count == [r \in {k} |-> comp + 1]
           d1 == UpdateStepsCompensationRetry(d, {k}, count)
           e == EnqueueStep(d1, i, k)
           n == d.steps[k].name
           R == RowsIn(d.steps, i)
           r == [R[k] EXCEPT !.comp = comp + 1, !.status = "compensation"]
           R2 == RowsIn(d1.steps, i)
           Q == ItemsIn(d.queue, i)
           P == {<<d.nq, k>>}
           Q2 == {p \in Q \cup P : p[1] # id}
           s == d.inst[i]
<1>1. /\ Good(d) /\ i \in Instances /\ Stopped1(i, s, R, Q, c) /\ LettersIn(d.dlq, i) = {}
      /\ s \in {"failed", "cancelled"} /\ <<id, k>> \in Q
  BY DEF Undoes
<1>2. /\ IsRow(d, i, k) /\ k \in DOMAIN R /\ R[k] = d.steps[k] /\ R[k] \in WorkflowStep
      /\ R[k].name \in Steps /\ c[R[k].name] \in Calls /\ R[k].status = "compensation"
      /\ R = [x \in DOMAIN R |-> R[x]] /\ Typed(R, c)
  BY UndoesRow
<1>3. count \in [{k} -> Nat] /\ count[k] = comp + 1 /\ \A x \in {k} : IsRow(d, i, x) BY <1>2
<1> HIDE DEF count
<1>4. /\ Leads(d, d1) /\ Good(d1) /\ OnlySteps(d, d1) /\ Others(d, d1, i)
      /\ R2 = Recounted(R, {k}, count)
  BY <1>1, <1>3, CompensationRetryView
<1>5. r.name = n /\ r.comp = comp + 1 /\ r.status = "compensation"
  BY <1>2 DEF WorkflowStep
<1>6. Put(R, R2, k, r)
  <2>1. [R[k] EXCEPT !.comp = count[k], !.status = "compensation"] = r BY <1>3
  <2> HIDE DEF r, R, R2
  <2>2. QED BY <1>2, <1>4, <2>1 DEF Put, Recounted
<1> HIDE DEF d1
<1>7. d1.inst = d.inst /\ d1.queue = d.queue /\ d1.dlq = d.dlq /\ d1.nq = d.nq
  BY <1>4 DEF OnlySteps
<1>8. Leads(d1, e) /\ Queued(d1, e, i, P)
  <2>1. IsRow(d1, i, k) BY <1>1, <1>2, <1>4, RowStays
  <2>2. QED BY <1>4, <1>7, <2>1, EnqueueStepView
<1>9. Looks(e, i, s, R2, Q \cup P, {}) /\ Others(d1, e, i)
  BY <1>1, <1>7, <1>8 DEF Looks, Queued
<1> HIDE DEF e
<1>10. Leads(d, e) /\ Others(d, e, i) BY <1>1, <1>4, <1>8, <1>9, LeadsTrans, OthersTrans
<1>11. y2 \in Calls /\ CallsOf(c, c2, n, y2) /\ n = R[k].name BY <1>2 DEF CallsOf
<1>12. Undid(c[R[k].name], y2, 0) BY <1>2
<1>13. (StoreKind # "postgres" => comp = R[k].comp) /\ comp < MaxUndo(R[k].name) BY <1>2
<1> HIDE DEF R, R2, r, n
<1>14. Moved(R, c, R2, c2, k) /\ R2[k] = r /\ c2[R2[k].name] = y2
  BY <1>2, <1>5, <1>6, <1>11, RowMoves, SMT
<1>15. \E q \in Q2 : q[2] = k
  <2>1. id < d.nq /\ id \in Nat
    <3>1. <<id, k>>[1] = id OBVIOUS
    <3>2. QED BY <1>1, <3>1, ItemIds
  <2>2. d.nq \in Nat BY <1>1, FieldTypes DEF Good
  <2>3. <<d.nq, k>>[1] # id /\ <<d.nq, k>>[2] = k BY <2>1, <2>2
  <2>4. <<d.nq, k>> \in Q2 BY <2>3
  <2>5. QED BY <2>3, <2>4
<1>16. Undoing(i, s, R2, Q2, k, c2[R2[k].name])
  <2>1. R2[k].name = R[k].name /\ R2[k].status = "compensation" /\ R2[k].comp = comp + 1
    BY <1>5, <1>11, <1>14
  <2>2. StoreKind # "postgres" => R2[k].comp = R[k].comp + 1 /\ R[k].comp < MaxUndo(R[k].name)
    BY <1>13, <2>1
  <2> HIDE DEF Q2, Q, s
  <2>3. Undoing(i, s, R2, Q2, k, y2)
    BY <1>1, <1>2, <1>11, <1>12, <1>15, <2>1, <2>2, RowCompensatedAgain
  <2>4. QED BY <1>14, <2>3
<1>17. R2[k].status = "compensation" BY <1>5, <1>14
<1>18. After(d, e, i, id, c2) /\ OthersUndone(d, e, i, k)
  <2>1. Looks(e, i, s, R2, ItemsIn(d.queue, i) \cup P, {}) BY <1>9
  <2>2. Q2 = {p \in ItemsIn(d.queue, i) \cup P : p[1] # id} OBVIOUS
  <2>3. Moved(RowsIn(d.steps, i), c, R2, c2, k) BY <1>14 DEF R
  <2>4. P \subseteq {<<d.nq, k>>} OBVIOUS
  <2> HIDE DEF Q2, P
  <2>5. QED BY <1>1, <1>10, <1>16, <1>17, <2>1, <2>2, <2>3, <2>4, UndoneAfter
<1>19. QED BY <1>18 DEF e, d1, count

\* compensationFailed.
LEMMA CompensationFailedAfter ==
    ASSUME NEW d, NEW i, NEW k, NEW c, NEW id, Undoes(d, i, k, c, id),
           NEW c2, NEW y2, CallsOf(c, c2, d.steps[k].name, y2), Undid(c[d.steps[k].name], y2, 0),
           NEW comp \in Nat, StoreKind # "postgres" => comp = d.steps[k].comp
    PROVE  LET e == compensationFailed(d, i, k, comp)
           IN  After(d, e, i, id, c2) /\ OthersUndone(d, e, i, k)
<1>1. CASE comp < MaxUndo(d.steps[k].name)
  <2>1. compensationFailed(d, i, k, comp) =
          EnqueueStep(UpdateStepsCompensationRetry(d, {k}, [r \in {k} |-> comp + 1]), i, k)
    BY <1>1 DEF compensationFailed, MaxUndo
  <2>2. QED BY <1>1, <2>1, CompensationRetriedAfter
<1>2. CASE ~(comp < MaxUndo(d.steps[k].name))
  <2>1. compensationFailed(d, i, k, comp) = UpdateStep(d, k, "failed")
    BY <1>2 DEF compensationFailed, MaxUndo
  <2>2. QED BY <2>1, CompensationGivenUpAfter
<1>3. QED BY <1>1, <1>2

\* StartWorkflow.
LEMMA StartedLooks ==
    ASSUME Sequential, NEW d, Good(d), NEW i \in Instances, d.inst[i] = "none",
           NEW c, Valid(i, d.inst[i], RowsIn(d.steps, i), ItemsIn(d.queue, i), LettersIn(d.dlq, i), c)
    PROVE  LET e == enqueueNextSteps(UpdateInstanceStatus(d, i, "running"), i, <<Start[i]>>)
           IN  /\ Leads(d, e) /\ Others(d, e, i)
               /\ Valid(i, e.inst[i], RowsIn(e.steps, i), ItemsIn(e.queue, i), LettersIn(e.dlq, i), c)
<1> DEFINE d1 == UpdateInstanceStatus(d, i, "running")
           e == CreateAndEnqueue(d1, i, <<Start[i]>>)
           R == RowsIn(d.steps, i)
           k == Len(d1.steps) + 1
           G == Grown(R, i, Start[i], k)
           Q == {<<d1.nq, k>>}
<1>1. DOMAIN R = {} /\ Fresh(R, c) /\ ItemsIn(d.queue, i) = {} /\ LettersIn(d.dlq, i) = {}
  BY DEF Valid, Phase
<1>2. /\ Leads(d, d1) /\ Good(d1) /\ Others(d, d1, i) /\ Looks(d1, i, "running", R, {}, {})
  <2>1. "running" \in WorkflowStatus BY DEF WorkflowStatus
  <2>2. QED BY <1>1, <2>1, InstanceStatusView
<1> HIDE DEF d1
<1>3. d1.inst[i] = "running" /\ RowsIn(d1.steps, i) = R /\ ItemsIn(d1.queue, i) = {}
      /\ LettersIn(d1.dlq, i) = {}
  BY <1>2 DEF Looks
<1>4. enqueueNextSteps(d1, i, <<Start[i]>>) = e BY <1>3 DEF enqueueNextSteps
<1>5. Start[i] \in Steps BY StoreAssumption
<1>6. /\ Leads(d1, e) /\ Others(d1, e, i) /\ Looks(e, i, "running", G, {} \cup Q, {})
  BY <1>2, <1>3, <1>5, CreateOneView
<1>7. {} \cup Q = Q OBVIOUS
<1>8. k \in Nat BY <1>2, FieldTypes DEF Good
<1> HIDE DEF e, k
<1>9. Valid(i, "running", G, Q, {}, c) BY <1>1, <1>8, StartedValid
<1> HIDE DEF G, Q
<1>10. Valid(i, e.inst[i], RowsIn(e.steps, i), ItemsIn(e.queue, i), LettersIn(e.dlq, i), c)
  BY <1>6, <1>7, <1>9 DEF Looks
<1>11. Leads(d, e) /\ Others(d, e, i) BY <1>2, <1>6, LeadsTrans, OthersTrans
<1>12. QED BY <1>4, <1>10, <1>11 DEF d1

\* The row of a dead letter starts afresh.
LEMMA AfreshRowIs ==
    ASSUME NEW i, DLQEnabled[i], NEW row \in WorkflowStep, NEW y, Active(i, row, y, {"paused"})
    PROVE  Active(i, AfreshRow(row), y, {"pending"}) /\ AfreshRow(row).name = row.name
<1> DEFINE r == AfreshRow(row)
<1>1. r.name = row.name /\ r.status = "pending" /\ r.comp = 0 BY DEF AfreshRow, WorkflowStep
<1> HIDE DEF r
<1>2. QED BY <1>1 DEF Active, r

\* RequeueDeadLetter: the instance runs again, from the paused step.
LEMMA RequeuedLooks ==
    ASSUME Sequential, NEW d, Good(d), NEW rec \in d.dlq, NEW i \in Instances, i = rec.inst,
           NEW c \in [Steps -> Calls],
           Valid(i, d.inst[i], RowsIn(d.steps, i), ItemsIn(d.queue, i), LettersIn(d.dlq, i), c)
    PROVE  LET e == RequeueDeadLetter(d, rec)
           IN  /\ d.inst[i] = "dlq" /\ Leads(d, e) /\ Others(d, e, i) /\ e.inst[i] = "running"
               /\ Valid(i, e.inst[i], RowsIn(e.steps, i), ItemsIn(e.queue, i), LettersIn(e.dlq, i), c)
<1> DEFINE d1 == Reset(d, rec)
           k == rec.step
           R == RowsIn(d.steps, i)
           L == LettersIn(d.dlq, i)
           n == R[k].name
           r == AfreshRow(R[k])
           R2 == [R EXCEPT ![k] = r]
           e == EnqueueStep(d1, i, k)
<1>1. rec \in L BY DEF LettersIn
<1>2. d.inst[i] = "dlq" BY <1>1 DEF Valid, Phase
<1>3. Ordered(R) /\ Fresh(R, c) /\ Paused1(i, R, L, c) /\ ItemsIn(d.queue, i) = {}
  <2> HIDE DEF R, L
  <2>1. Valid(i, "dlq", R, ItemsIn(d.queue, i), L, c) BY <1>2 DEF R, L
  <2>2. QED BY <2>1 DEF Valid, Phase
<1>4. DLQEnabled[i] /\ L = {rec} /\ At(i, R, c, k, {"paused"})
  <2> HIDE DEF R, L
  <2>1. PICK x \in L : L = {x} /\ At(i, R, c, x.step, {"paused"}) BY <1>3 DEF Paused1
  <2>2. x = rec BY <1>1, <2>1
  <2>3. QED BY <1>3, <2>1, <2>2 DEF Paused1
<1>5. /\ Leads(d, d1) /\ Good(d1) /\ Others(d, d1, i) /\ IsRow(d, i, k) /\ d1.nq = d.nq
      /\ Looks(d1, i, "running", R2, {}, {})
  <2>1. L \ {rec} = {} BY <1>4
  <2>2. /\ Leads(d, d1) /\ Good(d1) /\ Others(d, d1, i) /\ IsRow(d, i, k) /\ d1.nq = d.nq
        /\ Looks(d1, i, "running", R2, ItemsIn(d.queue, i), L \ {rec})
    BY <1>2, ResetView
  <2> HIDE DEF d1, R2, L
  <2>3. QED BY <1>3, <2>1, <2>2
<1>6. k \in DOMAIN R /\ R[k] \in WorkflowStep /\ R = [x \in DOMAIN R |-> R[x]]
      /\ Before(i, R, c, k) /\ Active(i, R[k], c[n], {"paused"})
  <2>1. k \in DOMAIN R BY <1>4 DEF At, Before
  <2>2. \A x \in DOMAIN R : R[x] = d.steps[x] /\ d.steps[x] \in WorkflowStep BY AllRowsOf, Zenon
  <2>3. R = [x \in DOMAIN R |-> R[x]] BY DEF RowsIn
  <2>4. QED BY <1>4, <2>1, <2>2, <2>3 DEF At
<1>7. Active(i, r, c[n], {"pending"}) /\ r.name = n BY <1>4, <1>6, AfreshRowIs
<1>8. n \in Steps BY <1>6 DEF WorkflowStep
<1>9. CallsOf(c, c, n, c[n]) BY DEF CallsOf
<1> HIDE DEF R, r, n
<1>10. Put(R, R2, k, r) BY <1>6, PutIs
<1> HIDE DEF R2
<1>11. n = R[k].name BY DEF n
<1>12. Moved(R, c, R2, c, k) /\ R2[k] = r /\ c[R2[k].name] = c[n]
  BY <1>6, <1>7, <1>9, <1>10, <1>11, RowMoves, SMT
<1>13. Ordered(R2) /\ Fresh(R2, c) /\ At(i, R2, c, k, {"pending"})
  <2>1. Active(i, R2[k], c[R2[k].name], {"pending"}) BY <1>7, <1>12
  <2>2. QED BY <1>3, <1>6, <1>12, <2>1, AtMoves
<1>14. \A Q : (Q \subseteq {<<d.nq, k>>} /\ (StoreKind = "postgres" => Q # {})) => Valid(i, "running", R2, Q, {}, c)
  <2>1. {"pending"} \subseteq {"pending", "running", "failed"} OBVIOUS
  <2>2. QED BY <1>13, <2>1, RunningValid
<1>15. UpdateSteps(d1, PausedJoins(d, rec.inst), "pending") = d1
  <2>1. PausedJoins(d, rec.inst) = {} BY NoJoins DEF PausedJoins
  <2>2. "pending" \in StepStatus BY DEF StepStatus
  <2>3. QED BY <1>5, <2>1, <2>2, NoUpdate
<1>16. RequeueDeadLetter(d, rec) = IF StoreKind = "memory" THEN d1 ELSE e
  <2>1. StoreKind \in {"memory", "sqlite", "postgres"} BY StoreAssumption
  <2>2. RequeueDeadLetterPostgres(d, rec) = e BY <1>15 DEF RequeueDeadLetterPostgres
  <2>3. RequeueDeadLetterSQLite(d, rec) = e BY DEF RequeueDeadLetterSQLite
  <2>4. RequeueDeadLetterMemory(d, rec) = d1 BY <1>15 DEF RequeueDeadLetterMemory
  <2> HIDE DEF d1, e
  <2>5. QED BY <2>1, <2>2, <2>3, <2>4 DEF RequeueDeadLetter
<1> HIDE DEF d1
<1>17. Leads(d1, e) /\ Queued(d1, e, i, {<<d.nq, k>>})
  <2>1. IsRow(d1, i, k) BY <1>5, RowStays
  <2>2. QED BY <1>5, <2>1, EnqueueStepView
<1>18. Looks(e, i, "running", R2, {} \cup {<<d.nq, k>>}, {}) /\ Others(d1, e, i)
  BY <1>5, <1>17 DEF Looks, Queued
<1> HIDE DEF e
<1>19. Leads(d, e) /\ Others(d, e, i) BY <1>5, <1>17, <1>18, LeadsTrans, OthersTrans
<1>20. CASE StoreKind = "memory"
  <2>1. Valid(i, "running", R2, {}, {}, c) BY <1>14, <1>20
  <2>2. RequeueDeadLetter(d, rec) = d1 BY <1>16, <1>20
  <2>3. QED BY <1>2, <1>5, <2>1, <2>2 DEF Looks
<1>21. CASE StoreKind # "memory"
  <2> DEFINE Q == {} \cup {<<d.nq, k>>}
  <2>1. Q \subseteq {<<d.nq, k>>} /\ Q # {} OBVIOUS
  <2> HIDE DEF Q
  <2>2. Valid(i, "running", R2, Q, {}, c) BY <1>14, <2>1
  <2>3. RequeueDeadLetter(d, rec) = e BY <1>16, <1>21
  <2>4. Looks(e, i, "running", R2, Q, {}) BY <1>18 DEF Q
  <2>5. QED BY <1>2, <1>19, <2>2, <2>3, <2>4 DEF Looks
<1>22. QED BY <1>20, <1>21

----------------------------------------------------------------------------
(* The actions *)

\* Completed and aborted are final; what has failed or was cancelled has.
Goes(s, s2) ==
    /\ s \in {"completed", "aborted"} => s2 = s
    /\ s \in {"failed", "cancelled"} => s2 \in {"failed", "cancelled"}

\* The step is one of instance i, and leaves it and its workers as they should be.
StepFor(i) ==
    /\ Others(db, db', i) /\ ValidIn(db', i, calls')
    /\ \A h \in Instances \ {i} : calls'[h] = calls[h]
    /\ Goes(db.inst[i], db'.inst[i]) /\ WorkersValid(db', wk')

\* No other worker than w holds item id.
Mine(w, id) == \A v \in Workers \ {w} : wk[v].kind # "idle" => wk[v].item # id

\* The item of a worker, and one that nobody has claimed.
LEMMA MineIs ==
    ASSUME Now, NEW w \in Workers
    PROVE  /\ wk[w].kind # "idle" => Mine(w, wk[w].item)
           /\ \A q \in db.queue : q.by = Nobody => Mine(w, q.id)
<1>1. WorkersSound(db, wk) /\ \A v \in Workers : wk[v].kind # "idle" <=> wk[v] \in InFlight
  BY BusyIs DEF Now, Sound, WorkersSound
<1>2. QED BY <1>1 DEF WorkersSound, Mine

\* What a worker knows of its instance depends on that instance only.
LEMMA WorkerFrame ==
    ASSUME NEW d, NEW e, NEW f, SameFor(d, e, f.inst), WorkerValid(d, f) PROVE WorkerValid(e, f)
BY DEF SameFor, WorkerValid

\* A worker that keeps its item, its row and the kind of status.
LEMMA WorkersFrame ==
    ASSUME Now, NEW e, NEW u, NEW i, Others(db, e, i), WorkersValid(db, wk),
           \A w \in Workers : u[w].kind # "idle" =>
               \/ WorkerValid(e, u[w])
               \/ u[w] = wk[w] /\ wk[w].inst # i
    PROVE  WorkersValid(e, u)
<1> SUFFICES ASSUME NEW w \in Workers, u[w].kind # "idle", u[w] = wk[w], wk[w].inst # i
             PROVE  WorkerValid(e, u[w])
  BY DEF WorkersValid
<1>1. wk[w] \in InFlight BY BusyIs DEF Now, Sound, WorkersSound
<1>2. wk[w].inst \in Instances BY <1>1 DEF InFlight
<1>3. SameFor(db, e, wk[w].inst) BY <1>2 DEF Others
<1>4. WorkerValid(db, wk[w]) BY DEF WorkersValid
<1>5. QED BY <1>3, <1>4, WorkerFrame

\* An instance with an item runs, or its rollback is queued.
LEMMA ItemIs ==
    ASSUME NEW d, Good(d), NEW i \in Instances, NEW c \in [Steps -> Calls], NEW id, NEW k,
           Valid(i, d.inst[i], RowsIn(d.steps, i), ItemsIn(d.queue, i), LettersIn(d.dlq, i), c),
           <<id, k>> \in ItemsIn(d.queue, i)
    PROVE  /\ id \in Nat /\ id < d.nq /\ IsRow(d, i, k)
           /\ \A q \in d.queue : q.id = id => q.inst = i
           /\ \/ d.inst[i] = "running" /\ d.steps[k].status \in {"pending", "running", "failed"}
                 /\ Runs(d, i, k, c, id)
              \/ d.inst[i] \in {"failed", "cancelled"} /\ d.steps[k].status = "compensation"
                 /\ Undoes(d, i, k, c, id)
<1> DEFINE R == RowsIn(d.steps, i)
           Q == ItemsIn(d.queue, i)
           L == LettersIn(d.dlq, i)
           s == d.inst[i]
<1>1. <<id, k>>[1] = id /\ <<id, k>>[2] = k OBVIOUS
<1>2. id \in Nat /\ id < d.nq /\ IsRow(d, i, k) BY <1>1, ItemIds
<1>3. \A q \in d.queue : q.id = id => q.inst = i
  <2>1. PICK x \in d.queue : x.inst = i /\ <<id, k>> = <<x.id, x.step>> BY InItems
  <2>2. x.id = id BY <2>1
  <2>3. QED BY <2>1, <2>2 DEF Good, SoundItems
<1>4. k \in DOMAIN R /\ R[k] = d.steps[k]
  <2>1. k \in Rows(d, i) BY <1>2, RowsInIs
  <2>2. QED BY <2>1, RowsInIs
<1>5. Valid(i, s, R, Q, L, c) /\ <<id, k>> \in Q OBVIOUS
<1>6. Good(d) /\ id \in Nat /\ id < d.nq BY <1>2
<1> HIDE DEF R, Q, L, s
<1>7. s \in {"running", "failed", "cancelled"} BY <1>5 DEF Valid, Phase
<1>8. Ordered(R) /\ Fresh(R, c) /\ L = {} BY <1>5, <1>7 DEF Valid, Phase
<1>9. CASE s = "running"
  <2>1. Running1(i, R, Q, c) BY <1>5, <1>9 DEF Valid, Phase, Stuck1
  <2>2. PICK x \in DOMAIN R : /\ At(i, R, c, x, {"pending", "running", "failed"})
                              /\ \A q \in Q : q[2] = x
                              /\ \A q, r \in Q : q = r
    BY <2>1 DEF Running1
  <2>3. x = k BY <1>1, <1>5, <2>2
  <2>4. Q \subseteq {<<id, k>>} BY <1>5, <2>2
  <2>5. At(i, R, c, k, {"pending", "running", "failed"}) BY <2>2, <2>3
  <2>6. R[k].status \in {"pending", "running", "failed"} BY <2>5 DEF At, Active
  <2>7. Runs(d, i, k, c, id) BY <1>6, <1>8, <1>9, <2>4, <2>5 DEF Runs, R, Q, L, s
  <2>8. QED BY <1>2, <1>3, <1>4, <1>9, <2>6, <2>7 DEF s
<1>10. CASE s \in {"failed", "cancelled"}
  <2>1. Stopped1(i, s, R, Q, c) BY <1>5, <1>10 DEF Valid, Phase
  <2>2. R[k].status = "compensation" BY <1>1, <1>5, <2>1 DEF Stopped1
  <2>3. Undoes(d, i, k, c, id) BY <1>5, <1>6, <1>8, <1>10, <2>1 DEF Undoes, R, Q, L, s
  <2>4. QED BY <1>2, <1>3, <1>4, <1>10, <2>2, <2>3 DEF s
<1>11. QED BY <1>7, <1>9, <1>10

\* The end of a transaction: what is left once the item is removed.
LEMMA CommitStep ==
    ASSUME Now, SInv, NEW w \in Workers, NEW id, NEW i \in Instances, NEW e, Commit(w, id, e),
           After(db, e, i, id, calls'[i]), id \in Nat, id < db.nq,
           \A q \in db.queue : q.id = id => q.inst = i,
           \A h \in Instances \ {i} : calls'[h] = calls[h],
           Goes(db.inst[i], e.inst[i]),
           \A v \in Workers \ {w} : wk[v].kind # "idle" /\ wk[v].inst = i =>
               WorkerValid(RemoveFromQueue(e, id), wk[v])
    PROVE  StepFor(i)
<1> DEFINE f == RemoveFromQueue(e, id)
<1>1. Good(db) /\ db.nq \in Nat BY FieldTypes DEF Now, Sound, Good
<1>2. Leads(db, e) /\ Others(db, e, i) /\ Good(e) BY DEF After, Leads
<1>3. \A q \in e.queue : q.id = id => q.inst = i
  <2> SUFFICES ASSUME NEW q \in e.queue, q.id = id PROVE q.inst = i OBVIOUS
  <2>1. q \in db.queue \/ q.id >= db.nq BY <1>2 DEF Leads, Extends
  <2>2. QED BY <1>1, <2>1
<1>4. /\ Others(e, f, i)
      /\ Looks(f, i, e.inst[i], RowsIn(e.steps, i), {p \in ItemsIn(e.queue, i) : p[1] # id},
               LettersIn(e.dlq, i))
  BY <1>2, <1>3, RemoveView
<1>5. db' = f /\ wk' = [wk EXCEPT ![w] = Idle] BY DEF Commit
<1> HIDE DEF f
<1>6. Others(db, f, i) BY <1>2, <1>4, OthersTrans
<1>7. ValidIn(f, i, calls')
  <2>1. Valid(i, e.inst[i], RowsIn(e.steps, i), {p \in ItemsIn(e.queue, i) : p[1] # id},
              LettersIn(e.dlq, i), calls'[i])
    BY DEF After
  <2>2. QED BY <1>4, <2>1 DEF ValidIn, Looks
<1>8. Goes(db.inst[i], f.inst[i]) BY <1>4 DEF Looks
<1>9. WorkersValid(f, wk')
  <2>1. wk \in [Workers -> InFlight \cup {Idle}] BY DEF Now, Sound, WorkersSound
  <2>2. Idle.kind = "idle" BY DEF Idle
  <2>3. \A v \in Workers : wk'[v].kind # "idle" => v # w /\ wk'[v] = wk[v]
    BY <1>5, <2>1, <2>2
  <2>4. \A v \in Workers \ {w} : wk[v].kind # "idle" /\ wk[v].inst = i => WorkerValid(f, wk[v])
    BY DEF f
  <2>5. \A v \in Workers : wk'[v].kind # "idle" =>
               \/ WorkerValid(f, wk'[v])
               \/ wk'[v] = wk[v] /\ wk[v].inst # i
    BY <2>3, <2>4
  <2>6. WorkersValid(db, wk) BY DEF SInv
  <2>7. QED BY <1>6, <2>5, <2>6, WorkersFrame
<1>10. QED BY <1>5, <1>6, <1>7, <1>8, <1>9 DEF StepFor

\* A running instance has at most one worker.
LEMMA Alone ==
    ASSUME SInv, NEW w \in Workers, NEW i, NEW k, NEW c, NEW id, Mine(w, id), Runs(db, i, k, c, id)
    PROVE  \A v \in Workers \ {w} : ~(wk[v].kind # "idle" /\ wk[v].inst = i)
<1> SUFFICES ASSUME NEW v \in Workers \ {w}, wk[v].kind # "idle", wk[v].inst = i PROVE FALSE
  OBVIOUS
<1>1. WorkerValid(db, wk[v]) BY DEF SInv, WorkersValid
<1>2. <<wk[v].item, wk[v].step>> \in ItemsIn(db.queue, i) BY <1>1 DEF WorkerValid
<1>3. <<wk[v].item, wk[v].step>> = <<id, k>> BY <1>2 DEF Runs
<1>4. wk[v].item = id BY <1>3
<1>5. QED BY <1>4 DEF Mine

\* The transaction of the only worker of a running instance.
LEMMA RunsCommit ==
    ASSUME Now, SInv, NEW w \in Workers, NEW id, NEW i, NEW k, NEW e, Mine(w, id),
           Runs(db, i, k, calls[i], id), Commit(w, id, e), After(db, e, i, id, calls'[i]),
           \A q \in db.queue : q.id = id => q.inst = i,
           \A h \in Instances \ {i} : calls'[h] = calls[h]
    PROVE  StepFor(i)
<1>1. i \in Instances /\ id \in Nat /\ id < db.nq /\ db.inst[i] = "running" BY DEF Runs
<1>2. Goes(db.inst[i], e.inst[i]) BY <1>1 DEF Goes
<1>3. \A v \in Workers \ {w} : ~(wk[v].kind # "idle" /\ wk[v].inst = i) BY Alone
<1>4. QED BY <1>1, <1>2, <1>3, CommitStep

\* The transaction of a compensation: the workers of the other compensations keep theirs.
LEMMA UndoesCommit ==
    ASSUME Now, SInv, NEW w \in Workers, NEW id, NEW i, NEW k, NEW e, Mine(w, id),
           Undoes(db, i, k, calls[i], id), Commit(w, id, e), After(db, e, i, id, calls'[i]),
           OthersUndone(db, e, i, k), id \in Nat, id < db.nq,
           \A q \in db.queue : q.id = id => q.inst = i,
           \A h \in Instances \ {i} : calls'[h] = calls[h]
    PROVE  StepFor(i)
<1> DEFINE R == RowsIn(db.steps, i)
           Q == ItemsIn(db.queue, i)
           s == db.inst[i]
           f == RemoveFromQueue(e, id)
<1>1. i \in Instances /\ s \in {"failed", "cancelled"} /\ Stopped1(i, s, R, Q, calls[i])
      /\ <<id, k>> \in Q /\ Good(db)
  BY DEF Undoes
<1>2. Goes(s, e.inst[i]) BY <1>1 DEF Goes, OthersUndone
<1>3. Good(e) /\ \A q \in e.queue : q.id = id => q.inst = i
  <2>1. Good(e) /\ \A q \in e.queue : q \in db.queue \/ q.id >= db.nq
    BY DEF After, Leads, Extends
  <2>2. db.nq \in Nat BY <1>1, FieldTypes DEF Good
  <2>3. QED BY <2>1, <2>2
<1>4. Looks(f, i, e.inst[i], RowsIn(e.steps, i), {p \in ItemsIn(e.queue, i) : p[1] # id},
            LettersIn(e.dlq, i))
  BY <1>3, RemoveView
<1> HIDE DEF f
<1>5. ASSUME NEW v \in Workers \ {w}, wk[v].kind # "idle", wk[v].inst = i
      PROVE  WorkerValid(f, wk[v])
  <2> DEFINE p == <<wk[v].item, wk[v].step>>
             x == wk[v].step
  <2>1. WorkerValid(db, wk[v]) BY <1>5 DEF SInv, WorkersValid
  <2>2. p \in Q /\ p[1] = wk[v].item /\ p[2] = x BY <1>5, <2>1 DEF WorkerValid
  <2>3. wk[v].item # id BY <1>5 DEF Mine
  <2>4. <<id, k>>[2] = k /\ <<id, k>>[1] = id OBVIOUS
  <2> HIDE DEF p
  <2>5. x # k /\ x \in DOMAIN R
    <3> HIDE DEF R, Q, s, x
    <3>1. QED BY <1>1, <2>2, <2>3, <2>4 DEF Stopped1
  <2>6. RowsIn(e.steps, i)[x] = R[x] /\ p \in ItemsIn(e.queue, i)
    BY <2>2, <2>5 DEF OthersUndone
  <2>7. p \in ItemsIn(f.queue, i) /\ RowsIn(f.steps, i)[x] = R[x]
        /\ f.inst[i] \in {"failed", "cancelled"}
    BY <1>4, <2>2, <2>3, <2>6 DEF Looks, OthersUndone
  <2>8. wk[v].kind # "task" BY <1>1, <1>5, <2>1 DEF WorkerValid
  <2>9. QED BY <1>5, <2>1, <2>7, <2>8 DEF WorkerValid, p
<1>6. QED BY <1>1, <1>2, <1>5, CommitStep DEF f

\* A worker takes an item for a forward execution: its instance runs.
LEMMA ForwardRuns ==
    ASSUME Now, SInv, NEW w \in Workers, NEW q \in db.queue, NEW types, Forward(w, q, types)
    PROVE  /\ Runs(db, q.inst, q.step, calls[q.inst], q.id) /\ Mine(w, q.id)
           /\ \A r \in db.queue : r.id = q.id => r.inst = q.inst
           /\ q.inst \in Instances /\ IsRow(db, q.inst, q.step)
<1>1. Good(db) /\ calls \in [Instances -> [Steps -> Calls]] BY DEF Now, Sound
<1>2. q.inst \in Instances /\ IsRow(db, q.inst, q.step) BY <1>1, ItemRow
<1>3. q.by = Nobody /\ db.steps[q.step].status # "compensation"
  BY DEF Forward, Dequeues, Dequeuable
<1>4. Mine(w, q.id) BY <1>3, MineIs
<1>5. <<q.id, q.step>> \in ItemsIn(db.queue, q.inst) BY DEF ItemsIn
<1>6. ValidIn(db, q.inst, calls) BY <1>2 DEF SInv
<1>7. /\ \A r \in db.queue : r.id = q.id => r.inst = q.inst
      /\ \/ db.inst[q.inst] = "running" /\ db.steps[q.step].status \in {"pending", "running", "failed"}
            /\ Runs(db, q.inst, q.step, calls[q.inst], q.id)
         \/ db.inst[q.inst] \in {"failed", "cancelled"} /\ db.steps[q.step].status = "compensation"
            /\ Undoes(db, q.inst, q.step, calls[q.inst], q.id)
  BY <1>1, <1>2, <1>5, <1>6, ItemIs DEF ValidIn
<1>8. QED BY <1>2, <1>3, <1>4, <1>7

\* A worker takes the item of an inactive row or of an instance in DLQ state: there is none.
LEMMA NothingDropped ==
    ASSUME Now, SInv, NEW w, NEW q \in db.queue PROVE ~DropFrozen(w, q) /\ ~DropInactive(w, q)
<1>1. Good(db) /\ calls \in [Instances -> [Steps -> Calls]] BY DEF Now, Sound
<1>2. q.inst \in Instances BY <1>1, ItemRow
<1>5. <<q.id, q.step>> \in ItemsIn(db.queue, q.inst) BY DEF ItemsIn
<1>6. ValidIn(db, q.inst, calls) BY <1>2 DEF SInv
<1>7. \/ db.inst[q.inst] = "running" /\ db.steps[q.step].status \in {"pending", "running", "failed"}
         /\ Runs(db, q.inst, q.step, calls[q.inst], q.id)
      \/ db.inst[q.inst] \in {"failed", "cancelled"} /\ db.steps[q.step].status = "compensation"
         /\ Undoes(db, q.inst, q.step, calls[q.inst], q.id)
  BY <1>1, <1>2, <1>5, <1>6, ItemIs DEF ValidIn
<1>8. QED BY <1>7 DEF DropFrozen, DropInactive, Inactive

\* Forks, joins and human steps do not exist.
LEMMA NothingElse ==
    ASSUME Sequential, Now, NEW w, NEW q \in db.queue, NEW decision
    PROVE  /\ ~ExecuteFork(w, q) /\ ~ExecuteJoin(w, q) /\ ~PollHuman(w, q) /\ ~ResumeHuman(w, q)
           /\ ~DecidedWhilePolling(w, q, decision)
           /\ \A k \in DOMAIN db.steps : ~MakeHumanDecision(k, decision)
<1>1. \A k \in DOMAIN db.steps : Def[db.steps[k].name].type \in {"task", "savepoint", "condition"}
  <2>1. \A k \in DOMAIN db.steps : db.steps[k] \in WorkflowStep
    BY FieldTypes DEF Now, Sound, Good
  <2>2. \A k \in DOMAIN db.steps : db.steps[k].name \in Steps BY <2>1 DEF WorkflowStep
  <2>3. QED BY <2>2, NoJoins
<1>2. q.step \in DOMAIN db.steps
  <2>1. Good(db) /\ DOMAIN db.steps = 1..Len(db.steps) BY FieldTypes DEF Now, Sound, Good
  <2>2. QED BY <2>1, ItemRow DEF IsRow
<1>3. QED BY <1>1, <1>2 DEF ExecuteFork, ExecuteJoin, PollHuman, ResumeHuman, DecidedWhilePolling,
                            MakeHumanDecision, Forward

\* No handler returned.
LEMMA NoCall ==
    ASSUME NEW d, NEW i, NEW k, NEW c, NEW id, Runs(d, i, k, c, id)
    PROVE  LET n == d.steps[k].name
           IN  /\ CallsOf(c, c, n, c[n]) /\ Called(c[n], c[n], {0}) /\ Called(c[n], c[n], {0, 1})
               /\ c[n].ok = 0 /\ c[n] \in Calls
<1> DEFINE R == RowsIn(d.steps, i)
           n == d.steps[k].name
<1>1. /\ IsRow(d, i, k) /\ k \in DOMAIN R /\ R[k] = d.steps[k] /\ R[k] \in WorkflowStep
      /\ R[k].name \in Steps /\ c[R[k].name] \in Calls /\ Before(i, R, c, k)
      /\ Active(i, R[k], c[R[k].name], {"pending", "running", "failed"})
      /\ R = [x \in DOMAIN R |-> R[x]]
  BY RunsRow
<1>2. c[n] \in Calls /\ c[n].ok = 0 BY <1>1 DEF Active
<1>3. c \in [Steps -> Calls] BY DEF Runs
<1> HIDE DEF n
<1>4. CallsOf(c, c, n, c[n]) BY <1>3 DEF CallsOf
<1>5. c[n].run \in Nat BY <1>2 DEF Calls
<1>6. Called(c[n], c[n], {0}) /\ Called(c[n], c[n], {0, 1}) BY <1>2, <1>5 DEF Called
<1>7. QED BY <1>2, <1>4, <1>6 DEF n

\* Marking the step as running, by the table.
LEMMA MarkedIs ==
    ASSUME NEW d, NEW i, NEW k, NEW c, NEW id, Runs(d, i, k, c, id)
    PROVE  LET e == Running(d, k)
           IN  /\ Runs(e, i, k, c, id) /\ Leads(d, e) /\ Others(d, e, i) /\ Good(d)
               /\ e.steps[k].name = d.steps[k].name /\ e.steps[k].retry = d.steps[k].retry
               /\ ItemsIn(e.queue, i) = ItemsIn(d.queue, i)
<1> DEFINE e == Running(d, k)
<1>1. /\ Runs(e, i, k, c, id) /\ Leads(d, e) /\ Others(d, e, i)
      /\ ItemsIn(e.queue, i) = ItemsIn(d.queue, i) /\ e.cancel = d.cancel
      /\ RowsIn(e.steps, i)[k].retry = RowsIn(d.steps, i)[k].retry
      /\ RowsIn(e.steps, i)[k].name = RowsIn(d.steps, i)[k].name
      /\ e.steps[k].name = d.steps[k].name
  BY MarkedRuns
<1> HIDE DEF e
<1>2. k \in DOMAIN RowsIn(e.steps, i) /\ k \in DOMAIN RowsIn(d.steps, i) BY <1>1 DEF Runs, At, Before
<1>3. RowsIn(e.steps, i)[k] = e.steps[k] /\ RowsIn(d.steps, i)[k] = d.steps[k]
  <2>1. Good(e) /\ Good(d) BY <1>1 DEF Runs
  <2>2. \A x \in DOMAIN RowsIn(e.steps, i) : RowsIn(e.steps, i)[x] = e.steps[x] BY <2>1, RowsOf
  <2>3. RowsIn(d.steps, i)[k] = d.steps[k] BY <1>2, <2>1, RowsOf
  <2>4. QED BY <1>2, <2>2, <2>3
<1>4. QED BY <1>1, <1>3 DEF Runs, e

\* OnStepStart fails: the item is lost, but the row is not in another state.
LEMMA RejectedStep ==
    ASSUME Now, SInv, NEW w \in Workers, NEW q \in db.queue, RejectedByPlugin(w, q)
    PROVE  StepFor(q.inst)
<1> DEFINE i == q.inst
           k == q.step
           R == RowsIn(db.steps, i)
           Q == ItemsIn(db.queue, i)
<1>1. /\ StoreKind # "postgres" /\ Commit(w, q.id, db) /\ calls' = calls
      /\ Forward(w, q, StepTypes)
  BY DEF RejectedByPlugin
<1>2. /\ Runs(db, q.inst, q.step, calls[q.inst], q.id) /\ Mine(w, q.id)
      /\ \A r \in db.queue : r.id = q.id => r.inst = q.inst
  BY <1>1, ForwardRuns
<1>3. Good(db) /\ Ordered(R) /\ Fresh(R, calls[i]) /\ Q \subseteq {<<q.id, k>>} /\ q.id \in Nat
      /\ At(i, R, calls[i], k, {"pending", "running", "failed"}) /\ db.inst[i] = "running"
      /\ LettersIn(db.dlq, i) = {}
  BY <1>2 DEF Runs
<1>4. {p \in Q : p[1] # q.id} = {} BY <1>3
<1>5. Valid(i, "running", R, {}, {}, calls[i])
  <2> HIDE DEF R, i, k
  <2>1. {} \subseteq {<<q.id, k>>} OBVIOUS
  <2>2. QED BY <1>1, <1>3, <2>1, RunningValid
<1>6. Leads(db, db) /\ Others(db, db, i)
  BY <1>3, LeadsRefl DEF Others, SameFor
<1>7. After(db, db, i, q.id, calls'[i]) BY <1>1, <1>3, <1>4, <1>5, <1>6 DEF After
<1>8. QED BY <1>1, <1>2, <1>7, RunsCommit

\* The row of a running instance is locked by nobody else.
LEMMA NotLocked ==
    ASSUME Now, SInv, NEW w \in Workers, NEW i, NEW k, NEW c, NEW id, Runs(db, i, k, c, id), Mine(w, id)
    PROVE  k \notin Locked(w)
<1> SUFFICES ASSUME k \in Locked(w) PROVE FALSE OBVIOUS
<1>1. PICK v \in Workers \ {w} : wk[v].kind # "idle" /\ wk[v].step = k BY DEF Locked, Busy
<1>2. WorkersSound(db, wk) /\ wk[v] \in InFlight BY <1>1, BusyIs DEF Now, Sound, WorkersSound
<1>3. IsRow(db, wk[v].inst, k) BY <1>1, <1>2 DEF WorkersSound
<1>4. IsRow(db, i, k) BY RunsRow
<1>5. wk[v].inst = i BY <1>3, <1>4 DEF IsRow
<1>6. WorkerValid(db, wk[v]) BY <1>1 DEF SInv, WorkersValid
<1>7. <<wk[v].item, k>> \in ItemsIn(db.queue, i) BY <1>1, <1>5, <1>6 DEF WorkerValid
<1>8. <<wk[v].item, k>> = <<id, k>> BY <1>7 DEF Runs
<1>9. wk[v].item = id BY <1>8
<1>10. QED BY <1>1, <1>9 DEF Mine

\* A cancel request is found before the step is executed.
LEMMA CancelAtStartStep ==
    ASSUME Sequential, Now, SInv, NEW w \in Workers, NEW q \in db.queue, CancelAtStart(w, q)
    PROVE  StepFor(q.inst)
<1> DEFINE i == q.inst
           k == q.step
           c == calls[i]
           n == db.steps[k].name
           y == c[n]
           e == handleCancellation(db, i, Locked(w))
<1>1. Commit(w, q.id, e) /\ calls' = calls /\ Forward(w, q, StepTypes) BY DEF CancelAtStart
<1>2. /\ Runs(db, q.inst, q.step, calls[q.inst], q.id) /\ Mine(w, q.id)
      /\ \A r \in db.queue : r.id = q.id => r.inst = q.inst
  BY <1>1, ForwardRuns
<1>3. /\ CallsOf(c, c, n, c[n]) /\ Called(c[n], c[n], {0}) /\ Called(c[n], c[n], {0, 1})
      /\ c[n].ok = 0 /\ c[n] \in Calls
  BY <1>2, NoCall
<1>4. k \notin Locked(w) BY <1>2, NotLocked
<1>5. y.ok > 0 => Def[n].type = "task"
  <2>1. y.ok = 0 BY <1>3
  <2> HIDE DEF y, n
  <2>2. QED BY <2>1
<1>6. After(db, e, i, q.id, c)
  <2> DEFINE locked == Locked(w)
  <2>1. k \notin locked BY <1>4
  <2> HIDE DEF locked, c, y
  <2>2. CallsOf(c, c, n, y) /\ Called(c[n], y, {0, 1}) BY <1>3 DEF y
  <2>3. Runs(db, i, k, c, q.id) BY <1>2 DEF c
  <2> HIDE DEF i, k
  <2>4. After(db, handleCancellation(db, i, locked), i, q.id, c)
    BY <1>5, <2>1, <2>2, <2>3, CancellationAfter
  <2>5. QED BY <2>4 DEF locked
<1>7. After(db, e, i, q.id, calls'[i]) BY <1>1, <1>6
<1> HIDE DEF e
<1>8. QED BY <1>1, <1>2, <1>7, RunsCommit

\* A step without a handler succeeds: a save point, or a condition with a result.
LEMMA ExecutedStep ==
    ASSUME Sequential, Now, SInv, NEW w \in Workers, NEW q \in db.queue, NEW types,
           Forward(w, q, types), Def[db.steps[q.step].name].type # "task", NEW next \in BOOLEAN,
           Commit(w, q.id, handleStepSuccess(Running(db, q.step), q.inst, q.step, next)),
           calls' = calls
    PROVE  StepFor(q.inst)
<1> DEFINE i == q.inst
           k == q.step
           c == calls[i]
           n == db.steps[k].name
           d == Running(db, k)
           e == handleStepSuccess(d, i, k, next)
<1>1. /\ Runs(db, q.inst, q.step, calls[q.inst], q.id) /\ Mine(w, q.id)
      /\ \A r \in db.queue : r.id = q.id => r.inst = q.inst
  BY ForwardRuns
<1>2. /\ CallsOf(c, c, n, c[n]) /\ Called(c[n], c[n], {0}) /\ Called(c[n], c[n], {0, 1})
      /\ c[n].ok = 0 /\ c[n] \in Calls
  BY <1>1, NoCall
<1>3. /\ Runs(d, i, k, c, q.id) /\ Leads(db, d) /\ Others(db, d, i) /\ Good(db)
      /\ d.steps[k].name = n
  BY <1>1, MarkedIs
<1>4. Commit(w, q.id, e) OBVIOUS
<1>5. Def[n].type # "task" OBVIOUS
<1> HIDE DEF d, c, n, i, k
<1>6. After(d, e, i, q.id, c)
  <2>1. Called(c[n], c[n], {IF Def[n].type = "task" THEN 1 ELSE 0}) BY <1>2, <1>5
  <2>2. QED BY <1>2, <1>3, <2>1, SuccessAfter
<1> HIDE DEF e
<1>7. After(db, e, i, q.id, c) BY <1>3, <1>6, AfterTrans
<1>8. After(db, e, i, q.id, calls'[i]) BY <1>7 DEF c
<1>9. QED BY <1>1, <1>4, <1>8, RunsCommit DEF i

\* A condition cannot be evaluated.
LEMMA ConditionFailedStep ==
    ASSUME Sequential, Now, SInv, NEW w \in Workers, NEW q \in db.queue, NEW types,
           Forward(w, q, types), ~IsSavePoint(db.steps[q.step].name),
           Commit(w, q.id, handleStepFailure(Running(db, q.step), q.inst, q.step,
                                             db.steps[q.step].retry)),
           calls' = calls
    PROVE  StepFor(q.inst)
<1> DEFINE i == q.inst
           k == q.step
           c == calls[i]
           n == db.steps[k].name
           d == Running(db, k)
           retry == db.steps[k].retry
           e == handleStepFailure(d, i, k, retry)
<1>1. /\ Runs(db, q.inst, q.step, calls[q.inst], q.id) /\ Mine(w, q.id)
      /\ \A r \in db.queue : r.id = q.id => r.inst = q.inst
  BY ForwardRuns
<1>2. /\ CallsOf(c, c, n, c[n]) /\ Called(c[n], c[n], {0}) /\ Called(c[n], c[n], {0, 1})
      /\ c[n].ok = 0 /\ c[n] \in Calls
  BY <1>1, NoCall
<1>3. /\ Runs(d, i, k, c, q.id) /\ Leads(db, d) /\ Others(db, d, i) /\ Good(db)
      /\ d.steps[k].name = n /\ d.steps[k].retry = retry
  BY <1>1, MarkedIs
<1>4. Commit(w, q.id, e) /\ ~IsSavePoint(n) OBVIOUS
<1> HIDE DEF d, c, n, i, k, retry
<1>6. After(d, e, i, q.id, c) BY <1>2, <1>3, <1>4, FailureAfter
<1> HIDE DEF e
<1>7. After(db, e, i, q.id, c) BY <1>3, <1>6, AfterTrans
<1>8. After(db, e, i, q.id, calls'[i]) BY <1>7 DEF c
<1>9. QED BY <1>1, <1>4, <1>8, RunsCommit DEF i

\* The calls of ExecuteNext that start no handler.
LEMMA DequeueStep1 ==
    ASSUME Sequential, Now, SInv, NEW w \in Workers, NEW q \in db.queue,
           \/ RejectedByPlugin(w, q) \/ CancelAtStart(w, q) \/ ExecuteSavePoint(w, q)
           \/ \E result \in {"true", "false", "error"} : ExecuteCondition(w, q, result)
    PROVE  \E i \in Instances : StepFor(i)
<1>1. q.inst \in Instances BY ItemRow DEF Now, Sound
<1>2. CASE RejectedByPlugin(w, q) BY <1>1, <1>2, RejectedStep
<1>3. CASE CancelAtStart(w, q) BY <1>1, <1>3, CancelAtStartStep
<1>4. CASE ExecuteSavePoint(w, q)
  <2>1. /\ Forward(w, q, {"savepoint"}) /\ calls' = calls
        /\ Commit(w, q.id, handleStepSuccess(Running(db, q.step), q.inst, q.step, TRUE))
    BY <1>4 DEF ExecuteSavePoint
  <2>2. Def[db.steps[q.step].name].type # "task" BY <2>1 DEF Forward
  <2>3. QED BY <1>1, <2>1, <2>2, ExecutedStep
<1>5. ASSUME NEW result \in {"true", "false", "error"}, ExecuteCondition(w, q, result)
      PROVE  StepFor(q.inst)
  <2>1. Forward(w, q, {"condition"}) /\ calls' = calls BY <1>5 DEF ExecuteCondition
  <2>2. Def[db.steps[q.step].name].type = "condition" BY <2>1 DEF Forward
  <2>3. CASE result = "error"
    <3>1. Commit(w, q.id, handleStepFailure(Running(db, q.step), q.inst, q.step,
                                            db.steps[q.step].retry))
      BY <1>5, <2>3 DEF ExecuteCondition
    <3>2. ~IsSavePoint(db.steps[q.step].name) BY <2>2 DEF IsSavePoint
    <3>3. QED BY <2>1, <3>1, <3>2, ConditionFailedStep
  <2>4. CASE result # "error"
    <3> DEFINE next == result = "true"
    <3>1. Commit(w, q.id, handleStepSuccess(Running(db, q.step), q.inst, q.step, next))
      BY <1>5, <2>4 DEF ExecuteCondition
    <3>2. next \in BOOLEAN OBVIOUS
    <3> HIDE DEF next
    <3>3. QED BY <2>1, <2>2, <3>1, <3>2, ExecutedStep
  <2>5. QED BY <2>3, <2>4
<1>6. QED BY <1>1, <1>2, <1>3, <1>4, <1>5

\* Claiming the item changes nothing.
LEMMA RunsSame ==
    ASSUME NEW d, NEW e, NEW i, NEW k, NEW c, NEW id, Runs(d, i, k, c, id), Good(e),
           SameFor(d, e, i), e.nq = d.nq
    PROVE  Runs(e, i, k, c, id)
BY DEF Runs, SameFor

\* Only the workers, claims and cancel requests change.
LEMMA SameStep ==
    ASSUME SInv, NEW i \in Instances, \A h \in Instances : SameFor(db, db', h), calls' = calls,
           \A w \in Workers : wk'[w].kind # "idle" =>
               WorkerValid(db', wk'[w]) \/ (wk'[w] = wk[w] /\ wk[w].inst \in Instances)
    PROVE  StepFor(i)
<1>1. Others(db, db', i) BY DEF Others
<1>2. ValidIn(db, i, calls) BY DEF SInv
<1>3. ValidIn(db', i, calls') BY <1>2 DEF ValidIn, SameFor
<1>4. db'.inst[i] = db.inst[i] BY DEF SameFor
<1>5. Goes(db.inst[i], db'.inst[i]) BY <1>4 DEF Goes
<1>6. WorkersValid(db', wk')
  <2> SUFFICES ASSUME NEW w \in Workers, wk'[w].kind # "idle", wk'[w] = wk[w], wk[w].inst \in Instances
               PROVE  WorkerValid(db', wk'[w])
    BY DEF WorkersValid
  <2>1. WorkerValid(db, wk[w]) /\ SameFor(db, db', wk[w].inst) BY DEF SInv, WorkersValid
  <2>2. QED BY <2>1, WorkerFrame
<1>7. QED BY <1>1, <1>3, <1>5, <1>6 DEF StepFor

\* A task handler is called.
LEMMA StartTaskStep ==
    ASSUME Now, SInv, NEW w \in Workers, NEW q \in db.queue, StartTask(w, q)
    PROVE  StepFor(q.inst)
<1> DEFINE i == q.inst
           k == q.step
           c == calls[i]
           f == [kind |-> "task", item |-> q.id, step |-> q.step, inst |-> q.inst,
                 retry |-> db.steps[q.step].retry, comp |-> 0, cancelled |-> FALSE]
           d == Claim(db, q, w)
           e == Started(d, q)
<1>1. Forward(w, q, {"task"}) /\ db' = e /\ wk' = [wk EXCEPT ![w] = f] /\ calls' = calls
  BY DEF StartTask
<1>2. /\ Runs(db, q.inst, q.step, calls[q.inst], q.id) /\ Mine(w, q.id)
      /\ q.inst \in Instances /\ IsRow(db, q.inst, q.step)
  BY <1>1, ForwardRuns
<1>3. q.by = Nobody /\ Def[db.steps[k].name].type = "task" BY <1>1 DEF Forward, Dequeues, Dequeuable
<1>4. Good(db) /\ WorkersSound(db, wk) /\ db \in Database BY DEF Now, Sound, Good
<1>5. q \in QueueItem /\ db.steps[k] \in WorkflowStep
  BY <1>2, <1>4, FieldTypes DEF IsRow
<1>6. f \in InFlight BY <1>2, <1>5 DEF InFlight, QueueItem, WorkflowStep
<1>7. f.item = q.id /\ f.step = q.step /\ f.inst = q.inst /\ f.retry = db.steps[k].retry
      /\ f.kind = "task"
  OBVIOUS
<1> HIDE DEF f
<1>8. Good(d) BY <1>3, <1>4, <1>6, <1>7, ClaimSound
<1>9. \A h : SameFor(db, d, h) BY <1>4, ClaimView
<1>10. d.nq = db.nq /\ d.steps = db.steps BY <1>4 DEF Claim, Database
<1> HIDE DEF d
<1>11. Runs(d, i, k, c, q.id) BY <1>2, <1>8, <1>9, <1>10, RunsSame
<1>12. /\ Runs(e, i, k, c, q.id) /\ Others(d, e, i)
       /\ ItemsIn(e.queue, i) = ItemsIn(d.queue, i)
       /\ e.steps[k].name = d.steps[k].name /\ e.steps[k].retry = d.steps[k].retry
  <2>1. CASE StoreKind = "postgres"
    <3>1. e = d BY <2>1 DEF Started
    <3>2. QED BY <1>11, <3>1 DEF Others, SameFor
  <2>2. CASE StoreKind # "postgres"
    <3>1. e = Running(d, k) BY <2>2 DEF Started
    <3>2. LET g == Running(d, k)
          IN  /\ Runs(g, i, k, c, q.id) /\ Leads(d, g) /\ Others(d, g, i) /\ Good(d)
              /\ g.steps[k].name = d.steps[k].name /\ g.steps[k].retry = d.steps[k].retry
              /\ ItemsIn(g.queue, i) = ItemsIn(d.queue, i)
      BY <1>11, MarkedIs
    <3>3. QED BY <3>1, <3>2
  <2>3. QED BY <2>1, <2>2
<1> HIDE DEF e
<1>13. Others(db, e, i)
  <2>1. Others(db, d, i) BY <1>9 DEF Others
  <2>2. QED BY <1>12, <2>1, OthersTrans
<1>14. <<q.id, k>> \in ItemsIn(e.queue, i)
  <2>1. <<q.id, k>> \in ItemsIn(db.queue, i) BY DEF ItemsIn
  <2>2. QED BY <1>9, <1>12, <2>1 DEF SameFor
<1>15. ValidIn(e, i, calls)
  <2> DEFINE R == RowsIn(e.steps, i)
             Q == ItemsIn(e.queue, i)
             S == {"pending", "running", "failed"}
  <2>1. Ordered(R) /\ Fresh(R, c) /\ At(i, R, c, k, S) /\ Q \subseteq {<<q.id, k>>}
        /\ e.inst[i] = "running" /\ LettersIn(e.dlq, i) = {}
    BY <1>12 DEF Runs
  <2>2. Q # {} /\ S \subseteq {"pending", "running", "failed"} BY <1>14
  <2> HIDE DEF R, Q, S, c
  <2>3. Valid(i, "running", R, Q, {}, c) BY <2>1, <2>2, RunningValid
  <2>4. QED BY <2>1, <2>3 DEF ValidIn, R, Q, c
<1>16. WorkerValid(e, f)
  <2>1. k \in DOMAIN RowsIn(e.steps, i) /\ Good(e) /\ e.inst[i] = "running"
    BY <1>12 DEF Runs, At, Before
  <2> HIDE DEF i, k
  <2>2. \A x \in DOMAIN RowsIn(e.steps, i) : RowsIn(e.steps, i)[x] = e.steps[x] BY <2>1, RowsOf
  <2>3. RowsIn(e.steps, i)[k].retry = f.retry /\ Def[RowsIn(e.steps, i)[k].name].type = "task"
    BY <1>3, <1>7, <1>10, <1>12, <2>1, <2>2
  <2>4. QED BY <1>7, <1>14, <2>1, <2>3 DEF WorkerValid, i, k
<1>17. \A v \in Workers \ {w} : ~(wk[v].kind # "idle" /\ wk[v].inst = i) BY <1>2, Alone
<1>18. WorkersValid(e, wk')
  <2>1. \A v \in Workers : wk'[v] = IF v = w THEN f ELSE wk[v] BY <1>1, <1>4 DEF WorkersSound
  <2>2. \A v \in Workers : wk'[v].kind # "idle" =>
               \/ WorkerValid(e, wk'[v])
               \/ wk'[v] = wk[v] /\ wk[v].inst # i
    BY <1>16, <1>17, <2>1
  <2>3. WorkersValid(db, wk) BY DEF SInv
  <2>4. QED BY <1>13, <2>2, <2>3, WorkersFrame
<1>19. db.inst[i] = "running" BY <1>2 DEF Runs
<1>20. Goes(db.inst[i], e.inst[i]) BY <1>19 DEF Goes
<1>21. QED BY <1>1, <1>13, <1>15, <1>18, <1>20 DEF StepFor

\* A compensation handler is called.
LEMMA StartCompensationStep ==
    ASSUME Now, SInv, NEW w \in Workers, NEW q \in db.queue, StartCompensation(w, q)
    PROVE  StepFor(q.inst)
<1> DEFINE i == q.inst
           k == q.step
           f == [kind |-> "compensation", item |-> q.id, step |-> q.step, inst |-> q.inst,
                 retry |-> 0, comp |-> CompensationRetryCount(db, q.step), cancelled |-> FALSE]
           d == Claim(db, q, w)
<1>1. db' = d /\ wk' = [wk EXCEPT ![w] = f] /\ calls' = calls
      /\ db.steps[k].status = "compensation"
  BY DEF StartCompensation
<1>2. Good(db) /\ WorkersSound(db, wk) /\ calls \in [Instances -> [Steps -> Calls]]
  BY DEF Now, Sound
<1>3. i \in Instances BY <1>2, ItemRow
<1>4. \A h : SameFor(db, d, h) BY <1>2, ClaimView
<1>5. <<q.id, k>> \in ItemsIn(db.queue, i) BY DEF ItemsIn
<1>6. ValidIn(db, i, calls) BY <1>3 DEF SInv
<1>7. /\ IsRow(db, i, k)
      /\ \/ db.inst[i] = "running" /\ db.steps[k].status \in {"pending", "running", "failed"}
            /\ Runs(db, i, k, calls[i], q.id)
         \/ db.inst[i] \in {"failed", "cancelled"} /\ db.steps[k].status = "compensation"
            /\ Undoes(db, i, k, calls[i], q.id)
  BY <1>2, <1>3, <1>5, <1>6, ItemIs DEF ValidIn
<1>8. db.inst[i] \in {"failed", "cancelled"} BY <1>1, <1>7
<1>9. RowsIn(db.steps, i)[k] = db.steps[k]
  <2>1. k \in Rows(db, i) BY <1>2, <1>7, RowsInIs
  <2>2. QED BY <1>2, <2>1, RowsInIs
<1>10. f.item = q.id /\ f.step = k /\ f.inst = i /\ f.kind = "compensation"
       /\ f.comp = CompensationRetryCount(db, k)
  OBVIOUS
<1> HIDE DEF f, d
<1>11. WorkerValid(d, f)
  <2>1. <<q.id, k>> \in ItemsIn(d.queue, i) /\ d.inst[i] \in {"failed", "cancelled"}
        /\ RowsIn(d.steps, i)[k].comp = db.steps[k].comp
    BY <1>4, <1>5, <1>8, <1>9 DEF SameFor
  <2>2. QED BY <1>10, <2>1 DEF WorkerValid, CompensationRetryCount
<1>12. \A v \in Workers : wk'[v].kind # "idle" =>
               WorkerValid(db', wk'[v]) \/ (wk'[v] = wk[v] /\ wk[v].inst \in Instances)
  <2>1. \A v \in Workers : wk'[v] = IF v = w THEN f ELSE wk[v] BY <1>1, <1>2 DEF WorkersSound
  <2>2. \A v \in Workers : wk[v].kind # "idle" => wk[v].inst \in Instances
    BY <1>2, BusyIs DEF WorkersSound, InFlight
  <2>3. QED BY <1>1, <1>11, <2>1, <2>2
<1>13. QED BY <1>1, <1>3, <1>4, <1>12, SameStep

\* Cancelling a context, and losing a worker.
LEMMA TickCrashStep ==
    ASSUME Now, SInv, NEW w \in Workers, CancelTick(w) \/ Crash(w)
    PROVE  \E i \in Instances : StepFor(i)
<1> DEFINE i == wk[w].inst
<1>1. Good(db) /\ WorkersSound(db, wk) BY DEF Now, Sound
<1>2. wk[w] \in InFlight /\ i \in Instances
  <2>1. wk[w].kind # "idle" BY DEF CancelTick, Crash, Busy
  <2>2. QED BY <1>1, <2>1, BusyIs DEF WorkersSound, InFlight
<1>3. \A v \in Workers : wk[v].kind # "idle" => wk[v].inst \in Instances
  BY <1>1, BusyIs DEF WorkersSound, InFlight
<1>4. CASE CancelTick(w)
  <2> DEFINE f == [wk[w] EXCEPT !.cancelled = TRUE]
  <2>1. f.item = wk[w].item /\ f.inst = wk[w].inst /\ f.step = wk[w].step /\ f.kind = wk[w].kind
        /\ f.retry = wk[w].retry /\ f.comp = wk[w].comp
    BY <1>2 DEF InFlight
  <2>2. wk' = [wk EXCEPT ![w] = f] /\ db' = db /\ calls' = calls BY <1>4 DEF CancelTick
  <2> HIDE DEF f
  <2>3. \A v \in Workers : wk'[v] = IF v = w THEN f ELSE wk[v] BY <1>1, <2>2 DEF WorkersSound
  <2>4. wk[w].kind # "idle" => WorkerValid(db, f)
    BY <2>1 DEF SInv, WorkersValid, WorkerValid
  <2>5. \A v \in Workers : wk'[v].kind # "idle" =>
               WorkerValid(db', wk'[v]) \/ (wk'[v] = wk[v] /\ wk[v].inst \in Instances)
    BY <1>3, <2>1, <2>2, <2>3, <2>4
  <2>6. \A h \in Instances : SameFor(db, db', h) BY <2>2 DEF SameFor
  <2>7. QED BY <1>2, <2>2, <2>5, <2>6, SameStep
<1>5. CASE Crash(w)
  <2>1. wk' = [wk EXCEPT ![w] = Idle] /\ calls' = calls BY <1>5 DEF Crash
  <2>2. \A h \in Instances : SameFor(db, db', h)
    <3>1. db' = db \/ db' = ReleaseQueueItem(db, wk[w].item) BY <1>5 DEF Crash
    <3>2. \A h : SameFor(db, ReleaseQueueItem(db, wk[w].item), h) BY <1>1, ReleaseView
    <3>3. \A h : SameFor(db, db, h) BY DEF SameFor
    <3>4. QED BY <3>1, <3>2, <3>3
  <2>3. \A v \in Workers : wk'[v].kind # "idle" => wk'[v] = wk[v]
    <3>1. Idle.kind = "idle" BY DEF Idle
    <3>2. QED BY <1>1, <2>1, <3>1 DEF WorkersSound
  <2>4. \A v \in Workers : wk'[v].kind # "idle" =>
               WorkerValid(db', wk'[v]) \/ (wk'[v] = wk[v] /\ wk[v].inst \in Instances)
    BY <1>3, <2>3
  <2>5. QED BY <1>2, <2>1, <2>2, <2>4, SameStep
<1>6. QED BY <1>4, <1>5

\* A task handler returned: the calls of its step.
LEMMA TaskCalls ==
    ASSUME NEW c \in [Steps -> Calls], NEW n \in Steps, c[n].ok = 0, NEW ok \in BOOLEAN
    PROVE  LET y2 == TaskReturned(c[n], ok)
           IN  /\ CallsOf(c, [c EXCEPT ![n] = y2], n, y2) /\ Called(c[n], y2, {0, 1})
               /\ Called(c[n], y2, {IF ok THEN 1 ELSE 0})
<1> DEFINE y2 == TaskReturned(c[n], ok)
<1>1. c[n] \in Calls /\ y2 \in Calls BY CallsType
<1>2. y2.run = c[n].run + 1 /\ y2.ok = (IF ok THEN 1 ELSE 0) /\ y2.undo = c[n].undo
      /\ y2.undone = c[n].undone /\ c[n].run \in Nat
  BY <1>1 DEF TaskReturned, Calls
<1> HIDE DEF y2
<1>3. Called(c[n], y2, {0, 1}) /\ Called(c[n], y2, {IF ok THEN 1 ELSE 0}) BY <1>2 DEF Called
<1>4. CallsOf(c, [c EXCEPT ![n] = y2], n, y2) BY <1>1 DEF CallsOf
<1>5. QED BY <1>3, <1>4 DEF y2

\* A compensation handler returned.
LEMMA CompensationCalls ==
    ASSUME NEW c \in [Steps -> Calls], NEW n \in Steps, c[n].undone = 0, NEW ok \in BOOLEAN
    PROVE  LET y2 == CompensationReturned(c[n], ok)
           IN  /\ CallsOf(c, [c EXCEPT ![n] = y2], n, y2)
               /\ Undid(c[n], y2, IF ok THEN 1 ELSE 0)
<1> DEFINE y2 == CompensationReturned(c[n], ok)
<1>1. c[n] \in Calls /\ y2 \in Calls BY CallsType
<1>2. y2.undo = c[n].undo + 1 /\ y2.undone = (IF ok THEN 1 ELSE 0) /\ y2.run = c[n].run
      /\ y2.ok = c[n].ok
  BY <1>1 DEF CompensationReturned, Calls
<1> HIDE DEF y2
<1>3. Undid(c[n], y2, IF ok THEN 1 ELSE 0) BY <1>2 DEF Undid
<1>4. CallsOf(c, [c EXCEPT ![n] = y2], n, y2) BY <1>1 DEF CallsOf
<1>5. QED BY <1>3, <1>4 DEF y2

\* The content a task's transaction ends with.
FinishedTask(d, i, k, cancelled, ok, retry, locked) ==
    CASE cancelled -> handleCancellation(d, i, locked)
      [] ~cancelled /\ ok -> handleStepSuccess(d, i, k, TRUE)
      [] OTHER -> handleStepFailure(d, i, k, retry)

\* Each of the ways a task ends leaves the instance as it should be.
LEMMA FinishedTaskAfter ==
    ASSUME Sequential, NEW d, NEW i, NEW k, NEW c, NEW id, Runs(d, i, k, c, id),
           NEW c2, NEW y2, CallsOf(c, c2, d.steps[k].name, y2),
           Def[d.steps[k].name].type = "task", NEW ok \in BOOLEAN,
           Called(c[d.steps[k].name], y2, {0, 1}),
           Called(c[d.steps[k].name], y2, {IF ok THEN 1 ELSE 0}),
           NEW locked, k \notin locked, NEW retry, retry = d.steps[k].retry,
           NEW cancelled \in BOOLEAN
    PROVE  After(d, FinishedTask(d, i, k, cancelled, ok, retry, locked), i, id, c2)
<1>1. CASE cancelled
  <2>1. FinishedTask(d, i, k, cancelled, ok, retry, locked) = handleCancellation(d, i, locked)
    BY <1>1 DEF FinishedTask
  <2>2. After(d, handleCancellation(d, i, locked), i, id, c2) BY CancellationAfter
  <2>3. QED BY <2>1, <2>2
<1>2. CASE ~cancelled /\ ok
  <2>1. FinishedTask(d, i, k, cancelled, ok, retry, locked) = handleStepSuccess(d, i, k, TRUE)
    BY <1>2 DEF FinishedTask
  <2>2. Called(c[d.steps[k].name], y2, {IF Def[d.steps[k].name].type = "task" THEN 1 ELSE 0})
    BY <1>2
  <2>3. After(d, handleStepSuccess(d, i, k, TRUE), i, id, c2) BY <2>2, SuccessAfter
  <2>4. QED BY <2>1, <2>3
<1>3. CASE ~cancelled /\ ~ok
  <2>1. FinishedTask(d, i, k, cancelled, ok, retry, locked) = handleStepFailure(d, i, k, retry)
    BY <1>3 DEF FinishedTask
  <2>2. Called(c[d.steps[k].name], y2, {0}) BY <1>3
  <2>3. ~IsSavePoint(d.steps[k].name) BY DEF IsSavePoint
  <2>4. After(d, handleStepFailure(d, i, k, retry), i, id, c2) BY <2>2, <2>3, FailureAfter
  <2>5. QED BY <2>1, <2>4
<1>4. QED BY <1>1, <1>2, <1>3

\* A worker inside a handler, by what the invariant says.
LEMMA WorkerIs ==
    ASSUME Now, SInv, NEW w \in Workers, wk[w].kind # "idle"
    PROVE  LET f == wk[w]
               c == calls[f.inst]
           IN  /\ f \in InFlight /\ f.inst \in Instances /\ WorkerValid(db, f) /\ Mine(w, f.item)
               /\ c \in [Steps -> Calls]
               /\ f.item \in Nat /\ f.item < db.nq
               /\ \A q \in db.queue : q.id = f.item => q.inst = f.inst
               /\ db.inst[f.inst] = "running" => Runs(db, f.inst, f.step, c, f.item)
               /\ db.inst[f.inst] # "running" => Undoes(db, f.inst, f.step, c, f.item)
<1> DEFINE f == wk[w]
           i == f.inst
           c == calls[i]
<1>1. Good(db) /\ WorkersSound(db, wk) /\ calls \in [Instances -> [Steps -> Calls]]
  BY DEF Now, Sound
<1>2. f \in InFlight /\ i \in Instances BY <1>1, BusyIs DEF WorkersSound, InFlight
<1>3. WorkerValid(db, f) BY DEF SInv, WorkersValid
<1>4. Mine(w, f.item) BY MineIs
<1>5. c \in [Steps -> Calls] BY <1>1, <1>2
<1>6. <<f.item, f.step>> \in ItemsIn(db.queue, i) BY <1>3 DEF WorkerValid
<1>7. ValidIn(db, i, calls) BY <1>2 DEF SInv
<1>8. /\ f.item \in Nat /\ f.item < db.nq
      /\ \A q \in db.queue : q.id = f.item => q.inst = i
      /\ \/ db.inst[i] = "running" /\ db.steps[f.step].status \in {"pending", "running", "failed"}
            /\ Runs(db, i, f.step, c, f.item)
         \/ db.inst[i] \in {"failed", "cancelled"} /\ db.steps[f.step].status = "compensation"
            /\ Undoes(db, i, f.step, c, f.item)
  BY <1>1, <1>2, <1>5, <1>6, <1>7, ItemIs DEF ValidIn
<1>9. QED BY <1>2, <1>3, <1>4, <1>5, <1>8

\* A task handler returned and its result is applied.
LEMMA FinishTaskStep ==
    ASSUME Sequential, Now, SInv, NEW w \in Workers, NEW ok \in BOOLEAN, FinishTask(w, ok)
    PROVE  StepFor(wk[w].inst)
<1> DEFINE f == wk[w]
           i == f.inst
           k == f.step
           id == f.item
           c == calls[i]
           n == db.steps[k].name
           y2 == TaskReturned(c[n], ok)
           c2 == [c EXCEPT ![n] = y2]
           d == IF StoreKind = "postgres" THEN Running(db, k) ELSE db
           cancelled == f.cancelled /\ db.cancel[i] # "none"
           e == FinishedTask(d, i, k, cancelled, ok, f.retry, Locked(w))
<1>1. f.kind = "task" /\ Commit(w, id, e) /\ calls' = [calls EXCEPT ![i][n] = TaskReturned(@, ok)]
  BY DEF FinishTask, FinishedTask
<1>2. /\ f \in InFlight /\ i \in Instances /\ WorkerValid(db, f) /\ Mine(w, id)
      /\ c \in [Steps -> Calls]
      /\ id \in Nat /\ id < db.nq
      /\ \A q \in db.queue : q.id = id => q.inst = i
      /\ db.inst[i] = "running" => Runs(db, i, k, c, id)
      /\ db.inst[i] # "running" => Undoes(db, i, k, c, id)
  BY <1>1, WorkerIs
<1>3. /\ db.inst[i] = "running" /\ f.retry = RowsIn(db.steps, i)[k].retry
      /\ Def[RowsIn(db.steps, i)[k].name].type = "task"
  BY <1>1, <1>2 DEF WorkerValid
<1>4. Runs(db, i, k, c, id) BY <1>2, <1>3
<1>5. calls' = [calls EXCEPT ![i] = c2]
  <2>1. calls \in [Instances -> [Steps -> Calls]] BY DEF Now, Sound
  <2>2. QED BY <1>1, <1>2, <2>1
<1>6. calls'[i] = c2 /\ \A h \in Instances \ {i} : calls'[h] = calls[h]
  <2>1. calls \in [Instances -> [Steps -> Calls]] BY DEF Now, Sound
  <2> HIDE DEF c2, i
  <2>2. QED BY <1>2, <1>5, <2>1
<1>7. cancelled \in BOOLEAN OBVIOUS
<1>8. k \notin Locked(w) BY <1>2, <1>4, NotLocked
<1> DEFINE locked == Locked(w)
           retry == f.retry
<1>9. Commit(w, id, FinishedTask(d, i, k, cancelled, ok, retry, locked)) /\ k \notin locked
  BY <1>1, <1>8
<1>10. retry = RowsIn(db.steps, i)[k].retry BY <1>3
<1> HIDE DEF locked, retry, cancelled, f, i, k, id, c, n
<1>11. /\ RowsIn(db.steps, i)[k] = db.steps[k] /\ n \in Steps /\ c[n].ok = 0
  <2>1. /\ CallsOf(c, c, db.steps[k].name, c[db.steps[k].name])
        /\ Called(c[db.steps[k].name], c[db.steps[k].name], {0})
        /\ Called(c[db.steps[k].name], c[db.steps[k].name], {0, 1})
        /\ c[db.steps[k].name].ok = 0 /\ c[db.steps[k].name] \in Calls
    BY <1>4, NoCall
  <2> DEFINE R == RowsIn(db.steps, i)
  <2>2. /\ IsRow(db, i, k) /\ k \in DOMAIN R /\ R[k] = db.steps[k] /\ R[k] \in WorkflowStep
        /\ R[k].name \in Steps /\ c[R[k].name] \in Calls /\ Before(i, R, c, k)
        /\ Active(i, R[k], c[R[k].name], {"pending", "running", "failed"})
        /\ R = [x \in DOMAIN R |-> R[x]]
    BY <1>4, RunsRow
  <2>3. QED BY <2>1, <2>2 DEF n
<1>12. /\ CallsOf(c, c2, n, y2) /\ Called(c[n], y2, {0, 1})
       /\ Called(c[n], y2, {IF ok THEN 1 ELSE 0})
  BY <1>2, <1>11, TaskCalls
<1> HIDE DEF c2, y2
<1>13. /\ Runs(d, i, k, c, id) /\ Leads(db, d) /\ Others(db, d, i) /\ Good(db)
       /\ d.steps[k].name = n /\ d.steps[k].retry = db.steps[k].retry
  <2>1. CASE StoreKind = "postgres"
    <3>1. LET g == Running(db, k)
          IN  /\ Runs(g, i, k, c, id) /\ Leads(db, g) /\ Others(db, g, i) /\ Good(db)
              /\ g.steps[k].name = db.steps[k].name /\ g.steps[k].retry = db.steps[k].retry
              /\ ItemsIn(g.queue, i) = ItemsIn(db.queue, i)
      BY <1>4, MarkedIs
    <3>2. d = Running(db, k) BY <2>1
    <3>3. QED BY <3>1, <3>2 DEF n
  <2>2. CASE StoreKind # "postgres"
    <3>1. Good(db) BY <1>4 DEF Runs
    <3>2. d = db BY <2>2
    <3>3. QED BY <1>4, <3>1, <3>2, LeadsRefl DEF Others, SameFor, n
  <2>3. QED BY <2>1, <2>2
<1> HIDE DEF d
<1>14. After(d, FinishedTask(d, i, k, cancelled, ok, retry, locked), i, id, c2)
  <2>1. Def[n].type = "task" /\ retry = d.steps[k].retry
    BY <1>3, <1>10, <1>11, <1>13 DEF n
  <2>2. QED BY <1>7, <1>9, <1>12, <1>13, <2>1, FinishedTaskAfter
<1> DEFINE g == FinishedTask(d, i, k, cancelled, ok, retry, locked)
<1>15. After(db, g, i, id, c2)
  <2> HIDE DEF g
  <2>1. After(d, g, i, id, c2) BY <1>14 DEF g
  <2>2. QED BY <1>13, <2>1, AfterTrans
<1>16. StepFor(i)
  <2>1. Runs(db, i, k, calls[i], id) BY <1>4 DEF c
  <2>2. After(db, g, i, id, calls'[i]) /\ Commit(w, id, g) BY <1>6, <1>9, <1>15
  <2> HIDE DEF g
  <2>3. QED BY <1>2, <1>6, <2>1, <2>2, RunsCommit
<1>17. QED BY <1>16 DEF i, f

\* A compensation handler returned and its result is applied.
LEMMA FinishCompensationStep ==
    ASSUME Sequential, Now, SInv, NEW w \in Workers, NEW ok \in BOOLEAN, FinishCompensation(w, ok)
    PROVE  StepFor(wk[w].inst)
<1> DEFINE f == wk[w]
           i == f.inst
           k == f.step
           id == f.item
           c == calls[i]
           n == db.steps[k].name
           y2 == CompensationReturned(c[n], ok)
           c2 == [c EXCEPT ![n] = y2]
           comp == f.comp
           e == IF ok THEN compensationSucceeded(db, i, k) ELSE compensationFailed(db, i, k, comp)
<1>1. f.kind = "compensation" /\ Commit(w, id, e)
      /\ calls' = [calls EXCEPT ![i][n] = CompensationReturned(@, ok)]
  BY DEF FinishCompensation
<1>2. /\ f \in InFlight /\ i \in Instances /\ WorkerValid(db, f) /\ Mine(w, id)
      /\ c \in [Steps -> Calls]
      /\ id \in Nat /\ id < db.nq
      /\ \A q \in db.queue : q.id = id => q.inst = i
      /\ db.inst[i] = "running" => Runs(db, i, k, c, id)
      /\ db.inst[i] # "running" => Undoes(db, i, k, c, id)
  BY <1>1, WorkerIs
<1>3. /\ db.inst[i] \in {"failed", "cancelled"}
      /\ comp = (IF StoreKind = "postgres" THEN 0 ELSE RowsIn(db.steps, i)[k].comp)
  BY <1>1, <1>2 DEF WorkerValid
<1>4. Undoes(db, i, k, c, id) BY <1>2, <1>3
<1>5. calls' = [calls EXCEPT ![i] = c2]
  <2>1. calls \in [Instances -> [Steps -> Calls]] BY DEF Now, Sound
  <2>2. QED BY <1>1, <1>2, <2>1
<1>6. calls'[i] = c2 /\ \A h \in Instances \ {i} : calls'[h] = calls[h]
  <2>1. calls \in [Instances -> [Steps -> Calls]] BY DEF Now, Sound
  <2> HIDE DEF c2, i
  <2>2. QED BY <1>2, <1>5, <2>1
<1>7. comp \in Nat BY <1>2 DEF InFlight
<1> HIDE DEF comp, f, i, k, id, c, n
<1>8. RowsIn(db.steps, i)[k] = db.steps[k] /\ n \in Steps /\ c[n].undone = 0
  <2> DEFINE R == RowsIn(db.steps, i)
             Q == ItemsIn(db.queue, i)
             s == db.inst[i]
  <2>1. /\ IsRow(db, i, k) /\ k \in DOMAIN R /\ R[k] = db.steps[k] /\ R[k] \in WorkflowStep
        /\ R[k].name \in Steps /\ c[R[k].name] \in Calls /\ R[k].status = "compensation"
        /\ R = [x \in DOMAIN R |-> R[x]] /\ Typed(R, c)
    BY <1>4, UndoesRow
  <2>2. Stopped1(i, s, R, Q, c) BY <1>4 DEF Undoes
  <2>3. c[R[k].name].undone = 0
    <3> HIDE DEF R, Q, s
    <3>1. QED BY <2>1, <2>2 DEF Stopped1, Undoing
  <2>4. QED BY <2>1, <2>3 DEF n
<1>9. CallsOf(c, c2, n, y2) /\ Undid(c[n], y2, IF ok THEN 1 ELSE 0)
  BY <1>2, <1>8, CompensationCalls
<1> HIDE DEF c2, y2
<1>10. After(db, e, i, id, c2) /\ OthersUndone(db, e, i, k)
  <2>1. CASE ok
    <3>1. e = compensationSucceeded(db, i, k) BY <2>1
    <3>2. CallsOf(c, c2, db.steps[k].name, y2) /\ Undid(c[db.steps[k].name], y2, 1)
      BY <1>9, <2>1 DEF n
    <3>3. LET g == compensationSucceeded(db, i, k)
          IN  After(db, g, i, id, c2) /\ OthersUndone(db, g, i, k)
      BY <1>4, <3>2, CompensationSucceededAfter
    <3>4. QED BY <3>1, <3>3
  <2>2. CASE ~ok
    <3>1. e = compensationFailed(db, i, k, comp) BY <2>2
    <3>2. CallsOf(c, c2, db.steps[k].name, y2) /\ Undid(c[db.steps[k].name], y2, 0)
      BY <1>9, <2>2 DEF n
    <3>3. StoreKind # "postgres" => comp = db.steps[k].comp BY <1>3, <1>8
    <3>4. LET g == compensationFailed(db, i, k, comp)
          IN  After(db, g, i, id, c2) /\ OthersUndone(db, g, i, k)
      BY <1>4, <1>7, <3>2, <3>3, CompensationFailedAfter
    <3>5. QED BY <3>1, <3>4
  <2>3. QED BY <2>1, <2>2
<1> HIDE DEF e
<1>11. StepFor(i)
  <2>1. Undoes(db, i, k, calls[i], id) BY <1>4 DEF c
  <2>2. After(db, e, i, id, calls'[i]) BY <1>6, <1>10
  <2>3. QED BY <1>1, <1>2, <1>6, <1>10, <2>1, <2>2, UndoesCommit
<1>12. QED BY <1>11 DEF i, f

\* A call of the API for an instance nobody works for.
LEMMA QuietStep ==
    ASSUME Now, SInv, NEW i \in Instances, ItemsIn(db.queue, i) = {}, Others(db, db', i),
           ValidIn(db', i, calls), calls' = calls, wk' = wk, Goes(db.inst[i], db'.inst[i])
    PROVE  StepFor(i)
<1>1. \A v \in Workers : wk[v].kind # "idle" => wk[v].inst # i
  <2> SUFFICES ASSUME NEW v \in Workers, wk[v].kind # "idle", wk[v].inst = i PROVE FALSE OBVIOUS
  <2>1. WorkerValid(db, wk[v]) BY DEF SInv, WorkersValid
  <2>2. QED BY <2>1 DEF WorkerValid
<1>2. WorkersValid(db, wk) BY DEF SInv
<1>3. WorkersValid(db', wk') BY <1>1, <1>2, WorkersFrame
<1>4. QED BY <1>3 DEF StepFor

\* The calls of the API.
LEMMA ApiStep ==
    ASSUME Sequential, Now, SInv, Api PROVE \E i \in Instances : StepFor(i)
<1>1. Good(db) /\ WorkersSound(db, wk) /\ calls \in [Instances -> [Steps -> Calls]]
  BY DEF Now, Sound
<1>2. ASSUME NEW i \in Instances, StartWorkflow(i) PROVE StepFor(i)
  <2> DEFINE e == enqueueNextSteps(UpdateInstanceStatus(db, i, "running"), i, <<Start[i]>>)
  <2>1. db.inst[i] = "none" /\ db' = e /\ wk' = wk /\ calls' = calls BY <1>2 DEF StartWorkflow
  <2>2. ValidIn(db, i, calls) BY DEF SInv
  <2>3. Valid(i, db.inst[i], RowsIn(db.steps, i), ItemsIn(db.queue, i), LettersIn(db.dlq, i), calls[i])
    BY <2>2 DEF ValidIn
  <2>4. /\ Leads(db, e) /\ Others(db, e, i)
        /\ Valid(i, e.inst[i], RowsIn(e.steps, i), ItemsIn(e.queue, i), LettersIn(e.dlq, i), calls[i])
    BY <1>1, <2>1, <2>3, StartedLooks
  <2> HIDE DEF e
  <2>5. ItemsIn(db.queue, i) = {} BY <2>1, <2>3 DEF Valid, Phase
  <2>6. Goes(db.inst[i], e.inst[i]) BY <2>1 DEF Goes
  <2>7. ValidIn(e, i, calls) BY <2>4 DEF ValidIn
  <2>8. QED BY <2>1, <2>4, <2>5, <2>6, <2>7, QuietStep
<1>3. ASSUME NEW i \in Instances, NEW kind \in CancelKinds[i], RequestCancel(i, kind) PROVE StepFor(i)
  <2>1. db' = CreateCancelRequest(db, i, kind) /\ wk' = wk /\ calls' = calls
    BY <1>3 DEF RequestCancel
  <2>2. kind \in {"cancel", "abort"} BY EngineAssumption
  <2>3. \A h \in Instances : SameFor(db, db', h) BY <1>1, <2>1, <2>2, CancelView
  <2>4. \A w \in Workers : wk[w].kind # "idle" => wk[w].inst \in Instances
    BY <1>1, BusyIs DEF WorkersSound, InFlight
  <2>5. \A w \in Workers : wk'[w].kind # "idle" =>
               WorkerValid(db', wk'[w]) \/ (wk'[w] = wk[w] /\ wk[w].inst \in Instances)
    BY <2>1, <2>4
  <2>6. QED BY <2>1, <2>3, <2>5, SameStep
<1>4. ASSUME NEW rec \in db.dlq, RequeueFromDLQ(rec) PROVE \E i \in Instances : StepFor(i)
  <2> DEFINE e == RequeueDeadLetter(db, rec)
             i == rec.inst
  <2>1. db' = e /\ wk' = wk /\ calls' = calls BY <1>4 DEF RequeueFromDLQ
  <2>2. i \in Instances
    <3>1. rec \in DeadLetter BY <1>1, FieldTypes DEF Good
    <3>2. QED BY <3>1 DEF DeadLetter
  <2>3. ValidIn(db, i, calls) BY <2>2 DEF SInv
  <2>4. Valid(i, db.inst[i], RowsIn(db.steps, i), ItemsIn(db.queue, i), LettersIn(db.dlq, i), calls[i])
    BY <2>3 DEF ValidIn
  <2>5. /\ db.inst[i] = "dlq" /\ Leads(db, e) /\ Others(db, e, i) /\ e.inst[i] = "running"
        /\ Valid(i, e.inst[i], RowsIn(e.steps, i), ItemsIn(e.queue, i), LettersIn(e.dlq, i), calls[i])
    BY <1>1, <2>2, <2>4, RequeuedLooks
  <2> HIDE DEF e
  <2>6. ItemsIn(db.queue, i) = {} BY <2>4, <2>5 DEF Valid, Phase
  <2>7. Goes(db.inst[i], e.inst[i]) BY <2>5 DEF Goes
  <2>8. ValidIn(e, i, calls) BY <2>5 DEF ValidIn
  <2>9. StepFor(i) BY <2>1, <2>2, <2>5, <2>6, <2>7, <2>8, QuietStep
  <2>10. QED BY <2>2, <2>9
<1>5. ASSUME NEW k \in DOMAIN db.steps, NEW decision, MakeHumanDecision(k, decision) PROVE FALSE
  <2>1. Def[db.steps[k].name].type = "human" BY <1>5 DEF MakeHumanDecision
  <2>2. db.steps[k] \in WorkflowStep BY <1>1, FieldTypes DEF Good
  <2>3. db.steps[k].name \in Steps BY <2>2 DEF WorkflowStep
  <2>4. QED BY <2>1, <2>3, NoJoins
<1>6. QED BY <1>2, <1>3, <1>4, <1>5 DEF Api

\* Every step is one of one instance.
LEMMA NextStepFor ==
    ASSUME Sequential, Now, SInv, Next PROVE \E i \in Instances : StepFor(i)
<1>1. CASE Api BY <1>1, ApiStep
<1>2. ASSUME NEW w \in Workers, ExecuteNext(w) PROVE \E i \in Instances : StepFor(i)
  <2>1. \A q \in db.queue : q.inst \in Instances BY ItemRow DEF Now, Sound
  <2>2. ASSUME NEW q \in db.queue, StartTask(w, q) PROVE \E i \in Instances : StepFor(i)
    BY <2>1, <2>2, StartTaskStep
  <2>3. ASSUME NEW q \in db.queue, StartCompensation(w, q) PROVE \E i \in Instances : StepFor(i)
    BY <2>1, <2>3, StartCompensationStep
  <2>4. ASSUME NEW q \in db.queue,
               \/ RejectedByPlugin(w, q) \/ CancelAtStart(w, q) \/ ExecuteSavePoint(w, q)
               \/ \E result \in {"true", "false", "error"} : ExecuteCondition(w, q, result)
        PROVE  \E i \in Instances : StepFor(i)
    BY <2>4, DequeueStep1
  <2>5. ASSUME NEW q \in db.queue PROVE ~DropFrozen(w, q) /\ ~DropInactive(w, q)
    BY NothingDropped
  <2>6. ASSUME NEW q \in db.queue, NEW decision
        PROVE  /\ ~ExecuteFork(w, q) /\ ~ExecuteJoin(w, q) /\ ~PollHuman(w, q) /\ ~ResumeHuman(w, q)
               /\ ~DecidedWhilePolling(w, q, decision)
    BY NothingElse
  <2>7. ASSUME NEW ok \in BOOLEAN, FinishTask(w, ok) \/ FinishCompensation(w, ok)
        PROVE  \E i \in Instances : StepFor(i)
    <3>1. wk[w].kind # "idle" BY <2>7 DEF FinishTask, FinishCompensation
    <3>2. wk[w].inst \in Instances BY <3>1, BusyIs DEF Now, Sound, WorkersSound, InFlight
    <3>3. StepFor(wk[w].inst) BY <2>7, FinishTaskStep, FinishCompensationStep
    <3>4. QED BY <3>2, <3>3
  <2>8. QED BY <1>2, <2>2, <2>3, <2>4, <2>5, <2>6, <2>7 DEF ExecuteNext
<1>3. ASSUME NEW w \in Workers, CancelTick(w) \/ Crash(w) PROVE \E i \in Instances : StepFor(i)
  BY <1>3, TickCrashStep
<1>4. QED BY <1>1, <1>2, <1>3 DEF Next

\* At first there is nothing.
LEMMA InitSequential == ASSUME Sequential PROVE Init => SInv
<1> SUFFICES ASSUME Init PROVE SInv OBVIOUS
<1>1. /\ db.steps = <<>> /\ db.queue = {} /\ db.dlq = {}
      /\ \A i \in Instances : db.inst[i] = "none" /\ calls[i] = [n \in Steps |-> NoCalls]
  BY DEF Init, EmptyDatabase
<1>2. WorkersValid(db, wk)
  <2>1. \A w \in Workers : wk[w].kind = "idle" BY DEF Init, Idle
  <2>2. QED BY <2>1 DEF WorkersValid
<1>3. ASSUME NEW i \in Instances PROVE ValidIn(db, i, calls)
  <2> DEFINE R == RowsIn(db.steps, i)
             Q == ItemsIn(db.queue, i)
             L == LettersIn(db.dlq, i)
  <2>1. DOMAIN R = {} BY <1>1 DEF RowsIn
  <2>2. Q = {} /\ L = {} BY <1>1 DEF ItemsIn, LettersIn
  <2>3. db.inst[i] = "none" /\ \A n \in Steps : calls[i][n] = NoCalls BY <1>1
  <2> HIDE DEF R, Q, L
  <2>4. Fresh(R, calls[i]) BY <2>3 DEF Fresh
  <2>5. Ordered(R)
    <3>1. NamesIn(R) \in [DOMAIN R -> Steps]
      <4>1. \A x \in DOMAIN R : R[x].name \in Steps BY <2>1
      <4>2. QED BY <4>1 DEF NamesIn
    <3>2. Rank \in [Steps -> 0..Cardinality(Steps)] BY RankIs
    <3>3. QED BY <2>1, <3>1, <3>2 DEF Ordered, Line
  <2>6. Phase(i, "none", R, Q, L, calls[i]) BY <2>1, <2>2 DEF Phase
  <2>7. QED BY <2>3, <2>4, <2>5, <2>6 DEF ValidIn, Valid, R, Q, L
<1>4. QED BY <1>2, <1>3 DEF SInv

\* Every step keeps the invariant.
LEMMA NextSequential ==
    ASSUME Sequential PROVE Inv /\ SInv /\ [Next]_vars => SInv'
<1> SUFFICES ASSUME Inv, SInv, [Next]_vars PROVE SInv' OBVIOUS
<1>1. Now BY InvIsSound DEF Now
<1>2. CASE Next
  <2>1. PICK i \in Instances : StepFor(i) BY <1>1, <1>2, NextStepFor
  <2>2. ASSUME NEW h \in Instances PROVE ValidIn(db', h, calls')
    <3>1. CASE h = i BY <2>1, <3>1 DEF StepFor
    <3>2. CASE h # i
      <4>1. SameFor(db, db', h) /\ calls'[h] = calls[h] BY <2>1, <3>2 DEF StepFor, Others
      <4>2. ValidIn(db, h, calls) BY DEF SInv
      <4>3. QED BY <4>1, <4>2 DEF ValidIn, SameFor
    <3>3. QED BY <3>1, <3>2
  <2>3. WorkersValid(db', wk') BY <2>1 DEF StepFor
  <2>4. QED BY <2>2, <2>3 DEF SInv
<1>3. CASE UNCHANGED vars
  <2>1. db' = db /\ wk' = wk /\ calls' = calls BY <1>3 DEF vars
  <2>2. QED BY <2>1 DEF SInv
<1>4. QED BY <1>2, <1>3

----------------------------------------------------------------------------
(* What follows for the runs' properties *)

\* The inductive invariant holds in every state: whatever handlers return, however workers
\* interleave, crash and are cancelled, an instance of a sequential workflow has one row
\* per step reached, in the order of the steps, and is at its last row, or frozen at it, or
\* done with all of them, or being undone.
THEOREM SequentialInvariance == ASSUME Sequential PROVE Spec => []SInv
<1>1. Init => SInv BY InitSequential
<1>2. Inv /\ SInv /\ [Next]_vars => SInv' BY NextSequential
<1>3. QED BY <1>1, <1>2, Invariance, PTL DEF Spec

\* What the invariant says of one instance, and of its rows in the table.
LEMMA InstanceIs ==
    ASSUME Inv, SInv, NEW i \in Instances
    PROVE  LET R == RowsIn(db.steps, i)
               Q == ItemsIn(db.queue, i)
           IN  /\ Ordered(R) /\ Fresh(R, calls[i])
               /\ Phase(i, db.inst[i], R, Q, LettersIn(db.dlq, i), calls[i])
               /\ DOMAIN R = Rows(db, i) /\ \A x \in Rows(db, i) : R[x] = db.steps[x]
               /\ Typed(R, calls[i]) /\ db.inst[i] \in WorkflowStatus
               /\ ItemsOf(i) = {} <=> Q = {}
<1>1. Now BY InvIsSound DEF Now
<1>2. Good(db) /\ calls \in [Instances -> [Steps -> Calls]] BY <1>1 DEF Now, Sound
<1>3. ValidIn(db, i, calls) BY DEF SInv
<1>4. db.inst[i] \in WorkflowStatus BY <1>2, FieldTypes DEF Good
<1>5. /\ DOMAIN RowsIn(db.steps, i) = Rows(db, i)
      /\ \A k \in Rows(db, i) : /\ RowsIn(db.steps, i)[k] = db.steps[k]
                                /\ db.steps[k] \in WorkflowStep
  BY <1>2, RowsInIs, Zenon
<1>6. Typed(RowsIn(db.steps, i), calls[i]) BY <1>2, <1>5 DEF Typed
<1>7. ItemsOf(i) = {} <=> ItemsIn(db.queue, i) = {} BY DEF ItemsOf, ItemsIn
<1>8. QED BY <1>3, <1>4, <1>5, <1>6, <1>7 DEF ValidIn, Valid

\* A worker inside a handler, in the words of the properties.
LEMMA FlyingIs ==
    ASSUME Inv, SInv, NEW w \in Workers, Busy(w)
    PROVE  LET f == wk[w]
           IN  /\ f.inst \in Instances /\ <<f.item, f.step>> \in ItemsIn(db.queue, f.inst)
               /\ db.inst[f.inst] \in {"running", "failed", "cancelled"}
<1>1. Now BY InvIsSound DEF Now
<1>2. wk[w].kind # "idle" BY DEF Busy
<1> DEFINE f == wk[w]
<1>3. f.inst \in Instances /\ WorkerValid(db, f) BY <1>1, <1>2, WorkerIs
<1> HIDE DEF f
<1>4. <<f.item, f.step>> \in ItemsIn(db.queue, f.inst) BY <1>3 DEF WorkerValid
<1>5. Phase(f.inst, db.inst[f.inst], RowsIn(db.steps, f.inst), ItemsIn(db.queue, f.inst),
            LettersIn(db.dlq, f.inst), calls[f.inst])
  BY <1>3, InstanceIs
<1>6. db.inst[f.inst] \in {"running", "failed", "cancelled"} BY <1>4, <1>5 DEF Phase
<1>7. QED BY <1>3, <1>4, <1>6 DEF f

\* In every status the handlers of a step returned as often as they may.
LEMMA RowBounds ==
    ASSUME NEW i \in Instances, NEW s \in WorkflowStatus, NEW R, NEW Q, NEW L, NEW c,
           Typed(R, c), Phase(i, s, R, Q, L, c), NEW x \in DOMAIN R
    PROVE  Bounds(i, R[x], c[R[x].name])
<1>1. R[x].name \in Steps BY DEF Typed, WorkflowStep
<1>2. c[R[x].name] \in Calls BY <1>1 DEF Typed
<1>3. MaxCalls(R[x].name) \in Nat BY <1>1, MaxCallsIs
<1>4. R[x].retry \in Nat BY DEF Typed, WorkflowStep
<1> DEFINE y == c[R[x].name]
           m == MaxCalls(R[x].name)
<1>5. y.run \in Nat /\ y.ok \in Nat /\ y.undo \in Nat /\ y.undone \in Nat /\ m \in Nat
  BY <1>2, <1>3 DEF Calls
<1>6. Done(i, R[x], y) => Bounds(i, R[x], y) BY <1>5 DEF Done, Bounds
<1>7. ASSUME NEW S, Active(i, R[x], y, S) PROVE Bounds(i, R[x], y)
  <2>1. ~DLQEnabled[i] => y.run <= m BY <1>4, <1>5, <1>7 DEF Active
  <2>2. QED BY <1>5, <1>7, <2>1 DEF Active, Bounds
<1>8. ASSUME NEW k, NEW S, At(i, R, c, k, S) PROVE Bounds(i, R[x], y)
  BY <1>6, <1>7, <1>8 DEF At, Before
<1>9. CASE s = "none" BY <1>9 DEF Phase
<1>10. CASE s = "running" BY <1>8, <1>10 DEF Phase, Running1, Stuck1
<1>11. CASE s = "dlq" BY <1>8, <1>11 DEF Phase, Paused1
<1>12. CASE s = "completed" BY <1>6, <1>12 DEF Phase
<1>13. CASE s = "aborted" BY <1>13 DEF Phase
<1>14. CASE s \in {"failed", "cancelled"} BY <1>14 DEF Phase, Stopped1, Undoing
<1>15. s # "cancelling" BY DEF Phase
<1>16. QED BY <1>9, <1>10, <1>11, <1>12, <1>13, <1>14, <1>15 DEF WorkflowStatus

\* No step of a sequential workflow gets two rows in an instance.
THEOREM StepsAreCreatedOnce == ASSUME Sequential PROVE Spec => []StepsCreatedOnce
<1>1. Inv /\ SInv => StepsCreatedOnce
  <2> SUFFICES ASSUME Inv, SInv, NEW k \in DOMAIN db.steps, NEW l \in DOMAIN db.steps,
                      db.steps[k].inst = db.steps[l].inst, db.steps[k].name = db.steps[l].name
               PROVE  k = l
    BY DEF StepsCreatedOnce
  <2> DEFINE i == db.steps[k].inst
  <2>1. Good(db) BY InvIsSound DEF Sound
  <2>2. i \in Instances
    <3>1. db.steps[k] \in WorkflowStep BY <2>1, FieldTypes DEF Good
    <3>2. QED BY <3>1 DEF WorkflowStep
  <2>3. k \in Rows(db, i) /\ l \in Rows(db, i) BY DEF Rows
  <2> HIDE DEF i
  <2>4. /\ Ordered(RowsIn(db.steps, i)) /\ DOMAIN RowsIn(db.steps, i) = Rows(db, i)
        /\ \A x \in Rows(db, i) : RowsIn(db.steps, i)[x] = db.steps[x]
    BY <2>2, InstanceIs
  <2>5. QED BY <2>3, <2>4, RowsDiffer
<1>2. QED BY <1>1, Invariance, SequentialInvariance, PTL

\* Two workers are never inside handlers of one step: a step in flight has one item, and
\* no second item is queued for it.
THEOREM StepsRunOnce == ASSUME Sequential PROVE Spec => []OneExecutionPerStep
<1>1. Inv /\ SInv => OneExecutionPerStep
  <2> SUFFICES ASSUME Inv, SInv, NEW v \in Workers, NEW w \in Workers, Busy(v), Busy(w),
                      wk[v].step = wk[w].step
               PROVE  v = w
    BY DEF OneExecutionPerStep
  <2>1. wk[v].inst = wk[w].inst BY DEF Inv, QueueSound
  <2> DEFINE i == wk[v].inst
             Q == ItemsIn(db.queue, i)
             R == RowsIn(db.steps, i)
             s == db.inst[i]
             p == <<wk[v].item, wk[v].step>>
             r == <<wk[w].item, wk[w].step>>
  <2>2. i \in Instances /\ p \in Q /\ s \in {"running", "failed", "cancelled"} BY FlyingIs
  <2>3. r \in Q BY <2>1, FlyingIs
  <2>4. Phase(i, s, R, Q, LettersIn(db.dlq, i), calls[i]) BY <2>2, InstanceIs
  <2>5. p[2] = r[2] /\ p[1] = wk[v].item /\ r[1] = wk[w].item OBVIOUS
  <2> HIDE DEF i, Q, R, s, p, r
  <2>6. p = r
    <3>1. CASE s = "running" BY <2>2, <2>3, <2>4, <3>1 DEF Phase, Running1, Stuck1
    <3>2. CASE s \in {"failed", "cancelled"} BY <2>2, <2>3, <2>4, <2>5, <3>2 DEF Phase, Stopped1
    <3>3. QED BY <2>2, <3>1, <3>2
  <2>7. QED BY <2>5, <2>6 DEF Inv, ExclusiveClaims
<1>2. QED BY <1>1, Invariance, SequentialInvariance, PTL

\* An instance with the status completed is really done: nobody works for it, nothing is
\* queued, every row completed, every task succeeded once and nothing was compensated.
THEOREM CompletedIsDone == ASSUME Sequential PROVE Spec => []CompletedMeansDone
<1>1. Inv /\ SInv => CompletedMeansDone
  <2> SUFFICES ASSUME Inv, SInv, NEW i \in Instances, db.inst[i] = "completed"
               PROVE  /\ Quiet(i)
                      /\ \A k \in Rows(db, i) :
                           LET row == db.steps[k] IN
                           /\ row.status = "completed"
                           /\ Def[row.name].type = "task" => calls[i][row.name].ok = 1
                           /\ calls[i][row.name].undo = 0
                           /\ IsForking(row.name) /\ JoinAfter(row.name) # NoStep
                                  => HasStep(db, i, JoinAfter(row.name))
    BY DEF CompletedMeansDone
  <2> DEFINE R == RowsIn(db.steps, i)
             Q == ItemsIn(db.queue, i)
  <2>1. Phase(i, "completed", R, Q, LettersIn(db.dlq, i), calls[i]) BY InstanceIs
  <2>2. DOMAIN R = Rows(db, i) /\ \A x \in Rows(db, i) : R[x] = db.steps[x] BY InstanceIs
  <2>3. Typed(R, calls[i]) /\ (ItemsOf(i) = {} <=> Q = {}) BY InstanceIs
  <2> HIDE DEF R, Q
  <2>4. Q = {} /\ \A x \in DOMAIN R : Done(i, R[x], calls[i][R[x].name]) BY <2>1 DEF Phase
  <2>5. Flying(i) = {} BY FlyingIs DEF Flying
  <2>6. Quiet(i) BY <2>3, <2>4, <2>5 DEF Quiet
  <2>7. ASSUME NEW k \in Rows(db, i)
        PROVE  /\ db.steps[k].status = "completed"
               /\ Def[db.steps[k].name].type = "task" => calls[i][db.steps[k].name].ok = 1
               /\ calls[i][db.steps[k].name].undo = 0
               /\ ~IsForking(db.steps[k].name)
    <3>1. Done(i, db.steps[k], calls[i][db.steps[k].name]) BY <2>2, <2>4
    <3>2. db.steps[k].name \in Steps BY <2>2, <2>3 DEF Typed, WorkflowStep
    <3>3. ~IsForking(db.steps[k].name) BY <3>2, NoJoins DEF NoForks
    <3>4. QED BY <3>1, <3>3 DEF Done
  <2>8. QED BY <2>6, <2>7
<1>2. QED BY <1>1, Invariance, SequentialInvariance, PTL

\* The saga: when a failed or cancelled instance has come to rest, every task that succeeded
\* was compensated, or is protected by a save point, or is recorded as failed or skipped.
THEOREM SagasAreUndone == ASSUME Sequential PROVE Spec => []SagaUndone
<1>1. Inv /\ SInv => SagaUndone
  <2> SUFFICES ASSUME Inv, SInv, NEW i \in Instances, db.inst[i] \in {"failed", "cancelled"},
                      Quiet(i), NEW n \in Steps, calls[i][n].ok > 0, Def[n].onFailure # NoStep
               PROVE  \/ calls[i][n].undone = 1
                      \/ db.inst[i] = "failed" /\ BehindSavePoint(i, n)
                      \/ "failed" \in StatusesOf(i, n)
                      \/ "skipped" \in StatusesOf(i, n)
    BY DEF SagaUndone
  <2> DEFINE R == RowsIn(db.steps, i)
             Q == ItemsIn(db.queue, i)
             s == db.inst[i]
  <2>1. Phase(i, s, R, Q, LettersIn(db.dlq, i), calls[i]) BY InstanceIs
  <2>2. DOMAIN R = Rows(db, i) /\ \A x \in Rows(db, i) : R[x] = db.steps[x] BY InstanceIs
  <2>3. Fresh(R, calls[i]) BY InstanceIs
  <2>4. Q = {}
    <3>1. ItemsOf(i) = {} <=> Q = {} BY InstanceIs
    <3>2. QED BY <3>1 DEF Quiet
  <2>5. s \in {"failed", "cancelled"} OBVIOUS
  <2> HIDE DEF R, Q, s
  <2>6. Stopped1(i, s, R, Q, calls[i]) BY <2>1, <2>5 DEF Phase
  <2>7. PICK x \in DOMAIN R : R[x].name = n
    <3>1. calls[i][n] # NoCalls BY DEF NoCalls
    <3>2. QED BY <2>3, <3>1 DEF Fresh
  <2>8. Undoing(i, s, R, Q, x, calls[i][n]) BY <2>6, <2>7 DEF Stopped1
  <2>9. R[x].status # "compensation" BY <2>4, <2>8 DEF Undoing
  <2>10. \/ calls[i][n].undone = 1 \/ R[x].status \in {"failed", "skipped"}
         \/ (s = "failed" /\ Protected(R, x))
    BY <2>7, <2>8, <2>9 DEF Undoing
  <2>11. R[x].status \in StatusesOf(i, n) BY <2>2, <2>7 DEF StatusesOf
  <2>12. ASSUME Protected(R, x) PROVE BehindSavePoint(i, n)
    <3>1. PICK z \in DOMAIN R : x < z /\ IsSavePoint(R[z].name) /\ R[z].status = "completed"
      BY <2>12 DEF Protected
    <3>2. /\ x \in Rows(db, i) /\ z \in Rows(db, i) /\ x < z /\ db.steps[x].name = n
          /\ Def[db.steps[z].name].type = "savepoint" /\ db.steps[z].status = "completed"
      BY <2>2, <2>7, <3>1 DEF IsSavePoint
    <3>3. QED BY <3>2 DEF BehindSavePoint
  <2>13. QED BY <2>10, <2>11, <2>12 DEF s
<1>2. QED BY <1>1, Invariance, SequentialInvariance, PTL

\* Postgres: an instance that is not finished and not in the dead-letter queue has an item
\* in the queue, which a crash of the worker that holds it gives back.
THEOREM NoneForgotten ==
    ASSUME Sequential, StoreKind = "postgres" PROVE Spec => []NotForgotten
<1>1. Inv /\ SInv => NotForgotten
  <2> SUFFICES ASSUME Inv, SInv, NEW i \in Instances,
                      db.inst[i] \notin Finished \cup {"none", "dlq"}, Quiet(i)
               PROVE  FALSE
    BY DEF NotForgotten
  <2> DEFINE R == RowsIn(db.steps, i)
             Q == ItemsIn(db.queue, i)
  <2>1. Phase(i, db.inst[i], R, Q, LettersIn(db.dlq, i), calls[i]) BY InstanceIs
  <2>2. db.inst[i] \in WorkflowStatus BY InstanceIs
  <2>3. ItemsOf(i) = {} <=> Q = {} BY InstanceIs
  <2> HIDE DEF R, Q
  <2>4. Q = {} BY <2>3 DEF Quiet
  <2>5. db.inst[i] = "running" BY <2>1, <2>2 DEF WorkflowStatus, Finished, Phase
  <2>6. Running1(i, R, Q, calls[i]) BY <2>1, <2>5 DEF Phase, Stuck1
  <2>7. QED BY <2>4, <2>6 DEF Running1
<1>2. QED BY <1>1, Invariance, SequentialInvariance, PTL

\* How often the handlers of a step returned.
LEMMA CallsBounded ==
    ASSUME Inv, SInv, NEW i \in Instances, NEW n \in Steps
    PROVE  /\ calls[i][n].ok <= 1 /\ calls[i][n].undone <= 1
           /\ ~DLQEnabled[i] => calls[i][n].run <= MaxCalls(n)
           /\ calls[i][n].undo > 0 => /\ Def[n].onFailure # NoStep
                                      /\ StoreKind # "postgres" => calls[i][n].undo <= MaxUndo(n)
<1> DEFINE R == RowsIn(db.steps, i)
           Q == ItemsIn(db.queue, i)
           L == LettersIn(db.dlq, i)
           c == calls[i]
<1>1. Phase(i, db.inst[i], R, Q, L, c) /\ Fresh(R, c) BY InstanceIs
<1>2. Typed(R, c) /\ db.inst[i] \in WorkflowStatus BY InstanceIs
<1> HIDE DEF R, Q, L, c
<1>3. CASE \E x \in DOMAIN R : R[x].name = n
  <2>1. PICK x \in DOMAIN R : R[x].name = n BY <1>3
  <2>2. Bounds(i, R[x], c[R[x].name]) BY <1>1, <1>2, RowBounds
  <2>3. QED BY <2>1, <2>2 DEF Bounds, c
<1>4. CASE \A x \in DOMAIN R : R[x].name # n
  <2>1. c[n] = NoCalls BY <1>1, <1>4 DEF Fresh
  <2>2. c[n].run = 0 /\ c[n].ok = 0 /\ c[n].undo = 0 /\ c[n].undone = 0 BY <2>1 DEF NoCalls
  <2>3. MaxCalls(n) \in Nat BY MaxCallsIs
  <2>4. QED BY <2>2, <2>3 DEF c
<1>5. QED BY <1>3, <1>4

\* Without a dead-letter queue, whose requeue starts counting afresh, a task handler returns
\* at most MaxRetries + 1 times (twice if its step is not idempotent), and succeeds at most
\* once.
THEOREM AttemptsAreBounded ==
    ASSUME Sequential, \A i \in Instances : ~DLQEnabled[i] PROVE Spec => []AttemptsBounded
<1>1. Inv /\ SInv => AttemptsBounded BY CallsBounded DEF AttemptsBounded
<1>2. QED BY <1>1, Invariance, SequentialInvariance, PTL

\* SQLite and memory: a compensation handler returns at most MaxRetries times, and succeeds
\* at most once.
THEOREM CompensationsAreBounded ==
    ASSUME Sequential, StoreKind # "postgres" PROVE Spec => []CompensationsBounded
<1>1. Inv /\ SInv => CompensationsBounded
  <2> SUFFICES ASSUME Inv, SInv, NEW i \in Instances, NEW n \in Steps, calls[i][n].undo > 0
               PROVE  /\ calls[i][n].undo <= Def[Def[n].onFailure].maxRetries
                      /\ calls[i][n].undone <= 1
    BY DEF CompensationsBounded
  <2>1. /\ Def[n].onFailure # NoStep /\ calls[i][n].undo <= MaxUndo(n)
        /\ calls[i][n].undone <= 1
    BY CallsBounded
  <2>2. QED BY <2>1 DEF MaxUndo
<1>2. QED BY <1>1, Invariance, SequentialInvariance, PTL

\* "completed" and "aborted" are final: no worker that is still around, no cancel request
\* and no requeue changes them.
THEOREM FinalStatusesStay == ASSUME Sequential PROVE Spec => FinalStays
<1>1. Inv /\ SInv /\ [Next]_vars =>
        [\A i \in Instances :
           db.inst[i] \in {"completed", "aborted"} => db'.inst[i] = db.inst[i]]_vars
  <2> SUFFICES ASSUME Inv, SInv, Next, NEW i \in Instances,
                      db.inst[i] \in {"completed", "aborted"}
               PROVE  db'.inst[i] = db.inst[i]
    OBVIOUS
  <2>1. Now BY InvIsSound DEF Now
  <2>2. PICK h \in Instances : StepFor(h) BY <2>1, NextStepFor
  <2>3. QED BY <2>2 DEF StepFor, Goes, Others, SameFor
<1>2. QED BY <1>1, Invariance, SequentialInvariance, PTL DEF Spec, FinalStays

\* Once an instance is cancelled or aborted no worker starts a task of it, though items of
\* it may still be queued.
THEOREM NothingStartsAfterStop == ASSUME Sequential PROVE Spec => NothingAfterStop
<1>1. Inv /\ SInv /\ [Next]_vars =>
        [\A i \in Instances : db.inst[i] \in {"cancelled", "aborted"} => ~StartsTask(i)]_vars
  <2> SUFFICES ASSUME Inv, SInv, Next, NEW i \in Instances,
                      db.inst[i] \in {"cancelled", "aborted"}, NEW w \in Workers,
                      wk'[w].kind = "task", wk'[w].inst = i
               PROVE  FALSE
    BY DEF StartsTask
  <2>1. Now BY InvIsSound DEF Now
  <2>2. PICK h \in Instances : StepFor(h) BY <2>1, NextStepFor
  <2>3. WorkerValid(db', wk'[w]) BY <2>2 DEF StepFor, WorkersValid
  <2>4. db'.inst[i] = "running" BY <2>3 DEF WorkerValid
  <2>5. h = i \/ db'.inst[i] = db.inst[i] BY <2>2 DEF StepFor, Others, SameFor
  <2>6. Goes(db.inst[h], db'.inst[h]) BY <2>2 DEF StepFor
  <2>7. QED BY <2>4, <2>5, <2>6 DEF Goes
<1>2. QED BY <1>1, Invariance, SequentialInvariance, PTL DEF Spec, NothingAfterStop

\* One step takes items of one instance out of the queue.
THEOREM ItemsOfOthersStay == ASSUME Sequential PROVE Spec => OtherItemsStay
<1>1. Inv /\ SInv /\ [Next]_vars =>
        [\A q, r \in db.queue : Removed(q) /\ Removed(r) => q.inst = r.inst]_vars
  <2> SUFFICES ASSUME Inv, SInv, Next PROVE \E i : \A q \in db.queue : Removed(q) => q.inst = i
    OBVIOUS
  <2>1. Now BY InvIsSound DEF Now
  <2>2. PICK i \in Instances : StepFor(i) BY <2>1, NextStepFor
  <2>3. ASSUME NEW q \in db.queue, q.inst # i PROVE ~Removed(q)
    <3>1. q.inst \in Instances BY <2>1, ItemRow DEF Now, Sound
    <3>2. ItemsIn(db'.queue, q.inst) = ItemsIn(db.queue, q.inst)
      BY <2>2, <2>3, <3>1 DEF StepFor, Others, SameFor
    <3>3. <<q.id, q.step>> \in ItemsIn(db'.queue, q.inst) BY <3>2, InItems
    <3>4. PICK r \in db'.queue : <<q.id, q.step>> = <<r.id, r.step>> BY <3>3, InItems
    <3>5. r.id = q.id BY <3>4
    <3>6. QED BY <3>5 DEF Removed
  <2>4. QED BY <2>3
<1>2. QED BY <1>1, Invariance, SequentialInvariance, PTL DEF Spec, OtherItemsStay
=============================================================================
