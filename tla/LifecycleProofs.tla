-------------------------- MODULE LifecycleProofs --------------------------
(***************************************************************************)
(* Proofs about one process of floxy, for any number of workers and of     *)
(* steps, any kinds of steps and every store: no step of a running         *)
(* instance is lost (NoItemLost), and Shutdown that returns without an     *)
(* error leaves nothing running but what it could not know of              *)
(* (GracefulShutdown).                                                     *)
(***************************************************************************)
EXTENDS LifecycleProperties, FiniteSetTheorems, TLAPS

Idle    == {"off", "select", "stopped", "dequeue"}
Holding == {"claimed", "add", "registered", "handler", "sending", "leave", "commit"}
Results == {"success", "again", "failed", "dlq", "cancelled", "nothing"}

\* The values of the variables.
TypeOK ==
    /\ store \in {"postgres", "sqlite", "memory"} /\ kind \in [Steps -> StepKind]
    /\ status \in {"running", "completed", "failed", "dlq", "cancelled"}
    /\ queue \subseteq Steps /\ done \subseteq Steps
    /\ pc \in [Workers -> Idle \cup Holding]
    /\ item \in [Workers -> Steps \cup {NoStep}]
    /\ outcome \in [Workers -> Results \cup {"none"}]
    /\ ctxDone \in BOOLEAN /\ request \in BOOLEAN
    /\ shutdown \in {"no", "flagged", "waiting", "waited", "graceful", "timeout"}
    /\ isShuttingDown \in BOOLEAN

\* A worker has an item between DequeueStep and the end of its transaction.
ItemsHeld == \A w \in Workers : pc[w] \in Holding <=> item[w] \in Steps

\* Without transactions, what a worker has done to the queue and to its step counts before
\* it has left; with them, only when it has committed.
Responsible(w, s) == item[w] = s /\ (store = "postgres" \/ pc[w] \notin {"sending", "leave"})

\* Every step is somebody's.
StepsOwned ==
    status = "running" =>
        \A s \in Steps \ done :
            s \in queue \/ (\E w \in Workers : Responsible(w, s)) \/ Excused

\* A worker that has executed its item has an outcome, and "nothing" comes of it only if the
\* instance has ended, nothing can be written any more, or a cancel request on SQLite failed.
OutcomesKnown ==
    \A w \in Workers : pc[w] \in {"sending", "leave", "commit"} =>
        /\ outcome[w] \in Results
        /\ outcome[w] = "nothing" => status # "running" \/ Broken \/ Excused

\* The wait group counts the workers that execute a step.
Counted == activeSteps = Cardinality({w \in Workers : Executing(w)})

\* Once the flag is set, only workers that were past their last look get to add themselves;
\* and once the wait has ended nobody else is executing.
FlagSeen ==
    /\ isShuttingDown <=> shutdown # "no"
    /\ isShuttingDown => \A w \in Workers : pc[w] = "add" => w \in late
    /\ shutdown \in {"waited", "graceful"} => \A w \in Workers : Executing(w) => w \in late

IInv == TypeOK /\ ItemsHeld /\ StepsOwned /\ OutcomesKnown /\ Counted /\ FlagSeen

----------------------------------------------------------------------------
\* The steps of Next that change neither the workers nor the database.
Quiet ==
    /\ UNCHANGED <<fixed, status, queue, done, worker, activeSteps>>
    /\ ctxDone' \in {ctxDone, TRUE} /\ request' \in {request, TRUE}

\* What a caller, the canceller, the awaiter and Shutdown do is quiet, and only SetFlag,
\* WaitEnds and ShutdownReturns matter to the conjunct about the flag.
LEMMA QuietSteps ==
    ASSUME TypeOK,
           \/ CancellerStep \/ CancellerStops \/ awaitCompletion \/ EngineStep
           \/ StartAwait \/ AwaitCancelled \/ StopPool \/ CancelContext \/ SetFlag
           \/ Requested \/ Decide \/ HumanDecisionWaitingEvents \/ ReaderLeaves
           \/ UNCHANGED vars
    PROVE  Quiet
  BY DEF TypeOK, CancellerStep, ListInstances, AskForRequest, CancelContexts, CancellerStops,
         Looks, awaitCompletion, EngineStep, CloseShutdownCh, WaitEnds, ShutdownReturns, Shuts,
         StartAwait, AwaitCancelled, Awaits, StopPool, CancelContext, SetFlag, Requested,
         Decide, HumanDecisionWaitingEvents, ReaderLeaves, Quiet, vars, fixed, database,
         worker

\* The other steps: a worker's, and PoolStart.
LEMMA NextCases ==
    ASSUME [Next]_vars, TypeOK
    PROVE  \/ \E w \in Workers : WorkerStep(w) \/ Stopped(w) \/ Receive(w)
           \/ PoolStart
           \/ Quiet
  BY QuietSteps DEF Next, Caller


\* What a worker's step leaves alone.
LEMMA WorkerAlone ==
    ASSUME NEW w \in Workers, WorkerStep(w) \/ Stopped(w) \/ Receive(w)
    PROVE  UNCHANGED <<store, kind, ctxDone, isShuttingDown, shutdown, late>>
  BY DEF WorkerStep, Begin, DequeueStep, CheckClaimed, AddActive, GetCancelRequest,
         HandlerReturns, handleCancellation, Leave, Commit, Stopped, Receive, Alone, fixed, stopping

----------------------------------------------------------------------------
\* Types, and who has an item

\* What ExecuteNext leaves in the tables has its type.
LEMMA EffectTypes ==
    ASSUME NEW o \in Results, NEW s \in Steps, TypeOK, Effect(o, s)
    PROVE  /\ status' \in {"running", "completed", "failed", "dlq", "cancelled"}
           /\ queue' \subseteq Steps /\ done' \subseteq Steps /\ request' \in BOOLEAN
  BY DEF TypeOK, Effect, Results

\* The steps of a worker keep the types and what is said about its item.
LEMMA WorkerTypes ==
    ASSUME NEW w \in Workers, TypeOK, ItemsHeld, OutcomesKnown,
           WorkerStep(w) \/ Stopped(w) \/ Receive(w)
    PROVE  TypeOK' /\ ItemsHeld'
  <1> USE DEF Idle, Holding
  <1>a. UNCHANGED <<store, kind, ctxDone, isShuttingDown, shutdown>>
    BY WorkerAlone
  <1>b. ASSUME NEW o \in Results, NEW next \in {"leave", "sending"}, Comes(w, o, next),
               pc[w] \in {"add", "registered", "handler"}
        PROVE  TypeOK' /\ ItemsHeld'
    <2>1. item[w] \in Steps
      BY <1>b DEF ItemsHeld
    <2>2. /\ status' \in {"running", "completed", "failed", "dlq", "cancelled"}
          /\ queue' \subseteq Steps /\ done' \subseteq Steps /\ request' \in BOOLEAN
      BY <1>b, <2>1, EffectTypes DEF Comes, database, TypeOK
    <2> QED BY <1>a, <1>b, <2>1, <2>2 DEF Comes, TypeOK, ItemsHeld
  <1>1. CASE Begin(w)
    BY <1>1, <1>a DEF Begin, Goes, database, TypeOK, ItemsHeld
  <1>2. CASE DequeueStep(w)
    BY <1>2, <1>a, LifecycleAssumption DEF DequeueStep, Goes, database, TypeOK, ItemsHeld
  <1>3. CASE CheckClaimed(w)
    BY <1>3, <1>a, LifecycleAssumption
    DEF CheckClaimed, GiveBack, Drops, Goes, database, TypeOK, ItemsHeld
  <1>4. CASE AddActive(w)
    <2>1. CASE Comes(w, "nothing", "leave")
      BY <1>4, <1>b, <2>1 DEF AddActive, Results
    <2>2. CASE Goes(w, "registered") /\ UNCHANGED database
      BY <1>4, <2>2, <1>a DEF AddActive, Goes, database, TypeOK, ItemsHeld
    <2> QED BY <1>4, <2>1, <2>2 DEF AddActive
  <1>5. CASE GetCancelRequest(w)
    <2>1. CASE Goes(w, "handler") /\ UNCHANGED database
      BY <1>5, <2>1, <1>a DEF GetCancelRequest, Goes, database, TypeOK, ItemsHeld
    <2>2. CASE \E o \in Results, next \in {"leave", "sending"} : Comes(w, o, next)
      BY <1>5, <2>2, <1>b DEF GetCancelRequest
    <2> QED BY <1>5, <2>1, <2>2 DEF GetCancelRequest, handleCancellation, Results
  <1>6. CASE HandlerReturns(w)
    BY <1>6, <1>b DEF HandlerReturns, handleCancellation, Results
  <1>7. CASE Leave(w)
    BY <1>7, <1>a, LifecycleAssumption DEF Leave, Goes, Drops, database, TypeOK, ItemsHeld
  <1>8. CASE Commit(w)
    <2>1. CASE GiveBack(w)
      BY <1>8, <1>a, <2>1, LifecycleAssumption DEF Commit, GiveBack, Drops, TypeOK, ItemsHeld
    <2>2. CASE Effect(outcome[w], item[w]) /\ Drops(w)
      <3>1. /\ status' \in {"running", "completed", "failed", "dlq", "cancelled"}
            /\ queue' \subseteq Steps /\ done' \subseteq Steps /\ request' \in BOOLEAN
        BY <1>8, <2>2, EffectTypes DEF Commit, ItemsHeld, OutcomesKnown
      <3> QED BY <1>8, <1>a, <2>2, <3>1, LifecycleAssumption DEF Commit, Drops, TypeOK, ItemsHeld
    <2> QED BY <1>8, <2>1, <2>2 DEF Commit
  <1>9. CASE Stopped(w) \/ Receive(w)
    BY <1>9, <1>a DEF Stopped, Receive, Goes, database, TypeOK, ItemsHeld
  <1> QED BY <1>1, <1>2, <1>3, <1>4, <1>5, <1>6, <1>7, <1>8, <1>9 DEF WorkerStep

----------------------------------------------------------------------------
\* No step is lost

\* An instance that has ended does not run again.
LEMMA EffectEnds ==
    ASSUME NEW o, NEW s, Effect(o, s), status # "running"
    PROVE  status' # "running"
  BY DEF Effect

\* When a worker answers for its step no longer, the step has ended or is in the queue.
LEMMA EffectOwned ==
    ASSUME NEW o \in Results, NEW s \in Steps, Effect(o, s),
           o = "nothing" => status # "running" \/ Broken \/ Excused, status' = "running"
    PROVE  /\ status = "running"
           /\ Broken \/ Excused \/ s \in done' \/ s \in queue'
           /\ done \subseteq done' /\ queue \subseteq queue'
  BY DEF Effect, Results


\* A step of w that does not touch what others hold.
LEMMA OthersResponsible ==
    ASSUME NEW w \in Workers, TypeOK, WorkerStep(w) \/ Stopped(w) \/ Receive(w)
    PROVE  \A v \in Workers \ {w} :
             pc'[v] = pc[v] /\ item'[v] = item[v] /\ outcome'[v] = outcome[v]
  BY DEF TypeOK, WorkerStep, Begin, DequeueStep, CheckClaimed, AddActive, GetCancelRequest,
         HandlerReturns, handleCancellation, Leave, Commit, Stopped, Receive, Comes, Goes, Drops, GiveBack

\* What excuses a lost item of a running instance does so for good.
LEMMA StaysExcused ==
    ASSUME NEW w \in Workers, WorkerStep(w) \/ Stopped(w) \/ Receive(w),
           Excused, status' = "running"
    PROVE  Excused'
  <1>1. request' = request \/ \E o, s : Effect(o, s)
    BY DEF WorkerStep, Begin, DequeueStep, CheckClaimed, AddActive, GetCancelRequest,
         HandlerReturns, handleCancellation, Leave, Commit, Stopped, Receive, Comes, Goes,
         GiveBack, database
  <1>2. request => request'
    BY <1>1 DEF Effect
  <1> QED BY <1>2, WorkerAlone DEF Excused

\* A step of w keeps every step somebody's if no step ends or leaves the queue but one that w
\* is responsible for afterwards, and if w gives up its own only when it has ended, is in the
\* queue, or cannot be saved.
LEMMA OwnedKept ==
    ASSUME NEW w \in Workers, TypeOK, StepsOwned, WorkerStep(w) \/ Stopped(w) \/ Receive(w),
           status' = "running" => status = "running",
           done \subseteq done',
           \A s \in queue \ queue' : Responsible(w, s)',
           \A s \in Steps : Responsible(w, s) /\ status' = "running" =>
               \/ Responsible(w, s)' \/ s \in queue' \/ s \in done'
               \/ Excused
    PROVE  StepsOwned'
  <1> SUFFICES ASSUME status' = "running", NEW s \in Steps, s \notin done', ~Excused
               PROVE  s \in queue' \/ \E v \in Workers : Responsible(v, s)'
    BY StaysExcused DEF StepsOwned
  <1>1. s \in queue \/ \E v \in Workers : Responsible(v, s)
    BY DEF StepsOwned
  <1>2. ASSUME NEW v \in Workers \ {w}, Responsible(v, s)
        PROVE  Responsible(v, s)'
    BY <1>2, OthersResponsible, WorkerAlone DEF Responsible
  <1> QED BY <1>1, <1>2

\* The outcome of w is known after its step, and no other worker's is forgotten.
LEMMA OutcomesKept ==
    ASSUME NEW w \in Workers, TypeOK, OutcomesKnown, WorkerStep(w) \/ Stopped(w) \/ Receive(w),
           status # "running" => status' # "running",
           pc'[w] \in {"sending", "leave", "commit"} =>
               /\ outcome'[w] \in Results
               /\ outcome'[w] = "nothing" => status' # "running" \/ Broken \/ Excused
    PROVE  OutcomesKnown'
  BY OthersResponsible, WorkerAlone, StaysExcused DEF OutcomesKnown, Broken

\* What executing an item comes to keeps both.
LEMMA ComesOwned ==
    ASSUME NEW w \in Workers, TypeOK, ItemsHeld, StepsOwned, OutcomesKnown,
           WorkerStep(w), pc[w] \in {"add", "registered", "handler"},
           NEW o \in Results, NEW next \in {"leave", "sending"}, Comes(w, o, next),
           o = "nothing" => status # "running" \/ Broken \/ Excused
    PROVE  StepsOwned' /\ OutcomesKnown'
  <1>1. item[w] \in Steps /\ item' = item /\ pc'[w] = next /\ outcome'[w] = o
    BY DEF ItemsHeld, Holding, Comes, TypeOK
  <1>2. UNCHANGED <<store, ctxDone>>
    BY WorkerAlone
  <1>3. CASE store = "postgres" \/ Broken
    <2>1. UNCHANGED <<status, queue, done>>
      BY <1>3 DEF Comes, database
    <2>2. StepsOwned'
      BY <1>1, <1>2, <1>3, <2>1, OwnedKept DEF Responsible, Broken, Excused, TypeOK
    <2> QED BY <1>1, <1>3, <2>1, <2>2, OutcomesKept
  <1>4. CASE ~(store = "postgres" \/ Broken)
    <2>1. Effect(o, item[w])
      BY <1>4 DEF Comes
    <2>2. status # "running" => status' # "running"
      BY <2>1, EffectEnds
    <2>3. status' = "running" =>
            /\ status = "running"
            /\ item[w] \in done' \/ item[w] \in queue' \/ Excused
      BY <2>1, <1>1, <1>4, EffectOwned
    <2>4. done \subseteq done' /\ queue \subseteq queue'
      BY <2>1 DEF Effect
    <2>5. StepsOwned'
      BY <1>1, <1>2, <2>2, <2>3, <2>4, OwnedKept DEF Responsible
    <2> QED BY <1>1, <2>2, <2>5, OutcomesKept
  <1> QED BY <1>3, <1>4


\* The steps of a worker lose no step.
LEMMA WorkerOwned ==
    ASSUME NEW w \in Workers, TypeOK, ItemsHeld, StepsOwned, OutcomesKnown,
           WorkerStep(w) \/ Stopped(w) \/ Receive(w)
    PROVE  StepsOwned' /\ OutcomesKnown'
  <1>a. UNCHANGED <<store, ctxDone>>
    BY WorkerAlone
  <1>b. ASSUME NEW next \in {"select", "stopped", "dequeue", "add", "registered", "handler"},
               Goes(w, next), UNCHANGED <<status, queue, done>>
        PROVE  StepsOwned' /\ OutcomesKnown'
    <2>1. item'[w] = item[w] /\ pc'[w] = next
      BY <1>b DEF Goes, TypeOK
    <2>2. StepsOwned'
      BY <1>a, <1>b, <2>1, OwnedKept DEF Responsible
    <2> QED BY <1>b, <2>1, <2>2, OutcomesKept
  <1>c. ASSUME Drops(w)
        PROVE  pc'[w] = "select" /\ item'[w] = NoStep
    BY <1>c DEF Drops, TypeOK
  <1>d. ASSUME pc[w] \in Holding, GiveBack(w)
        PROVE  StepsOwned' /\ OutcomesKnown'
    <2>1. /\ pc'[w] = "select" /\ item[w] \in Steps
          /\ queue' = queue \cup {item[w]} /\ UNCHANGED <<status, done>>
      BY <1>c, <1>d DEF GiveBack, ItemsHeld
    <2>2. StepsOwned'
      BY <1>a, <2>1, OwnedKept DEF Responsible
    <2> QED BY <2>1, <2>2, OutcomesKept
  <1>1. CASE Begin(w)
    BY <1>1, <1>b DEF Begin, database
  <1>2. CASE DequeueStep(w)
    <2>1. CASE Goes(w, "select") /\ UNCHANGED database
      BY <1>b, <2>1 DEF database
    <2>2. ASSUME NEW s \in queue, item' = [item EXCEPT ![w] = s], queue' = queue \ {s},
                 pc' = [pc EXCEPT ![w] = "claimed"], UNCHANGED <<status, done>>
          PROVE  StepsOwned' /\ OutcomesKnown'
      <3>1. pc'[w] = "claimed" /\ item'[w] = s
        BY <2>2 DEF TypeOK
      <3>2. item[w] \notin Steps
        BY <1>2 DEF DequeueStep, ItemsHeld, Holding
      <3>3. StepsOwned'
        BY <1>a, <2>2, <3>1, <3>2, OwnedKept DEF Responsible
      <3> QED BY <2>2, <3>1, <3>3, OutcomesKept
    <2> QED BY <1>2, <2>1, <2>2 DEF DequeueStep
  <1>3. CASE CheckClaimed(w)
    <2>1. CASE Goes(w, "add") /\ UNCHANGED database
      BY <1>b, <2>1 DEF database
    <2>2. CASE store = "sqlite" /\ Broken /\ Drops(w) /\ UNCHANGED database
      <3>1. UNCHANGED <<status, queue, done>> /\ Excused
        BY <2>2 DEF database, Broken, Excused
      <3>2. StepsOwned'
        BY <1>a, <1>c, <2>2, <3>1, OwnedKept DEF Responsible
      <3> QED BY <1>c, <2>2, <3>1, <3>2, OutcomesKept
    <2>3. CASE GiveBack(w)
      BY <1>3, <1>d, <2>3 DEF CheckClaimed, Holding
    <2> QED BY <1>3, <2>1, <2>2, <2>3 DEF CheckClaimed
  <1>4. CASE AddActive(w)
    <2>1. CASE (Broken \/ status # "running") /\ Comes(w, "nothing", "leave")
      BY <1>4, <2>1, ComesOwned DEF AddActive, WorkerStep, Results
    <2>2. CASE Goes(w, "registered") /\ UNCHANGED database
      BY <1>b, <2>2 DEF database
    <2> QED BY <1>4, <2>1, <2>2 DEF AddActive
  <1>5. CASE GetCancelRequest(w)
    <2>1. CASE Goes(w, "handler") /\ UNCHANGED database
      BY <1>b, <2>1 DEF database
    <2>2. CASE \E o \in Results, next \in {"leave", "sending"} :
                 /\ Comes(w, o, next)
                 /\ o = "nothing" => status # "running" \/ Broken \/ Excused
      BY <1>5, <2>2, ComesOwned DEF GetCancelRequest, WorkerStep
    <2> QED BY <1>5, <2>1, <2>2 DEF GetCancelRequest, handleCancellation, Excused, Results
  <1>6. CASE HandlerReturns(w)
    <2>1. PICK o \in Results :
                 /\ Comes(w, o, "leave")
                 /\ o = "nothing" => status # "running" \/ Broken \/ Excused
      BY <1>6 DEF HandlerReturns, handleCancellation, Excused, Results
    <2> QED BY <1>6, <2>1, ComesOwned DEF HandlerReturns, WorkerStep
  <1>7. CASE Leave(w)
    <2>0. UNCHANGED <<status, queue, done>> /\ pc[w] = "leave"
      BY <1>7 DEF Leave, database
    <2>1. CASE store = "postgres" /\ Goes(w, "commit")
      <3>1. pc'[w] = "commit" /\ item'[w] = item[w] /\ outcome'[w] = outcome[w]
        BY <2>1 DEF Goes, TypeOK
      <3>2. StepsOwned'
        BY <1>a, <2>0, <3>1, OwnedKept DEF Responsible
      <3> QED BY <2>0, <3>1, <3>2, OutcomesKept DEF OutcomesKnown
    <2>2. CASE store # "postgres" /\ Drops(w)
      <3>1. StepsOwned'
        BY <1>a, <1>c, <2>0, <2>2, OwnedKept DEF Responsible
      <3> QED BY <1>c, <2>0, <2>2, <3>1, OutcomesKept
    <2> QED BY <1>7, <2>1, <2>2 DEF Leave
  <1>8. CASE Commit(w)
    <2>1. CASE GiveBack(w)
      BY <1>8, <1>d, <2>1 DEF Commit, Holding
    <2>2. CASE ~ctxDone /\ Effect(outcome[w], item[w]) /\ Drops(w)
      <3>1. item[w] \in Steps /\ outcome[w] \in Results
            /\ (outcome[w] = "nothing" => status # "running" \/ Broken \/ Excused)
        BY <1>8 DEF Commit, ItemsHeld, OutcomesKnown, Holding
      <3>2. status # "running" => status' # "running"
        BY <2>2, EffectEnds
      <3>3. status' = "running" => item[w] \in done' \/ item[w] \in queue' \/ Excused
        BY <2>2, <3>1, EffectOwned DEF Broken
      <3>4. done \subseteq done' /\ queue \subseteq queue'
        BY <2>2 DEF Effect
      <3>5. StepsOwned'
        BY <1>a, <3>2, <3>3, <3>4, OwnedKept DEF Responsible
      <3> QED BY <1>c, <2>2, <3>2, <3>5, OutcomesKept
    <2> QED BY <1>8, <2>1, <2>2 DEF Commit
  <1>9. CASE Stopped(w)
    BY <1>9, <1>b DEF Stopped, database
  <1>10. CASE Receive(w)
    <2>1. /\ pc[w] = "sending" /\ pc'[w] = "leave" /\ item'[w] = item[w]
          /\ outcome'[w] = outcome[w] /\ UNCHANGED <<status, queue, done>>
      BY <1>10 DEF Receive, Goes, TypeOK, database
    <2>2. StepsOwned'
      BY <1>a, <2>1, <1>10, OwnedKept DEF Responsible
    <2> QED BY <1>10, <2>1, <2>2, OutcomesKept DEF OutcomesKnown
  <1> QED BY <1>1, <1>2, <1>3, <1>4, <1>5, <1>6, <1>7, <1>8, <1>9, <1>10 DEF WorkerStep

----------------------------------------------------------------------------
\* The wait group and the flag

Executors == {w \in Workers : Executing(w)}

\* There are finitely many goroutines that execute steps.
LEMMA ExecutorsFinite == IsFiniteSet(Executors)
  BY LifecycleAssumption, FS_Subset DEF Executors

\* A worker adds itself to the wait group where it begins to execute and is done where it
\* leaves; every other step keeps it where it is.
LEMMA WorkerCounted ==
    ASSUME NEW w \in Workers, TypeOK, Counted, WorkerStep(w) \/ Stopped(w) \/ Receive(w)
    PROVE  Counted'
  <1>0. /\ \A v \in Workers \ {w} : pc'[v] = pc[v]
        /\ activeSteps = Cardinality(Executors)
    BY OthersResponsible DEF Counted, Executors
  <1>1. CASE AddActive(w)
    <2>1. ~Executing(w) /\ Executing(w)' /\ activeSteps' = activeSteps + 1
      BY <1>1 DEF AddActive, Executing, Comes, Goes, TypeOK
    <2>2. Executors' = Executors \cup {w} /\ w \notin Executors
      BY <1>0, <2>1 DEF Executors, Executing
    <2>3. Cardinality(Executors') = Cardinality(Executors) + 1
      BY <2>2, ExecutorsFinite, FS_AddElement
    <2> QED BY <1>0, <2>1, <2>3 DEF Counted, Executors
  <1>2. CASE Leave(w)
    <2>1. Executing(w) /\ ~Executing(w)' /\ activeSteps' = activeSteps - 1
      BY <1>2 DEF Leave, Executing, Goes, Drops, TypeOK
    <2>2. Executors' = Executors \ {w} /\ w \in Executors
      BY <1>0, <2>1 DEF Executors, Executing
    <2>3. Cardinality(Executors') = Cardinality(Executors) - 1
      BY <2>2, ExecutorsFinite, FS_RemoveElement
    <2> QED BY <1>0, <2>1, <2>3 DEF Counted, Executors
  <1>3. CASE ~AddActive(w) /\ ~Leave(w)
    <2>1. (Executing(w) <=> Executing(w)') /\ activeSteps' = activeSteps
      BY <1>3 DEF WorkerStep, Begin, DequeueStep, CheckClaimed, GetCancelRequest,
         HandlerReturns, handleCancellation, Commit, Stopped, Receive, Comes, Goes, Drops, GiveBack, Executing,
         TypeOK
    <2>2. Executors' = Executors
      BY <1>0, <2>1 DEF Executors, Executing
    <2> QED BY <1>0, <2>1, <2>2 DEF Counted, Executors
  <1> QED BY <1>1, <1>2, <1>3

\* After the flag is set nobody gets past the third look, so that nobody begins to execute
\* who was not past it.
LEMMA WorkerSeesFlag ==
    ASSUME NEW w \in Workers, TypeOK, FlagSeen, WorkerStep(w) \/ Stopped(w) \/ Receive(w)
    PROVE  FlagSeen'
  <1>1. UNCHANGED <<isShuttingDown, shutdown, late>>
    BY WorkerAlone
  <1>2. \A v \in Workers \ {w} : pc'[v] = pc[v]
    BY OthersResponsible
  <1>3. isShuttingDown => pc'[w] # "add"
    BY DEF WorkerStep, Begin, DequeueStep, CheckClaimed, AddActive, GetCancelRequest,
         HandlerReturns, handleCancellation, Leave, Commit, Stopped, Receive, Comes, Goes, Drops, GiveBack,
         TypeOK, isShutdown
  <1>4. Executing(w)' => Executing(w) \/ pc[w] = "add"
    BY DEF WorkerStep, Begin, DequeueStep, CheckClaimed, AddActive, GetCancelRequest,
         HandlerReturns, handleCancellation, Leave, Commit, Stopped, Receive, Comes, Goes, Drops, GiveBack,
         TypeOK, Executing
  <1> QED BY <1>1, <1>2, <1>3, <1>4 DEF FlagSeen, Executing


----------------------------------------------------------------------------
\* The other steps

\* Quiet steps keep what is said about the workers and the database.
LEMMA QuietKeeps ==
    ASSUME TypeOK, ItemsHeld, StepsOwned, OutcomesKnown, Counted, Quiet
    PROVE  ItemsHeld' /\ StepsOwned' /\ OutcomesKnown' /\ Counted'
  <1>1. UNCHANGED <<store, status, queue, done, pc, item, outcome, activeSteps>>
        /\ ctxDone' \in {ctxDone, TRUE} /\ request' \in {request, TRUE}
    BY DEF Quiet, fixed, worker
  <1>2. ItemsHeld' /\ Counted'
    BY <1>1 DEF ItemsHeld, Counted, Executing
  <1>e. (Excused => Excused') /\ (Broken => Broken')
    <2>1. ctxDone => ctxDone'
      BY <1>1
    <2>2. request => request'
      BY <1>1
    <2> QED BY <1>1, <2>1, <2>2 DEF Excused, Broken
  <1>3. StepsOwned'
    BY <1>1, <1>e DEF StepsOwned, Responsible
  <1>4. OutcomesKnown'
    BY <1>1, <1>e DEF OutcomesKnown
  <1> QED BY <1>2, <1>3, <1>4

\* SetFlag, CloseShutdownCh, WaitEnds and ShutdownReturns are the only quiet steps that
\* change what FlagSeen speaks of; the wait ends when nobody executes.
LEMMA QuietSeesFlag ==
    ASSUME TypeOK, Counted, FlagSeen, Quiet, [Next]_vars,
           ~\E w \in Workers : WorkerStep(w) \/ Stopped(w) \/ Receive(w)
    PROVE  FlagSeen' /\ TypeOK'
  <1>0. UNCHANGED <<store, kind, status, queue, done, pc, item, outcome>>
        /\ ctxDone' \in {ctxDone, TRUE} /\ request' \in {request, TRUE}
    BY DEF Quiet, fixed, worker
  <1>1. CASE SetFlag
    BY <1>0, <1>1 DEF SetFlag, FlagSeen, TypeOK
  <1>2. CASE CloseShutdownCh
    BY <1>0, <1>2 DEF CloseShutdownCh, FlagSeen, TypeOK
  <1>3. CASE WaitEnds
    <2>1. Executors = {}
      BY <1>3, ExecutorsFinite, FS_EmptySet DEF WaitEnds, Counted, Executors
    <2> QED BY <1>0, <1>3, <2>1 DEF WaitEnds, FlagSeen, TypeOK, Executors, Executing
  <1>4. CASE ShutdownReturns
    BY <1>0, <1>4 DEF ShutdownReturns, FlagSeen, TypeOK, Executing
  <1>5. CASE UNCHANGED stopping
    BY <1>0, <1>5 DEF stopping, FlagSeen, TypeOK, Executing
  <1> QED BY <1>1, <1>2, <1>3, <1>4, <1>5
       DEF Next, Caller, CancellerStep, ListInstances, AskForRequest, CancelContexts,
           CancellerStops, Looks, awaitCompletion, EngineStep, StartAwait, AwaitCancelled,
           Awaits, StopPool, CancelContext, Requested, Decide, HumanDecisionWaitingEvents,
           ReaderLeaves, PoolStart, vars

\* PoolStart puts idle workers to work.
LEMMA PoolStarts ==
    ASSUME IInv, PoolStart
    PROVE  IInv'
  <1>1. /\ UNCHANGED <<store, kind, status, queue, done, item, outcome, ctxDone, request,
                       isShuttingDown, shutdown, late, activeSteps>>
        /\ \A w \in Workers : pc[w] = "off" /\ pc'[w] = "select"
        /\ pc' \in [Workers -> Idle \cup Holding]
    BY DEF PoolStart, fixed, database, stopping, Idle
  <1>2. TypeOK' /\ ItemsHeld' /\ OutcomesKnown' /\ FlagSeen'
    BY <1>1 DEF IInv, TypeOK, ItemsHeld, OutcomesKnown, FlagSeen, Holding, Executing
  <1>3. StepsOwned'
    BY <1>1 DEF IInv, StepsOwned, Responsible, Excused
  <1>4. Executors' = Executors
    BY <1>1 DEF Executors, Executing
  <1> QED BY <1>1, <1>2, <1>3, <1>4 DEF IInv, Counted, Executors

----------------------------------------------------------------------------
\* At first nothing is in a handler and nothing is lost.
LEMMA InitIInv == Init => IInv
  <1> SUFFICES ASSUME Init PROVE IInv
    OBVIOUS
  <1>1. TypeOK
    BY LifecycleAssumption DEF Init, TypeOK, Idle
  <1>2. ItemsHeld /\ OutcomesKnown /\ FlagSeen
    BY LifecycleAssumption DEF Init, ItemsHeld, Holding, OutcomesKnown, FlagSeen, Executing
  <1>3. StepsOwned
    BY DEF Init, StepsOwned
  <1>4. Executors = {}
    BY DEF Init, Executors, Executing
  <1> QED BY <1>1, <1>2, <1>3, <1>4, FS_EmptySet DEF IInv, Counted, Executors, Init

\* Every step keeps the invariant.
LEMMA NextIInv == IInv /\ [Next]_vars => IInv'
  <1> SUFFICES ASSUME IInv, [Next]_vars PROVE IInv'
    OBVIOUS
  <1>0. TypeOK /\ ItemsHeld /\ StepsOwned /\ OutcomesKnown /\ Counted /\ FlagSeen
    BY DEF IInv
  <1>1. ASSUME NEW w \in Workers, WorkerStep(w) \/ Stopped(w) \/ Receive(w)
        PROVE  IInv'
    BY <1>0, <1>1, WorkerTypes, WorkerOwned, WorkerCounted, WorkerSeesFlag DEF IInv
  <1>2. CASE Quiet /\ ~\E w \in Workers : WorkerStep(w) \/ Stopped(w) \/ Receive(w)
    BY <1>0, <1>2, QuietKeeps, QuietSeesFlag DEF IInv
  <1> QED BY <1>0, <1>1, <1>2, PoolStarts, NextCases

\* The invariant holds in every state.
LEMMA AlwaysIInv == Spec => []IInv
  BY InitIInv, NextIInv, PTL DEF Spec

\* NoItemLost, for any pool of workers on every store: however stops, shutdowns, cancel
\* requests and a cancelled context fall between the statements of ExecuteNext, every step of
\* a running instance that has not ended is in the queue or with a worker; on SQLite only as
\* long as neither the context is cancelled nor a cancel request waits.
THEOREM NoItemIsLost == Spec => []NoItemLost
  <1>1. IInv => NoItemLost
    BY DEF IInv, StepsOwned, Responsible, NoItemLost
  <1> QED BY <1>1, AlwaysIInv, PTL

\* GracefulShutdown, for any pool of workers: when Shutdown has returned without an error,
\* only workers that were past their third look at isShuttingDown when it was set execute a
\* step.
THEOREM ShutdownIsGraceful == Spec => []GracefulShutdown
  <1>1. IInv => GracefulShutdown
    BY DEF IInv, FlagSeen, GracefulShutdown
  <1> QED BY <1>1, AlwaysIInv, PTL
============================================================================
