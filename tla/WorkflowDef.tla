---------------------------- MODULE WorkflowDef ----------------------------
(***************************************************************************)
(* A workflow definition as the builder produces it (builder.go,           *)
(* models.go: GraphDefinition and StepDefinition), and the questions the   *)
(* engine asks of its graph (engine.go, the find* and is* helpers): which  *)
(* fork a step belongs to, which join waits for it, which condition it is  *)
(* under, where its nearest save point is, and in which order a rollback   *)
(* visits the steps.  Nothing here depends on the state of an instance     *)
(* except the statuses that are passed as an argument.                     *)
(***************************************************************************)
EXTENDS SequencesExt

CONSTANTS
    Steps,       \* names of the step definitions of all workflows, compensations included
    Def,         \* Steps -> StepDefinition
    Virtual      \* condition -> its placeholder "cond#<condition>" in a WaitFor list

NoStep   == ""          \* an empty name: no Else, no OnFailure, no Prev
RootStep == "_root_"    \* rootStepName

StepTypes == {"task", "fork", "parallel", "join", "savepoint", "condition", "human"}
WaitNames == Steps \cup {Virtual[c] : c \in DOMAIN Virtual}

StepDefinition ==
    [type         : StepTypes,
     next         : Seq(Steps),
     prev         : Steps \cup {NoStep, RootStep},
     else         : Steps \cup {NoStep},
     onFailure    : Steps \cup {NoStep},
     parallel     : Seq(Steps),
     waitFor      : Seq(WaitNames),
     strategy     : {"all", "any"},
     maxRetries   : Nat,
     noIdempotent : BOOLEAN]

ASSUME DefinitionAssumption ==
    /\ IsFiniteSet(Steps)
    /\ Def \in [Steps -> StepDefinition]
    /\ DOMAIN Virtual = Steps
    /\ \A c \in Steps : Virtual[c] \notin Steps

JoinSteps    == {j \in Steps : Def[j].type = "join"}
IsForking(n) == Def[n].type \in {"fork", "parallel"}

\* What Builder guarantees beyond ValidateWorkflowDefinition and the model relies on:
\* a join directly follows a fork or a parallel step, and that step creates its join
\* state; a step has at most one join and one other step in Next; a step is the head of
\* at most one branch; and a step that follows another has a Prev (findNearestSavePoint
\* would go on at an arbitrary step from one without).
ASSUME BuilderAssumption ==
    /\ \A j \in JoinSteps : \E f \in Steps : IsForking(f) /\ j \in ToSet(Def[f].next)
    /\ \A n \in Steps : /\ Cardinality(ToSet(Def[n].next) \cap JoinSteps) <= 1
                        /\ Cardinality(ToSet(Def[n].next) \ JoinSteps) <= 1
    /\ \A f, g \in Steps :
         ToSet(Def[f].parallel) \cap ToSet(Def[g].parallel) # {} => f = g
    /\ \A n \in Steps : \A m \in ToSet(Def[n].next) \cup ToSet(Def[n].parallel) :
         Def[m].prev # NoStep
    /\ \A n \in Steps : Def[n].else # NoStep => Def[Def[n].else].prev # NoStep

IsVirtual(w) == w \notin Steps

\* First element of a sequence that passes a test, NoStep when none does.
First(seq, Test(_)) ==
    LET k == SelectInSeq(seq, Test) IN IF k = 0 THEN NoStep ELSE seq[k]

----------------------------------------------------------------------------
\* Walking back along Prev

\* WalkBack[k][n]: n, its Prev, the Prev of that ..., at most k steps long.
WalkBack[k \in Nat] ==
    [n \in Steps \cup {NoStep, RootStep} |->
        IF k = 0 \/ n \notin Steps THEN <<>> ELSE <<n>> \o WalkBack[k - 1][Def[n].prev]]

\* The steps before n, nearest first.
Ancestors(n) == WalkBack[Cardinality(Steps)][Def[n].prev]

\* The fork whose Parallel list names n ("fork" only: not a "parallel" step).
findForkStepForParallelStep(n) ==
    LET F == {f \in Steps : Def[f].type = "fork" /\ n \in ToSet(Def[f].parallel)}
    IN  IF F = {} THEN NoStep ELSE CHOOSE f \in F : TRUE

isStepInForkBranch(n) == findForkStepForParallelStep(n) # NoStep

isStepDescendantOf(n, a) == n = a \/ a \in ToSet(Ancestors(n))

isStepInParallelBranch(n, f) ==
    \E b \in ToSet(Def[f].parallel) : isStepDescendantOf(n, b)

findConditionStepInBranch(n) ==
    First(Ancestors(n), LAMBDA a : Def[a].type = "condition")

\* The nearest ancestor that is a fork or the head of a fork's branch.
ForkMark(n) ==
    First(Ancestors(n), LAMBDA a : Def[a].type = "fork" \/ isStepInForkBranch(a))

isTerminalStepInForkBranch(n) ==
    /\ n \notin JoinSteps
    /\ Def[n].next = <<>>
    /\ isStepInForkBranch(n) \/ ForkMark(n) # NoStep

ForkOfMark(a) ==
    IF a = NoStep \/ Def[a].type = "fork" THEN a ELSE findForkStepForParallelStep(a)

\* The join that follows the fork or parallel step f.
JoinAfter(f) ==
    LET J == {j \in JoinSteps : f # NoStep /\ j \in ToSet(Def[f].next)}
    IN  IF J = {} THEN NoStep ELSE CHOOSE j \in J : TRUE

findJoinStepForForkBranch(n) ==
    JoinAfter(IF isStepInForkBranch(n) THEN findForkStepForParallelStep(n)
              ELSE ForkOfMark(ForkMark(n)))

\* Mutant: the rollback stops at the step before.
PreviousStep(n) == Def[n].prev

findNearestSavePoint(n) ==
    LET sp == First(<<n>> \o Ancestors(n), LAMBDA a : Def[a].type = "savepoint")
    IN  IF sp = NoStep THEN RootStep ELSE sp

----------------------------------------------------------------------------
\* Rollback

\* The successors of condition c that ran, by the statuses last[n] of the steps.
determineExecutedBranch(c, last) ==
    LET Ran(n) == last[n] \in {"completed", "failed", "compensation"}
    IN  IF \E n \in ToSet(Def[c].next) : Ran(n) THEN Def[c].next
        ELSE IF Def[c].else # NoStep /\ Ran(Def[c].else) THEN <<Def[c].else>>
        ELSE <<>>

\* A call of rollbackStepChainWithVisited: for step cur, as a branch of a fork (par) or on
\* the way back, after the steps in seen.  It returns the steps visited since and the set
\* of those handed to rollbackStep.  last[n] is the status of the last row of step n
\* ("absent" if there is none); the order of the visits shows only in queue ids.
VisitCalls == [cur : Steps, par : BOOLEAN, seen : SUBSET Steps]
VisitCall(cur, par, seen) == [cur |-> cur, par |-> par, seen |-> seen]

\* Visit names one after the other as branches; deeper[call] is what a call returns.
visitBranches(deeper, names, st) ==
    FoldLeft(LAMBDA s, n : LET r == deeper[VisitCall(n, TRUE, s.visited)]
                           IN  [visited |-> r.visited, undo |-> s.undo \cup r.undo],
             st, names)

visitStep(deeper, cur, par, seen, last) ==
    LET d      == Def[cur]
        below  == (IF IsForking(cur) THEN d.parallel ELSE <<>>)
                  \o (CASE ~par                        -> <<>>
                        [] par /\ d.type # "condition" -> d.next
                        [] OTHER -> IF last[cur] = "completed"
                                    THEN determineExecutedBranch(cur, last) ELSE <<>>)
        inside == visitBranches(deeper, below,
                      [visited |-> seen \cup {cur},
                       undo |-> {cur} \cap {n \in Steps : last[n] \in {"completed", "failed"}}])
        beside == IF IsForking(d.prev) THEN visitBranches(deeper, Def[d.prev].parallel, inside)
                  ELSE inside
        behind == deeper[VisitCall(d.prev, FALSE, beside.visited)]
    IN  IF par \/ d.prev \notin Steps THEN inside
        ELSE [visited |-> behind.visited, undo |-> beside.undo \cup behind.undo]

\* The call returns at once for a step already visited, and at the save point sp.
visit(deeper, call, sp, last) ==
    IF call.cur \in call.seen THEN [visited |-> call.seen, undo |-> {}]
    ELSE IF call.cur = sp THEN [visited |-> call.seen \cup {sp}, undo |-> {}]
    ELSE visitStep(deeper, call.cur, call.par, call.seen, last)

\* The steps handed to rollbackStep on the way from step `from' back to the save point sp.
\* Calls nest at most one deeper than there are steps: chain[k] is for k levels.
rollbackStepChain(from, sp, last) ==
    LET chain[k \in Nat] ==
          [call \in VisitCalls |->
              IF k = 0 THEN [visited |-> call.seen, undo |-> {}]
              ELSE visit(chain[k - 1], call, sp, last)]
    IN  chain[Cardinality(Steps) + 1][VisitCall(from, FALSE, {})].undo
============================================================================
