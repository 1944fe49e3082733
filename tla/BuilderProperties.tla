------------------------- MODULE BuilderProperties -------------------------
\* What the engine may expect of a definition that Build has accepted.
EXTENDS Builder

RECURSIVE Closure(_, _)
\* The steps that are reached from the set X, X included, when the steps succ[s] follow s.
Closure(X, succ) ==
    LET Y == X \cup UNION {succ[s] : s \in X} IN IF Y = X THEN X ELSE Closure(Y, succ)

Accepted == built.state = "accepted"
Def      == built.steps

\* Where the engine goes from a step, compensations left out.
Following ==
    [s \in DOMAIN Def |-> Range(Def[s].next) \cup Range(Def[s].parallel) \cup ({Def[s].else} \ {""})]
Reached == Closure({built.start}, Following)

\* Where a rollback goes from a step.
RolledBackTo(s) == Closure({s}, [x \in DOMAIN Def |-> {Def[x].prev} \cap DOMAIN Def])

\* In an accepted definition whose names are all different, the engine gets to a step if
\* and only if a rollback from the step gets to the first one, the only one whose Prev is
\* the root: every Prev that the calls have set leads back out of branches, else branches
\* and parallel steps.  Steps in front of the first Step or Fork of a builder and
\* compensations are neither reached nor rolled back.
RollbackReachesRoot ==
    Accepted /\ ~reused =>
        \A s \in DOMAIN Def :
            /\ s \in Reached <=> built.start \in RolledBackTo(s)
            /\ Def[s].prev = Root <=> s = built.start

\* A join that Join has added directly behind a fork; JoinStep with a list of its own is
\* not meant, and a Parallel behind a fork links its join to the fork as well.
BehindFork(j) ==
    /\ Def[j].type = "join" /\ Len(Def[j].waitFor) > 1
    /\ Def[j].prev \in DOMAIN Def /\ Def[Def[j].prev].type = "fork"
    /\ \A p \in DOMAIN Def : Def[p].type = "parallel" => j \notin Range(Def[p].next)

\* A join that Join has added behind a fork waits for one end of each branch: the last
\* step of the branch, behind which no Next follows (a fork inside the branch that is not
\* joined stands for its own branches), or the first condition in it.
JoinsWaitForBranches ==
    Accepted /\ ~reused =>
        \A j \in {x \in DOMAIN Def : BehindFork(x)} :
            LET waits    == Def[j].waitFor
                branches == Def[Def[j].prev].parallel
                branch(n) == Closure({branches[n]}, Following)
            IN  /\ DOMAIN waits = DOMAIN branches
                /\ \A n \in DOMAIN waits :
                     \/ waits[n] \in branch(n) /\ Def[waits[n]].next = <<>>
                     \/ \E c \in branch(n) : Def[c].type = "condition" /\ waits[n] = Virtual[c]

\* detectCycles, a depth-first walk over Go maps, finds a cycle exactly when one of the
\* steps reached from the start is reached from itself.
CyclesFound ==
    Len(stack) = 1 /\ Top.start # "" =>
        LET D == Graph(heap, Top.steps)
            outs == [s \in DOMAIN D |-> Range(Outs(D, s))]
        IN  detectCycles(D, Top.start) <=>
                \E s \in Closure({Top.start}, outs) : s \in Closure(outs[s], outs)
============================================================================
