------------------------------ MODULE Builder ------------------------------
(***************************************************************************)
(* The workflow builder (builder.go).  A definition is made by calls on a  *)
(* Builder; Fork and Condition run the caller's functions on builders of   *)
(* their own and take over the steps these have made.  A step definition   *)
(* is shared by every builder that has it, so the definitions are on a     *)
(* heap and a builder maps names to places of the heap.                    *)
(*                                                                         *)
(* Handlers, options, strategies and expressions are left out, and names   *)
(* are neither empty nor reserved (validateStepName).                      *)
(***************************************************************************)
EXTENDS Integers, SequencesExt

CONSTANTS
    Names,         \* the names a caller uses, in the order in which they are used first
    JoinName,      \* name of a parallel step -> the name of the join that Parallel adds
    Virtual,       \* name of a condition -> the virtual step cond#<name>
    MaxCost,       \* bound: a call costs 1, one that is seldom used or reuses a name 2
    MaxDepth       \* bound: builders inside each other

ASSUME BuilderAssumption ==
    /\ Names # <<>> /\ {MaxCost, MaxDepth} \subseteq Nat
    /\ \A n \in Range(Names) : {JoinName[n], Virtual[n]} \cap Range(Names) = {}

VARIABLES
    heap,          \* the step definitions, in the order in which they were made
    stack,         \* the builders, the innermost last
    used,          \* the names used so far
    cost, reused,  \* the cost of the calls made, and whether one reused a name
    built          \* what Build of the outermost builder has returned

vars == <<heap, stack, used, cost, reused, built>>

Root == "_root_"

NewStepDefinition(name, type, prev) ==
    [name |-> name, type |-> type, next |-> <<>>, prev |-> prev, onFailure |-> "", else |-> "",
     parallel |-> <<>>, waitFor |-> <<>>]

\* `call' is what the innermost builder is for: the step that forks, or whose else branch
\* it is, and the number of branches that are still to come.
NewBuilder(level, call) ==
    [steps |-> <<>>, start |-> "", current |-> "", level |-> level, err |-> FALSE,
     subs |-> {}, call |-> call]

TheWorkflow == [of |-> "", branches |-> 0]

Init ==
    /\ heap = <<>> /\ stack = <<NewBuilder(1, TheWorkflow)>>
    /\ used = {} /\ cost = 0 /\ reused = FALSE
    /\ built = [state |-> "open"]

Top == stack[Len(stack)]

----------------------------------------------------------------------------
\* Pieces of the methods: they take and return a heap h and a builder b.

Fails(h, b) == [h |-> h, b |-> [b EXCEPT !.err = TRUE]]

Put(h, b, s) ==        \* builder.steps[name] = step
    [h |-> Append(h, s),
     b |-> [b EXCEPT !.steps = [n \in DOMAIN @ \cup {s.name} |->
                                   IF n = s.name THEN Len(h) + 1 ELSE @[n]]]]

\* The step before gets the name appended to its Next.
Link(r, name) ==
    LET cur == r.b.current
    IN  IF cur \in {"", name} THEN r
        ELSE [r EXCEPT !.h[r.b.steps[cur]].next = Append(@, name)]

Moved(r, name) == [r EXCEPT !.b.current = name]

Add(h, b, s) == Moved(Link(Put(h, b, s), s.name), s.name)

\* The definitions of a builder, by name.
Graph(h, steps) == [n \in DOMAIN steps |-> h[steps[n]]]

Step(h, b, name) ==
    IF name \in DOMAIN b.steps THEN Fails(h, b)
    ELSE IF b.start = ""
    THEN Add(h, [b EXCEPT !.start = name], NewStepDefinition(name, "task", Root))
    ELSE Add(h, b, NewStepDefinition(name, "task", b.current))

OnFailure(h, b, name) ==
    IF b.current = "" THEN Fails(h, b)
    ELSE LET r == Put(h, b, NewStepDefinition(name, "task", ""))
         IN  [r EXCEPT !.h[r.b.steps[b.current]].onFailure = name]

JoinStep(h, b, name, waitFor) ==
    IF b.current = "" THEN Fails(h, b)
    ELSE Add(h, b, [NewStepDefinition(name, "join", b.current) EXCEPT !.waitFor = waitFor])

\* The parallel step does not become the current one: the join is linked to the step
\* before it as well.
Parallel(h, b, name, tasks) ==
    LET p  == [NewStepDefinition(name, "parallel", b.current) EXCEPT !.next = <<JoinName[name]>>,
                                                                    !.parallel = tasks]
        r  == Link(Put(h, b, p), name)
        rt == FoldLeft(LAMBDA acc, t : Put(acc.h, acc.b, NewStepDefinition(t, "task", name)), r, tasks)
    IN  IF name \in DOMAIN b.steps \/ \E n \in DOMAIN tasks : tasks[n] \in DOMAIN r.b.steps
        THEN Fails(h, b)
        ELSE JoinStep(rt.h, rt.b, JoinName[name], tasks)

SavePoint(h, b, name) ==
    IF b.level > 1 THEN Fails(h, b)
    ELSE Add(h, b, NewStepDefinition(name, "save_point", b.current))

WaitHumanConfirm(h, b, name) == Add(h, b, NewStepDefinition(name, "human", b.current))

----------------------------------------------------------------------------
\* The ends of a branch, which Join waits for

RECURSIVE traverseBranchForCondition(_, _, _)
\* The first condition that a walk along Next, then Else finds, and the steps it has seen.
traverseBranchForCondition(G, name, visited) ==
    IF name = "" \/ name \in visited \/ name \notin DOMAIN G THEN [found |-> "", visited |-> visited]
    ELSE IF G[name].type = "condition" THEN [found |-> name, visited |-> visited]
    ELSE FoldLeft(LAMBDA acc, n : IF acc.found # "" THEN acc
                                  ELSE traverseBranchForCondition(G, n, acc.visited),
                  [found |-> "", visited |-> visited \cup {name}],
                  Append(G[name].next, G[name].else))

RECURSIVE traverseBranchForTerminal(_, _, _)
traverseBranchForTerminal(G, name, visited) ==
    IF name = "" \/ name \in visited \/ name \notin DOMAIN G THEN [ends |-> <<>>, visited |-> visited]
    ELSE IF G[name].next = <<>> THEN [ends |-> <<name>>, visited |-> visited \cup {name}]
    ELSE FoldLeft(LAMBDA acc, n :
                     LET r == traverseBranchForTerminal(G, n, acc.visited)
                     IN  [ends |-> acc.ends \o r.ends, visited |-> r.visited],
                  [ends |-> <<>>, visited |-> visited \cup {name}],
                  Append(G[name].next, G[name].else))

findFirstConditionInBranch(G, name) == traverseBranchForCondition(G, name, {}).found
\* Mutant: the first step of a branch stands for the branch.
BranchStart(G, name) == name
findTerminalStepInBranch(G, name) ==
    LET ends == traverseBranchForTerminal(G, name, {}).ends
    IN  IF ends = <<>> THEN name ELSE Head(ends)

Join(h, b, name) ==
    LET G == Graph(h, b.steps)
        end(s) == LET c == findFirstConditionInBranch(G, s)
                  IN  IF c # "" THEN Virtual[c] ELSE findTerminalStepInBranch(G, s)
        prev == G[b.current]
        waitFor == IF prev.type \in {"fork", "parallel"}
                   THEN [n \in DOMAIN prev.parallel |-> end(prev.parallel[n])]
                   ELSE <<b.current>>
    IN  IF b.current = "" THEN Fails(h, b)
        ELSE Add(h, b, [NewStepDefinition(name, "join", b.current) EXCEPT !.waitFor = waitFor])

----------------------------------------------------------------------------
\* Validation

Known(G, s) == s \in DOMAIN G

\* The targets of a step, virtual and unknown ones left out.
Outs(G, s) ==
    LET d == G[s]
    IN  SelectSeq(d.next \o <<d.onFailure, d.else>> \o d.parallel \o d.waitFor,
                  LAMBDA x : Known(G, x))

RECURSIVE Visit(_, _, _, _)
\* Mutant: a step that was left again still counts as being on the path.
VisitNeverLeft(G, s, visited, path) ==
    FoldLeft(LAMBDA acc, n :
                IF acc.cycle THEN acc
                ELSE IF n \notin acc.visited THEN Visit(G, n, acc.visited, path \cup {s})
                ELSE [acc EXCEPT !.cycle = TRUE],
             [visited |-> visited \cup {s}, cycle |-> FALSE], Outs(G, s))
\* A depth-first walk: `path' are the steps of recStack.
Visit(G, s, visited, path) ==
    FoldLeft(LAMBDA acc, n :
                IF acc.cycle THEN acc
                ELSE IF n \notin acc.visited THEN Visit(G, n, acc.visited, path \cup {s})
                ELSE [acc EXCEPT !.cycle = n \in path \cup {s}],
             [visited |-> visited \cup {s}, cycle |-> FALSE], Outs(G, s))

detectCycles(G, start) == Visit(G, start, {}, {}).cycle

ValidateWorkflowDefinition(G, start) ==
    /\ \A s \in DOMAIN G :
         /\ \A n \in DOMAIN G[s].next : Known(G, G[s].next[n])
         /\ G[s].onFailure # "" => Known(G, G[s].onFailure)
         /\ G[s].else # "" => Known(G, G[s].else)
         /\ \A n \in DOMAIN G[s].parallel : Known(G, G[s].parallel[n])
         /\ \A n \in DOMAIN G[s].waitFor :
              Known(G, G[s].waitFor[n]) \/ G[s].waitFor[n] \in Range(Virtual)
    /\ ~detectCycles(G, start)

\* Build, also of every builder whose steps were taken over.
Builds(h, b) ==
    /\ ~b.err /\ b.start # ""
    /\ \A x \in b.subs \cup {[start |-> b.start, steps |-> b.steps]} :
         ValidateWorkflowDefinition(Graph(h, x.steps), x.start)

----------------------------------------------------------------------------
\* The actions: one call of the caller

\* The caller uses a name for the first time, or one more time.
Calling(name, others, c) ==
    /\ built.state = "open" /\ ~Top.err
    /\ \/ name \in used
       \/ Cardinality(used) < Len(Names) /\ name = Names[Cardinality(used) + 1]
    /\ used' = used \cup {name} \cup others
    /\ reused' = (reused \/ name \in used)
    /\ cost' = cost + (IF name \in used THEN 2 ELSE c)
    /\ cost' <= MaxCost
    /\ UNCHANGED built

CallOf(r) == heap' = r.h /\ stack' = [stack EXCEPT ![Len(stack)] = r.b]

CallStep(name)      == Calling(name, {}, 1) /\ CallOf(Step(heap, Top, name))
CallOnFailure(name) == Calling(name, {}, 2) /\ CallOf(OnFailure(heap, Top, name))
CallJoin(name)      == Calling(name, {}, 1) /\ CallOf(Join(heap, Top, name))
CallSavePoint(name) == Calling(name, {}, 2) /\ CallOf(SavePoint(heap, Top, name))
CallWaitHumanConfirm(name) == Calling(name, {}, 2) /\ CallOf(WaitHumanConfirm(heap, Top, name))
CallJoinStep(name, w) ==
    Calling(name, {}, 2) /\ w \in used /\ CallOf(JoinStep(heap, Top, name, <<w>>))

\* A parallel step with two tasks that have new names.
CallParallel(name) ==
    LET k == Cardinality(used \cup {name})
        tasks == <<Names[k + 1], Names[k + 2]>>
    IN  /\ k + 2 <= Len(Names)
        /\ Calling(name, Range(tasks), 2)
        /\ CallOf(Parallel(heap, Top, name, tasks))

\* Fork with a number of branches: the first branch gets a builder.  The step is in the
\* builder, and the step before is linked to it, when the branches run.
BeginFork(name, n) ==
    /\ Calling(name, {}, 1)
    /\ LET r == Link(Put(heap, Top, NewStepDefinition(name, "fork",
                                        IF Top.start = "" THEN Root ELSE Top.current)), name)
           b == [r.b EXCEPT !.start = IF @ = "" THEN name ELSE @]
       IN  IF n < 2
           THEN heap' = heap /\ stack' = [stack EXCEPT ![Len(stack)].err = TRUE]
           ELSE /\ Len(stack) < MaxDepth
                /\ heap' = r.h
                /\ stack' = Append([stack EXCEPT ![Len(stack)] = b],
                                   NewBuilder(b.level + 1, [of |-> name, branches |-> n - 1]))

\* Condition: with an else branch, that branch gets a builder first.
BeginCondition(name, withElse) ==
    /\ Calling(name, {}, 1)
    /\ LET r == Put(heap, Top, NewStepDefinition(name, "condition", Top.current))
           b == r.b
       IN  IF Top.current = ""
           THEN heap' = heap /\ stack' = [stack EXCEPT ![Len(stack)].err = TRUE]
           ELSE IF withElse
           THEN /\ Len(stack) < MaxDepth
                /\ heap' = r.h
                /\ stack' = Append([stack EXCEPT ![Len(stack)] = b],
                                   NewBuilder(b.level, [of |-> name, branches |-> 0]))
           ELSE LET l == Moved(Link(r, name), name)
                IN  heap' = l.h /\ stack' = [stack EXCEPT ![Len(stack)] = l.b]

\* The steps of a finished builder are taken over by the one that made it.
TakeOver(b, sub) ==
    [b EXCEPT !.steps = [n \in DOMAIN @ \cup DOMAIN sub.steps |->
                            IF n \in DOMAIN sub.steps THEN sub.steps[n] ELSE @[n]],
              !.subs = @ \cup sub.subs \cup {[start |-> sub.start, steps |-> sub.steps]}]

\* A branch function returns.
Outer == stack[Len(stack) - 1]
Popped(b) == [SubSeq(stack, 1, Len(stack) - 1) EXCEPT ![Len(stack) - 1] = b]
Returns == Len(stack) > 1 /\ UNCHANGED <<used, cost, reused, built>>
IsFork == heap[Outer.steps[Top.call.of]].type = "fork"

\* The fork becomes the step before the first step of the branch.
\* Mutant: a rollback that leaves the branch ends there.
AttachForward(h, f, sub) == [h EXCEPT ![Outer.steps[f]].parallel = Append(@, sub.start)]
Attach(h, f, sub) == [h EXCEPT ![sub.steps[sub.start]].prev = f,
                               ![Outer.steps[f]].parallel = Append(@, sub.start)]

EndBranch ==
    /\ Returns /\ IsFork
    /\ LET f == Top.call.of
           refused == ~Builds(heap, Top) \/ DOMAIN Top.steps \cap DOMAIN Outer.steps # {}
           b == TakeOver(Outer, Top)
       IN  IF refused
           THEN heap' = heap /\ stack' = Popped([Outer EXCEPT !.err = TRUE])
           ELSE /\ heap' = Attach(heap, f, Top)
                /\ stack' = IF Top.call.branches = 0 THEN Popped([b EXCEPT !.current = f])
                            ELSE Append(Popped(b), NewBuilder(b.level + 1,
                                    [of |-> f, branches |-> Top.call.branches - 1]))

EndElse ==
    /\ Returns /\ ~IsFork
    /\ LET c == Top.call.of
           h == [heap EXCEPT ![Outer.steps[c]].else = Top.start, ![Top.steps[Top.start]].prev = c]
           l == Moved(Link([h |-> h, b |-> TakeOver(Outer, Top)], c), c)
       IN  IF ~Builds(heap, Top)
           THEN heap' = heap /\ stack' = Popped([Outer EXCEPT !.err = TRUE])
           ELSE heap' = l.h /\ stack' = Popped(l.b)

Build ==
    /\ Len(stack) = 1 /\ built.state = "open"
    /\ built' = IF Builds(heap, Top)
                THEN [state |-> "accepted", start |-> Top.start, steps |-> Graph(heap, Top.steps)]
                ELSE [state |-> "refused"]
    /\ UNCHANGED <<heap, stack, used, cost, reused>>

Next ==
    \/ \E name \in Range(Names) :
         \/ CallStep(name) \/ CallOnFailure(name) \/ CallJoin(name) \/ CallSavePoint(name)
         \/ CallWaitHumanConfirm(name) \/ CallParallel(name)
         \/ \E w \in Range(Names) : CallJoinStep(name, w)
         \/ \E n \in 1..2 : BeginFork(name, n)
         \/ \E withElse \in BOOLEAN : BeginCondition(name, withElse)
    \/ EndBranch \/ EndElse \/ Build

Spec == Init /\ [][Next]_vars
============================================================================
