------------------------------ MODULE MCEngine ------------------------------
(***************************************************************************)
(* Small workflow definitions, as the builder would produce them, for the  *)
(* runs of the engine.  A run registers several workflows at once; an      *)
(* instance is started from one of them, and the bound Together says which *)
(* instances run side by side.                                             *)
(***************************************************************************)
EXTENDS EngineProperties

\* A task without compensation or retries; the other steps are variations of it.
Plain == [type |-> "task", next |-> <<>>, prev |-> RootStep, else |-> NoStep,
          onFailure |-> NoStep, parallel |-> <<>>, waitFor |-> <<>>, strategy |-> "all",
          maxRetries |-> 0, noIdempotent |-> FALSE]
Undo(max)   == [Plain EXCEPT !.prev = NoStep, !.maxRetries = max]
MCVirtual   == [n \in Steps |-> "cond#" \o n]

\* Step("sa", WithStepNoIdempotent()).OnFailure("sua").Then("sb").OnFailure("sub").Then("sc"),
\* with retries
SagaDef ==
    [sa  |-> [Plain EXCEPT !.onFailure = "sua", !.next = <<"sb">>, !.maxRetries = 1,
                           !.noIdempotent = TRUE],
     sb  |-> [Plain EXCEPT !.onFailure = "sub", !.prev = "sa", !.next = <<"sc">>],
     sc  |-> [Plain EXCEPT !.prev = "sb", !.maxRetries = 2],
     sua |-> Undo(2), sub |-> Undo(1)]

\* Fork("f", a, b -> d).Join("j").Then("c")
ForkDef ==
    [f  |-> [Plain EXCEPT !.type = "fork", !.parallel = <<"a", "b">>, !.next = <<"j">>],
     a  |-> [Plain EXCEPT !.onFailure = "ua", !.prev = "f"],
     b  |-> [Plain EXCEPT !.onFailure = "ub", !.prev = "f", !.next = <<"d">>],
     d  |-> [Plain EXCEPT !.prev = "b"],
     j  |-> [Plain EXCEPT !.type = "join", !.prev = "f", !.waitFor = <<"a", "d">>,
                          !.next = <<"c">>],
     c  |-> [Plain EXCEPT !.prev = "j"],
     ua |-> Undo(1), ub |-> Undo(1)]

\* The same with a retry of the first branch
ForkRetryDef == [ForkDef EXCEPT !.a.maxRetries = 1]

\* Fork("gf", ga, gb -> gd).JoinStep("gj", any).Parallel("gp", gx, gy), which adds the
\* join "gk"
AnyThenParallelDef ==
    [gf |-> [Plain EXCEPT !.type = "fork", !.parallel = <<"ga", "gb">>, !.next = <<"gj">>],
     ga |-> [Plain EXCEPT !.prev = "gf"],
     gb |-> [Plain EXCEPT !.prev = "gf", !.next = <<"gd">>],
     gd |-> [Plain EXCEPT !.prev = "gb"],
     gj |-> [Plain EXCEPT !.type = "join", !.prev = "gf", !.waitFor = <<"ga", "gd">>,
                          !.strategy = "any", !.next = <<"gp", "gk">>],
     gp |-> [Plain EXCEPT !.type = "parallel", !.prev = "gj", !.parallel = <<"gx", "gy">>,
                          !.next = <<"gk">>],
     gx |-> [Plain EXCEPT !.prev = "gp"],
     gy |-> [Plain EXCEPT !.prev = "gp"],
     gk |-> [Plain EXCEPT !.type = "join", !.prev = "gj", !.waitFor = <<"gx", "gy">>]]

\* Step("ta").OnFailure("tua").Then("tb"), for two instances
ShortDef ==
    [ta  |-> [Plain EXCEPT !.onFailure = "tua", !.next = <<"tb">>],
     tb  |-> [Plain EXCEPT !.prev = "ta"],
     tua |-> Undo(1)]

\* Step("pa").OnFailure("pua").SavePoint("ps").Then("pb").OnFailure("pub").Then("pc"),
\* with a retry of the last step
SavePointDef ==
    [pa  |-> [Plain EXCEPT !.onFailure = "pua", !.next = <<"ps">>],
     ps  |-> [Plain EXCEPT !.type = "savepoint", !.prev = "pa", !.next = <<"pb">>],
     pb  |-> [Plain EXCEPT !.onFailure = "pub", !.prev = "ps", !.next = <<"pc">>],
     pc  |-> [Plain EXCEPT !.prev = "pb", !.maxRetries = 1],
     pua |-> Undo(1), pub |-> Undo(1)]

\* Fork("kf", ka -> Condition("kk", else ky) -> kx, kb).Join("kj").Then("kc")
ForkConditionDef ==
    [kf  |-> [Plain EXCEPT !.type = "fork", !.parallel = <<"ka", "kb">>, !.next = <<"kj">>],
     ka  |-> [Plain EXCEPT !.onFailure = "kua", !.prev = "kf", !.next = <<"kk">>],
     kk  |-> [Plain EXCEPT !.type = "condition", !.prev = "ka", !.next = <<"kx">>,
                           !.else = "ky"],
     kx  |-> [Plain EXCEPT !.prev = "kk"],
     ky  |-> [Plain EXCEPT !.prev = "kk"],
     kb  |-> [Plain EXCEPT !.prev = "kf"],
     kj  |-> [Plain EXCEPT !.type = "join", !.prev = "kf", !.waitFor = <<"cond#kk", "kb">>,
                           !.next = <<"kc">>],
     kc  |-> [Plain EXCEPT !.prev = "kj"],
     kua |-> Undo(1)]

\* Step("ha").OnFailure("hua").WaitHumanConfirm("hh").Then("hc")
HumanDef ==
    [ha  |-> [Plain EXCEPT !.onFailure = "hua", !.next = <<"hh">>],
     hh  |-> [Plain EXCEPT !.type = "human", !.prev = "ha", !.next = <<"hc">>],
     hc  |-> [Plain EXCEPT !.prev = "hh"],
     hua |-> Undo(1)]

\* Sequential workflows, of which more is proved.
ASSUME SequentialExamples ==
    \A D \in {SagaDef, ShortDef, SavePointDef} : SequentialDef(DOMAIN D, D)

MemoryDef   == LET all == SagaDef @@ ShortDef @@ ForkDef @@ AnyThenParallelDef IN all
SqliteDef   == LET all == SavePointDef @@ ForkConditionDef @@ HumanDef IN all
PostgresDef == LET all == SagaDef @@ ForkDef IN all

\* The instance of each workflow: what it starts with, and what users do to it.
MCStart ==
    [i \in Instances |->
        CASE i = "saga"      -> "sa"
          [] i = "fork"      -> "f"
          [] i = "any"       -> "gf"
          [] i \in {"short1", "short2"} -> "ta"
          [] i = "savepoint" -> "pa"
          [] i \in {"condition", "condition2"} -> "kf"
          [] i = "human"     -> "ha"]
MCDLQEnabled  == [i \in Instances |-> i = "saga" /\ StoreKind = "postgres"]
NoDLQ         == [i \in Instances |-> FALSE]
MCCancelKinds ==
    [i \in Instances |-> CASE i \in {"saga", "savepoint", "any"} -> {"cancel", "abort"}
                           [] i = "fork" /\ StoreKind = "memory"  -> {"cancel"}
                           [] i = "human"                         -> {"abort"}
                           [] OTHER                               -> {}]
AbortsFork    == [i \in Instances |-> {"abort"}]
NoCancel      == [i \in Instances |-> {}]

\* One instance at a time, but for the pairs of instances of one workflow.
MCTogether == {{i} : i \in Instances}
              \cup {G \in {{"short1", "short2"}, {"condition", "condition2"}} :
                        G \subseteq Instances}

\* Without transactions one worker executes a fork (AtomicityAssumption).
MCPool ==
    [i \in Instances |->
        IF StoreKind # "postgres" /\ i \in {"fork", "any", "condition", "condition2"}
        THEN {"w1"} ELSE Workers]

Everywhere  == [w \in Workers |-> Steps]
\* Two services: one lacks the handler of ta, the other those of tb and of the
\* compensation of ta.
Distributed == [w \in Workers |-> Steps \ (IF w = "w1" THEN {"tb", "tua"} ELSE {"ta"})]
=============================================================================
