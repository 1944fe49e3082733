----------------------------- MODULE MCBranches -----------------------------
EXTENDS BranchesProperties

MCJoinRows == <<"j1", "j2">>

\* Two branches of one or two steps.
Short == [a1 |-> "none", b1 |-> "none"]
Long  == [a1 |-> "none", b1 |-> "b2", b2 |-> "none"]
Both  == [a1 |-> "a2", b1 |-> "b2", a2 |-> "none", b2 |-> "none"]

Scenario(st, nxt, virt, strat, fails) ==
    [store |-> st, heads |-> <<"a1", "b1">>, next |-> nxt, virtual |-> virt,
     strategy |-> strat, failing |-> fails]

Conditions == {"a2", "b2"}

MCScenarios ==
    { Scenario("postgres", Short, {}, "all", {"a1", "b1"}),
      Scenario("postgres", Short, {}, "any", {"a1", "b1"}),
      Scenario("postgres", Short, {}, "none", {"a1", "b1"}),
      Scenario("postgres", Long, {}, "all", {"a1", "b1", "b2"}),
      Scenario("postgres", Long, {}, "any", {"a1", "b1"}),
      Scenario("postgres", Long, {"b2"}, "all", {"a1", "b1", "b2"}),
      Scenario("postgres", Both, Conditions, "all", Conditions),
      Scenario("postgres", Both, Conditions, "any", Conditions),
      Scenario("memory", Short, {}, "all", {"a1", "b1"}),
      Scenario("memory", Short, {}, "any", {"a1"}),
      Scenario("memory", Short, {}, "none", {"a1", "b1"}),
      Scenario("memory", Both, Conditions, "all", {}),
      Scenario("sqlite", Short, {}, "all", {"a1"}),
      Scenario("sqlite", Both, Conditions, "any", {}) }

\* The workflow of section 5.5.4 of docs/ENGINE_SPEC.md.
MCReserveAndShip == { Scenario("postgres", Both, {}, "all", {"a1", "b1"}) }
=============================================================================
