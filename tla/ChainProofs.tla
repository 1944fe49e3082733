----------------------------- MODULE ChainProofs -----------------------------
(***************************************************************************)
(* What a rollback visits when steps follow each other in a line, without  *)
(* forks: every step back to the nearest save point.  The recursions of    *)
(* module WorkflowDef (WalkBack, rollbackStepChain) are shown to have      *)
(* solutions first; induction is by the least counterexample.              *)
(***************************************************************************)
EXTENDS WorkflowDef, FiniteSetTheorems, SequenceTheorems, WellFoundedInduction, TLAPS

\* A set of natural numbers has a least element.
LEMMA LeastNumber ==
    ASSUME NEW T \in SUBSET Nat, T # {}
    PROVE  \E x \in T : \A y \in T : x <= y
<1> DEFINE R == OpToRel(<, Nat)
<1>1. IsWellFoundedOn(R, Nat) BY NatLessThanWellFounded
<1>2. \A x, y \in Nat : <<y, x>> \in R <=> y < x BY DEF OpToRel
<1> HIDE DEF R
<1>3. PICK x \in T : \A y \in T : ~ (<<y, x>> \in R) BY <1>1, WFMin
<1>4. \A y \in T : ~(y < x) BY <1>2, <1>3, Zenon
<1>5. \A y \in T : x <= y BY <1>4
<1>6. QED BY <1>5

\* A set of natural numbers below a bound has a greatest element.
LEMMA GreatestNumber ==
    ASSUME NEW T \in SUBSET Nat, T # {}, NEW b \in Nat, \A x \in T : x <= b
    PROVE  \E x \in T : \A y \in T : y <= x
<1> DEFINE B == {b - x : x \in T}
<1>1. B \in SUBSET Nat /\ B # {}
  <2>1. \A x \in T : b - x \in Nat OBVIOUS
  <2>2. PICK x \in T : TRUE OBVIOUS
  <2>3. b - x \in B OBVIOUS
  <2>4. QED BY <2>1, <2>3
<1>2. PICK m \in B : \A y \in B : m <= y BY <1>1, LeastNumber
<1>3. PICK x \in T : m = b - x BY <1>2
<1>4. \A y \in T : b - x <= b - y BY <1>2, <1>3
<1>5. \A y \in T : y <= x BY <1>4
<1>6. QED BY <1>5

\* Min and Max are that element.
LEMMA LeastIsMin ==
    ASSUME NEW T \in SUBSET Nat, NEW m \in T, \A y \in T : m <= y
    PROVE  Min(T) = m
<1>1. \E x \in T : \A y \in T : x <= y OBVIOUS
<1> DEFINE x == CHOOSE z \in T : \A y \in T : z <= y
<1>2. x \in T /\ \A y \in T : x <= y BY <1>1
<1>3. Min(T) = x BY DEF Min
<1> HIDE DEF x
<1>4. x \in Nat /\ m \in Nat /\ x <= m /\ m <= x BY <1>2
<1>5. QED BY <1>3, <1>4

LEMMA GreatestIsMax ==
    ASSUME NEW T \in SUBSET Nat, NEW m \in T, \A y \in T : y <= m
    PROVE  Max(T) = m
<1>0. \A y \in T : m >= y OBVIOUS
<1>1. \E x \in T : \A y \in T : x >= y BY <1>0
<1> DEFINE x == CHOOSE z \in T : \A y \in T : z >= y
<1>2. x \in T /\ \A y \in T : x >= y BY <1>1
<1>3. Max(T) = x BY DEF Max
<1> HIDE DEF x
<1>4. x \in Nat /\ m \in Nat /\ x <= m /\ m <= x BY <1>2
<1>5. QED BY <1>3, <1>4

\* A function on a set can be iterated.
LEMMA Iterated ==
    ASSUME NEW T, NEW base \in T, NEW step \in [T -> T]
    PROVE  \E f \in [Nat -> T] : f[0] = base /\ \A k \in Nat : k # 0 => f[k] = step[f[k - 1]]
<1> DEFINE Ok(g, m) == /\ g \in [0..m -> T] /\ g[0] = base
                       /\ \A k \in 1..m : g[k] = step[g[k - 1]]
           Bad == {m \in Nat : ~\E g : Ok(g, m)}
<1>1. Bad = {}
  <2> SUFFICES ASSUME Bad # {} PROVE FALSE OBVIOUS
  <2>1. PICK m \in Bad : \A k \in Bad : m <= k BY LeastNumber
  <2>2. CASE m = 0
    <3>1. Ok([k \in 0..0 |-> base], 0) OBVIOUS
    <3> HIDE DEF Ok
    <3>2. QED BY <2>1, <2>2, <3>1
  <2>3. CASE m # 0
    <3>1. m - 1 \in Nat /\ m - 1 \notin Bad
      <4>1. m \in Nat /\ m - 1 \in Nat /\ ~(m <= m - 1) BY <2>3
      <4> HIDE DEF Bad
      <4>2. QED BY <2>1, <4>1
    <3>2. PICK h : Ok(h, m - 1) BY <3>1
    <3> DEFINE g == [k \in 0..m |-> IF k = m THEN step[h[m - 1]] ELSE h[k]]
    <3>3. h[m - 1] \in T BY <3>1, <3>2
    <3>4. \A k \in 0..m : k # m => k \in 0..(m - 1) /\ g[k] = h[k] BY <3>1
    <3>5. g \in [0..m -> T] BY <3>1, <3>2, <3>3
    <3>6. g[0] = base BY <2>3, <3>2, <3>4
    <3>7. ASSUME NEW k \in 1..m PROVE g[k] = step[g[k - 1]]
      <4>1. k - 1 \in 0..m /\ k - 1 # m BY <3>1
      <4>2. g[k - 1] = h[k - 1] BY <3>4, <4>1
      <4>3. CASE k = m BY <4>2, <4>3
      <4>4. CASE k # m
        <5>1. k \in 1..(m - 1) /\ k \in 0..m BY <3>1, <4>4
        <5>2. g[k] = h[k] BY <3>4, <4>4, <5>1
        <5>3. QED BY <3>2, <4>2, <5>1, <5>2
      <4>5. QED BY <4>3, <4>4
    <3> HIDE DEF g
    <3>8. Ok(g, m) BY <3>5, <3>6, <3>7
    <3> HIDE DEF Ok
    <3>9. QED BY <2>1, <3>8
  <2>4. QED BY <2>2, <2>3
<1>2. ASSUME NEW m \in Nat, NEW n \in Nat, NEW g, NEW h, Ok(g, m), Ok(h, n)
      PROVE  \A k \in 0..m : k <= n => g[k] = h[k]
  <2> DEFINE Wrong == {k \in 0..m : k <= n /\ g[k] # h[k]}
  <2> SUFFICES ASSUME Wrong # {} PROVE FALSE OBVIOUS
  <2>1. PICK k \in Wrong : \A x \in Wrong : k <= x
    <3>1. Wrong \in SUBSET Nat OBVIOUS
    <3> HIDE DEF Wrong
    <3>2. QED BY <3>1, LeastNumber
  <2>2. k # 0 BY <1>2
  <2>3. k - 1 \in 0..m /\ k - 1 <= n /\ k - 1 \notin Wrong
    <3>1. k \in 1..m /\ k <= n BY <2>2
    <3>2. ~(k <= k - 1) /\ k - 1 \in 0..m /\ k - 1 <= n BY <3>1
    <3> HIDE DEF Wrong
    <3>3. QED BY <2>1, <3>2
  <2>4. g[k - 1] = h[k - 1] BY <2>3
  <2>5. k \in 1..m /\ k \in 1..n BY <2>2
  <2>6. QED BY <1>2, <2>4, <2>5
<1> DEFINE G(m) == CHOOSE g : Ok(g, m)
           f == [m \in Nat |-> G(m)[m]]
<1>3. \A m \in Nat : Ok(G(m), m)
  <2> SUFFICES ASSUME NEW m \in Nat PROVE Ok(G(m), m) OBVIOUS
  <2>1. \E g : Ok(g, m) BY <1>1
  <2> HIDE DEF Ok
  <2>2. QED BY <2>1
<1> HIDE DEF G, Bad
<1>4. f \in [Nat -> T] BY <1>3
<1>5. f[0] = base BY <1>3
<1>6. ASSUME NEW k \in Nat, k # 0 PROVE f[k] = step[f[k - 1]]
  <2>1. k - 1 \in Nat /\ k - 1 \in 0..(k - 1) /\ k - 1 <= k /\ k \in 1..k BY <1>6
  <2>2. Ok(G(k), k) /\ Ok(G(k - 1), k - 1) BY <1>3, <2>1
  <2>3. G(k - 1)[k - 1] = G(k)[k - 1]
    <3> HIDE DEF Ok
    <3>1. QED BY <1>2, <2>1, <2>2
  <2>4. G(k)[k] = step[G(k)[k - 1]] BY <2>1, <2>2
  <2>5. QED BY <2>1, <2>3, <2>4
<1>7. QED BY <1>4, <1>5, <1>6

----------------------------------------------------------------------------
(* The recursion of rollbackStepChain *)

\* What the calls of rollbackStepChainWithVisited return with k levels left, when g is
\* what they return with one less.
Level(g, k, sp, last) ==
    [call \in VisitCalls |-> IF k = 0 THEN [visited |-> call.seen, undo |-> {}]
                             ELSE visit(g, call, sp, last)]
Chain(sp, last) == CHOOSE chain : chain = [k \in Nat |-> Level(chain[k - 1], k, sp, last)]

\* rollbackStepChain is the first of these calls.
LEMMA ChainIs ==
    ASSUME NEW from, NEW sp, NEW last
    PROVE  rollbackStepChain(from, sp, last) =
             Chain(sp, last)[Cardinality(Steps) + 1][VisitCall(from, FALSE, {})].undo
BY DEF rollbackStepChain, Chain, Level

\* The recursion has a solution.
LEMMA ChainExists ==
    ASSUME NEW sp, NEW last
    PROVE  Chain(sp, last) = [k \in Nat |-> Level(Chain(sp, last)[k - 1], k, sp, last)]
<1> DEFINE L(g, k) == Level(g, k, sp, last)
           none == [call \in VisitCalls |-> [visited |-> call.seen, undo |-> {}]]
           Ok(g, m) == /\ g = [k \in 0..m |-> g[k]] /\ g[0] = none
                       /\ \A k \in 1..m : g[k] = L(g[k - 1], k)
           Bad == {m \in Nat : ~\E g : Ok(g, m)}
<1>0. \A g : L(g, 0) = none BY DEF Level
<1> HIDE DEF L, none
<1>1. Bad = {}
  <2> SUFFICES ASSUME Bad # {} PROVE FALSE OBVIOUS
  <2>1. PICK m \in Bad : \A k \in Bad : m <= k BY LeastNumber
  <2>2. CASE m = 0
    <3>1. Ok([k \in 0..0 |-> none], 0) OBVIOUS
    <3> HIDE DEF Ok
    <3>2. QED BY <2>1, <2>2, <3>1
  <2>3. CASE m # 0
    <3>1. m - 1 \in Nat /\ m - 1 \notin Bad
      <4>1. m \in Nat /\ m - 1 \in Nat /\ ~(m <= m - 1) BY <2>3
      <4> HIDE DEF Bad
      <4>2. QED BY <2>1, <4>1
    <3>2. PICK h : Ok(h, m - 1) BY <3>1
    <3> DEFINE g == [k \in 0..m |-> IF k = m THEN L(h[m - 1], m) ELSE h[k]]
    <3>4. \A k \in 0..m : k # m => k \in 0..(m - 1) /\ g[k] = h[k] BY <3>1
    <3>5. g = [k \in 0..m |-> g[k]] OBVIOUS
    <3>6. g[0] = none BY <2>3, <3>2, <3>4
    <3>7. ASSUME NEW k \in 1..m PROVE g[k] = L(g[k - 1], k)
      <4>1. k - 1 \in 0..m /\ k - 1 # m BY <3>1
      <4>2. g[k - 1] = h[k - 1] BY <3>4, <4>1
      <4>3. CASE k = m BY <4>2, <4>3
      <4>4. CASE k # m
        <5>1. k \in 1..(m - 1) /\ k \in 0..m BY <3>1, <4>4
        <5>2. g[k] = h[k] BY <3>4, <4>4, <5>1
        <5>3. QED BY <3>2, <4>2, <5>1, <5>2
      <4>5. QED BY <4>3, <4>4
    <3> HIDE DEF g
    <3>8. Ok(g, m) BY <3>5, <3>6, <3>7
    <3> HIDE DEF Ok
    <3>9. QED BY <2>1, <3>8
  <2>4. QED BY <2>2, <2>3
<1>2. ASSUME NEW m \in Nat, NEW n \in Nat, NEW g, NEW h, Ok(g, m), Ok(h, n)
      PROVE  \A k \in 0..m : k <= n => g[k] = h[k]
  <2> DEFINE Wrong == {k \in 0..m : k <= n /\ g[k] # h[k]}
  <2> SUFFICES ASSUME Wrong # {} PROVE FALSE OBVIOUS
  <2>1. PICK k \in Wrong : \A x \in Wrong : k <= x
    <3>1. Wrong \in SUBSET Nat OBVIOUS
    <3> HIDE DEF Wrong
    <3>2. QED BY <3>1, LeastNumber
  <2>2. k # 0 BY <1>2
  <2>3. k - 1 \in 0..m /\ k - 1 <= n /\ k - 1 \notin Wrong
    <3>1. k \in 1..m /\ k <= n BY <2>2
    <3>2. ~(k <= k - 1) /\ k - 1 \in 0..m /\ k - 1 <= n BY <3>1
    <3> HIDE DEF Wrong
    <3>3. QED BY <2>1, <3>2
  <2>4. g[k - 1] = h[k - 1] BY <2>3
  <2>5. k \in 1..m /\ k \in 1..n BY <2>2
  <2>6. QED BY <1>2, <2>4, <2>5
<1> DEFINE G(m) == CHOOSE g : Ok(g, m)
           f == [m \in Nat |-> G(m)[m]]
<1>3. \A m \in Nat : Ok(G(m), m)
  <2> SUFFICES ASSUME NEW m \in Nat PROVE Ok(G(m), m) OBVIOUS
  <2>1. \E g : Ok(g, m) BY <1>1
  <2> HIDE DEF Ok
  <2>2. QED BY <2>1
<1> HIDE DEF G, Bad
<1>5. f[0] = L(f[0 - 1], 0) BY <1>0, <1>3
<1>6. ASSUME NEW k \in Nat, k # 0 PROVE f[k] = L(f[k - 1], k)
  <2>1. k - 1 \in Nat /\ k - 1 \in 0..(k - 1) /\ k - 1 <= k /\ k \in 1..k BY <1>6
  <2>2. Ok(G(k), k) /\ Ok(G(k - 1), k - 1) BY <1>3, <2>1
  <2>3. G(k - 1)[k - 1] = G(k)[k - 1]
    <3> HIDE DEF Ok
    <3>1. QED BY <1>2, <2>1, <2>2
  <2>4. G(k)[k] = L(G(k)[k - 1], k) BY <2>1, <2>2
  <2>5. QED BY <2>1, <2>3, <2>4
<1>7. f = [k \in Nat |-> L(f[k - 1], k)]
  <2>1. \A k \in Nat : f[k] = L(f[k - 1], k) BY <1>5, <1>6
  <2>2. f = [k \in Nat |-> f[k]] OBVIOUS
  <2> HIDE DEF f
  <2>3. QED BY <2>1, <2>2
<1> HIDE DEF f
<1>8. QED BY <1>7 DEF Chain, L

\* What a call returns.
LEMMA ChainCall ==
    ASSUME NEW sp, NEW last, NEW k \in Nat \ {0}, NEW call \in VisitCalls
    PROVE  Chain(sp, last)[k][call] = visit(Chain(sp, last)[k - 1], call, sp, last)
<1> DEFINE C == Chain(sp, last)
<1>1. C = [m \in Nat |-> Level(C[m - 1], m, sp, last)] BY ChainExists
<1> HIDE DEF C
<1>2. C[k] = Level(C[k - 1], k, sp, last) BY <1>1
<1>3. Level(C[k - 1], k, sp, last)[call] = visit(C[k - 1], call, sp, last) BY DEF Level
<1>4. QED BY <1>2, <1>3 DEF C

\* No branches to visit.
LEMMA NoBranches ==
    ASSUME NEW g, NEW st PROVE visitBranches(g, <<>>, st) = st
<1> DEFINE e == <<>>
           D == DOMAIN e
           V(n, s) == LET r == g[VisitCall(n, TRUE, s.visited)]
                      IN  [visited |-> r.visited, undo |-> s.undo \cup r.undo]
           I(iter) == [s \in SUBSET D |-> IF s = {} THEN st
                                          ELSE LET x == Max(s) IN V(e[x], iter[s \ {x}])]
           F == CHOOSE iter : iter = I(iter)
<1>1. visitBranches(g, e, st) = F[D]
  BY DEF visitBranches, FoldLeft, MapThenFoldSet
<1>2. D = {} OBVIOUS
<1> HIDE DEF V, D
<1> DEFINE f == [s \in SUBSET D |-> st]
<1>3. f = I(f) BY <1>2
<1> HIDE DEF f
<1>4. F = I(F) BY <1>3
<1> HIDE DEF F
<1>5. F[D] = st BY <1>2, <1>4
<1>6. QED BY <1>1, <1>5

----------------------------------------------------------------------------
(* Steps in a line *)

NoForks == \A n \in Steps : ~IsForking(n)

\* The steps name[x], x \in D, follow each other: each is the Prev of the one after it,
\* the first has none, and the rank rises.
Line(D, name, rank) ==
    /\ D \in SUBSET Nat
    /\ name \in [D -> Steps]
    /\ rank \in [Steps -> 0..Cardinality(Steps)]
    /\ \A x, y \in D : x < y => rank[name[x]] < rank[name[y]]
    /\ \A x, y \in D : x < y /\ (\A z \in D : z <= x \/ z >= y) => Def[name[y]].prev = name[x]
    /\ \A y \in D : (\A x \in D : y <= x) => Def[name[y]].prev \notin Steps

\* A step of the line is the first, or its Prev is the step before it in the line.
LEMMA BeforeIn ==
    ASSUME NEW D, NEW name, NEW rank, Line(D, name, rank), NEW y \in D
    PROVE  \/ (\A x \in D : y <= x) /\ Def[name[y]].prev \notin Steps
           \/ \E x \in D : /\ x < y /\ (\A z \in D : z <= x \/ z >= y)
                           /\ Def[name[y]].prev = name[x]
<1> DEFINE T == {x \in D : x < y}
<1>1. D \in SUBSET Nat BY DEF Line
<1>2. CASE T = {}
  <2>1. \A x \in D : y <= x BY <1>1, <1>2
  <2>2. QED BY <2>1 DEF Line
<1>3. CASE T # {}
  <2>0. T \in SUBSET Nat /\ y \in Nat /\ \A z \in T : z <= y
    <3>1. y \in Nat BY <1>1
    <3>2. \A z \in T : z \in Nat /\ z < y BY <1>1
    <3> HIDE DEF T
    <3>3. QED BY <3>1, <3>2
  <2>1. PICK x \in T : \A z \in T : z <= x
    <3> HIDE DEF T
    <3>1. QED BY <1>3, <2>0, GreatestNumber
  <2>2. \A z \in D : z <= x \/ z >= y BY <1>1, <2>1
  <2>3. x \in D /\ x < y BY <2>1
  <2>4. Def[name[y]].prev = name[x] BY <2>2, <2>3 DEF Line
  <2>5. QED BY <2>2, <2>3, <2>4
<1>4. QED BY <1>2, <1>3

\* Names do not repeat in a line.
LEMMA NamesDiffer ==
    ASSUME NEW D, NEW name, NEW rank, Line(D, name, rank), NEW x \in D, NEW y \in D,
           name[x] = name[y]
    PROVE  x = y
<1>1. x \in Nat /\ y \in Nat /\ rank[name[x]] \in Nat BY DEF Line
<1>2. x < y \/ y < x \/ x = y BY <1>1
<1>3. QED BY <1>1, <1>2 DEF Line

\* The steps that were executed, by the statuses of their rows.
Executed(last) == {n \in Steps : last[n] \in {"completed", "failed"}}

OnTheWay(g, cur, seen, last) ==
    IF Def[cur].prev \notin Steps THEN {cur} \cap Executed(last)
    ELSE ({cur} \cap Executed(last)) \cup g[VisitCall(Def[cur].prev, FALSE, seen \cup {cur})].undo

\* Without forks a call on the way back visits its step and goes on with its Prev.
LEMMA VisitOnTheWay ==
    ASSUME NoForks, NEW g, NEW cur \in Steps, NEW seen, NEW last
    PROVE  visitStep(g, cur, FALSE, seen, last).undo = OnTheWay(g, cur, seen, last)
<1> DEFINE mine   == {cur} \cap {n \in Steps : last[n] \in {"completed", "failed"}}
           st     == [visited |-> seen \cup {cur}, undo |-> mine]
           prev   == Def[cur].prev
           inside == visitBranches(g, <<>> \o <<>>, st)
           behind(v) == g[VisitCall(prev, FALSE, v)]
<1>1. visitStep(g, cur, FALSE, seen, last) =
        IF prev \notin Steps THEN inside
        ELSE [visited |-> behind(inside.visited).visited,
              undo |-> inside.undo \cup behind(inside.visited).undo]
  <2>1. ~IsForking(cur) /\ (prev \in Steps => ~IsForking(prev)) BY DEF NoForks
  <2>2. QED BY <2>1 DEF visitStep
<1>2. <<>> \o <<>> = <<>> OBVIOUS
<1>3. inside = st BY <1>2, NoBranches
<1>4. st.visited = seen \cup {cur} /\ st.undo = mine OBVIOUS
<1>5. mine = {cur} \cap Executed(last) BY DEF Executed
<1> HIDE DEF inside, st, mine, behind
<1>6. visitStep(g, cur, FALSE, seen, last).undo =
        IF prev \notin Steps THEN mine ELSE mine \cup behind(seen \cup {cur}).undo
  <2>1. CASE prev \notin Steps BY <1>1, <1>3, <1>4, <2>1
  <2>2. CASE prev \in Steps
    <3>1. visitStep(g, cur, FALSE, seen, last).undo =
            inside.undo \cup behind(inside.visited).undo
      <4> DEFINE v == behind(inside.visited).visited
                 u == inside.undo \cup behind(inside.visited).undo
                 r == visitStep(g, cur, FALSE, seen, last)
      <4>1. r = [visited |-> v, undo |-> u] BY <1>1, <2>2
      <4> HIDE DEF v, u, r
      <4>2. r.undo = u BY <4>1
      <4>3. QED BY <4>2 DEF u, r
    <3>2. inside.undo = mine /\ inside.visited = seen \cup {cur} BY <1>3, <1>4
    <3>3. QED BY <2>2, <3>1, <3>2
  <2>3. QED BY <2>1, <2>2
<1>7. QED BY <1>5, <1>6 DEF behind, OnTheWay

\* The rollback from a step of a line reaches every step before it that was executed and
\* is not behind the save point sp.
LEMMA ChainCovers ==
    ASSUME NoForks, NEW D, NEW name, NEW rank, Line(D, name, rank), NEW sp, NEW last,
           NEW x \in D, NEW y \in D, y <= x,
           \A z \in D : y <= z /\ z <= x => name[z] # sp,
           last[name[y]] \in {"completed", "failed"}
    PROVE  name[y] \in rollbackStepChain(name[x], sp, last)
<1> DEFINE C == Chain(sp, last)
           Reached(m) == \A k \in Nat, seen \in SUBSET Steps :
                rank[name[m]] < k /\ (\A z \in D : z <= m => name[z] \notin seen)
                  => name[y] \in C[k][VisitCall(name[m], FALSE, seen)].undo
           Bad == {m \in D : y <= m /\ m <= x /\ ~Reached(m)}
<1>1. D \in SUBSET Nat /\ name \in [D -> Steps] /\ rank \in [Steps -> 0..Cardinality(Steps)]
  BY DEF Line
<1>2. ASSUME NEW m \in Bad, \A k \in Bad : m <= k PROVE FALSE
  <2>1. m \in D /\ y <= m /\ m <= x /\ m \in Nat /\ name[m] # sp /\ name[m] \in Steps
    BY <1>1
  <2>2. PICK k \in Nat, seen \in SUBSET Steps :
          /\ rank[name[m]] < k /\ (\A z \in D : z <= m => name[z] \notin seen)
          /\ name[y] \notin C[k][VisitCall(name[m], FALSE, seen)].undo
    BY <1>2
  <2> DEFINE call == VisitCall(name[m], FALSE, seen)
             prev == Def[name[m]].prev
             behind == C[k - 1][VisitCall(prev, FALSE, seen \cup {name[m]})]
  <2>3. rank[name[m]] \in Nat /\ k # 0 BY <1>1, <2>1, <2>2
  <2>4. /\ call \in VisitCalls /\ call.cur = name[m] /\ call.par = FALSE /\ call.seen = seen
    BY <2>1, <2>2 DEF VisitCalls, VisitCall
  <2>5. name[m] \notin seen BY <2>1, <2>2
  <2>6. C[k][call] = visit(C[k - 1], call, sp, last)
    <3>1. k \in Nat \ {0} BY <2>3
    <3> HIDE DEF call
    <3>2. QED BY <2>4, <3>1, ChainCall
  <2> HIDE DEF call, C
  <2>7. visit(C[k - 1], call, sp, last) = visitStep(C[k - 1], name[m], FALSE, seen, last)
    BY <2>1, <2>4, <2>5 DEF visit
  <2>8. visitStep(C[k - 1], name[m], FALSE, seen, last).undo =
          IF prev \notin Steps THEN {name[m]} \cap Executed(last)
          ELSE ({name[m]} \cap Executed(last)) \cup behind.undo
    <3> DEFINE n == name[m]
               g == C[k - 1]
    <3>1. n \in Steps BY <2>1
    <3> HIDE DEF n, g
    <3>2. visitStep(g, n, FALSE, seen, last).undo = OnTheWay(g, n, seen, last)
      BY <3>1, VisitOnTheWay, Zenon
    <3>3. QED BY <3>2 DEF n, g, OnTheWay
  <2>9. name[y] \in Executed(last) BY <1>1 DEF Executed
  <2>10. m # y
    <3> HIDE DEF behind
    <3>1. QED BY <2>2, <2>6, <2>7, <2>8, <2>9 DEF call
  <2>11. y < m /\ y \in Nat BY <1>1, <2>1, <2>10
  <2>12. PICK p \in D : p < m /\ (\A z \in D : z <= p \/ z >= m) /\ prev = name[p]
    <3>1. ~(\A z \in D : m <= z) BY <1>1, <2>1, <2>11
    <3>2. m \in D BY <2>1
    <3> HIDE DEF prev, Bad
    <3>3. QED BY <3>1, <3>2, BeforeIn DEF prev
  <2>13. y <= p /\ p <= x /\ p \in Nat /\ ~(m <= p)
    <3>1. p \in Nat /\ m \in Nat /\ y \in Nat /\ x \in Nat BY <1>1, <2>1, <2>12
    <3>2. p < m /\ m <= x /\ y < m /\ (y <= p \/ y >= m) BY <2>1, <2>11, <2>12
    <3>3. QED BY <3>1, <3>2
  <2>14. Reached(p)
    <3>1. p \notin Bad
      <4> HIDE DEF Bad
      <4>1. QED BY <1>2, <2>13
    <3> HIDE DEF Reached
    <3>2. QED BY <2>12, <2>13, <3>1
  <2>15. rank[name[p]] < k - 1 /\ k - 1 \in Nat
    <3>1. rank[name[p]] < rank[name[m]] BY <2>1, <2>12 DEF Line
    <3>2. rank[name[p]] \in Nat BY <1>1, <2>12
    <3>3. QED BY <2>2, <2>3, <3>1, <3>2
  <2>16. \A z \in D : z <= p => name[z] \notin seen \cup {name[m]}
    <3> SUFFICES ASSUME NEW z \in D, z <= p PROVE name[z] \notin seen /\ name[z] # name[m]
      OBVIOUS
    <3>1. z <= m /\ z # m BY <1>1, <2>12, <2>13
    <3>2. QED BY <2>1, <2>2, <3>1, NamesDiffer
  <2>17. seen \cup {name[m]} \in SUBSET Steps BY <2>1
  <2>18. name[y] \in behind.undo BY <2>12, <2>14, <2>15, <2>16, <2>17
  <2>19. prev \in Steps BY <1>1, <2>12
  <2> HIDE DEF behind, prev
  <2>20. QED BY <2>2, <2>6, <2>7, <2>8, <2>18, <2>19 DEF call
<1>3. Bad = {}
  <2> SUFFICES ASSUME Bad # {} PROVE FALSE OBVIOUS
  <2>1. Bad \in SUBSET Nat BY <1>1
  <2> HIDE DEF Bad
  <2>2. PICK m \in Bad : \A k \in Bad : m <= k BY <2>1, LeastNumber
  <2>3. QED BY <1>2, <2>2
<1>4. Reached(x)
  <2>1. x <= x BY <1>1
  <2> HIDE DEF Reached
  <2>2. QED BY <1>3, <2>1
<1>5. Cardinality(Steps) \in Nat BY DefinitionAssumption, FS_CardinalityType
<1>6. rank[name[x]] < Cardinality(Steps) + 1 /\ Cardinality(Steps) + 1 \in Nat BY <1>1, <1>5
<1>7. name[y] \in C[Cardinality(Steps) + 1][VisitCall(name[x], FALSE, {})].undo
  BY <1>4, <1>6
<1>8. QED BY <1>7, ChainIs

\* The rollback stops at the save point.
LEMMA ChainStops ==
    ASSUME NoForks, NEW sp, NEW last, NEW from \in Steps
    PROVE  sp \notin rollbackStepChain(from, sp, last)
<1> DEFINE C == Chain(sp, last)
           Stops(k) == \A cur \in Steps, seen \in SUBSET Steps :
                          sp \notin C[k][VisitCall(cur, FALSE, seen)].undo
           Bad == {k \in Nat : ~Stops(k)}
<1>1. ASSUME NEW cur \in Steps, NEW seen \in SUBSET Steps
      PROVE  LET call == VisitCall(cur, FALSE, seen) IN
             call \in VisitCalls /\ call.cur = cur /\ call.par = FALSE /\ call.seen = seen
  BY DEF VisitCalls, VisitCall
<1>2. Stops(0)
  <2> SUFFICES ASSUME NEW cur \in Steps, NEW seen \in SUBSET Steps
               PROVE  C[0][VisitCall(cur, FALSE, seen)].undo = {}
    OBVIOUS
  <2> DEFINE call == VisitCall(cur, FALSE, seen)
  <2>1. call \in VisitCalls BY <1>1
  <2>2. C = [m \in Nat |-> Level(C[m - 1], m, sp, last)] BY ChainExists
  <2> HIDE DEF C, call
  <2>3. C[0] = Level(C[0 - 1], 0, sp, last) BY <2>2
  <2>4. Level(C[0 - 1], 0, sp, last)[call] = [visited |-> call.seen, undo |-> {}]
    BY <2>1 DEF Level
  <2> DEFINE r == C[0][call]
             v == call.seen
  <2>5. r = [visited |-> v, undo |-> {}] BY <2>3, <2>4
  <2> HIDE DEF r, v
  <2>6. r.undo = {} BY <2>5
  <2>7. QED BY <2>6 DEF r, call
<1>3. ASSUME NEW k \in Bad, \A x \in Bad : k <= x PROVE FALSE
  <2>1. k \in Nat \ {0} /\ k - 1 \in Nat /\ ~(k <= k - 1)
    <3>1. k # 0 BY <1>2
    <3>2. QED BY <3>1
  <2>2. Stops(k - 1)
    <3>1. k - 1 \notin Bad
      <4> HIDE DEF Bad
      <4>1. QED BY <1>3, <2>1
    <3> HIDE DEF Stops
    <3>2. QED BY <2>1, <3>1
  <2>3. PICK cur \in Steps, seen \in SUBSET Steps :
          sp \in C[k][VisitCall(cur, FALSE, seen)].undo
    BY <1>3
  <2> DEFINE call == VisitCall(cur, FALSE, seen)
             g == C[k - 1]
             r == C[k][call]
  <2>4. call \in VisitCalls /\ call.cur = cur /\ call.par = FALSE /\ call.seen = seen BY <1>1
  <2>10. sp \in r.undo BY <2>3
  <2> HIDE DEF call
  <2>5. r = visit(g, call, sp, last) BY <2>1, <2>4, ChainCall
  <2> HIDE DEF r
  <2>6. CASE cur \in seen
    <3>1. visit(g, call, sp, last) = [visited |-> seen, undo |-> {}]
      BY <2>4, <2>6 DEF visit
    <3>2. r.undo = {} BY <2>5, <3>1
    <3>3. QED BY <2>10, <3>2
  <2>7. CASE cur \notin seen /\ cur = sp
    <3>1. visit(g, call, sp, last) = [visited |-> seen \cup {sp}, undo |-> {}]
      BY <2>4, <2>7 DEF visit
    <3>2. r.undo = {} BY <2>5, <3>1
    <3>3. QED BY <2>10, <3>2
  <2>8. CASE cur \notin seen /\ cur # sp
    <3> DEFINE p == Def[cur].prev
    <3>1. visit(g, call, sp, last) = visitStep(g, cur, FALSE, seen, last)
      BY <2>4, <2>8 DEF visit
    <3>2. p \in Steps => sp \notin g[VisitCall(p, FALSE, seen \cup {cur})].undo
      BY <2>2
    <3> HIDE DEF g, C
    <3>3. visitStep(g, cur, FALSE, seen, last).undo = OnTheWay(g, cur, seen, last)
      BY VisitOnTheWay, Zenon
    <3>4. sp \notin OnTheWay(g, cur, seen, last) BY <2>8, <3>2 DEF OnTheWay
    <3>5. QED BY <2>5, <2>10, <3>1, <3>3, <3>4
  <2>9. QED BY <2>6, <2>7, <2>8
<1>4. Bad = {}
  <2> SUFFICES ASSUME Bad # {} PROVE FALSE OBVIOUS
  <2>1. Bad \in SUBSET Nat OBVIOUS
  <2> HIDE DEF Bad
  <2>2. PICK k \in Bad : \A x \in Bad : k <= x BY <2>1, LeastNumber
  <2>3. QED BY <1>3, <2>2
<1>5. Cardinality(Steps) + 1 \in Nat BY DefinitionAssumption, FS_CardinalityType
<1>6. Stops(Cardinality(Steps) + 1)
  <2> HIDE DEF Stops
  <2>1. QED BY <1>4, <1>5
<1>7. {} \in SUBSET Steps OBVIOUS
<1>8. sp \notin C[Cardinality(Steps) + 1][VisitCall(from, FALSE, {})].undo BY <1>6, <1>7
<1>9. QED BY <1>8, ChainIs

----------------------------------------------------------------------------
(* The nearest save point *)

Names == Steps \cup {NoStep, RootStep}

\* The recursion of WalkBack has a solution.
LEMMA WalkBackIs ==
    ASSUME NEW k \in Nat
    PROVE  /\ WalkBack[k] \in [Names -> Seq(Steps)]
           /\ \A n \in Names :
                WalkBack[k][n] = IF k = 0 \/ n \notin Steps THEN <<>>
                                 ELSE <<n>> \o WalkBack[k - 1][Def[n].prev]
<1> DEFINE T == [Names -> Seq(Steps)]
           base == [n \in Names |-> <<>>]
           After(g, n) == IF n \notin Steps THEN <<>> ELSE <<n>> \o g[Def[n].prev]
           step == [g \in T |-> [n \in Names |-> After(g, n)]]
           L(g, m) == [n \in Names |-> IF m = 0 \/ n \notin Steps THEN <<>>
                                       ELSE <<n>> \o g[m - 1][Def[n].prev]]
<1>0. \A n \in Steps : Def[n].prev \in Names BY DefinitionAssumption DEF Names, StepDefinition
<1>1. base \in T OBVIOUS
<1>2. step \in [T -> T]
  <2>1. ASSUME NEW g \in T, NEW n \in Names PROVE After(g, n) \in Seq(Steps)
    <3>1. CASE n \notin Steps BY <3>1
    <3>2. CASE n \in Steps
      <4>1. g[Def[n].prev] \in Seq(Steps) BY <1>0, <3>2
      <4>2. <<n>> \in Seq(Steps) BY <3>2
      <4>3. <<n>> \o g[Def[n].prev] \in Seq(Steps) BY <4>1, <4>2
      <4>4. QED BY <3>2, <4>3
    <3>3. QED BY <3>1, <3>2
  <2> HIDE DEF After
  <2>2. QED BY <2>1
<1> HIDE DEF T, base, step
<1>3. PICK f \in [Nat -> T] : f[0] = base /\ \A m \in Nat : m # 0 => f[m] = step[f[m - 1]]
  BY <1>1, <1>2, Iterated
<1>4. ASSUME NEW m \in Nat PROVE f[m] = L(f, m)
  <2>1. CASE m = 0 BY <1>3, <2>1 DEF base
  <2>2. CASE m # 0
    <3>1. m - 1 \in Nat BY <2>2
    <3>2. f[m - 1] \in T BY <1>3, <3>1
    <3> DEFINE g == f[m - 1]
    <3>3. f[m] = step[g] BY <1>3, <2>2
    <3> HIDE DEF g
    <3>4. step[g] = [n \in Names |-> After(g, n)] BY <3>2 DEF step, g
    <3>5. \A n \in Names : After(g, n) = IF m = 0 \/ n \notin Steps THEN <<>>
                                         ELSE <<n>> \o f[m - 1][Def[n].prev]
      BY <2>2 DEF g
    <3> HIDE DEF After
    <3>6. [n \in Names |-> After(g, n)] = L(f, m) BY <3>5
    <3>7. QED BY <3>3, <3>4, <3>6
  <2>3. QED BY <2>1, <2>2
<1>5. f = [m \in Nat |-> L(f, m)]
  <2>1. f = [m \in Nat |-> f[m]] BY <1>3
  <2> HIDE DEF L
  <2>2. QED BY <1>4, <2>1
<1>6. WalkBack = CHOOSE g : g = [m \in Nat |-> L(g, m)] BY DEF WalkBack, Names
<1> HIDE DEF L
<1>7. WalkBack = [m \in Nat |-> L(WalkBack, m)] BY <1>5, <1>6
<1>8. \A m \in Nat : WalkBack[m] = L(WalkBack, m) BY <1>7
<1>9. \A n \in Names :
        WalkBack[k][n] = IF k = 0 \/ n \notin Steps THEN <<>>
                         ELSE <<n>> \o WalkBack[k - 1][Def[n].prev]
  BY <1>8 DEF L
<1>10. WalkBack[k] \in T
  <2> DEFINE Bad == {m \in Nat : WalkBack[m] \notin T}
  <2>1. ASSUME NEW m \in Bad, \A x \in Bad : m <= x PROVE FALSE
    <3>1. WalkBack[m] = L(WalkBack, m) BY <1>8
    <3>2. CASE m = 0
      <4>1. L(WalkBack, m) = base BY <3>2 DEF L, base
      <4>2. QED BY <1>1, <2>1, <3>1, <4>1
    <3>3. CASE m # 0
      <4>1. m \in Nat /\ m - 1 \in Nat /\ ~(m <= m - 1) BY <3>3
      <4>2. WalkBack[m - 1] \in T
        <5>1. m - 1 \notin Bad
          <6> HIDE DEF Bad
          <6>1. QED BY <2>1, <4>1
        <5>2. QED BY <4>1, <5>1
      <4> DEFINE g == WalkBack[m - 1]
      <4>3. L(WalkBack, m) = [n \in Names |-> After(g, n)] BY <3>3 DEF L
      <4> HIDE DEF g, After
      <4>4. step[g] = [n \in Names |-> After(g, n)] BY <4>2 DEF step, g
      <4>5. step[g] \in T BY <1>2, <4>2 DEF g
      <4>6. QED BY <2>1, <3>1, <4>3, <4>4, <4>5
    <3>4. QED BY <3>2, <3>3
  <2>2. Bad = {}
    <3> SUFFICES ASSUME Bad # {} PROVE FALSE OBVIOUS
    <3>1. Bad \in SUBSET Nat OBVIOUS
    <3> HIDE DEF Bad
    <3>2. PICK m \in Bad : \A x \in Bad : m <= x BY <3>1, LeastNumber
    <3>3. QED BY <2>1, <3>2
  <2>3. QED BY <2>2
<1>11. QED BY <1>9, <1>10 DEF T

IsSavePoint(n) == Def[n].type = "savepoint"

\* The first save point of a sequence of steps.
FirstSavePoint(s) ==
    LET I == {x \in 1..Len(s) : IsSavePoint(s[x])} IN IF I = {} THEN NoStep ELSE s[Min(I)]

\* It is the first step itself or the first save point of the others.
LEMMA FirstSavePointOf ==
    ASSUME NEW a \in Steps, NEW s \in Seq(Steps)
    PROVE  FirstSavePoint(<<a>> \o s) = IF IsSavePoint(a) THEN a ELSE FirstSavePoint(s)
<1> DEFINE t == <<a>> \o s
           I == {x \in 1..Len(s) : IsSavePoint(s[x])}
           J == {x \in 1..Len(t) : IsSavePoint(t[x])}
<1>1. Len(t) = Len(s) + 1 /\ t[1] = a /\ \A x \in 1..Len(s) : t[x + 1] = s[x] OBVIOUS
<1>2. Len(s) \in Nat OBVIOUS
<1> HIDE DEF t
<1>3. FirstSavePoint(t) = IF J = {} THEN NoStep ELSE t[Min(J)] BY DEF FirstSavePoint
<1>4. FirstSavePoint(s) = IF I = {} THEN NoStep ELSE s[Min(I)] BY DEF FirstSavePoint
<1>5. CASE IsSavePoint(a)
  <2>1. 1 \in J BY <1>1, <1>2, <1>5
  <2>2. \A y \in J : 1 <= y OBVIOUS
  <2>3. J \in SUBSET Nat OBVIOUS
  <2> HIDE DEF J
  <2>4. Min(J) = 1 BY <2>1, <2>2, <2>3, LeastIsMin
  <2>5. QED BY <1>1, <1>3, <1>5, <2>1, <2>4 DEF t
<1>6. CASE ~IsSavePoint(a)
  <2>1. J = {x + 1 : x \in I}
    <3>1. ASSUME NEW y \in J PROVE \E x \in I : y = x + 1
      <4>1. y # 1 /\ y \in 1..(Len(s) + 1) BY <1>1, <1>6
      <4>2. y - 1 \in 1..Len(s) BY <1>2, <4>1
      <4>3. t[(y - 1) + 1] = s[y - 1] BY <1>1, <4>2
      <4>4. (y - 1) + 1 = y BY <4>1
      <4>5. IsSavePoint(s[y - 1]) BY <4>3, <4>4
      <4>6. y - 1 \in I BY <4>2, <4>5
      <4>7. QED BY <4>4, <4>6
    <3>2. ASSUME NEW x \in I PROVE x + 1 \in J
      <4>1. x + 1 \in 1..Len(t) BY <1>1, <1>2
      <4>2. t[x + 1] = s[x] BY <1>1
      <4>3. QED BY <4>1, <4>2
    <3> HIDE DEF I, J
    <3>3. QED BY <3>1, <3>2
  <2>2. CASE I = {}
    <3>1. J = {} BY <2>1, <2>2
    <3> HIDE DEF J, I
    <3>2. QED BY <1>3, <1>4, <1>6, <2>2, <3>1 DEF t
  <2>3. CASE I # {}
    <3>1. I \in SUBSET Nat /\ \A x \in I : x \in 1..Len(s) OBVIOUS
    <3> HIDE DEF I, J
    <3>2. PICK m \in I : \A y \in I : m <= y BY <2>3, <3>1, LeastNumber
    <3>3. Min(I) = m BY <3>1, <3>2, LeastIsMin
    <3>4. J \in SUBSET Nat /\ m + 1 \in J /\ \A y \in J : m + 1 <= y
      <4>1. \A y \in J : \E x \in I : y = x + 1 BY <2>1
      <4>2. \A y \in J : y \in Nat /\ m + 1 <= y BY <3>1, <3>2, <4>1
      <4>3. QED BY <2>1, <4>2
    <3>5. Min(J) = m + 1 BY <3>4, LeastIsMin
    <3>6. J # {} BY <3>4
    <3>7. t[m + 1] = s[m] BY <1>1, <3>1
    <3>8. QED BY <1>3, <1>4, <1>6, <2>3, <3>3, <3>5, <3>6, <3>7 DEF t
  <2>4. QED BY <2>2, <2>3
<1>7. QED BY <1>5, <1>6

\* In a line the search finds the last save point up to a step of the line.
SavePointUpTo(D, name, x, sp) ==
    \/ \E y \in D : /\ y <= x /\ IsSavePoint(name[y]) /\ sp = name[y]
                    /\ \A z \in D : y < z /\ z <= x => ~IsSavePoint(name[z])
    \/ sp = NoStep /\ \A z \in D : z <= x => ~IsSavePoint(name[z])

LEMMA NearestSavePoint ==
    ASSUME NoStep \notin Steps, NEW D, NEW name, NEW rank, Line(D, name, rank), NEW x \in D
    PROVE  \E sp : /\ SavePointUpTo(D, name, x, sp)
                   /\ findNearestSavePoint(name[x]) = IF sp = NoStep THEN RootStep ELSE sp
<1> DEFINE Found(m) == \A k \in Nat : rank[name[m]] < k =>
                          SavePointUpTo(D, name, m, FirstSavePoint(WalkBack[k][name[m]]))
           Bad == {m \in D : ~Found(m)}
<1>1. D \in SUBSET Nat /\ name \in [D -> Steps] /\ rank \in [Steps -> 0..Cardinality(Steps)]
  BY DEF Line
<1>2. ASSUME NEW m \in Bad, \A k \in Bad : m <= k PROVE FALSE
  <2>1. m \in D /\ m \in Nat /\ name[m] \in Steps BY <1>1
  <2>2. PICK k \in Nat : rank[name[m]] < k /\
          ~SavePointUpTo(D, name, m, FirstSavePoint(WalkBack[k][name[m]])) BY <1>2
  <2>3. rank[name[m]] \in Nat /\ k # 0 /\ k - 1 \in Nat BY <1>1, <2>1, <2>2
  <2> DEFINE n == name[m]
             p == Def[n].prev
             t == WalkBack[k - 1][p]
  <2>4. n \in Names /\ p \in Names BY <2>1, DefinitionAssumption DEF Names, StepDefinition
  <2>5. t \in Seq(Steps) /\ (p \notin Steps => t = <<>>)
    <3> HIDE DEF p
    <3>1. QED BY <2>3, <2>4, WalkBackIs
  <2>6. WalkBack[k][n] = <<n>> \o t
    <3> HIDE DEF n
    <3>1. n \in Steps BY <2>1 DEF n
    <3>2. WalkBack[k][n] = IF k = 0 \/ n \notin Steps THEN <<>>
                           ELSE <<n>> \o WalkBack[k - 1][Def[n].prev]
      BY <2>2, <2>4, WalkBackIs
    <3>3. QED BY <2>3, <3>1, <3>2
  <2> HIDE DEF t
  <2>7. FirstSavePoint(WalkBack[k][n]) = IF IsSavePoint(n) THEN n ELSE FirstSavePoint(t)
    BY <2>1, <2>5, <2>6, FirstSavePointOf
  <2>8. CASE IsSavePoint(n)
    <3>1. \A z \in D : ~(m < z /\ z <= m) BY <1>1, <2>1
    <3>2. m <= m BY <2>1
    <3>3. SavePointUpTo(D, name, m, n) BY <2>1, <2>8, <3>1, <3>2 DEF SavePointUpTo
    <3>4. QED BY <2>2, <2>7, <2>8, <3>3
  <2>9. CASE ~IsSavePoint(n)
    <3>1. FirstSavePoint(WalkBack[k][n]) = FirstSavePoint(t) BY <2>7, <2>9
    <3>2. CASE (\A z \in D : m <= z) /\ p \notin Steps
      <4>1. t = <<>> BY <2>5, <3>2
      <4>2. FirstSavePoint(<<>>) = NoStep BY DEF FirstSavePoint
      <4>3. \A z \in D : z <= m => z = m BY <1>1, <2>1, <3>2
      <4>4. SavePointUpTo(D, name, m, NoStep) BY <2>9, <4>3 DEF SavePointUpTo
      <4>5. QED BY <2>2, <3>1, <4>1, <4>2, <4>4
    <3>3. ASSUME NEW y \in D, y < m, \A z \in D : z <= y \/ z >= m, p = name[y] PROVE FALSE
      <4>1. y \in Nat /\ ~(m <= y) BY <1>1, <2>1, <3>3
      <4>2. Found(y)
        <5>1. y \notin Bad
          <6> HIDE DEF Bad
          <6>1. QED BY <1>2, <4>1
        <5> HIDE DEF Found
        <5>2. QED BY <5>1
      <4>3. rank[name[y]] < k - 1
        <5>1. rank[name[y]] < rank[name[m]] BY <2>1, <3>3 DEF Line
        <5>2. rank[name[y]] \in Nat BY <1>1
        <5>3. QED BY <2>2, <2>3, <5>1, <5>2
      <4>4. SavePointUpTo(D, name, y, FirstSavePoint(t))
        <5> HIDE DEF p
        <5>1. QED BY <2>3, <3>3, <4>2, <4>3 DEF t
      <4>5. \A z \in D : z <= m => z <= y \/ z = m BY <1>1, <2>1, <3>3
      <4>6. \A z \in D : z <= y => z <= m BY <1>1, <2>1, <3>3
      <4>7. SavePointUpTo(D, name, m, FirstSavePoint(t))
        <5> DEFINE r == FirstSavePoint(t)
        <5> HIDE DEF r
        <5>1. SavePointUpTo(D, name, y, r) BY <4>4 DEF r
        <5>2. SavePointUpTo(D, name, m, r)
          <6>1. CASE r = NoStep /\ \A z \in D : z <= y => ~IsSavePoint(name[z])
            BY <2>9, <4>5, <6>1 DEF SavePointUpTo
          <6>2. ASSUME NEW u \in D, u <= y, IsSavePoint(name[u]), r = name[u],
                       \A z \in D : u < z /\ z <= y => ~IsSavePoint(name[z])
                PROVE  SavePointUpTo(D, name, m, r)
            <7>1. u <= m BY <4>6, <6>2
            <7>2. \A z \in D : u < z /\ z <= m => ~IsSavePoint(name[z]) BY <2>9, <4>5, <6>2
            <7>3. QED BY <6>2, <7>1, <7>2 DEF SavePointUpTo
          <6>3. QED BY <5>1, <6>1, <6>2 DEF SavePointUpTo
        <5>3. QED BY <5>2 DEF r
      <4>8. QED BY <2>2, <3>1, <4>7
    <3>4. QED
      <4> HIDE DEF p, Bad
      <4>1. \/ (\A z \in D : m <= z) /\ p \notin Steps
            \/ \E y \in D : y < m /\ (\A z \in D : z <= y \/ z >= m) /\ p = name[y]
        <5>1. m \in D BY <2>1
        <5> HIDE DEF Found
        <5>2. QED BY <5>1, BeforeIn DEF p
      <4>2. QED BY <3>2, <3>3, <4>1
  <2>10. QED BY <2>8, <2>9
<1>3. Found(x)
  <2>1. Bad = {}
    <3> SUFFICES ASSUME Bad # {} PROVE FALSE OBVIOUS
    <3>1. Bad \in SUBSET Nat BY <1>1
    <3> HIDE DEF Bad
    <3>2. PICK m \in Bad : \A k \in Bad : m <= k BY <3>1, LeastNumber
    <3>3. QED BY <1>2, <3>2
  <2> HIDE DEF Found
  <2>2. QED BY <2>1
<1> DEFINE K == Cardinality(Steps) + 1
<1>4. Cardinality(Steps) \in Nat BY DefinitionAssumption, FS_CardinalityType
<1>5. K \in Nat /\ K # 0 /\ K - 1 = Cardinality(Steps) /\ rank[name[x]] < K BY <1>1, <1>4
<1> HIDE DEF K
<1> DEFINE n == name[x]
           s == WalkBack[K][n]
<1>6. SavePointUpTo(D, name, x, FirstSavePoint(s)) BY <1>3, <1>5
<1>7. s = <<n>> \o Ancestors(n)
  <2>1. n \in Steps /\ n \in Names BY <1>1 DEF Names
  <2> HIDE DEF n
  <2>2. WalkBack[K][n] = IF K = 0 \/ n \notin Steps THEN <<>>
                         ELSE <<n>> \o WalkBack[K - 1][Def[n].prev]
    BY <1>5, <2>1, WalkBackIs
  <2>3. QED BY <1>5, <2>1, <2>2 DEF Ancestors
<1> HIDE DEF s, n
<1>8. First(s, LAMBDA a : Def[a].type = "savepoint") = FirstSavePoint(s)
  <2> DEFINE I == {z \in 1..Len(s) : Def[s[z]].type = "savepoint"}
  <2>1. FirstSavePoint(s) = IF I = {} THEN NoStep ELSE s[Min(I)]
    BY DEF FirstSavePoint, IsSavePoint
  <2>2. First(s, LAMBDA a : Def[a].type = "savepoint") =
          LET k == IF I # {} THEN Min(I) ELSE 0 IN IF k = 0 THEN NoStep ELSE s[k]
    BY DEF First, SelectInSeq
  <2>3. CASE I = {} BY <2>1, <2>2, <2>3
  <2>4. CASE I # {}
    <3>1. I \in SUBSET Nat /\ 0 \notin I OBVIOUS
    <3> HIDE DEF I
    <3>2. PICK m \in I : \A y \in I : m <= y BY <2>4, <3>1, LeastNumber
    <3>3. Min(I) \in I BY <3>2 DEF Min
    <3>4. QED BY <2>1, <2>2, <2>4, <3>1, <3>3
  <2>5. QED BY <2>3, <2>4
<1>9. findNearestSavePoint(n) =
        IF FirstSavePoint(s) = NoStep THEN RootStep ELSE FirstSavePoint(s)
  BY <1>7, <1>8 DEF findNearestSavePoint
<1>10. QED BY <1>6, <1>9 DEF n
=============================================================================
