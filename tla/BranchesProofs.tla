--------------------------- MODULE BranchesProofs ---------------------------
(***************************************************************************)
(* The join under interleaved transactions, for any number of branches and *)
(* workers: JoinStartedOnce and ReportsKept of BranchesProperties.         *)
(*                                                                         *)
(* One join step: the worker that creates it has the join state locked, it *)
(* has read the rows after it got the lock, and a draft of a join step     *)
(* that is not committed belongs to whoever has the join state.            *)
(*                                                                         *)
(* No lost report: a row that nobody has locked has no draft of its own,   *)
(* and a draft has every report that is committed, because it was begun    *)
(* from what is committed and the lock has kept the others away since.     *)
(***************************************************************************)
EXTENDS BranchesProperties, FiniteSetTheorems, WellFoundedInduction, TLAPS

\* A set of natural numbers that is not empty has a least element.
LEMMA LeastNatural ==
    ASSUME NEW T \in SUBSET Nat, T # {}
    PROVE  \E x \in T : \A y \in T : x <= y
<1> DEFINE R == OpToRel(<, Nat)
<1>1. IsWellFoundedOn(R, Nat) BY NatLessThanWellFounded
<1>2. \A x, y \in Nat : <<y, x>> \in R <=> y < x BY DEF OpToRel
<1> HIDE DEF R
<1>3. PICK x \in T : \A y \in T : ~ (<<y, x>> \in R) BY <1>1, WFMin
<1>4. \A y \in T : ~(y < x) BY <1>2, <1>3, Zenon
<1>5. \A y \in T : x <= y BY <1>4
<1>6. QED BY <1>5

\* FlattenSeq does what its recursive definition says, and concatenates.
LEMMA FlattenIs ==
    ASSUME NEW A, NEW seqs \in Seq(Seq(A))
    PROVE  FlattenSeq(seqs) \in Seq(A)
<1> DEFINE n == Len(seqs)
           G(f) == [i \in 1..n |-> IF i = 1 THEN seqs[i] ELSE f[i - 1] \o seqs[i]]
           F == CHOOSE f : f = G(f)
           \* Solutions of the recursion up to m.
           Upto(m) == {g \in [1..m -> Seq(A)] :
                         \A i \in 1..m : g[i] = IF i = 1 THEN seqs[i] ELSE g[i - 1] \o seqs[i]}
           Bad == {m \in 1..n : Upto(m) = {}}
<1>1. FlattenSeq(seqs) = IF n = 0 THEN seqs ELSE F[n] BY DEF FlattenSeq
<1>2. n \in Nat /\ \A i \in 1..n : seqs[i] \in Seq(A) OBVIOUS
<1>3. CASE n = 0
  <2>1. seqs = <<>> BY <1>3
  <2>2. QED BY <1>1, <1>3, <2>1
<1>4. CASE n # 0
  <2>1. Bad = {}
    <3> SUFFICES ASSUME Bad # {} PROVE FALSE OBVIOUS
    <3>1. Bad \in SUBSET Nat BY <1>2
    <3>2. PICK m \in Bad : \A k \in Bad : m <= k BY <3>1, LeastNatural
    <3>3. CASE m = 1
      <4> DEFINE g == [i \in 1..1 |-> seqs[i]]
      <4>1. g \in Upto(1) BY <1>2, <3>2, <3>3
      <4>2. QED BY <3>2, <3>3, <4>1
    <3>4. CASE m # 1
      <4>1. m - 1 \in 1..n /\ m - 1 \notin Bad
        <5>1. m \in 1..n BY <3>2
        <5> HIDE DEF Bad, Upto
        <5>2. ~(m <= m - 1) /\ m - 1 \in 1..n BY <1>2, <3>4, <5>1
        <5>3. QED BY <3>2, <5>2
      <4>2. PICK h \in Upto(m - 1) : TRUE BY <4>1
      <4> DEFINE g == [i \in 1..m |-> IF i = m THEN h[m - 1] \o seqs[m] ELSE h[i]]
      <4>3. h \in [1..(m - 1) -> Seq(A)] BY <4>2
      <4>4. \A i \in 1..(m - 1) : h[i] = IF i = 1 THEN seqs[i] ELSE h[i - 1] \o seqs[i]
        BY <4>2
      <4>5. h[m - 1] \o seqs[m] \in Seq(A) BY <1>2, <3>2, <3>4, <4>3
      <4>6. g \in [1..m -> Seq(A)] BY <1>2, <3>2, <4>3, <4>5
      <4>7. ASSUME NEW i \in 1..m
            PROVE  g[i] = IF i = 1 THEN seqs[i] ELSE g[i - 1] \o seqs[i]
        <5>1. CASE i = m
          <6>1. m - 1 \in 1..m /\ m - 1 # m BY <3>2, <3>4
          <6>2. g[m - 1] = h[m - 1] /\ g[m] = h[m - 1] \o seqs[m] BY <5>1, <6>1, Zenon
          <6>3. QED BY <3>4, <5>1, <6>2
        <5>2. CASE i # m
          <6>1. i \in 1..(m - 1) /\ g[i] = h[i] BY <3>2, <5>2
          <6>2. i # 1 => i - 1 \in 1..m /\ i - 1 # m BY <3>2, <6>1
          <6>3. i # 1 => g[i - 1] = h[i - 1] BY <6>2
          <6>4. QED BY <4>4, <6>1, <6>3
        <5>3. QED BY <5>1, <5>2
      <4> HIDE DEF g
      <4>8. g \in Upto(m) BY <4>6, <4>7
      <4>9. QED BY <3>2, <4>8
    <3>5. QED BY <3>3, <3>4
  <2>2. n \in 1..n BY <1>2, <1>4
  <2>3. PICK g \in Upto(n) : TRUE BY <2>1, <2>2
  <2>4. g = G(g) BY <2>3
  <2>5. F = G(F) BY <2>4
  <2> HIDE DEF F
  <2>6. F = [i \in 1..n |-> IF i = 1 THEN seqs[i] ELSE F[i - 1] \o seqs[i]] BY <2>5
  <2> DEFINE Wrong == {m \in 1..n : F[m] \notin Seq(A)}
  <2>7. Wrong = {}
    <3> SUFFICES ASSUME Wrong # {} PROVE FALSE OBVIOUS
    <3>1. Wrong \in SUBSET Nat BY <1>2
    <3>2. PICK m \in Wrong : \A k \in Wrong : m <= k BY <3>1, LeastNatural
    <3>3. F[m] = IF m = 1 THEN seqs[m] ELSE F[m - 1] \o seqs[m] BY <2>6, <3>2
    <3>4. m # 1 => m - 1 \in 1..n /\ m - 1 \notin Wrong BY <1>2, <3>2
    <3>5. m # 1 => F[m - 1] \in Seq(A) BY <3>4
    <3>6. F[m] \in Seq(A) BY <1>2, <3>2, <3>3, <3>5
    <3>7. QED BY <3>2, <3>6
  <2>8. F[n] \in Seq(A) BY <2>2, <2>7
  <2>9. QED BY <1>1, <1>4, <2>8
<1>5. QED BY <1>3, <1>4

\* A sequence of one element.
LEMMA OneElement ==
    ASSUME NEW A, NEW x \in A
    PROVE  <<x>> \in Seq(A) /\ Len(<<x>>) = 1 /\ <<x>> # <<>>
OBVIOUS

\* Keep keeps elements of the sequence that are in the set.
LEMMA KeepIs ==
    ASSUME NEW A, NEW s \in Seq(A), NEW S
    PROVE  Keep(s, S) \in Seq(A \cap S)
<1> DEFINE seqs == [k \in DOMAIN s |-> IF s[k] \in S THEN <<s[k]>> ELSE <<>>]
<1>1. DOMAIN s = 1..Len(s) /\ Len(s) \in Nat OBVIOUS
<1>2. \A k \in 1..Len(s) : s[k] \in A OBVIOUS
<1>3. \A k \in 1..Len(s) : seqs[k] \in Seq(A \cap S)
  <2> TAKE k \in 1..Len(s)
  <2>1. CASE s[k] \in S
    <3>1. seqs[k] = <<s[k]>> BY <1>1, <2>1
    <3>2. s[k] \in A \cap S BY <1>2, <2>1
    <3> HIDE DEF seqs
    <3>3. QED BY <3>1, <3>2, OneElement
  <2>2. CASE s[k] \notin S
    <3>1. seqs[k] = <<>> BY <1>1, <2>2
    <3>2. QED BY <3>1
  <2>3. QED BY <2>1, <2>2
<1>4. seqs \in Seq(Seq(A \cap S))
  <2>1. seqs \in [1..Len(s) -> Seq(A \cap S)] BY <1>1, <1>3
  <2> HIDE DEF seqs
  <2>2. QED BY <1>1, <2>1
<1> HIDE DEF seqs
<1>5. QED BY <1>4, FlattenIs DEF Keep, seqs

----------------------------------------------------------------------------
(* Rows and statements *)

JRows == ToSet(JoinRows)
AllRows == Steps \cup JRows \cup {Fork, Inst, NoRow}

\* What Init takes from the scenario.
Scene ==
    /\ store \in {"postgres", "sqlite", "memory"}
    /\ heads \in Seq(Steps) /\ heads # <<>>
    /\ next \in [Steps -> Steps \cup {NoRow}]
    /\ \A s \in Steps \ Heads : \E r \in Steps : next[r] = s
    /\ Steps \cap ({Fork, Inst, JoinState, NoRow} \cup JRows) = {}

Ops == {"set", "enqueue", "create", "replace", "notifyForStep", "notify", "again", "ready",
        "hasUnfinished", "completeWorkflow", "undoCompleted", "hasCompensation", "stop",
        "rollback", "execute", "compensate", "compensated"}
Vals == {"", "pending", "running", "completed", "failed", "compensation", "rolled_back",
         "skipped"}
Statements == [op : Ops, row : AllRows, val : Vals]

\* A worker knows a join step only when it can read it.
Visible(w, r) == r \in JRows => See(w, r) # "none"

\* The statements that worker w may have ahead of it on Postgres, but for those by which it
\* starts the join: they follow at once on the one that has locked the join state.
Safe(w) ==
    {st \in Statements : store = "postgres" =>
        /\ st.op # "ready"
        /\ st.op = "create" => st.row \in Steps
        /\ Visible(w, st.row)}

NoJoinDrafted == \A j \in JRows : draft[j] = "none"
StartsJoin(w, st) ==
    /\ store = "postgres" /\ holder[JoinState] = w
    /\ Visible(w, st.row)
    /\ st.op = "ready" \/ (st.op = "create" /\ NoJoinDrafted)

WorkerOK(w) ==
    /\ DOMAIN wk[w] = {"row", "todo", "seen", "items"}
    /\ wk[w].todo \in Seq(Statements)
    /\ wk[w].todo # <<>> =>
         /\ Tail(wk[w].todo) \in Seq(Safe(w))
         /\ Now(w) \in Safe(w) \/ StartsJoin(w, Now(w))
    /\ wk[w].items \in Seq(AllRows)
    /\ wk[w].row \in AllRows
    /\ store = "postgres" =>
         /\ \A k \in DOMAIN wk[w].items : Visible(w, wk[w].items[k])
         /\ wk[w].row \in JRows => committed[wk[w].row] # "none"

\* Every row that is read is one the tables have.
RowsThere ==
    /\ JRows \cup {JoinState} \subseteq DOMAIN committed
    /\ JRows \cup {JoinState} \subseteq DOMAIN draft
    /\ JRows \cup {JoinState} \subseteq DOMAIN holder
    /\ queue \in [DOMAIN queue -> Nat]
    /\ DOMAIN queue \subseteq AllRows

\* Postgres: there is one join step at most, a draft of it belongs to the worker that has
\* the join state, and nobody finds it in the queue before it is committed.
OneJoin ==
    /\ \A j, k \in JRows : draft[j] # "none" /\ draft[k] # "none" => j = k
    /\ \A j \in JRows : committed[j] # "none" => draft[j] # "none"
    /\ \A j \in JRows : committed[j] = "none" /\ draft[j] # "none" =>
         holder[j] = holder[JoinState] /\ holder[j] \in Workers
    /\ \A j \in JRows : j \in DOMAIN queue /\ queue[j] > 0 => committed[j] # "none"

\* The inductive invariant.
OInv ==
    /\ Scene
    /\ RowsThere
    /\ DOMAIN wk = Workers
    /\ \A w \in Workers : WorkerOK(w)
    /\ store = "postgres" => OneJoin

\* The rows of the instance are steps, the fork and join steps.
LEMMA StepRowsAre ==
    ASSUME Scene
    PROVE  /\ StepRows \in Seq(Steps \cup JRows \cup {Fork})
           /\ ToSet(StepRows) \subseteq Steps \cup JRows \cup {Fork}
           /\ JRows \subseteq ToSet(StepRows)
<1> DEFINE A == Steps \cup JRows \cup {Fork}
           second == [b \in DOMAIN heads |-> next[heads[b]]]
           front == <<Fork>> \o heads \o Keep(second, Steps)
<1>1. second \in Seq(Steps \cup {NoRow})
  <2>1. \A b \in 1..Len(heads) : next[heads[b]] \in Steps \cup {NoRow} BY DEF Scene
  <2>2. DOMAIN heads = 1..Len(heads) /\ Len(heads) \in Nat BY DEF Scene
  <2>3. second \in [1..Len(heads) -> Steps \cup {NoRow}] BY <2>1, <2>2
  <2> HIDE DEF second
  <2>4. QED BY <2>2, <2>3
<1> HIDE DEF second
<1>2. Keep(second, Steps) \in Seq((Steps \cup {NoRow}) \cap Steps) BY <1>1, KeepIs
<1>3. (Steps \cup {NoRow}) \cap Steps = Steps OBVIOUS
<1>4. Keep(second, Steps) \in Seq(Steps) BY <1>2, <1>3
<1>5. \A S : S \subseteq A => Seq(S) \subseteq Seq(A) OBVIOUS
<1>6. <<Fork>> \in Seq(A)
  <2>1. Fork \in A OBVIOUS
  <2>2. QED BY <2>1, OneElement
<1>7. heads \in Seq(A) /\ Keep(second, Steps) \in Seq(A)
  <2>1. heads \in Seq(Steps) BY DEF Scene
  <2> HIDE DEF A
  <2>2. Steps \subseteq A BY DEF A
  <2>3. QED BY <1>4, <1>5, <2>1, <2>2
<1>8. JoinRows \in Seq(A)
  <2>1. JoinRows \in Seq(JRows) BY BranchesAssumption DEF JRows
  <2> HIDE DEF A
  <2>2. JRows \subseteq A BY DEF A
  <2>3. QED BY <1>5, <2>1, <2>2
<1> HIDE DEF A
<1>9. front \in Seq(A) BY <1>6, <1>7
<1>10. StepRows = front \o JoinRows BY DEF StepRows, second
<1> HIDE DEF front
<1>11. StepRows \in Seq(A) BY <1>8, <1>9, <1>10
<1>12. ToSet(StepRows) \subseteq A BY <1>11 DEF ToSet
<1>13. JRows \subseteq ToSet(StepRows)
  <2> SUFFICES ASSUME NEW k \in 1..Len(JoinRows) PROVE JoinRows[k] \in ToSet(StepRows)
    BY <1>8 DEF JRows, ToSet
  <2>1. /\ Len(front) + k \in 1..Len(StepRows)
        /\ StepRows[Len(front) + k] = JoinRows[k]
    BY <1>8, <1>9, <1>10
  <2>2. QED BY <1>11, <2>1 DEF ToSet
<1>14. QED BY <1>11, <1>12, <1>13 DEF A

\* Sequences over a set are sequences over a larger one.
LEMMA SeqMonotone ==
    ASSUME NEW A, NEW B, A \subseteq B
    PROVE  Seq(A) \subseteq Seq(B)
OBVIOUS

\* The first element of a sequence and the rest.
LEMMA HeadAndTail ==
    ASSUME NEW A, NEW t \in Seq(A), t # <<>>
    PROVE  Head(t) \in A /\ Tail(t) \in Seq(A)
OBVIOUS

\* A sequence after one element.
LEMMA ConsIs ==
    ASSUME NEW A, NEW B, NEW x \in A, NEW t \in Seq(B), B \subseteq A
    PROVE  /\ <<x>> \o t \in Seq(A) /\ <<x>> \o t # <<>>
           /\ Head(<<x>> \o t) = x /\ Tail(<<x>> \o t) = t
<1>1. t \in Seq(A) BY SeqMonotone
<1>2. <<x>> \in Seq(A) BY OneElement
<1>3. <<x>> \o t \in Seq(A) /\ Len(<<x>> \o t) = 1 + Len(t) BY <1>1, <1>2
<1>4. <<x>> \o t # <<>> /\ Head(<<x>> \o t) = x BY <1>1, <1>2, <1>3
<1>5. Tail(<<x>> \o t) = t
  <2> DEFINE u == <<x>> \o t
  <2>1. Len(Tail(u)) = Len(t) /\ Tail(u) \in Seq(A) BY <1>1, <1>3, <1>4
  <2>2. \A k \in 1..Len(t) : Tail(u)[k] = t[k] BY <1>1, <1>2, <1>3, <1>4
  <2> HIDE DEF u
  <2>3. Tail(u) = t BY <1>1, <2>1, <2>2
  <2>4. QED BY <2>3 DEF u
<1>6. QED BY <1>3, <1>4, <1>5

----------------------------------------------------------------------------
(* What a step leaves to the workers *)

\* What worker v has read of the join steps stays, and so does what is committed.
Reads(v) ==
    /\ \A j \in JRows : See(v, j) # "none" => See(v, j)' # "none"
    /\ \A j \in JRows : committed[j] # "none" => committed'[j] # "none"

\* While worker v has the join state locked it keeps it, and nobody else starts the join.
LockKept(v) ==
    holder[JoinState] = v => holder'[JoinState] = v /\ (NoJoinDrafted => NoJoinDrafted')

\* Statements that are safe stay safe.
LEMMA SafeStays ==
    ASSUME UNCHANGED scenario, NEW v, store = "postgres" => Reads(v)
    PROVE  Safe(v) \subseteq Safe(v)' /\ Seq(Safe(v)) \subseteq Seq(Safe(v)')
<1>1. Steps' = Steps /\ store' = store BY DEF scenario, Steps
<1>2. Statements' = Statements BY <1>1 DEF Statements, AllRows
<1>3. \A r : store = "postgres" /\ Visible(v, r) => Visible(v, r)'
  BY DEF Visible, Reads
<1>4. Safe(v) \subseteq Safe(v)' BY <1>1, <1>2, <1>3 DEF Safe
<1>5. QED BY <1>4, SeqMonotone

\* A step of another worker.
LEMMA OtherOK ==
    ASSUME UNCHANGED scenario, NEW v \in Workers, WorkerOK(v), wk'[v] = wk[v],
           store = "postgres" => Reads(v) /\ LockKept(v)
    PROVE  WorkerOK(v)'
<1>1. Steps' = Steps /\ store' = store BY DEF scenario, Steps
<1>2. Statements' = Statements /\ AllRows' = AllRows BY <1>1 DEF Statements, AllRows
<1>3. Seq(Safe(v)) \subseteq Seq(Safe(v)') /\ Safe(v) \subseteq Safe(v)' BY SafeStays
<1>4. Now(v)' = Now(v) BY DEF Now
<1>5. \A r : store = "postgres" /\ Visible(v, r) => Visible(v, r)' BY DEF Visible, Reads
<1>6. StartsJoin(v, Now(v)) => StartsJoin(v, Now(v))'
  BY <1>1, <1>4, <1>5 DEF StartsJoin, LockKept
<1>7. wk[v].todo # <<>> =>
        /\ Tail(wk[v].todo) \in Seq(Safe(v)')
        /\ Now(v) \in Safe(v)' \/ StartsJoin(v, Now(v))'
  BY <1>3, <1>6 DEF WorkerOK
<1>8. store = "postgres" => \A k \in DOMAIN wk[v].items : Visible(v, wk[v].items[k])'
  BY <1>5 DEF WorkerOK
<1>9. store = "postgres" => (wk[v].row \in JRows => committed'[wk[v].row] # "none")
  BY DEF WorkerOK, Reads
<1>10. QED BY <1>1, <1>2, <1>4, <1>7, <1>8, <1>9 DEF WorkerOK

\* What Continue does to the record of a worker.
LEMMA ContinueIs ==
    ASSUME DOMAIN wk = Workers, NEW w \in Workers, WorkerOK(w), NEW more, Continue(w, more)
    PROVE  /\ DOMAIN wk' = Workers
           /\ \A v \in Workers \ {w} : wk'[v] = wk[v]
           /\ wk'[w].todo = more \o Tail(wk[w].todo)
           /\ wk'[w].items = wk[w].items /\ wk'[w].row = wk[w].row
           /\ DOMAIN wk'[w] = DOMAIN wk[w]
<1>1. DOMAIN wk[w] = {"row", "todo", "seen", "items"} BY DEF WorkerOK
<1>2. QED BY <1>1 DEF Continue

\* The statements that take the place of the first one are safe, or start the join.
Follows(w, more) ==
    \/ more \in Seq(Safe(w)')
    \/ \E st \in Statements : more = <<st>> /\ StartsJoin(w, st)'

\* The worker that has taken a step.
LEMMA ActingOK ==
    ASSUME UNCHANGED scenario, NEW w \in Workers, WorkerOK(w), DOMAIN wk = Workers,
           wk[w].todo # <<>>, NEW more, Continue(w, more), Follows(w, more),
           store = "postgres" => Reads(w)
    PROVE  WorkerOK(w)'
<1> DEFINE rest == Tail(wk[w].todo)
<1>t. PICK t : t = wk'[w].todo OBVIOUS
<1>1. Steps' = Steps /\ store' = store BY DEF scenario, Steps
<1>2. Statements' = Statements /\ AllRows' = AllRows BY <1>1 DEF Statements, AllRows
<1>3. Seq(Safe(w)) \subseteq Seq(Safe(w)') BY SafeStays
<1>4. rest \in Seq(Safe(w)') BY <1>3 DEF WorkerOK
<1>5. t = more \o rest /\ wk'[w].items = wk[w].items /\ wk'[w].row = wk[w].row
      /\ DOMAIN wk'[w] = DOMAIN wk[w]
  BY <1>t, ContinueIs
<1>6. Safe(w)' \subseteq Statements BY <1>2 DEF Safe
<1>7. /\ t \in Seq(Statements)
      /\ t # <<>> => Tail(t) \in Seq(Safe(w)') /\ (Head(t) \in Safe(w)' \/ StartsJoin(w, Head(t))')
  <2> HIDE DEF rest
  <2>1. CASE more \in Seq(Safe(w)')
    <3>1. t \in Seq(Safe(w)') BY <1>4, <1>5, <2>1
    <3>2. t \in Seq(Statements) BY <1>6, <3>1, SeqMonotone
    <3>3. t # <<>> => Head(t) \in Safe(w)' /\ Tail(t) \in Seq(Safe(w)') BY <3>1, HeadAndTail
    <3>4. QED BY <3>2, <3>3
  <2>2. CASE \E st \in Statements : more = <<st>> /\ StartsJoin(w, st)'
    <3>1. PICK st \in Statements : more = <<st>> /\ StartsJoin(w, st)' BY <2>2
    <3>2. t \in Seq(Statements) /\ Head(t) = st /\ Tail(t) = rest
      BY <1>4, <1>5, <1>6, <3>1, ConsIs
    <3>3. StartsJoin(w, Head(t))' BY <3>1, <3>2
    <3>4. QED BY <1>4, <3>2, <3>3
  <2>3. QED BY <2>1, <2>2 DEF Follows
<1>8. Now(w)' = Head(t) BY <1>t DEF Now
<1>9. \A r : store = "postgres" /\ Visible(w, r) => Visible(w, r)' BY DEF Visible, Reads
<1>10. store = "postgres" => \A k \in DOMAIN wk[w].items : Visible(w, wk[w].items[k])'
  BY <1>5, <1>9 DEF WorkerOK
<1>11. store = "postgres" => (wk[w].row \in JRows => committed'[wk[w].row] # "none")
  BY DEF WorkerOK, Reads
<1> HIDE DEF rest
<1>12. wk'[w].todo # <<>> =>
        /\ Tail(wk'[w].todo) \in Seq(Safe(w)')
        /\ Now(w)' \in Safe(w)' \/ StartsJoin(w, Now(w))'
  BY <1>t, <1>7, <1>8
<1>13. wk'[w].todo \in Seq(Statements') BY <1>t, <1>2, <1>7
<1>14. QED BY <1>1, <1>2, <1>5, <1>10, <1>11, <1>12, <1>13 DEF WorkerOK

\* The parts of the invariant after a step of worker w.
LEMMA StepOK ==
    ASSUME OInv, NEW w \in Workers, UNCHANGED scenario, DOMAIN wk' = Workers,
           \A v \in Workers \ {w} : wk'[v] = wk[v],
           WorkerOK(w)', RowsThere',
           store = "postgres" =>
               OneJoin' /\ \A v \in Workers \ {w} : Reads(v) /\ LockKept(v)
    PROVE  OInv'
<1>1. Steps' = Steps /\ store' = store /\ heads' = heads /\ next' = next
  BY DEF scenario, Steps
<1>2. Scene' BY <1>1 DEF OInv, Scene, Heads
<1>3. \A v \in Workers \ {w} : WorkerOK(v)' BY OtherOK DEF OInv
<1>4. \A v \in Workers : WorkerOK(v)' BY <1>3
<1>5. QED BY <1>1, <1>2, <1>4 DEF OInv

\* A worker goes on with other statements.
LEMMA GoesOn ==
    ASSUME OInv, NEW w \in Workers, wk[w].todo # <<>>, NEW more, Continue(w, more),
           Follows(w, more), UNCHANGED scenario, RowsThere',
           store = "postgres" =>
               /\ OneJoin'
               /\ \A v \in Workers : Reads(v)
               /\ \A v \in Workers \ {w} : LockKept(v)
    PROVE  OInv'
<1>1. WorkerOK(w) /\ DOMAIN wk = Workers BY DEF OInv
<1>2. WorkerOK(w)' BY <1>1, ActingOK
<1>3. DOMAIN wk' = Workers /\ \A v \in Workers \ {w} : wk'[v] = wk[v] BY <1>1, ContinueIs
<1>4. QED BY <1>2, <1>3, StepOK

\* Nothing in the tables changes.
LEMMA NothingWritten ==
    ASSUME OInv, UNCHANGED <<scenario, tables>>, NEW v
    PROVE  Reads(v) /\ LockKept(v) /\ Safe(v)' = Safe(v)
<1>1. /\ committed' = committed /\ draft' = draft /\ holder' = holder
      /\ store' = store /\ Steps' = Steps
  BY DEF tables, scenario, Steps
<1>2. \A r : See(v, r)' = See(v, r) BY <1>1 DEF See
<1>3. NoJoinDrafted' = NoJoinDrafted BY <1>1 DEF NoJoinDrafted
<1>4. Statements' = Statements BY <1>1 DEF Statements, AllRows
<1>5. Safe(v)' = Safe(v) BY <1>1, <1>2, <1>4 DEF Safe, Visible
<1>6. QED BY <1>1, <1>2, <1>3, <1>5 DEF Reads, LockKept

\* A statement that reads and decides what is to be done next.
LEMMA Decides ==
    ASSUME OInv, NEW w \in Workers, wk[w].todo # <<>>, NEW more, Continue(w, more),
           more \in Seq(Safe(w)), UNCHANGED <<scenario, tables, queue>>
    PROVE  OInv'
<1>1. /\ committed' = committed /\ draft' = draft /\ holder' = holder /\ queue' = queue
      /\ UNCHANGED scenario /\ store' = store /\ Steps' = Steps
  BY DEF tables, scenario, Steps
<1>2. UNCHANGED <<scenario, tables>> BY Zenon
<1>3. Follows(w, more) BY <1>2, NothingWritten DEF Follows
<1>4. RowsThere' BY <1>1 DEF OInv, RowsThere, AllRows
<1>5. store = "postgres" => OneJoin' BY <1>1 DEF OInv, OneJoin
<1>6. \A v \in Workers : Reads(v) /\ LockKept(v) BY <1>2, NothingWritten
<1> HIDE DEF OneJoin, RowsThere, Reads, LockKept, Follows
<1>7. QED BY <1>1, <1>3, <1>4, <1>5, <1>6, GoesOn

\* The tables keep their rows.
LEMMA RowsStay ==
    ASSUME OInv, UNCHANGED <<scenario, queue>>, NEW w, NEW r, NEW val, Write(w, r, val)
    PROVE  RowsThere'
<1>1. /\ DOMAIN committed' = DOMAIN committed /\ DOMAIN draft' = DOMAIN draft
      /\ DOMAIN holder' = DOMAIN holder
  BY DEF Write
<1>2. queue' = queue /\ AllRows' = AllRows BY DEF scenario, AllRows, Steps
<1>3. QED BY <1>1, <1>2 DEF OInv, RowsThere

\* Postgres: a write by worker w to a row that is no join step, to a join step it can read,
\* or to a new one while it has the join state and there is none.
LEMMA WriteKeeps ==
    ASSUME OInv, store = "postgres", UNCHANGED <<scenario, queue>>, NEW w \in Workers,
           NEW r, NEW val, Write(w, r, val),
           r \in JRows => val # "none" /\ (Visible(w, r) \/ (holder[JoinState] = w /\ NoJoinDrafted))
    PROVE  /\ OneJoin'
           /\ \A v \in Workers : Reads(v)
           /\ \A v \in Workers \ {w} : LockKept(v)
           /\ r \in JRows => See(w, r)' # "none"
           /\ r = JoinState => holder'[JoinState] = w
<1>1. /\ holder[r] \in {Nobody, w} /\ committed' = committed /\ queue' = queue
      /\ draft' = [draft EXCEPT ![r] = val] /\ holder' = [holder EXCEPT ![r] = w]
  BY DEF Write
<1>2. /\ JoinState \in DOMAIN draft /\ JoinState \in DOMAIN holder
      /\ \A j \in JRows : j \in DOMAIN draft /\ j \in DOMAIN holder
  BY DEF OInv, RowsThere
<1>3. Nobody \notin Workers /\ JoinState \notin JRows BY BranchesAssumption DEF JRows
<1>4. OneJoin BY DEF OInv
<1>5. /\ \A j \in JRows \ {r} : draft'[j] = draft[j] /\ holder'[j] = holder[j]
      /\ r \in JRows => draft'[r] = val /\ holder'[r] = w
      /\ r = JoinState => holder'[r] = w
      /\ r # JoinState => holder'[JoinState] = holder[JoinState]
  BY <1>1, <1>2
\* A draft of a join step that is not committed: whose it is.
<1>6. \A j \in JRows : committed[j] = "none" /\ draft[j] # "none" =>
        holder[j] = holder[JoinState] /\ holder[j] \in Workers
  BY <1>4 DEF OneJoin
<1>7. r \in JRows =>
        \/ draft[r] # "none" /\ (committed[r] = "none" => holder[r] = w /\ holder[JoinState] = w)
        \/ holder[JoinState] = w /\ NoJoinDrafted
  <2> SUFFICES ASSUME r \in JRows, Visible(w, r)
               PROVE  draft[r] # "none" /\ (committed[r] = "none" => holder[r] = w /\ holder[JoinState] = w)
    OBVIOUS
  <2>1. draft[r] # "none" BY <1>4 DEF Visible, See, OneJoin
  <2>2. QED BY <1>1, <1>3, <1>6, <2>1
<1>8. OneJoin'
  <2>1. \A j, k \in JRows : draft'[j] # "none" /\ draft'[k] # "none" => j = k
    BY <1>4, <1>5, <1>7 DEF OneJoin, NoJoinDrafted
  <2>2. \A j \in JRows : committed'[j] # "none" => draft'[j] # "none"
    BY <1>1, <1>4, <1>5 DEF OneJoin
  <2>3. \A j \in JRows : committed'[j] = "none" /\ draft'[j] # "none" =>
          holder'[j] = holder'[JoinState] /\ holder'[j] \in Workers
    <3> SUFFICES ASSUME NEW j \in JRows, committed[j] = "none", draft'[j] # "none"
                 PROVE  holder'[j] = holder'[JoinState] /\ holder'[j] \in Workers
      BY <1>1
    <3>1. CASE j = r BY <1>3, <1>5, <1>7, <3>1
    <3>2. CASE j # r
      <4>1. holder'[j] = holder[j] /\ holder[j] = holder[JoinState] /\ holder[j] \in Workers
        BY <1>5, <1>6, <3>2
      <4>2. CASE r = JoinState BY <1>1, <1>3, <1>5, <4>1, <4>2
      <4>3. CASE r # JoinState BY <1>5, <4>1, <4>3
      <4>4. QED BY <4>2, <4>3
    <3>3. QED BY <3>1, <3>2
  <2>4. \A j \in JRows : j \in DOMAIN queue' /\ queue'[j] > 0 => committed'[j] # "none"
    BY <1>1, <1>4 DEF OneJoin
  <2>5. QED BY <2>1, <2>2, <2>3, <2>4 DEF OneJoin
<1>9. ASSUME NEW v \in Workers PROVE Reads(v)
  <2>1. ASSUME NEW j \in JRows, See(v, j) # "none" PROVE See(v, j)' # "none"
    <3>1. CASE j # r
      <4>1. See(v, j)' = See(v, j) BY <1>1, <1>5, <3>1 DEF See
      <4>2. QED BY <2>1, <4>1
    <3>2. CASE j = r /\ v = w BY <1>5, <3>2 DEF See
    <3>3. CASE j = r /\ v # w
      <4>1. See(v, j)' = committed[j] /\ See(v, j) = committed[j]
        BY <1>1, <1>3, <1>5, <3>3 DEF See
      <4>2. QED BY <2>1, <4>1
    <3>4. QED BY <3>1, <3>2, <3>3
  <2>2. QED BY <1>1, <2>1 DEF Reads
<1>10. ASSUME NEW v \in Workers \ {w} PROVE LockKept(v)
  <2> SUFFICES ASSUME holder[JoinState] = v
               PROVE  holder'[JoinState] = v /\ (NoJoinDrafted => NoJoinDrafted')
    BY DEF LockKept
  <2>1. r # JoinState BY <1>1, <1>3
  <2>2. NoJoinDrafted => r \notin JRows BY <1>7 DEF NoJoinDrafted
  <2>3. QED BY <1>5, <2>1, <2>2 DEF NoJoinDrafted
<1>11. r \in JRows => See(w, r)' # "none" BY <1>5 DEF See
<1>12. QED BY <1>5, <1>8, <1>9, <1>10, <1>11

\* Worker w writes and goes on.
LEMMA Writes ==
    ASSUME OInv, UNCHANGED <<scenario, queue>>, NEW w \in Workers, wk[w].todo # <<>>,
           NEW r, NEW val, Write(w, r, val), NEW more, Continue(w, more),
           store = "postgres" /\ r \in JRows =>
               val # "none" /\ (Visible(w, r) \/ (holder[JoinState] = w /\ NoJoinDrafted)),
           Follows(w, more)
    PROVE  OInv'
<1>1. RowsThere' BY RowsStay
<1>2. UNCHANGED scenario OBVIOUS
<1>3. store = "postgres" =>
        /\ OneJoin'
        /\ \A v \in Workers : Reads(v)
        /\ \A v \in Workers \ {w} : LockKept(v)
  BY WriteKeeps
<1>4. QED BY <1>1, <1>2, <1>3, GoesOn

\* The empty sequence of statements may follow anything.
LEMMA NothingFollows == \A w : Follows(w, <<>>) /\ <<>> \in Seq(Safe(w))
BY DEF Follows

\* The statement a worker is at.
LEMMA AtStatement ==
    ASSUME OInv, NEW w \in Workers, wk[w].todo # <<>>
    PROVE  /\ Now(w) \in Statements
           /\ Now(w) \in Safe(w) \/ StartsJoin(w, Now(w))
           /\ Now(w).op \notin {"ready", "create"} => Now(w) \in Safe(w)
           /\ store = "postgres" => Visible(w, Now(w).row)
           /\ Now(w).row # JoinState
<1>1. WorkerOK(w) /\ Scene BY DEF OInv
<1>2. Now(w) \in Statements BY <1>1, HeadAndTail DEF WorkerOK, Now
<1>3. Now(w) \in Safe(w) \/ StartsJoin(w, Now(w)) BY <1>1 DEF WorkerOK
<1>4. Now(w).op \notin {"ready", "create"} => Now(w) \in Safe(w) BY <1>3 DEF StartsJoin
<1>5. store = "postgres" => Visible(w, Now(w).row) BY <1>3 DEF StartsJoin, Safe
<1>6. JoinState \notin AllRows BY <1>1, BranchesAssumption DEF Scene, AllRows, JRows
<1>7. Now(w).row # JoinState BY <1>2, <1>6 DEF Statements
<1>8. QED BY <1>2, <1>3, <1>4, <1>5, <1>7

\* UpdateStep and UpdateInstanceStatus.
LEMMA UpdateStepOK ==
    ASSUME OInv, NEW w \in Workers, UpdateStep(w)
    PROVE  OInv'
<1>1. /\ wk[w].todo # <<>> /\ Write(w, Now(w).row, Now(w).val) /\ Continue(w, <<>>)
      /\ UNCHANGED <<scenario, queue>>
  BY DEF UpdateStep, At
<1>2. Now(w) \in Statements /\ (store = "postgres" => Visible(w, Now(w).row))
  BY <1>1, AtStatement
<1>3. Now(w).val # "none" BY <1>2 DEF Statements, Vals
<1>4. QED BY <1>1, <1>2, <1>3, NothingFollows, Writes

\* UpdateJoinState and ReplaceInJoinWaitFor.
LEMMA JoinStateOK ==
    ASSUME OInv, NEW w \in Workers, ReplaceInJoinWaitFor(w) \/ UpdateJoinState(w)
    PROVE  OInv'
<1> DEFINE s == Now(w).row
           st == Statement("ready", s, Now(w).val)
<1>1. PICK val, more :
        /\ Write(w, JoinState, val) /\ Continue(w, more)
        /\ more = <<>> \/ more = <<st>>
  BY Zenon DEF ReplaceInJoinWaitFor, UpdateJoinState
<1>2. wk[w].todo # <<>> /\ UNCHANGED <<scenario, queue>>
  BY DEF ReplaceInJoinWaitFor, UpdateJoinState, CanUpdateJoin, JoinStatement
<1>3. JoinState \notin JRows BY BranchesAssumption DEF JRows
<1>4. Now(w) \in Statements /\ (store = "postgres" => Visible(w, s)) BY <1>2, AtStatement
<1>5. st \in Statements /\ st.row = s /\ st.op = "ready"
  BY <1>4 DEF Statement, Statements, Ops
<1>6. store' = store /\ Statements' = Statements
  BY <1>2 DEF scenario, Statements, AllRows, Steps
<1>7. Follows(w, <<st>>)
  <2>1. CASE store = "postgres"
    <3>1. holder'[JoinState] = w /\ Reads(w) BY <1>1, <1>2, <1>3, <2>1, WriteKeeps
    <3>2. \A r : Visible(w, r) => Visible(w, r)' BY <3>1 DEF Visible, Reads
    <3>3. PICK q : q = s OBVIOUS
    <3>4. PICK c : c = st OBVIOUS
    <3>5. Visible(w, q)' BY <1>4, <2>1, <3>2, <3>3
    <3> HIDE DEF st, s
    <3>6. StartsJoin(w, c)' BY <1>5, <1>6, <2>1, <3>1, <3>3, <3>4, <3>5 DEF StartsJoin
    <3>7. QED BY <1>5, <3>4, <3>6 DEF Follows
  <2>2. CASE store # "postgres"
    <3> HIDE DEF st
    <3>1. st \in Safe(w)' BY <1>5, <1>6, <2>2 DEF Safe
    <3>2. QED BY <3>1, OneElement DEF Follows
  <2>3. QED BY <2>1, <2>2
<1> HIDE DEF st
<1>8. Follows(w, more) BY <1>1, <1>7, NothingFollows
<1>9. QED BY <1>1, <1>2, <1>3, <1>8, Writes

\* The row that CreateStep writes.
LEMMA NewRowIs ==
    ASSUME NEW w, CreateStep(w)
    PROVE  /\ NewRow(Now(w).row) \in Steps \cup JRows
           /\ Now(w).row \in Steps => NewRow(Now(w).row) = Now(w).row
<1> DEFINE r == NewRow(Now(w).row)
           I == {k \in 1..Len(JoinRows) : draft[JoinRows[k]] = "none"}
<1>1. CASE Now(w).row \in Steps BY <1>1 DEF NewRow
<1>2. CASE Now(w).row \notin Steps
  <2>1. I # {} BY <1>2 DEF CreateStep, ToSet
  <2>2. \E x \in I : \A y \in I : x <= y
    <3>1. I \in SUBSET Nat OBVIOUS
    <3>2. QED BY <2>1, <3>1, LeastNatural
  <2>3. Min(I) \in I BY <2>2 DEF Min
  <2>4. r = JoinRows[Min(I)] BY <1>2, <2>1 DEF NewRow, SelectInSeq
  <2>5. JoinRows \in Seq(JRows) BY BranchesAssumption DEF JRows
  <2>6. Min(I) \in 1..Len(JoinRows) BY <2>3
  <2> HIDE DEF I
  <2>7. JoinRows[Min(I)] \in JRows BY <2>5, <2>6
  <2>8. QED BY <1>2, <2>4, <2>7
<1>3. QED BY <1>1, <1>2

\* CreateStep: the next step of a branch, or the join step.
LEMMA CreateStepOK ==
    ASSUME OInv, NEW w \in Workers, CreateStep(w)
    PROVE  OInv'
<1>r. PICK r : r = NewRow(Now(w).row) OBVIOUS
<1>1. /\ wk[w].todo # <<>> /\ Now(w).op = "create"
      /\ Write(w, r, "pending") /\ Continue(w, <<Enqueue(r)>>)
      /\ UNCHANGED <<scenario, queue>>
  BY <1>r DEF CreateStep, At
<1>2. r \in Steps \cup JRows /\ (Now(w).row \in Steps => r \in Steps) BY <1>r, NewRowIs
<1>3. Steps \cap JRows = {} BY DEF OInv, Scene
<1>4. store = "postgres" /\ r \in JRows => holder[JoinState] = w /\ NoJoinDrafted
  <2>1. store = "postgres" /\ Now(w).row \notin Steps => Now(w) \notin Safe(w) BY <1>1 DEF Safe
  <2>2. Now(w) \in Safe(w) \/ StartsJoin(w, Now(w)) BY <1>1, AtStatement
  <2>3. QED BY <1>1, <1>2, <1>3, <2>1, <2>2 DEF StartsJoin
<1>5. Enqueue(r) \in Safe(w)'
  <2>1. store' = store /\ AllRows' = AllRows BY <1>1 DEF scenario, AllRows, Steps
  <2>2. store = "postgres" /\ r \in JRows => See(w, r)' # "none"
    BY <1>1, <1>4, WriteKeeps
  <2>3. store = "postgres" => Visible(w, r)' BY <2>2 DEF Visible
  <2>4. r \in AllRows' BY <1>2, <2>1 DEF AllRows
  <2>5. PICK e : e = Enqueue(r) OBVIOUS
  <2>6. e.op = "enqueue" /\ e.row = r /\ e \in Statements'
    BY <2>4, <2>5 DEF Enqueue, Statement, Statements, Ops, Vals
  <2>7. e \in Safe(w)' BY <2>1, <2>3, <2>6 DEF Safe
  <2>8. QED BY <2>5, <2>7
<1>6. Follows(w, <<Enqueue(r)>>) BY <1>5, OneElement DEF Follows
<1>7. QED BY <1>1, <1>4, <1>6, Writes

\* EnqueueStep.
LEMMA EnqueueStepOK ==
    ASSUME OInv, NEW w \in Workers, EnqueueStep(w)
    PROVE  OInv'
<1> DEFINE q == Now(w).row
<1>1. wk[w].todo # <<>> /\ Now(w).op = "enqueue" /\ UNCHANGED <<scenario, tables>>
  BY DEF EnqueueStep, At
<1>2. /\ committed' = committed /\ draft' = draft /\ holder' = holder
      /\ store' = store /\ Steps' = Steps /\ AllRows' = AllRows
  BY <1>1 DEF scenario, tables, Steps, AllRows
<1>3. \A v : Reads(v) /\ LockKept(v) /\ Safe(v)' = Safe(v) BY <1>1, NothingWritten
<1>4. WorkerOK(w) /\ DOMAIN wk = Workers BY DEF OInv
<1>5. CASE store = "postgres"
  <2>1. /\ wk' = [wk EXCEPT ![w].todo = Tail(@), ![w].items = Append(@, Now(w).row)]
        /\ queue' = queue
    BY <1>5 DEF EnqueueStep
  <2>2. DOMAIN wk[w] = {"row", "todo", "seen", "items"} BY <1>4 DEF WorkerOK
  <2>3. /\ DOMAIN wk' = Workers /\ \A v \in Workers \ {w} : wk'[v] = wk[v]
        /\ DOMAIN wk'[w] = DOMAIN wk[w] /\ wk'[w].row = wk[w].row
        /\ wk'[w].todo = Tail(wk[w].todo) /\ wk'[w].items = Append(wk[w].items, q)
    BY <1>4, <2>1, <2>2
  <2>4. Visible(w, q) /\ q \in AllRows BY <1>1, <1>5, AtStatement DEF Statements
  <2>5. /\ wk'[w].items \in Seq(AllRows)
        /\ \A k \in DOMAIN wk'[w].items : Visible(w, wk'[w].items[k])
    <3>1. wk[w].items \in Seq(AllRows) /\ \A k \in DOMAIN wk[w].items : Visible(w, wk[w].items[k])
      BY <1>4, <1>5 DEF WorkerOK
    <3>2. \A k \in DOMAIN wk'[w].items :
            wk'[w].items[k] = q \/ (k \in DOMAIN wk[w].items /\ wk'[w].items[k] = wk[w].items[k])
      BY <2>3, <2>4, <3>1
    <3>3. wk'[w].items \in Seq(AllRows) BY <2>3, <2>4, <3>1
    <3>4. QED BY <2>4, <3>1, <3>2, <3>3
  <2>6. \A r : Visible(w, r)' = Visible(w, r) BY <1>2 DEF Visible, See
  <2>7. wk'[w].todo \in Seq(Safe(w)) BY <1>1, <1>4, <2>3 DEF WorkerOK
  <2>8. wk'[w].todo # <<>> => Now(w)' \in Safe(w) /\ Tail(wk'[w].todo) \in Seq(Safe(w))
    BY <2>7, HeadAndTail DEF Now
  <2>9. wk'[w].todo \in Seq(Statements)
    <3>1. Safe(w) \subseteq Statements BY DEF Safe
    <3>2. QED BY <2>7, <3>1, SeqMonotone
  <2>10. Statements' = Statements BY <1>2 DEF Statements
  <2>11. \A k \in DOMAIN wk'[w].items : Visible(w, wk[w].items[k])' BY <2>5, <2>6
  <2>12. WorkerOK(w)'
    BY <1>2, <1>3, <1>4, <2>3, <2>5, <2>8, <2>9, <2>10, <2>11 DEF WorkerOK
  <2>13. RowsThere' /\ OneJoin' BY <1>2, <1>5, <2>1 DEF OInv, RowsThere, OneJoin
  <2>14. QED BY <1>1, <1>3, <2>3, <2>12, <2>13, StepOK
<1>6. CASE store # "postgres"
  <2>1. Continue(w, <<>>) /\ queue' = [queue EXCEPT ![q] = @ + 1] BY <1>6 DEF EnqueueStep
  <2>2. RowsThere'
    <3>1. queue \in [DOMAIN queue -> Nat] /\ DOMAIN queue \subseteq AllRows
      BY DEF OInv, RowsThere
    <3>2. DOMAIN queue' = DOMAIN queue /\ \A r \in DOMAIN queue : queue'[r] \in Nat
      BY <2>1, <3>1
    <3>3. queue' \in [DOMAIN queue -> Nat] BY <2>1, <3>1, <3>2
    <3>4. QED BY <1>2, <3>1, <3>2, <3>3 DEF OInv, RowsThere
  <2>3. UNCHANGED scenario BY <1>1
  <2>4. QED BY <1>1, <1>6, <2>1, <2>2, <2>3, NothingFollows, GoesOn
<1>7. QED BY <1>5, <1>6

\* SelectJoinState.
LEMMA SelectOK ==
    ASSUME OInv, NEW w \in Workers, SelectJoinState(w)
    PROVE  OInv'
<1>1. /\ store = "sqlite" /\ UNCHANGED <<scenario, tables, queue>>
      /\ wk' = [wk EXCEPT ![w].seen = <<committed[JoinState]>>]
  BY DEF SelectJoinState
<1>2. /\ committed' = committed /\ draft' = draft /\ holder' = holder /\ queue' = queue
      /\ store' = store /\ Steps' = Steps /\ AllRows' = AllRows
  BY <1>1 DEF scenario, tables, Steps, AllRows
<1>3. WorkerOK(w) /\ DOMAIN wk = Workers /\ DOMAIN wk[w] = {"row", "todo", "seen", "items"}
  BY DEF OInv, WorkerOK
<1>4. /\ DOMAIN wk' = Workers /\ \A v \in Workers \ {w} : wk'[v] = wk[v]
      /\ DOMAIN wk'[w] = DOMAIN wk[w] /\ wk'[w].row = wk[w].row
      /\ wk'[w].todo = wk[w].todo /\ wk'[w].items = wk[w].items
  BY <1>1, <1>3
<1>5. UNCHANGED <<scenario, tables>> BY <1>1
<1>6. Safe(w)' = Safe(w) BY <1>5, NothingWritten
<1>7. Now(w)' = Now(w) BY <1>4 DEF Now
<1>8. Statements' = Statements BY <1>2 DEF Statements
<1>9. ~StartsJoin(w, Now(w)) BY <1>1 DEF StartsJoin
<1>10. WorkerOK(w)' BY <1>1, <1>2, <1>3, <1>4, <1>6, <1>7, <1>8, <1>9 DEF WorkerOK
<1>11. RowsThere' BY <1>2 DEF OInv, RowsThere
<1>12. QED BY <1>1, <1>4, <1>10, <1>11, StepOK

----------------------------------------------------------------------------
(* What follows the end of a step is safe *)

\* Sequences of statements put together.
LEMMA Concatenated ==
    ASSUME NEW A, NEW s \in Seq(A), NEW t \in Seq(A)
    PROVE  s \o t \in Seq(A)
OBVIOUS

\* Most statements are safe when their row can be read.
LEMMA SafeStatement ==
    ASSUME OInv, NEW w, NEW op \in Ops \ {"ready", "create"}, NEW r \in AllRows, NEW val \in Vals,
           store = "postgres" => Visible(w, r)
    PROVE  Statement(op, r, val) \in Safe(w) /\ <<Statement(op, r, val)>> \in Seq(Safe(w))
<1> DEFINE st == Statement(op, r, val)
<1>1. st.op = op /\ st.row = r /\ st \in Statements BY DEF Statement, Statements
<1> HIDE DEF st
<1>2. st \in Safe(w) BY <1>1 DEF Safe
<1>3. <<st>> \in Seq(Safe(w)) BY <1>2, OneElement
<1>4. QED BY <1>2, <1>3 DEF st

\* Rows that are no join steps can be read by everybody.
LEMMA SafeRows ==
    ASSUME OInv, NEW w
    PROVE  /\ \A r \in Steps \cup {NoRow, Inst, Fork} : r \in AllRows /\ Visible(w, r)
           /\ \A r \in Steps : <<Statement("create", r, "")>> \in Seq(Safe(w))
<1>1. \A r \in Steps \cup {NoRow, Inst, Fork} : r \in AllRows /\ r \notin JRows
  BY BranchesAssumption DEF OInv, Scene, AllRows, JRows
<1>2. ASSUME NEW r \in Steps PROVE <<Statement("create", r, "")>> \in Seq(Safe(w))
  <2> DEFINE st == Statement("create", r, "")
  <2>1. st.op = "create" /\ st.row = r /\ st \in Statements
    BY <1>1 DEF Statement, Statements, Ops, Vals
  <2> HIDE DEF st
  <2>2. st \in Safe(w) BY <1>1, <2>1 DEF Safe, Visible
  <2>3. <<st>> \in Seq(Safe(w)) BY <2>2, OneElement
  <2>4. QED BY <2>3 DEF st
<1>3. QED BY <1>1, <1>2 DEF Visible

\* notifyJoinSteps.
LEMMA NotificationsSafe ==
    ASSUME OInv, NEW w, NEW r \in AllRows, store = "postgres" => Visible(w, r),
           NEW status \in {"completed", "failed"}
    PROVE  Notifications(r, status) \in Seq(Safe(w))
<1> DEFINE a == Statement("replace", r, status)
           b == Statement("notifyForStep", r, status)
           c == Statement("notify", r, status)
<1>1. status \in Vals BY DEF Vals
<1>2. {"replace", "notifyForStep", "notify"} \subseteq Ops \ {"ready", "create"} BY DEF Ops
<1>3. a \in Safe(w) /\ b \in Safe(w) /\ c \in Safe(w) BY <1>1, <1>2, SafeStatement
<1>4. Notifications(r, status) \in {<<>>, <<a, b, c>>, <<c>>} BY DEF Notifications
<1> HIDE DEF a, b, c
<1>5. <<>> \in Seq(Safe(w)) /\ <<a, b, c>> \in Seq(Safe(w)) /\ <<c>> \in Seq(Safe(w)) BY <1>3
<1>6. QED BY <1>4, <1>5

\* handleStepSuccess and handleStepFailure.
LEMMA HandlersSafe ==
    ASSUME OInv, NEW w, NEW r \in AllRows, store = "postgres" => Visible(w, r)
    PROVE  handleStepSuccess(r) \in Seq(Safe(w)) /\ handleStepFailure(r) \in Seq(Safe(w))
<1>1. /\ {"completed", "failed", ""} \subseteq Vals
      /\ {"set", "hasUnfinished", "stop", "rollback"} \subseteq Ops \ {"ready", "create"}
  BY DEF Vals, Ops
<1>2. \A x \in Steps \cup {NoRow, Inst, Fork} : x \in AllRows /\ Visible(w, x) BY SafeRows
<1>3. /\ Notifications(r, "completed") \in Seq(Safe(w))
      /\ Notifications(r, "failed") \in Seq(Safe(w))
  BY NotificationsSafe
<1>4. handleStepSuccess(r) \in Seq(Safe(w))
  <2> DEFINE a == <<Set(r, "completed")>>
             b == Notifications(r, "completed")
             c == IF r \in Steps \ Ends THEN <<Statement("create", next[r], "")>>
                  ELSE <<Statement("hasUnfinished", NoRow, "")>>
  <2>1. a \in Seq(Safe(w)) BY <1>1, SafeStatement DEF Set
  <2>2. c \in Seq(Safe(w))
    <3>1. r \in Steps \ Ends => next[r] \in Steps BY DEF Ends, OInv, Scene
    <3>2. <<Statement("hasUnfinished", NoRow, "")>> \in Seq(Safe(w))
      BY <1>1, <1>2, SafeStatement
    <3>3. r \in Steps \ Ends => <<Statement("create", next[r], "")>> \in Seq(Safe(w))
      BY <3>1, SafeRows
    <3>4. QED BY <3>2, <3>3
  <2>3. handleStepSuccess(r) = a \o b \o c BY DEF handleStepSuccess
  <2> HIDE DEF a, b, c
  <2>4. a \o b \in Seq(Safe(w)) BY <1>3, <2>1, Concatenated DEF b
  <2>5. QED BY <2>2, <2>3, <2>4, Concatenated
<1>5. handleStepFailure(r) \in Seq(Safe(w))
  <2> DEFINE a == <<Set(r, "failed")>>
             b == Notifications(r, "failed")
             c == IF r \in Heads THEN <<Statement("stop", r, "")>> ELSE <<>>
             x == Statement("rollback", r, "")
             y == Set(Inst, "failed")
  <2>1. a \in Seq(Safe(w)) BY <1>1, SafeStatement DEF Set
  <2>2. c \in Seq(Safe(w))
    <3>1. <<Statement("stop", r, "")>> \in Seq(Safe(w)) BY <1>1, SafeStatement
    <3>2. QED BY <3>1, NothingFollows
  <2>3. x \in Safe(w) BY <1>1, SafeStatement
  <2>4. y \in Safe(w) BY <1>1, <1>2, SafeStatement DEF Set
  <2>5. handleStepFailure(r) = a \o b \o c \o <<x, y>> BY DEF handleStepFailure
  <2> HIDE DEF a, b, c, x, y
  <2>6. a \o b \in Seq(Safe(w)) BY <1>3, <2>1, Concatenated DEF b
  <2>7. a \o b \o c \in Seq(Safe(w)) BY <2>2, <2>6, Concatenated
  <2>8. <<x, y>> \in Seq(Safe(w)) BY <2>3, <2>4
  <2>9. QED BY <2>5, <2>7, <2>8, Concatenated
<1>6. QED BY <1>4, <1>5

\* The rows that worker w can read.
Readable(w) == {r \in AllRows : store = "postgres" => Visible(w, r)}

\* A function on 1..n is a sequence.
LEMMA FunctionIsSeq ==
    ASSUME NEW B, NEW n \in Nat, NEW f \in [1..n -> B]
    PROVE  f \in Seq(B)
OBVIOUS

\* A sequence is a function on its positions.
LEMMA SeqIsFunction ==
    ASSUME NEW A, NEW s \in Seq(A)
    PROVE  Len(s) \in Nat /\ DOMAIN s = 1..Len(s) /\ \A k \in 1..Len(s) : s[k] \in A
OBVIOUS

\* Reverse takes its elements from the sequence.
LEMMA ReverseIs ==
    ASSUME NEW A, NEW s \in Seq(A)
    PROVE  Reverse(s) \in Seq(A)
<1> DEFINE n == Len(s)
<1>1. n \in Nat /\ \A k \in 1..n : s[k] \in A BY SeqIsFunction
<1>2. Reverse(s) = [i \in 1..n |-> s[(n - i) + 1]] BY DEF Reverse
<1>3. \A i \in 1..n : (n - i) + 1 \in 1..n BY <1>1
<1> HIDE DEF n
<1>4. Reverse(s) \in [1..n -> A] BY <1>1, <1>2, <1>3
<1>5. QED BY <1>1, <1>4, FunctionIsSeq

\* What a worker finds in a query it can read.
LEMMA RowsReadable ==
    ASSUME OInv, NEW w, NEW statuses, "none" \notin statuses
    PROVE  Rows(w, statuses) \subseteq Readable(w)
BY DEF OInv, RowsThere, Rows, Readable, Visible

\* rollbackStep.
LEMMA RollbackStepSafe ==
    ASSUME OInv, NEW w, NEW r \in Readable(w)
    PROVE  rollbackStep(r) \in Seq(Safe(w))
<1>1. /\ {"compensation", "rolled_back", ""} \subseteq Vals
      /\ {"set", "enqueue"} \subseteq Ops \ {"ready", "create"}
  BY DEF Vals, Ops
<1>2. r \in AllRows /\ (store = "postgres" => Visible(w, r)) BY DEF Readable
<1>3. /\ Set(r, "compensation") \in Safe(w) /\ Set(r, "rolled_back") \in Safe(w)
      /\ Enqueue(r) \in Safe(w)
  BY <1>1, <1>2, SafeStatement DEF Set, Enqueue
<1>4. QED BY <1>3 DEF rollbackStep

\* rollbackStep of some rows, one after the other.
LEMMA RollbackStepsSafe ==
    ASSUME OInv, NEW w, NEW rows \in Seq(Readable(w)), NEW f, DOMAIN f = DOMAIN rows,
           f = [k \in DOMAIN f |-> f[k]],
           \A k \in DOMAIN rows : f[k] \in {<<>>, rollbackStep(rows[k])}
    PROVE  f \in Seq(Seq(Safe(w)))
<1>1. Len(rows) \in Nat /\ DOMAIN rows = 1..Len(rows) /\ \A k \in 1..Len(rows) : rows[k] \in Readable(w)
  BY SeqIsFunction
<1>2. \A k \in 1..Len(rows) : rollbackStep(rows[k]) \in Seq(Safe(w)) BY <1>1, RollbackStepSafe
<1>3. \A k \in 1..Len(rows) : f[k] \in Seq(Safe(w)) BY <1>1, <1>2, NothingFollows
<1>4. f \in [1..Len(rows) -> Seq(Safe(w))] BY <1>1, <1>3
<1>5. QED BY <1>1, <1>4, FunctionIsSeq

\* enqueueCompletedStepsForRollback.
LEMMA UndoCompletedOK ==
    ASSUME OInv, NEW w \in Workers, enqueueCompletedStepsForRollback(w)
    PROVE  OInv'
<1>r. PICK rows : rows = Keep(StepRows, Rows(w, {"completed"})) OBVIOUS
<1> DEFINE A == Steps \cup JRows \cup {Fork}
           R == Rows(w, {"completed"})
           f == [k \in DOMAIN rows |-> IF IsTask(rows[k]) THEN <<>> ELSE rollbackStep(rows[k])]
           g == [k \in DOMAIN rows |-> IF IsTask(rows[k]) THEN rollbackStep(rows[k]) ELSE <<>>]
           more == FlattenSeq(f) \o FlattenSeq(Reverse(g))
<1>1. /\ wk[w].todo # <<>> /\ Continue(w, more) /\ UNCHANGED <<scenario, tables, queue>>
  BY <1>r, Zenon DEF enqueueCompletedStepsForRollback, At
<1>2. rows \in Seq(Readable(w))
  <2>1. StepRows \in Seq(A) BY StepRowsAre DEF OInv
  <2>2. R \subseteq Readable(w) BY RowsReadable
  <2> HIDE DEF A, R
  <2>3. Keep(StepRows, R) \in Seq(A \cap R) BY <2>1, KeepIs
  <2>4. A \cap R \subseteq Readable(w) BY <2>2
  <2>5. QED BY <1>r, <2>3, <2>4, SeqMonotone DEF R
<1>3. /\ DOMAIN f = DOMAIN rows /\ f = [k \in DOMAIN f |-> f[k]]
      /\ \A k \in DOMAIN rows : f[k] \in {<<>>, rollbackStep(rows[k])}
  OBVIOUS
<1>4. /\ DOMAIN g = DOMAIN rows /\ g = [k \in DOMAIN g |-> g[k]]
      /\ \A k \in DOMAIN rows : g[k] \in {<<>>, rollbackStep(rows[k])}
  OBVIOUS
<1> HIDE DEF f, g
<1>5. f \in Seq(Seq(Safe(w))) BY <1>2, <1>3, RollbackStepsSafe
<1>6. g \in Seq(Seq(Safe(w))) BY <1>2, <1>4, RollbackStepsSafe
<1>7. Reverse(g) \in Seq(Seq(Safe(w))) BY <1>6, ReverseIs
<1>8. FlattenSeq(f) \in Seq(Safe(w)) /\ FlattenSeq(Reverse(g)) \in Seq(Safe(w))
  BY <1>5, <1>7, FlattenIs
<1>9. more \in Seq(Safe(w)) BY <1>8, Concatenated
<1> HIDE DEF more
<1>10. QED BY <1>1, <1>9, Decides

\* stopParallelBranchesInFork.
LEMMA StopOK ==
    ASSUME OInv, NEW w \in Workers, stopParallelBranchesInFork(w)
    PROVE  OInv'
<1> DEFINE A == Steps \cup JRows \cup {Fork}
           R == Rows(w, Unfinished) \cap (Steps \ {Now(w).row})
<1>r. PICK rows : rows = Keep(StepRows, R) OBVIOUS
<1> DEFINE more == [k \in DOMAIN rows |-> Set(rows[k], "skipped")]
<1>1. wk[w].todo # <<>> /\ Continue(w, more) /\ UNCHANGED <<scenario, tables, queue>>
  BY <1>r, Zenon DEF stopParallelBranchesInFork, At
<1>2. R \subseteq Readable(w)
  <2>1. Rows(w, Unfinished) \subseteq Readable(w) BY RowsReadable DEF Unfinished
  <2>2. QED BY <2>1
<1>3. rows \in Seq(Readable(w))
  <2>1. StepRows \in Seq(A) BY StepRowsAre DEF OInv
  <2> HIDE DEF A, R
  <2>2. Keep(StepRows, R) \in Seq(A \cap R) BY <2>1, KeepIs
  <2>3. A \cap R \subseteq Readable(w) BY <1>2
  <2>4. QED BY <1>r, <2>2, <2>3, SeqMonotone
<1>4. /\ Len(rows) \in Nat /\ DOMAIN rows = 1..Len(rows)
      /\ \A k \in 1..Len(rows) : rows[k] \in Readable(w)
  BY <1>3, SeqIsFunction
<1>5. \A r \in Readable(w) : Set(r, "skipped") \in Safe(w)
  BY SafeStatement DEF Readable, Set, Vals, Ops
<1>6. more \in [1..Len(rows) -> Safe(w)] BY <1>4, <1>5
<1>7. more \in Seq(Safe(w)) BY <1>4, <1>6, FunctionIsSeq
<1> HIDE DEF more
<1>8. QED BY <1>1, <1>7, Decides

\* The rows a rollback visits are rows of the instance.
LEMMA RollbackOrderIs ==
    ASSUME OInv, NEW s \in AllRows
    PROVE  RollbackOrder(s) \in Seq(AllRows)
<1> DEFINE before == IF s \in Steps \ Heads THEN <<Predecessor(s)>> ELSE <<>>
           other  == [b \in DOMAIN heads |->
                        IF heads[b] \in {s} \cup ToSet(before) THEN <<>> ELSE FromEnd(heads[b])]
<1>1. s \in Steps \ Heads => Predecessor(s) \in Steps BY DEF OInv, Scene, Predecessor
<1>2. Steps \subseteq AllRows /\ Fork \in AllRows /\ NoRow \in AllRows BY DEF AllRows
<1>3. before \in Seq(AllRows)
  <2>1. CASE s \in Steps \ Heads
    <3>1. Predecessor(s) \in AllRows BY <1>1, <1>2, <2>1
    <3>2. <<Predecessor(s)>> \in Seq(AllRows) BY <3>1, OneElement
    <3>3. QED BY <2>1, <3>2
  <2>2. CASE s \notin Steps \ Heads BY <2>2
  <2>3. QED BY <2>1, <2>2
<1> HIDE DEF before
<1>4. heads \in Seq(Steps) /\ next \in [Steps -> Steps \cup {NoRow}] BY DEF OInv, Scene
<1>5. Len(heads) \in Nat /\ DOMAIN heads = 1..Len(heads) /\ \A b \in 1..Len(heads) : heads[b] \in Steps
  BY <1>4, SeqIsFunction
<1>6. \A h \in Steps : FromEnd(h) \in Seq(AllRows)
  <2> TAKE h \in Steps
  <2>1. h \in AllRows /\ next[h] \in AllRows BY <1>2, <1>4
  <2>2. <<h>> \in Seq(AllRows) /\ <<next[h], h>> \in Seq(AllRows) BY <2>1
  <2>3. QED BY <2>2 DEF FromEnd
<1>7. \A b \in 1..Len(heads) : other[b] \in Seq(AllRows)
  <2> TAKE b \in 1..Len(heads)
  <2>1. FromEnd(heads[b]) \in Seq(AllRows) BY <1>5, <1>6
  <2>2. other[b] = <<>> \/ other[b] = FromEnd(heads[b]) BY <1>5, Zenon
  <2>3. <<>> \in Seq(AllRows) OBVIOUS
  <2> HIDE DEF other
  <2>4. QED BY <2>1, <2>2, <2>3
<1>8. DOMAIN other = 1..Len(heads) /\ other = [b \in 1..Len(heads) |-> other[b]] BY <1>5
<1> HIDE DEF other
<1>9. other \in [1..Len(heads) -> Seq(AllRows)] BY <1>7, <1>8
<1>10. other \in Seq(Seq(AllRows)) BY <1>5, <1>9, FunctionIsSeq
<1>11. FlattenSeq(other) \in Seq(AllRows) BY <1>10, FlattenIs
<1>12. <<s>> \in Seq(AllRows) /\ <<Fork>> \in Seq(AllRows) BY <1>2, OneElement
<1>13. RollbackOrder(s) = <<s>> \o before \o FlattenSeq(other) \o <<Fork>>
  BY Zenon DEF RollbackOrder, before, other
<1>14. <<s>> \o before \in Seq(AllRows) BY <1>3, <1>12, Concatenated
<1>15. <<s>> \o before \o FlattenSeq(other) \in Seq(AllRows) BY <1>11, <1>14, Concatenated
<1>16. QED BY <1>12, <1>13, <1>15, Concatenated

\* rollbackToSavePointOrRoot.
LEMMA RollbackOK ==
    ASSUME OInv, NEW w \in Workers, rollbackToSavePointOrRoot(w)
    PROVE  OInv'
<1> DEFINE s == Now(w).row
           R == {r \in Rows(w, {"completed", "failed"}) : Walked(w, s, r)}
<1>r. PICK rows : rows = Keep(RollbackOrder(s), R) OBVIOUS
<1> DEFINE f == [k \in DOMAIN rows |-> rollbackStep(rows[k])]
<1>1. wk[w].todo # <<>> /\ Continue(w, FlattenSeq(f)) /\ UNCHANGED <<scenario, tables, queue>>
  BY <1>r, Zenon DEF rollbackToSavePointOrRoot, At
<1>2. s \in AllRows BY <1>1, AtStatement DEF Statements
<1>3. RollbackOrder(s) \in Seq(AllRows) BY <1>2, RollbackOrderIs
<1>4. R \subseteq Readable(w)
  <2>1. Rows(w, {"completed", "failed"}) \subseteq Readable(w) BY RowsReadable
  <2>2. QED BY <2>1
<1> HIDE DEF R
<1>5. rows \in Seq(AllRows \cap R) BY <1>r, <1>3, KeepIs
<1>6. rows \in Seq(Readable(w))
  <2>1. AllRows \cap R \subseteq Readable(w) BY <1>4
  <2>2. QED BY <1>5, <2>1, SeqMonotone
<1>7. /\ DOMAIN f = DOMAIN rows /\ f = [k \in DOMAIN f |-> f[k]]
      /\ \A k \in DOMAIN rows : f[k] \in {<<>>, rollbackStep(rows[k])}
  OBVIOUS
<1> HIDE DEF f
<1>8. f \in Seq(Seq(Safe(w))) BY <1>6, <1>7, RollbackStepsSafe
<1>9. FlattenSeq(f) \in Seq(Safe(w)) BY <1>8, FlattenIs
<1>10. QED BY <1>1, <1>9, Decides

\* The queries of completeWorkflow and of what follows a compensation.
LEMMA QueriesOK ==
    ASSUME OInv, NEW w \in Workers,
           \/ SkipNotification(w) \/ hasUnfinishedSteps(w) \/ completeWorkflow(w)
           \/ hasStepsInCompensation(w) \/ AfterCompensation(w)
    PROVE  OInv'
<1> DEFINE a == Statement("completeWorkflow", NoRow, "")
           b == Statement("undoCompleted", NoRow, "")
           c == Statement("hasCompensation", NoRow, "")
           d == Set(Inst, "completed")
           e == Set(Inst, "failed")
<1>1. PICK more : /\ Continue(w, more)
                  /\ more \in {<<>>, <<a>>, <<b, c>>, <<c>>, <<d>>, <<e>>}
  BY Zenon DEF SkipNotification, hasUnfinishedSteps, completeWorkflow, hasStepsInCompensation,
     AfterCompensation
<1>2. wk[w].todo # <<>> /\ UNCHANGED <<scenario, tables, queue>>
  BY DEF SkipNotification, hasUnfinishedSteps, completeWorkflow, hasStepsInCompensation,
     AfterCompensation, Unknown, At
<1>3. NoRow \in AllRows /\ Visible(w, NoRow) /\ Inst \in AllRows /\ Visible(w, Inst) BY SafeRows
<1>4. /\ {"completed", "failed", ""} \subseteq Vals
      /\ {"set", "completeWorkflow", "undoCompleted", "hasCompensation"} \subseteq Ops \ {"ready", "create"}
  BY DEF Vals, Ops
<1>5. a \in Safe(w) /\ b \in Safe(w) /\ c \in Safe(w) BY <1>3, <1>4, SafeStatement
<1>6. d \in Safe(w) /\ e \in Safe(w) BY <1>3, <1>4, SafeStatement DEF Set
<1> HIDE DEF a, b, c, d, e
<1>7. /\ <<>> \in Seq(Safe(w)) /\ <<a>> \in Seq(Safe(w)) /\ <<b, c>> \in Seq(Safe(w))
      /\ <<c>> \in Seq(Safe(w)) /\ <<d>> \in Seq(Safe(w)) /\ <<e>> \in Seq(Safe(w))
  BY <1>5, <1>6
<1>8. more \in Seq(Safe(w)) BY <1>1, <1>7
<1>9. QED BY <1>1, <1>2, <1>8, Decides

\* A task, a join or a compensation has been executed.
LEMMA ExecutedOK ==
    ASSUME OInv, NEW w \in Workers,
           \/ \E ok \in BOOLEAN : ExecuteTask(w, ok)
           \/ executeJoin(w) \/ executeCompensationStep(w)
    PROVE  OInv'
<1> DEFINE s == Now(w).row
           a == Set(s, "rolled_back")
           b == Statement("compensated", s, "")
<1>1. PICK more : /\ Continue(w, more)
                  /\ more \in {handleStepSuccess(s), handleStepFailure(s), <<a, b>>}
  BY Zenon DEF ExecuteTask, executeJoin, executeCompensationStep
<1>2. wk[w].todo # <<>> /\ UNCHANGED <<scenario, tables, queue>>
  BY DEF ExecuteTask, executeJoin, executeCompensationStep, At
<1>3. s \in AllRows /\ (store = "postgres" => Visible(w, s)) BY <1>2, AtStatement DEF Statements
<1>4. /\ {"rolled_back", ""} \subseteq Vals
      /\ {"set", "compensated"} \subseteq Ops \ {"ready", "create"}
  BY DEF Vals, Ops
<1>5. a \in Safe(w) /\ b \in Safe(w) BY <1>3, <1>4, SafeStatement DEF Set
<1>6. handleStepSuccess(s) \in Seq(Safe(w)) /\ handleStepFailure(s) \in Seq(Safe(w))
  BY <1>3, HandlersSafe
<1> HIDE DEF a, b
<1>7. <<a, b>> \in Seq(Safe(w)) BY <1>5
<1>8. more \in Seq(Safe(w)) BY <1>1, <1>6, <1>7
<1>9. QED BY <1>1, <1>2, <1>8, Decides

\* The join is ready.  The worker has the join state, so that a draft of a join step that
\* is not its own would have to be committed, and it would have read it.
LEMMA JoinIsReadyOK ==
    ASSUME OInv, NEW w \in Workers, JoinIsReady(w)
    PROVE  OInv'
<1> DEFINE again == Statement("again", Now(w).row, Now(w).val)
           create == Statement("create", NoRow, "")
<1>1. PICK more : /\ Continue(w, more)
                  /\ \/ more \in {<<>>, <<again>>}
                     \/ more = <<create>> /\ \A j \in JRows : See(w, j) = "none"
  BY Zenon DEF JoinIsReady, JRows
<1>2. /\ wk[w].todo # <<>> /\ Now(w).op = "ready" /\ UNCHANGED <<scenario, tables, queue>>
  BY DEF JoinIsReady, At
<1>3. Now(w) \in Statements /\ (store = "postgres" => Visible(w, Now(w).row))
  BY <1>2, AtStatement
<1>4. CASE more \in {<<>>, <<again>>}
  <2>1. again \in Safe(w) BY <1>3, SafeStatement DEF Statements, Ops
  <2> HIDE DEF again
  <2>2. <<>> \in Seq(Safe(w)) /\ <<again>> \in Seq(Safe(w)) BY <2>1
  <2>3. more \in Seq(Safe(w)) BY <1>4, <2>2
  <2>4. QED BY <1>1, <1>2, <2>3, Decides
<1>5. CASE more = <<create>> /\ \A j \in JRows : See(w, j) = "none"
  <2>1. /\ committed' = committed /\ draft' = draft /\ holder' = holder /\ queue' = queue
        /\ UNCHANGED scenario /\ store' = store /\ Steps' = Steps
    BY <1>2 DEF tables, scenario, Steps
  <2>2. NoRow \in AllRows /\ Visible(w, NoRow) BY SafeRows
  <2>3. create.op = "create" /\ create.row = NoRow /\ create \in Statements
    BY <2>2 DEF Statement, Statements, Ops, Vals
  <2> HIDE DEF create
  <2>4. CASE store # "postgres"
    <3>1. create \in Safe(w) BY <2>3, <2>4 DEF Safe
    <3>2. more \in Seq(Safe(w)) BY <1>5, <3>1, OneElement
    <3>3. QED BY <1>1, <1>2, <3>2, Decides
  <2>5. CASE store = "postgres"
    <3>1. StartsJoin(w, Now(w))
      <4>1. Now(w) \in Safe(w) \/ StartsJoin(w, Now(w)) BY <1>2, AtStatement
      <4>2. Now(w) \notin Safe(w) BY <1>2, <2>5 DEF Safe
      <4>3. QED BY <4>1, <4>2
    <3>2. holder[JoinState] = w BY <3>1 DEF StartsJoin
    <3>3. OneJoin BY <2>5 DEF OInv
    <3>4. NoJoinDrafted
      <4> SUFFICES ASSUME NEW j \in JRows, draft[j] # "none" PROVE FALSE BY DEF NoJoinDrafted
      <4>1. holder[j] # w BY <1>5 DEF See
      <4>2. committed[j] = "none" BY <1>5, <4>1 DEF See
      <4>3. holder[j] = holder[JoinState] BY <3>3, <4>2 DEF OneJoin
      <4>4. QED BY <3>2, <4>1, <4>3
    <3>5. PICK c : c = create OBVIOUS
    <3>6. \A r : Visible(w, r)' = Visible(w, r) BY <2>1 DEF Visible, See
    <3>7. NoJoinDrafted' BY <2>1, <3>4 DEF NoJoinDrafted
    <3>8. StartsJoin(w, c)' BY <2>1, <2>2, <2>3, <2>5, <3>2, <3>5, <3>6, <3>7 DEF StartsJoin
    <3>9. Follows(w, more) BY <1>5, <2>3, <3>5, <3>8 DEF Follows
    <3>10. RowsThere' BY <2>1 DEF OInv, RowsThere, AllRows
    <3>11. OneJoin' BY <2>1, <3>3 DEF OneJoin
    <3>12. \A v \in Workers : Reads(v) /\ LockKept(v)
      <4>1. UNCHANGED <<scenario, tables>> BY <1>2
      <4>2. QED BY <4>1, NothingWritten
    <3>13. QED BY <1>1, <1>2, <2>1, <3>9, <3>10, <3>11, <3>12, GoesOn
  <2>6. QED BY <2>4, <2>5
<1>6. QED BY <1>1, <1>4, <1>5

\* DequeueStep.
LEMMA PollsOK ==
    ASSUME OInv, NEW w \in Workers, Polls(w)
    PROVE  OInv'
<1>1. PICK r \in DOMAIN queue : DequeueStep(w, r) BY DEF Polls
<1> DEFINE x == Statement("compensate", r, "")
           y == Set(r, "running")
           z == Statement("execute", r, "")
<1>2. /\ queue[r] > 0 /\ queue' = [queue EXCEPT ![r] = @ - 1]
      /\ UNCHANGED <<scenario, tables>>
  BY <1>1 DEF DequeueStep
<1>3. PICK more : /\ wk' = [wk EXCEPT ![w].row = r, ![w].todo = more]
                  /\ more \in {<<>>, <<x>>, <<y, z>>}
  <2> DEFINE todo == CASE committed[r] \in Inactive -> <<>>
                       [] committed[r] = "compensation" -> <<x>>
                       [] OTHER -> <<y, z>>
  <2>1. wk' = [wk EXCEPT ![w].row = r, ![w].todo = todo] BY <1>1 DEF DequeueStep
  <2> HIDE DEF x, y, z
  <2>2. todo \in {<<>>, <<x>>, <<y, z>>} OBVIOUS
  <2> HIDE DEF todo
  <2>3. QED BY <2>1, <2>2
<1>4. /\ committed' = committed /\ draft' = draft /\ holder' = holder
      /\ store' = store /\ Steps' = Steps /\ AllRows' = AllRows
  BY <1>2 DEF scenario, tables, Steps, AllRows
<1>5. r \in AllRows BY DEF OInv, RowsThere
<1>6. store = "postgres" => (r \in JRows => committed[r] # "none") BY <1>2 DEF OInv, OneJoin
<1>7. store = "postgres" => Visible(w, r) BY <1>6 DEF OInv, OneJoin, Visible, See
<1>8. x \in Safe(w) /\ y \in Safe(w) /\ z \in Safe(w)
  <2>1. {"running", ""} \subseteq Vals BY DEF Vals
  <2>2. {"compensate", "set", "execute"} \subseteq Ops \ {"ready", "create"} BY DEF Ops
  <2>3. QED BY <1>5, <1>7, <2>1, <2>2, SafeStatement DEF Set
<1> HIDE DEF x, y, z
<1>9. more \in Seq(Safe(w))
  <2>1. <<>> \in Seq(Safe(w)) /\ <<x>> \in Seq(Safe(w)) /\ <<y, z>> \in Seq(Safe(w)) BY <1>8
  <2>2. QED BY <1>3, <2>1
<1>10. more # <<>> => Head(more) \in Safe(w) /\ Tail(more) \in Seq(Safe(w))
  BY <1>9, HeadAndTail
<1>11. more \in Seq(Statements)
  <2>1. Safe(w) \subseteq Statements BY DEF Safe
  <2>2. QED BY <1>9, <2>1, SeqMonotone
<1>12. WorkerOK(w) /\ DOMAIN wk = Workers /\ DOMAIN wk[w] = {"row", "todo", "seen", "items"}
  BY DEF OInv, WorkerOK
<1>13. /\ DOMAIN wk' = Workers /\ \A v \in Workers \ {w} : wk'[v] = wk[v]
       /\ DOMAIN wk'[w] = DOMAIN wk[w] /\ wk'[w].row = r
       /\ wk'[w].todo = more /\ wk'[w].items = wk[w].items
  BY <1>3, <1>12
<1>14. \A v \in Workers : Reads(v) /\ LockKept(v) /\ Safe(v)' = Safe(v) BY <1>2, NothingWritten
<1>15. Statements' = Statements BY <1>4 DEF Statements
<1>16. Now(w)' = Head(more) BY <1>13 DEF Now
<1>17. \A u : Visible(w, u)' = Visible(w, u) BY <1>4 DEF Visible, See
<1>18. store = "postgres" => \A k \in DOMAIN wk'[w].items : Visible(w, wk[w].items[k])'
  BY <1>12, <1>13, <1>17 DEF WorkerOK
<1>19. WorkerOK(w)'
  <2>1. wk'[w].items \in Seq(AllRows) BY <1>12, <1>13 DEF WorkerOK
  <2>2. QED BY <1>4, <1>5, <1>6, <1>10, <1>11, <1>12, <1>13, <1>14, <1>15, <1>16, <1>18, <2>1 DEF WorkerOK
<1>20. /\ DOMAIN queue' = DOMAIN queue /\ queue' \in [DOMAIN queue -> Nat]
       /\ \A u \in DOMAIN queue : queue'[u] > 0 => queue[u] > 0
  <2>1. queue \in [DOMAIN queue -> Nat] BY DEF OInv, RowsThere
  <2>2. queue[r] - 1 \in Nat BY <1>2, <2>1
  <2>3. QED BY <1>2, <2>1, <2>2
<1>21. RowsThere' BY <1>4, <1>20 DEF OInv, RowsThere
<1>22. store = "postgres" => OneJoin' BY <1>4, <1>20 DEF OInv, OneJoin
<1>23. QED BY <1>2, <1>13, <1>14, <1>19, <1>21, <1>22, StepOK

\* The locks of worker w go to nobody or to another worker.
LEMMA ReleasedTo ==
    ASSUME NEW w, NEW r \in DOMAIN holder
    PROVE  /\ DOMAIN Released(w) = DOMAIN holder
           /\ holder[r] # w => Released(w)[r] = holder[r]
           /\ holder[r] = w => Released(w)[r] \in (Workers \ {w}) \cup {Nobody}
<1> DEFINE H == Released(w)[r]
<1>1. /\ DOMAIN Released(w) = DOMAIN holder
      /\ H = IF holder[r] # w THEN holder[r]
             ELSE IF \E v \in Workers \ {w} : r \in Wanted(v)
             THEN CHOOSE v \in Workers \ {w} : r \in Wanted(v)
             ELSE Nobody
  BY Zenon DEF Released
<1> HIDE DEF H
<1>2. QED BY <1>1 DEF H

\* A worker that is idle again.
LEMMA IdleOK ==
    ASSUME OInv, NEW w \in Workers, UNCHANGED scenario, wk' = [wk EXCEPT ![w] = Idle]
    PROVE  /\ WorkerOK(w)' /\ DOMAIN wk' = Workers
           /\ \A v \in Workers \ {w} : wk'[v] = wk[v]
<1>1. DOMAIN wk = Workers BY DEF OInv
<1>2. wk'[w] = Idle /\ DOMAIN wk' = Workers /\ \A v \in Workers \ {w} : wk'[v] = wk[v]
  BY <1>1
<1>3. /\ DOMAIN Idle = {"row", "todo", "seen", "items"} /\ Idle.row = NoRow
      /\ Idle.todo = <<>> /\ Idle.items = <<>>
  BY DEF Idle
<1>4. NoRow \in AllRows' /\ NoRow \notin JRows BY BranchesAssumption DEF AllRows, JRows
<1>5. <<>> \in Seq(Statements') /\ <<>> \in Seq(AllRows') /\ DOMAIN <<>> = {} OBVIOUS
<1>6. /\ DOMAIN wk'[w] = {"row", "todo", "seen", "items"} /\ wk'[w].row = NoRow
      /\ wk'[w].todo = <<>> /\ wk'[w].items = <<>>
  BY <1>2, <1>3, Zenon
<1>7. WorkerOK(w)' BY <1>4, <1>5, <1>6 DEF WorkerOK
<1>8. QED BY <1>2, <1>7

\* Commit.
LEMMA CommitOK ==
    ASSUME OInv, NEW w \in Workers, Commit(w)
    PROVE  OInv'
<1> DEFINE items == wk[w].items
           N(r) == Cardinality({k \in DOMAIN items : items[k] = r})
<1>1. /\ committed' = [r \in DOMAIN committed |-> See(w, r)] /\ draft' = draft
      /\ holder' = Released(w) /\ wk' = [wk EXCEPT ![w] = Idle]
      /\ queue' = [r \in DOMAIN queue |-> queue[r] + N(r)]
      /\ UNCHANGED scenario
  BY DEF Commit
<1>2. store' = store /\ AllRows' = AllRows BY <1>1 DEF scenario, AllRows, Steps
<1>3. /\ WorkerOK(w)' /\ DOMAIN wk' = Workers /\ \A v \in Workers \ {w} : wk'[v] = wk[v]
  BY <1>1, IdleOK
<1>4. /\ JoinState \in DOMAIN holder /\ JoinState \in DOMAIN draft /\ JoinState \in DOMAIN committed
      /\ \A j \in JRows : j \in DOMAIN holder /\ j \in DOMAIN draft /\ j \in DOMAIN committed
      /\ queue \in [DOMAIN queue -> Nat] /\ DOMAIN queue \subseteq AllRows
  BY DEF OInv, RowsThere
<1>5. items \in Seq(AllRows) /\ (store = "postgres" => \A k \in DOMAIN items : Visible(w, items[k]))
  BY DEF OInv, WorkerOK
<1>6. \A r : /\ N(r) \in Nat
             /\ N(r) > 0 => \E k \in DOMAIN items : items[k] = r
  <2> TAKE r
  <2> DEFINE K == {k \in DOMAIN items : items[k] = r}
  <2>1. IsFiniteSet(DOMAIN items)
    <3>1. DOMAIN items = 1..Len(items) /\ Len(items) \in Nat BY <1>5
    <3>2. QED BY <3>1, FS_Interval
  <2>2. IsFiniteSet(K) BY <2>1, FS_Subset
  <2>3. Cardinality(K) \in Nat BY <2>2, FS_CardinalityType
  <2>4. K = {} => Cardinality(K) = 0 BY FS_EmptySet
  <2>5. QED BY <2>3, <2>4
<1> HIDE DEF N, items
<1>7. /\ DOMAIN queue' = DOMAIN queue /\ queue' \in [DOMAIN queue -> Nat]
      /\ \A r \in DOMAIN queue : queue'[r] > 0 => queue[r] > 0 \/ N(r) > 0
  <2>1. \A r \in DOMAIN queue : queue'[r] = queue[r] + N(r) /\ queue[r] \in Nat /\ N(r) \in Nat
    BY <1>1, <1>4, <1>6
  <2>2. DOMAIN queue' = DOMAIN queue /\ queue' = [r \in DOMAIN queue' |-> queue'[r]] BY <1>1
  <2>3. \A r \in DOMAIN queue : queue'[r] \in Nat BY <2>1
  <2>4. QED BY <2>1, <2>2, <2>3
<1>8. /\ \A j \in JRows \cup {JoinState} : committed'[j] = See(w, j)
      /\ DOMAIN committed' = DOMAIN committed
  BY <1>1, <1>4
<1>9. /\ DOMAIN holder' = DOMAIN holder
      /\ \A j \in JRows \cup {JoinState} :
           /\ holder[j] # w => holder'[j] = holder[j]
           /\ holder[j] = w => holder'[j] # w
  <2>1. Nobody \notin Workers BY BranchesAssumption
  <2>2. QED BY <1>1, <1>4, <2>1, ReleasedTo
<1>10. RowsThere' BY <1>1, <1>2, <1>4, <1>7, <1>8, <1>9 DEF RowsThere
<1>11. ASSUME store = "postgres"
       PROVE  OneJoin' /\ \A v \in Workers \ {w} : Reads(v) /\ LockKept(v)
  <2>1. OneJoin BY <1>11 DEF OInv
  <2>2. \A j \in JRows : committed[j] # "none" => committed'[j] # "none"
    BY <1>8, <2>1 DEF See, OneJoin
  <2>3. \A j, k \in JRows : draft'[j] # "none" /\ draft'[k] # "none" => j = k
    BY <1>1, <2>1 DEF OneJoin
  <2>4. \A j \in JRows : committed'[j] # "none" => draft'[j] # "none"
    BY <1>1, <1>8, <2>1 DEF See, OneJoin
  <2>5. ASSUME NEW j \in JRows, committed'[j] = "none", draft'[j] # "none"
        PROVE  holder'[j] = holder'[JoinState] /\ holder'[j] \in Workers
    <3>1. holder[j] # w /\ committed[j] = "none" BY <1>1, <1>8, <2>5 DEF See
    <3>2. holder[j] = holder[JoinState] /\ holder[j] \in Workers
      BY <1>1, <2>1, <2>5, <3>1 DEF OneJoin
    <3>3. QED BY <1>9, <3>1, <3>2
  <2>6. ASSUME NEW j \in JRows, j \in DOMAIN queue', queue'[j] > 0 PROVE committed'[j] # "none"
    <3>1. j \in DOMAIN queue /\ (queue[j] > 0 \/ N(j) > 0) BY <1>7, <2>6
    <3>2. queue[j] > 0 => committed[j] # "none" BY <2>1, <3>1 DEF OneJoin
    <3>3. N(j) > 0 => See(w, j) # "none" BY <1>5, <1>6, <1>11 DEF Visible
    <3>4. QED BY <1>8, <2>2, <3>1, <3>2, <3>3
  <2>7. OneJoin' BY <2>3, <2>4, <2>5, <2>6 DEF OneJoin
  <2>8. ASSUME NEW v \in Workers \ {w} PROVE Reads(v) /\ LockKept(v)
    <3>1. ASSUME NEW j \in JRows, See(v, j) # "none" PROVE See(v, j)' # "none"
      <4>1. CASE holder[j] = v BY <1>1, <1>9, <3>1, <4>1 DEF See
      <4>2. CASE holder[j] # v
        <5>1. committed[j] # "none" /\ draft[j] # "none" BY <2>1, <3>1, <4>2 DEF See, OneJoin
        <5>2. draft'[j] # "none" /\ committed'[j] # "none" BY <1>1, <2>2, <5>1
        <5>3. QED BY <5>2 DEF See
      <4>3. QED BY <4>1, <4>2
    <3>2. NoJoinDrafted' = NoJoinDrafted BY <1>1 DEF NoJoinDrafted
    <3>3. holder[JoinState] = v => holder'[JoinState] = v BY <1>9
    <3>4. QED BY <2>2, <3>1, <3>2, <3>3 DEF Reads, LockKept
  <2>9. QED BY <2>7, <2>8
<1>12. QED BY <1>1, <1>3, <1>10, <1>11, StepOK

\* DeadlockAbort.
LEMMA AbortOK ==
    ASSUME OInv, NEW w \in Workers, DeadlockAbort(w)
    PROVE  OInv'
<1> DEFINE q == wk[w].row
<1>1. /\ draft' = [r \in DOMAIN draft |-> IF holder[r] = w THEN committed[r] ELSE draft[r]]
      /\ committed' = committed /\ holder' = Released(w) /\ wk' = [wk EXCEPT ![w] = Idle]
      /\ queue' = [queue EXCEPT ![q] = @ + 1]
      /\ UNCHANGED scenario
  BY DEF DeadlockAbort
<1>2. store' = store /\ AllRows' = AllRows BY <1>1 DEF scenario, AllRows, Steps
<1>3. /\ WorkerOK(w)' /\ DOMAIN wk' = Workers /\ \A v \in Workers \ {w} : wk'[v] = wk[v]
  BY <1>1, IdleOK
<1>4. /\ JoinState \in DOMAIN holder /\ JoinState \in DOMAIN draft /\ JoinState \in DOMAIN committed
      /\ \A j \in JRows : j \in DOMAIN holder /\ j \in DOMAIN draft /\ j \in DOMAIN committed
      /\ queue \in [DOMAIN queue -> Nat] /\ DOMAIN queue \subseteq AllRows
  BY DEF OInv, RowsThere
<1>5. store = "postgres" /\ q \in JRows => committed[q] # "none" BY DEF OInv, WorkerOK
<1> HIDE DEF q
<1>6. /\ DOMAIN queue' = DOMAIN queue /\ queue' \in [DOMAIN queue -> Nat]
      /\ \A r \in DOMAIN queue : queue'[r] > 0 => queue[r] > 0 \/ r = q
  <2>1. DOMAIN queue' = DOMAIN queue /\ \A r \in DOMAIN queue : queue'[r] \in Nat
    BY <1>1, <1>4
  <2>2. queue' \in [DOMAIN queue -> Nat] BY <1>1, <1>4, <2>1
  <2>3. QED BY <1>1, <2>1, <2>2
<1>7. /\ \A j \in JRows : draft'[j] = IF holder[j] = w THEN committed[j] ELSE draft[j]
      /\ DOMAIN draft' = DOMAIN draft
  BY <1>1, <1>4
<1>8. /\ DOMAIN holder' = DOMAIN holder
      /\ \A j \in JRows \cup {JoinState} :
           /\ holder[j] # w => holder'[j] = holder[j]
           /\ holder[j] = w => holder'[j] # w
  <2>1. Nobody \notin Workers BY BranchesAssumption
  <2>2. QED BY <1>1, <1>4, <2>1, ReleasedTo
<1>9. RowsThere' BY <1>1, <1>2, <1>4, <1>6, <1>7, <1>8 DEF RowsThere
<1>10. ASSUME store = "postgres"
       PROVE  OneJoin' /\ \A v \in Workers \ {w} : Reads(v) /\ LockKept(v)
  <2>1. OneJoin BY <1>10 DEF OInv
  <2>2. \A j \in JRows : draft'[j] # "none" => draft[j] # "none" BY <1>7, <2>1 DEF OneJoin
  <2>3. \A j, k \in JRows : draft'[j] # "none" /\ draft'[k] # "none" => j = k
    BY <2>1, <2>2 DEF OneJoin
  <2>4. \A j \in JRows : committed'[j] # "none" => draft'[j] # "none"
    BY <1>1, <1>7, <2>1 DEF OneJoin
  <2>5. ASSUME NEW j \in JRows, committed'[j] = "none", draft'[j] # "none"
        PROVE  holder'[j] = holder'[JoinState] /\ holder'[j] \in Workers
    <3>1. holder[j] # w /\ committed[j] = "none" /\ draft[j] # "none" BY <1>1, <1>7, <2>5
    <3>2. holder[j] = holder[JoinState] /\ holder[j] \in Workers
      BY <2>1, <3>1 DEF OneJoin
    <3>3. QED BY <1>8, <3>1, <3>2
  <2>6. ASSUME NEW j \in JRows, j \in DOMAIN queue', queue'[j] > 0 PROVE committed'[j] # "none"
    <3>1. j \in DOMAIN queue /\ (queue[j] > 0 \/ j = q) BY <1>6, <2>6
    <3>2. queue[j] > 0 => committed[j] # "none" BY <2>1, <3>1 DEF OneJoin
    <3>3. QED BY <1>1, <1>5, <1>10, <3>1, <3>2
  <2>7. OneJoin' BY <2>3, <2>4, <2>5, <2>6 DEF OneJoin
  <2>8. ASSUME NEW v \in Workers \ {w} PROVE Reads(v) /\ LockKept(v)
    <3>1. ASSUME NEW j \in JRows, See(v, j) # "none" PROVE See(v, j)' # "none"
      <4>1. CASE holder[j] = v BY <1>7, <1>8, <3>1, <4>1 DEF See
      <4>2. CASE holder[j] # v
        <5>1. committed[j] # "none" BY <3>1, <4>2 DEF See
        <5>2. draft'[j] # "none" /\ committed'[j] # "none" BY <1>1, <2>4, <5>1
        <5>3. QED BY <5>2 DEF See
      <4>3. QED BY <4>1, <4>2
    <3>2. NoJoinDrafted => NoJoinDrafted' BY <2>2 DEF NoJoinDrafted
    <3>3. holder[JoinState] = v => holder'[JoinState] = v BY <1>8
    <3>4. QED BY <1>1, <3>1, <3>2, <3>3 DEF Reads, LockKept
  <2>9. QED BY <2>7, <2>8
<1>11. QED BY <1>1, <1>3, <1>9, <1>10, StepOK

\* At first there is no join step and every worker is idle.
LEMMA InitOInv == Init => OInv
<1> SUFFICES ASSUME Init PROVE OInv OBVIOUS
<1>1. PICK x \in Scenarios :
        store = x.store /\ heads = x.heads /\ next = x.next
  BY DEF Init
<1>2. Scene BY <1>1, BranchesAssumption DEF Scene, Steps, Heads, JRows
<1>3. /\ ToSet(StepRows) \subseteq Steps \cup JRows \cup {Fork} /\ JRows \subseteq ToSet(StepRows)
  BY <1>2, StepRowsAre
<1>4. /\ DOMAIN committed = ToSet(StepRows) \cup {Inst, JoinState} /\ draft = committed
      /\ holder = [r \in DOMAIN committed |-> Nobody]
      /\ queue = [r \in ToSet(StepRows) |-> IF r \in Heads THEN 1 ELSE 0]
      /\ wk = [w \in Workers |-> Idle]
  BY DEF Init
<1>5. RowsThere BY <1>3, <1>4 DEF RowsThere, AllRows
<1>6. Heads \subseteq Steps BY <1>2 DEF Scene, Heads, ToSet
<1>7. \A j \in JRows : j \notin Heads /\ j # Fork /\ j # Inst /\ j # JoinState
  BY <1>2, <1>6, BranchesAssumption DEF Scene, JRows
<1>8. \A j \in JRows : committed[j] = "none" BY <1>3, <1>7 DEF Init
<1>9. OneJoin
  <2>1. \A j \in JRows : draft[j] = "none" BY <1>4, <1>8
  <2>2. \A j \in JRows : ~(j \in DOMAIN queue /\ queue[j] > 0) BY <1>4, <1>7
  <2>3. QED BY <1>8, <2>1, <2>2 DEF OneJoin
<1>10. ASSUME NEW w \in Workers PROVE WorkerOK(w)
  <2>1. wk[w] = Idle BY <1>4
  <2>2. /\ DOMAIN Idle = {"row", "todo", "seen", "items"} /\ Idle.row = NoRow
        /\ Idle.todo = <<>> /\ Idle.items = <<>>
    BY DEF Idle
  <2>3. NoRow \in AllRows /\ NoRow \notin JRows BY BranchesAssumption DEF AllRows, JRows
  <2>4. QED BY <2>1, <2>2, <2>3 DEF WorkerOK
<1>11. QED BY <1>2, <1>4, <1>5, <1>9, <1>10 DEF OInv

\* Every step keeps the invariant.
LEMMA NextOInv == OInv /\ [Next]_vars => OInv'
<1> SUFFICES ASSUME OInv, [Next]_vars PROVE OInv' OBVIOUS
<1>1. CASE UNCHANGED vars
  <2>1. /\ committed' = committed /\ draft' = draft /\ holder' = holder /\ queue' = queue
        /\ wk' = wk /\ UNCHANGED scenario
    BY <1>1 DEF vars, tables
  <2>2. store' = store /\ Steps' = Steps /\ AllRows' = AllRows /\ heads' = heads /\ next' = next
    BY <2>1 DEF scenario, Steps, AllRows
  <2>3. UNCHANGED <<scenario, tables>> BY <2>1 DEF tables
  <2>4. \A v \in Workers : Reads(v) /\ LockKept(v) BY <2>3, NothingWritten
  <2>5. \A v \in Workers : WorkerOK(v)' BY <2>1, <2>4, OtherOK DEF OInv
  <2>6. Scene' BY <2>2 DEF OInv, Scene, Heads
  <2>7. RowsThere' /\ (store = "postgres" => OneJoin') BY <2>1, <2>2 DEF OInv, RowsThere, OneJoin
  <2>8. QED BY <2>1, <2>2, <2>5, <2>6, <2>7 DEF OInv
<1>2. CASE Next
  <2>1. PICK w \in Workers : Goes(w) \/ Polls(w) \/ DeadlockAbort(w) BY <1>2 DEF Next
  <2>2. QED BY <2>1, UpdateStepOK, EnqueueStepOK, CreateStepOK, SelectOK, JoinStateOK, QueriesOK,
               JoinIsReadyOK, UndoCompletedOK, StopOK, RollbackOK, ExecutedOK, CommitOK, PollsOK,
               AbortOK DEF Goes
<1>3. QED BY <1>1, <1>2

\* Postgres: whatever branches end at the same time and whichever transactions are aborted,
\* at most one join step of the instance is created, for any number of branches and workers.
THEOREM JoinStartsOnce == Spec => []JoinStartedOnce
<1>1. Init => OInv BY InitOInv
<1>2. OInv /\ [Next]_vars => OInv' BY NextOInv
<1>3. OInv => JoinStartedOnce BY DEF OInv, OneJoin, JoinStartedOnce, JRows
<1>4. QED BY <1>1, <1>2, <1>3, PTL DEF Spec

----------------------------------------------------------------------------
(* The reports of the branches *)

\* The state b of a join holds everything that a holds.
Grows(a, b) ==
    /\ a.completed \subseteq b.completed
    /\ a.failed \subseteq b.failed
    /\ b.virtual \subseteq a.virtual

\* The flag of a join state agrees with the reports it holds.
Counted(a) ==
    /\ IsFiniteSet(a.completed) /\ IsFiniteSet(a.failed)
    /\ a.ready <=> checkJoinReady(a.completed, a.failed)

\* The inductive invariant, on what is committed of the join state (c), the draft of it (d)
\* and the worker that has locked it (h).
Locking(c, d, h) ==
    /\ Counted(c) /\ Counted(d)
    /\ Grows(c, d)
    /\ h \in Workers \cup {Nobody}
    /\ h = Nobody => d = c
    /\ store = "memory" => h = Nobody

JInv ==
    /\ store \in {"postgres", "sqlite", "memory"}
    /\ Len(heads) \in Nat
    /\ JoinState \notin Steps
    /\ JoinState \in DOMAIN committed /\ JoinState \in DOMAIN draft /\ JoinState \in DOMAIN holder
    /\ store # "sqlite" => Locking(committed[JoinState], draft[JoinState], holder[JoinState])

\* A step keeps the invariant when it leaves the scenario and the domains alone and the
\* join state in order.
LEMMA JInvKept ==
    ASSUME JInv, UNCHANGED scenario,
           JoinState \in DOMAIN committed', JoinState \in DOMAIN draft',
           JoinState \in DOMAIN holder',
           store # "sqlite" =>
               Locking(committed'[JoinState], draft'[JoinState], holder'[JoinState])
    PROVE  JInv'
BY DEF JInv, scenario, Steps, Locking, Counted, checkJoinReady

\* A join that is ready stays ready when reports are added.
LEMMA ReadyStays ==
    ASSUME Len(heads) \in Nat, NEW a, NEW b, Counted(a), Counted(b), Grows(a, b)
    PROVE  a.ready => b.ready
<1>1. /\ Cardinality(a.completed) \in Nat /\ Cardinality(a.failed) \in Nat
      /\ Cardinality(b.completed) \in Nat /\ Cardinality(b.failed) \in Nat
  BY FS_CardinalityType DEF Counted
<1>2. /\ Cardinality(a.completed) <= Cardinality(b.completed)
      /\ Cardinality(a.failed) <= Cardinality(b.failed)
  BY FS_Subset DEF Counted, Grows
<1>3. a.completed # {} \/ a.failed # {} => b.completed # {} \/ b.failed # {} BY DEF Grows
<1>4. QED BY <1>1, <1>2, <1>3 DEF Counted, checkJoinReady

\* What JoinGrows says of a step, when it leaves the committed state or adds to it.
LEMMA GrowthSeen ==
    ASSUME JInv, store # "sqlite",
           \/ committed'[JoinState] = committed[JoinState]
           \/ Grows(committed[JoinState], committed'[JoinState]) /\ Counted(committed'[JoinState])
    PROVE  JoinGrows
<1>1. Len(heads) \in Nat /\ Counted(committed[JoinState]) BY DEF JInv, Locking
<1>2. CASE committed'[JoinState] = committed[JoinState] BY <1>2 DEF JoinGrows
<1>3. CASE Grows(committed[JoinState], committed'[JoinState]) /\ Counted(committed'[JoinState])
  BY <1>1, <1>3, ReadyStays DEF JoinGrows, Grows
<1>4. QED BY <1>2, <1>3

\* A row of another table is written.
LEMMA OtherRowWritten ==
    ASSUME JInv, UNCHANGED scenario, NEW w, NEW r, r # JoinState, NEW val, Write(w, r, val)
    PROVE  JInv' /\ (store # "sqlite" => JoinGrows)
<1>1. /\ JoinState \in DOMAIN committed' /\ committed'[JoinState] = committed[JoinState]
      /\ JoinState \in DOMAIN draft' /\ draft'[JoinState] = draft[JoinState]
      /\ JoinState \in DOMAIN holder' /\ holder'[JoinState] = holder[JoinState]
  BY DEF Write, JInv
<1>2. JInv' BY <1>1, JInvKept DEF JInv
<1>3. QED BY <1>1, <1>2, GrowthSeen

\* The join state is written from what the worker reads: UpdateJoinState and
\* ReplaceInJoinWaitFor of Postgres and of the memory store.
LEMMA JoinWritten ==
    ASSUME JInv, UNCHANGED scenario, NEW w \in Workers, NEW val, Write(w, JoinState, val),
           store # "sqlite" => Counted(val) /\ Grows(See(w, JoinState), val)
    PROVE  JInv' /\ (store # "sqlite" => JoinGrows)
<1>1. /\ JoinState \in DOMAIN committed' /\ JoinState \in DOMAIN draft'
      /\ JoinState \in DOMAIN holder'
      /\ draft'[JoinState] = val
      /\ holder[JoinState] \in {Nobody, w}
  BY DEF Write, JInv
<1>2. CASE store = "sqlite" BY <1>1, <1>2, JInvKept
<1>3. CASE store # "sqlite"
  <2> DEFINE c == committed[JoinState]
             d == draft[JoinState]
             h == holder[JoinState]
  <2>1. Locking(c, d, h) BY <1>3 DEF JInv
  <2>2. Grows(c, val) /\ Counted(val)
    <3>1. Counted(See(w, JoinState)) /\ Grows(c, See(w, JoinState))
      BY <2>1 DEF See, Locking, Grows
    <3>2. QED BY <1>3, <3>1 DEF Grows
  <2>3. CASE store = "postgres"
    <3>1. committed' = committed /\ holder'[JoinState] = w
      BY <2>3 DEF Write, JInv
    <3>2. Nobody \notin Workers BY BranchesAssumption
    <3>3. Locking(c, val, w) BY <2>1, <2>2, <2>3, <3>2 DEF Locking
    <3>4. JInv' BY <1>1, <3>1, <3>3, JInvKept
    <3>5. QED BY <1>3, <3>1, <3>4, GrowthSeen
  <2>4. CASE store = "memory"
    <3>1. committed'[JoinState] = val /\ holder' = holder
      BY <2>4 DEF Write, JInv
    <3>2. h = Nobody BY <2>1, <2>4 DEF Locking
    <3>3. Locking(val, val, h) BY <2>2, <3>2 DEF Locking, Grows
    <3>4. JInv' BY <1>1, <3>1, <3>3, JInvKept
    <3>5. QED BY <1>3, <2>2, <3>1, <3>4, GrowthSeen
  <2>5. QED BY <1>3, <2>3, <2>4 DEF JInv
<1>4. QED BY <1>2, <1>3

\* Commit: what the transaction has written is what everybody reads from now on.
LEMMA Committed ==
    ASSUME JInv, NEW w \in Workers, Commit(w)
    PROVE  JInv' /\ (store # "sqlite" => JoinGrows)
<1> DEFINE c == committed[JoinState]
           d == draft[JoinState]
           h == holder[JoinState]
           g == Released(w)[JoinState]
<1>1. UNCHANGED scenario BY DEF Commit
<1>2. /\ JoinState \in DOMAIN committed' /\ committed'[JoinState] = See(w, JoinState)
      /\ draft' = draft /\ holder' = Released(w)
  BY DEF Commit, JInv
<1>3. /\ JoinState \in DOMAIN Released(w)
      /\ h # w => g = h
      /\ h = w => g \in Workers \cup {Nobody}
  BY ReleasedTo DEF JInv
<1>4. CASE store = "sqlite" BY <1>1, <1>2, <1>3, <1>4, JInvKept DEF JInv
<1>5. CASE store # "sqlite"
  <2>1. Locking(c, d, h) BY <1>5 DEF JInv
  <2>2. CASE h = w
    <3>1. committed'[JoinState] = d BY <1>2, <2>2 DEF See
    <3>2. store # "memory"
      <4>1. Nobody \notin Workers BY BranchesAssumption
      <4>2. QED BY <2>1, <2>2, <4>1 DEF Locking
    <3>3. Locking(d, d, g) BY <1>3, <2>1, <2>2, <3>2 DEF Locking, Grows
    <3>4. JInv' BY <1>1, <1>2, <1>3, <3>1, <3>3, JInvKept DEF JInv
    <3>5. QED BY <1>5, <2>1, <3>1, <3>4, GrowthSeen DEF Locking
  <2>3. CASE h # w
    <3>1. committed'[JoinState] = c BY <1>2, <2>3 DEF See
    <3>2. Locking(c, d, g) BY <1>3, <2>1, <2>3
    <3>3. JInv' BY <1>1, <1>2, <1>3, <3>1, <3>2, JInvKept DEF JInv
    <3>4. QED BY <1>5, <3>1, <3>3, GrowthSeen
  <2>4. QED BY <2>2, <2>3
<1>6. QED BY <1>4, <1>5

\* Postgres aborts a transaction: its drafts are forgotten.
LEMMA Aborted ==
    ASSUME JInv, NEW w \in Workers, DeadlockAbort(w)
    PROVE  JInv' /\ (store # "sqlite" => JoinGrows)
<1> DEFINE c == committed[JoinState]
           d == draft[JoinState]
           h == holder[JoinState]
           g == Released(w)[JoinState]
<1>1. UNCHANGED scenario BY DEF DeadlockAbort
<1>2. /\ JoinState \in DOMAIN draft' /\ draft'[JoinState] = IF h = w THEN c ELSE d
      /\ committed' = committed /\ holder' = Released(w)
  BY DEF DeadlockAbort, JInv
<1>3. /\ JoinState \in DOMAIN Released(w)
      /\ h # w => g = h
      /\ h = w => g \in Workers \cup {Nobody}
  BY ReleasedTo DEF JInv
<1>4. CASE store = "sqlite" BY <1>1, <1>2, <1>3, <1>4, JInvKept DEF JInv
<1>5. CASE store # "sqlite"
  <2>1. Locking(c, d, h) BY <1>5 DEF JInv
  <2>2. Nobody \notin Workers BY BranchesAssumption
  <2>3. Locking(c, IF h = w THEN c ELSE d, g)
    <3>1. CASE h = w BY <1>3, <2>1, <2>2, <3>1 DEF Locking, Grows
    <3>2. CASE h # w BY <1>3, <2>1, <3>2
    <3>3. QED BY <3>1, <3>2
  <2>4. JInv' BY <1>1, <1>2, <1>3, <2>3, JInvKept DEF JInv
  <2>5. QED BY <1>2, <1>5, <2>4, GrowthSeen
<1>6. QED BY <1>4, <1>5

\* ReplaceInJoinWaitFor: the step the branch ends with takes the place of the virtual one.
LEMMA Replaced ==
    ASSUME JInv, NEW w \in Workers, ReplaceInJoinWaitFor(w)
    PROVE  JInv' /\ (store # "sqlite" => JoinGrows)
<1> DEFINE s == Now(w).row
           b == Base(w)
           enters == store # "sqlite"
           c == IF enters /\ See(w, s) = "completed" THEN b.completed \cup {s} ELSE b.completed
           f == IF enters /\ See(w, s) \in {"failed", "rolled_back"} THEN b.failed \cup {s}
                ELSE b.failed
           j == See(w, JoinState)
           val == [virtual |-> b.virtual \ {s}, ready |-> checkJoinReady(c, f),
                   completed |-> IF enters THEN c ELSE j.completed,
                   failed |-> IF enters THEN f ELSE j.failed]
<1>1. UNCHANGED scenario /\ Write(w, JoinState, val) BY Zenon DEF ReplaceInJoinWaitFor
<1>2. ASSUME store # "sqlite", Counted(j) PROVE Counted(val) /\ Grows(j, val)
  <2>1. b = j BY <1>2 DEF Base
  <2>2. /\ val.completed = c /\ val.failed = f /\ val.virtual = b.virtual \ {s}
        /\ val.ready = checkJoinReady(c, f)
    BY <1>2
  <2>3. /\ j.completed \subseteq c /\ j.failed \subseteq f BY <2>1
  <2>4. IsFiniteSet(c) /\ IsFiniteSet(f)
    BY <1>2, <2>1, FS_AddElement DEF Counted
  <2> HIDE DEF c, f, val, b, j
  <2>5. QED BY <2>1, <2>2, <2>3, <2>4 DEF Counted, Grows
<1> HIDE DEF val
<1>3. store # "sqlite" => Counted(j)
  BY DEF JInv, Locking, See
<1>4. QED BY <1>1, <1>2, <1>3, JoinWritten

\* UpdateJoinState: the report of a branch is added.
LEMMA Updated ==
    ASSUME JInv, NEW w \in Workers, UpdateJoinState(w)
    PROVE  JInv' /\ (store # "sqlite" => JoinGrows)
<1> DEFINE s == Now(w).row
           b == Base(w)
           c == IF Now(w).val = "completed" THEN b.completed \cup {s} ELSE b.completed
           f == IF Now(w).val = "failed" THEN b.failed \cup {s} ELSE b.failed
           j == See(w, JoinState)
           val == [virtual |-> j.virtual, completed |-> c, failed |-> f,
                   ready |-> checkJoinReady(c, f)]
<1>1. UNCHANGED scenario /\ Write(w, JoinState, val) BY Zenon DEF UpdateJoinState
<1>2. ASSUME store # "sqlite", Counted(j) PROVE Counted(val) /\ Grows(j, val)
  <2>1. b = j BY <1>2 DEF Base
  <2>2. /\ val.completed = c /\ val.failed = f /\ val.virtual = j.virtual
        /\ val.ready = checkJoinReady(c, f)
    OBVIOUS
  <2>3. /\ j.completed \subseteq c /\ j.failed \subseteq f BY <2>1
  <2>4. IsFiniteSet(c) /\ IsFiniteSet(f)
    BY <1>2, <2>1, FS_AddElement DEF Counted
  <2> HIDE DEF c, f, val, b, j
  <2>5. QED BY <2>1, <2>2, <2>3, <2>4 DEF Counted, Grows
<1> HIDE DEF val
<1>3. store # "sqlite" => Counted(j)
  BY DEF JInv, Locking, See
<1>4. QED BY <1>1, <1>2, <1>3, JoinWritten

\* CreateStep writes a row of the steps table.
LEMMA Created ==
    ASSUME JInv, NEW w \in Workers, CreateStep(w)
    PROVE  JInv' /\ (store # "sqlite" => JoinGrows)
<1> DEFINE r == NewRow(Now(w).row)
<1>1. UNCHANGED scenario /\ Write(w, r, "pending") BY DEF CreateStep
<1>2. r \in Steps \cup JRows BY NewRowIs
<1>3. r # JoinState BY <1>2, BranchesAssumption DEF JInv, JRows
<1>4. QED BY <1>1, <1>3, OtherRowWritten

\* At first nothing is reported and nothing is locked.
LEMMA InitLocking == Init => JInv
<1> SUFFICES ASSUME Init PROVE JInv OBVIOUS
<1>1. PICK x \in Scenarios :
        /\ store = x.store /\ heads = x.heads /\ next = x.next
        /\ virtual = x.virtual /\ strategy = x.strategy
  BY DEF Init
<1>2. /\ store \in {"postgres", "sqlite", "memory"}
      /\ heads \in Seq(Steps) /\ heads # <<>>
      /\ JoinState \notin Steps /\ JoinState \notin {Fork, Inst}
  BY <1>1, BranchesAssumption DEF Steps
<1>3. Len(heads) \in Nat /\ Len(heads) # 0 BY <1>2
<1>4. JoinState \notin Heads BY <1>2 DEF Heads, ToSet
<1> DEFINE empty == [virtual |-> virtual, completed |-> {}, failed |-> {}, ready |-> FALSE]
<1>5. /\ JoinState \in DOMAIN committed /\ committed[JoinState] = empty
      /\ draft = committed /\ JoinState \in DOMAIN holder /\ holder[JoinState] = Nobody
  BY <1>2, <1>4 DEF Init
<1>6. Counted(empty)
  <2>1. Cardinality({}) = 0 /\ IsFiniteSet({}) BY FS_EmptySet
  <2>2. QED BY <1>3, <2>1 DEF Counted, checkJoinReady
<1>7. QED BY <1>2, <1>3, <1>5, <1>6 DEF JInv, Locking, Grows

\* Every statement keeps the invariant and what is committed of the join state.
LEMMA NextLocking ==
    OInv /\ JInv /\ [Next]_vars => JInv' /\ (store # "sqlite" => JoinGrows)
<1> SUFFICES ASSUME OInv, JInv, [Next]_vars PROVE JInv' /\ (store # "sqlite" => JoinGrows)
  OBVIOUS
<1>1. ASSUME UNCHANGED <<scenario, tables>> PROVE JInv' /\ (store # "sqlite" => JoinGrows)
  <2>1. committed' = committed /\ draft' = draft /\ holder' = holder BY <1>1 DEF tables
  <2>2. JInv' BY <1>1, <2>1, JInvKept DEF JInv
  <2>3. QED BY <2>1, <2>2, GrowthSeen
<1>2. ASSUME NEW w \in Workers, UpdateStep(w)
      PROVE  JInv' /\ (store # "sqlite" => JoinGrows)
  <2>1. wk[w].todo # <<>> /\ UNCHANGED scenario /\ Write(w, Now(w).row, Now(w).val)
    BY <1>2 DEF UpdateStep, At
  <2>2. Now(w).row # JoinState BY <2>1, AtStatement
  <2>3. QED BY <2>1, <2>2, OtherRowWritten
<1>3. ASSUME NEW w \in Workers,
             \/ EnqueueStep(w) \/ SelectJoinState(w) \/ SkipNotification(w) \/ JoinIsReady(w)
             \/ hasUnfinishedSteps(w) \/ completeWorkflow(w)
             \/ enqueueCompletedStepsForRollback(w)
             \/ hasStepsInCompensation(w) \/ stopParallelBranchesInFork(w)
             \/ rollbackToSavePointOrRoot(w)
             \/ \E ok \in BOOLEAN : ExecuteTask(w, ok)
             \/ executeJoin(w) \/ executeCompensationStep(w) \/ AfterCompensation(w)
             \/ Polls(w)
      PROVE  UNCHANGED <<scenario, tables>>
  BY <1>3, Zenon DEF EnqueueStep, SelectJoinState, SkipNotification, JoinIsReady,
     hasUnfinishedSteps, completeWorkflow, enqueueCompletedStepsForRollback,
     hasStepsInCompensation, stopParallelBranchesInFork, rollbackToSavePointOrRoot,
     ExecuteTask, executeJoin, executeCompensationStep, AfterCompensation, Polls, DequeueStep
<1>4. CASE UNCHANGED vars BY <1>1, <1>4 DEF vars
<1>5. CASE Next
  <2>1. PICK w \in Workers : Goes(w) \/ Polls(w) \/ DeadlockAbort(w) BY <1>5 DEF Next
  <2>2. QED BY <1>1, <1>2, <1>3, <2>1, Replaced, Updated, Created, Committed, Aborted DEF Goes
<1>6. QED BY <1>4, <1>5

\* No report of a branch to UpdateJoinState or ReplaceInJoinWaitFor is ever lost and a join
\* that is ready stays ready, on Postgres with its READ COMMITTED transactions and in the
\* memory store, for any number of branches and workers and whatever deadlocks are broken.
THEOREM ReportsAreKept == Spec => ReportsKept
<1>1. Init => OInv /\ JInv BY InitOInv, InitLocking
<1>2. OInv /\ JInv /\ [Next]_vars => OInv' /\ JInv' BY NextOInv, NextLocking
<1>3. OInv /\ JInv /\ [Next]_vars => [store # "sqlite" => JoinGrows]_vars BY NextLocking
<1>4. QED BY <1>1, <1>2, <1>3, PTL DEF Spec, ReportsKept
=============================================================================
