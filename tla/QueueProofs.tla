---------------------------- MODULE QueueProofs ----------------------------
(***************************************************************************)
(* Proofs about the order of the queue, for any number of items and of     *)
(* workers, any priorities, delays, aging rate and retry policy: no item   *)
(* is overtaken by a later one that is no more urgent (NotOvertaken), and  *)
(* retries back off (BackoffHolds).                                        *)
(***************************************************************************)
EXTENDS QueueProperties, FiniteSetTheorems, FunctionTheorems, SequenceTheorems, TLAPS

----------------------------------------------------------------------------
\* Powers of two, from the number of subsets of a set.

\* 2^n is the number of subsets of 1..n: the provers know nothing of exponentiation, and
\* the library knows this.
LEMMA PowerIsCardinality ==
    ASSUME NEW n \in Nat
    PROVE  /\ IsFiniteSet(SUBSET (1..n))
           /\ Cardinality(SUBSET (1..n)) = 2^n
  <1>1. IsFiniteSet(1..n) /\ Cardinality(1..n) = n
    BY FS_Interval
  <1> QED BY <1>1, FS_SUBSET

\* A power of two is a positive number.
LEMMA PowerIsPositive ==
    ASSUME NEW n \in Nat
    PROVE  2^n \in Nat /\ 2^n >= 1
  <1>1. Cardinality(SUBSET (1..n)) \in Nat
    BY PowerIsCardinality, FS_CardinalityType
  <1>2. SUBSET (1..n) # {}
    OBVIOUS
  <1>3. Cardinality(SUBSET (1..n)) # 0
    BY <1>2, PowerIsCardinality, FS_EmptySet
  <1> QED BY <1>1, <1>3, PowerIsCardinality

\* The subsets of 1..n+1 are those of 1..n, with and without n+1.
LEMMA PowerDoubles ==
    ASSUME NEW n \in Nat
    PROVE  2^(n + 1) = 2^n + 2^n
  <1> DEFINE S == SUBSET (1..n)
             T == {A \cup {n + 1} : A \in S}
             f == [A \in S |-> A \cup {n + 1}]
  <1>1. f \in Bijection(S, T)
    <2>1. f \in [S -> T]
      OBVIOUS
    <2>2. \A A, B \in S : f[A] = f[B] => A = B
      OBVIOUS
    <2>3. \A t \in T : \E A \in S : f[A] = t
      OBVIOUS
    <2> QED BY <2>1, <2>2, <2>3, Fun_IsBij
  <1>2. IsFiniteSet(T) /\ Cardinality(T) = Cardinality(S)
    BY <1>1, PowerIsCardinality, FS_Bijection, Fun_ExistsBij
  <1>3. S \cap T = {}
    OBVIOUS
  <1>4. SUBSET (1..(n + 1)) = S \cup T
    <2>1. ASSUME NEW A \in SUBSET (1..(n + 1)), A \notin S
          PROVE  A \in T
      <3>1. A \ {n + 1} \in S
        OBVIOUS
      <3>2. n + 1 \in A
        BY <2>1
      <3>3. A = (A \ {n + 1}) \cup {n + 1}
        BY <3>2
      <3> QED BY <3>1, <3>3
    <2>2. 1..n \subseteq 1..(n + 1) /\ n + 1 \in 1..(n + 1)
      OBVIOUS
    <2> QED BY <2>1, <2>2
  <1>5. Cardinality(S \cup T) = Cardinality(S) + Cardinality(T) - Cardinality(S \cap T)
    BY <1>2, PowerIsCardinality, FS_Union
  <1>6. Cardinality(S \cap T) = 0
    BY <1>3, FS_EmptySet
  <1>7. Cardinality(S) = 2^n
    BY PowerIsCardinality
  <1>8. Cardinality(SUBSET (1..(n + 1))) = 2^(n + 1)
    <2>1. n + 1 \in Nat
      OBVIOUS
    <2> QED BY <2>1, PowerIsCardinality, Zenon
  <1>9. 2^(n + 1) = Cardinality(S \cup T)
    BY <1>4, <1>8, Zenon
  <1>10. 2^n \in Nat
    BY PowerIsPositive
  <1>11. Cardinality(S) \in Nat /\ Cardinality(T) = Cardinality(S) /\ Cardinality(S) = 2^n
    BY <1>2, <1>7, <1>10, Zenon
  <1> HIDE DEF S, T
  <1> QED BY <1>5, <1>6, <1>9, <1>11

----------------------------------------------------------------------------
\* InsertAt and RemoveAt

\* What InsertAt returns, position by position.
LEMMA InsertAtProperties ==
    ASSUME NEW T, NEW q \in Seq(T), NEW x \in T, NEW n \in 1..(Len(q) + 1)
    PROVE  /\ InsertAt(q, n, x) \in Seq(T) /\ Len(InsertAt(q, n, x)) = Len(q) + 1
           /\ \A k \in 1..(Len(q) + 1) :
                InsertAt(q, n, x)[k] = IF k < n THEN q[k] ELSE IF k = n THEN x ELSE q[k - 1]
  <1> DEFINE a == SubSeq(q, 1, n - 1)
             b == SubSeq(q, n, Len(q))
  <1>0. Len(q) \in Nat /\ \A k \in 1..Len(q) : q[k] \in T
    OBVIOUS
  <1>1. a \in Seq(T) /\ Len(a) = n - 1 /\ \A k \in 1..(n - 1) : a[k] = q[k]
    BY <1>0, SubSeqProperties
  <1>2. b \in Seq(T) /\ Len(b) = Len(q) - n + 1
        /\ \A k \in 1..(Len(q) - n + 1) : b[k] = q[n + k - 1]
    BY <1>0, SubSeqProperties
  <1>3. <<x>> \in Seq(T) /\ Len(<<x>>) = 1 /\ <<x>>[1] = x
    OBVIOUS
  <1> DEFINE c == a \o <<x>>
  <1> HIDE DEF a, b
  <1>4. c \in Seq(T) /\ Len(c) = n /\ \A k \in 1..n : c[k] = IF k < n THEN q[k] ELSE x
    BY <1>1, <1>3, ConcatProperties
  <1> HIDE DEF c
  <1>5. c \o b \in Seq(T) /\ Len(c \o b) = Len(q) + 1
        /\ \A k \in 1..(Len(q) + 1) : (c \o b)[k] = IF k <= n THEN c[k] ELSE b[k - n]
    <2>1. Len(c) + Len(b) = Len(q) + 1
      BY <1>0, <1>2, <1>4
    <2>2. c \o b \in Seq(T) /\ Len(c \o b) = Len(c) + Len(b)
          /\ \A k \in 1..(Len(c) + Len(b)) :
               (c \o b)[k] = IF k <= Len(c) THEN c[k] ELSE b[k - Len(c)]
      BY <1>2, <1>4, ConcatProperties
    <2> QED BY <1>4, <2>1, <2>2
  <1>6. InsertAt(q, n, x) = c \o b
    BY DEF InsertAt, a, b, c
  <1>7. ASSUME NEW k \in 1..(Len(q) + 1)
        PROVE  (c \o b)[k] = IF k < n THEN q[k] ELSE IF k = n THEN x ELSE q[k - 1]
    BY <1>0, <1>2, <1>4, <1>5
  <1> QED BY <1>5, <1>6, <1>7

\* What RemoveAt returns, position by position.
LEMMA RemoveAtProperties ==
    ASSUME NEW T, NEW q \in Seq(T), NEW n \in 1..Len(q)
    PROVE  /\ RemoveAt(q, n) \in Seq(T) /\ Len(RemoveAt(q, n)) = Len(q) - 1
           /\ \A k \in 1..(Len(q) - 1) :
                RemoveAt(q, n)[k] = IF k < n THEN q[k] ELSE q[k + 1]
  <1> DEFINE a == SubSeq(q, 1, n - 1)
             b == SubSeq(q, n + 1, Len(q))
  <1>0. Len(q) \in Nat /\ \A k \in 1..Len(q) : q[k] \in T
    OBVIOUS
  <1>1. a \in Seq(T) /\ Len(a) = n - 1 /\ \A k \in 1..(n - 1) : a[k] = q[k]
    BY <1>0, SubSeqProperties
  <1>2. b \in Seq(T) /\ Len(b) = Len(q) - n /\ \A k \in 1..(Len(q) - n) : b[k] = q[n + k]
    BY <1>0, SubSeqProperties
  <1> HIDE DEF a, b
  <1>3. a \o b \in Seq(T) /\ Len(a \o b) = Len(q) - 1
        /\ \A k \in 1..(Len(q) - 1) : (a \o b)[k] = IF k <= n - 1 THEN a[k] ELSE b[k - n + 1]
    BY <1>0, <1>1, <1>2, ConcatProperties
  <1>4. RemoveAt(q, n) = a \o b
    BY DEF RemoveAt, a, b
  <1>5. ASSUME NEW k \in 1..(Len(q) - 1)
        PROVE  (a \o b)[k] = IF k < n THEN q[k] ELSE q[k + 1]
    <2>1. CASE k < n
      BY <1>0, <1>1, <1>3, <2>1
    <2>2. CASE k >= n
      <3>1. k - n + 1 \in 1..(Len(q) - n) /\ n + (k - n + 1) = k + 1 /\ ~(k <= n - 1)
        BY <1>0, <2>2
      <3>2. (a \o b)[k] = b[k - n + 1]
        BY <1>3, <3>1
      <3>3. b[k - n + 1] = q[n + (k - n + 1)]
        BY <1>2, <3>1
      <3> QED BY <3>1, <3>2, <3>3, <2>2
    <2>3. k < n \/ k >= n
      BY <1>0
    <2> QED BY <2>1, <2>2, <2>3
  <1> QED BY <1>3, <1>4, <1>5


----------------------------------------------------------------------------
\* The queue as a sequence

Ids  == UNION {x.ids : x \in Scenarios}
Item == [id : Ids, kind : Kinds, prio : 0..Cap, wait : Int, by : Workers \cup {Nobody},
         tries : Nat]

\* The earliest scheduled_at first, and every identity once.
Sorted(q)   == \A k, l \in 1..Len(q) : k < l => q[k].wait >= q[l].wait
Distinct(q) == \A k, l \in 1..Len(q) : q[k].id = q[l].id => k = l
Sound(q)    == q \in Seq(Item) /\ Sorted(q) /\ Distinct(q)

\* The values of the variables, with a sound queue: the inductive invariant.
QInv ==
    /\ store \in {"postgres", "sqlite", "memory"}
    /\ rate \in Nat /\ strategy \in {"exponential", "linear", "fixed"}
    /\ kinds \subseteq Kinds /\ ids \subseteq Ids
    /\ Sound(queue)

\* EnqueueStep puts an item where the order of the queue wants it.
LEMMA InsertSound ==
    ASSUME NEW q, Sound(q), NEW x \in Item, \A k \in 1..Len(q) : q[k].id # x.id,
           NEW r \in Insert(q, x)
    PROVE  /\ Sound(r) /\ Len(r) = Len(q) + 1
           /\ \E p \in 1..Len(r) : r[p] = x
           /\ \A m \in 1..Len(r) : r[m] = x \/ \E k \in 1..Len(q) : r[m] = q[k]
  <1>1. PICK n \in 1..(Len(q) + 1) :
          /\ r = InsertAt(q, n, x)
          /\ \A k \in 1..(n - 1) : q[k].wait >= x.wait
          /\ \A k \in n..Len(q) : q[k].wait <= x.wait
    BY DEF Insert
  <1>2. q \in Seq(Item) /\ Len(q) \in Nat
    BY DEF Sound
  <1>3. /\ r \in Seq(Item) /\ Len(r) = Len(q) + 1
        /\ \A k \in 1..(Len(q) + 1) :
             r[k] = IF k < n THEN q[k] ELSE IF k = n THEN x ELSE q[k - 1]
    <2>1. /\ InsertAt(q, n, x) \in Seq(Item) /\ Len(InsertAt(q, n, x)) = Len(q) + 1
          /\ \A k \in 1..(Len(q) + 1) :
               InsertAt(q, n, x)[k] = IF k < n THEN q[k] ELSE IF k = n THEN x ELSE q[k - 1]
      BY <1>2, InsertAtProperties
    <2> QED BY <1>1, <2>1, Zenon
  <1>4. \A k \in 1..Len(q) : q[k].wait \in Int
    <2>1. \A k \in 1..Len(q) : q[k] \in Item
      BY <1>2
    <2> QED BY <2>1 DEF Item
  <1>5. x.wait \in Int
    BY DEF Item
  <1>6. Sorted(r)
    <2> SUFFICES ASSUME NEW k \in 1..(Len(q) + 1), NEW l \in 1..(Len(q) + 1), k < l
                 PROVE  r[k].wait >= r[l].wait
      BY <1>3 DEF Sorted
    <2>1. \A a, b \in 1..Len(q) : a < b => q[a].wait >= q[b].wait
      BY DEF Sound, Sorted
    <2>2. CASE l < n
      BY <1>2, <1>3, <2>1, <2>2
    <2>3. CASE l = n
      BY <1>1, <1>2, <1>3, <2>3
    <2>4. CASE l > n /\ k < n
      <3>1. k \in 1..Len(q) /\ l - 1 \in 1..Len(q) /\ k \in 1..(n - 1) /\ l - 1 \in n..Len(q)
        BY <1>2, <2>4
      <3>2. q[k].wait >= x.wait /\ q[l - 1].wait <= x.wait
        BY <1>1, <3>1
      <3> QED BY <1>3, <1>4, <1>5, <2>4, <3>1, <3>2
    <2>5. CASE l > n /\ k = n
      <3>1. l - 1 \in n..Len(q) /\ l - 1 \in 1..Len(q)
        BY <1>2, <2>5
      <3> QED BY <1>1, <1>3, <1>4, <1>5, <2>5, <3>1
    <2>6. CASE k > n
      <3>1. k - 1 \in 1..Len(q) /\ l - 1 \in 1..Len(q) /\ k - 1 < l - 1
        BY <1>2, <2>6
      <3>2. r[k] = q[k - 1] /\ r[l] = q[l - 1]
        BY <1>3, <2>6
      <3> QED BY <2>1, <3>1, <3>2
    <2> QED BY <1>2, <2>2, <2>3, <2>4, <2>5, <2>6
  <1>7. \A m \in 1..(Len(q) + 1) : IF m = n THEN r[m] = x
             ELSE LET k == IF m < n THEN m ELSE m - 1 IN k \in 1..Len(q) /\ r[m] = q[k]
    BY <1>2, <1>3
  <1>8. Distinct(r)
    <2> SUFFICES ASSUME NEW k \in 1..(Len(q) + 1), NEW l \in 1..(Len(q) + 1), r[k].id = r[l].id
                 PROVE  k = l
      BY <1>3 DEF Distinct
    <2>1. \A a, b \in 1..Len(q) : q[a].id = q[b].id => a = b
      BY DEF Sound, Distinct
    <2>2. CASE k = n \/ l = n
      BY <1>7, <2>2
    <2>3. CASE k # n /\ l # n
      BY <1>2, <1>7, <2>1, <2>3
    <2> QED BY <2>2, <2>3
  <1>9. Sound(r)
    BY <1>3, <1>6, <1>8 DEF Sound
  <1> QED BY <1>2, <1>3, <1>7, <1>9

\* r is the sound queue q without its n-th item.
Shortened(r, q, n) ==
    /\ Sound(r) /\ Len(r) = Len(q) - 1
    /\ \A m \in 1..Len(r) : \E k \in 1..Len(q) : k # n /\ r[m] = q[k]
    /\ \A m \in 1..Len(r) : r[m].id # q[n].id

\* What is left when an item is taken out is in order.
LEMMA RemoveSound ==
    ASSUME NEW q, Sound(q), NEW n \in 1..Len(q)
    PROVE  Shortened(RemoveAt(q, n), q, n)
  <1> DEFINE r == RemoveAt(q, n)
             from(m) == IF m < n THEN m ELSE m + 1
  <1>1. q \in Seq(Item) /\ Len(q) \in Nat
    BY DEF Sound
  <1>2. /\ r \in Seq(Item) /\ Len(r) = Len(q) - 1
        /\ \A k \in 1..(Len(q) - 1) : r[k] = IF k < n THEN q[k] ELSE q[k + 1]
    BY <1>1, RemoveAtProperties
  <1> HIDE DEF r
  <1>3. \A m \in 1..Len(r) : from(m) \in 1..Len(q) /\ from(m) # n /\ r[m] = q[from(m)]
    BY <1>1, <1>2
  <1>4. \A k, l \in 1..Len(r) : (k < l => from(k) < from(l)) /\ (from(k) = from(l) => k = l)
    BY <1>1, <1>2
  <1> HIDE DEF from
  <1>5. Sorted(r)
    BY <1>3, <1>4 DEF Sound, Sorted
  <1>6. Distinct(r) /\ \A m \in 1..Len(r) : r[m].id # q[n].id
    BY <1>3, <1>4 DEF Sound, Distinct
  <1>7. Sound(r)
    BY <1>2, <1>5, <1>6 DEF Sound
  <1>8. \A m \in 1..Len(r) : \E k \in 1..Len(q) : k # n /\ r[m] = q[k]
    BY <1>3
  <1>9. Shortened(r, q, n)
    BY <1>2, <1>6, <1>7, <1>8 DEF Shortened
  <1> QED BY <1>9 DEF r

\* Items of a sound queue.
LEMMA ItemTypes ==
    ASSUME NEW q, Sound(q), NEW n \in 1..Len(q)
    PROVE  /\ q[n] \in Item /\ q[n].wait \in Int /\ q[n].prio \in 0..Cap /\ q[n].tries \in Nat
           /\ q[n].id \in Ids /\ q[n].kind \in Kinds /\ q[n].by \in Workers \cup {Nobody}
  <1>1. q[n] \in Item
    BY DEF Sound
  <1> QED BY <1>1 DEF Item

\* The queue is a function on its positions.
LEMMA QueueDomain == ASSUME QInv PROVE DOMAIN queue = 1..Len(queue) /\ Len(queue) \in Nat
  BY DEF QInv, Sound

\* A change of one field of one item that says nothing about its place.
LEMMA FieldSound ==
    ASSUME NEW q, Sound(q), NEW n \in 1..Len(q), NEW b \in Workers \cup {Nobody}
    PROVE  LET r == [q EXCEPT ![n].by = b]
           IN  /\ Sound(r) /\ Len(r) = Len(q)
               /\ \A m \in 1..Len(q) : /\ r[m].id = q[m].id /\ r[m].tries = q[m].tries
                                       /\ r[m].wait = q[m].wait
                                       /\ m # n => r[m] = q[m]
               /\ r[n].by = b
  <1> DEFINE r == [q EXCEPT ![n].by = b]
  <1>0. q \in Seq(Item) /\ Len(q) \in Nat /\ \A m \in 1..Len(q) : q[m] \in Item
    BY DEF Sound
  <1>1. [q[n] EXCEPT !.by = b] \in Item
    BY <1>0 DEF Item
  <1>2. r \in Seq(Item) /\ Len(r) = Len(q)
    BY <1>0, <1>1
  <1>3. \A m \in 1..Len(q) : r[m] = IF m = n THEN [q[n] EXCEPT !.by = b] ELSE q[m]
    BY <1>0
  <1> HIDE DEF r
  <1>4. \A m \in 1..Len(q) : /\ r[m].id = q[m].id /\ r[m].tries = q[m].tries
                             /\ r[m].wait = q[m].wait
                             /\ m # n => r[m] = q[m]
    BY <1>0, <1>3 DEF Item
  <1>5. r[n].by = b
    BY <1>0, <1>3 DEF Item
  <1>6. Sound(r)
    BY <1>2, <1>4 DEF Sound, Sorted, Distinct
  <1> QED BY <1>2, <1>4, <1>5, <1>6 DEF r

\* Item n is taken out and another one with its identity put in.
LEMMA ReplaceSound ==
    ASSUME QInv, NEW n \in 1..Len(queue), NEW x \in Item, x.id = queue[n].id,
           NEW r \in Insert(Removed(n), x)
    PROVE  /\ Sound(r) /\ Len(r) = Len(queue)
           /\ \E p \in 1..Len(r) : r[p] = x
           /\ \A m \in 1..Len(r) :
                r[m] = x \/ \E k \in 1..Len(queue) : k # n /\ r[m] = queue[k]
  <1>1. Sound(queue) /\ Len(queue) \in Nat
    BY QueueDomain DEF QInv
  <1> DEFINE q == RemoveAt(queue, n)
  <1>2. Shortened(q, queue, n)
    BY <1>1, RemoveSound
  <1>3. r \in Insert(q, x)
    BY DEF Removed
  <1> HIDE DEF q
  <1>4. /\ Sound(q) /\ Len(q) = Len(queue) - 1
        /\ \A m \in 1..Len(q) : \E k \in 1..Len(queue) : k # n /\ q[m] = queue[k]
        /\ \A m \in 1..Len(q) : q[m].id # queue[n].id
    BY <1>2 DEF Shortened
  <1>5. /\ Sound(r) /\ Len(r) = Len(q) + 1
        /\ \E p \in 1..Len(r) : r[p] = x
        /\ \A m \in 1..Len(r) : r[m] = x \/ \E k \in 1..Len(q) : r[m] = q[k]
    BY <1>4, <1>3, InsertSound
  <1>6. Len(r) = Len(queue)
    BY <1>1, <1>4, <1>5
  <1>7. ASSUME NEW m \in 1..Len(r), r[m] # x
        PROVE  \E k \in 1..Len(queue) : k # n /\ r[m] = queue[k]
    BY <1>4, <1>5, <1>7
  <1> QED BY <1>5, <1>6, <1>7

----------------------------------------------------------------------------
\* Steps

\* The item of a compensation, the one with which it is retried, and the one that is put
\* back for another process.
Compensation(id, d, attempt) ==
    [id |-> id, kind |-> "failing", prio |-> Cap,
     wait |-> Elapsed(-(IF d = 0 THEN OnFailureDelay ELSE d)), by |-> Nobody,
     tries |-> attempt]
Retried(n, d) == Compensation(queue[n].id, d, CompensationRetryCount(n) + 1)
Rescheduled(n, d) == [queue[n] EXCEPT !.wait = -d, !.by = Nobody]

\* Time that has passed is a number.
LEMMA ElapsedType == ASSUME NEW t \in Int PROVE Elapsed(t) \in Int
  BY QueueAssumption DEF Elapsed, Aged

\* A retry delay is a number, wrapped or not.
LEMMA DelayType ==
    ASSUME NEW s, NEW a \in Nat, NEW d \in CalculateRetryDelay(s, BaseDelay, a)
    PROVE  d \in Int
  <1>0. BaseDelay \in Nat /\ Width \in Nat /\ Width - 1 \in Nat
    BY QueueAssumption
  <1>1. 2^a \in Nat /\ 2^Width \in Nat /\ 2^Width >= 1 /\ 2^(Width - 1) \in Nat
    BY <1>0, PowerIsPositive
  <1>2. MaxDuration \in Int
    BY <1>1 DEF MaxDuration
  <1>3. ASSUME NEW x \in Int PROVE Wrapped(x) \in Int
    <2>1. (x + MaxDuration + 1) % 2^Width \in Int
      BY <1>1, <1>2
    <2> QED BY <1>2, <2>1 DEF Wrapped
  <1>4. BaseDelay * 2^a \in Int /\ BaseDelay * a \in Int
    BY <1>0, <1>1
  <1>5. CASE s = "exponential"
    BY <1>2, <1>4, <1>5 DEF CalculateRetryDelay, FromFloat
  <1>6. CASE s = "linear"
    BY <1>3, <1>4, <1>6 DEF CalculateRetryDelay
  <1>7. CASE s # "exponential" /\ s # "linear"
    BY <1>0, <1>7 DEF CalculateRetryDelay
  <1> QED BY <1>5, <1>6, <1>7

\* What is read of a counter is a number.
LEMMA CountType ==
    ASSUME QInv, NEW n \in 1..Len(queue)
    PROVE  /\ CompensationRetryCount(n) \in Nat /\ CompensationRetryCount(n) + 1 \in Nat
           /\ queue[n].id \in Ids
  <1>1. queue[n].tries \in Nat /\ queue[n].id \in Ids
    BY ItemTypes DEF QInv
  <1> QED BY <1>1 DEF CompensationRetryCount

\* The item of a compensation is an item.
LEMMA CompensationType ==
    ASSUME NEW id \in Ids, NEW attempt \in Nat,
           NEW d \in CalculateRetryDelay(strategy, BaseDelay, attempt)
    PROVE  d \in Int /\ Compensation(id, d, attempt) \in Item
  <1>1. d \in Int
    BY DelayType
  <1>2. Elapsed(-(IF d = 0 THEN OnFailureDelay ELSE d)) \in Int
    <2>1. -(IF d = 0 THEN OnFailureDelay ELSE d) \in Int
      BY <1>1, QueueAssumption
    <2> QED BY <2>1, ElapsedType
  <1> QED BY <1>1, <1>2, QueueAssumption DEF Compensation, Item, Kinds

\* An item that is retried after a delay is one, with the identity of the old one.
LEMMA RetriedType ==
    ASSUME QInv, NEW n \in 1..Len(queue),
           NEW d \in CalculateRetryDelay(strategy, BaseDelay, CompensationRetryCount(n) + 1)
    PROVE  /\ d \in Int /\ Retried(n, d) \in Item
           /\ Retried(n, d).id = queue[n].id /\ Retried(n, d).by = Nobody
           /\ Retried(n, d).tries = CompensationRetryCount(n) + 1
           /\ Retried(n, d).wait = Elapsed(-(IF d = 0 THEN OnFailureDelay ELSE d))
  <1>1. d \in Int /\ Retried(n, d) \in Item
    BY CountType, CompensationType DEF Retried
  <1> QED BY <1>1 DEF Retried, Compensation

\* What is put into the queue for a compensation.
LEMMA CompensationItems ==
    ASSUME NEW q, NEW id, NEW attempt, NEW r \in EnqueueCompensation(q, id, attempt)
    PROVE  \E d \in CalculateRetryDelay(strategy, BaseDelay, attempt) :
             r \in Insert(q, Compensation(id, d, attempt))
  BY DEF EnqueueCompensation, EnqueueStep, Compensation

\* An item that is put off by a cooldown is an item.
LEMMA RescheduledType ==
    ASSUME QInv, NEW n \in 1..Len(queue), NEW d \in jitteredCooldown
    PROVE  d \in Int /\ Rescheduled(n, d) \in Item
  <1>1. queue[n] \in Item
    BY ItemTypes DEF QInv
  <1>2. d \in Int
    BY QueueAssumption DEF jitteredCooldown
  <1>3. -d \in Int
    BY <1>2
  <1>4. ASSUME NEW x \in Item, NEW t \in Int
        PROVE  [x EXCEPT !.wait = t, !.by = Nobody] \in Item
    BY DEF Item
  <1> QED BY <1>1, <1>2, <1>3, <1>4 DEF Rescheduled


\* What a step does to the queue: nothing; time passes; an item arrives; one is claimed or
\* released; one is taken out; or one is replaced by a later one of the same identity.
LEMMA QueueSteps ==
    ASSUME QInv, [Next]_vars
    PROVE  /\ UNCHANGED fixed
           /\ \/ UNCHANGED queue
              \/ Tick
              \/ \E x \in Item : x.id \notin Used /\ queue' \in Insert(queue, x)
              \/ \E w \in Workers : DequeueStep(w)
              \/ \E n \in 1..Len(queue) :
                   \/ queue' = RemoveAt(queue, n)
                   \/ queue[n].kind = "remote" /\ queue' = [queue EXCEPT ![n].by = Nobody]
                   \/ \E d \in jitteredCooldown :
                        /\ queue[n].by # Nobody /\ queue[n].kind = "remote"
                        /\ queue' \in Insert(Removed(n), Rescheduled(n, d))
                   \/ \E d \in CalculateRetryDelay(strategy, BaseDelay, CompensationRetryCount(n) + 1) :
                        queue[n].by # Nobody /\ queue' \in Insert(Removed(n), Retried(n, d))
  <1>0. DOMAIN queue = 1..Len(queue)
    BY QueueDomain
  <1>1. CASE UNCHANGED vars
    BY <1>1 DEF vars
  <1>2. CASE Tick
    BY <1>2 DEF Tick
  <1>3. CASE Arrives
    <2>1. PICK id \in ids, kind \in kinds :
            \/ Rollback(id)
            \/ \E prio \in Priorities, delay \in Delays : Arrive(id, kind, prio, delay)
      BY <1>3 DEF Arrives
    <2>2. ASSUME NEW prio \in Priorities, NEW delay \in Delays, Arrive(id, kind, prio, delay)
          PROVE  /\ UNCHANGED fixed
                 /\ \E x \in Item : x.id \notin Used /\ queue' \in Insert(queue, x)
      <3> DEFINE x == [id |-> id, kind |-> kind, prio |-> prio, wait |-> Elapsed(-delay),
                       by |-> Nobody, tries |-> 0]
      <3>1. Elapsed(-delay) \in Int
        <4>1. -delay \in Int
          BY QueueAssumption
        <4> QED BY <4>1, ElapsedType
      <3>2. x \in Item
        BY <3>1, QueueAssumption DEF QInv, Item
      <3>3. x.id \notin Used /\ queue' \in Insert(queue, x) /\ UNCHANGED fixed
        BY <2>2 DEF Arrive, EnqueueStep
      <3> QED BY <3>2, <3>3
    <2>3. ASSUME Rollback(id)
          PROVE  /\ UNCHANGED fixed
                 /\ \E x \in Item : x.id \notin Used /\ queue' \in Insert(queue, x)
      <3>1. id \notin Used /\ queue' \in EnqueueCompensation(queue, id, 1) /\ UNCHANGED fixed
        BY <2>3 DEF Rollback
      <3>2. PICK d \in CalculateRetryDelay(strategy, BaseDelay, 1) :
              queue' \in Insert(queue, Compensation(id, d, 1))
        BY <3>1, CompensationItems
      <3>3. Compensation(id, d, 1) \in Item
        BY CompensationType DEF QInv
      <3>4. Compensation(id, d, 1).id = id
        BY DEF Compensation
      <3> QED BY <3>1, <3>2, <3>3, <3>4
    <2> QED BY <2>1, <2>2, <2>3
  <1>4. ASSUME NEW w \in Workers, DequeueStep(w)
        PROVE  UNCHANGED fixed
    BY <1>4 DEF DequeueStep
  <1>5. ASSUME NEW w \in Workers, NEW n \in DOMAIN queue,
               SkipMissingHandler(w, n) \/ Execute(w, n) \/ Retry(w, n)
        PROVE  /\ UNCHANGED fixed
               /\ \/ queue' = RemoveAt(queue, n)
                  \/ queue[n].kind = "remote" /\ queue' = [queue EXCEPT ![n].by = Nobody]
                  \/ \E d \in jitteredCooldown :
                       /\ queue[n].by # Nobody /\ queue[n].kind = "remote"
                       /\ queue' \in Insert(Removed(n), Rescheduled(n, d))
                  \/ \E d \in CalculateRetryDelay(strategy, BaseDelay, CompensationRetryCount(n) + 1) :
                       queue[n].by # Nobody /\ queue' \in Insert(Removed(n), Retried(n, d))
    <2>0. w # Nobody
      BY QueueAssumption
    <2>1. CASE SkipMissingHandler(w, n)
      BY <2>0, <2>1 DEF SkipMissingHandler, RescheduleAndReleaseQueueItem, ReleaseQueueItem,
         Rescheduled
    <2>2. CASE Execute(w, n)
      BY <2>2 DEF Execute, Removed
    <2>3. CASE Retry(w, n)
      <3>1. /\ queue[n].by # Nobody /\ UNCHANGED fixed
            /\ queue' \in EnqueueCompensation(Removed(n), queue[n].id,
                                              CompensationRetryCount(n) + 1)
        BY <2>0, <2>3 DEF Retry
      <3>2. \E d \in CalculateRetryDelay(strategy, BaseDelay, CompensationRetryCount(n) + 1) :
              queue' \in Insert(Removed(n),
                                Compensation(queue[n].id, d, CompensationRetryCount(n) + 1))
        BY <3>1, CompensationItems
      <3> QED BY <3>1, <3>2 DEF Retried
    <2> QED BY <1>5, <2>1, <2>2, <2>3
  <1> QED BY <1>0, <1>1, <1>2, <1>3, <1>4, <1>5 DEF Next, Works

\* The clock only ages the items: the queue stays in order, with the same items.
LEMMA TickSound ==
    ASSUME QInv, Tick
    PROVE  /\ Sound(queue') /\ Len(queue') = Len(queue)
           /\ \A m \in 1..Len(queue) :
                /\ queue'[m].id = queue[m].id /\ queue'[m].tries = queue[m].tries
                /\ queue'[m].by = queue[m].by
  <1>0. Sound(queue) /\ queue \in Seq(Item) /\ DOMAIN queue = 1..Len(queue) /\ Len(queue) \in Nat
    BY QueueDomain DEF QInv, Sound
  <1>1. \A m \in 1..Len(queue) : queue[m] \in Item /\ queue[m].wait \in Int
    BY <1>0, ItemTypes
  <1>2. \A m \in 1..Len(queue) :
          queue'[m] = [queue[m] EXCEPT !.wait = Elapsed(queue[m].wait + 1)]
    BY <1>0 DEF Tick
  <1>3. \A m \in 1..Len(queue) : Elapsed(queue[m].wait + 1) \in Int
    BY <1>1, ElapsedType
  <1>4. \A m \in 1..Len(queue) :
          /\ queue'[m] \in Item /\ queue'[m].wait = Elapsed(queue[m].wait + 1)
          /\ queue'[m].id = queue[m].id /\ queue'[m].tries = queue[m].tries
          /\ queue'[m].by = queue[m].by
    BY <1>1, <1>2, <1>3 DEF Item
  <1>5. queue' \in Seq(Item) /\ Len(queue') = Len(queue)
    <2>1. queue' = [n \in 1..Len(queue) |-> [queue[n] EXCEPT !.wait = Elapsed(@ + 1)]]
      BY <1>0 DEF Tick
    <2>2. queue' \in [1..Len(queue) -> Item]
      BY <1>4, <2>1
    <2> QED BY <1>0, <2>2
  <1>6. Distinct(queue')
    BY <1>0, <1>4, <1>5 DEF Sound, Distinct
  <1>7. Sorted(queue')
    <2> SUFFICES ASSUME NEW k \in 1..Len(queue), NEW l \in 1..Len(queue), k < l
                 PROVE  queue'[k].wait >= queue'[l].wait
      BY <1>5 DEF Sorted
    <2>1. queue[k].wait >= queue[l].wait
      BY <1>0 DEF Sound, Sorted
    <2>2. ASSUME NEW a \in Int, NEW b \in Int, a >= b
          PROVE  Elapsed(a + 1) >= Elapsed(b + 1)
      BY <2>2, QueueAssumption DEF Elapsed, Aged
    <2>3. queue[k].wait \in Int /\ queue[l].wait \in Int
      BY <1>1
    <2> QED BY <1>4, <2>1, <2>2, <2>3
  <1> QED BY <1>4, <1>5, <1>6, <1>7 DEF Sound


\* The empty queue is in order.
LEMMA InitQInv == Init => QInv
  <1> SUFFICES ASSUME Init PROVE QInv
    OBVIOUS
  <1>1. store \in {"postgres", "sqlite", "memory"} /\ rate \in Nat
        /\ strategy \in {"exponential", "linear", "fixed"} /\ kinds \subseteq Kinds
        /\ ids \subseteq Ids
    BY QueueAssumption DEF Init, Ids
  <1>2. Sound(queue)
    BY DEF Init, Sound, Sorted, Distinct
  <1> QED BY <1>1, <1>2 DEF QInv

\* Every step keeps the invariant.
LEMMA NextQInv == QInv /\ [Next]_vars => QInv'
  <1> SUFFICES ASSUME QInv, [Next]_vars PROVE QInv'
    OBVIOUS
  <1>0. Sound(queue) /\ DOMAIN queue = 1..Len(queue)
    BY QueueDomain DEF QInv
  <1>1. ASSUME UNCHANGED fixed, Sound(queue') PROVE QInv'
    BY <1>1 DEF QInv, fixed
  <1>2. CASE UNCHANGED queue
    BY <1>0, <1>1, <1>2, QueueSteps
  <1>3. CASE Tick
    BY <1>1, <1>3, QueueSteps, TickSound
  <1>4. ASSUME NEW x \in Item, x.id \notin Used, queue' \in Insert(queue, x)
        PROVE  Sound(queue')
    <2>1. \A k \in 1..Len(queue) : queue[k].id # x.id
      BY <1>0, <1>4 DEF Used
    <2> QED BY <1>0, <1>4, <2>1, InsertSound
  <1>5. ASSUME NEW w \in Workers, DequeueStep(w)
        PROVE  Sound(queue')
    <2>1. PICK n \in 1..Len(queue) : queue' = [queue EXCEPT ![n].by = w]
      BY <1>0, <1>5 DEF DequeueStep
    <2> QED BY <1>0, <2>1, FieldSound
  <1>6. ASSUME NEW n \in 1..Len(queue), queue' = [queue EXCEPT ![n].by = Nobody]
        PROVE  Sound(queue')
    BY <1>0, <1>6, FieldSound
  <1>7. ASSUME NEW n \in 1..Len(queue), queue' = RemoveAt(queue, n)
        PROVE  Sound(queue')
    <2>1. Shortened(RemoveAt(queue, n), queue, n)
      BY <1>0, RemoveSound
    <2> QED BY <1>7, <2>1 DEF Shortened
  <1>8. ASSUME NEW n \in 1..Len(queue), NEW d \in jitteredCooldown,
               queue' \in Insert(Removed(n), Rescheduled(n, d))
        PROVE  Sound(queue')
    <2>1. Rescheduled(n, d) \in Item /\ Rescheduled(n, d).id = queue[n].id
      BY <1>0, RescheduledType, ItemTypes DEF Rescheduled, Item
    <2> QED BY <1>8, <2>1, ReplaceSound
  <1>9. ASSUME NEW n \in 1..Len(queue),
               NEW d \in CalculateRetryDelay(strategy, BaseDelay, CompensationRetryCount(n) + 1),
               queue' \in Insert(Removed(n), Retried(n, d))
        PROVE  Sound(queue')
    <2>1. Retried(n, d) \in Item /\ Retried(n, d).id = queue[n].id
      BY RetriedType
    <2> QED BY <1>9, <2>1, ReplaceSound
  <1> QED BY <1>1, <1>2, <1>3, <1>4, <1>5, <1>6, <1>7, <1>8, <1>9, QueueSteps

\* The queue is in order in every state.
LEMMA AlwaysQInv == Spec => []QInv
  BY InitQInv, NextQInv, PTL DEF Spec

----------------------------------------------------------------------------
\* No overtaking

\* Aging does not turn the order of two items round of which the earlier has no lower
\* priority: it has waited at least as long, and the cap cuts both.
LEMMA AgingKeepsOrder ==
    ASSUME NEW x, NEW y, x.wait \in Int, y.wait \in Int, x.prio \in Int, y.prio \in Int,
           rate \in Nat, x.wait >= y.wait, x.prio >= y.prio
    PROVE  ~(EffectivePriority(x) < EffectivePriority(y))
  <1>1. ASSUME NEW a \in Int, NEW b \in Int, NEW r \in Nat, a >= b
        PROVE  a * r \in Int /\ b * r \in Int /\ a * r >= b * r
    BY <1>1
  <1>2. x.wait * rate \in Int /\ y.wait * rate \in Int /\ x.wait * rate >= y.wait * rate
    BY <1>1
  <1> DEFINE a == x.wait * rate
             b == y.wait * rate
  <1>3. a \in Int /\ b \in Int /\ a >= b
    BY <1>2
  <1>4. /\ EffectivePriority(x) = IF rate > 0 /\ x.prio + a > Cap THEN Cap ELSE x.prio + a
        /\ EffectivePriority(y) = IF rate > 0 /\ y.prio + b > Cap THEN Cap ELSE y.prio + b
    BY DEF EffectivePriority
  <1> HIDE DEF a, b
  <1> QED BY <1>3, <1>4, QueueAssumption

\* Only DequeueStep claims an item.
LEMMA ClaimsByDequeue ==
    ASSUME QInv, [Next]_vars, NEW n \in DOMAIN queue, Claimed(n)
    PROVE  IsNext(n)
  <1>0. Sound(queue) /\ DOMAIN queue = 1..Len(queue) /\ Len(queue) \in Nat
    BY QueueDomain DEF QInv
  <1>1. PICK w \in Workers : queue' = [queue EXCEPT ![n].by = w]
    BY DEF Claimed
  <1>2. queue[n].by = Nobody /\ w # Nobody
    BY QueueAssumption DEF Claimed, Claimable
  <1>3. /\ Len(queue') = Len(queue) /\ queue'[n].by = w
        /\ \A m \in 1..Len(queue) : queue'[m].id = queue[m].id
        /\ \A m \in 1..Len(queue) : m # n => queue'[m] = queue[m]
    BY <1>0, <1>1, FieldSound
  <1>4. ~UNCHANGED queue /\ ~Tick
    BY <1>0, <1>2, <1>3, TickSound
  <1>5. ASSUME NEW x \in Item, x.id \notin Used, queue' \in Insert(queue, x)
        PROVE  FALSE
    <2>1. \A k \in 1..Len(queue) : queue[k].id # x.id
      BY <1>0, <1>5 DEF Used
    <2>2. Len(queue') = Len(queue) + 1
      BY <1>0, <1>5, <2>1, InsertSound
    <2> QED BY <1>0, <1>3, <2>2
  <1>6. ASSUME NEW k \in 1..Len(queue), queue' = RemoveAt(queue, k)
        PROVE  FALSE
    <2>1. Shortened(RemoveAt(queue, k), queue, k)
      BY <1>0, RemoveSound
    <2>2. Len(queue') = Len(queue) - 1
      BY <1>6, <2>1 DEF Shortened
    <2> QED BY <1>0, <1>3, <2>2
  <1>7. ASSUME NEW k \in 1..Len(queue), queue' = [queue EXCEPT ![k].by = Nobody]
        PROVE  FALSE
    <2>1. /\ queue'[k].by = Nobody
          /\ \A m \in 1..Len(queue) : m # k => queue'[m] = queue[m]
      BY <1>0, <1>7, FieldSound
    <2> QED BY <1>0, <1>2, <1>3, <2>1
  <1>8. ASSUME NEW k \in 1..Len(queue), queue[k].by # Nobody, NEW x \in Item,
               x.id = queue[k].id, x.by = Nobody, queue' \in Insert(Removed(k), x)
        PROVE  FALSE
    <2>0. Len(queue') = Len(queue) /\ \E p \in 1..Len(queue') : queue'[p] = x
      BY <1>8, ReplaceSound
    <2>1. PICK p \in 1..Len(queue) : queue'[p] = x
      BY <2>0
    <2>2. p = k
      BY <1>0, <1>3, <1>8, <2>1 DEF Sound, Distinct
    <2>3. k # n
      BY <1>2, <1>8
    <2> QED BY <1>3, <1>8, <2>1, <2>2, <2>3
  <1>9. ASSUME NEW v \in Workers, DequeueStep(v)
        PROVE  IsNext(n)
    <2>1. PICK k \in 1..Len(queue) : IsNext(k) /\ queue' = [queue EXCEPT ![k].by = v]
      BY <1>0, <1>9 DEF DequeueStep
    <2>2. \A m \in 1..Len(queue) : m # k => queue'[m] = queue[m]
      BY <1>0, <2>1, FieldSound
    <2>3. k = n
      BY <1>0, <1>2, <1>3, <2>2
    <2> QED BY <2>1, <2>3
  <1>10. ASSUME NEW k \in 1..Len(queue), NEW d \in jitteredCooldown, queue[k].by # Nobody,
                queue' \in Insert(Removed(k), Rescheduled(k, d))
         PROVE  FALSE
    <2>1. /\ Rescheduled(k, d) \in Item /\ Rescheduled(k, d).id = queue[k].id
          /\ Rescheduled(k, d).by = Nobody
      BY <1>0, RescheduledType, ItemTypes DEF Rescheduled, Item
    <2> QED BY <1>8, <1>10, <2>1
  <1>11. ASSUME NEW k \in 1..Len(queue), queue[k].by # Nobody,
                NEW d \in CalculateRetryDelay(strategy, BaseDelay, CompensationRetryCount(k) + 1),
                queue' \in Insert(Removed(k), Retried(k, d))
         PROVE  FALSE
    <2>1. /\ Retried(k, d) \in Item /\ Retried(k, d).id = queue[k].id
          /\ Retried(k, d).by = Nobody
      BY RetriedType
    <2> QED BY <1>8, <1>11, <2>1
  <1> QED BY <1>4, <1>5, <1>6, <1>7, <1>9, <1>10, <1>11, QueueSteps

\* NotOvertaken, for any queue, aging rate and cap: of the items that are due, none is
\* claimed before one that is scheduled earlier and has no lower priority.
THEOREM NobodyOvertakes == Spec => NotOvertaken
  <1>1. QInv /\ [Next]_vars => [KeepsOrder]_vars
    <2> SUFFICES ASSUME QInv, [Next]_vars, NEW n \in DOMAIN queue, Claimed(n),
                        NEW m \in 1..(n - 1), Claimable(m)
                 PROVE  queue[m].prio < queue[n].prio
      BY DEF KeepsOrder
    <2>0. Sound(queue) /\ DOMAIN queue = 1..Len(queue) /\ Len(queue) \in Nat /\ rate \in Nat
      BY QueueDomain DEF QInv
    <2>1. n \in 1..Len(queue) /\ m \in 1..Len(queue) /\ m < n /\ ~(n <= m)
      BY <2>0
    <2>2. EffectivePriority(queue[m]) < EffectivePriority(queue[n])
      BY <2>0, <2>1, ClaimsByDequeue DEF IsNext
    <2>3. queue[m].wait >= queue[n].wait
      BY <2>0, <2>1 DEF Sound, Sorted
    <2>4. /\ queue[m].wait \in Int /\ queue[n].wait \in Int
          /\ queue[m].prio \in 0..Cap /\ queue[n].prio \in 0..Cap
      BY <2>0, <2>1, ItemTypes
    <2>5. queue[m].prio \in Int /\ queue[n].prio \in Int
      BY <2>4, QueueAssumption
    <2>6. ~(queue[m].prio >= queue[n].prio)
      BY <2>0, <2>2, <2>3, <2>4, <2>5, AgingKeepsOrder
    <2> QED BY <2>5, <2>6
  <1> QED BY <1>1, AlwaysQInv, PTL DEF Spec, NotOvertaken


----------------------------------------------------------------------------
\* Retries back off

\* A product that does not overflow does not wrap around.
LEMMA WrappedFits ==
    ASSUME NEW x \in Nat, x <= MaxDuration
    PROVE  Wrapped(x) = x
  <1>1. Width \in Nat /\ Width - 1 \in Nat /\ Width = (Width - 1) + 1
    BY QueueAssumption
  <1> DEFINE h == 2^(Width - 1)
  <1>2. h \in Nat /\ 2^Width = h + h
    BY <1>1, PowerIsPositive, PowerDoubles
  <1>3. MaxDuration = h - 1
    BY DEF MaxDuration
  <1>4. Wrapped(x) = ((x + MaxDuration + 1) % 2^Width) - MaxDuration - 1
    BY DEF Wrapped
  <1> HIDE DEF h
  <1>5. x + MaxDuration + 1 \in Nat /\ x + MaxDuration + 1 < h + h /\ MaxDuration \in Int
    BY <1>2, <1>3
  <1>6. ASSUME NEW a \in Nat, NEW b \in Nat, a < b
        PROVE  a % b = a
    BY <1>6
  <1>7. (x + MaxDuration + 1) % 2^Width = x + MaxDuration + 1
    BY <1>2, <1>5, <1>6
  <1> QED BY <1>4, <1>5, <1>7

\* The delay of a retry is exact as long as it fits, and no shorter than the one before; it
\* is longer unless delays are fixed.
LEMMA DelayGrows ==
    ASSUME NEW s, NEW a \in Nat, NEW d \in CalculateRetryDelay(s, BaseDelay, a + 1)
    PROVE  \/ /\ d = Exact(s, BaseDelay, a + 1) /\ d \in Nat
              /\ Exact(s, BaseDelay, a) \in Nat /\ Exact(s, BaseDelay, a) <= d
              /\ d = 0 => BaseDelay = 0
              /\ s \in {"exponential", "linear"} /\ BaseDelay > 0 => Exact(s, BaseDelay, a) < d
           \/ Exact(s, BaseDelay, a + 1) > MaxDuration
  <1>0. BaseDelay \in Nat
    BY QueueAssumption
  <1>1. 2^a \in Nat /\ 2^(a + 1) \in Nat /\ 2^a < 2^(a + 1) /\ 2^(a + 1) >= 1
    <2>1. 2^a \in Nat /\ 2^a >= 1 /\ 2^(a + 1) = 2^a + 2^a
      BY PowerIsPositive, PowerDoubles
    <2> QED BY <2>1
  <1>2. ASSUME NEW b \in Nat, NEW x \in Nat, NEW y \in Nat, x < y
        PROVE  /\ b * x \in Nat /\ b * y \in Nat /\ b * x <= b * y
               /\ b * y = 0 => b = 0
               /\ b > 0 => b * x < b * y
    BY <1>2
  <1>3. MaxDuration \in Int
    <2>1. Width - 1 \in Nat
      BY QueueAssumption
    <2> QED BY <2>1, PowerIsPositive DEF MaxDuration
  <1>4. CASE s = "exponential"
    <2>1. /\ Exact(s, BaseDelay, a) = BaseDelay * 2^a
          /\ Exact(s, BaseDelay, a + 1) = BaseDelay * 2^(a + 1)
          /\ d \in FromFloat(BaseDelay * 2^(a + 1))
      BY <1>4 DEF Exact, CalculateRetryDelay
    <2>2. /\ BaseDelay * 2^a \in Nat /\ BaseDelay * 2^(a + 1) \in Nat
          /\ BaseDelay * 2^a <= BaseDelay * 2^(a + 1)
          /\ BaseDelay * 2^(a + 1) = 0 => BaseDelay = 0
          /\ BaseDelay > 0 => BaseDelay * 2^a < BaseDelay * 2^(a + 1)
      BY <1>0, <1>1, <1>2
    <2> QED BY <1>3, <2>1, <2>2 DEF FromFloat
  <1>5. CASE s = "linear"
    <2>1. /\ Exact(s, BaseDelay, a) = BaseDelay * a
          /\ Exact(s, BaseDelay, a + 1) = BaseDelay * (a + 1)
          /\ d = Wrapped(BaseDelay * (a + 1))
      BY <1>5 DEF Exact, CalculateRetryDelay
    <2>2. a + 1 \in Nat /\ a < a + 1
      OBVIOUS
    <2>3. /\ BaseDelay * a \in Nat /\ BaseDelay * (a + 1) \in Nat
          /\ BaseDelay * a <= BaseDelay * (a + 1)
          /\ BaseDelay * (a + 1) = 0 => BaseDelay = 0
          /\ BaseDelay > 0 => BaseDelay * a < BaseDelay * (a + 1)
      BY <1>0, <1>2, <2>2
    <2> DEFINE y == BaseDelay * (a + 1)
    <2>4. CASE y <= MaxDuration
      BY <2>1, <2>3, <2>4, WrappedFits
    <2>5. CASE ~(y <= MaxDuration)
      BY <1>3, <2>1, <2>3, <2>5
    <2> QED BY <2>4, <2>5
  <1>6. CASE s # "exponential" /\ s # "linear"
    BY <1>0, <1>6 DEF Exact, CalculateRetryDelay
  <1> QED BY <1>4, <1>5, <1>6

\* Only Retry puts another item in the place of a compensation that a worker has.
LEMMA OnlyRetryReplaces ==
    ASSUME QInv, [Next]_vars, NEW n \in DOMAIN queue, NEW m \in DOMAIN queue', RetryOf(n, m)
    PROVE  \E d \in CalculateRetryDelay(strategy, BaseDelay, CompensationRetryCount(n) + 1) :
             queue'[m] = Retried(n, d)
  <1>0. /\ Sound(queue) /\ DOMAIN queue = 1..Len(queue) /\ Len(queue) \in Nat
        /\ n \in 1..Len(queue)
    BY QueueDomain DEF QInv
  <1>1. Sound(queue') /\ DOMAIN queue' = 1..Len(queue') /\ m \in 1..Len(queue')
    <2>1. QInv'
      BY NextQInv
    <2> QED BY <2>1 DEF QInv, Sound
  <1>2. \A k \in 1..Len(queue) : queue[k].id = queue[n].id => k = n
    BY <1>0 DEF Sound, Distinct
  <1>3. /\ queue[n].kind = "failing" /\ queue[n].by # Nobody
        /\ queue'[m].id = queue[n].id /\ queue'[m].by = Nobody
    BY DEF RetryOf
  <1>4. \A k \in 1..Len(queue) : queue'[m].id = queue[k].id => k = n /\ queue'[m].by # queue[k].by
    BY <1>2, <1>3
  <1>5. ~UNCHANGED queue /\ ~Tick
    BY <1>0, <1>1, <1>4, TickSound
  <1>6. ASSUME NEW x \in Item, x.id \notin Used, queue' \in Insert(queue, x)
        PROVE  FALSE
    <2>1. \A k \in 1..Len(queue) : queue[k].id # x.id
      BY <1>0, <1>6 DEF Used
    <2>2. \A r \in 1..Len(queue') : queue'[r] = x \/ \E k \in 1..Len(queue) : queue'[r] = queue[k]
      BY <1>0, <1>6, <2>1, InsertSound
    <2> QED BY <1>0, <1>1, <1>3, <1>4, <2>1, <2>2
  <1>7. ASSUME NEW k \in 1..Len(queue), NEW b \in Workers \cup {Nobody},
               b # Nobody \/ queue[k].kind = "remote", queue' = [queue EXCEPT ![k].by = b]
        PROVE  FALSE
    <2>1. /\ Len(queue') = Len(queue) /\ queue'[k].by = b
          /\ \A r \in 1..Len(queue) :
               queue'[r].id = queue[r].id /\ (r # k => queue'[r] = queue[r])
      BY <1>0, <1>7, FieldSound
    <2>2. m = n
      BY <1>1, <1>4, <2>1
    <2> QED BY <1>1, <1>3, <1>4, <1>7, <2>1, <2>2
  <1>8. ASSUME NEW w \in Workers, DequeueStep(w)
        PROVE  FALSE
    <2>1. PICK k \in 1..Len(queue) : queue' = [queue EXCEPT ![k].by = w]
      BY <1>0, <1>8 DEF DequeueStep
    <2> QED BY <1>7, <2>1, QueueAssumption
  <1>9. ASSUME NEW k \in 1..Len(queue), queue' = RemoveAt(queue, k)
        PROVE  FALSE
    <2>1. Shortened(RemoveAt(queue, k), queue, k)
      BY <1>0, RemoveSound
    <2>2. \E l \in 1..Len(queue) : queue'[m] = queue[l]
      BY <1>1, <1>9, <2>1 DEF Shortened
    <2> QED BY <1>4, <2>2
  <1>10. ASSUME NEW k \in 1..Len(queue), NEW x \in Item, x.id = queue[k].id,
                queue' \in Insert(Removed(k), x)
         PROVE  queue'[m] = x /\ k = n
    <2>1. \A r \in 1..Len(queue') :
            queue'[r] = x \/ \E l \in 1..Len(queue) : l # k /\ queue'[r] = queue[l]
      BY <1>10, ReplaceSound
    <2>2. queue'[m] = x
      BY <1>1, <1>4, <2>1
    <2> QED BY <1>4, <1>10, <2>2
  <1>11. ASSUME NEW k \in 1..Len(queue), NEW d \in jitteredCooldown, queue[k].kind = "remote",
                queue' \in Insert(Removed(k), Rescheduled(k, d))
         PROVE  FALSE
    <2>1. Rescheduled(k, d) \in Item /\ Rescheduled(k, d).id = queue[k].id
      BY <1>0, RescheduledType, ItemTypes DEF Rescheduled, Item
    <2> QED BY <1>3, <1>10, <1>11, <2>1
  <1>12. ASSUME NEW k \in 1..Len(queue),
                NEW d \in CalculateRetryDelay(strategy, BaseDelay, CompensationRetryCount(k) + 1),
                queue' \in Insert(Removed(k), Retried(k, d))
         PROVE  queue'[m] = Retried(n, d) /\ k = n
    <2>1. Retried(k, d) \in Item /\ Retried(k, d).id = queue[k].id
      BY RetriedType
    <2> QED BY <1>10, <1>12, <2>1
  <1>13. ASSUME NEW k \in 1..Len(queue), queue[k].kind = "remote",
                queue' = [queue EXCEPT ![k].by = Nobody]
         PROVE  FALSE
    BY <1>7, <1>13
  <1> QED BY <1>5, <1>6, <1>8, <1>9, <1>11, <1>12, <1>13, QueueSteps

\* BackoffHolds, for every strategy, base delay, number of retries and width of a
\* time.Duration: as long as the product fits, a retry is not due at once if the step has a
\* delay; on SQLite and in memory it waits longer than the one before (as long, if delays
\* are fixed), on Postgres always as long as the first.
THEOREM RetriesBackOff == Spec => BackoffHolds
  <1>1. QInv /\ [Next]_vars => [BacksOff]_vars
    <2> SUFFICES ASSUME QInv, [Next]_vars, NEW n \in DOMAIN queue, NEW m \in DOMAIN queue',
                        RetryOf(n, m),
                        ~(Exact(strategy, BaseDelay, queue'[m].tries) > MaxDuration)
                 PROVE  LET delay  == -queue'[m].wait
                            before == Exact(strategy, BaseDelay, queue[n].tries)
                            first  == Exact(strategy, BaseDelay, 1)
                        IN  /\ BaseDelay + OnFailureDelay > 0 => delay > 0
                            /\ store = "postgres" =>
                                 delay = IF first = 0 THEN OnFailureDelay ELSE first
                            /\ store # "postgres" => delay >= before
                            /\ store # "postgres" /\ strategy # "fixed" /\ BaseDelay > 0
                                 => delay > before
      BY DEF BacksOff
    <2> DEFINE a == CompensationRetryCount(n)
               x == Exact(strategy, BaseDelay, a)
    <2>1. n \in 1..Len(queue) /\ a \in Nat /\ strategy \in {"exponential", "linear", "fixed"}
      BY QueueDomain, CountType DEF QInv
    <2>2. PICK d \in CalculateRetryDelay(strategy, BaseDelay, a + 1) : queue'[m] = Retried(n, d)
      BY OnlyRetryReplaces
    <2> DEFINE delay == IF d = 0 THEN OnFailureDelay ELSE d
    <2>3. queue'[m].wait = Elapsed(-delay) /\ queue'[m].tries = a + 1
      BY <2>1, <2>2, RetriedType
    <2>4. store = "postgres" => a = 0
      BY DEF CompensationRetryCount
    <2>5. store # "postgres" => x = Exact(strategy, BaseDelay, queue[n].tries)
      BY DEF CompensationRetryCount
    <2>6. store = "postgres" => Exact(strategy, BaseDelay, a + 1) = Exact(strategy, BaseDelay, 1)
      <3>1. 0 + 1 = 1
        OBVIOUS
      <3> QED BY <2>4, <3>1
    <2> HIDE DEF a
    <2>7. /\ d = Exact(strategy, BaseDelay, a + 1) /\ d \in Nat /\ x \in Nat /\ x <= d
          /\ d = 0 => BaseDelay = 0
          /\ strategy \in {"exponential", "linear"} /\ BaseDelay > 0 => x < d
      BY <2>1, <2>3, DelayGrows
    <2> HIDE DEF x
    <2>8. /\ delay \in Nat /\ delay >= x
          /\ BaseDelay + OnFailureDelay > 0 => delay > 0
          /\ strategy # "fixed" /\ BaseDelay > 0 => delay > x
      BY <2>1, <2>7, QueueAssumption
    <2>9. delay = IF d = 0 THEN OnFailureDelay ELSE d
      OBVIOUS
    <2> HIDE DEF delay
    <2>10. -queue'[m].wait = delay
      BY <2>3, <2>8, QueueAssumption DEF Elapsed, Aged
    <2>11. store = "postgres" =>
             delay = IF Exact(strategy, BaseDelay, 1) = 0 THEN OnFailureDelay
                     ELSE Exact(strategy, BaseDelay, 1)
      BY <2>6, <2>7, <2>9
    <2> QED BY <2>5, <2>8, <2>10, <2>11
  <1> QED BY <1>1, AlwaysQInv, PTL DEF Spec, BackoffHolds
============================================================================
