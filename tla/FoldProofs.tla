----------------------------- MODULE FoldProofs -----------------------------
(***************************************************************************)
(* Folds over sequences, as far as they can be reasoned about without an   *)
(* induction principle that takes a predicate: from the least-number       *)
(* principle, stated with sets.                                            *)
(*                                                                         *)
(* FoldLeft(op, base, seq) of the community modules is a recursive         *)
(* function over sets of indices that takes the greatest index off first.  *)
(* FoldExists shows that such a function exists and where its values lie,  *)
(* for the step given as a function; IndexInduction is the induction that  *)
(* carries over what a proof needs to know of its values.                  *)
(*                                                                         *)
(* At the end, what a sequence is from which a part is taken, or that gets *)
(* an element.                                                             *)
(***************************************************************************)
EXTENDS Integers, SequencesExt, FiniteSetTheorems, SequenceTheorems, WellFoundedInduction, TLAPS

\* A set of natural numbers has a least one, which Min picks.
LEMMA LeastNumber ==
  ASSUME NEW T \in SUBSET Nat, T # {}
  PROVE  Min(T) \in T /\ \A n \in T : Min(T) <= n
<1>1. PICK x \in T : \A y \in T : ~ (<<y, x>> \in OpToRel(<, Nat))
  BY NatLessThanWellFounded, WFMin
<1>2. ASSUME NEW y \in T
      PROVE  x <= y
  <2>1. x \in Nat /\ y \in Nat
    OBVIOUS
  <2>2. y < x => <<y, x>> \in OpToRel(<, Nat)
    BY <2>1, Zenon DEF OpToRel
  <2>3. ~ (y < x)
    BY <1>1, <2>2
  <2> QED
    BY <2>1, <2>3
<1> QED
  BY <1>2 DEF Min

\* A set of numbers up to n has a greatest one, which Max picks.
LEMMA GreatestOrZero ==
  ASSUME NEW n \in Nat, NEW T \in SUBSET (0..n), T # {}
  PROVE  Max(T) \in T /\ \A m \in T : m <= Max(T)
<1> DEFINE U == {n - m : m \in T}
<1>1. U \in SUBSET Nat /\ U # {}
  <2>1. \A m \in 0..n : n - m \in Nat
    OBVIOUS
  <2> QED
    BY <2>1
<1>2. Min(U) \in U /\ \A u \in U : Min(U) <= u
  BY <1>1, LeastNumber
<1>3. PICK x \in T : Min(U) = n - x
  BY <1>2
<1>4. ASSUME NEW m \in T
      PROVE  m <= x
  <2>1. n - m \in U
    OBVIOUS
  <2>2. n - x <= n - m
    BY <1>2, <1>3, <2>1
  <2>3. m \in 0..n /\ x \in 0..n
    OBVIOUS
  <2> QED
    BY <2>2, <2>3
<1> QED
  BY <1>4 DEF Max

LEMMA GreatestNumber ==
  ASSUME NEW n \in Nat, NEW T \in SUBSET (1..n), T # {}
  PROVE  Max(T) \in T /\ \A m \in T : m <= Max(T)
<1>1. T \in SUBSET (0..n)
  OBVIOUS
<1> QED
  BY <1>1, GreatestOrZero

\* What holds of no index and of every set of indices if it holds without the
\* greatest one, holds of all sets of indices.
LEMMA IndexInduction ==
  ASSUME NEW n \in Nat, NEW P,
         {} \in P,
         \A s \in SUBSET (1..n) : s # {} /\ s \ {Max(s)} \in P => s \in P
  PROVE  SUBSET (1..n) \subseteq P
<1> DEFINE Bad   == {s \in SUBSET (1..n) : s \notin P}
           Sizes == {Cardinality(s) : s \in Bad}
<1> SUFFICES ASSUME Bad # {} PROVE FALSE
  OBVIOUS
<1>1. \A s \in SUBSET (1..n) : IsFiniteSet(s) /\ Cardinality(s) \in Nat
  <2>1. IsFiniteSet(1..n)
    BY FS_Interval
  <2> QED
    BY <2>1, FS_Subset, FS_CardinalityType
<1>2. Sizes \in SUBSET Nat /\ Sizes # {}
  BY <1>1
<1>3. Min(Sizes) \in Sizes /\ \A k \in Sizes : Min(Sizes) <= k
  BY <1>2, LeastNumber
<1>4. PICK s \in Bad : Cardinality(s) = Min(Sizes)
  BY <1>3
<1>5. s # {} /\ s \in SUBSET (1..n)
  OBVIOUS
<1>6. Max(s) \in s
  BY <1>5, GreatestNumber
<1> DEFINE t == s \ {Max(s)}
<1>7. t \in Bad
  BY <1>5
<1>8. Cardinality(t) \in Sizes /\ Cardinality(t) \in Nat
  BY <1>1, <1>7
<1>9. Cardinality(t) = Cardinality(s) - 1
  BY <1>1, <1>5, <1>6, FS_RemoveElement
<1>10. Cardinality(s) \in Nat
  BY <1>1, <1>5
<1>11. Cardinality(s) <= Cardinality(t)
  BY <1>3, <1>4, <1>8
<1> HIDE DEF t, Bad, Sizes
<1> QED
  BY <1>8, <1>9, <1>10, <1>11

\* The functions with values in A that start from base and take the greatest
\* index of a set last, by a step of G.
FoldsOf(n, A, base, G) ==
    {it \in [SUBSET (1..n) -> A] :
        \A s \in SUBSET (1..n) :
            it[s] = IF s = {} THEN base ELSE G[Max(s)][it[s \ {Max(s)}]]}

\* There is such a function: the one up to n is that up to n - 1, extended.
LEMMA FoldExists ==
  ASSUME NEW n \in Nat, NEW A, NEW base \in A, NEW G \in [1..n -> [A -> A]]
  PROVE  FoldsOf(n, A, base, G) # {}
<1> DEFINE Step(it, s) == IF s = {} THEN base ELSE G[Max(s)][it[s \ {Max(s)}]]
           Folds(it, k) == it = [s \in SUBSET (1..k) |-> Step(it, s)]
           Bad == {k \in 0..n : ~ \E it : Folds(it, k)}
<1>1. Bad = {}
  <2> SUFFICES ASSUME Bad # {} PROVE FALSE
    OBVIOUS
  <2> DEFINE k == Min(Bad)
  <2>1. k \in Bad /\ \A j \in Bad : k <= j
    <3>1. Bad \in SUBSET Nat
      OBVIOUS
    <3> HIDE DEF Bad
    <3> QED
      BY <3>1, LeastNumber
  <2> HIDE DEF k
  <2>2. k # 0
    <3> DEFINE it == [s \in SUBSET (1..0) |-> base]
    <3>1. \A s \in SUBSET (1..0) : s = {}
      OBVIOUS
    <3>2. Folds(it, 0)
      BY <3>1
    <3> QED
      BY <2>1, <3>2
  <2>3. k \in 1..n /\ k - 1 \in 0..n
    BY <2>1, <2>2
  <2>4. k - 1 \notin Bad
    <3> HIDE DEF Bad
    <3> QED
      BY <2>1, <2>3
  <2>5. PICK old : Folds(old, k - 1)
    BY <2>3, <2>4
  <2> DEFINE it == [s \in SUBSET (1..k) |->
                      IF k \in s THEN G[k][old[s \ {k}]] ELSE old[s]]
  <2>6. ASSUME NEW s \in SUBSET (1..k)
        PROVE  it[s] = Step(it, s)
    <3>1. CASE s = {}
      BY <2>3, <2>5, <3>1
    <3>2. CASE s # {} /\ k \in s
      <4>1. Max(s) = k
        <5>1. k \in Nat
          BY <2>3
        <5>2. Max(s) \in 1..k /\ k <= Max(s)
          BY <3>2, <5>1, GreatestNumber
        <5> QED
          BY <5>1, <5>2
      <4>2. s \ {k} \in SUBSET (1..k) /\ k \notin s \ {k}
        OBVIOUS
      <4>3. it[s \ {k}] = old[s \ {k}]
        BY <4>2
      <4> QED
        BY <3>2, <4>1, <4>3
    <3>3. CASE s # {} /\ k \notin s
      <4>1. s \in SUBSET (1..k - 1)
        BY <2>3, <3>3
      <4>2. it[s] = old[s] /\ old[s] = Step(old, s)
        BY <2>5, <3>3, <4>1
      <4>3. it[s \ {Max(s)}] = old[s \ {Max(s)}]
        BY <3>3
      <4> QED
        BY <3>3, <4>2, <4>3
    <3> QED
      BY <3>1, <3>2, <3>3
  <2>7. Folds(it, k)
    BY <2>6
  <2> QED
    BY <2>1, <2>7
<1>2. PICK it : Folds(it, n)
  <2>1. n \in 0..n
    OBVIOUS
  <2> QED
    BY <1>1, <2>1
<1>3. \A s \in SUBSET (1..n) : it[s] \in A
  <2> DEFINE P == {s \in SUBSET (1..n) : it[s] \in A}
  <2>1. {} \in P
    BY <1>2
  <2>2. ASSUME NEW s \in SUBSET (1..n), s # {}, s \ {Max(s)} \in P
        PROVE  s \in P
    <3>1. Max(s) \in 1..n
      BY <2>2, GreatestNumber
    <3>2. it[s] = G[Max(s)][it[s \ {Max(s)}]]
      BY <1>2, <2>2
    <3> QED
      BY <2>2, <3>1, <3>2
  <2> HIDE DEF P
  <2>3. SUBSET (1..n) \subseteq P
    BY <2>1, <2>2, IndexInduction
  <2> QED
    BY <2>3 DEF P
<1>4. it \in [SUBSET (1..n) -> A] /\ \A s \in SUBSET (1..n) : it[s] = Step(it, s)
  BY <1>2, <1>3
<1> QED
  BY <1>4 DEF FoldsOf

\* A fold whose steps lead from the values P allows for a set of indices to those it
\* allows for one more.  Steps from other values may be anything.
FoldSteps(n, A, B, base, G, P) ==
    /\ n \in Nat
    /\ G \in [1..n -> [A -> B]]
    /\ P \in [SUBSET (1..n) -> SUBSET A]
    /\ base \in P[{}]
    /\ \A m \in SUBSET (1..n) : m # {} => \A x \in P[m \ {Max(m)}] : G[Max(m)][x] \in P[m]

FoldKept(it, n, A, base, G, P) ==
    /\ it \in [SUBSET (1..n) -> A]
    /\ \A m \in SUBSET (1..n) :
         it[m] \in P[m] /\ it[m] = IF m = {} THEN base ELSE G[Max(m)][it[m \ {Max(m)}]]

LEMMA FoldKeeps ==
  ASSUME NEW n, NEW A, NEW B, NEW base, NEW G, NEW P, FoldSteps(n, A, B, base, G, P)
  PROVE  \E it : FoldKept(it, n, A, base, G, P)
<1>0. /\ n \in Nat /\ G \in [1..n -> [A -> B]] /\ P \in [SUBSET (1..n) -> SUBSET A] /\ base \in P[{}]
      /\ \A m \in SUBSET (1..n) : m # {} => \A x \in P[m \ {Max(m)}] : G[Max(m)][x] \in P[m]
  BY DEF FoldSteps
<1> USE <1>0
<1> DEFINE H == [k \in 1..n |-> [x \in A |-> IF G[k][x] \in A THEN G[k][x] ELSE base]]
<1>1. base \in A /\ {} \in SUBSET (1..n)
  OBVIOUS
<1>2. H \in [1..n -> [A -> A]]
  BY <1>1
<1>3. PICK it \in [SUBSET (1..n) -> A] :
        \A m \in SUBSET (1..n) : it[m] = IF m = {} THEN base ELSE H[Max(m)][it[m \ {Max(m)}]]
  <2> HIDE DEF H
  <2>1. FoldsOf(n, A, base, H) # {}
    BY <1>1, <1>2, FoldExists
  <2>2. PICK it \in FoldsOf(n, A, base, H) : TRUE
    BY <2>1
  <2> QED
    BY <2>2 DEF FoldsOf
<1> DEFINE Within == {m \in SUBSET (1..n) : it[m] \in P[m]}
<1>4. ASSUME NEW m \in SUBSET (1..n), m # {}, it[m \ {Max(m)}] \in P[m \ {Max(m)}]
      PROVE  it[m] \in P[m] /\ it[m] = G[Max(m)][it[m \ {Max(m)}]]
  <2> DEFINE k == Max(m)
             x == it[m \ {k}]
  <2>1. k \in m /\ k \in 1..n
    BY <1>4, GreatestNumber
  <2>2. x \in A /\ G[k][x] \in P[m]
    BY <1>4
  <2>3. it[m] = H[k][x]
    BY <1>3, <1>4
  <2> HIDE DEF k, x
  <2>4. G[k][x] \in A
    BY <2>2
  <2>5. it[m] = G[k][x]
    BY <2>1, <2>2, <2>3, <2>4
  <2> QED
    BY <2>2, <2>5 DEF k, x
<1>5. {} \in Within
  BY <1>3
<1>6. \A m \in SUBSET (1..n) : m # {} /\ m \ {Max(m)} \in Within => m \in Within
  BY <1>4
<1>7. SUBSET (1..n) \subseteq Within
  <2> HIDE DEF Within
  <2> QED
    BY <1>5, <1>6, IndexInduction
<1>8. ASSUME NEW m \in SUBSET (1..n)
      PROVE  it[m] \in P[m] /\ it[m] = IF m = {} THEN base ELSE G[Max(m)][it[m \ {Max(m)}]]
  <2>1. it[m] \in P[m] /\ it[m \ {Max(m)}] \in P[m \ {Max(m)}]
    BY <1>7
  <2>2. m = {} => it[m] = base
    BY <1>3
  <2> QED
    BY <1>4, <2>1, <2>2
<1> QED
  BY <1>8 DEF FoldKept

\* Every such fold ends with a value that P allows.
FoldRuns(it, n, A, base, G) ==
    /\ it[{}] = base
    /\ \A m \in SUBSET (1..n) :
         m # {} /\ it[m \ {Max(m)}] \in A => it[m] = G[Max(m)][it[m \ {Max(m)}]]

LEMMA FoldWithin ==
  ASSUME NEW n, NEW A, NEW B, NEW base, NEW G, NEW P, FoldSteps(n, A, B, base, G, P),
         NEW it, FoldRuns(it, n, A, base, G)
  PROVE  it[1..n] \in P[1..n]
<1>0. /\ n \in Nat /\ G \in [1..n -> [A -> B]] /\ P \in [SUBSET (1..n) -> SUBSET A] /\ base \in P[{}]
      /\ \A m \in SUBSET (1..n) : m # {} => \A x \in P[m \ {Max(m)}] : G[Max(m)][x] \in P[m]
      /\ it[{}] = base
      /\ \A m \in SUBSET (1..n) :
           m # {} /\ it[m \ {Max(m)}] \in A => it[m] = G[Max(m)][it[m \ {Max(m)}]]
  BY DEF FoldSteps, FoldRuns
<1> USE <1>0
<1> DEFINE Within == {m \in SUBSET (1..n) : it[m] \in P[m]}
<1>1. {} \in Within
  OBVIOUS
<1>2. ASSUME NEW m \in SUBSET (1..n), m # {}, m \ {Max(m)} \in Within PROVE m \in Within
  <2> DEFINE k == Max(m)
             x == it[m \ {k}]
  <2>1. x \in P[m \ {k}] /\ m \ {k} \in SUBSET (1..n)
    BY <1>2
  <2>2. x \in A
    BY <2>1
  <2> QED
    BY <1>2, <2>1, <2>2
<1>3. SUBSET (1..n) \subseteq Within
  <2> HIDE DEF Within
  <2> QED
    BY <1>1, <1>2, IndexInduction
<1> QED
  BY <1>3

\* A fold whose steps stay in Q ends in Q.
LEMMA FoldStays ==
  ASSUME NEW n \in Nat, NEW Q, NEW base \in Q, NEW G \in [1..n -> [Q -> Q]], NEW it, FoldRuns(it, n, Q, base, G)
  PROVE  it[1..n] \in Q
<1> DEFINE Within == {m \in SUBSET (1..n) : it[m] \in Q}
<1>1. {} \in Within
  BY DEF FoldRuns
<1>2. ASSUME NEW m \in SUBSET (1..n), m # {}, m \ {Max(m)} \in Within PROVE m \in Within
  <2>1. it[m \ {Max(m)}] \in Q /\ Max(m) \in 1..n
    BY <1>2, GreatestNumber
  <2>2. it[m] = G[Max(m)][it[m \ {Max(m)}]]
    BY <1>2, <2>1 DEF FoldRuns
  <2> QED
    BY <2>1, <2>2
<1>3. SUBSET (1..n) \subseteq Within
  <2> HIDE DEF Within
  <2> QED
    BY <1>1, <1>2, IndexInduction
<1> QED
  BY <1>3

LEMMA PartIs ==
  ASSUME NEW S, NEW q \in Seq(S), NEW i \in 1..Len(q) + 1, NEW j \in Int, i - 1 <= j, j <= Len(q)
  PROVE  /\ SubSeq(q, i, j) \in Seq(S)
         /\ Len(SubSeq(q, i, j)) = j - i + 1
         /\ \A k \in 1..j - i + 1 : SubSeq(q, i, j)[k] = q[i + k - 1]
<1>1. i \in Int /\ j \in Int /\ \A k \in i..j : q[k] \in S
  OBVIOUS
<1>2. /\ SubSeq(q, i, j) \in Seq(S)
      /\ Len(SubSeq(q, i, j)) = IF i <= j THEN j - i + 1 ELSE 0
      /\ \A k \in 1..j - i + 1 : SubSeq(q, i, j)[k] = q[i + k - 1]
  BY <1>1, SubSeqProperties
<1>3. (IF i <= j THEN j - i + 1 ELSE 0) = j - i + 1
  BY <1>1
<1> QED
  BY <1>2, <1>3

\* The elements behind position p up to position l are taken out.
LEMMA RestIs ==
  ASSUME NEW S, NEW q \in Seq(S), NEW p \in 0..Len(q), NEW l \in p..Len(q)
  PROVE  LET r == SubSeq(q, 1, p) \o SubSeq(q, l + 1, Len(q))
             n == Len(q) - (l - p)
         IN  /\ r \in Seq(S) /\ Len(r) = n
             /\ \A k \in 1..n : r[k] = IF k <= p THEN q[k] ELSE q[k + l - p]
<1> DEFINE a == SubSeq(q, 1, p)
           b == SubSeq(q, l + 1, Len(q))
           r == a \o b
           n == Len(q) - (l - p)
<1>1. p \in Int /\ l \in Int /\ Len(q) \in Nat /\ 0 <= p /\ p <= l /\ l <= Len(q)
  OBVIOUS
<1>2. a \in Seq(S) /\ Len(a) = p /\ \A k \in 1..p : a[k] = q[k]
  <2>1. 1 \in 1..Len(q) + 1 /\ 1 - 1 <= p /\ p - 1 + 1 = p
    BY <1>1
  <2>2. a \in Seq(S) /\ Len(a) = p - 1 + 1 /\ \A k \in 1..p - 1 + 1 : a[k] = q[1 + k - 1]
    BY <1>1, <2>1, PartIs
  <2>3. \A k \in 1..p : 1 + k - 1 = k
    BY <1>1
  <2> HIDE DEF a
  <2> QED
    BY <2>1, <2>2, <2>3
<1>3. b \in Seq(S) /\ Len(b) = Len(q) - l /\ \A k \in 1..Len(q) - l : b[k] = q[l + k]
  <2>1. l + 1 \in 1..Len(q) + 1 /\ (l + 1) - 1 <= Len(q) /\ Len(q) - (l + 1) + 1 = Len(q) - l
        /\ Len(q) \in Int /\ Len(q) <= Len(q)
    BY <1>1
  <2>2. /\ b \in Seq(S) /\ Len(b) = Len(q) - (l + 1) + 1
        /\ \A k \in 1..Len(q) - (l + 1) + 1 : b[k] = q[l + 1 + k - 1]
    BY <1>1, <2>1, PartIs
  <2>3. \A k \in 1..Len(q) - l : l + 1 + k - 1 = l + k
    BY <1>1
  <2> HIDE DEF b
  <2> QED
    BY <2>1, <2>2, <2>3
<1> HIDE DEF a, b
<1>4. /\ r \in Seq(S) /\ Len(r) = Len(a) + Len(b)
      /\ \A k \in 1..Len(a) + Len(b) : r[k] = IF k <= Len(a) THEN a[k] ELSE b[k - Len(a)]
  BY <1>2, <1>3, ConcatProperties
<1> HIDE DEF r
<1>5. Len(a) + Len(b) = n
  BY <1>1, <1>2, <1>3
<1>6. ASSUME NEW k \in 1..n
      PROVE  r[k] = IF k <= p THEN q[k] ELSE q[k + l - p]
  <2>1. CASE k <= p
    BY <1>1, <1>2, <1>4, <1>5, <2>1
  <2>2. CASE ~ (k <= p)
    <3>1. k - p \in 1..Len(q) - l /\ l + (k - p) = k + l - p
      BY <1>1, <2>2
    <3> QED
      BY <1>2, <1>3, <1>4, <1>5, <2>2, <3>1
  <2> QED
    BY <2>1, <2>2
<1> QED
  BY <1>4, <1>5, <1>6 DEF r, a, b

LEMMA RemoveAtIs ==
  ASSUME NEW S, NEW q \in Seq(S), NEW p \in 1..Len(q)
  PROVE  /\ RemoveAt(q, p) \in Seq(S) /\ Len(RemoveAt(q, p)) = Len(q) - 1
         /\ \A k \in 1..Len(q) - 1 : RemoveAt(q, p)[k] = IF k < p THEN q[k] ELSE q[k + 1]
<1>1. Len(q) \in Nat /\ p - 1 \in 0..Len(q) /\ p \in p - 1..Len(q) /\ p \in Int
      /\ Len(q) - (p - (p - 1)) = Len(q) - 1
  OBVIOUS
<1> DEFINE r == RemoveAt(q, p)
<1>2. /\ r \in Seq(S) /\ Len(r) = Len(q) - (p - (p - 1))
      /\ \A k \in 1..Len(q) - (p - (p - 1)) : r[k] = IF k <= p - 1 THEN q[k] ELSE q[k + p - (p - 1)]
  BY <1>1, RestIs DEF RemoveAt
<1> HIDE DEF r
<1>3. \A k \in 1..Len(q) - 1 : (k <= p - 1 <=> k < p) /\ k + p - (p - 1) = k + 1
  BY <1>1
<1> QED
  BY <1>1, <1>2, <1>3 DEF r

LEMMA InsertAtIs ==
  ASSUME NEW S, NEW q \in Seq(S), NEW e \in S, NEW p \in 1..Len(q) + 1
  PROVE  /\ InsertAt(q, p, e) \in Seq(S) /\ Len(InsertAt(q, p, e)) = Len(q) + 1
         /\ \A k \in 1..Len(q) + 1 :
              InsertAt(q, p, e)[k] = IF k < p THEN q[k] ELSE IF k = p THEN e ELSE q[k - 1]
<1> DEFINE a == SubSeq(q, 1, p - 1)
           b == SubSeq(q, p, Len(q))
           c == a \o <<e>>
           r == c \o b
           n == Len(q)
<1>1. n \in Nat /\ p \in Int /\ 1 <= p /\ p <= n + 1
  OBVIOUS
<1>2. a \in Seq(S) /\ Len(a) = p - 1 /\ \A k \in 1..p - 1 : a[k] = q[k]
  <2>1. 1 \in 1..n + 1 /\ 1 - 1 <= p - 1 /\ p - 1 <= n /\ p - 1 \in Int /\ (p - 1) - 1 + 1 = p - 1
    BY <1>1
  <2>2. a \in Seq(S) /\ Len(a) = (p - 1) - 1 + 1 /\ \A k \in 1..(p - 1) - 1 + 1 : a[k] = q[1 + k - 1]
    BY <2>1, PartIs
  <2>3. \A k \in 1..p - 1 : 1 + k - 1 = k
    BY <1>1
  <2> HIDE DEF a
  <2> QED
    BY <2>1, <2>2, <2>3
<1>3. b \in Seq(S) /\ Len(b) = n - p + 1 /\ \A k \in 1..n - p + 1 : b[k] = q[p + k - 1]
  <2>1. p - 1 <= n /\ n <= n /\ n \in Int
    BY <1>1
  <2> QED
    BY <2>1, PartIs
<1> HIDE DEF a, b
<1>4. c \in Seq(S) /\ Len(c) = p /\ c[p] = e /\ \A k \in 1..p - 1 : c[k] = q[k]
  <2>1. c = Append(a, e)
    BY <1>2
  <2>2. c \in Seq(S) /\ Len(c) = Len(a) + 1 /\ c[Len(a) + 1] = e /\ \A k \in 1..Len(a) : c[k] = a[k]
    BY <1>2, <2>1
  <2> HIDE DEF c
  <2>3. Len(a) + 1 = p
    BY <1>1, <1>2
  <2> QED
    BY <1>2, <2>2, <2>3
<1> HIDE DEF c
<1>5. /\ r \in Seq(S) /\ Len(r) = Len(c) + Len(b)
      /\ \A k \in 1..Len(c) + Len(b) : r[k] = IF k <= Len(c) THEN c[k] ELSE b[k - Len(c)]
  BY <1>3, <1>4, ConcatProperties
<1> HIDE DEF r
<1>6. Len(c) + Len(b) = n + 1
  BY <1>1, <1>3, <1>4
<1>7. ASSUME NEW k \in 1..n + 1
      PROVE  r[k] = IF k < p THEN q[k] ELSE IF k = p THEN e ELSE q[k - 1]
  <2>1. CASE k < p
    BY <1>1, <1>4, <1>5, <1>6, <2>1
  <2>2. CASE k = p
    BY <1>1, <1>4, <1>5, <1>6, <2>2
  <2>3. CASE k > p
    <3>1. k - p \in 1..n - p + 1 /\ p + (k - p) - 1 = k - 1 /\ ~ (k <= p)
      BY <1>1, <2>3
    <3>2. r[k] = b[k - p]
      BY <1>4, <1>5, <1>6, <3>1
    <3>3. b[k - p] = q[k - 1]
      BY <1>3, <3>1
    <3> QED
      BY <1>1, <2>3, <3>2, <3>3
  <2> QED
    BY <1>1, <2>1, <2>2, <2>3
<1> QED
  BY <1>5, <1>6, <1>7 DEF InsertAt, r, c, a, b

=============================================================================
