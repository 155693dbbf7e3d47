-------------------------- MODULE PathCheckProofs --------------------------
(***************************************************************************)
(* The array of subflows stays sorted whatever is inserted and removed     *)
(* (StaysSorted), the state of the path checker stays in its types         *)
(* (TypeCorrect), the paths under test share no end as long as no entry of *)
(* the list has moved (TestsWhatWasFound), and a check that ends without a *)
(* loss has measured every combination (MeasuresAll).                      *)
(*                                                                         *)
(* The array is reasoned about as far as indices go: a combination is a    *)
(* mask over the list it was found in, and the invariant says which        *)
(* entries still have the index they had there.                            *)
(***************************************************************************)
EXTENDS PathCheck, FoldProofs, SequenceTheorems

(***************************************************************************)
(* Sorted lists                                                            *)
(***************************************************************************)

LEMMA PrecedesOrder ==
  ASSUME NEW s \in Sock, NEW t \in Sock
  PROVE  /\ ~ Precedes(s, s)
         /\ Precedes(s, t) => ~ Precedes(t, s)
         /\ s # t => Precedes(s, t) \/ Precedes(t, s)
         /\ \A u \in Sock : Precedes(s, t) /\ Precedes(t, u) => Precedes(s, u)
<1>1. \A u \in Sock : Saddr[u] \in Nat /\ Daddr[u] \in Nat
  BY SockAssumption
<1>2. s # t => Saddr[s] # Saddr[t] \/ Daddr[s] # Daddr[t]
  BY SockAssumption
<1> QED
  BY <1>1, <1>2 DEF Precedes

\* A sorted list has no repetitions.
LEMMA SortedInjective ==
  ASSUME NEW list \in Seq(Sock), Sorted(list), NEW i \in DOMAIN list, NEW j \in DOMAIN list,
         list[i] = list[j]
  PROVE  i = j
<1>1. i \in Nat /\ j \in Nat /\ list[i] \in Sock
  OBVIOUS
<1>2. ~ (i < j) /\ ~ (j < i)
  BY <1>1, PrecedesOrder DEF Sorted
<1> QED
  BY <1>1, <1>2

LEMMA SortedFits ==
  ASSUME NEW list \in Seq(Sock), Sorted(list)
  PROVE  Len(list) <= Cardinality(Sock) /\ Cardinality(Sock) \in Nat
<1>1. IsFiniteSet(Sock) /\ Len(list) \in Nat /\ DOMAIN list = 1..Len(list)
  BY SockAssumption
<1>2. list \in [1..Len(list) -> Sock]
  BY <1>1
<1>3. \A i, j \in 1..Len(list) : list[i] = list[j] => i = j
  BY <1>1, SortedInjective
<1>4. list \in Injection(1..Len(list), Sock)
  BY <1>2, <1>3 DEF Injection, IsInjective
<1>5. Cardinality(1..Len(list)) <= Cardinality(Sock)
  BY <1>1, <1>4, FS_Injection
<1>6. Cardinality(1..Len(list)) = Len(list)
  BY <1>1, FS_Interval
<1> QED
  BY <1>1, <1>5, <1>6, FS_CardinalityType

LEMMA ListedSock ==
  ASSUME NEW list \in Seq(Sock)
  PROVE  Listed(list) \subseteq Sock
BY DEF Listed

\* The search of rmptcp_insert_sk() stops somewhere.
LEMMA InsertIndexFound ==
  ASSUME NEW list \in Seq(Sock), NEW sk \in Sock
  PROVE  LET at == InsertIndex(list, sk)
         IN  /\ at \in 1..Len(list) + 1
             /\ \A j \in 1..at - 1 : Precedes(list[j], sk)
             /\ at <= Len(list) => ~ Precedes(list[at], sk)
<1> DEFINE Stops(i) == /\ \A j \in 1..i - 1 : Precedes(list[j], sk)
                       /\ i <= Len(list) => ~ Precedes(list[i], sk)
           Ends == {i \in 1..Len(list) + 1 : i <= Len(list) => ~ Precedes(list[i], sk)}
<1>1. Len(list) \in Nat
  OBVIOUS
<1>2. Ends \in SUBSET Nat /\ Len(list) + 1 \in Ends
  BY <1>1
<1>3. Min(Ends) \in Ends /\ \A i \in Ends : Min(Ends) <= i
  <2> HIDE DEF Ends
  <2> QED
    BY <1>2, LeastNumber
<1>4. Stops(Min(Ends))
  <2> DEFINE m == Min(Ends)
  <2>1. m \in Ends /\ \A i \in Ends : m <= i
    BY <1>3
  <2> HIDE DEF m
  <2>2. \A j \in 1..m - 1 : j \notin Ends /\ j \in 1..Len(list) + 1
    BY <1>1, <2>1
  <2> QED
    BY <1>1, <2>1, <2>2 DEF m
<1>5. \E i \in 1..Len(list) + 1 : Stops(i)
  BY <1>3, <1>4
<1> QED
  BY <1>5 DEF InsertIndex

LEMMA InsertSkType ==
  ASSUME NEW list \in Seq(Sock), NEW sk \in Sock
  PROVE  InsertSk(list, sk) \in Seq(Sock)
<1> DEFINE at == InsertIndex(list, sk)
           n  == Len(list)
           new == InsertSk(list, sk)
<1>1. n \in Nat /\ DOMAIN list = 1..n
  OBVIOUS
<1>2. at \in 1..n + 1
  BY InsertIndexFound
<1>3. new = [i \in 1..n + 1 |-> IF i < at THEN list[i] ELSE IF i = at THEN sk ELSE list[i - 1]]
  BY DEF InsertSk
<1> HIDE DEF at, n, new
<1>4. \A i \in 1..n : list[i] \in Sock
  BY <1>1
<1>5. /\ \A i \in 1..n + 1 : i < at => i \in 1..n
      /\ \A i \in 1..n + 1 : i > at => i - 1 \in 1..n
  BY <1>1, <1>2
<1>6. \A i \in 1..n + 1 : new[i] \in Sock
  BY <1>2, <1>3, <1>4, <1>5
<1> QED
  BY <1>1, <1>3, <1>6 DEF new

\* An insertion keeps the order.
LEMMA InsertSkSorts ==
  ASSUME NEW list \in Seq(Sock), Sorted(list), NEW sk \in Sock \ Listed(list)
  PROVE  /\ InsertSk(list, sk) \in Seq(Sock)
         /\ Sorted(InsertSk(list, sk))
         /\ Listed(InsertSk(list, sk)) = Listed(list) \cup {sk}
<1> DEFINE at == InsertIndex(list, sk)
           n  == Len(list)
           new == InsertSk(list, sk)
<1>1. n \in Nat /\ DOMAIN list = 1..n
  OBVIOUS
<1>2. /\ at \in 1..n + 1
      /\ \A j \in 1..at - 1 : Precedes(list[j], sk)
      /\ at <= n => ~ Precedes(list[at], sk)
  BY InsertIndexFound
<1>3. new = [i \in 1..n + 1 |-> IF i < at THEN list[i] ELSE IF i = at THEN sk ELSE list[i - 1]]
  BY DEF InsertSk
<1> HIDE DEF at, n, new
<1>4. \A i \in 1..n : list[i] \in Sock /\ list[i] # sk
  BY <1>1 DEF Listed
<1>5. /\ \A i \in 1..n + 1 : i < at => i \in 1..n
      /\ \A i \in 1..n + 1 : i > at => i - 1 \in 1..n
  BY <1>1, <1>2
<1>6. new \in Seq(Sock) /\ DOMAIN new = 1..n + 1
  <2>1. \A i \in 1..n + 1 : new[i] \in Sock
    BY <1>2, <1>3, <1>4, <1>5
  <2> QED
    BY <1>1, <1>3, <2>1
<1>7. \A j \in 1..n : j >= at => Precedes(sk, list[j])
  <2> SUFFICES ASSUME NEW j \in 1..n, j >= at PROVE Precedes(sk, list[j])
    OBVIOUS
  <2>1. at \in 1..n /\ Precedes(sk, list[at])
    BY <1>1, <1>2, <1>4, PrecedesOrder
  <2>2. j = at \/ Precedes(list[at], list[j])
    BY <1>1, <1>2, <2>1 DEF Sorted
  <2> QED
    BY <1>4, <2>1, <2>2, PrecedesOrder
<1>8. Sorted(new)
  <2> SUFFICES ASSUME NEW i \in 1..n + 1, NEW j \in 1..n + 1, i < j
               PROVE  Precedes(new[i], new[j])
    BY <1>6 DEF Sorted
  <2>1. CASE j < at
    BY <1>1, <1>2, <1>3, <1>5, <2>1 DEF Sorted
  <2>2. CASE j = at
    <3>1. i \in 1..at - 1 /\ new[i] = list[i] /\ new[j] = sk
      BY <1>2, <1>3, <2>2
    <3> QED
      BY <1>2, <3>1
  <2>3. CASE j > at /\ i < at
    <3>1. i \in 1..at - 1 /\ i \in 1..n /\ j - 1 \in 1..n /\ j - 1 >= at
      BY <1>2, <1>5, <2>3
    <3>2. new[i] = list[i] /\ new[j] = list[j - 1]
      BY <1>2, <1>3, <2>3
    <3>3. Precedes(list[i], sk) /\ Precedes(sk, list[j - 1])
      BY <1>2, <1>7, <3>1
    <3> QED
      BY <1>4, <3>1, <3>2, <3>3, PrecedesOrder
  <2>4. CASE j > at /\ i = at
    <3>1. new[i] = sk /\ new[j] = list[j - 1] /\ j - 1 \in 1..n /\ j - 1 >= at
      BY <1>2, <1>3, <1>5, <2>4
    <3> QED
      BY <1>7, <3>1
  <2>5. CASE j > at /\ i > at
    <3>1. new[i] = list[i - 1] /\ new[j] = list[j - 1] /\ i - 1 \in 1..n /\ j - 1 \in 1..n
          /\ i - 1 < j - 1
      BY <1>2, <1>3, <1>5, <2>5
    <3> QED
      BY <1>1, <3>1 DEF Sorted
  <2> QED
    BY <1>2, <2>1, <2>2, <2>3, <2>4, <2>5
<1>9. Listed(new) = Listed(list) \cup {sk}
  <2>1. ASSUME NEW s \in Listed(new) PROVE s \in Listed(list) \cup {sk}
    BY <1>1, <1>2, <1>3, <1>5, <1>6, <2>1 DEF Listed
  <2>2. ASSUME NEW i \in 1..n PROVE list[i] \in Listed(new)
    <3>1. CASE i < at
      <4>1. i \in 1..n + 1 /\ new[i] = list[i]
        BY <1>1, <1>3, <3>1
      <4> QED
        BY <1>6, <4>1 DEF Listed
    <3>2. CASE i >= at
      <4>1. i + 1 \in 1..n + 1 /\ new[i + 1] = list[i]
        BY <1>1, <1>2, <1>3, <3>2
      <4> QED
        BY <1>6, <4>1 DEF Listed
    <3> QED
      BY <1>2, <3>1, <3>2
  <2>3. sk \in Listed(new)
    <3>1. new[at] = sk
      BY <1>2, <1>3
    <3> QED
      BY <1>2, <1>6, <3>1 DEF Listed
  <2> QED
    BY <1>1, <2>1, <2>2, <2>3 DEF Listed
<1> QED
  BY <1>6, <1>8, <1>9 DEF new

\* The subflows of a connection are inserted one after the other.
LEMMA InsertionsSort ==
  ASSUME NEW list \in Seq(Sock), Sorted(list), NEW new \in SetToSeqs(avail \ Listed(list)),
         avail \subseteq Sock
  PROVE  LET longer == FoldLeft(InsertSk, list, new)
         IN  longer \in Seq(Sock) /\ Sorted(longer)
<1> DEFINE S == avail \ Listed(list)
           n == Cardinality(S)
           G == [k \in 1..n |-> [l \in Seq(Sock) |-> InsertSk(l, new[k])]]
           Folds(it) == it = [s \in SUBSET (1..n) |->
                               IF s = {} THEN list ELSE InsertSk(it[s \ {Max(s)}], new[Max(s)])]
<1>1. n \in Nat
  BY SockAssumption, FS_Subset, FS_CardinalityType
<1>2. /\ new \in [1..n -> S] /\ DOMAIN new = 1..n
      /\ \A k \in 1..n : new[k] \in Sock /\ new[k] \notin Listed(list)
      /\ \A k, m \in 1..n : k # m => new[k] # new[m]
  BY DEF SetToSeqs
<1>3. FoldLeft(InsertSk, list, new) = (CHOOSE it : Folds(it))[1..n]
  BY <1>2 DEF FoldLeft, MapThenFoldSet
<1> HIDE DEF n, S
<1>4. G \in [1..n -> [Seq(Sock) -> Seq(Sock)]]
  BY <1>2, InsertSkType
<1>5. PICK g \in [SUBSET (1..n) -> Seq(Sock)] :
        \A s \in SUBSET (1..n) :
          g[s] = IF s = {} THEN list ELSE G[Max(s)][g[s \ {Max(s)}]]
  <2> HIDE DEF G, Folds
  <2>1. FoldsOf(n, Seq(Sock), list, G) # {}
    BY <1>1, <1>4, FoldExists
  <2> QED
    BY <2>1 DEF FoldsOf
<1>6. Folds(g)
  <2>1. ASSUME NEW s \in SUBSET (1..n), s # {}
        PROVE  g[s] = InsertSk(g[s \ {Max(s)}], new[Max(s)])
    <3>1. Max(s) \in 1..n
      BY <1>1, <2>1, GreatestNumber
    <3>2. g[s \ {Max(s)}] \in Seq(Sock)
      BY <1>5
    <3>3. g[s] = G[Max(s)][g[s \ {Max(s)}]]
      BY <1>5, <2>1
    <3> QED
      BY <3>1, <3>2, <3>3
  <2>2. g[{}] = list
    BY <1>5
  <2> QED
    BY <2>1, <2>2
<1> DEFINE it == CHOOSE x : Folds(x)
           Inserted(l, s) == /\ l \in Seq(Sock) /\ Sorted(l)
                             /\ Listed(l) = Listed(list) \cup {new[k] : k \in s}
           P == {s \in SUBSET (1..n) : Inserted(it[s], s)}
<1>7. Folds(it)
  <2> HIDE DEF Folds
  <2> QED
    BY <1>6
<1> HIDE DEF it, G
<1>8. {} \in P
  BY <1>7
<1>9. ASSUME NEW s \in SUBSET (1..n), s # {}, s \ {Max(s)} \in P
      PROVE  s \in P
  <2> DEFINE m == Max(s)
             t == s \ {m}
  <2>1. m \in s /\ m \in 1..n
    BY <1>1, <1>9, GreatestNumber
  <2>2. it[s] = InsertSk(it[t], new[m])
    BY <1>7, <1>9
  <2>3. Inserted(it[t], t)
    BY <1>9
  <2> HIDE DEF m
  <2>4. new[m] \in Sock \ Listed(it[t])
    BY <1>2, <2>1, <2>3
  <2>5. /\ it[s] \in Seq(Sock) /\ Sorted(it[s])
        /\ Listed(it[s]) = Listed(it[t]) \cup {new[m]}
    <3>1. it[t] \in Seq(Sock) /\ Sorted(it[t])
      BY <2>3
    <3> HIDE DEF t, Folds, Inserted, P
    <3> QED
      BY <2>2, <2>4, <3>1, InsertSkSorts
  <2>6. {new[k] : k \in s} = {new[k] : k \in t} \cup {new[m]}
    BY <2>1
  <2> QED
    BY <2>3, <2>5, <2>6
<1>10. SUBSET (1..n) \subseteq P
  <2> HIDE DEF P
  <2> QED
    BY <1>1, <1>8, <1>9, IndexInduction
<1>11. Inserted(it[1..n], 1..n)
  BY <1>10
<1> QED
  BY <1>3, <1>11 DEF it

\* Removals: what stays are entries of the list, in its order, and while no entry up to k
\* goes they keep their indices.
Filtered(list, l, s) ==
    /\ l \in Seq(Sock)
    /\ Listed(l) = {list[i] : i \in {k \in s : Stays(list[k])}}
    /\ Sorted(l)
    /\ \A b \in 0..Len(list) : s \subseteq 1..b => Len(l) <= b
    /\ \A k \in 1..Len(list) : (\A i \in 1..k : i \in s /\ Stays(list[i]))
                               => k <= Len(l) /\ l[k] = list[k]

\* A step of the removal, for the entry m behind those of t.
LEMMA FilterStep ==
  ASSUME NEW list \in Seq(Sock), Sorted(list), NEW m \in 1..Len(list),
         NEW t \in SUBSET (1..m - 1), NEW l, Filtered(list, l, t)
  PROVE  Filtered(list, IF Stays(list[m]) THEN Append(l, list[m]) ELSE l, t \cup {m})
<1> DEFINE n == Len(list)
           s == t \cup {m}
           new == IF Stays(list[m]) THEN Append(l, list[m]) ELSE l
<1>1. n \in Nat /\ m \in Nat /\ m <= n /\ DOMAIN list = 1..n /\ list[m] \in Sock
  OBVIOUS
<1>2. l \in Seq(Sock) /\ Len(l) \in Nat /\ DOMAIN l = 1..Len(l) /\ Len(l) <= m - 1
  <2>1. m - 1 \in 0..n
    BY <1>1
  <2>2. l \in Seq(Sock)
    BY DEF Filtered
  <2>3. Len(l) <= m - 1
    BY <2>1, Zenon DEF Filtered
  <2> QED
    BY <2>2, <2>3
<1>3. /\ new \in Seq(Sock) /\ Len(new) \in Nat /\ DOMAIN new = 1..Len(new)
      /\ Len(new) = IF Stays(list[m]) THEN Len(l) + 1 ELSE Len(l)
      /\ \A i \in 1..Len(l) : new[i] = l[i]
      /\ Stays(list[m]) => new[Len(l) + 1] = list[m]
  BY <1>1, <1>2
<1> HIDE DEF n, new
<1>4. Listed(new) = {list[i] : i \in {k \in s : Stays(list[k])}}
  <2>1. Listed(l) = {list[i] : i \in {k \in t : Stays(list[k])}}
    BY DEF Filtered
  <2>2. Listed(new) = IF Stays(list[m]) THEN Listed(l) \cup {list[m]} ELSE Listed(l)
    <3>1. CASE Stays(list[m])
      <4>1. 1..Len(new) = 1..Len(l) \cup {Len(l) + 1}
        BY <1>2, <1>3, <3>1
      <4> QED
        BY <1>2, <1>3, <3>1, <4>1 DEF Listed
    <3>2. CASE ~ Stays(list[m])
      BY <3>2 DEF new
    <3> QED
      BY <3>1, <3>2
  <2> QED
    BY <2>1, <2>2
<1>5. Sorted(new)
  <2>1. Sorted(l) /\ \A i \in 1..Len(l) : l[i] \in Listed(l)
    BY <1>2 DEF Filtered, Listed
  <2>2. \A i \in 1..Len(l) : Precedes(l[i], list[m])
    <3> SUFFICES ASSUME NEW i \in 1..Len(l) PROVE Precedes(l[i], list[m])
      OBVIOUS
    <3>1. PICK k \in t : l[i] = list[k]
      BY <2>1 DEF Filtered
    <3>2. k \in 1..n /\ k < m
      BY <1>1
    <3> QED
      BY <1>1, <3>1, <3>2 DEF Sorted
  <2>3. ASSUME NEW i \in 1..Len(new), NEW j \in 1..Len(new), i < j
        PROVE  Precedes(new[i], new[j])
    <3>1. i \in 1..Len(l)
      BY <1>2, <1>3, <2>3
    <3>2. CASE j \in 1..Len(l)
      BY <1>2, <1>3, <2>1, <2>3, <3>1, <3>2 DEF Sorted
    <3>3. CASE j \notin 1..Len(l)
      <4>1. Stays(list[m]) /\ j = Len(l) + 1
        BY <1>2, <1>3, <3>3
      <4> QED
        BY <1>3, <2>2, <3>1, <4>1
    <3> QED
      BY <3>2, <3>3
  <2> QED
    BY <1>3, <2>3 DEF Sorted
<1>6. ASSUME NEW b \in 0..n, s \subseteq 1..b
      PROVE  Len(new) <= b
  <2>1. m <= b
    BY <1>6
  <2> QED
    BY <1>1, <1>2, <1>3, <2>1
<1>7. ASSUME NEW k \in 1..n, \A i \in 1..k : i \in s /\ Stays(list[i])
      PROVE  k <= Len(new) /\ new[k] = list[k]
  <2>1. k \in 1..k /\ k <= m
    BY <1>1, <1>7
  <2>2. CASE k < m
    <3>1. \A i \in 1..k : i \in t /\ Stays(list[i])
      BY <1>1, <1>7, <2>2
    <3>2. k <= Len(l) /\ l[k] = list[k]
      BY <1>7, <3>1 DEF Filtered, n
    <3> QED
      BY <1>2, <1>3, <3>2
  <2>3. CASE k = m
    <3>1. Len(l) = m - 1
      <4>1. CASE m = 1
        BY <1>2, <4>1
      <4>2. CASE m # 1
        <5>1. m - 1 \in 1..n
          BY <1>1, <4>2
        <5>2. \A i \in 1..m - 1 : i \in t /\ Stays(list[i])
          BY <1>1, <1>7, <2>3
        <5>3. m - 1 <= Len(l)
          BY <5>1, <5>2 DEF Filtered, n
        <5> QED
          BY <1>1, <1>2, <5>3
      <4> QED
        BY <4>1, <4>2
    <3>2. Stays(list[m])
      BY <1>7, <2>1, <2>3
    <3> QED
      BY <1>1, <1>3, <2>3, <3>1, <3>2
  <2> QED
    BY <1>1, <2>1, <2>2, <2>3
<1> QED
  BY <1>3, <1>4, <1>5, <1>6, <1>7 DEF Filtered, n, new

LEMMA CheckAvailSkFilters ==
  ASSUME NEW list \in Seq(Sock), Sorted(list)
  PROVE  Filtered(list, CheckAvailSk(list), 1..Len(list))
<1> DEFINE n == Len(list)
           Kept(l, k) == IF Stays(list[k]) THEN Append(l, list[k]) ELSE l
           G == [k \in 1..n |-> [l \in Seq(Sock) |-> Kept(l, k)]]
           Folds(it) == it = [s \in SUBSET (1..n) |->
                               IF s = {} THEN <<>>
                               ELSE IF Stays(list[Max(s)])
                                    THEN Append(it[s \ {Max(s)}], list[Max(s)])
                                    ELSE it[s \ {Max(s)}]]
<1>1. n \in Nat /\ DOMAIN list = 1..n /\ \A k \in 1..n : list[k] \in Sock
  OBVIOUS
<1>2. CheckAvailSk(list) = (CHOOSE it : Folds(it))[1..n]
  BY <1>1 DEF CheckAvailSk, FoldLeft, MapThenFoldSet
<1>3. G \in [1..n -> [Seq(Sock) -> Seq(Sock)]]
  <2>1. \A k \in 1..n, l \in Seq(Sock) : Kept(l, k) \in Seq(Sock)
    BY <1>1
  <2> HIDE DEF Kept
  <2> QED
    BY <2>1
<1>4. PICK g \in [SUBSET (1..n) -> Seq(Sock)] :
        \A s \in SUBSET (1..n) :
          g[s] = IF s = {} THEN <<>> ELSE G[Max(s)][g[s \ {Max(s)}]]
  <2>1. <<>> \in Seq(Sock)
    OBVIOUS
  <2> HIDE DEF G, Folds, n
  <2>2. FoldsOf(n, Seq(Sock), <<>>, G) # {}
    BY <1>1, <1>3, <2>1, FoldExists
  <2> QED
    BY <2>2 DEF FoldsOf
<1> HIDE DEF n
<1>5. Folds(g)
  <2>1. ASSUME NEW s \in SUBSET (1..n), s # {}
        PROVE  g[s] = IF Stays(list[Max(s)]) THEN Append(g[s \ {Max(s)}], list[Max(s)])
                      ELSE g[s \ {Max(s)}]
    <3>1. Max(s) \in 1..n
      BY <1>1, <2>1, GreatestNumber
    <3>2. g[s \ {Max(s)}] \in Seq(Sock)
      BY <1>4
    <3>3. g[s] = G[Max(s)][g[s \ {Max(s)}]]
      BY <1>4, <2>1
    <3> QED
      BY <3>1, <3>2, <3>3
  <2>2. g[{}] = <<>>
    BY <1>4
  <2>3. g = [s \in SUBSET (1..n) |-> g[s]]
    BY <1>4
  <2> QED
    BY <2>1, <2>2, <2>3
<1> DEFINE it == CHOOSE x : Folds(x)
           P == {s \in SUBSET (1..n) : Filtered(list, it[s], s)}
<1>6. Folds(it)
  <2> HIDE DEF Folds
  <2> QED
    BY <1>5
<1> HIDE DEF it, G
<1>7. {} \in P
  <2>1. it[{}] = <<>>
    BY <1>6
  <2>2. Filtered(list, <<>>, {})
    BY <1>1 DEF Filtered, Listed, Sorted, n
  <2> QED
    BY <2>1, <2>2
<1>8. ASSUME NEW s \in SUBSET (1..n), s # {}, s \ {Max(s)} \in P
      PROVE  s \in P
  <2> DEFINE m == Max(s)
             t == s \ {m}
  <2>1. m \in s /\ m \in 1..n /\ \A k \in s : k <= m
    BY <1>1, <1>8, GreatestNumber
  <2>2. it[s] = IF Stays(list[m]) THEN Append(it[t], list[m]) ELSE it[t]
    BY <1>6, <1>8
  <2>3. Filtered(list, it[t], t)
    BY <1>8
  <2> HIDE DEF m
  <2>4. t \in SUBSET (1..m - 1) /\ t \cup {m} = s
    BY <1>1, <2>1
  <2> HIDE DEF t, P, Folds, Kept
  <2>5. Filtered(list, it[s], t \cup {m})
    BY <2>1, <2>2, <2>3, <2>4, FilterStep DEF n
  <2> QED
    BY <2>4, <2>5 DEF P
<1>9. SUBSET (1..n) \subseteq P
  <2> HIDE DEF P, Folds, Kept
  <2> QED
    BY <1>1, <1>7, <1>8, IndexInduction
<1>10. Filtered(list, it[1..n], 1..n)
  BY <1>9
<1> QED
  BY <1>2, <1>10 DEF it, n

\* What the removal leaves, without the indices it went through.
LEMMA CheckAvailSkSorts ==
  ASSUME NEW list \in Seq(Sock), Sorted(list)
  PROVE  /\ CheckAvailSk(list) \in Seq(Sock) /\ Sorted(CheckAvailSk(list))
         /\ Listed(CheckAvailSk(list)) = {s \in Listed(list) : Stays(s)}
         /\ \A k \in 1..Len(list) : (\A i \in 1..k : Stays(list[i]))
              => k <= Len(CheckAvailSk(list)) /\ CheckAvailSk(list)[k] = list[k]
<1>1. Filtered(list, CheckAvailSk(list), 1..Len(list))
  BY CheckAvailSkFilters
<1>2. Len(list) \in Nat /\ DOMAIN list = 1..Len(list)
  OBVIOUS
<1>3. CheckAvailSk(list) \in Seq(Sock) /\ Sorted(CheckAvailSk(list))
  BY <1>1 DEF Filtered
<1>4. Listed(CheckAvailSk(list)) = {s \in Listed(list) : Stays(s)}
  <2>1. Listed(CheckAvailSk(list)) = {list[i] : i \in {k \in 1..Len(list) : Stays(list[k])}}
    BY <1>1 DEF Filtered
  <2>2. Listed(list) = {list[i] : i \in 1..Len(list)}
    BY <1>2 DEF Listed
  <2> QED
    BY <2>1, <2>2
<1>5. ASSUME NEW k \in 1..Len(list), \A i \in 1..k : Stays(list[i])
      PROVE  k <= Len(CheckAvailSk(list)) /\ CheckAvailSk(list)[k] = list[k]
  <2>1. \A i \in 1..k : i \in 1..Len(list) /\ Stays(list[i])
    BY <1>2, <1>5
  <2> QED
    BY <1>1, <2>1 DEF Filtered
<1> QED
  BY <1>3, <1>4, <1>5

(***************************************************************************)
(* The list                                                                *)
(***************************************************************************)

ListInv ==
    /\ sk_list \in Seq(Sock) /\ Sorted(sk_list)
    /\ enabled \subseteq Listed(sk_list)
    /\ avail \subseteq Sock /\ unseen \subseteq Sock

LEMMA LeaveSorts ==
  ASSUME NEW list \in Seq(Sock), Sorted(list), NEW on, ListInv, Leave(list, on)
  PROVE  /\ sk_list' \in Seq(Sock) /\ Sorted(sk_list')
         /\ enabled' \subseteq Listed(sk_list') /\ enabled' \subseteq on
         /\ unseen' \subseteq Sock
         /\ Listed(sk_list') = {s \in Listed(list) : Stays(s)}
         /\ \A k \in 1..Len(list) : (\A i \in 1..k : Stays(list[i]))
              => k <= Len(sk_list') /\ sk_list'[k] = list[k]
<1>1. sk_list' = CheckAvailSk(list) /\ enabled' = on \cap Listed(sk_list') /\ unseen' \subseteq unseen
  BY DEF Leave
<1> QED
  BY <1>1, CheckAvailSkSorts DEF ListInv

LEMMA ScheduleSorts ==
  ASSUME NEW list \in Seq(Sock), Sorted(list), NEW on, NEW p, NEW switches, ListInv,
         Schedule(list, on, p, switches), UNCHANGED avail
  PROVE  ListInv'
<1>1. CASE Leave(list, on)
  BY <1>1, LeaveSorts DEF ListInv
<1>2. CASE \E longer \in WithNew(list) : Leave(longer, EnabledBy(enable_mask', longer))
  <2>1. PICK longer \in WithNew(list) : Leave(longer, EnabledBy(enable_mask', longer))
    BY <1>2
  <2>2. PICK new \in SetToSeqs(avail \ Listed(list)) : longer = FoldLeft(InsertSk, list, new)
    <3>1. avail \ Listed(list) \in SUBSET Sock
      BY DEF ListInv
    <3> QED
      BY <2>1, <3>1, Zenon DEF WithNew, Orders
  <2>3. longer \in Seq(Sock) /\ Sorted(longer)
    BY <2>2, InsertionsSort DEF ListInv
  <2> QED
    BY <2>1, <2>3, LeaveSorts DEF ListInv
<1> QED
  BY <1>1, <1>2 DEF Schedule, PeriodicUpdate, NoUpdate

LEMMA ListInvKeeps ==
  ListInv /\ [Next]_vars => ListInv'
<1> SUFFICES ASSUME ListInv, [Next]_vars PROVE ListInv'
  OBVIOUS
<1>1. sk_list \in Seq(Sock) /\ Sorted(sk_list) /\ <<>> \in Seq(Sock) /\ Sorted(<<>>)
  BY DEF ListInv, Sorted
<1>2. ASSUME SendNextSegment PROVE ListInv'
  <2>1. CASE pathChecker
    <3>1. \E on : Leave(sk_list, on)
      BY <2>1, Zenon DEF pathChecker, StartCheck, GoOn, NextCombination, FinishCheck, Test
    <3> QED
      BY <1>1, <1>2, <3>1, LeaveSorts DEF ListInv, SendNextSegment
  <2>2. CASE Schedule(sk_list, enabled, pI, sysctl)
    BY <1>1, <1>2, <2>2, ScheduleSorts DEF SendNextSegment
  <2> QED
    BY <1>2, <2>1, <2>2 DEF SendNextSegment
<1>3. ASSUME NEW new \in Meta, SendForOther(new) PROVE ListInv'
  BY <1>1, <1>3, ScheduleSorts DEF SendForOther
<1>4. ASSUME NEW s \in Sock, Appears(s) \/ Fails(s) \/ Unseen(s) PROVE ListInv'
  BY <1>4 DEF Appears, Fails, Unseen, ListInv
<1>5. ASSUME \/ RunPathCheck \/ SetPath \/ \E mask \in UserMasks : SetMask(mask)
             \/ TestRunsOut \/ UpdateComesDue \/ UNCHANGED vars
      PROVE  ListInv'
  BY <1>5 DEF RunPathCheck, SetPath, SetMask, TestRunsOut, UpdateComesDue, vars, ListInv
<1> QED
  BY <1>2, <1>3, <1>4, <1>5 DEF Next

LEMMA ListInvStarts ==
  Init => ListInv
BY DEF Init, ListInv, Sorted, Listed

\* rmptcp_insert_sk() and the removals keep sk_list sorted by address and free of
\* repetitions, for any subflows, in whatever order they come and go: an index names the
\* same subflow to the masks, the path index and the user.
THEOREM StaysSorted == Spec => []ListSorted
<1>1. Spec => []ListInv
  BY ListInvStarts, ListInvKeeps, PTL DEF Spec
<1>2. ListInv => ListSorted
  BY DEF ListInv, ListSorted
<1> QED
  BY <1>1, <1>2, PTL

(***************************************************************************)
(* Types                                                                   *)
(***************************************************************************)

\* The index has room for the combinations of any list.  (The code does not look.)
IndexHolds ==
    \A list \in Seq(Sock) : Sorted(list) => Cardinality(Combinations(list)) <= MaxComb

Tests == [running : BOOLEAN, test_index : 0..MaxComb, expired : BOOLEAN]
Switches == [runpathcheck : BOOLEAN, setPath : BOOLEAN, enablemask : Mask \cup UserMasks]
Entry == [mask : Mask, measured : SUBSET SUBSET Sock]

\* A check that runs tests an entry of the index.
Types ==
    /\ ListInv
    /\ meta_sk \in Meta \cup {NoMeta}
    /\ enable_mask \in Mask \cup UserMasks
    /\ pI \in PathIndex /\ (pI.num > 0 => pI.active < pI.num)
    /\ check \in Tests /\ (check.running => check.test_index \in 0..MaxComb - 1)
    /\ sysctl \in Switches
    /\ update_due \in BOOLEAN
    /\ planned \in Seq(Sock) /\ Sorted(planned)

LEMMA TypesImply == Types => TypeOK
<1> SUFFICES ASSUME Types PROVE TypeOK
  OBVIOUS
<1>1. Len(sk_list) <= Cardinality(Sock)
  BY SortedFits DEF Types, ListInv
<1> QED
  BY <1>1 DEF Types, ListInv, TypeOK, Tests, Switches

LEMMA CombinationsFit ==
  ASSUME NEW list \in Seq(Sock), Sorted(list)
  PROVE  /\ Combinations(list) \subseteq Mask
         /\ Cardinality(Combinations(list)) \in Nat
         /\ \A mask \in Combinations(list) : OverlapFree(EnabledBy(mask, list))
<1>1. Len(list) \in Nat /\ Len(list) <= Cardinality(Sock) /\ Cardinality(Sock) \in Nat
  BY SortedFits
<1>2. 0..Len(list) - 1 \subseteq 0..Cardinality(Sock) - 1
  BY <1>1
<1>3. Combinations(list) \subseteq SUBSET (0..Len(list) - 1)
  BY DEF Combinations, kSubset
<1>4. IsFiniteSet(Combinations(list))
  <2>1. IsFiniteSet(0..Len(list) - 1)
    BY <1>1, FS_Interval
  <2>2. IsFiniteSet(SUBSET (0..Len(list) - 1))
    BY <2>1, FS_SUBSET
  <2> QED
    BY <1>3, <2>2, FS_Subset
<1>5. Combinations(list) \subseteq Mask
  BY <1>2, <1>3 DEF Mask
<1>6. Cardinality(Combinations(list)) \in Nat
  BY <1>4, FS_CardinalityType
<1>7. \A mask \in Combinations(list) : OverlapFree(EnabledBy(mask, list))
  BY DEF Combinations
<1> QED
  BY <1>5, <1>6, <1>7

\* The index of a new check holds the combinations of the list.
LEMMA NewIndexHolds ==
  ASSUME IndexHolds, Types, NEW found \in SetToSeqs(Combinations(sk_list))
  PROVE  /\ NewIndex(found) \in PathIndex
         /\ NewIndex(found).active = -1
         /\ \A i \in 0..NewIndex(found).num - 1 :
              OverlapFree(EnabledBy(NewIndex(found).pM[i].mask, sk_list))
<1> DEFINE C == Combinations(sk_list)
           n == Cardinality(C)
           new == NewIndex(found)
<1>1. sk_list \in Seq(Sock) /\ Sorted(sk_list) /\ MaxComb \in Nat \ {0}
  BY PathCheckAssumption DEF Types, ListInv
<1>2. n \in Nat /\ n <= MaxComb /\ C \subseteq Mask
  BY <1>1, CombinationsFit DEF IndexHolds
<1>3. \A mask \in C : OverlapFree(EnabledBy(mask, sk_list))
  BY <1>1, CombinationsFit
<1>4. found \in [1..n -> C]
  BY DEF SetToSeqs
<1> HIDE DEF C, n
<1>5. Len(found) = n /\ DOMAIN found = 1..n
  BY <1>2, <1>4
<1>6. pI.pM \in [0..MaxComb - 1 -> Entry]
  BY DEF Types, PathIndex, Entry
<1>7. new = [num |-> n, active |-> -1,
             pM |-> [i \in 0..MaxComb - 1 |->
                       IF i < n THEN [mask |-> found[i + 1], measured |-> {}] ELSE pI.pM[i]]]
  BY <1>5, <1>6 DEF NewIndex
<1> HIDE DEF new
<1>8. \A i \in 0..MaxComb - 1 : i < n => i + 1 \in 1..n /\ found[i + 1] \in C
  BY <1>1, <1>2, <1>4
<1>9. new.pM \in [0..MaxComb - 1 -> Entry]
  <2>1. \A i \in 0..MaxComb - 1 :
          (IF i < n THEN [mask |-> found[i + 1], measured |-> {}] ELSE pI.pM[i]) \in Entry
    BY <1>2, <1>6, <1>8 DEF Entry
  <2> QED
    BY <1>7, <2>1
<1>10. new \in PathIndex
  <2>1. n \in 0..MaxComb /\ -1 \in -1..MaxComb - 1
    BY <1>1, <1>2
  <2> QED
    BY <1>7, <1>9, <2>1 DEF PathIndex, Entry
<1>11. \A i \in 0..n - 1 : new.pM[i].mask \in C
  <2> SUFFICES ASSUME NEW i \in 0..n - 1 PROVE new.pM[i].mask \in C
    OBVIOUS
  <2>1. i \in 0..MaxComb - 1 /\ i < n
    BY <1>1, <1>2
  <2> QED
    BY <1>7, <1>8, <2>1
<1> QED
  BY <1>3, <1>7, <1>10, <1>11 DEF new

LEMMA MeasuredTypes ==
  ASSUME Types, NEW i \in 0..MaxComb - 1
  PROVE  /\ Measured(i) \in PathIndex
         /\ Measured(i).num = pI.num /\ Measured(i).active = pI.active
         /\ \A j \in 0..MaxComb - 1 : Measured(i).pM[j].mask = pI.pM[j].mask
<1> DEFINE new == [pI.pM[i] EXCEPT !.measured = {enabled}]
<1>1. {enabled} \in SUBSET SUBSET Sock
  BY ListedSock DEF Types, ListInv
<1>2. pI \in PathIndex
  BY DEF Types
<1>3. pI.pM \in [0..MaxComb - 1 -> Entry] /\ pI.num \in 0..MaxComb /\ pI.active \in -1..MaxComb - 1
  BY <1>2 DEF PathIndex, Entry
<1>4. pI.pM[i] \in Entry
  BY <1>3
<1>5. new \in Entry /\ new.mask = pI.pM[i].mask
  BY <1>1, <1>4 DEF Entry
<1>6. Measured(i) = [pI EXCEPT !.pM = [pI.pM EXCEPT ![i] = new]]
  BY <1>2, <1>3 DEF Measured, PathIndex
<1> HIDE DEF new
<1>7. [pI.pM EXCEPT ![i] = new] \in [0..MaxComb - 1 -> Entry]
  BY <1>3, <1>5
<1> DEFINE row == [pI.pM EXCEPT ![i] = new]
<1>8. \A j \in 0..MaxComb - 1 : row[j].mask = pI.pM[j].mask
  BY <1>3, <1>5
<1> HIDE DEF row
<1>9. Measured(i) = [num |-> pI.num, active |-> pI.active, pM |-> row]
  BY <1>2, <1>6 DEF PathIndex, row
<1>10. row \in [0..MaxComb - 1 -> Entry]
  BY <1>7 DEF row
<1>11. Measured(i) \in PathIndex
  BY <1>3, <1>9, <1>10 DEF PathIndex, Entry
<1> QED
  BY <1>8, <1>9, <1>11

LEMMA TestTypes ==
  ASSUME Types, NEW p \in PathIndex, p.num > 0 => p.active < p.num, NEW i \in 0..MaxComb - 1,
         Test(p, i)
  PROVE  /\ enable_mask' \in Mask \cup UserMasks
         /\ pI' \in PathIndex /\ (pI'.num > 0 => pI'.active < pI'.num)
         /\ check' \in Tests /\ check'.test_index \in 0..MaxComb - 1
         /\ sysctl' = sysctl
<1>1. p.pM[i].mask \in Mask
  BY DEF PathIndex
<1>2. i \in 0..MaxComb
  BY PathCheckAssumption
<1> QED
  BY <1>1, <1>2 DEF Test, Tests

LEMMA PathCheckerTypes ==
  ASSUME IndexHolds, Types, pathChecker, UNCHANGED meta_sk, ListInv'
  PROVE  Types'
<1>1. update_due' \in BOOLEAN
  BY DEF Types, pathChecker
<1>2. MaxComb \in Nat \ {0}
  BY PathCheckAssumption
<1>3. CASE StartCheck
  <2>1. PICK found \in SetToSeqs(Combinations(sk_list)) : Test(NewIndex(found), 0)
    BY <1>3 DEF StartCheck
  <2> DEFINE p == NewIndex(found)
  <2>2. p \in PathIndex /\ p.active = -1
    BY NewIndexHolds
  <2>3. p.num > 0 => p.active < p.num
    <3>1. p.num \in Nat
      BY <1>2, <2>2 DEF PathIndex
    <3> HIDE DEF p
    <3> QED
      BY <2>2, <3>1
  <2> HIDE DEF p
  <2>4. 0 \in 0..MaxComb - 1
    BY <1>2
  <2>5. planned' = sk_list
    BY <1>3 DEF StartCheck
  <2> QED
    BY <1>1, <2>1, <2>2, <2>3, <2>4, <2>5, TestTypes DEF Types, ListInv, p
<1>4. CASE GoOn
  BY <1>1, <1>4 DEF GoOn, Types
<1>5. CASE NextCombination
  <2> DEFINE i == check.test_index
             p == Measured(i)
  <2>1. i \in 0..MaxComb - 1 /\ ~ (i + 1 >= pI.num)
    BY <1>5 DEF NextCombination, LastTest, Types
  <2>2. pI.num \in 0..MaxComb
    BY DEF Types, PathIndex
  <2>3. i + 1 \in 0..MaxComb - 1
    BY <1>2, <2>1, <2>2
  <2>4. p \in PathIndex /\ (p.num > 0 => p.active < p.num)
    BY <2>1, MeasuredTypes DEF Types
  <2>5. Test(p, i + 1) /\ planned' = planned
    BY <1>5 DEF NextCombination, NextTest
  <2> HIDE DEF p, i
  <2> QED
    BY <1>1, <2>3, <2>4, <2>5, TestTypes DEF Types
<1>6. CASE FinishCheck
  <2>1. check.test_index \in 0..MaxComb - 1
    BY <1>6 DEF FinishCheck, Types
  <2>2. check.test_index + 1 \in 0..MaxComb
    BY <1>2, <2>1
  <2>3. pI' \in PathIndex /\ pI'.num = pI.num /\ pI'.active = pI.active
    BY <1>6, <2>1, MeasuredTypes DEF FinishCheck
  <2>4. check' \in Tests /\ ~ check'.running
    BY <1>6, <2>2 DEF FinishCheck, Tests
  <2>5. sysctl' \in Switches
    BY <1>6 DEF FinishCheck, Types, Switches
  <2>6. UNCHANGED <<enable_mask, planned>>
    BY <1>6 DEF FinishCheck
  <2> QED
    BY <1>1, <2>3, <2>4, <2>5, <2>6 DEF Types
<1> QED
  BY <1>3, <1>4, <1>5, <1>6 DEF pathChecker

LEMMA ScheduleTypes ==
  ASSUME Types, NEW list, NEW on, NEW p \in PathIndex, p.num > 0 => p.active < p.num,
         NEW switches \in Switches, Schedule(list, on, p, switches),
         meta_sk' \in Meta \cup {NoMeta}, ListInv'
  PROVE  Types'
<1>1. UNCHANGED <<check, planned>>
  BY DEF Schedule
<1>2. CASE PeriodicUpdate(list, on, p, switches)
  <2> DEFINE a == NextActive(p)
  <2>1. update_due' = FALSE /\ enable_mask' = sysctl'.enablemask /\ UpdateSysctl(p, switches)
    BY <1>2 DEF PeriodicUpdate
  <2>2. CASE switches.setPath /\ p.num > 0
    <3>1. pI' = [p EXCEPT !.active = a]
          /\ sysctl' = [switches EXCEPT !.setPath = FALSE, !.enablemask = p.pM[a].mask]
      BY <2>1, <2>2 DEF UpdateSysctl
    <3>2. a \in 0..p.num - 1 /\ a \in 0..MaxComb - 1
      <4>1. MaxComb \in Nat /\ p.num \in 0..MaxComb /\ p.active \in -1..MaxComb - 1
        BY PathCheckAssumption DEF PathIndex
      <4> QED
        BY <2>2, <4>1 DEF NextActive
    <3> HIDE DEF a
    <3>3. p.pM[a].mask \in Mask
      BY <3>2 DEF PathIndex
    <3>4. sysctl' \in Switches /\ enable_mask' \in Mask \cup UserMasks
      BY <2>1, <3>1, <3>3 DEF Switches
    <3>5. a \in -1..MaxComb - 1
      BY <3>2
    <3>6. pI' \in PathIndex /\ pI'.active < pI'.num
      BY <3>1, <3>2, <3>5 DEF PathIndex
    <3> QED
      BY <1>1, <2>1, <3>4, <3>6 DEF Types
  <2>3. CASE ~ (switches.setPath /\ p.num > 0)
    BY <1>1, <2>1, <2>3 DEF UpdateSysctl, Types, Switches
  <2> QED
    BY <2>2, <2>3
<1>3. CASE NoUpdate(list, on, p, switches)
  BY <1>1, <1>3 DEF NoUpdate, Types
<1> QED
  BY <1>2, <1>3 DEF Schedule

LEMMA TypesKeep ==
  ASSUME IndexHolds, Types, [Next]_vars
  PROVE  Types'
<1>1. ListInv'
  BY ListInvKeeps DEF Types
<1>2. pI \in PathIndex /\ (pI.num > 0 => pI.active < pI.num) /\ sysctl \in Switches
  BY DEF Types
<1>3. ASSUME SendNextSegment PROVE Types'
  <2>1. meta_sk' = meta_sk
    BY <1>3 DEF SendNextSegment
  <2>2. CASE pathChecker
    BY <1>1, <2>1, <2>2, PathCheckerTypes
  <2>3. CASE Schedule(sk_list, enabled, pI, sysctl)
    BY <1>1, <1>2, <2>1, <2>3, ScheduleTypes DEF Types
  <2> QED
    BY <1>3, <2>2, <2>3 DEF SendNextSegment
<1>4. ASSUME NEW new \in Meta, SendForOther(new) PROVE Types'
  <2> DEFINE p == [pI EXCEPT !.num = 0]
             switches == [sysctl EXCEPT !.runpathcheck = FALSE]
  <2>1. p \in PathIndex /\ p.num = 0
    BY <1>2, PathCheckAssumption DEF PathIndex
  <2>2. switches \in Switches
    BY <1>2 DEF Switches
  <2>3. Schedule(<<>>, {}, p, switches) /\ meta_sk' \in Meta \cup {NoMeta}
    BY <1>4 DEF SendForOther
  <2> HIDE DEF p, switches
  <2> QED
    BY <1>1, <2>1, <2>2, <2>3, ScheduleTypes
<1>5. ASSUME NEW s \in Sock, Appears(s) \/ Fails(s) \/ Unseen(s) PROVE Types'
  BY <1>1, <1>5 DEF Appears, Fails, Unseen, Types
<1>6. ASSUME RunPathCheck \/ SetPath \/ (\E mask \in UserMasks : SetMask(mask)) PROVE Types'
  BY <1>1, <1>6 DEF RunPathCheck, SetPath, SetMask, Types, Switches
<1>7. ASSUME TestRunsOut PROVE Types'
  BY <1>1, <1>7 DEF TestRunsOut, Types, Tests
<1>8. ASSUME UpdateComesDue \/ UNCHANGED vars PROVE Types'
  BY <1>1, <1>8 DEF UpdateComesDue, vars, Types
<1> QED
  BY <1>3, <1>4, <1>5, <1>6, <1>7, <1>8 DEF Next

LEMMA TypesStart ==
  Init => Types
<1> SUFFICES ASSUME Init PROVE Types
  OBVIOUS
<1>1. ListInv
  BY ListInvStarts
<1>2. MaxComb \in Nat \ {0} /\ {} \in Mask /\ {} \in SUBSET SUBSET Sock
  BY PathCheckAssumption DEF Mask
<1>3. pI \in PathIndex /\ pI.num = 0
  BY <1>2 DEF Init, PathIndex
<1>4. check \in Tests /\ ~ check.running
  BY <1>2 DEF Init, Tests
<1>5. sysctl \in Switches
  BY DEF Init, Switches
<1>6. planned \in Seq(Sock) /\ Sorted(planned)
  BY DEF Init, Sorted
<1> QED
  BY <1>1, <1>2, <1>3, <1>4, <1>5, <1>6 DEF Init, Types

\* The state of the path checker stays in its types: masks within the list, the active
\* combination and the one under test within the index, if the index has room for the
\* combinations of every list.
THEOREM TypeCorrect == ASSUME IndexHolds PROVE Spec => []TypeOK
<1>1. Types /\ [Next]_vars => Types'
  BY TypesKeep
<1>2. Spec => []Types
  BY <1>1, TypesStart, PTL DEF Spec
<1> QED
  BY <1>2, TypesImply, PTL

(***************************************************************************)
(* The paths under test                                                    *)
(***************************************************************************)

\* No entry of the planned list up to k has left.
Unmoved(k) == \A i \in 1..k : planned[i] \in Listed(sk_list)

\* While a check that found combinations runs, they are free of overlap in the list they
\* were found in, the enabled subflows are of the one under test, and where no entry has
\* left the indices still mean what they meant.
CheckInv ==
    check.running /\ pI.num > 0 =>
      /\ sysctl.runpathcheck
      /\ \A i \in 0..pI.num - 1 : OverlapFree(EnabledBy(pI.pM[i].mask, planned))
      /\ check.test_index < pI.num
      /\ enable_mask = pI.pM[check.test_index].mask
      /\ \A k \in 1..Len(planned) : Unmoved(k) =>
           /\ k <= Len(sk_list) /\ sk_list[k] = planned[k]
           /\ planned[k] \in enabled => k - 1 \in enable_mask

LEMMA CheckInvImplies ==
  Types /\ CheckInv => UnshiftedTestsOverlapFree
<1> SUFFICES ASSUME Types, CheckInv, pI.num > 0, IsPrefix(sk_list, planned), check.running,
                    NEW s \in enabled, NEW t \in enabled, s # t
             PROVE  Saddr[s] # Saddr[t] /\ Daddr[s] # Daddr[t]
  BY DEF UnshiftedTestsOverlapFree, TestsOverlapFree, NoSharedEnd
<1> DEFINE n == Len(sk_list)
<1>1. /\ sk_list \in Seq(Sock) /\ planned \in Seq(Sock)
      /\ n \in Nat /\ DOMAIN sk_list = 1..n /\ enabled \subseteq Listed(sk_list)
      /\ DOMAIN planned = 1..Len(planned) /\ Len(planned) \in Nat
  BY DEF Types, ListInv
<1>2. n <= Len(planned) /\ \A i \in 1..n : planned[i] = sk_list[i]
  <2>1. n <= Len(planned) /\ SubSeq(sk_list, 1, n) = SubSeq(planned, 1, n)
    BY DEF IsPrefix
  <2>2. ASSUME NEW i \in 1..n PROVE planned[i] = sk_list[i]
    <3>1. SubSeq(sk_list, 1, n)[i] = sk_list[i]
      BY <1>1
    <3>2. SubSeq(planned, 1, n)[i] = planned[i]
      BY <1>1, <2>1
    <3> QED
      BY <2>1, <3>1, <3>2
  <2> QED
    BY <2>1, <2>2
<1> HIDE DEF n
<1> DEFINE mask == pI.pM[check.test_index].mask
<1>3. OverlapFree(EnabledBy(mask, planned)) /\ enable_mask = mask
  <2>1. check.test_index \in 0..pI.num - 1
    <3>1. check.test_index \in Nat /\ pI.num \in Nat
      BY PathCheckAssumption DEF Types, PathIndex, Tests
    <3> QED
      BY <3>1 DEF CheckInv
  <2> QED
    BY <2>1 DEF CheckInv
<1>4. \A u \in enabled : u \in EnabledBy(mask, planned)
  <2> SUFFICES ASSUME NEW u \in enabled PROVE u \in EnabledBy(mask, planned)
    OBVIOUS
  <2>1. PICK k \in 1..n : u = sk_list[k]
    BY <1>1 DEF Listed
  <2>2. \A i \in 1..k : i \in 1..n
    BY <1>1
  <2>3. \A i \in 1..k : planned[i] \in Listed(sk_list)
    BY <1>1, <1>2, <2>2 DEF Listed
  <2>4. k \in 1..Len(planned) /\ planned[k] = u
    BY <1>1, <1>2, <2>1
  <2>5. k - 1 \in mask
    BY <1>3, <2>3, <2>4 DEF CheckInv, Unmoved
  <2> QED
    BY <1>1, <2>4, <2>5 DEF EnabledBy
<1> QED
  BY <1>3, <1>4 DEF OverlapFree

\* Where no entry has left since the plan, none has left before, and those up to k stay.
LEMMA UnmovedBefore ==
  ASSUME Types, Listed(sk_list') = {s \in Listed(sk_list) : Stays(s)},
         NEW k \in 1..Len(planned), \A i \in 1..k : planned[i] \in Listed(sk_list')
  PROVE  /\ \A i \in 1..k : Unmoved(i) /\ Stays(planned[i]) /\ i \in 1..Len(planned)
<1>1. Len(planned) \in Nat
  BY DEF Types
<1> QED
  BY <1>1 DEF Unmoved

\* A call that only removes entries, and enables nothing new.
LEMMA RemovalKeeps ==
  ASSUME Types, CheckInv, check.running, pI.num > 0, Leave(sk_list, enabled),
         UNCHANGED <<planned, enable_mask>>
  PROVE  \A k \in 1..Len(planned) : Unmoved(k)' =>
           /\ k <= Len(sk_list') /\ sk_list'[k] = planned[k]
           /\ planned[k] \in enabled' => k - 1 \in enable_mask
<1> SUFFICES ASSUME NEW k \in 1..Len(planned), Unmoved(k)'
             PROVE  /\ k <= Len(sk_list') /\ sk_list'[k] = planned[k]
                    /\ planned[k] \in enabled' => k - 1 \in enable_mask
  OBVIOUS
<1>1. /\ enabled' \subseteq enabled
      /\ Listed(sk_list') = {s \in Listed(sk_list) : Stays(s)}
      /\ \A m \in 1..Len(sk_list) : (\A i \in 1..m : Stays(sk_list[i]))
              => m <= Len(sk_list') /\ sk_list'[m] = sk_list[m]
  BY LeaveSorts DEF Types, ListInv
<1>2. \A i \in 1..k : planned[i] \in Listed(sk_list')
  BY DEF Unmoved
<1>3. \A i \in 1..k : Unmoved(i) /\ Stays(planned[i]) /\ i \in 1..Len(planned)
  BY <1>1, <1>2, UnmovedBefore
<1>4. \A i \in 1..k : sk_list[i] = planned[i] /\ i <= Len(sk_list)
  BY <1>3 DEF CheckInv
<1>5. k \in 1..k /\ k \in 1..Len(sk_list)
  <2>1. Len(planned) \in Nat /\ Len(sk_list) \in Nat
    BY DEF Types, ListInv
  <2> QED
    BY <1>4, <2>1
<1>6. k <= Len(sk_list') /\ sk_list'[k] = planned[k]
  BY <1>1, <1>3, <1>4, <1>5
<1>7. planned[k] \in enabled => k - 1 \in enable_mask
  BY <1>3, <1>5 DEF CheckInv
<1> QED
  BY <1>1, <1>6, <1>7

\* A test of the mask: what it enables of the entries that have not moved.
LEMMA TestKeeps ==
  ASSUME Types, NEW mask, Leave(sk_list, EnabledBy(mask, sk_list)),
         NEW k \in 1..Len(sk_list), \A i \in 1..k : Stays(sk_list[i])
  PROVE  /\ k <= Len(sk_list') /\ sk_list'[k] = sk_list[k]
         /\ sk_list[k] \in enabled' => k - 1 \in mask
<1>1. /\ enabled' \subseteq EnabledBy(mask, sk_list)
      /\ k <= Len(sk_list') /\ sk_list'[k] = sk_list[k]
  BY LeaveSorts DEF Types, ListInv
<1>2. ASSUME sk_list[k] \in EnabledBy(mask, sk_list) PROVE k - 1 \in mask
  <2>1. PICK j \in DOMAIN sk_list : j - 1 \in mask /\ sk_list[j] = sk_list[k]
    BY <1>2 DEF EnabledBy
  <2>2. k \in DOMAIN sk_list
    BY DEF Types, ListInv
  <2>3. j = k
    BY <2>1, <2>2, SortedInjective DEF Types, ListInv
  <2> QED
    BY <2>1, <2>3
<1> QED
  BY <1>1, <1>2

LEMMA PathCheckerKeeps ==
  ASSUME IndexHolds, Types, CheckInv, pathChecker, sysctl.runpathcheck
  PROVE  CheckInv'
<1>1. /\ sk_list \in Seq(Sock) /\ Sorted(sk_list) /\ planned \in Seq(Sock)
      /\ Len(sk_list) \in Nat /\ DOMAIN sk_list = 1..Len(sk_list) /\ Len(planned) \in Nat
  BY DEF Types, ListInv
<1>2. CASE StartCheck
  <2>1. PICK found \in SetToSeqs(Combinations(sk_list)) : Test(NewIndex(found), 0)
    BY <1>2 DEF StartCheck
  <2> DEFINE p == NewIndex(found)
             mask == p.pM[0].mask
  <2>2. /\ planned' = sk_list /\ pI' = p /\ enable_mask' = mask /\ sysctl' = sysctl
        /\ check'.test_index = 0 /\ Leave(sk_list, EnabledBy(mask, sk_list))
    BY <1>2, <2>1 DEF StartCheck, Test
  <2>3. \A i \in 0..p.num - 1 : OverlapFree(EnabledBy(p.pM[i].mask, sk_list))
    BY NewIndexHolds
  <2> HIDE DEF p, mask
  <2>4. ASSUME NEW k \in 1..Len(sk_list), \A i \in 1..k : sk_list[i] \in Listed(sk_list')
        PROVE  /\ k <= Len(sk_list') /\ sk_list'[k] = sk_list[k]
               /\ sk_list[k] \in enabled' => k - 1 \in mask
    <3>1. \A i \in 1..k : Stays(sk_list[i])
      BY <1>1, <2>2, <2>4, LeaveSorts DEF Types
    <3> QED
      BY <2>2, <3>1, TestKeeps
  <2>5. sysctl'.runpathcheck
    BY <2>2
  <2>6. \A k \in 1..Len(planned') : Unmoved(k)' =>
           /\ k <= Len(sk_list') /\ sk_list'[k] = planned'[k]
           /\ planned'[k] \in enabled' => k - 1 \in enable_mask'
    BY <2>2, <2>4 DEF Unmoved
  <2>7. pI'.num > 0 => check'.test_index < pI'.num
    BY <2>2
  <2>8. \A i \in 0..pI'.num - 1 : OverlapFree(EnabledBy(pI'.pM[i].mask, planned'))
    BY <2>2, <2>3
  <2>9. enable_mask' = pI'.pM[check'.test_index].mask
    BY <2>2 DEF mask
  <2> QED
    BY <2>5, <2>6, <2>7, <2>8, <2>9 DEF CheckInv
<1>3. CASE GoOn
  <2> SUFFICES ASSUME check.running, pI.num > 0 PROVE CheckInv'
    BY <1>3 DEF GoOn, CheckInv
  <2>1. UNCHANGED <<pI, enable_mask, check, sysctl, planned>> /\ Leave(sk_list, enabled)
    BY <1>3 DEF GoOn
  <2>2. \A k \in 1..Len(planned) : Unmoved(k)' =>
           /\ k <= Len(sk_list') /\ sk_list'[k] = planned[k]
           /\ planned[k] \in enabled' => k - 1 \in enable_mask
    BY <2>1, RemovalKeeps
  <2> QED
    BY <2>1, <2>2 DEF CheckInv
<1>4. CASE NextCombination
  <2> DEFINE i == check.test_index
             p == Measured(i)
             mask == p.pM[i + 1].mask
  <2>1. check.running /\ i \in 0..MaxComb - 1 /\ ~ (i + 1 >= pI.num)
    BY <1>4 DEF NextCombination, LastTest, Types
  <2>2. pI.num \in 0..MaxComb /\ MaxComb \in Nat
    BY PathCheckAssumption DEF Types, PathIndex
  <2>3. p.num = pI.num /\ \A j \in 0..MaxComb - 1 : p.pM[j].mask = pI.pM[j].mask
    BY <2>1, MeasuredTypes
  <2>4. /\ pI' = p /\ enable_mask' = mask /\ check'.test_index = i + 1
        /\ Leave(sk_list, EnabledBy(mask, sk_list))
        /\ UNCHANGED <<sysctl, planned>>
    BY <1>4 DEF NextCombination, NextTest, Test
  <2> HIDE DEF p, i, mask
  <2>5. pI.num > 0 /\ i + 1 < pI.num
    BY <2>1, <2>2
  <2>6. \A j \in 0..pI'.num - 1 : OverlapFree(EnabledBy(pI'.pM[j].mask, planned'))
    <3>1. \A j \in 0..pI'.num - 1 : j \in 0..MaxComb - 1 /\ j \in 0..pI.num - 1
      BY <2>2, <2>3, <2>4
    <3> QED
      BY <2>1, <2>3, <2>4, <2>5, <3>1 DEF CheckInv
  <2>7. ASSUME NEW k \in 1..Len(planned), Unmoved(k)'
        PROVE  /\ k <= Len(sk_list') /\ sk_list'[k] = planned[k]
               /\ planned[k] \in enabled' => k - 1 \in mask
    <3>1. \A j \in 1..k : planned[j] \in Listed(sk_list')
      BY <2>4, <2>7 DEF Unmoved
    <3>2. Listed(sk_list') = {s \in Listed(sk_list) : Stays(s)}
      BY <1>1, <2>4, LeaveSorts DEF Types
    <3>3. \A j \in 1..k : Unmoved(j) /\ Stays(planned[j]) /\ j \in 1..Len(planned)
      BY <3>1, <3>2, UnmovedBefore
    <3>4. \A j \in 1..k : sk_list[j] = planned[j] /\ j <= Len(sk_list)
      BY <2>1, <2>5, <3>3 DEF CheckInv
    <3>5. k \in 1..k /\ k \in 1..Len(sk_list)
      BY <1>1, <3>4
    <3> QED
      BY <2>4, <3>3, <3>4, <3>5, TestKeeps
  <2>8. sysctl'.runpathcheck
    BY <2>1, <2>4, <2>5 DEF CheckInv
  <2>9. enable_mask' = pI'.pM[check'.test_index].mask
    BY <2>4 DEF mask
  <2>10. check'.test_index < pI'.num
    BY <2>3, <2>4, <2>5
  <2> QED
    BY <2>4, <2>6, <2>7, <2>8, <2>9, <2>10 DEF CheckInv
<1>5. CASE FinishCheck
  BY <1>5 DEF FinishCheck, CheckInv
<1> QED
  BY <1>2, <1>3, <1>4, <1>5 DEF pathChecker

\* The call without a path check: none with combinations is under way.
LEMMA ScheduleKeeps ==
  ASSUME NEW list, NEW on, NEW p \in PathIndex, NEW switches,
         ~ check.running \/ p.num = 0,
         Schedule(list, on, p, switches)
  PROVE  CheckInv'
<1>1. check' = check
  BY DEF Schedule
<1>2. pI' = p \/ \E a : pI' = [p EXCEPT !.active = a]
  BY DEF Schedule, PeriodicUpdate, NoUpdate, UpdateSysctl
<1>3. ~ check'.running \/ pI'.num = 0
  BY <1>1, <1>2 DEF PathIndex
<1> QED
  BY <1>3 DEF CheckInv

LEMMA CheckInvKeeps ==
  ASSUME IndexHolds, Types, CheckInv, [Next]_vars
  PROVE  CheckInv'
<1>1. ASSUME SendNextSegment PROVE CheckInv'
  <2>1. CASE sysctl.runpathcheck /\ pathChecker
    BY <2>1, PathCheckerKeeps
  <2>2. CASE ~ sysctl.runpathcheck /\ Schedule(sk_list, enabled, pI, sysctl)
    <3>1. ~ check.running \/ pI.num = 0
      <4>1. pI.num \in Nat
        BY PathCheckAssumption DEF Types, PathIndex
      <4> QED
        BY <2>2, <4>1 DEF CheckInv
    <3> QED
      BY <2>2, <3>1, ScheduleKeeps DEF Types
  <2> QED
    BY <1>1, <2>1, <2>2 DEF SendNextSegment
<1>2. ASSUME NEW new \in Meta, SendForOther(new) PROVE CheckInv'
  <2> DEFINE p == [pI EXCEPT !.num = 0]
  <2>1. p \in PathIndex /\ p.num = 0
    BY PathCheckAssumption DEF Types, PathIndex
  <2>2. Schedule(<<>>, {}, p, [sysctl EXCEPT !.runpathcheck = FALSE])
    BY <1>2 DEF SendForOther
  <2> HIDE DEF p
  <2> QED
    BY <2>1, <2>2, ScheduleKeeps
<1>3. ASSUME \/ \E s \in Sock : Appears(s) \/ Fails(s) \/ Unseen(s)
             \/ UpdateComesDue \/ UNCHANGED vars
      PROVE  CheckInv'
  BY <1>3 DEF Appears, Fails, Unseen, UpdateComesDue, vars, CheckInv, Unmoved
<1>4. ASSUME RunPathCheck \/ SetPath \/ (\E mask \in UserMasks : SetMask(mask)) PROVE CheckInv'
  <2>1. UNCHANGED <<sk_list, enabled, enable_mask, pI, check, planned>>
    BY <1>4 DEF RunPathCheck, SetPath, SetMask
  <2>2. sysctl.runpathcheck => sysctl'.runpathcheck
    BY <1>4 DEF RunPathCheck, SetPath, SetMask, Types, Switches
  <2> QED
    BY <2>1, <2>2 DEF CheckInv, Unmoved
<1>5. ASSUME TestRunsOut PROVE CheckInv'
  <2>1. UNCHANGED <<sk_list, enabled, enable_mask, pI, sysctl, planned>>
        /\ check'.running = check.running /\ check'.test_index = check.test_index
    BY <1>5 DEF TestRunsOut, Types, Tests
  <2> QED
    BY <2>1 DEF CheckInv, Unmoved
<1> QED
  BY <1>1, <1>2, <1>3, <1>4, <1>5 DEF Next

\* "without using any interface (i.e. ip address) more than once" (rmptcp_pathcheck.c):
\* for any subflows and connections, no two paths that a check has enabled share an end
\* as long as no entry of the list has moved since the combinations were found.  The index
\* must have room for them.
THEOREM TestsWhatWasFound == ASSUME IndexHolds PROVE Spec => []UnshiftedTestsOverlapFree
<1>1. Init => CheckInv
  BY DEF Init, CheckInv
<1>2. Types /\ CheckInv /\ [Next]_vars => Types' /\ CheckInv'
  BY TypesKeep, CheckInvKeeps
<1>3. Spec => [](Types /\ CheckInv)
  BY <1>1, <1>2, TypesStart, PTL DEF Spec
<1> QED
  BY <1>3, CheckInvImplies, PTL

(***************************************************************************)
(* The combinations measured                                               *)
(***************************************************************************)

\* While a check that found combinations runs, they are all of the list it found them in,
\* and while none of its paths is lost those tested were measured as they are.
MeasureInv ==
    check.running /\ pI.num > 0 =>
      /\ Listed(sk_list) \subseteq Listed(planned)
      /\ \A mask \in Combinations(planned) : \E j \in 0..pI.num - 1 : pI.pM[j].mask = mask
      /\ Combinations(planned) # {}
      /\ sk_list = planned =>
           /\ enabled = EnabledBy(enable_mask, planned)
           /\ \A j \in 0..check.test_index - 1 :
                pI.pM[j].measured = {EnabledBy(pI.pM[j].mask, planned)}

\* A list that has lost nothing of the planned one is the planned one.
LEMMA NothingLost ==
  ASSUME Types, CheckInv, MeasureInv, check.running, pI.num > 0,
         Listed(planned) \subseteq Listed(sk_list)
  PROVE  sk_list = planned
<1>1. /\ sk_list \in Seq(Sock) /\ planned \in Seq(Sock) /\ Sorted(sk_list)
      /\ Len(sk_list) \in Nat /\ DOMAIN sk_list = 1..Len(sk_list)
      /\ Len(planned) \in Nat /\ DOMAIN planned = 1..Len(planned)
  BY DEF Types, ListInv
<1>2. \A k \in 1..Len(planned) : Unmoved(k)
  <2>1. \A i \in 1..Len(planned) : planned[i] \in Listed(sk_list)
    BY <1>1 DEF Listed
  <2>2. \A k \in 1..Len(planned) : \A i \in 1..k : i \in 1..Len(planned)
    BY <1>1
  <2> QED
    BY <2>1, <2>2 DEF Unmoved
<1>3. \A k \in 1..Len(planned) : k <= Len(sk_list) /\ sk_list[k] = planned[k]
  BY <1>2 DEF CheckInv
<1>4. \A k \in 1..Len(sk_list) : k <= Len(planned)
  <2> SUFFICES ASSUME NEW k \in 1..Len(sk_list) PROVE k <= Len(planned)
    OBVIOUS
  <2>1. sk_list[k] \in Listed(planned)
    BY <1>1 DEF MeasureInv, Listed
  <2>2. PICK j \in 1..Len(planned) : planned[j] = sk_list[k]
    BY <1>1, <2>1 DEF Listed
  <2>3. j \in DOMAIN sk_list /\ k \in DOMAIN sk_list /\ sk_list[j] = sk_list[k]
    BY <1>1, <1>3, <2>2
  <2>4. j = k
    BY <1>1, <2>3, SortedInjective
  <2> QED
    BY <2>4
<1>5. Len(sk_list) = Len(planned)
  <2>1. Len(planned) <= Len(sk_list)
    <3>1. CASE Len(planned) = 0
      BY <1>1, <3>1
    <3>2. CASE Len(planned) # 0
      <4>1. Len(planned) \in 1..Len(planned)
        BY <1>1, <3>2
      <4> QED
        BY <1>3, <4>1
    <3> QED
      BY <3>1, <3>2
  <2>2. Len(sk_list) <= Len(planned)
    <3>1. CASE Len(sk_list) = 0
      BY <1>1, <3>1
    <3>2. CASE Len(sk_list) # 0
      <4>1. Len(sk_list) \in 1..Len(sk_list)
        BY <1>1, <3>2
      <4> QED
        BY <1>4, <4>1
    <3> QED
      BY <3>1, <3>2
  <2>3. Len(sk_list) \in Nat /\ Len(planned) \in Nat
    BY <1>1
  <2> QED
    BY <2>1, <2>2, <2>3
<1> QED
  BY <1>1, <1>3, <1>5

\* All combinations of the list are in its index.
LEMMA NewIndexComplete ==
  ASSUME IndexHolds, Types, NEW found \in SetToSeqs(Combinations(sk_list))
  PROVE  /\ \A mask \in Combinations(sk_list) :
              \E j \in 0..NewIndex(found).num - 1 : NewIndex(found).pM[j].mask = mask
         /\ NewIndex(found).num > 0 => Combinations(sk_list) # {}
<1> DEFINE C == Combinations(sk_list)
           n == Cardinality(C)
           new == NewIndex(found)
<1>1. sk_list \in Seq(Sock) /\ Sorted(sk_list) /\ MaxComb \in Nat \ {0}
  BY PathCheckAssumption DEF Types, ListInv
<1>2. n \in Nat /\ n <= MaxComb
  BY <1>1, CombinationsFit DEF IndexHolds
<1>3. found \in [1..n -> C] /\ \A i, j \in 1..n : i # j => found[i] # found[j]
  BY DEF SetToSeqs
<1>4. n > 0 => C # {}
  BY FS_EmptySet
<1>5. IsFiniteSet(C)
  <2>1. IsFiniteSet(0..Len(sk_list) - 1)
    BY <1>1, FS_Interval
  <2>2. IsFiniteSet(SUBSET (0..Len(sk_list) - 1))
    BY <2>1, FS_SUBSET
  <2>3. C \in SUBSET SUBSET (0..Len(sk_list) - 1)
    BY DEF Combinations, kSubset
  <2> QED
    BY <2>2, <2>3, FS_Subset
<1> HIDE DEF C
<1>6. Cardinality(1..n) = n
  BY <1>2, FS_Interval
<1> HIDE DEF n
<1>7. found \in Injection(1..n, C)
  BY <1>3 DEF Injection, IsInjective
<1>8. found \in Surjection(1..n, C)
  BY <1>5, <1>6, <1>7, FS_Injection DEF n
<1>9. \A mask \in C : \E i \in 1..n : found[i] = mask
  BY <1>8 DEF Surjection
<1>10. Len(found) = n /\ DOMAIN pI.pM = 0..MaxComb - 1
  BY <1>2, <1>3 DEF Types, PathIndex
<1>11. new.num = n /\ \A j \in 0..MaxComb - 1 : j < n => new.pM[j].mask = found[j + 1]
  BY <1>10 DEF NewIndex
<1> HIDE DEF new
<1>12. ASSUME NEW mask \in C PROVE \E j \in 0..new.num - 1 : new.pM[j].mask = mask
  <2>1. PICK i \in 1..n : found[i] = mask
    BY <1>9
  <2>2. i - 1 \in 0..n - 1 /\ i - 1 \in 0..MaxComb - 1 /\ i - 1 < n /\ (i - 1) + 1 = i
    BY <1>1, <1>2
  <2> QED
    BY <1>11, <2>1, <2>2
<1> QED
  BY <1>4, <1>11, <1>12 DEF new, C

LEMMA EnabledByListed ==
  ASSUME NEW list, NEW mask
  PROVE  EnabledBy(mask, list) \subseteq Listed(list)
BY DEF EnabledBy, Listed

LEMMA PathCheckerMeasures ==
  ASSUME IndexHolds, Types, CheckInv, MeasureInv, pathChecker
  PROVE  MeasureInv'
<1>1. sk_list \in Seq(Sock) /\ Sorted(sk_list)
  BY DEF Types, ListInv
<1>2. CASE StartCheck
  <2>1. PICK found \in SetToSeqs(Combinations(sk_list)) : Test(NewIndex(found), 0)
    BY <1>2 DEF StartCheck
  <2> DEFINE p == NewIndex(found)
             mask == p.pM[0].mask
  <2>2. /\ planned' = sk_list /\ pI' = p /\ enable_mask' = mask
        /\ check'.test_index = 0 /\ Leave(sk_list, EnabledBy(mask, sk_list))
    BY <1>2, <2>1 DEF StartCheck, Test
  <2>3. /\ \A m \in Combinations(sk_list) : \E j \in 0..p.num - 1 : p.pM[j].mask = m
        /\ p.num > 0 => Combinations(sk_list) # {}
    BY NewIndexComplete
  <2> HIDE DEF p, mask
  <2>4. Listed(sk_list') \subseteq Listed(sk_list)
    BY <1>1, <2>2, LeaveSorts DEF Types
  <2>5. sk_list' = sk_list => enabled' = EnabledBy(mask, sk_list)
    BY <2>2, EnabledByListed DEF Leave
  <2>6. Listed(sk_list)' \subseteq Listed(planned)'
    BY <2>2, <2>4
  <2>7. Combinations(planned)' = Combinations(sk_list)
    BY <2>2
  <2>8. EnabledBy(enable_mask, planned)' = EnabledBy(mask, sk_list)
    BY <2>2
  <2>9. \A j \in 0..check'.test_index - 1 : FALSE
    BY <2>2
  <2> QED
    BY <2>2, <2>3, <2>5, <2>6, <2>7, <2>8, <2>9 DEF MeasureInv
<1>3. CASE GoOn
  <2> SUFFICES ASSUME check.running, pI.num > 0 PROVE MeasureInv'
    BY <1>3 DEF GoOn, MeasureInv
  <2>1. UNCHANGED <<pI, enable_mask, check, planned>> /\ Leave(sk_list, enabled)
    BY <1>3 DEF GoOn
  <2>2. Listed(sk_list') \subseteq Listed(sk_list) /\ enabled' = enabled \cap Listed(sk_list')
    BY <1>1, <2>1, LeaveSorts DEF Types, Leave
  <2>3. ASSUME sk_list' = planned PROVE sk_list = planned /\ enabled' = enabled
    <3>1. sk_list = planned
      BY <2>2, <2>3, NothingLost
    <3> QED
      BY <2>2, <2>3, <3>1 DEF Types, ListInv
  <2>4. Listed(sk_list)' \subseteq Listed(planned)'
    BY <2>1, <2>2 DEF MeasureInv
  <2> QED
    BY <2>1, <2>3, <2>4 DEF MeasureInv
<1>4. CASE NextCombination
  <2> DEFINE i == check.test_index
             p == Measured(i)
             mask == p.pM[i + 1].mask
  <2>1. check.running /\ i \in 0..MaxComb - 1 /\ ~ (i + 1 >= pI.num)
    BY <1>4 DEF NextCombination, LastTest, Types
  <2>2. pI.num \in 0..MaxComb /\ MaxComb \in Nat
    BY PathCheckAssumption DEF Types, PathIndex
  <2>3. p.num = pI.num /\ \A j \in 0..MaxComb - 1 : p.pM[j].mask = pI.pM[j].mask
    BY <2>1, MeasuredTypes
  <2>4. \A j \in 0..MaxComb - 1 :
          p.pM[j].measured = IF j = i THEN {enabled} ELSE pI.pM[j].measured
    BY <2>1 DEF Measured, Types, PathIndex
  <2>5. /\ pI' = p /\ enable_mask' = mask /\ check'.test_index = i + 1
        /\ Leave(sk_list, EnabledBy(mask, sk_list)) /\ planned' = planned
    BY <1>4 DEF NextCombination, NextTest, Test
  <2>6. enable_mask = pI.pM[i].mask
    BY <2>1, <2>2 DEF CheckInv
  <2> HIDE DEF p, i, mask
  <2>7. pI.num > 0 /\ i + 1 < pI.num
    BY <2>1, <2>2
  <2>8. Listed(sk_list') \subseteq Listed(sk_list)
        /\ enabled' = EnabledBy(mask, sk_list) \cap Listed(sk_list')
    BY <1>1, <2>5, LeaveSorts DEF Types, Leave
  <2>9. ASSUME sk_list' = planned
        PROVE  /\ enabled' = EnabledBy(mask, planned)
               /\ \A j \in 0..i : p.pM[j].measured = {EnabledBy(p.pM[j].mask, planned)}
    <3>1. sk_list = planned
      BY <2>1, <2>7, <2>8, <2>9, NothingLost
    <3>2. enabled' = EnabledBy(mask, planned)
      BY <2>8, <2>9, <3>1, EnabledByListed
    <3>3. enabled = EnabledBy(enable_mask, planned)
          /\ \A j \in 0..i - 1 : pI.pM[j].measured = {EnabledBy(pI.pM[j].mask, planned)}
      BY <2>1, <2>7, <3>1 DEF MeasureInv, i
    <3>4. \A j \in 0..i : j \in 0..MaxComb - 1 /\ (j = i \/ j \in 0..i - 1)
      BY <2>1, <2>2
    <3>5. ASSUME NEW j \in 0..i PROVE p.pM[j].measured = {EnabledBy(p.pM[j].mask, planned)}
      <4>1. CASE j = i
        BY <2>1, <2>3, <2>4, <2>6, <3>3, <4>1
      <4>2. CASE j # i
        BY <2>3, <2>4, <3>3, <3>4, <4>2
      <4> QED
        BY <4>1, <4>2
    <3> QED
      BY <3>2, <3>5
  <2>10. \A m \in Combinations(planned) : \E j \in 0..p.num - 1 : p.pM[j].mask = m
    <3>1. \A j \in 0..pI.num - 1 : j \in 0..MaxComb - 1
      BY <2>2
    <3> QED
      BY <2>1, <2>3, <2>7, <3>1 DEF MeasureInv
  <2>11. check'.test_index - 1 = i
    BY <2>1, <2>5
  <2>12. Listed(sk_list)' \subseteq Listed(planned)' /\ Combinations(planned) # {}
    BY <2>1, <2>5, <2>7, <2>8 DEF MeasureInv
  <2>13. Combinations(planned)' = Combinations(planned)
         /\ EnabledBy(enable_mask, planned)' = EnabledBy(mask, planned)
    BY <2>5
  <2> QED
    BY <2>5, <2>9, <2>10, <2>11, <2>12, <2>13 DEF MeasureInv
<1>5. CASE FinishCheck
  BY <1>5 DEF FinishCheck, MeasureInv
<1> QED
  BY <1>2, <1>3, <1>4, <1>5 DEF pathChecker

\* A mask enables as many subflows as it has bits.
LEMMA MaskCardinality ==
  ASSUME NEW list \in Seq(Sock), Sorted(list), NEW mask \in SUBSET (0..Len(list) - 1)
  PROVE  /\ IsFiniteSet(mask) /\ IsFiniteSet(EnabledBy(mask, list))
         /\ Cardinality(EnabledBy(mask, list)) = Cardinality(mask)
<1> DEFINE E == EnabledBy(mask, list)
           f == [i \in mask |-> list[i + 1]]
<1>1. Len(list) \in Nat /\ DOMAIN list = 1..Len(list)
  OBVIOUS
<1>2. IsFiniteSet(mask)
  <2>1. IsFiniteSet(0..Len(list) - 1)
    BY <1>1, FS_Interval
  <2> QED
    BY <2>1, FS_Subset
<1>3. \A i \in mask : i + 1 \in DOMAIN list /\ (i + 1) - 1 = i
  BY <1>1
<1>4. \A j \in DOMAIN list : (j - 1) + 1 = j
  BY <1>1
<1>5. f \in Surjection(mask, E)
  <2>1. \A i \in mask : f[i] \in E
    BY <1>3 DEF EnabledBy
  <2>2. \A s \in E : \E i \in mask : f[i] = s
    BY <1>4 DEF EnabledBy
  <2> QED
    BY <2>1, <2>2 DEF Surjection
<1>6. \A i, j \in mask : f[i] = f[j] => i = j
  <2> SUFFICES ASSUME NEW i \in mask, NEW j \in mask, f[i] = f[j] PROVE i = j
    OBVIOUS
  <2>1. i + 1 = j + 1
    BY <1>3, SortedInjective
  <2> QED
    BY <1>3, <2>1
<1>7. f \in Injection(mask, E)
  BY <1>5, <1>6 DEF Injection, IsInjective, Surjection
<1> HIDE DEF f, E
<1>8. IsFiniteSet(E) /\ Cardinality(E) = Cardinality(mask)
  BY <1>2, <1>5, <1>7, FS_Surjection
<1> QED
  BY <1>2, <1>8 DEF E

\* Paths without a common end are no more than the sources, and no more than the
\* destinations.
LEMMA FreePathsBound ==
  ASSUME NEW list \in Seq(Sock), NEW paths \in SUBSET Listed(list), NoSharedEnd(paths)
  PROVE  /\ IsFiniteSet(paths) /\ Cardinality(paths) \in Nat
         /\ Cardinality(Saddrs(list)) \in Nat /\ Cardinality(Daddrs(list)) \in Nat
         /\ Cardinality(paths) <= Cardinality(Saddrs(list))
         /\ Cardinality(paths) <= Cardinality(Daddrs(list))
<1>1. IsFiniteSet(Listed(list)) /\ Listed(list) \subseteq Sock
  BY ListedSock, SockAssumption, FS_Subset
<1>2. IsFiniteSet(paths) /\ Cardinality(paths) \in Nat
  BY <1>1, FS_Subset, FS_CardinalityType
<1>3. IsFiniteSet(Saddrs(list)) /\ IsFiniteSet(Daddrs(list))
  <2> DEFINE f == [s \in Listed(list) |-> Saddr[s]]
             g == [s \in Listed(list) |-> Daddr[s]]
  <2>1. f \in Surjection(Listed(list), Saddrs(list)) /\ g \in Surjection(Listed(list), Daddrs(list))
    BY DEF Surjection, Saddrs, Daddrs
  <2> HIDE DEF f, g
  <2> QED
    BY <1>1, <2>1, FS_Surjection
<1>4. Cardinality(paths) <= Cardinality(Saddrs(list))
  <2> DEFINE f == [s \in paths |-> Saddr[s]]
  <2>1. f \in [paths -> Saddrs(list)]
    BY DEF Saddrs
  <2>2. \A s, t \in paths : f[s] = f[t] => s = t
    BY DEF NoSharedEnd
  <2>3. f \in Injection(paths, Saddrs(list))
    BY <2>1, <2>2 DEF Injection, IsInjective
  <2> HIDE DEF f
  <2> QED
    BY <1>3, <2>3, FS_Injection
<1>5. Cardinality(paths) <= Cardinality(Daddrs(list))
  <2> DEFINE f == [s \in paths |-> Daddr[s]]
  <2>1. f \in [paths -> Daddrs(list)]
    BY DEF Daddrs
  <2>2. \A s, t \in paths : f[s] = f[t] => s = t
    BY DEF NoSharedEnd
  <2>3. f \in Injection(paths, Daddrs(list))
    BY <2>1, <2>2 DEF Injection, IsInjective
  <2> HIDE DEF f
  <2> QED
    BY <1>3, <2>3, FS_Injection
<1> QED
  BY <1>2, <1>3, <1>4, <1>5, FS_CardinalityType

\* Where getAddresses does not stop at the sources and some combination uses as many paths
\* as there are ends, the largest selections of paths are the combinations.
LEMMA LargestAreCombinations ==
  ASSUME NEW list \in Seq(Sock), Sorted(list), Combinations(list) # {},
         Cardinality(Saddrs(list)) < MaxAddr, NEW paths \in LargestSelections(list)
  PROVE  \E mask \in Combinations(list) : EnabledBy(mask, list) = paths
<1> DEFINE k == ParallelPaths(list)
           n == Len(list)
           mask == {i \in 0..n - 1 : list[i + 1] \in paths}
<1>1. n \in Nat /\ DOMAIN list = 1..n
  OBVIOUS
<1>2. /\ paths \in SUBSET Listed(list) /\ NoSharedEnd(paths)
      /\ \A other \in SUBSET Listed(list) :
           NoSharedEnd(other) => Cardinality(other) <= Cardinality(paths)
  BY DEF LargestSelections
<1>3. /\ Cardinality(paths) \in Nat
      /\ Cardinality(Saddrs(list)) \in Nat /\ Cardinality(Daddrs(list)) \in Nat
      /\ Cardinality(paths) <= Cardinality(Saddrs(list))
      /\ Cardinality(paths) <= Cardinality(Daddrs(list))
  BY <1>2, FreePathsBound
<1>4. k \in {Cardinality(Saddrs(list)), Cardinality(Daddrs(list))}
  BY <1>3, PathCheckAssumption DEF ParallelPaths, NumSrc, NumDst, Smaller
<1>5. Cardinality(paths) <= k /\ k \in Nat
  BY <1>3, <1>4
<1>6. PICK m \in SUBSET (0..n - 1) : Cardinality(m) = k /\ OverlapFree(EnabledBy(m, list))
  BY DEF Combinations, kSubset
<1>7. k <= Cardinality(paths)
  <2>1. Cardinality(EnabledBy(m, list)) = k
    BY <1>6, MaskCardinality
  <2>2. NoSharedEnd(EnabledBy(m, list)) /\ EnabledBy(m, list) \subseteq Listed(list)
    BY <1>6, EnabledByListed DEF OverlapFree, NoSharedEnd
  <2> QED
    BY <1>2, <2>1, <2>2
<1>8. Cardinality(paths) = k
  BY <1>3, <1>5, <1>7
<1>9. EnabledBy(mask, list) = paths
  <2>1. \A j \in 1..n : j - 1 \in 0..n - 1 /\ (j - 1) + 1 = j
    BY <1>1
  <2>2. \A j \in 1..n : j - 1 \in mask <=> list[j] \in paths
    BY <2>1
  <2> HIDE DEF mask
  <2> QED
    BY <1>1, <1>2, <2>2 DEF EnabledBy, Listed
<1>10. mask \in SUBSET (0..n - 1)
  OBVIOUS
<1> HIDE DEF mask
<1>11. Cardinality(mask) = k
  BY <1>8, <1>9, <1>10, MaskCardinality
<1>12. OverlapFree(EnabledBy(mask, list))
  BY <1>2, <1>9 DEF OverlapFree, NoSharedEnd
<1>13. mask \in Combinations(list)
  BY <1>10, <1>11, <1>12 DEF Combinations, kSubset
<1> QED
  BY <1>9, <1>13

LEMMA ScheduleMeasures ==
  ASSUME NEW list, NEW on, NEW p \in PathIndex, NEW switches,
         ~ check.running \/ p.num = 0,
         Schedule(list, on, p, switches)
  PROVE  MeasureInv'
<1>1. check' = check
  BY DEF Schedule
<1>2. pI' = p \/ \E a : pI' = [p EXCEPT !.active = a]
  BY DEF Schedule, PeriodicUpdate, NoUpdate, UpdateSysctl
<1>3. ~ check'.running \/ pI'.num = 0
  BY <1>1, <1>2 DEF PathIndex
<1> QED
  BY <1>3 DEF MeasureInv

LEMMA MeasureInvKeeps ==
  ASSUME IndexHolds, Types, CheckInv, MeasureInv, [Next]_vars
  PROVE  MeasureInv'
<1>1. ASSUME SendNextSegment PROVE MeasureInv'
  <2>1. CASE sysctl.runpathcheck /\ pathChecker
    BY <2>1, PathCheckerMeasures
  <2>2. CASE ~ sysctl.runpathcheck /\ Schedule(sk_list, enabled, pI, sysctl)
    <3>1. ~ check.running \/ pI.num = 0
      <4>1. pI.num \in Nat
        BY PathCheckAssumption DEF Types, PathIndex
      <4> QED
        BY <2>2, <4>1 DEF CheckInv
    <3> QED
      BY <2>2, <3>1, ScheduleMeasures DEF Types
  <2> QED
    BY <1>1, <2>1, <2>2 DEF SendNextSegment
<1>2. ASSUME NEW new \in Meta, SendForOther(new) PROVE MeasureInv'
  <2> DEFINE p == [pI EXCEPT !.num = 0]
  <2>1. p \in PathIndex /\ p.num = 0
    BY PathCheckAssumption DEF Types, PathIndex
  <2>2. Schedule(<<>>, {}, p, [sysctl EXCEPT !.runpathcheck = FALSE])
    BY <1>2 DEF SendForOther
  <2> HIDE DEF p
  <2> QED
    BY <2>1, <2>2, ScheduleMeasures
<1>3. ASSUME UNCHANGED <<sk_list, enabled, enable_mask, pI, planned>>,
             check'.running = check.running, check'.test_index = check.test_index
      PROVE  MeasureInv'
  BY <1>3 DEF MeasureInv
<1>4. ASSUME \/ \E s \in Sock : Appears(s) \/ Fails(s) \/ Unseen(s)
             \/ UpdateComesDue \/ RunPathCheck \/ SetPath
             \/ \E mask \in UserMasks : SetMask(mask)
             \/ UNCHANGED vars
      PROVE  MeasureInv'
  BY <1>3, <1>4 DEF Appears, Fails, Unseen, UpdateComesDue, RunPathCheck, SetPath, SetMask, vars
<1>5. ASSUME TestRunsOut PROVE MeasureInv'
  BY <1>3, <1>5 DEF TestRunsOut, Types, Tests
<1> QED
  BY <1>1, <1>2, <1>4, <1>5 DEF Next

\* getAddresses never stops at the sources, and so counts the destinations.
SourcesFit ==
  \A list \in Seq(Sock) : Sorted(list) => Cardinality(Saddrs(list)) < MaxAddr

\* The step that ends a check stores the measurement of the last combination.
LEMMA EndMeasuresEverything ==
  ASSUME SourcesFit, Types, CheckInv, MeasureInv, [Next]_vars,
         check.running, ~ check'.running, sk_list = planned, pI.num > 0
  PROVE  MeasuresEverything
<1> DEFINE i == check.test_index
           p == Measured(i)
<1>1. FinishCheck
  <2>1. check' # check
    OBVIOUS
  <2>2. ~ TestRunsOut
    BY DEF TestRunsOut, Types, Tests
  <2>3. SendNextSegment /\ pathChecker
    BY <2>1, <2>2 DEF Next, vars, SendNextSegment, SendForOther, Schedule, RunPathCheck, SetPath,
       SetMask, UpdateComesDue, Appears, Fails, Unseen
  <2>4. ~ StartCheck /\ ~ GoOn /\ ~ NextCombination
    BY <2>1 DEF StartCheck, GoOn, NextCombination, Test
  <2> QED
    BY <2>3, <2>4 DEF pathChecker
<1>2. pI' = p /\ i + 1 >= pI.num
  BY <1>1 DEF FinishCheck, LastTest
<1>3. pI.num \in 0..MaxComb /\ MaxComb \in Nat /\ i \in Nat
  BY PathCheckAssumption DEF Types, PathIndex, Tests
<1>4. i < pI.num /\ enable_mask = pI.pM[i].mask
  BY DEF CheckInv
<1>5. i \in 0..MaxComb - 1 /\ i = pI.num - 1
  BY <1>2, <1>3, <1>4
<1>6. /\ p.num = pI.num
      /\ \A j \in 0..MaxComb - 1 :
           p.pM[j].measured = IF j = i THEN {enabled} ELSE pI.pM[j].measured
  BY <1>5 DEF Measured, Types, PathIndex
<1>7. /\ enabled = EnabledBy(enable_mask, planned)
      /\ \A j \in 0..i - 1 : pI.pM[j].measured = {EnabledBy(pI.pM[j].mask, planned)}
  BY DEF MeasureInv
<1> HIDE DEF i, p
<1> SUFFICES ASSUME NEW paths \in LargestSelections(sk_list)
             PROVE  \E j \in 0..p.num - 1 : p.pM[j].measured = {paths}
  BY <1>2 DEF MeasuresEverything
<1>8. PICK mask \in Combinations(planned) : EnabledBy(mask, planned) = paths
  <2>1. planned \in Seq(Sock) /\ Sorted(planned)
    BY DEF Types, ListInv
  <2>2. Cardinality(Saddrs(planned)) < MaxAddr
    BY <2>1 DEF SourcesFit
  <2>3. Combinations(planned) # {}
    BY DEF MeasureInv
  <2> QED
    BY <2>1, <2>2, <2>3, LargestAreCombinations
<1>9. PICK j \in 0..pI.num - 1 : pI.pM[j].mask = mask
  BY DEF MeasureInv
<1>10. j \in 0..MaxComb - 1 /\ j \in 0..p.num - 1 /\ (j = i \/ j \in 0..i - 1)
  BY <1>3, <1>5, <1>6
<1>11. p.pM[j].measured = {paths}
  BY <1>4, <1>6, <1>7, <1>8, <1>9, <1>10
<1> QED
  BY <1>10, <1>11

\* "measure the performance of each combination" (rmptcp_pathcheck.c): a path check that
\* found a combination and ends with the list it began with has measured every largest
\* selection of paths without a common address, with just these enabled.  The index must
\* have room for the combinations, and the sources for their array.
THEOREM MeasuresAll ==
  ASSUME IndexHolds, SourcesFit PROVE Spec => ChecksEveryCombinationLeft
<1>1. Init => CheckInv /\ MeasureInv
  BY DEF Init, CheckInv, MeasureInv
<1>2. Types /\ CheckInv /\ MeasureInv /\ [Next]_vars => Types' /\ CheckInv' /\ MeasureInv'
  BY TypesKeep, CheckInvKeeps, MeasureInvKeeps
<1>3. Types /\ CheckInv /\ MeasureInv /\ [Next]_vars =>
        [ check.running /\ ~check'.running /\ sk_list = planned /\ pI.num > 0
            => MeasuresEverything ]_vars
  BY EndMeasuresEverything
<1> QED
  BY <1>1, <1>2, <1>3, TypesStart, PTL DEF Spec, ChecksEveryCombinationLeft

=============================================================================
