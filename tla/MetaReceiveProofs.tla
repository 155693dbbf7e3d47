-------------------------- MODULE MetaReceiveProofs --------------------------
(***************************************************************************)
(* However the segments of the subflows are put into the out-of-order      *)
(* queue, covered, drained and purged, a shortcut leads to a segment that  *)
(* is in the queue (ShortcutsLead).                                        *)
(*                                                                         *)
(* mptcp_remove_shortcuts() clears the shortcut of the first subflow only  *)
(* that has the segment freed.  That is enough as long as no two subflows  *)
(* have the same one, which is so because a shortcut is set to a new       *)
(* segment only: the two statements need each other, and that the          *)
(* segments in the queue are different (Sound).                            *)
(***************************************************************************)
EXTENDS MetaReceive, FoldProofs

(***************************************************************************)
(* The out-of-order queue                                                  *)
(***************************************************************************)

Seg == [id : Ids, seq : Int, end : Int, fin : BOOLEAN, data : Seq(Int)]

\* A segment that is not in the queue.
NewSeg == [id : {None}, seq : Int, end : Int, fin : BOOLEAN, data : Seq(Int)]

Shortcuts == [Subflow -> Ids \cup {None}]
Queue == [ofo : Seq(Seg), shortcut : Shortcuts]

Sound(q) ==
    /\ q \in Queue
    /\ \A i, j \in DOMAIN q.ofo : q.ofo[i].id = q.ofo[j].id => i = j
    /\ \A s \in Subflow : q.shortcut[s] # None =>
         \E p \in DOMAIN q.ofo : q.ofo[p].id = q.shortcut[s]
    /\ \A s, t \in Subflow : q.shortcut[s] = q.shortcut[t] /\ q.shortcut[s] # None => s = t

LEMMA EmptySound ==
  Sound(EmptyQueue)
BY DEF Sound, Queue, Shortcuts, EmptyQueue

LEMMA Remainders ==
  /\ Wrap \in Nat \ {0}
  /\ \A x \in Int : x % Wrap \in Nat
  /\ \A x \in Int : Low(x) \in Int
  /\ \A a, b \in Int : Distance(a, b) \in Nat
<1>1. Wrap \in Nat \ {0}
  BY WrapAssumption
<1>2. \A x \in Int : x % Wrap \in Nat
  BY <1>1
<1> QED
  BY <1>1, <1>2 DEF Low, Distance

\* There is always memory for another segment.
LEMMA FreshIsNew ==
  ASSUME ~ IsFiniteSet(Ids), NEW ofo \in Seq(Seg), NEW q, q.ofo = ofo
  PROVE  FreshId(q) \in Ids /\ \A p \in DOMAIN ofo : ofo[p].id # FreshId(q)
<1> DEFINE D == DOMAIN ofo
           g == [p \in D |-> ofo[p].id]
<1>1. D = 1..Len(ofo) /\ Len(ofo) \in Nat
  OBVIOUS
<1>2. IsFiniteSet(D)
  BY <1>1, FS_Interval
<1>3. g \in Surjection(D, IdsOf(ofo))
  BY DEF Surjection, IdsOf
<1> HIDE DEF D, g
<1>4. IsFiniteSet(IdsOf(ofo))
  BY <1>2, <1>3, FS_Surjection
<1>5. Ids \ IdsOf(ofo) # {}
  <2> SUFFICES ASSUME Ids \subseteq IdsOf(ofo) PROVE FALSE
    OBVIOUS
  <2> QED
    BY <1>4, FS_Subset
<1>6. Ids \ IdsOf(ofo) \in SUBSET Nat
  BY OfoAssumption
<1>7. FreshId(q) \in Ids \ IdsOf(ofo)
  BY <1>5, <1>6, LeastNumber DEF FreshId
<1> QED
  BY <1>7 DEF IdsOf

\* The shortcut of the segment that is freed is cleared, if no two have it.
LEMMA OneRemoved ==
  ASSUME NEW shortcut \in Shortcuts, NEW id \in Ids,
         \A s, t \in Subflow : shortcut[s] = shortcut[t] /\ shortcut[s] # None => s = t
  PROVE  LET r == RemoveShortcut(shortcut, id)
         IN  r \in Shortcuts /\ \A s \in Subflow : r[s] = IF shortcut[s] = id THEN None ELSE shortcut[s]
<1> DEFINE having == {s \in Subflow : shortcut[s] = id}
<1>1. CASE having = {}
  BY <1>1 DEF RemoveShortcut, Shortcuts
<1>2. CASE having # {}
  <2>1. having \in SUBSET Nat
    BY OfoAssumption
  <2>2. Min(having) \in having
    <3> HIDE DEF having
    <3> QED
      BY <1>2, <2>1, LeastNumber
  <2>3. id # None
    BY OfoAssumption
  <2>4. \A s \in Subflow : shortcut[s] = id <=> s = Min(having)
    BY <2>2, <2>3
  <2>5. RemoveShortcut(shortcut, id) = [shortcut EXCEPT ![Min(having)] = None]
    BY <1>2 DEF RemoveShortcut
  <2> HIDE DEF having
  <2> QED
    BY <2>4, <2>5 DEF Shortcuts
<1> QED
  BY <1>1, <1>2

\* Once a row of segments is freed no shortcut leads to one of them.
LEMMA RowRemoved ==
  ASSUME NEW first \in Shortcuts, NEW row \in Seq(Seg),
         \A s, t \in Subflow : first[s] = first[t] /\ first[s] # None => s = t
  PROVE  LET r == FoldLeft(LAMBDA shortcut, skb : RemoveShortcut(shortcut, skb.id), first, row)
         IN  /\ r \in Shortcuts
             /\ \A s \in Subflow : r[s] = IF \E k \in DOMAIN row : row[k].id = first[s]
                                          THEN None ELSE first[s]
<1> DEFINE n == Len(row)
           Left(m) == [s \in Subflow |-> IF \E k \in m : row[k].id = first[s] THEN None ELSE first[s]]
           Folds(it) == it = [m \in SUBSET (1..n) |->
                               IF m = {} THEN first ELSE RemoveShortcut(it[m \ {Max(m)}], row[Max(m)].id)]
           g == [m \in SUBSET (1..n) |-> Left(m)]
<1>1. n \in Nat /\ DOMAIN row = 1..n /\ \A k \in 1..n : row[k].id \in Ids
  <2>1. n \in Nat /\ DOMAIN row = 1..n /\ \A k \in 1..n : row[k] \in Seg
    OBVIOUS
  <2>2. \A skb \in Seg : skb.id \in Ids
    BY DEF Seg
  <2> QED
    BY <2>1, <2>2
<1>2. FoldLeft(LAMBDA shortcut, skb : RemoveShortcut(shortcut, skb.id), first, row)
        = (CHOOSE it : Folds(it))[1..n]
  BY <1>1 DEF FoldLeft, MapThenFoldSet
<1>3. ASSUME NEW m \in SUBSET (1..n), m # {}
      PROVE  RemoveShortcut(Left(m \ {Max(m)}), row[Max(m)].id) = Left(m)
  <2> DEFINE k == Max(m)
             old == Left(m \ {k})
             r == RemoveShortcut(old, row[k].id)
  <2>1. k \in m /\ row[k].id \in Ids
    BY <1>1, <1>3, GreatestNumber
  <2>2. old \in Shortcuts
    BY DEF Shortcuts
  <2>3. \A s, t \in Subflow : old[s] = old[t] /\ old[s] # None => s = t
    OBVIOUS
  <2> HIDE DEF k, old
  <2>4. r \in Shortcuts /\ \A s \in Subflow : r[s] = IF old[s] = row[k].id THEN None ELSE old[s]
    BY <2>1, <2>2, <2>3, OneRemoved
  <2>5. \A s \in Subflow : old[s] = IF \E j \in m \ {k} : row[j].id = first[s] THEN None ELSE first[s]
    BY DEF old
  <2>6. None # row[k].id
    BY <2>1, OfoAssumption
  <2>7. \A s \in Subflow : r[s] = Left(m)[s]
    BY <2>1, <2>4, <2>5, <2>6
  <2>8. DOMAIN r = Subflow
    BY <2>4 DEF Shortcuts
  <2> HIDE DEF r
  <2>9. r = Left(m)
    BY <2>4, <2>7 DEF Shortcuts
  <2> QED
    BY <2>9 DEF r, old, k
<1>4. Left({}) = first
  BY DEF Shortcuts
<1>5. Folds(g)
  BY <1>3, <1>4
<1> DEFINE it == CHOOSE x : Folds(x)
           P == {m \in SUBSET (1..n) : it[m] = Left(m)}
<1>6. Folds(it)
  <2> HIDE DEF Folds
  <2> QED
    BY <1>5
<1> HIDE DEF it, Left
<1>7. {} \in P
  BY <1>4, <1>6
<1>8. ASSUME NEW m \in SUBSET (1..n), m # {}, m \ {Max(m)} \in P PROVE m \in P
  BY <1>3, <1>6, <1>8
<1>9. it[1..n] = Left(1..n)
  <2> HIDE DEF P
  <2>1. SUBSET (1..n) \subseteq P
    BY <1>1, <1>7, <1>8, IndexInduction
  <2> QED
    BY <2>1 DEF P
<1>10. Left(1..n) \in Shortcuts
  BY DEF Left, Shortcuts
<1>11. \A s \in Subflow : Left(1..n)[s] = IF \E k \in DOMAIN row : row[k].id = first[s] THEN None ELSE first[s]
  BY <1>1 DEF Left
<1>12. FoldLeft(LAMBDA shortcut, skb : RemoveShortcut(shortcut, skb.id), first, row) = Left(1..n)
  BY <1>2, <1>9 DEF it
<1> QED
  BY <1>10, <1>11, <1>12

LEMMA FreedShortcuts ==
  ASSUME NEW q, Sound(q), NEW from \in 1..Len(q.ofo) + 1, NEW to \in from - 1..Len(q.ofo)
  PROVE  LET r == RemoveShortcuts(q, from, to)
         IN  /\ r \in Shortcuts
             /\ \A s \in Subflow : r[s] = IF \E k \in from..to : q.ofo[k].id = q.shortcut[s]
                                          THEN None ELSE q.shortcut[s]
<1> DEFINE row == SubSeq(q.ofo, from, to)
           r == RemoveShortcuts(q, from, to)
<1>1. q.ofo \in Seq(Seg) /\ q.shortcut \in Shortcuts /\ Len(q.ofo) \in Nat
  BY DEF Sound, Queue
<1>2. \A s, t \in Subflow : q.shortcut[s] = q.shortcut[t] /\ q.shortcut[s] # None => s = t
  BY DEF Sound
<1>3. from \in Int /\ to \in Int /\ 1 <= from /\ from - 1 <= to /\ to <= Len(q.ofo)
  BY <1>1
<1>4. row \in Seq(Seg) /\ Len(row) = to - from + 1 /\ \A k \in 1..to - from + 1 : row[k] = q.ofo[from + k - 1]
  BY <1>1, <1>3, PartIs
<1>5. DOMAIN row = 1..to - from + 1
  BY <1>4
<1> HIDE DEF row
<1>6. /\ r \in Shortcuts
      /\ \A s \in Subflow : r[s] = IF \E k \in DOMAIN row : row[k].id = q.shortcut[s]
                                   THEN None ELSE q.shortcut[s]
  BY <1>1, <1>2, <1>4, RowRemoved DEF RemoveShortcuts, row
<1> HIDE DEF r
<1>7. ASSUME NEW s \in Subflow
      PROVE  (\E k \in DOMAIN row : row[k].id = q.shortcut[s]) <=> (\E k \in from..to : q.ofo[k].id = q.shortcut[s])
  <2>1. ASSUME NEW k \in DOMAIN row, row[k].id = q.shortcut[s] PROVE \E j \in from..to : q.ofo[j].id = q.shortcut[s]
    <3>1. from + k - 1 \in from..to
      BY <1>3, <1>5
    <3>2. q.ofo[from + k - 1].id = q.shortcut[s]
      BY <1>4, <1>5, <2>1
    <3> QED
      BY <3>1, <3>2
  <2>2. ASSUME NEW k \in from..to, q.ofo[k].id = q.shortcut[s] PROVE \E j \in DOMAIN row : row[j].id = q.shortcut[s]
    <3>1. k - from + 1 \in 1..to - from + 1 /\ from + (k - from + 1) - 1 = k
      BY <1>3
    <3>2. row[k - from + 1].id = q.shortcut[s]
      BY <1>4, <2>2, <3>1
    <3> QED
      BY <1>5, <3>1, <3>2
  <2> QED
    BY <2>1, <2>2
<1> QED
  BY <1>6, <1>7 DEF r

\* Segments p + 1 to l are freed.
LEMMA KeptSound ==
  ASSUME NEW q, Sound(q), NEW p \in 0..Len(q.ofo), NEW l \in p..Len(q.ofo), NEW ofo \in Seq(Seg),
         Len(ofo) = Len(q.ofo) - (l - p),
         \A k \in 1..Len(q.ofo) - (l - p) : ofo[k] = IF k <= p THEN q.ofo[k] ELSE q.ofo[k + l - p]
  PROVE  Sound([ofo |-> ofo, shortcut |-> RemoveShortcuts(q, p + 1, l)])
<1> DEFINE r == RemoveShortcuts(q, p + 1, l)
           n == Len(q.ofo)
           Was(k) == IF k <= p THEN k ELSE k + l - p
<1>1. /\ q.ofo \in Seq(Seg) /\ q.shortcut \in Shortcuts /\ n \in Nat /\ DOMAIN q.ofo = 1..n
      /\ \A i, j \in 1..n : q.ofo[i].id = q.ofo[j].id => i = j
      /\ \A s \in Subflow : q.shortcut[s] # None => \E k \in 1..n : q.ofo[k].id = q.shortcut[s]
      /\ \A s, t \in Subflow : q.shortcut[s] = q.shortcut[t] /\ q.shortcut[s] # None => s = t
  <2>1. q.ofo \in Seq(Seg) /\ q.shortcut \in Shortcuts
    BY DEF Sound, Queue
  <2>2. n \in Nat /\ DOMAIN q.ofo = 1..n
    BY <2>1
  <2> QED
    BY <2>1, <2>2 DEF Sound
<1>2. p \in Int /\ l \in Int /\ 0 <= p /\ p <= l /\ l <= n
  BY <1>1
<1>3. p + 1 \in 1..n + 1 /\ l \in (p + 1) - 1..n
  BY <1>1, <1>2
<1>4. /\ r \in Shortcuts
      /\ \A s \in Subflow : r[s] = IF \E k \in p + 1..l : q.ofo[k].id = q.shortcut[s] THEN None ELSE q.shortcut[s]
  BY <1>3, FreedShortcuts
<1>5. DOMAIN ofo = 1..n - (l - p) /\ \A k \in DOMAIN ofo : Was(k) \in 1..n /\ ofo[k] = q.ofo[Was(k)]
  <2>1. Len(ofo) = n - (l - p) /\ DOMAIN ofo = 1..n - (l - p)
    BY <1>1, <1>2
  <2>2. ASSUME NEW k \in 1..n - (l - p) PROVE Was(k) \in 1..n
    BY <1>1, <1>2
  <2>3. ASSUME NEW k \in 1..n - (l - p) PROVE ofo[k] = q.ofo[Was(k)]
    OBVIOUS
  <2> HIDE DEF Was
  <2> QED
    BY <2>1, <2>2, <2>3
<1> HIDE DEF r
<1>6. ASSUME NEW i \in DOMAIN ofo, NEW j \in DOMAIN ofo, ofo[i].id = ofo[j].id
      PROVE  i = j
  <2>1. Was(i) = Was(j)
    <3>1. PICK a \in 1..n : a = Was(i)
      BY <1>5
    <3>2. PICK b \in 1..n : b = Was(j)
      BY <1>5
    <3>3. ofo[i] = q.ofo[a] /\ ofo[j] = q.ofo[b]
      BY <1>5, <3>1, <3>2
    <3> HIDE DEF Was
    <3>4. a = b
      BY <1>1, <1>6, <3>3
    <3> QED
      BY <3>1, <3>2, <3>4
  <2> QED
    BY <1>2, <1>5, <2>1
<1>7. ASSUME NEW s \in Subflow, r[s] # None
      PROVE  \E k \in DOMAIN ofo : ofo[k].id = r[s]
  <2>1. r[s] = q.shortcut[s] /\ ~ \E k \in p + 1..l : q.ofo[k].id = q.shortcut[s]
    BY <1>4, <1>7
  <2>2. PICK k \in 1..n : q.ofo[k].id = r[s]
    BY <1>1, <1>7, <2>1
  <2>3. k <= p \/ k > l
    BY <1>2, <2>1, <2>2
  <2>4. CASE k <= p
    <3>1. k \in DOMAIN ofo /\ Was(k) = k
      BY <1>1, <1>2, <1>5, <2>4
    <3> QED
      BY <1>5, <2>2, <3>1
  <2>5. CASE k > l
    <3>1. k - (l - p) \in DOMAIN ofo /\ Was(k - (l - p)) = k
      BY <1>1, <1>2, <1>5, <2>5
    <3> QED
      BY <1>5, <2>2, <3>1
  <2> QED
    BY <2>3, <2>4, <2>5
<1>8. ASSUME NEW s \in Subflow, NEW t \in Subflow, r[s] = r[t], r[s] # None
      PROVE  s = t
  <2>1. r[s] = q.shortcut[s] /\ r[t] = q.shortcut[t]
    BY <1>4, <1>8
  <2> QED
    BY <1>1, <1>8, <2>1
<1> DEFINE k == [ofo |-> ofo, shortcut |-> r]
<1>9. k \in Queue /\ k.ofo = ofo /\ k.shortcut = r
  BY <1>4 DEF Queue
<1> HIDE DEF k, Was
<1>10. Sound(k)
  BY <1>6, <1>7, <1>8, <1>9 DEF Sound
<1> QED
  BY <1>10 DEF k, r

LEMMA PurgedSound ==
  ASSUME NEW q, Sound(q)
  PROVE  Sound(PurgeOfoQueue(q))
<1>1. Len(q.ofo) \in Nat
  BY DEF Sound, Queue
<1>2. Sound([ofo |-> <<>>, shortcut |-> RemoveShortcuts(q, 0 + 1, Len(q.ofo))])
  <2>1. /\ 0 \in 0..Len(q.ofo) /\ Len(q.ofo) \in 0..Len(q.ofo) /\ <<>> \in Seq(Seg)
        /\ Len(<<>>) = Len(q.ofo) - (Len(q.ofo) - 0) /\ 1..Len(q.ofo) - (Len(q.ofo) - 0) = {}
    BY <1>1
  <2> QED
    BY <2>1, KeptSound
<1> QED
  BY <1>2 DEF PurgeOfoQueue

LEMMA TailSound ==
  ASSUME NEW q, Sound(q), NEW n \in 0..Len(q.ofo)
  PROVE  Sound([ofo |-> SubSeq(q.ofo, n + 1, Len(q.ofo)), shortcut |-> RemoveShortcuts(q, 1, n)])
<1> DEFINE ofo == SubSeq(q.ofo, n + 1, Len(q.ofo))
           l == Len(q.ofo)
<1>1. q.ofo \in Seq(Seg) /\ l \in Nat /\ n \in Int /\ 0 <= n /\ n <= l
  BY DEF Sound, Queue
<1>2. n + 1 \in 1..l + 1 /\ l \in Int /\ (n + 1) - 1 <= l /\ l <= l /\ l - (n + 1) + 1 = l - n
  BY <1>1
<1>3. /\ ofo \in Seq(Seg) /\ Len(ofo) = l - (n + 1) + 1
      /\ \A k \in 1..l - (n + 1) + 1 : ofo[k] = q.ofo[(n + 1) + k - 1]
  BY <1>1, <1>2, PartIs
<1> HIDE DEF ofo
<1>4. /\ 0 \in 0..l /\ n \in 0..l /\ Len(ofo) = l - (n - 0)
      /\ \A k \in 1..l - (n - 0) : ofo[k] = IF k <= 0 THEN q.ofo[k] ELSE q.ofo[k + n - 0]
  <2>1. l - (n - 0) = l - n
    BY <1>1
  <2>2. \A k \in 1..l - n : (n + 1) + k - 1 = k + n - 0 /\ ~ (k <= 0)
    BY <1>1
  <2> QED
    BY <1>1, <1>2, <1>3, <2>1, <2>2
<1>5. Sound([ofo |-> ofo, shortcut |-> RemoveShortcuts(q, 0 + 1, n)])
  BY <1>3, <1>4, KeptSound
<1> QED
  BY <1>5 DEF ofo

(***************************************************************************)
(* A segment is put in.                                                    *)
(***************************************************************************)

LEMMA QueuedSound ==
  ASSUME ~ IsFiniteSet(Ids), NEW q, Sound(q), NEW s \in Subflow, NEW skb \in NewSeg, NEW p \in 0..Len(q.ofo)
  PROVE  Sound(Queued(q, s, skb, p))
<1> DEFINE n == Len(q.ofo)
           id == FreshId(q)
           new == [skb EXCEPT !.id = id]
           ofo == InsertAt(q.ofo, p + 1, new)
           short == [q.shortcut EXCEPT ![s] = id]
<1>1. /\ q.ofo \in Seq(Seg) /\ q.shortcut \in Shortcuts /\ n \in Nat /\ DOMAIN q.ofo = 1..n
      /\ \A i, j \in 1..n : q.ofo[i].id = q.ofo[j].id => i = j
      /\ \A t \in Subflow : q.shortcut[t] # None => \E k \in 1..n : q.ofo[k].id = q.shortcut[t]
      /\ \A t, u \in Subflow : q.shortcut[t] = q.shortcut[u] /\ q.shortcut[t] # None => t = u
  <2>1. q.ofo \in Seq(Seg) /\ q.shortcut \in Shortcuts
    BY DEF Sound, Queue
  <2>2. n \in Nat /\ DOMAIN q.ofo = 1..n
    BY <2>1
  <2> QED
    BY <2>1, <2>2 DEF Sound
<1>2. id \in Ids /\ \A k \in 1..n : q.ofo[k].id # id
  BY <1>1, FreshIsNew
<1>3. id # None
  BY <1>2, OfoAssumption
<1> HIDE DEF id
<1>4. new \in Seg /\ new.id = id
  BY <1>2 DEF Seg, NewSeg
<1>5. p \in Int /\ 0 <= p /\ p <= n /\ p + 1 \in 1..n + 1
  BY <1>1
<1> HIDE DEF new
<1>6. /\ ofo \in Seq(Seg) /\ Len(ofo) = n + 1
      /\ \A k \in 1..n + 1 : ofo[k] = IF k < p + 1 THEN q.ofo[k] ELSE IF k = p + 1 THEN new ELSE q.ofo[k - 1]
  <2>1. \A x \in 1..n + 1 :
          /\ InsertAt(q.ofo, x, new) \in Seq(Seg) /\ Len(InsertAt(q.ofo, x, new)) = n + 1
          /\ \A k \in 1..n + 1 : InsertAt(q.ofo, x, new)[k] =
               IF k < x THEN q.ofo[k] ELSE IF k = x THEN new ELSE q.ofo[k - 1]
    <3> DEFINE o == q.ofo
    <3>1. o \in Seq(Seg) /\ new \in Seg
      BY <1>1, <1>4
    <3> HIDE DEF o
    <3>2. \A x \in 1..Len(o) + 1 :
            /\ InsertAt(o, x, new) \in Seq(Seg) /\ Len(InsertAt(o, x, new)) = Len(o) + 1
            /\ \A k \in 1..Len(o) + 1 : InsertAt(o, x, new)[k] =
                 IF k < x THEN o[k] ELSE IF k = x THEN new ELSE o[k - 1]
      BY <3>1, InsertAtIs
    <3> QED
      BY <3>2 DEF o
  <2> QED
    BY <1>5, <2>1
<1>7. DOMAIN ofo = 1..n + 1
  BY <1>1, <1>6
<1> HIDE DEF ofo
<1> DEFINE Was(k) == IF k < p + 1 THEN k ELSE k - 1
<1>8. \A k \in 1..n + 1 : k # p + 1 => Was(k) \in 1..n /\ ofo[k] = q.ofo[Was(k)]
  <2>1. ASSUME NEW k \in 1..n + 1, k # p + 1 PROVE Was(k) \in 1..n
    BY <1>1, <1>5, <2>1
  <2>2. ASSUME NEW k \in 1..n + 1, k # p + 1 PROVE ofo[k] = q.ofo[Was(k)]
    BY <1>6, <2>2
  <2> QED
    BY <2>1, <2>2
<1>9. ofo[p + 1].id = id
  BY <1>4, <1>5, <1>6
<1>10. ASSUME NEW i \in 1..n + 1, NEW j \in 1..n + 1, ofo[i].id = ofo[j].id
       PROVE  i = j
  <2>1. CASE i = p + 1
    <3>1. ASSUME j # p + 1 PROVE FALSE
      <4>1. PICK b \in 1..n : ofo[j] = q.ofo[b]
        BY <1>8, <3>1
      <4> QED
        BY <1>2, <1>9, <1>10, <2>1, <4>1
    <3> QED
      BY <2>1, <3>1
  <2>2. CASE i # p + 1
    <3>1. PICK a \in 1..n : a = Was(i) /\ ofo[i] = q.ofo[a]
      BY <1>8, <2>2
    <3>2. j # p + 1
      BY <1>2, <1>9, <1>10, <3>1
    <3>3. PICK b \in 1..n : b = Was(j) /\ ofo[j] = q.ofo[b]
      BY <1>8, <3>2
    <3>4. a = b
      <4> HIDE DEF Was
      <4> QED
        BY <1>1, <1>10, <3>1, <3>3
    <3>5. i \in Int /\ j \in Int
      BY <1>1
    <3> QED
      BY <1>5, <2>2, <3>1, <3>2, <3>3, <3>4, <3>5
  <2> QED
    BY <2>1, <2>2
<1>11. short \in Shortcuts /\ \A t \in Subflow : short[t] = IF t = s THEN id ELSE q.shortcut[t]
  BY <1>1, <1>2 DEF Shortcuts
<1> HIDE DEF short
<1>12. ASSUME NEW t \in Subflow, short[t] # None
       PROVE  \E k \in 1..n + 1 : ofo[k].id = short[t]
  <2>1. CASE t = s
    BY <1>1, <1>5, <1>9, <1>11, <2>1
  <2>2. CASE t # s
    <3>1. PICK k \in 1..n : q.ofo[k].id = short[t]
      BY <1>1, <1>11, <1>12, <2>2
    <3>2. CASE k <= p
      <4>1. k \in 1..n + 1 /\ k # p + 1 /\ Was(k) = k
        BY <1>1, <1>5, <3>2
      <4> QED
        BY <1>8, <3>1, <4>1
    <3>3. CASE k > p
      <4>1. k + 1 \in 1..n + 1 /\ k + 1 # p + 1 /\ Was(k + 1) = k
        BY <1>1, <1>5, <3>3
      <4> QED
        BY <1>8, <3>1, <4>1
    <3> QED
      BY <1>1, <1>5, <3>2, <3>3
  <2> QED
    BY <2>1, <2>2
<1>13. ASSUME NEW t \in Subflow, NEW u \in Subflow, short[t] = short[u], short[t] # None
       PROVE  t = u
  <2>1. \A v \in Subflow : q.shortcut[v] # None => q.shortcut[v] # id
    BY <1>1, <1>2
  <2> QED
    BY <1>1, <1>3, <1>11, <1>13, <2>1
<1> DEFINE k == [ofo |-> ofo, shortcut |-> short]
<1>14. k \in Queue /\ k.ofo = ofo /\ k.shortcut = short
  BY <1>6, <1>11 DEF Queue
<1> HIDE DEF k
<1>15. Sound(k)
  BY <1>7, <1>10, <1>12, <1>13, <1>14 DEF Sound
<1> QED
  BY <1>15 DEF Queued, k, ofo, short, new, id

LEMMA CoalescedSound ==
  ASSUME NEW q, Sound(q), NEW skb \in NewSeg, NEW p \in DOMAIN q.ofo
  PROVE  Sound(Coalesced(q, skb, p))
<1> DEFINE old == q.ofo[p]
           new == Joined(old, skb)
           ofo == [q.ofo EXCEPT ![p] = new]
<1>1. q \in Queue /\ q.ofo \in Seq(Seg) /\ q.shortcut \in Shortcuts
  BY DEF Sound, Queue
<1>2. old \in Seg
  BY <1>1
<1>3. new \in Seg /\ new.id = old.id
  <2>1. old.data \o skb.data \in Seq(Int) /\ skb.end \in Int /\ (old.fin \/ skb.fin) \in BOOLEAN
    <3>1. old.data \in Seq(Int) /\ skb.data \in Seq(Int)
      BY <1>2 DEF Seg, NewSeg
    <3> QED
      BY <1>2, <3>1 DEF Seg, NewSeg
  <2> DEFINE e == skb.end
             f == old.fin \/ skb.fin
             d == old.data \o skb.data
  <2>2. new = [old EXCEPT !.end = e, !.fin = f, !.data = d]
    BY DEF Joined
  <2> HIDE DEF old, new, e, f, d
  <2>3. e \in Int /\ f \in BOOLEAN /\ d \in Seq(Int)
    BY <2>1 DEF e, f, d
  <2> QED
    BY <1>2, <2>2, <2>3 DEF Seg
<1> HIDE DEF new
<1>4. ofo \in Seq(Seg) /\ DOMAIN ofo = DOMAIN q.ofo /\ \A k \in DOMAIN ofo : ofo[k].id = q.ofo[k].id
  BY <1>1, <1>3
<1> HIDE DEF ofo
<1> DEFINE k == [q EXCEPT !.ofo = ofo]
<1>5. k \in Queue /\ k.ofo = ofo /\ k.shortcut = q.shortcut
  BY <1>1, <1>4 DEF Queue
<1>6. Coalesced(q, skb, p) = k
  BY <1>1 DEF Coalesced, ofo, new, Queue
<1> HIDE DEF k
<1>7. Sound(k)
  BY <1>4, <1>5 DEF Sound
<1> QED
  BY <1>6, <1>7

LEMMA InsertedSound ==
  ASSUME ~ IsFiniteSet(Ids), NEW q, Sound(q), NEW s \in Subflow, NEW skb \in NewSeg, NEW p \in 0..Len(q.ofo)
  PROVE  Sound(Inserted(q, s, skb, p))
<1> DEFINE n == Len(q.ofo)
           last == LastCovered(q.ofo, p, skb)
           ofo == SubSeq(q.ofo, 1, p) \o SubSeq(q.ofo, last + 1, n)
           k == [ofo |-> ofo, shortcut |-> RemoveShortcuts(q, p + 1, last)]
<1>1. q.ofo \in Seq(Seg) /\ n \in Nat /\ p \in Int /\ 0 <= p /\ p <= n
  BY DEF Sound, Queue
<1>2. last \in p..n
  <2> DEFINE T == {o \in p..n : \A i \in p + 1..o : After(skb.end, q.ofo[i].seq)}
  <2>1. p \in T
    BY <1>1
  <2>2. T \in SUBSET (0..n)
    BY <1>1
  <2>3. T \in SUBSET (p..n) /\ last = Max(T)
    BY DEF LastCovered
  <2> HIDE DEF T, last
  <2> QED
    BY <1>1, <2>1, <2>2, <2>3, GreatestOrZero
<1> HIDE DEF last
<1>3. /\ ofo \in Seq(Seg) /\ Len(ofo) = n - (last - p)
      /\ \A i \in 1..n - (last - p) : ofo[i] = IF i <= p THEN q.ofo[i] ELSE q.ofo[i + last - p]
  BY <1>1, <1>2, RestIs
<1> HIDE DEF ofo
<1>4. Sound(k)
  BY <1>2, <1>3, KeptSound
<1>5. k.ofo = ofo
  OBVIOUS
<1> HIDE DEF k
<1>6. p \in 0..Len(k.ofo)
  BY <1>1, <1>2, <1>3, <1>5
<1>7. Sound(Queued(k, s, skb, p))
  BY <1>4, <1>6, QueuedSound
<1> QED
  BY <1>7 DEF Inserted, k, ofo, last

\* Where the position of a shortcut is.
LEMMA PositionIs ==
  ASSUME NEW q, Sound(q), NEW s, PositionOf(q, s) # {}
  PROVE  Max(PositionOf(q, s)) \in DOMAIN q.ofo
<1> DEFINE T == PositionOf(q, s)
<1>1. T \in SUBSET (DOMAIN q.ofo)
  BY DEF PositionOf
<1>2. DOMAIN q.ofo = 1..Len(q.ofo) /\ Len(q.ofo) \in Nat
  BY DEF Sound, Queue
<1>3. T # {}
  OBVIOUS
<1> HIDE DEF T
<1>4. Max(T) \in T
  BY <1>1, <1>2, <1>3, GreatestNumber
<1> QED
  BY <1>1, <1>4 DEF T

LEMMA StartIs ==
  ASSUME NEW q, Sound(q), q.ofo # <<>>, NEW skb \in NewSeg
  PROVE  Start(q, skb) \in DOMAIN q.ofo
<1> DEFINE n == Len(q.ofo)
           behind == {p \in UNION {PositionOf(q, t) : t \in Subflow} : After(q.ofo[p].seq, skb.seq)}
           Far(p) == Distance(skb.seq, q.ofo[p].seq)
<1>1. q.ofo \in Seq(Seg) /\ DOMAIN q.ofo = 1..n /\ n \in Nat /\ n # 0
  BY DEF Sound, Queue
<1>2. behind \in SUBSET (1..n)
  BY <1>1 DEF PositionOf
<1>3. \A p \in 1..n : Far(p) \in Nat
  <2>1. skb.seq \in Int
    BY DEF NewSeg
  <2>2. \A p \in 1..n : q.ofo[p] \in Seg
    BY <1>1
  <2>3. \A x \in Seg : x.seq \in Int
    BY DEF Seg
  <2>4. \A p \in 1..n : q.ofo[p].seq \in Int
    BY <2>2, <2>3
  <2> QED
    BY <2>1, <2>4, Remainders
<1>4. CASE behind = {}
  <2>1. Start(q, skb) = n
    BY <1>4 DEF Start
  <2> QED
    BY <1>1, <2>1
<1>5. CASE behind # {}
  <2> DEFINE U == {Far(p) : p \in behind}
  <2> HIDE DEF behind, Far
  <2>1. U \in SUBSET Nat /\ U # {}
    BY <1>2, <1>3, <1>5
  <2>2. Min(U) \in U /\ \A u \in U : Min(U) <= u
    <3> HIDE DEF U
    <3> QED
      BY <2>1, LeastNumber
  <2>3. PICK p \in behind : Min(U) = Far(p)
    BY <2>2
  <2>4. \A o \in behind : Far(p) <= Far(o)
    BY <2>2, <2>3
  <2>5. Start(q, skb) = CHOOSE x \in behind : \A o \in behind : Far(x) <= Far(o)
    BY <1>5 DEF Start, behind, Far
  <2>6. (CHOOSE x \in behind : \A o \in behind : Far(x) <= Far(o)) \in behind
    <3> HIDE DEF U
    <3> QED
      BY <2>3, <2>4
  <2> QED
    BY <1>1, <1>2, <2>5, <2>6
<1> QED
  BY <1>4, <1>5

LEMMA AppendedSound ==
  ASSUME ~ IsFiniteSet(Ids), NEW q, Sound(q), NEW s \in Subflow, NEW skb \in NewSeg, NEW p \in DOMAIN q.ofo
  PROVE  /\ \A r \in Appended(q, s, skb, p) : Sound(r)
         /\ \A r \in QueueAfter(q, s, skb, p) : Sound(r)
<1>1. Sound(Coalesced(q, skb, p))
  BY CoalescedSound
<1>2. p \in 0..Len(q.ofo)
  BY DEF Sound, Queue
<1>3. Sound(Queued(q, s, skb, p))
  BY <1>2, QueuedSound
<1> QED
  BY <1>1, <1>3 DEF Appended, QueueAfter

LEMMA SearchSound ==
  ASSUME ~ IsFiniteSet(Ids), NEW q, Sound(q), q.ofo # <<>>, NEW s \in Subflow, NEW skb \in NewSeg,
         NEW r \in Search(q, s, skb)
  PROVE  Sound(r)
<1> DEFINE start == Start(q, skb)
           p == Predecessor(q, skb, start)
           n == Len(q.ofo)
           ends == skb.seq = q.ofo[start].end
           over == p > 0 /\ Before(skb.seq, q.ofo[p].end)
<1>1. DOMAIN q.ofo = 1..n /\ n \in Nat
  BY DEF Sound, Queue
<1>2. start \in DOMAIN q.ofo
  BY StartIs
<1> HIDE DEF start
<1>3. p \in 0..n
  <2> DEFINE T == {0} \cup {x \in 1..start : ~After(q.ofo[x].seq, skb.seq)}
  <2>1. T \in SUBSET (0..n) /\ T # {}
    BY <1>1, <1>2
  <2>2. p = Max(T)
    BY DEF Predecessor
  <2> HIDE DEF T, p
  <2> QED
    BY <1>1, <2>1, <2>2, GreatestOrZero
<1>4. p > 0 => p - 1 \in 0..n
  BY <1>1, <1>3
<1> HIDE DEF p
<1>5. Sound(Inserted(q, s, skb, p)) /\ (p > 0 => Sound(Inserted(q, s, skb, p - 1)))
  BY <1>3, <1>4, InsertedSound
<1>6. \A x \in Appended(q, s, skb, start) : Sound(x)
  BY <1>2, AppendedSound
<1>7. r \in CASE ends -> Appended(q, s, skb, start)
            [] ~ends /\ over ->
                 {CASE ~After(skb.end, q.ofo[p].end) -> q
                    [] OTHER -> Inserted(q, s, skb, IF skb.seq = q.ofo[p].seq THEN p - 1 ELSE p)}
            [] OTHER -> {Inserted(q, s, skb, p)}
  BY DEF Search, start, p
<1>8. CASE ends
  BY <1>6, <1>7, <1>8
<1>9. CASE ~ends /\ over
  BY <1>5, <1>7, <1>9
<1>10. CASE ~ends /\ ~over
  <2>1. r = Inserted(q, s, skb, p)
    BY <1>7, <1>10
  <2> QED
    BY <1>5, <2>1
<1> QED
  BY <1>8, <1>9, <1>10

LEMMA AddSound ==
  ASSUME ~ IsFiniteSet(Ids), NEW q, Sound(q), NEW s \in Subflow, NEW skb \in NewSeg,
         NEW r \in AddMetaOfoQueue(q, s, skb)
  PROVE  Sound(r)
<1> DEFINE hits == Hits(q, skb)
<1>1. \A t \in hits : t \in Subflow /\ PositionOf(q, t) # {}
  BY DEF Hits
<1>2. CASE q.ofo = <<>>
  <2>1. 0 \in 0..Len(q.ofo)
    BY DEF Sound, Queue
  <2>2. r = Queued(q, s, skb, 0)
    BY <1>2 DEF AddMetaOfoQueue
  <2> QED
    BY <2>1, <2>2, QueuedSound
<1>3. CASE q.ofo # <<>> /\ s \in hits
  <2>1. r \in QueueAfter(q, s, skb, Max(PositionOf(q, s)))
    BY <1>3 DEF AddMetaOfoQueue
  <2>2. Max(PositionOf(q, s)) \in DOMAIN q.ofo
    BY <1>1, <1>3, PositionIs
  <2> QED
    BY <2>1, <2>2, AppendedSound
<1>4. CASE q.ofo # <<>> /\ s \notin hits /\ hits # {}
  <2>1. r \in QueueAfter(q, s, skb, Max(PositionOf(q, Min(hits))))
    BY <1>4 DEF AddMetaOfoQueue
  <2>2. Min(hits) \in hits
    <3>1. hits \in SUBSET Nat
      BY <1>1, OfoAssumption
    <3> HIDE DEF hits
    <3> QED
      BY <1>4, <3>1, LeastNumber
  <2>3. Max(PositionOf(q, Min(hits))) \in DOMAIN q.ofo
    BY <1>1, <2>2, PositionIs
  <2> QED
    BY <2>1, <2>3, AppendedSound
<1>5. CASE q.ofo # <<>> /\ hits = {}
  <2>1. r \in Search(q, s, skb)
    BY <1>5 DEF AddMetaOfoQueue
  <2> QED
    BY <1>5, <2>1, SearchSound
<1> QED
  BY <1>2, <1>3, <1>4, <1>5

(***************************************************************************)
(* The queue is drained.                                                   *)
(***************************************************************************)

LEMMA NewBytesAre ==
  ASSUME NEW skb, skb.data \in Seq(Int), NEW seq \in Int, skb.seq \in Int
  PROVE  NewBytes(skb, seq) \in Seq(Int)
<1> DEFINE i == Distance(skb.seq, seq) + 1
           l == Len(skb.data)
<1>1. i \in Nat /\ 1 <= i
  <2>1. \A a, b \in Int : Distance(a, b) \in Nat
    BY Remainders
  <2>2. Distance(skb.seq, seq) \in Nat
    BY <2>1
  <2> QED
    BY <2>2
<1>2. l \in Nat
  OBVIOUS
<1> HIDE DEF i
<1>3. i \in Int /\ l \in Int /\ \A k \in i..l : skb.data[k] \in Int
  BY <1>1, <1>2
<1>4. SubSeq(skb.data, i, l) \in Seq(Int)
  BY <1>3, SubSeqProperties
<1> QED
  BY <1>4 DEF NewBytes, i

Draining == [n : Nat, rcv_nxt : Int, bytes : Seq(Int), fin : BOOLEAN, stop : BOOLEAN]

LEMMA DrainsOn ==
  ASSUME NEW d \in Draining, NEW skb \in Seg
  PROVE  DrainOne(d, skb) \in Draining /\ DrainOne(d, skb).n <= d.n + 1
<1>1. /\ d.n \in Nat /\ d.rcv_nxt \in Int /\ d.bytes \in Seq(Int) /\ d.fin \in BOOLEAN /\ d.stop \in BOOLEAN
      /\ skb.seq \in Int /\ skb.end \in Int /\ skb.fin \in BOOLEAN /\ skb.data \in Seq(Int)
  <2>1. d.n \in Nat /\ d.rcv_nxt \in Int /\ d.bytes \in Seq(Int) /\ d.fin \in BOOLEAN /\ d.stop \in BOOLEAN
    BY DEF Draining
  <2>2. skb.seq \in Int /\ skb.end \in Int /\ skb.fin \in BOOLEAN /\ skb.data \in Seq(Int)
    BY DEF Seg
  <2> QED
    BY <2>1, <2>2
<1> DEFINE far == After(skb.seq, d.rcv_nxt)
           old == ~After(skb.end, d.rcv_nxt)
<1>2. CASE d.stop
  <2>1. DrainOne(d, skb) = d
    BY <1>2 DEF DrainOne
  <2> QED
    BY <1>1, <2>1
<1>3. CASE ~d.stop /\ far
  <2>1. DrainOne(d, skb) = [d EXCEPT !.stop = TRUE]
    BY <1>3 DEF DrainOne
  <2> HIDE DEF far, old
  <2>2. DrainOne(d, skb) \in Draining /\ DrainOne(d, skb).n = d.n
    BY <2>1 DEF Draining
  <2> QED
    BY <1>1, <2>2
<1>4. CASE ~d.stop /\ ~far /\ old
  <2>1. DrainOne(d, skb) = [d EXCEPT !.n = @ + 1]
    BY <1>4 DEF DrainOne
  <2> HIDE DEF far, old
  <2> QED
    BY <1>1, <2>1 DEF Draining
<1>5. CASE ~d.stop /\ ~far /\ ~old
  <2> DEFINE bytes == d.bytes \o NewBytes(skb, d.rcv_nxt)
  <2>1. DrainOne(d, skb) = [n |-> d.n + 1, rcv_nxt |-> skb.end, fin |-> skb.fin, stop |-> skb.fin,
                            bytes |-> bytes]
    BY <1>5 DEF DrainOne
  <2>2. bytes \in Seq(Int)
    <3>1. NewBytes(skb, d.rcv_nxt) \in Seq(Int)
      BY <1>1, NewBytesAre
    <3> QED
      BY <1>1, <3>1
  <2> HIDE DEF bytes
  <2> QED
    BY <1>1, <2>1, <2>2 DEF Draining
<1> QED
  BY <1>2, <1>3, <1>4, <1>5

LEMMA Drains ==
  ASSUME NEW base \in Draining, base.n = 0, NEW q \in Seq(Seg)
  PROVE  LET d == FoldLeft(DrainOne, base, q)
         IN  d \in Draining /\ d.n <= Len(q)
<1> DEFINE n == Len(q)
           G == [k \in 1..n |-> [d \in Draining |-> DrainOne(d, q[k])]]
           Folds(it) == it = [s \in SUBSET (1..n) |->
                               IF s = {} THEN base ELSE DrainOne(it[s \ {Max(s)}], q[Max(s)])]
<1>1. n \in Nat /\ DOMAIN q = 1..n /\ \A k \in 1..n : q[k] \in Seg
  OBVIOUS
<1>2. FoldLeft(DrainOne, base, q) = (CHOOSE it : Folds(it))[1..n]
  BY <1>1 DEF FoldLeft, MapThenFoldSet
<1>3. G \in [1..n -> [Draining -> Draining]]
  BY <1>1, DrainsOn
<1>4. PICK g \in [SUBSET (1..n) -> Draining] :
        \A s \in SUBSET (1..n) : g[s] = IF s = {} THEN base ELSE G[Max(s)][g[s \ {Max(s)}]]
  <2>1. base \in Draining /\ n \in Nat
    BY <1>1
  <2> HIDE DEF G, n, Folds
  <2>2. FoldsOf(n, Draining, base, G) # {}
    BY <1>3, <2>1, FoldExists
  <2> QED
    BY <2>2 DEF FoldsOf
<1>5. Folds(g)
  <2>1. ASSUME NEW s \in SUBSET (1..n), s # {}
        PROVE  g[s] = DrainOne(g[s \ {Max(s)}], q[Max(s)])
    <3>1. Max(s) \in 1..n
      BY <1>1, <2>1, GreatestNumber
    <3>2. g[s \ {Max(s)}] \in Draining
      BY <1>4
    <3>3. g[s] = G[Max(s)][g[s \ {Max(s)}]]
      BY <1>4, <2>1
    <3> QED
      BY <3>1, <3>2, <3>3
  <2>2. g[{}] = base
    BY <1>4
  <2> QED
    BY <2>1, <2>2
<1> DEFINE it == CHOOSE x : Folds(x)
           P == {s \in SUBSET (1..n) : it[s] \in Draining /\ it[s].n <= Cardinality(s)}
<1>6. Folds(it)
  <2> HIDE DEF Folds
  <2> QED
    BY <1>5
<1> HIDE DEF it
<1>7. IsFiniteSet(1..n) /\ Cardinality(1..n) = n
  BY <1>1, FS_Interval
<1>8. {} \in P
  <2>1. it[{}] = base
    BY <1>6
  <2>2. Cardinality({}) = 0
    BY FS_EmptySet
  <2> QED
    BY <2>1, <2>2
<1>9. ASSUME NEW s \in SUBSET (1..n), s # {}, s \ {Max(s)} \in P
      PROVE  s \in P
  <2>1. Max(s) \in 1..n /\ Max(s) \in s
    BY <1>1, <1>9, GreatestNumber
  <2>2. it[s] = DrainOne(it[s \ {Max(s)}], q[Max(s)])
    BY <1>6, <1>9
  <2>3. it[s] \in Draining /\ it[s].n <= it[s \ {Max(s)}].n + 1
    BY <1>1, <1>9, <2>1, <2>2, DrainsOn
  <2>4. IsFiniteSet(s) /\ Cardinality(s \ {Max(s)}) = Cardinality(s) - 1 /\ Cardinality(s) \in Nat
    <3>1. IsFiniteSet(s)
      BY <1>7, FS_Subset
    <3> QED
      BY <2>1, <3>1, FS_RemoveElement, FS_CardinalityType
  <2>5. it[s].n \in Nat /\ it[s \ {Max(s)}].n \in Nat /\ it[s \ {Max(s)}].n <= Cardinality(s \ {Max(s)})
    BY <1>9, <2>3 DEF Draining
  <2> QED
    BY <2>3, <2>4, <2>5
<1>10. SUBSET (1..n) \subseteq P
  <2> HIDE DEF P, n
  <2> QED
    BY <1>1, <1>8, <1>9, IndexInduction
<1>11. it[1..n] \in Draining /\ it[1..n].n <= n
  BY <1>7, <1>10
<1> QED
  BY <1>2, <1>11 DEF it

LEMMA DrainSound ==
  ASSUME NEW q, Sound(q), NEW seq \in Int
  PROVE  LET d == Drain(q, seq)
         IN  Sound(d.queue) /\ d.rcv_nxt \in Int /\ d.bytes \in Seq(Int) /\ d.fin \in BOOLEAN
<1> DEFINE base == [n |-> 0, rcv_nxt |-> seq, bytes |-> <<>>, fin |-> FALSE, stop |-> FALSE]
           f == FoldLeft(DrainOne, base, q.ofo)
           left == [ofo |-> SubSeq(q.ofo, f.n + 1, Len(q.ofo)), shortcut |-> RemoveShortcuts(q, 1, f.n)]
<1>1. base \in Draining /\ base.n = 0
  BY DEF Draining
<1>2. q.ofo \in Seq(Seg)
  BY DEF Sound, Queue
<1> HIDE DEF base
<1>3. f \in Draining /\ f.n <= Len(q.ofo)
  BY <1>1, <1>2, Drains
<1> HIDE DEF f
<1>4. f.n \in 0..Len(q.ofo) /\ f.rcv_nxt \in Int /\ f.bytes \in Seq(Int) /\ f.fin \in BOOLEAN
  BY <1>2, <1>3 DEF Draining
<1>5. Sound(left)
  BY <1>4, TailSound
<1> HIDE DEF left
<1>6. Sound(PurgeOfoQueue(left))
  BY <1>5, PurgedSound
<1>7. Drain(q, seq) = [queue |-> IF f.fin THEN PurgeOfoQueue(left) ELSE left,
                       rcv_nxt |-> f.rcv_nxt, bytes |-> f.bytes, fin |-> f.fin]
  BY DEF Drain, left, f, base
<1> QED
  BY <1>4, <1>5, <1>6, <1>7

(***************************************************************************)
(* The types a segment is made from.                                       *)
(***************************************************************************)

DssT  == [seq : Int, wide : BOOLEAN, subseq : Int, len : Int, fin : BOOLEAN, inf : BOOLEAN]
SkbT  == [seq : Int, data : Seq(Int), dss : DssT \cup {None}, bad : BOOLEAN, fin : BOOLEAN]
MapT  == [seq : Int, subseq : Int, len : Int, fin : BOOLEAN, present : BOOLEAN]
SubT  == [queue : Seq(SkbT), rcv_nxt : Int, copied_seq : Int, map : MapT, mp_fail : BOOLEAN,
          established : BOOLEAN, init_rcv_wnd : Int, dead : BOOLEAN, counted : BOOLEAN,
          fin : BOOLEAN]
MetaT == [rcv_nxt : Int, rcv_wup : Int, hiseq : 0..1, rcv_high : [0..1 -> Int], infinite_rcv : BOOLEAN,
          infinite_rcv_seq : Int, send_infinite : BOOLEAN, can_recv : BOOLEAN]

LEMMA MetaNumbers ==
  ASSUME NEW m \in MetaT
  PROVE  /\ RcvNxt64(m) \in Int /\ RcvWup64(m) \in Int
         /\ \A dss \in DssT : MapDataSeq(m, dss) \in Int
<1>1. m.rcv_nxt \in Int /\ m.rcv_wup \in Int /\ m.hiseq \in 0..1 /\ m.rcv_high \in [0..1 -> Int]
  BY DEF MetaT
<1>2. 1 - m.hiseq \in 0..1
  BY <1>1
<1>3. m.rcv_high[m.hiseq] \in Int /\ m.rcv_high[1 - m.hiseq] \in Int /\ Wrap \in Int
  <2>1. m.rcv_high[m.hiseq] \in Int /\ m.rcv_high[1 - m.hiseq] \in Int
    BY <1>1, <1>2
  <2> QED
    BY <2>1, WrapAssumption
<1>4. \A a, b \in Int : a * Wrap + b \in Int
  BY <1>3
<1>5. \A b \in Int : DataSeq64(m, m.hiseq, b) \in Int /\ DataSeq64(m, 1 - m.hiseq, b) \in Int
  BY <1>3, <1>4 DEF DataSeq64
<1>6. (m.rcv_high[m.hiseq] - 1) * Wrap + m.rcv_wup \in Int
  BY <1>1, <1>3, <1>4
<1>7. \A x \in 0..1, b \in Int : DataSeq64(m, x, b) \in Int
  BY <1>1, <1>4 DEF DataSeq64
<1>8. ASSUME NEW dss \in DssT PROVE MapDataSeq(m, dss) \in Int
  <2> DEFINE high == {x \in 0..1 : m.rcv_high[x] = dss.seq \div Wrap}
  <2>1. Low(dss.seq) \in Int /\ dss.wide \in BOOLEAN
    BY Remainders DEF DssT
  <2>2. ASSUME high # {} PROVE Min(high) \in 0..1
    BY <2>2 DEF Min
  <2>3. DataSeq64(m, 0, Low(dss.seq)) + 2 * (Wrap - 1) \in Int
    BY <1>3, <1>7, <2>1
  <2>4. CASE ~dss.wide
    BY <1>5, <2>1, <2>4 DEF MapDataSeq
  <2>5. CASE dss.wide /\ high # {}
    BY <1>7, <2>1, <2>2, <2>5 DEF MapDataSeq
  <2>6. CASE dss.wide /\ high = {}
    BY <2>3, <2>6 DEF MapDataSeq
  <2> QED
    BY <2>1, <2>4, <2>5, <2>6
<1> QED
  BY <1>1, <1>5, <1>6, <1>8 DEF RcvNxt64, RcvWup64

LEMMA WrapTyped ==
  ASSUME NEW m \in MetaT, NEW old
  PROVE  CheckRcvseqWrap(m, old) \in MetaT
<1>1. m.hiseq \in 0..1 /\ m.rcv_high \in [0..1 -> Int]
  BY DEF MetaT
<1> DEFINE high == [m.rcv_high EXCEPT ![m.hiseq] = @ + 2]
           new == [m EXCEPT !.rcv_high = high, !.hiseq = 1 - @]
<1>2. high \in [0..1 -> Int] /\ 1 - m.hiseq \in 0..1
  BY <1>1
<1>3. [m EXCEPT !.rcv_high[m.hiseq] = @ + 2, !.hiseq = 1 - @] = new
  BY DEF MetaT
<1> HIDE DEF high
<1>4. new \in MetaT
  BY <1>2 DEF MetaT
<1> HIDE DEF new
<1> QED
  BY <1>3, <1>4 DEF CheckRcvseqWrap

LEMMA SkbNumbers ==
  ASSUME NEW skb \in SkbT
  PROVE  /\ skb.seq \in Int /\ skb.data \in Seq(Int) /\ Bytes(skb) \in Nat /\ EndOf(skb) \in Int
         /\ skb.dss \in DssT \cup {None} /\ skb.fin \in BOOLEAN
<1>1. skb.seq \in Int /\ skb.data \in Seq(Int) /\ skb.fin \in BOOLEAN /\ skb.dss \in DssT \cup {None}
  BY DEF SkbT
<1> QED
  BY <1>1 DEF Bytes, EndOf

LEMMA MapsTyped ==
  ASSUME NEW u \in SubT, NEW m \in MetaT, NEW skb \in SkbT
  PROVE  /\ InfiniteMap(u, m, skb) \in MapT
         /\ \A dss \in DssT : ReadMap(m, dss, skb) \in MapT
<1>1. skb.seq \in Int /\ Bytes(skb) \in Int /\ skb.fin \in BOOLEAN
  BY SkbNumbers
<1>2. u.copied_seq \in Int /\ m.infinite_rcv_seq \in Int
  BY DEF SubT, MetaT
<1>3. InfiniteMap(u, m, skb) \in MapT
  BY <1>1, <1>2 DEF InfiniteMap, MapT
<1>4. ASSUME NEW dss \in DssT PROVE ReadMap(m, dss, skb) \in MapT
  <2>1. dss.seq \in Int /\ dss.subseq \in Int /\ dss.len \in Int /\ dss.fin \in BOOLEAN
    BY DEF DssT
  <2>2. MapDataSeq(m, dss) \in Int
    BY MetaNumbers
  <2> QED
    BY <1>1, <2>1, <2>2 DEF ReadMap, MapT
<1> QED
  BY <1>3, <1>4

LEMMA SubFields ==
  ASSUME NEW u \in SubT
  PROVE  /\ u.queue \in Seq(SkbT) /\ Len(u.queue) \in Nat /\ DOMAIN u.queue = 1..Len(u.queue)
         /\ u.rcv_nxt \in Int /\ u.copied_seq \in Int /\ u.init_rcv_wnd \in Int
         /\ u.map.seq \in Int /\ u.map.subseq \in Int /\ u.map.len \in Int /\ u.map.fin \in BOOLEAN
         /\ \A i \in 1..Len(u.queue) : u.queue[i] \in SkbT
<1>1. u.queue \in Seq(SkbT) /\ u.map \in MapT /\ u.rcv_nxt \in Int /\ u.copied_seq \in Int /\ u.init_rcv_wnd \in Int
  BY DEF SubT
<1>2. u.map.seq \in Int /\ u.map.subseq \in Int /\ u.map.len \in Int /\ u.map.fin \in BOOLEAN
  BY <1>1 DEF MapT
<1> QED
  BY <1>1, <1>2

LEMMA ResetTyped ==
  ASSUME NEW u \in SubT
  PROVE  Reset(u) \in SubT /\ [u EXCEPT !.map = NoMap] \in SubT
<1>1. NoMap \in MapT
  BY DEF NoMap, MapT
<1>2. <<>> \in Seq(SkbT)
  OBVIOUS
<1> HIDE DEF NoMap
<1> QED
  BY <1>1, <1>2 DEF Reset, SubT

LEMMA CloseOthersTyped ==
  ASSUME NEW f \in [Subflow -> SubT], NEW s \in Subflow
  PROVE  CloseOthers(f, s) \in [Subflow -> SubT] /\ CloseOthers(f, s)[s] = f[s]
BY ResetTyped DEF CloseOthers

LEMMA UnlinkedTyped ==
  ASSUME NEW u \in SubT, NEW i \in DOMAIN u.queue
  PROVE  Unlinked(u, i) \in SubT
<1>1. u.queue \in Seq(SkbT) /\ i \in 1..Len(u.queue) /\ u.queue[i] \in SkbT
  BY SubFields
<1> DEFINE q == RemoveAt(u.queue, i)
           e == EndOf(u.queue[i])
<1>2. q \in Seq(SkbT)
  BY <1>1, RemoveAtIs
<1>3. e \in Int
  BY <1>1, SkbNumbers
<1>4. Unlinked(u, i) = [u EXCEPT !.copied_seq = e, !.queue = q]
  BY DEF Unlinked
<1> HIDE DEF q, e
<1> QED
  BY <1>2, <1>3, <1>4 DEF SubT

LEMMA CountWindowTyped ==
  ASSUME NEW u \in SubT, NEW skb \in SkbT
  PROVE  CountWindow(u, skb) \in SubT
<1> DEFINE left == u.init_rcv_wnd - Bytes(skb)
           b == left < 0
<1>1. left \in Int /\ b \in BOOLEAN
  <2>1. u.init_rcv_wnd \in Int /\ Bytes(skb) \in Int
    BY SubFields, SkbNumbers
  <2> QED
    BY <2>1
<1>2. CountWindow(u, skb) = IF u.established THEN u ELSE [u EXCEPT !.init_rcv_wnd = left, !.established = b]
  BY DEF CountWindow
<1> HIDE DEF left, b
<1> QED
  BY <1>1, <1>2 DEF SubT

\* A part of the payload.
LEMMA PartTyped ==
  ASSUME NEW data \in Seq(Int), NEW i \in Int, NEW j \in Int, 1 <= i, j <= Len(data)
  PROVE  SubSeq(data, i, j) \in Seq(Int)
<1>1. \A k \in i..j : data[k] \in Int
  OBVIOUS
<1> QED
  BY <1>1, SubSeqProperties

LEMMA CutTyped ==
  ASSUME NEW skb \in SkbT, NEW x \in Int, skb.seq <= x
  PROVE  Cut(skb, x) \in SkbT
<1> DEFINE i == x - skb.seq + 1
           d == SubSeq(skb.data, i, Len(skb.data))
<1>1. skb.seq \in Int /\ skb.data \in Seq(Int)
  BY SkbNumbers
<1>2. i \in Int /\ 1 <= i /\ Len(skb.data) \in Int /\ Len(skb.data) <= Len(skb.data)
  BY <1>1
<1> HIDE DEF i
<1>3. d \in Seq(Int)
  BY <1>1, <1>2, PartTyped
<1>4. Cut(skb, x) = [skb EXCEPT !.seq = x, !.data = d]
  BY DEF Cut, i
<1> HIDE DEF d
<1> QED
  BY <1>3, <1>4 DEF SkbT

LEMMA TrimmedTyped ==
  ASSUME NEW u \in SubT, u.queue # <<>>
  PROVE  /\ Trimmed(u) \in SubT
         /\ Trimmed(u).map = u.map /\ DOMAIN Trimmed(u).queue = DOMAIN u.queue
<1> DEFINE skb == u.queue[1]
           cut == Cut(skb, u.map.subseq)
           q == [u.queue EXCEPT ![1] = cut]
<1>1. /\ u.queue \in Seq(SkbT) /\ 1 \in DOMAIN u.queue /\ skb \in SkbT
      /\ skb.seq \in Int /\ u.map.subseq \in Int
  <2>1. u.queue \in Seq(SkbT) /\ u.map.subseq \in Int
    BY SubFields
  <2>2. 1 \in DOMAIN u.queue
    BY <2>1
  <2>3. skb \in SkbT
    BY <2>1, <2>2
  <2> QED
    BY <2>1, <2>2, <2>3, SkbNumbers
<1>2. CASE skb.seq < u.map.subseq /\ EndOf(skb) > u.map.subseq
  <2>1. cut \in SkbT
    BY <1>1, <1>2, CutTyped
  <2>2. [u EXCEPT !.queue[1] = cut] = [u EXCEPT !.queue = q]
    BY DEF SubT
  <2>3. Trimmed(u) = [u EXCEPT !.queue = q]
    BY <1>2, <2>2 DEF Trimmed
  <2> HIDE DEF cut
  <2>4. q \in Seq(SkbT) /\ DOMAIN q = DOMAIN u.queue
    BY <1>1, <2>1
  <2> HIDE DEF q
  <2> QED
    BY <2>3, <2>4 DEF SubT
<1>3. CASE ~(skb.seq < u.map.subseq /\ EndOf(skb) > u.map.subseq)
  BY <1>3 DEF Trimmed
<1> QED
  BY <1>2, <1>3

LEMMA SplitTyped ==
  ASSUME NEW u \in SubT, NEW i \in DOMAIN u.queue, EndsBehind(u, i), CanSplit(u, i)
  PROVE  Split(u, i) \in SubT
<1> DEFINE cut == u.map.subseq + u.map.len
           skb == u.queue[i]
           data == SubSeq(skb.data, 1, cut - skb.seq)
           head == [skb EXCEPT !.data = data]
           tail == [Cut(skb, cut) EXCEPT !.dss = None]
           q == [u.queue EXCEPT ![i] = head]
           r == InsertAt(q, i + 1, tail)
<1>1. /\ u.queue \in Seq(SkbT) /\ skb \in SkbT /\ skb.seq \in Int /\ cut \in Int /\ skb.data \in Seq(Int)
      /\ i \in 1..Len(u.queue) /\ Len(u.queue) \in Nat
  <2>1. u.queue \in Seq(SkbT) /\ skb \in SkbT /\ u.map.subseq \in Int /\ u.map.len \in Int
    BY SubFields
  <2>2. cut \in Int
    BY <2>1
  <2>3. i \in 1..Len(u.queue) /\ Len(u.queue) \in Nat
    BY <2>1
  <2> QED
    BY <2>1, <2>2, <2>3, SkbNumbers
<1>2. skb.seq < cut /\ cut < skb.seq + Len(skb.data)
  <2>1. skb.seq < cut /\ skb.seq + Bytes(skb) > cut
    BY DEF EndsBehind, CanSplit
  <2> QED
    BY <1>1, <2>1 DEF Bytes
<1>3. Split(u, i) = [u EXCEPT !.queue = r]
  BY DEF Split
<1> HIDE DEF cut
<1>4. data \in Seq(Int)
  <2>1. 1 \in Int /\ cut - skb.seq \in Int /\ 1 <= 1 /\ cut - skb.seq <= Len(skb.data)
    BY <1>1, <1>2
  <2> HIDE DEF skb
  <2> QED
    BY <1>1, <2>1, PartTyped
<1>5. tail \in SkbT
  <2>1. PICK c \in SkbT : c = Cut(skb, cut)
    <3>1. skb.seq <= cut
      BY <1>1, <1>2
    <3> QED
      BY <1>1, <3>1, CutTyped
  <2>2. [c EXCEPT !.dss = None] \in SkbT
    BY DEF SkbT
  <2> QED
    BY <2>1, <2>2
<1> HIDE DEF data, tail
<1>6. q \in Seq(SkbT) /\ Len(q) = Len(u.queue)
  <2>1. head \in SkbT
    BY <1>1, <1>4 DEF SkbT
  <2> HIDE DEF head
  <2> QED
    BY <1>1, <2>1
<1> HIDE DEF q
<1>7. r \in Seq(SkbT)
  <2>1. i + 1 \in 1..Len(q) + 1
    BY <1>1, <1>6
  <2> QED
    <3>1. \A x \in 1..Len(q) + 1 : InsertAt(q, x, tail) \in Seq(SkbT)
      BY <1>5, <1>6, InsertAtIs
    <3> QED
      BY <2>1, <3>1
<1> HIDE DEF r
<1> QED
  BY <1>3, <1>7 DEF SubT

LEMMA WithoutOldTyped ==
  ASSUME NEW u \in SubT
  PROVE  WithoutOld(u) \in SubT
<1> DEFINE n == Len(u.queue)
           old == Old(u)
           q == SubSeq(u.queue, old + 1, n)
           c == IF old = 0 THEN u.copied_seq ELSE EndOf(u.queue[old])
<1>1. u.queue \in Seq(SkbT) /\ n \in Nat /\ u.copied_seq \in Int
  BY SubFields
<1>2. old \in 0..n
  <2> DEFINE T == {i \in 0..n : \A j \in 1..i : u.queue[j].seq < u.map.subseq}
  <2>1. T \in SUBSET (0..n) /\ 0 \in T
    BY <1>1
  <2>2. old = Max(T)
    BY DEF Old
  <2> HIDE DEF T, old
  <2> QED
    BY <1>1, <2>1, <2>2, GreatestOrZero
<1> HIDE DEF old
<1>3. q \in Seq(SkbT)
  <2>1. old + 1 \in 1..n + 1 /\ n \in Int /\ (old + 1) - 1 <= n /\ n <= n
    BY <1>1, <1>2
  <2> QED
    BY <1>1, <2>1, PartIs
<1>4. c \in Int
  <2>1. CASE old = 0
    BY <1>1, <2>1
  <2>2. CASE old # 0
    <3>1. u.queue[old] \in SkbT
      BY <1>1, <1>2, <2>2
    <3> QED
      BY <2>2, <3>1, SkbNumbers
  <2> QED
    BY <2>1, <2>2
<1>5. WithoutOld(u) = [u EXCEPT !.queue = q, !.copied_seq = c]
  BY DEF WithoutOld, old
<1> HIDE DEF q, c
<1> QED
  BY <1>3, <1>4, <1>5 DEF SubT

LEMMA MappedIs ==
  ASSUME NEW u \in SubT
  PROVE  Mapped(u) \in 0..Len(u.queue)
<1> DEFINE n == Len(u.queue)
           T == {i \in 0..n : \A j \in 2..i : u.queue[j].seq < u.map.subseq + u.map.len}
<1>1. n \in Nat
  BY SubFields
<1>2. T \in SUBSET (0..n) /\ 0 \in T
  BY <1>1
<1>3. Mapped(u) = Max(T)
  BY DEF Mapped
<1> HIDE DEF T, n
<1>4. Mapped(u) \in 0..n
  BY <1>1, <1>2, <1>3, GreatestOrZero
<1> QED
  BY <1>4 DEF n

LEMMA TakenTyped ==
  ASSUME NEW u \in SubT
  PROVE  Taken(u) \in SubT /\ SubSeq(u.queue, 1, Mapped(u)) \in Seq(SkbT)
<1> DEFINE n == Len(u.queue)
           m == Mapped(u)
           q == SubSeq(u.queue, m + 1, n)
           c == IF m = 0 THEN u.copied_seq ELSE EndOf(u.queue[m])
<1>1. u.queue \in Seq(SkbT) /\ n \in Nat /\ u.copied_seq \in Int
  BY SubFields
<1>2. m \in 0..n
  BY MappedIs
<1> HIDE DEF m
<1>3. q \in Seq(SkbT) /\ SubSeq(u.queue, 1, m) \in Seq(SkbT)
  <2>1. m + 1 \in 1..n + 1 /\ n \in Int /\ (m + 1) - 1 <= n /\ n <= n
    BY <1>1, <1>2
  <2>2. 1 \in 1..n + 1 /\ m \in Int /\ 1 - 1 <= m /\ m <= n
    BY <1>1, <1>2
  <2> QED
    BY <1>1, <2>1, <2>2, PartIs
<1>4. c \in Int
  <2>1. CASE m = 0
    BY <1>1, <2>1
  <2>2. CASE m # 0
    <3>1. u.queue[m] \in SkbT
      BY <1>1, <1>2, <2>2
    <3> QED
      BY <2>2, <3>1, SkbNumbers
  <2> QED
    BY <2>1, <2>2
<1>5. NoMap \in MapT
  BY DEF NoMap, MapT
<1>6. Taken(u) = [u EXCEPT !.queue = q, !.map = NoMap, !.copied_seq = c]
  BY DEF Taken, m
<1> HIDE DEF q, c, NoMap
<1>7. Taken(u) \in SubT
  BY <1>3, <1>4, <1>5, <1>6 DEF SubT
<1> QED
  BY <1>3, <1>7 DEF m

LEMMA PreparedTyped ==
  ASSUME sub \in [Subflow -> SubT], NEW s \in Subflow, NEW skb \in SkbT
  PROVE  Prepared(s, skb) \in NewSeg
<1> DEFINE map == sub[s].map
           fin == map.fin /\ skb.seq + Bytes(skb) = map.subseq + map.len
           seq == map.seq + skb.seq - map.subseq
           end == seq + Bytes(skb) + (IF fin THEN 1 ELSE 0)
<1>1. map.seq \in Int /\ map.subseq \in Int /\ map.len \in Int /\ map.fin \in BOOLEAN
  BY SubFields
<1>2. skb.seq \in Int /\ Bytes(skb) \in Int /\ skb.data \in Seq(Int)
  BY SkbNumbers
<1> HIDE DEF map
<1>3. seq \in Int /\ end \in Int
  BY <1>1, <1>2
<1>4. fin \in BOOLEAN
  BY <1>1
<1>5. Low(seq) \in Int /\ Low(end) \in Int
  BY <1>3, Remainders
<1>6. Prepared(s, skb) = [id |-> None, seq |-> Low(seq), end |-> Low(end), fin |-> fin, data |-> skb.data]
  BY DEF Prepared, map
<1> HIDE DEF seq, end, fin
<1> QED
  BY <1>2, <1>4, <1>5, <1>6 DEF NewSeg

(***************************************************************************)
(* The segments of a mapping go to the out-of-order queue, or to the       *)
(* receive queue.                                                          *)
(***************************************************************************)

SoundQueues == {q \in Queue : Sound(q)}

LEMMA AddsOn ==
  ASSUME ~ IsFiniteSet(Ids), sub \in [Subflow -> SubT], NEW s \in Subflow, NEW skb \in SkbT,
         NEW queues \in SUBSET SoundQueues
  PROVE  UNION {AddMetaOfoQueue(q, s, Prepared(s, skb)) : q \in queues} \in SUBSET SoundQueues
<1> DEFINE new == Prepared(s, skb)
<1>1. new \in NewSeg
  BY PreparedTyped
<1> HIDE DEF new
<1>2. ASSUME NEW q \in queues, NEW r \in AddMetaOfoQueue(q, s, new) PROVE r \in SoundQueues
  <2>1. Sound(q)
    BY DEF SoundQueues
  <2>2. Sound(r)
    BY <1>1, <1>2, <2>1, AddSound
  <2> QED
    BY <2>2 DEF SoundQueues, Sound
<1>3. UNION {AddMetaOfoQueue(q, s, new) : q \in queues} \in SUBSET SoundQueues
  BY <1>2
<1> QED
  BY <1>3 DEF new

LEMMA AddsAll ==
  ASSUME ~ IsFiniteSet(Ids), sub \in [Subflow -> SubT], NEW s \in Subflow, NEW row \in Seq(SkbT),
         Sound(ofoq), NEW r \in AddAll(s, row)
  PROVE  Sound(r)
<1> DEFINE n == Len(row)
           A == SUBSET SoundQueues
           Added(queues, skb) == UNION {AddMetaOfoQueue(q, s, Prepared(s, skb)) : q \in queues}
           G == [k \in 1..n |-> [x \in A |-> Added(x, row[k])]]
           Folds(it) == it = [m \in SUBSET (1..n) |->
                               IF m = {} THEN {ofoq} ELSE Added(it[m \ {Max(m)}], row[Max(m)])]
<1>1. n \in Nat /\ DOMAIN row = 1..n /\ \A k \in 1..n : row[k] \in SkbT
  OBVIOUS
<1>2. AddAll(s, row) = (CHOOSE it : Folds(it))[1..n]
  BY <1>1 DEF AddAll, FoldLeft, MapThenFoldSet
<1>3. \A x \in A, skb \in SkbT : Added(x, skb) \in A
  BY AddsOn
<1>4. {ofoq} \in A
  BY DEF SoundQueues, Sound
<1> HIDE DEF A, Added
<1>5. G \in [1..n -> [A -> A]]
  BY <1>1, <1>3
<1>6. PICK g \in [SUBSET (1..n) -> A] :
        \A m \in SUBSET (1..n) : g[m] = IF m = {} THEN {ofoq} ELSE G[Max(m)][g[m \ {Max(m)}]]
  <2> HIDE DEF G, n, Folds
  <2>1. FoldsOf(n, A, {ofoq}, G) # {}
    BY <1>1, <1>4, <1>5, FoldExists
  <2> QED
    BY <2>1 DEF FoldsOf
<1>7. Folds(g)
  <2>1. ASSUME NEW m \in SUBSET (1..n), m # {}
        PROVE  g[m] = Added(g[m \ {Max(m)}], row[Max(m)])
    <3>1. Max(m) \in 1..n
      BY <1>1, <2>1, GreatestNumber
    <3>2. g[m \ {Max(m)}] \in A
      BY <1>6
    <3>3. g[m] = G[Max(m)][g[m \ {Max(m)}]]
      BY <1>6, <2>1
    <3> QED
      BY <3>1, <3>2, <3>3
  <2>2. g[{}] = {ofoq}
    BY <1>6
  <2> QED
    BY <2>1, <2>2
<1> DEFINE it == CHOOSE x : Folds(x)
           P == {m \in SUBSET (1..n) : it[m] \in A}
<1>8. Folds(it)
  <2> HIDE DEF Folds
  <2> QED
    BY <1>7
<1> HIDE DEF it
<1>9. {} \in P
  BY <1>4, <1>8
<1>10. ASSUME NEW m \in SUBSET (1..n), m # {}, m \ {Max(m)} \in P
       PROVE  m \in P
  <2>1. Max(m) \in 1..n
    BY <1>1, <1>10, GreatestNumber
  <2>2. it[m] = Added(it[m \ {Max(m)}], row[Max(m)])
    BY <1>8, <1>10
  <2>3. it[m] \in A
    BY <1>1, <1>3, <1>10, <2>1, <2>2
  <2> QED
    BY <2>3
<1>11. SUBSET (1..n) \subseteq P
  <2> HIDE DEF P, n
  <2> QED
    BY <1>1, <1>9, <1>10, IndexInduction
<1>12. it[1..n] \in A
  BY <1>11
<1> QED
  BY <1>2, <1>12 DEF it, A, SoundQueues

Delivery == [m : MetaT, q : SoundQueues, bytes : Seq(Int)]

LEMMA DeliversOn ==
  ASSUME sub \in [Subflow -> SubT], NEW s \in Subflow, NEW skb \in SkbT, NEW d \in Delivery
  PROVE  DeliverOne(s, d, skb) \in Delivery
<1> DEFINE new == Prepared(s, skb)
           next == Drain(d.q, new.end)
           one == [d.m EXCEPT !.rcv_nxt = new.end]
           m == CheckRcvseqWrap(one, d.m.rcv_nxt)
           two == [m EXCEPT !.rcv_nxt = next.rcv_nxt]
           m2 == CheckRcvseqWrap(two, m.rcv_nxt)
           bytes == NewBytes(new, d.m.rcv_nxt)
           further == After(new.end, d.m.rcv_nxt)
<1>1. d.m \in MetaT /\ Sound(d.q) /\ d.bytes \in Seq(Int)
  BY DEF Delivery, SoundQueues
<1>2. new \in NewSeg
  BY PreparedTyped
<1>3. DeliverOne(s, d, skb) =
        CASE ~further -> d
          [] further /\ new.fin ->
               [m |-> [m EXCEPT !.can_recv = FALSE], q |-> PurgeOfoQueue(d.q), bytes |-> d.bytes \o bytes]
          [] OTHER ->
               [m |-> [m2 EXCEPT !.can_recv = @ /\ ~next.fin], q |-> next.queue,
                bytes |-> d.bytes \o bytes \o next.bytes]
  BY DEF DeliverOne
<1> HIDE DEF new
<1>4. new.end \in Int /\ new.seq \in Int /\ new.data \in Seq(Int)
  BY <1>2 DEF NewSeg
<1>5. d.m.rcv_nxt \in Int
  BY <1>1 DEF MetaT
<1>6. bytes \in Seq(Int)
  BY <1>4, <1>5, NewBytesAre
<1>7. Sound(next.queue) /\ next.rcv_nxt \in Int /\ next.bytes \in Seq(Int) /\ next.fin \in BOOLEAN
  BY <1>1, <1>4, DrainSound
<1>8. Sound(PurgeOfoQueue(d.q))
  BY <1>1, PurgedSound
<1> HIDE DEF next, bytes, further
<1>9. one \in MetaT
  BY <1>1, <1>4 DEF MetaT
<1> HIDE DEF one
<1>10. m \in MetaT
  BY <1>9, WrapTyped
<1> HIDE DEF m
<1>11. two \in MetaT
  BY <1>7, <1>10 DEF MetaT
<1> HIDE DEF two
<1>12. m2 \in MetaT
  BY <1>11, WrapTyped
<1> HIDE DEF m2
<1>13. CASE ~further
  <2>1. DeliverOne(s, d, skb) = d
    BY <1>3, <1>13
  <2> QED
    BY <2>1
<1>14. CASE further /\ new.fin
  <2> DEFINE x == [m EXCEPT !.can_recv = FALSE]
             y == PurgeOfoQueue(d.q)
             z == d.bytes \o bytes
  <2>1. x \in MetaT
    BY <1>10 DEF MetaT
  <2>2. y \in SoundQueues
    BY <1>8 DEF SoundQueues, Sound
  <2>3. z \in Seq(Int)
    BY <1>1, <1>6
  <2>4. DeliverOne(s, d, skb) = [m |-> x, q |-> y, bytes |-> z]
    BY <1>3, <1>14
  <2> HIDE DEF x, y, z
  <2> QED
    BY <2>1, <2>2, <2>3, <2>4 DEF Delivery
<1>15. CASE further /\ ~new.fin
  <2> DEFINE can == m2.can_recv /\ ~next.fin
             x == [m2 EXCEPT !.can_recv = can]
             z == d.bytes \o bytes \o next.bytes
  <2>1. x \in MetaT
    <3>1. can \in BOOLEAN
      OBVIOUS
    <3> HIDE DEF can
    <3> QED
      BY <1>12, <3>1 DEF MetaT
  <2>2. next.queue \in SoundQueues
    BY <1>7 DEF SoundQueues, Sound
  <2>3. z \in Seq(Int)
    BY <1>1, <1>6, <1>7
  <2>4. DeliverOne(s, d, skb) = [m |-> x, q |-> next.queue, bytes |-> z]
    BY <1>3, <1>15
  <2> HIDE DEF x, z
  <2> QED
    BY <2>1, <2>2, <2>3, <2>4 DEF Delivery
<1> QED
  BY <1>13, <1>14, <1>15

LEMMA Delivers ==
  ASSUME sub \in [Subflow -> SubT], NEW s \in Subflow, NEW row \in Seq(SkbT), meta \in MetaT, Sound(ofoq)
  PROVE  Deliver(s, row) \in Delivery
<1> DEFINE n == Len(row)
           base == [m |-> meta, q |-> ofoq, bytes |-> <<>>]
           G == [k \in 1..n |-> [d \in Delivery |-> DeliverOne(s, d, row[k])]]
           Folds(it) == it = [x \in SUBSET (1..n) |->
                               IF x = {} THEN base ELSE DeliverOne(s, it[x \ {Max(x)}], row[Max(x)])]
<1>1. n \in Nat /\ DOMAIN row = 1..n /\ \A k \in 1..n : row[k] \in SkbT
  OBVIOUS
<1>2. Deliver(s, row) = (CHOOSE it : Folds(it))[1..n]
  BY <1>1 DEF Deliver, FoldLeft, MapThenFoldSet
<1>3. \A d \in Delivery, skb \in SkbT : DeliverOne(s, d, skb) \in Delivery
  BY DeliversOn
<1>4. base \in Delivery
  BY DEF Delivery, SoundQueues, Sound
<1> HIDE DEF base
<1>5. G \in [1..n -> [Delivery -> Delivery]]
  BY <1>1, <1>3
<1>6. PICK g \in [SUBSET (1..n) -> Delivery] :
        \A x \in SUBSET (1..n) : g[x] = IF x = {} THEN base ELSE G[Max(x)][g[x \ {Max(x)}]]
  <2> HIDE DEF G, n, Folds
  <2>1. FoldsOf(n, Delivery, base, G) # {}
    BY <1>1, <1>4, <1>5, FoldExists
  <2> QED
    BY <2>1 DEF FoldsOf
<1>7. Folds(g)
  <2>1. ASSUME NEW x \in SUBSET (1..n), x # {}
        PROVE  g[x] = DeliverOne(s, g[x \ {Max(x)}], row[Max(x)])
    <3>1. Max(x) \in 1..n
      BY <1>1, <2>1, GreatestNumber
    <3>2. g[x \ {Max(x)}] \in Delivery
      BY <1>6
    <3>3. g[x] = G[Max(x)][g[x \ {Max(x)}]]
      BY <1>6, <2>1
    <3> QED
      BY <3>1, <3>2, <3>3
  <2>2. g[{}] = base
    BY <1>6
  <2> QED
    BY <2>1, <2>2
<1> DEFINE it == CHOOSE x : Folds(x)
           P == {x \in SUBSET (1..n) : it[x] \in Delivery}
<1>8. Folds(it)
  <2> HIDE DEF Folds
  <2> QED
    BY <1>7
<1> HIDE DEF it
<1>9. {} \in P
  BY <1>4, <1>8
<1>10. ASSUME NEW x \in SUBSET (1..n), x # {}, x \ {Max(x)} \in P
       PROVE  x \in P
  <2>1. Max(x) \in 1..n
    BY <1>1, <1>10, GreatestNumber
  <2>2. it[x] = DeliverOne(s, it[x \ {Max(x)}], row[Max(x)])
    BY <1>8, <1>10
  <2>3. it[x] \in Delivery
    BY <1>1, <1>3, <1>10, <2>1, <2>2
  <2> QED
    BY <2>3
<1>11. SUBSET (1..n) \subseteq P
  <2> HIDE DEF P, n
  <2> QED
    BY <1>1, <1>9, <1>10, IndexInduction
<1>12. it[1..n] \in Delivery
  BY <1>11
<1> QED
  BY <1>2, <1>12 DEF it

(***************************************************************************)
(* The invariant.                                                          *)
(***************************************************************************)

SentT == [n : Int, map : DssT \cup {None}]

RInv ==
  /\ sent \in [Subflow -> SentT]
  /\ sub \in [Subflow -> SubT]
  /\ meta \in MetaT
  /\ Sound(ofoq)

LEMMA InitHolds ==
  ASSUME Init PROVE RInv
<1>1. Isn \in Int /\ InitRcvWnd \in Int
  BY ReceiveAssumption
<1>2. sub \in [Subflow -> SubT]
  <2>1. NoMap \in MapT
    BY DEF NoMap, MapT
  <2>2. \A e \in Established : e \in BOOLEAN
    BY ReceiveAssumption
  <2>3. stripped \in BOOLEAN
    BY <2>2 DEF Init
  <2> HIDE DEF NoMap
  <2>4. PICK e \in Established : sub = [s \in Subflow |->
                  [queue |-> <<>>, rcv_nxt |-> 0, copied_seq |-> 0, map |-> NoMap, mp_fail |-> FALSE,
                   established |-> e, init_rcv_wnd |-> InitRcvWnd, dead |-> stripped /\ s # Master,
                   counted |-> ~(stripped /\ s # Master), fin |-> FALSE]]
    BY DEF Init
  <2>5. ASSUME NEW b \in BOOLEAN
        PROVE  [queue |-> <<>>, rcv_nxt |-> 0, copied_seq |-> 0, map |-> NoMap, mp_fail |-> FALSE,
                established |-> e, init_rcv_wnd |-> InitRcvWnd, dead |-> b,
                counted |-> ~b, fin |-> FALSE] \in SubT
    BY <1>1, <2>1, <2>2 DEF SubT
  <2>6. \A s \in Subflow : (stripped /\ s # Master) \in BOOLEAN
    BY <2>3
  <2> QED
    BY <2>4, <2>5, <2>6
<1>3. sent \in [Subflow -> SentT]
  <2> DEFINE map == [seq |-> Isn, wide |-> FALSE, subseq |-> 0, len |-> 0, fin |-> FALSE, inf |-> TRUE]
  <2>1. map \in DssT
    BY <1>1 DEF DssT
  <2>2. sent = [s \in Subflow |-> IF stripped THEN [n |-> 1, map |-> map] ELSE [n |-> 0, map |-> None]]
    BY DEF Init
  <2> HIDE DEF map
  <2>3. [n |-> 1, map |-> map] \in SentT /\ [n |-> 0, map |-> None] \in SentT
    BY <2>1 DEF SentT
  <2> QED
    BY <2>2, <2>3
<1>4. meta \in MetaT
  <2>1. Low(Isn) \in Int
    BY <1>1, Remainders
  <2>2. Isn \div Wrap \in Int
    BY <1>1, WrapAssumption
  <2> DEFINE high == [x \in 0..1 |-> Isn \div Wrap + x]
  <2>3. high \in [0..1 -> Int]
    BY <2>2
  <2>4. meta = [rcv_nxt |-> Low(Isn), rcv_wup |-> Low(Isn), hiseq |-> 0,
                rcv_high |-> high, infinite_rcv |-> FALSE,
                infinite_rcv_seq |-> 0, send_infinite |-> FALSE, can_recv |-> TRUE]
    BY DEF Init
  <2> HIDE DEF high
  <2> QED
    BY <2>1, <2>3, <2>4 DEF MetaT
<1>5. Sound(ofoq)
  BY EmptySound DEF Init
<1> QED
  BY <1>2, <1>3, <1>4, <1>5 DEF RInv

(***************************************************************************)
(* The peer and the network                                                *)
(***************************************************************************)

LEMMA BytesTyped ==
  ASSUME NEW map \in DssT, NEW x \in Int, NEW n \in Nat
  PROVE  BytesOf(map, x, n) \in Seq(Int)
<1>1. map.seq \in Int /\ map.subseq \in Int
  BY DEF DssT
<1>2. \A k \in 1..n : map.seq + x - map.subseq + k - 1 \in Int
  BY <1>1
<1> QED
  BY <1>2 DEF BytesOf

LEMMA MappingsTyped ==
  ASSUME NEW x \in Int, NEW m \in NewMappings(x)
  PROVE  m \in DssT /\ m.subseq = x /\ m.len \in Nat
<1>1. m \in [seq : Isn..End, wide : Wide, subseq : {x}, len : 0..MaxMapLen, fin : BOOLEAN, inf : {FALSE}]
  BY DEF NewMappings
<1>2. Isn..End \subseteq Int /\ {x} \subseteq Int /\ 0..MaxMapLen \subseteq Nat /\ {FALSE} \subseteq BOOLEAN
      /\ Wide \subseteq BOOLEAN
  BY ReceiveAssumption
<1>3. m.subseq = x /\ m.len \in 0..MaxMapLen
  BY <1>1
<1> DEFINE S == Isn..End
           L == 0..MaxMapLen
<1>4. m \in [seq : S, wide : Wide, subseq : {x}, len : L, fin : BOOLEAN, inf : {FALSE}]
  BY <1>1
<1>5. S \subseteq Int /\ L \subseteq Int
  BY <1>2
<1> HIDE DEF S, L
<1>6. m \in DssT
  BY <1>2, <1>4, <1>5 DEF DssT
<1> QED
  BY <1>2, <1>3, <1>6

LEMMA ArrivesTyped ==
  ASSUME RInv, NEW s \in Subflow, NEW data \in Seq(Int), NEW dss \in DssT \cup {None}, NEW fin \in BOOLEAN,
         Arrives(s, data, dss, fin)
  PROVE  sub' \in [Subflow -> SubT] /\ meta' = meta /\ ofoq' = ofoq
<1>1. PICK bad \in {FALSE, DssCsum /\ data # <<>> /\ ~meta.infinite_rcv} :
        LET skb == [seq |-> sub[s].rcv_nxt, data |-> data, dss |-> dss, bad |-> bad, fin |-> fin]
        IN  sub' = [sub EXCEPT ![s].rcv_nxt = EndOf(skb), ![s].fin = fin, ![s].queue = Append(@, skb)]
  BY DEF Arrives
<1>2. bad \in BOOLEAN
  BY ReceiveAssumption
<1> DEFINE u == sub[s]
           skb == [seq |-> u.rcv_nxt, data |-> data, dss |-> dss, bad |-> bad, fin |-> fin]
           e == EndOf(skb)
           q == Append(u.queue, skb)
           v == [u EXCEPT !.rcv_nxt = e, !.fin = fin, !.queue = q]
<1>3. sub \in [Subflow -> SubT] /\ u \in SubT
  BY DEF RInv
<1>4. u.queue \in Seq(SkbT) /\ u.rcv_nxt \in Int
  BY <1>3, SubFields
<1>5. sub' = [sub EXCEPT ![s] = v]
  <2>1. sub' = [sub EXCEPT ![s].rcv_nxt = e, ![s].fin = fin, ![s].queue = Append(@, skb)]
    BY <1>1
  <2> HIDE DEF e, skb
  <2> QED
    BY <1>3, <2>1 DEF SubT
<1> HIDE DEF u
<1>6. skb \in SkbT
  BY <1>2, <1>4 DEF SkbT
<1> HIDE DEF skb
<1>7. e \in Int /\ q \in Seq(SkbT)
  BY <1>4, <1>6, SkbNumbers
<1> HIDE DEF e, q
<1>8. v \in SubT
  BY <1>3, <1>7 DEF SubT
<1> HIDE DEF v
<1> QED
  BY <1>3, <1>5, <1>8 DEF Arrives

LEMMA SendsTyped ==
  ASSUME RInv, NEW s \in Subflow, NEW k \in Int, NEW map \in DssT, NEW x, Sends(s, k, map, x)
  PROVE  sent' \in [Subflow -> SentT]
<1> DEFINE b == IF x = map.subseq + map.len THEN None ELSE map
           new == [n |-> k, map |-> b]
<1>1. b \in DssT \cup {None}
  OBVIOUS
<1>2. sent' = [sent EXCEPT ![s] = new]
  BY DEF Sends
<1> HIDE DEF b
<1>3. new \in SentT
  BY <1>1 DEF SentT
<1> HIDE DEF new
<1> QED
  BY <1>2, <1>3 DEF RInv

\* What is known of a subflow before something arrives on it.
LEMMA Arriving ==
  ASSUME RInv, NEW s \in Subflow
  PROVE  /\ sent[s].n \in Int /\ sent[s].map \in DssT \cup {None} /\ sub[s].rcv_nxt \in Int
         /\ sent[s].map # None => sent[s].map \in DssT
         /\ Rest(s) \in Int
         /\ Rest(s) > 0 => sent[s].map # None
<1>1. sent[s].n \in Int /\ sent[s].map \in DssT \cup {None}
  BY DEF RInv, SentT
<1>2. sub[s].rcv_nxt \in Int
  BY SubFields DEF RInv
<1>3. CASE sent[s].map = None \/ Infinite(s)
  BY <1>1, <1>2, <1>3 DEF Rest
<1>4. CASE ~(sent[s].map = None \/ Infinite(s))
  <2>1. sent[s].map \in DssT
    BY <1>1, <1>4
  <2>2. sent[s].map.subseq \in Int /\ sent[s].map.len \in Int
    BY <2>1 DEF DssT
  <2> QED
    BY <1>1, <1>2, <1>4, <2>1, <2>2 DEF Rest
<1> QED
  BY <1>3, <1>4

LEMMA ArrivesHolds ==
  ASSUME RInv, NEW s \in Subflow, NEW data \in Seq(Int), NEW dss \in DssT \cup {None}, NEW fin \in BOOLEAN,
         Arrives(s, data, dss, fin), sent' \in [Subflow -> SentT]
  PROVE  RInv'
<1>1. sub' \in [Subflow -> SubT] /\ meta' = meta /\ ofoq' = ofoq
  BY ArrivesTyped
<1> QED
  BY <1>1 DEF RInv

LEMMA ArriveHolds ==
  ASSUME RInv, NEW s \in Subflow, Arrive(s)
  PROVE  RInv'
<1> DEFINE x == sub[s].rcv_nxt
           map == sent[s].map
<1>1. /\ sent[s].n \in Int /\ x \in Int /\ Rest(s) \in Int
      /\ (map # None => map \in DssT) /\ (Rest(s) > 0 => map # None)
  BY Arriving
<1> HIDE DEF x, map
<1>2. \A m \in DssT : \A dss \in Options(s, m) : dss \in DssT \cup {None}
  BY DEF Options
<1>3. <<>> \in Seq(Int)
  OBVIOUS
<1>4. sent \in [Subflow -> SentT]
  BY DEF RInv
<1>5. CASE ArriveRest(s)
  <2>1. map \in DssT /\ Rest(s) > 0
    BY <1>1, <1>5 DEF ArriveRest
  <2>2. PICK n \in 1..Rest(s), dss \in Options(s, map) :
          Arrives(s, BytesOf(map, x, n), dss, FALSE) /\ Sends(s, sent[s].n, map, x + n)
    BY <1>5 DEF ArriveRest, x, map
  <2>3. n \in Nat
    BY <1>1
  <2>4. BytesOf(map, x, n) \in Seq(Int)
    BY <1>1, <2>1, <2>3, BytesTyped
  <2>5. sent' \in [Subflow -> SentT]
    BY <1>1, <2>1, <2>2, SendsTyped
  <2>6. dss \in DssT \cup {None}
    BY <1>2, <2>1
  <2> QED
    BY <2>2, <2>4, <2>5, <2>6, ArrivesHolds
<1>6. CASE ArriveNew(s)
  <2>1. PICK m \in NewMappings(x), n \in 0..MaxMapLen :
          /\ Sends(s, sent[s].n + 1, m, x + n)
          /\ \E dss \in IF n = 0 THEN {m} ELSE Options(s, m) : Arrives(s, BytesOf(m, x, n), dss, FALSE)
    BY <1>6 DEF ArriveNew, x
  <2>2. PICK dss \in IF n = 0 THEN {m} ELSE Options(s, m) : Arrives(s, BytesOf(m, x, n), dss, FALSE)
    BY <2>1
  <2>3. m \in DssT /\ n \in Nat
    BY <1>1, MappingsTyped
  <2>4. dss \in DssT \cup {None}
    BY <1>2, <2>2, <2>3
  <2>5. BytesOf(m, x, n) \in Seq(Int)
    BY <1>1, <2>3, BytesTyped
  <2>6. sent' \in [Subflow -> SentT]
    BY <1>1, <2>1, <2>3, SendsTyped
  <2> QED
    BY <2>2, <2>4, <2>5, <2>6, ArrivesHolds
<1>7. CASE ArriveTwo(s)
  <2>1. PICK m \in NewMappings(x) : m.len > 0 /\
          \E m2 \in NewMappings(x + m.len), n \in 1..MaxMapLen :
            /\ Sends(s, sent[s].n + 2, m2, x + m.len + n)
            /\ \E dss \in {m, m2} :
                 Arrives(s, BytesOf(m, x, m.len) \o BytesOf(m2, x + m.len, n), dss, FALSE)
    BY <1>7 DEF ArriveTwo, x
  <2>2. m \in DssT /\ m.len \in Nat /\ x + m.len \in Int
    BY <1>1, MappingsTyped
  <2>3. PICK m2 \in NewMappings(x + m.len), n \in 1..MaxMapLen :
            /\ Sends(s, sent[s].n + 2, m2, x + m.len + n)
            /\ \E dss \in {m, m2} :
                 Arrives(s, BytesOf(m, x, m.len) \o BytesOf(m2, x + m.len, n), dss, FALSE)
    BY <2>1
  <2>4. PICK dss \in {m, m2} : Arrives(s, BytesOf(m, x, m.len) \o BytesOf(m2, x + m.len, n), dss, FALSE)
    BY <2>3
  <2>5. m2 \in DssT /\ n \in Nat
    BY <2>2, MappingsTyped
  <2>6. BytesOf(m, x, m.len) \o BytesOf(m2, x + m.len, n) \in Seq(Int)
    <3>1. BytesOf(m, x, m.len) \in Seq(Int) /\ BytesOf(m2, x + m.len, n) \in Seq(Int)
      BY <1>1, <2>2, <2>5, BytesTyped
    <3> QED
      BY <3>1
  <2>7. sent' \in [Subflow -> SentT]
    BY <1>1, <2>3, <2>5, SendsTyped
  <2>8. dss \in DssT \cup {None}
    BY <2>2, <2>4, <2>5
  <2> QED
    BY <2>4, <2>6, <2>7, <2>8, ArrivesHolds
<1>8. CASE ArriveJoined(s)
  <2> DEFINE r == Rest(s)
  <2>1. map \in DssT /\ r \in Nat
    BY <1>1, <1>8 DEF ArriveJoined
  <2>2. PICK m2 \in NewMappings(x + r), n \in 1..MaxMapLen :
          /\ Sends(s, sent[s].n + 1, m2, x + r + n)
          /\ \E dss \in {map, m2} : Arrives(s, BytesOf(map, x, r) \o BytesOf(m2, x + r, n), dss, FALSE)
    BY <1>8 DEF ArriveJoined, x, map
  <2> HIDE DEF r
  <2>3. PICK dss \in {map, m2} : Arrives(s, BytesOf(map, x, r) \o BytesOf(m2, x + r, n), dss, FALSE)
    BY <2>2
  <2>4. m2 \in DssT /\ n \in Nat /\ x + r \in Int
    BY <1>1, <2>1, MappingsTyped
  <2>5. BytesOf(map, x, r) \o BytesOf(m2, x + r, n) \in Seq(Int)
    <3>1. BytesOf(map, x, r) \in Seq(Int) /\ BytesOf(m2, x + r, n) \in Seq(Int)
      BY <1>1, <2>1, <2>4, BytesTyped
    <3> QED
      BY <3>1
  <2>6. sent' \in [Subflow -> SentT]
    BY <1>1, <2>2, <2>4, SendsTyped
  <2>7. dss \in DssT \cup {None}
    BY <2>1, <2>3, <2>4
  <2> QED
    BY <2>3, <2>5, <2>6, <2>7, ArrivesHolds
<1>9. CASE ArriveInfinite(s)
  <2>1. map \in DssT
    BY <1>1, <1>9 DEF ArriveInfinite, Infinite, map
  <2> DEFINE dss == IF ~stripped /\ x = map.subseq THEN map ELSE None
  <2>2. dss \in DssT \cup {None}
    BY <2>1
  <2>3. \/ \E n \in 1..MaxMapLen : Arrives(s, BytesOf(map, x, n), dss, FALSE)
        \/ Arrives(s, <<>>, None, TRUE)
    BY <1>9 DEF ArriveInfinite, x, map
  <2> HIDE DEF dss
  <2>4. sent' \in [Subflow -> SentT]
    BY <1>4, <1>9 DEF ArriveInfinite
  <2>5. CASE \E n \in 1..MaxMapLen : Arrives(s, BytesOf(map, x, n), dss, FALSE)
    <3>1. PICK n \in 1..MaxMapLen : Arrives(s, BytesOf(map, x, n), dss, FALSE)
      BY <2>5
    <3>2. BytesOf(map, x, n) \in Seq(Int)
      BY <1>1, <2>1, BytesTyped
    <3> QED
      BY <2>2, <2>4, <3>1, <3>2, ArrivesHolds
  <2>6. CASE Arrives(s, <<>>, None, TRUE)
    BY <1>3, <2>4, <2>6, ArrivesHolds
  <2> QED
    BY <2>3, <2>5, <2>6
<1>10. CASE ArriveFin(s)
  <2>1. Arrives(s, <<>>, None, TRUE) /\ sent' \in [Subflow -> SentT]
    BY <1>4, <1>10 DEF ArriveFin
  <2> QED
    BY <1>3, <2>1, ArrivesHolds
<1>11. CASE PeerFallsBack(s)
  <2>1. PICK una \in {RcvWup64(meta), RcvNxt64(meta)}, wide \in Wide :
          sent' = [sent EXCEPT ![s] =
                     [n |-> @.n, map |-> [seq |-> una, wide |-> wide, subseq |-> x, len |-> 0, fin |-> FALSE, inf |-> TRUE]]]
    BY <1>11 DEF PeerFallsBack, x
  <2> DEFINE m == [seq |-> una, wide |-> wide, subseq |-> x, len |-> 0, fin |-> FALSE, inf |-> TRUE]
             new == [n |-> sent[s].n, map |-> m]
  <2>2. una \in Int /\ wide \in BOOLEAN
    BY MetaNumbers, ReceiveAssumption DEF RInv
  <2>3. m \in DssT
    BY <1>1, <2>2 DEF DssT
  <2>4. sent' = [sent EXCEPT ![s] = new]
    BY <1>4, <2>1
  <2> HIDE DEF m
  <2>5. new \in SentT
    BY <1>1, <2>3 DEF SentT
  <2> HIDE DEF new
  <2>6. sent' \in [Subflow -> SentT]
    BY <1>4, <2>4, <2>5
  <2> QED
    BY <1>11, <2>6 DEF PeerFallsBack, RInv
<1>12. CASE DelSock(s)
  <2> DEFINE u == sub[s]
             v == [u EXCEPT !.counted = FALSE]
  <2>1. sub \in [Subflow -> SubT] /\ u \in SubT
    BY DEF RInv
  <2>2. sub' = [sub EXCEPT ![s] = v]
    BY <1>12, <2>1 DEF DelSock
  <2> HIDE DEF u
  <2>3. v \in SubT
    BY <2>1 DEF SubT
  <2> HIDE DEF v
  <2>4. sub' \in [Subflow -> SubT]
    BY <2>1, <2>2, <2>3
  <2> QED
    BY <1>12, <2>4 DEF DelSock, RInv
<1> QED
  BY <1>5, <1>6, <1>7, <1>8, <1>9, <1>10, <1>11, <1>12 DEF Arrive

LEMMA AckHolds ==
  ASSUME RInv, SendAck
  PROVE  RInv'
<1> DEFINE new == [meta EXCEPT !.rcv_wup = meta.rcv_nxt]
<1>1. new \in MetaT
  BY DEF RInv, MetaT
<1> HIDE DEF new
<1> QED
  BY <1>1 DEF SendAck, RInv, new

LEMMA PruneHolds ==
  ASSUME RInv, PruneOfoQueue
  PROVE  RInv'
BY PurgedSound DEF PruneOfoQueue, RInv

(***************************************************************************)
(* The steps of mptcp_data_ready().                                        *)
(***************************************************************************)

LEMMA OneSubflow ==
  ASSUME RInv, NEW s \in Subflow, NEW u \in SubT, sub' = [sub EXCEPT ![s] = u], UNCHANGED <<sent, meta, ofoq>>
  PROVE  RInv'
BY DEF RInv

LEMMA ResetMappingTyped ==
  ASSUME NEW m \in MetaT, NEW old \in Int, NEW new \in Int
  PROVE  ResetMapping(m, old, new) \in MetaT
<1> DEFINE x == m.infinite_rcv_seq + new - old
<1>1. x \in Int
  BY DEF MetaT
<1>2. ResetMapping(m, old, new) = IF m.infinite_rcv THEN [m EXCEPT !.infinite_rcv_seq = x] ELSE m
  BY DEF ResetMapping
<1> HIDE DEF x
<1> QED
  BY <1>1, <1>2 DEF MetaT

LEMMA PrevalidateHolds ==
  ASSUME RInv, NEW s \in Subflow, NEW i \in Int,
         CannotReceive(s) \/ Done(s) \/ Hold(s) \/ DropFin(s, i) \/ Prevalidate(s, i) \/ ResetUnmapped(s, i)
  PROVE  RInv'
<1> DEFINE u == sub[s]
<1>1. sub \in [Subflow -> SubT] /\ u \in SubT /\ meta \in MetaT /\ Sound(ofoq) /\ sent \in [Subflow -> SentT]
  BY DEF RInv
<1>2. u.rcv_nxt \in Int
  BY <1>1, SubFields
<1>3. CASE CannotReceive(s)
  <2> DEFINE v == [u EXCEPT !.queue = <<>>, !.copied_seq = u.rcv_nxt]
  <2>1. sub' = [sub EXCEPT ![s] = v]
    BY <1>1, <1>3 DEF CannotReceive, SubT
  <2>2. v \in SubT
    <3>1. <<>> \in Seq(SkbT)
      OBVIOUS
    <3> HIDE DEF u
    <3> QED
      BY <1>1, <1>2, <3>1 DEF SubT
  <2> HIDE DEF v
  <2> QED
    BY <1>3, <2>1, <2>2, OneSubflow DEF CannotReceive
<1>4. CASE Done(s)
  BY <1>4 DEF Done, RInv
<1>5. CASE Hold(s)
  BY <1>5 DEF Hold, RInv
<1>6. CASE DropFin(s, i)
  <2>1. Unlinked(u, i) \in SubT
    BY <1>1, <1>6, UnlinkedTyped DEF DropFin, At
  <2>2. sub' = [sub EXCEPT ![s] = Unlinked(u, i)]
    BY <1>6 DEF DropFin
  <2> QED
    BY <1>6, <2>1, <2>2, OneSubflow DEF DropFin
<1>7. CASE Prevalidate(s, i)
  <2>1. CASE sub' = [sub EXCEPT ![s] = CountWindow(@, sub[s].queue[i])] /\ UNCHANGED meta
    <3>1. u.queue[i] \in SkbT
      BY <1>1, <1>7, SubFields DEF Prevalidate, At
    <3>2. CountWindow(u, u.queue[i]) \in SubT
      BY <1>1, <3>1, CountWindowTyped
    <3>3. sub' = [sub EXCEPT ![s] = CountWindow(u, u.queue[i])]
      BY <2>1
    <3> QED
      BY <1>7, <2>1, <3>2, <3>3, OneSubflow DEF Prevalidate
  <2>2. CASE /\ sub' = [CloseOthers(sub, s) EXCEPT ![s].established = TRUE]
             /\ meta' = [meta EXCEPT !.infinite_rcv = TRUE, !.infinite_rcv_seq = RcvNxt64(meta),
                                     !.send_infinite = FALSE]
    <3> DEFINE f == CloseOthers(sub, s)
               v == [u EXCEPT !.established = TRUE]
               n == RcvNxt64(meta)
               m == [meta EXCEPT !.infinite_rcv = TRUE, !.infinite_rcv_seq = n, !.send_infinite = FALSE]
    <3>1. f \in [Subflow -> SubT] /\ f[s] = u
      BY <1>1, CloseOthersTyped
    <3>2. sub' = [f EXCEPT ![s].established = TRUE]
      BY <2>2
    <3>3. v \in SubT
      BY <1>1 DEF SubT
    <3> HIDE DEF f
    <3>4. sub' = [f EXCEPT ![s] = v]
      BY <3>1, <3>2
    <3> HIDE DEF v
    <3>5. sub' \in [Subflow -> SubT]
      BY <3>1, <3>3, <3>4
    <3>6. n \in Int
      BY <1>1, MetaNumbers
    <3>7. meta' = m
      BY <2>2
    <3> HIDE DEF n
    <3>8. m \in MetaT
      BY <1>1, <3>6 DEF MetaT
    <3> HIDE DEF m
    <3> QED
      BY <1>1, <1>7, <3>5, <3>7, <3>8 DEF Prevalidate, RInv
  <2> QED
    BY <1>7, <2>1, <2>2 DEF Prevalidate
<1>8. CASE ResetUnmapped(s, i)
  <2>1. Reset(u) \in SubT
    BY <1>1, ResetTyped
  <2>2. sub' = [sub EXCEPT ![s] = Reset(u)]
    BY <1>8 DEF ResetUnmapped
  <2> QED
    BY <1>8, <2>1, <2>2, OneSubflow DEF ResetUnmapped
<1> QED
  BY <1>3, <1>4, <1>5, <1>6, <1>7, <1>8

LEMMA DetectHolds ==
  ASSUME RInv, NEW s \in Subflow, NEW i \in Int,
         \/ DetectInfinite(s, i) \/ DetectNothing(s, i) \/ DetectReset(s, i)
         \/ DetectIgnored(s, i) \/ DetectMapping(s, i)
  PROVE  RInv'
<1> DEFINE u == sub[s]
           skb == u.queue[i]
<1>1. sub \in [Subflow -> SubT] /\ u \in SubT /\ meta \in MetaT /\ Sound(ofoq) /\ sent \in [Subflow -> SentT]
  BY DEF RInv
<1>2. i \in DOMAIN u.queue
  BY DEF DetectInfinite, DetectNothing, DetectReset, DetectIgnored, DetectMapping, At
<1>3. skb \in SkbT
  BY <1>1, <1>2, SubFields
<1>4. \A map \in MapT : [u EXCEPT !.map = map] \in SubT
  <2> HIDE DEF u
  <2> QED
    BY <1>1 DEF SubT
<1>5. CASE DetectInfinite(s, i)
  <2> DEFINE map == InfiniteMap(u, meta, skb)
             v == [u EXCEPT !.map = map]
  <2>1. map \in MapT
    BY <1>1, <1>3, MapsTyped
  <2>2. sub' = [sub EXCEPT ![s].map = map]
    BY <1>5 DEF DetectInfinite
  <2> HIDE DEF map
  <2>3. sub' = [sub EXCEPT ![s] = v] /\ v \in SubT
    BY <1>1, <1>4, <2>1, <2>2
  <2> HIDE DEF v
  <2> QED
    BY <1>5, <2>3, OneSubflow DEF DetectInfinite
<1>6. CASE DetectNothing(s, i)
  BY <1>6 DEF DetectNothing, RInv
<1>7. CASE DetectReset(s, i)
  <2>1. Reset(u) \in SubT
    BY <1>1, ResetTyped
  <2>2. sub' = [sub EXCEPT ![s] = Reset(u)]
    BY <1>7 DEF DetectReset
  <2> QED
    BY <1>7, <2>1, <2>2, OneSubflow DEF DetectReset
<1>8. CASE DetectIgnored(s, i)
  <2>1. Unlinked(u, i) \in SubT
    BY <1>1, <1>2, UnlinkedTyped
  <2>2. sub' = [sub EXCEPT ![s] = Unlinked(u, i)]
    BY <1>8 DEF DetectIgnored
  <2> QED
    BY <1>8, <2>1, <2>2, OneSubflow DEF DetectIgnored
<1>9. CASE DetectMapping(s, i)
  <2> DEFINE map == ReadMap(meta, Dss(s, i), skb)
  <2>1. map \in MapT
    <3>1. Dss(s, i) \in DssT
      BY <1>3, <1>9, SkbNumbers DEF DetectMapping, Dss
    <3> QED
      BY <1>1, <1>3, <3>1, MapsTyped
  <2>2. map.seq \in Int
    <3> HIDE DEF map
    <3> QED
      BY <2>1 DEF MapT
  <2>3. UNCHANGED sent
    BY <1>9 DEF DetectMapping
  <2>4. \/ sub' = [sub EXCEPT ![s].map = map] /\ UNCHANGED <<meta, ofoq>>
        \/ /\ sub' = [CloseOthers(sub, s) EXCEPT ![s].map = map, ![s].established = TRUE, ![s].mp_fail = FALSE]
           /\ meta' = [meta EXCEPT !.infinite_rcv = TRUE, !.infinite_rcv_seq = map.seq, !.send_infinite = TRUE]
           /\ ofoq' = PurgeOfoQueue(ofoq)
    BY <1>9 DEF DetectMapping
  <2> HIDE DEF map
  <2>5. CASE sub' = [sub EXCEPT ![s].map = map] /\ UNCHANGED <<meta, ofoq>>
    <3> DEFINE v == [u EXCEPT !.map = map]
    <3>1. sub' = [sub EXCEPT ![s] = v] /\ v \in SubT
      BY <1>1, <1>4, <2>1, <2>5
    <3> HIDE DEF v
    <3> QED
      BY <2>3, <2>5, <3>1, OneSubflow
  <2>6. CASE /\ sub' = [CloseOthers(sub, s) EXCEPT ![s].map = map, ![s].established = TRUE,
                                                   ![s].mp_fail = FALSE]
             /\ meta' = [meta EXCEPT !.infinite_rcv = TRUE, !.infinite_rcv_seq = map.seq,
                                     !.send_infinite = TRUE]
             /\ ofoq' = PurgeOfoQueue(ofoq)
    <3> DEFINE f == CloseOthers(sub, s)
               v == [u EXCEPT !.map = map, !.established = TRUE, !.mp_fail = FALSE]
               n == map.seq
               m == [meta EXCEPT !.infinite_rcv = TRUE, !.infinite_rcv_seq = n, !.send_infinite = TRUE]
    <3>1. f \in [Subflow -> SubT] /\ f[s] = u
      BY <1>1, CloseOthersTyped
    <3>2. sub' = [f EXCEPT ![s].map = map, ![s].established = TRUE, ![s].mp_fail = FALSE]
      BY <2>6
    <3>3. meta' = m
      BY <2>6
    <3>4. v \in SubT
      <4> HIDE DEF u
      <4> QED
        BY <1>1, <2>1 DEF SubT
    <3> HIDE DEF f, u
    <3>5. sub' = [f EXCEPT ![s] = v]
      BY <1>1, <3>1, <3>2 DEF SubT
    <3> HIDE DEF v
    <3>6. sub' \in [Subflow -> SubT]
      BY <3>1, <3>4, <3>5
    <3> HIDE DEF n
    <3>7. m \in MetaT
      BY <1>1, <2>2 DEF MetaT, n
    <3> HIDE DEF m
    <3>8. Sound(ofoq')
      BY <1>1, <2>6, PurgedSound
    <3> QED
      BY <1>1, <2>3, <3>3, <3>6, <3>7, <3>8 DEF RInv
  <2> QED
    BY <2>4, <2>5, <2>6
<1> QED
  BY <1>5, <1>6, <1>7, <1>8, <1>9

LEMMA ValidateHolds ==
  ASSUME RInv, NEW s \in Subflow, NEW i \in Int, Validate(s, i) \/ ValidateFails(s, i)
  PROVE  RInv'
<1> DEFINE u == sub[s]
           t == Trimmed(u)
<1>1. u \in SubT
  BY DEF RInv
<1>2. i \in DOMAIN u.queue /\ u.queue # <<>>
  BY <1>1, SubFields DEF Validate, ValidateFails, At
<1>3. t \in SubT /\ t.map = u.map /\ DOMAIN t.queue = DOMAIN u.queue
  BY <1>1, <1>2, TrimmedTyped
<1>4. CASE Validate(s, i)
  <2> DEFINE v == IF EndsBehind(t, i) THEN Split(t, i) ELSE t
  <2>1. \/ UNCHANGED sub
        \/ (EndsBehind(t, i) => CanSplit(t, i)) /\ sub' = [sub EXCEPT ![s] = WithoutOld(v)]
    BY <1>4 DEF Validate
  <2>2. UNCHANGED <<sent, meta, ofoq>>
    BY <1>4 DEF Validate
  <2> HIDE DEF t
  <2>3. CASE UNCHANGED sub
    BY <2>2, <2>3 DEF RInv
  <2>4. CASE (EndsBehind(t, i) => CanSplit(t, i)) /\ sub' = [sub EXCEPT ![s] = WithoutOld(v)]
    <3>1. v \in SubT
      BY <1>2, <1>3, <2>4, SplitTyped
    <3> HIDE DEF v
    <3>2. WithoutOld(v) \in SubT
      BY <3>1, WithoutOldTyped
    <3> QED
      BY <2>2, <2>4, <3>2, OneSubflow
  <2> QED
    BY <2>1, <2>3, <2>4
<1>5. CASE ValidateFails(s, i)
  <2>1. sub' = [sub EXCEPT ![s] = Unlinked(t, i)] /\ UNCHANGED <<sent, meta, ofoq>>
    BY <1>5 DEF ValidateFails
  <2> HIDE DEF t
  <2>2. Unlinked(t, i) \in SubT
    BY <1>2, <1>3, UnlinkedTyped
  <2> QED
    BY <2>1, <2>2, OneSubflow
<1> QED
  BY <1>4, <1>5

LEMMA PushHolds ==
  ASSUME RInv, ~ IsFiniteSet(Ids), NEW s \in Subflow, NEW i \in Int,
         Incomplete(s, i) \/ DropMapping(s, i) \/ WrongCsum(s, i) \/ Push(s, i)
  PROVE  RInv'
<1> DEFINE u == sub[s]
           t == Taken(u)
           row == Segments(s)
<1>1. sub \in [Subflow -> SubT] /\ u \in SubT /\ meta \in MetaT /\ Sound(ofoq) /\ sent \in [Subflow -> SentT]
  BY DEF RInv
<1>2. t \in SubT /\ row \in Seq(SkbT)
  BY <1>1, TakenTyped DEF Segments
<1>3. u.copied_seq \in Int /\ t.copied_seq \in Int
  BY <1>1, <1>2, SubFields
<1>4. \A m \in MetaT : ResetMapping(m, u.copied_seq, t.copied_seq) \in MetaT
  BY <1>3, ResetMappingTyped
<1> HIDE DEF t, row
<1>5. ASSUME sub' = [sub EXCEPT ![s] = t]
      PROVE  sub' \in [Subflow -> SubT] /\ sub'[s] = t
  BY <1>1, <1>2, <1>5
<1>6. CASE Incomplete(s, i)
  BY <1>6 DEF Incomplete, RInv
<1>7. CASE DropMapping(s, i)
  <2>1. sub' = [sub EXCEPT ![s] = t]
    BY <1>7 DEF DropMapping, t
  <2>2. meta' = ResetMapping(meta, u.copied_seq, t.copied_seq)
    BY <1>5, <1>7, <2>1 DEF DropMapping
  <2> QED
    BY <1>1, <1>4, <1>5, <1>7, <2>1, <2>2 DEF DropMapping, RInv
<1>8. CASE WrongCsum(s, i)
  <2> DEFINE fail == [u EXCEPT !.mp_fail = TRUE, !.map = NoMap]
             e == EndOf(Last(u.queue))
             rest == [fail EXCEPT !.queue = <<>>, !.copied_seq = e]
             m == [meta EXCEPT !.send_infinite = TRUE]
  <2>1. fail \in SubT
    <3>1. [u EXCEPT !.map = NoMap] \in SubT
      BY <1>1, ResetTyped
    <3>2. NoMap \in MapT
      BY DEF NoMap, MapT
    <3> HIDE DEF u, NoMap
    <3> QED
      BY <1>1, <3>2 DEF SubT
  <2>2. UNCHANGED <<sent, ofoq>>
    BY <1>8 DEF WrongCsum
  <2>3. \/ sub' = [sub EXCEPT ![s] = Reset(fail)] /\ UNCHANGED meta
        \/ sub' = [sub EXCEPT ![s] = rest] /\ meta' = m
    BY <1>8 DEF WrongCsum
  <2>4. Reset(fail) \in SubT
    <3> HIDE DEF fail
    <3> QED
      BY <2>1, ResetTyped
  <2>5. e \in Int
    <3>1. \E j \in 1..Mapped(u) : TRUE
      BY <1>8 DEF WrongCsum, CsumFails
    <3>2. Mapped(u) \in 0..Len(u.queue)
      BY <1>1, MappedIs
    <3>3. Len(u.queue) \in Nat
      BY <1>1, SubFields
    <3>4. Len(u.queue) \in 1..Len(u.queue)
      BY <3>1, <3>2, <3>3
    <3>5. u.queue[Len(u.queue)] \in SkbT
      BY <1>1, <3>4, SubFields
    <3> QED
      BY <3>5, SkbNumbers DEF Last
  <2> HIDE DEF fail, e
  <2>6. rest \in SubT
    <3>1. <<>> \in Seq(SkbT)
      OBVIOUS
    <3> QED
      BY <2>1, <2>5, <3>1 DEF SubT
  <2>7. m \in MetaT
    BY <1>1 DEF MetaT
  <2> HIDE DEF rest, m
  <2>8. CASE sub' = [sub EXCEPT ![s] = Reset(fail)] /\ UNCHANGED meta
    BY <2>2, <2>4, <2>8, OneSubflow
  <2>9. CASE sub' = [sub EXCEPT ![s] = rest] /\ meta' = m
    BY <1>1, <2>2, <2>6, <2>7, <2>9 DEF RInv
  <2> QED
    BY <2>3, <2>8, <2>9
<1>9. CASE Push(s, i)
  <2>1. sub' = [sub EXCEPT ![s] = t] /\ UNCHANGED sent
    BY <1>9 DEF Push, t
  <2>2. sub' \in [Subflow -> SubT] /\ sub'[s] = t
    BY <1>5, <2>1
  <2>3. \/ ofoq' \in AddAll(s, row) /\ meta' = ResetMapping(meta, u.copied_seq, sub'[s].copied_seq)
        \/ LET d == Deliver(s, row)
           IN  ofoq' = d.q /\ meta' = ResetMapping(d.m, u.copied_seq, sub'[s].copied_seq)
    BY <1>9 DEF Push, row
  <2>4. CASE ofoq' \in AddAll(s, row) /\ meta' = ResetMapping(meta, u.copied_seq, sub'[s].copied_seq)
    <3>1. Sound(ofoq')
      BY <1>1, <1>2, <2>4, AddsAll
    <3>2. meta' \in MetaT
      BY <1>1, <1>4, <2>2, <2>4
    <3> QED
      BY <1>1, <2>1, <2>2, <3>1, <3>2 DEF RInv
  <2>5. CASE LET d == Deliver(s, row)
             IN  ofoq' = d.q /\ meta' = ResetMapping(d.m, u.copied_seq, sub'[s].copied_seq)
    <3>1. PICK d \in Delivery : d = Deliver(s, row)
      BY <1>1, <1>2, Delivers
    <3>2. d.m \in MetaT /\ Sound(d.q)
      BY DEF Delivery, SoundQueues
    <3>3. ofoq' = d.q /\ meta' = ResetMapping(d.m, u.copied_seq, t.copied_seq)
      BY <2>2, <2>5, <3>1
    <3>4. meta' \in MetaT
      BY <1>4, <3>2, <3>3
    <3> QED
      BY <1>1, <2>1, <2>2, <3>2, <3>3, <3>4 DEF RInv
  <2> QED
    BY <2>3, <2>4, <2>5
<1> QED
  BY <1>6, <1>7, <1>8, <1>9

LEMMA StepHolds ==
  ASSUME RInv, ~ IsFiniteSet(Ids), [Next]_vars
  PROVE  RInv'
<1>1. CASE SendAck
  BY <1>1, AckHolds
<1>2. CASE PruneOfoQueue
  BY <1>2, PruneHolds
<1>3. ASSUME NEW s \in Subflow, Arrive(s)
      PROVE  RInv'
  BY <1>3, ArriveHolds
<1>4. ASSUME NEW s \in Subflow, DataReady(s)
      PROVE  RInv'
  <2>1. CASE CannotReceive(s) \/ Done(s) \/ Hold(s)
    <3>1. 0 \in Int
      OBVIOUS
    <3> QED
      BY <2>1, <3>1, PrevalidateHolds
  <2>2. ASSUME NEW i \in 0..MaxMappings * (MaxMapLen + 2), Handle(s, i)
        PROVE  RInv'
    <3>1. i \in Int
      OBVIOUS
    <3> QED
      BY <2>2, <3>1, PrevalidateHolds, DetectHolds, ValidateHolds, PushHolds DEF Handle
  <2> QED
    BY <1>4, <2>1, <2>2 DEF DataReady
<1>5. CASE UNCHANGED vars
  BY <1>5 DEF vars, RInv
<1> QED
  BY <1>1, <1>2, <1>3, <1>4, <1>5 DEF Next

(***************************************************************************)
(* A shortcut leads to a segment that is in the queue, never to one that   *)
(* is freed, and no two subflows have put in the same one                  *)
(* (mptcp_remove_shortcuts), provided kmalloc() always finds memory for    *)
(* another segment.                                                        *)
(***************************************************************************)
THEOREM ShortcutsLead ==
  ASSUME ~ IsFiniteSet(Ids)
  PROVE  Spec => []ShortcutsQueued
<1>1. Init => RInv
  BY InitHolds
<1>2. RInv /\ [Next]_vars => RInv'
  BY StepHolds
<1>3. RInv => ShortcutsQueued
  BY DEF RInv, Sound, ShortcutsQueued, PositionOf
<1> QED
  BY <1>1, <1>2, <1>3, PTL DEF Spec

=============================================================================
