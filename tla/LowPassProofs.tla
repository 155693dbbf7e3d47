--------------------------- MODULE LowPassProofs ---------------------------
(***************************************************************************)
(* What the receiver's filter learns stays in its types whatever sums wrap *)
(* (LearnsInRange), all entries of a number in the ring are of one subflow *)
(* (OneOwner), and no segment is held back for longer than the longest     *)
(* time that may be learned (HeldBriefly), all three for any number of     *)
(* connections whose calls interleave on the globals.                      *)
(*                                                                         *)
(* The invariant of the waiting time relates two clocks: a segment has     *)
(* waited no longer than its subflow has been silent, so that the filter,  *)
(* which looks at the silence only, lets it pass in time.                  *)
(***************************************************************************)
EXTENDS LowPass, FoldProofs, SequenceTheorems

(***************************************************************************)
(* What is learned                                                         *)
(***************************************************************************)

Learned == [ring : [Slot -> [sk : Sock \cup {NoSock}, dsn : Dsn]],
            tail : Slot, last_new : Age,
            deltas : [0..DaSize - 1 -> 0..OneSec], da_i : 0..DaSize - 1,
            mean : 0..MaxWait, timeout : 0..MaxWait]

\* Entries of one number are of one subflow.
OneSock(l) ==
    \A i, j \in Slot :
        l.ring[i].dsn = l.ring[j].dsn /\ NoSock \notin {l.ring[i].sk, l.ring[j].sk}
        => l.ring[i].sk = l.ring[j].sk

\* During the walk the time since the last new segment is no longer than a second.
Walking == {w \in [learn : Learned, hit : BOOLEAN] :
                OneSock(w.learn) /\ w.learn.last_new <= OneSec}

LEMMA Constants ==
  /\ RingSize \in Nat \ {0} /\ SkListSize \in Nat \ {0} /\ DaSize \in Nat \ {0}
  /\ Percent \in Nat \ {0} /\ MaxQueue \in Nat \ {0}
  /\ MaxWait \in Nat /\ LearnRate \in Nat /\ OneSec \in Nat /\ Wrap \in Nat
  /\ MaxWait < OneSec /\ OneSec < Wrap /\ NoSock \notin Sock
  /\ 0 \in Dsn /\ Dsn \subseteq Nat
BY LowPassAssumption

\* Min of two numbers.
LEMMA Smaller ==
  ASSUME NEW a \in Nat, NEW b \in Nat
  PROVE  Min({a, b}) = IF a <= b THEN a ELSE b
<1>1. Min({a, b}) \in {a, b} /\ \A n \in {a, b} : Min({a, b}) <= n
  BY LeastNumber
<1> QED
  BY <1>1

LEMMA LimitedInRange ==
  ASSUME NEW l \in Learned, NEW delta \in 0..OneSec
  PROVE  Limited(l, delta) \in 0..OneSec
<1> DEFINE rate == l.mean \div Percent
           most == l.mean + rate * LearnRate
<1>1. l.mean \in Nat
  BY Constants DEF Learned
<1>2. rate \in Nat
  BY <1>1, Constants
<1> HIDE DEF rate
<1>3. rate * LearnRate \in Nat
  BY <1>2, Constants
<1>4. most \in Nat
  BY <1>1, <1>3
<1>5. Limited(l, delta) = IF l.mean # 0 /\ delta > most THEN most ELSE delta
  BY DEF Limited, rate
<1> HIDE DEF most
<1> QED
  BY <1>4, <1>5, Constants

\* The ring takes an entry of a number only from the subflow it has others of.
LEMMA AddedToRing ==
  ASSUME NEW l \in Learned, OneSock(l), NEW sk \in Sock, NEW d \in Dsn,
         ~ PeakDsn(l, sk, d)
  PROVE  AddToSkQueue(l, sk, d) \in Learned /\ OneSock(AddToSkQueue(l, sk, d))
<1> DEFINE n == AddToSkQueue(l, sk, d)
<1>1. n.ring = [l.ring EXCEPT ![l.tail] = [sk |-> sk, dsn |-> d]]
  BY DEF AddToSkQueue, Learned
<1>2. n \in Learned
  <2>1. (l.tail + 1) % RingSize \in Slot
    BY Constants DEF Learned, Slot
  <2> QED
    BY <2>1 DEF AddToSkQueue, Learned
<1>3. \A i \in Slot : l.ring[i].dsn = d /\ l.ring[i].sk # NoSock => l.ring[i].sk = sk
  <2> SUFFICES ASSUME NEW i \in Slot, l.ring[i].dsn = d, l.ring[i].sk # NoSock
               PROVE  l.ring[i].sk = sk
    OBVIOUS
  <2> DEFINE at == {j \in Slot : l.ring[j].dsn = d}
  <2>1. i \in at /\ at \in SUBSET Nat
    BY DEF Slot
  <2>2. Min(at) \in at
    BY <2>1, LeastNumber
  <2>3. l.ring[Min(at)].sk = sk
    BY <2>1 DEF PeakDsn
  <2>4. sk # NoSock
    BY Constants
  <2> HIDE DEF at
  <2>5. Min(at) \in Slot /\ l.ring[Min(at)].dsn = d
    BY <2>2 DEF at
  <2> QED
    BY <2>3, <2>4, <2>5 DEF OneSock
<1>4. OneSock(n)
  <2> SUFFICES ASSUME NEW i \in Slot, NEW j \in Slot,
                      n.ring[i].dsn = n.ring[j].dsn,
                      n.ring[i].sk # NoSock, n.ring[j].sk # NoSock
               PROVE  n.ring[i].sk = n.ring[j].sk
    BY DEF OneSock
  <2>1. \A k \in Slot : n.ring[k] = IF k = l.tail THEN [sk |-> sk, dsn |-> d] ELSE l.ring[k]
    BY <1>1 DEF Learned
  <2> HIDE DEF n
  <2> QED
    BY <1>3, <2>1 DEF OneSock
<1> QED
  BY <1>2, <1>4

LEMMA WalksOn ==
  ASSUME NEW w \in Walking, NEW sk \in Sock, NEW d \in Dsn
  PROVE  Walked(w, sk, d) \in Walking
<1>1. CASE PeakDsn(w.learn, sk, d)
  BY <1>1 DEF Walked, Walking
<1>2. CASE ~ PeakDsn(w.learn, sk, d)
  <2> DEFINE l == AddToSkQueue(w.learn, sk, d)
  <2>1. l \in Learned /\ OneSock(l)
    BY <1>2, AddedToRing DEF Walking
  <2>2. l.last_new = w.learn.last_new /\ l.last_new \in 0..OneSec
    BY Constants DEF AddToSkQueue, Learned, Walking, Age
  <2>3. Walked(w, sk, d) = [w EXCEPT !.learn = AddDelta(l)]
    BY <1>2 DEF Walked, Walking
  <2> HIDE DEF l
  <2>4. Limited(l, l.last_new) \in 0..OneSec
    BY <2>1, <2>2, LimitedInRange
  <2>5. (l.da_i + 1) % DaSize \in 0..DaSize - 1
    BY <2>1, Constants DEF Learned
  <2>6. 0 \in Age /\ 0 <= OneSec
    BY Constants DEF Age, Old
  <2>7. AddDelta(l) \in Learned
    BY <2>1, <2>4, <2>5, <2>6 DEF AddDelta, Learned
  <2>8. AddDelta(l).ring = l.ring /\ AddDelta(l).last_new = 0
    BY <2>1 DEF AddDelta, Learned
  <2>9. OneSock(AddDelta(l))
    BY <2>1, <2>8 DEF OneSock
  <2> QED
    BY <2>3, <2>6, <2>7, <2>8, <2>9 DEF Walking
<1> QED
  BY <1>1, <1>2

\* The walk over a receive queue.
LEMMA WalksQueue ==
  ASSUME NEW start \in Walking, NEW sk \in Sock, NEW q \in Seq(Segment)
  PROVE  FoldLeft(LAMBDA x, skb : Walked(x, sk, skb.dsn), start, q) \in Walking
<1> DEFINE n == Len(q)
           G == [k \in 1..n |-> [x \in Walking |-> Walked(x, sk, q[k].dsn)]]
           Folds(it) == it = [s \in SUBSET (1..n) |->
                               IF s = {} THEN start
                               ELSE Walked(it[s \ {Max(s)}], sk, q[Max(s)].dsn)]
<1>1. n \in Nat /\ DOMAIN q = 1..n /\ \A k \in 1..n : q[k].dsn \in Dsn
  <2>1. n \in Nat /\ DOMAIN q = 1..n
    OBVIOUS
  <2>2. \A k \in 1..n : q[k] \in Segment
    OBVIOUS
  <2>3. \A seg \in Segment : seg.dsn \in Dsn
    BY DEF Segment
  <2> QED
    BY <2>1, <2>2, <2>3
<1>2. FoldLeft(LAMBDA x, skb : Walked(x, sk, skb.dsn), start, q)
        = (CHOOSE it : Folds(it))[1..n]
  BY <1>1 DEF FoldLeft, MapThenFoldSet
<1>3. G \in [1..n -> [Walking -> Walking]]
  BY <1>1, WalksOn
<1>4. PICK g \in [SUBSET (1..n) -> Walking] :
        \A s \in SUBSET (1..n) :
          g[s] = IF s = {} THEN start ELSE G[Max(s)][g[s \ {Max(s)}]]
  <2>1. start \in Walking /\ n \in Nat
    BY <1>1
  <2> HIDE DEF G, n, Folds
  <2>2. FoldsOf(n, Walking, start, G) # {}
    BY <1>3, <2>1, FoldExists
  <2> QED
    BY <2>2 DEF FoldsOf
<1>5. Folds(g)
  <2>1. ASSUME NEW s \in SUBSET (1..n), s # {}
        PROVE  g[s] = Walked(g[s \ {Max(s)}], sk, q[Max(s)].dsn)
    <3>1. Max(s) \in 1..n
      BY <1>1, <2>1, GreatestNumber
    <3>2. g[s \ {Max(s)}] \in Walking
      BY <1>4
    <3>3. g[s] = G[Max(s)][g[s \ {Max(s)}]]
      BY <1>4, <2>1
    <3> QED
      BY <3>1, <3>2, <3>3
  <2>2. g[{}] = start
    BY <1>4
  <2> QED
    BY <2>1, <2>2
<1> DEFINE it == CHOOSE x : Folds(x)
           P  == {s \in SUBSET (1..n) : it[s] \in Walking}
<1>6. Folds(it)
  <2> HIDE DEF Folds
  <2> QED
    BY <1>5
<1> HIDE DEF it
<1>7. {} \in P
  BY <1>6
<1>8. ASSUME NEW s \in SUBSET (1..n), s # {}, s \ {Max(s)} \in P
      PROVE  s \in P
  <2>1. Max(s) \in 1..n
    BY <1>1, <1>8, GreatestNumber
  <2>2. it[s] = Walked(it[s \ {Max(s)}], sk, q[Max(s)].dsn)
    BY <1>6, <1>8
  <2>3. it[s] \in Walking
    BY <1>1, <1>8, <2>1, <2>2, WalksOn
  <2> QED
    BY <2>3
<1>9. SUBSET (1..n) \subseteq P
  <2> HIDE DEF P, n
  <2> QED
    BY <1>1, <1>7, <1>8, IndexInduction
<1>10. it[1..n] \in Walking
  BY <1>9
<1> QED
  BY <1>2, <1>10 DEF it

LEMMA SumOfDeltas ==
  ASSUME NEW q, NEW n \in Nat, DOMAIN q = 1..n, \A k \in 1..n : q[k] \in Nat
  PROVE  FoldLeft(+, 0, q) \in Nat
<1> DEFINE G == [k \in 1..n |-> [x \in Nat |-> x + q[k]]]
           Folds(it) == it = [s \in SUBSET (1..n) |->
                               IF s = {} THEN 0 ELSE it[s \ {Max(s)}] + q[Max(s)]]
<1>1. FoldLeft(+, 0, q) = (CHOOSE it : Folds(it))[1..n]
  BY DEF FoldLeft, MapThenFoldSet
<1>2. G \in [1..n -> [Nat -> Nat]]
  OBVIOUS
<1>3. PICK g \in [SUBSET (1..n) -> Nat] :
        \A s \in SUBSET (1..n) :
          g[s] = IF s = {} THEN 0 ELSE G[Max(s)][g[s \ {Max(s)}]]
  <2>1. 0 \in Nat
    OBVIOUS
  <2> HIDE DEF G, Folds
  <2>2. FoldsOf(n, Nat, 0, G) # {}
    BY <1>2, <2>1, FoldExists
  <2> QED
    BY <2>2 DEF FoldsOf
<1>4. Folds(g)
  <2>1. ASSUME NEW s \in SUBSET (1..n), s # {}
        PROVE  g[s] = g[s \ {Max(s)}] + q[Max(s)]
    <3>1. Max(s) \in 1..n
      BY <2>1, GreatestNumber
    <3>2. g[s \ {Max(s)}] \in Nat
      BY <1>3
    <3>3. g[s] = G[Max(s)][g[s \ {Max(s)}]]
      BY <1>3, <2>1
    <3> QED
      BY <3>1, <3>2, <3>3
  <2>2. g[{}] = 0
    BY <1>3
  <2> QED
    BY <2>1, <2>2
<1> DEFINE it == CHOOSE x : Folds(x)
           P  == {s \in SUBSET (1..n) : it[s] \in Nat}
<1>5. Folds(it)
  <2> HIDE DEF Folds
  <2> QED
    BY <1>4
<1> HIDE DEF it
<1>6. {} \in P
  BY <1>5
<1>7. ASSUME NEW s \in SUBSET (1..n), s # {}, s \ {Max(s)} \in P
      PROVE  s \in P
  <2>1. Max(s) \in 1..n
    BY <1>7, GreatestNumber
  <2>2. it[s] = it[s \ {Max(s)}] + q[Max(s)]
    BY <1>5, <1>7
  <2>3. it[s] \in Nat
    BY <1>7, <2>1, <2>2
  <2> QED
    BY <2>3
<1>8. SUBSET (1..n) \subseteq P
  <2> HIDE DEF P
  <2> QED
    BY <1>6, <1>7, IndexInduction
<1>9. it[1..n] \in Nat
  BY <1>8
<1> QED
  BY <1>1, <1>9 DEF it

LEMMA MeanInRange ==
  ASSUME NEW l \in Learned
  PROVE  Mean(l) \in 0..MaxWait
<1> DEFINE q   == [i \in 1..DaSize |-> l.deltas[i - 1]]
           sum == FoldLeft(+, 0, q)
<1>1. sum \in Nat
  <2>1. \A k \in 1..DaSize : k - 1 \in 0..DaSize - 1
    BY Constants
  <2>2. l.deltas \in [0..DaSize - 1 -> 0..OneSec]
    BY DEF Learned
  <2>3. \A k \in 1..DaSize : l.deltas[k - 1] \in Nat
    BY <2>1, <2>2, Constants
  <2>4. DOMAIN q = 1..DaSize /\ \A k \in 1..DaSize : q[k] \in Nat
    BY <2>3
  <2> HIDE DEF q
  <2> QED
    BY <2>4, SumOfDeltas, Constants
<1> HIDE DEF sum
<1>2. sum % Wrap \in Nat
  BY <1>1, Constants
<1>3. (sum % Wrap) \div DaSize \in Nat
  BY <1>2, Constants
<1>4. Min({(sum % Wrap) \div DaSize, MaxWait}) \in 0..MaxWait
  BY <1>3, Smaller, Constants
<1> QED
  BY <1>4 DEF Mean, sum

\* Whatever queue a call meets, what it teaches is in range and the ring stays
\* with one subflow a number.
LEMMA LearnsFromQueue ==
  ASSUME NEW l \in Learned, OneSock(l), NEW sk \in Sock, NEW q \in Seq(Segment)
  PROVE  /\ CalcLowpassTimeout(l, sk, q).learn \in Learned
         /\ OneSock(CalcLowpassTimeout(l, sk, q).learn)
         /\ CalcLowpassTimeout(l, sk, q).hit \in BOOLEAN
<1> DEFINE start == [learn |-> Recent(l), hit |-> FALSE]
           w == FoldLeft(LAMBDA x, skb : Walked(x, sk, skb.dsn), start, q)
<1>1. start \in Walking
  <2>1. Recent(l) \in Learned /\ Recent(l).last_new <= OneSec
    <3>1. 0 \in Age /\ \A t \in Age : t \in Nat
      BY Constants DEF Age, Old
    <3>2. l.last_new \in Nat
      BY <3>1 DEF Learned
    <3>3. [l EXCEPT !.last_new = 0] \in Learned
      BY <3>1 DEF Learned
    <3>4. [l EXCEPT !.last_new = 0].last_new = 0
      BY DEF Learned
    <3>5. OneSec \in Nat
      BY Constants
    <3> QED
      BY <3>2, <3>3, <3>4, <3>5 DEF Recent
  <2>2. Recent(l).ring = l.ring
    BY DEF Recent, Learned
  <2>3. OneSock(Recent(l))
    BY <2>2 DEF OneSock
  <2> QED
    BY <2>1, <2>3 DEF Walking
<1>2. w \in Walking
  <2> HIDE DEF start
  <2> QED
    BY <1>1, WalksQueue
<1>3. CalcLowpassTimeout(l, sk, q)
        = IF w.hit THEN w
          ELSE [w EXCEPT !.learn.mean = Mean(w.learn), !.learn.timeout = Mean(w.learn)]
  BY DEF CalcLowpassTimeout
<1> HIDE DEF w
<1>4. Mean(w.learn) \in 0..MaxWait
  BY <1>2, MeanInRange DEF Walking
<1> DEFINE v == [w EXCEPT !.learn.mean = Mean(w.learn), !.learn.timeout = Mean(w.learn)]
<1>5. v.learn \in Learned /\ v.hit = w.hit /\ v.learn.ring = w.learn.ring
  BY <1>2, <1>4 DEF Walking, Learned
<1> HIDE DEF v
<1>6. OneSock(v.learn)
  BY <1>2, <1>5 DEF Walking, OneSock
<1> QED
  BY <1>2, <1>3, <1>5, <1>6 DEF Walking, v

(***************************************************************************)
(* The whole state                                                         *)
(***************************************************************************)

Calls == [sk : Sock \cup {NoSock}, hit : BOOLEAN, pos : Nat, held : BOOLEAN, waited : Age]

Lists == [socks : SUBSET Sock, age : [Sock -> Age]]

\* The types of the state, and of what is learned.
State ==
    /\ metaOf \in [Sock -> Meta]
    /\ learn \in Learned
    /\ list \in Lists
    /\ queue \in [Sock -> Seq(Segment)]
    /\ call \in [Meta -> Calls]

\* A call is of a subflow of its connection.
OwnSubflow == \A m \in Meta : Busy(m) => call[m].sk \in Sock /\ metaOf[call[m].sk] = m

QueueBound == \A s \in Sock : Len(queue[s]) <= MaxQueue

LInv == State /\ OwnSubflow /\ QueueBound /\ OneSock(learn)

LEMMA LInvImplies == LInv => TypeOK /\ OneSockPerDsn
<1> SUFFICES ASSUME LInv PROVE TypeOK /\ OneSockPerDsn
  OBVIOUS
<1> USE DEF LInv, State
<1>1. OneSockPerDsn
  BY DEF OneSock, OneSockPerDsn
<1>2. \A m \in Meta : Busy(m) => metaOf[call[m].sk] = m /\ call[m].waited \in Age
  BY DEF OwnSubflow, Calls
<1>3. /\ learn.ring \in [Slot -> [sk : Sock \cup {NoSock}, dsn : Dsn]]
      /\ learn.tail \in Slot /\ learn.da_i \in 0..DaSize - 1 /\ learn.last_new \in Age
      /\ learn.deltas \in [0..DaSize - 1 -> 0..OneSec]
      /\ learn.mean \in 0..MaxWait /\ learn.timeout \in 0..MaxWait
  BY DEF Learned
<1>4. list.socks \subseteq Sock /\ list.age \in [Sock -> Age]
  BY DEF Lists
<1>5. \A s \in Sock : queue[s] \in Seq(Segment) /\ Len(queue[s]) <= MaxQueue
  BY DEF QueueBound
<1> QED
  BY <1>1, <1>2, <1>3, <1>4, <1>5 DEF TypeOK

\* The filter: what it returns, and what it does to the list.
LEMMA FilterTypes ==
  ASSUME list \in Lists, NEW sk \in Sock, NEW hit \in BOOLEAN
  PROVE  /\ Reset(list) \in Lists
         /\ WithSock(Reset(list), sk) \in Lists
         /\ Lowpass(sk, hit).list \in Lists
<1>1. 0 \in Age /\ Old \in Age
  BY Constants DEF Age, Old
<1>2. NoList \in Lists
  BY <1>1 DEF NoList, Lists
<1>3. Reset(list) \in Lists
  BY <1>2 DEF Reset
<1> DEFINE l == WithSock(Reset(list), sk)
<1>4. l \in Lists
  <2> DEFINE r == Reset(list)
  <2>1. [r EXCEPT !.socks = @ \cup {sk}] \in Lists
    BY <1>3 DEF Lists
  <2> QED
    BY <1>3, <2>1 DEF WithSock
<1> HIDE DEF l
<1>5. Stamped(l, sk) \in Lists
  BY <1>1, <1>4 DEF Stamped, Lists
<1> QED
  BY <1>3, <1>4, <1>5 DEF Lowpass, l

LEMMA IdleTypes ==
  /\ 0 \in Age /\ Idle \in Calls
  /\ \A sk \in Sock, hit \in BOOLEAN :
       /\ Restarted([sk |-> sk, hit |-> hit]) \in Calls
       /\ Restarted([sk |-> sk, hit |-> hit]).sk = sk
       /\ Restarted([sk |-> sk, hit |-> hit]).waited = 0
  /\ \A c \in Calls :
       /\ Restarted(c) \in Calls /\ Restarted(c).sk = c.sk /\ Restarted(c).waited = 0
       /\ Restarted(c).hit = c.hit
<1>1. 0 \in Age
  BY Constants DEF Age, Old
<1>2. Idle \in Calls
  BY <1>1 DEF Idle, Calls
<1> QED
  BY <1>1, <1>2 DEF Restarted, Idle, Calls

\* A call starts, of a connection in no other one.
LEMMA ReadyKeeps ==
  ASSUME LInv, NEW sk \in Sock, DataReady(sk)
  PROVE  LInv'
<1> DEFINE m == metaOf[sk]
<1>1. m \in Meta
  BY DEF LInv, State
<1>2. PICK n \in 1..MaxQueue - Len(queue[sk]) : \E new \in [1..n -> Segment] :
        LET q == queue[sk] \o new
            c == CalcLowpassTimeout(learn, sk, q)
        IN  /\ queue' = [queue EXCEPT ![sk] = q]
            /\ learn' = c.learn
            /\ call' = [call EXCEPT ![m] = Restarted([sk |-> sk, hit |-> c.hit])]
  BY DEF DataReady
<1>3. PICK new \in [1..n -> Segment] :
        LET q == queue[sk] \o new
            c == CalcLowpassTimeout(learn, sk, q)
        IN  /\ queue' = [queue EXCEPT ![sk] = q]
            /\ learn' = c.learn
            /\ call' = [call EXCEPT ![m] = Restarted([sk |-> sk, hit |-> c.hit])]
  BY <1>2
<1> DEFINE q == queue[sk] \o new
           c == CalcLowpassTimeout(learn, sk, q)
<1>4. q \in Seq(Segment) /\ Len(q) <= MaxQueue
  <2>1. queue[sk] \in Seq(Segment) /\ Len(queue[sk]) \in Nat
    BY DEF LInv, State
  <2>2. n \in Nat /\ n <= MaxQueue - Len(queue[sk])
    BY <2>1, Constants
  <2>3. new \in Seq(Segment) /\ Len(new) = n
    BY <2>2
  <2>4. q \in Seq(Segment) /\ Len(q) = Len(queue[sk]) + n
    BY <2>1, <2>3
  <2> QED
    BY <2>1, <2>2, <2>4, Constants
<1> HIDE DEF q
<1>5. c.learn \in Learned /\ OneSock(c.learn) /\ c.hit \in BOOLEAN
  BY <1>4, LearnsFromQueue DEF LInv, State
<1>6. /\ queue' = [queue EXCEPT ![sk] = q] /\ learn' = c.learn
      /\ call' = [call EXCEPT ![m] = Restarted([sk |-> sk, hit |-> c.hit])]
  BY <1>3 DEF q
<1> HIDE DEF c
<1>7. metaOf' = metaOf /\ list' = list
  BY DEF DataReady
<1> DEFINE new1 == Restarted([sk |-> sk, hit |-> c.hit])
<1>8. new1 \in Calls /\ new1.sk = sk
  BY <1>5, IdleTypes
<1> HIDE DEF new1
<1>9. State'
  BY <1>1, <1>4, <1>5, <1>6, <1>7, <1>8 DEF LInv, State, new1
<1>10. OwnSubflow'
  BY <1>6, <1>7, <1>8 DEF LInv, State, OwnSubflow, Busy, new1
<1>11. QueueBound' /\ OneSock(learn)'
  BY <1>4, <1>5, <1>6 DEF LInv, State, QueueBound, OneSock
<1> QED
  BY <1>9, <1>10, <1>11 DEF LInv

\* The rest of a queue is a queue no longer.
LEMMA RestOfQueue ==
  ASSUME NEW q \in Seq(Segment), NEW k \in 1..Len(q)
  PROVE  SubSeq(q, k + 1, Len(q)) \in Seq(Segment) /\ Len(SubSeq(q, k + 1, Len(q))) <= Len(q)
<1>1. Len(q) \in Nat /\ k \in Nat /\ k <= Len(q)
  OBVIOUS
<1>2. \A i \in k + 1..Len(q) : q[i] \in Segment
  BY <1>1
<1> QED
  BY <1>1, <1>2, SubSeqProperties

LEMMA PassKeeps ==
  ASSUME LInv, NEW m \in Meta, Pass(m)
  PROVE  LInv'
<1> DEFINE c == call[m]
           q == queue[c.sk]
           f == Lowpass(c.sk, c.hit)
           ends == {k \in DOMAIN q : q[k].last}
           rest == IF ends = {} THEN q ELSE SubSeq(q, Min(ends) + 1, Len(q))
           next == CASE rest = <<>> \/ (ends = {} /\ c.pos = Len(q)) -> Idle
                     [] ends # {} -> Restarted(c)
                     [] OTHER -> [Restarted(c) EXCEPT !.pos = c.pos + 1]
<1>1. c \in Calls /\ c.sk \in Sock /\ metaOf[c.sk] = m
  BY DEF Pass, LInv, State, OwnSubflow
<1>2. q \in Seq(Segment) /\ Len(q) <= MaxQueue
  BY <1>1 DEF LInv, State, QueueBound
<1>3. rest \in Seq(Segment) /\ Len(rest) <= MaxQueue
  <2>1. CASE ends = {}
    BY <1>2, <2>1
  <2>2. CASE ends # {}
    <3>1. DOMAIN q = 1..Len(q) /\ Len(q) \in Nat
      BY <1>2
    <3>2. ends \in SUBSET Nat
      BY <3>1
    <3>3. Min(ends) \in 1..Len(q)
      BY <2>2, <3>1, <3>2, LeastNumber
    <3> HIDE DEF q, ends
    <3>4. /\ SubSeq(q, Min(ends) + 1, Len(q)) \in Seq(Segment)
          /\ Len(SubSeq(q, Min(ends) + 1, Len(q))) <= Len(q)
      BY <1>2, <3>3, RestOfQueue
    <3>5. Len(rest) \in Nat
      BY <2>2, <3>4
    <3> QED
      BY <1>2, <2>2, <3>1, <3>4, <3>5, Constants
  <2> QED
    BY <2>1, <2>2
<1>4. f.list \in Lists
  BY <1>1, FilterTypes DEF LInv, State, Calls
<1>5. next \in Calls /\ (next = Idle \/ next.sk = c.sk)
  <2>1. Restarted(c) \in Calls /\ Restarted(c).sk = c.sk /\ Idle \in Calls
    BY <1>1, IdleTypes
  <2>2. c.pos + 1 \in Nat
    BY <1>1 DEF Calls
  <2>3. [Restarted(c) EXCEPT !.pos = c.pos + 1] \in Calls
    BY <2>1, <2>2 DEF Calls
  <2>4. [Restarted(c) EXCEPT !.pos = c.pos + 1].sk = c.sk
    BY <2>1 DEF Calls
  <2> HIDE DEF rest, ends, q, c
  <2> QED
    BY <2>1, <2>3, <2>4
<1>6. /\ list' = f.list /\ queue' = [queue EXCEPT ![c.sk] = rest]
      /\ call' = [call EXCEPT ![m] = next] /\ metaOf' = metaOf /\ learn' = learn
  BY DEF Pass
<1> HIDE DEF c, q, f, ends, rest, next
<1>7. State'
  BY <1>1, <1>3, <1>4, <1>5, <1>6 DEF LInv, State
<1>8. OwnSubflow'
  BY <1>1, <1>5, <1>6 DEF LInv, State, OwnSubflow, Busy
<1>9. QueueBound' /\ OneSock(learn)'
  BY <1>1, <1>3, <1>6 DEF LInv, State, QueueBound, OneSock
<1> QED
  BY <1>7, <1>8, <1>9 DEF LInv

LEMMA HoldKeeps ==
  ASSUME LInv, NEW m \in Meta, Hold(m)
  PROVE  LInv'
<1> DEFINE f == Lowpass(call[m].sk, call[m].hit)
<1>1. call[m] \in Calls /\ call[m].sk \in Sock /\ metaOf[call[m].sk] = m
  BY DEF Hold, LInv, State, OwnSubflow
<1>2. f.list \in Lists
  BY <1>1, FilterTypes DEF LInv, State, Calls
<1>3. /\ list' = f.list /\ metaOf' = metaOf /\ learn' = learn /\ queue' = queue
      /\ call' = [call EXCEPT ![m].held = TRUE, ![m].pos = 1]
  BY DEF Hold
<1> HIDE DEF f
<1>4. call' \in [Meta -> Calls] /\ \A m2 \in Meta : call'[m2].sk = call[m2].sk
  BY <1>1, <1>3 DEF LInv, State, Calls
<1>5. State'
  BY <1>2, <1>3, <1>4 DEF LInv, State
<1>6. \A m2 \in Meta \ {m} : call'[m2] = call[m2]
  BY <1>3 DEF LInv, State
<1>7. OwnSubflow'
  BY <1>1, <1>3, <1>4, <1>6 DEF LInv, OwnSubflow, Busy
<1>8. QueueBound' /\ OneSock(learn)'
  BY <1>3 DEF LInv, QueueBound, OneSock
<1> QED
  BY <1>5, <1>7, <1>8 DEF LInv

LEMMA PurgeKeeps ==
  ASSUME LInv, NEW m \in Meta, Purge(m)
  PROVE  LInv'
<1>1. call[m] \in Calls /\ call[m].sk \in Sock
  BY DEF Purge, LInv, State, OwnSubflow
<1>2. << >> \in Seq(Segment) /\ Len(<< >>) <= MaxQueue
  BY Constants
<1>3. State'
  BY <1>1, <1>2, IdleTypes DEF Purge, LInv, State
<1>4. OwnSubflow'
  BY <1>1 DEF Purge, LInv, State, OwnSubflow, Busy
<1>5. QueueBound' /\ OneSock(learn)'
  BY <1>1, <1>2 DEF Purge, LInv, State, QueueBound, OneSock
<1> QED
  BY <1>3, <1>4, <1>5 DEF LInv

\* A clock that stops at Old.
LEMMA ClockTypes ==
  ASSUME NEW t \in Age
  PROVE  /\ t \in Nat /\ t <= Old /\ Min({t + 1, Old}) \in Age
         /\ Min({t + 1, Old}) = IF t + 1 <= Old THEN t + 1 ELSE Old
<1>1. t \in Nat /\ t <= Old /\ t + 1 \in Nat /\ Old \in Nat
  BY Constants DEF Age, Old
<1>2. Min({t + 1, Old}) = IF t + 1 <= Old THEN t + 1 ELSE Old
  BY <1>1, Smaller
<1> QED
  BY <1>1, <1>2 DEF Age

LEMMA TickKeeps ==
  ASSUME LInv, Tick
  PROVE  LInv'
<1>1. learn' \in Learned /\ learn'.ring = learn.ring
  <2>1. Min({learn.last_new + 1, Old}) \in Age
    BY ClockTypes DEF LInv, State, Learned
  <2> QED
    BY <2>1 DEF Tick, LInv, State, Learned
<1>2. list' \in Lists
  <2>1. \A s \in Sock : Min({list.age[s] + 1, Old}) \in Age
    BY ClockTypes DEF LInv, State, Lists
  <2> QED
    BY <2>1 DEF Tick, LInv, State, Lists
<1>3. call' \in [Meta -> Calls] /\ \A m \in Meta : Busy(m) => call'[m].sk = call[m].sk
  <2> DEFINE later(m) == [call[m] EXCEPT !.waited = Min({@ + 1, Old})]
  <2>1. \A m \in Meta : Min({call[m].waited + 1, Old}) \in Age
    BY ClockTypes DEF LInv, State, Calls
  <2>2. \A m \in Meta : later(m) \in Calls /\ later(m).sk = call[m].sk
    BY <2>1 DEF LInv, State, Calls
  <2>3. call' = [m \in Meta |-> IF Busy(m) THEN later(m) ELSE Idle]
    BY DEF Tick
  <2> HIDE DEF later
  <2> QED
    BY <2>2, <2>3, IdleTypes
<1>4. metaOf' = metaOf /\ queue' = queue
  BY DEF Tick
<1>5. \A m \in Meta : ~ Busy(m) => call'[m] = Idle
  BY DEF Tick
<1>6. State'
  BY <1>1, <1>2, <1>3, <1>4 DEF LInv, State
<1>7. OwnSubflow'
  BY <1>3, <1>4, <1>5 DEF LInv, OwnSubflow, Busy
<1>8. QueueBound' /\ OneSock(learn)'
  BY <1>1, <1>4 DEF LInv, QueueBound, OneSock
<1> QED
  BY <1>6, <1>7, <1>8 DEF LInv

LEMMA LInvStarts ==
  Init => LInv
<1> SUFFICES ASSUME Init PROVE LInv
  OBVIOUS
<1>1. 0 \in Slot /\ 0 \in 0..DaSize - 1 /\ 0 \in 0..MaxWait /\ MaxWait \in 0..MaxWait /\ 0 \in 0..OneSec
  BY Constants DEF Slot
<1>2. Old \in Age
  BY Constants DEF Age, Old
<1>3. learn \in Learned
  <2> DEFINE ring == [i \in Slot |-> [sk |-> NoSock, dsn |-> 0]]
  <2>1. ring \in [Slot -> [sk : Sock \cup {NoSock}, dsn : Dsn]]
    BY Constants
  <2> HIDE DEF ring
  <2>2. learn = [ring |-> ring, tail |-> 0, last_new |-> Old,
                 deltas |-> [i \in 0..DaSize - 1 |-> 0], da_i |-> 0,
                 mean |-> 0, timeout |-> MaxWait]
    BY DEF Init, ring
  <2> QED
    BY <1>1, <1>2, <2>1, <2>2 DEF Learned
<1>4. list \in Lists
  BY <1>2 DEF Init, NoList, Lists
<1>5. << >> \in Seq(Segment) /\ Len(<< >>) <= MaxQueue
  BY Constants
<1>6. State
  BY <1>3, <1>4, <1>5, IdleTypes DEF Init, State
<1>7. OneSock(learn)
  BY DEF Init, OneSock
<1>8. OwnSubflow /\ QueueBound
  BY <1>5 DEF Init, OwnSubflow, Busy, QueueBound
<1> QED
  BY <1>6, <1>7, <1>8 DEF LInv

LEMMA LInvKeeps ==
  LInv /\ [Next]_vars => LInv'
<1> SUFFICES ASSUME LInv, [Next]_vars PROVE LInv'
  OBVIOUS
<1>1. CASE \E sk \in Sock : DataReady(sk)
  BY <1>1, ReadyKeeps
<1>2. CASE \E m \in Meta : Pass(m)
  BY <1>2, PassKeeps
<1>3. CASE \E m \in Meta : Hold(m)
  BY <1>3, HoldKeeps
<1>4. CASE \E m \in Meta : Purge(m)
  BY <1>4, PurgeKeeps
<1>5. CASE Tick
  BY <1>5, TickKeeps
<1>6. CASE UNCHANGED vars
  BY <1>6 DEF vars, LInv, State, OwnSubflow, Busy, QueueBound, OneSock
<1> QED
  BY <1>1, <1>2, <1>3, <1>4, <1>5, <1>6 DEF Next

\* The types of the filter's state, and the learned time within the sysctl, for every
\* size of ring, list and average, whatever subtraction or sum wraps.
THEOREM LearnsInRange == Spec => []TypeOK
<1>1. Spec => []LInv
  BY LInvStarts, LInvKeeps, PTL DEF Spec
<1>2. LInv => TypeOK
  BY LInvImplies
<1> QED
  BY <1>1, <1>2, PTL

\* rmptcp_peak_dsn_sk_queue() may stop at the first entry of a number: all of them are
\* of one subflow, however the calls of the connections that share the ring interleave.
THEOREM OneOwner == Spec => []OneSockPerDsn
<1>1. Spec => []LInv
  BY LInvStarts, LInvKeeps, PTL DEF Spec
<1>2. LInv => OneSockPerDsn
  BY LInvImplies
<1> QED
  BY <1>1, <1>2, PTL

(***************************************************************************)
(* How long a segment is held                                              *)
(***************************************************************************)

\* A segment has waited no longer than its subflow has been silent.
Waits ==
    \A m \in Meta : Busy(m) => call[m].waited <= list.age[call[m].sk]
                               /\ call[m].waited <= MaxWait + 1

\* No subflow is written behind the array of rmptcp_lowpass().
ListHolds == IsFiniteSet(Sock) /\ Cardinality(Sock) <= SkListSize

LEMMA WaitsImplies == LInv /\ Waits => HoldsBriefly
<1> SUFFICES ASSUME LInv, Waits, NEW m \in Meta PROVE call[m].waited <= MaxWait + 1
  BY DEF HoldsBriefly
<1>1. CASE Busy(m)
  BY <1>1 DEF Waits
<1>2. CASE ~ Busy(m)
  BY <1>2, Constants DEF Busy, Idle
<1> QED
  BY <1>1, <1>2

\* What the filter does to the silences: nothing, or all have been silent for more than
\* a second, but for the subflow it lets pass.
LEMMA Silences ==
  ASSUME list \in Lists, NEW sk \in Sock, NEW hit \in BOOLEAN
  PROVE  \A s \in Sock \ {sk} :
           \/ Lowpass(sk, hit).list.age[s] = list.age[s]
           \/ Lowpass(sk, hit).list.age[s] = Old
<1> DEFINE r == Reset(list)
           l == WithSock(r, sk)
<1>1. r \in Lists /\ l \in Lists
  BY FilterTypes
<1>2. r = list \/ r = NoList
  BY DEF Reset
<1>3. l.age = r.age
  BY <1>1 DEF WithSock, Lists
<1>4. \A s \in Sock : r.age[s] \in {list.age[s], Old}
  BY <1>2 DEF NoList
<1> HIDE DEF r, l
<1>5. \A s \in Sock \ {sk} : Stamped(l, sk).age[s] = l.age[s]
  BY <1>1 DEF Stamped, Lists
<1>6. Lowpass(sk, hit).list = l \/ Lowpass(sk, hit).list = Stamped(l, sk)
  BY DEF Lowpass, r, l
<1> QED
  BY <1>3, <1>4, <1>5, <1>6

\* A refusal leaves no subflow stamped.
LEMMA RefusalSilences ==
  ASSUME list \in Lists, NEW sk \in Sock, NEW hit \in BOOLEAN, ~ Lowpass(sk, hit).send
  PROVE  \A s \in Sock :
           \/ Lowpass(sk, hit).list.age[s] = list.age[s]
           \/ Lowpass(sk, hit).list.age[s] = Old
<1> DEFINE r == Reset(list)
           l == WithSock(r, sk)
<1>1. r \in Lists /\ l \in Lists
  BY FilterTypes
<1>2. l.age = r.age
  BY <1>1 DEF WithSock, Lists
<1>3. \A s \in Sock : r.age[s] \in {list.age[s], Old}
  BY DEF Reset, NoList
<1> HIDE DEF r, l
<1>4. Lowpass(sk, hit).list = l
  BY DEF Lowpass, r, l
<1> QED
  BY <1>2, <1>3, <1>4

\* Where the list holds all subflows, one that is refused has not been silent for the
\* learned time.
LEMMA RefusedSent ==
  ASSUME ListHolds, list \in Lists, learn \in Learned, NEW sk \in Sock,
         NEW hit \in BOOLEAN, ~ Lowpass(sk, hit).send
  PROVE  list.age[sk] <= MaxWait
<1> DEFINE r == Reset(list)
           l == WithSock(r, sk)
<1>1. r \in Lists /\ l \in Lists
  BY FilterTypes
<1>2. sk \in l.socks
  <2>1. CASE Cardinality(r.socks) < SkListSize
    BY <1>1, <2>1 DEF WithSock, Lists
  <2>2. CASE ~ (Cardinality(r.socks) < SkListSize)
    <3>1. r.socks \in SUBSET Sock /\ IsFiniteSet(Sock)
      BY <1>1 DEF Lists, ListHolds
    <3>2. /\ Cardinality(r.socks) \in Nat /\ Cardinality(Sock) \in Nat
          /\ Cardinality(r.socks) <= Cardinality(Sock)
          /\ Cardinality(r.socks) = Cardinality(Sock) => r.socks = Sock
      BY <3>1, FS_Subset, FS_CardinalityType
    <3>3. Cardinality(r.socks) = Cardinality(Sock)
      BY <2>2, <3>2, Constants DEF ListHolds
    <3>4. r.socks = Sock
      BY <3>2, <3>3
    <3>5. l = r
      BY <2>2 DEF WithSock
    <3> QED
      BY <3>4, <3>5
  <2> QED
    BY <2>1, <2>2
<1>3. l.age = r.age
  BY <1>1 DEF WithSock, Lists
<1>4. ~ Silent(l, learn.timeout)
  BY DEF Lowpass
<1>5. ~ (l.age[sk] > learn.timeout)
  <2> HIDE DEF l
  <2> QED
    BY <1>2, <1>4 DEF Silent
<1>6. l.age[sk] \in Nat /\ learn.timeout \in 0..MaxWait
  BY <1>1, ClockTypes DEF Lists, Learned
<1>7. l.age[sk] <= MaxWait
  BY <1>5, <1>6, Constants
<1>8. r.age[sk] # Old
  BY <1>3, <1>7, Constants DEF Old
<1>9. r = list
  BY <1>8 DEF Reset, NoList
<1> QED
  BY <1>3, <1>7, <1>9

LEMMA WaitsKept ==
  ASSUME ListHolds, LInv, Waits, [Next]_vars
  PROVE  Waits'
<1>1. LInv'
  BY LInvKeeps
<1>2. \A m \in Meta : Busy(m) => /\ call[m].sk \in Sock /\ metaOf[call[m].sk] = m
                                 /\ call[m].waited \in Nat /\ call[m].waited <= Old
                                 /\ list.age[call[m].sk] \in Nat
  BY ClockTypes DEF LInv, State, OwnSubflow, Calls, Lists
<1>3. Old \in Nat /\ 0 <= MaxWait + 1 /\ MaxWait + 1 <= Old
  BY Constants DEF Old
<1>4. \A s \in Sock : list'.age[s] \in Nat
  BY <1>1, ClockTypes DEF LInv, State, Lists
<1>5. ASSUME NEW sk \in Sock, DataReady(sk) PROVE Waits'
  <2> SUFFICES ASSUME NEW m \in Meta, Busy(m)'
               PROVE  call'[m].waited <= list'.age[call'[m].sk] /\ call'[m].waited <= MaxWait + 1
    BY DEF Waits
  <2>1. list' = list
    BY <1>5 DEF DataReady
  <2>2. CASE m = metaOf[sk]
    <3>1. PICK hit \in BOOLEAN : call'[m] = Restarted([sk |-> sk, hit |-> hit])
      <4>1. PICK q : call' = [call EXCEPT ![m] =
                       Restarted([sk |-> sk, hit |-> CalcLowpassTimeout(learn, sk, q).hit])]
        BY <1>5, <2>2 DEF DataReady
      <4> DEFINE h == CalcLowpassTimeout(learn, sk, q).hit
      <4>2. call'[m] = Restarted([sk |-> sk, hit |-> h])
        BY <4>1 DEF LInv, State
      <4>3. call'[m].hit = h /\ call'[m].hit \in BOOLEAN
        <5>1. call'[m] \in Calls
          BY <1>1 DEF LInv, State
        <5>2. Restarted([sk |-> sk, hit |-> h]).hit = h
          BY DEF Restarted, Idle
        <5> HIDE DEF h
        <5> QED
          BY <4>2, <5>1, <5>2 DEF Calls
      <4> HIDE DEF h
      <4> QED
        BY <4>2, <4>3
    <3>2. call'[m].waited = 0 /\ call'[m].sk = sk
      BY <3>1, IdleTypes
    <3> QED
      BY <1>3, <1>4, <3>2
  <2>3. CASE m # metaOf[sk]
    <3>1. call'[m] = call[m]
      BY <1>5, <2>3 DEF DataReady, LInv, State
    <3> QED
      BY <2>1, <3>1 DEF Waits, Busy
  <2> QED
    BY <2>2, <2>3
<1>6. ASSUME NEW m0 \in Meta, Pass(m0) PROVE Waits'
  <2> SUFFICES ASSUME NEW m \in Meta, Busy(m)'
               PROVE  call'[m].waited <= list'.age[call'[m].sk] /\ call'[m].waited <= MaxWait + 1
    BY DEF Waits
  <2>1. CASE m = m0
    <3> DEFINE c == call[m0]
               more == [Restarted(c) EXCEPT !.pos = c.pos + 1]
    <3>1. c \in Calls /\ c.sk \in Sock
      BY <1>2, <1>6 DEF Pass, LInv, State
    <3>2. call'[m] \in {Idle, Restarted(c), more}
      BY <1>6, <2>1 DEF Pass, LInv, State
    <3>3. more.waited = 0 /\ more.sk = c.sk /\ Restarted(c).waited = 0 /\ Restarted(c).sk = c.sk
      BY <3>1, IdleTypes DEF Calls
    <3>4. call'[m] # Idle
      BY DEF Busy
    <3> HIDE DEF c, more
    <3>5. call'[m].waited = 0 /\ call'[m].sk \in Sock
      BY <3>1, <3>2, <3>3, <3>4
    <3> QED
      BY <1>3, <1>4, <3>5
  <2>2. CASE m # m0
    <3> DEFINE sk == call[m0].sk
               hit == call[m0].hit
    <3>1. call'[m] = call[m] /\ Busy(m)
      BY <1>6, <2>2 DEF Pass, Busy, LInv, State
    <3>2. call[m].sk \in Sock \ {sk} /\ sk \in Sock
      BY <1>2, <1>6, <2>2, <3>1 DEF Pass
    <3>3. hit \in BOOLEAN /\ list \in Lists
      BY DEF LInv, State, Calls
    <3>4. list' = Lowpass(sk, hit).list
      BY <1>6 DEF Pass
    <3> HIDE DEF sk, hit
    <3>5. list'.age[call[m].sk] = list.age[call[m].sk] \/ list'.age[call[m].sk] = Old
      BY <3>2, <3>3, <3>4, Silences
    <3> QED
      BY <1>2, <3>1, <3>5 DEF Waits
  <2> QED
    BY <2>1, <2>2
<1>7. ASSUME NEW m0 \in Meta, Hold(m0) PROVE Waits'
  <2> SUFFICES ASSUME NEW m \in Meta, Busy(m)'
               PROVE  call'[m].waited <= list'.age[call'[m].sk] /\ call'[m].waited <= MaxWait + 1
    BY DEF Waits
  <2> DEFINE sk == call[m0].sk
             hit == call[m0].hit
  <2>1. call'[m].sk = call[m].sk /\ call'[m].waited = call[m].waited /\ Busy(m)
    <3>1. call' = [call EXCEPT ![m0].held = TRUE, ![m0].pos = 1] /\ Busy(m0)
      BY <1>7 DEF Hold
    <3> QED
      BY <3>1 DEF LInv, State, Calls, Busy
  <2>2. sk \in Sock /\ hit \in BOOLEAN /\ list \in Lists
    BY <1>2, <1>7 DEF Hold, LInv, State, Calls
  <2>3. list' = Lowpass(sk, hit).list /\ ~ Lowpass(sk, hit).send
    BY <1>7 DEF Hold
  <2> HIDE DEF sk, hit
  <2>4. list'.age[call[m].sk] = list.age[call[m].sk] \/ list'.age[call[m].sk] = Old
    BY <1>2, <2>1, <2>2, <2>3, RefusalSilences
  <2> QED
    BY <1>2, <2>1, <2>4 DEF Waits
<1>8. ASSUME NEW m0 \in Meta, Purge(m0) PROVE Waits'
  BY <1>8 DEF Purge, Waits, Busy, LInv, State
<1>9. ASSUME Tick PROVE Waits'
  <2> SUFFICES ASSUME NEW m \in Meta, Busy(m)'
               PROVE  call'[m].waited <= list'.age[call'[m].sk] /\ call'[m].waited <= MaxWait + 1
    BY DEF Waits
  <2> DEFINE sk == call[m].sk
             w  == call[m].waited
             a  == list.age[sk]
  <2>1. Busy(m)
    BY <1>9 DEF Tick, Busy
  <2>2. sk \in Sock /\ w \in Age /\ a \in Age /\ w <= a
    BY <1>2, <2>1 DEF Waits, LInv, State, Calls, Lists
  <2>3. a <= MaxWait
    <3>1. call[m].hit \in BOOLEAN /\ ~ Lowpass(sk, call[m].hit).send
      BY <1>9, <2>1 DEF Tick, LInv, State, Calls
    <3> QED
      BY <2>2, <3>1, RefusedSent DEF LInv, State
  <2>4. call'[m].waited = Min({w + 1, Old}) /\ call'[m].sk = sk
    BY <1>9, <2>1 DEF Tick, LInv, State, Calls
  <2>5. list'.age[sk] = Min({a + 1, Old})
    BY <1>9, <2>2 DEF Tick, LInv, State, Lists
  <2> HIDE DEF sk, w, a
  <2> QED
    BY <1>3, <2>2, <2>3, <2>4, <2>5, ClockTypes, Constants
<1>10. CASE UNCHANGED vars
  BY <1>10 DEF vars, Waits, Busy
<1> QED
  BY <1>5, <1>6, <1>7, <1>8, <1>9, <1>10 DEF Next

\* rmptcp_lowpass() holds no segment back longer than the longest time it may learn and
\* the tick that shows it is over, however many connections stamp and reset its list and
\* change the learned time, as long as its array has room for all subflows: one written
\* behind the array is not looked at again.
THEOREM HeldBriefly == ASSUME ListHolds PROVE Spec => []HoldsBriefly
<1>1. Init => Waits
  BY DEF Init, Waits, Busy
<1>2. LInv /\ Waits /\ [Next]_vars => LInv' /\ Waits'
  BY LInvKeeps, WaitsKept
<1>3. Spec => [](LInv /\ Waits)
  BY <1>1, <1>2, LInvStarts, PTL DEF Spec
<1> QED
  BY <1>3, WaitsImplies, PTL

=============================================================================
