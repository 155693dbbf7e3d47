--------------------------- MODULE MetaSendProofs ---------------------------
(***************************************************************************)
(* The write queue of the sender stays one piece of the stream, from where *)
(* the peer is to where the application is, although segments are cut,     *)
(* sent several times on several subflows, acknowledged in part and sent   *)
(* again after a fall back; and nothing leaves it that has not arrived.    *)
(*                                                                         *)
(* A handler is a composition of a dozen operators.  Each has a lemma that *)
(* says: from a good connection it leads to good ones, and what it leaves  *)
(* alone.  The loops (copies, subflows, segments) are folds; each carries  *)
(* the set of the good states along (FoldKeeps, FoldWithin, FoldStays).    *)
(***************************************************************************)
EXTENDS MetaSend, FoldProofs

\* The write queue is a piece of the stream without a gap, which ends at the last byte
\* written and starts at, or before, the first byte not acknowledged.
Seamless(c) ==
    /\ c.head <= Len(c.wq)
    /\ \A i \in 2..Len(c.wq) : c.wq[i].seq = c.wq[i - 1].end
    /\ \A i \in 1..Len(c.wq) : ~c.wq[i].inf
    /\ c.wq # <<>> => c.wq[1].seq <= c.una /\ c.wq[Len(c.wq)].end = c.written
    /\ c.wq = <<>> => c.written <= c.una

\* snd_nxt is where the send head starts, and packets_out what has been sent.  After a
\* fall back inside of a segment its acknowledged part is counted when it is cut off.
Aligned(c) ==
    c.sched # "redundant" =>
    /\ c.wq = <<>> => c.una = c.written
    /\ c.nxt = IF c.head = 0 THEN c.una ELSE c.wq[c.head].end
    /\ "inside" \notin c.faults =>
         /\ c.packets_out = c.head
         /\ c.head = 0 /\ c.wq # <<>> => c.wq[1].seq = c.una

\* The copies of a subflow.  Until it is established they follow each other, and the next
\* starts at last_end, which is beyond the stream once the DATA_FIN has gone out.
Row(c, u) ==
    /\ u.rx <= Len(u.q)
    /\ ~u.est =>
         /\ \A k \in 2..Len(u.q) : u.q[k].from = u.q[k - 1].to
         /\ u.q # <<>> => u.last_end # None /\ (u.q[Len(u.q)].to = u.last_end \/ u.last_end = End(c) + 1)

\* The connection, at any point of a handler.
Good(c) ==
    /\ c \in Connection(c)
    /\ Seamless(c)
    /\ Aligned(c)
    /\ \A s \in Subflow : Row(c, c.sub[s])

\* The peer has everything acknowledged, until an infinite mapping starts: from then on
\* the acknowledgement is inferred from TCP, and the peer counts by itself.
Received(c, p) ==
    ~c.inf => /\ p.got \subseteq Isn..End(c)
              /\ p.inf = None
              /\ Isn..c.una - 1 \subseteq p.got

\* The inductive invariant.
IInv ==
    /\ Good(conn)
    /\ peer \in [got : SUBSET Int, inf : Subflow \cup {None}, next : Int]
    /\ Received(conn, peer)

\* A subflow whose copies are of K.
Sub(K) ==
    [q : Seq(K), rx : Nat, open : BOOLEAN, pf : BOOLEAN, est : BOOLEAN, last_end : Nat \cup {None}]

\* What a call on a subflow leaves alone.
Same(c, d) ==
    /\ d.sched = c.sched /\ d.wq = c.wq /\ d.head = c.head /\ d.written = c.written
    /\ d.una = c.una /\ d.nxt = c.nxt /\ d.packets_out = c.packets_out /\ d.faults = c.faults
    /\ c.inf => d.inf

(***************************************************************************)
(* Segments and copies                                                     *)
(***************************************************************************)

LEMMA Constants ==
  /\ Isn \in Nat /\ Wnd \in Nat /\ MaxTimeouts \in Nat /\ Wrap \in Nat \ {0}
  /\ Subflow \in SUBSET Nat /\ Subflow = 1..Cardinality(Subflow) /\ Cardinality(Subflow) \in Nat
  /\ None \notin Nat /\ None \notin Subflow
  /\ \A sched \in Schedulers : StreamLen[sched] \in Nat
<1>1. Isn \in Nat /\ Wnd \in Nat /\ MaxTimeouts \in Nat /\ None \notin Nat
  BY SendAssumption
<1>2. Wrap \in Nat \ {0}
  BY WrapAssumption
<1>3. Cardinality(Subflow) \in Nat
  BY SendAssumption, FS_CardinalityType
<1>4. Subflow = 1..Cardinality(Subflow)
  BY SendAssumption
<1>5. Subflow \in SUBSET Nat
  BY <1>3, <1>4
<1>6. \A sched \in Schedulers : StreamLen[sched] \in Nat
  BY SendAssumption DEF Range
<1> QED
  BY <1>1, <1>2, <1>3, <1>4, <1>5, <1>6

LEMMA EndIs ==
  ASSUME NEW c, c.sched \in Schedulers
  PROVE  End(c) \in Nat /\ Isn <= End(c)
BY Constants DEF End

LEMMA SegmentIs ==
  ASSUME NEW c, c.sched \in Schedulers, NEW seg \in Segment(c)
  PROVE  /\ seg.seq \in Nat /\ seg.end \in Nat /\ Isn <= seg.seq /\ seg.seq < seg.end
         /\ seg.fin \in BOOLEAN /\ seg.inf \in BOOLEAN /\ seg.hi \in 0..1
         /\ seg.end <= End(c) + 1 /\ (~seg.fin => seg.end <= End(c)) /\ (seg.fin => seg.end = End(c) + 1)
         /\ Bytes(seg) \in Nat /\ seg.seq + Bytes(seg) = seg.end - (IF seg.fin THEN 1 ELSE 0)
         /\ seg.seq + Bytes(seg) <= End(c)
         /\ (seg.inf => c.inf)
         /\ (Bytes(seg) = 0 => seg.fin)
<1>1. End(c) \in Nat
  BY EndIs
<1>2. /\ seg.seq \in Nat /\ seg.end \in Nat /\ Isn <= seg.seq /\ seg.seq < seg.end
      /\ seg.fin \in BOOLEAN /\ seg.inf \in BOOLEAN /\ seg.hi \in 0..1
      /\ (seg.inf => c.inf)
      /\ (~seg.fin => seg.end <= End(c)) /\ (seg.fin => seg.end = End(c) + 1)
  BY DEF Segment
<1>3. seg.end <= End(c) + 1
  BY <1>1, <1>2
<1>4. Bytes(seg) = seg.end - seg.seq - (IF seg.fin THEN 1 ELSE 0)
  BY DEF Bytes
<1>5. CASE seg.fin
  BY <1>1, <1>2, <1>3, <1>4, <1>5
<1>6. CASE ~seg.fin
  BY <1>1, <1>2, <1>3, <1>4, <1>6
<1> QED
  BY <1>5, <1>6

\* Only a fall back changes what a segment may be.
LEMMA SetsGrow ==
  ASSUME NEW c, NEW d, d.sched = c.sched, c.inf => d.inf
  PROVE  /\ End(d) = End(c) /\ Segment(c) \subseteq Segment(d) /\ Copy(c) \subseteq Copy(d)
         /\ Seq(Segment(c)) \subseteq Seq(Segment(d)) /\ Seq(Copy(c)) \subseteq Seq(Copy(d))
         /\ Sub(Copy(c)) \subseteq Sub(Copy(d))
<1>1. End(d) = End(c)
  BY DEF End
<1>2. Segment(c) \subseteq Segment(d)
  BY <1>1 DEF Segment
<1>3. Copy(c) \subseteq Copy(d)
  BY <1>2 DEF Copy
<1>4. \A S, T : S \subseteq T => Seq(S) \subseteq Seq(T)
  OBVIOUS
<1>5. Seq(Segment(c)) \subseteq Seq(Segment(d)) /\ Seq(Copy(c)) \subseteq Seq(Copy(d))
  BY <1>2, <1>3, <1>4
<1>6. Sub(Copy(c)) \subseteq Sub(Copy(d))
  BY <1>5 DEF Sub
<1> QED
  BY <1>1, <1>2, <1>3, <1>5, <1>6

LEMMA QueueKept ==
  ASSUME NEW c, NEW d, Same(c, d), Seamless(c), Aligned(c)
  PROVE  Seamless(d) /\ Aligned(d)
BY DEF Same, Seamless, Aligned

LEMMA FieldsAre ==
  ASSUME NEW c, c \in Connection(c)
  PROVE  /\ c.sched \in Schedulers /\ c.wq \in Seq(Segment(c)) /\ c.head \in Nat /\ c.reinj \in Seq(Segment(c))
         /\ c.written \in Isn..End(c) + 1 /\ c.una \in Isn..End(c) + 1 /\ c.nxt \in Isn..End(c) + 1
         /\ c.wnd_end \in Nat /\ c.packets_out \in Int
         /\ c.loss \in BOOLEAN /\ c.send_inf \in BOOLEAN /\ c.inf \in BOOLEAN /\ c.dfin \in BOOLEAN
         /\ c.index \in 0..1 /\ c.high \in [0..1 -> Int] /\ c.timeouts \in 0..MaxTimeouts
         /\ c.sub \in [Subflow -> Sub(Copy(c))]
         /\ c.faults \in SUBSET {"close", "mpfail", "nomem", "split", "discard", "inside"}
         /\ c.last \in [Subflow -> [seq : Nat, end : Nat]]
         /\ End(c) \in Nat /\ Isn <= End(c)
<1>1. c.sched \in Schedulers
  BY DEF Connection
<1>2. End(c) \in Nat /\ Isn <= End(c)
  BY <1>1, EndIs
<1> QED
  BY <1>2 DEF Connection, Sub

\* The fields of a connection; a change of some of them leaves the others.
Fields == {"sched", "wq", "head", "reinj", "written", "una", "nxt", "wnd_end", "packets_out", "loss", "send_inf",
           "inf", "dfin", "index", "high", "timeouts", "faults", "last", "sub"}

IsRecord(c) == c = [x \in Fields |-> c[x]]

LEMMA ConnectionIsRecord ==
  ASSUME NEW c, c \in Connection(c)
  PROVE  IsRecord(c)
BY DEF Connection, IsRecord, Fields

LEMMA RecordIsConnection ==
  ASSUME NEW d, IsRecord(d), NEW S, NEW K, S = Segment(d), K = Copy(d),
         d.sched \in Schedulers, d.wq \in Seq(S), d.head \in Nat, d.reinj \in Seq(S),
         d.written \in Isn..End(d) + 1, d.una \in Isn..End(d) + 1, d.nxt \in Isn..End(d) + 1,
         d.wnd_end \in Nat, d.packets_out \in Int, d.loss \in BOOLEAN, d.send_inf \in BOOLEAN,
         d.inf \in BOOLEAN, d.dfin \in BOOLEAN,
         d.index \in 0..1, d.high \in [0..1 -> Int], d.timeouts \in 0..MaxTimeouts,
         d.faults \in SUBSET {"close", "mpfail", "nomem", "split", "discard", "inside"},
         d.last \in [Subflow -> [seq : Nat, end : Nat]], d.sub \in [Subflow -> Sub(K)]
  PROVE  d \in Connection(d)
<1> DEFINE I == Isn..End(d) + 1
           X == 0..1
           H == [X -> Int]
           M == 0..MaxTimeouts
           F == SUBSET {"close", "mpfail", "nomem", "split", "discard", "inside"}
           L == [Subflow -> [seq : Nat, end : Nat]]
           B == [Subflow -> Sub(K)]
           Q == Seq(S)
<1>1. /\ d.written \in I /\ d.una \in I /\ d.nxt \in I /\ d.index \in X /\ d.high \in H
      /\ d.timeouts \in M /\ d.faults \in F /\ d.last \in L /\ d.sub \in B /\ d.wq \in Q /\ d.reinj \in Q
  OBVIOUS
<1>2. SUFFICES d \in [sched : Schedulers, wq : Q, head : Nat, reinj : Q, written : I, una : I, nxt : I,
                      wnd_end : Nat, packets_out : Int, loss : BOOLEAN, send_inf : BOOLEAN, inf : BOOLEAN,
                      dfin : BOOLEAN, index : X, high : H, timeouts : M, faults : F, last : L, sub : B]
  BY DEF Connection, Sub
<1> HIDE DEF I, X, H, M, F, L, B, Q
<1> QED
  BY <1>1 DEF IsRecord, Fields

LEMMA RowsKept ==
  ASSUME NEW c, NEW d, End(d) = End(c), NEW s \in Subflow, Row(c, c.sub[s]), d.sub[s] = c.sub[s]
  PROVE  Row(d, d.sub[s])
BY DEF Row

\* A subflow changes, and perhaps what depends on the fall back.
WithSub(c, i, f, s, u) == [c EXCEPT !.inf = i, !.dfin = f, !.sub = [c.sub EXCEPT ![s] = u]]

LEMMA SubChanged ==
  ASSUME NEW c, Good(c), NEW i \in BOOLEAN, c.inf => i, NEW f \in BOOLEAN, NEW s \in Subflow, NEW u,
         NEW d, d = WithSub(c, i, f, s, u),
         u \in Sub(Copy(d)), Row(d, u)
  PROVE  /\ Good(d) /\ Same(c, d) /\ d.inf = i /\ d.sub[s] = u /\ \A t \in Subflow \ {s} : d.sub[t] = c.sub[t]
         /\ d.reinj = c.reinj
<1>1. c \in Connection(c) /\ IsRecord(c)
  BY ConnectionIsRecord DEF Good
<1>2. /\ d.inf = i /\ d.dfin = f /\ d.sub = [c.sub EXCEPT ![s] = u]
      /\ d.sched = c.sched /\ d.wq = c.wq /\ d.head = c.head /\ d.reinj = c.reinj /\ d.written = c.written
      /\ d.una = c.una /\ d.nxt = c.nxt /\ d.wnd_end = c.wnd_end /\ d.packets_out = c.packets_out
      /\ d.loss = c.loss /\ d.send_inf = c.send_inf /\ d.index = c.index /\ d.high = c.high
      /\ d.timeouts = c.timeouts /\ d.faults = c.faults /\ d.last = c.last
      /\ IsRecord(d)
  BY <1>1 DEF IsRecord, Fields, WithSub
<1>3. Same(c, d)
  BY <1>2 DEF Same
<1>4. /\ End(d) = End(c) /\ Segment(c) \subseteq Segment(d) /\ Seq(Segment(c)) \subseteq Seq(Segment(d))
      /\ Sub(Copy(c)) \subseteq Sub(Copy(d))
  <2>1. d.sched = c.sched /\ (c.inf => d.inf)
    BY <1>2
  <2> QED
    BY <2>1, SetsGrow
<1>5. c.sub \in [Subflow -> Sub(Copy(c))]
  BY <1>1, FieldsAre
<1>6. d.sub \in [Subflow -> Sub(Copy(d))]
  BY <1>2, <1>4, <1>5
<1>7. /\ d.sub[s] = u /\ \A t \in Subflow \ {s} : d.sub[t] = c.sub[t]
  BY <1>2, <1>5
<1>8. d \in Connection(d)
  <2> DEFINE S == Segment(d)
             K == Copy(d)
  <2>1. d.sub \in [Subflow -> Sub(K)] /\ c.wq \in Seq(S) /\ c.reinj \in Seq(S) /\ End(d) = End(c)
    BY <1>4, <1>6, <1>1, FieldsAre
  <2> HIDE DEF S, K
  <2>2. /\ d.sched \in Schedulers /\ d.wq \in Seq(S) /\ d.head \in Nat /\ d.reinj \in Seq(S)
        /\ d.written \in Isn..End(d) + 1 /\ d.una \in Isn..End(d) + 1 /\ d.nxt \in Isn..End(d) + 1
        /\ d.wnd_end \in Nat /\ d.packets_out \in Int
        /\ d.loss \in BOOLEAN /\ d.send_inf \in BOOLEAN /\ d.inf \in BOOLEAN /\ d.dfin \in BOOLEAN
        /\ d.index \in 0..1 /\ d.high \in [0..1 -> Int] /\ d.timeouts \in 0..MaxTimeouts
        /\ d.faults \in SUBSET {"close", "mpfail", "nomem", "split", "discard", "inside"}
        /\ d.last \in [Subflow -> [seq : Nat, end : Nat]]
    BY <1>1, <1>2, <2>1, FieldsAre
  <2> QED
    BY <1>2, <2>1, <2>2, RecordIsConnection DEF S, K
<1>9. Seamless(d) /\ Aligned(d)
  BY <1>3, QueueKept DEF Good
<1>10. \A t \in Subflow : Row(d, d.sub[t])
  <2>1. ASSUME NEW t \in Subflow \ {s} PROVE Row(d, d.sub[t])
    BY <1>4, <1>7, RowsKept DEF Good
  <2> QED
    BY <1>7, <2>1
<1> QED
  BY <1>2, <1>3, <1>7, <1>8, <1>9, <1>10 DEF Good

LEMMA AppendIs ==
  ASSUME NEW S, NEW q \in Seq(S), NEW e \in S
  PROVE  /\ Append(q, e) \in Seq(S) /\ Len(Append(q, e)) = Len(q) + 1 /\ Append(q, e) # <<>>
         /\ Append(q, e)[Len(q) + 1] = e /\ \A k \in 1..Len(q) : Append(q, e)[k] = q[k]
OBVIOUS

\* mptcp_skb_entail() puts the copy behind what it continues.
LEMMA EntailGood ==
  ASSUME NEW c, Good(c), NEW s \in Subflow, NEW seg \in Segment(c), InOrder(c.sub[s], seg),
         NEW combined \in BOOLEAN, NEW d, d = Entail(c, s, seg, combined)
  PROVE  Good(d) /\ Same(c, d) /\ d.reinj = c.reinj /\ \A t \in Subflow \ {s} : d.sub[t] = c.sub[t]
<1> DEFINE starts == StartsInfinite(c, seg)
           u    == c.sub[s]
           own  == Empty(seg) /\ ~combined
           copy == [seg  |-> [seg EXCEPT !.inf = @ \/ starts], seq64 |-> Seq64(c, seg),
                    from |-> seg.seq, to |-> seg.seq + Bytes(seg)]
           est  == u.est \/ starts
           v    == [u EXCEPT !.q = IF own THEN @ ELSE Append(@, copy), !.open = @ /\ ~combined,
                             !.est = est, !.last_end = IF est THEN None ELSE seg.end]
           i    == c.inf \/ starts
           f    == c.dfin \/ own
<1>1. c \in Connection(c) /\ Row(c, u)
  BY DEF Good
<1>2. /\ c.sched \in Schedulers /\ c.inf \in BOOLEAN /\ c.dfin \in BOOLEAN /\ c.high \in [0..1 -> Int]
      /\ c.sub \in [Subflow -> Sub(Copy(c))] /\ u \in Sub(Copy(c)) /\ End(c) \in Nat
  BY <1>1, FieldsAre
<1>3. /\ seg.seq \in Nat /\ seg.end \in Nat /\ seg.hi \in 0..1 /\ Bytes(seg) \in Nat /\ seg.seq < seg.end
      /\ seg.seq + Bytes(seg) = seg.end - (IF seg.fin THEN 1 ELSE 0)
      /\ seg.seq + Bytes(seg) <= End(c) /\ (seg.fin => seg.end = End(c) + 1) /\ seg.fin \in BOOLEAN
      /\ seg.end <= End(c) + 1 /\ (Bytes(seg) = 0 => seg.fin) /\ seg.inf \in BOOLEAN
  BY <1>2, SegmentIs
<1>4. starts \in BOOLEAN /\ i \in BOOLEAN /\ f \in BOOLEAN /\ est \in BOOLEAN /\ own \in BOOLEAN
  BY DEF StartsInfinite, Empty
<1>5. d = WithSub(c, i, f, s, v)
  BY <1>1, <1>2 DEF Entail, WithSub, Connection
<1>6. d.inf = i /\ d.sched = c.sched
  BY <1>1, <1>5 DEF WithSub, Connection
<1>7. /\ End(d) = End(c) /\ Segment(c) \subseteq Segment(d)
      /\ Seq(Copy(c)) \subseteq Seq(Copy(d)) /\ Sub(Copy(c)) \subseteq Sub(Copy(d))
  <2>1. c.inf => d.inf
    BY <1>6
  <2> HIDE DEF i
  <2> QED
    BY <1>6, <2>1, SetsGrow
<1>8. Seq64(c, seg) \in Int
  <2>1. c.high[seg.hi] \in Int /\ Wrap \in Nat \ {0} /\ seg.seq \in Nat
    BY <1>2, <1>3, Constants
  <2>2. \A h \in Int, w \in Nat \ {0}, n \in Nat : h * w + (n % w) \in Int
    OBVIOUS
  <2> QED
    BY <2>1, <2>2 DEF Seq64, Low
<1>9. copy \in Copy(d)
  <2> DEFINE in == [seg EXCEPT !.inf = @ \/ starts]
  <2>1. in \in Segment(d)
    BY <1>4, <1>6, <1>7 DEF Segment
  <2>2. in.seq = seg.seq /\ Bytes(in) = Bytes(seg)
    BY DEF Segment, Bytes
  <2> HIDE DEF in
  <2>3. copy = [seg |-> in, seq64 |-> Seq64(c, seg), from |-> seg.seq, to |-> seg.seq + Bytes(seg)]
    BY DEF in
  <2> QED
    BY <1>3, <1>8, <2>1, <2>2, <2>3 DEF Copy
<1>10. /\ u.q \in Seq(Copy(d)) /\ u.rx \in Nat /\ u.rx <= Len(u.q) /\ u.est \in BOOLEAN /\ u.last_end \in Nat \cup {None}
  BY <1>1, <1>2, <1>7 DEF Sub, Row
<1>11. copy.from = seg.seq /\ copy.to = seg.seq + Bytes(seg)
  OBVIOUS
<1> HIDE DEF copy
<1>12. /\ Append(u.q, copy) \in Seq(Copy(d)) /\ Len(Append(u.q, copy)) = Len(u.q) + 1
       /\ Append(u.q, copy)[Len(u.q) + 1] = copy /\ \A k \in 1..Len(u.q) : Append(u.q, copy)[k] = u.q[k]
  <2> DEFINE S == Copy(d)
             w == u.q
  <2>1. w \in Seq(S) /\ copy \in S
    BY <1>9, <1>10
  <2> HIDE DEF S, w, copy
  <2>2. /\ Append(w, copy) \in Seq(S) /\ Len(Append(w, copy)) = Len(w) + 1
        /\ Append(w, copy)[Len(w) + 1] = copy /\ \A k \in 1..Len(w) : Append(w, copy)[k] = w[k]
    BY <2>1, AppendIs
  <2> QED
    BY <2>2 DEF S, w
<1> DEFINE q == IF own THEN u.q ELSE Append(u.q, copy)
<1>13. /\ v \in Sub(Copy(d)) /\ v.q = q /\ v.rx = u.rx /\ v.est = est
       /\ v.last_end = IF est THEN None ELSE seg.end
  <2> DEFINE o == u.open /\ ~combined
             l == IF est THEN None ELSE seg.end
             S == Copy(d)
  <2>1. u \in Sub(S)
    BY <1>2, <1>7
  <2>2. q \in Seq(S)
    BY <1>4, <1>10, <1>12
  <2>3. o \in BOOLEAN
    BY <2>1 DEF Sub
  <2>4. l \in Nat \cup {None}
    BY <1>3
  <2>5. v = [u EXCEPT !.q = q, !.open = o, !.est = est, !.last_end = l]
    BY <2>1 DEF Sub
  <2> HIDE DEF q, o, l, S, v, u, est
  <2>6. v \in Sub(S) /\ v.q = q /\ v.rx = u.rx /\ v.est = est /\ v.last_end = l
    BY <1>4, <2>1, <2>2, <2>3, <2>4, <2>5 DEF Sub
  <2> QED
    BY <2>6 DEF S, l
<1> HIDE DEF v
<1>14. Row(d, v)
  <2>1. v.rx <= Len(v.q)
    BY <1>10, <1>12, <1>13
  <2>2. ASSUME ~v.est
        PROVE  /\ \A k \in 2..Len(v.q) : v.q[k].from = v.q[k - 1].to
               /\ v.q # <<>> => v.last_end # None /\ (v.q[Len(v.q)].to = v.last_end \/ v.last_end = End(d) + 1)
    <3>1. ~u.est /\ v.last_end = seg.end /\ v.last_end # None
      BY <1>3, <1>13, <2>2, Constants
    <3>2. /\ \A k \in 2..Len(u.q) : u.q[k].from = u.q[k - 1].to
          /\ u.q # <<>> => u.last_end # None /\ (u.q[Len(u.q)].to = u.last_end \/ u.last_end = End(c) + 1)
      BY <1>1, <3>1 DEF Row
    <3>3. u.q # <<>> => u.q[Len(u.q)].to = seg.seq
      BY <1>2, <1>3, <3>1, <3>2 DEF InOrder
    <3>4. seg.end = End(c) + 1 \/ seg.seq + Bytes(seg) = seg.end
      BY <1>3
    <3>5. CASE own
      BY <1>3, <1>7, <1>13, <3>1, <3>2, <3>5 DEF Empty
    <3>6. CASE ~own
      <4>1. v.q = Append(u.q, copy) /\ Len(v.q) = Len(u.q) + 1 /\ Len(u.q) \in Nat /\ v.q[Len(v.q)] = copy
        BY <1>10, <1>12, <1>13, <3>6
      <4>2. ASSUME NEW k \in 2..Len(v.q) PROVE v.q[k].from = v.q[k - 1].to
        <5>1. CASE k = Len(v.q)
          <6>1. k - 1 = Len(u.q) /\ Len(u.q) \in 1..Len(u.q) /\ u.q # <<>>
            BY <4>1, <4>2, <5>1
          <6> QED
            BY <1>11, <1>12, <3>3, <4>1, <5>1, <6>1
        <5>2. CASE k # Len(v.q)
          <6>1. k \in 1..Len(u.q) /\ k - 1 \in 1..Len(u.q) /\ k \in 2..Len(u.q)
            BY <4>1, <4>2, <5>2
          <6> QED
            BY <1>12, <3>2, <4>1, <6>1
        <5> QED
          BY <5>1, <5>2
      <4> QED
        BY <1>7, <1>11, <3>1, <3>4, <4>1, <4>2
    <3> QED
      BY <3>5, <3>6
  <2> QED
    BY <2>1, <2>2 DEF Row
<1>15. c.inf => i
  OBVIOUS
<1> HIDE DEF i, f
<1> QED
  BY <1>4, <1>5, <1>13, <1>14, <1>15, SubChanged

\* All states of a connection with one scheduler.
Universe(c) == Connection([sched |-> c.sched, inf |-> TRUE])

LEMMA InUniverse ==
  ASSUME NEW c, NEW d, d \in Connection(d), d.sched = c.sched
  PROVE  d \in Universe(c)
<1> DEFINE w == [sched |-> c.sched, inf |-> TRUE]
<1>1. w.sched = d.sched /\ (d.inf => w.inf)
  OBVIOUS
<1> HIDE DEF w
<1>2. /\ End(w) = End(d) /\ Seq(Segment(d)) \subseteq Seq(Segment(w)) /\ Sub(Copy(d)) \subseteq Sub(Copy(w))
  BY <1>1, SetsGrow
<1> DEFINE S == Segment(d)
           K == Copy(d)
           T == Segment(w)
           L == Copy(w)
<1>3. Seq(S) \subseteq Seq(T) /\ Sub(K) \subseteq Sub(L)
  BY <1>2
<1>4. d \in [sched : Schedulers, wq : Seq(S), head : Nat, reinj : Seq(S),
             written : Isn..End(d) + 1, una : Isn..End(d) + 1, nxt : Isn..End(d) + 1, wnd_end : Nat,
             packets_out : Int, loss : BOOLEAN, send_inf : BOOLEAN, inf : BOOLEAN, dfin : BOOLEAN,
             index : 0..1, high : [0..1 -> Int], timeouts : 0..MaxTimeouts,
             faults : SUBSET {"close", "mpfail", "nomem", "split", "discard", "inside"},
             last : [Subflow -> [seq : Nat, end : Nat]], sub : [Subflow -> Sub(K)]]
  BY DEF Connection, Sub
<1> HIDE DEF S, K, T, L
<1>5. d \in [sched : Schedulers, wq : Seq(T), head : Nat, reinj : Seq(T),
             written : Isn..End(w) + 1, una : Isn..End(w) + 1, nxt : Isn..End(w) + 1, wnd_end : Nat,
             packets_out : Int, loss : BOOLEAN, send_inf : BOOLEAN, inf : BOOLEAN, dfin : BOOLEAN,
             index : 0..1, high : [0..1 -> Int], timeouts : 0..MaxTimeouts,
             faults : SUBSET {"close", "mpfail", "nomem", "split", "discard", "inside"},
             last : [Subflow -> [seq : Nat, end : Nat]], sub : [Subflow -> Sub(L)]]
  <2>1. \A g : g \in [Subflow -> Sub(K)] => g \in [Subflow -> Sub(L)]
    BY <1>3
  <2> QED
    BY <1>2, <1>3, <1>4, <2>1
<1> QED
  BY <1>5 DEF Universe, Connection, Sub, T, L, w

LEMMA CombinesIs ==
  ASSUME NEW c, NEW seg
  PROVE  Combines(c, seg) \in SUBSET BOOLEAN
BY DEF Combines

LEMMA SameFollows ==
  ASSUME NEW c, NEW d, NEW e, Same(c, d), Same(d, e)
  PROVE  Same(c, e)
BY DEF Same

\* Copies of one segment are put on several subflows, one after the other.
LEMMA EntailAllGood ==
  ASSUME NEW c, Good(c), NEW R \in SUBSET Subflow, NEW seg \in Segment(c),
         \A s \in R : InOrder(c.sub[s], seg), NEW d \in EntailAll(c, R, seg)
  PROVE  Good(d) /\ Same(c, d) /\ d.reinj = c.reinj
<1> DEFINE n == Cardinality(Subflow)
           start == {c}
           U == Universe(c)
           A == SUBSET U
           Own(s) == [seg EXCEPT !.mask = @ \cup {t \in R : t < s}]
           Turn(cs, s) == IF s \in R
                          THEN UNION {{Entail(e, s, Own(s), f) : f \in Combines(e, seg)} : e \in cs}
                          ELSE cs
           Q(m) == {e \in U : /\ Good(e) /\ Same(c, e) /\ e.reinj = c.reinj
                              /\ \A t \in Subflow \ m : e.sub[t] = c.sub[t]}
           G == [k \in 1..n |-> [x \in A |-> Turn(x, k)]]
           B == {Turn(x, k) : x \in A, k \in 1..n}
           P == [m \in SUBSET (1..n) |-> SUBSET Q(m)]
           Folds(it) == it = [m \in SUBSET (1..n) |->
                               IF m = {} THEN start ELSE Turn(it[m \ {Max(m)}], UpTo(n)[Max(m)])]
           it == CHOOSE x : Folds(x)
<1>1. n \in Nat /\ Subflow = 1..n
  BY Constants
<1>2. EntailAll(c, R, seg) = it[1..n]
  <2>1. DOMAIN UpTo(n) = 1..n
    BY DEF UpTo
  <2> QED
    BY <1>1, <2>1 DEF EntailAll, FoldLeft, MapThenFoldSet
<1>3. \A k \in 1..n : UpTo(n)[k] = k
  BY DEF UpTo
<1>4. ASSUME NEW m \in SUBSET (1..n), m # {}, NEW x \in SUBSET Q(m \ {Max(m)})
      PROVE  Turn(x, Max(m)) \in SUBSET Q(m)
  <2> DEFINE s == Max(m)
  <2>1. s \in m /\ s \in Subflow
    BY <1>1, <1>4, GreatestNumber
  <2> HIDE DEF s
  <2>2. CASE s \notin R
    <3>1. Q(m \ {s}) \subseteq Q(m)
      OBVIOUS
    <3> QED
      BY <2>2, <3>1 DEF s
  <2>3. CASE s \in R
    <3>1. ASSUME NEW e \in x, NEW f \in Combines(e, seg)
          PROVE  Entail(e, s, Own(s), f) \in Q(m)
      <4>1. /\ Good(e) /\ Same(c, e) /\ e.reinj = c.reinj
            /\ \A t \in Subflow \ (m \ {s}) : e.sub[t] = c.sub[t]
        BY DEF s
      <4>2. e.sub[s] = c.sub[s]
        BY <2>1, <4>1
      <4>3. f \in BOOLEAN
        BY CombinesIs
      <4>4. seg \in Segment(e)
        <5>1. e.sched = c.sched /\ (c.inf => e.inf)
          BY <4>1 DEF Same
        <5> QED
          BY <5>1, SetsGrow
      <4>5. Own(s) \in Segment(e) /\ Own(s).seq = seg.seq
        BY <4>4 DEF Segment
      <4>6. InOrder(e.sub[s], Own(s))
        BY <2>3, <4>2, <4>5 DEF InOrder
      <4> DEFINE g == Entail(e, s, Own(s), f)
      <4> HIDE DEF Own
      <4>7. Good(g) /\ Same(e, g) /\ g.reinj = e.reinj /\ \A t \in Subflow \ {s} : g.sub[t] = e.sub[t]
        BY <2>1, <4>1, <4>3, <4>5, <4>6, EntailGood
      <4> HIDE DEF g
      <4>8. Same(c, g)
        BY <4>1, <4>7, SameFollows
      <4>9. \A t \in Subflow \ m : g.sub[t] = c.sub[t]
        BY <2>1, <4>1, <4>7
      <4>10. g \in U
        BY <4>7, <4>8, InUniverse DEF Good, Same
      <4> QED
        BY <4>1, <4>7, <4>8, <4>9, <4>10 DEF g
    <3>2. Turn(x, s) = UNION {{Entail(e, s, Own(s), f) : f \in Combines(e, seg)} : e \in x}
      BY <2>3
    <3> HIDE DEF Q, Own
    <3>3. \A g \in Turn(x, s) : g \in Q(m)
      BY <3>1, <3>2
    <3> HIDE DEF Turn
    <3> QED
      BY <3>3 DEF s
  <2> QED
    BY <2>2, <2>3
<1>5. c \in Q({})
  <2>1. c \in U
    BY InUniverse DEF Good
  <2> QED
    BY <2>1 DEF Same
<1>6. \A m \in SUBSET (1..n) : P[m] = SUBSET Q(m) /\ Q(m) \subseteq U
  OBVIOUS
<1> HIDE DEF U, Q, Turn
<1>7. G \in [1..n -> [A -> B]]
  OBVIOUS
<1>8. P \in [SUBSET (1..n) -> SUBSET A] /\ start \in P[{}]
  BY <1>5, <1>6
<1>9. \A k \in 1..n : \A x \in A : G[k][x] = Turn(x, k)
  OBVIOUS
<1> HIDE DEF B, G, P, A, n, start, Own
<1>10. \A m \in SUBSET (1..n) : m # {} => \A x \in P[m \ {Max(m)}] : G[Max(m)][x] \in P[m]
  <2> SUFFICES ASSUME NEW m \in SUBSET (1..n), m # {}, NEW x \in P[m \ {Max(m)}] PROVE G[Max(m)][x] \in P[m]
    OBVIOUS
  <2>1. Max(m) \in 1..n /\ m \ {Max(m)} \in SUBSET (1..n)
    BY <1>1, GreatestNumber
  <2>2. x \in SUBSET Q(m \ {Max(m)}) /\ x \in A
    BY <1>6, <1>8, <2>1
  <2>3. G[Max(m)][x] = Turn(x, Max(m))
    BY <1>9, <2>1, <2>2
  <2> QED
    BY <1>4, <1>6, <2>2, <2>3
<1>18. FoldSteps(n, A, B, start, G, P)
  BY <1>1, <1>7, <1>8, <1>10 DEF FoldSteps
<1>19. PICK w : FoldKept(w, n, A, start, G, P)
  BY <1>18, FoldKeeps
<1>11. /\ w \in [SUBSET (1..n) -> A]
       /\ \A m \in SUBSET (1..n) :
            w[m] \in P[m] /\ w[m] = IF m = {} THEN start ELSE G[Max(m)][w[m \ {Max(m)}]]
  BY <1>19 DEF FoldKept
<1>12. Folds(w)
  <2>1. ASSUME NEW m \in SUBSET (1..n), m # {}
        PROVE  w[m] = Turn(w[m \ {Max(m)}], UpTo(n)[Max(m)])
    <3>1. Max(m) \in 1..n
      BY <1>1, <2>1, GreatestNumber
    <3>2. w[m \ {Max(m)}] \in A
      BY <1>11
    <3> QED
      BY <1>3, <1>9, <1>11, <2>1, <3>1, <3>2
  <2>2. w[{}] = start /\ DOMAIN w = SUBSET (1..n) /\ w = [m \in SUBSET (1..n) |-> w[m]]
    BY <1>11
  <2> QED
    BY <2>1, <2>2
<1>13. Folds(it)
  <2> HIDE DEF Folds
  <2> QED
    BY <1>12
<1> HIDE DEF it
<1>14. it[{}] = start
  BY <1>13
<1>15. ASSUME NEW m \in SUBSET (1..n), m # {}, it[m \ {Max(m)}] \in A
       PROVE  it[m] = G[Max(m)][it[m \ {Max(m)}]]
  <2>1. Max(m) \in 1..n
    BY <1>1, <1>15, GreatestNumber
  <2>2. it[m] = Turn(it[m \ {Max(m)}], Max(m))
    BY <1>3, <1>13, <1>15, <2>1
  <2> QED
    BY <1>9, <1>15, <2>1, <2>2
<1>16. it[1..n] \in P[1..n]
  <2>1. FoldRuns(it, n, A, start, G)
    BY <1>14, <1>15 DEF FoldRuns
  <2> QED
    BY <1>18, <2>1, FoldWithin
<1>17. d \in Q(1..n)
  <2> HIDE DEF Folds
  <2>1. 1..n \in SUBSET (1..n)
    OBVIOUS
  <2>2. P[1..n] = SUBSET Q(1..n)
    BY <1>6, <2>1
  <2>3. it[1..n] \in SUBSET Q(1..n)
    BY <1>16, <2>2
  <2>4. d \in it[1..n]
    BY <1>2
  <2> QED
    BY <2>3, <2>4
<1> QED
  BY <1>17 DEF Q

(***************************************************************************)
(* What changes the queues of the meta socket                              *)
(***************************************************************************)

\* All but the scheduler, the subflows and the fall back.
Requeued(c, d) ==
  IsRecord(d) /\ d.sched = c.sched /\ d.inf = c.inf /\ d.dfin = c.dfin /\ d.sub = c.sub

\* What a change of the queues leaves alone.
Still(c, d) == d.sched = c.sched /\ d.inf = c.inf /\ d.dfin = c.dfin /\ d.sub = c.sub

\* A call as seen from outside.
Follows(c, d) == Good(d) /\ d.sched = c.sched /\ d.una = c.una /\ (c.inf => d.inf)

LEMMA RequeuedGood ==
  ASSUME NEW c, Good(c), NEW d, Requeued(c, d),
         d.wq \in Seq(Segment(c)), d.head \in Nat, d.reinj \in Seq(Segment(c)),
         d.written \in Isn..End(c) + 1, d.una \in Isn..End(c) + 1, d.nxt \in Isn..End(c) + 1,
         d.wnd_end \in Nat, d.packets_out \in Int, d.loss \in BOOLEAN, d.send_inf \in BOOLEAN,
         d.index \in 0..1, d.high \in [0..1 -> Int], d.timeouts \in 0..MaxTimeouts,
         d.faults \in SUBSET {"close", "mpfail", "nomem", "split", "discard", "inside"},
         d.last \in [Subflow -> [seq : Nat, end : Nat]],
         Seamless(d), Aligned(d)
  PROVE  Good(d) /\ Still(c, d)
<1>1. c \in Connection(c)
  BY DEF Good
<1>2. d.sched = c.sched /\ d.inf = c.inf /\ d.dfin = c.dfin /\ d.sub = c.sub
  BY DEF Requeued
<1>3. End(d) = End(c) /\ Segment(d) = Segment(c) /\ Copy(d) = Copy(c)
  BY <1>2 DEF End, Segment, Copy
<1>4. d \in Connection(d)
  <2> DEFINE S == Segment(c)
             K == Copy(c)
  <2>1. c.sub \in [Subflow -> Sub(K)] /\ c.sched \in Schedulers /\ c.inf \in BOOLEAN /\ c.dfin \in BOOLEAN
    BY <1>1, FieldsAre
  <2>2. d.wq \in Seq(S) /\ d.reinj \in Seq(S) /\ S = Segment(d) /\ K = Copy(d)
    BY <1>3
  <2> HIDE DEF S, K
  <2> QED
    BY <1>2, <1>3, <2>1, <2>2, RecordIsConnection DEF Requeued
<1>5. \A s \in Subflow : Row(d, d.sub[s])
  BY <1>2, <1>3 DEF Good, Row
<1> QED
  BY <1>2, <1>4, <1>5 DEF Good, Still

\* The reinject queue is of no account to the write queue.
WithReinj(c, q) == [c EXCEPT !.reinj = q]

LEMMA ReinjChanged ==
  ASSUME NEW c, Good(c), NEW q \in Seq(Segment(c)), NEW d, d = WithReinj(c, q)
  PROVE  Good(d) /\ Still(c, d) /\ Same(c, d) /\ d.reinj = q
<1>1. c \in Connection(c)
  BY DEF Good
<1>2. Requeued(c, d) /\ Same(c, d) /\ d.reinj = q
      /\ d.wnd_end = c.wnd_end /\ d.loss = c.loss /\ d.send_inf = c.send_inf /\ d.index = c.index
      /\ d.high = c.high /\ d.timeouts = c.timeouts /\ d.last = c.last
  BY <1>1, ConnectionIsRecord DEF Requeued, Same, IsRecord, Fields, WithReinj
<1>3. Seamless(d) /\ Aligned(d)
  BY <1>2, QueueKept DEF Good
<1>4. /\ d.wq \in Seq(Segment(c)) /\ d.head \in Nat /\ d.reinj \in Seq(Segment(c))
      /\ d.written \in Isn..End(c) + 1 /\ d.una \in Isn..End(c) + 1 /\ d.nxt \in Isn..End(c) + 1
      /\ d.wnd_end \in Nat /\ d.packets_out \in Int /\ d.loss \in BOOLEAN /\ d.send_inf \in BOOLEAN
      /\ d.index \in 0..1 /\ d.high \in [0..1 -> Int] /\ d.timeouts \in 0..MaxTimeouts
      /\ d.faults \in SUBSET {"close", "mpfail", "nomem", "split", "discard", "inside"}
      /\ d.last \in [Subflow -> [seq : Nat, end : Nat]]
  BY <1>1, <1>2, FieldsAre DEF Same
<1> QED
  BY <1>2, <1>3, <1>4, RequeuedGood

\* Marks that nothing here depends on.
Marks(c, d) ==
  /\ d = [c EXCEPT !.loss = d.loss, !.wnd_end = d.wnd_end, !.timeouts = d.timeouts,
                   !.faults = d.faults, !.last = d.last]
  /\ d.loss \in BOOLEAN /\ d.wnd_end \in Nat /\ d.timeouts \in 0..MaxTimeouts
  /\ d.faults \in SUBSET {"close", "mpfail", "nomem", "split", "discard", "inside"}
  /\ "inside" \in d.faults <=> "inside" \in c.faults
  /\ d.last \in [Subflow -> [seq : Nat, end : Nat]]

LEMMA MarksChanged ==
  ASSUME NEW c, Good(c), NEW d, Marks(c, d)
  PROVE  /\ Good(d) /\ Still(c, d) /\ d.reinj = c.reinj /\ d.wq = c.wq /\ d.head = c.head
         /\ d.una = c.una /\ d.nxt = c.nxt /\ d.written = c.written /\ d.packets_out = c.packets_out
<1>1. c \in Connection(c)
  BY DEF Good
<1>2. /\ Requeued(c, d)
      /\ d.sched = c.sched /\ d.wq = c.wq /\ d.head = c.head /\ d.reinj = c.reinj /\ d.written = c.written
      /\ d.una = c.una /\ d.nxt = c.nxt /\ d.packets_out = c.packets_out
      /\ d.send_inf = c.send_inf /\ d.index = c.index /\ d.high = c.high
  <2>1. d = [c EXCEPT !.loss = d.loss, !.wnd_end = d.wnd_end, !.timeouts = d.timeouts,
                      !.faults = d.faults, !.last = d.last]
    BY DEF Marks
  <2> QED
    BY <1>1, <2>1, ConnectionIsRecord DEF Requeued, IsRecord, Fields
<1>3. Seamless(d) /\ Aligned(d)
  BY <1>2 DEF Good, Seamless, Aligned, Marks
<1> QED
  BY <1>1, <1>2, <1>3, FieldsAre, RequeuedGood DEF Marks

\* A segment of the write queue changes its marks.
WithSegment(c, i, seg) == [c EXCEPT !.wq = [c.wq EXCEPT ![i] = seg]]

LEMMA SegmentChanged ==
  ASSUME NEW c, Good(c), NEW i \in 1..Len(c.wq), NEW seg \in Segment(c),
         seg.seq = c.wq[i].seq, seg.end = c.wq[i].end, seg.inf = c.wq[i].inf,
         NEW d, d = WithSegment(c, i, seg)
  PROVE  /\ Good(d) /\ Still(c, d) /\ d.reinj = c.reinj /\ d.head = c.head
         /\ d.una = c.una /\ d.nxt = c.nxt /\ d.faults = c.faults
         /\ Len(d.wq) = Len(c.wq) /\ d.wq[i] = seg
<1>1. c \in Connection(c)
  BY DEF Good
<1>2. c.wq \in Seq(Segment(c)) /\ Len(c.wq) \in Nat /\ c.head \in Nat
  BY <1>1, FieldsAre
<1>3. /\ d.sched = c.sched /\ d.head = c.head /\ d.reinj = c.reinj /\ d.written = c.written
      /\ d.una = c.una /\ d.nxt = c.nxt /\ d.packets_out = c.packets_out /\ d.faults = c.faults
      /\ d.send_inf = c.send_inf /\ d.index = c.index /\ d.high = c.high /\ d.loss = c.loss
      /\ d.wnd_end = c.wnd_end /\ d.timeouts = c.timeouts /\ d.last = c.last
      /\ d.wq = [c.wq EXCEPT ![i] = seg]
  BY <1>1, ConnectionIsRecord DEF IsRecord, Fields, WithSegment
<1>4. Requeued(c, d)
  BY <1>1, ConnectionIsRecord DEF Requeued, IsRecord, Fields, WithSegment
<1>5. /\ d.wq \in Seq(Segment(c)) /\ Len(d.wq) = Len(c.wq) /\ d.wq[i] = seg
      /\ \A k \in 1..Len(c.wq) :
           d.wq[k].seq = c.wq[k].seq /\ d.wq[k].end = c.wq[k].end /\ d.wq[k].inf = c.wq[k].inf
  BY <1>2, <1>3
<1>6. Seamless(d)
  BY <1>2, <1>3, <1>5 DEF Good, Seamless
<1>7. Aligned(d)
  BY <1>2, <1>3, <1>5 DEF Good, Seamless, Aligned
<1> QED
  BY <1>1, <1>3, <1>4, <1>5, <1>6, <1>7, FieldsAre, RequeuedGood

\* An element of a sequence becomes two.
LEMMA ReplacedIs ==
  ASSUME NEW S, NEW q \in Seq(S), NEW i \in 1..Len(q), NEW a \in S, NEW b \in S
  PROVE  /\ Replaced(q, i, <<a, b>>) \in Seq(S)
         /\ Len(Replaced(q, i, <<a, b>>)) = Len(q) + 1
         /\ \A k \in 1..Len(q) + 1 :
              Replaced(q, i, <<a, b>>)[k] =
                IF k < i THEN q[k] ELSE IF k = i THEN a ELSE IF k = i + 1 THEN b ELSE q[k - 1]
<1> DEFINE x == SubSeq(q, 1, i - 1)
           y == SubSeq(q, i + 1, Len(q))
           m == <<a, b>>
           z == x \o m
           r == z \o y
<1>0. Len(q) \in Nat /\ i \in Int /\ 1 <= i /\ i <= Len(q)
  OBVIOUS
<1>1. x \in Seq(S) /\ Len(x) = i - 1 /\ \A k \in 1..i - 1 : x[k] = q[k]
  <2>1. 1 \in 1..Len(q) + 1 /\ i - 1 \in Int /\ 1 - 1 <= i - 1 /\ i - 1 <= Len(q) /\ (i - 1) - 1 + 1 = i - 1
    BY <1>0
  <2>2. x \in Seq(S) /\ Len(x) = (i - 1) - 1 + 1 /\ \A k \in 1..(i - 1) - 1 + 1 : x[k] = q[1 + k - 1]
    BY <2>1, PartIs
  <2>3. \A k \in 1..i - 1 : 1 + k - 1 = k
    BY <1>0
  <2> HIDE DEF x
  <2> QED
    BY <2>1, <2>2, <2>3
<1>2. y \in Seq(S) /\ Len(y) = Len(q) - i /\ \A k \in 1..Len(q) - i : y[k] = q[i + k]
  <2>1. i + 1 \in 1..Len(q) + 1 /\ Len(q) \in Int /\ (i + 1) - 1 <= Len(q) /\ Len(q) <= Len(q)
        /\ Len(q) - (i + 1) + 1 = Len(q) - i
    BY <1>0
  <2>2. /\ y \in Seq(S) /\ Len(y) = Len(q) - (i + 1) + 1
        /\ \A k \in 1..Len(q) - (i + 1) + 1 : y[k] = q[i + 1 + k - 1]
    BY <2>1, PartIs
  <2>3. \A k \in 1..Len(q) - i : i + 1 + k - 1 = i + k
    BY <1>0
  <2> HIDE DEF y
  <2> QED
    BY <2>1, <2>2, <2>3
<1>3. m \in Seq(S) /\ Len(m) = 2 /\ m[1] = a /\ m[2] = b
  OBVIOUS
<1>4. Replaced(q, i, <<a, b>>) = r
  BY DEF Replaced
<1> HIDE DEF x, y, m
<1>5. /\ z \in Seq(S) /\ Len(z) = Len(x) + Len(m)
      /\ \A k \in 1..Len(x) + Len(m) : z[k] = IF k <= Len(x) THEN x[k] ELSE m[k - Len(x)]
  BY <1>1, <1>3, ConcatProperties
<1> HIDE DEF z
<1>6. z \in Seq(S) /\ Len(z) = i + 1 /\ \A k \in 1..i + 1 : z[k] = IF k < i THEN q[k] ELSE IF k = i THEN a ELSE b
  BY <1>0, <1>1, <1>3, <1>5
<1>7. /\ r \in Seq(S) /\ Len(r) = Len(z) + Len(y)
      /\ \A k \in 1..Len(z) + Len(y) : r[k] = IF k <= Len(z) THEN z[k] ELSE y[k - Len(z)]
  BY <1>2, <1>6, ConcatProperties
<1> HIDE DEF r
<1>8. Len(z) + Len(y) = Len(q) + 1 /\ Len(z) = i + 1
  BY <1>0, <1>2, <1>6
<1>9. ASSUME NEW k \in 1..Len(q) + 1
      PROVE  r[k] = IF k < i THEN q[k] ELSE IF k = i THEN a ELSE IF k = i + 1 THEN b ELSE q[k - 1]
  <2>0. k \in Int /\ 1 <= k
    BY <1>0
  <2>1. CASE k <= i + 1
    <3>1. k \in 1..i + 1 /\ r[k] = z[k]
      BY <1>0, <1>7, <1>8, <2>0, <2>1
    <3> QED
      BY <1>0, <1>6, <2>0, <2>1, <3>1
  <2>2. CASE ~(k <= i + 1)
    <3>1. k - (i + 1) \in 1..Len(q) - i /\ i + (k - (i + 1)) = k - 1 /\ ~(k < i) /\ k # i /\ k # i + 1
      BY <1>0, <2>0, <2>2
    <3>2. r[k] = y[k - (i + 1)]
      BY <1>7, <1>8, <2>2
    <3>3. y[k - (i + 1)] = q[i + (k - (i + 1))]
      BY <1>2, <3>1
    <3> QED
      BY <3>1, <3>2, <3>3
  <2> QED
    BY <2>1, <2>2
<1> QED
  BY <1>4, <1>7, <1>8, <1>9

\* The segments of the write queue follow each other.
LEMMA Ordered ==
  ASSUME NEW c, Good(c), NEW i \in 1..Len(c.wq), NEW j \in 1..Len(c.wq), i < j
  PROVE  c.wq[i].end <= c.wq[j].seq
<1> DEFINE T == {n \in Nat : n \in 1..Len(c.wq) /\ i < n /\ ~(c.wq[i].end <= c.wq[n].seq)}
<1>1. c.wq \in Seq(Segment(c)) /\ c.sched \in Schedulers /\ Len(c.wq) \in Nat
  BY FieldsAre DEF Good
<1>2. \A n \in 1..Len(c.wq) : c.wq[n].seq \in Nat /\ c.wq[n].end \in Nat /\ c.wq[n].seq < c.wq[n].end
  BY <1>1, SegmentIs
<1>3. \A n \in 2..Len(c.wq) : c.wq[n].seq = c.wq[n - 1].end
  BY DEF Good, Seamless
<1> SUFFICES ASSUME T # {} PROVE FALSE
  BY <1>1
<1>4. PICK n \in T : \A m \in T : n <= m
  <2> HIDE DEF T
  <2>1. T \in SUBSET Nat
    BY DEF T
  <2> QED
    BY <2>1, LeastNumber
<1>5. n - 1 \in 1..Len(c.wq) /\ n \in 2..Len(c.wq) /\ n \in Nat /\ i <= n - 1
  BY <1>1
<1>6. CASE n - 1 = i
  BY <1>2, <1>3, <1>5, <1>6
<1>7. CASE n - 1 # i
  <2> HIDE DEF T
  <2>1. n - 1 \notin T
    BY <1>4, <1>5
  <2>2. c.wq[i].end <= c.wq[n - 1].seq
    BY <1>5, <1>7, <2>1 DEF T
  <2>3. c.wq[i].end <= c.wq[n].seq
    <3>1. c.wq[n].seq = c.wq[n - 1].end /\ c.wq[n - 1].seq < c.wq[n - 1].end
          /\ c.wq[n - 1].seq \in Nat /\ c.wq[n - 1].end \in Nat /\ c.wq[i].end \in Nat
      BY <1>2, <1>3, <1>5
    <3> QED
      BY <2>2, <3>1
  <2> QED
    BY <2>3 DEF T
<1> QED
  BY <1>6, <1>7

\* mptcp_fragment() leaves two segments that follow each other.
LEMMA PartsAre ==
  ASSUME NEW c, c.sched \in Schedulers, NEW seg \in Segment(c), NEW len \in Lengths(seg), len # Bytes(seg),
         NEW sent \in BOOLEAN, NEW a, a = Parts(seg, len, sent)[1], NEW b, b = Parts(seg, len, sent)[2]
  PROVE  /\ Parts(seg, len, sent) = <<a, b>> /\ a \in Segment(c) /\ b \in Segment(c)
         /\ a.seq = seg.seq /\ a.end = b.seq /\ b.end = seg.end /\ a.inf = seg.inf /\ b.inf = seg.inf
<1>1. /\ seg.seq \in Nat /\ seg.end \in Nat /\ Isn <= seg.seq /\ seg.seq < seg.end /\ seg.fin \in BOOLEAN
      /\ Bytes(seg) \in Nat /\ seg.seq + Bytes(seg) = seg.end - (IF seg.fin THEN 1 ELSE 0)
      /\ seg.seq + Bytes(seg) <= End(c) /\ End(c) \in Nat
  BY SegmentIs, EndIs
<1>2. len \in 1..Bytes(seg) /\ len < Bytes(seg)
  BY <1>1 DEF Lengths, Empty
<1> DEFINE cut == seg.cut \/ (sent /\ (seg.seq + len) \div Wrap # seg.seq \div Wrap)
           x == [seg EXCEPT !.end = seg.seq + len, !.fin = FALSE]
           y == [seg EXCEPT !.seq = seg.seq + len, !.cut = cut]
<1>3. Parts(seg, len, sent) = <<x, y>>
  <2>1. seg \in [seq : Nat, end : Nat, fin : BOOLEAN, mask : SUBSET Subflow, hi : 0..1,
            rj : BOOLEAN, inf : BOOLEAN, cut : BOOLEAN]
    BY DEF Segment
  <2> QED
    BY <2>1 DEF Parts
<1>4. cut \in BOOLEAN
  BY DEF Segment
<1> HIDE DEF cut
<1>5. seg.seq + len \in Nat /\ seg.seq < seg.seq + len /\ seg.seq + len <= End(c) /\ seg.seq + len < seg.end
  BY <1>1, <1>2
<1>6. x \in Segment(c) /\ x.seq = seg.seq /\ x.end = seg.seq + len /\ x.inf = seg.inf
  BY <1>1, <1>5 DEF Segment
<1>7. y \in Segment(c) /\ y.seq = seg.seq + len /\ y.end = seg.end /\ y.inf = seg.inf
  <2> DEFINE n == seg.seq + len
  <2>1. n \in Nat /\ Isn <= n /\ n < seg.end
    BY <1>1, <1>5, Constants
  <2> HIDE DEF n
  <2>2. [seg EXCEPT !.seq = n, !.cut = cut] \in Segment(c)
    BY <1>4, <2>1 DEF Segment
  <2>3. seg \in [seq : Nat, end : Nat, fin : BOOLEAN, mask : SUBSET Subflow, hi : 0..1,
                 rj : BOOLEAN, inf : BOOLEAN, cut : BOOLEAN]
    BY DEF Segment
  <2>4. y = [seg EXCEPT !.seq = n, !.cut = cut]
    BY DEF n
  <2> HIDE DEF y
  <2>5. y.seq = n /\ y.end = seg.end /\ y.inf = seg.inf
    BY <2>3, <2>4
  <2> QED
    BY <2>2, <2>4, <2>5 DEF n
<1> HIDE DEF x, y
<1>8. a = x /\ b = y
  BY <1>3
<1> QED
  BY <1>3, <1>6, <1>7, <1>8

\* What of the connection a call that sends keeps.
Sends(c, d) == Good(d) /\ Still(c, d) /\ d.reinj = c.reinj /\ d.una = c.una /\ d.faults = c.faults

\* Cutting a segment leaves the queue without a gap, and counts the new one if it is sent.
LEMMA FragmentedGood ==
  ASSUME NEW c, Good(c), NEW i \in 1..Len(c.wq), NEW len \in Lengths(c.wq[i]),
         NEW d, d = Fragmented(c, i, len)
  PROVE  /\ Sends(c, d) /\ i \in 1..Len(d.wq) /\ d.wq[i].seq = c.wq[i].seq
         /\ i > c.head => d.head = c.head
<1> DEFINE seg == c.wq[i]
<1>1. c \in Connection(c) /\ Seamless(c) /\ Aligned(c)
  BY DEF Good
<1>2. /\ c.wq \in Seq(Segment(c)) /\ Len(c.wq) \in Nat /\ c.head \in Nat /\ c.head <= Len(c.wq)
      /\ c.sched \in Schedulers /\ seg \in Segment(c) /\ c.packets_out \in Int /\ c.wq # <<>>
      /\ c.una \in Nat /\ c.nxt \in Nat
  BY <1>1, FieldsAre, Constants DEF Seamless
<1>3. CASE len = Bytes(seg)
  <2>1. d = c
    BY <1>3 DEF Fragmented
  <2> QED
    BY <2>1 DEF Sends, Still
<1>4. CASE len # Bytes(seg)
  <2> DEFINE sent == i <= c.head
             a == Parts(seg, len, sent)[1]
             b == Parts(seg, len, sent)[2]
  <2>1. /\ Parts(seg, len, sent) = <<a, b>> /\ a \in Segment(c) /\ b \in Segment(c)
        /\ a.seq = seg.seq /\ a.end = b.seq /\ b.end = seg.end /\ a.inf = seg.inf /\ b.inf = seg.inf
    <3>1. sent \in BOOLEAN
      OBVIOUS
    <3>2. seg \in Segment(c) /\ len \in Lengths(seg) /\ len # Bytes(seg) /\ c.sched \in Schedulers
      BY <1>2, <1>4
    <3> HIDE DEF sent, seg
    <3> QED
      BY <3>1, <3>2, PartsAre
  <2> HIDE DEF a, b
  <2> DEFINE q == Replaced(c.wq, i, <<a, b>>)
             h == c.head + (IF i <= c.head THEN 1 ELSE 0)
             p == c.packets_out + (IF c.nxt >= seg.end THEN 1 ELSE 0)
  <2>2. /\ q \in Seq(Segment(c)) /\ Len(q) = Len(c.wq) + 1
        /\ \A k \in 1..Len(c.wq) + 1 :
             q[k] = IF k < i THEN c.wq[k] ELSE IF k = i THEN a ELSE IF k = i + 1 THEN b ELSE c.wq[k - 1]
    <3> DEFINE S == Segment(c)
               w == c.wq
    <3>1. w \in Seq(S) /\ a \in S /\ b \in S /\ i \in 1..Len(w)
      BY <1>2, <2>1
    <3> HIDE DEF S, w
    <3>2. /\ Replaced(w, i, <<a, b>>) \in Seq(S)
          /\ Len(Replaced(w, i, <<a, b>>)) = Len(w) + 1
          /\ \A k \in 1..Len(w) + 1 :
               Replaced(w, i, <<a, b>>)[k] =
                 IF k < i THEN w[k] ELSE IF k = i THEN a ELSE IF k = i + 1 THEN b ELSE w[k - 1]
      BY <3>1, ReplacedIs
    <3> QED
      BY <3>2 DEF S, w
  <2>3. d = [c EXCEPT !.wq = q, !.head = h, !.packets_out = p]
    BY <1>1, <1>4, <2>1 DEF Fragmented, Connection
  <2> HIDE DEF q
  <2>4. h \in Nat /\ p \in Int /\ h <= Len(q)
    <3>1. h \in Nat /\ p \in Int
      BY <1>2
    <3> QED
      BY <1>2, <2>2
  <2> HIDE DEF h, p
  <2>5. /\ d.wq = q /\ d.head = h /\ d.packets_out = p
        /\ d.sched = c.sched /\ d.reinj = c.reinj /\ d.written = c.written /\ d.inf = c.inf
        /\ d.una = c.una /\ d.nxt = c.nxt /\ d.faults = c.faults
        /\ d.send_inf = c.send_inf /\ d.index = c.index /\ d.high = c.high /\ d.loss = c.loss
        /\ d.wnd_end = c.wnd_end /\ d.timeouts = c.timeouts /\ d.last = c.last
        /\ Requeued(c, d)
    BY <1>1, <2>3, ConnectionIsRecord DEF Requeued, IsRecord, Fields
  <2>6. \A k \in 1..Len(c.wq) : c.wq[k].seq \in Nat /\ c.wq[k].end \in Nat /\ c.wq[k].seq < c.wq[k].end
    BY <1>2, SegmentIs
  <2>7. q[i] = a /\ q[i + 1] = b /\ i \in 1..Len(q) /\ i + 1 \in 1..Len(q)
    <3>1. i \in 1..Len(c.wq) + 1 /\ i + 1 \in 1..Len(c.wq) + 1 /\ ~(i < i) /\ ~(i + 1 < i) /\ i + 1 # i
      BY <1>2
    <3> QED
      BY <2>2, <3>1
  <2>8. /\ q # <<>> /\ q[1].seq = c.wq[1].seq /\ q[Len(q)].end = c.wq[Len(c.wq)].end
    <3>1. q[1].seq = c.wq[1].seq
      <4>1. CASE i = 1
        BY <2>1, <2>7, <4>1
      <4>2. CASE i # 1
        <5>1. 1 < i /\ 1 \in 1..Len(c.wq) + 1
          BY <1>2, <4>2
        <5> QED
          BY <2>2, <5>1
      <4> QED
        BY <4>1, <4>2
    <3>2. q[Len(q)].end = c.wq[Len(c.wq)].end
      <4>1. CASE i = Len(c.wq)
        BY <2>1, <2>2, <2>7, <4>1
      <4>2. CASE i # Len(c.wq)
        <5>1. ~(Len(q) < i) /\ Len(q) # i /\ Len(q) # i + 1 /\ Len(q) \in 1..Len(c.wq) + 1 /\ Len(q) - 1 = Len(c.wq)
          BY <1>2, <2>2, <4>2
        <5> QED
          BY <2>2, <5>1
      <4> QED
        BY <4>1, <4>2
    <3> QED
      BY <1>2, <2>2, <3>1, <3>2
  <2>9. ASSUME NEW k \in 2..Len(q) PROVE q[k].seq = q[k - 1].end
    <3>0. k \in 1..Len(c.wq) + 1 /\ k - 1 \in 1..Len(c.wq) + 1 /\ k \in Int /\ i \in Int
      BY <1>2, <2>2
    <3>1. CASE k < i
      <4>1. k - 1 < i /\ k \in 2..Len(c.wq)
        BY <1>2, <3>0, <3>1
      <4> QED
        BY <1>1, <2>2, <3>0, <3>1, <4>1 DEF Seamless
    <3>2. CASE k = i
      <4>1. k - 1 < i /\ k \in 2..Len(c.wq)
        BY <1>2, <2>2, <3>2
      <4>2. q[k - 1] = c.wq[k - 1]
        BY <2>2, <3>0, <4>1
      <4> QED
        BY <1>1, <2>1, <2>7, <3>2, <4>1, <4>2 DEF Seamless
    <3>3. CASE k = i + 1
      <4>1. k - 1 = i
        BY <3>0, <3>3
      <4> QED
        BY <2>1, <2>7, <3>3, <4>1
    <3>4. CASE k > i + 1
      <4>1. q[k] = c.wq[k - 1] /\ k - 1 \in 2..Len(c.wq)
        BY <1>2, <2>2, <3>0, <3>4
      <4>2. q[k - 1].end = c.wq[k - 2].end
        <5>1. CASE k - 1 = i + 1
          <6>1. k - 2 = i
            BY <3>0, <5>1
          <6> QED
            BY <2>1, <2>7, <5>1, <6>1
        <5>2. CASE k - 1 # i + 1
          <6>1. ~(k - 1 < i) /\ k - 1 # i /\ (k - 1) - 1 = k - 2
            BY <3>0, <3>4, <5>2
          <6> QED
            BY <2>2, <3>0, <5>2, <6>1
        <5> QED
          BY <5>1, <5>2
      <4>3. c.wq[k - 1].seq = c.wq[(k - 1) - 1].end /\ (k - 1) - 1 = k - 2
        BY <1>1, <3>0, <4>1 DEF Seamless
      <4> QED
        BY <4>1, <4>2, <4>3
    <3> QED
      BY <3>0, <3>1, <3>2, <3>3, <3>4
  <2>10. ASSUME NEW k \in 1..Len(q) PROVE ~q[k].inf
    <3>1. \A j \in 1..Len(c.wq) : ~c.wq[j].inf
      BY <1>1 DEF Seamless
    <3>2. k \in 1..Len(c.wq) + 1 /\ (k < i => k \in 1..Len(c.wq)) /\ (k > i + 1 => k - 1 \in 1..Len(c.wq))
          /\ (k < i \/ k = i \/ k = i + 1 \/ k > i + 1)
      BY <1>2, <2>2
    <3> QED
      BY <2>1, <2>2, <3>1, <3>2
  <2>11. Seamless(d)
    BY <1>1, <1>2, <2>4, <2>5, <2>8, <2>9, <2>10 DEF Seamless
  <2>12. ASSUME c.head > 0 PROVE q[h].end = c.wq[c.head].end /\ h > 0
    <3>1. CASE i <= c.head
      <4>1. h = c.head + 1 /\ h \in 1..Len(c.wq) + 1 /\ ~(h < i) /\ h # i
        BY <1>2, <3>1 DEF h
      <4>2. CASE i = c.head
        BY <2>1, <2>7, <4>1, <4>2
      <4>3. CASE i # c.head
        <5>1. h # i + 1 /\ h - 1 = c.head /\ h > 0
          BY <1>2, <4>1, <4>3
        <5>2. q[h] = c.wq[h - 1]
          BY <2>2, <4>1, <5>1
        <5> QED
          BY <5>1, <5>2
      <4> QED
        BY <1>2, <4>1, <4>2, <4>3
    <3>2. CASE i > c.head
      <4>1. h = c.head /\ h \in 1..Len(c.wq) + 1 /\ h < i
        BY <1>2, <2>12, <3>2 DEF h
      <4> QED
        BY <2>2, <4>1, <2>12
    <3> QED
      BY <1>2, <3>1, <3>2
  <2>13. c.head = 0 => h = 0
    BY DEF h
  <2>14. ASSUME c.sched # "redundant", "inside" \notin c.faults PROVE p = h
    <3>1. /\ c.packets_out = c.head
          /\ c.nxt = IF c.head = 0 THEN c.una ELSE c.wq[c.head].end
          /\ c.head = 0 => c.wq[1].seq = c.una
      BY <1>1, <1>2, <2>14 DEF Aligned
    <3>2. CASE i <= c.head
      <4>1. c.nxt = c.wq[c.head].end /\ c.head \in 1..Len(c.wq)
        BY <1>2, <3>1, <3>2
      <4>2. c.nxt >= seg.end
        <5>1. CASE i = c.head
          BY <2>6, <4>1, <5>1
        <5>2. CASE i # c.head
          <6>1. seg.end <= c.wq[c.head].seq
            <7>1. i < c.head
              BY <1>2, <3>2, <5>2
            <7> QED
              BY <4>1, <7>1, Ordered
          <6>2. c.wq[c.head].seq \in Nat /\ c.wq[c.head].end \in Nat /\ c.wq[c.head].seq < c.wq[c.head].end /\ seg.end \in Nat
            BY <2>6, <4>1
          <6>3. \A x, y, z \in Nat : x <= y /\ y < z => z >= x
            OBVIOUS
          <6>4. c.wq[c.head].end >= seg.end
            BY <6>1, <6>2, <6>3
          <6> QED
            BY <4>1, <6>4
        <5> QED
          BY <5>1, <5>2
      <4> QED
        BY <3>1, <3>2, <4>2 DEF h, p
    <3>3. CASE i > c.head
      <4>1. seg.seq \in Nat /\ seg.end \in Nat /\ seg.seq < seg.end
        BY <2>6
      <4>2. c.nxt <= seg.seq
        <5>1. CASE c.head = 0
          <6>1. CASE i = 1
            BY <1>2, <3>1, <5>1, <6>1
          <6>2. CASE i # 1
            <7>1. 1 < i /\ 1 \in 1..Len(c.wq)
              BY <1>2, <6>2
            <7>2. c.wq[1].end <= seg.seq
              BY <7>1, Ordered
            <7>3. c.wq[1].seq < c.wq[1].end /\ c.wq[1].seq \in Nat /\ c.wq[1].end \in Nat
              BY <2>6, <7>1
            <7> QED
              BY <3>1, <4>1, <5>1, <7>2, <7>3
          <6> QED
            BY <6>1, <6>2
        <5>2. CASE c.head # 0
          <6>1. c.head \in 1..Len(c.wq) /\ c.head < i
            BY <1>2, <3>3, <5>2
          <6>2. c.wq[c.head].end <= seg.seq
            BY <6>1, Ordered
          <6> QED
            BY <3>1, <5>2, <6>2
        <5> QED
          BY <5>1, <5>2
      <4>3. ~(c.nxt >= seg.end) /\ ~(i <= c.head)
        BY <1>2, <3>3, <4>1, <4>2
      <4> QED
        BY <3>1, <4>3 DEF h, p
    <3> QED
      BY <1>2, <3>2, <3>3
  <2>15. Aligned(d)
    <3>0. c.head = 0 \/ c.head > 0
      BY <1>2
    <3>2. h = 0 => c.head = 0
      BY <2>12, <3>0
    <3>1. (c.nxt = IF c.head = 0 THEN c.una ELSE c.wq[c.head].end)
          => (c.nxt = IF h = 0 THEN c.una ELSE q[h].end)
      BY <2>12, <2>13, <3>0, <3>2
    <3> QED
      BY <1>1, <1>2, <2>5, <2>8, <2>14, <3>1, <3>2 DEF Aligned
  <2>16. Good(d) /\ Still(c, d)
    <3>1. d.wq \in Seq(Segment(c)) /\ d.head \in Nat /\ d.packets_out \in Int
      BY <2>2, <2>4, <2>5
    <3> QED
      BY <1>1, <2>5, <2>11, <2>15, <3>1, FieldsAre, RequeuedGood
  <2>17. i > c.head => d.head = c.head
    BY <1>2, <2>5 DEF h
  <2> QED
    BY <2>1, <2>5, <2>7, <2>16, <2>17 DEF Sends
<1> QED
  BY <1>3, <1>4

\* tcp_event_new_data_sent() of the segment at the send head.
LEMMA NewDataSentGood ==
  ASSUME NEW c, Good(c), NEW i \in 1..Len(c.wq), c.sched # "redundant" => i = c.head + 1,
         NEW d, d = NewDataSent(c, i)
  PROVE  Sends(c, d)
<1>1. c \in Connection(c) /\ Seamless(c) /\ Aligned(c)
  BY DEF Good
<1>2. /\ c.wq \in Seq(Segment(c)) /\ c.head \in Nat /\ c.packets_out \in Int /\ Len(c.wq) \in Nat
      /\ c.index \in 0..1 /\ c.high \in [0..1 -> Int] /\ c.sched \in Schedulers /\ c.wq # <<>>
  BY <1>1, FieldsAre
<1>3. c.wq[i].end \in Isn..End(c) + 1 /\ End(c) \in Nat
  <2>1. c.wq[i] \in Segment(c)
    BY <1>2
  <2>2. /\ c.wq[i].seq \in Nat /\ c.wq[i].end \in Nat /\ Isn <= c.wq[i].seq /\ c.wq[i].seq < c.wq[i].end
        /\ c.wq[i].end <= End(c) + 1
    BY <1>2, <2>1, SegmentIs
  <2>3. End(c) \in Nat /\ Isn \in Nat
    BY <1>2, EndIs, Constants
  <2> QED
    BY <2>2, <2>3
<1> DEFINE n == c.wq[i].end - c.wq[i].seq
           e == CheckSndseqWrap(c, n)
<1>4. /\ e.index \in 0..1 /\ e.high \in [0..1 -> Int]
      /\ e = [c EXCEPT !.index = e.index, !.high = e.high]
  <2>1. CASE ~(Low(c.nxt) > Plus(Low(c.nxt), n))
    BY <1>1, <1>2, <2>1 DEF CheckSndseqWrap, Connection
  <2>2. CASE Low(c.nxt) > Plus(Low(c.nxt), n)
    <3> DEFINE x == 1 - c.index
               g == [c.high EXCEPT ![x] = @ + 2]
    <3>1. x \in 0..1 /\ g \in [0..1 -> Int]
      BY <1>2
    <3>2. e = [c EXCEPT !.index = x, !.high = g]
      BY <1>1, <2>2 DEF CheckSndseqWrap, Connection
    <3> HIDE DEF x, g, e
    <3>3. e.index = x /\ e.high = g
      BY <1>1, <3>2 DEF Connection
    <3> QED
      BY <3>1, <3>2, <3>3
  <2> QED
    BY <2>1, <2>2
<1>5. d = [e EXCEPT !.head = i, !.nxt = c.wq[i].end, !.packets_out = @ + 1]
  BY DEF NewDataSent
<1> HIDE DEF e
<1>6. d = [c EXCEPT !.index = e.index, !.high = e.high, !.head = i, !.nxt = c.wq[i].end,
                    !.packets_out = c.packets_out + 1]
  BY <1>1, <1>4, <1>5 DEF Connection
<1> DEFINE p == c.packets_out + 1
<1>7. p \in Int
  BY <1>2
<1> HIDE DEF p
<1>8. d = [c EXCEPT !.index = e.index, !.high = e.high, !.head = i, !.nxt = c.wq[i].end, !.packets_out = p]
  BY <1>6 DEF p
<1>9. /\ d.wq = c.wq /\ d.head = i /\ d.nxt = c.wq[i].end /\ d.packets_out = p
      /\ d.index = e.index /\ d.high = e.high
      /\ d.sched = c.sched /\ d.reinj = c.reinj /\ d.written = c.written
      /\ d.una = c.una /\ d.faults = c.faults /\ d.send_inf = c.send_inf /\ d.loss = c.loss
      /\ d.wnd_end = c.wnd_end /\ d.timeouts = c.timeouts /\ d.last = c.last
      /\ Requeued(c, d)
  BY <1>1, <1>8, ConnectionIsRecord DEF Requeued, IsRecord, Fields
<1>10. Seamless(d)
  BY <1>1, <1>2, <1>9 DEF Seamless
<1>11. Aligned(d)
  <2> SUFFICES ASSUME c.sched # "redundant" PROVE Aligned(d)
    BY <1>9 DEF Aligned
  <2>1. i = c.head + 1 /\ i # 0
    BY <1>2
  <2>2. "inside" \notin c.faults => p = i
    BY <1>1, <1>2, <2>1 DEF Aligned, p
  <2> QED
    BY <1>2, <1>9, <2>1, <2>2 DEF Aligned
<1>12. d.head \in Nat
  BY <1>9
<1>13. Good(d) /\ Still(c, d)
  BY <1>1, <1>3, <1>4, <1>7, <1>9, <1>10, <1>11, <1>12, FieldsAre, RequeuedGood
<1> QED
  BY <1>9, <1>13 DEF Sends

LEMMA TailIs ==
  ASSUME NEW S, NEW q \in Seq(S), q # <<>>
  PROVE  Tail(q) \in Seq(S) /\ q[1] \in S
OBVIOUS

LEMMA FragmentedReinjectGood ==
  ASSUME NEW c, Good(c), c.reinj # <<>>, NEW len \in Lengths(c.reinj[1]),
         NEW d, d = FragmentedReinject(c, len)
  PROVE  Good(d) /\ Still(c, d) /\ Same(c, d) /\ d.reinj # <<>>
<1>1. c \in Connection(c)
  BY DEF Good
<1>2. c.reinj \in Seq(Segment(c)) /\ c.sched \in Schedulers /\ c.reinj[1] \in Segment(c)
  BY <1>1, FieldsAre
<1>3. CASE len = Bytes(c.reinj[1])
  <2>1. d = c
    BY <1>3 DEF FragmentedReinject
  <2> QED
    BY <2>1 DEF Same, Still
<1>4. CASE len # Bytes(c.reinj[1])
  <2> DEFINE seg == c.reinj[1]
             sent == TRUE
             a == Parts(seg, len, sent)[1]
             b == Parts(seg, len, sent)[2]
  <2>1. Parts(seg, len, sent) = <<a, b>> /\ a \in Segment(c) /\ b \in Segment(c)
    <3>1. seg \in Segment(c) /\ len \in Lengths(seg) /\ len # Bytes(seg) /\ sent \in BOOLEAN
      BY <1>2, <1>4
    <3> HIDE DEF seg, sent
    <3> QED
      BY <1>2, <3>1, PartsAre
  <2> HIDE DEF a, b
  <2> DEFINE q == Replaced(c.reinj, 1, <<a, b>>)
  <2>2. q \in Seq(Segment(c)) /\ Len(q) = Len(c.reinj) + 1
    <3>1. 1 \in 1..Len(c.reinj)
      BY <1>2
    <3> QED
      BY <1>2, <2>1, <3>1, ReplacedIs
  <2>3. d = WithReinj(c, q)
    BY <1>1, <1>4, <2>1 DEF FragmentedReinject, WithReinj, Connection
  <2>4. q # <<>>
    BY <1>2, <2>2
  <2> HIDE DEF q
  <2> QED
    BY <2>2, <2>3, <2>4, ReinjChanged
<1> QED
  BY <1>3, <1>4

LEMMA UsableAre ==
  ASSUME NEW c, NEW d, Still(c, d), NEW seg, NEW s \in Usable(c, seg), NEW other, other.seq = seg.seq
  PROVE  s \in Subflow /\ InOrder(d.sub[s], other)
BY DEF Usable, DefAvailable, Open, Still, InOrder

\* A lack of memory goes into the history.
LEMMA SuffersNomem ==
  ASSUME NEW c, Good(c), NEW h, h = Suffers(c, "nomem")
  PROVE  Good(h) /\ Still(c, h) /\ h.una = c.una
<1>1. c \in Connection(c)
  BY DEF Good
<1>2. c.faults \cup {"nomem"} \in SUBSET {"close", "mpfail", "nomem", "split", "discard", "inside"}
      /\ ("inside" \in c.faults \cup {"nomem"} <=> "inside" \in c.faults)
  BY <1>1, FieldsAre
<1>3. h = [c EXCEPT !.faults = c.faults \cup {"nomem"}]
  BY DEF Suffers
<1>4. Marks(c, h)
  BY <1>1, <1>2, <1>3 DEF Marks, Connection
<1> QED
  BY <1>4, MarksChanged

\* The first of a sequence becomes another.
LEMMA HeadReplaced ==
  ASSUME NEW S, NEW q \in Seq(S), NEW x \in S
  PROVE  [q EXCEPT ![1] = x] \in Seq(S)
<1> DEFINE n == Len(q)
           r == [q EXCEPT ![1] = x]
<1>1. q \in [1..n -> S] /\ n \in Nat
  OBVIOUS
<1> HIDE DEF n
<1>2. r \in [1..n -> S]
  BY <1>1
<1> QED
  BY <1>1, <1>2

LEMMA XmitReinjectGood ==
  ASSUME NEW c, Good(c), c.reinj # <<>>, NEW len \in Lengths(c.reinj[1]), NEW e \in XmitReinject(c, len)
  PROVE  Follows(c, e)
<1> DEFINE d   == FragmentedReinject(c, len)
           seg == d.reinj[1]
           g(R) == [d EXCEPT !.reinj[1].mask = @ \cup R]
           part(R) == EntailAll(Suffers(g(R), "nomem"), R, seg)
           full(R) == EntailAll(d, R, seg)
           sent(f) == [f EXCEPT !.reinj = Tail(@)]
<1>0. e \in {d} \cup (IF May(c, "nomem") THEN UNION {part(R) : R \in SUBSET Usable(d, seg)} ELSE {})
               \cup {sent(f) : f \in UNION {full(R) : R \in (SUBSET Usable(d, seg)) \ {{}}}}
  BY DEF XmitReinject
<1> HIDE DEF part, full, sent, g, seg, d
<1>1a. \/ e = d
       \/ \E R \in SUBSET Usable(d, seg) : e \in part(R) \/ e \in {sent(f) : f \in full(R)}
  BY <1>0
<1> USE DEF g, seg, d
<1>1. \/ e = d
      \/ \E R \in SUBSET Usable(d, seg) :
           \/ e \in EntailAll(Suffers(g(R), "nomem"), R, seg)
           \/ e \in {[f EXCEPT !.reinj = Tail(@)] : f \in EntailAll(d, R, seg)}
  BY <1>1a DEF part, full, sent
<1>2. Good(d) /\ Still(c, d) /\ Same(c, d) /\ d.reinj # <<>>
  BY FragmentedReinjectGood
<1> HIDE DEF d
<1>3. d.reinj \in Seq(Segment(d)) /\ seg \in Segment(d)
  <2>1. d.reinj \in Seq(Segment(d))
    BY <1>2, FieldsAre DEF Good
  <2> QED
    BY <1>2, <2>1, TailIs
<1>4. CASE e = d
  BY <1>2, <1>4 DEF Follows, Same
<1>5. ASSUME NEW R \in SUBSET Usable(d, seg), e \in EntailAll(Suffers(g(R), "nomem"), R, seg)
      PROVE  Follows(c, e)
  <2> DEFINE m == seg.mask \cup R
             x == [seg EXCEPT !.mask = m]
             q == [d.reinj EXCEPT ![1] = x]
  <2>1. R \in SUBSET Subflow /\ \A s \in R : InOrder(d.sub[s], seg)
    BY DEF Usable, DefAvailable, Open
  <2>2. m \in SUBSET Subflow
    BY <1>3, <2>1 DEF Segment
  <2>3. g(R) = WithReinj(d, q)
    BY <1>2, <1>3 DEF WithReinj, Good, Connection, Segment
  <2> HIDE DEF m, g
  <2>4. x \in Segment(d)
    BY <1>3, <2>2 DEF Segment
  <2> HIDE DEF x
  <2>5. q \in Seq(Segment(d))
    BY <1>3, <2>4, HeadReplaced
  <2> HIDE DEF q
  <2>6. Good(g(R)) /\ Same(d, g(R)) /\ g(R).sub = d.sub /\ g(R).sched = d.sched /\ Still(d, g(R))
    <3>1. Good(g(R)) /\ Still(d, g(R)) /\ Same(d, g(R))
      BY <1>2, <2>3, <2>5, ReinjChanged
    <3> QED
      BY <3>1 DEF Still
  <2> DEFINE h == Suffers(g(R), "nomem")
  <2>7. Good(h) /\ Still(g(R), h) /\ h.una = g(R).una
    BY <2>6, SuffersNomem
  <2> HIDE DEF h, seg
  <2>8. seg \in Segment(h) /\ \A s \in R : InOrder(h.sub[s], seg)
    <3>1. Segment(h) = Segment(d)
      BY <2>6, <2>7 DEF Still, Segment, End
    <3> QED
      BY <1>3, <2>1, <2>6, <2>7, <3>1 DEF Still
  <2>9. Good(e) /\ Same(h, e)
    BY <1>5, <2>1, <2>7, <2>8, EntailAllGood DEF h
  <2> QED
    BY <1>2, <2>6, <2>7, <2>9 DEF Follows, Same, Still
<1>6. ASSUME NEW R \in SUBSET Usable(d, seg), NEW f \in EntailAll(d, R, seg), e = [f EXCEPT !.reinj = Tail(@)]
      PROVE  Follows(c, e)
  <2>1. R \in SUBSET Subflow /\ \A s \in R : InOrder(d.sub[s], seg)
    BY DEF Usable, DefAvailable, Open
  <2>2. Good(f) /\ Same(d, f) /\ f.reinj = d.reinj
    BY <1>2, <1>3, <2>1, EntailAllGood
  <2>3. Tail(f.reinj) \in Seq(Segment(f))
    <3>1. f.reinj \in Seq(Segment(f)) /\ f.reinj # <<>>
      BY <1>2, <2>2, FieldsAre DEF Good
    <3> QED
      BY <3>1, TailIs
  <2>4. e = WithReinj(f, Tail(f.reinj))
    BY <1>6, <2>2 DEF Good, Connection, WithReinj
  <2>5. Good(e) /\ Same(f, e)
    BY <2>2, <2>3, <2>4, ReinjChanged
  <2> QED
    BY <1>2, <2>2, <2>5 DEF Follows, Same
<1> QED
  BY <1>1, <1>4, <1>5, <1>6

LEMMA TaggedIs ==
  ASSUME NEW c, NEW d, NEW seg \in Segment(c), NEW other, other = Tagged(d, seg)
  PROVE  other \in Segment(c) /\ other.seq = seg.seq /\ other.end = seg.end /\ other.inf = seg.inf
BY DEF Segment, Tagged

\* A segment of the write queue is sent.
LEMMA XmitQueuedGood ==
  ASSUME NEW c, Good(c), NEW n, n.i \in 1..Len(c.wq), n.rj = 0 /\ c.sched # "redundant" => n.i = c.head + 1,
         NEW len \in Lengths(c.wq[n.i]), NEW e \in XmitQueued(c, n, len)
  PROVE  Follows(c, e)
<1> DEFINE i    == n.i
           d    == Fragmented(c, i, len)
           seg  == IF n.rj = 0 THEN Tagged(d, d.wq[i]) ELSE d.wq[i]
           g(R) == [d EXCEPT !.wq[i] = [seg EXCEPT !.mask = @ \cup R]]
<1>1. Sends(c, d) /\ i \in 1..Len(d.wq) /\ (i > c.head => d.head = c.head)
  BY FragmentedGood
<1> HIDE DEF d
<1>2. Good(d) /\ d.sched = c.sched /\ d.una = c.una /\ d.inf = c.inf
  BY <1>1 DEF Sends, Still
<1>3. d.wq \in Seq(Segment(d)) /\ d.wq[i] \in Segment(d)
  BY <1>1, <1>2, FieldsAre DEF Good
<1>4. seg \in Segment(d) /\ seg.seq = d.wq[i].seq /\ seg.end = d.wq[i].end /\ seg.inf = d.wq[i].inf
  BY <1>3, TaggedIs
<1> HIDE DEF seg
<1>5. ASSUME NEW R \in SUBSET Usable(d, seg)
      PROVE  /\ Good(g(R)) /\ Still(d, g(R)) /\ g(R).una = d.una /\ g(R).head = d.head /\ Len(g(R).wq) = Len(d.wq)
             /\ g(R).faults = d.faults
             /\ seg \in Segment(g(R)) /\ R \in SUBSET Subflow /\ \A s \in R : InOrder(g(R).sub[s], seg)
  <2> DEFINE m == seg.mask \cup R
             x == [seg EXCEPT !.mask = m]
  <2>1. R \in SUBSET Subflow /\ \A s \in R : InOrder(d.sub[s], seg)
    BY DEF Usable, DefAvailable, Open
  <2>2. m \in SUBSET Subflow
    BY <1>4, <2>1 DEF Segment
  <2>3. g(R) = WithSegment(d, i, x)
    BY <1>2, <1>4 DEF WithSegment, Good, Connection, Segment
  <2> HIDE DEF m, g
  <2>4. x \in Segment(d) /\ x.seq = d.wq[i].seq /\ x.end = d.wq[i].end /\ x.inf = d.wq[i].inf
    <3>1. x \in Segment(d) /\ x.seq = seg.seq /\ x.end = seg.end /\ x.inf = seg.inf
      BY <1>4, <2>2 DEF Segment
    <3> QED
      BY <1>4, <3>1
  <2> HIDE DEF x
  <2>5. /\ Good(g(R)) /\ Still(d, g(R)) /\ g(R).una = d.una /\ g(R).head = d.head /\ Len(g(R).wq) = Len(d.wq)
        /\ g(R).faults = d.faults
    BY <1>1, <1>2, <2>3, <2>4, SegmentChanged
  <2>6. Segment(g(R)) = Segment(d)
    BY <2>5 DEF Still, Segment, End
  <2> QED
    BY <1>4, <2>1, <2>5, <2>6 DEF Still
<1> HIDE DEF g
<1>6. ASSUME NEW R \in SUBSET Usable(d, seg), NEW f \in EntailAll(g(R), R, seg)
      PROVE  /\ Follows(c, f) /\ Len(f.wq) = Len(d.wq) /\ f.head = d.head
  <2>1. Good(f) /\ Same(g(R), f)
    BY <1>5, EntailAllGood
  <2> QED
    BY <1>2, <1>5, <2>1 DEF Follows, Same, Still
<1>7. ASSUME NEW R \in SUBSET Usable(d, seg), NEW f \in EntailAll(Suffers(g(R), "nomem"), R, seg)
      PROVE  Follows(c, f)
  <2> DEFINE h == Suffers(g(R), "nomem")
  <2>2. Good(h) /\ Still(g(R), h) /\ h.una = g(R).una
    BY <1>5, SuffersNomem
  <2> HIDE DEF h
  <2>3. seg \in Segment(h) /\ \A s \in R : InOrder(h.sub[s], seg)
    <3>1. Segment(h) = Segment(g(R))
      BY <2>2 DEF Still, Segment, End
    <3> QED
      BY <1>5, <2>2, <3>1 DEF Still
  <2>4. Good(f) /\ Same(h, f)
    BY <1>5, <2>2, <2>3, EntailAllGood DEF h
  <2> QED
    BY <1>2, <1>5, <2>2, <2>4 DEF Follows, Same, Still
<1>8. \/ e = d
      \/ \E R \in SUBSET Usable(d, seg) :
           \/ e \in EntailAll(Suffers(g(R), "nomem"), R, seg)
           \/ e \in EntailAll(g(R), R, seg)
           \/ n.rj = 0 /\ \E f \in EntailAll(g(R), R, seg) : e = NewDataSent(f, n.i)
  BY DEF XmitQueued, d, seg, g
<1>9. CASE e = d
  BY <1>1, <1>9 DEF Follows, Sends, Still
<1>10. ASSUME NEW R \in SUBSET Usable(d, seg), n.rj = 0, NEW f \in EntailAll(g(R), R, seg), e = NewDataSent(f, n.i)
       PROVE  Follows(c, e)
  <2>1. e = NewDataSent(f, i)
    BY <1>10
  <2>2. Follows(c, f) /\ Len(f.wq) = Len(d.wq) /\ f.head = d.head
    BY <1>6
  <2>3. f.sched # "redundant" => i = f.head + 1
    <3>1. c.head \in Nat
      BY FieldsAre DEF Good
    <3> QED
      BY <1>1, <1>10, <2>2, <3>1 DEF Follows
  <2>4. Sends(f, e)
    BY <1>1, <2>1, <2>2, <2>3, NewDataSentGood DEF Follows
  <2> QED
    BY <2>2, <2>4 DEF Follows, Sends, Still
<1> QED
  BY <1>6, <1>7, <1>8, <1>9, <1>10

\* What the schedulers pick is there, and is the send head if it is new.
Selected(c, n) ==
  /\ n.rj = 1 => c.reinj # <<>>
  /\ n.rj # 1 => n.i \in 1..Len(c.wq)
  /\ n.rj = 0 /\ c.sched # "redundant" => n.i = c.head + 1
  /\ n.rj = 0 /\ c.sched = "redundant" => n.by \in Subflow

LEMMA SelectedIs ==
  ASSUME NEW c, Good(c), NEW n \in NextSegment(c)
  PROVE  Selected(c, n)
<1>1. c.head \in Nat /\ c.wq \in Seq(Segment(c)) /\ Len(c.wq) \in Nat /\ c.head <= Len(c.wq)
      /\ c.sched \in {"default", "roundrobin", "redundant"}
  BY FieldsAre, SendAssumption DEF Good, Seamless
<1>2. c.wq # <<>> => 1 \in 1..Len(c.wq)
  BY <1>1
<1>3. ASSUME NEW m \in HeadAgain(c) PROVE m.rj = -1 /\ m.i \in 1..Len(c.wq)
  <2>1. c.head # 0 /\ m.rj = -1 /\ m.i = 1
    BY DEF HeadAgain
  <2> QED
    BY <1>1, <2>1
<1>4. CASE c.sched = "default"
  <2>1. n \in NextDefault(c)
    BY <1>4 DEF NextSegment
  <2>2. \/ c.reinj # <<>> /\ n = [rj |-> 1, i |-> 1]
        \/ n \in HeadAgain(c)
        \/ c.head # Len(c.wq) /\ n = [rj |-> 0, i |-> c.head + 1]
    BY <2>1 DEF NextDefault, Reinjects
  <2> QED
    BY <1>1, <1>3, <1>4, <2>2 DEF Selected
<1>5. CASE c.sched = "roundrobin"
  <2>1. n \in NextRoundRobin(c)
    BY <1>5 DEF NextSegment
  <2>2. \/ c.reinj # <<>> /\ n = [rj |-> 1, i |-> 1]
        \/ c.head < Len(c.wq) /\ n = [rj |-> 0, i |-> c.head + 1]
    BY <2>1 DEF NextRoundRobin, Reinjects
  <2> QED
    BY <1>1, <1>5, <2>2 DEF Selected
<1>6. CASE c.sched = "redundant"
  <2>1. n \in NextRedundant(c)
    BY <1>6 DEF NextSegment
  <2>2. \/ c.reinj # <<>> /\ n = [rj |-> 1, i |-> 1]
        \/ \E s \in Subflow : \E i \in NextOf(c, s) : n = [rj |-> 0, i |-> i, by |-> s]
    BY <2>1 DEF NextRedundant
  <2>3. \A s \in Subflow : \A i \in NextOf(c, s) : i \in 1..Len(c.wq)
    BY <1>1, <1>2 DEF NextOf
  <2> QED
    BY <1>6, <2>2, <2>3 DEF Selected
<1> QED
  BY <1>1, <1>4, <1>5, <1>6

LEMMA ClearedGood ==
  ASSUME NEW c, Good(c), NEW n, Selected(c, n), NEW d, d = Cleared(c, n)
  PROVE  Follows(c, d) /\ Selected(d, n)
<1>1. c \in Connection(c)
  BY DEF Good
<1>2. c.wq \in Seq(Segment(c)) /\ c.reinj \in Seq(Segment(c))
  BY <1>1, FieldsAre
<1>3. CASE n.rj = 1
  <2> DEFINE x == [c.reinj[1] EXCEPT !.mask = {}]
             q == [c.reinj EXCEPT ![1] = x]
  <2>1. c.reinj # <<>> /\ c.reinj[1] \in Segment(c)
    BY <1>2, <1>3 DEF Selected
  <2>2. x \in Segment(c)
    BY <2>1 DEF Segment
  <2>3. d = WithReinj(c, q)
    BY <1>1, <1>2, <1>3, <2>1 DEF Cleared, WithReinj, Connection, Segment
  <2> HIDE DEF x
  <2>4. q \in Seq(Segment(c)) /\ q # <<>>
    BY <1>2, <2>1, <2>2
  <2> HIDE DEF q
  <2>5. Good(d) /\ Still(c, d) /\ Same(c, d) /\ d.reinj = q
    BY <2>3, <2>4, ReinjChanged
  <2> QED
    BY <1>3, <2>4, <2>5 DEF Follows, Selected, Still, Same
<1>4. CASE n.rj # 1
  <2> DEFINE i == n.i
             x == [c.wq[i] EXCEPT !.mask = {}]
  <2>1. i \in 1..Len(c.wq) /\ c.wq[i] \in Segment(c)
    BY <1>2, <1>4 DEF Selected
  <2>2. x \in Segment(c) /\ x.seq = c.wq[i].seq /\ x.end = c.wq[i].end /\ x.inf = c.wq[i].inf
    BY <2>1 DEF Segment
  <2>3. d = WithSegment(c, i, x)
    BY <1>1, <1>2, <1>4, <2>1 DEF Cleared, WithSegment, Connection, Segment
  <2> HIDE DEF x
  <2>4. Good(d) /\ Still(c, d) /\ d.una = c.una /\ d.head = c.head /\ Len(d.wq) = Len(c.wq)
    BY <2>1, <2>2, <2>3, SegmentChanged
  <2> QED
    BY <1>4, <2>4 DEF Follows, Selected, Still
<1> QED
  BY <1>3, <1>4

LEMMA NotedGood ==
  ASSUME NEW c, Good(c), NEW n, Selected(c, n), NEW d, d = Noted(c, n)
  PROVE  Follows(c, d) /\ Selected(d, n)
<1>1. c \in Connection(c)
  BY DEF Good
<1>2. CASE ~(c.sched = "redundant" /\ n.rj = 0)
  BY <1>2 DEF Noted, Follows
<1>3. CASE c.sched = "redundant" /\ n.rj = 0
  <2> DEFINE x == [seq |-> c.wq[n.i].seq, end |-> c.wq[n.i].end]
             l == [c.last EXCEPT ![n.by] = x]
  <2>1. n.i \in 1..Len(c.wq) /\ n.by \in Subflow
    BY <1>3 DEF Selected
  <2>2. c.wq[n.i] \in Segment(c)
    BY <1>1, <2>1, FieldsAre
  <2>3. x \in [seq : Nat, end : Nat]
    BY <2>2 DEF Segment
  <2>4. d = [c EXCEPT !.last = l]
    BY <1>1, <1>3 DEF Noted, Connection
  <2> HIDE DEF x
  <2>5. l \in [Subflow -> [seq : Nat, end : Nat]]
    BY <1>1, <2>1, <2>3, FieldsAre
  <2> HIDE DEF l
  <2>6. Marks(c, d)
    <3>1. d = [c EXCEPT !.loss = d.loss, !.wnd_end = d.wnd_end, !.timeouts = d.timeouts,
                        !.faults = d.faults, !.last = d.last]
          /\ d.loss = c.loss /\ d.wnd_end = c.wnd_end /\ d.timeouts = c.timeouts /\ d.faults = c.faults /\ d.last = l
      BY <1>1, <2>4 DEF Connection
    <3> QED
      BY <1>1, <2>5, <3>1, FieldsAre DEF Marks
  <2>7. Good(d) /\ Still(c, d) /\ d.wq = c.wq /\ d.head = c.head /\ d.una = c.una /\ d.reinj = c.reinj
    BY <2>6, MarksChanged
  <2> QED
    BY <2>7 DEF Follows, Selected, Still
<1> QED
  BY <1>2, <1>3

LEMMA XmitChosenGood ==
  ASSUME NEW c, Good(c), NEW n, Selected(c, n), NEW e \in XmitChosen(c, n)
  PROVE  Follows(c, e)
<1>1. CASE n.rj = 1
  <2>1. c.reinj # <<>> /\ c.reinj \in Seq(Segment(c))
    BY <1>1, FieldsAre DEF Good, Selected
  <2>2. CASE c.reinj[1].end <= c.una
    <3>1. e = [c EXCEPT !.reinj = Tail(@)]
      BY <1>1, <2>2 DEF XmitChosen
    <3>2. e = WithReinj(c, Tail(c.reinj))
      BY <3>1 DEF WithReinj, Good, Connection
    <3>3. Tail(c.reinj) \in Seq(Segment(c))
      BY <2>1, TailIs
    <3>4. Good(e) /\ Same(c, e)
      BY <3>2, <3>3, ReinjChanged
    <3> QED
      BY <3>4 DEF Follows, Same
  <2>3. CASE ~(c.reinj[1].end <= c.una)
    <3>1. e = c \/ \E len \in Lengths(c.reinj[1]) : e \in XmitReinject(c, len)
      BY <1>1, <2>3 DEF XmitChosen
    <3> QED
      BY <2>1, <3>1, XmitReinjectGood DEF Follows
  <2> QED
    BY <2>2, <2>3
<1>2. CASE n.rj # 1
  <2>1. e = c \/ \E len \in Lengths(c.wq[n.i]) : e \in XmitQueued(c, n, len)
    BY <1>2 DEF XmitChosen
  <2>2. n.i \in 1..Len(c.wq) /\ (n.rj = 0 /\ c.sched # "redundant" => n.i = c.head + 1)
    BY <1>2 DEF Selected
  <2> QED
    BY <2>1, <2>2, XmitQueuedGood DEF Follows
<1> QED
  BY <1>1, <1>2

LEMMA FollowsOn ==
  ASSUME NEW c, NEW d, NEW e, Follows(c, d), Follows(d, e)
  PROVE  Follows(c, e)
BY DEF Follows

LEMMA XmitGood ==
  ASSUME NEW c, Good(c), NEW e \in Xmit(c)
  PROVE  Follows(c, e)
<1>1. PICK n \in NextSegment(c) :
        e \in UNION {LET d == IF o.clear THEN Cleared(c, n) ELSE Noted(c, n)
                     IN  IF o.any THEN XmitChosen(d, n) ELSE {d} : o \in Found(Outcomes(c, n))}
  BY DEF Xmit
<1>2. PICK o \in Found(Outcomes(c, n)) :
        e \in LET d == IF o.clear THEN Cleared(c, n) ELSE Noted(c, n)
              IN  IF o.any THEN XmitChosen(d, n) ELSE {d}
  BY <1>1
<1> DEFINE d == IF o.clear THEN Cleared(c, n) ELSE Noted(c, n)
<1>3. Selected(c, n)
  BY SelectedIs
<1>4. Follows(c, d) /\ Selected(d, n)
  <2>1. Follows(c, Cleared(c, n)) /\ Selected(Cleared(c, n), n)
    BY <1>3, ClearedGood
  <2>2. Follows(c, Noted(c, n)) /\ Selected(Noted(c, n), n)
    BY <1>3, NotedGood
  <2> QED
    BY <2>1, <2>2
<1>5. e = d \/ e \in XmitChosen(d, n)
  BY <1>2
<1> HIDE DEF d
<1>6. e \in XmitChosen(d, n) => Follows(d, e)
  BY <1>4, XmitChosenGood DEF Follows
<1> QED
  BY <1>4, <1>5, <1>6, FollowsOn

LEMMA PushGood ==
  ASSUME NEW c, Good(c), NEW e \in Push(c)
  PROVE  Follows(c, e)
<1>1. e = c \/ e \in Xmit(c)
  BY DEF Push
<1>2. Follows(c, c)
  BY DEF Follows
<1> QED
  BY <1>1, <1>2, XmitGood

\* The schedulers choose a subflow that may be used.
LEMMA GetIs ==
  ASSUME NEW sched, NEW c, NEW seg, NEW o \in Get(sched, c, seg), o.sk # None
  PROVE  o.sk \in Usable(c, seg)
<1> DEFINE U == Usable(c, seg)
<1>1. U \in SUBSET Subflow
  BY DEF Usable, DefAvailable, Open
<1>2. ASSUME NEW K, NEW A \in SUBSET U, NEW s \in Select(c, K, seg, A).sks
      PROVE  s = None \/ s \in U
  BY DEF Select
<1>3. ASSUME NEW A \in SUBSET U, o \in GetDefault(c, seg, A)
      PROVE  o.sk \in U
  <2>1. CASE Cardinality(Open(c)) = 1
    <3>1. PICK s \in IF A = {} THEN {None} ELSE A : o = [sk |-> s, clear |-> FALSE]
      BY <1>3, <2>1 DEF GetDefault
    <3> QED
      BY <3>1
  <2>2. CASE Cardinality(Open(c)) # 1
    <3>1. o.sk \in Select(c, Subflow \ Backup, seg, A).sks \/ o.sk \in Select(c, Backup, seg, A).sks
      BY <1>3, <2>2 DEF GetDefault
    <3> QED
      BY <1>2, <3>1
  <2> QED
    BY <2>1, <2>2
<1>4. ASSUME NEW A \in SUBSET U, o \in GetRoundRobin(c, seg, A)
      PROVE  o.sk \in U
  <2>1. \A T \in SUBSET A : T # {} => Max(T) \in T
    BY <1>1, Constants, GreatestNumber
  <2>2. CASE A = {}
    BY <1>4, <2>2 DEF GetRoundRobin
  <2>3. CASE A # {} /\ A \subseteq seg.mask
    <3>1. o = [sk |-> Max(A), clear |-> TRUE]
      BY <1>4, <2>3 DEF GetRoundRobin
    <3> QED
      BY <2>1, <2>3, <3>1
  <2>4. CASE A # {} /\ ~(A \subseteq seg.mask)
    <3>1. o = [sk |-> Max(A \ seg.mask), clear |-> FALSE] /\ A \ seg.mask # {}
      BY <1>4, <2>4 DEF GetRoundRobin
    <3> QED
      BY <2>1, <3>1
  <2> QED
    BY <2>2, <2>3, <2>4
<1>5. ASSUME NEW A \in SUBSET U, o \in GetRedundant(c, seg, A)
      PROVE  o.sk \in U
  BY <1>5 DEF GetRedundant
<1>6. \/ \E A \in SUBSET U : o \in GetDefault(c, seg, A) \/ o \in GetRoundRobin(c, seg, A) \/ o \in GetRedundant(c, seg, A)
      \/ \E s \in U : o = [sk |-> s, clear |-> FALSE]
  <2> DEFINE X == UNION {CASE sched = "default"    -> GetDefault(c, seg, A)
                           [] sched = "roundrobin" -> GetRoundRobin(c, seg, A)
                           [] OTHER                -> GetRedundant(c, seg, A) : A \in SUBSET U}
             Y == {[sk |-> s, clear |-> FALSE] : s \in IF seg.fin THEN U ELSE {}}
  <2>0. Get(sched, c, seg) = X \cup Y
    BY DEF Get
  <2>1. o \in X \/ o \in Y
    <3> HIDE DEF X, Y
    <3> QED
      BY <2>0
  <2>2. CASE o \in Y
    BY <2>2
  <2>3. CASE o \in X
    <3>1. PICK A \in SUBSET U : o \in CASE sched = "default"    -> GetDefault(c, seg, A)
                                       [] sched = "roundrobin" -> GetRoundRobin(c, seg, A)
                                       [] OTHER                -> GetRedundant(c, seg, A)
      BY <2>3
    <3>2. sched = "default" \/ sched = "roundrobin" \/ (sched # "default" /\ sched # "roundrobin")
      OBVIOUS
    <3> QED
      BY <3>1, <3>2
  <2> QED
    BY <2>1, <2>2, <2>3
<1>7. CASE \E s \in U : o = [sk |-> s, clear |-> FALSE]
  BY <1>7
<1> HIDE DEF U
<1> QED
  BY <1>3, <1>4, <1>5, <1>6, <1>7 DEF U

\* A mask in the write queue changes.
WithMask(c, i, m) == [c EXCEPT !.wq[i].mask = m]

LEMMA MaskSet ==
  ASSUME NEW c, Good(c), NEW i \in 1..Len(c.wq), NEW m \in SUBSET Subflow,
         NEW d, d = WithMask(c, i, m)
  PROVE  /\ Sends(c, d) /\ Follows(c, d) /\ d.head = c.head /\ d.nxt = c.nxt /\ Len(d.wq) = Len(c.wq)
         /\ d.wq[i].seq = c.wq[i].seq /\ Lengths(d.wq[i]) = Lengths(c.wq[i])
<1> DEFINE x == [c.wq[i] EXCEPT !.mask = m]
<1>1. c \in Connection(c)
  BY DEF Good
<1>2. c.wq \in Seq(Segment(c)) /\ c.wq[i] \in Segment(c)
  BY <1>1, FieldsAre
<1>4. x \in Segment(c) /\ x.seq = c.wq[i].seq /\ x.end = c.wq[i].end /\ x.inf = c.wq[i].inf
      /\ x.fin = c.wq[i].fin
  BY <1>2 DEF Segment
<1>5. d = WithSegment(c, i, x)
  BY <1>1, <1>2 DEF WithSegment, WithMask, Connection, Segment
<1> HIDE DEF x
<1>6. /\ Good(d) /\ Still(c, d) /\ d.reinj = c.reinj /\ d.head = c.head /\ d.una = c.una /\ d.nxt = c.nxt
      /\ d.faults = c.faults /\ Len(d.wq) = Len(c.wq) /\ d.wq[i] = x
  BY <1>4, <1>5, SegmentChanged
<1>7. Lengths(x) = Lengths(c.wq[i])
  BY <1>4 DEF Lengths, Empty, Bytes
<1> QED
  BY <1>4, <1>6, <1>7 DEF Sends, Follows, Still

\* One segment goes out again on subflow s.
SentOn(c, i, s, f) == [Entail(c, s, c.wq[i], f) EXCEPT !.wq[i].mask = @ \cup {s}]

LEMMA SentAgain ==
  ASSUME NEW c, Good(c), NEW i \in 1..Len(c.wq), NEW s \in Subflow, InOrder(c.sub[s], c.wq[i]),
         NEW f \in Combines(c, c.wq[i]), NEW d, d = SentOn(c, i, s, f)
  PROVE  Follows(c, d) /\ Len(d.wq) = Len(c.wq) /\ d.head = c.head
<1> DEFINE g == Entail(c, s, c.wq[i], f)
<1>1. c.wq[i] \in Segment(c) /\ f \in BOOLEAN
  BY CombinesIs, FieldsAre DEF Good
<1>2. Good(g) /\ Same(c, g)
  BY <1>1, EntailGood
<1> HIDE DEF g
<1>3. g.wq = c.wq /\ g.wq[i] \in Segment(g) /\ i \in 1..Len(g.wq)
  BY <1>2, FieldsAre DEF Same, Good
<1> DEFINE m == g.wq[i].mask \cup {s}
<1>4. m \in SUBSET Subflow
  BY <1>3 DEF Segment
<1>5. d = WithMask(g, i, m)
  BY <1>2, <1>3 DEF g, WithMask, SentOn, Good, Connection, Segment
<1> DEFINE e == WithMask(g, i, m)
<1> HIDE DEF m
<1>6. Follows(g, e) /\ Len(e.wq) = Len(g.wq) /\ e.head = g.head
  BY <1>2, <1>3, <1>4, MaskSet
<1> HIDE DEF e
<1>7. Follows(c, g)
  BY <1>2 DEF Follows, Same
<1> QED
  BY <1>2, <1>5, <1>6, <1>7, FollowsOn DEF Same, e

\* mptcp_retransmit_skb() of segment i.
LEMMA RetransmitGood ==
  ASSUME NEW c, Good(c), NEW i \in 1..Len(c.wq), NEW r \in RetransmitSkb(c, i)
  PROVE  Follows(c, r.c) /\ r.more \in BOOLEAN /\ r = [c |-> r.c, more |-> r.more]
<1> DEFINE seg == c.wq[i]
           Again(s, len) ==
             {[Entail(Fragmented(c, i, len), s, Fragmented(c, i, len).wq[i], f) EXCEPT !.wq[i].mask = @ \cup {s}] :
                f \in Combines(Fragmented(c, i, len), Fragmented(c, i, len).wq[i])}
           None1(o) == [c |-> IF o.clear THEN [c EXCEPT !.wq[i].mask = {}] ELSE c, more |-> TRUE]
           Some(o, d) == [c |-> IF o.clear THEN [d EXCEPT !.wq[i].mask = @ \cap {o.sk}] ELSE d, more |-> TRUE]
<1>1. c \in Connection(c)
  BY DEF Good
<1>2. Follows(c, c)
  BY DEF Follows
<1>3. ASSUME NEW o PROVE Follows(c, None1(o).c)
  <2> DEFINE d == WithMask(c, i, {})
  <2>1. Follows(c, d)
    BY MaskSet
  <2> HIDE DEF d
  <2> QED
    BY <1>2, <2>1 DEF d, WithMask
<1>4. ASSUME NEW o \in Get(c.sched, c, seg), o.sk # None, NEW len \in Lengths(seg), NEW d \in Again(o.sk, len)
      PROVE  Follows(c, Some(o, d).c)
  <2> DEFINE s == o.sk
             g == Fragmented(c, i, len)
  <2>1. Sends(c, g) /\ i \in 1..Len(g.wq) /\ g.wq[i].seq = seg.seq
    BY FragmentedGood
  <2>2. PICK f \in Combines(g, g.wq[i]) : d = SentOn(g, i, s, f)
    BY DEF SentOn
  <2>3. s \in Usable(c, seg)
    BY <1>4, GetIs
  <2>4. s \in Subflow /\ InOrder(g.sub[s], g.wq[i])
    BY <2>1, <2>3, UsableAre DEF Sends
  <2> HIDE DEF g, s
  <2>5. Follows(g, d) /\ Len(d.wq) = Len(g.wq)
    BY <2>1, <2>2, <2>4, SentAgain DEF Sends
  <2>6. Follows(c, d)
    BY <2>1, <2>5, FollowsOn DEF Sends, Still, Follows
  <2> DEFINE m == d.wq[i].mask \cap {s}
             e == WithMask(d, i, m)
  <2>7. Good(d) /\ i \in 1..Len(d.wq)
    BY <2>1, <2>5 DEF Follows
  <2>8. m \in SUBSET Subflow /\ d \in Connection(d) /\ d.wq \in Seq(Segment(d)) /\ d.wq[i] \in Segment(d)
    BY <2>4, <2>7, FieldsAre DEF Good
  <2>9. [d EXCEPT !.wq[i].mask = @ \cap {s}] = e
    BY <2>7, <2>8 DEF WithMask, Connection, Segment
  <2> HIDE DEF m
  <2>10. Follows(d, e)
    BY <2>7, <2>8, MaskSet
  <2> HIDE DEF e
  <2>11. Follows(c, e)
    BY <2>6, <2>10, FollowsOn
  <2>12. Some(o, d).c = e \/ Some(o, d).c = d
    BY <2>9 DEF s
  <2> HIDE DEF Some
  <2> QED
    BY <2>6, <2>11, <2>12
<1> DEFINE X(o) == IF o.sk = None THEN {None1(o)} ELSE {Some(o, d) : d \in UNION {Again(o.sk, len) : len \in Lengths(seg)}}
           W == UNION {X(o) : o \in Get(c.sched, c, seg)}
<1>5. RetransmitSkb(c, i) = {[c |-> c, more |-> FALSE]} \cup W
  BY DEF RetransmitSkb
<1>6. CASE r = [c |-> c, more |-> FALSE]
  BY <1>2, <1>6
<1>7. CASE r \in W
  <2>1. PICK o \in Get(c.sched, c, seg) : r \in X(o)
    BY <1>7
  <2>2. CASE o.sk = None
    <3>1. r = None1(o)
      BY <2>1, <2>2
    <3>2. r.more = TRUE /\ r = [c |-> r.c, more |-> TRUE]
      BY <3>1
    <3> HIDE DEF None1
    <3> QED
      BY <1>3, <3>1, <3>2
  <2>3. CASE o.sk # None
    <3>1. PICK len \in Lengths(seg) : \E d \in Again(o.sk, len) : r = Some(o, d)
      <4> HIDE DEF Again, Some
      <4>1. r \in {Some(o, d) : d \in UNION {Again(o.sk, len) : len \in Lengths(seg)}}
        BY <2>1, <2>3
      <4> QED
        BY <4>1
    <3>2. PICK d \in Again(o.sk, len) : r = Some(o, d)
      BY <3>1
    <3>3. r.more = TRUE /\ r = [c |-> r.c, more |-> TRUE]
      BY <3>2
    <3> HIDE DEF Some, Again
    <3> QED
      BY <1>4, <2>3, <3>2, <3>3
  <2> QED
    BY <2>2, <2>3
<1> QED
  <2> HIDE DEF W
  <2> QED
    BY <1>5, <1>6, <1>7

\* mptcp_xmit_retransmit_queue(): segment after segment.
LEMMA RetransmitQueueGood ==
  ASSUME NEW c, Good(c), NEW d \in XmitRetransmitQueue(c)
  PROVE  Follows(c, d)
<1> DEFINE n == StreamLen[c.sched] + 1
           start == {[c |-> c, more |-> TRUE]}
           U == [c : Universe(c), more : BOOLEAN]
           A == SUBSET U
           Turn(rs, k) == UNION {IF ~r.more \/ k > r.c.head THEN {r} ELSE RetransmitSkb(r.c, k) : r \in rs}
           Q == {r \in U : Follows(c, r.c)}
           G == [k \in 1..n |-> [x \in A |-> Turn(x, k)]]
           B == {Turn(x, k) : x \in A, k \in 1..n}
           P == [m \in SUBSET (1..n) |-> SUBSET Q]
           Folds(it) == it = [m \in SUBSET (1..n) |->
                               IF m = {} THEN start ELSE Turn(it[m \ {Max(m)}], UpTo(n)[Max(m)])]
           it == CHOOSE x : Folds(x)
<1>1. n \in Nat
  BY Constants, FieldsAre DEF Good
<1>2. XmitRetransmitQueue(c) = {r.c : r \in it[1..n]}
  <2>1. DOMAIN UpTo(n) = 1..n
    BY DEF UpTo
  <2> QED
    BY <1>1, <2>1 DEF XmitRetransmitQueue, FoldLeft, MapThenFoldSet
<1>3. \A k \in 1..n : UpTo(n)[k] = k
  BY DEF UpTo
<1>4. ASSUME NEW k \in 1..n, NEW x \in SUBSET Q
      PROVE  Turn(x, k) \in SUBSET Q
  <2>1. ASSUME NEW r \in Q, NEW t \in RetransmitSkb(r.c, k), ~(k > r.c.head)
        PROVE  t \in Q
    <3>1. Good(r.c) /\ Follows(c, r.c)
      BY DEF Follows
    <3>2. r.c.head \in Nat /\ r.c.head <= Len(r.c.wq) /\ Len(r.c.wq) \in Nat
      BY <3>1, FieldsAre DEF Good, Seamless
    <3>3. k \in 1..Len(r.c.wq)
      BY <1>1, <2>1, <3>2
    <3>4. Follows(r.c, t.c) /\ t.more \in BOOLEAN /\ t = [c |-> t.c, more |-> t.more]
      BY <2>1, <3>1, <3>3, RetransmitGood
    <3>5. Follows(c, t.c)
      BY <3>1, <3>4, FollowsOn
    <3>6. t.c \in Universe(c)
      BY <3>5, InUniverse DEF Follows, Good
    <3> QED
      BY <3>4, <3>5, <3>6
  <2>2. ASSUME NEW t \in Turn(x, k) PROVE t \in Q
    <3>1. PICK r \in x : t \in IF ~r.more \/ k > r.c.head THEN {r} ELSE RetransmitSkb(r.c, k)
      OBVIOUS
    <3> HIDE DEF Q
    <3> QED
      BY <2>1, <3>1
  <2> HIDE DEF Turn, Q
  <2> QED
    BY <2>2
<1>5. start \in SUBSET Q
  <2>1. c \in Universe(c) /\ Follows(c, c)
    BY InUniverse DEF Good, Follows
  <2> QED
    BY <2>1
<1>6. Q \subseteq U /\ P \in [SUBSET (1..n) -> SUBSET A] /\ \A m \in SUBSET (1..n) : P[m] = SUBSET Q
  OBVIOUS
<1>8. \A x \in SUBSET Q : x \in A
  BY <1>6
<1>21. \A r \in Q : Follows(c, r.c)
  OBVIOUS
<1> HIDE DEF U, Q, Turn, n
<1>7. G \in [1..n -> [A -> B]] /\ \A k \in 1..n : \A x \in A : G[k][x] = Turn(x, k)
  <2>1. G \in [1..n -> [A -> B]]
    OBVIOUS
  <2>2. \A k \in 1..n : \A x \in A : G[k][x] = Turn(x, k)
    OBVIOUS
  <2> QED
    BY <2>1, <2>2
<1> HIDE DEF B, G, P, A, start
<1>9. start \in P[{}]
  BY <1>5, <1>6
<1>10. \A m \in SUBSET (1..n) : m # {} => \A x \in P[m \ {Max(m)}] : G[Max(m)][x] \in P[m]
  <2> SUFFICES ASSUME NEW m \in SUBSET (1..n), m # {}, NEW x \in P[m \ {Max(m)}] PROVE G[Max(m)][x] \in P[m]
    OBVIOUS
  <2>1. Max(m) \in 1..n /\ m \ {Max(m)} \in SUBSET (1..n)
    BY <1>1, GreatestNumber
  <2>2. x \in SUBSET Q /\ x \in A
    BY <1>6, <1>8, <2>1
  <2> QED
    BY <1>4, <1>6, <1>7, <2>1, <2>2
<1>11. FoldSteps(n, A, B, start, G, P)
  BY <1>1, <1>6, <1>7, <1>9, <1>10 DEF FoldSteps
<1>12. PICK w : FoldKept(w, n, A, start, G, P)
  BY <1>11, FoldKeeps
<1>13. /\ w \in [SUBSET (1..n) -> A]
       /\ \A m \in SUBSET (1..n) :
            w[m] \in P[m] /\ w[m] = IF m = {} THEN start ELSE G[Max(m)][w[m \ {Max(m)}]]
  BY <1>12 DEF FoldKept
<1>14. Folds(w)
  <2>1. ASSUME NEW m \in SUBSET (1..n), m # {}
        PROVE  w[m] = Turn(w[m \ {Max(m)}], UpTo(n)[Max(m)])
    <3>1. Max(m) \in 1..n
      BY <1>1, <2>1, GreatestNumber
    <3>2. w[m \ {Max(m)}] \in A
      BY <1>13
    <3> QED
      BY <1>3, <1>7, <1>13, <2>1, <3>1, <3>2
  <2>2. w[{}] = start /\ w = [m \in SUBSET (1..n) |-> w[m]]
    BY <1>13
  <2> QED
    BY <2>1, <2>2
<1>15. Folds(it)
  <2> HIDE DEF Folds
  <2> QED
    BY <1>14
<1> HIDE DEF it
<1>16. it[{}] = start
  BY <1>15
<1>17. ASSUME NEW m \in SUBSET (1..n), m # {}, it[m \ {Max(m)}] \in A
       PROVE  it[m] = G[Max(m)][it[m \ {Max(m)}]]
  <2>1. Max(m) \in 1..n
    BY <1>1, <1>17, GreatestNumber
  <2>2. it[m] = Turn(it[m \ {Max(m)}], Max(m))
    BY <1>3, <1>15, <1>17, <2>1
  <2> QED
    BY <1>7, <1>17, <2>1, <2>2
<1> HIDE DEF Folds
<1>18. it[1..n] \in P[1..n]
  <2>1. FoldRuns(it, n, A, start, G)
    BY <1>16, <1>17 DEF FoldRuns
  <2> QED
    BY <1>11, <2>1, FoldWithin
<1>19. it[1..n] \in SUBSET Q
  <2>1. 1..n \in SUBSET (1..n)
    OBVIOUS
  <2> QED
    BY <1>6, <1>18, <2>1
<1>20. PICK r \in it[1..n] : d = r.c
  BY <1>2
<1> QED
  BY <1>19, <1>20, <1>21

(***************************************************************************)
(* What the peer acknowledges                                              *)
(***************************************************************************)

LEMMA RestOf ==
  ASSUME NEW S, NEW q \in Seq(S), NEW n \in 0..Len(q)
  PROVE  /\ SubSeq(q, n + 1, Len(q)) \in Seq(S) /\ Len(SubSeq(q, n + 1, Len(q))) = Len(q) - n
         /\ \A k \in 1..Len(q) - n : SubSeq(q, n + 1, Len(q))[k] = q[n + k]
<1> DEFINE y == SubSeq(q, n + 1, Len(q))
<1>1. n + 1 \in 1..Len(q) + 1 /\ Len(q) \in Int /\ (n + 1) - 1 <= Len(q) /\ Len(q) <= Len(q)
      /\ Len(q) - (n + 1) + 1 = Len(q) - n
  OBVIOUS
<1>2. /\ y \in Seq(S) /\ Len(y) = Len(q) - (n + 1) + 1
      /\ \A k \in 1..Len(q) - (n + 1) + 1 : y[k] = q[n + 1 + k - 1]
  BY <1>1, PartIs
<1>3. \A k \in 1..Len(q) - n : n + 1 + k - 1 = n + k
  OBVIOUS
<1> HIDE DEF y
<1> QED
  BY <1>1, <1>2, <1>3 DEF y

\* The segments acknowledged as a whole leave, and the queue starts at, or before, the
\* first byte not acknowledged.
Cleaned(c, a) == CleanRtxQueue([c EXCEPT !.una = a])

LEMMA CleanedGood ==
  ASSUME NEW c, Good(c), NEW a \in Int, Acceptable(c, a), NEW d, d = Cleaned(c, a)
  PROVE  Good(d) /\ Still(c, d) /\ d.una = a
<1>1. c \in Connection(c) /\ Seamless(c) /\ Aligned(c)
  BY DEF Good
<1>2. /\ c.wq \in Seq(Segment(c)) /\ Len(c.wq) \in Nat /\ c.head \in Nat /\ c.head <= Len(c.wq)
      /\ c.reinj \in Seq(Segment(c)) /\ Len(c.reinj) \in Nat /\ c.sched \in Schedulers /\ c.packets_out \in Int
      /\ c.una \in Isn..End(c) + 1 /\ c.nxt \in Isn..End(c) + 1 /\ End(c) \in Nat /\ Isn \in Nat
      /\ c.written \in Isn..End(c) + 1
  BY <1>1, FieldsAre, Constants DEF Seamless
<1>3. c.una <= a /\ a <= c.nxt /\ a \in Isn..End(c) + 1
  BY <1>2 DEF Acceptable
<1> DEFINE N == {i \in 0..c.head : \A j \in 1..i : c.wq[j].end <= a}
           R == {i \in 0..Len(c.reinj) : \A j \in 1..i : c.reinj[j].end <= a}
           n == Max(N)
           r == Max(R)
           q == SubSeq(c.wq, n + 1, Len(c.wq))
           x == SubSeq(c.reinj, r + 1, Len(c.reinj))
           h == c.head - n
           p == c.packets_out - n
<1>4. n \in N
  <2>1. N \in SUBSET (0..c.head) /\ 0 \in N
    BY <1>2
  <2> HIDE DEF N
  <2> QED
    BY <1>2, <2>1, GreatestOrZero
<1>5. r \in 0..Len(c.reinj)
  <2>1. R \in SUBSET (0..Len(c.reinj)) /\ 0 \in R
    BY <1>2
  <2> HIDE DEF R
  <2>2. r \in R
    BY <1>2, <2>1, GreatestOrZero
  <2> QED
    BY <2>1, <2>2
<1>6. d = [c EXCEPT !.una = a, !.wq = q, !.head = h, !.packets_out = p, !.reinj = x]
  BY <1>1 DEF Cleaned, CleanRtxQueue, Connection
<1>7. n \in 0..c.head /\ \A j \in 1..n : c.wq[j].end <= a
  BY <1>4
<1> HIDE DEF n, r
<1>8. /\ q \in Seq(Segment(c)) /\ Len(q) = Len(c.wq) - n /\ \A k \in 1..Len(c.wq) - n : q[k] = c.wq[n + k]
  <2>1. n \in 0..Len(c.wq)
    BY <1>2, <1>7
  <2> QED
    BY <1>2, <2>1, RestOf
<1>9. x \in Seq(Segment(c))
  BY <1>2, <1>5, RestOf
<1> HIDE DEF q, x
<1>10. h \in Nat /\ p \in Int /\ h = c.head - n /\ p = c.packets_out - n
  BY <1>2, <1>7
<1> HIDE DEF h, p
<1>11. /\ d.wq = q /\ d.head = h /\ d.nxt = c.nxt /\ d.packets_out = p /\ d.una = a /\ d.reinj = x
       /\ d.index = c.index /\ d.high = c.high /\ d.sched = c.sched /\ d.written = c.written
       /\ d.faults = c.faults /\ d.send_inf = c.send_inf /\ d.loss = c.loss
       /\ d.wnd_end = c.wnd_end /\ d.timeouts = c.timeouts /\ d.last = c.last
       /\ Requeued(c, d)
  BY <1>1, <1>6, ConnectionIsRecord DEF Requeued, IsRecord, Fields
<1>12. \A k \in 2..Len(c.wq) : c.wq[k].seq = c.wq[k - 1].end
  BY <1>1 DEF Seamless
<1>13. \A k \in 1..Len(c.wq) : c.wq[k].seq \in Nat /\ c.wq[k].end \in Nat
  <2> SUFFICES ASSUME NEW k \in 1..Len(c.wq) PROVE c.wq[k].seq \in Nat /\ c.wq[k].end \in Nat
    OBVIOUS
  <2>1. c.wq[k] \in Segment(c) /\ c.sched \in Schedulers
    BY <1>2
  <2> QED
    BY <2>1, SegmentIs
<1>14. n > 0 => n \in 1..Len(c.wq) /\ c.wq[n].end <= a
  BY <1>2, <1>7
<1>15. ASSUME q # <<>>
       PROVE  /\ q[1].seq <= a /\ q[Len(q)].end = c.written
              /\ n > 0 => q[1].seq = c.wq[n].end
              /\ n = 0 => q[1] = c.wq[1] /\ c.wq # <<>>
  <2>1. n < Len(c.wq) /\ Len(q) \in 1..Len(c.wq) - n /\ n + Len(q) = Len(c.wq) /\ c.wq # <<>> /\ 1 \in 1..Len(c.wq) - n
    <3>1. n \in 0..Len(c.wq) /\ Len(c.wq) \in Nat
      BY <1>2, <1>7
    <3>2. Len(q) = Len(c.wq) - n
      BY <1>8
    <3>3. Len(q) # 0
      BY <1>8, <1>15
    <3>4. n < Len(c.wq) /\ Len(c.wq) # 0
      BY <3>1, <3>2, <3>3
    <3> QED
      BY <3>1, <3>2, <3>4
  <2>2. q[1] = c.wq[n + 1] /\ q[Len(q)] = c.wq[Len(c.wq)]
    BY <1>8, <2>1
  <2>3. n > 0 => q[1].seq = c.wq[n].end
    <3>1. n > 0 => n + 1 \in 2..Len(c.wq) /\ (n + 1) - 1 = n
      BY <1>2, <1>7, <2>1
    <3> QED
      BY <1>12, <2>2, <3>1
  <2>4. n = 0 => q[1] = c.wq[1]
    BY <2>2
  <2>5. c.wq[1].seq <= c.una /\ c.wq[Len(c.wq)].end = c.written
    BY <1>1, <2>1 DEF Seamless
  <2>6. c.wq[1].seq \in Nat
    BY <1>13, <2>1, <1>2
  <2>7. n = 0 => q[1].seq <= a
    BY <1>2, <1>3, <2>4, <2>5, <2>6
  <2>8. n > 0 => q[1].seq <= a
    BY <1>14, <2>3
  <2>9. n = 0 \/ n > 0
    BY <1>2, <1>7
  <2> QED
    BY <2>1, <2>2, <2>3, <2>4, <2>5, <2>7, <2>8, <2>9
<1>16. ASSUME q = <<>>
       PROVE  c.written <= a
  <2>1. n = Len(c.wq)
    BY <1>2, <1>7, <1>8, <1>16
  <2>2. CASE n = 0
    <3>1. c.wq = <<>>
      <4>1. Len(c.wq) = 0 /\ c.wq \in Seq(Segment(c))
        BY <1>2, <2>1, <2>2
      <4> QED
        BY <4>1
    <3> QED
      BY <1>1, <1>2, <1>3, <3>1 DEF Seamless
  <2>3. CASE n > 0
    <3>1. c.wq # <<>>
      BY <1>2, <2>1, <2>3
    <3> QED
      BY <1>1, <1>14, <2>1, <2>3, <3>1 DEF Seamless
  <2> QED
    BY <1>7, <2>2, <2>3
<1>17. Seamless(d)
  <2>1. h <= Len(q)
    BY <1>2, <1>7, <1>8, <1>10
  <2>2. ASSUME NEW k \in 2..Len(q) PROVE q[k].seq = q[k - 1].end
    <3>1. k \in 1..Len(c.wq) - n /\ k - 1 \in 1..Len(c.wq) - n /\ n + k \in 2..Len(c.wq) /\ (n + k) - 1 = n + (k - 1)
      BY <1>2, <1>7, <1>8
    <3> QED
      BY <1>8, <1>12, <3>1
  <2>3. ASSUME NEW k \in 1..Len(q) PROVE ~q[k].inf
    <3>1. k \in 1..Len(c.wq) - n /\ n + k \in 1..Len(c.wq)
      BY <1>2, <1>7, <1>8
    <3> QED
      BY <1>1, <1>8, <3>1 DEF Seamless
  <2> QED
    BY <1>11, <1>15, <1>16, <2>1, <2>2, <2>3 DEF Seamless
<1>18. Aligned(d)
  <2> SUFFICES ASSUME c.sched # "redundant" PROVE Aligned(d)
    BY <1>11 DEF Aligned
  <2>1. /\ c.wq = <<>> => c.una = c.written
        /\ c.nxt = IF c.head = 0 THEN c.una ELSE c.wq[c.head].end
        /\ "inside" \notin c.faults =>
             /\ c.packets_out = c.head
             /\ c.head = 0 /\ c.wq # <<>> => c.wq[1].seq = c.una
    BY <1>1 DEF Aligned
  <2>2. h = 0 => c.head = n
    BY <1>2, <1>7, <1>10
  <2>3. n = 0 \/ n > 0
    BY <1>7
  <2>4. h = 0 => a = c.nxt
    <3>1. CASE n = 0
      BY <1>2, <1>3, <2>1, <2>2, <3>1
    <3>2. CASE n > 0
      BY <1>2, <1>3, <1>13, <1>14, <2>1, <2>2, <3>2
    <3> QED
      BY <2>3, <3>1, <3>2
  <2>5. h # 0 => c.nxt = q[h].end
    <3>0. n \in Int /\ 0 <= n /\ n <= c.head
      BY <1>2, <1>7
    <3>1. ASSUME h # 0 PROVE c.head # 0 /\ h \in 1..Len(c.wq) - n /\ n + h = c.head
      <4>1. h = c.head - n /\ h \in Int /\ c.head \in Int /\ Len(c.wq) \in Int /\ c.head <= Len(c.wq) /\ h >= 1
        BY <1>2, <1>10, <3>1
      <4> HIDE DEF N, R
      <4> QED
        BY <3>0, <4>1
    <3> QED
      BY <1>8, <2>1, <3>1
  <2>6. q = <<>> => a = c.written
    <3>1. q = <<>> => n = Len(c.wq) /\ h = 0 /\ c.head = n
      BY <1>2, <1>7, <1>8, <1>10
    <3>2. q = <<>> => c.written >= c.nxt
      <4>1. CASE n = 0
        BY <1>2, <2>1, <3>1, <4>1
      <4>2. CASE n > 0
        <5>1. q = <<>> => c.wq[Len(c.wq)].end = c.written /\ c.nxt = c.wq[Len(c.wq)].end
          <6>1. q = <<>> => c.wq # <<>>
            BY <1>2, <3>1, <4>2
          <6> QED
            BY <1>1, <2>1, <3>1, <4>2, <6>1 DEF Seamless
        <5> QED
          BY <1>2, <5>1
      <4> QED
        BY <2>3, <4>1, <4>2
    <3> QED
      BY <1>2, <1>3, <1>16, <3>2
  <2>7. ASSUME "inside" \notin c.faults PROVE p = h /\ (h = 0 /\ q # <<>> => q[1].seq = a)
    <3>1. p = h
      BY <1>10, <2>1, <2>7
    <3>2. ASSUME h = 0, q # <<>> PROVE q[1].seq = a
      <4>1. CASE n = 0
        <5>1. c.head = 0 /\ c.wq # <<>> /\ q[1] = c.wq[1]
          BY <1>15, <2>2, <3>2, <4>1
        <5> QED
          BY <2>1, <2>4, <2>7, <3>2, <5>1
      <4>2. CASE n > 0
        <5>1. q[1].seq = c.wq[n].end /\ c.head = n /\ n # 0
          BY <1>15, <2>2, <3>2, <4>2
        <5> QED
          BY <2>1, <2>4, <3>2, <5>1
      <4> QED
        BY <2>3, <4>1, <4>2
    <3> QED
      BY <3>1, <3>2
  <2> QED
    BY <1>11, <2>4, <2>5, <2>6, <2>7 DEF Aligned
<1>19. Good(d) /\ Still(c, d)
  <2>1. d.wq \in Seq(Segment(c)) /\ d.reinj \in Seq(Segment(c)) /\ d.head \in Nat /\ d.packets_out \in Int
        /\ d.una \in Isn..End(c) + 1
    BY <1>3, <1>8, <1>9, <1>10, <1>11
  <2> QED
    BY <1>1, <1>11, <1>17, <1>18, <2>1, FieldsAre, RequeuedGood
<1> QED
  BY <1>11, <1>19

\* mptcp_data_ack() moves snd_una to the number acknowledged, or leaves it.
LEMMA DataAckGood ==
  ASSUME NEW c, Good(c), NEW s \in Subflow, NEW a \in Int, NEW e \in DataAck(c, s, a)
  PROVE  Good(e) /\ e.sched = c.sched /\ (c.inf => e.inf) /\ (e.una = c.una \/ e.una = a)
<1> DEFINE d == [c EXCEPT !.sub[s].pf = FALSE, !.sub[s].est = TRUE, !.sub[s].last_end = None]
           w == [d EXCEPT !.wnd_end = Max({@, a + Wnd})]
           g == CleanRtxQueue([w EXCEPT !.una = a])
<1>1. c \in Connection(c) /\ Row(c, c.sub[s])
  BY DEF Good
<1>2. /\ c.sub \in [Subflow -> Sub(Copy(c))] /\ c.inf \in BOOLEAN /\ c.dfin \in BOOLEAN
      /\ c.una \in Isn..End(c) + 1 /\ c.wnd_end \in Nat /\ Isn \in Nat /\ End(c) \in Nat
  BY <1>1, FieldsAre, Constants
<1> DEFINE v == [c.sub[s] EXCEPT !.pf = FALSE, !.est = TRUE, !.last_end = None]
<1>3. d = WithSub(c, c.inf, c.dfin, s, v)
  BY <1>1, <1>2 DEF WithSub, Connection, Sub
<1>4. Good(d) /\ Same(c, d) /\ d.inf = c.inf
  <2>1. v \in Sub(Copy(c)) /\ v.rx = c.sub[s].rx /\ v.q = c.sub[s].q /\ v.est = TRUE
    BY <1>2 DEF Sub
  <2> HIDE DEF v, d
  <2>2. d.sched = c.sched /\ d.inf = c.inf
    BY <1>1, <1>3 DEF WithSub, Connection
  <2>3. Copy(d) = Copy(c)
    BY <2>2 DEF Copy, Segment, End
  <2>4. Row(d, v)
    BY <1>1, <2>1 DEF Row
  <2>5. v \in Sub(Copy(d))
    BY <2>1, <2>3
  <2> QED
    BY <1>2, <1>3, <2>4, <2>5, SubChanged
<1> HIDE DEF d
<1>5. ASSUME Acceptable(d, a)
      PROVE  Good(w) /\ Still(d, w) /\ w.una = d.una /\ w.nxt = d.nxt
  <2> DEFINE m == Max({d.wnd_end, a + Wnd})
  <2>1. d \in Connection(d)
    BY <1>4 DEF Good
  <2>2. d.wnd_end \in Nat /\ a + Wnd \in Nat
    BY <1>2, <1>4, <1>5, <2>1, FieldsAre, Constants DEF Acceptable, Same
  <2>3. m \in Nat
    <3> DEFINE T == {d.wnd_end, a + Wnd}
               n == d.wnd_end + (a + Wnd)
    <3>1. n \in Nat /\ T \in SUBSET (0..n) /\ T # {}
      BY <2>2
    <3>2. T \in SUBSET Nat
      BY <2>2
    <3> HIDE DEF T, n
    <3>3. Max(T) \in T
      BY <3>1, GreatestOrZero
    <3> QED
      BY <3>2, <3>3 DEF T
  <2>4. w = [d EXCEPT !.wnd_end = m]
    BY <2>1 DEF Connection
  <2> HIDE DEF m, w
  <2>5. Marks(d, w)
    <3>1. w = [d EXCEPT !.loss = w.loss, !.wnd_end = w.wnd_end, !.timeouts = w.timeouts,
                        !.faults = w.faults, !.last = w.last]
          /\ w.loss = d.loss /\ w.wnd_end = m /\ w.timeouts = d.timeouts /\ w.faults = d.faults /\ w.last = d.last
      BY <2>1, <2>4 DEF Connection
    <3> QED
      BY <2>1, <2>3, <3>1, FieldsAre DEF Marks
  <2> QED
    BY <1>4, <2>5, MarksChanged
<1> HIDE DEF w
<1>6. CASE ~Acceptable(d, a)
  <2>1. e \in Push(d)
    BY <1>6 DEF DataAck, d
  <2>2. Follows(d, e)
    BY <1>4, <2>1, PushGood
  <2> QED
    BY <1>4, <2>2 DEF Follows, Same
<1>7. CASE Acceptable(d, a) /\ d.packets_out = 0
  <2>1. e \in Push(w)
    BY <1>7 DEF DataAck, d, w
  <2>2. Follows(w, e)
    BY <1>5, <1>7, <2>1, PushGood
  <2> QED
    BY <1>4, <1>5, <1>7, <2>2 DEF Follows, Same, Still
<1>8. CASE Acceptable(d, a) /\ d.packets_out # 0
  <2>1. g = Cleaned(w, a)
    BY DEF Cleaned
  <2>2. Acceptable(w, a)
    BY <1>5, <1>8 DEF Acceptable
  <2>3. Good(g) /\ Still(w, g) /\ g.una = a
    BY <1>5, <1>8, <2>1, <2>2, CleanedGood
  <2>4. PICK h \in IF RestartsQueue(c, a) THEN {[r EXCEPT !.loss = FALSE] : r \in XmitRetransmitQueue(g)} ELSE {g} :
          e \in Push(h)
    BY <1>8 DEF DataAck, d, w
  <2> HIDE DEF g
  <2>5. Follows(g, h)
    <3>1. CASE h = g
      BY <2>3, <3>1 DEF Follows
    <3>2. CASE h # g
      <4>1. PICK r \in XmitRetransmitQueue(g) : h = [r EXCEPT !.loss = FALSE]
        BY <2>4, <3>2
      <4>2. Follows(g, r)
        BY <2>3, RetransmitQueueGood
      <4>3. r \in Connection(r)
        BY <4>2 DEF Follows, Good
      <4>4. Marks(r, h)
        <5>1. h = [r EXCEPT !.loss = h.loss, !.wnd_end = h.wnd_end, !.timeouts = h.timeouts,
                            !.faults = h.faults, !.last = h.last]
              /\ h.loss = FALSE /\ h.wnd_end = r.wnd_end /\ h.timeouts = r.timeouts /\ h.faults = r.faults /\ h.last = r.last
          BY <4>1, <4>3 DEF Connection
        <5> QED
          BY <4>3, <5>1, FieldsAre DEF Marks
      <4>5. Good(h) /\ Still(r, h) /\ h.una = r.una
        BY <4>2, <4>4, MarksChanged DEF Follows
      <4> QED
        BY <4>2, <4>5 DEF Follows, Still
    <3> QED
      BY <3>1, <3>2
  <2>6. Follows(h, e)
    BY <2>4, <2>5, PushGood DEF Follows
  <2>7. Follows(g, e)
    BY <2>5, <2>6, FollowsOn
  <2> QED
    BY <1>4, <1>5, <1>8, <2>3, <2>7 DEF Follows, Same, Still
<1> QED
  BY <1>6, <1>7, <1>8

(***************************************************************************)
(* Reinjection                                                             *)
(***************************************************************************)

\* Nothing but the reinject queue changes.
Kin(c, d) == Good(d) /\ Still(c, d) /\ Same(c, d)

LEMMA KinOn ==
  ASSUME NEW c, NEW d, NEW e, Kin(c, d), Kin(d, e)
  PROVE  Kin(c, e)
BY DEF Kin, Still, Same

LEMMA InsertedIs ==
  ASSUME NEW S, NEW queue \in Seq(S), NEW seg \in S
  PROVE  Inserted(queue, seg) \in Seq(S)
<1> DEFINE l    == Len(queue)
           T    == {0} \cup {p \in DOMAIN queue : queue[p].seq <= seg.seq}
           prev == Max(T)
           p    == IF prev > 0 /\ queue[prev].seq = seg.seq THEN prev - 1 ELSE prev
           L    == {o \in p..l : \A i \in p + 1..o : queue[i].seq < seg.end}
           last == Max(L)
<1>0. l \in Nat
  OBVIOUS
<1>1. prev \in 0..l
  <2>1. T \in SUBSET (0..l) /\ T # {}
    OBVIOUS
  <2> HIDE DEF T
  <2>2. prev \in T
    BY <1>0, <2>1, GreatestOrZero
  <2> QED
    BY <2>1, <2>2
<1> HIDE DEF prev
<1>2. p \in 0..l
  BY <1>0, <1>1
<1> HIDE DEF p
<1>3. last \in p..l
  <2>1. L \in SUBSET (0..l) /\ p \in L
    BY <1>0, <1>2
  <2>2. L \subseteq p..l
    OBVIOUS
  <2> HIDE DEF L
  <2>3. last \in L
    BY <1>0, <2>1, GreatestOrZero
  <2> QED
    BY <2>2, <2>3
<1> HIDE DEF last
<1>4. SubSeq(queue, 1, p) \in Seq(S)
  BY <1>0, <1>2, PartIs
<1>5. SubSeq(queue, last + 1, l) \in Seq(S)
  <2>1. last \in 0..l
    BY <1>0, <1>2, <1>3
  <2> QED
    BY <2>1, RestOf
<1>6. <<seg>> \in Seq(S)
  OBVIOUS
<1> DEFINE x == SubSeq(queue, 1, p)
           y == SubSeq(queue, last + 1, l)
           z == <<seg>>
<1>7. Inserted(queue, seg) = queue \/ Inserted(queue, seg) = x \o z \o y
  BY DEF Inserted, prev, p, last
<1> HIDE DEF x, y, z
<1>8. x \in Seq(S) /\ y \in Seq(S) /\ z \in Seq(S)
  BY <1>4, <1>5, <1>6 DEF x, y, z
<1>9. x \o z \in Seq(S)
  BY <1>8, ConcatProperties
<1>10. (x \o z) \o y \in Seq(S)
  BY <1>8, <1>9, ConcatProperties
<1> QED
  BY <1>7, <1>10

LEMMA ReinjectSegGood ==
  ASSUME NEW c, Good(c), NEW seg \in Segment(c), NEW d, d = ReinjectSeg(c, seg)
  PROVE  Kin(c, d)
<1>1. c \in Connection(c)
  BY DEF Good
<1>2. c.wq \in Seq(Segment(c)) /\ c.reinj \in Seq(Segment(c)) /\ c.head \in Nat /\ c.head <= Len(c.wq) /\ Len(c.wq) \in Nat
  BY <1>1, FieldsAre DEF Good, Seamless
<1>3. WithPathmask(c, seg) \in Segment(c)
  <2> DEFINE same == {i \in 1..c.head : c.wq[i].seq = seg.seq}
  <2>1. CASE same = {}
    BY <2>1 DEF WithPathmask
  <2>2. CASE same # {}
    <3>1. Min(same) \in same
      <4>1. same \in SUBSET Nat
        OBVIOUS
      <4> HIDE DEF same
      <4> QED
        BY <2>2, <4>1, LeastNumber
    <3>2. Min(same) \in 1..Len(c.wq)
      BY <1>2, <3>1
    <3> DEFINE m == c.wq[Min(same)].mask
    <3>3. m \in SUBSET Subflow
      <4> HIDE DEF same
      <4>1. c.wq[Min(same)] \in Segment(c)
        BY <1>2, <3>2
      <4> QED
        BY <4>1 DEF Segment
    <3>4. WithPathmask(c, seg) = [seg EXCEPT !.mask = m]
      BY <2>2 DEF WithPathmask
    <3> HIDE DEF m
    <3> QED
      BY <3>3, <3>4 DEF Segment
  <2> QED
    BY <2>1, <2>2
<1> DEFINE q == Inserted(c.reinj, WithPathmask(c, seg))
<1>4. q \in Seq(Segment(c))
  BY <1>2, <1>3, InsertedIs
<1>5. CASE seg.end <= c.una
  BY <1>5 DEF ReinjectSeg, Kin, Still, Same
<1>6. CASE ~(seg.end <= c.una)
  <2>1. d = WithReinj(c, q)
    BY <1>1, <1>6 DEF ReinjectSeg, WithReinj, Connection
  <2> HIDE DEF q
  <2> QED
    BY <1>4, <2>1, ReinjChanged DEF Kin
<1> QED
  BY <1>5, <1>6

\* The connections __mptcp_reinject_data() can lead to.
Family(c) == {e \in Universe(c) : Kin(c, e)}

LEMMA InFamily ==
  ASSUME NEW c, NEW d, Kin(c, d)
  PROVE  d \in Family(c)
<1>1. d \in Connection(d) /\ d.sched = c.sched
  BY DEF Kin, Good, Still
<1> QED
  BY <1>1, InUniverse DEF Family

LEMMA OfFamily ==
  ASSUME NEW c, Good(c), NEW d \in Family(c)
  PROVE  /\ Kin(c, d) /\ Good(d) /\ d.wq = c.wq /\ d.wq \in Seq(Segment(d))
         /\ Segment(c) \subseteq Segment(d) /\ Copy(c) \subseteq Copy(d)
<1>1. Kin(c, d)
  BY DEF Family
<1>2. Good(d) /\ d.sched = c.sched /\ (c.inf => d.inf) /\ d.wq = c.wq
  BY <1>1 DEF Kin, Still, Same
<1>3. d.wq \in Seq(Segment(d))
  BY <1>2, FieldsAre DEF Good
<1>4. Segment(c) \subseteq Segment(d) /\ Copy(c) \subseteq Copy(d)
  BY <1>2, SetsGrow
<1> QED
  BY <1>1, <1>2, <1>3, <1>4

\* The segments a copy covers, one after the other.
LEMMA ReinjectCoveredGood ==
  ASSUME NEW c, Good(c), NEW seg
  PROVE  Kin(c, ReinjectCovered(c, seg))
<1> DEFINE n == Len(c.wq)
           Q == Family(c)
           Turn(d, i) == IF i \in Covering(c, seg) THEN ReinjectSeg(d, d.wq[i]) ELSE d
           G == [k \in 1..n |-> [x \in Q |-> Turn(x, k)]]
           Folds(it) == it = [m \in SUBSET (1..n) |->
                               IF m = {} THEN c ELSE Turn(it[m \ {Max(m)}], UpTo(n)[Max(m)])]
           it == CHOOSE x : Folds(x)
<1>1. n \in Nat
  BY FieldsAre DEF Good
<1>2. ReinjectCovered(c, seg) = it[1..n]
  <2>1. DOMAIN UpTo(n) = 1..n
    BY DEF UpTo
  <2> QED
    BY <1>1, <2>1 DEF ReinjectCovered, FoldLeft, MapThenFoldSet
<1>3. \A k \in 1..n : UpTo(n)[k] = k
  BY DEF UpTo
<1>4. ASSUME NEW k \in 1..n, NEW x \in Q
      PROVE  Turn(x, k) \in Q
  <2>1. Kin(c, x) /\ Good(x) /\ x.wq[k] \in Segment(x)
    BY <1>1, OfFamily
  <2>2. Kin(x, ReinjectSeg(x, x.wq[k]))
    BY <2>1, ReinjectSegGood
  <2>3. ReinjectSeg(x, x.wq[k]) \in Q
    BY <2>1, <2>2, KinOn, InFamily
  <2> QED
    BY <2>3
<1>5. c \in Q
  <2>1. Kin(c, c)
    BY DEF Kin, Still, Same
  <2> QED
    BY <2>1, InFamily
<1> HIDE DEF Q, Turn, n
<1>6. G \in [1..n -> [Q -> Q]] /\ \A k \in 1..n : \A x \in Q : G[k][x] = Turn(x, k)
  BY <1>4
<1> HIDE DEF G
<1>7. PICK w : w \in FoldsOf(n, Q, c, G)
  BY <1>1, <1>5, <1>6, FoldExists
<1>8. Folds(w)
  <2>1. ASSUME NEW m \in SUBSET (1..n), m # {}
        PROVE  w[m] = Turn(w[m \ {Max(m)}], UpTo(n)[Max(m)])
    <3>1. Max(m) \in 1..n
      BY <1>1, <2>1, GreatestNumber
    <3>2. w[m \ {Max(m)}] \in Q /\ w[m] = G[Max(m)][w[m \ {Max(m)}]]
      BY <1>7, <2>1 DEF FoldsOf
    <3> QED
      BY <1>3, <1>6, <3>1, <3>2
  <2>2. w[{}] = c /\ w = [m \in SUBSET (1..n) |-> w[m]]
    BY <1>7 DEF FoldsOf
  <2> QED
    BY <2>1, <2>2
<1>9. Folds(it)
  <2> HIDE DEF Folds
  <2> QED
    BY <1>8
<1> HIDE DEF it
<1>10. FoldRuns(it, n, Q, c, G)
  <2>1. it[{}] = c
    BY <1>9
  <2>2. ASSUME NEW m \in SUBSET (1..n), m # {}, it[m \ {Max(m)}] \in Q
        PROVE  it[m] = G[Max(m)][it[m \ {Max(m)}]]
    <3>1. Max(m) \in 1..n
      BY <1>1, <2>2, GreatestNumber
    <3>2. it[m] = Turn(it[m \ {Max(m)}], Max(m))
      BY <1>3, <1>9, <2>2, <3>1
    <3> QED
      BY <1>6, <2>2, <3>1, <3>2
  <2> QED
    BY <2>1, <2>2 DEF FoldRuns
<1>11. it[1..n] \in Q
  BY <1>1, <1>5, <1>6, <1>10, FoldStays
<1> QED
  BY <1>2, <1>11 DEF Q, Family, n

LEMMA ReinjectCopyGood ==
  ASSUME NEW c, Good(c), NEW copy \in Copy(c)
  PROVE  Kin(c, ReinjectCopy(c, copy))
<1>1. copy.seg \in Segment(c)
  BY DEF Copy
<1>2. [copy.seg EXCEPT !.rj = TRUE] \in Segment(c)
  <2> DEFINE new == [copy.seg EXCEPT !.rj = TRUE]
  <2>1. /\ new \in [seq : Nat, end : Nat, fin : BOOLEAN, mask : SUBSET Subflow, hi : 0..1,
                    rj : BOOLEAN, inf : BOOLEAN, cut : BOOLEAN]
        /\ new.seq = copy.seg.seq /\ new.end = copy.seg.end /\ new.fin = copy.seg.fin /\ new.inf = copy.seg.inf
    BY <1>1 DEF Segment
  <2> HIDE DEF new
  <2> QED
    BY <1>1, <2>1 DEF Segment
<1>3. Kin(c, c)
  BY DEF Kin, Still, Same
<1>4. Kin(c, ReinjectSeg(c, [copy.seg EXCEPT !.rj = TRUE]))
  BY <1>2, ReinjectSegGood
<1>5. Kin(c, ReinjectCovered(c, copy.seg))
  BY ReinjectCoveredGood
<1>6. CASE copy.seg.end <= c.una
  <2>1. copy.seg.end \in Nat /\ c.una \in Nat
    <3>1. c \in Connection(c)
      BY DEF Good
    <3>2. c.una \in Isn..End(c) + 1 /\ End(c) \in Nat /\ Isn \in Nat
      BY <3>1, FieldsAre, Constants
    <3> QED
      BY <1>1, <3>2 DEF Segment
  <2>2. ~(copy.seg.end > c.una)
    BY <1>6, <2>1
  <2> QED
    BY <1>3, <1>6, <2>2 DEF ReinjectCopy
<1>7. CASE copy.seg.end > c.una /\ copy.to - copy.from = Bytes(copy.seg)
  BY <1>4, <1>7 DEF ReinjectCopy
<1>8. CASE ~(copy.seg.end <= c.una) /\ ~(copy.seg.end > c.una /\ copy.to - copy.from = Bytes(copy.seg))
  BY <1>5, <1>8 DEF ReinjectCopy
<1> QED
  BY <1>6, <1>7, <1>8

\* The copies of a subflow, one after the other.
LEMMA ReinjectCopiesGood ==
  ASSUME NEW c, Good(c), NEW q \in Seq(Copy(c))
  PROVE  Kin(c, ReinjectCopies(c, q))
<1> DEFINE n == Len(q)
           Q == Family(c)
           Turn(d, copy) == IF ToReinject(copy) THEN ReinjectCopy(d, copy) ELSE d
           G == [k \in 1..n |-> [x \in Q |-> Turn(x, q[k])]]
           Folds(it) == it = [m \in SUBSET (1..n) |->
                               IF m = {} THEN c ELSE Turn(it[m \ {Max(m)}], q[Max(m)])]
           it == CHOOSE x : Folds(x)
<1>1. n \in Nat
  OBVIOUS
<1>2. ReinjectCopies(c, q) = it[1..n]
  <2>1. DOMAIN q = 1..n
    OBVIOUS
  <2> QED
    BY <1>1, <2>1 DEF ReinjectCopies, FoldLeft, MapThenFoldSet
<1>3. \A k \in 1..n : q[k] \in Copy(c)
  OBVIOUS
<1>4. ASSUME NEW k \in 1..n, NEW x \in Q
      PROVE  Turn(x, q[k]) \in Q
  <2>1. Kin(c, x) /\ Good(x) /\ q[k] \in Copy(x)
    BY <1>3, OfFamily
  <2>2. Kin(x, ReinjectCopy(x, q[k]))
    BY <2>1, ReinjectCopyGood
  <2>3. ReinjectCopy(x, q[k]) \in Q
    BY <2>1, <2>2, KinOn, InFamily
  <2> QED
    BY <2>3
<1>5. c \in Q
  <2>1. Kin(c, c)
    BY DEF Kin, Still, Same
  <2> QED
    BY <2>1, InFamily
<1> HIDE DEF Q, Turn, n
<1>6. G \in [1..n -> [Q -> Q]] /\ \A k \in 1..n : \A x \in Q : G[k][x] = Turn(x, q[k])
  BY <1>4
<1> HIDE DEF G
<1>7. PICK w : w \in FoldsOf(n, Q, c, G)
  BY <1>1, <1>5, <1>6, FoldExists
<1>8. Folds(w)
  <2>1. ASSUME NEW m \in SUBSET (1..n), m # {}
        PROVE  w[m] = Turn(w[m \ {Max(m)}], q[Max(m)])
    <3>1. Max(m) \in 1..n
      BY <1>1, <2>1, GreatestNumber
    <3>2. w[m \ {Max(m)}] \in Q /\ w[m] = G[Max(m)][w[m \ {Max(m)}]]
      BY <1>7, <2>1 DEF FoldsOf
    <3> QED
      BY <1>6, <3>1, <3>2
  <2>2. w[{}] = c /\ w = [m \in SUBSET (1..n) |-> w[m]]
    BY <1>7 DEF FoldsOf
  <2> QED
    BY <2>1, <2>2
<1>9. Folds(it)
  <2> HIDE DEF Folds
  <2> QED
    BY <1>8
<1> HIDE DEF it
<1>10. FoldRuns(it, n, Q, c, G)
  <2>1. it[{}] = c
    BY <1>9
  <2>2. ASSUME NEW m \in SUBSET (1..n), m # {}, it[m \ {Max(m)}] \in Q
        PROVE  it[m] = G[Max(m)][it[m \ {Max(m)}]]
    <3>1. Max(m) \in 1..n
      BY <1>1, <2>2, GreatestNumber
    <3>2. it[m] = Turn(it[m \ {Max(m)}], q[Max(m)])
      BY <1>9, <2>2, <3>1
    <3> QED
      BY <1>6, <2>2, <3>1, <3>2
  <2> QED
    BY <2>1, <2>2 DEF FoldRuns
<1>11. it[1..n] \in Q
  BY <1>1, <1>5, <1>6, <1>10, FoldStays
<1> QED
  BY <1>2, <1>11 DEF Q, Family, n

\* A connection whose queues stand as they stood, whatever has become of the subflows.
Beside(c, d) == Good(d) /\ Same(c, d)

LEMMA FlaggedGood ==
  ASSUME NEW c, Good(c), NEW s \in Subflow, NEW d, d = Flagged(c, s)
  PROVE  Beside(c, d) /\ Copy(c) \subseteq Copy(d)
<1> DEFINE u == c.sub[s]
           q == [k \in DOMAIN u.q |-> Marked(u.q[k])]
           v == [u EXCEPT !.pf = TRUE, !.q = q]
<1>1. c \in Connection(c) /\ Row(c, u)
  BY DEF Good
<1>2. c.sub \in [Subflow -> Sub(Copy(c))] /\ u \in Sub(Copy(c)) /\ c.inf \in BOOLEAN /\ c.dfin \in BOOLEAN
  BY <1>1, FieldsAre
<1>3. d = WithSub(c, c.inf, c.dfin, s, v)
  BY <1>1, <1>2 DEF Flagged, WithSub, Connection, Sub
<1>4. u.q \in Seq(Copy(c)) /\ u.rx \in Nat /\ Len(u.q) \in Nat /\ DOMAIN u.q = 1..Len(u.q)
  BY <1>2 DEF Sub
<1>5. ASSUME NEW copy \in Copy(c)
      PROVE  Marked(copy) \in Copy(c) /\ Marked(copy).from = copy.from /\ Marked(copy).to = copy.to
  <2> DEFINE seg == [copy.seg EXCEPT !.rj = @ \/ copy.to > copy.from]
  <2>1. copy.seg \in Segment(c)
    BY DEF Copy
  <2>2. /\ seg \in [seq : Nat, end : Nat, fin : BOOLEAN, mask : SUBSET Subflow, hi : 0..1,
                    rj : BOOLEAN, inf : BOOLEAN, cut : BOOLEAN]
        /\ seg.seq = copy.seg.seq /\ seg.end = copy.seg.end /\ seg.fin = copy.seg.fin /\ seg.inf = copy.seg.inf
    BY <2>1 DEF Segment
  <2>3. Marked(copy) = [copy EXCEPT !.seg = seg]
    BY DEF Copy, Marked
  <2> HIDE DEF seg
  <2>4. seg \in Segment(c)
    BY <2>1, <2>2 DEF Segment
  <2>5. Bytes(seg) = Bytes(copy.seg)
    BY <2>2 DEF Bytes
  <2> QED
    BY <2>2, <2>3, <2>4, <2>5 DEF Copy
<1>6. q \in Seq(Copy(c)) /\ Len(q) = Len(u.q)
  <2>1. q \in [1..Len(u.q) -> Copy(c)]
    BY <1>4, <1>5
  <2> HIDE DEF q
  <2> QED
    BY <1>4, <2>1
<1>7. \A k \in 1..Len(u.q) : q[k].from = u.q[k].from /\ q[k].to = u.q[k].to
  BY <1>4, <1>5
<1> HIDE DEF q
<1>8. v \in Sub(Copy(c)) /\ v.q = q /\ v.rx = u.rx /\ v.est = u.est /\ v.last_end = u.last_end
  BY <1>2, <1>6 DEF Sub
<1>9. d.inf = c.inf /\ d.sched = c.sched
  BY <1>1, <1>3 DEF WithSub, Connection
<1>10. End(d) = End(c) /\ Copy(c) \subseteq Copy(d) /\ Sub(Copy(c)) \subseteq Sub(Copy(d))
  BY <1>9, SetsGrow
<1> HIDE DEF v
<1>11. Row(d, v)
  <2>1. v.rx <= Len(v.q)
    BY <1>1, <1>6, <1>8 DEF Row
  <2>2. ASSUME ~v.est
        PROVE  /\ \A k \in 2..Len(v.q) : v.q[k].from = v.q[k - 1].to
               /\ v.q # <<>> => v.last_end # None /\ (v.q[Len(v.q)].to = v.last_end \/ v.last_end = End(d) + 1)
    <3>1. /\ \A k \in 2..Len(u.q) : u.q[k].from = u.q[k - 1].to
          /\ u.q # <<>> => u.last_end # None /\ (u.q[Len(u.q)].to = u.last_end \/ u.last_end = End(c) + 1)
      BY <1>1, <1>8, <2>2 DEF Row
    <3>2. ASSUME NEW k \in 2..Len(q) PROVE q[k].from = q[k - 1].to
      <4>1. k \in 1..Len(u.q) /\ k - 1 \in 1..Len(u.q)
        BY <1>4, <1>6, <3>2
      <4> QED
        BY <1>6, <1>7, <3>1, <4>1
    <3>3. q # <<>> => u.q # <<>> /\ q[Len(q)].to = u.q[Len(u.q)].to
      <4>1. q # <<>> => u.q # <<>> /\ Len(q) \in 1..Len(u.q)
        BY <1>4, <1>6
      <4> QED
        BY <1>6, <1>7, <4>1
    <3> QED
      BY <1>8, <1>10, <3>1, <3>2, <3>3
  <2> QED
    BY <2>1, <2>2 DEF Row
<1> QED
  BY <1>2, <1>3, <1>8, <1>10, <1>11, SubChanged DEF Beside

LEMMA BesideOn ==
  ASSUME NEW c, NEW d, NEW e, Beside(c, d), Kin(d, e)
  PROVE  Beside(c, e)
BY SameFollows DEF Beside, Kin

\* __mptcp_reinject_data(), with the DATA_FIN that went out on its own.
LEMMA ReinjectGood ==
  ASSUME NEW c, Good(c), NEW s \in Subflow
  PROVE  Beside(c, Reinject(c, s))
<1> DEFINE e == Flagged(c, s)
           d == ReinjectCopies(e, c.sub[s].q)
<1>1. c \in Connection(c)
  BY DEF Good
<1>2. Beside(c, e) /\ Copy(c) \subseteq Copy(e)
  BY FlaggedGood
<1>3. c.sub[s].q \in Seq(Copy(c))
  BY <1>1, FieldsAre DEF Sub
<1>4. c.sub[s].q \in Seq(Copy(e))
  BY <1>2, <1>3
<1> HIDE DEF e
<1>5. Kin(e, d)
  BY <1>2, <1>4, ReinjectCopiesGood DEF Beside
<1> HIDE DEF d
<1>6. Beside(c, d)
  BY <1>2, <1>5, BesideOn
<1>7. CASE LeavesEmptyFin(c, s)
  <2>1. d.wq = c.wq /\ c.wq # <<>>
    BY <1>6, <1>7 DEF Beside, Same, LeavesEmptyFin
  <2>2. Last(d.wq) \in Segment(d)
    <3>1. d.wq \in Seq(Segment(d))
      BY <1>6, FieldsAre DEF Beside, Good
    <3> QED
      BY <2>1, <3>1 DEF Last
  <2>3. Kin(d, ReinjectSeg(d, Last(d.wq)))
    BY <1>6, <2>2, ReinjectSegGood DEF Beside
  <2>4. Beside(c, ReinjectSeg(d, Last(d.wq)))
    BY <1>6, <2>3, BesideOn
  <2> QED
    BY <1>7, <2>4 DEF Reinject, d, e
<1>8. CASE ~LeavesEmptyFin(c, s)
  BY <1>6, <1>8 DEF Reinject, d, e
<1> QED
  BY <1>7, <1>8

LEMMA SubReplaced ==
  ASSUME NEW c, Good(c), NEW s \in Subflow, NEW v \in Sub(Copy(c)), Row(c, v),
         NEW d, d = WithSub(c, c.inf, c.dfin, s, v)
  PROVE  Beside(c, d) /\ d.sub[s] = v
<1>1. c \in Connection(c)
  BY DEF Good
<1>2. c.inf \in BOOLEAN /\ c.dfin \in BOOLEAN
  BY <1>1, FieldsAre
<1>3. d.inf = c.inf /\ d.sched = c.sched
  BY <1>1 DEF WithSub, Connection
<1>4. End(d) = End(c) /\ Sub(Copy(c)) \subseteq Sub(Copy(d))
  BY <1>3, SetsGrow
<1>5. v \in Sub(Copy(d)) /\ Row(d, v)
  BY <1>4 DEF Row
<1> QED
  BY <1>2, <1>5, SubChanged DEF Beside

\* mptcp_del_sock().
LEMMA ClosedGood ==
  ASSUME NEW c, Good(c), NEW s \in Subflow
  PROVE  Beside(c, Closed(c, s))
<1> DEFINE shut  == [c.sub[s] EXCEPT !.open = FALSE]
           d     == [c EXCEPT !.sub[s].open = FALSE]
           e     == IF c.sub[s].q = <<>> THEN d ELSE Reinject(d, s)
           empty == [e.sub[s] EXCEPT !.q = <<>>, !.rx = 0]
           f     == [e EXCEPT !.sub[s].q = <<>>, !.sub[s].rx = 0]
<1>1. c \in Connection(c) /\ Row(c, c.sub[s])
  BY DEF Good
<1>2. c.sub \in [Subflow -> Sub(Copy(c))] /\ c.inf \in BOOLEAN /\ c.dfin \in BOOLEAN
  BY <1>1, FieldsAre
<1>3. shut \in Sub(Copy(c)) /\ Row(c, shut)
  BY <1>1, <1>2 DEF Sub, Row
<1>4. d = WithSub(c, c.inf, c.dfin, s, shut)
  BY <1>1, <1>2 DEF WithSub, Connection
<1> HIDE DEF d, shut
<1>5. Beside(c, d)
  BY <1>3, <1>4, SubReplaced
<1>6. Beside(d, e)
  <2>1. Beside(d, d)
    BY <1>5 DEF Beside, Same
  <2>2. Beside(d, Reinject(d, s))
    BY <1>5, ReinjectGood DEF Beside
  <2> QED
    BY <2>1, <2>2
<1> HIDE DEF e
<1>7. Good(e) /\ e \in Connection(e)
  BY <1>6 DEF Beside, Good
<1>8. e.sub \in [Subflow -> Sub(Copy(e))] /\ e.inf \in BOOLEAN /\ e.dfin \in BOOLEAN
  BY <1>7, FieldsAre
<1>9. empty \in Sub(Copy(e)) /\ Row(e, empty)
  <2> DEFINE K == Copy(e)
  <2> HIDE DEF K
  <2>1. e.sub[s] \in Sub(K)
    BY <1>8 DEF K
  <2>2. empty \in Sub(K) /\ empty.q = <<>> /\ empty.rx = 0
    <3> DEFINE S == Seq(K)
               u == e.sub[s]
    <3>1. <<>> \in S /\ 0 \in Nat
      OBVIOUS
    <3>2. u \in [q : S, rx : Nat, open : BOOLEAN, pf : BOOLEAN, est : BOOLEAN, last_end : Nat \cup {None}]
      BY <2>1 DEF Sub
    <3> HIDE DEF S, u
    <3>3. [u EXCEPT !.q = <<>>, !.rx = 0] \in
            [q : S, rx : Nat, open : BOOLEAN, pf : BOOLEAN, est : BOOLEAN, last_end : Nat \cup {None}]
      BY <3>1, <3>2
    <3>4. [u EXCEPT !.q = <<>>, !.rx = 0].q = <<>> /\ [u EXCEPT !.q = <<>>, !.rx = 0].rx = 0
      BY <3>2
    <3> QED
      BY <3>3, <3>4 DEF Sub, S, u
  <2> HIDE DEF empty
  <2>3. Len(empty.q) = 0
    BY <2>2
  <2> QED
    BY <2>2, <2>3 DEF Row, K
<1>10. f = WithSub(e, e.inf, e.dfin, s, empty)
  BY <1>7, <1>8 DEF WithSub, Connection
<1> HIDE DEF f, empty
<1>11. Beside(e, f)
  BY <1>7, <1>9, <1>10, SubReplaced
<1>12. Beside(c, f)
  BY <1>5, <1>6, <1>11, SameFollows DEF Beside
<1> QED
  BY <1>12 DEF Closed, f, e, d

\* The subflows that mptcp_mp_fail_rcvd() closes, one after the other.
LEMMA OthersClosedGood ==
  ASSUME NEW c, Good(c), NEW s
  PROVE  Beside(c, OthersClosed(c, s))
<1> DEFINE n == Cardinality(Subflow)
           Q == {e \in Universe(c) : Beside(c, e)}
           Turn(d, t) == IF t \in Open(c) \ {s} THEN Closed(d, t) ELSE d
           G == [k \in 1..n |-> [x \in Q |-> Turn(x, k)]]
           Folds(it) == it = [m \in SUBSET (1..n) |->
                               IF m = {} THEN c ELSE Turn(it[m \ {Max(m)}], UpTo(n)[Max(m)])]
           it == CHOOSE x : Folds(x)
<1>1. n \in Nat
  BY Constants
<1>2. OthersClosed(c, s) = it[1..n]
  <2>1. DOMAIN UpTo(n) = 1..n
    BY DEF UpTo
  <2> QED
    BY <1>1, <2>1 DEF OthersClosed, FoldLeft, MapThenFoldSet
<1>3. \A k \in 1..n : UpTo(n)[k] = k
  BY DEF UpTo
<1>4. ASSUME NEW d, Beside(c, d)
      PROVE  d \in Q
  BY <1>4, InUniverse DEF Beside, Good, Same
<1>5. ASSUME NEW k \in 1..n, NEW x \in Q
      PROVE  Turn(x, k) \in Q
  <2>1. k \in Subflow
    BY Constants
  <2>2. Beside(x, Closed(x, k))
    BY <2>1, ClosedGood DEF Beside
  <2>3. Beside(c, Closed(x, k))
    BY <2>2, SameFollows DEF Beside
  <2>4. Closed(x, k) \in Q
    BY <1>4, <2>3
  <2> QED
    BY <2>4
<1>6. c \in Q
  <2>1. Beside(c, c)
    BY DEF Beside, Same
  <2> QED
    BY <1>4, <2>1
<1>7. \A x \in Q : Beside(c, x)
  OBVIOUS
<1> HIDE DEF Q, Turn, n
<1>8. G \in [1..n -> [Q -> Q]] /\ \A k \in 1..n : \A x \in Q : G[k][x] = Turn(x, k)
  BY <1>5
<1> HIDE DEF G
<1>9. PICK w : w \in FoldsOf(n, Q, c, G)
  BY <1>1, <1>6, <1>8, FoldExists
<1>10. Folds(w)
  <2>1. ASSUME NEW m \in SUBSET (1..n), m # {}
        PROVE  w[m] = Turn(w[m \ {Max(m)}], UpTo(n)[Max(m)])
    <3>1. Max(m) \in 1..n
      BY <1>1, <2>1, GreatestNumber
    <3>2. w[m \ {Max(m)}] \in Q /\ w[m] = G[Max(m)][w[m \ {Max(m)}]]
      BY <1>9, <2>1 DEF FoldsOf
    <3> QED
      BY <1>3, <1>8, <3>1, <3>2
  <2>2. w[{}] = c /\ w = [m \in SUBSET (1..n) |-> w[m]]
    BY <1>9 DEF FoldsOf
  <2> QED
    BY <2>1, <2>2
<1>11. Folds(it)
  <2> HIDE DEF Folds
  <2> QED
    BY <1>10
<1> HIDE DEF it
<1>12. FoldRuns(it, n, Q, c, G)
  <2>1. it[{}] = c
    BY <1>11
  <2>2. ASSUME NEW m \in SUBSET (1..n), m # {}, it[m \ {Max(m)}] \in Q
        PROVE  it[m] = G[Max(m)][it[m \ {Max(m)}]]
    <3>1. Max(m) \in 1..n
      BY <1>1, <2>2, GreatestNumber
    <3>2. it[m] = Turn(it[m \ {Max(m)}], Max(m))
      BY <1>3, <1>11, <2>2, <3>1
    <3> QED
      BY <1>8, <2>2, <3>1, <3>2
  <2> QED
    BY <2>1, <2>2 DEF FoldRuns
<1>13. it[1..n] \in Q
  BY <1>1, <1>6, <1>8, <1>12, FoldStays
<1> QED
  BY <1>2, <1>7, <1>13

\* mptcp_clean_rtx_infinite(): what the copies in flight are worth.
LEMMA MappedIs ==
  ASSUME NEW c, c.sched \in Schedulers, NEW q \in Seq(Copy(c))
  PROVE  Mapped(q) \in Int
<1> DEFINE n == Len(q)
           Q == Int
           zero == 0
           Turn(x, copy) == x + copy.seg.end - copy.seg.seq
           G == [k \in 1..n |-> [x \in Q |-> Turn(x, q[k])]]
           Folds(it) == it = [m \in SUBSET (1..n) |->
                               IF m = {} THEN zero ELSE Turn(it[m \ {Max(m)}], q[Max(m)])]
           it == CHOOSE x : Folds(x)
<1>1. n \in Nat
  OBVIOUS
<1>2. Mapped(q) = it[1..n]
  <2>1. DOMAIN q = 1..n
    OBVIOUS
  <2> QED
    BY <1>1, <2>1 DEF Mapped, FoldLeft, MapThenFoldSet
<1>3. ASSUME NEW k \in 1..n, NEW x \in Q
      PROVE  Turn(x, q[k]) \in Q
  <2>1. q[k] \in Copy(c)
    OBVIOUS
  <2>2. q[k].seg \in Segment(c)
    BY <2>1 DEF Copy
  <2>3. q[k].seg.end \in Nat /\ q[k].seg.seq \in Nat
    BY <2>2 DEF Segment
  <2> QED
    BY <2>3
<1>4. zero \in Q
  OBVIOUS
<1> HIDE DEF Turn, n, Q, zero
<1>5. G \in [1..n -> [Q -> Q]] /\ \A k \in 1..n : \A x \in Q : G[k][x] = Turn(x, q[k])
  BY <1>3
<1> HIDE DEF G
<1>6. PICK w : w \in FoldsOf(n, Q, zero, G)
  BY <1>1, <1>4, <1>5, FoldExists
<1>7. Folds(w)
  <2>1. ASSUME NEW m \in SUBSET (1..n), m # {}
        PROVE  w[m] = Turn(w[m \ {Max(m)}], q[Max(m)])
    <3>1. Max(m) \in 1..n
      BY <1>1, <2>1, GreatestNumber
    <3>2. w[m \ {Max(m)}] \in Q /\ w[m] = G[Max(m)][w[m \ {Max(m)}]]
      BY <1>6, <2>1 DEF FoldsOf
    <3> QED
      BY <1>5, <3>1, <3>2
  <2>2. w[{}] = zero /\ w = [m \in SUBSET (1..n) |-> w[m]]
    BY <1>6 DEF FoldsOf
  <2> QED
    BY <2>1, <2>2
<1>8. Folds(it)
  <2> HIDE DEF Folds
  <2> QED
    BY <1>7
<1> HIDE DEF it
<1>9. FoldRuns(it, n, Q, zero, G)
  <2>1. it[{}] = zero
    BY <1>8
  <2>2. ASSUME NEW m \in SUBSET (1..n), m # {}, it[m \ {Max(m)}] \in Q
        PROVE  it[m] = G[Max(m)][it[m \ {Max(m)}]]
    <3>1. Max(m) \in 1..n
      BY <1>1, <2>2, GreatestNumber
    <3>2. it[m] = Turn(it[m \ {Max(m)}], q[Max(m)])
      BY <1>8, <2>2, <3>1
    <3> QED
      BY <1>5, <2>2, <3>1, <3>2
  <2> QED
    BY <2>1, <2>2 DEF FoldRuns
<1>10. it[1..n] \in Q
  BY <1>1, <1>4, <1>5, <1>9, FoldStays
<1> QED
  BY <1>2, <1>10 DEF Q

LEMMA InferredAckIs ==
  ASSUME NEW c, Good(c), NEW s \in Subflow, NEW t \in 0..Len(c.sub[s].q)
  PROVE  InferredAck(c, s, t) \in Int
<1> DEFINE K == Copy(c)
           q == c.sub[s].q
           part == SubSeq(q, 1, t)
<1>1. c \in Connection(c)
  BY DEF Good
<1>2. c.nxt \in Int /\ q \in Seq(K) /\ c.sched \in Schedulers
  BY <1>1, FieldsAre, Constants DEF Sub
<1>3. part \in Seq(K)
  <2>1. t \in Int /\ 0 <= t /\ t <= Len(q) /\ Len(q) \in Nat
    BY <1>2
  <2>2. 1 \in 1..Len(q) + 1 /\ 1 - 1 <= t
    BY <2>1
  <2> HIDE DEF K, q
  <2> QED
    BY <1>2, <2>1, <2>2, PartIs
<1> HIDE DEF part
<1>4. Mapped(part) \in Int
  BY <1>2, <1>3, MappedIs
<1> QED
  BY <1>2, <1>4 DEF InferredAck, part

(***************************************************************************)
(* The application writes and closes                                       *)
(***************************************************************************)

Appended(c, seg) == [c EXCEPT !.wq = Append(c.wq, seg), !.written = seg.end]

LEMMA AppendedGood ==
  ASSUME NEW c, Good(c), NEW seg \in Segment(c), seg.seq = c.written, ~seg.inf,
         NEW d, d = Appended(c, seg)
  PROVE  Follows(c, d)
<1> DEFINE n == Len(c.wq)
<1>1. c \in Connection(c) /\ Seamless(c) /\ Aligned(c)
  BY DEF Good
<1>2. c.wq \in Seq(Segment(c)) /\ c.head \in Nat /\ c.written \in Isn..End(c) + 1 /\ n \in Nat /\ End(c) \in Nat
      /\ c.una \in Isn..End(c) + 1 /\ c.sched \in Schedulers
  BY <1>1, FieldsAre
<1>3. seg.end \in Isn..End(c) + 1
  <2>1. seg.seq \in Nat /\ seg.end \in Nat /\ Isn <= seg.seq /\ seg.seq < seg.end /\ seg.end <= End(c) + 1
    BY <1>2, SegmentIs
  <2> QED
    BY <1>2, <2>1, Constants
<1>4. /\ d.wq = Append(c.wq, seg) /\ d.written = seg.end
      /\ d.sched = c.sched /\ d.head = c.head /\ d.reinj = c.reinj /\ d.una = c.una /\ d.nxt = c.nxt
      /\ d.wnd_end = c.wnd_end /\ d.packets_out = c.packets_out /\ d.loss = c.loss
      /\ d.send_inf = c.send_inf /\ d.index = c.index /\ d.high = c.high /\ d.timeouts = c.timeouts
      /\ d.faults = c.faults /\ d.last = c.last
  BY <1>1 DEF Appended, Connection
<1>5. Requeued(c, d)
  <2>1. d = [c EXCEPT !.wq = d.wq, !.written = d.written]
    BY <1>4 DEF Appended
  <2> QED
    BY <1>1, <2>1, ConnectionIsRecord DEF Requeued, IsRecord, Fields
<1> HIDE DEF n
<1>6. /\ d.wq \in Seq(Segment(c)) /\ Len(d.wq) = n + 1 /\ d.wq # <<>>
      /\ d.wq[n + 1] = seg /\ \A k \in 1..n : d.wq[k] = c.wq[k]
  BY <1>2, <1>4, AppendIs DEF n
<1>7. Seamless(d)
  <2>1. d.head <= Len(d.wq)
    BY <1>1, <1>2, <1>4, <1>6 DEF Seamless, n
  <2>2. ASSUME NEW i \in 2..Len(d.wq) PROVE d.wq[i].seq = d.wq[i - 1].end
    <3>1. CASE i = n + 1
      <4>1. i - 1 \in 1..n /\ i - 1 = n /\ c.wq # <<>>
        BY <1>2, <2>2, <3>1 DEF n
      <4>2. c.wq[n].end = c.written
        BY <1>1, <4>1 DEF Seamless, n
      <4> QED
        BY <1>6, <3>1, <4>1, <4>2
    <3>2. CASE i # n + 1
      <4>1. i \in 2..n /\ i \in 1..n /\ i - 1 \in 1..n
        BY <1>2, <1>6, <2>2, <3>2
      <4>2. c.wq[i].seq = c.wq[i - 1].end
        BY <1>1, <4>1 DEF Seamless, n
      <4> QED
        BY <1>6, <4>1, <4>2
    <3> QED
      BY <3>1, <3>2
  <2>3. \A i \in 1..Len(d.wq) : ~d.wq[i].inf
    <3>1. \A i \in 1..n : ~c.wq[i].inf
      BY <1>1 DEF Seamless, n
    <3>2. \A i \in 1..n + 1 : i \in 1..n \/ i = n + 1
      BY <1>2
    <3> QED
      BY <1>6, <3>1, <3>2
  <2>4. d.wq[1].seq <= d.una
    <3>1. CASE n = 0
      BY <1>1, <1>2, <1>4, <1>6, <3>1 DEF Seamless, n
    <3>2. CASE n # 0
      <4>1. 1 \in 1..n /\ c.wq # <<>>
        BY <1>2, <3>2 DEF n
      <4> QED
        BY <1>1, <1>4, <1>6, <4>1 DEF Seamless
    <3> QED
      BY <3>1, <3>2
  <2>5. d.wq[Len(d.wq)].end = d.written
    BY <1>4, <1>6
  <2> QED
    BY <1>6, <2>1, <2>2, <2>3, <2>4, <2>5 DEF Seamless
<1>8. Aligned(d)
  <2> SUFFICES ASSUME d.sched # "redundant"
               PROVE  /\ d.nxt = IF d.head = 0 THEN d.una ELSE d.wq[d.head].end
                      /\ "inside" \notin d.faults =>
                           /\ d.packets_out = d.head
                           /\ d.head = 0 /\ d.wq # <<>> => d.wq[1].seq = d.una
    BY <1>6 DEF Aligned
  <2>1. /\ c.wq = <<>> => c.una = c.written
        /\ c.nxt = IF c.head = 0 THEN c.una ELSE c.wq[c.head].end
        /\ "inside" \notin c.faults =>
             /\ c.packets_out = c.head
             /\ c.head = 0 /\ c.wq # <<>> => c.wq[1].seq = c.una
    BY <1>1, <1>4 DEF Aligned
  <2>2. c.head # 0 => c.head \in 1..n
    BY <1>1, <1>2 DEF Seamless, n
  <2>3. d.wq[1].seq = IF n = 0 THEN c.written ELSE c.wq[1].seq
    BY <1>2, <1>6
  <2>4. n = 0 <=> c.wq = <<>>
    BY <1>2 DEF n
  <2> QED
    BY <1>4, <1>6, <2>1, <2>2, <2>3, <2>4
<1>9. Good(d) /\ Still(c, d)
  BY <1>1, <1>2, <1>3, <1>4, <1>5, <1>6, <1>7, <1>8, FieldsAre, RequeuedGood
<1> QED
  BY <1>4, <1>9 DEF Follows, Still

LEMMA EndedIs ==
  ASSUME NEW old \in [seq : Nat, end : Nat, fin : BOOLEAN, mask : SUBSET Subflow, hi : 0..1,
                      rj : BOOLEAN, inf : BOOLEAN, cut : BOOLEAN]
  PROVE  /\ Ended(old) \in [seq : Nat, end : Nat, fin : BOOLEAN, mask : SUBSET Subflow, hi : 0..1,
                            rj : BOOLEAN, inf : BOOLEAN, cut : BOOLEAN]
         /\ Ended(old).seq = old.seq /\ Ended(old).end = old.end + 1
         /\ Ended(old).fin = TRUE /\ Ended(old).inf = old.inf
<1>1. old.end + 1 \in Nat /\ TRUE \in BOOLEAN
  OBVIOUS
<1> DEFINE e == old.end + 1
<1>2. Ended(old) = [old EXCEPT !.fin = TRUE, !.end = e]
  BY DEF Ended
<1> HIDE DEF e
<1>3. e \in Nat
  BY <1>1 DEF e
<1>4. /\ Ended(old) \in [seq : Nat, end : Nat, fin : BOOLEAN, mask : SUBSET Subflow, hi : 0..1,
                         rj : BOOLEAN, inf : BOOLEAN, cut : BOOLEAN]
      /\ Ended(old).seq = old.seq /\ Ended(old).end = e
      /\ Ended(old).fin = TRUE /\ Ended(old).inf = old.inf
  BY <1>2, <1>3
<1> QED
  BY <1>4 DEF e

\* mptcp_send_fin() where there is a send head.
WithFin(c) == [c EXCEPT !.wq[Len(c.wq)] = Ended(@), !.written = @ + 1]

LEMMA WithFinGood ==
  ASSUME NEW c, Good(c), c.written = End(c), c.head < Len(c.wq), NEW d, d = WithFin(c)
  PROVE  Follows(c, d)
<1> DEFINE n == Len(c.wq)
           seg == Ended(c.wq[n])
<1>1. c \in Connection(c) /\ Seamless(c) /\ Aligned(c)
  BY DEF Good
<1>2. c.wq \in Seq(Segment(c)) /\ c.head \in Nat /\ n \in Nat /\ End(c) \in Nat /\ c.sched \in Schedulers
      /\ c.una \in Isn..End(c) + 1 /\ Isn \in Nat /\ Isn <= End(c)
  BY <1>1, FieldsAre, Constants
<1>3. n \in 1..n /\ c.wq # <<>> /\ c.wq[n] \in Segment(c)
  BY <1>2
<1>4. c.wq[n].end = End(c) /\ ~c.wq[n].inf
  BY <1>1, <1>3 DEF Seamless
<1>5. seg \in Segment(c) /\ seg.seq = c.wq[n].seq /\ seg.end = End(c) + 1 /\ ~seg.inf
  <2>1. /\ seg \in [seq : Nat, end : Nat, fin : BOOLEAN, mask : SUBSET Subflow, hi : 0..1,
                    rj : BOOLEAN, inf : BOOLEAN, cut : BOOLEAN]
        /\ seg.seq = c.wq[n].seq /\ seg.end = c.wq[n].end + 1 /\ seg.fin = TRUE /\ seg.inf = c.wq[n].inf
    <3> DEFINE old == c.wq[n]
    <3>1. old \in [seq : Nat, end : Nat, fin : BOOLEAN, mask : SUBSET Subflow, hi : 0..1,
                   rj : BOOLEAN, inf : BOOLEAN, cut : BOOLEAN]
      BY <1>3 DEF Segment
    <3> HIDE DEF old
    <3>2. /\ Ended(old) \in [seq : Nat, end : Nat, fin : BOOLEAN, mask : SUBSET Subflow, hi : 0..1,
                             rj : BOOLEAN, inf : BOOLEAN, cut : BOOLEAN]
          /\ Ended(old).seq = old.seq /\ Ended(old).end = old.end + 1
          /\ Ended(old).fin = TRUE /\ Ended(old).inf = old.inf
      BY <3>1, EndedIs
    <3> QED
      BY <3>2 DEF old
  <2>2. c.wq[n].seq \in Nat /\ Isn <= c.wq[n].seq /\ c.wq[n].seq < c.wq[n].end
    BY <1>2, <1>3, SegmentIs
  <2> HIDE DEF seg
  <2> QED
    BY <1>2, <1>4, <2>1, <2>2 DEF Segment
<1>6. d = [c EXCEPT !.wq = [c.wq EXCEPT ![n] = seg], !.written = End(c) + 1]
  BY <1>1, <1>2, <1>3 DEF WithFin, Connection
<1> HIDE DEF seg
<1>7. /\ d.wq = [c.wq EXCEPT ![n] = seg] /\ d.written = End(c) + 1
      /\ d.sched = c.sched /\ d.head = c.head /\ d.reinj = c.reinj /\ d.una = c.una /\ d.nxt = c.nxt
      /\ d.wnd_end = c.wnd_end /\ d.packets_out = c.packets_out /\ d.loss = c.loss
      /\ d.send_inf = c.send_inf /\ d.index = c.index /\ d.high = c.high /\ d.timeouts = c.timeouts
      /\ d.faults = c.faults /\ d.last = c.last
  BY <1>1, <1>6 DEF Connection
<1>8. Requeued(c, d)
  BY <1>1, <1>6, ConnectionIsRecord DEF Requeued, IsRecord, Fields
<1>9. /\ d.wq \in Seq(Segment(c)) /\ Len(d.wq) = n /\ d.wq # <<>>
      /\ d.wq[n] = seg /\ \A k \in 1..n : k # n => d.wq[k] = c.wq[k]
  <2> DEFINE S == Segment(c)
             q == [c.wq EXCEPT ![n] = seg]
  <2>1. c.wq \in Seq(S) /\ seg \in S
    BY <1>2, <1>5
  <2> HIDE DEF S
  <2>2. q \in Seq(S) /\ Len(q) = n /\ q[n] = seg /\ \A k \in 1..n : k # n => q[k] = c.wq[k]
    BY <1>3, <2>1
  <2> HIDE DEF q
  <2>3. d.wq = q
    BY <1>7 DEF q
  <2>4. q # <<>>
    BY <1>3, <2>2
  <2> QED
    BY <2>2, <2>3, <2>4 DEF S
<1>10. c.head < n
  OBVIOUS
<1> HIDE DEF n
<1>11. \A k \in 1..n : d.wq[k].seq = c.wq[k].seq
  BY <1>5, <1>9
<1>12. Seamless(d)
  <2>1. ASSUME NEW i \in 2..n PROVE d.wq[i].seq = d.wq[i - 1].end
    <3>1. i \in 1..n /\ i - 1 \in 1..n /\ i - 1 # n
      BY <1>2, <2>1
    <3>2. c.wq[i].seq = c.wq[i - 1].end
      BY <1>1, <2>1 DEF Seamless, n
    <3> QED
      BY <1>9, <1>11, <3>1, <3>2
  <2>2. \A i \in 1..n : ~d.wq[i].inf
    BY <1>1, <1>5, <1>9 DEF Seamless, n
  <2>3. d.wq[1].seq <= d.una
    <3>1. 1 \in 1..n
      BY <1>2, <1>3
    <3> QED
      BY <1>1, <1>3, <1>7, <1>11, <3>1 DEF Seamless
  <2> QED
    BY <1>2, <1>5, <1>7, <1>9, <1>10, <2>1, <2>2, <2>3 DEF Seamless
<1>13. Aligned(d)
  <2>1. c.head # 0 => c.head \in 1..n /\ c.head # n
    BY <1>2, <1>10
  <2>2. 1 \in 1..n
    BY <1>2, <1>3
  <2> QED
    BY <1>1, <1>3, <1>7, <1>9, <1>11, <2>1, <2>2 DEF Aligned
<1>14. End(c) + 1 \in Isn..End(c) + 1
  BY <1>2
<1>15. /\ d.wq \in Seq(Segment(c)) /\ d.head \in Nat /\ d.reinj \in Seq(Segment(c))
       /\ d.written \in Isn..End(c) + 1 /\ d.una \in Isn..End(c) + 1 /\ d.nxt \in Isn..End(c) + 1
       /\ d.wnd_end \in Nat /\ d.packets_out \in Int /\ d.loss \in BOOLEAN /\ d.send_inf \in BOOLEAN
       /\ d.index \in 0..1 /\ d.high \in [0..1 -> Int] /\ d.timeouts \in 0..MaxTimeouts
       /\ d.faults \in SUBSET {"close", "mpfail", "nomem", "split", "discard", "inside"}
       /\ d.last \in [Subflow -> [seq : Nat, end : Nat]]
  <2> HIDE DEF WithFin
  <2> QED
    BY <1>1, <1>7, <1>9, <1>14, FieldsAre
<1>16. Good(d) /\ Still(c, d)
  BY <1>8, <1>12, <1>13, <1>15, RequeuedGood
<1> QED
  BY <1>7, <1>16 DEF Follows, Still

\* mptcp_mp_fail_rcvd() goes back to the first byte not acknowledged.
LEMMA RestartedGood ==
  ASSUME NEW c, Good(c), NEW d, d = Restarted(c)
  PROVE  Follows(c, d)
<1> DEFINE u == Unwrap(c)
           faults == {"mpfail"} \cup {x \in {"inside"} : c.wq # <<>> /\ c.wq[1].seq < c.una}
<1>1. c \in Connection(c) /\ Seamless(c) /\ Aligned(c)
  BY DEF Good
<1>2. /\ c.wq \in Seq(Segment(c)) /\ c.head \in Nat /\ c.una \in Isn..End(c) + 1
      /\ c.index \in 0..1 /\ c.high \in [0..1 -> Int] /\ c.sched \in Schedulers /\ End(c) \in Nat /\ Isn \in Nat
  BY <1>1, FieldsAre, Constants
<1>3. u.high \in [0..1 -> Int] /\ u.index \in 0..1 /\ u = [c EXCEPT !.high = u.high, !.index = u.index]
  <2>1. CASE Low(c.nxt) < Low(c.una)
    <3> DEFINE h == [c.high EXCEPT ![c.index] = @ - 2]
    <3>1. u = [c EXCEPT !.high = h, !.index = 1 - c.index]
      BY <1>1, <1>2, <2>1 DEF Unwrap, Connection
    <3>2. h \in [0..1 -> Int] /\ 1 - c.index \in 0..1
      BY <1>2
    <3> HIDE DEF h, u
    <3>3. u.high = h /\ u.index = 1 - c.index
      BY <1>1, <3>1 DEF Connection
    <3> QED
      BY <3>1, <3>2, <3>3
  <2>2. CASE ~(Low(c.nxt) < Low(c.una))
    <3>1. u = c
      BY <2>2 DEF Unwrap
    <3> HIDE DEF u
    <3> QED
      BY <1>1, <1>2, <3>1 DEF Connection
  <2> QED
    BY <2>1, <2>2
<1>4. faults \in SUBSET {"close", "mpfail", "nomem", "split", "discard", "inside"}
      /\ ("inside" \notin faults => ~(c.wq # <<>> /\ c.wq[1].seq < c.una))
  OBVIOUS
<1> HIDE DEF u, faults
<1>5. d = [u EXCEPT !.faults = faults, !.send_inf = TRUE, !.head = 0, !.packets_out = 0, !.nxt = c.una]
  BY DEF Restarted, u, faults
<1>6. d = [c EXCEPT !.high = u.high, !.index = u.index, !.faults = faults, !.send_inf = TRUE, !.head = 0,
                    !.packets_out = 0, !.nxt = c.una]
  BY <1>1, <1>3, <1>5 DEF Connection
<1>7. /\ d.faults = faults /\ d.send_inf = TRUE /\ d.head = 0 /\ d.packets_out = 0 /\ d.nxt = c.una
      /\ d.high = u.high /\ d.index = u.index
      /\ d.sched = c.sched /\ d.wq = c.wq /\ d.reinj = c.reinj /\ d.written = c.written /\ d.una = c.una
      /\ d.wnd_end = c.wnd_end /\ d.loss = c.loss /\ d.timeouts = c.timeouts /\ d.last = c.last
  BY <1>1, <1>6 DEF Connection
<1>8. Requeued(c, d)
  BY <1>1, <1>6, ConnectionIsRecord DEF Requeued, IsRecord, Fields
<1>9. Seamless(d)
  BY <1>1, <1>2, <1>7 DEF Seamless
<1>10. Aligned(d)
  <2>1. c.wq # <<>> => c.wq[1].seq \in Nat /\ c.wq[1].seq <= c.una /\ c.una \in Int
    <3>1. c.wq # <<>> => c.wq[1] \in Segment(c)
      BY <1>2
    <3>2. c.wq # <<>> => c.wq[1].seq \in Nat
      BY <3>1 DEF Segment
    <3> QED
      BY <1>1, <1>2, <3>2 DEF Seamless
  <2>2. c.sched # "redundant" /\ c.wq = <<>> => c.una = c.written
    BY <1>1 DEF Aligned
  <2>3. "inside" \notin faults /\ c.wq # <<>> => c.wq[1].seq = c.una
    BY <1>4, <2>1
  <2> QED
    BY <1>7, <2>2, <2>3 DEF Aligned
<1>11. /\ d.wq \in Seq(Segment(c)) /\ d.head \in Nat /\ d.reinj \in Seq(Segment(c))
       /\ d.written \in Isn..End(c) + 1 /\ d.una \in Isn..End(c) + 1 /\ d.nxt \in Isn..End(c) + 1
       /\ d.wnd_end \in Nat /\ d.packets_out \in Int /\ d.loss \in BOOLEAN /\ d.send_inf \in BOOLEAN
       /\ d.index \in 0..1 /\ d.high \in [0..1 -> Int] /\ d.timeouts \in 0..MaxTimeouts
       /\ d.faults \in SUBSET {"close", "mpfail", "nomem", "split", "discard", "inside"}
       /\ d.last \in [Subflow -> [seq : Nat, end : Nat]]
  <2>1. /\ c.wq \in Seq(Segment(c)) /\ c.reinj \in Seq(Segment(c)) /\ c.written \in Isn..End(c) + 1
        /\ c.una \in Isn..End(c) + 1 /\ c.wnd_end \in Nat /\ c.loss \in BOOLEAN
        /\ c.timeouts \in 0..MaxTimeouts /\ c.last \in [Subflow -> [seq : Nat, end : Nat]]
    BY <1>1, FieldsAre
  <2>2. d.send_inf \in BOOLEAN
    BY <1>7, Zenon
  <2>3. d.head \in Nat /\ d.packets_out \in Int
    <3>1. d.head = 0 /\ d.packets_out = 0
      BY <1>7
    <3> QED
      BY <3>1
  <2> QED
    BY <1>3, <1>4, <1>7, <2>1, <2>2, <2>3
<1>12. Good(d) /\ Still(c, d)
  BY <1>8, <1>9, <1>10, <1>11, RequeuedGood
<1> QED
  BY <1>7, <1>12 DEF Follows, Still

\* A fault leaves its mark.
LEMMA SuffersGood ==
  ASSUME NEW c, Good(c), NEW fault \in {"close", "mpfail", "nomem", "split", "discard"},
         NEW d, d = Suffers(c, fault)
  PROVE  Good(d) /\ Still(c, d) /\ d.una = c.una
<1>1. c \in Connection(c)
  BY DEF Good
<1>2. /\ d.faults = c.faults \cup {fault}
      /\ d.loss = c.loss /\ d.wnd_end = c.wnd_end /\ d.timeouts = c.timeouts /\ d.last = c.last
  BY <1>1 DEF Suffers, Connection
<1>3. d = [c EXCEPT !.loss = d.loss, !.wnd_end = d.wnd_end, !.timeouts = d.timeouts,
                    !.faults = d.faults, !.last = d.last]
  BY <1>1, <1>2 DEF Suffers, Connection
<1>4. d.faults \in SUBSET {"close", "mpfail", "nomem", "split", "discard", "inside"}
      /\ ("inside" \in d.faults <=> "inside" \in c.faults)
  BY <1>1, <1>2, FieldsAre
<1>5. Marks(c, d)
  BY <1>1, <1>2, <1>3, <1>4, FieldsAre DEF Marks
<1> QED
  BY <1>5, MarksChanged

\* A time-out, of a subflow or of the meta socket.
TimedOut(c, loss) == [c EXCEPT !.loss = loss, !.timeouts = c.timeouts + 1]

LEMMA TimedOutGood ==
  ASSUME NEW c, Good(c), c.timeouts < MaxTimeouts, NEW loss \in BOOLEAN, NEW d, d = TimedOut(c, loss)
  PROVE  Good(d) /\ Still(c, d) /\ d.una = c.una /\ d.wq = c.wq
<1>1. c \in Connection(c)
  BY DEF Good
<1>2. d.loss = loss /\ d.timeouts = c.timeouts + 1
      /\ d.faults = c.faults /\ d.wnd_end = c.wnd_end /\ d.last = c.last
  BY <1>1 DEF TimedOut, Connection
<1>3. d = [c EXCEPT !.loss = d.loss, !.wnd_end = d.wnd_end, !.timeouts = d.timeouts,
                    !.faults = d.faults, !.last = d.last]
  BY <1>1, <1>2 DEF TimedOut, Connection
<1>4. d.timeouts \in 0..MaxTimeouts
  BY <1>1, <1>2, FieldsAre, Constants
<1>5. Marks(c, d)
  <2> HIDE DEF TimedOut
  <2> QED
    BY <1>1, <1>2, <1>3, <1>4, FieldsAre DEF Marks
<1> QED
  BY <1>5, MarksChanged

(***************************************************************************)
(* The network                                                             *)
(***************************************************************************)

\* A DATA_FIN on its own has been sent.
DfinSent(c) == [c EXCEPT !.dfin = FALSE]

LEMMA DfinSentGood ==
  ASSUME NEW c, Good(c), NEW d, d = DfinSent(c)
  PROVE  Follows(c, d) /\ d.sched = c.sched
<1>1. c \in Connection(c)
  BY DEF Good
<1>2. /\ d.sched = c.sched /\ d.wq = c.wq /\ d.head = c.head /\ d.reinj = c.reinj /\ d.written = c.written
      /\ d.una = c.una /\ d.nxt = c.nxt /\ d.packets_out = c.packets_out /\ d.faults = c.faults
      /\ d.inf = c.inf /\ d.sub = c.sub /\ d.wnd_end = c.wnd_end /\ d.loss = c.loss
      /\ d.send_inf = c.send_inf /\ d.index = c.index /\ d.high = c.high
      /\ d.timeouts = c.timeouts /\ d.last = c.last
  BY <1>1, ConnectionIsRecord DEF DfinSent, IsRecord, Fields
<1>3. End(d) = End(c) /\ Segment(d) = Segment(c) /\ Copy(d) = Copy(c)
  BY <1>2 DEF End, Segment, Copy
<1>4. d \in Connection(d)
  <2> DEFINE S == Segment(c)
             K == Copy(c)
  <2>1. IsRecord(d) /\ d.dfin = FALSE
    BY <1>1, ConnectionIsRecord DEF DfinSent, IsRecord, Fields
  <2>2. d.wq \in Seq(S) /\ d.reinj \in Seq(S) /\ d.sub \in [Subflow -> Sub(K)] /\ S = Segment(d) /\ K = Copy(d)
    BY <1>1, <1>2, <1>3, FieldsAre
  <2> HIDE DEF S, K
  <2>3. /\ d.sched \in Schedulers /\ d.head \in Nat
        /\ d.written \in Isn..End(d) + 1 /\ d.una \in Isn..End(d) + 1 /\ d.nxt \in Isn..End(d) + 1
        /\ d.wnd_end \in Nat /\ d.packets_out \in Int
        /\ d.loss \in BOOLEAN /\ d.send_inf \in BOOLEAN /\ d.inf \in BOOLEAN
        /\ d.index \in 0..1 /\ d.high \in [0..1 -> Int] /\ d.timeouts \in 0..MaxTimeouts
        /\ d.faults \in SUBSET {"close", "mpfail", "nomem", "split", "discard", "inside"}
        /\ d.last \in [Subflow -> [seq : Nat, end : Nat]]
    BY <1>1, <1>2, <1>3, FieldsAre
  <2> QED
    BY <2>1, <2>2, <2>3, RecordIsConnection
<1>5. Seamless(d) /\ Aligned(d)
  <2>1. Same(c, d)
    BY <1>2 DEF Same
  <2> QED
    BY <2>1, QueueKept DEF Good
<1>6. \A s \in Subflow : Row(d, d.sub[s])
  BY <1>2, <1>3 DEF Good, Row
<1> QED
  BY <1>2, <1>4, <1>5, <1>6 DEF Good, Follows

\* A copy has arrived.
Arrived(c, s) == [c EXCEPT !.sub[s].rx = @ + 1]

LEMMA ArrivedGood ==
  ASSUME NEW c, Good(c), NEW s \in Subflow, c.sub[s].rx < Len(c.sub[s].q), NEW d, d = Arrived(c, s)
  PROVE  Beside(c, d) /\ d.inf = c.inf
<1> DEFINE u == c.sub[s]
           v == [u EXCEPT !.rx = @ + 1]
<1>1. c \in Connection(c) /\ Row(c, u)
  BY DEF Good
<1>2. c.sub \in [Subflow -> Sub(Copy(c))] /\ u \in Sub(Copy(c))
  BY <1>1, FieldsAre
<1>3. d = WithSub(c, c.inf, c.dfin, s, v)
  BY <1>1, <1>2 DEF Arrived, WithSub, Connection
<1>4. v \in Sub(Copy(c)) /\ Row(c, v)
  <2> DEFINE K == Copy(c)
             r == u.rx + 1
  <2> HIDE DEF K
  <2>1. u \in [q : Seq(K), rx : Nat, open : BOOLEAN, pf : BOOLEAN, est : BOOLEAN, last_end : Nat \cup {None}]
    BY <1>2 DEF Sub, K
  <2>2. r \in Nat /\ r <= Len(u.q)
    BY <2>1
  <2>3. v = [u EXCEPT !.rx = r]
    BY <2>1
  <2> HIDE DEF r, v
  <2>4. v \in [q : Seq(K), rx : Nat, open : BOOLEAN, pf : BOOLEAN, est : BOOLEAN, last_end : Nat \cup {None}]
        /\ v.rx = r /\ v.q = u.q /\ v.est = u.est /\ v.last_end = u.last_end
    BY <2>1, <2>2, <2>3
  <2>5. Row(c, v)
    BY <1>1, <2>2, <2>4 DEF Row
  <2> QED
    BY <2>4, <2>5 DEF Sub, K
<1>5. d.inf = c.inf
  BY <1>1, <1>3 DEF WithSub, Connection
<1> HIDE DEF u, v
<1> QED
  BY <1>3, <1>4, <1>5, SubReplaced

\* TCP cuts a copy.
CopyCut(c, s, k) ==
  [c EXCEPT !.sub[s].q =
     Replaced(@, k, <<[c.sub[s].q[k] EXCEPT !.to = c.sub[s].q[k].from + 1], [c.sub[s].q[k] EXCEPT !.from = @ + 1]>>)]

LEMMA CopyCutGood ==
  ASSUME NEW c, Good(c), NEW s \in Subflow, NEW k \in c.sub[s].rx + 1..Len(c.sub[s].q),
         c.sub[s].q[k].to - c.sub[s].q[k].from > 1, NEW d, d = CopyCut(c, s, k)
  PROVE  Beside(c, d)
<1> DEFINE u == c.sub[s]
           copy == u.q[k]
           a == [copy EXCEPT !.to = copy.from + 1]
           b == [copy EXCEPT !.from = @ + 1]
           q == Replaced(u.q, k, <<a, b>>)
           v == [u EXCEPT !.q = q]
           n == Len(u.q)
<1>1. c \in Connection(c) /\ Row(c, u)
  BY DEF Good
<1>2. c.sub \in [Subflow -> Sub(Copy(c))] /\ u \in Sub(Copy(c))
  BY <1>1, FieldsAre
<1>3. u.q \in Seq(Copy(c)) /\ u.rx \in Nat /\ n \in Nat /\ k \in 1..n /\ u.rx <= n
  BY <1>2 DEF Sub
<1>4. copy \in Copy(c) /\ copy.from \in Nat /\ copy.to \in Nat
  <2>1. copy \in Copy(c)
    BY <1>3
  <2> HIDE DEF copy
  <2> QED
    BY <2>1 DEF Copy
<1>5. copy.from + 1 < copy.to
  BY <1>4
<1>6. d = WithSub(c, c.inf, c.dfin, s, v)
  BY <1>1, <1>2 DEF CopyCut, WithSub, Connection
<1> HIDE DEF copy
<1>7. /\ a \in Copy(c) /\ b \in Copy(c)
      /\ a.from = copy.from /\ a.to = b.from /\ b.to = copy.to
  <2> DEFINE e == copy.from + 1
             S == Segment(c)
  <2>1. e \in Nat /\ copy.from <= e /\ e <= copy.to /\ a = [copy EXCEPT !.to = e] /\ b = [copy EXCEPT !.from = e]
    BY <1>4, <1>5 DEF Copy
  <2>2. /\ copy \in [seg : S, seq64 : Int, from : Nat, to : Nat]
        /\ copy.seg.seq <= copy.from /\ copy.to <= copy.seg.seq + Bytes(copy.seg)
    BY <1>4 DEF Copy
  <2>3. copy.seg.seq \in Nat /\ Bytes(copy.seg) \in Nat
    BY <1>1, <2>2, SegmentIs, FieldsAre
  <2> HIDE DEF e, S, a, b
  <2>4. /\ a \in [seg : S, seq64 : Int, from : Nat, to : Nat]
        /\ a.seg = copy.seg /\ a.from = copy.from /\ a.to = e
    BY <2>1, <2>2
  <2>5. /\ b \in [seg : S, seq64 : Int, from : Nat, to : Nat]
        /\ b.seg = copy.seg /\ b.from = e /\ b.to = copy.to
    BY <2>1, <2>2
  <2>6. a.seg.seq <= a.from /\ a.from <= a.to /\ a.to <= a.seg.seq + Bytes(a.seg)
    BY <1>4, <2>1, <2>2, <2>3, <2>4
  <2>7. b.seg.seq <= b.from /\ b.from <= b.to /\ b.to <= b.seg.seq + Bytes(b.seg)
    BY <1>4, <2>1, <2>2, <2>3, <2>5
  <2> QED
    BY <2>4, <2>5, <2>6, <2>7 DEF Copy, S
<1> HIDE DEF a, b
<1>8. /\ q \in Seq(Copy(c)) /\ Len(q) = n + 1
      /\ \A i \in 1..n + 1 :
           q[i] = IF i < k THEN u.q[i] ELSE IF i = k THEN a ELSE IF i = k + 1 THEN b ELSE u.q[i - 1]
  <2> DEFINE S == Copy(c)
             w == u.q
  <2>1. w \in Seq(S) /\ k \in 1..Len(w) /\ a \in S /\ b \in S
    BY <1>3, <1>7
  <2> HIDE DEF S, w
  <2>2. /\ Replaced(w, k, <<a, b>>) \in Seq(S)
        /\ Len(Replaced(w, k, <<a, b>>)) = Len(w) + 1
        /\ \A i \in 1..Len(w) + 1 :
             Replaced(w, k, <<a, b>>)[i] =
               IF i < k THEN w[i] ELSE IF i = k THEN a ELSE IF i = k + 1 THEN b ELSE w[i - 1]
    BY <2>1, ReplacedIs
  <2> QED
    BY <2>2 DEF S, w
<1>9. u.q[k] = copy
  BY DEF copy
<1> HIDE DEF q
<1>10. v \in Sub(Copy(c)) /\ v.q = q /\ v.rx = u.rx /\ v.est = u.est /\ v.last_end = u.last_end
  BY <1>2, <1>8 DEF Sub
<1> HIDE DEF v
<1>11. Row(c, v)
  <2>1. v.rx <= Len(v.q)
    BY <1>3, <1>8, <1>10
  <2>2. ASSUME ~v.est
        PROVE  /\ \A i \in 2..Len(v.q) : v.q[i].from = v.q[i - 1].to
               /\ v.q # <<>> => v.last_end # None /\ (v.q[Len(v.q)].to = v.last_end \/ v.last_end = End(c) + 1)
    <3>1. /\ \A i \in 2..n : u.q[i].from = u.q[i - 1].to
          /\ u.last_end # None /\ (u.q[n].to = u.last_end \/ u.last_end = End(c) + 1)
      <4>1. u.q # <<>>
        BY <1>3
      <4> QED
        BY <1>1, <1>10, <2>2, <4>1 DEF Row
    <3>2. ASSUME NEW i \in 2..n + 1 PROVE q[i].from = q[i - 1].to
      <4>1. n \in Nat /\ k \in Int /\ 1 <= k /\ k <= n /\ i \in Int /\ 2 <= i /\ i <= n + 1
        BY <1>3, <3>2
      <4> HIDE DEF n
      <4>2. i \in 1..n + 1 /\ i - 1 \in 1..n + 1
        BY <4>1
      <4>3. CASE i < k
        <5>1. i \in 2..n /\ i - 1 < k
          BY <4>1, <4>3
        <5>2. q[i] = u.q[i] /\ q[i - 1] = u.q[i - 1]
          BY <1>8, <4>2, <4>3, <5>1
        <5> QED
          BY <3>1, <5>1, <5>2
      <4>4. CASE i = k
        <5>1. i \in 2..n /\ i - 1 < k /\ ~(i < k)
          BY <4>1, <4>4
        <5>2. q[i] = a /\ q[i - 1] = u.q[i - 1]
          BY <1>8, <4>2, <4>4, <5>1
        <5>3. u.q[i].from = u.q[i - 1].to
          BY <3>1, <5>1
        <5> QED
          BY <1>7, <1>9, <4>4, <5>2, <5>3
      <4>5. CASE i = k + 1
        <5>1. i - 1 = k /\ ~(i < k) /\ i # k
          BY <4>1, <4>5
        <5>2. q[i] = b /\ q[i - 1] = a
          BY <1>8, <4>2, <4>5, <5>1
        <5> QED
          BY <1>7, <5>2
      <4>6. CASE i > k + 1
        <5>1. i - 1 \in 2..n /\ ~(i < k) /\ i # k /\ i # k + 1 /\ ~(i - 1 < k) /\ i - 1 # k
          BY <4>1, <4>6
        <5>2. q[i] = u.q[i - 1] /\ q[i - 1] = IF i - 1 = k + 1 THEN b ELSE u.q[(i - 1) - 1]
          BY <1>8, <4>2, <5>1
        <5>3. u.q[i - 1].from = u.q[(i - 1) - 1].to
          BY <3>1, <5>1
        <5>4. CASE i - 1 = k + 1
          <6>1. (i - 1) - 1 = k
            BY <4>1, <5>4
          <6> QED
            BY <1>7, <1>9, <5>2, <5>3, <5>4, <6>1
        <5>5. CASE i - 1 # k + 1
          BY <5>2, <5>3, <5>5
        <5> QED
          BY <5>4, <5>5
      <4> QED
        BY <4>1, <4>3, <4>4, <4>5, <4>6
    <3>3. q[n + 1].to = u.q[n].to
      <4>1. n + 1 \in 1..n + 1 /\ n + 1 > k /\ (n + 1) - 1 = n
        BY <1>3
      <4>2. q[n + 1] = IF n + 1 = k + 1 THEN b ELSE u.q[n]
        <5>1. q[n + 1] = IF n + 1 < k THEN u.q[n + 1] ELSE IF n + 1 = k THEN a
                         ELSE IF n + 1 = k + 1 THEN b ELSE u.q[(n + 1) - 1]
          BY <1>8, <4>1
        <5>2. ~(n + 1 < k) /\ n + 1 # k
          BY <1>3
        <5> QED
          BY <4>1, <5>1, <5>2
      <4>3. n + 1 = k + 1 => n = k
        BY <1>3
      <4> QED
        BY <1>7, <1>9, <4>2, <4>3
    <3> QED
      BY <1>8, <1>10, <3>1, <3>2, <3>3
  <2> QED
    BY <2>1, <2>2 DEF Row
<1> QED
  BY <1>6, <1>10, <1>11, SubReplaced

(***************************************************************************)
(* The probe timer                                                         *)
(***************************************************************************)

\* mptcp_write_wakeup(): a part of the segment is cut off and tagged.
Prepared(m, i, len) ==
  LET e == Fragmented(m, i, len)
  IN  WithSegment(e, i, Tagged(e, e.wq[i]))

Woken(c, i, s, d) ==
  /\ i \in 1..Len(c.wq) /\ i = c.head + 1 /\ s \in Usable(c, c.wq[i])
  /\ \E len \in Lengths(c.wq[i]), m \in {c, WithMask(c, i, {})} : d = Prepared(m, i, len)

LEMMA WakeupParts ==
  ASSUME NEW c, Good(c), NEW i, NEW s, NEW d, Woken(c, i, s, d)
  PROVE  /\ Follows(c, d) /\ Good(d) /\ i \in 1..Len(d.wq) /\ d.head = c.head
         /\ s \in Subflow /\ InOrder(d.sub[s], d.wq[i])
<1>a. i \in 1..Len(c.wq) /\ i = c.head + 1 /\ s \in Usable(c, c.wq[i])
  BY DEF Woken
<1>b. PICK len \in Lengths(c.wq[i]), m \in {c, WithMask(c, i, {})} : d = Prepared(m, i, len)
  BY DEF Woken
<1> DEFINE e == Fragmented(m, i, len)
<1>0. d = WithSegment(e, i, Tagged(e, e.wq[i]))
  BY <1>b DEF Prepared
<1>1. c.wq \in Seq(Segment(c)) /\ c.head \in Nat /\ Len(c.wq) \in Nat
  BY FieldsAre DEF Good
<1>2. i \in 1..Len(c.wq)
  BY <1>a
<1>3. s \in Usable(c, c.wq[i])
  BY <1>a
<1>4. /\ Good(m) /\ Still(c, m) /\ Follows(c, m) /\ m.head = c.head /\ i \in 1..Len(m.wq)
      /\ m.wq[i].seq = c.wq[i].seq /\ len \in Lengths(m.wq[i])
  <2>1. CASE m = WithMask(c, i, {})
    <3>1. m = WithMask(c, i, {}) /\ {} \in SUBSET Subflow
      BY <2>1
    <3>2. /\ Sends(c, m) /\ Follows(c, m) /\ m.head = c.head /\ Len(m.wq) = Len(c.wq)
          /\ m.wq[i].seq = c.wq[i].seq /\ Lengths(m.wq[i]) = Lengths(c.wq[i])
      BY <1>2, <3>1, MaskSet
    <3> QED
      BY <1>2, <3>2 DEF Sends
  <2>2. CASE m = c
    BY <1>2, <2>2 DEF Still, Follows
  <2> QED
    BY <1>b, <2>1, <2>2
<1>5. Sends(m, e) /\ i \in 1..Len(e.wq) /\ e.wq[i].seq = m.wq[i].seq /\ e.head = m.head
  <2>1. i > m.head
    BY <1>1, <1>4, <1>a
  <2> QED
    BY <1>4, <2>1, FragmentedGood
<1> HIDE DEF e
<1>6. Good(e) /\ Still(m, e) /\ Follows(m, e)
  BY <1>5 DEF Sends, Still, Follows
<1>7. /\ Good(d) /\ Still(e, d) /\ Follows(e, d) /\ d.head = e.head
      /\ Len(d.wq) = Len(e.wq) /\ d.wq[i].seq = e.wq[i].seq
  <2> DEFINE seg == Tagged(e, e.wq[i])
  <2>1. e.wq \in Seq(Segment(e))
    BY <1>6, FieldsAre DEF Good
  <2>2. e.wq[i] \in Segment(e)
    BY <1>5, <2>1
  <2>3. seg \in Segment(e) /\ seg.seq = e.wq[i].seq /\ seg.end = e.wq[i].end /\ seg.inf = e.wq[i].inf
    BY <2>2, TaggedIs
  <2> HIDE DEF seg
  <2>4. d = WithSegment(e, i, seg)
    BY <1>0 DEF seg
  <2>5. /\ Good(d) /\ Still(e, d) /\ d.head = e.head /\ d.una = e.una
        /\ Len(d.wq) = Len(e.wq) /\ d.wq[i] = seg
    BY <1>5, <1>6, <2>3, <2>4, SegmentChanged
  <2> QED
    BY <2>3, <2>5 DEF Still, Follows
<1>8. Still(c, d)
  BY <1>4, <1>6, <1>7 DEF Still
<1>9. s \in Subflow /\ InOrder(d.sub[s], d.wq[i])
  <2>1. d.wq[i].seq = c.wq[i].seq
    BY <1>4, <1>5, <1>7
  <2> QED
    BY <1>3, <1>8, <2>1, UsableAre
<1> QED
  <2>1. Follows(c, e)
    BY <1>4, <1>6, FollowsOn
  <2>2. Follows(c, d)
    BY <1>7, <2>1, FollowsOn
  <2>3. i \in 1..Len(d.wq)
    BY <1>5, <1>7
  <2>4. d.head = c.head
    BY <1>4, <1>5, <1>7
  <2> QED
    BY <1>7, <1>9, <2>2, <2>3, <2>4

\* Then it is sent and counted.
LEMMA WakeupSent ==
  ASSUME NEW d, Good(d), NEW i \in 1..Len(d.wq), i = d.head + 1, NEW s \in Subflow, InOrder(d.sub[s], d.wq[i]),
         NEW f \in Combines(d, d.wq[i]), NEW x, x = SentOn(d, i, s, f), NEW r, r = NewDataSent(x, i)
  PROVE  Follows(d, r)
<1>1. Follows(d, x) /\ Len(x.wq) = Len(d.wq) /\ x.head = d.head
  BY SentAgain
<1>2. Good(x) /\ i \in 1..Len(x.wq) /\ i = x.head + 1
  BY <1>1 DEF Follows
<1>3. Sends(x, r)
  BY <1>2, NewDataSentGood
<1>4. Follows(x, r)
  BY <1>3 DEF Sends, Still, Follows
<1> QED
  BY <1>1, <1>4, FollowsOn

(***************************************************************************)
(* Steps                                                                   *)
(***************************************************************************)

LEMMA ReceivedOn ==
  ASSUME NEW c, NEW d, NEW p, Received(c, p), d.sched = c.sched, d.una = c.una, c.inf => d.inf
  PROVE  Received(d, p)
BY DEF Received, End

LEMMA QuietStep ==
  ASSUME IInv, Follows(conn, conn'), peer' = peer
  PROVE  IInv'
<1>1. Good(conn') /\ Received(conn', peer)
  BY ReceivedOn DEF IInv, Follows
<1> QED
  BY <1>1 DEF IInv

LEMMA WriteStep ==
  ASSUME IInv, Write
  PROVE  IInv'
<1>1. PICK n \in 1..MaxSeg :
        /\ conn.written + n <= End(conn)
        /\ conn' \in Push([conn EXCEPT !.wq = Append(@, NewSeg(conn.written, n, FALSE)), !.written = @ + n])
  BY DEF Write
<1> DEFINE seg == NewSeg(conn.written, n, FALSE)
           d == Appended(conn, seg)
<1>2. Good(conn) /\ conn \in Connection(conn)
  BY DEF IInv, Good
<1>3. conn.written \in Isn..End(conn) + 1 /\ Isn \in Nat /\ End(conn) \in Nat /\ MaxSeg \in Nat
  BY <1>2, FieldsAre, Constants, SendAssumption
<1>4. seg.end = conn.written + n /\ seg.seq = conn.written /\ ~seg.inf
  BY <1>3 DEF NewSeg
<1>5. seg \in Segment(conn)
  BY <1>1, <1>3 DEF NewSeg, Segment
<1>6. conn' \in Push(d)
  BY <1>1, <1>4 DEF Appended
<1> HIDE DEF seg
<1>7. Follows(conn, d)
  BY <1>2, <1>4, <1>5, AppendedGood
<1> HIDE DEF d
<1>8. Follows(d, conn')
  BY <1>6, <1>7, PushGood DEF Follows
<1>9. Follows(conn, conn')
  BY <1>7, <1>8, FollowsOn
<1> QED
  BY <1>9, QuietStep DEF Write

LEMMA SendFinStep ==
  ASSUME IInv, SendFin
  PROVE  IInv'
<1> DEFINE seg == NewSeg(End(conn), 0, TRUE)
           d == IF conn.head < Len(conn.wq) THEN WithFin(conn) ELSE Appended(conn, seg)
<1>1. Good(conn) /\ conn \in Connection(conn)
  BY DEF IInv, Good
<1>2. Isn \in Nat /\ End(conn) \in Nat /\ Isn <= End(conn) /\ conn.written = End(conn)
  BY <1>1, FieldsAre, Constants DEF SendFin
<1>3. seg.end = conn.written + 1 /\ seg.seq = conn.written /\ ~seg.inf
  BY <1>2 DEF NewSeg
<1>4. seg \in Segment(conn)
  BY <1>2 DEF NewSeg, Segment
<1>5. conn' \in Push(d)
  BY <1>3 DEF SendFin, WithFin, Appended
<1> HIDE DEF seg
<1>6. Follows(conn, d)
  BY <1>1, <1>2, <1>3, <1>4, AppendedGood, WithFinGood
<1> HIDE DEF d
<1>7. Follows(d, conn')
  BY <1>5, <1>6, PushGood DEF Follows
<1>8. Follows(conn, conn')
  BY <1>6, <1>7, FollowsOn
<1> QED
  BY <1>8, QuietStep DEF SendFin

LEMMA WriteSpaceStep ==
  ASSUME IInv, WriteSpace
  PROVE  IInv'
<1>1. Follows(conn, conn')
  BY XmitGood DEF IInv, WriteSpace
<1> QED
  BY <1>1, QuietStep DEF WriteSpace

\* What mptcp_write_wakeup() makes of segment i.
Wakes(c, i, r) ==
  \E o \in Get(c.sched, c, c.wq[i]), len \in Lengths(c.wq[i]) :
    /\ o.sk # None /\ c.wq[i].seq + len <= c.wnd_end
    /\ LET e == Fragmented(IF o.clear THEN [c EXCEPT !.wq[i].mask = {}] ELSE c, i, len)
           d == [e EXCEPT !.wq[i] = Tagged(e, @)]
       IN  \E f \in Combines(d, d.wq[i]) :
             r = NewDataSent([Entail(d, o.sk, d.wq[i], f) EXCEPT !.wq[i].mask = @ \cup {o.sk}], i)

LEMMA WakesGood ==
  ASSUME NEW c, Good(c), NEW i \in 1..Len(c.wq), i = c.head + 1, NEW r, Wakes(c, i, r)
  PROVE  Follows(c, r)
<1>1. PICK o \in Get(c.sched, c, c.wq[i]), len \in Lengths(c.wq[i]) :
        /\ o.sk # None /\ c.wq[i].seq + len <= c.wnd_end
        /\ LET e == Fragmented(IF o.clear THEN [c EXCEPT !.wq[i].mask = {}] ELSE c, i, len)
               d == [e EXCEPT !.wq[i] = Tagged(e, @)]
           IN  \E f \in Combines(d, d.wq[i]) :
                 r = NewDataSent([Entail(d, o.sk, d.wq[i], f) EXCEPT !.wq[i].mask = @ \cup {o.sk}], i)
  BY DEF Wakes
<1> DEFINE s == o.sk
           m == IF o.clear THEN [c EXCEPT !.wq[i].mask = {}] ELSE c
           e == Fragmented(m, i, len)
           d == [e EXCEPT !.wq[i] = Tagged(e, @)]
<1>2. m = c \/ m = WithMask(c, i, {})
  BY DEF WithMask
<1>3. PICK f \in Combines(d, d.wq[i]) : r = NewDataSent(SentOn(d, i, s, f), i)
  BY <1>1 DEF SentOn
<1>4. s \in Usable(c, c.wq[i])
  BY <1>1, GetIs
<1> HIDE DEF s, m
<1>5. d = Prepared(m, i, len)
  BY DEF Prepared, WithSegment
<1> HIDE DEF d
<1>7. /\ Follows(c, d) /\ Good(d) /\ i \in 1..Len(d.wq) /\ d.head = c.head
      /\ s \in Subflow /\ InOrder(d.sub[s], d.wq[i])
  <2>1. Woken(c, i, s, d)
    BY <1>2, <1>4, <1>5 DEF Woken
  <2> QED
    BY <2>1, WakeupParts
<1>8. Follows(d, r)
  BY <1>3, <1>7, WakeupSent
<1> QED
  BY <1>7, <1>8, FollowsOn

LEMMA WriteWakeupStep ==
  ASSUME IInv, WriteWakeup
  PROVE  IInv'
<1>1. Good(conn) /\ conn.head < Len(conn.wq)
  BY DEF IInv, WriteWakeup
<1>2. conn.head + 1 \in 1..Len(conn.wq)
  BY <1>1, FieldsAre DEF Good
<1>3. Wakes(conn, conn.head + 1, conn')
  BY DEF WriteWakeup, Wakes
<1>4. Follows(conn, conn')
  <2> DEFINE i == conn.head + 1
  <2>1. i \in 1..Len(conn.wq) /\ i = conn.head + 1 /\ Wakes(conn, i, conn')
    BY <1>2, <1>3
  <2> HIDE DEF i
  <2> QED
    BY <1>1, <2>1, WakesGood
<1> QED
  BY <1>4, QuietStep DEF WriteWakeup

LEMMA MetaRetransmitStep ==
  ASSUME IInv, MetaRetransmitTimer
  PROVE  IInv'
<1> DEFINE d == TimedOut(conn, TRUE)
<1>1. Good(conn) /\ conn \in Connection(conn) /\ conn.timeouts < MaxTimeouts /\ conn.wq # <<>>
  BY DEF IInv, Good, MetaRetransmitTimer, MayTimeOut
<1>2. PICK r \in RetransmitSkb(d, 1) : conn' = r.c
  BY DEF MetaRetransmitTimer, TimedOut
<1>3. TRUE \in BOOLEAN
  OBVIOUS
<1>4. Good(d) /\ Still(conn, d) /\ d.una = conn.una /\ d.wq = conn.wq
  BY <1>1, <1>3, TimedOutGood
<1> HIDE DEF d
<1>5. 1 \in 1..Len(d.wq)
  BY <1>1, <1>4, FieldsAre
<1>6. Follows(d, r.c)
  BY <1>2, <1>4, <1>5, RetransmitGood
<1>7. Follows(conn, d)
  BY <1>4 DEF Still, Follows
<1>8. Follows(conn, conn')
  BY <1>2, <1>6, <1>7, FollowsOn
<1> QED
  BY <1>8, QuietStep DEF MetaRetransmitTimer

LEMMA BesideFollows ==
  ASSUME NEW c, NEW d, Beside(c, d)
  PROVE  Follows(c, d)
BY DEF Beside, Same, Follows

LEMMA SubRetransmitStep ==
  ASSUME IInv, NEW s \in Subflow, SubRetransmitTimer(s)
  PROVE  IInv'
<1> DEFINE d == TimedOut(conn, conn.loss)
           e == Reinject(d, s)
<1>1. Good(conn) /\ conn \in Connection(conn) /\ conn.timeouts < MaxTimeouts
  BY DEF IInv, Good, SubRetransmitTimer, MayTimeOut
<1>2. conn.loss \in BOOLEAN
  BY <1>1, FieldsAre
<1>3. d = [conn EXCEPT !.timeouts = @ + 1]
  BY <1>1 DEF TimedOut, Connection
<1>4. conn' \in Push(e)
  BY <1>3 DEF SubRetransmitTimer
<1>5. Good(d) /\ Still(conn, d) /\ d.una = conn.una
  BY <1>1, <1>2, TimedOutGood
<1> HIDE DEF d
<1>6. Follows(conn, d)
  BY <1>5 DEF Still, Follows
<1>7. Follows(d, e)
  BY <1>5, ReinjectGood, BesideFollows
<1> HIDE DEF e
<1>8. Follows(e, conn')
  BY <1>4, <1>7, PushGood DEF Follows
<1>9. Follows(conn, e)
  BY <1>6, <1>7, FollowsOn
<1>10. Follows(conn, conn')
  BY <1>8, <1>9, FollowsOn
<1> QED
  BY <1>10, QuietStep DEF SubRetransmitTimer

LEMMA CloseSubflowStep ==
  ASSUME IInv, NEW s \in Subflow, CloseSubflow(s)
  PROVE  IInv'
<1> DEFINE d == Suffers(conn, "close")
           e == Closed(d, s)
<1>1. Good(conn)
  BY DEF IInv
<1>2. conn' \in Push(e)
  BY DEF CloseSubflow
<1>3. Good(d) /\ Still(conn, d) /\ d.una = conn.una
  BY <1>1, SuffersGood
<1> HIDE DEF d
<1>4. Follows(conn, d)
  BY <1>3 DEF Still, Follows
<1>5. Follows(d, e)
  BY <1>3, ClosedGood, BesideFollows
<1> HIDE DEF e
<1>6. Follows(e, conn')
  BY <1>2, <1>5, PushGood DEF Follows
<1>7. Follows(conn, e)
  BY <1>4, <1>5, FollowsOn
<1>8. Follows(conn, conn')
  BY <1>6, <1>7, FollowsOn
<1> QED
  BY <1>8, QuietStep DEF CloseSubflow

LEMMA MpFailStep ==
  ASSUME IInv, NEW s \in Subflow, MpFail(s)
  PROVE  IInv'
<1> DEFINE d == Restarted(conn)
<1>1. PICK c \in Push(d) : conn' = OthersClosed(c, s)
  BY DEF MpFail
<1>2. Follows(conn, d)
  BY RestartedGood DEF IInv
<1> HIDE DEF d
<1>3. Follows(d, c)
  BY <1>1, <1>2, PushGood DEF Follows
<1>4. Follows(conn, c)
  BY <1>2, <1>3, FollowsOn
<1>5. Follows(c, conn')
  BY <1>1, <1>4, OthersClosedGood, BesideFollows DEF Follows
<1>6. Follows(conn, conn')
  BY <1>4, <1>5, FollowsOn
<1> QED
  BY <1>6, QuietStep DEF MpFail

LEMMA SplitCopyStep ==
  ASSUME IInv, NEW s \in Subflow, SplitCopy(s)
  PROVE  IInv'
<1> DEFINE d == Suffers(conn, "split")
<1>1. Good(conn)
  BY DEF IInv
<1>2. Good(d) /\ Still(conn, d) /\ d.una = conn.una
  BY <1>1, SuffersGood
<1>3. d.sub = conn.sub
  BY <1>2 DEF Still
<1>4. PICK k \in d.sub[s].rx + 1..Len(d.sub[s].q) :
        /\ d.sub[s].q[k].to - d.sub[s].q[k].from > 1
        /\ conn' = CopyCut(d, s, k)
  <2> HIDE DEF d
  <2>1. PICK k \in conn.sub[s].rx + 1..Len(conn.sub[s].q) :
          LET copy == conn.sub[s].q[k] IN
          /\ copy.to - copy.from > 1
          /\ conn' = [d EXCEPT !.sub[s].q =
                        Replaced(@, k, <<[copy EXCEPT !.to = copy.from + 1], [copy EXCEPT !.from = @ + 1]>>)]
    BY DEF SplitCopy, d
  <2> QED
    BY <1>3, <2>1 DEF CopyCut
<1> HIDE DEF d
<1>5. Follows(conn, d)
  BY <1>2 DEF Still, Follows
<1>6. Follows(d, conn')
  BY <1>2, <1>4, CopyCutGood, BesideFollows
<1>7. Follows(conn, conn')
  BY <1>5, <1>6, FollowsOn
<1> QED
  BY <1>7, QuietStep DEF SplitCopy

\* An ACK takes k copies off subflow s.
Acked(c, s, k) == [c EXCEPT !.sub[s].q = SubSeq(@, k + 1, Len(@)), !.sub[s].rx = @ - k]

LEMMA AckedGood ==
  ASSUME NEW c, Good(c), NEW s \in Subflow, NEW k \in {0, c.sub[s].rx}, NEW d, d = Acked(c, s, k)
  PROVE  Beside(c, d) /\ d.inf = c.inf /\ d.sub[s].rx \in Nat
<1> DEFINE u == c.sub[s]
           q == SubSeq(u.q, k + 1, Len(u.q))
           v == [u EXCEPT !.q = q, !.rx = u.rx - k]
           n == Len(u.q)
<1>1. c \in Connection(c) /\ Row(c, u)
  BY DEF Good
<1>2. c.sub \in [Subflow -> Sub(Copy(c))] /\ u \in Sub(Copy(c))
  BY <1>1, FieldsAre
<1>3. d = WithSub(c, c.inf, c.dfin, s, v)
  BY <1>1, <1>2 DEF Acked, WithSub, Connection
<1>4. u.q \in Seq(Copy(c)) /\ u.rx \in Nat /\ n \in Nat /\ u.rx <= n
  BY <1>1, <1>2 DEF Sub, Row
<1>5. k \in 0..n /\ u.rx - k \in Nat /\ u.rx - k <= n - k
  BY <1>4
<1>6. q \in Seq(Copy(c)) /\ Len(q) = n - k /\ \A i \in 1..n - k : q[i] = u.q[k + i]
  <2> DEFINE S == Copy(c)
             w == u.q
  <2>1. w \in Seq(S) /\ k \in 0..Len(w)
    BY <1>4, <1>5
  <2> HIDE DEF S, w
  <2>2. /\ SubSeq(w, k + 1, Len(w)) \in Seq(S) /\ Len(SubSeq(w, k + 1, Len(w))) = Len(w) - k
        /\ \A i \in 1..Len(w) - k : SubSeq(w, k + 1, Len(w))[i] = w[k + i]
    BY <2>1, RestOf
  <2> QED
    BY <2>2 DEF S, w
<1> HIDE DEF q
<1>7. v \in Sub(Copy(c)) /\ v.q = q /\ v.rx = u.rx - k /\ v.est = u.est /\ v.last_end = u.last_end
  <2> DEFINE K == Copy(c)
             r == u.rx - k
  <2>1. u \in [q : Seq(K), rx : Nat, open : BOOLEAN, pf : BOOLEAN, est : BOOLEAN, last_end : Nat \cup {None}]
    BY <1>2 DEF Sub
  <2>2. q \in Seq(K) /\ r \in Nat
    BY <1>5, <1>6
  <2> HIDE DEF K, r, u
  <2>3. /\ [u EXCEPT !.q = q, !.rx = r] \in
              [q : Seq(K), rx : Nat, open : BOOLEAN, pf : BOOLEAN, est : BOOLEAN, last_end : Nat \cup {None}]
        /\ [u EXCEPT !.q = q, !.rx = r].q = q /\ [u EXCEPT !.q = q, !.rx = r].rx = r
        /\ [u EXCEPT !.q = q, !.rx = r].est = u.est /\ [u EXCEPT !.q = q, !.rx = r].last_end = u.last_end
    BY <2>1, <2>2
  <2> QED
    BY <2>3 DEF Sub, K, r
<1> HIDE DEF v
<1>8. Row(c, v)
  <2>1. v.rx <= Len(v.q)
    BY <1>5, <1>6, <1>7
  <2>2. ASSUME ~v.est
        PROVE  /\ \A i \in 2..Len(v.q) : v.q[i].from = v.q[i - 1].to
               /\ v.q # <<>> => v.last_end # None /\ (v.q[Len(v.q)].to = v.last_end \/ v.last_end = End(c) + 1)
    <3>1. /\ \A i \in 2..n : u.q[i].from = u.q[i - 1].to
          /\ u.q # <<>> => u.last_end # None /\ (u.q[n].to = u.last_end \/ u.last_end = End(c) + 1)
      BY <1>1, <1>7, <2>2 DEF Row
    <3>2. ASSUME NEW i \in 2..n - k PROVE q[i].from = q[i - 1].to
      <4>1. i \in 1..n - k /\ i - 1 \in 1..n - k /\ k + i \in 2..n /\ k + (i - 1) = (k + i) - 1
        BY <1>4, <1>5, <3>2
      <4>2. q[i] = u.q[k + i] /\ q[i - 1] = u.q[(k + i) - 1]
        BY <1>6, <4>1
      <4> QED
        BY <3>1, <4>1, <4>2
    <3>3. q # <<>> => u.q # <<>> /\ q[n - k] = u.q[n]
      <4> SUFFICES ASSUME q # <<>> PROVE u.q # <<>> /\ q[n - k] = u.q[n]
        OBVIOUS
      <4>1. n - k \in 1..n - k /\ k + (n - k) = n /\ n # 0
        BY <1>4, <1>5, <1>6
      <4> QED
        BY <1>4, <1>6, <4>1
    <3> QED
      BY <1>6, <1>7, <3>1, <3>2, <3>3
  <2> QED
    BY <2>1, <2>2 DEF Row
<1>9. d.inf = c.inf
  BY <1>1, <1>3 DEF WithSub, Connection
<1>10. Beside(c, d) /\ d.sub[s] = v
  <2> HIDE DEF u, Acked
  <2> QED
    BY <1>3, <1>7, <1>8, SubReplaced
<1> QED
  BY <1>5, <1>7, <1>9, <1>10

LEMMA RcvNxtIs ==
  ASSUME IInv, ~conn.inf
  PROVE  RcvNxt \in Int /\ Isn..RcvNxt - 1 \subseteq peer.got
<1> DEFINE T == (Isn..End(conn) + 1) \ peer.got
<1>1. Isn \in Nat /\ End(conn) \in Nat /\ Isn <= End(conn)
  BY Constants, FieldsAre DEF IInv, Good
<1>2. peer.got \subseteq Isn..End(conn)
  BY DEF IInv, Received
<1>3. T \in SUBSET Nat /\ T # {}
  <2>1. End(conn) + 1 \in T
    BY <1>1, <1>2
  <2> QED
    BY <1>1, <2>1
<1>4. Min(T) \in T /\ \A n \in T : Min(T) <= n
  <2> HIDE DEF T
  <2> QED
    BY <1>3, LeastNumber
<1>5. ASSUME NEW n \in Isn..Min(T) - 1 PROVE n \in peer.got
  <2>1. n \in Isn..End(conn) + 1 /\ ~(Min(T) <= n)
    BY <1>1, <1>4
  <2> QED
    BY <1>4, <2>1
<1> QED
  BY <1>3, <1>4, <1>5 DEF RcvNxt

LEMMA AckStep ==
  ASSUME IInv, NEW s \in Subflow, Ack(s)
  PROVE  IInv'
<1>1. PICK k \in {0, conn.sub[s].rx} :
        LET c == Acked(conn, s, k) IN
        IF c.inf
        THEN \E t \in c.sub[s].rx..Len(c.sub[s].q) : conn' \in DataAck(c, s, InferredAck(c, s, t))
        ELSE \E data_ack \in {conn.una, RcvNxt} : conn' \in DataAck(c, s, data_ack)
  BY DEF Ack, Acked
<1> DEFINE c == Acked(conn, s, k)
<1>2. Beside(conn, c) /\ c.inf = conn.inf /\ c.sub[s].rx \in Nat
  BY AckedGood DEF IInv
<1>3. CASE c.inf
  <2>1. PICK t \in c.sub[s].rx..Len(c.sub[s].q) : conn' \in DataAck(c, s, InferredAck(c, s, t))
    BY <1>1, <1>3
  <2> HIDE DEF c
  <2>2. t \in 0..Len(c.sub[s].q)
    BY <1>2, <2>1
  <2>3. InferredAck(c, s, t) \in Int
    BY <1>2, <2>2, InferredAckIs DEF Beside
  <2>4. Good(conn') /\ conn'.inf
    BY <1>2, <1>3, <2>1, <2>3, DataAckGood DEF Beside
  <2> QED
    BY <2>4 DEF IInv, Received, Ack
<1>4. CASE ~c.inf
  <2>1. PICK a \in {conn.una, RcvNxt} : conn' \in DataAck(c, s, a)
    BY <1>1, <1>4
  <2> HIDE DEF c
  <2>2. conn.una \in Int /\ RcvNxt \in Int /\ Isn..RcvNxt - 1 \subseteq peer.got
    BY <1>2, <1>4, RcvNxtIs, FieldsAre, Constants DEF IInv, Good
  <2>3. /\ Good(conn') /\ conn'.sched = c.sched /\ (conn'.una = c.una \/ conn'.una = a)
    BY <1>2, <2>1, <2>2, DataAckGood DEF Beside
  <2>4. c.sched = conn.sched /\ c.una = conn.una
    BY <1>2 DEF Beside, Same
  <2>5. conn'.una = conn.una \/ conn'.una = RcvNxt
    BY <2>3, <2>4
  <2>6. Received(conn, peer) /\ ~conn.inf
    BY <1>2, <1>4 DEF IInv
  <2>7. Received(conn', peer)
    BY <2>2, <2>3, <2>4, <2>5, <2>6 DEF Received, End
  <2> QED
    BY <2>3, <2>7 DEF IInv, Ack
<1> QED
  BY <1>3, <1>4

LEMMA DeliverFinStep ==
  ASSUME IInv, DeliverFin
  PROVE  IInv'
<1>1. conn' = DfinSent(conn) /\ peer' = [peer EXCEPT !.got = @ \cup {End(conn)}]
  BY DEF DeliverFin, DfinSent
<1>2. Follows(conn, conn')
  BY <1>1, DfinSentGood DEF IInv
<1>3. Received(conn', peer)
  BY <1>2, ReceivedOn DEF IInv, Follows
<1>4. /\ peer'.got = peer.got \cup {End(conn)} /\ peer'.inf = peer.inf
      /\ peer' \in [got : SUBSET Int, inf : Subflow \cup {None}, next : Int]
  <2>1. End(conn) \in Int /\ peer \in [got : SUBSET Int, inf : Subflow \cup {None}, next : Int]
    BY FieldsAre DEF IInv, Good
  <2> QED
    BY <1>1, <2>1
<1>5. End(conn') = End(conn) /\ End(conn) \in Nat /\ Isn \in Nat /\ Isn <= End(conn)
  BY <1>2, FieldsAre, Constants DEF Follows, End, IInv, Good
<1>6. Received(conn', peer')
  BY <1>3, <1>4, <1>5 DEF Received
<1> QED
  BY <1>2, <1>4, <1>6 DEF IInv, Follows

\* What the peer has after a copy has come to it on subflow s.
Taken(c, p, s, copy) ==
  LET goes == p.inf = s
      here == IF goes THEN p.next..p.next + copy.to - copy.from - 1 ELSE copy.from..copy.to - 1
      fin  == {x \in {End(c)} : copy.seg.fin /\ copy.to = x}
  IN  [got  |-> p.got \cup here \cup fin,
       inf  |-> IF copy.seg.inf THEN s ELSE p.inf,
       next |-> CASE goes -> p.next + copy.to - copy.from [] ~goes /\ copy.seg.inf -> copy.to [] OTHER -> p.next]

LEMMA TakenIs ==
  ASSUME NEW c, Good(c), NEW p \in [got : SUBSET Int, inf : Subflow \cup {None}, next : Int], Received(c, p),
         NEW s \in Subflow, NEW copy \in Copy(c), NEW t, t = Taken(c, p, s, copy)
  PROVE  t \in [got : SUBSET Int, inf : Subflow \cup {None}, next : Int] /\ Received(c, t)
<1> DEFINE goes == p.inf = s
           here == IF goes THEN p.next..p.next + copy.to - copy.from - 1 ELSE copy.from..copy.to - 1
           fin  == {x \in {End(c)} : copy.seg.fin /\ copy.to = x}
           next == CASE goes -> p.next + copy.to - copy.from [] ~goes /\ copy.seg.inf -> copy.to [] OTHER -> p.next
           inf  == IF copy.seg.inf THEN s ELSE p.inf
<1>1. c.sched \in Schedulers /\ End(c) \in Nat /\ Isn \in Nat /\ Isn <= End(c)
  BY FieldsAre, Constants DEF Good
<1>2. copy.seg \in Segment(c) /\ copy.from \in Nat /\ copy.to \in Nat
      /\ copy.seg.seq <= copy.from /\ copy.to <= copy.seg.seq + Bytes(copy.seg)
  BY DEF Copy
<1>3. /\ copy.seg.seq \in Nat /\ Isn <= copy.seg.seq /\ Bytes(copy.seg) \in Nat
      /\ copy.seg.seq + Bytes(copy.seg) <= End(c) /\ (copy.seg.inf => c.inf)
  BY <1>1, <1>2, SegmentIs
<1>4. Isn <= copy.from /\ copy.to <= End(c)
  BY <1>1, <1>2, <1>3
<1>5. p.next \in Int /\ p.got \in SUBSET Int /\ p.inf \in Subflow \cup {None}
  OBVIOUS
<1>6. here \in SUBSET Int /\ fin \in SUBSET Int /\ next \in Int
  BY <1>1, <1>2, <1>5
<1>7. inf \in Subflow \cup {None}
  BY <1>5
<1>8. ~goes => here \subseteq Isn..End(c)
  BY <1>1, <1>2, <1>4
<1>9. fin \subseteq Isn..End(c)
  BY <1>1
<1> DEFINE got == p.got \cup here \cup fin
<1>10. t = [got |-> got, inf |-> inf, next |-> next]
  BY DEF Taken
<1>13. /\ got \in SUBSET Int /\ p.got \subseteq got
       /\ (p.got \subseteq Isn..End(c) /\ ~goes => got \subseteq Isn..End(c))
       /\ (~copy.seg.inf => inf = p.inf)
  <2> HIDE DEF here, fin
  <2> QED
    BY <1>5, <1>6, <1>8, <1>9
<1> HIDE DEF got, inf, next
<1>11. /\ t \in [got : SUBSET Int, inf : Subflow \cup {None}, next : Int]
       /\ t.got = got /\ t.inf = inf
  <2>1. got \in SUBSET Int /\ inf \in Subflow \cup {None} /\ next \in Int
    BY <1>6, <1>7, <1>13
  <2> QED
    BY <1>10, <2>1
<1>12. ASSUME ~c.inf
       PROVE  t.got \subseteq Isn..End(c) /\ t.inf = None /\ Isn..c.una - 1 \subseteq t.got
  <2>1. p.got \subseteq Isn..End(c) /\ p.inf = None /\ Isn..c.una - 1 \subseteq p.got
    BY <1>12 DEF Received
  <2>2. ~goes /\ ~copy.seg.inf
    BY <1>3, <1>12, <2>1, Constants
  <2> QED
    BY <1>11, <1>13, <2>1, <2>2
<1> QED
  BY <1>11, <1>12 DEF Received

LEMMA DeliverStep ==
  ASSUME IInv, NEW s \in Subflow, Deliver(s)
  PROVE  IInv'
<1> DEFINE copy == conn.sub[s].q[conn.sub[s].rx + 1]
<1>1. Good(conn) /\ conn \in Connection(conn) /\ conn.sub[s].rx < Len(conn.sub[s].q)
  BY DEF IInv, Good, Deliver
<1>2. \/ conn' = Arrived(conn, s) /\ peer' = Taken(conn, peer, s, copy)
      \/ conn' = Arrived(Suffers(conn, "discard"), s) /\ peer' = peer
  BY DEF Deliver, Arrived, Taken
<1>3. CASE conn' = Arrived(conn, s) /\ peer' = Taken(conn, peer, s, copy)
  <2>1. copy \in Copy(conn)
    <3>1. conn.sub[s].q \in Seq(Copy(conn)) /\ conn.sub[s].rx \in Nat
      BY <1>1, FieldsAre DEF Sub
    <3> QED
      BY <1>1, <3>1
  <2> HIDE DEF copy
  <2>2. /\ peer' \in [got : SUBSET Int, inf : Subflow \cup {None}, next : Int]
        /\ Received(conn, peer')
    BY <1>1, <1>3, <2>1, TakenIs DEF IInv
  <2>3. Beside(conn, conn')
    BY <1>1, <1>3, ArrivedGood
  <2>4. Good(conn') /\ Received(conn', peer')
    BY <2>2, <2>3, ReceivedOn DEF Beside, Same
  <2> QED
    BY <2>2, <2>4 DEF IInv
<1>4. CASE conn' = Arrived(Suffers(conn, "discard"), s) /\ peer' = peer
  <2> DEFINE d == Suffers(conn, "discard")
  <2>1. Good(d) /\ Still(conn, d) /\ d.una = conn.una
    BY <1>1, SuffersGood
  <2> HIDE DEF d
  <2>2. d.sub[s].rx < Len(d.sub[s].q)
    BY <1>1, <2>1 DEF Still
  <2>3. Beside(d, conn')
    BY <1>4, <2>1, <2>2, ArrivedGood DEF d
  <2>4. Follows(d, conn')
    BY <2>3, BesideFollows
  <2>5. Follows(conn, d)
    BY <2>1 DEF Still, Follows
  <2>6. Follows(conn, conn')
    BY <2>4, <2>5, FollowsOn
  <2> QED
    BY <1>4, <2>6, QuietStep
<1> QED
  BY <1>2, <1>3, <1>4

LEMMA InitGood ==
  ASSUME Init
  PROVE  IInv
<1>1. PICK sched \in Schedulers, est \in Established :
        conn = [sched |-> sched, wq |-> <<>>, head |-> 0, reinj |-> <<>>, written |-> Isn,
                una |-> Isn, nxt |-> Isn, wnd_end |-> Isn + Wnd, packets_out |-> 0,
                loss |-> FALSE, send_inf |-> FALSE, inf |-> FALSE, dfin |-> FALSE,
                index |-> 0, high |-> [x \in 0..1 |-> Isn \div Wrap - x], timeouts |-> 0,
                faults |-> {}, last |-> [s \in Subflow |-> [seq |-> Isn, end |-> Isn]],
                sub |-> [s \in Subflow |-> [q |-> <<>>, rx |-> 0, open |-> TRUE, pf |-> FALSE,
                                            est |-> est, last_end |-> None]]]
  BY DEF Init
<1>2. /\ conn.sched \in Schedulers /\ conn.wq = <<>> /\ conn.head = 0 /\ conn.reinj = <<>>
      /\ conn.written = Isn /\ conn.una = Isn /\ conn.nxt = Isn /\ conn.packets_out = 0 /\ conn.inf = FALSE
      /\ conn.sub = [s \in Subflow |-> [q |-> <<>>, rx |-> 0, open |-> TRUE, pf |-> FALSE,
                                        est |-> est, last_end |-> None]]
  BY <1>1
<1>3. End(conn) \in Nat /\ Isn \in Nat /\ Isn <= End(conn)
  BY <1>2, EndIs, Constants
<1>4. conn \in Connection(conn)
  <2> DEFINE S == Segment(conn)
             K == Copy(conn)
             E == End(conn)
  <2>1. <<>> \in Seq(S) /\ <<>> \in Seq(K) /\ Isn \in Isn..E + 1
    BY <1>3
  <2> HIDE DEF S, K, E
  <2>2. Isn + Wnd \in Nat /\ 0 \in 0..MaxTimeouts /\ est \in BOOLEAN
    BY Constants, SendAssumption
  <2>3. [x \in 0..1 |-> Isn \div Wrap - x] \in [0..1 -> Int]
    <3>1. Isn \div Wrap \in Int
      BY <1>3, Constants
    <3> QED
      BY <3>1
  <2>4. [s \in Subflow |-> [q |-> <<>>, rx |-> 0, open |-> TRUE, pf |-> FALSE, est |-> est, last_end |-> None]]
          \in [Subflow -> Sub(K)]
    BY <2>1, <2>2 DEF Sub
  <2>5. [s \in Subflow |-> [seq |-> Isn, end |-> Isn]] \in [Subflow -> [seq : Nat, end : Nat]]
    BY <1>3
  <2> DEFINE high == [x \in 0..1 |-> Isn \div Wrap - x]
             sub == [s \in Subflow |-> [q |-> <<>>, rx |-> 0, open |-> TRUE, pf |-> FALSE, est |-> est, last_end |-> None]]
             last == [s \in Subflow |-> [seq |-> Isn, end |-> Isn]]
             wnd == Isn + Wnd
  <2>6. conn = [sched |-> sched, wq |-> <<>>, head |-> 0, reinj |-> <<>>, written |-> Isn,
                una |-> Isn, nxt |-> Isn, wnd_end |-> wnd, packets_out |-> 0,
                loss |-> FALSE, send_inf |-> FALSE, inf |-> FALSE, dfin |-> FALSE,
                index |-> 0, high |-> high, timeouts |-> 0, faults |-> {}, last |-> last, sub |-> sub]
    BY <1>1
  <2>8. high \in [0..1 -> Int] /\ sub \in [Subflow -> Sub(K)] /\ last \in [Subflow -> [seq : Nat, end : Nat]]
        /\ wnd \in Nat
    BY <2>2, <2>3, <2>4, <2>5
  <2> HIDE DEF high, sub, last, wnd
  <2>7. conn \in [sched : Schedulers, wq : Seq(S), head : Nat, reinj : Seq(S),
                  written : Isn..E + 1, una : Isn..E + 1, nxt : Isn..E + 1, wnd_end : Nat,
                  packets_out : Int, loss : BOOLEAN, send_inf : BOOLEAN, inf : BOOLEAN, dfin : BOOLEAN,
                  index : 0..1, high : [0..1 -> Int], timeouts : 0..MaxTimeouts,
                  faults : SUBSET {"close", "mpfail", "nomem", "split", "discard", "inside"},
                  last : [Subflow -> [seq : Nat, end : Nat]], sub : [Subflow -> Sub(K)]]
    BY <2>1, <2>2, <2>6, <2>8
  <2> QED
    BY <2>7 DEF Connection, Sub, S, K, E
<1>5. Seamless(conn) /\ Aligned(conn)
  BY <1>2, <1>3 DEF Seamless, Aligned
<1>6. \A s \in Subflow : Row(conn, conn.sub[s])
  BY <1>2 DEF Row
<1>7. peer = [got |-> {}, inf |-> None, next |-> 0]
  BY DEF Init
<1>8. Received(conn, peer) /\ peer \in [got : SUBSET Int, inf : Subflow \cup {None}, next : Int]
  BY <1>2, <1>3, <1>7 DEF Received
<1> QED
  BY <1>4, <1>5, <1>6, <1>8 DEF IInv, Good

\* Every step of the sender keeps the inductive invariant.
LEMMA StepGood ==
  ASSUME IInv, [Next]_vars
  PROVE  IInv'
<1>1. CASE Write
  BY <1>1, WriteStep
<1>2. CASE SendFin
  BY <1>2, SendFinStep
<1>3. CASE WriteSpace
  BY <1>3, WriteSpaceStep
<1>4. CASE WriteWakeup
  BY <1>4, WriteWakeupStep
<1>5. CASE MetaRetransmitTimer
  BY <1>5, MetaRetransmitStep
<1>6. CASE DeliverFin
  BY <1>6, DeliverFinStep
<1>7. ASSUME NEW s \in Subflow, SubRetransmitTimer(s) PROVE IInv'
  BY <1>7, SubRetransmitStep
<1>8. ASSUME NEW s \in Subflow, CloseSubflow(s) PROVE IInv'
  BY <1>8, CloseSubflowStep
<1>9. ASSUME NEW s \in Subflow, Ack(s) PROVE IInv'
  BY <1>9, AckStep
<1>10. ASSUME NEW s \in Subflow, MpFail(s) PROVE IInv'
  BY <1>10, MpFailStep
<1>11. ASSUME NEW s \in Subflow, Deliver(s) PROVE IInv'
  BY <1>11, DeliverStep
<1>12. ASSUME NEW s \in Subflow, SplitCopy(s) PROVE IInv'
  BY <1>12, SplitCopyStep
<1>13. CASE UNCHANGED vars
  BY <1>13 DEF IInv, vars
<1> QED
  BY <1>1, <1>2, <1>3, <1>4, <1>5, <1>6, <1>7, <1>8, <1>9, <1>10, <1>11, <1>12, <1>13 DEF Next

(***************************************************************************)
(* Theorems                                                                *)
(***************************************************************************)

LEMMA Invariance == Spec => []IInv
<1>1. Init => IInv
  BY InitGood
<1>2. IInv /\ [Next]_vars => IInv'
  BY StepGood
<1> QED
  BY <1>1, <1>2, PTL DEF Spec

\* The control block, the queues and the subflows keep their types: a segment lies within
\* the stream, a copy within its mapping, and no position runs off its queue.
THEOREM TypeCorrect == Spec => []TypeOK
<1>1. IInv => TypeOK
  BY DEF IInv, Good, Seamless, Row, TypeOK
<1> QED
  BY <1>1, Invariance, PTL

\* The write queue has no gap and starts at or before the first byte not acknowledged,
\* snd_nxt is where the send head starts and packets_out counts what is before it, however
\* the segments are cut, sent again, acknowledged in part or sent again after a fall back.
THEOREM QueueIsAccounted == Spec => []QueueAccounting
<1>1. IInv => QueueAccounting
  BY DEF IInv, Good, Seamless, Aligned, QueueAccounting, Last
<1> QED
  BY <1>1, Invariance, PTL

\* Until a subflow is established its copies follow each other without a gap, although
\* other subflows carry the segments between them, too, and those are cut.
THEOREM OrderedUntilEstablished == Spec => []InOrderUntilEstablished
<1>1. IInv => InOrderUntilEstablished
  BY DEF IInv, Good, Row, InOrderUntilEstablished
<1> QED
  BY <1>1, Invariance, PTL

\* No byte is freed that the peer has not taken, whatever the copies, the DATA_ACKs, the
\* time-outs and the faults of the subflows.
THEOREM NothingFreedUnreceived == Spec => []FreedIsReceived
<1>1. ASSUME IInv
      PROVE  FreedIsReceived
  <2> SUFFICES ASSUME ~conn.inf PROVE Freed \subseteq peer.got
    BY DEF FreedIsReceived
  <2>1. Seamless(conn) /\ Isn..conn.una - 1 \subseteq peer.got
    BY <1>1 DEF IInv, Good, Received
  <2>2. /\ conn.wq \in Seq(Segment(conn)) /\ conn.una \in Int /\ conn.written \in Int /\ Isn \in Nat
    BY <1>1, FieldsAre, Constants DEF IInv, Good
  <2>3. CASE conn.wq = <<>>
    <3>1. conn.written <= conn.una
      BY <2>1, <2>3 DEF Seamless
    <3> QED
      BY <2>1, <2>2, <2>3, <3>1 DEF Freed
  <2>4. CASE conn.wq # <<>>
    <3>1. conn.wq[1] \in Segment(conn)
      BY <2>2, <2>4
    <3>2. conn.wq[1].seq \in Nat
      BY <3>1 DEF Segment
    <3>3. conn.wq[1].seq <= conn.una
      BY <2>1, <2>4 DEF Seamless
    <3> QED
      BY <2>1, <2>2, <2>4, <3>2, <3>3 DEF Freed
  <2> QED
    BY <2>3, <2>4
<1>2. IInv => FreedIsReceived
  BY <1>1
<1> QED
  BY <1>2, Invariance, PTL

=============================================================================
