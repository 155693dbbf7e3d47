------------------------------ MODULE OfoQueue ------------------------------
(***************************************************************************)
(* The out-of-order queue of the meta socket.  Segments of all subflows    *)
(* are put in by their data sequence numbers and leave once the gap before *)
(* them is filled.  Each subflow has a shortcut, the segment it has put in *)
(* last; a new segment often belongs behind one of the shortcuts.          *)
(*                                                                         *)
(* A queue is a record of the queue itself and the shortcuts.  A shortcut  *)
(* is a pointer: segments have an identity (id), which is used again once  *)
(* a segment is freed.  data is the payload, the bytes of the stream, which *)
(* are named by their 64-bit data sequence numbers.                        *)
(***************************************************************************)
EXTENDS Seqno, Sequences, SequencesExt, FiniteSetsExt

CONSTANTS
  Subflow,        \* subflows, in the order of connection_list: 1..n
  Ids,            \* room for segments
  None            \* no segment

ASSUME OfoAssumption ==
  /\ Subflow \subseteq Nat
  /\ Ids \subseteq Nat
  /\ None \notin Ids

EmptyQueue == [ofo |-> <<>>, shortcut |-> [s \in Subflow |-> None]]

IdsOf(ofo) == {ofo[p].id : p \in DOMAIN ofo}

\* The queue segment of a shortcut, as a set of positions.
PositionOf(q, s) == {p \in DOMAIN q.ofo : q.ofo[p].id = q.shortcut[s]}

\* kmalloc may return the memory of a segment that was freed.
FreshId(q) == Min(Ids \ IdsOf(q.ofo))

-----------------------------------------------------------------------------
(* mptcp_remove_shortcuts.                                                 *)

\* Only the first subflow with this shortcut is cared for.
RemoveShortcut(shortcut, id) ==
  LET having == {s \in Subflow : shortcut[s] = id}
  IN  IF having = {} THEN shortcut ELSE [shortcut EXCEPT ![Min(having)] = None]

RemoveShortcuts_Kept(q, from, to) == q.shortcut

\* The shortcuts once the segments at positions from..to are freed.
RemoveShortcuts(q, from, to) ==
  FoldLeft(LAMBDA shortcut, skb : RemoveShortcut(shortcut, skb.id),
           q.shortcut, SubSeq(q.ofo, from, to))

PurgeOfoQueue(q) ==
  [ofo |-> <<>>, shortcut |-> RemoveShortcuts(q, 1, Len(q.ofo))]

-----------------------------------------------------------------------------
(* Inserting: mptcp_add_meta_ofo_queue, try_shortcut.                      *)

\* __skb_queue_after(): behind position p, at the head if p = 0.  The segment
\* becomes the shortcut of its subflow s.
Queued(q, s, skb, p) ==
  LET id == FreshId(q)
  IN  [ofo      |-> InsertAt(q.ofo, p + 1, [skb EXCEPT !.id = id]),
       shortcut |-> [q.shortcut EXCEPT ![s] = id]]

\* tcp_try_coalesce(): the bytes are moved to the segment in front, at p.
Joined(skb, next) ==
  [skb EXCEPT !.end = next.end, !.fin = @ \/ next.fin, !.data = @ \o next.data]

Coalesced(q, skb, p) == [q EXCEPT !.ofo[p] = Joined(@, skb)]

\* Directly behind the segment at p, which ends where skb begins.
Appended(q, s, skb, p) == {Coalesced(q, skb, p), Queued(q, s, skb, p)}

\* Does skb fit behind the segment at p?
FitsAfter(q, skb, p) ==
  /\ ~Before(skb.seq, q.ofo[p].end)
  /\ \/ skb.seq = q.ofo[p].end
     \/ p = Len(q.ofo)
     \/ ~After(skb.end, q.ofo[p + 1].seq)

\* mptcp_ofo_queue_after(), when it fits.
QueueAfter(q, s, skb, p) ==
  IF skb.seq = q.ofo[p].end THEN Appended(q, s, skb, p) ELSE {Queued(q, s, skb, p)}

\* The subflows whose shortcut is a hit.
Hits(q, skb) == {t \in Subflow : \E p \in PositionOf(q, t) : FitsAfter(q, skb, p)}

\* Where the search starts: the closest shortcut behind skb, or the tail.
Start(q, skb) ==
  LET behind == {p \in UNION {PositionOf(q, t) : t \in Subflow} : After(q.ofo[p].seq, skb.seq)}
      Far(p) == Distance(skb.seq, q.ofo[p].seq)
  IN  IF behind = {} THEN Len(q.ofo)
      ELSE CHOOSE p \in behind : \A o \in behind : Far(p) <= Far(o)

\* From there towards the head: the first segment that does not start behind skb.
Predecessor(q, skb, start) ==
  Max({0} \cup {p \in 1..start : ~After(q.ofo[p].seq, skb.seq)})

\* The position of the last of the segments behind p that start before skb ends.
LastCovered(ofo, p, skb) ==
  Max({o \in p..Len(ofo) : \A i \in p + 1..o : After(skb.end, ofo[i].seq)})

\* Behind position p, and the segments covered are freed.
Inserted(q, s, skb, p) ==
  LET last == LastCovered(q.ofo, p, skb)
  IN  Queued([ofo      |-> SubSeq(q.ofo, 1, p) \o SubSeq(q.ofo, last + 1, Len(q.ofo)),
              shortcut |-> RemoveShortcuts(q, p + 1, last)], s, skb, p)

Search(q, s, skb) ==
  LET start == Start(q, skb)
      p     == Predecessor(q, skb, start)
  IN  CASE skb.seq = q.ofo[start].end ->
             Appended(q, s, skb, start)
        [] skb.seq # q.ofo[start].end /\ p > 0 /\ Before(skb.seq, q.ofo[p].end) ->
             {CASE ~After(skb.end, q.ofo[p].end) -> q           \* all the bits are present
                [] OTHER -> Inserted(q, s, skb, IF skb.seq = q.ofo[p].seq THEN p - 1 ELSE p)}
        [] OTHER -> {Inserted(q, s, skb, p)}

\* The shortcut of the own subflow comes first, then those of the others, then
\* the search.
AddMetaOfoQueue(q, s, skb) ==
  LET hits == Hits(q, skb)
  IN  CASE q.ofo = <<>>                  -> {Queued(q, s, skb, 0)}
        [] q.ofo # <<>> /\ s \in hits    -> QueueAfter(q, s, skb, Max(PositionOf(q, s)))
        [] q.ofo # <<>> /\ s \notin hits /\ hits # {} ->
             QueueAfter(q, s, skb, Max(PositionOf(q, Min(hits))))
        [] OTHER -> Search(q, s, skb)

-----------------------------------------------------------------------------
(* Draining: mptcp_ofo_queue.                                              *)

\* The bytes of skb from sequence number rcv_nxt on.
NewBytes(skb, rcv_nxt) == SubSeq(skb.data, Distance(skb.seq, rcv_nxt) + 1, Len(skb.data))

DrainOne_OldStops(d, skb) ==
  IF d.stop \/ skb.seq # d.rcv_nxt THEN [d EXCEPT !.stop = TRUE]
  ELSE [n |-> d.n + 1, rcv_nxt |-> skb.end, fin |-> skb.fin, stop |-> skb.fin, bytes |-> d.bytes \o skb.data]

\* The segments from the head on, each thrown away, moved to the receive queue,
\* or the first that does not connect.  d.n segments are taken from the queue.
DrainOne(d, skb) ==
  CASE d.stop -> d
    [] ~d.stop /\ After(skb.seq, d.rcv_nxt) -> [d EXCEPT !.stop = TRUE]
    [] ~d.stop /\ ~After(skb.seq, d.rcv_nxt) /\ ~After(skb.end, d.rcv_nxt) ->
         [d EXCEPT !.n = @ + 1]
    [] OTHER ->
         [n |-> d.n + 1, rcv_nxt |-> skb.end, fin |-> skb.fin, stop |-> skb.fin,
          bytes |-> d.bytes \o NewBytes(skb, d.rcv_nxt)]

\* With the DATA_FIN mptcp_fin() purges the rest of the queue.
Drain(q, rcv_nxt) ==
  LET d == FoldLeft(DrainOne,
                    [n |-> 0, rcv_nxt |-> rcv_nxt, bytes |-> <<>>, fin |-> FALSE, stop |-> FALSE],
                    q.ofo)
      left == [ofo |-> SubSeq(q.ofo, d.n + 1, Len(q.ofo)), shortcut |-> RemoveShortcuts(q, 1, d.n)]
  IN  [queue |-> IF d.fin THEN PurgeOfoQueue(left) ELSE left,
       rcv_nxt |-> d.rcv_nxt, bytes |-> d.bytes, fin |-> d.fin]

=============================================================================
