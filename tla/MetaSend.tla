------------------------------ MODULE MetaSend ------------------------------
(***************************************************************************)
(* The sender of a connection.  The application writes to the write queue  *)
(* of the meta socket.  A scheduler picks the next segment, from the       *)
(* reinject queue or from the send head on, and rMPTCP puts a copy of it on *)
(* one or several subflows.  A segment leaves the write queue with the     *)
(* DATA_ACK; until then its data goes out again when a subflow times out   *)
(* or closes (reinjection) and when the meta socket times out.             *)
(*                                                                         *)
(* TCP below delivers the copies of a subflow in order.  Which subflows    *)
(* have room (windows, losses, TSQ) is open at every call; the definite    *)
(* conditions (closed, pf, in order until established) are in the model.   *)
(* MSS and window decide how much of a segment goes out: any part may.     *)
(*                                                                         *)
(* Handlers run under the lock of the meta socket and end with             *)
(* mptcp_push_pending_frames(), a loop of Xmit.  One turn of the loop is   *)
(* part of the handler; each further turn is a call of mptcp_write_space() *)
(* (WriteSpace).  No turn at all means that no subflow has room.           *)
(***************************************************************************)
EXTENDS Seqno, Sequences, SequencesExt, FiniteSetsExt

CONSTANTS
  Subflow,        \* subflows 1..n, in the order of connection_list
  Backup,         \* those with low priority
  None,           \* no subflow, no segment
  Isn,            \* the first data sequence number
  StreamLen,      \* the bytes the application writes, under each scheduler
  Closing,        \* the schedulers under which it closes the connection then
  MaxSeg,         \* bytes of a segment at most
  Wnd,            \* the window of the peer
  Schedulers,     \* of "default", "roundrobin", "redundant"
  Established,    \* are subflows fully established, a set of booleans
  MaxCopies,      \* copies in the queue of a subflow
  MaxTimeouts,    \* time-outs, of subflows and of the meta socket
  TimedLen,       \* the bytes written if there is one at most, under each scheduler
  Faults          \* of "close", "mpfail", "nomem", "split", "discard" for a scheduler

ASSUME SendAssumption ==
  /\ IsFiniteSet(Subflow) /\ Subflow = 1..Cardinality(Subflow)
  /\ Backup \subseteq Subflow /\ None \notin Nat
  /\ Schedulers \subseteq DOMAIN StreamLen /\ Range(StreamLen) \subseteq Nat
  /\ Schedulers \subseteq DOMAIN TimedLen /\ Range(TimedLen) \subseteq Nat
  /\ {Isn, MaxSeg, Wnd, MaxCopies, MaxTimeouts} \subseteq Nat
  /\ \A sched \in Schedulers : 2 * (StreamLen[sched] + Wnd + 2) < Wrap
  /\ Schedulers \subseteq {"default", "roundrobin", "redundant"}
  /\ Established \subseteq BOOLEAN
  /\ Faults \subseteq Schedulers \X {"close", "mpfail", "nomem", "split", "discard"}

VARIABLES
  conn,           \* the meta socket, its control block, the subflows, the faults so far
  peer            \* what has arrived

vars == <<conn, peer>>

End(c) == Isn + StreamLen[c.sched]

\* At most one fault, and before the time-outs, which make up for it; a closing or a fall
\* back at any time.  "inside" marks a fall back inside of a segment.
May(c, fault) ==
  /\ <<c.sched, fault>> \in Faults /\ c.faults = {}
  /\ fault \notin {"close", "mpfail"} => c.timeouts = 0

\* A lack of memory and a time-out bound each other, and so do a time-out and the bytes:
\* after one the redundant scheduler may send an acknowledged segment again and again.
WithinTimedLen(c, written) == written - Isn <= TimedLen[c.sched]

MayTimeOut(c) ==
  c.timeouts < MaxTimeouts /\ "nomem" \notin c.faults /\ WithinTimedLen(c, c.written)

Suffers(c, fault) == [c EXCEPT !.faults = @ \cup {fault}]

\* The data of a segment.
Bytes(seg) == seg.end - seg.seq - (IF seg.fin THEN 1 ELSE 0)

\* A segment of the write queue or the reinject queue: 64-bit data sequence numbers,
\* DATA_FIN, path_mask, MPTCPHDR_SEQ64_INDEX, MPTCP_REINJECT and MPTCPHDR_INF.  cut is a
\* history: the segment was sent and is now cut where the 32-bit numbers wrap, this is
\* the second part.  The DATA_FIN follows the last byte.
Segment(c) ==
  {seg \in [seq : Nat, end : Nat, fin : BOOLEAN, mask : SUBSET Subflow, hi : 0..1,
            rj : BOOLEAN, inf : BOOLEAN, cut : BOOLEAN] :
     /\ Isn <= seg.seq /\ seg.seq < seg.end
     /\ IF seg.fin THEN seg.end = End(c) + 1 ELSE seg.end <= End(c)
     /\ seg.inf => c.inf}

\* A copy on a subflow: the mapping saved (as in the segment, with the 64-bit number
\* its checksum is for) and the data from..to - 1 it carries.
Copy(c) ==
  {copy \in [seg : Segment(c), seq64 : Int, from : Nat, to : Nat] :
     /\ copy.seg.seq <= copy.from /\ copy.from <= copy.to
     /\ copy.to <= copy.seg.seq + Bytes(copy.seg)}

\* packets_out has 32 bits and is compared with 0 only: below 0 stands for the wrap.
Connection(c) ==
  [sched : Schedulers, wq : Seq(Segment(c)), head : Nat, reinj : Seq(Segment(c)),
   written : Isn..End(c) + 1, una : Isn..End(c) + 1, nxt : Isn..End(c) + 1, wnd_end : Nat,
   packets_out : Int, loss : BOOLEAN, send_inf : BOOLEAN, inf : BOOLEAN, dfin : BOOLEAN,
   index : 0..1, high : [0..1 -> Int], timeouts : 0..MaxTimeouts,
   faults : SUBSET {"close", "mpfail", "nomem", "split", "discard", "inside"},
   last : [Subflow -> [seq : Nat, end : Nat]],
   sub : [Subflow -> [q : Seq(Copy(c)), rx : Nat, open : BOOLEAN, pf : BOOLEAN, est : BOOLEAN,
                      last_end : Nat \cup {None}]]]

TypeOK ==
  /\ conn \in Connection(conn)
  /\ conn.head <= Len(conn.wq)
  /\ \A s \in Subflow : conn.sub[s].rx <= Len(conn.sub[s].q)
  /\ peer \in [got : SUBSET Int, inf : Subflow \cup {None}, next : Int]

NewSeg(seq, n, fin) ==
  [seq |-> seq, end |-> seq + n + (IF fin THEN 1 ELSE 0), fin |-> fin, mask |-> {},
   hi |-> 0, rj |-> FALSE, inf |-> FALSE, cut |-> FALSE]

\* The subflows as in the list, and other numbers one after the other.
UpTo(n) == [k \in 1..n |-> k]

-----------------------------------------------------------------------------
(* Subflows that may be used: mptcp_is_def_unavailable and what of         *)
(* mptcp_is_temp_unavailable depends on the segment.  rmptcp_is_available, *)
(* mptcp_rr_is_available ask the same.                                     *)

Open(c) == {s \in Subflow : c.sub[s].open}

DefAvailable(c) == {s \in Open(c) : ~c.sub[s].pf}

InOrder_Any(u, seg) == TRUE

\* Until it is established, a subflow carries data in order.  last_end is
\* last_end_data_seq, None before the second packet and once it is no longer read.
InOrder(u, seg) == u.est \/ u.last_end = None \/ u.last_end = seg.seq

\* Those that may have room.
Usable(c, seg) ==
  {s \in DefAvailable(c) : InOrder(c.sub[s], seg) /\ Len(c.sub[s].q) < MaxCopies}

-----------------------------------------------------------------------------
(* The schedulers.  An outcome of get_subflow is the subflow, or None, and *)
(* whether the path mask of the segment is cleared.                        *)

\* get_subflow_from_selectors: of kind K, when those in A have room.
Select(c, K, seg, A) ==
  LET unused == K \ seg.mask
  IN  CASE A \cap unused # {} -> [sks |-> A \cap unused, force |-> TRUE]
        [] A \cap unused = {} /\ A \cap K # {} -> [sks |-> A \cap K, force |-> FALSE]
        [] OTHER -> [sks |-> {None}, force |-> DefAvailable(c) \cap unused # {}]

\* get_available_subflow.
GetDefault(c, seg, A) ==
  IF Cardinality(Open(c)) = 1
  THEN {[sk |-> s, clear |-> FALSE] : s \in IF A = {} THEN {None} ELSE A}
  ELSE LET active == Select(c, Subflow \ Backup, seg, A)
           backup == Select(c, Backup, seg, A)
       IN  IF active.force THEN {[sk |-> s, clear |-> FALSE] : s \in active.sks}
           ELSE {[sk |-> s, clear |-> ~backup.force] : s \in backup.sks}

\* rr_get_available_subflow: the last that has not sent the segment, or else the last.
GetRoundRobin(c, seg, A) ==
  CASE A = {} -> {[sk |-> None, clear |-> FALSE]}
    [] A # {} /\ A \subseteq seg.mask -> {[sk |-> Max(A), clear |-> TRUE]}
    [] OTHER -> {[sk |-> Max(A \ seg.mask), clear |-> FALSE]}

\* redundant_get_subflow: from next_subflow on, which is any here.
GetRedundant(c, seg, A) ==
  {[sk |-> s, clear |-> FALSE] : s \in IF A = {} THEN {None} ELSE A}

\* A DATA_FIN is answered on the subflow of the peer's DATA_FIN: any, and the mask stays.
Get(sched, c, seg) ==
  (UNION {CASE sched = "default"    -> GetDefault(c, seg, A)
            [] sched = "roundrobin" -> GetRoundRobin(c, seg, A)
            [] OTHER                -> GetRedundant(c, seg, A) : A \in SUBSET Usable(c, seg)})
  \cup {[sk |-> s, clear |-> FALSE] : s \in IF seg.fin THEN Usable(c, seg) ELSE {}}

InFallback(c) == c.inf \/ c.send_inf

\* The reinject queue comes first, except after a fallback.
Reinjects(c) == c.reinj # <<>> /\ ~InFallback(c)

\* mptcp_rcv_buf_optimization: the head of the write queue once more, on a subflow that
\* has not sent it, when that is much faster than one that has.
HeadAgain(c) ==
  {[rj |-> -1, i |-> 1] : s \in
     IF Cardinality(Open(c)) = 1 \/ c.head = 0 THEN {}
     ELSE {s \in Usable(c, c.wq[1]) \ c.wq[1].mask : Open(c) \cap c.wq[1].mask # {}}}

\* __mptcp_next_segment, and what mptcp_next_segment makes of it at a closed window:
\* reinject as the code has it, and the position in the queue.  Without a send head the
\* head of the queue goes again only if the application waits for memory to write more.
NextDefault(c) ==
  LET new == {[rj |-> 0, i |-> c.head + 1]}
  IN  CASE Reinjects(c) -> {[rj |-> 1, i |-> 1]}
        [] ~Reinjects(c) /\ c.head = Len(c.wq) -> IF InFallback(c) \/ c.written >= End(c) THEN {} ELSE HeadAgain(c)
        [] OTHER -> (IF c.wq[c.head + 1].seq < c.wnd_end THEN new ELSE {})
                    \cup (IF c.wq[c.head + 1].end > c.wnd_end THEN HeadAgain(c) ELSE {})

\* mptcp_rr_next_segment.  Quotas decide on the subflow, which rMPTCP chooses itself.
NextRoundRobin(c) ==
  CASE Reinjects(c) -> {[rj |-> 1, i |-> 1]}
    [] ~Reinjects(c) /\ c.head < Len(c.wq) -> {[rj |-> 0, i |-> c.head + 1]}
    [] OTHER -> {}

\* redundant_next_segment: the segment after the last of this subflow, new or not.
\* c.last[s] is that segment, with skb_end_seq from before it was cut.  If it is freed
\* and that end is not acknowledged, the pointer dangles: what lies there is nothing that
\* has a next segment, or by now another segment of the queue.
Dangles(c, last) == \A i \in DOMAIN c.wq : c.wq[i].seq # last.seq

NextOf(c, s) ==
  LET last == c.last[s]
  IN  CASE c.wq = <<>> -> {}
        [] c.wq # <<>> /\ last.end <= c.una -> {1}
        [] OTHER -> {i \in 2..Len(c.wq) : c.wq[i - 1].seq = last.seq \/ Dangles(c, last)}

NextRedundant(c) ==
  LET UseSubflow(s, seg) == /\ s \in Usable(c, seg)
                            /\ IF seg.mask # {} THEN s \notin Backup
                               ELSE s \in Backup => DefAvailable(c) \subseteq Backup
  IN  IF c.reinj # <<>> THEN {[rj |-> 1, i |-> 1]}
      ELSE UNION {{[rj |-> 0, i |-> i, by |-> s] : i \in {j \in NextOf(c, s) : UseSubflow(s, c.wq[j])}} :
                    s \in Subflow}

NextSegment(c) ==
  CASE c.sched = "default"    -> NextDefault(c)
    [] c.sched = "roundrobin" -> NextRoundRobin(c)
    [] OTHER                  -> NextRedundant(c)

-----------------------------------------------------------------------------
(* Putting a copy on a subflow.                                            *)

Tagged(c, seg) == [seg EXCEPT !.hi = IF c.index = 1 THEN 1 ELSE @]

\* The 64-bit number of a mapping: mptcp_get_highorder_sndbits.
Seq64(c, seg) == c.high[seg.hi] * Wrap + Low(seg.seq)

\* A DATA_FIN without data, on its own.
Empty(seg) == Bytes(seg) = 0

\* mptcp_combine_dfin: does the subflow's FIN go with the DATA_FIN?
Combines(c, seg) ==
  IF ~seg.fin THEN {FALSE} ELSE IF c.inf THEN {TRUE} ELSE {FALSE} \cup {c.una = seg.seq}

StartsInfinite(c, seg) == c.send_inf /\ ~c.inf /\ seg.seq >= c.nxt

\* mptcp_skb_entail, when there is memory.  The copy has the path mask without s.
Entail(c, s, seg, combined) ==
  LET starts == StartsInfinite(c, seg)
      u      == c.sub[s]
      copy   == [seg   |-> [seg EXCEPT !.inf = @ \/ starts], seq64 |-> Seq64(c, seg),
                 from  |-> seg.seq, to |-> seg.seq + Bytes(seg)]
      est    == u.est \/ starts
  IN  [c EXCEPT !.inf = @ \/ starts,
                !.dfin = @ \/ (Empty(seg) /\ ~combined),
                !.sub[s] = [u EXCEPT !.q = IF Empty(seg) /\ ~combined THEN @ ELSE Append(@, copy),
                                     !.open = @ /\ ~combined,
                                     !.est = est,
                                     !.last_end = IF est THEN None ELSE seg.end]]

\* The copies of one segment, on the subflows of R in the order of the list
\* (rmptcp_send_skb).
EntailAll(c, R, seg) ==
  LET Turn(cs, s) ==
        IF s \in R
        THEN UNION {{Entail(d, s, [seg EXCEPT !.mask = @ \cup {t \in R : t < s}], f) :
                       f \in Combines(d, seg)} : d \in cs}
        ELSE cs
  IN  FoldLeft(Turn, {c}, UpTo(Cardinality(Subflow)))

Parts_BothFin(seg, len, sent) ==
  <<[seg EXCEPT !.end = seg.seq + len],
    [seg EXCEPT !.seq = @ + len, !.cut = @ \/ (sent /\ (seg.seq + len) \div Wrap # seg.seq \div Wrap)]>>

\* mptcp_fragment of a segment after len bytes: the flags of both parts, but for the
\* FIN, are those of the whole.
Parts(seg, len, sent) ==
  <<[seg EXCEPT !.end = seg.seq + len, !.fin = FALSE],
    [seg EXCEPT !.seq = @ + len, !.cut = @ \/ (sent /\ (seg.seq + len) \div Wrap # seg.seq \div Wrap)]>>

Replaced(queue, i, with) == SubSeq(queue, 1, i - 1) \o with \o SubSeq(queue, i + 1, Len(queue))

Fragmented_Uncounted(c, i, len) ==
  IF len = Bytes(c.wq[i]) THEN c
  ELSE [c EXCEPT !.wq = Replaced(@, i, Parts(@[i], len, i <= c.head)),
                 !.head = @ + (IF i <= @ THEN 1 ELSE 0)]

\* Segment i of the write queue becomes two; packets_out counts those sent.
Fragmented(c, i, len) ==
  IF len = Bytes(c.wq[i]) THEN c
  ELSE [c EXCEPT !.wq = Replaced(@, i, Parts(@[i], len, i <= c.head)),
                 !.head = @ + (IF i <= @ THEN 1 ELSE 0),
                 !.packets_out = @ + (IF c.nxt >= c.wq[i].end THEN 1 ELSE 0)]

FragmentedReinject(c, len) ==
  IF len = Bytes(c.reinj[1]) THEN c
  ELSE [c EXCEPT !.reinj = Replaced(@, 1, Parts(@[1], len, TRUE))]

Lengths(seg) == IF Empty(seg) THEN {0} ELSE 1..Bytes(seg)

CheckSndseqWrap_SameIndex(c, inc) ==
  IF Low(c.nxt) > Plus(Low(c.nxt), inc) THEN [c EXCEPT !.high[c.index] = @ + 2] ELSE c

\* mptcp_check_sndseq_wrap.
CheckSndseqWrap(c, inc) ==
  IF Low(c.nxt) > Plus(Low(c.nxt), inc)
  THEN [c EXCEPT !.index = 1 - @, !.high[1 - c.index] = @ + 2] ELSE c

\* tcp_event_new_data_sent: the send head moves behind segment i.
NewDataSent(c, i) ==
  [CheckSndseqWrap(c, c.wq[i].end - c.wq[i].seq) EXCEPT
     !.head = i, !.nxt = c.wq[i].end, !.packets_out = @ + 1]

-----------------------------------------------------------------------------
(* mptcp_write_xmit, one turn of its loop: the set of what may come of it. *)

\* A segment of the reinject queue, cut after len bytes, on the subflows rMPTCP has chosen:
\* perhaps none, and then the segment stays, cut as it is.  One of the copies may find no
\* memory: those before it stay, and so does the segment.
XmitReinject(c, len) ==
  LET d   == FragmentedReinject(c, len)
      seg == d.reinj[1]
      e(R) == [d EXCEPT !.reinj[1].mask = @ \cup R]
      partial == IF May(c, "nomem")
                 THEN UNION {EntailAll(Suffers(e(R), "nomem"), R, seg) : R \in SUBSET Usable(d, seg)}
                 ELSE {}
      whole == UNION {EntailAll(d, R, seg) : R \in (SUBSET Usable(d, seg)) \ {{}}}
  IN  {d} \cup partial \cup {[f EXCEPT !.reinj = Tail(@)] : f \in whole}

\* Segment i of the write queue, sent the first time or again, in the same ways.
XmitQueued(c, n, len) ==
  LET d   == Fragmented(c, n.i, len)
      seg == IF n.rj = 0 THEN Tagged(d, d.wq[n.i]) ELSE d.wq[n.i]
      e(R) == [d EXCEPT !.wq[n.i] = [seg EXCEPT !.mask = @ \cup R]]
      partial == IF May(c, "nomem")
                 THEN UNION {EntailAll(Suffers(e(R), "nomem"), R, seg) : R \in SUBSET Usable(d, seg)}
                 ELSE {}
      whole == UNION {EntailAll(e(R), R, seg) : R \in (SUBSET Usable(d, seg)) \ {{}}}
  IN  {d} \cup partial \cup (IF n.rj = 0 THEN {NewDataSent(f, n.i) : f \in whole} ELSE whole)

\* The scheduler has chosen a segment and a subflow; c is what it has left behind, and stays
\* when the loop breaks before anything is cut (no memory, window, Nagle).
XmitChosen(c, n) ==
  IF n.rj = 1
  THEN IF c.reinj[1].end <= c.una THEN {[c EXCEPT !.reinj = Tail(@)]}
       ELSE {c} \cup UNION {XmitReinject(c, len) : len \in Lengths(c.reinj[1])}
  ELSE {c} \cup
       UNION {XmitQueued(c, n, len) :
                len \in {l \in Lengths(c.wq[n.i]) : IF l = Bytes(c.wq[n.i]) THEN c.wq[n.i].end <= c.wnd_end
                                                    ELSE c.wq[n.i].seq + l <= c.wnd_end}}

SegOf(c, n) == IF n.rj = 1 THEN c.reinj[1] ELSE c.wq[n.i]

Cleared(c, n) ==
  IF n.rj = 1 THEN [c EXCEPT !.reinj[1].mask = {}] ELSE [c EXCEPT !.wq[n.i].mask = {}]

\* The subflow for the segment.  Those that choose the subflow first do not ask again.
Outcomes(c, n) ==
  CASE c.sched = "default" /\ n.rj >= 0 -> Get("default", c, SegOf(c, n))
    [] c.sched = "roundrobin" /\ n.rj = 1 -> Get("roundrobin", c, SegOf(c, n))
    [] c.sched = "redundant" /\ n.rj = 1 -> Get("default", c, SegOf(c, n))
    [] OTHER -> {[sk |-> s, clear |-> FALSE] : s \in Usable(c, SegOf(c, n))}

Noted(c, n) ==
  IF c.sched = "redundant" /\ n.rj = 0
  THEN [c EXCEPT !.last[n.by] = [seq |-> c.wq[n.i].seq, end |-> c.wq[n.i].end]] ELSE c

\* Which subflow is found does not matter, as rMPTCP chooses itself.
Found(outcomes) == {[any |-> o.sk # None, clear |-> o.clear] : o \in outcomes}

Xmit(c) ==
  UNION {UNION {LET d == IF o.clear THEN Cleared(c, n) ELSE Noted(c, n)
                IN  IF o.any THEN XmitChosen(d, n) ELSE {d} : o \in Found(Outcomes(c, n))} :
           n \in NextSegment(c)}

\* mptcp_push_pending_frames.
Push(c) == {c} \cup Xmit(c)

-----------------------------------------------------------------------------
(* Retransmission at the meta level.                                       *)

\* mptcp_retransmit_skb of segment i: the set of what may come of it, and whether the
\* caller goes on with the next.
RetransmitSkb(c, i) ==
  LET seg == c.wq[i]
      Again(s, len) ==
        LET d == Fragmented(c, i, len)
        IN  {[Entail(d, s, d.wq[i], f) EXCEPT !.wq[i].mask = @ \cup {s}] : f \in Combines(d, d.wq[i])}
  IN  {[c |-> c, more |-> FALSE]}                     \* no memory
      \cup UNION {IF o.sk = None
                  THEN {[c |-> IF o.clear THEN [c EXCEPT !.wq[i].mask = {}] ELSE c, more |-> TRUE]}
                  ELSE {[c |-> IF o.clear THEN [d EXCEPT !.wq[i].mask = @ \cap {o.sk}] ELSE d, more |-> TRUE] :
                          d \in UNION {Again(o.sk, len) : len \in Lengths(seg)}} :
                    o \in Get(c.sched, c, seg)}

\* mptcp_xmit_retransmit_queue: all segments sent, one after the other.
XmitRetransmitQueue(c) ==
  LET Turn(rs, k) ==
        UNION {IF ~r.more \/ k > r.c.head THEN {r} ELSE RetransmitSkb(r.c, k) : r \in rs}
  IN  {r.c : r \in FoldLeft(Turn, {[c |-> c, more |-> TRUE]}, UpTo(StreamLen[c.sched] + 1))}

-----------------------------------------------------------------------------
(* Reinjection: __mptcp_reinject_data and mptcp_reinject_data.             *)

\* mptcp_find_and_set_pathmask.
WithPathmask(c, seg) ==
  LET same == {i \in 1..c.head : c.wq[i].seq = seg.seq}
  IN  IF same = {} THEN seg ELSE [seg EXCEPT !.mask = c.wq[Min(same)].mask]

Inserted_Behind(queue, seg) == Append(queue, seg)

\* A segment finds its place in the reinject queue and frees those it covers.
Inserted(queue, seg) ==
  LET prev == Max({0} \cup {p \in DOMAIN queue : queue[p].seq <= seg.seq})
      p    == IF prev > 0 /\ queue[prev].seq = seg.seq THEN prev - 1 ELSE prev
      last == Max({o \in p..Len(queue) : \A i \in p + 1..o : queue[i].seq < seg.end})
  IN  IF prev > 0 /\ seg.end <= queue[prev].end THEN queue
      ELSE SubSeq(queue, 1, p) \o <<seg>> \o SubSeq(queue, last + 1, Len(queue))

ReinjectSeg(c, seg) ==
  IF seg.end <= c.una THEN c ELSE [c EXCEPT !.reinj = Inserted(@, WithPathmask(c, seg))]

\* Of a copy that is only a part of its mapping, the segments of the write queue are
\* taken.
Covering(c, seg) ==
  {i \in DOMAIN c.wq : c.wq[i].seq >= seg.seq /\ \A j \in 1..i : c.wq[j].seq >= seg.seq => c.wq[j].end <= seg.end}

ReinjectCovered(c, seg) ==
  FoldLeft(LAMBDA d, i : IF i \in Covering(c, seg) THEN ReinjectSeg(d, d.wq[i]) ELSE d, c, UpTo(Len(c.wq)))

ReinjectCopy(c, copy) ==
  CASE copy.seg.end <= c.una -> c
    [] copy.seg.end > c.una /\ copy.to - copy.from = Bytes(copy.seg) ->
         ReinjectSeg(c, [copy.seg EXCEPT !.rj = TRUE])
    [] OTHER -> ReinjectCovered(c, copy.seg)

\* Not reinjected before.
ToReinject(copy) == ~copy.seg.rj /\ copy.to > copy.from

LeavesEmptyFin(c, s) ==
  c.wq # <<>> /\ Last(c.wq).fin /\ Empty(Last(c.wq)) /\ s \in Last(c.wq).mask

Marked(copy) == [copy EXCEPT !.seg.rj = @ \/ copy.to > copy.from]

\* The copies of subflow s are marked; it is potentially failed.
Flagged(c, s) ==
  [c EXCEPT !.sub[s].pf = TRUE, !.sub[s].q = [k \in DOMAIN @ |-> Marked(@[k])]]

ReinjectCopies(c, q) ==
  FoldLeft(LAMBDA e, copy : IF ToReinject(copy) THEN ReinjectCopy(e, copy) ELSE e, c, q)

\* All of subflow s, with the DATA_FIN it has sent on its own.
Reinject(c, s) ==
  LET d == ReinjectCopies(Flagged(c, s), c.sub[s].q)
  IN  IF LeavesEmptyFin(c, s) THEN ReinjectSeg(d, Last(d.wq)) ELSE d

\* mptcp_del_sock: the copies are taken off the subflow.
Closed(c, s) ==
  LET d == [c EXCEPT !.sub[s].open = FALSE]
      e == IF c.sub[s].q = <<>> THEN d ELSE Reinject(d, s)
  IN  [e EXCEPT !.sub[s].q = <<>>, !.sub[s].rx = 0]

-----------------------------------------------------------------------------
(* mptcp_clean_rtx_queue and mptcp_data_ack.                               *)

CleanRtxQueue_Partly(c) ==
  LET n == Max({i \in 0..c.head : \A j \in 1..i : c.wq[j].seq < c.una})
  IN  [c EXCEPT !.wq = SubSeq(@, n + 1, Len(@)), !.head = @ - n, !.packets_out = @ - n]

\* The segments acknowledged as a whole leave the queues.
CleanRtxQueue(c) ==
  LET n == Max({i \in 0..c.head : \A j \in 1..i : c.wq[j].end <= c.una})
      r == Max({i \in 0..Len(c.reinj) : \A j \in 1..i : c.reinj[j].end <= c.una})
  IN  [c EXCEPT !.wq = SubSeq(@, n + 1, Len(@)), !.head = @ - n, !.packets_out = @ - n,
                !.reinj = SubSeq(@, r + 1, Len(@))]

Acceptable(c, data_ack) == c.una <= data_ack /\ data_ack <= c.nxt

RestartsQueue(c, data_ack) == c.loss /\ data_ack > c.una

\* A valid packet on subflow s, with the data acknowledged.
DataAck(c, s, data_ack) ==
  LET d == [c EXCEPT !.sub[s].pf = FALSE, !.sub[s].est = TRUE, !.sub[s].last_end = None]
      w == [d EXCEPT !.wnd_end = Max({@, data_ack + Wnd})]
      a == CleanRtxQueue([w EXCEPT !.una = data_ack])
  IN  CASE ~Acceptable(d, data_ack) -> Push(d)
        [] Acceptable(d, data_ack) /\ d.packets_out = 0 -> Push(w)
        [] OTHER -> UNION {Push(e) : e \in IF RestartsQueue(c, data_ack)
                                           THEN {[r EXCEPT !.loss = FALSE] : r \in XmitRetransmitQueue(a)}
                                           ELSE {a}}

Mapped(q) == FoldLeft(LAMBDA n, copy : n + copy.seg.end - copy.seg.seq, 0, q)

\* mptcp_clean_rtx_infinite: snd_nxt of the subflow is behind t of its copies.
InferredAck(c, s, t) == c.nxt - Mapped(SubSeq(c.sub[s].q, 1, t))

-----------------------------------------------------------------------------
Init ==
  /\ \E sched \in Schedulers, est \in Established :
       conn = [sched |-> sched, wq |-> <<>>, head |-> 0, reinj |-> <<>>, written |-> Isn,
               una |-> Isn, nxt |-> Isn, wnd_end |-> Isn + Wnd, packets_out |-> 0,
               loss |-> FALSE, send_inf |-> FALSE, inf |-> FALSE, dfin |-> FALSE,
               index |-> 0, high |-> [x \in 0..1 |-> Isn \div Wrap - x], timeouts |-> 0,
               faults |-> {}, last |-> [s \in Subflow |-> [seq |-> Isn, end |-> Isn]],
               sub |-> [s \in Subflow |-> [q |-> <<>>, rx |-> 0, open |-> TRUE, pf |-> FALSE,
                                           est |-> est, last_end |-> None]]]
  /\ peer = [got |-> {}, inf |-> None, next |-> 0]

(* The application.                                                        *)

Write ==
  /\ \E n \in 1..MaxSeg :
       /\ conn.written + n <= End(conn)
       /\ conn.timeouts > 0 => WithinTimedLen(conn, conn.written + n)
       /\ conn' \in Push([conn EXCEPT !.wq = Append(@, NewSeg(conn.written, n, FALSE)), !.written = @ + n])
  /\ UNCHANGED peer

Ended(seg) == [seg EXCEPT !.fin = TRUE, !.end = @ + 1]

\* mptcp_send_fin: on the last segment if there is a send head.
SendFin ==
  /\ conn.sched \in Closing /\ conn.written = End(conn)
  /\ conn' \in
       Push(IF conn.head < Len(conn.wq)
            THEN [conn EXCEPT !.wq[Len(conn.wq)] = Ended(@), !.written = @ + 1]
            ELSE [conn EXCEPT !.wq = Append(@, NewSeg(End(conn), 0, TRUE)), !.written = @ + 1])
  /\ UNCHANGED peer

(* Calls from TCP and the timers.                                          *)

\* mptcp_write_space.
WriteSpace ==
  /\ conn' \in Xmit(conn)
  /\ UNCHANGED peer

\* mptcp_write_wakeup: the probe timer sends part of the send head.
WriteWakeup ==
  /\ conn.packets_out = 0 /\ conn.head < Len(conn.wq)
  /\ LET i == conn.head + 1 IN
       /\ conn.wq[i].seq < conn.wnd_end
       /\ \E o \in Get(conn.sched, conn, conn.wq[i]), len \in Lengths(conn.wq[i]) :
            /\ o.sk # None /\ conn.wq[i].seq + len <= conn.wnd_end
            /\ LET c == Fragmented(IF o.clear THEN [conn EXCEPT !.wq[i].mask = {}] ELSE conn, i, len)
                   d == [c EXCEPT !.wq[i] = Tagged(c, @)]
               IN  \E f \in Combines(d, d.wq[i]) :
                     conn' = NewDataSent([Entail(d, o.sk, d.wq[i], f) EXCEPT !.wq[i].mask = @ \cup {o.sk}], i)
  /\ UNCHANGED peer

\* mptcp_meta_retransmit_timer.  With an empty queue (see RtxQueueNotEmpty) it would
\* retransmit what is at address 0: the model ends there.
MetaRetransmitTimer ==
  /\ MayTimeOut(conn)
  /\ conn.packets_out # 0 /\ ~conn.inf
  /\ conn.wq # <<>>
  /\ \E r \in RetransmitSkb([conn EXCEPT !.loss = TRUE, !.timeouts = @ + 1], 1) : conn' = r.c
  /\ UNCHANGED peer

\* mptcp_sub_retransmit_timer.
SubRetransmitTimer(s) ==
  /\ MayTimeOut(conn)
  /\ conn.sub[s].q # <<>>
  /\ conn' \in Push(Reinject([conn EXCEPT !.timeouts = @ + 1], s))
  /\ UNCHANGED peer

CloseSubflow(s) ==
  /\ May(conn, "close")
  /\ s \in Open(conn)
  /\ conn' \in Push(Closed(Suffers(conn, "close"), s))
  /\ UNCHANGED peer

\* An ACK on subflow s for k of its copies, with the DATA_ACK of the peer or an older one.
RcvNxt == Min((Isn..End(conn) + 1) \ peer.got)

Ack(s) ==
  /\ s \in Open(conn) \/ conn.sub[s].q # <<>>
  /\ \E k \in {0, conn.sub[s].rx} :
       LET c == [conn EXCEPT !.sub[s].q = SubSeq(@, k + 1, Len(@)), !.sub[s].rx = @ - k] IN
       IF c.inf
       THEN \E t \in c.sub[s].rx..Len(c.sub[s].q) : conn' \in DataAck(c, s, InferredAck(c, s, t))
       ELSE \E data_ack \in {conn.una, RcvNxt} : conn' \in DataAck(c, s, data_ack)
  /\ UNCHANGED peer

\* The wrap of snd_nxt is taken back.
Unwrap(c) ==
  IF Low(c.nxt) < Low(c.una) THEN [c EXCEPT !.high[c.index] = @ - 2, !.index = 1 - @] ELSE c

\* mptcp_mp_fail_rcvd: everything not acknowledged is sent again, in an infinite
\* mapping, and the other subflows are closed.
Restarted(c) ==
  [Unwrap(c) EXCEPT !.faults = {"mpfail"} \cup {x \in {"inside"} : c.wq # <<>> /\ c.wq[1].seq < c.una},
                    !.send_inf = TRUE, !.head = 0, !.packets_out = 0, !.nxt = c.una]

OthersClosed(c, s) ==
  FoldLeft(LAMBDA d, t : IF t \in Open(c) \ {s} THEN Closed(d, t) ELSE d, c, UpTo(Cardinality(Subflow)))

MpFail(s) ==
  /\ May(conn, "mpfail")
  /\ s \in Open(conn) /\ ~conn.inf
  /\ \E c \in Push(Restarted(conn)) : conn' = OthersClosed(c, s)
  /\ UNCHANGED peer

(* The network and the peer.                                               *)

\* The next copy of subflow s arrives.  What the peer takes from it is stored, unless it
\* discards it, as MetaReceive may.
Deliver(s) ==
  /\ conn.sub[s].rx < Len(conn.sub[s].q)
  /\ LET copy == conn.sub[s].q[conn.sub[s].rx + 1]
         goes == peer.inf = s
         here == IF goes THEN peer.next..peer.next + copy.to - copy.from - 1 ELSE copy.from..copy.to - 1
         fin  == {x \in {End(conn)} : copy.seg.fin /\ copy.to = x}
     IN  \/ /\ conn' = [conn EXCEPT !.sub[s].rx = @ + 1]
            /\ peer' = [got |-> peer.got \cup here \cup fin,
                           inf |-> IF copy.seg.inf THEN s ELSE peer.inf,
                           next |-> CASE goes -> peer.next + copy.to - copy.from [] ~goes /\ copy.seg.inf -> copy.to [] OTHER -> peer.next]
         \/ /\ May(conn, "discard")
            /\ conn' = [Suffers(conn, "discard") EXCEPT !.sub[s].rx = @ + 1]
            /\ UNCHANGED peer

\* A DATA_FIN on its own is sent once and may be lost.
DeliverFin ==
  /\ conn.dfin
  /\ conn' = [conn EXCEPT !.dfin = FALSE]
  /\ peer' = [peer EXCEPT !.got = @ \cup {End(conn)}]

\* TCP of the subflow cuts a copy in two (tcp_fragment); both keep the mapping.
SplitCopy(s) ==
  /\ May(conn, "split")
  /\ \E k \in conn.sub[s].rx + 1..Len(conn.sub[s].q) :
       LET copy == conn.sub[s].q[k] IN
       /\ Len(conn.sub[s].q) < MaxCopies
       /\ copy.to - copy.from > 1
       /\ conn' = [Suffers(conn, "split") EXCEPT !.sub[s].q =
                     Replaced(@, k, <<[copy EXCEPT !.to = copy.from + 1], [copy EXCEPT !.from = @ + 1]>>)]
  /\ UNCHANGED peer

Next ==
  \/ Write \/ SendFin \/ WriteSpace \/ WriteWakeup \/ MetaRetransmitTimer \/ DeliverFin
  \/ \E s \in Subflow :
       SubRetransmitTimer(s) \/ CloseSubflow(s) \/ Ack(s) \/ MpFail(s) \/ Deliver(s) \/ SplitCopy(s)

Spec == Init /\ [][Next]_vars

-----------------------------------------------------------------------------
(* Properties.                                                             *)

\* The write queue holds the stream from the first byte not acknowledged, or before it,
\* on without a gap, packets_out counts the segments before the send head, and snd_nxt is
\* where the send head starts.  The redundant scheduler gives segments out as new that are
\* not; and when a segment part of which is acknowledged is sent again after a fall back,
\* cutting it counts the first part although it is not sent.
QueueAccounting ==
  conn.sched # "redundant" =>
  /\ \A i \in 2..Len(conn.wq) : conn.wq[i].seq = conn.wq[i - 1].end
  /\ conn.wq # <<>> => conn.wq[1].seq <= conn.una /\ Last(conn.wq).end = conn.written
  /\ conn.wq = <<>> => conn.una = conn.written
  /\ "inside" \notin conn.faults => conn.packets_out = conn.head
  /\ conn.nxt = IF conn.head = 0 THEN conn.una ELSE conn.wq[conn.head].end

\* The number a mapping's checksum is computed with is that of its first byte, however
\* often the segment was cut and sent again, over a wrap and the restart at a fall back.
Numbered == {copy \in UNION {Range(conn.sub[s].q) : s \in Subflow} : copy.seq64 = copy.seg.seq}

ChecksumNumbers ==
  conn.sched # "redundant" /\ "inside" \notin conn.faults =>
  \A s \in Subflow : \A k \in DOMAIN conn.sub[s].q :
    ~conn.sub[s].q[k].seg.cut => conn.sub[s].q[k] \in Numbered

\* Until a subflow is established its copies follow each other without a gap.
InOrderUntilEstablished ==
  \A s \in Subflow :
    ~conn.sub[s].est =>
      \A k \in 2..Len(conn.sub[s].q) : conn.sub[s].q[k].from = conn.sub[s].q[k - 1].to

\* The reinject queue is sorted, no segment of it covers another, and nothing in it has
\* been acknowledged as a whole, but for the first: it may have been cut where the
\* acknowledged part ends, and then not sent.
ReinjectSorted ==
  \A p \in DOMAIN conn.reinj :
    p > 1 => /\ conn.una < conn.reinj[p].end
             /\ conn.reinj[p - 1].seq <= conn.reinj[p].seq /\ conn.reinj[p - 1].end < conn.reinj[p].end

\* mptcp_output.c, mptcp_meta_retransmit_timer(): "WARN_ON(tcp_write_queue_empty())".
RtxQueueNotEmpty == conn.packets_out # 0 /\ ~conn.inf => conn.wq # <<>>

\* A byte leaves the write queue only after the peer has taken it, whatever the order in
\* which the copies, the DATA_ACKs and the time-outs of the subflows come, and although
\* segments are cut while parts of them are acknowledged.
Freed == IF conn.wq = <<>> THEN Isn..conn.written - 1 ELSE Isn..conn.wq[1].seq - 1

FreedIsReceived == ~conn.inf => Freed \subseteq peer.got

=============================================================================
