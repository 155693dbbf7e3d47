---------------------------- MODULE MetaReceive ----------------------------
(***************************************************************************)
(* The receiver of a connection: mptcp_data_ready() takes the segments TCP *)
(* has put in order on a subflow, finds the mapping of their bytes to data *)
(* sequence numbers, and moves whole mappings to the meta socket: to the   *)
(* receive queue, or to the out-of-order queue while bytes are missing.    *)
(*                                                                         *)
(* The peer may map any part of the stream to the bytes of any subflow.    *)
(* Segments are cut and joined on the way, and segments lose the option    *)
(* with the mapping.  The low-pass filter of rMPTCP, which delays          *)
(* mptcp_queue_skb(), is in LowPass.                                       *)
(*                                                                         *)
(* A call runs under the lock of the meta socket.  Each segment of the     *)
(* subflow's queue goes through the four functions Steps names, one action *)
(* each; "at" is the subflow, the position in its queue and the function.  *)
(***************************************************************************)
EXTENDS OfoQueue

CONSTANTS
  Isn,            \* the peer's first data sequence number
  StreamLen,      \* the bytes the peer sends, before the DATA_FIN
  MaxMapLen,      \* bytes of a mapping at most
  MaxMappings,    \* mappings on all subflows
  RcvWnd,         \* receive window of the meta socket
  NoMapWindow,    \* 65536: bytes of a subflow without a mapping
  InitRcvWnd,     \* bytes received until a subflow is fully established
  DssCsum,        \* are payloads checked?
  Wide,           \* do options have 64-bit data sequence numbers, a set of booleans
  Faults,         \* of "joined", "nosplit": see ArriveJoined, ValidateFails
  Established,    \* are subflows fully established, a set of booleans
  Idle            \* at: no call is running

ASSUME ReceiveAssumption ==
  /\ Subflow # {}
  /\ {Isn, StreamLen, MaxMapLen, MaxMappings, RcvWnd, NoMapWindow, InitRcvWnd} \subseteq Nat
  /\ 2 * (StreamLen + RcvWnd + 2) < Wrap
  /\ Faults \subseteq {"joined", "nosplit"}
  /\ DssCsum \in BOOLEAN /\ Wide \subseteq BOOLEAN /\ Established \subseteq BOOLEAN

VARIABLES
  sent,           \* the mappings the peer has put on each subflow: how many,
                  \* and the last while bytes of it are on their way
  sub,            \* the subflows
  meta,           \* the meta socket
  ofoq,           \* its out-of-order queue
  app,            \* the bytes handed to the application
  stripped,       \* a middlebox removes all MPTCP options
  faults,         \* the faults so far
  at              \* the call

vars == <<sent, sub, meta, ofoq, app, stripped, faults, at>>

Master == Min(Subflow)
End    == Isn + StreamLen

NoMap == [seq |-> 0, subseq |-> 0, len |-> 0, fin |-> FALSE, present |-> FALSE]

\* A mapping as the peer sends it: 64-bit data sequence number and whether the option has
\* all of it, first subflow sequence number, bytes, DATA_FIN, and whether it goes on for
\* ever.
Mapping ==
  [seq : Isn..End, wide : Wide \cup {FALSE}, subseq : Nat, len : 0..MaxMapLen, fin : BOOLEAN, inf : BOOLEAN]

\* A segment in sk_receive_queue of a subflow: its payload, bytes named by their
\* data sequence numbers, the mapping in the option or None, and whether the
\* payload was changed on the way.  The subflow's FIN comes in a segment of its
\* own and takes a sequence number.
Segment == [seq : Nat, data : Seq(Isn..End), dss : Mapping \cup {None}, bad : BOOLEAN, fin : BOOLEAN]

Bytes(skb) == Len(skb.data)
EndOf(skb) == skb.seq + Len(skb.data) + (IF skb.fin THEN 1 ELSE 0)

Steps == {"prevalidate", "detect", "validate", "push"}

TypeOK ==
  /\ sent \in [Subflow -> [n : 0..MaxMappings + 1, map : Mapping \cup {None}]]
  /\ \A s \in Subflow :
       /\ sub[s].queue \in Seq(Segment)
       /\ {sub[s].rcv_nxt, sub[s].copied_seq} \subseteq Nat
       /\ sub[s].map.seq \in Nat /\ sub[s].map.len \in 0..MaxMapLen
       /\ {sub[s].mp_fail, sub[s].established, sub[s].dead, sub[s].counted, sub[s].fin} \subseteq BOOLEAN
       /\ sub[s].init_rcv_wnd \in Int
  /\ {meta.rcv_nxt, meta.rcv_wup} \subseteq Seqs
  /\ meta.rcv_high \in [0..1 -> Int] /\ meta.hiseq \in 0..1
  /\ meta.infinite_rcv_seq \in Int
  /\ {meta.infinite_rcv, meta.send_infinite, meta.can_recv} \subseteq BOOLEAN
  /\ ofoq.shortcut \in [Subflow -> Ids \cup {None}]
  /\ app \in Seq(Isn..End)
  /\ stripped \in BOOLEAN /\ faults \subseteq Faults \cup {"skipped", "freed"}
  /\ at = Idle \/ at \in Subflow \X Nat \X Steps

-----------------------------------------------------------------------------
(* 64-bit data sequence numbers from 32 bits.                              *)

\* mptcp_get_data_seq_64.
DataSeq64(m, index, low) == m.rcv_high[index] * Wrap + low

RcvNxt64(m) == DataSeq64(m, m.hiseq, m.rcv_nxt)

CheckRcvseqWrap_SameIndex(m, old) ==
  IF old > m.rcv_nxt THEN [m EXCEPT !.rcv_high[m.hiseq] = @ + 2] ELSE m

\* mptcp_check_rcvseq_wrap: the other index has the high-order bits of the
\* wrapped number, this one gets those after the next.
CheckRcvseqWrap(m, old) ==
  IF old > m.rcv_nxt THEN [m EXCEPT !.rcv_high[m.hiseq] = @ + 2, !.hiseq = 1 - @] ELSE m

\* The data_seq of an option of 32 bits may be beyond a wrap that rcv_nxt has not reached.
\* One of 64 bits whose high-order bits are neither of the two gets a number far away.
MapDataSeq(m, dss) ==
  LET low  == Low(dss.seq)
      high == {x \in 0..1 : m.rcv_high[x] = dss.seq \div Wrap}
  IN  CASE ~dss.wide -> DataSeq64(m, IF After(low, m.rcv_nxt) /\ low < m.rcv_nxt THEN 1 - m.hiseq ELSE m.hiseq, low)
        [] dss.wide /\ high # {} -> DataSeq64(m, Min(high), low)
        [] OTHER -> DataSeq64(m, 0, low) + 2 * (Wrap - 1)

RcvWup64(m) ==
  IF m.rcv_wup > m.rcv_nxt THEN (m.rcv_high[m.hiseq] - 1) * Wrap + m.rcv_wup
  ELSE DataSeq64(m, m.hiseq, m.rcv_wup)

\* mptcp_sequence.
InWindow(m, seq, end) ==
  end >= RcvWup64(m) /\ seq <= Max({RcvNxt64(m), RcvWup64(m) + RcvWnd})

-----------------------------------------------------------------------------
(* The subflow's queue.                                                    *)

\* mptcp_send_reset closes the subflow.  It is counted until a worker takes it off the list.
Reset(u) == [u EXCEPT !.dead = TRUE, !.queue = <<>>, !.map = NoMap]

\* mptcp_sub_force_close_all.
CloseOthers(f, s) == [t \in Subflow |-> IF t = s THEN f[t] ELSE Reset(f[t])]

Unlinked(u, i) == [u EXCEPT !.copied_seq = EndOf(u.queue[i]), !.queue = RemoveAt(@, i)]

\* A mapping is not known and none is on its way: the path has to do without.
MustFallBack(s, i) ==
  /\ ~sub[s].established
  /\ sub[s].queue[i].dss = None
  /\ ~sub[s].map.present
  /\ ~meta.infinite_rcv

CountWindow(u, skb) ==
  IF u.established THEN u
  ELSE LET left == u.init_rcv_wnd - Bytes(skb)
       IN  [u EXCEPT !.init_rcv_wnd = left, !.established = left < 0]

\* mptcp_detect_mapping: the mapping of a segment after a fallback ...
InfiniteMap(u, m, skb) ==
  [seq |-> m.infinite_rcv_seq - (u.copied_seq - skb.seq), subseq |-> skb.seq,
   len |-> Bytes(skb), fin |-> skb.fin, present |-> TRUE]

\* ... and that of an option, as the receiver reads it.  Length 0 stands for an
\* infinite mapping.
ReadMap(m, dss, skb) ==
  [seq |-> MapDataSeq(m, dss), subseq |-> IF dss.inf THEN skb.seq ELSE dss.subseq,
   len |-> IF dss.inf THEN Bytes(skb) ELSE dss.len, fin |-> dss.fin, present |-> TRUE]

SameMap(map, dss) ==
  /\ Low(map.seq) = Low(dss.seq)
  /\ map.subseq = dss.subseq
  /\ ~dss.inf /\ map.len = dss.len
  /\ map.fin = dss.fin

\* No byte of the segment lies in the mapping.
OutsideMap(map, skb) ==
  Bytes(skb) > 0 /\ (map.subseq >= EndOf(skb) \/ map.subseq + map.len <= skb.seq)

\* mptcp_validate_mapping: what of the first segment is in front of the mapping
\* is cut off,
Cut(skb, x) == [skb EXCEPT !.seq = x, !.data = SubSeq(@, x - skb.seq + 1, Len(@))]

Trimmed(u) ==
  LET skb == u.queue[1]
  IN  IF skb.seq < u.map.subseq /\ EndOf(skb) > u.map.subseq
      THEN [u EXCEPT !.queue[1] = Cut(skb, u.map.subseq)] ELSE u

\* what of segment i is behind it becomes a segment without an option,
EndsBehind(u, i) ==
  u.queue[i].seq + Bytes(u.queue[i]) > u.map.subseq + u.map.len

\* (mptcp_skb_split_tail.  A segment that lies behind the mapping as a whole would
\* be split at a negative length: the model ends there.)
CanSplit(u, i) == u.queue[i].seq < u.map.subseq + u.map.len

Split(u, i) ==
  LET cut  == u.map.subseq + u.map.len
      head == [u.queue[i] EXCEPT !.data = SubSeq(@, 1, cut - u.queue[i].seq)]
      tail == [Cut(u.queue[i], cut) EXCEPT !.dss = None]
  IN  [u EXCEPT !.queue = InsertAt([@ EXCEPT ![i] = head], i + 1, tail)]

\* and segments that begin in front of it, whose mapping was lost, are removed.
Old(u) == Max({i \in 0..Len(u.queue) : \A j \in 1..i : u.queue[j].seq < u.map.subseq})

WithoutOld(u) ==
  LET old == Old(u)
  IN  [u EXCEPT !.queue = SubSeq(@, old + 1, Len(@)),
                !.copied_seq = IF old = 0 THEN @ ELSE EndOf(u.queue[old])]

-----------------------------------------------------------------------------
(* mptcp_queue_skb.                                                        *)

FullMapping(u) == u.map.present /\ u.rcv_nxt >= u.map.subseq + u.map.len

\* The number of segments of the mapping at the head of the queue: the first, and
\* those before the end of the mapping.  None if Validate has removed them all.
Mapped(u) ==
  Max({i \in 0..Len(u.queue) : \A j \in 2..i : u.queue[j].seq < u.map.subseq + u.map.len})

ResetMapping_Kept(m, old, new) == m

\* mptcp_reset_mapping.
ResetMapping(m, old, new) ==
  IF m.infinite_rcv THEN [m EXCEPT !.infinite_rcv_seq = @ + new - old] ELSE m

Taken(u) ==
  LET n == Mapped(u)
  IN  [u EXCEPT !.queue = SubSeq(@, n + 1, Len(@)), !.map = NoMap,
                !.copied_seq = IF n = 0 THEN @ ELSE EndOf(u.queue[n])]

Prepared_Wide(s, skb) ==
  LET seq == sub[s].map.seq + skb.seq - sub[s].map.subseq
  IN  [id |-> None, seq |-> seq, end |-> seq + Bytes(skb), fin |-> FALSE, data |-> skb.data]

Prepared_PerMapping(s, skb) ==
  LET map == sub[s].map
  IN  [id |-> None, seq |-> Low(map.seq), end |-> Low(map.seq + map.len), fin |-> map.fin, data |-> skb.data]

\* mptcp_prepare_skb: the data sequence numbers of one segment.
Prepared(s, skb) ==
  LET map == sub[s].map
      fin == map.fin /\ skb.seq + Bytes(skb) = map.subseq + map.len
      seq == map.seq + skb.seq - map.subseq
  IN  [id |-> None, seq |-> Low(seq), end |-> Low(seq + Bytes(skb) + (IF fin THEN 1 ELSE 0)),
       fin |-> fin, data |-> skb.data]

Useless(u) ==
  LET end == u.map.seq + u.map.len + (IF u.map.fin THEN 1 ELSE 0)
  IN  RcvNxt64(meta) >= end \/ ~InWindow(meta, u.map.seq, end)

\* All out-of-order queues the segments may lead to, one after the other.
AddAll(s, segments) ==
  FoldLeft(LAMBDA queues, skb : UNION {AddMetaOfoQueue(q, s, Prepared(s, skb)) : q \in queues},
           {ofoq}, segments)

\* One segment for the receive queue: d.m is the meta socket.
DeliverOne(s, d, skb) ==
  LET new  == Prepared(s, skb)
      next == Drain(d.q, new.end)
      m    == CheckRcvseqWrap([d.m EXCEPT !.rcv_nxt = new.end], d.m.rcv_nxt)
      m2   == CheckRcvseqWrap([m EXCEPT !.rcv_nxt = next.rcv_nxt], m.rcv_nxt)
  IN  CASE ~After(new.end, d.m.rcv_nxt) -> d
        [] After(new.end, d.m.rcv_nxt) /\ new.fin ->
             [m |-> [m EXCEPT !.can_recv = FALSE], q |-> PurgeOfoQueue(d.q),
              bytes |-> d.bytes \o NewBytes(new, d.m.rcv_nxt)]
        [] OTHER ->
             [m |-> [m2 EXCEPT !.can_recv = @ /\ ~next.fin], q |-> next.queue,
              bytes |-> d.bytes \o NewBytes(new, d.m.rcv_nxt) \o next.bytes]

Deliver(s, segments) ==
  FoldLeft(LAMBDA d, skb : DeliverOne(s, d, skb), [m |-> meta, q |-> ofoq, bytes |-> <<>>], segments)

-----------------------------------------------------------------------------
Init ==
  /\ stripped \in {FALSE} \cup {~e : e \in Established}
  /\ \E e \in Established :
       /\ e => ~stripped
       /\ sub = [s \in Subflow |->
                  [queue |-> <<>>, rcv_nxt |-> 0, copied_seq |-> 0, map |-> NoMap, mp_fail |-> FALSE,
                   established |-> e, init_rcv_wnd |-> InitRcvWnd, dead |-> stripped /\ s # Master,
                   counted |-> ~(stripped /\ s # Master), fin |-> FALSE]]
  /\ sent = [s \in Subflow |->
               IF stripped
               THEN [n |-> 1, map |-> [seq |-> Isn, wide |-> FALSE, subseq |-> 0, len |-> 0, fin |-> FALSE, inf |-> TRUE]]
               ELSE [n |-> 0, map |-> None]]
  /\ meta = [rcv_nxt |-> Low(Isn), rcv_wup |-> Low(Isn), hiseq |-> 0,
              rcv_high |-> [x \in 0..1 |-> Isn \div Wrap + x], infinite_rcv |-> FALSE,
              infinite_rcv_seq |-> 0, send_infinite |-> FALSE, can_recv |-> TRUE]
  /\ ofoq = EmptyQueue
  /\ app = <<>>
  /\ faults = {}
  /\ at = Idle

-----------------------------------------------------------------------------
(* The peer and the network.  A mapping is made up when its first byte     *)
(* arrives; the receiver cannot tell.                                      *)

Infinite(s) == sent[s].map # None /\ sent[s].map.inf

SentMappings == MapThenSumSet(LAMBDA s : sent[s].n, Subflow)

\* n bytes of a mapping from sequence number x of the subflow on.
BytesOf(map, x, n) == [k \in 1..n |-> map.seq + x - map.subseq + k - 1]

\* The bytes of the last mapping that are still to arrive.
Rest(s) ==
  IF sent[s].map = None \/ Infinite(s) THEN 0
  ELSE sent[s].map.subseq + sent[s].map.len - sub[s].rcv_nxt

\* The peer is in the middle of mapping map, the k-th, when the subflow's sequence
\* number is x.
Sends(s, k, map, x) ==
  sent' = [sent EXCEPT ![s] = [n |-> k, map |-> IF x = map.subseq + map.len THEN None ELSE map]]

\* A segment arrives, mptcp_data_ready() is called.
Arrives(s, data, dss, fin) ==
  /\ at = Idle /\ ~sub[s].dead /\ ~sub[s].fin
  /\ \E bad \in {FALSE, DssCsum /\ data # <<>> /\ ~meta.infinite_rcv} :
       LET skb == [seq |-> sub[s].rcv_nxt, data |-> data, dss |-> dss, bad |-> bad, fin |-> fin]
       IN  sub' = [sub EXCEPT ![s].rcv_nxt = EndOf(skb), ![s].fin = fin, ![s].queue = Append(@, skb)]
  /\ at' = <<s, 1, "prevalidate">>
  /\ UNCHANGED <<meta, ofoq, app, stripped>>

\* An option may be lost once the subflow is established, or if the subflow can do
\* without the first one falling back.
Options(s, map) == {map} \cup {x \in {None} : sub[s].established \/ s # Master}

ArriveRest(s) ==
  /\ Rest(s) > 0
  /\ LET map == sent[s].map
         x   == sub[s].rcv_nxt
     IN  \E n \in 1..Rest(s), dss \in Options(s, map) :
           Arrives(s, BytesOf(map, x, n), dss, FALSE) /\ Sends(s, sent[s].n, map, x + n)
  /\ UNCHANGED faults

\* The mappings the peer may put on a subflow from sequence number x on.
NewMappings(x) ==
  {m \in [seq : Isn..End, wide : Wide, subseq : {x}, len : 0..MaxMapLen, fin : BOOLEAN, inf : {FALSE}] :
     /\ m.seq + m.len <= End
     /\ m.fin => m.seq + m.len = End
     /\ m.len = 0 => m.fin}

ArriveNew(s) ==
  /\ SentMappings < MaxMappings /\ ~Infinite(s) /\ Rest(s) = 0
  /\ LET x == sub[s].rcv_nxt IN
       \E m \in NewMappings(x), n \in 0..MaxMapLen :
         /\ n <= m.len /\ (n = 0 => m.len = 0)
         /\ Sends(s, sent[s].n + 1, m, x + n)
         /\ \E dss \in IF n = 0 THEN {m} ELSE Options(s, m) : Arrives(s, BytesOf(m, x, n), dss, FALSE)
  /\ UNCHANGED faults

\* A middlebox joins segments: a mapping and the beginning of the next.  One of the
\* options is lost.
ArriveTwo(s) ==
  /\ sub[s].established
  /\ SentMappings + 1 < MaxMappings /\ ~Infinite(s) /\ Rest(s) = 0
  /\ LET x == sub[s].rcv_nxt IN
       \E m \in NewMappings(x) : m.len > 0 /\
       \E m2 \in NewMappings(x + m.len), n \in 1..MaxMapLen :
         /\ n <= m2.len
         /\ Sends(s, sent[s].n + 2, m2, x + m.len + n)
         /\ \E dss \in {m, m2} :
              Arrives(s, BytesOf(m, x, m.len) \o BytesOf(m2, x + m.len, n), dss, FALSE)
  /\ UNCHANGED faults

\* Or the end of a mapping and the beginning of the next.
ArriveJoined(s) ==
  /\ "joined" \in Faults /\ faults' = faults \cup {"joined"}
  /\ SentMappings < MaxMappings /\ ~Infinite(s) /\ Rest(s) > 0
  /\ LET x == sub[s].rcv_nxt
         m == sent[s].map
     IN  \E m2 \in NewMappings(x + Rest(s)), n \in 1..MaxMapLen :
           /\ n <= m2.len
           /\ Sends(s, sent[s].n + 1, m2, x + Rest(s) + n)
           /\ \E dss \in {m, m2} :
                Arrives(s, BytesOf(m, x, Rest(s)) \o BytesOf(m2, x + Rest(s), n), dss, FALSE)

\* The bytes of an infinite mapping, or of a stream without options, come in
\* order.  Only the first segment shows the mapping.
ArriveInfinite(s) ==
  /\ Infinite(s)
  /\ LET map  == sent[s].map
         x    == sub[s].rcv_nxt
         left == End - (map.seq + x - map.subseq)
         dss  == IF ~stripped /\ x = map.subseq THEN map ELSE None
     IN  \/ \E n \in 1..MaxMapLen : n <= left /\ Arrives(s, BytesOf(map, x, n), dss, FALSE)
         \/ left = 0 /\ dss = None /\ Arrives(s, <<>>, None, TRUE)
  /\ UNCHANGED <<sent, faults>>

\* The peer closes a subflow.
ArriveFin(s) ==
  /\ ~Infinite(s) /\ Rest(s) = 0
  /\ Arrives(s, <<>>, None, TRUE)
  /\ UNCHANGED <<sent, faults>>

\* The peer has got the MP_FAIL and goes on at its snd_una, with one mapping for
\* all that follows.
PeerFallsBack(s) ==
  /\ at = Idle
  /\ sub[s].mp_fail /\ ~sub[s].dead /\ ~sub[s].fin /\ Rest(s) = 0 /\ ~Infinite(s)
  /\ \E una \in {RcvWup64(meta), RcvNxt64(meta)}, wide \in Wide :
       sent' = [sent EXCEPT ![s] =
                  [n |-> @.n, map |-> [seq |-> una, wide |-> wide, subseq |-> sub[s].rcv_nxt,
                                       len |-> 0, fin |-> FALSE, inf |-> TRUE]]]
  /\ UNCHANGED <<sub, meta, ofoq, app, stripped, faults, at>>

\* mptcp_del_sock, from the worker that closes a subflow: one that was reset, or one the
\* peer has closed.
DelSock(s) ==
  /\ at = Idle
  /\ sub[s].counted /\ (sub[s].dead \/ sub[s].fin)
  /\ sub' = [sub EXCEPT ![s].counted = FALSE]
  /\ UNCHANGED <<sent, meta, ofoq, app, stripped, faults, at>>

\* tcp_select_window, with an ack.
SendAck ==
  /\ at = Idle
  /\ meta.rcv_wup # meta.rcv_nxt
  /\ meta' = [meta EXCEPT !.rcv_wup = meta.rcv_nxt]
  /\ UNCHANGED <<sent, sub, ofoq, app, stripped, faults, at>>

\* mptcp_prune_ofo_queue: the kernel is short of memory.
PruneOfoQueue ==
  /\ at = Idle
  /\ ofoq.ofo # <<>>
  /\ ofoq' = PurgeOfoQueue(ofoq)
  /\ UNCHANGED <<sent, sub, meta, app, stripped, faults, at>>

-----------------------------------------------------------------------------
(* mptcp_data_ready.                                                       *)

Restart(s) == at' = <<s, 1, "prevalidate">>

\* Segment i of subflow s is where the call is.
At(s, i, step) ==
  at = <<s, i, step>> /\ i \in DOMAIN sub[s].queue

CannotReceive(s) ==
  /\ at = <<s, 1, "prevalidate">>
  /\ ~meta.can_recv
  /\ sub' = [sub EXCEPT ![s].queue = <<>>, ![s].copied_seq = sub[s].rcv_nxt]
  /\ at' = Idle
  /\ UNCHANGED <<sent, meta, ofoq, app, stripped, faults>>

Done(s) ==
  /\ at # Idle /\ at[1] = s /\ at[2] > Len(sub[s].queue)
  /\ meta.can_recv
  /\ at' = Idle
  /\ UNCHANGED <<sent, sub, meta, ofoq, app, stripped, faults>>

(* mptcp_prevalidate_skb.                                                  *)

\* A subflow's FIN is of no use, unless it is the DATA_FIN.
DropFin(s, i) ==
  /\ At(s, i, "prevalidate") /\ meta.can_recv
  /\ sub[s].queue[i].fin /\ ~meta.infinite_rcv
  /\ sub' = [sub EXCEPT ![s] = Unlinked(@, i)]
  /\ Restart(s)
  /\ UNCHANGED <<sent, meta, ofoq, app, stripped, faults>>

Prevalidate(s, i) ==
  /\ At(s, i, "prevalidate") /\ meta.can_recv
  /\ ~(sub[s].queue[i].fin /\ ~meta.infinite_rcv)
  /\ \/ /\ ~MustFallBack(s, i)
        /\ sub' = [sub EXCEPT ![s] = CountWindow(@, sub[s].queue[i])]
        /\ UNCHANGED meta
     \/ /\ MustFallBack(s, i) /\ s = Master
        /\ sub' = [CloseOthers(sub, s) EXCEPT ![s].established = TRUE]
        /\ meta' = [meta EXCEPT !.infinite_rcv = TRUE, !.infinite_rcv_seq = RcvNxt64(meta),
                                !.send_infinite = FALSE]
  /\ at' = <<s, i, "detect">>
  /\ UNCHANGED <<sent, ofoq, app, stripped, faults>>

\* Another subflow cannot fall back.
ResetUnmapped(s, i) ==
  /\ At(s, i, "prevalidate") /\ meta.can_recv /\ ~sub[s].queue[i].fin
  /\ MustFallBack(s, i) /\ s # Master
  /\ sub' = [sub EXCEPT ![s] = Reset(@)]
  /\ at' = Idle
  /\ UNCHANGED <<sent, meta, ofoq, app, stripped, faults>>

(* mptcp_detect_mapping.                                                   *)

Dss(s, i) == sub[s].queue[i].dss

DetectInfinite(s, i) ==
  /\ At(s, i, "detect") /\ meta.infinite_rcv
  /\ sub' = [sub EXCEPT ![s].map = InfiniteMap(sub[s], meta, sub[s].queue[i])]
  /\ at' = <<s, i, "validate">>
  /\ UNCHANGED <<sent, meta, ofoq, app, stripped, faults>>

\* There is a mapping already, or it is still on its way.
DetectNothing(s, i) ==
  /\ At(s, i, "detect") /\ ~meta.infinite_rcv
  /\ LET u == sub[s] IN
       \/ u.queue[i].dss = None /\ (u.map.present \/ u.rcv_nxt - u.copied_seq <= NoMapWindow)
       \/ u.queue[i].dss # None /\ u.map.present /\ SameMap(u.map, Dss(s, i))
  /\ at' = <<s, i, "validate">>
  /\ UNCHANGED <<sent, sub, meta, ofoq, app, stripped, faults>>

\* Too many bytes without a mapping, two mappings that disagree, or a mapping of
\* other bytes.
DetectReset(s, i) ==
  /\ At(s, i, "detect") /\ ~meta.infinite_rcv
  /\ LET u == sub[s] IN
       \/ u.queue[i].dss = None /\ ~u.map.present /\ u.rcv_nxt - u.copied_seq > NoMapWindow
       \/ u.queue[i].dss # None /\ u.map.present /\ ~SameMap(u.map, Dss(s, i))
       \/ /\ u.queue[i].dss # None /\ ~u.map.present /\ ~u.mp_fail
          /\ OutsideMap(ReadMap(meta, Dss(s, i), u.queue[i]), u.queue[i])
  /\ sub' = [sub EXCEPT ![s] = Reset(@)]
  /\ at' = Idle
  /\ UNCHANGED <<sent, meta, ofoq, app, stripped, faults>>

\* After an MP_FAIL only a fallback is of interest.  copied_seq is then beyond the
\* segments without a mapping in front of this one.
DetectIgnored(s, i) ==
  /\ At(s, i, "detect") /\ ~meta.infinite_rcv
  /\ sub[s].queue[i].dss # None /\ ~sub[s].map.present
  /\ ~Dss(s, i).inf /\ sub[s].mp_fail
  /\ sub' = [sub EXCEPT ![s] = Unlinked(@, i)]
  /\ faults' = IF i > 1 THEN faults \cup {"skipped"} ELSE faults
  /\ Restart(s)
  /\ UNCHANGED <<sent, meta, ofoq, app, stripped>>

DetectMapping(s, i) ==
  /\ At(s, i, "detect") /\ ~meta.infinite_rcv
  /\ sub[s].queue[i].dss # None /\ ~sub[s].map.present
  /\ LET skb == sub[s].queue[i]
         map == ReadMap(meta, Dss(s, i), skb)
     IN  \/ /\ ~Dss(s, i).inf /\ ~sub[s].mp_fail /\ ~OutsideMap(map, skb)
            /\ sub' = [sub EXCEPT ![s].map = map]
            /\ UNCHANGED <<meta, ofoq>>
         \/ /\ Dss(s, i).inf
            /\ sub' = [CloseOthers(sub, s) EXCEPT ![s].map = map, ![s].established = TRUE,
                                                   ![s].mp_fail = FALSE]
            /\ meta' = [meta EXCEPT !.infinite_rcv = TRUE, !.infinite_rcv_seq = map.seq,
                                    !.send_infinite = TRUE]
            /\ ofoq' = PurgeOfoQueue(ofoq)
  /\ at' = <<s, i, "validate">>
  /\ UNCHANGED <<sent, app, stripped, faults>>

(* mptcp_validate_mapping.                                                 *)

\* History: a segment behind the first is removed with bytes of the mapping.
FreesMapped(u) ==
  IF \E j \in 1..Old(u) : EndOf(u.queue[j]) > u.map.subseq THEN {"freed"} ELSE {}

Validate(s, i) ==
  /\ At(s, i, "validate")
  /\ \/ /\ ~sub[s].map.present
        /\ at' = <<s, i, "push">>
        /\ UNCHANGED <<sub, faults>>
     \/ LET u == Trimmed(sub[s])
            v == IF EndsBehind(u, i) THEN Split(u, i) ELSE u
        IN  /\ sub[s].map.present /\ (EndsBehind(u, i) => CanSplit(u, i))
            /\ sub' = [sub EXCEPT ![s] = WithoutOld(v)]
            /\ at' = <<s, i - Old(v), "push">>
            /\ faults' = faults \cup FreesMapped(v)
  /\ UNCHANGED <<sent, meta, ofoq, app, stripped>>

\* The new part finds no memory: the segment is thrown away.
ValidateFails(s, i) ==
  /\ At(s, i, "validate")
  /\ "nosplit" \in Faults /\ faults' = faults \cup {"nosplit"}
  /\ sub[s].map.present /\ EndsBehind(Trimmed(sub[s]), i)
  /\ sub' = [sub EXCEPT ![s] = Unlinked(Trimmed(@), i)]
  /\ Restart(s)
  /\ UNCHANGED <<sent, meta, ofoq, app, stripped>>

(* rmptcp_lowpass and mptcp_queue_skb.                                     *)

\* The low-pass filter holds the mapping back.
Hold(s) ==
  /\ at # Idle /\ at[1] = s /\ at[3] = "push"
  /\ Restart(s)
  /\ UNCHANGED <<sent, sub, meta, ofoq, app, stripped, faults>>

Incomplete(s, i) ==
  /\ at = <<s, i, "push">>
  /\ ~FullMapping(sub[s])
  /\ at' = <<s, i + 1, "prevalidate">>
  /\ UNCHANGED <<sent, sub, meta, ofoq, app, stripped, faults>>

\* The bytes are there already, or out of the window.
DropMapping(s, i) ==
  /\ at = <<s, i, "push">>
  /\ FullMapping(sub[s]) /\ Useless(sub[s])
  /\ sub' = [sub EXCEPT ![s] = Taken(@)]
  /\ meta' = ResetMapping(meta, sub[s].copied_seq, sub'[s].copied_seq)
  /\ Restart(s)
  /\ UNCHANGED <<sent, ofoq, app, stripped, faults>>

Checked == DssCsum /\ ~meta.infinite_rcv

CsumFails(s) == Checked /\ \E j \in 1..Mapped(sub[s]) : sub[s].queue[j].bad

\* mptcp_verif_dss_csum.  The sum of no segment is wrong too, and the message of the
\* kernel would quote the segment: the model ends there.
WrongCsum(s, i) ==
  /\ at = <<s, i, "push">>
  /\ FullMapping(sub[s]) /\ ~Useless(sub[s]) /\ CsumFails(s)
  /\ LET fail == [sub[s] EXCEPT !.mp_fail = TRUE, !.map = NoMap] IN
       \/ /\ \E t \in Subflow \ {s} : sub[t].counted
          /\ sub' = [sub EXCEPT ![s] = Reset(fail)]
          /\ UNCHANGED meta
       \/ /\ \A t \in Subflow \ {s} : ~sub[t].counted
          /\ sub' = [sub EXCEPT ![s] = [fail EXCEPT !.queue = <<>>, !.copied_seq = EndOf(Last(sub[s].queue))]]
          /\ meta' = [meta EXCEPT !.send_infinite = TRUE]
  /\ at' = Idle
  /\ UNCHANGED <<sent, ofoq, app, stripped, faults>>

Segments(s) == SubSeq(sub[s].queue, 1, Mapped(sub[s]))

Push(s, i) ==
  /\ at = <<s, i, "push">>
  /\ FullMapping(sub[s]) /\ ~Useless(sub[s])
  /\ ~CsumFails(s) /\ (Checked => sub[s].queue # <<>>)
  /\ sub' = [sub EXCEPT ![s] = Taken(@)]
  /\ \/ /\ RcvNxt64(meta) < sub[s].map.seq
        /\ ofoq' \in AddAll(s, Segments(s))
        /\ meta' = ResetMapping(meta, sub[s].copied_seq, sub'[s].copied_seq)
        /\ UNCHANGED app
     \/ /\ RcvNxt64(meta) >= sub[s].map.seq
        /\ LET d == Deliver(s, Segments(s)) IN
             /\ ofoq' = d.q
             /\ app' = app \o d.bytes
             /\ meta' = ResetMapping(d.m, sub[s].copied_seq, sub'[s].copied_seq)
  /\ Restart(s)
  /\ UNCHANGED <<sent, stripped, faults>>

Arrive(s) ==
  \/ ArriveRest(s) \/ ArriveNew(s) \/ ArriveTwo(s) \/ ArriveJoined(s) \/ ArriveInfinite(s) \/ ArriveFin(s) \/ PeerFallsBack(s)
  \/ DelSock(s)

Handle(s, i) ==
  \/ DropFin(s, i) \/ Prevalidate(s, i) \/ ResetUnmapped(s, i)
  \/ DetectInfinite(s, i) \/ DetectNothing(s, i) \/ DetectReset(s, i)
  \/ DetectIgnored(s, i) \/ DetectMapping(s, i)
  \/ Validate(s, i) \/ ValidateFails(s, i)
  \/ Incomplete(s, i) \/ DropMapping(s, i) \/ WrongCsum(s, i) \/ Push(s, i)

DataReady(s) ==
  CannotReceive(s) \/ Done(s) \/ Hold(s) \/ \E i \in 0..MaxMappings * (MaxMapLen + 2) : Handle(s, i)

Next == SendAck \/ PruneOfoQueue \/ \E s \in Subflow : Arrive(s) \/ DataReady(s)

Spec == Init /\ [][Next]_vars

-----------------------------------------------------------------------------
(* Properties.                                                             *)

\* The application gets the bytes the peer sent, each once and in order,
\* whatever the subflows they came on, and rcv_nxt, made of 32 bits and one of
\* two high halves, is the number of the next byte.
InOrder ==
  /\ app = [k \in 1..Len(app) |-> Isn + k - 1]
  /\ RcvNxt64(meta) = Isn + Len(app) + (IF meta.can_recv THEN 0 ELSE 1)

AppInOrder == faults = {} => InOrder

\* Unless a fault has happened, a segment waits in the out-of-order queue under the
\* numbers of its bytes.
QueuedAreMeant ==
  faults = {} =>
  \A p \in DOMAIN ofoq.ofo :
    LET skb == ofoq.ofo[p] IN
      /\ \A k \in DOMAIN skb.data : Low(skb.data[k]) = Plus(skb.seq, k - 1)
      /\ skb.end = Plus(skb.seq, Len(skb.data) + (IF skb.fin THEN 1 ELSE 0))

\* A shortcut leads to a segment that is in the queue, never to one freed, and
\* no two subflows have put in the same segment.
ShortcutsQueued ==
  /\ \A s \in Subflow : ofoq.shortcut[s] # None => PositionOf(ofoq, s) # {}
  /\ \A s, t \in Subflow : s # t /\ ofoq.shortcut[s] # None => ofoq.shortcut[s] # ofoq.shortcut[t]

\* Bytes are missing in front of the out-of-order queue whenever it holds a segment: what
\* fills the gap, however it overlaps what waits and wherever the numbers wrap, takes the
\* head of the queue with it, and each next head that now connects.  (A segment behind a
\* head that does not connect may wait in vain: the shortcuts do not keep the queue sorted.)
GapInFront ==
  ofoq.ofo # <<>> => After(Head(ofoq.ofo).seq, meta.rcv_nxt)

-----------------------------------------------------------------------------
(* What a comment says of the program and the program does not do.         *)

\* mptcp_ofo_queue.c, "clean segments covered by new one as whole": no byte is
\* lost when a segment is put in.
Waiting == UNION {Range(ofoq.ofo[p].data) : p \in DOMAIN ofoq.ofo}

CoveredAsWhole ==
  [][app' = app /\ ofoq'.ofo # <<>> => Waiting \subseteq Waiting']_vars

\* mptcp_validate_mapping(): "Impossible that we could free skb here, because his
\* mapping is known to be valid from previous checks".
CurrentIsKept == at # Idle => at[2] > 0

=============================================================================
