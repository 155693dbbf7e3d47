------------------------------ MODULE LowPass ------------------------------
(***************************************************************************)
(* The low-pass filter of the receiver: mptcp_data_ready() learns the time *)
(* between new segments and holds a segment back, trying it again and      *)
(* again, until a copy of it is known or some subflow has been silent for  *)
(* that time.  Ring, list and learned time are globals of all connections, *)
(* whose calls interleave.  Times are ages in ticks; whatever is older than*)
(* a second is as old as anything can be.                                  *)
(***************************************************************************)
EXTENDS Integers, FiniteSets, SequencesExt

CONSTANTS
    Sock,           \* subflows of all connections
    Meta,           \* connections
    NoSock,         \* NULL
    Dsn,            \* low 32 bits of data sequence numbers, 0 among them
    RingSize,       \* MAX_NUM_RED_IN_SK
    SkListSize,     \* SK_LIST_SIZE
    DaSize,         \* da_size
    MaxWait,        \* sysctl_rmptcp_lowpassmaxwait
    LearnRate,      \* sysctl_rmptcp_lplearnrate, out of Percent
    Percent,        \* 100
    OneSec,         \* ONE_SEC
    Wrap,           \* 2^32
    MaxQueue        \* bound of sk_receive_queue

ASSUME LowPassAssumption ==
    /\ NoSock \notin Sock
    /\ 0 \in Dsn /\ Dsn \subseteq Nat
    /\ {RingSize, SkListSize, DaSize, Percent, MaxQueue} \subseteq Nat \ {0}
    /\ {MaxWait, LearnRate, OneSec, Wrap} \subseteq Nat
    /\ MaxWait < OneSec /\ OneSec < Wrap

VARIABLES
    metaOf,     \* the connection each subflow belongs to
    learn,      \* red_lp_queue, learned_timeout and the statics that learn it
    list,       \* sk_list with last_send, of rmptcp_lowpass()
    queue,      \* sk_receive_queue of each subflow
    call        \* the call of mptcp_data_ready() each connection is in

vars == <<metaOf, learn, list, queue, call>>

Old == OneSec + 1
Age == 0..Old

Slot == 0..RingSize - 1

\* A segment carries the number of its mapping, which the last one completes.
Segment == [dsn : Dsn, last : BOOLEAN]

\* A call is at the segment pos of its queue; held: the filter refused one since it
\* last let one pass, waited ticks ago.
Idle == [sk |-> NoSock, hit |-> FALSE, pos |-> 1, held |-> FALSE, waited |-> 0]
Busy(m) == call[m] # Idle

(***************************************************************************)
(* rmptcp_calc_lowpass_timeout()                                           *)
(***************************************************************************)

\* Mutant: the search ends at the tail, where the oldest entries start.
PeakDsn_Newest(l, sk, d) ==
    LET at == {i \in Slot : i < l.tail /\ l.ring[i].dsn = d}
    IN  at # {} /\ l.ring[Min(at)].sk # sk

\* rmptcp_peak_dsn_sk_queue(): the first entry of d is one of another subflow.
PeakDsn(l, sk, d) ==
    LET at == {i \in Slot : l.ring[i].dsn = d}
    IN  at # {} /\ l.ring[Min(at)].sk # sk

\* rmptcp_add_to_sk_queue()
AddToSkQueue(l, sk, d) ==
    [l EXCEPT !.ring[l.tail] = [sk |-> sk, dsn |-> d],
              !.tail = (@ + 1) % RingSize]

\* The time since the last new segment, at most a little more than the mean.
Limited(l, delta) ==
    LET most == l.mean + (l.mean \div Percent) * LearnRate
    IN  IF l.mean # 0 /\ delta > most THEN most ELSE delta

AddDelta(l) ==
    [l EXCEPT !.deltas[l.da_i] = Limited(l, l.last_new),
              !.da_i = (@ + 1) % DaSize,
              !.last_new = 0]

\* A pass of the walk over the receive queue.
Walked(w, sk, d) ==
    IF PeakDsn(w.learn, sk, d) THEN [w EXCEPT !.hit = TRUE]
    ELSE [w EXCEPT !.learn = AddDelta(AddToSkQueue(@, sk, d))]

\* Mutant: the mean is not capped.
Mean_NoCap(l) ==
    (FoldLeft(+, 0, [i \in 1..DaSize |-> l.deltas[i - 1]]) % Wrap) \div DaSize

\* The mean of the deltas, as an unsigned sum, capped.
Mean(l) ==
    LET sum == FoldLeft(+, 0, [i \in 1..DaSize |-> l.deltas[i - 1]]) % Wrap
    IN  Min({sum \div DaSize, MaxWait})

Recent(l) == IF l.last_new > OneSec THEN [l EXCEPT !.last_new = 0] ELSE l

\* What the whole queue q of sk teaches.
CalcLowpassTimeout(l, sk, q) ==
    LET w == FoldLeft(LAMBDA x, skb : Walked(x, sk, skb.dsn),
                      [learn |-> Recent(l), hit |-> FALSE], q)
    IN  IF w.hit THEN w
        ELSE [w EXCEPT !.learn.mean = Mean(w.learn), !.learn.timeout = Mean(w.learn)]

(***************************************************************************)
(* rmptcp_lowpass().  list.socks are the subflows of sk_list, list.age is  *)
(* the time since last_send; a subflow not listed has none.                *)
(***************************************************************************)

NoList == [socks |-> {}, age |-> [s \in Sock |-> Old]]

Reset(l) == IF \E s \in l.socks : l.age[s] > OneSec THEN NoList ELSE l

\* A new subflow has never sent.  Once the list is full it is written behind
\* the array, where no later call looks for it.
WithSock(l, sk) ==
    IF Cardinality(l.socks) < SkListSize THEN [l EXCEPT !.socks = @ \cup {sk}] ELSE l

Stamped(l, sk) == IF sk \in l.socks THEN [l EXCEPT !.age[sk] = 0] ELSE l

\* Mutant: all subflows must have been silent.
Silent_All(l, timeout) == \A s \in l.socks : timeout = 0 \/ l.age[s] > timeout

\* No time at all has always passed, though less than a tick has.
Silent(l, timeout) == \E s \in l.socks : timeout = 0 \/ l.age[s] > timeout

Lowpass(sk, hit) ==
    LET l == WithSock(Reset(list), sk)
        send == hit \/ Silent(l, learn.timeout)
    IN  [send |-> send, list |-> IF send THEN Stamped(l, sk) ELSE l]

(***************************************************************************)
(* mptcp_data_ready(), under the lock of the connection                    *)
(***************************************************************************)

InMappings(q) == \A k \in 1..Len(q) - 1 : ~q[k].last => q[k + 1].dsn = q[k].dsn

\* The restarted call begins at the head of the queue.
Restarted(c) == [Idle EXCEPT !.sk = c.sk, !.hit = c.hit]

DataReady(sk) ==
    LET m == metaOf[sk] IN
    /\ ~Busy(m)
    /\ \E n \in 1..MaxQueue - Len(queue[sk]) : \E new \in [1..n -> Segment] :
        LET q == queue[sk] \o new
            c == CalcLowpassTimeout(learn, sk, q)
        IN  /\ InMappings(q)
            /\ queue' = [queue EXCEPT ![sk] = q]
            /\ learn' = c.learn
            /\ call' = [call EXCEPT ![m] = Restarted([sk |-> sk, hit |-> c.hit])]
    /\ UNCHANGED <<metaOf, list>>

\* The filter lets the segment at pos pass.  If its mapping is complete
\* mptcp_queue_skb() takes the segments of the mapping and the call restarts,
\* otherwise it goes on to the next one.
Pass(m) ==
    LET c == call[m]
        q == queue[c.sk]
        f == Lowpass(c.sk, c.hit)
        ends == {k \in DOMAIN q : q[k].last}
        rest == IF ends = {} THEN q ELSE SubSeq(q, Min(ends) + 1, Len(q))
    IN  /\ Busy(m) /\ f.send
        /\ list' = f.list
        /\ queue' = [queue EXCEPT ![c.sk] = rest]
        /\ call' = [call EXCEPT ![m] =
                CASE rest = <<>> \/ (ends = {} /\ c.pos = Len(q)) -> Idle
                  [] ends # {} -> Restarted(c)
                  [] OTHER -> [Restarted(c) EXCEPT !.pos = c.pos + 1]]
        /\ UNCHANGED <<metaOf, learn>>

\* The filter refuses it: goto restart, to the head of the queue.
Hold(m) ==
    LET f == Lowpass(call[m].sk, call[m].hit)
    IN  /\ Busy(m) /\ ~f.send
        /\ list' = f.list
        /\ call' = [call EXCEPT ![m].held = TRUE, ![m].pos = 1]
        /\ UNCHANGED <<metaOf, learn, queue>>

\* The connection can receive no more, or a check of the mapping has reset the
\* subflow: nothing of the queue is used.
Purge(m) ==
    /\ Busy(m) /\ ~call[m].held
    /\ queue' = [queue EXCEPT ![call[m].sk] = <<>>]
    /\ call' = [call EXCEPT ![m] = Idle]
    /\ UNCHANGED <<metaOf, learn, list>>

\* The clock.  A tick is longer than a pass of the loop, so that every call is
\* over or holds a segment back that the filter has just refused.
Tick ==
    /\ \A m \in Meta : Busy(m) => call[m].held /\ call[m].pos = 1 /\ ~Lowpass(call[m].sk, call[m].hit).send
    /\ learn' = [learn EXCEPT !.last_new = Min({@ + 1, Old})]
    /\ list' = [list EXCEPT !.age = [s \in Sock |-> Min({@[s] + 1, Old})]]
    /\ call' = [m \in Meta |->
            IF Busy(m) THEN [call[m] EXCEPT !.waited = Min({@ + 1, Old})]
            ELSE Idle]
    /\ UNCHANGED <<metaOf, queue>>

Init ==
    /\ metaOf \in [Sock -> Meta]
    /\ learn = [ring |-> [i \in Slot |-> [sk |-> NoSock, dsn |-> 0]], tail |-> 0,
                last_new |-> Old, deltas |-> [i \in 0..DaSize - 1 |-> 0], da_i |-> 0,
                mean |-> 0, timeout |-> MaxWait]
    /\ list = NoList
    /\ queue = [s \in Sock |-> <<>>]
    /\ call = [m \in Meta |-> Idle]

Next ==
    \/ \E sk \in Sock : DataReady(sk)
    \/ \E m \in Meta : Pass(m) \/ Hold(m) \/ Purge(m)
    \/ Tick

Spec == Init /\ [][Next]_vars

\* The processor goes on and so does the clock.
FairSpec == Spec /\ WF_vars(Tick) /\ \A m \in Meta : WF_vars(Pass(m)) /\ WF_vars(Hold(m))

(***************************************************************************)
(* Properties                                                              *)
(***************************************************************************)

\* Types; the learned time never exceeds the sysctl, whatever sums wrap.
TypeOK ==
    /\ metaOf \in [Sock -> Meta]
    /\ learn.ring \in [Slot -> [sk : Sock \cup {NoSock}, dsn : Dsn]]
    /\ learn.tail \in Slot /\ learn.da_i \in 0..DaSize - 1 /\ learn.last_new \in Age
    /\ learn.deltas \in [0..DaSize - 1 -> 0..OneSec]
    /\ learn.mean \in 0..MaxWait /\ learn.timeout \in 0..MaxWait
    /\ list.socks \subseteq Sock /\ list.age \in [Sock -> Age]
    /\ \A s \in Sock : queue[s] \in Seq(Segment) /\ Len(queue[s]) <= MaxQueue
    /\ \A m \in Meta : Busy(m) => metaOf[call[m].sk] = m /\ call[m].waited \in Age

\* rmptcp_lowpass() holds no segment back for longer than the longest time it may
\* learn (and the tick that shows it is over), though the loop of
\* mptcp_data_ready() has no other end, calls of other connections stamp, reset
\* and fill the same list, and change the learned time meanwhile.
HoldsBriefly == \A m \in Meta : call[m].waited <= MaxWait + 1

\* rmptcp_peak_dsn_sk_queue() stops at the first entry of a number.  That is right
\* as long as all entries of a number are of one subflow, or a copy would be
\* taken for a new segment and held back.
OneSockPerDsn ==
    \A i, j \in Slot :
        /\ learn.ring[i].dsn = learn.ring[j].dsn
        /\ NoSock \notin {learn.ring[i].sk, learn.ring[j].sk}
        => learn.ring[i].sk = learn.ring[j].sk

\* mptcp_input.c, rmptcp_lowpass(): "if yes send from the current socket, so we
\* don't block the function anymore".  A call of mptcp_data_ready() returns.
DoesNotBlock == \A m \in Meta : Busy(m) ~> ~Busy(m)

=============================================================================
