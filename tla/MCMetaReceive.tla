-------------------------- MODULE MCMetaReceive ---------------------------
(***************************************************************************)
(* Small instances of MetaReceive.                                         *)
(***************************************************************************)
EXTENDS MetaReceive

\* What the instances are too small for, step by step with the operators of OfoQueue: a
\* shortcut puts a segment behind one that reaches further, and the queue is drained up to
\* it although the segment behind could be delivered (README, disagreements).
Skb(seq, end) ==
  [id |-> None, seq |-> seq, end |-> end, fin |-> FALSE, data |-> [k \in 1..end - seq |-> seq + k - 1]]

Adds(queues, s, skb) == UNION {AddMetaOfoQueue(q, s, skb) : q \in queues}

OutOfOrder ==
  Adds(Adds(Adds(Adds({EmptyQueue}, 1, Skb(2, 4)), 2, Skb(3, 5)), 1, Skb(4, 6)), 2, Skb(1, 3))

ASSUME ShortcutsLeaveSomeWaiting ==
  \E q \in OutOfOrder :
    LET d == Drain(q, 1)
    IN  /\ d.rcv_nxt = 3
        /\ [p \in DOMAIN d.queue.ofo |-> d.queue.ofo[p].seq] = <<4, 3>>

=============================================================================
