----------------------------- MODULE MCMetaSend -----------------------------
(***************************************************************************)
(* Small instances of MetaSend: two subflows, a stream of two bytes and    *)
(* the DATA_FIN over a wrap of the 32-bit data sequence number.            *)
(***************************************************************************)
EXTENDS MetaSend

\* Those that meet the DATA_FIN in their own ways with the round-robin scheduler, which
\* sends one; a copy thrown away with the redundant one, which has made most of them; the
\* others with the default scheduler.
AllFaults == ({"roundrobin"} \X {"close", "nomem"}) \cup ({"default"} \X {"mpfail", "split"})
               \cup {<<"redundant", "discard">>}

NoFaults == {}

\* Two bytes can be cut over the wrap, and one of them be freed before the other.
Short == [default |-> 2, roundrobin |-> 2, redundant |-> 2]

\* The redundant scheduler has one with a time-out, the others all and the DATA_FIN.
Timed == [default |-> 3, roundrobin |-> 3, redundant |-> 1]
TimedTwo == [redundant |-> 3]

\* Three bytes leave a segment behind one that is freed, and a new one behind that.
Three == [redundant |-> 3]

=============================================================================
