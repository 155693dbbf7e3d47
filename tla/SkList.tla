------------------------------- MODULE SkList -------------------------------
(***************************************************************************)
(* The list of the known subflows, red_sk_reg.sk_list: an array that       *)
(* rmptcp_insert_sk() keeps sorted by source and destination address.      *)
(* Masks (sysctl_rmptcp_enablemask, the path combinations) and             *)
(* previous_skevent_i name subflows by their index in it.                  *)
(*                                                                         *)
(* A sorted list without repetitions is determined by the set of its       *)
(* sockets.  Rmptcp keeps that set; PathCheck keeps the array.             *)
(***************************************************************************)
EXTENDS Naturals, FiniteSets, Sequences

CONSTANTS
  Sock,           \* subflows of a connection, one per address pair
  Saddr,          \* RED_SADDR of each
  Daddr           \* RED_DADDR of each

ASSUME SockAssumption ==
  /\ IsFiniteSet(Sock)
  /\ Saddr \in [Sock -> Nat]
  /\ Daddr \in [Sock -> Nat]
  /\ \A s, t \in Sock : Saddr[s] = Saddr[t] /\ Daddr[s] = Daddr[t] => s = t

Precedes(s, t) ==
  \/ Saddr[s] < Saddr[t]
  \/ Saddr[s] = Saddr[t] /\ Daddr[s] < Daddr[t]

-----------------------------------------------------------------------------
(* The list as a set.                                                      *)

\* The index of s in the list of the sockets L.
Position(s, L) == Cardinality({t \in L : Precedes(t, s)})

\* sk_list[i].sk as a set: empty if i lies outside the list.
SocketAt(i, L) == {s \in L : Position(s, L) = i}

-----------------------------------------------------------------------------
(* The list as an array; entry i of the array is list[i + 1].              *)

Listed(list) == {list[i] : i \in DOMAIN list}

Sorted(list) == \A i, j \in DOMAIN list : i < j => Precedes(list[i], list[j])

InsertIndex_FirstSmaller(list, sk) ==
  CHOOSE i \in 1..Len(list) + 1 :
    /\ \A j \in 1..i - 1 : ~Precedes(list[j], sk)
    /\ i <= Len(list) => Precedes(list[i], sk)

\* Where the search stops: at the first entry that does not precede sk.
InsertIndex(list, sk) ==
  CHOOSE i \in 1..Len(list) + 1 :
    /\ \A j \in 1..i - 1 : Precedes(list[j], sk)
    /\ i <= Len(list) => ~Precedes(list[i], sk)

\* The entries from there on move up by one.
InsertSk(list, sk) ==
  LET at == InsertIndex(list, sk)
  IN  [i \in 1..Len(list) + 1 |->
         IF i < at THEN list[i] ELSE IF i = at THEN sk ELSE list[i - 1]]

=============================================================================
