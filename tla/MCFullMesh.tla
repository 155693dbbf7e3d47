---------------------------- MODULE MCFullMesh ----------------------------
(* Small instances of FullMesh.                                            *)
EXTENDS FullMesh

CONSTANTS a1, a2, x1   \* two addresses of IPv4, one of IPv6

Case(family, v6only, server, flows, moving, changes, faults) ==
  [kind |-> [family |-> family, v6only |-> v6only, server |-> server, flows |-> flows],
   moving |-> moving, changes |-> changes, faults |-> faults]

\* Both addresses come and go; the first comes and goes while a worker fails; two
\* subflows per pair, whose second, then first source comes and goes; a server; a
\* socket for both families; one for IPv6 only; one for both with a peer that has
\* one address under two ports.
AllCases ==
  {Case(4, FALSE, FALSE, 1, {a1, a2}, 3, 0), Case(4, FALSE, FALSE, 1, {a1}, 2, 1),
   Case(4, FALSE, FALSE, 2, {a2}, 2, 1), Case(4, FALSE, FALSE, 2, {a2}, 1, 2),
   Case(4, FALSE, FALSE, 2, {a1}, 3, 0), Case(4, FALSE, TRUE, 1, {a1, a2}, 2, 1),
   Case(6, FALSE, FALSE, 1, {a1, x1}, 2, 0), Case(6, TRUE, FALSE, 1, {a1, x1}, 2, 1),
   Case(6, FALSE, FALSE, 1, {a1}, 1, 2)}
OneCase == {Case(4, FALSE, FALSE, 1, {a1, a2}, 2, 0)}

Dst == [f \in {4, 6} |-> IF f = 4 THEN 10 ELSE 60]

Peers == {[id |-> 1, addr |-> 11, port |-> 0, fam |-> 4],
          [id |-> 1, addr |-> 12, port |-> 0, fam |-> 4],
          [id |-> 1, addr |-> 12, port |-> 5, fam |-> 4],
          [id |-> 2, addr |-> 61, port |-> 0, fam |-> 6]}
============================================================================
