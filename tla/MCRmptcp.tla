------------------------------ MODULE MCRmptcp ------------------------------
(* Rmptcp with small networks: sockets ab is the path from source a to     *)
(* destination b, the lowest source first.                                 *)
EXTENDS Rmptcp, TLC

CONSTANTS s11, s12, s21, s22

\* The connections are alike.
MetaSymmetry == Permutations(Meta)

MCSaddr == [s \in Sock |-> IF s \in {s11, s12} THEN 1 ELSE 2]

MCDaddr == [s \in Sock |-> IF s \in {s11, s21} THEN 1 ELSE 2]

\* sysctl_rmptcp_enablemask: all paths, the first path, or the two paths that
\* share no address when s11, s12 and s22 make the list.
AllPaths   == {0..3}
AnyOne     == {{0, 1}, {0}}
Disjoint   == {{0, 2}, {0}}

=============================================================================
