---------------------------- MODULE MCPathCheck ----------------------------
(* PathCheck on the paths between two sources and two destinations: socket *)
(* sab joins source a and destination b.                                   *)
EXTENDS PathCheck, TLC

CONSTANTS s11, s12, s21, s22

MCSaddr == [s \in Sock |-> IF s \in {s11, s12} THEN 1 ELSE 2]

MCDaddr == [s \in Sock |-> IF s \in {s11, s21} THEN 1 ELSE 2]

\* Paths that all start at one source or end at one destination: of three sources
\* and three destinations no three paths are free of overlap.
StarSaddr == [s \in Sock |-> CASE s \in {s11, s12} -> 1 [] s = s21 -> 2 [] s = s22 -> 3]

StarDaddr == [s \in Sock |-> CASE s \in {s21, s22} -> 1 [] s = s11 -> 2 [] s = s12 -> 3]

\* sysctl_rmptcp_enablemask: all paths.
OneMask == {{0, 1, 2, 3}}

=============================================================================
