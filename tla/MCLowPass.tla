----------------------------- MODULE MCLowPass -----------------------------
(***************************************************************************)
(* Two subflows, of one connection or of two.                              *)
(***************************************************************************)
EXTENDS LowPass

Alike == Permutations(Sock) \cup Permutations(Meta)

=============================================================================
