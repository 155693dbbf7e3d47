------------------------------- MODULE Seqno -------------------------------
(***************************************************************************)
(* Sequence numbers: unsigned values modulo Wrap, 2^32 in the code, ordered*)
(* by the sign of their difference (before() and after() of the kernel).   *)
(* A data sequence number has 64 bits, which do not wrap here.             *)
(***************************************************************************)
EXTENDS Integers

CONSTANT Wrap

ASSUME WrapAssumption == Wrap \in Nat \ {0} /\ Wrap % 2 = 0

Seqs == 0..Wrap - 1

Low(x) == x % Wrap

\* Defined for integers in Seqs.
Before(a, b) == (a - b) % Wrap >= Wrap \div 2
After(a, b)  == Before(b, a)

\* The sequence number n after a.
Plus(a, n) == (a + n) % Wrap

\* How far b is after a.
Distance(a, b) == (b - a) % Wrap

=============================================================================
