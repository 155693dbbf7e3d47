----------------------------- MODULE MCQControl -----------------------------
(* QControl with a coarser percentage: one copy counts 16 instead of 100,  *)
(* smoothed by 4 instead of 16, so that a step stays below half a copy.    *)
EXTENDS QControl

\* A bandwidth that is gone, for less and for more than one copy, and a
\* difference that has wrapped.
MCRatios == {0, 20, 200}

=============================================================================
