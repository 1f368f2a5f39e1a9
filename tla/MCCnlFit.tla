------------------------------- MODULE MCCnlFit -------------------------------
(****************************************************************************)
(* Instances of the fitting for TLC.                                        *)
(****************************************************************************)
EXTENDS CnlFit, TLC

CONSTANTS t1, t2, c1, c2, c3, fc, fa, fb, none

TwoThreads == {t1, t2}
ThreeConts == {c1, c2, c3}
OneFile    == {fc}
TwoFiles   == {fa, fb}

Symmetry == Permutations(TwoThreads) \cup Permutations(ThreeConts)
            \cup Permutations(TwoFiles)

\* What the sets of the model say of the containers ends here: one that is freed while it
\* is in a list is cleared, links and all, when it is allocated again.
NotTwice == ~twice
=============================================================================
