------------------------------ MODULE MCCnlCancel ------------------------------
(****************************************************************************)
(* Instances of cancelling for TLC.                                         *)
(****************************************************************************)
EXTENDS CnlCancel, TLC

CONSTANTS c1, c2, rx, tx, d1, d2, d3, none

TwoCancellers == {c1, c2}
OneRx == {rx}
OneTx == {tx}
TwoDummies   == {d1, d2}
ThreeDummies == {d1, d2, d3}

\* Nothing is claimed once two cancels and the callback have crossed.
NotCrossed == ~crossed

Symmetry == Permutations(TwoCancellers) \cup Permutations(Dummies)
=============================================================================
