------------------------------- MODULE MCCnlRx --------------------------------
(****************************************************************************)
(* Instances of reception for TLC.                                          *)
(****************************************************************************)
EXTENDS CnlRx

CONSTANTS r1, d1, p0, p1

OneReq == {r1}
NoDiscards == {}
OneDiscard == {d1}
BothProfiles == {p0, p1}
OneLength == {3}
TwoEach == [p \in Profiles |-> 2]
=============================================================================
