------------------------------ MODULE MCCnlLife ------------------------------
(****************************************************************************)
(* Instances of the life of the device for TLC.                             *)
(****************************************************************************)
EXTENDS CnlLife, TLC

CONSTANTS t1, t2, t3

ThreeThreads == {t1, t2, t3}
=============================================================================
