------------------------------- MODULE MCIoFit -------------------------------
(****************************************************************************)
(* Instances of the character device for TLC.                               *)
(****************************************************************************)
EXTENDS IoFit, TLC

CONSTANTS t1, t2, r1, r2, r3, b1, b2, none

TwoThreads == {t1, t2}
ThreeReqs  == {r1, r2, r3}
TwoBufs    == {b1, b2}
\* What follows a request taken for a failed one is not followed further: its box may be
\* freed under the other ioctl, and what that reads then is anything.
NotMistaken == ~mistaken
=============================================================================
