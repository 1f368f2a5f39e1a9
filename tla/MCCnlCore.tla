------------------------------ MODULE MCCnlCore ------------------------------
(****************************************************************************)
(* Instances of the CNL core for TLC: which requests the caller issues and  *)
(* which sources the peer, the timers and the hardware may raise.           *)
(****************************************************************************)
EXTENDS CnlCoreProps, TLC

CONSTANTS c1, c2   \* model values: callers

OneCaller  == {c1}
TwoCallers == {c1, c2}
Symmetry   == Permutations(TwoCallers)

\* The side that connects.
InitiatorTypes == {"INIT_REQ", "CLOSE_REQ", "CONNECT_REQ", "ACCEPT_RES", "RELEASE_REQ"}
InitiatorAir   == {"CACCRCV", "TCONNTOUT"}
\* Its peer accepts and does nothing else; or it may release the link as well.
AcceptingAir   == {"CACCRCV"}
ReleasingAir   == {"CACCRCV", "CRLSRCV", "TCONNTOUT"}

\* A side that connects while it is being called.
CrossingTypes == {"INIT_REQ", "CONNECT_REQ", "ACCEPT_REQ"}
CrossingAir   == {"CREQRCV", "TCONNTOUT"}

\* The side that waits for a connection, whose link and power go to sleep and
\* wake up.
ResponderTypes == {"INIT_REQ", "WAIT_CONNECT_REQ", "ACCEPT_REQ", "RELEASE_REQ",
                   "POWERSAVE_REQ"}
ResponderAir   == {"CREQRCV", "CRLSRCV", "CSLEEPRCV", "CPROBETX", "TRESENDTOUT"}
\* The same, with a link that is released by the peer alone, whose power the peer wakes.
PowersaveTypes == ResponderTypes \ {"RELEASE_REQ"}
PowersaveAir   == {"CREQRCV", "CSLEEPRCV", "CWAKERCV", "CPROBETX"}
WakingAir      == {"CREQRCV", "CWAKERCV", "TACCTOUT"}

\* A link that comes and goes while data is sent over it.
TransmitTypes == ResponderTypes \ {"POWERSAVE_REQ"}
TransmitAir   == {"CREQRCV", "TRETRYTOUT"}
RepeatedAir   == {"CREQRCV", "CRLSRCV"}

\* Two threads that take turns while the alarm expires.
AlarmTypes == {"INIT_REQ", "WAIT_CONNECT_REQ", "RELEASE_REQ"}
AlarmAir   == {"CREQRCV"}

\* A connected responder that sends and receives.
ExchangeTypes == {"INIT_REQ", "WAIT_CONNECT_REQ", "ACCEPT_REQ"}
ExchangeAir   == {"CREQRCV", "RXBANKNOTEMPT"}
\* Either the alarm expires, or an operation fails.
OneMishap == nTimeout + nFault <= 1
=============================================================================
