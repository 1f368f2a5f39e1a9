------------------------------- MODULE IzanInt -------------------------------
(****************************************************************************)
(* The interrupt sources of the IZAN chip and the tables the driver keeps   *)
(* about them: which sources each CNL state enables, which sources a state  *)
(* change clears, and which CNL events a set of sources stands for.         *)
(*                                                                          *)
(* A set of sources is a subset of Sources, as a register value is a mask   *)
(* of INT_* bits in the code.  The three fatal errors are one source,       *)
(* HWERROR, because the driver treats them alike.                           *)
(****************************************************************************)
EXTENDS Naturals

MainStates == {"CLOSE", "SEARCH", "CONNECTION_REQUEST", "ACCEPT_WAITING",
               "RESPONSE_WAITING", "RESPONDER_RESPONSE",
               "INITIATOR_CONNECTED", "RESPONDER_CONNECTED"}

SubStates == {"NULL", "CONNECTED", "TARGET_SLEEP", "LOCAL_HIBERNATE"}

IsConnected(m) == m \in {"INITIATOR_CONNECTED", "RESPONDER_CONNECTED"}

RcvInts  == {"CREQRCV", "CACCRCV", "CRLSRCV", "CSLEEPRCV", "CWAKERCV"}
TimInts  == {"TCONNTOUT", "TACCTOUT", "TRETRYTOUT", "TRESENDTOUT"}
PhyInts  == {"AWAKEPRIOD", "SLEEPTOAWAKE", "AWAKETOSLEEP"}
DataInts == {"RXBANKNOTEMPT", "TXDFRAME", "TXBANKEMPT"}
MftxInts == {"CSLEEPTX", "CWAKETX", "CACCTX", "CRLSTX", "CACCACKTX"}

Sources == RcvInts \cup TimInts \cup PhyInts \cup DataInts \cup MftxInts
             \cup {"CPROBETX", "HWERROR"}

Frames  == {"C_RLS", "C_REQ", "C_ACC", "ACK_FOR_C_ACC", "C_SLEEP", "C_WAKE"}
Timers  == {"T_CONNECT", "T_ACCEPT", "T_RETRY", "T_RESEND"}
CompReqs == {"COMP_INIT", "COMP_CLOSE", "COMP_CONNECT_REQ", "COMP_ACCEPT_REQ",
             "COMP_ACCEPT_RES", "COMP_RELEASE_REQ", "COMP_SLEEP_REQ",
             "COMP_WAKE_REQ", "COMP_PROBE_REQ", "COMP_WAKE", "COMP_SLEEP"}
DataEvents == {"TX_READY", "TX_COMP", "RX_READY"}

Events == {"WAKE_REQUIRED", "ERROR_OCCURRED"} \cup CompReqs \cup Timers
            \cup Frames \cup DataEvents

(****************************************************************************)
(* The sources a state needs (IZAN_INTEN_xxx).                              *)
(****************************************************************************)
IntenOfMain ==
  [m \in MainStates |->
     CASE m \in {"CLOSE", "SEARCH"}   -> {}
       [] m = "CONNECTION_REQUEST"    -> {"CREQRCV", "CACCRCV", "CRLSRCV"}
       [] m = "ACCEPT_WAITING"        -> {"CRLSRCV"}
       [] m = "RESPONSE_WAITING"      -> {"CRLSRCV", "CSLEEPRCV"}
       [] m = "RESPONDER_RESPONSE"    ->
            {"CRLSRCV", "CSLEEPRCV", "CWAKERCV", "RXBANKNOTEMPT"}
       [] OTHER                       ->
            {"CSLEEPRCV", "CWAKERCV", "CRLSRCV", "TRESENDTOUT", "TRETRYTOUT",
             "HWERROR"}]

StateToIntEnable(m, s) ==
  IntenOfMain[m] \cup IF IsConnected(m) /\ s = "CONNECTED" THEN {"CPROBETX"}
                                                           ELSE {}

(****************************************************************************)
(* The mask a change from state m to state n / ns programs, given the mask  *)
(* e in force.  A change into a connected state takes the data and frame    *)
(* completion bits over, except the one that ends connection set-up at the  *)
(* initiator; C-Rls completion is taken over into every state.              *)
(****************************************************************************)
TakenOver(m, n, ns, e) ==
  IF ~IsConnected(n) THEN {}
  ELSE IF n = "INITIATOR_CONNECTED" /\ ns = "CONNECTED" /\ m = "RESPONSE_WAITING"
       THEN {"RXBANKNOTEMPT", "CACCRCV"}
       ELSE e \cap (DataInts \cup MftxInts)

NewInten(m, n, ns, e) ==
  StateToIntEnable(n, ns) \cup TakenOver(m, n, ns, e) \cup (e \cap {"CRLSTX"})

(****************************************************************************)
(* The sources that change clears, with the events already derived from     *)
(* them: every source the old or the new mask leaves disabled, but for the  *)
(* ones that must survive.                                                  *)
(****************************************************************************)
ClearInt(m, ms, n, ns, e) ==
  ((Sources \ (StateToIntEnable(n, ns) \cup TakenOver(m, n, ns, e)))
     \cup (Sources \ StateToIntEnable(m, ms)))
  \ ({"CRLSTX"}
       \cup (IF IsConnected(n) THEN DataInts \cup MftxInts ELSE {})
       \cup (IF n = "CONNECTION_REQUEST" THEN {"CACCRCV"} ELSE {}))

(****************************************************************************)
(* IZAN_intToEvent: the events a set of sources stands for.  The three      *)
(* power sources mean something only in certain combinations.               *)
(****************************************************************************)
EventsOfInt ==
  [s \in Sources \ PhyInts |->
     CASE s = "CREQRCV"       -> {"C_REQ"}
       [] s = "CACCRCV"       -> {"C_ACC"}
       [] s = "CRLSRCV"       -> {"C_RLS"}
       [] s = "CSLEEPRCV"     -> {"C_SLEEP"}
       [] s = "CWAKERCV"      -> {"C_WAKE"}
       [] s = "CACCTX"        -> {"ACK_FOR_C_ACC"}
       [] s = "CRLSTX"        -> {"COMP_RELEASE_REQ"}
       [] s = "CSLEEPTX"      -> {"COMP_SLEEP_REQ"}
       [] s = "CWAKETX"       -> {"COMP_WAKE_REQ"}
       [] s = "CACCACKTX"     -> {"COMP_ACCEPT_RES"}
       [] s = "CPROBETX"      -> {"COMP_PROBE_REQ"}
       [] s = "TCONNTOUT"     -> {"T_CONNECT"}
       [] s = "TACCTOUT"      -> {"T_ACCEPT"}
       [] s = "TRETRYTOUT"    -> {"T_RETRY"}
       [] s = "TRESENDTOUT"   -> {"T_RESEND"}
       [] s = "RXBANKNOTEMPT" -> {"RX_READY"}
       [] s = "TXDFRAME"      -> {"TX_COMP", "TX_READY"}
       [] s = "TXBANKEMPT"    -> {"TX_READY"}
       [] s = "HWERROR"       -> {"ERROR_OCCURRED"}]

PhyEvent(P) == CASE P = {"AWAKEPRIOD"}                 -> {"COMP_WAKE"}
                 [] P = {"SLEEPTOAWAKE", "AWAKEPRIOD"} -> {"COMP_INIT"}
                 [] P = {"AWAKETOSLEEP"}               -> {"COMP_CLOSE"}
                 [] OTHER                              -> {}

IntToEvent(S) == (UNION {EventsOfInt[s] : s \in S \ PhyInts})
                   \cup PhyEvent(S \cap PhyInts)
=============================================================================
