----------------------------- MODULE LinkService -----------------------------
(****************************************************************************)
(* What the CNL core promises its upper layer about one link: the order in  *)
(* which a link is opened, set up, used and torn down, and that a link that *)
(* was reported as up is reported as down before the device can be used for *)
(* another one.  Nothing is said of requests, events or the chip.           *)
(****************************************************************************)
VARIABLES
  link,   \* phase of the link
  doze,   \* who is asleep while the link is up
  told    \* the link as the upper layer has been told of it

linkVars == <<link, doze, told>>

SettingUp == {"outgoing", "incoming", "accepting", "answering"}
Phases    == {"closed", "idle", "up"} \cup SettingUp

LinkTypeOK == /\ link \in Phases
              /\ doze \in {"none", "active", "peer", "local"}
              /\ told \in {"down", "up"}

LinkInit == link = "closed" /\ doze = "none" /\ told = "down"

Move(from, to) == /\ link \in from /\ link' = to
                  /\ UNCHANGED <<doze, told>>

\* The device is used anew only after the end of its last link was reported.
Open    == told = "down" /\ Move({"closed"}, "idle")
Dial    == told = "down" /\ Move({"idle"}, "outgoing")
Called  == told = "down" /\ Move({"idle"}, "incoming")
\* The peer accepts; or its own request is accepted, crossing ours maybe.
Answer  == Move({"outgoing"}, "answering")
Accept  == Move({"incoming", "outgoing"}, "accepting")

\* A responder may find the peer gone to sleep already.
Establish == /\ link \in {"answering", "accepting"}
             /\ told = "down"
             /\ link' = "up" /\ told' = "up"
             /\ doze' \in {"active"} \cup IF link = "accepting" THEN {"peer"} ELSE {}

Doze == /\ link = "up"
        /\ doze' \in {"active", "peer", "local"}
        /\ UNCHANGED <<link, told>>

Drop  == /\ link \in SettingUp \cup {"up"}
         /\ link' = "idle" /\ doze' = "none" /\ UNCHANGED told
Close == /\ link # "closed"
         /\ link' = "closed" /\ doze' = "none" /\ UNCHANGED told

Report == /\ link \in {"closed", "idle"} /\ told = "up"
          /\ told' = "down" /\ UNCHANGED <<link, doze>>

LinkNext == \/ Open \/ Dial \/ Called \/ Answer \/ Accept \/ Establish
            \/ Doze \/ Drop \/ Close \/ Report

LinkSpec == LinkInit /\ [][LinkNext]_linkVars
=============================================================================
