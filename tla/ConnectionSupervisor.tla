------------------------ MODULE ConnectionSupervisor ------------------------
(***************************************************************************)
(* What a self-reconnecting connector promises, whatever provider it talks *)
(* to: it has one link, the link is dialled at most once at a time, a lost *)
(* link goes to a back-off unless the operator has halted the connector,   *)
(* and a back-off ends in another dial.                                    *)
(*                                                                         *)
(* The specification is abstract: it mentions neither sockets nor timers   *)
(* nor promises.  WhatsAppConnector and SignalConnector implement it under *)
(* the mappings given there.                                               *)
(***************************************************************************)
VARIABLES
    link,       \* "idle", "dialing", "up" or "backoff"
    halted,     \* the operator logged the connector out
    started     \* the startup recovery has begun

vars == <<link, halted, started>>

Init == link = "idle" /\ halted = FALSE /\ started = FALSE

(* The startup recovery begins, once in the life of a process, and it may  *)
(* undo a halt.  It has nothing to dial when there is no session.          *)
Begin ==
    /\ ~started /\ started' = TRUE
    /\ halted' \in {halted, FALSE}
    /\ link' \in {link, "dialing"}

(* A login dials.  It may dial from "up" too: it replaces a link that was  *)
(* never paired.                                                           *)
Dial ==
    /\ link # "dialing"
    /\ link' = "dialing"
    /\ UNCHANGED <<halted, started>>

(* The back-off expires.                                                   *)
Redial ==
    /\ link = "backoff"
    /\ link' = "dialing"
    /\ UNCHANGED <<halted, started>>

(* The dial succeeds, or fails: then it is tried again after a back-off if *)
(* a back-off asked for it, and given up otherwise.                        *)
Connected ==
    /\ link = "dialing"
    /\ link' = "up"
    /\ UNCHANGED <<halted, started>>

Failed ==
    /\ link = "dialing"
    /\ link' = "idle" \/ (~halted /\ link' = "backoff")
    /\ UNCHANGED <<halted, started>>

(* The link is lost, or found lost while the connector idled.              *)
Lost ==
    /\ link \in {"up", "idle"}
    /\ link' = IF halted THEN "idle" ELSE "backoff"
    /\ UNCHANGED <<halted, started>>

(* The operator logs the connector out: nothing is left waiting to dial.   *)
(* A dial in flight is not recalled.                                       *)
Halt ==
    /\ halted' = TRUE
    /\ link' = IF link = "dialing" THEN link ELSE "idle"
    /\ UNCHANGED started

(* The process dies and another takes its place.                           *)
Reset == link' = "idle" /\ halted' = FALSE /\ started' = FALSE

Next == Begin \/ Dial \/ Redial \/ Connected \/ Failed \/ Lost \/ Halt \/ Reset

Spec == Init /\ [][Next]_vars /\ WF_vars(Redial)
=============================================================================
