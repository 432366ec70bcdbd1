-------------------------- MODULE VerificationVerdict --------------------------
(***************************************************************************)
(* What the user who asks for a verification is promised of its verdict,   *)
(* however the dialogue goes: the flow ends once and stays as it ended;    *)
(* nothing is called done that is not verified; a verdict is only taken    *)
(* back to say that the device has been verified after all; and when the   *)
(* attempt is closed it has a verdict, which is done if the process ended  *)
(* well.                                                                   *)
(*                                                                         *)
(* It does not promise that a verified device is reported as done: the     *)
(* process may die before it has said so.                                  *)
(***************************************************************************)
VARIABLES
    flow,       \* "open", then "verified" or "off"
    ended,      \* "no", then how the process ended: "well" or "badly"
    verdict,    \* "open", "done" or "not_done"
    closed      \* nobody reports any more

Init == flow = "open" /\ ended = "no" /\ verdict = "open" /\ closed = FALSE

Settle ==
    /\ ended = "no" /\ flow = "open"
    /\ flow' \in {"verified", "off"}
    /\ UNCHANGED <<ended, verdict, closed>>

(* A device that is verified already settles the flow and ends the process.*)
End ==
    /\ ended = "no" /\ ended' \in {"well", "badly"}
    /\ flow' = flow \/ (flow = "open" /\ flow' = "verified")
    /\ ended' = "well" => flow' = "verified"
    /\ UNCHANGED <<verdict, closed>>

Report ==
    /\ ~closed /\ flow # "open" /\ verdict # "done"
    /\ verdict' \in {"done", "not_done"}
    /\ verdict' = "done" => flow = "verified"
    /\ UNCHANGED <<flow, ended, closed>>

Close ==
    /\ ~closed /\ ended # "no"
    /\ closed' = TRUE
    /\ verdict' \in {"done", "not_done"}
    /\ verdict # "open" => verdict' = verdict
    /\ verdict' = "done" => flow = "verified"
    /\ ended = "well" => verdict' = "done"
    /\ UNCHANGED <<flow, ended>>

Next == Settle \/ End \/ Report \/ Close

Spec == Init /\ [][Next]_<<flow, ended, verdict, closed>>
=============================================================================
