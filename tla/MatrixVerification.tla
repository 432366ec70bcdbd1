------------------------ MODULE MatrixVerification ------------------------
(***************************************************************************)
(* One attempt to verify this device from another one of the same account: *)
(* the process of mode verify_device_interactive                           *)
(* (src/liferadar-matrix/src/main.rs), the bridge that started it, feeds   *)
(* its stdin and reads its stdout (src/api/matrix_bridge.py), the user who *)
(* decides, and the Matrix SDK, whose sync task brings what the other      *)
(* device answers.  Attempts share nothing but the session, so one is      *)
(* modelled.                                                               *)
(*                                                                         *)
(* A line on stdout stands for the status the bridge derives from it.      *)
(***************************************************************************)
EXTENDS Naturals, Sequences

CONSTANTS
    MaxDecisions,   \* bound: decisions the user submits
    StderrSize      \* errors of the sync task that fit into the stderr pipe

ASSUME VerificationAssumption == MaxDecisions \in Nat /\ StderrSize \in Nat \ {0}

Decisions == {"confirm", "reject", "cancel"}

VARIABLES
    pc,         \* where the process is
    request,    \* the SDK's state of the verification request
    sas,        \* the SDK's state of the emoji comparison
    fresh,      \* the stream of changes() has a state the process has not seen
    awaiting,   \* awaiting_confirmation
    errors,     \* lines the sync task has written to stderr
    commands,   \* decisions written to stdin and not yet taken
    decided,    \* how many decisions have been written
    out,        \* lines on stdout the monitor has not read
    status,     \* the attempt's status
    done,       \* the attempt's done flag
    monitor,    \* "reading" until the monitor thread has reaped the process
    refused,    \* auxiliary: a reject or cancel was taken before the end
    blind       \* auxiliary: a confirm was used that was written before the
                \* attempt showed the emojis

process == <<pc, awaiting>>
sdk == <<request, sas, fresh>>
attempt == <<status, done, monitor>>
aux == <<refused, blind>>
vars == <<process, sdk, errors, commands, decided, out, attempt, aux>>

Init == /\ pc = "starting" /\ awaiting = FALSE
        /\ request = "none" /\ sas = "none" /\ fresh = FALSE
        /\ errors = 0 /\ commands = << >> /\ decided = 0 /\ out = << >>
        /\ status = "starting" /\ done = FALSE /\ monitor = "reading"
        /\ refused = FALSE /\ blind = FALSE

Running == pc \notin {"exit_ok", "exit_error"}
Syncing == pc \in {"request_entered", "request", "start_sas", "sas_entered", "sas"}

(* Nobody reads stderr before stdout is closed: once the pipe is full, the *)
(* sync task hangs in eprintln, nothing from the other device arrives and  *)
(* the process, which waits for the task it has aborted, does not exit.    *)
Blocked == errors = StderrSize

(* A flow that can still go on. *)
Live == request \in {"created", "ready", "transitioned"}

Verified == request = "done"

Emit(line) == out' = Append(out, line)

----------------------------------------------------------------------------
(* The bridge.                                                             *)

StatusOf == [preparing   |-> "waiting_for_emoji",
             pending     |-> "waiting_for_accept",
             started     |-> "waiting_for_emoji",
             emoji_ready |-> "waiting_for_confirm",
             confirmed   |-> "confirming",
             rejected    |-> "rejected",
             complete    |-> "done",
             cancelled   |-> "cancelled"]

(* Any decision is passed on, whatever the attempt is waiting for. *)
Decide(what) ==
    /\ decided < MaxDecisions
    /\ ~done /\ Running
    /\ commands' = Append(commands, [what |-> what, shown |-> status = "waiting_for_confirm"])
    /\ decided' = decided + 1
    /\ UNCHANGED <<process, sdk, errors, out, attempt, aux>>

(* Mutant: nothing is applied to an attempt that is finished. *)
ReadLineUnlessDone ==
    /\ out # << >>
    /\ out' = Tail(out)
    /\ status' = IF done THEN status ELSE StatusOf[Head(out)]
    /\ done' = (done \/ Head(out) \in {"complete", "cancelled"})
    /\ UNCHANGED <<process, sdk, errors, commands, decided, monitor, aux>>

(* A line is applied whether or not the attempt is already finished. *)
ReadLine ==
    /\ out # << >>
    /\ out' = Tail(out)
    /\ status' = StatusOf[Head(out)]
    /\ done' = (done \/ Head(out) \in {"complete", "cancelled"})
    /\ UNCHANGED <<process, sdk, errors, commands, decided, monitor, aux>>

(* Mutant: a process that fails without a last line leaves the attempt open. *)
ReapOnSuccess ==
    /\ monitor = "reading" /\ ~Running /\ out = << >>
    /\ monitor' = "gone"
    /\ done' = (done \/ pc = "exit_ok")
    /\ status' = IF done THEN status ELSE IF pc = "exit_ok" THEN "done" ELSE "failed"
    /\ UNCHANGED <<process, sdk, errors, commands, decided, out, aux>>

(* The end of the monitor thread: the exit code counts if no line did. *)
Reap ==
    /\ monitor = "reading" /\ ~Running /\ out = << >>
    /\ monitor' = "gone"
    /\ done' = TRUE
    /\ status' = IF done THEN status ELSE IF pc = "exit_ok" THEN "done" ELSE "failed"
    /\ UNCHANGED <<process, sdk, errors, commands, decided, out, aux>>

----------------------------------------------------------------------------
(* The SDK and the other device.  Nothing arrives unless the sync task     *)
(* runs; it goes on after every error.                                     *)

Change(r, s) == /\ Syncing /\ ~Blocked
                /\ request' = r /\ sas' = s /\ fresh' = TRUE
                /\ UNCHANGED <<process, errors, commands, decided, out, attempt, aux>>

OtherAccepts == request = "created" /\ Change("ready", "none")

OtherStarts == request = "ready" /\ Change("transitioned", "started")

OtherContinues == \/ sas = "created" /\ Change(request, "accepted")
                  \/ sas = "accepted" /\ Change(request, "keys")
                  \/ sas = "confirmed" /\ Change("done", "done")

Cancelled(s) == IF s = "none" THEN "none" ELSE "cancelled"

(* The other device cancels, or the SDK gives the flow up after ten minutes. *)
FlowEnds == Live /\ Change("cancelled", Cancelled(sas))

(* Mutant: errors are written although nobody reads them. *)
SyncFailsUnread == /\ Syncing
                   /\ errors' = errors + 1
                   /\ UNCHANGED <<process, sdk, commands, decided, out, attempt, aux>>

SyncFails == /\ Syncing /\ ~Blocked
             /\ errors' = errors + 1
             /\ UNCHANGED <<process, sdk, commands, decided, out, attempt, aux>>

----------------------------------------------------------------------------
(* The process, up to the request.                                         *)

Prepare ==
    /\ pc = "starting"
    /\ pc' = "prepared"
    /\ Emit("preparing")
    /\ UNCHANGED <<awaiting, sdk, errors, commands, decided, attempt, aux>>

AlreadyVerified ==
    /\ pc = "prepared"
    /\ pc' = "exit_ok"
    /\ request' = "done"
    /\ Emit("complete")
    /\ UNCHANGED <<awaiting, sas, fresh, errors, commands, decided, attempt, aux>>

RequestVerification ==
    /\ pc = "prepared"
    /\ pc' = "request_entered"
    /\ request' = "created"
    /\ Emit("pending")
    /\ UNCHANGED <<awaiting, sas, fresh, errors, commands, decided, attempt, aux>>

(* Any of the calls may return an error, and the process may be killed. *)
ProcessFails ==
    /\ Running
    /\ pc' \in {"exit_error"} \cup {end \in {"end_error"} : Syncing}
    /\ UNCHANGED <<awaiting, sdk, errors, commands, decided, out, attempt, aux>>

(* The sync task is aborted and awaited before the result is returned. *)
Exit ==
    /\ pc \in {"end_ok", "end_error"} /\ ~Blocked
    /\ pc' = IF pc = "end_ok" THEN "exit_ok" ELSE "exit_error"
    /\ UNCHANGED <<awaiting, sdk, errors, commands, decided, out, attempt, aux>>

----------------------------------------------------------------------------
(* wait_for_verification_request: first the state as it is, then the       *)
(* states the stream brings, of which it keeps only the latest.            *)

Sees(loop) == \/ pc = loop.entered /\ UNCHANGED fresh
              \/ pc = loop.waits /\ fresh /\ fresh' = FALSE

RequestLoop == [entered |-> "request_entered", waits |-> "request"]
SasLoop == [entered |-> "sas_entered", waits |-> "sas"]

SeeRequest ==
    /\ \/ /\ request = "created" /\ Sees(RequestLoop)
          /\ Emit("pending") /\ pc' = "request"
       \/ /\ request = "ready" /\ Sees(RequestLoop)
          /\ Emit("started") /\ pc' = "start_sas"
       \/ /\ request = "transitioned" /\ (pc = "request_entered" \/ (pc = "request" /\ fresh))
          /\ Emit("started") /\ pc' = "sas_entered" /\ fresh' = FALSE
       \/ /\ request = "cancelled" /\ Sees(RequestLoop)
          /\ Emit("cancelled") /\ pc' = "end_error"
    /\ UNCHANGED <<awaiting, request, sas, errors, commands, decided, attempt, aux>>

(* start_sas gives nothing when the request is no longer ready. *)
StartSas ==
    /\ pc = "start_sas"
    /\ \/ /\ request = "ready"
          /\ request' = "transitioned" /\ sas' = "created" /\ fresh' = FALSE
          /\ pc' = "sas_entered"
       \/ /\ request # "ready"
          /\ pc' = "request"
          /\ UNCHANGED sdk
    /\ UNCHANGED <<awaiting, errors, commands, decided, out, attempt, aux>>

Take == /\ commands # << >>
        /\ commands' = Tail(commands)

(* Mutant: the SDK's flow is not told. *)
EndFlowLocally == refused' = (refused \/ Live) /\ UNCHANGED sdk

(* cancel and mismatch end a flow that can still go on. *)
EndFlow == /\ refused' = (refused \/ Live)
           /\ IF Live THEN request' = "cancelled" /\ sas' = Cancelled(sas) /\ fresh' = TRUE
                      ELSE UNCHANGED sdk

(* Mutant: commands count only once the emojis are exchanged. *)
RequestCommandDropped ==
    /\ pc = "request" /\ Take
    /\ UNCHANGED <<process, sdk, errors, decided, out, attempt, aux>>

(* A refusal cancels, a confirmation is dropped, and the loop goes on. *)
RequestCommand ==
    /\ pc = "request" /\ Take
    /\ IF Head(commands).what = "confirm"
       THEN UNCHANGED <<sdk, out, refused>>
       ELSE EndFlow /\ Emit("cancelled")
    /\ UNCHANGED <<process, errors, decided, attempt, blind>>

----------------------------------------------------------------------------
(* wait_for_sas_verification, in the same way.                             *)

SeeSas ==
    /\ Sees(SasLoop)
    /\ \/ /\ sas \in {"created", "started", "accepted"}
          /\ Emit("started") /\ pc' = "sas" /\ UNCHANGED awaiting
       \/ /\ sas = "keys"
          /\ Emit("emoji_ready") /\ pc' = "sas" /\ awaiting' = TRUE
       \/ /\ sas = "confirmed"
          /\ Emit("confirmed") /\ pc' = "sas" /\ UNCHANGED awaiting
       \/ /\ sas = "done"
          /\ Emit("complete") /\ pc' = "end_ok" /\ UNCHANGED awaiting
       \/ /\ sas = "cancelled"
          /\ Emit("cancelled") /\ pc' = "end_error" /\ UNCHANGED awaiting
    /\ UNCHANGED <<request, sas, errors, commands, decided, attempt, aux>>

ConfirmSas(shown) ==
    /\ Emit("confirmed")
    /\ awaiting' = FALSE
    /\ IF sas = "keys" THEN /\ sas' = "confirmed" /\ fresh' = TRUE
                            /\ blind' = (blind \/ ~shown)
                       ELSE UNCHANGED <<sas, fresh, blind>>
    /\ UNCHANGED <<request, refused>>

RefuseSas(what) ==
    /\ EndFlow
    /\ Emit(IF awaiting /\ what = "reject" THEN "rejected" ELSE "cancelled")
    /\ awaiting' = FALSE
    /\ UNCHANGED blind

(* A confirmation is dropped unless the emojis have been exchanged. *)
SasCommand ==
    /\ pc = "sas" /\ Take
    /\ LET command == Head(commands) IN
         IF command.what # "confirm" THEN RefuseSas(command.what)
         ELSE IF awaiting THEN ConfirmSas(command.shown)
         ELSE UNCHANGED <<awaiting, sdk, out, aux>>
    /\ UNCHANGED <<pc, errors, decided, attempt>>

----------------------------------------------------------------------------

Other == OtherAccepts \/ OtherStarts \/ OtherContinues

Process == \/ Prepare \/ AlreadyVerified \/ RequestVerification
           \/ SeeRequest \/ StartSas \/ RequestCommand \/ SeeSas \/ SasCommand \/ Exit

Finished == monitor = "gone" /\ UNCHANGED vars

Next == \/ \E what \in Decisions : Decide(what)
        \/ ReadLine \/ Reap
        \/ Other \/ FlowEnds \/ SyncFails
        \/ Process \/ ProcessFails
        \/ Finished

(* The process and the bridge's thread run; a flow nobody completes is     *)
(* given up.  Nothing is assumed of the other device or of the user.       *)
Fairness ==
    /\ WF_vars(Prepare) /\ WF_vars(AlreadyVerified \/ RequestVerification)
    /\ WF_vars(SeeRequest) /\ WF_vars(StartSas) /\ WF_vars(SeeSas)
    /\ WF_vars(RequestCommand) /\ WF_vars(SasCommand) /\ WF_vars(Exit)
    /\ WF_vars(FlowEnds)
    /\ WF_vars(ReadLine) /\ WF_vars(Reap)

Spec == Init /\ [][Next]_vars /\ Fairness

----------------------------------------------------------------------------
(* Properties.                                                             *)

Lines == DOMAIN StatusOf

TypeOK ==
    /\ pc \in {"starting", "prepared", "request_entered", "request", "start_sas",
               "sas_entered", "sas", "end_ok", "end_error", "exit_ok", "exit_error"}
    /\ request \in {"none", "created", "ready", "transitioned", "done", "cancelled"}
    /\ sas \in {"none", "created", "started", "accepted", "keys", "confirmed",
                "done", "cancelled"}
    /\ fresh \in BOOLEAN /\ awaiting \in BOOLEAN
    /\ errors \in 0..StderrSize
    /\ commands \in Seq([what : Decisions, shown : BOOLEAN]) /\ decided \in 0..MaxDecisions
    /\ out \in Seq(Lines)
    /\ status \in {"starting", "failed"} \cup {StatusOf[line] : line \in Lines}
    /\ done \in BOOLEAN /\ monitor \in {"reading", "gone"}
    /\ refused \in BOOLEAN /\ blind \in BOOLEAN

(* What the bridge reports once it has reaped the process is what became   *)
(* of the verification: done if the process succeeded, also when a refusal *)
(* came too late, and never done without a verified device                 *)
(* (matrix_bridge.py 130-137, 178-186).                                    *)
ReportAgrees ==
    /\ status = "done" => Verified
    /\ monitor = "gone" => /\ done /\ status \in {"done", "cancelled", "failed"}
                           /\ pc = "exit_ok" => status = "done"

(* The attempt keeps the promise of VerificationVerdict: lines applied to  *)
(* a finished attempt, late refusals and the exit code never take back     *)
(* that the device was verified, nor replace one verdict by a worse one    *)
(* (matrix_bridge.py 101-187).                                             *)
Flow == IF Verified THEN "verified" ELSE IF request = "cancelled" THEN "off" ELSE "open"

Ended == IF Running THEN "no" ELSE IF pc = "exit_ok" THEN "well" ELSE "badly"

Verdict == IF ~done THEN "open" ELSE IF status = "done" THEN "done" ELSE "not_done"

Promise == INSTANCE VerificationVerdict
    WITH flow <- Flow, ended <- Ended, verdict <- Verdict, closed <- monitor = "gone"

VerdictSpec == Promise!Spec

(* After a reject or a cancel was taken from stdin in time, the device is  *)
(* not verified by this attempt, whatever was or will be confirmed         *)
(* (main.rs 2516-2524, 2704-2743).                                         *)
RefusalHolds == refused => ~Verified /\ sas \notin {"keys", "confirmed"}

(* No wake-up is lost: as long as the attempt is open and stderr has room, *)
(* somebody has a step to take.  A process that waits for the stream of    *)
(* changes has one it has yet to see, or the flow can still bring one,     *)
(* although the stream keeps only the latest state and the process looks   *)
(* at the state without it at first and after start_sas (main.rs           *)
(* 2428-2530, 2611-2760).                                                  *)
AttemptGoesOn ==
    \/ done \/ Blocked
    \/ pc \in {"starting", "prepared", "start_sas", "end_ok", "end_error"}
    \/ /\ pc \in {"request_entered", "request"}
       /\ request \in {"created", "ready", "transitioned", "cancelled"}
       /\ pc = "request" => fresh \/ Live
    \/ /\ pc \in {"sas_entered", "sas"} /\ sas # "none"
       /\ pc = "sas" => fresh \/ Live
    \/ ~Running /\ (out # << >> \/ monitor = "reading")

(* Every attempt is finished some day, although the process itself has no  *)
(* time-out: unless stderr has filled up.                                  *)
AttemptEnds == <>(done \/ Blocked)

(* A cancel the bridge wrote ends the attempt, also when nothing arrives   *)
(* any more; only an error of the cancel itself can then leave it open     *)
(* (main.rs 2516-2524, 2735-2743 and 2421-2424).                           *)
CancelEnds == (Running /\ \E i \in 1..Len(commands) : commands[i].what = "cancel")
                  ~> (done \/ (Blocked /\ pc = "end_error"))

(* What the code says of itself and does not keep.                         *)

(* "Verification attempt is already finished": a finished attempt does not *)
(* change its verdict.  The page stops asking when done is set             *)
(* (main.py 1099-1102), but a later line still replaces the status.        *)
FinishedIsFinal == [][done => status' = status]_status

(* The user confirms emojis the attempt has shown (matrix_bridge.py        *)
(* 125-127).  A confirmation written earlier waits in the pipe and is used *)
(* for whatever emojis come.                                               *)
ConfirmedWhatWasShown == ~blind
=============================================================================
