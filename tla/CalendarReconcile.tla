------------------------- MODULE CalendarReconcile -------------------------
(***************************************************************************)
(* The publication of planned actions as events of a Google calendar:      *)
(* src/bin/google-calendar-reconcile.mjs, which the worker's loop runs     *)
(* once an iteration.  Every request to the calendar and every statement   *)
(* takes effect by itself, and the run may fail or die between any two.    *)
(* People create, change and close actions while it runs, and delete       *)
(* events.                                                                 *)
(*                                                                         *)
(* An action is its place in the order of the run, by its start.  Actions  *)
(* without a start and those read from a calendar are never listed.        *)
(*                                                                         *)
(* The prefix CR keeps the names apart where this module and another step  *)
(* of the worker's loop are extended together.                             *)
(***************************************************************************)
EXTENDS Naturals, Sequences, FiniteSetsExt, Functions

CONSTANTS
    Count,          \* how many actions there are
    MaxEdits,       \* bound: changes of an action
    Refused,        \* the versions of actions the calendar does not accept
    MaxIncidents    \* bound: failed runs, and events deleted by hand

ASSUME ReconcileAssumption ==
    /\ Count \in Nat \ {0} /\ MaxEdits \in Nat /\ MaxIncidents \in Nat
    /\ Refused \subseteq (1..Count) \X (0..MaxEdits)

Actions == 1..Count

VARIABLES
    \* planned_actions
    status,     \* "open" stands for proposed, scheduled and ready
    text,       \* the version of title, summary and times
    link,       \* calendar_external_id, 0 without one
    \* external_projections
    active,     \* the events whose sync_state is active
    \* the calendar
    calendar,   \* the events in the order they were made; an event's id is
                \* its place
    \* the run
    run,        \* what it does, what it has read of the actions left, the
                \* event in hand
    incidents,
    cut,        \* auxiliary: actions whose new event a run has not recorded
    touched     \* auxiliary: actions people changed, or whose event they
                \* deleted, since the run began

rows == <<status, text, link>>
CRVars == <<rows, active, calendar, run, incidents, cut, touched>>

Idle == [pc |-> "idle", seen |-> << >>, event |-> 0]

CRInit ==
    /\ status = [a \in Actions |-> "none"]
    /\ text = [a \in Actions |-> 0] /\ link = [a \in Actions |-> 0]
    /\ active = {} /\ calendar = << >>
    /\ run = Idle
    /\ incidents = 0 /\ cut = {} /\ touched = {}

-----------------------------------------------------------------------------
(* People                                                                  *)

Touch(a) == touched' = IF run.pc = "idle" THEN {} ELSE touched \cup {a}

(* POST /tasks, or a note that is captured.                                *)
Create(a) ==
    /\ status[a] = "none"
    /\ status' = [status EXCEPT ![a] = "open"]
    /\ Touch(a)
    /\ UNCHANGED <<text, link, active, calendar, run, incidents, cut>>

Edit(a) ==
    /\ status[a] = "open" /\ text[a] < MaxEdits
    /\ text' = [text EXCEPT ![a] = @ + 1]
    /\ Touch(a)
    /\ UNCHANGED <<status, link, active, calendar, run, incidents, cut>>

Close(a, end) ==
    /\ status[a] = "open"
    /\ status' = [status EXCEPT ![a] = end]
    /\ Touch(a)
    /\ UNCHANGED <<text, link, active, calendar, run, incidents, cut>>

DeleteByHand(id) ==
    /\ calendar[id].there /\ incidents < MaxIncidents
    /\ calendar' = [calendar EXCEPT ![id].there = FALSE]
    /\ incidents' = incidents + 1
    /\ Touch(calendar[id].of)
    /\ UNCHANGED <<rows, active, run, cut>>

-----------------------------------------------------------------------------
(* The run                                                                 *)

(* Mutant: what has an event already is not looked at again.               *)
ListedUnlinked(a) == status[a] = "open" /\ link[a] = 0

(* fetchActions                                                            *)
Listed(a) == status[a] = "open" \/ (status[a] = "cancelled" /\ link[a] # 0)

(* A token, and the rows as they are now.                                  *)
Begin ==
    /\ run.pc = "idle"
    /\ run' = [pc |-> "next", event |-> 0,
               seen |-> [a \in {b \in Actions : Listed(b)} |->
                           [status |-> status[a], text |-> text[a], link |-> link[a]]]]
    /\ UNCHANGED <<rows, active, calendar, incidents, cut, touched>>

Left == DOMAIN run.seen
Current == Min(Left)
Seen == run.seen[Current]
Acceptable == <<Current, Seen.text>> \notin Refused

At(pc) == run.pc = pc /\ Left # {}
GoOn(pc, event) == run' = [run EXCEPT !.pc = pc, !.event = event]
Done == run' = [run EXCEPT !.pc = "next", !.seen = Restrict(@, Left \ {Current}), !.event = 0]

(* DELETE, which may find the event gone.                                  *)
DeleteEvent ==
    /\ At("next") /\ Seen.status = "cancelled"
    /\ calendar' = [calendar EXCEPT ![Seen.link].there = FALSE]
    /\ GoOn("forget", Seen.link)
    /\ UNCHANGED <<rows, active, incidents, cut, touched>>

ForgetProjection ==
    /\ At("forget")
    /\ active' = active \ {run.event}
    /\ Done
    /\ UNCHANGED <<rows, calendar, incidents, cut, touched>>

(* POST, for an action without an event or whose event is gone.            *)
PostEvent ==
    /\ \/ At("next") /\ Seen.status = "open" /\ Seen.link = 0
       \/ At("recreate")
    /\ Acceptable
    /\ calendar' = Append(calendar, [of |-> Current, there |-> TRUE, text |-> Seen.text])
    /\ GoOn("record", Len(calendar) + 1)
    /\ UNCHANGED <<rows, active, incidents, cut, touched>>

(* Mutant: the id of the next event is recorded.                           *)
RecordNext ==
    /\ At("record")
    /\ link' = [link EXCEPT ![Current] = run.event + 1]
    /\ status' = [status EXCEPT ![Current] = "open"]
    /\ GoOn("project", run.event)
    /\ UNCHANGED <<text, active, calendar, incidents, cut, touched>>

(* updateAction: the action becomes scheduled, whatever it is by now.      *)
RecordEvent ==
    /\ At("record")
    /\ link' = [link EXCEPT ![Current] = run.event]
    /\ status' = [status EXCEPT ![Current] = "open"]
    /\ GoOn("project", run.event)
    /\ UNCHANGED <<text, active, calendar, incidents, cut, touched>>

(* What the calendar has under the id.                                     *)
Answered == calendar[Seen.link]

(* Mutant: any error of the GET counts as an event that is gone.           *)
GetEventOrNot ==
    /\ At("next") /\ Seen.status = "open" /\ Seen.link # 0
    /\ \/ Answered.text = Seen.text /\ GoOn("project", Seen.link)
       \/ GoOn("patch", Seen.link)
       \/ GoOn("recreate", 0)
    /\ UNCHANGED <<rows, active, calendar, incidents, cut, touched>>

(* GET.  Only HTTP 404 makes the event anew.  The calendar may also answer *)
(* for a deleted event, with its details and the status cancelled, which   *)
(* the run does not look at.  The details are compared as strings, so that *)
(* two ways to write a time make a PATCH that changes nothing.             *)
GetEvent ==
    /\ At("next") /\ Seen.status = "open" /\ Seen.link # 0
    /\ \/ Answered.text = Seen.text /\ GoOn("project", Seen.link)
       \/ GoOn("patch", Seen.link)
       \/ ~Answered.there /\ GoOn("recreate", 0)
    /\ UNCHANGED <<rows, active, calendar, incidents, cut, touched>>

(* PATCH.  It has no status: a deleted event, if the calendar lets it be   *)
(* changed, stays deleted.                                                 *)
PatchEvent ==
    /\ At("patch") /\ Acceptable
    /\ calendar' = [calendar EXCEPT ![run.event].text = Seen.text]
    /\ GoOn("project", run.event)
    /\ UNCHANGED <<rows, active, incidents, cut, touched>>

(* upsertProjection                                                        *)
Project ==
    /\ At("project")
    /\ active' = active \cup {run.event}
    /\ Done
    /\ UNCHANGED <<rows, calendar, incidents, cut, touched>>

(* The counts are stored.                                                  *)
Finish ==
    /\ run.pc = "next" /\ Left = {}
    /\ run' = Idle
    /\ touched' = {}
    /\ UNCHANGED <<rows, active, calendar, incidents, cut>>

(* The calendar turns the event down, or answers the GET of a deleted one  *)
(* with HTTP 410 or its PATCH with an error: the run ends, and what comes  *)
(* after this action is not reached.                                       *)
Rejected ==
    /\ \/ At("next") /\ Seen.status = "open" /\ Seen.link = 0 /\ ~Acceptable
       \/ At("next") /\ Seen.status = "open" /\ Seen.link # 0 /\ ~Answered.there
       \/ At("recreate") /\ ~Acceptable
       \/ At("patch") /\ ~(Acceptable /\ Answered.there)
    /\ run' = Idle
    /\ touched' = {}
    /\ UNCHANGED <<rows, active, calendar, incidents, cut>>

(* Any request or statement fails, or the process dies.                    *)
Fails ==
    /\ run.pc # "idle" /\ incidents < MaxIncidents
    /\ run' = Idle
    /\ incidents' = incidents + 1
    /\ cut' = IF At("record") THEN cut \cup {Current} ELSE cut
    /\ touched' = {}
    /\ UNCHANGED <<rows, active, calendar>>

-----------------------------------------------------------------------------

CRWork == \/ Begin \/ DeleteEvent \/ ForgetProjection
          \/ PostEvent \/ RecordEvent
          \/ GetEvent \/ PatchEvent \/ Project
          \/ Finish \/ Rejected

CRNext == \/ \E a \in Actions : Create(a) \/ Edit(a) \/ \E end \in {"cancelled", "done"} : Close(a, end)
          \/ \E id \in DOMAIN calendar : DeleteByHand(id)
          \/ CRWork \/ Fails

(* The loop goes on for ever.                                              *)
CRSpec == CRInit /\ [][CRNext]_CRVars /\ WF_CRVars(CRWork)

-----------------------------------------------------------------------------
(* Properties                                                              *)

Links == DOMAIN calendar \cup {0}
CalendarEvents == [of : Actions, there : BOOLEAN, text : 0..MaxEdits]
SeenRows == [status : {"open", "cancelled"}, text : 0..MaxEdits, link : Links]

CRTypeOK ==
    /\ status \in [Actions -> {"none", "open", "cancelled", "done"}]
    /\ text \in [Actions -> 0..MaxEdits] /\ link \in [Actions -> Links]
    /\ active \subseteq DOMAIN calendar
    /\ calendar \in Seq(CalendarEvents)
    /\ run.pc \in {"idle", "next", "forget", "record", "recreate", "patch", "project"}
    /\ run.event \in Links
    /\ Left \subseteq Actions
    /\ \A a \in Left : run.seen[a] \in SeenRows
    /\ incidents \in 0..MaxIncidents /\ cut \subseteq Actions /\ touched \subseteq Actions

(* Every event in the calendar is the one its action names, so that later  *)
(* runs can change and remove it: no second one is made of an action that  *)
(* is changed, cancelled or loses its event, at any time of the run.  Only *)
(* a run that ended between the POST and the record leaves one behind      *)
(* (google-calendar-reconcile.mjs 152-173).                                *)
EventsAccounted ==
    \A id \in DOMAIN calendar :
        calendar[id].there =>
            \/ link[calendar[id].of] = id
            \/ run.pc = "record" /\ run.event = id
            \/ calendar[id].of \in cut

(* The action, the details of its event and the projection agree.          *)
Agrees(a) == link[a] # 0 /\ link[a] \in active /\ calendar[link[a]].text = text[a]

Published(a) == Agrees(a) /\ calendar[link[a]].there

Pending(a) ==
    \/ status[a] = "open" /\ ~Published(a)
    \/ status[a] = "cancelled" /\ link[a] # 0
       /\ (calendar[link[a]].there \/ link[a] \in active)

(* Its event was deleted, and the calendar still answers for it.           *)
Mistaken(a) == status[a] = "open" /\ Agrees(a) /\ ~calendar[link[a]].there

(* Each run stops at the first action the calendar turns down, and may stop*)
(* at one whose event has been deleted.                                    *)
Reached(a) ==
    \A b \in 1..a : status[b] = "open" =>
        <<b, text[b]>> \notin Refused /\ (link[b] # 0 => calendar[link[b]].there)

(* An open action is in the calendar as it is now some day, a cancelled one*)
(* is not, and its projection says so, whatever happened to the runs       *)
(* before and however often it was changed during one; unless an action    *)
(* not after it is turned down, or has lost its event                      *)
(* (google-calendar-reconcile.mjs 135-186).                                *)
SettledEventually ==
    \A a \in Actions : (Pending(a) /\ Reached(a)) ~> (~Pending(a) \/ ~Reached(a))

(* A run that gets through leaves every action settled, whatever earlier   *)
(* runs have left behind, except those people changed while it ran.  What  *)
(* it takes for settled may lack its event only when that was deleted, and *)
(* then all the rest agrees (google-calendar-reconcile.mjs 134-186).       *)
RunSettles == [][Finish => \A a \in Actions \ touched : Pending(a) => Mistaken(a)]_CRVars

(* What the code does not keep.                                            *)

(* An open action whose event was deleted has one again when a run got     *)
(* through.  Only HTTP 404 makes it anew: an event the calendar returns as *)
(* cancelled is projected as active, and HTTP 410, which the DELETE        *)
(* tolerates, ends every run (google-calendar-reconcile.mjs 139, 165-185). *)
DeletedIsMadeAgain ==
    [][Finish => \A a \in Actions \ touched : ~Mistaken(a)]_CRVars

(* An action that has been closed stays closed.  When it is cancelled or   *)
(* done while its event is being made, the record makes it scheduled again *)
(* (google-calendar-reconcile.mjs 155, 169).                               *)
ClosedStaysClosed ==
    [][\A a \in Actions : status[a] \in {"cancelled", "done"} => status'[a] = status[a]]_status
=============================================================================
