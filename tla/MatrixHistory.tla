--------------------------- MODULE MatrixHistory ---------------------------
(***************************************************************************)
(* How the Matrix client brings the history of a room into the database:   *)
(* mode ingest_live_history over the SDK and mode recover_http over plain  *)
(* HTTP (src/liferadar-matrix/src/main.rs).                                *)
(*                                                                         *)
(* Rooms do not share anything but the order in which a run visits them,   *)
(* so one room is modelled.  A message is its position in that room; sent  *)
(* gives each the time its origin server stamped on it.  Two marks let a   *)
(* run resume: the sync token, in the database and in the session file,    *)
(* and the checkpoint in the metadata of the room's conversation.  A run   *)
(* is a process of its own, and a second one may be started beside it.     *)
(***************************************************************************)
EXTENDS Integers, Sequences

CONSTANTS
    Runs,       \* processes that may ingest at the same time
    Silent,     \* positions of events that should_ingest_event turns away
    MaxSent,    \* bound: how many events the room gets
    MaxTime,    \* bound: the latest time stamp
    Tick,       \* time stamps per second: a checkpoint holds whole seconds
    PageSize,   \* events in a page of history
    SyncLimit   \* events of a room in a sync response

ASSUME HistoryAssumption ==
    /\ MaxSent \in Nat /\ MaxTime \in Nat
    /\ Silent \subseteq Nat
    /\ Tick \in Nat \ {0} /\ PageSize \in Nat \ {0} /\ SyncLimit \in Nat \ {0}

Modes == {"sdk", "http"}

VARIABLES
    sent,       \* the time stamps of the room's events, in the room's order
    token,      \* matrix_sync_checkpoint in the database: events it covers
    fileToken,  \* next_batch in the session file
    conv,       \* the conversation's row: last_event_at and room checkpoint
    rows,       \* events that have a row
    attached,   \* rows that belong to the conversation
    run,        \* the state of each run
    torn        \* auxiliary: a run left off or failed between its two writes

vars == <<sent, token, fileToken, conv, rows, attached, run, torn>>

----------------------------------------------------------------------------
(* No token, no checkpoint and no row are 0, which precedes every time     *)
(* stamp and every event: a sync since 0 is a full one, a cut at 0 none.   *)

Positions == 1..Len(sent)
Wanted == Positions \ Silent

WholeSecondsUp(t) == IF t % Tick = 0 THEN t ELSE t + Tick - (t % Tick)

(* occurred_at keeps milliseconds, iso_to_unix_ms cuts them off. *)
WholeSeconds(t) == t - (t % Tick)

(* The time of the last of a batch in the order of occurred_at. *)
LatestIn(batch) ==
    LET times == {sent[n] : n \in batch}
    IN  CHOOSE t \in times : \A u \in times : u <= t

(* last_event_at only grows: greatest(...). *)
Later(t, u) == IF t > u THEN t ELSE u

(* fetch_persisted_room_state: the checkpoint, or else last_event_at. *)
Cut == IF conv.mark # 0 THEN conv.mark ELSE conv.last

HasRow == conv.last # 0

NoRun == [mode |-> "sdk", pc |-> "idle", tries |-> {}, batch |-> 0,
          joined |-> FALSE, cutoff |-> 0, top |-> 0, at |-> 0,
          got |-> {}, todo |-> {}, clean |-> TRUE]

Ended == [NoRun EXCEPT !.pc = "done"]

Init == /\ sent = << >>
        /\ token = 0 /\ fileToken = 0
        /\ conv = [mark |-> 0, last |-> 0]
        /\ rows = {} /\ attached = {}
        /\ run = [p \in Runs |-> NoRun]
        /\ torn = FALSE

At(p, pc) == run[p].pc = pc

database == <<conv, rows, attached>>
marks == <<token, fileToken>>

----------------------------------------------------------------------------
(* The homeserver.  An event is appended with the time its sender's server *)
(* gave it, which may be earlier than that of events before it.            *)

Send(t) ==
    /\ Len(sent) < MaxSent
    /\ sent' = Append(sent, t)
    /\ UNCHANGED <<marks, database, run, torn>>

----------------------------------------------------------------------------
(* The way to the sync token, the same in both modes.                      *)

(* The session file is read first; nothing survives from an earlier run.   *)
Start(p, mode) ==
    /\ run[p].pc \in {"idle", "done"}
    /\ run' = [run EXCEPT ![p] = [NoRun EXCEPT !.mode = mode, !.pc = "load",
                                               !.tries = {fileToken}]]
    /\ UNCHANGED <<sent, marks, database, torn>>

(* The attempts are the database's token, the file's and a full sync. *)
LoadCheckpoint(p) ==
    /\ At(p, "load")
    /\ run' = [run EXCEPT ![p].pc = "sync", ![p].tries = @ \cup {token, 0}]
    /\ UNCHANGED <<sent, marks, database, torn>>

(* Any attempt but the one that succeeds may fail.  The SDK ingests the    *)
(* rooms its store knows; recover_http the rooms of the response, with the *)
(* newest events since the token.                                          *)
Sync(p) ==
    /\ At(p, "sync")
    /\ \E since \in run[p].tries :
         run' = [run EXCEPT ![p] = [@ EXCEPT
                    !.pc = "save",
                    !.tries = {},
                    !.batch = Len(sent),
                    !.joined = run[p].mode = "sdk" \/ since = 0 \/ since < Len(sent),
                    !.todo = IF run[p].mode = "sdk" THEN {}
                             ELSE {n \in Wanted : /\ n > since
                                                  /\ n > Len(sent) - SyncLimit}]]
    /\ UNCHANGED <<sent, marks, database, torn>>

SaveCheckpoint(p) ==
    /\ At(p, "save")
    /\ token' = run[p].batch
    /\ run' = [run EXCEPT ![p].pc = "file"]
    /\ UNCHANGED <<sent, fileToken, database, torn>>

SaveSession(p) ==
    /\ At(p, "file")
    /\ fileToken' = run[p].batch
    /\ run' = [run EXCEPT ![p] =
                   IF run[p].mode = "sdk" THEN [@ EXCEPT !.pc = "state", !.joined = FALSE, !.batch = 0]
                   ELSE IF run[p].todo # {} THEN [@ EXCEPT !.pc = "room", !.joined = FALSE]
                   ELSE IF run[p].joined THEN [@ EXCEPT !.pc = "latest", !.joined = FALSE]
                   ELSE Ended]
    /\ UNCHANGED <<sent, token, database, torn>>

----------------------------------------------------------------------------
(* recover_http: the timeline of the sync response, event by event.  Both  *)
(* writes are tried and neither failure stops the run.                     *)

NextInTimeline(p) == CHOOSE n \in run[p].todo : \A m \in run[p].todo : n <= m

TimelineRoom(p) ==
    /\ At(p, "room")
    /\ \/ conv' = [conv EXCEPT !.last = Later(@, sent[NextInTimeline(p)])]
       \/ UNCHANGED conv
    /\ run' = [run EXCEPT ![p].pc = "event"]
    /\ UNCHANGED <<sent, marks, rows, attached, torn>>

(* Writing a row looks the conversation up; without one the row has none.  *)
Store(n) ==
    /\ rows' = rows \cup {n}
    /\ attached' = IF HasRow THEN attached \cup {n} ELSE attached \ {n}

TimelineEvent(p) ==
    /\ At(p, "event")
    /\ LET n == NextInTimeline(p) IN
         /\ Store(n) \/ UNCHANGED <<rows, attached>>
         /\ run' = [run EXCEPT ![p].todo = @ \ {n},
                               ![p].pc = IF run[p].todo = {n} THEN "latest" ELSE "room"]
    /\ UNCHANGED <<sent, marks, conv, torn>>

----------------------------------------------------------------------------
(* The SDK reads the room's checkpoint; a room that has undecrypted rows   *)
(* may be due for reprocessing, which ignores it.                          *)

ReadState(p) ==
    /\ At(p, "state")
    /\ \E cutoff \in {Cut} \cup {c \in {0} : attached # {}} :
         run' = [run EXCEPT ![p].pc = "latest", ![p].cutoff = cutoff]
    /\ UNCHANGED <<sent, marks, database, torn>>

LastPageUnfloored(from, page, cutoff) == \E n \in page : sent[n] <= cutoff

LastPageTooSoon(from, page, cutoff) == from <= PageSize \/ \E n \in page : sent[n] >= cutoff

(* The beginning of the room, or an event at or before the cutoff. *)
LastPage(from, page, cutoff) == from <= PageSize \/ \E n \in page : sent[n] <= cutoff

(* A page backwards from the newest event or from where the last page      *)
(* ended.  A page that reaches the cutoff is the last.                     *)
FetchPage(p) ==
    /\ run[p].pc \in {"latest", "page"}
    /\ LET r == run[p]
           from == IF r.pc = "latest" THEN Len(sent) ELSE r.at
           page == {n \in 1..from : n > from - PageSize}
           got == r.got \cup {n \in page \ Silent : sent[n] > r.cutoff}
           ended == LastPage(from, page, r.cutoff)
       IN  run' = [run EXCEPT ![p] =
                      IF ended /\ got = {} THEN Ended
                      ELSE [r EXCEPT !.pc = IF ended THEN "conv" ELSE "page",
                                     !.top = IF r.pc = "latest" THEN from ELSE @,
                                     !.at = IF ended THEN 0 ELSE from - PageSize,
                                     !.got = got]]
    /\ UNCHANGED <<sent, marks, database, torn>>

(* A failed page loses the SDK's walk.  The HTTP walk loses it when no     *)
(* answer comes, and keeps what it has when the answer is an error.        *)
FetchFails(p) ==
    /\ run[p].pc \in {"latest", "page"}
    /\ \/ run' = [run EXCEPT ![p] = [Ended EXCEPT !.clean = FALSE]]
       \/ /\ run[p].mode = "http" /\ run[p].got # {}
          /\ run' = [run EXCEPT ![p].pc = "conv", ![p].at = 0, ![p].clean = FALSE]
    /\ torn' = (torn \/ run[p].mode = "http")
    /\ UNCHANGED <<sent, marks, database>>

(* The conversation's row, with the checkpoint in its metadata if the SDK  *)
(* writes it.  A failure goes unnoticed.                                   *)
UpsertConversation(p) ==
    /\ At(p, "conv")
    /\ LET latest == LatestIn(run[p].got) IN
         \/ /\ conv' = [mark |-> IF run[p].mode = "sdk" THEN WholeSeconds(latest)
                                 ELSE conv.mark,
                        last |-> Later(conv.last, latest)]
            /\ UNCHANGED torn
         \/ UNCHANGED <<conv, torn>>
    /\ run' = [run EXCEPT ![p] = [@ EXCEPT
                   !.pc = "events", !.cutoff = 0, !.top = 0, !.got = {}, !.todo = run[p].got]]
    /\ UNCHANGED <<sent, marks, rows, attached>>

(* The rows of the batch in the order of occurred_at; failures go          *)
(* unnoticed here too.                                                     *)
UpsertEvent(p) ==
    /\ At(p, "events")
    /\ \E n \in run[p].todo :
         /\ \A m \in run[p].todo : sent[n] <= sent[m]
         /\ \/ /\ Store(n)
               /\ run' = [run EXCEPT ![p].todo = @ \ {n}]
               /\ UNCHANGED torn
            \/ /\ run' = [run EXCEPT ![p].todo = @ \ {n}, ![p].clean = FALSE]
               /\ torn' = TRUE
               /\ UNCHANGED <<rows, attached>>
    /\ UNCHANGED <<sent, marks, conv>>

Finish(p) ==
    /\ At(p, "events")
    /\ run[p].todo = {}
    /\ run' = [run EXCEPT ![p] = [Ended EXCEPT !.clean = run[p].clean]]
    /\ UNCHANGED <<sent, marks, database, torn>>

(* A recovery that writes rooms it has not yet walked. *)
Recovering(p) == /\ run[p].mode = "http"
                 /\ run[p].pc \in {"room", "event", "latest", "page", "conv"}

(* The process dies, or an error is returned up to main. *)
Abandon(p) ==
    /\ run[p].pc \notin {"idle", "done"}
    /\ run' = [run EXCEPT ![p] = NoRun]
    /\ torn' = (torn \/ Recovering(p) \/ (At(p, "events") /\ run[p].todo # {}))
    /\ UNCHANGED <<sent, marks, database>>

----------------------------------------------------------------------------

Step(p) == \/ LoadCheckpoint(p) \/ Sync(p) \/ SaveCheckpoint(p) \/ SaveSession(p)
           \/ TimelineRoom(p) \/ TimelineEvent(p)
           \/ ReadState(p) \/ FetchPage(p) \/ FetchFails(p)
           \/ UpsertConversation(p) \/ UpsertEvent(p) \/ Finish(p)

Next == \/ \E t \in Tick..MaxTime : Send(t)
        \/ \E p \in Runs, mode \in Modes : Start(p, mode)
        \/ \E p \in Runs : Step(p) \/ Abandon(p)

Spec == Init /\ [][Next]_vars

----------------------------------------------------------------------------
(* Properties.                                                             *)

RunStates == [mode : Modes,
              pc : {"idle", "load", "sync", "save", "file", "room", "event", "state",
                    "latest", "page", "conv", "events", "done"},
              tries : SUBSET Nat, batch : Nat, joined : BOOLEAN,
              cutoff : Nat, top : Nat, at : Nat,
              got : SUBSET Positions, todo : SUBSET Positions, clean : BOOLEAN]

TypeOK ==
    /\ sent \in Seq(Tick..MaxTime)
    /\ token \in Nat /\ fileToken \in Nat
    /\ conv \in [mark : Nat, last : Nat]
    /\ attached \subseteq rows /\ rows \subseteq Positions
    /\ run \in [Runs -> RunStates]
    /\ torn \in BOOLEAN

(* Some event came with a time stamp no later than that of one before it.  *)
Late == \E m, n \in Positions : m < n /\ sent[n] <= sent[m]

(* The walk through the history (fetch_room_history, 1910-1963) brings     *)
(* everything after the cutoff, although it ends at the first page that    *)
(* reaches back to it.  Only an event with an old time stamp can end it    *)
(* too early, and never when a room is reprocessed from the beginning.     *)
WalkExact ==
    \A p \in Runs :
        At(p, "conv") /\ run[p].mode = "sdk" /\ (Late => run[p].cutoff = 0)
            => run[p].got = {n \in 1..run[p].top \ Silent : sent[n] > run[p].cutoff}

(* Run p is about to write event n, or is a recovery that will come to it. *)
Pending(p, n) == \/ At(p, "events") /\ n \in run[p].todo
                 \/ Recovering(p) /\ (run[p].pc \in {"page", "conv"} => n <= run[p].top)

(* The next run looks for nothing up to the checkpoint.  As long as no run *)
(* has left off or failed between the conversation and its events          *)
(* (1722-1755) and no event came late, everything up to there has a row    *)
(* that belongs to the conversation, or a run will still write it.         *)
SkipsExplained ==
    ~torn /\ ~Late =>
        \A n \in Wanted : sent[n] <= Cut => n \in attached \/ \E p \in Runs : Pending(p, n)

(* The checkpoint in the metadata and last_event_at are written by both    *)
(* modes and by overlapping runs; the checkpoint never claims more than    *)
(* the conversation shows (3166, 3409).                                    *)
MarkBehindLast == conv.mark <= conv.last

(* A recovery that comes to its end and met no failure has every event the *)
(* homeserver had sent when it synced (README.md:57).                      *)
RecoveryRecovers ==
    [][\A p \in Runs :
          run[p].mode = "http" /\ run[p].pc # "done" /\ run'[p].pc = "done" /\ run'[p].clean
              => 1..run[p].batch \ Silent \subseteq rows]_vars
=============================================================================
