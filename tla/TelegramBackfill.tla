--------------------------- MODULE TelegramBackfill ---------------------------
(***************************************************************************)
(* How the Telegram connector of the chat gateway                          *)
(* (chat-gateway/src/providers/telegram.mjs) brings messages into the      *)
(* database: the paged backfill of every dialog, its durable high-water    *)
(* mark, the handler of live updates, and what failures and restarts do to *)
(* them.  start() runs a backfill, and so does each finished login, while  *)
(* another may still be running.                                           *)
(*                                                                         *)
(* An action is the code from one await to the next.  Every awaited call   *)
(* to Telegram or to the database may throw, which ends its run, and the   *)
(* process may die at any time.  All runs are for one account.             *)
(*                                                                         *)
(* Left out: the login itself, the account row, excluded dialogs (never    *)
(* read, never stored), and accounts with more dialogs than getDialogs     *)
(* returns.  A message is its position in its dialog.                      *)
(***************************************************************************)
EXTENDS Integers

CONSTANTS
    Dialogs,
    Runs,       \* the backfills that may be under way at a time
    Startup,    \* the one that start() runs
    MaxId,      \* bound: the messages a dialog comes to hold
    PageSize,   \* the messages asked for in a call (100)
    Limit,      \* LIFERADAR_CONNECTOR_BACKFILL_LIMIT_PER_CHAT
    Service,    \* the positions of service messages, which are not stored
    None

ASSUME BackfillAssumption ==
    /\ Startup \in Runs
    /\ MaxId \in Nat \ {0} /\ PageSize \in Nat \ {0} /\ Limit \in Nat
    /\ Service \subseteq Nat
    /\ None \notin Dialogs \cup (Dialogs \X Nat)

VARIABLES
    sent,       \* sent[d]: Telegram holds the messages 1..sent[d]
    \* the database
    rows,       \* rows[d]: the stored message events
    cursor,     \* cursor[d]: the checkpoint dialog:<d>, 0 before there is one
    liveCursor, \* the checkpoint live_cursor
    \* the process
    run,        \* run[r]: the local variables of #backfill; its page holds
                \* the messages low..high, of which it stores next
    live,       \* the handler of live updates is attached
    arriving,   \* live messages being stored
    marking,    \* live messages stored, their checkpoint not yet written
    \* auxiliary
    cut         \* the dialogs some run has left early

vars == <<sent, rows, cursor, liveCursor, run, live, arriving, marking, cut>>

Ids      == 1..MaxId
Messages == Dialogs \X Ids
Scanning == {"fetching", "ingesting", "saving"}

Locals ==
    [pc : {"idle", "listing", "choosing", "done"} \cup Scanning,
     todo : SUBSET Dialogs, dialog : Dialogs \cup {None},
     minId : 0..MaxId, newestId : 0..MaxId, offsetId : 0..MaxId, remaining : 0..Limit,
     low : 1..MaxId, high : 0..MaxId, next : 1..MaxId + 1]

TypeOK ==
    /\ sent \in [Dialogs -> 0..MaxId]
    /\ rows \in [Dialogs -> SUBSET Ids]
    /\ cursor \in [Dialogs -> 0..MaxId]
    /\ liveCursor \in Messages \cup {None}
    /\ run \in [Runs -> Locals]
    /\ live \in BOOLEAN
    /\ arriving \subseteq Messages /\ marking \subseteq Messages
    /\ cut \subseteq Dialogs

(* Nothing remains to be done for these messages.                          *)
Handled(d) == rows[d] \cup Service

NotRunning(pc) ==
    [pc |-> pc, todo |-> {}, dialog |-> None, minId |-> 0, newestId |-> 0,
     offsetId |-> 0, remaining |-> 0, low |-> 1, high |-> 0, next |-> 1]

Init ==
    /\ sent \in [Dialogs -> 0..MaxId]
    /\ rows = [d \in Dialogs |-> {}]
    /\ cursor = [d \in Dialogs |-> 0]
    /\ liveCursor = None
    /\ run = [r \in Runs |-> NotRunning("idle")]
    /\ live = FALSE /\ arriving = {} /\ marking = {}
    /\ cut = {}

-----------------------------------------------------------------------------
(* #backfill                                                               *)

(* start() runs one backfill in the life of the process.                   *)
Ended(r) == NotRunning(IF r = Startup THEN "done" ELSE "idle")

(* The loop goes on with the next dialog.                                  *)
NextDialog(s) == [NotRunning("choosing") EXCEPT !.todo = s.todo]

Begin(r) ==
    /\ run[r].pc = "idle"
    /\ run' = [run EXCEPT ![r].pc = "listing"]
    /\ UNCHANGED <<sent, rows, cursor, liveCursor, live, arriving, marking, cut>>

(* getDialogs: the dialogs that hold a message.                            *)
ListDialogs(r) ==
    /\ run[r].pc = "listing"
    /\ run' = [run EXCEPT ![r].pc = "choosing",
                          ![r].todo = {d \in Dialogs : sent[d] > 0}]
    /\ UNCHANGED <<sent, rows, cursor, liveCursor, live, arriving, marking, cut>>

(* The checkpoint of the next dialog is read.                              *)
ReadCheckpoint(r, d) ==
    /\ run[r].pc = "choosing" /\ d \in run[r].todo
    /\ run' = [run EXCEPT ![r] =
                 [NotRunning("fetching") EXCEPT
                    !.todo = run[r].todo \ {d}, !.dialog = d, !.minId = cursor[d],
                    !.newestId = cursor[d], !.remaining = Limit]]
    /\ UNCHANGED <<sent, rows, cursor, liveCursor, live, arriving, marking, cut>>

(* Fault: the page size ignores what remains of the limit.                 *)
RequestUncapped(s) == PageSize

Request(s) == IF s.remaining < PageSize THEN s.remaining ELSE PageSize

(* getMessages: the newest messages above minId and below offsetId, if     *)
(* that is set.                                                            *)
PageHigh(s) == IF s.offsetId = 0 THEN sent[s.dialog] ELSE s.offsetId - 1

PageLow(s) ==
    LET lowest == PageHigh(s) - Request(s) + 1
    IN  IF lowest > s.minId THEN lowest ELSE s.minId + 1

FetchPage(r) ==
    LET s == run[r]
    IN  /\ s.pc = "fetching"
        /\ run' = [run EXCEPT ![r] =
                     IF s.remaining = 0 \/ PageLow(s) > PageHigh(s)
                     THEN NextDialog(s)
                     ELSE [s EXCEPT !.pc = "ingesting", !.low = PageLow(s),
                                    !.high = PageHigh(s), !.next = PageLow(s)]]
        /\ cut' = IF s.remaining = 0 THEN cut \cup {s.dialog} ELSE cut
        /\ UNCHANGED <<sent, rows, cursor, liveCursor, live, arriving, marking>>

(* ingestTelegramMessage has returned.                                     *)
Ingested(s) ==
    [s EXCEPT !.newestId = IF s.next > @ THEN s.next ELSE @,
              !.next = @ + 1,
              !.pc = IF s.next = s.high THEN "saving" ELSE @]

(* Fault: a message that cannot be stored is passed over.                  *)
IngestSwallows(r) ==
    LET s == run[r]
    IN  /\ s.pc = "ingesting"
        /\ rows' \in {rows, [rows EXCEPT ![s.dialog] = @ \cup ({s.next} \ Service)]}
        /\ run' = [run EXCEPT ![r] = Ingested(s)]
        /\ UNCHANGED <<sent, cursor, liveCursor, live, arriving, marking, cut>>

(* ingestTelegramMessage, oldest first.                                    *)
Ingest(r) ==
    LET s == run[r]
    IN  /\ s.pc = "ingesting"
        /\ rows' = [rows EXCEPT ![s.dialog] = @ \cup ({s.next} \ Service)]
        /\ run' = [run EXCEPT ![r] = Ingested(s)]
        /\ UNCHANGED <<sent, cursor, liveCursor, live, arriving, marking, cut>>

PageLength(s) == s.high - s.low + 1

(* Fault: a full page is taken for the last one.                           *)
LastPageTooSoon(s) == PageLength(s) <= Request(s)

LastPage(s) == PageLength(s) < Request(s)

(* Fault: the mark is the newest message there is, not the newest stored.  *)
HighWaterUnseen(s) == sent[s.dialog]

HighWater(s) == IF s.minId > s.newestId THEN s.minId ELSE s.newestId

(* setCheckpoint after every page, then the next page, if there is one.    *)
SaveCheckpoint(r) ==
    LET s == run[r]
    IN  /\ s.pc = "saving"
        /\ cursor' = [cursor EXCEPT ![s.dialog] = HighWater(s)]
        /\ run' = [run EXCEPT ![r] =
                     IF LastPage(s)
                     THEN NextDialog(s)
                     ELSE [s EXCEPT !.pc = "fetching", !.offsetId = s.low,
                                    !.remaining = @ - PageLength(s),
                                    !.low = 1, !.high = 0, !.next = 1]]
        /\ UNCHANGED <<sent, rows, liveCursor, live, arriving, marking, cut>>

(* The last dialog is done.  start() goes on to attach the handler of live *)
(* updates; a login does not.                                              *)
Finish(r) ==
    /\ run[r].pc = "choosing" /\ run[r].todo = {}
    /\ run' = [run EXCEPT ![r] = Ended(r)]
    /\ live' = (live \/ r = Startup)
    /\ UNCHANGED <<sent, rows, cursor, liveCursor, arriving, marking, cut>>

(* An awaited call throws and nothing catches it before start() or the     *)
(* login returns.                                                          *)
Fails(r) ==
    /\ run[r].pc \notin {"idle", "done"}
    /\ run' = [run EXCEPT ![r] = Ended(r)]
    /\ cut' = IF run[r].pc \in Scanning THEN cut \cup {run[r].dialog} ELSE cut
    /\ UNCHANGED <<sent, rows, cursor, liveCursor, live, arriving, marking>>

-----------------------------------------------------------------------------
(* Live updates                                                            *)

(* Somebody writes.  The update reaches the handler, unless it gets lost.  *)
Send(d) ==
    /\ sent[d] < MaxId
    /\ sent' = [sent EXCEPT ![d] = @ + 1]
    /\ \/ UNCHANGED arriving
       \/ live /\ arriving' = arriving \cup {<<d, sent[d] + 1>>}
    /\ UNCHANGED <<rows, cursor, liveCursor, run, live, marking, cut>>

LiveIngest(m) ==
    /\ m \in arriving
    /\ arriving' = arriving \ {m}
    /\ rows' = [rows EXCEPT ![m[1]] = @ \cup ({m[2]} \ Service)]
    /\ marking' = marking \cup {m}
    /\ UNCHANGED <<sent, cursor, liveCursor, run, live, cut>>

LiveMark(m) ==
    /\ m \in marking
    /\ marking' = marking \ {m}
    /\ liveCursor' = m
    /\ UNCHANGED <<sent, rows, cursor, run, live, arriving, cut>>

(* Fault: the failure is logged and the checkpoint written all the same.   *)
LiveFailsMarking(m) ==
    /\ m \in arriving
    /\ arriving' = arriving \ {m}
    /\ marking' = marking \cup {m}
    /\ UNCHANGED <<sent, rows, cursor, liveCursor, run, live, cut>>

(* The handler catches what is thrown: the checkpoint is not written.      *)
LiveFails(m) ==
    /\ m \in arriving \cup marking
    /\ arriving' = arriving \ {m}
    /\ marking' = marking \ {m}
    /\ UNCHANGED <<sent, rows, cursor, liveCursor, run, live, cut>>

-----------------------------------------------------------------------------
(* The gateway process dies and is started again: the database survives.   *)
Restart ==
    /\ run' = [r \in Runs |-> NotRunning("idle")]
    /\ live' = FALSE /\ arriving' = {} /\ marking' = {}
    /\ cut' = cut \cup {run[r].dialog : r \in {q \in Runs : run[q].pc \in Scanning}}
    /\ UNCHANGED <<sent, rows, cursor, liveCursor>>

Next ==
    \/ \E r \in Runs :
          \/ Begin(r) \/ ListDialogs(r) \/ \E d \in Dialogs : ReadCheckpoint(r, d)
          \/ FetchPage(r) \/ Ingest(r) \/ SaveCheckpoint(r) \/ Finish(r) \/ Fails(r)
    \/ \E d \in Dialogs : Send(d)
    \/ \E m \in Messages : LiveIngest(m) \/ LiveMark(m) \/ LiveFails(m)
    \/ Restart

Spec == Init /\ [][Next]_vars

-----------------------------------------------------------------------------
(* Properties                                                              *)

(* What a run has gone through in its dialog: the pages it has finished,   *)
(* and the part of the present one that is stored.                         *)
Passed(s) ==
    (IF s.offsetId = 0 THEN {} ELSE s.offsetId .. s.newestId) \cup s.low .. s.next - 1

(* However failures, restarts, live updates and other runs interleave with *)
(* it, a run leaves no message out between the newest and the oldest it    *)
(* has gone through.                                                       *)
ScanContiguous ==
    \A r \in Runs : run[r].pc \in Scanning => Passed(run[r]) \subseteq Handled(run[r].dialog)

(* Messages below the high-water mark are missing only from a dialog that  *)
(* some run has left early: it failed, the process died, or the limit was  *)
(* reached.  Two runs that read and move the mark of one dialog at the     *)
(* same time do not do it, nor does a live update that gets lost.          *)
GapsAreCuts ==
    \A d \in Dialogs \ cut :
        (\A r \in Runs : run[r].dialog # d) => 1..cursor[d] \subseteq Handled(d)

(* "Telegram live ingest failed; checkpoint unchanged": live_cursor, which *)
(* concurrent updates overwrite in any order, names a stored message.      *)
LiveCursorStored ==
    liveCursor # None => liveCursor[2] \in Handled(liveCursor[1])

(* The checkpoint of a dialog is the mark of a durable ingest.             *)
Ingester == INSTANCE DurableIngest
    WITH Streams <- Dialogs, handled <- [d \in Dialogs |-> Handled(d)], mark <- cursor

DurableIngestSpec == Ingester!Spec

(* What the code says of itself and does not keep.                         *)

(* "a crash mid-loop resumes from the last persisted cursor": whatever has *)
(* happened, what lies below the mark of a dialog that no run is scanning  *)
(* has been fetched (for a limit no dialog reaches).                       *)
NothingSkipped ==
    \A d \in Dialogs :
        (\A r \in Runs : run[r].dialog # d) => 1..cursor[d] \subseteq Handled(d)

(* "... and never regresses": the mark of a dialog is never lowered.       *)
CursorMonotone == [][\A d \in Dialogs : cursor'[d] >= cursor[d]]_cursor
=============================================================================
