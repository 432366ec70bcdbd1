# LifeRadar: specifications, model checks and proofs

LifeRadar collects messages, mail and calendar entries into one PostgreSQL
database and offers them, with tasks and a derived *needs state*, through an HTTP
API and an MCP server. This directory holds TLA+ models of its stateful parts,
the TLC configurations that check them on small instances, and TLAPS proofs of
the properties that matter most, for instances of every size.

Every definition was translated from the source; `PROJECT.json` maps it to the
lines it stands for. In what follows paths are relative to `src/`.

## 1. The system

| Component | State it keeps | Operations | Talks to |
|---|---|---|---|
| Chat gateway server, `chat-gateway/server.mjs` | map of connectors | login, submit, status, logout, startup recovery | connectors (calls), API (HTTP) |
| WhatsApp connector, `providers/whatsapp.mjs` | socket, build in flight, reconnect timer, `stopped`, attempts; session directory; `history_sync` checkpoint | start, beginLogin, logout, build, reconnect, Baileys' events | Baileys, database |
| Telegram connector, `providers/telegram.mjs` | client, QR clients, code hints, session; `dialog:<id>` and `live_cursor` checkpoints | start, QR and code login, backfill, live updates, logout | gramjs, database |
| Signal connector, `providers/signal.mjs`, `signal-client.mjs` | client, reconnect timer, `stopped`, attempts; `signal.session` | start, pairing and its polls, receive stream, reconnect, logout | allowlist proxy, database |
| Signal proxy, `signal-proxy.mjs` | none | decide on a request, relay it | sidecar |
| Gateway database layer, `db.mjs` | rows | idempotent upserts, checkpoints, purge | PostgreSQL |
| Matrix client, `liferadar-matrix/src/` | session file, crypto store, sync checkpoint, room checkpoints | sync, history, healing, key import, verification, send | homeserver, database, bridge |
| Matrix bridge, `api/matrix_bridge.py` | verification attempts, child process | start, monitor, confirm, send | Matrix client (pipes) |
| API, `api/main.py`, `api/db.py` | pool, Matrix session file | reads, tasks, calendar, sessions, verification proxy | database, bridge, gateway |
| MCP server, `mcp-server/server.py` | Outlook child, request pipe | tools | API, Outlook MCP |
| Outlook sync, `bin/graph-sync-mail.mjs` | tokens, delta link | delta pages, upserts, removals | Graph, database |
| Google calendar, `bin/google-calendar-*.mjs` | action queue, projections | ingest, reconcile | Google, database |
| Triage scripts, `bin/derive-needs-state.sh` and others | needs state, notes, memory | sequences of SQL statements | database |
| Probe loop, `bin/run-probes.sh` | none | runs the probes in turn, for ever | all of the above |

The parts share the database and a few files. In one process (the gateway, the
API, the MCP server) handlers interleave at every await; between processes there
is no lock: two probes, a probe and the API, or a gateway before and after a
restart meet only in rows and files.

What is hard in each, and what makes it correct:

* **Connectors.** A reconnect timer, a startup recovery, logins, logouts and the
  provider's events share a handful of fields across awaits. Correct: one
  connection per pairing, no timer the connector has forgotten, a lost connection
  is rebuilt, a logout ends it all, an attempt reports what happened.
* **Ingest** (Telegram, WhatsApp history, Matrix, Graph). A durable mark tells
  the next run where to resume, and crashes, failures and overlapping runs come
  between storing and marking. Correct: nothing below the mark is missing, the
  mark never goes back, failures do not move it.
* **Matrix session and verification.** A session file and a crypto store with
  several writers, a dialogue with a child process over pipes. Correct: what is
  on disk belongs together and is current, a report says what happened, a refusal
  holds.
* **Matrix keys and sends.** Messages wait for keys that come later and by several
  ways; a room is replaced under a conversation. Correct: what can be read is read
  in the end, text goes to the chat it was meant for, and moving a conversation
  hides nothing.
* **Calendar reconcile.** Remote effects and local records are not atomic.
  Correct: an action has one event, and the calendar agrees with it in the end.
* **Triage.** Statements commit one by one. Correct: the derived state is one
  that some single state of the messages justifies.
* **MCP proxy, pool.** Check-then-await and a shared pipe. Correct: an answer
  reaches the caller who asked, one pool lives.

`PROJECT.json` lists the components with their status, and the hazards with
their lines and the properties that cover them.

## 2. The modules

| Module | Models |
|---|---|
| `ConnectionSupervisor` | abstract: what a self-reconnecting connector promises |
| `WhatsAppConnector`, `WhatsAppConnectorProofs` | `whatsapp.mjs` life cycle; implements `ConnectionSupervisor` |
| `SignalConnector`, `SignalConnectorProofs` | `signal.mjs` life cycle and pairing; implements `ConnectionSupervisor` |
| `DurableIngest` | abstract: what a resuming ingester promises |
| `TelegramBackfill`, `TelegramBackfillProofs` | `telegram.mjs` backfill and live updates; implements `DurableIngest` |
| `MatrixHistory`, `MatrixHistoryProofs`, `MCMatrixHistory` | a room's history in `main.rs`: sync, walk, upserts, both modes |
| `MatrixHealing`, `MCMatrixHealing` | the worker's loop around it: key import, rooms to reprocess, placeholders and their text |
| `MatrixIdentity`, `MatrixIdentityProofs`, `MCMatrixIdentity` | session file, crypto store and import marker, shared by processes and API |
| `VerificationVerdict` | abstract: what the user of a verification is promised of its verdict |
| `MatrixVerification`, `MatrixVerificationProofs` | `matrix_bridge.py` and its child in one device verification; implements `VerificationVerdict` |
| `MatrixSend`, `MatrixSendProofs`, `MCMatrixSend` | `POST /send`, its way around a replaced room, and the move of the conversation |
| `CalendarReconcile`, `MCCalendarReconcile` | `bin/google-calendar-reconcile.mjs` beside people and failing runs |
| `WorkerLoopProofs` | the proofs about two steps of the worker's loop, `MatrixHealing` and `CalendarReconcile` |

The Matrix modules divide one program. `MatrixHistory` treats the choice of the
rooms to reprocess as free, `MatrixHealing` makes it and leaves the walk out;
`MatrixHealing` imports keys with a marker that does what it claims,
`MatrixIdentity` shows when it does; `MatrixSend` lets ingest write the rows of
one room at any time, as `MatrixHistory` shows it may.

### Plan

In this order, by how much depends on the behaviour:

1. Abstract specifications of the other components (a send with its move, a run of
   the reconciliation) and the proofs that these implement them.
2. `GraphMailSync`: delta pages, the link stored last, the rotated token
   (`bin/graph-sync-mail.mjs`).
3. `WhatsAppHistory`: the shared `history_sync` checkpoint; a second, failing,
   candidate for `DurableIngest`.
4. `Triage` (needs state, note capture), `SignalProxy` (the route decision against
   the table of `docs/signal-connector.md`), `OutlookMcp`, `DbPool`,
   `TelegramLogin`.

Only so many runs are worth keeping: where a run that shows a divergence has
been understood, a later module takes its place, and the property stays stated in
its module under "does not keep" (see the end of section 4). Runs stay below five
minutes: two actors of each kind, streams of three or four messages, one failure
at any point.

## 3. How the models correspond to the code

JavaScript runs one segment at a time. An action is the code from one await to
the next: its guard is what the segment tests, its primed variables what it
assigns, and whatever it awaits completes in a later action. Between the two any
other segment may run. `pc`-like variables (`startPc`, `loginPc`, `poll`, `run`)
say where a suspended function stands; sets or counters (`closing`, `firing`,
`reading`) hold handlers suspended in the same place. Awaited calls that may
throw have a failing outcome, which takes the way the code's `catch`, or its
absence, gives it. `Restart` clears what lives in memory and keeps what is on
disk or in the database.

### WhatsAppConnector

Sockets are objects with a phase (building, connecting, open, closed); a closed
one that no handler runs for may be reused, so three of them stand for any
number in a row. `connecting` is the promise in `this.connecting`; everybody who
awaits it is resumed in the action that ends the build, because promise
callbacks run before the next event. `End` is Baileys' `socket.end()`: it reports
one close to the handlers, which first await the account row and only then touch
`this.socket`; that gap is `closing`. `user` holds the sockets whose credentials
are paired, which is what `beginLogin` tests to decide whether to reuse one.

Left out: messages and history (planned), the account row, which the life cycle
never reads, the length of the back-off.

### TelegramBackfill

A dialog is a sequence of positions; `sent` is how many messages Telegram holds,
`rows` those in the database, `cursor` the checkpoint. A run's local variables
are the record `run[r]`: `minId`, `newestId`, `offsetId`, `remaining` are those of
`#backfill`, and a page is an interval `low..high` stored oldest first up to
`next`. `Service` are the messages `ingestTelegramMessage` passes over. Every
awaited call may fail (`Fails`) and the process may die at any point. `cut` is an
auxiliary variable: the dialogs some run has left before their end.

Left out: the login, excluded dialogs, more dialogs than `getDialogs` returns,
deleted and edited messages.

### SignalConnector

The connector as `server.mjs` makes it, without an injected client: opening a
stream then takes no await. `receiving[s]` is the account of a stream until it is
closed. `reading` counts the timer callbacks suspended in `#readSession`. A poll
(`submitLoginStep`) awaits the sidecar's accounts, the session file and the
account row in turn. `writeFile` empties the file before it fills it, which is
two actions; `unpaired` is auxiliary and records that a logout was served or that
such a write failed half-way. `linked` is the sidecar's own pairing, which the
phone makes and removes.

Left out: the events of the stream, the account row, the length of the back-off.

### MatrixHistory

Rooms share nothing but the order in which a run visits them, so one room stands
for all. An event is its position in the room, `sent` its `origin_server_ts`,
which another server chose: it need not grow. `Silent` are the events
`should_ingest_event` turns away. `token` is the checkpoint in
`runtime_metadata`, `fileToken` the `next_batch` of the session file; both count
the events a sync has covered. `conv` is the conversation's row as far as
`fetch_persisted_room_state` reads it: `mark` from the metadata, which
`iso_to_unix_ms` cuts to whole seconds, and `last_event_at`, which only grows.
`rows` are the events in `message_events`, `attached` those with a
`conversation_id`: the statement looks the conversation up, and finds none if its
upsert has failed.

A run is a process in mode `sdk` (`ingest_live_history`) or `http`
(`recover_http`); `run[p]` holds its local variables, and one action is one
request or one statement. Sync attempts are tried in order, any but the last may
fail, so the one that succeeds is any of them. An SDK run walks the room whatever
the sync brought, because its store knows the room; a recovery walks only rooms
of the response. `FetchPage` is one page backwards, `LastPage` its end.
`UpsertConversation` comes before the events and both ignore their errors
(`.ok()`); `torn`, an auxiliary variable, records that a run failed or died
between them. Whether a room with rows is reprocessed from the beginning
(`room_should_heal_undecrypted`) is a free choice here.

Left out: contents and decryption of events, titles, participants, redactions,
and the order in which the probe loop starts the runs.

### MatrixHealing

One worker goes through `phase` for ever, in the order of `run-probes.sh`: the
probe's import and sync, ingest's import and sync, the statistics, the rooms, and
`recover_http` when ingest fails. Beside it exports are put in place, keys arrive
with a sync, and another process may import first (`OtherImports`). `row[e]` is
what the event's row holds: nothing, the placeholder, or text. `attempt[r]` is
`undecrypted_heal` in the room's metadata, its age counted in iterations
(`Cooldown` of them are the cool-down) with the number of the newest event it has
seen. `heal` is chosen once per run from rows and attempts (`ShouldHeal`: an
import, or an event that is newer than the last attempt, or an attempt that is old
enough); without an import only the `Limit` rooms with the latest such events are.
`dead` are the rooms whose history cannot be fetched. A room in `heal` is fetched
from its beginning; which events any other room brings is the subject of
`MatrixHistory`, and any set of them here. Statements whose errors the code ignores
fail one by one (`WriteRoom`, `ReadStats`). A key import is one action here;
`MatrixIdentity` takes it apart.

### MatrixIdentity

Tokens are the login they come from and a version. A process goes through `pc`:
it opens the session file, imports keys (stamp, import, marker: three actions),
syncs, may refresh its tokens, and saves (callback, temporary file, rename). All
processes share one temporary file. The API logs in by removing file, store and
marker and then writing, and a check asks the homeserver and removes what there
is when it is refused. `store` numbers the stores that have had the directory's
path, so that a process can hold one that has been removed. Any process may die
in any state. `spanned`, `rotated`, `cut` and `raced` are auxiliary: they name the
races the properties excuse, each as narrowly as it occurs.

### MatrixVerification

The child's `pc` is where its two loops stand; each passage of a loop either takes
a command from stdin or looks at the newest state of the SDK's flow
(`changes()` keeps only the latest, hence `fresh`). The other device and the SDK
move the flow at any time. The bridge's monitor reads a line at a time
(`ReadLine`), and when stdout is closed reaps the child (`Reap`). Stderr is a pipe
nobody reads before that: the sync task writes its errors there and blocks when
it is full (`Blocked`). A decision is written whatever the status is, as the code
does; `shown` notes whether the attempt was waiting for one.

### MatrixSend

A send's `pc` names the request or the statement it does next: the direct send
through the SDK or over HTTP, the search for a replacement room by bridge key and
then room by room, the resend, and the five statements of
`reconcile_conversation_room_id`. Any of them may fail, and the bridge may kill the
process after 90 seconds at any point. `Replace` is what the bridge to the other
network does to a room. Rows are numbered: `place` is a row's `external_id`,
`owner` a message's `conversation_id`. `IngestRoom` and `IngestEvent` are another
process that writes a room. `alone` and `disturbed` are auxiliary: a send is alone
since it has looked into the database while nobody else writes it, and the
database is disturbed when a send has written on what was no longer true.

### CalendarReconcile

An action is its place in the order of the run. `text` is the version of what is
published, `status` `open` stands for the three statuses that are published
alike. A run reads all actions at once (`run.seen`) and takes them in turn; each
request and each statement is an action of the model: `DeleteEvent`,
`ForgetProjection`, `PostEvent`, `RecordEvent`, `GetEvent`, `PatchEvent`,
`Project`. Any of them may fail and end the run (`Fails`), and the calendar turns
down the versions in `Refused` (an end before the start, for example), which ends
it too (`Rejected`). `cut` is auxiliary: the actions whose new event a run has
left unrecorded. `touched` is auxiliary too: the actions people have changed, or
whose event they have deleted, since the run began. The names with the prefix `CR`
keep the module apart from `MatrixHealing`, which `WorkerLoopProofs` extends
beside it.

What the calendar answers for an event that somebody deleted is not the code's to
choose, and the model has every answer: 404, which makes the event anew; 200 with the
old details and the status `cancelled`, which the run never looks at and patches or
projects like any other; 410, which only the DELETE tolerates and which ends the run
at the GET. A PATCH of such an event changes its details and leaves it deleted, or is
turned down. The GET's details are compared as strings, so a PATCH may also come where
nothing has changed.

Left out: the order of the run by start times that change, actions without a
start, the rotation of the token.

### The abstract specifications

`ConnectionSupervisor` has one link: idle, dialling, up or in back-off. A link
that is lost goes to back-off unless the operator has halted the connector, a
back-off leads to another dial, and a halt leaves no back-off behind. The
WhatsApp connector is dialling while a build is in flight; the Signal connector
while a startup, a callback or a poll is about to open a stream. A Signal timer
that a logout leaves armed counts as idle, because its callback does nothing.

`DurableIngest` says that what is handled stays handled, and that a mark only
moves to a position that is handled. It deliberately does not say that everything
below the mark is handled: the Telegram backfill does not keep that, see below.

`VerificationVerdict` has a flow that ends once, verified or off, a process that
ends well or badly, and a verdict that is reported and at last closed. A verdict
may be taken back, but only from "not done" to "done", and "done" is only said of a
verified device. In `MatrixVerification` the flow is the SDK's request, the verdict
is `done` and `status` together, and the attempt is closed when the monitor is
gone.

## 4. The runs

| Run | Instance | Result |
|---|---|---|
| `whatsapp_connector` | 3 sockets, 2 timers, 1 login | passes, 186,971 states |
| `telegram_backfill` | 2 runs, 1 dialog of up to 4 messages, pages of 2, limit 3 | passes, 100,052 states |
| `telegram_crash` | 1 run, 3 messages, pages of 1, no limit | `NothingSkipped` violated |
| `signal_connector` | 2 accounts (1 refused), 2 streams, 1 attempt, 2 polls, 2 reads | passes, 489,942 states |
| `matrix_history` | 2 runs, 2 events with times 2 to 4, seconds of 2, pages of 1 | passes, 3,943,614 states |
| `matrix_recovery` | 1 run, the same | `RecoveryRecovers` violated |
| `matrix_verification` | 2 decisions, a stderr that holds 1 error | passes, 58,255 states |
| `matrix_send` | 2 sends, 3 rooms, 2 messages | passes, 163,968 states |
| `matrix_healing` | 3 rooms (1 unreachable) with 1 event each, 2 at a time, 1 export, 1 failure | passes, 230,485 states |
| `matrix_reprocess` | the same, no failure | `LoopReprocesses` violated |
| `matrix_identity` | 2 processes, 1 further login, 1 refresh each, 2 resets, 2 exports | passes, 3,944,635 states |
| `calendar_reconcile` | 2 actions, 1 change each, 2 failures or deletions | passes, 379,889 states |

**whatsapp_connector.** `SingleFlight`: `this.connecting` is set exactly while one
build runs, whoever started or joined it. `OnlyOperatorForks`: without a login or a logout
the live sockets are the one the connector holds. `LossAnswered` and
`KeepsTrying`: a lost socket is rebuilt and a failed rebuild is tried again.
`SupervisorSpec`: the refinement, with its liveness.

**telegram_backfill.** `ScanContiguous`: within what a run has gone through in its
dialog nothing is missing, whatever failed or ran beside it. `GapsAreCuts`: below
the mark, messages are missing only in dialogs that a run has left before the
end. `LiveCursorStored`: the live cursor names a stored message.
`DurableIngestSpec`: the refinement.

**telegram_crash.** The comment at `telegram.mjs:415` promises that a crash
resumes from the last cursor. Pages come newest first, so the first page sets the
mark above everything not yet fetched.

**signal_connector.** `OneStream`: the open streams are the one the connector
holds. `StreamPaired`: a stream or a connecting startup
has a pairing on disk, which the next process will need, unless a logout or a
failed write took it away. `Reconnects`: a back-off ends with a stream.
`SupervisorSpec`: the refinement.

**matrix_history.** `WalkExact`: the walk ends at the first page that reaches
back to the cutoff, and yet brings everything after it; only an event with an old
time stamp (`Late`) can end it too early, and not when the room is reprocessed.
`SkipsExplained`: the next run looks for nothing up to the checkpoint, and
everything there is in the conversation or about to be written by another run,
unless a run left off between conversation and events, an insert failed, or an
event came late. These exceptions are real: the errors of the inserts are
ignored, and nothing brings an event back that the cutoff hides, except the
reprocessing of the whole room.

**matrix_recovery.** The repository keeps `recover_http` as the recovery path. It
syncs from the very token a failed ingest has saved before it fetched anything,
and walks only the rooms of that response: after such a failure it finds nothing
to recover and reports success. An SDK run would find the events, as its walk
starts from the checkpoint of the room.

**matrix_verification.** `VerdictSpec`: the refinement. Lines are applied whatever
the status is and may come after the end, so a finished attempt can change its
verdict; it only ever does to say that the device has been verified after all, once
the child is reaped there is a verdict, and it is `done` if the child ended well.
`RefusalHolds`: after a refusal that was taken in time nothing verifies the
device, neither a confirmation waiting in the pipe nor a message of the other
side. `AttemptEnds` and `CancelEnds`: attempts and cancelled attempts are finished
some day, unless stderr has filled up; that exception is real, nobody reads stderr
before stdout is closed.

**matrix_send.** `SentToTheChat`: a text arrives in the room asked for or in one of
the same chat, and "sent" means it has; bridge events with neither key nor channel
name no chat. `TwiceOnlyIfLost`: it arrives in two rooms
only when the answer to the first request was lost. `RemapHidesNothing`: wherever
the move of a conversation stops, no message is left in an archived conversation
or in none, unless somebody has written over what the send had read.
`RemapSettles`: a move that goes through alone leaves no active conversation of
the old room, also when an earlier one stopped half-way.

**matrix_healing.** `TextKept`: only `recover_http`, which does not decrypt, turns
text back into a placeholder. `ImportReprocesses`: an ingest that imports keys
reads everything they open, whatever the limit and the cool-down say.
`HealedEventually`: a message whose key is there is read in the end, although
rooms are chosen from old statistics, limited in number and cooled down; as long
as unreachable rooms, which are never noted as attempted, do not use up the limit.

**matrix_reprocess.** The same for the iteration that imports an export, which is
what `heal-decryption-on-oracle.sh` tells its user to expect. The probe imports
first and leaves the marker, so the ingest of that iteration treats the export as
known.

**matrix_identity.** `MarkerHonest`: the export the marker names, or a later one,
is in the store, although the stamp is taken before and the marker written after
the import; unless a login or a refused check removed the store meanwhile.
`SessionCurrent`: the session on disk is the latest login's, with the tokens the
homeserver accepts, but for three races: a process at work during a login, one at
work while another refreshed, a death between a refresh and the file.

**calendar_reconcile.** `EventsAccounted`: every event in the calendar is the one
its action names, at every moment of a run, so that a change or a cancellation
later reaches it; only a run that ended between the POST and the record leaves one
nobody knows of. `RunSettles`: a run that gets through leaves every action settled,
whatever earlier runs have left half-done, except what people changed while it
ran; what it takes for settled may still lack its event, if somebody deleted that
before the run and the calendar answered for it all the same (`Mistaken`), and then
the details and the projection agree. `SettledEventually`: an open action is in the
calendar as it is, a cancelled one is not, and the projection says so, in the end and
whatever failed; as long as no action up to it is turned down or has lost its event
(`Reached`), which may stop every run at the same place.

### What the properties name instead of forbidding

Some of these properties name a case that the code does not exclude, so that they hold
for everything else. Such a case is a known loss, and the property would not notice
it: the failed write that empties a Signal pairing (`StreamPaired`), a run of ingest
that dies between conversation and events, a failed insert and a late event
(`SkipsExplained`), the lost answer of a direct send (`TwiceOnlyIfLost`), the
placeholders of `recover_http` (`TextKept`), a login or a refresh beside another
process (`MarkerHonest`, `SessionCurrent`), an event made and not recorded
(`EventsAccounted`), and a deleted event the calendar still answers for
(`RunSettles`). The hazards in `PROJECT.json` say so one by one.

### Stated and not kept

These properties stand in their modules because a comment, a document or a reader
would expect them, and TLC finds each violated; where no run of the table shows it,
a configuration that names the property does.

| Property | What happens |
|---|---|
| `WhatsAppConnector.SingleLiveSocket` | the close handler forgets whatever socket there is after its await, so a second login ends with two on one pairing |
| `WhatsAppConnector.LogoutAuthoritative` | a build in flight survives a logout |
| `WhatsAppConnector.AttemptHasSocket` | a login that joins somebody else's build has no socket to bring its QR code |
| `TelegramBackfill.NothingSkipped` | run `telegram_crash` |
| `TelegramBackfill.CursorMonotone` | two backfills overwrite each other's mark |
| `SignalConnector.TimerInert` | a callback that reads the session file while a logout stops the connector opens a stream all the same |
| `SignalConnector.CompletedStays` | a poll whose new link arrives after another has completed the attempt sets it back |
| `MatrixHistory.RecoveryRecovers` | run `matrix_recovery` |
| `MatrixHealing.LoopReprocesses` | run `matrix_reprocess` |
| `MatrixVerification.FinishedIsFinal` | a line after the end replaces the status of a finished attempt |
| `MatrixVerification.ConfirmedWhatWasShown` | a confirmation written early is used for emojis nobody has seen |
| `MatrixSend.ArchivesTheStale` | after a lost answer a room in order is taken for a replaced one |
| `MatrixIdentity.RemovesWhatItChecked` | a refused check removes the session of a login made meanwhile |
| `CalendarReconcile.DeletedIsMadeAgain` | the GET of a deleted event may answer with the status `cancelled`: the run projects it as active, and the action stays without an event |
| `CalendarReconcile.ClosedStaysClosed` | an action closed while its event is made becomes scheduled again |

### Bounds

Each bound is a constant. Three sockets are the most that can matter at a time
(one held, one closing behind an await, one being built); a socket that none of
these concerns is closed and reused. Two timers: one armed, one whose callback
runs. One login in the WhatsApp run, since two already break
`OnlyOperatorForks`' premise. Four
messages in pages of two with a limit of three give full, short and empty pages,
a page cut by the limit, a service message inside a page, and live messages
before and after the scan. Two runs suffice for every race over one mark, which
only ever involves the run that read it and the one that moved it; dialogs do not
interact except through the run's position, and larger instances (two dialogs)
were checked while the models were written. Two polls race over one attempt; the
second Signal stream is there so that a second one could be opened; two
callbacks may read the session at once, because one can be overtaken by a poll
that connects and loses its stream. Two
events in pages of one give a walk of two pages and a walk that its cutoff ends;
times 2 to 4 in seconds of 2 give events in one second, in two, and out of order;
larger rooms in pages of two were checked with one run while the model was
written (11.5 million states). Two decisions in a verification are a confirmation and a
refusal in either order, at any two moments; one error fills stderr or does not.
Two sends and one ingest are what can meet over one conversation: each can come
between any two statements of another; three rooms give a replacement, a room of
another chat, and bridge events that would compare equal by their empty keys or by the
channel neither of them names.
Three rooms with a limit of two make one wait, and one that cannot be fetched
takes a place without using both; a cool-down of two iterations can be waited for
and be cut short; one failure can fall on any step. Two processes beside the API
give every race over a file, since a third would only repeat what the second does
to the first; two resets let a process hold a removed store while a second one
takes its place; two exports let one be replaced during its import. TLC follows a
behaviour there until a marker was written for a removed store and a process was
at work during a login, since nothing can violate either property after that
(`NotYetExcused`; without this bound the run passes with 6,217,364 states). Two actions
give one that comes before another and is turned down, or fails, or is at its turn
while the other changes; two incidents are a crash and a deletion, or two crashes
of one action.

`MaxReads`, `MaxId`, `MaxSent`, `MaxTime`, `MaxDecisions`, `StderrSize`,
`MaxFailures`, `MaxLogins`, `MaxRefreshes`, `MaxResets`, `MaxExports`, `MaxEdits`
and `MaxIncidents` are the only caps in guards. The proofs of section 5 do not
depend on any of this.

Deadlock is checked except in `matrix_send` and `matrix_identity`: when every send
has ended, or there is no session and no login left, nothing happens any more. In
the other runs a restart, another probe or another iteration is always possible.

### Fairness

Weak fairness is assumed only of what Node runs by itself: due timers, ends of
builds, answered reads and database calls (which may fail), the startup recovery,
and the end of a logout that has begun. Nobody has to log in, scan a code, send a
message or crash, no socket has to open, and no build has to succeed. Liveness
properties excuse a stopped connector and a process that restarts: a process that
is restarted again and again never gets anywhere. In `MatrixVerification` the
child, the bridge's monitor thread and the SDK's own time-out of a flow
(`FlowEnds`) go on; neither the user nor the other device has to. That the process
takes a cancel while its sync task is blocked on a full stderr assumes that Tokio runs
more than one worker thread, as `#[tokio::main]` (`main.rs` 289) does on a machine with
more than one core. In `MatrixHealing` and
`CalendarReconcile` the worker's loop goes on, which `run-probes.sh` does for ever;
failures and deletions are bounded in number, so the liveness there says what a
loop reaches after the last of them, whatever they have left behind, and nobody
has to send, export or change anything. `TelegramBackfill`, `MatrixHistory`,
`MatrixSend` and `MatrixIdentity` have no liveness property: a backfill or a send
that fails is not tried again, and a process or a login may never come.

## 5. The proofs

All theorems hold for every value of the constants under the assumptions named
in the modules (`NoneAssumption`, `BackfillAssumption`, `SignalAssumption`,
`HistoryAssumption`, `VerificationAssumption`, `SendAssumption`, `KeysAreUnique`,
`HealingAssumption`, `IdentityAssumption`, `NoneIsNoSession`): null is no socket,
row or session, sizes are natural numbers, sets of rooms and events are finite,
and two bridge events with one non-empty state key are of one channel; for the
calendar (`ReconcileAssumption`), there is an action and the bounds are natural
numbers. Every invariant and every action property that a passing run checks is
stated by a theorem.

**WhatsApp.** `TypeCorrect` is inductive by itself. `GuardsHold` proves
`SingleFlight`, `TimerTracked` and `StoppedDisarms` together: `SingleFlight` is
inductive with the types, but `TimerTracked` needs it (a callback that has not
ended waits for the build, so no second timer can be armed beside it), and
`StoppedDisarms` needs `TimerTracked` (a logout disarms only what the handle
names). `NoForkByItself` proves `OnlyOperatorForks` with a second invariant,
`OneSocket`: while nobody has logged in or out, at most one of a live socket, a
close handler and a build exists. `ImplementsSupervisor` shows that each step is
a step of the supervisor or leaves it alone. `NoDeathMissed` and
`NothingElseStrands` are the safety part of the two liveness properties:
`DeathNoticed`, that a socket the connector relies on is alive or has a close
handler still to run, and `StrandedOnlyByBuild`, that no step but a restart and a
failed build nobody's timer waits for leaves a connector that is not stopped with
neither socket, build nor timer. The latter needs `TimerTracked`: a close handler
that arms nothing relies on the handle it finds.

**Telegram.** `BackfillInvariant` proves the inductive invariant `IInv`: a scan
has passed only stored messages, its page is an interval below the part it has
finished, and its newest id and mark are stored positions. It is needed because
`ScanContiguous` alone does not say what the variables of a run mean between two
pages. The theorems on types, scans and the live cursor and
`ImplementsDurableIngest` follow from it. `GapsAreOnlyCuts` proves `GapsAreCuts`
with two further invariants. `FullPages`: a page is as long as was asked for, or
reaches down to the mark the run has read. `NoGaps`: in a dialog nobody has left
early, each message below the mark, or below a mark some run has read, is handled
or still owed (`Owed`) by a run that has moved the mark ahead of its own scan. The
mark alone would not do: of two runs in one dialog each relies on what the other
still owes.

**Signal.** `StreamAndTimerTracked` adds to `OneStream` and `TimerTracked` that
code about to connect after an await has an account (`HasAccount`): a stream
opened for nothing would look closed. `StreamsArePaired` proves `StreamPaired`
with `Paired`, which extends it to the polls that are about to connect and to
logouts under way. `ImplementsSupervisor` rests on two lemmas, on code that goes
on to dial and on code that has dialled. `NothingElseGivesUp` proves
`GivesUpUnpaired`, the safety part of `Reconnects`: of all steps only a startup or
a poll that cannot write the account row makes a connector with a pairing on disk
give up, since these two schedule nothing when they fail.

**Matrix.** The inductive invariant `IInv` is `Basic` and `Coverage`. `Basic` says
of each run what the local variables of its walk mean: between two pages it has
everything after the place where it stands, and a finished walk has everything
after its cutoff, or an event came late. `TypeCorrect`, `MarkNeverAhead` and
`WalkIsExact` follow from it; it rests on `Largest`, that a finite set of numbers
has a largest, since the checkpoint is the latest time of a batch. `Coverage`
carries `SkipsExplained` through: what is up to the checkpoint is held, and so is
what is up to the cutoff of every walk under way, because a cutoff was a
checkpoint when its run read it. When a run moves the checkpoint, an event up to
the new one is in its batch or up to its cutoff (`UpsertConversationCoverage`).
`SkipsAreExplained` is the theorem.

**Verification.** `RefusalIsKept` strengthens `RefusalHolds` to `StaysRefused`: a
refusal leaves the request cancelled, and nothing leads out of that.
`ReportIsTrue` needs how process, request and comparison belong together
(`FlowShape`), and `Said`, what the lines on their way mean: a last line is
written when the flow is over, only last lines follow it, a process that ends well
has written "complete" last, and so the monitor reads it last. `KeepsThePromise` proves `VerdictSpec`, the
refinement of `VerificationVerdict`, from the same invariants and `CompleteIsLast`:
nothing is written or read after "complete", also when the process is killed then.
A line of the monitor is a `Report`, `Reap` is `Close`, a cancellation from either
side or the SDK's answer is `Settle`, and the rest stutters.
`NoLostWakeUp` proves `AttemptGoesOn`, the safety part of `AttemptEnds`: the process
looks at the flow before it waits for changes and the stream keeps only the last,
and still a flow that is over has always left one to be seen (`Watched`), so that
an open attempt has a next step unless stderr is full.

**Send.** `TypeCorrect`, with `HasStale`, includes that no two rows have one
`external_id`. `Senders` says for each place in the code where the text may have
arrived; `ChatIsKept` and `OnlyLostIsRepeated` follow, the former with
`KeysAreUnique`. `Remap` carries the move: what a send that is alone has read still
holds (`LooksHold`), after it has moved the messages none is left behind
(`NoneLeftBehind`), and none is hidden (`NoneHidden`). `NothingIsHidden` and
`MoveSettles` follow.

**Healing.** `TextIsKept` rests on `TextHasKey`: text is only where the key is, and
ingest, which writes over rows, had the key of what it has in hand when it was
there before. `ImportHeals` needs `Progress`: in a run that has imported and not
failed, each room yet to come is chosen if there is anything to read in it, and
each room done holds nothing it had a key for.

**Calendar.** `Shaped` is the type invariant with what a run's place in the code
says of the event it has in hand. `NoEventLost` proves `EventsAccounted` with
`Accounts`: until the record, the copy a run works from names the event the row
names, no other action's does, and a second event is made only of an action that
has none. The copy may be old in every other respect, because people write status
and text but nobody beside the run writes links; that is what the proof turns on.
`FinishedRunSettles` proves `RunSettles` with `Settling`: an action that is still to
come and nobody has touched is in the copy as it is in the row, and one that is
done is settled (`Unsettled` is what is pending and not `Mistaken`). It needs
`EventsAccounted`, since a deleted or patched event must not be one another action
relies on.

**Identity.** `MarkerIsHonest` needs that an import under way holds a store that
exists or has been removed, and has put what it is about to mark into it
(`ImportsHonest`); with `Stamped`, that the stamp is one of an export.
`SessionIsCurrent` proves `Agree`: while no process spans a login everything in
memory and on disk is of the latest one (`LoginsAgree`), and while no other process
is at work during a refresh, the one with new tokens is alone until it has saved
them (`TokensAgree`).

**Proved and not run.** `StoppedDisarms` (`StoppedIsDisarmed`), the
`TimerTracked` of both connectors (`TimerIsTracked`), `MarkBehindLast`
(`MarkNeverAhead`) and `ReportAgrees` (`ReportIsTrue`, which `VerdictSpec` goes
beyond) are no longer part of a run, because they are proved for every instance.
`DeathNoticed`, `StrandedOnlyByBuild`, `GivesUpUnpaired` and `AttemptGoesOn` were
checked on the runs' instances before they were proved; the liveness properties of
these runs show what they are for.

**Model-checked only.** The liveness properties (`LossAnswered`, `KeepsTrying`,
`Reconnects`, `AttemptEnds`, `CancelEnds`, `HealedEventually`,
`SettledEventually`) and the liveness part of `SupervisorSpec`, because the prover
handles neither fairness nor ENABLED. What a proof can say of them without
scheduling is said by the theorems on `DeathNoticed`, `StrandedOnlyByBuild`,
`GivesUpUnpaired`, `AttemptGoesOn` and `RunSettles`.

## 6. Not modelled

What the plan lists is not modelled yet; `PROJECT.json` gives the reason for each
component. Of the Matrix client, these parts stay out: restoring secret storage,
the secrets bundle and the check of the own device (`main.rs` 3539-3685) and the
key backup (3687-3807), whose state is the SDK's; the sample and inspection modes
(552-845) and the probe's report and its row (402-551, 3942-4020), which only read
and report; titles and participants of rooms (1243-1284, 1970-2043). The death of
the bridge during a verification is left out: the attempt lives in its memory, so
that nobody is left to ask. The Google calendar's ingest writes rows the
reconciliation passes over.

What will stay out: routing, logging and error texts, rendering of QR codes, the
SDKs themselves (Baileys, gramjs, signal-cli, matrix-sdk appear by what the code
relies on), token scripts that talk to a person, deployment files, and the legacy
comparison tool.

## 7. Running it

    tlc -config WhatsAppConnector.cfg WhatsAppConnector
    tlapm WhatsAppConnectorProofs.tla

and likewise for the other runs and proof modules listed above.
