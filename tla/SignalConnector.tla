--------------------------- MODULE SignalConnector ---------------------------
(***************************************************************************)
(* The Signal connector of the chat gateway                                *)
(* (chat-gateway/src/providers/signal.mjs): the pairing with its polls,    *)
(* the startup recovery, the receive stream, the reconnect timer and the   *)
(* logout.                                                                 *)
(*                                                                         *)
(* An action is the code from one await to the next.  The connector is the *)
(* one server.mjs makes, without createSignalClient: #connectLive then     *)
(* runs without an await, and its stream cannot be closed before its       *)
(* listeners are attached.                                                 *)
(*                                                                         *)
(* Left out: the events of the stream, the account row and liveAccount,    *)
(* which only names it, the text of a QR code, and the length of the       *)
(* back-off, with its counter: a timer may fire at any time.               *)
(***************************************************************************)
EXTENDS Naturals

CONSTANTS
    Accounts,   \* the accounts the sidecar may be linked to
    Refused,    \* those whose format openReceiveStream refuses
    Streams,    \* stream objects; one that is closed is reused
    Logins,     \* the login attempts of a process
    Polls,      \* the submit requests a process serves at a time
    MaxReads,   \* bound: the timer callbacks that read the session at a time
    None        \* JavaScript's null

ASSUME SignalAssumption ==
    /\ Refused \subseteq Accounts
    /\ None \notin Accounts \cup Streams \cup Logins
    /\ MaxReads \in Nat

VARIABLES
    \* fields of the connector
    client,         \* this.client
    reconnectTimer, \* this.reconnectTimer holds a timer
    stopped,        \* this.stopped
    attempt,        \* attempt[l]: the state of a login attempt
    \* the persisted pairing
    session,        \* the account in signal.session
    \* the sidecar, and its receive streams
    linked,         \* the account it is linked to
    receiving,      \* receiving[s]: the account of s, until it is closed
    \* Node's timer, and suspended code
    armed,          \* the timer is scheduled and has not fired
    reading,        \* how many timer callbacks read the session
    startPc, startAccount, loginPc, logoutPc,
    poll,           \* poll[p]: a submit request, its attempt, its account
    \* auxiliary
    unpaired        \* the process has served a logout, or failed to write
                    \* the session file it had truncated

link  == <<client, reconnectTimer, armed, receiving, reading>>
start == <<startPc, startAccount>>
pair  == <<attempt, loginPc, poll>>
vars  == <<link, stopped, session, linked, start, pair, logoutPc, unpaired>>

Attempt == {"none", "initializing", "awaiting_qr_scan", "error", "completed"}

Poll ==
    [pc : {"idle", "asking", "issuing", "writing", "filling", "upserting"},
     of : Logins \cup {None}, account : Accounts \cup {None}]

TypeOK ==
    /\ client \in Streams \cup {None}
    /\ reconnectTimer \in BOOLEAN /\ armed \in BOOLEAN
    /\ stopped \in BOOLEAN /\ unpaired \in BOOLEAN
    /\ attempt \in [Logins -> Attempt]
    /\ session \in Accounts \cup {None} /\ linked \in Accounts \cup {None}
    /\ receiving \in [Streams -> Accounts \cup {None}]
    /\ reading \in 0..MaxReads
    /\ startPc \in {"boot", "reading", "upserting", "done"}
    /\ startAccount \in Accounts \cup {None}
    /\ loginPc \in [Logins -> {"idle", "issuing", "returned"}]
    /\ logoutPc \in {"idle", "clearing", "upserting"}
    /\ poll \in [Polls -> Poll]

NoPoll == [pc |-> "idle", of |-> None, account |-> None]

(* A process that begins to listen holds nothing in memory.                *)
Init ==
    /\ client = None /\ reconnectTimer = FALSE /\ armed = FALSE /\ stopped = FALSE
    /\ attempt = [l \in Logins |-> "none"]
    /\ session \in Accounts \cup {None} /\ linked \in Accounts \cup {None}
    /\ receiving = [s \in Streams |-> None]
    /\ reading = 0
    /\ startPc = "boot" /\ startAccount = None
    /\ loginPc = [l \in Logins |-> "idle"] /\ logoutPc = "idle"
    /\ poll = [p \in Polls |-> NoPoll]
    /\ unpaired = FALSE

-----------------------------------------------------------------------------
(* The private methods                                                     *)

(* #scheduleReconnect.                                                     *)
ScheduleReconnect ==
    IF stopped \/ reconnectTimer
    THEN UNCHANGED <<reconnectTimer, armed>>
    ELSE reconnectTimer' = TRUE /\ armed' = TRUE

(* Fault: the guard on this.client is missing.                             *)
ConnectLiveStacked(a) ==
    IF a \in Refused
    THEN ScheduleReconnect /\ UNCHANGED <<client, receiving>>
    ELSE /\ \E s \in Streams : /\ receiving[s] = None
                               /\ receiving' = [receiving EXCEPT ![s] = a]
                               /\ client' = s
         /\ UNCHANGED <<reconnectTimer, armed>>

(* #connectLive: the stream there is, else a new one.  What the refusal of *)
(* the account throws is caught by its three callers, all of which then    *)
(* schedule a reconnect.                                                   *)
ConnectLive(a) ==
    IF client # None
    THEN UNCHANGED <<client, receiving, reconnectTimer, armed>>
    ELSE IF a \in Refused
    THEN ScheduleReconnect /\ UNCHANGED <<client, receiving>>
    ELSE /\ \E s \in Streams : /\ receiving[s] = None
                               /\ receiving' = [receiving EXCEPT ![s] = a]
                               /\ client' = s
         /\ UNCHANGED <<reconnectTimer, armed>>

(* #stopLive, up to its await: the client's end() closes its stream, whose *)
(* own close is then no longer reported.                                   *)
StopLive ==
    /\ client' = None
    /\ receiving' = [s \in Streams |-> IF s = client THEN None ELSE receiving[s]]

-----------------------------------------------------------------------------
(* Startup recovery                                                        *)

(* start() once the directories exist, up to the reading of the session.   *)
StartBegins ==
    /\ startPc = "boot"
    /\ stopped' = FALSE
    /\ startPc' = "reading"
    /\ UNCHANGED <<link, session, linked, startAccount, pair, logoutPc, unpaired>>

(* The session is read.  Without one, the account row is all that is left. *)
StartReads ==
    /\ startPc = "reading"
    /\ startAccount' = session
    /\ startPc' = IF session = None THEN "done" ELSE "upserting"
    /\ UNCHANGED <<link, stopped, session, linked, pair, logoutPc, unpaired>>

(* The row is written, or that fails and start() rejects.                  *)
StartConnects ==
    /\ startPc = "upserting"
    /\ startPc' = "done" /\ startAccount' = None
    /\ ConnectLive(startAccount) \/ UNCHANGED <<client, receiving, reconnectTimer,
                                                armed>>
    /\ UNCHANGED <<reading, stopped, session, linked, pair, logoutPc, unpaired>>

-----------------------------------------------------------------------------
(* The stream and the reconnect timer                                      *)

(* Fault: the handler returns once it has dropped a client.                *)
DisconnectsQuietly(s) ==
    /\ receiving[s] # None
    /\ client' = None
    /\ receiving' = [q \in Streams |-> IF q \in {s, client} THEN None ELSE receiving[q]]
    /\ IF client # None THEN UNCHANGED <<reconnectTimer, armed>> ELSE ScheduleReconnect
    /\ UNCHANGED <<reading, stopped, session, linked, start, pair, logoutPc, unpaired>>

(* The websocket closes, or never opened: #handleDisconnect drops and ends *)
(* the client and schedules a reconnect.                                   *)
Disconnects(s) ==
    /\ receiving[s] # None
    /\ client' = None
    /\ receiving' = [q \in Streams |-> IF q \in {s, client} THEN None ELSE receiving[q]]
    /\ ScheduleReconnect
    /\ UNCHANGED <<reading, stopped, session, linked, start, pair, logoutPc, unpaired>>

(* Fault: the handle is kept while the session is read.                    *)
TimerFiresKeeping ==
    /\ armed
    /\ armed' = FALSE
    /\ IF stopped
       THEN reconnectTimer' = FALSE /\ UNCHANGED reading
       ELSE reading < MaxReads /\ reading' = reading + 1 /\ UNCHANGED reconnectTimer
    /\ UNCHANGED <<client, receiving, stopped, session, linked, start, pair,
                   logoutPc, unpaired>>

(* The callback drops the handle and, unless the connector is stopped,     *)
(* reads the session.                                                      *)
TimerFires ==
    /\ armed
    /\ armed' = FALSE
    /\ reconnectTimer' = FALSE
    /\ IF stopped THEN UNCHANGED reading
       ELSE reading < MaxReads /\ reading' = reading + 1
    /\ UNCHANGED <<client, receiving, stopped, session, linked, start, pair,
                   logoutPc, unpaired>>

(* The session is read.  The callback connects if there still is one.      *)
TimerResumes ==
    /\ reading > 0
    /\ reading' = reading - 1
    /\ IF session = None
       THEN UNCHANGED <<client, receiving, reconnectTimer, armed>>
       ELSE ConnectLive(session)
    /\ UNCHANGED <<stopped, session, linked, start, pair, logoutPc, unpaired>>

-----------------------------------------------------------------------------
(* Pairing                                                                 *)

(* Fault: the attempt is created without its state.                        *)
LoginBeginsPending(l) ==
    /\ loginPc[l] = "idle"
    /\ loginPc' = [loginPc EXCEPT ![l] = "issuing"]
    /\ attempt' = [attempt EXCEPT ![l] = "pending"]
    /\ UNCHANGED <<link, stopped, session, linked, start, poll, logoutPc, unpaired>>

(* beginLogin, up to the request for a link.                               *)
LoginBegins(l) ==
    /\ loginPc[l] = "idle"
    /\ loginPc' = [loginPc EXCEPT ![l] = "issuing"]
    /\ attempt' = [attempt EXCEPT ![l] = "initializing"]
    /\ UNCHANGED <<link, stopped, session, linked, start, poll, logoutPc, unpaired>>

(* #issueQr brings a code, or fails.                                       *)
LoginReturns(l) ==
    /\ loginPc[l] = "issuing"
    /\ loginPc' = [loginPc EXCEPT ![l] = "returned"]
    /\ \E state \in {"awaiting_qr_scan", "error"} : attempt' = [attempt EXCEPT ![l] = state]
    /\ UNCHANGED <<link, stopped, session, linked, start, poll, logoutPc, unpaired>>

(* submitLoginStep, up to the request for the accounts.  Who polls has the *)
(* attempt's id from beginLogin.                                           *)
PollBegins(p, l) ==
    /\ poll[p].pc = "idle"
    /\ loginPc[l] = "returned" /\ attempt[l] # "completed"
    /\ poll' = [poll EXCEPT ![p] = [pc |-> "asking", of |-> l, account |-> None]]
    /\ UNCHANGED <<link, stopped, session, linked, start, attempt, loginPc, logoutPc,
                   unpaired>>

(* The sidecar names the account.                                          *)
PollFinds(p) ==
    /\ poll[p].pc = "asking" /\ linked # None
    /\ poll' = [poll EXCEPT ![p].pc = "writing", ![p].account = linked]
    /\ UNCHANGED <<link, stopped, session, linked, start, attempt, loginPc, logoutPc,
                   unpaired>>

(* It names none, or does not answer: the code is replaced if the attempt  *)
(* is in error or, after an answer, if there is none or it is stale.       *)
PollFindsNone(p) ==
    /\ poll[p].pc = "asking"
    /\ \/ /\ linked = None \/ attempt[poll[p].of] = "error"
          /\ poll' = [poll EXCEPT ![p].pc = "issuing"]
       \/ /\ attempt[poll[p].of] # "error"
          /\ poll' = [poll EXCEPT ![p] = NoPoll]
    /\ UNCHANGED <<link, stopped, session, linked, start, attempt, loginPc, logoutPc,
                   unpaired>>

(* #issueQr brings a code, or fails.                                       *)
PollIssues(p) ==
    /\ poll[p].pc = "issuing"
    /\ poll' = [poll EXCEPT ![p] = NoPoll]
    /\ \/ attempt' = [attempt EXCEPT ![poll[p].of] = "awaiting_qr_scan"]
       \/ UNCHANGED attempt
    /\ UNCHANGED <<link, stopped, session, linked, start, loginPc, logoutPc, unpaired>>

(* #writeSession opens the file, which empties it.                         *)
PollTruncates(p) ==
    /\ poll[p].pc = "writing"
    /\ session' = None
    /\ poll' = [poll EXCEPT ![p].pc = "filling"]
    /\ UNCHANGED <<link, stopped, linked, start, attempt, loginPc, logoutPc, unpaired>>

(* Fault: a write that fails is passed over.                               *)
PollWritesOrNot(p) ==
    /\ poll[p].pc = "filling"
    /\ session' \in {session, poll[p].account}
    /\ poll' = [poll EXCEPT ![p].pc = "upserting"]
    /\ UNCHANGED <<link, stopped, linked, start, attempt, loginPc, logoutPc, unpaired>>

PollWrites(p) ==
    /\ poll[p].pc = "filling"
    /\ session' = poll[p].account
    /\ poll' = [poll EXCEPT ![p].pc = "upserting"]
    /\ UNCHANGED <<link, stopped, linked, start, attempt, loginPc, logoutPc, unpaired>>

(* The account row is written: the poll connects and the attempt is done.  *)
PollCompletes(p) ==
    /\ poll[p].pc = "upserting"
    /\ ConnectLive(poll[p].account)
    /\ attempt' = [attempt EXCEPT ![poll[p].of] = "completed"]
    /\ poll' = [poll EXCEPT ![p] = NoPoll]
    /\ UNCHANGED <<reading, stopped, session, linked, start, loginPc, logoutPc,
                   unpaired>>

(* The session file or the row cannot be written: submitLoginStep rejects. *)
PollFails(p) ==
    /\ poll[p].pc \in {"writing", "filling", "upserting"}
    /\ poll' = [poll EXCEPT ![p] = NoPoll]
    /\ unpaired' = (unpaired \/ poll[p].pc = "filling")
    /\ UNCHANGED <<link, stopped, session, linked, start, attempt, loginPc, logoutPc>>

-----------------------------------------------------------------------------
(* The phone scans a code, or removes the device.                          *)
PhoneLinks(a) ==
    /\ linked = None
    /\ \E l \in Logins : attempt[l] = "awaiting_qr_scan"
    /\ linked' = a
    /\ UNCHANGED <<link, stopped, session, start, pair, logoutPc, unpaired>>

PhoneUnlinks ==
    /\ linked' = None
    /\ UNCHANGED <<link, stopped, session, start, pair, logoutPc, unpaired>>

-----------------------------------------------------------------------------
(* Logout                                                                  *)

LogoutBegins ==
    /\ logoutPc = "idle"
    /\ stopped' = TRUE
    /\ StopLive
    /\ logoutPc' = "clearing"
    /\ unpaired' = TRUE
    /\ UNCHANGED <<reconnectTimer, armed, reading, session, linked, start, pair>>

(* clearSessions removes the session directory.                            *)
LogoutClears ==
    /\ logoutPc = "clearing"
    /\ session' = None
    /\ logoutPc' = "upserting"
    /\ UNCHANGED <<link, stopped, linked, start, pair, unpaired>>

(* The account row is written, or not: the logout is over.                 *)
LogoutReturns ==
    /\ logoutPc = "upserting"
    /\ logoutPc' = "idle"
    /\ UNCHANGED <<link, stopped, session, linked, start, pair, unpaired>>

-----------------------------------------------------------------------------
(* The gateway process dies and is started again: the session survives.    *)
Restart ==
    /\ client' = None /\ reconnectTimer' = FALSE /\ armed' = FALSE /\ stopped' = FALSE
    /\ attempt' = [l \in Logins |-> "none"]
    /\ receiving' = [s \in Streams |-> None]
    /\ reading' = 0
    /\ startPc' = "boot" /\ startAccount' = None
    /\ loginPc' = [l \in Logins |-> "idle"] /\ logoutPc' = "idle"
    /\ poll' = [p \in Polls |-> NoPoll]
    /\ unpaired' = FALSE
    /\ UNCHANGED <<session, linked>>

Next ==
    \/ StartBegins \/ StartReads \/ StartConnects
    \/ \E s \in Streams : Disconnects(s)
    \/ TimerFires \/ TimerResumes
    \/ \E l \in Logins : LoginBegins(l) \/ LoginReturns(l)
    \/ \E p \in Polls :
          \/ \E l \in Logins : PollBegins(p, l)
          \/ PollFinds(p) \/ PollFindsNone(p) \/ PollIssues(p)
          \/ PollTruncates(p) \/ PollWrites(p) \/ PollCompletes(p) \/ PollFails(p)
    \/ PhoneUnlinks \/ \E a \in Accounts : PhoneLinks(a)
    \/ LogoutBegins \/ LogoutClears \/ LogoutReturns
    \/ Restart

(* Node runs a due timer and an answered read.  Nothing else has to occur. *)
Fairness == WF_vars(TimerFires) /\ WF_vars(TimerResumes)

Spec     == Init /\ [][Next]_vars
FairSpec == Spec /\ Fairness

-----------------------------------------------------------------------------
(* Properties                                                              *)

(* Start, polls, timer callbacks and logouts together never leave a stream *)
(* open that the connector does not hold: it could neither be closed nor   *)
(* keep a second one from ingesting every message twice.                   *)
OneStream == \A s \in Streams : receiving[s] # None <=> s = client

(* The handle and the timer agree: a stale handle would silence            *)
(* #scheduleReconnect for good, a lost one would double the timers.        *)
TimerTracked == reconnectTimer <=> armed

(* Nothing but a logout, or a session file that could not be rewritten,    *)
(* leaves a stream or a startup that still connects without a pairing on   *)
(* disk, which the next process would need.                                *)
StreamPaired ==
    ~unpaired /\ (client # None \/ startPc = "upserting")
        => session # None \/ \E p \in Polls : poll[p].pc = "filling"

(* A back-off ends with a stream, as long as the pairing on disk is one    *)
(* the stream accepts and nobody stops or restarts the connector.          *)
Reconnects ==
    reconnectTimer ~>
        (client # None \/ stopped \/ startPc = "boot" \/ session \in Refused \cup {None})

(* The connector implements the supervisor it is supposed to be.  A timer  *)
(* that a logout has left armed does nothing.                              *)
Dialing ==
    \/ reading > 0 \/ startPc \in {"reading", "upserting"}
    \/ \E p \in Polls : poll[p].pc = "upserting"

Link ==
    IF Dialing THEN "dialing"
    ELSE IF client # None THEN "up"
    ELSE IF armed /\ ~stopped THEN "backoff" ELSE "idle"

Started == startPc # "boot"

Supervisor == INSTANCE ConnectionSupervisor
    WITH link <- Link, halted <- stopped, started <- Started

SupervisorSpec == Supervisor!Spec

(* Nothing there, nothing on the way and nothing scheduled, although the   *)
(* startup is over and nobody has logged out.                              *)
GivenUp == Started /\ ~stopped /\ Link = "idle"

(* Streams that close, refused accounts, timers, polls and logouts in any  *)
(* order never make a connector with a pairing on disk give up.  Only a    *)
(* startup or a poll that cannot write the account row does, for these two *)
(* schedule nothing (signal.mjs 125-152, 312-326).                          *)
GivesUpUnpaired ==
    [][GivenUp' => \/ GivenUp \/ session = None
                   \/ startPc = "upserting" /\ StartConnects
                   \/ \E p \in Polls : poll[p].pc = "upserting" /\ PollFails(p)]_vars

(* What the code says of itself and does not keep.                         *)

(* "the armed timer must not resurrect the stream": the callback of a      *)
(* connector that a logout has stopped leaves this.client alone.           *)
TimerInert == [][TimerResumes /\ stopped => UNCHANGED client]_vars

(* "the completed attempt clears qr_text/qr_svg": an attempt that has      *)
(* completed shows no QR code again.                                       *)
CompletedStays ==
    [][\A l \in Logins : attempt[l] = "completed" => attempt'[l] # "awaiting_qr_scan"]_vars
=============================================================================
