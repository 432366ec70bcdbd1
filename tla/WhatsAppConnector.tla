-------------------------- MODULE WhatsAppConnector --------------------------
(***************************************************************************)
(* The connection life cycle of the WhatsApp connector of the chat gateway *)
(* (chat-gateway/src/providers/whatsapp.mjs): the startup recovery, the    *)
(* QR login, the logout, the single-flight socket build, the reconnect     *)
(* timer and the connection.update handler.                                *)
(*                                                                         *)
(* JavaScript runs one segment at a time, so an action is the code from    *)
(* one await to the next.  What is awaited (a file operation, a socket     *)
(* build, socket.end(), a database write) completes in a later action, and *)
(* any other segment may run in between.                                   *)
(*                                                                         *)
(* Left out: the messages themselves, the account row (the connector only  *)
(* writes it), the rendering of the QR code (qrState is written and never  *)
(* read) and the length of the back-off: a timer may fire at any time.     *)
(***************************************************************************)
EXTENDS FiniteSets, Naturals

CONSTANTS
    Sockets,    \* socket objects; one that is closed and forgotten is reused
    Timers,     \* timer handles; one that is neither armed nor firing is reused
    Logins,     \* the POST /login calls a process serves
    None        \* JavaScript's null

ASSUME NoneAssumption == None \notin Sockets \cup Timers \cup Logins

VARIABLES
    \* fields of the connector
    socket,         \* this.socket
    connecting,     \* this.connecting: a build's promise is held
    reconnectTimer, \* this.reconnectTimer
    stopped,        \* this.stopped
    \* the persisted pairing
    session,        \* auth/creds.json exists in the session directory
    \* Baileys' sockets, and the handlers suspended in a database write
    phase,          \* phase[s]: where socket s is in its life
    user,           \* sockets with a user: they hold a pairing
    attemptOf,      \* attemptOf[s]: the attemptId its handlers closed over
    closing,        \* sockets whose close handler awaits the account upsert
    opening,        \* sockets whose open handler awaits the account upsert
    \* Node's timers
    armed,          \* scheduled and not yet fired
    firing,         \* callbacks suspended in #connectSocket
    \* the callers
    startPc, loginPc, logoutPc,
    attempt         \* attempt[l]: the state of l's login attempt

fields  == <<socket, connecting, reconnectTimer, stopped>>
world   == <<session, phase, user, attemptOf, closing, opening>>
timers  == <<armed, firing>>
callers == <<startPc, loginPc, logoutPc, attempt>>
vars    == <<fields, world, timers, callers>>

Phase == {"building", "connecting", "open", "closed"}

TypeOK ==
    /\ socket \in Sockets \cup {None}
    /\ reconnectTimer \in Timers \cup {None}
    /\ connecting \in BOOLEAN /\ stopped \in BOOLEAN /\ session \in BOOLEAN
    /\ phase \in [Sockets -> Phase]
    /\ attemptOf \in [Sockets -> Logins \cup {None}]
    /\ user \subseteq Sockets /\ closing \subseteq Sockets /\ opening \subseteq Sockets
    /\ armed \subseteq Timers /\ firing \subseteq Timers
    /\ startPc \in {"boot", "connecting", "done"}
    /\ loginPc \in [Logins -> {"idle", "ending", "connecting", "returned", "failed"}]
    /\ logoutPc \in {"idle", "ending", "clearing"}
    /\ attempt \in [Logins -> {"none", "initializing", "awaiting_qr_scan", "completed"}]

Live   == {s \in Sockets : phase[s] \in {"connecting", "open"}}
Builds == {s \in Sockets : phase[s] = "building"}

(* A process that begins to listen holds nothing in memory.                *)
Init ==
    /\ socket = None /\ connecting = FALSE
    /\ reconnectTimer = None /\ stopped = FALSE
    /\ session \in BOOLEAN
    /\ phase = [s \in Sockets |-> "closed"]
    /\ attemptOf = [s \in Sockets |-> None]
    /\ user = {} /\ closing = {} /\ opening = {} /\ armed = {} /\ firing = {}
    /\ startPc = "boot" /\ logoutPc = "idle"
    /\ loginPc = [l \in Logins |-> "idle"]
    /\ attempt = [l \in Logins |-> "none"]

-----------------------------------------------------------------------------
(* The private methods                                                     *)

(* A closed object that no handler runs for stands for the next one made.  *)
Unused(s) == phase[s] = "closed" /\ s \notin closing \cup opening

FreshTimer(t) == t \notin armed \cup firing

(* Fault: the guard on this.connecting is missing.                         *)
ConnectSocketStacked(sock, l) ==
    IF sock = None
    THEN \E s \in Sockets :
            /\ Unused(s)
            /\ phase' = [phase EXCEPT ![s] = "building"]
            /\ user' = user \ {s}
            /\ attemptOf' = [attemptOf EXCEPT ![s] = l]
            /\ connecting' = TRUE
    ELSE UNCHANGED <<phase, user, attemptOf, connecting>>

(* #connectSocket, called with this.socket = sock: the socket there is,    *)
(* else the build in flight, else a new build, whose handlers close over   *)
(* the attempt l.                                                          *)
ConnectSocket(sock, l) ==
    IF sock = None /\ ~connecting
    THEN \E s \in Sockets :
            /\ Unused(s)
            /\ phase' = [phase EXCEPT ![s] = "building"]
            /\ user' = user \ {s}
            /\ attemptOf' = [attemptOf EXCEPT ![s] = l]
            /\ connecting' = TRUE
    ELSE UNCHANGED <<phase, user, attemptOf, connecting>>

(* #scheduleReconnect, called with this.reconnectTimer = timer and         *)
(* this.connecting = inFlight.                                             *)
ScheduleReconnect(timer, inFlight) ==
    IF stopped \/ timer # None \/ inFlight
    THEN reconnectTimer' = timer /\ UNCHANGED armed
    ELSE \E t \in Timers :
            /\ FreshTimer(t)
            /\ armed' = armed \cup {t}
            /\ reconnectTimer' = t

(* clearTimeout: a callback that already runs is not stopped.              *)
ClearTimer ==
    /\ armed' = armed \ {reconnectTimer}
    /\ reconnectTimer' = None

(* socket.end(): Baileys reports the close to the handlers, once, and they *)
(* begin to write the account row.                                         *)
End(s) ==
    IF phase[s] \in {"connecting", "open"}
    THEN /\ phase' = [phase EXCEPT ![s] = "closed"]
         /\ closing' = closing \cup {s}
    ELSE UNCHANGED <<phase, closing>>

-----------------------------------------------------------------------------
(* Startup recovery                                                        *)

(* start(), once hasSession() has answered.  The gateway already serves    *)
(* requests while the connectors before this one start.                    *)
Start ==
    /\ startPc = "boot"
    /\ IF session
       THEN /\ stopped' = FALSE
            /\ ConnectSocket(socket, None)
            /\ startPc' = IF socket = None THEN "connecting" ELSE "done"
       ELSE /\ startPc' = "done"
            /\ UNCHANGED <<stopped, phase, user, attemptOf, connecting>>
    /\ UNCHANGED <<socket, reconnectTimer, session, closing, opening, timers,
                   loginPc, logoutPc, attempt>>

-----------------------------------------------------------------------------
(* A socket build, the timer callback, and everybody who awaits the build  *)

(* The callback, up to its await or, with nothing to do, to its end.       *)
TimerFires(t) ==
    /\ t \in armed
    /\ armed' = armed \ {t}
    /\ IF stopped \/ socket # None
       THEN /\ reconnectTimer' = None
            /\ UNCHANGED <<firing, phase, user, attemptOf, connecting>>
       ELSE /\ firing' = firing \cup {t}
            /\ ConnectSocket(socket, None)
            /\ UNCHANGED reconnectTimer
    /\ UNCHANGED <<socket, stopped, session, closing, opening, callers>>

(* Fault: the callback does not try again.                                 *)
TimerFinallyOnce(sock) ==
    /\ firing' = {}
    /\ reconnectTimer' = IF firing = {} THEN reconnectTimer ELSE None
    /\ UNCHANGED armed

(* Its finally, with this.socket = sock: it drops the handle and, when the *)
(* build has left no socket, schedules the next try.                       *)
TimerFinally(sock) ==
    /\ firing' = {}
    /\ IF firing # {} /\ sock = None
       THEN ScheduleReconnect(None, FALSE)
       ELSE /\ reconnectTimer' = IF firing = {} THEN reconnectTimer ELSE None
            /\ UNCHANGED armed

AwaitersReturn(outcome) ==
    /\ startPc' = IF startPc = "connecting" THEN "done" ELSE startPc
    /\ loginPc' = [l \in Logins |->
                     IF loginPc[l] = "connecting" THEN outcome ELSE loginPc[l]]

(* #buildSocket ends.  The credentials it read give the socket its user.   *)
(* The awaiters run up to their next await before another event is served. *)
BuildDone(s) ==
    /\ phase[s] = "building"
    /\ phase' = [phase EXCEPT ![s] = "connecting"]
    /\ user' = IF session THEN user \cup {s} ELSE user
    /\ socket' = s
    /\ connecting' = FALSE
    /\ TimerFinally(s)
    /\ AwaitersReturn("returned")
    /\ UNCHANGED <<stopped, session, attemptOf, closing, opening, logoutPc, attempt>>

(* It throws: start() and beginLogin() reject, the callback tries again.   *)
BuildFails(s) ==
    /\ phase[s] = "building"
    /\ phase' = [phase EXCEPT ![s] = "closed"]
    /\ connecting' = FALSE
    /\ TimerFinally(socket)
    /\ AwaitersReturn("failed")
    /\ UNCHANGED <<socket, stopped, session, user, attemptOf, closing, opening,
                   logoutPc, attempt>>

-----------------------------------------------------------------------------
(* Login                                                                   *)

(* beginLogin from the clearing of the timer to the await of the socket.   *)
LoginConnects(l, sock) ==
    /\ socket' = sock
    /\ ClearTimer
    /\ attempt' = [attempt EXCEPT ![l] = "initializing"]
    /\ ConnectSocket(sock, l)
    /\ loginPc' = [loginPc EXCEPT ![l] = IF sock = None THEN "connecting" ELSE "returned"]
    /\ UNCHANGED closing

(* beginLogin once the directories exist.  An unpaired socket is torn down *)
(* first, which takes an await.                                            *)
LoginBegins(l) ==
    /\ loginPc[l] = "idle"
    /\ IF socket # None /\ socket \notin user
       THEN /\ End(socket)
            /\ loginPc' = [loginPc EXCEPT ![l] = "ending"]
            /\ UNCHANGED <<fields, user, attemptOf, armed, attempt>>
       ELSE LoginConnects(l, socket)
    /\ UNCHANGED <<stopped, session, opening, firing, startPc, logoutPc>>

LoginEnded(l) ==
    /\ loginPc[l] = "ending"
    /\ LoginConnects(l, None)
    /\ UNCHANGED <<stopped, session, opening, firing, startPc, logoutPc>>

-----------------------------------------------------------------------------
(* Logout                                                                  *)

(* Fault: the timer is left running.                                       *)
LogoutStopsOnly ==
    /\ socket' = None
    /\ stopped' = TRUE
    /\ logoutPc' = "clearing"
    /\ UNCHANGED <<armed, reconnectTimer>>

(* logout from the end of the teardown to the await of clearSessions.      *)
LogoutStops ==
    /\ socket' = None
    /\ stopped' = TRUE
    /\ ClearTimer
    /\ logoutPc' = "clearing"

LogoutBegins ==
    /\ logoutPc = "idle"
    /\ IF socket # None
       THEN /\ End(socket)
            /\ logoutPc' = "ending"
            /\ UNCHANGED <<socket, stopped, reconnectTimer, armed>>
       ELSE LogoutStops /\ UNCHANGED <<phase, closing>>
    /\ UNCHANGED <<connecting, session, user, attemptOf, opening, firing,
                   startPc, loginPc, attempt>>

LogoutEnded ==
    /\ logoutPc = "ending"
    /\ LogoutStops
    /\ UNCHANGED <<connecting, world, firing, startPc, loginPc, attempt>>

(* clearSessions removes the session directory.                            *)
LogoutClears ==
    /\ logoutPc = "clearing"
    /\ session' = FALSE
    /\ logoutPc' = "idle"
    /\ UNCHANGED <<fields, phase, user, attemptOf, closing, opening, timers,
                   startPc, loginPc, attempt>>

-----------------------------------------------------------------------------
(* What Baileys reports                                                    *)

(* connection.update with a QR code, which only an unpaired socket emits.  *)
QrArrives(s) ==
    /\ phase[s] = "connecting" /\ s \notin user
    /\ attemptOf[s] # None /\ attempt[attemptOf[s]] = "initializing"
    /\ attempt' = [attempt EXCEPT ![attemptOf[s]] = "awaiting_qr_scan"]
    /\ UNCHANGED <<fields, world, timers, startPc, loginPc, logoutPc>>

(* creds.update: the phone has scanned the code, or a key has changed.     *)
CredsUpdate(s) ==
    /\ s \in Live
    /\ user' = user \cup {s}
    /\ session' = TRUE
    /\ UNCHANGED <<fields, phase, attemptOf, closing, opening, timers, callers>>

(* Fault: a misspelt state.                                                *)
OpenHandledMisspelt(s) ==
    /\ s \in opening /\ attemptOf[s] # None
    /\ opening' = opening \ {s}
    /\ attempt' = [attempt EXCEPT ![attemptOf[s]] = "complete"]
    /\ UNCHANGED <<fields, session, phase, user, attemptOf, closing, timers,
                   startPc, loginPc, logoutPc>>

(* connection.update with connection = open: the handler awaits the upsert *)
(* of the account row and then, unless that failed, completes its attempt. *)
Opens(s) ==
    /\ phase[s] = "connecting" /\ s \in user
    /\ phase' = [phase EXCEPT ![s] = "open"]
    /\ opening' = opening \cup {s}
    /\ UNCHANGED <<fields, session, user, attemptOf, closing, timers, callers>>

OpenHandled(s) ==
    /\ s \in opening
    /\ opening' = opening \ {s}
    /\ IF attemptOf[s] = None
       THEN UNCHANGED attempt
       ELSE attempt' \in {attempt, [attempt EXCEPT ![attemptOf[s]] = "completed"]}
    /\ UNCHANGED <<fields, session, phase, user, attemptOf, closing, timers,
                   startPc, loginPc, logoutPc>>

(* Fault: any update that does not say open is taken for a close.          *)
ClosesTooEagerly(s) ==
    /\ s \in Live
    /\ closing' = closing \cup {s}
    /\ UNCHANGED <<fields, session, phase, user, attemptOf, opening, timers, callers>>

(* Fault: a failed upsert of the account row ends the handler.             *)
CloseHandledUncaught(s) ==
    /\ s \in closing
    /\ closing' = closing \ {s}
    /\ \/ socket' = None /\ ScheduleReconnect(reconnectTimer, connecting)
       \/ UNCHANGED <<socket, reconnectTimer, armed>>
    /\ UNCHANGED <<connecting, stopped, session, phase, user, attemptOf, opening,
                   firing, callers>>

(* The network, WhatsApp or the restart that follows a pairing closes the  *)
(* socket.  The handler awaits its upsert, whatever comes of that.         *)
Closes(s) ==
    /\ s \in Live
    /\ End(s)
    /\ UNCHANGED <<fields, session, user, attemptOf, opening, timers, callers>>

CloseHandled(s) ==
    /\ s \in closing
    /\ closing' = closing \ {s}
    /\ socket' = None
    /\ ScheduleReconnect(reconnectTimer, connecting)
    /\ UNCHANGED <<connecting, stopped, session, phase, user, attemptOf, opening,
                   firing, callers>>

-----------------------------------------------------------------------------
(* The gateway process dies and is started again: the session survives.    *)
Restart ==
    /\ socket' = None /\ connecting' = FALSE
    /\ reconnectTimer' = None /\ stopped' = FALSE
    /\ phase' = [s \in Sockets |-> "closed"]
    /\ attemptOf' = [s \in Sockets |-> None]
    /\ user' = {} /\ closing' = {} /\ opening' = {} /\ armed' = {} /\ firing' = {}
    /\ startPc' = "boot" /\ logoutPc' = "idle"
    /\ loginPc' = [l \in Logins |-> "idle"]
    /\ attempt' = [l \in Logins |-> "none"]
    /\ UNCHANGED session

Next ==
    \/ Start \/ LogoutBegins \/ LogoutEnded \/ LogoutClears \/ Restart
    \/ \E t \in Timers : TimerFires(t)
    \/ \E l \in Logins : LoginBegins(l) \/ LoginEnded(l)
    \/ \E s \in Sockets :
          \/ BuildDone(s) \/ BuildFails(s)
          \/ QrArrives(s) \/ CredsUpdate(s)
          \/ Opens(s) \/ OpenHandled(s) \/ Closes(s) \/ CloseHandled(s)

(* Node runs what is ready: a due timer, an answered database call, a      *)
(* finished or failed build, an ended socket.  Nobody has to log in or     *)
(* out, no socket has to open, and no process has to crash.                *)
Fairness ==
    /\ WF_vars(Start)
    /\ WF_vars(LogoutEnded) /\ WF_vars(LogoutClears)
    /\ WF_vars(\E t \in Timers : TimerFires(t))
    /\ \A l \in Logins : WF_vars(LoginEnded(l))
    /\ \A s \in Sockets : /\ WF_vars(BuildDone(s) \/ BuildFails(s))
                          /\ WF_vars(OpenHandled(s))
                          /\ WF_vars(CloseHandled(s))

Spec     == Init /\ [][Next]_vars
FairSpec == Spec /\ Fairness

-----------------------------------------------------------------------------
(* Properties                                                              *)

(* The single-flight guard of #connectSocket and the field it tests agree  *)
(* with what is really in flight, whoever started it and whoever joined:   *)
(* one build at most, and this.connecting is set exactly while it runs.    *)
SingleFlight ==
    /\ connecting <=> Builds # {}
    /\ \A s1, s2 \in Builds : s1 = s2

(* No timer escapes: one that is armed is the one this.reconnectTimer      *)
(* holds, so that a logout or a login cancels it, a callback that has not  *)
(* finished is waiting for a build, and a handle that is held stands for a *)
(* timer or a callback: a stale one would silence #scheduleReconnect.      *)
TimerTracked ==
    /\ armed \subseteq {reconnectTimer}
    /\ firing # {} => connecting /\ armed = {}
    /\ reconnectTimer # None => armed # {} \/ firing # {}

(* A stopped connector waits for no timer: nothing but a build that was    *)
(* already under way, or a new login, can bring a socket back.             *)
StoppedDisarms == stopped => armed = {}

(* As long as nobody has logged in or out, the sockets that are alive are  *)
(* the one this.socket holds: closes, failed builds, reconnects and        *)
(* restarts alone never fork the connection into two sockets on one        *)
(* pairing.                                                                *)
OnlyOperatorForks ==
    (\A l \in Logins : loginPc[l] = "idle") /\ ~stopped => Live \subseteq {socket}

(* The connector never relies on a socket that is dead without the close   *)
(* handler of that socket being about to run: a handler that is late, or   *)
(* one of an older socket, cannot leave a dead one behind (whatsapp.mjs    *)
(* 237-256).                                                               *)
DeathNoticed == socket # None => socket \in Live \cup closing

(* Nothing there, nothing on the way and nothing scheduled.                *)
Stranded == ~stopped /\ socket = None /\ ~connecting /\ armed = {}

(* Closes, timers, logins and logouts in any order never strand a          *)
(* connector that is not stopped.  Only a new process begins so, and only  *)
(* a build that fails for start() or beginLogin(), with no timer's         *)
(* callback waiting for it, gives up, also when a close handler relied on  *)
(* that build and armed no timer (whatsapp.mjs 126-145).                   *)
StrandedOnlyByBuild ==
    [][Stranded' => \/ Stranded \/ Restart
                    \/ \E s \in Sockets : BuildFails(s) /\ firing = {}]_vars

(* The loss of the socket the connector relies on is answered by a new     *)
(* build, unless the operator stops the connector or the process restarts. *)
LossAnswered ==
    (socket \in closing /\ ~stopped) ~> (Builds # {} \/ stopped \/ startPc = "boot")

(* A reconnect that fails hard is not the last: as long as no socket is    *)
(* there another timer is armed, unless the connector stops or restarts.   *)
KeepsTrying ==
    firing # {} ~> (socket # None \/ armed # {} \/ stopped \/ startPc = "boot")

(* The connector implements the supervisor it is supposed to be.           *)
Link ==
    IF connecting THEN "dialing"
    ELSE IF socket # None THEN "up"
    ELSE IF armed # {} THEN "backoff" ELSE "idle"

Started == startPc # "boot"

Supervisor == INSTANCE ConnectionSupervisor
    WITH link <- Link, halted <- stopped, started <- Started

SupervisorSpec == Supervisor!Spec

(* What the code says of itself and does not keep.                         *)

(* "Single-flight: concurrent close events must not stack socket builds":  *)
(* there are never two live sockets on the one pairing.                    *)
SingleLiveSocket == Cardinality(Live) <= 1

(* "session cleanup below is authoritative": once a logout has returned    *)
(* and the connector is stopped, neither a live socket nor a session is    *)
(* left (to be read in an instance without logins).                        *)
LogoutAuthoritative == stopped /\ logoutPc = "idle" => Live = {} /\ ~session

(* "reusing it would leave the login attempt stuck": a login attempt that  *)
(* beginLogin has returned and that still initializes has a socket of its  *)
(* own to bring the QR code.                                               *)
AttemptHasSocket ==
    \A l \in Logins :
        loginPc[l] = "returned" /\ attempt[l] = "initializing"
            => \E s \in Live : attemptOf[s] = l
=============================================================================
