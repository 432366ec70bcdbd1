----------------------- MODULE WhatsAppConnectorProofs -----------------------
(***************************************************************************)
(* Proofs about WhatsAppConnector for every set of sockets, timers and     *)
(* logins.  The three guards of the connector hold each other up, so they  *)
(* are proved together as one inductive invariant; that nothing but the    *)
(* operator forks the connection needs a second one, relative to it.       *)
(***************************************************************************)
EXTENDS WhatsAppConnector, TLAPS

(* The type invariant: every field, continuation and timer the connector   *)
(* keeps stays within its range.                                           *)
THEOREM TypeCorrect == Spec => []TypeOK
<1> USE DEF TypeOK, Phase, fields, world, timers, callers
<1>1. Init => TypeOK
  BY DEF Init
<1>2. TypeOK /\ [Next]_vars => TypeOK'
  <2> SUFFICES ASSUME TypeOK, [Next]_vars
               PROVE  TypeOK'
    OBVIOUS
  <2> USE DEF ConnectSocket, ScheduleReconnect, ClearTimer, TimerFinally, AwaitersReturn
  <2>1. CASE Start BY <2>1 DEF Start
  <2>2. ASSUME NEW t \in Timers, TimerFires(t) PROVE TypeOK'
    BY <2>2 DEF TimerFires
  <2>3. ASSUME NEW s \in Sockets, BuildDone(s) PROVE TypeOK'
    BY <2>3 DEF BuildDone
  <2>4. ASSUME NEW s \in Sockets, BuildFails(s) PROVE TypeOK'
    BY <2>4 DEF BuildFails
  <2>5. ASSUME NEW l \in Logins, LoginBegins(l) PROVE TypeOK'
    <3>1. CASE socket # None /\ socket \notin user
      BY <2>5, <3>1 DEF LoginBegins, End
    <3>2. CASE socket = None /\ ~connecting
      BY <2>5, <3>2 DEF LoginBegins, LoginConnects
    <3>3. CASE socket = None /\ connecting
      BY <2>5, <3>3 DEF LoginBegins, LoginConnects
    <3>4. CASE socket # None /\ socket \in user
      BY <2>5, <3>4 DEF LoginBegins, LoginConnects
    <3>5. QED BY <3>1, <3>2, <3>3, <3>4
  <2>6. ASSUME NEW l \in Logins, LoginEnded(l) PROVE TypeOK'
    BY <2>6 DEF LoginEnded, LoginConnects
  <2>7. CASE LogoutBegins BY <2>7 DEF LogoutBegins, LogoutStops, End
  <2>8. CASE LogoutEnded BY <2>8 DEF LogoutEnded, LogoutStops
  <2>9. CASE LogoutClears BY <2>9 DEF LogoutClears
  <2>10. ASSUME NEW s \in Sockets, QrArrives(s) PROVE TypeOK'
    BY <2>10 DEF QrArrives
  <2>11. ASSUME NEW s \in Sockets, CredsUpdate(s) PROVE TypeOK'
    BY <2>11 DEF CredsUpdate
  <2>12. ASSUME NEW s \in Sockets, Opens(s) PROVE TypeOK'
    BY <2>12 DEF Opens
  <2>13. ASSUME NEW s \in Sockets, OpenHandled(s) PROVE TypeOK'
    BY <2>13 DEF OpenHandled
  <2>14. ASSUME NEW s \in Sockets, Closes(s) PROVE TypeOK'
    BY <2>14 DEF Closes, End
  <2>15. ASSUME NEW s \in Sockets, CloseHandled(s) PROVE TypeOK'
    BY <2>15 DEF CloseHandled
  <2>16. CASE Restart BY <2>16 DEF Restart
  <2>17. CASE UNCHANGED vars BY <2>17 DEF vars
  <2>18. QED
    BY <2>1, <2>2, <2>3, <2>4, <2>5, <2>6, <2>7, <2>8, <2>9, <2>10, <2>11, <2>12,
       <2>13, <2>14, <2>15, <2>16, <2>17 DEF Next
<1>3. QED
  BY <1>1, <1>2, PTL DEF Spec

-----------------------------------------------------------------------------
(* The guards of the connector.  SingleFlight alone is inductive;          *)
(* TimerTracked needs it, because #scheduleReconnect relies on             *)
(* this.connecting while a callback whose handle was cleared still waits.  *)
Guards == TypeOK /\ SingleFlight /\ TimerTracked /\ StoppedDisarms

(* #connectSocket keeps this.connecting and the builds in step.            *)
LEMMA ConnectSingleFlight ==
  ASSUME TypeOK, SingleFlight, NEW sock, NEW l, ConnectSocket(sock, l)
  PROVE  /\ SingleFlight'
         /\ connecting => connecting'
         /\ sock = None => connecting'
<1> USE NoneAssumption DEF TypeOK, SingleFlight, Builds, ConnectSocket
<1>1. CASE sock = None /\ ~connecting
  <2>1. PICK s \in Sockets : /\ Unused(s)
                             /\ phase' = [phase EXCEPT ![s] = "building"]
                             /\ connecting' = TRUE
    BY <1>1
  <2>2. Builds' = {s}
    BY <2>1, <1>1
  <2>3. QED BY <2>1, <2>2
<1>2. CASE ~(sock = None /\ ~connecting)
  BY <1>2
<1>3. QED BY <1>1, <1>2

(* #scheduleReconnect, called with no callback waiting and the handle in   *)
(* step with the armed timers, leaves them in step.                        *)
LEMMA ScheduleTracks ==
  ASSUME TypeOK, NEW timer \in Timers \cup {None}, NEW inFlight \in BOOLEAN,
         armed \subseteq {timer}, stopped => armed = {},
         ScheduleReconnect(timer, inFlight)
  PROVE  /\ armed' \subseteq {reconnectTimer'}
         /\ inFlight => armed' = armed
         /\ stopped => armed' = {}
         /\ armed' # {} \/ (reconnectTimer' = timer /\ armed' = armed)
BY NoneAssumption DEF TypeOK, ScheduleReconnect

(* The single-flight build, the tracked timer and the disarmed stop hold   *)
(* in every reachable state.                                               *)
THEOREM GuardsHold == Spec => [](SingleFlight /\ TimerTracked /\ StoppedDisarms)
<1>1. Init => Guards
  BY DEF Init, Guards, TypeOK, Phase, SingleFlight, TimerTracked, StoppedDisarms, Builds
<1>2. TypeOK /\ TypeOK' /\ Guards /\ [Next]_vars => Guards'
  <2> SUFFICES ASSUME TypeOK, TypeOK', SingleFlight, TimerTracked, StoppedDisarms,
                      [Next]_vars
               PROVE  SingleFlight' /\ TimerTracked' /\ StoppedDisarms'
    BY DEF Guards
  <2> USE NoneAssumption
  <2>1. CASE Start
    <3>1. CASE session
      <4>1. ConnectSocket(socket, None) BY <2>1, <3>1 DEF Start
      <4>2. SingleFlight' /\ (connecting => connecting')
        BY <4>1, ConnectSingleFlight
      <4>3. TimerTracked' /\ StoppedDisarms'
        BY <2>1, <3>1, <4>2 DEF Start, TimerTracked, StoppedDisarms, timers
      <4>4. QED BY <4>2, <4>3
    <3>2. CASE ~session
      BY <2>1, <3>2 DEF Start, SingleFlight, Builds, TimerTracked, StoppedDisarms, timers
    <3>3. QED BY <3>1, <3>2
  <2>2. ASSUME NEW t \in Timers, TimerFires(t)
        PROVE  SingleFlight' /\ TimerTracked' /\ StoppedDisarms'
    <3>1. armed = {t} /\ armed' = {} /\ firing = {} /\ reconnectTimer = t
      BY <2>2 DEF TimerFires, TimerTracked
    <3>2. CASE stopped \/ socket # None
      BY <2>2, <3>1, <3>2
      DEF TimerFires, SingleFlight, Builds, TimerTracked, StoppedDisarms
    <3>3. CASE ~stopped /\ socket = None
      <4>1. ConnectSocket(socket, None) BY <2>2, <3>3 DEF TimerFires
      <4>2. SingleFlight' /\ connecting'
        BY <4>1, <3>3, ConnectSingleFlight
      <4>3. QED BY <2>2, <3>1, <3>3, <4>2 DEF TimerFires, TimerTracked, StoppedDisarms
    <3>4. QED BY <3>2, <3>3
  <2>3. ASSUME NEW s \in Sockets, BuildDone(s)
        PROVE  SingleFlight' /\ TimerTracked' /\ StoppedDisarms'
    <3>1. Builds = {s} /\ Builds' = {} /\ connecting' = FALSE
      BY <2>3 DEF BuildDone, SingleFlight, Builds, TypeOK
    <3>2. /\ firing' = {} /\ armed' = armed
          /\ armed' \subseteq {reconnectTimer'}
          /\ reconnectTimer' # None => armed' # {}
      BY <2>3 DEF BuildDone, TimerFinally, TimerTracked
    <3>3. QED BY <2>3, <3>1, <3>2 DEF BuildDone, SingleFlight, TimerTracked, StoppedDisarms
  <2>4. ASSUME NEW s \in Sockets, BuildFails(s)
        PROVE  SingleFlight' /\ TimerTracked' /\ StoppedDisarms'
    <3>1. Builds = {s} /\ Builds' = {} /\ connecting' = FALSE
      BY <2>4 DEF BuildFails, SingleFlight, Builds, TypeOK
    <3>2. /\ firing' = {}
          /\ armed' \subseteq {reconnectTimer'}
          /\ stopped => armed' = {}
          /\ reconnectTimer' # None => armed' # {}
      <4>1. CASE firing # {} /\ socket = None
        <5>1. armed = {} /\ ScheduleReconnect(None, FALSE) /\ firing' = {}
          BY <2>4, <4>1 DEF BuildFails, TimerFinally, TimerTracked
        <5>2. QED BY <5>1, ScheduleTracks
      <4>2. CASE ~(firing # {} /\ socket = None)
        BY <2>4, <4>2 DEF BuildFails, TimerFinally, TimerTracked, StoppedDisarms
      <4>3. QED BY <4>1, <4>2
    <3>3. QED BY <2>4, <3>1, <3>2 DEF BuildFails, SingleFlight, TimerTracked, StoppedDisarms
  <2>5. ASSUME NEW l \in Logins, LoginBegins(l)
        PROVE  SingleFlight' /\ TimerTracked' /\ StoppedDisarms'
    <3>1. CASE socket # None /\ socket \notin user
      <4>1. Builds' = Builds /\ UNCHANGED <<connecting, armed, reconnectTimer, stopped, firing>>
        BY <2>5, <3>1 DEF LoginBegins, End, Builds, TypeOK, fields
      <4>2. QED BY <4>1 DEF SingleFlight, TimerTracked, StoppedDisarms
    <3>2. CASE ~(socket # None /\ socket \notin user)
      <4>1. /\ ConnectSocket(socket, l) /\ ClearTimer
            /\ UNCHANGED <<firing, stopped>>
        BY <2>5, <3>2 DEF LoginBegins, LoginConnects
      <4>2. SingleFlight' /\ (connecting => connecting')
        BY <4>1, ConnectSingleFlight
      <4>3. QED BY <4>1, <4>2 DEF ClearTimer, TimerTracked, StoppedDisarms
    <3>3. QED BY <3>1, <3>2
  <2>6. ASSUME NEW l \in Logins, LoginEnded(l)
        PROVE  SingleFlight' /\ TimerTracked' /\ StoppedDisarms'
    <3>1. ConnectSocket(None, l) /\ ClearTimer /\ UNCHANGED <<firing, stopped>>
      BY <2>6 DEF LoginEnded, LoginConnects
    <3>2. SingleFlight' /\ (connecting => connecting')
      BY <3>1, ConnectSingleFlight
    <3>3. QED BY <3>1, <3>2 DEF ClearTimer, TimerTracked, StoppedDisarms
  <2>7. CASE LogoutBegins
    <3>1. Builds' = Builds /\ UNCHANGED <<connecting, firing>>
      BY <2>7 DEF LogoutBegins, LogoutStops, End, Builds, TypeOK
    <3>2. \/ UNCHANGED <<armed, reconnectTimer, stopped>>
          \/ ClearTimer
      BY <2>7 DEF LogoutBegins, LogoutStops
    <3>3. QED BY <3>1, <3>2 DEF ClearTimer, SingleFlight, TimerTracked, StoppedDisarms
  <2>8. CASE LogoutEnded
    BY <2>8 DEF LogoutEnded, LogoutStops, ClearTimer, world, Builds, SingleFlight,
                TimerTracked, StoppedDisarms
  <2>9. CASE LogoutClears
    BY <2>9 DEF LogoutClears, fields, timers, Builds, SingleFlight, TimerTracked,
                StoppedDisarms
  <2>10. ASSUME NEW s \in Sockets, QrArrives(s) \/ CredsUpdate(s) \/ OpenHandled(s)
         PROVE  SingleFlight' /\ TimerTracked' /\ StoppedDisarms'
    BY <2>10 DEF QrArrives, CredsUpdate, OpenHandled, fields, world, timers, Builds,
                 SingleFlight, TimerTracked, StoppedDisarms
  <2>11. ASSUME NEW s \in Sockets, Opens(s) \/ Closes(s)
         PROVE  SingleFlight' /\ TimerTracked' /\ StoppedDisarms'
    <3>1. Builds' = Builds
      BY <2>11 DEF Opens, Closes, End, Live, Builds, TypeOK
    <3>2. QED
      BY <2>11, <3>1 DEF Opens, Closes, fields, timers, SingleFlight, TimerTracked,
                         StoppedDisarms
  <2>12. ASSUME NEW s \in Sockets, CloseHandled(s)
         PROVE  SingleFlight' /\ TimerTracked' /\ StoppedDisarms'
    <3>1. /\ ScheduleReconnect(reconnectTimer, connecting)
          /\ UNCHANGED <<connecting, stopped, phase, firing>>
      BY <2>12 DEF CloseHandled
    <3>2. /\ armed' \subseteq {reconnectTimer'}
          /\ connecting => armed' = armed
          /\ stopped => armed' = {}
          /\ reconnectTimer' # None => armed' # {} \/ firing' # {}
      BY <3>1, ScheduleTracks DEF TypeOK, TimerTracked, StoppedDisarms
    <3>3. QED BY <3>1, <3>2 DEF Builds, SingleFlight, TimerTracked, StoppedDisarms
  <2>13. CASE Restart
    BY <2>13 DEF Restart, Builds, SingleFlight, TimerTracked, StoppedDisarms
  <2>14. CASE UNCHANGED vars
    BY <2>14 DEF vars, fields, world, timers, Builds, SingleFlight, TimerTracked,
                 StoppedDisarms
  <2>15. QED
    BY <2>1, <2>2, <2>3, <2>4, <2>5, <2>6, <2>7, <2>8, <2>9, <2>10, <2>11, <2>12,
       <2>13, <2>14 DEF Next
<1>3. Guards => SingleFlight /\ TimerTracked /\ StoppedDisarms
  BY DEF Guards
<1>4. QED
  BY <1>1, <1>2, <1>3, TypeCorrect, PTL DEF Spec

(* No timer is armed that this.reconnectTimer does not name, so clearTimer *)
(* never clears the wrong one and leaves another to fire.                  *)
THEOREM TimerIsTracked == Spec => []TimerTracked
BY GuardsHold, PTL

(* After #stop() no timer is armed: nothing reconnects a connector that    *)
(* the operator has logged out, once the builds under way have ended.      *)
THEOREM StoppedIsDisarmed == Spec => []StoppedDisarms
BY GuardsHold, PTL

-----------------------------------------------------------------------------
(* Before start() has run nothing but a login makes a socket or a timer.   *)
NobodyLoggedIn == \A l \in Logins : loginPc[l] = "idle"

Untouched == socket = None /\ Live = {} /\ Builds = {} /\ closing = {} /\ armed = {}

(* While nobody logs in or out the connector has, at any time, one of: a   *)
(* live socket, a socket whose close is being recorded, an armed timer, a  *)
(* build.  They follow each other and never overlap.                       *)
OneThing ==
    /\ Live \subseteq {socket}
    /\ closing \subseteq {socket}
    /\ \A s \in closing : phase[s] = "closed"
    /\ Builds # {} \/ armed # {} => socket = None
    /\ Builds # {} => armed = {}

OneSocket ==
    /\ NobodyLoggedIn /\ startPc = "boot" => Untouched
    /\ NobodyLoggedIn /\ ~stopped => OneThing

(* Starting a build from nothing leaves just the build.                    *)
LEMMA BuildFromNothing ==
  ASSUME TypeOK, Untouched, socket' = None, closing' = {}, armed' = {},
         ConnectSocket(None, None)
  PROVE  OneThing'
<1> USE NoneAssumption DEF TypeOK, Untouched, OneThing
<1>1. Live' = {}
  BY DEF ConnectSocket, Live
<1>2. QED BY <1>1

(* Until somebody logs in or out, this.socket is the only live socket.     *)
THEOREM NoForkByItself == Spec => []OnlyOperatorForks
<1>1. Init => OneSocket
  BY DEF Init, OneSocket, OneThing, Untouched, Live, Builds
<1>2. TypeOK /\ TypeOK' /\ SingleFlight /\ TimerTracked /\ StoppedDisarms
        /\ OneSocket /\ [Next]_vars => OneSocket'
  <2> SUFFICES ASSUME TypeOK, TypeOK', SingleFlight, TimerTracked, StoppedDisarms,
                      OneSocket, [Next]_vars, NobodyLoggedIn'
               PROVE  /\ startPc' = "boot" => Untouched'
                      /\ ~stopped' => OneThing'
    BY DEF OneSocket
  <2> USE NoneAssumption
  <2> DEFINE Goal == (startPc' = "boot" => Untouched') /\ (~stopped' => OneThing')
  <2>1. CASE Start
    <3>1. NobodyLoggedIn /\ startPc' # "boot" /\ Untouched
      BY <2>1 DEF Start, NobodyLoggedIn, OneSocket
    <3>2. CASE session
      <4>1. OneThing'
        BY <2>1, <3>1, <3>2, BuildFromNothing DEF Start, Untouched, timers
      <4>2. QED BY <3>1, <4>1
    <3>3. CASE ~session
      <4>1. OneThing'
        BY <2>1, <3>1, <3>3 DEF Start, Untouched, OneThing, timers, Live, Builds
      <4>2. QED BY <3>1, <4>1
    <3>4. QED BY <3>2, <3>3
  <2>2. ASSUME NEW t \in Timers, TimerFires(t) PROVE Goal
    <3>1. ~stopped /\ NobodyLoggedIn /\ UNCHANGED <<startPc, stopped, socket, closing>>
      BY <2>2 DEF TimerFires, StoppedDisarms, NobodyLoggedIn, callers
    <3>2. socket = None /\ armed' = {} /\ startPc # "boot"
      BY <2>2, <3>1 DEF TimerFires, TimerTracked, OneSocket, OneThing, Untouched
    <3>3. Live = {} /\ closing = {}
      BY <3>1, <3>2 DEF OneSocket, OneThing, Live, TypeOK
    <3>4. Live' = Live
      BY <2>2, <3>1, <3>2 DEF TimerFires, ConnectSocket, Unused, Live, TypeOK
    <3>5. QED
      BY <3>1, <3>2, <3>3, <3>4 DEF OneThing
  <2>3. ASSUME NEW s \in Sockets, BuildDone(s) PROVE Goal
    <3>1. UNCHANGED <<stopped, closing>>
      BY <2>3 DEF BuildDone
    <3>2. NobodyLoggedIn /\ (startPc' = "boot" => startPc = "boot")
      BY <2>3 DEF BuildDone, AwaitersReturn, NobodyLoggedIn, TypeOK
    <3>3. s \in Builds /\ Builds' = {} /\ Live' = Live \cup {s} /\ socket' = s
      BY <2>3 DEF BuildDone, SingleFlight, Builds, Live, TypeOK
    <3>4. armed' = armed
      BY <2>3 DEF BuildDone, TimerFinally
    <3>5. startPc' # "boot"
      BY <3>2, <3>3 DEF OneSocket, Untouched
    <3>6. ASSUME ~stopped' PROVE OneThing'
      <4>1. socket = None /\ armed = {} /\ Live = {} /\ closing = {}
        BY <3>1, <3>2, <3>3, <3>6 DEF OneSocket, OneThing, Live, TypeOK
      <4>2. QED BY <3>1, <3>3, <3>4, <4>1 DEF OneThing
    <3>7. QED BY <3>5, <3>6
  <2>4. ASSUME NEW s \in Sockets, BuildFails(s) PROVE Goal
    <3>1. UNCHANGED <<stopped, closing, socket>>
      BY <2>4 DEF BuildFails
    <3>2. NobodyLoggedIn /\ (startPc' = "boot" => startPc = "boot")
      BY <2>4 DEF BuildFails, AwaitersReturn, NobodyLoggedIn, TypeOK
    <3>3. s \in Builds /\ Builds' = {} /\ Live' = Live
      BY <2>4 DEF BuildFails, SingleFlight, Builds, Live, TypeOK
    <3>4. startPc' # "boot"
      BY <3>2, <3>3 DEF OneSocket, Untouched
    <3>5. ASSUME ~stopped' PROVE OneThing'
      <4>1. socket = None /\ Live = {} /\ closing = {}
        BY <3>1, <3>2, <3>3, <3>5 DEF OneSocket, OneThing, Live, TypeOK
      <4>2. QED BY <3>1, <3>3, <4>1 DEF OneThing
    <3>6. QED BY <3>4, <3>5
  <2>5. ASSUME NEW l \in Logins, LoginBegins(l) \/ LoginEnded(l) PROVE FALSE
    BY <2>5 DEF LoginBegins, LoginEnded, LoginConnects, NobodyLoggedIn, TypeOK
  <2>6. CASE LogoutBegins
    <3>1. NobodyLoggedIn /\ UNCHANGED startPc
      BY <2>6 DEF LogoutBegins, NobodyLoggedIn
    <3>2. CASE socket # None
      <4>1. End(socket) /\ UNCHANGED <<socket, stopped, armed>>
        BY <2>6, <3>2 DEF LogoutBegins
      <4>2. Builds' = Builds /\ Live' = Live \ {socket}
        BY <3>2, <4>1 DEF End, Builds, Live, TypeOK
      <4>3. closing' \subseteq closing \cup {socket}
        BY <4>1 DEF End
      <4>4. startPc # "boot"
        BY <3>1, <3>2 DEF OneSocket, Untouched
      <4>5. ASSUME ~stopped' PROVE OneThing'
        <5>1. OneThing BY <3>1, <4>1, <4>5 DEF OneSocket
        <5>2. \A s \in closing' : phase'[s] = "closed"
          BY <3>2, <4>1, <5>1 DEF OneThing, End, TypeOK
        <5>3. QED BY <4>1, <4>2, <4>3, <5>1, <5>2, <3>2 DEF OneThing
      <4>6. QED BY <3>1, <4>4, <4>5
    <3>3. CASE socket = None
      <4>1. LogoutStops /\ UNCHANGED <<phase, closing>>
        BY <2>6, <3>3 DEF LogoutBegins
      <4>2. QED
        BY <3>1, <4>1 DEF LogoutStops, ClearTimer, OneSocket, Untouched, Live, Builds
    <3>4. QED BY <3>2, <3>3
  <2>7. CASE LogoutEnded
    BY <2>7 DEF LogoutEnded, LogoutStops, ClearTimer, world, OneSocket, Untouched,
                NobodyLoggedIn, Live, Builds
  <2>8. CASE LogoutClears
    BY <2>8 DEF LogoutClears, fields, timers, OneSocket, OneThing, Untouched,
                NobodyLoggedIn, Live, Builds
  <2>9. ASSUME NEW s \in Sockets, QrArrives(s) \/ CredsUpdate(s) \/ OpenHandled(s)
        PROVE  Goal
    BY <2>9 DEF QrArrives, CredsUpdate, OpenHandled, fields, world, timers, callers,
                OneSocket, OneThing, Untouched, NobodyLoggedIn, Live, Builds
  <2>10. ASSUME NEW s \in Sockets, Opens(s) PROVE Goal
    <3>1. UNCHANGED <<fields, closing, armed, startPc, loginPc>>
      BY <2>10 DEF Opens, timers, callers
    <3>2. Live' = Live /\ Builds' = Builds
      BY <2>10 DEF Opens, Live, Builds, TypeOK
    <3>3. \A r \in closing : phase[r] = "closed" => phase'[r] = "closed"
      BY <2>10 DEF Opens, TypeOK
    <3>4. QED
      BY <3>1, <3>2, <3>3 DEF fields, OneSocket, OneThing, Untouched, NobodyLoggedIn
  <2>11. ASSUME NEW s \in Sockets, Closes(s) PROVE Goal
    <3>1. UNCHANGED <<fields, armed, startPc, loginPc>> /\ s \in Live
      BY <2>11 DEF Closes, timers, callers
    <3>2. Live' = Live \ {s} /\ Builds' = Builds /\ closing' = closing \cup {s}
      BY <2>11 DEF Closes, End, Live, Builds, TypeOK
    <3>3. phase' = [phase EXCEPT ![s] = "closed"]
      BY <2>11 DEF Closes, End, Live
    <3>4. NobodyLoggedIn /\ startPc # "boot"
      BY <3>1 DEF OneSocket, Untouched, NobodyLoggedIn
    <3>5. ASSUME ~stopped' PROVE OneThing'
      <4>1. OneThing BY <3>1, <3>4, <3>5 DEF OneSocket, fields
      <4>2. \A r \in closing' : phase'[r] = "closed"
        BY <3>2, <3>3, <4>1 DEF OneThing, TypeOK
      <4>3. QED BY <3>1, <3>2, <4>1, <4>2 DEF OneThing, fields
    <3>6. QED BY <3>1, <3>4, <3>5
  <2>12. ASSUME NEW s \in Sockets, CloseHandled(s) PROVE Goal
    <3>1. /\ UNCHANGED <<stopped, phase, startPc, loginPc>>
          /\ socket' = None /\ closing' = closing \ {s}
      BY <2>12 DEF CloseHandled, callers
    <3>2. Live' = Live /\ Builds' = Builds /\ NobodyLoggedIn
      BY <3>1 DEF Live, Builds, NobodyLoggedIn
    <3>3. startPc # "boot"
      BY <2>12, <3>2 DEF CloseHandled, OneSocket, Untouched
    <3>4. ASSUME ~stopped' PROVE OneThing'
      <4>1. OneThing /\ s = socket
        BY <2>12, <3>1, <3>2, <3>4 DEF OneSocket, OneThing, CloseHandled
      <4>2. Builds = {} /\ Live = {} /\ closing' = {}
        BY <2>12, <3>1, <4>1 DEF OneThing, CloseHandled, Live, TypeOK
      <4>3. QED BY <3>1, <3>2, <4>2 DEF OneThing
    <3>5. QED BY <3>1, <3>3, <3>4
  <2>13. CASE Restart
    BY <2>13 DEF Restart, OneThing, Untouched, Live, Builds
  <2>14. CASE UNCHANGED vars
    BY <2>14 DEF vars, fields, world, timers, callers, OneSocket, OneThing, Untouched,
                 NobodyLoggedIn, Live, Builds
  <2>15. QED
    BY <2>1, <2>2, <2>3, <2>4, <2>5, <2>6, <2>7, <2>8, <2>9, <2>10, <2>11, <2>12,
       <2>13, <2>14 DEF Next
<1>3. OneSocket => OnlyOperatorForks
  BY DEF OneSocket, OneThing, NobodyLoggedIn, OnlyOperatorForks
<1>4. QED
  BY <1>1, <1>2, <1>3, TypeCorrect, GuardsHold, PTL DEF Spec

-----------------------------------------------------------------------------
(* The connector implements the safety part of ConnectionSupervisor: its   *)
(* link is dialled once at a time, goes from lost to back-off unless it is *)
(* halted, and a halt leaves no back-off behind.                           *)

(* What ends the await of a build: the callback's finally and the awaiters.*)
LEMMA TimerFinallyLink ==
  ASSUME TypeOK, TimerTracked, StoppedDisarms, NEW sock, TimerFinally(sock)
  PROVE  stopped => armed' = {}
BY DEF TimerFinally, ScheduleReconnect, StoppedDisarms, TimerTracked

THEOREM ImplementsSupervisor ==
    Spec => Supervisor!Init /\ [][Supervisor!Next]_(Supervisor!vars)
<1> USE DEF Link, Started
<1>1. Init => Supervisor!Init
  BY DEF Init, Supervisor!Init
<1>2. /\ TypeOK /\ TypeOK' /\ SingleFlight /\ TimerTracked /\ StoppedDisarms
      /\ StoppedDisarms' /\ [Next]_vars
      => [Supervisor!Next]_(Supervisor!vars)
  <2> SUFFICES ASSUME TypeOK, TypeOK', SingleFlight, TimerTracked, StoppedDisarms,
                      StoppedDisarms', [Next]_vars
               PROVE  Supervisor!Next \/ UNCHANGED <<Link, stopped, Started>>
    BY DEF Supervisor!vars
  <2> USE NoneAssumption DEF TypeOK
  <2>1. CASE Start
    <3>1. ~Started /\ Started' = TRUE /\ stopped' \in {stopped, FALSE}
      BY <2>1 DEF Start
    <3>2. Link' \in {Link, "dialing"}
      <4>1. CASE session /\ socket = None
        BY <2>1, <4>1 DEF Start, ConnectSocket
      <4>2. CASE ~(session /\ socket = None)
        BY <2>1, <4>2 DEF Start, ConnectSocket, timers
      <4>3. QED BY <4>1, <4>2
    <3>3. QED BY <3>1, <3>2 DEF Supervisor!Begin, Supervisor!Next
  <2>2. ASSUME NEW t \in Timers, TimerFires(t)
        PROVE  Supervisor!Next \/ UNCHANGED <<Link, stopped, Started>>
    <3>1. /\ ~stopped /\ stopped' = stopped /\ socket' = socket /\ armed # {}
          /\ Started' = Started
      BY <2>2 DEF TimerFires, StoppedDisarms, callers
    <3>2. CASE socket # None
      BY <2>2, <3>1, <3>2 DEF TimerFires
    <3>3. CASE socket = None
      <4>1. connecting'
        BY <2>2, <3>1, <3>3 DEF TimerFires, ConnectSocket
      <4>2. Supervisor!Redial \/ UNCHANGED Link
        BY <3>1, <3>3, <4>1 DEF Supervisor!Redial
      <4>3. QED BY <3>1, <4>2 DEF Supervisor!Next
    <3>4. QED BY <3>2, <3>3
  <2>3. ASSUME NEW s \in Sockets, BuildDone(s)
        PROVE  Supervisor!Next
    <3>1. /\ connecting /\ ~connecting' /\ socket' = s /\ stopped' = stopped
          /\ Started' = Started
      BY <2>3 DEF BuildDone, SingleFlight, Builds, AwaitersReturn
    <3>2. Supervisor!Connected
      BY <3>1 DEF Supervisor!Connected
    <3>3. QED BY <3>2 DEF Supervisor!Next
  <2>4. ASSUME NEW s \in Sockets, BuildFails(s)
        PROVE  Supervisor!Next
    <3>1. connecting /\ ~connecting' /\ UNCHANGED <<socket, stopped, Started>>
      BY <2>4 DEF BuildFails, SingleFlight, Builds, AwaitersReturn
    <3>2. stopped => armed' = {}
      BY <3>1 DEF StoppedDisarms
    <3>3. Supervisor!Failed \/ Supervisor!Connected
      BY <3>1, <3>2 DEF Supervisor!Failed, Supervisor!Connected
    <3>4. QED BY <3>3 DEF Supervisor!Next
  <2>5. ASSUME NEW l \in Logins, LoginBegins(l)
        PROVE  Supervisor!Next \/ UNCHANGED <<Link, stopped, Started>>
    <3>1. CASE socket # None /\ socket \notin user
      BY <2>5, <3>1 DEF LoginBegins, fields
    <3>2. CASE socket # None /\ socket \in user
      BY <2>5, <3>2 DEF LoginBegins, LoginConnects, ConnectSocket
    <3>3. CASE socket = None
      <4>1. connecting' /\ UNCHANGED <<stopped, Started>>
        BY <2>5, <3>3 DEF LoginBegins, LoginConnects, ConnectSocket
      <4>2. Supervisor!Dial \/ UNCHANGED Link
        BY <4>1 DEF Supervisor!Dial
      <4>3. QED BY <4>1, <4>2 DEF Supervisor!Next
    <3>4. QED BY <3>1, <3>2, <3>3
  <2>6. ASSUME NEW l \in Logins, LoginEnded(l)
        PROVE  Supervisor!Next \/ UNCHANGED <<Link, stopped, Started>>
    <3>1. connecting' /\ UNCHANGED <<stopped, Started>>
      BY <2>6 DEF LoginEnded, LoginConnects, ConnectSocket
    <3>2. Supervisor!Dial \/ UNCHANGED Link
      BY <3>1 DEF Supervisor!Dial
    <3>3. QED BY <3>1, <3>2 DEF Supervisor!Next
  <2>7. CASE LogoutBegins \/ LogoutEnded
    <3>1. CASE LogoutStops /\ UNCHANGED <<connecting, startPc>>
      <4>1. socket' = None /\ stopped' = TRUE /\ armed' = {}
        BY <3>1 DEF LogoutStops, StoppedDisarms
      <4>2. Supervisor!Halt
        BY <3>1, <4>1 DEF Supervisor!Halt
      <4>3. QED BY <4>2 DEF Supervisor!Next
    <3>2. CASE UNCHANGED <<fields, armed, startPc>>
      BY <3>2 DEF fields
    <3>3. QED BY <2>7, <3>1, <3>2 DEF LogoutBegins, LogoutEnded, fields
  <2>8. CASE LogoutClears BY <2>8 DEF LogoutClears, fields, timers
  <2>9. ASSUME NEW s \in Sockets,
               QrArrives(s) \/ CredsUpdate(s) \/ OpenHandled(s) \/ Opens(s) \/ Closes(s)
        PROVE  UNCHANGED <<Link, stopped, Started>>
    BY <2>9 DEF QrArrives, CredsUpdate, OpenHandled, Opens, Closes, fields, timers,
               callers
  <2>10. ASSUME NEW s \in Sockets, CloseHandled(s)
         PROVE  Supervisor!Next \/ UNCHANGED <<Link, stopped, Started>>
    <3>1. socket' = None /\ UNCHANGED <<connecting, stopped, Started>>
      BY <2>10 DEF CloseHandled, callers
    <3>2. ScheduleReconnect(reconnectTimer, connecting)
      BY <2>10 DEF CloseHandled
    <3>3. CASE connecting
      BY <3>1, <3>3
    <3>4. CASE ~connecting /\ stopped
      <4>1. armed = {} /\ armed' = {}
        BY <3>1, <3>4 DEF StoppedDisarms
      <4>2. Supervisor!Lost \/ UNCHANGED Link
        BY <3>1, <3>4, <4>1 DEF Supervisor!Lost
      <4>3. QED BY <3>1, <4>2 DEF Supervisor!Next
    <3>5. CASE ~connecting /\ ~stopped
      <4>1. armed' # {} /\ (armed # {} => armed' = armed)
        BY <3>2, <3>5 DEF ScheduleReconnect, TimerTracked
      <4>2. CASE socket = None /\ armed # {}
        BY <3>1, <3>5, <4>1, <4>2
      <4>3. CASE socket # None \/ armed = {}
        BY <3>1, <3>5, <4>1, <4>3 DEF Supervisor!Lost, Supervisor!Next
      <4>4. QED BY <4>2, <4>3
    <3>6. QED BY <3>3, <3>4, <3>5
  <2>11. CASE Restart
    <3>1. Supervisor!Reset
      BY <2>11 DEF Restart, Supervisor!Reset
    <3>2. QED BY <3>1 DEF Supervisor!Next
  <2>12. CASE UNCHANGED vars BY <2>12 DEF vars, fields, timers, callers
  <2>13. QED
    BY <2>1, <2>2, <2>3, <2>4, <2>5, <2>6, <2>7, <2>8, <2>9, <2>10, <2>11, <2>12
    DEF Next
<1>3. QED
  BY <1>1, <1>2, TypeCorrect, GuardsHold, PTL DEF Spec
-----------------------------------------------------------------------------
(* What the two liveness properties rest on, whatever the scheduling.      *)

(* #connectSocket touches neither a live socket nor a closing one.         *)
LEMMA ConnectSparesLive ==
  ASSUME TypeOK, NEW sock, NEW l, ConnectSocket(sock, l)
  PROVE  Live \subseteq Live'
BY DEF TypeOK, ConnectSocket, Unused, Live

(* A socket that the connector relies on is alive, or its close handler is *)
(* still to run and will drop it: LossAnswered loses no death.             *)
THEOREM NoDeathMissed == Spec => []DeathNoticed
<1> USE NoneAssumption DEF DeathNoticed
<1>1. Init => DeathNoticed
  BY DEF Init
<1>2. TypeOK /\ DeathNoticed /\ [Next]_vars => DeathNoticed'
  <2> SUFFICES ASSUME TypeOK, DeathNoticed, [Next]_vars, socket' # None
               PROVE  socket' \in Live' \cup closing'
    OBVIOUS
  <2>1. CASE Start
    <3>1. UNCHANGED <<socket, closing>> /\ Live \subseteq Live'
      <4>1. CASE session
        BY <2>1, <4>1, ConnectSparesLive DEF Start
      <4>2. CASE ~session
        BY <2>1, <4>2 DEF Start, Live
      <4>3. QED BY <4>1, <4>2
    <3>2. QED BY <3>1
  <2>2. ASSUME NEW t \in Timers, TimerFires(t) PROVE socket' \in Live' \cup closing'
    <3>1. UNCHANGED <<socket, closing, phase>>
      BY <2>2 DEF TimerFires, ConnectSocket
    <3>2. QED BY <3>1 DEF Live
  <2>3. ASSUME NEW s \in Sockets, BuildDone(s) PROVE socket' \in Live' \cup closing'
    BY <2>3 DEF BuildDone, Live, TypeOK
  <2>4. ASSUME NEW s \in Sockets, BuildFails(s) PROVE socket' \in Live' \cup closing'
    BY <2>4 DEF BuildFails, Live, TypeOK
  <2>5. ASSUME NEW l \in Logins, LoginBegins(l) PROVE socket' \in Live' \cup closing'
    <3>1. CASE socket # None /\ socket \notin user
      BY <2>5, <3>1 DEF LoginBegins, End, fields, Live
    <3>2. CASE ~(socket # None /\ socket \notin user)
      <4>1. UNCHANGED <<socket, closing>> /\ ConnectSocket(socket, l)
        BY <2>5, <3>2 DEF LoginBegins, LoginConnects
      <4>2. QED BY <4>1, ConnectSparesLive
    <3>3. QED BY <3>1, <3>2
  <2>6. CASE LogoutBegins
    BY <2>6 DEF LogoutBegins, LogoutStops, End, Live
  <2>7. ASSUME NEW s \in Sockets, Opens(s) PROVE socket' \in Live' \cup closing'
    <3>1. Live' = Live /\ UNCHANGED <<socket, closing>>
      BY <2>7 DEF Opens, Live, TypeOK, fields
    <3>2. QED BY <3>1
  <2>8. ASSUME NEW s \in Sockets, Closes(s) PROVE socket' \in Live' \cup closing'
    <3>1. Live \subseteq Live' \cup {s} /\ closing' = closing \cup {s} /\ socket' = socket
      BY <2>8 DEF Closes, End, Live, TypeOK, fields
    <3>2. QED BY <3>1
  <2>9. CASE \/ \E l \in Logins : LoginEnded(l)
             \/ \E s \in Sockets : CloseHandled(s)
             \/ LogoutEnded \/ Restart
    BY <2>9 DEF LoginEnded, LoginConnects, CloseHandled, LogoutEnded, LogoutStops, Restart
  <2>10. CASE \/ \E s \in Sockets : QrArrives(s) \/ CredsUpdate(s) \/ OpenHandled(s)
              \/ LogoutClears \/ UNCHANGED vars
    BY <2>10 DEF QrArrives, CredsUpdate, OpenHandled, LogoutClears, vars, fields, world,
                 Live
  <2>11. QED
    BY <2>1, <2>2, <2>3, <2>4, <2>5, <2>6, <2>7, <2>8, <2>9, <2>10 DEF Next
<1>3. QED
  BY <1>1, <1>2, TypeCorrect, PTL DEF Spec

(* Only a new process, or a failed build that start() or beginLogin() asked *)
(* for alone, leaves a connector that is not stopped with nothing to do:    *)
(* what KeepsTrying needs of every other step.                              *)
THEOREM NothingElseStrands == Spec => StrandedOnlyByBuild
<1> DEFINE Allowed == \/ Stranded \/ Restart
                      \/ \E s \in Sockets : BuildFails(s) /\ firing = {}
<1>1. TypeOK /\ TimerTracked /\ [Next]_vars => (Stranded' => Allowed)
  <2> SUFFICES ASSUME TypeOK, TimerTracked, [Next]_vars, Stranded'
               PROVE  Allowed
    OBVIOUS
  <2> USE NoneAssumption DEF Stranded
  <2>1. CASE Start
    BY <2>1 DEF Start, ConnectSocket, timers
  <2>2. ASSUME NEW t \in Timers, TimerFires(t) PROVE Allowed
    <3>1. CASE stopped \/ socket # None
      BY <2>2, <3>1 DEF TimerFires
    <3>2. CASE ~stopped /\ socket = None
      BY <2>2, <3>2 DEF TimerFires, ConnectSocket
    <3>3. QED BY <3>1, <3>2
  <2>3. ASSUME NEW s \in Sockets, BuildDone(s) PROVE Allowed
    BY <2>3 DEF BuildDone
  <2>4. ASSUME NEW s \in Sockets, BuildFails(s), firing # {} PROVE FALSE
    BY <2>4 DEF BuildFails, TimerFinally, ScheduleReconnect
  <2>5. ASSUME NEW l \in Logins, LoginBegins(l) PROVE Allowed
    BY <2>5 DEF LoginBegins, LoginConnects, ConnectSocket, fields
  <2>6. ASSUME NEW l \in Logins, LoginEnded(l) PROVE Allowed
    BY <2>6 DEF LoginEnded, LoginConnects, ConnectSocket
  <2>7. CASE LogoutBegins \/ LogoutEnded
    BY <2>7 DEF LogoutBegins, LogoutEnded, LogoutStops
  <2>8. ASSUME NEW s \in Sockets, CloseHandled(s) PROVE Allowed
    <3>1. ~stopped /\ ~connecting /\ armed' = {}
      BY <2>8 DEF CloseHandled
    <3>2. ScheduleReconnect(reconnectTimer, connecting)
      BY <2>8 DEF CloseHandled
    <3>3. CASE reconnectTimer = None
      BY <3>1, <3>2, <3>3 DEF ScheduleReconnect
    <3>4. CASE reconnectTimer # None
      BY <3>1, <3>2, <3>4 DEF ScheduleReconnect, TimerTracked
    <3>5. QED BY <3>3, <3>4
  <2>9. CASE \/ \E s \in Sockets : \/ QrArrives(s) \/ CredsUpdate(s)
                                   \/ Opens(s) \/ OpenHandled(s) \/ Closes(s)
             \/ LogoutClears \/ UNCHANGED vars
    BY <2>9 DEF QrArrives, CredsUpdate, Opens, OpenHandled, Closes, LogoutClears, vars,
                fields, timers
  <2>10. QED
    BY <2>1, <2>2, <2>3, <2>4, <2>5, <2>6, <2>7, <2>8, <2>9 DEF Next
<1>2. QED
  BY <1>1, TypeCorrect, GuardsHold, PTL DEF Spec, StrandedOnlyByBuild
=============================================================================
