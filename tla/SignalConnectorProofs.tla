------------------------ MODULE SignalConnectorProofs ------------------------
(***************************************************************************)
(* What holds of SignalConnector for all sets of accounts, streams, login  *)
(* attempts and polls: its types, one stream and one timer, a pairing on   *)
(* disk behind every stream, and the safety part of ConnectionSupervisor.  *)
(***************************************************************************)
EXTENDS SignalConnector, TLAPS

LEMMA NoPollType == NoPoll \in Poll
BY DEF NoPoll, Poll

(* The connector's fields, the session, the sidecar's answers and the      *)
(* suspended handlers keep to their types under every interleaving.        *)
THEOREM TypeCorrect == Spec => []TypeOK
<1> USE SignalAssumption DEF TypeOK, Attempt
<1>1. Init => TypeOK
  <2> SUFFICES ASSUME Init PROVE TypeOK
    OBVIOUS
  <2>1. reading \in 0..MaxReads
    BY DEF Init
  <2>2. poll \in [Polls -> Poll]
    BY NoPollType DEF Init
  <2>3. QED BY <2>1, <2>2 DEF Init
<1>2. TypeOK /\ [Next]_vars => TypeOK'
  <2> SUFFICES ASSUME TypeOK, [Next]_vars PROVE TypeOK'
    OBVIOUS
  <2> USE DEF link, start, pair
  <2>1. ASSUME NEW a \in Accounts \cup {None}, ConnectLive(a)
        PROVE  /\ client' \in Streams \cup {None}
               /\ receiving' \in [Streams -> Accounts \cup {None}]
               /\ reconnectTimer' \in BOOLEAN /\ armed' \in BOOLEAN
    <3>1. CASE client # None
      BY <2>1, <3>1 DEF ConnectLive
    <3>2. CASE client = None /\ a \in Refused
      BY <2>1, <3>2 DEF ConnectLive, ScheduleReconnect
    <3>3. CASE client = None /\ a \notin Refused
      BY <2>1, <3>3 DEF ConnectLive
    <3>4. QED BY <3>1, <3>2, <3>3
  <2>2. CASE StartBegins BY <2>2 DEF StartBegins
  <2>3. CASE StartReads BY <2>3 DEF StartReads
  <2>4. CASE StartConnects
    <3>1. ConnectLive(startAccount) \/ UNCHANGED <<client, receiving, reconnectTimer, armed>>
      BY <2>4 DEF StartConnects
    <3>2. QED BY <2>1, <2>4, <3>1 DEF StartConnects
  <2>5. ASSUME NEW s \in Streams, Disconnects(s) PROVE TypeOK'
    BY <2>5 DEF Disconnects, ScheduleReconnect
  <2>6. CASE TimerFires
    <3>1. reading' \in 0..MaxReads
      BY <2>6 DEF TimerFires
    <3>2. QED BY <2>6, <3>1 DEF TimerFires
  <2>7. CASE TimerResumes
    <3>1. ConnectLive(session) \/ UNCHANGED <<client, receiving, reconnectTimer, armed>>
      BY <2>7 DEF TimerResumes
    <3>2. QED BY <2>1, <2>7, <3>1 DEF TimerResumes
  <2>8. ASSUME NEW l \in Logins, LoginBegins(l) PROVE TypeOK'
    BY <2>8 DEF LoginBegins
  <2>9. ASSUME NEW l \in Logins, LoginReturns(l) PROVE TypeOK'
    BY <2>9 DEF LoginReturns
  <2>10. ASSUME NEW p \in Polls, NEW l \in Logins, PollBegins(p, l) PROVE TypeOK'
    BY <2>10 DEF PollBegins, Poll
  <2>11. ASSUME NEW p \in Polls, PollFinds(p) PROVE TypeOK'
    <3>1. linked \in Accounts \cup {None} /\ poll[p] \in Poll
      OBVIOUS
    <3> DEFINE q == [poll[p] EXCEPT !.pc = "writing", !.account = linked]
    <3>2. q \in Poll BY <3>1 DEF Poll
    <3>3. poll' = [poll EXCEPT ![p] = q] BY <2>11 DEF PollFinds
    <3>4. poll' \in [Polls -> Poll] BY <3>2, <3>3
    <3>5. QED BY <2>11, <3>4 DEF PollFinds
  <2>12. ASSUME NEW p \in Polls, PollFindsNone(p) PROVE TypeOK'
    <3>1. poll' \in [Polls -> Poll]
      BY <2>12, NoPollType DEF PollFindsNone, Poll
    <3>2. QED BY <2>12, <3>1 DEF PollFindsNone
  <2>13. ASSUME NEW p \in Polls, PollIssues(p) PROVE TypeOK'
    BY <2>13, NoPollType DEF PollIssues
  <2>14. ASSUME NEW p \in Polls, PollTruncates(p) PROVE TypeOK'
    BY <2>14 DEF PollTruncates, Poll
  <2>15. ASSUME NEW p \in Polls, PollWrites(p) PROVE TypeOK'
    BY <2>15 DEF PollWrites, Poll
  <2>16. ASSUME NEW p \in Polls, PollCompletes(p) PROVE TypeOK'
    <3>1. poll[p].account \in Accounts \cup {None}
      BY DEF Poll
    <3>2. QED BY <2>1, <2>16, <3>1, NoPollType DEF PollCompletes
  <2>17. ASSUME NEW p \in Polls, PollFails(p) PROVE TypeOK'
    BY <2>17, NoPollType DEF PollFails
  <2>18. ASSUME NEW a \in Accounts, PhoneLinks(a) PROVE TypeOK'
    BY <2>18 DEF PhoneLinks
  <2>19. CASE PhoneUnlinks BY <2>19 DEF PhoneUnlinks
  <2>20. CASE LogoutBegins BY <2>20 DEF LogoutBegins, StopLive
  <2>21. CASE LogoutClears BY <2>21 DEF LogoutClears
  <2>22. CASE LogoutReturns BY <2>22 DEF LogoutReturns
  <2>23. CASE Restart
    <3>1. reading' \in 0..MaxReads
      BY <2>23 DEF Restart
    <3>2. poll' \in [Polls -> Poll]
      BY <2>23, NoPollType DEF Restart
    <3>3. QED BY <2>23, <3>1, <3>2 DEF Restart
  <2>24. CASE UNCHANGED vars BY <2>24 DEF vars
  <2>25. QED
    BY <2>2, <2>3, <2>4, <2>5, <2>6, <2>7, <2>8, <2>9, <2>10, <2>11, <2>12, <2>13,
       <2>14, <2>15, <2>16, <2>17, <2>18, <2>19, <2>20, <2>21, <2>22, <2>23, <2>24
    DEF Next
<1>3. QED
  BY <1>1, <1>2, PTL DEF Spec

-----------------------------------------------------------------------------
(* The streams and the timer.  Code that goes on to connect after an await *)
(* has an account, so that a stream that is opened is never mistaken for a *)
(* closed one.                                                             *)
Connecting == {"writing", "filling", "upserting"}

HasAccount ==
    /\ startPc = "upserting" => startAccount \in Accounts
    /\ \A p \in Polls : poll[p].pc \in Connecting => poll[p].account \in Accounts

LEMMA ConnectKeepsOne ==
  ASSUME TypeOK, OneStream, TimerTracked, NEW a \in Accounts, ConnectLive(a)
  PROVE  OneStream' /\ TimerTracked'
<1> USE SignalAssumption DEF TypeOK, OneStream, TimerTracked, ConnectLive
<1>1. CASE client # None
  BY <1>1
<1>2. CASE client = None /\ a \in Refused
  BY <1>2 DEF ScheduleReconnect
<1>3. CASE client = None /\ a \notin Refused
  BY <1>3
<1>4. QED BY <1>1, <1>2, <1>3

(* Start, polls, timer callbacks, disconnects and logouts keep one stream, *)
(* which this.client holds, and one timer, which this.reconnectTimer does. *)
THEOREM StreamAndTimerTracked == Spec => [](OneStream /\ TimerTracked /\ HasAccount)
<1> DEFINE IInv == OneStream /\ TimerTracked /\ HasAccount
<1>1. Init => IInv
  BY SignalAssumption DEF Init, OneStream, TimerTracked, HasAccount, Connecting, NoPoll
<1>2. TypeOK /\ IInv /\ [Next]_vars => IInv'
  <2> SUFFICES ASSUME TypeOK, OneStream, TimerTracked, HasAccount, [Next]_vars
               PROVE  OneStream' /\ TimerTracked' /\ HasAccount'
    OBVIOUS
  <2> USE SignalAssumption DEF TypeOK, HasAccount, Connecting, Poll
  <2>1. ASSUME UNCHANGED <<client, receiving, reconnectTimer, armed>>
        PROVE  OneStream' /\ TimerTracked'
    BY <2>1 DEF OneStream, TimerTracked
  <2>2. CASE StartBegins
    BY <2>1, <2>2 DEF StartBegins, link, pair
  <2>3. CASE StartReads
    BY <2>1, <2>3 DEF StartReads, link, pair
  <2>4. CASE StartConnects
    <3>1. OneStream' /\ TimerTracked'
      BY <2>1, <2>4, ConnectKeepsOne DEF StartConnects
    <3>2. QED BY <2>4, <3>1 DEF StartConnects, pair
  <2>5. ASSUME NEW s \in Streams, Disconnects(s)
        PROVE  OneStream' /\ TimerTracked' /\ HasAccount'
    <3>1. OneStream'
      BY <2>5 DEF Disconnects, OneStream
    <3>2. TimerTracked'
      BY <2>5 DEF Disconnects, ScheduleReconnect, TimerTracked
    <3>3. QED BY <2>5, <3>1, <3>2 DEF Disconnects, start, pair
  <2>6. CASE TimerFires
    BY <2>6 DEF TimerFires, OneStream, TimerTracked, start, pair
  <2>7. CASE TimerResumes
    <3>1. OneStream' /\ TimerTracked'
      BY <2>1, <2>7, ConnectKeepsOne DEF TimerResumes
    <3>2. QED BY <2>7, <3>1 DEF TimerResumes, start, pair
  <2>8. ASSUME NEW l \in Logins, LoginBegins(l) \/ LoginReturns(l)
        PROVE  OneStream' /\ TimerTracked' /\ HasAccount'
    BY <2>1, <2>8 DEF LoginBegins, LoginReturns, link, start
  <2>9. ASSUME NEW p \in Polls, NEW l \in Logins, PollBegins(p, l)
        PROVE  OneStream' /\ TimerTracked' /\ HasAccount'
    BY <2>1, <2>9 DEF PollBegins, link, start
  <2>10. ASSUME NEW p \in Polls, PollFinds(p)
         PROVE  OneStream' /\ TimerTracked' /\ HasAccount'
    BY <2>1, <2>10 DEF PollFinds, link, start
  <2>11. ASSUME NEW p \in Polls,
                PollFindsNone(p) \/ PollIssues(p) \/ PollFails(p)
         PROVE  OneStream' /\ TimerTracked' /\ HasAccount'
    <3>1. OneStream' /\ TimerTracked'
      BY <2>1, <2>11 DEF PollFindsNone, PollIssues, PollFails, link
    <3>2. \A q \in Polls : poll'[q] = poll[q] \/ poll'[q].pc \notin Connecting
      BY <2>11 DEF PollFindsNone, PollIssues, PollFails, NoPoll
    <3>3. UNCHANGED start
      BY <2>11 DEF PollFindsNone, PollIssues, PollFails
    <3>4. QED BY <3>1, <3>2, <3>3 DEF start
  <2>12. ASSUME NEW p \in Polls, PollTruncates(p) \/ PollWrites(p)
         PROVE  OneStream' /\ TimerTracked' /\ HasAccount'
    BY <2>1, <2>12 DEF PollTruncates, PollWrites, link, start
  <2>13. ASSUME NEW p \in Polls, PollCompletes(p)
         PROVE  OneStream' /\ TimerTracked' /\ HasAccount'
    <3>1. OneStream' /\ TimerTracked'
      BY <2>13, ConnectKeepsOne DEF PollCompletes
    <3>2. \A q \in Polls : poll'[q] = poll[q] \/ poll'[q].pc \notin Connecting
      BY <2>13 DEF PollCompletes, NoPoll
    <3>3. QED BY <2>13, <3>1, <3>2 DEF PollCompletes, start
  <2>14. ASSUME NEW a \in Accounts, PhoneLinks(a)
         PROVE  OneStream' /\ TimerTracked' /\ HasAccount'
    BY <2>1, <2>14 DEF PhoneLinks, link, start, pair
  <2>15. CASE PhoneUnlinks
    BY <2>1, <2>15 DEF PhoneUnlinks, link, start, pair
  <2>16. CASE LogoutBegins
    BY <2>16 DEF LogoutBegins, StopLive, OneStream, TimerTracked, start, pair
  <2>17. CASE LogoutClears \/ LogoutReturns
    BY <2>1, <2>17 DEF LogoutClears, LogoutReturns, link, start, pair
  <2>18. CASE Restart
    BY <2>18 DEF Restart, OneStream, TimerTracked, NoPoll
  <2>19. CASE UNCHANGED vars
    BY <2>1, <2>19 DEF vars, link, start, pair
  <2>20. QED
    BY <2>2, <2>3, <2>4, <2>5, <2>6, <2>7, <2>8, <2>9, <2>10, <2>11, <2>12, <2>13,
       <2>14, <2>15, <2>16, <2>17, <2>18, <2>19 DEF Next
<1>3. QED
  BY <1>1, <1>2, TypeCorrect, PTL DEF Spec

(* The armed timer is the one this.reconnectTimer names: no disconnect     *)
(* arms a second one beside it.                                            *)
THEOREM TimerIsTracked == Spec => []TimerTracked
BY StreamAndTimerTracked, PTL

-----------------------------------------------------------------------------
(* The pairing on disk.  A stream stands on a session file that was there  *)
(* when somebody set out to connect; whoever empties the file is either    *)
(* about to fill it again or is recorded in unpaired.                      *)
Filling == \E p \in Polls : poll[p].pc = "filling"

Paired ==
    /\ logoutPc # "idle" => unpaired
    /\ ~unpaired =>
          \/ session # None \/ Filling
          \/ /\ client = None /\ startPc # "upserting"
             /\ \A p \in Polls : poll[p].pc # "upserting"

(* Nothing but a logout, or a session file that could not be rewritten,    *)
(* leaves a stream or a connecting startup without a pairing on disk.      *)
THEOREM StreamsArePaired == Spec => []StreamPaired
<1>1. Init => Paired
  BY DEF Init, Paired, NoPoll
<1>2. TypeOK /\ HasAccount /\ Paired /\ [Next]_vars => Paired'
  <2> SUFFICES ASSUME TypeOK, HasAccount, Paired, [Next]_vars PROVE Paired'
    OBVIOUS
  <2> USE SignalAssumption DEF TypeOK, Poll, Paired, Filling
  <2>1. CASE StartBegins
    BY <2>1 DEF StartBegins, link, pair
  <2>2. CASE StartReads
    BY <2>2 DEF StartReads, link, pair
  <2>3. CASE StartConnects
    BY <2>3 DEF StartConnects, pair
  <2>4. ASSUME NEW s \in Streams, Disconnects(s) PROVE Paired'
    BY <2>4 DEF Disconnects, start, pair
  <2>5. CASE TimerFires
    BY <2>5 DEF TimerFires, start, pair
  <2>6. CASE TimerResumes
    BY <2>6 DEF TimerResumes, start, pair
  <2>7. ASSUME NEW l \in Logins, LoginBegins(l) \/ LoginReturns(l) PROVE Paired'
    BY <2>7 DEF LoginBegins, LoginReturns, link, start
  <2>8. ASSUME NEW p \in Polls, NEW l \in Logins, PollBegins(p, l) PROVE Paired'
    BY <2>8 DEF PollBegins, link, start
  <2>9. ASSUME NEW p \in Polls, PollFinds(p) PROVE Paired'
    <3>1. \A q \in Polls :
             (poll'[q].pc = poll[q].pc) \/ (poll[q].pc = "asking" /\ poll'[q].pc = "writing")
      BY <2>9 DEF PollFinds
    <3>2. QED BY <2>9, <3>1 DEF PollFinds, link, start
  <2>10. ASSUME NEW p \in Polls, PollFindsNone(p) \/ PollIssues(p) PROVE Paired'
    <3>1. \A q \in Polls :
             \/ poll'[q].pc = poll[q].pc
             \/ poll[q].pc \in {"asking", "issuing"} /\ poll'[q].pc \in {"issuing", "idle"}
      BY <2>10 DEF PollFindsNone, PollIssues, NoPoll
    <3>2. UNCHANGED <<client, startPc, session, logoutPc, unpaired>>
      BY <2>10 DEF PollFindsNone, PollIssues, link, start
    <3>3. QED BY <3>1, <3>2
  <2>11. ASSUME NEW p \in Polls, PollTruncates(p) PROVE Paired'
    BY <2>11 DEF PollTruncates, link, start
  <2>12. ASSUME NEW p \in Polls, PollWrites(p) PROVE Paired'
    <3>1. session' # None
      BY <2>12 DEF PollWrites, HasAccount, Connecting
    <3>2. QED BY <2>12, <3>1 DEF PollWrites
  <2>13. ASSUME NEW p \in Polls, PollCompletes(p) PROVE Paired'
    <3>1. \A q \in Polls :
             \/ poll'[q].pc = poll[q].pc
             \/ poll[q].pc = "upserting" /\ poll'[q].pc = "idle"
      BY <2>13 DEF PollCompletes, NoPoll
    <3>2. poll[p].pc = "upserting" /\ UNCHANGED <<session, startPc, logoutPc, unpaired>>
      BY <2>13 DEF PollCompletes, start
    <3>3. QED BY <3>1, <3>2
  <2>14. ASSUME NEW p \in Polls, PollFails(p) PROVE Paired'
    <3>1. \A q \in Polls :
             poll'[q].pc = poll[q].pc \/ (q = p /\ poll'[q].pc = "idle")
      BY <2>14 DEF PollFails, NoPoll
    <3>2. /\ unpaired' = (unpaired \/ poll[p].pc = "filling")
          /\ UNCHANGED <<client, startPc, session, logoutPc>>
      BY <2>14 DEF PollFails, link, start
    <3>3. QED BY <3>1, <3>2
  <2>15. ASSUME NEW a \in Accounts, PhoneLinks(a) PROVE Paired'
    BY <2>15 DEF PhoneLinks, link, start, pair
  <2>16. CASE PhoneUnlinks
    BY <2>16 DEF PhoneUnlinks, link, start, pair
  <2>17. CASE LogoutBegins \/ LogoutClears \/ LogoutReturns
    BY <2>17 DEF LogoutBegins, LogoutClears, LogoutReturns, link, start, pair
  <2>18. CASE Restart
    BY <2>18 DEF Restart, NoPoll
  <2>19. CASE UNCHANGED vars
    BY <2>19 DEF vars, link, start, pair
  <2>20. QED
    BY <2>1, <2>2, <2>3, <2>4, <2>5, <2>6, <2>7, <2>8, <2>9, <2>10, <2>11, <2>12,
       <2>13, <2>14, <2>15, <2>16, <2>17, <2>18, <2>19 DEF Next
<1>3. Paired => StreamPaired
  BY DEF Paired, StreamPaired, Filling
<1>4. QED
  BY <1>1, <1>2, <1>3, TypeCorrect, StreamAndTimerTracked, PTL DEF Spec

-----------------------------------------------------------------------------
(* The connector implements the safety part of ConnectionSupervisor.       *)

(* What code that has dialled leaves behind: the link is up, or it is in   *)
(* back-off or idle, or others still dial.                                 *)
LEMMA DialEnds ==
  ASSUME TypeOK, Dialing, UNCHANGED <<stopped, Started>>,
         \/ UNCHANGED <<client, armed>>
         \/ \E a \in Accounts : ConnectLive(a)
  PROVE  Supervisor!Connected \/ Supervisor!Failed \/ UNCHANGED <<Link, stopped, Started>>
<1> USE SignalAssumption DEF TypeOK, Link, Started
<1>1. CASE Dialing'
  BY <1>1
<1>2. CASE ~Dialing' /\ client' # None
  BY <1>2 DEF Supervisor!Connected
<1>3. CASE ~Dialing' /\ client' = None
  BY <1>3 DEF Supervisor!Failed
<1>4. QED BY <1>1, <1>2, <1>3

(* Code that goes on to dial.                                              *)
LEMMA DialBegins ==
  ASSUME Dialing', UNCHANGED <<stopped, Started>>
  PROVE  Supervisor!Dial \/ UNCHANGED <<Link, stopped, Started>>
BY DEF Link, Supervisor!Dial

(* The link is dialled, goes from lost to back-off unless the connector is *)
(* halted, and a halt leaves no back-off behind.                           *)
THEOREM ImplementsSupervisor ==
    Spec => Supervisor!Init /\ [][Supervisor!Next]_(Supervisor!vars)
<1>1. Init => Supervisor!Init
  BY DEF Init, NoPoll, Link, Dialing, Started, Supervisor!Init
<1>2. TypeOK /\ OneStream /\ TimerTracked /\ HasAccount /\ [Next]_vars
      => [Supervisor!Next]_(Supervisor!vars)
  <2> SUFFICES ASSUME TypeOK, OneStream, TimerTracked, HasAccount, [Next]_vars
               PROVE  Supervisor!Next \/ UNCHANGED <<Link, stopped, Started>>
    BY DEF Supervisor!vars
  <2> USE SignalAssumption DEF TypeOK, Poll
  <2>1. ASSUME UNCHANGED <<client, armed, stopped, Started>>, Dialing' = Dialing
        PROVE  UNCHANGED <<Link, stopped, Started>>
    BY <2>1 DEF Link
  <2>2. CASE StartBegins
    <3>1. ~Started /\ Started' = TRUE /\ stopped' = FALSE /\ Link' = "dialing"
      BY <2>2 DEF StartBegins, Started, Link, Dialing
    <3>2. QED BY <3>1 DEF Supervisor!Begin, Supervisor!Next
  <2>3. CASE StartReads
    <3>1. Dialing /\ UNCHANGED <<client, armed, stopped, Started>>
      BY <2>3 DEF StartReads, Dialing, Started, link
    <3>2. QED BY <3>1, DialEnds DEF Supervisor!Next
  <2>4. CASE StartConnects
    <3>1. Dialing /\ UNCHANGED <<stopped, Started>> /\ startAccount \in Accounts
      BY <2>4 DEF StartConnects, Dialing, Started, HasAccount
    <3>2. UNCHANGED <<client, armed>> \/ \E a \in Accounts : ConnectLive(a)
      BY <2>4, <3>1 DEF StartConnects
    <3>3. QED BY <3>1, <3>2, DialEnds DEF Supervisor!Next
  <2>5. ASSUME NEW s \in Streams, Disconnects(s)
        PROVE  Supervisor!Next \/ UNCHANGED <<Link, stopped, Started>>
    <3>1. Dialing' = Dialing /\ UNCHANGED <<stopped, Started>>
      BY <2>5 DEF Disconnects, Dialing, Started, start, pair
    <3>2. client # None /\ client' = None /\ (stopped \/ armed')
      BY <2>5 DEF Disconnects, OneStream, ScheduleReconnect, TimerTracked
    <3>3. CASE Dialing
      BY <3>1, <3>3 DEF Link
    <3>4. CASE ~Dialing
      BY <3>1, <3>2, <3>4 DEF Link, Supervisor!Lost, Supervisor!Next
    <3>5. QED BY <3>3, <3>4
  <2>6. CASE TimerFires
    <3>1. UNCHANGED <<client, stopped, Started>> /\ armed /\ ~armed'
      BY <2>6 DEF TimerFires, Started, start
    <3>2. CASE stopped
      <4>1. Dialing' = Dialing
        BY <2>6, <3>2 DEF TimerFires, Dialing, start, pair
      <4>2. QED BY <3>1, <3>2, <4>1 DEF Link
    <3>3. CASE ~stopped
      <4>1. Dialing'
        BY <2>6, <3>3 DEF TimerFires, Dialing
      <4>2. QED BY <3>1, <4>1, DialBegins DEF Supervisor!Next
    <3>4. QED BY <3>2, <3>3
  <2>7. CASE TimerResumes
    <3>1. Dialing /\ UNCHANGED <<stopped, Started>>
      BY <2>7 DEF TimerResumes, Dialing, Started, start
    <3>2. UNCHANGED <<client, armed>> \/ \E a \in Accounts : ConnectLive(a)
      BY <2>7 DEF TimerResumes
    <3>3. QED BY <3>1, <3>2, DialEnds DEF Supervisor!Next
  <2>8. ASSUME NEW l \in Logins, LoginBegins(l) \/ LoginReturns(l)
        PROVE  UNCHANGED <<Link, stopped, Started>>
    BY <2>1, <2>8 DEF LoginBegins, LoginReturns, Dialing, Started, link, start
  <2>9. ASSUME NEW p \in Polls,
               \/ \E l \in Logins : PollBegins(p, l)
               \/ PollFinds(p) \/ PollFindsNone(p) \/ PollIssues(p) \/ PollTruncates(p)
        PROVE  UNCHANGED <<Link, stopped, Started>>
    <3>1. UNCHANGED <<link, stopped, start>>
      BY <2>9 DEF PollBegins, PollFinds, PollFindsNone, PollIssues, PollTruncates
    <3>2. \A q \in Polls : poll'[q].pc = "upserting" <=> poll[q].pc = "upserting"
      BY <2>9 DEF PollBegins, PollFinds, PollFindsNone, PollIssues, PollTruncates, NoPoll
    <3>3. QED BY <2>1, <3>1, <3>2 DEF Dialing, Started, link, start
  <2>10. ASSUME NEW p \in Polls, PollWrites(p)
         PROVE  Supervisor!Next \/ UNCHANGED <<Link, stopped, Started>>
    <3>1. poll'[p].pc = "upserting"
      BY <2>10 DEF PollWrites
    <3>2. Dialing'
      BY <3>1 DEF Dialing
    <3>3. UNCHANGED <<stopped, Started>>
      BY <2>10 DEF PollWrites, Started, start
    <3>4. QED BY <3>2, <3>3, DialBegins DEF Supervisor!Next
  <2>11. ASSUME NEW p \in Polls, PollCompletes(p)
         PROVE  Supervisor!Next \/ UNCHANGED <<Link, stopped, Started>>
    <3>1. Dialing /\ UNCHANGED <<stopped, Started>>
      BY <2>11 DEF PollCompletes, Dialing, Started, start
    <3>2. \E a \in Accounts : ConnectLive(a)
      BY <2>11 DEF PollCompletes, HasAccount, Connecting
    <3>3. QED BY <3>1, <3>2, DialEnds DEF Supervisor!Next
  <2>12. ASSUME NEW p \in Polls, PollFails(p)
         PROVE  Supervisor!Next \/ UNCHANGED <<Link, stopped, Started>>
    <3>1. UNCHANGED <<client, armed, stopped, Started, reading, startPc>>
      BY <2>12 DEF PollFails, Started, link, start
    <3>2. CASE Dialing
      BY <3>1, <3>2, DialEnds DEF Supervisor!Next
    <3>3. CASE ~Dialing
      <4>1. \A q \in Polls : poll'[q].pc = poll[q].pc \/ poll'[q].pc = "idle"
        BY <2>12 DEF PollFails, NoPoll
      <4>2. ~Dialing'
        BY <3>1, <3>3, <4>1 DEF Dialing
      <4>3. Link' = Link
        BY <3>1, <3>3, <4>2 DEF Link
      <4>4. QED BY <3>1, <4>3
    <3>4. QED BY <3>2, <3>3
  <2>13. ASSUME NEW a \in Accounts, PhoneLinks(a)
         PROVE  UNCHANGED <<Link, stopped, Started>>
    BY <2>1, <2>13 DEF PhoneLinks, Dialing, Started, link, start, pair
  <2>14. CASE PhoneUnlinks
    BY <2>1, <2>14 DEF PhoneUnlinks, Dialing, Started, link, start, pair
  <2>15. CASE LogoutBegins
    <3>1. Dialing' = Dialing /\ stopped' = TRUE /\ client' = None /\ UNCHANGED Started
      BY <2>15 DEF LogoutBegins, StopLive, Dialing, Started, start, pair
    <3>2. QED BY <3>1 DEF Link, Supervisor!Halt, Supervisor!Next
  <2>16. CASE LogoutClears \/ LogoutReturns
    BY <2>1, <2>16 DEF LogoutClears, LogoutReturns, Dialing, Started, link, start, pair
  <2>17. CASE Restart
    <3>1. ~Dialing' /\ client' = None /\ ~armed' /\ stopped' = FALSE /\ Started' = FALSE
      BY <2>17 DEF Restart, NoPoll, Dialing, Started
    <3>2. QED BY <3>1 DEF Link, Supervisor!Reset, Supervisor!Next
  <2>18. CASE UNCHANGED vars
    BY <2>1, <2>18 DEF vars, Dialing, Started, link, start, pair
  <2>19. QED
    BY <2>2, <2>3, <2>4, <2>5, <2>6, <2>7, <2>8, <2>9, <2>10, <2>11, <2>12, <2>13,
       <2>14, <2>15, <2>16, <2>17, <2>18 DEF Next
<1>3. QED
  BY <1>1, <1>2, TypeCorrect, StreamAndTimerTracked, PTL DEF Spec
-----------------------------------------------------------------------------
(* What the liveness of the reconnect rests on, whatever the scheduling.   *)

(* #connectLive, unless the connector is stopped, leaves a stream or a     *)
(* timer.                                                                  *)
LEMMA ConnectGoesOn ==
  ASSUME TypeOK, TimerTracked, NEW a \in Accounts, ConnectLive(a), ~stopped
  PROVE  client' # None \/ armed'
BY SignalAssumption DEF TypeOK, TimerTracked, ConnectLive, ScheduleReconnect

(* Only a startup or a poll that cannot write the account row makes a      *)
(* connector with a pairing on disk give up.                               *)
THEOREM NothingElseGivesUp == Spec => GivesUpUnpaired
<1> DEFINE Allowed == \/ GivenUp \/ session = None
                      \/ startPc = "upserting" /\ StartConnects
                      \/ \E p \in Polls : poll[p].pc = "upserting" /\ PollFails(p)
<1>1. /\ TypeOK /\ OneStream /\ TimerTracked /\ HasAccount /\ [Next]_vars
      => (GivenUp' => Allowed)
  <2> SUFFICES ASSUME TypeOK, OneStream, TimerTracked, HasAccount, [Next]_vars, GivenUp'
               PROVE  Allowed
    OBVIOUS
  <2> USE SignalAssumption DEF TypeOK, Poll
  <2>1. Started' /\ ~stopped' /\ ~Dialing' /\ client' = None /\ ~armed'
    BY DEF GivenUp, Link
  <2>2. ASSUME UNCHANGED <<client, armed, stopped, startPc, reading>>,
               \A p \in Polls : poll[p].pc = "upserting" => poll'[p].pc = "upserting"
        PROVE  Allowed
    <3>1. ~Dialing
      BY <2>1, <2>2 DEF Dialing
    <3>2. QED BY <2>1, <2>2, <3>1 DEF GivenUp, Link, Started
  <2>3. CASE StartBegins
    BY <2>1, <2>3 DEF StartBegins, Dialing
  <2>4. CASE StartReads
    BY <2>1, <2>4 DEF StartReads, Dialing
  <2>5. CASE StartConnects
    BY <2>5 DEF StartConnects
  <2>6. ASSUME NEW s \in Streams, Disconnects(s) PROVE Allowed
    BY <2>1, <2>6 DEF Disconnects, ScheduleReconnect, TimerTracked
  <2>7. CASE TimerFires
    BY <2>1, <2>7 DEF TimerFires, Dialing
  <2>8. CASE TimerResumes
    <3>1. CASE session = None
      BY <3>1
    <3>2. CASE session # None
      <4>1. ConnectLive(session) /\ session \in Accounts /\ ~stopped
        BY <2>1, <2>8, <3>2 DEF TimerResumes
      <4>2. QED BY <2>1, <4>1, ConnectGoesOn
    <3>3. QED BY <3>1, <3>2
  <2>9. ASSUME NEW l \in Logins, LoginBegins(l) \/ LoginReturns(l) PROVE Allowed
    BY <2>2, <2>9 DEF LoginBegins, LoginReturns, link, start
  <2>10. ASSUME NEW p \in Polls,
                \/ \E l \in Logins : PollBegins(p, l)
                \/ PollFinds(p) \/ PollFindsNone(p) \/ PollIssues(p) \/ PollTruncates(p)
         PROVE  Allowed
    <3>1. UNCHANGED <<link, stopped, start>>
      BY <2>10 DEF PollBegins, PollFinds, PollFindsNone, PollIssues, PollTruncates
    <3>2. \A q \in Polls : poll[q].pc = "upserting" => poll'[q].pc = "upserting"
      BY <2>10 DEF PollBegins, PollFinds, PollFindsNone, PollIssues, PollTruncates, NoPoll
    <3>3. QED BY <2>2, <3>1, <3>2 DEF link, start
  <2>11. ASSUME NEW p \in Polls, PollWrites(p) PROVE Allowed
    <3>1. poll'[p].pc = "upserting"
      BY <2>11 DEF PollWrites
    <3>2. QED BY <2>1, <3>1 DEF Dialing
  <2>12. ASSUME NEW p \in Polls, PollCompletes(p) PROVE Allowed
    <3>1. ConnectLive(poll[p].account) /\ poll[p].account \in Accounts /\ ~stopped
      BY <2>1, <2>12 DEF PollCompletes, HasAccount, Connecting
    <3>2. QED BY <2>1, <3>1, ConnectGoesOn
  <2>13. ASSUME NEW p \in Polls, PollFails(p) PROVE Allowed
    <3>1. CASE poll[p].pc = "upserting"
      BY <2>13, <3>1
    <3>2. CASE poll[p].pc # "upserting"
      <4>1. \A q \in Polls : poll[q].pc = "upserting" => poll'[q].pc = "upserting"
        BY <2>13, <3>2 DEF PollFails
      <4>2. QED BY <2>2, <2>13, <4>1 DEF PollFails, link, start
    <3>3. QED BY <3>1, <3>2
  <2>14. ASSUME NEW a \in Accounts, PhoneLinks(a) PROVE Allowed
    BY <2>2, <2>14 DEF PhoneLinks, link, start, pair
  <2>15. CASE PhoneUnlinks
    BY <2>2, <2>15 DEF PhoneUnlinks, link, start, pair
  <2>16. CASE LogoutBegins
    BY <2>1, <2>16 DEF LogoutBegins
  <2>17. CASE LogoutClears \/ LogoutReturns
    BY <2>2, <2>17 DEF LogoutClears, LogoutReturns, link, start, pair
  <2>18. CASE Restart
    BY <2>1, <2>18 DEF Restart, Started
  <2>19. CASE UNCHANGED vars
    BY <2>2, <2>19 DEF vars, link, start, pair
  <2>20. QED
    BY <2>3, <2>4, <2>5, <2>6, <2>7, <2>8, <2>9, <2>10, <2>11, <2>12, <2>13, <2>14,
       <2>15, <2>16, <2>17, <2>18, <2>19 DEF Next
<1>2. QED
  BY <1>1, TypeCorrect, StreamAndTimerTracked, PTL DEF Spec, GivesUpUnpaired
=============================================================================
