------------------------- MODULE MatrixIdentityProofs -------------------------
(***************************************************************************)
(* What holds of MatrixIdentity for any number of processes, logins,       *)
(* refreshes, resets and exports: its types, that the marker of an import  *)
(* is honest, and that the session on disk is the current one.             *)
(***************************************************************************)
EXTENDS MatrixIdentity, TLAPS

(* An import under way has the stamp of an export there has been.          *)
Stamped ==
    \A p \in Processes : run[p].pc \in {"import", "mark"} => run[p].stamp \in 1..export

LEMMA Update ==
  ASSUME run \in [Processes -> RunStates], NEW p \in Processes, NEW x \in RunStates
  PROVE  [run EXCEPT ![p] = x] \in [Processes -> RunStates]
OBVIOUS

LEMMA IdleType == Idle \in RunStates
BY IdentityAssumption DEF Idle, RunStates, Logins, Stores

LEMMA TypesAndStamps == Spec => [](TypeOK /\ Stamped)
<1> USE IdentityAssumption, NoneIsNoSession DEF TypeOK, Logins, Stores, Stamps, Sessions
<1>1. Init => TypeOK /\ Stamped
  <2> SUFFICES ASSUME Init PROVE TypeOK /\ Stamped
    OBVIOUS
  <2>1. run \in [Processes -> RunStates] BY IdleType DEF Init
  <2>2. Stamped BY DEF Init, Stamped, Idle
  <2>3. /\ current \in [Logins -> 0..MaxRefreshes] /\ newest \in Logins
        /\ file \in Sessions /\ store \in Stores
        /\ export \in 0..MaxExports /\ marker \in 0..MaxExports
    BY DEF Init
  <2>4. QED BY <2>1, <2>2, <2>3 DEF Init
<1>2. TypeOK /\ Stamped /\ [Next]_vars => TypeOK' /\ Stamped'
  <2> SUFFICES ASSUME TypeOK, Stamped, [Next]_vars PROVE TypeOK' /\ Stamped'
    OBVIOUS
  <2> USE DEF server, session, crypto, aux
  <2>1. ASSUME run' = run, export' \in Nat, export <= export' PROVE Stamped'
    BY <2>1 DEF Stamped
  <2>0. ASSUME Reset
        PROVE  /\ file' = None /\ store' \in Stores /\ dir' \in BOOLEAN /\ has' = {}
               /\ marker' \in 0..MaxExports /\ UNCHANGED tmp
    <3>1. store' \in Stores /\ 0 \in 0..MaxExports BY <2>0 DEF Reset
    <3>2. QED BY <2>0, <3>1 DEF Reset
  <2>2. CASE LoginResets
    <3>1. newest' \in Logins BY <2>2 DEF LoginResets
    <3>2. spanned' \in BOOLEAN BY <2>2 DEF LoginResets
    <3>3. QED BY <2>0, <2>1, <2>2, <3>1, <3>2 DEF LoginResets
  <2>3. CASE LoginWrites BY <2>1, <2>3 DEF LoginWrites
  <2>4. CASE CheckBegins BY <2>1, <2>4 DEF CheckBegins
  <2>5. CASE CheckPasses BY <2>1, <2>5 DEF CheckPasses
  <2>6. CASE CheckRefused BY <2>0, <2>1, <2>6 DEF CheckRefused
  <2>7. CASE NewExport BY <2>1, <2>7 DEF NewExport
  <2>8. ASSUME NEW p \in Processes, NEW x \in RunStates, run' = [run EXCEPT ![p] = x],
               x.pc \in {"import", "mark"} => x.stamp \in 1..export,
               export' = export
        PROVE  run' \in [Processes -> RunStates] /\ Stamped'
    BY <2>8, Update DEF Stamped
  <2>9. ASSUME NEW p \in Processes
        PROVE  /\ run[p] \in RunStates
               /\ run[p].pc \in {"import", "mark"} => run[p].stamp \in 1..export
    BY DEF Stamped
  <2>10. ASSUME NEW p \in Processes, Leaves(p), export' = export
         PROVE  run' \in [Processes -> RunStates] /\ Stamped'
    BY <2>8, <2>10, IdleType DEF Leaves, Idle
  <2>11. ASSUME NEW p \in Processes, NEW pc \in {"use", "synced", "callback", "written"}, Go(p, pc), export' = export
         PROVE  run' \in [Processes -> RunStates] /\ Stamped'
    <3> DEFINE x == [run[p] EXCEPT !.pc = pc]
    <3>1. x \in RunStates /\ x.pc = pc BY <2>9 DEF RunStates
    <3>2. run' = [run EXCEPT ![p] = x] BY <2>11 DEF Go
    <3>3. QED BY <2>8, <2>11, <3>1, <3>2
  <2>12. ASSUME NEW p \in Processes, Uses(p), export' = export
         PROVE  run' \in [Processes -> RunStates] /\ Stamped'
    <3> DEFINE x == [run[p] EXCEPT !.pc = "use", !.store = 0, !.stamp = 0]
    <3>0. 0 \in Stores /\ 0 \in 0..MaxExports OBVIOUS
    <3>1. x \in RunStates /\ x.pc = "use" BY <2>9, <3>0 DEF RunStates
    <3>2. run' = [run EXCEPT ![p] = x] BY <2>12 DEF Uses
    <3>3. QED BY <2>8, <2>12, <3>1, <3>2
  <2>13. ASSUME NEW p \in Processes, Open(p) PROVE TypeOK' /\ Stamped'
    <3> DEFINE x == [pc |-> "stat", login |-> file.login, version |-> file.version,
                     store |-> store, stamp |-> 0, text |-> None]
    <3>1. x \in RunStates BY <2>13 DEF Open, RunStates
    <3>2. run' \in [Processes -> RunStates] /\ Stamped' BY <2>8, <2>13, <3>1 DEF Open
    <3>3. QED BY <2>13, <3>2 DEF Open
  <2>14. ASSUME NEW p \in Processes, OpenHttp(p) PROVE TypeOK' /\ Stamped'
    <3> DEFINE x == [Idle EXCEPT !.pc = "http", !.login = file.login, !.version = file.version]
    <3>1. x \in RunStates /\ x.pc = "http" BY <2>14, IdleType DEF OpenHttp, RunStates
    <3>2. run' \in [Processes -> RunStates] /\ Stamped' BY <2>8, <2>14, <3>1 DEF OpenHttp
    <3>3. QED BY <2>14, <3>2 DEF OpenHttp
  <2>15. ASSUME NEW p \in Processes, UpToDate(p) PROVE TypeOK' /\ Stamped'
    BY <2>12, <2>15 DEF UpToDate
  <2>16. ASSUME NEW p \in Processes, ReadStamp(p) PROVE TypeOK' /\ Stamped'
    <3> DEFINE x == [run[p] EXCEPT !.pc = "import", !.stamp = export]
    <3>0. export \in 0..MaxExports /\ export \in 1..export BY <2>16 DEF ReadStamp
    <3>1. x \in RunStates /\ x.stamp \in 1..export BY <2>9, <3>0 DEF RunStates
    <3>2. run' = [run EXCEPT ![p] = x] /\ export' = export BY <2>16 DEF ReadStamp
    <3>3. run' \in [Processes -> RunStates] /\ Stamped' BY <2>8, <3>1, <3>2
    <3>4. QED BY <2>16, <3>3 DEF ReadStamp
  <2>17. ASSUME NEW p \in Processes, ImportKeys(p) PROVE TypeOK' /\ Stamped'
    <3> DEFINE x == [run[p] EXCEPT !.pc = "mark"]
    <3>1. run[p].stamp \in 1..export BY <2>9, <2>17 DEF ImportKeys, At
    <3>2. x \in RunStates /\ x.stamp = run[p].stamp BY <2>9 DEF RunStates
    <3>3. run' = [run EXCEPT ![p] = x] /\ export' = export BY <2>17 DEF ImportKeys, Go
    <3>4. run' \in [Processes -> RunStates] /\ Stamped' BY <2>8, <3>1, <3>2, <3>3
    <3>5. has' \subseteq Stamps BY <2>17, <3>1 DEF ImportKeys
    <3>6. QED BY <2>17, <3>4, <3>5 DEF ImportKeys
  <2>18. ASSUME NEW p \in Processes, WriteMarker(p) PROVE TypeOK' /\ Stamped'
    <3>1. marker' \in 0..MaxExports BY <2>9, <2>18 DEF WriteMarker, RunStates
    <3>2. run' \in [Processes -> RunStates] /\ Stamped' BY <2>12, <2>18 DEF WriteMarker
    <3>3. QED BY <2>18, <3>1, <3>2 DEF WriteMarker
  <2>19. ASSUME NEW p \in Processes, Sync(p) PROVE TypeOK' /\ Stamped'
    BY <2>11, <2>19 DEF Sync
  <2>20. ASSUME NEW p \in Processes, Refresh(p) PROVE TypeOK' /\ Stamped'
    <3> DEFINE x == [run[p] EXCEPT !.pc = "refreshed", !.version = @ + 1]
    <3>0. run[p].login \in Logins /\ run[p].version \in 0..MaxRefreshes
      BY <2>9 DEF RunStates
    <3>1. run[p].login \in Logins /\ run[p].version + 1 \in 0..MaxRefreshes
      BY <2>20, <3>0 DEF Refresh
    <3>2. x \in RunStates /\ x.pc = "refreshed" BY <2>9, <3>1 DEF RunStates
    <3>3. run' = [run EXCEPT ![p] = x] /\ export' = export BY <2>20 DEF Refresh
    <3>4. run' \in [Processes -> RunStates] /\ Stamped' BY <2>8, <3>2, <3>3
    <3>5. current' \in [Logins -> 0..MaxRefreshes] BY <2>20, <3>1 DEF Refresh, Accepted
    <3>6. rotated' \in BOOLEAN BY <2>20 DEF Refresh
    <3>7. QED BY <2>20, <3>4, <3>5, <3>6 DEF Refresh
  <2>21. ASSUME NEW p \in Processes, WriteOwn(p) PROVE TypeOK' /\ Stamped'
    <3>1. tmp' \in Sessions BY <2>9, <2>21 DEF WriteOwn, RunStates
    <3>2. run' \in [Processes -> RunStates] /\ Stamped'
      BY <2>11, <2>21 DEF WriteOwn
    <3>3. QED BY <2>21, <3>1, <3>2 DEF WriteOwn
  <2>22. ASSUME NEW p \in Processes, ReadFile(p) PROVE TypeOK' /\ Stamped'
    <3> DEFINE x == [run[p] EXCEPT !.pc = "copy", !.text = file]
    <3>1. x \in RunStates /\ x.pc = "copy" BY <2>9 DEF RunStates
    <3>2. run' = [run EXCEPT ![p] = x] \/ Leaves(p) BY <2>22 DEF ReadFile
    <3>3. run' \in [Processes -> RunStates] /\ Stamped' BY <2>8, <2>10, <2>22, <3>1, <3>2 DEF ReadFile
    <3>4. QED BY <2>22, <3>3 DEF ReadFile
  <2>23. ASSUME NEW p \in Processes, WriteCopy(p) PROVE TypeOK' /\ Stamped'
    <3> DEFINE x == [run[p] EXCEPT !.pc = "written", !.text = None]
    <3>1. x \in RunStates /\ x.pc = "written" BY <2>9 DEF RunStates
    <3>2. run' = [run EXCEPT ![p] = x] BY <2>23 DEF WriteCopy
    <3>3. run' \in [Processes -> RunStates] /\ Stamped' BY <2>8, <2>23, <3>1, <3>2 DEF WriteCopy
    <3>4. tmp' \in Sessions \cup {None} BY <2>9, <2>23 DEF WriteCopy, RunStates
    <3>5. QED BY <2>23, <3>3, <3>4 DEF WriteCopy
  <2>24. ASSUME NEW p \in Processes, Rename(p) PROVE TypeOK' /\ Stamped'
    <3>1. run' \in [Processes -> RunStates] /\ Stamped'
      BY <2>10, <2>11, <2>24 DEF Rename
    <3>2. QED BY <2>24, <3>1 DEF Rename
  <2>25. ASSUME NEW p \in Processes, Fails(p) PROVE TypeOK' /\ Stamped'
    BY <2>10, <2>25 DEF Fails
  <2>26. CASE UNCHANGED vars BY <2>1, <2>26 DEF vars
  <2>27. QED
    BY <2>2, <2>3, <2>4, <2>5, <2>6, <2>7, <2>13, <2>14, <2>15, <2>16, <2>17, <2>18, <2>19,
       <2>20, <2>21, <2>22, <2>23, <2>24, <2>25, <2>26
    DEF Next, Step
<1>3. QED
  BY <1>1, <1>2, PTL DEF Spec

(* The files, the tokens and the processes keep to their types, whatever   *)
(* files the processes and the API find.                                   *)
THEOREM TypeCorrect == Spec => []TypeOK
BY TypesAndStamps, PTL

-----------------------------------------------------------------------------
(* A process in an import holds a store that is there or has been removed, *)
(* and what it is about to mark is in the store if that is still there.    *)
ImportsHonest ==
    /\ \A p \in Processes :
          /\ run[p].pc \in {"stat", "import", "mark"} => run[p].store <= store
          /\ run[p].pc = "mark" /\ run[p].store = store => \E n \in has : n >= run[p].stamp
    /\ MarkerHonest

LEMMA OtherFiles ==
  ASSUME TypeOK, ImportsHonest, UNCHANGED <<crypto, raced>>,
         \A p \in Processes : \/ run'[p] = run[p]
                              \/ run'[p].pc \notin {"stat", "import", "mark"}
                              \/ run'[p].pc \in {"stat", "import"} /\ run'[p].store = store
                              \/ run'[p].pc = "import" /\ run[p].pc = "stat" /\ run'[p].store = run[p].store
  PROVE  ImportsHonest'
<1>1. store \in Nat
  BY IdentityAssumption DEF TypeOK, Stores
<1>2. UNCHANGED <<store, has, marker, raced>>
  BY DEF crypto
<1>3. QED BY <1>1, <1>2 DEF ImportsHonest, MarkerHonest

LEMMA ResetHonest ==
  ASSUME TypeOK, ImportsHonest, Reset, UNCHANGED <<run, raced>>
  PROVE  ImportsHonest'
<1>1. store' = store + 1 /\ store \in Nat /\ marker' = 0
  BY IdentityAssumption DEF TypeOK, Reset, Stores
<1>2. ASSUME NEW p \in Processes, run[p].pc \in {"stat", "import", "mark"}
      PROVE  run[p].store <= store + 1 /\ run[p].store # store + 1
  <2>1. run[p].store \in Nat
    BY IdentityAssumption DEF TypeOK, RunStates, Stores
  <2>2. run[p].store <= store BY <1>2 DEF ImportsHonest
  <2>3. QED BY <1>1, <2>1, <2>2
<1>3. QED BY <1>1, <1>2 DEF ImportsHonest, MarkerHonest

(* No process that dies, no export that is replaced during an import and   *)
(* no other import makes the marker claim an export the store lacks.       *)
THEOREM MarkerIsHonest == Spec => []MarkerHonest
<1>1. Init => ImportsHonest
  BY DEF Init, ImportsHonest, MarkerHonest, Idle
<1>2. TypeOK /\ Stamped /\ ImportsHonest /\ [Next]_vars => ImportsHonest'
  <2> SUFFICES ASSUME TypeOK, Stamped, ImportsHonest, [Next]_vars PROVE ImportsHonest'
    OBVIOUS
  <2> USE DEF TypeOK, server, session, aux
  <2>1. CASE LoginResets BY <2>1, ResetHonest DEF LoginResets
  <2>2. CASE CheckRefused BY <2>2, ResetHonest DEF CheckRefused
  <2>3. CASE LoginWrites \/ CheckBegins \/ CheckPasses \/ NewExport
    BY <2>3, OtherFiles DEF LoginWrites, CheckBegins, CheckPasses, NewExport
  <2>4. ASSUME NEW p \in Processes, Open(p) PROVE ImportsHonest'
    <3>1. UNCHANGED <<store, has, marker, raced>> BY <2>4 DEF Open
    <3>2. \A q \in Processes : run'[q] = run[q] \/ (run'[q].pc = "stat" /\ run'[q].store = store)
      BY <2>4 DEF Open
    <3>3. store \in Nat BY IdentityAssumption DEF Stores
    <3>4. QED BY <3>1, <3>2, <3>3 DEF ImportsHonest, MarkerHonest
  <2>5. ASSUME NEW p \in Processes,
               OpenHttp(p) \/ Sync(p) \/ Refresh(p) \/ WriteOwn(p) \/ ReadFile(p) \/ WriteCopy(p)
                 \/ Rename(p) \/ Fails(p) \/ UpToDate(p)
        PROVE  ImportsHonest'
    <3>1. UNCHANGED <<crypto, raced>>
      BY <2>5 DEF OpenHttp, Sync, Refresh, WriteOwn, ReadFile, WriteCopy, Rename, Fails, UpToDate
    <3>2. \A q \in Processes \ {p} : run'[q] = run[q]
      BY <2>5
      DEF OpenHttp, Sync, Refresh, WriteOwn, ReadFile, WriteCopy, Rename, Fails, UpToDate, Go, Leaves,
          Uses
    <3>3. run'[p].pc \notin {"stat", "import", "mark"}
      <4>1. CASE OpenHttp(p) BY <4>1 DEF OpenHttp, Idle
      <4>2. CASE Sync(p) \/ WriteOwn(p) BY <4>2 DEF Sync, WriteOwn, Go, RunStates
      <4>3. CASE Refresh(p) BY <4>3 DEF Refresh, RunStates
      <4>4. CASE ReadFile(p) \/ WriteCopy(p) BY <4>4 DEF ReadFile, WriteCopy, Leaves, Idle, RunStates
      <4>5. CASE Rename(p) \/ Fails(p) BY <4>5 DEF Rename, Fails, Go, Leaves, Idle, RunStates
      <4>6. CASE UpToDate(p) BY <4>6 DEF UpToDate, Uses, RunStates
      <4>7. QED BY <2>5, <4>1, <4>2, <4>3, <4>4, <4>5, <4>6
    <3>4. QED BY <3>1, <3>2, <3>3, OtherFiles
  <2>6. ASSUME NEW p \in Processes, ReadStamp(p) PROVE ImportsHonest'
    <3>1. /\ run'[p].pc = "import" /\ run'[p].store = run[p].store /\ run[p].pc = "stat"
          /\ \A q \in Processes \ {p} : run'[q] = run[q]
          /\ UNCHANGED <<crypto, raced>>
      BY <2>6 DEF ReadStamp, At, RunStates
    <3>2. QED BY <3>1, OtherFiles
  <2>7. ASSUME NEW p \in Processes, ImportKeys(p) PROVE ImportsHonest'
    <3>1. /\ run[p].pc = "import" /\ run'[p].pc = "mark"
          /\ run'[p].store = run[p].store /\ run'[p].stamp = run[p].stamp
          /\ \A q \in Processes \ {p} : run'[q] = run[q]
          /\ UNCHANGED <<store, marker, raced>>
          /\ has' = IF run[p].store = store THEN has \cup {export} ELSE has
      BY <2>7 DEF ImportKeys, At, Go, RunStates
    <3>2. run[p].stamp \in 1..export /\ export \in Nat
      BY <3>1, IdentityAssumption DEF Stamped
    <3>3. run[p].store = store => \E n \in has' : n >= run[p].stamp
      BY <3>1, <3>2
    <3>4. has \subseteq has' BY <3>1
    <3>5. QED BY <3>1, <3>3, <3>4 DEF ImportsHonest, MarkerHonest
  <2>8. ASSUME NEW p \in Processes, WriteMarker(p) PROVE ImportsHonest'
    <3>1. /\ run[p].pc = "mark" /\ run'[p].pc = "use"
          /\ \A q \in Processes \ {p} : run'[q] = run[q]
          /\ UNCHANGED <<store, has>> /\ marker' = run[p].stamp
          /\ raced' = (raced \/ run[p].store # store)
      BY <2>8 DEF WriteMarker, At, Uses, RunStates
    <3>2. MarkerHonest' BY <3>1 DEF ImportsHonest, MarkerHonest
    <3>3. QED BY <3>1, <3>2 DEF ImportsHonest
  <2>9. CASE UNCHANGED vars BY <2>9, OtherFiles DEF vars
  <2>10. QED
    BY <2>1, <2>2, <2>3, <2>4, <2>5, <2>6, <2>7, <2>8, <2>9 DEF Next, Step
<1>3. QED
  BY <1>1, <1>2, TypesAndStamps, PTL DEF Spec, ImportsHonest

-----------------------------------------------------------------------------
(* While no process spans a login, everything is of the latest login.      *)
Works(p) == run[p].pc # "idle"
Writing(p) == run[p].pc \in {"callback", "written"}

LoginsAgree ==
    ~spanned =>
        /\ \A p \in Processes : Works(p) => run[p].login = newest
        /\ \A p \in Processes : run[p].pc = "copy" => run[p].text # None /\ run[p].text.login = newest
        /\ file # None => file.login = newest
        /\ api = "login" => file = None /\ \A p \in Processes : ~Works(p)
        /\ tmp # None /\ (\E p \in Processes : Writing(p)) => tmp.login = newest
        /\ \A l \in Logins : l > newest \/ (l = newest /\ api = "login") => current[l] = 0

(* And while no other process is at work when tokens are renewed, a        *)
(* process with new tokens is alone until it has saved them.               *)
TokensAgree ==
    ~spanned /\ ~rotated /\ ~cut =>
        /\ \A p, q \in Processes : Ahead(p) /\ Works(q) => p = q
        /\ \A p \in Processes : Works(p) => run[p].version = current[newest]
        /\ \A p \in Processes : run[p].pc = "copy" => run[p].text.version = current[newest]
        /\ tmp # None /\ (\E p \in Processes : Writing(p)) => tmp.version = current[newest]
        /\ file # None => file.version = current[newest] \/ \E p \in Processes : Ahead(p)

Agree == LoginsAgree /\ TokensAgree

(* A step of one process that leaves the files alone and its own session.  *)
LEMMA ProcessMoves ==
  ASSUME TypeOK, Agree, NEW p \in Processes,
         UNCHANGED <<current, newest, file, tmp, api, spanned, rotated, cut>>,
         \A q \in Processes \ {p} : run'[q] = run[q],
         run'[p].login = run[p].login, run'[p].version = run[p].version,
         Works(p), ~Ahead(p), ~Ahead(p)', ~Writing(p)', run'[p].pc # "copy"
  PROVE  Agree'
BY DEF Agree, LoginsAgree, TokensAgree, Works, Writing, Ahead

LEMMA AgreeKept == Spec => []Agree
<1>1. Init => Agree
  <2> SUFFICES ASSUME Init PROVE Agree
    OBVIOUS
  <2>1. \A p \in Processes : ~Works(p) /\ ~Ahead(p) /\ ~Writing(p) /\ run[p].pc # "copy"
    BY DEF Init, Works, Ahead, Writing, Idle
  <2>2. current[0] = 0 /\ \A l \in Logins : current[l] = 0
    BY IdentityAssumption DEF Init, Logins
  <2>3. QED BY <2>1, <2>2 DEF Init, Agree, LoginsAgree, TokensAgree
<1>2. TypeOK /\ Agree /\ [Next]_vars => Agree'
  <2> SUFFICES ASSUME TypeOK, Agree, [Next]_vars PROVE Agree'
    OBVIOUS
  <2> USE IdentityAssumption, NoneIsNoSession
      DEF TypeOK, server, session, crypto, aux, Works, Writing, Ahead
  <2>1. ASSUME UNCHANGED <<current, newest, file, tmp, api, run, spanned, rotated, cut>> PROVE Agree'
    BY <2>1 DEF Agree, LoginsAgree, TokensAgree
  <2>2. CASE LoginResets
    <3>1. /\ api' = "login" /\ file' = None /\ newest' = newest + 1 /\ newest \in Nat
          /\ UNCHANGED <<current, tmp, run, rotated, cut>>
          /\ spanned' = (spanned \/ Busy # {})
      BY <2>2 DEF LoginResets, Reset, Logins
    <3>2. ASSUME ~spanned' PROVE ~spanned /\ \A p \in Processes : ~Works(p)
      BY <3>1, <3>2 DEF Busy, At
    <3>3. LoginsAgree'
      BY <3>1, <3>2 DEF Agree, LoginsAgree, Logins
    <3>4. TokensAgree'
      BY <3>1, <3>2 DEF Agree, TokensAgree
    <3>5. QED BY <3>3, <3>4 DEF Agree
  <2>3. CASE LoginWrites
    <3>1. /\ api = "login" /\ api' = "free" /\ file' = [login |-> newest, version |-> 0]
          /\ UNCHANGED <<current, newest, tmp, run, rotated, cut>>
          /\ spanned' = (spanned \/ Busy # {})
      BY <2>3 DEF LoginWrites
    <3>2. ASSUME ~spanned' PROVE ~spanned /\ \A p \in Processes : ~Works(p)
      BY <3>1, <3>2 DEF Busy, At
    <3>3. LoginsAgree'
      BY <3>1, <3>2 DEF Agree, LoginsAgree
    <3>4. ~spanned => current[newest] = 0
      BY <3>1 DEF Agree, LoginsAgree
    <3>5. TokensAgree'
      BY <3>1, <3>2, <3>4 DEF Agree, TokensAgree
    <3>6. QED BY <3>3, <3>5 DEF Agree
  <2>4. CASE CheckRefused
    <3>1. /\ api = "free" /\ file' = None
          /\ UNCHANGED <<current, newest, tmp, api, run, spanned, rotated, cut>>
      BY <2>4 DEF CheckRefused, Reset
    <3>2. QED BY <3>1 DEF Agree, LoginsAgree, TokensAgree
  <2>5. CASE CheckBegins \/ CheckPasses \/ NewExport
    BY <2>1, <2>5 DEF CheckBegins, CheckPasses, NewExport
  <2>6. ASSUME NEW p \in Processes, Open(p) \/ OpenHttp(p) PROVE Agree'
    <3>1. /\ run[p].pc = "idle" /\ file # None /\ run'[p].pc \in {"stat", "http"}
          /\ run'[p].login = file.login /\ run'[p].version = file.version
          /\ \A q \in Processes \ {p} : run'[q] = run[q]
          /\ UNCHANGED <<current, newest, file, tmp, api, spanned, cut>>
          /\ rotated' = (rotated \/ \E q \in Processes : Ahead(q))
      <4>1. CASE Open(p) BY <4>1 DEF Open, At
      <4>2. CASE OpenHttp(p) BY <4>2, IdleType DEF OpenHttp, At, RunStates
      <4>3. QED BY <2>6, <4>1, <4>2
    <3>2. LoginsAgree' BY <3>1 DEF Agree, LoginsAgree
    <3>3. TokensAgree' BY <3>1 DEF Agree, LoginsAgree, TokensAgree
    <3>4. QED BY <3>2, <3>3 DEF Agree
  <2>7. ASSUME NEW p \in Processes, UpToDate(p) \/ ReadStamp(p) \/ ImportKeys(p) \/ WriteMarker(p) \/ Sync(p)
        PROVE  Agree'
    <3>1. /\ UNCHANGED <<current, newest, file, tmp, api, spanned, rotated, cut>>
          /\ run[p].pc \in {"stat", "import", "mark", "use"}
      BY <2>7 DEF UpToDate, ReadStamp, ImportKeys, WriteMarker, Sync, At
    <3>2. /\ \A q \in Processes \ {p} : run'[q] = run[q]
          /\ run'[p].login = run[p].login /\ run'[p].version = run[p].version
          /\ run'[p].pc \in {"use", "import", "mark", "synced"}
      BY <2>7 DEF UpToDate, ReadStamp, ImportKeys, WriteMarker, Sync, Go, Uses, RunStates
    <3>3. QED BY <3>1, <3>2, ProcessMoves
  <2>8. ASSUME NEW p \in Processes, Refresh(p) PROVE Agree'
    <3>1. /\ run[p].pc = "use" /\ run[p].version = current[run[p].login]
          /\ current' = [current EXCEPT ![run[p].login] = run[p].version + 1]
          /\ run'[p].pc = "refreshed" /\ run'[p].login = run[p].login
          /\ run'[p].version = run[p].version + 1
          /\ \A q \in Processes \ {p} : run'[q] = run[q]
          /\ UNCHANGED <<newest, file, tmp, api, spanned, cut>>
          /\ rotated' = (rotated \/ \E q \in Busy \ {p} : run[q].login = run[p].login)
      BY <2>8 DEF Refresh, At, Accepted, RunStates
    <3>2. ASSUME ~spanned
          PROVE  /\ run[p].login = newest /\ api # "login" /\ newest \in Logins
                 /\ \A q \in Processes : Works(q) => run[q].login = newest
                 /\ \A l \in Logins : l > newest => current[l] = 0
      BY <3>1, <3>2 DEF Agree, LoginsAgree
    <3>3. LoginsAgree'
      <4>1. SUFFICES ASSUME ~spanned PROVE LoginsAgree'
        BY <3>1 DEF LoginsAgree
      <4>2. \A l \in Logins : l # newest => current'[l] = current[l]
        BY <3>1, <3>2, <4>1
      <4>3. \A l \in Logins : l > newest => l # newest
        BY DEF Logins
      <4>4. QED BY <3>1, <3>2, <4>1, <4>2, <4>3 DEF Agree, LoginsAgree
    <3>5. ASSUME ~spanned', ~rotated', ~cut'
          PROVE  /\ ~spanned /\ ~rotated /\ ~cut
                 /\ run[p].login = newest /\ newest \in Logins
                 /\ \A q \in Processes \ {p} : ~Works(q)
      <4>1. ~spanned /\ ~rotated /\ ~cut BY <3>1, <3>5
      <4>2. \A q \in Busy \ {p} : run[q].login # run[p].login
        BY <3>1, <3>5
      <4>3. \A q \in Processes \ {p} : Works(q) => q \in Busy
        BY DEF Busy, At
      <4>4. QED BY <3>2, <4>1, <4>2, <4>3
    <3>6. TokensAgree'
      BY <3>1, <3>5 DEF Agree, TokensAgree
    <3>7. QED BY <3>3, <3>6 DEF Agree
  <2>9. ASSUME NEW p \in Processes, WriteOwn(p) PROVE Agree'
    <3>1. /\ run[p].pc \in {"refreshed", "synced"}
          /\ run'[p].pc = IF run[p].pc = "refreshed" THEN "callback" ELSE "written"
          /\ run'[p].login = run[p].login /\ run'[p].version = run[p].version
          /\ \A q \in Processes \ {p} : run'[q] = run[q]
          /\ tmp' = [login |-> run[p].login, version |-> run[p].version]
          /\ UNCHANGED <<current, newest, file, api, spanned, rotated, cut>>
      BY <2>9 DEF WriteOwn, Go, At, RunStates
    <3>2. LoginsAgree' BY <3>1 DEF Agree, LoginsAgree
    <3>3. TokensAgree' BY <3>1 DEF Agree, TokensAgree
    <3>4. QED BY <3>2, <3>3 DEF Agree
  <2>10. ASSUME NEW p \in Processes, Leaves(p)
         PROVE  run'[p].pc = "idle" /\ \A q \in Processes \ {p} : run'[q] = run[q]
    BY <2>10 DEF Leaves, Idle
  <2>11. ASSUME NEW p \in Processes, ~Ahead(p), Leaves(p),
                UNCHANGED <<current, newest, file, tmp, api, spanned, rotated, cut>>
         PROVE  Agree'
    BY <2>10, <2>11 DEF Agree, LoginsAgree, TokensAgree
  <2>12. ASSUME NEW p \in Processes, ReadFile(p) PROVE Agree'
    <3>1. run[p].pc = "http" /\ UNCHANGED <<current, newest, file, tmp, api, spanned, rotated, cut>>
      BY <2>12 DEF ReadFile, At
    <3>2. CASE file = None BY <2>11, <2>12, <3>1, <3>2 DEF ReadFile
    <3>3. CASE file # None
      <4>1. /\ run'[p].pc = "copy" /\ run'[p].text = file
            /\ run'[p].login = run[p].login /\ run'[p].version = run[p].version
            /\ \A q \in Processes \ {p} : run'[q] = run[q]
        BY <2>12, <3>3 DEF ReadFile, RunStates
      <4>2. LoginsAgree' BY <3>1, <3>3, <4>1 DEF Agree, LoginsAgree
      <4>3. TokensAgree' BY <3>1, <3>3, <4>1 DEF Agree, TokensAgree
      <4>4. QED BY <4>2, <4>3 DEF Agree
    <3>4. QED BY <3>2, <3>3
  <2>13. ASSUME NEW p \in Processes, WriteCopy(p) PROVE Agree'
    <3>1. /\ run[p].pc = "copy" /\ run'[p].pc = "written" /\ tmp' = run[p].text
          /\ run'[p].login = run[p].login /\ run'[p].version = run[p].version
          /\ \A q \in Processes \ {p} : run'[q] = run[q]
          /\ UNCHANGED <<current, newest, file, api, spanned, rotated, cut>>
      BY <2>13 DEF WriteCopy, At, RunStates
    <3>2. LoginsAgree' BY <3>1 DEF Agree, LoginsAgree
    <3>3. TokensAgree' BY <3>1 DEF Agree, TokensAgree
    <3>4. QED BY <3>2, <3>3 DEF Agree
  <2>14. ASSUME NEW p \in Processes, Rename(p) PROVE Agree'
    <3>1. /\ run[p].pc \in {"callback", "written"} /\ tmp # None /\ file' = tmp /\ tmp' = None
          /\ UNCHANGED <<current, newest, api, spanned, rotated, cut>>
      BY <2>14 DEF Rename
    <3>2. /\ run'[p].pc \in {"use", "idle"}
          /\ run'[p].pc = "use" => run'[p].login = run[p].login /\ run'[p].version = run[p].version
          /\ \A q \in Processes \ {p} : run'[q] = run[q]
      BY <2>10, <2>14 DEF Rename, Go, At, RunStates
    <3>3. LoginsAgree' BY <3>1, <3>2 DEF Agree, LoginsAgree
    <3>4. TokensAgree' BY <3>1, <3>2 DEF Agree, TokensAgree
    <3>5. QED BY <3>3, <3>4 DEF Agree
  <2>15. ASSUME NEW p \in Processes, Fails(p) PROVE Agree'
    <3>1. Leaves(p) /\ UNCHANGED <<current, newest, file, tmp, api, spanned, rotated>>
          /\ cut' = (cut \/ Ahead(p))
      BY <2>15 DEF Fails
    <3>2. CASE Ahead(p)
      <4>1. cut' BY <3>1, <3>2
      <4>2. LoginsAgree' BY <2>10, <3>1 DEF Agree, LoginsAgree
      <4>3. TokensAgree' BY <4>1 DEF TokensAgree
      <4>4. QED BY <4>2, <4>3 DEF Agree
    <3>3. CASE ~Ahead(p)
      <4>1. cut' = cut BY <3>1, <3>3
      <4>2. QED BY <2>11, <3>1, <3>3, <4>1
    <3>4. QED BY <3>2, <3>3
  <2>16. CASE UNCHANGED vars BY <2>1, <2>16 DEF vars
  <2>17. QED
    BY <2>2, <2>3, <2>4, <2>5, <2>6, <2>7, <2>8, <2>9, <2>12, <2>13, <2>14, <2>15, <2>16
    DEF Next, Step
<1>3. QED
  BY <1>1, <1>2, TypeCorrect, PTL DEF Spec

(* Nobody locks the session file, and still it has the tokens that count,  *)
(* unless a login or a refresh falls into another process's run.           *)
THEOREM SessionIsCurrent == Spec => []SessionCurrent
<1>1. Agree => SessionCurrent
  BY DEF Agree, LoginsAgree, TokensAgree, SessionCurrent
<1>2. QED BY <1>1, AgreeKept, PTL

=============================================================================
