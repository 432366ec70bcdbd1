-------------------------- MODULE MatrixIdentity --------------------------
(***************************************************************************)
(* The Matrix identity on disk: the session file, the crypto store and the *)
(* marker of the last key import in it.  Processes of liferadar-matrix     *)
(* (the worker's, the bridge's) read and rewrite them, and the API         *)
(* (src/api/main.py) replaces them at a password login and removes them    *)
(* when a check of the session is refused.  Nothing locks them.            *)
(*                                                                         *)
(* The homeserver gives a login an access token and a refresh token, and   *)
(* both anew at each refresh; the old ones are void then.                  *)
(***************************************************************************)
EXTENDS Naturals, FiniteSets

CONSTANTS
    Processes,
    None,           \* no file
    MaxLogins, MaxRefreshes, MaxResets, MaxExports      \* bounds

ASSUME IdentityAssumption ==
    /\ MaxLogins \in Nat /\ MaxRefreshes \in Nat /\ MaxResets \in Nat /\ MaxExports \in Nat

Logins == 0..MaxLogins
Stores == 0..MaxResets
Stamps == 1..MaxExports
Sessions == [login : Logins, version : 0..MaxRefreshes]

ASSUME NoneIsNoSession == None \notin Sessions

VARIABLES
    current,    \* the version of the tokens the homeserver accepts, by login
    newest,     \* the latest login
    file,       \* the session file
    tmp,        \* the file it is written to first
    store,      \* the store whose path the directory has
    dir,        \* the directory exists
    has,        \* the exports that have been imported into it
    export,     \* the stamp of the file of exported keys, 0 without one
    marker,     \* the stamp in the marker, 0 without one
    api,        \* what the API is doing: free, or a login that has yet to write
    check,      \* the session a check is asking the homeserver about
    run,        \* the state of each process
    spanned,    \* auxiliary: a process was at work during a login
    rotated,    \* auxiliary: a process was at work while another had new tokens
    cut,        \* auxiliary: a process died with new tokens
    raced       \* auxiliary: a marker was written for a store that was removed

server == <<current, newest>>
session == <<file, tmp>>
crypto == <<store, dir, has, marker>>
aux == <<spanned, rotated, cut, raced>>
vars == <<server, session, crypto, export, api, check, run, aux>>

Idle == [pc |-> "idle", login |-> 0, version |-> 0, store |-> 0, stamp |-> 0, text |-> None]

Init == /\ current = [l \in Logins |-> 0] /\ newest = 0
        /\ file = [login |-> 0, version |-> 0] /\ tmp = None
        /\ store = 0 /\ dir = TRUE /\ has = {}
        /\ export = 0 /\ marker = 0
        /\ api = "free" /\ check = None
        /\ run = [p \in Processes |-> Idle]
        /\ spanned = FALSE /\ rotated = FALSE /\ cut = FALSE /\ raced = FALSE

At(p, pc) == run[p].pc = pc
Go(p, pc) == run' = [run EXCEPT ![p].pc = pc]
Leaves(p) == run' = [run EXCEPT ![p] = Idle]

(* What it needed for the import no longer matters.                        *)
Uses(p) == run' = [run EXCEPT ![p].pc = "use", ![p].store = 0, ![p].stamp = 0]

(* Processes that have a session in memory.                                *)
Busy == {p \in Processes : ~At(p, "idle")}

(* Its tokens are newer than those on disk.                                *)
Ahead(p) == run[p].pc \in {"refreshed", "callback"}

----------------------------------------------------------------------------
(* The API.                                                                *)

(* _reset_matrix_local_identity_state *)
Reset == /\ store < MaxResets
         /\ file' = None
         /\ store' = store + 1 /\ dir' = FALSE /\ has' = {} /\ marker' = 0
         /\ UNCHANGED tmp

(* The homeserver has answered the login; the files of the old one go. *)
LoginResets ==
    /\ api = "free" /\ newest < MaxLogins
    /\ newest' = newest + 1
    /\ Reset
    /\ api' = "login"
    /\ spanned' = (spanned \/ Busy # {})
    /\ UNCHANGED <<current, export, check, run, rotated, cut, raced>>

(* Mutant: the API is left in another state. *)
LoginWritesMisspelt ==
    /\ api = "login"
    /\ file' = [login |-> newest, version |-> 0]
    /\ api' = "logged_in"
    /\ spanned' = (spanned \/ Busy # {})
    /\ UNCHANGED <<server, tmp, crypto, export, check, run, rotated, cut, raced>>

LoginWrites ==
    /\ api = "login"
    /\ file' = [login |-> newest, version |-> 0]
    /\ api' = "free"
    /\ spanned' = (spanned \/ Busy # {})
    /\ UNCHANGED <<server, tmp, crypto, export, check, run, rotated, cut, raced>>

(* GET /matrix/session and ensure_valid_matrix_session: the file is read   *)
(* and the homeserver asked.                                               *)
CheckBegins ==
    /\ api = "free" /\ check = None /\ file # None
    /\ check' = file
    /\ UNCHANGED <<server, session, crypto, export, api, run, aux>>

CheckPasses ==
    /\ check # None /\ api = "free"
    /\ check' = None
    /\ UNCHANGED <<server, session, crypto, export, api, run, aux>>

(* The access token is void or has run out: whatever session there is now  *)
(* goes.                                                                   *)
CheckRefused ==
    /\ check # None /\ api = "free"
    /\ check' = None
    /\ Reset
    /\ UNCHANGED <<server, export, api, run, aux>>

NewExport ==
    /\ export < MaxExports
    /\ export' = export + 1
    /\ UNCHANGED <<server, session, crypto, api, check, run, aux>>

----------------------------------------------------------------------------
(* A process: build_client.                                                *)

(* The session, without which the process fails, and the directory. *)
Open(p) ==
    /\ At(p, "idle") /\ file # None
    /\ run' = [run EXCEPT ![p] = [pc |-> "stat", login |-> file.login, version |-> file.version,
                                  store |-> store, stamp |-> 0, text |-> None]]
    /\ dir' = TRUE
    /\ rotated' = (rotated \/ \E q \in Processes : Ahead(q))
    /\ UNCHANGED <<server, session, store, has, export, marker, api, check, spanned, cut, raced>>

(* recover_http has no client: it takes the tokens and leaves the store.   *)
OpenHttp(p) ==
    /\ At(p, "idle") /\ file # None
    /\ run' = [run EXCEPT ![p] = [Idle EXCEPT !.pc = "http", !.login = file.login,
                                  !.version = file.version]]
    /\ rotated' = (rotated \/ \E q \in Processes : Ahead(q))
    /\ UNCHANGED <<server, session, crypto, export, api, check, spanned, cut, raced>>

(* maybe_import_room_keys: nothing to import, or the marker has its stamp. *)
UpToDate(p) ==
    /\ At(p, "stat")
    /\ export = 0 \/ marker = export
    /\ Uses(p)
    /\ UNCHANGED <<server, session, crypto, export, api, check, aux>>

ReadStamp(p) ==
    /\ At(p, "stat")
    /\ export # 0 /\ marker # export
    /\ run' = [run EXCEPT ![p].pc = "import", ![p].stamp = export]
    /\ UNCHANGED <<server, session, crypto, export, api, check, aux>>

(* The keys go into the store that was opened, and with it if it is gone. *)
ImportKeys(p) ==
    /\ At(p, "import")
    /\ has' = IF run[p].store = store THEN has \cup {export} ELSE has
    /\ Go(p, "mark")
    /\ UNCHANGED <<server, session, store, dir, export, marker, api, check, aux>>

(* Mutant: the marker has the stamp the file has now. *)
WriteMarkerNow(p) ==
    /\ At(p, "mark") /\ dir
    /\ marker' = export
    /\ raced' = (raced \/ run[p].store # store)
    /\ Uses(p)
    /\ UNCHANGED <<server, session, store, dir, has, export, api, check, spanned, rotated, cut>>

(* The marker goes to its path, the store's that is there now. *)
WriteMarker(p) ==
    /\ At(p, "mark") /\ dir
    /\ marker' = run[p].stamp
    /\ raced' = (raced \/ run[p].store # store)
    /\ Uses(p)
    /\ UNCHANGED <<server, session, store, dir, has, export, api, check, spanned, rotated, cut>>

----------------------------------------------------------------------------
(* A process: requests, and what is written of the session.                *)

(* The homeserver accepts only the current tokens. *)
Accepted(p) == run[p].version = current[run[p].login]

Sync(p) ==
    /\ At(p, "use") /\ Accepted(p)
    /\ Go(p, "synced")
    /\ UNCHANGED <<server, session, crypto, export, api, check, aux>>

(* The access token had run out; the callback will save the new ones. *)
Refresh(p) ==
    /\ At(p, "use") /\ Accepted(p) /\ run[p].version < MaxRefreshes
    /\ current' = [current EXCEPT ![run[p].login] = @ + 1]
    /\ run' = [run EXCEPT ![p].pc = "refreshed", ![p].version = @ + 1]
    /\ rotated' = (rotated \/ \E q \in Busy \ {p} : run[q].login = run[p].login)
    /\ UNCHANGED <<newest, session, crypto, export, api, check, spanned, cut, raced>>

(* persist_client_session, by the callback or after a sync: the tokens in  *)
(* memory go to the temporary file.                                        *)
WriteOwn(p) ==
    /\ run[p].pc \in {"refreshed", "synced"}
    /\ tmp' = [login |-> run[p].login, version |-> run[p].version]
    /\ Go(p, IF At(p, "refreshed") THEN "callback" ELSE "written")
    /\ UNCHANGED <<server, file, crypto, export, api, check, aux>>

(* persist_session_checkpoint, after its sync: the tokens of the file are  *)
(* written again, if there is one.                                         *)
ReadFile(p) ==
    /\ At(p, "http") /\ Accepted(p)
    /\ IF file = None THEN Leaves(p)
       ELSE run' = [run EXCEPT ![p].pc = "copy", ![p].text = file]
    /\ UNCHANGED <<server, session, crypto, export, api, check, aux>>

WriteCopy(p) ==
    /\ At(p, "copy")
    /\ tmp' = run[p].text
    /\ run' = [run EXCEPT ![p].pc = "written", ![p].text = None]
    /\ UNCHANGED <<server, file, crypto, export, api, check, aux>>

(* Mutant: the callback leaves the file to the end of the run. *)
RenameAtEnd(p) ==
    /\ run[p].pc \in {"callback", "written"} /\ tmp # None
    /\ IF At(p, "callback") THEN Go(p, "use") /\ UNCHANGED session
                            ELSE Leaves(p) /\ file' = tmp /\ tmp' = None
    /\ UNCHANGED <<server, crypto, export, api, check, aux>>

(* Whatever is in the temporary file takes the place of the session. *)
Rename(p) ==
    /\ run[p].pc \in {"callback", "written"} /\ tmp # None
    /\ file' = tmp /\ tmp' = None
    /\ IF At(p, "callback") THEN Go(p, "use") ELSE Leaves(p)
    /\ UNCHANGED <<server, crypto, export, api, check, aux>>

(* Any step may return an error, the one after it among them when another  *)
(* process has taken the temporary file or a login the directory.          *)
Fails(p) ==
    /\ p \in Busy
    /\ Leaves(p)
    /\ cut' = (cut \/ Ahead(p))
    /\ UNCHANGED <<server, session, crypto, export, api, check, spanned, rotated, raced>>

----------------------------------------------------------------------------

Step(p) == \/ Open(p) \/ OpenHttp(p) \/ UpToDate(p) \/ ReadStamp(p) \/ ImportKeys(p) \/ WriteMarker(p)
           \/ Sync(p) \/ Refresh(p) \/ WriteOwn(p) \/ ReadFile(p) \/ WriteCopy(p)
           \/ Rename(p) \/ Fails(p)

Next == \/ LoginResets \/ LoginWrites
        \/ CheckBegins \/ CheckPasses \/ CheckRefused
        \/ NewExport
        \/ \E p \in Processes : Step(p)

Spec == Init /\ [][Next]_vars

----------------------------------------------------------------------------
(* Properties.                                                             *)

RunStates == [pc : {"idle", "http", "stat", "import", "mark", "use", "synced", "refreshed",
                    "callback", "copy", "written"},
              login : Logins, version : 0..MaxRefreshes, store : Stores,
              stamp : 0..MaxExports, text : Sessions \cup {None}]

TypeOK ==
    /\ current \in [Logins -> 0..MaxRefreshes] /\ newest \in Logins
    /\ file \in Sessions \cup {None} /\ tmp \in Sessions \cup {None}
    /\ store \in Stores /\ dir \in BOOLEAN
    /\ has \subseteq Stamps
    /\ export \in 0..MaxExports /\ marker \in 0..MaxExports
    /\ api \in {"free", "login"} /\ check \in Sessions \cup {None}
    /\ run \in [Processes -> RunStates]
    /\ spanned \in BOOLEAN /\ rotated \in BOOLEAN /\ cut \in BOOLEAN /\ raced \in BOOLEAN

(* An export that the marker calls imported is in the store, or a later    *)
(* one is, whoever replaces the export meanwhile; unless a login or a      *)
(* refused check removed the store of an import under way (main.rs         *)
(* 3470-3495, 3507-3524).                                                  *)
MarkerHonest == marker # 0 /\ ~raced => \E n \in has : n >= marker

(* The session on disk is that of the latest login, unless a process was   *)
(* at work during a login, and its tokens are the homeserver's latest,     *)
(* unless two processes overlapped around a refresh or one died before its *)
(* callback had saved (main.rs 1835-1863, 2095-2113).                      *)
SessionCurrent ==
    file # None =>
        /\ file.login = newest \/ spanned
        /\ \/ file.version = current[file.login]
           \/ rotated \/ cut \/ spanned
           \/ \E p \in Processes : Ahead(p)

(* What the code says of itself and does not keep.                         *)

(* "Matrix session expired or was revoked": a check removes no other       *)
(* session than the one it asked about (main.py 274-288).  A login may     *)
(* have written a new one while the homeserver answered.                   *)
RemovesWhatItChecked == [][CheckRefused => file = check \/ file = None]_vars
=============================================================================
