--------------------------- MODULE MatrixHealing ---------------------------
(***************************************************************************)
(* Messages the Matrix client could not decrypt, and how they are read     *)
(* later: the import of exported room keys, which every mode of            *)
(* src/liferadar-matrix/src/main.rs begins with, and the choice of the     *)
(* rooms that ingest reprocesses.                                          *)
(*                                                                         *)
(* The worker's loop (src/bin/run-probes.sh) runs a probe, then ingest     *)
(* and, when that fails, recover_http.  Another process, started by the    *)
(* bridge or by hand, may import the keys first.  How the files of the     *)
(* import are kept is the subject of MatrixIdentity, and which events      *)
(* ingest fetches in a room that it does not reprocess that of             *)
(* MatrixHistory.                                                          *)
(***************************************************************************)
EXTENDS Naturals, Sequences, FiniteSets

CONSTANTS
    Rooms,
    Events,         \* encrypted events, each with a key of its own
    RoomOf,
    Limit,          \* undecrypted_heal_room_limit
    Cooldown,       \* iterations of the loop in undecrypted_heal_cooldown_hours
    Unreachable,    \* sets of rooms whose history cannot be fetched
    Exports,        \* the keys of the exports put in place one after the other
    Arriving,       \* the keys a sync may bring by itself
    MaxFailures     \* bound

ASSUME HealingAssumption ==
    /\ IsFiniteSet(Rooms) /\ IsFiniteSet(Events)
    /\ RoomOf \in [Events -> Rooms]
    /\ Limit \in Nat \ {0} /\ Cooldown \in Nat
    /\ Unreachable \subseteq SUBSET Rooms
    /\ Exports \in Seq(SUBSET Events) /\ Arriving \subseteq Events
    /\ MaxFailures \in Nat

VARIABLES
    sent,       \* the events so far, in the order of their time stamps
    keys,       \* the keys in the crypto store
    export,     \* the file of exported keys: its stamp and its keys
    marker,     \* the stamp of the last import, 0 without a marker file
    row,        \* the content of each event's row
    attempt,    \* undecrypted_heal of each room: its age and the events before
    dead,       \* the rooms whose history cannot be fetched
    phase,      \* what the loop is doing
    stat,       \* the stamp of the export it is about to import
    imported,   \* the worker's import_outcome
    heal, todo, \* heal_room_ids, and the rooms ingest has yet to go through
    fetched,    \* the room in hand, its events and those that were decrypted
    failures,   \* errors and restarts so far
    had,        \* auxiliary: the keys after ingest's import
    fresh,      \* auxiliary: this iteration has imported an export
    clean       \* auxiliary: nothing has failed in this iteration

crypto == <<keys, export, marker>>
database == <<row, attempt>>
ingest == <<heal, todo, fetched>>
aux == <<had, fresh, clean>>
loop == <<phase, stat, imported>>
vars == <<sent, crypto, database, dead, loop, ingest, failures, aux>>

NoFetch == [room |-> "none", got |-> {}, text |-> {}]
NoAttempt == [age |-> Cooldown, at |-> 0]

Init == /\ sent = << >>
        /\ keys = {}
        /\ export = [stamp |-> 0, keys |-> {}] /\ marker = 0
        /\ row = [e \in Events |-> "none"]
        /\ attempt = [r \in Rooms |-> NoAttempt]
        /\ dead \in Unreachable
        /\ phase = "probe" /\ stat = 0 /\ imported = FALSE
        /\ heal = {} /\ todo = {} /\ fetched = NoFetch
        /\ failures = 0
        /\ had = {} /\ fresh = FALSE /\ clean = TRUE

Sent == {sent[i] : i \in DOMAIN sent}
Stamp(e) == CHOOSE i \in DOMAIN sent : sent[i] = e
InRoom(r) == {e \in Sent : RoomOf[e] = r}

----------------------------------------------------------------------------
(* What happens around the client.                                         *)

Send(e) ==
    /\ e \notin Sent
    /\ sent' = Append(sent, e)
    /\ UNCHANGED <<crypto, database, dead, loop, ingest, failures, aux>>

(* An operator puts a new export in place of the old one. *)
NewExport ==
    /\ export.stamp < Len(Exports)
    /\ export' = [stamp |-> export.stamp + 1, keys |-> Exports[export.stamp + 1]]
    /\ UNCHANGED <<sent, keys, marker, database, dead, loop, ingest, failures, aux>>

(* Mode key_import, a send or a verification. *)
OtherImports ==
    /\ export.stamp # 0 /\ marker # export.stamp
    /\ keys' = keys \cup export.keys /\ marker' = export.stamp
    /\ UNCHANGED <<sent, export, database, dead, loop, ingest, failures, aux>>

----------------------------------------------------------------------------
(* The worker's loop: run_probe and ingest_live_history, which both begin  *)
(* with maybe_import_room_keys.                                            *)

AfterImport == IF phase \in {"probe", "probe_import"} THEN "ingest" ELSE "sync"

(* Nothing is imported without an export, or when the marker has its stamp. *)
UpToDate ==
    /\ phase \in {"probe", "ingest"}
    /\ export.stamp = 0 \/ marker = export.stamp
    /\ phase' = AfterImport /\ imported' = FALSE
    /\ UNCHANGED <<sent, crypto, database, dead, stat, ingest, failures, aux>>

ReadStamp ==
    /\ phase \in {"probe", "ingest"}
    /\ export.stamp # 0 /\ marker # export.stamp
    /\ stat' = export.stamp
    /\ phase' = IF phase = "probe" THEN "probe_import" ELSE "ingest_import"
    /\ UNCHANGED <<sent, crypto, database, dead, imported, ingest, failures, aux>>

(* Mutant: the import replaces the keys there are. *)
ImportReplaces ==
    /\ phase \in {"probe_import", "ingest_import"}
    /\ keys' = export.keys
    /\ marker' = stat /\ stat' = 0
    /\ phase' = AfterImport /\ imported' = (phase = "ingest_import") /\ fresh' = TRUE
    /\ UNCHANGED <<sent, export, database, dead, ingest, failures, had, clean>>

(* The marker has the stamp that was read before the keys. *)
Import ==
    /\ phase \in {"probe_import", "ingest_import"}
    /\ keys' = keys \cup export.keys
    /\ marker' = stat /\ stat' = 0
    /\ phase' = AfterImport /\ imported' = (phase = "ingest_import") /\ fresh' = TRUE
    /\ UNCHANGED <<sent, export, database, dead, ingest, failures, had, clean>>

(* The sync, which may bring keys too. *)
Sync ==
    /\ phase = "sync"
    /\ phase' = "stats"
    /\ \E ks \in SUBSET Arriving : keys' = keys \cup ks
    /\ had' = keys'
    /\ UNCHANGED <<sent, export, marker, database, dead, stat, imported, ingest,
                   failures, fresh, clean>>

Undecrypted(r) == {e \in Events : RoomOf[e] = r /\ row[e] = "undecrypted"}

Latest(r) == CHOOSE i \in {Stamp(e) : e \in Undecrypted(r)} :
                \A e \in Undecrypted(r) : Stamp(e) <= i

(* room_should_heal_undecrypted *)
ShouldHeal(r) ==
    /\ Undecrypted(r) # {}
    /\ imported \/ attempt[r].age = Cooldown \/ Latest(r) > attempt[r].at

(* Mutant: the limit also holds for a run that has imported keys. *)
HealRoomsLimited(candidates) ==
    {r \in candidates : Cardinality({q \in candidates : Latest(q) > Latest(r)}) < Limit}

(* The rooms with the latest undecrypted events, all of them after an import. *)
HealRooms(candidates) ==
    IF imported THEN candidates
    ELSE {r \in candidates : Cardinality({q \in candidates : Latest(q) > Latest(r)}) < Limit}

Failure(n) == /\ failures + n <= MaxFailures
              /\ failures' = failures + n
              /\ clean' = (clean /\ n = 0)

(* Statistics that cannot be read count as a room without such events. *)
ReadStats ==
    /\ phase = "stats"
    /\ phase' = "rooms"
    /\ \E unread \in SUBSET Rooms :
         /\ Failure(Cardinality(unread))
         /\ heal' = HealRooms({r \in Rooms \ unread : ShouldHeal(r)})
    /\ todo' = Rooms /\ fetched' = NoFetch
    /\ UNCHANGED <<sent, crypto, database, dead, stat, imported, had, fresh>>

(* One room after the other, in an order of the SDK: all of the history of *)
(* one to be reprocessed, or what is new.  Nothing comes of one that fails. *)
Fetch ==
  LET r == CHOOSE r \in todo : TRUE IN
    /\ phase = "rooms" /\ todo # {} /\ fetched = NoFetch
    /\ todo' = todo \ {r}
    /\ \/ /\ r \notin dead
          /\ \E got \in IF r \in heal THEN {InRoom(r)} ELSE SUBSET InRoom(r) :
               fetched' = IF got = {} THEN NoFetch
                          ELSE [room |-> r, got |-> got,
                                text |-> got \cap keys]
          /\ UNCHANGED <<failures, clean>>
       \/ /\ Failure(IF r \in dead THEN 0 ELSE 1)
          /\ fetched' = NoFetch
    /\ UNCHANGED <<sent, crypto, database, dead, loop, heal, had, fresh>>

(* Mutant: the attempt is not noted. *)
AttemptedSilently(r) == UNCHANGED attempt

(* The attempt is noted with the conversation, before the events. *)
Attempted(r) == attempt' = IF r \in heal
                           THEN [attempt EXCEPT ![r] = [age |-> 0, at |-> Len(sent)]]
                           ELSE attempt

Content(e) == IF e \in fetched.text THEN "text" ELSE "undecrypted"

(* Each statement may fail by itself, and nobody notices. *)
WriteRoom ==
    /\ fetched # NoFetch
    /\ \E lost \in SUBSET fetched.got, noted \in BOOLEAN :
         /\ Failure(Cardinality(lost) + (IF noted THEN 0 ELSE 1))
         /\ IF noted THEN Attempted(fetched.room) ELSE UNCHANGED attempt
         /\ row' = [e \in Events |-> IF e \in fetched.got \ lost THEN Content(e) ELSE row[e]]
    /\ fetched' = NoFetch
    /\ UNCHANGED <<sent, crypto, dead, loop, heal, todo, had, fresh>>

(* Mutant: the age is not capped. *)
RestUncapped ==
    /\ phase' = "probe" /\ stat' = 0 /\ imported' = FALSE
    /\ attempt' = [r \in Rooms |-> [attempt[r] EXCEPT !.age = @ + 1]]
    /\ heal' = {} /\ todo' = {} /\ fetched' = NoFetch
    /\ had' = {} /\ fresh' = FALSE /\ clean' = TRUE

(* The loop sleeps, and time passes for the attempts. *)
Rest ==
    /\ phase' = "probe" /\ stat' = 0 /\ imported' = FALSE
    /\ attempt' = [r \in Rooms |->
                     [attempt[r] EXCEPT !.age = IF @ < Cooldown THEN @ + 1 ELSE @]]
    /\ heal' = {} /\ todo' = {} /\ fetched' = NoFetch
    /\ had' = {} /\ fresh' = FALSE /\ clean' = TRUE

IngestEnds ==
    /\ phase = "rooms" /\ todo = {} /\ fetched = NoFetch
    /\ Rest
    /\ UNCHANGED <<sent, crypto, row, dead, failures>>

(* An error in the probe is passed over; after one in ingest comes         *)
(* recover_http.  A worker that is restarted begins anew.  The keys may    *)
(* have been imported without a marker.                                    *)
WorkerFails ==
    /\ phase # "recover" /\ Failure(1)
    /\ phase' \in {"probe", IF phase \in {"probe", "probe_import"} THEN "ingest" ELSE "recover"}
    /\ keys' \in {keys} \cup {keys \cup export.keys : x \in {phase} \cap {"probe_import", "ingest_import"}}
    /\ heal' = {} /\ todo' = {} /\ fetched' = NoFetch
    /\ stat' = 0 /\ imported' = FALSE /\ had' = {}
    /\ UNCHANGED <<sent, export, marker, database, dead, fresh>>

(* recover_http decrypts nothing and overwrites what is there. *)
Recover ==
    /\ phase = "recover"
    /\ \E got \in SUBSET Sent :
         row' = [e \in Events |-> IF e \in got THEN "undecrypted" ELSE row[e]]
    /\ Rest
    /\ UNCHANGED <<sent, crypto, dead, failures>>

----------------------------------------------------------------------------

Work == \/ UpToDate \/ ReadStamp \/ Import \/ Sync
        \/ ReadStats \/ Fetch
        \/ WriteRoom \/ IngestEnds \/ Recover

Next == \/ \E e \in Events : Send(e)
        \/ NewExport \/ OtherImports
        \/ Work \/ WorkerFails

(* The loop goes on for ever. *)
Spec == Init /\ [][Next]_vars /\ WF_vars(Work)

----------------------------------------------------------------------------
(* Properties.                                                             *)

TypeOK ==
    /\ sent \in Seq(Events)
    /\ keys \subseteq Events
    /\ export \in [stamp : 0..Len(Exports), keys : SUBSET Events]
    /\ marker \in 0..Len(Exports)
    /\ row \in [Events -> {"none", "undecrypted", "text"}]
    /\ attempt \in [Rooms -> [age : 0..Cooldown, at : Nat]]
    /\ dead \subseteq Rooms
    /\ phase \in {"probe", "probe_import", "ingest", "ingest_import", "sync", "stats",
                  "rooms", "recover"}
    /\ stat \in 0..Len(Exports)
    /\ imported \in BOOLEAN
    /\ heal \subseteq Rooms /\ todo \subseteq Rooms
    /\ fetched \in [room : Rooms \cup {"none"}, got : SUBSET Events, text : SUBSET Events]
    /\ failures \in 0..MaxFailures
    /\ had \subseteq Events /\ fresh \in BOOLEAN /\ clean \in BOOLEAN

(* Text is replaced by a placeholder only by recover_http, as long as the  *)
(* crypto store is not thrown away (main.rs 1739-1757, 1082-1127).         *)
TextKept ==
    [][\A e \in Events : row[e] = "text" /\ row'[e] = "undecrypted" => phase = "recover"]_vars

Reprocessed(new) ==
    IngestEnds /\ clean /\ new =>
        \A e \in Events : row[e] = "undecrypted" => e \notin had \/ RoomOf[e] \in dead

(* A run of ingest that has imported keys itself, and ends without an      *)
(* error, leaves nothing undecrypted it had a key for (main.rs 3348-3350,  *)
(* 1641-1652).                                                             *)
ImportReprocesses == [][Reprocessed(imported)]_vars

(* A message whose key is there is read some day, when the rooms nobody    *)
(* can fetch do not take up the limit: they are never noted as attempted   *)
(* (main.rs 1676-1687, 1646-1652).                                         *)
HealedEventually ==
    \A e \in Events :
        /\ row[e] = "undecrypted" /\ e \in keys
        /\ RoomOf[e] \notin dead /\ Cardinality(dead) < Limit
        ~> row[e] = "text"

(* What the code says of itself and does not keep.                         *)

(* "The worker should now import the new keys and re-process undecrypted   *)
(* messages": so does each iteration that imports an export.  The probe    *)
(* imports it first and leaves a marker, and ingest then has nothing to    *)
(* import (run-probes.sh 28-30, main.rs 3442-3495).                        *)
LoopReprocesses == [][Reprocessed(fresh)]_vars
=============================================================================
