---------------------------- MODULE MatrixSend ----------------------------
(***************************************************************************)
(* Sending a message into a Matrix room, and what happens when the bridge  *)
(* to another network has meanwhile replaced the room by a new one: mode   *)
(* send_message of src/liferadar-matrix/src/main.rs, started by POST /send *)
(* of src/api/matrix_bridge.py, which kills it after 90 seconds.           *)
(*                                                                         *)
(* A send that finds no way into its room looks for a joined room with the *)
(* same bridge target, sends there, and moves the conversation in the      *)
(* database over.  Several sends may run at once, and beside them a run of *)
(* ingest that writes the conversations and messages of the joined rooms.  *)
(***************************************************************************)
EXTENDS Naturals, FiniteSets

CONSTANTS
    Sends,      \* requests to POST /send
    Rooms,
    Targets,    \* bridge targets: [key, channel], each possibly ""
    Bridge,     \* the targets in the state of each room
    Messages,   \* events that ingest may write
    RoomOf,     \* the room each of them was sent in
    Old,        \* the room that is replaced
    None        \* no row, no room

ASSUME SendAssumption ==
    /\ IsFiniteSet(Rooms) /\ Old \in Rooms
    /\ Bridge \in [Rooms -> SUBSET Targets]
    /\ RoomOf \in [Messages -> Rooms]
    /\ None \notin Rooms /\ None \notin Nat

(* Two targets with one key are the same channel. *)
ASSUME KeysAreUnique ==
    \A t, u \in Targets : t.key = u.key /\ t.key # "" => t.channel = u.channel

Ids == 1..Cardinality(Rooms)

VARIABLES
    open,       \* rooms a message can be sent to
    joined,     \* rooms this account is in
    place,      \* external_id of each conversation row
    archived,   \* rows in state archived
    owner,      \* conversation_id of each message row
    stored,     \* messages that have a row
    ingest,     \* the room ingest is writing and the events left
    send,       \* the state of each send
    delivered,  \* rooms each send's text has arrived in
    lost,       \* auxiliary: sends whose direct send arrived without an answer
    alone,      \* auxiliary: sends since whose look into the database nobody
                \* else has written it
    disturbed   \* auxiliary: a send wrote on an outdated look or for an
                \* archived replacement, or ingest wrote to no active row

server == <<open, joined>>
database == <<place, archived, owner, stored>>
aux == <<alone, disturbed>>
vars == <<server, database, ingest, send, delivered, lost, aux>>

NoSend == [pc |-> "idle", room |-> None, to |-> None, stale |-> None, new |-> None]

(* The room's conversation has been ingested before it was replaced. *)
Init == /\ open = Rooms /\ joined = Rooms
        /\ place = [i \in Ids |-> IF i = 1 THEN Old ELSE None]
        /\ archived = {}
        /\ stored = {m \in Messages : RoomOf[m] = Old}
        /\ owner = [m \in Messages |-> IF RoomOf[m] = Old THEN 1 ELSE None]
        /\ ingest = [room |-> None, todo |-> {}]
        /\ send = [s \in Sends |-> NoSend]
        /\ delivered = [s \in Sends |-> {}]
        /\ lost = {} /\ alone = {} /\ disturbed = FALSE

(* The row with this external_id, which is unique. *)
RowOf(r) == IF \E i \in Ids : place[i] = r THEN CHOOSE i \in Ids : place[i] = r ELSE None

At(s, pc) == send[s].pc = pc
Go(s, pc) == send' = [send EXCEPT ![s].pc = pc]
Failed(s) == send' = [send EXCEPT ![s] = [NoSend EXCEPT !.pc = "failed", !.room = send[s].room]]
Ended(s) == send[s].pc \in {"sent", "failed"}

----------------------------------------------------------------------------
(* The homeserver and ingest.                                              *)

(* The old room takes no more messages; the account may stay in it. *)
Replace ==
    /\ Old \in open
    /\ open' = open \ {Old}
    /\ joined' \in {joined, joined \ {Old}}
    /\ UNCHANGED <<database, ingest, send, delivered, lost, aux>>

(* The conversation is inserted or found; a failure goes unnoticed. *)
IngestRoom(r) ==
    /\ ingest.room = None /\ r \in joined
    /\ \E todo \in SUBSET {m \in Messages : RoomOf[m] = r} :
         todo # {} /\ ingest' = [room |-> r, todo |-> todo]
    /\ \/ UNCHANGED place
       \/ /\ RowOf(r) = None
          /\ LET free == CHOOSE i \in Ids : place[i] = None
             IN  place' = [place EXCEPT ![free] = r]
    /\ alone' = {}
    /\ UNCHANGED <<server, archived, owner, stored, send, delivered, lost, disturbed>>

(* A row that is there already is given the room's conversation of now. *)
IngestEvent(m) ==
    /\ m \in ingest.todo
    /\ ingest' = IF ingest.todo = {m} THEN [room |-> None, todo |-> {}]
                 ELSE [ingest EXCEPT !.todo = @ \ {m}]
    /\ stored' = stored \cup {m}
    /\ owner' = [owner EXCEPT ![m] = RowOf(ingest.room)]
    /\ disturbed' = (disturbed \/ RowOf(ingest.room) \in archived \cup {None})
    /\ alone' = {}
    /\ UNCHANGED <<server, place, archived, send, delivered, lost>>

----------------------------------------------------------------------------
(* A send, up to its first attempt.                                        *)

(* POST /send: a new process, given a room. *)
Start(s, r) ==
    /\ At(s, "idle")
    /\ send' = [send EXCEPT ![s].pc = "start", ![s].room = r, ![s].to = r]
    /\ UNCHANGED <<server, database, ingest, delivered, lost, aux>>

(* Session, recovery, key import, sync and the check of the own device. *)
Prepare(s) ==
    /\ At(s, "start")
    /\ Go(s, "room") \/ Failed(s)
    /\ UNCHANGED <<server, database, ingest, delivered, lost, aux>>

(* A text reaches a room that is open, and the answer may still not come. *)
Arrives(s) == send[s].to \in open /\ delivered' = [delivered EXCEPT ![s] = @ \cup {send[s].to}]

(* Mutant: an error of the SDK leads on to the direct request. *)
SdkSendFallsBack(s) ==
    /\ At(s, "room")
    /\ \/ Arrives(s) /\ (Go(s, "sent") \/ Go(s, "http"))
       \/ Go(s, "http") /\ UNCHANGED delivered
    /\ UNCHANGED <<server, database, ingest, lost, aux>>

(* Through the SDK when it has the room or can join it: an error is final. *)
SdkSend(s) ==
    /\ At(s, "room")
    /\ joined' \in {joined, joined \cup ({send[s].to} \cap open)}
    /\ \/ Arrives(s) /\ (Go(s, "sent") \/ Failed(s))
       \/ Failed(s) /\ UNCHANGED delivered
    /\ UNCHANGED <<open, database, ingest, lost, aux>>

(* The SDK does not know the room and joining it fails. *)
SdkLacksRoom(s) ==
    /\ At(s, "room")
    /\ Go(s, "http")
    /\ UNCHANGED <<server, database, ingest, delivered, lost, aux>>

(* Any error of the direct request, also one after it arrived, leads on to *)
(* the search for a replacement.                                           *)
HttpSend(s) ==
    /\ At(s, "http")
    /\ \/ Arrives(s) /\ Go(s, "sent") /\ UNCHANGED lost
       \/ Arrives(s) /\ Go(s, "resolve") /\ lost' = lost \cup {s}
       \/ Go(s, "resolve") /\ UNCHANGED <<delivered, lost>>
    /\ UNCHANGED <<server, database, ingest, aux>>

----------------------------------------------------------------------------
(* The search for the room that replaces the one asked for.                *)

(* bridge_targets_match *)
Match(left, right) == \/ left.key # "" /\ left.key = right.key
                      \/ left.channel # "" /\ left.channel = right.channel

(* Mutant: the event that answers is not compared with the target. *)
AnswersUnmatched(r, t) == {u \in Bridge[r] : u.key = t.key}

(* A room is asked for a bridge event with the state key of a target. *)
Answers(r, t) == {u \in Bridge[r] : u.key = t.key /\ Match(u, t)}

Others(room) == joined \ {room}

ByKey(room) == {r \in Others(room) : \E t \in Bridge[room] : t.key # "" /\ Answers(r, t) # {}}

ByTarget(room) == {r \in Others(room) : \E t \in Bridge[room] : Answers(r, t) # {}}

(* Of the rooms that are asked side by side the first to answer; only if   *)
(* none has the key, all of them once more for targets without one.  Any   *)
(* request that fails ends the send.                                       *)
Resolve(s) ==
    /\ At(s, "resolve")
    /\ LET room == send[s].room
           found == IF ByKey(room) # {} THEN ByKey(room) ELSE ByTarget(room)
       IN  \/ \E r \in found : send' = [send EXCEPT ![s].pc = "resend", ![s].to = r]
           \/ Failed(s)
    /\ UNCHANGED <<server, database, ingest, delivered, lost, aux>>

(* A full sync, and the new room over the SDK or over HTTP. *)
Resend(s) ==
    /\ At(s, "resend")
    /\ joined' \in {joined, joined \cup ({send[s].to} \cap open)}
    /\ \/ Arrives(s) /\ (Go(s, "stale") \/ Failed(s))
       \/ Failed(s) /\ UNCHANGED delivered
    /\ UNCHANGED <<open, database, ingest, lost, aux>>

----------------------------------------------------------------------------
(* reconcile_conversation_room_id.  Nothing holds its statements together, *)
(* and an error of any is the error of the send.                           *)

(* Without a row for the stale room there is nothing to do. *)
ReadStale(s) ==
    /\ At(s, "stale")
    /\ LET id == RowOf(send[s].room) IN
         \/ id = None /\ Go(s, "sent") /\ UNCHANGED alone
         \/ /\ id # None
            /\ send' = [send EXCEPT ![s].pc = "replacement", ![s].stale = id]
            /\ alone' = alone \cup {s}
         \/ Failed(s) /\ UNCHANGED alone
    /\ UNCHANGED <<server, database, ingest, delivered, lost, disturbed>>

ReadReplacement(s) ==
    /\ At(s, "replacement")
    /\ LET id == RowOf(send[s].to) IN
         \/ send' = [send EXCEPT ![s].pc = IF id = None THEN "rename" ELSE "move", ![s].new = id]
         \/ Failed(s)
    /\ UNCHANGED <<server, database, ingest, delivered, lost, aux>>

(* Every write makes the looks of the others outdated. *)
Writes(s) == /\ disturbed' = (disturbed \/ s \notin alone \/ send[s].new \in archived)
             /\ alone' = alone \cap {s}

(* Mutant: an update that fails is ignored, as ingest ignores its own. *)
MoveEventsOrNot(s) ==
    /\ At(s, "move")
    /\ \/ owner' = [m \in Messages |-> IF m \in stored /\ owner[m] = send[s].stale
                                       THEN send[s].new ELSE owner[m]]
       \/ UNCHANGED owner
    /\ Go(s, "annotate") /\ Writes(s)
    /\ UNCHANGED <<server, place, archived, stored, ingest, delivered, lost>>

MoveEvents(s) ==
    /\ At(s, "move")
    /\ \/ /\ owner' = [m \in Messages |-> IF m \in stored /\ owner[m] = send[s].stale
                                          THEN send[s].new ELSE owner[m]]
          /\ Go(s, "annotate") /\ Writes(s)
       \/ Failed(s) /\ UNCHANGED <<owner, aux>>
    /\ UNCHANGED <<server, place, archived, stored, ingest, delivered, lost>>

Annotate(s) ==
    /\ At(s, "annotate")
    /\ Go(s, "archive") \/ Failed(s)
    /\ UNCHANGED <<server, database, ingest, delivered, lost, aux>>

(* Mutant: the other conversation is archived. *)
ArchiveSwapped(s) ==
    /\ At(s, "archive")
    /\ archived' = archived \cup {send[s].new} /\ Go(s, "sent") /\ Writes(s)
    /\ UNCHANGED <<server, place, owner, stored, ingest, delivered, lost>>

Archive(s) ==
    /\ At(s, "archive")
    /\ \/ archived' = archived \cup {send[s].stale} /\ Go(s, "sent") /\ Writes(s)
       \/ Failed(s) /\ UNCHANGED <<archived, aux>>
    /\ UNCHANGED <<server, place, owner, stored, ingest, delivered, lost>>

(* Mutant: no constraint keeps the new id from being given twice. *)
RenameUnchecked(s) ==
    /\ At(s, "rename")
    /\ place' = [i \in Ids |-> IF place[i] = send[s].room THEN send[s].to ELSE place[i]]
    /\ Go(s, "sent") /\ Writes(s)
    /\ UNCHANGED <<server, archived, owner, stored, ingest, delivered, lost>>

(* The row is found by the stale room's id once more; another row with the *)
(* new one makes the update fail.                                          *)
Rename(s) ==
    /\ At(s, "rename")
    /\ \/ /\ RowOf(send[s].room) = None \/ RowOf(send[s].to) = None
          /\ place' = [i \in Ids |-> IF place[i] = send[s].room THEN send[s].to ELSE place[i]]
          /\ Go(s, "sent") /\ Writes(s)
       \/ Failed(s) /\ UNCHANGED <<place, aux>>
    /\ UNCHANGED <<server, archived, owner, stored, ingest, delivered, lost>>

(* The bridge's time-out, or the end of the process for any other reason. *)
Killed(s) ==
    /\ ~Ended(s) /\ ~At(s, "idle")
    /\ Failed(s)
    /\ UNCHANGED <<server, database, ingest, delivered, lost, aux>>

----------------------------------------------------------------------------

Step(s) == \/ Prepare(s) \/ SdkSend(s) \/ SdkLacksRoom(s) \/ HttpSend(s)
           \/ Resolve(s) \/ Resend(s)
           \/ ReadStale(s) \/ ReadReplacement(s)
           \/ MoveEvents(s) \/ Annotate(s) \/ Archive(s) \/ Rename(s)

Next == \/ Replace
        \/ \E r \in Rooms : IngestRoom(r)
        \/ \E m \in Messages : IngestEvent(m)
        \/ \E s \in Sends, r \in Rooms : Start(s, r)
        \/ \E s \in Sends : Step(s) \/ Killed(s)

Spec == Init /\ [][Next]_vars

----------------------------------------------------------------------------
(* Properties.                                                             *)

SendStates == [pc : {"idle", "start", "room", "http", "resolve", "resend", "stale",
                     "replacement", "move", "annotate", "archive", "rename", "sent", "failed"},
               room : Rooms \cup {None}, to : Rooms \cup {None},
               stale : Ids \cup {None}, new : Ids \cup {None}]

TypeOK ==
    /\ open \subseteq Rooms /\ joined \subseteq Rooms
    /\ place \in [Ids -> Rooms \cup {None}]
    /\ \A i, j \in Ids : place[i] = place[j] /\ place[i] # None => i = j
    /\ archived \subseteq Ids
    /\ stored \subseteq Messages /\ owner \in [Messages -> Ids \cup {None}]
    /\ ingest \in [room : Rooms \cup {None}, todo : SUBSET Messages]
    /\ send \in [Sends -> SendStates]
    /\ delivered \in [Sends -> SUBSET Rooms]
    /\ lost \subseteq Sends /\ alone \subseteq Sends
    /\ disturbed \in BOOLEAN

(* A bridge event without a channel names its chat by its key, and without *)
(* either it names none.                                                   *)
ChatOf(t) == IF t.channel # "" THEN <<"channel", t.channel>> ELSE <<"key", t.key>>

Chats(r) == {ChatOf(t) : t \in {u \in Bridge[r] : u.key # "" \/ u.channel # ""}}

(* The text goes to the room asked for or to one that bridges the same     *)
(* chat (main.rs 2924-2995), and a send that reports sent has delivered it.*)
SentToTheChat ==
    \A s \in Sends :
        /\ \A r \in delivered[s] :
             r = send[s].room \/ Chats(r) \cap Chats(send[s].room) # {}
        /\ At(s, "sent") => send[s].to \in delivered[s]

(* One send delivers its text in two rooms only if the answer to the       *)
(* direct request got lost (main.rs 2188-2207).                            *)
TwiceOnlyIfLost == \A s \in Sends : Cardinality(delivered[s]) > 1 => s \in lost

Hidden(m) == m \in stored /\ owner[m] \in archived \cup {None}

(* Moving a conversation hides none of its messages, wherever a send stops *)
(* or dies between the statements, as long as each send works on what is   *)
(* still true and ingest does not write the stale room (main.rs            *)
(* 3128-3168).                                                             *)
RemapHidesNothing == (\E m \in Messages : Hidden(m)) => disturbed

(* A send that ends with the conversation moved and was alone leaves no    *)
(* active conversation of the stale room behind, also when an earlier one  *)
(* stopped halfway.                                                        *)
RemapSettles ==
    [][\A s \in Sends :
          /\ send[s].pc \in {"archive", "rename"} /\ send'[s].pc = "sent" /\ s \in alone
          => \A i \in Ids : place'[i] = send[s].room => i \in archived']_vars

(* What the code says of itself and does not keep.                         *)

(* "bridge-room-replacement-detected": only the conversation of a room that*)
(* takes no more messages is archived.  A direct send whose answer is lost *)
(* makes the code look for a replacement of a room that is in order.       *)
ArchivesTheStale == \A i \in archived : place[i] \notin open
=============================================================================
