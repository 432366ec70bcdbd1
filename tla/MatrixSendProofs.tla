--------------------------- MODULE MatrixSendProofs ---------------------------
(***************************************************************************)
(* What holds of MatrixSend for any number of sends, rooms, targets and    *)
(* messages: its types, where a text arrives and how often, and what the   *)
(* move of a conversation leaves behind.                                   *)
(***************************************************************************)
EXTENDS MatrixSend, FiniteSetTheorems, TLAPS

LEMMA IdsAreNumbers == Ids \subseteq Nat /\ None \notin Ids /\ None \notin Rooms
<1>1. Cardinality(Rooms) \in Nat
  BY SendAssumption, FS_CardinalityType
<1>2. QED BY <1>1, SendAssumption DEF Ids

(* RowOf gives the row of the room, if there is one. *)
LEMMA RowOfIs ==
  ASSUME NEW r
  PROVE  /\ RowOf(r) \in Ids \cup {None}
         /\ RowOf(r) = None => \A i \in Ids : place[i] # r
         /\ RowOf(r) # None => place[RowOf(r)] = r
BY IdsAreNumbers DEF RowOf

(* A send has its room, and the row of it from where it has looked for it. *)
HasStale ==
    \A s \in Sends :
        /\ send[s].pc # "idle" => send[s].room \in Rooms
        /\ send[s].pc \in {"replacement", "move", "annotate", "archive", "rename"}
              => send[s].stale \in Ids

LEMMA TypesAndStale == Spec => [](TypeOK /\ HasStale)
<1> USE SendAssumption, IdsAreNumbers DEF TypeOK
<1>1. Init => TypeOK /\ HasStale
  <2> SUFFICES ASSUME Init PROVE TypeOK /\ HasStale
    OBVIOUS
  <2>1. send \in [Sends -> SendStates]
    BY DEF Init, NoSend, SendStates
  <2>2. 1 \in Ids
    <3>1. Cardinality(Rooms) \in Nat /\ Cardinality(Rooms) # 0
      BY FS_CardinalityType, FS_EmptySet
    <3>2. QED BY <3>1 DEF Ids
  <2>3. owner \in [Messages -> Ids \cup {None}]
    BY <2>2 DEF Init
  <2>4. place \in [Ids -> Rooms \cup {None}]
        /\ \A i, j \in Ids : place[i] = place[j] /\ place[i] # None => i = j
    BY DEF Init
  <2>5. QED BY <2>1, <2>3, <2>4 DEF Init, HasStale, NoSend
<1>2. TypeOK /\ HasStale /\ [Next]_vars => TypeOK'
  <2> SUFFICES ASSUME TypeOK, HasStale, [Next]_vars PROVE TypeOK'
    OBVIOUS
  <2> USE DEF server, database, aux
  <2>0. /\ SendStates = [pc : {"idle", "start", "room", "http", "resolve", "resend", "stale",
                     "replacement", "move", "annotate", "archive", "rename", "sent", "failed"},
               room : Rooms \cup {None}, to : Rooms \cup {None},
               stale : Ids \cup {None}, new : Ids \cup {None}]
    BY DEF SendStates
  <2>1. ASSUME NEW s \in Sends, Failed(s) PROVE send' \in [Sends -> SendStates]
    BY <2>0, <2>1 DEF Failed, NoSend
  <2>2. ASSUME NEW s \in Sends, NEW pc \in {"room", "http", "resolve", "stale", "annotate", "archive", "sent"},
               Go(s, pc)
        PROVE  send' \in [Sends -> SendStates]
    BY <2>0, <2>2 DEF Go
  <2>3. ASSUME NEW s \in Sends, Arrives(s) PROVE delivered' \in [Sends -> SUBSET Rooms]
    BY <2>3 DEF Arrives
  <2>4. CASE Replace BY <2>4 DEF Replace
  <2>5. ASSUME NEW r \in Rooms, IngestRoom(r) PROVE TypeOK'
    <3>1. /\ ingest' \in [room : Rooms \cup {None}, todo : SUBSET Messages]
          /\ alone' \subseteq Sends
          /\ UNCHANGED <<open, joined, archived, stored, owner, send, delivered, lost, disturbed>>
      BY <2>5 DEF IngestRoom
    <3>2. CASE UNCHANGED place BY <3>1, <3>2
    <3>3. CASE RowOf(r) = None /\ \E free : place' = [place EXCEPT ![free] = r]
      <4>1. \A i \in Ids : place[i] # r BY <3>3, RowOfIs
      <4>2. PICK free : place' = [place EXCEPT ![free] = r] BY <3>3
      <4>3. place' \in [Ids -> Rooms \cup {None}] BY <4>2
      <4>4. \A i \in Ids : place'[i] = IF i = free THEN r ELSE place[i] BY <4>2
      <4>5. \A i, j \in Ids : place'[i] = place'[j] /\ place'[i] # None => i = j
        BY <4>1, <4>4
      <4>6. QED BY <3>1, <4>3, <4>5
    <3>4. QED BY <2>5, <3>2, <3>3 DEF IngestRoom
  <2>6. ASSUME NEW m \in Messages, IngestEvent(m) PROVE TypeOK'
    <3>1. RowOf(ingest.room) \in Ids \cup {None} BY RowOfIs
    <3>2. ingest' \in [room : Rooms \cup {None}, todo : SUBSET Messages]
      BY <2>6 DEF IngestEvent
    <3>3. QED BY <2>6, <3>1, <3>2 DEF IngestEvent
  <2>7. ASSUME NEW s \in Sends, NEW r \in Rooms, Start(s, r) PROVE TypeOK'
    <3> DEFINE x == [send[s] EXCEPT !.pc = "start", !.room = r, !.to = r]
    <3>0. send[s] \in SendStates OBVIOUS
    <3>1. x \in SendStates BY <2>0, <3>0
    <3>2. send' = [send EXCEPT ![s] = x] BY <2>7 DEF Start
    <3>3. send' \in [Sends -> SendStates] BY <3>1, <3>2
    <3>4. QED BY <2>7, <3>3 DEF Start
  <2>8. ASSUME NEW s \in Sends, Prepare(s) PROVE TypeOK'
    BY <2>1, <2>2, <2>8 DEF Prepare
  <2>9. ASSUME NEW s \in Sends, SdkSend(s) PROVE TypeOK'
    BY <2>1, <2>2, <2>3, <2>9 DEF SdkSend
  <2>10. ASSUME NEW s \in Sends, SdkLacksRoom(s) PROVE TypeOK'
    BY <2>2, <2>10 DEF SdkLacksRoom
  <2>11. ASSUME NEW s \in Sends, HttpSend(s) PROVE TypeOK'
    BY <2>2, <2>3, <2>11 DEF HttpSend
  <2>12. ASSUME NEW s \in Sends, Resolve(s) PROVE TypeOK'
    <3>1. \A r \in ByKey(send[s].room) \cup ByTarget(send[s].room) : r \in Rooms
      BY DEF ByKey, ByTarget, Others
    <3>2. send' \in [Sends -> SendStates]
      <4>1. ASSUME NEW r \in Rooms, send' = [send EXCEPT ![s].pc = "resend", ![s].to = r]
            PROVE  send' \in [Sends -> SendStates]
        <5> DEFINE x == [send[s] EXCEPT !.pc = "resend", !.to = r]
        <5>0. send[s] \in SendStates OBVIOUS
        <5>1. x \in SendStates BY <2>0, <5>0
        <5>2. send' = [send EXCEPT ![s] = x] BY <4>1
        <5>3. QED BY <5>1, <5>2
      <4>2. QED BY <2>1, <2>12, <3>1, <4>1 DEF Resolve
    <3>3. QED BY <2>12, <3>2 DEF Resolve
  <2>13. ASSUME NEW s \in Sends, Resend(s) PROVE TypeOK'
    BY <2>1, <2>2, <2>3, <2>13 DEF Resend
  <2>14. ASSUME NEW s \in Sends, ReadStale(s) PROVE TypeOK'
    <3>1. RowOf(send[s].room) \in Ids \cup {None} BY RowOfIs
    <3>2. send' \in [Sends -> SendStates]
      <4>1. ASSUME NEW id \in Ids \cup {None},
                   send' = [send EXCEPT ![s].pc = "replacement", ![s].stale = id]
            PROVE  send' \in [Sends -> SendStates]
        <5> DEFINE x == [send[s] EXCEPT !.pc = "replacement", !.stale = id]
        <5>0. send[s] \in SendStates OBVIOUS
        <5>1. x \in SendStates BY <2>0, <5>0
        <5>2. send' = [send EXCEPT ![s] = x] BY <4>1
        <5>3. QED BY <5>1, <5>2
      <4>2. QED BY <2>1, <2>2, <2>14, <3>1, <4>1 DEF ReadStale
    <3>3. alone' \subseteq Sends BY <2>14 DEF ReadStale
    <3>4. QED BY <2>14, <3>2, <3>3 DEF ReadStale
  <2>15. ASSUME NEW s \in Sends, ReadReplacement(s) PROVE TypeOK'
    <3>1. RowOf(send[s].to) \in Ids \cup {None} BY RowOfIs
    <3>2. send' \in [Sends -> SendStates]
      <4>1. ASSUME NEW id \in Ids \cup {None}, NEW pc \in {"rename", "move"},
                   send' = [send EXCEPT ![s].pc = pc, ![s].new = id]
            PROVE  send' \in [Sends -> SendStates]
        <5> DEFINE x == [send[s] EXCEPT !.pc = pc, !.new = id]
        <5>0. send[s] \in SendStates OBVIOUS
        <5>1. x \in SendStates BY <2>0, <5>0
        <5>2. send' = [send EXCEPT ![s] = x] BY <4>1
        <5>3. QED BY <5>1, <5>2
      <4>2. QED BY <2>1, <2>15, <3>1, <4>1 DEF ReadReplacement
    <3>3. QED BY <2>15, <3>2 DEF ReadReplacement
  <2>16. ASSUME NEW s \in Sends, Writes(s) PROVE alone' \subseteq Sends /\ disturbed' \in BOOLEAN
    BY <2>16 DEF Writes
  <2>17. ASSUME NEW s \in Sends, MoveEvents(s) PROVE TypeOK'
    <3>1. send[s].new \in Ids \cup {None} BY <2>0
    <3>2. owner' \in [Messages -> Ids \cup {None}] BY <2>17, <3>1 DEF MoveEvents
    <3>3. send' \in [Sends -> SendStates] BY <2>1, <2>2, <2>17 DEF MoveEvents
    <3>4. alone' \subseteq Sends /\ disturbed' \in BOOLEAN BY <2>16, <2>17 DEF MoveEvents
    <3>5. QED BY <2>17, <3>2, <3>3, <3>4 DEF MoveEvents
  <2>18. ASSUME NEW s \in Sends, Annotate(s) PROVE TypeOK'
    BY <2>1, <2>2, <2>18 DEF Annotate
  <2>19. ASSUME NEW s \in Sends, Archive(s) PROVE TypeOK'
    <3>1. CASE Failed(s) /\ UNCHANGED <<archived, aux>>
      BY <2>1, <2>19, <3>1 DEF Archive
    <3>2. CASE archived' = archived \cup {send[s].stale} /\ Go(s, "sent") /\ Writes(s)
      <4>1. send[s].stale \in Ids
        BY <2>19 DEF Archive, At, HasStale
      <4>2. QED BY <2>2, <2>16, <2>19, <3>2, <4>1 DEF Archive
    <3>3. QED BY <2>19, <3>1, <3>2 DEF Archive
  <2>20. ASSUME NEW s \in Sends, Rename(s) PROVE TypeOK'
    <3>1. CASE Failed(s) /\ UNCHANGED <<place, aux>>
      BY <2>1, <2>20, <3>1 DEF Rename
    <3>2. CASE /\ RowOf(send[s].room) = None \/ RowOf(send[s].to) = None
               /\ place' = [i \in Ids |-> IF place[i] = send[s].room THEN send[s].to ELSE place[i]]
               /\ Go(s, "sent") /\ Writes(s)
      <4>1. send[s].to \in Rooms \cup {None} BY <2>0
      <4>2. \/ \A i \in Ids : place[i] # send[s].room
            \/ \A i \in Ids : place[i] # send[s].to
        BY <3>2, RowOfIs
      <4>3. \A i, j \in Ids : place'[i] = place'[j] /\ place'[i] # None => i = j
        <5>1. \A i \in Ids : place'[i] = IF place[i] = send[s].room THEN send[s].to ELSE place[i]
          BY <3>2
        <5>2. CASE \A i \in Ids : place[i] # send[s].room BY <5>1, <5>2
        <5>3. CASE \A i \in Ids : place[i] # send[s].to
          <6>1. send[s].room # None BY <2>20 DEF Rename, At, HasStale
          <6>2. QED BY <5>1, <5>3, <6>1
        <5>4. QED BY <4>2, <5>2, <5>3
      <4>4. place' \in [Ids -> Rooms \cup {None}] BY <3>2, <4>1
      <4>5. QED BY <2>2, <2>16, <2>20, <3>2, <4>3, <4>4 DEF Rename
    <3>3. QED BY <2>20, <3>1, <3>2 DEF Rename
  <2>21. ASSUME NEW s \in Sends, Killed(s) PROVE TypeOK'
    BY <2>1, <2>21 DEF Killed
  <2>22. CASE UNCHANGED vars BY <2>22 DEF vars
  <2>23. QED
    BY <2>4, <2>5, <2>6, <2>7, <2>8, <2>9, <2>10, <2>11, <2>12, <2>13, <2>14, <2>15,
       <2>17, <2>18, <2>19, <2>20, <2>21, <2>22
    DEF Next, Step
<1>3. TypeOK /\ HasStale /\ [Next]_vars => HasStale'
  <2> SUFFICES ASSUME TypeOK, HasStale, [Next]_vars PROVE HasStale'
    OBVIOUS
  <2> USE DEF HasStale
  <2>1. ASSUME UNCHANGED send PROVE HasStale'
    BY <2>1
  <2>2. ASSUME NEW s \in Sends, send[s].pc # "idle", Failed(s) PROVE HasStale'
    BY <2>2 DEF Failed, NoSend, SendStates
  <2>3. ASSUME NEW s \in Sends,
               NEW pc \in {"room", "http", "resolve", "stale", "sent"},
               send[s].pc # "idle", Go(s, pc)
        PROVE  HasStale'
    BY <2>3 DEF Go, SendStates
  <2>4. CASE Replace \/ (\E r \in Rooms : IngestRoom(r)) \/ (\E m \in Messages : IngestEvent(m))
    BY <2>1, <2>4 DEF Replace, IngestRoom, IngestEvent
  <2>5. ASSUME NEW s \in Sends, NEW r \in Rooms, Start(s, r) PROVE HasStale'
    BY <2>5 DEF Start, SendStates
  <2>6. ASSUME NEW s \in Sends, Prepare(s) \/ SdkSend(s) \/ SdkLacksRoom(s) \/ HttpSend(s) \/ Killed(s)
        PROVE  HasStale'
    BY <2>2, <2>3, <2>6 DEF Prepare, SdkSend, SdkLacksRoom, HttpSend, Killed, At
  <2>7. ASSUME NEW s \in Sends, Resolve(s) PROVE HasStale'
    <3>0. send[s].pc # "idle" BY <2>7 DEF Resolve, At
    <3>1. CASE Failed(s) BY <2>2, <3>0, <3>1
    <3>2. ASSUME NEW r, send' = [send EXCEPT ![s].pc = "resend", ![s].to = r] PROVE HasStale'
      BY <3>0, <3>2 DEF SendStates
    <3>3. QED BY <2>7, <3>1, <3>2 DEF Resolve
  <2>8. ASSUME NEW s \in Sends, Resend(s) PROVE HasStale'
    BY <2>2, <2>3, <2>8 DEF Resend, At
  <2>9. ASSUME NEW s \in Sends, ReadStale(s) PROVE HasStale'
    <3>1. ASSUME NEW id \in Ids, send' = [send EXCEPT ![s].pc = "replacement", ![s].stale = id]
          PROVE  HasStale'
      BY <2>9, <3>1 DEF SendStates, ReadStale, At
    <3>2. RowOf(send[s].room) \in Ids \cup {None} BY RowOfIs
    <3>3. QED BY <2>2, <2>3, <2>9, <3>1, <3>2 DEF ReadStale, At
  <2>10. ASSUME NEW s \in Sends, ReadReplacement(s) PROVE HasStale'
    <3>1. ASSUME NEW id, NEW pc, send' = [send EXCEPT ![s].pc = pc, ![s].new = id] PROVE HasStale'
      BY <2>10, <3>1 DEF SendStates, ReadReplacement, At
    <3>2. QED BY <2>2, <2>10, <3>1 DEF ReadReplacement, At
  <2>11. ASSUME NEW s \in Sends, NEW pc, Go(s, pc), send[s].pc \in {"move", "annotate"} PROVE HasStale'
    BY <2>11 DEF Go, SendStates
  <2>12. ASSUME NEW s \in Sends, MoveEvents(s) \/ Annotate(s) PROVE HasStale'
    BY <2>2, <2>11, <2>12 DEF MoveEvents, Annotate, At
  <2>13. ASSUME NEW s \in Sends, Archive(s) \/ Rename(s) PROVE HasStale'
    BY <2>2, <2>3, <2>13 DEF Archive, Rename, At
  <2>14. CASE UNCHANGED vars BY <2>1, <2>14 DEF vars
  <2>15. QED
    BY <2>4, <2>5, <2>6, <2>7, <2>8, <2>9, <2>10, <2>12, <2>13, <2>14 DEF Next, Step
<1>4. QED
  BY <1>1, <1>2, <1>3, PTL DEF Spec

(* The rooms, the rows and the sends keep to their types, and no two rows  *)
(* have one external_id, also when two sends move one conversation.        *)
THEOREM TypeCorrect == Spec => []TypeOK
BY TypesAndStale, PTL

-----------------------------------------------------------------------------
(* Where a send is decides where it may have delivered.                    *)
Meets(s, r) == r = send[s].room \/ Chats(r) \cap Chats(send[s].room) # {}

Delivering == {"stale", "replacement", "move", "annotate", "archive", "rename", "sent"}

Sender(s) ==
    /\ send[s].pc \in {"start", "room", "http", "resolve"} => send[s].to = send[s].room
    /\ send[s].pc \in {"resend"} \cup Delivering => Meets(s, send[s].to)
    /\ send[s].pc \in {"resend"} \cup (Delivering \ {"sent"}) => send[s].to # send[s].room
    /\ \A r \in delivered[s] : Meets(s, r)
    /\ send[s].pc \in {"idle", "start", "room", "http"} => delivered[s] = {}
    /\ send[s].pc \in Delivering => send[s].to \in delivered[s]
    /\ s \notin lost => /\ send[s].pc \in {"resolve", "resend"} => delivered[s] = {}
                        /\ send[s].pc \in Delivering => delivered[s] = {send[s].to}
                        /\ send[s].pc = "failed" => \E r : delivered[s] \subseteq {r}

Senders == \A s \in Sends : Sender(s)

(* Two targets that answer one another are of one chat: by their keys,     *)
(* which are unique, or by the channel itself.                             *)
LEMMA ReplacementMeets ==
  ASSUME joined \subseteq Rooms, NEW room \in Rooms, NEW r \in ByKey(room) \cup ByTarget(room)
  PROVE  r # room /\ Chats(r) \cap Chats(room) # {}
<1>1. r \in joined \ {room} /\ \E t \in Bridge[room] : Answers(r, t) # {}
  BY DEF ByKey, ByTarget, Others
<1>2. PICK t \in Bridge[room], u \in Bridge[r] : u.key = t.key /\ Match(u, t)
  BY <1>1 DEF Answers
<1>3. t \in Targets /\ u \in Targets
  BY <1>1, SendAssumption
<1>4. u.channel = t.channel /\ (u.key # "" \/ u.channel # "") /\ (t.key # "" \/ t.channel # "")
  BY <1>2, <1>3, KeysAreUnique DEF Match
<1>5. ChatOf(u) = ChatOf(t)
  BY <1>2, <1>4 DEF ChatOf
<1>6. ChatOf(u) \in Chats(r) /\ ChatOf(t) \in Chats(room)
  BY <1>2, <1>4 DEF Chats
<1>7. QED BY <1>1, <1>5, <1>6

LEMMA OthersUntouched ==
  ASSUME Senders, NEW s \in Sends, Sender(s)',
         \A q \in Sends \ {s} : /\ send'[q] = send[q] /\ delivered'[q] = delivered[q]
                                /\ q \in lost' <=> q \in lost
  PROVE  Senders'
<1>1. ASSUME NEW q \in Sends \ {s} PROVE Sender(q)'
  <2>1. Sender(q) BY DEF Senders
  <2>2. send'[q] = send[q] /\ delivered'[q] = delivered[q] /\ (q \in lost' <=> q \in lost)
    OBVIOUS
  <2>3. \A r : Meets(q, r)' <=> Meets(q, r)
    BY <2>2 DEF Meets, Chats
  <2>4. QED BY <2>1, <2>2, <2>3 DEF Sender
<1>2. QED BY <1>1 DEF Senders

(* A send that gives up leaves its texts where they are: in no room, in    *)
(* the one it has in hand, or in both if the first answer was lost.        *)
LEMMA FailureKeeps ==
  ASSUME TypeOK, Senders, NEW s \in Sends, Failed(s), lost' = lost, send[s].pc # "idle",
         \/ UNCHANGED delivered
         \/ send[s].pc \in {"room", "resend"} /\ Arrives(s)
  PROVE  Senders'
<1> USE DEF TypeOK
<1>1. /\ send'[s].pc = "failed" /\ send'[s].room = send[s].room
      /\ \A q \in Sends \ {s} : send'[q] = send[q]
  BY DEF Failed, NoSend
<1>2. \A r : Meets(s, r)' <=> Meets(s, r)
  BY <1>1 DEF Meets, Chats
<1>3. Sender(s)
  BY DEF Senders
<1>4. CASE UNCHANGED delivered
  <2>1. s \notin lost => \E r : delivered[s] \subseteq {r}
    BY <1>3 DEF Sender, Delivering, SendStates
  <2>2. Sender(s)'
    BY <1>1, <1>2, <1>3, <1>4, <2>1 DEF Sender, Delivering
  <2>3. QED BY <1>1, <1>4, <2>2, OthersUntouched
<1>5. CASE send[s].pc \in {"room", "resend"} /\ Arrives(s)
  <2>1. /\ delivered'[s] = delivered[s] \cup {send[s].to}
        /\ \A q \in Sends \ {s} : delivered'[q] = delivered[q]
    BY <1>5 DEF Arrives
  <2>2. Meets(s, send[s].to)
    BY <1>3, <1>5 DEF Sender, Meets
  <2>3. s \notin lost => delivered[s] = {}
    BY <1>3, <1>5 DEF Sender
  <2>4. Sender(s)'
    BY <1>1, <1>2, <1>3, <2>1, <2>2, <2>3 DEF Sender, Delivering
  <2>5. QED BY <1>1, <2>1, <2>4, OthersUntouched
<1>6. QED BY <1>4, <1>5

(* A step that delivers nothing and stays with its room.                   *)
LEMMA MoveKeeps ==
  ASSUME TypeOK, Senders, NEW s \in Sends,
         send'[s].room = send[s].room, send'[s].to = send[s].to,
         \/ send[s].pc = "start" /\ send'[s].pc = "room"
         \/ send[s].pc = "room" /\ send'[s].pc = "http"
         \/ send[s].pc = "http" /\ send'[s].pc = "resolve"
         \/ send[s].pc \in Delivering \ {"sent"} /\ send'[s].pc \in Delivering,
         \A q \in Sends \ {s} : send'[q] = send[q],
         UNCHANGED <<delivered, lost>>
  PROVE  Senders'
<1>1. \A r : Meets(s, r)' <=> Meets(s, r)
  BY DEF Meets, Chats
<1>2. Sender(s)
  BY DEF Senders
<1>3. Sender(s)'
  BY <1>1, <1>2 DEF Sender, Delivering
<1>4. QED BY <1>3, OthersUntouched

(* A step in which the text arrives and its answer too.                    *)
LEMMA ArrivalKeeps ==
  ASSUME TypeOK, Senders, NEW s \in Sends, Arrives(s), lost' = lost,
         \/ send[s].pc \in {"room", "http"} /\ Go(s, "sent")
         \/ send[s].pc = "resend" /\ Go(s, "stale")
  PROVE  Senders'
<1> USE DEF TypeOK
<1>1. /\ send'[s].room = send[s].room /\ send'[s].to = send[s].to
      /\ send'[s].pc \in {"sent", "stale"} /\ (send'[s].pc = "stale" => send[s].pc = "resend")
      /\ \A q \in Sends \ {s} : send'[q] = send[q]
  BY DEF Go, SendStates
<1>2. /\ delivered'[s] = delivered[s] \cup {send[s].to}
      /\ \A q \in Sends \ {s} : delivered'[q] = delivered[q]
  BY DEF Arrives
<1>3. \A r : Meets(s, r)' <=> Meets(s, r)
  BY <1>1 DEF Meets, Chats
<1>4. Sender(s)
  BY DEF Senders
<1>5. Meets(s, send[s].to)
  BY <1>4 DEF Sender, Meets
<1>6. Sender(s)'
  BY <1>1, <1>2, <1>3, <1>4, <1>5 DEF Sender, Delivering
<1>7. QED BY <1>1, <1>2, <1>6, OthersUntouched

LEMMA SendersKept == Spec => []Senders
<1>1. Init => Senders
  BY DEF Init, Senders, Sender, NoSend, Delivering, Meets
<1>2. TypeOK /\ HasStale /\ Senders /\ [Next]_vars => Senders'
  <2> SUFFICES ASSUME TypeOK, HasStale, Senders, [Next]_vars PROVE Senders'
    OBVIOUS
  <2> USE DEF TypeOK, server, database, aux
  <2>1. ASSUME UNCHANGED <<send, delivered, lost>> PROVE Senders'
    BY <2>1 DEF Senders, Sender, Meets, Chats
  <2>2. CASE Replace \/ (\E r \in Rooms : IngestRoom(r)) \/ (\E m \in Messages : IngestEvent(m))
    BY <2>1, <2>2 DEF Replace, IngestRoom, IngestEvent
  <2>3. ASSUME NEW s \in Sends, NEW r \in Rooms, Start(s, r) PROVE Senders'
    <3>1. /\ send'[s].pc = "start" /\ send'[s].room = r /\ send'[s].to = r
          /\ \A q \in Sends \ {s} : send'[q] = send[q]
          /\ send[s].pc = "idle" /\ UNCHANGED <<delivered, lost>>
      BY <2>3 DEF Start, At, SendStates
    <3>2. Sender(s)'
      BY <3>1 DEF Senders, Sender, Delivering
    <3>3. QED BY <3>1, <3>2, OthersUntouched
  <2>4. ASSUME NEW s \in Sends, NEW pc, Go(s, pc)
        PROVE  /\ send'[s].pc = pc /\ send'[s].room = send[s].room /\ send'[s].to = send[s].to
               /\ \A q \in Sends \ {s} : send'[q] = send[q]
    BY <2>4 DEF Go, SendStates
  <2>5. ASSUME NEW s \in Sends, Prepare(s) PROVE Senders'
    BY <2>4, <2>5, MoveKeeps, FailureKeeps DEF Prepare, At
  <2>6. ASSUME NEW s \in Sends, SdkSend(s) PROVE Senders'
    BY <2>6, ArrivalKeeps, FailureKeeps DEF SdkSend, At
  <2>7. ASSUME NEW s \in Sends, SdkLacksRoom(s) PROVE Senders'
    BY <2>4, <2>7, MoveKeeps DEF SdkLacksRoom, At
  <2>8. ASSUME NEW s \in Sends, HttpSend(s) PROVE Senders'
    <3>1. send[s].pc = "http" BY <2>8 DEF HttpSend, At
    <3>2. CASE Arrives(s) /\ Go(s, "sent") /\ UNCHANGED lost
      BY <3>1, <3>2, ArrivalKeeps
    <3>3. CASE Arrives(s) /\ Go(s, "resolve") /\ lost' = lost \cup {s}
      <4>1. /\ delivered'[s] = {send[s].to} /\ send[s].to = send[s].room
            /\ \A q \in Sends \ {s} : delivered'[q] = delivered[q]
        BY <3>1, <3>3 DEF Arrives, Senders, Sender
      <4>2. Sender(s)'
        BY <2>4, <3>3, <4>1 DEF Sender, Meets, Delivering
      <4>3. QED BY <2>4, <3>3, <4>1, <4>2, OthersUntouched
    <3>4. CASE Go(s, "resolve") /\ UNCHANGED <<delivered, lost>>
      BY <2>4, <3>1, <3>4, MoveKeeps
    <3>5. QED BY <2>8, <3>2, <3>3, <3>4 DEF HttpSend
  <2>9. ASSUME NEW s \in Sends, Resolve(s) PROVE Senders'
    <3>1. send[s].pc = "resolve" /\ UNCHANGED <<delivered, lost>>
      BY <2>9 DEF Resolve, At
    <3>2. CASE Failed(s) BY <3>1, <3>2, FailureKeeps
    <3>3. ASSUME NEW r \in ByKey(send[s].room) \cup ByTarget(send[s].room),
                 send' = [send EXCEPT ![s].pc = "resend", ![s].to = r]
          PROVE  Senders'
      <4>1. /\ send'[s].pc = "resend" /\ send'[s].room = send[s].room /\ send'[s].to = r
            /\ \A q \in Sends \ {s} : send'[q] = send[q]
        BY <3>3 DEF SendStates
      <4>2. send[s].room \in Rooms BY <3>1 DEF HasStale
      <4>3. r # send[s].room /\ Chats(r) \cap Chats(send[s].room) # {}
        BY <3>3, <4>2, ReplacementMeets
      <4>4. Sender(s)'
        <5>1. Sender(s) BY DEF Senders
        <5>2. \A x : Meets(s, x)' <=> Meets(s, x) BY <4>1 DEF Meets, Chats
        <5>3. Meets(s, r) BY <4>3 DEF Meets
        <5>4. QED BY <3>1, <4>1, <4>3, <5>1, <5>2, <5>3 DEF Sender, Delivering
      <4>5. QED BY <3>1, <4>1, <4>4, OthersUntouched
    <3>4. QED BY <2>9, <3>2, <3>3 DEF Resolve
  <2>10. ASSUME NEW s \in Sends, Resend(s) PROVE Senders'
    BY <2>10, ArrivalKeeps, FailureKeeps DEF Resend, At
  <2>11. ASSUME NEW s \in Sends, ReadStale(s) PROVE Senders'
    <3>1. send[s].pc = "stale" /\ UNCHANGED <<delivered, lost>>
      BY <2>11 DEF ReadStale, At
    <3>2. CASE Failed(s) BY <3>1, <3>2, FailureKeeps
    <3>3. CASE Go(s, "sent") BY <2>4, <3>1, <3>3, MoveKeeps DEF Delivering
    <3>4. ASSUME NEW id, send' = [send EXCEPT ![s].pc = "replacement", ![s].stale = id]
          PROVE  Senders'
      <4>1. /\ send'[s].pc = "replacement" /\ send'[s].room = send[s].room
            /\ send'[s].to = send[s].to /\ \A q \in Sends \ {s} : send'[q] = send[q]
        BY <3>4 DEF SendStates
      <4>2. QED BY <3>1, <4>1, MoveKeeps DEF Delivering
    <3>5. QED BY <2>11, <3>2, <3>3, <3>4 DEF ReadStale
  <2>12. ASSUME NEW s \in Sends, ReadReplacement(s) PROVE Senders'
    <3>1. send[s].pc = "replacement" /\ UNCHANGED <<delivered, lost>>
      BY <2>12 DEF ReadReplacement, At
    <3>2. CASE Failed(s) BY <3>1, <3>2, FailureKeeps
    <3>3. ASSUME NEW id, NEW pc \in {"rename", "move"},
                 send' = [send EXCEPT ![s].pc = pc, ![s].new = id]
          PROVE  Senders'
      <4>1. /\ send'[s].pc = pc /\ send'[s].room = send[s].room
            /\ send'[s].to = send[s].to /\ \A q \in Sends \ {s} : send'[q] = send[q]
        BY <3>3 DEF SendStates
      <4>2. QED BY <3>1, <4>1, MoveKeeps DEF Delivering
    <3>4. QED BY <2>12, <3>2, <3>3 DEF ReadReplacement
  <2>13. ASSUME NEW s \in Sends, MoveEvents(s) \/ Annotate(s) \/ Archive(s) \/ Rename(s)
         PROVE  Senders'
    <3>1. /\ send[s].pc \in {"move", "annotate", "archive", "rename"} /\ UNCHANGED <<delivered, lost>>
          /\ Failed(s) \/ Go(s, "annotate") \/ Go(s, "archive") \/ Go(s, "sent")
      BY <2>13 DEF MoveEvents, Annotate, Archive, Rename, At
    <3>2. CASE Failed(s) BY <3>1, <3>2, FailureKeeps
    <3>3. ASSUME NEW pc \in {"annotate", "archive", "sent"}, Go(s, pc) PROVE Senders'
      BY <2>4, <3>1, <3>3, MoveKeeps DEF Delivering
    <3>4. QED BY <3>1, <3>2, <3>3
  <2>14. ASSUME NEW s \in Sends, Killed(s) PROVE Senders'
    BY <2>14, FailureKeeps DEF Killed, At
  <2>15. CASE UNCHANGED vars BY <2>1, <2>15 DEF vars
  <2>16. QED
    BY <2>2, <2>3, <2>5, <2>6, <2>7, <2>8, <2>9, <2>10, <2>11, <2>12, <2>13, <2>14, <2>15
    DEF Next, Step
<1>3. QED
  BY <1>1, <1>2, TypesAndStale, PTL DEF Spec

(* However the sends fall out of step with the rooms, each text stays in   *)
(* its chat, and what is reported as sent has arrived.                     *)
THEOREM ChatIsKept == Spec => []SentToTheChat
<1>1. Senders => SentToTheChat
  BY DEF Senders, Sender, Meets, Delivering, SentToTheChat, At
<1>2. QED BY <1>1, SendersKept, PTL

(* No send repeats its text in another room unless an answer was lost.     *)
THEOREM OnlyLostIsRepeated == Spec => []TwiceOnlyIfLost
<1>1. Senders /\ TypeOK => TwiceOnlyIfLost
  <2> SUFFICES ASSUME Senders, TypeOK, NEW s \in Sends, s \notin lost
               PROVE  ~(Cardinality(delivered[s]) > 1)
    BY DEF TwiceOnlyIfLost
  <2>1. \E r : delivered[s] \subseteq {r}
    BY DEF Senders, Sender, Delivering, TypeOK, SendStates
  <2>2. PICK r : delivered[s] = {} \/ delivered[s] = {r}
    BY <2>1
  <2>3. Cardinality(delivered[s]) \in {0, 1}
    BY <2>2, FS_EmptySet, FS_Singleton
  <2>4. QED BY <2>3
<1>2. QED BY <1>1, SendersKept, TypeCorrect, PTL

-----------------------------------------------------------------------------
(* What a send that is alone has read of the database is still so, and     *)
(* once it has moved the messages none is left behind.                     *)
LooksHold ==
    \A s \in alone :
        /\ send[s].pc \in {"replacement", "move", "annotate", "archive", "rename"}
              => place[send[s].stale] = send[s].room
        /\ send[s].pc \in {"move", "annotate", "archive"}
              => send[s].new \in Ids /\ place[send[s].new] = send[s].to

NoneLeftBehind ==
    ~disturbed => \A s \in alone :
        send[s].pc \in {"annotate", "archive"} => \A m \in stored : owner[m] # send[s].stale

NoneHidden == ~disturbed => \A m \in stored : owner[m] \notin archived \cup {None}

Remap == LooksHold /\ NoneLeftBehind /\ NoneHidden

(* Another send goes on without a look into the database, or fails.        *)
LEMMA SendMovesOn ==
  ASSUME TypeOK, Remap, NEW s \in Sends, UNCHANGED <<database, aux>>,
         \A q \in Sends \ {s} : send'[q] = send[q],
         send'[s].pc \in {"start", "room", "http", "resolve", "resend", "stale", "sent", "failed"}
  PROVE  Remap'
BY DEF TypeOK, Remap, LooksHold, NoneLeftBehind, NoneHidden, database, aux

LEMMA RemapKept == Spec => []Remap
<1> USE IdsAreNumbers
<1>1. Init => Remap
  <2> SUFFICES ASSUME Init PROVE Remap
    OBVIOUS
  <2>1. \A m \in stored : owner[m] = 1
    BY DEF Init
  <2>2. NoneHidden
    BY <2>1, SendAssumption DEF Init, NoneHidden
  <2>3. QED BY <2>2 DEF Init, Remap, LooksHold, NoneLeftBehind
<1>2. TypeOK /\ HasStale /\ Senders /\ Remap /\ [Next]_vars => Remap'
  <2> SUFFICES ASSUME TypeOK, HasStale, Senders, Remap, [Next]_vars PROVE Remap'
    OBVIOUS
  <2> USE DEF TypeOK, server
  <2>1. ASSUME UNCHANGED <<database, send, aux>> PROVE Remap'
    BY <2>1 DEF Remap, LooksHold, NoneLeftBehind, NoneHidden, database, aux
  <2>2. ASSUME NEW s \in Sends, NEW pc, Go(s, pc)
        PROVE  /\ send'[s].pc = pc /\ send'[s].room = send[s].room /\ send'[s].to = send[s].to
               /\ send'[s].stale = send[s].stale /\ send'[s].new = send[s].new
               /\ \A q \in Sends \ {s} : send'[q] = send[q]
    BY <2>2 DEF Go, SendStates
  <2>3. ASSUME NEW s \in Sends, Failed(s)
        PROVE  send'[s].pc = "failed" /\ \A q \in Sends \ {s} : send'[q] = send[q]
    BY <2>3 DEF Failed, NoSend
  <2>4. ASSUME NEW s \in Sends, Failed(s), UNCHANGED <<database, aux>> PROVE Remap'
    BY <2>3, <2>4, SendMovesOn
  <2>5. CASE Replace
    BY <2>1, <2>5 DEF Replace
  <2>6. ASSUME NEW r \in Rooms, IngestRoom(r) PROVE Remap'
    <3>1. alone' = {} /\ UNCHANGED <<archived, owner, stored, disturbed>>
      BY <2>6 DEF IngestRoom
    <3>2. QED BY <3>1 DEF Remap, LooksHold, NoneLeftBehind, NoneHidden
  <2>7. ASSUME NEW m \in Messages, IngestEvent(m) PROVE Remap'
    <3>1. /\ alone' = {} /\ stored' = stored \cup {m} /\ UNCHANGED archived
          /\ owner' = [owner EXCEPT ![m] = RowOf(ingest.room)]
          /\ disturbed' = (disturbed \/ RowOf(ingest.room) \in archived \cup {None})
      BY <2>7 DEF IngestEvent
    <3>2. NoneHidden'
      <4>1. SUFFICES ASSUME ~disturbed', NEW n \in stored' PROVE owner'[n] \notin archived \cup {None}
        BY <3>1 DEF NoneHidden
      <4>2. ~disturbed /\ RowOf(ingest.room) \notin archived \cup {None}
        BY <3>1, <4>1
      <4>3. CASE n = m BY <3>1, <4>2, <4>3
      <4>4. CASE n # m BY <3>1, <4>2, <4>4 DEF Remap, NoneHidden
      <4>5. QED BY <4>3, <4>4
    <3>3. QED BY <3>1, <3>2 DEF Remap, LooksHold, NoneLeftBehind
  <2>8. ASSUME NEW s \in Sends, NEW r \in Rooms, Start(s, r) PROVE Remap'
    <3>1. send'[s].pc = "start" /\ \A q \in Sends \ {s} : send'[q] = send[q]
      BY <2>8 DEF Start, SendStates
    <3>2. QED BY <2>8, <3>1, SendMovesOn DEF Start
  <2>9. ASSUME NEW s \in Sends,
               Prepare(s) \/ SdkSend(s) \/ SdkLacksRoom(s) \/ HttpSend(s) \/ Resend(s) \/ Killed(s)
        PROVE  Remap'
    <3>1. /\ UNCHANGED <<database, aux>>
          /\ \/ Failed(s)
             \/ \E pc \in {"room", "sent", "http", "resolve", "stale"} : Go(s, pc)
      BY <2>9 DEF Prepare, SdkSend, SdkLacksRoom, HttpSend, Resend, Killed, aux
    <3>2. QED BY <2>2, <2>4, <3>1, SendMovesOn
  <2>10. ASSUME NEW s \in Sends, Resolve(s) PROVE Remap'
    <3>1. UNCHANGED <<database, aux>> BY <2>10 DEF Resolve
    <3>2. ASSUME NEW r, send' = [send EXCEPT ![s].pc = "resend", ![s].to = r] PROVE Remap'
      <4>1. send'[s].pc = "resend" /\ \A q \in Sends \ {s} : send'[q] = send[q]
        BY <3>2 DEF SendStates
      <4>2. QED BY <3>1, <4>1, SendMovesOn
    <3>3. QED BY <2>4, <2>10, <3>1, <3>2 DEF Resolve
  <2>11. ASSUME NEW s \in Sends, ReadStale(s) PROVE Remap'
    <3> DEFINE id == RowOf(send[s].room)
    <3>1. UNCHANGED database /\ UNCHANGED disturbed BY <2>11 DEF ReadStale
    <3>2. CASE Failed(s) /\ UNCHANGED alone
      BY <2>4, <3>1, <3>2 DEF aux
    <3>3. CASE Go(s, "sent") /\ UNCHANGED alone
      BY <2>2, <3>1, <3>3, SendMovesOn DEF aux
    <3>4. CASE /\ id # None
               /\ send' = [send EXCEPT ![s].pc = "replacement", ![s].stale = id]
               /\ alone' = alone \cup {s}
      <4>1. /\ send'[s].pc = "replacement" /\ send'[s].stale = id /\ send'[s].room = send[s].room
            /\ \A q \in Sends \ {s} : send'[q] = send[q]
        BY <3>4 DEF SendStates
      <4>2. place[id] = send[s].room BY <3>4, RowOfIs
      <4>3. QED
        BY <3>1, <3>4, <4>1, <4>2 DEF Remap, LooksHold, NoneLeftBehind, NoneHidden, database
    <3>5. QED BY <2>11, <3>2, <3>3, <3>4 DEF ReadStale
  <2>12. ASSUME NEW s \in Sends, ReadReplacement(s) PROVE Remap'
    <3> DEFINE id == RowOf(send[s].to)
    <3>1. UNCHANGED <<database, aux>> /\ send[s].pc = "replacement"
      BY <2>12 DEF ReadReplacement, At
    <3>2. CASE Failed(s) BY <2>4, <3>1, <3>2
    <3>3. CASE send' = [send EXCEPT ![s].pc = IF id = None THEN "rename" ELSE "move", ![s].new = id]
      <4>1. /\ send'[s].pc = IF id = None THEN "rename" ELSE "move"
            /\ send'[s].stale = send[s].stale /\ send'[s].room = send[s].room
            /\ send'[s].to = send[s].to /\ send'[s].new = id
            /\ \A q \in Sends \ {s} : send'[q] = send[q]
        BY <3>3 DEF SendStates
      <4>2. id # None => id \in Ids /\ place[id] = send[s].to BY RowOfIs
      <4>3. QED
        BY <3>1, <4>1, <4>2 DEF Remap, LooksHold, NoneLeftBehind, NoneHidden, database, aux
    <3>4. QED BY <2>12, <3>2, <3>3 DEF ReadReplacement
  <2>13. ASSUME NEW s \in Sends, MoveEvents(s) PROVE Remap'
    <3>1. send[s].pc = "move" BY <2>13 DEF MoveEvents, At
    <3>2. CASE Failed(s) /\ UNCHANGED <<owner, aux>>
      BY <2>4, <2>13, <3>2 DEF MoveEvents, database
    <3>3. CASE /\ owner' = [m \in Messages |-> IF m \in stored /\ owner[m] = send[s].stale
                                               THEN send[s].new ELSE owner[m]]
               /\ Go(s, "annotate") /\ Writes(s)
      <4>1. UNCHANGED <<place, archived, stored>> BY <2>13 DEF MoveEvents
      <4>2. /\ alone' = alone \cap {s}
            /\ disturbed' = (disturbed \/ s \notin alone \/ send[s].new \in archived)
        BY <3>3 DEF Writes
      <4>3. LooksHold'
        BY <2>2, <3>1, <3>3, <4>1, <4>2 DEF Remap, LooksHold
      <4>4. ASSUME ~disturbed'
            PROVE  /\ send[s].new \in Ids /\ send[s].new \notin archived
                   /\ send[s].new # send[s].stale
        <5>1. s \in alone /\ send[s].new \notin archived BY <4>2, <4>4
        <5>2. /\ place[send[s].stale] = send[s].room /\ place[send[s].new] = send[s].to
              /\ send[s].new \in Ids
          BY <3>1, <5>1 DEF Remap, LooksHold
        <5>3. send[s].to # send[s].room BY <3>1 DEF Senders, Sender, Delivering
        <5>4. QED BY <5>1, <5>2, <5>3
      <4>5. NoneLeftBehind'
        BY <2>2, <3>3, <4>1, <4>2, <4>4 DEF NoneLeftBehind
      <4>6. NoneHidden'
        BY <3>3, <4>1, <4>2, <4>4 DEF Remap, NoneHidden
      <4>7. QED BY <4>3, <4>5, <4>6 DEF Remap
    <3>4. QED BY <2>13, <3>2, <3>3 DEF MoveEvents
  <2>14. ASSUME NEW s \in Sends, Annotate(s) PROVE Remap'
    <3>1. UNCHANGED <<database, aux>> /\ send[s].pc = "annotate" BY <2>14 DEF Annotate, At
    <3>2. CASE Failed(s) BY <2>4, <3>1, <3>2
    <3>3. CASE Go(s, "archive")
      BY <2>2, <3>1, <3>3 DEF Remap, LooksHold, NoneLeftBehind, NoneHidden, database, aux
    <3>4. QED BY <2>14, <3>2, <3>3 DEF Annotate
  <2>15. ASSUME NEW s \in Sends, Archive(s) PROVE Remap'
    <3>1. send[s].pc = "archive" BY <2>15 DEF Archive, At
    <3>2. CASE Failed(s) /\ UNCHANGED <<archived, aux>>
      BY <2>4, <2>15, <3>2 DEF Archive, database
    <3>3. CASE archived' = archived \cup {send[s].stale} /\ Go(s, "sent") /\ Writes(s)
      <4>1. UNCHANGED <<place, owner, stored>> BY <2>15 DEF Archive
      <4>2. /\ alone' = alone \cap {s}
            /\ disturbed' = (disturbed \/ s \notin alone \/ send[s].new \in archived)
        BY <3>3 DEF Writes
      <4>3. LooksHold' /\ NoneLeftBehind'
        BY <2>2, <3>3, <4>2 DEF LooksHold, NoneLeftBehind
      <4>4. NoneHidden'
        BY <3>1, <3>3, <4>1, <4>2 DEF Remap, NoneLeftBehind, NoneHidden
      <4>5. QED BY <4>3, <4>4 DEF Remap
    <3>4. QED BY <2>15, <3>2, <3>3 DEF Archive
  <2>16. ASSUME NEW s \in Sends, Rename(s) PROVE Remap'
    <3>1. CASE Failed(s) /\ UNCHANGED <<place, aux>>
      BY <2>4, <2>16, <3>1 DEF Rename, database
    <3>2. CASE Go(s, "sent") /\ Writes(s)
      <4>1. UNCHANGED <<archived, owner, stored>> BY <2>16 DEF Rename
      <4>2. alone' = alone \cap {s} /\ (disturbed => disturbed')
        BY <3>2 DEF Writes
      <4>3. LooksHold' /\ NoneLeftBehind'
        BY <2>2, <3>2, <4>2 DEF LooksHold, NoneLeftBehind
      <4>4. NoneHidden'
        BY <4>1, <4>2 DEF Remap, NoneHidden
      <4>5. QED BY <4>3, <4>4 DEF Remap
    <3>3. QED BY <2>16, <3>1, <3>2 DEF Rename
  <2>17. CASE UNCHANGED vars BY <2>1, <2>17 DEF vars
  <2>18. QED
    BY <2>5, <2>6, <2>7, <2>8, <2>9, <2>10, <2>11, <2>12, <2>13, <2>14, <2>15, <2>16, <2>17
    DEF Next, Step
<1>3. QED
  BY <1>1, <1>2, TypesAndStale, SendersKept, PTL DEF Spec

(* Wherever the move of a conversation stops or its process is killed, no  *)
(* message is in an archived conversation, as long as nobody writes over   *)
(* what a send has read.                                                   *)
THEOREM NothingIsHidden == Spec => []RemapHidesNothing
<1>1. Remap => RemapHidesNothing
  BY DEF Remap, NoneHidden, RemapHidesNothing, Hidden
<1>2. QED BY <1>1, RemapKept, PTL

(* A move that goes through leaves no active conversation of the old room. *)
THEOREM MoveSettles == Spec => RemapSettles
<1> DEFINE Settles == \A s \in Sends :
       /\ send[s].pc \in {"archive", "rename"} /\ send'[s].pc = "sent" /\ s \in alone
       => \A i \in Ids : place'[i] = send[s].room => i \in archived'
<1>1. TypeOK /\ HasStale /\ Senders /\ Remap /\ [Next]_vars => [Settles]_vars
  <2> SUFFICES ASSUME TypeOK, HasStale, Senders, Remap, Next, NEW s \in Sends,
                      send[s].pc \in {"archive", "rename"}, send'[s].pc = "sent", s \in alone,
                      NEW i \in Ids, place'[i] = send[s].room
               PROVE  i \in archived'
    OBVIOUS
  <2> USE DEF TypeOK
  <2>1. send'[s] # send[s]
    OBVIOUS
  <2>2. CASE Archive(s)
    <3>1. archived' = archived \cup {send[s].stale} /\ UNCHANGED place
      BY <2>2 DEF Archive, Failed, NoSend
    <3>2. place[send[s].stale] = send[s].room /\ send[s].room # None /\ send[s].stale \in Ids
      BY <2>2, IdsAreNumbers DEF Archive, At, Remap, LooksHold, HasStale
    <3>3. QED BY <3>1, <3>2
  <2>3. CASE Rename(s)
    <3>1. place' = [j \in Ids |-> IF place[j] = send[s].room THEN send[s].to ELSE place[j]]
      BY <2>3 DEF Rename, Failed, NoSend
    <3>2. send[s].to # send[s].room
      BY <2>3 DEF Rename, At, Senders, Sender, Delivering
    <3>3. QED BY <3>1, <3>2
  <2>4. ASSUME NEW q \in Sends, q # s, Step(q) \/ Killed(q) \/ \E r \in Rooms : Start(q, r)
        PROVE  send'[s] = send[s]
    <3> USE <2>4 DEF Go, Failed
    <3>1. CASE \E r \in Rooms : Start(q, r) BY <3>1 DEF Start
    <3>2. CASE Killed(q) BY <3>2 DEF Killed
    <3>3. CASE Step(q)
      BY <3>3 DEF Step, Prepare, SdkSend, SdkLacksRoom, HttpSend, Resolve, Resend, ReadStale,
         ReadReplacement, MoveEvents, Annotate, Archive, Rename
    <3>4. QED BY <2>4, <3>1, <3>2, <3>3
  <2>5. CASE Step(s)
    BY <2>2, <2>3, <2>5 DEF Step, At, Prepare, SdkSend, SdkLacksRoom, HttpSend, Resolve, Resend,
       ReadStale, ReadReplacement, MoveEvents, Annotate
  <2>6. ~Killed(s) /\ ~\E r \in Rooms : Start(s, r)
    BY DEF Killed, Failed, NoSend, Start, At
  <2>7. CASE Replace \/ (\E r \in Rooms : IngestRoom(r)) \/ (\E m \in Messages : IngestEvent(m))
    BY <2>1, <2>7 DEF Replace, IngestRoom, IngestEvent
  <2>8. QED BY <2>1, <2>4, <2>5, <2>6, <2>7 DEF Next
<1>2. QED
  BY <1>1, TypesAndStale, SendersKept, RemapKept, PTL DEF Spec, RemapSettles

=============================================================================
