---------------------------- MODULE WorkerLoopProofs ----------------------------
(***************************************************************************)
(* Two steps of the worker's loop (src/bin/run-probes.sh).                 *)
(*                                                                         *)
(* What holds of MatrixHealing for any rooms, events, exports, limits and  *)
(* number of failures: its types, that ingest never replaces text by a     *)
(* placeholder, and that an import by ingest reprocesses everything.       *)
(*                                                                         *)
(* What holds of CalendarReconcile for any actions, edits, refused events  *)
(* and number of failures: its types, that no event is lost sight of, and  *)
(* that a run that gets through leaves everything settled.                 *)
(***************************************************************************)
EXTENDS MatrixHealing, CalendarReconcile, FiniteSetTheorems, WellFoundedInduction, TLAPS

LEMMA CountIsNumber ==
  ASSUME NEW S, IsFiniteSet(S), NEW T \in SUBSET S
  PROVE  Cardinality(T) \in Nat /\ (Cardinality(T) = 0 => T = {})
BY FS_Subset, FS_CardinalityType, FS_EmptySet

(* The keys, the rows and the loop's variables keep to their types through *)
(* imports, failures and restarts in any order.                            *)
THEOREM TypeCorrect == Spec => []TypeOK
<1> USE HealingAssumption DEF TypeOK
<1>1. Init => TypeOK
  <2> SUFFICES ASSUME Init PROVE TypeOK
    OBVIOUS
  <2>1. attempt \in [Rooms -> [age : 0..Cooldown, at : Nat]]
    BY DEF Init, NoAttempt
  <2>2. fetched \in [room : Rooms \cup {"none"}, got : SUBSET Events, text : SUBSET Events]
    BY DEF Init, NoFetch
  <2>3. sent \in Seq(Events) /\ export \in [stamp : 0..Len(Exports), keys : SUBSET Events]
    BY DEF Init
  <2>4. dead \subseteq Rooms
    BY DEF Init
  <2>5. 0 \in 0..Len(Exports) /\ 0 \in 0..MaxFailures
    OBVIOUS
  <2>6. QED BY <2>1, <2>2, <2>3, <2>4, <2>5 DEF Init
<1>2. TypeOK /\ [Next]_vars => TypeOK'
  <2> SUFFICES ASSUME TypeOK, [Next]_vars PROVE TypeOK'
    OBVIOUS
  <2> USE DEF crypto, database, ingest, aux, loop
  <2>1. Len(sent) \in Nat /\ Len(Exports) \in Nat
    OBVIOUS
  <2>2. NoFetch \in [room : Rooms \cup {"none"}, got : SUBSET Events, text : SUBSET Events]
    BY DEF NoFetch
  <2>3. ASSUME NEW e \in Events, Send(e) PROVE TypeOK'
    BY <2>3 DEF Send
  <2>4. CASE NewExport
    <3>1. Exports[export.stamp + 1] \in SUBSET Events /\ export.stamp + 1 \in 0..Len(Exports)
      BY <2>1, <2>4 DEF NewExport
    <3>2. QED BY <2>4, <3>1 DEF NewExport
  <2>5. CASE OtherImports BY <2>5 DEF OtherImports
  <2>6. CASE UpToDate BY <2>6 DEF UpToDate, AfterImport
  <2>7. CASE ReadStamp BY <2>7 DEF ReadStamp
  <2>8. CASE Import BY <2>1, <2>8 DEF Import, AfterImport
  <2>9. CASE Sync BY <2>9 DEF Sync
  <2>10. CASE ReadStats
    <3>1. PICK unread \in SUBSET Rooms :
             /\ Failure(Cardinality(unread))
             /\ heal' = HealRooms({r \in Rooms \ unread : ShouldHeal(r)})
      BY <2>10 DEF ReadStats
    <3>2. heal' \subseteq Rooms BY <3>1 DEF HealRooms
    <3>3. failures' \in 0..MaxFailures /\ clean' \in BOOLEAN
      BY <3>1, CountIsNumber DEF Failure
    <3>4. QED BY <2>2, <2>10, <3>2, <3>3 DEF ReadStats
  <2>11. CASE Fetch
    <3> DEFINE r == CHOOSE r \in todo : TRUE
    <3>1. r \in todo /\ r \in Rooms BY <2>11 DEF Fetch
    <3>2. InRoom(r) \subseteq Events BY DEF InRoom, Sent
    <3>3. failures' \in 0..MaxFailures /\ clean' \in BOOLEAN
      <4>1. CASE UNCHANGED <<failures, clean>> BY <4>1
      <4>2. CASE Failure(IF r \in dead THEN 0 ELSE 1) BY <4>2 DEF Failure
      <4>3. QED BY <2>11, <4>1, <4>2 DEF Fetch
    <3>4. fetched' \in [room : Rooms \cup {"none"}, got : SUBSET Events, text : SUBSET Events]
      <4>1. ASSUME NEW got \in SUBSET InRoom(r),
                   fetched' = IF got = {} THEN NoFetch ELSE [room |-> r, got |-> got, text |-> got \cap keys]
            PROVE  fetched' \in [room : Rooms \cup {"none"}, got : SUBSET Events, text : SUBSET Events]
        BY <2>2, <3>1, <3>2, <4>1
      <4>2. QED BY <2>2, <2>11, <4>1 DEF Fetch
    <3>5. QED BY <2>11, <3>3, <3>4 DEF Fetch
  <2>12. CASE WriteRoom
    <3>1. PICK lost \in SUBSET fetched.got, noted \in BOOLEAN :
             /\ Failure(Cardinality(lost) + (IF noted THEN 0 ELSE 1))
             /\ IF noted THEN Attempted(fetched.room) ELSE UNCHANGED attempt
             /\ row' = [e \in Events |-> IF e \in fetched.got \ lost THEN Content(e) ELSE row[e]]
      BY <2>12 DEF WriteRoom
    <3>2. Cardinality(lost) \in Nat
      BY CountIsNumber
    <3>3. failures' \in 0..MaxFailures /\ clean' \in BOOLEAN
      BY <3>1, <3>2 DEF Failure
    <3>4. attempt' \in [Rooms -> [age : 0..Cooldown, at : Nat]]
      <4>1. [age |-> 0, at |-> Len(sent)] \in [age : 0..Cooldown, at : Nat]
        BY <2>1
      <4>2. CASE UNCHANGED attempt BY <4>2
      <4>3. CASE attempt' = [attempt EXCEPT ![fetched.room] = [age |-> 0, at |-> Len(sent)]]
        BY <4>1, <4>3
      <4>4. QED BY <3>1, <4>2, <4>3 DEF Attempted
    <3>5. row' \in [Events -> {"none", "undecrypted", "text"}]
      BY <3>1 DEF Content
    <3>6. QED BY <2>2, <2>12, <3>3, <3>4, <3>5 DEF WriteRoom
  <2>13. ASSUME Rest
         PROVE  /\ attempt' \in [Rooms -> [age : 0..Cooldown, at : Nat]]
                /\ phase' = "probe" /\ stat' = 0 /\ imported' = FALSE
                /\ heal' = {} /\ todo' = {} /\ fetched' = NoFetch
                /\ had' = {} /\ fresh' = FALSE /\ clean' = TRUE
    <3>1. \A r \in Rooms : [attempt[r] EXCEPT !.age = IF @ < Cooldown THEN @ + 1 ELSE @]
                              \in [age : 0..Cooldown, at : Nat]
      <4>1. SUFFICES ASSUME NEW r \in Rooms
                     PROVE  [attempt[r] EXCEPT !.age = IF @ < Cooldown THEN @ + 1 ELSE @]
                              \in [age : 0..Cooldown, at : Nat]
        OBVIOUS
      <4>2. attempt[r] \in [age : 0..Cooldown, at : Nat]
        OBVIOUS
      <4>3. IF attempt[r].age < Cooldown THEN attempt[r].age + 1 \in 0..Cooldown
                                         ELSE attempt[r].age \in 0..Cooldown
        BY <4>2
      <4>4. QED BY <4>2, <4>3
    <3>2. attempt' \in [Rooms -> [age : 0..Cooldown, at : Nat]]
      BY <2>13, <3>1 DEF Rest
    <3>3. QED BY <2>13, <3>2 DEF Rest
  <2>14. CASE IngestEnds BY <2>1, <2>2, <2>13, <2>14 DEF IngestEnds
  <2>15. CASE WorkerFails
    <3>1. keys' \subseteq Events BY <2>15 DEF WorkerFails
    <3>2. failures' \in 0..MaxFailures /\ clean' \in BOOLEAN BY <2>15 DEF WorkerFails, Failure
    <3>3. phase' \in {"probe", "ingest", "recover"} BY <2>15 DEF WorkerFails
    <3>4. /\ heal' = {} /\ todo' = {} /\ fetched' = NoFetch /\ stat' = 0 /\ imported' = FALSE
          /\ had' = {} /\ UNCHANGED <<sent, export, marker, row, attempt, dead, fresh>>
      BY <2>15 DEF WorkerFails
    <3>5. 0 \in 0..Len(Exports)
      BY <2>1
    <3>6. attempt' \in [Rooms -> [age : 0..Cooldown, at : Nat]] /\ sent' \in Seq(Events)
      BY <3>4
    <3>7. QED BY <2>2, <3>1, <3>2, <3>3, <3>4, <3>5, <3>6
  <2>16. CASE Recover
    <3>1. row' \in [Events -> {"none", "undecrypted", "text"}] BY <2>16 DEF Recover
    <3>2. QED BY <2>1, <2>2, <2>13, <2>16, <3>1 DEF Recover
  <2>17. CASE UNCHANGED vars BY <2>17 DEF vars
  <2>18. QED
    BY <2>3, <2>4, <2>5, <2>6, <2>7, <2>8, <2>9, <2>10, <2>11, <2>12, <2>14, <2>15, <2>16, <2>17
    DEF Next, Work
<1>3. QED
  BY <1>1, <1>2, PTL DEF Spec

-----------------------------------------------------------------------------
(* Text is there only of events whose key is, and ingest, which has looked *)
(* at the keys when it fetched a room, has the text of those in hand too.  *)
TextHasKey ==
    /\ \A e \in Events : row[e] = "text" => e \in keys
    /\ fetched.text \subseteq keys
    /\ \A e \in fetched.got : row[e] = "text" => e \in fetched.text

LEMMA NothingInHand ==
  ASSUME fetched' = NoFetch, keys \subseteq keys', TextHasKey,
         \A e \in Events : row'[e] = "text" => row[e] = "text"
  PROVE  TextHasKey'
BY DEF TextHasKey, NoFetch

LEMMA KeysStay ==
  ASSUME UNCHANGED <<row, fetched>>, keys \subseteq keys', TextHasKey
  PROVE  TextHasKey'
BY DEF TextHasKey

LEMMA TextKeeps == Spec => []TextHasKey
<1>1. Init => TextHasKey
  BY DEF Init, TextHasKey, NoFetch
<1>2. TypeOK /\ TextHasKey /\ [Next]_vars => TextHasKey'
  <2> SUFFICES ASSUME TypeOK, TextHasKey, [Next]_vars PROVE TextHasKey'
    OBVIOUS
  <2> USE DEF TypeOK, crypto, database, ingest, aux, loop
  <2>1. CASE UpToDate \/ ReadStamp \/ NewExport \/ OtherImports \/ Import \/ Sync \/ \E e \in Events : Send(e)
    BY <2>1, KeysStay DEF UpToDate, ReadStamp, NewExport, OtherImports, Import, Sync, Send
  <2>2. CASE ReadStats
    BY <2>2, NothingInHand DEF ReadStats
  <2>3. CASE Fetch
    <3>1. UNCHANGED <<row, keys>> BY <2>3 DEF Fetch
    <3>2. CASE fetched' = NoFetch BY <3>1, <3>2, NothingInHand
    <3>3. ASSUME NEW got, NEW r, fetched' = [room |-> r, got |-> got, text |-> got \cap keys],
                 got \subseteq Events
          PROVE  TextHasKey'
      BY <3>1, <3>3 DEF TextHasKey
    <3>4. \A r : InRoom(r) \subseteq Events BY DEF InRoom, Sent
    <3>5. QED BY <2>3, <3>2, <3>3, <3>4 DEF Fetch
  <2>4. CASE WriteRoom
    <3>1. PICK lost \in SUBSET fetched.got :
             row' = [e \in Events |-> IF e \in fetched.got \ lost THEN Content(e) ELSE row[e]]
      BY <2>4 DEF WriteRoom
    <3>2. fetched' = NoFetch /\ keys' = keys BY <2>4 DEF WriteRoom
    <3>3. \A e \in Events : row'[e] = "text" => e \in keys
      BY <3>1 DEF TextHasKey, Content
    <3>4. QED BY <3>2, <3>3 DEF TextHasKey, NoFetch
  <2>5. CASE IngestEnds
    BY <2>5, NothingInHand DEF IngestEnds, Rest
  <2>6. CASE WorkerFails
    <3>1. keys \subseteq keys' /\ UNCHANGED row /\ fetched' = NoFetch
      BY <2>6 DEF WorkerFails
    <3>2. QED BY <3>1, NothingInHand
  <2>7. CASE Recover
    <3>1. \A e \in Events : row'[e] = "text" => row[e] = "text"
      BY <2>7 DEF Recover
    <3>2. QED BY <2>7, <3>1, NothingInHand DEF Recover, Rest
  <2>8. CASE UNCHANGED vars BY <2>8, KeysStay DEF vars
  <2>9. QED BY <2>1, <2>2, <2>3, <2>4, <2>5, <2>6, <2>7, <2>8 DEF Next, Work
<1>3. QED
  BY <1>1, <1>2, TypeCorrect, PTL DEF Spec

(* Whatever is imported and fetched in whatever order, only recover_http   *)
(* puts a placeholder in the place of a text.                              *)
THEOREM TextIsKept == Spec => TextKept
<1> DEFINE Kept == \A e \in Events : row[e] = "text" /\ row'[e] = "undecrypted" => phase = "recover"
<1>1. TypeOK /\ TextHasKey /\ [Next]_vars => [Kept]_vars
  <2> SUFFICES ASSUME TypeOK, TextHasKey, Next, NEW e \in Events,
                      row[e] = "text", row'[e] = "undecrypted"
               PROVE  phase = "recover"
    OBVIOUS
  <2>1. CASE WriteRoom
    <3>1. PICK lost \in SUBSET fetched.got :
             row' = [x \in Events |-> IF x \in fetched.got \ lost THEN Content(x) ELSE row[x]]
      BY <2>1 DEF WriteRoom
    <3>2. e \in fetched.got /\ e \notin fetched.text
      BY <3>1 DEF Content
    <3>3. QED BY <3>2 DEF TextHasKey
  <2>2. CASE Recover BY <2>2 DEF Recover
  <2>3. CASE UNCHANGED row BY <2>3
  <2>4. QED
    BY <2>1, <2>2, <2>3
    DEF Next, Work, Send, NewExport, OtherImports, UpToDate, ReadStamp, Import, Sync, ReadStats,
        Fetch, IngestEnds, WorkerFails, database
<1>2. QED
  BY <1>1, TypeCorrect, TextKeeps, PTL DEF Spec, TextKept

-----------------------------------------------------------------------------
(* A run of ingest that has imported keys and in which nothing has failed: *)
(* every room it has yet to see is reprocessed if there is anything to     *)
(* reprocess, and the rooms it has done hold nothing it had a key for.     *)
Reprocessing == clean /\ imported /\ phase = "rooms"

InHand == fetched # NoFetch

Progress ==
    /\ had \subseteq keys
    /\ \A e \in Events : row[e] # "none" => e \in Sent
    /\ InHand => /\ phase = "rooms" /\ fetched.room \in Rooms \ todo
                 /\ \A e \in fetched.got : RoomOf[e] = fetched.room /\ e \in Sent
    /\ Reprocessing =>
          /\ \A e \in Events : row[e] = "undecrypted" /\ RoomOf[e] \in todo => RoomOf[e] \in heal
          /\ \A e \in Events : row[e] = "undecrypted" /\ RoomOf[e] \notin todo =>
                \/ e \notin had
                \/ RoomOf[e] \in dead
                \/ InHand /\ RoomOf[e] = fetched.room /\ e \in fetched.got
          /\ \A e \in fetched.got : e \in had => e \in fetched.text

LEMMA NotReprocessing ==
  ASSUME Progress, ~Reprocessing', fetched' = NoFetch \/ UNCHANGED <<fetched, todo, phase>>, had' \subseteq keys',
         UNCHANGED row, Sent \subseteq Sent'
  PROVE  Progress'
BY DEF Progress, InHand, NoFetch

LEMMA SurroundingsKeep ==
  ASSUME Progress, UNCHANGED <<row, fetched, todo, heal, phase, imported, clean, had, dead>>,
         keys \subseteq keys', Sent \subseteq Sent'
  PROVE  Progress'
BY DEF Progress, InHand, Reprocessing

LEMMA ProgressKept == Spec => []Progress
<1>1. Init => Progress
  BY DEF Init, Progress, InHand, Reprocessing, NoFetch
<1>2. TypeOK /\ Progress /\ [Next]_vars => Progress'
  <2> SUFFICES ASSUME TypeOK, Progress, [Next]_vars PROVE Progress'
    OBVIOUS
  <2> USE HealingAssumption DEF TypeOK, crypto, database, ingest, aux, loop
  <2>1. sent' = sent => Sent' = Sent
    BY DEF Sent
  <2>2. ASSUME NEW e \in Events, Send(e) PROVE Progress'
    <3>1. Sent \subseteq Sent'
      <4>1. /\ sent' = Append(sent, e) /\ Len(sent) \in Nat /\ Len(sent') = Len(sent) + 1
            /\ \A i \in 1..Len(sent) : sent'[i] = sent[i]
            /\ DOMAIN sent = 1..Len(sent) /\ DOMAIN sent' = 1..Len(sent')
        BY <2>2 DEF Send
      <4>2. QED BY <4>1 DEF Sent
    <3>2. QED BY <2>2, <3>1, SurroundingsKeep DEF Send
  <2>3. CASE NewExport \/ OtherImports
    BY <2>1, <2>3, SurroundingsKeep DEF NewExport, OtherImports
  <2>4. CASE UpToDate \/ ReadStamp \/ Import
    <3>1. fetched = NoFetch
      BY <2>4 DEF Progress, InHand, UpToDate, ReadStamp, Import
    <3>2. ~Reprocessing' /\ had' \subseteq keys' /\ UNCHANGED <<row, sent, fetched>>
      BY <2>4 DEF Reprocessing, Progress, UpToDate, ReadStamp, Import, AfterImport
    <3>3. QED BY <2>1, <3>1, <3>2, NotReprocessing
  <2>5. CASE Sync
    <3>1. fetched = NoFetch
      BY <2>5 DEF Progress, InHand, Sync
    <3>2. ~Reprocessing' /\ had' \subseteq keys' /\ UNCHANGED <<row, sent, fetched>>
      BY <2>5 DEF Reprocessing, Sync
    <3>3. QED BY <2>1, <3>1, <3>2, NotReprocessing
  <2>6. CASE ReadStats
    <3>1. PICK unread \in SUBSET Rooms :
             /\ Failure(Cardinality(unread))
             /\ heal' = HealRooms({r \in Rooms \ unread : ShouldHeal(r)})
      BY <2>6 DEF ReadStats
    <3>2. /\ fetched' = NoFetch /\ todo' = Rooms
          /\ UNCHANGED <<row, sent, keys, had, imported>>
      BY <2>6 DEF ReadStats
    <3>3. ASSUME Reprocessing', NEW e \in Events, row[e] = "undecrypted" PROVE RoomOf[e] \in heal'
      <4>1. unread = {}
        BY <3>1, <3>3, CountIsNumber DEF Failure, Reprocessing
      <4>2. imported BY <3>2, <3>3 DEF Reprocessing
      <4>3. e \in Undecrypted(RoomOf[e]) /\ RoomOf[e] \in Rooms
        BY <3>3 DEF Undecrypted
      <4>4. QED BY <3>1, <4>1, <4>2, <4>3 DEF HealRooms, ShouldHeal
    <3>4. Sent' = Sent /\ ~InHand' BY <2>1, <3>2 DEF InHand
    <3>5. QED BY <3>2, <3>3, <3>4 DEF Progress, NoFetch
  <2>7. CASE Fetch
    <3> DEFINE r == CHOOSE r \in todo : TRUE
    <3>1. /\ r \in todo /\ todo' = todo \ {r} /\ phase = "rooms" /\ fetched = NoFetch
          /\ UNCHANGED <<row, sent, keys, had, imported, phase, heal, dead>>
      BY <2>7 DEF Fetch
    <3>2. ~InHand BY <3>1 DEF InHand
    <3>3. \A e \in InRoom(r) : e \in Sent /\ RoomOf[e] = r
      BY DEF InRoom, Sent
    <3>4. Sent' = Sent BY <2>1, <3>1
    <3>5. ASSUME r \notin dead, UNCHANGED clean, NEW got \in IF r \in heal THEN {InRoom(r)} ELSE SUBSET InRoom(r),
                 fetched' = IF got = {} THEN NoFetch
                            ELSE [room |-> r, got |-> got, text |-> got \cap keys]
          PROVE  Progress'
      <4>1. Reprocessing' => Reprocessing BY <3>1, <3>5 DEF Reprocessing
      <4>2. \A e \in got : RoomOf[e] = r /\ e \in Sent BY <3>3, <3>5
      <4>3. ASSUME Reprocessing, NEW e \in Events, row[e] = "undecrypted", RoomOf[e] = r
            PROVE  e \in got
        <5>1. r \in heal BY <3>1, <4>3 DEF Progress
        <5>2. e \in InRoom(r) BY <4>3 DEF Progress, InRoom
        <5>3. QED BY <3>5, <5>1, <5>2
      <4>4. CASE got = {}
        <5>1. fetched' = NoFetch /\ ~InHand' BY <3>5, <4>4 DEF InHand
        <5>2. QED
          BY <3>1, <3>2, <3>4, <4>1, <4>3, <4>4, <5>1 DEF Progress, NoFetch
      <4>5. CASE got # {}
        <5>1. fetched'.room = r /\ fetched'.got = got /\ fetched'.text = got \cap keys
          BY <3>5, <4>5
        <5>2. InHand'
          BY <4>5, <5>1 DEF InHand, NoFetch
        <5>3. QED
          BY <3>1, <3>2, <3>4, <4>1, <4>2, <4>3, <5>1, <5>2 DEF Progress
      <4>6. QED BY <4>4, <4>5
    <3>6. ASSUME Failure(IF r \in dead THEN 0 ELSE 1), fetched' = NoFetch
          PROVE  Progress'
      <4>1. ~InHand' BY <3>6 DEF InHand
      <4>2. CASE r \in dead
        <5>1. clean' = clean BY <3>6, <4>2 DEF Failure
        <5>2. Reprocessing' => Reprocessing BY <3>1, <5>1 DEF Reprocessing
        <5>3. QED BY <3>1, <3>2, <3>4, <3>6, <4>1, <4>2, <5>2 DEF Progress, NoFetch
      <4>3. CASE r \notin dead
        <5>1. ~Reprocessing'
          <6>1. Failure(1) BY <3>6, <4>3
          <6>2. clean' <=> clean /\ 1 = 0 BY <6>1 DEF Failure
          <6>3. ~clean' BY <6>2
          <6>4. QED BY <6>3 DEF Reprocessing
        <5>2. QED BY <3>1, <3>4, <3>6, <5>1, NotReprocessing DEF Progress
      <4>4. QED BY <4>2, <4>3
    <3>7. QED BY <2>7, <3>5, <3>6 DEF Fetch
  <2>8. CASE WriteRoom
    <3>1. PICK lost \in SUBSET fetched.got, noted \in BOOLEAN :
             /\ Failure(Cardinality(lost) + (IF noted THEN 0 ELSE 1))
             /\ row' = [e \in Events |-> IF e \in fetched.got \ lost THEN Content(e) ELSE row[e]]
      BY <2>8 DEF WriteRoom
    <3>2. /\ InHand /\ fetched' = NoFetch
          /\ UNCHANGED <<sent, keys, had, imported, phase, heal, todo, dead>>
      BY <2>8 DEF WriteRoom, InHand
    <3>3. ~InHand' BY <3>2 DEF InHand
    <3>4. \A e \in fetched.got : RoomOf[e] = fetched.room /\ RoomOf[e] \notin todo
      BY <3>2 DEF Progress
    <3>5. ASSUME Reprocessing' PROVE Reprocessing /\ lost = {}
      <4>1. Cardinality(lost) \in Nat /\ (Cardinality(lost) = 0 => lost = {})
        BY CountIsNumber
      <4>2. clean /\ Cardinality(lost) + (IF noted THEN 0 ELSE 1) = 0
        BY <3>1, <3>5 DEF Failure, Reprocessing
      <4>3. QED BY <3>2, <3>5, <4>1, <4>2 DEF Reprocessing
    <3>6. \A e \in Events : row'[e] # "none" => e \in Sent'
      <4>1. ASSUME NEW e \in Events, row'[e] # "none" PROVE e \in Sent
        <5>1. e \in fetched.got => e \in Sent
          BY <3>2 DEF Progress
        <5>2. QED BY <3>1, <4>1, <5>1 DEF Progress
      <4>2. QED BY <2>1, <3>2, <4>1
    <3>7. QED
      BY <3>1, <3>2, <3>3, <3>4, <3>5, <3>6 DEF Progress, Content, NoFetch
  <2>9. CASE IngestEnds
    <3>1. ~Reprocessing' /\ fetched' = NoFetch /\ had' \subseteq keys' /\ UNCHANGED <<row, sent>>
      BY <2>9 DEF IngestEnds, Rest, Reprocessing
    <3>2. QED BY <2>1, <3>1, NotReprocessing
  <2>10. CASE WorkerFails
    <3>1. ~Reprocessing' /\ fetched' = NoFetch /\ had' = {} /\ UNCHANGED <<row, sent>>
      BY <2>10 DEF WorkerFails, Reprocessing
    <3>2. QED BY <2>1, <3>1, NotReprocessing
  <2>11. CASE Recover
    <3>1. ~Reprocessing' /\ fetched' = NoFetch /\ had' = {} /\ UNCHANGED sent
      BY <2>11 DEF Recover, Rest, Reprocessing
    <3>2. \A e \in Events : row'[e] # "none" => e \in Sent
      BY <2>11 DEF Recover, Progress
    <3>3. ~InHand' /\ Sent' = Sent BY <2>1, <3>1 DEF InHand
    <3>4. QED BY <3>1, <3>2, <3>3 DEF Progress, NoFetch
  <2>12. CASE UNCHANGED vars
    BY <2>1, <2>12, SurroundingsKeep DEF vars
  <2>13. QED
    BY <2>2, <2>3, <2>4, <2>5, <2>6, <2>7, <2>8, <2>9, <2>10, <2>11, <2>12 DEF Next, Work
<1>3. QED
  BY <1>1, <1>2, TypeCorrect, PTL DEF Spec

(* An import in ingest's own run reads all it brought the keys of, however *)
(* many rooms there are and whatever the limit.                            *)
THEOREM ImportHeals == Spec => ImportReprocesses
<1>1. TypeOK /\ Progress => Reprocessed(imported)
  BY DEF TypeOK, Progress, Reprocessed, IngestEnds, Reprocessing, InHand
<1>2. QED
  BY <1>1, TypeCorrect, ProgressKept, PTL DEF Spec, ImportReprocesses

-----------------------------------------------------------------------------
(* CalendarReconcile                                                       *)

(* An id names an event, and the event is still in the calendar.           *)
Lives(id) == id # 0 /\ calendar[id].there

(* The run's copy of an action still to be published names the event the   *)
(* row names, until the record; no other action has that event, and a new  *)
(* event is made only of an action that has none.                          *)
Accounts ==
    /\ \A a \in Actions : link[a] # 0 => calendar[link[a]].of = a
    /\ run.pc \in {"idle", "next"} \/ Left # {}
    /\ \A a \in Left : (run.pc = "project" /\ a = Current) \/ run.seen[a].link = link[a]
    /\ run.pc \in {"recreate", "record"} => ~Lives(link[Current])
    /\ run.pc = "record" => calendar[run.event].of = Current
    /\ run.pc \in {"forget", "patch", "project"} => run.event = link[Current]

(* Still to do, but for an event that was deleted and is taken for there.  *)
Unsettled(a) == Pending(a) /\ ~Mistaken(a)

(* What the run has read of an action nobody has touched is still so, and  *)
(* what it has done is settled.                                            *)
Settling ==
    /\ \A a \in Left : a \in touched \/ (run.seen[a].status = status[a] /\ run.seen[a].text = text[a])
    /\ run.pc # "idle" => \A a \in Actions \ (Left \cup touched) : ~Unsettled(a)
    /\ run.pc = "forget" => Seen.status = "cancelled" /\ ~Lives(run.event)
    /\ run.pc \in {"recreate", "record", "patch", "project"} => Seen.status = "open"
    /\ run.pc \in {"record", "project"} /\ Current \notin touched =>
          calendar[run.event].text = Seen.text

RunShaped == run = [pc |-> run.pc, seen |-> run.seen, event |-> run.event]

(* A run that is about to name an event has one in hand, and the loop none *)
(* between its runs.                                                       *)
EventInHand ==
    /\ run.pc \in {"forget", "record", "patch", "project"} => run.event # 0
    /\ \A a \in Left : run.seen[a].status = "cancelled" => run.seen[a].link # 0
    /\ run.pc = "idle" => Left = {}

(* A finite set of numbers has a smallest: of the sets of those below one  *)
(* of them, a smallest one is empty.                                       *)
LEMMA Smallest ==
  ASSUME NEW S \in SUBSET Int, IsFiniteSet(S), S # {}
  PROVE  \E t \in S : \A u \in S : t <= u
<1> DEFINE Below(t) == {u \in S : u < t}
           sets == {Below(t) : t \in S}
<1>1. sets \subseteq FiniteSubsetsOf(S) /\ sets # {}
  <2>1. \A t \in S : Below(t) \subseteq S /\ IsFiniteSet(Below(t))
    BY FS_Subset
  <2>2. QED BY <2>1 DEF FiniteSubsetsOf
<1>2. IsWellFoundedOn(StrictSubsetOrdering(S), FiniteSubsetsOf(S))
  BY FS_StrictSubsetOrderingWellFounded
<1>3. PICK A \in sets : \A B \in sets : <<B, A>> \notin StrictSubsetOrdering(S)
  <2> HIDE DEF sets
  <2>1. QED BY <1>1, <1>2, WFMin
<1>4. PICK t \in S : A = Below(t)
  OBVIOUS
<1>5. ASSUME NEW u \in S, u < t
      PROVE  FALSE
  <2>1. Below(u) \in sets /\ Below(u) \subseteq Below(t)
    <3>1. t \in Int /\ u \in Int /\ S \subseteq Int
      OBVIOUS
    <3>2. \A v \in S : v < u => v < t
      BY <1>5, <3>1
    <3>3. QED BY <3>2
  <2>2. u \in Below(t) /\ u \notin Below(u)
    BY <1>5
  <2>3. <<Below(u), A>> \in StrictSubsetOrdering(S)
    BY <1>4, <2>1, <2>2 DEF StrictSubsetOrdering
  <2>4. QED BY <1>3, <2>1, <2>3
<1>6. QED BY <1>5

LEMMA CurrentIsLeft ==
  ASSUME Left \subseteq Actions, Left # {}
  PROVE  Current \in Left
<1>1. IsFiniteSet(Left) /\ Left \subseteq Int
  <2>1. Count \in Int /\ 1 \in Int
    BY ReconcileAssumption
  <2>2. IsFiniteSet(Actions) /\ Actions \subseteq Int
    BY <2>1, FS_Interval DEF Actions
  <2>3. QED BY <2>2, FS_Subset
<1>2. PICK t \in Left : \A u \in Left : t <= u
  BY <1>1, Smallest
<1>3. QED BY <1>2 DEF Current, Min

LEMMA GoingOn ==
  ASSUME RunShaped, NEW pc, NEW event, GoOn(pc, event)
  PROVE  /\ RunShaped' /\ run'.pc = pc /\ run'.event = event
         /\ run'.seen = run.seen /\ Left' = Left /\ Current' = Current /\ Seen' = Seen
<1>1. RunShaped' /\ run'.pc = pc /\ run'.event = event /\ run'.seen = run.seen
  BY DEF RunShaped, GoOn
<1>2. QED BY <1>1 DEF Left, Current, Seen

LEMMA DoingNext ==
  ASSUME RunShaped, Done
  PROVE  /\ RunShaped' /\ run'.pc = "next" /\ run'.event = 0
         /\ Left' = Left \ {Current} /\ \A a \in Left' : run'.seen[a] = run.seen[a]
<1>1. RunShaped' /\ run'.pc = "next" /\ run'.event = 0
      /\ run'.seen = [a \in Left \ {Current} |-> run.seen[a]]
  BY DEF RunShaped, Done, Restrict
<1>2. QED BY <1>1 DEF Left

LEMMA Idling ==
  ASSUME run' = Idle
  PROVE  RunShaped' /\ run'.pc = "idle" /\ run'.event = 0 /\ Left' = {}
BY DEF Idle, RunShaped, Left

LEMMA Beginning ==
  ASSUME Begin
  PROVE  /\ RunShaped' /\ run'.pc = "next" /\ run'.event = 0
         /\ Left' = {a \in Actions : Listed(a)}
         /\ \A a \in Left' : run'.seen[a] = [status |-> status[a], text |-> text[a], link |-> link[a]]
BY DEF Begin, RunShaped, Left

(* What a request does to the calendar.                                    *)
LEMMA EventReplaced ==
  ASSUME calendar \in Seq(CalendarEvents), NEW id \in DOMAIN calendar, NEW e \in CalendarEvents,
         calendar' = [calendar EXCEPT ![id] = e]
  PROVE  /\ calendar' \in Seq(CalendarEvents) /\ DOMAIN calendar' = DOMAIN calendar
         /\ calendar'[id] = e
         /\ \A x \in DOMAIN calendar : x # id => calendar'[x] = calendar[x]
OBVIOUS

LEMMA EventGoes ==
  ASSUME calendar \in Seq(CalendarEvents), NEW id \in DOMAIN calendar,
         calendar' = [calendar EXCEPT ![id].there = FALSE]
  PROVE  /\ calendar' \in Seq(CalendarEvents) /\ DOMAIN calendar' = DOMAIN calendar
         /\ ~calendar'[id].there
         /\ \A x \in DOMAIN calendar :
               /\ calendar'[x].of = calendar[x].of /\ calendar'[x].text = calendar[x].text
               /\ x # id => calendar'[x] = calendar[x]
<1> DEFINE e == [calendar[id] EXCEPT !.there = FALSE]
<1>1. calendar[id] \in CalendarEvents
  OBVIOUS
<1>2. e \in CalendarEvents /\ ~e.there /\ e.of = calendar[id].of /\ e.text = calendar[id].text
  BY <1>1 DEF CalendarEvents
<1>3. calendar' = [calendar EXCEPT ![id] = e]
  OBVIOUS
<1> HIDE DEF e
<1>4. QED BY <1>2, <1>3, EventReplaced

LEMMA EventIsRewritten ==
  ASSUME calendar \in Seq(CalendarEvents), NEW id \in DOMAIN calendar, NEW new \in 0..MaxEdits,
         calendar' = [calendar EXCEPT ![id].text = new]
  PROVE  /\ calendar' \in Seq(CalendarEvents) /\ DOMAIN calendar' = DOMAIN calendar
         /\ calendar'[id].text = new
         /\ \A x \in DOMAIN calendar :
               /\ calendar'[x].of = calendar[x].of /\ calendar'[x].there = calendar[x].there
               /\ x # id => calendar'[x] = calendar[x]
<1> DEFINE e == [calendar[id] EXCEPT !.text = new]
<1>1. calendar[id] \in CalendarEvents
  OBVIOUS
<1>2. e \in CalendarEvents /\ e.text = new /\ e.of = calendar[id].of /\ e.there = calendar[id].there
  BY <1>1 DEF CalendarEvents
<1>3. calendar' = [calendar EXCEPT ![id] = e]
  OBVIOUS
<1> HIDE DEF e
<1>4. QED BY <1>2, <1>3, EventReplaced

LEMMA EventIsMade ==
  ASSUME calendar \in Seq(CalendarEvents), NEW e \in CalendarEvents, calendar' = Append(calendar, e)
  PROVE  /\ calendar' \in Seq(CalendarEvents)
         /\ DOMAIN calendar' = DOMAIN calendar \cup {Len(calendar) + 1}
         /\ Len(calendar) + 1 \notin DOMAIN calendar /\ Len(calendar) + 1 # 0
         /\ calendar'[Len(calendar) + 1] = e
         /\ \A x \in DOMAIN calendar : calendar'[x] = calendar[x]
OBVIOUS

(* The three together are inductive.                                        *)
Shaped == CRTypeOK /\ RunShaped /\ EventInHand

LEMMA ShapeKept == CRSpec => []Shaped
<1> USE DEF Shaped
<1>1. CRInit => Shaped
  <2>1. Idle.pc = "idle" /\ Idle.event = 0 /\ DOMAIN Idle.seen = {}
    BY DEF Idle
  <2>2. CRInit => RunShaped
    BY DEF CRInit, RunShaped, Idle
  <2>3. QED
    BY <2>1, <2>2, ReconcileAssumption DEF CRInit, CRTypeOK, EventInHand, Left, Links
<1>2. Shaped /\ [CRNext]_CRVars => Shaped'
  <2> SUFFICES ASSUME CRTypeOK, RunShaped, EventInHand, [CRNext]_CRVars PROVE Shaped'
    OBVIOUS
  <2> USE ReconcileAssumption DEF CRTypeOK, EventInHand, rows, At
  <2>1. Left # {} => Current \in Left /\ Current \in Actions /\ Seen \in SeenRows
    BY CurrentIsLeft DEF Seen
  <2>2. ASSUME calendar' \in Seq(CalendarEvents), DOMAIN calendar \subseteq DOMAIN calendar',
               status' \in [Actions -> {"none", "open", "cancelled", "done"}],
               text' \in [Actions -> 0..MaxEdits], link' \in [Actions -> Links'],
               active' \subseteq DOMAIN calendar', incidents' \in 0..MaxIncidents,
               cut' \subseteq Actions, touched' \subseteq Actions,
               RunShaped', Left' \subseteq Left, \A a \in Left' : run'.seen[a] = run.seen[a],
               run'.pc \in {"idle", "next", "forget", "record", "recreate", "patch", "project"},
               run'.event \in Links',
               run'.pc \in {"forget", "record", "patch", "project"} => run'.event # 0,
               run'.pc = "idle" => Left' = {}
        PROVE  Shaped'
    <3>1. \A x : x \in SeenRows => x \in SeenRows'
      BY <2>2 DEF SeenRows, Links
    <3>2. \A a \in Left' : run'.seen[a] \in SeenRows'
                         /\ (run'.seen[a].status = "cancelled" => run'.seen[a].link # 0)
      BY <2>2, <3>1
    <3>3. Left' \subseteq Actions
      BY <2>2
    <3>4. QED BY <2>2, <3>2, <3>3
  <2>3. DOMAIN calendar \subseteq DOMAIN calendar' => \A x : x \in Links => x \in Links'
    BY DEF Links
  <2>4. ASSUME UNCHANGED run, calendar' \in Seq(CalendarEvents), DOMAIN calendar' = DOMAIN calendar,
               status' \in [Actions -> {"none", "open", "cancelled", "done"}],
               text' \in [Actions -> 0..MaxEdits], UNCHANGED <<link, active, cut>>,
               incidents' \in 0..MaxIncidents, touched' \subseteq Actions
        PROVE  Shaped'
    <3>1. RunShaped' /\ Left' = Left /\ run' = run /\ Links' = Links
      BY <2>4 DEF RunShaped, Left, Links
    <3>2. QED BY <2>2, <2>4, <3>1
  <2>5. ASSUME NEW a \in Actions, Create(a) \/ Edit(a) \/ \E end \in {"cancelled", "done"} : Close(a, end)
        PROVE  Shaped'
    <3>1. touched' \subseteq Actions
      BY <2>5 DEF Create, Edit, Close, Touch
    <3>2. status' \in [Actions -> {"none", "open", "cancelled", "done"}] /\ text' \in [Actions -> 0..MaxEdits]
      <4>1. CASE Edit(a)
        <5>1. text[a] + 1 \in 0..MaxEdits BY <4>1 DEF Edit
        <5>2. QED BY <4>1, <5>1 DEF Edit
      <4>2. CASE Create(a) BY <4>2 DEF Create
      <4>3. ASSUME NEW end \in {"cancelled", "done"}, Close(a, end)
            PROVE  status' \in [Actions -> {"none", "open", "cancelled", "done"}] /\ text' \in [Actions -> 0..MaxEdits]
        BY <4>3 DEF Close
      <4>4. QED BY <2>5, <4>1, <4>2, <4>3
    <3>3. UNCHANGED <<run, link, active, calendar, incidents, cut>>
      BY <2>5 DEF Create, Edit, Close
    <3>4. QED BY <2>4, <3>1, <3>2, <3>3
  <2>6. ASSUME NEW id \in DOMAIN calendar, DeleteByHand(id) PROVE Shaped'
    <3>1. calendar' \in Seq(CalendarEvents) /\ DOMAIN calendar' = DOMAIN calendar
      BY EventGoes, <2>6 DEF DeleteByHand
    <3>2. touched' \subseteq Actions
      <4>1. calendar[id] \in CalendarEvents OBVIOUS
      <4>2. calendar[id].of \in Actions BY <4>1 DEF CalendarEvents
      <4>3. QED BY <2>6, <4>2 DEF DeleteByHand, Touch
    <3>3. QED BY <2>4, <2>6, <3>1, <3>2 DEF DeleteByHand
  <2>7. CASE Begin
    <3>1. \A a \in Left' : run'.seen[a] \in SeenRows /\ (run'.seen[a].status = "cancelled" => run'.seen[a].link # 0)
      <4>1. SUFFICES ASSUME NEW a \in Left'
                     PROVE  run'.seen[a] \in SeenRows /\ (run'.seen[a].status = "cancelled" => run'.seen[a].link # 0)
        OBVIOUS
      <4>2. a \in Actions /\ Listed(a) /\ run'.seen[a] = [status |-> status[a], text |-> text[a], link |-> link[a]]
        BY <2>7, Beginning
      <4>3. QED BY <4>2 DEF Listed, SeenRows
    <3>2. SeenRows' = SeenRows /\ Links' = Links
      BY <2>7 DEF Begin, SeenRows, Links
    <3>3. /\ RunShaped' /\ run'.pc = "next" /\ run'.event = 0 /\ Left' \subseteq Actions
      BY <2>7, Beginning
    <3>4. UNCHANGED <<rows, active, calendar, incidents, cut, touched>> BY <2>7 DEF Begin
    <3>5. 0 \in Links BY DEF Links
    <3>6. QED BY <3>1, <3>2, <3>3, <3>4, <3>5
  <2>8. ASSUME UNCHANGED <<status, text, active, incidents, cut, touched>>, calendar' \in Seq(CalendarEvents),
               DOMAIN calendar \subseteq DOMAIN calendar', link' \in [Actions -> Links'],
               NEW pc \in {"forget", "record", "recreate", "patch", "project"}, NEW event, event \in Links',
               GoOn(pc, event), pc = "recreate" \/ event # 0
        PROVE  Shaped'
    <3>1. RunShaped' /\ Left' = Left /\ run'.seen = run.seen /\ run'.pc = pc /\ run'.event = event
      BY <2>8, GoingOn
    <3>2. active' \subseteq DOMAIN calendar'
      BY <2>8
    <3>3. QED BY <2>2, <2>8, <3>1, <3>2
  <2>9. ASSUME UNCHANGED <<rows, calendar, incidents, cut, touched>>, active' \subseteq DOMAIN calendar, Done
        PROVE  Shaped'
    <3>1. /\ RunShaped' /\ Left' \subseteq Left /\ run'.pc = "next" /\ run'.event = 0
          /\ \A a \in Left' : run'.seen[a] = run.seen[a]
      BY <2>9, DoingNext
    <3>2. Links' = Links /\ 0 \in Links BY <2>9 DEF Links
    <3>3. QED BY <2>2, <2>9, <3>1, <3>2
  <2>10. Left # {} => Seen.link \in Links /\ Seen.text \in 0..MaxEdits
    BY <2>1 DEF SeenRows
  <2>11. calendar' = calendar => link \in [Actions -> Links']
    BY DEF Links
  <2>12. CASE DeleteEvent
    <3>1. Seen.link # 0 /\ Left # {} BY <2>1, <2>12 DEF DeleteEvent, Seen
    <3>2. Seen.link \in DOMAIN calendar BY <2>10, <3>1 DEF Links
    <3>3. calendar' \in Seq(CalendarEvents) /\ DOMAIN calendar' = DOMAIN calendar
      BY EventGoes, <2>12, <3>2 DEF DeleteEvent
    <3>4. Links' = Links BY <3>3 DEF Links
    <3>5. QED BY <2>8, <2>12, <3>1, <3>2, <3>3, <3>4 DEF DeleteEvent, Links
  <2>13. CASE ForgetProjection BY <2>9, <2>13 DEF ForgetProjection
  <2>14. CASE PostEvent
    <3>1. [of |-> Current, there |-> TRUE, text |-> Seen.text] \in CalendarEvents
      BY <2>1, <2>10, <2>14 DEF CalendarEvents, PostEvent
    <3>2. /\ calendar' \in Seq(CalendarEvents)
          /\ DOMAIN calendar \subseteq DOMAIN calendar'
          /\ Len(calendar) + 1 \in DOMAIN calendar' /\ Len(calendar) + 1 # 0
      BY <2>14, <3>1, EventIsMade DEF PostEvent
    <3>3. link \in [Actions -> Links'] /\ Len(calendar) + 1 \in Links'
      BY <3>2 DEF Links
    <3>4. QED BY <2>8, <2>14, <3>2, <3>3 DEF PostEvent
  <2>15. CASE RecordEvent
    <3>1. calendar' = calendar /\ Links' = Links /\ run.event \in Links /\ run.event # 0
      BY <2>15 DEF RecordEvent, Links
    <3>2. link' \in [Actions -> Links] /\ status' \in [Actions -> {"none", "open", "cancelled", "done"}]
      BY <2>15, <3>1 DEF RecordEvent
    <3>3. /\ RunShaped' /\ Left' = Left /\ run'.seen = run.seen /\ run'.pc = "project" /\ run'.event = run.event
      BY <2>15, GoingOn DEF RecordEvent
    <3>4. QED BY <2>2, <2>15, <3>1, <3>2, <3>3 DEF RecordEvent
  <2>16. CASE GetEvent
    <3>1. /\ Seen.link \in Links /\ Seen.link # 0 /\ UNCHANGED <<rows, active, calendar, incidents, cut, touched>>
          /\ Links' = Links /\ 0 \in Links
      BY <2>10, <2>16 DEF GetEvent, Links
    <3>2. GoOn("project", Seen.link) \/ GoOn("patch", Seen.link) \/ GoOn("recreate", 0)
      BY <2>16 DEF GetEvent
    <3>3. QED BY <2>8, <2>11, <3>1, <3>2
  <2>17. CASE PatchEvent
    <3>1. run.event # 0 /\ run.event \in Links /\ Left # {} BY <2>17 DEF PatchEvent
    <3>2. run.event \in DOMAIN calendar BY <3>1 DEF Links
    <3>3. calendar' \in Seq(CalendarEvents) /\ DOMAIN calendar' = DOMAIN calendar
      BY EventIsRewritten, <2>10, <2>17, <3>1, <3>2 DEF PatchEvent
    <3>4. Links' = Links BY <3>3 DEF Links
    <3>5. QED BY <2>8, <2>17, <3>1, <3>2, <3>3, <3>4 DEF PatchEvent
  <2>18. CASE Project
    <3>1. run.event \in DOMAIN calendar BY <2>18 DEF Project, Links
    <3>2. QED BY <2>9, <2>18, <3>1 DEF Project
  <2>19. ASSUME run' = Idle, UNCHANGED <<rows, active, calendar>>, incidents' \in 0..MaxIncidents,
                cut' \subseteq Actions, touched' = {}
         PROVE  Shaped'
    <3>1. RunShaped' /\ run'.pc = "idle" /\ run'.event = 0 /\ Left' = {} BY <2>19, Idling
    <3>2. Links' = Links /\ 0 \in Links BY <2>19 DEF Links
    <3>3. QED BY <2>2, <2>19, <3>1, <3>2
  <2>20. CASE Finish \/ Rejected BY <2>19, <2>20 DEF Finish, Rejected
  <2>21. CASE Fails
    <3>1. incidents' \in 0..MaxIncidents /\ cut' \subseteq Actions BY <2>1, <2>21 DEF Fails
    <3>2. QED BY <2>19, <2>21, <3>1 DEF Fails
  <2>22. CASE UNCHANGED CRVars BY <2>4, <2>22 DEF CRVars
  <2>23. QED
    BY <2>5, <2>6, <2>7, <2>12, <2>13, <2>14, <2>15, <2>16, <2>17, <2>18, <2>20, <2>21, <2>22 DEF CRNext, CRWork
<1>3. QED
  BY <1>1, <1>2, PTL DEF CRSpec

(* The rows, the calendar and the run keep to their types whatever people  *)
(* do while it runs and wherever it ends.                                  *)
THEOREM CalendarTypeCorrect == CRSpec => []CRTypeOK
<1>1. Shaped => CRTypeOK BY DEF Shaped
<1>2. QED BY <1>1, ShapeKept, PTL

-----------------------------------------------------------------------------
AllAccounted == Accounts /\ EventsAccounted

(* Steps that leave the rows' links and the run as they are.               *)
LEMMA OthersAccount ==
  ASSUME Shaped, AllAccounted, UNCHANGED <<link, run, cut>>, DOMAIN calendar' = DOMAIN calendar,
         \A id \in DOMAIN calendar :
            calendar'[id].of = calendar[id].of /\ (calendar'[id].there => calendar[id].there)
  PROVE  AllAccounted'
<1> USE DEF Shaped, CRTypeOK, Links
<1>1. Left' = Left /\ Current' = Current /\ run' = run /\ link' = link /\ cut' = cut
  BY DEF Left, Current
<1>2. Left # {} => Current \in Actions
  BY CurrentIsLeft
<1>3. Accounts'
  BY <1>1, <1>2 DEF AllAccounted, Accounts, Lives, EventInHand
<1>4. EventsAccounted'
  BY <1>1 DEF AllAccounted, EventsAccounted
<1>5. QED BY <1>3, <1>4 DEF AllAccounted

(* The end of a run.                                                       *)
LEMMA EndsAccounted ==
  ASSUME Shaped, AllAccounted, UNCHANGED <<link, calendar>>, run' = Idle,
         cut' = IF At("record") THEN cut \cup {Current} ELSE cut
  PROVE  AllAccounted'
<1>1. run'.pc = "idle" /\ Left' = {} BY Idling
<1>2. Accounts'
  BY <1>1 DEF AllAccounted, Accounts
<1>3. EventsAccounted'
  BY DEF AllAccounted, Accounts, EventsAccounted, At
<1>4. QED BY <1>2, <1>3 DEF AllAccounted

LEMMA Accounting == Shaped /\ AllAccounted /\ [CRNext]_CRVars => AllAccounted'
<1> SUFFICES ASSUME Shaped, AllAccounted, [CRNext]_CRVars PROVE AllAccounted'
  OBVIOUS
<1> USE DEF Shaped, CRTypeOK, rows, At
<1>1. Left # {} => Current \in Left /\ Current \in Actions /\ Seen = run.seen[Current]
  BY CurrentIsLeft DEF Seen
<1>2. 0 \notin DOMAIN calendar /\ \A id : id \in Links <=> id = 0 \/ id \in DOMAIN calendar
  BY DEF Links
<1>3. CASE UNCHANGED CRVars \/ \E a \in Actions : Create(a) \/ Edit(a) \/ \E end \in {"cancelled", "done"} : Close(a, end)
  BY <1>3, OthersAccount DEF CRVars, Create, Edit, Close
<1>4. ASSUME NEW id \in DOMAIN calendar, DeleteByHand(id) PROVE AllAccounted'
  BY <1>4, EventGoes, OthersAccount DEF DeleteByHand
<1>5. CASE Begin
  <2>1. /\ run'.pc = "next" /\ Left' \subseteq Actions
        /\ \A a \in Left' : run'.seen[a] = [status |-> status[a], text |-> text[a], link |-> link[a]]
    BY <1>5, Beginning
  <2>2. UNCHANGED <<link, calendar, cut>> /\ run.pc = "idle"
    BY <1>5 DEF Begin
  <2>3. Accounts'
    <3>1. ASSUME NEW a \in Left' PROVE run'.seen[a].link = link[a]
      <4>1. run'.seen[a] = [status |-> status[a], text |-> text[a], link |-> link[a]] BY <2>1
      <4>2. QED BY <4>1
    <3>2. QED BY <2>1, <2>2, <3>1 DEF AllAccounted, Accounts
  <2>4. EventsAccounted' BY <2>2 DEF AllAccounted, EventsAccounted
  <2>5. QED BY <2>3, <2>4 DEF AllAccounted
<1>6. CASE DeleteEvent
  <2>1. /\ Left # {} /\ run.pc = "next" /\ Seen.status = "cancelled" /\ UNCHANGED <<link, cut>>
        /\ calendar' = [calendar EXCEPT ![Seen.link].there = FALSE] /\ GoOn("forget", Seen.link)
    BY <1>6 DEF DeleteEvent
  <2>2. Seen.link = link[Current] /\ Seen.link \in DOMAIN calendar
    <3>1. Seen.link = link[Current] /\ Seen.link # 0
      BY <1>1, <2>1 DEF AllAccounted, Accounts, EventInHand, SeenRows
    <3>2. QED BY <1>1, <1>2, <2>1, <3>1
  <2>3. /\ DOMAIN calendar' = DOMAIN calendar
        /\ \A id \in DOMAIN calendar :
              calendar'[id].of = calendar[id].of /\ (calendar'[id].there => calendar[id].there)
    BY <2>1, <2>2, EventGoes
  <2>4. /\ run'.pc = "forget" /\ run'.event = Seen.link /\ Left' = Left /\ Current' = Current
        /\ run'.seen = run.seen
    BY <2>1, GoingOn
  <2>5. \A a \in Actions : link[a] # 0 => link[a] \in DOMAIN calendar
    BY <1>2
  <2>6. Accounts'
    BY <2>1, <2>2, <2>3, <2>4, <2>5 DEF AllAccounted, Accounts
  <2>7. EventsAccounted'
    BY <2>1, <2>3 DEF AllAccounted, EventsAccounted
  <2>8. QED BY <2>6, <2>7 DEF AllAccounted
<1>7. ASSUME Done, UNCHANGED <<link, calendar, cut>>, run.pc # "record" PROVE AllAccounted'
  <2>1. /\ run'.pc = "next" /\ Left' = Left \ {Current} /\ \A a \in Left' : run'.seen[a] = run.seen[a]
    BY <1>7, DoingNext
  <2>2. Accounts' BY <1>7, <2>1 DEF AllAccounted, Accounts
  <2>3. EventsAccounted' BY <1>7 DEF AllAccounted, EventsAccounted
  <2>4. QED BY <2>2, <2>3 DEF AllAccounted
<1>8. CASE PostEvent
  <2> DEFINE e == [of |-> Current, there |-> TRUE, text |-> Seen.text]
             new == Len(calendar) + 1
  <2>1. /\ Left # {} /\ UNCHANGED <<link, cut>> /\ calendar' = Append(calendar, e) /\ GoOn("record", new)
        /\ run.pc # "record" /\ run.pc # "project"
        /\ run.pc = "recreate" \/ (run.pc = "next" /\ Seen.link = 0)
    BY <1>8 DEF PostEvent
  <2>2. e \in CalendarEvents
    <3>1. Seen \in SeenRows BY <1>1, <2>1
    <3>2. Seen.text \in 0..MaxEdits BY <3>1 DEF SeenRows
    <3>3. QED BY <1>1, <2>1, <3>2 DEF CalendarEvents
  <2>3. /\ DOMAIN calendar' = DOMAIN calendar \cup {new} /\ new \notin DOMAIN calendar /\ new # 0
        /\ calendar'[new].of = Current
        /\ \A x \in DOMAIN calendar : calendar'[x] = calendar[x]
    <3> HIDE DEF new
    <3>1. e.of = Current OBVIOUS
    <3> HIDE DEF e
    <3>2. QED BY <2>1, <2>2, <3>1, EventIsMade DEF new
  <2>4. /\ run'.pc = "record" /\ run'.event = new /\ Left' = Left /\ Current' = Current
        /\ run'.seen = run.seen
    BY <2>1, GoingOn
  <2>5. \A a \in Actions : link[a] # 0 => link[a] \in DOMAIN calendar
    BY <1>2
  <2>6. ~Lives(link[Current])
    BY <1>1, <2>1 DEF AllAccounted, Accounts, Lives
  <2> HIDE DEF e, new
  <2>7. Lives(link[Current])' <=> Lives(link[Current])
    BY <1>1, <2>1, <2>3, <2>4, <2>5 DEF Lives
  <2>8. Accounts'
    BY <1>1, <2>1, <2>3, <2>4, <2>5, <2>6, <2>7 DEF AllAccounted, Accounts
  <2>9. EventsAccounted'
    BY <2>1, <2>3, <2>4 DEF AllAccounted, EventsAccounted
  <2>10. QED BY <2>8, <2>9 DEF AllAccounted
<1>9. CASE RecordEvent
  <2>1. /\ Left # {} /\ run.pc = "record" /\ UNCHANGED <<calendar, cut>> /\ run.event # 0
        /\ link' = [link EXCEPT ![Current] = run.event] /\ GoOn("project", run.event)
    BY <1>9 DEF RecordEvent, EventInHand
  <2>2. /\ run'.pc = "project" /\ run'.event = run.event /\ Left' = Left /\ Current' = Current
        /\ run'.seen = run.seen
    BY <2>1, GoingOn
  <2>3. Current \in Actions /\ calendar[run.event].of = Current /\ ~Lives(link[Current])
    BY <1>1, <2>1 DEF AllAccounted, Accounts
  <2>4. link'[Current] = run.event /\ \A a \in Actions : a # Current => link'[a] = link[a]
    BY <2>1, <2>3
  <2>5. Accounts'
    BY <1>1, <2>1, <2>2, <2>3, <2>4 DEF AllAccounted, Accounts
  <2>6. ASSUME NEW id \in DOMAIN calendar, calendar[id].there
        PROVE  link'[calendar[id].of] = id \/ calendar[id].of \in cut
    <3>1. calendar[id].of \in Actions
      <4>1. calendar[id] \in CalendarEvents OBVIOUS
      <4>2. QED BY <4>1 DEF CalendarEvents
    <3>2. CASE id = run.event BY <2>3, <2>4, <3>2
    <3>3. CASE link[calendar[id].of] = id /\ id # run.event
      <4>1. calendar[id].of # Current BY <1>2, <2>3, <2>6, <3>3 DEF Lives
      <4>2. QED BY <2>4, <3>1, <3>3, <4>1
    <3>4. QED BY <2>6, <3>2, <3>3 DEF AllAccounted, EventsAccounted
  <2>7. EventsAccounted' BY <2>1, <2>6 DEF EventsAccounted
  <2>8. QED BY <2>5, <2>7 DEF AllAccounted
<1>10. CASE GetEvent
  <2>1. /\ Left # {} /\ run.pc = "next" /\ Seen.link # 0 /\ UNCHANGED <<link, calendar, cut>>
        /\ \/ GoOn("project", Seen.link) \/ GoOn("patch", Seen.link)
           \/ GoOn("recreate", 0) /\ ~calendar[Seen.link].there
    BY <1>10 DEF GetEvent, Answered
  <2>2. Seen.link = link[Current]
    BY <1>1, <2>1 DEF AllAccounted, Accounts
  <2>3. /\ Left' = Left /\ Current' = Current /\ run'.seen = run.seen
        /\ \/ run'.pc \in {"project", "patch"} /\ run'.event = Seen.link
           \/ run'.pc = "recreate" /\ ~calendar[Seen.link].there
    BY <2>1, GoingOn
  <2>4. Accounts' BY <2>1, <2>2, <2>3 DEF AllAccounted, Accounts, Lives
  <2>5. EventsAccounted' BY <2>1 DEF AllAccounted, EventsAccounted
  <2>6. QED BY <2>4, <2>5 DEF AllAccounted
<1>11. CASE PatchEvent
  <2>1. /\ Left # {} /\ run.pc = "patch" /\ run.event # 0 /\ UNCHANGED <<link, cut>>
        /\ calendar' = [calendar EXCEPT ![run.event].text = Seen.text] /\ GoOn("project", run.event)
    BY <1>11 DEF PatchEvent, EventInHand
  <2>2. run.event \in DOMAIN calendar /\ run.event = link[Current]
    BY <1>2, <2>1 DEF AllAccounted, Accounts
  <2>3. Seen.text \in 0..MaxEdits
    <3>1. Seen \in SeenRows BY <1>1, <2>1
    <3>2. QED BY <3>1 DEF SeenRows
  <2>4. /\ DOMAIN calendar' = DOMAIN calendar
        /\ \A id \in DOMAIN calendar :
              calendar'[id].of = calendar[id].of /\ calendar'[id].there = calendar[id].there
    BY <2>1, <2>2, <2>3, EventIsRewritten
  <2>5. /\ run'.pc = "project" /\ run'.event = run.event /\ Left' = Left /\ Current' = Current
        /\ run'.seen = run.seen
    BY <2>1, GoingOn
  <2>6. \A a \in Actions : link[a] # 0 => link[a] \in DOMAIN calendar
    BY <1>2
  <2>7. Accounts'
    BY <2>1, <2>2, <2>4, <2>5, <2>6 DEF AllAccounted, Accounts
  <2>8. EventsAccounted'
    BY <2>1, <2>4 DEF AllAccounted, EventsAccounted
  <2>9. QED BY <2>7, <2>8 DEF AllAccounted
<1>12. CASE Finish \/ Rejected
  BY <1>12, EndsAccounted DEF Finish, Rejected
<1>13. CASE Fails
  BY <1>13, EndsAccounted DEF Fails
<1>14. CASE ForgetProjection \/ Project
  BY <1>7, <1>14 DEF ForgetProjection, Project
<1>15. QED
  BY <1>3, <1>4, <1>5, <1>6, <1>8, <1>9, <1>10, <1>11, <1>12, <1>13, <1>14 DEF CRNext, CRWork

LEMMA AccountsKept == CRSpec => []AllAccounted
<1>1. CRInit => AllAccounted
  <2>1. Idle.pc = "idle" /\ DOMAIN Idle.seen = {} BY DEF Idle
  <2>2. QED BY <2>1 DEF CRInit, AllAccounted, Accounts, EventsAccounted, Left
<1>2. QED BY <1>1, ShapeKept, Accounting, PTL DEF CRSpec

(* However many actions there are and wherever runs end, no event is made  *)
(* that its action does not name, but by a run that ends before it has     *)
(* recorded it.                                                            *)
THEOREM NoEventLost == CRSpec => []EventsAccounted
<1>1. AllAccounted => EventsAccounted BY DEF AllAccounted
<1>2. QED BY <1>1, AccountsKept, PTL

-----------------------------------------------------------------------------
LEMMA SettledSame ==
  ASSUME NEW a \in Actions, status'[a] = status[a], text'[a] = text[a], link'[a] = link[a],
         link[a] # 0 => /\ calendar'[link[a]] = calendar[link[a]]
                        /\ link[a] \in active' <=> link[a] \in active
  PROVE  Unsettled(a)' <=> Unsettled(a)
BY DEF Unsettled, Pending, Published, Agrees, Mistaken

(* No two actions have an event in common.                                 *)
LEMMA OwnEvent ==
  ASSUME Accounts, NEW a \in Actions, NEW b \in Actions, a # b, link[a] # 0
  PROVE  link[a] # link[b]
BY DEF Accounts

(* What people do is about an action they have touched.                    *)
LEMMA PeopleSettle ==
  ASSUME Shaped, AllAccounted, Settling, NEW a \in Actions, Touch(a),
         UNCHANGED <<run, link, active>>, DOMAIN calendar' = DOMAIN calendar,
         \A b \in Actions : b # a => status'[b] = status[b] /\ text'[b] = text[b],
         \A id \in DOMAIN calendar :
            /\ calendar'[id].text = calendar[id].text
            /\ calendar'[id].there => calendar[id].there
            /\ calendar[id].of # a => calendar'[id] = calendar[id]
  PROVE  Settling'
<1> USE DEF Shaped, CRTypeOK, Links
<1>1. Left' = Left /\ Current' = Current /\ Seen' = Seen
  BY DEF Left, Current, Seen
<1>2. Left # {} => Current \in Actions /\ Current \in Left
  BY CurrentIsLeft
<1>3. CASE run.pc = "idle"
  BY <1>1, <1>3 DEF Settling, EventInHand
<1>4. CASE run.pc # "idle"
  <2>1. touched' = touched \cup {a} BY <1>4 DEF Touch
  <2>2. \A b \in Left : b \in touched' \/ (run.seen[b].status = status'[b] /\ run.seen[b].text = text'[b])
    BY <2>1 DEF Settling
  <2>3. ASSUME NEW b \in Actions \ (Left \cup touched') PROVE ~Unsettled(b)'
    <3>1. b # a /\ ~Unsettled(b) BY <1>4, <2>1, <2>3 DEF Settling
    <3>2. link[b] # 0 => link[b] \in DOMAIN calendar /\ calendar[link[b]].of = b
      BY <2>3 DEF AllAccounted, Accounts
    <3>3. QED BY <3>1, <3>2, SettledSame
  <2>4. run.pc = "forget" => Seen.status = "cancelled" /\ ~Lives(run.event)'
    BY DEF Settling, Lives
  <2>5. ASSUME run.pc \in {"record", "project"}, Current \notin touched'
        PROVE  calendar'[run.event] = calendar[run.event]
    <3>1. run.event \in DOMAIN calendar /\ Current \in Actions
      BY <1>2, <2>5 DEF EventInHand, AllAccounted, Accounts
    <3>2. calendar[run.event].of = Current
      BY <2>5, <3>1 DEF EventInHand, AllAccounted, Accounts
    <3>3. QED BY <2>1, <2>5, <3>1, <3>2
  <2>6. run.pc \in {"record", "project"} /\ Current \notin touched' =>
           calendar'[run.event].text = Seen.text
    BY <2>1, <2>5 DEF Settling
  <2>7. run.pc \in {"recreate", "record", "patch", "project"} => Seen.status = "open"
    BY DEF Settling
  <2>8. QED BY <1>1, <2>2, <2>3, <2>4, <2>6, <2>7 DEF Settling
<1>5. QED BY <1>3, <1>4

(* A request or a statement of the run about the action it has come to.    *)
LEMMA StepSettles ==
  ASSUME Shaped, AllAccounted, Settling, Left # {}, run.pc # "idle",
         UNCHANGED <<text, active, touched>>,
         \A b \in Actions : b # Current => status'[b] = status[b] /\ link'[b] = link[b],
         \A b \in Actions : b # Current /\ link[b] # 0 => calendar'[link[b]] = calendar[link[b]],
         Current \in touched \/ status'[Current] = status[Current],
         NEW pc \in {"forget", "record", "recreate", "patch", "project"}, NEW event, GoOn(pc, event),
         pc = "forget" => Seen.status = "cancelled" /\ ~Lives(event)',
         pc # "forget" => Seen.status = "open",
         pc \in {"record", "project"} /\ Current \notin touched =>
            calendar'[event].text = Seen.text
  PROVE  Settling'
<1>1. /\ run'.pc = pc /\ run'.event = event /\ run'.seen = run.seen
      /\ Left' = Left /\ Current' = Current /\ Seen' = Seen
  BY GoingOn DEF Shaped
<1>2. Left \subseteq Actions /\ Current \in Left
  BY CurrentIsLeft DEF Shaped, CRTypeOK
<1>3. \A b \in Left : b \in touched \/ (run.seen[b].status = status'[b] /\ run.seen[b].text = text'[b])
  BY <1>2 DEF Settling
<1>4. ASSUME NEW b \in Actions \ (Left \cup touched) PROVE ~Unsettled(b)'
  <2>1. ~Unsettled(b) /\ b # Current BY <1>2, <1>4 DEF Settling
  <2>2. QED BY <2>1, SettledSame
<1>5. QED BY <1>1, <1>3, <1>4 DEF Settling

(* The run goes on to the next action.                                     *)
LEMMA DoneSettles ==
  ASSUME Shaped, AllAccounted, Settling, Left # {}, run.pc # "idle", Done,
         UNCHANGED <<rows, calendar, touched>>,
         \A id \in DOMAIN calendar : id # link[Current] => (id \in active' <=> id \in active),
         NEW c, c = Current, c \in touched \/ ~Unsettled(c)'
  PROVE  Settling'
<1>1. /\ run'.pc = "next" /\ Left' = Left \ {Current} /\ \A b \in Left' : run'.seen[b] = run.seen[b]
  BY DoingNext DEF Shaped
<1>2. Left \subseteq Actions /\ Current \in Left /\ Current \in Actions
  BY CurrentIsLeft DEF Shaped, CRTypeOK
<1>3. \A b \in Left' : b \in touched' \/ (run'.seen[b].status = status'[b] /\ run'.seen[b].text = text'[b])
  BY <1>1 DEF Settling, rows
<1>4. ASSUME NEW b \in Actions \ (Left' \cup touched) PROVE ~Unsettled(b)'
  <2>1. CASE b = c BY <1>4, <2>1
  <2>2. CASE b # c
    <3>1. ~Unsettled(b) BY <1>1, <1>4, <2>2 DEF Settling
    <3>2. link[b] # 0 => link[b] \in DOMAIN calendar /\ link[b] # link[Current]
      BY <1>2, <1>4, <2>2, OwnEvent DEF Shaped, CRTypeOK, Links, AllAccounted
    <3>3. QED BY <1>4, <3>1, <3>2, SettledSame DEF rows
  <2>3. QED BY <2>1, <2>2
<1>5. QED BY <1>1, <1>3, <1>4 DEF Settling

LEMMA SettlingStep == Shaped /\ AllAccounted /\ Settling /\ [CRNext]_CRVars => Settling'
<1> SUFFICES ASSUME Shaped, AllAccounted, Settling, [CRNext]_CRVars PROVE Settling'
  OBVIOUS
<1> USE DEF At
<1>1. Left # {} => /\ Current \in Left /\ Current \in Actions /\ Seen = run.seen[Current]
                   /\ Seen \in SeenRows /\ Seen.text \in 0..MaxEdits /\ Seen.link \in Links
  BY CurrentIsLeft DEF Seen, Shaped, CRTypeOK, SeenRows
<1>2. /\ calendar \in Seq(CalendarEvents) /\ 0 \notin DOMAIN calendar
      /\ \A id : id \in Links <=> id = 0 \/ id \in DOMAIN calendar
      /\ \A a \in Actions : link[a] # 0 => link[a] \in DOMAIN calendar
  BY DEF Shaped, CRTypeOK, Links
<1>3. ASSUME NEW a \in Actions, Create(a) \/ Edit(a) \/ \E end \in {"cancelled", "done"} : Close(a, end)
      PROVE  Settling'
  <2>1. /\ Touch(a) /\ UNCHANGED <<run, link, active, calendar>>
        /\ \A b \in Actions : b # a => status'[b] = status[b] /\ text'[b] = text[b]
    BY <1>3 DEF Create, Edit, Close, Shaped, CRTypeOK
  <2>2. QED BY <2>1, PeopleSettle
<1>4. ASSUME NEW id \in DOMAIN calendar, DeleteByHand(id) PROVE Settling'
  <2>1. /\ Touch(calendar[id].of) /\ UNCHANGED <<rows, run, active>>
        /\ calendar' = [calendar EXCEPT ![id].there = FALSE]
    BY <1>4 DEF DeleteByHand
  <2>2. calendar[id].of \in Actions
    <3>1. calendar[id] \in CalendarEvents BY <1>2
    <3>2. QED BY <3>1 DEF CalendarEvents
  <2>3. /\ DOMAIN calendar' = DOMAIN calendar
        /\ ~calendar'[id].there
        /\ \A x \in DOMAIN calendar :
              /\ calendar'[x].of = calendar[x].of /\ calendar'[x].text = calendar[x].text
              /\ x # id => calendar'[x] = calendar[x]
    BY <1>2, <2>1, EventGoes
  <2>4. \A x \in DOMAIN calendar :
            /\ calendar'[x].text = calendar[x].text
            /\ calendar'[x].there => calendar[x].there
            /\ calendar[x].of # calendar[id].of => calendar'[x] = calendar[x]
    BY <2>3
  <2>5. UNCHANGED <<run, link, active>> /\ status' = status /\ text' = text
    BY <2>1 DEF rows
  <2>6. QED BY <2>1, <2>2, <2>3, <2>4, <2>5, PeopleSettle
<1>5. CASE Begin
  <2>1. /\ run'.pc = "next" /\ Left' = {a \in Actions : Listed(a)}
        /\ \A a \in Left' : run'.seen[a] = [status |-> status[a], text |-> text[a], link |-> link[a]]
    BY <1>5, Beginning
  <2>2. UNCHANGED <<status, text, link, active, calendar, touched>> BY <1>5 DEF Begin, rows
  <2>3. ASSUME NEW a \in Left' PROVE run'.seen[a].status = status'[a] /\ run'.seen[a].text = text'[a]
    <3>1. run'.seen[a] = [status |-> status[a], text |-> text[a], link |-> link[a]] BY <2>1
    <3>2. QED BY <2>2, <3>1
  <2>4. \A a \in Actions \ Left' : ~Unsettled(a)
    BY <2>1 DEF Listed, Unsettled, Pending
  <2>5. \A a \in Actions \ Left' : ~Unsettled(a)'
    BY <2>2, <2>4, SettledSame
  <2>6. QED BY <2>1, <2>3, <2>5 DEF Settling
<1>6. CASE DeleteEvent
  <2>1. /\ Left # {} /\ run.pc = "next" /\ Seen.status = "cancelled" /\ UNCHANGED <<status, text, link, active, touched>>
        /\ calendar' = [calendar EXCEPT ![Seen.link].there = FALSE] /\ GoOn("forget", Seen.link)
    BY <1>6 DEF DeleteEvent, rows
  <2>2. Seen.link = link[Current] /\ Seen.link # 0
    BY <1>1, <2>1 DEF AllAccounted, Accounts, EventInHand, Shaped
  <2>3. Seen.link \in DOMAIN calendar
    BY <1>1, <1>2, <2>1, <2>2
  <2>4. /\ ~calendar'[Seen.link].there
        /\ \A id \in DOMAIN calendar : id # Seen.link => calendar'[id] = calendar[id]
    BY <1>2, <2>1, <2>3, EventGoes
  <2>5. \A b \in Actions : b # Current /\ link[b] # 0 => calendar'[link[b]] = calendar[link[b]]
    BY <1>1, <1>2, <2>1, <2>2, <2>4, OwnEvent DEF AllAccounted
  <2>6. QED
    <3>1. PICK event : event = Seen.link OBVIOUS
    <3>2. GoOn("forget", event) /\ ~Lives(event)' BY <2>1, <2>4, <3>1 DEF Lives
    <3>3. QED BY <2>1, <2>5, <3>2, StepSettles
<1>7. CASE ForgetProjection
  <2>1. /\ Left # {} /\ run.pc = "forget" /\ active' = active \ {run.event} /\ Done
        /\ UNCHANGED <<rows, calendar, touched>>
    BY <1>7 DEF ForgetProjection
  <2>2. run.event = link[Current] /\ run.event # 0 /\ Seen.status = "cancelled" /\ ~Lives(run.event)
    BY <2>1 DEF AllAccounted, Accounts, Settling, EventInHand, Shaped
  <2>3. Current \in touched \/ status[Current] = "cancelled"
    BY <1>1, <2>1, <2>2 DEF Settling
  <2>4. PICK c : c = Current OBVIOUS
  <2>5. c \in touched \/ ~Unsettled(c)'
    BY <2>1, <2>2, <2>3, <2>4 DEF Unsettled, Pending, Lives, rows
  <2>6. QED BY <2>1, <2>2, <2>4, <2>5, DoneSettles
<1>8. CASE PostEvent
  <2> DEFINE e == [of |-> Current, there |-> TRUE, text |-> Seen.text]
             new == Len(calendar) + 1
  <2>1. /\ Left # {} /\ run.pc \in {"next", "recreate"} /\ Seen.status = "open"
        /\ UNCHANGED <<status, text, link, active, touched>>
        /\ calendar' = Append(calendar, e) /\ GoOn("record", new)
    BY <1>8 DEF PostEvent, rows, Settling
  <2>2. e \in CalendarEvents
    BY <1>1, <2>1 DEF CalendarEvents
  <2>3. /\ calendar'[new].text = Seen.text
        /\ \A x \in DOMAIN calendar : calendar'[x] = calendar[x]
    <3> HIDE DEF new
    <3>1. e.text = Seen.text OBVIOUS
    <3> HIDE DEF e
    <3>2. QED BY <1>2, <2>1, <2>2, <3>1, EventIsMade DEF new
  <2> HIDE DEF e
  <2>4. \A b \in Actions : b # Current /\ link[b] # 0 => calendar'[link[b]] = calendar[link[b]]
    BY <1>2, <2>3
  <2>5. QED
    <3>1. PICK event : event = new OBVIOUS
    <3> HIDE DEF new
    <3>2. calendar'[event].text = Seen.text BY <2>3, <3>1
    <3>3. GoOn("record", event) BY <2>1, <3>1
    <3>4. QED BY <2>1, <2>4, <3>2, <3>3, StepSettles
<1>9. CASE RecordEvent
  <2>1. /\ Left # {} /\ run.pc = "record" /\ UNCHANGED <<text, active, calendar, touched>>
        /\ link' = [link EXCEPT ![Current] = run.event] /\ status' = [status EXCEPT ![Current] = "open"]
        /\ GoOn("project", run.event)
    BY <1>9 DEF RecordEvent
  <2>2. Current \in touched \/ status[Current] = "open"
    BY <1>1, <2>1 DEF Settling
  <2>3. \A b \in Actions : b # Current => status'[b] = status[b] /\ link'[b] = link[b]
    BY <2>1 DEF Shaped, CRTypeOK
  <2>4. Current \in touched \/ status'[Current] = status[Current]
    BY <1>1, <2>1, <2>2 DEF Shaped, CRTypeOK
  <2>5. QED
    <3>1. PICK event : event = run.event OBVIOUS
    <3>2. GoOn("project", event) BY <2>1, <3>1
    <3>3. Seen.status = "open" /\ (Current \notin touched => calendar[run.event].text = Seen.text)
      BY <2>1 DEF Settling
    <3>4. QED BY <2>1, <2>3, <2>4, <3>1, <3>2, <3>3, StepSettles
<1>10. CASE GetEvent
  <2>1. /\ Left # {} /\ run.pc = "next" /\ Seen.link # 0 /\ Seen.status = "open"
        /\ UNCHANGED <<status, text, link, active, calendar, touched>>
        /\ \/ GoOn("project", Seen.link) /\ calendar[Seen.link].text = Seen.text
           \/ GoOn("patch", Seen.link) \/ GoOn("recreate", 0)
    BY <1>10 DEF GetEvent, Answered, rows
  <2>2. ASSUME NEW event, NEW pc \in {"project", "patch", "recreate"}, GoOn(pc, event),
               pc = "project" => calendar[event].text = Seen.text
        PROVE  Settling'
    BY <2>1, <2>2, StepSettles
  <2>3. PICK event : event = Seen.link OBVIOUS
  <2>4. CASE GoOn("project", Seen.link) /\ calendar[Seen.link].text = Seen.text
    BY <2>1, <2>2, <2>3, <2>4
  <2>5. CASE GoOn("patch", Seen.link) BY <2>2, <2>3, <2>5
  <2>6. CASE GoOn("recreate", 0) BY <2>2, <2>6
  <2>7. QED BY <2>1, <2>4, <2>5, <2>6
<1>11. CASE PatchEvent
  <2>1. /\ Left # {} /\ run.pc = "patch" /\ UNCHANGED <<status, text, link, active, touched>>
        /\ calendar' = [calendar EXCEPT ![run.event].text = Seen.text] /\ GoOn("project", run.event)
    BY <1>11 DEF PatchEvent, rows
  <2>2. run.event # 0 /\ run.event = link[Current] /\ Seen.status = "open"
    BY <2>1 DEF AllAccounted, Accounts, EventInHand, Shaped, Settling
  <2>3. run.event \in DOMAIN calendar
    BY <1>1, <1>2, <2>1, <2>2
  <2>4. /\ calendar'[run.event].text = Seen.text
        /\ \A id \in DOMAIN calendar : id # run.event => calendar'[id] = calendar[id]
    BY <1>1, <1>2, <2>1, <2>3, EventIsRewritten
  <2>5. \A b \in Actions : b # Current /\ link[b] # 0 => calendar'[link[b]] = calendar[link[b]]
    BY <1>1, <1>2, <2>1, <2>2, <2>4, OwnEvent DEF AllAccounted
  <2>6. QED
    <3>1. PICK event : event = run.event OBVIOUS
    <3>2. calendar'[event].text = Seen.text BY <2>4, <3>1
    <3>3. GoOn("project", event) BY <2>1, <3>1
    <3>4. QED BY <2>1, <2>2, <2>5, <3>2, <3>3, StepSettles
<1>12. CASE Project
  <2>1. /\ Left # {} /\ run.pc = "project" /\ active' = active \cup {run.event} /\ Done
        /\ UNCHANGED <<rows, calendar, touched>>
    BY <1>12 DEF Project
  <2>2. run.event = link[Current] /\ run.event # 0 /\ Seen.status = "open"
    BY <2>1 DEF AllAccounted, Accounts, Settling, EventInHand, Shaped
  <2>3. ASSUME NEW c, c = Current, c \notin touched PROVE ~Unsettled(c)'
    <3>1. /\ status[Current] = "open" /\ text[Current] = Seen.text
          /\ calendar[run.event].text = Seen.text
      BY <1>1, <2>1, <2>2, <2>3 DEF Settling
    <3>2. Agrees(c)' /\ status'[c] = "open"
      BY <2>1, <2>2, <2>3, <3>1 DEF Agrees, rows
    <3>3. QED BY <3>2 DEF Unsettled, Pending, Published, Mistaken
  <2>4. PICK c : c = Current OBVIOUS
  <2>5. QED BY <2>1, <2>2, <2>3, <2>4, DoneSettles
<1>13. CASE Finish \/ Rejected \/ Fails
  <2>1. run'.pc = "idle" /\ Left' = {}
    BY <1>13, Idling DEF Finish, Rejected, Fails
  <2>2. QED BY <2>1 DEF Settling
<1>14. CASE UNCHANGED CRVars
  <2>1. Left' = Left /\ Current' = Current /\ Seen' = Seen /\ run' = run
    BY <1>14 DEF Left, Current, Seen, CRVars
  <2>2. UNCHANGED <<status, text, link, active, calendar, touched>>
    BY <1>14 DEF CRVars, rows
  <2>3. QED BY <2>1, <2>2 DEF Settling, Unsettled, Pending, Published, Agrees, Mistaken, Lives
<1>15. QED
  BY <1>3, <1>4, <1>5, <1>6, <1>7, <1>8, <1>9, <1>10, <1>11, <1>12, <1>13, <1>14 DEF CRNext, CRWork

LEMMA SettlingKept == CRSpec => []Settling
<1>1. CRInit => Settling
  <2>1. Idle.pc = "idle" /\ DOMAIN Idle.seen = {} BY DEF Idle
  <2>2. QED BY <2>1 DEF CRInit, Settling, Left
<1>2. QED BY <1>1, ShapeKept, AccountsKept, SettlingStep, PTL DEF CRSpec

(* A run that gets through has settled whatever it found, however many     *)
(* runs have failed before it, but for what people changed meanwhile; only *)
(* of an event that was deleted may it take for there what is not.         *)
THEOREM FinishedRunSettles == CRSpec => RunSettles
<1>1. Settling /\ [CRNext]_CRVars => [Finish => \A a \in Actions \ touched : Pending(a) => Mistaken(a)]_CRVars
  BY DEF Settling, Finish, Unsettled
<1>2. QED BY <1>1, SettlingKept, PTL DEF CRSpec, RunSettles

=============================================================================
