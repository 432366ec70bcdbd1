------------------------ MODULE TelegramBackfillProofs ------------------------
(***************************************************************************)
(* Proofs about TelegramBackfill for every set of dialogs and runs, every  *)
(* page size and every limit.                                              *)
(***************************************************************************)
EXTENDS TelegramBackfill, TLAPS

(* What a run knows of the dialog it scans, whose handled messages are     *)
(* stored.  The page lies between minId and what the run has gone through, *)
(* without a gap; as long as there is no offset, the run has stored        *)
(* nothing newer than the page.                                            *)
Scan(s, stored) ==
    /\ s.dialog \in Dialogs
    /\ s.minId <= s.newestId
    /\ s.newestId \in stored \cup {0}
    /\ s.offsetId # 0 => s.offsetId <= s.newestId
    /\ Passed(s) \subseteq stored
    /\ s.pc = "fetching" =>
          /\ s.low = 1 /\ s.high = 0 /\ s.next = 1
          /\ s.offsetId = 0 => s.newestId = s.minId
    /\ s.pc \in {"ingesting", "saving"} =>
          /\ s.minId < s.low /\ s.low <= s.high
          /\ PageLength(s) <= Request(s)
          /\ s.offsetId # 0 => s.high = s.offsetId - 1
    /\ s.pc = "ingesting" =>
          /\ s.low <= s.next /\ s.next <= s.high
          /\ s.offsetId = 0 => s.newestId < s.next
    /\ s.pc = "saving" =>
          /\ s.next = s.high + 1
          /\ s.offsetId = 0 => s.newestId = s.high

Scans ==
    \A r \in Runs : run[r].pc \in Scanning => Scan(run[r], Handled(run[r].dialog))

CursorHandled == \A d \in Dialogs : cursor[d] \in Handled(d) \cup {0}

MarkingHandled == \A m \in marking : m[2] \in Handled(m[1])

IInv == TypeOK /\ Scans /\ CursorHandled /\ MarkingHandled /\ LiveCursorStored

-----------------------------------------------------------------------------
(* The steps of one run, on its local variables                            *)

(* A run that is not scanning has well-typed locals.                       *)
LEMMA NotRunningType ==
  ASSUME NEW pc \in {"idle", "listing", "choosing", "done"}
  PROVE  NotRunning(pc) \in Locals
BY BackfillAssumption DEF NotRunning, Locals

LEMMA NextDialogType ==
  ASSUME NEW s \in Locals
  PROVE  NextDialog(s) \in Locals /\ NextDialog(s).pc = "choosing"
BY BackfillAssumption DEF NextDialog, NotRunning, Locals

(* What is known of a scan stays true when more messages are stored.       *)
LEMMA ScanGrows ==
  ASSUME NEW s, NEW stored, NEW more, stored \subseteq more, Scan(s, stored)
  PROVE  Scan(s, more)
BY DEF Scan

(* A page that is fetched continues the scan.                              *)
LEMMA FetchedScan ==
  ASSUME NEW s \in Locals, NEW stored, Scan(s, stored), s.pc = "fetching",
         NEW low \in Int, NEW high \in 0..MaxId,
         s.minId < low, low <= high, high - low + 1 <= Request(s),
         s.offsetId # 0 => high = s.offsetId - 1
  PROVE  LET t == [s EXCEPT !.pc = "ingesting", !.low = low, !.high = high, !.next = low]
         IN  t \in Locals /\ Scan(t, stored)
<1> DEFINE t == [s EXCEPT !.pc = "ingesting", !.low = low, !.high = high, !.next = low]
<1>1. t \in Locals
  <2>1. low \in 1..MaxId /\ low \in 1..MaxId + 1
    BY BackfillAssumption DEF Locals
  <2>2. QED BY <2>1 DEF Locals, Scanning
<1>2. /\ t.pc = "ingesting" /\ t.low = low /\ t.high = high /\ t.next = low
      /\ t.dialog = s.dialog /\ t.minId = s.minId /\ t.newestId = s.newestId
      /\ t.offsetId = s.offsetId /\ t.remaining = s.remaining
  BY DEF Locals
<1>3. Passed(t) \subseteq stored
  BY <1>2 DEF Scan, Passed
<1>4. Scan(t, stored)
  BY <1>2, <1>3, BackfillAssumption DEF Locals, Scan, PageLength, Request
<1>5. QED BY <1>1, <1>4

(* A message that is stored is passed.                                     *)
LEMMA IngestedScan ==
  ASSUME NEW s \in Locals, NEW stored, Scan(s, stored), s.pc = "ingesting", s.next \in stored
  PROVE  Ingested(s) \in Locals /\ Scan(Ingested(s), stored)
<1>1. Ingested(s) \in Locals
  <2>1. s.next \in 1..MaxId /\ s.next + 1 \in 1..MaxId + 1 /\ s.newestId \in 0..MaxId
    BY BackfillAssumption DEF Locals, Scan
  <2>2. (IF s.next > s.newestId THEN s.next ELSE s.newestId) \in 0..MaxId
    BY <2>1, BackfillAssumption
  <2>3. QED BY <2>1, <2>2 DEF Ingested, Locals, Scanning
<1> DEFINE t == Ingested(s)
<1>2. /\ t.pc = IF s.next = s.high THEN "saving" ELSE "ingesting"
      /\ t.newestId = IF s.next > s.newestId THEN s.next ELSE s.newestId
      /\ t.next = s.next + 1
      /\ t.dialog = s.dialog /\ t.minId = s.minId /\ t.offsetId = s.offsetId
      /\ t.low = s.low /\ t.high = s.high /\ t.remaining = s.remaining
  BY DEF Ingested, Locals
<1>3. s.offsetId # 0 => t.newestId = s.newestId
  BY <1>2, BackfillAssumption DEF Locals, Scan
<1>4. Passed(t) \subseteq stored
  BY <1>2, <1>3, BackfillAssumption DEF Locals, Scan, Passed
<1>5. Scan(t, stored)
  BY <1>2, <1>3, <1>4, BackfillAssumption DEF Locals, Scan, PageLength, Request
<1>6. QED BY <1>1, <1>5

(* The mark that is saved after a page is one of the stored messages.      *)
LEMMA HighWaterStored ==
  ASSUME NEW s \in Locals, NEW stored, Scan(s, stored), s.pc = "saving"
  PROVE  HighWater(s) \in stored /\ HighWater(s) \in 1..MaxId
BY BackfillAssumption DEF HighWater, Locals, Scan

(* The next page begins below this one.                                    *)
LEMMA SavedScan ==
  ASSUME NEW s \in Locals, NEW stored, Scan(s, stored), s.pc = "saving"
  PROVE  LET t == [s EXCEPT !.pc = "fetching", !.offsetId = s.low,
                            !.remaining = @ - PageLength(s),
                            !.low = 1, !.high = 0, !.next = 1]
         IN  t \in Locals /\ Scan(t, stored)
<1> DEFINE t == [s EXCEPT !.pc = "fetching", !.offsetId = s.low,
                          !.remaining = @ - PageLength(s),
                          !.low = 1, !.high = 0, !.next = 1]
<1>1. PageLength(s) \in 0..s.remaining
  BY BackfillAssumption DEF Locals, Scan, PageLength, Request
<1>2. t \in Locals
  <2>1. s.low \in 0..MaxId /\ s.remaining - PageLength(s) \in 0..Limit
    BY <1>1, BackfillAssumption DEF Locals
  <2>2. 1 \in 1..MaxId /\ 0 \in 0..MaxId /\ 1 \in 1..MaxId + 1
    BY BackfillAssumption
  <2>3. QED BY <2>1, <2>2 DEF Locals, Scanning
<1>3. s.low <= s.newestId /\ s.low .. s.newestId \subseteq stored
  BY BackfillAssumption DEF Locals, Scan, Passed
<1>4. /\ t.pc = "fetching" /\ t.offsetId = s.low
      /\ t.low = 1 /\ t.high = 0 /\ t.next = 1
      /\ t.dialog = s.dialog /\ t.minId = s.minId /\ t.newestId = s.newestId
  BY DEF Locals
<1>5. Passed(t) \subseteq stored
  BY <1>3, <1>4 DEF Locals, Passed
<1>6. Scan(t, stored)
  BY <1>3, <1>4, <1>5, BackfillAssumption DEF Locals, Scan
<1>7. QED BY <1>2, <1>6

-----------------------------------------------------------------------------
(* The inductive invariant                                                 *)

RowsGrow == \A d \in Dialogs : rows[d] \subseteq rows'[d]

(* A step that moves one run, or none, and only adds rows keeps the scans. *)
LEMMA RunStep ==
  ASSUME TypeOK, Scans, RowsGrow, NEW r \in Runs, NEW t \in Locals,
         t.pc \in Scanning => Scan(t, rows'[t.dialog] \cup Service),
         run' = [run EXCEPT ![r] = t]
  PROVE  run' \in [Runs -> Locals] /\ Scans'
<1>1. run' \in [Runs -> Locals]
  BY DEF TypeOK
<1>2. ASSUME NEW q \in Runs, run'[q].pc \in Scanning
      PROVE  Scan(run'[q], rows'[run'[q].dialog] \cup Service)
  <2>1. CASE q = r BY <1>2, <2>1 DEF TypeOK
  <2>2. CASE q # r
    <3>1. run'[q] = run[q] BY <2>2 DEF TypeOK
    <3>2. Scan(run[q], rows[run[q].dialog] \cup Service)
      BY <1>2, <3>1 DEF Scans, Handled
    <3>3. rows[run[q].dialog] \cup Service \subseteq rows'[run[q].dialog] \cup Service
      BY <3>2 DEF Scan, RowsGrow
    <3>4. QED BY <3>1, <3>2, <3>3, ScanGrows
  <2>3. QED BY <2>1, <2>2
<1>3. QED BY <1>1, <1>2 DEF Scans, Handled

LEMMA ScansKept ==
  ASSUME Scans, RowsGrow, UNCHANGED run
  PROVE  Scans'
<1>1. ASSUME NEW q \in Runs, run[q].pc \in Scanning
      PROVE  Scan(run[q], rows'[run[q].dialog] \cup Service)
  <2>1. Scan(run[q], rows[run[q].dialog] \cup Service)
    BY <1>1 DEF Scans, Handled
  <2>2. rows[run[q].dialog] \cup Service \subseteq rows'[run[q].dialog] \cup Service
    BY <2>1 DEF Scan, RowsGrow
  <2>3. QED BY <2>1, <2>2, ScanGrows
<1>2. QED BY <1>1 DEF Scans, Handled

(* What the checkpoints name stays stored when rows are only added.        *)
LEMMA MarksKept ==
  ASSUME TypeOK, RowsGrow, CursorHandled, MarkingHandled, LiveCursorStored,
         UNCHANGED cursor, marking' \subseteq marking,
         UNCHANGED liveCursor
  PROVE  CursorHandled' /\ MarkingHandled' /\ LiveCursorStored'
<1>1. CursorHandled' BY DEF CursorHandled, RowsGrow, Handled
<1>2. MarkingHandled' BY DEF MarkingHandled, RowsGrow, Handled, TypeOK, Messages
<1>3. LiveCursorStored'
  BY BackfillAssumption DEF LiveCursorStored, RowsGrow, Handled, TypeOK, Messages
<1>4. QED BY <1>1, <1>2, <1>3

THEOREM BackfillInvariant == Spec => []IInv
<1> USE BackfillAssumption
<1>1. Init => IInv
  <2> SUFFICES ASSUME Init PROVE IInv
    OBVIOUS
  <2>1. \A r \in Runs : run[r] = NotRunning("idle") /\ run[r] \in Locals
    BY NotRunningType DEF Init
  <2>2. \A r \in Runs : run[r].pc \notin Scanning
    BY <2>1 DEF NotRunning, Scanning
  <2>3. run \in [Runs -> Locals]
    BY NotRunningType DEF Init
  <2>4. TypeOK
    <3>1. cursor \in [Dialogs -> 0..MaxId] /\ rows \in [Dialogs -> SUBSET Ids]
      BY DEF Init
    <3>2. QED BY <2>3, <3>1 DEF Init, TypeOK
  <2>5. QED
    BY <2>2, <2>4 DEF Init, IInv, Scans, CursorHandled, MarkingHandled, LiveCursorStored
<1>2. IInv /\ [Next]_vars => IInv'
  <2> SUFFICES ASSUME IInv, [Next]_vars PROVE IInv'
    OBVIOUS
  <2>a. TypeOK /\ Scans /\ CursorHandled /\ MarkingHandled /\ LiveCursorStored
    BY DEF IInv
  <2> DEFINE DB == <<sent, rows, cursor, liveCursor>>
             Updates == <<live, arriving, marking>>
  (* Steps of a run that store nothing.                                    *)
  <2>b. ASSUME NEW r \in Runs, NEW t \in Locals,
               t.pc \in Scanning => Scan(t, Handled(t.dialog)),
               run' = [run EXCEPT ![r] = t],
               UNCHANGED DB, live' \in BOOLEAN, UNCHANGED <<arriving, marking>>,
               cut' \subseteq Dialogs
        PROVE  IInv'
    <3>1. RowsGrow BY <2>b DEF RowsGrow
    <3>2. run' \in [Runs -> Locals] /\ Scans'
      BY <2>a, <2>b, <3>1, RunStep DEF Handled
    <3>3. TypeOK' BY <2>a, <2>b, <3>2 DEF TypeOK
    <3>4. CursorHandled' /\ MarkingHandled' /\ LiveCursorStored'
      BY <2>a, <2>b, <3>1, MarksKept
    <3>5. QED BY <3>2, <3>3, <3>4 DEF IInv
  <2>1. ASSUME NEW r \in Runs, Begin(r) PROVE IInv'
    <3> DEFINE t == [run[r] EXCEPT !.pc = "listing"]
    <3>1. run' = [run EXCEPT ![r] = t] BY <2>1 DEF Begin
    <3>2. t \in Locals /\ t.pc \notin Scanning
      BY <2>a DEF TypeOK, Locals, Scanning
    <3>3. QED BY <2>1, <2>a, <2>b, <3>1, <3>2 DEF Begin, TypeOK
  <2>2. ASSUME NEW r \in Runs, ListDialogs(r) PROVE IInv'
    <3> DEFINE t == [run[r] EXCEPT !.pc = "choosing", !.todo = {d \in Dialogs : sent[d] > 0}]
    <3>1. run' = [run EXCEPT ![r] = t] BY <2>2 DEF ListDialogs
    <3>2. run[r] \in Locals /\ {d \in Dialogs : sent[d] > 0} \in SUBSET Dialogs
      BY <2>a DEF TypeOK
    <3>3. t \in Locals /\ t.pc \notin Scanning
      BY <3>2 DEF Locals, Scanning
    <3>4. QED BY <2>2, <2>a, <2>b, <3>1, <3>3 DEF ListDialogs, TypeOK
  <2>3. ASSUME NEW r \in Runs, NEW d \in Dialogs, ReadCheckpoint(r, d) PROVE IInv'
    <3> DEFINE t == [NotRunning("fetching") EXCEPT
                       !.todo = run[r].todo \ {d}, !.dialog = d, !.minId = cursor[d],
                       !.newestId = cursor[d], !.remaining = Limit]
    <3>1. run' = [run EXCEPT ![r] = t] BY <2>3 DEF ReadCheckpoint
    <3>2. cursor[d] \in 0..MaxId /\ cursor[d] \in Handled(d) \cup {0}
          /\ run[r].todo \subseteq Dialogs
      BY <2>a DEF TypeOK, CursorHandled, Locals
    <3>3. t \in Locals
      <4>1. /\ 0 \in 0..MaxId /\ 1 \in 1..MaxId /\ 1 \in 1..MaxId + 1 /\ Limit \in 0..Limit
            /\ run[r].todo \ {d} \in SUBSET Dialogs
        BY <3>2
      <4>2. QED BY <3>2, <4>1 DEF NotRunning, Locals, Scanning
    <3>4. Scan(t, Handled(t.dialog))
      BY <3>2 DEF NotRunning, Scan, Passed
    <3>5. QED BY <2>3, <2>a, <2>b, <3>1, <3>3, <3>4 DEF ReadCheckpoint, TypeOK
  <2>4. ASSUME NEW r \in Runs, FetchPage(r) PROVE IInv'
    <3> DEFINE s == run[r]
    <3>1. s \in Locals /\ s.pc = "fetching" /\ Scan(s, Handled(s.dialog))
      BY <2>4, <2>a DEF FetchPage, TypeOK, Scans, Scanning
    <3>2. cut' \subseteq Dialogs
      BY <2>4, <2>a, <3>1 DEF FetchPage, TypeOK, Scan
    <3>3. CASE s.remaining = 0 \/ PageLow(s) > PageHigh(s)
      <4>1. run' = [run EXCEPT ![r] = NextDialog(s)] BY <2>4, <3>3 DEF FetchPage
      <4>2. NextDialog(s) \in Locals /\ NextDialog(s).pc \notin Scanning
        BY <3>1, NextDialogType DEF Scanning
      <4>3. QED BY <2>4, <2>a, <2>b, <3>2, <4>1, <4>2 DEF FetchPage, TypeOK
    <3>4. CASE ~(s.remaining = 0 \/ PageLow(s) > PageHigh(s))
      <4> DEFINE t == [s EXCEPT !.pc = "ingesting", !.low = PageLow(s),
                                !.high = PageHigh(s), !.next = PageLow(s)]
      <4>1. run' = [run EXCEPT ![r] = t] BY <2>4, <3>4 DEF FetchPage
      <4>2. PageHigh(s) \in 0..MaxId
        BY <2>a, <3>1 DEF PageHigh, TypeOK, Locals, Scan
      <4>3. PageLow(s) \in Int /\ s.minId < PageLow(s) /\ PageLow(s) <= PageHigh(s)
            /\ PageHigh(s) - PageLow(s) + 1 <= Request(s)
            /\ (s.offsetId # 0 => PageHigh(s) = s.offsetId - 1)
        <5>1. s.minId \in Nat /\ s.remaining \in Nat /\ Request(s) \in Nat
          BY <3>1 DEF Locals, Request
        <5>2. QED BY <3>4, <4>2, <5>1 DEF PageLow, PageHigh
      <4>4. t \in Locals /\ Scan(t, Handled(s.dialog))
        BY <3>1, <4>2, <4>3, FetchedScan
      <4>5. t.dialog = s.dialog BY <3>1 DEF Locals
      <4>6. QED BY <2>4, <2>a, <2>b, <3>2, <4>1, <4>4, <4>5 DEF FetchPage, TypeOK
    <3>5. QED BY <3>3, <3>4
  <2>5. ASSUME NEW r \in Runs, Ingest(r) PROVE IInv'
    <3> DEFINE s == run[r]
    <3>1. s \in Locals /\ s.pc = "ingesting" /\ Scan(s, Handled(s.dialog)) /\ s.dialog \in Dialogs
      BY <2>5, <2>a DEF Ingest, TypeOK, Scans, Scanning, Scan
    <3>2. run' = [run EXCEPT ![r] = Ingested(s)]
          /\ rows' = [rows EXCEPT ![s.dialog] = @ \cup ({s.next} \ Service)]
      BY <2>5 DEF Ingest
    <3>3. RowsGrow BY <2>a, <3>1, <3>2 DEF RowsGrow, TypeOK
    <3>4. rows'[s.dialog] \cup Service = Handled(s.dialog) \cup {s.next} \cup Service
      BY <2>a, <3>1, <3>2 DEF TypeOK, Handled
    <3>5. Scan(s, rows'[s.dialog] \cup Service)
      BY <3>1, <3>4, ScanGrows
    <3>6. Ingested(s) \in Locals /\ Scan(Ingested(s), rows'[s.dialog] \cup Service)
      BY <3>1, <3>4, <3>5, IngestedScan
    <3>7. Ingested(s).dialog = s.dialog BY <3>1 DEF Ingested, Locals
    <3>8. run' \in [Runs -> Locals] /\ Scans'
      BY <2>a, <3>2, <3>3, <3>6, <3>7, RunStep
    <3>9. s.next \in Ids BY <3>1 DEF Locals, Scan, Ids
    <3>10. TypeOK' BY <2>5, <2>a, <3>1, <3>2, <3>8, <3>9 DEF Ingest, TypeOK
    <3>11. CursorHandled' /\ MarkingHandled' /\ LiveCursorStored'
      BY <2>5, <2>a, <3>3, MarksKept DEF Ingest
    <3>12. QED BY <3>8, <3>10, <3>11 DEF IInv
  <2>6. ASSUME NEW r \in Runs, SaveCheckpoint(r) PROVE IInv'
    <3> DEFINE s == run[r]
               t == IF LastPage(s)
                    THEN NextDialog(s)
                    ELSE [s EXCEPT !.pc = "fetching", !.offsetId = s.low,
                                   !.remaining = @ - PageLength(s),
                                   !.low = 1, !.high = 0, !.next = 1]
    <3>1. s \in Locals /\ s.pc = "saving" /\ Scan(s, Handled(s.dialog)) /\ s.dialog \in Dialogs
      BY <2>6, <2>a DEF SaveCheckpoint, TypeOK, Scans, Scanning, Scan
    <3>2. run' = [run EXCEPT ![r] = t]
          /\ cursor' = [cursor EXCEPT ![s.dialog] = HighWater(s)]
          /\ UNCHANGED <<sent, rows, liveCursor, live, arriving, marking, cut>>
      BY <2>6 DEF SaveCheckpoint
    <3>3. HighWater(s) \in Handled(s.dialog) /\ HighWater(s) \in 1..MaxId
      BY <3>1, HighWaterStored
    <3>4. t \in Locals /\ (t.pc \in Scanning => Scan(t, Handled(t.dialog)))
      <4>1. CASE LastPage(s)
        BY <4>1, <3>1, NextDialogType DEF Scanning
      <4>2. CASE ~LastPage(s)
        <5> DEFINE u == [s EXCEPT !.pc = "fetching", !.offsetId = s.low,
                                  !.remaining = @ - PageLength(s),
                                  !.low = 1, !.high = 0, !.next = 1]
        <5>1. u \in Locals /\ Scan(u, Handled(s.dialog)) BY <3>1, SavedScan
        <5>2. u.dialog = s.dialog BY <3>1 DEF Locals
        <5>3. QED BY <4>2, <5>1, <5>2
      <4>3. QED BY <4>1, <4>2
    <3>5. RowsGrow BY <3>2 DEF RowsGrow
    <3>6. run' \in [Runs -> Locals] /\ Scans'
      BY <2>a, <3>2, <3>4, <3>5, RunStep DEF Handled
    <3>7. TypeOK' BY <2>a, <3>1, <3>2, <3>3, <3>6 DEF TypeOK
    <3>8. CursorHandled'
      BY <2>a, <3>1, <3>2, <3>3 DEF CursorHandled, Handled, TypeOK
    <3>9. MarkingHandled' /\ LiveCursorStored'
      BY <2>a, <3>2 DEF MarkingHandled, LiveCursorStored, Handled
    <3>10. QED BY <3>6, <3>7, <3>8, <3>9 DEF IInv
  <2>7. ASSUME NEW r \in Runs, Finish(r) PROVE IInv'
    <3>1. Ended(r) \in Locals /\ Ended(r).pc \notin Scanning
      BY NotRunningType DEF Ended, NotRunning, Scanning
    <3>2. QED BY <2>7, <2>a, <2>b, <3>1 DEF Finish, TypeOK
  <2>8. ASSUME NEW r \in Runs, Fails(r) PROVE IInv'
    <3>1. Ended(r) \in Locals /\ Ended(r).pc \notin Scanning
      BY NotRunningType DEF Ended, NotRunning, Scanning
    <3>2. cut' \subseteq Dialogs
      BY <2>8, <2>a DEF Fails, TypeOK, Scans, Scan
    <3>3. QED BY <2>8, <2>a, <2>b, <3>1, <3>2 DEF Fails, TypeOK
  <2>9. ASSUME NEW d \in Dialogs, Send(d) PROVE IInv'
    <3>1. RowsGrow /\ UNCHANGED run BY <2>9 DEF Send, RowsGrow
    <3>2. TypeOK' BY <2>9, <2>a DEF Send, TypeOK, Messages, Ids
    <3>3. Scans' BY <2>a, <3>1, ScansKept
    <3>4. CursorHandled' /\ MarkingHandled' /\ LiveCursorStored'
      BY <2>9, <2>a, <3>1, MarksKept DEF Send
    <3>5. QED BY <3>2, <3>3, <3>4 DEF IInv
  <2>10. ASSUME NEW m \in Messages, LiveIngest(m) PROVE IInv'
    <3>1. m[1] \in Dialogs /\ m[2] \in Ids BY DEF Messages
    <3>2. RowsGrow /\ UNCHANGED <<run, cursor, liveCursor>>
      BY <2>10, <2>a, <3>1 DEF LiveIngest, RowsGrow, TypeOK
    <3>3. TypeOK' BY <2>10, <2>a, <3>1 DEF LiveIngest, TypeOK
    <3>4. Scans' BY <2>a, <3>2, ScansKept
    <3>5. CursorHandled' BY <2>a, <3>2 DEF CursorHandled, RowsGrow, Handled
    <3>6. LiveCursorStored'
      BY <2>a, <3>2 DEF LiveCursorStored, RowsGrow, Handled, TypeOK, Messages
    <3>7. m[2] \in Handled(m[1])'
      BY <2>10, <2>a, <3>1 DEF LiveIngest, Handled, TypeOK
    <3>8. MarkingHandled'
      BY <2>10, <2>a, <3>2, <3>7
      DEF LiveIngest, MarkingHandled, RowsGrow, Handled, TypeOK, Messages
    <3>9. QED BY <3>3, <3>4, <3>5, <3>6, <3>8 DEF IInv
  <2>11. ASSUME NEW m \in Messages, LiveMark(m) PROVE IInv'
    <3>1. RowsGrow /\ UNCHANGED run BY <2>11 DEF LiveMark, RowsGrow
    <3>2. TypeOK' BY <2>11, <2>a DEF LiveMark, TypeOK
    <3>3. Scans' BY <2>a, <3>1, ScansKept
    <3>4. CursorHandled' /\ MarkingHandled' /\ LiveCursorStored'
      BY <2>11, <2>a DEF LiveMark, CursorHandled, MarkingHandled, LiveCursorStored, Handled
    <3>5. QED BY <3>2, <3>3, <3>4 DEF IInv
  <2>12. ASSUME NEW m \in Messages, LiveFails(m) PROVE IInv'
    <3>1. RowsGrow /\ UNCHANGED run BY <2>12 DEF LiveFails, RowsGrow
    <3>2. TypeOK' BY <2>12, <2>a DEF LiveFails, TypeOK
    <3>3. Scans' BY <2>a, <3>1, ScansKept
    <3>4. CursorHandled' /\ MarkingHandled' /\ LiveCursorStored'
      BY <2>12, <2>a, <3>1, MarksKept DEF LiveFails
    <3>5. QED BY <3>2, <3>3, <3>4 DEF IInv
  <2>13. CASE Restart
    <3>1. \A r \in Runs : run'[r] = NotRunning("idle") /\ run'[r] \in Locals
      BY <2>13, NotRunningType DEF Restart
    <3>2. \A r \in Runs : run'[r].pc \notin Scanning
      BY <3>1 DEF NotRunning, Scanning
    <3>3. cut' \subseteq Dialogs
      BY <2>13, <2>a DEF Restart, TypeOK, Scans, Scan
    <3>4. TypeOK' BY <2>13, <2>a, <3>1, <3>3 DEF Restart, TypeOK
    <3>5. RowsGrow BY <2>13 DEF Restart, RowsGrow
    <3>6. CursorHandled' /\ MarkingHandled' /\ LiveCursorStored'
      BY <2>13, <2>a, <3>5, MarksKept DEF Restart
    <3>7. QED BY <3>2, <3>4, <3>6 DEF IInv, Scans
  <2>14. CASE UNCHANGED vars
    BY <2>14, <2>a DEF vars, IInv, TypeOK, Scans, CursorHandled, MarkingHandled,
                       LiveCursorStored, Handled
  <2>15. QED
    BY <2>1, <2>2, <2>3, <2>4, <2>5, <2>6, <2>7, <2>8, <2>9, <2>10, <2>11, <2>12,
       <2>13, <2>14 DEF Next
<1>3. QED
  BY <1>1, <1>2, PTL DEF Spec

(* The type invariant, with no bound on the limit but the limit itself: a  *)
(* run never asks for more messages than its limit leaves.                 *)
THEOREM TypeCorrect == Spec => []TypeOK
<1>1. IInv => TypeOK BY DEF IInv
<1>2. QED BY <1>1, BackfillInvariant, PTL

(* A scan leaves nothing out between the newest and the oldest message it  *)
(* has gone through, whatever runs beside it.                              *)
THEOREM ScansAreContiguous == Spec => []ScanContiguous
<1>1. IInv => ScanContiguous BY DEF IInv, Scans, Scan, ScanContiguous
<1>2. QED BY <1>1, BackfillInvariant, PTL

(* The live checkpoint names a stored message.                             *)
THEOREM LiveCursorCorrect == Spec => []LiveCursorStored
<1>1. IInv => LiveCursorStored BY DEF IInv
<1>2. QED BY <1>1, BackfillInvariant, PTL

-----------------------------------------------------------------------------
(* Gaps below the mark                                                     *)

Working(s, d) == s.pc \in Scanning /\ s.dialog = d

(* Having moved the mark, or being about to, a run still has to fetch the  *)
(* messages between minId and the oldest it has gone through.              *)
Owed(s, d, n) ==
    /\ Working(s, d) /\ s.minId < n
    /\ n < s.offsetId \/ (s.pc = "saving" /\ n < s.low)

Found(d, n) == n \in Handled(d) \/ \E r \in Runs : Owed(run[r], d, n)

(* In a dialog that no run has left early, what lies below the mark, or    *)
(* below a mark that a run has read, is stored or is owed.                 *)
NoGaps ==
    \A d \in Dialogs \ cut :
        /\ \A n \in 1..cursor[d] : Found(d, n)
        /\ \A r \in Runs : Working(run[r], d) => \A n \in 1..run[r].minId : Found(d, n)

(* A page is as long as was asked for, or reaches down to minId.           *)
FullPage(s) ==
    s.pc \in {"ingesting", "saving"} => s.low = s.minId + 1 \/ PageLength(s) = Request(s)

FullPages == \A r \in Runs : FullPage(run[r])

(* A step of one run keeps NoGaps, if the run owes what it did, unless it  *)
(* is now stored, and brings into play no mark that was not there before.  *)
LEMMA OwedStep ==
  ASSUME TypeOK, NoGaps, RowsGrow, NEW r \in Runs, NEW t \in Locals,
         run' = [run EXCEPT ![r] = t], cut \subseteq cut',
         \A d \in Dialogs : cursor'[d] \in 0..MaxId,
         \A d \in Dialogs \ cut' : \A n \in Ids :
            Owed(run[r], d, n) => Owed(t, d, n) \/ n \in rows'[d] \cup Service,
         \A d \in Dialogs \ cut' : \A n \in 1..cursor'[d] :
            \/ n <= cursor[d]
            \/ Working(run[r], d) /\ n <= run[r].minId
            \/ Owed(t, d, n) \/ n \in rows'[d] \cup Service,
         \A d \in Dialogs \ cut' : \A n \in 1..t.minId :
            Working(t, d) =>
               \/ n <= cursor[d]
               \/ Working(run[r], d) /\ n <= run[r].minId
  PROVE  NoGaps'
<1>1. run'[r] = t /\ \A q \in Runs \ {r} : run'[q] = run[q]
  BY DEF TypeOK
<1>2. ASSUME NEW d \in Dialogs \ cut', NEW n \in Ids, Found(d, n)
      PROVE  (Found(d, n))'
  <2>1. CASE n \in Handled(d)
    BY <2>1 DEF Found, Handled, RowsGrow
  <2>2. ASSUME NEW q \in Runs, Owed(run[q], d, n) PROVE (Found(d, n))'
    <3>1. CASE q = r
      <4>1. Owed(t, d, n) \/ n \in rows'[d] \cup Service BY <2>2, <3>1
      <4>2. QED BY <1>1, <4>1 DEF Found, Handled, Owed, Working
    <3>2. CASE q # r
      <4>1. run'[q] = run[q] BY <1>1, <3>2
      <4>2. QED BY <2>2, <4>1 DEF Found, Owed, Working
    <3>3. QED BY <3>1, <3>2
  <2>3. QED BY <1>2, <2>1, <2>2 DEF Found
<1>3. ASSUME NEW d \in Dialogs \ cut', NEW n \in Ids,
             n <= cursor[d] \/ \E q \in Runs : Working(run[q], d) /\ n <= run[q].minId
      PROVE  Found(d, n)
  <2>1. n \in 1..cursor[d] \/ \E q \in Runs : Working(run[q], d) /\ n \in 1..run[q].minId
    BY <1>3, BackfillAssumption DEF TypeOK, Ids, Locals
  <2>2. QED BY <2>1 DEF NoGaps
<1>4. ASSUME NEW d \in Dialogs \ cut', NEW n \in 1..cursor'[d] PROVE (Found(d, n))'
  <2>1. n \in Ids BY BackfillAssumption DEF Ids
  <2>2. CASE Owed(t, d, n) \/ n \in rows'[d] \cup Service
    BY <1>1, <2>2 DEF Found, Handled, Owed, Working
  <2>3. CASE n <= cursor[d] \/ (Working(run[r], d) /\ n <= run[r].minId)
    BY <1>2, <1>3, <2>1, <2>3
  <2>4. QED BY <2>2, <2>3
<1>5. ASSUME NEW d \in Dialogs \ cut', NEW q \in Runs, Working(run'[q], d),
             NEW n \in 1..run'[q].minId
      PROVE  (Found(d, n))'
  <2>1. run'[q] \in Locals BY <1>1 DEF TypeOK
  <2>2. n \in Ids BY <2>1, BackfillAssumption DEF Ids, Locals
  <2>3. n <= cursor[d] \/ \E p \in Runs : Working(run[p], d) /\ n <= run[p].minId
    <3>1. CASE q = r
      BY <1>1, <1>5, <3>1
    <3>2. CASE q # r
      <4>1. run'[q] = run[q] BY <1>1, <3>2
      <4>2. n <= run[q].minId BY <2>2, <4>1, BackfillAssumption DEF TypeOK, Locals, Ids
      <4>3. QED BY <1>5, <4>1, <4>2
    <3>3. QED BY <3>1, <3>2
  <2>4. QED BY <1>2, <1>3, <2>2, <2>3
<1>6. QED BY <1>4, <1>5 DEF NoGaps

LEMMA FullPageStep ==
  ASSUME TypeOK, FullPages, NEW r \in Runs, NEW t \in Locals, FullPage(t),
         run' = [run EXCEPT ![r] = t]
  PROVE  FullPages'
BY DEF FullPages, TypeOK

(* A scan has stored what lies between its page and the newest message it  *)
(* has seen, when it is about to save its mark.                            *)
LEMMA SavingStored ==
  ASSUME NEW s \in Locals, NEW stored, Scan(s, stored), s.pc = "saving"
  PROVE  /\ s.low .. s.newestId \subseteq stored
         /\ s.minId < s.low /\ s.low <= s.newestId
         /\ HighWater(s) = s.newestId
BY BackfillAssumption DEF Locals, Scan, Passed, HighWater

(* Messages below the mark of a dialog that no run scans are missing only  *)
(* if some run has left that dialog early, whatever other runs, live       *)
(* updates, failures and restarts there were.                              *)
THEOREM GapsAreOnlyCuts == Spec => []GapsAreCuts
<1> USE BackfillAssumption
<1>1. Init => NoGaps /\ FullPages
  BY DEF Init, NoGaps, FullPages, FullPage, NotRunning, Working, Scanning
<1>2. IInv /\ IInv' /\ NoGaps /\ FullPages /\ [Next]_vars => NoGaps' /\ FullPages'
  <2> SUFFICES ASSUME TypeOK, TypeOK', Scans, NoGaps, FullPages, [Next]_vars
               PROVE  NoGaps' /\ FullPages'
    BY DEF IInv
  (* A step after which a run scans nothing.                               *)
  <2>a. ASSUME NEW r \in Runs, NEW t \in Locals, run' = [run EXCEPT ![r] = t],
               t.pc \notin Scanning, UNCHANGED <<rows, cursor>>, cut \subseteq cut',
               \A d \in Dialogs \ cut' : \A n \in Ids : ~Owed(run[r], d, n)
        PROVE  NoGaps' /\ FullPages'
    <3>1. RowsGrow BY <2>a DEF RowsGrow
    <3>2. \A d : ~Working(t, d) BY <2>a DEF Working
    <3>3. \A d \in Dialogs : cursor'[d] \in 0..MaxId BY DEF TypeOK
    <3>4. \A d \in Dialogs : \A n \in 1..cursor'[d] : n <= cursor[d] BY <2>a, <3>3
    <3>5. NoGaps' BY <2>a, <3>1, <3>2, <3>3, <3>4, OwedStep
    <3>6. FullPage(t) BY <2>a DEF FullPage, Scanning
    <3>7. QED BY <2>a, <3>5, <3>6, FullPageStep
  <2>b. ASSUME NEW r \in Runs, run[r].pc \notin Scanning
        PROVE  \A d, n : ~Owed(run[r], d, n)
    BY <2>b DEF Owed, Working
  <2>c. \A r \in Runs : run'[r] \in Locals /\ run[r] \in Locals
    BY DEF TypeOK
  (* A step of the database and the live updates.                          *)
  <2>d. ASSUME UNCHANGED <<run, cursor, cut>>, RowsGrow PROVE NoGaps' /\ FullPages'
    <3>1. \A d \in Dialogs, n \in Ids : Found(d, n) => (Found(d, n))'
      BY <2>d DEF Found, Handled, RowsGrow, Owed, Working
    <3>2. \A d \in Dialogs : 1..cursor[d] \subseteq Ids BY DEF TypeOK, Ids
    <3>3. \A r \in Runs : 1..run[r].minId \subseteq Ids BY <2>c DEF Locals, Ids
    <3>4. QED BY <2>d, <3>1, <3>2, <3>3 DEF NoGaps, FullPages
  <2>1. ASSUME NEW r \in Runs, Begin(r) PROVE NoGaps' /\ FullPages'
    <3> DEFINE t == [run[r] EXCEPT !.pc = "listing"]
    <3>1. run' = [run EXCEPT ![r] = t] /\ run[r].pc \notin Scanning
          /\ UNCHANGED <<rows, cursor, cut>>
      BY <2>1 DEF Begin, Scanning
    <3>2. t \in Locals /\ t.pc \notin Scanning BY <2>c DEF Locals, Scanning
    <3>3. QED BY <3>1, <3>2, <2>a, <2>b
  <2>2. ASSUME NEW r \in Runs, ListDialogs(r) PROVE NoGaps' /\ FullPages'
    <3> DEFINE t == [run[r] EXCEPT !.pc = "choosing", !.todo = {d \in Dialogs : sent[d] > 0}]
    <3>1. run' = [run EXCEPT ![r] = t] /\ run[r].pc \notin Scanning
          /\ UNCHANGED <<rows, cursor, cut>>
      BY <2>2 DEF ListDialogs, Scanning
    <3>2. t \in Locals /\ t.pc \notin Scanning
      <4>1. {d \in Dialogs : sent[d] > 0} \in SUBSET Dialogs OBVIOUS
      <4>2. QED BY <4>1, <2>c DEF Locals, Scanning
    <3>3. QED BY <3>1, <3>2, <2>a, <2>b
  <2>3. ASSUME NEW r \in Runs, NEW d \in Dialogs, ReadCheckpoint(r, d)
        PROVE  NoGaps' /\ FullPages'
    <3> DEFINE t == [NotRunning("fetching") EXCEPT
                       !.todo = run[r].todo \ {d}, !.dialog = d, !.minId = cursor[d],
                       !.newestId = cursor[d], !.remaining = Limit]
    <3>1. run' = [run EXCEPT ![r] = t] /\ run[r].pc \notin Scanning
          /\ UNCHANGED <<rows, cursor, cut>>
      BY <2>3 DEF ReadCheckpoint, Scanning
    <3>2. run'[r] = t BY <3>1 DEF TypeOK
    <3>3. t \in Locals /\ t.pc = "fetching" /\ t.dialog = d /\ t.minId = cursor[d]
      BY <2>c, <3>2 DEF NotRunning
    <3>4. RowsGrow BY <3>1 DEF RowsGrow
    <3>5. \A e \in Dialogs : cursor'[e] \in 0..MaxId BY DEF TypeOK
    <3>6. \A e \in Dialogs : \A n \in 1..cursor'[e] : n <= cursor[e] BY <3>1, <3>5
    <3>7. \A e \in Dialogs : \A n \in 1..t.minId : Working(t, e) => n <= cursor[e]
      BY <3>1, <3>3, <3>5 DEF Working
    <3>8. NoGaps' BY <3>1, <3>3, <3>4, <3>5, <3>6, <3>7, <2>b, OwedStep
    <3>9. FullPage(t) BY <3>3 DEF FullPage
    <3>10. QED BY <3>1, <3>3, <3>8, <3>9, FullPageStep
  <2>4. ASSUME NEW r \in Runs, FetchPage(r) PROVE NoGaps' /\ FullPages'
    <3> DEFINE s == run[r]
    <3>1. s \in Locals /\ s.pc = "fetching" /\ Scan(s, Handled(s.dialog))
          /\ UNCHANGED <<rows, cursor>> /\ cut \subseteq cut'
      BY <2>4, <2>c DEF FetchPage, Scans, Scanning
    <3>2. s.minId \in Nat /\ s.offsetId \in Nat /\ s.remaining \in Nat /\ Request(s) \in Nat
          /\ s.newestId \in Nat
      BY <3>1 DEF Locals, Request
    <3>3. PageHigh(s) \in Int
      BY <3>1, <3>2 DEF PageHigh, TypeOK, Scan
    <3>4. CASE s.remaining = 0 \/ PageLow(s) > PageHigh(s)
      <4>1. run' = [run EXCEPT ![r] = NextDialog(s)] BY <2>4, <3>4 DEF FetchPage
      <4>2. NextDialog(s) \in Locals /\ NextDialog(s).pc \notin Scanning
        BY <3>1, NextDialogType DEF Scanning
      <4>3. ASSUME NEW d \in Dialogs \ cut', NEW n \in Ids PROVE ~Owed(s, d, n)
        <5>1. CASE s.remaining = 0
          BY <2>4, <4>3, <5>1 DEF FetchPage, Owed, Working
        <5>2. CASE s.remaining # 0 /\ PageLow(s) > PageHigh(s)
          <6>1. Request(s) > 0 BY <3>2, <5>2 DEF Request
          <6>2. PageHigh(s) <= s.minId
            BY <3>2, <3>3, <5>2, <6>1 DEF PageLow
          <6>3. s.offsetId # 0 => s.offsetId <= s.minId + 1
            BY <3>2, <6>2 DEF PageHigh
          <6>4. QED BY <3>1, <3>2, <6>3 DEF Owed, Ids
        <5>3. QED BY <3>4, <5>1, <5>2
      <4>4. QED BY <3>1, <4>1, <4>2, <4>3, <2>a
    <3>5. CASE ~(s.remaining = 0 \/ PageLow(s) > PageHigh(s))
      <4> DEFINE t == [s EXCEPT !.pc = "ingesting", !.low = PageLow(s),
                                !.high = PageHigh(s), !.next = PageLow(s)]
      <4>1. run' = [run EXCEPT ![r] = t] BY <2>4, <3>5 DEF FetchPage
      <4>2. t \in Locals
        <5>1. run'[r] = t BY <4>1 DEF TypeOK
        <5>2. QED BY <2>c, <5>1
      <4>3. /\ t.pc = "ingesting" /\ t.low = PageLow(s) /\ t.high = PageHigh(s)
            /\ t.dialog = s.dialog /\ t.minId = s.minId
            /\ t.offsetId = s.offsetId /\ t.remaining = s.remaining
        BY <3>1 DEF Locals
      <4>4. FullPage(t)
        BY <3>2, <3>3, <4>3 DEF FullPage, PageLow, PageLength, Request
      <4>5. \A d, n : Owed(s, d, n) => Owed(t, d, n)
        BY <3>1, <4>3 DEF Owed, Working, Scanning
      <4>6. \A d : Working(t, d) => Working(s, d)
        BY <3>1, <4>3 DEF Working, Scanning
      <4>7. RowsGrow BY <3>1 DEF RowsGrow
      <4>8. \A d \in Dialogs : cursor'[d] \in 0..MaxId BY DEF TypeOK
      <4>9. \A d \in Dialogs : \A n \in 1..cursor'[d] : n <= cursor[d] BY <3>1, <4>8
      <4>10. \A n \in 1..t.minId : n <= s.minId BY <3>2, <4>3
      <4>11. NoGaps'
        BY <3>1, <4>1, <4>2, <4>5, <4>6, <4>7, <4>8, <4>9, <4>10, OwedStep
      <4>12. QED BY <4>1, <4>2, <4>4, <4>11, FullPageStep
    <3>6. QED BY <3>4, <3>5
  <2>5. ASSUME NEW r \in Runs, Ingest(r) PROVE NoGaps' /\ FullPages'
    <3> DEFINE s == run[r]
               t == Ingested(s)
    <3>1. s \in Locals /\ s.pc = "ingesting" /\ Scan(s, Handled(s.dialog))
          /\ run' = [run EXCEPT ![r] = t] /\ UNCHANGED <<cursor, cut>>
      BY <2>5, <2>c DEF Ingest, Scans, Scanning
    <3>2. t \in Locals
      <4>1. run'[r] = t BY <3>1 DEF TypeOK
      <4>2. QED BY <2>c, <4>1
    <3>3. /\ t.pc \in {"ingesting", "saving"} /\ t.low = s.low /\ t.high = s.high
          /\ t.dialog = s.dialog /\ t.minId = s.minId
          /\ t.offsetId = s.offsetId /\ t.remaining = s.remaining
      BY <3>1 DEF Ingested, Locals
    <3>4. FullPage(t)
      BY <3>1, <3>3 DEF FullPages, FullPage, PageLength, Request
    <3>5. \A d, n : Owed(s, d, n) => Owed(t, d, n)
      BY <3>1, <3>3 DEF Owed, Working, Scanning
    <3>6. \A d : Working(t, d) => Working(s, d)
      BY <3>1, <3>3 DEF Working, Scanning
    <3>7. RowsGrow BY <2>5 DEF Ingest, RowsGrow, TypeOK
    <3>8. \A d \in Dialogs : cursor'[d] \in 0..MaxId BY DEF TypeOK
    <3>9. \A d \in Dialogs : \A n \in 1..cursor'[d] : n <= cursor[d] BY <3>1, <3>8
    <3>10. \A n \in 1..t.minId : n <= s.minId BY <3>1, <3>3 DEF Locals
    <3>11. NoGaps'
      BY <3>1, <3>2, <3>5, <3>6, <3>7, <3>8, <3>9, <3>10, OwedStep
    <3>12. QED BY <3>1, <3>2, <3>4, <3>11, FullPageStep
  <2>6. ASSUME NEW r \in Runs, SaveCheckpoint(r) PROVE NoGaps' /\ FullPages'
    <3> DEFINE s == run[r]
               t == IF LastPage(s)
                    THEN NextDialog(s)
                    ELSE [s EXCEPT !.pc = "fetching", !.offsetId = s.low,
                                   !.remaining = @ - PageLength(s),
                                   !.low = 1, !.high = 0, !.next = 1]
    <3>1. s \in Locals /\ s.pc = "saving" /\ Scan(s, Handled(s.dialog)) /\ s.dialog \in Dialogs
      BY <2>6, <2>c DEF SaveCheckpoint, Scans, Scanning, Scan
    <3>2. run' = [run EXCEPT ![r] = t]
          /\ cursor' = [cursor EXCEPT ![s.dialog] = HighWater(s)]
          /\ UNCHANGED <<rows, cut>>
      BY <2>6 DEF SaveCheckpoint
    <3>3. t \in Locals
      <4>1. run'[r] = t BY <3>2 DEF TypeOK
      <4>2. QED BY <2>c, <4>1
    <3>4. /\ s.low .. s.newestId \subseteq Handled(s.dialog)
          /\ s.minId < s.low /\ s.low <= s.newestId /\ HighWater(s) = s.newestId
          /\ s.minId \in Nat /\ s.low \in Nat /\ s.newestId \in Nat /\ s.offsetId \in Nat
          /\ s.high \in Nat
      BY <3>1, SavingStored DEF Locals
    <3>5. Handled(s.dialog) = rows'[s.dialog] \cup Service
      BY <3>2 DEF Handled
    <3>6. \A d, n : Owed(s, d, n) => d = s.dialog
      BY DEF Owed, Working
    (* What this run passes on, having stored low..newestId.               *)
    <3>7. ASSUME NEW n \in Ids, s.minId < n, n <= s.newestId
          PROVE  Owed(t, s.dialog, n) \/ n \in Handled(s.dialog)
      <4>1. n \in Nat BY DEF Ids
      <4>2. CASE n >= s.low
        BY <3>4, <3>7, <4>1, <4>2
      <4>3. CASE n < s.low /\ LastPage(s)
        <5>1. s.low = s.minId + 1
          BY <3>1, <4>3 DEF FullPages, FullPage, LastPage, PageLength, Request, Locals
        <5>2. QED BY <3>4, <3>7, <4>1, <4>3, <5>1
      <4>4. CASE n < s.low /\ ~LastPage(s)
        <5>1. t.pc = "fetching" /\ t.offsetId = s.low /\ t.dialog = s.dialog
              /\ t.minId = s.minId
          BY <3>1, <4>4 DEF Locals
        <5>2. QED BY <3>7, <4>4, <5>1 DEF Owed, Working, Scanning
      <4>5. QED BY <3>4, <4>1, <4>2, <4>3, <4>4
    <3>8. ASSUME NEW n \in Ids, Owed(s, s.dialog, n)
          PROVE  Owed(t, s.dialog, n) \/ n \in Handled(s.dialog)
      <4>1. n \in Nat BY DEF Ids
      <4>2. s.minId < n /\ (n < s.offsetId \/ n < s.low) BY <3>8 DEF Owed
      <4>3. s.offsetId # 0 => s.offsetId <= s.newestId BY <3>1 DEF Scan
      <4>4. n <= s.newestId BY <3>4, <4>1, <4>2, <4>3
      <4>5. QED BY <3>7, <4>2, <4>4
    <3>9. RowsGrow BY <3>2 DEF RowsGrow
    <3>10. \A d \in Dialogs : cursor'[d] \in 0..MaxId /\ cursor[d] \in 0..MaxId
      BY DEF TypeOK
    <3>11. ASSUME NEW d \in Dialogs \ cut', NEW n \in 1..cursor'[d]
           PROVE  \/ n <= cursor[d]
                  \/ Working(s, d) /\ n <= s.minId
                  \/ Owed(t, d, n) \/ n \in rows'[d] \cup Service
      <4>1. n \in Ids BY <3>10 DEF Ids
      <4>2. CASE d # s.dialog
        <5>1. cursor'[d] = cursor[d] BY <3>2, <4>2 DEF TypeOK
        <5>2. QED BY <3>10, <5>1
      <4>3. CASE d = s.dialog
        <5>1. cursor'[d] = s.newestId BY <3>1, <3>2, <3>4, <4>3 DEF TypeOK
        <5>2. Working(s, d) BY <3>1, <4>3 DEF Working, Scanning
        <5>3. QED BY <3>4, <3>5, <3>7, <4>1, <4>3, <5>1, <5>2
      <4>4. QED BY <4>2, <4>3
    <3>12. ASSUME NEW d \in Dialogs \ cut', NEW n \in 1..t.minId, Working(t, d)
           PROVE  Working(s, d) /\ n <= s.minId
      <4>1. CASE LastPage(s)
        <5>1. t.pc = "choosing" BY <3>1, <4>1, NextDialogType
        <5>2. QED BY <3>12, <5>1 DEF Working, Scanning
      <4>2. CASE ~LastPage(s)
        <5>1. t.dialog = s.dialog /\ t.minId = s.minId BY <3>1, <4>2 DEF Locals
        <5>2. QED BY <3>1, <3>4, <3>12, <5>1 DEF Working, Scanning
      <4>3. QED BY <4>1, <4>2
    <3>13. \A d \in Dialogs \ cut' : \A n \in Ids :
              Owed(s, d, n) => Owed(t, d, n) \/ n \in rows'[d] \cup Service
      BY <3>5, <3>6, <3>8
    <3>14. cut \subseteq cut' BY <3>2
    <3>15. NoGaps'
      BY <3>2, <3>3, <3>9, <3>10, <3>11, <3>12, <3>13, <3>14, OwedStep
    <3>16. FullPage(t)
      <4>1. t.pc \in {"choosing", "fetching"}
        BY <3>1, NextDialogType DEF Locals
      <4>2. QED BY <4>1 DEF FullPage
    <3>17. QED BY <3>2, <3>3, <3>15, <3>16, FullPageStep
  <2>7. ASSUME NEW r \in Runs, Finish(r) PROVE NoGaps' /\ FullPages'
    <3>1. Ended(r) \in Locals /\ Ended(r).pc \notin Scanning
      BY NotRunningType DEF Ended, NotRunning, Scanning
    <3>2. run' = [run EXCEPT ![r] = Ended(r)] /\ run[r].pc \notin Scanning
          /\ UNCHANGED <<rows, cursor, cut>>
      BY <2>7 DEF Finish, Scanning
    <3>3. QED BY <3>1, <3>2, <2>a, <2>b
  <2>8. ASSUME NEW r \in Runs, Fails(r) PROVE NoGaps' /\ FullPages'
    <3>1. Ended(r) \in Locals /\ Ended(r).pc \notin Scanning
      BY NotRunningType DEF Ended, NotRunning, Scanning
    <3>2. run' = [run EXCEPT ![r] = Ended(r)] /\ UNCHANGED <<rows, cursor>>
          /\ cut \subseteq cut' /\ (run[r].pc \in Scanning => run[r].dialog \in cut')
      BY <2>8 DEF Fails
    <3>3. \A d \in Dialogs \ cut' : \A n \in Ids : ~Owed(run[r], d, n)
      BY <3>2 DEF Owed, Working
    <3>4. QED BY <3>1, <3>2, <3>3, <2>a
  <2>9. ASSUME NEW d \in Dialogs, Send(d) PROVE NoGaps' /\ FullPages'
    BY <2>9, <2>d DEF Send, RowsGrow
  <2>10. ASSUME NEW m \in Messages, LiveIngest(m) PROVE NoGaps' /\ FullPages'
    BY <2>10, <2>d DEF LiveIngest, RowsGrow, TypeOK
  <2>11. ASSUME NEW m \in Messages, LiveMark(m) \/ LiveFails(m) PROVE NoGaps' /\ FullPages'
    BY <2>11, <2>d DEF LiveMark, LiveFails, RowsGrow
  <2>12. CASE Restart
    <3>1. \A r \in Runs : run'[r].pc = "idle"
      BY <2>12 DEF Restart, NotRunning
    <3>2. FullPages' BY <3>1 DEF FullPages, FullPage
    <3>3. ASSUME NEW d \in Dialogs \ cut', NEW n \in 1..cursor'[d] PROVE (Found(d, n))'
      <4>1. Found(d, n) BY <2>12, <3>3 DEF Restart, NoGaps
      <4>2. \A r \in Runs : ~Working(run[r], d)
        BY <2>12, <3>3 DEF Restart, Working
      <4>3. QED BY <2>12, <4>1, <4>2 DEF Restart, Found, Owed, Handled
    <3>4. \A r \in Runs : \A d : ~Working(run'[r], d) BY <3>1 DEF Working, Scanning
    <3>5. QED BY <3>2, <3>3, <3>4 DEF NoGaps
  <2>13. CASE UNCHANGED vars
    BY <2>13, <2>d DEF vars, RowsGrow
  <2>14. QED
    BY <2>1, <2>2, <2>3, <2>4, <2>5, <2>6, <2>7, <2>8, <2>9, <2>10, <2>11, <2>12, <2>13
    DEF Next
<1>3. NoGaps => GapsAreCuts
  BY DEF NoGaps, GapsAreCuts, Found, Owed, Working
<1>4. QED
  BY <1>1, <1>2, <1>3, BackfillInvariant, PTL DEF Spec

-----------------------------------------------------------------------------
(* The dialog checkpoints are the marks of a durable ingest: stored        *)
(* messages stay stored, and a mark only moves to a stored message.        *)
THEOREM ImplementsDurableIngest == Spec => DurableIngestSpec
<1> USE BackfillAssumption
<1> DEFINE H == [d \in Dialogs |-> Handled(d)]
<1>1. Init => Ingester!Init
  BY DEF Init, Ingester!Init, Handled
<1>2. IInv /\ IInv' /\ [Next]_vars => [Ingester!Next]_<<H, cursor>>
  <2> SUFFICES ASSUME TypeOK, TypeOK', Scans, [Next]_vars
               PROVE  Ingester!Next \/ UNCHANGED <<H, cursor>>
    BY DEF IInv
  <2>1. H' \in [Dialogs -> SUBSET Nat]
    BY DEF Handled, TypeOK, Ids
  <2>2. CASE RowsGrow /\ UNCHANGED cursor
    <3>1. \A d \in Dialogs : H[d] \subseteq H'[d]
      BY <2>2 DEF RowsGrow, Handled
    <3>2. Ingester!Handle BY <2>1, <2>2, <3>1 DEF Ingester!Handle
    <3>3. QED BY <3>2 DEF Ingester!Next
  <2>3. ASSUME NEW r \in Runs, SaveCheckpoint(r) PROVE Ingester!Next
    <3> DEFINE s == run[r]
    <3>1. s \in Locals /\ s.pc = "saving" /\ Scan(s, Handled(s.dialog)) /\ s.dialog \in Dialogs
      BY <2>3 DEF SaveCheckpoint, TypeOK, Scans, Scanning, Scan
    <3>2. HighWater(s) \in H[s.dialog]
      BY <3>1, HighWaterStored
    <3>3. cursor' = [cursor EXCEPT ![s.dialog] = HighWater(s)] /\ UNCHANGED H
      BY <2>3 DEF SaveCheckpoint, Handled
    <3>4. Ingester!Advance(s.dialog) BY <3>2, <3>3 DEF Ingester!Advance
    <3>5. QED BY <3>1, <3>4 DEF Ingester!Next
  <2>4. \/ RowsGrow /\ UNCHANGED cursor
        \/ \E r \in Runs : SaveCheckpoint(r)
    <3>1. CASE UNCHANGED <<rows, cursor>> BY <3>1 DEF RowsGrow
    <3>2. ASSUME NEW r \in Runs, Ingest(r) PROVE RowsGrow /\ UNCHANGED cursor
      BY <3>2 DEF Ingest, RowsGrow, TypeOK
    <3>3. ASSUME NEW m \in Messages, LiveIngest(m) PROVE RowsGrow /\ UNCHANGED cursor
      BY <3>3 DEF LiveIngest, RowsGrow, TypeOK
    <3>4. QED
      BY <3>1, <3>2, <3>3
      DEF Next, vars, Begin, ListDialogs, ReadCheckpoint, FetchPage, Finish, Fails, Send,
          LiveMark, LiveFails, Restart
  <2>5. QED BY <2>2, <2>3, <2>4
<1>3. QED
  BY <1>1, <1>2, BackfillInvariant, PTL DEF Spec, DurableIngestSpec, Ingester!Spec
=============================================================================
