------------------------ MODULE MatrixHistoryProofs ------------------------
(***************************************************************************)
(* Proofs about MatrixHistory for every set of runs, every number of       *)
(* events and time stamps, and every size of a page.                       *)
(***************************************************************************)
EXTENDS MatrixHistory, FiniteSetTheorems, WellFoundedInduction, TLAPS

Times == Tick..MaxTime

(* last_event_at is the time of an event; the checkpoint is behind it.     *)
RowSeen == /\ conv.last = 0 \/ \E n \in Positions : conv.last = sent[n]
           /\ MarkBehindLast

(* What a run knows of the history it walks.                               *)
Walk(r) ==
    /\ r.mode = "http" => r.cutoff = 0
    /\ r.pc \in {"latest", "page", "conv"} => r.cutoff <= conv.last
    /\ r.pc = "state" => r.mode = "sdk"
    /\ r.pc \in {"room", "event"} => r.mode = "http" /\ r.todo # {}
    /\ r.pc \in {"load", "sync", "save", "file", "room", "event", "state", "latest"} => r.got = {}
    /\ r.pc = "page" =>
          /\ r.at \in 1..r.top /\ r.top <= Len(sent)
          /\ r.got = ((r.at + 1)..r.top) \ Silent
          /\ \A n \in (r.at + 1)..r.top : sent[n] > r.cutoff
    /\ r.pc = "conv" =>
          /\ r.top <= Len(sent)
          /\ r.got # {} /\ r.got \subseteq 1..r.top
          /\ \/ r.mode = "http" /\ torn
             \/ (Late => r.cutoff = 0)
                   => r.got = {n \in 1..r.top \ Silent : sent[n] > r.cutoff}

Basic == /\ TypeOK
         /\ RowSeen
         /\ \A p \in Runs : Walk(run[p])

(* Event n is in the conversation, or a run will see to it.                *)
Held(n) == n \in attached \/ \E q \in Runs : Pending(q, n)

Covered(c) == \A n \in Wanted : sent[n] <= c => Held(n)

Walking(p) == run[p].pc \in {"latest", "page", "conv"}

(* A cutoff was a cut once: what was covered then is covered still.        *)
CutoffsCovered == \A p \in Runs : Walking(p) => Covered(run[p].cutoff)

Coverage == ~torn /\ ~Late => Covered(Cut) /\ CutoffsCovered

IInv == Basic /\ Coverage
-----------------------------------------------------------------------------

(* A finite set of numbers has a largest: of the sets of those above one   *)
(* of them, a smallest one is empty.                                       *)
LEMMA Largest ==
  ASSUME NEW S \in SUBSET Int, IsFiniteSet(S), S # {}
  PROVE  \E t \in S : \A u \in S : u <= t
<1> DEFINE Above(t) == {u \in S : t < u}
           sets == {Above(t) : t \in S}
<1>1. sets \subseteq FiniteSubsetsOf(S) /\ sets # {}
  <2>1. \A t \in S : Above(t) \subseteq S /\ IsFiniteSet(Above(t))
    BY FS_Subset
  <2>2. QED BY <2>1 DEF FiniteSubsetsOf
<1>2. IsWellFoundedOn(StrictSubsetOrdering(S), FiniteSubsetsOf(S))
  BY FS_StrictSubsetOrderingWellFounded
<1>3. PICK A \in sets : \A B \in sets : <<B, A>> \notin StrictSubsetOrdering(S)
  <2> HIDE DEF sets
  <2>1. QED BY <1>1, <1>2, WFMin
<1>4. PICK t \in S : A = Above(t)
  OBVIOUS
<1>5. ASSUME NEW u \in S, t < u
      PROVE  FALSE
  <2>1. Above(u) \in sets /\ Above(u) \subseteq Above(t)
    <3>1. t \in Int /\ u \in Int /\ S \subseteq Int
      OBVIOUS
    <3>2. \A v \in S : u < v => t < v
      BY <1>5, <3>1
    <3>3. QED BY <3>2
  <2>2. u \in Above(t) /\ u \notin Above(u)
    BY <1>5
  <2>3. <<Above(u), A>> \in StrictSubsetOrdering(S)
    BY <1>4, <2>1, <2>2 DEF StrictSubsetOrdering
  <2>4. QED BY <1>3, <2>1, <2>3
<1>6. QED BY <1>5

(* A batch has a latest time, and it is that of one of its events.         *)
LEMMA LatestInBatch ==
  ASSUME sent \in Seq(Times), NEW batch \in SUBSET Positions, batch # {}
  PROVE  /\ \E m \in batch : LatestIn(batch) = sent[m]
         /\ \A n \in batch : sent[n] <= LatestIn(batch)
<1> DEFINE times == {sent[n] : n \in batch}
<1>1. times \subseteq Times /\ times # {}
  <2>1. \A n \in batch : sent[n] \in Times
    BY DEF Positions
  <2>2. QED BY <2>1
<1>2. times \in SUBSET Int /\ IsFiniteSet(times)
  <2> HIDE DEF times
  <2>1. Tick \in Int /\ MaxTime \in Int
    BY HistoryAssumption
  <2>2. IsFiniteSet(Times) /\ Times \subseteq Int
    BY <2>1, FS_Interval DEF Times
  <2>3. QED BY <1>1, <2>2, FS_Subset
<1>3. \E t \in times : \A u \in times : u <= t
  BY <1>1, <1>2, Largest
<1>4. LatestIn(batch) \in times /\ \A u \in times : u <= LatestIn(batch)
  <2> HIDE DEF times
  <2>1. LatestIn(batch) = CHOOSE t \in times : \A u \in times : u <= t
    BY DEF LatestIn, times
  <2>2. QED BY <1>3, <2>1
<1>5. QED BY <1>4

(* Whole seconds are not later, and not zero for a time stamp.             *)
LEMMA WholeSecondsBound ==
  ASSUME NEW t \in Times
  PROVE  WholeSeconds(t) \in Nat /\ 0 < WholeSeconds(t) /\ WholeSeconds(t) <= t
<1>1. t \in Nat /\ t >= Tick /\ Tick \in Nat /\ Tick > 0
  BY HistoryAssumption DEF Times
<1>2. t % Tick \in 0..(Tick - 1)
  BY <1>1
<1>3. QED BY <1>1, <1>2 DEF WholeSeconds

-----------------------------------------------------------------------------
(* Types and what each run knows                                           *)

(* A step of one run leaves the rest of the state's description alone.     *)
LEMMA OneRun ==
  ASSUME Basic, NEW p \in Runs, NEW r,
         run' = [run EXCEPT ![p] = r],
         sent' = sent, token' \in Nat, fileToken' \in Nat,
         conv' \in [mark : Nat, last : Nat], conv.last <= conv'.last, RowSeen',
         attached' \subseteq rows', rows' \subseteq Positions,
         torn' \in BOOLEAN, torn => torn',
         r \in RunStates, Walk(r)'
  PROVE  Basic'
<1>1. TypeOK'
  BY DEF Basic, TypeOK, RunStates, Positions
<1>2. ASSUME NEW q \in Runs
      PROVE  Walk(run[q])'
  <2>1. CASE q = p
    <3>1. run'[q] = r
      BY <2>1 DEF Basic, TypeOK
    <3>2. QED BY <3>1 DEF Walk, Late, Positions
  <2>2. CASE q # p
    <3>1. run'[q] = run[q] /\ run[q] \in RunStates /\ Walk(run[q])
      BY <2>2 DEF Basic, TypeOK
    <3>2. conv.last \in Nat /\ conv'.last \in Nat
      BY DEF Basic, TypeOK
    <3>3. Late' = Late /\ sent' = sent /\ run[q].cutoff \in Nat
      BY <3>1 DEF Late, Positions, RunStates
    <3>4. run[q].pc \in {"latest", "page", "conv"} => run[q].cutoff <= conv'.last
      BY <3>1, <3>2, <3>3 DEF Walk
    <3>5. QED BY <3>1, <3>3, <3>4 DEF Walk
  <2>3. QED BY <2>1, <2>2
<1>3. QED BY <1>1, <1>2 DEF Basic

(* The same when only the run and a token change.                          *)
LEMMA OnlyTokens ==
  ASSUME Basic, NEW p \in Runs, NEW r,
         run' = [run EXCEPT ![p] = r],
         UNCHANGED <<sent, conv, rows, attached>>,
         token' \in Nat, fileToken' \in Nat,
         torn' \in BOOLEAN, torn => torn',
         r \in RunStates, Walk(r)'
  PROVE  Basic'
<1>1. conv \in [mark : Nat, last : Nat] /\ conv'.last = conv.last
  BY DEF Basic, TypeOK
<1>2. RowSeen'
  BY DEF Basic, RowSeen, MarkBehindLast, Positions
<1>3. attached' \subseteq rows' /\ rows' \subseteq Positions
  BY DEF Basic, TypeOK
<1>4. conv.last <= conv'.last /\ conv' \in [mark : Nat, last : Nat]
  BY <1>1
<1>5. QED BY <1>2, <1>3, <1>4, OneRun

(* The same when only the run changes.                                     *)
LEMMA OnlyRun ==
  ASSUME Basic, NEW p \in Runs, NEW r,
         run' = [run EXCEPT ![p] = r],
         UNCHANGED <<sent, token, fileToken, conv, rows, attached>>,
         torn' \in BOOLEAN, torn => torn',
         r \in RunStates, Walk(r)'
  PROVE  Basic'
<1>1. token' \in Nat /\ fileToken' \in Nat
  BY DEF Basic, TypeOK
<1>2. QED BY <1>1, OnlyTokens

LEMMA InitBasic == Init => Basic
<1> SUFFICES ASSUME Init PROVE Basic
  OBVIOUS
<1>1. NoRun \in RunStates /\ Walk(NoRun)
  <2>1. NoRun \in RunStates
    BY DEF NoRun, RunStates, Modes
  <2>2. Walk(NoRun)
    BY DEF NoRun, Walk
  <2>3. QED BY <2>1, <2>2
<1>2. TypeOK
  <2>1. sent \in Seq(Tick..MaxTime) /\ rows \subseteq Positions /\ attached \subseteq rows
    BY DEF Init
  <2>2. run \in [Runs -> RunStates]
    BY <1>1 DEF Init
  <2>3. QED BY <2>1, <2>2 DEF Init, TypeOK
<1>3. RowSeen
  BY DEF Init, RowSeen, MarkBehindLast
<1>4. QED BY <1>1, <1>2, <1>3 DEF Basic, Init

LEMMA SendBasic ==
  ASSUME Basic, NEW t \in Times, Send(t)
  PROVE  Basic'
<1>1. /\ sent \in Seq(Times) /\ sent' \in Seq(Times)
      /\ Len(sent') = Len(sent) + 1 /\ Len(sent) \in Nat
      /\ \A n \in Positions : n \in Positions' /\ sent'[n] = sent[n]
  BY DEF Basic, TypeOK, Send, Positions, Times
<1>2. TypeOK'
  <2>1. Positions \subseteq Positions'
    BY <1>1
  <2>2. RunStates \subseteq RunStates'
    BY <2>1 DEF RunStates
  <2>3. QED BY <1>1, <2>1, <2>2 DEF Basic, TypeOK, Send, marks, database, Times
<1>3. RowSeen'
  BY <1>1 DEF Basic, RowSeen, MarkBehindLast, Send, database
<1>4. Late => Late'
  BY <1>1 DEF Late
<1>5. ASSUME NEW q \in Runs
      PROVE  Walk(run[q])'
  <2>1. run' = run /\ conv' = conv /\ torn' = torn
    BY DEF Send, database
  <2>2. Walk(run[q]) /\ run[q] \in RunStates
    BY DEF Basic, TypeOK
  <2>3. \A n \in 1..run[q].top : run[q].top <= Len(sent) => n \in Positions
    BY <2>2, <1>1 DEF RunStates, Positions
  <2>4. QED BY <1>1, <1>4, <2>1, <2>2, <2>3 DEF Walk, RunStates
<1>6. QED BY <1>2, <1>3, <1>5 DEF Basic

LEMMA RunKnown ==
  ASSUME Basic, NEW p \in Runs
  PROVE  run[p] \in RunStates /\ Walk(run[p])
BY DEF Basic, TypeOK

LEMMA EndedState ==
  /\ NoRun \in RunStates /\ Walk(NoRun)' /\ NoRun.pc = "idle"
  /\ \A c \in BOOLEAN : LET e == [Ended EXCEPT !.clean = c]
                        IN  e \in RunStates /\ Walk(e)' /\ e.pc = "done"
  /\ Ended \in RunStates /\ Walk(Ended)' /\ Ended.pc = "done"
<1>1. NoRun \in RunStates /\ Ended \in RunStates
  BY DEF Ended, NoRun, RunStates, Modes
<1>2. Walk(NoRun)' /\ Walk(Ended)'
  BY DEF Ended, NoRun, Walk
<1>3. ASSUME NEW c \in BOOLEAN
      PROVE  LET e == [Ended EXCEPT !.clean = c]
             IN  e \in RunStates /\ Walk(e)' /\ e.pc = "done"
  <2> DEFINE e == [Ended EXCEPT !.clean = c]
  <2>1. e \in RunStates
    BY <1>1 DEF RunStates
  <2>2. e.pc = "done" /\ e.mode = "sdk"
    BY DEF Ended, NoRun
  <2>3. Walk(e)'
    BY <2>2 DEF Walk
  <2>4. QED BY <2>1, <2>2, <2>3
<1>4. QED BY <1>1, <1>2, <1>3 DEF Ended, NoRun

(* The way to the token. *)
LEMMA TokenBasic ==
  ASSUME Basic, NEW p \in Runs,
         \/ \E mode \in Modes : Start(p, mode)
         \/ LoadCheckpoint(p) \/ Sync(p) \/ SaveCheckpoint(p) \/ SaveSession(p)
  PROVE  Basic'
<1> PICK s : s = run[p]
  OBVIOUS
<1>0. /\ s \in RunStates /\ Walk(s) /\ torn \in BOOLEAN
      /\ token \in Nat /\ fileToken \in Nat /\ sent \in Seq(Times)
  BY RunKnown DEF Basic, TypeOK, Times
<1>1. CASE \E mode \in Modes : Start(p, mode)
  <2> PICK mode \in Modes : Start(p, mode)
    BY <1>1
  <2> PICK r : r = [NoRun EXCEPT !.mode = mode, !.pc = "load", !.tries = {fileToken}]
    OBVIOUS
  <2>1. r \in RunStates
    BY <1>0, EndedState DEF RunStates, Modes
  <2>2. r.pc = "load" /\ r.cutoff = 0 /\ r.got = {}
    BY DEF NoRun
  <2>3. Walk(r)'
    BY <2>2 DEF Walk
  <2>4. run' = [run EXCEPT ![p] = r] /\ torn' = torn
    BY DEF Start
  <2>5. UNCHANGED <<sent, token, fileToken, conv, rows, attached>>
    BY DEF Start, marks, database
  <2>6. torn' \in BOOLEAN /\ (torn => torn')
    BY <2>4, <1>0
  <2>7. QED BY <2>1, <2>3, <2>4, <2>5, <2>6, OnlyRun
<1>2. CASE LoadCheckpoint(p)
  <2> PICK r : r = [s EXCEPT !.pc = "sync", !.tries = s.tries \cup {token, 0}]
    OBVIOUS
  <2>1. r \in RunStates
    <3>1. s.tries \cup {token, 0} \in SUBSET Nat
      BY <1>0 DEF RunStates
    <3>2. QED BY <1>0, <3>1 DEF RunStates
  <2>2. r.pc = "sync" /\ r.cutoff = s.cutoff /\ r.mode = s.mode /\ r.got = s.got
    BY <1>0 DEF RunStates
  <2>3. Walk(r)'
    BY <1>0, <1>2, <2>2 DEF Walk, LoadCheckpoint, At
  <2>4. run' = [run EXCEPT ![p] = r] /\ torn' = torn
    BY <1>2, <1>0 DEF LoadCheckpoint, RunStates, Basic, TypeOK
  <2>5. UNCHANGED <<sent, token, fileToken, conv, rows, attached>>
    BY <1>2 DEF LoadCheckpoint, marks, database
  <2>6. torn' \in BOOLEAN /\ (torn => torn')
    BY <2>4, <1>0
  <2>7. QED BY <2>1, <2>3, <2>4, <2>5, <2>6, OnlyRun
<1>3. CASE Sync(p)
  <2> PICK since \in s.tries :
         run' = [run EXCEPT ![p] = [s EXCEPT
                    !.pc = "save",
                    !.tries = {},
                    !.batch = Len(sent),
                    !.joined = s.mode = "sdk" \/ since = 0 \/ since < Len(sent),
                    !.todo = IF s.mode = "sdk" THEN {}
                             ELSE {n \in Wanted : n > since /\ n > Len(sent) - SyncLimit}]]
    BY <1>3 DEF Sync
  <2> DEFINE joined == s.mode = "sdk" \/ since = 0 \/ since < Len(sent)
             todo == IF s.mode = "sdk" THEN {}
                     ELSE {n \in Wanted : n > since /\ n > Len(sent) - SyncLimit}
  <2> PICK r : r = [s EXCEPT !.pc = "save", !.tries = {}, !.batch = Len(sent),
                             !.joined = joined, !.todo = todo]
    OBVIOUS
  <2>1. r \in RunStates
    <3>1. joined \in BOOLEAN /\ todo \in SUBSET Positions /\ Len(sent) \in Nat
      BY <1>0 DEF Wanted
    <3> HIDE DEF joined, todo
    <3>2. QED BY <1>0, <3>1 DEF RunStates
  <2>2. r.pc = "save" /\ r.cutoff = s.cutoff /\ r.mode = s.mode /\ r.got = s.got
    <3> HIDE DEF joined, todo
    <3>1. QED BY <1>0 DEF RunStates
  <2> HIDE DEF joined, todo
  <2>3. Walk(r)'
    BY <1>0, <1>3, <2>2 DEF Walk, Sync, At
  <2>4. run' = [run EXCEPT ![p] = r] /\ torn' = torn
    BY <1>3 DEF Sync, joined, todo
  <2>5. UNCHANGED <<sent, token, fileToken, conv, rows, attached>>
    BY <1>3 DEF Sync, marks, database
  <2>6. torn' \in BOOLEAN /\ (torn => torn')
    BY <2>4, <1>0
  <2>7. QED BY <2>1, <2>3, <2>4, <2>5, <2>6, OnlyRun
<1>4. CASE SaveCheckpoint(p)
  <2> PICK r : r = [s EXCEPT !.pc = "file"]
    OBVIOUS
  <2>1. r \in RunStates /\ s.batch \in Nat
    BY <1>0 DEF RunStates
  <2>2. r.pc = "file" /\ r.cutoff = s.cutoff /\ r.mode = s.mode /\ r.got = s.got
    BY <1>0 DEF RunStates
  <2>3. Walk(r)'
    BY <1>0, <1>4, <2>2 DEF Walk, SaveCheckpoint, At
  <2>4. run' = [run EXCEPT ![p] = r] /\ torn' = torn
    BY <1>4, <1>0 DEF SaveCheckpoint, RunStates, Basic, TypeOK
  <2>5. /\ UNCHANGED <<sent, conv, rows, attached>>
        /\ token' \in Nat /\ fileToken' \in Nat
    BY <1>4, <1>0, <2>1 DEF SaveCheckpoint, database
  <2>6. torn' \in BOOLEAN /\ (torn => torn')
    BY <2>4, <1>0
  <2>7. QED BY <2>1, <2>3, <2>4, <2>5, <2>6, OnlyTokens
<1>5. CASE SaveSession(p)
  <2> PICK r : r = run'[p]
    OBVIOUS
  <2>1. run' = [run EXCEPT ![p] = r]
    BY <1>5 DEF SaveSession, Basic, TypeOK
  <2>2. \/ r = [s EXCEPT !.pc = "state", !.joined = FALSE, !.batch = 0] /\ s.mode = "sdk"
        \/ r = [s EXCEPT !.pc = "room", !.joined = FALSE] /\ s.todo # {} /\ s.mode # "sdk"
        \/ r = [s EXCEPT !.pc = "latest", !.joined = FALSE] /\ s.mode # "sdk"
        \/ r = Ended
    BY <1>5 DEF SaveSession, Basic, TypeOK
  <2>3. s.pc = "file" /\ s.batch \in Nat /\ fileToken' = s.batch
    BY <1>5, <1>0 DEF SaveSession, At, RunStates
  <2>4. r \in RunStates
    <3>1. /\ [s EXCEPT !.pc = "state", !.joined = FALSE, !.batch = 0] \in RunStates
          /\ [s EXCEPT !.pc = "room", !.joined = FALSE] \in RunStates
          /\ [s EXCEPT !.pc = "latest", !.joined = FALSE] \in RunStates
      BY <1>0 DEF RunStates
    <3>2. QED BY <2>2, <3>1, EndedState
  <2>5. Walk(r)'
    <3>1. conv' = conv /\ conv.last \in Nat
      BY <1>5 DEF SaveSession, database, Basic, TypeOK
    <3>2. s.got = {} /\ (s.mode = "http" => s.cutoff = 0) /\ (s.mode # "sdk" => s.mode = "http")
      BY <1>0, <2>3 DEF Walk, RunStates, Modes
    <3>3. CASE r = Ended
      BY <3>3, EndedState
    <3>4. CASE r # Ended
      <4>1. /\ r.mode = s.mode /\ r.got = s.got /\ r.cutoff = s.cutoff /\ r.todo = s.todo
            /\ r.pc \in {"state", "room", "latest"}
            /\ r.pc = "state" <=> r.mode = "sdk"
            /\ r.pc = "room" => r.todo # {}
        BY <2>2, <3>4, <1>0 DEF RunStates
      <4>2. r.pc # "state" => r.mode = "http"
        BY <4>1, <3>2
      <4>3. QED BY <4>1, <4>2, <3>1, <3>2 DEF Walk
    <3>5. QED BY <3>3, <3>4
  <2>6. /\ UNCHANGED <<sent, conv, rows, attached>>
        /\ token' \in Nat /\ fileToken' \in Nat
        /\ torn' \in BOOLEAN /\ (torn => torn')
    BY <1>5, <1>0, <2>3 DEF SaveSession, database
  <2>7. QED BY <2>1, <2>4, <2>5, <2>6, OnlyTokens
<1>6. QED BY <1>1, <1>2, <1>3, <1>4, <1>5

(* The events of a run that has some have time stamps.                     *)
LEMMA Stamped ==
  ASSUME Basic, NEW n \in Positions
  PROVE  sent[n] \in Times /\ sent[n] \in Nat /\ 0 < sent[n]
<1>1. sent[n] \in Times
  <2>1. sent \in Seq(Times)
    BY DEF Basic, TypeOK, Times
  <2>2. QED BY <2>1 DEF Positions
<1>2. QED BY <1>1, HistoryAssumption DEF Times

(* The first of the events a recovery found in the sync response.          *)
LEMMA NextKnown ==
  ASSUME Basic, NEW p \in Runs, run[p].todo # {}
  PROVE  NextInTimeline(p) \in run[p].todo /\ NextInTimeline(p) \in Positions
<1>1. run[p].todo \in SUBSET Positions
  BY RunKnown DEF RunStates
<1>2. run[p].todo \in SUBSET Int /\ IsFiniteSet(run[p].todo)
  <2>1. Len(sent) \in Nat
    BY DEF Basic, TypeOK
  <2>2. IsFiniteSet(Positions) /\ Positions \subseteq Int
    BY <2>1, FS_Interval DEF Positions
  <2>3. QED BY <1>1, <2>2, FS_Subset
<1>3. PICK m \in run[p].todo : \A n \in run[p].todo : m <= n
  <2> DEFINE mirror == {-n : n \in run[p].todo}
  <2>1. mirror \in SUBSET Int /\ mirror # {}
    BY <1>2
  <2>2. IsFiniteSet(mirror)
    <3>1. Len(sent) \in Nat /\ \A n \in run[p].todo : n \in 1..Len(sent)
      BY <1>1 DEF Positions, Basic, TypeOK
    <3>2. PICK low \in Int : low = -Len(sent)
      BY <3>1
    <3>3. mirror \subseteq low..0
      BY <3>1, <3>2
    <3>4. IsFiniteSet(low..0)
      BY FS_Interval
    <3> HIDE DEF mirror
    <3>5. QED BY <3>3, <3>4, FS_Subset
  <2>3. PICK t \in mirror : \A u \in mirror : u <= t
    <3> HIDE DEF mirror
    <3>1. QED BY <2>1, <2>2, Largest
  <2>4. PICK m \in run[p].todo : t = -m
    OBVIOUS
  <2>5. \A n \in run[p].todo : m <= n
    BY <1>2, <2>3, <2>4
  <2>6. QED BY <2>5
<1>4. QED BY <1>1, <1>3 DEF NextInTimeline

(* The timeline of a recovery. *)
LEMMA TimelineBasic ==
  ASSUME Basic, NEW p \in Runs, TimelineRoom(p) \/ TimelineEvent(p)
  PROVE  Basic'
<1> PICK s : s = run[p]
  OBVIOUS
<1>0. /\ s \in RunStates /\ Walk(s) /\ torn \in BOOLEAN
      /\ token \in Nat /\ fileToken \in Nat
      /\ conv \in [mark : Nat, last : Nat] /\ conv.mark <= conv.last
      /\ attached \subseteq rows /\ rows \subseteq Positions
  BY RunKnown DEF Basic, TypeOK, RowSeen, MarkBehindLast
<1>1. s.pc \in {"room", "event"} /\ s.mode = "http" /\ s.todo # {} /\ s.cutoff = 0 /\ s.got = {}
  BY <1>0 DEF Walk, TimelineRoom, TimelineEvent, At
<1> PICK m : m = NextInTimeline(p)
  OBVIOUS
<1>2. m \in Positions /\ sent[m] \in Nat /\ m \in s.todo
  BY <1>1, NextKnown, Stamped
<1>3. CASE TimelineRoom(p)
  <2> PICK r : r = [s EXCEPT !.pc = "event"]
    OBVIOUS
  <2>1. r \in RunStates
    BY <1>0 DEF RunStates
  <2>2. r.pc = "event" /\ r.mode = "http" /\ r.cutoff = 0 /\ r.got = {} /\ r.todo = s.todo
    BY <1>0, <1>1 DEF RunStates
  <2>3. Walk(r)'
    BY <1>1, <2>2 DEF Walk
  <2>4. \/ conv' = [conv EXCEPT !.last = Later(conv.last, sent[m])]
        \/ conv' = conv
    BY <1>3 DEF TimelineRoom
  <2>5. conv' \in [mark : Nat, last : Nat] /\ conv.last <= conv'.last /\ RowSeen'
    <3>1. \/ conv'.last = conv.last
          \/ conv'.last = sent[m] /\ conv.last <= sent[m]
      BY <2>4, <1>0, <1>2 DEF Later
    <3>2. conv'.mark = conv.mark /\ conv' \in [mark : Nat, last : Nat]
      BY <2>4, <1>0, <1>2 DEF Later
    <3>3. sent' = sent
      BY <1>3 DEF TimelineRoom
    <3>4. QED BY <3>1, <3>2, <3>3, <1>0, <1>2 DEF RowSeen, MarkBehindLast, Positions, Basic
  <2>6. /\ run' = [run EXCEPT ![p] = r] /\ sent' = sent /\ token' \in Nat /\ fileToken' \in Nat
        /\ torn' = torn /\ attached' \subseteq rows' /\ rows' \subseteq Positions
    BY <1>3, <1>0 DEF TimelineRoom, marks, Basic, TypeOK
  <2>7. torn' \in BOOLEAN /\ (torn => torn')
    BY <2>6, <1>0
  <2>8. QED BY <2>1, <2>3, <2>5, <2>6, <2>7, OneRun
<1>4. CASE TimelineEvent(p)
  <2> PICK r : r = [s EXCEPT !.todo = s.todo \ {m},
                             !.pc = IF s.todo = {m} THEN "latest" ELSE "room"]
    OBVIOUS
  <2>1. r \in RunStates
    BY <1>0 DEF RunStates
  <2>2. /\ r.mode = "http" /\ r.cutoff = 0 /\ r.got = {} /\ r.todo = s.todo \ {m}
        /\ r.pc = IF s.todo = {m} THEN "latest" ELSE "room"
    BY <1>0, <1>1 DEF RunStates
  <2>3. Walk(r)'
    <3>1. r.pc = "room" => r.todo # {}
      BY <2>2, <1>2
    <3>2. conv' = conv /\ 0 <= conv'.last
      BY <1>4, <1>0 DEF TimelineEvent
    <3>3. QED BY <3>1, <3>2, <2>2 DEF Walk
  <2>4. conv' = conv /\ RowSeen' /\ sent' = sent
    BY <1>4 DEF TimelineEvent, RowSeen, MarkBehindLast, Basic, Positions
  <2>5. run' = [run EXCEPT ![p] = r] /\ token' \in Nat /\ fileToken' \in Nat /\ torn' = torn
    BY <1>4, <1>0 DEF TimelineEvent, marks, Basic, TypeOK
  <2>6. attached' \subseteq rows' /\ rows' \subseteq Positions
    BY <1>4, <1>0, <1>2 DEF TimelineEvent, Store
  <2>7. torn' \in BOOLEAN /\ (torn => torn')
    BY <2>5, <1>0
  <2>8. conv' \in [mark : Nat, last : Nat] /\ conv.last <= conv'.last
    BY <2>4, <1>0
  <2>9. QED BY <2>1, <2>3, <2>4, <2>5, <2>6, <2>7, <2>8, OneRun
<1>5. QED BY <1>3, <1>4

(* The walk through the history. *)
LEMMA ReadStateBasic ==
  ASSUME Basic, NEW p \in Runs, ReadState(p)
  PROVE  Basic'
<1> PICK s : s = run[p]
  OBVIOUS
<1>0. /\ s \in RunStates /\ Walk(s) /\ torn \in BOOLEAN
      /\ conv \in [mark : Nat, last : Nat] /\ conv.mark <= conv.last
  BY RunKnown DEF Basic, TypeOK, RowSeen, MarkBehindLast
<1>1. PICK c \in {Cut} \cup {d \in {0} : attached # {}} :
         run' = [run EXCEPT ![p].pc = "latest", ![p].cutoff = c]
  BY DEF ReadState
<1>2. c \in Nat /\ c <= conv.last
  BY <1>0 DEF Cut
<1> PICK r : r = [s EXCEPT !.pc = "latest", !.cutoff = c]
  OBVIOUS
<1>3. r \in RunStates
  BY <1>0, <1>2 DEF RunStates
<1>4. s.pc = "state" /\ s.mode = "sdk" /\ s.got = {}
  BY <1>0 DEF Walk, ReadState, At
<1>5. r.pc = "latest" /\ r.mode = "sdk" /\ r.cutoff = c /\ r.got = {}
  BY <1>0, <1>4 DEF RunStates
<1>6. Walk(r)'
  BY <1>2, <1>5 DEF Walk, ReadState, database
<1>7. /\ run' = [run EXCEPT ![p] = r]
      /\ UNCHANGED <<sent, token, fileToken, conv, rows, attached>>
      /\ torn' \in BOOLEAN /\ (torn => torn')
  BY <1>0, <1>1 DEF ReadState, marks, database, Basic, TypeOK
<1>8. QED BY <1>3, <1>6, <1>7, OnlyRun

LEMMA WalkState ==
  ASSUME NEW s \in RunStates, NEW pc \in {"page", "conv"},
         NEW top \in Nat, NEW at \in Nat, NEW got \in SUBSET Positions
  PROVE  [s EXCEPT !.pc = pc, !.top = top, !.at = at, !.got = got] \in RunStates
BY DEF RunStates

(* A page continues the walk, and the last page ends it: it is complete    *)
(* unless an event came late and the walk had a cutoff.                    *)
LEMMA FetchPageBasic ==
  ASSUME Basic, NEW p \in Runs, FetchPage(p)
  PROVE  Basic'
<1> PICK s : s = run[p]
  OBVIOUS
<1>0. /\ s \in RunStates /\ Walk(s) /\ torn \in BOOLEAN
      /\ conv \in [mark : Nat, last : Nat] /\ Len(sent) \in Nat
      /\ s.pc \in {"latest", "page"} /\ PageSize \in Nat /\ 0 < PageSize
      /\ s.cutoff \in Nat
  BY RunKnown, HistoryAssumption DEF Basic, TypeOK, FetchPage, RunStates
<1>a. \A n \in Positions : sent[n] \in Nat /\ 0 < sent[n]
  BY Stamped
<1> PICK from : from = IF s.pc = "latest" THEN Len(sent) ELSE s.at
  OBVIOUS
<1> PICK top : top = IF s.pc = "latest" THEN from ELSE s.top
  OBVIOUS
<1> PICK page : page = {n \in 1..from : n > from - PageSize}
  OBVIOUS
<1> PICK got : got = s.got \cup {n \in page \ Silent : sent[n] > s.cutoff}
  OBVIOUS
<1> PICK ended \in BOOLEAN : ended <=> (from <= PageSize \/ \E n \in page : sent[n] <= s.cutoff)
  OBVIOUS
<1>1. /\ from \in Nat /\ top \in Nat /\ from <= top /\ top <= Len(sent)
      /\ s.got = ((from + 1)..top) \ Silent
      /\ \A n \in (from + 1)..top : sent[n] > s.cutoff
  BY <1>0 DEF Walk, RunStates
<1>2. page \subseteq 1..from /\ got \subseteq 1..top /\ 1..top \subseteq Positions
  BY <1>0, <1>1 DEF Positions
<1> PICK next : next = from - PageSize
  OBVIOUS
<1>b. next \in Int
  BY <1>0, <1>1
<1>c. ~ended => ~(from <= PageSize) /\ \A n \in page : ~(sent[n] <= s.cutoff)
  OBVIOUS
<1>3. ~ended => /\ next \in 1..top
                /\ got = ((next + 1)..top) \ Silent
                /\ \A n \in (next + 1)..top : sent[n] > s.cutoff
  <2> SUFFICES ASSUME ~ended
               PROVE  /\ next \in 1..top
                      /\ got = ((next + 1)..top) \ Silent
                      /\ \A n \in (next + 1)..top : sent[n] > s.cutoff
    OBVIOUS
  <2>1. next \in 1..top /\ next < from
    BY <1>0, <1>1, <1>c
  <2>2. ASSUME NEW n
        PROVE  n \in page <=> n \in (next + 1)..from
    <3>1. n \in page <=> n \in 1..from /\ n > next
      OBVIOUS
    <3>2. QED BY <3>1, <1>1, <2>1
  <2>3. \A n \in page : sent[n] > s.cutoff
    <3> TAKE n \in page
    <3>1. n \in Positions /\ ~(sent[n] <= s.cutoff)
      <4>1. n \in 1..top
        BY <1>1, <1>2
      <4>2. QED BY <4>1, <1>2, <1>c
    <3>2. sent[n] \in Nat
      BY <3>1, <1>a
    <3>3. QED BY <3>1, <3>2, <1>0
  <2>4. \A n \in (next + 1)..top : n \in page \/ n \in (from + 1)..top
    <3> TAKE n \in (next + 1)..top
    <3>1. n \in (next + 1)..from \/ n \in (from + 1)..top
      BY <1>1, <2>1
    <3>2. QED BY <3>1, <2>2
  <2>5. \A n \in (next + 1)..top : sent[n] > s.cutoff
    BY <1>1, <2>3, <2>4
  <2>6. got = ((next + 1)..top) \ Silent
    <3>1. got \subseteq ((next + 1)..top) \ Silent
      <4>1. (from + 1)..top \subseteq (next + 1)..top /\ (next + 1)..from \subseteq (next + 1)..top
        BY <1>1, <2>1
      <4>2. QED BY <1>1, <2>2, <4>1
    <3>2. ((next + 1)..top) \ Silent \subseteq got
      BY <1>1, <2>3, <2>4
    <3>3. QED BY <3>1, <3>2
  <2>7. QED BY <2>1, <2>5, <2>6
<1>4. ended /\ (Late => s.cutoff = 0) => got = {n \in 1..top \ Silent : sent[n] > s.cutoff}
  <2> SUFFICES ASSUME ended, Late => s.cutoff = 0,
                      NEW n \in 1..top, n \notin Silent, sent[n] > s.cutoff, n \notin got
               PROVE  FALSE
    <3>1. \A n \in got : n \in 1..top /\ n \notin Silent /\ sent[n] > s.cutoff
      <4>1. \A n \in s.got : n \notin Silent /\ sent[n] > s.cutoff
        BY <1>1
      <4>2. QED BY <1>2, <4>1
    <3>2. QED BY <3>1
  <2>1. n \in Positions /\ n \in Nat /\ 1 <= n /\ n <= top
    BY <1>1, <1>2
  <2>2. n <= from
    BY <1>1, <2>1
  <2>3. n <= next
    BY <2>1, <2>2, <1>1, <1>b
  <2>4. ~(from <= PageSize)
    BY <1>0, <1>1, <2>1, <2>3
  <2>5. PICK m \in page : sent[m] <= s.cutoff
    BY <2>4
  <2>6. m \in Positions /\ m \in Nat /\ next < m
    BY <1>1, <1>2, <2>5
  <2>7. sent[m] \in Nat /\ 0 < sent[m] /\ sent[n] \in Nat
    BY <1>a, <2>1, <2>6
  <2>8. ~Late
    BY <1>0, <2>5, <2>7
  <2>9. n < m
    BY <1>b, <2>1, <2>3, <2>6
  <2>10. ~(sent[m] <= sent[n])
    BY <2>1, <2>6, <2>8, <2>9 DEF Late
  <2>11. QED BY <1>0, <2>5, <2>7, <2>10
<1>5. /\ s.cutoff <= conv.last
      /\ s.mode = "http" => s.cutoff = 0
  BY <1>0 DEF Walk
<1>6. PICK r : r = IF ended /\ got = {} THEN Ended
                   ELSE [s EXCEPT !.pc = IF ended THEN "conv" ELSE "page",
                                  !.top = top,
                                  !.at = IF ended THEN 0 ELSE next,
                                  !.got = got]
  OBVIOUS
<1>7. r \in RunStates /\ Walk(r)'
  <2>1. CASE ended /\ got = {}
    BY <2>1, <1>6, EndedState
  <2>2. CASE ~(ended /\ got = {})
    <3> PICK pc : pc = IF ended THEN "conv" ELSE "page"
      OBVIOUS
    <3> PICK at : at = IF ended THEN 0 ELSE next
      OBVIOUS
    <3>0. r = [s EXCEPT !.pc = pc, !.top = top, !.at = at, !.got = got]
      BY <1>6, <2>2
    <3>1. /\ r.pc = pc /\ r.top = top /\ r.at = at /\ r.got = got
          /\ r.cutoff = s.cutoff /\ r.mode = s.mode
      BY <3>0, <1>0 DEF RunStates
    <3>2. r \in RunStates
      <4>1. at \in Nat
        BY <1>3, <1>1
      <4>2. got \in SUBSET Positions
        BY <1>2
      <4>3. pc \in {"page", "conv"}
        OBVIOUS
      <4>4. s \in RunStates /\ top \in Nat
        BY <1>0, <1>1
      <4>5. [s EXCEPT !.pc = pc, !.top = top, !.at = at, !.got = got] \in RunStates
        BY <4>1, <4>2, <4>3, <4>4, WalkState, ZenonT(30)
      <4>6. QED BY <4>5, <3>0
    <3>3. sent' = sent /\ conv' = conv /\ torn' = torn /\ Late' = Late
      BY DEF FetchPage, database, Late, Positions
    <3>4. CASE ended
      <4>1. r.pc = "conv" /\ got # {}
        BY <3>1, <3>4, <2>2
      <4>2. (Late' => r.cutoff = 0) => got = {n \in 1..top \ Silent : sent'[n] > r.cutoff}
        BY <1>4, <3>1, <3>3, <3>4
      <4>3. Walk(r)'
        BY <1>1, <1>2, <1>5, <4>1, <4>2, <3>1, <3>3 DEF Walk
      <4>4. QED BY <3>2, <4>3
    <3>5. CASE ~ended
      <4>1. r.pc = "page" /\ r.at = next
        BY <3>1, <3>5
      <4>2. /\ r.at \in 1..r.top /\ r.got = ((r.at + 1)..r.top) \ Silent
            /\ \A n \in (r.at + 1)..r.top : sent'[n] > r.cutoff
        BY <1>3, <3>1, <3>3, <3>5, <4>1
      <4>3. Walk(r)'
        BY <1>1, <1>5, <4>1, <4>2, <3>1, <3>3 DEF Walk
      <4>4. QED BY <3>2, <4>3
    <3>6. QED BY <3>4, <3>5
  <2>3. QED BY <2>1, <2>2
<1>8. run' = [run EXCEPT ![p] = r]
  BY <1>6 DEF FetchPage, LastPage
<1>9. /\ UNCHANGED <<sent, token, fileToken, conv, rows, attached>>
      /\ torn' \in BOOLEAN /\ (torn => torn')
  BY <1>0 DEF FetchPage, marks, database
<1>10. QED BY <1>7, <1>8, <1>9, OnlyRun

LEMMA FetchFailsBasic ==
  ASSUME Basic, NEW p \in Runs, FetchFails(p)
  PROVE  Basic'
<1> PICK s : s = run[p]
  OBVIOUS
<1>0. s \in RunStates /\ Walk(s) /\ torn \in BOOLEAN
  BY RunKnown DEF Basic, TypeOK
<1>1. /\ UNCHANGED <<sent, token, fileToken, conv, rows, attached>>
      /\ torn' \in BOOLEAN /\ (torn => torn') /\ (s.mode = "http" => torn')
  BY <1>0 DEF FetchFails, marks, database
<1>2. CASE run' = [run EXCEPT ![p] = [Ended EXCEPT !.clean = FALSE]]
  <2> PICK r : r = [Ended EXCEPT !.clean = FALSE]
    OBVIOUS
  <2>1. r \in RunStates /\ Walk(r)'
    BY EndedState
  <2>2. run' = [run EXCEPT ![p] = r]
    BY <1>2
  <2>3. QED BY <1>1, <2>1, <2>2, OnlyRun
<1>3. CASE /\ s.mode = "http" /\ s.got # {}
           /\ run' = [run EXCEPT ![p].pc = "conv", ![p].at = 0, ![p].clean = FALSE]
  <2> PICK r : r = [s EXCEPT !.pc = "conv", !.at = 0, !.clean = FALSE]
    OBVIOUS
  <2>1. r \in RunStates
    BY <1>0 DEF RunStates
  <2>2. /\ r.pc = "conv" /\ r.mode = "http" /\ r.got = s.got /\ r.top = s.top
        /\ r.cutoff = s.cutoff
    BY <1>0, <1>3 DEF RunStates
  <2>3. /\ s.cutoff = 0 /\ s.cutoff <= conv.last /\ s.top <= Len(sent)
        /\ s.got \subseteq 1..s.top
    <3>1. s.pc = "page"
      BY <1>0, <1>3 DEF Walk, FetchFails
    <3>2. /\ s.at \in 1..s.top /\ s.top \in Nat
          /\ s.got = ((s.at + 1)..s.top) \ Silent
      BY <1>0, <3>1 DEF Walk, RunStates
    <3>3. s.got \subseteq 1..s.top
      BY <3>2
    <3>4. QED BY <1>0, <1>3, <3>1, <3>3 DEF Walk
  <2>4. Walk(r)'
    BY <1>1, <1>3, <2>2, <2>3 DEF Walk
  <2>5. run' = [run EXCEPT ![p] = r]
    BY <1>3 DEF Basic, TypeOK
  <2>6. QED BY <1>1, <2>1, <2>4, <2>5, OnlyRun
<1>4. QED BY <1>2, <1>3 DEF FetchFails

(* The conversation's row moves to the time of an event, and the           *)
(* checkpoint stays behind it.                                             *)
LEMMA UpsertConversationBasic ==
  ASSUME Basic, NEW p \in Runs, UpsertConversation(p)
  PROVE  Basic'
<1> PICK s : s = run[p]
  OBVIOUS
<1>0. /\ s \in RunStates /\ Walk(s) /\ torn \in BOOLEAN /\ sent \in Seq(Times)
      /\ token \in Nat /\ fileToken \in Nat
      /\ conv \in [mark : Nat, last : Nat] /\ conv.mark <= conv.last
      /\ attached \subseteq rows /\ rows \subseteq Positions
      /\ s.pc = "conv" /\ s.got \in SUBSET Positions
  BY RunKnown DEF Basic, TypeOK, RowSeen, MarkBehindLast, UpsertConversation, At, RunStates, Times
<1>1. s.got # {}
  BY <1>0 DEF Walk
<1> PICK latest : latest = LatestIn(s.got)
  OBVIOUS
<1>2. PICK m \in s.got : latest = sent[m]
  BY <1>0, <1>1, LatestInBatch
<1>3. m \in Positions /\ latest \in Times /\ latest \in Nat
  BY <1>0, <1>2, Stamped
<1>4. WholeSeconds(latest) \in Nat /\ WholeSeconds(latest) <= latest
  BY <1>3, WholeSecondsBound
<1>5. \/ /\ conv'.mark = WholeSeconds(latest) \/ conv'.mark = conv.mark
         /\ conv'.last = Later(conv.last, latest)
         /\ conv' = [mark |-> conv'.mark, last |-> conv'.last]
      \/ conv' = conv
  BY <1>0 DEF UpsertConversation
<1>6. /\ conv' \in [mark : Nat, last : Nat] /\ conv.last <= conv'.last
      /\ conv'.mark <= conv'.last
      /\ conv'.last = conv.last \/ conv'.last = sent[m]
  <2>1. /\ Later(conv.last, latest) \in Nat
        /\ conv.last <= Later(conv.last, latest) /\ latest <= Later(conv.last, latest)
        /\ Later(conv.last, latest) = conv.last \/ Later(conv.last, latest) = latest
    BY <1>0, <1>3 DEF Later
  <2>2. CASE conv' = conv
    BY <1>0, <2>2
  <2>3. CASE conv' # conv
    <3>1. /\ conv'.mark \in Nat /\ conv'.mark <= Later(conv.last, latest)
          /\ conv'.last = Later(conv.last, latest)
          /\ conv' = [mark |-> conv'.mark, last |-> conv'.last]
      BY <1>0, <1>3, <1>4, <1>5, <2>1, <2>3
    <3>2. QED BY <3>1, <2>1, <1>2
  <2>4. QED BY <2>2, <2>3
<1>7. sent' = sent /\ attached' = attached /\ rows' = rows /\ torn' = torn
      /\ token' = token /\ fileToken' = fileToken
  BY DEF UpsertConversation, marks
<1>8. RowSeen'
  BY <1>3, <1>6, <1>7 DEF RowSeen, MarkBehindLast, Basic, Positions
<1> PICK r : r = [s EXCEPT !.pc = "events", !.cutoff = 0, !.top = 0, !.got = {}, !.todo = s.got]
  OBVIOUS
<1>9. r \in RunStates
  BY <1>0 DEF RunStates
<1>10. Walk(r)'
  <2>1. r.pc = "events" /\ r.cutoff = 0
    BY <1>0 DEF RunStates
  <2>2. QED BY <2>1 DEF Walk
<1>11. run' = [run EXCEPT ![p] = r]
  BY DEF UpsertConversation
<1>12. /\ attached' \subseteq rows' /\ rows' \subseteq Positions
       /\ torn' \in BOOLEAN /\ (torn => torn') /\ token' \in Nat /\ fileToken' \in Nat
  BY <1>0, <1>7
<1>13. QED BY <1>6, <1>7, <1>8, <1>9, <1>10, <1>11, <1>12, OneRun

LEMMA UpsertEventBasic ==
  ASSUME Basic, NEW p \in Runs, UpsertEvent(p)
  PROVE  Basic'
<1> PICK s : s = run[p]
  OBVIOUS
<1>0. /\ s \in RunStates /\ Walk(s) /\ torn \in BOOLEAN
      /\ token \in Nat /\ fileToken \in Nat
      /\ conv \in [mark : Nat, last : Nat]
      /\ attached \subseteq rows /\ rows \subseteq Positions
      /\ s.pc = "events" /\ s.todo \in SUBSET Positions
  BY RunKnown DEF Basic, TypeOK, UpsertEvent, At, RunStates
<1>1. PICK n \in s.todo :
         \/ Store(n) /\ run' = [run EXCEPT ![p].todo = @ \ {n}] /\ UNCHANGED torn
         \/ /\ run' = [run EXCEPT ![p].todo = @ \ {n}, ![p].clean = FALSE]
            /\ torn' = TRUE /\ UNCHANGED <<rows, attached>>
  BY DEF UpsertEvent
<1>2. n \in Positions
  BY <1>0
<1>3. attached' \subseteq rows' /\ rows' \subseteq Positions
  BY <1>0, <1>1, <1>2 DEF Store
<1>4. /\ sent' = sent /\ conv' = conv /\ token' \in Nat /\ fileToken' \in Nat
      /\ torn' \in BOOLEAN /\ (torn => torn')
  BY <1>0, <1>1 DEF UpsertEvent, marks
<1>5. RowSeen' /\ conv' \in [mark : Nat, last : Nat] /\ conv.last <= conv'.last
  BY <1>0, <1>4 DEF RowSeen, MarkBehindLast, Basic, Positions
<1>6. PICK r : /\ run' = [run EXCEPT ![p] = r]
               /\ r = [s EXCEPT !.todo = s.todo \ {n}]
                  \/ r = [s EXCEPT !.todo = s.todo \ {n}, !.clean = FALSE]
  BY <1>1 DEF Basic, TypeOK
<1>7. r \in RunStates
  <2> PICK u : u = [s EXCEPT !.todo = s.todo \ {n}]
    OBVIOUS
  <2>1. u \in RunStates
    <3>1. s.todo \ {n} \in SUBSET Positions /\ s \in RunStates
      BY <1>0
    <3>2. QED BY <3>1 DEF RunStates
  <2>2. r = u \/ r = [u EXCEPT !.clean = FALSE]
    BY <1>6, <1>0 DEF RunStates
  <2>3. QED BY <2>1, <2>2 DEF RunStates
<1>8. Walk(r)'
  <2>1. r.pc = "events" /\ r.cutoff = s.cutoff /\ r.mode = s.mode
    BY <1>0, <1>6 DEF RunStates
  <2>2. QED BY <1>0, <2>1 DEF Walk
<1>9. QED BY <1>3, <1>4, <1>5, <1>6, <1>7, <1>8, OneRun

LEMMA EndBasic ==
  ASSUME Basic, NEW p \in Runs, Finish(p) \/ Abandon(p)
  PROVE  Basic'
<1> PICK r : r = run'[p]
  OBVIOUS
<1>1. /\ run' = [run EXCEPT ![p] = r]
      /\ r = NoRun \/ r = [Ended EXCEPT !.clean = run[p].clean]
  BY DEF Finish, Abandon, Basic, TypeOK
<1>2. run[p].clean \in BOOLEAN
  BY RunKnown DEF RunStates
<1>3. r \in RunStates /\ Walk(r)'
  BY <1>1, <1>2, EndedState
<1>4. /\ UNCHANGED <<sent, token, fileToken, conv, rows, attached>>
      /\ torn' \in BOOLEAN /\ (torn => torn')
  <2>1. torn \in BOOLEAN
    BY DEF Basic, TypeOK
  <2>2. UNCHANGED <<sent, token, fileToken, conv, rows, attached>>
    BY DEF Finish, Abandon, marks, database
  <2>3. CASE Finish(p)
    BY <2>1, <2>2, <2>3 DEF Finish
  <2>4. CASE Abandon(p)
    <3>1. torn' = (torn \/ (Recovering(p) \/ (At(p, "events") /\ run[p].todo # {})))
      BY <2>4 DEF Abandon
    <3>2. torn' = TRUE \/ torn' = FALSE
      BY <3>1, Zenon
    <3>3. torn => torn'
      BY <3>1
    <3>4. QED BY <2>2, <3>2, <3>3
  <2>5. QED BY <2>3, <2>4
<1>5. QED BY <1>1, <1>3, <1>4, OnlyRun

LEMMA StutterBasic == Basic /\ UNCHANGED vars => Basic'
<1> SUFFICES ASSUME Basic, UNCHANGED vars
             PROVE  Basic'
  OBVIOUS
<1>1. UNCHANGED <<sent, token, fileToken, conv, rows, attached, run, torn>>
  BY DEF vars
<1>2. Positions' = Positions /\ Late' = Late
  BY <1>1 DEF Positions, Late
<1>3. TypeOK' /\ RowSeen'
  BY <1>1, <1>2 DEF Basic, TypeOK, RowSeen, MarkBehindLast, RunStates
<1>4. \A p \in Runs : Walk(run[p])'
  BY <1>1, <1>2 DEF Basic, Walk
<1>5. QED BY <1>3, <1>4 DEF Basic

LEMMA NextBasic == Basic /\ [Next]_vars => Basic'
<1> SUFFICES ASSUME Basic, [Next]_vars
             PROVE  Basic'
  OBVIOUS
<1>1. ASSUME NEW t \in Times, Send(t)
      PROVE  Basic'
  BY <1>1, SendBasic
<1>2. ASSUME NEW p \in Runs, NEW mode \in Modes, Start(p, mode)
      PROVE  Basic'
  BY <1>2, TokenBasic
<1>3. ASSUME NEW p \in Runs, Step(p)
      PROVE  Basic'
  BY <1>3, TokenBasic, TimelineBasic, ReadStateBasic, FetchPageBasic, FetchFailsBasic,
     UpsertConversationBasic, UpsertEventBasic, EndBasic DEF Step
<1>4. ASSUME NEW p \in Runs, Abandon(p)
      PROVE  Basic'
  BY <1>4, EndBasic
<1>5. QED BY <1>1, <1>2, <1>3, <1>4, StutterBasic DEF Next, Times

LEMMA BasicHolds == Spec => []Basic
BY InitBasic, NextBasic, PTL DEF Spec

(* Every variable keeps its type: positions in a walk never fall below the *)
(* first event, whatever the size of a page (fetch_room_history).          *)
THEOREM TypeCorrect == Spec => []TypeOK
<1>1. Basic => TypeOK
  BY DEF Basic
<1>2. QED BY <1>1, BasicHolds, PTL

(* The checkpoint never claims more than last_event_at, although both      *)
(* modes and overlapping runs write them.                                  *)
THEOREM MarkNeverAhead == Spec => []MarkBehindLast
<1>1. Basic => MarkBehindLast
  BY DEF Basic, RowSeen
<1>2. QED BY <1>1, BasicHolds, PTL

(* The walk brings exactly the events after its cutoff, whatever the size  *)
(* of a page, unless an event came late and the walk had a cutoff.         *)
THEOREM WalkIsExact == Spec => []WalkExact
<1>1. Basic => WalkExact
  <2> SUFFICES ASSUME Basic, NEW p \in Runs, run[p].pc = "conv", run[p].mode = "sdk",
                      Late => run[p].cutoff = 0
               PROVE  run[p].got = {n \in 1..run[p].top \ Silent : sent[n] > run[p].cutoff}
    BY DEF WalkExact, At
  <2>1. Walk(run[p])
    BY DEF Basic
  <2>2. QED BY <2>1 DEF Walk
<1>2. QED BY <1>1, BasicHolds, PTL

-----------------------------------------------------------------------------
(* What a checkpoint lets the next run skip                                *)

(* A step that changes neither history nor conversation has to keep what   *)
(* is held, and may only take up a cutoff that is the cut.  Without a      *)
(* conversation there is nothing to skip.                                  *)
LEMMA CoverageKept ==
  ASSUME Basic, Basic', Coverage, UNCHANGED <<sent, conv>>, ~torn' => ~torn,
         ~torn' /\ ~Late /\ HasRow => \A n \in Wanted : Held(n) => Held(n)',
         \A q \in Runs : Walking(q)' =>
             run'[q].cutoff \in {0, Cut} \/ (Walking(q) /\ run'[q].cutoff = run[q].cutoff)
  PROVE  Coverage'
<1> SUFFICES ASSUME ~torn', ~Late'
             PROVE  Covered(Cut)' /\ CutoffsCovered'
  BY DEF Coverage
<1>1. /\ Wanted' = Wanted /\ Positions' = Positions /\ sent' = sent /\ Cut' = Cut
      /\ ~Late /\ ~torn
  BY DEF Wanted, Positions, Cut, Late
<1>2. \A n \in Wanted : sent[n] \in Nat /\ 0 < sent[n]
  BY Stamped DEF Wanted
<1>3. /\ conv' = conv /\ conv.last \in Nat /\ conv.mark \in Nat /\ conv.mark <= conv.last
      /\ Cut \in Nat /\ Cut <= conv.last
  BY DEF Basic, TypeOK, RowSeen, MarkBehindLast, Cut
<1>4. ASSUME NEW c \in Nat, c <= conv.last, c = 0 \/ Covered(c)
      PROVE  Covered(c)'
  <2>1. CASE HasRow
    BY <1>1, <1>2, <1>4, <2>1 DEF Covered
  <2>2. CASE ~HasRow
    BY <1>1, <1>2, <1>3, <1>4, <2>2 DEF Covered, HasRow
  <2>3. QED BY <2>1, <2>2
<1>5. Covered(Cut)'
  <2>1. Covered(Cut)
    BY <1>1 DEF Coverage
  <2> PICK c : c = Cut
    OBVIOUS
  <2>2. Covered(c)'
    BY <1>3, <1>4, <2>1
  <2>3. QED BY <1>1, <2>2 DEF Covered
<1>6. ASSUME NEW q \in Runs, Walking(q)'
      PROVE  Covered(run[q].cutoff)'
  <2> PICK c : c = run'[q].cutoff
    OBVIOUS
  <2>1. c \in Nat /\ c <= conv.last
    <3>1. run'[q] \in RunStates' /\ Walk(run[q])'
      BY DEF Basic, TypeOK
    <3>2. QED BY <1>3, <1>6, <3>1 DEF RunStates, Walk, Walking
  <2>2. c = 0 \/ Covered(c)
    BY <1>1, <1>6 DEF Coverage, CutoffsCovered
  <2>3. Covered(c)'
    BY <1>4, <2>1, <2>2
  <2>4. QED BY <2>3 DEF Covered
<1>7. QED BY <1>5, <1>6 DEF CutoffsCovered

(* A step of run p keeps what other runs hold.                             *)
LEMMA HeldKept ==
  ASSUME Basic, NEW p \in Runs, NEW r, run' = [run EXCEPT ![p] = r],
         NEW n, Held(n), attached \subseteq attached',
         Pending(p, n) => n \in attached' \/ Pending(p, n)'
  PROVE  Held(n)'
<1>1. ASSUME NEW q \in Runs, q # p, Pending(q, n)
      PROVE  Pending(q, n)'
  <2>1. run'[q] = run[q]
    BY <1>1 DEF Basic, TypeOK
  <2>2. QED BY <1>1, <2>1 DEF Pending, At, Recovering
<1>2. QED BY <1>1 DEF Held

(* The walks of the other runs go on with their cutoffs.                   *)
LEMMA CutoffsKept ==
  ASSUME Basic, NEW p \in Runs, NEW r, run' = [run EXCEPT ![p] = r],
         r.pc \in {"latest", "page", "conv"} =>
             r.cutoff \in {0, Cut} \/ (Walking(p) /\ r.cutoff = run[p].cutoff)
  PROVE  \A q \in Runs : Walking(q)' =>
             run'[q].cutoff \in {0, Cut} \/ (Walking(q) /\ run'[q].cutoff = run[q].cutoff)
<1> TAKE q \in Runs
<1>1. run'[q] = IF q = p THEN r ELSE run[q]
  BY DEF Basic, TypeOK
<1>2. QED BY <1>1 DEF Walking

(* The two together, for a step of a run that keeps what is attached.      *)
LEMMA QuietStep ==
  ASSUME Basic, Basic', Coverage, NEW p \in Runs, NEW r, run' = [run EXCEPT ![p] = r],
         UNCHANGED <<sent, conv>>, ~torn' => ~torn,
         ~torn' /\ ~Late /\ HasRow => attached \subseteq attached',
         ~torn' /\ ~Late /\ HasRow =>
             \A n \in Wanted : Pending(p, n) => n \in attached' \/ Pending(p, n)',
         r.pc \in {"latest", "page", "conv"} =>
             r.cutoff \in {0, Cut} \/ (Walking(p) /\ r.cutoff = run[p].cutoff)
  PROVE  Coverage'
<1>1. ASSUME ~torn', ~Late, HasRow, NEW n \in Wanted, Held(n)
      PROVE  Held(n)'
  BY <1>1, HeldKept
<1>2. \A q \in Runs : Walking(q)' =>
             run'[q].cutoff \in {0, Cut} \/ (Walking(q) /\ run'[q].cutoff = run[q].cutoff)
  BY CutoffsKept
<1>3. QED BY <1>1, <1>2, CoverageKept

LEMMA InitCoverage == Init => Coverage
<1> SUFFICES ASSUME Init
             PROVE  Covered(Cut) /\ CutoffsCovered
  BY DEF Coverage
<1>1. Wanted = {} /\ \A p \in Runs : run[p] = NoRun
  BY DEF Init, Wanted, Positions
<1>2. QED BY <1>1 DEF Covered, CutoffsCovered

(* The time stamp of a new event is later than every cut, or it came late. *)
LEMMA SendCoverage ==
  ASSUME Basic, Basic', Coverage, NEW t \in Times, Send(t)
  PROVE  Coverage'
<1> SUFFICES ASSUME ~torn', ~Late'
             PROVE  Covered(Cut)' /\ CutoffsCovered'
  BY DEF Coverage
<1>1. /\ sent \in Seq(Times) /\ Len(sent) \in Nat /\ Len(sent') = Len(sent) + 1
      /\ sent'[Len(sent) + 1] = t /\ \A n \in Positions : sent'[n] = sent[n]
      /\ t \in Nat /\ 0 < t
  <2>1. sent \in Seq(Times) /\ sent' = Append(sent, t)
    BY DEF Basic, TypeOK, Send, Times
  <2>2. t \in Nat /\ 0 < t
    BY HistoryAssumption DEF Times
  <2>3. QED BY <2>1, <2>2 DEF Positions
<1>2. /\ UNCHANGED <<conv, attached, run, torn>> /\ Cut' = Cut
  BY DEF Send, database, Cut
<1>3. ~Late
  BY <1>1 DEF Late, Positions
<1>4. \A n \in Positions : sent[n] \in Nat /\ sent[n] < t
  <2> TAKE n \in Positions
  <2>1. n \in Positions' /\ Len(sent) + 1 \in Positions' /\ n < Len(sent) + 1
    BY <1>1 DEF Positions
  <2>2. ~(sent'[Len(sent) + 1] <= sent'[n])
    BY <2>1 DEF Late
  <2>3. sent[n] \in Nat
    BY Stamped
  <2>4. QED BY <1>1, <2>2, <2>3
<1>5. conv.last \in Nat /\ conv.last < t
  BY <1>1, <1>4 DEF Basic, TypeOK, RowSeen
<1>6. ASSUME NEW c \in Nat, c <= conv.last, Covered(c)
      PROVE  Covered(c)'
  <2> SUFFICES ASSUME NEW n \in Wanted', sent'[n] <= c
               PROVE  Held(n)'
    BY DEF Covered
  <2>1. n # Len(sent) + 1
    BY <1>1, <1>5, <1>6
  <2>2. n \in Wanted /\ sent'[n] = sent[n]
    BY <1>1, <2>1 DEF Wanted, Positions
  <2>3. Held(n)
    BY <1>6, <2>2 DEF Covered
  <2>4. QED BY <1>2, <2>3 DEF Held, Pending, At, Recovering
<1>7. Covered(Cut)'
  <2> PICK c : c = Cut
    OBVIOUS
  <2>1. c \in Nat /\ c <= conv.last /\ Covered(c)
    BY <1>2, <1>3 DEF Cut, Basic, TypeOK, RowSeen, MarkBehindLast, Coverage
  <2>2. QED BY <1>2, <1>6, <2>1 DEF Covered
<1>8. ASSUME NEW q \in Runs, Walking(q)'
      PROVE  Covered(run[q].cutoff)'
  <2> PICK c : c = run[q].cutoff
    OBVIOUS
  <2>1. Walking(q) /\ run[q] \in RunStates /\ Walk(run[q])
    BY <1>2, <1>8, RunKnown DEF Walking
  <2>2. c \in Nat /\ c <= conv.last
    BY <2>1 DEF RunStates, Walk, Walking
  <2>3. Covered(c)
    BY <1>2, <1>3, <2>1 DEF Coverage, CutoffsCovered
  <2>4. QED BY <1>2, <1>6, <2>2, <2>3 DEF Covered
<1>9. QED BY <1>7, <1>8 DEF CutoffsCovered

(* Nothing is expected of a run that is on the way to its token.           *)
LEMMA TokenCoverage ==
  ASSUME Basic, Basic', Coverage, NEW p \in Runs,
         \/ \E mode \in Modes : Start(p, mode)
         \/ LoadCheckpoint(p) \/ Sync(p) \/ SaveCheckpoint(p) \/ SaveSession(p)
  PROVE  Coverage'
<1>1. run[p].pc \in {"idle", "done", "load", "sync", "save", "file"}
  BY DEF Start, LoadCheckpoint, Sync, SaveCheckpoint, SaveSession, At
<1>2. \A n : ~Pending(p, n)
  BY <1>1 DEF Pending, At, Recovering
<1> PICK r : r = run'[p]
  OBVIOUS
<1>3. /\ run' = [run EXCEPT ![p] = r]
      /\ UNCHANGED <<sent, conv, attached, torn>>
  BY DEF Start, LoadCheckpoint, Sync, SaveCheckpoint, SaveSession, database, Basic, TypeOK
<1>4. r.pc \in {"latest", "page", "conv"} => r.cutoff = 0
  <2>1. Walk(r)'
    BY <1>3 DEF Basic
  <2>2. r.pc \in {"latest", "page", "conv"} => r.mode = "http"
    <3>0. run[p] \in RunStates /\ r = run'[p]
      BY RunKnown
    <3>1. CASE SaveSession(p)
      <4>1. r = IF run[p].mode = "sdk"
                THEN [run[p] EXCEPT !.pc = "state", !.joined = FALSE, !.batch = 0]
                ELSE IF run[p].todo # {} THEN [run[p] EXCEPT !.pc = "room", !.joined = FALSE]
                ELSE IF run[p].joined THEN [run[p] EXCEPT !.pc = "latest", !.joined = FALSE]
                ELSE Ended
        BY <3>1 DEF SaveSession, Basic, TypeOK
      <4>2. /\ [run[p] EXCEPT !.pc = "state", !.joined = FALSE, !.batch = 0].pc = "state"
            /\ [run[p] EXCEPT !.pc = "room", !.joined = FALSE].pc = "room"
            /\ [run[p] EXCEPT !.pc = "latest", !.joined = FALSE].mode = run[p].mode
            /\ run[p].mode # "sdk" => run[p].mode = "http"
        BY <3>0 DEF RunStates, Modes
      <4>3. QED BY <4>1, <4>2, EndedState
    <3>2. CASE \E mode \in Modes : Start(p, mode)
      <4>1. PICK mode \in Modes :
               r = [NoRun EXCEPT !.mode = mode, !.pc = "load", !.tries = {fileToken}]
        BY <3>2 DEF Start, Basic, TypeOK
      <4>2. r.pc = "load"
        BY <4>1 DEF NoRun
      <4>3. QED BY <4>2
    <3>3. CASE LoadCheckpoint(p) \/ SaveCheckpoint(p)
      BY <3>0, <3>3 DEF LoadCheckpoint, SaveCheckpoint, Basic, TypeOK, RunStates
    <3>4. CASE Sync(p)
      <4>1. PICK joined, todo :
               run' = [run EXCEPT ![p] = [run[p] EXCEPT !.pc = "save", !.tries = {},
                                             !.batch = Len(sent), !.joined = joined, !.todo = todo]]
        BY <3>4 DEF Sync
      <4>2. r.pc = "save"
        BY <3>0, <4>1 DEF Basic, TypeOK, RunStates
      <4>3. QED BY <4>2
    <3>5. QED BY <3>1, <3>2, <3>3, <3>4
  <2>3. QED BY <2>1, <2>2 DEF Walk
<1>5. (~torn' => ~torn) /\ attached \subseteq attached' /\ UNCHANGED <<sent, conv>>
  BY <1>3
<1>6. r.pc \in {"latest", "page", "conv"} =>
          r.cutoff \in {0, Cut} \/ (Walking(p) /\ r.cutoff = run[p].cutoff)
  BY <1>4
<1>7. QED BY <1>2, <1>3, <1>5, <1>6, QuietStep

(* A run ends with nothing left to write, or it leaves off.                *)
LEMMA EndCoverage ==
  ASSUME Basic, Basic', Coverage, NEW p \in Runs, Finish(p) \/ Abandon(p) \/ FetchFails(p)
  PROVE  Coverage'
<1> PICK r : r = run'[p]
  OBVIOUS
<1>1. /\ run' = [run EXCEPT ![p] = r]
      /\ UNCHANGED <<sent, conv, attached>> /\ (~torn' => ~torn)
  BY DEF Finish, Abandon, FetchFails, database, Basic, TypeOK
<1>2. CASE Finish(p) \/ Abandon(p)
  <2>1. r = NoRun \/ r = [Ended EXCEPT !.clean = run[p].clean]
    BY <1>2 DEF Finish, Abandon, Basic, TypeOK
  <2>2. run[p].clean \in BOOLEAN
    BY RunKnown DEF RunStates
  <2>3. r.pc \notin {"latest", "page", "conv"}
    BY <2>1, <2>2, EndedState
  <2>4. ASSUME ~torn'
        PROVE  \A n : ~Pending(p, n)
    BY <1>2, <2>4 DEF Finish, Abandon, Pending, At, Recovering
  <2>5. QED BY <1>1, <2>3, <2>4, QuietStep
<1>3. CASE FetchFails(p)
  <2>1. CASE run[p].mode = "http"
    <3>1. torn'
      BY <1>3, <2>1 DEF FetchFails
    <3>2. QED BY <3>1 DEF Coverage
  <2>2. CASE run[p].mode # "http"
    <3>1. run' = [run EXCEPT ![p] = [Ended EXCEPT !.clean = FALSE]]
      BY <1>3, <2>2 DEF FetchFails
    <3>2. r.pc = "done"
      BY <3>1, EndedState DEF Basic, TypeOK
    <3>3. \A n : ~Pending(p, n)
      BY <1>3, <2>2 DEF FetchFails, Pending, At, Recovering
    <3>4. QED BY <1>1, <3>2, <3>3, QuietStep
  <2>3. QED BY <2>1, <2>2
<1>4. QED BY <1>2, <1>3

(* A recovery that reads the timeline comes to everything later.           *)
LEMMA TimelineCoverage ==
  ASSUME Basic, Basic', Coverage, NEW p \in Runs, TimelineRoom(p) \/ TimelineEvent(p)
  PROVE  Coverage'
<1> PICK s : s = run[p]
  OBVIOUS
<1> PICK r : r = run'[p]
  OBVIOUS
<1>1. /\ s \in RunStates /\ s.mode = "http" /\ s.pc \in {"room", "event"}
      /\ run' = [run EXCEPT ![p] = r]
      /\ UNCHANGED <<sent, torn>>
  BY RunKnown DEF TimelineRoom, TimelineEvent, At, Walk, Basic, TypeOK
<1>2. r.mode = "http" /\ r.pc \in {"event", "latest", "room"}
  <2>1. CASE TimelineRoom(p)
    <3>1. r = [s EXCEPT !.pc = "event"]
      BY <2>1 DEF TimelineRoom, Basic, TypeOK
    <3>2. QED BY <1>1, <3>1 DEF RunStates
  <2>2. CASE TimelineEvent(p)
    <3>1. PICK todo : \/ r = [s EXCEPT !.todo = todo, !.pc = "latest"]
                      \/ r = [s EXCEPT !.todo = todo, !.pc = "room"]
      BY <2>2 DEF TimelineEvent, Basic, TypeOK
    <3>2. QED BY <1>1, <3>1 DEF RunStates
  <2>3. QED BY <2>1, <2>2
<1>3. \A n : Held(n)'
  BY <1>1, <1>2 DEF Held, Pending, Recovering
<1>4. QED BY <1>3 DEF Coverage, Covered, CutoffsCovered

(* The cutoff a run takes up is the cut, or nothing is cut off.            *)
LEMMA ReadStateCoverage ==
  ASSUME Basic, Basic', Coverage, NEW p \in Runs, ReadState(p)
  PROVE  Coverage'
<1> PICK s : s = run[p]
  OBVIOUS
<1>1. s \in RunStates /\ s.pc = "state" /\ s.mode = "sdk"
  BY RunKnown DEF ReadState, At, Walk
<1>2. PICK c \in {Cut} \cup {d \in {0} : attached # {}} :
         run' = [run EXCEPT ![p].pc = "latest", ![p].cutoff = c]
  BY DEF ReadState
<1> PICK r : r = [s EXCEPT !.pc = "latest", !.cutoff = c]
  OBVIOUS
<1>3. run' = [run EXCEPT ![p] = r] /\ r.cutoff \in {0, Cut}
  BY <1>1, <1>2 DEF RunStates, Basic, TypeOK
<1>4. \A n : ~Pending(p, n)
  BY <1>1 DEF Pending, At, Recovering
<1>5. (~torn' => ~torn) /\ attached \subseteq attached' /\ UNCHANGED <<sent, conv>>
  BY DEF ReadState, database
<1>6. QED BY <1>3, <1>4, <1>5, QuietStep

(* A recovery that finds nothing in a room it walked to the end had        *)
(* nothing to write there.                                                 *)
LEMMA FetchPageCoverage ==
  ASSUME Basic, Basic', Coverage, NEW p \in Runs, FetchPage(p)
  PROVE  Coverage'
<1> PICK s : s = run[p]
  OBVIOUS
<1>0. /\ s \in RunStates /\ Walk(s) /\ Len(sent) \in Nat
      /\ s.pc \in {"latest", "page"} /\ PageSize \in Nat /\ 0 < PageSize
      /\ s.cutoff \in Nat
  <2>1. s \in RunStates /\ Walk(s)
    BY RunKnown
  <2>2. s.cutoff \in Nat
    BY <2>1 DEF RunStates
  <2>3. Len(sent) \in Nat
    BY DEF Basic, TypeOK
  <2>4. s.pc \in {"latest", "page"}
    BY DEF FetchPage
  <2>5. QED BY <2>1, <2>2, <2>3, <2>4, HistoryAssumption
<1>a. \A n \in Positions : sent[n] \in Nat /\ 0 < sent[n]
  BY Stamped
<1> PICK from : from = IF s.pc = "latest" THEN Len(sent) ELSE s.at
  OBVIOUS
<1> PICK top : top = IF s.pc = "latest" THEN from ELSE s.top
  OBVIOUS
<1> PICK page : page = {n \in 1..from : n > from - PageSize}
  OBVIOUS
<1> PICK got : got = s.got \cup {n \in page \ Silent : sent[n] > s.cutoff}
  OBVIOUS
<1> PICK ended \in BOOLEAN : ended <=> (from <= PageSize \/ \E n \in page : sent[n] <= s.cutoff)
  OBVIOUS
<1>1. /\ from \in Nat /\ top \in Nat /\ from <= top /\ top <= Len(sent)
      /\ s.got = ((from + 1)..top) \ Silent
  BY <1>0 DEF Walk, RunStates
<1> PICK r : r = IF ended /\ got = {} THEN Ended
                 ELSE [s EXCEPT !.pc = IF ended THEN "conv" ELSE "page",
                                !.top = top,
                                !.at = IF ended THEN 0 ELSE from - PageSize,
                                !.got = got]
  OBVIOUS
<1>2. run' = [run EXCEPT ![p] = r] /\ UNCHANGED <<sent, conv, attached, torn>>
  BY DEF FetchPage, LastPage, database
<1>3. CASE ~(ended /\ got = {})
  <2> PICK pc \in {"conv", "page"} : pc = IF ended THEN "conv" ELSE "page"
    OBVIOUS
  <2> PICK at : at = IF ended THEN 0 ELSE from - PageSize
    OBVIOUS
  <2>1. r = [s EXCEPT !.pc = pc, !.top = top, !.at = at, !.got = got]
    BY <1>3
  <2>2. r.pc \in {"conv", "page"} /\ r.top = top /\ r.mode = s.mode /\ r.cutoff = s.cutoff
    BY <2>1, <1>0 DEF RunStates
  <2>3. ASSUME NEW n \in Wanted, Pending(p, n)
        PROVE  Pending(p, n)'
    <3>1. s.mode = "http" /\ n <= top
      <4>1. s.mode = "http" /\ (s.pc = "page" => n <= s.top)
        BY <1>0, <2>3 DEF Pending, At, Recovering
      <4>2. n <= Len(sent)
        BY <1>0 DEF Wanted, Positions
      <4>3. QED BY <1>0, <4>1, <4>2
    <3>2. run'[p] = r
      BY <1>2 DEF Basic, TypeOK
    <3>3. QED BY <3>1, <3>2, <2>2 DEF Pending, Recovering
  <2>4. Walking(p) /\ r.cutoff = run[p].cutoff
    BY <1>0, <2>2 DEF Walking
  <2>5. (~torn' => ~torn) /\ attached \subseteq attached' /\ UNCHANGED <<sent, conv>>
    BY <1>2
  <2>6. QED BY <1>2, <2>3, <2>4, <2>5, QuietStep
<1>4. CASE ended /\ got = {}
  <2>1. r.pc = "done"
    BY <1>4, EndedState
  <2>2. ASSUME NEW n \in Wanted, Pending(p, n)
        PROVE  FALSE
    <3>1. s.cutoff = 0 /\ n <= top /\ n \in Nat /\ 1 <= n /\ n \in Positions /\ n \notin Silent
      <4>1. s.mode = "http" /\ (s.pc = "page" => n <= s.top)
        BY <1>0, <2>2 DEF Pending, At, Recovering
      <4>2. n <= Len(sent) /\ n \in Nat /\ 1 <= n /\ n \in Positions /\ n \notin Silent
        BY <1>0 DEF Wanted, Positions
      <4>3. QED BY <1>0, <4>1, <4>2 DEF Walk
    <3>2. ~(n \in (from + 1)..top)
      BY <1>1, <1>4, <3>1
    <3>3. n \in 1..from
      BY <1>1, <3>1, <3>2
    <3>4. from <= PageSize
      <4>1. ASSUME NEW m \in page, sent[m] <= s.cutoff
            PROVE  FALSE
        <5>1. m \in Positions
          BY <1>0, <1>1 DEF Positions
        <5>2. QED BY <5>1, <1>a, <3>1, <4>1
      <4>2. QED BY <1>4, <4>1
    <3>5. n \in page
      BY <1>0, <1>1, <3>1, <3>3, <3>4
    <3>6. sent[n] > s.cutoff
      BY <1>a, <3>1
    <3>7. QED BY <1>4, <3>1, <3>5, <3>6
  <2>3. (~torn' => ~torn) /\ attached \subseteq attached' /\ UNCHANGED <<sent, conv>>
    BY <1>2
  <2>4. QED BY <1>2, <2>1, <2>2, <2>3, QuietStep
<1>5. QED BY <1>3, <1>4

(* The new cut is no later than the batch: what is up to there and not in  *)
(* the batch was up to the cutoff of the walk that brought it.             *)
LEMMA UpsertConversationCoverage ==
  ASSUME Basic, Basic', Coverage, NEW p \in Runs, UpsertConversation(p)
  PROVE  Coverage'
<1> SUFFICES ASSUME ~torn', ~Late'
             PROVE  Covered(Cut)' /\ CutoffsCovered'
  BY DEF Coverage
<1> PICK s : s = run[p]
  OBVIOUS
<1>0. /\ s \in RunStates /\ Walk(s) /\ sent \in Seq(Times) /\ Len(sent) \in Nat
      /\ conv \in [mark : Nat, last : Nat] /\ conv.mark <= conv.last
      /\ s.pc = "conv" /\ s.got \in SUBSET Positions /\ s.cutoff \in Nat /\ s.top \in Nat
  <2>1. s \in RunStates /\ Walk(s)
    BY RunKnown
  <2>2. s.got \in SUBSET Positions /\ s.cutoff \in Nat /\ s.top \in Nat
    BY <2>1 DEF RunStates
  <2>3. sent \in Seq(Times) /\ Len(sent) \in Nat
    BY DEF Basic, TypeOK, Times
  <2>4. conv \in [mark : Nat, last : Nat] /\ conv.mark <= conv.last
    BY DEF Basic, TypeOK, RowSeen, MarkBehindLast
  <2>5. s.pc = "conv"
    BY DEF UpsertConversation, At
  <2>6. QED BY <2>1, <2>2, <2>3, <2>4, <2>5
<1>a. \A n \in Positions : sent[n] \in Nat /\ 0 < sent[n]
  BY Stamped
<1>1. /\ UNCHANGED <<sent, attached, torn>> /\ ~torn /\ ~Late
      /\ Wanted' = Wanted /\ Positions' = Positions
  BY DEF UpsertConversation, Late, Positions, Wanted
<1>2. /\ s.got # {} /\ s.top <= Len(sent)
      /\ s.got = {n \in 1..s.top \ Silent : sent[n] > s.cutoff}
      /\ s.mode = "http" => s.cutoff = 0
  BY <1>0, <1>1 DEF Walk
<1> PICK latest : latest = LatestIn(s.got)
  OBVIOUS
<1>3. PICK m \in s.got : latest = sent[m]
  BY <1>0, <1>2, LatestInBatch
<1>4. m \in Positions /\ m \in 1..s.top /\ latest \in Times /\ latest \in Nat
  <2>1. m \in Positions /\ m \in 1..s.top
    BY <1>0, <1>2
  <2>2. QED BY <2>1, <1>3, Stamped
<1>5. WholeSeconds(latest) \in Nat /\ 0 < WholeSeconds(latest) /\ WholeSeconds(latest) <= latest
  BY <1>4, WholeSecondsBound
<1> PICK r : r = [s EXCEPT !.pc = "events", !.cutoff = 0, !.top = 0, !.got = {}, !.todo = s.got]
  OBVIOUS
<1>6. run' = [run EXCEPT ![p] = r] /\ r.pc = "events" /\ r.todo = s.got
  BY <1>0 DEF UpsertConversation, RunStates
<1>7. ASSUME NEW n \in Wanted, n <= s.top, sent[n] > s.cutoff
      PROVE  n \in s.got /\ Pending(p, n)'
  <2>1. n \in 1..s.top \ Silent
    BY <1>7, <1>0 DEF Wanted, Positions
  <2>2. n \in s.got
    BY <1>2, <1>7, <2>1
  <2>3. run'[p] = r
    BY <1>6 DEF Basic, TypeOK
  <2>4. QED BY <1>6, <2>2, <2>3 DEF Pending, At
<1>8. ASSUME NEW n \in Wanted, Held(n)
      PROVE  Held(n)'
  <2>1. ASSUME Pending(p, n)
        PROVE  Pending(p, n)'
    <3>1. s.mode = "http" /\ n <= s.top
      BY <1>0, <2>1 DEF Pending, At, Recovering
    <3>2. sent[n] > s.cutoff
      BY <1>2, <1>a, <3>1 DEF Wanted
    <3>3. QED BY <1>7, <3>1, <3>2
  <2>2. attached \subseteq attached'
    BY <1>1
  <2>3. QED BY <1>6, <1>8, <2>1, <2>2, HeldKept
<1>9. ASSUME NEW n \in Wanted, sent[n] <= latest
      PROVE  Held(n)'
  <2>1. n \in Positions /\ n \in Nat /\ m \in Nat
    BY <1>0, <1>4 DEF Wanted, Positions
  <2>2. ~(m < n)
    BY <1>1, <1>3, <1>4, <1>9, <2>1 DEF Late
  <2>3. n <= s.top
    BY <1>0, <1>4, <2>1, <2>2
  <2>4. CASE sent[n] > s.cutoff
    BY <1>7, <2>3, <2>4 DEF Held
  <2>5. CASE sent[n] <= s.cutoff
    <3>1. Covered(s.cutoff)
      BY <1>0, <1>1 DEF Coverage, CutoffsCovered, Walking
    <3>2. Held(n)
      BY <2>5, <3>1 DEF Covered
    <3>3. QED BY <1>8, <3>2
  <2>6. sent[n] \in Nat
    BY <1>a, <2>1
  <2>7. QED BY <1>0, <2>4, <2>5, <2>6
<1>10. Cut' = Cut \/ (Cut' \in Nat /\ Cut' <= latest)
  <2>1. CASE conv' = conv
    BY <2>1 DEF Cut
  <2>2. CASE conv' # conv
    <3>1. /\ conv'.mark = (IF s.mode = "sdk" THEN WholeSeconds(latest) ELSE conv.mark)
          /\ conv'.last = Later(conv.last, latest)
      BY <2>2 DEF UpsertConversation
    <3>2. CASE s.mode = "sdk"
      BY <1>5, <3>1, <3>2 DEF Cut
    <3>3. CASE s.mode # "sdk"
      BY <1>0, <1>4, <3>1, <3>3 DEF Cut, Later
    <3>4. QED BY <3>2, <3>3
  <2>3. QED BY <2>1, <2>2
<1>11. Covered(Cut)'
  <2>1. Covered(Cut)
    BY <1>1 DEF Coverage
  <2>2. ASSUME NEW n \in Wanted, sent[n] <= Cut'
        PROVE  Held(n)'
    <3>1. CASE Cut' = Cut
      BY <1>8, <2>1, <2>2, <3>1 DEF Covered
    <3>2. CASE Cut' \in Nat /\ Cut' <= latest
      <4>1. sent[n] \in Nat
        BY <1>a DEF Wanted
      <4>2. QED BY <1>4, <1>9, <2>2, <3>2, <4>1
    <3>3. QED BY <1>10, <3>1, <3>2
  <2>3. QED BY <1>1, <2>2 DEF Covered
<1>12. ASSUME NEW q \in Runs, Walking(q)'
       PROVE  Covered(run[q].cutoff)'
  <2>1. run'[q] = run[q] /\ Walking(q)
    BY <1>6, <1>12 DEF Walking, Basic, TypeOK
  <2>2. Covered(run[q].cutoff)
    BY <1>1, <2>1 DEF Coverage, CutoffsCovered
  <2>3. QED BY <1>1, <1>8, <2>1, <2>2 DEF Covered
<1>13. QED BY <1>11, <1>12 DEF CutoffsCovered

LEMMA UpsertEventCoverage ==
  ASSUME Basic, Basic', Coverage, NEW p \in Runs, UpsertEvent(p)
  PROVE  Coverage'
<1> PICK s : s = run[p]
  OBVIOUS
<1>0. s \in RunStates /\ s.pc = "events"
  BY RunKnown DEF UpsertEvent, At
<1>1. PICK n \in s.todo :
         \/ Store(n) /\ run' = [run EXCEPT ![p].todo = @ \ {n}] /\ UNCHANGED torn
         \/ /\ run' = [run EXCEPT ![p].todo = @ \ {n}, ![p].clean = FALSE]
            /\ torn' = TRUE /\ UNCHANGED <<rows, attached>>
  BY DEF UpsertEvent
<1>2. CASE torn'
  BY <1>2 DEF Coverage
<1>3. CASE ~torn'
  <2>1. Store(n) /\ run' = [run EXCEPT ![p].todo = @ \ {n}] /\ UNCHANGED torn
    BY <1>1, <1>3
  <2> PICK r : r = [s EXCEPT !.todo = s.todo \ {n}]
    OBVIOUS
  <2>2. /\ run' = [run EXCEPT ![p] = r] /\ r.pc = "events" /\ r.todo = s.todo \ {n}
        /\ run'[p] = r
    BY <1>0, <2>1 DEF RunStates, Basic, TypeOK
  <2>3. HasRow => attached' = attached \cup {n}
    BY <2>1 DEF Store
  <2>4. ASSUME HasRow, NEW k \in Wanted, Pending(p, k)
        PROVE  k \in attached' \/ Pending(p, k)'
    <3>1. k \in s.todo
      BY <1>0, <2>4 DEF Pending, At, Recovering
    <3>2. QED BY <2>2, <2>3, <2>4, <3>1 DEF Pending, At
  <2>5. (~torn' => ~torn) /\ UNCHANGED <<sent, conv>>
    BY <2>1 DEF UpsertEvent
  <2>6. HasRow => attached \subseteq attached'
    BY <2>3
  <2>7. QED BY <2>2, <2>4, <2>5, <2>6, QuietStep
<1>4. QED BY <1>2, <1>3

LEMMA StutterCoverage == Coverage /\ UNCHANGED vars => Coverage'
BY DEF vars, Coverage, Covered, CutoffsCovered, Held, Pending, At, Recovering, Walking,
       Wanted, Positions, Late, Cut

LEMMA NextCoverage == Basic /\ Basic' /\ Coverage /\ [Next]_vars => Coverage'
<1> SUFFICES ASSUME Basic, Basic', Coverage, [Next]_vars
             PROVE  Coverage'
  OBVIOUS
<1>1. ASSUME NEW t \in Times, Send(t)
      PROVE  Coverage'
  BY <1>1, SendCoverage
<1>2. ASSUME NEW p \in Runs, NEW mode \in Modes, Start(p, mode)
      PROVE  Coverage'
  BY <1>2, TokenCoverage
<1>3. ASSUME NEW p \in Runs, Step(p)
      PROVE  Coverage'
  BY <1>3, TokenCoverage, TimelineCoverage, ReadStateCoverage, FetchPageCoverage,
     EndCoverage, UpsertConversationCoverage, UpsertEventCoverage DEF Step
<1>4. ASSUME NEW p \in Runs, Abandon(p)
      PROVE  Coverage'
  BY <1>4, EndCoverage
<1>5. QED BY <1>1, <1>2, <1>3, <1>4, StutterCoverage DEF Next, Times

(* As long as no run left off between the conversation and its events and  *)
(* no event came late, the checkpoint lets the next run skip only what is  *)
(* in the conversation or is being written by another run.                 *)
THEOREM SkipsAreExplained == Spec => []SkipsExplained
<1>1. Init => IInv
  BY InitBasic, InitCoverage DEF IInv
<1>2. IInv /\ [Next]_vars => IInv'
  BY NextBasic, NextCoverage DEF IInv
<1>3. IInv => SkipsExplained
  BY DEF IInv, Coverage, Covered, Held, SkipsExplained
<1>4. QED BY <1>1, <1>2, <1>3, PTL DEF Spec
=============================================================================
