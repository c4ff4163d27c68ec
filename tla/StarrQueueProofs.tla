--------------------------- MODULE StarrQueueProofs ---------------------------
(***************************************************************************)
(* Theorems about StarrQueue, for any set of titles, any number of Starr   *)
(* instances, any bound on jobs, callbacks and retries.                    *)
(***************************************************************************)
EXTENDS StarrQueue, SequenceTheorems, WellFoundedInduction, TLAPS

-----------------------------------------------------------------------------
(* What the helpers return.                                                *)

\* A status change of an item is an item.
LEMMA MoveType ==
  ASSUME NEW i \in Item, NEW st \in Status
  PROVE  /\ Move(i, st) \in Item
         /\ Move(i, st).status = st
         /\ Move(i, st).noRetry = i.noRetry
         /\ Move(i, st).retries = i.retries
         /\ Move(i, st).server = i.server
BY DEF Item, Move

\* An item that waits again, and one that failed for good, are items.
LEMMA AgainType ==
  ASSUME NEW i \in Item
  PROVE  /\ Again(i) \in Item
         /\ Again(i).status = "WAITING"
         /\ Again(i).retries = i.retries + 1
         /\ GivenUp(i) \in Item
         /\ GivenUp(i).status = "EXTRACTFAILED"
         /\ GivenUp(i).retries = i.retries
<1>1. \A st \in {"WAITING", "EXTRACTFAILED"} :
        /\ Move(i, st) \in Item
        /\ Move(i, st).status = st
        /\ Move(i, st).retries = i.retries
  BY MoveType DEF Status
<1>2. ASSUME NEW j \in Item
      PROVE  /\ [j EXCEPT !.retries = @ + 1] \in Item
             /\ [j EXCEPT !.retries = @ + 1].status = j.status
             /\ [j EXCEPT !.retries = @ + 1].retries = j.retries + 1
  <2>1. j.retries + 1 \in Nat
    BY DEF Item
  <2>2. QED
    BY <2>1 DEF Item
<1>3. ASSUME NEW j \in Item
      PROVE  /\ [j EXCEPT !.noRetry = TRUE] \in Item
             /\ [j EXCEPT !.noRetry = TRUE].status = j.status
             /\ [j EXCEPT !.noRetry = TRUE].retries = j.retries
  BY DEF Item
<1>4. QED
  BY <1>1, <1>2, <1>3 DEF Again, GivenUp

\* The constants are values of their types.
LEMMA AbsentType ==
  /\ Absent \in Item
  /\ NoRecord \in Record
  /\ \A s \in Servers : NewItem(s) \in Item
BY DEF Absent, NoRecord, Item, Record, Status, NewItem

\* The scan finds the first instance that completed a title.
LEMMA FirstOfType ==
  ASSUME NEW S, S \subseteq Servers, S # {}
  PROVE  FirstOf(S) \in S
<1> DEFINE Less == {ss \in Nat \X Nat : ss[1] < ss[2]}
<1>1. S \subseteq Nat
  BY StarrAssumption DEF StarrAssumption
<1>2. IsWellFoundedOn(Less, Nat)
  BY NatLessThanWellFounded, Zenon DEF OpToRel
<1>3. PICK x \in S : \A y \in S : ~ (<<y, x>> \in Less)
  BY <1>1, <1>2, WFMin, Zenon
<1>4. ASSUME NEW y \in S PROVE x <= y
  <2>1. <<y, x>> \in Nat \X Nat
    BY <1>1, SMT
  <2>2. ~(<<y, x>>[1] < <<y, x>>[2])
    BY <1>3, <2>1, Zenon
  <2>3. QED
    BY <1>1, <2>2, SMT
<1>5. QED
  BY <1>4 DEF FirstOf

\* A row is written from an item, or left alone.
LEMMA MaybeRecordType ==
  ASSUME NEW r \in Record, NEW i \in Item
  PROVE  MaybeRecord(r, i) \in Record
BY DEF MaybeRecord, RecordOf, Record, Item

\* The rows a handler saves: each stays as it was written, or the cap takes it,
\* and then it said that the work was complete.
LEMMA CappedRows ==
  ASSUME NEW rows \in [Titles -> Record], NEW cut \in SUBSET Completed(rows)
  PROVE  /\ Without(rows, cut) \in [Titles -> Record]
         /\ \A t \in Titles : t \notin cut => Without(rows, cut)[t] = rows[t]
         /\ \A t \in cut : Without(rows, cut)[t] = NoRecord /\ rows[t].status \in Durable
BY AbsentType DEF Without, Completed

LEMMA SavedRows ==
  ASSUME TypeOK, NEW rows \in [Titles -> Record], SaveRows(rows)
  PROVE  /\ records' \in [Titles -> Record] /\ capped' \subseteq Titles
         /\ \A t \in Titles : records'[t] \in {rows[t], NoRecord}
<1>1. PICK cut \in SUBSET Completed(rows) : CapHistory(rows, cut)
  BY DEF SaveRows
<1>2. records' = Without(rows, cut) /\ capped' = cut \cup {t \in capped : rows[t] = NoRecord}
  BY <1>1 DEF CapHistory
<1>3. /\ Without(rows, cut) \in [Titles -> Record]
      /\ \A t \in Titles : Without(rows, cut)[t] \in {rows[t], NoRecord}
  BY CappedRows
<1>4. cut \subseteq Titles /\ capped \subseteq Titles
  BY DEF Completed, TypeOK
<1> QED
  BY <1>2, <1>3, <1>4

\* The scan of the queues leaves an item of its type.
LEMMA CheckStarrQueueType ==
  ASSUME TypeOK, NEW qs, NEW t \in Titles
  PROVE  CheckStarrQueue(qs, t) \in Item
<1>1. CASE Completes(qs, t) # {}
  <2>1. Completes(qs, t) \subseteq Servers
    BY DEF Completes, TypeOK
  <2>2. FirstOf(Completes(qs, t)) \in Servers
    BY <1>1, <2>1, FirstOfType
  <2>3. QED
    BY <2>2, AbsentType DEF CheckStarrQueue, TypeOK
<1>2. CASE Completes(qs, t) = {}
  BY <1>2 DEF CheckStarrQueue, TypeOK
<1>3. QED
  BY <1>1, <1>2

\* So does the check for queue changes, which starts no extraction.
LEMMA CheckQueueChangesType ==
  ASSUME NEW i \in Item, NEW have, NEW ready
  PROVE  /\ CheckQueueChanges(i, have, ready) \in Item
         /\ CheckQueueChanges(i, have, ready).status \in {"QUEUED", "EXTRACTING"}
              => CheckQueueChanges(i, have, ready) = i
<1>1. \A st \in Status : Move(i, st) \in Item /\ Move(i, st).status = st
  BY MoveType
<1>2. /\ [i EXCEPT !.status = "EXTRACTED"] \in Item
      /\ [i EXCEPT !.status = "EXTRACTED"].status = "EXTRACTED"
  BY DEF Item, Status
<1>3. Absent \in Item /\ Absent.status = "ABSENT"
  BY AbsentType DEF Absent
<1>4. QED
  BY <1>1, <1>2, <1>3 DEF CheckQueueChanges, Status

\* And the check for finished extractions.
LEMMA CheckExtractDoneType ==
  ASSUME NEW i \in Item, NEW t \in Titles
  PROVE  /\ CheckExtractDone(i, t) \in Item
         /\ CheckExtractDone(i, t).status \in {"QUEUED", "EXTRACTING"}
              => CheckExtractDone(i, t) = i
<1>1. \A st \in Status : Move(i, st) \in Item /\ Move(i, st).status = st
  BY MoveType
<1>2. Absent \in Item /\ Absent.status = "ABSENT"
  BY AbsentType DEF Absent
<1>3. QED
  BY <1>1, <1>2, AgainType DEF CheckExtractDone, Status

\* And a callback, of which only the announcement of a start leaves the item
\* waiting for xtractr.
LEMMA CalledType ==
  ASSUME NEW i \in Item, NEW cb \in Callback, NEW cleared
  PROVE  /\ Called(i, cb, cleared) \in Item
         /\ cb.done => Called(i, cb, cleared).status \notin {"QUEUED", "EXTRACTING"}
         /\ Called(i, cb, cleared).status # "IMPORTED"
<1> DEFINE resp == [i EXCEPT !.files = cb.files]
<1>1. resp \in Item /\ resp.retries = i.retries
  BY DEF Item, Callback
<1>2. \A st \in {"EXTRACTING", "EXTRACTED", "EXTRACTFAILED"} :
        Move(resp, st) \in Item /\ Move(resp, st).status = st
  BY <1>1, MoveType DEF Status
<1>3. /\ Again(resp) \in Item /\ Again(resp).status = "WAITING"
      /\ GivenUp(resp) \in Item /\ GivenUp(resp).status = "EXTRACTFAILED"
  BY <1>1, AgainType
<1>4. /\ cb.done \in BOOLEAN
      /\ cb.result \in {"ok", "error", "limit", "remnant"}
  BY DEF Callback, Result
<1> HIDE DEF resp
<1>5. CASE ~cb.done
  BY <1>2, <1>5 DEF Called, resp
<1>6. CASE cb.done /\ cb.result = "ok"
  BY <1>2, <1>6 DEF Called, resp
<1>7. CASE cb.done /\ cb.result = "error"
  BY <1>2, <1>7 DEF Called, resp
<1>8. CASE cb.done /\ cb.result = "limit"
  BY <1>3, <1>8 DEF Called, resp
<1>9. CASE cb.done /\ cb.result = "remnant"
  BY <1>2, <1>3, <1>9 DEF Called, resp
<1>10. QED
  BY <1>4, <1>5, <1>6, <1>7, <1>8, <1>9

\* What a row is restored to is an item, and never one xtractr works on.
LEMMA RestoredType ==
  ASSUME NEW r \in Record, NEW age \in 0..2
  PROVE  /\ Restored(r, age) \in Item
         /\ Restored(r, age).status \notin {"QUEUED", "EXTRACTING"}
         /\ Restored(r, age).status = "IMPORTED" => r.status = "IMPORTED"
<1> DEFINE i == [status |-> r.status, server |-> r.server,
                 retries |-> r.retries, noRetry |-> r.noRetry,
                 files |-> r.files, age |-> age]
<1>1. i \in Item /\ i.status = r.status
  BY DEF Item, Record
<1>2. \A st \in {"WAITING", "EXTRACTED", "EXTRACTFAILED"} :
        Move(i, st) \in Item /\ Move(i, st).status = st
  BY <1>1, MoveType DEF Status
<1>3. ASSUME NEW a \in 0..2, NEW j \in Item
      PROVE  [j EXCEPT !.age = a] \in Item /\ [j EXCEPT !.age = a].status = j.status
  BY DEF Item
<1>4. (IF r.noRetry THEN age ELSE 1) \in 0..2
  OBVIOUS
<1>5. Absent \in Item /\ Absent.status = "ABSENT"
  BY AbsentType DEF Absent
<1>6. r.forgotten \in BOOLEAN /\ r.status \in Status \cup {"ABSENT"}
  BY DEF Record
<1> HIDE DEF i
<1>7. CASE r.forgotten \/ r.status \in {"ABSENT", "DELETED"}
  BY <1>5, <1>7 DEF Restored, i
<1>8. CASE ~r.forgotten /\ r.status = "QUEUED"
  BY <1>2, <1>8 DEF Restored, i
<1>9. CASE ~r.forgotten /\ r.status = "EXTRACTING"
  BY <1>2, <1>3, <1>4, <1>9 DEF Restored, i
<1>10. CASE ~r.forgotten /\ r.status \in {"WAITING", "EXTRACTFAILED", "EXTRACTED", "IMPORTED"}
  BY <1>1, <1>2, <1>10 DEF Restored, i
<1>11. QED
  BY <1>6, <1>7, <1>8, <1>9, <1>10 DEF Status

-----------------------------------------------------------------------------
(* Every step keeps the types.                                             *)

LEMMA PollTickType ==
  ASSUME TypeOK, NEW ok \in SUBSET Servers,
         NEW seen \in [Servers -> [Titles -> Listing]], PollTick(ok, seen)
  PROVE  TypeOK'
<1> DEFINE qs      == [s \in Servers |-> IF s \in ok THEN seen[s] ELSE queue[s]]
           pol     == polled \cup ok
           scanned == [t \in Titles |-> CheckStarrQueue(qs, t)]
           checked == [t \in Titles |->
                         CheckQueueChanges(scanned[t],
                           HaveQitem(qs, servers, AppOf[scanned[t].server], t),
                           SnapshotReady(pol, servers, scanned[t]))]
<1>1. qs \in [Servers -> [Titles -> Listing]]
  BY DEF TypeOK
<1>2. /\ queue' = qs
      /\ polled' = pol
      /\ map' = checked
      /\ ok \subseteq servers
      /\ forgotten' = SweepForgotten(pol, qs)
      /\ SaveRows([t \in Titles |->
           IF checked[t].status = "IMPORTED" /\ scanned[t].status # "IMPORTED"
           THEN MaybeRecord(records[t], checked[t]) ELSE records[t]])
      /\ UNCHANGED <<servers, jobs, running, updates, delChan>>
  BY DEF PollTick
<1> HIDE DEF qs
<1>3. \A t \in Titles : scanned[t] \in Item
  BY CheckStarrQueueType
<1> HIDE DEF scanned
<1>4. \A t \in Titles : checked[t] \in Item
  BY <1>3, CheckQueueChangesType
<1>5. checked \in [Titles -> Item]
  BY <1>4
<1> HIDE DEF checked
<1>6. \A t \in Titles : MaybeRecord(records[t], checked[t]) \in Record
  BY <1>4, MaybeRecordType DEF TypeOK
<1>7. records' \in [Titles -> Record] /\ capped' \subseteq Titles
  <2>1. [t \in Titles |->
           IF checked[t].status = "IMPORTED" /\ scanned[t].status # "IMPORTED"
           THEN MaybeRecord(records[t], checked[t]) ELSE records[t]] \in [Titles -> Record]
    BY <1>6 DEF TypeOK
  <2> QED
    BY <1>2, <2>1, SavedRows
<1>8. forgotten' \subseteq Titles
  BY <1>2 DEF SweepForgotten, TypeOK
<1>9. QED
  BY <1>1, <1>2, <1>5, <1>7, <1>8 DEF TypeOK

LEMMA ExtractTickType ==
  ASSUME TypeOK, NEW found \in SUBSET Titles, ExtractTick(found)
  PROVE  TypeOK'
<1>1. \A t \in Titles : Move(map[t], "QUEUED") \in Item
  BY MoveType DEF TypeOK, Status
<1>2. map' \in [Titles -> Item]
  BY <1>1 DEF ExtractTick, TypeOK
<1>3. \A t \in Titles : MaybeRecord(records[t], map'[t]) \in Record
  BY <1>2, MaybeRecordType DEF TypeOK
<1>4. records' \in [Titles -> Record] /\ capped' \subseteq Titles
  <2>1. [t \in Titles |-> IF t \in found THEN MaybeRecord(records[t], map'[t])
                          ELSE records[t]] \in [Titles -> Record]
    BY <1>3 DEF TypeOK
  <2> QED
    BY <2>1, SavedRows DEF ExtractTick
<1>5. jobs' \in [Titles -> Nat]
  BY DEF ExtractTick, TypeOK
<1>6. QED
  BY <1>2, <1>4, <1>5 DEF ExtractTick, TypeOK

\* What checkExtractDone makes of the live queue, its rows and the delete
\* channel; also what an idle restart starts from.
LEMMA DoneType ==
  ASSUME TypeOK
  PROVE  /\ DoneItems \in [Titles -> Item]
         /\ DoneRecords \in [Titles -> Record]
         /\ DoneDeletes \in [Titles -> Nat]
<1>1. \A t \in Titles : CheckExtractDone(map[t], t) \in Item
  BY CheckExtractDoneType DEF TypeOK
<1>2. DoneItems \in [Titles -> Item]
  BY <1>1 DEF DoneItems
<1>3. \A t \in Titles : MaybeRecord(records[t], DoneItems[t]) \in Record
  BY <1>2, MaybeRecordType DEF TypeOK
<1>4. DoneRecords \in [Titles -> Record]
  BY <1>3 DEF DoneRecords, TypeOK
<1>5. DoneDeletes \in [Titles -> Nat]
  BY DEF DoneDeletes, TypeOK
<1>6. QED
  BY <1>2, <1>4, <1>5

LEMMA CleanerTickType ==
  ASSUME TypeOK, CleanerTick
  PROVE  TypeOK'
BY DoneType, SavedRows DEF CleanerTick, TypeOK

LEMMA StartJobType ==
  ASSUME TypeOK, NEW t \in Titles, StartJob(t)
  PROVE  TypeOK'
<1>1. [done |-> FALSE, result |-> "ok", files |-> FALSE] \in Callback
  BY DEF Callback, Result
<1>2. updates' \in [Titles -> Seq(Callback)]
  BY <1>1 DEF StartJob, TypeOK
<1>3. jobs' \in [Titles -> Nat] /\ running' \in [Titles -> Nat]
  BY DEF StartJob, TypeOK
<1>4. QED
  BY <1>2, <1>3 DEF StartJob, TypeOK

LEMMA FinishJobType ==
  ASSUME TypeOK, NEW t \in Titles, NEW result \in Result, NEW files \in BOOLEAN,
         FinishJob(t, result, files)
  PROVE  TypeOK'
<1>1. [done |-> TRUE, result |-> result, files |-> files] \in Callback
  BY DEF Callback
<1>2. updates' \in [Titles -> Seq(Callback)]
  BY <1>1 DEF FinishJob, TypeOK
<1>3. running' \in [Titles -> Nat]
  BY DEF FinishJob, TypeOK
<1>4. QED
  BY <1>2, <1>3 DEF FinishJob, TypeOK

LEMMA HandleXtractrCallbackType ==
  ASSUME TypeOK, NEW t \in Titles, NEW cleared \in BOOLEAN,
         HandleXtractrCallback(t, cleared)
  PROVE  TypeOK'
<1>1. /\ Head(updates[t]) \in Callback
      /\ Tail(updates[t]) \in Seq(Callback)
  BY DEF HandleXtractrCallback, TypeOK
<1>2. updates' \in [Titles -> Seq(Callback)]
  BY <1>1 DEF HandleXtractrCallback, TypeOK
<1>3. Called(map[t], Head(updates[t]), cleared) \in Item
  BY <1>1, CalledType DEF TypeOK
<1>4. map' \in [Titles -> Item]
  BY <1>3 DEF HandleXtractrCallback, TypeOK
<1>5. MaybeRecord(records[t], map'[t]) \in Record
  BY <1>4, MaybeRecordType DEF TypeOK
<1>6. records' \in [Titles -> Record] /\ capped' \subseteq Titles
  <2>1. [records EXCEPT ![t] = MaybeRecord(@, map'[t])] \in [Titles -> Record]
    BY <1>5 DEF TypeOK
  <2> QED
    BY <2>1, SavedRows DEF HandleXtractrCallback, TypeOK
<1>7. QED
  BY <1>2, <1>4, <1>6 DEF HandleXtractrCallback, TypeOK

LEMMA DeleteRequestType ==
  ASSUME TypeOK, NEW t \in Titles, DeleteRequest(t)
  PROVE  TypeOK'
<1>1. delChan' \in [Titles -> Nat]
  BY DEF DeleteRequest, TypeOK
<1>2. QED
  BY <1>1 DEF DeleteRequest, TypeOK

LEMMA RetryQueueIDType ==
  ASSUME TypeOK, NEW t \in Titles, RetryQueueID(t)
  PROVE  TypeOK'
<1>1. ASSUME NEW i \in Item PROVE [i EXCEPT !.noRetry = FALSE] \in Item
  BY DEF Item
<1>2. [Again(map[t]) EXCEPT !.noRetry = FALSE] \in Item
  BY <1>1, AgainType DEF TypeOK
<1>3. map' \in [Titles -> Item]
  BY <1>2 DEF RetryQueueID, TypeOK
<1>4. QED
  BY <1>3 DEF RetryQueueID, TypeOK

LEMMA ForgetQueueIDType ==
  ASSUME TypeOK, NEW t \in Titles, ForgetQueueID(t)
  PROVE  TypeOK'
<1>1. map' \in [Titles -> Item]
  BY AbsentType DEF ForgetQueueID, TypeOK
<1>2. ASSUME NEW r \in Record, NEW b \in BOOLEAN
      PROVE  [r EXCEPT !.forgotten = b] \in Record
  BY DEF Record
<1>3. records' \in [Titles -> Record]
  BY <1>2 DEF ForgetQueueID, TypeOK
<1>4. QED
  BY <1>1, <1>3 DEF ForgetQueueID, TypeOK

LEMMA DropHistoryType ==
  ASSUME TypeOK, NEW S \in SUBSET Titles, DropHistory(S)
  PROVE  TypeOK'
BY AbsentType DEF DropHistory, TypeOK

LEMMA CapTakesRowsType ==
  ASSUME TypeOK, NEW cut \in SUBSET Titles, CapTakesRows(cut)
  PROVE  TypeOK'
<1>1. records' = Without(records, cut) /\ capped' \subseteq Titles
  BY DEF CapTakesRows, CapHistory, TypeOK
<1>2. records' \in [Titles -> Record]
  BY <1>1, CappedRows DEF CapTakesRows, TypeOK
<1> QED
  BY <1>1, <1>2 DEF CapTakesRows, TypeOK

LEMMA PutStarrListType ==
  ASSUME TypeOK, NEW s \in Servers, NEW next \in SUBSET Servers,
         NEW same \in SUBSET Servers, PutStarrList(AppOf[s], next, same)
  PROVE  TypeOK'
<1>1. queue' \in [Servers -> [Titles -> Listing]]
  BY DEF PutStarrList, TypeOK, Listing
<1>2. polled' \subseteq servers' /\ servers' \subseteq Servers
  BY DEF PutStarrList, Carried, TypeOK
<1>3. QED
  BY <1>1, <1>2 DEF PutStarrList, TypeOK

LEMMA RestartType ==
  ASSUME TypeOK, NEW r \in [Titles -> Record], NEW old \in SUBSET Titles,
         NEW aged \in [Titles -> 0..2], Restart(r, old, aged)
  PROVE  TypeOK' /\ \A t \in Titles : records'[t] \in {r[t], NoRecord}
<1>0. /\ records' \in [Titles -> Record]
      /\ \A t \in Titles : records'[t] \in {r[t], NoRecord}
  BY CappedRows DEF Restart
<1>1. \A t \in Titles : Restored(records'[t], aged[t]) \in Item
  BY <1>0, RestoredType
<1>2. map' \in [Titles -> Item]
  BY <1>1, AbsentType DEF Restart
<1>3. queue' \in [Servers -> [Titles -> Listing]]
  BY DEF Restart, Listing
<1>4. updates' \in [Titles -> Seq(Callback)]
  BY DEF Restart
<1>5. QED
  BY <1>0, <1>2, <1>3, <1>4 DEF Restart, TypeOK

LEMMA AgeType ==
  ASSUME TypeOK, NEW t \in Titles, Age(t)
  PROVE  TypeOK'
<1>1. ASSUME NEW i \in Item, i.age < 2 PROVE [i EXCEPT !.age = @ + 1] \in Item
  <2>1. i.age + 1 \in 0..2
    BY <1>1 DEF Item
  <2>2. QED
    BY <2>1 DEF Item
<1>2. map' \in [Titles -> Item]
  BY <1>1 DEF Age, TypeOK
<1>3. QED
  BY <1>2 DEF Age, TypeOK

\* Every variable keeps its type, whatever the constants are.
THEOREM TypeCorrect == Spec => []TypeOK
<1>1. Init => TypeOK
  BY AbsentType DEF Init, TypeOK, Listing
<1>2. TypeOK /\ [Next]_vars => TypeOK'
  <2> SUFFICES ASSUME TypeOK, [Next]_vars
               PROVE  TypeOK'
    OBVIOUS
  <2>1. CASE LoopNext
    BY <2>1, PollTickType, ExtractTickType, CleanerTickType,
       HandleXtractrCallbackType, RetryQueueIDType, ForgetQueueIDType,
       PutStarrListType DEF LoopNext
  <2>2. CASE WorldNext
    BY <2>2, StartJobType, DeleteRequestType, AgeType, FinishJobType,
       DropHistoryType, CapTakesRowsType DEF WorldNext
  <2>3. CASE Restarts
    BY <2>3, RestartType, DoneType DEF Restarts, Crash, CleanerRestart, TypeOK
  <2>4. CASE UNCHANGED vars
    BY <2>4 DEF vars, TypeOK
  <2>5. QED
    BY <2>1, <2>2, <2>3, <2>4 DEF Next
<1>3. QED
  BY <1>1, <1>2, PTL DEF Spec

-----------------------------------------------------------------------------
(* The rows the handlers write, before the cap takes any.                  *)

\* A tick of the poller writes the rows of what it takes for imported.
LEMMA PolledRows ==
  ASSUME TypeOK, NEW ok \in SUBSET Servers,
         NEW seen \in [Servers -> [Titles -> Listing]], PollTick(ok, seen)
  PROVE  \E rows \in [Titles -> Record] :
           /\ SaveRows(rows)
           /\ \A t \in Titles : \E qs, have, ready :
                /\ map'[t] = CheckQueueChanges(CheckStarrQueue(qs, t), have, ready)
                /\ rows[t] =
                     IF map'[t].status = "IMPORTED" /\ CheckStarrQueue(qs, t).status # "IMPORTED"
                     THEN MaybeRecord(records[t], map'[t]) ELSE records[t]
<1> DEFINE qs      == [s \in Servers |-> IF s \in ok THEN seen[s] ELSE queue[s]]
           pol     == polled \cup ok
           scanned == [t \in Titles |-> CheckStarrQueue(qs, t)]
           have(t) == HaveQitem(qs, servers, AppOf[scanned[t].server], t)
           ready(t) == SnapshotReady(pol, servers, scanned[t])
           checked == [t \in Titles |-> CheckQueueChanges(scanned[t], have(t), ready(t))]
           rows    == [t \in Titles |->
                         IF checked[t].status = "IMPORTED" /\ scanned[t].status # "IMPORTED"
                         THEN MaybeRecord(records[t], checked[t]) ELSE records[t]]
<1>1. map' = checked /\ SaveRows(rows)
  BY DEF PollTick
<1>2. \A t \in Titles : checked[t] \in Item
  BY <1>1, PollTickType DEF TypeOK
<1>3. rows \in [Titles -> Record]
  <2>1. \A t \in Titles : MaybeRecord(records[t], checked[t]) \in Record
    BY <1>2, MaybeRecordType DEF TypeOK
  <2> QED
    BY <2>1 DEF TypeOK
<1>4. ASSUME NEW t \in Titles
      PROVE  /\ map'[t] = CheckQueueChanges(CheckStarrQueue(qs, t), have(t), ready(t))
             /\ rows[t] =
                  IF map'[t].status = "IMPORTED" /\ CheckStarrQueue(qs, t).status # "IMPORTED"
                  THEN MaybeRecord(records[t], map'[t]) ELSE records[t]
  BY <1>1
<1> HIDE DEF rows, qs, have, ready
<1> QED
  BY <1>1, <1>3, <1>4

\* The start delay tick writes the rows of what it hands to xtractr.
LEMMA FoundRows ==
  ASSUME TypeOK, NEW found \in SUBSET Titles, ExtractTick(found)
  PROVE  \E rows \in [Titles -> Record] :
           /\ SaveRows(rows)
           /\ \A t \in found : rows[t] = MaybeRecord(records[t], map'[t])
           /\ \A t \in Titles \ found : rows[t] = records[t]
<1> DEFINE rows == [t \in Titles |->
                      IF t \in found THEN MaybeRecord(records[t], map'[t]) ELSE records[t]]
<1>1. \A t \in Titles : MaybeRecord(records[t], map'[t]) \in Record
  BY ExtractTickType, MaybeRecordType DEF TypeOK
<1>2. rows \in [Titles -> Record]
  BY <1>1 DEF TypeOK
<1> QED
  BY <1>2 DEF ExtractTick

\* A callback writes the row of its live item.
LEMMA CalledRows ==
  ASSUME TypeOK, NEW t \in Titles, NEW cleared \in BOOLEAN,
         HandleXtractrCallback(t, cleared), map[t].status # "ABSENT"
  PROVE  \E rows \in [Titles -> Record] :
           /\ SaveRows(rows)
           /\ rows[t] = MaybeRecord(records[t], map'[t])
           /\ \A u \in Titles \ {t} : rows[u] = records[u]
<1> DEFINE rows == [records EXCEPT ![t] = MaybeRecord(@, map'[t])]
<1>1. MaybeRecord(records[t], map'[t]) \in Record
  BY HandleXtractrCallbackType, MaybeRecordType DEF TypeOK
<1>2. /\ rows \in [Titles -> Record]
      /\ rows[t] = MaybeRecord(records[t], map'[t])
      /\ \A u \in Titles \ {t} : rows[u] = records[u]
  BY <1>1 DEF TypeOK
<1>3. SaveRows(rows)
  BY DEF HandleXtractrCallback
<1> QED
  BY <1>2, <1>3

-----------------------------------------------------------------------------
(* A forgotten title stays out: the tombstone keeps the scan from making an *)
(* item, and no other step makes one but a restart, which leaves flagged    *)
(* rows alone.                                                              *)

LEMMA PollTickForgotten ==
  ASSUME TypeOK, ForgottenStayOut, NEW ok \in SUBSET Servers,
         NEW seen \in [Servers -> [Titles -> Listing]], PollTick(ok, seen)
  PROVE  ForgottenStayOut'
<1>1. SUFFICES ASSUME NEW t \in forgotten' PROVE map'[t].status = "ABSENT"
  BY DEF ForgottenStayOut
<1>2. t \in forgotten /\ t \in Titles
  BY DEF PollTick, SweepForgotten, TypeOK
<1>3. map[t].status = "ABSENT"
  BY <1>2 DEF ForgottenStayOut
<1>4. \A qs : CheckStarrQueue(qs, t) = map[t]
  BY <1>2 DEF CheckStarrQueue
<1>5. \A have, ready : CheckQueueChanges(map[t], have, ready) = map[t]
  BY <1>3 DEF CheckQueueChanges
<1>6. map'[t] = map[t]
  BY <1>2, <1>4, <1>5 DEF PollTick
<1>7. QED
  BY <1>3, <1>6

\* What the loop does not hold it does not clean up.
LEMMA DoneAbsent ==
  ASSUME NEW t \in Titles, map[t].status = "ABSENT"
  PROVE  DoneItems[t].status = "ABSENT"
BY DEF DoneItems, CheckExtractDone, Finishes, Retries, GivesUp, Stale, Cleanable

\* A title the user forgot stays out of the live queue until its tombstone is
\* lifted.
THEOREM ForgottenTitles == Spec => []ForgottenStayOut
<1>1. Init => ForgottenStayOut
  BY DEF Init, ForgottenStayOut
<1>2. TypeOK /\ ForgottenStayOut /\ [Next]_vars => ForgottenStayOut'
  <2> SUFFICES ASSUME TypeOK, ForgottenStayOut, [Next]_vars
               PROVE  ForgottenStayOut'
    OBVIOUS
  <2>1. ASSUME forgotten' = forgotten,
               \A t \in Titles : map[t].status = "ABSENT" => map'[t].status = "ABSENT"
        PROVE  ForgottenStayOut'
    BY <2>1 DEF ForgottenStayOut, TypeOK
  <2>2. ASSUME NEW found \in SUBSET Titles, ExtractTick(found) PROVE ForgottenStayOut'
    BY <2>1, <2>2 DEF ExtractTick, Startable
  <2>3. ASSUME CleanerTick PROVE ForgottenStayOut'
    BY <2>1, <2>3, DoneAbsent DEF CleanerTick
  <2>4. ASSUME NEW t \in Titles, NEW cleared \in BOOLEAN,
               HandleXtractrCallback(t, cleared)
        PROVE  ForgottenStayOut'
    BY <2>1, <2>4 DEF HandleXtractrCallback, TypeOK
  <2>5. ASSUME NEW t \in Titles, RetryQueueID(t) PROVE ForgottenStayOut'
    BY <2>1, <2>5 DEF RetryQueueID, TypeOK
  <2>6. ASSUME NEW t \in Titles, ForgetQueueID(t) PROVE ForgottenStayOut'
    BY <2>6 DEF ForgetQueueID, ForgottenStayOut, Absent, TypeOK
  <2>7. ASSUME NEW s \in Servers, NEW next \in SUBSET Servers,
               NEW same \in SUBSET Servers, PutStarrList(AppOf[s], next, same)
        PROVE  ForgottenStayOut'
    BY <2>1, <2>7 DEF PutStarrList
  <2>8. CASE LoopNext
    BY <2>2, <2>3, <2>4, <2>5, <2>6, <2>7, <2>8, PollTickForgotten DEF LoopNext
  <2>9. ASSUME NEW t \in Titles, Age(t) PROVE ForgottenStayOut'
    BY <2>1, <2>9 DEF Age, TypeOK
  <2>10. CASE WorldNext
    BY <2>1, <2>9, <2>10 DEF WorldNext, StartJob, FinishJob, DeleteRequest, DropHistory,
       CapTakesRows
  <2>11. CASE Restarts
    <3>1. PICK r, old, aged : Restart(r, old, aged)
      BY <2>11 DEF Restarts, Crash, CleanerRestart
    <3>2. QED
      BY <3>1 DEF Restart, Restored, ForgottenStayOut, Absent
  <2>12. CASE UNCHANGED vars
    BY <2>1, <2>12 DEF vars
  <2>13. QED
    BY <2>8, <2>10, <2>11, <2>12 DEF Next
<1>3. QED
  BY <1>1, <1>2, TypeCorrect, PTL DEF Spec

-----------------------------------------------------------------------------
(* No extraction is lost.  What keeps NoLostExtraction inductive: while the *)
(* last callback of a title announces a start, a worker still extracts it   *)
(* and will announce the end, so that taking callbacks off the channel never *)
(* leaves an item without one.                                              *)

AnsweredStart ==
  \A t \in Titles :
    updates[t] # <<>> /\ ~Last(updates[t]).done => running[t] > 0

NoLostInv == AnsweredStart /\ NoLostExtraction

\* The last element of a sequence after an element is added.
LEMMA LastOfAppend ==
  ASSUME NEW S, NEW q \in Seq(S), NEW e \in S
  PROVE  Append(q, e) # <<>> /\ Last(Append(q, e)) = e
BY DEF Last

\* The last element of a sequence after its first is taken.
LEMMA LastOfTail ==
  ASSUME NEW S, NEW q \in Seq(S), q # <<>>
  PROVE  /\ Tail(q) # <<>> => Last(Tail(q)) = Last(q)
         /\ Tail(q) = <<>> => Head(q) = Last(q)
<1>1. /\ Len(q) \in Nat \ {0}
      /\ Tail(q) \in Seq(S)
      /\ Len(Tail(q)) = Len(q) - 1
      /\ \A k \in 1..Len(Tail(q)) : Tail(q)[k] = q[k + 1]
      /\ Head(q) = q[1]
  OBVIOUS
<1>2. CASE Tail(q) = <<>>
  <2>1. Len(Tail(q)) = 0
    BY <1>2, EmptySeq, Zenon
  <2>2. Len(q) \in Nat /\ Len(q) - 1 = 0
    BY <1>1, <2>1
  <2>3. \A n \in Nat : n - 1 = 0 => n = 1
    OBVIOUS
  <2>4. Len(q) = 1
    BY <2>2, <2>3, Zenon
  <2>5. QED
    BY <1>1, <1>2, <2>4, Zenon DEF Last
<1>3. CASE Tail(q) # <<>>
  <2>1. Len(Tail(q)) \in 1..Len(Tail(q))
    BY <1>1, <1>3
  <2>2. Tail(q)[Len(Tail(q))] = q[Len(Tail(q)) + 1]
    BY <1>1, <2>1
  <2>3. Len(Tail(q)) + 1 = Len(q)
    BY <1>1
  <2>4. QED
    BY <1>3, <2>2, <2>3, Zenon DEF Last
<1>4. QED
  BY <1>2, <1>3

\* A step that leaves xtractr and its callbacks alone keeps the invariant if
\* it makes no item wait for xtractr.
LEMMA NoLostByLoop ==
  ASSUME NoLostInv, TypeOK,
         UNCHANGED <<jobs, running, updates>>,
         \A t \in Titles : map'[t].status \in {"QUEUED", "EXTRACTING"}
           => map[t].status \in {"QUEUED", "EXTRACTING"}
  PROVE  NoLostInv'
BY DEF NoLostInv, AnsweredStart, NoLostExtraction

LEMMA PollTickNoLost ==
  ASSUME NoLostInv, TypeOK, NEW ok \in SUBSET Servers,
         NEW seen \in [Servers -> [Titles -> Listing]], PollTick(ok, seen)
  PROVE  NoLostInv'
<1> SUFFICES ASSUME NEW t \in Titles, map'[t].status \in {"QUEUED", "EXTRACTING"}
             PROVE  map[t].status \in {"QUEUED", "EXTRACTING"}
  BY NoLostByLoop DEF PollTick
<1>1. PICK qs, have, ready :
        map'[t] = CheckQueueChanges(CheckStarrQueue(qs, t), have, ready)
  BY DEF PollTick
<1>2. CheckStarrQueue(qs, t) \in Item
  BY CheckStarrQueueType
<1>3. map'[t] = CheckStarrQueue(qs, t)
  BY <1>1, <1>2, CheckQueueChangesType
<1>4. QED
  BY <1>3 DEF CheckStarrQueue, NewItem

LEMMA ExtractTickNoLost ==
  ASSUME NoLostInv, TypeOK, NEW found \in SUBSET Titles, ExtractTick(found)
  PROVE  NoLostInv'
<1>1. AnsweredStart'
  BY DEF NoLostInv, AnsweredStart, ExtractTick
<1>2. ASSUME NEW t \in Titles, t \in found PROVE jobs'[t] + running'[t] > 0
  BY <1>2 DEF ExtractTick, TypeOK
<1>3. ASSUME NEW t \in Titles, t \notin found
      PROVE  map'[t] = map[t] /\ jobs'[t] = jobs[t]
  BY <1>3 DEF ExtractTick
<1>4. QED
  BY <1>1, <1>2, <1>3 DEF NoLostInv, NoLostExtraction, ExtractTick

LEMMA StartJobNoLost ==
  ASSUME NoLostInv, TypeOK, NEW t \in Titles, StartJob(t)
  PROVE  NoLostInv'
<1> SUFFICES ASSUME NEW u \in Titles
             PROVE  /\ updates'[u] # <<>> /\ ~Last(updates'[u]).done => running'[u] > 0
                    /\ map'[u].status \in {"QUEUED", "EXTRACTING"} =>
                         \/ jobs'[u] + running'[u] > 0
                         \/ updates'[u] # <<>> /\ Last(updates'[u]).done
  BY DEF NoLostInv, AnsweredStart, NoLostExtraction
<1>1. CASE u = t
  BY <1>1 DEF StartJob, TypeOK
<1>2. CASE u # t
  BY <1>2 DEF NoLostInv, AnsweredStart, NoLostExtraction, StartJob, TypeOK
<1>3. QED
  BY <1>1, <1>2

LEMMA FinishJobNoLost ==
  ASSUME NoLostInv, TypeOK, NEW t \in Titles, NEW result \in Result,
         NEW files \in BOOLEAN, FinishJob(t, result, files)
  PROVE  NoLostInv'
<1> SUFFICES ASSUME NEW u \in Titles
             PROVE  /\ updates'[u] # <<>> /\ ~Last(updates'[u]).done => running'[u] > 0
                    /\ map'[u].status \in {"QUEUED", "EXTRACTING"} =>
                         \/ jobs'[u] + running'[u] > 0
                         \/ updates'[u] # <<>> /\ Last(updates'[u]).done
  BY DEF NoLostInv, AnsweredStart, NoLostExtraction
<1>1. CASE u = t
  <2> DEFINE cb == [done |-> TRUE, result |-> result, files |-> files]
  <2>1. cb \in Callback /\ cb.done
    BY DEF Callback
  <2>2. updates'[u] = Append(updates[u], cb)
    BY <1>1 DEF FinishJob, TypeOK
  <2>3. updates[u] \in Seq(Callback)
    BY DEF TypeOK
  <2> HIDE DEF cb
  <2>4. updates'[u] # <<>> /\ Last(updates'[u]) = cb
    BY <2>1, <2>2, <2>3, LastOfAppend, Zenon
  <2>5. Last(updates'[u]).done
    BY <2>1, <2>4
  <2>6. QED
    BY <2>4, <2>5, Zenon
<1>2. CASE u # t
  BY <1>2 DEF NoLostInv, AnsweredStart, NoLostExtraction, FinishJob, TypeOK
<1>3. QED
  BY <1>1, <1>2

LEMMA HandleXtractrCallbackNoLost ==
  ASSUME NoLostInv, TypeOK, NEW t \in Titles, NEW cleared \in BOOLEAN,
         HandleXtractrCallback(t, cleared)
  PROVE  NoLostInv'
<1> SUFFICES ASSUME NEW u \in Titles
             PROVE  /\ updates'[u] # <<>> /\ ~Last(updates'[u]).done => running'[u] > 0
                    /\ map'[u].status \in {"QUEUED", "EXTRACTING"} =>
                         \/ jobs'[u] + running'[u] > 0
                         \/ updates'[u] # <<>> /\ Last(updates'[u]).done
  BY DEF NoLostInv, AnsweredStart, NoLostExtraction
<1>1. CASE u # t
  BY <1>1 DEF NoLostInv, AnsweredStart, NoLostExtraction, HandleXtractrCallback, TypeOK
<1>2. CASE u = t
  <2> DEFINE q == updates[t]
  <2>1. q \in Seq(Callback) /\ q # <<>> /\ Head(q) \in Callback
    BY DEF HandleXtractrCallback, TypeOK
  <2>2. updates'[u] = Tail(q) /\ UNCHANGED <<jobs, running>>
    BY <1>2 DEF HandleXtractrCallback, TypeOK
  <2>3. /\ Tail(q) # <<>> => Last(Tail(q)) = Last(q)
        /\ Tail(q) = <<>> => Head(q) = Last(q)
    BY <2>1, LastOfTail
  <2>4. ~Last(q).done => running[t] > 0
    BY <2>1 DEF NoLostInv, AnsweredStart
  <2>5. CASE Tail(q) = <<>> /\ Last(q).done
    <3>1. map'[t].status \notin {"QUEUED", "EXTRACTING"}
      BY <2>1, <2>3, <2>5, CalledType DEF HandleXtractrCallback, TypeOK
    <3>2. QED
      BY <1>2, <2>2, <2>5, <3>1
  <2>6. CASE Tail(q) # <<>> /\ Last(q).done
    BY <1>2, <2>2, <2>3, <2>6
  <2>7. CASE ~Last(q).done
    BY <1>2, <2>2, <2>4, <2>7 DEF TypeOK
  <2>8. QED
    BY <2>5, <2>6, <2>7
<1>3. QED
  BY <1>1, <1>2

\* Every item that is queued or extracting is owed an answer.
THEOREM NoExtractionLost == Spec => []NoLostExtraction
<1>1. Init => NoLostInv
  BY DEF Init, NoLostInv, AnsweredStart, NoLostExtraction, Absent
<1>2. TypeOK /\ NoLostInv /\ [Next]_vars => NoLostInv'
  <2> SUFFICES ASSUME TypeOK, NoLostInv, [Next]_vars
               PROVE  NoLostInv'
    OBVIOUS
  <2>1. ASSUME CleanerTick PROVE NoLostInv'
    <3>1. ASSUME NEW t \in Titles, DoneItems[t].status \in {"QUEUED", "EXTRACTING"}
          PROVE  DoneItems[t] = map[t]
      BY <3>1, CheckExtractDoneType DEF DoneItems, TypeOK
    <3>2. QED
      BY <2>1, <3>1, NoLostByLoop DEF CleanerTick
  <2>2. ASSUME NEW t \in Titles, RetryQueueID(t) PROVE NoLostInv'
    <3>1. ASSUME NEW i \in Item PROVE [i EXCEPT !.noRetry = FALSE].status = i.status
      BY DEF Item
    <3>2. [Again(map[t]) EXCEPT !.noRetry = FALSE].status = "WAITING"
      BY <3>1, AgainType DEF TypeOK
    <3>3. QED
      BY <2>2, <3>2, NoLostByLoop DEF RetryQueueID, TypeOK
  <2>3. ASSUME NEW t \in Titles, ForgetQueueID(t) PROVE NoLostInv'
    BY <2>3, NoLostByLoop DEF ForgetQueueID, Absent, TypeOK
  <2>4. ASSUME NEW s \in Servers, NEW next \in SUBSET Servers,
               NEW same \in SUBSET Servers, PutStarrList(AppOf[s], next, same)
        PROVE  NoLostInv'
    BY <2>4, NoLostByLoop DEF PutStarrList
  <2>5. CASE LoopNext
    BY <2>1, <2>2, <2>3, <2>4, <2>5, PollTickNoLost, ExtractTickNoLost,
       HandleXtractrCallbackNoLost DEF LoopNext
  <2>6. ASSUME NEW t \in Titles, Age(t) PROVE NoLostInv'
    <3>1. ASSUME NEW i \in Item, NEW n PROVE [i EXCEPT !.age = n].status = i.status
      BY DEF Item
    <3>2. QED
      BY <2>6, <3>1, NoLostByLoop DEF Age, TypeOK
  <2>7. ASSUME NEW t \in Titles, DeleteRequest(t) PROVE NoLostInv'
    BY <2>7, NoLostByLoop DEF DeleteRequest
  <2>8. ASSUME NEW S \in SUBSET Titles, DropHistory(S) \/ CapTakesRows(S) PROVE NoLostInv'
    BY <2>8, NoLostByLoop DEF DropHistory, CapTakesRows
  <2>9. CASE WorldNext
    BY <2>6, <2>7, <2>8, <2>9, StartJobNoLost, FinishJobNoLost DEF WorldNext
  <2>10. CASE Restarts
    <3>1. PICK r \in [Titles -> Record], old \in SUBSET Titles,
               aged \in [Titles -> 0..2] : Restart(r, old, aged)
      BY <2>10, DoneType DEF Restarts, Crash, CleanerRestart, TypeOK
    <3>2. ASSUME NEW t \in Titles PROVE map'[t].status \notin {"QUEUED", "EXTRACTING"}
      <4>1. records'[t] \in Record
        BY <3>1, RestartType DEF TypeOK
      <4>2. aged[t] \in 0..2
        OBVIOUS
      <4>3. Restored(records'[t], aged[t]).status \notin {"QUEUED", "EXTRACTING"}
        BY <4>1, <4>2, RestoredType
      <4> QED
        BY <3>1, <4>3 DEF Restart, Absent
    <3>3. QED
      BY <3>1, <3>2 DEF Restart, NoLostInv, AnsweredStart, NoLostExtraction
  <2>11. CASE UNCHANGED vars
    BY <2>11, NoLostByLoop DEF vars
  <2>12. QED
    BY <2>5, <2>9, <2>10, <2>11 DEF Next
<1>3. NoLostInv => NoLostExtraction
  BY DEF NoLostInv
<1>4. QED
  BY <1>1, <1>2, <1>3, TypeCorrect, PTL DEF Spec

-----------------------------------------------------------------------------
(* The retry budget.  The history rows take part: a restart takes an item's *)
(* retries from its row.                                                    *)

Within(i) == i.retries <= MaxRetries + MaxManual

BudgetInv ==
  \A t \in Titles : Within(map[t]) /\ Within(records[t])

\* The helpers spend no more than the budget.
LEMMA WithinHelpers ==
  ASSUME NEW i \in Item, Within(i), NEW t \in Titles
  PROVE  /\ \A have, ready : Within(CheckQueueChanges(i, have, ready))
         /\ Within(CheckExtractDone(i, t))
         /\ \A cb \in Callback, cleared \in BOOLEAN : Within(Called(i, cb, cleared))
         /\ \A r \in Record : Within(r) => Within(MaybeRecord(r, i))
<1>1. \A st \in Status : Within(Move(i, st))
  BY MoveType DEF Within
<1>2. Within(Absent)
  BY StarrAssumption DEF StarrAssumption, Within, Absent
<1>3. Within([i EXCEPT !.status = "EXTRACTED"])
  BY DEF Within, Item
<1>4. \A have, ready : Within(CheckQueueChanges(i, have, ready))
  BY <1>1, <1>2, <1>3 DEF CheckQueueChanges, Status
<1>5. Retries(i) => Within(Again(i))
  BY AgainType, StarrAssumption DEF StarrAssumption, Within, Retries, Item
<1>6. Within(GivenUp(i))
  BY AgainType DEF Within
<1>7. Within(CheckExtractDone(i, t))
  BY <1>1, <1>2, <1>5, <1>6 DEF CheckExtractDone, Status
<1>8. ASSUME NEW cb \in Callback, NEW cleared \in BOOLEAN
      PROVE  Within(Called(i, cb, cleared))
  <2> DEFINE resp == [i EXCEPT !.files = cb.files]
  <2>1. resp \in Item /\ resp.retries = i.retries
    BY DEF Item, Callback
  <2> HIDE DEF resp
  <2>2. \A st \in {"EXTRACTING", "EXTRACTED", "EXTRACTFAILED"} : Within(Move(resp, st))
    BY <2>1, MoveType DEF Within, Status
  <2>3. Within(GivenUp(resp))
    BY <2>1, AgainType DEF Within
  <2>4. RemnantRestart(i, cleared) => Within(Again(resp))
    <3>1. RemnantRestart(i, cleared) => i.retries + 1 <= MaxRetries + MaxManual
      BY StarrAssumption DEF StarrAssumption, RemnantRestart, Item
    <3>2. QED
      BY <2>1, <3>1, AgainType DEF Within
  <2>5. /\ cb.done \in BOOLEAN
        /\ cb.result \in {"ok", "error", "limit", "remnant"}
    BY DEF Callback, Result
  <2>6. CASE ~cb.done
    BY <2>2, <2>6 DEF Called, resp
  <2>7. CASE cb.done /\ cb.result = "ok"
    BY <2>2, <2>7 DEF Called, resp
  <2>8. CASE cb.done /\ cb.result = "error"
    BY <2>2, <2>8 DEF Called, resp
  <2>9. CASE cb.done /\ cb.result = "limit"
    BY <2>3, <2>9 DEF Called, resp
  <2>10. CASE cb.done /\ cb.result = "remnant"
    BY <2>2, <2>3, <2>4, <2>10 DEF Called, resp
  <2>11. QED
    BY <2>5, <2>6, <2>7, <2>8, <2>9, <2>10
<1>9. \A r \in Record : Within(r) => Within(MaybeRecord(r, i))
  BY DEF Within, MaybeRecord, RecordOf
<1>10. QED
  BY <1>4, <1>7, <1>8, <1>9

\* Nor does a restart.
LEMMA WithinRestored ==
  ASSUME NEW r \in Record, Within(r), NEW age \in 0..2
  PROVE  Within(Restored(r, age))
<1> DEFINE i == [status |-> r.status, server |-> r.server,
                 retries |-> r.retries, noRetry |-> r.noRetry,
                 files |-> r.files, age |-> age]
<1>1. i \in Item /\ i.status = r.status /\ Within(i)
  BY DEF Item, Record, Within
<1>2. \A st \in {"WAITING", "EXTRACTED", "EXTRACTFAILED"} :
        Move(i, st) \in Item /\ Within(Move(i, st))
  BY <1>1, MoveType DEF Status, Within
<1>3. ASSUME NEW a, NEW j \in Item
      PROVE  [j EXCEPT !.age = a].retries = j.retries
  BY DEF Item
<1>4. Within(Absent)
  BY StarrAssumption DEF StarrAssumption, Within, Absent
<1>5. r.forgotten \in BOOLEAN /\ r.status \in Status \cup {"ABSENT"}
  BY DEF Record
<1> HIDE DEF i
<1>6. CASE r.forgotten \/ r.status \in {"ABSENT", "DELETED"}
  BY <1>4, <1>6 DEF Restored, i
<1>7. CASE ~r.forgotten /\ r.status = "QUEUED"
  BY <1>2, <1>7 DEF Restored, i
<1>8. CASE ~r.forgotten /\ r.status = "EXTRACTING"
  <2>1. Restored(r, age) = [Move(i, "EXTRACTFAILED") EXCEPT
                              !.age = IF r.noRetry THEN age ELSE 1]
    BY <1>8 DEF Restored, i
  <2>2. QED
    BY <1>2, <1>3, <2>1 DEF Within
<1>9. CASE ~r.forgotten /\ r.status \in {"WAITING", "EXTRACTFAILED", "EXTRACTED", "IMPORTED"}
  BY <1>1, <1>2, <1>9 DEF Restored, i
<1>10. QED
  BY <1>5, <1>6, <1>7, <1>8, <1>9 DEF Status

\* Nor does the cap.
LEMMA WithinSaved ==
  ASSUME TypeOK, NEW rows \in [Titles -> Record], SaveRows(rows),
         \A t \in Titles : Within(map'[t]) /\ Within(rows[t])
  PROVE  BudgetInv'
<1>1. Within(NoRecord)
  BY StarrAssumption DEF StarrAssumption, Within, NoRecord
<1>2. \A t \in Titles : Within(records'[t])
  BY <1>1, SavedRows
<1> QED
  BY <1>2 DEF BudgetInv, Within

LEMMA PollTickBudget ==
  ASSUME TypeOK, BudgetInv, NEW ok \in SUBSET Servers,
         NEW seen \in [Servers -> [Titles -> Listing]], PollTick(ok, seen)
  PROVE  BudgetInv'
<1>0. PICK rows \in [Titles -> Record] :
        /\ SaveRows(rows)
        /\ \A t \in Titles : \E qs, have, ready :
             /\ map'[t] = CheckQueueChanges(CheckStarrQueue(qs, t), have, ready)
             /\ rows[t] \in {records[t], MaybeRecord(records[t], map'[t])}
  <2>1. PICK rows \in [Titles -> Record] :
          /\ SaveRows(rows)
          /\ \A t \in Titles : \E qs, have, ready :
               /\ map'[t] = CheckQueueChanges(CheckStarrQueue(qs, t), have, ready)
               /\ rows[t] =
                    IF map'[t].status = "IMPORTED" /\ CheckStarrQueue(qs, t).status # "IMPORTED"
                    THEN MaybeRecord(records[t], map'[t]) ELSE records[t]
    BY PolledRows
  <2>2. ASSUME NEW t \in Titles
        PROVE  \E qs, have, ready :
                 /\ map'[t] = CheckQueueChanges(CheckStarrQueue(qs, t), have, ready)
                 /\ rows[t] \in {records[t], MaybeRecord(records[t], map'[t])}
    <3>1. PICK qs, have, ready :
            /\ map'[t] = CheckQueueChanges(CheckStarrQueue(qs, t), have, ready)
            /\ rows[t] =
                 IF map'[t].status = "IMPORTED" /\ CheckStarrQueue(qs, t).status # "IMPORTED"
                 THEN MaybeRecord(records[t], map'[t]) ELSE records[t]
      BY <2>1
    <3>2. rows[t] \in {records[t], MaybeRecord(records[t], map'[t])}
      BY <3>1
    <3> QED
      BY <3>1, <3>2
  <2> QED
    BY <2>1, <2>2
<1> SUFFICES ASSUME NEW t \in Titles
             PROVE  Within(map'[t]) /\ Within(rows[t])
  BY <1>0, WithinSaved
<1>1. Within(map[t]) /\ Within(records[t]) /\ records[t] \in Record
  BY DEF BudgetInv, TypeOK
<1>2. PICK qs, have, ready :
        /\ map'[t] = CheckQueueChanges(CheckStarrQueue(qs, t), have, ready)
        /\ rows[t] \in {records[t], MaybeRecord(records[t], map'[t])}
  BY <1>0
<1>3. CheckStarrQueue(qs, t) \in Item
  BY CheckStarrQueueType
<1>4. Within(CheckStarrQueue(qs, t))
  BY <1>1, StarrAssumption DEF StarrAssumption, CheckStarrQueue, NewItem, Within
<1>5. map'[t] \in Item /\ Within(map'[t])
  BY <1>2, <1>3, <1>4, WithinHelpers, CheckQueueChangesType
<1>6. QED
  BY <1>1, <1>2, <1>5, WithinHelpers

LEMMA CleanerBudget ==
  ASSUME TypeOK, BudgetInv, NEW t \in Titles
  PROVE  Within(DoneItems[t]) /\ Within(DoneRecords[t])
<1>1. /\ map[t] \in Item /\ records[t] \in Record /\ DoneItems[t] \in Item
      /\ Within(map[t]) /\ Within(records[t])
  BY DoneType DEF BudgetInv, TypeOK
<1>2. Within(DoneItems[t])
  BY <1>1, WithinHelpers DEF DoneItems
<1>3. QED
  BY <1>1, <1>2, WithinHelpers DEF DoneRecords

\* An item stays within max_retries, and the retries a user asked for beyond
\* them, whatever fails and restarts.
THEOREM RetriesBounded == Spec => []RetryBudget
<1>1. Init => BudgetInv
  BY StarrAssumption DEF StarrAssumption, Init, BudgetInv, Within, Absent, NoRecord
<1>2. TypeOK /\ BudgetInv /\ [Next]_vars => BudgetInv'
  <2> SUFFICES ASSUME TypeOK, BudgetInv, [Next]_vars
               PROVE  BudgetInv'
    OBVIOUS
  <2>1. ASSUME \A t \in Titles : Within(map'[t]) /\ Within(records'[t])
        PROVE  BudgetInv'
    BY <2>1 DEF BudgetInv, Within
  <2>2. ASSUME UNCHANGED <<map, records>> PROVE BudgetInv'
    BY <2>2 DEF BudgetInv, Within
  <2>3. ASSUME NEW found \in SUBSET Titles, ExtractTick(found) PROVE BudgetInv'
    <3>1. \A t \in Titles : Within(map[t]) => Within(Move(map[t], "QUEUED"))
      BY MoveType DEF Within, TypeOK, Status
    <3>2. \A t \in Titles : map'[t] \in {map[t], Move(map[t], "QUEUED")}
      BY <2>3 DEF ExtractTick
    <3>3. map' \in [Titles -> Item]
      BY <2>3, ExtractTickType DEF TypeOK
    <3>4. PICK rows \in [Titles -> Record] :
            /\ SaveRows(rows)
            /\ \A t \in Titles : rows[t] \in {records[t], MaybeRecord(records[t], map'[t])}
      BY <2>3, FoundRows
    <3>5. \A t \in Titles : Within(map'[t]) /\ Within(rows[t])
      BY <3>1, <3>2, <3>3, <3>4, WithinHelpers DEF BudgetInv, TypeOK
    <3>6. QED
      BY <3>4, <3>5, WithinSaved
  <2>4. ASSUME CleanerTick PROVE BudgetInv'
    BY <2>4, CleanerBudget, DoneType, WithinSaved DEF CleanerTick
  <2>5. ASSUME NEW t \in Titles, NEW cleared \in BOOLEAN,
               HandleXtractrCallback(t, cleared)
        PROVE  BudgetInv'
    <3>1. CASE map[t].status = "ABSENT"
      BY <2>2, <2>5, <3>1 DEF HandleXtractrCallback
    <3>2. CASE map[t].status # "ABSENT"
      <4>1. Head(updates[t]) \in Callback /\ map[t] \in Item
        BY <2>5 DEF HandleXtractrCallback, TypeOK
      <4>2. Within(map[t]) => Within(Called(map[t], Head(updates[t]), cleared))
        BY <4>1, WithinHelpers
      <4>3. map' = [map EXCEPT ![t] = Called(@, Head(updates[t]), cleared)]
        BY <2>5, <3>2 DEF HandleXtractrCallback
      <4>4. map'[t] \in Item /\ map'[t] = Called(map[t], Head(updates[t]), cleared)
        BY <4>1, <4>3, CalledType DEF TypeOK
      <4>5. PICK rows \in [Titles -> Record] :
              /\ SaveRows(rows)
              /\ rows[t] = MaybeRecord(records[t], map'[t])
              /\ \A u \in Titles \ {t} : rows[u] = records[u]
        BY <2>5, <3>2, CalledRows
      <4>6. Within(map'[t]) /\ Within(rows[t])
        BY <4>2, <4>4, <4>5, WithinHelpers DEF TypeOK, BudgetInv
      <4>7. \A u \in Titles : Within(map'[u]) /\ Within(rows[u])
        BY <4>3, <4>5, <4>6 DEF BudgetInv, TypeOK
      <4>8. QED
        BY <4>5, <4>7, WithinSaved
    <3>3. QED
      BY <3>1, <3>2
  <2>6. ASSUME NEW t \in Titles, RetryQueueID(t) PROVE BudgetInv'
    <3>1. ASSUME NEW i \in Item PROVE [i EXCEPT !.noRetry = FALSE].retries = i.retries
      BY DEF Item
    <3>2. [Again(map[t]) EXCEPT !.noRetry = FALSE].retries = map[t].retries + 1
      BY <3>1, AgainType DEF TypeOK
    <3>3. map[t].retries \in Nat
      BY DEF TypeOK, Item
    <3>4. map[t].retries + 1 <= MaxRetries + MaxManual
      BY <2>6, <3>3, StarrAssumption DEF StarrAssumption, RetryQueueID
    <3>5. QED
      BY <2>1, <2>6, <3>2, <3>4 DEF RetryQueueID, BudgetInv, Within, TypeOK
  <2>7. ASSUME NEW t \in Titles, ForgetQueueID(t) PROVE BudgetInv'
    <3>1. ASSUME NEW r \in Record, NEW b PROVE [r EXCEPT !.forgotten = b].retries = r.retries
      BY DEF Record
    <3>2. Within(Absent)
      BY StarrAssumption DEF StarrAssumption, Within, Absent
    <3>3. QED
      BY <2>1, <2>7, <3>1, <3>2 DEF ForgetQueueID, BudgetInv, Within, TypeOK
  <2>8. CASE LoopNext
    BY <2>2, <2>3, <2>4, <2>5, <2>6, <2>7, <2>8, PollTickBudget DEF LoopNext, PutStarrList
  <2>9. ASSUME NEW t \in Titles, Age(t) PROVE BudgetInv'
    <3>1. ASSUME NEW i \in Item, NEW n PROVE [i EXCEPT !.age = n].retries = i.retries
      BY DEF Item
    <3>2. QED
      BY <2>1, <2>9, <3>1 DEF Age, BudgetInv, Within, TypeOK
  <2>10. ASSUME NEW S \in SUBSET Titles, DropHistory(S) \/ CapTakesRows(S) PROVE BudgetInv'
    BY <2>1, <2>10, StarrAssumption
    DEF StarrAssumption, DropHistory, CapTakesRows, CapHistory, Without, BudgetInv, Within,
        NoRecord
  <2>11. CASE WorldNext
    BY <2>2, <2>9, <2>10, <2>11 DEF WorldNext, StartJob, FinishJob, DeleteRequest
  <2>12. ASSUME NEW r \in [Titles -> Record], NEW old \in SUBSET Titles,
                NEW aged \in [Titles -> 0..2], Restart(r, old, aged),
                \A t \in Titles : Within(r[t])
         PROVE  BudgetInv'
    <3>1. Within(Absent)
      BY StarrAssumption DEF StarrAssumption, Within, Absent
    <3>2. records' \in [Titles -> Record] /\ \A t \in Titles : records'[t] \in {r[t], NoRecord}
      BY <2>12, RestartType DEF TypeOK
    <3>3. \A t \in Titles : Within(records'[t])
      BY <2>12, <3>2, StarrAssumption DEF StarrAssumption, Within, NoRecord
    <3>4. QED
      BY <2>1, <2>12, <3>1, <3>2, <3>3, WithinRestored DEF Restart
  <2>13. CASE Restarts
    BY <2>12, <2>13, DoneType, CleanerBudget
    DEF Restarts, Crash, CleanerRestart, BudgetInv, TypeOK
  <2>14. CASE UNCHANGED vars
    BY <2>2, <2>14 DEF vars
  <2>15. QED
    BY <2>8, <2>11, <2>13, <2>14 DEF Next
<1>3. BudgetInv => RetryBudget
  BY DEF BudgetInv, RetryBudget, Within
<1>4. QED
  BY <1>1, <1>2, <1>3, TypeCorrect, PTL DEF Spec

-----------------------------------------------------------------------------
(* What a step may never do.                                               *)

\* A tick of the poller takes nothing for imported whose instance is still
\* silent after it.
LEMMA PolledSilence ==
  ASSUME TypeOK, NEW ok \in SUBSET Servers,
         NEW seen \in [Servers -> [Titles -> Listing]], PollTick(ok, seen),
         NEW t \in Titles, map'[t].server \in servers' \ polled', map'[t].status = "IMPORTED"
  PROVE  map[t].status = "IMPORTED"
<1> DEFINE qs == [s \in Servers |-> IF s \in ok THEN seen[s] ELSE queue[s]]
           have == HaveQitem(qs, servers, AppOf[CheckStarrQueue(qs, t).server], t)
<1>1. PICK i \in Item : i = CheckStarrQueue(qs, t)
  BY CheckStarrQueueType
<1>2. map'[t] = CheckQueueChanges(i, have, SnapshotReady(polled', servers', i))
  BY <1>1 DEF PollTick
<1> HIDE DEF qs, have
<1>3. map'[t].server = i.server
  <2>1. \A st \in {"IMPORTED", "WAITING"} : Move(i, st).server = i.server
    BY MoveType DEF Status
  <2>2. [i EXCEPT !.status = "EXTRACTED"].server = i.server
    BY DEF Item
  <2>3. map'[t] # Absent
    BY DEF Absent
  <2> QED
    BY <1>2, <2>1, <2>2, <2>3 DEF CheckQueueChanges
<1>4. ~SnapshotReady(polled', servers', i)
  BY <1>3 DEF SnapshotReady
<1>5. \A st \in {"IMPORTED", "WAITING"} : Move(i, st).status = st
  BY MoveType DEF Status
<1>6. [i EXCEPT !.status = "EXTRACTED"].status = "EXTRACTED"
  BY DEF Item
<1>7. map'[t] = i
  BY <1>2, <1>4, <1>5, <1>6 DEF CheckQueueChanges, Absent
<1> QED
  BY <1>1, <1>7 DEF CheckStarrQueue, NewItem

\* As long as an instance is silent none of its items is newly taken for
\* imported, handed to xtractr or has files deleted.
THEOREM SilenceKeeps == Spec => SilenceDecidesNothing
<1> DEFINE Kept(t) ==
      map'[t].server \in servers' \ polled' =>
        /\ map'[t].status = "IMPORTED" => "IMPORTED" \in {map[t].status, records[t].status}
        /\ jobs'[t] <= jobs[t]
        /\ delChan'[t] <= delChan[t]
<1>1. TypeOK /\ [Next]_vars => \A t \in Titles : Kept(t)
  <2> SUFFICES ASSUME TypeOK, [Next]_vars, NEW t \in Titles PROVE Kept(t)
    OBVIOUS
  <2>1. map[t] \in Item /\ records[t] \in Record /\ jobs[t] \in Nat /\ delChan[t] \in Nat
    BY DEF TypeOK
  <2>2. ASSUME map'[t].status = "IMPORTED" => map[t].status = "IMPORTED",
               jobs'[t] <= jobs[t], delChan'[t] <= delChan[t]
        PROVE  Kept(t)
    BY <2>2
  <2>3. ASSUME NEW ok \in SUBSET Servers, NEW seen \in [Servers -> [Titles -> Listing]],
               PollTick(ok, seen)
        PROVE  Kept(t)
    <3>1. jobs' = jobs /\ delChan' = delChan
      BY <2>3 DEF PollTick
    <3> QED
      BY <2>1, <2>3, <3>1, PolledSilence
  <2>4. ASSUME NEW found \in SUBSET Titles, ExtractTick(found) PROVE Kept(t)
    <3>1. CASE t \in found
      <4>1. map'[t].server = map[t].server
        BY <2>4, <3>1 DEF ExtractTick, Move
      <4>2. map'[t].server \notin servers' \ polled'
        BY <2>4, <3>1, <4>1 DEF ExtractTick, Startable, SnapshotReady
      <4> QED
        BY <4>2
    <3>2. CASE t \notin found
      BY <2>1, <2>2, <2>4, <3>2 DEF ExtractTick
    <3> QED
      BY <3>1, <3>2
  <2>5. CASE CleanerTick
    <3>1. map'[t] = CheckExtractDone(map[t], t) /\ jobs' = jobs /\ delChan' = DoneDeletes
      BY <2>5 DEF CleanerTick, DoneItems
    <3>2. map'[t].status = "IMPORTED" => map[t].status = "IMPORTED"
      <4>1. Move(map[t], "DELETED").status = "DELETED"
        BY <2>1, MoveType DEF Status
      <4> QED
        BY <2>1, <3>1, <4>1, AgainType DEF CheckExtractDone, Absent
    <3>3. CASE DeletesFiles(map[t], t)
      <4>1. Cleanable(map[t], t)
        BY <3>3 DEF DeletesFiles
      <4>2. map'[t] = Move(map[t], "DELETED")
        BY <3>1, <4>1 DEF CheckExtractDone, Cleanable, Finishes, Retries, GivesUp
      <4>3. map'[t].server = map[t].server
        BY <4>2 DEF Move
      <4>4. map'[t].server \notin servers' \ polled'
        BY <2>5, <4>1, <4>3 DEF CleanerTick, Cleanable, SnapshotReady
      <4> QED
        BY <4>4
    <3>4. CASE ~DeletesFiles(map[t], t)
      BY <2>1, <2>2, <3>1, <3>2, <3>4 DEF DoneDeletes
    <3> QED
      BY <3>3, <3>4
  <2>6. ASSUME NEW u \in Titles, NEW cleared \in BOOLEAN, HandleXtractrCallback(u, cleared)
        PROVE  Kept(t)
    <3>1. jobs' = jobs /\ delChan' = delChan
      BY <2>6 DEF HandleXtractrCallback
    <3>2. CASE map'[t] = map[t]
      BY <2>1, <2>2, <3>1, <3>2
    <3>3. CASE map'[t] # map[t]
      <4>1. u = t /\ map'[t] = Called(map[t], Head(updates[t]), cleared)
        BY <2>6, <3>3 DEF HandleXtractrCallback, TypeOK
      <4>2. Head(updates[t]) \in Callback
        BY <2>6, <4>1 DEF HandleXtractrCallback, TypeOK
      <4>3. map'[t].status # "IMPORTED"
        BY <2>1, <4>1, <4>2, CalledType
      <4> QED
        BY <2>1, <2>2, <3>1, <4>3
    <3> QED
      BY <3>2, <3>3
  <2>7. ASSUME NEW u \in Titles, RetryQueueID(u) \/ ForgetQueueID(u) PROVE Kept(t)
    <3>1. jobs' = jobs /\ delChan' = delChan
      BY <2>7 DEF RetryQueueID, ForgetQueueID
    <3>2. ASSUME NEW i \in Item PROVE [i EXCEPT !.noRetry = FALSE].status = i.status
      BY DEF Item
    <3>3. map'[t] = map[t] \/ map'[t].status \in {"WAITING", "ABSENT"}
      <4>1. \/ map'[t] = map[t]
            \/ map'[t] = [Again(map[t]) EXCEPT !.noRetry = FALSE]
            \/ map'[t] = Absent
        <5>1. CASE RetryQueueID(u)
          BY <2>1, <5>1 DEF RetryQueueID, TypeOK
        <5>2. CASE ForgetQueueID(u)
          BY <2>1, <5>2 DEF ForgetQueueID, TypeOK
        <5> QED
          BY <2>7, <5>1, <5>2
      <4>2. [Again(map[t]) EXCEPT !.noRetry = FALSE].status = "WAITING"
        BY <2>1, <3>2, AgainType
      <4>3. Absent.status = "ABSENT"
        BY DEF Absent
      <4> QED
        BY <4>1, <4>2, <4>3
    <3> QED
      BY <2>1, <2>2, <3>1, <3>3
  <2>8. CASE LoopNext
    <3>1. ASSUME NEW s \in Servers, NEW next \in SUBSET Servers, NEW same \in SUBSET Servers,
                 PutStarrList(AppOf[s], next, same)
          PROVE  Kept(t)
      BY <2>1, <2>2, <3>1 DEF PutStarrList
    <3> QED
      BY <2>3, <2>4, <2>5, <2>6, <2>7, <2>8, <3>1 DEF LoopNext
  <2>9. ASSUME NEW u \in Titles, Age(u) PROVE Kept(t)
    <3>1. ASSUME NEW i \in Item, NEW n PROVE [i EXCEPT !.age = n].status = i.status
      BY DEF Item
    <3>2. map'[t].status = map[t].status
      <4>1. map'[t] = map[t] \/ map'[t] = [map[t] EXCEPT !.age = @ + 1]
        BY <2>9 DEF Age, TypeOK
      <4> QED
        BY <2>1, <3>1, <4>1
    <3>3. jobs' = jobs /\ delChan' = delChan
      BY <2>9 DEF Age
    <3> QED
      BY <2>1, <2>2, <3>2, <3>3
  <2>10. CASE WorldNext
    <3>1. ASSUME NEW u \in Titles, StartJob(u) PROVE Kept(t)
      <4>1. jobs'[t] <= jobs[t]
        BY <2>1, <3>1 DEF StartJob, TypeOK
      <4>2. map' = map /\ delChan' = delChan
        BY <3>1 DEF StartJob
      <4> QED
        BY <2>1, <2>2, <4>1, <4>2
    <3>2. ASSUME NEW u \in Titles, DeleteRequest(u) PROVE Kept(t)
      <4>1. delChan'[t] <= delChan[t]
        BY <2>1, <3>2 DEF DeleteRequest, TypeOK
      <4>2. map' = map /\ jobs' = jobs
        BY <3>2 DEF DeleteRequest
      <4> QED
        BY <2>1, <2>2, <4>1, <4>2
    <3>3. ASSUME map' = map, jobs' = jobs, delChan' = delChan PROVE Kept(t)
      BY <2>1, <2>2, <3>3
    <3> QED
      BY <2>9, <2>10, <3>1, <3>2, <3>3
      DEF WorldNext, FinishJob, DropHistory, CapTakesRows
  <2>11. CASE Restarts
    <3>1. PICK r \in [Titles -> Record], old \in SUBSET Titles, aged \in [Titles -> 0..2] :
            /\ Restart(r, old, aged)
            /\ r[t].status = "IMPORTED" => records[t].status = "IMPORTED"
      <4>1. DoneRecords[t].status = "IMPORTED" => records[t].status = "IMPORTED"
        <5>1. \A st \in {"DELETED"} : Move(map[t], st).status = st
          BY <2>1, MoveType DEF Status
        <5> QED
          BY <2>1, <5>1, AgainType
          DEF DoneRecords, DoneItems, CheckExtractDone, MaybeRecord, RecordOf,
              GivesUp, Stale, Cleanable, Finishes, Retries
      <4> QED
        BY <2>11, <4>1, DoneType DEF Restarts, Crash, CleanerRestart, TypeOK
    <3>2. records'[t] \in {r[t], NoRecord} /\ records'[t] \in Record
      BY <3>1, RestartType DEF TypeOK
    <3>3. map'[t].status = "IMPORTED" => records'[t].status = "IMPORTED"
      <4>1. \A age \in 0..2 : Restored(records'[t], age).status = "IMPORTED"
              => records'[t].status = "IMPORTED"
        BY <3>2, RestoredType
      <4> QED
        BY <3>1, <4>1 DEF Restart, Absent
    <3>4. map'[t].status = "IMPORTED" => records[t].status = "IMPORTED"
      BY <3>1, <3>2, <3>3 DEF NoRecord
    <3>5. jobs'[t] = 0 /\ delChan'[t] = 0
      BY <3>1 DEF Restart
    <3> QED
      BY <2>1, <3>4, <3>5
  <2>12. CASE UNCHANGED vars
    BY <2>1, <2>2, <2>12 DEF vars
  <2> QED
    BY <2>8, <2>10, <2>11, <2>12 DEF Next
<1> QED
  BY <1>1, TypeCorrect, PTL DEF Spec, SilenceDecidesNothing

-----------------------------------------------------------------------------
(* What the history rows keep of the live queue, where a history is kept   *)
(* (keep_history > 0) and the user does not clear it: the row of every     *)
(* live item resumes it after a crash, and no restart loses a tombstone,   *)
(* unless the cap took the row.                                            *)

RowFits(i, r, c) ==
  i.status \notin {"ABSENT", "WAITING"} =>
    \/ Resumes(i, r)
    \/ r = NoRecord /\ c /\ i.status \notin {"QUEUED", "EXTRACTING"}

RowsInv == \A t \in Titles : RowFits(map[t], records[t], t \in capped)

\* The row just written of an item fits it.
LEMMA RecordedFits ==
  ASSUME KeepHistory, NEW i \in Item, NEW r \in Record, NEW c
  PROVE  RowFits(i, MaybeRecord(r, i), c)
BY DEF RowFits, Resumes, MaybeRecord, RecordOf, Item

\* A row the cap takes is missing from then on, and its item is none that
\* xtractr works on.
LEMMA CappedFits ==
  ASSUME NEW rows \in [Titles -> Record], NEW cut \in SUBSET Completed(rows),
         CapHistory(rows, cut),
         \A t \in Titles : RowFits(map'[t], rows[t], t \in capped)
  PROVE  RowsInv'
<1> SUFFICES ASSUME NEW t \in Titles PROVE RowFits(map'[t], records'[t], t \in capped')
  BY DEF RowsInv, RowFits, Resumes
<1>1. /\ records' = Without(rows, cut)
      /\ t \in capped' <=> t \in cut \/ (t \in capped /\ rows[t] = NoRecord)
  BY DEF CapHistory, Completed
<1>2. RowFits(map'[t], rows[t], t \in capped)
  OBVIOUS
<1>3. CASE t \notin cut
  <2>1. records'[t] = rows[t]
    BY <1>1, <1>3, CappedRows
  <2> QED
    BY <1>1, <1>2, <2>1 DEF RowFits
<1>4. CASE t \in cut
  <2>1. records'[t] = NoRecord /\ rows[t].status \in Durable /\ t \in capped'
    BY <1>1, <1>4, CappedRows
  <2>2. rows[t] # NoRecord
    BY <2>1 DEF NoRecord, Durable
  <2>3. map'[t].status \notin {"ABSENT", "WAITING"} => Resumes(map'[t], rows[t])
    BY <1>2, <2>2 DEF RowFits
  <2> QED
    BY <2>1, <2>3 DEF RowFits, Resumes, Durable
<1> QED
  BY <1>3, <1>4

LEMMA SavedFits ==
  ASSUME NEW rows \in [Titles -> Record], SaveRows(rows),
         \A t \in Titles : RowFits(map'[t], rows[t], t \in capped)
  PROVE  RowsInv'
<1>1. PICK cut \in SUBSET Completed(rows) : CapHistory(rows, cut)
  BY DEF SaveRows
<1> QED
  BY <1>1, CappedFits

\* What a restart makes of a row fits the row.
LEMMA RestoredFits ==
  ASSUME NEW r \in Record, NEW age \in 0..2, NEW c
  PROVE  RowFits(Restored(r, age), r, c)
<1> DEFINE i == [status |-> r.status, server |-> r.server,
                 retries |-> r.retries, noRetry |-> r.noRetry,
                 files |-> r.files, age |-> age]
<1>1. i \in Item /\ i.status = r.status /\ i.noRetry = r.noRetry
  BY DEF Item, Record
<1>2. \A st \in {"WAITING", "EXTRACTED", "EXTRACTFAILED"} :
        Move(i, st) \in Item /\ Move(i, st).status = st /\ Move(i, st).noRetry = r.noRetry
  BY <1>1, MoveType DEF Status
<1>3. ASSUME NEW a, NEW j \in Item
      PROVE  /\ [j EXCEPT !.age = a].status = j.status
             /\ [j EXCEPT !.age = a].noRetry = j.noRetry
  BY DEF Item
<1>4. r.forgotten \in BOOLEAN /\ r.status \in Status \cup {"ABSENT"}
  BY DEF Record
<1> HIDE DEF i
<1>5. CASE r.forgotten \/ r.status \in {"ABSENT", "DELETED"}
  BY <1>5 DEF Restored, i, Absent, RowFits
<1>6. CASE ~r.forgotten /\ r.status = "QUEUED"
  BY <1>2, <1>6 DEF Restored, i, RowFits
<1>7. CASE ~r.forgotten /\ r.status = "EXTRACTING"
  <2>1. Restored(r, age) = [Move(i, "EXTRACTFAILED") EXCEPT
                              !.age = IF r.noRetry THEN age ELSE 1]
    BY <1>7 DEF Restored, i
  <2>2. /\ Restored(r, age).status = "EXTRACTFAILED"
        /\ Restored(r, age).noRetry = r.noRetry
    BY <1>2, <1>3, <2>1
  <2>3. QED
    BY <1>7, <2>2 DEF RowFits, Resumes
<1>8. CASE ~r.forgotten /\ r.status \in {"WAITING", "EXTRACTFAILED", "EXTRACTED", "IMPORTED"}
  BY <1>1, <1>2, <1>8 DEF Restored, i, RowFits, Resumes
<1>9. QED
  BY <1>4, <1>5, <1>6, <1>7, <1>8 DEF Status

-----------------------------------------------------------------------------
(* The steps of the loop that change an item with or without its row.      *)

LEMMA PollTickRows ==
  ASSUME KeepHistory, TypeOK, RowsInv, NEW ok \in SUBSET Servers,
         NEW seen \in [Servers -> [Titles -> Listing]], PollTick(ok, seen)
  PROVE  RowsInv'
<1>0. PICK rows \in [Titles -> Record] :
        /\ SaveRows(rows)
        /\ \A t \in Titles : \E qs, have, ready :
             /\ map'[t] = CheckQueueChanges(CheckStarrQueue(qs, t), have, ready)
             /\ rows[t] =
                  IF map'[t].status = "IMPORTED" /\ CheckStarrQueue(qs, t).status # "IMPORTED"
                  THEN MaybeRecord(records[t], map'[t]) ELSE records[t]
  BY PolledRows
<1> SUFFICES ASSUME NEW t \in Titles PROVE RowFits(map'[t], rows[t], t \in capped)
  BY <1>0, SavedFits
<1>1. PICK i, have, ready :
        /\ i \in Item
        /\ i.status # "WAITING" => i = map[t]
        /\ map'[t] = CheckQueueChanges(i, have, ready)
        /\ rows[t] = IF map'[t].status = "IMPORTED" /\ i.status # "IMPORTED"
                     THEN MaybeRecord(records[t], map'[t]) ELSE records[t]
  <2>1. PICK qs, have, ready :
          /\ map'[t] = CheckQueueChanges(CheckStarrQueue(qs, t), have, ready)
          /\ rows[t] =
               IF map'[t].status = "IMPORTED" /\ CheckStarrQueue(qs, t).status # "IMPORTED"
               THEN MaybeRecord(records[t], map'[t]) ELSE records[t]
    BY <1>0
  <2>2. CheckStarrQueue(qs, t) \in Item
    BY CheckStarrQueueType
  <2>3. CheckStarrQueue(qs, t).status # "WAITING" => CheckStarrQueue(qs, t) = map[t]
    BY DEF CheckStarrQueue, NewItem
  <2>4. QED
    BY <2>1, <2>2, <2>3
<1>2. map'[t] \in Item /\ records[t] \in Record
  BY <1>1, CheckQueueChangesType DEF TypeOK
<1>3. i.status # "WAITING" => RowFits(i, records[t], t \in capped)
  BY <1>1 DEF RowsInv
<1>4. CASE map'[t].status = "IMPORTED" /\ i.status # "IMPORTED"
  BY <1>1, <1>2, <1>4, RecordedFits
<1>5. CASE i.status = "IMPORTED" /\ map'[t] = [i EXCEPT !.status = "EXTRACTED"]
  <2>1. map'[t].status = "EXTRACTED" /\ map'[t].noRetry = i.noRetry
    BY <1>1, <1>5 DEF Item
  <2>2. QED
    BY <1>1, <1>3, <1>5, <2>1 DEF RowFits, Resumes
<1>6. CASE map'[t] = i
  BY <1>1, <1>3, <1>6 DEF RowFits
<1>7. CASE map'[t].status \in {"ABSENT", "WAITING"}
  BY <1>7 DEF RowFits
<1>8. \/ map'[t] = i
      \/ map'[t].status \in {"ABSENT", "WAITING"}
      \/ i.status = "IMPORTED" /\ map'[t] = [i EXCEPT !.status = "EXTRACTED"]
      \/ map'[t].status = "IMPORTED" /\ i.status # "IMPORTED"
  BY <1>1, MoveType DEF CheckQueueChanges, Status, Absent
<1>9. QED
  BY <1>4, <1>5, <1>6, <1>7, <1>8

\* What checkExtractDone leaves, for the cleaner tick and the idle restart.
LEMMA DoneFits ==
  ASSUME KeepHistory, TypeOK, RowsInv, NEW t \in Titles
  PROVE  RowFits(DoneItems[t], DoneRecords[t], t \in capped)
<1>1. /\ map[t] \in Item /\ records[t] \in Record /\ DoneItems[t] \in Item
      /\ RowFits(map[t], records[t], t \in capped)
  BY DoneType DEF RowsInv, TypeOK
<1>2. CASE GivesUp(map[t]) \/ Stale(map[t]) \/ Cleanable(map[t], t)
  BY <1>1, <1>2, RecordedFits DEF DoneRecords
<1>3. CASE ~(GivesUp(map[t]) \/ Stale(map[t]) \/ Cleanable(map[t], t))
  <2>1. DoneRecords[t] = records[t]
    BY <1>3 DEF DoneRecords
  <2>2. DoneItems[t] \in {Absent, Again(map[t]), map[t]}
    BY <1>3 DEF DoneItems, CheckExtractDone
  <2>3. QED
    BY <1>1, <2>1, <2>2, AgainType DEF RowFits, Absent
<1>4. QED
  BY <1>2, <1>3

-----------------------------------------------------------------------------
\* The row of every live item that does not wait is one a restart resumes it
\* from, or was completed and taken by the cap.
LEMMA RowsInvariant ==
  ASSUME KeepHistory, ~HistoryEdits
  PROVE  Spec => []RowsInv
<1>1. Init => RowsInv
  BY DEF Init, RowsInv, RowFits, Absent
<1>2. TypeOK /\ RowsInv /\ [Next]_vars => RowsInv'
  <2> SUFFICES ASSUME TypeOK, RowsInv, [Next]_vars
               PROVE  RowsInv'
    OBVIOUS
  <2>1. ASSUME \A t \in Titles : RowFits(map'[t], records'[t], t \in capped') PROVE RowsInv'
    BY <2>1 DEF RowsInv, RowFits, Resumes
  <2>2. ASSUME UNCHANGED <<map, records, capped>> PROVE RowsInv'
    BY <2>1, <2>2 DEF RowsInv
  <2>3. ASSUME NEW found \in SUBSET Titles, ExtractTick(found) PROVE RowsInv'
    <3>1. \A t \in Titles : map'[t] \in Item /\ records[t] \in Record
      BY <2>3, ExtractTickType DEF TypeOK
    <3>2. PICK rows \in [Titles -> Record] :
            /\ SaveRows(rows)
            /\ \A t \in found : rows[t] = MaybeRecord(records[t], map'[t])
            /\ \A t \in Titles \ found : rows[t] = records[t]
      BY <2>3, FoundRows
    <3>3. \A t \in found : RowFits(map'[t], rows[t], t \in capped)
      BY <3>1, <3>2, RecordedFits
    <3>4. \A t \in Titles \ found : map'[t] = map[t]
      BY <2>3 DEF ExtractTick
    <3>5. \A t \in Titles : RowFits(map'[t], rows[t], t \in capped)
      BY <3>2, <3>3, <3>4 DEF RowsInv
    <3>6. QED
      BY <3>2, <3>5, SavedFits
  <2>4. ASSUME CleanerTick PROVE RowsInv'
    BY <2>4, DoneFits, DoneType, SavedFits DEF CleanerTick
  <2>5. ASSUME NEW t \in Titles, NEW cleared \in BOOLEAN,
               HandleXtractrCallback(t, cleared)
        PROVE  RowsInv'
    <3>1. CASE map[t].status = "ABSENT"
      BY <2>2, <2>5, <3>1 DEF HandleXtractrCallback
    <3>2. CASE map[t].status # "ABSENT"
      <4>1. map'[t] \in Item /\ records[t] \in Record
        BY <2>5, HandleXtractrCallbackType DEF TypeOK
      <4>2. PICK rows \in [Titles -> Record] :
              /\ SaveRows(rows)
              /\ rows[t] = MaybeRecord(records[t], map'[t])
              /\ \A u \in Titles \ {t} : rows[u] = records[u]
        BY <2>5, <3>2, CalledRows
      <4>3. \A u \in Titles \ {t} : map'[u] = map[u]
        BY <2>5, <3>2 DEF HandleXtractrCallback, TypeOK
      <4>4. RowFits(map'[t], rows[t], t \in capped)
        BY <4>1, <4>2, RecordedFits
      <4>5. \A u \in Titles : RowFits(map'[u], rows[u], u \in capped)
        BY <4>2, <4>3, <4>4 DEF RowsInv
      <4>6. QED
        BY <4>2, <4>5, SavedFits
    <3>3. QED
      BY <3>1, <3>2
  <2>6. ASSUME NEW t \in Titles, RetryQueueID(t) PROVE RowsInv'
    <3>1. ASSUME NEW i \in Item PROVE [i EXCEPT !.noRetry = FALSE].status = i.status
      BY DEF Item
    <3>2. map'[t].status = "WAITING"
      BY <2>6, <3>1, AgainType DEF RetryQueueID, TypeOK
    <3>3. QED
      BY <2>1, <2>6, <3>2 DEF RetryQueueID, RowsInv, RowFits, TypeOK
  <2>7. ASSUME NEW t \in Titles, ForgetQueueID(t) PROVE RowsInv'
    <3>1. map'[t].status = "ABSENT"
      BY <2>7 DEF ForgetQueueID, Absent, TypeOK
    <3>2. \A u \in Titles \ {t} : map'[u] = map[u] /\ records'[u] = records[u]
      BY <2>7 DEF ForgetQueueID, TypeOK
    <3>3. QED
      BY <2>1, <2>7, <3>1, <3>2 DEF RowsInv, RowFits, ForgetQueueID
  <2>8. CASE LoopNext
    BY <2>2, <2>3, <2>4, <2>5, <2>6, <2>7, <2>8, PollTickRows DEF LoopNext, PutStarrList
  <2>9. ASSUME NEW t \in Titles, Age(t) PROVE RowsInv'
    <3>1. ASSUME NEW i \in Item, NEW n
          PROVE  /\ [i EXCEPT !.age = n].status = i.status
                 /\ [i EXCEPT !.age = n].noRetry = i.noRetry
      BY DEF Item
    <3>2. /\ map'[t].status = map[t].status /\ map'[t].noRetry = map[t].noRetry
          /\ records' = records /\ capped' = capped
          /\ \A u \in Titles \ {t} : map'[u] = map[u]
      BY <2>9, <3>1 DEF Age, TypeOK
    <3>3. QED
      BY <2>1, <3>2 DEF RowsInv, RowFits, Resumes
  <2>14. ASSUME NEW cut \in SUBSET Titles, CapTakesRows(cut) PROVE RowsInv'
    BY <2>14, CappedFits DEF CapTakesRows, RowsInv, TypeOK
  <2>10. CASE WorldNext
    BY <2>2, <2>9, <2>10, <2>14 DEF WorldNext, StartJob, FinishJob, DeleteRequest, DropHistory
  <2>11. CASE Restarts
    <3>1. PICK r \in [Titles -> Record], old \in SUBSET Titles,
               aged \in [Titles -> 0..2] : Restart(r, old, aged)
      BY <2>11, DoneType DEF Restarts, Crash, CleanerRestart, TypeOK
    <3>2. \A t \in Titles : map'[t] = Absent \/ map'[t] = Restored(records'[t], aged[t])
      BY <3>1 DEF Restart
    <3>3. \A t \in Titles : RowFits(Restored(records'[t], aged[t]), records'[t], t \in capped')
      BY <3>1, RestartType, RestoredFits DEF TypeOK
    <3>4. QED
      BY <2>1, <3>1, <3>2, <3>3 DEF RowFits, Absent
  <2>12. CASE UNCHANGED vars
    BY <2>2, <2>12 DEF vars
  <2>13. QED
    BY <2>8, <2>10, <2>11, <2>12 DEF Next
<1>3. QED
  BY <1>1, <1>2, TypeCorrect, PTL DEF Spec

\* A crash loses no import wait, no delete delay and no give-up but those whose
\* completed row the cap of keep_history took: every other live item's row
\* resumes it, and what xtractr works on has its row.
THEOREM RowsResumeItems == Spec => []RowsResume
<1>1. CASE KeepHistory /\ ~HistoryEdits
  <2>1. RowsInv => RowsResume
    BY DEF RowsInv, RowFits, RowsResume
  <2>2. QED
    BY <1>1, <2>1, RowsInvariant, PTL
<1>2. CASE ~(KeepHistory /\ ~HistoryEdits)
  <2>1. RowsResume
    BY <1>2 DEF RowsResume
  <2>2. QED
    BY <2>1, PTL
<1>3. QED
  BY <1>1, <1>2

-----------------------------------------------------------------------------
(* Tombstones.  The row of a forgotten title is flagged, and stays so as    *)
(* long as the title stays out of the live queue; a restart therefore puts  *)
(* every tombstone back whose row the cap has left, and only a poll lifts   *)
(* one.                                                                     *)

FlaggedRows ==
  \A t \in forgotten :
    records[t].forgotten \/ (t \in capped /\ records[t] = NoRecord)

\* checkExtractDone writes no row of a title the loop does not hold.
LEMMA DoneKeepsRow ==
  ASSUME NEW t \in Titles, map[t].status = "ABSENT"
  PROVE  DoneRecords[t] = records[t]
BY DEF DoneRecords, GivesUp, Stale, Cleanable

\* Nor does a step that leaves the title out of the live queue; the cap may.
LEMMA FlaggedKept ==
  ASSUME TypeOK, FlaggedRows, forgotten' \subseteq forgotten, capped' = capped,
         \A t \in forgotten : records'[t] = records[t]
  PROVE  FlaggedRows'
BY DEF FlaggedRows

LEMMA FlaggedCapped ==
  ASSUME TypeOK, FlaggedRows, forgotten' \subseteq forgotten,
         NEW rows \in [Titles -> Record], NEW cut \in SUBSET Completed(rows),
         CapHistory(rows, cut),
         \A t \in forgotten : rows[t] = records[t] \/ rows[t].forgotten
  PROVE  FlaggedRows'
<1> SUFFICES ASSUME NEW t \in forgotten
             PROVE  records'[t].forgotten \/ (t \in capped' /\ records'[t] = NoRecord)
  BY DEF FlaggedRows
<1>1. records' = Without(rows, cut) /\ capped' = cut \cup {u \in capped : rows[u] = NoRecord}
  BY DEF CapHistory
<1>2. /\ t \in Titles
      /\ t \notin cut => records'[t] = rows[t]
      /\ t \in cut => records'[t] = NoRecord
  BY <1>1, CappedRows DEF TypeOK
<1>3. records[t].forgotten \/ (t \in capped /\ records[t] = NoRecord)
  BY DEF FlaggedRows
<1> QED
  BY <1>1, <1>2, <1>3 DEF NoRecord

LEMMA FlaggedSaved ==
  ASSUME TypeOK, FlaggedRows, forgotten' \subseteq forgotten,
         NEW rows \in [Titles -> Record], SaveRows(rows),
         \A t \in forgotten : rows[t] = records[t]
  PROVE  FlaggedRows'
<1>1. PICK cut \in SUBSET Completed(rows) : CapHistory(rows, cut)
  BY DEF SaveRows
<1> QED
  BY <1>1, FlaggedCapped

LEMMA FlaggedInvariant ==
  ASSUME KeepHistory, ~HistoryEdits
  PROVE  Spec => []FlaggedRows
<1>1. Init => FlaggedRows
  BY DEF Init, FlaggedRows
<1>2. TypeOK /\ ForgottenStayOut /\ RowsInv /\ FlaggedRows /\ [Next]_vars => FlaggedRows'
  <2> SUFFICES ASSUME TypeOK, ForgottenStayOut, RowsInv, FlaggedRows, [Next]_vars
               PROVE  FlaggedRows'
    OBVIOUS
  <2>1. \A t \in forgotten : t \in Titles /\ map[t].status = "ABSENT"
    BY DEF ForgottenStayOut, TypeOK
  <2>2. ASSUME NEW ok \in SUBSET Servers,
               NEW seen \in [Servers -> [Titles -> Listing]], PollTick(ok, seen)
        PROVE  FlaggedRows'
    <3>1. forgotten' \subseteq forgotten
      BY <2>2 DEF PollTick, SweepForgotten
    <3>2. PICK rows \in [Titles -> Record] :
            /\ SaveRows(rows)
            /\ \A t \in Titles : \E qs, have, ready :
                 rows[t] =
                   IF /\ CheckQueueChanges(CheckStarrQueue(qs, t), have, ready).status = "IMPORTED"
                      /\ CheckStarrQueue(qs, t).status # "IMPORTED"
                   THEN MaybeRecord(records[t],
                          CheckQueueChanges(CheckStarrQueue(qs, t), have, ready))
                   ELSE records[t]
      <4>1. PICK rows \in [Titles -> Record] :
              /\ SaveRows(rows)
              /\ \A t \in Titles : \E qs, have, ready :
                   /\ map'[t] = CheckQueueChanges(CheckStarrQueue(qs, t), have, ready)
                   /\ rows[t] =
                        IF map'[t].status = "IMPORTED" /\ CheckStarrQueue(qs, t).status # "IMPORTED"
                        THEN MaybeRecord(records[t], map'[t]) ELSE records[t]
        BY <2>2, PolledRows
      <4>2. ASSUME NEW t \in Titles
            PROVE  \E qs, have, ready :
                     rows[t] =
                       IF /\ CheckQueueChanges(CheckStarrQueue(qs, t), have, ready).status
                               = "IMPORTED"
                          /\ CheckStarrQueue(qs, t).status # "IMPORTED"
                       THEN MaybeRecord(records[t],
                              CheckQueueChanges(CheckStarrQueue(qs, t), have, ready))
                       ELSE records[t]
        <5>1. PICK qs, have, ready :
                /\ map'[t] = CheckQueueChanges(CheckStarrQueue(qs, t), have, ready)
                /\ rows[t] =
                     IF map'[t].status = "IMPORTED" /\ CheckStarrQueue(qs, t).status # "IMPORTED"
                     THEN MaybeRecord(records[t], map'[t]) ELSE records[t]
          BY <4>1
        <5> QED
          BY <5>1
      <4> QED
        BY <4>1, <4>2
    <3>3. ASSUME NEW t \in forgotten PROVE rows[t] = records[t]
      <4>1. \A qs : CheckStarrQueue(qs, t) = map[t]
        BY <3>3 DEF CheckStarrQueue
      <4>2. \A have, ready : CheckQueueChanges(map[t], have, ready) = map[t]
        BY <2>1 DEF CheckQueueChanges
      <4>3. QED
        BY <2>1, <3>2, <4>1, <4>2
    <3>4. QED
      BY <3>1, <3>2, <3>3, FlaggedSaved
  <2>3. ASSUME NEW found \in SUBSET Titles, ExtractTick(found) PROVE FlaggedRows'
    <3>1. PICK rows \in [Titles -> Record] :
            SaveRows(rows) /\ \A t \in Titles \ found : rows[t] = records[t]
      BY <2>3, FoundRows
    <3>2. \A t \in forgotten : t \in Titles \ found
      BY <2>1, <2>3 DEF ExtractTick, Startable
    <3> QED
      BY <2>3, <3>1, <3>2, FlaggedSaved DEF ExtractTick
  <2>4. ASSUME CleanerTick PROVE FlaggedRows'
    BY <2>1, <2>4, DoneKeepsRow, DoneType, FlaggedSaved DEF CleanerTick
  <2>5. ASSUME NEW t \in Titles, NEW cleared \in BOOLEAN,
               HandleXtractrCallback(t, cleared)
        PROVE  FlaggedRows'
    <3>1. CASE map[t].status = "ABSENT"
      BY <2>5, <3>1, FlaggedKept DEF HandleXtractrCallback
    <3>2. CASE map[t].status # "ABSENT"
      <4>1. PICK rows \in [Titles -> Record] :
              SaveRows(rows) /\ \A u \in Titles \ {t} : rows[u] = records[u]
        BY <2>5, <3>2, CalledRows
      <4>2. forgotten' = forgotten /\ \A u \in forgotten : u \in Titles \ {t}
        BY <2>1, <2>5, <3>2 DEF HandleXtractrCallback
      <4> QED
        BY <4>1, <4>2, FlaggedSaved
    <3> QED
      BY <3>1, <3>2
  <2>6. ASSUME NEW t \in Titles, ForgetQueueID(t) PROVE FlaggedRows'
    <3>1. records[t].status # "ABSENT" \/ (t \in capped /\ records[t] = NoRecord)
      BY <2>6 DEF ForgetQueueID, RowsInv, RowFits, Resumes, Durable
    <3>2. records'[t].forgotten \/ (t \in capped' /\ records'[t] = NoRecord)
      <4>1. CASE records[t].status # "ABSENT"
        BY <2>6, <4>1 DEF ForgetQueueID, TypeOK, Record
      <4>2. CASE t \in capped /\ records[t] = NoRecord
        <5>1. records'[t] = [records[t] EXCEPT !.forgotten = (records[t].status # "ABSENT")]
          BY <2>6 DEF ForgetQueueID, TypeOK
        <5>2. records'[t] = [NoRecord EXCEPT !.forgotten = (NoRecord.status # "ABSENT")]
          BY <4>2, <5>1
        <5>3. records'[t] = NoRecord
          BY <5>2 DEF NoRecord
        <5> QED
          BY <2>6, <4>2, <5>3 DEF ForgetQueueID
      <4> QED
        BY <3>1, <4>1, <4>2
    <3>3. \A u \in Titles \ {t} : records'[u] = records[u]
      BY <2>6 DEF ForgetQueueID, TypeOK
    <3>4. QED
      BY <2>1, <2>6, <3>2, <3>3 DEF ForgetQueueID, FlaggedRows
  <2>7. ASSUME NEW t \in Titles, RetryQueueID(t) PROVE FlaggedRows'
    BY <2>7, FlaggedKept DEF RetryQueueID
  <2>8. CASE LoopNext
    BY <2>2, <2>3, <2>4, <2>5, <2>6, <2>7, <2>8, FlaggedKept DEF LoopNext, PutStarrList
  <2>9. CASE WorldNext
    <3>1. ASSUME NEW cut \in SUBSET Titles, CapTakesRows(cut) PROVE FlaggedRows'
      BY <3>1, FlaggedCapped DEF CapTakesRows, TypeOK
    <3> QED
      BY <2>9, <3>1, FlaggedKept
      DEF WorldNext, StartJob, FinishJob, DeleteRequest, DropHistory, Age
  <2>10. CASE Restarts
    BY <2>10 DEF Restarts, Crash, CleanerRestart, Restart, FlaggedRows
  <2>11. CASE UNCHANGED vars
    BY <2>11, FlaggedKept DEF vars
  <2>12. QED
    BY <2>8, <2>9, <2>10, <2>11 DEF Next
<1>3. QED
  BY <1>1, <1>2, TypeCorrect, ForgottenTitles, RowsInvariant, PTL DEF Spec

\* A tombstone is lifted by a poll, once every configured instance was polled
\* and lists the title no more; a restart loses one only with the row the cap
\* took.
THEOREM TombstonesLifted ==
  ASSUME KeepHistory, ~HistoryEdits
  PROVE  Spec => LiftedOnlyWhenGone
<1> DEFINE Lifted ==
      \A t \in forgotten \ forgotten' :
        \/ /\ servers' = polled'
           /\ \A s \in servers' : queue'[s][t] = "none"
        \/ /\ polled' = {}
           /\ records'[t] = NoRecord /\ (records[t] # NoRecord \/ t \in capped)
<1>1. TypeOK /\ ForgottenStayOut /\ FlaggedRows /\ [Next]_vars => Lifted
  <2> SUFFICES ASSUME TypeOK, ForgottenStayOut, FlaggedRows, [Next]_vars,
                      NEW t \in forgotten \ forgotten'
               PROVE  \/ /\ servers' = polled'
                         /\ \A s \in servers' : queue'[s][t] = "none"
                      \/ /\ polled' = {}
                         /\ records'[t] = NoRecord
                         /\ records[t] # NoRecord \/ t \in capped
    OBVIOUS
  <2>1. /\ t \in Titles /\ map[t].status = "ABSENT"
        /\ records[t].forgotten \/ (t \in capped /\ records[t] = NoRecord)
    BY DEF ForgottenStayOut, FlaggedRows, TypeOK
  <2>2. CASE LoopNext
    <3>1. PICK ok \in SUBSET Servers, seen \in [Servers -> [Titles -> Listing]] :
            PollTick(ok, seen)
      BY <2>2 DEF LoopNext, ExtractTick, CleanerTick, HandleXtractrCallback,
         RetryQueueID, ForgetQueueID, PutStarrList
    <3>2. forgotten' = SweepForgotten(polled', queue') /\ servers' = servers
      BY <3>1 DEF PollTick
    <3>3. polled' \subseteq servers
      BY <3>1 DEF PollTick, TypeOK
    <3>4. QED
      BY <3>2, <3>3 DEF SweepForgotten
  <2>3. CASE WorldNext
    BY <2>3 DEF WorldNext, StartJob, FinishJob, DeleteRequest, DropHistory, CapTakesRows, Age
  <2>4. CASE Restarts
    <3>1. PICK r \in [Titles -> Record], old \in SUBSET Titles, aged \in [Titles -> 0..2] :
            Restart(r, old, aged) /\ r[t] = records[t]
      BY <2>1, <2>4, DoneKeepsRow, DoneType DEF Restarts, Crash, CleanerRestart, TypeOK
    <3>2. records'[t] \in {records[t], NoRecord} /\ ~records'[t].forgotten /\ polled' = {}
      BY <2>1, <3>1, RestartType DEF Restart
    <3>3. records'[t] = NoRecord
      BY <2>1, <3>2 DEF NoRecord
    <3> QED
      BY <2>1, <3>2, <3>3 DEF NoRecord
  <2>5. CASE UNCHANGED vars
    BY <2>5 DEF vars
  <2>6. QED
    BY <2>2, <2>3, <2>4, <2>5 DEF Next
<1>2. QED
  BY <1>1, TypeCorrect, ForgottenTitles, FlaggedInvariant, PTL DEF Spec, LiftedOnlyWhenGone

-----------------------------------------------------------------------------
(* What gave up.  Its row says so too, or there is none: a restart restores *)
(* it as it was or not at all, whether a history is kept or not, whatever   *)
(* the user clears and whatever the cap takes.                              *)

SettledRow(i, r) ==
  /\ r.status # "WAITING"
  /\ ~KeepHistory => r.status = "ABSENT"
  /\ i.status = "EXTRACTFAILED" /\ i.noRetry =>
       \/ r.status = "ABSENT"
       \/ r.status \in {"EXTRACTFAILED", "EXTRACTING"} /\ r.noRetry

SettledRows == \A t \in Titles : SettledRow(map[t], records[t])

\* The row just written of an item says what the item is.
LEMMA RecordedSettles ==
  ASSUME NEW i \in Item, NEW j, NEW r \in Record, SettledRow(j, r)
  PROVE  SettledRow(i, MaybeRecord(r, i))
BY DEF SettledRow, MaybeRecord, RecordOf, Status

\* An item that has not failed for good puts no demand on its row.
LEMMA StillSettled ==
  ASSUME NEW i, NEW j, NEW r, SettledRow(j, r),
         i.status = "EXTRACTFAILED" /\ i.noRetry => j.status = "EXTRACTFAILED" /\ j.noRetry
  PROVE  SettledRow(i, r)
BY DEF SettledRow

\* Nor does a missing row.
LEMMA SettledSaved ==
  ASSUME TypeOK, NEW rows \in [Titles -> Record], SaveRows(rows),
         \A t \in Titles : SettledRow(map'[t], rows[t])
  PROVE  SettledRows'
<1>1. \A i : SettledRow(i, NoRecord)
  BY DEF SettledRow, NoRecord
<1>2. \A t \in Titles : SettledRow(map'[t], records'[t])
  BY <1>1, SavedRows
<1> QED
  BY <1>2 DEF SettledRows, SettledRow

\* A tick of the poller leaves a failed item as it is, and fails none.
LEMMA PollKeepsFailed ==
  ASSUME TypeOK, NEW ok \in SUBSET Servers,
         NEW seen \in [Servers -> [Titles -> Listing]], PollTick(ok, seen)
  PROVE  \E rows \in [Titles -> Record] :
           /\ SaveRows(rows)
           /\ \A t \in Titles :
                /\ map'[t].status = "EXTRACTFAILED" => map'[t] = map[t]
                /\ map[t].status = "EXTRACTFAILED" =>
                     map'[t].status \in {"EXTRACTFAILED", "IMPORTED"}
                /\ rows[t] = records[t] \/ rows[t] = MaybeRecord(records[t], map'[t])
<1>0. PICK rows \in [Titles -> Record] :
        /\ SaveRows(rows)
        /\ \A t \in Titles : \E qs, have, ready :
             /\ map'[t] = CheckQueueChanges(CheckStarrQueue(qs, t), have, ready)
             /\ rows[t] =
                  IF map'[t].status = "IMPORTED" /\ CheckStarrQueue(qs, t).status # "IMPORTED"
                  THEN MaybeRecord(records[t], map'[t]) ELSE records[t]
  BY PolledRows
<1> SUFFICES ASSUME NEW t \in Titles
             PROVE  /\ map'[t].status = "EXTRACTFAILED" => map'[t] = map[t]
                    /\ map[t].status = "EXTRACTFAILED" =>
                         map'[t].status \in {"EXTRACTFAILED", "IMPORTED"}
                    /\ rows[t] = records[t] \/ rows[t] = MaybeRecord(records[t], map'[t])
  BY <1>0
<1>1. PICK qs, have, ready :
        /\ map'[t] = CheckQueueChanges(CheckStarrQueue(qs, t), have, ready)
        /\ rows[t] =
             IF map'[t].status = "IMPORTED" /\ CheckStarrQueue(qs, t).status # "IMPORTED"
             THEN MaybeRecord(records[t], map'[t]) ELSE records[t]
  BY <1>0
<1>2. PICK i \in Item : i = CheckStarrQueue(qs, t)
  BY CheckStarrQueueType
<1>3. (i.status = "WAITING" \/ i = map[t]) /\ (map[t].status = "EXTRACTFAILED" => i = map[t])
  BY <1>2 DEF CheckStarrQueue, NewItem
<1>4. \/ map'[t] = i
      \/ map'[t].status \in {"ABSENT", "WAITING"} /\ i.status # "EXTRACTFAILED"
      \/ map'[t] = [i EXCEPT !.status = "EXTRACTED"] /\ i.status = "IMPORTED"
      \/ map'[t].status = "IMPORTED"
  BY <1>1, <1>2, MoveType DEF CheckQueueChanges, Status, Absent
<1>5. [i EXCEPT !.status = "EXTRACTED"].status = "EXTRACTED"
  BY DEF Item
<1> QED
  BY <1>1, <1>3, <1>4, <1>5

\* What checkExtractDone leaves of what gave up, and of a row.
LEMMA DoneKeepsFailed ==
  ASSUME TypeOK, SettledRows, NEW t \in Titles
  PROVE  /\ SettledRow(DoneItems[t], DoneRecords[t])
         /\ map[t].status = "EXTRACTFAILED" /\ map[t].noRetry =>
              DoneItems[t] = map[t] /\ DoneRecords[t] = records[t]
<1>1. /\ map[t] \in Item /\ records[t] \in Record /\ DoneItems[t] \in Item
      /\ SettledRow(map[t], records[t])
  BY DoneType DEF SettledRows, TypeOK
<1>2. ASSUME map[t].status = "EXTRACTFAILED", map[t].noRetry
      PROVE  DoneItems[t] = map[t] /\ DoneRecords[t] = records[t]
  BY <1>2 DEF DoneItems, DoneRecords, CheckExtractDone, Finishes, Retries, GivesUp, Stale, Cleanable
<1>3. CASE GivesUp(map[t]) \/ Stale(map[t]) \/ Cleanable(map[t], t)
  BY <1>1, <1>2, <1>3, RecordedSettles DEF DoneRecords
<1>4. CASE ~(GivesUp(map[t]) \/ Stale(map[t]) \/ Cleanable(map[t], t))
  <2>1. DoneRecords[t] = records[t]
    BY <1>4 DEF DoneRecords
  <2>2. DoneItems[t] \in {Absent, Again(map[t]), map[t]}
    BY <1>4 DEF DoneItems, CheckExtractDone
  <2>3. SettledRow(DoneItems[t], records[t])
    <3>1. CASE DoneItems[t] = map[t]
      BY <1>1, <3>1
    <3>2. CASE DoneItems[t].status \in {"ABSENT", "WAITING"}
      BY <1>1, <3>2, StillSettled
    <3> QED
      BY <1>1, <2>2, <3>1, <3>2, AgainType DEF Absent
  <2> QED
    BY <1>2, <2>1, <2>3
<1> QED
  BY <1>3, <1>4

\* What a restart makes of a row fits it, and the row of what gave up gives up
\* again, unless it is flagged.
LEMMA RestoredSettles ==
  ASSUME NEW r \in Record, NEW age \in 0..2, NEW j, SettledRow(j, r)
  PROVE  /\ SettledRow(Restored(r, age), r)
         /\ r.status \in {"EXTRACTFAILED", "EXTRACTING"} /\ r.noRetry =>
              \/ r.forgotten /\ Restored(r, age) = Absent
              \/ Restored(r, age).status = "EXTRACTFAILED" /\ Restored(r, age).noRetry
<1> DEFINE i == [status |-> r.status, server |-> r.server,
                 retries |-> r.retries, noRetry |-> r.noRetry,
                 files |-> r.files, age |-> age]
<1>1. i \in Item /\ i.status = r.status /\ i.noRetry = r.noRetry
  BY DEF Item, Record
<1>2. \A st \in {"WAITING", "EXTRACTED", "EXTRACTFAILED"} :
        Move(i, st) \in Item /\ Move(i, st).status = st /\ Move(i, st).noRetry = r.noRetry
  BY <1>1, MoveType DEF Status
<1>3. ASSUME NEW a, NEW k \in Item
      PROVE  [k EXCEPT !.age = a].status = k.status /\ [k EXCEPT !.age = a].noRetry = k.noRetry
  BY DEF Item
<1>4. r.forgotten \in BOOLEAN /\ r.status \in Status \cup {"ABSENT"} /\ r.status # "WAITING"
  BY DEF Record, SettledRow
<1> HIDE DEF i
<1>5. CASE r.forgotten \/ r.status \in {"ABSENT", "DELETED"}
  <2>1. Restored(r, age) = Absent
    BY <1>5 DEF Restored, i
  <2>2. SettledRow(Absent, r)
    BY StillSettled DEF Absent
  <2> QED
    BY <1>5, <2>1, <2>2
<1>6. CASE ~r.forgotten /\ r.status = "QUEUED"
  <2>1. Restored(r, age).status = "WAITING"
    BY <1>2, <1>6 DEF Restored, i
  <2> QED
    BY <1>6, <2>1, StillSettled
<1>7. CASE ~r.forgotten /\ r.status = "EXTRACTING"
  <2>1. Restored(r, age) = [Move(i, "EXTRACTFAILED") EXCEPT
                              !.age = IF r.noRetry THEN age ELSE 1]
    BY <1>7 DEF Restored, i
  <2>2. Restored(r, age).status = "EXTRACTFAILED" /\ Restored(r, age).noRetry = r.noRetry
    BY <1>2, <1>3, <2>1
  <2> QED
    BY <1>7, <2>2 DEF SettledRow
<1>8. CASE ~r.forgotten /\ r.status \in {"EXTRACTFAILED", "EXTRACTED", "IMPORTED"}
  <2>1. Restored(r, age).status = r.status /\ Restored(r, age).noRetry = r.noRetry
    BY <1>1, <1>2, <1>8 DEF Restored, i
  <2> QED
    BY <1>8, <2>1 DEF SettledRow
<1> QED
  BY <1>4, <1>5, <1>6, <1>7, <1>8 DEF Status

\* The rows of every process are settled.
LEMMA SettledInvariant == Spec => []SettledRows
<1>1. Init => SettledRows
  BY DEF Init, SettledRows, SettledRow, Absent, NoRecord
<1>2. TypeOK /\ SettledRows /\ [Next]_vars => SettledRows'
  <2> SUFFICES ASSUME TypeOK, SettledRows, [Next]_vars
               PROVE  SettledRows'
    OBVIOUS
  <2>1. ASSUME \A t \in Titles : SettledRow(map'[t], records'[t]) PROVE SettledRows'
    BY <2>1 DEF SettledRows, SettledRow
  <2>2. ASSUME UNCHANGED <<map, records>> PROVE SettledRows'
    BY <2>1, <2>2 DEF SettledRows
  <2>3. \A t \in Titles : map[t] \in Item /\ records[t] \in Record /\ SettledRow(map[t], records[t])
    BY DEF SettledRows, TypeOK
  <2>4. ASSUME NEW ok \in SUBSET Servers,
               NEW seen \in [Servers -> [Titles -> Listing]], PollTick(ok, seen)
        PROVE  SettledRows'
    <3>1. \A t \in Titles : map'[t] \in Item
      BY <2>4, PollTickType DEF TypeOK
    <3>2. PICK rows \in [Titles -> Record] :
            /\ SaveRows(rows)
            /\ \A t \in Titles :
                 /\ map'[t].status = "EXTRACTFAILED" => map'[t] = map[t]
                 /\ rows[t] = records[t] \/ rows[t] = MaybeRecord(records[t], map'[t])
      BY <2>4, PollKeepsFailed
    <3>3. ASSUME NEW t \in Titles PROVE SettledRow(map'[t], rows[t])
      <4>1. CASE rows[t] = MaybeRecord(records[t], map'[t])
        BY <2>3, <3>1, <4>1, RecordedSettles
      <4>2. CASE rows[t] = records[t]
        BY <2>3, <3>2, <4>2, StillSettled
      <4> QED
        BY <3>2, <4>1, <4>2
    <3> QED
      BY <3>2, <3>3, SettledSaved
  <2>5. ASSUME NEW found \in SUBSET Titles, ExtractTick(found) PROVE SettledRows'
    <3>1. \A t \in Titles : map'[t] \in Item
      BY <2>5, ExtractTickType DEF TypeOK
    <3>2. PICK rows \in [Titles -> Record] :
            /\ SaveRows(rows)
            /\ \A t \in found : rows[t] = MaybeRecord(records[t], map'[t])
            /\ \A t \in Titles \ found : rows[t] = records[t]
      BY <2>5, FoundRows
    <3>3. \A t \in found : SettledRow(map'[t], rows[t])
      BY <2>3, <3>1, <3>2, RecordedSettles
    <3>4. \A t \in Titles \ found : map'[t] = map[t]
      BY <2>5 DEF ExtractTick
    <3>5. \A t \in Titles : SettledRow(map'[t], rows[t])
      BY <2>3, <3>2, <3>3, <3>4
    <3> QED
      BY <3>2, <3>5, SettledSaved
  <2>6. CASE CleanerTick
    BY <2>6, DoneKeepsFailed, DoneType, SettledSaved DEF CleanerTick
  <2>7. ASSUME NEW t \in Titles, NEW cleared \in BOOLEAN,
               HandleXtractrCallback(t, cleared)
        PROVE  SettledRows'
    <3>1. CASE map[t].status = "ABSENT"
      BY <2>2, <2>7, <3>1 DEF HandleXtractrCallback
    <3>2. CASE map[t].status # "ABSENT"
      <4>1. map'[t] \in Item
        BY <2>7, HandleXtractrCallbackType DEF TypeOK
      <4>2. PICK rows \in [Titles -> Record] :
              /\ SaveRows(rows)
              /\ rows[t] = MaybeRecord(records[t], map'[t])
              /\ \A u \in Titles \ {t} : rows[u] = records[u]
        BY <2>7, <3>2, CalledRows
      <4>3. \A u \in Titles \ {t} : map'[u] = map[u]
        BY <2>7, <3>2 DEF HandleXtractrCallback, TypeOK
      <4>4. SettledRow(map'[t], rows[t])
        BY <2>3, <4>1, <4>2, RecordedSettles
      <4>5. \A u \in Titles : SettledRow(map'[u], rows[u])
        BY <2>3, <4>2, <4>3, <4>4
      <4> QED
        BY <4>2, <4>5, SettledSaved
    <3> QED
      BY <3>1, <3>2
  <2>8. ASSUME NEW t \in Titles, map'[t].status \in {"ABSENT", "WAITING"},
               records'[t].status = records[t].status,
               \A u \in Titles \ {t} : map'[u] = map[u] /\ records'[u] = records[u]
        PROVE  SettledRows'
    <3>1. SettledRow(map'[t], records'[t])
      BY <2>3, <2>8 DEF SettledRow
    <3> QED
      BY <2>1, <2>3, <2>8, <3>1
  <2>9. ASSUME NEW t \in Titles, RetryQueueID(t) PROVE SettledRows'
    <3>1. ASSUME NEW i \in Item PROVE [i EXCEPT !.noRetry = FALSE].status = i.status
      BY DEF Item
    <3>2. map'[t].status = "WAITING"
      BY <2>9, <3>1, AgainType DEF RetryQueueID, TypeOK
    <3> QED
      BY <2>8, <2>9, <3>2 DEF RetryQueueID, TypeOK
  <2>10. ASSUME NEW t \in Titles, ForgetQueueID(t) PROVE SettledRows'
    <3>1. map'[t].status = "ABSENT"
      BY <2>10 DEF ForgetQueueID, Absent, TypeOK
    <3>2. \A u \in Titles \ {t} : map'[u] = map[u] /\ records'[u] = records[u]
      BY <2>10 DEF ForgetQueueID, TypeOK
    <3>3. records'[t].status = records[t].status
      BY <2>10 DEF ForgetQueueID, TypeOK, Record
    <3> QED
      BY <2>8, <3>1, <3>2, <3>3
  <2>11. CASE LoopNext
    BY <2>2, <2>4, <2>5, <2>6, <2>7, <2>9, <2>10, <2>11 DEF LoopNext, PutStarrList
  <2>12. ASSUME NEW t \in Titles, Age(t) PROVE SettledRows'
    <3>1. ASSUME NEW i \in Item, NEW n
          PROVE  /\ [i EXCEPT !.age = n].status = i.status
                 /\ [i EXCEPT !.age = n].noRetry = i.noRetry
      BY DEF Item
    <3>2. /\ map'[t].status = map[t].status /\ map'[t].noRetry = map[t].noRetry
          /\ records' = records
          /\ \A u \in Titles \ {t} : map'[u] = map[u]
      BY <2>12, <3>1 DEF Age, TypeOK
    <3>3. SettledRow(map'[t], records[t])
      BY <2>3, <3>2, StillSettled
    <3> QED
      BY <2>1, <2>3, <3>2, <3>3
  <2>13. ASSUME NEW S \in SUBSET Titles, DropHistory(S) \/ CapTakesRows(S) PROVE SettledRows'
    <3>1. ASSUME NEW t \in Titles PROVE SettledRow(map'[t], records'[t])
      <4>1. map' = map /\ (records'[t] = NoRecord \/ records'[t] = records[t])
        BY <2>13 DEF DropHistory, CapTakesRows, CapHistory, Without
      <4>2. SettledRow(map[t], NoRecord)
        BY DEF SettledRow, NoRecord
      <4> QED
        BY <2>3, <4>1, <4>2
    <3> QED
      BY <2>1, <3>1
  <2>14. CASE WorldNext
    BY <2>2, <2>12, <2>13, <2>14 DEF WorldNext, StartJob, FinishJob, DeleteRequest
  <2>15. CASE Restarts
    <3>1. PICK r \in [Titles -> Record], old \in SUBSET Titles, aged \in [Titles -> 0..2] :
            Restart(r, old, aged) /\ \A t \in Titles : \E j : SettledRow(j, r[t])
      <4>1. \A t \in Titles : SettledRow(DoneItems[t], DoneRecords[t])
        BY DoneKeepsFailed
      <4> QED
        BY <2>3, <2>15, <4>1, DoneType DEF Restarts, Crash, CleanerRestart, TypeOK
    <3>2. ASSUME NEW t \in Titles PROVE SettledRow(map'[t], records'[t])
      <4>1. PICK j : SettledRow(j, records'[t])
        <5>1. \A k : SettledRow(k, NoRecord)
          BY DEF SettledRow, NoRecord
        <5> QED
          BY <3>1, <5>1, RestartType
      <4>2. CASE map'[t] = Absent
        <5>1. SettledRow(Absent, records'[t])
          BY <4>1, StillSettled DEF Absent
        <5> QED
          BY <4>2, <5>1
      <4>3. CASE map'[t] = Restored(records'[t], aged[t])
        <5>1. records'[t] \in Record /\ aged[t] \in 0..2
          BY <3>1, RestartType DEF TypeOK
        <5> QED
          BY <4>1, <4>3, <5>1, RestoredSettles
      <4> QED
        BY <3>1, <4>2, <4>3 DEF Restart
    <3> QED
      BY <2>1, <3>2
  <2>16. CASE UNCHANGED vars
    BY <2>2, <2>16 DEF vars
  <2> QED
    BY <2>11, <2>14, <2>15, <2>16 DEF Next
<1> QED
  BY <1>1, <1>2, TypeCorrect, PTL DEF Spec

\* What gave up stays given up: it starts over only when a user asks for it or
\* with the answer to another job of the title, its app may import it, and it
\* leaves the live queue only when the user forgets it or a restart finds no
\* row of it.
THEOREM GivenUpStays == Spec => GaveUpStaysDown
<1> DEFINE Stays(t) ==
      \/ map'[t].status = "EXTRACTFAILED" /\ map'[t].noRetry
      \/ map'[t].status = "IMPORTED"
      \/ map'[t].status = "ABSENT" /\ (t \in forgotten' \/ polled' = {})
      \/ ~map'[t].noRetry /\ map'[t].retries > map[t].retries
      \/ \E cleared \in BOOLEAN : HandleXtractrCallback(t, cleared)
<1>1. TypeOK /\ SettledRows /\ [Next]_vars =>
        \A t \in Titles : map[t].status = "EXTRACTFAILED" /\ map[t].noRetry => Stays(t)
  <2> SUFFICES ASSUME TypeOK, SettledRows, [Next]_vars, NEW t \in Titles,
                      map[t].status = "EXTRACTFAILED", map[t].noRetry
               PROVE  Stays(t)
    OBVIOUS
  <2>1. map[t] \in Item /\ records[t] \in Record /\ SettledRow(map[t], records[t])
    BY DEF SettledRows, TypeOK
  <2>2. ASSUME map'[t] = map[t] PROVE Stays(t)
    BY <2>2
  <2>3. ASSUME NEW u \in Titles, RetryQueueID(u) PROVE Stays(t)
    <3>1. CASE u = t
      <4>1. map'[t] = [Again(map[t]) EXCEPT !.noRetry = FALSE]
        BY <2>3, <3>1 DEF RetryQueueID, TypeOK
      <4>2. Again(map[t]) \in Item /\ Again(map[t]).retries = map[t].retries + 1
        BY <2>1, AgainType
      <4>3. map'[t].retries = map[t].retries + 1 /\ ~map'[t].noRetry
        BY <4>1, <4>2 DEF Item
      <4>4. map[t].retries \in Nat
        BY <2>1 DEF Item
      <4> QED
        BY <4>3, <4>4
    <3> QED
      BY <2>2, <2>3, <3>1 DEF RetryQueueID, TypeOK
  <2>4. ASSUME NEW u \in Titles, NEW cleared \in BOOLEAN, HandleXtractrCallback(u, cleared)
        PROVE  Stays(t)
    <3>1. CASE u = t
      BY <2>4, <3>1
    <3> QED
      BY <2>2, <2>4, <3>1 DEF HandleXtractrCallback, TypeOK
  <2>5. ASSUME NEW u \in Titles, ForgetQueueID(u) PROVE Stays(t)
    <3>1. CASE u = t
      BY <2>5, <3>1 DEF ForgetQueueID, Absent, TypeOK
    <3> QED
      BY <2>2, <2>5, <3>1 DEF ForgetQueueID, TypeOK
  <2>6. ASSUME NEW found \in SUBSET Titles, ExtractTick(found) PROVE Stays(t)
    <3>1. t \notin found /\ map'[t] = map[t]
      BY <2>6 DEF ExtractTick, Startable
    <3> QED
      BY <2>2, <3>1
  <2>7. CASE CleanerTick
    <3>1. map'[t] = map[t]
      BY <2>7, DoneKeepsFailed DEF CleanerTick
    <3> QED
      BY <2>2, <3>1
  <2>8. ASSUME NEW ok \in SUBSET Servers, NEW seen \in [Servers -> [Titles -> Listing]],
               PollTick(ok, seen)
        PROVE  Stays(t)
    <3>1. map'[t] = map[t] \/ map'[t].status = "IMPORTED"
      BY <2>8, PollKeepsFailed
    <3> QED
      BY <2>2, <3>1
  <2>9. CASE LoopNext
    <3>1. ASSUME NEW s \in Servers, NEW next \in SUBSET Servers, NEW same \in SUBSET Servers,
                 PutStarrList(AppOf[s], next, same)
          PROVE  Stays(t)
      <4>1. map' = map
        BY <3>1 DEF PutStarrList
      <4> QED
        BY <2>2, <4>1
    <3> QED
      BY <2>3, <2>4, <2>5, <2>6, <2>7, <2>8, <2>9, <3>1 DEF LoopNext
  <2>10. ASSUME NEW u \in Titles, Age(u) PROVE Stays(t)
    <3>1. ASSUME NEW i \in Item, NEW n
          PROVE  /\ [i EXCEPT !.age = n].status = i.status
                 /\ [i EXCEPT !.age = n].noRetry = i.noRetry
      BY DEF Item
    <3>2. map'[t].status = map[t].status /\ map'[t].noRetry = map[t].noRetry
      <4>1. map'[t] = map[t] \/ map'[t] = [map[t] EXCEPT !.age = @ + 1]
        BY <2>10 DEF Age, TypeOK
      <4> QED
        BY <2>1, <3>1, <4>1
    <3> QED
      BY <3>2
  <2>11. CASE WorldNext
    BY <2>2, <2>10, <2>11
    DEF WorldNext, StartJob, FinishJob, DeleteRequest, DropHistory, CapTakesRows
  <2>12. CASE Restarts
    <3>1. PICK r \in [Titles -> Record], old \in SUBSET Titles, aged \in [Titles -> 0..2] :
            Restart(r, old, aged) /\ r[t] = records[t]
      <4>1. DoneRecords[t] = records[t]
        BY DoneKeepsFailed
      <4> QED
        BY <2>12, <4>1, DoneType DEF Restarts, Crash, CleanerRestart, TypeOK
    <3>2. /\ records'[t] \in {records[t], NoRecord} /\ records'[t] \in Record
          /\ polled' = {} /\ aged[t] \in 0..2
      <4>1. TypeOK' /\ records'[t] \in {r[t], NoRecord}
        BY <3>1, RestartType
      <4>2. records'[t] \in Record
        BY <4>1 DEF TypeOK
      <4>3. polled' = {}
        BY <3>1 DEF Restart
      <4> QED
        BY <3>1, <4>1, <4>2, <4>3
    <3>3. CASE map'[t] = Absent
      BY <3>2, <3>3 DEF Absent
    <3>4. CASE map'[t] = Restored(records'[t], aged[t])
      <4>1. CASE records'[t].status = "ABSENT"
        BY <3>3, <3>4, <4>1 DEF Restored
      <4>2. CASE records'[t].status # "ABSENT"
        <5>1. /\ records'[t] = records[t]
              /\ records[t].status \in {"EXTRACTFAILED", "EXTRACTING"} /\ records[t].noRetry
          BY <2>1, <3>2, <4>2 DEF NoRecord, SettledRow
        <5>2. \/ Restored(records[t], aged[t]) = Absent
              \/ /\ Restored(records[t], aged[t]).status = "EXTRACTFAILED"
                 /\ Restored(records[t], aged[t]).noRetry
          BY <2>1, <3>2, <5>1, RestoredSettles
        <5> QED
          BY <3>3, <3>4, <5>1, <5>2
      <4> QED
        BY <4>1, <4>2
    <3> QED
      BY <3>1, <3>3, <3>4 DEF Restart
  <2>13. CASE UNCHANGED vars
    BY <2>2, <2>13 DEF vars
  <2> QED
    BY <2>9, <2>11, <2>12, <2>13 DEF Next
<1>2. QED
  BY <1>1, TypeCorrect, SettledInvariant, PTL DEF Spec, GaveUpStaysDown
=============================================================================
