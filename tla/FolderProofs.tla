----------------------------- MODULE FolderProofs -----------------------------
(***************************************************************************)
(* Theorems about FolderTracker, for any set of archives, any number of    *)
(* workers, jobs, callbacks and retries, and every setting.                *)
(***************************************************************************)
EXTENDS FolderTracker, SequenceTheorems, TLAPS

-----------------------------------------------------------------------------
(* What the helpers return, part by part.                                  *)

\* A status change of a work item is a work item.
LEMMA ToType ==
  ASSUME NEW w \in Work, NEW st \in Status \cup {"ABSENT"}
  PROVE  /\ To(w, st) \in Work
         /\ To(w, st).status = st
         /\ To(w, st).retries = w.retries
         /\ To(w, st).noRetry = w.noRetry
BY DEF To, Work

\* Nothing changes when an item keeps its status.
LEMMA ToSame ==
  ASSUME NEW w \in Work
  PROVE  To(w, w.status) = w
BY DEF To, Work

\* The constants are values of their types.
LEMMA ConstantsType ==
  /\ Absent \in Work
  /\ Waiting \in Work
  /\ Absent.status = "ABSENT"
  /\ Waiting.status = "WAITING"
  /\ NoRow \in Row
  /\ NoRow.work = Absent
BY FolderAssumption DEF FolderAssumption, Absent, Waiting, NoRow, Work, Row, Status

\* A retry counts up to the limit.
LEMMA RetryType ==
  ASSUME NEW w \in Work, NEW b \in BOOLEAN, w.retries < MaxRetries
  PROVE  [status |-> "WAITING", retries |-> w.retries + 1, noRetry |-> b] \in Work
BY FolderAssumption DEF FolderAssumption, Work, Status

\* Other parts stay when one is set.
LEMMA SetFolderParts ==
  ASSUME NEW v \in View, NEW w \in Work
  PROVE  /\ SetFolder(v, w) \in View
         /\ SetFolder(v, w).fo = w
         /\ SetFolder(v, w).it = v.it
         /\ SetFolder(v, w).rec = v.rec
         /\ SetFolder(v, w).row = v.row
BY DEF SetFolder, View

\* Setting the item leaves the other parts.
LEMMA SetItemParts ==
  ASSUME NEW v \in View, NEW w \in Work
  PROVE  /\ SetItem(v, w) \in View
         /\ SetItem(v, w).fo = v.fo
         /\ SetItem(v, w).it = w
         /\ SetItem(v, w).rec = v.rec
         /\ SetItem(v, w).row = v.row
BY DEF SetItem, View

\* Untracking takes the folder only.
LEMMA UntrackParts ==
  ASSUME NEW v \in View
  PROVE  /\ Untrack(v) \in View
         /\ Untrack(v).fo = Absent
         /\ Untrack(v).it = v.it
         /\ Untrack(v).rec = v.rec
         /\ Untrack(v).row = v.row
BY SetFolderParts, ConstantsType DEF Untrack

\* Dropping takes the live item only.
LEMMA DropItemParts ==
  ASSUME NEW v \in View
  PROVE  /\ DropItem(v) \in View
         /\ DropItem(v).fo = v.fo
         /\ DropItem(v).it = Absent
         /\ DropItem(v).rec = v.rec
         /\ DropItem(v).row = v.row
BY SetItemParts, ConstantsType DEF DropItem

\* A recorded item is the row, if a history is kept.
LEMMA RecordParts ==
  ASSUME NEW v \in View
  PROVE  /\ Record(v) \in View
         /\ Record(v).fo = v.fo
         /\ Record(v).it = v.it
         /\ Record(v).rec = v.rec
         /\ KeepHistory => Record(v).row.work = v.it
         /\ ~KeepHistory => Record(v).row = v.row
BY DEF Record, View, Row

\* Clearing takes the record of the state file only.
LEMMA RecoveryClearParts ==
  ASSUME NEW v \in View
  PROVE  /\ RecoveryClear(v) \in View
         /\ RecoveryClear(v).fo = v.fo
         /\ RecoveryClear(v).it = v.it
         /\ StateFile => RecoveryClear(v).rec = "ABSENT"
         /\ ~StateFile => RecoveryClear(v).rec = v.rec
         /\ RecoveryClear(v).row = v.row
BY DEF RecoveryClear, View

\* The state file follows a folder that a restart must know of.
LEMMA RecoveryTrackParts ==
  ASSUME NEW v \in View
  PROVE  /\ RecoveryTrack(v) \in View
         /\ RecoveryTrack(v).fo = v.fo
         /\ RecoveryTrack(v).it = v.it
         /\ StateFile /\ v.fo.status \in {"WAITING", "QUEUED", "EXTRACTING", "EXTRACTED"} =>
              RecoveryTrack(v).rec = v.fo.status
         /\ StateFile /\ v.fo.status \notin {"WAITING", "QUEUED", "EXTRACTING", "EXTRACTED"} =>
              RecoveryTrack(v).rec = "ABSENT"
         /\ ~StateFile => RecoveryTrack(v).rec = v.rec
         /\ RecoveryTrack(v).row = v.row
<1>1. CASE v.fo.status \in {"WAITING", "QUEUED", "EXTRACTING", "EXTRACTED"}
  BY <1>1 DEF RecoveryTrack, View, Status
<1>2. CASE v.fo.status \notin {"WAITING", "QUEUED", "EXTRACTING", "EXTRACTED"}
  BY <1>2, RecoveryClearParts DEF RecoveryTrack
<1>3. QED
  BY <1>1, <1>2

\* The item follows the folder.
LEMMA CopiedType ==
  ASSUME NEW v \in View, NEW st \in Status
  PROVE  /\ Copied(v, st) \in Work
         /\ Copied(v, st).status = st
         /\ Has(v.fo) => Copied(v, st) = To(v.fo, st)
<1>1. v.fo \in Work /\ v.it \in Work
  BY DEF View
<1>2. QED
  BY <1>1, ToType DEF Copied

\* A moved item is a copy of its folder, and so is its row.
LEMMA UpdateQueueStatusParts ==
  ASSUME NEW v \in View, NEW st \in Status
  PROVE  /\ UpdateQueueStatus(v, st) \in View
         /\ UpdateQueueStatus(v, st).fo = v.fo
         /\ UpdateQueueStatus(v, st).it = Copied(v, st)
         /\ UpdateQueueStatus(v, st).rec = v.rec
         /\ Has(v.it) /\ KeepHistory => UpdateQueueStatus(v, st).row.work = Copied(v, st)
         /\ ~Has(v.it) \/ ~KeepHistory => UpdateQueueStatus(v, st).row = v.row
<1> DEFINE u == SetItem(v, Copied(v, st))
<1>1. Copied(v, st) \in Work
  BY CopiedType
<1>2. /\ u \in View /\ u.fo = v.fo /\ u.it = Copied(v, st)
      /\ u.rec = v.rec /\ u.row = v.row
  BY <1>1, SetItemParts
<1>3. UpdateQueueStatus(v, st) = IF Has(v.it) THEN Record(u) ELSE u
  BY DEF UpdateQueueStatus
<1> HIDE DEF u
<1>4. QED
  BY <1>2, <1>3, RecordParts

\* Only a waiting folder and an untracked item are looked at.
LEMMA SyncQueueParts ==
  ASSUME NEW v \in View
  PROVE  /\ SyncQueue(v) \in View
         /\ SyncQueue(v).fo = v.fo
         /\ SyncQueue(v).rec = v.rec
         /\ SyncQueue(v).row = v.row
         /\ v.fo.status \notin {"ABSENT", "WAITING"} => SyncQueue(v) = v
<1>1. CASE ~Has(v.fo) /\ v.it.status = "WAITING"
  <2>1. SyncQueue(v) = DropItem(v)
    BY <1>1 DEF SyncQueue, Has
  <2>2. QED
    BY <1>1, <2>1, DropItemParts DEF Has
<1>2. CASE v.fo.status = "WAITING" /\ ~Has(v.it)
  <2>1. SyncQueue(v) = UpdateQueueStatus(v, "WAITING")
    BY <1>2 DEF SyncQueue, Has
  <2>2. "WAITING" \in Status
    BY DEF Status
  <2>3. QED
    BY <1>2, <2>1, <2>2, UpdateQueueStatusParts
<1>3. CASE ~(~Has(v.fo) /\ v.it.status = "WAITING") /\ ~(v.fo.status = "WAITING" /\ ~Has(v.it))
  BY <1>3 DEF SyncQueue
<1>4. QED
  BY <1>1, <1>2, <1>3

-----------------------------------------------------------------------------
(* What is true of a path after every step.  ever says whether an archive  *)
(* at the path was ever extracted.                                         *)

\* Tracker and live queue tell of the same work.
Agrees(v) ==
  /\ v.fo.status \in {"QUEUED", "EXTRACTING", "EXTRACTFAILED"} => v.it = v.fo
  /\ v.fo.status = "EXTRACTED" => ~Has(v.it) \/ v.it = v.fo

\* A row that a restart goes by knows of the extraction.
RowTells(v) ==
  v.fo.status = "EXTRACTED" /\ ~v.row.dead =>
    v.row.work.status \in {"ABSENT", "DELETED", "EXTRACTED"}

\* Without a history there are no rows.
NoHistory(v) == ~KeepHistory => v.row.work.status = "ABSENT"

\* Whoever says that something was extracted is right.
Proven(v, ever) ==
  "EXTRACTED" \in {v.fo.status, v.rec, v.row.work.status} => ever

Sound(v, ever) == Agrees(v) /\ RowTells(v) /\ NoHistory(v) /\ Proven(v, ever)

\* The state file covers the tracker; quiet: the archive is there and no event
\* of it is to be read.
Covers(v, quiet) ==
  StateFile =>
    /\ v.fo.status \in Interrupted => v.rec = v.fo.status
    /\ v.fo.status \in {"WAITING", "EXTRACTED"} /\ quiet => v.rec = v.fo.status

-----------------------------------------------------------------------------
(* The parts of the handlers keep a path sound.                            *)

\* What is untracked agrees with everything.
LEMMA UntrackSound ==
  ASSUME NEW v \in View, NEW ever, Sound(v, ever)
  PROVE  /\ Sound(Untrack(v), ever)
         /\ \A q : Covers(Untrack(v), q)
BY UntrackParts, ConstantsType
   DEF Sound, Agrees, RowTells, NoHistory, Proven, Covers, Interrupted

\* Saving a folder covers it.
LEMMA RecoveryTrackSound ==
  ASSUME NEW v \in View, NEW ever, Sound(v, ever)
  PROVE  /\ Sound(RecoveryTrack(v), ever)
         /\ \A q : Covers(RecoveryTrack(v), q)
BY RecoveryTrackParts
   DEF Sound, Agrees, RowTells, NoHistory, Proven, Covers, Interrupted

\* Clearing a record claims less.
LEMMA RecoveryClearSound ==
  ASSUME NEW v \in View, NEW ever, Sound(v, ever)
  PROVE  Sound(RecoveryClear(v), ever)
BY RecoveryClearParts DEF Sound, Agrees, RowTells, NoHistory, Proven

\* Only waiting and untracked paths are synced.
LEMMA SyncQueueSound ==
  ASSUME NEW v \in View, NEW ever, Sound(v, ever)
  PROVE  Sound(SyncQueue(v), ever)
BY SyncQueueParts DEF Sound, Agrees, RowTells, NoHistory, Proven

\* A folder that is nothing but tracked.
LEMMA SetFolderSound ==
  ASSUME NEW v \in View, NEW ever, Sound(v, ever),
         NEW w \in Work, w.status \in {"ABSENT", "WAITING", "EXTRACTEDNOTHING"}
  PROVE  Sound(SetFolder(v, w), ever)
BY SetFolderParts DEF Sound, Agrees, RowTells, NoHistory, Proven

\* An item leaves once its folder did, or before anything was queued.
LEMMA DropItemSound ==
  ASSUME NEW v \in View, NEW ever, Sound(v, ever),
         v.fo.status \notin {"QUEUED", "EXTRACTING", "EXTRACTFAILED"}
  PROVE  Sound(DropItem(v), ever)
BY DropItemParts, ConstantsType DEF Sound, Agrees, RowTells, NoHistory, Proven, Has

\* Folder and item move together.  An extraction is only told of an item that
\* the live queue has.
LEMMA MovedSound ==
  ASSUME NEW v \in View, NEW ever, Sound(v, ever),
         NEW w \in Work, Has(w),
         w.status = "EXTRACTED" => ever /\ Has(v.it)
  PROVE  /\ UpdateQueueStatus(SetFolder(v, w), w.status) \in View
         /\ UpdateQueueStatus(SetFolder(v, w), w.status).fo = w
         /\ Sound(UpdateQueueStatus(SetFolder(v, w), w.status), ever)
<1> DEFINE u == SetFolder(v, w)
           x == UpdateQueueStatus(u, w.status)
<1>1. w.status \in Status
  BY DEF Has, Work
<1>2. /\ u \in View /\ u.fo = w /\ u.it = v.it /\ u.rec = v.rec /\ u.row = v.row
  BY SetFolderParts
<1> HIDE DEF u
<1>3. Copied(u, w.status) = w
  BY <1>1, <1>2, CopiedType, ToSame
<1>4. /\ x \in View /\ x.fo = w /\ x.it = w /\ x.rec = v.rec
      /\ Has(v.it) /\ KeepHistory => x.row.work = w
      /\ ~Has(v.it) \/ ~KeepHistory => x.row = v.row
  BY <1>1, <1>2, <1>3, UpdateQueueStatusParts
<1> HIDE DEF x
<1>5. Agrees(x)
  BY <1>4 DEF Agrees
<1>6. RowTells(x)
  BY <1>4 DEF RowTells, Sound, NoHistory
<1>7. NoHistory(x) /\ Proven(x, ever)
  BY <1>4 DEF Sound, NoHistory, Proven
<1>8. QED
  BY <1>4, <1>5, <1>6, <1>7 DEF Sound, x, u

\* An item that is deleted is untracked and has no record.
LEMMA SettleSound ==
  ASSUME NEW v \in View, NEW ever, Sound(v, ever)
  PROVE  /\ Settle(v) \in View
         /\ Settle(v).fo = Absent
         /\ Sound(Settle(v), ever)
<1> DEFINE x == UpdateQueueStatus(v, "DELETED")
           y == RecoveryClear(x)
<1>1. "DELETED" \in Status
  BY DEF Status
<1>2. Copied(v, "DELETED").status = "DELETED"
  BY <1>1, CopiedType
<1>3. /\ x \in View /\ x.rec = v.rec
      /\ KeepHistory /\ Has(v.it) => x.row.work.status = "DELETED"
      /\ ~KeepHistory \/ ~Has(v.it) => x.row = v.row
  BY <1>1, <1>2, UpdateQueueStatusParts
<1> HIDE DEF x
<1>4. /\ y \in View /\ y.rec \in {"ABSENT", v.rec} /\ y.row = x.row
  BY <1>3, RecoveryClearParts
<1> HIDE DEF y
<1>5. /\ Untrack(y) \in View /\ Untrack(y).fo = Absent
      /\ Untrack(y).rec = y.rec /\ Untrack(y).row = y.row
  BY <1>4, UntrackParts
<1>6. Sound(Untrack(y), ever)
  BY <1>3, <1>4, <1>5, ConstantsType DEF Sound, Agrees, RowTells, NoHistory, Proven
<1>7. QED
  BY <1>5, <1>6 DEF Settle, x, y

-----------------------------------------------------------------------------
(* Each handler keeps a path sound and covered.                            *)

\* The archive is there: saveEvent and what processEvent does after it.
LEMMA SeenSound ==
  ASSUME NEW v \in View, NEW ever, Sound(v, ever)
  PROVE  /\ Seen(v) \in View
         /\ Seen(v).fo = IF Has(v.fo) THEN v.fo ELSE Waiting
         /\ Sound(Seen(v), ever)
         /\ \A q : Covers(Seen(v), q)
<1> DEFINE u == IF Has(v.fo) THEN v ELSE SetFolder(v, Waiting)
           x == SyncQueue(u)
<1>1. /\ u \in View
      /\ u.fo = IF Has(v.fo) THEN v.fo ELSE Waiting
      /\ Sound(u, ever)
  BY SetFolderParts, SetFolderSound, ConstantsType
<1> HIDE DEF u
<1>2. x \in View /\ x.fo = u.fo /\ Sound(x, ever)
  BY <1>1, SyncQueueParts, SyncQueueSound
<1> HIDE DEF x
<1>3. QED
  BY <1>1, <1>2, RecoveryTrackParts, RecoveryTrackSound DEF Seen, x, u

\* Its path cannot be read: handleUnreadableEvent.
LEMMA UnreadableSound ==
  ASSUME NEW v \in View, NEW ever, Sound(v, ever)
  PROVE  /\ Unreadable(v) \in View
         /\ ~Has(Unreadable(v).fo)
         /\ Sound(Unreadable(v), ever)
<1> DEFINE u == Untrack(v)
           x == SyncQueue(u)
<1>1. CASE Has(v.fo)
  <2>1. u \in View /\ ~Has(u.fo) /\ Sound(u, ever)
    BY UntrackParts, UntrackSound, ConstantsType DEF Has
  <2> HIDE DEF u
  <2>2. x \in View /\ ~Has(x.fo) /\ Sound(x, ever)
    BY <2>1, SyncQueueParts, SyncQueueSound
  <2> HIDE DEF x
  <2>3. QED
    BY <1>1, <2>2, RecoveryClearParts, RecoveryClearSound DEF Unreadable, x, u
<1>2. CASE ~Has(v.fo)
  BY <1>2, SyncQueueParts, SyncQueueSound DEF Unreadable
<1>3. QED
  BY <1>1, <1>2

\* The directory is gone: dropMissingFolderDescendants.
LEMMA ParentGoneSound ==
  ASSUME NEW v \in View, NEW ever, Sound(v, ever)
  PROVE  /\ ParentGone(v) \in View
         /\ ~Has(ParentGone(v).fo) \/ ParentGone(v) = v
         /\ Sound(ParentGone(v), ever)
<1>1. CASE v.fo.status = "WAITING"
  <2>1. ParentGone(v) = Unreadable(v)
    BY <1>1 DEF ParentGone, Unreadable, Has
  <2>2. QED
    BY <2>1, UnreadableSound
<1>2. CASE v.fo.status # "WAITING"
  BY <1>2 DEF ParentGone
<1>3. QED
  BY <1>1, <1>2

\* The start delay is over: extractTrackedItem.
LEMMA ExtractItemSound ==
  ASSUME NEW v \in View, NEW ever, Sound(v, ever), v.fo.status = "WAITING",
         NEW f \in Found, f # "skipped"
  PROVE  /\ ExtractItem(v, f) \in View
         /\ f # "archive" => ExtractItem(v, f).fo.status \in {"WAITING", "EXTRACTEDNOTHING"}
         /\ Sound(ExtractItem(v, f), ever)
         /\ \A q : Covers(ExtractItem(v, f), q)
<1> DEFINE n == To(v.fo, "EXTRACTEDNOTHING")
           w == To(v.fo, "QUEUED")
<1>1. /\ n \in Work /\ n.status = "EXTRACTEDNOTHING"
      /\ w \in Work /\ w.status = "QUEUED"
  BY ToType DEF View, Status
<1> HIDE DEF n, w
<1>2. CASE f = "incomplete"
  BY <1>2, RecoveryTrackParts, RecoveryTrackSound DEF ExtractItem
<1>3. CASE f = "nothing"
  <2>1. SetFolder(v, n) \in View /\ SetFolder(v, n).fo = n /\ Sound(SetFolder(v, n), ever)
    BY <1>1, SetFolderParts, SetFolderSound
  <2>2. ExtractItem(v, f) = RecoveryTrack(SetFolder(v, n))
    BY <1>3 DEF ExtractItem, n
  <2>3. QED
    BY <1>1, <1>3, <2>1, <2>2, RecoveryTrackParts, RecoveryTrackSound
<1>4. CASE f = "volume"
  <2> DEFINE x == UpdateQueueStatus(SetFolder(v, n), "EXTRACTEDNOTHING")
  <2>1. x \in View /\ x.fo = n /\ Sound(x, ever)
    BY <1>1, MovedSound DEF Has
  <2>2. ExtractItem(v, f) = RecoveryClear(x)
    BY <1>4 DEF ExtractItem, n
  <2> HIDE DEF x
  <2>3. /\ RecoveryClear(x) \in View /\ RecoveryClear(x).fo = n
        /\ Sound(RecoveryClear(x), ever)
    BY <2>1, RecoveryClearParts, RecoveryClearSound
  <2>4. \A q : Covers(RecoveryClear(x), q)
    BY <1>1, <2>3 DEF Covers, Interrupted
  <2>5. QED
    BY <1>1, <1>4, <2>2, <2>3, <2>4
<1>5. CASE f = "archive"
  <2> DEFINE x == UpdateQueueStatus(SetFolder(v, w), "QUEUED")
  <2>1. x \in View /\ Sound(x, ever)
    BY <1>1, MovedSound DEF Has
  <2>2. ExtractItem(v, f) = RecoveryTrack(x)
    BY <1>5 DEF ExtractItem, w
  <2> HIDE DEF x
  <2>3. QED
    BY <1>5, <2>1, <2>2, RecoveryTrackParts, RecoveryTrackSound
<1>6. QED
  BY <1>2, <1>3, <1>4, <1>5 DEF Found

\* What is not tracked needs no record.
LEMMA AbsentCovers ==
  ASSUME NEW v, ~Has(v.fo)
  PROVE  \A q : Covers(v, q)
BY DEF Covers, Has, Interrupted

\* checkWaitingFolder queues only what is there and ripe.
LEMMA CheckWaitingSound ==
  ASSUME NEW v \in View, NEW ever, Sound(v, ever), v.fo.status = "WAITING",
         NEW there \in BOOLEAN, NEW ripe \in BOOLEAN, NEW f \in Found,
         NEW quiet, Covers(v, quiet)
  PROVE  /\ CheckWaiting(v, there, ripe, f) \in View
         /\ CheckWaiting(v, there, ripe, f).fo.status \in Interrupted =>
              there /\ ripe /\ f = "archive"
         /\ Sound(CheckWaiting(v, there, ripe, f), ever)
         /\ Covers(CheckWaiting(v, there, ripe, f), quiet)
<1>1. CASE ~there
  <2>1. CheckWaiting(v, there, ripe, f) = SyncQueue(Untrack(v))
    BY <1>1 DEF CheckWaiting
  <2>2. Untrack(v) \in View /\ Untrack(v).fo = Absent /\ Sound(Untrack(v), ever)
    BY UntrackParts, UntrackSound
  <2>3. /\ SyncQueue(Untrack(v)) \in View /\ SyncQueue(Untrack(v)).fo = Absent
        /\ Sound(SyncQueue(Untrack(v)), ever)
    BY <2>2, SyncQueueParts, SyncQueueSound
  <2>4. QED
    BY <2>1, <2>3, AbsentCovers, ConstantsType DEF Interrupted, Has
<1>2. CASE there /\ ripe /\ f = "skipped"
  <2> DEFINE u == DropItem(v)
  <2>1. CheckWaiting(v, there, ripe, f) = Untrack(u)
    BY <1>2 DEF CheckWaiting
  <2>2. u \in View /\ Sound(u, ever)
    BY DropItemParts, DropItemSound
  <2> HIDE DEF u
  <2>3. QED
    BY <2>1, <2>2, UntrackParts, UntrackSound, ConstantsType DEF Interrupted
<1>3. CASE there /\ ripe /\ f # "skipped"
  <2>1. CheckWaiting(v, there, ripe, f) = ExtractItem(v, f)
    BY <1>3 DEF CheckWaiting
  <2>2. QED
    BY <1>3, <2>1, ExtractItemSound DEF Interrupted
<1>4. CASE there /\ ~ripe
  BY <1>4 DEF CheckWaiting, Interrupted
<1>5. QED
  BY <1>1, <1>2, <1>3, <1>4

\* checkFailedFolder with retries left.
LEMMA RetryFolderSound ==
  ASSUME NEW v \in View, NEW ever, Sound(v, ever), CanRetry(v.fo)
  PROVE  /\ RetryFolder(v) \in View
         /\ RetryFolder(v).fo.status = "WAITING"
         /\ Sound(RetryFolder(v), ever)
         /\ \A q : Covers(RetryFolder(v), q)
<1> DEFINE w == [status |-> "WAITING", retries |-> v.fo.retries + 1, noRetry |-> v.fo.noRetry]
           i == [status |-> "WAITING", retries |-> v.fo.retries + 1, noRetry |-> v.it.noRetry]
           u == SetFolder(v, w)
           x == IF Has(v.it) THEN Record(SetItem(u, i)) ELSE u
<1>1. v.fo \in Work /\ v.it.noRetry \in BOOLEAN /\ v.fo.noRetry \in BOOLEAN
  BY DEF View, Work
<1>2. w \in Work /\ i \in Work /\ w.status = "WAITING" /\ i.status = "WAITING"
  BY <1>1, RetryType DEF CanRetry
<1>3. RetryFolder(v) = RecoveryTrack(x)
  BY DEF RetryFolder
<1> HIDE DEF w, i
<1>4. /\ u \in View /\ u.fo = w /\ u.it = v.it /\ u.rec = v.rec /\ u.row = v.row
      /\ Sound(u, ever)
  BY <1>2, SetFolderParts, SetFolderSound
<1> HIDE DEF u
<1>5. CASE Has(v.it)
  <2> DEFINE y == SetItem(u, i)
  <2>1. /\ y \in View /\ y.fo = w /\ y.it = i /\ y.rec = v.rec /\ y.row = v.row
    BY <1>2, <1>4, SetItemParts
  <2> HIDE DEF y
  <2>2. /\ x \in View /\ x.fo = w /\ x.rec = v.rec
        /\ KeepHistory => x.row.work = i
        /\ ~KeepHistory => x.row = v.row
    BY <1>5, <2>1, RecordParts DEF y
  <2> HIDE DEF x
  <2>3. Sound(x, ever)
    BY <1>2, <2>2 DEF Sound, Agrees, RowTells, NoHistory, Proven
  <2>4. QED
    BY <1>2, <1>3, <2>2, <2>3, RecoveryTrackParts, RecoveryTrackSound
<1>6. CASE ~Has(v.it)
  <2>1. x = u
    BY <1>6
  <2> HIDE DEF x
  <2>2. QED
    BY <1>2, <1>3, <1>4, <2>1, RecoveryTrackParts, RecoveryTrackSound
<1>7. QED
  BY <1>5, <1>6

\* checkExtractDone drops only what is deleted.
LEMMA FinishItemSound ==
  ASSUME NEW v \in View, NEW ever, Sound(v, ever), NEW over \in BOOLEAN
  PROVE  /\ FinishItem(v, over) \in View
         /\ FinishItem(v, over).fo = v.fo
         /\ FinishItem(v, over).rec = v.rec
         /\ Sound(FinishItem(v, over), ever)
<1>1. CASE v.it.status = "DELETED" /\ over
  <2>1. v.fo.status \notin {"QUEUED", "EXTRACTING", "EXTRACTFAILED"}
    BY <1>1 DEF Sound, Agrees
  <2>2. QED
    BY <1>1, <2>1, DropItemParts, DropItemSound DEF FinishItem
<1>2. CASE ~(v.it.status = "DELETED" /\ over)
  BY <1>2 DEF FinishItem
<1>3. QED
  BY <1>1, <1>2

\* checkFolderStats, all statuses.
LEMMA CheckFolderSound ==
  ASSUME NEW v \in View, NEW ever, Sound(v, ever),
         NEW there \in BOOLEAN, NEW ripe \in BOOLEAN, NEW f \in Found,
         NEW quiet, Covers(v, quiet)
  PROVE  /\ CheckFolder(v, there, ripe, f) \in View
         /\ CheckFolder(v, there, ripe, f).fo.status \in Interrupted =>
              \/ v.fo.status \in Interrupted
              \/ v.fo.status = "WAITING" /\ there /\ ripe /\ f = "archive"
         /\ Sound(CheckFolder(v, there, ripe, f), ever)
         /\ Covers(CheckFolder(v, there, ripe, f), quiet)
<1> DEFINE r == CheckFolder(v, there, ripe, f)
<1>1. CASE v.fo.status = "WAITING"
  <2>1. r = CheckWaiting(v, there, ripe, f)
    BY <1>1 DEF CheckFolder
  <2>2. QED
    BY <1>1, <2>1, CheckWaitingSound
<1>2. CASE v.fo.status = "EXTRACTEDNOTHING" /\ ripe
  <2> DEFINE u == DropItem(v)
             x == Untrack(u)
  <2>1. r = RecoveryClear(x)
    BY <1>2 DEF CheckFolder
  <2>2. u \in View /\ Sound(u, ever)
    BY <1>2, DropItemParts, DropItemSound
  <2> HIDE DEF u
  <2>3. x \in View /\ x.fo = Absent /\ Sound(x, ever)
    BY <2>2, UntrackParts, UntrackSound
  <2> HIDE DEF x
  <2>4. r \in View /\ r.fo = Absent /\ Sound(r, ever)
    BY <2>1, <2>3, RecoveryClearParts, RecoveryClearSound
  <2>5. QED
    BY <2>4, AbsentCovers, ConstantsType DEF Has, Interrupted
<1>3. CASE v.fo.status = "EXTRACTFAILED" /\ ~CanRetry(v.fo)
  <2>1. r = Settle(v)
    BY <1>3 DEF CheckFolder, CheckFailed
  <2>2. QED
    BY <2>1, SettleSound, AbsentCovers, ConstantsType DEF Has, Interrupted
<1>4. CASE v.fo.status = "EXTRACTFAILED" /\ CanRetry(v.fo) /\ ripe
  <2>1. r = RetryFolder(v)
    BY <1>4 DEF CheckFolder, CheckFailed
  <2>2. QED
    BY <1>4, <2>1, RetryFolderSound DEF Interrupted
<1>5. CASE v.fo.status = "EXTRACTED" /\ (~DeleteAfter \/ ripe)
  <2>1. r = Settle(v)
    BY <1>5 DEF CheckFolder
  <2>2. QED
    BY <2>1, SettleSound, AbsentCovers, ConstantsType DEF Has, Interrupted
<1>6. CASE /\ v.fo.status # "WAITING"
           /\ ~(v.fo.status = "EXTRACTEDNOTHING" /\ ripe)
           /\ ~(v.fo.status = "EXTRACTFAILED" /\ (~CanRetry(v.fo) \/ ripe))
           /\ ~(v.fo.status = "EXTRACTED" /\ (~DeleteAfter \/ ripe))
  <2>1. r = v
    BY <1>6 DEF CheckFolder, CheckFailed
  <2>2. QED
    BY <2>1
<1>7. QED
  BY <1>1, <1>2, <1>3, <1>4, <1>5, <1>6

\* A job ends well only with an extraction.
LEMMA EndedType ==
  ASSUME NEW w \in Work, NEW r \in Result, r # "started"
  PROVE  /\ Ended(w, r) \in Work
         /\ Ended(w, r).status \in {"EXTRACTEDNOTHING", "EXTRACTFAILED", "EXTRACTED"}
         /\ Ended(w, r).status = "EXTRACTED" => r = "ok"
<1>1. \A st \in {"EXTRACTEDNOTHING", "EXTRACTFAILED", "EXTRACTED"} :
        To(w, st) \in Work /\ To(w, st).status = st
  BY ToType DEF Status
<1>2. ASSUME NEW x \in Work
      PROVE  [x EXCEPT !.noRetry = TRUE] \in Work /\ [x EXCEPT !.noRetry = TRUE].status = x.status
  BY DEF Work
<1>3. CASE r = "nothing"
  BY <1>1, <1>3 DEF Ended
<1>4. CASE r = "error"
  BY <1>1, <1>4 DEF Ended
<1>5. CASE r = "blocked"
  BY <1>1, <1>2, <1>5 DEF Ended
<1>6. CASE r = "ok"
  BY <1>1, <1>6 DEF Ended
<1>7. QED
  BY <1>3, <1>4, <1>5, <1>6 DEF Result

\* folderXtractrCallback, all results.
LEMMA CalledSound ==
  ASSUME NEW v \in View, NEW ever, Sound(v, ever),
         NEW r \in Result, r = "ok" => ever
  PROVE  /\ Called(v, r) \in View
         /\ Called(v, r).fo.status \in Interrupted => r = "started"
         /\ Sound(Called(v, r), ever)
         /\ \A q : Covers(Called(v, r), q)
<1> DEFINE w == IF r = "started" THEN To(v.fo, "EXTRACTING") ELSE Ended(v.fo, r)
           x == UpdateQueueStatus(SetFolder(v, w), w.status)
           u == DropItem(v)
           y == Untrack(u)
<1>1. CASE ~Has(v.fo) \/ ~Has(v.it)
  <2>1. Called(v, r) = RecoveryClear(y)
    BY <1>1 DEF Called
  <2>2. v.fo.status \notin {"QUEUED", "EXTRACTING", "EXTRACTFAILED"}
    BY <1>1 DEF Sound, Agrees, Has
  <2>3. u \in View /\ Sound(u, ever)
    BY <2>2, DropItemParts, DropItemSound
  <2> HIDE DEF u
  <2>4. y \in View /\ y.fo = Absent /\ Sound(y, ever)
    BY <2>3, UntrackParts, UntrackSound
  <2> HIDE DEF y
  <2>5. RecoveryClear(y) \in View /\ RecoveryClear(y).fo = Absent /\ Sound(RecoveryClear(y), ever)
    BY <2>4, RecoveryClearParts, RecoveryClearSound
  <2>6. QED
    BY <2>1, <2>5, AbsentCovers, ConstantsType DEF Has, Interrupted
<1>2. CASE Has(v.fo) /\ Has(v.it)
  <2>1. Called(v, r) = RecoveryTrack(x)
    BY <1>2 DEF Called
  <2>2. v.fo \in Work /\ "EXTRACTING" \in Status \cup {"ABSENT"}
    BY DEF View, Status
  <2>3. /\ w \in Work
        /\ w.status \in {"EXTRACTING", "EXTRACTEDNOTHING", "EXTRACTFAILED", "EXTRACTED"}
        /\ w.status = "EXTRACTED" => r = "ok"
        /\ w.status = "EXTRACTING" => r = "started"
    BY <2>2, ToType, EndedType
  <2> HIDE DEF w
  <2>4. x \in View /\ x.fo = w /\ Sound(x, ever)
    BY <1>2, <2>3, MovedSound DEF Has
  <2> HIDE DEF x
  <2>5. QED
    BY <2>1, <2>3, <2>4, RecoveryTrackParts, RecoveryTrackSound DEF Interrupted
<1>3. QED
  BY <1>1, <1>2

\* What the user and the time make of a path.
Retried(v) == Record(RecoveryTrack(SetItem(SetFolder(v, Waiting), Waiting)))

Forgot(v) ==
  [fo |-> Absent, it |-> Absent, rec |-> v.rec,
   row |-> [work |-> v.row.work, dead |-> Has(v.row.work)]]

WithRow(v, row) == [fo |-> v.fo, it |-> v.it, rec |-> v.rec, row |-> row]

\* A retry the user asks for.
LEMMA RetriedSound ==
  ASSUME NEW v \in View, NEW ever, Sound(v, ever)
  PROVE  /\ Retried(v) \in View
         /\ Retried(v).fo.status = "WAITING"
         /\ Sound(Retried(v), ever)
         /\ \A q : Covers(Retried(v), q)
<1> DEFINE u == SetFolder(v, Waiting)
           x == SetItem(u, Waiting)
           y == RecoveryTrack(x)
           z == Record(y)
<1>1. /\ u \in View /\ u.fo = Waiting /\ u.rec = v.rec /\ u.row = v.row
  BY SetFolderParts, ConstantsType
<1> HIDE DEF u
<1>2. /\ x \in View /\ x.fo = Waiting /\ x.it = Waiting /\ x.rec = v.rec /\ x.row = v.row
  BY <1>1, SetItemParts, ConstantsType
<1> HIDE DEF x
<1>3. /\ y \in View /\ y.fo = Waiting /\ y.it = Waiting /\ y.row = v.row
      /\ StateFile => y.rec = "WAITING"
      /\ ~StateFile => y.rec = v.rec
  BY <1>2, RecoveryTrackParts, ConstantsType
<1> HIDE DEF y
<1>4. /\ z \in View /\ z.fo = Waiting /\ z.it = Waiting /\ z.rec = y.rec
      /\ KeepHistory => z.row.work = Waiting
      /\ ~KeepHistory => z.row = v.row
  BY <1>3, RecordParts
<1> HIDE DEF z
<1>5. Sound(z, ever)
  BY <1>3, <1>4, ConstantsType DEF Sound, Agrees, RowTells, NoHistory, Proven
<1>6. \A q : Covers(z, q)
  BY <1>3, <1>4, ConstantsType DEF Covers, Interrupted
<1>7. QED
  BY <1>4, <1>5, <1>6, ConstantsType DEF Retried, z, y, x, u

\* A path the user forgets.
LEMMA ForgotSound ==
  ASSUME NEW v \in View, NEW ever, Sound(v, ever)
  PROVE  /\ Forgot(v) \in View
         /\ Forgot(v).fo = Absent
         /\ Sound(Forgot(v), ever)
<1>1. v.row.work \in Work /\ Has(v.row.work) \in BOOLEAN
  BY DEF View, Row, Has
<1>2. Forgot(v) \in View
  BY <1>1, ConstantsType DEF Forgot, View, Row
<1>3. Sound(Forgot(v), ever)
  BY ConstantsType DEF Forgot, Sound, Agrees, RowTells, NoHistory, Proven
<1>4. QED
  BY <1>2, <1>3 DEF Forgot

\* A row may be dropped, or grow old.
LEMMA WithRowSound ==
  ASSUME NEW v \in View, NEW ever, Sound(v, ever),
         NEW row \in Row,
         row = NoRow \/ (row.dead /\ row.work = v.row.work)
  PROVE  /\ WithRow(v, row) \in View
         /\ Sound(WithRow(v, row), ever)
<1>1. WithRow(v, row) \in View
  BY DEF WithRow, View
<1>2. QED
  BY <1>1, ConstantsType DEF WithRow, Sound, Agrees, RowTells, NoHistory, Proven

\* A restored status is never one that a job must answer.
LEMMA RestoredStatusType ==
  ASSUME NEW st \in Status \cup {"ABSENT"}
  PROVE  /\ RestoredStatus(st) \in Status \cup {"ABSENT"}
         /\ RestoredStatus(st) \notin Interrupted
         /\ \A x \in {"ABSENT", "EXTRACTED", "DELETED"} : RestoredStatus(st) = x <=> st = x
BY DEF RestoredStatus, Status, Interrupted

\* A row brings back what it tells of.
LEMMA FromRowSound ==
  ASSUME NEW v \in View, NEW ever, Sound(v, ever)
  PROVE  /\ FromRow(v) \in View
         /\ FromRow(v).rec = v.rec
         /\ FromRow(v).row = v.row
         /\ FromRow(v).fo.status \notin Interrupted
         /\ ~Has(FromRow(v).fo) =>
              /\ ~Has(FromRow(v).it)
              /\ v.row.dead \/ v.row.work.status \in {"ABSENT", "DELETED"}
         /\ v.fo.status = "EXTRACTED" /\ Has(FromRow(v).fo) => FromRow(v).fo.status = "EXTRACTED"
         /\ Sound(FromRow(v), ever)
<1> DEFINE st == RestoredStatus(v.row.work.status)
           w == To(v.row.work, st)
           u == FromRow(v)
<1>1. /\ v.row.work \in Work /\ v.row.work.status \in Status \cup {"ABSENT"}
      /\ v.row.dead \in BOOLEAN
  BY DEF View, Row, Work
<1>2. /\ st \in Status \cup {"ABSENT"} /\ st \notin Interrupted
      /\ \A x \in {"ABSENT", "EXTRACTED", "DELETED"} : st = x <=> v.row.work.status = x
  BY <1>1, RestoredStatusType
<1> HIDE DEF st
<1>3. w \in Work /\ w.status = st
  BY <1>1, <1>2, ToType
<1>4. u = IF ~v.row.dead /\ w.status # "DELETED"
          THEN [fo |-> w, it |-> w, rec |-> v.rec, row |-> v.row]
          ELSE [fo |-> Absent, it |-> Absent, rec |-> v.rec, row |-> v.row]
  BY DEF FromRow, st
<1> HIDE DEF w
<1>5. u \in View
  BY <1>3, <1>4, ConstantsType DEF View
<1> HIDE DEF u
<1>6. /\ u.it = u.fo /\ u.rec = v.rec /\ u.row = v.row
      /\ u.fo = IF ~v.row.dead /\ w.status # "DELETED" THEN w ELSE Absent
  BY <1>4
<1>7. Sound(u, ever)
  BY <1>2, <1>3, <1>6, ConstantsType DEF Sound, Agrees, RowTells, NoHistory, Proven
<1>8. u.fo.status \notin Interrupted
  BY <1>2, <1>3, <1>6, ConstantsType DEF Interrupted
<1>9. ~Has(u.fo) => ~Has(u.it) /\ (v.row.dead \/ v.row.work.status \in {"ABSENT", "DELETED"})
  BY <1>1, <1>2, <1>3, <1>6 DEF Has
<1>10. v.fo.status = "EXTRACTED" /\ Has(u.fo) => u.fo.status = "EXTRACTED"
  BY <1>2, <1>3, <1>6, ConstantsType DEF Has, Sound, RowTells
<1>11. QED
  BY <1>5, <1>6, <1>7, <1>8, <1>9, <1>10 DEF u

\* The state file brings back what no row did.
LEMMA FromStateSound ==
  ASSUME NEW v \in View, NEW ever, Sound(v, ever), NEW there \in BOOLEAN,
         v.fo.status \notin Interrupted,
         ~Has(v.fo) => ~Has(v.it) /\ (v.row.dead \/ v.row.work.status \in {"ABSENT", "DELETED"})
  PROVE  /\ FromState(v, there) \in View
         /\ FromState(v, there).fo.status \notin Interrupted
         /\ Has(v.fo) => FromState(v, there).fo = v.fo
         /\ ~Has(v.fo) /\ there /\ StateFile /\ v.rec = "EXTRACTED" =>
              FromState(v, there).fo.status = "EXTRACTED"
         /\ Sound(FromState(v, there), ever)
<1> DEFINE r == FromState(v, there)
<1>1. CASE ~StateFile \/ v.rec = "ABSENT"
  <2>1. r = v
    BY <1>1 DEF FromState
  <2>2. QED
    BY <1>1, <2>1
<1>2. CASE StateFile /\ v.rec # "ABSENT" /\ ~there
  <2>1. r = RecoveryClear(v)
    BY <1>2 DEF FromState
  <2>2. QED
    BY <1>2, <2>1, RecoveryClearParts, RecoveryClearSound
<1>3. CASE StateFile /\ v.rec # "ABSENT" /\ there /\ Has(v.fo)
  <2>1. r = v
    BY <1>3 DEF FromState
  <2>2. QED
    BY <1>3, <2>1
<1>4. CASE StateFile /\ there /\ ~Has(v.fo) /\ v.rec = "EXTRACTED"
  <2> DEFINE w == To(Waiting, "EXTRACTED")
             x == SetFolder(v, w)
  <2>1. r = x
    BY <1>4 DEF FromState
  <2>2. w \in Work /\ w.status = "EXTRACTED"
    BY ToType, ConstantsType DEF Status
  <2> HIDE DEF w
  <2>3. /\ x \in View /\ x.fo = w /\ x.it = v.it /\ x.rec = v.rec /\ x.row = v.row
    BY <2>2, SetFolderParts
  <2> HIDE DEF x
  <2>4. Sound(x, ever)
    BY <1>4, <2>2, <2>3 DEF Sound, Agrees, RowTells, NoHistory, Proven
  <2>5. QED
    BY <1>4, <2>1, <2>2, <2>3, <2>4 DEF Interrupted
<1>5. CASE StateFile /\ there /\ ~Has(v.fo) /\ v.rec \notin {"ABSENT", "EXTRACTED"}
  <2> DEFINE x == SetFolder(v, Waiting)
  <2>1. r = RecoveryTrack(x)
    BY <1>5 DEF FromState
  <2>2. x \in View /\ x.fo = Waiting /\ Sound(x, ever)
    BY SetFolderParts, SetFolderSound, ConstantsType
  <2> HIDE DEF x
  <2>3. QED
    BY <1>5, <2>1, <2>2, RecoveryTrackParts, RecoveryTrackSound, ConstantsType DEF Interrupted
<1>6. QED
  BY <1>1, <1>2, <1>3, <1>4, <1>5

\* A restart: rows first, then the state file, then the scan.
LEMMA RestartedSound ==
  ASSUME NEW v \in View, NEW ever, Sound(v, ever), NEW there \in BOOLEAN
  PROVE  /\ Restarted(v, there) \in View
         /\ Restarted(v, there).fo.status \notin Interrupted
         /\ Sound(Restarted(v, there), ever)
         /\ \A q : (q => there) => Covers(Restarted(v, there), q)
         /\ StateFile /\ there /\ v.fo.status = "EXTRACTED" /\ v.rec = "EXTRACTED" =>
              Restarted(v, there).fo.status = "EXTRACTED"
<1> DEFINE u == FromRow(v)
           x == FromState(u, there)
           r == Restarted(v, there)
<1>1. /\ u \in View /\ u.rec = v.rec /\ u.row = v.row /\ Sound(u, ever)
      /\ u.fo.status \notin Interrupted
      /\ ~Has(u.fo) => ~Has(u.it) /\ (u.row.dead \/ u.row.work.status \in {"ABSENT", "DELETED"})
      /\ v.fo.status = "EXTRACTED" /\ Has(u.fo) => u.fo.status = "EXTRACTED"
  BY FromRowSound
<1>2. r = Scanned(x, there)
  BY DEF Restarted
<1> HIDE DEF u
<1>3. /\ x \in View /\ x.fo.status \notin Interrupted /\ Sound(x, ever)
      /\ Has(u.fo) => x.fo = u.fo
      /\ ~Has(u.fo) /\ there /\ StateFile /\ u.rec = "EXTRACTED" => x.fo.status = "EXTRACTED"
  BY <1>1, FromStateSound
<1> HIDE DEF x
<1>4. StateFile /\ there /\ v.fo.status = "EXTRACTED" /\ v.rec = "EXTRACTED" =>
        x.fo.status = "EXTRACTED"
  BY <1>1, <1>3
<1>5. CASE there
  <2>1. r = Seen(x)
    BY <1>2, <1>5 DEF Scanned
  <2>2. /\ r \in View /\ Sound(r, ever)
        /\ r.fo = IF Has(x.fo) THEN x.fo ELSE Waiting
        /\ \A q : Covers(r, q)
    BY <1>3, <2>1, SeenSound
  <2>3. QED
    BY <1>3, <1>4, <2>2, ConstantsType DEF Interrupted, Has
<1>6. CASE ~there
  <2>1. r = x
    BY <1>2, <1>6 DEF Scanned
  <2>2. \A q : (q => there) => Covers(x, q)
    BY <1>3, <1>6 DEF Covers
  <2>3. QED
    BY <1>3, <1>6, <2>1, <2>2
<1>7. QED
  BY <1>5, <1>6

-----------------------------------------------------------------------------
(* From a path to all paths: the loop's half of the invariant.             *)

\* An archive at the path was extracted.
Ever(p) == p \in extracted

\* The archive is there and no event of it is to be read.
Quiet(p) == disk[p] /\ {p, "dir"} \cap events = {}

LoopType ==
  /\ folders \in [Paths -> Work]
  /\ map \in [Paths -> Work]
  /\ recovery \in [Paths -> Status \cup {"ABSENT"}]
  /\ records \in [Paths -> Row]

LoopInv ==
  /\ LoopType
  /\ \A p \in Paths : Sound(ViewOf(p), Ever(p)) /\ Covers(ViewOf(p), Quiet(p))

WorldType ==
  /\ disk \in [Paths -> BOOLEAN]
  /\ extracted \subseteq Paths
  /\ partial \subseteq Paths
  /\ events \subseteq Paths \cup {"dir"}
  /\ jobs \in [Paths -> Nat]
  /\ running \in [Paths -> Nat]
  /\ updates \in [Paths -> Seq(Result)]
  /\ delChan \subseteq Paths

\* A callback that tells of an extraction is right.
OkTold ==
  \A p \in Paths : \A i \in 1..Len(updates[p]) : updates[p][i] = "ok" => Ever(p)

FolderInv == LoopInv /\ WorldType /\ OkTold /\ DeletesExtracted

\* The types of the loop and those of the world are all types.
LEMMA TypeOfParts == TypeOK <=> LoopType /\ WorldType
BY DEF TypeOK, LoopType, WorldType

\* The view of a path collects its four parts.
LEMMA ViewOfType ==
  ASSUME LoopType, NEW p \in Paths
  PROVE  /\ ViewOf(p) \in View
         /\ ViewOf(p).fo = folders[p]
         /\ ViewOf(p).it = map[p]
         /\ ViewOf(p).rec = recovery[p]
         /\ ViewOf(p).row = records[p]
BY DEF LoopType, ViewOf, View

\* A step that makes sound and covered paths.
LEMMA LoopKept ==
  ASSUME NEW v, Becomes(v),
         \A p \in Paths : /\ v[p] \in View
                          /\ Sound(v[p], Ever(p)')
                          /\ Covers(v[p], Quiet(p)')
  PROVE  LoopInv'
<1>1. LoopType'
  BY DEF LoopType, Becomes, View
<1>2. ASSUME NEW p \in Paths
      PROVE  ViewOf(p)' = v[p]
  BY DEF Becomes, ViewOf, View
<1>3. ASSUME NEW p \in Paths
      PROVE  Sound(ViewOf(p)', Ever(p)') /\ Covers(ViewOf(p)', Quiet(p)')
  BY <1>2, Zenon
<1>4. QED
  BY <1>1, <1>3 DEF LoopInv

\* A weaker claim on the world costs nothing.
LEMMA SoundGrows ==
  ASSUME NEW v, NEW ever, NEW ever1, ever => ever1, Sound(v, ever)
  PROVE  Sound(v, ever1)
BY DEF Sound, Proven

\* So does a weaker claim on the state file.
LEMMA CoversShrinks ==
  ASSUME NEW v, NEW quiet, NEW quiet1, quiet1 => quiet, Covers(v, quiet)
  PROVE  Covers(v, quiet1)
BY DEF Covers

\* A step of the world that wakes the loop wherever the disk changes.
LEMMA LoopUnchanged ==
  ASSUME LoopInv, UNCHANGED loop,
         \A p \in Paths : (Ever(p) => Ever(p)') /\ (Quiet(p)' => Quiet(p))
  PROVE  LoopInv'
<1>1. LoopType'
  BY DEF LoopInv, LoopType, loop
<1>2. ASSUME NEW p \in Paths
      PROVE  ViewOf(p)' = ViewOf(p)
  BY DEF ViewOf, loop
<1>3. ASSUME NEW p \in Paths
      PROVE  Sound(ViewOf(p)', Ever(p)') /\ Covers(ViewOf(p)', Quiet(p)')
  <2>1. Sound(ViewOf(p), Ever(p)) /\ Covers(ViewOf(p), Quiet(p))
    BY DEF LoopInv
  <2>2. Sound(ViewOf(p), Ever(p)')
    BY <2>1, SoundGrows
  <2>3. Covers(ViewOf(p), Quiet(p)')
    BY <2>1, CoversShrinks
  <2>4. QED
    BY <1>2, <2>2, <2>3, Zenon
<1>4. QED
  BY <1>1, <1>3 DEF LoopInv

\* A step of one path, the world unchanged.
LEMMA LoopKept1 ==
  ASSUME LoopInv, NEW p \in Paths, NEW v \in View, Becomes1(p, v),
         UNCHANGED <<disk, extracted>>, {"dir"} \cap events = {"dir"} \cap events',
         \A q \in Paths \ {p} : q \in events => q \in events',
         Sound(v, Ever(p)), Covers(v, Quiet(p)')
  PROVE  LoopInv'
<1> DEFINE all == [q \in Paths |-> IF q = p THEN v ELSE ViewOf(q)]
<1>1. Becomes(all)
  BY DEF Becomes1
<1>2. ASSUME NEW q \in Paths
      PROVE  all[q] \in View /\ Sound(all[q], Ever(q)') /\ Covers(all[q], Quiet(q)')
  <2>1. Ever(q)' = Ever(q)
    BY DEF Ever
  <2>2. CASE q = p
    BY <2>1, <2>2
  <2>3. CASE q # p
    <3>1. Quiet(q)' => Quiet(q)
      BY <2>3 DEF Quiet
    <3>2. ViewOf(q) \in View /\ Sound(ViewOf(q), Ever(q)) /\ Covers(ViewOf(q), Quiet(q))
      BY ViewOfType DEF LoopInv
    <3>3. Covers(ViewOf(q), Quiet(q)')
      BY <3>1, <3>2, CoversShrinks
    <3>4. QED
      BY <2>1, <2>3, <3>2, <3>3
  <2>4. QED
    BY <2>2, <2>3
<1> HIDE DEF all
<1>3. QED
  BY <1>1, <1>2, LoopKept

\* A file event, received by the loop.
LEMMA ProcessEventLoop ==
  ASSUME LoopInv, WorldType, NEW e \in Paths \cup {"dir"}, ProcessEvent(e)
  PROVE  LoopInv'
<1>1. \A p \in Paths : /\ ViewOf(p) \in View
                       /\ Sound(ViewOf(p), Ever(p))
                       /\ Covers(ViewOf(p), Quiet(p))
  BY ViewOfType DEF LoopInv
<1>2. /\ UNCHANGED <<disk, extracted>> /\ events' = events \ {e} /\ "dir" \notin Paths
      /\ \A p \in Paths : disk[p] \in BOOLEAN
  BY FolderAssumption DEF ProcessEvent, world, FolderAssumption, WorldType
<1>3. ASSUME e \in Paths,
             Becomes1(e, IF disk[e] THEN Seen(ViewOf(e)) ELSE Unreadable(ViewOf(e)))
      PROVE  LoopInv'
  <2> DEFINE v == IF disk[e] THEN Seen(ViewOf(e)) ELSE Unreadable(ViewOf(e))
  <2>1. v \in View /\ Sound(v, Ever(e)) /\ Covers(v, Quiet(e)')
    <3>1. CASE disk[e]
      BY <1>1, <1>3, <3>1, SeenSound
    <3>2. CASE ~disk[e]
      BY <1>1, <1>3, <3>2, UnreadableSound, AbsentCovers
    <3>3. QED
      BY <3>1, <3>2
  <2>2. /\ {"dir"} \cap events = {"dir"} \cap events'
        /\ \A q \in Paths \ {e} : q \in events => q \in events'
    BY <1>2, <1>3
  <2>3. Becomes1(e, v)
    BY <1>3
  <2> HIDE DEF v
  <2>4. QED
    BY <1>2, <1>3, <2>1, <2>2, <2>3, LoopKept1
<1>4. ASSUME Becomes([p \in Paths |-> IF disk[p] THEN Seen(ViewOf(p)) ELSE ViewOf(p)])
      PROVE  LoopInv'
  <2> DEFINE all == [p \in Paths |-> IF disk[p] THEN Seen(ViewOf(p)) ELSE ViewOf(p)]
  <2>1. ASSUME NEW p \in Paths
        PROVE  all[p] \in View /\ Sound(all[p], Ever(p)') /\ Covers(all[p], Quiet(p)')
    <3>1. Ever(p)' = Ever(p)
      BY <1>2 DEF Ever
    <3>2. CASE disk[p]
      BY <1>1, <3>1, <3>2, SeenSound
    <3>3. CASE ~disk[p]
      <4>1. Quiet(p)' => Quiet(p)
        BY <1>2, <3>3 DEF Quiet
      <4>2. Covers(ViewOf(p), Quiet(p)')
        BY <1>1, <4>1, CoversShrinks
      <4>3. QED
        BY <1>1, <3>1, <3>3, <4>2
    <3>4. QED
      BY <3>2, <3>3
  <2> HIDE DEF all
  <2>2. QED
    BY <1>4, <2>1, LoopKept DEF all
<1>5. ASSUME \A p \in Paths : ~disk[p], Becomes([p \in Paths |-> ParentGone(ViewOf(p))])
      PROVE  LoopInv'
  <2> DEFINE all == [p \in Paths |-> ParentGone(ViewOf(p))]
  <2>1. ASSUME NEW p \in Paths
        PROVE  all[p] \in View /\ Sound(all[p], Ever(p)') /\ Covers(all[p], Quiet(p)')
    <3>1. Ever(p)' = Ever(p) /\ (Quiet(p)' => Quiet(p))
      BY <1>2, <1>5 DEF Ever, Quiet
    <3>2. /\ ParentGone(ViewOf(p)) \in View
          /\ ~Has(ParentGone(ViewOf(p)).fo) \/ ParentGone(ViewOf(p)) = ViewOf(p)
          /\ Sound(ParentGone(ViewOf(p)), Ever(p))
      BY <1>1, ParentGoneSound
    <3>3. Covers(ParentGone(ViewOf(p)), Quiet(p)')
      BY <1>1, <3>1, <3>2, AbsentCovers, CoversShrinks
    <3>4. QED
      BY <3>1, <3>2, <3>3
  <2> HIDE DEF all
  <2>2. QED
    BY <1>5, <2>1, LoopKept DEF all
<1>6. QED
  BY <1>3, <1>4, <1>5 DEF ProcessEvent

\* The cleaner tick.
LEMMA CleanerTickLoop ==
  ASSUME LoopInv, WorldType, NEW over \in SUBSET Paths, NEW ripe \in SUBSET Paths,
         NEW found \in [Paths -> Found], CleanerTick(over, ripe, found)
  PROVE  LoopInv'
<1> DEFINE all == [p \in Paths |->
             CheckFolder(FinishItem(ViewOf(p), p \in over), disk[p], p \in ripe, found[p])]
<1>1. ASSUME NEW p \in Paths
      PROVE  all[p] \in View /\ Sound(all[p], Ever(p)') /\ Covers(all[p], Quiet(p)')
  <2> DEFINE v == ViewOf(p)
             o == p \in over
             r == p \in ripe
             u == FinishItem(v, o)
  <2>1. Ever(p)' = Ever(p) /\ Quiet(p)' = Quiet(p)
    BY DEF CleanerTick, world, Ever, Quiet
  <2>2. v \in View /\ Sound(v, Ever(p)) /\ Covers(v, Quiet(p))
    BY ViewOfType DEF LoopInv
  <2>3. disk[p] \in BOOLEAN /\ found[p] \in Found /\ o \in BOOLEAN /\ r \in BOOLEAN
    BY DEF WorldType
  <2> HIDE DEF v, o, r
  <2>4. u \in View /\ u.fo = v.fo /\ u.rec = v.rec /\ Sound(u, Ever(p))
    BY <2>2, <2>3, FinishItemSound
  <2> HIDE DEF u
  <2>5. Covers(u, Quiet(p))
    BY <2>2, <2>4 DEF Covers
  <2>6. /\ CheckFolder(u, disk[p], r, found[p]) \in View
        /\ Sound(CheckFolder(u, disk[p], r, found[p]), Ever(p))
        /\ Covers(CheckFolder(u, disk[p], r, found[p]), Quiet(p))
    BY <2>3, <2>4, <2>5, CheckFolderSound
  <2>7. all[p] = CheckFolder(u, disk[p], r, found[p])
    BY DEF u, v, o, r
  <2> HIDE DEF all
  <2>8. QED
    BY <2>1, <2>6, <2>7
<1>2. Becomes(all)
  BY DEF CleanerTick
<1> HIDE DEF all
<1>3. QED
  BY <1>1, <1>2, LoopKept

\* A callback of xtractr.
LEMMA CallbackLoop ==
  ASSUME LoopInv, WorldType, OkTold, NEW p \in Paths, FolderXtractrCallback(p)
  PROVE  LoopInv'
<1> DEFINE v == ViewOf(p)
           r == Head(updates[p])
<1>1. v \in View /\ Sound(v, Ever(p))
  BY ViewOfType DEF LoopInv
<1>2. updates[p] \in Seq(Result) /\ updates[p] # <<>>
  BY DEF FolderXtractrCallback, WorldType
<1>3. /\ r \in Result /\ r = updates[p][1] /\ 1 \in 1..Len(updates[p])
  BY <1>2
<1>4. r = "ok" => Ever(p)
  BY <1>3 DEF OkTold
<1>5. Becomes1(p, Called(v, r)) /\ UNCHANGED <<disk, extracted, events>>
  BY DEF FolderXtractrCallback, world
<1> HIDE DEF v, r
<1>6. /\ Called(v, r) \in View /\ Sound(Called(v, r), Ever(p))
      /\ Covers(Called(v, r), Quiet(p)')
  BY <1>1, <1>3, <1>4, CalledSound
<1>7. QED
  BY <1>5, <1>6, LoopKept1

\* The actions of the user.
LEMMA UserLoop ==
  ASSUME LoopInv, NEW p \in Paths, RetryFolderLocked(p) \/ ForgetQueueID(p)
  PROVE  LoopInv'
<1> DEFINE v == ViewOf(p)
<1>1. v \in View /\ Sound(v, Ever(p)) /\ v.rec = recovery[p] /\ v.row = records[p]
  BY ViewOfType DEF LoopInv
<1>2. CASE RetryFolderLocked(p)
  <2>1. Becomes1(p, Retried(v)) /\ UNCHANGED <<disk, extracted, events>>
    BY <1>2 DEF RetryFolderLocked, Retried, world
  <2> HIDE DEF v
  <2>2. Retried(v) \in View /\ Sound(Retried(v), Ever(p)) /\ Covers(Retried(v), Quiet(p)')
    BY <1>1, RetriedSound
  <2>3. QED
    BY <2>1, <2>2, LoopKept1
<1>3. CASE ForgetQueueID(p)
  <2> HIDE DEF v
  <2>1. Becomes1(p, Forgot(v)) /\ UNCHANGED <<disk, extracted, events>>
    BY <1>1, <1>3 DEF ForgetQueueID, Forgot, world
  <2>2. Forgot(v) \in View /\ Sound(Forgot(v), Ever(p)) /\ Covers(Forgot(v), Quiet(p)')
    BY <1>1, ForgotSound, AbsentCovers, ConstantsType DEF Has
  <2>3. QED
    BY <2>1, <2>2, LoopKept1
<1>4. QED
  BY <1>2, <1>3

\* A row is dropped or grows old.
LEMMA RowLoop ==
  ASSUME LoopInv, NEW p \in Paths, DropHistory(p) \/ Expire(p)
  PROVE  LoopInv'
<1> DEFINE v == ViewOf(p)
           row == IF DropHistory(p) THEN NoRow ELSE [work |-> records[p].work, dead |-> TRUE]
<1>1. /\ v \in View /\ Sound(v, Ever(p)) /\ Covers(v, Quiet(p))
      /\ v.fo = folders[p] /\ v.it = map[p] /\ v.rec = recovery[p] /\ v.row = records[p]
  BY ViewOfType DEF LoopInv
<1>2. records[p] \in Row
  BY DEF LoopInv, LoopType
<1>3. row \in Row /\ (row = NoRow \/ (row.dead /\ row.work = records[p].work))
  BY <1>2, ConstantsType DEF Row
<1>4. /\ UNCHANGED <<folders, map, recovery, disk, extracted, events>>
      /\ records' = [records EXCEPT ![p] = row]
  BY DEF DropHistory, Expire, world
<1> HIDE DEF v, row
<1>5. /\ WithRow(v, row) \in View /\ Sound(WithRow(v, row), Ever(p))
      /\ WithRow(v, row).fo = v.fo /\ WithRow(v, row).it = v.it
      /\ WithRow(v, row).rec = v.rec /\ WithRow(v, row).row = row
  BY <1>1, <1>3, WithRowSound DEF WithRow
<1>6. Quiet(p)' = Quiet(p)
  BY <1>4 DEF Quiet
<1>7. Covers(WithRow(v, row), Quiet(p)')
  BY <1>1, <1>5, <1>6 DEF Covers
<1>8. Becomes1(p, WithRow(v, row))
  <2> DEFINE all == [q \in Paths |-> IF q = p THEN WithRow(v, row) ELSE ViewOf(q)]
  <2>1. LoopType
    BY DEF LoopInv
  <2>2. ASSUME NEW q \in Paths
        PROVE  /\ all[q].fo = folders[q] /\ all[q].it = map[q]
               /\ all[q].rec = recovery[q]
               /\ all[q].row = IF q = p THEN row ELSE records[q]
    BY <1>1, <1>5, <2>1, ViewOfType
  <2> HIDE DEF all
  <2>3. /\ folders' = [q \in Paths |-> all[q].fo] /\ map' = [q \in Paths |-> all[q].it]
        /\ recovery' = [q \in Paths |-> all[q].rec]
    BY <1>4, <2>1, <2>2 DEF LoopType
  <2>4. records' = [q \in Paths |-> all[q].row]
    BY <1>4, <2>1, <2>2 DEF LoopType
  <2>5. QED
    BY <2>3, <2>4 DEF Becomes1, Becomes, all
<1>9. QED
  BY <1>4, <1>5, <1>7, <1>8, LoopKept1

\* A crash and the next start.
LEMMA CrashLoop ==
  ASSUME LoopInv, WorldType, Crash
  PROVE  LoopInv'
<1> DEFINE all == [p \in Paths |-> Restarted(ViewOf(p), disk[p])]
<1>1. ASSUME NEW p \in Paths
      PROVE  all[p] \in View /\ Sound(all[p], Ever(p)') /\ Covers(all[p], Quiet(p)')
  <2>1. Ever(p)' = Ever(p) /\ (Quiet(p)' => disk[p]) /\ disk[p] \in BOOLEAN
    BY DEF Crash, Ever, Quiet, WorldType
  <2>2. ViewOf(p) \in View /\ Sound(ViewOf(p), Ever(p))
    BY ViewOfType DEF LoopInv
  <2>3. QED
    BY <2>1, <2>2, RestartedSound
<1>2. Becomes(all)
  BY DEF Crash
<1> HIDE DEF all
<1>3. QED
  BY <1>1, <1>2, LoopKept

-----------------------------------------------------------------------------
(* The world's half.                                                       *)

\* A step that neither answers nor queues a delete.
LEMMA WorldKept ==
  ASSUME FolderInv, WorldType', UNCHANGED updates, delChan' \subseteq delChan,
         \A p \in Paths : Ever(p) => Ever(p)'
  PROVE  WorldType' /\ OkTold' /\ DeletesExtracted'
BY DEF FolderInv, OkTold, DeletesExtracted, Ever, WorldType

\* A change of the directory leaves the rest alone and wakes the loop.
LEMMA DirectoryKeeps ==
  ASSUME FolderInv, DirectoryChanges
  PROVE  FolderInv'
<1>1. WorldType /\ LoopInv
  BY DEF FolderInv
<1>2. ASSUME NEW p \in Paths, NEW e \in Paths \cup {"dir"}, Write(p, e) \/ Remove(p, e)
      PROVE  FolderInv'
  <2>1. \A q \in Paths : Ever(q) => Ever(q)'
    BY <1>2 DEF Write, Remove, Ever
  <2>2. ASSUME NEW q \in Paths
        PROVE  Quiet(q)' => Quiet(q)
    <3>1. e \in {p, "dir"} /\ events' = events \cup {e}
      BY <1>2 DEF Write, Remove
    <3>2. CASE e \in {q, "dir"}
      BY <3>1, <3>2 DEF Quiet
    <3>3. CASE e \notin {q, "dir"}
      <4>1. q # p
        BY <3>1, <3>3
      <4>2. disk'[q] = disk[q]
        BY <1>1, <1>2, <4>1 DEF Write, Remove, WorldType
      <4>3. QED
        BY <3>1, <4>2 DEF Quiet
    <3>4. QED
      BY <3>2, <3>3
  <2>3. LoopInv'
    BY <1>1, <1>2, <2>1, <2>2, LoopUnchanged DEF Write, Remove
  <2>4. WorldType'
    BY <1>1, <1>2, <2>1 DEF Write, Remove, WorldType, xtractr
  <2>5. UNCHANGED <<updates, delChan>>
    BY <1>2 DEF Write, Remove, xtractr
  <2>6. QED
    BY <2>1, <2>3, <2>4, <2>5, WorldKept DEF FolderInv
<1>3. ASSUME NEW e \in Paths \cup {"dir"}, Touch(e)
      PROVE  FolderInv'
  <2>1. \A q \in Paths : (Ever(q) => Ever(q)') /\ (Quiet(q)' => Quiet(q))
    BY <1>3 DEF Touch, Ever, Quiet, world
  <2>2. LoopInv'
    BY <1>1, <1>3, <2>1, LoopUnchanged DEF Touch
  <2>3. WorldType'
    BY <1>1, <1>3 DEF Touch, WorldType, world, xtractr
  <2>4. UNCHANGED <<updates, delChan>>
    BY <1>3 DEF Touch, xtractr
  <2>5. QED
    BY <2>1, <2>2, <2>3, <2>4, WorldKept DEF FolderInv
<1>4. QED
  BY <1>2, <1>3 DEF DirectoryChanges

\* The delete worker takes an archive away and leaves an event.
LEMMA DeleteRequestKeeps ==
  ASSUME FolderInv, NEW p \in Paths, DeleteRequest(p)
  PROVE  FolderInv'
<1>1. WorldType /\ LoopInv
  BY DEF FolderInv
<1>2. \A q \in Paths : Ever(q) => Ever(q)'
  BY DEF DeleteRequest, Ever
<1>3. \A q \in Paths : Quiet(q)' => Quiet(q)
  BY <1>1 DEF DeleteRequest, Quiet, WorldType
<1>4. LoopInv'
  BY <1>1, <1>2, <1>3, LoopUnchanged DEF DeleteRequest
<1>5. WorldType'
  BY <1>1, <1>2 DEF DeleteRequest, WorldType, xtractr
<1>6. UNCHANGED updates /\ delChan' \subseteq delChan
  BY DEF DeleteRequest, xtractr
<1>7. QED
  BY <1>2, <1>4, <1>5, <1>6, WorldKept DEF FolderInv

\* An answer that is added is as good as those before.
LEMMA OkAppended ==
  ASSUME FolderInv, NEW p \in Paths, NEW r \in Result,
         updates' = [updates EXCEPT ![p] = Append(@, r)],
         \A q \in Paths : Ever(q) => Ever(q)',
         r = "ok" => Ever(p)'
  PROVE  OkTold'
<1> SUFFICES ASSUME NEW q \in Paths, NEW i \in 1..Len(updates'[q]), updates'[q][i] = "ok"
             PROVE  Ever(q)'
  BY DEF OkTold
<1>1. updates \in [Paths -> Seq(Result)]
  BY DEF FolderInv, WorldType
<1>2. CASE q # p
  BY <1>1, <1>2 DEF FolderInv, OkTold
<1>3. CASE q = p
  <2>1. updates'[q] = Append(updates[q], r) /\ updates[q] \in Seq(Result)
    BY <1>1, <1>3
  <2>2. CASE i = Len(updates[q]) + 1
    BY <1>3, <2>1, <2>2
  <2>3. CASE i \in 1..Len(updates[q])
    <3>1. updates'[q][i] = updates[q][i]
      BY <2>1, <2>3
    <3>2. QED
      BY <2>3, <3>1 DEF FolderInv, OkTold
  <2>4. QED
    BY <2>1, <2>2, <2>3
<1>4. QED
  BY <1>2, <1>3

\* A job starts or ends.
LEMMA JobKeeps ==
  ASSUME FolderInv, NEW p \in Paths,
         \/ StartJob(p)
         \/ \E result \in Result \ {"started"} : FinishJob(p, result)
  PROVE  FolderInv'
<1>1. WorldType /\ LoopInv
  BY DEF FolderInv
<1>2. CASE StartJob(p)
  <2>1. \A q \in Paths : (Ever(q) => Ever(q)') /\ (Quiet(q)' => Quiet(q))
    BY <1>2 DEF StartJob, Ever, Quiet, world
  <2>2. LoopInv'
    BY <1>1, <1>2, <2>1, LoopUnchanged DEF StartJob
  <2>3. updates' \in [Paths -> Seq(Result)]
    BY <1>1, <1>2 DEF StartJob, WorldType, Result
  <2>4. WorldType'
    BY <1>1, <1>2, <2>3 DEF StartJob, WorldType, world
  <2>5. OkTold'
    BY <1>2, <2>1, OkAppended DEF StartJob, Result
  <2>6. DeletesExtracted'
    BY <1>2, <2>1 DEF StartJob, FolderInv, DeletesExtracted, world
  <2>7. QED
    BY <2>2, <2>4, <2>5, <2>6 DEF FolderInv
<1>3. ASSUME NEW r \in Result \ {"started"}, FinishJob(p, r)
      PROVE  FolderInv'
  <2>1. \A q \in Paths : (Ever(q) => Ever(q)') /\ (Quiet(q)' => Quiet(q))
    BY <1>1, <1>3 DEF FinishJob, Ever, Quiet, WorldType
  <2>2. LoopInv'
    BY <1>1, <1>3, <2>1, LoopUnchanged DEF FinishJob
  <2>3. updates' \in [Paths -> Seq(Result)]
    BY <1>1, <1>3 DEF FinishJob, WorldType
  <2>4. extracted' \subseteq Paths /\ (r = "ok" => Ever(p)')
    BY <1>1, <1>3 DEF FinishJob, WorldType, Ever
  <2>5. WorldType'
    BY <1>1, <1>3, <2>3, <2>4 DEF FinishJob, WorldType
  <2>6. OkTold'
    BY <1>3, <2>1, <2>4, OkAppended DEF FinishJob
  <2>7. DeletesExtracted'
    BY <1>3, <2>1 DEF FinishJob, FolderInv, DeletesExtracted, Ever
  <2>8. QED
    BY <2>2, <2>5, <2>6, <2>7 DEF FolderInv
<1>4. QED
  BY <1>2, <1>3

\* A step of the loop.
LEMMA LoopStepKeeps ==
  ASSUME FolderInv,
         \/ Tick
         \/ \E e \in Paths \cup {"dir"} : ProcessEvent(e)
         \/ \E p \in Paths : \/ FolderXtractrCallback(p) \/ RetryFolderLocked(p)
                             \/ ForgetQueueID(p) \/ DropHistory(p) \/ Expire(p)
  PROVE  FolderInv'
<1>1. WorldType /\ LoopInv /\ OkTold
  BY DEF FolderInv
<1>2. ASSUME NEW over \in SUBSET Paths, NEW ripe \in SUBSET Paths,
             NEW found \in [Paths -> Found], CleanerTick(over, ripe, found)
      PROVE  FolderInv'
  <2>1. LoopInv'
    BY <1>1, <1>2, CleanerTickLoop
  <2>2. jobs' \in [Paths -> Nat] /\ delChan' \subseteq Paths
    BY <1>1, <1>2 DEF CleanerTick, WorldType
  <2>3. WorldType'
    BY <1>1, <1>2, <2>2 DEF CleanerTick, WorldType, world
  <2>4. \A p \in Paths : Ever(p)' = Ever(p)
    BY <1>2 DEF CleanerTick, world, Ever
  <2>5. OkTold'
    BY <1>1, <1>2, <2>4 DEF CleanerTick, OkTold
  <2>6. ASSUME NEW p \in Paths, DeletesPath(p, ripe)
        PROVE  Ever(p)
    <3>1. Proven(ViewOf(p), Ever(p)) /\ ViewOf(p).fo.status = "EXTRACTED"
      BY <1>1, <2>6, ViewOfType DEF LoopInv, Sound, DeletesPath
    <3>2. QED
      BY <3>1 DEF Proven
  <2>7. DeletesExtracted'
    BY <1>2, <2>4, <2>6 DEF CleanerTick, FolderInv, DeletesExtracted, Ever, WorldType
  <2>8. QED
    BY <2>1, <2>3, <2>5, <2>7 DEF FolderInv
<1>3. ASSUME NEW e \in Paths \cup {"dir"}, ProcessEvent(e)
      PROVE  FolderInv'
  <2>1. LoopInv'
    BY <1>1, <1>3, ProcessEventLoop
  <2>2. WorldType'
    BY <1>1, <1>3 DEF ProcessEvent, WorldType, world, xtractr
  <2>3. /\ UNCHANGED <<updates, delChan>>
        /\ \A p \in Paths : Ever(p) => Ever(p)'
    BY <1>3 DEF ProcessEvent, world, xtractr, Ever
  <2>4. QED
    BY <2>1, <2>2, <2>3, WorldKept DEF FolderInv
<1>4. ASSUME NEW p \in Paths, FolderXtractrCallback(p)
      PROVE  FolderInv'
  <2>1. LoopInv'
    BY <1>1, <1>4, CallbackLoop
  <2>2. updates' \in [Paths -> Seq(Result)]
    BY <1>1, <1>4 DEF FolderXtractrCallback, WorldType
  <2>3. WorldType'
    BY <1>1, <1>4, <2>2 DEF FolderXtractrCallback, WorldType, world
  <2>4. \A q \in Paths : Ever(q)' = Ever(q)
    BY <1>4 DEF FolderXtractrCallback, world, Ever
  <2>5. ASSUME NEW q \in Paths, NEW i \in 1..Len(updates'[q]), updates'[q][i] = "ok"
        PROVE  Ever(q)
    <3>1. updates[q] \in Seq(Result) /\ updates[p] # <<>>
      BY <1>1, <1>4 DEF FolderXtractrCallback, WorldType
    <3>2. updates'[q] = IF q = p THEN Tail(updates[q]) ELSE updates[q]
      BY <1>1, <1>4 DEF FolderXtractrCallback, WorldType
    <3>3. \E j \in 1..Len(updates[q]) : updates[q][j] = "ok"
      <4>1. CASE q = p
        <5>1. Len(Tail(updates[q])) = Len(updates[q]) - 1 /\ Len(updates[q]) \in Nat
          BY <3>1, <4>1
        <5>2. i + 1 \in 1..Len(updates[q]) /\ Tail(updates[q])[i] = updates[q][i + 1]
          BY <2>5, <3>1, <3>2, <4>1, <5>1
        <5>3. QED
          BY <2>5, <3>2, <4>1, <5>2
      <4>2. CASE q # p
        BY <2>5, <3>2, <4>2
      <4>3. QED
        BY <4>1, <4>2
    <3>4. QED
      BY <1>1, <3>3 DEF OkTold
  <2>6. OkTold'
    BY <2>4, <2>5 DEF OkTold
  <2>7. DeletesExtracted'
    BY <1>4, <2>4 DEF FolderXtractrCallback, FolderInv, DeletesExtracted, Ever,
    WorldType, world
  <2>8. QED
    BY <2>1, <2>3, <2>6, <2>7 DEF FolderInv
<1>5. ASSUME NEW p \in Paths,
             RetryFolderLocked(p) \/ ForgetQueueID(p) \/ DropHistory(p) \/ Expire(p)
      PROVE  FolderInv'
  <2>1. LoopInv'
    BY <1>1, <1>5, UserLoop, RowLoop
  <2>2. UNCHANGED <<disk, extracted, partial, events, jobs, running, updates, delChan>>
    BY <1>5 DEF RetryFolderLocked, ForgetQueueID, DropHistory, Expire, world, xtractr
  <2>3. WorldType' /\ \A q \in Paths : Ever(q) => Ever(q)'
    BY <1>1, <2>2 DEF WorldType, Ever
  <2>4. QED
    BY <2>1, <2>2, <2>3, WorldKept DEF FolderInv
<1>6. QED
  BY <1>2, <1>3, <1>4, <1>5 DEF Tick

\* A crash takes every answer and every delete request with it.
LEMMA CrashKeeps ==
  ASSUME FolderInv, Crash
  PROVE  FolderInv'
<1>1. WorldType /\ LoopInv
  BY DEF FolderInv
<1>2. LoopInv'
  BY <1>1, CrashLoop
<1>3. WorldType'
  BY <1>1 DEF Crash, WorldType
<1>4. \A p \in Paths : updates'[p] = <<>> /\ delChan' = {}
  BY DEF Crash
<1>5. OkTold' /\ DeletesExtracted'
  BY <1>4 DEF OkTold, DeletesExtracted, Crash
<1>6. QED
  BY <1>2, <1>3, <1>5 DEF FolderInv

\* At first there is nothing.
LEMMA InitInv == Init => FolderInv
<1> SUFFICES ASSUME Init PROVE FolderInv
  OBVIOUS
<1>1. LoopType /\ WorldType
  BY ConstantsType DEF Init, LoopType, WorldType
<1>2. ASSUME NEW p \in Paths
      PROVE  Sound(ViewOf(p), Ever(p)) /\ Covers(ViewOf(p), Quiet(p))
  <2>1. /\ ViewOf(p).fo = Absent /\ ViewOf(p).rec = "ABSENT" /\ ViewOf(p).row = NoRow
    BY <1>1, ViewOfType DEF Init
  <2>2. Sound(ViewOf(p), Ever(p))
    BY <2>1, ConstantsType DEF Sound, Agrees, RowTells, NoHistory, Proven
  <2>3. QED
    BY <2>1, <2>2, ConstantsType, AbsentCovers DEF Has
<1>3. OkTold /\ DeletesExtracted
  BY DEF Init, OkTold, DeletesExtracted
<1>4. QED
  BY <1>1, <1>2, <1>3 DEF FolderInv, LoopInv

\* The inductive invariant.
THEOREM FolderInvariant == Spec => []FolderInv
<1>1. FolderInv /\ [Next]_vars => FolderInv'
  <2> SUFFICES ASSUME FolderInv, [Next]_vars PROVE FolderInv'
    OBVIOUS
  <2>1. CASE UNCHANGED vars
    <3>1. \A p \in Paths : (Ever(p) => Ever(p)') /\ (Quiet(p)' => Quiet(p))
      BY <2>1 DEF vars, Ever, Quiet
    <3>2. LoopInv'
      BY <2>1, <3>1, LoopUnchanged DEF FolderInv, vars, loop
    <3>3. WorldType'
      BY <2>1 DEF FolderInv, WorldType, vars
    <3>4. QED
      BY <2>1, <3>1, <3>2, <3>3, WorldKept DEF FolderInv, vars
  <2>2. CASE Next
    BY <2>2, LoopStepKeeps, DirectoryKeeps, CrashKeeps, JobKeeps, DeleteRequestKeeps DEF Next
  <2>3. QED
    BY <2>1, <2>2
<1>2. QED
  BY <1>1, InitInv, PTL DEF Spec

-----------------------------------------------------------------------------
(* What it shows.                                                          *)

\* Every variable keeps its type in every handler: a job's answer, a retry and
\* a restart make work items, and retries stay within maxRetries().
THEOREM TypeCorrect == Spec => []TypeOK
<1>1. FolderInv => TypeOK
  BY TypeOfParts DEF FolderInv, LoopInv
<1>2. QED
  BY <1>1, FolderInvariant, PTL

\* u.folders.Folders and History.Map tell of the same work, whatever the order
\* of callbacks, ticks, file events, user actions and restarts.
THEOREM Agreement == Spec => []FoldersAgree
<1>1. FolderInv => FoldersAgree
  <2> SUFFICES ASSUME FolderInv, NEW p \in Paths
               PROVE  /\ folders[p].status \in {"QUEUED", "EXTRACTING", "EXTRACTFAILED"} =>
                           map[p] = folders[p]
                      /\ folders[p].status = "EXTRACTED" => ~Has(map[p]) \/ map[p] = folders[p]
    BY DEF FoldersAgree
  <2>1. Agrees(ViewOf(p))
    BY DEF FolderInv, LoopInv, Sound
  <2>2. QED
    BY <2>1, ViewOfType DEF Agrees, FolderInv, LoopInv
<1>2. QED
  BY <1>1, FolderInvariant, PTL

\* The state file holds what a restart must redo or clean up after.
THEOREM RecoveryComplete == Spec => []RecoveryCovers
<1>1. FolderInv => RecoveryCovers
  <2> SUFFICES ASSUME FolderInv, StateFile, NEW p \in Paths
               PROVE  /\ folders[p].status \in Interrupted => recovery[p] = folders[p].status
                      /\ folders[p].status \in {"WAITING", "EXTRACTED"} /\ Quiet(p) =>
                           recovery[p] = folders[p].status
    BY DEF RecoveryCovers, Quiet
  <2>1. Covers(ViewOf(p), Quiet(p))
    BY DEF FolderInv, LoopInv
  <2>2. QED
    BY <2>1, ViewOfType DEF Covers, FolderInv, LoopInv
<1>2. QED
  BY <1>1, FolderInvariant, PTL

\* deleteAfterReached never deletes at a path where nothing was extracted.
THEOREM DeletesOnlyExtracted == Spec => []DeletesExtracted
<1>1. FolderInv => DeletesExtracted
  BY DEF FolderInv
<1>2. QED
  BY <1>1, FolderInvariant, PTL

\* A restart takes an extracted archive up as extracted.
THEOREM ExtractedResume == Spec => ExtractedResumes
<1>1. ASSUME FolderInv, Crash, StateFile, NEW p \in Paths,
             folders[p].status = "EXTRACTED", Quiet(p)
      PROVE  folders'[p].status = "EXTRACTED"
  <2> DEFINE v == ViewOf(p)
  <2>1. /\ v \in View /\ Sound(v, Ever(p)) /\ Covers(v, Quiet(p))
        /\ v.fo.status = "EXTRACTED"
    BY <1>1, ViewOfType DEF FolderInv, LoopInv
  <2>2. disk[p] \in BOOLEAN /\ disk[p]
    BY <1>1 DEF FolderInv, WorldType, Quiet
  <2>3. folders'[p] = Restarted(v, disk[p]).fo
    BY <1>1 DEF Crash, Becomes
  <2> HIDE DEF v
  <2>4. v.rec = "EXTRACTED"
    BY <1>1, <2>1 DEF Covers
  <2>5. QED
    BY <1>1, <2>1, <2>2, <2>3, <2>4, RestartedSound
<1>2. FolderInv /\ [Next]_vars =>
        [Crash /\ StateFile => \A p \in Paths :
           folders[p].status = "EXTRACTED" /\ disk[p] /\ {p, "dir"} \cap events = {} =>
             folders'[p].status = "EXTRACTED"]_vars
  BY <1>1 DEF Quiet
<1>3. QED
  BY <1>2, FolderInvariant, PTL DEF Spec, ExtractedResumes

-----------------------------------------------------------------------------
(* Answers.  As long as the last callback of a path is the start of a job, *)
(* that job is still to end; without it, taking the only callback off the  *)
(* channel could leave a folder without an answer.                         *)

AnsweredStart ==
  \A p \in Paths :
    updates[p] # <<>> /\ updates[p][Len(updates[p])] = "started" => running[p] > 0

NoLostInv == AnsweredStart /\ NoFolderLost

\* A step that puts no folder into the queue and leaves the jobs alone.
LEMMA NoLostByLoop ==
  ASSUME NoLostInv, UNCHANGED xtractr,
         \A p \in Paths : folders'[p].status \in Interrupted => folders[p].status \in Interrupted
  PROVE  NoLostInv'
BY DEF NoLostInv, AnsweredStart, NoFolderLost, xtractr

\* A file event queues nothing.
LEMMA ProcessEventNoLost ==
  ASSUME NoLostInv, FolderInv, NEW e \in Paths \cup {"dir"}, ProcessEvent(e)
  PROVE  NoLostInv'
<1>1. \A p \in Paths : /\ ViewOf(p) \in View
                       /\ Sound(ViewOf(p), Ever(p))
                       /\ ViewOf(p).fo = folders[p]
  BY ViewOfType DEF FolderInv, LoopInv
<1>2. ASSUME NEW p \in Paths, folders'[p].status \in Interrupted
      PROVE  folders[p].status \in Interrupted
  <2>1. \/ folders'[p] = Seen(ViewOf(p)).fo
        \/ folders'[p] = Unreadable(ViewOf(p)).fo
        \/ folders'[p] = ParentGone(ViewOf(p)).fo
        \/ folders'[p] = ViewOf(p).fo
    <3>1. CASE /\ e \in Paths
               /\ Becomes1(e, IF disk[e] THEN Seen(ViewOf(e)) ELSE Unreadable(ViewOf(e)))
      BY <3>1 DEF Becomes1, Becomes
    <3>2. CASE Becomes([q \in Paths |-> IF disk[q] THEN Seen(ViewOf(q)) ELSE ViewOf(q)])
      BY <3>2 DEF Becomes
    <3>3. CASE Becomes([q \in Paths |-> ParentGone(ViewOf(q))])
      BY <3>3 DEF Becomes
    <3>4. QED
      BY <3>1, <3>2, <3>3 DEF ProcessEvent
  <2>2. /\ Seen(ViewOf(p)).fo \in {ViewOf(p).fo, Waiting}
        /\ ~Has(Unreadable(ViewOf(p)).fo)
        /\ ~Has(ParentGone(ViewOf(p)).fo) \/ ParentGone(ViewOf(p)) = ViewOf(p)
    BY <1>1, SeenSound, UnreadableSound, ParentGoneSound
  <2>3. QED
    BY <1>1, <1>2, <2>1, <2>2, ConstantsType DEF Interrupted, Has
<1>3. QED
  BY <1>2, NoLostByLoop DEF ProcessEvent

\* The cleaner tick gives every folder it queues a job.
LEMMA CleanerTickNoLost ==
  ASSUME NoLostInv, FolderInv, NEW over \in SUBSET Paths, NEW ripe \in SUBSET Paths,
         NEW found \in [Paths -> Found], CleanerTick(over, ripe, found)
  PROVE  NoLostInv'
<1>1. ASSUME NEW p \in Paths, folders'[p].status \in Interrupted
      PROVE  folders[p].status \in Interrupted \/ QueuesPath(p, ripe, found)
  <2> DEFINE o == p \in over
             r == p \in ripe
             u == FinishItem(ViewOf(p), o)
  <2>1. /\ ViewOf(p) \in View /\ Sound(ViewOf(p), Ever(p)) /\ Covers(ViewOf(p), Quiet(p))
        /\ ViewOf(p).fo = folders[p]
        /\ o \in BOOLEAN /\ r \in BOOLEAN /\ disk[p] \in BOOLEAN /\ found[p] \in Found
    BY ViewOfType DEF FolderInv, LoopInv, WorldType
  <2>2. folders'[p] = CheckFolder(u, disk[p], r, found[p]).fo
    BY DEF CleanerTick, Becomes
  <2>3. QueuesPath(p, ripe, found) <=>
          folders[p].status = "WAITING" /\ disk[p] /\ r /\ found[p] = "archive"
    BY DEF QueuesPath
  <2> HIDE DEF o, r
  <2>4. u \in View /\ u.fo = folders[p] /\ u.rec = ViewOf(p).rec /\ Sound(u, Ever(p))
    BY <2>1, FinishItemSound
  <2> HIDE DEF u
  <2>5. Covers(u, Quiet(p))
    BY <2>1, <2>4 DEF Covers
  <2>6. CheckFolder(u, disk[p], r, found[p]).fo.status \in Interrupted =>
          \/ u.fo.status \in Interrupted
          \/ u.fo.status = "WAITING" /\ disk[p] /\ r /\ found[p] = "archive"
    BY <2>1, <2>4, <2>5, CheckFolderSound
  <2>7. QED
    BY <1>1, <2>2, <2>3, <2>4, <2>6
<1>2. UNCHANGED <<running, updates>>
  BY DEF CleanerTick
<1>3. AnsweredStart'
  BY <1>2 DEF NoLostInv, AnsweredStart
<1>4. \A p \in Paths : /\ jobs[p] \in Nat
                       /\ jobs'[p] = IF QueuesPath(p, ripe, found) THEN jobs[p] + 1 ELSE jobs[p]
  BY DEF CleanerTick, FolderInv, WorldType
<1>5. NoFolderLost'
  BY <1>1, <1>2, <1>4 DEF NoLostInv, NoFolderLost
<1>6. QED
  BY <1>3, <1>5 DEF NoLostInv

\* A job that starts or ends leaves an answer.
LEMMA JobNoLost ==
  ASSUME NoLostInv, FolderInv, NEW p \in Paths, NEW r \in Result,
         UNCHANGED folders,
         updates' = [updates EXCEPT ![p] = Append(@, r)],
         \A q \in Paths \ {p} : jobs'[q] = jobs[q] /\ running'[q] = running[q],
         r = "started" => running'[p] > 0
  PROVE  NoLostInv'
<1>1. updates \in [Paths -> Seq(Result)]
  BY DEF FolderInv, WorldType
<1>2. ASSUME NEW q \in Paths
      PROVE  /\ updates'[q] # <<>> /\ updates'[q][Len(updates'[q])] = "started" =>
                  running'[q] > 0
             /\ folders'[q].status \in Interrupted =>
                  jobs'[q] > 0 \/ running'[q] > 0 \/ updates'[q] # <<>>
  <2>1. CASE q # p
    BY <1>1, <2>1 DEF NoLostInv, AnsweredStart, NoFolderLost
  <2>2. CASE q = p
    <3>1. updates'[q] = Append(updates[q], r) /\ updates[q] \in Seq(Result)
      BY <1>1, <2>2
    <3>2. updates'[q] # <<>> /\ updates'[q][Len(updates'[q])] = r
      BY <3>1
    <3>3. QED
      BY <2>2, <3>2
  <2>3. QED
    BY <2>1, <2>2
<1>3. QED
  BY <1>2 DEF NoLostInv, AnsweredStart, NoFolderLost

\* Only the start of a job leaves its folder without a later answer, and the job still runs.
LEMMA CallbackNoLost ==
  ASSUME NoLostInv, FolderInv, NEW p \in Paths, FolderXtractrCallback(p)
  PROVE  NoLostInv'
<1> DEFINE q == updates[p]
<1>1. /\ q \in Seq(Result) /\ q # <<>> /\ updates \in [Paths -> Seq(Result)]
      /\ updates' = [updates EXCEPT ![p] = Tail(q)]
      /\ UNCHANGED <<jobs, running>>
  BY DEF FolderXtractrCallback, FolderInv, WorldType
<1>2. folders'[p].status \in Interrupted => Head(q) = "started"
  <2>1. ViewOf(p) \in View /\ Sound(ViewOf(p), Ever(p))
    BY ViewOfType DEF FolderInv, LoopInv
  <2>2. Head(q) \in Result /\ Head(q) = q[1] /\ 1 \in 1..Len(q)
    BY <1>1
  <2>3. Head(q) = "ok" => Ever(p)
    BY <2>2 DEF FolderInv, OkTold
  <2>4. folders'[p] = Called(ViewOf(p), Head(q)).fo
    BY DEF FolderXtractrCallback, Becomes1, Becomes
  <2>5. QED
    BY <2>1, <2>2, <2>3, <2>4, CalledSound
<1>3. \A x \in Paths \ {p} : folders'[x] = folders[x] /\ updates'[x] = updates[x]
  BY <1>1, ViewOfType DEF FolderXtractrCallback, Becomes1, Becomes, FolderInv, LoopInv
<1>4. updates'[p] = Tail(q)
  BY <1>1
<1>5. Tail(q) # <<>> => Tail(q)[Len(Tail(q))] = q[Len(q)]
  BY <1>1
<1>6. Tail(q) = <<>> => q[Len(q)] = Head(q)
  <2>1. Len(Tail(q)) = Len(q) - 1 /\ Len(q) \in Nat /\ Head(q) = q[1]
    BY <1>1
  <2>2. Tail(q) = <<>> => Len(Tail(q)) = 0
    BY EmptySeq, Zenon
  <2>3. Tail(q) = <<>> => Len(q) = 1
    BY <2>1, <2>2
  <2>4. QED
    BY <2>1, <2>3, Zenon
<1>7. q[Len(q)] = "started" => running[p] > 0
  BY <1>1 DEF NoLostInv, AnsweredStart
<1> HIDE DEF q
<1>8. AnsweredStart'
  BY <1>1, <1>3, <1>4, <1>5, <1>7 DEF NoLostInv, AnsweredStart
<1>9. NoFolderLost'
  BY <1>1, <1>2, <1>3, <1>4, <1>6, <1>7 DEF NoLostInv, NoFolderLost
<1>10. QED
  BY <1>8, <1>9 DEF NoLostInv

\* A folder that is queued or extracting always has a job or an answer coming.
THEOREM NoFolderIsLost == Spec => []NoFolderLost
<1>1. Init => NoLostInv
  BY ConstantsType DEF Init, NoLostInv, AnsweredStart, NoFolderLost, Interrupted
<1>2. FolderInv /\ NoLostInv /\ [Next]_vars => NoLostInv'
  <2> SUFFICES ASSUME FolderInv, NoLostInv, [Next]_vars PROVE NoLostInv'
    OBVIOUS
  <2>1. CASE Tick
    BY <2>1, CleanerTickNoLost DEF Tick
  <2>2. CASE \E e \in Paths \cup {"dir"} : ProcessEvent(e)
    BY <2>2, ProcessEventNoLost
  <2>3. ASSUME NEW p \in Paths, StartJob(p) PROVE NoLostInv'
    <3>1. running'[p] > 0 /\ "started" \in Result
      BY <2>3 DEF StartJob, FolderInv, WorldType, Result
    <3>2. /\ UNCHANGED folders
          /\ updates' = [updates EXCEPT ![p] = Append(@, "started")]
          /\ \A q \in Paths \ {p} : jobs'[q] = jobs[q] /\ running'[q] = running[q]
      BY <2>3 DEF StartJob, FolderInv, WorldType, loop
    <3>3. QED
      BY <3>1, <3>2, JobNoLost
  <2>4. ASSUME NEW p \in Paths, NEW r \in Result \ {"started"}, FinishJob(p, r)
        PROVE  NoLostInv'
    BY <2>4, JobNoLost DEF FinishJob, FolderInv, WorldType, loop
  <2>5. ASSUME NEW p \in Paths, RetryFolderLocked(p) \/ ForgetQueueID(p)
        PROVE  NoLostInv'
    <3>1. \A q \in Paths : ViewOf(q) \in View /\ ViewOf(q).fo = folders[q]
      BY ViewOfType DEF FolderInv, LoopInv
    <3>2. /\ Retried(ViewOf(p)).fo.status = "WAITING"
          /\ Absent.status = "ABSENT"
      BY RetriedSound, ConstantsType, <3>1 DEF FolderInv, LoopInv
    <3>3. \A q \in Paths : \/ folders'[q] = folders[q]
                           \/ folders'[q].status \in {"WAITING", "ABSENT"}
      BY <2>5, <3>1, <3>2 DEF RetryFolderLocked, Retried, ForgetQueueID, Becomes1, Becomes
    <3>4. QED
      BY <2>5, <3>3, NoLostByLoop DEF RetryFolderLocked, ForgetQueueID, Interrupted
  <2>6. CASE Crash
    <3>1. ASSUME NEW p \in Paths PROVE folders'[p].status \notin Interrupted
      <4>1. /\ ViewOf(p) \in View /\ Sound(ViewOf(p), Ever(p)) /\ disk[p] \in BOOLEAN
        BY ViewOfType DEF FolderInv, LoopInv, WorldType
      <4>2. folders'[p] = Restarted(ViewOf(p), disk[p]).fo
        BY <2>6 DEF Crash, Becomes
      <4>3. QED
        BY <4>1, <4>2, RestartedSound
    <3>2. QED
      BY <2>6, <3>1 DEF Crash, NoLostInv, AnsweredStart, NoFolderLost
  <2>7. CASE DirectoryChanges \/ UNCHANGED vars
    BY <2>7, NoLostByLoop DEF DirectoryChanges, Write, Remove, Touch, loop, vars, xtractr
  <2>8. ASSUME NEW p \in Paths, DropHistory(p) \/ Expire(p) \/ DeleteRequest(p)
        PROVE  NoLostInv'
    BY <2>8, NoLostByLoop DEF DropHistory, Expire, DeleteRequest, loop
  <2>9. QED
    BY <2>1, <2>2, <2>3, <2>4, <2>5, <2>6, <2>7, <2>8, CallbackNoLost DEF Next
<1>3. NoLostInv => NoFolderLost
  BY DEF NoLostInv
<1>4. QED
  BY <1>1, <1>2, <1>3, FolderInvariant, PTL DEF Spec
=============================================================================
