---------------------------- MODULE FolderTracker ----------------------------
(***************************************************************************)
(* The folder half of the main loop: an archive in a watched directory is  *)
(* tracked (u.folders.Folders), mirrored into the live queue (History.Map) *)
(* and into the recovery state file, extracted by xtractr, retried, cleaned *)
(* up after delete_after, and picked up again by the next process.         *)
(*                                                                         *)
(* A work item is the path of one archive; all paths lie in one directory. *)
(* The handlers of Run() are one step each.  The disk changes at any time  *)
(* and leaves an event, of the file or of the directory, that the loop     *)
(* reads later: it acts on what the disk holds by then.  Delays have no    *)
(* clock: each tick is told for which paths the delay has passed.          *)
(***************************************************************************)
EXTENDS Naturals, Sequences, FiniteSets

CONSTANTS
  Paths,          \* archives
  MaxRetries,     \* maxRetries()
  DeleteAfter,    \* delete_after > 0
  DeleteOrig,     \* delete_original
  RemnantOff,     \* remnant_action is "off"
  KeepHistory,    \* keep_history > 0
  StateFile,      \* state_file is not "off"
  Parallel,       \* xtractr workers
  MaxJobs,        \* bound: xtractr jobs of one path that wait
  UpdateBuf,      \* bound: callbacks of one path in u.folders.Updates
  Crashes,        \* the process may be killed
  UserActions     \* a user may retry and forget items and clear the history

ASSUME FolderAssumption ==
  /\ "dir" \notin Paths
  /\ MaxRetries \in Nat \ {0}
  /\ Parallel \in Nat \ {0}
  /\ {MaxJobs, UpdateBuf} \subseteq Nat
  /\ {DeleteAfter, DeleteOrig, RemnantOff, KeepHistory, StateFile, Crashes,
      UserActions} \subseteq BOOLEAN

VARIABLES
  folders,    \* the tracked item of a path
  map,        \* its live queue item
  recovery,   \* its status in the state file
  records,    \* its history row
  disk,       \* the archive is on the disk
  extracted,  \* paths where some archive was extracted
  partial,    \* paths with output of an extraction that a crash cut short
  events,     \* file events not yet received
  jobs,       \* xtractr jobs waiting for a worker
  running,    \* xtractr jobs a worker extracts
  updates,    \* callbacks to the main loop not yet received
  delChan     \* archives the delete worker has yet to delete

loop == <<folders, map, recovery, records>>
xtractr == <<jobs, running, updates>>
world == <<disk, extracted, partial>>
vars == <<folders, map, recovery, records, disk, extracted, partial,
          events, jobs, running, updates, delChan>>

-----------------------------------------------------------------------------
Status == {"WAITING", "QUEUED", "EXTRACTING", "EXTRACTFAILED", "EXTRACTED",
           "EXTRACTEDNOTHING", "DELETED"}

\* A tracked folder, a live item.
Work == [status : Status \cup {"ABSENT"}, retries : 0..MaxRetries, noRetry : BOOLEAN]

\* A history row.  It is dead when it is forgotten or older than 72 hours.
Row == [work : Work, dead : BOOLEAN]

Result == {"started", "ok", "nothing", "error", "blocked"}

Absent == [status |-> "ABSENT", retries |-> 0, noRetry |-> FALSE]

NoRow == [work |-> Absent, dead |-> FALSE]

Waiting == [status |-> "WAITING", retries |-> 0, noRetry |-> FALSE]

Has(w) == w.status # "ABSENT"

To(w, st) == [status |-> st, retries |-> w.retries, noRetry |-> w.noRetry]

\* The statuses the user may forget or clear.
Durable == {"EXTRACTFAILED", "EXTRACTEDNOTHING", "DELETED"}

-----------------------------------------------------------------------------
(* All the main loop keeps of one path.                                    *)

View == [fo : Work, it : Work, rec : Status \cup {"ABSENT"}, row : Row]

ViewOf(p) ==
  [fo |-> folders[p], it |-> map[p], rec |-> recovery[p], row |-> records[p]]

\* The loop's state becomes v[p] for every path.
Becomes(v) ==
  /\ folders' = [p \in Paths |-> v[p].fo]
  /\ map' = [p \in Paths |-> v[p].it]
  /\ recovery' = [p \in Paths |-> v[p].rec]
  /\ records' = [p \in Paths |-> v[p].row]

\* The same for one path.
Becomes1(p, v) == Becomes([q \in Paths |-> IF q = p THEN v ELSE ViewOf(q)])

SetFolder(v, fo) == [fo |-> fo, it |-> v.it, rec |-> v.rec, row |-> v.row]
SetItem(v, it) == [fo |-> v.fo, it |-> it, rec |-> v.rec, row |-> v.row]

Untrack(v) == SetFolder(v, Absent)
DropItem(v) == SetItem(v, Absent)

\* maybeRecordHistory: every status of a folder item is persisted.
Record(v) ==
  [fo |-> v.fo, it |-> v.it, rec |-> v.rec,
   row |-> IF KeepHistory THEN [work |-> v.it, dead |-> FALSE] ELSE v.row]

\* An item takes its retries from the folder, if that is tracked.
Copied(v, st) == IF Has(v.fo) THEN To(v.fo, st) ELSE To(v.it, st)

\* A new item is not recorded, a moved one is.
UpdateQueueStatus(v, st) ==
  IF Has(v.it) THEN Record(SetItem(v, Copied(v, st))) ELSE SetItem(v, Copied(v, st))

RecoveryClear(v) ==
  [fo |-> v.fo, it |-> v.it, rec |-> IF StateFile THEN "ABSENT" ELSE v.rec, row |-> v.row]

\* (mutant: what runs is not saved)
RecoveryTrackIdle(v) ==
  IF v.fo.status \in {"WAITING", "QUEUED", "EXTRACTED"}
  THEN [fo |-> v.fo, it |-> v.it,
        rec |-> IF StateFile THEN v.fo.status ELSE v.rec, row |-> v.row]
  ELSE RecoveryClear(v)

\* recoveryTrackFolder: only work that a restart must redo or clean up after.
RecoveryTrack(v) ==
  IF v.fo.status \in {"WAITING", "QUEUED", "EXTRACTING", "EXTRACTED"}
  THEN [fo |-> v.fo, it |-> v.it,
        rec |-> IF StateFile THEN v.fo.status ELSE v.rec, row |-> v.row]
  ELSE RecoveryClear(v)

\* syncFolderQueue: a waiting folder is shown, an untracked one no longer.
SyncQueue(v) ==
  CASE ~Has(v.fo) /\ v.it.status = "WAITING" -> DropItem(v)
    [] v.fo.status = "WAITING" /\ ~Has(v.it) -> UpdateQueueStatus(v, "WAITING")
    [] OTHER -> v

-----------------------------------------------------------------------------
(* File events.                                                            *)

\* The archive is there: one already tracked is only stamped, whatever its
\* status is.
Seen(v) == RecoveryTrack(SyncQueue(IF Has(v.fo) THEN v ELSE SetFolder(v, Waiting)))

\* Its path cannot be read.
Unreadable(v) ==
  IF Has(v.fo) THEN RecoveryClear(SyncQueue(Untrack(v))) ELSE SyncQueue(v)

\* The directory is gone: archives that still wait are dropped.
ParentGone(v) ==
  IF v.fo.status = "WAITING" THEN RecoveryClear(SyncQueue(Untrack(v))) ELSE v

ProcessEvent(e) ==
  /\ e \in events
  /\ events' = events \ {e}
  /\ \/ e \in Paths /\ Becomes1(e, IF disk[e] THEN Seen(ViewOf(e)) ELSE Unreadable(ViewOf(e)))
     \/ e = "dir" /\ Becomes([p \in Paths |-> IF disk[p] THEN Seen(ViewOf(p)) ELSE ViewOf(p)])
     \/ /\ e = "dir"
        /\ \A p \in Paths : ~disk[p]
        /\ Becomes([p \in Paths |-> ParentGone(ViewOf(p))])
  /\ UNCHANGED <<world, xtractr, delChan>>

-----------------------------------------------------------------------------
(* The cleaner tick.  found is what the scan of an archive returns:        *)
(* it is incomplete; nothing to extract, which skip_empty may skip; the    *)
(* first volume of another archive; an archive.                            *)

Found == {"incomplete", "nothing", "skipped", "volume", "archive"}

\* extractTrackedItem.
ExtractItem(v, found) ==
  CASE found = "incomplete" -> RecoveryTrack(v)
    [] found = "nothing" -> RecoveryTrack(SetFolder(v, To(v.fo, "EXTRACTEDNOTHING")))
    [] found = "volume" ->
         RecoveryClear(UpdateQueueStatus(
           SetFolder(v, To(v.fo, "EXTRACTEDNOTHING")), "EXTRACTEDNOTHING"))
    [] found = "archive" ->
         RecoveryTrack(UpdateQueueStatus(SetFolder(v, To(v.fo, "QUEUED")), "QUEUED"))

CheckWaiting(v, there, ripe, found) ==
  CASE ~there -> SyncQueue(Untrack(v))
    [] there /\ ripe /\ found = "skipped" -> Untrack(DropItem(v))
    [] there /\ ripe /\ found # "skipped" -> ExtractItem(v, found)
    [] OTHER -> v

CanRetry(fo) == ~fo.noRetry /\ fo.retries < MaxRetries

\* (mutant: back in the queue, where no job will answer for it)
RetryQueued(v) ==
  LET w == [status |-> "QUEUED", retries |-> v.fo.retries + 1, noRetry |-> v.fo.noRetry]
  IN RecoveryTrack(SetItem(SetFolder(v, w), w))

RetryFolder(v) ==
  LET w == [status |-> "WAITING", retries |-> v.fo.retries + 1, noRetry |-> v.fo.noRetry]
      \* only the folder's retries are copied, noRetry stays the item's
      i == [status |-> "WAITING", retries |-> w.retries, noRetry |-> v.it.noRetry]
      u == SetFolder(v, w)
  IN RecoveryTrack(IF Has(v.it) THEN Record(SetItem(u, i)) ELSE u)

\* An item leaves the tracker and stays in the queue as deleted for a while.
Settle(v) == Untrack(RecoveryClear(UpdateQueueStatus(v, "DELETED")))

\* (mutant: what has no retries left stays as it is)
CheckFailedRetries(v, ripe) == IF CanRetry(v.fo) /\ ripe THEN RetryFolder(v) ELSE v

CheckFailed(v, ripe) ==
  CASE ~CanRetry(v.fo) -> Settle(v)
    [] CanRetry(v.fo) /\ ripe -> RetryFolder(v)
    [] OTHER -> v

\* checkFolderStats for one path.
CheckFolder(v, there, ripe, found) ==
  CASE v.fo.status = "WAITING" -> CheckWaiting(v, there, ripe, found)
    [] v.fo.status = "EXTRACTEDNOTHING" /\ ripe -> RecoveryClear(Untrack(DropItem(v)))
    [] v.fo.status = "EXTRACTFAILED" -> CheckFailed(v, ripe)
    [] v.fo.status = "EXTRACTED" /\ (~DeleteAfter \/ ripe) -> Settle(v)
    [] OTHER -> v

\* checkExtractDone forgets a deleted item some time after.
FinishItem(v, over) == IF v.it.status = "DELETED" /\ over THEN DropItem(v) ELSE v

QueuesPath(p, ripe, found) ==
  folders[p].status = "WAITING" /\ disk[p] /\ p \in ripe /\ found[p] = "archive"

DeletesPath(p, ripe) ==
  folders[p].status = "EXTRACTED" /\ DeleteAfter /\ DeleteOrig /\ p \in ripe

\* checkExtractDone and checkFolderStats; over and ripe are the paths whose
\* item and whose folder have been left alone for long enough.
CleanerTick(over, ripe, found) ==
  /\ \A p \in Paths : QueuesPath(p, ripe, found) => jobs[p] < MaxJobs
  /\ Becomes([p \in Paths |->
       CheckFolder(FinishItem(ViewOf(p), p \in over), disk[p], p \in ripe, found[p])])
  /\ jobs' = [p \in Paths |-> IF QueuesPath(p, ripe, found) THEN jobs[p] + 1 ELSE jobs[p]]
  /\ delChan' = delChan \cup {p \in Paths : DeletesPath(p, ripe)}
  /\ UNCHANGED <<world, events, running, updates>>

-----------------------------------------------------------------------------
(* xtractr and the delete worker.                                          *)

Extracting == {w \in Paths \X (1..Parallel) : w[2] <= running[w[1]]}

StartJob(p) ==
  /\ jobs[p] > 0
  /\ Cardinality(Extracting) < Parallel
  /\ Len(updates[p]) < UpdateBuf
  /\ jobs' = [jobs EXCEPT ![p] = @ - 1]
  /\ running' = [running EXCEPT ![p] = @ + 1]
  /\ updates' = [updates EXCEPT ![p] = Append(@, "started")]
  /\ UNCHANGED <<loop, world, events, delChan>>

\* An archive that goes away during a successful extraction goes away after it.
FinishJob(p, result) ==
  /\ running[p] > 0
  /\ Len(updates[p]) < UpdateBuf
  /\ result = "ok" => disk[p]
  /\ result = "blocked" => RemnantOff
  /\ running' = [running EXCEPT ![p] = @ - 1]
  /\ updates' = [updates EXCEPT ![p] = Append(@, result)]
  /\ extracted' = IF result = "ok" THEN extracted \cup {p} ELSE extracted
  /\ UNCHANGED <<loop, disk, partial, events, jobs, delChan>>

DeleteRequest(p) ==
  /\ p \in delChan
  /\ delChan' = delChan \ {p}
  /\ disk' = [disk EXCEPT ![p] = FALSE]
  /\ events' = IF disk[p] THEN events \cup {p} ELSE events
  /\ UNCHANGED <<loop, xtractr, extracted, partial>>

\* (mutant: an error is not looked at)
EndedAlways(fo, result) ==
  To(fo, IF result = "nothing" THEN "EXTRACTEDNOTHING" ELSE "EXTRACTED")

\* The folder after the end of a job.
Ended(fo, result) ==
  CASE result = "nothing" -> To(fo, "EXTRACTEDNOTHING")
    [] result = "error" -> To(fo, "EXTRACTFAILED")
    [] result = "blocked" -> [To(fo, "EXTRACTFAILED") EXCEPT !.noRetry = TRUE]
    [] result = "ok" -> To(fo, "EXTRACTED")

\* (mutant: the start of a job is not mirrored)
CalledSilently(v, result) ==
  LET fo == IF result = "started" THEN To(v.fo, "EXTRACTING") ELSE Ended(v.fo, result)
  IN CASE ~Has(v.fo) \/ ~Has(v.it) -> RecoveryClear(Untrack(DropItem(v)))
       [] Has(v.fo) /\ Has(v.it) /\ result = "started" -> RecoveryTrack(SetFolder(v, fo))
       [] OTHER -> RecoveryTrack(UpdateQueueStatus(SetFolder(v, fo), fo.status))

Called(v, result) ==
  LET fo == IF result = "started" THEN To(v.fo, "EXTRACTING") ELSE Ended(v.fo, result)
  IN IF ~Has(v.fo) \/ ~Has(v.it) THEN RecoveryClear(Untrack(DropItem(v)))
     ELSE RecoveryTrack(UpdateQueueStatus(SetFolder(v, fo), fo.status))

\* folderXtractrCallback finds its folder by the path only.
FolderXtractrCallback(p) ==
  /\ updates[p] # <<>>
  /\ updates' = [updates EXCEPT ![p] = Tail(@)]
  /\ Becomes1(p, Called(ViewOf(p), Head(updates[p])))
  /\ UNCHANGED <<world, events, jobs, running, delChan>>

-----------------------------------------------------------------------------
(* The user.                                                               *)

RetryFolderLocked(p) ==
  /\ UserActions
  /\ map[p].status = "EXTRACTFAILED"
  /\ Has(folders[p])
  /\ Becomes1(p, Record(RecoveryTrack(SetItem(SetFolder(ViewOf(p), Waiting), Waiting))))
  /\ UNCHANGED <<world, events, xtractr, delChan>>

ForgetQueueID(p) ==
  /\ UserActions
  /\ map[p].status \in Durable
  /\ Becomes1(p, [fo |-> Absent, it |-> Absent, rec |-> recovery[p],
                  row |-> [work |-> records[p].work, dead |-> Has(records[p].work)]])
  /\ UNCHANGED <<world, events, xtractr, delChan>>

DropHistory(p) ==
  /\ UserActions
  /\ records[p].work.status \in Durable
  /\ records' = [records EXCEPT ![p] = NoRow]
  /\ UNCHANGED <<folders, map, recovery, world, events, xtractr, delChan>>

-----------------------------------------------------------------------------
(* The world: the directory changes, and the watcher tells of it.          *)

Write(p, e) ==
  /\ e \in {p, "dir"}
  /\ disk' = [disk EXCEPT ![p] = TRUE]
  /\ events' = events \cup {e}
  /\ UNCHANGED <<loop, xtractr, extracted, partial, delChan>>

Remove(p, e) ==
  /\ e \in {p, "dir"}
  /\ e = "dir" => \A q \in Paths \ {p} : ~disk[q]
  /\ disk[p]
  /\ disk' = [disk EXCEPT ![p] = FALSE]
  /\ events' = events \cup {e}
  /\ UNCHANGED <<loop, xtractr, extracted, partial, delChan>>

\* An event without a change of the archives: output that is moved in place,
\* a mode that is set.
Touch(e) ==
  /\ e \in Paths \cup {"dir"}
  /\ events' = events \cup {e}
  /\ UNCHANGED <<loop, world, xtractr, delChan>>

\* 72 hours pass without a transition.
Expire(p) ==
  /\ Has(records[p].work)
  /\ records' = [records EXCEPT ![p] = [work |-> @.work, dead |-> TRUE]]
  /\ UNCHANGED <<folders, map, recovery, world, events, xtractr, delChan>>

-----------------------------------------------------------------------------
(* A new process.                                                          *)

\* restoreQueueFromHistory and seedFolderTracker.
RestoredStatus(st) ==
  CASE st = "QUEUED" -> "WAITING"
    [] st = "EXTRACTING" -> "EXTRACTFAILED"
    [] OTHER -> st

FromRow(v) ==
  LET w == To(v.row.work, RestoredStatus(v.row.work.status))
      live == ~v.row.dead /\ w.status # "DELETED"
  IN [fo |-> IF live THEN w ELSE Absent, it |-> IF live THEN w ELSE Absent,
      rec |-> v.rec, row |-> v.row]

Interrupted == {"QUEUED", "EXTRACTING"}

\* (mutant: everything is queued again)
FromStateAgain(v, there) ==
  IF ~StateFile \/ v.rec = "ABSENT" \/ (there /\ Has(v.fo)) THEN v
  ELSE IF there THEN RecoveryTrack(SetFolder(v, Waiting)) ELSE RecoveryClear(v)

\* recoverInterruptedFolders leaves alone what a row brought back.
FromState(v, there) ==
  IF ~StateFile \/ v.rec = "ABSENT" \/ (there /\ Has(v.fo)) THEN v
  ELSE CASE ~there -> RecoveryClear(v)
         [] there /\ v.rec = "EXTRACTED" -> SetFolder(v, To(Waiting, "EXTRACTED"))
         [] OTHER -> RecoveryTrack(SetFolder(v, Waiting))

\* Its cleanup of what an interrupted extraction left.
Cleaned(v, there) ==
  StateFile /\ there /\ ~Has(FromRow(v).fo) /\ v.rec \in Interrupted

\* scanWatchedFolders.
Scanned(v, there) == IF there THEN Seen(v) ELSE v

\* What the next process makes of a path.
Restarted(v, there) == Scanned(FromState(FromRow(v), there), there)

Crash ==
  LET cut == partial \cup {p \in Paths : running[p] > 0} IN
  /\ Crashes
  /\ Becomes([p \in Paths |-> Restarted(ViewOf(p), disk[p])])
  /\ partial' = cut \ {p \in Paths : Cleaned(ViewOf(p), disk[p])}
  /\ events' = {}
  /\ jobs' = [p \in Paths |-> 0]
  /\ running' = [p \in Paths |-> 0]
  /\ updates' = [p \in Paths |-> <<>>]
  /\ delChan' = {}
  /\ UNCHANGED <<disk, extracted>>

-----------------------------------------------------------------------------
\* The first process finds an empty directory.
Init ==
  /\ folders = [p \in Paths |-> Absent]
  /\ map = [p \in Paths |-> Absent]
  /\ recovery = [p \in Paths |-> "ABSENT"]
  /\ records = [p \in Paths |-> NoRow]
  /\ disk = [p \in Paths |-> FALSE]
  /\ extracted = {}
  /\ partial = {}
  /\ events = {}
  /\ jobs = [p \in Paths |-> 0]
  /\ running = [p \in Paths |-> 0]
  /\ updates = [p \in Paths |-> <<>>]
  /\ delChan = {}

Tick == \E over \in SUBSET Paths, ripe \in SUBSET Paths, found \in [Paths -> Found] :
          CleanerTick(over, ripe, found)

DirectoryChanges ==
  \/ \E e \in Paths \cup {"dir"} : Touch(e)
  \/ \E p \in Paths, e \in Paths \cup {"dir"} : Write(p, e) \/ Remove(p, e)

Next ==
  \/ Tick
  \/ DirectoryChanges
  \/ Crash
  \/ \E e \in Paths \cup {"dir"} : ProcessEvent(e)
  \/ \E p \in Paths :
       \/ StartJob(p) \/ FolderXtractrCallback(p) \/ DeleteRequest(p)
       \/ RetryFolderLocked(p) \/ ForgetQueueID(p) \/ DropHistory(p) \/ Expire(p)
       \/ \E result \in Result \ {"started"} : FinishJob(p, result)

Spec == Init /\ [][Next]_vars

\* The select in Run() serves every ready case, the ticker included, and the
\* workers keep working.  A waiting archive is complete at some tick after its
\* start delay, the code waits for ever otherwise.
Fairness ==
  /\ \A e \in Paths \cup {"dir"} : WF_vars(ProcessEvent(e))
  /\ \A p \in Paths :
       /\ WF_vars(\E over \in SUBSET Paths, ripe \in SUBSET Paths, found \in [Paths -> Found] :
                    p \in over \cap ripe /\ found[p] = "archive" /\ CleanerTick(over, ripe, found))
       /\ WF_vars(StartJob(p))
       /\ WF_vars(\E result \in Result \ {"started"} : FinishJob(p, result))
       /\ WF_vars(FolderXtractrCallback(p))
       /\ WF_vars(DeleteRequest(p))

FairSpec == Spec /\ Fairness

-----------------------------------------------------------------------------
(* Properties.                                                             *)

\* Every variable keeps its type.
TypeOK ==
  /\ folders \in [Paths -> Work]
  /\ map \in [Paths -> Work]
  /\ recovery \in [Paths -> Status \cup {"ABSENT"}]
  /\ records \in [Paths -> Row]
  /\ disk \in [Paths -> BOOLEAN]
  /\ extracted \subseteq Paths
  /\ partial \subseteq Paths
  /\ events \subseteq Paths \cup {"dir"}
  /\ jobs \in [Paths -> Nat]
  /\ running \in [Paths -> Nat]
  /\ updates \in [Paths -> Seq(Result)]
  /\ delChan \subseteq Paths

\* A folder that is queued or extracting has a job or an answer under way: it
\* blocks the idle restart and ignores file events until one arrives.
NoFolderLost ==
  \A p \in Paths : folders[p].status \in Interrupted =>
    jobs[p] > 0 \/ running[p] > 0 \/ updates[p] # <<>>

\* The tracker and the live queue tell of the same work: readers, the idle
\* test and the user's actions look at one, the ticks at the other.  Only an
\* extracted folder that came back from the state file has no item.
FoldersAgree ==
  \A p \in Paths :
    /\ folders[p].status \in {"QUEUED", "EXTRACTING", "EXTRACTFAILED"} => map[p] = folders[p]
    /\ folders[p].status = "EXTRACTED" => ~Has(map[p]) \/ map[p] = folders[p]

\* The state file covers whatever a restart must redo or clean up after.  Only
\* an archive that is gone, or that came back and whose event is to be read,
\* may be tracked without it.
RecoveryCovers ==
  StateFile => \A p \in Paths :
    /\ folders[p].status \in Interrupted => recovery[p] = folders[p].status
    /\ folders[p].status \in {"WAITING", "EXTRACTED"} /\ disk[p] /\ {p, "dir"} \cap events = {} =>
         recovery[p] = folders[p].status

\* A restart does not lose the cleanup of an extracted archive, nor extract it
\* again, however old or incomplete its history row is.
ExtractedResumes ==
  [][Crash /\ StateFile => \A p \in Paths :
       folders[p].status = "EXTRACTED" /\ disk[p] /\ {p, "dir"} \cap events = {} =>
         folders'[p].status = "EXTRACTED"]_vars

\* An archive is deleted only if one at its path was extracted, however its
\* item came to be taken for extracted: a callback, a history row or the state
\* file.  (It may be another archive: the tracker goes by the path.)
DeletesExtracted == delChan \subseteq extracted

\* Once the directory and the user keep quiet and the process stays up, every
\* tracked archive is through, and no item waits or works for ever.
StaysQuiet ==
  <>[][~DirectoryChanges /\ ~Crash /\ \A p \in Paths : ~RetryFolderLocked(p)]_vars

FolderWorkEnds ==
  StaysQuiet => \A p \in Paths :
    <>[](~Has(folders[p]) /\ map[p].status \notin {"WAITING", "QUEUED", "EXTRACTING"})

-----------------------------------------------------------------------------
(* What documents and comments say and the code does not do.               *)

\* docs/configuration.md:102: a restart cleans the partial output of queued or
\* extracting items.  It does not when the history brought the item back.
CleansPartial ==
  [][Crash /\ StateFile => \A p \in Paths :
       recovery[p] \in Interrupted /\ disk[p] => p \notin partial']_vars

\* docs/configuration.md:103: and re-queues valid work from the beginning.  A
\* process that dies now takes waiting work for done or for failed for good, if
\* an older row says so of an archive that lay there before.
Requeues ==
  \A p \in Paths : recovery[p] = "WAITING" /\ disk[p] =>
    LET fo == Restarted(ViewOf(p), TRUE).fo IN
    fo.status # "EXTRACTED" /\ (fo.status = "EXTRACTFAILED" => CanRetry(fo))

\* folder.go:568: queued and running work owns its recovery record until its
\* callback settles.  An event for a path that cannot be read takes it away.
RunningKeepsRecord ==
  [][\A e \in Paths \cup {"dir"} : ProcessEvent(e) => \A p \in Paths :
       recovery[p] \in Interrupted => recovery'[p] = recovery[p]]_vars
=============================================================================
