# A TLA+ model of UnpackUI

UnpackUI watches the download queues of Starr apps (Sonarr, Radarr, Lidarr,
Readarr, Whisparr) and a set of folders, extracts what is compressed in them
with the xtractr library, waits for the app to import the result, and cleans
up. It has a web UI with a live view, a history, user actions on the queue and
a full configuration editor, and it can restart itself.

This directory holds TLA+ modules translated from the code, TLC runs that check
them on small instances, and proofs of the main theorems for every value of the
constants. `PROJECT.json` maps every definition to the lines it stands for and
lists runs, mutants, hazards, findings and theorems. Line numbers below are of
files in `src/pkg/unpackerr/` unless a path says otherwise.

## Inventory

| component | state | operations | what is hard |
|---|---|---|---|
| **Starr queue** (`handlers.go`, `starrpoll.go`, `apps.go`, `queue_actions.go`, `historyrestore.go`, `restart.go`) | `History.Map`, tombstones, each instance's last poll, xtractr's jobs and callbacks, delete requests | poll tick, extract tick, cleaner tick, xtractr callback, retry, forget, instance PUT, restore, idle restart | callbacks of an old job reach a new item of the same name; "not in the queue" has to be told from "not polled"; transitions that are not recorded; restarts at any point |
| **History file** (`historyfile.go`, `history.go`) | the JSONL file, the records in memory | append, compact, load and merge, cap, clear, delete, flag | HTTP and main loop both write; a row is read, unlocked and written back (`markHistoryForgotten`); crash between append and compact |
| **Folder tracker** (`folder.go`, `historyrestore.go`) | tracked folders, their live items | event, stats tick, extract, callback, remnants, delete after, retry | the callback arrives after the folder was dropped; two maps that must agree |
| **Folder watch** (`pkg/folders/watch.go`, `path.go`) | kernel watches, the table of watched folders, events on their way | filter an event, process it, scan a tree | the disk changes while a tree is walked; watches go with a folder, the table goes by its path |
| **Recovery state** (`recovery.go`) | `unpackerr.state.json` | save on change, load, re-queue | crash between the change and the save; history and recovery both restore |
| **Remnants** (`remnants.go`) | files before and after an extraction | classify, clear, restart | a partly cleared set; a restart that repeats |
| **Hooks** (`webhook.go`, `pkg/hooks`) | pending hooks, worker queue, message ids, failure counts, `hookInFlight` | queue, deliver, save id, record failure | the worker answers after the item changed or left; a full queue; edits of an earlier message |
| **Restart** (`restart.go`, `start.go`) | `pendingRestart`, `inFlight` | PUT asks, cleaner tick restarts when idle | work under way that idleness does not see |
| **Main loop** (`start.go`, `mainloop.go`, `progress.go`) | tickers, channels, tasks of the HTTP handlers | select, hand over a task, time out | bounded channels, an unbuffered progress channel, a task that runs after its caller gave up |
| **Poll workers** (`apps.go`, `starrpoll.go`) | work channel, workers | enqueue polls, publish | polls published to an instance that was replaced meanwhile |
| **Live hub** (`livehub.go`, `livews.go`) | clients, topics, coalesced frames | register, subscribe, notify, flush, drop | slow clients, dropped frames, snapshot against updates |
| **Config commit** (`configput.go`, `configclone.go`, `cnfgfile.go`) | the file, the file's document, what runs | PUT of a section, write, apply, start | write first or apply first; a failed write; env values that must not reach the file; what a start does to what a PUT accepted |
| **Config load and validation** (`pkg/configdef`) | the decoded config | decode, merge, validate | defaults and zero values |
| **Accounts** (`auth.go`, `password.go`, `apikeys.go`, `permissions.go`) | UI password, API keys, roles, the table of rights by key | authenticate, make up a password and an admin key, `--reset`, the tray's dialog | a check against state that a PUT replaces; three writers of one password |
| **Web server and API** (`webserver.go`, `api.go`, `browse.go`, `openapi`) | none of its own | routing, encoding | – |
| **Metrics, stats, logs, progress display** (`metrics.go`, `logs.go`, `logtee.go`, `logfiles.go`, `progress.go`) | counters, log ring | observe, rotate | – |
| **Lidarr manual import** (`lidarr.go`) | none of its own | import split tracks | runs on its own goroutine after the callback |
| **Tray, update check, frontend** (`tray.go`, `pkg/update`, `frontend`) | GUI state | – | – |

How they interact: one goroutine, the main loop in `Run()`, owns the live queue
and the config. Everybody else sends to it: tickers, xtractr (`u.updates`,
`u.folders.Updates`, `progChan`), file events, the hook worker (two wake
channels), the HTTP handlers (tasks on `taskChan` that the handler waits for).
It sends to the delete worker (`delChan`), the hook worker and xtractr. HTTP
handlers read the live queue under `History.mu` and read and write the history
under `histMu`.

## Plan

In order of importance to what the program is for:

1. `StarrQueue` – the life of a download (done, with `StarrQueueProofs`).
2. `HistoryLog` – the JSONL file and its in-memory list (done, with
   `HistoryProofs`; implements `HistoryStore`).
3. `FolderTracker` – tracker, live items, recovery state and callbacks of
   watched folders (done, with `FolderProofs`).
4. `FolderWatch` – kernel, events and walks that feed the tracker (done, with
   `FolderWatchProofs`).
5. `HookDelivery` – pending hooks, worker, message ids, failures and the
   in-flight count that restart waits for (done, with `HookProofs`).
6. `ConfigCommit` – persist first, apply after, with the accounts that are part
   of the same document (done, with `ConfigProofs`).
7. `LiveHub` – clients that see coalesced frames converge on the server's state
   (done, with `LiveProofs`).
8. `MainLoop` – the channels, the two mutexes, the pool of poll workers, and who
   waits for whom (done, with `MainLoopProofs`).
9. Left: `TitleLife` – an abstract specification of one download that
   `StarrQueue` implements; the remnant rules as operators.

The library's induction theorems take an operator and cannot be used here. A
proof module that goes over a list has at its head what it needs instead:
induction over `0..n` about a set (`UpTo`, from the least number of a set), and
that a recursion over `0..n` has a solution (`ChainExists`), or in `HookProofs`
that a `FoldLeft` is a run of steps (`FoldRuns`).

`StarrQueue`, `HookDelivery` and `ConfigCommit` each hold their
side of an idle restart: what is lost, what is counted as work, and what a
restart is asked for. `FolderWatch` keeps of the tracker only whether a path
waits, is queued or is out, and what xtractr works on; `FolderTracker` takes
events as given.

### The runs

Two workers, seconds on one machine. The properties of each run are in
`PROJECT.json`, with a mutant of the code that breaks it.

| run | configuration | distinct states | about |
|---|---|---|---|
| `starr_crash` | `StarrCrash.cfg` | 431 008, 53 s | one title through everything: two jobs, callbacks of the older one, crashes, idle restarts, edits |
| `starr_live` | `StarrLive.cfg` | 118 534, 166 s | every download settles, every import is cleaned up, every tombstone ends |
| `idle_interrupts` | `StarrIdle.cfg` | violation | a restart can kill an extraction |
| `history_restart` | `HistoryRestart.cfg` | 80 191, 36 s | the log implements `HistoryStore`; a restart finds what memory shows, but for two glued rows; deletions are final, the file is bounded |
| `folder_restart` | `FolderRestart.cfg` | 307 926, 56 s | one archive through everything, two jobs, crashes: the state file is complete, deletes are justified |
| `folder_live` | `FolderLive.cfg` | 21 500, 60 s | every tracked archive is through once the world is quiet |
| `watch` | `Watch.cfg` | 2 901 662, 88 s | nothing goes unnoticed but in blind folders or what a walk passed over, the table is true, no ghosts, no output as work |
| `watch_blind` | `WatchBlind.cfg` | violation | the startup walk ends at a folder that vanished |
| `hooks` | `Hooks.cfg` | 1 112 788, 21 s | the in-flight count is exact, no report is lost, a message belongs to one extraction and is posted once |
| `live` | `Live.cfg` | 5 997 477, 121 s | a page that was not left behind ends with what the server has |
| `config` | `Config.cfg` | 1 758 872, 69 s | file and running configuration stay together, secrets stay out, an admin key works, restarts are owed |
| `loop` | `Loop.cfg` | 1 272 676, 21 s | two instances: whatever the loop waits for can go on, no list changes under a poll, a restart loses no delete |

Type correctness is proved for every module and is in no run.

Further configurations stand beside the runs; all are checked with
`tlc -config <file> <MC module>`. Four of them pass: `StarrEdits.cfg` (two
instances and edits), `HistoryFaults.cfg` (every write may be cut or fail),
`LoopTasks.cfg` and `LoopHeard.cfg` (the liveness of the main loop). Each of the
others ends with a trace to a behaviour listed under "Disagreements".

## StarrQueue

The state is one record per title (`map`), with the history row beside it
(`records`), the tombstones (`forgotten`), the titles whose row the cap of
`keep_history` took (`capped`, a history variable), the instances and what their
polls said (`servers`, `polled`, `queue`), xtractr's side (`jobs`, `running`,
`updates`) and the delete worker's (`delChan`).

| action | code |
|---|---|
| `PollTick` | the poller case: `retrieveAppQueues` (polls, scan, `sweepForgotten`) and `checkQueueChanges`; a poll that fails keeps the old queue |
| `ExtractTick` | `extractCompletedDownloads` for all waiting items whose start delay is over; which have archives is the environment's choice |
| `CleanerTick` | `checkExtractDone`: give up, retry, stale, clean up, finish |
| `CleanerRestart` | the same tick when `maybeRestart` finds the loop idle |
| `HandleXtractrCallback` | the start and the end of a job, remnants included; a callback finds the item by its name only |
| `StartJob`, `FinishJob` | xtractr's workers (external) |
| `DeleteRequest` | the delete worker |
| `RetryQueueID`, `ForgetQueueID` | queue actions, run on the main loop |
| `DropHistory` | clear and delete of history rows, on the HTTP goroutine |
| `CapTakesRows` | other work that shares the history completes, or `keep_history` is lowered: the cap takes rows |
| `PutStarrList` | PUT of an app's instances; unchanged ones keep their poll |
| `Crash` | the process dies; the next one restores the rows |
| `Age` | time: an item's age is 0 before its delay, 1 after it, 2 after 24 hours |

Abstractions: the start, retry and delete delays all end at age 1, which may be
at any time, so every order of delays is covered; paths, archives and messages
are left out; a response is a result and whether it named new files. The 72-hour
limit of restored rows is a nondeterministic set. The number in `keep_history`
and the order of the rows are left to `HistoryLog`: here the cap may take any
completed rows whenever one is written (`SaveRows`), by other work
(`CapTakesRows`) and when a start loads them (`Restart`), as which rows are the
oldest depends on titles and folders outside the instance. The file behind
`records` belongs to `HistoryLog`, too. Folder items share the map but
no code path of the Starr half touches them. Downloads that carry the same name
in two apps share one key, as in the code.

### Runs

| run | bounds | what it shows |
|---|---|---|
| `starr_crash` | 1 title, 1 instance that may be edited, 1 retry and 1 manual one, 2 workers, 2 jobs of the title, room for 1 callback, crashes and idle restarts anywhere | answers of an older job; budget, rows, tombstones and silent instances over restarts, edits and the cap |
| `starr_live` | 1 title, 1 instance, crashes, cleared history | liveness |
| `idle_interrupts` | 1 title, idle restarts | finds a disagreement of the code and a comment |

One title is enough because titles meet in three places only: the workers they
share, `Idle`, and the rule that polls are needed of all instances; the safety
theorems are proved for any number of titles. Two jobs of one title is the
smallest number for which an answer can reach the wrong item. Two instances are
the smallest number for which one poll is missing; that case is proved
(`ForgottenTitles`, `TombstonesLifted`) and `StarrEdits.cfg`, which is kept
beside the runs, checks it. `MaxJobs`, `UpdateBuf`, `DelBuf` and
`MaxManual` bound what the code does not; they appear as guards. With room for
two callbacks (`UpdateBuf = 2`) the same run passes with 1 957 864 states, too
close to five minutes to be kept.

`starr_live` assumes weak fairness of the ticks, of xtractr's workers, of the
delete worker and of time: `Run()` selects over all of them and Go's select
starves none. Two assumptions are about the world: all instances answer a poll
again and again, and the archives of a waiting item are found at some extract
tick. Without them the code waits for ever by design. `StaysUp` restricts the
claim to behaviours that stop restarting.

### Proofs

`StarrQueueProofs` proves, for any titles, instances and bounds:

- `TypeCorrect`, one lemma per action;
- `ForgottenTitles`: inductive as it stands, given the types;
- `NoExtractionLost`, by the stronger `NoLostInv`: as long as the last callback
  of a title is a start, a worker still extracts it (`AnsweredStart`). Without
  it, taking the only callback off the channel could leave the item unanswered;
- `RetriesBounded`, by `BudgetInv`: the rows stay within the budget too, since
  a restart takes retries from them;
- `SilenceKeeps`, an action property, from the types: each step that could make
  an item imported, hand it to xtractr or delete its files (poll, extract tick,
  cleaner tick, callback, restart, PUT of the instances) leaves the items of a
  configured instance without an answer alone;
- `GivenUpStays`, an action property, by `SettledRows`: the row of what gave up
  says so or is missing, so that a restart brings it back as given up or not at
  all. This holds where no history is kept and where the user clears it too,
  where `RowsResume` says nothing. An item that a restart did not bring back and
  its app still lists is listed anew by the next poll, as new work; the property
  does not exclude that.

Where a history is kept and not cleared it adds `RowsResumeItems` (by `RowsInv`)
and `TombstonesLifted` (by `FlaggedRows`: the row of a forgotten title is flagged
or was taken by the cap, and nothing writes it while the title stays out). They
assume `StarrAssumption`
only. The liveness properties are model-checked, not proved: liveness and
ENABLED are beyond the proof system.

### Findings

`idle()` does not see xtractr: a restart can kill an extraction whose item
already left the queue.

Seen while modelling, without a run of their own: a retry the user asked for
does not survive an idle restart, because a waiting item writes no row and the
row of its failure is restored (`RowsResume` leaves waiting items out for this);
a lifted tombstone comes back with every restart within the history, because its
row stays flagged; clearing the history drops the row of an extracted item that
was imported before and came back, because `checkQueueChanges` does not write
the row then. The cap can take that row, too (`ExtractedKeepsRow`, below): the
next restart does not know the item. `RowsResume` says which rows may be missing
that way, and is about runs without `HistoryEdits`.

## HistoryLog

`records` is the list in memory, `lines` the line count the code keeps
(`histLines`), `file` the file, with `torn` for a last line without its newline.
`up` and `opened` are the process and its open file, `marking` is the row that
`markHistoryForgotten` holds between its two locks. `last` and `hurt` are history
variables: what the user and the main loop last did to an id, and the ids of
rows that were glued together since the file was last rewritten or read.

| action | code |
|---|---|
| `RecordHistory` | `maybeRecordHistory`, `upsertHistory`: merge, cap, then append one line or rewrite the file |
| `BumpHistory` | the hook counters of a row (`bumpHistoryHookFail`) |
| `MarkHistoryForgotten`, `WriteForgotten` | read and copy under the lock; write the copy under the next lock |
| `PutGeneral` | `keep_history` changes; turning it on loads the file |
| `DeleteHistoryID`, `ClearHistory` | the HTTP handlers; only finished rows |
| `Crash`, `Start` | the process dies; `loadHistory` reads, folds, caps and rewrites if that changed anything |

Every write takes a `how`: it ends well, the process dies in it, or it fails and
the process goes on. A cut write leaves whole lines and possibly a last one
without its newline: a fragment that cannot be read (`Bad`), or a row that lacks
only the newline. A load takes that row for whole and does not rewrite the file,
as it counts as many lines as rows. The next append is glued to it, and both are
unreadable from then on; their ids are `hurt` until the file is rewritten, or
read again, when what is left of them becomes `last`.

`HistoryStore` is the promise to readers: of each id they see the row recorded
last, or nothing; rows of work in progress are always there; rows that were
removed do not come back. A death in the middle of a recording costs two rows at
the most, when the history is next read. `Shown`, the refinement mapping, is memory while a
history is kept and the folded file otherwise.

| run | bounds | what it shows |
|---|---|---|
| `history_restart` | 3 ids, `keep_history` 0, 1 or 2 | `StoreSpec`, `RestartKeeps`, `DeletedStaysDeleted` and `LogBounded` with crashes between and in appends |
| beside it: `HistoryFaults.cfg` | 2 ids, `keep_history` 0 or 1, every write may be cut or fail | `DeletedStaysDeleted` and `LogBounded` (2 190 411 states, 4 min with 4 workers) |
| beside it: `HistoryGlued.cfg` | as `history_restart` | `WorkResumes` is violated: work in progress is lost with a glued line |

Three ids are the smallest number with which a cap of two drops a row; with two
ids and a cap of one every other case happens. Crashes inside a compaction are
in `HistoryFaults.cfg` only: the code truncates the file first, so rows can be
lost then, which the design accepts and `RestartKeeps` does not claim. What may
happen then is proved for any such failures (below).

### Proofs

`HistoryProofs` proves, for any finite set of ids and any limits:

| theorem | states | for which failing writes |
|---|---|---|
| `TypeCorrect` | the types (`TypeOK`) | any |
| `Deletes` | `DeletedStaysDeleted` | any |
| `Bounded` | `LogBounded` | any |
| `Restarts` | `RestartKeeps`: a restart finds what memory shows, but for two glued rows | appends cut by the death of the process |
| `Implements` | `StoreSpec`: the log implements `HistoryStore` | appends cut by the death of the process |

The last two assume `OnlyAppends`, that is `Faults \subseteq {"append"}`; with a
cut rewrite or a disk that fails they are false, for the reason above.

The lists are handled as sets of rows with an order (`Before`): `Pick` keeps some
positions and their order (`PickSelects`), `MergeHistory` the latest row of each
id (`MergeSelects`), `CapHistory` the rows with less than `limit` finished rows
after them (`CapSelects`), and the fold of a file with one more line is the old
fold with that row moved to the end (`MergeAdds`). `Pick` is a recursive function
and its lemma an induction over `0..Len(list)` (`ChainExists`, `UpTo`).

- `LogInv`, the invariant behind the first three: the types, no id twice in
  memory, a torn file is not empty, the deletions, the bound,
  and `Counted`: the file of a running process is at most one line per id and a
  torn line longer than `lines` says. That is the case of a rewrite that failed
  and left more than it counted, without which the bound would not follow from
  `lines < 2 * limit`.
- `KeepInv`, behind the others, adds: `Tells`, each row of the folded file is the
  one recorded last, and work in progress is there, `hurt` ids aside;
  `Remembers`, the same of memory, without exception; `Synced`, while nothing is
  hurt memory is `InStep` with the file. Memory may have fewer rows, but only
  finished ones that come before all finished rows it has. It is this order that
  makes a cap after a restart keep what memory shows (`CapKeeps`); a plain
  inclusion is not inductive, as one more row pushes out a different one on each
  side. `Whole` bounds the loss: a file that was loaded with a torn line was not
  rewritten, so it has one line per id, and the line glued to it takes no other
  row along (`MergeLoses`, `GlueEffect`); the next load rewrites it.

Both were checked by TLC on the instances of the runs before they were proved.

`keep_history` drops forgotten rows like all others, so a restart can lose the
tombstone of a title that is still listed (`ForgottenRowsStay`, below).

## FolderTracker

A work item is the path of one archive; all paths lie in one directory. Of each
path the loop keeps four things, which the module handles as one `View`: the
tracked folder (`folders`), the live item (`map`), the record in the state file
(`recovery`) and the history row (`records`). Beside the loop stand the disk, the
events of it that are not yet read, xtractr's `jobs`, `running` and `updates`,
and the delete requests.

| action | code |
|---|---|
| `ProcessEvent` | `processEvent`: `Folders.ProcessEvent`, `syncFolderQueue`, the recovery record, `dropMissingFolderDescendants`; the disk is read when the event is, not when it was sent |
| `Tick` | `checkExtractDone` and `checkFolderStats`: extract, retry, give up, delete after |
| `FolderXtractrCallback` | the start or the end of a job, found by path only |
| `StartJob`, `FinishJob` | xtractr's workers (external) |
| `DeleteRequest` | the delete worker |
| `RetryFolderLocked`, `ForgetQueueID`, `DropHistory` | the user |
| `Write`, `Remove`, `Touch` | the directory and its watcher (external) |
| `Expire` | a history row passes 72 hours |
| `Crash` | the process dies, and the next one restores rows, then the state file, then scans |

Abstractions: delays have no clock, each tick is told for which paths the delay
has passed; what a scan finds in an archive (incomplete, nothing, another
volume's set, an archive) is a choice at that tick; which remnants block an
extraction is a result of the job. Delete requests are archives, output files
are left out, except that `partial` notes output an interrupted extraction left.
`extracted` and `partial` are history variables: no action reads them. A job
that ends well found its archive until the end. A handler is
one step, its history row and its save of the state file included: a crash
between those two writes is left out.

| run | bounds | what it shows |
|---|---|---|
| `folder_restart` | 1 path, 1 retry, 2 workers, 2 jobs, history and state file, crashes anywhere | answers of an older job; the state file is complete, extracted work resumes, deletes are justified |
| `folder_live` | 1 path, no history, remnants off | liveness |

One path is enough for the runs because paths meet in events of the directory
and in the workers only; all the safety properties are proved for any set of
paths. Two jobs of one path are the fewest with which an answer reaches a newer
folder. `MaxJobs` and `UpdateBuf` are bounds of the model, in the guards.

`folder_live` assumes that the select of `Run()` serves every event, callback
and tick, that workers go on, and that a waiting archive is complete at some
tick after its delay (the code waits for ever otherwise). `StaysQuiet` restricts
the claim to behaviours in which the directory, the user and the process
eventually rest; without it an archive that is written to for ever waits for
ever, as it should. History is off in that run because a row that says failed
and is restored again and again is a matter of crashes, not of fairness. Failed
items are left out of `FolderWorkEnds`: one whose archive is removed before the
tick that retries it is untracked by the event and stays in the live queue.

### Proofs

`FolderProofs` proves, for any paths, settings and bounds, one inductive
invariant, `FolderInv`, and from it `TypeCorrect`, `Agreement`,
`RecoveryComplete`, `DeletesOnlyExtracted` and `ExtractedResume`. Its parts:

- `Sound`, of one path: tracker and item agree; a live row of an extracted
  folder says extracted (`RowTells`); there are no rows without a history; and
  whatever says extracted (tracker, state file or row) is right (`Proven`).
  `ExtractedResume` needs `RowTells` because a restart goes by the row first;
  `DeletesOnlyExtracted` needs `Proven` of the row and the state file because a
  restart makes an extracted folder of either.
- `Covers`: the state file covers the folder unless an event is unread.
- `OkTold`: a callback that tells of an extraction is right.

The argument goes path by path: lemmas state what each part of a handler
returns, then that each handler keeps a path sound and covered, and `LoopKept`
lifts them to a step of all paths. `NoFolderIsLost` adds `AnsweredStart`, as in
the Starr queue. Assumed is `FolderAssumption` only.

### Seen while modelling

A restart that finds a history row does not clean up the partial output the
state file tells of (`CleansPartial`); a restart takes a waiting archive for
extracted or failed if an older row of its path says so, so that it is deleted
or given up without being extracted (`Requeues`); an event for an unreadable
path drops the recovery record of running work (`RunningKeepsRecord`). These
three have configurations of their own, see below.

INTERNALS.md:346 says that
folder rows are skipped when the queue is restored, and they are restored. A
failed item whose archive is removed stays in the live queue; an archive that
replaced an extracted one before `delete_after` is deleted without being
extracted, which `DeletesExtracted` allows for.

## FolderWatch

How an archive below a watched folder comes to be tracked. On one side is the
disk (`there`, `logs`) with the kernel's `watches` and its queue (`kernel`); on
the other the goroutine that filters events into `f.Events` (`channel`) and the
main loop, with the table `watchDirs` and the tracker; `jobs` is what xtractr is
extracting. `main` is the walk the loop is in. A kernel watch belongs to a folder as it is now and goes with it;
the table goes by the path: the difference is what the properties are about.

| action | code (`pkg/folders/watch.go` unless given) |
|---|---|
| `HandleFileEvent` | the goroutine: `handleFileEvent`, which ends excluded paths and waits for room in the channel |
| `ProcessEvent` | `ProcessEvent` with its four answers: `Unreadable`, `SeenArchive`, `SeenOutput`, `SeenDir`; the disk is looked at now |
| `AddWatchDir`, `ReadDir`, `FindArchive` | `scanWatchDir`: one folder is watched, then read, with the disk changing in between; its archives and folders come next in any order (the order of their names), all that is in a folder before what comes after it |
| `EndScan` | the end of `ProcessEvent` after a walk: an empty folder is tracked if `skip_empty` asks for it |
| `CheckWaitingFolder` | `checkWaitingFolder` (`folder.go`): queue it, or drop what is gone |
| `Leave` | `checkFolderStats` (`folder.go`): a queued item is through, given up or deleted |
| `Extract`, `MoveBack` | what xtractr puts on the disk: its folder renamed with the log in it, or with `move_back` one file after the other, the log among them (external) |
| `MoveIn`, `MoveOut`, `Write`, `Remove` | the file system and inotify (external) |
| `Crash`, `Start` | `PollFolders` and the restored tracker, then a scan of the root |

`fresh`, `lost` and `unheard` are history variables no action reads: archives
whose last write nobody noticed, folders that went blind with archives a walk
passed over, and paths whose going no watch told of. They make the exceptions of
the properties exact: a folder goes blind if it went and was back before its
event was handled (or no watch told of it), if it waited itself and its watch
ended when it was dropped, or if a walk ended early before it got there. The
last also passes over archives in a folder that is watched: `WalkDir` takes
files and folders in the order of their names, so an archive that sorts after a
folder that is gone is not come by, and stays unnoticed until it is written to
again or the process starts again. `NoArchiveMissed` names that archive itself
as its exception, since its folder is not blind.

Where output lands: `folder.go:171-177` gives xtractr `TempFolder` (the opposite
of `move_back`), `ExtractTo` (`extract_path`) and whether there is a log. For an
archive the folder is the one of its name beside it, with `move_back` too
(`remnants.go:56-58`, and `recovery_test.go:280-295`: `movie.zip` with
`MoveBack` gives `movie/episode.mkv`), or below `extract_path`
(`recovery.go:394-405`), which may be inside the watched tree (`OutputOf`,
`Elsewhere`). For a tracked folder without `move_back` it is one that ends in
the suffix the watcher ignores; with it, the folders of the archives found in it
(`remnants.go:71-91`). A rename is one step, with the log in the folder. With
`move_back` every file and the log are steps of their own, and an archive that
came out may be seen before the log is there: it is then work like any other,
and `OutputIsNoWork` claims nothing about `move_back`. A rename onto a folder
that exists is one step too, with an event for one of what comes; the folder
`extract_path` is taken to exist.

Abstractions: one fsnotify root stands for all; no poller, no nested roots, no
secondary volumes and no wait suffixes. A queue of the kernel that overflows is
only logged by the code and is not modelled: `MaxQueue` bounds the world. Times
are left out, so an item may be looked at any moment after it was saved.

Bounds: five folders and four archives (one beside its output folder, one two
levels deep, two that come out of an extraction), one of the folders excluded;
one event in the channel, two in the kernel, four changes and two starts, and
four settings: `skip_empty` and the log on, both off, `move_back` with the log,
`extract_path` (a folder of the tree) with the log. A channel of one is the
smallest with a backlog on both sides. Four changes suffice to move a folder in
and away twice, or to make, fill and empty one and make it again. The same
properties were also run by simulation on a tree of seven folders and nine
archives with all sixteen settings, up to fourteen changes and four starts, over
some 20 million states. `CHECK_DEADLOCK FALSE`: once the changes are used up the
system may rest.

`watch_blind` finds that the startup walk ends at the first folder that cannot
be read (`watch.go:490` returns the error it is given): a folder that is removed
while the walk is under way leaves those after it unread and unwatched, and at
startup no later event makes up for it.

Also seen: a file put into an output folder while its archive is beside it is
not looked at again before the next start; containers tracked for `skip_empty`
stay tracked beside their archives; with `disable_log`, a nested archive of an
output becomes work of its own once its archive is deleted, and at once below
`extract_path` (`OutputIsNoWork` is about runs with the log); with `move_back` a
tracked folder's log lands in its own folders, which count as output from then
on: archives put there later are not looked at.

### Proofs

`FolderWatchProofs` proves for every finite tree, buffer and bound, from
`WatchAssumption` (`Above` is the strict order of a finite tree; an output
folder lies beside its archive or is any folder below the root; what comes out
of an extraction lies in a folder below the root):

- `TypeCorrect`;
- `OutputStaysOut`, by `LogsStay`: with the log on and `move_back` off, an
  archive that came out of an extraction has a log beside it. `OutputIsNoWork`
  alone is not inductive: a walk that meets such an archive needs to know that
  the log is there;
- `GhostsLeave` and `TableForgets`, by `GhostInv`. Its heart is `Heard`: while
  the process runs, for whatever is gone and still waits or still is in the
  table, an event of it or of a folder around it is on its way. It needs
  `Allowed` (such a path is not excluded, so its event is not filtered) and
  `Closed` (what is on the disk is in folders that are: a path that is back has
  its folders back, and a restored item lies in folders that are there).

- `ArchivesNoticed` and `TableIsTrue` (`NoArchiveMissed` and `TableTrue`), by
  `SeenInv`, which adds two parts to `GhostInv`. `Noticed`: whatever is there,
  could be noticed and was not (a folder that is not in the table, an archive
  that is still `fresh`) has an event of it or of a folder around it on its way,
  or the walk under way still comes by. `Wired`: a folder of the table that is
  there is watched by the kernel, or went blind; this is what carries `Noticed`
  over a change that no watch tells of, since then the folder around it is not
  in the table either and is itself still to be looked at. `SeenGrown` is that
  argument, once for all changes that add something. The walk needs the tree:
  on the way from a folder down to a path there is an entry of the folder
  (`StepDown`), so what a listing finds covers all that is below; what an early
  end leaves out is exactly what `lost` takes up.

`TableForgets` states the half of `TableTrue` that needs no exception for output
or for what is below a blind folder: the table keeps nothing that is gone. That
the root itself is in the table even if it is excluded is a case the tree of
the run does not have; the proof brought it up, and `TableTrue` names it.

## HookDelivery

The main loop owns the items (`map`), their rows (`records`), the status changes
whose hooks are not queued (`pendingHooks`, `sending`). The worker owns `queue`,
`job` and, under a mutex, its cache of message ids (`hookMsgs`); it reports over
two lists with a wake token each. `chat` is what was ever posted to Discord or
Telegram. An item's number stands for its pointer, by which the code tells an
item from another one of its name.

| action | code |
|---|---|
| `NewItem`, `UpdateQueueStatus`, `RetryFailed`, `DeleteExtract` | the main loop's changes of an item (`updateQueueStatus`, `deleteExtract`), reduced to what fires a hook |
| `RunAllHooks`, `QueueHook` | `runAllHooks`: events and exclusions, the cache seeded, the delivery counted and queued, waiting while the queue is full |
| `Take` ... `Finish` | the worker: `lookupHookMessage`, edit or post, `storeHookMessage`, `reportHookFail`, and `after()`; each access to shared state is a step |
| `DrainHookFails`, `DrainHookMessages` | the two wake cases of `Run()` |
| `AskRestart`, `MaybeRestart`, `Crash` | the idle restart, which drains first, and a crash; the next process has the rows |
| `Vanish` | somebody deletes a message (external) |

An edit or a post may succeed and lose its answer. `Hooks.cfg` has two items of
one name, a hook that edits and a command that wants failures only, three status
changes, two messages and a queue of two, which the third delivery fills.
`EditsOwnHere` and `PostsOnce` are about one life of the process and about
messages whose answer arrived: `EditsOwnMessage` shows why the first, and an
answer that is lost cannot be told from a post that failed.

Left out: payloads, counters, PUT of the hook list during a flush, the skip of
imported folders. Seen while modelling: a failure is counted by name, so it can
be counted on a newer item (`webhook.go:224`); a message id saved on a waiting
Starr item is not written to its row; a delivery still queued when its item
leaves posts a new message; docs/notifications.md:36-38 says that the ids are in
memory only, and rows keep them.

### Proofs

`HookProofs` proves for any titles, hooks, events and bounds, from
`HookAssumption` and `NoneAssumption` (`None` is none of the records):

- `TypeCorrect`, `CountExact` (`InFlightExact`) and `WakesKept` (`NoLostWake`),
  from `Base`, which adds that only a hook that edits looks up or saves a
  message. `DrainHookFails` and `DrainHookMessages` go over a list: they are
  folds, and their types come from `FoldRuns` at the head of the module;
- `OwnMessages` (`EditsOwnHere`) and `OnePost` (`PostsOnce`), from `HookInv`. It
  says that there is a table `f` of the title of every extraction there ever
  was, that each id in an item, a row, a cache, a list or the worker's hands
  is of a message for that title and hook, and, if this process posted it, for
  that extraction (`Kinship`); and that the id of a message that arrived is
  where the next delivery looks it up: in the cache if that is the
  extraction's, in the item otherwise, or on its way there with the worker
  (`Found`). Rows are left out of the second half of `Kinship`: a late id gets
  into the row of its name.

## ConfigCommit

Three versions of one document: `disk`, `mem` (`u.fileConfig`) and `live`
(`u.Config`: the environment on top, clamped, secrets read, the password
hashed, with `perms` the table of rights by key).

| action | code |
|---|---|
| `StartConfig` | `unmarshalConfig`, `handleStartupPassword`, `validateAuth`, `validateApps`: hash or make up a password, write it back if it is the file's, exit on what does not validate |
| `StartWebServer` | `setupAdminAPIKey` (adopt a key of the file that the environment hides, or make one up and write it) |
| `ResetUIPassword` | a process of its own, started with `--reset` |
| `SendGeneral`, `SendMap`, `SendWebserver`, `GiveUp` | `configPutHandler`: the body of a form, and a caller that does not wait |
| `TakeTask`, `CheckWebserver` | the main loop validates: one step for a section under the variables, two for the web server, which takes its copies under two locks |
| `CommitConfig`, `CommitFails` | `commitConfig`: stage, write, publish |
| `TraySet` ... `TrayWrite` | the tray's dialog, in its own goroutine: the live password, then the file's, then the write |
| `MaybeRestart`, `Crash` | the restart a PUT asked for, which may fail and then needs the user; a crash at any step |

`Authenticate` is `authenticate` with API keys, bearer, proxy and session;
`KeyPerms`, `RolePerms` are its tables. One Starr list and one folder list stand
for the maps of each sort: a Starr instance that is invalid is skipped by a
start, an invalid folder makes it exit. A general section has one field that
applies in place and one that needs a restart. `told`, `raced` and `manual` are
history variables: what the user was told is saved, whether another actor wrote
the section meanwhile, whether the log asked for a manual restart.

`Config.cfg` starts from four environments over a fresh and a used file, with
and without a path to a file. Two PUTs are the fewest that overlap (one waits
while one is validated), two starts the fewest with a restart, one failed write,
one tray change and one `--reset` are each enough to meet any step of the
others. `CHECK_DEADLOCK FALSE`: a process may exit.

Left out: the hook lists, the URL base, TLS, upstreams, a listener that is
disabled; the cookie and the login form; what happens to the queue when a list
is replaced is in `StarrQueue`. Seen while modelling: a PUT of the web server
does not put the environment on top, so a key of the environment is gone until
the next start (INTERNALS.md:169 says that env-only keys exist at runtime until
restart); a tray change and
such a PUT that overlap lose the tray's password.

Names, secrets and addresses are members of `Texts`. `Fresh` lists the secrets
a start makes up and `KeyNames` the names it tries for an admin key; a start
that finds all of them taken does not happen (`FreeNames`, the code counts on).
`InputAssumption` is about the world: nobody types or puts into the file a
secret that a variable or another file holds, nor one that is not made up yet,
and the keys of a first file have names of their own. `SecretsStayOut` and
`FormKeepsKeys` would mean nothing otherwise.

### Proofs

`ConfigProofs` proves all eight properties of the run, for any texts, keys,
roles, environments, bodies and bounds, from `ConfigAssumption` and
`InputAssumption`: `TypeCorrect`, `FileRuns`, `StaysOut`, `RightsHold`,
`AdminEnters`, `Told`, `Owed` and `FormKeeps`. They follow from one invariant,
`ConfigInv` (`Invariant`), none of whose parts is inductive alone:

- `Values`: what each variable, request and half-done job is made of. The file,
  `mem` and whatever will be written hold own secrets only, which is
  `SecretsStayOut`;
- `Quiet`: what is not there while the process does not run;
- `Accounts`: the live accounts are valid and the table of rights is the one of
  the live keys; a checked section will keep it so;
- `Sync`: file and `mem` agree, `live` is what a start makes of them, and a
  section the main loop has checked will make it so again (`CommitOK`), whatever
  the tray writes in between; `RestartOK` says that a change that needs a
  restart was seen by the comparison. It holds because nobody but the main
  loop, which is busy with the job, writes what it compares;
- `TrayHolds` and `ToldInv`: between the steps of the tray's dialog nothing is
  told, and a save of the accounts that overlaps it is noted (`raced`);
- `KeysHold`: names of keys are distinct in every version, each live key is one
  of the document or of the variables by name and secret, and a checked form
  has kept the secrets it left out. `FormKeeps` and `AdminEnters` need it, as
  a form finds the secret of a key by its name.

The invariant was checked by TLC on the instance of `config` before it was
proved.

## LiveHub

Producers change `table` (the live items), `count` and `records` and leave
frames for the hub, but for the rows that `keep_history` takes; an item that left
leaves its last status in `gone`, as xtractr may still run its job. Progress and
queue tables are coalesced until the next tick
(`pending`, `pendingQ`), history goes through a bounded channel (`events`). The
hub sends to the `clients` it knows; each has a bounded buffer (`send`) and a
writer. `page` is what the browser shows.

| action | code |
|---|---|
| `NotifyQueue`, `NotifyProgress`, `NotifyHistory`, `Count` | `notifyQueueLocked`; `handleProgress`, for a job of an item that is gone too; `upsertHistoryLocked` with the rows `capHistoryLocked` takes, `deleteHistoryID`, `clearHistory` |
| `LoadHistory` | `loadHistory` when `keep_history` is turned on while the process runs |
| `HubRegister`, `HubUnregister`, `HubEvent` | the cases of the hub's loop |
| `FlushProgress`, `FlushQueue`, `FlushStats` | a tick, in its three steps |
| `Connect`, `Disconnect`, `HandleSub`, `Unsub`, `SendSnapshot` | `liveWSHandler`, `liveWSRead`, `handleSub`, `sendSnapshot`: what is read and what is sent are steps of their own |
| `Write` | `liveWSWrite` and the page's `handle`, `applyProgress`, `applyHistory` |

`missed` notes the topics of which a client was not sent the latest (a full
buffer or channel, a snapshot overtaken); `TableShown` and `HistoryShown` claim
the rest. `TableShown` leaves out `astray`, the rows of progress that was sent
after the last table in another status than their item's: the status changed
between the halves of the tick, or the item is gone and the page appends a row
for it (`progress.go:55-64`, `socket.svelte.ts:184-190`); the next table takes
them back. `HistoryShown` leaves out `untold`, the rows that changed without a
frame, until a frame tells of them or the history is cleared: those `keep_history`
takes (`historyfile.go:422-428` announces the saved row only) and those
`LoadHistory` brings or takes. `TableShown` is about which items there are and in
which status; the detail of a row comes with the next progress frame. One item,
two rows (recording one pushes out the other), one client, a buffer of two and a
channel of one are the fewest with which frames coalesce, overtake each other and
are dropped; clients do not meet. The two rows are symmetric.

Left out: the REST snapshot, permissions of topics, the log channel and the
error ring. Seen while modelling: a page that was left behind stays so until the
next table is sent, and polls that change nothing send none.

### Proofs

`LiveProofs` proves, for any clients, rows, capacities and bounds and any finite
set of items, the types (`TypeCorrect`), `TableShown` (`TableIsShown`) and
`HistoryShown` (`HistoryIsShown`). What is assumed of the constants is that the
bounds are numbers and that `None` is no row, table, frame or subscription.

Both follow from one invariant, `LiveInv`, about what is still on its way. A
frame *marks* a row of the history, or the status of an item, with a value, or
has no say (`HistoryMark`, `QueueMark`). A list of frames *lands* a shown value
`d` on `v` (`Lands`) when the last frame with a say marks it `v`, or none has a
say and `d` is `v`. One more frame at the end and one less at the front
(`MoreFrames`, `LessFrames`) are all that happens to such a list. Then:

- `HistoryLands`: for a client that follows the history, what waits in its buffer
  lands the page on some value, and what waits for the hub lands that on the
  record, unless the row is untold (`Told`). While its snapshot is read but not sent, the hub's frames land the
  snapshot. That is where the order of the changes goes in: a frame that was
  notified before the snapshot was read reaches the page after it and does no
  harm, because those behind it land on the record as well (`EventsTell`, which a
  dropped frame breaks until the channel is empty: `gap`).
- `QueueLands`: once no table waits for the tick, what waits for a client lands
  each item that is not astray on its status; `TableWaits` says that a table that
  waits is the latest.
- `Asked`: a client without topics has missed them, so a new subscription starts
  behind and catches up with its snapshot only.

The parts were checked by TLC on `Live.cfg` before they were proved. That the
frames of `FlushProgress` do no harm in any order is an induction over the
recursive function that puts them into a buffer (`AllEnqueued`).

## MainLoop

One goroutine runs a `select` in `Run()` (`start.go:505`); everybody else waits
for it, or it for them. The other modules take a case of that `select` as one
step. `MainLoop` takes it apart at every place where it waits: `at` says which
case the loop is in, and `job`, `task` and `left` what it works on.

| in the model | in the code |
|---|---|
| `PollTick`, `EnqueuePoll`, `CheckQueues` | `retrieveAppQueues`: it counts the polls, hands each to `workChan`, which has room for one, waits for all, and reads the answers under `History.mu` |
| `TakePoll`, `Publish`, `threads`, `Grown` | the workers of `ensureWorkThreads`, one for each instance there has been at once; an answer is published under `History.mu` |
| `ListJobs`, `SkipJob`, `QueueJob`, `SendJob` | `extractCompletedDownloads`: the list and each item's new status under the lock, `Extract` without it |
| `Start`, `SayStarted`, `Report`, `Finish`, `SayDone` | a worker of xtractr (external): its callbacks go to `u.updates`, its progress to `progChan`, which has no buffer |
| `TakeUpdate`, `TakeProgress`, `HandleUpdate` | the cases that receive them, and what they do under the lock |
| `CleanTick`, `Clean`, `QueueDelete`, `Cleaned` | `checkExtractDone`, which holds `History.mu` while it sends to `delChan` |
| `TakeDelete`, `DeleteRequest` | `watchDeleteChannel` |
| `NoRestart`, `Exec`, `StartRun` | `maybeRestart` with `idle()`, and the process that takes over, up to its first poll |
| `Send`, `Hear`, `GiveUp`, `TakeTask`, `Answer` | `onMainLoop` in a handler, and the case of its task |
| `Act`, `Commit`, `CommitFails`, `ApplyList`, `ApplySection`, `ApplyGeneral`, `Restamp` | what a task is: a retry, a forget or a read; a PUT under `configMu`, and for general settings the part after it |
| `ReadLock`, `ReadConfig`, `ReadDone` | `stats()`, which takes `configMu` under `History.mu`; others take `configMu` alone |

Of an item only its status is kept (`IMPORTED` is `EXTRACTED`: `idle` waits for
both), and of a case only what it may make of each item: `StarrQueue` has the
conditions. One callback channel stands for `u.updates` and
`u.folders.Updates`; what the loop waits for in a callback, its two turns at the
lock, is one turn. The read locks of both mutexes are taken as exclusive ones:
nobody who waits for one here gets it earlier in the code. The loop's own short
reads under `configMu` and the hook worker, which is handed its work without
waiting (`HookDelivery`), are left out.

### Runs

`Loop.cfg` has two instances, so that a PUT grows the pool and two polls run at
once, one item that can be queued again while its older job is in xtractr, and
room for one everywhere, so that every channel is full at some point. A longer
queue of anything changes how long the loop waits, not for whom.

- `LoopMoves`: the loop is never in a ring of waits. Whatever it waits for – polls,
  a mutex, room for a delete – somebody it waits for can make a step. The hazard
  is the order of the mutexes: `configput.go:319` takes `History.mu` after
  `configMu` since `/api/stats` nests them the other way round. The mutant
  restamps under `configMu`.
- `ListHolds`: the list of instances does not change while a poll runs, as
  `apps.go:160` says.
- `RestartKeepsDeletes`: when the process is replaced, no delete is queued or
  under way. The mutant counts a delete when the worker takes it, the gap
  that `start.go:298` names.

Beside the run, under `FairSpec`:

- `TasksRun` (`LoopTasks.cfg`, 34 712 states, 14 s) and `EnginesHeard`
  (`LoopHeard.cfg`, 22 346 states, 62 s): a task is run, and what a worker of
  xtractr has to say is heard. Both except the time that the loop waits for
  room in xtractr's queue (`WaitsForRoom`): with a full queue, and all of
  xtractr's workers waiting to be heard, that wait does not end. TLC shows this
  ring as a deadlock when `Loop.cfg` has no reader. How long the queue is
  xtractr decides; one that holds all the items of `History.Map` never fills up.

These two are smaller, one instance and one worker; `LoopTasks.cfg` has no
xtractr worker, so that its queue fills for good and what is left competes for
the loop, and `LoopHeard.cfg` has no HTTP task.

### Proofs

`MainLoopProofs` proves `NeverStuck` (`LoopMoves`), `ListStays` (`ListHolds`),
`RestartsKeepDeletes` (`RestartKeepsDeletes`), the types (`TypeCorrect`), and
`PollsFindWorkers`: there is a free worker for each poll in the channel, so that
no poll waits for the answer of another instance, as `apps.go:138` wants. They
hold for any instances, workers, items, handlers, readers and capacities; what
is assumed (`LoopAssumption`) is that capacities are positive, that instances
and workers are finitely many, and that there is a name for a worker for each
instance. All follow from `LoopInv`, which TLC checked on the constants of
`Loop.cfg` before it was proved:

- `LocksHeld`: the loop holds `History.mu` exactly while it queues deletes and
  `configMu` exactly in a commit. So whenever it waits for a mutex a reader has
  it; a reader that has `History.mu` and waits for `configMu` waits for another
  reader, as the loop never holds `configMu` while it waits. That is where the
  order of the mutexes goes in.
- `PollsCounted` and `PoolCovers`: the wait group counts the polls still to
  enqueue, those in the channel and those that run, which are at most one for
  each instance, and there is a worker for each instance. While the group is
  not empty there is then somebody to take a poll, or to answer one. Outside of
  the case nothing polls, which is all that `ListStays` needs.
- `DeletesCounted`: `inFlight` is the number of deletes in the channel and under
  way. A case may go on only with the count at zero, so the process that is
  replaced has none.
- `AtHand`: what a case works on is there; needed for the types only.

Not proved: `TasksRun` and `EnginesHeard`, and that the loop's wait for room in
xtractr's queue ends, which is false.

## Disagreements

Of the code with what a document, a comment or a message of it says. The first
two are runs; each of the others is found by the configuration beside it.

| property | configuration | the code | what it should be, and where that is said |
|---|---|---|---|
| `IdleInterruptsNothing` | `StarrIdle.cfg`, run `idle_interrupts` | `restart.go:57`: `idle()` does not look at xtractr, so a restart can kill an extraction whose item already left the queue | `idle` reports whether a restart would interrupt an extraction, `restart.go:54` |
| `EverythingSeen` | `WatchBlind.cfg`, run `watch_blind` | `watch.go:490`: a folder that is gone ends the walk of all others | a copied tree cannot outrun the watcher, `watch.go:390-392` |
| `WorkResumes` | `HistoryGlued.cfg` | `historyfile.go:224-236,448`: a line that lacks only its newline is taken for whole, the next append is glued to it, and both rows are gone at the next start | rows of work in progress stay until it is finished, so that a restart can resume it, INTERNALS.md:344 |
| `ForgottenRowsStay` | `HistoryForgotten.cfg` | `historyfile.go:269`: `keep_history` drops forgotten rows too | they outlive restarts, INTERNALS.md:346 |
| `ExtractedKeepsRow` | `StarrCapped.cfg` | `handlers.go:98`: an import that came back is EXTRACTED under a row that still says IMPORTED; `historyfile.go:292` drops it | a small `keep_history` cannot drop EXTRACTED work, `historyfile.go:266-268` |
| `CleansPartial` | `FolderPartial.cfg` | `recovery.go:277`: an archive restored from its row is skipped, its partial output stays | it is cleaned up, docs/configuration.md:101-103 |
| `Requeues` | `FolderRequeue.cfg` | `recovery.go:277`: an older row of the path wins over the state file | it is queued again, docs/configuration.md:103 |
| `RunningKeepsRecord` | `FolderRecord.cfg` | `folder.go:532`: an unreadable path drops the record in any status | only waiting work is dropped, `folder.go:567-568` |
| `EditsOwnMessage` | `HooksReuse.cfg` | `webhook.go:494`: a late id goes to the row of the name, and a restart takes it over | a reused name cannot edit an older message, `webhook.go:300` |
| `LatestWins` | `LiveLate.cfg` | `livehub.go:151`: progress recorded between the two halves of a tick is sent after the newer table, and so is progress of an item that is gone (`progress.go:55-64`) | the latest wins, `livehub.go:15` |
| `LogReplayed` | `LiveLogs.cfg` | `livews.go:163`: more lines than the buffer holds are replayed at once; the newest are dropped | a new subscriber is sent the last lines, `livews.go:163` |
| `AcceptedStarts` | `ConfigStart.cfg` | `configput.go:839`: a PUT of the folders that omits one the environment half names is accepted; the next start exits | the body is checked as a start would, `configput.go:652` |
| `SavedStays` | `ConfigReset.cfg` | `password.go:417`: the file `--reset` wrote is overwritten by the daemon's next save | the new password was written, `password.go:430` |

Hard to test and covered by no property: the counters of a page that are sent
alone (`livehub.go:204`); items that count as imported once the last instance of
an app is removed (`starrpoll.go:246`, intended); a delete request that waits in
its channel while the title is extracted again (`start.go:300`); `keep_history`
turned off and on again (`configput.go:320`); a compaction that truncates
before it writes (`historyfile.go:499`); a row and the state file written one
after the other (`folder.go:430`); forgetting that untracks a newer archive
(`queue_actions.go:206`).

## Fairness, and what is only model-checked

Liveness is claimed of the Starr queue (`EverythingSettles`, `ImportedLeaves`,
`TombstonesEnd`), the folder tracker (`FolderWorkEnds`) and the main loop
(`TasksRun`, `EnginesHeard`), under the fairness stated there; it is
model-checked, not proved, as liveness and ENABLED are out of the proof system's
reach. In `MainLoop` fairness is strong where the code stands in a `select` or
waits for a mutex or a channel with others: Go takes a ready case at random, and
neither `sync.RWMutex` nor a channel lets one of those who wait starve. It is
weak where a goroutine only has to go on. A poll and a delete end: HTTP calls
have a timeout, and a worker of xtractr need not end what it extracts. The other
modules claim what holds once nothing is on its way, and no fairness. The safety
properties of the passing runs, invariants and action properties, are all
proved.

## Not modelled

Configuration load and validation (decoding, defaults, ranges: no state over
time; the checks that decide whether a start goes on are in `ConfigCommit`). The
web server and its API (routing and encoding). Metrics, statistics and logs
(nothing in the program reads them back). Lidarr's manual import (HTTP calls
without state here). The tray beyond its password dialog, the update check and
the frontend beyond what a page does with a frame. The choice of the main loop
among cases that are ready at once is left to chance, as in Go.
