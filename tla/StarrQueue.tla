----------------------------- MODULE StarrQueue -----------------------------
(***************************************************************************)
(* The Starr half of the main loop: how a download that a Starr app lists  *)
(* becomes a live queue item (History.Map), is extracted by xtractr, is    *)
(* found imported, has its files cleaned up and is dropped; what the user  *)
(* can do to it; what the history records keep of it; and what a crash or  *)
(* an idle restart makes of it.                                            *)
(*                                                                         *)
(* Every handler of Run() is one step: the loop is one goroutine and only  *)
(* it changes the live queue.  xtractr's workers, the delete worker, the   *)
(* HTTP history handlers, the Starr apps and the clock take their own.     *)
(*                                                                         *)
(* Time is the age of an item, counted from its Updated stamp: 0 while the *)
(* delay its status waits for (start, retry or delete delay) has not       *)
(* passed, 1 once it has, 2 once the 24 hours of staleItemTimeout have.    *)
(***************************************************************************)
EXTENDS Naturals, Sequences, FiniteSets

CONSTANTS
  Titles,         \* download titles, the keys of History.Map
  Servers,        \* Starr instances, numbered in the order they are scanned
  AppOf,          \* the Starr app of an instance
  Cleanup,        \* what an instance's items lose after import
  MaxRetries,     \* maxRetries()
  KeepHistory,    \* keep_history > 0, whatever the number
  RemnantAction,  \* remnant_action
  Parallel,       \* xtractr workers
  MaxJobs,        \* bound: xtractr jobs of one title at a time
  UpdateBuf,      \* bound: callbacks of one title in u.updates
  DelBuf,         \* bound: delete requests of one title in u.delChan
  MaxManual,      \* bound: retries beyond MaxRetries a user asks for
  Crashes,        \* the process may be killed
  IdleRestarts,   \* a config PUT may ask for an idle restart
  Edits,          \* a config PUT may change the instances
  HistoryEdits    \* a user may clear the history or delete its rows

ASSUME StarrAssumption ==
  /\ Servers \subseteq Nat \ {0}
  /\ MaxRetries \in Nat
  /\ Parallel \in Nat \ {0}
  /\ {MaxJobs, UpdateBuf, DelBuf, MaxManual} \subseteq Nat
  /\ {KeepHistory, Crashes, IdleRestarts, Edits, HistoryEdits} \subseteq BOOLEAN
  /\ Cleanup \in [Servers -> {"orig", "extracted", "keep"}]

VARIABLES
  map,        \* History.Map: the live item of a title
  forgotten,  \* the tombstones
  records,    \* the history row of a title, on disk and in memory
  capped,     \* (not in the code) the titles whose row the cap took from this
              \* process, none written since
  servers,    \* the configured instances
  polled,     \* those with a successful poll in this process
  queue,      \* the queue an instance's last successful poll returned
  jobs,       \* xtractr jobs waiting for a worker
  running,    \* xtractr jobs a worker extracts
  updates,    \* callbacks to the main loop not yet received
  delChan     \* delete requests not yet carried out

vars == <<map, forgotten, records, capped, servers, polled, queue,
          jobs, running, updates, delChan>>

-----------------------------------------------------------------------------
Status == {"WAITING", "QUEUED", "EXTRACTING", "EXTRACTFAILED", "EXTRACTED",
           "IMPORTED", "DELETED"}

\* What a poll says of a title: not in the queue, in it, completed in it.
Listing == {"none", "active", "complete"}

Result == {"ok", "error", "limit", "remnant"}

Item == [status : Status \cup {"ABSENT"}, server : Servers \cup {0},
         retries : Nat, noRetry : BOOLEAN, files : BOOLEAN, age : 0..2]

Record == [status : Status \cup {"ABSENT"}, server : Servers \cup {0},
           retries : Nat, noRetry : BOOLEAN, files : BOOLEAN,
           forgotten : BOOLEAN]

Callback == [done : BOOLEAN, result : Result, files : BOOLEAN]

Absent == [status |-> "ABSENT", server |-> 0, retries |-> 0,
           noRetry |-> FALSE, files |-> FALSE, age |-> 0]

NoRecord == [status |-> "ABSENT", server |-> 0, retries |-> 0,
             noRetry |-> FALSE, files |-> FALSE, forgotten |-> FALSE]

NewItem(s) == [status |-> "WAITING", server |-> s, retries |-> 0,
               noRetry |-> FALSE, files |-> FALSE, age |-> 0]

\* A status change that stamps Updated.
Move(i, st) == [status |-> st, server |-> i.server, retries |-> i.retries,
                noRetry |-> i.noRetry, files |-> i.files, age |-> 0]

\* Back to waiting for an extraction, one retry further.
Again(i) == [Move(i, "WAITING") EXCEPT !.retries = @ + 1]

\* Failed for good.
GivenUp(i) == [Move(i, "EXTRACTFAILED") EXCEPT !.noRetry = TRUE]

\* The durable statuses a Starr item can have.
Durable == {"EXTRACTFAILED", "IMPORTED", "DELETED"}

\* The row of a persisted item; recording one clears the forgotten flag.
RecordOf(i) == [status |-> i.status, server |-> i.server,
                retries |-> i.retries, noRetry |-> i.noRetry,
                files |-> i.files, forgotten |-> FALSE]

MaybeRecord(r, i) ==
  IF KeepHistory /\ i.status \in Status \ {"WAITING"} THEN RecordOf(i) ELSE r

\* (mutant: the cap counts every row, not only the completed ones)
CompletedAll(rows) == {t \in Titles : rows[t] # NoRecord}

\* The titles whose rows capHistory may drop: any completed ones, for the other
\* work that shares the history decides which are the oldest.
Completed(rows) == {t \in Titles : rows[t].status \in Durable}

Without(rows, cut) == [t \in Titles |-> IF t \in cut THEN NoRecord ELSE rows[t]]

\* The rows become these, without those the cap of keep_history takes.
CapHistory(rows, cut) ==
  /\ records' = Without(rows, cut)
  /\ capped' = cut \cup {t \in capped : rows[t] = NoRecord}

\* A handler writes its rows one after the other.  The cap takes rows for a
\* completed one that is written, and the last one written stays.
SaveRows(rows) ==
  \E cut \in SUBSET Completed(rows) :
    /\ cut # {} => \E t \in Completed(rows) \ cut : rows[t] # records[t]
    /\ CapHistory(rows, cut)

-----------------------------------------------------------------------------
(* What the last successful polls say.                                     *)

\* The title is in a queue of any configured instance of the app.
HaveQitem(qs, cfg, app, t) ==
  \E s \in cfg : AppOf[s] = app /\ qs[s][t] # "none"

\* (mutant: a queue that was never fetched is empty)
NilQueueIsEmpty(pol, cfg, i) == TRUE

\* "Not in the queue" may mean imported: the item's instance was polled in
\* this process, or is gone from the config.
SnapshotReady(pol, cfg, i) == i.server \in pol \/ i.server \notin cfg

FirstOf(S) == CHOOSE s \in S : \A r \in S : s <= r

\* Instances whose queue holds the title as a completed download.
Completes(qs, t) == {s \in servers : qs[s][t] = "complete"}

\* (mutant: the scan does not ask for tombstones)
ScanForgotten(qs, t) ==
  IF map[t].status = "ABSENT" /\ Completes(qs, t) # {}
  THEN NewItem(FirstOf(Completes(qs, t))) ELSE map[t]

\* One title in the scan of every instance's queue.
CheckStarrQueue(qs, t) ==
  IF map[t].status = "ABSENT" /\ t \notin forgotten /\ Completes(qs, t) # {}
  THEN NewItem(FirstOf(Completes(qs, t)))
  ELSE map[t]

\* One item in checkQueueChanges.
CheckQueueChanges(i, have, ready) ==
  CASE i.status = "WAITING" /\ ~have /\ ready -> Absent
    [] i.status \in {"QUEUED", "EXTRACTING", "EXTRACTFAILED", "EXTRACTED"}
         /\ ~have /\ ready -> Move(i, "IMPORTED")
    [] i.status = "IMPORTED" /\ have -> [i EXCEPT !.status = "EXTRACTED"]
    [] i.status = "DELETED" /\ have -> Move(i, "WAITING")
    [] OTHER -> i

\* (mutant: a queue never polled counts as one without the title)
SweepEarly(pol, qs) == {t \in forgotten : \E s \in servers : qs[s][t] # "none"}

\* (mutant: the test for unpolled instances is the wrong way round)
SweepInverted(pol, qs) == IF servers \subseteq pol THEN forgotten ELSE {}

\* A tombstone stays until every instance was polled and none lists the title.
SweepForgotten(pol, qs) ==
  IF servers \subseteq pol
  THEN {t \in forgotten : \E s \in servers : qs[s][t] # "none"}
  ELSE forgotten

-----------------------------------------------------------------------------
(* The ticks of the main loop.                                             *)

\* The poller tick: every instance is asked for its queue (those in ok answer,
\* a failed poll keeps the old queue), the answers are scanned, tombstones
\* swept, and every item checked against what is left.
PollTick(ok, seen) ==
  LET qs      == [s \in Servers |-> IF s \in ok THEN seen[s] ELSE queue[s]]
      pol     == polled \cup ok
      scanned == [t \in Titles |-> CheckStarrQueue(qs, t)]
      checked == [t \in Titles |->
                    CheckQueueChanges(scanned[t],
                      HaveQitem(qs, servers, AppOf[scanned[t].server], t),
                      SnapshotReady(pol, servers, scanned[t]))]
  IN /\ ok \subseteq servers
     /\ queue' = qs
     /\ polled' = pol
     /\ map' = checked
     /\ forgotten' = SweepForgotten(pol, qs)
     /\ SaveRows([t \in Titles |->
          IF checked[t].status = "IMPORTED" /\ scanned[t].status # "IMPORTED"
          THEN MaybeRecord(records[t], checked[t]) ELSE records[t]])
     /\ UNCHANGED <<servers, jobs, running, updates, delChan>>

\* A waiting item whose start delay is over and whose instance was polled.
Startable(t) ==
  /\ map[t].status = "WAITING"
  /\ map[t].age > 0
  /\ SnapshotReady(polled, servers, map[t])

\* The start delay tick hands the startable titles that have archives on disk,
\* and no sync still under way, to xtractr; the others keep waiting.
ExtractTick(found) ==
  /\ found \subseteq {t \in Titles : Startable(t)}
  /\ \A t \in found : jobs[t] < MaxJobs
  /\ map' = [t \in Titles |->
       IF t \in found THEN Move(map[t], "QUEUED") ELSE map[t]]
  /\ SaveRows([t \in Titles |->
       IF t \in found THEN MaybeRecord(records[t], map'[t]) ELSE records[t]])
  /\ jobs' = [t \in Titles |-> IF t \in found THEN jobs[t] + 1 ELSE jobs[t]]
  /\ UNCHANGED <<forgotten, servers, polled, queue, running, updates, delChan>>

\* Imported, its delete delay over, and a poll shows it left the queue.
Cleanable(i, t) ==
  /\ i.status = "IMPORTED"
  /\ i.age > 0
  /\ SnapshotReady(polled, servers, i)
  /\ ~HaveQitem(queue, servers, AppOf[i.server], t)

\* (mutant: one retry more before giving up)
GivesUpLate(i) ==
  i.status = "EXTRACTFAILED" /\ ~i.noRetry /\ i.retries > MaxRetries

GivesUp(i) ==
  i.status = "EXTRACTFAILED" /\ ~i.noRetry /\ i.retries >= MaxRetries

\* 24 hours at a status that something else should have ended.
Stale(i) == i.status \in {"EXTRACTED", "EXTRACTING", "QUEUED"} /\ i.age = 2

\* (mutant: no_retry is not looked at)
RetriesAny(i) ==
  i.status = "EXTRACTFAILED" /\ i.age > 0 /\ i.retries < MaxRetries

Retries(i) ==
  i.status = "EXTRACTFAILED" /\ ~i.noRetry /\ i.age > 0 /\ i.retries < MaxRetries

\* (mutant: a deleted item is kept)
FinishesNever(i) == FALSE

\* Deleted, and the delete delay passed a second time.
Finishes(i) == i.status = "DELETED" /\ i.age > 0

\* One item in checkExtractDone.
CheckExtractDone(i, t) ==
  CASE Finishes(i) -> Absent
    [] Retries(i) -> Again(i)
    [] GivesUp(i) -> GivenUp(i)
    [] Stale(i) \/ Cleanable(i, t) -> Move(i, "DELETED")
    [] OTHER -> i

\* What is deleted: the download, or the files the last callback reported.
DeletesFiles(i, t) ==
  /\ Cleanable(i, t)
  /\ \/ Cleanup[i.server] = "orig"
     \/ Cleanup[i.server] = "extracted" /\ i.files

\* checkExtractDone over the whole live queue: the items, rows and delete
\* requests it leaves.
DoneItems == [t \in Titles |-> CheckExtractDone(map[t], t)]

DoneRecords == [t \in Titles |->
  IF GivesUp(map[t]) \/ Stale(map[t]) \/ Cleanable(map[t], t)
  THEN MaybeRecord(records[t], DoneItems[t]) ELSE records[t]]

DoneDeletes == [t \in Titles |->
  IF DeletesFiles(map[t], t) THEN delChan[t] + 1 ELSE delChan[t]]

CleanerTick ==
  /\ \A t \in Titles : DoneDeletes[t] <= DelBuf
  /\ map' = DoneItems
  /\ SaveRows(DoneRecords)
  /\ delChan' = DoneDeletes
  /\ UNCHANGED <<forgotten, servers, polled, queue, jobs, running, updates>>

-----------------------------------------------------------------------------
(* xtractr (external): a worker takes a waiting job and announces the      *)
(* start, later the end, on u.updates; then the main loop's handler.       *)

\* The busy workers: the k-th job a worker extracts for a title.
Extracting == {w \in Titles \X (1..Parallel) : w[2] <= running[w[1]]}

StartJob(t) ==
  /\ jobs[t] > 0
  /\ Cardinality(Extracting) < Parallel
  /\ Len(updates[t]) < UpdateBuf
  /\ jobs' = [jobs EXCEPT ![t] = @ - 1]
  /\ running' = [running EXCEPT ![t] = @ + 1]
  /\ updates' = [updates EXCEPT ![t] =
       Append(@, [done |-> FALSE, result |-> "ok", files |-> FALSE])]
  /\ UNCHANGED <<map, forgotten, records, capped, servers, polled, queue, delChan>>

FinishJob(t, result, files) ==
  /\ running[t] > 0
  /\ Len(updates[t]) < UpdateBuf
  /\ running' = [running EXCEPT ![t] = @ - 1]
  /\ updates' = [updates EXCEPT ![t] =
       Append(@, [done |-> TRUE, result |-> result, files |-> files])]
  /\ UNCHANGED <<map, forgotten, records, capped, servers, polled, queue, jobs, delChan>>

\* (mutant: remnants restart an extraction any number of times)
RemnantRestartAlways(i, cleared) == RemnantAction # "off" /\ cleared

\* What handleRemnants makes of files that blocked the extraction: start over
\* once every one of them was cleared, otherwise fail.
RemnantRestart(i, cleared) ==
  RemnantAction # "off" /\ i.retries < MaxRetries /\ cleared

\* The item after a callback; updateQueueStatus stores the response, so the
\* files are those of the latest callback.
Called(i, cb, cleared) ==
  LET resp == [i EXCEPT !.files = cb.files] IN
  CASE ~cb.done -> Move(resp, "EXTRACTING")
    [] cb.done /\ cb.result = "ok" -> Move(resp, "EXTRACTED")
    [] cb.done /\ cb.result = "error" -> Move(resp, "EXTRACTFAILED")
    [] cb.done /\ cb.result = "limit" -> GivenUp(resp)
    [] cb.done /\ cb.result = "remnant" ->
         IF RemnantRestart(i, cleared) THEN Again(resp)
         ELSE IF RemnantAction = "off" THEN GivenUp(resp)
         ELSE Move(resp, "EXTRACTFAILED")

HandleXtractrCallback(t, cleared) ==
  /\ updates[t] # <<>>
  /\ updates' = [updates EXCEPT ![t] = Tail(@)]
  /\ IF map[t].status = "ABSENT"
     THEN UNCHANGED <<map, records, capped>>
     ELSE /\ map' = [map EXCEPT ![t] = Called(@, Head(updates[t]), cleared)]
          /\ SaveRows([records EXCEPT ![t] = MaybeRecord(@, map'[t])])
  /\ UNCHANGED <<forgotten, servers, polled, queue, jobs, running, delChan>>

\* The delete worker carries out one request.
DeleteRequest(t) ==
  /\ delChan[t] > 0
  /\ delChan' = [delChan EXCEPT ![t] = @ - 1]
  /\ UNCHANGED <<map, forgotten, records, capped, servers, polled, queue,
                 jobs, running, updates>>

-----------------------------------------------------------------------------
(* What a user asks for: queue actions and a PUT of an app's instances run *)
(* on the main loop, the history handlers on the HTTP goroutine.           *)

RetryQueueID(t) ==
  /\ map[t].status = "EXTRACTFAILED"
  /\ map[t].retries < MaxRetries + MaxManual
  /\ map' = [map EXCEPT ![t] = [Again(@) EXCEPT !.noRetry = FALSE]]
  /\ UNCHANGED <<forgotten, records, capped, servers, polled, queue,
                 jobs, running, updates, delChan>>

ForgetQueueID(t) ==
  /\ map[t].status \in Durable
  /\ map' = [map EXCEPT ![t] = Absent]
  /\ forgotten' = forgotten \cup {t}
  /\ records' = [records EXCEPT ![t].forgotten = (records[t].status # "ABSENT")]
  /\ UNCHANGED <<capped, servers, polled, queue, jobs, running, updates, delChan>>

\* Clear drops every completed row; delete one of them.
DropHistory(S) ==
  /\ HistoryEdits
  /\ S # {}
  /\ \/ S = {t \in Titles : records[t].status \in Durable}
     \/ \E t \in Titles : S = {t} /\ records[t].status \in Durable
  /\ records' = [t \in Titles |-> IF t \in S THEN NoRecord ELSE records[t]]
  /\ UNCHANGED <<map, forgotten, capped, servers, polled, queue,
                 jobs, running, updates, delChan>>

\* Other work that keeps its rows in the same history (archives of watched
\* folders, titles not modelled) completes, or keep_history is lowered: the
\* cap takes completed rows of titles.
CapTakesRows(cut) ==
  /\ KeepHistory
  /\ cut # {} /\ cut \subseteq Completed(records)
  /\ CapHistory(records, cut)
  /\ UNCHANGED <<map, forgotten, servers, polled, queue,
                 jobs, running, updates, delChan>>

\* The instances a PUT leaves as they are.
Carried(app, same) == {s \in servers : AppOf[s] # app} \cup same

\* PUT of an app's instances: those whose url and api key did not change keep
\* their last poll.
PutStarrList(app, next, same) ==
  /\ Edits
  /\ next \subseteq {s \in Servers : AppOf[s] = app}
  /\ same \subseteq servers \cap next
  /\ servers' = {s \in servers : AppOf[s] # app} \cup next
  /\ polled' = polled \cap Carried(app, same)
  /\ queue' = [s \in Servers |-> IF s \in Carried(app, same) THEN queue[s]
                                  ELSE [t \in Titles |-> "none"]]
  /\ UNCHANGED <<map, forgotten, records, capped, jobs, running, updates, delChan>>

-----------------------------------------------------------------------------
(* The end of the process: nothing but the history rows and the config     *)
(* survives it.                                                            *)

\* (mutant: a row is restored with the status it was written with)
RestoredAsIs(r, age) ==
  IF r.forgotten \/ r.status \in {"ABSENT", "DELETED"} THEN Absent
  ELSE [status |-> r.status, server |-> r.server, retries |-> r.retries,
        noRetry |-> r.noRetry, files |-> r.files, age |-> age]

\* What restoreQueueFromHistory makes of a row; an item that was under way
\* waits or has failed, and a failure the restart caused may be retried now.
Restored(r, age) ==
  LET i == [status |-> r.status, server |-> r.server, retries |-> r.retries,
            noRetry |-> r.noRetry, files |-> r.files, age |-> age] IN
  CASE r.forgotten \/ r.status \in {"ABSENT", "DELETED"} -> Absent
    [] ~r.forgotten /\ r.status = "QUEUED" -> Move(i, "WAITING")
    [] ~r.forgotten /\ r.status = "EXTRACTING" ->
         [Move(i, "EXTRACTFAILED") EXCEPT !.age = IF r.noRetry THEN age ELSE 1]
    [] ~r.forgotten /\ r.status = "EXTRACTED" -> Move(i, "EXTRACTED")
    [] OTHER -> i

\* A new process starts on the rows r, which the load cuts to keep_history
\* again; those in old are past the 72 hours a row is restored for, the others
\* have aged meanwhile.
Restart(r, old, aged) ==
  /\ \E cut \in SUBSET Completed(r) : records' = Without(r, cut)
  /\ capped' = {}
  /\ map' = [t \in Titles |->
       IF t \in old THEN Absent ELSE Restored(records'[t], aged[t])]
  /\ forgotten' = {t \in Titles : records'[t].forgotten}
  /\ polled' = {}
  /\ queue' = [s \in Servers |-> [t \in Titles |-> "none"]]
  /\ jobs' = [t \in Titles |-> 0]
  /\ running' = [t \in Titles |-> 0]
  /\ updates' = [t \in Titles |-> <<>>]
  /\ delChan' = [t \in Titles |-> 0]
  /\ UNCHANGED servers

Crash(old, aged) == Crashes /\ Restart(records, old, aged)

\* idle(), of the live queue m and the delete requests d.
Idle(m, d) ==
  /\ \A t \in Titles : d[t] = 0 /\ updates[t] = <<>>
  /\ \A t \in Titles :
       m[t].status \notin {"QUEUED", "EXTRACTING", "EXTRACTED", "IMPORTED"}

\* The cleaner tick that restarts: a PUT asked for it, and after
\* checkExtractDone the queue is idle.
CleanerRestart(old, aged) ==
  /\ IdleRestarts
  /\ Idle(DoneItems, DoneDeletes)
  /\ Restart(DoneRecords, old, aged)

\* Time passes for one item.
Age(t) ==
  /\ map[t].status # "ABSENT"
  /\ map[t].age < 2
  /\ map' = [map EXCEPT ![t].age = @ + 1]
  /\ UNCHANGED <<forgotten, records, capped, servers, polled, queue,
                 jobs, running, updates, delChan>>

-----------------------------------------------------------------------------
Init ==
  /\ map = [t \in Titles |-> Absent]
  /\ forgotten = {}
  /\ records = [t \in Titles |-> NoRecord]
  /\ capped = {}
  /\ servers = Servers
  /\ polled = {}
  /\ queue = [s \in Servers |-> [t \in Titles |-> "none"]]
  /\ jobs = [t \in Titles |-> 0]
  /\ running = [t \in Titles |-> 0]
  /\ updates = [t \in Titles |-> <<>>]
  /\ delChan = [t \in Titles |-> 0]

\* The steps of the main loop.
LoopNext ==
  \/ \E ok \in SUBSET Servers, seen \in [Servers -> [Titles -> Listing]] :
       PollTick(ok, seen)
  \/ \E found \in SUBSET Titles : ExtractTick(found)
  \/ CleanerTick
  \/ \E t \in Titles, cleared \in BOOLEAN : HandleXtractrCallback(t, cleared)
  \/ \E t \in Titles : RetryQueueID(t) \/ ForgetQueueID(t)
  \/ \E s \in Servers, next, same \in SUBSET Servers :
       PutStarrList(AppOf[s], next, same)

\* The steps of everyone else.
WorldNext ==
  \/ \E t \in Titles : StartJob(t) \/ DeleteRequest(t) \/ Age(t)
  \/ \E t \in Titles, result \in Result, files \in BOOLEAN :
       FinishJob(t, result, files)
  \/ \E S \in SUBSET Titles : DropHistory(S) \/ CapTakesRows(S)

\* The process ends and starts again.
Restarts ==
  \E old \in SUBSET Titles, aged \in [Titles -> 0..2] :
    Crash(old, aged) \/ CleanerRestart(old, aged)

Next == LoopNext \/ WorldNext \/ Restarts

Spec == Init /\ [][Next]_vars

\* The select in Run() serves every ready case, tickers included; xtractr and
\* the delete worker keep working; time passes.  What the code only hopes for:
\* every instance answers a poll again and again (so that what a poll with the
\* last answers would still do is not left undone), and the archives of a
\* waiting item are there by one of its start delay ticks.
Fairness ==
  /\ WF_vars(CleanerTick)
  /\ WF_vars(PollTick(servers, queue))
  /\ \A t \in Titles :
       /\ WF_vars(Age(t))
       /\ WF_vars(\E found \in SUBSET Titles : t \in found /\ ExtractTick(found))
       /\ WF_vars(StartJob(t))
       /\ WF_vars(\E result \in Result, files \in BOOLEAN :
                    FinishJob(t, result, files))
       /\ WF_vars(\E cleared \in BOOLEAN : HandleXtractrCallback(t, cleared))
       /\ WF_vars(DeleteRequest(t))

FairSpec == Spec /\ Fairness

-----------------------------------------------------------------------------
(* Properties.                                                             *)

\* Every variable keeps its type.
TypeOK ==
  /\ map \in [Titles -> Item]
  /\ forgotten \subseteq Titles
  /\ records \in [Titles -> Record]
  /\ capped \subseteq Titles
  /\ servers \subseteq Servers
  /\ polled \subseteq servers
  /\ queue \in [Servers -> [Titles -> Listing]]
  /\ jobs \in [Titles -> Nat]
  /\ running \in [Titles -> Nat]
  /\ delChan \in [Titles -> Nat]
  /\ updates \in [Titles -> Seq(Callback)]

Last(s) == s[Len(s)]

\* An item that is queued or extracting is owed an answer: xtractr still has
\* a job of its title, or the end of one is on its way to the main loop.  An
\* item for which neither holds would sit in the queue for 24 hours and then
\* be taken for deleted.
NoLostExtraction ==
  \A t \in Titles : map[t].status \in {"QUEUED", "EXTRACTING"} =>
    \/ jobs[t] + running[t] > 0
    \/ updates[t] # <<>> /\ Last(updates[t]).done

\* A title the user forgot is not in the live queue again before its tombstone
\* is lifted, whatever polls, callbacks and restarts do meanwhile.
ForgottenStayOut == \A t \in forgotten : map[t].status = "ABSENT"

\* No item is extracted more often than max_retries allows, plus once for each
\* retry a user asked for beyond that: the cleaner tick, the remnants, restarts
\* from a history row and late answers never retry on their own account.
RetryBudget == \A t \in Titles : map[t].retries <= MaxRetries + MaxManual

\* The row of a live item is one a restart turns into the same state or an
\* earlier one of the same extraction, so that a crash loses no import wait, no
\* delete delay and no give-up.  The rows of waiting items are left out: they
\* are not written.  A row may be missing because the cap of keep_history took
\* it, but never that of an item xtractr works on.
Resumes(i, r) ==
  /\ ~r.forgotten
  /\ \/ r.status = i.status
     \/ i.status = "EXTRACTED" /\ r.status = "IMPORTED"
     \/ i.status = "EXTRACTFAILED" /\ r.status = "EXTRACTING"
  /\ r.noRetry = i.noRetry

RowsResume ==
  KeepHistory /\ ~HistoryEdits =>
    \A t \in Titles : map[t].status \notin {"ABSENT", "WAITING"} =>
      \/ Resumes(map[t], records[t])
      \/ /\ records[t] = NoRecord /\ t \in capped
         /\ map[t].status \notin {"QUEUED", "EXTRACTING"}

\* historyfile.go:266 says of the cap that it cannot drop EXTRACTED work a
\* restart would resume.  An item that was imported, left the queue and came
\* back is EXTRACTED again (handlers.go:98) under the row that says IMPORTED,
\* which the cap takes.
ExtractedKeepsRow ==
  KeepHistory /\ ~HistoryEdits =>
    \A t \in Titles : map[t].status = "EXTRACTED" => records[t] # NoRecord

\* An instance that has not answered this process decides nothing: as long as
\* it is configured and silent (polls that fail, a restart before the first
\* one, a PUT that replaced it) none of its items is newly taken for imported,
\* handed to xtractr or has files deleted.  What a row said was imported
\* before stays so.
SilenceDecidesNothing ==
  [][\A t \in Titles : map'[t].server \in servers' \ polled' =>
       /\ map'[t].status = "IMPORTED" =>
            "IMPORTED" \in {map[t].status, records[t].status}
       /\ jobs'[t] <= jobs[t]
       /\ delChan'[t] <= delChan[t]]_vars

\* The tombstone of a title is lifted in a process that has polled every
\* configured instance and found the title in none of them.  Where a history
\* is kept and not cleared a restart loses one only if the cap had taken the
\* title's row.
LiftedOnlyWhenGone ==
  [][\A t \in forgotten \ forgotten' :
       \/ /\ servers' = polled'
          /\ \A s \in servers' : queue'[s][t] = "none"
       \/ /\ polled' = {}
          /\ records'[t] = NoRecord /\ (records[t] # NoRecord \/ t \in capped)]_vars

\* What gave up (no_retry) stays given up.  It starts over by a user's retry,
\* which takes the flag back, or by the answer to another job of the title
\* that was still under way; its app may import it by hand; and it leaves the
\* live queue when the user forgets it, or when a restart finds no row to
\* restore it from (an app that still lists it then is new work).
GaveUpStaysDown ==
  [][\A t \in Titles : map[t].status = "EXTRACTFAILED" /\ map[t].noRetry =>
       \/ map'[t].status = "EXTRACTFAILED" /\ map'[t].noRetry
       \/ map'[t].status = "IMPORTED"
       \/ map'[t].status = "ABSENT" /\ (t \in forgotten' \/ polled' = {})
       \/ ~map'[t].noRetry /\ map'[t].retries > map[t].retries
       \/ \E cleared \in BOOLEAN : HandleXtractrCallback(t, cleared)]_vars

\* Something remains to be done for the item's extraction.
Pending(i) ==
  \/ i.status \in {"WAITING", "QUEUED", "EXTRACTING"}
  \/ i.status = "EXTRACTFAILED" /\ ~i.noRetry

\* restart.go:54 says that idle reports whether a restart would interrupt an
\* extraction.  It looks at the items, not at xtractr: an item that left the
\* queue while its job was waiting or running is imported, then deleted, and
\* no longer keeps the process from restarting under the job.
IdleInterruptsNothing ==
  Idle(map, delChan) => \A t \in Titles : jobs[t] = 0 /\ running[t] = 0

\* From some point on the process is left running.
StaysUp == <>[][~Restarts]_vars

\* Every download that is to be extracted is extracted, given up or gone in
\* the end: no status waits for something that never comes, whatever a crash
\* left behind.
EverythingSettles ==
  StaysUp => \A t \in Titles : Pending(map[t]) ~> ~Pending(map[t])

\* What was imported is cleaned up and leaves the live queue, or is back at
\* work because the app lists it again.
ImportedLeaves ==
  StaysUp => \A t \in Titles :
    map[t].status = "IMPORTED" ~> map[t].status \notin {"IMPORTED", "DELETED"}

\* A tombstone is lifted or its title listed; it does not outlive the title.
TombstonesEnd ==
  StaysUp => \A t \in Titles :
    t \in forgotten ~> t \notin forgotten \/ \E s \in servers : queue[s][t] # "none"
=============================================================================
