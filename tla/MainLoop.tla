------------------------------- MODULE MainLoop -------------------------------
(***************************************************************************)
(* Who waits for whom: the main loop in Run(), the workers that poll the   *)
(* Starr apps for it, xtractr's workers, the worker that deletes files,    *)
(* HTTP handlers that hand over tasks and others that read.                *)
(*                                                                         *)
(* The loop takes one case of its select at a time.  What a case waits for *)
(* inside of it is a step of its own, named by "at": a channel that is     *)
(* full, the wait group of the polls, one of the two mutexes.  Of an item  *)
(* of the queue only its status is kept; StarrQueue has its life.  One     *)
(* callback channel stands for both, and the hook worker, which waits for  *)
(* nobody, is in HookDelivery.                                             *)
(***************************************************************************)
EXTENDS Naturals, Sequences, FiniteSets

CONSTANTS
  Apps,       \* Starr instances there can be
  Threads,    \* goroutines that can come to poll
  Jobs,       \* items of the queue
  Engines,    \* workers of xtractr (Parallel)
  Requests,   \* HTTP requests with a task
  Readers,    \* goroutines that read or write under the mutexes
  QueueBuf,   \* capacity of xtractr's queue
  UpdateBuf, DelBuf, TaskBuf,   \* capacities of updates, delChan, taskChan
  None,       \* no instance, item or request
  Free, Loop  \* no holder of a mutex, the main loop as one

ASSUME LoopAssumption ==
  /\ IsFiniteSet(Apps) /\ IsFiniteSet(Threads)
  /\ Threads # {} /\ Cardinality(Apps) <= Cardinality(Threads)
  /\ {QueueBuf, UpdateBuf, DelBuf, TaskBuf} \subseteq Nat \ {0}
  /\ None \notin Apps \cup Jobs \cup Requests
  /\ Free # Loop /\ {Free, Loop} \cap Readers = {}

VARIABLES
  at,         \* what the loop is in
  left,       \* polls to enqueue, items to queue or to delete, in this case
  job,        \* the item it hands to xtractr
  task,       \* the request whose task it runs
  apps,       \* the Starr instances in the configuration
  pending,    \* pendingRestart
  map,        \* the status of each item in History.Map
  inFlight,   \* deletes queued or running
  mu, cfgMu,  \* the holders of History.mu and of configMu
  wg,         \* the wait group of retrieveAppQueues
  work,       \* workChan
  threads,    \* poll workers that run
  poll,       \* the instance each of them polls
  queue,      \* xtractr's queue
  engine,     \* what xtractr's workers are at
  updates,    \* u.updates
  dels,       \* delChan
  deleter,    \* what the delete worker deletes
  tasks,      \* taskChan
  doors,      \* whether a handler waits for its task
  results     \* result channels that hold an answer

loop == <<at, left, job, task, map>>
live == <<apps, pending>>
locks == <<mu, cfgMu>>
polls == <<wg, work, threads, poll>>
extraction == <<queue, engine, updates>>
deletes == <<inFlight, dels, deleter>>
web == <<tasks, doors, results>>
vars == <<loop, live, locks, polls, extraction, deletes, web>>

\* IMPORTED is EXTRACTED here: idle() waits for both.  The durable ones can be
\* forgotten.
Status == {"no", "WAITING", "QUEUED", "EXTRACTING", "EXTRACTED", "EXTRACTFAILED", "DELETED"}
Busy == {"QUEUED", "EXTRACTING", "EXTRACTED"}
Durable == {"EXTRACTED", "EXTRACTFAILED", "DELETED"}

Idle == [at |-> "idle", job |-> None]

\* Every item may go from its status to one that step gives for it.
Moves(step) == {m \in [Jobs -> Status] : \A j \in Jobs : m[j] \in {map[j]} \cup step[map[j]]}
Stay == [s \in Status |-> {}]

-----------------------------------------------------------------------------
(* The poll workers.                                                       *)

\* ensureWorkThreads: the pool grows to one worker for each instance.
Grown(pool, count) ==
  {T \in SUBSET Threads :
     pool \subseteq T /\ \A n \in {count, 1, Cardinality(pool)} : n <= Cardinality(T)
     /\ Cardinality(T) \in {count, 1, Cardinality(pool)}}

TakePoll(t) ==
  /\ poll[t] = None
  /\ work # <<>>
  /\ poll' = [poll EXCEPT ![t] = Head(work)]
  /\ work' = Tail(work)
  /\ UNCHANGED <<loop, live, locks, wg, threads, extraction, deletes, web>>

\* getStarrQueue asks without a lock and publishes its answer under it.
Publish(t) ==
  /\ poll[t] # None
  /\ mu = Free
  /\ poll' = [poll EXCEPT ![t] = None]
  /\ wg' = wg - 1
  /\ UNCHANGED <<loop, live, locks, work, threads, extraction, deletes, web>>

\* A poll tick.
PollTick ==
  /\ at = "select"
  /\ at' = "polling" /\ left' = apps /\ wg' = Cardinality(apps)
  /\ UNCHANGED <<job, task, map, live, locks, work, threads, poll, extraction, deletes, web>>

EnqueuePoll(a) ==
  /\ at = "polling"
  /\ a \in left
  /\ work = <<>>
  /\ work' = <<a>> /\ left' = left \ {a}
  /\ UNCHANGED <<at, job, task, map, live, locks, wg, threads, poll, extraction, deletes, web>>

\* What the polls say of the items, once every poll is done.
Polled == [Stay EXCEPT !["no"] = {"WAITING"}, !["WAITING"] = {"no"}, !["DELETED"] = {"WAITING"},
             !["QUEUED"] = {"EXTRACTED"}, !["EXTRACTING"] = {"EXTRACTED"}, !["EXTRACTFAILED"] = {"EXTRACTED"}]

\* Without wait.Wait.
CheckQueuesAtOnce ==
  /\ at = "polling" /\ left = {}
  /\ mu = Free
  /\ map' \in Moves(IF apps = {} THEN Stay ELSE Polled)
  /\ at' = "select"
  /\ UNCHANGED <<left, job, task, live, locks, polls, extraction, deletes, web>>

CheckQueues ==
  /\ at = "polling" /\ left = {}
  /\ wg = 0
  /\ mu = Free
  /\ map' \in Moves(IF apps = {} THEN Stay ELSE Polled)
  /\ at' = "select"
  /\ UNCHANGED <<left, job, task, live, locks, polls, extraction, deletes, web>>

-----------------------------------------------------------------------------
(* Extractions.                                                            *)

ExtractTick ==
  /\ at = "select"
  /\ at' = "listing"
  /\ UNCHANGED <<left, job, task, map, live, locks, polls, extraction, deletes, web>>

ListJobs ==
  /\ at = "listing"
  /\ mu = Free
  /\ at' = "queueing" /\ left' = {j \in Jobs : map[j] = "WAITING"}
  /\ UNCHANGED <<job, task, map, live, locks, polls, extraction, deletes, web>>

\* The start delay runs, or there is nothing to extract yet.
SkipJob(j) ==
  /\ at = "queueing"
  /\ j \in left
  /\ mu = Free
  /\ left' = left \ {j}
  /\ UNCHANGED <<at, job, task, map, live, locks, polls, extraction, deletes, web>>

\* markItemQueued, under the lock; Extract is called without it.
QueueJob(j) ==
  /\ at = "queueing"
  /\ j \in left
  /\ mu = Free
  /\ map' = [map EXCEPT ![j] = "QUEUED"]
  /\ at' = "sending" /\ job' = j /\ left' = left \ {j}
  /\ UNCHANGED <<task, live, locks, polls, extraction, deletes, web>>

SendJob ==
  /\ at = "sending"
  /\ Len(queue) < QueueBuf
  /\ queue' = Append(queue, job)
  /\ at' = "queueing" /\ job' = None
  /\ UNCHANGED <<left, task, map, live, locks, polls, engine, updates, deletes, web>>

QueuedAll ==
  /\ at = "queueing" /\ left = {}
  /\ at' = "select"
  /\ UNCHANGED <<left, job, task, map, live, locks, polls, extraction, deletes, web>>

\* A worker of xtractr says that it starts, reports its progress, and says
\* how it went.
Start(e) ==
  /\ engine[e].at = "idle"
  /\ queue # <<>>
  /\ engine' = [engine EXCEPT ![e] = [at |-> "starting", job |-> Head(queue)]]
  /\ queue' = Tail(queue)
  /\ UNCHANGED <<loop, live, locks, polls, updates, deletes, web>>

Say(e, done) ==
  /\ Len(updates) < UpdateBuf
  /\ updates' = Append(updates, [job |-> engine[e].job, done |-> done])
  /\ UNCHANGED <<loop, live, locks, polls, queue, deletes, web>>

SayStarted(e) ==
  /\ engine[e].at = "starting"
  /\ engine' = [engine EXCEPT ![e].at = "extracting"]
  /\ Say(e, FALSE)

SayDone(e) ==
  /\ engine[e].at = "finishing"
  /\ engine' = [engine EXCEPT ![e] = Idle]
  /\ Say(e, TRUE)

Finish(e) ==
  /\ engine[e].at = "extracting"
  /\ engine' = [engine EXCEPT ![e].at = "finishing"]
  /\ UNCHANGED <<loop, live, locks, polls, queue, updates, deletes, web>>

\* progressUpdateCallback sends to a channel that has no buffer ...
Report(e) ==
  /\ engine[e].at = "extracting"
  /\ engine' = [engine EXCEPT ![e].at = "reporting"]
  /\ UNCHANGED <<loop, live, locks, polls, queue, updates, deletes, web>>

\* ... and waits for the loop to take it.
TakeProgress(e) ==
  /\ at = "select"
  /\ engine[e].at = "reporting"
  /\ engine' = [engine EXCEPT ![e].at = "extracting"]
  /\ at' = "progress" /\ job' = engine[e].job
  /\ UNCHANGED <<left, task, map, live, locks, polls, queue, updates, deletes, web>>

TakeUpdate ==
  /\ at = "select"
  /\ updates # <<>>
  /\ at' = IF Head(updates).done THEN "done" ELSE "started"
  /\ job' = Head(updates).job /\ updates' = Tail(updates)
  /\ UNCHANGED <<left, task, map, live, locks, polls, queue, engine, deletes, web>>

\* What a callback or a report makes of its item, if there is one still.  The
\* end of a job may put the item back.
Says == [progress |-> {}, started |-> {"EXTRACTING"}, done |-> {"EXTRACTED", "EXTRACTFAILED", "WAITING"}]

HandleUpdate ==
  /\ at \in DOMAIN Says
  /\ mu = Free
  /\ \/ (map[job] = "no" \/ at = "progress") /\ map' = map
     \/ map[job] # "no" /\ \E s \in Says[at] : map' = [map EXCEPT ![job] = s]
  /\ at' = "select" /\ job' = None
  /\ UNCHANGED <<left, task, live, locks, polls, extraction, deletes, web>>

-----------------------------------------------------------------------------
(* The cleaner tick: deletes, and the restart when nothing is under way.   *)

\* Failed items wait again, stale ones are given up, deleted ones forgotten.
Cleans == [Stay EXCEPT !["EXTRACTFAILED"] = {"WAITING"}, !["DELETED"] = {"no"},
             !["QUEUED"] = {"DELETED"}, !["EXTRACTING"] = {"DELETED"}, !["EXTRACTED"] = {"DELETED"}]

CleanTick ==
  /\ at = "select"
  /\ at' = "checking"
  /\ UNCHANGED <<left, job, task, map, live, locks, polls, extraction, deletes, web>>

\* checkExtractDone keeps the lock while it queues the deletes.
Clean ==
  /\ at = "checking"
  /\ mu = Free
  /\ map' \in Moves(Cleans)
  /\ left' \in SUBSET {j \in Jobs : map[j] = "EXTRACTED" /\ map'[j] = "EXTRACTED"}
  /\ at' = "cleaning" /\ mu' = Loop
  /\ UNCHANGED <<job, task, live, cfgMu, polls, extraction, deletes, web>>

\* The worker counts, when it takes the request.
QueueDeleteUncounted(j) ==
  /\ at = "cleaning"
  /\ j \in left
  /\ Len(dels) < DelBuf
  /\ dels' = Append(dels, j)
  /\ map' = [map EXCEPT ![j] = "DELETED"]
  /\ left' = left \ {j}
  /\ UNCHANGED <<at, job, task, live, locks, polls, extraction, inFlight, deleter, web>>

\* queueDelete counts before it sends.
QueueDelete(j) ==
  /\ at = "cleaning"
  /\ j \in left
  /\ Len(dels) < DelBuf
  /\ dels' = Append(dels, j) /\ inFlight' = inFlight + 1
  /\ map' = [map EXCEPT ![j] = "DELETED"]
  /\ left' = left \ {j}
  /\ UNCHANGED <<at, job, task, live, locks, polls, extraction, deleter, web>>

Cleaned ==
  /\ at = "cleaning" /\ left = {}
  /\ at' = "restarting" /\ mu' = Free
  /\ UNCHANGED <<left, job, task, map, live, cfgMu, polls, extraction, deletes, web>>

TakeDelete ==
  /\ deleter = None
  /\ dels # <<>>
  /\ deleter' = Head(dels) /\ dels' = Tail(dels)
  /\ UNCHANGED <<loop, live, locks, polls, extraction, inFlight, web>>

DeleteRequest ==
  /\ deleter # None
  /\ deleter' = None /\ inFlight' = inFlight - 1
  /\ UNCHANGED <<loop, live, locks, polls, extraction, dels, web>>

\* idle()
NothingUnderWay ==
  /\ inFlight = 0
  /\ updates = <<>>
  /\ \A j \in Jobs : map[j] \notin Busy

\* No restart is wanted, or not yet, or the binary is not found.  What comes
\* before, checkFolderStats, takes the lock for what it finds.
NoRestart ==
  /\ at = "restarting"
  /\ mu = Free
  /\ pending' \in IF pending /\ NothingUnderWay THEN {FALSE} ELSE {pending}
  /\ at' = "select"
  /\ UNCHANGED <<left, job, task, map, apps, locks, polls, extraction, deletes, web>>

\* maybeRestart: another process takes the place of this one.
Exec ==
  /\ at = "restarting"
  /\ mu = Free
  /\ pending /\ NothingUnderWay
  /\ at' = "starting" /\ pending' = FALSE /\ map' = [j \in Jobs |-> "no"]
  /\ cfgMu' = Free
  /\ wg' = 0 /\ work' = <<>> /\ threads' = {} /\ poll' = [t \in Threads |-> None]
  /\ queue' = <<>> /\ engine' = [e \in Engines |-> Idle] /\ updates' = <<>>
  /\ inFlight' = 0 /\ dels' = <<>> /\ deleter' = None
  /\ tasks' = <<>> /\ results' = {} /\ doors' = [r \in Requests |-> "away"]
  /\ UNCHANGED <<left, job, task, apps, mu>>

\* What the history brings back of the items that are not in the queue.
Restored == [Stay EXCEPT !["no"] = {"WAITING", "EXTRACTED", "EXTRACTFAILED"}]

\* Start(), and Run() up to its first poll.
StartRun ==
  /\ at = "starting"
  /\ mu = Free
  /\ map' \in Moves(Restored)
  /\ threads' \in Grown({}, Cardinality(apps))
  /\ at' = "polling" /\ left' = apps /\ wg' = Cardinality(apps)
  /\ UNCHANGED <<job, task, live, locks, work, poll, extraction, deletes, web>>

-----------------------------------------------------------------------------
(* HTTP handlers.                                                          *)

\* onMainLoop hands a task over, and waits for its answer.
Send(r) ==
  /\ doors[r] = "away" /\ r # task /\ \A i \in DOMAIN tasks : tasks[i] # r
  /\ Len(tasks) < TaskBuf
  /\ tasks' = Append(tasks, r)
  /\ doors' = [doors EXCEPT ![r] = "waiting"]
  /\ results' = results \ {r}
  /\ UNCHANGED <<loop, live, locks, polls, extraction, deletes>>

Hear(r) ==
  /\ doors[r] = "waiting"
  /\ r \in results
  /\ results' = results \ {r}
  /\ doors' = [doors EXCEPT ![r] = "away"]
  /\ UNCHANGED <<loop, live, locks, polls, extraction, deletes, tasks>>

\* The request ends before the answer is there.
GiveUp(r) ==
  /\ doors[r] = "waiting"
  /\ doors' = [doors EXCEPT ![r] = "away"]
  /\ UNCHANGED <<loop, live, locks, polls, extraction, deletes, tasks, results>>

TakeTask ==
  /\ at = "select"
  /\ tasks # <<>>
  /\ task' = Head(tasks) /\ tasks' = Tail(tasks)
  /\ at' \in {"acting", "putting"}
  /\ UNCHANGED <<left, job, map, live, locks, polls, extraction, deletes, doors, results>>

\* The result channel has room for the answer, whether or not it is read.
Answer ==
  /\ results' = results \cup {task}
  /\ task' = None
  /\ at' = "select"
  /\ UNCHANGED <<left, job, wg, work, poll, extraction, deletes, tasks, doors>>

\* retryQueueID, forgetQueueID, a read of what is live, or a refusal.
Act ==
  /\ at = "acting"
  /\ mu = Free
  /\ \/ map' = map
     \/ \E j \in Jobs : map[j] \in Durable /\ map' = [map EXCEPT ![j] = "no"]
     \/ \E j \in Jobs : map[j] = "EXTRACTFAILED" /\ map' = [map EXCEPT ![j] = "WAITING"]
  /\ UNCHANGED <<live, threads, locks>>
  /\ Answer

\* commitConfig holds configMu while it writes the file and applies.
Commit ==
  /\ at = "putting"
  /\ cfgMu = Free
  /\ at' = "committing" /\ cfgMu' = Loop
  /\ UNCHANGED <<left, job, task, map, live, mu, polls, extraction, deletes, web>>

CommitFails ==
  /\ at = "committing"
  /\ cfgMu' = Free
  /\ UNCHANGED <<map, live, threads, mu>>
  /\ Answer

\* What is saved is live.  A list of instances grows the pool.
ApplyList ==
  /\ at = "committing"
  /\ cfgMu' = Free
  /\ apps' \in SUBSET Apps
  /\ threads' \in Grown(threads, Cardinality(apps'))
  /\ UNCHANGED <<map, pending, mu>>
  /\ Answer

ApplySection ==
  /\ at = "committing"
  /\ cfgMu' = Free
  /\ pending' \in {pending, TRUE}
  /\ UNCHANGED <<map, apps, threads, mu>>
  /\ Answer

\* All of it inside of commitConfig.
ApplyGeneralInside ==
  /\ at = "committing"
  /\ at' = "restamping"
  /\ UNCHANGED <<left, job, task, map, live, locks, polls, extraction, deletes, web>>

\* General settings: configMu is given back before History.mu is taken ...
ApplyGeneral ==
  /\ at = "committing"
  /\ cfgMu' = Free
  /\ at' = "restamping"
  /\ UNCHANGED <<left, job, task, map, live, mu, polls, extraction, deletes, web>>

\* ... by restampQueueDeadlines, and by the restore when history was off.
Restamp ==
  /\ at = "restamping"
  /\ mu = Free
  /\ map' \in Moves(Restored)
  /\ pending' \in {pending, TRUE}
  /\ UNCHANGED <<apps, threads, locks>>
  /\ Answer

\* stats() reads under History.mu and takes configMu inside of it ...
ReadLock(r) ==
  /\ mu = Free
  /\ cfgMu # r
  /\ mu' = r
  /\ UNCHANGED <<loop, live, cfgMu, polls, extraction, deletes, web>>

\* ... and others take configMu alone.
ReadConfig(r) ==
  /\ cfgMu = Free
  /\ cfgMu' = r
  /\ UNCHANGED <<loop, live, mu, polls, extraction, deletes, web>>

ReadDone(r) ==
  /\ cfgMu = r
  /\ cfgMu' = Free
  /\ mu' = IF mu = r THEN Free ELSE mu
  /\ UNCHANGED <<loop, live, polls, extraction, deletes, web>>

-----------------------------------------------------------------------------
(* The specification.                                                      *)

Init ==
  /\ at = "starting" /\ left = {} /\ job = None /\ task = None
  /\ apps \in SUBSET Apps /\ pending = FALSE
  /\ map = [j \in Jobs |-> "no"]
  /\ mu = Free /\ cfgMu = Free
  /\ wg = 0 /\ work = <<>> /\ threads = {} /\ poll = [t \in Threads |-> None]
  /\ queue = <<>> /\ engine = [e \in Engines |-> Idle] /\ updates = <<>>
  /\ inFlight = 0 /\ dels = <<>> /\ deleter = None
  /\ tasks = <<>> /\ results = {} /\ doors = [r \in Requests |-> "away"]

\* A step inside of a case of the select.
CaseStep ==
  \/ (\E a \in Apps : EnqueuePoll(a)) \/ CheckQueues
  \/ ListJobs \/ (\E j \in Jobs : SkipJob(j) \/ QueueJob(j)) \/ SendJob \/ QueuedAll
  \/ HandleUpdate
  \/ Clean \/ (\E j \in Jobs : QueueDelete(j)) \/ Cleaned \/ NoRestart \/ Exec \/ StartRun
  \/ Act \/ Commit \/ CommitFails \/ ApplyList \/ ApplySection \/ ApplyGeneral \/ Restamp

LoopStep ==
  \/ CaseStep
  \/ PollTick \/ ExtractTick \/ CleanTick
  \/ TakeUpdate \/ (\E e \in Engines : TakeProgress(e)) \/ TakeTask

PollerStep(t) == TakePoll(t) \/ Publish(t)
EngineStep(e) == Start(e) \/ SayStarted(e) \/ Finish(e) \/ Report(e) \/ SayDone(e)
DeleterStep == TakeDelete \/ DeleteRequest
HandlerStep(r) == Send(r) \/ Hear(r) \/ GiveUp(r)
ReaderStep(r) == ReadLock(r) \/ ReadConfig(r) \/ ReadDone(r)

Next ==
  \/ LoopStep
  \/ \E t \in threads : PollerStep(t)
  \/ \E e \in Engines : EngineStep(e)
  \/ DeleterStep
  \/ \E r \in Requests : HandlerStep(r)
  \/ \E r \in Readers : ReaderStep(r)

Spec == Init /\ [][Next]_vars

\* What Go promises.  A select that comes round again and again takes every
\* case that is ready again and again; a mutex is not withheld from one who
\* waits for it; a goroutine that can go on does.
Fairness ==
  /\ SF_vars(CaseStep) /\ SF_vars(TakeTask) /\ SF_vars(TakeUpdate)
  /\ \A e \in Engines : SF_vars(TakeProgress(e)) /\ SF_vars(SayStarted(e)) /\ SF_vars(SayDone(e))
  /\ \A t \in Threads : WF_vars(t \in threads /\ TakePoll(t)) /\ SF_vars(t \in threads /\ Publish(t))
  /\ WF_vars(DeleterStep)
  /\ \A r \in Readers : SF_vars(mu = r /\ ReadConfig(r)) /\ WF_vars(ReadDone(r))

FairSpec == Spec /\ Fairness

-----------------------------------------------------------------------------
(* Properties.                                                             *)

\* Every variable keeps its type.
TypeOK ==
  /\ at \in {"starting", "select", "polling", "listing", "queueing", "sending", "checking",
             "cleaning", "restarting", "acting", "putting", "committing", "restamping"}
             \cup DOMAIN Says
  /\ left \in SUBSET (Apps \cup Jobs)
  /\ job \in Jobs \cup {None} /\ task \in Requests \cup {None}
  /\ apps \in SUBSET Apps /\ pending \in BOOLEAN
  /\ map \in [Jobs -> Status]
  /\ mu \in Readers \cup {Free, Loop} /\ cfgMu \in Readers \cup {Free, Loop}
  /\ wg \in Nat /\ work \in Seq(Apps) /\ Len(work) <= 1
  /\ threads \in SUBSET Threads /\ poll \in [Threads -> Apps \cup {None}]
  /\ queue \in Seq(Jobs) /\ Len(queue) <= QueueBuf
  /\ engine \in [Engines -> [at : {"idle", "starting", "extracting", "reporting", "finishing"},
                             job : Jobs \cup {None}]]
  /\ updates \in Seq([job : Jobs, done : BOOLEAN]) /\ Len(updates) <= UpdateBuf
  /\ inFlight \in Nat /\ dels \in Seq(Jobs) /\ Len(dels) <= DelBuf
  /\ deleter \in Jobs \cup {None}
  /\ tasks \in Seq(Requests) /\ Len(tasks) <= TaskBuf
  /\ doors \in [Requests -> {"away", "waiting"}] /\ results \in SUBSET Requests

\* What the loop can wait for inside of a case.
WaitsForPolls == at = "polling" /\ (IF left = {} THEN wg > 0 ELSE work # <<>>)
WaitsForDeletes == at = "cleaning" /\ left # {} /\ Len(dels) = DelBuf
WaitsForRoom == at = "sending" /\ Len(queue) = QueueBuf
WaitsForHistory ==
  /\ \/ at \in {"listing", "checking", "acting", "restamping", "restarting", "starting"}
     \/ at \in DOMAIN Says
     \/ at = "polling" /\ left = {} /\ wg = 0
     \/ at = "queueing" /\ left # {}
  /\ mu # Free
WaitsForConfig == at = "putting" /\ cfgMu # Free

\* Who can make a step now.
HolderMoves == \E r \in Readers : cfgMu = r \/ (mu = r /\ cfgMu = Free)
PollerMoves == \E t \in threads : (poll[t] = None /\ work # <<>>) \/ (poll[t] # None /\ mu = Free)

\* The loop is never in a ring of waits: whatever it waits for, a poll, a lock
\* or room for a delete, one of those that it waits for can go on.  This is
\* what configput.go:319 asks for: History.mu is never taken under configMu.
LoopMoves ==
  /\ WaitsForPolls => PollerMoves \/ HolderMoves
  /\ WaitsForHistory \/ WaitsForConfig => HolderMoves
  /\ WaitsForDeletes => deleter # None \/ dels # <<>>

\* A poll that is handed over finds a worker without waiting for another
\* instance, however many instances a PUT added (apps.go:138).
PollsTogether == Len(work) <= Cardinality({t \in threads : poll[t] = None})

\* The list of instances never changes under a poll (apps.go:160).
ListHolds == [][apps' # apps => work = <<>> /\ \A t \in threads : poll[t] = None]_vars

\* A restart loses no delete: none is queued or under way (restart.go:54).
RestartKeepsDeletes == [][at = "restarting" /\ at' = "starting" => dels = <<>> /\ deleter = None]_vars

\* A task that is handed over is run, or its process goes, unless the loop
\* waits for room in xtractr's queue.
TasksRun == \A r \in Requests :
  (\E i \in DOMAIN tasks : tasks[i] = r) ~> (WaitsForRoom \/ \A i \in DOMAIN tasks : tasks[i] # r)

\* What a worker of xtractr has to say is heard, with the same exception.
EnginesHeard == \A e \in Engines :
  engine[e].at \in {"starting", "reporting", "finishing"}
    ~> (WaitsForRoom \/ engine[e].at \in {"idle", "extracting"})
=============================================================================
