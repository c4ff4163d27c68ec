---------------------------- MODULE MainLoopProofs ----------------------------
(***************************************************************************)
(* Theorems about MainLoop, for any number of instances, workers, items,   *)
(* handlers and readers and any capacities: the loop is in no ring of      *)
(* waits, polls wait for no other poll, the list of instances holds while  *)
(* they run, and a restart loses no delete.                                *)
(***************************************************************************)
EXTENDS MainLoop, FiniteSetTheorems, SequenceTheorems, TLAPS

-----------------------------------------------------------------------------
(* The invariant.                                                          *)

\* The loop holds History.mu while it queues deletes, and configMu in a commit.
LocksHeld == (mu = Loop <=> at = "cleaning") /\ (cfgMu = Loop <=> at = "committing")

\* The workers that poll.
BusyThreads == {t \in Threads : poll[t] # None}

\* The wait group counts the polls to enqueue, the one in the channel and those
\* that run; outside of the case there are none.
PollsCounted ==
  /\ BusyThreads \subseteq threads
  /\ IF at = "polling"
     THEN left \subseteq apps /\ wg = Cardinality(left) + Len(work) + Cardinality(BusyThreads)
     ELSE wg = 0 /\ work = <<>> /\ BusyThreads = {}
  /\ wg <= Cardinality(apps)

\* There is a worker for each instance.
PoolCovers == at # "starting" => Cardinality(apps) <= Cardinality(threads)

\* inFlight counts the deletes in the channel and the one under way.
DeletesCounted == inFlight = Len(dels) + (IF deleter = None THEN 0 ELSE 1)

\* What a case works on is there.
AtHand ==
  /\ at \in {"acting", "putting", "committing", "restamping"} => task \in Requests
  /\ at \in {"sending"} \cup DOMAIN Says => job \in Jobs
  /\ \A e \in Engines : engine[e].at # "idle" => engine[e].job \in Jobs

LoopInv == TypeOK /\ LocksHeld /\ PollsCounted /\ PoolCovers /\ DeletesCounted /\ AtHand

-----------------------------------------------------------------------------
(* Facts.                                                                  *)

\* What is counted is finite.
LEMMA Counts ==
  ASSUME TypeOK
  PROVE  /\ IsFiniteSet(apps) /\ Cardinality(apps) \in Nat
         /\ IsFiniteSet(threads) /\ Cardinality(threads) \in Nat
         /\ IsFiniteSet(BusyThreads) /\ Cardinality(BusyThreads) \in Nat
         /\ \A s \in SUBSET apps : IsFiniteSet(s) /\ Cardinality(s) \in Nat
<1>1. IsFiniteSet(apps) /\ IsFiniteSet(threads) /\ IsFiniteSet(BusyThreads)
  BY LoopAssumption, FS_Subset DEF TypeOK, BusyThreads
<1>2. \A s \in SUBSET apps : IsFiniteSet(s)
  BY <1>1, FS_Subset
<1> QED
  BY <1>1, <1>2, FS_CardinalityType

\* A pool that grows keeps its workers and has one for each of count.
LEMMA GrownCovers ==
  ASSUME NEW pool, NEW count \in Nat, NEW T \in Grown(pool, count)
  PROVE  T \in SUBSET Threads /\ pool \subseteq T /\ count <= Cardinality(T)
  BY DEF Grown

\* What is taken from a channel.
LEMMA Taken ==
  ASSUME NEW S, NEW q \in Seq(S), q # <<>>
  PROVE  /\ Head(q) \in S /\ Tail(q) \in Seq(S) /\ Len(q) \in Nat \ {0}
         /\ Len(Tail(q)) = Len(q) - 1
  BY HeadTailProperties, LenProperties, EmptySeq

\* A free worker starts to poll: one more is busy.
LEMMA BusyMore ==
  ASSUME TypeOK, NEW t \in Threads, NEW a \in Apps, poll[t] = None, poll' = [poll EXCEPT ![t] = a]
  PROVE  BusyThreads' = BusyThreads \cup {t} /\ Cardinality(BusyThreads') = Cardinality(BusyThreads) + 1
<1>1. BusyThreads' = BusyThreads \cup {t} /\ t \notin BusyThreads
  BY LoopAssumption DEF TypeOK, BusyThreads, LoopAssumption
<1> QED
  BY <1>1, Counts, FS_AddElement

\* A worker is done with its poll: one less is busy.
LEMMA BusyLess ==
  ASSUME TypeOK, NEW t \in Threads, poll[t] # None, poll' = [poll EXCEPT ![t] = None]
  PROVE  BusyThreads' = BusyThreads \ {t} /\ Cardinality(BusyThreads') = Cardinality(BusyThreads) - 1
         /\ Cardinality(BusyThreads) >= 1
<1>1. BusyThreads' = BusyThreads \ {t} /\ t \in BusyThreads
  BY DEF TypeOK, BusyThreads
<1>2. Cardinality(BusyThreads') = Cardinality(BusyThreads) - 1
  BY <1>1, Counts, FS_RemoveElement
<1>3. IsFiniteSet(BusyThreads')
  BY <1>1, Counts, FS_RemoveElement
<1>4. Cardinality(BusyThreads') \in Nat
  BY <1>3, FS_CardinalityType
<1> QED
  BY <1>1, <1>2, <1>4, Counts

\* What a worker of xtractr can be at.
EngineState == [at : {"idle", "starting", "extracting", "reporting", "finishing"},
                job : Jobs \cup {None}]

\* A worker of xtractr goes on with its job.
LEMMA EngineMoves ==
  ASSUME TypeOK, AtHand, NEW e \in Engines, engine[e].at # "idle",
         NEW s \in {"starting", "extracting", "reporting", "finishing"}
  PROVE  /\ engine[e].job \in Jobs
         /\ [engine EXCEPT ![e].at = s] \in [Engines -> EngineState]
<1>1. engine[e] \in EngineState /\ engine \in [Engines -> EngineState]
  BY DEF TypeOK, EngineState
<1>2. [engine[e] EXCEPT !.at = s] \in EngineState
  BY <1>1 DEF EngineState
<1>3. [engine EXCEPT ![e].at = s] \in [Engines -> EngineState]
  BY <1>1, <1>2
<1> QED
  BY <1>3 DEF AtHand

-----------------------------------------------------------------------------
(* Every step keeps the invariant.                                         *)

\* The workers of the pool.
LEMMA PollerKeeps ==
  ASSUME LoopInv, NEW t \in threads,
         TakePoll(t) \/ Publish(t)
  PROVE  LoopInv'
<1> USE LoopAssumption DEF LoopAssumption, LoopInv, TypeOK, Says, loop, live, locks,
      polls, extraction, deletes, web
<1>1. CASE TakePoll(t)
  <2>1. at = "polling" /\ wg = Cardinality(left) + Len(work) + Cardinality(BusyThreads) /\ left \subseteq apps
    BY <1>1 DEF TakePoll, PollsCounted
  <2>2. work \in Seq(Apps) /\ work # <<>> /\ Len(work) <= 1
    BY <1>1 DEF TakePoll
  <2>3. Head(work) \in Apps /\ Len(work) = 1 /\ Tail(work) \in Seq(Apps) /\ Len(Tail(work)) = 0
    <3> HIDE LoopAssumption DEF LoopAssumption, TypeOK, LoopInv, Says, loop, live, locks,
          polls, extraction, deletes, web
    <3>1. /\ Head(work) \in Apps /\ Tail(work) \in Seq(Apps) /\ Len(work) \in Nat \ {0}
          /\ Len(Tail(work)) = Len(work) - 1
      BY <2>2, Taken, Zenon
    <3> QED
      BY <2>2, <3>1
  <2>4. BusyThreads' = BusyThreads \cup {t} /\ Cardinality(BusyThreads') = Cardinality(BusyThreads) + 1
    BY <1>1, <2>3, BusyMore DEF TakePoll
  <2>5. Cardinality(left) \in Nat /\ Cardinality(BusyThreads) \in Nat
    BY <2>1, Counts
  <2>6. at' = at /\ left' = left /\ wg' = wg /\ work' = Tail(work)
    BY <1>1 DEF TakePoll
  <2>7. /\ at' = "polling" /\ wg' = Cardinality(left') + Len(work') + Cardinality(BusyThreads')
        /\ left' = left /\ wg' = wg /\ work' \in Seq(Apps) /\ Len(work') <= 1
    <3> HIDE LoopAssumption DEF LoopAssumption, TypeOK, LoopInv, Says, loop, live, locks,
          polls, extraction, deletes, web
    <3> QED
      BY <2>6, <2>1, <2>3, <2>4, <2>5
  <2>8. TypeOK'
    <3>1. poll' \in [Threads -> Apps \cup {None}]
      BY <1>1, <2>3 DEF TakePoll
    <3>2. UNCHANGED <<loop, live, locks, wg, threads, extraction, deletes, web>>
      BY <1>1 DEF TakePoll
    <3>3. TypeOK
      OBVIOUS
    <3> HIDE LoopAssumption DEF LoopAssumption, LoopInv, Says
    <3> QED
      BY <2>7, <3>1, <3>2, <3>3
  <2>9. LocksHeld' /\ DeletesCounted' /\ AtHand'
    BY <1>1 DEF TakePoll, LocksHeld, DeletesCounted, AtHand
  <2>10. PollsCounted' /\ PoolCovers'
    BY <1>1, <2>4, <2>7 DEF TakePoll, PollsCounted, PoolCovers
  <2> HIDE LoopAssumption DEF LoopAssumption, TypeOK, LoopInv, Says, loop, live, locks,
        polls, extraction, deletes, web
  <2> QED
    BY <2>8, <2>9, <2>10 DEF LoopInv
<1>2. CASE Publish(t)
  <2>1. /\ BusyThreads' = BusyThreads \ {t} /\ Cardinality(BusyThreads') = Cardinality(BusyThreads) - 1
        /\ Cardinality(BusyThreads) >= 1 /\ Cardinality(BusyThreads) \in Nat
    BY <1>2, BusyLess, Counts DEF Publish
  <2>2. at = "polling" /\ wg = Cardinality(left) + Len(work) + Cardinality(BusyThreads) /\ left \subseteq apps
    BY <1>2 DEF Publish, PollsCounted, BusyThreads
  <2>3. Cardinality(left) \in Nat /\ Len(work) \in Nat
    BY <2>2, Counts, LenProperties
  <2>4. wg' \in Nat /\ wg' <= wg /\ wg' = Cardinality(left) + Len(work) + Cardinality(BusyThreads')
    <3> HIDE LoopAssumption DEF LoopAssumption, TypeOK, LoopInv, Says, loop, live, locks,
          polls, extraction, deletes, web
    <3> QED
      BY <1>2, <2>1, <2>2, <2>3 DEF Publish
  <2>5. Cardinality(apps) \in Nat
    BY Counts
  <2>6. TypeOK'
    BY <1>2, <2>4 DEF Publish
  <2>7. LocksHeld' /\ DeletesCounted' /\ AtHand'
    BY <1>2 DEF Publish, LocksHeld, DeletesCounted, AtHand
  <2>8. PollsCounted' /\ PoolCovers'
    BY <1>2, <2>1, <2>2, <2>4, <2>5 DEF Publish, PollsCounted, PoolCovers
  <2> HIDE LoopAssumption DEF LoopAssumption, TypeOK, LoopInv, Says, loop, live, locks,
        polls, extraction, deletes, web
  <2> QED
    BY <2>6, <2>7, <2>8 DEF LoopInv
<1> HIDE LoopAssumption DEF LoopAssumption, TypeOK, LoopInv, Says, loop, live, locks,
      polls, extraction, deletes, web
<1> QED
  BY <1>1, <1>2

\* A poll in the loop.
LEMMA PollKeeps ==
  ASSUME LoopInv,
         PollTick \/ CheckQueues
  PROVE  LoopInv'
<1> USE LoopAssumption DEF LoopAssumption, LoopInv, TypeOK, Says, loop, live, locks,
      polls, extraction, deletes, web
<1>1. CASE PollTick
  <2>1. /\ BusyThreads' = BusyThreads /\ Cardinality({}) = 0 /\ Cardinality(apps) \in Nat
        /\ Cardinality(BusyThreads) \in Nat
    BY <1>1, Counts, FS_EmptySet DEF PollTick, BusyThreads
  <2>2. work = <<>> /\ BusyThreads = {}
    BY <1>1 DEF PollTick, PollsCounted
  <2>3. left' = apps /\ wg' = Cardinality(apps) /\ at' = "polling" /\ work' = work /\ apps' = apps
    BY <1>1 DEF PollTick
  <2>4. /\ left' \subseteq apps'
        /\ wg' = Cardinality(left') + Len(work') + Cardinality(BusyThreads')
        /\ wg' <= Cardinality(apps')
    <3> HIDE LoopAssumption DEF LoopAssumption, TypeOK, LoopInv, Says, loop, live, locks,
          polls, extraction, deletes, web
    <3> QED
      BY <2>1, <2>2, <2>3
  <2>5. TypeOK'
    BY <1>1, Counts DEF PollTick
  <2>6. LocksHeld' /\ DeletesCounted' /\ AtHand'
    BY <1>1 DEF PollTick, LocksHeld, DeletesCounted, AtHand
  <2>7. PollsCounted' /\ PoolCovers'
    BY <1>1, <2>1, <2>2, <2>3, <2>4 DEF PollTick, PollsCounted, PoolCovers
  <2> HIDE LoopAssumption DEF LoopAssumption, TypeOK, LoopInv, Says, loop, live, locks,
        polls, extraction, deletes, web
  <2> QED
    BY <2>5, <2>6, <2>7 DEF LoopInv
<1>2. CASE CheckQueues
  <2>1. /\ BusyThreads' = BusyThreads /\ Cardinality({}) = 0 /\ Cardinality(apps) \in Nat
        /\ Cardinality(BusyThreads) \in Nat
    BY <1>2, Counts, FS_EmptySet DEF CheckQueues, BusyThreads
  <2>2. /\ work \in Seq(Apps) /\ left = {} /\ IsFiniteSet(BusyThreads)
        /\ 0 = Cardinality(left) + Len(work) + Cardinality(BusyThreads)
    BY <1>2, Counts DEF CheckQueues, PollsCounted
  <2>3. work = <<>> /\ BusyThreads = {}
    <3> HIDE LoopAssumption DEF LoopAssumption, TypeOK, LoopInv, Says, loop, live, locks,
          polls, extraction, deletes, web
    <3> QED
      BY <2>2, <2>1, FS_EmptySet, EmptySeq, LenProperties
  <2>4. TypeOK'
    BY <1>2 DEF CheckQueues, Moves, Polled, Stay, Status
  <2>5. LocksHeld' /\ DeletesCounted' /\ AtHand'
    BY <1>2 DEF CheckQueues, Moves, Polled, Stay, Status, LocksHeld, DeletesCounted, AtHand
  <2>6. PollsCounted' /\ PoolCovers'
    BY <1>2, <2>1, <2>3 DEF CheckQueues, PollsCounted, PoolCovers
  <2> HIDE LoopAssumption DEF LoopAssumption, TypeOK, LoopInv, Says, loop, live, locks,
        polls, extraction, deletes, web
  <2> QED
    BY <2>4, <2>5, <2>6 DEF LoopInv
<1> HIDE LoopAssumption DEF LoopAssumption, TypeOK, LoopInv, Says, loop, live, locks,
      polls, extraction, deletes, web
<1> QED
  BY <1>1, <1>2

\* A poll for the workers.
LEMMA EnqueueKeeps ==
  ASSUME LoopInv, NEW a \in Apps,
         EnqueuePoll(a)
  PROVE  LoopInv'
<1> USE LoopAssumption DEF LoopAssumption, LoopInv, TypeOK, Says, loop, live, locks,
      polls, extraction, deletes, web
<1>1. CASE EnqueuePoll(a)
  <2>1. /\ a \in left /\ left \subseteq apps /\ Cardinality(left \ {a}) = Cardinality(left) - 1
        /\ Cardinality(left) \in Nat
    BY <1>1, Counts, FS_RemoveElement DEF EnqueuePoll, PollsCounted
  <2>2. TypeOK'
    BY <1>1 DEF EnqueuePoll
  <2>3. LocksHeld' /\ DeletesCounted' /\ AtHand'
    BY <1>1 DEF EnqueuePoll, LocksHeld, DeletesCounted, AtHand
  <2>4. /\ BusyThreads \subseteq threads /\ Cardinality(BusyThreads) \in Nat /\ work = <<>> /\ at = "polling"
        /\ wg = Cardinality(left) + Len(work) + Cardinality(BusyThreads) /\ wg <= Cardinality(apps)
    BY <1>1, Counts DEF EnqueuePoll, PollsCounted
  <2>5. /\ left' = left \ {a} /\ work' = <<a>> /\ BusyThreads' = BusyThreads
        /\ UNCHANGED <<at, apps, threads, wg>>
    BY <1>1 DEF EnqueuePoll, BusyThreads
  <2>6. PollsCounted' /\ PoolCovers'
    <3> HIDE LoopAssumption DEF LoopAssumption, TypeOK, Says, loop, live, locks,
          polls, extraction, deletes, web
    <3> QED
      BY <2>1, <2>4, <2>5 DEF PollsCounted, PoolCovers
  <2> HIDE LoopAssumption DEF LoopAssumption, TypeOK, LoopInv, Says, loop, live, locks,
        polls, extraction, deletes, web
  <2> QED
    BY <2>2, <2>3, <2>6 DEF LoopInv
<1> HIDE LoopAssumption DEF LoopAssumption, TypeOK, LoopInv, Says, loop, live, locks,
      polls, extraction, deletes, web
<1> QED
  BY <1>1

\* Extractions in the loop.
LEMMA ExtractKeeps ==
  ASSUME LoopInv,
         ExtractTick \/ ListJobs \/ SendJob \/ QueuedAll
  PROVE  LoopInv'
<1> USE LoopAssumption DEF LoopAssumption, LoopInv, TypeOK, Says, loop, live, locks,
      polls, extraction, deletes, web
<1>1. CASE ExtractTick
  <2>1. TypeOK'
    BY <1>1 DEF ExtractTick
  <2>2. LocksHeld' /\ DeletesCounted' /\ AtHand'
    BY <1>1 DEF ExtractTick, LocksHeld, DeletesCounted, AtHand
  <2>3. PollsCounted' /\ PoolCovers'
    BY <1>1 DEF ExtractTick, PollsCounted, PoolCovers, BusyThreads
  <2> HIDE LoopAssumption DEF LoopAssumption, TypeOK, LoopInv, Says, loop, live, locks,
        polls, extraction, deletes, web
  <2> QED
    BY <2>1, <2>2, <2>3 DEF LoopInv
<1>2. CASE ListJobs
  <2>1. TypeOK'
    BY <1>2 DEF ListJobs
  <2>2. LocksHeld' /\ DeletesCounted' /\ AtHand'
    BY <1>2 DEF ListJobs, LocksHeld, DeletesCounted, AtHand
  <2>3. PollsCounted' /\ PoolCovers'
    BY <1>2 DEF ListJobs, PollsCounted, PoolCovers, BusyThreads
  <2> HIDE LoopAssumption DEF LoopAssumption, TypeOK, LoopInv, Says, loop, live, locks,
        polls, extraction, deletes, web
  <2> QED
    BY <2>1, <2>2, <2>3 DEF LoopInv
<1>3. CASE SendJob
  <2>1. TypeOK'
    BY <1>3 DEF SendJob, AtHand
  <2>2. LocksHeld' /\ DeletesCounted' /\ AtHand'
    BY <1>3 DEF SendJob, LocksHeld, DeletesCounted, AtHand
  <2>3. PollsCounted' /\ PoolCovers'
    BY <1>3 DEF SendJob, PollsCounted, PoolCovers, BusyThreads
  <2> HIDE LoopAssumption DEF LoopAssumption, TypeOK, LoopInv, Says, loop, live, locks,
        polls, extraction, deletes, web
  <2> QED
    BY <2>1, <2>2, <2>3 DEF LoopInv
<1>4. CASE QueuedAll
  <2>1. TypeOK'
    BY <1>4 DEF QueuedAll
  <2>2. LocksHeld' /\ DeletesCounted' /\ AtHand'
    BY <1>4 DEF QueuedAll, LocksHeld, DeletesCounted, AtHand
  <2>3. PollsCounted' /\ PoolCovers'
    BY <1>4 DEF QueuedAll, PollsCounted, PoolCovers, BusyThreads
  <2> HIDE LoopAssumption DEF LoopAssumption, TypeOK, LoopInv, Says, loop, live, locks,
        polls, extraction, deletes, web
  <2> QED
    BY <2>1, <2>2, <2>3 DEF LoopInv
<1> HIDE LoopAssumption DEF LoopAssumption, TypeOK, LoopInv, Says, loop, live, locks,
      polls, extraction, deletes, web
<1> QED
  BY <1>1, <1>2, <1>3, <1>4

\* An item that is looked at for extraction.
LEMMA JobKeeps ==
  ASSUME LoopInv, NEW j \in Jobs,
         SkipJob(j) \/ QueueJob(j)
  PROVE  LoopInv'
<1> USE LoopAssumption DEF LoopAssumption, LoopInv, TypeOK, Says, loop, live, locks,
      polls, extraction, deletes, web
<1>1. CASE SkipJob(j)
  <2>1. TypeOK'
    BY <1>1 DEF SkipJob
  <2>2. LocksHeld' /\ DeletesCounted' /\ AtHand'
    BY <1>1 DEF SkipJob, LocksHeld, DeletesCounted, AtHand
  <2>3. PollsCounted' /\ PoolCovers'
    BY <1>1 DEF SkipJob, PollsCounted, PoolCovers, BusyThreads
  <2> HIDE LoopAssumption DEF LoopAssumption, TypeOK, LoopInv, Says, loop, live, locks,
        polls, extraction, deletes, web
  <2> QED
    BY <2>1, <2>2, <2>3 DEF LoopInv
<1>2. CASE QueueJob(j)
  <2>1. TypeOK'
    BY <1>2 DEF QueueJob, Status
  <2>2. LocksHeld' /\ DeletesCounted' /\ AtHand'
    BY <1>2 DEF QueueJob, Status, LocksHeld, DeletesCounted, AtHand
  <2>3. PollsCounted' /\ PoolCovers'
    BY <1>2 DEF QueueJob, Status, PollsCounted, PoolCovers, BusyThreads
  <2> HIDE LoopAssumption DEF LoopAssumption, TypeOK, LoopInv, Says, loop, live, locks,
        polls, extraction, deletes, web
  <2> QED
    BY <2>1, <2>2, <2>3 DEF LoopInv
<1> HIDE LoopAssumption DEF LoopAssumption, TypeOK, LoopInv, Says, loop, live, locks,
      polls, extraction, deletes, web
<1> QED
  BY <1>1, <1>2

\* xtractr's workers.
LEMMA EngineKeeps ==
  ASSUME LoopInv, NEW e \in Engines,
         Start(e) \/ SayStarted(e) \/ Finish(e) \/ Report(e) \/ SayDone(e) \/ TakeProgress(e)
  PROVE  LoopInv'
<1> USE LoopAssumption DEF LoopAssumption, LoopInv, TypeOK, Says, loop, live, locks,
      polls, extraction, deletes, web
<1>1. CASE Start(e)
  <2>1. TypeOK'
    BY <1>1 DEF Start
  <2>2. LocksHeld' /\ DeletesCounted' /\ AtHand'
    BY <1>1 DEF Start, LocksHeld, DeletesCounted, AtHand
  <2>3. PollsCounted' /\ PoolCovers'
    BY <1>1 DEF Start, PollsCounted, PoolCovers, BusyThreads
  <2> HIDE LoopAssumption DEF LoopAssumption, TypeOK, LoopInv, Says, loop, live, locks,
        polls, extraction, deletes, web
  <2> QED
    BY <2>1, <2>2, <2>3 DEF LoopInv
<1>2. CASE SayStarted(e)
  <2>1. engine[e].job \in Jobs /\ engine' \in [Engines -> EngineState]
    BY <1>2, EngineMoves DEF SayStarted
  <2>2. TypeOK'
    BY <1>2, <2>1 DEF SayStarted, Say, EngineState
  <2>3. LocksHeld' /\ DeletesCounted' /\ AtHand'
    BY <1>2 DEF SayStarted, Say, LocksHeld, DeletesCounted, AtHand
  <2>4. PollsCounted' /\ PoolCovers'
    BY <1>2 DEF SayStarted, Say, PollsCounted, PoolCovers, BusyThreads
  <2> HIDE LoopAssumption DEF LoopAssumption, TypeOK, LoopInv, Says, loop, live, locks,
        polls, extraction, deletes, web
  <2> QED
    BY <2>2, <2>3, <2>4 DEF LoopInv
<1>3. CASE Finish(e)
  <2>1. engine' \in [Engines -> EngineState]
    BY <1>3, EngineMoves DEF Finish
  <2>2. TypeOK'
    BY <1>3, <2>1 DEF Finish, EngineState
  <2>3. LocksHeld' /\ DeletesCounted' /\ AtHand'
    BY <1>3 DEF Finish, LocksHeld, DeletesCounted, AtHand
  <2>4. PollsCounted' /\ PoolCovers'
    BY <1>3 DEF Finish, PollsCounted, PoolCovers, BusyThreads
  <2> HIDE LoopAssumption DEF LoopAssumption, TypeOK, LoopInv, Says, loop, live, locks,
        polls, extraction, deletes, web
  <2> QED
    BY <2>2, <2>3, <2>4 DEF LoopInv
<1>4. CASE Report(e)
  <2>1. engine' \in [Engines -> EngineState]
    BY <1>4, EngineMoves DEF Report
  <2>2. TypeOK'
    BY <1>4, <2>1 DEF Report, EngineState
  <2>3. LocksHeld' /\ DeletesCounted' /\ AtHand'
    BY <1>4 DEF Report, LocksHeld, DeletesCounted, AtHand
  <2>4. PollsCounted' /\ PoolCovers'
    BY <1>4 DEF Report, PollsCounted, PoolCovers, BusyThreads
  <2> HIDE LoopAssumption DEF LoopAssumption, TypeOK, LoopInv, Says, loop, live, locks,
        polls, extraction, deletes, web
  <2> QED
    BY <2>2, <2>3, <2>4 DEF LoopInv
<1>5. CASE SayDone(e)
  <2>1. engine[e].job \in Jobs
    BY <1>5, EngineMoves DEF SayDone
  <2>2. TypeOK'
    BY <1>5, <2>1 DEF SayDone, Say, Idle
  <2>3. LocksHeld' /\ DeletesCounted' /\ AtHand'
    BY <1>5 DEF SayDone, Say, Idle, LocksHeld, DeletesCounted, AtHand
  <2>4. PollsCounted' /\ PoolCovers'
    BY <1>5 DEF SayDone, Say, Idle, PollsCounted, PoolCovers, BusyThreads
  <2> HIDE LoopAssumption DEF LoopAssumption, TypeOK, LoopInv, Says, loop, live, locks,
        polls, extraction, deletes, web
  <2> QED
    BY <2>2, <2>3, <2>4 DEF LoopInv
<1>6. CASE TakeProgress(e)
  <2>1. TypeOK'
    BY <1>6 DEF TakeProgress, Says
  <2>2. LocksHeld' /\ DeletesCounted' /\ AtHand'
    BY <1>6 DEF TakeProgress, Says, LocksHeld, DeletesCounted, AtHand
  <2>3. PollsCounted' /\ PoolCovers'
    BY <1>6 DEF TakeProgress, Says, PollsCounted, PoolCovers, BusyThreads
  <2> HIDE LoopAssumption DEF LoopAssumption, TypeOK, LoopInv, Says, loop, live, locks,
        polls, extraction, deletes, web
  <2> QED
    BY <2>1, <2>2, <2>3 DEF LoopInv
<1> HIDE LoopAssumption DEF LoopAssumption, TypeOK, LoopInv, Says, loop, live, locks,
      polls, extraction, deletes, web
<1> QED
  BY <1>1, <1>2, <1>3, <1>4, <1>5, <1>6

\* What the loop makes of what they say.
LEMMA SaidKeeps ==
  ASSUME LoopInv,
         TakeUpdate \/ HandleUpdate
  PROVE  LoopInv'
<1> USE LoopAssumption DEF LoopAssumption, LoopInv, TypeOK, Says, loop, live, locks,
      polls, extraction, deletes, web
<1>1. CASE TakeUpdate
  <2>1. /\ updates \in Seq([job : Jobs, done : BOOLEAN]) /\ updates # <<>>
        /\ Len(updates) <= UpdateBuf /\ UpdateBuf \in Nat
    BY <1>1 DEF TakeUpdate
  <2>2. Head(updates) \in [job : Jobs, done : BOOLEAN] /\ Tail(updates) \in Seq([job : Jobs, done : BOOLEAN])
        /\ Len(Tail(updates)) <= UpdateBuf
    <3> HIDE LoopAssumption DEF LoopAssumption, TypeOK, LoopInv, Says, loop, live, locks,
          polls, extraction, deletes, web
    <3>1. /\ Head(updates) \in [job : Jobs, done : BOOLEAN]
          /\ Tail(updates) \in Seq([job : Jobs, done : BOOLEAN]) /\ Len(updates) \in Nat \ {0}
          /\ Len(Tail(updates)) = Len(updates) - 1
      BY <2>1, Taken, Zenon
    <3> QED
      BY <2>1, <3>1
  <2>3. job' \in Jobs /\ at' \in {"started", "done"}
    BY <1>1, <2>2 DEF TakeUpdate
  <2>4. TypeOK'
    BY <1>1, <2>2, <2>3 DEF TakeUpdate, Says
  <2>5. LocksHeld' /\ DeletesCounted' /\ AtHand'
    BY <1>1, <2>3 DEF TakeUpdate, Says, LocksHeld, DeletesCounted, AtHand
  <2>6. PollsCounted' /\ PoolCovers'
    BY <1>1 DEF TakeUpdate, Says, PollsCounted, PoolCovers, BusyThreads
  <2> HIDE LoopAssumption DEF LoopAssumption, TypeOK, LoopInv, Says, loop, live, locks,
        polls, extraction, deletes, web
  <2> QED
    BY <2>4, <2>5, <2>6 DEF LoopInv
<1>2. CASE HandleUpdate
  <2>1. \A x \in DOMAIN Says : Says[x] \subseteq Status
    BY DEF Says, Status
  <2>2. job \in Jobs
    BY <1>2 DEF HandleUpdate, AtHand
  <2>3. map' \in [Jobs -> Status]
    BY <1>2, <2>1, <2>2 DEF HandleUpdate
  <2>4. TypeOK'
    BY <1>2, <2>3 DEF HandleUpdate
  <2>5. LocksHeld' /\ DeletesCounted' /\ AtHand'
    BY <1>2 DEF HandleUpdate, Says, Status, LocksHeld, DeletesCounted, AtHand
  <2>6. PollsCounted' /\ PoolCovers'
    BY <1>2 DEF HandleUpdate, Says, Status, PollsCounted, PoolCovers, BusyThreads
  <2> HIDE LoopAssumption DEF LoopAssumption, TypeOK, LoopInv, Says, loop, live, locks,
        polls, extraction, deletes, web
  <2> QED
    BY <2>4, <2>5, <2>6 DEF LoopInv
<1> HIDE LoopAssumption DEF LoopAssumption, TypeOK, LoopInv, Says, loop, live, locks,
      polls, extraction, deletes, web
<1> QED
  BY <1>1, <1>2

\* The cleaner tick.
LEMMA CleanKeeps ==
  ASSUME LoopInv,
         CleanTick \/ Clean \/ Cleaned \/ NoRestart
  PROVE  LoopInv'
<1> USE LoopAssumption DEF LoopAssumption, LoopInv, TypeOK, Says, loop, live, locks,
      polls, extraction, deletes, web
<1>1. CASE CleanTick
  <2>1. TypeOK'
    BY <1>1 DEF CleanTick
  <2>2. LocksHeld' /\ DeletesCounted' /\ AtHand'
    BY <1>1 DEF CleanTick, LocksHeld, DeletesCounted, AtHand
  <2>3. PollsCounted' /\ PoolCovers'
    BY <1>1 DEF CleanTick, PollsCounted, PoolCovers, BusyThreads
  <2> HIDE LoopAssumption DEF LoopAssumption, TypeOK, LoopInv, Says, loop, live, locks,
        polls, extraction, deletes, web
  <2> QED
    BY <2>1, <2>2, <2>3 DEF LoopInv
<1>2. CASE Clean
  <2>1. TypeOK'
    BY <1>2 DEF Clean, Moves, Cleans, Stay, Status
  <2>2. LocksHeld' /\ DeletesCounted' /\ AtHand'
    BY <1>2 DEF Clean, Moves, Cleans, Stay, Status, LocksHeld, DeletesCounted, AtHand
  <2>3. PollsCounted' /\ PoolCovers'
    BY <1>2 DEF Clean, Moves, Cleans, Stay, Status, PollsCounted, PoolCovers, BusyThreads
  <2> HIDE LoopAssumption DEF LoopAssumption, TypeOK, LoopInv, Says, loop, live, locks,
        polls, extraction, deletes, web
  <2> QED
    BY <2>1, <2>2, <2>3 DEF LoopInv
<1>3. CASE Cleaned
  <2>1. TypeOK'
    BY <1>3 DEF Cleaned
  <2>2. LocksHeld' /\ DeletesCounted' /\ AtHand'
    BY <1>3 DEF Cleaned, LocksHeld, DeletesCounted, AtHand
  <2>3. PollsCounted' /\ PoolCovers'
    BY <1>3 DEF Cleaned, PollsCounted, PoolCovers, BusyThreads
  <2> HIDE LoopAssumption DEF LoopAssumption, TypeOK, LoopInv, Says, loop, live, locks,
        polls, extraction, deletes, web
  <2> QED
    BY <2>1, <2>2, <2>3 DEF LoopInv
<1>4. CASE NoRestart
  <2>1. TypeOK'
    BY <1>4 DEF NoRestart
  <2>2. LocksHeld' /\ DeletesCounted' /\ AtHand'
    BY <1>4 DEF NoRestart, LocksHeld, DeletesCounted, AtHand
  <2>3. PollsCounted' /\ PoolCovers'
    BY <1>4 DEF NoRestart, PollsCounted, PoolCovers, BusyThreads
  <2> HIDE LoopAssumption DEF LoopAssumption, TypeOK, LoopInv, Says, loop, live, locks,
        polls, extraction, deletes, web
  <2> QED
    BY <2>1, <2>2, <2>3 DEF LoopInv
<1> HIDE LoopAssumption DEF LoopAssumption, TypeOK, LoopInv, Says, loop, live, locks,
      polls, extraction, deletes, web
<1> QED
  BY <1>1, <1>2, <1>3, <1>4

\* A delete for the worker.
LEMMA QueueDeleteKeeps ==
  ASSUME LoopInv, NEW j \in Jobs,
         QueueDelete(j)
  PROVE  LoopInv'
<1> USE LoopAssumption DEF LoopAssumption, LoopInv, TypeOK, Says, loop, live, locks,
      polls, extraction, deletes, web
<1>1. CASE QueueDelete(j)
  <2>1. TypeOK'
    BY <1>1 DEF QueueDelete, Status
  <2>2. LocksHeld' /\ DeletesCounted' /\ AtHand'
    BY <1>1 DEF QueueDelete, Status, LocksHeld, DeletesCounted, AtHand
  <2>3. PollsCounted' /\ PoolCovers'
    BY <1>1 DEF QueueDelete, Status, PollsCounted, PoolCovers, BusyThreads
  <2> HIDE LoopAssumption DEF LoopAssumption, TypeOK, LoopInv, Says, loop, live, locks,
        polls, extraction, deletes, web
  <2> QED
    BY <2>1, <2>2, <2>3 DEF LoopInv
<1> HIDE LoopAssumption DEF LoopAssumption, TypeOK, LoopInv, Says, loop, live, locks,
      polls, extraction, deletes, web
<1> QED
  BY <1>1

\* The worker that deletes.
LEMMA DeleterKeeps ==
  ASSUME LoopInv,
         TakeDelete \/ DeleteRequest
  PROVE  LoopInv'
<1> USE LoopAssumption DEF LoopAssumption, LoopInv, TypeOK, Says, loop, live, locks,
      polls, extraction, deletes, web
<1>1. CASE TakeDelete
  <2>1. TypeOK'
    BY <1>1 DEF TakeDelete
  <2>2. LocksHeld' /\ DeletesCounted' /\ AtHand'
    BY <1>1 DEF TakeDelete, LocksHeld, DeletesCounted, AtHand
  <2>3. PollsCounted' /\ PoolCovers'
    BY <1>1 DEF TakeDelete, PollsCounted, PoolCovers, BusyThreads
  <2> HIDE LoopAssumption DEF LoopAssumption, TypeOK, LoopInv, Says, loop, live, locks,
        polls, extraction, deletes, web
  <2> QED
    BY <2>1, <2>2, <2>3 DEF LoopInv
<1>2. CASE DeleteRequest
  <2>1. TypeOK'
    BY <1>2 DEF DeleteRequest, DeletesCounted
  <2>2. LocksHeld' /\ DeletesCounted' /\ AtHand'
    BY <1>2 DEF DeleteRequest, LocksHeld, DeletesCounted, AtHand
  <2>3. PollsCounted' /\ PoolCovers'
    BY <1>2 DEF DeleteRequest, PollsCounted, PoolCovers, BusyThreads
  <2> HIDE LoopAssumption DEF LoopAssumption, TypeOK, LoopInv, Says, loop, live, locks,
        polls, extraction, deletes, web
  <2> QED
    BY <2>1, <2>2, <2>3 DEF LoopInv
<1> HIDE LoopAssumption DEF LoopAssumption, TypeOK, LoopInv, Says, loop, live, locks,
      polls, extraction, deletes, web
<1> QED
  BY <1>1, <1>2

\* A restart, and the start of the next process.
LEMMA RestartKeeps ==
  ASSUME LoopInv,
         Exec \/ StartRun
  PROVE  LoopInv'
<1> USE LoopAssumption DEF LoopAssumption, LoopInv, TypeOK, Says, loop, live, locks,
      polls, extraction, deletes, web
<1>1. CASE Exec
  <2>1. Idle \in EngineState
    BY DEF Idle, EngineState
  <2>2. /\ engine' \in [Engines -> EngineState] /\ map' \in [Jobs -> Status]
        /\ poll' \in [Threads -> Apps \cup {None}]
    BY <1>1, <2>1 DEF Exec, Status
  <2>3. updates' = <<>> /\ queue' = <<>> /\ work' = <<>> /\ dels' = <<>> /\ tasks' = <<>> /\ results' = {}
        /\ doors' \in [Requests -> {"away", "waiting"}]
    BY <1>1 DEF Exec
  <2>4. /\ inFlight' = 0 /\ wg' = 0 /\ deleter' = None /\ threads' = {} /\ at' = "starting"
        /\ pending' = FALSE /\ cfgMu' = Free
        /\ UNCHANGED <<left, job, task, apps, mu>>
    BY <1>1 DEF Exec
  <2>5. TypeOK'
    <3>1. engine' \in [Engines -> [at : {"idle", "starting", "extracting", "reporting", "finishing"},
                                  job : Jobs \cup {None}]]
      BY <2>2 DEF EngineState
    <3>2. /\ work' \in Seq(Apps) /\ Len(work') <= 1 /\ queue' \in Seq(Jobs) /\ Len(queue') <= QueueBuf
          /\ updates' \in Seq([job : Jobs, done : BOOLEAN]) /\ Len(updates') <= UpdateBuf
          /\ dels' \in Seq(Jobs) /\ Len(dels') <= DelBuf /\ tasks' \in Seq(Requests) /\ Len(tasks') <= TaskBuf
      BY <2>3, EmptySeq
    <3>3. results' \in SUBSET Requests /\ threads' \in SUBSET Threads /\ inFlight' \in Nat /\ wg' \in Nat
      BY <2>3, <2>4
    <3>4. /\ at' = "starting" /\ pending' \in BOOLEAN /\ cfgMu' \in Readers \cup {Free, Loop}
          /\ deleter' \in Jobs \cup {None}
      BY <2>4
    <3>5. UNCHANGED <<left, job, task, apps, mu>>
      BY <2>4
    <3> HIDE LoopAssumption DEF LoopAssumption, LoopInv
    <3> QED
      BY LoopInv, <3>1, <3>2, <3>3, <3>4, <3>5, <2>2, <2>3 DEF LoopInv
  <2>6. LocksHeld' /\ DeletesCounted' /\ AtHand'
    BY <1>1 DEF Exec, Idle, Status, LocksHeld, DeletesCounted, AtHand
  <2>7. PollsCounted' /\ PoolCovers'
    BY <1>1 DEF Exec, Idle, Status, PollsCounted, PoolCovers, BusyThreads
  <2> HIDE LoopAssumption DEF LoopAssumption, TypeOK, LoopInv, Says, loop, live, locks,
        polls, extraction, deletes, web
  <2> QED
    BY <2>5, <2>6, <2>7 DEF LoopInv
<1>2. CASE StartRun
  <2>1. threads' \in SUBSET Threads /\ Cardinality(apps) <= Cardinality(threads')
    BY <1>2, Counts, GrownCovers DEF StartRun
  <2>2. /\ BusyThreads' = BusyThreads /\ Cardinality({}) = 0 /\ Cardinality(apps) \in Nat
        /\ Cardinality(BusyThreads) \in Nat
    BY <1>2, Counts, FS_EmptySet DEF StartRun, BusyThreads
  <2>3. work = <<>> /\ BusyThreads = {}
    BY <1>2 DEF StartRun, PollsCounted
  <2>4. left' = apps /\ wg' = Cardinality(apps) /\ at' = "polling" /\ work' = work /\ apps' = apps
    BY <1>2 DEF StartRun
  <2>5. /\ left' \subseteq apps'
        /\ wg' = Cardinality(left') + Len(work') + Cardinality(BusyThreads')
        /\ wg' <= Cardinality(apps')
    <3> HIDE LoopAssumption DEF LoopAssumption, TypeOK, LoopInv, Says, loop, live, locks,
          polls, extraction, deletes, web
    <3> QED
      BY <2>2, <2>3, <2>4
  <2>6. TypeOK'
    BY <1>2, <2>1, Counts DEF StartRun, Moves
  <2>7. LocksHeld' /\ DeletesCounted' /\ AtHand'
    BY <1>2 DEF StartRun, Moves, Restored, Stay, Status, LocksHeld, DeletesCounted, AtHand
  <2>8. PollsCounted' /\ PoolCovers'
    BY <1>2, <2>1, <2>2, <2>3, <2>4, <2>5 DEF StartRun, PollsCounted, PoolCovers
  <2> HIDE LoopAssumption DEF LoopAssumption, TypeOK, LoopInv, Says, loop, live, locks,
        polls, extraction, deletes, web
  <2> QED
    BY <2>6, <2>7, <2>8 DEF LoopInv
<1> HIDE LoopAssumption DEF LoopAssumption, TypeOK, LoopInv, Says, loop, live, locks,
      polls, extraction, deletes, web
<1> QED
  BY <1>1, <1>2

\* HTTP handlers.
LEMMA HandlerKeeps ==
  ASSUME LoopInv, NEW r \in Requests,
         Send(r) \/ Hear(r) \/ GiveUp(r)
  PROVE  LoopInv'
<1> USE LoopAssumption DEF LoopAssumption, LoopInv, TypeOK, Says, loop, live, locks,
      polls, extraction, deletes, web
<1>1. CASE Send(r)
  <2>1. TypeOK'
    BY <1>1 DEF Send
  <2>2. LocksHeld' /\ DeletesCounted' /\ AtHand'
    BY <1>1 DEF Send, LocksHeld, DeletesCounted, AtHand
  <2>3. PollsCounted' /\ PoolCovers'
    BY <1>1 DEF Send, PollsCounted, PoolCovers, BusyThreads
  <2> HIDE LoopAssumption DEF LoopAssumption, TypeOK, LoopInv, Says, loop, live, locks,
        polls, extraction, deletes, web
  <2> QED
    BY <2>1, <2>2, <2>3 DEF LoopInv
<1>2. CASE Hear(r)
  <2>1. TypeOK'
    BY <1>2 DEF Hear
  <2>2. LocksHeld' /\ DeletesCounted' /\ AtHand'
    BY <1>2 DEF Hear, LocksHeld, DeletesCounted, AtHand
  <2>3. PollsCounted' /\ PoolCovers'
    BY <1>2 DEF Hear, PollsCounted, PoolCovers, BusyThreads
  <2> HIDE LoopAssumption DEF LoopAssumption, TypeOK, LoopInv, Says, loop, live, locks,
        polls, extraction, deletes, web
  <2> QED
    BY <2>1, <2>2, <2>3 DEF LoopInv
<1>3. CASE GiveUp(r)
  <2>1. TypeOK'
    BY <1>3 DEF GiveUp
  <2>2. LocksHeld' /\ DeletesCounted' /\ AtHand'
    BY <1>3 DEF GiveUp, LocksHeld, DeletesCounted, AtHand
  <2>3. PollsCounted' /\ PoolCovers'
    BY <1>3 DEF GiveUp, PollsCounted, PoolCovers, BusyThreads
  <2> HIDE LoopAssumption DEF LoopAssumption, TypeOK, LoopInv, Says, loop, live, locks,
        polls, extraction, deletes, web
  <2> QED
    BY <2>1, <2>2, <2>3 DEF LoopInv
<1> HIDE LoopAssumption DEF LoopAssumption, TypeOK, LoopInv, Says, loop, live, locks,
      polls, extraction, deletes, web
<1> QED
  BY <1>1, <1>2, <1>3

\* Tasks in the loop.
LEMMA TaskKeeps ==
  ASSUME LoopInv,
         TakeTask \/ Act \/ Commit \/ CommitFails \/ ApplyList \/ ApplySection \/ ApplyGeneral \/ Restamp
  PROVE  LoopInv'
<1> USE LoopAssumption DEF LoopAssumption, LoopInv, TypeOK, Says, loop, live, locks,
      polls, extraction, deletes, web
<1>1. CASE TakeTask
  <2>1. TypeOK'
    BY <1>1 DEF TakeTask
  <2>2. LocksHeld' /\ DeletesCounted' /\ AtHand'
    BY <1>1 DEF TakeTask, LocksHeld, DeletesCounted, AtHand
  <2>3. PollsCounted' /\ PoolCovers'
    BY <1>1 DEF TakeTask, PollsCounted, PoolCovers, BusyThreads
  <2> HIDE LoopAssumption DEF LoopAssumption, TypeOK, LoopInv, Says, loop, live, locks,
        polls, extraction, deletes, web
  <2> QED
    BY <2>1, <2>2, <2>3 DEF LoopInv
<1>2. CASE Act
  <2>1. TypeOK'
    BY <1>2 DEF Act, Answer, AtHand, Status
  <2>2. LocksHeld' /\ DeletesCounted' /\ AtHand'
    BY <1>2 DEF Act, Answer, Status, LocksHeld, DeletesCounted, AtHand
  <2>3. PollsCounted' /\ PoolCovers'
    BY <1>2 DEF Act, Answer, Status, PollsCounted, PoolCovers, BusyThreads
  <2> HIDE LoopAssumption DEF LoopAssumption, TypeOK, LoopInv, Says, loop, live, locks,
        polls, extraction, deletes, web
  <2> QED
    BY <2>1, <2>2, <2>3 DEF LoopInv
<1>3. CASE Commit
  <2>1. TypeOK'
    BY <1>3 DEF Commit
  <2>2. LocksHeld' /\ DeletesCounted' /\ AtHand'
    BY <1>3 DEF Commit, LocksHeld, DeletesCounted, AtHand
  <2>3. PollsCounted' /\ PoolCovers'
    BY <1>3 DEF Commit, PollsCounted, PoolCovers, BusyThreads
  <2> HIDE LoopAssumption DEF LoopAssumption, TypeOK, LoopInv, Says, loop, live, locks,
        polls, extraction, deletes, web
  <2> QED
    BY <2>1, <2>2, <2>3 DEF LoopInv
<1>4. CASE CommitFails
  <2>1. TypeOK'
    BY <1>4 DEF CommitFails, Answer, AtHand
  <2>2. LocksHeld' /\ DeletesCounted' /\ AtHand'
    BY <1>4 DEF CommitFails, Answer, LocksHeld, DeletesCounted, AtHand
  <2>3. PollsCounted' /\ PoolCovers'
    BY <1>4 DEF CommitFails, Answer, PollsCounted, PoolCovers, BusyThreads
  <2> HIDE LoopAssumption DEF LoopAssumption, TypeOK, LoopInv, Says, loop, live, locks,
        polls, extraction, deletes, web
  <2> QED
    BY <2>1, <2>2, <2>3 DEF LoopInv
<1>5. CASE ApplyList
  <2>1. apps' \in SUBSET Apps /\ IsFiniteSet(apps') /\ Cardinality(apps') \in Nat
    BY <1>5, FS_Subset, FS_CardinalityType DEF ApplyList
  <2>2. /\ threads' \in SUBSET Threads /\ threads \subseteq threads'
        /\ Cardinality(apps') <= Cardinality(threads')
    BY <1>5, <2>1, GrownCovers DEF ApplyList
  <2>3. TypeOK'
    BY <1>5, <2>1, <2>2 DEF ApplyList, Answer, AtHand
  <2>4. LocksHeld' /\ DeletesCounted' /\ AtHand'
    BY <1>5 DEF ApplyList, Answer, LocksHeld, DeletesCounted, AtHand
  <2>5. PollsCounted' /\ PoolCovers'
    BY <1>5, <2>1, <2>2 DEF ApplyList, Answer, PollsCounted, PoolCovers, BusyThreads
  <2> HIDE LoopAssumption DEF LoopAssumption, TypeOK, LoopInv, Says, loop, live, locks,
        polls, extraction, deletes, web
  <2> QED
    BY <2>3, <2>4, <2>5 DEF LoopInv
<1>6. CASE ApplySection
  <2>1. TypeOK'
    BY <1>6 DEF ApplySection, Answer, AtHand
  <2>2. LocksHeld' /\ DeletesCounted' /\ AtHand'
    BY <1>6 DEF ApplySection, Answer, LocksHeld, DeletesCounted, AtHand
  <2>3. PollsCounted' /\ PoolCovers'
    BY <1>6 DEF ApplySection, Answer, PollsCounted, PoolCovers, BusyThreads
  <2> HIDE LoopAssumption DEF LoopAssumption, TypeOK, LoopInv, Says, loop, live, locks,
        polls, extraction, deletes, web
  <2> QED
    BY <2>1, <2>2, <2>3 DEF LoopInv
<1>7. CASE ApplyGeneral
  <2>1. TypeOK'
    BY <1>7 DEF ApplyGeneral
  <2>2. LocksHeld' /\ DeletesCounted' /\ AtHand'
    BY <1>7 DEF ApplyGeneral, LocksHeld, DeletesCounted, AtHand
  <2>3. PollsCounted' /\ PoolCovers'
    BY <1>7 DEF ApplyGeneral, PollsCounted, PoolCovers, BusyThreads
  <2> HIDE LoopAssumption DEF LoopAssumption, TypeOK, LoopInv, Says, loop, live, locks,
        polls, extraction, deletes, web
  <2> QED
    BY <2>1, <2>2, <2>3 DEF LoopInv
<1>8. CASE Restamp
  <2>1. TypeOK'
    BY <1>8 DEF Restamp, Answer, AtHand, Moves
  <2>2. LocksHeld' /\ DeletesCounted' /\ AtHand'
    BY <1>8 DEF Restamp, Answer, Moves, Restored, Stay, Status, LocksHeld, DeletesCounted, AtHand
  <2>3. PollsCounted' /\ PoolCovers'
    BY <1>8 DEF Restamp, Answer, Moves, Restored, Stay, Status, PollsCounted, PoolCovers, BusyThreads
  <2> HIDE LoopAssumption DEF LoopAssumption, TypeOK, LoopInv, Says, loop, live, locks,
        polls, extraction, deletes, web
  <2> QED
    BY <2>1, <2>2, <2>3 DEF LoopInv
<1> HIDE LoopAssumption DEF LoopAssumption, TypeOK, LoopInv, Says, loop, live, locks,
      polls, extraction, deletes, web
<1> QED
  BY <1>1, <1>2, <1>3, <1>4, <1>5, <1>6, <1>7, <1>8

\* Readers.
LEMMA ReaderKeeps ==
  ASSUME LoopInv, NEW r \in Readers,
         ReadLock(r) \/ ReadConfig(r) \/ ReadDone(r)
  PROVE  LoopInv'
<1> USE LoopAssumption DEF LoopAssumption, LoopInv, TypeOK, Says, loop, live, locks,
      polls, extraction, deletes, web
<1>1. CASE ReadLock(r)
  <2>1. TypeOK'
    BY <1>1 DEF ReadLock
  <2>2. LocksHeld' /\ DeletesCounted' /\ AtHand'
    BY <1>1 DEF ReadLock, LocksHeld, DeletesCounted, AtHand
  <2>3. PollsCounted' /\ PoolCovers'
    BY <1>1 DEF ReadLock, PollsCounted, PoolCovers, BusyThreads
  <2> HIDE LoopAssumption DEF LoopAssumption, TypeOK, LoopInv, Says, loop, live, locks,
        polls, extraction, deletes, web
  <2> QED
    BY <2>1, <2>2, <2>3 DEF LoopInv
<1>2. CASE ReadConfig(r)
  <2>1. TypeOK'
    BY <1>2 DEF ReadConfig
  <2>2. LocksHeld' /\ DeletesCounted' /\ AtHand'
    BY <1>2 DEF ReadConfig, LocksHeld, DeletesCounted, AtHand
  <2>3. PollsCounted' /\ PoolCovers'
    BY <1>2 DEF ReadConfig, PollsCounted, PoolCovers, BusyThreads
  <2> HIDE LoopAssumption DEF LoopAssumption, TypeOK, LoopInv, Says, loop, live, locks,
        polls, extraction, deletes, web
  <2> QED
    BY <2>1, <2>2, <2>3 DEF LoopInv
<1>3. CASE ReadDone(r)
  <2>1. TypeOK'
    BY <1>3 DEF ReadDone
  <2>2. LocksHeld' /\ DeletesCounted' /\ AtHand'
    BY <1>3 DEF ReadDone, LocksHeld, DeletesCounted, AtHand
  <2>3. PollsCounted' /\ PoolCovers'
    BY <1>3 DEF ReadDone, PollsCounted, PoolCovers, BusyThreads
  <2> HIDE LoopAssumption DEF LoopAssumption, TypeOK, LoopInv, Says, loop, live, locks,
        polls, extraction, deletes, web
  <2> QED
    BY <2>1, <2>2, <2>3 DEF LoopInv
<1> HIDE LoopAssumption DEF LoopAssumption, TypeOK, LoopInv, Says, loop, live, locks,
      polls, extraction, deletes, web
<1> QED
  BY <1>1, <1>2, <1>3

\* The invariant holds at first.
LEMMA InvariantStarts ==
  ASSUME Init
  PROVE  LoopInv
<1>1. /\ BusyThreads = {} /\ Cardinality({}) = 0
      /\ IsFiniteSet(apps) /\ Cardinality(apps) \in Nat
  BY LoopAssumption, FS_EmptySet, FS_Subset, FS_CardinalityType DEF Init, BusyThreads, LoopAssumption
<1>2. /\ work = <<>> /\ queue = <<>> /\ updates = <<>> /\ dels = <<>> /\ tasks = <<>>
      /\ map \in [Jobs -> Status] /\ engine \in [Engines -> EngineState]
      /\ \A e \in Engines : engine[e].at = "idle"
  BY DEF Init, Status, Idle, EngineState
<1>3. /\ work \in Seq(Apps) /\ Len(work) <= 1 /\ queue \in Seq(Jobs) /\ Len(queue) <= QueueBuf
      /\ updates \in Seq([job : Jobs, done : BOOLEAN]) /\ Len(updates) <= UpdateBuf
      /\ dels \in Seq(Jobs) /\ Len(dels) <= DelBuf /\ tasks \in Seq(Requests) /\ Len(tasks) <= TaskBuf
  BY <1>2, LoopAssumption DEF LoopAssumption
<1>4. TypeOK
  BY <1>2, <1>3 DEF Init, TypeOK, EngineState
<1>5. LocksHeld /\ DeletesCounted /\ AtHand
  BY <1>2, LoopAssumption DEF Init, LocksHeld, DeletesCounted, AtHand, LoopAssumption, Says
<1>6. PollsCounted /\ PoolCovers
  BY <1>1, <1>2 DEF Init, PollsCounted, PoolCovers
<1> QED
  BY <1>4, <1>5, <1>6 DEF LoopInv

\* Every step, of the loop or of another goroutine, keeps the invariant.
LEMMA InvariantKept ==
  ASSUME LoopInv, [Next]_vars
  PROVE  LoopInv'
<1>1. CASE LoopStep
  BY <1>1, PollKeeps, EnqueueKeeps, ExtractKeeps, JobKeeps, EngineKeeps, SaidKeeps, CleanKeeps,
     QueueDeleteKeeps, RestartKeeps, TaskKeeps DEF LoopStep, CaseStep
<1>2. CASE \E t \in threads : PollerStep(t)
  BY <1>2, PollerKeeps DEF PollerStep
<1>3. CASE \E e \in Engines : EngineStep(e)
  BY <1>3, EngineKeeps DEF EngineStep
<1>4. CASE DeleterStep
  BY <1>4, DeleterKeeps DEF DeleterStep
<1>5. CASE \E r \in Requests : HandlerStep(r)
  BY <1>5, HandlerKeeps DEF HandlerStep
<1>6. CASE \E r \in Readers : ReaderStep(r)
  BY <1>6, ReaderKeeps DEF ReaderStep
<1>7. CASE UNCHANGED vars
  BY <1>7 DEF vars, loop, live, locks, polls, extraction, deletes, web, LoopInv, TypeOK, LocksHeld,
     PollsCounted, PoolCovers, DeletesCounted, AtHand, BusyThreads
<1> QED
  BY <1>1, <1>2, <1>3, <1>4, <1>5, <1>6, <1>7 DEF Next

-----------------------------------------------------------------------------
(* The theorems.                                                           *)

\* The invariant holds in every state.
THEOREM Invariant == Spec => []LoopInv
<1>1. Init => LoopInv
  BY InvariantStarts
<1>2. LoopInv /\ [Next]_vars => LoopInv'
  BY InvariantKept
<1> QED
  BY <1>1, <1>2, PTL DEF Spec

\* Every variable keeps its type.
THEOREM TypeCorrect == Spec => []TypeOK
<1>1. LoopInv => TypeOK
  BY DEF LoopInv
<1> QED
  BY <1>1, Invariant, PTL

\* Why a poll that is handed over finds a worker that is free (ensureWorkThreads):
\* the polls in the channel and the busy workers together are no more than the
\* instances, and there is a worker for each instance.
LEMMA FreeWorker ==
  ASSUME LoopInv
  PROVE  PollsTogether
<1> DEFINE F == {t \in threads : poll[t] = None}
<1>1. TypeOK /\ PollsCounted /\ PoolCovers
  BY DEF LoopInv
<1>2. CASE at # "polling"
  <2>1. work = <<>>
    BY <1>1, <1>2 DEF PollsCounted
  <2>2. IsFiniteSet(F)
    BY <1>1, Counts, FS_Subset
  <2>3. Cardinality(F) \in Nat /\ Len(work) = 0
    BY <2>1, <2>2, FS_CardinalityType
  <2> QED
    BY <2>3 DEF PollsTogether
<1>3. CASE at = "polling"
  <2>1. F = threads \ BusyThreads /\ BusyThreads \subseteq threads
    BY <1>1 DEF PollsCounted, BusyThreads, TypeOK
  <2>2. Cardinality(F) = Cardinality(threads) - Cardinality(BusyThreads)
    <3>1. IsFiniteSet(threads) /\ BusyThreads \cap threads = BusyThreads
      BY <1>1, <2>1, Counts
    <3>2. Cardinality(threads \ BusyThreads) = Cardinality(threads) - Cardinality(threads \cap BusyThreads)
      BY <3>1, Zenon, FS_Difference
    <3>3. threads \cap BusyThreads = BusyThreads
      BY <3>1
    <3> QED
      BY <2>1, <3>2, <3>3
  <2>3. /\ wg = Cardinality(left) + Len(work) + Cardinality(BusyThreads) /\ wg <= Cardinality(apps)
        /\ Cardinality(apps) <= Cardinality(threads) /\ left \subseteq apps
    BY <1>1, <1>3 DEF PollsCounted, PoolCovers
  <2>4. /\ Cardinality(left) \in Nat /\ Cardinality(BusyThreads) \in Nat /\ Cardinality(apps) \in Nat
        /\ Cardinality(threads) \in Nat
    BY <1>1, <2>3, Counts
  <2>5. Len(work) \in Nat
    BY <1>1 DEF TypeOK
  <2>6. Len(work) <= Cardinality(F)
    <3> HIDE DEF F
    <3> QED
      BY <2>2, <2>3, <2>4, <2>5
  <2> QED
    BY <2>6 DEF PollsTogether
<1> QED
  BY <1>2, <1>3

\* A poll that is handed over finds a worker that is free, however many instances
\* a PUT added (apps.go:138).
THEOREM PollsFindWorkers == Spec => []PollsTogether
<1>1. LoopInv => PollsTogether
  BY FreeWorker
<1> QED
  BY <1>1, Invariant, PTL

\* Outside of the two cases in which the loop holds a mutex, whoever holds
\* History.mu is a reader, and that one or the reader that holds configMu can go on.
LEMMA HoldersMove ==
  ASSUME TypeOK, LocksHeld, mu # Free, at # "cleaning", at # "committing"
  PROVE  HolderMoves
<1>1. mu \in Readers /\ (cfgMu = Free \/ cfgMu \in Readers)
  BY DEF TypeOK, LocksHeld
<1>2. CASE cfgMu = Free
  BY <1>1, <1>2 DEF HolderMoves
<1>3. CASE cfgMu \in Readers
  BY <1>3 DEF HolderMoves
<1> QED
  BY <1>1, <1>2, <1>3

\* Whatever the loop waits for, somebody it waits for can go on: a poll has a worker
\* that is free or runs, a mutex has a reader.
LEMMA NoRing ==
  ASSUME LoopInv
  PROVE  LoopMoves
<1>1. TypeOK /\ LocksHeld /\ PollsCounted
  BY DEF LoopInv
<1>2. ASSUME WaitsForPolls PROVE PollerMoves \/ HolderMoves
  <2>1. at = "polling"
    BY <1>2 DEF WaitsForPolls
  <2>2. CASE mu # Free
    BY <1>1, <2>1, <2>2, HoldersMove
  <2>3. CASE mu = Free /\ BusyThreads # {}
    <3>1. PICK t \in BusyThreads : TRUE
      BY <2>3
    <3> QED
      BY <1>1, <2>3, <3>1 DEF PollsCounted, BusyThreads, PollerMoves
  <2>4. CASE BusyThreads = {}
    <3>1. work # <<>>
      <4>1. CASE left = {}
        <5>1. wg > 0 /\ wg = Cardinality(left) + Len(work) + Cardinality(BusyThreads)
          BY <1>1, <1>2, <2>1, <4>1 DEF WaitsForPolls, PollsCounted
        <5>2. Cardinality(left) = 0 /\ Cardinality(BusyThreads) = 0
          BY <2>4, <4>1, FS_EmptySet
        <5> QED
          BY <5>1, <5>2
      <4>2. CASE left # {}
        BY <1>2, <4>2 DEF WaitsForPolls
      <4> QED
        BY <4>1, <4>2
    <3>2. Len(work) # 0
      BY <1>1, <3>1 DEF TypeOK
    <3>3. {t \in threads : poll[t] = None} # {}
      <4>1. Len(work) <= Cardinality({t \in threads : poll[t] = None}) /\ Len(work) \in Nat
        BY <1>1, FreeWorker DEF PollsTogether, TypeOK
      <4> QED
        BY <3>2, <4>1, FS_EmptySet
    <3> QED
      BY <3>1, <3>3 DEF PollerMoves
  <2> QED
    BY <2>2, <2>3, <2>4
<1>3. ASSUME WaitsForHistory PROVE HolderMoves
  <2>1. mu # Free /\ at # "cleaning" /\ at # "committing"
    BY <1>3 DEF WaitsForHistory, Says
  <2> QED
    BY <1>1, <2>1, HoldersMove
<1>4. ASSUME WaitsForConfig PROVE HolderMoves
  BY <1>1, <1>4 DEF WaitsForConfig, HolderMoves, TypeOK, LocksHeld
<1>5. ASSUME WaitsForDeletes PROVE deleter # None \/ dels # <<>>
  <2>1. Len(dels) # 0
    BY <1>5, LoopAssumption DEF WaitsForDeletes, LoopAssumption
  <2> QED
    BY <2>1
<1> QED
  BY <1>2, <1>3, <1>4, <1>5, Zenon DEF LoopMoves

\* The loop is never in a ring of waits: History.mu is not taken under configMu,
\* and who publishes a poll waits for nobody who waits for the loop (configput.go:319).
THEOREM NeverStuck == Spec => []LoopMoves
<1>1. LoopInv => LoopMoves
  BY NoRing
<1> QED
  BY <1>1, Invariant, PTL

\* Only a PUT changes the list of instances, and no poll is under way in its case
\* (apps.go:160).
THEOREM ListStays == Spec => ListHolds
<1> DEFINE A == apps' # apps => work = <<>> /\ \A t \in threads : poll[t] = None
<1>1. ASSUME LoopInv, [Next]_vars PROVE A
  <2>1. CASE ApplyList
    BY <1>1, <2>1 DEF ApplyList, LoopInv, PollsCounted, BusyThreads, TypeOK
  <2>2. CASE ~ApplyList
    <3>1. apps' = apps
      <4>1. CASE CaseStep
        BY <2>2, <4>1 DEF CaseStep, EnqueuePoll, CheckQueues, ListJobs, SkipJob, QueueJob, SendJob, QueuedAll,
           HandleUpdate, Clean, QueueDelete, Cleaned, NoRestart, Exec, StartRun, Act, Commit, CommitFails,
           ApplySection, ApplyGeneral, Restamp, live
      <4>2. CASE LoopStep /\ ~CaseStep
        BY <4>2 DEF LoopStep, PollTick, ExtractTick, CleanTick, TakeUpdate, TakeProgress, TakeTask, live
      <4>3. CASE Next /\ ~LoopStep
        BY <4>3 DEF Next, PollerStep, EngineStep, DeleterStep, HandlerStep, ReaderStep, TakePoll, Publish, Start,
           SayStarted, Finish, Report, SayDone, Say, TakeDelete, DeleteRequest, Send, Hear, GiveUp, ReadLock,
           ReadConfig, ReadDone, live
      <4>4. CASE UNCHANGED vars
        BY <4>4 DEF vars, live
      <4> QED
        BY <1>1, <4>1, <4>2, <4>3, <4>4 DEF LoopStep
    <3> QED
      BY <3>1
  <2> QED
    BY <2>1, <2>2
<1>2. LoopInv /\ [Next]_vars => A
  BY <1>1
<1> QED
  BY <1>2, Invariant, PTL DEF Spec, ListHolds

\* Only Exec makes the loop start, and it finds no delete (restart.go:54).
THEOREM RestartsKeepDeletes == Spec => RestartKeepsDeletes
<1> DEFINE A == at = "restarting" /\ at' = "starting" => dels = <<>> /\ deleter = None
<1>1. ASSUME LoopInv, [Next]_vars, at = "restarting", at' = "starting"
      PROVE  dels = <<>> /\ deleter = None
  <2>1. Exec
    <3>1. CASE CaseStep
      BY <1>1, <3>1 DEF CaseStep, EnqueuePoll, CheckQueues, ListJobs, SkipJob, QueueJob, SendJob, QueuedAll,
         HandleUpdate, Clean, QueueDelete, Cleaned, NoRestart, StartRun, Act, Commit, CommitFails, ApplyList,
         ApplySection, ApplyGeneral, Restamp, Answer, Says
    <3>2. CASE LoopStep /\ ~CaseStep
      BY <1>1, <3>2 DEF LoopStep, PollTick, ExtractTick, CleanTick, TakeUpdate, TakeProgress, TakeTask
    <3>3. CASE Next /\ ~LoopStep
      BY <1>1, <3>3 DEF Next, PollerStep, EngineStep, DeleterStep, HandlerStep, ReaderStep, TakePoll, Publish, Start,
         SayStarted, Finish, Report, SayDone, Say, TakeDelete, DeleteRequest, Send, Hear, GiveUp, ReadLock,
         ReadConfig, ReadDone, loop
    <3>4. CASE UNCHANGED vars
      BY <1>1, <3>4 DEF vars, loop
    <3> QED
      BY <1>1, <3>1, <3>2, <3>3, <3>4 DEF LoopStep
  <2>2. inFlight = 0
    BY <2>1 DEF Exec, NothingUnderWay
  <2>3. dels \in Seq(Jobs) /\ inFlight = Len(dels) + (IF deleter = None THEN 0 ELSE 1)
    BY <1>1 DEF LoopInv, TypeOK, DeletesCounted
  <2> QED
    BY <2>2, <2>3
<1>2. LoopInv /\ [Next]_vars => A
  BY <1>1
<1> QED
  BY <1>2, Invariant, PTL DEF Spec, RestartKeepsDeletes
=============================================================================
