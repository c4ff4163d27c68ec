----------------------------- MODULE FolderWatch -----------------------------
(***************************************************************************)
(* How an archive that somebody puts below a watched folder comes to be    *)
(* tracked: the kernel's watches and its queue, the goroutine that filters *)
(* events into f.Events, and the main loop, which looks at the disk anew   *)
(* for every event and walks directories: it watches a directory first and *)
(* reads it then, one directory after the other, while the disk changes.   *)
(*                                                                         *)
(* A kernel watch belongs to a directory as it is now and goes with it;    *)
(* the program's table WatchDirs goes by the path.                         *)
(*                                                                         *)
(* FolderTracker takes up what is tracked here: of its life this module    *)
(* keeps that it waits, is queued, and leaves.                             *)
(***************************************************************************)
EXTENDS Naturals, Sequences, FiniteSets

CONSTANTS Root, Dirs, Archives,     \* the watched folder, all folders, archives
          Up, Above,                \* Up[p]: the folder p lies in; Above[p]: all that p lies in
          Output, Elsewhere,        \* where an archive is extracted to: beside it, below extract_path
          Inner,                    \* archives that come out of an extraction
          Excluded,                 \* exclude_paths
          Settings,                 \* the other settings of the watched folder, see Setting
          Buffer,                   \* capacity of f.Events
          MaxQueue, MaxChanges, MaxStarts   \* bounds

Paths == Dirs \union Archives
Setting == [skipEmpty : BOOLEAN, logged : BOOLEAN, moveBack : BOOLEAN, elsewhere : BOOLEAN]

ASSUME WatchAssumption ==
    /\ Root \in Dirs /\ Dirs \intersect Archives = {} /\ Inner \subseteq Archives
    /\ IsFiniteSet(Paths) /\ Up \in [Paths \ {Root} -> Dirs] /\ Above \in [Paths -> SUBSET Dirs]
    /\ Above[Root] = {} /\ \A p \in Paths \ {Root} : Above[p] = {Up[p]} \union Above[Up[p]]
    /\ \A p \in Paths : \A q \in Above[p] :
          /\ q # p /\ Above[q] \subseteq Above[p]
          /\ \A r \in Above[p] : r = q \/ r \in Above[q] \/ q \in Above[r]
    /\ DOMAIN Output \subseteq Archives
    /\ \A a \in DOMAIN Output : Output[a] \in Dirs \ {Root} /\ Up[Output[a]] = Up[a]
    /\ DOMAIN Elsewhere \subseteq Archives /\ \A a \in DOMAIN Elsewhere : Elsewhere[a] \in Dirs \ {Root}
    /\ Root \notin Inner /\ \A x \in Inner : Up[x] # Root
    /\ Settings \subseteq Setting
    /\ Buffer \in Nat \ {0} /\ {MaxQueue, MaxChanges, MaxStarts} \subseteq Nat

VARIABLES
    cfg,        \* skip_empty, the extraction log, move_back and extract_path, as configured
    there,      \* what is on the disk
    logs,       \* folders with an extraction log in them
    watches,    \* folders the kernel watches
    kernel,     \* events the kernel holds
    channel,    \* f.Events
    watchDirs,  \* f.WatchDirs
    tracked,    \* f.Folders
    jobs,       \* paths xtractr is extracting
    main,       \* what the main loop is in
    fresh,      \* archives whose last write nobody has noticed yet (a record for the properties)
    lost,       \* folders that went blind, and archives a walk did not get to (likewise)
    unheard,    \* what went unwatched, or with a folder that was back at once (likewise)
    n           \* counters: changes of the disk, starts

disk == <<there, logs>>
seen == <<fresh, lost, unheard>>
vars == <<cfg, there, logs, watches, kernel, channel, watchDirs, tracked, jobs, main, fresh, lost, unheard, n>>

Idle == [at |-> "idle"]
Down == [at |-> "down"]

Below(d) == {p \in Paths : d \in Above[p]}
Within(p) == {p} \union Below(p)

IsExcluded(p) == ({p} \union Above[p]) \intersect Excluded # {}

-----------------------------------------------------------------------------
(* What the program takes for the output of an extraction: a folder with a *)
(* log in it, or one beside an archive of its name.                        *)

(* A bug: the log is not looked for.                                       *)
BesideArchive(d) == \E a \in DOMAIN Output : Output[a] = d /\ a \in there
IsExtractDest(d) == d \in logs \/ \E a \in DOMAIN Output : Output[a] = d /\ a \in there
InsideExtractDest(a) == \E d \in Above[a] \ {Root} : IsExtractDest(d)

(* saveEvent of what is found in ps: tracked under its status already, or  *)
(* new: then a watch is set on it, which fails if it is gone.              *)
New(ps) == {p \in ps \intersect there : tracked[p] = "no"}
Save(ps) ==
    /\ tracked' = [p \in Paths |-> IF p \in New(ps) THEN "waiting" ELSE tracked[p]]
    /\ watches' = watches \union New(ps)

-----------------------------------------------------------------------------
(* The kernel and the watcher goroutine.                                   *)

(* An event of p is queued if its folder, or p itself, is watched; one     *)
(* like the last in the queue is left out.                                 *)
Watched(p) == {p, Up[p]} \intersect watches # {}
Notified(p) ==
    IF ~Watched(p) \/ (kernel # <<>> /\ kernel[Len(kernel)] = p) THEN kernel
    ELSE Append(kernel, p)

(* A bug: exclude_paths is not looked at.                                  *)
(* handleFileEvent: excluded paths end here, others wait for room.         *)
HandleFileEvent ==
    /\ main # Down /\ kernel # <<>> /\ kernel' = Tail(kernel)
    /\ \/ IsExcluded(Head(kernel)) /\ UNCHANGED channel
       \/ ~IsExcluded(Head(kernel)) /\ Len(channel) < Buffer
            /\ channel' = Append(channel, Head(kernel))
    /\ UNCHANGED <<cfg, disk, watches, watchDirs, tracked, jobs, main, seen, n>>

-----------------------------------------------------------------------------
(* The main loop.                                                          *)

(* A bug: what waits below a folder that is gone is left alone.            *)
DropNothing(p, t) == t
(* dropMissingFolderDescendants: what waits below p goes when p is gone.   *)
DropMissing(p, t) ==
    IF p \in there THEN t
    ELSE [q \in Paths |-> IF q \in Below(p) /\ t[q] = "waiting" THEN "no" ELSE t[q]]

(* A bug: the folder itself is forgotten, those below it stay.             *)
RemoveWatchDir(p) == /\ watchDirs' = watchDirs \ {p} /\ watches' = watches \ {p}
(* removeWatchDirs: the table and the watches of p and all below it.       *)
RemoveWatchDirs(p) ==
    /\ watchDirs' = watchDirs \ Within(p)
    /\ watches' = watches \ ((watchDirs \intersect Within(p)) \union (IF tracked[p] # "no" THEN {p} ELSE {}))

Unreadable(p) ==
    /\ p \notin there
    /\ RemoveWatchDirs(p)
    /\ tracked' = DropMissing(p, [tracked EXCEPT ![p] = "no"])
    /\ main' = Idle /\ UNCHANGED seen

SeenArchive(a) ==
    /\ a \in Archives /\ a \in there
    /\ IF InsideExtractDest(a) THEN UNCHANGED <<tracked, watches, fresh>>
       ELSE Save({a}) /\ fresh' = fresh \ {a}
    /\ main' = Idle /\ UNCHANGED <<watchDirs, lost, unheard>>

SeenOutput(d) ==
    /\ d \in Dirs /\ d \in there /\ IsExtractDest(d)
    /\ tracked' = [tracked EXCEPT ![d] = "no"]
    /\ main' = Idle /\ UNCHANGED <<watches, watchDirs, seen>>

Scan(d) == [at |-> "watch", top |-> d, todo |-> <<d>>, found |-> FALSE]
(* A bug: a new folder is watched, and not scanned.                        *)
WatchDir(d) ==
    /\ d \in Dirs /\ d \in there /\ ~IsExtractDest(d)
    /\ watchDirs' = watchDirs \union {d} /\ watches' = watches \union {d}
    /\ main' = Idle /\ UNCHANGED <<tracked, seen>>
SeenDir(d) ==
    /\ d \in Dirs /\ d \in there /\ ~IsExtractDest(d)
    /\ main' = Scan(d) /\ UNCHANGED <<tracked, watches, watchDirs, seen>>

(* processEvent, up to the walk of a folder.                               *)
ProcessEvent ==
    /\ main = Idle /\ channel # <<>> /\ channel' = Tail(channel)
    /\ LET p == Head(channel)
       IN  Unreadable(p) \/ SeenArchive(p) \/ SeenOutput(p) \/ SeenDir(p)
    /\ UNCHANGED <<cfg, disk, kernel, jobs, n>>

(* One folder of scanWatchDir's walk.  It is watched, unless the table has *)
(* it or it is gone; output below the first folder is left out.            *)
AddWatchDir ==
    /\ main.at = "watch" /\ main.todo # <<>> /\ Head(main.todo) \in Dirs
    /\ LET d == Head(main.todo)
       IN  IF d # main.top /\ IsExtractDest(d)
           THEN main' = [main EXCEPT !.todo = Tail(@)] /\ UNCHANGED <<watches, watchDirs, lost>>
           ELSE /\ main' = [main EXCEPT !.at = "read"]
                /\ IF d \in there /\ d \notin watchDirs
                   THEN watches' = watches \union {d} /\ watchDirs' = watchDirs \union {d} /\ lost' = lost \ {d}
                   ELSE UNCHANGED <<watches, watchDirs, lost>>
    /\ UNCHANGED <<cfg, disk, kernel, channel, tracked, jobs, fresh, unheard, n>>

(* ... and is read: its archives and folders are next, in the order of     *)
(* their names, whatever is in the folders before what comes after them.   *)
(* If the folder is gone by now the walk ends, whatever was still ahead.   *)
Entries(d) == {p \in there \ {Root} : Up[p] = d /\ ~IsExcluded(p)}
ReadDir ==
    /\ main.at = "read"
    /\ LET d == Head(main.todo)
       IN  /\ lost' = IF d \in there THEN lost ELSE lost \union {main.todo[i] : i \in 2 .. Len(main.todo)}
           /\ \E next \in [1 .. Cardinality(Entries(d)) -> Entries(d)] :
                 /\ {next[i] : i \in DOMAIN next} = Entries(d)
                 /\ main' = [main EXCEPT !.at = "watch",
                                         !.todo = IF d \in there THEN next \o Tail(@) ELSE <<>>]
    /\ UNCHANGED <<cfg, disk, watches, kernel, channel, watchDirs, tracked, jobs, fresh, unheard, n>>

(* An archive the walk comes by is found, and saved if it is still there.  *)
FindArchive ==
    /\ main.at = "watch" /\ main.todo # <<>> /\ Head(main.todo) \in Archives
    /\ LET a == Head(main.todo)
       IN  /\ IF InsideExtractDest(a) THEN UNCHANGED <<tracked, watches, fresh>>
              ELSE Save({a}) /\ fresh' = fresh \ {a}
           /\ main' = [main EXCEPT !.todo = Tail(@), !.found = @ \/ ~InsideExtractDest(a)]
    /\ UNCHANGED <<cfg, disk, kernel, channel, watchDirs, jobs, lost, unheard, n>>

(* The folder itself is tracked only if nothing was found in it and        *)
(* skip_empty asks for it.                                                 *)
EndScan ==
    /\ main.at = "watch" /\ main.todo = <<>> /\ main' = Idle
    /\ LET d == main.top
           keeps == cfg.skipEmpty /\ ~main.found
       IN  \/ d = Root /\ UNCHANGED <<tracked, watches>>
           \/ d # Root /\ keeps /\ d \in there /\ Save({d})
           \/ /\ d # Root /\ ~(keeps /\ d \in there)
              /\ tracked' = DropMissing(d, IF keeps THEN tracked ELSE [tracked EXCEPT ![d] = "no"])
              /\ UNCHANGED watches
    /\ UNCHANGED <<cfg, disk, kernel, channel, watchDirs, jobs, seen, n>>

(* checkWaitingFolder: p was left alone for long enough.  What is gone or  *)
(* empty is dropped, the rest is queued; either way its watch ends.        *)
CheckWaitingFolder(p) ==
    /\ main = Idle /\ tracked[p] = "waiting"
    /\ watches' = watches \ {p} /\ lost' = lost \union ({p} \intersect watchDirs)
    /\ IF p \in there /\ Within(p) \intersect Archives \intersect there # {}
       THEN tracked' = [tracked EXCEPT ![p] = "queued"] /\ jobs' = jobs \union {p}
       ELSE tracked' = [tracked EXCEPT ![p] = "no"] /\ UNCHANGED jobs
    /\ UNCHANGED <<cfg, disk, kernel, channel, watchDirs, main, fresh, unheard, n>>

(* A queued item is through: it failed for good, or its time is over.      *)
Leave(p) ==
    /\ main = Idle /\ tracked[p] = "queued"
    /\ tracked' = [tracked EXCEPT ![p] = "no"] /\ jobs' = jobs \ {p}
    /\ UNCHANGED <<cfg, disk, watches, kernel, channel, watchDirs, main, seen, n>>

-----------------------------------------------------------------------------
(* The world.                                                              *)

Changes == n.changes < MaxChanges /\ Len(kernel) < MaxQueue /\ n' = [n EXCEPT !.changes = @ + 1]

(* What the properties note of a path that is there again, with what is in *)
(* it.                                                                     *)
Back(p, with) ==
    /\ lost' = (lost \ ({p} \union with)) \union (Within(p) \intersect watchDirs)
    /\ unheard' = (unheard \ ({p} \union with)) \union {q \in Below(p) \ with : tracked[q] # "no"}

(* p is put on the disk, with all that is in it.                           *)
Land(p, with) ==
    /\ there' = there \union {p} \union with /\ kernel' = Notified(p) /\ Back(p, with)

(* A folder is made, or moved in with all that may be in it.               *)
MoveIn(d, with) ==
    /\ d \in Dirs \ there /\ Up[d] \in there
    /\ Changes
    /\ Land(d, with) /\ fresh' = fresh \union (with \intersect Archives)
    /\ UNCHANGED <<cfg, logs, watches, channel, watchDirs, tracked, jobs, main>>

(* ... of what goes with p, if no watch tells of p.                        *)
Gone(p) ==
    IF Watched(p) THEN UNCHANGED <<lost, unheard>>
    ELSE /\ lost' = lost \union (Within(p) \intersect watchDirs)
         /\ unheard' = unheard \union {q \in Within(p) : tracked[q] # "no"}

(* A folder goes, with all that is in it.                                  *)
MoveOut(d) ==
    /\ d \in (Dirs \intersect there) \ {Root}
    /\ Changes
    /\ there' = there \ Within(d) /\ logs' = logs \ Within(d) /\ fresh' = fresh \ Within(d)
    /\ Gone(d)
    /\ watches' = watches \ Within(d)
    /\ kernel' = Notified(d)
    /\ UNCHANGED <<cfg, channel, watchDirs, tracked, jobs, main>>

Write(a) ==
    /\ a \in Archives \ Inner /\ Up[a] \in there
    /\ Changes
    /\ Land(a, {}) /\ fresh' = fresh \union {a}
    /\ UNCHANGED <<cfg, logs, watches, channel, watchDirs, tracked, jobs, main>>

(* An archive is removed, by its owner or by delete_original.              *)
Remove(a) ==
    /\ a \in Archives \intersect there
    /\ Changes
    /\ there' = there \ {a} /\ fresh' = fresh \ {a} /\ Gone(a)
    /\ watches' = watches \ {a}
    /\ kernel' = Notified(a)
    /\ UNCHANGED <<cfg, logs, channel, watchDirs, tracked, jobs, main>>

(* Where xtractr puts what it finds in p: for an archive a folder of its   *)
(* name, beside it or below extract_path; for a folder, with move_back,    *)
(* the folders of the archives found in it, and else one that ends in the  *)
(* suffix, which nobody looks at.                                          *)
OutputOf(p) ==
    IF p \in Dirs
    THEN {d \in Dirs : cfg.moveBack /\ ~cfg.elsewhere /\ \E a \in Archives \intersect there : {a, d} \subseteq Within(p) /\ Up[a] = d}
    ELSE IF cfg.elsewhere THEN {Elsewhere[a] : a \in {p} \intersect DOMAIN Elsewhere}
    ELSE {Output[a] : a \in {p} \intersect DOMAIN Output}
InnerOf(o) == {x \in Inner : Up[x] = o}

(* Without move_back its temporary folder is renamed, the log is in it.    *)
Extract(p) ==
    /\ p \in jobs /\ ~cfg.moveBack /\ Len(kernel) < MaxQueue
    /\ \E o \in OutputOf(p) :
          /\ Up[o] \in there
          /\ \/ o \notin there /\ Land(o, InnerOf(o))
             \/ /\ o \in there /\ there' = there \union InnerOf(o) /\ UNCHANGED <<lost, unheard>>
                /\ \E q \in {o} \union InnerOf(o) : kernel' = Notified(q)
          /\ logs' = IF cfg.logged THEN logs \union {o} ELSE logs
    /\ jobs' = jobs \ {p}
    /\ UNCHANGED <<cfg, watches, channel, watchDirs, tracked, main, fresh, n>>

(* With move_back what came out is moved one by one, the log among it; the *)
(* names the watcher goroutine ignores make no event.                      *)
MoveBack(p) ==
    /\ p \in jobs /\ cfg.moveBack
    /\ \E o \in OutputOf(p) :
          \/ o \notin there /\ Up[o] \in there /\ Changes /\ Land(o, {}) /\ UNCHANGED logs
          \/ o \in there /\ Changes /\ UNCHANGED logs /\ \E x \in InnerOf(o) \ there : Land(x, {})
          \/ /\ o \in there /\ cfg.logged /\ logs' = logs \union {o}
             /\ UNCHANGED <<there, kernel, lost, unheard, n>>
    /\ UNCHANGED <<cfg, watches, channel, watchDirs, tracked, jobs, main, fresh>>

Crash ==
    /\ main # Down /\ n.starts < MaxStarts /\ main' = Down
    /\ watches' = {} /\ kernel' = <<>> /\ channel' = <<>> /\ watchDirs' = {} /\ jobs' = {}
    /\ UNCHANGED <<cfg, disk, tracked, seen, n>>

(* PollFolders sets the watch on the root, the state file brings back what *)
(* was tracked and is still there, then the root is scanned.               *)
Start ==
    /\ main = Down /\ n.starts < MaxStarts
    /\ n' = [n EXCEPT !.starts = @ + 1]
    /\ watches' = {Root} /\ watchDirs' = {Root}
    /\ tracked' = [p \in Paths |->
           IF tracked[p] # "no" /\ Within(p) \intersect Archives \intersect there # {} THEN "waiting" ELSE "no"]
    /\ main' = Scan(Root)
    /\ lost' = {} /\ UNCHANGED <<cfg, disk, kernel, channel, jobs, fresh, unheard>>

-----------------------------------------------------------------------------
Init ==
    /\ cfg \in Settings
    /\ there = {Root} /\ logs = {} /\ fresh = {} /\ lost = {} /\ unheard = {}
    /\ watches = {} /\ kernel = <<>> /\ channel = <<>> /\ watchDirs = {}
    /\ tracked = [p \in Paths |-> "no"] /\ jobs = {} /\ main = Down
    /\ n = [changes |-> 0, starts |-> 0]

World ==
    \/ \E d \in Dirs : MoveOut(d) \/ \E with \in {{}, Below(d) \ Inner} : MoveIn(d, with)
    \/ \E a \in Archives : Write(a) \/ Remove(a)
    \/ \E p \in Paths \ {Root} : Extract(p) \/ MoveBack(p)

Next ==
    \/ HandleFileEvent \/ ProcessEvent \/ AddWatchDir \/ ReadDir \/ FindArchive \/ EndScan
    \/ \E p \in Paths : CheckWaitingFolder(p) \/ Leave(p)
    \/ World \/ Start \/ Crash

Spec == Init /\ [][Next]_vars

-----------------------------------------------------------------------------
Walk == [at : {"watch", "read"}, top : Dirs, todo : Seq(Paths), found : BOOLEAN]

(* The type of the state; what the main loop gets to see is never excluded. *)
TypeOK ==
    /\ cfg \in Setting /\ n \in [changes : Nat, starts : Nat]
    /\ there \subseteq Paths /\ Root \in there /\ logs \subseteq Dirs \intersect there
    /\ watches \subseteq Paths /\ watchDirs \subseteq Dirs /\ fresh \subseteq Archives \intersect there
    /\ lost \subseteq Paths /\ jobs \subseteq Paths /\ unheard \subseteq Paths
    /\ tracked \in [Paths -> {"no", "waiting", "queued"}]
    /\ main \in {Idle, Down} \union Walk /\ (main.at = "read" => main.todo # <<>> /\ Head(main.todo) \in Dirs)
    /\ kernel \in Seq(Paths \ {Root}) /\ Len(kernel) <= MaxQueue
    /\ channel \in Seq(Paths \ {Root}) /\ Len(channel) <= Buffer
    /\ \A i \in DOMAIN channel : ~IsExcluded(channel[i])

Quiet == main = Idle /\ kernel = <<>> /\ channel = <<>>

(* Folders that look like the output of an extraction, or once did.        *)
Outputs == {Output[a] : a \in DOMAIN Output} \union logs

(* Archives that are new work: what is put into an output folder is not,   *)
(* and stays out when the folder stops to look like one.                   *)
Work == {a \in Archives : ~IsExcluded(a) /\ Above[a] \intersect Outputs = {}}

(***************************************************************************)
(* However a tree grows, is moved in, moved away and made again while it   *)
(* is walked, and whatever was written while the process was down: once    *)
(* everything is quiet the last write of every archive has been noticed,   *)
(* except below a folder that went blind.  A folder does in three ways: it *)
(* went, and was back before the main loop knew or no watch told of it, so *)
(* that the table still has it; it was waiting itself and its watch ended  *)
(* when it was dropped; a walk ended early, at another folder that was     *)
(* gone, before it got there.  The end of such a walk also misses archives *)
(* beside that folder, in a folder that is watched; they are noticed with  *)
(* their next write.                                                       *)
(***************************************************************************)
NoArchiveMissed ==
    Quiet => \A a \in fresh \intersect Work : ({a} \union Above[a]) \intersect lost # {}

(***************************************************************************)
(* The table of watched folders neither keeps a folder that is gone (one   *)
(* made again under its name would not be watched) nor misses one of the   *)
(* tree, the root among them whatever is excluded, unless a folder above   *)
(* it went blind.                                                          *)
(***************************************************************************)
TableTrue ==
    Quiet => \A d \in Dirs : (d \in watchDirs) # (d \in there /\ (d = Root \/ ~IsExcluded(d))) =>
        \/ ({d} \union Above[d]) \intersect lost # {}
        \/ ({d} \union Above[d]) \intersect Outputs # {}

(***************************************************************************)
(* What waits is there: an item whose archive went, with or without the    *)
(* folder around it, leaves with the event that tells of it, unless its    *)
(* folder was not watched or is back before that event is handled.         *)
(***************************************************************************)
NoGhosts ==
    Quiet => \A p \in Paths : tracked[p] = "waiting" /\ p \notin there => p \in unheard

(***************************************************************************)
(* With the extraction log on and move_back off, an archive that came out  *)
(* of an extraction, beside its archive or below extract_path, never       *)
(* becomes work of its own, though the archive it came out of is deleted,  *)
(* its folder is touched and the process is started again.  With move_back *)
(* nothing of the kind holds: it may be seen before the log is there.      *)
(***************************************************************************)
OutputIsNoWork == cfg.logged /\ ~cfg.moveBack => \A a \in Inner : tracked[a] = "no"

(* "Scan it now so a moved or quickly copied tree cannot outrun watcher     *)
(* registration, then watch its descendants for later archive writes."     *)
EverythingSeen == Quiet => fresh \intersect Work = {}
=============================================================================
