--------------------------- MODULE FolderWatchProofs ---------------------------
(***************************************************************************)
(* Theorems about FolderWatch, for any tree of folders and archives, any   *)
(* buffer and any number of changes, starts and crashes.                   *)
(***************************************************************************)
EXTENDS FolderWatch, FiniteSetTheorems, SequenceTheorems, WellFoundedInduction, TLAPS

-----------------------------------------------------------------------------
(* Facts about the constants, sequences and helpers.                       *)

\* A watched root is a folder and no archive; all else lies in a folder.
LEMMA Tree ==
  /\ Root \in Dirs /\ Root \in Paths /\ Dirs \subseteq Paths /\ Archives \subseteq Paths
  /\ Inner \subseteq Archives /\ Dirs \intersect Archives = {}
  /\ \A p \in Paths \ {Root} : Up[p] \in Dirs /\ Up[p] \in Above[p]
  /\ \A p \in Paths : Above[p] \subseteq Dirs
BY WatchAssumption DEF WatchAssumption, Paths

\* Above is the strict order of a tree.
LEMMA Order ==
  /\ \A p \in Paths : \A q \in Above[p] : q # p /\ Above[q] \subseteq Above[p]
  /\ \A p \in Paths : \A q, r \in Above[p] : r = q \/ r \in Above[q] \/ q \in Above[r]
BY WatchAssumption DEF WatchAssumption

\* What comes out of an extraction comes into folders below the root.
LEMMA OutputFolder ==
  /\ \A a \in DOMAIN Output : Output[a] \in Dirs \ {Root}
  /\ \A a \in DOMAIN Elsewhere : Elsewhere[a] \in Dirs \ {Root}
  /\ \A x \in Inner : x # Root /\ Up[x] # Root
BY WatchAssumption DEF WatchAssumption

\* Bounds are natural numbers.
LEMMA Bounds ==
  /\ Buffer \in Nat /\ MaxQueue \in Nat /\ MaxChanges \in Nat /\ MaxStarts \in Nat
BY WatchAssumption DEF WatchAssumption

\* An idle and a stopped main loop are in no walk.
LEMMA Ats ==
  /\ Idle.at = "idle" /\ Down.at = "down" /\ Idle # Down
  /\ \A w \in Walk : w.at \in {"watch", "read"} /\ w # Idle /\ w # Down
BY DEF Idle, Down, Walk

\* What is below a folder, and what is within it.
LEMMA BelowType ==
  ASSUME NEW d
  PROVE  Below(d) \subseteq Paths
BY DEF Below

\* A sequence is its head and its tail.
LEMMA HeadTail ==
  ASSUME NEW S, NEW s \in Seq(S), s # <<>>
  PROVE  /\ Head(s) \in S /\ Tail(s) \in Seq(S) /\ Len(Tail(s)) = Len(s) - 1
         /\ Len(s) \in Nat \ {0} /\ 1 \in DOMAIN s /\ Head(s) = s[1]
         /\ \A i \in DOMAIN Tail(s) : i + 1 \in DOMAIN s /\ Tail(s)[i] = s[i + 1]
         /\ \A i \in DOMAIN s : i = 1 \/ (i - 1 \in DOMAIN Tail(s) /\ Tail(s)[i - 1] = s[i])
OBVIOUS

\* The parts of a sequence with one more at its end.
LEMMA Appended ==
  ASSUME NEW S, NEW s \in Seq(S), NEW e \in S
  PROVE  /\ Append(s, e) \in Seq(S) /\ Len(Append(s, e)) = Len(s) + 1
         /\ \A i \in DOMAIN s : i \in DOMAIN Append(s, e) /\ Append(s, e)[i] = s[i]
         /\ \A i \in DOMAIN Append(s, e) : Append(s, e)[i] = e \/ (i \in DOMAIN s /\ Append(s, e)[i] = s[i])
         /\ Len(s) + 1 \in DOMAIN Append(s, e) /\ Append(s, e)[Len(s) + 1] = e
OBVIOUS

\* The kernel's queue after an event: one longer at most.
LEMMA NotifiedType ==
  ASSUME TypeOK, NEW p \in Paths \ {Root}, Len(kernel) < MaxQueue
  PROVE  Notified(p) \in Seq(Paths \ {Root}) /\ Len(Notified(p)) <= MaxQueue
<1> kernel \in Seq(Paths \ {Root}) /\ Len(kernel) \in Nat
  BY DEF TypeOK
<1>1. Append(kernel, p) \in Seq(Paths \ {Root}) /\ Len(Append(kernel, p)) = Len(kernel) + 1
  BY Appended
<1> QED
  BY <1>1, Bounds DEF Notified

\* A folder has finitely many entries.
LEMMA EntriesType ==
  ASSUME TypeOK, NEW d
  PROVE  /\ Entries(d) \subseteq Paths \ {Root} /\ Cardinality(Entries(d)) \in Nat
         /\ \A s \in Entries(d) : ~IsExcluded(s) /\ s \in there
<1>1. Entries(d) \subseteq Paths \ {Root}
  BY DEF Entries, TypeOK
<1>2. IsFiniteSet(Paths)
  BY WatchAssumption DEF WatchAssumption
<1>3. IsFiniteSet(Entries(d))
  BY <1>1, <1>2, FS_Subset
<1> QED
  BY <1>1, <1>3, FS_CardinalityType DEF Entries

\* Output lands in folders below the root.
LEMMA OutputOfType ==
  ASSUME TypeOK, NEW p \in Paths \ {Root}, NEW o \in OutputOf(p)
  PROVE  o \in Dirs /\ o \in Paths \ {Root} /\ Up[o] \in Dirs /\ Up[o] \in Paths
<1>1. o \in Dirs \ {Root}
  <2>1. CASE p \in Dirs
    <3>1. o \in Dirs /\ o \in Within(p)
      BY <2>1 DEF OutputOf
    <3>2. Root \notin Within(p)
      BY WatchAssumption DEF Within, Below, WatchAssumption
    <3> QED
      BY <3>1, <3>2
  <2>2. CASE p \notin Dirs
    BY <2>2, OutputFolder DEF OutputOf
  <2> QED
    BY <2>1, <2>2
<1> QED
  BY <1>1, Tree

-----------------------------------------------------------------------------
(* Types.                                                                  *)

\* The type of the state at the start.
LEMMA InitType == Init => TypeOK
BY Tree, Bounds, Ats, WatchAssumption DEF Init, TypeOK, WatchAssumption

\* An event that is filtered keeps the types.
LEMMA HandleFileEventType ==
  ASSUME TypeOK, HandleFileEvent
  PROVE  TypeOK'
<1> USE DEF HandleFileEvent
<1>1. kernel \in Seq(Paths \ {Root}) /\ channel \in Seq(Paths \ {Root})
  BY DEF TypeOK
<1>2. /\ kernel' \in Seq(Paths \ {Root}) /\ Len(kernel') = Len(kernel) - 1
      /\ Head(kernel) \in Paths \ {Root}
  BY <1>1, HeadTail
<1>3. /\ channel' \in Seq(Paths \ {Root}) /\ Len(channel') <= Buffer
      /\ \A i \in DOMAIN channel' : ~IsExcluded(channel'[i])
  <2>1. CASE UNCHANGED channel
    BY <2>1 DEF TypeOK, IsExcluded
  <2>2. CASE ~IsExcluded(Head(kernel)) /\ Len(channel) < Buffer /\ channel' = Append(channel, Head(kernel))
    <3>1. channel' \in Seq(Paths \ {Root}) /\ Len(channel') = Len(channel) + 1
      BY <1>1, <1>2, <2>2, Appended
    <3>2. \A i \in DOMAIN channel' : channel'[i] = Head(kernel) \/ (i \in DOMAIN channel /\ channel'[i] = channel[i])
      BY <1>1, <1>2, <2>2, Appended
    <3> QED
      BY <1>1, <2>2, <3>1, <3>2, Bounds DEF TypeOK, IsExcluded
  <2> QED
    BY <2>1, <2>2
<1>4. Len(kernel') <= MaxQueue
  BY <1>1, <1>2, Bounds DEF TypeOK
<1> QED
  BY <1>2, <1>3, <1>4 DEF TypeOK, disk, seen

\* What is saved is waiting, and its watch is on.
LEMMA SaveType ==
  ASSUME TypeOK, NEW ps, ps \subseteq Paths, Save(ps)
  PROVE  tracked' \in [Paths -> {"no", "waiting", "queued"}] /\ watches' \subseteq Paths
BY DEF Save, New, TypeOK

\* What is dropped with a folder leaves the rest as it was.
LEMMA DropType ==
  ASSUME NEW p \in Paths, NEW t \in [Paths -> {"no", "waiting", "queued"}]
  PROVE  /\ DropMissing(p, t) \in [Paths -> {"no", "waiting", "queued"}]
         /\ \A q \in Paths : DropMissing(p, t)[q] = t[q] \/ DropMissing(p, t)[q] = "no"
         /\ p \notin there => \A q \in Below(p) : DropMissing(p, t)[q] # "waiting"
<1>1. CASE p \in there
  BY <1>1 DEF DropMissing
<1>2. CASE p \notin there
  <2> DEFINE u == [q \in Paths |-> IF q \in Below(p) /\ t[q] = "waiting" THEN "no" ELSE t[q]]
  <2>1. DropMissing(p, t) = u
    BY <1>2 DEF DropMissing
  <2>2. \A q \in Paths : u[q] = IF q \in Below(p) /\ t[q] = "waiting" THEN "no" ELSE t[q]
    OBVIOUS
  <2>3. u \in [Paths -> {"no", "waiting", "queued"}]
    OBVIOUS
  <2> HIDE DEF u
  <2> QED
    BY <2>1, <2>2, <2>3, BelowType
<1> QED
  BY <1>1, <1>2

\* A walk starts at a folder.
LEMMA ScanType ==
  ASSUME NEW d \in Dirs
  PROVE  Scan(d) \in Walk /\ Scan(d).at = "watch" /\ Scan(d).top = d /\ Scan(d).todo = <<d>>
BY Tree DEF Scan, Walk

\* The four answers to an event keep the types of what they change.
LEMMA AnswerType ==
  ASSUME TypeOK, main = Idle, NEW p \in Paths \ {Root},
         Unreadable(p) \/ SeenArchive(p) \/ SeenOutput(p) \/ SeenDir(p)
  PROVE  /\ tracked' \in [Paths -> {"no", "waiting", "queued"}] /\ watches' \subseteq Paths
         /\ watchDirs' \subseteq Dirs /\ fresh' \subseteq Archives \intersect there
         /\ lost' = lost /\ unheard' = unheard
         /\ main' \in {Idle, Down} \union Walk /\ main'.at # "read"
<1> DEFINE T == [Paths -> {"no", "waiting", "queued"}]
<1>1. CASE Unreadable(p)
  <2>1. [tracked EXCEPT ![p] = "no"] \in T
    BY DEF TypeOK
  <2>2. tracked' \in T
    BY <1>1, <2>1, DropType DEF Unreadable
  <2>3. watches' \subseteq Paths /\ watchDirs' \subseteq Dirs
    BY <1>1 DEF Unreadable, RemoveWatchDirs, TypeOK
  <2> QED
    BY <1>1, <2>2, <2>3, Ats DEF Unreadable, TypeOK, seen
<1>2. CASE SeenArchive(p)
  <2>1. tracked' \in T /\ watches' \subseteq Paths
    BY <1>2, SaveType DEF SeenArchive, TypeOK
  <2> QED
    BY <1>2, <2>1, Ats DEF SeenArchive, TypeOK
<1>3. CASE SeenOutput(p)
  BY <1>3, Ats DEF SeenOutput, TypeOK, seen
<1>4. CASE SeenDir(p)
  BY <1>4, Ats, ScanType DEF SeenDir, TypeOK, seen
<1> QED
  BY <1>1, <1>2, <1>3, <1>4

\* An event that is processed keeps the types.
LEMMA ProcessEventType ==
  ASSUME TypeOK, ProcessEvent
  PROVE  TypeOK'
<1>1. channel \in Seq(Paths \ {Root}) /\ channel # <<>> /\ channel' = Tail(channel)
  BY DEF TypeOK, ProcessEvent
<1>2. /\ Head(channel) \in Paths \ {Root}
      /\ channel' \in Seq(Paths \ {Root}) /\ Len(channel') = Len(channel) - 1
      /\ \A i \in DOMAIN channel' : i + 1 \in DOMAIN channel /\ channel'[i] = channel[i + 1]
  BY <1>1, HeadTail
<1>3. Len(channel') <= Buffer /\ \A i \in DOMAIN channel' : ~IsExcluded(channel'[i])
  BY <1>1, <1>2, Bounds DEF TypeOK, IsExcluded
<1>4. /\ tracked' \in [Paths -> {"no", "waiting", "queued"}] /\ watches' \subseteq Paths
      /\ watchDirs' \subseteq Dirs /\ fresh' \subseteq Archives \intersect there
      /\ lost' = lost /\ unheard' = unheard
      /\ main' \in {Idle, Down} \union Walk /\ main'.at # "read"
  BY <1>2, AnswerType DEF ProcessEvent
<1> QED
  BY <1>2, <1>3, <1>4 DEF TypeOK, ProcessEvent, disk

\* A walk under way has folders to go and knows them.
LEMMA WalkType ==
  ASSUME TypeOK, main.at \in {"watch", "read"}
  PROVE  /\ main \in Walk /\ main.top \in Dirs /\ main.todo \in Seq(Paths) /\ main.found \in BOOLEAN
         /\ main.at = "read" => main.todo # <<>> /\ Head(main.todo) \in Dirs
BY Ats DEF TypeOK, Walk

\* A folder that is watched on a walk, and one that is left out.
LEMMA AddWatchDirWalk ==
  ASSUME TypeOK, AddWatchDir
  PROVE  /\ main \in Walk /\ main.todo \in Seq(Paths) /\ main.todo # <<>> /\ main.at = "watch" /\ main # Down
         /\ Head(main.todo) \in Dirs /\ Tail(main.todo) \in Seq(Paths)
         /\ main' \in Walk /\ main'.top = main.top
         /\ IF Head(main.todo) # main.top /\ IsExtractDest(Head(main.todo))
            THEN main'.at = "watch" /\ main'.todo = Tail(main.todo)
            ELSE main'.at = "read" /\ main'.todo = main.todo
<1>1. main \in Walk /\ main.todo \in Seq(Paths) /\ main.todo # <<>> /\ main.at = "watch" /\ main # Down
  BY WalkType, Ats DEF AddWatchDir
<1>2. Head(main.todo) \in Dirs /\ Tail(main.todo) \in Seq(Paths)
  BY <1>1, HeadTail DEF AddWatchDir
<1>3. CASE Head(main.todo) # main.top /\ IsExtractDest(Head(main.todo))
  <2>1. main' = [main EXCEPT !.todo = Tail(main.todo)]
    BY <1>3 DEF AddWatchDir
  <2>2. main' \in Walk /\ main'.todo = Tail(main.todo) /\ main'.at = "watch" /\ main'.top = main.top
    BY <1>1, <1>2, <2>1 DEF Walk
  <2> QED
    BY <1>1, <1>2, <1>3, <2>2
<1>4. CASE ~(Head(main.todo) # main.top /\ IsExtractDest(Head(main.todo)))
  <2>1. main' = [main EXCEPT !.at = "read"]
    BY <1>4 DEF AddWatchDir
  <2>2. main' \in Walk /\ main'.todo = main.todo /\ main'.at = "read" /\ main'.top = main.top
    BY <1>1, <2>1 DEF Walk
  <2> QED
    BY <1>1, <1>2, <1>4, <2>2
<1> QED
  BY <1>3, <1>4

\* A folder that is watched on a walk keeps the types.
LEMMA AddWatchDirType ==
  ASSUME TypeOK, AddWatchDir
  PROVE  TypeOK'
<1>1. main' \in Walk /\ (main'.at = "read" => main'.todo # <<>> /\ Head(main'.todo) \in Dirs)
  BY AddWatchDirWalk
<1>2. watches' \subseteq Paths /\ watchDirs' \subseteq Dirs /\ lost' \subseteq Paths
  BY AddWatchDirWalk, Tree DEF AddWatchDir, TypeOK
<1> QED
  BY <1>1, <1>2 DEF TypeOK, AddWatchDir, disk, IsExcluded

\* Every part of a sequence is its head, or comes after it, in its tail.
Parts(s) == {s[i] : i \in DOMAIN s}
After(s) == {s[i] : i \in 2 .. Len(s)}

LEMMA Rest ==
  ASSUME NEW S, NEW s \in Seq(S), s # <<>>
  PROVE  Parts(s) \subseteq {Head(s)} \union After(s) /\ After(s) = Parts(Tail(s)) /\ After(s) \subseteq Parts(s)
         /\ Parts(s) \subseteq S
<1>1. Head(s) = s[1] /\ Len(s) \in Nat /\ DOMAIN s = 1 .. Len(s)
  BY HeadTail
<1>2. \A i \in DOMAIN s : i = 1 \/ i \in 2 .. Len(s)
  BY <1>1
<1>3. \A i \in 2 .. Len(s) : i \in DOMAIN s /\ i # 1
  BY <1>1
<1>4. ASSUME NEW i \in DOMAIN Tail(s) PROVE Tail(s)[i] \in {s[j] : j \in 2 .. Len(s)}
  <2>1. i + 1 \in 2 .. Len(s) /\ Tail(s)[i] = s[i + 1]
    OBVIOUS
  <2> QED
    BY <2>1
<1>5. ASSUME NEW j \in 2 .. Len(s) PROVE s[j] \in {Tail(s)[i] : i \in DOMAIN Tail(s)}
  <2>1. j - 1 \in DOMAIN Tail(s) /\ Tail(s)[j - 1] = s[j]
    OBVIOUS
  <2> QED
    BY <2>1
<1>6. \A i \in DOMAIN s : s[i] \in S
  OBVIOUS
<1> QED
  BY <1>1, <1>2, <1>3, <1>4, <1>5, <1>6 DEF Parts, After

\* The parts of two sequences are those of the sequence made of them.
LEMMA Joined ==
  ASSUME NEW s \in Seq(Paths), NEW t \in Seq(Paths)
  PROVE  s \o t \in Seq(Paths) /\ Parts(s \o t) = Parts(s) \union Parts(t)
<1>1. Len(s) \in Nat /\ Len(t) \in Nat /\ DOMAIN s = 1 .. Len(s) /\ DOMAIN t = 1 .. Len(t)
      /\ DOMAIN (s \o t) = 1 .. Len(s) + Len(t) /\ s \o t \in Seq(Paths)
  OBVIOUS
<1>2. ASSUME NEW i \in DOMAIN s PROVE i \in DOMAIN (s \o t) /\ (s \o t)[i] = s[i]
  BY <1>1
<1>3. ASSUME NEW i \in DOMAIN t PROVE i + Len(s) \in DOMAIN (s \o t) /\ (s \o t)[i + Len(s)] = t[i]
  BY <1>1
<1>4. ASSUME NEW i \in DOMAIN s PROVE s[i] \in Parts(s \o t)
  <2>1. i \in DOMAIN (s \o t) /\ s[i] = (s \o t)[i]
    BY <1>2
  <2> QED
    BY <2>1, Zenon DEF Parts
<1>5. ASSUME NEW i \in DOMAIN t PROVE t[i] \in Parts(s \o t)
  <2>1. i + Len(s) \in DOMAIN (s \o t) /\ t[i] = (s \o t)[i + Len(s)]
    BY <1>3
  <2> QED
    BY <2>1, Zenon DEF Parts
<1>6. ASSUME NEW i \in DOMAIN (s \o t) PROVE (s \o t)[i] \in Parts(s) \union Parts(t)
  <2>1. CASE i \in DOMAIN s
    BY <1>2, <2>1, Zenon DEF Parts
  <2>2. CASE i \notin DOMAIN s
    <3>1. i - Len(s) \in DOMAIN t /\ (s \o t)[i] = t[i - Len(s)]
      BY <1>1, <2>2
    <3> QED
      BY <3>1, Zenon DEF Parts
  <2> QED
    BY <2>1, <2>2
<1>7. Parts(s) \subseteq Parts(s \o t) /\ Parts(t) \subseteq Parts(s \o t)
  BY <1>4, <1>5, Zenon DEF Parts
<1>8. Parts(s \o t) \subseteq Parts(s) \union Parts(t)
  BY <1>6, Zenon DEF Parts
<1> QED
  BY <1>1, <1>7, <1>8

\* What a walk has before it once it has read a folder: what is in that, and
\* what was before it already; nothing when the folder is gone.
LEMMA ReadDirWalk ==
  ASSUME TypeOK, ReadDir
  PROVE  /\ main \in Walk /\ main.todo \in Seq(Paths) /\ main.todo # <<>> /\ main # Down
         /\ Head(main.todo) \in Dirs
         /\ main' \in Walk /\ main'.at = "watch" /\ main'.top = main.top
         /\ Parts(main'.todo) = IF Head(main.todo) \in there THEN Entries(Head(main.todo)) \union After(main.todo) ELSE {}
<1> DEFINE d == Head(main.todo)
           E == Entries(d)
<1>1. main \in Walk /\ main.todo \in Seq(Paths) /\ main.todo # <<>> /\ d \in Dirs /\ main # Down
  BY WalkType, Ats DEF ReadDir
<1>2. Tail(main.todo) \in Seq(Paths) /\ After(main.todo) = Parts(Tail(main.todo))
  BY <1>1, HeadTail, Rest
<1>3. E \subseteq Paths /\ Cardinality(E) \in Nat
  BY EntriesType
<1>4. PICK next \in [1 .. Cardinality(E) -> E] :
        /\ {next[i] : i \in DOMAIN next} = E
        /\ main' = [main EXCEPT !.at = "watch", !.todo = IF d \in there THEN next \o Tail(main.todo) ELSE <<>>]
  BY DEF ReadDir
<1> HIDE DEF E, d
<1>5. next \in Seq(Paths) /\ Parts(next) = E
  <2>1. next \in [1 .. Cardinality(E) -> Paths]
    BY <1>3, <1>4
  <2>2. next \in Seq(Paths)
    BY <1>3, <2>1
  <2> QED
    BY <1>4, <2>2, Zenon DEF Parts
<1>6. next \o Tail(main.todo) \in Seq(Paths) /\ Parts(next \o Tail(main.todo)) = E \union After(main.todo)
  <2>1. /\ next \o Tail(main.todo) \in Seq(Paths)
        /\ Parts(next \o Tail(main.todo)) = Parts(next) \union Parts(Tail(main.todo))
    BY <1>2, <1>5, Joined
  <2> QED
    BY <1>2, <1>5, <2>1, Zenon
<1>7. Parts(<<>>) = {} /\ <<>> \in Seq(Paths)
  BY DEF Parts
<1>8. CASE d \in there
  <2>1. main' = [main EXCEPT !.at = "watch", !.todo = next \o Tail(main.todo)]
    BY <1>4, <1>8
  <2>2. main' \in Walk /\ main'.at = "watch" /\ main'.top = main.top /\ main'.todo = next \o Tail(main.todo)
    BY <1>1, <1>6, <2>1 DEF Walk
  <2> QED
    BY <1>1, <1>6, <1>8, <2>2 DEF d, E
<1>9. CASE d \notin there
  <2>1. main' = [main EXCEPT !.at = "watch", !.todo = <<>>]
    BY <1>4, <1>9
  <2>2. main' \in Walk /\ main'.at = "watch" /\ main'.top = main.top /\ main'.todo = <<>>
    BY <1>1, <1>7, <2>1 DEF Walk
  <2> QED
    BY <1>1, <1>7, <1>9, <2>2 DEF d, E
<1> QED
  BY <1>8, <1>9

\* A folder that is read on a walk keeps the types.
LEMMA ReadDirType ==
  ASSUME TypeOK, ReadDir
  PROVE  TypeOK'
<1>1. main.todo \in Seq(Paths) /\ main' \in Walk /\ main'.at = "watch"
  BY ReadDirWalk
<1>2. {main.todo[i] : i \in 2 .. Len(main.todo)} \subseteq Paths
  BY <1>1
<1>3. lost' \subseteq Paths
  BY <1>2 DEF ReadDir, TypeOK
<1> QED
  BY <1>1, <1>3 DEF TypeOK, ReadDir, disk, IsExcluded

\* An archive a walk comes by is behind it then.
LEMMA FindArchiveWalk ==
  ASSUME TypeOK, FindArchive
  PROVE  /\ main \in Walk /\ main.todo \in Seq(Paths) /\ main.todo # <<>> /\ main.at = "watch" /\ main # Down
         /\ Head(main.todo) \in Archives /\ Head(main.todo) \in Paths /\ Tail(main.todo) \in Seq(Paths)
         /\ main' \in Walk /\ main'.at = "watch" /\ main'.top = main.top /\ main'.todo = Tail(main.todo)
<1>1. /\ main \in Walk /\ main.todo \in Seq(Paths) /\ main.todo # <<>> /\ main.at = "watch" /\ main # Down
      /\ main.found \in BOOLEAN
  BY WalkType, Ats DEF FindArchive
<1>2. Head(main.todo) \in Archives /\ Head(main.todo) \in Paths /\ Tail(main.todo) \in Seq(Paths)
  BY <1>1, HeadTail, Tree DEF FindArchive
<1>3. main' = [main EXCEPT !.todo = Tail(main.todo), !.found = main.found \/ ~InsideExtractDest(Head(main.todo))]
  BY DEF FindArchive
<1>4. (main.found \/ ~InsideExtractDest(Head(main.todo))) \in BOOLEAN
  OBVIOUS
<1>5. main' \in Walk /\ main'.todo = Tail(main.todo) /\ main'.at = "watch" /\ main'.top = main.top
  BY <1>1, <1>2, <1>3, <1>4 DEF Walk
<1> QED
  BY <1>1, <1>2, <1>5

\* An archive a walk comes by keeps the types.
LEMMA FindArchiveType ==
  ASSUME TypeOK, FindArchive
  PROVE  TypeOK'
<1> DEFINE a == Head(main.todo)
<1>1. a \in Paths /\ main' \in Walk /\ main'.at = "watch"
  BY FindArchiveWalk
<1>2. tracked' \in [Paths -> {"no", "waiting", "queued"}] /\ watches' \subseteq Paths /\ fresh' \subseteq Archives \intersect there
  <2>1. CASE InsideExtractDest(a)
    BY <2>1 DEF FindArchive, TypeOK
  <2>2. CASE ~InsideExtractDest(a)
    BY <1>1, <2>2, SaveType DEF FindArchive, TypeOK
  <2> QED
    BY <2>1, <2>2
<1> QED
  BY <1>1, <1>2 DEF TypeOK, FindArchive, disk, IsExcluded

\* The end of a walk keeps the types.
LEMMA EndScanType ==
  ASSUME TypeOK, EndScan
  PROVE  TypeOK'
<1> DEFINE T == [Paths -> {"no", "waiting", "queued"}]
<1>1. main.top \in Dirs /\ main.top \in Paths /\ main' = Idle
  BY WalkType, Tree DEF EndScan
<1>2. tracked' \in T /\ watches' \subseteq Paths
  <2>1. CASE UNCHANGED <<tracked, watches>>
    BY <2>1 DEF TypeOK
  <2>2. CASE Save({main.top})
    BY <1>1, <2>2, SaveType
  <2>3. ASSUME NEW t \in T, tracked' = DropMissing(main.top, t), UNCHANGED watches
        PROVE  tracked' \in T /\ watches' \subseteq Paths
    BY <1>1, <2>3, DropType DEF TypeOK
  <2>4. tracked \in T /\ [tracked EXCEPT ![main.top] = "no"] \in T
    BY DEF TypeOK
  <2>5. CASE tracked' = DropMissing(main.top, tracked) /\ UNCHANGED watches
    BY <2>3, <2>4, <2>5
  <2>6. CASE tracked' = DropMissing(main.top, [tracked EXCEPT ![main.top] = "no"]) /\ UNCHANGED watches
    BY <2>3, <2>4, <2>6
  <2> QED
    BY <2>1, <2>2, <2>5, <2>6 DEF EndScan
<1> QED
  BY <1>1, <1>2, Ats DEF TypeOK, EndScan, disk, seen, IsExcluded

\* A look at a waiting item, or one that is through, keeps the types.
LEMMA CheckWaitingFolderType ==
  ASSUME TypeOK, NEW p \in Paths, CheckWaitingFolder(p) \/ Leave(p)
  PROVE  TypeOK'
<1>1. CASE CheckWaitingFolder(p)
  BY <1>1 DEF TypeOK, CheckWaitingFolder, disk, IsExcluded
<1>2. CASE Leave(p)
  BY <1>2 DEF TypeOK, Leave, disk, seen, IsExcluded
<1> QED
  BY <1>1, <1>2

\* A start keeps the types.
LEMMA StartType ==
  ASSUME TypeOK, Start
  PROVE  TypeOK'
<1>1. main' = Scan(Root) /\ Scan(Root) \in Walk /\ Scan(Root).at = "watch"
  BY Tree, ScanType DEF Start
<1>2. n' \in [changes : Nat, starts : Nat]
  BY DEF Start, TypeOK
<1> QED
  BY <1>1, <1>2, Tree DEF TypeOK, Start, disk, IsExcluded

\* A crash keeps the types.
LEMMA CrashType ==
  ASSUME TypeOK, Crash
  PROVE  TypeOK'
<1>1. kernel' \in Seq(Paths \ {Root}) /\ Len(kernel') = 0 /\ channel' \in Seq(Paths \ {Root}) /\ Len(channel') = 0
  BY DEF Crash
<1> QED
  BY <1>1, Ats, Bounds DEF TypeOK, Crash, disk, seen

\* What the properties note keeps its types.
LEMMA NoteType ==
  ASSUME TypeOK, NEW p \in Paths, NEW with, Back(p, with) \/ Gone(p)
  PROVE  lost' \subseteq Paths /\ unheard' \subseteq Paths
BY Tree DEF TypeOK, Back, Gone, Within, Below

\* So does what is put on the disk.
LEMMA LandType ==
  ASSUME TypeOK, NEW p \in Paths \ {Root}, NEW with \in SUBSET Paths, Land(p, with), Len(kernel) < MaxQueue
  PROVE  /\ there' \subseteq Paths /\ Root \in there' /\ logs \subseteq Dirs \intersect there' /\ there \subseteq there'
         /\ p \in there' /\ with \subseteq there'
         /\ kernel' \in Seq(Paths \ {Root}) /\ Len(kernel') <= MaxQueue
         /\ lost' \subseteq Paths /\ unheard' \subseteq Paths
<1>1. kernel' \in Seq(Paths \ {Root}) /\ Len(kernel') <= MaxQueue
  BY NotifiedType DEF Land
<1>2. lost' \subseteq Paths /\ unheard' \subseteq Paths
  BY NoteType DEF Land
<1> QED
  BY <1>1, <1>2 DEF Land, TypeOK

\* A change of the disk is counted.
LEMMA ChangesType ==
  ASSUME TypeOK, Changes
  PROVE  n' \in [changes : Nat, starts : Nat] /\ Len(kernel) < MaxQueue
BY DEF TypeOK, Changes

\* A folder that is moved in keeps the types.
LEMMA MoveInType ==
  ASSUME TypeOK, NEW d \in Dirs, NEW with, with \subseteq Below(d) \ Inner, MoveIn(d, with)
  PROVE  TypeOK'
<1>1. d \in Paths \ {Root} /\ with \in SUBSET Paths
  BY Tree DEF MoveIn, TypeOK, Below
<1>2. n' \in [changes : Nat, starts : Nat] /\ Len(kernel) < MaxQueue /\ Land(d, with)
  BY ChangesType DEF MoveIn
<1>3. /\ there' \subseteq Paths /\ Root \in there' /\ logs \subseteq Dirs \intersect there' /\ there \subseteq there'
      /\ with \subseteq there' /\ kernel' \in Seq(Paths \ {Root}) /\ Len(kernel') <= MaxQueue
      /\ lost' \subseteq Paths /\ unheard' \subseteq Paths
  BY <1>1, <1>2, LandType
<1>4. fresh' \subseteq Archives \intersect there'
  BY <1>3 DEF MoveIn, TypeOK
<1> QED
  BY <1>2, <1>3, <1>4 DEF TypeOK, MoveIn, IsExcluded

\* A folder that goes keeps the types.
LEMMA MoveOutType ==
  ASSUME TypeOK, NEW d \in Dirs, MoveOut(d)
  PROVE  TypeOK'
<1>1. d \in Paths \ {Root} /\ Root \notin Within(d)
  BY Tree, WatchAssumption DEF MoveOut, Within, Below, WatchAssumption
<1>2. kernel' \in Seq(Paths \ {Root}) /\ Len(kernel') <= MaxQueue
  BY <1>1, NotifiedType, ChangesType DEF MoveOut
<1>3. lost' \subseteq Paths /\ unheard' \subseteq Paths /\ n' \in [changes : Nat, starts : Nat]
  BY <1>1, NoteType, ChangesType DEF MoveOut
<1>4. there' \subseteq Paths /\ Root \in there' /\ fresh' \subseteq Archives \intersect there'
      /\ logs' \subseteq Dirs \intersect there' /\ watches' \subseteq Paths
  BY <1>1 DEF MoveOut, TypeOK
<1> QED
  BY <1>2, <1>3, <1>4 DEF TypeOK, MoveOut, IsExcluded

\* An archive that is written keeps the types.
LEMMA WriteType ==
  ASSUME TypeOK, NEW a \in Archives, Write(a)
  PROVE  TypeOK'
<1>1. a \in Paths \ {Root} /\ {} \in SUBSET Paths
  BY Tree
<1>2. n' \in [changes : Nat, starts : Nat] /\ Len(kernel) < MaxQueue /\ Land(a, {})
  BY ChangesType DEF Write
<1>3. /\ there' \subseteq Paths /\ Root \in there' /\ logs \subseteq Dirs \intersect there' /\ there \subseteq there'
      /\ a \in there' /\ kernel' \in Seq(Paths \ {Root}) /\ Len(kernel') <= MaxQueue
      /\ lost' \subseteq Paths /\ unheard' \subseteq Paths
  BY <1>1, <1>2, LandType
<1>4. fresh' \subseteq Archives \intersect there'
  BY <1>3 DEF Write, TypeOK
<1> QED
  BY <1>2, <1>3, <1>4 DEF TypeOK, Write, IsExcluded

\* An archive that is removed keeps the types.
LEMMA RemoveType ==
  ASSUME TypeOK, NEW a \in Archives, Remove(a)
  PROVE  TypeOK'
<1>1. a \in Paths \ {Root} /\ a \notin Dirs
  BY Tree
<1>2. kernel' \in Seq(Paths \ {Root}) /\ Len(kernel') <= MaxQueue
  BY <1>1, NotifiedType, ChangesType DEF Remove
<1>3. lost' \subseteq Paths /\ unheard' \subseteq Paths /\ n' \in [changes : Nat, starts : Nat]
  BY <1>1, NoteType, ChangesType DEF Remove
<1>4. there' \subseteq Paths /\ Root \in there' /\ fresh' \subseteq Archives \intersect there'
      /\ logs' \subseteq Dirs \intersect there' /\ watches' \subseteq Paths
  BY <1>1, Tree DEF Remove, TypeOK
<1> QED
  BY <1>2, <1>3, <1>4 DEF TypeOK, Remove, IsExcluded

\* The end of an extraction keeps the types.
LEMMA ExtractType ==
  ASSUME TypeOK, NEW p \in Paths \ {Root}, Extract(p)
  PROVE  TypeOK'
<1>1. PICK o \in OutputOf(p) :
        /\ \/ o \notin there /\ Land(o, InnerOf(o))
           \/ /\ o \in there /\ there' = there \union InnerOf(o) /\ UNCHANGED <<lost, unheard>>
              /\ \E q \in {o} \union InnerOf(o) : kernel' = Notified(q)
        /\ logs' = IF cfg.logged THEN logs \union {o} ELSE logs
  BY DEF Extract
<1>2. o \in Dirs /\ o \in Paths \ {Root} /\ InnerOf(o) \in SUBSET (Paths \ {Root}) /\ Len(kernel) < MaxQueue
  BY OutputOfType, OutputFolder, Tree DEF InnerOf, Extract
<1>3. /\ there' \subseteq Paths /\ Root \in there' /\ logs' \subseteq Dirs \intersect there' /\ there \subseteq there'
      /\ kernel' \in Seq(Paths \ {Root}) /\ Len(kernel') <= MaxQueue
      /\ lost' \subseteq Paths /\ unheard' \subseteq Paths
  <2>1. CASE o \notin there /\ Land(o, InnerOf(o))
    BY <1>1, <1>2, <2>1, LandType
  <2>2. CASE /\ o \in there /\ there' = there \union InnerOf(o) /\ UNCHANGED <<lost, unheard>>
             /\ \E q \in {o} \union InnerOf(o) : kernel' = Notified(q)
    <3>1. kernel' \in Seq(Paths \ {Root}) /\ Len(kernel') <= MaxQueue
      BY <1>2, <2>2, NotifiedType
    <3> QED
      BY <1>1, <1>2, <2>2, <3>1 DEF TypeOK
  <2> QED
    BY <1>1, <2>1, <2>2
<1> QED
  BY <1>3 DEF TypeOK, Extract, IsExcluded

\* What is moved back, piece by piece, keeps the types.
LEMMA MoveBackType ==
  ASSUME TypeOK, NEW p \in Paths \ {Root}, MoveBack(p)
  PROVE  TypeOK'
<1>1. PICK o \in OutputOf(p) :
          \/ o \notin there /\ Up[o] \in there /\ Changes /\ Land(o, {}) /\ UNCHANGED logs
          \/ o \in there /\ Changes /\ UNCHANGED logs /\ \E x \in InnerOf(o) \ there : Land(x, {})
          \/ /\ o \in there /\ cfg.logged /\ logs' = logs \union {o}
             /\ UNCHANGED <<there, kernel, lost, unheard, n>>
  BY DEF MoveBack
<1>2. o \in Dirs /\ o \in Paths \ {Root} /\ InnerOf(o) \in SUBSET (Paths \ {Root}) /\ {} \in SUBSET Paths
  BY OutputOfType, OutputFolder, Tree DEF InnerOf
<1>3. /\ there' \subseteq Paths /\ Root \in there' /\ logs' \subseteq Dirs \intersect there' /\ there \subseteq there'
      /\ kernel' \in Seq(Paths \ {Root}) /\ Len(kernel') <= MaxQueue
      /\ lost' \subseteq Paths /\ unheard' \subseteq Paths /\ n' \in [changes : Nat, starts : Nat]
  <2>1. ASSUME NEW q \in Paths \ {Root}, Changes, Land(q, {}), UNCHANGED logs
        PROVE  /\ there' \subseteq Paths /\ Root \in there' /\ logs' \subseteq Dirs \intersect there' /\ there \subseteq there'
               /\ kernel' \in Seq(Paths \ {Root}) /\ Len(kernel') <= MaxQueue
               /\ lost' \subseteq Paths /\ unheard' \subseteq Paths /\ n' \in [changes : Nat, starts : Nat]
    BY <1>2, <2>1, LandType, ChangesType
  <2>2. CASE o \notin there /\ Up[o] \in there /\ Changes /\ Land(o, {}) /\ UNCHANGED logs
    BY <1>2, <2>1, <2>2
  <2>3. CASE o \in there /\ Changes /\ UNCHANGED logs /\ \E x \in InnerOf(o) \ there : Land(x, {})
    BY <1>2, <2>1, <2>3
  <2>4. CASE o \in there /\ logs' = logs \union {o} /\ UNCHANGED <<there, kernel, lost, unheard, n>>
    BY <1>2, <2>4 DEF TypeOK
  <2> QED
    BY <1>1, <2>2, <2>3, <2>4
<1> QED
  BY <1>3 DEF TypeOK, MoveBack, IsExcluded

\* Every step keeps the types.
LEMMA TypeStep == TypeOK /\ [Next]_vars => TypeOK'
<1> SUFFICES ASSUME TypeOK, [Next]_vars PROVE TypeOK'
  OBVIOUS
<1>1. CASE HandleFileEvent
  BY <1>1, HandleFileEventType
<1>2. CASE ProcessEvent
  BY <1>2, ProcessEventType
<1>3. CASE AddWatchDir
  BY <1>3, AddWatchDirType
<1>4. CASE ReadDir
  BY <1>4, ReadDirType
<1>5. CASE EndScan
  BY <1>5, EndScanType
<1>6. CASE FindArchive \/ \E p \in Paths : CheckWaitingFolder(p) \/ Leave(p)
  BY <1>6, FindArchiveType, CheckWaitingFolderType
<1>7. CASE World
  <2>1. CASE \E d \in Dirs : MoveOut(d)
    BY <2>1, MoveOutType
  <2>2. CASE \E d \in Dirs : \E with \in {{}, Below(d) \ Inner} : MoveIn(d, with)
    BY <2>2, MoveInType
  <2>3. CASE \E a \in Archives : Write(a) \/ Remove(a)
    BY <2>3, WriteType, RemoveType
  <2>4. CASE \E p \in Paths \ {Root} : Extract(p) \/ MoveBack(p)
    BY <2>4, ExtractType, MoveBackType
  <2> QED
    BY <1>7, <2>1, <2>2, <2>3, <2>4 DEF World
<1>8. CASE Start
  BY <1>8, StartType
<1>9. CASE Crash
  BY <1>9, CrashType
<1>10. CASE UNCHANGED vars
  BY <1>10 DEF vars, TypeOK, IsExcluded
<1> QED
  BY <1>1, <1>2, <1>3, <1>4, <1>5, <1>6, <1>7, <1>8, <1>9, <1>10 DEF Next

\* Whatever tree is watched and whatever happens to it, the state keeps its
\* type and no event of an excluded path reaches the main loop.
THEOREM TypeCorrect == Spec => []TypeOK
BY InitType, TypeStep, PTL DEF Spec

-----------------------------------------------------------------------------
(* Output of an extraction is told from work by its log.                   *)

\* What came out of an extraction lies beside a log, as long as it is there.
LogsStay == cfg.logged /\ ~cfg.moveBack => \A x \in Inner \intersect there : Up[x] \in logs

\* An archive that came out of an extraction lies in an output folder.
LEMMA InnerFolder ==
  ASSUME NEW x \in Inner
  PROVE  x \in Paths \ {Root} /\ x \notin Dirs /\ Up[x] \in Dirs \ {Root} /\ Up[x] \in Above[x]
BY Tree, OutputFolder

\* No step takes a log from output that stays, nor brings output without one.
LEMMA LogsStep ==
  ASSUME TypeOK, LogsStay, [Next]_vars
  PROVE  LogsStay'
<1> SUFFICES ASSUME cfg'.logged, ~cfg'.moveBack, NEW x \in Inner, x \in there'
             PROVE  Up[x] \in logs'
  BY DEF LogsStay
<1> USE DEF LogsStay
<1>1. CASE UNCHANGED <<cfg, disk>>
  BY <1>1 DEF disk
<1>2. ASSUME NEW d \in Dirs, MoveOut(d)
      PROVE  Up[x] \in logs'
  <2>1. x \in there /\ x \notin Within(d) /\ Up[x] \in logs
    BY <1>2 DEF MoveOut
  <2>2. Above[x] = {Up[x]} \union Above[Up[x]] /\ x \in Paths
    BY InnerFolder, WatchAssumption DEF WatchAssumption
  <2>3. Up[x] \notin Within(d)
    BY <2>1, <2>2 DEF Within, Below
  <2> QED
    BY <1>2, <2>1, <2>3 DEF MoveOut
<1>3. ASSUME NEW d \in Dirs, NEW with \in {{}, Below(d) \ Inner}, MoveIn(d, with)
      PROVE  Up[x] \in logs'
  <2>1. x \notin with /\ x # d
    BY <1>3, InnerFolder
  <2> QED
    BY <1>3, <2>1 DEF MoveIn, Land
<1>4. ASSUME NEW a \in Archives, Write(a) \/ Remove(a)
      PROVE  Up[x] \in logs'
  BY <1>4 DEF Write, Land, Remove
<1>5. ASSUME NEW p \in Paths \ {Root}, Extract(p) \/ MoveBack(p)
      PROVE  Up[x] \in logs'
  <2>1. cfg' = cfg /\ Extract(p)
    BY <1>5 DEF Extract, MoveBack
  <2>2. PICK o \in OutputOf(p) : there' = there \union {o} \union InnerOf(o) /\ logs' = logs \union {o}
    <3>1. PICK o \in OutputOf(p) :
            /\ \/ o \notin there /\ Land(o, InnerOf(o))
               \/ o \in there /\ there' = there \union InnerOf(o)
            /\ logs' = IF cfg.logged THEN logs \union {o} ELSE logs
      BY <2>1 DEF Extract
    <3>2. there' = there \union {o} \union InnerOf(o)
      BY <3>1 DEF Land
    <3> QED
      BY <2>1, <3>1, <3>2
  <2>3. o \in Dirs /\ x \notin Dirs
    BY OutputOfType, InnerFolder
  <2>4. x \in there \/ Up[x] = o
    BY <2>2, <2>3 DEF InnerOf
  <2> QED
    BY <2>1, <2>2, <2>4
<1>6. CASE World
  BY <1>2, <1>3, <1>4, <1>5, <1>6 DEF World
<1>7. CASE UNCHANGED vars
  BY <1>1, <1>7 DEF vars, disk
<1>8. CASE HandleFileEvent \/ ProcessEvent \/ AddWatchDir \/ ReadDir \/ FindArchive \/ EndScan \/ Start \/ Crash
  BY <1>1, <1>8 DEF HandleFileEvent, ProcessEvent, AddWatchDir, ReadDir, FindArchive, EndScan, Start, Crash
<1>9. CASE \E p \in Paths : CheckWaitingFolder(p) \/ Leave(p)
  BY <1>1, <1>9 DEF CheckWaitingFolder, Leave
<1> QED
  BY <1>6, <1>7, <1>8, <1>9 DEF Next

\* What lies beside a log is inside an output folder.
LEMMA InnerInside ==
  ASSUME LogsStay, cfg.logged, ~cfg.moveBack, NEW x \in Inner, x \in there
  PROVE  InsideExtractDest(x)
BY InnerFolder DEF LogsStay, InsideExtractDest, IsExtractDest

\* The world changes neither the settings nor what the main loop has.
LEMMA WorldKeeps ==
  ASSUME World
  PROVE  UNCHANGED <<cfg, channel, watchDirs, tracked, main>>
BY DEF World, MoveOut, MoveIn, Write, Remove, Extract, MoveBack

\* What is saved and was no work of its own is one of those saved.
LEMMA SaveOnly ==
  ASSUME TypeOK, NEW ps, ps \subseteq Paths, Save(ps), NEW p \in Paths
  PROVE  /\ tracked'[p] # tracked[p] => p \in ps /\ p \in there /\ tracked'[p] = "waiting"
BY DEF Save, New, TypeOK

\* Whether the main loop or the world moves, output does not become work.
LEMMA NoWorkStep ==
  ASSUME TypeOK, LogsStay, OutputIsNoWork, [Next]_vars
  PROVE  OutputIsNoWork'
<1> SUFFICES ASSUME cfg'.logged, ~cfg'.moveBack, NEW x \in Inner
             PROVE  tracked'[x] = "no"
  BY DEF OutputIsNoWork
<1>0. cfg' = cfg
  BY WorldKeeps DEF Next, vars, HandleFileEvent, ProcessEvent, AddWatchDir, ReadDir, FindArchive, EndScan,
         Start, Crash, CheckWaitingFolder, Leave
<1>x. x \in Paths \ {Root} /\ x \notin Dirs /\ x \in Archives /\ tracked[x] = "no"
  BY <1>0, InnerFolder, Tree DEF OutputIsNoWork
<1>d. ASSUME NEW q \in Paths, NEW t \in [Paths -> {"no", "waiting", "queued"}], t[x] = "no"
      PROVE  DropMissing(q, t)[x] = "no"
  BY <1>d, <1>x, DropType
<1>1. CASE UNCHANGED tracked
  BY <1>1, <1>x
<1>2. CASE ProcessEvent
  <2> DEFINE p == Head(channel)
  <2>1. p \in Paths \ {Root} /\ (Unreadable(p) \/ SeenArchive(p) \/ SeenOutput(p) \/ SeenDir(p))
    BY <1>2, HeadTail DEF ProcessEvent, TypeOK
  <2>2. CASE Unreadable(p)
    BY <1>d, <1>x, <2>1, <2>2 DEF Unreadable, TypeOK
  <2>3. CASE SeenArchive(p)
    <3>1. CASE InsideExtractDest(p)
      BY <1>x, <2>3, <3>1 DEF SeenArchive
    <3>2. CASE ~InsideExtractDest(p)
      <4>1. p # x /\ {p} \subseteq Paths /\ Save({p})
        BY <1>0, <2>1, <2>3, <3>2, InnerInside DEF SeenArchive
      <4> QED
        BY <1>x, <4>1, SaveOnly
    <3> QED
      BY <3>1, <3>2
  <2>4. CASE SeenOutput(p) \/ SeenDir(p)
    BY <1>x, <2>1, <2>4 DEF SeenOutput, SeenDir, TypeOK
  <2> QED
    BY <2>1, <2>2, <2>3, <2>4
<1>3. CASE FindArchive
  <2> DEFINE a == Head(main.todo)
  <2>1. a \in Paths
    BY <1>3, FindArchiveWalk
  <2>2. CASE InsideExtractDest(a)
    BY <1>3, <1>x, <2>2 DEF FindArchive
  <2>3. CASE ~InsideExtractDest(a)
    <3>1. Save({a}) /\ {a} \subseteq Paths
      BY <1>3, <2>1, <2>3 DEF FindArchive
    <3>2. a = x => x \notin there
      BY <1>0, <2>3, InnerInside
    <3> QED
      BY <1>x, <3>1, <3>2, SaveOnly
  <2> QED
    BY <2>2, <2>3
<1>4. CASE EndScan
  <2>1. main.top \in Dirs /\ main.top \in Paths /\ x # main.top
    BY <1>4, <1>x, WalkType, Tree DEF EndScan
  <2>2. CASE Save({main.top})
    BY <1>x, <2>1, <2>2, SaveOnly
  <2>3. tracked \in [Paths -> {"no", "waiting", "queued"}]
        /\ [tracked EXCEPT ![main.top] = "no"] \in [Paths -> {"no", "waiting", "queued"}]
        /\ [tracked EXCEPT ![main.top] = "no"][x] = "no"
    BY <1>x, <2>1 DEF TypeOK
  <2>4. CASE tracked' = DropMissing(main.top, tracked)
    BY <1>d, <1>x, <2>1, <2>3, <2>4
  <2>5. CASE tracked' = DropMissing(main.top, [tracked EXCEPT ![main.top] = "no"])
    <3>1. DropMissing(main.top, [tracked EXCEPT ![main.top] = "no"])[x] = "no"
      BY <1>d, <2>1, <2>3
    <3> QED
      BY <2>5, <3>1
  <2> QED
    BY <1>4, <1>x, <2>2, <2>4, <2>5 DEF EndScan
<1>5. CASE Start
  BY <1>5, <1>x DEF Start, TypeOK
<1>6. CASE \E p \in Paths : CheckWaitingFolder(p) \/ Leave(p)
  BY <1>6, <1>x DEF CheckWaitingFolder, Leave, TypeOK
<1>7. CASE HandleFileEvent \/ AddWatchDir \/ ReadDir \/ Crash
  BY <1>1, <1>7 DEF HandleFileEvent, AddWatchDir, ReadDir, Crash
<1>8. CASE World
  BY <1>1, <1>8, WorldKeeps
<1>9. CASE UNCHANGED vars
  BY <1>1, <1>9 DEF vars
<1> QED
  BY <1>2, <1>3, <1>4, <1>5, <1>6, <1>7, <1>8, <1>9 DEF Next

\* In any tree, with the log on and move_back off, what an extraction brought
\* beside its archive or below extract_path never becomes work of its own,
\* though its archive goes and the process starts again.
THEOREM OutputStaysOut == Spec => []OutputIsNoWork
<1>1. Init => LogsStay /\ OutputIsNoWork
  BY InnerFolder DEF Init, LogsStay, OutputIsNoWork
<1>2. TypeOK /\ LogsStay /\ OutputIsNoWork /\ [Next]_vars => (LogsStay /\ OutputIsNoWork)'
  BY LogsStep, NoWorkStep
<1> QED
  BY <1>1, <1>2, TypeCorrect, PTL DEF Spec

-----------------------------------------------------------------------------
(* What is gone leaves the tracker and the table of watches: as long as it *)
(* is in one of them, an event that will tell of it is on its way.         *)

\* The events on their way to the main loop.
Pending == {kernel[i] : i \in DOMAIN kernel} \union {channel[i] : i \in DOMAIN channel}

\* What the program must still be told of: gone, and not known to be unheard.
Owed(p) ==
  /\ p \notin there
  /\ (tracked[p] = "waiting" /\ p \notin unheard) \/ (p \in watchDirs /\ p \notin lost)

\* An event tells of it, of itself or of a folder around it.
Told(p) == \E q \in Pending : q \notin there /\ p \in Within(q)

\* The event that tells of it is not filtered out: what is tracked, watched or
\* walked is not excluded.
Allowed ==
  /\ \A p \in Paths : tracked[p] # "no" => ~IsExcluded(p)
  /\ \A d \in watchDirs : d = Root \/ ~IsExcluded(d)
  /\ main.at \in {"watch", "read"} =>
       /\ main.top = Root \/ ~IsExcluded(main.top)
       /\ \A i \in DOMAIN main.todo : main.todo[i] = Root \/ ~IsExcluded(main.todo[i])

\* What is on the disk is in folders that are on the disk.
Closed == \A q \in there : Above[q] \subseteq there

\* Nothing that is owed is untold while the process runs.
Heard == main # Down => \A p \in Paths : Owed(p) => Told(p)

GhostInv == TypeOK /\ Allowed /\ Closed /\ Heard

\* An excluded folder excludes all within it.
LEMMA ExcludedWithin ==
  ASSUME NEW p \in Paths, NEW q, p \in Within(q), IsExcluded(q)
  PROVE  IsExcluded(p)
<1>1. q = p \/ q \in Above[p]
  BY DEF Within, Below
<1>2. CASE q \in Above[p]
  BY <1>2, Order DEF IsExcluded
<1> QED
  BY <1>1, <1>2

\* Within is transitive.
LEMMA WithinWithin ==
  ASSUME NEW p \in Paths, NEW q \in Paths, NEW d, p \in Within(q), q \in Within(d)
  PROVE  p \in Within(d)
<1>1. (q = p \/ q \in Above[p]) /\ (d = q \/ d \in Above[q])
  BY DEF Within, Below
<1>2. d = p \/ d \in Above[p]
  BY <1>1, Order
<1> QED
  BY <1>2 DEF Within, Below

\* A filtered event leaves the others on their way.
LEMMA FilterPending ==
  ASSUME TypeOK, HandleFileEvent, NEW q \in Pending
  PROVE  q \in Pending' \/ IsExcluded(q)
<1>1. kernel \in Seq(Paths \ {Root}) /\ kernel # <<>> /\ channel \in Seq(Paths \ {Root}) /\ kernel' = Tail(kernel)
  BY DEF TypeOK, HandleFileEvent
<1>2. CASE \E i \in DOMAIN kernel : q = kernel[i]
  <2>1. PICK i \in DOMAIN kernel : q = kernel[i]
    BY <1>2
  <2>2. CASE i - 1 \in DOMAIN Tail(kernel) /\ Tail(kernel)[i - 1] = kernel[i]
    BY <1>1, <2>1, <2>2 DEF Pending
  <2>3. CASE i = 1
    <3>1. q = Head(kernel) /\ q \in Paths \ {Root}
      BY <1>1, <2>1, <2>3, HeadTail
    <3>2. CASE channel' = Append(channel, Head(kernel))
      <4>1. Len(channel) + 1 \in DOMAIN channel' /\ channel'[Len(channel) + 1] = q
        BY <1>1, <3>1, <3>2, Appended
      <4> QED
        BY <4>1 DEF Pending
    <3> QED
      BY <3>1, <3>2 DEF HandleFileEvent
  <2> QED
    BY <1>1, <2>1, <2>2, <2>3, HeadTail
<1>3. CASE \E i \in DOMAIN channel : q = channel[i]
  <2>1. PICK i \in DOMAIN channel : q = channel[i]
    BY <1>3
  <2>2. CASE UNCHANGED channel
    BY <2>1, <2>2 DEF Pending
  <2>3. CASE channel' = Append(channel, Head(kernel))
    <3>1. i \in DOMAIN channel' /\ channel'[i] = q
      BY <1>1, <2>1, <2>3, HeadTail, Appended
    <3> QED
      BY <3>1 DEF Pending
  <2> QED
    BY <2>2, <2>3 DEF HandleFileEvent
<1> QED
  BY <1>2, <1>3 DEF Pending

\* A processed event leaves the others on their way.
LEMMA ProcessPending ==
  ASSUME TypeOK, ProcessEvent, NEW q \in Pending
  PROVE  q \in Pending' \/ q = Head(channel)
<1>1. channel \in Seq(Paths \ {Root}) /\ channel # <<>> /\ channel' = Tail(channel) /\ kernel' = kernel
  BY DEF TypeOK, ProcessEvent
<1>2. CASE \E i \in DOMAIN kernel : q = kernel[i]
  BY <1>1, <1>2 DEF Pending
<1>3. CASE \E i \in DOMAIN channel : q = channel[i]
  <2>1. PICK i \in DOMAIN channel : q = channel[i]
    BY <1>3
  <2>2. CASE i - 1 \in DOMAIN Tail(channel) /\ Tail(channel)[i - 1] = channel[i]
    BY <1>1, <2>1, <2>2 DEF Pending
  <2>3. CASE i = 1
    BY <1>1, <2>1, <2>3, HeadTail
  <2> QED
    BY <1>1, <2>1, <2>2, <2>3, HeadTail
<1> QED
  BY <1>2, <1>3 DEF Pending

\* A new event joins the others, if a watch tells of it.
LEMMA NotifiedPending ==
  ASSUME TypeOK, NEW p \in Paths \ {Root}, kernel' = Notified(p), channel' = channel
  PROVE  Pending \subseteq Pending' /\ (Watched(p) => p \in Pending')
<1>1. kernel \in Seq(Paths \ {Root}) /\ Len(kernel) \in Nat
  BY DEF TypeOK
<1>2. CASE kernel' = kernel
  <2>1. Pending' = Pending
    BY <1>2 DEF Pending
  <2>2. ASSUME Watched(p) PROVE p \in Pending'
    <3>1. kernel # <<>> /\ kernel[Len(kernel)] = p
      <4>1. kernel # Append(kernel, p)
        BY <1>1, Appended
      <4> QED
        BY <1>2, <2>2, <4>1 DEF Notified
    <3>2. Len(kernel) \in DOMAIN kernel
      BY <1>1, <3>1
    <3> QED
      BY <1>2, <3>1, <3>2 DEF Pending
  <2> QED
    BY <2>1, <2>2
<1>3. CASE kernel' = Append(kernel, p)
  <2>1. \A i \in DOMAIN kernel : i \in DOMAIN kernel' /\ kernel'[i] = kernel[i]
    BY <1>1, <1>3, Appended
  <2>2. Len(kernel) + 1 \in DOMAIN kernel' /\ kernel'[Len(kernel) + 1] = p
    BY <1>1, <1>3, Appended
  <2> QED
    BY <2>1, <2>2 DEF Pending
<1> QED
  BY <1>2, <1>3 DEF Notified

\* With the disk as it was and nothing new that is owed, what was told is
\* told, but for the event that was handled.
LEMMA SameDisk ==
  ASSUME Heard, main # Down, there' = there,
         \A p \in Paths : Owed(p)' => Owed(p),
         NEW e, \A q \in Pending : q \in Pending' \/ q = e,
         e \in there \/ \A p \in Within(e) : ~Owed(p)'
  PROVE  Heard'
<1> SUFFICES ASSUME NEW p \in Paths, Owed(p)'
             PROVE  Told(p)'
  BY DEF Heard
<1>1. PICK q \in Pending : q \notin there /\ p \in Within(q)
  BY DEF Heard, Told
<1>2. q # e
  BY <1>1
<1>3. q \in Pending' /\ q \notin there'
  BY <1>1, <1>2
<1> QED
  BY <1>1, <1>3 DEF Told, Within, Below

\* An unreadable path and what waits below it leave the tracker; nothing new
\* is tracked.
LEMMA UnreadableTracked ==
  ASSUME TypeOK, NEW p \in Paths, Unreadable(p), NEW q \in Paths
  PROVE  /\ tracked'[q] = tracked[q] \/ tracked'[q] = "no"
         /\ q \in Within(p) => tracked'[q] # "waiting"
<1> DEFINE t == [tracked EXCEPT ![p] = "no"]
<1>1. /\ t \in [Paths -> {"no", "waiting", "queued"}]
      /\ t[q] = tracked[q] \/ t[q] = "no"
      /\ t[p] = "no"
  BY DEF TypeOK
<1> HIDE DEF t
<1>2. tracked' = DropMissing(p, t) /\ p \notin there
  BY DEF Unreadable, t
<1>3. tracked'[q] = t[q] \/ tracked'[q] = "no"
  BY <1>1, <1>2, DropType
<1>4. q \in Below(p) => tracked'[q] # "waiting"
  BY <1>1, <1>2, DropType
<1> QED
  BY <1>1, <1>3, <1>4 DEF Within

\* At the start nothing is tracked, watched or there but the root.
LEMMA InitGhosts == Init => GhostInv
<1> SUFFICES ASSUME Init PROVE GhostInv
  OBVIOUS
<1>1. TypeOK
  BY InitType
<1>2. Above[Root] = {}
  BY WatchAssumption DEF WatchAssumption
<1> QED
  BY <1>1, <1>2, Ats DEF Init, GhostInv, Allowed, Closed, Heard

\* The end of a walk tracks its first folder at most, if that is there.
LEMMA EndScanTracked ==
  ASSUME TypeOK, EndScan, NEW q \in Paths
  PROVE  tracked'[q] = tracked[q] \/ tracked'[q] = "no" \/ (q = main.top /\ q # Root /\ q \in there)
<1> DEFINE t == [tracked EXCEPT ![main.top] = "no"]
<1>1. main.top \in Paths
  BY WalkType, Tree DEF EndScan
<1>2. /\ tracked \in [Paths -> {"no", "waiting", "queued"}] /\ t \in [Paths -> {"no", "waiting", "queued"}]
      /\ t[q] = tracked[q] \/ t[q] = "no"
  BY <1>1 DEF TypeOK
<1> HIDE DEF t
<1>3. CASE UNCHANGED tracked
  BY <1>3
<1>4. CASE main.top # Root /\ Save({main.top})
  BY <1>1, <1>4, SaveOnly
<1>5. CASE tracked' = DropMissing(main.top, tracked)
  BY <1>1, <1>2, <1>5, DropType
<1>6. CASE tracked' = DropMissing(main.top, t)
  <2>1. tracked'[q] = t[q] \/ tracked'[q] = "no"
    BY <1>1, <1>2, <1>6, DropType
  <2> QED
    BY <1>2, <2>1
<1> QED
  BY <1>3, <1>4, <1>5, <1>6 DEF EndScan, t

\* No step tracks, watches or walks what is excluded.
LEMMA AllowedStep ==
  ASSUME TypeOK, Allowed, [Next]_vars
  PROVE  Allowed'
<1> USE DEF Allowed
<1>1. ASSUME main' = main, watchDirs' \subseteq watchDirs,
             \A p \in Paths : tracked'[p] # "no" => tracked[p] # "no"
      PROVE  Allowed'
  BY <1>1 DEF IsExcluded
<1>2. CASE HandleFileEvent
  BY <1>1, <1>2 DEF HandleFileEvent
<1>3. CASE ProcessEvent
  <2> DEFINE p == Head(channel)
  <2>1. p \in Paths \ {Root} /\ ~IsExcluded(p)
    BY <1>3, HeadTail DEF ProcessEvent, TypeOK
  <2>2. CASE Unreadable(p)
    <3>1. \A q \in Paths : tracked'[q] # "no" => tracked[q] # "no"
      BY <2>1, <2>2, UnreadableTracked
    <3> QED
      BY <2>2, <3>1, Ats DEF Unreadable, RemoveWatchDirs, IsExcluded
  <2>3. CASE SeenArchive(p)
    <3>1. CASE InsideExtractDest(p)
      BY <2>3, <3>1, Ats DEF SeenArchive, IsExcluded
    <3>2. CASE ~InsideExtractDest(p)
      <4>1. Save({p}) /\ {p} \subseteq Paths /\ watchDirs' = watchDirs /\ main' = Idle
        BY <2>1, <2>3, <3>2 DEF SeenArchive
      <4>2. \A q \in Paths : tracked'[q] # "no" => tracked[q] # "no" \/ q = p
        BY <4>1, SaveOnly
      <4> QED
        BY <2>1, <4>1, <4>2, Ats DEF IsExcluded
    <3> QED
      BY <3>1, <3>2
  <2>4. CASE SeenOutput(p)
    <3>1. \A q \in Paths : tracked'[q] # "no" => tracked[q] # "no"
      BY <2>4 DEF SeenOutput, TypeOK
    <3> QED
      BY <2>4, <3>1, Ats DEF SeenOutput, IsExcluded
  <2>5. CASE SeenDir(p)
    <3>1. main' = Scan(p) /\ p \in Dirs /\ tracked' = tracked /\ watchDirs' = watchDirs
      BY <2>5 DEF SeenDir
    <3>2. main'.top = p /\ main'.todo = <<p>>
      BY <3>1, ScanType
    <3> QED
      BY <2>1, <3>1, <3>2 DEF IsExcluded
  <2> QED
    BY <1>3, <2>2, <2>3, <2>4, <2>5 DEF ProcessEvent
<1>4. CASE AddWatchDir
  <2> DEFINE d == Head(main.todo)
  <2>1. /\ main.todo \in Seq(Paths) /\ main.todo # <<>> /\ main.at = "watch"
        /\ main'.top = main.top /\ (main'.todo = main.todo \/ main'.todo = Tail(main.todo))
    BY <1>4, AddWatchDirWalk
  <2>2. (d = Root \/ ~IsExcluded(d)) /\ (main.top = Root \/ ~IsExcluded(main.top))
    BY <2>1, HeadTail
  <2>3. \A i \in DOMAIN Tail(main.todo) : Tail(main.todo)[i] = Root \/ ~IsExcluded(Tail(main.todo)[i])
    BY <2>1, HeadTail
  <2>4. watchDirs' \subseteq watchDirs \union {d} /\ tracked' = tracked
    BY <1>4 DEF AddWatchDir
  <2> QED
    BY <2>1, <2>2, <2>3, <2>4 DEF IsExcluded
<1>5. CASE ReadDir
  <2> DEFINE d == Head(main.todo)
  <2>1. /\ main.at = "read" /\ main'.top = main.top /\ main.todo \in Seq(Paths) /\ main.todo # <<>>
        /\ tracked' = tracked /\ watchDirs' = watchDirs
    BY <1>5, ReadDirWalk DEF ReadDir
  <2>2. Parts(main'.todo) \subseteq Entries(d) \union Parts(main.todo)
    <3>1. After(main.todo) \subseteq Parts(main.todo)
      BY <2>1, Rest
    <3>2. Parts(main'.todo) = IF d \in there THEN Entries(d) \union After(main.todo) ELSE {}
      BY <1>5, ReadDirWalk
    <3> QED
      BY <3>1, <3>2
  <2>3. \A q \in Entries(d) : ~IsExcluded(q)
    BY DEF Entries
  <2>4. \A q \in Parts(main.todo) : q = Root \/ ~IsExcluded(q)
    BY <2>1 DEF Parts
  <2>5. \A i \in DOMAIN main'.todo : main'.todo[i] \in Parts(main'.todo)
    BY DEF Parts
  <2>6. \A i \in DOMAIN main'.todo : main'.todo[i] = Root \/ ~IsExcluded(main'.todo[i])
    BY <2>2, <2>3, <2>4, <2>5
  <2> QED
    BY <2>1, <2>6 DEF IsExcluded
<1>6. CASE EndScan
  <2>1. main.top \in Dirs /\ main.top \in Paths /\ main' = Idle /\ watchDirs' = watchDirs
        /\ (main.top = Root \/ ~IsExcluded(main.top))
    BY <1>6, WalkType, Tree DEF EndScan
  <2>2. \A q \in Paths : tracked'[q] # "no" => tracked[q] # "no" \/ ~IsExcluded(q)
    BY <1>6, <2>1, EndScanTracked
  <2> QED
    BY <2>1, <2>2, Ats DEF IsExcluded
<1>7. CASE \E p \in Paths : CheckWaitingFolder(p) \/ Leave(p)
  <2>1. PICK p \in Paths : CheckWaitingFolder(p) \/ Leave(p)
    BY <1>7
  <2>2. \A q \in Paths : tracked'[q] # "no" => tracked[q] # "no"
    BY <2>1 DEF CheckWaitingFolder, Leave, TypeOK
  <2> QED
    BY <1>1, <2>1, <2>2 DEF CheckWaitingFolder, Leave
<1>8. CASE World
  BY <1>1, <1>8, WorldKeeps
<1>9. CASE Start
  <2>1. main' = Scan(Root) /\ watchDirs' = {Root} /\ \A q \in Paths : tracked'[q] # "no" => tracked[q] # "no"
    BY <1>9 DEF Start
  <2>2. main'.top = Root /\ main'.todo = <<Root>>
    BY <2>1, Tree, ScanType
  <2> QED
    BY <2>1, <2>2 DEF IsExcluded
<1>10. CASE Crash
  BY <1>10, Ats DEF Crash, IsExcluded
<1>11. CASE UNCHANGED vars
  BY <1>1, <1>11 DEF vars
<1>12. CASE FindArchive
  <2> DEFINE a == Head(main.todo)
  <2>1. /\ main.todo \in Seq(Paths) /\ main.todo # <<>> /\ main.at = "watch" /\ a \in Paths /\ a # Root
        /\ main'.top = main.top /\ main'.todo = Tail(main.todo) /\ watchDirs' = watchDirs
    BY <1>12, FindArchiveWalk, Tree DEF FindArchive
  <2>2. ~IsExcluded(a) /\ (main.top = Root \/ ~IsExcluded(main.top))
    BY <2>1, HeadTail
  <2>3. \A i \in DOMAIN Tail(main.todo) : Tail(main.todo)[i] = Root \/ ~IsExcluded(Tail(main.todo)[i])
    BY <2>1, HeadTail
  <2>4. \A q \in Paths : tracked'[q] # "no" => tracked[q] # "no" \/ q = a
    <3>1. CASE InsideExtractDest(a)
      BY <1>12, <3>1 DEF FindArchive
    <3>2. CASE ~InsideExtractDest(a)
      <4>1. Save({a}) /\ {a} \subseteq Paths
        BY <1>12, <2>1, <3>2 DEF FindArchive
      <4> QED
        BY <4>1, SaveOnly
    <3> QED
      BY <3>1, <3>2
  <2> HIDE DEF a
  <2> QED
    BY <2>1, <2>2, <2>3, <2>4 DEF IsExcluded
<1> QED
  BY <1>2, <1>3, <1>4, <1>5, <1>6, <1>7, <1>8, <1>9, <1>10, <1>11, <1>12 DEF Next

\* Folders come with the folders they are in and go with all within them.
LEMMA ClosedStep ==
  ASSUME TypeOK, Closed, [Next]_vars
  PROVE  Closed'
<1> USE DEF Closed
<1>u. \A p \in Paths \ {Root} : Above[p] = {Up[p]} \union Above[Up[p]]
  BY WatchAssumption DEF WatchAssumption
<1>1. CASE UNCHANGED there
  BY <1>1
<1>2. ASSUME NEW d \in Dirs, MoveOut(d) PROVE Closed'
  <2> SUFFICES ASSUME NEW q \in there, q \notin Within(d), NEW r \in Above[q]
               PROVE  r \in there \ Within(d)
    BY <1>2 DEF MoveOut
  <2>1. q \in Paths /\ r \in Paths /\ r \in there
    BY Tree DEF TypeOK
  <2>2. q \in Within(r)
    BY <2>1 DEF Within, Below
  <2> QED
    BY <2>1, <2>2, WithinWithin
<1>3. ASSUME NEW d \in Dirs, NEW with \in {{}, Below(d) \ Inner}, MoveIn(d, with) PROVE Closed'
  <2>1. d \in Paths \ {Root} /\ there' = there \union with \union {d} /\ Up[d] \in there
    BY <1>3, Tree DEF MoveIn, Land, TypeOK
  <2>2. Above[d] \subseteq there
    BY <1>u, <2>1
  <2> SUFFICES ASSUME NEW q \in with, NEW r \in Above[q]
               PROVE  r \in there'
    BY <2>1, <2>2
  <2>3. q \in Paths /\ d \in Above[q] /\ with = Below(d) \ Inner
    BY DEF Below
  <2>4. r = d \/ r \in Above[d] \/ d \in Above[r]
    BY <2>3, Order
  <2>5. r \in Dirs /\ r \in Paths /\ r \notin Inner
    BY <2>3, Tree
  <2> QED
    BY <2>1, <2>2, <2>3, <2>4, <2>5 DEF Below
<1>l. ASSUME NEW o \in Paths \ {Root}, Up[o] \in there, NEW inner, \A x \in inner : x \in Inner /\ Up[x] = o,
             there' = there \union {o} \union inner
      PROVE  Closed'
  <2>1. Above[o] \subseteq there
    BY <1>u, <1>l
  <2>2. \A x \in inner : Above[x] = {o} \union Above[o]
    BY <1>u, <1>l, InnerFolder
  <2> QED
    BY <1>l, <2>1, <2>2
<1>m. ASSUME NEW q \in Paths \ {Root}, Up[q] \in there, there' = there \union {q}
      PROVE  Closed'
  <2>1. Above[q] \subseteq there
    BY <1>u, <1>m
  <2> QED
    BY <1>m, <2>1
<1>4. ASSUME NEW a \in Archives, Write(a) PROVE Closed'
  <2>1. a \in Paths \ {Root} /\ Up[a] \in there /\ there' = there \union {a}
    BY <1>4, Tree DEF Write, Land
  <2> QED
    BY <1>m, <2>1
<1>5. ASSUME NEW a \in Archives, Remove(a) PROVE Closed'
  <2>1. \A q \in there : a \notin Above[q]
    BY Tree DEF TypeOK
  <2> QED
    BY <1>5, <2>1 DEF Remove
<1>6. ASSUME NEW p \in Paths \ {Root}, Extract(p) PROVE Closed'
  <2>1. PICK o \in OutputOf(p) : Up[o] \in there /\ there' = there \union {o} \union InnerOf(o)
    <3>1. PICK o \in OutputOf(p) :
            /\ Up[o] \in there
            /\ \/ o \notin there /\ Land(o, InnerOf(o))
               \/ o \in there /\ there' = there \union InnerOf(o)
      BY <1>6 DEF Extract
    <3>2. there' = there \union {o} \union InnerOf(o)
      BY <3>1 DEF Land
    <3> QED
      BY <3>1, <3>2
  <2>2. o \in Paths \ {Root} /\ \A x \in InnerOf(o) : x \in Inner /\ Up[x] = o
    BY OutputOfType DEF InnerOf
  <2> QED
    BY <1>l, <2>1, <2>2
<1>11. ASSUME NEW p \in Paths \ {Root}, MoveBack(p) PROVE Closed'
  <2>1. CASE UNCHANGED there
    BY <1>1, <2>1
  <2>2. ASSUME ~UNCHANGED there
        PROVE  Closed'
    <3>1. PICK o \in OutputOf(p) :
            \/ Up[o] \in there /\ Land(o, {})
            \/ o \in there /\ \E x \in InnerOf(o) : Land(x, {})
      BY <1>11, <2>2 DEF MoveBack
    <3>2. o \in Paths \ {Root} /\ \A x \in InnerOf(o) : x \in Paths \ {Root} /\ Up[x] = o
      BY OutputOfType, InnerFolder DEF InnerOf
    <3>3. ASSUME Up[o] \in there, Land(o, {}) PROVE Closed'
      <4>1. there' = there \union {o}
        BY <3>3 DEF Land
      <4> QED
        BY <1>m, <3>2, <3>3, <4>1
    <3>4. ASSUME o \in there, NEW x \in InnerOf(o), Land(x, {}) PROVE Closed'
      <4>1. there' = there \union {x} /\ Up[x] \in there
        BY <3>2, <3>4 DEF Land
      <4> QED
        BY <1>m, <3>2, <4>1
    <3> QED
      BY <3>1, <3>3, <3>4
  <2> QED
    BY <2>1, <2>2
<1>7. CASE World
  BY <1>2, <1>3, <1>4, <1>5, <1>6, <1>7, <1>11 DEF World
<1>8. CASE HandleFileEvent \/ ProcessEvent \/ AddWatchDir \/ ReadDir \/ FindArchive \/ EndScan \/ Start \/ Crash
  BY <1>1, <1>8 DEF HandleFileEvent, ProcessEvent, AddWatchDir, ReadDir, FindArchive, EndScan, Start, Crash, disk
<1>9. CASE \E p \in Paths : CheckWaitingFolder(p) \/ Leave(p)
  BY <1>1, <1>9 DEF CheckWaitingFolder, Leave, disk
<1>10. CASE UNCHANGED vars
  BY <1>1, <1>10 DEF vars
<1> QED
  BY <1>7, <1>8, <1>9, <1>10 DEF Next

\* The goroutine keeps what tells of something.
LEMMA HeardFilter ==
  ASSUME GhostInv, HandleFileEvent
  PROVE  Heard'
<1> SUFFICES ASSUME NEW p \in Paths, Owed(p)'
             PROVE  Told(p)'
  BY DEF Heard
<1>1. UNCHANGED <<there, tracked, watchDirs, lost, unheard, main>>
  BY DEF HandleFileEvent, disk, seen
<1>2. Owed(p) /\ main # Down
  BY <1>1 DEF Owed, HandleFileEvent
<1>3. PICK q \in Pending : q \notin there /\ p \in Within(q)
  BY <1>2 DEF GhostInv, Heard, Told
<1>4. ~IsExcluded(p)
  <2>1. p # Root
    BY <1>2 DEF GhostInv, TypeOK, Owed
  <2> QED
    BY <1>2, <2>1 DEF GhostInv, Allowed, Owed
<1>5. q \in Pending'
  BY <1>3, <1>4, FilterPending, ExcludedWithin DEF GhostInv
<1> QED
  BY <1>1, <1>3, <1>5 DEF Told, Within, Below

\* An event that is processed tells of what it is about.
LEMMA HeardProcess ==
  ASSUME GhostInv, ProcessEvent
  PROVE  Heard'
<1> DEFINE e == Head(channel)
<1>1. e \in Paths \ {Root} /\ there' = there /\ main = Idle /\ TypeOK /\ Heard
  BY HeadTail DEF ProcessEvent, GhostInv, TypeOK, disk
<1>2. \A q \in Pending : q \in Pending' \/ q = e
  BY <1>1, ProcessPending
<1>3. lost' = lost /\ unheard' = unheard
  BY <1>1, AnswerType DEF ProcessEvent
<1>4. CASE Unreadable(e)
  <2>1. \A q \in Paths : (tracked'[q] = tracked[q] \/ tracked'[q] = "no") /\ (q \in Within(e) => tracked'[q] # "waiting")
    BY <1>1, <1>4, UnreadableTracked
  <2>2. watchDirs' = watchDirs \ Within(e)
    BY <1>4 DEF Unreadable, RemoveWatchDirs
  <2>3. \A p \in Paths : Owed(p)' => Owed(p)
    BY <1>1, <1>3, <2>1, <2>2 DEF Owed
  <2>4. Within(e) \subseteq Paths
    BY <1>1, BelowType DEF Within
  <2>5. \A p \in Within(e) : ~Owed(p)'
    BY <2>1, <2>2, <2>4 DEF Owed
  <2> QED
    BY <1>1, <1>2, <2>3, <2>5, SameDisk, Ats
<1>5. CASE e \in there /\ (SeenArchive(e) \/ SeenOutput(e) \/ SeenDir(e))
  <2>1. watchDirs' = watchDirs
    BY <1>5 DEF SeenArchive, SeenOutput, SeenDir
  <2>2. ASSUME NEW p \in Paths, p \notin there, tracked'[p] = "waiting" PROVE tracked[p] = "waiting"
    <3>1. CASE SeenArchive(e) /\ ~InsideExtractDest(e)
      <4>1. Save({e}) /\ {e} \subseteq Paths
        BY <1>1, <3>1 DEF SeenArchive
      <4> QED
        BY <1>1, <2>2, <4>1, SaveOnly
    <3>2. CASE SeenArchive(e) /\ InsideExtractDest(e)
      BY <2>2, <3>2 DEF SeenArchive
    <3>3. CASE SeenOutput(e) \/ SeenDir(e)
      BY <1>1, <2>2, <3>3 DEF SeenOutput, SeenDir, TypeOK
    <3> QED
      BY <1>5, <3>1, <3>2, <3>3
  <2>3. \A p \in Paths : Owed(p)' => Owed(p)
    BY <1>1, <1>3, <2>1, <2>2 DEF Owed
  <2> QED
    BY <1>1, <1>2, <1>5, <2>3, SameDisk, Ats
<1> QED
  BY <1>4, <1>5 DEF ProcessEvent, SeenArchive, SeenOutput, SeenDir

\* A walk and the looks at waiting items owe nothing new.
LEMMA HeardWalk ==
  ASSUME GhostInv,
         AddWatchDir \/ ReadDir \/ FindArchive \/ EndScan \/ \E p \in Paths : CheckWaitingFolder(p) \/ Leave(p)
  PROVE  Heard'
<1> USE DEF GhostInv
<1>1. there' = there /\ kernel' = kernel /\ channel' = channel /\ unheard' = unheard
  BY DEF AddWatchDir, ReadDir, FindArchive, EndScan, CheckWaitingFolder, Leave, disk, seen
<1>2. main # Down
  BY Ats DEF AddWatchDir, ReadDir, FindArchive, EndScan, CheckWaitingFolder, Leave
<1>3. \A q \in Pending : q \in Pending'
  BY <1>1 DEF Pending
<1>4. ASSUME NEW p \in Paths, p \notin there, tracked'[p] = "waiting" PROVE tracked[p] = "waiting"
  <2>1. CASE AddWatchDir \/ ReadDir
    BY <1>4, <2>1 DEF AddWatchDir, ReadDir
  <2>2. CASE FindArchive
    <3> DEFINE a == Head(main.todo)
    <3>1. CASE InsideExtractDest(a)
      BY <1>4, <2>2, <3>1 DEF FindArchive
    <3>2. CASE ~InsideExtractDest(a)
      <4>1. Save({a}) /\ {a} \subseteq Paths
        BY <2>2, <3>2, FindArchiveWalk DEF FindArchive
      <4> QED
        BY <1>4, <4>1, SaveOnly
    <3> QED
      BY <3>1, <3>2
  <2>3. CASE EndScan
    BY <1>4, <2>3, EndScanTracked
  <2>4. CASE \E q \in Paths : CheckWaitingFolder(q) \/ Leave(q)
    BY <1>4, <2>4 DEF CheckWaitingFolder, Leave, TypeOK
  <2> QED
    BY <2>1, <2>2, <2>3, <2>4
<1>5. ASSUME NEW p \in Paths, p \notin there, p \in watchDirs', p \notin lost' PROVE p \in watchDirs /\ p \notin lost
  <2>1. CASE AddWatchDir
    BY <1>5, <2>1 DEF AddWatchDir
  <2>2. CASE ReadDir \/ FindArchive
    BY <1>5, <2>2 DEF ReadDir, FindArchive
  <2>3. CASE EndScan
    BY <1>5, <2>3 DEF EndScan, seen
  <2>4. CASE \E q \in Paths : CheckWaitingFolder(q) \/ Leave(q)
    BY <1>5, <2>4 DEF CheckWaitingFolder, Leave, seen
  <2> QED
    BY <2>1, <2>2, <2>3, <2>4
<1>6. \A p \in Paths : Owed(p)' => Owed(p)
  BY <1>1, <1>4, <1>5 DEF Owed
<1>7. Root \in there
  BY DEF TypeOK
<1> QED
  BY <1>1, <1>2, <1>3, <1>6, <1>7, SameDisk

\* What is there again is owed no more, and what was told stays told.
LEMMA Grown ==
  ASSUME TypeOK, Heard, main # Down, NEW d \in Paths \ {Root}, NEW with, with \subseteq Below(d),
         Land(d, with), UNCHANGED <<channel, watchDirs, tracked>>
  PROVE  Heard'
<1> SUFFICES ASSUME NEW p \in Paths, Owed(p)'
             PROVE  Told(p)'
  BY DEF Heard
<1>0. there' = there \union {d} \union with /\ Back(d, with) /\ Pending \subseteq Pending'
  BY NotifiedPending DEF Land
<1>1. p \notin there' /\ p \notin there /\ p # d /\ p \notin with
  BY <1>0 DEF Owed
<1>2. Owed(p) /\ p \notin Below(d)
  BY <1>0, <1>1 DEF Owed, Back, Within
<1>3. p \notin Within(d)
  BY <1>1, <1>2 DEF Within
<1>4. PICK q \in Pending : q \notin there /\ p \in Within(q)
  BY <1>2 DEF Heard, Told
<1>5. q \notin there'
  <2>1. ASSUME q \in there' PROVE FALSE
    <3>1. q \in Paths /\ q \in Within(d)
      BY <1>0, <1>4, <2>1, BelowType DEF Within
    <3> QED
      BY <1>3, <1>4, <3>1, WithinWithin
  <2> QED
    BY <2>1
<1> QED
  BY <1>0, <1>4, <1>5 DEF Told, Within, Below

\* What goes with p is told by p itself, or known to be unheard.
LEMMA Shrunk ==
  ASSUME TypeOK, Heard, Closed, main # Down, NEW d \in Paths \ {Root},
         there' = there \ Within(d), Gone(d), kernel' = Notified(d), channel' = channel,
         watchDirs' = watchDirs, tracked' = tracked
  PROVE  Heard'
<1>1. Pending \subseteq Pending' /\ (Watched(d) => d \in Pending')
  BY NotifiedPending
<1> SUFFICES ASSUME NEW p \in Paths, Owed(p)'
             PROVE  Told(p)'
  BY DEF Heard
<1>2. d \in Within(d) /\ d \notin there'
  BY DEF Within
<1>3. CASE p \in Within(d) /\ Watched(d)
  BY <1>1, <1>2, <1>3 DEF Told, Within, Below
<1>4. CASE p \in Within(d) /\ ~Watched(d)
  BY <1>4 DEF Gone, Owed, TypeOK
<1>5. CASE p \notin Within(d)
  <2>1. Owed(p)
    BY <1>5 DEF Owed, Gone
  <2>2. PICK q \in Pending : q \notin there /\ p \in Within(q)
    BY <2>1 DEF Heard, Told
  <2> QED
    BY <1>1, <2>2 DEF Told, Within, Below
<1> QED
  BY <1>3, <1>4, <1>5

\* Nothing is within an archive but itself.
LEMMA WithinArchive ==
  ASSUME NEW a \in Archives
  PROVE  Within(a) = {a}
BY Tree DEF Within, Below

\* What an extraction puts on the disk is owed no more.
LEMMA HeardExtract ==
  ASSUME TypeOK, Heard, main # Down, NEW p \in Paths \ {Root}, Extract(p)
  PROVE  Heard'
<1>1. PICK o \in OutputOf(p) :
        \/ o \notin there /\ Land(o, InnerOf(o))
        \/ /\ o \in there /\ there' = there \union InnerOf(o) /\ UNCHANGED <<lost, unheard>>
           /\ \E q \in {o} \union InnerOf(o) : kernel' = Notified(q)
  BY DEF Extract
<1>2. UNCHANGED <<channel, watchDirs, tracked>>
  BY DEF Extract
<1>3. o \in Paths \ {Root} /\ InnerOf(o) \subseteq Below(o) /\ InnerOf(o) \subseteq Archives
      /\ InnerOf(o) \subseteq Paths \ {Root}
  <2>1. \A x \in InnerOf(o) : x \in Paths \ {Root} /\ Up[x] \in Above[x] /\ x \in Archives /\ Up[x] = o
    BY InnerFolder, Tree DEF InnerOf
  <2> QED
    BY <2>1, OutputOfType DEF Below
<1>4. CASE o \notin there /\ Land(o, InnerOf(o))
  BY <1>2, <1>3, <1>4, Grown
<1>5. CASE /\ o \in there /\ there' = there \union InnerOf(o) /\ UNCHANGED <<lost, unheard>>
           /\ \E q \in {o} \union InnerOf(o) : kernel' = Notified(q)
  <2> SUFFICES ASSUME NEW q \in Paths, Owed(q)' PROVE Told(q)'
    BY DEF Heard
  <2>1. Pending \subseteq Pending'
    BY <1>2, <1>3, <1>5, NotifiedPending
  <2>2. Owed(q) /\ q \notin there' /\ q \notin InnerOf(o)
    BY <1>2, <1>5 DEF Owed
  <2>3. PICK e \in Pending : e \notin there /\ q \in Within(e)
    BY <2>2 DEF Heard, Told
  <2>4. e \notin InnerOf(o)
    BY <1>3, <2>2, <2>3, WithinArchive
  <2>5. e \notin there'
    BY <1>5, <2>3, <2>4
  <2> QED
    BY <2>1, <2>3, <2>5 DEF Told, Within, Below
<1> QED
  BY <1>1, <1>4, <1>5

\* Nor is what comes back piece by piece.
LEMMA HeardMoveBack ==
  ASSUME TypeOK, Heard, main # Down, NEW p \in Paths \ {Root}, MoveBack(p)
  PROVE  Heard'
<1>1. PICK o \in OutputOf(p) :
        \/ Land(o, {})
        \/ \E x \in InnerOf(o) : Land(x, {})
        \/ UNCHANGED <<there, kernel, lost, unheard>>
  BY DEF MoveBack
<1>2. UNCHANGED <<channel, watchDirs, tracked>>
  BY DEF MoveBack
<1>3. o \in Paths \ {Root} /\ InnerOf(o) \subseteq Paths \ {Root}
  BY OutputOfType, InnerFolder DEF InnerOf
<1>4. ASSUME NEW q \in Paths \ {Root}, Land(q, {}) PROVE Heard'
  <2>1. {} \subseteq Below(q)
    OBVIOUS
  <2> QED
    BY <1>2, <1>4, <2>1, Grown
<1>5. CASE UNCHANGED <<there, kernel, lost, unheard>>
  <2>1. \A q \in Pending : q \in Pending'
    BY <1>2, <1>5 DEF Pending
  <2>2. \A q \in Paths : Owed(q)' => Owed(q)
    BY <1>2, <1>5 DEF Owed
  <2>3. Root \in there
    BY DEF TypeOK
  <2> QED
    BY <1>5, <2>1, <2>2, <2>3, SameDisk
<1> QED
  BY <1>1, <1>3, <1>4, <1>5

\* After a start the tracker holds what is there, and nothing else is owed.
LEMMA HeardStart ==
  ASSUME TypeOK, Closed, Start
  PROVE  Heard'
<1> SUFFICES ASSUME NEW p \in Paths, Owed(p)'
             PROVE  FALSE
  BY DEF Heard
<1>1. there' = there /\ watchDirs' = {Root} /\ Root \in there
  BY DEF Start, disk, TypeOK
<1>2. p \notin there /\ tracked'[p] = "waiting"
  BY <1>1 DEF Owed
<1>3. PICK a \in Within(p) : a \in there
  BY <1>2 DEF Start
<1>4. p = a \/ p \in Above[a]
  BY <1>3 DEF Within, Below
<1> QED
  BY <1>2, <1>3, <1>4 DEF Closed

\* No step leaves something that is owed untold.
LEMMA GhostStep ==
  ASSUME GhostInv, [Next]_vars
  PROVE  GhostInv'
<1> USE DEF GhostInv
<1>1. TypeOK' /\ Allowed' /\ Closed'
  BY TypeStep, AllowedStep, ClosedStep
<1>2. CASE HandleFileEvent \/ ProcessEvent
  BY <1>1, <1>2, HeardFilter, HeardProcess
<1>3. CASE AddWatchDir \/ ReadDir \/ FindArchive \/ EndScan \/ \E p \in Paths : CheckWaitingFolder(p) \/ Leave(p)
  BY <1>1, <1>3, HeardWalk
<1>7. CASE World
  <2>1. CASE main = Down
    BY <1>1, <1>7, <2>1, WorldKeeps DEF Heard
  <2>2. ASSUME main # Down PROVE Heard'
    <3>1. ASSUME NEW d \in Dirs, NEW with \in {{}, Below(d) \ Inner}, MoveIn(d, with) PROVE Heard'
      <4>1. d \in Paths \ {Root} /\ with \subseteq Below(d)
        BY <3>1, Tree DEF MoveIn, TypeOK
      <4> QED
        BY <2>2, <3>1, <4>1, Grown DEF MoveIn
    <3>2. ASSUME NEW d \in Dirs, MoveOut(d) PROVE Heard'
      <4>1. d \in Paths \ {Root}
        BY <3>2, Tree DEF MoveOut
      <4> QED
        BY <2>2, <3>2, <4>1, Shrunk DEF MoveOut
    <3>3. ASSUME NEW a \in Archives, Write(a) PROVE Heard'
      <4>1. a \in Paths \ {Root} /\ {} \subseteq Below(a)
        BY Tree
      <4> QED
        BY <2>2, <3>3, <4>1, Grown DEF Write
    <3>4. ASSUME NEW a \in Archives, Remove(a) PROVE Heard'
      <4>1. a \in Paths \ {Root} /\ there' = there \ Within(a)
        BY <3>4, Tree, WithinArchive DEF Remove
      <4> QED
        BY <2>2, <3>4, <4>1, Shrunk DEF Remove
    <3> QED
      <4>1. ASSUME NEW p \in Paths \ {Root}, Extract(p) \/ MoveBack(p) PROVE Heard'
        BY <2>2, <4>1, HeardExtract, HeardMoveBack
      <4> QED
        BY <1>7, <3>1, <3>2, <3>3, <3>4, <4>1 DEF World
  <2> QED
    BY <1>1, <2>1, <2>2
<1>8. CASE Start
  BY <1>1, <1>8, HeardStart
<1>9. CASE Crash
  BY <1>1, <1>9 DEF Crash, Heard
<1>10. CASE UNCHANGED vars
  BY <1>1, <1>10 DEF vars, Heard, Owed, Told, Pending, Within, Below
<1> QED
  BY <1>1, <1>2, <1>3, <1>7, <1>8, <1>9, <1>10 DEF Next

\* Whatever goes, with or without the folder around it, in whatever order its
\* events are filtered and processed: once everything is quiet no item waits
\* whose archive is gone, unless no watch told of it or it was back before its
\* event was handled.
THEOREM GhostsLeave == Spec => []NoGhosts
<1>1. GhostInv => NoGhosts
  <2> SUFFICES ASSUME GhostInv, Quiet, NEW p \in Paths, tracked[p] = "waiting", p \notin there, p \notin unheard
               PROVE  FALSE
    BY DEF NoGhosts
  <2>1. main # Down /\ Pending = {}
    BY Ats DEF Quiet, Pending
  <2> QED
    BY <2>1 DEF GhostInv, Heard, Owed, Told
<1>2. Spec => []GhostInv
  BY InitGhosts, GhostStep, PTL DEF Spec
<1> QED
  BY <1>1, <1>2, PTL

\* A half of TableTrue without its exceptions for output and for what is below a
\* blind folder: once everything is quiet the table of watched folders keeps
\* none that is gone, but those that no watch told of or that were back too early.
TableKeepsNoneGone == Quiet => watchDirs \subseteq there \union lost

\* That half holds in every state the program reaches.
THEOREM TableForgets == Spec => []TableKeepsNoneGone
<1>1. GhostInv => TableKeepsNoneGone
  <2> SUFFICES ASSUME GhostInv, Quiet, NEW d \in watchDirs, d \notin there, d \notin lost
               PROVE  FALSE
    BY DEF TableKeepsNoneGone
  <2>1. main # Down /\ Pending = {} /\ d \in Paths
    BY Ats, Tree DEF Quiet, Pending, GhostInv, TypeOK
  <2> QED
    BY <2>1 DEF GhostInv, Heard, Owed, Told
<1>2. Spec => []GhostInv
  BY InitGhosts, GhostStep, PTL DEF Spec
<1> QED
  BY <1>1, <1>2, PTL

-----------------------------------------------------------------------------
(* What is put below a watched folder is seen: as long as nobody looked at *)
(* it, an event of it or of a folder around it is on its way, or a walk    *)
(* will come by.                                                           *)

\* What a walk has still to come by, with all below it.
Ahead ==
  IF main.at = "watch" THEN Parts(main.todo)
  ELSE IF main.at = "read" THEN After(main.todo) ELSE {}

\* Not excluded, no output, and not below a folder that went blind.
Clear(p) == ({p} \union Above[p]) \intersect (lost \union Outputs) = {} /\ ~IsExcluded(p)

\* A folder that is not in the table, or an archive whose last write nobody has
\* noticed.
Unseen(p) ==
  /\ p \in there /\ Clear(p)
  /\ (p \in Dirs => p \notin watchDirs) /\ (p \in Archives => p \in fresh)

\* It will be looked at.  The folder that is read now is watched already.
Coming(p) ==
  \/ \E q \in Pending \union Ahead : p \in Within(q)
  \/ main.at = "read" /\ Head(main.todo) \in Above[p]

\* A folder of the table that is there is watched, or went blind.
Wired == main # Down => watchDirs \intersect there \subseteq watches \union lost

\* What nobody has looked at will be.
Noticed == main # Down => \A p \in Paths : Unseen(p) => Coming(p)

SeenInv == GhostInv /\ Wired /\ Noticed

\* Some paths are within no other of a set.
LEMMA Highest ==
  ASSUME NEW S \in SUBSET Paths, S # {}
  PROVE  \E s \in S : Above[s] \intersect S = {}
<1> DEFINE D == {Above[s] : s \in S}
<1>1. D \subseteq FiniteSubsetsOf(Paths) /\ D # {}
  <2>1. \A s \in S : IsFiniteSet(Above[s]) /\ Above[s] \in SUBSET Paths
    <3>1. IsFiniteSet(Paths)
      BY WatchAssumption DEF WatchAssumption
    <3>2. \A s \in S : Above[s] \in SUBSET Paths
      BY Tree
    <3> QED
      BY <3>1, <3>2, FS_Subset
  <2> QED
    BY <2>1, Zenon DEF FiniteSubsetsOf
<1>2. IsWellFoundedOn(StrictSubsetOrdering(Paths), FiniteSubsetsOf(Paths))
  BY FS_StrictSubsetOrderingWellFounded
<1>3. \E x \in D : \A y \in D : ~(<<y, x>> \in StrictSubsetOrdering(Paths))
  <2> HIDE DEF D
  <2> QED
    BY <1>1, <1>2, WFMin
<1>4. PICK s \in S : \A t \in S : ~(<<Above[t], Above[s]>> \in StrictSubsetOrdering(Paths))
  BY <1>3
<1>5. ASSUME NEW t \in S, t \in Above[s] PROVE FALSE
  <2>1. Above[t] \subseteq Above[s] /\ t \notin Above[t]
    BY <1>5, Order
  <2>2. Above[t] \in SUBSET Paths /\ Above[s] \in SUBSET Paths /\ Above[t] # Above[s]
    BY <1>5, <2>1, Tree
  <2>3. <<Above[t], Above[s]>> \in StrictSubsetOrdering(Paths)
    BY <2>1, <2>2, Zenon DEF StrictSubsetOrdering
  <2> QED
    BY <1>4, <2>3
<1> QED
  BY <1>5

\* What a path lies in is all the folders above it, and what they lie in.
LEMMA UpAbove ==
  ASSUME NEW p \in Paths, p # Root
  PROVE  Up[p] \in Dirs /\ Up[p] \in Paths /\ Above[p] = {Up[p]} \union Above[Up[p]]
BY Tree, WatchAssumption DEF WatchAssumption

\* Everything is within the root.
LEMMA RootAll ==
  ASSUME NEW p \in Paths
  PROVE  p \in Within(Root)
<1> DEFINE S == {p} \union Above[p]
<1>1. S \in SUBSET Paths /\ S # {}
  BY Tree
<1>2. PICK s \in S : Above[s] \intersect S = {}
  <2> HIDE DEF S
  <2> QED
    BY <1>1, Highest
<1>3. ASSUME s # Root PROVE FALSE
  <2>1. Up[s] \in Above[s]
    BY <1>1, <1>3, UpAbove
  <2>2. Above[s] \subseteq S
    BY Order
  <2> QED
    BY <1>2, <2>1, <2>2
<1> QED
  BY <1>3 DEF Within, Below

\* On the way from a folder down to a path there is one that lies in the
\* folder.
LEMMA StepDown ==
  ASSUME NEW p \in Paths, NEW d \in Above[p]
  PROVE  \E s \in Paths \ {Root} : Up[s] = d /\ p \in Within(s)
<1> DEFINE S == {q \in {p} \union Above[p] : d \in Above[q]}
<1>1. S \in SUBSET Paths /\ S # {}
  BY Tree
<1>2. PICK s \in S : Above[s] \intersect S = {}
  <2> HIDE DEF S
  <2> QED
    BY <1>1, Highest
<1>3. s \in Paths /\ s # Root /\ d \in Above[s] /\ (s = p \/ s \in Above[p])
  BY <1>1, WatchAssumption DEF WatchAssumption
<1>4. Up[s] = d
  <2>1. ASSUME Up[s] # d PROVE FALSE
    <3>1. d \in Above[Up[s]] /\ Up[s] \in Above[s]
      BY <1>3, <2>1, UpAbove
    <3>2. Up[s] \in Above[p]
      BY <1>3, <3>1, Order
    <3> QED
      BY <1>2, <3>1, <3>2
  <2> QED
    BY <2>1
<1> QED
  BY <1>3, <1>4 DEF Within, Below

\* What looks like the output of an extraction is an output folder.
LEMMA DestIsOutput ==
  ASSUME NEW d, IsExtractDest(d)
  PROVE  d \in Outputs
BY DEF IsExtractDest, Outputs

\* What is clear was clear while less was blind and had a log.
LEMMA ClearBefore ==
  ASSUME lost \subseteq lost', logs \subseteq logs', NEW p, Clear(p)'
  PROVE  Clear(p)
BY DEF Clear, Outputs, IsExcluded

\* Within an output folder, and within an excluded one, nothing is clear.
LEMMA ClearAbove ==
  ASSUME NEW p \in Paths, Clear(p), NEW q, p \in Within(q)
  PROVE  q \in Paths /\ Clear(q) /\ q \notin Outputs /\ q \notin lost
<1>1. q = p \/ q \in Above[p]
  BY DEF Within, Below
<1>2. q \in Paths /\ {q} \union Above[q] \subseteq {p} \union Above[p]
  BY <1>1, Order, Tree
<1>3. ~IsExcluded(q)
  BY ExcludedWithin DEF Clear
<1> QED
  BY <1>2, <1>3 DEF Clear

\* What was noticed stays noticed while the walk is where it was.
LEMMA NoticedOn ==
  ASSUME Noticed, main # Down, main' = main, Pending \subseteq Pending',
         \A p \in Paths : Unseen(p)' => Unseen(p)
  PROVE  Noticed'
<1> SUFFICES ASSUME NEW p \in Paths, Unseen(p)'
             PROVE  Coming(p)'
  BY DEF Noticed
<1>1. Coming(p)
  BY DEF Noticed
<1>2. Ahead' = Ahead
  BY DEF Ahead
<1> QED
  BY <1>1, <1>2 DEF Coming, Within, Below

\* A filtered event changes no folder; what it told of is excluded, if anything.
LEMMA SeenFilter ==
  ASSUME SeenInv, HandleFileEvent
  PROVE  Wired' /\ Noticed'
<1>1. /\ UNCHANGED <<there, logs, watches, watchDirs, lost, fresh, main>> /\ main # Down
  BY DEF HandleFileEvent, disk, seen
<1>2. Wired'
  BY <1>1 DEF SeenInv, Wired
<1>3. ASSUME NEW p \in Paths, Unseen(p)'
      PROVE  Coming(p)'
  <2>1. Unseen(p) /\ Clear(p)
    BY <1>1, <1>3, ClearBefore DEF Unseen
  <2>2. Coming(p) /\ Ahead' = Ahead
    BY <1>1, <2>1 DEF SeenInv, Noticed, Ahead
  <2>3. \A q \in Pending : p \in Within(q) => q \in Pending'
    <3> TAKE q \in Pending
    <3> HAVE p \in Within(q)
    <3>1. ~IsExcluded(q)
      BY <2>1, ClearAbove DEF Clear
    <3> QED
      BY <3>1, FilterPending DEF SeenInv, GhostInv
  <2> QED
    BY <1>1, <2>2, <2>3 DEF Coming, Within, Below
<1> QED
  BY <1>2, <1>3 DEF Noticed

\* An event that is processed: what it told of is gone, output, noticed, or
\* ahead of the walk that begins.
LEMMA SeenProcess ==
  ASSUME SeenInv, ProcessEvent
  PROVE  Wired' /\ Noticed'
<1> USE DEF SeenInv, GhostInv
<1> DEFINE e == Head(channel)
<1>1. /\ e \in Paths \ {Root} /\ UNCHANGED <<there, logs, kernel>> /\ main = Idle /\ main # Down
      /\ Unreadable(e) \/ SeenArchive(e) \/ SeenOutput(e) \/ SeenDir(e)
  BY HeadTail, Ats DEF ProcessEvent, TypeOK, disk
<1>2. \A q \in Pending : q \in Pending' \/ q = e
  BY ProcessPending
<1> HIDE DEF e
<1>3. lost' = lost
  BY <1>1, AnswerType
<1>4. e \notin there => Within(e) \intersect there = {}
  BY <1>1 DEF Closed, Within, Below
<1>5. watchDirs' \intersect there = watchDirs \intersect there /\ watches \intersect there \subseteq watches'
      /\ fresh' \subseteq fresh
  <2>1. CASE Unreadable(e)
    <3>1. /\ watchDirs' = watchDirs \ Within(e) /\ fresh' = fresh /\ e \notin there
          /\ watches' = watches \ ((watchDirs \intersect Within(e)) \union (IF tracked[e] # "no" THEN {e} ELSE {}))
      BY <2>1 DEF Unreadable, RemoveWatchDirs, seen
    <3> QED
      BY <1>4, <3>1
  <2>2. CASE SeenArchive(e)
    <3>1. watchDirs' = watchDirs /\ watches \subseteq watches' /\ fresh' \subseteq fresh
      BY <2>2 DEF SeenArchive, Save
    <3> QED
      BY <3>1
  <2>3. CASE SeenOutput(e) \/ SeenDir(e)
    BY <2>3 DEF SeenOutput, SeenDir, seen
  <2> QED
    BY <1>1, <2>1, <2>2, <2>3
<1>6. Wired'
  BY <1>1, <1>3, <1>5 DEF Wired
<1>7. ASSUME NEW p \in Paths, Unseen(p)'
      PROVE  Coming(p)'
  <2>1. Unseen(p) /\ Clear(p) /\ p \in there
    BY <1>1, <1>3, <1>5, <1>7, ClearBefore DEF Unseen
  <2>2. PICK q \in Pending : p \in Within(q)
    BY <1>1, <2>1, Ats DEF Noticed, Coming, Ahead
  <2>3. CASE q \in Pending'
    BY <2>2, <2>3 DEF Coming, Within, Below
  <2>4. CASE q = e
    <3>1. ~Unreadable(e)
      BY <1>4, <2>1, <2>2, <2>4 DEF Unreadable
    <3>2. CASE SeenArchive(e)
      <4>1. p = e /\ p \in Archives
        BY <2>2, <2>4, <3>2, WithinArchive DEF SeenArchive
      <4>2. CASE InsideExtractDest(e)
        <5>1. PICK d \in Above[e] : IsExtractDest(d)
          BY <4>2 DEF InsideExtractDest
        <5>2. d \in Outputs
          BY <5>1, DestIsOutput
        <5> QED
          BY <2>1, <4>1, <5>1, <5>2 DEF Clear
      <4>3. CASE ~InsideExtractDest(e)
        BY <1>7, <3>2, <4>1, <4>3 DEF SeenArchive, Unseen
      <4> QED
        BY <4>2, <4>3
    <3>3. CASE SeenOutput(e)
      <4>1. e \in Outputs
        BY <3>3, DestIsOutput DEF SeenOutput
      <4> QED
        BY <2>1, <2>2, <2>4, <4>1, ClearAbove
    <3>4. CASE SeenDir(e)
      <4>1. main' = Scan(e) /\ e \in Dirs
        BY <3>4 DEF SeenDir
      <4>2. main'.at = "watch" /\ main'.todo = <<e>>
        BY <4>1, ScanType
      <4>3. e \in Ahead'
        BY <4>2 DEF Ahead, Parts
      <4> QED
        BY <2>2, <2>4, <4>3 DEF Coming, Within, Below
    <3> QED
      BY <1>1, <3>1, <3>2, <3>3, <3>4
  <2> QED
    BY <1>2, <2>2, <2>3, <2>4
<1> QED
  BY <1>6, <1>7 DEF Noticed

\* A walk that goes on to the next folder: the folder is watched now, what is
\* below it is read next.
LEMMA SeenAddWatchDir ==
  ASSUME SeenInv, AddWatchDir
  PROVE  Wired' /\ Noticed'
<1> USE DEF SeenInv, GhostInv
<1> DEFINE d == Head(main.todo)
<1>1. /\ main \in Walk /\ main.todo \in Seq(Paths) /\ main.todo # <<>> /\ main.at = "watch"
      /\ UNCHANGED <<there, logs, kernel, channel, fresh>> /\ main # Down /\ d \in Dirs
  BY AddWatchDirWalk DEF AddWatchDir, disk
<1>2. Parts(main.todo) \subseteq {d} \union After(main.todo) /\ After(main.todo) = Parts(Tail(main.todo))
  BY <1>1, Rest
<1>3. Pending' = Pending
  BY <1>1 DEF Pending
<1>4. Ahead \subseteq {d} \union After(main.todo)
  BY <1>1, <1>2 DEF Ahead
<1>5. CASE d # main.top /\ IsExtractDest(d)
  <2>1. UNCHANGED <<watches, watchDirs, lost>>
    BY <1>5 DEF AddWatchDir
  <2>2. main'.at = "watch" /\ main'.todo = Tail(main.todo)
    BY <1>5, AddWatchDirWalk
  <2>3. After(main.todo) \subseteq Ahead'
    BY <1>2, <2>2 DEF Ahead, Parts
  <2>4. ASSUME NEW p \in Paths, Unseen(p)'
        PROVE  Coming(p)'
    <3>1. Unseen(p) /\ Clear(p)
      BY <1>1, <2>1, <2>4, ClearBefore DEF Unseen
    <3>2. PICK q \in Pending \union Ahead : p \in Within(q)
      BY <1>1, <3>1 DEF Noticed, Coming
    <3>3. q # d
      BY <1>5, <3>1, <3>2, DestIsOutput, ClearAbove
    <3>4. q \in Pending' \union Ahead'
      BY <1>3, <1>4, <2>3, <3>2, <3>3
    <3> QED
      BY <3>2, <3>4 DEF Coming, Within, Below
  <2>5. Wired'
    BY <1>1, <2>1 DEF Wired
  <2> QED
    BY <2>4, <2>5 DEF Noticed
<1>6. CASE ~(d # main.top /\ IsExtractDest(d))
  <2>1. IF d \in there /\ d \notin watchDirs
        THEN watches' = watches \union {d} /\ watchDirs' = watchDirs \union {d} /\ lost' = lost \ {d}
        ELSE UNCHANGED <<watches, watchDirs, lost>>
    BY <1>6 DEF AddWatchDir
  <2>2. main'.at = "read" /\ main'.todo = main.todo
    BY <1>6, AddWatchDirWalk
  <2>3. Ahead' = After(main.todo)
    BY <2>2 DEF Ahead, After
  <2> HIDE DEF d
  <2>4. Wired'
    BY <1>1, <2>1 DEF Wired
  <2>5. ASSUME NEW p \in Paths, Unseen(p)'
        PROVE  Coming(p)'
    <3>1. p # d
      BY <1>1, <1>2, <2>1, <2>5 DEF Unseen
    <3>2. CASE d \in Above[p]
      BY <2>2, <3>2 DEF Coming, d
    <3>3. CASE d \notin Above[p]
      <4>1. Unseen(p)
        BY <1>1, <2>1, <2>5, <3>1, <3>3 DEF Unseen, Clear, Outputs
      <4>2. PICK q \in Pending \union Ahead : p \in Within(q)
        BY <1>1, <4>1 DEF Noticed, Coming
      <4>3. q # d
        BY <3>1, <3>3, <4>2 DEF Within, Below
      <4>4. q \in Pending' \union Ahead'
        BY <1>3, <1>4, <2>3, <4>2, <4>3
      <4> QED
        BY <4>2, <4>4 DEF Coming, Within, Below
    <3> QED
      BY <3>2, <3>3
  <2> QED
    BY <2>4, <2>5 DEF Noticed
<1> QED
  BY <1>5, <1>6

\* A walk that has read a folder: what is in it is ahead.  When the folder is
\* gone, so is all below it, and what was still ahead is blind or passed over.
LEMMA SeenReadDir ==
  ASSUME SeenInv, ReadDir
  PROVE  Wired' /\ Noticed'
<1> USE DEF SeenInv, GhostInv
<1> DEFINE d == Head(main.todo)
<1>1. /\ main.at = "read" /\ main # Down
      /\ UNCHANGED <<there, logs, kernel, channel, watches, watchDirs, fresh>>
      /\ lost' = IF d \in there THEN lost ELSE lost \union After(main.todo)
  BY ReadDirWalk DEF ReadDir, disk, After
<1>2. Pending' = Pending /\ Ahead = After(main.todo)
  BY <1>1 DEF Pending, Ahead
<1>3. Ahead' = IF d \in there THEN Entries(d) \union After(main.todo) ELSE {}
  <2>1. /\ main'.at = "watch"
        /\ Parts(main'.todo) = IF d \in there THEN Entries(d) \union After(main.todo) ELSE {}
    BY ReadDirWalk
  <2>2. Ahead' = Parts(main'.todo)
    BY <2>1 DEF Ahead, Parts
  <2> QED
    BY <2>1, <2>2
<1> HIDE DEF d
<1>5. Wired'
  BY <1>1 DEF Wired
<1>6. ASSUME NEW p \in Paths, Unseen(p)'
      PROVE  Coming(p)'
  <2>1. Unseen(p) /\ Clear(p) /\ Clear(p)' /\ p \in there
    BY <1>1, <1>6, ClearBefore DEF Unseen
  <2>2. Coming(p)
    BY <1>1, <2>1 DEF Noticed
  <2>3. CASE \E q \in Pending : p \in Within(q)
    BY <1>2, <2>3 DEF Coming, Within, Below
  <2>4. CASE \E q \in After(main.todo) : p \in Within(q)
    <3>1. PICK q \in After(main.todo) : p \in Within(q)
      BY <2>4
    <3>2. q \notin lost'
      BY <2>1, <3>1 DEF Clear, Within, Below
    <3>3. q \in Ahead'
      BY <1>1, <1>3, <3>1, <3>2
    <3> QED
      BY <3>1, <3>3 DEF Coming, Within, Below
  <2>5. CASE d \in Above[p]
    <3>1. PICK s \in Paths \ {Root} : Up[s] = d /\ p \in Within(s)
      BY <2>5, StepDown
    <3>2. d \in there /\ s \in there
      BY <2>1, <2>5, <3>1 DEF Closed, Within, Below
    <3>3. ~IsExcluded(s)
      BY <2>1, <3>1, ClearAbove DEF Clear
    <3>4. s \in Entries(d)
      BY <3>1, <3>2, <3>3 DEF Entries
    <3>5. s \in Ahead'
      BY <1>3, <3>2, <3>4
    <3> QED
      BY <3>1, <3>5 DEF Coming, Within, Below
  <2> QED
    BY <1>2, <2>2, <2>3, <2>4, <2>5 DEF Coming, d
<1> QED
  BY <1>5, <1>6 DEF Noticed

\* A walk that comes by an archive: it is noticed, or lies in an output folder.
LEMMA SeenFindArchive ==
  ASSUME SeenInv, FindArchive
  PROVE  Wired' /\ Noticed'
<1> USE DEF SeenInv, GhostInv
<1> DEFINE a == Head(main.todo)
<1>1. /\ main.todo \in Seq(Paths) /\ main.todo # <<>> /\ main.at = "watch" /\ main # Down
      /\ a \in Archives /\ a \in Paths
      /\ main'.at = "watch" /\ main'.todo = Tail(main.todo)
      /\ UNCHANGED <<there, logs, kernel, channel, watchDirs, lost>>
  BY FindArchiveWalk DEF FindArchive, disk
<1>2. Parts(main.todo) \subseteq {a} \union After(main.todo) /\ After(main.todo) = Parts(Tail(main.todo))
  BY <1>1, Rest
<1>3. Pending' = Pending /\ Ahead \subseteq {a} \union Ahead'
  BY <1>1, <1>2 DEF Pending, Ahead, Parts
<1>4. IF InsideExtractDest(a) THEN UNCHANGED <<tracked, watches, fresh>>
      ELSE watches \subseteq watches' /\ fresh' = fresh \ {a}
  BY DEF FindArchive, Save
<1> HIDE DEF a
<1>5. Wired'
  BY <1>1, <1>4 DEF Wired
<1>6. ASSUME NEW p \in Paths, Unseen(p)'
      PROVE  Coming(p)'
  <2>1. Unseen(p) /\ Clear(p)
    BY <1>1, <1>4, <1>6, ClearBefore DEF Unseen
  <2>2. PICK q \in Pending \union Ahead : p \in Within(q)
    BY <1>1, <2>1 DEF Noticed, Coming
  <2>3. q # a
    <3> SUFFICES ASSUME q = a PROVE FALSE
      OBVIOUS
    <3>1. p = a
      BY <1>1, <2>2, WithinArchive
    <3>2. InsideExtractDest(a)
      BY <1>1, <1>4, <1>6, <3>1 DEF Unseen
    <3>3. PICK e \in Above[a] : IsExtractDest(e)
      BY <3>2 DEF InsideExtractDest
    <3> QED
      BY <2>1, <3>1, <3>3, DestIsOutput DEF Clear
  <2>4. q \in Pending' \union Ahead'
    BY <1>3, <2>2, <2>3
  <2> QED
    BY <2>2, <2>4 DEF Coming, Within, Below
<1> QED
  BY <1>5, <1>6 DEF Noticed

\* A walk that ends has nothing ahead of it.
LEMMA SeenEndScan ==
  ASSUME SeenInv, EndScan
  PROVE  Wired' /\ Noticed'
<1> USE DEF SeenInv, GhostInv
<1>1. /\ main.at = "watch" /\ main.todo = <<>> /\ main # Down
      /\ UNCHANGED <<there, logs, kernel, channel, watchDirs, lost, fresh>>
  BY Ats DEF EndScan, disk, seen
<1>2. watches \subseteq watches'
  BY DEF EndScan, Save
<1>3. Wired'
  BY <1>1, <1>2 DEF Wired
<1>4. Ahead = {} /\ Pending' = Pending
  BY <1>1 DEF Ahead, Parts, Pending
<1>5. ASSUME NEW p \in Paths, Unseen(p)'
      PROVE  Coming(p)'
  <2>1. Unseen(p)
    BY <1>1, <1>5, ClearBefore DEF Unseen
  <2>2. \E q \in Pending : p \in Within(q)
    BY <1>1, <1>4, <2>1 DEF Noticed, Coming
  <2> QED
    BY <1>4, <2>2 DEF Coming, Within, Below
<1> QED
  BY <1>3, <1>5 DEF Noticed

\* A waiting item whose watch ends makes its folder blind; one that leaves
\* changes nothing here.
LEMMA SeenCheck ==
  ASSUME SeenInv, NEW p \in Paths, CheckWaitingFolder(p) \/ Leave(p)
  PROVE  Wired' /\ Noticed'
<1> USE DEF SeenInv
<1>1. /\ UNCHANGED <<there, logs, kernel, channel, watchDirs, main, fresh>> /\ main # Down
      /\ lost \subseteq lost' /\ watches \ watches' \subseteq {p}
      /\ p \in watchDirs => p \in lost' \/ watches' = watches
  BY Ats DEF CheckWaitingFolder, Leave, disk, seen
<1>2. Wired'
  BY <1>1 DEF Wired
<1>3. \A q \in Paths : Unseen(q)' => Unseen(q)
  BY <1>1, ClearBefore DEF Unseen
<1>4. Pending' = Pending
  BY <1>1 DEF Pending
<1> QED
  BY <1>1, <1>2, <1>3, <1>4, NoticedOn

\* After a start everything is ahead of the walk.
LEMMA SeenStart ==
  ASSUME SeenInv, Start
  PROVE  Wired' /\ Noticed'
<1>1. watchDirs' = {Root} /\ watches' = {Root} /\ main' = Scan(Root)
  BY DEF Start
<1>2. main'.at = "watch" /\ main'.todo = <<Root>>
  BY <1>1, Tree, ScanType
<1>3. Root \in Ahead'
  BY <1>2 DEF Ahead, Parts
<1>4. \A p \in Paths : Coming(p)'
  BY <1>3, RootAll DEF Coming, Within, Below
<1> QED
  BY <1>1, <1>4 DEF Wired, Noticed

\* What comes within d is told of by d itself; if no watch does that, the
\* folder d is in is not in the table either, and will be looked at with all
\* that is below it.
LEMMA SeenGrown ==
  ASSUME TypeOK, Wired, Noticed, main # Down, main' = main,
         NEW d \in Paths \ {Root}, Up[d] \in there, NEW with, with \subseteq Below(d), Land(d, with),
         logs \subseteq logs', fresh' \subseteq fresh \union Within(d),
         UNCHANGED <<watches, watchDirs, channel>>
  PROVE  Wired' /\ Noticed'
<1>0. /\ there \subseteq there' /\ there' \subseteq there \union Within(d)
      /\ lost \subseteq lost' \union Within(d)
      /\ watchDirs \intersect Within(d) \subseteq lost' /\ kernel' = Notified(d)
  BY DEF Land, Back, Within
<1>1. Pending \subseteq Pending' /\ (Watched(d) => d \in Pending')
  BY <1>0, NotifiedPending
<1>2. Ahead' = Ahead
  BY DEF Ahead, Parts, After
<1>3. Wired'
  BY <1>0 DEF Wired
<1>4. \A p \in Paths : Coming(p) => Coming(p)'
  BY <1>1, <1>2 DEF Coming, Within, Below
<1>5. ASSUME NEW p \in Paths, Unseen(p)'
      PROVE  Coming(p)'
  <2>1. Clear(p)' /\ p \in there'
    BY <1>5 DEF Unseen
  <2>2. CASE p \notin Within(d)
    <3>1. ({p} \union Above[p]) \intersect Within(d) = {}
      <4>1. \A e \in {p} \union Above[p] : e \in Paths /\ p \in Within(e)
        BY Tree DEF Within, Below
      <4> QED
        BY <2>2, <4>1, WithinWithin
    <3>2. Clear(p)
      BY <1>0, <2>1, <3>1 DEF Clear, IsExcluded, Outputs
    <3>3. Unseen(p)
      BY <1>0, <1>5, <2>1, <2>2, <3>2 DEF Unseen
    <3> QED
      BY <1>4, <3>3 DEF Noticed
  <2>3. CASE p \in Within(d) /\ Watched(d)
    BY <1>1, <2>3 DEF Coming, Within, Below
  <2>4. CASE p \in Within(d) /\ ~Watched(d)
    <3> DEFINE u == Up[d]
    <3>1. u \in Dirs /\ u \in Paths /\ u \in Above[d] /\ u \notin watches
      BY <2>4, Tree DEF Watched
    <3>2. u \in Above[p] /\ Above[u] \subseteq Above[p]
      BY <2>4, <3>1, Order DEF Within, Below
    <3>3. ({u} \union Above[u]) \intersect Within(d) = {}
      <4>1. \A e \in {u} \union Above[u] : e \in Above[d] /\ e # d /\ d \notin Above[e]
        BY <3>1, Order, Tree
      <4> QED
        BY <4>1 DEF Within, Below
    <3>4. Clear(u)
      <4>1. \A e \in {u} \union Above[u] : e \in Above[p] /\ e \notin Within(d)
        BY <3>2, <3>3
      <4>2. ({u} \union Above[u]) \intersect (lost \union Outputs) = {}
        BY <1>0, <2>1, <4>1 DEF Clear, Outputs
      <4>3. ~IsExcluded(u)
        BY <2>1, <4>1 DEF Clear, IsExcluded
      <4> QED
        BY <4>2, <4>3 DEF Clear
    <3> HIDE DEF u
    <3>5. u \notin lost
      BY <3>4 DEF Clear
    <3>6. u \in there
      BY DEF u
    <3>7. Unseen(u)
      BY <3>1, <3>4, <3>5, <3>6, Tree DEF Unseen, Wired
    <3>8. Coming(u)
      BY <3>1, <3>7 DEF Noticed
    <3>9. p \in Within(u)
      BY <3>2 DEF Within, Below
    <3>10. CASE \E q \in Pending \union Ahead : u \in Within(q)
      <4>1. PICK q \in Pending \union Ahead : u \in Within(q)
        BY <3>10
      <4>2. p \in Within(q)
        BY <3>1, <3>9, <4>1, WithinWithin
      <4> QED
        BY <1>1, <1>2, <4>1, <4>2 DEF Coming, Within, Below
    <3>11. CASE main.at = "read" /\ Head(main.todo) \in Above[u]
      BY <3>2, <3>11 DEF Coming
    <3> QED
      BY <3>8, <3>10, <3>11 DEF Coming
  <2> QED
    BY <2>2, <2>3, <2>4
<1> QED
  BY <1>3, <1>5 DEF Noticed

\* What goes leaves the rest as it was.
LEMMA SeenShrunk ==
  ASSUME TypeOK, Wired, Noticed, main # Down, main' = main, NEW d \in Paths \ {Root},
         there' = there \ Within(d), logs' = logs \ Within(d), fresh' = fresh \ Within(d), Gone(d),
         watches' = watches \ Within(d), watchDirs' = watchDirs,
         kernel' = Notified(d), channel' = channel
  PROVE  Wired' /\ Noticed'
<1>1. Pending \subseteq Pending'
  BY NotifiedPending
<1>2. lost \subseteq lost'
  BY DEF Gone
<1>3. Wired'
  BY <1>2 DEF Wired
<1>4. ASSUME NEW p \in Paths, Unseen(p)' PROVE Unseen(p)
  <2>1. p \in there /\ p \notin Within(d) /\ Clear(p)'
    BY <1>4 DEF Unseen
  <2>2. ({p} \union Above[p]) \intersect Within(d) = {}
    <3>1. \A e \in {p} \union Above[p] : e \in Paths /\ p \in Within(e)
      BY Tree DEF Within, Below
    <3> QED
      BY <2>1, <3>1, WithinWithin
  <2>3. Clear(p)
    BY <1>2, <2>1, <2>2 DEF Clear, Outputs, IsExcluded
  <2> QED
    BY <1>4, <2>1, <2>3 DEF Unseen
<1> QED
  BY <1>1, <1>3, <1>4, NoticedOn

\* What an extraction puts on the disk is told of with its folder; what comes
\* into a folder that is there already is no archive anybody wrote.
LEMMA SeenExtract ==
  ASSUME SeenInv, main # Down, NEW p \in Paths \ {Root}, Extract(p)
  PROVE  Wired' /\ Noticed'
<1> USE DEF SeenInv, GhostInv
<1>1. UNCHANGED <<watches, watchDirs, fresh, channel, main>>
  BY DEF Extract
<1>2. PICK o \in OutputOf(p) :
        /\ Up[o] \in there /\ logs \subseteq logs'
        /\ \/ o \notin there /\ Land(o, InnerOf(o))
           \/ /\ o \in there /\ there' = there \union InnerOf(o) /\ lost' = lost
              /\ \E q \in {o} \union InnerOf(o) : kernel' = Notified(q)
  BY DEF Extract
<1>3. o \in Paths \ {Root} /\ InnerOf(o) \subseteq Below(o) /\ InnerOf(o) \subseteq Archives
      /\ InnerOf(o) \subseteq Paths \ {Root}
  <2>1. \A x \in InnerOf(o) : x \in Paths \ {Root} /\ Up[x] \in Above[x] /\ x \in Archives /\ Up[x] = o
    BY InnerFolder, Tree DEF InnerOf
  <2> QED
    BY <2>1, OutputOfType DEF Below
<1>4. CASE Land(o, InnerOf(o))
  BY <1>1, <1>2, <1>3, <1>4, SeenGrown
<1>5. CASE /\ there' = there \union InnerOf(o) /\ lost' = lost
           /\ \E q \in {o} \union InnerOf(o) : kernel' = Notified(q)
  <2>1. Pending \subseteq Pending'
    BY <1>1, <1>3, <1>5, NotifiedPending
  <2>2. \A q \in Dirs : q \in there' => q \in there
    BY <1>3, <1>5, Tree
  <2>3. Wired'
    BY <1>1, <1>5, <2>2 DEF Wired, TypeOK
  <2>4. ASSUME NEW q \in Paths, Unseen(q)' PROVE Unseen(q)
    <3>1. Clear(q)
      BY <1>2, <1>5, <2>4, ClearBefore DEF Unseen
    <3>2. q \in there
      BY <1>1, <2>2, <2>4 DEF Unseen, TypeOK, Paths
    <3> QED
      BY <1>1, <2>4, <3>1, <3>2 DEF Unseen
  <2> QED
    BY <1>1, <2>1, <2>3, <2>4, NoticedOn
<1> QED
  BY <1>2, <1>4, <1>5

\* What comes back piece by piece is told of one by one.
LEMMA SeenMoveBack ==
  ASSUME SeenInv, main # Down, NEW p \in Paths \ {Root}, MoveBack(p)
  PROVE  Wired' /\ Noticed'
<1> USE DEF SeenInv, GhostInv
<1>1. UNCHANGED <<watches, watchDirs, fresh, channel, main>> /\ logs \subseteq logs'
  BY DEF MoveBack
<1>2. PICK o \in OutputOf(p) :
        \/ Up[o] \in there /\ Land(o, {})
        \/ o \in there /\ \E x \in InnerOf(o) : Land(x, {})
        \/ UNCHANGED <<there, kernel, lost>>
  BY DEF MoveBack
<1>3. o \in Paths \ {Root} /\ \A x \in InnerOf(o) : x \in Paths \ {Root} /\ Up[x] = o
  BY OutputOfType, InnerFolder DEF InnerOf
<1>4. ASSUME NEW q \in Paths \ {Root}, Up[q] \in there, Land(q, {}) PROVE Wired' /\ Noticed'
  <2>1. {} \subseteq Below(q) /\ fresh' \subseteq fresh \union Within(q)
    BY <1>1
  <2> QED
    BY <1>1, <1>4, <2>1, SeenGrown
<1>5. CASE UNCHANGED <<there, kernel, lost>>
  <2>1. Pending' = Pending
    BY <1>1, <1>5 DEF Pending
  <2>2. Wired'
    BY <1>1, <1>5 DEF Wired
  <2>3. \A q \in Paths : Unseen(q)' => Unseen(q)
    BY <1>1, <1>5, ClearBefore DEF Unseen
  <2> QED
    BY <1>1, <2>1, <2>2, <2>3, NoticedOn
<1> QED
  BY <1>2, <1>3, <1>4, <1>5

\* A folder that is moved in comes with all that is in it.
LEMMA SeenMoveIn ==
  ASSUME SeenInv, main # Down, NEW d \in Dirs, NEW with \in {{}, Below(d) \ Inner}, MoveIn(d, with)
  PROVE  Wired' /\ Noticed'
<1> USE DEF SeenInv, GhostInv
<1>1. d \in Paths \ {Root} /\ Up[d] \in there /\ with \subseteq Below(d)
  BY Tree DEF MoveIn, TypeOK
<1>2. /\ Land(d, with) /\ fresh' \subseteq fresh \union Within(d) /\ logs \subseteq logs'
      /\ UNCHANGED <<main, watches, watchDirs, channel>>
  BY <1>1 DEF MoveIn, Within
<1> QED
  BY <1>1, <1>2, SeenGrown

\* An archive that is written, new or once more.
LEMMA SeenWrite ==
  ASSUME SeenInv, main # Down, NEW a \in Archives, Write(a)
  PROVE  Wired' /\ Noticed'
<1> USE DEF SeenInv, GhostInv
<1>1. a \in Paths \ {Root} /\ Up[a] \in there /\ {} \subseteq Below(a)
  BY Tree DEF Write
<1>2. /\ Land(a, {}) /\ fresh' \subseteq fresh \union Within(a) /\ logs \subseteq logs'
      /\ UNCHANGED <<main, watches, watchDirs, channel>>
  BY DEF Write, Within
<1> QED
  BY <1>1, <1>2, SeenGrown

\* No change of the disk goes unseen.
LEMMA SeenWorld ==
  ASSUME SeenInv, World
  PROVE  Wired' /\ Noticed'
<1> USE DEF SeenInv, GhostInv
<1>1. CASE main = Down
  BY <1>1, WorldKeeps DEF Wired, Noticed
<1>2. CASE main # Down
  <2>1. ASSUME NEW d \in Dirs, MoveOut(d) PROVE Wired' /\ Noticed'
    <3>1. d \in Paths \ {Root}
      BY <2>1, Tree DEF MoveOut
    <3> QED
      BY <1>2, <2>1, <3>1, SeenShrunk DEF MoveOut
  <2>2. ASSUME NEW a \in Archives, Remove(a) PROVE Wired' /\ Noticed'
    <3>1. a \in Paths \ {Root} /\ Within(a) = {a} /\ a \notin logs
      BY Tree, WithinArchive DEF TypeOK
    <3>2. there' = there \ Within(a) /\ logs' = logs \ Within(a) /\ fresh' = fresh \ Within(a)
          /\ watches' = watches \ Within(a)
      BY <2>2, <3>1 DEF Remove
    <3> QED
      BY <1>2, <2>2, <3>1, <3>2, SeenShrunk DEF Remove
  <2>3. ASSUME NEW p \in Paths \ {Root}, Extract(p) \/ MoveBack(p) PROVE Wired' /\ Noticed'
    BY <1>2, <2>3, SeenExtract, SeenMoveBack
  <2>4. ASSUME NEW d \in Dirs, NEW with \in {{}, Below(d) \ Inner}, MoveIn(d, with) PROVE Wired' /\ Noticed'
    BY <1>2, <2>4, SeenMoveIn
  <2>5. ASSUME NEW a \in Archives, Write(a) PROVE Wired' /\ Noticed'
    BY <1>2, <2>5, SeenWrite
  <2> QED
    BY <2>1, <2>2, <2>3, <2>4, <2>5 DEF World
<1> QED
  BY <1>1, <1>2

\* At the start nothing runs.
LEMMA InitSeen == Init => SeenInv
<1> SUFFICES ASSUME Init PROVE SeenInv
  OBVIOUS
<1>1. GhostInv
  BY InitGhosts
<1> QED
  BY <1>1 DEF Init, SeenInv, Wired, Noticed

\* No step leaves behind what nobody will look at.
LEMMA SeenStep ==
  ASSUME SeenInv, [Next]_vars
  PROVE  SeenInv'
<1>1. GhostInv'
  BY GhostStep DEF SeenInv
<1>2. CASE HandleFileEvent \/ ProcessEvent \/ AddWatchDir \/ ReadDir \/ FindArchive \/ EndScan \/ Start \/ World
  BY <1>1, <1>2, SeenFilter, SeenProcess, SeenAddWatchDir, SeenReadDir, SeenFindArchive, SeenEndScan,
     SeenStart, SeenWorld DEF SeenInv
<1>3. ASSUME NEW p \in Paths, CheckWaitingFolder(p) \/ Leave(p) PROVE SeenInv'
  BY <1>1, <1>3, SeenCheck DEF SeenInv
<1>4. CASE Crash
  BY <1>1, <1>4 DEF Crash, SeenInv, Wired, Noticed
<1>5. CASE UNCHANGED vars
  <2>1. UNCHANGED <<there, logs, watches, watchDirs, lost, fresh, main, kernel, channel>>
    BY <1>5 DEF vars
  <2>2. Pending' = Pending /\ Ahead' = Ahead
    BY <2>1 DEF Pending, Ahead, Parts, After
  <2>3. Wired'
    BY <2>1 DEF SeenInv, Wired
  <2>4. Noticed'
    BY <2>1, <2>2 DEF SeenInv, Noticed, Unseen, Clear, Outputs, IsExcluded, Coming, Within, Below
  <2> QED
    BY <1>1, <2>3, <2>4 DEF SeenInv
<1> QED
  BY <1>2, <1>3, <1>4, <1>5 DEF Next

\* The watched root is in the table as long as the process runs.
RootWatched == main # Down => Root \in watchDirs

\* No event is of the root, so none takes it out of the table.
LEMMA RootStep ==
  ASSUME TypeOK, RootWatched, [Next]_vars
  PROVE  RootWatched'
<1> USE DEF RootWatched
<1>1. ASSUME main # Down, watchDirs \ {Root} \subseteq watchDirs', Root \in watchDirs' PROVE RootWatched'
  BY <1>1
<1>2. CASE ProcessEvent
  <2> DEFINE e == Head(channel)
  <2>1. e \in Paths \ {Root} /\ (Unreadable(e) \/ SeenArchive(e) \/ SeenOutput(e) \/ SeenDir(e)) /\ main # Down
    BY <1>2, HeadTail, Ats DEF ProcessEvent, TypeOK
  <2>2. Root \notin Within(e)
    BY <2>1, WatchAssumption DEF Within, Below, WatchAssumption
  <2>3. watchDirs' = watchDirs \/ watchDirs' = watchDirs \ Within(e)
    BY <2>1 DEF Unreadable, RemoveWatchDirs, SeenArchive, SeenOutput, SeenDir
  <2> QED
    BY <2>1, <2>2, <2>3
<1>3. CASE AddWatchDir
  <2>1. main # Down
    BY <1>3, Ats DEF AddWatchDir
  <2> QED
    BY <1>3, <2>1 DEF AddWatchDir
<1>4. CASE ReadDir \/ FindArchive \/ EndScan \/ \E p \in Paths : CheckWaitingFolder(p) \/ Leave(p)
  <2>1. main # Down /\ watchDirs' = watchDirs
    BY <1>4, Ats DEF ReadDir, FindArchive, EndScan, CheckWaitingFolder, Leave
  <2> QED
    BY <2>1
<1>5. CASE HandleFileEvent \/ World \/ UNCHANGED vars
  <2>1. main' = main /\ watchDirs' = watchDirs
    BY <1>5, WorldKeeps DEF HandleFileEvent, vars
  <2> QED
    BY <2>1
<1>6. CASE Start
  BY <1>6 DEF Start
<1>7. CASE Crash
  BY <1>7 DEF Crash
<1> QED
  BY <1>2, <1>3, <1>4, <1>5, <1>6, <1>7 DEF Next

\* Once everything is quiet nothing is on its way any more.
LEMMA QuietSeen ==
  ASSUME SeenInv, Quiet
  PROVE  main # Down /\ Pending = {} /\ \A p \in Paths : ~Unseen(p)
<1>1. main = Idle /\ main # Down /\ Pending = {}
  BY Ats DEF Quiet, Pending
<1>2. Ahead = {}
  BY <1>1, Ats DEF Ahead
<1> QED
  BY <1>1, <1>2, Ats DEF SeenInv, Noticed, Coming

\* However a tree grows, is moved in, moved away and made again while it is
\* walked, and however the process is stopped and started in between: once
\* everything is quiet the last write of every archive that is new work has
\* been noticed, unless it lies below a folder that went blind or a walk that
\* ended early passed it over.
THEOREM ArchivesNoticed == Spec => []NoArchiveMissed
<1>1. SeenInv => NoArchiveMissed
  <2> SUFFICES ASSUME SeenInv, Quiet, NEW a \in fresh \intersect Work,
                      ({a} \union Above[a]) \intersect lost = {}
               PROVE  FALSE
    BY DEF NoArchiveMissed
  <2>1. a \in Archives /\ a \in Paths /\ a \in there /\ a \notin Dirs /\ a \notin lost /\ a \notin Outputs
    BY Tree, OutputFolder DEF SeenInv, GhostInv, TypeOK, Outputs
  <2>2. Clear(a)
    BY <2>1 DEF Clear, Work
  <2>3. Unseen(a)
    BY <2>1, <2>2 DEF Unseen
  <2> QED
    BY <2>1, <2>3, QuietSeen
<1>2. Spec => []SeenInv
  BY InitSeen, SeenStep, PTL DEF Spec
<1> QED
  BY <1>1, <1>2, PTL

\* Once everything is quiet the table of watched folders holds the folders of
\* the tree that are not excluded, and those only, but for output folders and
\* for what lies below a folder that went blind.
THEOREM TableIsTrue == Spec => []TableTrue
<1>1. SeenInv /\ RootWatched => TableTrue
  <2> SUFFICES ASSUME SeenInv, RootWatched, Quiet, NEW d \in Dirs,
                      ({d} \union Above[d]) \intersect (lost \union Outputs) = {}
               PROVE  d \in watchDirs <=> (d \in there /\ (d = Root \/ ~IsExcluded(d)))
    BY DEF TableTrue
  <2>1. d \in Paths /\ d \notin Archives /\ d \notin lost /\ main # Down /\ Pending = {} /\ Root \in there
    BY Tree, QuietSeen DEF SeenInv, GhostInv, TypeOK
  <2>2. ASSUME d \in watchDirs PROVE d \in there /\ (d = Root \/ ~IsExcluded(d))
    <3>1. d \in there
      BY <2>1, <2>2 DEF SeenInv, GhostInv, Heard, Owed, Told
    <3> QED
      BY <2>2, <3>1 DEF SeenInv, GhostInv, Allowed
  <2>3. ASSUME d \in there, d = Root PROVE d \in watchDirs
    BY <2>1, <2>3 DEF RootWatched
  <2>4. ASSUME d \in there, ~IsExcluded(d), d \notin watchDirs PROVE FALSE
    <3>1. Unseen(d)
      BY <2>1, <2>4 DEF Unseen, Clear
    <3> QED
      BY <2>1, <3>1, QuietSeen
  <2> QED
    BY <2>2, <2>3, <2>4
<1>2. Spec => [](SeenInv /\ RootWatched)
  <2>1. Init => SeenInv /\ RootWatched
    BY InitSeen DEF Init, RootWatched
  <2>2. SeenInv /\ RootWatched /\ [Next]_vars => SeenInv' /\ RootWatched'
    BY SeenStep, RootStep DEF SeenInv, GhostInv
  <2> QED
    BY <2>1, <2>2, PTL DEF Spec
<1> QED
  BY <1>1, <1>2, PTL
=============================================================================
