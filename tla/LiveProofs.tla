----------------------------- MODULE LiveProofs -----------------------------
(***************************************************************************)
(* Theorems about LiveHub, for any items, rows, clients, capacities and    *)
(* bounds: a page that was sent the latest shows what the server has.      *)
(***************************************************************************)
EXTENDS LiveHub, Integers, FiniteSetTheorems, SequenceTheorems, WellFoundedInduction, TLAPS

-----------------------------------------------------------------------------
(* The inductive invariants.                                               *)

\* A list of marks, each {} (no say) or {v} (the value becomes v), turns the
\* value d into v.
Lands(d, marks, v) ==
  \/ d = v /\ \A k \in DOMAIN marks : marks[k] = {}
  \/ \E k \in DOMAIN marks :
       marks[k] = {v} /\ \A j \in DOMAIN marks : j > k => marks[j] = {}

\* What a frame says of a row of the history ...
HistoryMark(frame, r) ==
  IF frame.type # "history" THEN {}
  ELSE IF frame.op = "snapshot" THEN {frame.rows[r]}
  ELSE IF frame.op = "clear" THEN {0}
  ELSE IF frame.row # r THEN {}
  ELSE IF frame.op = "upsert" THEN {frame.version} ELSE {0}

\* ... and of the status of an item of the queue.
QueueMark(frame, i) ==
  IF frame.type = "queue" THEN IF frame.items = None THEN {} ELSE {Status(frame.items[i])}
  ELSE IF frame.type = "progress" /\ frame.item = i THEN {frame.row.status}
  ELSE {}

\* The marks of a list of frames.
HistoryMarks(frames, r) == [k \in DOMAIN frames |-> HistoryMark(frames[k], r)]
QueueMarks(frames, i) == [k \in DOMAIN frames |-> QueueMark(frames[k], i)]

\* Two tables with the same items, each with the same status.
SameStatus(a, b) == \A i \in Items : Status(a[i]) = Status(b[i])

\* The topics of a client are none or all; all while a subscription is served.
\* Without topics it is not told of anything.
Asked ==
  \A c \in Clients :
    /\ topics[c] \in {{}, Topics}
    /\ topics[c] = {} => {"queue", "history"} \subseteq missed[c] /\ sub[c] = None
    /\ conn[c] = "off" => topics[c] = {}

\* A table that waits is the latest.
TableWaits == pendingQ # None => pendingQ.items \in Table /\ SameStatus(pendingQ.items, table)

\* When the hub has nothing to send, what waits for a client that follows the
\* queue makes its page right, but for the rows astray.
QueueLands(c) ==
  conn[c] = "on" /\ Follows(c, "queue") /\ pendingQ = None =>
    /\ Serving(c, "queue") => sub[c].items \in Table /\ SameStatus(sub[c].items, table)
    /\ ~Serving(c, "items") /\ ~Serving(c, "queue") =>
         \A i \in Items \ astray :
           Lands(Status(page[c].queue[i]), QueueMarks(send[c], i), Status(table[i]))

\* The frames on their way to the hub make the version v of a row what the
\* history has, if it is told of it.
Told(v, r) == r \in untold \/ Lands(v, HistoryMarks(events, r), records[r])

\* The frames on their way to the hub do not change what the history is.
EventsTell ==
  IF gap THEN \A c \in Clients : "history" \in missed[c]
  ELSE \A r \in Rows : Told(records[r], r)

\* What waits for a client that follows the history, and then for the hub,
\* makes its page right.
HistoryLands(c) ==
  conn[c] = "on" /\ Follows(c, "history") =>
    \A r \in Rows :
      IF Serving(c, "history")
      THEN Told(sub[c].rows[r], r)
      ELSE \E w \in Nat : Lands(page[c].history[r], HistoryMarks(send[c], r), w) /\ Told(w, r)

\* What a page shows and will be shown.
LiveInv ==
  /\ TypeOK /\ Asked /\ TableWaits /\ EventsTell
  /\ \A c \in Clients : QueueLands(c) /\ HistoryLands(c)

-----------------------------------------------------------------------------
(* Induction over numbers and recursive functions.  The library's theorems *)
(* on induction take an operator; these are about a set.                   *)

\* A set of naturals that is not empty has a least element.
LEMMA Least ==
  ASSUME NEW T \in SUBSET Nat, T # {}
  PROVE  \E n \in T : \A m \in T : n <= m
<1> DEFINE D == {0..n : n \in T}
<1>1. D \subseteq FiniteSubsetsOf(Nat) /\ D # {}
  <2>1. \A n \in Nat : IsFiniteSet(0..n) /\ 0..n \in SUBSET Nat
    BY FS_Interval
  <2> QED
    BY <2>1, Zenon DEF FiniteSubsetsOf
<1>2. IsWellFoundedOn(StrictSubsetOrdering(Nat), FiniteSubsetsOf(Nat))
  BY FS_StrictSubsetOrderingWellFounded
<1>3. \E x \in D : \A y \in D : ~(<<y, x>> \in StrictSubsetOrdering(Nat))
  <2> HIDE DEF D
  <2> QED
    BY <1>1, <1>2, WFMin
<1>4. PICK n \in T : \A m \in T : ~(<<0..m, 0..n>> \in StrictSubsetOrdering(Nat))
  BY <1>3
<1>5. \A m \in T : n <= m
  <2> SUFFICES ASSUME NEW m \in T, m < n PROVE FALSE
    OBVIOUS
  <2>1. 0..m \in SUBSET Nat /\ 0..n \in SUBSET Nat /\ 0..m \subseteq 0..n /\ 0..m # 0..n
    OBVIOUS
  <2>2. <<0..m, 0..n>> \in StrictSubsetOrdering(Nat)
    BY <2>1, Zenon DEF StrictSubsetOrdering
  <2> QED
    BY <2>2, <1>4
<1> QED
  BY <1>5

\* Induction over 0..n: a set that holds 0 and is closed under the next number
\* holds all of them.
LEMMA UpTo ==
  ASSUME NEW n \in Nat, NEW P \in SUBSET (0..n),
         0 \in P, \A k \in 1..n : k - 1 \in P => k \in P
  PROVE  P = 0..n
<1> DEFINE T == (0..n) \ P
<1>1. T \in SUBSET Nat
  OBVIOUS
<1>2. SUFFICES ASSUME T # {} PROVE FALSE
  OBVIOUS
<1>3. PICK k \in T : \A m \in T : k <= m
  BY <1>1, <1>2, Least
<1>4. k \in 1..n /\ k - 1 \notin T
  BY <1>3
<1> QED
  BY <1>3, <1>4

\* h holds the values of a recursion over 0..n: b first, then each step F[k] of
\* the one before.
Chain(h, n, b, F) == h[0] = b /\ \A k \in 1..n : h[k] = F[k][h[k-1]]

\* There is such a function when each step keeps to S: it is what a recursive
\* function denotes.
LEMMA ChainExists ==
  ASSUME NEW n \in Nat, NEW S, NEW b \in S, NEW F \in [1..n -> [S -> S]]
  PROVE  \E h \in [0..n -> S] : Chain(h, n, b, F)
<1> DEFINE P == {k \in 0..n : \E h \in [0..k -> S] : Chain(h, k, b, F)}
<1>1. 0 \in P
  <2>1. [i \in 0..0 |-> b] \in [0..0 -> S] /\ Chain([i \in 0..0 |-> b], 0, b, F)
    BY DEF Chain
  <2> QED
    BY <2>1
<1>2. ASSUME NEW k \in 1..n, k - 1 \in P
      PROVE  k \in P
  <2>1. PICK g \in [0..(k-1) -> S] : Chain(g, k - 1, b, F)
    BY <1>2
  <2> DEFINE h == [i \in 0..k |-> IF i = k THEN F[k][g[k-1]] ELSE g[i]]
  <2>2. k - 1 \in 0..(k-1) /\ \A i \in 0..k : i = k \/ i \in 0..(k-1)
    OBVIOUS
  <2>3. F[k][g[k-1]] \in S
    BY <2>1, <2>2
  <2>4. h \in [0..k -> S]
    BY <2>1, <2>2, <2>3
  <2>5. \A i \in 1..k : h[i] = F[i][h[i-1]]
    BY <2>1, <2>2 DEF Chain
  <2>6. h[0] = b
    BY <2>1 DEF Chain
  <2> HIDE DEF h
  <2>7. Chain(h, k, b, F)
    BY <2>5, <2>6 DEF Chain
  <2> QED
    BY <2>4, <2>7
<1>3. n \in P
  <2>1. P \in SUBSET (0..n) /\ n \in 0..n
    OBVIOUS
  <2> HIDE DEF P
  <2> QED
    BY <1>1, <1>2, <2>1, UpTo
<1> QED
  BY <1>3

-----------------------------------------------------------------------------
(* Types.                                                                  *)

\* What a page may show.
Page == [queue : Table, stats : Nat, history : [Rows -> Nat], lines : SUBSET (1..LogLines)]

\* The parts of TypeOK, one for each group of variables.
ServerTypes ==
  /\ table \in Table /\ count \in 0..MaxChanges /\ changes \in 0..MaxChanges
  /\ gone \subseteq Nat /\ records \in [Rows -> 0..MaxChanges] /\ untold \subseteq Rows
MailTypes ==
  /\ pending \in Table /\ pendingQ \in QueueFrame \cup {None}
  /\ events \in Seq(HistoryFrame) /\ Len(events) <= HubEventBuf /\ gap \in BOOLEAN
LoopTypes ==
  /\ clients \subseteq Clients /\ lastStats \in Nat \cup {None}
  /\ hub \in {"select", "queue", "stats"} /\ astray \subseteq Items
DoorTypes ==
  /\ register \in Seq(Clients) /\ Len(register) <= HubClientBuf
  /\ unregister \in Seq(Clients) /\ Len(unregister) <= HubClientBuf
SessionTypes ==
  /\ conn \in [Clients -> {"off", "on", "closed"}]
  /\ topics \in [Clients -> SUBSET Topics]
  /\ sub \in [Clients -> Sub \cup {None}]
  /\ subs \in [Clients -> 0..MaxSubs]
\* What may wait for a client.
Waiting == {q \in Seq(Frame) : Len(q) <= ClientSendBuf}
SendTypes == send \in [Clients -> Waiting]
PageTypes == page \in [Clients -> Page]
MissedTypes == missed \in [Clients -> SUBSET {"queue", "history"}]

\* The types of all variables, in groups.
LEMMA Types ==
  TypeOK <=> /\ ServerTypes /\ MailTypes /\ LoopTypes /\ DoorTypes /\ SessionTypes
             /\ SendTypes /\ PageTypes /\ MissedTypes
<1>1. SendTypes <=> send \in [Clients -> Seq(Frame)] /\ \A c \in Clients : Len(send[c]) <= ClientSendBuf
  BY DEF SendTypes, Waiting
<1>2. \A x, y, S : {x, y} \subseteq S <=> x \in S /\ y \in S
  OBVIOUS
<1>3. {count, changes} \subseteq 0..MaxChanges <=> count \in 0..MaxChanges /\ changes \in 0..MaxChanges
  BY <1>2
<1>4. {register, unregister} \subseteq Seq(Clients) <=> register \in Seq(Clients) /\ unregister \in Seq(Clients)
  BY <1>2
<1> QED
  BY <1>1, <1>3, <1>4, Zenon
     DEF TypeOK, ServerTypes, MailTypes, LoopTypes, DoorTypes, SessionTypes, PageTypes, MissedTypes, Page

\* What the constants are.
LEMMA Facts ==
  /\ HubEventBuf \in Nat /\ ClientSendBuf \in Nat /\ HubClientBuf \in Nat
  /\ FollowLog \in Nat /\ LogLines \in Nat /\ MaxChanges \in Nat /\ MaxSubs \in Nat
  /\ IsFiniteSet(Items)
  /\ None \notin Row /\ None \notin Table /\ None \notin QueueFrame /\ None \notin Sub
BY HubAssumption, NoneAssumption DEF HubAssumption, NoneAssumption

\* A frame put into a buffer, or dropped.
LEMMA Enqueued ==
  ASSUME NEW q \in Waiting, NEW frame \in Frame
  PROVE  Enqueue(q, frame) \in Waiting
BY Facts DEF Enqueue, Waiting

\* What the frames of a tick make of a buffer stays in a set that each of them
\* stays in.
LEMMA AllEnqueued ==
  ASSUME NEW S, NEW b \in S, NEW E, NEW xs \in Seq(E),
         \A x \in S : \A e \in E : Enqueue(x, e) \in S
  PROVE  EnqueueAll(b, xs) \in S
<1> DEFINE n == Len(xs)
      F == [k \in 1..n |-> [x \in S |-> Enqueue(x, xs[k])]]
      Step(g) == [k \in 0..n |-> IF k = 0 THEN b ELSE Enqueue(g[k-1], xs[k])]
      it == CHOOSE g : g = Step(g)
<1>1. EnqueueAll(b, xs) = it[n]
  BY Zenon DEF EnqueueAll
<1>2. n \in Nat /\ \A k \in 1..n : xs[k] \in E
  BY LenProperties, ElementOfSeq
<1>3. F \in [1..n -> [S -> S]]
  BY <1>2
<1>4. PICK h \in [0..n -> S] : Chain(h, n, b, F)
  <2> HIDE DEF F, n
  <2> QED
    BY <1>2, <1>3, ChainExists
<1>5. h[0] = b /\ \A k \in 1..n : h[k] = Enqueue(h[k-1], xs[k])
  <2>1. \A k \in 1..n : h[k-1] \in S
    BY <1>2
  <2> HIDE DEF n
  <2> QED
    BY <1>4, <2>1 DEF Chain
<1>6. h = Step(h)
  <2> HIDE DEF n
  <2>1. \A k \in 0..n : h[k] = Step(h)[k]
    BY <1>2, <1>5
  <2> QED
    BY <2>1
<1>7. it = Step(it)
  <2> HIDE DEF Step
  <2> QED
    BY <1>6, Zenon
<1>8. n \in {k \in 0..n : it[k] \in S}
  <2> DEFINE P == {k \in 0..n : it[k] \in S}
  <2>1. \A k \in 1..n : k - 1 \in 0..n
    BY <1>2
  <2> HIDE DEF it
  <2>2. 0 \in P
    BY <1>2, <1>7
  <2>3. \A k \in 1..n : k - 1 \in P => k \in P
    BY <1>2, <1>7, <2>1
  <2>4. P \in SUBSET (0..n) /\ n \in 0..n
    BY <1>2
  <2>5. n \in P
    <3> HIDE DEF P, n
    <3> QED
      BY <2>2, <2>3, <2>4, <1>2, UpTo
  <2> QED
    BY <2>5
<1> QED
  BY <1>1, <1>8

-----------------------------------------------------------------------------
(* What the marks of a list of frames come to.                             *)

\* One more mark.
LEMMA LandsMore ==
  ASSUME NEW n \in Nat, NEW a, DOMAIN a = 1..n, NEW b, DOMAIN b = 1..(n + 1),
         \A k \in 1..n : b[k] = a[k],
         NEW d, NEW v
  PROVE  /\ b[n + 1] = {} => (Lands(d, b, v) <=> Lands(d, a, v))
         /\ b[n + 1] = {v} => Lands(d, b, v)
<1>1. n + 1 \in 1..(n + 1) /\ \A k \in 1..n : k \in 1..(n + 1) /\ k < n + 1
  OBVIOUS
<1>2. \A k \in 1..(n + 1) : k \in 1..n \/ k = n + 1
  OBVIOUS
<1>3. ASSUME b[n + 1] = {}
      PROVE  Lands(d, b, v) <=> Lands(d, a, v)
  <2>1. (\A k \in 1..(n + 1) : b[k] = {}) <=> (\A k \in 1..n : a[k] = {})
    BY <1>1, <1>2, <1>3
  <2>2. ASSUME NEW k \in 1..(n + 1), b[k] = {v}, \A j \in 1..(n + 1) : j > k => b[j] = {}
        PROVE  k \in 1..n /\ a[k] = {v} /\ \A j \in 1..n : j > k => a[j] = {}
    <3>1. k # n + 1
      BY <1>3, <2>2
    <3> QED
      BY <1>1, <1>2, <2>2, <3>1
  <2>3. ASSUME NEW k \in 1..n, a[k] = {v}, \A j \in 1..n : j > k => a[j] = {}
        PROVE  k \in 1..(n + 1) /\ b[k] = {v} /\ \A j \in 1..(n + 1) : j > k => b[j] = {}
    <3>1. k \in 1..(n + 1) /\ b[k] = {v}
      BY <1>1, <2>3
    <3>2. ASSUME NEW j \in 1..(n + 1), j > k
          PROVE  b[j] = {}
      <4>1. CASE j \in 1..n
        BY <1>1, <2>3, <3>2, <4>1
      <4>2. CASE j = n + 1
        BY <1>3, <4>2
      <4> QED
        BY <1>2, <4>1, <4>2
    <3> QED
      BY <3>1, <3>2
  <2>4. ASSUME Lands(d, b, v)
        PROVE  Lands(d, a, v)
    <3>1. CASE d = v /\ \A k \in 1..(n + 1) : b[k] = {}
      BY <2>1, <3>1 DEF Lands
    <3>2. CASE \E k \in 1..(n + 1) : b[k] = {v} /\ \A j \in 1..(n + 1) : j > k => b[j] = {}
      BY <2>2, <3>2 DEF Lands
    <3> QED
      BY <2>4, <3>1, <3>2 DEF Lands
  <2>5. ASSUME Lands(d, a, v)
        PROVE  Lands(d, b, v)
    <3>1. CASE d = v /\ \A k \in 1..n : a[k] = {}
      BY <2>1, <3>1 DEF Lands
    <3>2. CASE \E k \in 1..n : a[k] = {v} /\ \A j \in 1..n : j > k => a[j] = {}
      BY <2>3, <3>2 DEF Lands
    <3> QED
      BY <2>5, <3>1, <3>2 DEF Lands
  <2> QED
    BY <2>4, <2>5
<1>4. ASSUME b[n + 1] = {v}
      PROVE  Lands(d, b, v)
  <2>1. \A j \in 1..(n + 1) : ~(j > n + 1)
    OBVIOUS
  <2> QED
    BY <1>1, <1>4, <2>1 DEF Lands
<1> QED
  BY <1>3, <1>4

\* One mark less: it is carried out.
LEMMA LandsLess ==
  ASSUME NEW n \in Nat \ {0}, NEW a, DOMAIN a = 1..n, NEW b, DOMAIN b = 1..(n - 1),
         \A k \in 1..(n - 1) : b[k] = a[k + 1],
         NEW d, NEW e, (a[1] = {} /\ e = d) \/ a[1] = {e}, NEW v
  PROVE  Lands(d, a, v) => Lands(e, b, v)
<1>1. 1 \in 1..n /\ \A k \in 1..(n - 1) : k + 1 \in 1..n /\ k + 1 > 1
  OBVIOUS
<1>2. \A k \in 1..n : k = 1 \/ (k - 1 \in 1..(n - 1) /\ k = (k - 1) + 1)
  OBVIOUS
<1>3. ASSUME d = v, \A k \in 1..n : a[k] = {}
      PROVE  Lands(e, b, v)
  <2>1. e = v /\ \A k \in 1..(n - 1) : b[k] = {}
    BY <1>1, <1>3
  <2> QED
    BY <2>1 DEF Lands
<1>4. ASSUME NEW k \in 1..n, a[k] = {v}, \A j \in 1..n : j > k => a[j] = {}
      PROVE  Lands(e, b, v)
  <2>1. CASE k = 1
    <3>1. e = v
      BY <1>4, <2>1
    <3>2. \A j \in 1..(n - 1) : b[j] = {}
      BY <1>1, <1>4, <2>1
    <3> QED
      BY <3>1, <3>2 DEF Lands
  <2>2. CASE k # 1
    <3>1. k - 1 \in 1..(n - 1) /\ b[k - 1] = {v}
      BY <1>2, <1>4, <2>2
    <3>2. \A j \in 1..(n - 1) : j > k - 1 => j + 1 \in 1..n /\ j + 1 > k
      BY <1>4
    <3>3. \A j \in 1..(n - 1) : j > k - 1 => b[j] = {}
      BY <1>4, <3>2
    <3> QED
      BY <3>1, <3>3 DEF Lands
  <2> QED
    BY <2>1, <2>2
<1> QED
  BY <1>3, <1>4 DEF Lands

\* Nothing on its way changes nothing.
LEMMA LandsNone ==
  ASSUME NEW a, DOMAIN a = {}, NEW d, NEW v
  PROVE  Lands(d, a, v) <=> d = v
BY DEF Lands

\* One more frame.
LEMMA MoreFrames ==
  ASSUME NEW S, NEW q \in Seq(S), NEW frame \in S, NEW d, NEW v
  PROVE  /\ \A r : /\ HistoryMark(frame, r) = {} =>
                        (Lands(d, HistoryMarks(Append(q, frame), r), v) <=> Lands(d, HistoryMarks(q, r), v))
                   /\ HistoryMark(frame, r) = {v} => Lands(d, HistoryMarks(Append(q, frame), r), v)
         /\ \A i : /\ QueueMark(frame, i) = {} =>
                        (Lands(d, QueueMarks(Append(q, frame), i), v) <=> Lands(d, QueueMarks(q, i), v))
                   /\ QueueMark(frame, i) = {v} => Lands(d, QueueMarks(Append(q, frame), i), v)
<1>1. PICK more : more = Append(q, frame)
  OBVIOUS
<1>2. PICK n : n = Len(q)
  OBVIOUS
<1>3. /\ n \in Nat /\ DOMAIN q = 1..n /\ DOMAIN more = 1..(n + 1)
      /\ more[n + 1] = frame /\ \A k \in 1..n : more[k] = q[k]
  BY <1>1, <1>2
<1>4. n + 1 \in 1..(n + 1) /\ \A k \in 1..n : k \in 1..(n + 1)
  BY <1>3
<1>5. ASSUME NEW r
      PROVE  /\ HistoryMark(frame, r) = {} =>
                  (Lands(d, HistoryMarks(more, r), v) <=> Lands(d, HistoryMarks(q, r), v))
             /\ HistoryMark(frame, r) = {v} => Lands(d, HistoryMarks(more, r), v)
  <2>1. PICK a : a = HistoryMarks(q, r)
    OBVIOUS
  <2>2. PICK b : b = HistoryMarks(more, r)
    OBVIOUS
  <2>3. DOMAIN a = 1..n /\ DOMAIN b = 1..(n + 1) /\ b[n + 1] = HistoryMark(frame, r)
        /\ \A k \in 1..n : b[k] = a[k]
    BY <1>3, <1>4, <2>1, <2>2 DEF HistoryMarks
  <2> QED
    BY <1>3, <2>1, <2>2, <2>3, LandsMore
<1>6. ASSUME NEW i
      PROVE  /\ QueueMark(frame, i) = {} =>
                  (Lands(d, QueueMarks(more, i), v) <=> Lands(d, QueueMarks(q, i), v))
             /\ QueueMark(frame, i) = {v} => Lands(d, QueueMarks(more, i), v)
  <2>1. PICK a : a = QueueMarks(q, i)
    OBVIOUS
  <2>2. PICK b : b = QueueMarks(more, i)
    OBVIOUS
  <2>3. DOMAIN a = 1..n /\ DOMAIN b = 1..(n + 1) /\ b[n + 1] = QueueMark(frame, i)
        /\ \A k \in 1..n : b[k] = a[k]
    BY <1>3, <1>4, <2>1, <2>2 DEF QueueMarks
  <2> QED
    BY <1>3, <2>1, <2>2, <2>3, LandsMore
<1> QED
  BY <1>1, <1>5, <1>6

\* The first frame is carried out.
LEMMA LessFrames ==
  ASSUME NEW S, NEW q \in Seq(S), q # <<>>, NEW d, NEW e, NEW v
  PROVE  /\ \A r : (HistoryMark(Head(q), r) = {} /\ e = d) \/ HistoryMark(Head(q), r) = {e} =>
                     (Lands(d, HistoryMarks(q, r), v) => Lands(e, HistoryMarks(Tail(q), r), v))
         /\ \A i : (QueueMark(Head(q), i) = {} /\ e = d) \/ QueueMark(Head(q), i) = {e} =>
                     (Lands(d, QueueMarks(q, i), v) => Lands(e, QueueMarks(Tail(q), i), v))
<1>1. PICK rest : rest = Tail(q)
  OBVIOUS
<1>2. PICK n : n = Len(q)
  OBVIOUS
<1>3. /\ n \in Nat \ {0} /\ DOMAIN q = 1..n /\ DOMAIN rest = 1..(n - 1)
      /\ Head(q) = q[1] /\ \A k \in 1..(n - 1) : rest[k] = q[k + 1]
  BY <1>1, <1>2
<1>4. 1 \in 1..n /\ \A k \in 1..(n - 1) : k + 1 \in 1..n
  BY <1>3
<1>5. ASSUME NEW r, (HistoryMark(Head(q), r) = {} /\ e = d) \/ HistoryMark(Head(q), r) = {e}
      PROVE  Lands(d, HistoryMarks(q, r), v) => Lands(e, HistoryMarks(rest, r), v)
  <2>1. PICK a : a = HistoryMarks(q, r)
    OBVIOUS
  <2>2. PICK b : b = HistoryMarks(rest, r)
    OBVIOUS
  <2>3. DOMAIN a = 1..n /\ DOMAIN b = 1..(n - 1) /\ a[1] = HistoryMark(Head(q), r)
        /\ \A k \in 1..(n - 1) : b[k] = a[k + 1]
    BY <1>3, <1>4, <2>1, <2>2 DEF HistoryMarks
  <2>4. (a[1] = {} /\ e = d) \/ a[1] = {e}
    BY <1>5, <2>3
  <2>5. Lands(d, a, v) => Lands(e, b, v)
    BY <1>3, <2>3, <2>4, LandsLess
  <2> QED
    BY <2>1, <2>2, <2>5
<1>6. ASSUME NEW i, (QueueMark(Head(q), i) = {} /\ e = d) \/ QueueMark(Head(q), i) = {e}
      PROVE  Lands(d, QueueMarks(q, i), v) => Lands(e, QueueMarks(rest, i), v)
  <2>1. PICK a : a = QueueMarks(q, i)
    OBVIOUS
  <2>2. PICK b : b = QueueMarks(rest, i)
    OBVIOUS
  <2>3. DOMAIN a = 1..n /\ DOMAIN b = 1..(n - 1) /\ a[1] = QueueMark(Head(q), i)
        /\ \A k \in 1..(n - 1) : b[k] = a[k + 1]
    BY <1>3, <1>4, <2>1, <2>2 DEF QueueMarks
  <2>4. (a[1] = {} /\ e = d) \/ a[1] = {e}
    BY <1>6, <2>3
  <2>5. Lands(d, a, v) => Lands(e, b, v)
    BY <1>3, <2>3, <2>4, LandsLess
  <2> QED
    BY <2>1, <2>2, <2>5
<1> QED
  BY <1>1, <1>5, <1>6

\* No frames.
LEMMA NoFrames ==
  ASSUME NEW d, NEW v
  PROVE  /\ \A r : Lands(d, HistoryMarks(<<>>, r), v) <=> d = v
         /\ \A i : Lands(d, QueueMarks(<<>>, i), v) <=> d = v
<1>1. DOMAIN <<>> = {}
  OBVIOUS
<1>2. \A r : DOMAIN HistoryMarks(<<>>, r) = {}
  BY <1>1 DEF HistoryMarks
<1>3. \A i : DOMAIN QueueMarks(<<>>, i) = {}
  BY <1>1 DEF QueueMarks
<1> QED
  BY <1>2, <1>3, LandsNone

\* What frames there are: their type tells their fields.
LEMMA Frames ==
  ASSUME NEW f \in Frame
  PROVE  \/ f.type = "queue" /\ f.items \in Table \cup {None} /\ f.stats \in Nat
         \/ f.type = "progress" /\ f.item \in Items /\ f.row \in Row
         \/ /\ f.type = "history"
            /\ \/ f.op = "snapshot" /\ f.rows \in [Rows -> Nat]
               \/ f.op = "clear"
               \/ f.op \in {"upsert", "delete"} /\ f.row \in Rows /\ f.version \in Nat
         \/ f.type = "log" /\ f.line \in 1..LogLines
BY DEF Frame, QueueFrame, ProgressFrame, HistoryFrame

\* A mark is no say or one value.
LEMMA OneMark ==
  ASSUME NEW f \in Frame, NEW r \in Rows
  PROVE  HistoryMark(f, r) = {} \/ \E v \in Nat : HistoryMark(f, r) = {v}
<1>1. f.type = "history" /\ f.op = "snapshot" => f.rows[r] \in Nat
  BY Frames
<1>2. f.type = "history" /\ f.op = "upsert" => f.version \in Nat
  BY Frames
<1> QED
  BY <1>1, <1>2 DEF HistoryMark

\* A page that is sent a frame shows what the frame says.
LEMMA Shown ==
  ASSUME NEW p \in Page, NEW f \in Frame
  PROVE  /\ Show(p, f) \in Page
         /\ \A r \in Rows : \/ HistoryMark(f, r) = {} /\ Show(p, f).history[r] = p.history[r]
                            \/ HistoryMark(f, r) = {Show(p, f).history[r]}
         /\ \A i \in Items : \/ QueueMark(f, i) = {} /\ Show(p, f).queue[i] = p.queue[i]
                             \/ QueueMark(f, i) = {Status(Show(p, f).queue[i])}
<1>1. /\ p.queue \in Table /\ p.stats \in Nat /\ p.history \in [Rows -> Nat]
      /\ p.lines \in SUBSET (1..LogLines)
  BY DEF Page
<1>2. CASE f.type = "queue"
  <2>1. f.items \in Table \cup {None} /\ f.stats \in Nat
    BY <1>2, Frames
  <2>2. Show(p, f) = [p EXCEPT !.stats = f.stats, !.queue = IF f.items = None THEN p.queue ELSE f.items]
    BY <1>2 DEF Show
  <2>3. Show(p, f) \in Page /\ Show(p, f).history = p.history
        /\ Show(p, f).queue = IF f.items = None THEN p.queue ELSE f.items
    BY <1>1, <2>1, <2>2 DEF Page
  <2>4. \A r : HistoryMark(f, r) = {}
    BY <1>2 DEF HistoryMark
  <2>5. \A i : QueueMark(f, i) = IF f.items = None THEN {} ELSE {Status(f.items[i])}
    BY <1>2 DEF QueueMark
  <2> QED
    BY <2>3, <2>4, <2>5
<1>3. CASE f.type = "progress"
  <2>1. f.item \in Items /\ f.row \in Row
    BY <1>3, Frames
  <2>2. Show(p, f) = [p EXCEPT !.queue[f.item] = f.row]
    BY <1>3 DEF Show
  <2>3. Show(p, f) = [p EXCEPT !.queue = [p.queue EXCEPT ![f.item] = f.row]]
    BY <2>2, Zenon
  <2>4. [p.queue EXCEPT ![f.item] = f.row] \in Table
    BY <1>1, <2>1 DEF Table
  <2>5. Show(p, f) \in Page /\ Show(p, f).history = p.history
        /\ Show(p, f).queue = [p.queue EXCEPT ![f.item] = f.row]
    BY <1>1, <2>3, <2>4 DEF Page
  <2>6. \A r : HistoryMark(f, r) = {}
    BY <1>3 DEF HistoryMark
  <2>7. \A i : QueueMark(f, i) = IF f.item = i THEN {f.row.status} ELSE {}
    BY <1>3 DEF QueueMark
  <2>8. Status(f.row) = f.row.status
    BY <2>1, Facts DEF Status
  <2>9. \A i \in Items : [p.queue EXCEPT ![f.item] = f.row][i] = IF i = f.item THEN f.row ELSE p.queue[i]
    BY <1>1, <2>1 DEF Table
  <2> QED
    BY <2>5, <2>6, <2>7, <2>8, <2>9
<1>4. CASE f.type = "history"
  <2>1. \/ f.op = "snapshot" /\ f.rows \in [Rows -> Nat]
        \/ f.op = "clear"
        \/ f.op \in {"upsert", "delete"} /\ f.row \in Rows /\ f.version \in Nat
    BY <1>4, Frames
  <2>2. Show(p, f) = [p EXCEPT !.history = ApplyHistory(p.history, f)]
    BY <1>4 DEF Show
  <2>3. /\ ApplyHistory(p.history, f) \in [Rows -> Nat]
        /\ \A r \in Rows : \/ HistoryMark(f, r) = {} /\ ApplyHistory(p.history, f)[r] = p.history[r]
                           \/ HistoryMark(f, r) = {ApplyHistory(p.history, f)[r]}
    <3>1. CASE f.op = "snapshot" /\ f.rows \in [Rows -> Nat]
      BY <1>4, <3>1 DEF ApplyHistory, HistoryMark
    <3>2. CASE f.op = "clear"
      BY <1>4, <3>2 DEF ApplyHistory, HistoryMark, NoRows
    <3>3. CASE f.op = "upsert" /\ f.row \in Rows /\ f.version \in Nat
      BY <1>1, <1>4, <3>3 DEF ApplyHistory, HistoryMark
    <3>4. CASE f.op = "delete" /\ f.row \in Rows /\ f.version \in Nat
      BY <1>1, <1>4, <3>4 DEF ApplyHistory, HistoryMark
    <3> QED
      BY <2>1, <3>1, <3>2, <3>3, <3>4
  <2>4. PICK h : h = ApplyHistory(p.history, f)
    OBVIOUS
  <2>5. Show(p, f) \in Page /\ Show(p, f).queue = p.queue /\ Show(p, f).history = h
    BY <1>1, <2>2, <2>3, <2>4 DEF Page
  <2>6. \A i : QueueMark(f, i) = {}
    BY <1>4 DEF QueueMark
  <2> QED
    BY <2>3, <2>4, <2>5, <2>6
<1>5. CASE f.type = "log"
  <2>1. f.line \in 1..LogLines
    BY <1>5, Frames
  <2>2. Show(p, f) = [p EXCEPT !.lines = p.lines \cup {f.line}]
    BY <1>5 DEF Show
  <2>3. Show(p, f) \in Page /\ Show(p, f).queue = p.queue /\ Show(p, f).history = p.history
    BY <1>1, <2>1, <2>2 DEF Page
  <2>4. \A i, r : QueueMark(f, i) = {} /\ HistoryMark(f, r) = {}
    BY <1>5 DEF QueueMark, HistoryMark
  <2> QED
    BY <2>3, <2>4
<1> QED
  BY <1>2, <1>3, <1>4, <1>5, Frames

-----------------------------------------------------------------------------
(* What a step leaves as it was.                                           *)

\* The types after a step.
LEMMA TypesNext ==
  ASSUME ServerTypes', MailTypes', LoopTypes', DoorTypes', SessionTypes',
         SendTypes', PageTypes', MissedTypes'
  PROVE  TypeOK'
<1>1. (TypeOK <=> /\ ServerTypes /\ MailTypes /\ LoopTypes /\ DoorTypes /\ SessionTypes
                  /\ SendTypes /\ PageTypes /\ MissedTypes)'
  BY Types, PTL
<1> QED
  BY <1>1, Zenon

\* What was not touched keeps its type.
LEMMA Untouched ==
  /\ ServerTypes /\ UNCHANGED server => ServerTypes'
  /\ MailTypes /\ UNCHANGED mailbox => MailTypes'
  /\ LoopTypes /\ UNCHANGED loop => LoopTypes'
  /\ DoorTypes /\ UNCHANGED doors => DoorTypes'
  /\ SessionTypes /\ UNCHANGED session => SessionTypes'
  /\ SendTypes /\ UNCHANGED send => SendTypes'
  /\ PageTypes /\ UNCHANGED page => PageTypes'
  /\ MissedTypes /\ UNCHANGED missed => MissedTypes'
BY Zenon DEF ServerTypes, server, MailTypes, mailbox, LoopTypes, loop, DoorTypes, doors,
   SessionTypes, session, SendTypes, PageTypes, MissedTypes

\* A step that changes neither the history nor its frames, nor what a client
\* is shown, keeps what its page comes to.
LEMMA HistoryKept ==
  ASSUME NEW c \in Clients, HistoryLands(c), UNCHANGED <<events, records, untold>>, page'[c] = page[c],
         conn'[c] = "on" /\ Follows(c, "history")' => conn[c] = "on" /\ Follows(c, "history"),
         Serving(c, "history")' <=> Serving(c, "history"),
         Serving(c, "history") => sub'[c].rows = sub[c].rows,
         \A r \in Rows, w \in Nat :
           Lands(page[c].history[r], HistoryMarks(send[c], r), w) =>
             Lands(page[c].history[r], HistoryMarks(send'[c], r), w)
  PROVE  HistoryLands(c)'
<1> SUFFICES ASSUME conn'[c] = "on", Follows(c, "history")', NEW r \in Rows
             PROVE  IF Serving(c, "history")'
                    THEN Told(sub[c].rows[r], r)'
                    ELSE \E w \in Nat :
                           Lands(page'[c].history[r], HistoryMarks(send'[c], r), w) /\ Told(w, r)'
  BY Zenon DEF HistoryLands, Told
<1>1. IF Serving(c, "history")
      THEN Told(sub[c].rows[r], r)
      ELSE \E w \in Nat : Lands(page[c].history[r], HistoryMarks(send[c], r), w) /\ Told(w, r)
  BY DEF HistoryLands
<1>2. CASE Serving(c, "history")
  BY <1>1, <1>2 DEF Told
<1>3. CASE ~Serving(c, "history")
  BY <1>1, <1>3 DEF Told
<1> QED
  BY <1>2, <1>3

\* A step that leaves the hub less to send, keeps the statuses and what a client
\* is shown of them, keeps what its page comes to.
LEMMA QueueKept ==
  ASSUME NEW c \in Clients, QueueLands(c), SameStatus(table, table'),
         pendingQ' = None => pendingQ = None, astray \subseteq astray', page'[c] = page[c],
         conn'[c] = "on" /\ Follows(c, "queue")' => conn[c] = "on" /\ Follows(c, "queue"),
         Serving(c, "queue")' <=> Serving(c, "queue"),
         Serving(c, "items")' <=> Serving(c, "items"),
         Serving(c, "queue") => sub'[c].items = sub[c].items,
         pendingQ = None =>
           \A i \in Items \ astray' :
             Lands(Status(page[c].queue[i]), QueueMarks(send[c], i), Status(table[i])) =>
               Lands(Status(page[c].queue[i]), QueueMarks(send'[c], i), Status(table[i]))
  PROVE  QueueLands(c)'
<1> SUFFICES ASSUME conn'[c] = "on", Follows(c, "queue")', pendingQ' = None
             PROVE  /\ Serving(c, "queue")' => sub'[c].items \in Table /\ SameStatus(sub'[c].items, table')
                    /\ ~Serving(c, "items")' /\ ~Serving(c, "queue")' =>
                         \A i \in Items \ astray' :
                           Lands(Status(page'[c].queue[i]), QueueMarks(send'[c], i), Status(table'[i]))
  BY Zenon DEF QueueLands, SameStatus
<1>1. /\ Serving(c, "queue") => sub[c].items \in Table /\ SameStatus(sub[c].items, table)
      /\ ~Serving(c, "items") /\ ~Serving(c, "queue") =>
           \A i \in Items \ astray :
             Lands(Status(page[c].queue[i]), QueueMarks(send[c], i), Status(table[i]))
  BY DEF QueueLands
<1>2. Serving(c, "queue")' => sub'[c].items \in Table /\ SameStatus(sub'[c].items, table')
  BY <1>1 DEF SameStatus
<1>3. ASSUME ~Serving(c, "items")', ~Serving(c, "queue")', NEW i \in Items \ astray'
      PROVE  Lands(Status(page'[c].queue[i]), QueueMarks(send'[c], i), Status(table'[i]))
  <2>1. i \in Items \ astray
    OBVIOUS
  <2>2. Lands(Status(page[c].queue[i]), QueueMarks(send[c], i), Status(table[i]))
    BY <1>1, <1>3, <2>1
  <2>3. Status(table'[i]) = Status(table[i])
    BY DEF SameStatus
  <2> QED
    BY <1>3, <2>2, <2>3
<1> QED
  BY <1>2, <1>3

\* A frame put into a buffer says no more than its marks.
LEMMA SentHistory ==
  ASSUME NEW q \in Waiting, NEW f \in Frame, NEW r \in Rows, HistoryMark(f, r) = {},
         NEW d, NEW w, Lands(d, HistoryMarks(q, r), w)
  PROVE  Lands(d, HistoryMarks(Enqueue(q, f), r), w)
<1>1. q \in Seq(Frame)
  BY DEF Waiting
<1>2. Lands(d, HistoryMarks(Append(q, f), r), w)
  BY <1>1, MoreFrames
<1> QED
  BY <1>2 DEF Enqueue

\* The same of the queue, if what it says is what holds anyway.
LEMMA SentQueue ==
  ASSUME NEW q \in Waiting, NEW f \in Frame, NEW i \in Items, NEW d, NEW w,
         QueueMark(f, i) = {} \/ QueueMark(f, i) = {w}, Lands(d, QueueMarks(q, i), w)
  PROVE  Lands(d, QueueMarks(Enqueue(q, f), i), w)
<1>1. q \in Seq(Frame)
  BY DEF Waiting
<1>2. Lands(d, QueueMarks(Append(q, f), i), w)
  BY <1>1, MoreFrames
<1> QED
  BY <1>2 DEF Enqueue

\* A client that a step does not touch is told what it was told, if the step
\* leaves the queue, the history and the frames to the hub alone.
LEMMA Apart ==
  ASSUME NEW c \in Clients, QueueLands(c), HistoryLands(c),
         UNCHANGED <<table, pendingQ, events, records, untold>>, astray \subseteq astray',
         UNCHANGED <<conn[c], topics[c], missed[c], sub[c], page[c], send[c]>>
  PROVE  QueueLands(c)' /\ HistoryLands(c)'
<1>1. /\ Follows(c, "history")' <=> Follows(c, "history")
      /\ Follows(c, "queue")' <=> Follows(c, "queue")
      /\ Serving(c, "history")' <=> Serving(c, "history")
      /\ Serving(c, "queue")' <=> Serving(c, "queue")
      /\ Serving(c, "items")' <=> Serving(c, "items")
  BY DEF Follows, Serving
<1>2. SameStatus(table, table')
  BY DEF SameStatus
<1>3. HistoryLands(c)'
  BY <1>1, HistoryKept
<1>4. QueueLands(c)'
  BY <1>1, <1>2, QueueKept
<1> QED
  BY <1>3, <1>4

-----------------------------------------------------------------------------
(* The producers.                                                          *)

\* The parts of the invariant.
LEMMA Parts ==
  ASSUME LiveInv
  PROVE  /\ TypeOK /\ Asked /\ TableWaits /\ EventsTell
         /\ \A c \in Clients : QueueLands(c) /\ HistoryLands(c)
         /\ ServerTypes /\ MailTypes /\ LoopTypes /\ DoorTypes /\ SessionTypes
         /\ SendTypes /\ PageTypes /\ MissedTypes
BY Types, Zenon DEF LiveInv

\* The next number of changes is one.
LEMMA Numbers ==
  ASSUME ServerTypes, Changed
  PROVE  changes' \in 0..MaxChanges /\ changes' \in Nat /\ MaxChanges \in Nat
BY Facts DEF ServerTypes, Changed

\* A new row of the table.
LEMMA Fresh ==
  ASSUME NEW n \in Nat
  PROVE  [status |-> n, detail |-> 0] \in Row
BY DEF Row

\* notifyQueueLocked: the table that waits now is the latest, so what the pages
\* come to is open until the hub sends it; the history is not touched.
LEMMA NotifyQueueKeeps ==
  ASSUME LiveInv, NEW i \in Items, NotifyQueue(i)
  PROVE  LiveInv'
<1>1. /\ TypeOK /\ Asked /\ TableWaits /\ EventsTell
      /\ \A c \in Clients : QueueLands(c) /\ HistoryLands(c)
      /\ ServerTypes /\ MailTypes /\ LoopTypes /\ DoorTypes /\ SessionTypes
      /\ SendTypes /\ PageTypes /\ MissedTypes
  BY Parts
<1>2. /\ Changed
      /\ pendingQ' = [type |-> "queue", items |-> table', stats |-> count]
      /\ ChangeTable(i)
      /\ UNCHANGED <<count, records, untold, pending, events, gap>>
      /\ UNCHANGED loop /\ UNCHANGED doors /\ UNCHANGED session
      /\ UNCHANGED send /\ UNCHANGED page /\ UNCHANGED missed
  BY Zenon DEF NotifyQueue
<1>3. table' \in Table /\ gone' \subseteq Nat
  <2>1. \/ table' = [table EXCEPT ![i] = None] /\ gone' = gone \cup {table[i].status} /\ table[i] # None
        \/ table' = [table EXCEPT ![i] = [status |-> changes', detail |-> 0]] /\ gone' = gone
    BY <1>2, Zenon DEF ChangeTable
  <2>2. [status |-> changes', detail |-> 0] \in Row
    BY <1>1, <1>2, Numbers, Fresh
  <2>3. table \in Table /\ gone \subseteq Nat
    BY <1>1 DEF ServerTypes
  <2>4. table' \in Table
    BY <2>1, <2>2, <2>3 DEF Table
  <2>5. table[i] # None => table[i].status \in Nat
    BY <2>3 DEF Table, Row
  <2> QED
    BY <2>1, <2>3, <2>4, <2>5
<1>4. pendingQ' \in QueueFrame /\ pendingQ' # None /\ pendingQ'.items = table'
  <2>1. count \in Nat
    BY <1>1, Facts DEF ServerTypes
  <2>2. pendingQ' \in QueueFrame /\ pendingQ'.items = table'
    BY <1>2, <1>3, <2>1 DEF QueueFrame
  <2> QED
    BY <2>2, Facts
<1>5. ServerTypes'
  BY <1>1, <1>2, <1>3, Numbers DEF ServerTypes
<1>6. MailTypes'
  BY <1>1, <1>2, <1>4, Zenon DEF MailTypes
<1>7. TypeOK'
  BY <1>1, <1>2, <1>5, <1>6, Untouched, TypesNext, Zenon
<1>8. Asked'
  BY <1>1, <1>2 DEF Asked, session
<1>9. TableWaits'
  BY <1>3, <1>4 DEF TableWaits, SameStatus
<1>10. EventsTell'
  BY <1>1, <1>2 DEF EventsTell, Told
<1>11. ASSUME NEW c \in Clients
       PROVE  QueueLands(c)' /\ HistoryLands(c)'
  <2>1. QueueLands(c)'
    BY <1>4 DEF QueueLands
  <2>2. HistoryLands(c)'
    BY <1>1, <1>2 DEF HistoryLands, Told, Follows, Serving, session
  <2> QED
    BY <2>1, <2>2
<1> QED
  BY <1>7, <1>8, <1>9, <1>10, <1>11, Zenon DEF LiveInv

\* notifyProgress: no status changes, and what waits for the tick alone is open.
LEMMA NotifyProgressKeeps ==
  ASSUME LiveInv, NEW i \in Items, NotifyProgress(i)
  PROVE  LiveInv'
<1>1. /\ TypeOK /\ Asked /\ TableWaits /\ EventsTell
      /\ \A c \in Clients : QueueLands(c) /\ HistoryLands(c)
      /\ ServerTypes /\ MailTypes /\ LoopTypes /\ DoorTypes /\ SessionTypes
      /\ SendTypes /\ PageTypes /\ MissedTypes
  BY Parts
<1>2. /\ Changed
      /\ UNCHANGED <<gone, count, records, untold, pendingQ, events, gap>>
      /\ UNCHANGED loop /\ UNCHANGED doors /\ UNCHANGED session
      /\ UNCHANGED send /\ UNCHANGED page /\ UNCHANGED missed
  BY Zenon DEF NotifyProgress
<1>3. changes' \in Nat /\ table \in Table /\ pending \in Table /\ gone \subseteq Nat
  BY <1>1, <1>2, Numbers DEF ServerTypes, MailTypes
<1>4. table' \in Table /\ pending' \in Table /\ SameStatus(table, table')
  <2>1. CASE table[i] # None /\ table' = [table EXCEPT ![i].detail = changes'] /\ pending' = [pending EXCEPT ![i] = table'[i]]
    <3>1. PICK row : row = [table[i] EXCEPT !.detail = changes']
      OBVIOUS
    <3>2. table[i] \in Row
      BY <1>3, <2>1 DEF Table
    <3>3. row \in Row /\ row.status = table[i].status /\ table' = [table EXCEPT ![i] = row]
      BY <1>3, <2>1, <3>1, <3>2 DEF Row
    <3>4. /\ table' \in Table /\ table'[i] = row /\ pending' \in Table
          /\ \A j \in Items : j # i => table'[j] = table[j]
      BY <1>3, <2>1, <3>3 DEF Table
    <3>5. Status(table[i]) = Status(table'[i])
      BY <3>2, <3>3, <3>4, Facts DEF Status
    <3> QED
      BY <3>4, <3>5 DEF SameStatus
  <2>2. CASE /\ \E status \in gone : pending' = [pending EXCEPT ![i] = [status |-> status, detail |-> changes']]
             /\ table' = table
    <3>1. PICK status \in gone : pending' = [pending EXCEPT ![i] = [status |-> status, detail |-> changes']]
      BY <2>2
    <3>2. [status |-> status, detail |-> changes'] \in Row
      BY <1>3 DEF Row
    <3> QED
      BY <1>3, <2>2, <3>1, <3>2 DEF Table, SameStatus
  <2> QED
    BY <2>1, <2>2, Zenon DEF NotifyProgress
<1>5. TypeOK'
  <2>1. ServerTypes'
    BY <1>1, <1>2, <1>4, Numbers DEF ServerTypes
  <2>2. MailTypes'
    BY <1>1, <1>2, <1>4, Zenon DEF MailTypes
  <2> QED
    BY <1>1, <1>2, <2>1, <2>2, Untouched, TypesNext, Zenon
<1>6. Asked'
  BY <1>1, <1>2 DEF Asked, session
<1>7. TableWaits'
  BY <1>1, <1>2, <1>4 DEF TableWaits, SameStatus
<1>8. EventsTell'
  BY <1>1, <1>2 DEF EventsTell, Told
<1>9. ASSUME NEW c \in Clients
      PROVE  QueueLands(c)' /\ HistoryLands(c)'
  <2>1. QueueLands(c)'
    <3>1. astray \subseteq astray'
      BY <1>2, Zenon DEF loop
    <3>2. /\ Follows(c, "queue")' <=> Follows(c, "queue")
          /\ Serving(c, "queue")' <=> Serving(c, "queue")
          /\ Serving(c, "items")' <=> Serving(c, "items")
          /\ conn'[c] = conn[c] /\ sub'[c] = sub[c] /\ page'[c] = page[c] /\ send'[c] = send[c]
      BY <1>2 DEF Follows, Serving, session
    <3> QED
      BY <1>1, <1>2, <1>4, <3>1, <3>2, QueueKept
  <2>2. HistoryLands(c)'
    BY <1>1, <1>2 DEF HistoryLands, Told, Follows, Serving, session
  <2> QED
    BY <2>1, <2>2
<1> QED
  BY <1>5, <1>6, <1>7, <1>8, <1>9, Zenon DEF LiveInv

\* The counters are not among what the pages come to.
LEMMA CountKeeps ==
  ASSUME LiveInv, Count
  PROVE  LiveInv'
<1>1. /\ TypeOK /\ Asked /\ TableWaits /\ EventsTell
      /\ \A c \in Clients : QueueLands(c) /\ HistoryLands(c)
      /\ ServerTypes /\ MailTypes /\ LoopTypes /\ DoorTypes /\ SessionTypes
      /\ SendTypes /\ PageTypes /\ MissedTypes
  BY Parts
<1>2. /\ Changed /\ count' = changes'
      /\ UNCHANGED <<table, gone, records, untold>> /\ UNCHANGED mailbox
      /\ UNCHANGED loop /\ UNCHANGED doors /\ UNCHANGED session
      /\ UNCHANGED send /\ UNCHANGED page /\ UNCHANGED missed
  BY Zenon DEF Count
<1>3. ServerTypes'
  BY <1>1, <1>2, Numbers DEF ServerTypes
<1>4. TypeOK'
  BY <1>1, <1>2, <1>3, Untouched, TypesNext, Zenon
<1>5. UNCHANGED <<pending, pendingQ, events, gap, conn, topics, sub, astray>>
  BY <1>2, Zenon DEF mailbox, session, loop
<1>6. Asked' /\ TableWaits' /\ EventsTell'
  BY <1>1, <1>2, <1>5 DEF Asked, TableWaits, EventsTell, Told, SameStatus
<1>7. ASSUME NEW c \in Clients
      PROVE  QueueLands(c)' /\ HistoryLands(c)'
  BY <1>1, <1>2, <1>5, Apart
<1> QED
  BY <1>4, <1>6, <1>7, Zenon DEF LiveInv

\* The frame of a row.
LEMMA RowFrames ==
  ASSUME NEW r \in Rows, NEW v \in Nat
  PROVE  /\ RowFrame(r, v) \in HistoryFrame
         /\ \A q \in Rows : HistoryMark(RowFrame(r, v), q) = IF q = r THEN {v} ELSE {}
<1>1. PICK f : f = RowFrame(r, v)
  OBVIOUS
<1>2. f = [type |-> "history", op |-> IF v = 0 THEN "delete" ELSE "upsert", row |-> r, version |-> v]
  BY <1>1 DEF RowFrame
<1>3. f \in HistoryFrame
  BY <1>2 DEF HistoryFrame
<1>4. CASE v = 0
  <2>1. f.type = "history" /\ f.op = "delete" /\ f.row = r
    BY <1>2, <1>4
  <2> QED
    BY <1>1, <1>3, <1>4, <2>1 DEF HistoryMark
<1>5. CASE v # 0
  <2>1. f.type = "history" /\ f.op = "upsert" /\ f.row = r /\ f.version = v
    BY <1>2, <1>5
  <2> QED
    BY <1>1, <1>3, <2>1 DEF HistoryMark
<1> QED
  BY <1>4, <1>5

\* The frame of a change of the history says what changed, but for the rows that
\* are untold.
LEMMA Announced ==
  ASSUME ServerTypes, NotifyHistory
  PROVE  /\ Changed /\ records' \in [Rows -> 0..MaxChanges] /\ untold' \subseteq Rows
         /\ \E f \in HistoryFrame :
              /\ Notify(f)
              /\ \A r \in Rows :
                   \/ HistoryMark(f, r) = {} /\ (r \in untold' \/ (r \notin untold /\ records'[r] = records[r]))
                   \/ HistoryMark(f, r) = {records'[r]}
<1>1. Changed /\ records \in [Rows -> 0..MaxChanges] /\ untold \subseteq Rows
  BY DEF NotifyHistory, ServerTypes
<1>2. changes' \in 0..MaxChanges /\ changes' \in Nat /\ 0 \in 0..MaxChanges /\ 0 \in Nat
  BY <1>1, Numbers, Facts
<1>3. ASSUME NEW r \in Rows, NEW v \in {0, changes'}, NEW capped \in SUBSET {q \in Rows : records[q] # 0},
             records' = RecordsWith(r, v, capped), untold' = (untold \cup capped) \ {r},
             Notify(RowFrame(r, v))
      PROVE  /\ records' \in [Rows -> 0..MaxChanges] /\ untold' \subseteq Rows
             /\ \E f \in HistoryFrame :
                  /\ Notify(f)
                  /\ \A q \in Rows :
                       \/ HistoryMark(f, q) = {} /\ (q \in untold' \/ (q \notin untold /\ records'[q] = records[q]))
                       \/ HistoryMark(f, q) = {records'[q]}
  <2>1. v \in 0..MaxChanges /\ v \in Nat
    BY <1>2
  <2>2. PICK f : f = RowFrame(r, v)
    OBVIOUS
  <2>3. f \in HistoryFrame /\ Notify(f) /\ \A q \in Rows : HistoryMark(f, q) = IF q = r THEN {v} ELSE {}
    BY <1>3, <2>1, <2>2, RowFrames
  <2>4. records' = [q \in Rows |-> IF q = r THEN v ELSE IF q \in capped THEN 0 ELSE records[q]]
    BY <1>3 DEF RecordsWith
  <2>5. records' \in [Rows -> 0..MaxChanges] /\ untold' \subseteq Rows
    BY <1>1, <1>2, <1>3, <2>1, <2>4
  <2>6. ASSUME NEW q \in Rows
        PROVE  \/ HistoryMark(f, q) = {} /\ (q \in untold' \/ (q \notin untold /\ records'[q] = records[q]))
               \/ HistoryMark(f, q) = {records'[q]}
    <3>1. CASE q = r
      BY <2>3, <2>4, <3>1
    <3>2. CASE q # r /\ q \in untold \cup capped
      BY <1>3, <2>3, <3>2
    <3>3. CASE q # r /\ q \notin untold \cup capped
      BY <2>3, <2>4, <3>3
    <3> QED
      BY <3>1, <3>2, <3>3
  <2> QED
    BY <2>3, <2>5, <2>6
<1>4. ASSUME records' = NoRows, untold' = {}, Notify([type |-> "history", op |-> "clear"])
      PROVE  /\ records' \in [Rows -> 0..MaxChanges] /\ untold' \subseteq Rows
             /\ \E f \in HistoryFrame :
                  /\ Notify(f)
                  /\ \A q \in Rows :
                       \/ HistoryMark(f, q) = {} /\ (q \in untold' \/ (q \notin untold /\ records'[q] = records[q]))
                       \/ HistoryMark(f, q) = {records'[q]}
  <2>1. PICK f : f = [type |-> "history", op |-> "clear"]
    OBVIOUS
  <2>2. f \in HistoryFrame /\ Notify(f)
    BY <1>4, <2>1 DEF HistoryFrame
  <2>3. \A q \in Rows : HistoryMark(f, q) = {0}
    BY <2>1 DEF HistoryMark
  <2> QED
    BY <1>2, <1>4, <2>2, <2>3 DEF NoRows
<1> QED
  BY <1>1, <1>3, <1>4, Zenon DEF NotifyHistory

\* A change of the history: its frame is the last that waits for the hub, or
\* everybody misses it.
LEMMA NotifyHistoryKeeps ==
  ASSUME LiveInv, NotifyHistory
  PROVE  LiveInv'
<1>1. /\ TypeOK /\ Asked /\ TableWaits /\ EventsTell
      /\ \A c \in Clients : QueueLands(c) /\ HistoryLands(c)
      /\ ServerTypes /\ MailTypes /\ LoopTypes /\ DoorTypes /\ SessionTypes
      /\ SendTypes /\ PageTypes /\ MissedTypes
  BY Parts
<1>2. /\ UNCHANGED <<table, gone, count, pending, pendingQ>>
      /\ UNCHANGED loop /\ UNCHANGED doors /\ UNCHANGED session
      /\ UNCHANGED send /\ UNCHANGED page
  BY Zenon DEF NotifyHistory
<1>3. Changed /\ records' \in [Rows -> 0..MaxChanges] /\ untold' \subseteq Rows
  BY <1>1, Announced
<1>4. PICK f \in HistoryFrame :
        /\ Notify(f)
        /\ \A r \in Rows :
             \/ HistoryMark(f, r) = {} /\ (r \in untold' \/ (r \notin untold /\ records'[r] = records[r]))
             \/ HistoryMark(f, r) = {records'[r]}
  BY <1>1, Announced
<1>5. /\ events \in Seq(HistoryFrame) /\ Len(events) <= HubEventBuf /\ HubEventBuf \in Nat
      /\ missed \in [Clients -> SUBSET {"queue", "history"}]
  BY <1>1, Facts DEF MailTypes, MissedTypes
<1>6. \/ /\ Len(events) < HubEventBuf /\ events' = Append(events, f)
         /\ (gap' <=> gap) /\ gap' \in BOOLEAN /\ missed' = missed
      \/ /\ events' = events /\ gap' /\ gap' \in BOOLEAN
         /\ missed' = [c \in Clients |-> missed[c] \cup {"history"}]
  <2>1. CASE Len(events) < HubEventBuf
    <3>1. events' = Append(events, f) /\ UNCHANGED <<gap, missed>>
      BY <1>4, <2>1, Zenon DEF Notify
    <3>2. (gap' <=> gap) /\ gap' \in BOOLEAN
      BY <1>1, <3>1, Zenon DEF MailTypes
    <3> QED
      BY <2>1, <3>1, <3>2
  <2>2. CASE ~(Len(events) < HubEventBuf)
    <3>1. gap' = TRUE /\ events' = events /\ missed' = [c \in Clients |-> missed[c] \cup {"history"}]
      BY <1>4, <2>2, Zenon DEF Notify, Miss
    <3>2. gap' /\ gap' \in BOOLEAN
      BY <3>1, Zenon
    <3> QED
      BY <3>1, <3>2
  <2> QED
    BY <2>1, <2>2
<1>7. /\ events' \in Seq(HistoryFrame) /\ Len(events') <= HubEventBuf
      /\ missed' \in [Clients -> SUBSET {"queue", "history"}]
      /\ \A c \in Clients : missed[c] \subseteq missed'[c] /\ ("queue" \in missed'[c] => "queue" \in missed[c])
  BY <1>4, <1>5, <1>6
<1>8. TypeOK'
  <2>1. ServerTypes'
    BY <1>1, <1>2, <1>3, Numbers DEF ServerTypes
  <2>2. MailTypes'
    BY <1>1, <1>2, <1>6, <1>7, Zenon DEF MailTypes
  <2>3. MissedTypes'
    BY <1>7 DEF MissedTypes
  <2> QED
    BY <1>1, <1>2, <2>1, <2>2, <2>3, Untouched, TypesNext, Zenon
<1>9. Asked'
  BY <1>1, <1>2, <1>7 DEF Asked, session
<1>10. UNCHANGED astray
  BY <1>2, Zenon DEF loop
<1>11. TableWaits'
  BY <1>1, <1>2, <1>10 DEF TableWaits, SameStatus
<1>12. ASSUME events' = Append(events, f), NEW r \in Rows, NEW d, NEW e,
              Told(d, r), HistoryMark(f, r) = {} => e = d \/ r \in untold'
       PROVE  Told(e, r)'
  <2>1. CASE HistoryMark(f, r) = {} /\ r \notin untold'
    <3>1. (r \notin untold /\ records'[r] = records[r]) \/ HistoryMark(f, r) = {records'[r]}
      BY <1>4, <2>1
    <3>2. r \notin untold /\ records'[r] = records[r]
      BY <2>1, <3>1
    <3>3. Lands(d, HistoryMarks(events, r), records[r])
      BY <1>12, <3>2 DEF Told
    <3>4. Lands(d, HistoryMarks(events', r), records[r])
      BY <1>4, <1>5, <1>12, <2>1, <3>3, MoreFrames
    <3> QED
      BY <1>12, <2>1, <3>2, <3>4 DEF Told
  <2>2. CASE HistoryMark(f, r) = {records'[r]}
    <3>1. Lands(e, HistoryMarks(events', r), records'[r])
      BY <1>4, <1>5, <1>12, <2>2, MoreFrames
    <3> QED
      BY <3>1 DEF Told
  <2>3. CASE r \in untold'
    BY <2>3 DEF Told
  <2> QED
    BY <1>4, <2>1, <2>2, <2>3
<1>13. EventsTell'
  <2>1. CASE gap'
    <3>1. \A c \in Clients : "history" \in missed'[c]
      BY <1>1, <1>6, <1>7, <2>1 DEF EventsTell
    <3> QED
      BY <2>1, <3>1 DEF EventsTell
  <2>2. CASE ~gap'
    <3>1. events' = Append(events, f) /\ ~gap
      BY <1>6, <2>2
    <3>2. ASSUME NEW r \in Rows
          PROVE  Told(records[r], r)'
      <4>1. Told(records[r], r)
        BY <1>1, <3>1 DEF EventsTell
      <4>2. HistoryMark(f, r) = {} => records'[r] = records[r] \/ r \in untold'
        BY <1>4
      <4> QED
        BY <1>12, <3>1, <4>1, <4>2
    <3> QED
      BY <2>2, <3>2 DEF EventsTell
  <2> QED
    BY <2>1, <2>2
<1>14. ASSUME NEW c \in Clients
       PROVE  QueueLands(c)' /\ HistoryLands(c)'
  <2>1. UNCHANGED <<conn, topics, sub>>
    BY <1>2, Zenon DEF session
  <2>2. /\ Serving(c, "history")' <=> Serving(c, "history")
        /\ Serving(c, "queue")' <=> Serving(c, "queue")
        /\ Serving(c, "items")' <=> Serving(c, "items")
    BY <2>1 DEF Serving
  <2>3. QueueLands(c)'
    <3>1. Follows(c, "queue")' => Follows(c, "queue")
      BY <1>7, <2>1 DEF Follows
    <3>2. astray \subseteq astray'
      BY <1>10
    <3>3. SameStatus(table, table')
      BY <1>2 DEF SameStatus
    <3> QED
      BY <1>1, <1>2, <2>1, <2>2, <3>1, <3>2, <3>3, QueueKept
  <2>4. HistoryLands(c)'
    <3> SUFFICES ASSUME conn'[c] = "on", Follows(c, "history")', NEW r \in Rows
                 PROVE  IF Serving(c, "history")'
                        THEN Told(sub[c].rows[r], r)'
                        ELSE \E w \in Nat :
                               Lands(page'[c].history[r], HistoryMarks(send'[c], r), w) /\ Told(w, r)'
      BY Zenon DEF HistoryLands, Told
    <3>1. events' = Append(events, f) /\ Follows(c, "history")
      BY <1>6, <1>7, <2>1 DEF Follows
    <3>2. \A d : Told(d, r) => Told(d, r)'
      BY <1>12, <3>1
    <3>3. IF Serving(c, "history")
          THEN Told(sub[c].rows[r], r)
          ELSE \E w \in Nat : Lands(page[c].history[r], HistoryMarks(send[c], r), w) /\ Told(w, r)
      BY <1>1, <2>1, <3>1 DEF HistoryLands
    <3>4. CASE Serving(c, "history")
      BY <2>1, <2>2, <3>2, <3>3, <3>4
    <3>5. CASE ~Serving(c, "history")
      BY <1>2, <2>2, <3>2, <3>3, <3>5
    <3> QED
      BY <3>4, <3>5
  <2> QED
    BY <2>3, <2>4
<1> QED
  BY <1>8, <1>9, <1>11, <1>13, <1>14, Zenon DEF LiveInv

\* loadHistory: what it changes is untold.
LEMMA LoadHistoryKeeps ==
  ASSUME LiveInv, LoadHistory
  PROVE  LiveInv'
<1>1. /\ TypeOK /\ Asked /\ TableWaits /\ EventsTell
      /\ \A c \in Clients : QueueLands(c) /\ HistoryLands(c)
      /\ ServerTypes /\ MailTypes /\ LoopTypes /\ DoorTypes /\ SessionTypes
      /\ SendTypes /\ PageTypes /\ MissedTypes
  BY Parts
<1>2. /\ Changed /\ UNCHANGED <<table, gone, count>> /\ UNCHANGED mailbox
      /\ UNCHANGED loop /\ UNCHANGED doors /\ UNCHANGED session
      /\ UNCHANGED send /\ UNCHANGED page /\ UNCHANGED missed
  BY Zenon DEF LoadHistory
<1>3. PICK back \in SUBSET Rows, capped \in SUBSET {q \in Rows : records[q] # 0} :
        /\ records' = [q \in Rows |->
             IF q \in back THEN changes' ELSE IF q \in capped THEN 0 ELSE records[q]]
        /\ untold' = untold \cup capped \cup back
  BY Zenon DEF LoadHistory
<1>4. /\ records' \in [Rows -> 0..MaxChanges] /\ untold' \subseteq Rows
      /\ \A r \in Rows : r \notin untold' => r \notin untold /\ records'[r] = records[r]
  <2>1. changes' \in 0..MaxChanges /\ 0 \in 0..MaxChanges
    BY <1>1, <1>2, Numbers, Facts
  <2>2. records \in [Rows -> 0..MaxChanges] /\ untold \subseteq Rows
    BY <1>1 DEF ServerTypes
  <2> QED
    BY <1>3, <2>1, <2>2
<1>5. UNCHANGED <<pending, pendingQ, events, gap, conn, topics, sub, astray>>
  BY <1>2, Zenon DEF mailbox, session, loop
<1>6. TypeOK'
  <2>1. ServerTypes'
    BY <1>1, <1>2, <1>4, Numbers DEF ServerTypes
  <2> QED
    BY <1>1, <1>2, <2>1, Untouched, TypesNext, Zenon
<1>7. Asked' /\ TableWaits'
  BY <1>1, <1>2, <1>5 DEF Asked, TableWaits, SameStatus
<1>8. \A r \in Rows : \A v : Told(v, r) => Told(v, r)'
  BY <1>4, <1>5 DEF Told
<1>9. EventsTell'
  <2>1. CASE gap
    BY <1>1, <1>2, <1>5, <2>1 DEF EventsTell
  <2>2. CASE ~gap
    <3>1. ASSUME NEW r \in Rows
          PROVE  Told(records[r], r)'
      <4>1. CASE r \in untold'
        BY <4>1 DEF Told
      <4>2. CASE r \notin untold'
        BY <1>1, <1>4, <1>8, <2>2, <4>2 DEF EventsTell
      <4> QED
        BY <4>1, <4>2
    <3> QED
      BY <1>5, <2>2, <3>1 DEF EventsTell
  <2> QED
    BY <2>1, <2>2
<1>10. ASSUME NEW c \in Clients
       PROVE  QueueLands(c)' /\ HistoryLands(c)'
  <2>1. /\ Follows(c, "history")' <=> Follows(c, "history")
        /\ Follows(c, "queue")' <=> Follows(c, "queue")
        /\ Serving(c, "history")' <=> Serving(c, "history")
        /\ Serving(c, "queue")' <=> Serving(c, "queue")
        /\ Serving(c, "items")' <=> Serving(c, "items")
    BY <1>2, <1>5 DEF Follows, Serving
  <2>2. QueueLands(c)'
    <3>1. SameStatus(table, table') /\ astray \subseteq astray'
      BY <1>2, <1>5 DEF SameStatus
    <3> QED
      BY <1>1, <1>2, <1>5, <2>1, <3>1, QueueKept
  <2>3. HistoryLands(c)'
    <3> SUFFICES ASSUME conn'[c] = "on", Follows(c, "history")', NEW r \in Rows
                 PROVE  IF Serving(c, "history")'
                        THEN Told(sub[c].rows[r], r)'
                        ELSE \E w \in Nat :
                               Lands(page'[c].history[r], HistoryMarks(send'[c], r), w) /\ Told(w, r)'
      BY Zenon DEF HistoryLands, Told
    <3>1. IF Serving(c, "history")
          THEN Told(sub[c].rows[r], r)
          ELSE \E w \in Nat : Lands(page[c].history[r], HistoryMarks(send[c], r), w) /\ Told(w, r)
      BY <1>1, <1>5, <2>1 DEF HistoryLands
    <3>2. CASE Serving(c, "history")
      BY <1>5, <1>8, <2>1, <3>1, <3>2
    <3>3. CASE ~Serving(c, "history")
      BY <1>2, <1>8, <2>1, <3>1, <3>3
    <3> QED
      BY <3>2, <3>3
  <2> QED
    BY <2>2, <2>3
<1> QED
  BY <1>6, <1>7, <1>9, <1>10, Zenon DEF LiveInv

-----------------------------------------------------------------------------
(* The hub.                                                                *)

\* What the marks come to, they come to again.
LEMMA LandsAgain ==
  ASSUME NEW d, NEW a, NEW v, Lands(d, a, v)
  PROVE  Lands(v, a, v)
BY Zenon DEF Lands

\* A client that the hub gets to know, or forgets, is told what it was told.
LEMMA DoorsKeep ==
  ASSUME LiveInv, HubRegister \/ HubUnregister
  PROVE  LiveInv'
<1>1. /\ TypeOK /\ Asked /\ TableWaits /\ EventsTell
      /\ \A c \in Clients : QueueLands(c) /\ HistoryLands(c)
      /\ ServerTypes /\ MailTypes /\ LoopTypes /\ DoorTypes /\ SessionTypes
      /\ SendTypes /\ PageTypes /\ MissedTypes
  BY Parts
<1>2. /\ UNCHANGED server /\ UNCHANGED mailbox /\ UNCHANGED <<lastStats, hub, astray>>
      /\ UNCHANGED session /\ UNCHANGED send /\ UNCHANGED page /\ UNCHANGED missed
  BY Zenon DEF HubRegister, HubUnregister
<1>3. clients' \subseteq Clients /\ DoorTypes'
  <2>1. clients \subseteq Clients /\ register \in Seq(Clients) /\ unregister \in Seq(Clients)
        /\ Len(register) <= HubClientBuf /\ Len(unregister) <= HubClientBuf /\ HubClientBuf \in Nat
    BY <1>1, Facts DEF LoopTypes, DoorTypes
  <2>2. CASE HubRegister
    <3>1. register # <<>> /\ clients' = clients \cup {Head(register)} /\ register' = Tail(register) /\ unregister' = unregister
      BY <2>2 DEF HubRegister
    <3>2. Head(register) \in Clients /\ Tail(register) \in Seq(Clients) /\ Len(Tail(register)) <= HubClientBuf
      BY <2>1, <3>1
    <3> QED
      BY <2>1, <3>1, <3>2 DEF DoorTypes
  <2>3. CASE HubUnregister
    <3>1. unregister # <<>> /\ clients' = clients \ {Head(unregister)} /\ unregister' = Tail(unregister) /\ register' = register
      BY <2>3 DEF HubUnregister
    <3>2. Tail(unregister) \in Seq(Clients) /\ Len(Tail(unregister)) <= HubClientBuf
      BY <2>1, <3>1
    <3> QED
      BY <2>1, <3>1, <3>2 DEF DoorTypes
  <2> QED
    BY <2>2, <2>3
<1>4. LoopTypes'
  BY <1>1, <1>2, <1>3, Zenon DEF LoopTypes
<1>5. TypeOK'
  BY <1>1, <1>2, <1>3, <1>4, Untouched, TypesNext, Zenon
<1>6. UNCHANGED <<table, records, untold, pendingQ, events, gap, conn, topics, sub, astray, send, page, missed>>
  BY <1>2, Zenon DEF server, mailbox, session
<1>7. Asked' /\ TableWaits' /\ EventsTell'
  BY <1>1, <1>6 DEF Asked, TableWaits, EventsTell, Told, SameStatus
<1>8. ASSUME NEW c \in Clients
      PROVE  QueueLands(c)' /\ HistoryLands(c)'
  BY <1>1, <1>6, Apart
<1> QED
  BY <1>5, <1>7, <1>8, Zenon DEF LiveInv

\* Who is sent a frame, and who misses it.
LEMMA Sent ==
  ASSUME SendTypes, MissedTypes, NEW f \in Frame, f.type # "log", Broadcast(f)
  PROVE  /\ SendTypes' /\ MissedTypes'
         /\ \A c \in Clients :
              /\ send[c] \in Waiting
              /\ send'[c] = IF c \in clients /\ Wants(c, Topic(f)) THEN Enqueue(send[c], f) ELSE send[c]
              /\ missed'[c] =
                   IF ~Wants(c, Topic(f)) \/ f.type = "progress" THEN missed[c]
                   ELSE IF LeftBehind(c, f) THEN missed[c] \cup {Topic(f)}
                   ELSE IF f.type = "queue" /\ f.items # None THEN missed[c] \ {Topic(f)}
                   ELSE missed[c]
<1>1. send' = [c \in Clients |->
        IF c \in clients /\ Wants(c, Topic(f)) THEN Enqueue(send[c], f) ELSE send[c]]
  BY Zenon DEF Broadcast
<1>2. missed' = [c \in Clients |->
        IF ~Wants(c, Topic(f)) \/ f.type = "progress" THEN missed[c]
        ELSE IF LeftBehind(c, f) THEN missed[c] \cup {Topic(f)}
        ELSE IF f.type = "queue" /\ f.items # None THEN missed[c] \ {Topic(f)}
        ELSE missed[c]]
  BY Zenon DEF Broadcast
<1>3. Topic(f) \in {"queue", "history"}
  BY DEF Topic
<1>4. \A c \in Clients : send[c] \in Waiting /\ missed[c] \in SUBSET {"queue", "history"}
  BY DEF SendTypes, MissedTypes
<1>5. SendTypes'
  BY <1>1, <1>4, Enqueued DEF SendTypes
<1>6. MissedTypes'
  BY <1>2, <1>3, <1>4 DEF MissedTypes
<1> QED
  BY <1>1, <1>2, <1>4, <1>5, <1>6

\* A frame of the history goes from the hub to the clients: who follows is sent
\* it behind all it was sent, and its page comes to the same.
LEMMA HubEventKeeps ==
  ASSUME LiveInv, HubEvent
  PROVE  LiveInv'
<1>1. /\ TypeOK /\ Asked /\ TableWaits /\ EventsTell
      /\ \A c \in Clients : QueueLands(c) /\ HistoryLands(c)
      /\ ServerTypes /\ MailTypes /\ LoopTypes /\ DoorTypes /\ SessionTypes
      /\ SendTypes /\ PageTypes /\ MissedTypes
  BY Parts
<1>2. /\ events # <<>> /\ Broadcast(Head(events)) /\ events' = Tail(events)
      /\ gap' = (gap /\ Len(events) > 1)
      /\ UNCHANGED <<pending, pendingQ>> /\ UNCHANGED server
      /\ UNCHANGED loop /\ UNCHANGED doors /\ UNCHANGED session /\ UNCHANGED page
  BY Zenon DEF HubEvent
<1>3. gap' \in BOOLEAN /\ (gap' <=> gap /\ Len(events) > 1)
  BY <1>2, Zenon
<1>4. PICK f : f = Head(events)
  OBVIOUS
<1>5. events \in Seq(HistoryFrame) /\ Len(events) <= HubEventBuf /\ HubEventBuf \in Nat
  BY <1>1, Facts DEF MailTypes
<1>6. f \in HistoryFrame /\ f \in Frame /\ f.type = "history" /\ Topic(f) = "history"
      /\ events' \in Seq(HistoryFrame) /\ Len(events') <= HubEventBuf
  <2>1. f \in HistoryFrame /\ events' \in Seq(HistoryFrame) /\ Len(events') <= HubEventBuf
    BY <1>2, <1>4, <1>5
  <2>2. f.type = "history" /\ f \in Frame
    BY <2>1 DEF Frame, HistoryFrame
  <2> QED
    BY <2>1, <2>2 DEF Topic
<1>7. /\ SendTypes' /\ MissedTypes'
      /\ \A c \in Clients :
           /\ send[c] \in Waiting
           /\ send'[c] = IF c \in clients /\ Wants(c, "history") THEN Enqueue(send[c], f) ELSE send[c]
           /\ missed'[c] = IF Wants(c, "history") /\ LeftBehind(c, f) THEN missed[c] \cup {"history"} ELSE missed[c]
  <2>1. Broadcast(f)
    BY <1>2, <1>4
  <2>2. /\ SendTypes' /\ MissedTypes'
        /\ \A c \in Clients :
              /\ send[c] \in Waiting
              /\ send'[c] = IF c \in clients /\ Wants(c, Topic(f)) THEN Enqueue(send[c], f) ELSE send[c]
              /\ missed'[c] =
                   IF ~Wants(c, Topic(f)) \/ f.type = "progress" THEN missed[c]
                   ELSE IF LeftBehind(c, f) THEN missed[c] \cup {Topic(f)}
                   ELSE IF f.type = "queue" /\ f.items # None THEN missed[c] \ {Topic(f)}
                   ELSE missed[c]
    BY <1>1, <1>6, <2>1, Sent
  <2> QED
    BY <1>6, <2>2
<1>8. TypeOK'
  <2>1. MailTypes'
    BY <1>1, <1>2, <1>3, <1>6, Zenon DEF MailTypes
  <2> QED
    BY <1>1, <1>2, <1>7, <2>1, Untouched, TypesNext, Zenon
<1>9. UNCHANGED <<table, records, untold, conn, topics, sub, astray, clients>>
  BY <1>2, Zenon DEF server, session, loop
<1>10. \A c \in Clients : missed[c] \subseteq missed'[c] /\ ("queue" \in missed'[c] => "queue" \in missed[c])
  <2> TAKE c \in Clients
  <2>1. missed'[c] = missed[c] \cup {"history"} \/ missed'[c] = missed[c]
    BY <1>7, Zenon
  <2> QED
    BY <2>1
<1>11. Asked'
  BY <1>1, <1>9, <1>10 DEF Asked
<1>12. TableWaits'
  BY <1>1, <1>2, <1>9 DEF TableWaits, SameStatus
<1>13. \A r \in Rows : \A d : Told(d, r) =>
         \E e : /\ e = d \/ e \in Nat
                /\ (HistoryMark(f, r) = {} /\ e = d) \/ HistoryMark(f, r) = {e}
                /\ Told(e, r)'
  <2> TAKE r \in Rows
  <2> TAKE d
  <2> HAVE Told(d, r)
  <2>1. PICK e : (e = d \/ e \in Nat) /\ ((HistoryMark(f, r) = {} /\ e = d) \/ HistoryMark(f, r) = {e})
    BY <1>6, OneMark
  <2>2. Lands(d, HistoryMarks(events, r), records[r]) => Lands(e, HistoryMarks(events', r), records[r])
    BY <1>2, <1>4, <1>5, <2>1, LessFrames
  <2>3. Told(e, r)'
    BY <1>9, <2>2 DEF Told
  <2> QED
    BY <2>1, <2>3
<1>14. EventsTell'
  <2>1. CASE gap'
    <3>1. \A c \in Clients : "history" \in missed'[c]
      BY <1>1, <1>3, <1>10, <2>1 DEF EventsTell
    <3> QED
      BY <2>1, <3>1 DEF EventsTell
  <2>2. CASE ~gap'
    <3>1. CASE gap
      <4>1. events' = <<>>
        BY <1>2, <1>3, <1>5, <2>2, <3>1
      <4>2. \A r \in Rows : Told(records[r], r)'
        BY <4>1, NoFrames DEF Told
      <4> QED
        BY <2>2, <4>2 DEF EventsTell
    <3>2. CASE ~gap
      <4> SUFFICES ASSUME NEW r \in Rows
                   PROVE  Told(records[r], r)'
        BY <2>2 DEF EventsTell
      <4>1. Told(records[r], r)
        BY <1>1, <3>2 DEF EventsTell
      <4>2. PICK e : Told(e, r)'
        BY <1>13, <4>1
      <4>3. r \in untold' \/ Lands(records'[r], HistoryMarks(events', r), records'[r])
        BY <4>2, LandsAgain DEF Told
      <4> QED
        BY <4>3 DEF Told
    <3> QED
      BY <3>1, <3>2
  <2> QED
    BY <2>1, <2>2
<1>15. ASSUME NEW c \in Clients
       PROVE  QueueLands(c)' /\ HistoryLands(c)'
  <2>1. /\ Serving(c, "history")' <=> Serving(c, "history")
        /\ Serving(c, "queue")' <=> Serving(c, "queue")
        /\ Serving(c, "items")' <=> Serving(c, "items")
    BY <1>9 DEF Serving
  <2>2. QueueLands(c)'
    <3>1. Follows(c, "queue")' => Follows(c, "queue")
      BY <1>9, <1>10 DEF Follows
    <3>2. SameStatus(table, table')
      BY <1>9 DEF SameStatus
    <3>3. ASSUME NEW i \in Items,
                 Lands(Status(page[c].queue[i]), QueueMarks(send[c], i), Status(table[i]))
          PROVE  Lands(Status(page[c].queue[i]), QueueMarks(send'[c], i), Status(table[i]))
      <4>1. QueueMark(f, i) = {}
        BY <1>6 DEF QueueMark
      <4> QED
        BY <1>6, <1>7, <3>3, <4>1, SentQueue
    <3> QED
      BY <1>1, <1>2, <1>9, <2>1, <3>1, <3>2, <3>3, QueueKept
  <2>3. HistoryLands(c)'
    <3> SUFFICES ASSUME conn'[c] = "on", Follows(c, "history")', NEW r \in Rows
                 PROVE  IF Serving(c, "history")'
                        THEN Told(sub[c].rows[r], r)'
                        ELSE \E w \in Nat :
                               Lands(page'[c].history[r], HistoryMarks(send'[c], r), w) /\ Told(w, r)'
      BY Zenon DEF HistoryLands, Told
    <3>1. Follows(c, "history") /\ Wants(c, "history") /\ ~LeftBehind(c, f)
      BY <1>7, <1>9 DEF Follows, Wants
    <3>2. c \in clients /\ Len(send[c]) < ClientSendBuf /\ ~Serving(c, "history")
      <4>1. Len(send[c]) \in Nat /\ ClientSendBuf \in Nat
        BY <1>7, Facts DEF Waiting
      <4> QED
        BY <1>6, <3>1, <4>1 DEF LeftBehind, Overtaken, Serving
    <3>3. send'[c] = Append(send[c], f) /\ send[c] \in Seq(Frame)
      BY <1>7, <3>1, <3>2 DEF Enqueue, Waiting
    <3>4. PICK w \in Nat : Lands(page[c].history[r], HistoryMarks(send[c], r), w) /\ Told(w, r)
      BY <1>1, <1>9, <3>1, <3>2 DEF HistoryLands
    <3>5. PICK e : /\ e \in Nat
                   /\ (HistoryMark(f, r) = {} /\ e = w) \/ HistoryMark(f, r) = {e}
                   /\ Told(e, r)'
      BY <1>13, <3>4
    <3>6. Lands(page[c].history[r], HistoryMarks(send'[c], r), e)
      <4>1. /\ HistoryMark(f, r) = {} =>
                  (Lands(page[c].history[r], HistoryMarks(Append(send[c], f), r), e) <=>
                     Lands(page[c].history[r], HistoryMarks(send[c], r), e))
            /\ HistoryMark(f, r) = {e} => Lands(page[c].history[r], HistoryMarks(Append(send[c], f), r), e)
        BY <1>6, <3>3, MoreFrames
      <4> QED
        BY <3>3, <3>4, <3>5, <4>1
    <3> QED
      BY <1>2, <1>9, <2>1, <3>2, <3>5, <3>6
  <2> QED
    BY <2>2, <2>3
<1> QED
  BY <1>8, <1>11, <1>12, <1>14, <1>15, Zenon DEF LiveInv

\* The frames of a tick's progress: one for each row that waits.
ProgressOf(i) == [type |-> "progress", item |-> i, row |-> pending[i]]
Progress == {ProgressOf(i) : i \in {j \in Items : pending[j] # None}}

\* The progress of a tick is a list of such frames.
LEMMA Ordered ==
  ASSUME MailTypes, NEW order \in SetToSeqs({i \in Items : pending[i] # None})
  PROVE  /\ [k \in DOMAIN order |-> [type |-> "progress", item |-> order[k], row |-> pending[order[k]]]]
              \in Seq(Progress)
         /\ Progress \subseteq Frame
         /\ \A e \in Progress : e.type = "progress" /\ e.item \in Items /\ e.row = pending[e.item]
                                /\ e.row \in Row /\ e.row # None
<1>1. PICK S : S = {i \in Items : pending[i] # None}
  OBVIOUS
<1>2. PICK n : n = Cardinality(S)
  OBVIOUS
<1>3. n \in Nat
  <2>1. S \subseteq Items
    BY <1>1
  <2> QED
    BY <1>2, <2>1, Facts, FS_Subset, FS_CardinalityType
<1>4. order \in [1..n -> S]
  BY <1>1, <1>2 DEF SetToSeqs
<1>5. PICK frames : frames = [k \in DOMAIN order |-> [type |-> "progress", item |-> order[k], row |-> pending[order[k]]]]
  OBVIOUS
<1>6. frames \in [1..n -> Progress]
  <2>1. DOMAIN frames = 1..n /\ \A k \in 1..n : order[k] \in S /\ frames[k] = ProgressOf(order[k])
    BY <1>4, <1>5 DEF ProgressOf
  <2>2. \A k \in 1..n : frames[k] \in Progress
    BY <1>1, <2>1 DEF Progress
  <2>3. frames = [k \in 1..n |-> frames[k]]
    BY <1>4, <1>5, Zenon
  <2> QED
    BY <2>2, <2>3
<1>7. frames \in Seq(Progress)
  BY <1>3, <1>6
<1>8. \A e \in Progress : e.type = "progress" /\ e.item \in Items /\ e.row = pending[e.item]
                          /\ e.row \in Row /\ e.row # None /\ e \in Frame
  <2> SUFFICES ASSUME NEW i \in Items, pending[i] # None
               PROVE  LET e == ProgressOf(i)
                      IN  e.type = "progress" /\ e.item \in Items /\ e.row = pending[e.item]
                          /\ e.row \in Row /\ e.row # None /\ e \in Frame
    BY DEF Progress
  <2>1. pending[i] \in Row
    BY DEF MailTypes, Table
  <2> QED
    BY <2>1 DEF ProgressOf, Frame, ProgressFrame
<1> QED
  BY <1>5, <1>7, <1>8

\* A client that is sent the progress of a tick is told nothing wrong by it.
LEMMA FlushedProgress ==
  ASSUME MailTypes, NEW c \in Clients, send[c] \in Waiting, NEW frames \in Seq(Progress),
         NEW A, \A i \in Items \ A : pending[i] # None => Status(pending[i]) = Status(table[i]),
         Progress \subseteq Frame,
         \A e \in Progress : e.type = "progress" /\ e.item \in Items /\ e.row = pending[e.item]
                             /\ e.row \in Row /\ e.row # None
  PROVE  LET q == EnqueueAll(send[c], frames) IN
         /\ q \in Waiting
         /\ \A r \in Rows, w \in Nat :
              Lands(page[c].history[r], HistoryMarks(send[c], r), w) =>
                Lands(page[c].history[r], HistoryMarks(q, r), w)
         /\ \A i \in Items \ A :
              Lands(Status(page[c].queue[i]), QueueMarks(send[c], i), Status(table[i])) =>
                Lands(Status(page[c].queue[i]), QueueMarks(q, i), Status(table[i]))
<1> DEFINE Tells(q) ==
      /\ \A r \in Rows, w \in Nat :
           Lands(page[c].history[r], HistoryMarks(send[c], r), w) =>
             Lands(page[c].history[r], HistoryMarks(q, r), w)
      /\ \A i \in Items \ A :
           Lands(Status(page[c].queue[i]), QueueMarks(send[c], i), Status(table[i])) =>
             Lands(Status(page[c].queue[i]), QueueMarks(q, i), Status(table[i]))
<1>1. PICK S : S = {q \in Waiting : Tells(q)}
  OBVIOUS
<1>2. send[c] \in S
  BY <1>1
<1>3. ASSUME NEW q \in S, NEW e \in Progress
      PROVE  Enqueue(q, e) \in S
  <2>1. q \in Waiting /\ Tells(q) /\ e \in Frame /\ e.type = "progress"
    BY <1>1, <1>3
  <2>2. Enqueue(q, e) \in Waiting
    BY <2>1, Enqueued
  <2>3. ASSUME NEW r \in Rows, NEW w \in Nat, Lands(page[c].history[r], HistoryMarks(send[c], r), w)
        PROVE  Lands(page[c].history[r], HistoryMarks(Enqueue(q, e), r), w)
    <3>1. HistoryMark(e, r) = {}
      BY <2>1 DEF HistoryMark
    <3>2. Lands(page[c].history[r], HistoryMarks(q, r), w)
      BY <2>1, <2>3
    <3> QED
      BY <2>1, <3>1, <3>2, SentHistory
  <2>4. ASSUME NEW i \in Items \ A,
               Lands(Status(page[c].queue[i]), QueueMarks(send[c], i), Status(table[i]))
        PROVE  Lands(Status(page[c].queue[i]), QueueMarks(Enqueue(q, e), i), Status(table[i]))
    <3>1. QueueMark(e, i) = IF e.item = i THEN {e.row.status} ELSE {}
      BY <2>1 DEF QueueMark
    <3>2. e.item = i => e.row.status = Status(table[i])
      <4>1. e.item = i => pending[i] # None /\ Status(pending[i]) = e.row.status
        BY <1>3, Facts DEF Status
      <4> QED
        BY <4>1
    <3>3. Lands(Status(page[c].queue[i]), QueueMarks(q, i), Status(table[i]))
      BY <2>1, <2>4
    <3> QED
      BY <2>1, <3>1, <3>2, <3>3, SentQueue
  <2>5. Tells(Enqueue(q, e))
    BY <2>3, <2>4
  <2> QED
    BY <1>1, <2>2, <2>5
<1>4. EnqueueAll(send[c], frames) \in S
  BY <1>2, <1>3, AllEnqueued
<1> QED
  BY <1>1, <1>4

\* The progress of a tick: every row that is not astray has the status of the
\* table.
LEMMA FlushProgressKeeps ==
  ASSUME LiveInv, FlushProgress
  PROVE  LiveInv'
<1>1. /\ TypeOK /\ Asked /\ TableWaits /\ EventsTell
      /\ \A c \in Clients : QueueLands(c) /\ HistoryLands(c)
      /\ ServerTypes /\ MailTypes /\ LoopTypes /\ DoorTypes /\ SessionTypes
      /\ SendTypes /\ PageTypes /\ MissedTypes
  BY Parts
<1>2. /\ hub' = "queue" /\ pending' = EmptyTable
      /\ UNCHANGED <<pendingQ, events, gap>> /\ UNCHANGED server
      /\ UNCHANGED <<clients, lastStats>>
      /\ astray' = astray \cup {i \in Items : pending[i] # None /\ Status(pending[i]) # Status(table[i])}
      /\ UNCHANGED doors /\ UNCHANGED session /\ UNCHANGED page /\ UNCHANGED missed
  BY Zenon DEF FlushProgress
<1>3. PICK order \in SetToSeqs({i \in Items : pending[i] # None}) :
        send' = [c \in Clients |->
          IF c \in clients /\ Wants(c, "queue")
          THEN EnqueueAll(send[c],
                 [k \in DOMAIN order |-> [type |-> "progress", item |-> order[k], row |-> pending[order[k]]]])
          ELSE send[c]]
  BY Zenon DEF FlushProgress
<1>4. PICK frames : frames = [k \in DOMAIN order |-> [type |-> "progress", item |-> order[k], row |-> pending[order[k]]]]
  OBVIOUS
<1>5. /\ frames \in Seq(Progress) /\ Progress \subseteq Frame
      /\ \A e \in Progress : e.type = "progress" /\ e.item \in Items /\ e.row = pending[e.item]
                             /\ e.row \in Row /\ e.row # None
  BY <1>1, <1>4, Ordered
<1>6. send' = [c \in Clients |->
        IF c \in clients /\ Wants(c, "queue") THEN EnqueueAll(send[c], frames) ELSE send[c]]
  BY <1>3, <1>4, Zenon
<1>7. ASSUME NEW c \in Clients
      PROVE  /\ send[c] \in Waiting /\ send'[c] \in Waiting
             /\ \A r \in Rows, w \in Nat :
                  Lands(page[c].history[r], HistoryMarks(send[c], r), w) =>
                    Lands(page[c].history[r], HistoryMarks(send'[c], r), w)
             /\ \A i \in Items \ astray' :
                  Lands(Status(page[c].queue[i]), QueueMarks(send[c], i), Status(table[i])) =>
                    Lands(Status(page[c].queue[i]), QueueMarks(send'[c], i), Status(table[i]))
  <2>1. send[c] \in Waiting
    BY <1>1 DEF SendTypes
  <2>2. CASE c \in clients /\ Wants(c, "queue")
    <3>1. PICK q : q = EnqueueAll(send[c], frames)
      OBVIOUS
    <3>2. send'[c] = q
      BY <1>6, <2>2, <3>1
    <3>3. /\ q \in Waiting
          /\ \A r \in Rows, w \in Nat :
               Lands(page[c].history[r], HistoryMarks(send[c], r), w) =>
                 Lands(page[c].history[r], HistoryMarks(q, r), w)
          /\ \A i \in Items \ astray' :
               Lands(Status(page[c].queue[i]), QueueMarks(send[c], i), Status(table[i])) =>
                 Lands(Status(page[c].queue[i]), QueueMarks(q, i), Status(table[i]))
      <4>1. \A i \in Items \ astray' : pending[i] # None => Status(pending[i]) = Status(table[i])
        BY <1>2
      <4> QED
        BY <1>1, <1>5, <2>1, <3>1, <4>1, FlushedProgress, Zenon
    <3> QED
      BY <2>1, <3>2, <3>3
  <2>3. CASE ~(c \in clients /\ Wants(c, "queue"))
    <3>1. send'[c] = send[c]
      BY <1>6, <2>3
    <3> QED
      BY <2>1, <3>1
  <2> QED
    BY <2>2, <2>3
<1>8. TypeOK'
  <2>1. EmptyTable \in Table /\ \A i \in Items : EmptyTable[i] = None
    BY DEF EmptyTable, Table
  <2>2. MailTypes'
    BY <1>1, <1>2, <2>1, Zenon DEF MailTypes
  <2>3. LoopTypes'
    <3>1. hub' \in {"select", "queue", "stats"}
      BY <1>2
    <3>2. astray' \subseteq Items
      BY <1>1, <1>2 DEF LoopTypes
    <3> QED
      BY <1>1, <1>2, <3>1, <3>2, Zenon DEF LoopTypes
  <2>4. SendTypes'
    BY <1>6, <1>7 DEF SendTypes
  <2> QED
    BY <1>1, <1>2, <2>2, <2>3, <2>4, Untouched, TypesNext, Zenon
<1>9. UNCHANGED <<table, records, untold, conn, topics, sub>>
  BY <1>2, Zenon DEF server, session
<1>10. Asked' /\ TableWaits' /\ EventsTell'
  BY <1>1, <1>2, <1>9 DEF Asked, TableWaits, EventsTell, Told, SameStatus
<1>11. ASSUME NEW c \in Clients
       PROVE  QueueLands(c)' /\ HistoryLands(c)'
  <2>1. /\ Follows(c, "history")' <=> Follows(c, "history")
        /\ Follows(c, "queue")' <=> Follows(c, "queue")
        /\ Serving(c, "history")' <=> Serving(c, "history")
        /\ Serving(c, "queue")' <=> Serving(c, "queue")
        /\ Serving(c, "items")' <=> Serving(c, "items")
    BY <1>2, <1>9 DEF Follows, Serving
  <2>2. HistoryLands(c)'
    BY <1>1, <1>2, <1>7, <1>9, <2>1, HistoryKept
  <2>3. QueueLands(c)'
    <3>1. SameStatus(table, table') /\ astray \subseteq astray'
      BY <1>2, <1>9 DEF SameStatus
    <3> QED
      BY <1>1, <1>2, <1>7, <1>9, <2>1, <3>1, QueueKept
  <2> QED
    BY <2>2, <2>3
<1> QED
  BY <1>8, <1>10, <1>11, Zenon DEF LiveInv

\* The table of a tick: it is the latest, and makes every page right that gets it.
LEMMA FlushQueueKeeps ==
  ASSUME LiveInv, FlushQueue
  PROVE  LiveInv'
<1>1. /\ TypeOK /\ Asked /\ TableWaits /\ EventsTell
      /\ \A c \in Clients : QueueLands(c) /\ HistoryLands(c)
      /\ ServerTypes /\ MailTypes /\ LoopTypes /\ DoorTypes /\ SessionTypes
      /\ SendTypes /\ PageTypes /\ MissedTypes
  BY Parts
<1>2. /\ hub' = "stats" /\ pendingQ' = None
      /\ UNCHANGED <<pending, events, gap, clients>> /\ UNCHANGED server
      /\ UNCHANGED doors /\ UNCHANGED session /\ UNCHANGED page
  BY Zenon DEF FlushQueue
<1>3. UNCHANGED <<table, records, untold, conn, topics, sub>>
  BY <1>2, Zenon DEF server, session
<1>4. MailTypes'
  BY <1>1, <1>2, Zenon DEF MailTypes
<1>5. hub' \in {"select", "queue", "stats"}
  BY <1>2
<1>6. TableWaits'
  BY <1>2 DEF TableWaits
<1>7. \A v, r : Told(v, r)' <=> Told(v, r)
  BY <1>2, <1>3 DEF Told
<1>8. ASSUME NEW c \in Clients
      PROVE  /\ Serving(c, "history")' <=> Serving(c, "history")
             /\ Serving(c, "queue")' <=> Serving(c, "queue")
             /\ Serving(c, "items")' <=> Serving(c, "items")
  BY <1>3 DEF Serving
<1>9. CASE pendingQ = None
  <2>1. UNCHANGED <<send, missed, lastStats, astray>>
    BY <1>9, Zenon DEF FlushQueue
  <2>2. LoopTypes'
    BY <1>1, <1>2, <1>5, <2>1, Zenon DEF LoopTypes
  <2>3. TypeOK'
    BY <1>1, <1>2, <1>4, <2>1, <2>2, Untouched, TypesNext, Zenon
  <2>4. Asked' /\ EventsTell'
    BY <1>1, <1>2, <1>3, <1>7, <2>1 DEF Asked, EventsTell
  <2>5. ASSUME NEW c \in Clients
        PROVE  QueueLands(c)' /\ HistoryLands(c)'
    <3>1. astray \subseteq astray'
      BY <2>1
    <3> QED
      BY <1>1, <1>2, <1>3, <1>9, <2>1, <3>1, Apart
  <2> QED
    BY <1>6, <2>3, <2>4, <2>5, Zenon DEF LiveInv
<1>10. CASE pendingQ # None
  <2>1. Broadcast(pendingQ) /\ lastStats' = pendingQ.stats
    BY <1>10, Zenon DEF FlushQueue
  <2>2. astray' \subseteq Items
    <3>1. astray' = {}
      BY <1>10, Zenon DEF FlushQueue
    <3> QED
      BY <3>1
  <2>3. PICK f : f = pendingQ
    OBVIOUS
  <2>4. /\ f \in QueueFrame /\ f \in Frame /\ f.type = "queue" /\ Topic(f) = "queue" /\ f.stats \in Nat
        /\ f.items \in Table /\ f.items # None /\ SameStatus(f.items, table)
    <3>1. f \in QueueFrame /\ f.items \in Table /\ SameStatus(f.items, table)
      BY <1>1, <1>10, <2>3 DEF MailTypes, TableWaits
    <3>2. f \in Frame /\ f.type = "queue" /\ f.stats \in Nat
      BY <3>1 DEF Frame, QueueFrame
    <3> QED
      BY <3>1, <3>2, Facts DEF Topic
  <2>5. /\ SendTypes' /\ MissedTypes'
        /\ \A c \in Clients :
             /\ send[c] \in Waiting
             /\ send'[c] = IF c \in clients /\ Wants(c, "queue") THEN Enqueue(send[c], f) ELSE send[c]
             /\ missed'[c] = IF ~Wants(c, "queue") THEN missed[c]
                             ELSE IF LeftBehind(c, f) THEN missed[c] \cup {"queue"}
                             ELSE missed[c] \ {"queue"}
    <3>1. Broadcast(f)
      BY <2>1, <2>3
    <3>2. /\ SendTypes' /\ MissedTypes'
          /\ \A c \in Clients :
                /\ send[c] \in Waiting
                /\ send'[c] = IF c \in clients /\ Wants(c, Topic(f)) THEN Enqueue(send[c], f) ELSE send[c]
                /\ missed'[c] =
                     IF ~Wants(c, Topic(f)) \/ f.type = "progress" THEN missed[c]
                     ELSE IF LeftBehind(c, f) THEN missed[c] \cup {Topic(f)}
                     ELSE IF f.type = "queue" /\ f.items # None THEN missed[c] \ {Topic(f)}
                     ELSE missed[c]
      BY <1>1, <2>4, <3>1, Sent
    <3> QED
      BY <2>4, <3>2
  <2>6. LoopTypes'
    <3>1. lastStats' \in Nat \cup {None}
      BY <2>1, <2>3, <2>4
    <3> QED
      BY <1>1, <1>2, <1>5, <2>2, <3>1, Zenon DEF LoopTypes
  <2>7. TypeOK'
    BY <1>1, <1>2, <1>4, <2>5, <2>6, Untouched, TypesNext, Zenon
  <2>8. \A c \in Clients : \/ missed'[c] = missed[c]
                           \/ Wants(c, "queue") /\ missed'[c] = missed[c] \cup {"queue"}
                           \/ Wants(c, "queue") /\ missed'[c] = missed[c] \ {"queue"}
    BY <2>5, Zenon
  <2>9. Asked'
    <3>1. \A c \in Clients : topics[c] = {} => missed'[c] = missed[c]
      BY <2>8 DEF Wants
    <3> QED
      BY <1>1, <1>3, <3>1 DEF Asked
  <2>10. \A c \in Clients : "history" \in missed'[c] <=> "history" \in missed[c]
    BY <2>8
  <2>11. EventsTell'
    BY <1>1, <1>2, <1>3, <1>7, <2>10 DEF EventsTell
  <2>12. ASSUME NEW c \in Clients
         PROVE  QueueLands(c)' /\ HistoryLands(c)'
    <3>1. Follows(c, "history")' <=> Follows(c, "history")
      BY <1>3, <2>10 DEF Follows
    <3>2. ASSUME NEW r \in Rows, NEW w \in Nat, Lands(page[c].history[r], HistoryMarks(send[c], r), w)
          PROVE  Lands(page[c].history[r], HistoryMarks(send'[c], r), w)
      <4>1. HistoryMark(f, r) = {}
        BY <2>4 DEF HistoryMark
      <4> QED
        BY <2>4, <2>5, <3>2, <4>1, SentHistory
    <3>3. HistoryLands(c)'
      BY <1>1, <1>2, <1>3, <1>8, <3>1, <3>2, HistoryKept
    <3>4. QueueLands(c)'
      <4> SUFFICES ASSUME conn'[c] = "on", Follows(c, "queue")'
                   PROVE  /\ ~Serving(c, "queue")'
                          /\ \A i \in Items :
                               Lands(Status(page'[c].queue[i]), QueueMarks(send'[c], i), Status(table'[i]))
        BY Zenon DEF QueueLands
      <4>1. Wants(c, "queue") /\ ~LeftBehind(c, f)
        BY <1>3, <2>5 DEF Follows, Wants
      <4>2. c \in clients /\ Len(send[c]) < ClientSendBuf /\ ~Serving(c, "queue")
        <5>1. Len(send[c]) \in Nat /\ ClientSendBuf \in Nat
          BY <2>5, Facts DEF Waiting
        <5> QED
          BY <2>4, <4>1, <5>1 DEF LeftBehind, Overtaken, Serving
      <4>3. send'[c] = Append(send[c], f) /\ send[c] \in Seq(Frame)
        BY <2>5, <4>1, <4>2 DEF Enqueue, Waiting
      <4>4. ASSUME NEW i \in Items
            PROVE  Lands(Status(page[c].queue[i]), QueueMarks(send'[c], i), Status(table[i]))
        <5>1. QueueMark(f, i) = {Status(table[i])}
          BY <2>4 DEF QueueMark, SameStatus
        <5> QED
          BY <2>4, <4>3, <5>1, MoreFrames
      <4> QED
        BY <1>2, <1>3, <1>8, <4>2, <4>4
    <3> QED
      BY <3>3, <3>4
  <2> QED
    BY <1>6, <2>7, <2>9, <2>11, <2>12, Zenon DEF LiveInv
<1> QED
  BY <1>9, <1>10

\* The counters of a tick say nothing of the items.
LEMMA FlushStatsKeeps ==
  ASSUME LiveInv, FlushStats
  PROVE  LiveInv'
<1>1. /\ TypeOK /\ Asked /\ TableWaits /\ EventsTell
      /\ \A c \in Clients : QueueLands(c) /\ HistoryLands(c)
      /\ ServerTypes /\ MailTypes /\ LoopTypes /\ DoorTypes /\ SessionTypes
      /\ SendTypes /\ PageTypes /\ MissedTypes
  BY Parts
<1>2. /\ hub' = "select"
      /\ UNCHANGED mailbox /\ UNCHANGED <<clients, astray>> /\ UNCHANGED server
      /\ UNCHANGED doors /\ UNCHANGED session /\ UNCHANGED page
  BY Zenon DEF FlushStats
<1>3. UNCHANGED <<table, count, records, untold, pendingQ, events, gap, conn, topics, sub>>
  BY <1>2, Zenon DEF server, mailbox, session
<1>4. PICK f : f = [type |-> "queue", items |-> None, stats |-> count]
  OBVIOUS
<1>5. \/ lastStats' = count /\ Broadcast(f)
      \/ UNCHANGED <<lastStats, send, missed>>
  BY <1>4, Zenon DEF FlushStats
<1>6. f \in Frame /\ f.type = "queue" /\ f.items = None /\ Topic(f) = "queue" /\ count \in Nat
  <2>1. count \in Nat
    BY <1>1, Facts DEF ServerTypes
  <2> QED
    BY <1>4, <2>1 DEF Frame, QueueFrame, Topic
<1>7. /\ SendTypes' /\ MissedTypes'
      /\ \A c \in Clients :
           /\ send[c] \in Waiting
           /\ send'[c] = send[c] \/ send'[c] = Enqueue(send[c], f)
           /\ missed'[c] = missed[c] \/ missed'[c] = missed[c] \cup {"queue"}
  <2>1. CASE Broadcast(f)
    <3>1. /\ SendTypes' /\ MissedTypes'
          /\ \A c \in Clients :
                /\ send[c] \in Waiting
                /\ send'[c] = IF c \in clients /\ Wants(c, Topic(f)) THEN Enqueue(send[c], f) ELSE send[c]
                /\ missed'[c] =
                     IF ~Wants(c, Topic(f)) \/ f.type = "progress" THEN missed[c]
                     ELSE IF LeftBehind(c, f) THEN missed[c] \cup {Topic(f)}
                     ELSE IF f.type = "queue" /\ f.items # None THEN missed[c] \ {Topic(f)}
                     ELSE missed[c]
      BY <1>1, <1>6, <2>1, Sent
    <3> QED
      BY <1>6, <3>1
  <2>2. CASE UNCHANGED <<lastStats, send, missed>>
    <3>1. SendTypes' /\ MissedTypes'
      BY <1>1, <2>2, Untouched
    <3> QED
      BY <1>1, <2>2, <3>1 DEF SendTypes
  <2> QED
    BY <1>5, <2>1, <2>2
<1>8. TypeOK'
  <2>1. lastStats' \in Nat \cup {None} /\ hub' \in {"select", "queue", "stats"}
    BY <1>1, <1>2, <1>5, <1>6 DEF LoopTypes
  <2>2. LoopTypes'
    BY <1>1, <1>2, <2>1, Zenon DEF LoopTypes
  <2> QED
    BY <1>1, <1>2, <1>7, <2>2, Untouched, TypesNext, Zenon
<1>9. \A c \in Clients : missed[c] \subseteq missed'[c] /\ ("history" \in missed'[c] <=> "history" \in missed[c])
  BY <1>7
<1>10. Asked' /\ TableWaits' /\ EventsTell'
  <2>1. Asked'
    BY <1>1, <1>3, <1>9 DEF Asked
  <2>2. TableWaits'
    BY <1>1, <1>2, <1>3 DEF TableWaits, SameStatus
  <2>3. EventsTell'
    BY <1>1, <1>3, <1>9 DEF EventsTell, Told
  <2> QED
    BY <2>1, <2>2, <2>3
<1>11. ASSUME NEW c \in Clients
       PROVE  QueueLands(c)' /\ HistoryLands(c)'
  <2>1. /\ Serving(c, "history")' <=> Serving(c, "history")
        /\ Serving(c, "queue")' <=> Serving(c, "queue")
        /\ Serving(c, "items")' <=> Serving(c, "items")
    BY <1>3 DEF Serving
  <2>2. Follows(c, "history")' <=> Follows(c, "history")
    BY <1>3, <1>9 DEF Follows
  <2>3. Follows(c, "queue")' => Follows(c, "queue")
    BY <1>3, <1>9 DEF Follows
  <2>4. ASSUME NEW r \in Rows, NEW w \in Nat, Lands(page[c].history[r], HistoryMarks(send[c], r), w)
        PROVE  Lands(page[c].history[r], HistoryMarks(send'[c], r), w)
    <3>1. HistoryMark(f, r) = {}
      BY <1>6 DEF HistoryMark
    <3> QED
      BY <1>6, <1>7, <2>4, <3>1, SentHistory
  <2>5. ASSUME NEW i \in Items, Lands(Status(page[c].queue[i]), QueueMarks(send[c], i), Status(table[i]))
        PROVE  Lands(Status(page[c].queue[i]), QueueMarks(send'[c], i), Status(table[i]))
    <3>1. QueueMark(f, i) = {}
      BY <1>6 DEF QueueMark
    <3> QED
      BY <1>6, <1>7, <2>5, <3>1, SentQueue
  <2>6. HistoryLands(c)'
    BY <1>1, <1>2, <1>3, <2>1, <2>2, <2>4, HistoryKept
  <2>7. QueueLands(c)'
    <3>1. SameStatus(table, table') /\ astray \subseteq astray'
      BY <1>2, <1>3 DEF SameStatus
    <3> QED
      BY <1>1, <1>2, <1>3, <2>1, <2>3, <2>5, <3>1, QueueKept
  <2> QED
    BY <2>6, <2>7
<1> QED
  BY <1>8, <1>10, <1>11, Zenon DEF LiveInv

-----------------------------------------------------------------------------
(* The connections.                                                        *)

\* A step of one connection alone, that keeps its part of the invariant.
LEMMA Alone ==
  ASSUME LiveInv, TypeOK', UNCHANGED server, UNCHANGED mailbox, UNCHANGED loop,
         NEW c \in Clients,
         \A d \in Clients : d # c =>
           UNCHANGED <<conn[d], topics[d], missed[d], sub[d], page[d], send[d]>>,
         topics'[c] \in {{}, Topics},
         topics'[c] = {} => {"queue", "history"} \subseteq missed'[c] /\ sub'[c] = None,
         conn'[c] = "off" => topics'[c] = {},
         gap /\ "history" \in missed[c] => "history" \in missed'[c],
         QueueLands(c)', HistoryLands(c)'
  PROVE  LiveInv'
<1>1. /\ Asked /\ TableWaits /\ EventsTell
      /\ \A d \in Clients : QueueLands(d) /\ HistoryLands(d)
  BY Parts
<1>2. UNCHANGED <<table, records, untold, pendingQ, events, gap, astray>>
  BY Zenon DEF server, mailbox, loop
<1>3. Asked'
  BY <1>1 DEF Asked
<1>4. TableWaits'
  BY <1>1, <1>2 DEF TableWaits, SameStatus
<1>5. EventsTell'
  <2>1. CASE gap
    <3>1. \A d \in Clients : "history" \in missed'[d]
      BY <1>1, <2>1 DEF EventsTell
    <3> QED
      BY <1>2, <2>1, <3>1 DEF EventsTell
  <2>2. CASE ~gap
    BY <1>1, <1>2, <2>2 DEF EventsTell, Told
  <2> QED
    BY <2>1, <2>2
<1>6. ASSUME NEW d \in Clients
      PROVE  QueueLands(d)' /\ HistoryLands(d)'
  <2>1. CASE d = c
    BY <2>1
  <2>2. CASE d # c
    <3>1. UNCHANGED <<conn[d], topics[d], missed[d], sub[d], page[d], send[d]>>
      BY <2>2
    <3>2. astray \subseteq astray'
      BY <1>2
    <3> QED
      BY <1>1, <1>2, <3>1, <3>2, Apart
  <2> QED
    BY <2>1, <2>2
<1> QED
  BY <1>3, <1>4, <1>5, <1>6, Zenon DEF LiveInv

\* A connection comes: it asked for nothing yet.
LEMMA ConnectKeeps ==
  ASSUME LiveInv, NEW c \in Clients, Connect(c)
  PROVE  LiveInv'
<1>1. /\ Asked /\ ServerTypes /\ MailTypes /\ LoopTypes /\ DoorTypes /\ SessionTypes
      /\ SendTypes /\ PageTypes /\ MissedTypes
  BY Parts
<1>2. /\ UNCHANGED server /\ UNCHANGED mailbox /\ UNCHANGED loop
      /\ UNCHANGED <<topics, sub, subs>> /\ UNCHANGED send /\ UNCHANGED page /\ UNCHANGED missed
      /\ Len(register) < HubClientBuf /\ register' = Append(register, c) /\ unregister' = unregister
      /\ conn' = [conn EXCEPT ![c] = "on"] /\ conn[c] = "off"
  BY Zenon DEF Connect
<1>3. /\ conn \in [Clients -> {"off", "on", "closed"}]
      /\ register \in Seq(Clients) /\ unregister \in Seq(Clients)
      /\ Len(register) <= HubClientBuf /\ Len(unregister) <= HubClientBuf /\ HubClientBuf \in Nat
  BY <1>1, Facts DEF SessionTypes, DoorTypes
<1>4. /\ conn' \in [Clients -> {"off", "on", "closed"}] /\ DoorTypes'
      /\ \A d \in Clients : d # c => conn'[d] = conn[d]
      /\ conn'[c] = "on" /\ topics[c] = {}
  BY <1>1, <1>2, <1>3 DEF DoorTypes, Asked
<1>5. TypeOK'
  <2>1. SessionTypes'
    BY <1>1, <1>2, <1>4, Zenon DEF SessionTypes
  <2> QED
    BY <1>1, <1>2, <1>4, <2>1, Untouched, TypesNext, Zenon
<1>6. QueueLands(c)' /\ HistoryLands(c)'
  BY <1>2, <1>4 DEF QueueLands, HistoryLands, Follows
<1>7. /\ topics'[c] \in {{}, Topics}
      /\ topics'[c] = {} => {"queue", "history"} \subseteq missed'[c] /\ sub'[c] = None
  BY <1>1, <1>2 DEF Asked
<1> QED
  BY <1>2, <1>4, <1>5, <1>6, <1>7, Alone

\* A connection goes: nobody looks at its page any more.
LEMMA DisconnectKeeps ==
  ASSUME LiveInv, NEW c \in Clients, Disconnect(c)
  PROVE  LiveInv'
<1>1. /\ Asked /\ ServerTypes /\ MailTypes /\ LoopTypes /\ DoorTypes /\ SessionTypes
      /\ SendTypes /\ PageTypes /\ MissedTypes
  BY Parts
<1>2. /\ UNCHANGED server /\ UNCHANGED mailbox /\ UNCHANGED loop /\ UNCHANGED <<sub, subs>>
      /\ sub[c] = None
      /\ Len(unregister) < HubClientBuf /\ unregister' = Append(unregister, c) /\ register' = register
      /\ conn' = [conn EXCEPT ![c] = "closed"]
      /\ topics' = [topics EXCEPT ![c] = {}]
      /\ send' = [send EXCEPT ![c] = <<>>]
      /\ page' = [page EXCEPT ![c] = Blank]
      /\ missed' = [missed EXCEPT ![c] = {"queue", "history"}]
  BY Zenon DEF Disconnect
<1>3. /\ conn \in [Clients -> {"off", "on", "closed"}] /\ topics \in [Clients -> SUBSET Topics]
      /\ send \in [Clients -> Waiting] /\ page \in [Clients -> Page]
      /\ missed \in [Clients -> SUBSET {"queue", "history"}]
  BY <1>1 DEF SessionTypes, SendTypes, PageTypes, MissedTypes
<1>4. DoorTypes'
  <2>1. /\ register \in Seq(Clients) /\ unregister \in Seq(Clients)
        /\ Len(register) <= HubClientBuf /\ Len(unregister) <= HubClientBuf /\ HubClientBuf \in Nat
    BY <1>1, Facts DEF DoorTypes
  <2> QED
    BY <1>2, <2>1 DEF DoorTypes
<1>5. <<>> \in Waiting /\ Blank \in Page
  <2>1. EmptyTable \in Table /\ NoRows \in [Rows -> Nat]
    BY DEF EmptyTable, Table, NoRows
  <2>2. Blank \in Page
    BY <2>1 DEF Blank, Page
  <2> QED
    BY <2>2, Facts DEF Waiting
<1>6. /\ conn' \in [Clients -> {"off", "on", "closed"}] /\ topics' \in [Clients -> SUBSET Topics]
      /\ SendTypes' /\ PageTypes' /\ MissedTypes'
      /\ conn'[c] = "closed" /\ topics'[c] = {} /\ missed'[c] = {"queue", "history"}
  BY <1>2, <1>3, <1>5 DEF SendTypes, PageTypes, MissedTypes
<1>7. \A d \in Clients : d # c => UNCHANGED <<conn[d], topics[d], missed[d], sub[d], page[d], send[d]>>
  BY <1>2, <1>3
<1>8. TypeOK'
  <2>1. SessionTypes'
    BY <1>1, <1>2, <1>6, Zenon DEF SessionTypes
  <2> QED
    BY <1>1, <1>2, <1>4, <1>6, <2>1, Untouched, TypesNext, Zenon
<1>9. QueueLands(c)' /\ HistoryLands(c)'
  BY <1>6 DEF QueueLands, HistoryLands
<1> QED
  BY <1>2, <1>6, <1>7, <1>8, <1>9, Alone

\* What a subscription starts from.
LEMMA FirstStep == NewSub \in Sub /\ NewSub # None /\ NewSub.at = "stats"
<1>1. FollowFrom \in 1..LogLines + 1
  BY Facts DEF FollowFrom
<1>2. NoRows \in [Rows -> Nat]
  BY DEF NoRows
<1>3. NewSub \in Sub /\ NewSub.at = "stats"
  BY <1>1, <1>2 DEF NewSub, Sub
<1> QED
  BY <1>3, Facts

\* A subscription: a client that had the topics already has them still, and
\* another has missed them.
LEMMA HandleSubKeeps ==
  ASSUME LiveInv, NEW c \in Clients, HandleSub(c)
  PROVE  LiveInv'
<1>1. /\ Asked /\ ServerTypes /\ MailTypes /\ LoopTypes /\ DoorTypes /\ SessionTypes
      /\ SendTypes /\ PageTypes /\ MissedTypes /\ QueueLands(c) /\ HistoryLands(c)
  BY Parts
<1>2. /\ UNCHANGED server /\ UNCHANGED mailbox /\ UNCHANGED loop /\ UNCHANGED doors
      /\ UNCHANGED conn /\ UNCHANGED send /\ UNCHANGED page /\ UNCHANGED missed
      /\ conn[c] = "on" /\ sub[c] = None /\ subs[c] < MaxSubs
      /\ subs' = [subs EXCEPT ![c] = @ + 1]
      /\ topics' = [topics EXCEPT ![c] = Topics]
      /\ sub' = [sub EXCEPT ![c] = NewSub]
  BY Zenon DEF HandleSub
<1>3. /\ conn \in [Clients -> {"off", "on", "closed"}]
      /\ topics \in [Clients -> SUBSET Topics]
      /\ sub \in [Clients -> Sub \cup {None}]
      /\ subs \in [Clients -> 0..MaxSubs] /\ MaxSubs \in Nat
  BY <1>1, Facts DEF SessionTypes
<1>4. /\ topics' \in [Clients -> SUBSET Topics]
      /\ sub' \in [Clients -> Sub \cup {None}]
      /\ topics'[c] = Topics /\ sub'[c] = NewSub
      /\ \A d \in Clients : d # c => UNCHANGED <<topics[d], sub[d]>>
  BY <1>2, <1>3, FirstStep
<1>5. subs' \in [Clients -> 0..MaxSubs]
  BY <1>2, <1>3
<1>6. TypeOK'
  <2>1. SessionTypes'
    BY <1>2, <1>3, <1>4, <1>5, Zenon DEF SessionTypes
  <2> QED
    BY <1>1, <1>2, <2>1, Untouched, TypesNext, Zenon
<1>7. UNCHANGED <<table, records, untold, pendingQ, events, gap, astray>>
  BY <1>2, Zenon DEF server, mailbox, loop
<1>8. /\ \A step \in {"items", "queue", "history"} : ~Serving(c, step) /\ ~Serving(c, step)'
      /\ Topics # {}
  BY <1>2, <1>4, FirstStep DEF Serving, Topics
<1>9. \A topic \in {"queue", "history"} : Follows(c, topic)' => Follows(c, topic)
  BY <1>1, <1>2 DEF Asked, Follows, Topics
<1>10. QueueLands(c)'
  <2>1. SameStatus(table, table') /\ astray \subseteq astray'
    BY <1>7 DEF SameStatus
  <2> QED
    BY <1>1, <1>2, <1>7, <1>8, <1>9, <2>1, QueueKept
<1>11. HistoryLands(c)'
  BY <1>1, <1>2, <1>7, <1>8, <1>9, HistoryKept
<1> QED
  BY <1>2, <1>4, <1>6, <1>8, <1>10, <1>11, Alone

\* The topics are dropped.
LEMMA UnsubKeeps ==
  ASSUME LiveInv, NEW c \in Clients, Unsub(c)
  PROVE  LiveInv'
<1>1. /\ Asked /\ ServerTypes /\ MailTypes /\ LoopTypes /\ DoorTypes /\ SessionTypes
      /\ SendTypes /\ PageTypes /\ MissedTypes
  BY Parts
<1>2. /\ UNCHANGED server /\ UNCHANGED mailbox /\ UNCHANGED loop /\ UNCHANGED doors
      /\ UNCHANGED <<conn, sub, subs>> /\ UNCHANGED send /\ UNCHANGED page /\ sub[c] = None
      /\ topics' = [topics EXCEPT ![c] = {}]
      /\ missed' = [missed EXCEPT ![c] = {"queue", "history"}]
  BY Zenon DEF Unsub
<1>3. topics \in [Clients -> SUBSET Topics] /\ missed \in [Clients -> SUBSET {"queue", "history"}]
  BY <1>1 DEF SessionTypes, MissedTypes
<1>4. /\ topics' \in [Clients -> SUBSET Topics] /\ MissedTypes'
      /\ topics'[c] = {} /\ missed'[c] = {"queue", "history"}
      /\ \A d \in Clients : d # c => UNCHANGED <<topics[d], missed[d]>>
  BY <1>2, <1>3 DEF MissedTypes
<1>5. TypeOK'
  <2>1. SessionTypes'
    BY <1>1, <1>2, <1>4, Zenon DEF SessionTypes
  <2> QED
    BY <1>1, <1>2, <1>4, <2>1, Untouched, TypesNext, Zenon
<1>6. QueueLands(c)' /\ HistoryLands(c)'
  BY <1>4 DEF QueueLands, HistoryLands, Follows
<1> QED
  BY <1>2, <1>4, <1>5, <1>6, Alone

\* Where a subscription that is served is.
StepOf(s, step) == s # None /\ s.at = step

\* What a client is told of the queue, and of the history, while it is at s and
\* q waits for it.
QueueSays(c, s, q) ==
  /\ StepOf(s, "queue") => s.items \in Table /\ SameStatus(s.items, table)
  /\ ~StepOf(s, "items") /\ ~StepOf(s, "queue") =>
       \A i \in Items \ astray : Lands(Status(page[c].queue[i]), QueueMarks(q, i), Status(table[i]))
HistorySays(c, s, q) ==
  \A r \in Rows :
    IF StepOf(s, "history")
    THEN Told(s.rows[r], r)
    ELSE \E w \in Nat : Lands(page[c].history[r], HistoryMarks(q, r), w) /\ Told(w, r)

\* The state in which a subscription is served.
LEMMA Serves ==
  ASSUME LiveInv, NEW c \in Clients, sub[c] # None
  PROVE  /\ sub[c] \in Sub /\ send[c] \in Waiting /\ missed[c] \in SUBSET {"queue", "history"}
         /\ topics[c] = Topics /\ conn[c] # "off"
         /\ conn[c] = "on" /\ "queue" \notin missed[c] /\ pendingQ = None => QueueSays(c, sub[c], send[c])
         /\ conn[c] = "on" /\ "history" \notin missed[c] => HistorySays(c, sub[c], send[c])
<1>1. /\ Asked /\ QueueLands(c) /\ HistoryLands(c) /\ SessionTypes /\ SendTypes /\ MissedTypes
  BY Parts
<1>2. sub[c] \in Sub /\ send[c] \in Waiting /\ missed[c] \in SUBSET {"queue", "history"}
  BY <1>1 DEF SessionTypes, SendTypes, MissedTypes
<1>3. topics[c] = Topics /\ conn[c] # "off" /\ {"queue", "history"} \subseteq topics[c]
  BY <1>1 DEF Asked, Topics
<1>4. ASSUME conn[c] = "on", "queue" \notin missed[c], pendingQ = None
      PROVE  QueueSays(c, sub[c], send[c])
  <2>1. Follows(c, "queue")
    BY <1>3, <1>4 DEF Follows
  <2> QED
    BY <1>1, <1>4, <2>1, Zenon DEF QueueLands, QueueSays, Serving, StepOf
<1>5. ASSUME conn[c] = "on", "history" \notin missed[c]
      PROVE  HistorySays(c, sub[c], send[c])
  <2>1. Follows(c, "history")
    BY <1>3, <1>5 DEF Follows
  <2> QED
    BY <1>1, <1>5, <2>1, Zenon DEF HistoryLands, HistorySays, Serving, StepOf
<1> QED
  BY <1>2, <1>3, <1>4, <1>5

\* One step of a subscription: s, q and m are what the step makes of the
\* subscription, of what waits and of what is missed.
LEMMA Served ==
  ASSUME LiveInv, NEW c \in Clients, sub[c] # None,
         NEW s \in Sub \cup {None}, NEW q \in Waiting, NEW m \in SUBSET {"queue", "history"},
         sub' = [sub EXCEPT ![c] = s], send' = [send EXCEPT ![c] = q],
         missed' = [missed EXCEPT ![c] = m],
         UNCHANGED server, UNCHANGED mailbox, UNCHANGED loop, UNCHANGED doors,
         UNCHANGED <<conn, topics, subs>>, UNCHANGED page,
         gap /\ "history" \in missed[c] => "history" \in m,
         conn[c] = "on" /\ "queue" \notin m /\ pendingQ = None => QueueSays(c, s, q),
         conn[c] = "on" /\ "history" \notin m => HistorySays(c, s, q)
  PROVE  LiveInv'
<1>1. /\ ServerTypes /\ MailTypes /\ LoopTypes /\ DoorTypes /\ SessionTypes
      /\ SendTypes /\ PageTypes /\ MissedTypes
  BY Parts
<1>2. /\ sub' \in [Clients -> Sub \cup {None}] /\ SendTypes' /\ MissedTypes'
      /\ sub'[c] = s /\ send'[c] = q /\ missed'[c] = m
      /\ \A d \in Clients : d # c => UNCHANGED <<sub[d], send[d], missed[d]>>
  BY <1>1 DEF SessionTypes, SendTypes, MissedTypes
<1>3. TypeOK'
  <2>1. SessionTypes'
    BY <1>1, <1>2, Zenon DEF SessionTypes
  <2> QED
    BY <1>1, <1>2, <2>1, Untouched, TypesNext, Zenon
<1>4. UNCHANGED <<table, records, untold, pendingQ, events, gap, astray>>
  BY Zenon DEF server, mailbox, loop
<1>5. topics[c] = Topics /\ Topics # {} /\ conn[c] # "off"
  BY Serves DEF Topics
<1>6. QueueLands(c)'
  <2> SUFFICES ASSUME conn'[c] = "on", Follows(c, "queue")', pendingQ' = None
               PROVE  /\ StepOf(sub'[c], "queue") => sub'[c].items \in Table /\ SameStatus(sub'[c].items, table')
                      /\ ~StepOf(sub'[c], "items") /\ ~StepOf(sub'[c], "queue") =>
                           \A i \in Items \ astray' :
                             Lands(Status(page'[c].queue[i]), QueueMarks(send'[c], i), Status(table'[i]))
    BY Zenon DEF QueueLands, Serving, SameStatus, StepOf
  <2>1. QueueSays(c, s, q)
    BY <1>2, <1>4 DEF Follows
  <2> QED
    BY <1>2, <1>4, <2>1 DEF QueueSays
<1>7. HistoryLands(c)'
  <2> SUFFICES ASSUME conn'[c] = "on", Follows(c, "history")', NEW r \in Rows
               PROVE  IF StepOf(sub'[c], "history")
                      THEN Told(sub[c].rows[r], r)'
                      ELSE \E w \in Nat :
                             Lands(page'[c].history[r], HistoryMarks(send'[c], r), w) /\ Told(w, r)'
    BY Zenon DEF HistoryLands, Serving, StepOf
  <2>1. HistorySays(c, s, q)
    BY <1>2 DEF Follows
  <2>2. \A v : Told(v, r)' <=> Told(v, r)
    BY <1>4 DEF Told
  <2> QED
    BY <1>2, <1>4, <2>1, <2>2 DEF HistorySays
<1> QED
  BY <1>2, <1>3, <1>5, <1>6, <1>7, Alone

\* A frame of a snapshot goes to the client's buffer, or is missed.
LEMMA Snapshot ==
  ASSUME SendTypes, MissedTypes, NEW c \in Clients, NEW f \in Frame,
         f.type \in {"queue", "history", "log"}, EnqueueFrame(c, f)
  PROVE  \E m \in SUBSET {"queue", "history"} :
           /\ send' = [send EXCEPT ![c] = Enqueue(send[c], f)] /\ Enqueue(send[c], f) \in Waiting
           /\ missed' = [missed EXCEPT ![c] = m] /\ missed[c] \subseteq m
           /\ f.type # "log" /\ Topic(f) \notin m => Enqueue(send[c], f) = Append(send[c], f)
           /\ \A topic \in m : topic \in missed[c] \/ topic = Topic(f)
<1>1. send[c] \in Waiting /\ missed[c] \in SUBSET {"queue", "history"}
      /\ missed \in [Clients -> SUBSET {"queue", "history"}]
  BY DEF SendTypes, MissedTypes
<1>2. Enqueue(send[c], f) \in Waiting
  BY <1>1, Enqueued
<1>3. send' = [send EXCEPT ![c] = Enqueue(send[c], f)]
  BY Zenon DEF EnqueueFrame
<1>4. CASE Len(send[c]) >= ClientSendBuf /\ f.type # "log"
  <2>1. missed' = [missed EXCEPT ![c] = missed[c] \cup {Topic(f)}]
    BY <1>4, Zenon DEF EnqueueFrame
  <2>2. missed[c] \cup {Topic(f)} \in SUBSET {"queue", "history"}
    BY <1>1, <1>4 DEF Topic
  <2> QED
    BY <1>2, <1>3, <2>1, <2>2
<1>5. CASE ~(Len(send[c]) >= ClientSendBuf /\ f.type # "log")
  <2>1. missed' = missed
    BY <1>5, Zenon DEF EnqueueFrame
  <2>2. missed' = [missed EXCEPT ![c] = missed[c]]
    BY <1>1, <2>1
  <2>3. f.type # "log" => Enqueue(send[c], f) = Append(send[c], f)
    <3>1. Len(send[c]) \in Nat /\ ClientSendBuf \in Nat
      BY <1>1, Facts DEF Waiting
    <3> QED
      BY <1>5, <3>1 DEF Enqueue
  <2> QED
    BY <1>1, <1>2, <1>3, <2>2, <2>3
<1> QED
  BY <1>4, <1>5

\* What is known of a subscription that is served.
LEMMA Fields ==
  ASSUME NEW s \in Sub
  PROVE  /\ s.stats \in Nat /\ s.items \in Table \cup {None} /\ s.rows \in [Rows -> Nat]
         /\ s.line \in 1..LogLines + 1
         /\ \A step \in {"items", "queue", "rows", "history", "logs"} :
              [s EXCEPT !.at = step] \in Sub
BY DEF Sub

\* A step that changes nothing but the subscription: the counters, the table or
\* the history are read, or the subscription ends.
LEMMA Reads ==
  ASSUME LiveInv, NEW c \in Clients, SendSnapshot(c),
         \/ Serving(c, "stats") \/ Serving(c, "items") \/ Serving(c, "rows")
         \/ Serving(c, "logs") /\ sub[c].line > LogLines
  PROVE  LiveInv'
<1>1. /\ ServerTypes /\ MailTypes /\ SendTypes /\ MissedTypes /\ SessionTypes /\ EventsTell
  BY Parts
<1>2. /\ UNCHANGED server /\ UNCHANGED mailbox /\ UNCHANGED loop /\ UNCHANGED doors
      /\ UNCHANGED <<conn, topics, subs>> /\ UNCHANGED page
  BY Zenon DEF SendSnapshot
<1>3. /\ sub[c] # None /\ sub[c] \in Sub /\ send[c] \in Waiting /\ missed[c] \in SUBSET {"queue", "history"}
      /\ conn[c] = "on" /\ "queue" \notin missed[c] /\ pendingQ = None => QueueSays(c, sub[c], send[c])
      /\ conn[c] = "on" /\ "history" \notin missed[c] => HistorySays(c, sub[c], send[c])
  BY Serves DEF Serving
<1>4. /\ send = [send EXCEPT ![c] = send[c]] /\ missed = [missed EXCEPT ![c] = missed[c]]
      /\ table \in Table /\ records \in [Rows -> Nat] /\ count \in Nat
  BY <1>1, Facts DEF SendTypes, MissedTypes, ServerTypes
<1>5. \A step : Serving(c, step) <=> sub[c].at = step
  BY <1>3 DEF Serving
<1>6. CASE Serving(c, "stats")
  <2>1. PICK s : s = [sub[c] EXCEPT !.stats = count, !.at = "items"]
    OBVIOUS
  <2>2. PICK m : m = missed[c] \ {"queue"}
    OBVIOUS
  <2>3. sub' = [sub EXCEPT ![c] = s] /\ missed' = [missed EXCEPT ![c] = m] /\ send' = send
    BY <1>5, <1>6, <2>1, <2>2 DEF SendSnapshot
  <2>4. s \in Sub /\ s # None /\ s.at = "items"
    BY <1>3, <1>4, <2>1, Facts DEF Sub
  <2>5. QueueSays(c, s, send[c])
    BY <2>4 DEF QueueSays, StepOf
  <2>6. "history" \notin missed[c] /\ conn[c] = "on" => HistorySays(c, s, send[c])
    BY <1>3, <1>5, <1>6, <2>4 DEF HistorySays, StepOf
  <2>7. m \in SUBSET {"queue", "history"} /\ ("history" \in m <=> "history" \in missed[c])
    BY <1>3, <2>2
  <2>8. send' = [send EXCEPT ![c] = send[c]]
    BY <1>4, <2>3
  <2> QED
    BY <1>2, <1>3, <2>3, <2>4, <2>5, <2>6, <2>7, <2>8, Served
<1>7. CASE Serving(c, "items")
  <2>1. PICK s : s = [sub[c] EXCEPT !.items = table, !.at = "queue"]
    OBVIOUS
  <2>2. sub' = [sub EXCEPT ![c] = s] /\ missed' = missed /\ send' = send
    BY <1>5, <1>7, <2>1 DEF SendSnapshot
  <2>3. s \in Sub /\ s # None /\ s.at = "queue" /\ s.items = table
    BY <1>3, <1>4, <2>1, Facts DEF Sub
  <2>4. QueueSays(c, s, send[c])
    BY <1>4, <2>3 DEF QueueSays, StepOf, SameStatus
  <2>5. "history" \notin missed[c] /\ conn[c] = "on" => HistorySays(c, s, send[c])
    BY <1>3, <1>5, <1>7, <2>3 DEF HistorySays, StepOf
  <2>6. PICK m, q : m = missed[c] /\ q = send[c]
    OBVIOUS
  <2>7. send' = [send EXCEPT ![c] = q] /\ missed' = [missed EXCEPT ![c] = m]
    BY <1>4, <2>2, <2>6
  <2> QED
    BY <1>2, <1>3, <2>2, <2>3, <2>4, <2>5, <2>6, <2>7, Served
<1>8. CASE Serving(c, "rows")
  <2>1. PICK s : s = [sub[c] EXCEPT !.rows = records, !.at = "history"]
    OBVIOUS
  <2>2. PICK m : m = IF gap THEN missed[c] ELSE missed[c] \ {"history"}
    OBVIOUS
  <2>3. sub' = [sub EXCEPT ![c] = s] /\ send' = send
        /\ missed' = IF gap THEN missed ELSE [missed EXCEPT ![c] = missed[c] \ {"history"}]
    BY <1>5, <1>8, <2>1 DEF SendSnapshot
  <2>4. missed' = [missed EXCEPT ![c] = m]
    BY <1>4, <2>2, <2>3
  <2>5. s \in Sub /\ s # None /\ s.at = "history" /\ s.rows = records
    BY <1>3, <1>4, <2>1, Facts DEF Sub
  <2>6. "queue" \notin missed[c] /\ conn[c] = "on" /\ pendingQ = None => QueueSays(c, s, send[c])
    BY <1>3, <1>5, <1>8, <2>5 DEF QueueSays, StepOf
  <2>7. /\ m \in SUBSET {"queue", "history"} /\ ("queue" \in m <=> "queue" \in missed[c])
        /\ (gap /\ "history" \in missed[c] => "history" \in m)
    BY <1>3, <2>2
  <2>8. "history" \notin m => HistorySays(c, s, send[c])
    <3>1. CASE gap
      BY <1>1, <2>7, <3>1 DEF EventsTell
    <3>2. CASE ~gap
      BY <1>1, <2>5, <3>2 DEF EventsTell, HistorySays, StepOf
    <3> QED
      BY <3>1, <3>2
  <2>9. send' = [send EXCEPT ![c] = send[c]]
    BY <1>4, <2>3
  <2> QED
    BY <1>2, <1>3, <2>3, <2>4, <2>5, <2>6, <2>7, <2>8, <2>9, Served
<1>9. CASE Serving(c, "logs") /\ sub[c].line > LogLines
  <2>1. sub[c].line \in 1..LogLines + 1 /\ LogLines \in Nat
    BY <1>3, Fields, Facts
  <2>2. PICK s, m, q : s = None /\ m = missed[c] /\ q = send[c]
    OBVIOUS
  <2>3. sub' = [sub EXCEPT ![c] = s] /\ missed' = missed /\ send' = send
    BY <1>5, <1>9, <2>1, <2>2 DEF SendSnapshot
  <2>4. "queue" \notin m /\ conn[c] = "on" /\ pendingQ = None => QueueSays(c, s, q)
    BY <1>3, <1>5, <1>9, <2>2 DEF QueueSays, StepOf
  <2>5. "history" \notin m /\ conn[c] = "on" => HistorySays(c, s, q)
    BY <1>3, <1>5, <1>9, <2>2 DEF HistorySays, StepOf
  <2>6. send' = [send EXCEPT ![c] = q] /\ missed' = [missed EXCEPT ![c] = m]
    BY <1>4, <2>2, <2>3
  <2>7. s \in Sub \cup {None}
    BY <2>2
  <2> QED
    BY <1>2, <1>3, <2>2, <2>3, <2>4, <2>5, <2>6, <2>7, Served
<1> QED
  BY <1>6, <1>7, <1>8, <1>9

\* A step that sends the table, the history or a line of the log that was read.
LEMMA Sends ==
  ASSUME LiveInv, NEW c \in Clients, SendSnapshot(c),
         \/ Serving(c, "queue") \/ Serving(c, "history")
         \/ Serving(c, "logs") /\ sub[c].line <= LogLines
  PROVE  LiveInv'
<1>1. MailTypes /\ SendTypes /\ MissedTypes
  BY Parts
<1>2. /\ UNCHANGED server /\ UNCHANGED mailbox /\ UNCHANGED loop /\ UNCHANGED doors
      /\ UNCHANGED <<conn, topics, subs>> /\ UNCHANGED page
  BY Zenon DEF SendSnapshot
<1>3. /\ sub[c] # None /\ sub[c] \in Sub /\ send[c] \in Waiting /\ missed[c] \in SUBSET {"queue", "history"}
      /\ conn[c] = "on" /\ "queue" \notin missed[c] /\ pendingQ = None => QueueSays(c, sub[c], send[c])
      /\ conn[c] = "on" /\ "history" \notin missed[c] => HistorySays(c, sub[c], send[c])
  BY Serves DEF Serving
<1>4. \A step : Serving(c, step) <=> sub[c].at = step
  BY <1>3 DEF Serving
<1>5. send[c] \in Seq(Frame)
  BY <1>3 DEF Waiting
<1>6. CASE Serving(c, "queue")
  <2>1. PICK f : f = [type |-> "queue", items |-> sub[c].items, stats |-> sub[c].stats]
    OBVIOUS
  <2>2. PICK s : s = [sub[c] EXCEPT !.at = "rows"]
    OBVIOUS
  <2>3. EnqueueFrame(c, f) /\ sub' = [sub EXCEPT ![c] = s]
    BY <1>4, <1>6, <2>1, <2>2 DEF SendSnapshot
  <2>4. f \in Frame /\ f.type = "queue" /\ Topic(f) = "queue"
    BY <1>3, <2>1, Fields DEF Frame, QueueFrame, Topic
  <2>5. s \in Sub /\ s # None /\ s.at = "rows"
    BY <1>3, <2>2, Fields, Facts DEF Sub
  <2>6. PICK m \in SUBSET {"queue", "history"} :
           /\ send' = [send EXCEPT ![c] = Enqueue(send[c], f)] /\ Enqueue(send[c], f) \in Waiting
           /\ missed' = [missed EXCEPT ![c] = m] /\ missed[c] \subseteq m
           /\ f.type # "log" /\ Topic(f) \notin m => Enqueue(send[c], f) = Append(send[c], f)
           /\ \A topic \in m : topic \in missed[c] \/ topic = Topic(f)
    BY <1>1, <2>3, <2>4, Snapshot
  <2>7. PICK q : q = Enqueue(send[c], f)
    OBVIOUS
  <2>8. ASSUME conn[c] = "on", "queue" \notin m, pendingQ = None
        PROVE  QueueSays(c, s, q)
    <3>1. sub[c].items \in Table /\ SameStatus(sub[c].items, table)
      BY <1>3, <1>4, <1>6, <2>6, <2>8 DEF QueueSays, StepOf
    <3>2. q = Append(send[c], f)
      BY <2>4, <2>6, <2>7, <2>8
    <3>3. ASSUME NEW i \in Items
          PROVE  Lands(Status(page[c].queue[i]), QueueMarks(q, i), Status(table[i]))
      <4>1. QueueMark(f, i) = {Status(table[i])}
        BY <2>1, <3>1, Facts DEF QueueMark, SameStatus
      <4> QED
        BY <1>5, <2>4, <3>2, <4>1, MoreFrames
    <3> QED
      BY <2>5, <3>3 DEF QueueSays, StepOf
  <2>9. ASSUME conn[c] = "on", "history" \notin m
        PROVE  HistorySays(c, s, q)
    <3>1. HistorySays(c, sub[c], send[c])
      BY <1>3, <2>6, <2>9
    <3>2. ASSUME NEW r \in Rows, NEW w \in Nat, Lands(page[c].history[r], HistoryMarks(send[c], r), w)
          PROVE  Lands(page[c].history[r], HistoryMarks(q, r), w)
      <4>1. HistoryMark(f, r) = {}
        BY <2>4 DEF HistoryMark
      <4> QED
        BY <1>3, <2>4, <2>7, <3>2, <4>1, SentHistory
    <3> QED
      BY <1>4, <1>6, <2>5, <3>1, <3>2 DEF HistorySays, StepOf
  <2>10. gap /\ "history" \in missed[c] => "history" \in m
    BY <2>6
  <2> QED
    BY <1>2, <1>3, <2>3, <2>5, <2>6, <2>7, <2>8, <2>9, <2>10, Served
<1>7. CASE Serving(c, "history")
  <2>1. PICK f : f = [type |-> "history", op |-> "snapshot", rows |-> sub[c].rows]
    OBVIOUS
  <2>2. PICK s : s = [sub[c] EXCEPT !.at = "logs"]
    OBVIOUS
  <2>3. EnqueueFrame(c, f) /\ sub' = [sub EXCEPT ![c] = s]
    BY <1>4, <1>7, <2>1, <2>2 DEF SendSnapshot
  <2>4. f \in Frame /\ f.type = "history" /\ Topic(f) = "history"
    BY <1>3, <2>1, Fields DEF Frame, HistoryFrame, Topic
  <2>5. s \in Sub /\ s # None /\ s.at = "logs"
    BY <1>3, <2>2, Fields, Facts DEF Sub
  <2>6. PICK m \in SUBSET {"queue", "history"} :
           /\ send' = [send EXCEPT ![c] = Enqueue(send[c], f)] /\ Enqueue(send[c], f) \in Waiting
           /\ missed' = [missed EXCEPT ![c] = m] /\ missed[c] \subseteq m
           /\ f.type # "log" /\ Topic(f) \notin m => Enqueue(send[c], f) = Append(send[c], f)
           /\ \A topic \in m : topic \in missed[c] \/ topic = Topic(f)
    BY <1>1, <2>3, <2>4, Snapshot
  <2>7. PICK q : q = Enqueue(send[c], f)
    OBVIOUS
  <2>8. ASSUME conn[c] = "on", "queue" \notin m, pendingQ = None
        PROVE  QueueSays(c, s, q)
    <3>1. QueueSays(c, sub[c], send[c])
      BY <1>3, <2>6, <2>8
    <3>2. ASSUME NEW i \in Items, Lands(Status(page[c].queue[i]), QueueMarks(send[c], i), Status(table[i]))
          PROVE  Lands(Status(page[c].queue[i]), QueueMarks(q, i), Status(table[i]))
      <4>1. QueueMark(f, i) = {}
        BY <2>4 DEF QueueMark
      <4> QED
        BY <1>3, <2>4, <2>7, <3>2, <4>1, SentQueue
    <3> QED
      BY <1>4, <1>7, <2>5, <3>1, <3>2 DEF QueueSays, StepOf
  <2>9. ASSUME conn[c] = "on", "history" \notin m
        PROVE  HistorySays(c, s, q)
    <3>1. HistorySays(c, sub[c], send[c])
      BY <1>3, <2>6, <2>9
    <3>2. q = Append(send[c], f) /\ sub[c].rows \in [Rows -> Nat]
      BY <1>3, <2>4, <2>6, <2>7, <2>9, Fields
    <3>3. ASSUME NEW r \in Rows
          PROVE  \E w \in Nat : Lands(page[c].history[r], HistoryMarks(q, r), w) /\ Told(w, r)
      <4>1. PICK w : w = sub[c].rows[r]
        OBVIOUS
      <4>2. w \in Nat /\ HistoryMark(f, r) = {w}
        BY <2>1, <3>2, <4>1 DEF HistoryMark
      <4>3. Lands(page[c].history[r], HistoryMarks(q, r), w)
        BY <1>5, <2>4, <3>2, <4>2, MoreFrames
      <4>4. Told(w, r)
        BY <1>3, <1>4, <1>7, <3>1, <4>1 DEF HistorySays, StepOf
      <4> QED
        BY <4>2, <4>3, <4>4
    <3> QED
      BY <2>5, <3>3 DEF HistorySays, StepOf
  <2>10. gap /\ "history" \in missed[c] => "history" \in m
    BY <2>6
  <2> QED
    BY <1>2, <1>3, <2>3, <2>5, <2>6, <2>7, <2>8, <2>9, <2>10, Served
<1>8. CASE Serving(c, "logs") /\ sub[c].line <= LogLines
  <2>1. PICK f : f = [type |-> "log", line |-> sub[c].line]
    OBVIOUS
  <2>2. PICK s : s = [sub[c] EXCEPT !.line = sub[c].line + 1]
    OBVIOUS
  <2>3. sub[c].line \in 1..LogLines + 1 /\ LogLines \in Nat
    BY <1>3, Fields, Facts
  <2>4. EnqueueFrame(c, f) /\ sub' = [sub EXCEPT ![c] = s]
    BY <1>4, <1>8, <2>1, <2>2, <2>3 DEF SendSnapshot
  <2>5. f \in Frame /\ f.type = "log" /\ Topic(f) = "logs"
    <3>1. sub[c].line \in 1..LogLines
      BY <1>8, <2>3
    <3> QED
      BY <2>1, <3>1 DEF Frame, Topic
  <2>6. s \in Sub /\ s # None /\ s.at = "logs"
    <3>1. sub[c].line + 1 \in 1..LogLines + 1
      BY <1>8, <2>3
    <3> QED
      BY <1>3, <1>4, <1>8, <2>2, <3>1, Facts DEF Sub
  <2>7. PICK m \in SUBSET {"queue", "history"} :
           /\ send' = [send EXCEPT ![c] = Enqueue(send[c], f)] /\ Enqueue(send[c], f) \in Waiting
           /\ missed' = [missed EXCEPT ![c] = m] /\ missed[c] \subseteq m
           /\ \A topic \in m : topic \in missed[c] \/ topic = Topic(f)
    BY <1>1, <2>4, <2>5, Snapshot
  <2>8. PICK q : q = Enqueue(send[c], f)
    OBVIOUS
  <2>9. ASSUME conn[c] = "on", "queue" \notin m, pendingQ = None
        PROVE  QueueSays(c, s, q)
    <3>1. QueueSays(c, sub[c], send[c])
      BY <1>3, <2>7, <2>9
    <3>2. ASSUME NEW i \in Items, Lands(Status(page[c].queue[i]), QueueMarks(send[c], i), Status(table[i]))
          PROVE  Lands(Status(page[c].queue[i]), QueueMarks(q, i), Status(table[i]))
      <4>1. QueueMark(f, i) = {}
        BY <2>5 DEF QueueMark
      <4> QED
        BY <1>3, <2>5, <2>8, <3>2, <4>1, SentQueue
    <3> QED
      BY <1>4, <1>8, <2>6, <3>1, <3>2 DEF QueueSays, StepOf
  <2>10. ASSUME conn[c] = "on", "history" \notin m
         PROVE  HistorySays(c, s, q)
    <3>1. HistorySays(c, sub[c], send[c])
      BY <1>3, <2>7, <2>10
    <3>2. ASSUME NEW r \in Rows, NEW w \in Nat, Lands(page[c].history[r], HistoryMarks(send[c], r), w)
          PROVE  Lands(page[c].history[r], HistoryMarks(q, r), w)
      <4>1. HistoryMark(f, r) = {}
        BY <2>5 DEF HistoryMark
      <4> QED
        BY <1>3, <2>5, <2>8, <3>2, <4>1, SentHistory
    <3> QED
      BY <1>4, <1>8, <2>6, <3>1, <3>2 DEF HistorySays, StepOf
  <2>11. gap /\ "history" \in missed[c] => "history" \in m
    BY <2>7
  <2> QED
    BY <1>2, <1>3, <2>4, <2>6, <2>7, <2>8, <2>9, <2>10, <2>11, Served
<1> QED
  BY <1>6, <1>7, <1>8

\* A snapshot is read and sent.
LEMMA SendSnapshotKeeps ==
  ASSUME LiveInv, NEW c \in Clients, SendSnapshot(c)
  PROVE  LiveInv'
<1>1. \/ Serving(c, "stats") \/ Serving(c, "items") \/ Serving(c, "rows")
      \/ Serving(c, "logs") /\ sub[c].line > LogLines
      \/ Serving(c, "queue") \/ Serving(c, "history")
      \/ Serving(c, "logs") /\ sub[c].line <= LogLines
  BY Zenon DEF SendSnapshot
<1> QED
  BY <1>1, Reads, Sends

-----------------------------------------------------------------------------
(* The page.                                                               *)

\* One frame less waits, and the page shows it.
LEMMA WriteKeeps ==
  ASSUME LiveInv, NEW c \in Clients, Write(c)
  PROVE  LiveInv'
<1>1. /\ Asked /\ ServerTypes /\ MailTypes /\ LoopTypes /\ DoorTypes /\ SessionTypes
      /\ SendTypes /\ PageTypes /\ MissedTypes /\ QueueLands(c) /\ HistoryLands(c)
  BY Parts
<1>2. /\ UNCHANGED server /\ UNCHANGED mailbox /\ UNCHANGED loop /\ UNCHANGED doors
      /\ UNCHANGED session /\ UNCHANGED missed
      /\ send[c] # <<>>
      /\ page' = [page EXCEPT ![c] = Show(page[c], Head(send[c]))]
      /\ send' = [send EXCEPT ![c] = Tail(send[c])]
  BY Zenon DEF Write
<1>3. page \in [Clients -> Page] /\ send \in [Clients -> Waiting]
      /\ page[c] \in Page /\ send[c] \in Seq(Frame) /\ Len(send[c]) <= ClientSendBuf /\ ClientSendBuf \in Nat
  BY <1>1, Facts DEF PageTypes, SendTypes, Waiting
<1>4. PICK f : f = Head(send[c])
  OBVIOUS
<1>5. PICK p : p = Show(page[c], f)
  OBVIOUS
<1>6. PICK q : q = Tail(send[c])
  OBVIOUS
<1>7. f \in Frame /\ q \in Waiting
  BY <1>2, <1>3, <1>4, <1>6 DEF Waiting
<1>8. /\ p \in Page
      /\ \A r \in Rows : \/ HistoryMark(f, r) = {} /\ p.history[r] = page[c].history[r]
                         \/ HistoryMark(f, r) = {p.history[r]}
      /\ \A i \in Items : \/ QueueMark(f, i) = {} /\ p.queue[i] = page[c].queue[i]
                          \/ QueueMark(f, i) = {Status(p.queue[i])}
  BY <1>3, <1>5, <1>7, Shown
<1>9. /\ PageTypes' /\ SendTypes' /\ page'[c] = p /\ send'[c] = q
      /\ \A d \in Clients : d # c => UNCHANGED <<page[d], send[d]>>
  BY <1>2, <1>3, <1>4, <1>5, <1>6, <1>7, <1>8 DEF PageTypes, SendTypes
<1>10. TypeOK'
  BY <1>1, <1>2, <1>9, Untouched, TypesNext, Zenon
<1>11. UNCHANGED <<table, records, untold, pendingQ, events, gap, astray, conn, topics, sub>>
  BY <1>2, Zenon DEF server, mailbox, loop, session
<1>12. ASSUME NEW r \in Rows, NEW w, Lands(page[c].history[r], HistoryMarks(send[c], r), w)
       PROVE  Lands(p.history[r], HistoryMarks(q, r), w)
  BY <1>2, <1>3, <1>4, <1>6, <1>8, <1>12, LessFrames
<1>13. ASSUME NEW i \in Items, NEW w, Lands(Status(page[c].queue[i]), QueueMarks(send[c], i), w)
       PROVE  Lands(Status(p.queue[i]), QueueMarks(q, i), w)
  <2>1. PICK e : e = Status(p.queue[i])
    OBVIOUS
  <2>2. PICK d : d = Status(page[c].queue[i])
    OBVIOUS
  <2>3. (QueueMark(f, i) = {} /\ e = d) \/ QueueMark(f, i) = {e}
    BY <1>8, <2>1, <2>2
  <2> QED
    BY <1>2, <1>3, <1>4, <1>6, <1>13, <2>1, <2>2, <2>3, LessFrames
<1>14. /\ \A step : Serving(c, step)' <=> Serving(c, step)
       /\ \A topic : Follows(c, topic)' <=> Follows(c, topic)
  BY <1>2, <1>11 DEF Serving, Follows
<1>15. QueueLands(c)'
  <2> SUFFICES ASSUME conn[c] = "on", Follows(c, "queue"), pendingQ = None
               PROVE  /\ Serving(c, "queue") => sub[c].items \in Table /\ SameStatus(sub[c].items, table)
                      /\ ~Serving(c, "items") /\ ~Serving(c, "queue") =>
                           \A i \in Items \ astray : Lands(Status(p.queue[i]), QueueMarks(q, i), Status(table[i]))
    BY <1>9, <1>11, <1>14 DEF QueueLands, SameStatus
  <2> QED
    BY <1>1, <1>13 DEF QueueLands
<1>16. HistoryLands(c)'
  <2> SUFFICES ASSUME conn[c] = "on", Follows(c, "history"), NEW r \in Rows
               PROVE  IF Serving(c, "history")
                      THEN Told(sub[c].rows[r], r)
                      ELSE \E w \in Nat : Lands(p.history[r], HistoryMarks(q, r), w) /\ Told(w, r)
    <3>1. \A v, r : Told(v, r)' <=> Told(v, r)
      BY <1>11 DEF Told
    <3> QED
      BY <1>9, <1>11, <1>14, <3>1 DEF HistoryLands
  <2> QED
    BY <1>1, <1>12 DEF HistoryLands
<1> QED
  BY <1>1, <1>2, <1>9, <1>10, <1>11, <1>15, <1>16, Alone DEF Asked

-----------------------------------------------------------------------------
(* The theorems.                                                           *)

\* Nobody is connected and nothing has happened.
LEMMA LiveInit == Init => LiveInv
<1> SUFFICES ASSUME Init PROVE LiveInv
  OBVIOUS
<1>1. EmptyTable \in Table /\ NoRows \in [Rows -> 0..MaxChanges] /\ NoRows \in [Rows -> Nat]
      /\ 0 \in 0..MaxChanges /\ 0 \in 0..MaxSubs
  BY Facts DEF EmptyTable, Table, NoRows
<1>2. ServerTypes
  BY <1>1 DEF Init, ServerTypes
<1>3. MailTypes
  <2>1. events = <<>> /\ pending = EmptyTable /\ pendingQ = None /\ gap = FALSE
    BY Zenon DEF Init
  <2>2. events \in Seq(HistoryFrame) /\ Len(events) <= HubEventBuf
    BY <2>1, Facts
  <2> QED
    BY <1>1, <2>1, <2>2, Zenon DEF MailTypes
<1>4. LoopTypes
  <2>1. clients = {} /\ lastStats = None /\ hub = "select" /\ astray = {}
    BY Zenon DEF Init
  <2>2. clients \subseteq Clients /\ astray \subseteq Items /\ hub \in {"select", "queue", "stats"}
    BY <2>1
  <2> QED
    BY <2>1, <2>2, Zenon DEF LoopTypes
<1>5. DoorTypes
  BY Facts DEF Init, DoorTypes
<1>6. SessionTypes
  BY <1>1 DEF Init, SessionTypes
<1>7. SendTypes /\ MissedTypes
  BY Facts DEF Init, SendTypes, Waiting, MissedTypes
<1>8. PageTypes
  BY <1>1 DEF Init, PageTypes, Page, Blank
<1>9. TypeOK
  BY <1>2, <1>3, <1>4, <1>5, <1>6, <1>7, <1>8, Types
<1>10. \A c \in Clients : topics[c] = {} /\ sub[c] = None /\ conn[c] = "off" /\ missed[c] = {"queue", "history"}
  BY DEF Init
<1>11. Asked
  BY <1>10 DEF Asked
<1>12. pendingQ = None /\ pending = EmptyTable /\ events = <<>> /\ ~gap
  BY DEF Init
<1>13. TableWaits
  BY <1>12 DEF TableWaits
<1>14. EventsTell
  <2>1. \A r \in Rows : Told(records[r], r)
    BY <1>12, NoFrames DEF Told
  <2> QED
    BY <1>12, <2>1 DEF EventsTell
<1>15. \A c \in Clients : QueueLands(c) /\ HistoryLands(c)
  BY <1>10 DEF QueueLands, HistoryLands
<1> QED
  BY <1>9, <1>11, <1>13, <1>14, <1>15, Zenon DEF LiveInv

\* Every step keeps the invariant.
LEMMA LiveNext == LiveInv /\ [Next]_vars => LiveInv'
<1> SUFFICES ASSUME LiveInv, [Next]_vars PROVE LiveInv'
  OBVIOUS
<1>1. CASE UNCHANGED vars
  <2>1. /\ UNCHANGED server /\ UNCHANGED mailbox /\ UNCHANGED loop /\ UNCHANGED doors
        /\ UNCHANGED session /\ UNCHANGED send /\ UNCHANGED page /\ UNCHANGED missed
    BY <1>1, Zenon DEF vars
  <2>2. /\ Asked /\ TableWaits /\ EventsTell
        /\ \A c \in Clients : QueueLands(c) /\ HistoryLands(c)
        /\ ServerTypes /\ MailTypes /\ LoopTypes /\ DoorTypes /\ SessionTypes
        /\ SendTypes /\ PageTypes /\ MissedTypes
    BY Parts
  <2>3. TypeOK'
    BY <2>1, <2>2, Untouched, TypesNext, Zenon
  <2>4. UNCHANGED <<table, records, untold, pendingQ, events, gap, astray, conn, topics, sub>>
    BY <2>1, Zenon DEF server, mailbox, loop, session
  <2>5. Asked' /\ TableWaits' /\ EventsTell'
    BY <2>1, <2>2, <2>4 DEF Asked, TableWaits, EventsTell, Told, SameStatus
  <2>6. ASSUME NEW c \in Clients
        PROVE  QueueLands(c)' /\ HistoryLands(c)'
    BY <2>1, <2>2, <2>4, Apart
  <2> QED
    BY <2>3, <2>5, <2>6, Zenon DEF LiveInv
<1>2. ASSUME NEW i \in Items, NotifyQueue(i) \/ NotifyProgress(i) PROVE LiveInv'
  BY <1>2, NotifyQueueKeeps, NotifyProgressKeeps
<1>3. CASE Count \/ NotifyHistory \/ LoadHistory
  BY <1>3, CountKeeps, NotifyHistoryKeeps, LoadHistoryKeeps
<1>4. CASE HubStep
  BY <1>4, DoorsKeep, HubEventKeeps, FlushProgressKeeps, FlushQueueKeeps, FlushStatsKeeps DEF HubStep
<1>5. ASSUME NEW c \in Clients,
             Connect(c) \/ Disconnect(c) \/ HandleSub(c) \/ Unsub(c) \/ SendSnapshot(c) \/ Write(c)
      PROVE  LiveInv'
  BY <1>5, ConnectKeeps, DisconnectKeeps, HandleSubKeeps, UnsubKeeps, SendSnapshotKeeps, WriteKeeps
<1> QED
  BY <1>1, <1>2, <1>3, <1>4, <1>5 DEF Next

\* The invariant holds of every state of a run.
THEOREM LiveInvariant == Spec => []LiveInv
BY LiveInit, LiveNext, PTL DEF Spec

\* TypeOK: no buffer of the hub or of a client is ever over its capacity, and
\* only frames of the known kinds are on their way.
THEOREM TypeCorrect == Spec => []TypeOK
<1>1. LiveInv => TypeOK
  BY DEF LiveInv
<1> QED
  BY <1>1, LiveInvariant, PTL

\* TableShown: a page that follows the queue, to which nothing is on its way
\* any more, shows every item with its status, but for the rows of progress that
\* was sent after the last table in another status.
THEOREM TableIsShown == Spec => []TableShown
<1>1. LiveInv => TableShown
  <2> SUFFICES ASSUME LiveInv, NEW c \in Clients, Quiet(c), Follows(c, "queue"), NEW i \in Items \ astray
               PROVE  Status(page[c].queue[i]) = Status(table[i])
    BY DEF TableShown
  <2>1. conn[c] = "on" /\ sub[c] = None /\ send[c] = <<>> /\ pendingQ = None
    BY DEF Quiet
  <2>2. Lands(Status(page[c].queue[i]), QueueMarks(<<>>, i), Status(table[i]))
    BY <2>1, Parts DEF QueueLands, Serving
  <2> QED
    BY <2>2, NoFrames
<1> QED
  BY <1>1, LiveInvariant, PTL

\* HistoryShown: a page that follows the history, to which nothing is on its
\* way any more, shows every row in its last version, but for the rows that
\* changed without a frame.
THEOREM HistoryIsShown == Spec => []HistoryShown
<1>1. LiveInv => HistoryShown
  <2> SUFFICES ASSUME LiveInv, NEW c \in Clients, Quiet(c), Follows(c, "history"), NEW r \in Rows \ untold
               PROVE  page[c].history[r] = records[r]
    BY DEF HistoryShown
  <2>1. conn[c] = "on" /\ sub[c] = None /\ send[c] = <<>> /\ events = <<>>
    BY DEF Quiet
  <2>2. PICK w \in Nat : Lands(page[c].history[r], HistoryMarks(<<>>, r), w) /\ Told(w, r)
    BY <2>1, Parts DEF HistoryLands, Serving
  <2>3. Lands(w, HistoryMarks(<<>>, r), records[r])
    BY <2>1, <2>2 DEF Told
  <2>4. \A d, v : Lands(d, HistoryMarks(<<>>, r), v) => d = v
    BY NoFrames, Zenon
  <2>5. page[c].history[r] = w /\ w = records[r]
    BY <2>2, <2>3, <2>4
  <2> QED
    BY <2>5
<1> QED
  BY <1>1, LiveInvariant, PTL
=============================================================================
