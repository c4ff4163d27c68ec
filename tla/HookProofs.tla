------------------------------ MODULE HookProofs ------------------------------
(***************************************************************************)
(* Theorems about HookDelivery, for any titles, hooks and queue: the count *)
(* of hooks under way is exact, no wake of the main loop is lost, and a    *)
(* delivery edits the message of its own extraction and posts it once.     *)
(***************************************************************************)
EXTENDS HookDelivery, Integers, FiniteSetTheorems, SequenceTheorems, WellFoundedInduction, TLAPS

-----------------------------------------------------------------------------
(* The inductive invariant.  f names the title of every extraction that    *)
(* ever was.                                                               *)

\* m is no message, or one in chat c of hook h for an extraction of title id.
Fits(c, f, id, h, m) ==
  m # 0 => m \in DOMAIN c /\ c[m].hook = h /\ f[c[m].of] = id

\* m is no message that this process posted, or one for extraction live.
Own(c, live, m) == m # 0 /\ c[m].here => c[m].of = live

\* A row of title id.  It may hold a late id of another extraction of it.
RowKin(c, f, id, x) ==
  x # None => /\ x.live \in DOMAIN f /\ f[x.live] = id
              /\ \A h \in Editing : Fits(c, f, id, h, x.msgs[h])

\* An item or cache of title id.
Kin(c, f, id, x) ==
  RowKin(c, f, id, x) /\ (x # None => \A h \in Editing : Own(c, x.live, x.msgs[h]))

\* While extraction live is the item x, the cache s is its own.
Seeded(x, s, live) == x # None /\ x.live = live => OwnedBy(s, live)

\* A delivery, or a message id to record, of items x with caches s.
Known(f, x, s, d) == d.live \in DOMAIN f /\ f[d.live] = d.id /\ Seeded(x[d.id], s[d.id], d.live)

\* A message id e to record.
Saving(c, f, x, s, e) ==
  Known(f, x, s, e) /\ Fits(c, f, e.id, e.hook, e.msg) /\ Own(c, e.live, e.msg)

Stores(f) ==
  /\ \A m \in DOMAIN chat : chat[m].of \in DOMAIN f
  /\ \A id \in Ids :
       Kin(chat, f, id, map[id]) /\ RowKin(chat, f, id, records[id]) /\ Kin(chat, f, id, hookMsgs[id])
  /\ \A k \in DOMAIN pendingHooks : map[pendingHooks[k].id] = pendingHooks[k].item

Lists(f) ==
  /\ \A k \in DOMAIN sending : Known(f, map, hookMsgs, sending[k])
  /\ \A k \in DOMAIN queue : Known(f, map, hookMsgs, queue[k])
  /\ \A k \in DOMAIN hookMsgSaves : Saving(chat, f, map, hookMsgs, hookMsgSaves[k])

\* The delivery under way: what it edits or saves is its own, and what it
\* edits is what the cache holds.
UnderWay(f) ==
  job # None =>
    /\ Known(f, map, hookMsgs, job.of)
    /\ job.at \in {"edit", "save"} =>
         Fits(chat, f, job.of.id, job.of.hook, job.msg) /\ Own(chat, job.of.live, job.msg)
    /\ job.at = "edit" /\ map[job.of.id] # None /\ map[job.of.id].live = job.of.live =>
         hookMsgs[job.of.id].msgs[job.of.hook] = job.msg

\* Message m of chat c is there and its id got back.
Reached(c, m) == c[m].known /\ c[m].there

\* The delivery j is of the extraction and hook of message m, at step st.
Busy(j, c, st, m) ==
  j # None /\ j.at = st /\ j.of.live = c[m].of /\ j.of.hook = c[m].hook

\* The next delivery for an item x with the cache s finds message m, or the
\* delivery j under way is about to save it.
Finds(j, c, x, s, m) ==
  /\ ~Busy(j, c, "post", m)
  /\ Busy(j, c, "save", m) => j.msg = m
  /\ ~Busy(j, c, "save", m) /\ OwnedBy(s, c[m].of) => s.msgs[c[m].hook] = m
  /\ ~Busy(j, c, "save", m) /\ ~OwnedBy(s, c[m].of) => x.msgs[c[m].hook] = m

\* The id of a message that is there is where the next delivery finds it.
Found ==
  \A m \in DOMAIN chat : \A id \in Ids :
    Reached(chat, m) /\ map[id] # None /\ map[id].live = chat[m].of =>
      Finds(job, chat, map[id], hookMsgs[id], m)

Kinship(f) == Stores(f) /\ Lists(f) /\ UnderWay(f)

\* Only a hook that edits looks up, edits or saves a message.
JobShape ==
  job # None =>
    /\ job.at \in {"lookup", "edit", "save"} => job.of.hook \in Editing
    /\ job.at \in {"edit", "save"} => job.msg # 0

Base == TypeOK /\ Len(chat) <= MaxChat /\ JobShape /\ InFlightExact /\ NoLostWake

HookInv == Base /\ (\E f \in [1..lives -> Ids] : Kinship(f)) /\ Found

-----------------------------------------------------------------------------
(* Induction.                                                              *)

\* A set of naturals that is not empty has a least element.
LEMMA Least ==
  ASSUME NEW T \in SUBSET Nat, T # {}
  PROVE  \E n \in T : \A m \in T : n <= m
<1> DEFINE D == {0..n : n \in T}
<1>1. D \subseteq FiniteSubsetsOf(Nat) /\ D # {}
  <2>1. \A n \in Nat : IsFiniteSet(0..n) /\ 0..n \in SUBSET Nat
    BY FS_Interval
  <2> QED
    BY <2>1, Zenon DEF FiniteSubsetsOf
<1>2. IsWellFoundedOn(StrictSubsetOrdering(Nat), FiniteSubsetsOf(Nat))
  BY FS_StrictSubsetOrderingWellFounded
<1>3. \E x \in D : \A y \in D : ~(<<y, x>> \in StrictSubsetOrdering(Nat))
  <2> HIDE DEF D
  <2> QED
    BY <1>1, <1>2, WFMin
<1>4. PICK n \in T : \A m \in T : ~(<<0..m, 0..n>> \in StrictSubsetOrdering(Nat))
  BY <1>3
<1>5. \A m \in T : n <= m
  <2> SUFFICES ASSUME NEW m \in T, m < n PROVE FALSE
    OBVIOUS
  <2>1. 0..m \in SUBSET Nat /\ 0..n \in SUBSET Nat /\ 0..m \subseteq 0..n /\ 0..m # 0..n
    OBVIOUS
  <2>2. <<0..m, 0..n>> \in StrictSubsetOrdering(Nat)
    BY <2>1, Zenon DEF StrictSubsetOrdering
  <2> QED
    BY <2>2, <1>4
<1> QED
  BY <1>5

\* Induction over 0..n: a set that holds 0 and is closed under the next number
\* holds all of them.
LEMMA UpTo ==
  ASSUME NEW n \in Nat, NEW P \in SUBSET (0..n),
         0 \in P, \A k \in 1..n : k - 1 \in P => k \in P
  PROVE  P = 0..n
<1> DEFINE T == (0..n) \ P
<1>1. T \in SUBSET Nat
  OBVIOUS
<1>2. SUFFICES ASSUME T # {} PROVE FALSE
  OBVIOUS
<1>3. PICK k \in T : \A m \in T : k <= m
  BY <1>1, <1>2, Least
<1>4. k \in 1..n /\ k - 1 \notin T
  BY <1>3
<1> QED
  BY <1>3, <1>4

-----------------------------------------------------------------------------
(* Folds: the last of as many values as a sequence has elements, each made *)
(* of the one before.                                                      *)

\* The maximum of a set of positive numbers.
LEMMA MaxIn ==
  ASSUME NEW n \in Nat, NEW s \in SUBSET (1..n), s # {}
  PROVE  Max(s) \in s /\ \A y \in s : y <= Max(s)
<1> DEFINE T == {n - x : x \in s}
<1>1. \A x \in s : x \in Int /\ n - x \in Nat /\ n - x \in T
  OBVIOUS
<1>2. T \in SUBSET Nat /\ T # {}
  BY <1>1
<1>3. PICK m \in T : \A y \in T : m <= y
  <2> HIDE DEF T
  <2> QED
    BY <1>2, Least
<1>4. PICK x \in s : m = n - x
  BY <1>3
<1>5. \A y \in s : x >= y
  <2> TAKE y \in s
  <2>1. n - y \in T /\ x \in Int /\ y \in Int
    BY <1>1
  <2>2. n - x <= n - y
    BY <2>1, <1>3, <1>4
  <2> QED
    BY <2>1, <2>2
<1>6. Max(s) \in s /\ \A y \in s : Max(s) >= y
  BY <1>5, Zenon DEF Max
<1> QED
  BY <1>1, <1>6

\* The maximum of a set that holds the upper end.
LEMMA MaxOf ==
  ASSUME NEW n \in Nat, NEW s \in SUBSET (1..n), n \in s
  PROVE  Max(s) = n
<1>1. Max(s) \in s /\ \A y \in s : y <= Max(s)
  BY MaxIn
<1>2. Max(s) \in 1..n /\ n <= Max(s)
  BY <1>1
<1> QED
  BY <1>2

\* The interval from 1 without its upper end.
LEMMA Interval ==
  ASSUME NEW k \in Nat \ {0}
  PROVE  Max(1..k) = k /\ 1..k # {} /\ (1..k) \ {k} = 1..(k-1)
<1>1. Max(1..k) = k /\ 1..k # {}
  BY MaxOf
<1>2. (1..k) \ {k} = 1..(k-1)
  OBVIOUS
<1> QED
  BY <1>1, <1>2

\* g holds the fold of every set of indices up to n: the step F[k] of the
\* largest index k is taken last.
Folding(g, n, b, F) ==
  \A s \in SUBSET (1..n) : g[s] = IF s = {} THEN b ELSE F[Max(s)][g[s \ {Max(s)}]]

\* h holds the fold of every prefix.
PrefixFolds(h, n, b, F) ==
  h[0] = b /\ \A k \in 1..n : h[k] = F[k][h[k-1]]

\* The function that MapThenFoldSet chooses exists when each step keeps to S.
LEMMA FoldExists ==
  ASSUME NEW n \in Nat, NEW S, NEW b \in S, NEW F \in [1..n -> [S -> S]]
  PROVE  \E g \in [SUBSET (1..n) -> S] : Folding(g, n, b, F)
<1> USE DEF Folding
<1> DEFINE Good(k, g) == g \in [SUBSET (1..k) -> S] /\ Folding(g, k, b, F)
    P == {k \in 0..n : \E g : Good(k, g)}
<1>1. 0 \in P
  <2>1. SUBSET (1..0) = {{}}
    OBVIOUS
  <2>2. Good(0, [s \in {{}} |-> b])
    BY <2>1
  <2> HIDE DEF Good
  <2> QED
    BY <2>2
<1>2. ASSUME NEW k \in 1..n, k - 1 \in P PROVE k \in P
  <2>1. PICK g : Good(k - 1, g)
    BY <1>2
  <2> DEFINE h == [s \in SUBSET (1..k) |->
               IF k \in s THEN F[k][g[s \ {k}]] ELSE g[s]]
  <2>2. \A s \in SUBSET (1..k) :
          /\ k \in s => s \ {k} \in SUBSET (1..(k-1)) /\ k \notin s \ {k} /\ s \ {k} \in SUBSET (1..k)
          /\ k \notin s => s \in SUBSET (1..(k-1))
    OBVIOUS
  <2>3. h \in [SUBSET (1..k) -> S]
    <3>1. ASSUME NEW s \in SUBSET (1..k) PROVE (IF k \in s THEN F[k][g[s \ {k}]] ELSE g[s]) \in S
      <4>1. CASE k \in s
        <5>1. g[s \ {k}] \in S
          BY <2>1, <2>2, <4>1
        <5> QED
          BY <5>1, <4>1
      <4>2. CASE k \notin s
        BY <2>1, <2>2, <4>2
      <4> QED
        BY <4>1, <4>2
    <3> QED
      BY <3>1
  <2>4. ASSUME NEW s \in SUBSET (1..k)
        PROVE  h[s] = IF s = {} THEN b ELSE F[Max(s)][h[s \ {Max(s)}]]
    <3>1. CASE k \in s
      <4>1. Max(s) = k
        BY <3>1, MaxOf
      <4>2. h[s \ {k}] = g[s \ {k}]
        BY <2>2, <3>1
      <4> QED
        BY <3>1, <4>1, <4>2
    <3>2. CASE k \notin s /\ s # {}
      <4>1. s \in SUBSET (1..(k-1))
        BY <2>2, <3>2
      <4>2. Max(s) \in s
        <5>1. k - 1 \in Nat
          OBVIOUS
        <5> QED
          BY <4>1, <3>2, <5>1, MaxIn
      <4>3. s \ {Max(s)} \in SUBSET (1..(k-1)) /\ k \notin s \ {Max(s)} /\ s \ {Max(s)} \in SUBSET (1..k)
        BY <4>1, <3>2
      <4>4. h[s] = g[s] /\ h[s \ {Max(s)}] = g[s \ {Max(s)}]
        BY <4>3, <3>2
      <4> QED
        BY <2>1, <4>1, <4>4, <3>2
    <3>3. CASE s = {}
      BY <2>1, <3>3
    <3> QED
      BY <3>1, <3>2, <3>3
  <2> HIDE DEF h
  <2>5. Good(k, h)
    BY <2>3, <2>4
  <2> HIDE DEF Good
  <2> QED
    BY <2>5
<1>3. P = 0..n
  <2> HIDE DEF Good
  <2> QED
    BY <1>1, <1>2, UpTo
<1>4. n \in P
  <2>1. n \in 0..n
    OBVIOUS
  <2> HIDE DEF P, Good
  <2> QED
    BY <1>3, <2>1
<1> QED
  BY <1>4

\* The values of a fold, one for every prefix, when g is a function that
\* MapThenFoldSet may choose and a step from a value in S is F's.
LEMMA FoldRuns ==
  ASSUME NEW n \in Nat, NEW S, NEW b \in S, NEW F \in [1..n -> [S -> S]], NEW g,
         g[{}] = b,
         \A k \in 1..n : g[1..(k-1)] \in S => g[1..k] = F[k][g[1..(k-1)]]
  PROVE  \E h \in [0..n -> S] : h[n] = g[1..n] /\ PrefixFolds(h, n, b, F)
<1> USE DEF PrefixFolds
<1> DEFINE P == {k \in 0..n : g[1..k] \in S}
<1>1. 0 \in P
  <2>1. 1..0 = {}
    OBVIOUS
  <2> QED
    BY <2>1
<1>2. \A k \in 1..n : k - 1 \in P => k \in P
  OBVIOUS
<1>3. P = 0..n
  <2>1. P \in SUBSET (0..n)
    OBVIOUS
  <2> HIDE DEF P
  <2> QED
    BY <1>1, <1>2, <2>1, UpTo
<1> DEFINE h == [k \in 0..n |-> g[1..k]]
<1>4. h \in [0..n -> S]
  BY <1>3
<1>5. h[0] = b
  <2>1. 1..0 = {} /\ 0 \in 0..n
    OBVIOUS
  <2> QED
    BY <2>1
<1>6. h[n] = g[1..n] /\ \A k \in 1..n : h[k] = F[k][h[k-1]]
  <2>1. n \in 0..n /\ \A k \in 1..n : k \in 0..n /\ k - 1 \in 0..n
    OBVIOUS
  <2>2. \A k \in 1..n : g[1..(k-1)] \in S
    BY <1>3, <2>1
  <2> QED
    BY <2>1, <2>2
<1> QED
  BY <1>4, <1>5, <1>6

-----------------------------------------------------------------------------
(* Facts about the constants and the folds.                                *)

\* Bounds are natural numbers, and None is no item, delivery or cache.
LEMMA Facts ==
  /\ HookBuf \in Nat /\ MaxLives \in Nat /\ MaxChanges \in Nat /\ MaxChat \in Nat
  /\ Editing \subseteq Hooks /\ HookList \in Seq(Hooks)
  /\ None \notin Item /\ None \notin Job /\ None \notin Cache
BY HookAssumption, NoneAssumption DEF HookAssumption

\* What a drain starts from and ends with.
MapRows == [map : [Ids -> Item \cup {None}], records : [Ids -> Item \cup {None}]]

\* A fold of failures stays in a set of states that each failure stays in.
LEMMA FoldFails ==
  ASSUME NEW S, NEW b \in S, NEW xs \in Seq(Ids),
         \A x \in S : \A e \in Ids : RecordHookFail(x, e) \in S
  PROVE  FoldLeft(RecordHookFail, b, xs) \in S
<1> DEFINE n == Len(xs)
      F == [k \in 1..n |-> [x \in S |-> RecordHookFail(x, xs[k])]]
      Step(g) == [s \in SUBSET DOMAIN xs |->
                    IF s = {} THEN b ELSE RecordHookFail(g[s \ {Max(s)}], xs[Max(s)])]
      it == CHOOSE g : g = Step(g)
<1>1. FoldLeft(RecordHookFail, b, xs) = it[DOMAIN xs]
  BY Zenon DEF FoldLeft, MapThenFoldSet
<1>2. n \in Nat /\ DOMAIN xs = 1..n /\ \A k \in 1..n : xs[k] \in Ids
  OBVIOUS
<1>3. F \in [1..n -> [S -> S]]
  BY <1>2
<1>4. \E g : g = Step(g)
  <2>1. PICK g \in [SUBSET (1..n) -> S] : Folding(g, n, b, F)
    <3> HIDE DEF F, n, Step
    <3> QED
      BY <1>2, <1>3, FoldExists
  <2>2. \A s \in SUBSET (1..n) : s # {} =>
           F[Max(s)][g[s \ {Max(s)}]] = RecordHookFail(g[s \ {Max(s)}], xs[Max(s)])
    <3>1. \A s \in SUBSET (1..n) : s # {} => Max(s) \in 1..n /\ g[s \ {Max(s)}] \in S
      BY <1>2, MaxIn
    <3> HIDE DEF n
    <3> QED
      BY <3>1
  <2>3. \A s \in SUBSET (1..n) : g[s] = Step(g)[s]
    BY <2>1, <2>2, <1>2 DEF Folding
  <2>4. g = Step(g)
    BY <2>3, <1>2
  <2> QED
    BY <2>4
<1>5. it = Step(it)
  <2> HIDE DEF Step
  <2> QED
    BY <1>4, Zenon
<1>6. it[{}] = b
  BY <1>5
<1>7. ASSUME NEW k \in 1..n, it[1..(k-1)] \in S
      PROVE  it[1..k] = F[k][it[1..(k-1)]]
  <2>1. Max(1..k) = k /\ (1..k) \ {k} = 1..(k-1) /\ 1..k \in SUBSET DOMAIN xs /\ 1..k # {}
    <3>1. 1..k \in SUBSET DOMAIN xs
      BY <1>2
    <3>2. k \in Nat \ {0}
      BY <1>2
    <3> HIDE DEF n
    <3> QED
      BY <3>1, <3>2, Interval
  <2>2. it[1..k] = RecordHookFail(it[1..(k-1)], xs[k])
    <3> HIDE DEF it
    <3> QED
      BY <1>5, <2>1
  <2> QED
    BY <1>7, <2>2
<1>8. PICK h \in [0..n -> S] : h[n] = it[1..n] /\ PrefixFolds(h, n, b, F)
  <2> HIDE DEF F, it, n, Step
  <2> QED
    BY <1>2, <1>3, <1>6, <1>7, FoldRuns
<1>9. h[n] \in S
  BY <1>2, <1>8
<1> QED
  BY <1>1, <1>2, <1>8, <1>9

\* A fold of message ids likewise.
LEMMA FoldSaves ==
  ASSUME NEW S, NEW E, NEW b \in S, NEW xs \in Seq(E),
         \A x \in S : \A e \in E : SaveHookMessage(x, e) \in S
  PROVE  FoldLeft(SaveHookMessage, b, xs) \in S
<1> DEFINE n == Len(xs)
      F == [k \in 1..n |-> [x \in S |-> SaveHookMessage(x, xs[k])]]
      Step(g) == [s \in SUBSET DOMAIN xs |->
                    IF s = {} THEN b ELSE SaveHookMessage(g[s \ {Max(s)}], xs[Max(s)])]
      it == CHOOSE g : g = Step(g)
<1>1. FoldLeft(SaveHookMessage, b, xs) = it[DOMAIN xs]
  BY Zenon DEF FoldLeft, MapThenFoldSet
<1>2. n \in Nat /\ DOMAIN xs = 1..n /\ \A k \in 1..n : xs[k] \in E
  OBVIOUS
<1>3. F \in [1..n -> [S -> S]]
  BY <1>2
<1>4. \E g : g = Step(g)
  <2>1. PICK g \in [SUBSET (1..n) -> S] : Folding(g, n, b, F)
    <3> HIDE DEF F, n, Step
    <3> QED
      BY <1>2, <1>3, FoldExists
  <2>2. \A s \in SUBSET (1..n) : s # {} =>
           F[Max(s)][g[s \ {Max(s)}]] = SaveHookMessage(g[s \ {Max(s)}], xs[Max(s)])
    <3>1. \A s \in SUBSET (1..n) : s # {} => Max(s) \in 1..n /\ g[s \ {Max(s)}] \in S
      BY <1>2, MaxIn
    <3> HIDE DEF n
    <3> QED
      BY <3>1
  <2>3. \A s \in SUBSET (1..n) : g[s] = Step(g)[s]
    BY <2>1, <2>2, <1>2 DEF Folding
  <2>4. g = Step(g)
    BY <2>3, <1>2
  <2> QED
    BY <2>4
<1>5. it = Step(it)
  <2> HIDE DEF Step
  <2> QED
    BY <1>4, Zenon
<1>6. it[{}] = b
  BY <1>5
<1>7. ASSUME NEW k \in 1..n, it[1..(k-1)] \in S
      PROVE  it[1..k] = F[k][it[1..(k-1)]]
  <2>1. Max(1..k) = k /\ (1..k) \ {k} = 1..(k-1) /\ 1..k \in SUBSET DOMAIN xs /\ 1..k # {}
    <3>1. 1..k \in SUBSET DOMAIN xs
      BY <1>2
    <3>2. k \in Nat \ {0}
      BY <1>2
    <3> HIDE DEF n
    <3> QED
      BY <3>1, <3>2, Interval
  <2>2. it[1..k] = SaveHookMessage(it[1..(k-1)], xs[k])
    <3> HIDE DEF it
    <3> QED
      BY <1>5, <2>1
  <2> QED
    BY <1>7, <2>2
<1>8. PICK h \in [0..n -> S] : h[n] = it[1..n] /\ PrefixFolds(h, n, b, F)
  <2> HIDE DEF F, it, n, Step
  <2> QED
    BY <1>2, <1>3, <1>6, <1>7, FoldRuns
<1>9. h[n] \in S
  BY <1>2, <1>8
<1> QED
  BY <1>1, <1>2, <1>8, <1>9

\* The deliveries of a status change likewise.
LEMMA FoldFires ==
  ASSUME NEW p, NEW S, <<>> \in S,
         \A x \in S : \A e \in Hooks : Fire(p, x, e) \in S
  PROVE  Deliveries(p) \in S
<1> DEFINE b == <<>>
      xs == HookList
      n == Len(xs)
      F == [k \in 1..n |-> [x \in S |-> Fire(p, x, xs[k])]]
      Step(g) == [s \in SUBSET DOMAIN xs |->
                    IF s = {} THEN b ELSE Fire(p, g[s \ {Max(s)}], xs[Max(s)])]
      it == CHOOSE g : g = Step(g)
<1>1. Deliveries(p) = it[DOMAIN xs]
  BY Zenon DEF Deliveries, FoldLeft, MapThenFoldSet
<1>2. n \in Nat /\ DOMAIN xs = 1..n /\ \A k \in 1..n : xs[k] \in Hooks
  BY HookAssumption DEF HookAssumption
<1>3. F \in [1..n -> [S -> S]]
  BY <1>2
<1>4. \E g : g = Step(g)
  <2>1. PICK g \in [SUBSET (1..n) -> S] : Folding(g, n, b, F)
    <3> HIDE DEF F, n, Step
    <3> QED
      BY <1>2, <1>3, FoldExists
  <2>2. \A s \in SUBSET (1..n) : s # {} =>
           F[Max(s)][g[s \ {Max(s)}]] = Fire(p, g[s \ {Max(s)}], xs[Max(s)])
    <3>1. \A s \in SUBSET (1..n) : s # {} => Max(s) \in 1..n /\ g[s \ {Max(s)}] \in S
      BY <1>2, MaxIn
    <3> HIDE DEF n
    <3> QED
      BY <3>1
  <2>3. \A s \in SUBSET (1..n) : g[s] = Step(g)[s]
    BY <2>1, <2>2, <1>2 DEF Folding
  <2>4. g = Step(g)
    BY <2>3, <1>2
  <2> QED
    BY <2>4
<1>5. it = Step(it)
  <2> HIDE DEF Step
  <2> QED
    BY <1>4, Zenon
<1>6. it[{}] = b
  BY <1>5
<1>7. ASSUME NEW k \in 1..n, it[1..(k-1)] \in S
      PROVE  it[1..k] = F[k][it[1..(k-1)]]
  <2>1. Max(1..k) = k /\ (1..k) \ {k} = 1..(k-1) /\ 1..k \in SUBSET DOMAIN xs /\ 1..k # {}
    <3>1. 1..k \in SUBSET DOMAIN xs
      BY <1>2
    <3>2. k \in Nat \ {0}
      BY <1>2
    <3> HIDE DEF n
    <3> QED
      BY <3>1, <3>2, Interval
  <2>2. it[1..k] = Fire(p, it[1..(k-1)], xs[k])
    <3> HIDE DEF it
    <3> QED
      BY <1>5, <2>1
  <2> QED
    BY <1>7, <2>2
<1>8. PICK h \in [0..n -> S] : h[n] = it[1..n] /\ PrefixFolds(h, n, b, F)
  <2> HIDE DEF F, it, n, Step
  <2> QED
    BY <1>2, <1>3, <1>6, <1>7, FoldRuns
<1>9. h[n] \in S
  BY <1>2, <1>8
<1> QED
  BY <1>1, <1>2, <1>8, <1>9

-----------------------------------------------------------------------------
(* Types.                                                                  *)

\* A sequence is its head and its tail.
LEMMA HeadTail ==
  ASSUME NEW S, NEW s \in Seq(S), s # <<>>
  PROVE  /\ Head(s) \in S /\ Tail(s) \in Seq(S) /\ Len(Tail(s)) = Len(s) - 1
         /\ Len(s) \in Nat \ {0} /\ 1 \in DOMAIN s /\ Head(s) = s[1]
         /\ \A i \in DOMAIN Tail(s) : i + 1 \in DOMAIN s /\ Tail(s)[i] = s[i + 1]
OBVIOUS

\* The parts of a sequence with one more at its end.
LEMMA Appended ==
  ASSUME NEW S, NEW s \in Seq(S), NEW e \in S
  PROVE  /\ Append(s, e) \in Seq(S) /\ Len(Append(s, e)) = Len(s) + 1
         /\ \A i \in DOMAIN s : i \in DOMAIN Append(s, e) /\ Append(s, e)[i] = s[i]
         /\ \A i \in DOMAIN Append(s, e) : Append(s, e)[i] = e \/ (i \in DOMAIN s /\ Append(s, e)[i] = s[i])
         /\ Len(s) + 1 \in DOMAIN Append(s, e) /\ Append(s, e)[Len(s) + 1] = e
OBVIOUS

\* An item with one field changed.
LEMMA ItemFields ==
  ASSUME NEW x \in Item
  PROVE  /\ \A st \in Statuses : LET y == [x EXCEPT !.status = st] IN
              y \in Item /\ y.live = x.live /\ y.status = st /\ y.msgs = x.msgs
         /\ LET y == [x EXCEPT !.fails = @ + 1] IN
              y \in Item /\ y.live = x.live /\ y.status = x.status /\ y.msgs = x.msgs
         /\ \A h \in Editing : \A m \in 0..MaxChat : LET y == [x EXCEPT !.msgs[h] = m] IN
              /\ y \in Item /\ y.live = x.live /\ y.status = x.status
              /\ y.msgs = [x.msgs EXCEPT ![h] = m]
<1>1. ASSUME NEW st \in Statuses
      PROVE  LET y == [x EXCEPT !.status = st] IN
              y \in Item /\ y.live = x.live /\ y.status = st /\ y.msgs = x.msgs
  BY DEF Item
<1>2. LET y == [x EXCEPT !.fails = @ + 1] IN
        y \in Item /\ y.live = x.live /\ y.status = x.status /\ y.msgs = x.msgs
  BY DEF Item
<1>3. ASSUME NEW h \in Editing, NEW m \in 0..MaxChat
      PROVE  LET y == [x EXCEPT !.msgs[h] = m] IN
              /\ y \in Item /\ y.live = x.live /\ y.status = x.status
              /\ y.msgs = [x.msgs EXCEPT ![h] = m]
  BY DEF Item, MessageIds
<1> QED
  BY <1>1, <1>2, <1>3

\* The delivery under way at another step.
JobTo(st) == [job EXCEPT !.at = st]

LEMMA JobAt ==
  ASSUME job \in Job
  PROVE  \A st \in {"edit", "post", "save", "saved", "failed", "reported", "done"} :
           /\ JobTo(st) \in Job /\ JobTo(st) # None
           /\ JobTo(st).of = job.of /\ JobTo(st).at = st /\ JobTo(st).msg = job.msg
BY Facts DEF Job, JobTo, Steps

\* To takes it there.
LEMMA ToStep == \A st : To(st) => job' = JobTo(st)
BY DEF To, JobTo

\* A message that is edited.
LEMMA MessageEdited ==
  ASSUME NEW m \in Message, NEW c \in 1..MaxChanges
  PROVE  /\ [m EXCEPT !.change = c] \in Message
         /\ LET k == [m EXCEPT !.change = c] IN
              k.of = m.of /\ k.hook = m.hook /\ k.there = m.there /\ k.known = m.known /\ k.here = m.here
<1>1. [m EXCEPT !.change = c] =
        [of |-> m.of, hook |-> m.hook, change |-> c, there |-> m.there, known |-> m.known, here |-> m.here]
  BY DEF Message
<1> QED
  BY <1>1 DEF Message

\* A message that somebody deletes.
LEMMA MessageGone ==
  ASSUME NEW m \in Message, NEW b \in BOOLEAN, ~b
  PROVE  /\ [m EXCEPT !.there = b] \in Message
         /\ LET k == [m EXCEPT !.there = b] IN
              k.of = m.of /\ k.hook = m.hook /\ ~k.there /\ k.known = m.known /\ k.here = m.here
<1>1. [m EXCEPT !.there = b] =
        [of |-> m.of, hook |-> m.hook, change |-> m.change, there |-> b, known |-> m.known, here |-> m.here]
  BY DEF Message
<1> QED
  BY <1>1 DEF Message

\* Recording an item keeps the rows' type.
LEMMA RecordType ==
  ASSUME NEW id \in Ids, NEW x \in Item, records \in [Ids -> Item \cup {None}]
  PROVE  Record(id, x) \in [Ids -> Item \cup {None}]
BY DEF Record

\* So does a failed hook of an item and its row.
LEMMA RecordHookFailType ==
  ASSUME NEW s \in MapRows, NEW id \in Ids
  PROVE  RecordHookFail(s, id) \in MapRows
<1>1. s.map[id] \in Item \cup {None} /\ s.records[id] \in Item \cup {None}
  BY DEF MapRows
<1> DEFINE bumped == IF s.map[id] = None THEN None ELSE [s.map[id] EXCEPT !.fails = @ + 1]
           row == IF bumped # None /\ Persisted(bumped) THEN bumped
                  ELSE IF s.records[id] = None THEN None
                  ELSE [s.records[id] EXCEPT !.fails = @ + 1]
<1>2. bumped \in Item \cup {None}
  BY <1>1, ItemFields
<1>3. row \in Item \cup {None}
  <2> HIDE DEF bumped
  <2> QED
    BY <1>1, <1>2, ItemFields
<1>4. RecordHookFail(s, id) =
        [map |-> [s.map EXCEPT ![id] = bumped], records |-> [s.records EXCEPT ![id] = row]]
  BY DEF RecordHookFail
<1> HIDE DEF bumped, row
<1> QED
  BY <1>2, <1>3, <1>4 DEF MapRows

\* And a message id that is saved.
LEMMA SaveHookMessageType ==
  ASSUME NEW s \in MapRows, NEW e \in MsgSave
  PROVE  SaveHookMessage(s, e) \in MapRows
<1> DEFINE id == e.id
           item == IF s.map[id] = None THEN None ELSE [s.map[id] EXCEPT !.msgs[e.hook] = e.msg]
           row == IF s.records[id] = None THEN None ELSE [s.records[id] EXCEPT !.msgs[e.hook] = e.msg]
<1>1. id \in Ids /\ e.hook \in Editing /\ e.msg \in 0..MaxChat
  BY Facts DEF MsgSave
<1>2. s.map[id] \in Item \cup {None} /\ s.records[id] \in Item \cup {None}
  BY <1>1 DEF MapRows
<1>3. item \in Item \cup {None} /\ row \in Item \cup {None}
  BY <1>1, <1>2, ItemFields
<1>4. SaveHookMessage(s, e) =
        IF item = None THEN [map |-> s.map, records |-> [s.records EXCEPT ![id] = row]]
        ELSE IF item.live # e.live THEN s
        ELSE [map |-> [s.map EXCEPT ![id] = item],
              records |-> IF Persisted(item) THEN [s.records EXCEPT ![id] = item] ELSE s.records]
  <2>1. [s EXCEPT !.records[id] =
          IF @ = None THEN None ELSE [@ EXCEPT !.msgs[e.hook] = e.msg]]
        = [map |-> s.map, records |-> [s.records EXCEPT ![id] = row]]
    BY <1>1, <1>2 DEF MapRows
  <2> QED
    BY <2>1 DEF SaveHookMessage
<1> HIDE DEF item, row, id
<1> QED
  BY <1>1, <1>3, <1>4 DEF MapRows

\* The drains of the worker's reports keep the types of items and rows.
LEMMA DrainTypes ==
  ASSUME TypeOK
  PROVE  /\ FoldLeft(RecordHookFail, Kept, hookFails) \in MapRows
         /\ \A s \in MapRows : FoldLeft(SaveHookMessage, s, hookMsgSaves) \in MapRows
<1>1. Kept \in MapRows /\ hookFails \in Seq(Ids) /\ hookMsgSaves \in Seq(MsgSave)
  BY DEF TypeOK, Kept, MapRows
<1>2. FoldLeft(RecordHookFail, Kept, hookFails) \in MapRows
  BY <1>1, RecordHookFailType, FoldFails
<1>3. ASSUME NEW s \in MapRows
      PROVE  FoldLeft(SaveHookMessage, s, hookMsgSaves) \in MapRows
  BY <1>1, SaveHookMessageType, FoldSaves
<1> QED
  BY <1>2, <1>3

\* What is left after a restart are items.
LEMMA RestoredType ==
  ASSUME NEW rows \in [Ids -> Item \cup {None}]
  PROVE  Restored(rows) \in [Ids -> Item \cup {None}]
<1>1. ASSUME NEW x \in Item \cup {None}
      PROVE  (IF x = None \/ x.status = "DELETED" THEN None
              ELSE IF x.status = "QUEUED" THEN [x EXCEPT !.status = "WAITING"]
              ELSE x) \in Item \cup {None}
  <2>1. x # None => [x EXCEPT !.status = "WAITING"] \in Item
    BY ItemFields DEF Statuses
  <2> QED
    BY <2>1
<1>2. \A id \in Ids : rows[id] \in Item \cup {None}
  OBVIOUS
<1> QED
  BY <1>1, <1>2 DEF Restored

\* The flags apart: the provers treat truth values by themselves.
Flags == failWake \in BOOLEAN /\ msgWake \in BOOLEAN /\ pendingRestart \in BOOLEAN

Values ==
  /\ map \in [Ids -> Item \cup {None}]
  /\ records \in [Ids -> Item \cup {None}]
  /\ hookMsgs \in [Ids -> Cache \cup {None}]
  /\ pendingHooks \in Seq(Pending)
  /\ sending \in Seq(Delivery)
  /\ queue \in Seq(Delivery)
  /\ job \in Job \cup {None}
  /\ hookFails \in Seq(Ids)
  /\ hookMsgSaves \in Seq(MsgSave)
  /\ inFlight \in Nat /\ changes \in 0..MaxChanges /\ lives \in 0..MaxLives
  /\ chat \in Seq(Message) /\ Len(chat) <= MaxChat

\* The base is its parts.
LEMMA BaseParts ==
  Base <=> Values /\ Flags /\ JobShape /\ InFlightExact /\ NoLostWake
BY Zenon DEF Base, TypeOK, Values, Flags

\* And so after a step.
LEMMA BasePartsNext ==
  Base' <=> Values' /\ Flags' /\ JobShape' /\ InFlightExact' /\ NoLostWake'
BY Zenon DEF Base, TypeOK, Values, Flags

\* A delivery that queueHook hands over leaves the head of one list for the end
\* of the other.
LEMMA HandedOver ==
  ASSUME Values, QueueHook
  PROVE  /\ sending' \in Seq(Delivery) /\ queue' \in Seq(Delivery) /\ Len(queue') = Len(queue) + 1
         /\ inFlight' = inFlight + 1 /\ inFlight' \in Nat /\ Len(queue) \in Nat
         /\ \A k \in DOMAIN sending' : k + 1 \in DOMAIN sending /\ sending'[k] = sending[k + 1]
         /\ Head(sending) = sending[1] /\ 1 \in DOMAIN sending
         /\ \A k \in DOMAIN queue' : queue'[k] = Head(sending) \/ (k \in DOMAIN queue /\ queue'[k] = queue[k])
<1>1. /\ sending \in Seq(Delivery) /\ sending # <<>> /\ queue \in Seq(Delivery) /\ inFlight \in Nat
      /\ sending' = Tail(sending) /\ queue' = Append(queue, Head(sending)) /\ inFlight' = inFlight + 1
  BY Zenon DEF QueueHook, Values
<1>2. /\ Head(sending) \in Delivery /\ Tail(sending) \in Seq(Delivery)
      /\ 1 \in DOMAIN sending /\ Head(sending) = sending[1]
      /\ \A i \in DOMAIN Tail(sending) : i + 1 \in DOMAIN sending /\ Tail(sending)[i] = sending[i + 1]
  BY <1>1, HeadTail
<1>3. PICK e \in Delivery : e = Head(sending)
  BY <1>2
<1>4. /\ Append(queue, e) \in Seq(Delivery) /\ Len(Append(queue, e)) = Len(queue) + 1
      /\ \A i \in DOMAIN Append(queue, e) : Append(queue, e)[i] = e \/ (i \in DOMAIN queue /\ Append(queue, e)[i] = queue[i])
  BY <1>1, Appended
<1>5. inFlight' \in Nat /\ Len(queue) \in Nat
  BY <1>1
<1>6. queue' = Append(queue, e)
  BY <1>1, <1>3
<1>7. /\ queue' \in Seq(Delivery) /\ Len(queue') = Len(queue) + 1
      /\ \A k \in DOMAIN queue' : queue'[k] = e \/ (k \in DOMAIN queue /\ queue'[k] = queue[k])
  BY <1>4, <1>6, Zenon
<1> QED
  BY <1>1, <1>2, <1>3, <1>5, <1>7, Zenon

\* A new process has variables of their types.
LEMMA NewProcessBase ==
  ASSUME Base, NEW rows \in [Ids -> Item \cup {None}], NewProcess(rows)
  PROVE  Base'
<1>1. map' \in [Ids -> Item \cup {None}] /\ records' \in [Ids -> Item \cup {None}]
  BY RestoredType DEF NewProcess
<1>2. /\ hookMsgs' \in [Ids -> Cache \cup {None}]
      /\ pendingHooks' = <<>> /\ sending' = <<>> /\ queue' = <<>>
      /\ job' = None /\ hookFails' = <<>> /\ ~failWake' /\ hookMsgSaves' = <<>> /\ ~msgWake'
      /\ inFlight' = 0 /\ pendingRestart' = FALSE /\ failWake' = FALSE /\ msgWake' = FALSE
      /\ changes' = changes /\ lives' = lives
  BY DEF NewProcess
<1>3. chat' \in Seq(Message) /\ Len(chat') = Len(chat)
  <2>1. chat \in Seq(Message) /\ DOMAIN chat = 1..Len(chat) /\ Len(chat) \in Nat
    BY DEF Base, TypeOK
  <2>2. ASSUME NEW m \in DOMAIN chat
        PROVE  chat'[m] \in Message
    <3>1. chat[m] \in Message
      BY <2>1
    <3> DEFINE k == \E id \in Ids : map'[id] # None /\ map'[id].msgs[chat[m].hook] = m
    <3>2. chat'[m] = [chat[m] EXCEPT !.here = FALSE, !.known = k]
      BY DEF NewProcess
    <3>3. k \in BOOLEAN
      OBVIOUS
    <3> HIDE DEF k
    <3>4. chat'[m] = [of |-> chat[m].of, hook |-> chat[m].hook, change |-> chat[m].change,
                      there |-> chat[m].there, known |-> k, here |-> FALSE]
      BY <3>1, <3>2 DEF Message
    <3> QED
      BY <3>1, <3>3, <3>4 DEF Message
  <2>3. DOMAIN chat' = DOMAIN chat
    BY DEF NewProcess
  <2>4. chat' = [m \in 1..Len(chat) |-> chat'[m]]
    BY <2>1 DEF NewProcess
  <2> QED
    BY <2>1, <2>2, <2>3, <2>4
<1>4. Values'
  <2>1. \A S : <<>> \in Seq(S)
    OBVIOUS
  <2> QED
    BY <1>1, <1>2, <1>3, <2>1, Zenon DEF Base, TypeOK, Values
<1>5. JobShape' /\ InFlightExact' /\ NoLostWake'
  BY <1>2 DEF JobShape, InFlightExact, NoLostWake
<1>6. Flags'
  BY <1>2, Zenon DEF Flags
<1> QED
  BY <1>4, <1>5, <1>6, BasePartsNext, Zenon

\* A drain of reports, or of nothing, keeps the rest.
LEMMA DrainBase ==
  ASSUME Base, NEW s \in MapRows, map' = s.map, records' = s.records,
         UNCHANGED <<pendingHooks, sending, pendingRestart, changes, lives, worker,
                     hookMsgs, chat>>,
         hookFails' = <<>> \/ (hookFails' = hookFails /\ failWake' = failWake),
         hookMsgSaves' = <<>> \/ (hookMsgSaves' = hookMsgSaves /\ msgWake' = msgWake),
         failWake' \in BOOLEAN, msgWake' \in BOOLEAN
  PROVE  Base'
<1> USE BaseParts
<1>1. map' \in [Ids -> Item \cup {None}] /\ records' \in [Ids -> Item \cup {None}]
  BY DEF MapRows
<1>2. hookFails' \in Seq(Ids) /\ hookMsgSaves' \in Seq(MsgSave)
  <2>1. \A S : <<>> \in Seq(S)
    OBVIOUS
  <2> QED
    BY <2>1, Zenon DEF Values
<1>3. Values'
  BY <1>1, <1>2, Zenon DEF Values, worker
<1>4. Flags'
  BY Zenon DEF Flags
<1>5. JobShape' /\ InFlightExact'
  BY Zenon DEF JobShape, InFlightExact, worker
<1>6. NoLostWake'
  BY Zenon DEF NoLostWake, At, worker
<1> QED
  BY <1>3, <1>4, <1>5, <1>6, BasePartsNext, Zenon

-----------------------------------------------------------------------------
(* The base of the invariant: types, the count and the wakes.              *)

\* It holds at the start.
LEMMA BaseInit == Init => Base
<1> SUFFICES ASSUME Init PROVE Base
  OBVIOUS
<1>1. \A S : <<>> \in Seq(S)
  OBVIOUS
<1>2. /\ Values
      /\ failWake = FALSE /\ msgWake = FALSE /\ pendingRestart = FALSE
  BY <1>1, Facts DEF Init, Values
<1>3. JobShape /\ InFlightExact /\ NoLostWake
  BY DEF Init, JobShape, InFlightExact, NoLostWake
<1> QED
  BY <1>2, <1>3, BaseParts, Zenon DEF Flags

\* The steps of the main loop on an item keep it.
LEMMA ItemBase ==
  ASSUME Base, NEW id \in Ids,
         NewItem(id) \/ RetryFailed(id) \/ DeleteExtract(id)
           \/ \E status \in Statuses : UpdateQueueStatus(id, status)
  PROVE  Base'
<1> USE BaseParts
<1>1. map[id] \in Item \cup {None} /\ lives \in Nat /\ MaxLives \in Nat
  BY Facts DEF Values
<1>2. CASE NewItem(id)
  <2>1. [live |-> lives + 1, status |-> "WAITING", msgs |-> NoMessages, fails |-> 0] \in Item
    BY <1>1, <1>2, Facts DEF NewItem, Item, Statuses, NoMessages, MessageIds
  <2>2. map' \in [Ids -> Item \cup {None}] /\ lives' \in 0..MaxLives
    BY <1>1, <1>2, <2>1 DEF NewItem, Values
  <2>3. Values'
    BY <1>2, <2>2, Zenon DEF NewItem, Values, worker, shared
  <2>4. Flags' /\ JobShape' /\ InFlightExact' /\ NoLostWake'
    BY <1>2, Zenon DEF NewItem, Flags, JobShape, InFlightExact, NoLostWake, At, worker, shared
  <2> QED
    BY <2>3, <2>4, BasePartsNext, Zenon
<1>3. CASE RetryFailed(id)
  <2>1. map' \in [Ids -> Item \cup {None}]
    BY <1>1, <1>3, ItemFields DEF RetryFailed, Values, Statuses
  <2>2. Values'
    BY <1>3, <2>1, Zenon DEF RetryFailed, Values, worker, shared
  <2>3. Flags' /\ JobShape' /\ InFlightExact' /\ NoLostWake'
    BY <1>3, Zenon DEF RetryFailed, Flags, JobShape, InFlightExact, NoLostWake, At, worker, shared
  <2> QED
    BY <2>2, <2>3, BasePartsNext, Zenon
<1>4. CASE DeleteExtract(id)
  <2>1. map' \in [Ids -> Item \cup {None}] /\ hookMsgs' \in [Ids -> Cache \cup {None}]
    BY <1>4 DEF DeleteExtract, Values
  <2>2. Values'
    BY <1>4, <2>1, Zenon DEF DeleteExtract, Values, worker
  <2>3. Flags' /\ JobShape' /\ InFlightExact' /\ NoLostWake'
    BY <1>4, Zenon DEF DeleteExtract, Flags, JobShape, InFlightExact, NoLostWake, At, worker
  <2> QED
    BY <2>2, <2>3, BasePartsNext, Zenon
<1>5. ASSUME NEW status \in Statuses, UpdateQueueStatus(id, status)
      PROVE  Base'
  <2> DEFINE item == [map[id] EXCEPT !.status = status]
             p == [id |-> id, item |-> item, change |-> changes + 1]
  <2>1. item \in Item
    BY <1>1, <1>5, ItemFields DEF UpdateQueueStatus
  <2>2. /\ map' = [map EXCEPT ![id] = item]
        /\ changes < MaxChanges /\ changes' = changes + 1 /\ pendingHooks' = Append(pendingHooks, p)
        /\ records' = Record(id, item)
    BY <1>5, Zenon DEF UpdateQueueStatus, QueuePendingHook
  <2> HIDE DEF item
  <2>3. map' \in [Ids -> Item \cup {None}] /\ records' \in [Ids -> Item \cup {None}]
    BY <2>1, <2>2, RecordType DEF Values
  <2>4. changes' \in 0..MaxChanges /\ changes + 1 \in 1..MaxChanges
    BY <2>2, Facts DEF Values
  <2>5. p \in Pending
    BY <2>1, <2>4 DEF Pending
  <2> HIDE DEF p
  <2>6. pendingHooks' \in Seq(Pending)
    BY <2>2, <2>5, Appended DEF Values
  <2>7. Values'
    BY <1>5, <2>3, <2>4, <2>6, Zenon DEF UpdateQueueStatus, Values, worker, shared
  <2>8. Flags' /\ JobShape' /\ InFlightExact' /\ NoLostWake'
    BY <1>5, Zenon DEF UpdateQueueStatus, Flags, JobShape, InFlightExact, NoLostWake, At, worker, shared
  <2> QED
    BY <2>7, <2>8, BasePartsNext, Zenon
<1> QED
  BY <1>2, <1>3, <1>4, <1>5

\* A seeded cache is a cache.
LEMMA SeedType ==
  ASSUME NEW c \in Cache \cup {None}, NEW x \in Item
  PROVE  /\ SeedHookMessages(c, x) \in Cache
         /\ SeedHookMessages(c, x).live = x.live
         /\ \A h \in Editing : SeedHookMessages(c, x).msgs[h] =
              IF OwnedBy(c, x.live) /\ c.msgs[h] # 0 THEN c.msgs[h] ELSE x.msgs[h]
<1>1. CASE OwnedBy(c, x.live)
  <2> DEFINE ms == [h \in Editing |-> IF c.msgs[h] # 0 THEN c.msgs[h] ELSE x.msgs[h]]
  <2>1. c \in Cache /\ c.live = x.live
    BY <1>1 DEF OwnedBy
  <2>2. SeedHookMessages(c, x) = [c EXCEPT !.msgs = ms]
    BY <1>1 DEF SeedHookMessages
  <2>3. ms \in MessageIds
    BY <2>1 DEF Cache, Item, MessageIds
  <2>4. \A h \in Editing : ms[h] = IF c.msgs[h] # 0 THEN c.msgs[h] ELSE x.msgs[h]
    OBVIOUS
  <2> HIDE DEF ms
  <2> QED
    BY <1>1, <2>1, <2>2, <2>3, <2>4 DEF Cache
<1>2. CASE ~OwnedBy(c, x.live)
  BY <1>2 DEF SeedHookMessages, Cache, Item
<1> QED
  BY <1>1, <1>2

\* Queueing the hooks keeps it.
LEMMA QueueBase ==
  ASSUME Base, RunAllHooks \/ QueueHook
  PROVE  Base'
<1> USE BaseParts
<1>1. CASE RunAllHooks
  <2> DEFINE p == Head(pendingHooks)
  <2>1. p \in Pending /\ pendingHooks' = Tail(pendingHooks) /\ pendingHooks' \in Seq(Pending)
    BY <1>1, HeadTail DEF RunAllHooks, Values
  <2>2. /\ sending' = Deliveries(p)
        /\ hookMsgs' = [hookMsgs EXCEPT ![p.id] = SeedHookMessages(hookMsgs[p.id], p.item)]
    BY <1>1, Zenon DEF RunAllHooks
  <2> HIDE DEF p
  <2>3. ASSUME NEW d \in Seq(Delivery), NEW h \in Hooks
        PROVE  Fire(p, d, h) \in Seq(Delivery)
    <3>1. [id |-> p.id, hook |-> h, live |-> p.item.live, change |-> p.change] \in Delivery
      BY <2>1 DEF Pending, Item, Delivery
    <3> QED
      BY <3>1, Appended DEF Fire
  <2>4. sending' \in Seq(Delivery)
    <3>1. <<>> \in Seq(Delivery)
      OBVIOUS
    <3> QED
      BY <2>2, <2>3, <3>1, FoldFires, Facts
  <2>5. hookMsgs' \in [Ids -> Cache \cup {None}]
    BY <2>1, <2>2, SeedType DEF Values, Pending
  <2>6. Values'
    BY <1>1, <2>1, <2>4, <2>5, Zenon DEF RunAllHooks, Values, worker
  <2>7. Flags' /\ JobShape' /\ InFlightExact' /\ NoLostWake'
    BY <1>1, Zenon DEF RunAllHooks, Flags, JobShape, InFlightExact, NoLostWake, At, worker
  <2> QED
    BY <2>6, <2>7, BasePartsNext, Zenon
<1>2. CASE QueueHook
  <2>1. /\ sending' \in Seq(Delivery) /\ queue' \in Seq(Delivery) /\ Len(queue') = Len(queue) + 1
        /\ inFlight' = inFlight + 1 /\ inFlight' \in Nat /\ Len(queue) \in Nat
    BY <1>2, HandedOver
  <2>2. InFlightExact'
    BY <1>2, <2>1 DEF QueueHook, InFlightExact
  <2>3. Values'
    BY <1>2, <2>1, Zenon DEF QueueHook, Values, shared
  <2>4. Flags' /\ JobShape' /\ NoLostWake'
    BY <1>2, Zenon DEF QueueHook, Flags, JobShape, NoLostWake, At, shared
  <2> QED
    BY <2>2, <2>3, <2>4, BasePartsNext, Zenon
<1> QED
  BY <1>1, <1>2

\* The worker's steps before the answer keep it.
LEMMA WorkerBase ==
  ASSUME Base, Take \/ Lookup \/ Edit \/ Post
  PROVE  Base'
<1> USE BaseParts
<1>1. job \in Job \cup {None} /\ \A step : At(step) => job \in Job /\ job # None /\ job.at = step
  BY DEF Values, At
<1>2. CASE Take
  <2>1. /\ Head(queue) \in Delivery /\ queue' = Tail(queue) /\ queue' \in Seq(Delivery)
        /\ Len(queue') = Len(queue) - 1 /\ Len(queue) \in Nat /\ job = None
    BY <1>2, HeadTail DEF Take, Values
  <2>2. /\ job' \in Job /\ job'.of = Head(queue)
        /\ job'.at = IF Head(queue).hook \in Editing THEN "lookup" ELSE "post"
    BY <1>2, <2>1, Facts DEF Take, Job, Steps
  <2>3. job' # None
    BY <2>2, Facts
  <2>4. InFlightExact' /\ JobShape'
    BY <1>2, <2>1, <2>2, <2>3 DEF Take, InFlightExact, JobShape
  <2>5. Values'
    BY <1>2, <2>1, <2>2, Zenon DEF Take, Values, main, shared
  <2>6. Flags' /\ NoLostWake'
    BY <1>2, <2>1, Zenon DEF Take, Flags, NoLostWake, At, main, shared
  <2> QED
    BY <2>4, <2>5, <2>6, BasePartsNext, Zenon
<1>3. CASE Lookup
  <2> DEFINE d == job.of
             msg == IF OwnedBy(hookMsgs[d.id], d.live) THEN hookMsgs[d.id].msgs[d.hook] ELSE 0
  <2>1. job \in Job /\ job # None /\ job.at = "lookup" /\ d \in Delivery /\ d.hook \in Editing
    BY <1>1, <1>3 DEF Lookup, JobShape, Job
  <2>2. msg \in 0..MaxChat
    <3>1. hookMsgs[d.id] \in Cache \cup {None} /\ 0 \in 0..MaxChat
      BY <2>1, Facts DEF Values, Delivery
    <3> QED
      BY <2>1, <3>1 DEF OwnedBy, Cache, MessageIds
  <2>3. job' = [of |-> d, at |-> IF msg # 0 THEN "edit" ELSE "post", msg |-> msg]
    BY <1>3, Zenon DEF Lookup
  <2> HIDE DEF msg
  <2>4. /\ job' \in Job /\ job'.of = d /\ job'.msg = msg
        /\ job'.at = IF msg # 0 THEN "edit" ELSE "post"
    BY <2>1, <2>2, <2>3 DEF Job, Steps
  <2>5. job' # None
    BY <2>4, Facts
  <2>6. InFlightExact' /\ JobShape'
    BY <1>3, <2>1, <2>4, <2>5 DEF Lookup, InFlightExact, JobShape
  <2>7. Values'
    BY <1>3, <2>4, Zenon DEF Lookup, Values, main, shared
  <2>8. Flags' /\ NoLostWake'
    <3>1. ~At("reported") /\ ~At("saved")
      BY <2>1 DEF At
    <3> QED
      BY <1>3, <3>1, Zenon DEF Lookup, Flags, NoLostWake, At, main, shared
  <2> QED
    BY <2>6, <2>7, <2>8, BasePartsNext, Zenon
<1>4. CASE Edit
  <2>1. job \in Job /\ job # None /\ job.at = "edit" /\ job.of \in Delivery
    BY <1>1, <1>4 DEF Edit, Job
  <2>2. \E st \in {"done", "failed", "post"} : job' = JobTo(st)
    BY <1>4, ToStep, Zenon DEF Edit
  <2>3. /\ job' \in Job /\ job' # None /\ job'.of = job.of /\ job'.msg = job.msg
        /\ job'.at \in {"done", "failed", "post"}
    BY <2>1, <2>2, JobAt
  <2>4. chat' \in Seq(Message) /\ Len(chat') = Len(chat)
    <3>1. chat \in Seq(Message) /\ (chat' = chat \/ chat' = [chat EXCEPT ![job.msg].change = job.of.change])
      BY <1>4 DEF Edit, Values
    <3> DEFINE e == [chat[job.msg] EXCEPT !.change = job.of.change]
    <3>2. CASE chat' = chat
      BY <3>1, <3>2
    <3>3. CASE chat' = [chat EXCEPT ![job.msg] = e] /\ job.msg \in DOMAIN chat
      <4>1. chat[job.msg] \in Message /\ job.msg \in 1..Len(chat)
        BY <3>1, <3>3
      <4>2. e \in Message
        BY <2>1, <4>1, MessageEdited DEF Delivery
      <4> HIDE DEF e
      <4> QED
        BY <3>1, <3>3, <4>1, <4>2, ExceptSeq
    <3>4. CASE chat' = [chat EXCEPT ![job.msg] = e] /\ job.msg \notin DOMAIN chat
      <4> HIDE DEF e
      <4>1. chat = [i \in DOMAIN chat |-> chat[i]]
        BY <3>1
      <4>2. chat' = chat
        BY <3>4, <4>1
      <4> QED
        BY <3>1, <4>2
    <3>5. [chat EXCEPT ![job.msg].change = job.of.change] = [chat EXCEPT ![job.msg] = e]
      OBVIOUS
    <3> QED
      BY <3>1, <3>2, <3>3, <3>4, <3>5
  <2>5. InFlightExact' /\ JobShape'
    BY <1>4, <2>1, <2>3 DEF Edit, InFlightExact, JobShape
  <2>6. Values'
    <3>1. Len(chat') <= MaxChat
      BY <2>4 DEF Values
    <3> QED
      BY <1>4, <2>3, <2>4, <3>1, Zenon DEF Edit, Values, main, shared
  <2>7. Flags' /\ NoLostWake'
    <3>1. ~At("reported") /\ ~At("saved")
      BY <2>1 DEF At
    <3> QED
      BY <1>4, <3>1, Zenon DEF Edit, Flags, NoLostWake, At, main, shared
  <2> QED
    BY <2>5, <2>6, <2>7, BasePartsNext, Zenon
<1>5. CASE Post
  <2>1. job \in Job /\ job # None /\ job.at = "post" /\ job.of \in Delivery /\ Len(chat) \in Nat
    BY <1>1, <1>5 DEF Post, Job, Values
  <2>2. \/ /\ job.of.hook \in Editing /\ Len(chat) < MaxChat
           /\ \/ chat' = Append(chat, Posted(TRUE)) /\ job' = [of |-> job.of, at |-> "save", msg |-> Len(chat) + 1]
              \/ /\ chat' = Append(chat, Posted(FALSE))
                 /\ \E st \in {"done", "failed"} : job' = JobTo(st)
        \/ chat' = chat /\ \E st \in {"done", "failed"} : job' = JobTo(st)
    BY <1>5, ToStep, Zenon DEF Post
  <2>3. /\ job' \in Job /\ job' # None /\ job'.of = job.of
        /\ \/ job'.at = "save" /\ job.of.hook \in Editing /\ job'.msg # 0
           \/ job'.at \in {"done", "failed"}
    <3>1. CASE job' = [of |-> job.of, at |-> "save", msg |-> Len(chat) + 1]
               /\ job.of.hook \in Editing /\ Len(chat) < MaxChat
      <4>1. job' \in Job
        BY <2>1, <3>1, Facts DEF Job, Steps
      <4> QED
        BY <2>1, <3>1, <4>1, Facts
    <3>2. CASE \E st \in {"done", "failed"} : job' = JobTo(st)
      BY <2>1, <3>2, JobAt
    <3> QED
      BY <2>2, <3>1, <3>2
  <2>4. chat' \in Seq(Message) /\ Len(chat') <= MaxChat
    <3>1. ASSUME NEW k \in BOOLEAN, job.of.hook \in Editing
          PROVE  Posted(k) \in Message
      BY <2>1, <3>1 DEF Posted, Message, Delivery
    <3>2. CASE chat' = chat
      BY <3>2 DEF Values
    <3>3. CASE \E k \in BOOLEAN : chat' = Append(chat, Posted(k)) /\ job.of.hook \in Editing /\ Len(chat) < MaxChat
      BY <2>1, <3>1, <3>3, Appended, Facts DEF Values
    <3> QED
      BY <2>2, <3>2, <3>3
  <2>5. InFlightExact' /\ JobShape'
    BY <1>5, <2>1, <2>3 DEF Post, InFlightExact, JobShape
  <2>6. Values'
    BY <1>5, <2>3, <2>4, Zenon DEF Post, Values, main, shared
  <2>7. Flags' /\ NoLostWake'
    <3>1. ~At("reported") /\ ~At("saved")
      BY <2>1 DEF At
    <3> QED
      BY <1>5, <3>1, Zenon DEF Post, Flags, NoLostWake, At, main, shared
  <2> QED
    BY <2>5, <2>6, <2>7, BasePartsNext, Zenon
<1> QED
  BY <1>2, <1>3, <1>4, <1>5

\* The worker's steps after the answer keep it.
LEMMA AnswerBase ==
  ASSUME Base, Save \/ WakeForMessage \/ ReportHookFail \/ Finish
  PROVE  Base'
<1> USE BaseParts
<1>1. job \in Job \cup {None} /\ \A step : At(step) => job \in Job /\ job # None /\ job.at = step
  BY DEF Values, At
<1>2. CASE Save
  <2> DEFINE d == job.of
             c == hookMsgs[d.id]
             own == IF c = None THEN [live |-> d.live, msgs |-> NoMessages] ELSE c
  <2>1. /\ job \in Job /\ job # None /\ job.at = "save" /\ d \in Delivery /\ d.hook \in Editing
        /\ job.msg \in 1..MaxChat /\ c \in Cache \cup {None}
    <3>1. job \in Job /\ job # None /\ job.at = "save"
      BY <1>1, <1>2 DEF Save
    <3>2. d \in Delivery /\ d.hook \in Editing /\ job.msg \in 1..MaxChat
      BY <3>1, Facts DEF Job, JobShape
    <3>3. c \in Cache \cup {None}
      BY <3>2 DEF Values, Delivery
    <3> QED
      BY <3>1, <3>2, <3>3
  <2>2. own \in Cache
    BY <2>1, Facts DEF Cache, Delivery, NoMessages, MessageIds
  <2>3. \/ /\ hookMsgs' = [hookMsgs EXCEPT ![d.id] = [own EXCEPT !.msgs[d.hook] = job.msg]]
           /\ hookMsgSaves' = Append(hookMsgSaves,
                  [id |-> d.id, hook |-> d.hook, live |-> d.live, msg |-> job.msg])
           /\ job' = JobTo("saved")
        \/ hookMsgs' = hookMsgs /\ hookMsgSaves' = hookMsgSaves /\ job' = JobTo("done")
    BY <1>2, ToStep, Zenon DEF Save
  <2> HIDE DEF own
  <2>4. /\ job' \in Job /\ job' # None /\ job'.of = job.of /\ job'.msg = job.msg
        /\ \/ job'.at = "saved"
           \/ job'.at = "done" /\ hookMsgSaves' = hookMsgSaves
    <3>1. CASE job' = JobTo("saved")
      BY JobAt, <2>1, <3>1
    <3>2. CASE job' = JobTo("done") /\ hookMsgSaves' = hookMsgSaves
      BY JobAt, <2>1, <3>2
    <3> QED
      BY <2>3, <3>1, <3>2
  <2>5. hookMsgs' \in [Ids -> Cache \cup {None}]
    <3>1. [own EXCEPT !.msgs[d.hook] = job.msg] \in Cache
      BY <2>1, <2>2 DEF Cache, MessageIds
    <3> QED
      BY <2>3, <3>1 DEF Values
  <2>6. hookMsgSaves' \in Seq(MsgSave)
    <3> DEFINE e == [id |-> d.id, hook |-> d.hook, live |-> d.live, msg |-> job.msg]
    <3>1. e \in MsgSave /\ hookMsgSaves \in Seq(MsgSave)
      BY <2>1 DEF MsgSave, Delivery, Values
    <3>2. hookMsgSaves' = hookMsgSaves \/ hookMsgSaves' = Append(hookMsgSaves, e)
      BY <2>3
    <3> HIDE DEF e
    <3> QED
      BY <3>1, <3>2, AppendProperties
  <2>7. InFlightExact' /\ JobShape'
    BY <1>2, <2>1, <2>4 DEF Save, InFlightExact, JobShape
  <2>8. Values'
    BY <1>2, <2>4, <2>5, <2>6, Zenon DEF Save, Values, main
  <2>9. Flags' /\ NoLostWake'
    <3>1. ~At("reported") /\ ~At("saved")
      BY <2>1 DEF At
    <3> QED
      BY <1>2, <2>4, <3>1, Zenon DEF Save, Flags, NoLostWake, At, main
  <2> QED
    BY <2>7, <2>8, <2>9, BasePartsNext, Zenon
<1>3. CASE WakeForMessage
  <2>1. job \in Job /\ job # None /\ job.at = "saved"
    BY <1>1, <1>3 DEF WakeForMessage
  <2>2. job' = JobTo("done")
    BY <1>3, ToStep DEF WakeForMessage
  <2>3. job' \in Job /\ job' # None /\ job'.of = job.of /\ job'.at = "done"
    BY JobAt, <2>1, <2>2
  <2>4. InFlightExact' /\ JobShape'
    BY <1>3, <2>1, <2>3 DEF WakeForMessage, InFlightExact, JobShape
  <2>5. Values'
    BY <1>3, <2>3, Zenon DEF WakeForMessage, Values, main
  <2>6. Flags' /\ NoLostWake'
    <3>1. ~At("reported")
      BY <2>1 DEF At
    <3> QED
      BY <1>3, <3>1, Zenon DEF WakeForMessage, Flags, NoLostWake, At, main
  <2> QED
    BY <2>4, <2>5, <2>6, BasePartsNext, Zenon
<1>4. CASE ReportHookFail
  <2>1. job \in Job /\ job # None /\ job.at \in {"failed", "reported"} /\ job.of \in Delivery
    BY <1>1, <1>4 DEF ReportHookFail, Job
  <2>2. \/ /\ hookFails' = Append(hookFails, job.of.id) /\ failWake' = failWake
           /\ job' = JobTo("reported")
        \/ failWake' = TRUE /\ hookFails' = hookFails /\ job' = JobTo("done")
    BY <1>4, ToStep, Zenon DEF ReportHookFail
  <2>3. /\ job' \in Job /\ job' # None /\ job'.of = job.of /\ job'.at \in {"reported", "done"}
        /\ job' = JobTo("reported") => job'.at = "reported"
    <3>1. job' = JobTo("reported") \/ job' = JobTo("done")
      BY <2>2, Zenon
    <3> QED
      BY JobAt, <2>1, <3>1
  <2>4. hookFails' \in Seq(Ids)
    <3>1. job.of.id \in Ids
      BY <2>1 DEF Delivery
    <3>2. Append(hookFails, job.of.id) \in Seq(Ids)
      BY <3>1, AppendProperties DEF Values
    <3> QED
      BY <2>2, <3>2, Zenon DEF Values
  <2>5. InFlightExact' /\ JobShape'
    BY <1>4, <2>1, <2>3 DEF ReportHookFail, InFlightExact, JobShape
  <2>6. Values'
    BY <1>4, <2>3, <2>4, Zenon DEF ReportHookFail, Values, main
  <2>7. Flags' /\ NoLostWake'
    <3>1. ~At("saved")
      BY <2>1 DEF At
    <3>2. CASE job' = JobTo("reported")
      BY <1>4, <2>2, <2>3, <3>1, <3>2, Zenon DEF ReportHookFail, Flags, NoLostWake, At, main
    <3>3. CASE failWake' = TRUE /\ hookFails' = hookFails
      BY <1>4, <3>1, <3>3, Zenon DEF ReportHookFail, Flags, NoLostWake, At, main
    <3> QED
      BY <2>2, <3>2, <3>3, Zenon
  <2> QED
    BY <2>5, <2>6, <2>7, BasePartsNext, Zenon
<1>5. CASE Finish
  <2>1. job \in Job /\ job # None /\ job.at = "done" /\ job' = None /\ inFlight' = inFlight - 1
        /\ queue' = queue /\ inFlight = Len(queue) + 1 /\ Len(queue) \in Nat
    BY <1>1, <1>5 DEF Finish, InFlightExact, Values
  <2>2. InFlightExact' /\ JobShape' /\ inFlight' \in Nat
    BY <2>1 DEF InFlightExact, JobShape
  <2>3. Values'
    BY <1>5, <2>1, <2>2, Zenon DEF Finish, Values, main, shared
  <2>4. Flags' /\ NoLostWake'
    <3>1. ~At("reported") /\ ~At("saved")
      BY <2>1 DEF At
    <3> QED
      BY <1>5, <3>1, Zenon DEF Finish, Flags, NoLostWake, At, main, shared
  <2> QED
    BY <2>2, <2>3, <2>4, BasePartsNext, Zenon
<1> QED
  BY <1>2, <1>3, <1>4, <1>5

\* The drains keep it.
LEMMA DrainsBase ==
  ASSUME Base, DrainHookFails \/ DrainHookMessages
  PROVE  Base'
<1>0. TypeOK
  BY DEF Base
<1>1. CASE DrainHookFails
  <2> DEFINE s == FoldLeft(RecordHookFail, Kept, hookFails)
  <2>1. s \in MapRows
    BY <1>0, DrainTypes
  <2>2. map' = s.map /\ records' = s.records
    BY <1>1, Zenon DEF DrainHookFails
  <2> HIDE DEF s
  <2>3. failWake' \in BOOLEAN /\ msgWake' \in BOOLEAN
    BY <1>0, <1>1, Zenon DEF DrainHookFails, TypeOK
  <2> QED
    BY <1>1, <2>1, <2>2, <2>3, DrainBase, Zenon DEF DrainHookFails
<1>2. CASE DrainHookMessages
  <2> DEFINE s == FoldLeft(SaveHookMessage, Kept, hookMsgSaves)
  <2>1. s \in MapRows
    <3>1. Kept \in MapRows
      BY <1>0 DEF TypeOK, Kept, MapRows
    <3> QED
      BY <1>0, <3>1, DrainTypes
  <2>2. map' = s.map /\ records' = s.records
    BY <1>2, Zenon DEF DrainHookMessages
  <2> HIDE DEF s
  <2>3. failWake' \in BOOLEAN /\ msgWake' \in BOOLEAN
    BY <1>0, <1>2, Zenon DEF DrainHookMessages, TypeOK
  <2> QED
    BY <1>2, <2>1, <2>2, <2>3, DrainBase, Zenon DEF DrainHookMessages
<1> QED
  BY <1>1, <1>2

\* What is left when everything is drained.
Drained == FoldLeft(SaveHookMessage, FoldLeft(RecordHookFail, Kept, hookFails), hookMsgSaves)

\* A restart that was asked for restarts from the drained rows, or drains.
LEMMA RestartCases ==
  ASSUME MaybeRestart
  PROVE  /\ Free
         /\ \/ inFlight = 0 /\ NewProcess(Drained.records)
            \/ /\ map' = Drained.map /\ records' = Drained.records
               /\ hookFails' = <<>> /\ hookMsgSaves' = <<>>
               /\ UNCHANGED <<pendingHooks, sending, pendingRestart, changes, lives, worker,
                              hookMsgs, failWake, msgWake, chat>>
BY Zenon DEF MaybeRestart, Drained

\* Restarts keep it.
LEMMA RestartBase ==
  ASSUME Base, AskRestart \/ MaybeRestart \/ Crash
  PROVE  Base'
<1>0. TypeOK
  BY DEF Base
<1>1. CASE AskRestart
  <2>1. Values'
    BY <1>1, BaseParts, Zenon DEF AskRestart, Values, worker, shared
  <2>2. Flags' /\ JobShape' /\ InFlightExact' /\ NoLostWake'
    BY <1>1, BaseParts, Zenon DEF AskRestart, Flags, JobShape, InFlightExact, NoLostWake, At, worker, shared
  <2> QED
    BY <2>1, <2>2, BasePartsNext, Zenon
<1>2. CASE MaybeRestart
  <2>1. Drained \in MapRows
    BY <1>0, DrainTypes DEF Drained
  <2>2. CASE NewProcess(Drained.records)
    <3>1. Drained.records \in [Ids -> Item \cup {None}]
      BY <2>1 DEF MapRows
    <3> QED
      BY <2>2, <3>1, NewProcessBase
  <2>3. CASE /\ map' = Drained.map /\ records' = Drained.records
             /\ hookFails' = <<>> /\ hookMsgSaves' = <<>>
             /\ UNCHANGED <<pendingHooks, sending, pendingRestart, changes, lives, worker,
                            hookMsgs, failWake, msgWake, chat>>
    <3>1. failWake' \in BOOLEAN /\ msgWake' \in BOOLEAN
      BY <1>0, <2>3, Zenon DEF TypeOK
    <3> QED
      BY <2>1, <2>3, <3>1, DrainBase, Zenon
  <2> QED
    BY <1>2, <2>2, <2>3, RestartCases, Zenon
<1>3. CASE Crash
  BY <1>0, <1>3, NewProcessBase DEF Crash, TypeOK
<1> QED
  BY <1>1, <1>2, <1>3

\* Somebody deletes a message.
LEMMA VanishBase ==
  ASSUME Base, NEW m \in DOMAIN chat, Vanish(m)
  PROVE  Base'
<1> USE BaseParts
<1> DEFINE e == [chat[m] EXCEPT !.there = FALSE]
<1>1. chat \in Seq(Message) /\ chat[m] \in Message /\ m \in 1..Len(chat)
  BY DEF Values
<1>3. e \in Message
  BY <1>1, MessageGone, Zenon
<1>4. chat' = [chat EXCEPT ![m] = e]
  BY DEF Vanish
<1> HIDE DEF e
<1>5. chat' \in Seq(Message) /\ Len(chat') = Len(chat)
  BY <1>1, <1>3, <1>4, ExceptSeq
<1>6. Values'
  <2>1. Len(chat') <= MaxChat
    BY <1>5 DEF Values
  <2> QED
    BY <1>5, <2>1, Zenon DEF Vanish, Values, main, worker, shared
<1>7. Flags' /\ JobShape' /\ InFlightExact' /\ NoLostWake'
  BY Zenon DEF Vanish, Flags, JobShape, InFlightExact, NoLostWake, At, main, worker, shared
<1> QED
  BY <1>6, <1>7, BasePartsNext, Zenon

\* Every step keeps the base.
LEMMA BaseStep ==
  ASSUME Base, [Next]_vars
  PROVE  Base'
<1>1. CASE UNCHANGED vars
  <2>1. Values' /\ Flags' /\ JobShape' /\ InFlightExact' /\ NoLostWake'
    BY <1>1, BaseParts, Zenon DEF Values, Flags, JobShape, InFlightExact, NoLostWake, At,
         vars, main, worker, shared
  <2> QED
    BY <2>1, BasePartsNext, Zenon
<1>2. CASE Next
  BY <1>2, ItemBase, QueueBase, WorkerBase, AnswerBase, DrainsBase, RestartBase, VanishBase, Zenon
  DEF Next
<1> QED
  BY <1>1, <1>2

\* In every reachable state.
LEMMA BaseAlways == Spec => []Base
<1>1. Init => Base
  BY BaseInit
<1>2. Base /\ [Next]_vars => Base'
  BY BaseStep
<1> QED
  BY <1>1, <1>2, PTL DEF Spec

\* Every variable keeps its type (HookDelivery, TypeOK).
THEOREM TypeCorrect == Spec => []TypeOK
<1>1. Base => TypeOK
  BY DEF Base
<1> QED
  BY <1>1, BaseAlways, PTL

\* The count that idle() trusts is the work there is (after() of the worker).
THEOREM CountExact == Spec => []InFlightExact
<1>1. Base => InFlightExact
  BY DEF Base
<1> QED
  BY <1>1, BaseAlways, PTL

\* Whatever the worker reported has a wake token, or gets one at its next step.
THEOREM WakesKept == Spec => []NoLostWake
<1>1. Base => NoLostWake
  BY DEF Base
<1> QED
  BY <1>1, BaseAlways, PTL

-----------------------------------------------------------------------------
(* What a step leaves of the messages and of the caches' owners.           *)

\* Messages stay, and none of an earlier process becomes one of this.
ChatKept ==
  \A m \in DOMAIN chat :
    m \in DOMAIN chat' /\ chat'[m].of = chat[m].of /\ chat'[m].hook = chat[m].hook
      /\ (chat'[m].here => chat[m].here)

\* A cache that is its item's stays so.
OwnersKept(f) ==
  \A live \in DOMAIN f :
    Seeded(map[f[live]], hookMsgs[f[live]], live) => Seeded(map'[f[live]], hookMsgs'[f[live]], live)

\* Then what fits the messages and what is known still does and is.
LEMMA FitsKept ==
  ASSUME ChatKept, NEW f, NEW id, NEW h, NEW m, Fits(chat, f, id, h, m)
  PROVE  Fits(chat', f, id, h, m) /\ (\A live : Own(chat, live, m) => Own(chat', live, m))
BY DEF ChatKept, Fits, Own

LEMMA KinKept ==
  ASSUME ChatKept, NEW f, NEW id, NEW x
  PROVE  /\ RowKin(chat, f, id, x) => RowKin(chat', f, id, x)
         /\ Kin(chat, f, id, x) => Kin(chat', f, id, x)
<1>1. ASSUME RowKin(chat, f, id, x)
      PROVE  RowKin(chat', f, id, x)
  BY <1>1, FitsKept DEF RowKin
<1>2. ASSUME Kin(chat, f, id, x)
      PROVE  Kin(chat', f, id, x)
  <2>1. RowKin(chat, f, id, x) /\ (x # None => \A h \in Editing : Fits(chat, f, id, h, x.msgs[h]))
    BY <1>2 DEF Kin, RowKin
  <2>2. x # None => \A h \in Editing : Own(chat', x.live, x.msgs[h])
    BY <1>2, <2>1, FitsKept DEF Kin
  <2> QED
    BY <1>1, <2>1, <2>2 DEF Kin
<1> QED
  BY <1>1, <1>2

LEMMA KnownKept ==
  ASSUME NEW f, OwnersKept(f), NEW d, Known(f, map, hookMsgs, d)
  PROVE  Known(f, map', hookMsgs', d)
BY DEF OwnersKept, Known

LEMMA SavingKept ==
  ASSUME NEW f, OwnersKept(f), ChatKept, NEW e, Saving(chat, f, map, hookMsgs, e)
  PROVE  Saving(chat', f, map', hookMsgs', e)
BY KnownKept, FitsKept DEF Saving

LEMMA ListsKept ==
  ASSUME NEW f, OwnersKept(f), ChatKept, Lists(f), UNCHANGED <<sending, queue, hookMsgSaves>>
  PROVE  Lists(f)'
<1>1. \A k \in DOMAIN sending' : Known(f, map', hookMsgs', sending'[k])
  BY KnownKept DEF Lists
<1>2. \A k \in DOMAIN queue' : Known(f, map', hookMsgs', queue'[k])
  BY KnownKept DEF Lists
<1>3. \A k \in DOMAIN hookMsgSaves' : Saving(chat', f, map', hookMsgs', hookMsgSaves'[k])
  BY SavingKept DEF Lists
<1> QED
  BY <1>1, <1>2, <1>3 DEF Lists

\* The delivery under way, when it stays the same.
LEMMA UnderWayKept ==
  ASSUME NEW f, OwnersKept(f), ChatKept, UnderWay(f), job' = job,
         job # None /\ job.at = "edit" /\ map'[job.of.id] # None /\ map'[job.of.id].live = job.of.live =>
           /\ map[job.of.id] # None /\ map[job.of.id].live = job.of.live
           /\ hookMsgs[job.of.id].msgs[job.of.hook] = job.msg =>
                hookMsgs'[job.of.id].msgs[job.of.hook] = job.msg
  PROVE  UnderWay(f)'
<1> SUFFICES ASSUME job # None
    PROVE  /\ Known(f, map', hookMsgs', job.of)
           /\ job.at \in {"edit", "save"} =>
                Fits(chat', f, job.of.id, job.of.hook, job.msg) /\ Own(chat', job.of.live, job.msg)
           /\ job.at = "edit" /\ map'[job.of.id] # None /\ map'[job.of.id].live = job.of.live =>
                hookMsgs'[job.of.id].msgs[job.of.hook] = job.msg
  BY DEF UnderWay
<1>1. Known(f, map', hookMsgs', job.of)
  BY KnownKept DEF UnderWay
<1>2. job.at \in {"edit", "save"} =>
        Fits(chat', f, job.of.id, job.of.hook, job.msg) /\ Own(chat', job.of.live, job.msg)
  BY FitsKept DEF UnderWay
<1>3. job.at = "edit" /\ map'[job.of.id] # None /\ map'[job.of.id].live = job.of.live =>
        hookMsgs'[job.of.id].msgs[job.of.hook] = job.msg
  BY DEF UnderWay
<1> QED
  BY <1>1, <1>2, <1>3

\* A message of the chat.
LEMMA MessageAt ==
  ASSUME Base, NEW m \in DOMAIN chat
  PROVE  m # 0 /\ m \in 1..Len(chat) /\ chat[m] \in Message /\ chat[m].hook \in Editing
<1>1. chat \in Seq(Message)
  BY BaseParts DEF Values
<1>2. m \in 1..Len(chat) /\ Len(chat) \in Nat /\ chat[m] \in Message
  BY <1>1
<1> QED
  BY <1>2 DEF Message

\* What the invariant says of the titles.
Titled == \E f \in [1..lives -> Ids] : Kinship(f)

\* It is enough to show the titles after the step.
LEMMA TitledNext ==
  ASSUME NEW f \in [1..lives' -> Ids], Stores(f)', Lists(f)', UnderWay(f)'
  PROVE  Titled'
<1>1. Kinship(f)'
  BY DEF Kinship
<1> QED
  BY <1>1 DEF Titled

\* A state where nothing was queued or posted yet.
LEMMA KinInit == Init => Titled /\ Found
<1> SUFFICES ASSUME Init PROVE Titled /\ Found
  OBVIOUS
<1>1. PICK f \in [1..0 -> Ids] : TRUE
  <2>1. [k \in 1..0 |-> CHOOSE id \in Ids : TRUE] \in [1..0 -> Ids]
    OBVIOUS
  <2> QED
    BY <2>1
<1>2. f \in [1..lives -> Ids]
  BY DEF Init
<1>3. Stores(f)
  BY DEF Init, Stores, Kin, RowKin
<1>4. Lists(f) /\ UnderWay(f)
  BY DEF Init, Lists, UnderWay
<1>5. Found
  BY DEF Init, Found
<1> QED
  BY <1>2, <1>3, <1>4, <1>5 DEF Titled, Kinship

-----------------------------------------------------------------------------
(* The main loop's steps.                                                  *)

\* A new item has a title and no message.
LEMMA NewItemKin ==
  ASSUME Base, Titled, Found, NEW id \in Ids, NewItem(id)
  PROVE  Titled' /\ Found'
<1> USE BaseParts
<1>1. PICK f \in [1..lives -> Ids] : Kinship(f)
  BY DEF Titled
<1>2. lives \in Nat /\ lives' = lives + 1
  BY DEF NewItem, Values
<1>3. PICK g \in [1..lives' -> Ids] :
        /\ (\A k \in DOMAIN f : k \in DOMAIN g /\ g[k] = f[k]) /\ g[lives + 1] = id
        /\ lives + 1 \in DOMAIN g /\ DOMAIN f = 1..lives
  <2> DEFINE e == [k \in 1..(lives + 1) |-> IF k <= lives THEN f[k] ELSE id]
  <2>1. e \in [1..lives' -> Ids]
    BY <1>2
  <2>2. (\A k \in DOMAIN f : k \in DOMAIN e /\ e[k] = f[k]) /\ e[lives + 1] = id
          /\ lives + 1 \in DOMAIN e /\ DOMAIN f = 1..lives
    BY <1>2
  <2> QED
    BY <2>1, <2>2
<1>4. map[id] = None /\ Free
      /\ UNCHANGED <<records, hookMsgs, pendingHooks, sending, queue, hookMsgSaves, job, chat>>
  BY DEF NewItem, worker, shared
<1>5. /\ map'[id] = [live |-> lives + 1, status |-> "WAITING", msgs |-> NoMessages, fails |-> 0]
      /\ \A i \in Ids : i # id => map'[i] = map[i]
  BY DEF NewItem, Values
<1>6. \A i, h, m : Fits(chat, f, i, h, m) => Fits(chat, g, i, h, m)
  BY <1>1, <1>3 DEF Fits, Kinship, Stores
<1>7. \A i, x : RowKin(chat, f, i, x) => RowKin(chat, g, i, x)
  BY <1>3, <1>6 DEF RowKin
<1>8. \A i, x : Kin(chat, f, i, x) => Kin(chat, g, i, x)
  BY <1>7 DEF Kin
<1>9. Kin(chat, g, id, map'[id])
  BY <1>3, <1>5 DEF Kin, RowKin, Fits, Own, NoMessages
<1>10. Stores(g)'
  <2>1. \A m \in DOMAIN chat' : chat'[m].of \in DOMAIN g
    BY <1>1, <1>3, <1>4 DEF Kinship, Stores
  <2>2. \A i \in Ids : Kin(chat', g, i, map'[i]) /\ RowKin(chat', g, i, records'[i])
                         /\ Kin(chat', g, i, hookMsgs'[i])
    BY <1>1, <1>4, <1>5, <1>7, <1>8, <1>9 DEF Kinship, Stores
  <2>3. pendingHooks' = <<>>
    BY <1>4 DEF Free
  <2> QED
    BY <2>1, <2>2, <2>3 DEF Stores
<1>11. \A d : Known(f, map, hookMsgs, d) => Known(g, map', hookMsgs', d)
  BY <1>1, <1>2, <1>3, <1>4, <1>5 DEF Known, Seeded
<1>12. Lists(g)'
  BY <1>1, <1>4, <1>6, <1>11 DEF Kinship, Lists, Saving
<1>13. UnderWay(g)'
  <2>1. job # None => job.of.live # lives + 1
    BY <1>1, <1>2, <1>3 DEF Kinship, UnderWay, Known
  <2>2. job # None => job.of.id \in Ids
    BY <1>1 DEF Kinship, UnderWay, Known
  <2>3. job # None => Known(g, map', hookMsgs', job.of)
    BY <1>1, <1>11 DEF Kinship, UnderWay
  <2>4. job # None /\ job.at \in {"edit", "save"} =>
          Fits(chat, g, job.of.id, job.of.hook, job.msg) /\ Own(chat, job.of.live, job.msg)
    BY <1>1, <1>6 DEF Kinship, UnderWay
  <2>5. job # None /\ job.at = "edit" /\ map'[job.of.id] # None /\ map'[job.of.id].live = job.of.live =>
          hookMsgs[job.of.id].msgs[job.of.hook] = job.msg
    <3>1. job # None /\ map'[job.of.id] # None /\ map'[job.of.id].live = job.of.live =>
            map'[job.of.id] = map[job.of.id]
      BY <1>5, <2>1, <2>2
    <3> QED
      BY <1>1, <3>1 DEF Kinship, UnderWay
  <2> QED
    BY <1>4, <2>3, <2>4, <2>5 DEF UnderWay
<1>14. Found'
  <2>1. \A m \in DOMAIN chat : chat[m].of # lives + 1
    BY <1>1, <1>2, <1>3 DEF Kinship, Stores
  <2> QED
    BY <1>4, <1>5, <2>1 DEF Found
<1> QED
  BY <1>3, <1>10, <1>12, <1>13, <1>14, TitledNext

\* A step on items and rows keeps it when items keep their extraction and, but
\* for those with a cache of their own, their messages.
LEMMA ItemsKin ==
  ASSUME Base, NEW f \in [1..lives -> Ids], Kinship(f), Found,
         UNCHANGED <<chat, sending, queue, job, lives>>,
         hookMsgSaves' = hookMsgSaves \/ hookMsgSaves' = <<>>,
         \A i \in Ids : map'[i] # None =>
           /\ map[i] # None /\ map'[i].live = map[i].live /\ hookMsgs'[i] = hookMsgs[i]
           /\ OwnedBy(hookMsgs[i], map[i].live) \/ map'[i].msgs = map[i].msgs,
         \A i \in Ids : Kin(chat, f, i, map'[i]) /\ RowKin(chat, f, i, records'[i])
                          /\ Kin(chat, f, i, hookMsgs'[i]),
         \A k \in DOMAIN pendingHooks' : map'[pendingHooks'[k].id] = pendingHooks'[k].item
  PROVE  Titled' /\ Found'
<1>1. OwnersKept(f) /\ ChatKept
  BY DEF OwnersKept, Seeded, ChatKept
<1>2. Stores(f)'
  BY DEF Kinship, Stores
<1>3. Lists(f)'
  <2>1. CASE hookMsgSaves' = hookMsgSaves
    BY <1>1, <2>1, ListsKept DEF Kinship
  <2>2. CASE hookMsgSaves' = <<>>
    BY <1>1, <2>2, KnownKept DEF Kinship, Lists
  <2> QED
    BY <2>1, <2>2
<1>4. UnderWay(f)'
  <2>1. job # None => job.of.id \in Ids
    BY DEF Kinship, UnderWay, Known
  <2> QED
    BY <1>1, <2>1, UnderWayKept DEF Kinship
<1>5. Found'
  <2> SUFFICES ASSUME NEW m \in DOMAIN chat, NEW i \in Ids,
                      Reached(chat, m), map'[i] # None, map'[i].live = chat[m].of
               PROVE  Finds(job, chat, map'[i], hookMsgs'[i], m)
    BY DEF Found
  <2>1. /\ map[i] # None /\ map[i].live = chat[m].of /\ hookMsgs'[i] = hookMsgs[i]
        /\ OwnedBy(hookMsgs[i], chat[m].of) \/ map'[i].msgs = map[i].msgs
    OBVIOUS
  <2>2. Finds(job, chat, map[i], hookMsgs[i], m)
    BY <2>1 DEF Found
  <2> QED
    BY <2>1, <2>2 DEF Finds
<1>6. f \in [1..lives' -> Ids]
  OBVIOUS
<1> QED
  BY <1>2, <1>3, <1>4, <1>5, <1>6, TitledNext

\* A status change, a retry and the end of an item are such steps.
LEMMA ItemKin ==
  ASSUME Base, Titled, Found, NEW id \in Ids,
         RetryFailed(id) \/ DeleteExtract(id) \/ \E status \in Statuses : UpdateQueueStatus(id, status)
  PROVE  Titled' /\ Found'
<1> USE BaseParts
<1>1. PICK f \in [1..lives -> Ids] : Kinship(f)
  BY DEF Titled
<1>2. /\ map[id] \in Item /\ Free
      /\ \A i \in Ids : Kin(chat, f, i, map[i]) /\ RowKin(chat, f, i, records[i])
                          /\ Kin(chat, f, i, hookMsgs[i])
  BY <1>1 DEF RetryFailed, DeleteExtract, UpdateQueueStatus, Values, Kinship, Stores
<1>3. ASSUME NEW x \in Item, x.live = map[id].live, x.msgs = map[id].msgs
      PROVE  Kin(chat, f, id, x)
  <2>1. Kin(chat, f, id, map[id]) /\ map[id] # None
    BY <1>2, Facts
  <2> QED
    BY <1>3, <2>1 DEF Kin, RowKin
<1>4. CASE RetryFailed(id)
  <2> DEFINE x == [map[id] EXCEPT !.status = "WAITING"]
  <2>1. x \in Item /\ x.live = map[id].live /\ x.msgs = map[id].msgs
    BY <1>2, ItemFields DEF Statuses
  <2>2. map' = [map EXCEPT ![id] = x]
    BY <1>4 DEF RetryFailed
  <2> HIDE DEF x
  <2>3. Kin(chat, f, id, x)
    BY <1>3, <2>1
  <2>4. /\ map'[id] = x /\ \A i \in Ids : i # id => map'[i] = map[i]
        /\ UNCHANGED <<chat, sending, queue, job, lives, hookMsgSaves, hookMsgs, records>>
        /\ pendingHooks' = <<>>
    BY <1>2, <1>4, <2>2 DEF RetryFailed, worker, shared, Free, Values
  <2>5. \A i \in Ids : map'[i] # None =>
           /\ map[i] # None /\ map'[i].live = map[i].live /\ hookMsgs'[i] = hookMsgs[i]
           /\ OwnedBy(hookMsgs[i], map[i].live) \/ map'[i].msgs = map[i].msgs
    BY <1>2, <2>1, <2>4, Facts
  <2>6. \A i \in Ids : Kin(chat, f, i, map'[i]) /\ RowKin(chat, f, i, records'[i])
                          /\ Kin(chat, f, i, hookMsgs'[i])
    BY <1>2, <2>3, <2>4
  <2>7. \A k \in DOMAIN pendingHooks' : map'[pendingHooks'[k].id] = pendingHooks'[k].item
    BY <2>4
  <2> QED
    BY <1>1, <2>4, <2>5, <2>6, <2>7, ItemsKin
<1>5. CASE DeleteExtract(id)
  <2>1. /\ map'[id] = None /\ \A i \in Ids : i # id => map'[i] = map[i] /\ hookMsgs'[i] = hookMsgs[i]
        /\ hookMsgs'[id] = None \/ hookMsgs'[id] = hookMsgs[id]
        /\ UNCHANGED <<chat, sending, queue, job, lives, hookMsgSaves, records>>
        /\ pendingHooks' = <<>>
    BY <1>2, <1>5 DEF DeleteExtract, worker, shared, Free, Values
  <2>2. Kin(chat, f, id, None)
    BY DEF Kin, RowKin
  <2>3. \A i \in Ids : map'[i] # None =>
           /\ map[i] # None /\ map'[i].live = map[i].live /\ hookMsgs'[i] = hookMsgs[i]
           /\ OwnedBy(hookMsgs[i], map[i].live) \/ map'[i].msgs = map[i].msgs
    BY <2>1
  <2>4. \A i \in Ids : Kin(chat, f, i, map'[i]) /\ RowKin(chat, f, i, records'[i])
                          /\ Kin(chat, f, i, hookMsgs'[i])
    BY <1>2, <2>1, <2>2
  <2>5. \A k \in DOMAIN pendingHooks' : map'[pendingHooks'[k].id] = pendingHooks'[k].item
    BY <2>1
  <2> QED
    BY <1>1, <2>1, <2>3, <2>4, <2>5, ItemsKin
<1>6. ASSUME NEW status \in Statuses, UpdateQueueStatus(id, status)
      PROVE  Titled' /\ Found'
  <2> DEFINE x == [map[id] EXCEPT !.status = status]
             p == [id |-> id, item |-> x, change |-> changes + 1]
  <2>1. x \in Item /\ x.live = map[id].live /\ x.msgs = map[id].msgs
    BY <1>2, ItemFields
  <2>2. map' = [map EXCEPT ![id] = x] /\ records' = Record(id, x) /\ pendingHooks' = Append(pendingHooks, p)
    BY <1>6 DEF UpdateQueueStatus, QueuePendingHook
  <2>p. p.id = id /\ p.item = x
    OBVIOUS
  <2> HIDE DEF x, p
  <2>3. Kin(chat, f, id, x)
    BY <1>3, <2>1
  <2>4. /\ map'[id] = x /\ \A i \in Ids : i # id => map'[i] = map[i]
        /\ UNCHANGED <<chat, sending, queue, job, lives, hookMsgSaves, hookMsgs>>
        /\ \A i \in Ids : records'[i] = records[i] \/ (i = id /\ records'[i] = x)
    BY <1>2, <1>6, <2>2 DEF UpdateQueueStatus, worker, shared, Values, Record
  <2>5. \A i \in Ids : map'[i] # None =>
           /\ map[i] # None /\ map'[i].live = map[i].live /\ hookMsgs'[i] = hookMsgs[i]
           /\ OwnedBy(hookMsgs[i], map[i].live) \/ map'[i].msgs = map[i].msgs
    BY <1>2, <2>1, <2>4, Facts
  <2>6. \A i \in Ids : Kin(chat, f, i, map'[i]) /\ RowKin(chat, f, i, records'[i])
                          /\ Kin(chat, f, i, hookMsgs'[i])
    BY <1>2, <2>3, <2>4 DEF Kin
  <2>7. \A k \in DOMAIN pendingHooks' : pendingHooks'[k] = p
    BY <1>2, <2>2 DEF Free
  <2>8. \A k \in DOMAIN pendingHooks' : map'[pendingHooks'[k].id] = pendingHooks'[k].item
    BY <2>4, <2>7, <2>p
  <2> QED
    BY <1>1, <2>4, <2>5, <2>6, <2>8, ItemsKin
<1> QED
  BY <1>4, <1>5, <1>6

-----------------------------------------------------------------------------
(* The drains.                                                             *)

\* Items and rows while reports are drained: of their titles, and without a
\* new message where the cache is not the item's.
Settled(f) ==
  {s \in MapRows :
     \A i \in Ids :
       /\ Kin(chat, f, i, s.map[i]) /\ RowKin(chat, f, i, s.records[i])
       /\ (map[i] = None) <=> (s.map[i] = None)
       /\ map[i] # None =>
            /\ s.map[i].live = map[i].live
            /\ OwnedBy(hookMsgs[i], map[i].live) \/ s.map[i].msgs = map[i].msgs}

\* So they are before the first report.
LEMMA SettledFirst ==
  ASSUME Base, NEW f, Stores(f)
  PROVE  Kept \in Settled(f)
<1>1. Kept \in MapRows /\ Kept.map = map /\ Kept.records = records
  BY BaseParts DEF Values, Kept, MapRows
<1> QED
  BY <1>1 DEF Settled, Stores

\* A failure leaves them so.
LEMMA SettledFail ==
  ASSUME NEW f, NEW s \in Settled(f), NEW id \in Ids
  PROVE  RecordHookFail(s, id) \in Settled(f)
<1> DEFINE x == s.map[id]
           r == s.records[id]
           bumped == IF x = None THEN None ELSE [x EXCEPT !.fails = @ + 1]
           row == IF bumped # None /\ Persisted(bumped) THEN bumped
                  ELSE IF r = None THEN None ELSE [r EXCEPT !.fails = @ + 1]
           t == RecordHookFail(s, id)
<1>1. s \in MapRows /\ x \in Item \cup {None} /\ r \in Item \cup {None} /\ t \in MapRows
  BY RecordHookFailType DEF Settled, MapRows
<1>2. t = [map |-> [s.map EXCEPT ![id] = bumped], records |-> [s.records EXCEPT ![id] = row]]
  BY DEF RecordHookFail
<1>3. /\ (x = None) <=> (bumped = None)
      /\ x # None => bumped.live = x.live /\ bumped.msgs = x.msgs
  BY <1>1, ItemFields, Facts
<1>4. /\ row = None \/ row = bumped \/ (r # None /\ row.live = r.live /\ row.msgs = r.msgs)
  <2> HIDE DEF bumped
  <2> QED
    BY <1>1, ItemFields
<1>5. Kin(chat, f, id, x) /\ RowKin(chat, f, id, r)
  BY DEF Settled
<1>6. Kin(chat, f, id, bumped)
  <2> HIDE DEF bumped, x
  <2> QED
    BY <1>3, <1>5 DEF Kin, RowKin
<1>7. RowKin(chat, f, id, row)
  <2> HIDE DEF bumped, row, r
  <2> QED
    BY <1>4, <1>5, <1>6 DEF Kin, RowKin
<1>8. /\ t.map[id] = bumped /\ t.records[id] = row
      /\ \A i \in Ids : i # id => t.map[i] = s.map[i] /\ t.records[i] = s.records[i]
  <2> HIDE DEF bumped, row
  <2> QED
    BY <1>1, <1>2 DEF MapRows
<1> HIDE DEF bumped, row, t
<1>9. ASSUME NEW i \in Ids
      PROVE  /\ Kin(chat, f, i, t.map[i]) /\ RowKin(chat, f, i, t.records[i])
             /\ (map[i] = None) <=> (t.map[i] = None)
             /\ map[i] # None =>
                  /\ t.map[i].live = map[i].live
                  /\ OwnedBy(hookMsgs[i], map[i].live) \/ t.map[i].msgs = map[i].msgs
  BY <1>3, <1>6, <1>7, <1>8 DEF Settled
<1>10. t \in Settled(f)
  BY <1>1, <1>9 DEF Settled
<1> QED
  BY <1>10 DEF t

\* A message id to record.
Savings(f) == {e \in MsgSave : Saving(chat, f, map, hookMsgs, e)}

\* A message id that is recorded leaves them so.
LEMMA SettledSave ==
  ASSUME NEW f, NEW s \in Settled(f), NEW e \in Savings(f)
  PROVE  SaveHookMessage(s, e) \in Settled(f)
<1> DEFINE id == e.id
           x == s.map[id]
           r == s.records[id]
           item == IF x = None THEN None ELSE [x EXCEPT !.msgs[e.hook] = e.msg]
           row == IF r = None THEN None ELSE [r EXCEPT !.msgs[e.hook] = e.msg]
           t == SaveHookMessage(s, e)
<1>1. /\ e \in MsgSave /\ id \in Ids /\ e.hook \in Editing /\ e.msg \in 0..MaxChat
      /\ s \in MapRows /\ t \in MapRows
  BY SaveHookMessageType, Facts DEF Savings, MsgSave, Settled
<1>2. x \in Item \cup {None} /\ r \in Item \cup {None}
  BY <1>1 DEF MapRows
<1>3. /\ item \in Item \cup {None} /\ row \in Item \cup {None}
      /\ (x = None) <=> (item = None)
      /\ (r = None) <=> (row = None)
      /\ x # None => item.live = x.live /\ item.msgs = [x.msgs EXCEPT ![e.hook] = e.msg] /\ x.msgs \in MessageIds
      /\ r # None => row.live = r.live /\ row.msgs = [r.msgs EXCEPT ![e.hook] = e.msg] /\ r.msgs \in MessageIds
  <2>1. \A y \in Item : y.msgs \in MessageIds /\ y # None
    BY Facts DEF Item
  <2> DEFINE edited(y) == [y EXCEPT !.msgs[e.hook] = e.msg]
  <2>5. ASSUME NEW y \in Item
        PROVE  edited(y) \in Item /\ edited(y).live = y.live /\ edited(y).msgs = [y.msgs EXCEPT ![e.hook] = e.msg]
    BY <1>1 DEF Item, MessageIds
  <2>6. (x # None => item = edited(x)) /\ (r # None => row = edited(r))
    OBVIOUS
  <2> HIDE DEF edited
  <2>2. x # None => /\ item \in Item /\ item.live = x.live /\ item.msgs = [x.msgs EXCEPT ![e.hook] = e.msg]
    <3> HIDE DEF item, x
    <3> QED
      BY <1>2, <2>5, <2>6
  <2>3. r # None => /\ row \in Item /\ row.live = r.live /\ row.msgs = [r.msgs EXCEPT ![e.hook] = e.msg]
    <3> HIDE DEF row, r
    <3> QED
      BY <1>2, <2>5, <2>6
  <2>4. (x = None => item = None) /\ (r = None => row = None)
    OBVIOUS
  <2> HIDE DEF item, row, x, r
  <2> QED
    BY <1>2, <2>1, <2>2, <2>3, <2>4
<1>4. t = IF item = None THEN [map |-> s.map, records |-> [s.records EXCEPT ![id] = row]]
          ELSE IF item.live # e.live THEN s
          ELSE [map |-> [s.map EXCEPT ![id] = item],
                records |-> IF Persisted(item) THEN [s.records EXCEPT ![id] = item] ELSE s.records]
  <2>1. [s EXCEPT !.records[id] =
          IF @ = None THEN None ELSE [@ EXCEPT !.msgs[e.hook] = e.msg]]
        = [map |-> s.map, records |-> [s.records EXCEPT ![id] = row]]
    BY <1>1, <1>2 DEF MapRows
  <2> QED
    BY <2>1 DEF SaveHookMessage
<1>5. Kin(chat, f, id, x) /\ RowKin(chat, f, id, r)
  BY <1>1 DEF Settled
<1>6. Fits(chat, f, id, e.hook, e.msg) /\ Own(chat, e.live, e.msg) /\ Known(f, map, hookMsgs, e)
  BY DEF Savings, Saving
<1>7. RowKin(chat, f, id, row)
  <2> HIDE DEF row, r, id
  <2> QED
    BY <1>3, <1>5, <1>6 DEF RowKin, MessageIds
<1>8. item # None /\ item.live = e.live => Kin(chat, f, id, item)
  <2> HIDE DEF item, x, id
  <2> QED
    BY <1>3, <1>5, <1>6 DEF Kin, RowKin, MessageIds
<1>9. x # None /\ x.live = e.live => OwnedBy(hookMsgs[id], map[id].live)
  <2>1. x # None => map[id] # None /\ map[id].live = x.live
    BY <1>1 DEF Settled
  <2> HIDE DEF x
  <2> QED
    BY <1>6, <2>1 DEF Known, Seeded
<1>10. CASE item = None
  <2>1. /\ t.map = s.map /\ t.records[id] = row
        /\ \A i \in Ids : i # id => t.records[i] = s.records[i]
    <3> HIDE DEF item, row, id
    <3> QED
      BY <1>1, <1>4, <1>10 DEF MapRows
  <2> HIDE DEF t, row, item
  <2> QED
    BY <1>1, <1>7, <2>1 DEF Settled, t
<1>11. CASE item # None /\ item.live # e.live
  <2> HIDE DEF item, row, id
  <2>1. t = s
    BY <1>4, <1>11
  <2> QED
    BY <2>1
<1>12. CASE item # None /\ item.live = e.live
  <2>1. /\ t.map[id] = item /\ \A i \in Ids : i # id => t.map[i] = s.map[i]
        /\ \A i \in Ids : t.records[i] = s.records[i] \/ (i = id /\ t.records[i] = item)
    <3> HIDE DEF item, row, id
    <3> QED
      BY <1>1, <1>4, <1>12 DEF MapRows
  <2>2. x # None /\ item.live = x.live /\ OwnedBy(hookMsgs[id], map[id].live) /\ Kin(chat, f, id, item)
    BY <1>3, <1>8, <1>9, <1>12
  <2> HIDE DEF t, row, item
  <2>3. ASSUME NEW i \in Ids
        PROVE  /\ Kin(chat, f, i, t.map[i]) /\ RowKin(chat, f, i, t.records[i])
               /\ (map[i] = None) <=> (t.map[i] = None)
               /\ map[i] # None =>
                    /\ t.map[i].live = map[i].live
                    /\ OwnedBy(hookMsgs[i], map[i].live) \/ t.map[i].msgs = map[i].msgs
    <3>1. /\ Kin(chat, f, i, s.map[i]) /\ RowKin(chat, f, i, s.records[i])
          /\ (map[i] = None) <=> (s.map[i] = None)
          /\ map[i] # None =>
                  /\ s.map[i].live = map[i].live
                  /\ OwnedBy(hookMsgs[i], map[i].live) \/ s.map[i].msgs = map[i].msgs
      BY DEF Settled
    <3>2. CASE i # id
      BY <2>1, <3>1, <3>2
    <3>3. CASE i = id
      BY <1>12, <2>1, <2>2, <3>1, <3>3 DEF Kin
    <3> QED
      BY <3>2, <3>3
  <2>4. t \in Settled(f)
    BY <1>1, <2>3 DEF Settled
  <2> QED
    BY <2>4 DEF t
<1> QED
  BY <1>10, <1>11, <1>12

\* The reports to drain.
LEMMA SettledDrains ==
  ASSUME Base, NEW f, Kinship(f)
  PROVE  /\ FoldLeft(RecordHookFail, Kept, hookFails) \in Settled(f)
         /\ FoldLeft(SaveHookMessage, Kept, hookMsgSaves) \in Settled(f)
         /\ Drained \in Settled(f)
<1>1. Kept \in Settled(f)
  BY SettledFirst DEF Kinship
<1>2. hookFails \in Seq(Ids) /\ hookMsgSaves \in Seq(MsgSave)
  BY BaseParts DEF Values
<1>3. hookMsgSaves \in Seq(Savings(f))
  <2>1. \A k \in 1..Len(hookMsgSaves) : hookMsgSaves[k] \in Savings(f)
    BY <1>2 DEF Kinship, Lists, Savings
  <2> HIDE DEF Savings
  <2> QED
    BY <1>2, <2>1
<1>4. \A s \in Settled(f) : FoldLeft(SaveHookMessage, s, hookMsgSaves) \in Settled(f)
  BY <1>3, SettledSave, FoldSaves
<1>5. FoldLeft(RecordHookFail, Kept, hookFails) \in Settled(f)
  BY <1>1, <1>2, SettledFail, FoldFails
<1> QED
  BY <1>1, <1>4, <1>5 DEF Drained

\* The drains keep titles and messages.
LEMMA DrainsKin ==
  ASSUME Base, NEW f \in [1..lives -> Ids], Kinship(f), Found, Free,
         NEW s \in Settled(f), map' = s.map, records' = s.records,
         UNCHANGED <<chat, sending, queue, job, lives, hookMsgs, pendingHooks>>,
         hookMsgSaves' = hookMsgSaves \/ hookMsgSaves' = <<>>
  PROVE  Titled' /\ Found'
<1>1. \A i \in Ids : map'[i] # None =>
        /\ map[i] # None /\ map'[i].live = map[i].live /\ hookMsgs'[i] = hookMsgs[i]
        /\ OwnedBy(hookMsgs[i], map[i].live) \/ map'[i].msgs = map[i].msgs
  BY DEF Settled
<1>2. \A i \in Ids : Kin(chat, f, i, map'[i]) /\ RowKin(chat, f, i, records'[i])
                       /\ Kin(chat, f, i, hookMsgs'[i])
  BY DEF Settled, Kinship, Stores
<1>3. pendingHooks' = <<>>
  BY DEF Free
<1>4. \A k \in DOMAIN pendingHooks' : map'[pendingHooks'[k].id] = pendingHooks'[k].item
  BY <1>3
<1> QED
  BY <1>1, <1>2, <1>4, ItemsKin

\* A new process knows the messages in the items it restores, and posted none.
LEMMA RestartKin ==
  ASSUME Base, NEW f \in [1..lives -> Ids], Kinship(f),
         NEW rows \in [Ids -> Item \cup {None}],
         \A i \in Ids : RowKin(chat, f, i, rows[i]),
         NewProcess(rows)
  PROVE  Titled' /\ Found'
<1> USE BaseParts
<1>1. /\ hookMsgs' = [i \in Ids |-> None] /\ map' = Restored(rows) /\ records' = rows
      /\ pendingHooks' = <<>> /\ sending' = <<>> /\ queue' = <<>> /\ hookMsgSaves' = <<>>
      /\ job' = None /\ lives' = lives
  BY DEF NewProcess
<1>2. chat \in Seq(Message)
  BY DEF Values
<1>3. DOMAIN chat' = DOMAIN chat
  BY DEF NewProcess
<1>4. ASSUME NEW m \in DOMAIN chat
      PROVE  /\ chat'[m].of = chat[m].of /\ chat'[m].hook = chat[m].hook /\ ~chat'[m].here
             /\ chat'[m].known => \E id \in Ids : map'[id] # None /\ map'[id].msgs[chat[m].hook] = m
  <2>1. chat[m] \in Message
    BY <1>2
  <2> DEFINE k == \E id \in Ids : map'[id] # None /\ map'[id].msgs[chat[m].hook] = m
  <2>2. PICK b \in BOOLEAN : b = FALSE
    OBVIOUS
  <2>3. ~b
    BY <2>2
  <2>4. chat'[m] = [chat[m] EXCEPT !.here = b, !.known = k]
    BY <2>2, Zenon DEF NewProcess
  <2> HIDE DEF k
  <2>5. chat'[m] = [of |-> chat[m].of, hook |-> chat[m].hook, change |-> chat[m].change,
                    there |-> chat[m].there, known |-> k, here |-> b]
    BY <2>1, <2>4 DEF Message
  <2>6. chat'[m].of = chat[m].of /\ chat'[m].hook = chat[m].hook /\ ~chat'[m].here /\ (chat'[m].known => k)
    BY <2>3, <2>5
  <2> QED
    BY <2>6 DEF k
<1>5. ChatKept
  BY <1>3, <1>4 DEF ChatKept
<1>6. \A i \in Ids : map'[i] = None \/ (rows[i] # None /\ map'[i].live = rows[i].live /\ map'[i].msgs = rows[i].msgs)
  BY <1>1, ItemFields DEF Restored, Statuses
<1>7. \A i \in Ids : RowKin(chat', f, i, rows[i])
  BY <1>5, KinKept
<1>8. \A i \in Ids : RowKin(chat', f, i, map'[i])
  BY <1>6, <1>7 DEF RowKin
<1>9. \A i \in Ids : Kin(chat', f, i, map'[i]) /\ Kin(chat', f, i, hookMsgs'[i])
  <2>1. ASSUME NEW i \in Ids, NEW live, NEW h \in Editing, map'[i] # None
        PROVE  Own(chat', live, map'[i].msgs[h])
    <3>1. map'[i].msgs[h] # 0 => map'[i].msgs[h] \in DOMAIN chat
      BY <1>3, <1>8, <2>1 DEF RowKin, Fits
    <3> QED
      BY <1>4, <3>1 DEF Own
  <2> QED
    BY <1>1, <1>8, <2>1 DEF Kin, RowKin
<1>10. Stores(f)'
  <2>1. \A m \in DOMAIN chat' : chat'[m].of \in DOMAIN f
    BY <1>3, <1>4 DEF Kinship, Stores
  <2> QED
    BY <1>1, <1>7, <1>9, <2>1 DEF Stores
<1>11. Lists(f)' /\ UnderWay(f)'
  BY <1>1 DEF Lists, UnderWay
<1>12. Found'
  <2> SUFFICES ASSUME NEW m \in DOMAIN chat, NEW i \in Ids,
                      Reached(chat', m), map'[i] # None, map'[i].live = chat'[m].of
               PROVE  Finds(job', chat', map'[i], hookMsgs'[i], m)
    BY <1>3 DEF Found
  <2>1. PICK id \in Ids : map'[id] # None /\ map'[id].msgs[chat[m].hook] = m
    BY <1>4 DEF Reached
  <2>2. chat[m] \in Message /\ m # 0
    BY <1>2
  <2>3. chat'[m].hook \in Editing /\ chat'[m].hook = chat[m].hook
    BY <1>4, <2>2 DEF Message
  <2>4. f[chat'[m].of] = id
    BY <1>8, <2>1, <2>2, <2>3 DEF RowKin, Fits
  <2>5. f[chat'[m].of] = i
    BY <1>8 DEF RowKin
  <2> QED
    BY <1>1, <2>1, <2>3, <2>4, <2>5 DEF Finds, Busy, OwnedBy
<1>13. f \in [1..lives' -> Ids]
  BY <1>1
<1> QED
  BY <1>10, <1>11, <1>12, <1>13, TitledNext

\* Drains and restarts keep it.
LEMMA LoopKin ==
  ASSUME Base, Titled, Found, DrainHookFails \/ DrainHookMessages \/ MaybeRestart \/ Crash
  PROVE  Titled' /\ Found'
<1>1. PICK f \in [1..lives -> Ids] : Kinship(f)
  BY DEF Titled
<1>2. CASE DrainHookFails
  <2> DEFINE s == FoldLeft(RecordHookFail, Kept, hookFails)
  <2>1. s \in Settled(f)
    BY <1>1, SettledDrains
  <2>2. map' = s.map /\ records' = s.records /\ Free
        /\ UNCHANGED <<chat, sending, queue, job, lives, hookMsgs, pendingHooks, hookMsgSaves>>
    BY <1>2, Zenon DEF DrainHookFails, worker
  <2> HIDE DEF s
  <2> QED
    BY <1>1, <2>1, <2>2, DrainsKin
<1>3. CASE DrainHookMessages
  <2> DEFINE s == FoldLeft(SaveHookMessage, Kept, hookMsgSaves)
  <2>1. s \in Settled(f)
    BY <1>1, SettledDrains
  <2>2. map' = s.map /\ records' = s.records /\ Free /\ hookMsgSaves' = <<>>
        /\ UNCHANGED <<chat, sending, queue, job, lives, hookMsgs, pendingHooks>>
    BY <1>3, Zenon DEF DrainHookMessages, worker
  <2> HIDE DEF s
  <2> QED
    BY <1>1, <2>1, <2>2, DrainsKin
<1>4. CASE MaybeRestart
  <2>1. Drained \in Settled(f) /\ Free
    BY <1>1, <1>4, SettledDrains, RestartCases
  <2>2. CASE NewProcess(Drained.records)
    <3>1. Drained.records \in [Ids -> Item \cup {None}] /\ \A i \in Ids : RowKin(chat, f, i, Drained.records[i])
      BY <2>1 DEF Settled, MapRows
    <3> QED
      BY <1>1, <2>2, <3>1, RestartKin
  <2>3. CASE /\ map' = Drained.map /\ records' = Drained.records
             /\ hookFails' = <<>> /\ hookMsgSaves' = <<>>
             /\ UNCHANGED <<pendingHooks, sending, pendingRestart, changes, lives, worker,
                            hookMsgs, failWake, msgWake, chat>>
    <3>1. UNCHANGED <<chat, sending, queue, job, lives, hookMsgs, pendingHooks>> /\ hookMsgSaves' = <<>>
      BY <2>3, Zenon DEF worker
    <3>2. map' = Drained.map /\ records' = Drained.records
      BY <2>3
    <3> QED
      BY <1>1, <2>1, <3>1, <3>2, DrainsKin
  <2> QED
    BY <1>4, <2>2, <2>3, RestartCases, Zenon
<1>5. CASE Crash
  <2>1. records \in [Ids -> Item \cup {None}] /\ \A i \in Ids : RowKin(chat, f, i, records[i])
    BY <1>1, BaseParts DEF Values, Kinship, Stores
  <2> QED
    BY <1>1, <1>5, <2>1, RestartKin DEF Crash
<1> QED
  BY <1>2, <1>3, <1>4, <1>5

-----------------------------------------------------------------------------
(* Queueing hooks.                                                         *)

\* A status change seeds the cache of the item and queues deliveries of it.
LEMMA RunKin ==
  ASSUME Base, Titled, Found, RunAllHooks
  PROVE  Titled' /\ Found'
<1> USE BaseParts
<1>1. PICK f \in [1..lives -> Ids] : Kinship(f)
  BY DEF Titled
<1> DEFINE p == Head(pendingHooks)
<1>2. p \in Pending /\ map[p.id] = p.item /\ pendingHooks # <<>> /\ sending = <<>>
      /\ \A k \in DOMAIN Tail(pendingHooks) : k + 1 \in DOMAIN pendingHooks
           /\ Tail(pendingHooks)[k] = pendingHooks[k + 1]
  <2>1. pendingHooks # <<>> /\ sending = <<>>
    BY Zenon DEF RunAllHooks
  <2>2. pendingHooks \in Seq(Pending)
    BY DEF Values
  <2>3. /\ p \in Pending /\ 1 \in DOMAIN pendingHooks /\ p = pendingHooks[1]
        /\ \A k \in DOMAIN Tail(pendingHooks) : k + 1 \in DOMAIN pendingHooks
             /\ Tail(pendingHooks)[k] = pendingHooks[k + 1]
    BY <2>1, <2>2, HeadTail
  <2> QED
    BY <1>1, <2>1, <2>3 DEF Kinship, Stores
<1>3. /\ pendingHooks' = Tail(pendingHooks)
      /\ sending' = Deliveries(p)
      /\ hookMsgs' = [hookMsgs EXCEPT ![p.id] = SeedHookMessages(hookMsgs[p.id], p.item)]
      /\ UNCHANGED <<map, records, lives, queue, job, hookMsgSaves, chat>>
  <2>1. /\ sending' = Deliveries(p)
        /\ hookMsgs' = [hookMsgs EXCEPT ![p.id] = SeedHookMessages(hookMsgs[p.id], p.item)]
    BY Zenon DEF RunAllHooks
  <2>2. /\ pendingHooks' = Tail(pendingHooks)
        /\ UNCHANGED <<map, records, lives, queue, job, hookMsgSaves, chat>>
    BY Zenon DEF RunAllHooks, worker
  <2> QED
    BY <2>1, <2>2, Zenon
<1> HIDE DEF p
<1> DEFINE id == p.id
           x == p.item
           c == hookMsgs[id]
           q == SeedHookMessages(c, x)
<1>4. id \in Ids /\ x \in Item /\ x # None /\ c \in Cache \cup {None} /\ map[id] = x
  BY <1>2, Facts DEF Pending, Values
<1>5. /\ hookMsgs'[id] = q /\ q # None /\ q.live = x.live
      /\ \A i \in Ids : i # id => hookMsgs'[i] = hookMsgs[i]
      /\ \A h \in Editing : q.msgs[h] = IF OwnedBy(c, x.live) /\ c.msgs[h] # 0 THEN c.msgs[h] ELSE x.msgs[h]
  <2>1. q \in Cache /\ q.live = x.live
          /\ \A h \in Editing : q.msgs[h] = IF OwnedBy(c, x.live) /\ c.msgs[h] # 0 THEN c.msgs[h] ELSE x.msgs[h]
    BY <1>4, SeedType
  <2> HIDE DEF q, c, x
  <2> QED
    BY <1>3, <1>4, <2>1, Facts DEF Values, q, c, x
<1>6. Kin(chat, f, id, x) /\ Kin(chat, f, id, c)
  BY <1>1, <1>4 DEF Kinship, Stores
<1> HIDE DEF q, c, x, id
<1>7. Kin(chat, f, id, q)
  <2>1. OwnedBy(c, x.live) => c # None /\ c.live = x.live
    BY DEF OwnedBy
  <2> QED
    BY <1>4, <1>5, <1>6, <2>1 DEF Kin, RowKin
<1>8. OwnersKept(f) /\ ChatKept
  <2>1. \A i \in Ids : \A live : Seeded(map[i], hookMsgs[i], live) => Seeded(map'[i], hookMsgs'[i], live)
    BY <1>3, <1>4, <1>5 DEF Seeded, OwnedBy
  <2> QED
    BY <1>3, <2>1 DEF OwnersKept, ChatKept
<1>9. Stores(f)'
  <2>1. \A i \in Ids : Kin(chat, f, i, hookMsgs'[i])
    BY <1>1, <1>5, <1>7 DEF Kinship, Stores
  <2> QED
    BY <1>1, <1>2, <1>3, <2>1 DEF Kinship, Stores
<1>10. Lists(f)'
  <2> DEFINE S == {d \in Seq(Delivery) : \A k \in DOMAIN d : Known(f, map', hookMsgs', d[k])}
  <2>1. <<>> \in S
    OBVIOUS
  <2>2. ASSUME NEW d \in S, NEW h \in Hooks
        PROVE  Fire(p, d, h) \in S
    <3> DEFINE e == [id |-> p.id, hook |-> h, live |-> p.item.live, change |-> p.change]
    <3>1. e \in Delivery /\ e.id = id /\ e.live = x.live
      BY <1>2 DEF Pending, Item, Delivery, id, x
    <3>2. Known(f, map', hookMsgs', e)
      <4> HIDE DEF e
      <4> QED
        BY <1>3, <1>4, <1>5, <1>6, <3>1 DEF Known, Seeded, OwnedBy, Kin, RowKin
    <3>3. Fire(p, d, h) = d \/ Fire(p, d, h) = Append(d, e)
      BY DEF Fire
    <3> HIDE DEF e
    <3>4. Append(d, e) \in Seq(Delivery) /\ \A k \in DOMAIN Append(d, e) :
            Append(d, e)[k] = e \/ (k \in DOMAIN d /\ Append(d, e)[k] = d[k])
      BY <3>1, Appended
    <3>5. Append(d, e) \in S
      BY <3>2, <3>4
    <3> HIDE DEF S
    <3> QED
      BY <3>3, <3>5
  <2>3. sending' \in S
    <3> HIDE DEF S
    <3>1. Deliveries(p) \in S
      BY <2>1, <2>2, FoldFires
    <3> QED
      BY <1>3, <3>1
  <2>4. \A k \in DOMAIN sending' : Known(f, map', hookMsgs', sending'[k])
    BY <2>3
  <2>5. \A k \in DOMAIN queue' : Known(f, map', hookMsgs', queue'[k])
    BY <1>1, <1>3, <1>8, KnownKept DEF Kinship, Lists
  <2>6. \A k \in DOMAIN hookMsgSaves' : Saving(chat', f, map', hookMsgs', hookMsgSaves'[k])
    BY <1>1, <1>3, <1>8, SavingKept DEF Kinship, Lists
  <2> QED
    BY <2>4, <2>5, <2>6 DEF Lists
<1>11. UnderWay(f)'
  <2>1. job # None /\ job.at = "edit" => job.msg # 0 /\ job.of.hook \in Editing
    BY DEF JobShape
  <2>2. job # None => job.of.id \in Ids /\ Seeded(map[job.of.id], hookMsgs[job.of.id], job.of.live)
    BY <1>1 DEF Kinship, UnderWay, Known
  <2>3. job # None /\ job.at = "edit" /\ map[job.of.id] # None /\ map[job.of.id].live = job.of.live
           /\ hookMsgs[job.of.id].msgs[job.of.hook] = job.msg =>
          hookMsgs'[job.of.id].msgs[job.of.hook] = job.msg
    <3>1. job # None /\ map[job.of.id] # None /\ map[job.of.id].live = job.of.live =>
            OwnedBy(hookMsgs[job.of.id], job.of.live)
      BY <2>2 DEF Seeded
    <3> QED
      BY <1>4, <1>5, <2>1, <2>2, <3>1 DEF c
  <2> QED
    BY <1>1, <1>3, <1>8, <2>3, UnderWayKept DEF Kinship
<1>12. Found'
  <2> SUFFICES ASSUME NEW m \in DOMAIN chat, NEW i \in Ids,
                      Reached(chat, m), map[i] # None, map[i].live = chat[m].of
               PROVE  Finds(job, chat, map[i], hookMsgs'[i], m)
    BY <1>3 DEF Found
  <2>1. Finds(job, chat, map[i], hookMsgs[i], m)
    BY DEF Found
  <2>2. CASE i # id
    BY <1>5, <2>1, <2>2
  <2>3. CASE i = id
    <3>1. m # 0 /\ chat[m].hook \in Editing
      BY MessageAt
    <3>2. OwnedBy(q, chat[m].of)
      BY <1>4, <1>5, <2>3 DEF OwnedBy
    <3> QED
      BY <1>4, <1>5, <2>1, <2>3, <3>1, <3>2 DEF Finds, c
  <2> QED
    BY <2>2, <2>3
<1>13. f \in [1..lives' -> Ids]
  BY <1>3
<1> QED
  BY <1>9, <1>10, <1>11, <1>12, <1>13, TitledNext

\* A step that leaves items, caches and messages, and delivers what is known.
LEMMA ListsKin ==
  ASSUME Titled, UNCHANGED <<map, records, hookMsgs, pendingHooks, lives, chat>>,
         \A f : Lists(f) /\ UnderWay(f) => Lists(f)' /\ UnderWay(f)'
  PROVE  Titled'
<1>1. PICK f \in [1..lives -> Ids] : Kinship(f)
  BY DEF Titled
<1>2. Stores(f)'
  BY <1>1 DEF Kinship, Stores
<1>3. f \in [1..lives' -> Ids] /\ Lists(f)' /\ UnderWay(f)'
  BY <1>1 DEF Kinship
<1> QED
  BY <1>2, <1>3, TitledNext

\* Queueing and asking for a restart keep it.
LEMMA QueueKin ==
  ASSUME Base, Titled, Found, QueueHook \/ AskRestart
  PROVE  Titled' /\ Found'
<1> USE BaseParts
<1>1. UNCHANGED <<map, records, hookMsgs, pendingHooks, lives, chat, job, hookMsgSaves>>
  BY DEF QueueHook, AskRestart, worker, shared
<1>2. Found'
  BY <1>1 DEF Found
<1>3. ASSUME NEW f, Lists(f), UnderWay(f)
      PROVE  Lists(f)' /\ UnderWay(f)'
  <2>1. UnderWay(f)'
    BY <1>1, <1>3 DEF UnderWay
  <2>2. CASE QueueHook
    <3>1. \A k \in DOMAIN sending' : k + 1 \in DOMAIN sending /\ sending'[k] = sending[k + 1]
      BY <2>2, HandedOver
    <3>2. /\ Head(sending) = sending[1] /\ 1 \in DOMAIN sending
          /\ \A k \in DOMAIN queue' : queue'[k] = Head(sending) \/ (k \in DOMAIN queue /\ queue'[k] = queue[k])
      BY <2>2, HandedOver
    <3>3. /\ \A k \in DOMAIN sending : Known(f, map, hookMsgs, sending[k])
          /\ \A k \in DOMAIN queue : Known(f, map, hookMsgs, queue[k])
      BY <1>3 DEF Lists
    <3>4. \A k \in DOMAIN sending' : Known(f, map, hookMsgs, sending'[k])
      BY <3>1, <3>3
    <3>5. \A k \in DOMAIN queue' : Known(f, map, hookMsgs, queue'[k])
      BY <3>2, <3>3
    <3>6. Lists(f)'
      BY <1>1, <1>3, <3>4, <3>5 DEF Lists
    <3> QED
      BY <2>1, <3>6
  <2>3. CASE AskRestart
    BY <1>1, <1>3, <2>1, <2>3 DEF Lists, AskRestart, worker
  <2> QED
    BY <2>2, <2>3
<1> QED
  BY <1>1, <1>2, <1>3, ListsKin

-----------------------------------------------------------------------------
(* The worker's steps.                                                     *)

\* Messages stay what they are, but for what they show and being there.
ChatSame ==
  /\ DOMAIN chat' = DOMAIN chat
  /\ \A m \in DOMAIN chat :
       /\ chat'[m].of = chat[m].of /\ chat'[m].hook = chat[m].hook
       /\ chat'[m].here => chat[m].here
       /\ Reached(chat', m) => Reached(chat, m)

\* What the worker goes on to is its own.
Goes(f) ==
  job' # None =>
    /\ Known(f, map, hookMsgs, job'.of)
    /\ job'.at \in {"edit", "save"} =>
         Fits(chat, f, job'.of.id, job'.of.hook, job'.msg) /\ Own(chat, job'.of.live, job'.msg)
    /\ job'.at = "edit" /\ map[job'.of.id] # None /\ map[job'.of.id].live = job'.of.live =>
         hookMsgs[job'.of.id].msgs[job'.of.hook] = job'.msg

\* A step of the worker that posts and saves nothing.
LEMMA WorkKin ==
  ASSUME Base, NEW f \in [1..lives -> Ids], Kinship(f), Found,
         UNCHANGED <<map, records, hookMsgs, pendingHooks, lives, sending, hookMsgSaves>>,
         ChatSame, Goes(f),
         \A k \in DOMAIN queue' : \E i \in DOMAIN queue : queue'[k] = queue[i],
         job # None => job.at # "save",
         job' # None => job'.at # "save",
         \A m \in DOMAIN chat, i \in Ids :
           Reached(chat, m) /\ map[i] # None /\ map[i].live = chat[m].of => ~Busy(job', chat, "post", m)
  PROVE  Titled' /\ Found'
<1>1. OwnersKept(f) /\ ChatKept
  BY DEF OwnersKept, Seeded, ChatKept, ChatSame
<1>2. Stores(f)'
  <2>1. \A i \in Ids : Kin(chat', f, i, map'[i]) /\ RowKin(chat', f, i, records'[i])
                         /\ Kin(chat', f, i, hookMsgs'[i])
    BY <1>1, KinKept DEF Kinship, Stores
  <2>2. \A m \in DOMAIN chat' : chat'[m].of \in DOMAIN f
    BY DEF Kinship, Stores, ChatSame
  <2> QED
    BY <2>1, <2>2 DEF Kinship, Stores
<1>3. Lists(f)'
  <2>1. \A k \in DOMAIN queue' : Known(f, map', hookMsgs', queue'[k])
    BY DEF Kinship, Lists
  <2>2. \A k \in DOMAIN sending' : Known(f, map', hookMsgs', sending'[k])
    BY DEF Kinship, Lists
  <2>3. \A k \in DOMAIN hookMsgSaves' : Saving(chat', f, map', hookMsgs', hookMsgSaves'[k])
    BY <1>1, SavingKept DEF Kinship, Lists
  <2> QED
    BY <2>1, <2>2, <2>3 DEF Lists
<1>4. UnderWay(f)'
  <2>1. job' # None /\ job'.at \in {"edit", "save"} =>
          Fits(chat', f, job'.of.id, job'.of.hook, job'.msg) /\ Own(chat', job'.of.live, job'.msg)
    BY <1>1, FitsKept DEF Goes
  <2> QED
    BY <2>1 DEF Goes, UnderWay
<1>5. Found'
  <2> SUFFICES ASSUME NEW m \in DOMAIN chat, NEW i \in Ids,
                      Reached(chat', m), map[i] # None, map[i].live = chat'[m].of
               PROVE  Finds(job', chat', map[i], hookMsgs[i], m)
    BY DEF Found, ChatSame
  <2>1. Reached(chat, m) /\ map[i].live = chat[m].of /\ chat'[m].of = chat[m].of /\ chat'[m].hook = chat[m].hook
    BY DEF ChatSame
  <2>2. Finds(job, chat, map[i], hookMsgs[i], m)
    BY <2>1 DEF Found
  <2>3. ~Busy(job, chat, "save", m) /\ ~Busy(job', chat', "save", m) /\ ~Busy(job', chat, "post", m)
    BY <2>1 DEF Busy
  <2>4. ~Busy(job', chat', "post", m)
    BY <2>1, <2>3 DEF Busy
  <2> QED
    BY <2>1, <2>2, <2>3, <2>4 DEF Finds
<1>6. f \in [1..lives' -> Ids]
  OBVIOUS
<1> QED
  BY <1>2, <1>3, <1>4, <1>5, <1>6, TitledNext

\* The delivery goes on to something else than to edit, post or save.
LEMMA GoesOn ==
  ASSUME Base, Titled, Found, job # None, job.at # "save", ChatSame,
         UNCHANGED <<map, records, hookMsgs, pendingHooks, lives, sending, hookMsgSaves, queue>>,
         job' = None \/ (job'.of = job.of /\ job'.at \notin {"edit", "post", "save"})
  PROVE  Titled' /\ Found'
<1>1. PICK f \in [1..lives -> Ids] : Kinship(f)
  BY DEF Titled
<1>2. Goes(f)
  BY <1>1 DEF Goes, Kinship, UnderWay
<1>3. \A k \in DOMAIN queue' : \E i \in DOMAIN queue : queue'[k] = queue[i]
  OBVIOUS
<1>4. \A m \in DOMAIN chat, i \in Ids :
        Reached(chat, m) /\ map[i] # None /\ map[i].live = chat[m].of => ~Busy(job', chat, "post", m)
  BY DEF Busy
<1> QED
  BY <1>1, <1>2, <1>3, <1>4, WorkKin

\* A chat that stays is the same.
LEMMA SameChat ==
  ASSUME chat' = chat
  PROVE  ChatSame
BY DEF ChatSame, Reached

\* The worker takes the next delivery.
LEMMA TakeKin ==
  ASSUME Base, Titled, Found, Take
  PROVE  Titled' /\ Found'
<1> USE BaseParts
<1>1. PICK f \in [1..lives -> Ids] : Kinship(f)
  BY DEF Titled
<1>2. UNCHANGED <<map, records, hookMsgs, pendingHooks, lives, sending, hookMsgSaves, chat>> /\ job = None
  BY DEF Take, main, shared
<1> DEFINE d == Head(queue)
<1>3. d \in Delivery /\ 1 \in DOMAIN queue /\ d = queue[1] /\ queue' = Tail(queue)
      /\ \A k \in DOMAIN Tail(queue) : k + 1 \in DOMAIN queue /\ Tail(queue)[k] = queue[k + 1]
  BY HeadTail DEF Take, Values
<1>4. job' = [of |-> d, at |-> IF d.hook \in Editing THEN "lookup" ELSE "post", msg |-> 0]
  BY DEF Take
<1> HIDE DEF d
<1>5. job'.of = d /\ job'.at = (IF d.hook \in Editing THEN "lookup" ELSE "post")
  BY <1>4
<1>6. Goes(f)
  BY <1>1, <1>3, <1>5 DEF Goes, Kinship, Lists
<1>7. \A k \in DOMAIN queue' : \E i \in DOMAIN queue : queue'[k] = queue[i]
  BY <1>3
<1>8. \A m \in DOMAIN chat, i \in Ids :
        Reached(chat, m) /\ map[i] # None /\ map[i].live = chat[m].of => ~Busy(job', chat, "post", m)
  BY <1>5, MessageAt DEF Busy
<1>9. job' # None => job'.at # "save"
  BY <1>5
<1> QED
  BY <1>1, <1>2, <1>6, <1>7, <1>8, <1>9, SameChat, WorkKin

\* The delivery under way is a job of its title.
LEMMA JobFits ==
  ASSUME Base, NEW f \in [1..lives -> Ids], Kinship(f), job # None
  PROVE  /\ job \in Job /\ job.of \in Delivery /\ job.of.id \in Ids /\ job.of.hook \in Hooks
         /\ Known(f, map, hookMsgs, job.of)
         /\ \A i \in Ids : \A live : map[i] # None /\ map[i].live = live /\ live = job.of.live =>
              i = job.of.id /\ OwnedBy(hookMsgs[i], live)
<1>1. job \in Job /\ job.of \in Delivery /\ job.of.id \in Ids /\ job.of.hook \in Hooks
  BY BaseParts DEF Values, Job, Delivery
<1>2. Known(f, map, hookMsgs, job.of)
  BY DEF Kinship, UnderWay
<1>3. \A i \in Ids : map[i] # None => f[map[i].live] = i
  BY DEF Kinship, Stores, Kin, RowKin
<1> QED
  BY <1>1, <1>2, <1>3 DEF Known, Seeded

\* It looks up the id of its message.
LEMMA LookupKin ==
  ASSUME Base, Titled, Found, Lookup
  PROVE  Titled' /\ Found'
<1> USE BaseParts
<1>1. PICK f \in [1..lives -> Ids] : Kinship(f)
  BY DEF Titled
<1>2. /\ UNCHANGED <<map, records, hookMsgs, pendingHooks, lives, sending, hookMsgSaves, chat, queue>>
      /\ job # None /\ job.at = "lookup"
  BY DEF Lookup, main, shared, At
<1> DEFINE d == job.of
           c == hookMsgs[d.id]
           msg == IF OwnedBy(c, d.live) THEN c.msgs[d.hook] ELSE 0
<1>3. job' = [of |-> d, at |-> IF msg # 0 THEN "edit" ELSE "post", msg |-> msg]
  BY DEF Lookup
<1>4. d.hook \in Editing /\ d.id \in Ids
  BY <1>1, <1>2, JobFits DEF JobShape
<1>5. msg # 0 => OwnedBy(c, d.live) /\ msg = c.msgs[d.hook]
  OBVIOUS
<1>6. OwnedBy(c, d.live) => c # None /\ c.live = d.live /\ msg = c.msgs[d.hook]
  BY DEF OwnedBy
<1>7. Kin(chat, f, d.id, c)
  BY <1>1, <1>4 DEF Kinship, Stores
<1> HIDE DEF msg
<1>8. job'.of = d /\ job'.msg = msg /\ job'.at = IF msg # 0 THEN "edit" ELSE "post"
  BY <1>3
<1>9. Known(f, map, hookMsgs, d)
  BY <1>1, <1>2, JobFits
<1>10. Goes(f)
  <2>1. msg # 0 => Fits(chat, f, d.id, d.hook, msg) /\ Own(chat, d.live, msg)
    BY <1>4, <1>5, <1>6, <1>7 DEF Kin, RowKin
  <2>2. msg # 0 => hookMsgs[d.id].msgs[d.hook] = msg
    BY <1>5
  <2> HIDE DEF d, c
  <2> QED
    BY <1>8, <1>9, <2>1, <2>2 DEF Goes
<1>11. \A m \in DOMAIN chat, i \in Ids :
        Reached(chat, m) /\ map[i] # None /\ map[i].live = chat[m].of => ~Busy(job', chat, "post", m)
  <2> SUFFICES ASSUME NEW m \in DOMAIN chat, NEW i \in Ids,
                      Reached(chat, m), map[i] # None, map[i].live = chat[m].of, Busy(job', chat, "post", m)
               PROVE  FALSE
    OBVIOUS
  <2>1. d.live = chat[m].of /\ d.hook = chat[m].hook /\ msg = 0
    BY <1>8 DEF Busy
  <2>2. i = d.id /\ OwnedBy(c, chat[m].of)
    BY <1>1, <1>2, <2>1, JobFits
  <2>3. c.msgs[d.hook] = m
    BY <1>2, <2>1, <2>2 DEF Found, Finds, Busy
  <2> QED
    BY <1>6, <2>1, <2>2, <2>3, MessageAt
<1>12. job' # None => job'.at # "save"
  BY <1>8
<1>13. \A k \in DOMAIN queue' : \E i \in DOMAIN queue : queue'[k] = queue[i]
  BY <1>2
<1> QED
  BY <1>1, <1>2, <1>10, <1>11, <1>12, <1>13, SameChat, WorkKin

\* It edits its message.
LEMMA EditKin ==
  ASSUME Base, Titled, Found, Edit
  PROVE  Titled' /\ Found'
<1> USE BaseParts
<1>1. PICK f \in [1..lives -> Ids] : Kinship(f)
  BY DEF Titled
<1>2. /\ UNCHANGED <<map, records, hookMsgs, pendingHooks, lives, sending, hookMsgSaves, queue>>
      /\ job # None /\ job.at = "edit" /\ job \in Job /\ job.msg # 0 /\ job.of.hook \in Editing
  BY <1>1, JobFits DEF Edit, main, shared, At, JobShape
<1>3. job.msg \in DOMAIN chat /\ job.of.change \in 1..MaxChanges
  <2>1. job.msg \in DOMAIN chat
    BY <1>1, <1>2 DEF Kinship, UnderWay, Fits
  <2> QED
    BY <1>1, <1>2, <2>1, JobFits DEF Delivery
<1>4. \A st \in {"post", "failed", "done"} : To(st) => job' = JobTo(st) /\ job' # None /\ job'.of = job.of /\ job'.at = st
  BY <1>2, JobAt, ToStep
<1>5. CASE chat' = [chat EXCEPT ![job.msg].change = job.of.change] /\ (To("done") \/ To("failed"))
  <2> DEFINE e == [chat[job.msg] EXCEPT !.change = job.of.change]
  <2>1. chat' = [chat EXCEPT ![job.msg] = e]
    BY <1>5
  <2>2. e.of = chat[job.msg].of /\ e.hook = chat[job.msg].hook /\ e.here = chat[job.msg].here
        /\ e.known = chat[job.msg].known /\ e.there = chat[job.msg].there
    BY <1>3, MessageAt, MessageEdited
  <2> HIDE DEF e
  <2>3. ChatSame
    BY <1>3, <2>1, <2>2 DEF ChatSame, Reached, Values
  <2>4. job'.of = job.of /\ job'.at \notin {"edit", "post", "save"}
    BY <1>4, <1>5
  <2> QED
    BY <1>2, <2>3, <2>4, GoesOn
<1>6. CASE To("failed") /\ UNCHANGED chat
  <2>1. job'.of = job.of /\ job'.at \notin {"edit", "post", "save"}
    BY <1>4, <1>6
  <2> QED
    BY <1>2, <1>6, <2>1, SameChat, GoesOn
<1>7. CASE ~chat[job.msg].there /\ To("post") /\ UNCHANGED chat
  <2>1. job'.of = job.of /\ job'.at = "post"
    BY <1>4, <1>7
  <2>2. Goes(f)
    BY <1>1, <1>2, <2>1, JobFits DEF Goes
  <2>3. \A m \in DOMAIN chat, i \in Ids :
          Reached(chat, m) /\ map[i] # None /\ map[i].live = chat[m].of => ~Busy(job', chat, "post", m)
    <3> SUFFICES ASSUME NEW m \in DOMAIN chat, NEW i \in Ids,
                        Reached(chat, m), map[i] # None, map[i].live = chat[m].of, Busy(job', chat, "post", m)
                 PROVE  FALSE
      OBVIOUS
    <3>1. job.of.live = chat[m].of /\ job.of.hook = chat[m].hook
      BY <2>1 DEF Busy
    <3>2. i = job.of.id /\ OwnedBy(hookMsgs[i], chat[m].of)
      BY <1>1, <1>2, <3>1, JobFits
    <3>3. hookMsgs[i].msgs[job.of.hook] = m
      BY <1>2, <3>1, <3>2 DEF Found, Finds, Busy
    <3>4. job.msg = m
      BY <1>1, <1>2, <3>1, <3>2, <3>3 DEF Kinship, UnderWay
    <3> QED
      BY <1>7, <3>4 DEF Reached
  <2>4. job' # None => job'.at # "save"
    BY <2>1
  <2>5. \A k \in DOMAIN queue' : \E i \in DOMAIN queue : queue'[k] = queue[i]
    BY <1>2
  <2> QED
    BY <1>1, <1>2, <1>7, <2>2, <2>3, <2>4, <2>5, SameChat, WorkKin
<1> QED
  BY <1>5, <1>6, <1>7, Zenon DEF Edit

\* The steps after the answer.
LEMMA AnswerKin ==
  ASSUME Base, Titled, Found, WakeForMessage \/ ReportHookFail \/ Finish
  PROVE  Titled' /\ Found'
<1> USE BaseParts
<1>1. UNCHANGED <<map, records, hookMsgs, pendingHooks, lives, sending, hookMsgSaves, queue, chat>>
  BY DEF WakeForMessage, ReportHookFail, Finish, main, shared
<1>2. job # None /\ job.at # "save" /\ job \in Job
  <2>1. job # None /\ job.at # "save"
    BY DEF WakeForMessage, ReportHookFail, Finish, At
  <2> QED
    BY <2>1 DEF Values
<1>3. job' = None \/ To("done") \/ To("reported")
  BY DEF WakeForMessage, ReportHookFail, Finish
<1>4. job' = None \/ (job'.of = job.of /\ job'.at \notin {"edit", "post", "save"})
  <2>1. \A st \in {"reported", "done"} : To(st) => job'.of = job.of /\ job'.at = st
    BY <1>2, JobAt, ToStep
  <2> QED
    BY <1>3, <2>1
<1> QED
  BY <1>1, <1>2, <1>4, SameChat, GoesOn

\* Somebody deletes a message.
LEMMA VanishKin ==
  ASSUME Base, Titled, Found, NEW n \in DOMAIN chat, Vanish(n)
  PROVE  Titled' /\ Found'
<1> USE BaseParts
<1>1. PICK f \in [1..lives -> Ids] : Kinship(f)
  BY DEF Titled
<1>2. UNCHANGED <<map, records, hookMsgs, pendingHooks, lives, sending, hookMsgSaves, queue, job>>
  BY DEF Vanish, main, worker, shared
<1>3. PICK b \in BOOLEAN : b = FALSE
  OBVIOUS
<1> DEFINE e == [chat[n] EXCEPT !.there = b]
<1>4. ~b /\ chat' = [chat EXCEPT ![n] = e]
  BY <1>3, Zenon DEF Vanish
<1>5. e.of = chat[n].of /\ e.hook = chat[n].hook /\ ~e.there /\ e.here = chat[n].here
  BY <1>4, MessageAt, MessageGone
<1> HIDE DEF e
<1>6. DOMAIN chat' = DOMAIN chat /\ chat'[n] = e /\ \A m \in DOMAIN chat : m # n => chat'[m] = chat[m]
  BY <1>4 DEF Values
<1>7. ChatKept
  BY <1>5, <1>6 DEF ChatKept
<1>8. \A m \in DOMAIN chat : Reached(chat', m) => m # n /\ chat'[m] = chat[m]
  BY <1>5, <1>6 DEF Reached
<1>9. OwnersKept(f)
  BY <1>2 DEF OwnersKept
<1>10. Stores(f)'
  <2>1. \A i \in Ids : Kin(chat', f, i, map'[i]) /\ RowKin(chat', f, i, records'[i])
                         /\ Kin(chat', f, i, hookMsgs'[i])
    BY <1>1, <1>2, <1>7, KinKept DEF Kinship, Stores
  <2>2. \A m \in DOMAIN chat' : chat'[m].of \in DOMAIN f
    BY <1>1, <1>5, <1>6 DEF Kinship, Stores
  <2> QED
    BY <1>1, <1>2, <2>1, <2>2 DEF Kinship, Stores
<1>11. Lists(f)'
  BY <1>1, <1>2, <1>7, <1>9, ListsKept DEF Kinship
<1>12. UnderWay(f)'
  BY <1>1, <1>2, <1>7, <1>9, UnderWayKept DEF Kinship
<1>13. Found'
  <2> SUFFICES ASSUME NEW m \in DOMAIN chat, NEW i \in Ids,
                      Reached(chat', m), map[i] # None, map[i].live = chat'[m].of
               PROVE  Finds(job, chat', map[i], hookMsgs[i], m)
    BY <1>2, <1>6 DEF Found
  <2>1. chat'[m] = chat[m] /\ Reached(chat, m)
    BY <1>8 DEF Reached
  <2>2. Finds(job, chat, map[i], hookMsgs[i], m)
    BY <2>1 DEF Found
  <2> QED
    BY <2>1, <2>2 DEF Finds, Busy
<1>14. f \in [1..lives' -> Ids]
  BY <1>2
<1> QED
  BY <1>10, <1>11, <1>12, <1>13, <1>14, TitledNext

\* What is posted joins the chat; its id goes to the step that saves it.
LEMMA PostedKin ==
  ASSUME Base, Titled, Found, job # None, job.at = "post", job.of.hook \in Editing,
         NEW e \in Message, e.of = job.of.live, e.hook = job.of.hook, chat' = Append(chat, e),
         UNCHANGED <<map, records, hookMsgs, pendingHooks, lives, sending, hookMsgSaves, queue>>,
         job'.of = job.of, job' # None,
         \/ job'.at = "save" /\ job'.msg = Len(chat) + 1
         \/ job'.at \in {"done", "failed"} /\ ~e.known
  PROVE  Titled' /\ Found'
<1> USE BaseParts
<1>1. PICK f \in [1..lives -> Ids] : Kinship(f)
  BY DEF Titled
<1> DEFINE n == Len(chat) + 1
<1>2. /\ \A m \in DOMAIN chat : m # n /\ m \in DOMAIN chat' /\ chat'[m] = chat[m]
      /\ n \in DOMAIN chat' /\ chat'[n] = e /\ \A m \in DOMAIN chat' : m = n \/ m \in DOMAIN chat
  <2>1. chat \in Seq(Message) /\ Len(chat) \in Nat /\ DOMAIN chat = 1..Len(chat)
    BY DEF Values
  <2>2. Append(chat, e) \in Seq(Message) /\ Len(Append(chat, e)) = Len(chat) + 1
        /\ DOMAIN Append(chat, e) = 1..(Len(chat) + 1)
    BY <2>1
  <2> QED
    BY <2>1, <2>2, AppendProperties
<1>3. /\ job \in Job /\ job.of.id \in Ids /\ Known(f, map, hookMsgs, job.of)
      /\ \A i \in Ids : \A live : map[i] # None /\ map[i].live = live /\ live = job.of.live =>
              i = job.of.id /\ OwnedBy(hookMsgs[i], live)
  BY <1>1, JobFits
<1> HIDE DEF n
<1>4. ChatKept
  BY <1>2 DEF ChatKept
<1>5. OwnersKept(f)
  BY DEF OwnersKept
<1>6. Stores(f)'
  <2>1. \A i \in Ids : Kin(chat', f, i, map'[i]) /\ RowKin(chat', f, i, records'[i])
                         /\ Kin(chat', f, i, hookMsgs'[i])
    BY <1>1, <1>4, KinKept DEF Kinship, Stores
  <2>2. \A m \in DOMAIN chat' : chat'[m].of \in DOMAIN f
    BY <1>1, <1>2, <1>3 DEF Kinship, Stores, Known
  <2> QED
    BY <1>1, <2>1, <2>2 DEF Kinship, Stores
<1>7. Lists(f)'
  BY <1>1, <1>4, <1>5, ListsKept DEF Kinship
<1>8. UnderWay(f)'
  <2>1. Known(f, map', hookMsgs', job'.of)
    BY <1>3
  <2>2. job'.at \in {"edit", "save"} => job'.at = "save" /\ job'.msg = n
    BY DEF n
  <2>3. Fits(chat', f, job.of.id, job.of.hook, n) /\ Own(chat', job.of.live, n)
    BY <1>2, <1>3 DEF Fits, Own, Known
  <2> QED
    BY <2>1, <2>2, <2>3 DEF UnderWay
<1>9. Found'
  <2> SUFFICES ASSUME NEW m \in DOMAIN chat', NEW i \in Ids,
                      Reached(chat', m), map[i] # None, map[i].live = chat'[m].of
               PROVE  Finds(job', chat', map[i], hookMsgs[i], m)
    BY DEF Found
  <2>1. ~Busy(job', chat', "post", m)
    BY DEF Busy
  <2>2. CASE m = n
    <3>1. job'.at = "save" /\ job'.msg = n
      BY <1>2, <2>2 DEF Reached, n
    <3>2. Busy(job', chat', "save", m)
      BY <1>2, <2>2, <3>1 DEF Busy
    <3> QED
      BY <2>1, <2>2, <3>1, <3>2 DEF Finds
  <2>3. CASE m # n
    <3>1. m \in DOMAIN chat /\ chat'[m] = chat[m] /\ Reached(chat, m)
      BY <1>2, <2>3 DEF Reached
    <3>2. Finds(job, chat, map[i], hookMsgs[i], m)
      BY <3>1 DEF Found
    <3>3. ~Busy(job, chat, "post", m) /\ ~Busy(job, chat, "save", m)
      BY <3>2 DEF Finds, Busy
    <3>4. ~Busy(job', chat', "save", m)
      BY <3>1, <3>3 DEF Busy
    <3> QED
      BY <2>1, <3>1, <3>2, <3>3, <3>4 DEF Finds
  <2> QED
    BY <2>2, <2>3
<1>10. f \in [1..lives' -> Ids]
  OBVIOUS
<1> QED
  BY <1>6, <1>7, <1>8, <1>9, <1>10, TitledNext

\* It posts a message.
LEMMA PostKin ==
  ASSUME Base, Titled, Found, Post
  PROVE  Titled' /\ Found'
<1> USE BaseParts
<1>2. /\ UNCHANGED <<map, records, hookMsgs, pendingHooks, lives, sending, hookMsgSaves, queue>>
      /\ job # None /\ job.at = "post" /\ job \in Job
  <2>1. job # None /\ job.at = "post"
      /\ UNCHANGED <<map, records, hookMsgs, pendingHooks, lives, sending, hookMsgSaves, queue>>
    BY DEF Post, main, shared, At
  <2> QED
    BY <2>1 DEF Values
<1>3. \A st \in {"failed", "done"} : To(st) => job'.of = job.of /\ job' # None /\ job'.at = st
  BY <1>2, JobAt, ToStep
<1>4. CASE (To("done") \/ To("failed")) /\ UNCHANGED chat
  <2>1. job'.of = job.of /\ job'.at \notin {"edit", "post", "save"}
    BY <1>3, <1>4
  <2> QED
    BY <1>2, <1>4, <2>1, SameChat, GoesOn
<1>5. ASSUME NEW known \in BOOLEAN, job.of.hook \in Editing
      PROVE  /\ Posted(known) \in Message /\ Posted(known).of = job.of.live /\ Posted(known).hook = job.of.hook
             /\ Posted(known).known = known
  <2>1. job.of.live \in 1..MaxLives /\ job.of.change \in 1..MaxChanges
    BY <1>2 DEF Job, Delivery
  <2>2. PICK b \in BOOLEAN : b = TRUE
    OBVIOUS
  <2>3. Posted(known) = [of |-> job.of.live, hook |-> job.of.hook, change |-> job.of.change,
                         there |-> b, known |-> known, here |-> b]
    BY <2>2, Zenon DEF Posted
  <2> QED
    BY <1>5, <2>1, <2>3 DEF Message
<1>6. CASE job.of.hook \in Editing /\ Len(chat) < MaxChat /\ chat' = Append(chat, Posted(TRUE))
           /\ job' = [of |-> job.of, at |-> "save", msg |-> Len(chat) + 1]
  <2>1. job'.of = job.of /\ job'.at = "save" /\ job'.msg = Len(chat) + 1
    BY <1>6
  <2>2. job' # None
    <3>1. Len(chat) + 1 \in 0..MaxChat
      BY <1>6, Facts DEF Values
    <3>2. job' \in Job
      BY <1>2, <1>6, <3>1 DEF Job, Steps
    <3> QED
      BY <3>2, Facts
  <2> DEFINE e == Posted(TRUE)
  <2>3. e \in Message /\ e.of = job.of.live /\ e.hook = job.of.hook /\ chat' = Append(chat, e)
    BY <1>5, <1>6
  <2> HIDE DEF e
  <2> QED
    BY <1>2, <1>6, <2>1, <2>2, <2>3, PostedKin
<1>7. CASE job.of.hook \in Editing /\ chat' = Append(chat, Posted(FALSE)) /\ (To("done") \/ To("failed"))
  <2>1. job'.of = job.of /\ job' # None /\ job'.at \in {"done", "failed"}
    BY <1>3, <1>7
  <2> DEFINE e == Posted(FALSE)
  <2>2. PICK b \in BOOLEAN : b = FALSE
    OBVIOUS
  <2>3. e = Posted(b)
    BY <2>2, Zenon
  <2>4. chat' = Append(chat, e)
    BY <1>7
  <2> HIDE DEF e
  <2>5. e \in Message /\ e.of = job.of.live /\ e.hook = job.of.hook /\ ~e.known
    BY <1>5, <1>7, <2>2, <2>3
  <2> QED
    BY <1>2, <1>7, <2>1, <2>4, <2>5, PostedKin
<1> QED
  BY <1>4, <1>6, <1>7, Zenon DEF Post

\* It saves the id of what it posted, where the next delivery finds it.
LEMMA SaveKin ==
  ASSUME Base, Titled, Found, Save
  PROVE  Titled' /\ Found'
<1> USE BaseParts
<1>1. PICK f \in [1..lives -> Ids] : Kinship(f)
  BY DEF Titled
<1>2. /\ UNCHANGED <<map, records, pendingHooks, lives, sending, queue, chat>>
      /\ job # None /\ job.at = "save"
  BY DEF Save, main, At
<1> DEFINE d == job.of
           c == hookMsgs[d.id]
           own == IF c = None THEN [live |-> d.live, msgs |-> NoMessages] ELSE c
           q == [own EXCEPT !.msgs[d.hook] = job.msg]
           e == [id |-> d.id, hook |-> d.hook, live |-> d.live, msg |-> job.msg]
<1>3. /\ job \in Job /\ d \in Delivery /\ d.id \in Ids /\ d.hook \in Editing
      /\ job.msg \in 1..MaxChat /\ c \in Cache \cup {None}
      /\ Known(f, map, hookMsgs, d)
      /\ \A i \in Ids : \A live : map[i] # None /\ map[i].live = live /\ live = d.live =>
              i = d.id /\ OwnedBy(hookMsgs[i], live)
  <2>1. /\ job \in Job /\ d \in Delivery /\ d.id \in Ids
        /\ Known(f, map, hookMsgs, d)
        /\ \A i \in Ids : \A live : map[i] # None /\ map[i].live = live /\ live = d.live =>
              i = d.id /\ OwnedBy(hookMsgs[i], live)
    BY <1>1, <1>2, JobFits
  <2>2. d.hook \in Editing /\ job.msg \in 1..MaxChat
    BY <1>2, <2>1, Facts DEF Job, JobShape
  <2>3. c \in Cache \cup {None}
    BY <2>1 DEF Values
  <2> QED
    BY <2>1, <2>2, <2>3
<1>4. /\ \A m \in DOMAIN chat, i \in Ids :
           Reached(chat, m) /\ map[i] # None /\ map[i].live = chat[m].of
             /\ chat[m].of = d.live /\ chat[m].hook = d.hook => job.msg = m
  BY <1>2 DEF Found, Finds, Busy
<1>5. Fits(chat, f, d.id, d.hook, job.msg) /\ Own(chat, d.live, job.msg)
  BY <1>1, <1>2 DEF Kinship, UnderWay
<1>6. \A st \in {"saved", "done"} : To(st) => job'.of = d /\ job'.at = st /\ job' # None
  BY <1>2, <1>3, JobAt, ToStep
<1>7. CASE /\ c = None \/ OwnedBy(c, d.live)
           /\ hookMsgs' = [hookMsgs EXCEPT ![d.id] = q]
           /\ hookMsgSaves' = Append(hookMsgSaves, e)
           /\ To("saved")
  <2>1. own \in Cache /\ own.live = d.live /\ own.msgs \in MessageIds
        /\ own.msgs = IF c = None THEN NoMessages ELSE c.msgs
    <3>1. c = None => own \in Cache /\ own.live = d.live /\ own.msgs = NoMessages
      BY <1>3, Facts DEF Cache, Delivery, NoMessages, MessageIds
    <3>2. c # None => own \in Cache /\ own.live = d.live /\ own.msgs = c.msgs
      BY <1>3, <1>7 DEF OwnedBy
    <3>3. own \in Cache => own.msgs \in MessageIds
      BY DEF Cache
    <3> HIDE DEF own
    <3> QED
      BY <3>1, <3>2, <3>3
  <2>2. q \in Cache /\ q.live = d.live /\ q.msgs = [own.msgs EXCEPT ![d.hook] = job.msg]
    <3>1. ASSUME NEW y \in Cache, NEW h \in Editing, NEW m \in 1..MaxChat
          PROVE  LET z == [y EXCEPT !.msgs[h] = m] IN
                   z \in Cache /\ z.live = y.live /\ z.msgs = [y.msgs EXCEPT ![h] = m]
      BY DEF Cache, MessageIds
    <3> HIDE DEF own, d
    <3> QED
      BY <1>3, <2>1, <3>1
  <2>3. e.id = d.id /\ e.live = d.live /\ e.hook = d.hook /\ e.msg = job.msg
    OBVIOUS
  <2>4. e \in MsgSave
    BY <1>3 DEF MsgSave, Delivery
  <2> HIDE DEF q, own, e
  <2>5. /\ hookMsgs'[d.id] = q /\ \A i \in Ids : i # d.id => hookMsgs'[i] = hookMsgs[i]
        /\ q # None
    BY <1>3, <1>7, <2>2, Facts DEF Values
  <2>6. q.msgs[d.hook] = job.msg /\ \A h \in Editing : h # d.hook => q.msgs[h] = own.msgs[h]
    BY <1>3, <2>1, <2>2 DEF MessageIds
  <2>7. Kin(chat, f, d.id, q)
    <3>1. Kin(chat, f, d.id, c)
      BY <1>1, <1>3 DEF Kinship, Stores
    <3>2. \A h \in Editing : h # d.hook =>
            Fits(chat, f, d.id, h, q.msgs[h]) /\ Own(chat, d.live, q.msgs[h])
      <4>1. CASE c = None
        BY <2>1, <2>6, <4>1 DEF NoMessages, Fits, Own
      <4>2. CASE c # None
        BY <1>7, <2>1, <2>6, <3>1, <4>2 DEF OwnedBy, Kin, RowKin
      <4> QED
        BY <4>1, <4>2
    <3>3. d.live \in DOMAIN f /\ f[d.live] = d.id
      BY <1>3 DEF Known
    <3> QED
      BY <1>5, <2>2, <2>6, <3>2, <3>3 DEF Kin, RowKin
  <2>8. OwnersKept(f) /\ ChatKept
    <3>1. \A i \in Ids : \A live : Seeded(map[i], hookMsgs[i], live) => Seeded(map'[i], hookMsgs'[i], live)
      BY <1>2, <1>7, <2>2, <2>5 DEF Seeded, OwnedBy
    <3> QED
      BY <1>2, <3>1 DEF OwnersKept, ChatKept
  <2>9. Stores(f)'
    <3>1. \A i \in Ids : Kin(chat, f, i, hookMsgs'[i])
      BY <1>1, <2>5, <2>7 DEF Kinship, Stores
    <3> QED
      BY <1>1, <1>2, <3>1 DEF Kinship, Stores
  <2>10. Lists(f)'
    <3>1. Saving(chat', f, map', hookMsgs', e)
      <4>1. Known(f, map, hookMsgs, e)
        BY <1>3, <2>3 DEF Known
      <4>2. Known(f, map', hookMsgs', e)
        BY <2>8, <4>1, KnownKept
      <4> QED
        BY <1>2, <1>5, <2>3, <4>2 DEF Saving
    <3>2. \A k \in DOMAIN hookMsgSaves : Saving(chat', f, map', hookMsgs', hookMsgSaves[k])
      BY <1>1, <2>8, SavingKept DEF Kinship, Lists
    <3>3. \A k \in DOMAIN hookMsgSaves' : hookMsgSaves'[k] = e \/ (k \in DOMAIN hookMsgSaves /\ hookMsgSaves'[k] = hookMsgSaves[k])
      <4>1. hookMsgSaves \in Seq(MsgSave) /\ hookMsgSaves' = Append(hookMsgSaves, e)
        BY <1>7, Zenon DEF Values
      <4>2. \A k \in DOMAIN Append(hookMsgSaves, e) :
              Append(hookMsgSaves, e)[k] = e \/ (k \in DOMAIN hookMsgSaves /\ Append(hookMsgSaves, e)[k] = hookMsgSaves[k])
        BY <2>4, <4>1, Appended
      <4> QED
        BY <4>1, <4>2, Zenon
    <3>4. \A k \in DOMAIN sending' : Known(f, map', hookMsgs', sending'[k])
      BY <1>1, <1>2, <2>8, KnownKept DEF Kinship, Lists
    <3>5. \A k \in DOMAIN queue' : Known(f, map', hookMsgs', queue'[k])
      BY <1>1, <1>2, <2>8, KnownKept DEF Kinship, Lists
    <3>6. \A k \in DOMAIN hookMsgSaves' : Saving(chat', f, map', hookMsgs', hookMsgSaves'[k])
      BY <3>1, <3>2, <3>3
    <3> QED
      BY <3>4, <3>5, <3>6 DEF Lists
  <2>11. UnderWay(f)'
    <3>1. Known(f, map', hookMsgs', d)
      BY <1>3, <2>8, KnownKept
    <3> QED
      BY <1>6, <1>7, <3>1 DEF UnderWay
  <2>12. Found'
    <3> SUFFICES ASSUME NEW m \in DOMAIN chat, NEW i \in Ids,
                        Reached(chat, m), map[i] # None, map[i].live = chat[m].of
                 PROVE  Finds(job', chat, map[i], hookMsgs'[i], m)
      BY <1>2 DEF Found
    <3>1. ~Busy(job', chat, "post", m) /\ ~Busy(job', chat, "save", m)
      BY <1>6, <1>7 DEF Busy
    <3>2. Finds(job, chat, map[i], hookMsgs[i], m) /\ chat[m].hook \in Editing
      BY MessageAt DEF Found
    <3>3. CASE chat[m].of = d.live /\ chat[m].hook = d.hook
      <4>1. job.msg = m /\ i = d.id
        BY <1>3, <1>4, <3>3
      <4> QED
        BY <2>2, <2>5, <2>6, <3>1, <3>3, <4>1 DEF Finds, OwnedBy
    <3>4. CASE chat[m].of = d.live /\ chat[m].hook # d.hook
      <4>1. i = d.id /\ OwnedBy(c, d.live) /\ ~Busy(job, chat, "save", m)
        BY <1>3, <3>4 DEF Busy
      <4>2. c.msgs[chat[m].hook] = m /\ c # None
        BY <3>2, <3>4, <4>1 DEF Finds, OwnedBy
      <4> QED
        BY <2>1, <2>2, <2>5, <2>6, <3>1, <3>2, <3>4, <4>1, <4>2 DEF Finds, OwnedBy
    <3>5. CASE chat[m].of # d.live
      <4>1. ~Busy(job, chat, "save", m)
        BY <3>5 DEF Busy
      <4>2. CASE i = d.id
        BY <1>7, <2>2, <2>5, <3>1, <3>2, <3>5, <4>1, <4>2 DEF Finds, OwnedBy
      <4>3. CASE i # d.id
        BY <2>5, <3>1, <3>2, <4>1, <4>3 DEF Finds
      <4> QED
        BY <4>2, <4>3
    <3> QED
      BY <3>3, <3>4, <3>5
  <2>13. f \in [1..lives' -> Ids]
    BY <1>2
  <2> QED
    BY <2>9, <2>10, <2>11, <2>12, <2>13, TitledNext
<1>8. CASE /\ ~(c = None \/ OwnedBy(c, d.live))
           /\ To("done") /\ UNCHANGED <<hookMsgs, hookMsgSaves>>
  <2>1. ~Seeded(map[d.id], c, d.live) \/ map[d.id] = None \/ map[d.id].live # d.live
    BY <1>8 DEF Seeded
  <2>2. Stores(f)' /\ Lists(f)'
    BY <1>1, <1>2, <1>8 DEF Kinship, Stores, Lists
  <2>3. UnderWay(f)'
    <3>1. Known(f, map', hookMsgs', d)
      BY <1>2, <1>3, <1>8
    <3> QED
      BY <1>6, <1>8, <3>1 DEF UnderWay
  <2>4. Found'
    <3> SUFFICES ASSUME NEW m \in DOMAIN chat, NEW i \in Ids,
                        Reached(chat, m), map[i] # None, map[i].live = chat[m].of
                 PROVE  Finds(job', chat, map[i], hookMsgs[i], m)
      BY <1>2, <1>8 DEF Found
    <3>1. ~Busy(job', chat, "post", m) /\ ~Busy(job', chat, "save", m)
      BY <1>6, <1>8 DEF Busy
    <3>2. Finds(job, chat, map[i], hookMsgs[i], m)
      BY DEF Found
    <3>3. ~Busy(job, chat, "save", m)
      BY <1>3, <1>8 DEF Busy
    <3> QED
      BY <3>1, <3>2, <3>3 DEF Finds
  <2>5. f \in [1..lives' -> Ids]
    BY <1>2
  <2> QED
    BY <2>2, <2>3, <2>4, <2>5, TitledNext
<1> QED
  BY <1>7, <1>8, Zenon DEF Save

-----------------------------------------------------------------------------
(* The theorems.                                                           *)

\* Every step keeps the invariant.
LEMMA HookStep ==
  ASSUME HookInv, [Next]_vars
  PROVE  HookInv'
<1>1. Base /\ Titled /\ Found
  BY DEF HookInv, Titled
<1>2. Base'
  BY <1>1, BaseStep
<1>3. Titled' /\ Found'
  <2>1. CASE UNCHANGED vars
    <3>1. Found'
      BY <1>1, <2>1 DEF Found, vars, main, worker, shared
    <3>2. UNCHANGED <<map, records, hookMsgs, pendingHooks, lives, chat, sending, queue, hookMsgSaves, job>>
      BY <2>1 DEF vars, main, worker, shared
    <3>3. ASSUME NEW f, Lists(f), UnderWay(f)
          PROVE  Lists(f)' /\ UnderWay(f)'
      BY <3>2, <3>3 DEF Lists, UnderWay
    <3> QED
      BY <1>1, <3>1, <3>2, <3>3, ListsKin
  <2>2. CASE Next
    BY <1>1, <2>2, NewItemKin, ItemKin, RunKin, QueueKin, TakeKin, LookupKin, EditKin, PostKin,
       SaveKin, AnswerKin, LoopKin, VanishKin, Zenon
    DEF Next
  <2> QED
    BY <2>1, <2>2
<1> QED
  BY <1>2, <1>3 DEF HookInv, Titled

\* It holds in every reachable state.
LEMMA HookInvAlways == Spec => []HookInv
<1>1. Init => HookInv
  BY BaseInit, KinInit DEF HookInv, Titled
<1>2. HookInv /\ [Next]_vars => HookInv'
  BY HookStep
<1> QED
  BY <1>1, <1>2, PTL DEF Spec

\* Only an edit changes what a message shows, that of the delivery under way.
LEMMA ChangedByEdit ==
  ASSUME Base, [Next]_vars, NEW m \in DOMAIN chat, chat'[m].change # chat[m].change
  PROVE  job # None /\ job.at = "edit" /\ job.msg = m
<1> USE BaseParts
<1>1. CASE Edit
  <2>1. job # None /\ job.at = "edit"
        /\ (chat' = chat \/ chat' = [chat EXCEPT ![job.msg].change = job.of.change])
    BY <1>1, Zenon DEF Edit, At
  <2>2. chat' = [chat EXCEPT ![job.msg].change = job.of.change] => m = job.msg
    BY DEF Values
  <2> QED
    BY <2>1, <2>2
<1>2. CASE Post
  <2>1. chat' = chat \/ chat' = Append(chat, Posted(TRUE)) \/ chat' = Append(chat, Posted(FALSE))
    BY <1>2, Zenon DEF Post
  <2>2. \A e : Append(chat, e)[m] = chat[m]
    BY DEF Values
  <2> QED
    BY <2>1, <2>2, Zenon
<1>3. ASSUME NEW n \in DOMAIN chat, Vanish(n)
      PROVE  FALSE
  <2>1. chat[m] \in Message /\ chat[n] \in Message
    BY MessageAt
  <2> DEFINE e == [chat[n] EXCEPT !.there = FALSE]
  <2>2. chat' = [chat EXCEPT ![n] = e]
    BY <1>3 DEF Vanish
  <2>3. e.change = chat[n].change
    BY <2>1 DEF Message
  <2> HIDE DEF e
  <2> QED
    BY <2>2, <2>3 DEF Values
<1>4. ASSUME NEW rows, NewProcess(rows)
      PROVE  FALSE
  <2>1. chat[m] \in Message
    BY MessageAt
  <2> DEFINE k == \E id \in Ids : map'[id] # None /\ map'[id].msgs[chat[m].hook] = m
  <2>2. PICK b : b = FALSE
    OBVIOUS
  <2>3. chat'[m] = [chat[m] EXCEPT !.here = b, !.known = k]
    BY <1>4, <2>2, Zenon DEF NewProcess
  <2> HIDE DEF k
  <2>4. chat'[m].change = chat[m].change
    BY <2>1, <2>3 DEF Message
  <2> QED
    BY <2>4
<1>5. ASSUME chat' = chat
      PROVE  FALSE
  BY <1>5
<1>6. CASE MaybeRestart
  BY <1>4, <1>5, <1>6, RestartCases, Zenon
<1>7. CASE UNCHANGED vars
  BY <1>5, <1>7 DEF vars
<1>8. CASE Next /\ ~Edit /\ ~Post /\ ~MaybeRestart
  BY <1>3, <1>4, <1>5, <1>8, Zenon
  DEF Next, NewItem, RetryFailed, DeleteExtract, UpdateQueueStatus, RunAllHooks, QueueHook,
      DrainHookFails, DrainHookMessages, Take, Lookup, Save, WakeForMessage, ReportHookFail, Finish,
      AskRestart, Crash
<1> QED
  BY <1>1, <1>2, <1>6, <1>7, <1>8

\* Only a post adds a message, of the delivery under way.
LEMMA AddedByPost ==
  ASSUME Base, [Next]_vars, Len(chat') > Len(chat)
  PROVE  job # None /\ job.at = "post"
<1> USE BaseParts
<1>0. Len(chat) \in Nat
  BY DEF Values
<1>1. CASE Edit
  <2>1. chat' = chat \/ chat' = [chat EXCEPT ![job.msg].change = job.of.change]
    BY <1>1, Zenon DEF Edit
  <2>2. Len([chat EXCEPT ![job.msg].change = job.of.change]) = Len(chat)
    BY DEF Values
  <2> QED
    BY <1>0, <2>1, <2>2
<1>2. CASE Post
  BY <1>2, Zenon DEF Post, At
<1>3. ASSUME NEW n \in DOMAIN chat, Vanish(n)
      PROVE  FALSE
  <2> DEFINE e == [chat[n] EXCEPT !.there = FALSE]
  <2>1. chat' = [chat EXCEPT ![n] = e]
    BY <1>3 DEF Vanish
  <2>2. Len([chat EXCEPT ![n] = e]) = Len(chat)
    <3> HIDE DEF e
    <3> QED
      BY DEF Values
  <2> QED
    BY <1>0, <2>1, <2>2
<1>4. ASSUME NEW rows \in [Ids -> Item \cup {None}], NewProcess(rows)
      PROVE  FALSE
  <2>1. DOMAIN chat' = DOMAIN chat
    BY <1>4 DEF NewProcess
  <2>2. Base'
    BY <1>4, NewProcessBase
  <2>3. chat' \in Seq(Message) /\ chat \in Seq(Message)
    BY <2>2, BasePartsNext DEF Values
  <2> QED
    BY <1>0, <2>1, <2>3
<1>5. ASSUME chat' = chat
      PROVE  FALSE
  BY <1>0, <1>5
<1>6. CASE MaybeRestart
  <2>1. Drained.records \in [Ids -> Item \cup {None}]
    BY DrainTypes DEF Drained, MapRows, Base
  <2> QED
    BY <1>4, <1>5, <1>6, <2>1, RestartCases, Zenon
<1>7. CASE UNCHANGED vars
  BY <1>5, <1>7 DEF vars
<1>8. CASE Crash
  BY <1>4, <1>8 DEF Crash, Values
<1>9. CASE Next /\ ~Edit /\ ~Post /\ ~MaybeRestart /\ ~Crash
  BY <1>3, <1>5, <1>9, Zenon
  DEF Next, NewItem, RetryFailed, DeleteExtract, UpdateQueueStatus, RunAllHooks, QueueHook,
      DrainHookFails, DrainHookMessages, Take, Lookup, Save, WakeForMessage, ReportHookFail, Finish,
      AskRestart
<1> QED
  BY <1>1, <1>2, <1>6, <1>7, <1>8, <1>9

\* A delivery edits a message of its own extraction and hook only, among those
\* this process posted (webhook.go: lookupHookMessage, storeHookMessage).
THEOREM OwnMessages == Spec => EditsOwnHere
<1>1. HookInv /\ [Next]_vars =>
        [\A m \in DOMAIN chat : chat'[m].change # chat[m].change =>
           ~chat[m].here \/ (chat[m].of = job.of.live /\ chat[m].hook = job.of.hook)]_vars
  <2> SUFFICES ASSUME HookInv, [Next]_vars, NEW m \in DOMAIN chat,
                      chat'[m].change # chat[m].change, chat[m].here
               PROVE  chat[m].of = job.of.live /\ chat[m].hook = job.of.hook
    OBVIOUS
  <2>1. Base /\ Titled
    BY DEF HookInv, Titled
  <2>2. job # None /\ job.at = "edit" /\ job.msg = m /\ m # 0
    BY <2>1, ChangedByEdit, MessageAt
  <2>3. PICK f \in [1..lives -> Ids] : Kinship(f)
    BY <2>1 DEF Titled
  <2>4. Fits(chat, f, job.of.id, job.of.hook, m) /\ Own(chat, job.of.live, m)
    BY <2>2, <2>3 DEF Kinship, UnderWay
  <2> QED
    BY <2>2, <2>4 DEF Fits, Own
<1> QED
  BY <1>1, HookInvAlways, PTL DEF Spec, EditsOwnHere

\* While an extraction is in the live queue its hook posts a second message
\* only when the first is gone or its id never got back (webhook.go).
THEOREM OnePost == Spec => PostsOnce
<1>1. HookInv /\ [Next]_vars =>
        [\A m \in DOMAIN chat :
           /\ Len(chat') > Len(chat)
           /\ chat[m].of = job.of.live /\ chat[m].hook = job.of.hook
           /\ chat[m].known /\ chat[m].there
           => map[job.of.id] = None \/ map[job.of.id].live # job.of.live]_vars
  <2> SUFFICES ASSUME HookInv, [Next]_vars, NEW m \in DOMAIN chat,
                      Len(chat') > Len(chat), chat[m].of = job.of.live, chat[m].hook = job.of.hook,
                      chat[m].known, chat[m].there,
                      map[job.of.id] # None, map[job.of.id].live = job.of.live
               PROVE  FALSE
    OBVIOUS
  <2>1. Base /\ Found
    BY DEF HookInv
  <2>2. job # None /\ job.at = "post"
    BY <2>1, AddedByPost
  <2>3. job.of.id \in Ids
    BY <2>1, <2>2, BaseParts DEF Values, Job, Delivery
  <2>4. Reached(chat, m) /\ Busy(job, chat, "post", m)
    BY <2>2 DEF Reached, Busy
  <2> QED
    BY <2>1, <2>3, <2>4 DEF Found, Finds
<1> QED
  BY <1>1, HookInvAlways, PTL DEF Spec, PostsOnce
=============================================================================
