---------------------------- MODULE HistoryProofs ----------------------------
(***************************************************************************)
(* Theorems about HistoryLog, for any ids, limits and failing writes: what *)
(* was deleted stays deleted and the file stays bounded.  Where only       *)
(* appends may be cut, by the death of the process, a restart finds what   *)
(* memory shows but for two rows that were glued together, and the log     *)
(* implements HistoryStore.                                                *)
(***************************************************************************)
EXTENDS HistoryLog, Integers, FiniteSetTheorems, SequenceTheorems, WellFoundedInduction, TLAPS

-----------------------------------------------------------------------------
(* The inductive invariants.                                               *)

\* x comes before y in the list.
Before(list, x, y) == \E j, k \in DOMAIN list : j < k /\ list[j] = x /\ list[k] = y

\* No id is twice in the list.
OneEach(list) == \A j, k \in DOMAIN list : list[j].id = list[k].id => j = k

\* Memory, list a, has the rows of the folded file b in the same order.  What
\* it has not are finished rows, and those before all finished rows it has.
InStep(a, b) ==
  /\ ToSet(a) \subseteq ToSet(b)
  /\ \A x, y \in ToSet(a) : Before(a, x, y) => Before(b, x, y)
  /\ \A x \in ToSet(b) \ ToSet(a) :
       x.done /\ \A y \in ToSet(a) : y.done => Before(b, x, y)

\* There is a last line to be torn.
TornLast == torn => file # <<>>

\* The file of a running process is loaded if a history is kept, and is not
\* much longer than the process thinks.
Counted ==
  /\ up /\ limit > 0 => opened
  /\ up /\ ~opened => records = <<>>
  /\ marking # None => limit > 0
  /\ opened => Len(file) <= lines + Cardinality(Ids) + (IF torn THEN 1 ELSE 0)

\* What holds whatever writes fail.
LogInv == TypeOK /\ OneEach(records) /\ TornLast /\ Counted /\ DeletedStaysDeleted /\ LogBounded

\* Line k of a file is the latest row of its id.
Latest(list, k) ==
  /\ k \in DOMAIN list
  /\ list[k] # Bad
  /\ \A j \in DOMAIN list : j > k /\ list[j] # Bad => list[j].id # list[k].id

\* Every row of the file is what was recorded last of its id; work in progress
\* is there.  This leaves out the rows glued together.
Tells ==
  /\ \A i \in Ids : last[i] # None => last[i].id = i
  /\ \A r \in ToSet(MergeHistory(file)) : r.id \notin hurt => last[r.id] = r
  /\ \A i \in Ids \ hurt : last[i] # None /\ ~last[i].done => last[i] \in ToSet(MergeHistory(file))

\* The same of memory, where nothing is glued.
Remembers ==
  opened =>
    /\ \A r \in ToSet(records) : last[r.id] = r
    /\ \A i \in Ids : last[i] # None /\ ~last[i].done => last[i] \in ToSet(records)

\* Memory is in step with the file.
Synced == opened /\ hurt = {} => InStep(records, MergeHistory(file))

\* A torn line in a loaded file is a row: of every id the file has one.
Whole == opened /\ torn => hurt = {} /\ \A k \in DOMAIN file : Latest(file, k)

\* What holds where only appends may be cut.
InOrder == Tells /\ Remembers /\ Synced /\ Whole /\ Cardinality(hurt) <= 2
KeepInv == LogInv /\ InOrder

-----------------------------------------------------------------------------
(* Induction over numbers and recursive functions.  The library's theorems *)
(* on induction take an operator; these are about a set.                   *)

\* A set of naturals that is not empty has a least element.
LEMMA Least ==
  ASSUME NEW T \in SUBSET Nat, T # {}
  PROVE  \E n \in T : \A m \in T : n <= m
<1> DEFINE D == {0..n : n \in T}
<1>1. D \subseteq FiniteSubsetsOf(Nat) /\ D # {}
  <2>1. \A n \in Nat : IsFiniteSet(0..n) /\ 0..n \in SUBSET Nat
    BY FS_Interval
  <2> QED
    BY <2>1, Zenon DEF FiniteSubsetsOf
<1>2. IsWellFoundedOn(StrictSubsetOrdering(Nat), FiniteSubsetsOf(Nat))
  BY FS_StrictSubsetOrderingWellFounded
<1>3. \E x \in D : \A y \in D : ~(<<y, x>> \in StrictSubsetOrdering(Nat))
  <2> HIDE DEF D
  <2> QED
    BY <1>1, <1>2, WFMin
<1>4. PICK n \in T : \A m \in T : ~(<<0..m, 0..n>> \in StrictSubsetOrdering(Nat))
  BY <1>3
<1>5. \A m \in T : n <= m
  <2> SUFFICES ASSUME NEW m \in T, m < n PROVE FALSE
    OBVIOUS
  <2>1. 0..m \in SUBSET Nat /\ 0..n \in SUBSET Nat /\ 0..m \subseteq 0..n /\ 0..m # 0..n
    OBVIOUS
  <2>2. <<0..m, 0..n>> \in StrictSubsetOrdering(Nat)
    BY <2>1, Zenon DEF StrictSubsetOrdering
  <2> QED
    BY <2>2, <1>4
<1> QED
  BY <1>5

\* Induction over 0..n: a set that holds 0 and is closed under the next number
\* holds all of them.
LEMMA UpTo ==
  ASSUME NEW n \in Nat, NEW P \in SUBSET (0..n),
         0 \in P, \A k \in 1..n : k - 1 \in P => k \in P
  PROVE  P = 0..n
<1> DEFINE T == (0..n) \ P
<1>1. T \in SUBSET Nat
  OBVIOUS
<1>2. SUFFICES ASSUME T # {} PROVE FALSE
  OBVIOUS
<1>3. PICK k \in T : \A m \in T : k <= m
  BY <1>1, <1>2, Least
<1>4. k \in 1..n /\ k - 1 \notin T
  BY <1>3
<1> QED
  BY <1>3, <1>4

\* h holds the values of a recursion over 0..n: b first, then each step F[k] of
\* the one before.
Chain(h, n, b, F) == h[0] = b /\ \A k \in 1..n : h[k] = F[k][h[k-1]]

\* There is such a function when each step keeps to S: it is what a recursive
\* function denotes.
LEMMA ChainExists ==
  ASSUME NEW n \in Nat, NEW S, NEW b \in S, NEW F \in [1..n -> [S -> S]]
  PROVE  \E h \in [0..n -> S] : Chain(h, n, b, F)
<1> DEFINE P == {k \in 0..n : \E h \in [0..k -> S] : Chain(h, k, b, F)}
<1>1. 0 \in P
  <2>1. [i \in 0..0 |-> b] \in [0..0 -> S] /\ Chain([i \in 0..0 |-> b], 0, b, F)
    BY DEF Chain
  <2> QED
    BY <2>1
<1>2. ASSUME NEW k \in 1..n, k - 1 \in P
      PROVE  k \in P
  <2>1. PICK g \in [0..(k-1) -> S] : Chain(g, k - 1, b, F)
    BY <1>2
  <2> DEFINE h == [i \in 0..k |-> IF i = k THEN F[k][g[k-1]] ELSE g[i]]
  <2>2. k - 1 \in 0..(k-1) /\ \A i \in 0..k : i = k \/ i \in 0..(k-1)
    OBVIOUS
  <2>3. F[k][g[k-1]] \in S
    BY <2>1, <2>2
  <2>4. h \in [0..k -> S]
    BY <2>1, <2>2, <2>3
  <2>5. \A i \in 1..k : h[i] = F[i][h[i-1]]
    BY <2>1, <2>2 DEF Chain
  <2>6. h[0] = b
    BY <2>1 DEF Chain
  <2> HIDE DEF h
  <2>7. Chain(h, k, b, F)
    BY <2>5, <2>6 DEF Chain
  <2> QED
    BY <2>4, <2>7
<1>3. n \in P
  <2>1. P \in SUBSET (0..n) /\ n \in 0..n
    OBVIOUS
  <2> HIDE DEF P
  <2> QED
    BY <1>1, <1>2, <2>1, UpTo
<1> QED
  BY <1>3

-----------------------------------------------------------------------------
(* What Pick, MergeHistory and CapHistory keep of a list.                  *)

\* h holds what Pick has taken of each prefix.
PickRun(h, list, ks) ==
  /\ h[0] = <<>>
  /\ h[Len(list)] = Pick(list, ks)
  /\ \A k \in 1..Len(list) :
       h[k] = IF k \in ks THEN Append(h[k-1], list[k]) ELSE h[k-1]

\* Pick goes through the list.
LEMMA PickRuns ==
  ASSUME NEW S, NEW list \in Seq(S), NEW ks
  PROVE  \E h \in [0..Len(list) -> Seq(S)] : PickRun(h, list, ks)
<1> DEFINE n == Len(list)
      T == Seq(S)
      b == <<>>
      Put(x, k) == IF k \in ks THEN Append(x, list[k]) ELSE x
      F == [k \in 1..n |-> [x \in T |-> Put(x, k)]]
      Step(g) == [k \in 0..n |-> IF k = 0 THEN b ELSE Put(g[k-1], k)]
      it == CHOOSE g : g = Step(g)
<1>1. Pick(list, ks) = it[n]
  BY Zenon DEF Pick
<1>2. n \in Nat /\ \A k \in 1..n : list[k] \in S
  BY LenProperties, ElementOfSeq
<1>3. b \in T /\ \A x \in T : \A k \in 1..n : Put(x, k) \in T
  BY <1>2
<1>4. F \in [1..n -> [T -> T]]
  <2> HIDE DEF Put, n, T
  <2> QED
    BY <1>3
<1>5. PICK h \in [0..n -> T] : Chain(h, n, b, F)
  <2> HIDE DEF F, n, T, b
  <2> QED
    BY <1>2, <1>3, <1>4, ChainExists
<1>6. h[0] = b /\ \A k \in 1..n : h[k] = Put(h[k-1], k)
  <2>1. \A k \in 1..n : h[k-1] \in T
    BY <1>2
  <2> HIDE DEF Put, n, T, b
  <2> QED
    BY <1>5, <2>1 DEF Chain
<1>7. h = Step(h)
  <2> HIDE DEF Put, n, T, b
  <2>1. \A k \in 0..n : h[k] = Step(h)[k]
    BY <1>2, <1>6
  <2> QED
    BY <2>1
<1>8. it = Step(it)
  <2> HIDE DEF Step
  <2> QED
    BY <1>7, Zenon
<1>9. it[n] = h[n]
  <2> DEFINE P == {k \in 0..n : it[k] = h[k]}
  <2> HIDE DEF Put, T, b, it
  <2>1. 0 \in P
    BY <1>2, <1>6, <1>8
  <2>2. \A k \in 1..n : k - 1 \in P => k \in P
    BY <1>2, <1>6, <1>8
  <2>3. P \in SUBSET (0..n)
    OBVIOUS
  <2>4. n \in P
    <3>1. n \in 0..n
      BY <1>2
    <3> HIDE DEF P, n
    <3> QED
      BY <2>1, <2>2, <2>3, <3>1, <1>2, UpTo
  <2> QED
    BY <2>4
<1> QED
  BY <1>1, <1>6, <1>9 DEF PickRun

\* g says where each element of p is in the list: p has the elements at the
\* positions ks of its first k, in order.
Embeds(p, g, list, ks, k) ==
  /\ g \in [1..Len(p) -> (1..k) \cap ks]
  /\ \A i, j \in 1..Len(p) : i < j => g[i] < g[j]
  /\ \A i \in (1..k) \cap ks : \E j \in 1..Len(p) : g[j] = i
  /\ \A j \in 1..Len(p) : p[j] = list[g[j]]
  /\ Len(p) <= k
  /\ Len(p) = k => 1..k \subseteq ks

\* One more element of the list is picked.
LEMMA EmbedsMore ==
  ASSUME NEW S, NEW list \in Seq(S), NEW ks, NEW k \in 1..Len(list), NEW p \in Seq(S), NEW g,
         Embeds(p, g, list, ks, k - 1), k \in ks
  PROVE  \E f : Embeds(Append(p, list[k]), f, list, ks, k)
<1>1. PICK q : q = Append(p, list[k])
  OBVIOUS
<1>2. PICK n \in Nat : n = Len(p)
  OBVIOUS
<1>3. Len(q) = n + 1 /\ q[n+1] = list[k] /\ \A j \in 1..n : q[j] = p[j]
  <2>1. list[k] \in S
    BY ElementOfSeq
  <2> QED
    BY <1>1, <1>2, <2>1
<1>4. PICK f : f = [j \in 1..(n+1) |-> IF j = n + 1 THEN k ELSE g[j]]
  OBVIOUS
<1>5. f[n+1] = k /\ \A j \in 1..n : f[j] = g[j]
  BY <1>4
<1>0. k \in Nat \ {0}
  OBVIOUS
<1>6. /\ g \in [1..n -> (1..(k-1)) \cap ks]
      /\ \A i, j \in 1..n : i < j => g[i] < g[j]
      /\ \A i \in (1..(k-1)) \cap ks : \E j \in 1..n : g[j] = i
      /\ \A j \in 1..n : p[j] = list[g[j]]
      /\ n <= k - 1
      /\ n = k - 1 => 1..(k-1) \subseteq ks
  BY <1>2 DEF Embeds
<1>7. f \in [1..(n+1) -> (1..k) \cap ks]
  <2>1. \A j \in 1..(n+1) : f[j] \in (1..k) \cap ks
    BY <1>5, <1>6
  <2> QED
    BY <2>1, <1>4
<1>8. \A i, j \in 1..(n+1) : i < j => f[i] < f[j]
  <2> TAKE i, j \in 1..(n+1)
  <2>1. i < j => i \in 1..n /\ (j = n + 1 \/ j \in 1..n)
    OBVIOUS
  <2>2. i < j => i \in 1..n
    OBVIOUS
  <2>3. i \in 1..n => g[i] < k /\ g[i] \in Nat
    BY <1>6, <1>0
  <2> QED
    BY <1>5, <1>6, <2>1, <2>2, <2>3
<1>9. \A i \in (1..k) \cap ks : \E j \in 1..(n+1) : f[j] = i
  <2> TAKE i \in (1..k) \cap ks
  <2>1. i = k => f[n+1] = i
    BY <1>5
  <2>2. i # k => \E j \in 1..n : f[j] = i
    <3>1. i # k => i \in (1..(k-1)) \cap ks
      BY <1>0
    <3> QED
      BY <1>5, <1>6, <3>1
  <2> QED
    BY <2>1, <2>2
<1>10. \A j \in 1..(n+1) : q[j] = list[f[j]]
  BY <1>3, <1>5, <1>6
<1>11. n + 1 <= k /\ (n + 1 = k => 1..k \subseteq ks)
  <2>1. n + 1 <= k
    BY <1>0, <1>6
  <2>2. ASSUME n + 1 = k, NEW i \in 1..k
        PROVE  i \in ks
    <3>1. i = k \/ i \in 1..(k-1)
      BY <1>0
    <3>2. 1..(k-1) \subseteq ks
      BY <1>6, <2>2
    <3> QED
      BY <3>1, <3>2
  <2> QED
    BY <2>1, <2>2
<1>12. Len(q) = n + 1
  BY <1>3
<1>13. Embeds(q, f, list, ks, k)
  BY <1>7, <1>8, <1>9, <1>10, <1>11, <1>12 DEF Embeds
<1> QED
  BY <1>1, <1>13

\* A position that is not among those picked changes nothing.
LEMMA EmbedsSame ==
  ASSUME NEW p, NEW g, NEW list, NEW ks, NEW k \in Nat,
         Embeds(p, g, list, ks, k - 1), Len(p) \in Nat, k \notin ks,
         (1..k) \cap ks = (1..(k-1)) \cap ks
  PROVE  Embeds(p, g, list, ks, k)
<1>1. /\ g \in [1..Len(p) -> (1..k) \cap ks]
      /\ \A i \in (1..k) \cap ks : \E j \in 1..Len(p) : g[j] = i
  BY DEF Embeds
<1>2. /\ \A i, j \in 1..Len(p) : i < j => g[i] < g[j]
      /\ \A j \in 1..Len(p) : p[j] = list[g[j]]
      /\ Len(p) <= k - 1
  BY DEF Embeds
<1>3. Len(p) <= k /\ Len(p) # k
  BY <1>2
<1> QED
  BY <1>1, <1>2, <1>3 DEF Embeds

\* What Pick returns.
LEMMA Picks ==
  ASSUME NEW S, NEW list \in Seq(S), NEW ks
  PROVE  /\ Pick(list, ks) \in Seq(S)
         /\ \E g : Embeds(Pick(list, ks), g, list, ks, Len(list))
<1>1. PICK h \in [0..Len(list) -> Seq(S)] : PickRun(h, list, ks)
  BY PickRuns
<1>2. PICK n \in Nat : n = Len(list)
  OBVIOUS
<1> DEFINE P == {k \in 0..n : \E g : Embeds(h[k], g, list, ks, k)}
<1>3. 0 \in P
  <2>1. h[0] = <<>> /\ Len(<<>>) = 0
    BY <1>1 DEF PickRun
  <2>2. PICK g : g = [j \in 1..0 |-> 0]
    OBVIOUS
  <2>3. Embeds(<<>>, g, list, ks, 0)
    BY <2>1, <2>2 DEF Embeds
  <2> QED
    BY <2>1, <2>3
<1>4. \A k \in 1..n : k - 1 \in P => k \in P
  <2> TAKE k \in 1..n
  <2>a. k \in 0..n /\ k - 1 \in 0..n /\ k \in Nat
    BY <1>2
  <2> HAVE k - 1 \in P
  <2> SUFFICES \E g : Embeds(h[k], g, list, ks, k)
    BY <2>a
  <2>1. PICK g : Embeds(h[k-1], g, list, ks, k - 1)
    OBVIOUS
  <2>2. h[k-1] \in Seq(S)
    BY <1>2
  <2>3. CASE k \in ks
    <3>1. \E f : Embeds(Append(h[k-1], list[k]), f, list, ks, k)
      BY <1>2, <2>1, <2>2, <2>3, EmbedsMore
    <3>2. h[k] = Append(h[k-1], list[k])
      BY <1>1, <1>2, <2>3 DEF PickRun
    <3> QED
      BY <3>1, <3>2
  <2>4. CASE k \notin ks
    <3>1. h[k] = h[k-1]
      BY <1>1, <1>2, <2>4 DEF PickRun
    <3>2. (1..k) \cap ks = (1..(k-1)) \cap ks
      BY <2>4
    <3>3. Len(h[k-1]) \in Nat
      BY <2>2
    <3>4. Embeds(h[k-1], g, list, ks, k)
      <4>1. PICK p : p = h[k-1]
        OBVIOUS
      <4>2. Embeds(p, g, list, ks, k - 1) /\ Len(p) \in Nat
        BY <2>1, <3>3, <4>1
      <4>3. Embeds(p, g, list, ks, k)
        BY <2>4, <2>a, <3>2, <4>2, EmbedsSame
      <4> QED
        BY <4>1, <4>3
    <3> QED
      BY <3>1, <3>4
  <2> QED
    BY <2>3, <2>4
<1>5. n \in P
  <2>1. P \in SUBSET (0..n) /\ n \in 0..n
    OBVIOUS
  <2> HIDE DEF P
  <2> QED
    BY <1>3, <1>4, <2>1, UpTo
<1>6. h[n] = Pick(list, ks) /\ h[n] \in Seq(S)
  BY <1>1, <1>2 DEF PickRun
<1> QED
  BY <1>2, <1>5, <1>6

-----------------------------------------------------------------------------
(* Lists as sets of rows with an order.                                    *)

\* p has the elements of the list at the positions ks, in order.
Selects(p, list, ks) ==
  /\ ToSet(p) = {list[k] : k \in DOMAIN list \cap ks}
  /\ \A x, y : Before(p, x, y) <=> \E j, k \in DOMAIN list \cap ks : j < k /\ list[j] = x /\ list[k] = y
  /\ Len(p) <= Len(list)
  /\ Len(p) = Len(list) => DOMAIN list \subseteq ks

\* What Pick returns, as a set of rows with an order.
LEMMA PickSelects ==
  ASSUME NEW S, NEW list \in Seq(S), NEW ks
  PROVE  /\ Pick(list, ks) \in Seq(S)
         /\ Selects(Pick(list, ks), list, ks)
         /\ (\A j, k \in DOMAIN list \cap ks : list[j].id = list[k].id => j = k) => OneEach(Pick(list, ks))
<1>1. PICK p : p = Pick(list, ks)
  OBVIOUS
<1>2. p \in Seq(S) /\ \E g : Embeds(p, g, list, ks, Len(list))
  BY <1>1, Picks
<1>3. PICK g : Embeds(p, g, list, ks, Len(list))
  BY <1>2
<1>4. DOMAIN p = 1..Len(p) /\ DOMAIN list = 1..Len(list) /\ Len(p) \in Nat /\ Len(list) \in Nat
  BY <1>2
<1>5. /\ g \in [DOMAIN p -> DOMAIN list \cap ks]
      /\ \A i, j \in DOMAIN p : i < j => g[i] < g[j]
      /\ \A i \in DOMAIN list \cap ks : \E j \in DOMAIN p : g[j] = i
      /\ \A j \in DOMAIN p : p[j] = list[g[j]]
      /\ Len(p) <= Len(list)
      /\ Len(p) = Len(list) => DOMAIN list \subseteq ks
  BY <1>3, <1>4 DEF Embeds
<1>n. \A i \in DOMAIN p : i \in Nat /\ g[i] \in Nat
  <2> TAKE i \in DOMAIN p
  <2>1. g[i] \in DOMAIN list
    BY <1>5
  <2> QED
    BY <1>4, <2>1
<1>6. \A i, j \in DOMAIN p : g[i] < g[j] => i < j
  <2> TAKE i, j \in DOMAIN p
  <2>1. i \in Nat /\ j \in Nat /\ g[i] \in Nat /\ g[j] \in Nat
    BY <1>n
  <2>2. j < i => g[j] < g[i]
    BY <1>5
  <2> QED
    BY <2>1, <2>2
<1>7. ToSet(p) = {list[k] : k \in DOMAIN list \cap ks}
  BY <1>5 DEF ToSet
<1>8. \A x, y : Before(p, x, y) <=> \E j, k \in DOMAIN list \cap ks : j < k /\ list[j] = x /\ list[k] = y
  <2> TAKE x, y
  <2>1. ASSUME Before(p, x, y)
        PROVE  \E j, k \in DOMAIN list \cap ks : j < k /\ list[j] = x /\ list[k] = y
    <3>1. PICK j, k \in DOMAIN p : j < k /\ p[j] = x /\ p[k] = y
      BY <2>1 DEF Before
    <3>2. g[j] < g[k] /\ list[g[j]] = x /\ list[g[k]] = y /\ g[j] \in DOMAIN list \cap ks /\ g[k] \in DOMAIN list \cap ks
      BY <1>5, <3>1
    <3> QED
      BY <3>2
  <2>2. ASSUME NEW j \in DOMAIN list \cap ks, NEW k \in DOMAIN list \cap ks, j < k, list[j] = x, list[k] = y
        PROVE  Before(p, x, y)
    <3>1. PICK a, b \in DOMAIN p : g[a] = j /\ g[b] = k
      BY <1>5
    <3>2. a < b /\ p[a] = x /\ p[b] = y
      BY <1>5, <1>6, <2>2, <3>1
    <3> QED
      BY <3>2 DEF Before
  <2> QED
    BY <2>1, <2>2
<1>9. (\A j, k \in DOMAIN list \cap ks : list[j].id = list[k].id => j = k) => OneEach(p)
  <2> SUFFICES ASSUME \A j, k \in DOMAIN list \cap ks : list[j].id = list[k].id => j = k,
                      NEW i \in DOMAIN p, NEW j \in DOMAIN p, p[i].id = p[j].id
               PROVE  i = j
    BY DEF OneEach
  <2>1. g[i] = g[j]
    BY <1>5
  <2>2. i \in Nat /\ j \in Nat /\ g[i] \in Nat
    BY <1>n
  <2>3. ~(i < j) /\ ~(j < i)
    BY <1>5, <2>1, <2>2
  <2> QED
    BY <2>2, <2>3
<1> QED
  BY <1>1, <1>2, <1>5, <1>7, <1>8, <1>9 DEF Selects

\* Lists with the same rows in the same order.
Alike(a, b) == ToSet(a) = ToSet(b) /\ \A x, y : Before(a, x, y) <=> Before(b, x, y)

\* List b is list a with row r as the latest.
Adds(a, b, r) ==
  /\ ToSet(b) = {x \in ToSet(a) : x.id # r.id} \cup {r}
  /\ \A x, y : Before(b, x, y) <=>
       /\ x \in ToSet(a) /\ x.id # r.id
       /\ y = r \/ (y \in ToSet(a) /\ y.id # r.id /\ Before(a, x, y))

\* List b is list a without a row of id i, or with an older one.
Loses(a, b, i) ==
  /\ \A x : x.id # i => (x \in ToSet(b) <=> x \in ToSet(a))
  /\ \A x \in ToSet(b) : x.id = i => \E y \in ToSet(a) : y.id = i

\* A line of a file.
AnyLine == Row \cup {Bad}

\* The merge keeps the latest row of each id.
LEMMA MergeSelects ==
  ASSUME NEW list \in Seq(AnyLine)
  PROVE  /\ MergeHistory(list) \in Seq(Row)
         /\ OneEach(MergeHistory(list))
         /\ ToSet(MergeHistory(list)) = {list[k] : k \in {j \in DOMAIN list : Latest(list, j)}}
         /\ \A x, y : Before(MergeHistory(list), x, y) <=>
              \E j, k \in DOMAIN list : Latest(list, j) /\ Latest(list, k) /\ j < k /\ list[j] = x /\ list[k] = y
         /\ Len(MergeHistory(list)) <= Len(list)
         /\ Len(MergeHistory(list)) = Len(list) => \A k \in DOMAIN list : Latest(list, k)
<1> DEFINE ks == {k \in DOMAIN list : Latest(list, k)}
<1>1. MergeHistory(list) = Pick(list, ks)
  <2>1. ks = {k \in DOMAIN list : list[k] # Bad /\ ~\E j \in DOMAIN list : j > k /\ list[j] # Bad /\ list[j].id = list[k].id}
    BY DEF Latest
  <2> HIDE DEF ks
  <2> QED
    BY <2>1 DEF MergeHistory
<1>2. DOMAIN list \cap ks = ks
  OBVIOUS
<1>3. \A j, k \in ks : list[j].id = list[k].id => j = k
  <2> SUFFICES ASSUME NEW j \in ks, NEW k \in ks, list[j].id = list[k].id
               PROVE  j = k
    OBVIOUS
  <2>1. j \in Nat /\ k \in Nat
    OBVIOUS
  <2>2. ~(j > k) /\ ~(k > j)
    BY DEF Latest
  <2> QED
    BY <2>1, <2>2
<1>4. PICK m : m = Pick(list, ks)
  OBVIOUS
<1>5. m \in Seq(AnyLine) /\ Selects(m, list, ks) /\ OneEach(m)
  <2> HIDE DEF ks
  <2> QED
    BY <1>2, <1>3, <1>4, PickSelects
<1>6. ToSet(m) = {list[k] : k \in ks}
  <2> HIDE DEF ks
  <2> QED
    BY <1>2, <1>5 DEF Selects
<1>7. \A x, y : Before(m, x, y) <=>
              \E j, k \in DOMAIN list : Latest(list, j) /\ Latest(list, k) /\ j < k /\ list[j] = x /\ list[k] = y
  <2>1. \A x, y : Before(m, x, y) <=> \E j, k \in ks : j < k /\ list[j] = x /\ list[k] = y
    <3> HIDE DEF ks
    <3> QED
      BY <1>2, <1>5 DEF Selects
  <2> QED
    BY <2>1
<1>8. m \in Seq(Row)
  <2>1. \A k \in ks : list[k] \in Row
    BY DEF Latest, AnyLine
  <2>2. \A i \in DOMAIN m : m[i] \in ToSet(m)
    BY DEF ToSet
  <2>3. \A i \in 1..Len(m) : m[i] \in Row
    <3> HIDE DEF ks
    <3> QED
      BY <1>5, <1>6, <2>1, <2>2
  <2> QED
    BY <1>5, <2>3
<1>9. Len(m) <= Len(list) /\ (Len(m) = Len(list) => \A k \in DOMAIN list : Latest(list, k))
  <2>1. Len(m) <= Len(list) /\ (Len(m) = Len(list) => DOMAIN list \subseteq ks)
    <3> HIDE DEF ks
    <3> QED
      BY <1>5 DEF Selects
  <2> QED
    BY <2>1
<1> QED
  BY <1>1, <1>4, <1>5, <1>6, <1>7, <1>8, <1>9

\* A readable line is added to the folded file.
LEMMA MergeAdds ==
  ASSUME NEW list \in Seq(AnyLine), NEW r \in Row
  PROVE  Adds(MergeHistory(list), MergeHistory(Append(list, r)), r)
<1>1. PICK more : more = Append(list, r)
  OBVIOUS
<1>2. PICK n \in Nat : n = Len(list)
  OBVIOUS
<1>3. /\ more \in Seq(AnyLine) /\ Len(more) = n + 1
      /\ more[n+1] = r /\ \A k \in 1..n : more[k] = list[k]
  <2>1. r \in AnyLine
    BY DEF AnyLine
  <2> QED
    BY <1>1, <1>2, <2>1
<1>4. DOMAIN list = 1..n /\ DOMAIN more = 1..(n+1)
  BY <1>2, <1>3
<1>5. r # Bad
  BY NotRows
<1>6. \A k \in 1..(n+1) : Latest(more, k) <=> k = n + 1 \/ (k \in 1..n /\ Latest(list, k) /\ list[k].id # r.id)
  <2>1. Latest(more, n + 1)
    <3>1. \A j \in 1..(n+1) : ~(j > n + 1)
      OBVIOUS
    <3> QED
      BY <1>3, <1>4, <1>5, <3>1 DEF Latest
  <2>2. ASSUME NEW k \in 1..n
        PROVE  Latest(more, k) <=> Latest(list, k) /\ list[k].id # r.id
    <3>1. n + 1 \in 1..(n+1) /\ n + 1 > k /\ k \in 1..(n+1) /\ \A j \in 1..n : j \in 1..(n+1)
      OBVIOUS
    <3>2. \A j \in 1..(n+1) : j = n + 1 \/ j \in 1..n
      OBVIOUS
    <3> QED
      BY <1>3, <1>4, <1>5, <3>1, <3>2 DEF Latest
  <2>3. \A k \in 1..(n+1) : k = n + 1 \/ k \in 1..n
    OBVIOUS
  <2>4. n + 1 \notin 1..n
    OBVIOUS
  <2> QED
    BY <2>1, <2>2, <2>3, <2>4
<1>7. PICK a, b : a = MergeHistory(list) /\ b = MergeHistory(more)
  OBVIOUS
<1>8. ToSet(a) = {list[k] : k \in {j \in 1..n : Latest(list, j)}} /\ ToSet(b) = {more[k] : k \in {j \in 1..(n+1) : Latest(more, j)}}
  BY <1>3, <1>4, <1>7, MergeSelects
<1>9. /\ \A x, y : Before(a, x, y) <=>
           \E j, k \in 1..n : Latest(list, j) /\ Latest(list, k) /\ j < k /\ list[j] = x /\ list[k] = y
      /\ \A x, y : Before(b, x, y) <=>
           \E j, k \in 1..(n+1) : Latest(more, j) /\ Latest(more, k) /\ j < k /\ more[j] = x /\ more[k] = y
  <2>1. \A x, y : Before(MergeHistory(list), x, y) <=>
           \E j, k \in DOMAIN list : Latest(list, j) /\ Latest(list, k) /\ j < k /\ list[j] = x /\ list[k] = y
    BY MergeSelects, Zenon
  <2>2. \A x, y : Before(MergeHistory(more), x, y) <=>
           \E j, k \in DOMAIN more : Latest(more, j) /\ Latest(more, k) /\ j < k /\ more[j] = x /\ more[k] = y
    BY <1>3, MergeSelects, Zenon
  <2> QED
    BY <1>4, <1>7, <2>1, <2>2
<1>n. n + 1 \in 1..(n+1) /\ \A k \in 1..n : k \in 1..(n+1) /\ k < n + 1 /\ k # n + 1
  OBVIOUS
<1>m. \A k \in 1..(n+1) : k = n + 1 \/ k \in 1..n
  OBVIOUS
<1>10. ToSet(b) = {x \in ToSet(a) : x.id # r.id} \cup {r}
  <2>1. \A x \in ToSet(b) : x \in {y \in ToSet(a) : y.id # r.id} \cup {r}
    BY <1>3, <1>6, <1>8, <1>m
  <2>2. \A x \in ToSet(a) : x.id # r.id => x \in ToSet(b)
    BY <1>3, <1>6, <1>8, <1>n
  <2>3. r \in ToSet(b)
    BY <1>3, <1>6, <1>8, <1>n
  <2> QED
    BY <2>1, <2>2, <2>3
<1>11. ASSUME NEW x, NEW y
       PROVE  Before(b, x, y) <=>
                /\ x \in ToSet(a) /\ x.id # r.id
                /\ y = r \/ (y \in ToSet(a) /\ y.id # r.id /\ Before(a, x, y))
  <2>1. ASSUME Before(b, x, y)
        PROVE  /\ x \in ToSet(a) /\ x.id # r.id
               /\ y = r \/ (y \in ToSet(a) /\ y.id # r.id /\ Before(a, x, y))
    <3>1. PICK j, k \in 1..(n+1) : Latest(more, j) /\ Latest(more, k) /\ j < k /\ more[j] = x /\ more[k] = y
      BY <1>9, <2>1
    <3>2. j \in 1..n
      BY <3>1
    <3>3. x = list[j] /\ Latest(list, j) /\ x.id # r.id /\ x \in ToSet(a)
      BY <1>3, <1>6, <1>8, <1>n, <3>1, <3>2
    <3>4. k = n + 1 => y = r
      BY <1>3, <3>1
    <3>5. k \in 1..n => y \in ToSet(a) /\ y.id # r.id /\ Before(a, x, y)
      BY <1>3, <1>6, <1>8, <1>9, <1>n, <3>1, <3>2, <3>3
    <3> QED
      BY <1>m, <3>3, <3>4, <3>5
  <2>2. ASSUME x \in ToSet(a), x.id # r.id, y = r
        PROVE  Before(b, x, y)
    <3>1. PICK j \in 1..n : Latest(list, j) /\ list[j] = x
      BY <1>8, <2>2
    <3>2. Latest(more, j) /\ more[j] = x /\ Latest(more, n + 1) /\ more[n+1] = r
      BY <1>3, <1>6, <1>n, <2>2, <3>1
    <3> QED
      BY <1>9, <1>n, <2>2, <3>2
  <2>3. ASSUME x.id # r.id, y.id # r.id, Before(a, x, y)
        PROVE  Before(b, x, y)
    <3>1. PICK j, k \in 1..n : Latest(list, j) /\ Latest(list, k) /\ j < k /\ list[j] = x /\ list[k] = y
      BY <1>9, <2>3
    <3>2. Latest(more, j) /\ more[j] = x /\ Latest(more, k) /\ more[k] = y
      BY <1>3, <1>6, <1>n, <2>3, <3>1
    <3> QED
      BY <1>9, <1>n, <3>1, <3>2
  <2> QED
    BY <2>1, <2>2, <2>3
<1> QED
  BY <1>1, <1>7, <1>10, <1>11 DEF Adds

\* A line that cannot be read changes nothing.
LEMMA MergeBad ==
  ASSUME NEW list \in Seq(AnyLine)
  PROVE  Alike(MergeHistory(list), MergeHistory(Append(list, Bad)))
<1>1. PICK more : more = Append(list, Bad)
  OBVIOUS
<1>2. PICK n \in Nat : n = Len(list)
  OBVIOUS
<1>3. /\ more \in Seq(AnyLine) /\ Len(more) = n + 1
      /\ more[n+1] = Bad /\ \A k \in 1..n : more[k] = list[k]
  <2>1. Bad \in AnyLine
    BY DEF AnyLine
  <2> QED
    BY <1>1, <1>2, <2>1
<1>4. DOMAIN list = 1..n /\ DOMAIN more = 1..(n+1)
  BY <1>2, <1>3
<1>5. n + 1 \in 1..(n+1) /\ \A k \in 1..n : k \in 1..(n+1) /\ k # n + 1
  OBVIOUS
<1>6. \A k \in 1..(n+1) : k = n + 1 \/ k \in 1..n
  OBVIOUS
<1>7. \A k \in 1..(n+1) : Latest(more, k) <=> k \in 1..n /\ Latest(list, k)
  BY <1>3, <1>4, <1>5, <1>6 DEF Latest
<1>8. PICK a, b : a = MergeHistory(list) /\ b = MergeHistory(more)
  OBVIOUS
<1>9. ToSet(a) = {list[k] : k \in {j \in 1..n : Latest(list, j)}} /\ ToSet(b) = {more[k] : k \in {j \in 1..(n+1) : Latest(more, j)}}
  BY <1>3, <1>4, <1>8, MergeSelects
<1>10. ToSet(a) = ToSet(b)
  BY <1>3, <1>5, <1>7, <1>9
<1>11. \A x, y : Before(a, x, y) <=>
           \E j, k \in 1..n : Latest(list, j) /\ Latest(list, k) /\ j < k /\ list[j] = x /\ list[k] = y
  BY <1>4, <1>8, MergeSelects
<1>12. \A x, y : Before(b, x, y) <=>
           \E j, k \in 1..(n+1) : Latest(more, j) /\ Latest(more, k) /\ j < k /\ more[j] = x /\ more[k] = y
  <2>1. \A x, y : Before(MergeHistory(more), x, y) <=>
           \E j, k \in DOMAIN more : Latest(more, j) /\ Latest(more, k) /\ j < k /\ more[j] = x /\ more[k] = y
    BY <1>3, MergeSelects, Zenon
  <2> QED
    BY <1>4, <1>8, <2>1
<1>13. \A x, y : Before(a, x, y) <=> Before(b, x, y)
  BY <1>3, <1>5, <1>6, <1>7, <1>11, <1>12
<1> QED
  BY <1>1, <1>8, <1>10, <1>13 DEF Alike

\* The last line, a row, becomes one that cannot be read.
LEMMA MergeLoses ==
  ASSUME NEW f \in Seq(AnyLine), NEW g \in Seq(AnyLine), NEW n \in Nat \ {0}, Len(f) = n, Len(g) = n,
         \A k \in 1..(n-1) : g[k] = f[k], f[n] # Bad, g[n] = Bad
  PROVE  /\ Loses(MergeHistory(f), MergeHistory(g), f[n].id)
         /\ (\A k \in DOMAIN f : Latest(f, k)) => \A x \in ToSet(MergeHistory(g)) : x.id # f[n].id
<1>1. DOMAIN f = 1..n /\ DOMAIN g = 1..n /\ n \in 1..n /\ \A k \in 1..n : k = n \/ k \in 1..(n-1)
  OBVIOUS
<1>2. PICK a, b : a = ToSet(MergeHistory(f)) /\ b = ToSet(MergeHistory(g))
  OBVIOUS
<1>3. a = {f[k] : k \in {j \in 1..n : Latest(f, j)}} /\ b = {g[k] : k \in {j \in 1..n : Latest(g, j)}}
  BY <1>1, <1>2, MergeSelects
<1>4. PICK i : i = f[n].id
  OBVIOUS
<1>5. \A k \in 1..(n-1) : k \in 1..n /\ n > k /\ k # n
  OBVIOUS
<1>6. Latest(f, n)
  <2>1. \A j \in 1..n : ~(j > n)
    OBVIOUS
  <2> QED
    BY <1>1, <2>1 DEF Latest
<1>7. ~Latest(g, n)
  BY DEF Latest
<1>8. ASSUME NEW k \in 1..(n-1)
      PROVE  Latest(f, k) <=> Latest(g, k) /\ f[k].id # i
  <2>1. Latest(f, k) => f[k].id # i
    BY <1>1, <1>4, <1>5 DEF Latest
  <2>2. Latest(f, k) => Latest(g, k)
    BY <1>1, <1>5 DEF Latest
  <2>3. Latest(g, k) /\ f[k].id # i => Latest(f, k)
    <3> SUFFICES ASSUME Latest(g, k), f[k].id # i
                 PROVE  Latest(f, k)
      OBVIOUS
    <3>1. k \in DOMAIN f /\ f[k] # Bad
      BY <1>1, <1>5 DEF Latest
    <3>2. ASSUME NEW j \in DOMAIN f, j > k, f[j] # Bad
          PROVE  f[j].id # f[k].id
      <4>1. CASE j = n
        BY <1>4, <4>1
      <4>2. CASE j \in 1..(n-1)
        <5>1. g[j] = f[j] /\ g[k] = f[k] /\ j \in DOMAIN g
          BY <1>1, <1>5, <4>2
        <5> QED
          BY <3>2, <5>1 DEF Latest
      <4> QED
        BY <1>1, <4>1, <4>2
    <3> QED
      BY <3>1, <3>2 DEF Latest
  <2> QED
    BY <2>1, <2>2, <2>3
<1>9. \A x : x.id # i => (x \in b <=> x \in a)
  <2> SUFFICES ASSUME NEW x, x.id # i
               PROVE  x \in b <=> x \in a
    OBVIOUS
  <2>1. ASSUME x \in b PROVE x \in a
    <3>1. PICK k \in 1..n : Latest(g, k) /\ x = g[k]
      BY <1>3, <2>1
    <3>2. k \in 1..(n-1)
      BY <1>1, <1>7, <3>1
    <3> QED
      BY <1>3, <1>5, <1>8, <3>1, <3>2
  <2>2. ASSUME x \in a PROVE x \in b
    <3>1. PICK k \in 1..n : Latest(f, k) /\ x = f[k]
      BY <1>3, <2>2
    <3>2. k \in 1..(n-1)
      BY <1>1, <1>4, <3>1
    <3> QED
      BY <1>3, <1>5, <1>8, <3>1, <3>2
  <2> QED
    BY <2>1, <2>2
<1>10. f[n] \in a
  BY <1>1, <1>3, <1>6
<1>11. ASSUME \A k \in DOMAIN f : Latest(f, k), NEW x \in b
       PROVE  x.id # i
  <2>1. PICK k \in 1..n : Latest(g, k) /\ x = g[k]
    BY <1>3
  <2>2. k \in 1..(n-1)
    BY <1>1, <1>7, <2>1
  <2> QED
    BY <1>1, <1>5, <1>8, <1>11, <2>1, <2>2
<1> QED
  BY <1>2, <1>4, <1>9, <1>10, <1>11 DEF Loses

\* A list of rows with one of each id is its own merge.
LEMMA MergeRows ==
  ASSUME NEW list \in Seq(Row), OneEach(list)
  PROVE  Alike(MergeHistory(list), list)
<1>1. list \in Seq(AnyLine) /\ \A k \in DOMAIN list : list[k] \in Row /\ k \in Nat
  BY DEF AnyLine
<1>2. \A k \in DOMAIN list : Latest(list, k)
  <2> SUFFICES ASSUME NEW k \in DOMAIN list, NEW j \in DOMAIN list, j > k, list[j].id = list[k].id
               PROVE  FALSE
    BY <1>1, NotRows DEF Latest
  <2> QED
    BY <1>1 DEF OneEach
<1>3. PICK a : a = MergeHistory(list)
  OBVIOUS
<1>4. ToSet(a) = {list[k] : k \in {j \in DOMAIN list : Latest(list, j)}}
  BY <1>1, <1>3, MergeSelects
<1>5. \A x, y : Before(a, x, y) <=>
           \E j, k \in DOMAIN list : Latest(list, j) /\ Latest(list, k) /\ j < k /\ list[j] = x /\ list[k] = y
  BY <1>1, <1>3, MergeSelects
<1>6. ToSet(a) = ToSet(list)
  BY <1>2, <1>4 DEF ToSet
<1>7. ASSUME NEW x, NEW y
      PROVE  Before(a, x, y) <=> Before(list, x, y)
  <2>1. Before(a, x, y) <=> \E j, k \in DOMAIN list : j < k /\ list[j] = x /\ list[k] = y
    BY <1>2, <1>5
  <2> QED
    BY <2>1, Zenon DEF Before
<1> QED
  BY <1>3, <1>6, <1>7 DEF Alike

\* A row is added to memory.
LEMMA MemoryAdds ==
  ASSUME NEW list \in Seq(Row), OneEach(list), NEW r \in Row
  PROVE  /\ MergeHistory(Append(list, r)) \in Seq(Row)
         /\ OneEach(MergeHistory(Append(list, r)))
         /\ Adds(list, MergeHistory(Append(list, r)), r)
<1>1. list \in Seq(AnyLine) /\ Append(list, r) \in Seq(AnyLine)
  BY DEF AnyLine
<1>2. PICK b : b = MergeHistory(Append(list, r))
  OBVIOUS
<1>3. b \in Seq(Row) /\ OneEach(b)
  BY <1>1, <1>2, MergeSelects
<1>4. Adds(MergeHistory(list), b, r)
  BY <1>1, <1>2, MergeAdds
<1>5. Alike(MergeHistory(list), list)
  BY MergeRows
<1>6. Adds(list, b, r)
  BY <1>4, <1>5 DEF Adds, Alike
<1> QED
  BY <1>2, <1>3, <1>6

\* A list with one row of each id is no longer than there are ids.
LEMMA FewRows ==
  ASSUME NEW list \in Seq(Row), OneEach(list)
  PROVE  Len(list) <= Cardinality(Ids) /\ Cardinality(Ids) \in Nat
<1>1. PICK n \in Nat : n = Len(list)
  OBVIOUS
<1>2. \A k \in 1..n : list[k].id \in Ids
  <2>1. \A k \in 1..n : list[k] \in Row
    BY <1>1
  <2> QED
    BY <2>1 DEF Row
<1>3. PICK f : f = [k \in 1..n |-> list[k].id]
  OBVIOUS
<1>4. f \in Injection(1..n, Ids)
  <2>1. f \in [1..n -> Ids]
    BY <1>2, <1>3
  <2>2. \A j, k \in 1..n : f[j] = f[k] => j = k
    BY <1>1, <1>3 DEF OneEach
  <2> QED
    BY <2>1, <2>2 DEF Injection, IsInjective
<1>5. IsFiniteSet(Ids)
  BY HistoryAssumption DEF HistoryAssumption
<1>6. Cardinality(1..n) <= Cardinality(Ids)
  BY <1>4, <1>5, FS_Injection
<1>7. Cardinality(1..n) = n
  BY FS_Interval
<1> QED
  BY <1>1, <1>5, <1>6, <1>7, FS_CardinalityType

\* The order of a list with one row of each id.
LEMMA Ordered ==
  ASSUME NEW list \in Seq(Row), OneEach(list)
  PROVE  /\ \A x, y \in ToSet(list) : x = y \/ Before(list, x, y) \/ Before(list, y, x)
         /\ \A x, y : Before(list, x, y) =>
              x \in ToSet(list) /\ y \in ToSet(list) /\ x.id # y.id /\ ~Before(list, y, x)
         /\ \A x, y, z : Before(list, x, y) /\ Before(list, y, z) => Before(list, x, z)
         /\ \A x, y \in ToSet(list) : x.id = y.id => x = y
<1>1. \A k \in DOMAIN list : k \in Nat
  OBVIOUS
<1>2. \A j, k \in DOMAIN list : list[j] = list[k] => j = k
  BY DEF OneEach
<1>3. ASSUME NEW x \in ToSet(list), NEW y \in ToSet(list), x # y
      PROVE  Before(list, x, y) \/ Before(list, y, x)
  <2>1. PICK j, k \in DOMAIN list : list[j] = x /\ list[k] = y
    BY DEF ToSet
  <2>2. j < k \/ k < j
    BY <1>1, <1>3, <2>1
  <2> QED
    BY <2>1, <2>2 DEF Before
<1>4. ASSUME NEW x, NEW y, Before(list, x, y)
      PROVE  x \in ToSet(list) /\ y \in ToSet(list) /\ x.id # y.id /\ ~Before(list, y, x)
  <2>1. PICK j, k \in DOMAIN list : j < k /\ list[j] = x /\ list[k] = y
    BY <1>4 DEF Before
  <2>2. x \in ToSet(list) /\ y \in ToSet(list)
    BY <2>1 DEF ToSet
  <2>3. x.id # y.id
    BY <1>1, <2>1 DEF OneEach
  <2>4. ~Before(list, y, x)
    BY <1>1, <1>2, <2>1 DEF Before
  <2> QED
    BY <2>2, <2>3, <2>4
<1>5. ASSUME NEW x, NEW y, NEW z, Before(list, x, y), Before(list, y, z)
      PROVE  Before(list, x, z)
  <2>1. PICK j, k \in DOMAIN list : j < k /\ list[j] = x /\ list[k] = y
    BY <1>5 DEF Before
  <2>2. PICK l, m \in DOMAIN list : l < m /\ list[l] = y /\ list[m] = z
    BY <1>5 DEF Before
  <2>3. j < m
    BY <1>1, <1>2, <2>1, <2>2
  <2> QED
    BY <2>1, <2>2, <2>3 DEF Before
<1>6. \A x, y \in ToSet(list) : x.id = y.id => x = y
  BY DEF OneEach, ToSet
<1> QED
  BY <1>3, <1>4, <1>5, <1>6

\* The finished rows after x.
After(list, x) == {y \in ToSet(list) : y.done /\ Before(list, x, y)}

\* Row x survives a cap of n.
Kept(list, n, x) == n = 0 \/ (x.done => Cardinality(After(list, x)) < n)

\* The rows after a position are as many as the positions after it.
LEMMA Ranks ==
  ASSUME NEW list \in Seq(Row), OneEach(list), NEW k \in DOMAIN list
  PROVE  /\ IsFiniteSet(After(list, list[k]))
         /\ Cardinality(After(list, list[k])) = Cardinality({j \in DOMAIN list : j > k /\ list[j].done})
<1>1. PICK n \in Nat : n = Len(list) /\ DOMAIN list = 1..n
  OBVIOUS
<1>2. PICK P : P = {j \in DOMAIN list : j > k /\ list[j].done}
  OBVIOUS
<1>3. PICK A : A = After(list, list[k])
  OBVIOUS
<1>4. IsFiniteSet(P)
  <2>1. IsFiniteSet(1..n) /\ P \in SUBSET (1..n)
    BY <1>1, <1>2, FS_Interval
  <2> QED
    BY <2>1, FS_Subset
<1>5. \A y : y \in A <=> \E j \in P : list[j] = y
  <2> TAKE y
  <2>1. ASSUME y \in A PROVE \E j \in P : list[j] = y
    <3>1. y.done /\ Before(list, list[k], y)
      BY <1>3, <2>1 DEF After
    <3>2. PICK i, j \in DOMAIN list : i < j /\ list[i] = list[k] /\ list[j] = y
      BY <3>1 DEF Before
    <3>3. i = k
      BY <3>2 DEF OneEach
    <3> QED
      BY <1>1, <1>2, <3>1, <3>2, <3>3
  <2>2. ASSUME NEW j \in P, list[j] = y PROVE y \in A
    <3>1. j \in DOMAIN list /\ k < j /\ list[j].done
      BY <1>1, <1>2
    <3>2. y \in ToSet(list) /\ Before(list, list[k], y)
      BY <2>2, <3>1 DEF ToSet, Before
    <3> QED
      BY <1>3, <2>2, <3>1, <3>2 DEF After
  <2> QED
    BY <2>1, <2>2
<1>6. PICK f : f = [j \in P |-> list[j]]
  OBVIOUS
<1>7. f \in Bijection(P, A)
  <2>1. f \in [P -> A]
    BY <1>5, <1>6
  <2>2. \A i, j \in P : f[i] = f[j] => i = j
    BY <1>2, <1>6 DEF OneEach
  <2>3. \A y \in A : \E j \in P : f[j] = y
    BY <1>5, <1>6
  <2> QED
    BY <2>1, <2>2, <2>3 DEF Bijection, Injection, IsInjective, Surjection
<1>8. ExistsBijection(P, A)
  BY <1>7 DEF ExistsBijection
<1> QED
  BY <1>2, <1>3, <1>4, <1>8, FS_Bijection

\* What the cap keeps.
LEMMA CapSelects ==
  ASSUME NEW list \in Seq(Row), OneEach(list), NEW n \in Nat
  PROVE  /\ CapHistory(list, n) \in Seq(Row)
         /\ OneEach(CapHistory(list, n))
         /\ ToSet(CapHistory(list, n)) = {x \in ToSet(list) : Kept(list, n, x)}
         /\ \A x, y : Before(CapHistory(list, n), x, y) <=>
              Kept(list, n, x) /\ Kept(list, n, y) /\ Before(list, x, y)
         /\ Len(CapHistory(list, n)) <= Len(list)
         /\ Len(CapHistory(list, n)) = Len(list) => ToSet(CapHistory(list, n)) = ToSet(list)
<1>1. CASE n = 0
  <2>1. CapHistory(list, n) = list
    BY <1>1 DEF CapHistory
  <2>2. \A x : Kept(list, n, x)
    BY <1>1 DEF Kept
  <2>3. Len(list) \in Nat
    OBVIOUS
  <2> QED
    BY <2>1, <2>2, <2>3
<1>2. CASE n # 0
  <2>1. PICK ks : ks = {k \in DOMAIN list : Kept(list, n, list[k])}
    OBVIOUS
  <2>2. CapHistory(list, n) = Pick(list, ks)
    <3>1. PICK js : js = {k \in DOMAIN list : list[k].done => Cardinality({j \in DOMAIN list : j > k /\ list[j].done}) < n}
      OBVIOUS
    <3>2. CapHistory(list, n) = Pick(list, js)
      BY <1>2, <3>1 DEF CapHistory
    <3>3. \A k \in DOMAIN list : k \in ks <=> k \in js
      <4> TAKE k \in DOMAIN list
      <4>1. Cardinality(After(list, list[k])) = Cardinality({j \in DOMAIN list : j > k /\ list[j].done})
        BY Ranks
      <4> QED
        BY <1>2, <2>1, <3>1, <4>1 DEF Kept
    <3>4. ks = js
      BY <2>1, <3>1, <3>3
    <3> QED
      BY <3>2, <3>4
  <2>3. DOMAIN list \cap ks = ks /\ ks \subseteq DOMAIN list
    BY <2>1
  <2>4. PICK c : c = Pick(list, ks)
    OBVIOUS
  <2>5. c \in Seq(Row) /\ Selects(c, list, ks) /\ OneEach(c)
    <3>1. \A j, k \in DOMAIN list \cap ks : list[j].id = list[k].id => j = k
      BY DEF OneEach
    <3> QED
      BY <2>4, <3>1, PickSelects
  <2>6. ToSet(c) = {list[k] : k \in ks} /\ Len(c) <= Len(list) /\ (Len(c) = Len(list) => DOMAIN list \subseteq ks)
    BY <2>3, <2>5 DEF Selects
  <2>7. ToSet(c) = {x \in ToSet(list) : Kept(list, n, x)}
    BY <2>1, <2>6 DEF ToSet
  <2>8. Len(c) = Len(list) => ToSet(c) = ToSet(list)
    BY <2>3, <2>6 DEF ToSet
  <2>9. ASSUME NEW x, NEW y
        PROVE  Before(c, x, y) <=> Kept(list, n, x) /\ Kept(list, n, y) /\ Before(list, x, y)
    <3>1. Before(c, x, y) <=> \E j, k \in ks : j < k /\ list[j] = x /\ list[k] = y
      BY <2>3, <2>5 DEF Selects
    <3>2. Before(list, x, y) <=> \E j, k \in DOMAIN list : j < k /\ list[j] = x /\ list[k] = y
      BY DEF Before
    <3> QED
      BY <2>1, <3>1, <3>2
  <2> QED
    BY <2>2, <2>4, <2>5, <2>6, <2>7, <2>8, <2>9
<1> QED
  BY <1>1, <1>2

-----------------------------------------------------------------------------
(* Memory and file in step.                                                *)

\* Lists alike are in step.
LEMMA AlikeSteps ==
  ASSUME NEW a, NEW b, Alike(a, b)
  PROVE  InStep(a, b)
BY DEF Alike, InStep

\* What is in step with a list is so with one alike.
LEMMA StepsAlike ==
  ASSUME NEW a, NEW b, NEW c, InStep(a, b), Alike(b, c)
  PROVE  InStep(a, c)
BY DEF Alike, InStep

\* A row that is added to both leaves them in step.
LEMMA AddSteps ==
  ASSUME NEW a, NEW b, NEW c, NEW d, NEW r, InStep(a, b), Adds(a, c, r), Adds(b, d, r)
  PROVE  InStep(c, d)
<1>1. ToSet(c) \subseteq ToSet(d)
  BY DEF InStep, Adds
<1>2. \A x, y \in ToSet(c) : Before(c, x, y) => Before(d, x, y)
  BY DEF InStep, Adds
<1>3. ASSUME NEW x \in ToSet(d) \ ToSet(c)
      PROVE  x.done /\ \A y \in ToSet(c) : y.done => Before(d, x, y)
  <2>1. x \in ToSet(b) /\ x.id # r.id /\ x \notin ToSet(a)
    BY DEF Adds
  <2>2. x.done /\ \A y \in ToSet(a) : y.done => Before(b, x, y)
    BY <2>1 DEF InStep
  <2>3. ASSUME NEW y \in ToSet(c), y.done
        PROVE  Before(d, x, y)
    <3>1. y = r => Before(d, x, y)
      BY <2>1 DEF Adds
    <3>2. y # r => y \in ToSet(a) /\ y.id # r.id /\ y \in ToSet(b)
      BY DEF Adds, InStep
    <3>3. y # r => Before(d, x, y)
      BY <2>1, <2>2, <2>3, <3>2 DEF Adds
    <3> QED
      BY <3>1, <3>3
  <2> QED
    BY <2>2, <2>3
<1> QED
  BY <1>1, <1>2, <1>3 DEF InStep

\* A row survives where a later finished one does not.
LEMMA LaterKept ==
  ASSUME NEW list \in Seq(Row), OneEach(list), NEW n \in Nat,
         NEW x \in ToSet(list), NEW y \in ToSet(list),
         x.done, y.done, Kept(list, n, x), Before(list, x, y)
  PROVE  Kept(list, n, y)
<1>1. PICK k \in DOMAIN list : list[k] = x
  BY DEF ToSet
<1>2. IsFiniteSet(After(list, x))
  BY <1>1, Ranks
<1>3. After(list, y) \in SUBSET After(list, x)
  BY Ordered DEF After
<1>4. Cardinality(After(list, y)) <= Cardinality(After(list, x))
  BY <1>2, <1>3, FS_Subset
<1>5. Cardinality(After(list, y)) \in Nat /\ Cardinality(After(list, x)) \in Nat
  BY <1>2, <1>3, FS_Subset, FS_CardinalityType
<1> QED
  BY <1>4, <1>5 DEF Kept

\* A cap of memory leaves it in step.
LEMMA CapSteps ==
  ASSUME NEW a \in Seq(Row), OneEach(a), NEW b, NEW n \in Nat, InStep(a, b)
  PROVE  InStep(CapHistory(a, n), b)
<1>1. PICK c : c = CapHistory(a, n)
  OBVIOUS
<1>2. /\ ToSet(c) = {x \in ToSet(a) : Kept(a, n, x)}
      /\ \A x, y : Before(c, x, y) <=> Kept(a, n, x) /\ Kept(a, n, y) /\ Before(a, x, y)
  BY <1>1, CapSelects
<1>3. ToSet(c) \subseteq ToSet(b) /\ \A x, y \in ToSet(c) : Before(c, x, y) => Before(b, x, y)
  BY <1>2 DEF InStep
<1>4. ASSUME NEW x \in ToSet(b) \ ToSet(c)
      PROVE  x.done /\ \A y \in ToSet(c) : y.done => Before(b, x, y)
  <2>1. x \notin ToSet(a) => x.done /\ \A y \in ToSet(c) : y.done => Before(b, x, y)
    BY <1>2 DEF InStep
  <2>2. ASSUME x \in ToSet(a)
        PROVE  x.done /\ \A y \in ToSet(c) : y.done => Before(b, x, y)
    <3>1. ~Kept(a, n, x)
      BY <1>2, <2>2
    <3>2. x.done
      BY <3>1 DEF Kept
    <3>3. ASSUME NEW y \in ToSet(c), y.done
          PROVE  Before(b, x, y)
      <4>1. y \in ToSet(a) /\ Kept(a, n, y)
        BY <1>2
      <4>2. ~Before(a, y, x)
        BY <2>2, <3>1, <3>2, <3>3, <4>1, LaterKept
      <4>3. x # y
        BY <3>1, <4>1
      <4>4. Before(a, x, y)
        BY <2>2, <4>1, <4>2, <4>3, Ordered
      <4> QED
        BY <2>2, <4>1, <4>4 DEF InStep
    <3> QED
      BY <3>2, <3>3
  <2> QED
    BY <2>1, <2>2
<1> QED
  BY <1>1, <1>3, <1>4 DEF InStep

\* What a cap keeps of memory it keeps of the file.
LEMMA CapKeeps ==
  ASSUME NEW a \in Seq(Row), OneEach(a), NEW b \in Seq(Row), OneEach(b), NEW n \in Nat, InStep(a, b)
  PROVE  ToSet(CapHistory(a, n)) \subseteq ToSet(CapHistory(b, n))
<1>1. SUFFICES ASSUME NEW x \in ToSet(a), Kept(a, n, x)
               PROVE  x \in ToSet(b) /\ Kept(b, n, x)
  <2>1. ToSet(CapHistory(a, n)) = {x \in ToSet(a) : Kept(a, n, x)} /\ ToSet(CapHistory(b, n)) = {x \in ToSet(b) : Kept(b, n, x)}
    BY CapSelects
  <2> QED
    BY <2>1
<1>2. x \in ToSet(b)
  BY DEF InStep
<1>3. ASSUME x.done
      PROVE  After(a, x) = After(b, x)
  <2>1. ASSUME NEW y \in After(b, x)
        PROVE  y \in After(a, x)
    <3>1. y \in ToSet(b) /\ y.done /\ Before(b, x, y) /\ ~Before(b, y, x) /\ x # y
      BY Ordered DEF After
    <3>2. y \in ToSet(a)
      BY <1>3, <3>1 DEF InStep
    <3>3. ~Before(a, y, x)
      BY <3>1, <3>2 DEF InStep
    <3>4. Before(a, x, y)
      BY <3>1, <3>2, <3>3, Ordered
    <3> QED
      BY <3>1, <3>2, <3>4 DEF After
  <2>2. After(a, x) \subseteq After(b, x)
    BY DEF After, InStep
  <2> QED
    BY <2>1, <2>2
<1> QED
  BY <1>1, <1>2, <1>3 DEF Kept

\* The latest row survives every cap.
LEMMA LastKept ==
  ASSUME NEW a, NEW b, NEW r, Adds(a, b, r), NEW n \in Nat \ {0}
  PROVE  r \in ToSet(b) /\ Kept(b, n, r)
<1>1. r \in ToSet(b) /\ \A y : ~Before(b, r, y)
  BY DEF Adds
<1>2. After(b, r) = {}
  BY <1>1 DEF After
<1>3. Cardinality(After(b, r)) = 0
  BY <1>2, FS_EmptySet
<1> QED
  BY <1>1, <1>3 DEF Kept

-----------------------------------------------------------------------------
(* Writing.                                                                *)

\* The rows of a file, folded.
Rows(f) == ToSet(MergeHistory(f))

\* The constants.
LEMMA Facts ==
  /\ IsFiniteSet(Ids) /\ Cardinality(Ids) \in Nat
  /\ Limits \subseteq Nat
  /\ None \notin Row /\ Bad \notin Row
<1>1. IsFiniteSet(Ids) /\ Limits \subseteq Nat
  BY HistoryAssumption DEF HistoryAssumption
<1> QED
  BY <1>1, FS_CardinalityType, NotRows

\* The types, one by one.
LEMMA Types ==
  ASSUME TypeOK
  PROVE  /\ limit \in Limits /\ limit \in Nat
         /\ up \in BOOLEAN /\ opened \in BOOLEAN /\ torn \in BOOLEAN
         /\ records \in Seq(Row)
         /\ lines \in Nat
         /\ file \in Seq(AnyLine)
         /\ marking \in Row \cup {None}
         /\ last \in [Ids -> Row \cup {None}]
         /\ hurt \subseteq Ids
         /\ ~up => records = <<>> /\ lines = 0 /\ ~opened /\ marking = None
BY Facts DEF TypeOK, AnyLine

\* A line more: it is written, with its newline or without, or it cannot be
\* read, or it is glued to a torn one, or nothing changes.
LEMMA AppendWrites ==
  ASSUME TypeOK, TornLast, NEW r \in Row, NEW how, AppendLine(r, how)
  PROVE  /\ up' = (how # "crash") /\ (how = "crash" => "append" \in Faults) /\ (how \in {"ok", "crash"} \/ "disk" \in Faults)
         /\ torn' \in BOOLEAN
         /\ lines' \in Nat /\ (~up' => lines' = 0)
         /\ hurt' \subseteq Ids
         /\ \/ ~torn /\ file' = Append(file, r) /\ hurt' = hurt
            \/ ~torn /\ file' = Append(file, Bad) /\ how # "ok" /\ hurt' = hurt
            \/ torn /\ file' = Append(Front(file), Bad) /\ hurt' = hurt \cup Glues(r)
            \/ how = "error" /\ file' = file /\ torn' = torn /\ hurt' = hurt
         /\ \/ how = "ok" /\ torn' = FALSE /\ lines' = lines + 1
            \/ how # "ok" /\ torn' = TRUE /\ (up' => lines' = lines)
            \/ how = "error" /\ torn' = torn /\ lines' = lines /\ file' = file
<1>1. lines \in Nat /\ torn \in BOOLEAN /\ file \in Seq(AnyLine) /\ hurt \subseteq Ids
  BY Types
<1>2. up' = (how # "crash") /\ MayEnd("append", how)
  BY DEF AppendLine
<1>3. (how = "crash" => "append" \in Faults) /\ (how \in {"ok", "crash"} \/ "disk" \in Faults)
  BY <1>2 DEF MayEnd
<1>4. ~torn => Glues(r) = {}
  BY DEF Glues
<1>5. Glues(r) \subseteq Ids
  <2>1. CASE torn /\ Last(file) # Bad
    <3>1. Last(file) \in AnyLine
      <4>1. file # <<>>
        BY <2>1 DEF TornLast
      <4> QED
        BY <1>1, <4>1 DEF Last
    <3>2. Last(file).id \in Ids /\ r.id \in Ids
      BY <2>1, <3>1 DEF AnyLine, Row
    <3> QED
      BY <3>2 DEF Glues
  <2>2. CASE ~(torn /\ Last(file) # Bad)
    BY <2>2 DEF Glues
  <2> QED
    BY <2>1, <2>2
<1> DEFINE G(line) == IF torn THEN Append(Front(file), Bad) ELSE Append(file, line)
<1>6. \/ how = "ok" /\ file' = G(r) /\ torn' = FALSE /\ lines' = lines + 1 /\ hurt' = hurt \cup Glues(r)
      \/ how # "ok" /\ torn' = TRUE /\ lines' = Lines(lines) /\ (file' = G(Bad) \/ file' = G(r)) /\ hurt' = hurt \cup Glues(r)
      \/ how = "error" /\ file' = file /\ torn' = torn /\ lines' = lines /\ hurt' = hurt
  BY Zenon DEF AppendLine
<1>7. hurt' = hurt \cup Glues(r) \/ hurt' = hurt
  BY <1>6, Zenon
<1>8. hurt' \subseteq Ids
  BY <1>1, <1>5, <1>7
<1>9. \/ ~torn /\ file' = Append(file, r) /\ hurt' = hurt
      \/ ~torn /\ file' = Append(file, Bad) /\ how # "ok" /\ hurt' = hurt
      \/ torn /\ file' = Append(Front(file), Bad) /\ hurt' = hurt \cup Glues(r)
      \/ how = "error" /\ file' = file /\ torn' = torn /\ hurt' = hurt
  <2>1. CASE torn
    <3>1. G(r) = Append(Front(file), Bad) /\ G(Bad) = Append(Front(file), Bad)
      BY <2>1, Zenon
    <3> HIDE DEF G
    <3> QED
      BY <1>6, <2>1, <3>1, Zenon
  <2>2. CASE ~torn
    <3>1. G(r) = Append(file, r) /\ G(Bad) = Append(file, Bad)
      BY <2>2, Zenon
    <3>2. hurt' = hurt
      BY <1>4, <1>7, <2>2
    <3> HIDE DEF G
    <3> QED
      BY <1>6, <2>2, <3>1, <3>2, Zenon
  <2> QED
    BY <2>1, <2>2
<1>10. \/ how = "ok" /\ torn' = FALSE /\ lines' = lines + 1
       \/ how # "ok" /\ torn' = TRUE /\ lines' = Lines(lines)
       \/ how = "error" /\ torn' = torn /\ lines' = lines /\ file' = file
  <2> HIDE DEF G
  <2> QED
    BY <1>6, Zenon
<1>11. torn' \in BOOLEAN
  BY <1>1, <1>10, Zenon
<1>12. Lines(lines) = IF up' THEN lines ELSE 0
  BY Zenon DEF Lines
<1>13. lines' \in Nat /\ (~up' => lines' = 0) /\ (lines' = Lines(lines) /\ up' => lines' = lines)
  <2>1. (how = "ok" => up') /\ (how = "error" => up')
    BY <1>2
  <2>2. (lines' = lines + 1 /\ up') \/ lines' = (IF up' THEN lines ELSE 0) \/ (lines' = lines /\ up')
    BY <1>10, <1>12, <2>1, Zenon
  <2> QED
    BY <1>1, <1>12, <2>2
<1> HIDE DEF G
<1>14. \/ how = "ok" /\ torn' = FALSE /\ lines' = lines + 1
       \/ how # "ok" /\ torn' = TRUE /\ (up' => lines' = lines)
       \/ how = "error" /\ torn' = torn /\ lines' = lines /\ file' = file
  BY <1>10, <1>13, Zenon
<1> QED
  BY <1>2, <1>3, <1>8, <1>9, <1>11, <1>13, <1>14, Zenon

\* What a line that is glued to a torn one leaves of the file.
LEMMA GlueEffect ==
  ASSUME TypeOK, TornLast, torn, NEW g, g = Append(Front(file), Bad)
  PROVE  /\ g \in Seq(AnyLine) /\ g # <<>> /\ Len(g) = Len(file)
         /\ Last(file) = file[Len(file)]
         /\ Last(file) = Bad => g = file
         /\ Last(file) # Bad =>
              /\ Loses(MergeHistory(file), MergeHistory(g), Last(file).id)
              /\ (\A k \in DOMAIN file : Latest(file, k)) => \A x \in Rows(g) : x.id # Last(file).id
<1>1. file \in Seq(AnyLine) /\ file # <<>>
  BY Types DEF TornLast
<1>2. PICK n \in Nat : n = Len(file)
  BY <1>1
<1>3. n # 0
  BY <1>1, <1>2
<1>4. Bad \in AnyLine
  BY DEF AnyLine
<1>5. PICK s : s = SubSeq(file, 1, n - 1)
  OBVIOUS
<1>6. s \in Seq(AnyLine) /\ Len(s) = n - 1 /\ \A k \in 1..(n-1) : s[k] = file[k]
  BY <1>1, <1>2, <1>3, <1>5
<1>7. g = Append(s, Bad)
  BY <1>2, <1>5 DEF Front
<1>8. g \in Seq(AnyLine) /\ Len(g) = n /\ g[n] = Bad /\ \A k \in 1..(n-1) : g[k] = file[k]
  BY <1>3, <1>4, <1>6, <1>7
<1>9. Last(file) = file[n]
  BY <1>2 DEF Last
<1>10. file[n] = Bad => g = file
  <2> SUFFICES ASSUME file[n] = Bad PROVE g = file
    OBVIOUS
  <2>1. \A k \in 1..n : g[k] = file[k]
    <3>1. \A k \in 1..n : k = n \/ k \in 1..(n-1)
      BY <1>3
    <3> QED
      BY <1>8, <3>1
  <2> QED
    BY <1>1, <1>2, <1>8, <2>1, SeqEqual
<1>11. file[n] # Bad =>
         /\ Loses(MergeHistory(file), MergeHistory(g), file[n].id)
         /\ (\A k \in DOMAIN file : Latest(file, k)) => \A x \in ToSet(MergeHistory(g)) : x.id # file[n].id
  BY <1>1, <1>2, <1>3, <1>8, MergeLoses
<1>12. g # <<>>
  BY <1>3, <1>8
<1> QED
  BY <1>2, <1>8, <1>9, <1>10, <1>11, <1>12, Zenon DEF Rows

\* What an appended line means to the folded file, and how long the file gets.
LEMMA AppendEffect ==
  ASSUME TypeOK, TornLast, NEW r \in Row, NEW how, AppendLine(r, how)
  PROVE  /\ file' \in Seq(AnyLine)
         /\ TornLast'
         /\ Len(file') <= Len(file) + 1 /\ (torn => Len(file') = Len(file))
         /\ up' => Len(file') + lines + (IF torn THEN 1 ELSE 0) <= Len(file) + lines' + (IF torn' THEN 1 ELSE 0)
         /\ \/ Alike(MergeHistory(file), MergeHistory(file')) /\ hurt' = hurt
               /\ (how = "ok" => torn /\ Last(file) = Bad)
            \/ Adds(MergeHistory(file), MergeHistory(file'), r) /\ hurt' = hurt /\ ~torn
            \/ /\ torn /\ Last(file) # Bad /\ hurt' = hurt \cup {r.id, Last(file).id}
               /\ Loses(MergeHistory(file), MergeHistory(file'), Last(file).id)
               /\ (\A k \in DOMAIN file : Latest(file, k)) => \A x \in Rows(file') : x.id # Last(file).id
<1>1. lines \in Nat /\ torn \in BOOLEAN /\ file \in Seq(AnyLine) /\ Len(file) \in Nat
  BY Types
<1>2. r \in AnyLine /\ Bad \in AnyLine
  BY DEF AnyLine
<1>3. torn' \in BOOLEAN /\ lines' \in Nat
  BY AppendWrites
<1> DEFINE Known == /\ file' \in Seq(AnyLine) /\ TornLast'
                    /\ Len(file') = Len(file) + (IF torn \/ file' = file THEN 0 ELSE 1)
           Kind == \/ Alike(MergeHistory(file), MergeHistory(file')) /\ hurt' = hurt
                      /\ (how = "ok" => torn /\ Last(file) = Bad)
                   \/ Adds(MergeHistory(file), MergeHistory(file'), r) /\ hurt' = hurt /\ ~torn
                   \/ /\ torn /\ Last(file) # Bad /\ hurt' = hurt \cup {r.id, Last(file).id}
                      /\ Loses(MergeHistory(file), MergeHistory(file'), Last(file).id)
                      /\ (\A k \in DOMAIN file : Latest(file, k)) => \A x \in Rows(file') : x.id # Last(file).id
<1>4. ASSUME NEW line \in AnyLine, file' = Append(file, line), ~torn
      PROVE  Known
  <2>1. Len(file') = Len(file) + 1 /\ file' \in Seq(AnyLine)
    BY <1>1, <1>4
  <2>2. file' # <<>> /\ file' # file
    BY <1>1, <2>1
  <2> QED
    BY <1>4, <2>1, <2>2 DEF TornLast
<1>5. ASSUME ~torn, file' = Append(file, r), hurt' = hurt
      PROVE  Known /\ Kind
  <2>1. Adds(MergeHistory(file), MergeHistory(file'), r)
    BY <1>1, <1>5, MergeAdds
  <2>2. Known
    BY <1>2, <1>4, <1>5
  <2> QED
    BY <1>5, <2>1, <2>2
<1>6. ASSUME ~torn, file' = Append(file, Bad), how # "ok", hurt' = hurt
      PROVE  Known /\ Kind
  <2>1. Alike(MergeHistory(file), MergeHistory(file'))
    BY <1>1, <1>6, MergeBad
  <2>2. Known
    BY <1>2, <1>4, <1>6
  <2> QED
    BY <1>6, <2>1, <2>2
<1>7. ASSUME torn, file' = Append(Front(file), Bad), hurt' = hurt \cup Glues(r)
      PROVE  Known /\ Kind
  <2>1. /\ file' \in Seq(AnyLine) /\ file' # <<>> /\ Len(file') = Len(file)
        /\ Last(file) = Bad => file' = file
        /\ Last(file) # Bad =>
              /\ Loses(MergeHistory(file), MergeHistory(file'), Last(file).id)
              /\ (\A k \in DOMAIN file : Latest(file, k)) => \A x \in Rows(file') : x.id # Last(file).id
    BY <1>7, GlueEffect
  <2>2. Known
    BY <1>1, <1>7, <2>1 DEF TornLast
  <2>3. CASE Last(file) = Bad
    <3>1. hurt' = hurt
      BY <1>7, <2>3 DEF Glues
    <3>2. Alike(MergeHistory(file), MergeHistory(file'))
      BY <2>1, <2>3 DEF Alike
    <3> QED
      BY <1>7, <2>2, <2>3, <3>1, <3>2
  <2>4. CASE Last(file) # Bad
    <3>1. hurt' = hurt \cup {r.id, Last(file).id}
      BY <1>7, <2>4 DEF Glues
    <3> QED
      BY <1>7, <2>1, <2>2, <2>4, <3>1
  <2> QED
    BY <2>3, <2>4
<1>8. ASSUME how = "error", file' = file, torn' = torn, hurt' = hurt
      PROVE  Known /\ Kind
  <2>1. Alike(MergeHistory(file), MergeHistory(file'))
    BY <1>8 DEF Alike
  <2> QED
    BY <1>1, <1>8, <2>1 DEF TornLast
<1>9. \/ how = "ok" /\ torn' = FALSE /\ lines' = lines + 1
      \/ how # "ok" /\ torn' = TRUE /\ (up' => lines' = lines)
      \/ how = "error" /\ torn' = torn /\ lines' = lines /\ file' = file
  BY AppendWrites, Zenon
<1>10. Known /\ Kind
  <2> HIDE DEF Known, Kind
  <2>1. \/ ~torn /\ file' = Append(file, r) /\ hurt' = hurt
        \/ ~torn /\ file' = Append(file, Bad) /\ how # "ok" /\ hurt' = hurt
        \/ torn /\ file' = Append(Front(file), Bad) /\ hurt' = hurt \cup Glues(r)
        \/ how = "error" /\ file' = file /\ torn' = torn /\ hurt' = hurt
    BY AppendWrites, Zenon
  <2> QED
    BY <1>5, <1>6, <1>7, <1>8, <2>1, Zenon
<1>11. /\ Len(file') <= Len(file) + 1 /\ (torn => Len(file') = Len(file))
       /\ up' => Len(file') + lines + (IF torn THEN 1 ELSE 0) <= Len(file) + lines' + (IF torn' THEN 1 ELSE 0)
  <2>1. PICK d \in {0, 1} : d = IF torn \/ file' = file THEN 0 ELSE 1
    OBVIOUS
  <2>2. PICK e0 \in {0, 1} : e0 = IF torn THEN 1 ELSE 0
    OBVIOUS
  <2>3. PICK e1 \in {0, 1} : e1 = IF torn' THEN 1 ELSE 0
    OBVIOUS
  <2>4. Len(file') = Len(file) + d
    BY <1>10, <2>1
  <2>5. d + e0 <= 1 /\ (file' = file => d = 0)
    BY <2>1, <2>2
  <2>6. up' => lines' = lines + 1 \/ (lines' = lines /\ e1 = 1) \/ (lines' = lines /\ e1 = e0 /\ d = 0)
    BY <1>9, <2>2, <2>3, <2>5
  <2>7. up' => Len(file') + lines + e0 <= Len(file) + lines' + e1
    BY <1>1, <1>3, <2>4, <2>5, <2>6
  <2>8. up' => Len(file') + lines + (IF torn THEN 1 ELSE 0) <= Len(file) + lines' + (IF torn' THEN 1 ELSE 0)
    BY <2>2, <2>3, <2>7, Zenon
  <2>9. Len(file') <= Len(file) + 1
    BY <1>1, <2>4
  <2>10. torn => Len(file') = Len(file)
    BY <1>1, <2>1, <2>4
  <2> QED
    BY <2>8, <2>9, <2>10, Zenon
<1> QED
  BY <1>10, <1>11, Zenon

\* The start of a list with one row of each id is such a list.
LEMMA Prefix ==
  ASSUME NEW list \in Seq(Row), OneEach(list), NEW k \in 0..Len(list)
  PROVE  /\ SubSeq(list, 1, k) \in Seq(Row) /\ OneEach(SubSeq(list, 1, k))
         /\ Len(SubSeq(list, 1, k)) = k
         /\ ToSet(SubSeq(list, 1, k)) \subseteq ToSet(list)
<1>1. PICK s : s = SubSeq(list, 1, k)
  OBVIOUS
<1>2. PICK n \in Nat : n = Len(list)
  OBVIOUS
<1>3. s \in Seq(Row) /\ Len(s) = k /\ \A i \in 1..k : s[i] = list[i]
  BY <1>1, <1>2
<1>4. k \in Nat /\ \A i \in 1..k : i \in 1..n
  BY <1>2
<1>5. DOMAIN s = 1..k /\ DOMAIN list = 1..n
  BY <1>2, <1>3
<1>6. OneEach(s) /\ ToSet(s) \subseteq ToSet(list)
  BY <1>3, <1>4, <1>5 DEF OneEach, ToSet
<1> QED
  BY <1>1, <1>3, <1>6

\* A rewritten file: it is the rows, or some first of them, perhaps with a torn
\* line or without the last newline, or nothing changes.
LEMMA CompactEffect ==
  ASSUME TypeOK, TornLast, NEW rows \in Seq(Row), OneEach(rows), NEW n \in Nat, NEW how,
         CompactHistory(rows, n, how)
  PROVE  /\ up' = (how # "crash") /\ (how = "crash" => "compact" \in Faults) /\ (how \in {"ok", "crash"} \/ "disk" \in Faults)
         /\ torn' \in BOOLEAN
         /\ lines' \in Nat /\ (~up' => lines' = 0)
         /\ file' \in Seq(AnyLine)
         /\ TornLast'
         /\ hurt' = (IF how = "ok" THEN {} ELSE hurt) /\ hurt' \subseteq Ids
         /\ \/ how = "ok" /\ ~torn' /\ lines' = Len(rows) /\ Len(file') = lines' /\ Alike(rows, MergeHistory(file'))
            \/ how # "ok" /\ (up' => lines' = n) /\ Len(file') <= Len(rows) /\ Rows(file') \subseteq ToSet(rows)
            \/ how # "ok" /\ (up' => lines' = n) /\ file' = file /\ torn' = torn
<1>1. torn \in BOOLEAN /\ file \in Seq(AnyLine) /\ Len(rows) \in Nat
  BY Types
<1>2. up' = (how # "crash") /\ MayEnd("compact", how)
  BY DEF CompactHistory
<1>3. (how = "crash" => "compact" \in Faults) /\ (how \in {"ok", "crash"} \/ "disk" \in Faults)
  BY <1>2 DEF MayEnd
<1> DEFINE Same == /\ torn' \in BOOLEAN
                   /\ lines' \in Nat /\ (~up' => lines' = 0)
                   /\ file' \in Seq(AnyLine)
                   /\ TornLast'
           Kind == \/ how = "ok" /\ ~torn' /\ lines' = Len(rows) /\ Len(file') = lines' /\ Alike(rows, MergeHistory(file'))
                   \/ how # "ok" /\ (up' => lines' = n) /\ Len(file') <= Len(rows) /\ Rows(file') \subseteq ToSet(rows)
                   \/ how # "ok" /\ (up' => lines' = n) /\ file' = file /\ torn' = torn
<1>4. \/ how = "ok" /\ up' /\ file' = rows /\ torn' = FALSE /\ lines' = Len(rows)
      \/ /\ how # "ok"
         /\ \E k \in 0..Len(rows) :
              \/ file' = SubSeq(rows, 1, k) /\ torn' \in {FALSE, k > 0}
              \/ k < Len(rows) /\ file' = Append(SubSeq(rows, 1, k), Bad) /\ torn' = TRUE
         /\ lines' = IF up' THEN n ELSE 0
      \/ how = "error" /\ up' /\ lines' = n /\ file' = file /\ torn' = torn
  <2>1. (how = "ok" => up') /\ (how = "error" => up')
    BY <1>2
  <2> QED
    BY <2>1, Zenon DEF CompactHistory, Lines
<1>5. ASSUME how = "ok", up', file' = rows, torn' = FALSE, lines' = Len(rows)
      PROVE  Same /\ Kind
  <2>1. torn' \in BOOLEAN /\ ~torn'
    BY <1>5, Zenon
  <2>2. file' \in Seq(AnyLine) /\ TornLast' /\ lines' \in Nat /\ Len(file') = lines'
    BY <1>1, <1>5, <2>1 DEF AnyLine, TornLast
  <2>3. Alike(rows, MergeHistory(file'))
    BY <1>5, MergeRows DEF Alike
  <2>4. Same
    BY <1>5, <2>1, <2>2, Zenon
  <2> QED
    BY <1>5, <2>1, <2>2, <2>3, <2>4, Zenon
<1>6. ASSUME how # "ok", NEW k \in 0..Len(rows), lines' = (IF up' THEN n ELSE 0),
             file' = SubSeq(rows, 1, k), torn' \in {FALSE, k > 0}
      PROVE  Same /\ Kind
  <2>1. torn' \in BOOLEAN /\ (torn' => k > 0)
    <3>1. torn' = FALSE \/ torn' = (k > 0)
      BY <1>6, Zenon
    <3>2. FALSE \in BOOLEAN /\ (k > 0) \in BOOLEAN
      OBVIOUS
    <3>3. torn' \in BOOLEAN
      BY <3>1, <3>2, Zenon
    <3> QED
      BY <3>1, <3>3, Zenon
  <2>2. file' \in Seq(Row) /\ OneEach(file') /\ Len(file') = k /\ ToSet(file') \subseteq ToSet(rows)
    BY <1>6, Prefix
  <2>0. k > 0 => file' # <<>>
    BY <2>2
  <2>3. file' \in Seq(AnyLine) /\ TornLast'
    BY <2>0, <2>1, <2>2 DEF AnyLine, TornLast
  <2>4. Alike(MergeHistory(file'), file')
    BY <2>2, MergeRows
  <2>5. Len(file') <= Len(rows) /\ Rows(file') \subseteq ToSet(rows)
    BY <1>1, <2>2, <2>4 DEF Rows, Alike
  <2>6. lines' \in Nat /\ (~up' => lines' = 0) /\ (up' => lines' = n)
    BY <1>6
  <2> QED
    BY <1>6, <2>1, <2>3, <2>5, <2>6, Zenon
<1>7. ASSUME how # "ok", NEW k \in 0..Len(rows), lines' = (IF up' THEN n ELSE 0),
             k < Len(rows), file' = Append(SubSeq(rows, 1, k), Bad), torn' = TRUE
      PROVE  Same /\ Kind
  <2>1. torn' \in BOOLEAN /\ torn'
    BY <1>7, Zenon
  <2>2. PICK s : s = SubSeq(rows, 1, k)
    OBVIOUS
  <2>3. s \in Seq(Row) /\ OneEach(s) /\ Len(s) = k /\ ToSet(s) \subseteq ToSet(rows)
    BY <2>2, Prefix
  <2>4. s \in Seq(AnyLine) /\ Bad \in AnyLine /\ k \in Nat
    BY <2>3 DEF AnyLine
  <2>5. file' \in Seq(AnyLine) /\ Len(file') = k + 1 /\ file'[k+1] = Bad
    BY <1>7, <2>2, <2>3, <2>4
  <2>6. file' # <<>>
    BY <2>4, <2>5
  <2>7. TornLast'
    BY <2>5, <2>6 DEF TornLast
  <2>8. Alike(MergeHistory(s), s)
    BY <2>3, MergeRows
  <2>9. Alike(MergeHistory(s), MergeHistory(file'))
    BY <1>7, <2>2, <2>4, MergeBad
  <2>10. Len(file') <= Len(rows) /\ Rows(file') \subseteq ToSet(rows)
    BY <1>1, <1>7, <2>3, <2>4, <2>5, <2>8, <2>9 DEF Rows, Alike
  <2>11. lines' \in Nat /\ (~up' => lines' = 0) /\ (up' => lines' = n)
    BY <1>7
  <2> QED
    BY <1>7, <2>1, <2>5, <2>7, <2>10, <2>11, Zenon
<1>8. ASSUME how = "error", up', lines' = n, file' = file, torn' = torn
      PROVE  Same /\ Kind
  <2>1. torn' \in BOOLEAN
    BY <1>1, <1>8, Zenon
  <2>2. TornLast'
    BY <1>8 DEF TornLast
  <2>3. how # "ok"
    BY <1>8
  <2> QED
    BY <1>1, <1>8, <2>1, <2>2, <2>3, Zenon
<1>9. Same /\ Kind
  BY <1>4, <1>5, <1>6, <1>7, <1>8, Zenon
<1>10. hurt' = (IF how = "ok" THEN {} ELSE hurt)
  BY Zenon DEF CompactHistory
<1>11. hurt' \subseteq Ids
  BY <1>10, Types
<1> QED
  BY <1>2, <1>3, <1>9, <1>10, <1>11, Zenon

-----------------------------------------------------------------------------
(* The inductive invariant: one lemma for each operation.                  *)

\* Rows of a list without ids that are gone.
LEMMA Deleted ==
  ASSUME TypeOK
  PROVE  DeletedStaysDeleted <=>
           \A i \in Ids : last[i] = None => \A x \in ToSet(records) \cup Rows(file) : x.id # i
BY DEF DeletedStaysDeleted, IdsOf, ToSet, Rows

\* The types of the next state, one by one.
LEMMA TypesNext ==
  ASSUME limit' \in Limits, up' \in BOOLEAN, opened' \in BOOLEAN, torn' \in BOOLEAN,
         records' \in Seq(Row), lines' \in Nat, file' \in Seq(AnyLine),
         marking' \in Row \cup {None}, last' \in [Ids -> Row \cup {None}], hurt' \subseteq Ids,
         ~up' => records' = <<>> /\ lines' = 0 /\ ~opened' /\ marking' = None
  PROVE  TypeOK'
BY Zenon DEF TypeOK, AnyLine

\* A row is merged into memory and the list capped.
LEMMA KeptRows ==
  ASSUME TypeOK, OneEach(records), NEW r \in Row
  PROVE  LET merged == MergeHistory(Append(records, r))
             kept == CapHistory(merged, limit)
         IN  /\ merged \in Seq(Row) /\ OneEach(merged) /\ Adds(records, merged, r)
             /\ kept \in Seq(Row) /\ OneEach(kept)
             /\ ToSet(kept) = {x \in ToSet(merged) : Kept(merged, limit, x)}
             /\ ToSet(kept) \subseteq {x \in ToSet(records) : x.id # r.id} \cup {r}
             /\ limit > 0 => r \in ToSet(kept)
<1>1. records \in Seq(Row) /\ limit \in Nat
  BY Types
<1>2. PICK merged : merged = MergeHistory(Append(records, r))
  OBVIOUS
<1>3. merged \in Seq(Row) /\ OneEach(merged) /\ Adds(records, merged, r)
  BY <1>1, <1>2, MemoryAdds
<1>4. PICK kept : kept = CapHistory(merged, limit)
  OBVIOUS
<1>5. kept \in Seq(Row) /\ OneEach(kept) /\ ToSet(kept) = {x \in ToSet(merged) : Kept(merged, limit, x)}
  BY <1>1, <1>3, <1>4, CapSelects
<1>6. ToSet(kept) \subseteq {x \in ToSet(records) : x.id # r.id} \cup {r}
  BY <1>3, <1>5 DEF Adds
<1>7. limit > 0 => r \in ToSet(kept)
  BY <1>1, <1>3, <1>5, LastKept
<1> QED
  BY <1>2, <1>3, <1>4, <1>5, <1>6, <1>7

\* A recorded row.
LEMMA UpsertKeeps ==
  ASSUME LogInv, up, limit > 0, NEW r \in Row, NEW how, UpsertHistory(r, how)
  PROVE  LogInv'
<1>1. TypeOK /\ OneEach(records) /\ TornLast /\ Counted /\ DeletedStaysDeleted /\ LogBounded
  BY DEF LogInv
<1>2. /\ limit \in Limits /\ limit \in Nat /\ records \in Seq(Row) /\ lines \in Nat
      /\ file \in Seq(AnyLine) /\ last \in [Ids -> Row \cup {None}] /\ torn \in BOOLEAN
      /\ Len(file) \in Nat
  BY <1>1, Types
<1>0. r.id \in Ids /\ r # None
  BY Facts DEF Row
<1>3. PICK kept : kept = CapHistory(MergeHistory(Append(records, r)), limit)
  OBVIOUS
<1>4. /\ kept \in Seq(Row) /\ OneEach(kept) /\ Len(kept) \in Nat
      /\ ToSet(kept) \subseteq {x \in ToSet(records) : x.id # r.id} \cup {r}
  BY <1>1, <1>3, KeptRows
<1>5. /\ (lines >= 2 * limit => CompactHistory(kept, lines, how))
      /\ (~(lines >= 2 * limit) => AppendLine(r, how))
      /\ Remember(kept, None)
      /\ last' = (IF up' \/ r \in Rows(file') THEN [last EXCEPT ![r.id] = r] ELSE last)
      /\ limit' = limit
  BY <1>3, Zenon DEF UpsertHistory, Rows
<1>6. /\ records' = (IF up' THEN kept ELSE <<>>)
      /\ opened' = (up' /\ opened)
      /\ marking' = None
  BY <1>5, Zenon DEF Remember
<1>7. opened
  BY <1>1, Zenon DEF Counted
<1>8. /\ Cardinality(Ids) \in Nat /\ Len(kept) <= Cardinality(Ids)
      /\ Len(file) <= lines + Cardinality(Ids) + (IF torn THEN 1 ELSE 0)
  BY <1>1, <1>4, <1>7, FewRows DEF Counted
<1> DEFINE Bound == \A n \in Limits : (\A m \in Limits : m <= n) => Len(file') <= 2 * n + Cardinality(Ids) + 1
           Written == /\ up' \in BOOLEAN /\ torn' \in BOOLEAN /\ lines' \in Nat /\ (~up' => lines' = 0)
                      /\ file' \in Seq(AnyLine)
                      /\ TornLast'
                      /\ hurt' \subseteq Ids
           Known == \A x \in Rows(file') : x = r \/ \E y \in Rows(file) \cup ToSet(records) : y.id = x.id
           Short == up' => Len(file') <= lines' + Cardinality(Ids) + (IF torn' THEN 1 ELSE 0)
<1>9. ASSUME lines >= 2 * limit
      PROVE  Written /\ Known /\ Short /\ Bound
  <2>1. /\ up' = (how # "crash")
        /\ torn' \in BOOLEAN /\ lines' \in Nat /\ (~up' => lines' = 0)
        /\ file' \in Seq(AnyLine)
        /\ TornLast' /\ hurt' \subseteq Ids
        /\ \/ how = "ok" /\ ~torn' /\ lines' = Len(kept) /\ Len(file') = lines' /\ Alike(kept, MergeHistory(file'))
           \/ how # "ok" /\ (up' => lines' = lines) /\ Len(file') <= Len(kept) /\ Rows(file') \subseteq ToSet(kept)
           \/ how # "ok" /\ (up' => lines' = lines) /\ file' = file /\ torn' = torn
    <3>1. CompactHistory(kept, lines, how)
      BY <1>5, <1>9
    <3> QED
      BY <1>1, <1>2, <1>4, <3>1, CompactEffect
  <2>2. up' \in BOOLEAN /\ Len(file') \in Nat
    BY <2>1
  <2>3. Rows(file') \subseteq ToSet(kept) \/ file' = file
    BY <2>1 DEF Alike, Rows
  <2>4. Known
    BY <1>4, <2>3
  <2>5. Written
    BY <2>1, <2>2, Zenon
  <2>6. Short
    <3> SUFFICES ASSUME up'
                 PROVE  Len(file') <= lines' + Cardinality(Ids) + (IF torn' THEN 1 ELSE 0)
      OBVIOUS
    <3>1. Len(kept) \in Nat /\ Len(kept) <= Cardinality(Ids) /\ Cardinality(Ids) \in Nat
          /\ Len(file) \in Nat /\ Len(file') \in Nat /\ lines \in Nat /\ lines' \in Nat
      BY <1>2, <1>4, <1>8, <2>1, <2>2
    <3>2. CASE how = "ok"
      BY <2>1, <3>1, <3>2
    <3>3. CASE how # "ok" /\ lines' = lines /\ Len(file') <= Len(kept)
      BY <3>1, <3>3
    <3>4. CASE lines' = lines /\ file' = file /\ torn' = torn
      BY <1>8, <3>1, <3>4
    <3> QED
      BY <2>1, <3>2, <3>3, <3>4
  <2>7. Len(file') <= Cardinality(Ids) \/ file' = file
    BY <1>4, <1>8, <2>1, <2>2
  <2>8. Bound
    <3> SUFFICES ASSUME NEW n \in Limits, \A m \in Limits : m <= n
                 PROVE  Len(file') <= 2 * n + Cardinality(Ids) + 1
      OBVIOUS
    <3>1. n \in Nat
      BY Facts
    <3>2. Len(file) <= 2 * n + Cardinality(Ids) + 1
      BY <1>1 DEF LogBounded
    <3> QED
      BY <1>2, <1>8, <2>2, <2>7, <3>1, <3>2
  <2> QED
    BY <2>4, <2>5, <2>6, <2>8
<1>10. ASSUME ~(lines >= 2 * limit)
       PROVE  Written /\ Known /\ Short /\ Bound
  <2>1. AppendLine(r, how)
    BY <1>5, <1>10
  <2>2. /\ up' = (how # "crash") /\ torn' \in BOOLEAN /\ lines' \in Nat /\ (~up' => lines' = 0) /\ hurt' \subseteq Ids
    <3>1. torn' \in BOOLEAN /\ lines' \in Nat /\ (~up' => lines' = 0) /\ hurt' \subseteq Ids
      BY <1>1, <2>1, AppendWrites
    <3>2. up' = (how # "crash")
      BY <2>1, Zenon DEF AppendLine
    <3> QED
      BY <3>1, <3>2, Zenon
  <2>3. /\ file' \in Seq(AnyLine) /\ TornLast'
        /\ Len(file') <= Len(file) + 1 /\ (torn => Len(file') = Len(file))
        /\ up' => Len(file') + lines + (IF torn THEN 1 ELSE 0) <= Len(file) + lines' + (IF torn' THEN 1 ELSE 0)
        /\ \/ Alike(MergeHistory(file), MergeHistory(file'))
           \/ Adds(MergeHistory(file), MergeHistory(file'), r)
           \/ Loses(MergeHistory(file), MergeHistory(file'), Last(file).id)
    BY <1>1, <2>1, AppendEffect, Zenon
  <2>4. up' \in BOOLEAN /\ Len(file') \in Nat
    BY <2>2, <2>3
  <2>5. Known
    <3>1. CASE Alike(MergeHistory(file), MergeHistory(file'))
      BY <3>1 DEF Alike, Rows
    <3>2. CASE Adds(MergeHistory(file), MergeHistory(file'), r)
      BY <3>2 DEF Adds, Rows
    <3>3. CASE Loses(MergeHistory(file), MergeHistory(file'), Last(file).id)
      BY <3>3 DEF Loses, Rows
    <3> QED
      BY <2>3, <3>1, <3>2, <3>3
  <2>6. Written
    BY <2>2, <2>3, <2>4, Zenon
  <2>7. Short
    <3> SUFFICES ASSUME up'
                 PROVE  Len(file') <= lines' + Cardinality(Ids) + (IF torn' THEN 1 ELSE 0)
      OBVIOUS
    <3>1. Len(file') + lines + (IF torn THEN 1 ELSE 0) <= Len(file) + lines' + (IF torn' THEN 1 ELSE 0)
      BY <2>3
    <3>2. Len(file) <= lines + Cardinality(Ids) + (IF torn THEN 1 ELSE 0) /\ Cardinality(Ids) \in Nat
      BY <1>8
    <3>3. Len(file) \in Nat /\ Len(file') \in Nat /\ lines \in Nat /\ lines' \in Nat
      BY <1>2, <2>2, <2>4
    <3>4. PICK e0 \in Nat : e0 = IF torn THEN 1 ELSE 0
      OBVIOUS
    <3>5. PICK e1 \in Nat : e1 = IF torn' THEN 1 ELSE 0
      OBVIOUS
    <3>6. Len(file') + lines + e0 <= Len(file) + lines' + e1 /\ Len(file) <= lines + Cardinality(Ids) + e0
      BY <3>1, <3>2, <3>4, <3>5, Zenon
    <3>7. Len(file') <= lines' + Cardinality(Ids) + e1
      BY <3>2, <3>3, <3>6
    <3> QED
      BY <3>5, <3>7, Zenon
  <2>8. Bound
    <3> SUFFICES ASSUME NEW n \in Limits, \A m \in Limits : m <= n
                 PROVE  Len(file') <= 2 * n + Cardinality(Ids) + 1
      OBVIOUS
    <3>1. n \in Nat /\ limit <= n
      BY <1>2, Facts
    <3>2. lines < 2 * n
      BY <1>2, <1>10, <3>1
    <3> QED
      BY <1>2, <1>8, <2>3, <2>4, <3>1, <3>2
  <2> QED
    BY <2>5, <2>6, <2>7, <2>8
<1>11. Written /\ Known /\ Short /\ Bound
  BY <1>9, <1>10, Zenon
<1>12. records' \in Seq(Row) /\ OneEach(records') /\ ToSet(records') \subseteq ToSet(records) \cup {r}
       /\ (~up' => records' = <<>>)
  <2>1. up' => records' \in Seq(Row) /\ OneEach(records') /\ ToSet(records') \subseteq ToSet(records) \cup {r}
    BY <1>4, <1>6
  <2>2. <<>> \in Seq(Row) /\ OneEach(<<>>) /\ ToSet(<<>>) = {}
    BY DEF OneEach, ToSet
  <2> QED
    BY <1>6, <2>1, <2>2
<1>13. last' \in [Ids -> Row \cup {None}] /\ (\A i \in Ids : last'[i] = None => last[i] = None)
       /\ (up' \/ r \in Rows(file') => last'[r.id] = r) /\ r.id \in Ids /\ r # None
  <2>1. r.id \in Ids /\ r # None
    BY Facts DEF Row
  <2> QED
    BY <1>2, <1>5, <2>1
<1>14. TypeOK'
  <2>1. opened' \in BOOLEAN /\ (~up' => ~opened')
    BY <1>6
  <2>2. limit' \in Limits /\ marking' \in Row \cup {None}
    BY <1>2, <1>5, <1>6
  <2> QED
    BY <1>6, <1>11, <1>12, <1>13, <2>1, <2>2, TypesNext, Zenon
<1>15. DeletedStaysDeleted'
  <2>1. ASSUME NEW i \in Ids, last'[i] = None, NEW x \in ToSet(records') \cup Rows(file')
        PROVE  x.id # i
    <3>1. last[i] = None
      BY <1>13, <2>1
    <3>2. \A y \in ToSet(records) \cup Rows(file) : y.id # i
      BY <1>1, <3>1, Deleted
    <3>3. ~up' => ToSet(records') = {}
      BY <1>12 DEF ToSet
    <3>4. CASE x = r
      <4>1. up' \/ r \in Rows(file')
        BY <2>1, <3>3, <3>4
      <4> QED
        BY <1>13, <2>1, <3>4, <4>1
    <3>5. CASE x # r /\ x \in ToSet(records')
      <4>1. x \in ToSet(records)
        BY <1>12, <3>5
      <4> QED
        BY <3>2, <4>1
    <3>6. CASE x # r /\ x \in Rows(file')
      <4>1. PICK y \in Rows(file) \cup ToSet(records) : y.id = x.id
        BY <1>11, <3>6
      <4> QED
        BY <3>2, <4>1
    <3> QED
      BY <2>1, <3>4, <3>5, <3>6
  <2> QED
    BY <2>1 DEF DeletedStaysDeleted, IdsOf, ToSet, Rows
<1>16. Counted'
  BY <1>1, <1>5, <1>6, <1>7, <1>11, <1>12 DEF Counted
<1>17. LogBounded'
  BY <1>11 DEF LogBounded
<1> QED
  BY <1>11, <1>12, <1>14, <1>15, <1>16, <1>17, Zenon DEF LogInv

\* What a file has, by id.
LEMMA FoundById ==
  ASSUME file \in Seq(AnyLine), NEW m, m = ById(MergeHistory(file))
  PROVE  /\ m \in [Ids -> Row \cup {None}]
         /\ \A i \in Ids : m[i] = None => \A x \in Rows(file) : x.id # i
         /\ \A i \in Ids : m[i] # None => m[i] \in Rows(file) /\ m[i].id = i
         /\ \A x \in Rows(file) : x \in Row /\ x.id \in Ids /\ m[x.id] = x
<1>1. PICK list : list = MergeHistory(file)
  OBVIOUS
<1>2. list \in Seq(Row) /\ OneEach(list) /\ Rows(file) = ToSet(list)
  BY <1>1, MergeSelects DEF Rows
<1>3. \A x \in ToSet(list) : x \in Row /\ x.id \in Ids
  <2>1. \A x \in ToSet(list) : x \in Row
    BY <1>2 DEF ToSet
  <2> QED
    BY <2>1 DEF Row
<1>4. m = [i \in Ids |-> IF i \in IdsOf(list) THEN RowOf(list, i) ELSE None]
  BY <1>1, Zenon DEF ById
<1>5. \A i \in Ids : i \in IdsOf(list) <=> \E x \in ToSet(list) : x.id = i
  BY DEF IdsOf, ToSet
<1>6. ASSUME NEW i \in Ids, i \in IdsOf(list)
      PROVE  m[i] \in ToSet(list) /\ m[i].id = i
  <2>1. \E x \in ToSet(list) : x.id = i
    BY <1>5, <1>6
  <2>2. RowOf(list, i) \in ToSet(list) /\ RowOf(list, i).id = i
    BY <2>1, Zenon DEF RowOf
  <2> QED
    BY <1>4, <1>6, <2>2
<1>7. \A i \in Ids : i \notin IdsOf(list) => m[i] = None
  BY <1>4
<1>8. \A x, y \in ToSet(list) : x.id = y.id => x = y
  BY <1>2 DEF OneEach, ToSet
<1>9. m \in [Ids -> Row \cup {None}]
  BY <1>3, <1>4, <1>6, <1>7
<1>10. \A i \in Ids : m[i] = None => \A x \in ToSet(list) : x.id # i
  <2>1. None \notin Row
    BY Facts
  <2> QED
    BY <1>3, <1>5, <1>6, <2>1
<1>11. \A x \in ToSet(list) : m[x.id] = x
  BY <1>3, <1>5, <1>6, <1>8
<1> QED
  BY <1>2, <1>3, <1>6, <1>7, <1>9, <1>10, <1>11

\* A file that is read.
LEMMA LoadKeeps ==
  ASSUME LogInv, limit' \in Limits, marking' = None, NEW how, LoadHistory(how)
  PROVE  LogInv'
<1>1. TypeOK /\ OneEach(records) /\ TornLast /\ Counted /\ DeletedStaysDeleted /\ LogBounded
  BY DEF LogInv
<1>2. /\ lines \in Nat /\ limit' \in Nat
      /\ file \in Seq(AnyLine) /\ last \in [Ids -> Row \cup {None}] /\ torn \in BOOLEAN
      /\ Len(file) \in Nat /\ hurt \subseteq Ids
  BY <1>1, Types, Facts
<1>3. PICK rows : rows = CapHistory(MergeHistory(file), limit')
  OBVIOUS
<1>4. rows \in Seq(Row) /\ OneEach(rows) /\ ToSet(rows) \subseteq Rows(file) /\ Len(rows) \in Nat
  <2>1. PICK merged : merged = MergeHistory(file)
    OBVIOUS
  <2>2. merged \in Seq(Row) /\ OneEach(merged)
    BY <1>2, <2>1, MergeSelects
  <2> QED
    BY <1>2, <1>3, <2>1, <2>2, CapSelects DEF Rows
<1>5. /\ (Len(file) # Len(rows) => CompactHistory(rows, Len(file), how))
      /\ (Len(file) = Len(rows) => how = "ok" /\ up' = TRUE /\ lines' = Len(file) /\ hurt' = {} /\ file' = file /\ torn' = torn)
      /\ records' = (IF up' THEN rows ELSE <<>>)
      /\ opened' = up'
      /\ last' = [i \in Ids |-> IF i \in hurt THEN ById(MergeHistory(file))[i] ELSE last[i]]
  BY <1>3, Zenon DEF LoadHistory
<1>6. Cardinality(Ids) \in Nat /\ Len(rows) <= Cardinality(Ids)
  BY <1>4, FewRows
<1> DEFINE Written == /\ up' \in BOOLEAN /\ torn' \in BOOLEAN /\ lines' \in Nat /\ (~up' => lines' = 0)
                      /\ file' \in Seq(AnyLine)
                      /\ TornLast'
                      /\ hurt' \subseteq Ids
                      /\ Rows(file') \subseteq Rows(file)
           Short == /\ up' => Len(file') <= lines' + Cardinality(Ids)
                    /\ Len(file') <= Cardinality(Ids) \/ file' = file
<1>7. ASSUME Len(file) # Len(rows)
      PROVE  Written /\ Short
  <2>1. /\ up' = (how # "crash")
        /\ torn' \in BOOLEAN /\ lines' \in Nat /\ (~up' => lines' = 0)
        /\ file' \in Seq(AnyLine)
        /\ TornLast' /\ hurt' \subseteq Ids
        /\ \/ how = "ok" /\ ~torn' /\ lines' = Len(rows) /\ Len(file') = lines' /\ Alike(rows, MergeHistory(file'))
           \/ how # "ok" /\ (up' => lines' = Len(file)) /\ Len(file') <= Len(rows) /\ Rows(file') \subseteq ToSet(rows)
           \/ how # "ok" /\ (up' => lines' = Len(file)) /\ file' = file /\ torn' = torn
    <3>1. CompactHistory(rows, Len(file), how)
      BY <1>5, <1>7
    <3> QED
      BY <1>1, <1>2, <1>4, <3>1, CompactEffect
  <2>2. up' \in BOOLEAN /\ Len(file') \in Nat
    BY <2>1
  <2>3. Rows(file') \subseteq ToSet(rows) \/ file' = file
    BY <2>1 DEF Alike, Rows
  <2>4. Rows(file') \subseteq Rows(file)
    BY <1>4, <2>3
  <2>5. Written
    BY <2>1, <2>2, <2>4, Zenon
  <2>6. Short
    BY <1>2, <1>4, <1>6, <2>1, <2>2
  <2> QED
    BY <2>5, <2>6
<1>8. ASSUME Len(file) = Len(rows)
      PROVE  Written /\ Short
  <2>1. up' \in BOOLEAN /\ up' /\ lines' = Len(file) /\ hurt' = {} /\ file' = file /\ torn' = torn
    BY <1>5, <1>8, Zenon
  <2>2. TornLast'
    BY <1>1, <2>1 DEF TornLast
  <2>3. torn' \in BOOLEAN /\ file' \in Seq(AnyLine) /\ Rows(file') \subseteq Rows(file)
    BY <1>2, <2>1, Zenon
  <2>4. lines' \in Nat /\ (~up' => lines' = 0) /\ hurt' \subseteq Ids
    BY <1>2, <2>1
  <2> QED
    BY <1>2, <1>6, <2>1, <2>2, <2>3, <2>4
<1>9. Written /\ Short
  BY <1>7, <1>8, Zenon
<1>10. records' \in Seq(Row) /\ OneEach(records') /\ ToSet(records') \subseteq Rows(file)
       /\ (~up' => records' = <<>>)
  <2>1. up' => records' \in Seq(Row) /\ OneEach(records') /\ ToSet(records') \subseteq Rows(file)
    BY <1>4, <1>5
  <2>2. <<>> \in Seq(Row) /\ OneEach(<<>>) /\ ToSet(<<>>) = {}
    BY DEF OneEach, ToSet
  <2> QED
    BY <1>5, <2>1, <2>2
<1>a. /\ last' \in [Ids -> Row \cup {None}]
      /\ \A i \in Ids : last'[i] = None => \A x \in Rows(file) : x.id # i
  <2>1. PICK m : m = ById(MergeHistory(file))
    OBVIOUS
  <2>2. last' = [i \in Ids |-> IF i \in hurt THEN m[i] ELSE last[i]]
    BY <1>5, <2>1
  <2>3. m \in [Ids -> Row \cup {None}] /\ \A i \in Ids : m[i] = None => \A x \in Rows(file) : x.id # i
    BY <1>2, <2>1, FoundById
  <2>4. \A i \in Ids : last[i] = None => \A x \in Rows(file) : x.id # i
    BY <1>1, Deleted
  <2> QED
    BY <1>2, <2>2, <2>3, <2>4
<1>11. TypeOK'
  <2>1. opened' \in BOOLEAN /\ (~up' => ~opened')
    BY <1>5, <1>9, Zenon
  <2>2. last' \in [Ids -> Row \cup {None}] /\ marking' \in Row \cup {None}
    BY <1>a
  <2> QED
    BY <1>9, <1>10, <2>1, <2>2, TypesNext, Zenon
<1>12. DeletedStaysDeleted'
  <2>1. ASSUME NEW i \in Ids, last'[i] = None, NEW x \in ToSet(records') \cup Rows(file')
        PROVE  x.id # i
    <3>1. x \in Rows(file)
      BY <1>9, <1>10
    <3> QED
      BY <1>a, <2>1, <3>1
  <2> QED
    BY <2>1 DEF DeletedStaysDeleted, IdsOf, ToSet, Rows
<1>13. Counted'
  <2>1. up' => Len(file') <= lines' + Cardinality(Ids) + (IF torn' THEN 1 ELSE 0)
    <3>1. Len(file') \in Nat /\ lines' \in Nat
      BY <1>9
    <3> QED
      BY <1>6, <1>9, <3>1
  <2> QED
    BY <1>5, <2>1 DEF Counted
<1>14. LogBounded'
  <2> SUFFICES ASSUME NEW n \in Limits, \A m \in Limits : m <= n
               PROVE  Len(file') <= 2 * n + Cardinality(Ids) + 1
    BY DEF LogBounded
  <2>1. n \in Nat /\ Len(file') \in Nat
    BY <1>9, Facts
  <2>2. Len(file) <= 2 * n + Cardinality(Ids) + 1
    BY <1>1 DEF LogBounded
  <2> QED
    BY <1>6, <1>9, <2>1, <2>2
<1> QED
  BY <1>9, <1>10, <1>11, <1>12, <1>13, <1>14, Zenon DEF LogInv

\* What memory has after rows of the ids S are removed.
LEMMA DropRows ==
  ASSUME TypeOK, OneEach(records), NEW S
  PROVE  LET rows == Pick(records, {k \in DOMAIN records : records[k].id \notin S})
         IN  rows \in Seq(Row) /\ OneEach(rows) /\ ToSet(rows) = {x \in ToSet(records) : x.id \notin S}
<1>1. records \in Seq(Row)
  BY Types
<1>2. PICK ks : ks = {k \in DOMAIN records : records[k].id \notin S}
  OBVIOUS
<1>3. PICK rows : rows = Pick(records, ks)
  OBVIOUS
<1>4. DOMAIN records \cap ks = ks /\ \A j, k \in DOMAIN records \cap ks : records[j].id = records[k].id => j = k
  BY <1>2 DEF OneEach
<1>5. rows \in Seq(Row) /\ Selects(rows, records, ks) /\ OneEach(rows)
  BY <1>1, <1>3, <1>4, PickSelects
<1>6. ToSet(rows) = {records[k] : k \in ks}
  BY <1>4, <1>5 DEF Selects
<1>7. ToSet(rows) = {x \in ToSet(records) : x.id \notin S}
  BY <1>2, <1>6 DEF ToSet
<1> QED
  BY <1>2, <1>3, <1>5, <1>7

\* Rows that the user removes.
LEMMA DropKeeps ==
  ASSUME LogInv, up, NEW S, S \subseteq IdsOf(records), NEW how, Drop(S, how)
  PROVE  LogInv'
<1>1. TypeOK /\ OneEach(records) /\ TornLast /\ Counted /\ DeletedStaysDeleted /\ LogBounded
  BY DEF LogInv
<1>2. /\ limit \in Limits /\ lines \in Nat /\ records \in Seq(Row) /\ opened \in BOOLEAN
      /\ file \in Seq(AnyLine) /\ last \in [Ids -> Row \cup {None}] /\ torn \in BOOLEAN
      /\ Len(file) \in Nat /\ hurt \subseteq Ids /\ marking \in Row \cup {None}
  BY <1>1, Types
<1>3. PICK rows : rows = Pick(records, {k \in DOMAIN records : records[k].id \notin S})
  OBVIOUS
<1>4. rows \in Seq(Row) /\ OneEach(rows) /\ ToSet(rows) = {x \in ToSet(records) : x.id \notin S} /\ Len(rows) \in Nat
  <2>1. rows \in Seq(Row) /\ OneEach(rows) /\ ToSet(rows) = {x \in ToSet(records) : x.id \notin S}
    BY <1>1, <1>3, DropRows, Zenon
  <2> QED
    BY <2>1
<1>5. /\ (opened => CompactHistory(rows, lines, how))
      /\ (~opened => how = "ok" /\ up' = up /\ lines' = lines /\ hurt' = hurt /\ file' = file /\ torn' = torn)
      /\ Remember(rows, marking)
      /\ last' = (IF how = "ok" THEN [i \in Ids |-> IF i \in S THEN None ELSE last[i]] ELSE last)
      /\ limit' = limit
  BY <1>3, Zenon DEF Drop
<1>6. /\ records' = (IF up' THEN rows ELSE <<>>)
      /\ opened' = (up' /\ opened)
      /\ marking' = (IF up' THEN marking ELSE None)
  BY <1>5, Zenon DEF Remember
<1>7. /\ Cardinality(Ids) \in Nat /\ Len(rows) <= Cardinality(Ids)
      /\ opened => Len(file) <= lines + Cardinality(Ids) + (IF torn THEN 1 ELSE 0)
  BY <1>1, <1>4, FewRows DEF Counted
<1> DEFINE Written == /\ up' \in BOOLEAN /\ torn' \in BOOLEAN /\ lines' \in Nat /\ (~up' => lines' = 0)
                      /\ file' \in Seq(AnyLine)
                      /\ TornLast'
                      /\ hurt' \subseteq Ids
                      /\ Rows(file') \subseteq Rows(file) \cup ToSet(rows)
           Gone == how = "ok" => \A x \in Rows(file') : last[x.id] # None /\ x.id \notin S
           Short == /\ up' /\ opened => Len(file') <= lines' + Cardinality(Ids) + (IF torn' THEN 1 ELSE 0)
                    /\ Len(file') <= Cardinality(Ids) \/ file' = file
<1>8. \A x \in Row : x \in Rows(file) \cup ToSet(records) => last[x.id] # None
  BY <1>1, Deleted DEF Row
<1>9. \A x \in ToSet(rows) : x \in Row
  BY <1>4 DEF ToSet
<1>10. \A x \in Rows(file) : x \in Row
  <2>1. MergeHistory(file) \in Seq(Row)
    BY <1>2, MergeSelects
  <2> QED
    BY <2>1 DEF Rows, ToSet
<1>11. ASSUME opened
      PROVE  Written /\ Gone /\ Short
  <2>1. /\ up' = (how # "crash")
        /\ torn' \in BOOLEAN /\ lines' \in Nat /\ (~up' => lines' = 0)
        /\ file' \in Seq(AnyLine)
        /\ TornLast' /\ hurt' \subseteq Ids
        /\ \/ how = "ok" /\ ~torn' /\ lines' = Len(rows) /\ Len(file') = lines' /\ Alike(rows, MergeHistory(file'))
           \/ how # "ok" /\ (up' => lines' = lines) /\ Len(file') <= Len(rows) /\ Rows(file') \subseteq ToSet(rows)
           \/ how # "ok" /\ (up' => lines' = lines) /\ file' = file /\ torn' = torn
    <3>1. CompactHistory(rows, lines, how)
      BY <1>5, <1>11
    <3> QED
      BY <1>1, <1>2, <1>4, <3>1, CompactEffect
  <2>2. up' \in BOOLEAN /\ Len(file') \in Nat
    BY <2>1
  <2>3. Rows(file') \subseteq ToSet(rows) \/ (file' = file /\ how # "ok")
    BY <2>1 DEF Alike, Rows
  <2>4. Rows(file') \subseteq Rows(file) \cup ToSet(rows)
    BY <2>3
  <2>5. Written
    BY <2>1, <2>2, <2>4, Zenon
  <2>6. Gone
    BY <1>4, <1>8, <1>9, <2>3
  <2>7. Short
    BY <1>2, <1>4, <1>7, <1>11, <2>1, <2>2
  <2> QED
    BY <2>5, <2>6, <2>7
<1>12. ASSUME ~opened
      PROVE  Written /\ Gone /\ Short
  <2>1. up' = up /\ lines' = lines /\ hurt' = hurt /\ file' = file /\ torn' = torn
    BY <1>5, <1>12
  <2>2. TornLast'
    BY <1>1, <2>1 DEF TornLast
  <2>3. up' \in BOOLEAN /\ torn' \in BOOLEAN /\ file' \in Seq(AnyLine) /\ Rows(file') \subseteq Rows(file)
    BY <1>2, <2>1
  <2>4. S = {}
    <3>1. records = <<>>
      BY <1>1, <1>12 DEF Counted
    <3> QED
      BY <3>1 DEF IdsOf
  <2>5. Gone
    BY <1>8, <1>10, <2>1, <2>4
  <2> QED
    BY <1>2, <1>12, <2>1, <2>2, <2>3, <2>5
<1>13. Written /\ Gone /\ Short
  BY <1>11, <1>12, Zenon
<1>14. records' \in Seq(Row) /\ OneEach(records') /\ ToSet(records') \subseteq ToSet(rows)
       /\ (~up' => records' = <<>>)
  <2>1. up' => records' \in Seq(Row) /\ OneEach(records') /\ ToSet(records') \subseteq ToSet(rows)
    BY <1>4, <1>6
  <2>2. <<>> \in Seq(Row) /\ OneEach(<<>>) /\ ToSet(<<>>) = {}
    BY DEF OneEach, ToSet
  <2> QED
    BY <1>6, <2>1, <2>2
<1>15. TypeOK'
  <2>1. opened' \in BOOLEAN /\ (~up' => ~opened')
    BY <1>6
  <2>2. limit' \in Limits /\ marking' \in Row \cup {None} /\ (~up' => marking' = None)
    BY <1>2, <1>5, <1>6
  <2>3. last' \in [Ids -> Row \cup {None}]
    BY <1>2, <1>5
  <2> QED
    BY <1>13, <1>14, <2>1, <2>2, <2>3, TypesNext, Zenon
<1>16. DeletedStaysDeleted'
  <2>1. ASSUME NEW i \in Ids, last'[i] = None, NEW x \in ToSet(records') \cup Rows(file')
        PROVE  x.id # i
    <3>1. x \in ToSet(rows) => last[x.id] # None /\ x.id \notin S
      BY <1>4, <1>8, <1>9
    <3>2. x \in Rows(file) => last[x.id] # None
      BY <1>8, <1>10
    <3>3. last[x.id] # None /\ (how = "ok" => x.id \notin S)
      BY <1>13, <1>14, <3>1, <3>2
    <3>4. CASE how = "ok"
      BY <1>5, <2>1, <3>3, <3>4
    <3>5. CASE how # "ok"
      BY <1>5, <2>1, <3>3, <3>5
    <3> QED
      BY <3>4, <3>5
  <2> QED
    BY <2>1 DEF DeletedStaysDeleted, IdsOf, ToSet, Rows
<1>17. Counted'
  <2>1. ToSet(rows) = {} => rows = <<>>
    BY <1>4 DEF ToSet
  <2>2. records = <<>> => ToSet(records) = {}
    BY DEF ToSet
  <2>3. up' /\ ~opened' => records' = <<>>
    BY <1>1, <1>4, <1>6, <2>1, <2>2 DEF Counted
  <2>4. opened' => Len(file') <= lines' + Cardinality(Ids) + (IF torn' THEN 1 ELSE 0)
    BY <1>6, <1>13
  <2>5. (marking' # None => limit' > 0) /\ (up' /\ limit' > 0 => opened')
    BY <1>1, <1>5, <1>6 DEF Counted
  <2> QED
    BY <2>3, <2>4, <2>5, Zenon DEF Counted
<1>18. LogBounded'
  <2> SUFFICES ASSUME NEW n \in Limits, \A m \in Limits : m <= n
               PROVE  Len(file') <= 2 * n + Cardinality(Ids) + 1
    BY DEF LogBounded
  <2>1. n \in Nat /\ Len(file') \in Nat
    BY <1>13, Facts
  <2>2. Len(file) <= 2 * n + Cardinality(Ids) + 1
    BY <1>1 DEF LogBounded
  <2> QED
    BY <1>7, <1>13, <2>1, <2>2
<1> QED
  BY <1>13, <1>14, <1>15, <1>16, <1>17, <1>18, Zenon DEF LogInv

\* A row in memory, found by its id.
LEMMA RowFound ==
  ASSUME TypeOK, NEW i \in IdsOf(records)
  PROVE  RowOf(records, i) \in ToSet(records) /\ RowOf(records, i) \in Row /\ RowOf(records, i).id = i
<1>1. \E x \in ToSet(records) : x.id = i
  BY DEF IdsOf, ToSet
<1>2. RowOf(records, i) \in ToSet(records) /\ RowOf(records, i).id = i
  BY <1>1, Zenon DEF RowOf
<1>3. records \in Seq(Row)
  BY Types
<1> QED
  BY <1>2, <1>3 DEF ToSet

\* The initial state.
LEMMA LogInit ==
  ASSUME Init
  PROVE  LogInv
<1>1. MergeHistory(<<>>) \in Seq(Row) /\ ToSet(MergeHistory(<<>>)) = {}
  <2>1. PICK e : e = <<>>
    OBVIOUS
  <2>2. e \in Seq(AnyLine)
    BY <2>1
  <2>3. MergeHistory(e) \in Seq(Row) /\ ToSet(MergeHistory(e)) = {e[k] : k \in {j \in DOMAIN e : Latest(e, j)}}
    BY <2>2, MergeSelects, Zenon
  <2>4. DOMAIN e = {}
    BY <2>1
  <2> QED
    BY <2>1, <2>3, <2>4
<1>2. TypeOK
  <2>1. {up, opened, torn} \subseteq BOOLEAN /\ ~up /\ ~opened
    BY Zenon DEF Init
  <2>2. lines \in Nat /\ records \in Seq(Row) /\ file \in Seq(Row \cup {Bad})
    BY DEF Init
  <2>3. last \in [Ids -> Row \cup {None}] /\ marking \in Row \cup {None} /\ hurt \subseteq Ids
    BY DEF Init
  <2> QED
    BY <2>1, <2>2, <2>3, Zenon DEF Init, TypeOK
<1>3. OneEach(records) /\ TornLast
  BY DEF Init, OneEach, TornLast
<1>4. Counted
  BY Facts DEF Init, Counted
<1>5. DeletedStaysDeleted
  <2>1. ToSet(records) = {} /\ Rows(file) = {}
    BY <1>1 DEF Init, ToSet, Rows
  <2> QED
    BY <1>2, <2>1, Deleted
<1>6. LogBounded
  BY Facts DEF Init, LogBounded
<1> QED
  BY <1>2, <1>3, <1>4, <1>5, <1>6 DEF LogInv

\* Every step keeps the invariant.
LEMMA LogNext ==
  ASSUME LogInv, [Next]_vars
  PROVE  LogInv'
<1>1. TypeOK /\ OneEach(records) /\ TornLast /\ Counted /\ DeletedStaysDeleted /\ LogBounded
  BY DEF LogInv
<1>2. ASSUME NEW i \in Ids, NEW done \in BOOLEAN, NEW how, RecordHistory(i, done, how)
      PROVE  LogInv'
  <2>1. PICK r : r = [id |-> i, done |-> done, forgotten |-> FALSE]
    OBVIOUS
  <2>2. r \in Row
    BY <2>1 DEF Row
  <2>3. up /\ limit > 0 /\ UpsertHistory(r, how)
    BY <1>2, <2>1 DEF RecordHistory, Recording
  <2> QED
    BY <2>2, <2>3, UpsertKeeps
<1>3. ASSUME NEW i \in Ids, NEW how, BumpHistory(i, how)
      PROVE  LogInv'
  <2>1. up /\ limit > 0 /\ i \in IdsOf(records) /\ UpsertHistory(RowOf(records, i), how)
    BY <1>3 DEF BumpHistory, Recording
  <2>2. PICK r : r = RowOf(records, i)
    OBVIOUS
  <2>3. r \in Row
    BY <1>1, <2>1, <2>2, RowFound
  <2> QED
    BY <2>1, <2>2, <2>3, UpsertKeeps
<1>4. ASSUME NEW i \in Ids, MarkHistoryForgotten(i)
      PROVE  LogInv'
  <2>1. /\ up /\ limit > 0 /\ i \in IdsOf(records) /\ marking' = [RowOf(records, i) EXCEPT !.forgotten = TRUE]
        /\ UNCHANGED <<limit, up, opened, records, lines, file, torn, last, hurt>>
    BY <1>4 DEF MarkHistoryForgotten, Recording
  <2>2. marking' \in Row
    <3>1. RowOf(records, i) \in Row
      BY <1>1, <2>1, RowFound
    <3> QED
      BY <2>1, <3>1 DEF Row
  <2>3. TypeOK'
    BY <1>1, <2>1, <2>2, Zenon DEF TypeOK
  <2>4. OneEach(records') /\ TornLast' /\ DeletedStaysDeleted' /\ LogBounded'
    BY <1>1, <2>1 DEF TornLast, DeletedStaysDeleted, LogBounded
  <2>5. Counted'
    BY <1>1, <2>1 DEF Counted
  <2> QED
    BY <2>3, <2>4, <2>5, Zenon DEF LogInv
<1>5. ASSUME NEW how, WriteForgotten(how)
      PROVE  LogInv'
  <2>1. up /\ marking # None /\ UpsertHistory(marking, how)
    BY <1>5 DEF WriteForgotten
  <2>2. limit > 0 /\ marking \in Row
    BY <1>1, <2>1, Types DEF Counted
  <2>3. PICK r : r = marking
    OBVIOUS
  <2> QED
    BY <2>1, <2>2, <2>3, UpsertKeeps
<1>6. ASSUME NEW n \in Limits, NEW how, PutGeneral(n, how)
      PROVE  LogInv'
  <2>1. up /\ marking = None /\ n # limit /\ limit' = n /\ marking' = marking
    BY <1>6, Zenon DEF PutGeneral
  <2>2. CASE limit = 0
    <3>1. LoadHistory(how)
      BY <1>6, <2>2, Zenon DEF PutGeneral
    <3>2. limit' \in Limits /\ marking' = None
      BY <2>1
    <3> QED
      BY <2>1, <3>1, <3>2, LoadKeeps
  <2>3. CASE limit # 0
    <3>1. UNCHANGED <<up, opened, records, lines, file, torn, last, hurt>>
      BY <1>6, <2>3, Zenon DEF PutGeneral
    <3>2. limit \in Nat /\ limit > 0
      BY <1>1, <2>3, Types
    <3>3. TypeOK'
      BY <1>1, <2>1, <3>1, Zenon DEF TypeOK
    <3>4. OneEach(records') /\ TornLast' /\ DeletedStaysDeleted' /\ LogBounded'
      BY <1>1, <2>1, <3>1 DEF TornLast, DeletedStaysDeleted, LogBounded
    <3>5. Counted'
      BY <1>1, <2>1, <3>1, <3>2 DEF Counted
    <3> QED
      BY <3>3, <3>4, <3>5, Zenon DEF LogInv
  <2> QED
    BY <2>2, <2>3
<1>7. ASSUME NEW i \in Ids, NEW how, DeleteHistoryID(i, how)
      PROVE  LogInv'
  <2>1. up /\ {i} \subseteq IdsOf(records) /\ Drop({i}, how)
    BY <1>7 DEF DeleteHistoryID
  <2> QED
    BY <2>1, DropKeeps
<1>8. ASSUME NEW how, ClearHistory(how)
      PROVE  LogInv'
  <2>1. PICK S : S = {r.id : r \in {q \in ToSet(records) : q.done}}
    OBVIOUS
  <2>2. up /\ Drop(S, how)
    BY <1>8, <2>1 DEF ClearHistory
  <2>3. S \subseteq IdsOf(records)
    BY <2>1 DEF IdsOf, ToSet
  <2> QED
    BY <2>2, <2>3, DropKeeps
<1>9. ASSUME Crash
      PROVE  LogInv'
  <2>1. /\ ~up' /\ records' = <<>> /\ ~opened' /\ marking' = None /\ lines' = 0
        /\ UNCHANGED <<limit, file, torn, last, hurt>>
    BY <1>9, Zenon DEF Crash, Remember
  <2>2. opened' \in BOOLEAN
    BY <1>9, Zenon DEF Crash, Remember
  <2>3. up' \in BOOLEAN
    BY <1>9, Zenon DEF Crash
  <2>4. TypeOK'
    <3>1. records' \in Seq(Row) /\ lines' \in Nat
      BY <2>1
    <3>2. limit' \in Limits /\ torn' \in BOOLEAN /\ file' \in Seq(AnyLine) /\ last' \in [Ids -> Row \cup {None}] /\ hurt' \subseteq Ids
      BY <1>1, <2>1, Types
    <3>3. marking' \in Row \cup {None}
      BY <2>1
    <3> QED
      BY <2>1, <2>2, <2>3, <3>1, <3>2, <3>3, TypesNext, Zenon
  <2>5. OneEach(records') /\ TornLast' /\ LogBounded' /\ Counted'
    BY <1>1, <2>1 DEF OneEach, TornLast, LogBounded, Counted
  <2>6. DeletedStaysDeleted'
    BY <1>1, <2>1 DEF DeletedStaysDeleted, IdsOf
  <2> QED
    BY <2>4, <2>5, <2>6, Zenon DEF LogInv
<1>10. ASSUME NEW how, Start(how)
       PROVE  LogInv'
  <2>1. ~up /\ limit' = limit /\ marking' = marking
    BY <1>10, Zenon DEF Start
  <2>2. marking = None /\ limit \in Limits /\ limit \in Nat /\ ~opened /\ records = <<>>
    BY <1>1, <2>1, Types
  <2>3. CASE limit > 0
    <3>1. LoadHistory(how)
      BY <1>10, <2>3, Zenon DEF Start
    <3>2. limit' \in Limits /\ marking' = None
      BY <2>1, <2>2
    <3> QED
      BY <2>1, <3>1, <3>2, LoadKeeps
  <2>4. CASE ~(limit > 0)
    <3>1. up' = TRUE /\ UNCHANGED <<opened, records, lines, file, torn, last, hurt>>
      BY <1>10, <2>4, Zenon DEF Start
    <3>2. up' \in BOOLEAN /\ up'
      BY <3>1, Zenon
    <3>3. TypeOK'
      BY <1>1, <2>1, <3>1, <3>2, Zenon DEF TypeOK
    <3>4. OneEach(records') /\ TornLast' /\ DeletedStaysDeleted' /\ LogBounded'
      BY <1>1, <2>1, <3>1 DEF TornLast, DeletedStaysDeleted, LogBounded
    <3>5. Counted'
      BY <1>1, <2>1, <2>2, <2>4, <3>1 DEF Counted
    <3> QED
      BY <3>3, <3>4, <3>5, Zenon DEF LogInv
  <2> QED
    BY <2>3, <2>4
<1>11. ASSUME UNCHANGED vars
       PROVE  LogInv'
  <2>1. UNCHANGED <<limit, up, opened, records, lines, file, torn, marking, last, hurt>>
    BY <1>11 DEF vars
  <2>2. TypeOK'
    BY <1>1, <2>1, Zenon DEF TypeOK
  <2>3. OneEach(records') /\ TornLast' /\ DeletedStaysDeleted' /\ LogBounded' /\ Counted'
    BY <1>1, <2>1 DEF TornLast, DeletedStaysDeleted, LogBounded, Counted
  <2> QED
    BY <2>2, <2>3, Zenon DEF LogInv
<1> QED
  BY <1>2, <1>3, <1>4, <1>5, <1>6, <1>7, <1>8, <1>9, <1>10, <1>11, Zenon DEF Next

\* The invariant holds throughout.
THEOREM LogInvariant == Spec => []LogInv
BY LogInit, LogNext, PTL DEF Spec

\* Every variable keeps its type, and memory lives only while the process does.
THEOREM TypeCorrect == Spec => []TypeOK
<1>1. LogInv => TypeOK
  BY DEF LogInv
<1> QED
  BY <1>1, LogInvariant, PTL

\* A row whose deletion was answered does not come back (deleteHistoryID,
\* clearHistory), whatever writes fail and whenever the process dies.
THEOREM Deletes == Spec => []DeletedStaysDeleted
<1>1. LogInv => DeletedStaysDeleted
  BY DEF LogInv
<1> QED
  BY <1>1, LogInvariant, PTL

\* The file stays bounded (historyfile.go:22), whatever writes fail.
THEOREM Bounded == Spec => []LogBounded
<1>1. LogInv => LogBounded
  BY DEF LogInv
<1> QED
  BY <1>1, LogInvariant, PTL

-----------------------------------------------------------------------------
(* A restart finds what memory shows.                                      *)

\* Only appends may be cut, by the death of the process.
OnlyAppends == Faults \subseteq {"append"}

\* A rewrite ends well.
LEMMA CompactsWell ==
  ASSUME OnlyAppends, TypeOK, TornLast, NEW rows \in Seq(Row), OneEach(rows), NEW n \in Nat, NEW how,
         how \in {"ok", "crash", "error"}, CompactHistory(rows, n, how)
  PROVE  how = "ok" /\ up' /\ ~torn' /\ hurt' = {} /\ Alike(rows, MergeHistory(file'))
<1>1. /\ hurt' = (IF how = "ok" THEN {} ELSE hurt)
      /\ up' = (how # "crash") /\ (how = "crash" => "compact" \in Faults) /\ (how \in {"ok", "crash"} \/ "disk" \in Faults)
      /\ \/ how = "ok" /\ ~torn' /\ Alike(rows, MergeHistory(file'))
         \/ how # "ok"
  BY CompactEffect
<1>2. "compact" \notin Faults /\ "disk" \notin Faults
  BY DEF OnlyAppends
<1>3. how = "ok"
  BY <1>1, <1>2
<1>4. up'
  BY <1>1, <1>3
<1> QED
  BY <1>1, <1>3, <1>4

\* One id or two.
LEMMA Pair ==
  ASSUME NEW i, NEW j
  PROVE  Cardinality({i, j}) <= 2 /\ Cardinality({}) <= 2
<1>1. Cardinality({i}) = 1 /\ IsFiniteSet({i}) /\ Cardinality({}) = 0
  BY FS_Singleton, FS_EmptySet
<1>2. {i, j} = {i} \cup {j}
  OBVIOUS
<1>3. Cardinality({i} \cup {j}) = IF j \in {i} THEN 1 ELSE 2
  BY <1>1, FS_AddElement
<1> QED
  BY <1>1, <1>2, <1>3

\* The rows of the file, one by one.
LEMMA FileRows ==
  ASSUME TypeOK
  PROVE  \A x \in Rows(file) : x \in Row /\ x.id \in Ids
<1>1. file \in Seq(AnyLine)
  BY Types
<1> QED
  BY <1>1, FoundById

\* The constructor of what is in order.
LEMMA OrderNext ==
  ASSUME \A i \in Ids : last'[i] # None => last'[i].id = i,
         \A x \in Rows(file') : x.id \notin hurt' => last'[x.id] = x,
         \A i \in Ids : i \notin hurt' /\ last'[i] # None /\ ~last'[i].done => last'[i] \in Rows(file'),
         Remembers', Synced', Whole', Cardinality(hurt') <= 2
  PROVE  InOrder'
BY DEF InOrder, Tells, Rows

\* What a recorded row does to what is told: the death of the process may come
\* before or after it is in the file.
Recorded(r) ==
  /\ torn' => ~up'
  /\ \/ /\ last' = [last EXCEPT ![r.id] = r]
        /\ hurt' \in {hurt, {}} \/ (~torn' /\ torn /\ hurt = {} /\ \E i \in Ids : hurt' = {i, r.id})
        /\ (up' /\ opened' /\ r \in ToSet(records')) \/ (~up' /\ r \in Rows(file'))
     \/ /\ last' = last /\ ~up'
        /\ hurt' = hurt \/ (torn /\ hurt = {} /\ \E i, j \in Ids : hurt' = {i, j})

\* A recorded row: memory, file and what is told of them.
LEMMA UpsertInStep ==
  ASSUME OnlyAppends, KeepInv, up, limit > 0, NEW r \in Row, NEW how,
         how \in {"ok", "crash", "error"}, UpsertHistory(r, how)
  PROVE  InOrder' /\ Recorded(r)
<1>1. TypeOK /\ OneEach(records) /\ TornLast /\ Counted /\ Tells /\ Remembers /\ Synced /\ Whole
      /\ Cardinality(hurt) <= 2
  BY DEF KeepInv, LogInv, InOrder
<1>2. /\ limit \in Nat /\ lines \in Nat /\ last \in [Ids -> Row \cup {None}] /\ file \in Seq(AnyLine)
      /\ r.id \in Ids /\ r # None
  BY <1>1, Types, Facts DEF Row
<1>3. PICK merged : merged = MergeHistory(Append(records, r))
  OBVIOUS
<1>4. PICK kept : kept = CapHistory(merged, limit)
  OBVIOUS
<1>5. /\ merged \in Seq(Row) /\ OneEach(merged) /\ Adds(records, merged, r)
      /\ kept \in Seq(Row) /\ OneEach(kept)
      /\ ToSet(kept) = {x \in ToSet(merged) : Kept(merged, limit, x)}
      /\ ToSet(kept) \subseteq {x \in ToSet(records) : x.id # r.id} \cup {r}
      /\ r \in ToSet(kept)
  BY <1>1, <1>3, <1>4, KeptRows
<1>6. /\ (lines >= 2 * limit => CompactHistory(kept, lines, how))
      /\ (~(lines >= 2 * limit) => AppendLine(r, how))
      /\ Remember(kept, None)
      /\ last' = (IF up' \/ r \in Rows(file') THEN [last EXCEPT ![r.id] = r] ELSE last)
  BY <1>3, <1>4, Zenon DEF UpsertHistory, Rows
<1>7. /\ records' = (IF up' THEN kept ELSE <<>>)
      /\ opened' = (up' /\ opened)
  BY <1>6, Zenon DEF Remember
<1>8. opened
  BY <1>1, Zenon DEF Counted
<1>9. /\ \A x \in ToSet(records) : last[x.id] = x
      /\ \A i \in Ids : last[i] # None /\ ~last[i].done => last[i] \in ToSet(records)
  BY <1>1, <1>8 DEF Remembers
<1>10. /\ \A i \in Ids : last[i] # None => last[i].id = i
       /\ \A x \in Rows(file) : x.id \in Ids /\ (x.id \notin hurt => last[x.id] = x)
       /\ \A i \in Ids : i \notin hurt /\ last[i] # None /\ ~last[i].done => last[i] \in Rows(file)
  BY <1>1, FileRows DEF Tells, Rows
<1> DEFINE New == last' = [last EXCEPT ![r.id] = r]
<1>11. New => last'[r.id] = r /\ \A i \in Ids : i # r.id => last'[i] = last[i]
  BY <1>2
<1>12. \A i \in Ids : (New \/ last' = last) /\ last'[i] # None => last'[i].id = i
  BY <1>10, <1>11
<1>13. \A i \in Ids : i # r.id /\ last[i] # None /\ ~last[i].done => last[i] \in ToSet(kept)
  <2> SUFFICES ASSUME NEW i \in Ids, i # r.id, last[i] # None, ~last[i].done
               PROVE  last[i] \in ToSet(kept)
    OBVIOUS
  <2>1. last[i] \in ToSet(records) /\ last[i].id = i
    BY <1>9, <1>10
  <2>2. last[i] \in ToSet(merged) /\ Kept(merged, limit, last[i])
    BY <1>5, <2>1 DEF Adds, Kept
  <2> QED
    BY <1>5, <2>2
<1>14. ASSUME up', ~torn'
       PROVE  /\ New /\ opened' /\ records' = kept /\ r \in ToSet(records')
              /\ Remembers' /\ Whole'
  <2>1. New
    BY <1>6, <1>14, Zenon
  <2>2. records' = kept /\ opened'
    BY <1>7, <1>8, <1>14
  <2>3. \A x \in ToSet(kept) : last'[x.id] = x
    <3>1. \A x \in ToSet(records) : x.id \in Ids
      <4>1. records \in Seq(Row)
        BY <1>1, Types
      <4>2. \A x \in ToSet(records) : x \in Row
        BY <4>1 DEF ToSet
      <4> QED
        BY <4>2 DEF Row
    <3> QED
      BY <1>5, <1>9, <1>11, <2>1, <3>1
  <2>4. \A i \in Ids : last'[i] # None /\ ~last'[i].done => last'[i] \in ToSet(kept)
    BY <1>5, <1>11, <1>13, <2>1
  <2>5. Remembers'
    BY <2>2, <2>3, <2>4 DEF Remembers
  <2>6. Whole'
    BY <1>14 DEF Whole
  <2> QED
    BY <1>5, <2>1, <2>2, <2>5, <2>6
<1>15. ~up' => Remembers' /\ Synced' /\ Whole'
  BY <1>7 DEF Remembers, Synced, Whole
<1>16. ASSUME up', ~torn', hurt' = {}, Alike(kept, MergeHistory(file'))
       PROVE  InOrder' /\ Recorded(r)
  <2>1. New /\ opened' /\ records' = kept /\ r \in ToSet(records') /\ Remembers' /\ Whole'
    BY <1>14, <1>16
  <2>2. Rows(file') = ToSet(kept)
    BY <1>16 DEF Alike, Rows
  <2>3. Synced'
    BY <1>16, <2>1, AlikeSteps DEF Synced
  <2>4. /\ \A x \in Rows(file') : last'[x.id] = x
        /\ \A i \in Ids : last'[i] # None /\ ~last'[i].done => last'[i] \in Rows(file')
    BY <2>1, <2>2 DEF Remembers
  <2>5. InOrder'
    BY <1>12, <1>16, <2>1, <2>3, <2>4, Pair, OrderNext
  <2> QED
    BY <1>16, <2>1, <2>5 DEF Recorded
<1>17. ASSUME hurt' = hurt, Adds(MergeHistory(file), MergeHistory(file'), r), New
       PROVE  /\ \A x \in Rows(file') : x.id \notin hurt' => last'[x.id] = x
              /\ \A i \in Ids : i \notin hurt' /\ last'[i] # None /\ ~last'[i].done => last'[i] \in Rows(file')
              /\ r \in Rows(file')
  <2>1. Rows(file') = {x \in Rows(file) : x.id # r.id} \cup {r}
    BY <1>17 DEF Adds, Rows
  <2>2. \A x \in Rows(file') : x.id \notin hurt' => last'[x.id] = x
    BY <1>10, <1>11, <1>17, <2>1
  <2>3. ASSUME NEW i \in Ids, i \notin hurt', last'[i] # None, ~last'[i].done
        PROVE  last'[i] \in Rows(file')
    <3>1. CASE i = r.id
      BY <1>11, <1>17, <2>1, <3>1
    <3>2. CASE i # r.id
      <4>1. last[i] \in Rows(file) /\ last[i].id = i /\ last'[i] = last[i]
        BY <1>10, <1>11, <1>17, <2>3, <3>2
      <4> QED
        BY <2>1, <3>2, <4>1
    <3> QED
      BY <3>1, <3>2
  <2> QED
    BY <2>1, <2>2, <2>3
<1>18. ASSUME up', ~torn', hurt' = hurt, Adds(MergeHistory(file), MergeHistory(file'), r)
       PROVE  InOrder' /\ Recorded(r)
  <2>1. New /\ opened' /\ records' = kept /\ r \in ToSet(records') /\ Remembers' /\ Whole'
    BY <1>14, <1>18
  <2>2. Synced'
    <3> SUFFICES ASSUME hurt' = {}
                 PROVE  InStep(kept, MergeHistory(file'))
      BY <2>1 DEF Synced
    <3>1. InStep(records, MergeHistory(file))
      BY <1>1, <1>8, <1>18 DEF Synced
    <3>2. InStep(merged, MergeHistory(file'))
      BY <1>5, <1>18, <3>1, AddSteps
    <3> QED
      BY <1>2, <1>4, <1>5, <3>2, CapSteps
  <2>3. InOrder'
    BY <1>1, <1>12, <1>17, <1>18, <2>1, <2>2, OrderNext
  <2> QED
    BY <1>18, <2>1, <2>3 DEF Recorded
<1>19. ASSUME hurt = {}, NEW i \in Ids, hurt' = {i, r.id}, Loses(MergeHistory(file), MergeHistory(file'), i),
              New \/ last' = last
       PROVE  /\ \A x \in Rows(file') : x.id \notin hurt' => last'[x.id] = x
              /\ \A k \in Ids : k \notin hurt' /\ last'[k] # None /\ ~last'[k].done => last'[k] \in Rows(file')
              /\ Cardinality(hurt') <= 2
  <2>1. \A x : x.id # i => (x \in Rows(file') <=> x \in Rows(file))
    BY <1>19 DEF Loses, Rows
  <2>2. \A k \in Ids : k # r.id => last'[k] = last[k]
    BY <1>11, <1>19
  <2>3. \A x \in Rows(file') : x.id \notin hurt' => last'[x.id] = x
    BY <1>10, <1>19, <2>1, <2>2
  <2>4. \A k \in Ids : k \notin hurt' /\ last'[k] # None /\ ~last'[k].done => last'[k] \in Rows(file')
    BY <1>10, <1>19, <2>1, <2>2
  <2> QED
    BY <1>19, <2>3, <2>4, Pair
<1>20. ASSUME up', ~torn', torn, hurt = {}, NEW i \in Ids, hurt' = {i, r.id},
              Loses(MergeHistory(file), MergeHistory(file'), i)
       PROVE  InOrder' /\ Recorded(r)
  <2>1. New /\ opened' /\ records' = kept /\ r \in ToSet(records') /\ Remembers' /\ Whole'
    BY <1>14, <1>20
  <2>2. Synced'
    BY <1>20 DEF Synced
  <2>3. /\ \A x \in Rows(file') : x.id \notin hurt' => last'[x.id] = x
        /\ \A k \in Ids : k \notin hurt' /\ last'[k] # None /\ ~last'[k].done => last'[k] \in Rows(file')
        /\ Cardinality(hurt') <= 2
    BY <1>19, <1>20, <2>1
  <2>4. InOrder'
    BY <1>12, <2>1, <2>2, <2>3, OrderNext
  <2> QED
    BY <1>20, <2>1, <2>4 DEF Recorded
<1>21. ASSUME ~up', hurt' = hurt, Alike(MergeHistory(file), MergeHistory(file'))
       PROVE  InOrder' /\ Recorded(r)
  <2>1. Rows(file') = Rows(file)
    BY <1>21 DEF Alike, Rows
  <2>2. CASE r \notin Rows(file')
    <3>1. last' = last
      BY <1>6, <1>21, <2>2
    <3>2. InOrder'
      BY <1>1, <1>10, <1>15, <1>21, <2>1, <3>1, OrderNext
    <3> QED
      BY <1>21, <3>1, <3>2 DEF Recorded
  <2>3. CASE r \in Rows(file')
    <3>1. New
      BY <1>6, <2>3
    <3>2. \A x \in Rows(file') : x.id \notin hurt' => last'[x.id] = x
      BY <1>10, <1>11, <1>21, <2>1, <2>3, <3>1
    <3>3. \A k \in Ids : k \notin hurt' /\ last'[k] # None /\ ~last'[k].done => last'[k] \in Rows(file')
      BY <1>10, <1>11, <1>21, <2>1, <2>3, <3>1
    <3>4. InOrder'
      BY <1>1, <1>12, <1>15, <1>21, <3>1, <3>2, <3>3, OrderNext
    <3> QED
      BY <1>21, <2>3, <3>1, <3>4 DEF Recorded
  <2> QED
    BY <2>2, <2>3
<1>22. ASSUME ~up', hurt' = hurt, Adds(MergeHistory(file), MergeHistory(file'), r)
       PROVE  InOrder' /\ Recorded(r)
  <2>1. r \in Rows(file')
    BY <1>22 DEF Adds, Rows
  <2>2. New
    BY <1>6, <2>1
  <2>3. InOrder'
    BY <1>1, <1>12, <1>15, <1>17, <1>22, <2>2, OrderNext
  <2> QED
    BY <1>22, <2>1, <2>2, <2>3 DEF Recorded
<1>23. ASSUME ~up', torn, hurt = {}, NEW i \in Ids, hurt' = {i, r.id},
              Loses(MergeHistory(file), MergeHistory(file'), i), \A x \in Rows(file') : x.id # i
       PROVE  InOrder' /\ Recorded(r)
  <2>1. last' = last
    <3>1. ASSUME r \in Rows(file') PROVE last[r.id] = r
      <4>1. r \in Rows(file)
        BY <1>23, <3>1 DEF Loses, Rows
      <4> QED
        BY <1>10, <1>23, <4>1
    <3> QED
      BY <1>2, <1>6, <1>23, <3>1
  <2>2. InOrder'
    BY <1>12, <1>15, <1>19, <1>23, <2>1, OrderNext
  <2> QED
    BY <1>2, <1>23, <2>1, <2>2 DEF Recorded
<1>24. CASE lines >= 2 * limit
  <2>1. how = "ok" /\ up' /\ ~torn' /\ hurt' = {} /\ Alike(kept, MergeHistory(file'))
    BY <1>1, <1>2, <1>5, <1>6, <1>24, CompactsWell
  <2> QED
    BY <1>16, <2>1
<1>25. CASE ~(lines >= 2 * limit)
  <2>1. AppendLine(r, how)
    BY <1>6, <1>25
  <2>2. "disk" \notin Faults
    BY DEF OnlyAppends
  <2>3. /\ up' = (how # "crash") /\ how \in {"ok", "crash"}
        /\ how = "ok" => up' /\ ~torn'
    <3>1. /\ up' = (how # "crash") /\ (how \in {"ok", "crash"} \/ "disk" \in Faults)
          /\ \/ how = "ok" /\ torn' = FALSE /\ lines' = lines + 1
             \/ how # "ok" /\ torn' = TRUE /\ (up' => lines' = lines)
             \/ how = "error" /\ torn' = torn /\ lines' = lines /\ file' = file
      BY <1>1, <2>1, AppendWrites, Zenon
    <3>2. how \in {"ok", "crash"}
      BY <2>2, <3>1, Zenon
    <3>3. how = "ok" => how # "crash" /\ how # "error"
      OBVIOUS
    <3>4. how = "ok" => up' /\ ~torn'
      BY <3>1, <3>3, Zenon
    <3> QED
      BY <3>1, <3>2, <3>4, Zenon
  <2>4. torn => hurt = {} /\ Last(file) # Bad /\ Last(file).id \in Ids /\ \A k \in DOMAIN file : Latest(file, k)
    <3> SUFFICES ASSUME torn
                 PROVE  hurt = {} /\ Last(file) # Bad /\ Last(file).id \in Ids /\ \A k \in DOMAIN file : Latest(file, k)
      OBVIOUS
    <3>1. hurt = {} /\ \A k \in DOMAIN file : Latest(file, k)
      BY <1>1, <1>8 DEF Whole
    <3>2. Last(file) = file[Len(file)] /\ Len(file) \in DOMAIN file
      BY <1>1, <1>2 DEF TornLast, Last
    <3>3. Last(file) # Bad /\ Last(file) \in AnyLine
      BY <1>2, <3>1, <3>2 DEF Latest
    <3>4. Last(file).id \in Ids
      BY <3>3 DEF AnyLine, Row
    <3> QED
      BY <3>1, <3>3, <3>4
  <2>5. \/ Alike(MergeHistory(file), MergeHistory(file')) /\ hurt' = hurt
           /\ (how = "ok" => torn /\ Last(file) = Bad)
        \/ Adds(MergeHistory(file), MergeHistory(file'), r) /\ hurt' = hurt /\ ~torn
        \/ /\ torn /\ Last(file) # Bad /\ hurt' = hurt \cup {r.id, Last(file).id}
           /\ Loses(MergeHistory(file), MergeHistory(file'), Last(file).id)
           /\ (\A k \in DOMAIN file : Latest(file, k)) => \A x \in Rows(file') : x.id # Last(file).id
    BY <1>1, <2>1, AppendEffect, Zenon
  <2>6. CASE Alike(MergeHistory(file), MergeHistory(file')) /\ hurt' = hurt
             /\ (how = "ok" => torn /\ Last(file) = Bad)
    <3>1. ~up'
      BY <2>3, <2>4, <2>6
    <3> QED
      BY <1>21, <2>6, <3>1
  <2>7. CASE Adds(MergeHistory(file), MergeHistory(file'), r) /\ hurt' = hurt /\ ~torn
    BY <1>18, <1>22, <2>3, <2>7
  <2>8. CASE /\ torn /\ Last(file) # Bad /\ hurt' = hurt \cup {r.id, Last(file).id}
             /\ Loses(MergeHistory(file), MergeHistory(file'), Last(file).id)
             /\ (\A k \in DOMAIN file : Latest(file, k)) => \A x \in Rows(file') : x.id # Last(file).id
    <3>1. PICK i \in Ids : i = Last(file).id
      BY <2>4, <2>8
    <3>2. /\ hurt = {} /\ hurt' = {i, r.id} /\ torn
          /\ Loses(MergeHistory(file), MergeHistory(file'), i) /\ \A x \in Rows(file') : x.id # i
      BY <2>4, <2>8, <3>1
    <3> QED
      BY <1>20, <1>23, <2>3, <3>2
  <2> QED
    BY <2>5, <2>6, <2>7, <2>8
<1> QED
  BY <1>24, <1>25

\* What a load does to what is told: what is there of the rows glued together
\* counts.
Reloaded ==
  /\ torn' => torn
  /\ hurt' = {}
  /\ last' \in [Ids -> Row \cup {None}]
  /\ \A i \in Ids : \/ last'[i] = last[i]
                    \/ i \in hurt /\ (last'[i] = None \/ last'[i].id = i)

\* A load: memory, file and what is told of them.
LEMMA LoadInStep ==
  ASSUME OnlyAppends, KeepInv, limit' \in Limits, NEW how,
         how \in {"ok", "crash", "error"}, LoadHistory(how)
  PROVE  InOrder' /\ Reloaded
<1>1. TypeOK /\ TornLast /\ Tells
  BY DEF KeepInv, LogInv, InOrder
<1>2. /\ limit' \in Nat /\ file \in Seq(AnyLine) /\ Len(file) \in Nat
      /\ last \in [Ids -> Row \cup {None}]
  BY <1>1, Types, Facts
<1>3. PICK merged : merged = MergeHistory(file)
  OBVIOUS
<1>4. PICK rows : rows = CapHistory(merged, limit')
  OBVIOUS
<1>5. /\ merged \in Seq(Row) /\ OneEach(merged) /\ ToSet(merged) = Rows(file)
      /\ Len(merged) <= Len(file)
      /\ Len(merged) = Len(file) => \A k \in DOMAIN file : Latest(file, k)
  BY <1>2, <1>3, MergeSelects DEF Rows
<1>6. /\ rows \in Seq(Row) /\ OneEach(rows)
      /\ ToSet(rows) = {x \in Rows(file) : Kept(merged, limit', x)}
      /\ Len(rows) <= Len(merged)
  BY <1>2, <1>4, <1>5, CapSelects
<1>7. InStep(rows, merged)
  <2>1. InStep(merged, merged)
    <3>1. Alike(merged, merged)
      BY DEF Alike
    <3> QED
      BY <3>1, AlikeSteps
  <2> QED
    BY <1>2, <1>4, <1>5, <2>1, CapSteps
<1>8. /\ (Len(file) # Len(rows) => CompactHistory(rows, Len(file), how))
      /\ (Len(file) = Len(rows) => how = "ok" /\ up' = TRUE /\ lines' = Len(file) /\ hurt' = {} /\ file' = file /\ torn' = torn)
      /\ records' = (IF up' THEN rows ELSE <<>>)
      /\ opened' = up'
      /\ last' = [i \in Ids |-> IF i \in hurt THEN ById(MergeHistory(file))[i] ELSE last[i]]
  BY <1>3, <1>4, Zenon DEF LoadHistory
<1>9. PICK m : m = ById(MergeHistory(file))
  OBVIOUS
<1>10. /\ m \in [Ids -> Row \cup {None}]
       /\ \A i \in Ids : m[i] # None => m[i] \in Rows(file) /\ m[i].id = i
       /\ \A x \in Rows(file) : x \in Row /\ x.id \in Ids /\ m[x.id] = x
  BY <1>2, <1>9, FoundById
<1>11. last' = [i \in Ids |-> IF i \in hurt THEN m[i] ELSE last[i]]
  BY <1>8, <1>9
<1>12. /\ last' \in [Ids -> Row \cup {None}]
       /\ \A i \in Ids : last'[i] = last[i] \/ (i \in hurt /\ last'[i] = m[i])
       /\ \A x \in Rows(file) : last'[x.id] = x
       /\ \A i \in Ids : last'[i] # None /\ ~last'[i].done => last'[i] \in Rows(file)
       /\ \A i \in Ids : last'[i] # None => last'[i].id = i
  <2>1. \A i \in Ids : last[i] # None => last[i].id = i
    BY <1>1 DEF Tells
  <2>2. \A x \in Rows(file) : x.id \notin hurt => last[x.id] = x
    BY <1>1 DEF Tells, Rows
  <2>3. \A i \in Ids \ hurt : last[i] # None /\ ~last[i].done => last[i] \in Rows(file)
    BY <1>1 DEF Tells, Rows
  <2>4. \A i \in Ids : last'[i] = IF i \in hurt THEN m[i] ELSE last[i]
    BY <1>11
  <2>5. last' \in [Ids -> Row \cup {None}]
    BY <1>2, <1>10, <1>11
  <2>6. \A x \in Rows(file) : last'[x.id] = x
    BY <1>10, <2>2, <2>4
  <2>7. \A i \in Ids : last'[i] # None /\ ~last'[i].done => last'[i] \in Rows(file)
    BY <1>10, <2>3, <2>4
  <2>8. \A i \in Ids : last'[i] # None => last'[i].id = i
    BY <1>10, <2>1, <2>4
  <2> QED
    BY <2>4, <2>5, <2>6, <2>7, <2>8
<1>13. ASSUME up', hurt' = {}, Rows(file') = ToSet(rows) \/ Rows(file') = Rows(file), Synced', Whole', torn' => torn
       PROVE  InOrder' /\ Reloaded
  <2>1. records' = rows /\ opened'
    BY <1>8, <1>13
  <2>2. ToSet(rows) \subseteq Rows(file) /\ \A x \in Rows(file) : ~x.done => x \in ToSet(rows)
    BY <1>6 DEF Kept
  <2>3. \A x \in Rows(file') : last'[x.id] = x
    BY <1>12, <1>13, <2>2
  <2>4. \A i \in Ids : last'[i] # None /\ ~last'[i].done => last'[i] \in Rows(file') /\ last'[i] \in ToSet(rows)
    BY <1>12, <1>13, <2>2
  <2>5. Remembers'
    BY <1>12, <2>1, <2>2, <2>4 DEF Remembers
  <2>6. Cardinality(hurt') <= 2
    BY <1>13, Pair
  <2>7. InOrder'
    BY <1>12, <1>13, <2>3, <2>4, <2>5, <2>6, OrderNext
  <2>8. \A i \in Ids : \/ last'[i] = last[i]
                       \/ i \in hurt /\ (last'[i] = None \/ last'[i].id = i)
    BY <1>12
  <2> QED
    BY <1>12, <1>13, <2>7, <2>8 DEF Reloaded
<1>14. CASE Len(file) # Len(rows)
  <2>1. how = "ok" /\ up' /\ ~torn' /\ hurt' = {} /\ Alike(rows, MergeHistory(file'))
    BY <1>1, <1>2, <1>6, <1>8, <1>14, CompactsWell
  <2>2. Synced'
    <3>1. InStep(rows, MergeHistory(file')) /\ records' = rows
      BY <1>8, <2>1, AlikeSteps
    <3> QED
      BY <3>1 DEF Synced
  <2>3. Rows(file') = ToSet(rows)
    BY <2>1 DEF Alike, Rows
  <2>4. Whole'
    BY <2>1 DEF Whole
  <2> QED
    BY <1>13, <2>1, <2>2, <2>3, <2>4
<1>15. CASE Len(file) = Len(rows)
  <2>0. up' /\ torn' = torn
    BY <1>8, <1>15, Zenon
  <2>1. records' = rows /\ file' = file /\ hurt' = {}
    BY <1>8, <1>15
  <2>2. \A k \in DOMAIN file : Latest(file, k)
    <3>1. Len(merged) \in Nat /\ Len(rows) \in Nat
      BY <1>5, <1>6
    <3> QED
      BY <1>2, <1>5, <1>6, <1>15, <3>1
  <2>3. Whole'
    BY <2>1, <2>2 DEF Whole
  <2>4. Synced'
    BY <1>3, <1>7, <2>1 DEF Synced
  <2>5. Rows(file') = Rows(file)
    BY <2>1
  <2> QED
    BY <1>13, <2>0, <2>1, <2>3, <2>4, <2>5
<1> QED
  BY <1>14, <1>15

\* What the removal of rows does to what is told.
Removed(S) ==
  /\ torn' => torn
  /\ hurt' \in {hurt, {}}
  /\ last' = [i \in Ids |-> IF i \in S THEN None ELSE last[i]]

\* Removed rows: memory, file and what is told of them.
LEMMA DropInStep ==
  ASSUME OnlyAppends, KeepInv, up, NEW S, S \subseteq IdsOf(records), NEW how,
         how \in {"ok", "crash", "error"}, Drop(S, how)
  PROVE  InOrder' /\ Removed(S)
<1>1. TypeOK /\ OneEach(records) /\ TornLast /\ Counted /\ Tells /\ Remembers /\ Synced /\ Whole
      /\ Cardinality(hurt) <= 2
  BY DEF KeepInv, LogInv, InOrder
<1>2. lines \in Nat /\ records \in Seq(Row) /\ file \in Seq(AnyLine) /\ opened \in BOOLEAN
  BY <1>1, Types
<1>3. PICK rows : rows = Pick(records, {k \in DOMAIN records : records[k].id \notin S})
  OBVIOUS
<1>4. rows \in Seq(Row) /\ OneEach(rows) /\ ToSet(rows) = {x \in ToSet(records) : x.id \notin S}
  BY <1>1, <1>3, DropRows, Zenon
<1>5. /\ (opened => CompactHistory(rows, lines, how))
      /\ (~opened => how = "ok" /\ up' = up /\ lines' = lines /\ hurt' = hurt /\ file' = file /\ torn' = torn)
      /\ Remember(rows, marking)
      /\ last' = (IF how = "ok" THEN [i \in Ids |-> IF i \in S THEN None ELSE last[i]] ELSE last)
  BY <1>3, Zenon DEF Drop
<1>6. /\ records' = (IF up' THEN rows ELSE <<>>)
      /\ opened' = (up' /\ opened)
  BY <1>5, Zenon DEF Remember
<1>0. \A i \in Ids : last[i] # None => last[i].id = i
  BY <1>1 DEF Tells
<1>7. CASE opened
  <2>1. how = "ok" /\ up' /\ ~torn' /\ hurt' = {} /\ Alike(rows, MergeHistory(file'))
    BY <1>1, <1>2, <1>4, <1>5, <1>7, CompactsWell
  <2>0. records' = rows /\ opened'
    BY <1>6, <1>7, <2>1
  <2>2. Synced' /\ Whole'
    <3>1. InStep(rows, MergeHistory(file'))
      BY <2>1, AlikeSteps
    <3> QED
      BY <2>0, <2>1, <3>1 DEF Synced, Whole
  <2>3. Rows(file') = ToSet(rows)
    BY <2>1 DEF Alike, Rows
  <2>4. last' = [i \in Ids |-> IF i \in S THEN None ELSE last[i]]
    BY <1>5, <2>1
  <2>5. /\ \A x \in ToSet(records) : last[x.id] = x
        /\ \A i \in Ids : last[i] # None /\ ~last[i].done => last[i] \in ToSet(records)
    BY <1>1, <1>7 DEF Remembers
  <2>6. \A x \in ToSet(records) : x.id \in Ids
    <3>1. \A x \in ToSet(records) : x \in Row
      BY <1>2 DEF ToSet
    <3> QED
      BY <3>1 DEF Row
  <2>7. \A i \in Ids : last'[i] # None => last'[i].id = i
    BY <1>0, <2>4
  <2>8. \A x \in ToSet(rows) : last'[x.id] = x
    BY <1>4, <2>4, <2>5, <2>6
  <2>9. \A i \in Ids : last'[i] # None /\ ~last'[i].done => last'[i] \in ToSet(rows)
    BY <1>0, <1>4, <2>4, <2>5
  <2>10. Remembers'
    BY <2>0, <2>8, <2>9 DEF Remembers
  <2>11. Cardinality(hurt') <= 2
    BY <2>1, Pair
  <2>12. \A x \in Rows(file') : x.id \notin hurt' => last'[x.id] = x
    BY <2>3, <2>8, Zenon
  <2>13. \A i \in Ids : i \notin hurt' /\ last'[i] # None /\ ~last'[i].done => last'[i] \in Rows(file')
    BY <2>3, <2>9, Zenon
  <2>14. InOrder'
    BY <2>2, <2>7, <2>10, <2>11, <2>12, <2>13, OrderNext, Zenon
  <2> QED
    BY <2>1, <2>4, <2>14 DEF Removed
<1>8. CASE ~opened
  <2>1. how = "ok" /\ file' = file /\ hurt' = hurt
    BY <1>5, <1>8
  <2>0. torn' = torn
    BY <1>5, <1>8, Zenon
  <2>2. records = <<>>
    BY <1>1, <1>8 DEF Counted
  <2>3. S = {}
    BY <2>2 DEF IdsOf
  <2>4. last' = [i \in Ids |-> IF i \in S THEN None ELSE last[i]]
    BY <1>5, <2>1
  <2>5. last' = last
    BY <1>1, <2>3, <2>4, Types
  <2>6. Synced' /\ Remembers' /\ Whole'
    BY <1>6, <1>8 DEF Synced, Remembers, Whole
  <2>7. Tells'
    BY <1>1, <2>1, <2>5 DEF Tells
  <2>8. InOrder'
    BY <1>1, <2>1, <2>6, <2>7 DEF InOrder
  <2> QED
    BY <2>0, <2>1, <2>4, <2>8 DEF Removed
<1> QED
  BY <1>7, <1>8

\* What a step does to what is told: a row is recorded, finished rows are
\* removed, the file is read, or nothing, but that the process may die.
Told ==
  \/ \E r \in Row : limit' = limit /\ limit > 0 /\ Recorded(r)
  \/ \E S \in SUBSET Ids : (\A i \in S : last[i] # None /\ last[i].done) /\ Removed(S)
  \/ Reloaded
  \/ (torn' => torn) /\ last' = last /\ hurt' = hurt

\* The step of the main loop that records r.
LEMMA UpsertTold ==
  ASSUME OnlyAppends, KeepInv, up, limit > 0, NEW r \in Row, NEW how,
         how \in {"ok", "crash", "error"}, UpsertHistory(r, how)
  PROVE  InOrder' /\ Told
<1>1. InOrder' /\ Recorded(r)
  BY UpsertInStep
<1>2. limit' = limit
  BY Zenon DEF UpsertHistory
<1> QED
  BY <1>1, <1>2, Zenon DEF Told

\* The step of the HTTP goroutine that removes finished rows.
LEMMA DropTold ==
  ASSUME OnlyAppends, KeepInv, up, NEW S, NEW how, how \in {"ok", "crash", "error"}, Drop(S, how),
         \A i \in S : \E x \in ToSet(records) : x.id = i /\ x.done
  PROVE  InOrder' /\ Told
<1>1. TypeOK /\ Counted /\ Remembers
  BY DEF KeepInv, LogInv, InOrder
<1>2. S \subseteq IdsOf(records)
  BY DEF IdsOf, ToSet
<1>3. InOrder' /\ Removed(S)
  BY <1>2, DropInStep
<1>4. \A x \in ToSet(records) : x \in Row
  BY <1>1, Types DEF ToSet
<1>5. S \in SUBSET Ids
  BY <1>4 DEF Row
<1>6. \A i \in S : last[i] # None /\ last[i].done
  <2> SUFFICES ASSUME NEW i \in S
               PROVE  last[i] # None /\ last[i].done
    OBVIOUS
  <2>1. PICK x \in ToSet(records) : x.id = i /\ x.done
    OBVIOUS
  <2>2. opened
    <3>1. ToSet(<<>>) = {}
      BY DEF ToSet
    <3> QED
      BY <1>1, <2>1, <3>1 DEF Counted
  <2>3. last[x.id] = x
    BY <1>1, <2>1, <2>2 DEF Remembers
  <2> QED
    BY <1>4, <2>1, <2>3, Facts
<1> QED
  BY <1>3, <1>5, <1>6, Zenon DEF Told

\* Every step keeps memory and file in step, and what it does to them is told.
LEMMA KeepNext ==
  ASSUME OnlyAppends, KeepInv, [Next]_vars
  PROVE  KeepInv' /\ Told
<1>1. LogInv /\ TypeOK /\ OneEach(records) /\ Counted /\ InOrder
  BY DEF KeepInv, LogInv
<1>2. LogInv'
  BY <1>1, LogNext
<1>3. ASSUME NEW i \in Ids, NEW done \in BOOLEAN, NEW how \in {"ok", "crash", "error"}, RecordHistory(i, done, how)
      PROVE  InOrder' /\ Told
  <2>1. PICK r : r = [id |-> i, done |-> done, forgotten |-> FALSE]
    OBVIOUS
  <2>2. r \in Row
    BY <2>1 DEF Row
  <2>3. up /\ limit > 0 /\ UpsertHistory(r, how)
    BY <1>3, <2>1 DEF RecordHistory, Recording
  <2> QED
    BY <2>2, <2>3, UpsertTold
<1>4. ASSUME NEW i \in Ids, NEW how \in {"ok", "crash", "error"}, BumpHistory(i, how)
      PROVE  InOrder' /\ Told
  <2>1. up /\ limit > 0 /\ i \in IdsOf(records) /\ UpsertHistory(RowOf(records, i), how)
    BY <1>4 DEF BumpHistory, Recording
  <2>2. PICK r : r = RowOf(records, i)
    OBVIOUS
  <2>3. r \in Row
    BY <1>1, <2>1, <2>2, RowFound
  <2> QED
    BY <2>1, <2>2, <2>3, UpsertTold
<1>5. ASSUME NEW how \in {"ok", "crash", "error"}, WriteForgotten(how)
      PROVE  InOrder' /\ Told
  <2>1. up /\ marking # None /\ UpsertHistory(marking, how)
    BY <1>5 DEF WriteForgotten
  <2>2. limit > 0 /\ marking \in Row
    BY <1>1, <2>1, Types DEF Counted
  <2>3. PICK r : r = marking
    OBVIOUS
  <2> QED
    BY <2>1, <2>2, <2>3, UpsertTold
<1>6. ASSUME NEW how \in {"ok", "crash", "error"}, LoadHistory(how), limit' \in Limits
      PROVE  InOrder' /\ Told
  BY <1>6, LoadInStep DEF Told
<1>7. ASSUME UNCHANGED <<file, last, records, opened, torn, hurt>>
      PROVE  InOrder' /\ Told
  BY <1>1, <1>7 DEF InOrder, Tells, Remembers, Synced, Whole, Told
<1>8. ASSUME ~opened', UNCHANGED <<file, last, torn, hurt>>
      PROVE  InOrder' /\ Told
  BY <1>1, <1>8 DEF InOrder, Tells, Remembers, Synced, Whole, Told
<1>9. ASSUME NEW i \in Ids, NEW how \in {"ok", "crash", "error"}, DeleteHistoryID(i, how)
      PROVE  InOrder' /\ Told
  <2>1. up /\ i \in IdsOf(records) /\ RowOf(records, i).done /\ Drop({i}, how)
    BY <1>9 DEF DeleteHistoryID
  <2>2. RowOf(records, i) \in ToSet(records) /\ RowOf(records, i).id = i
    BY <1>1, <2>1, RowFound
  <2>3. \A j \in {i} : \E x \in ToSet(records) : x.id = j /\ x.done
    BY <2>1, <2>2, Zenon
  <2>4. PICK S : S = {i}
    OBVIOUS
  <2> QED
    BY <2>1, <2>3, <2>4, DropTold
<1>10. ASSUME NEW how \in {"ok", "crash", "error"}, ClearHistory(how)
       PROVE  InOrder' /\ Told
  <2>1. PICK S : S = {r.id : r \in {q \in ToSet(records) : q.done}}
    OBVIOUS
  <2>2. up /\ Drop(S, how)
    BY <1>10, <2>1 DEF ClearHistory
  <2>3. \A j \in S : \E x \in ToSet(records) : x.id = j /\ x.done
    BY <2>1
  <2> QED
    BY <2>2, <2>3, DropTold
<1>11. ASSUME NEW n \in Limits, NEW how \in {"ok", "crash", "error"}, PutGeneral(n, how)
       PROVE  InOrder' /\ Told
  <2>1. limit' = n
    BY <1>11, Zenon DEF PutGeneral
  <2>2. LoadHistory(how) \/ UNCHANGED <<file, last, records, opened, torn, hurt>>
    BY <1>11, Zenon DEF PutGeneral
  <2> QED
    BY <1>6, <1>7, <2>1, <2>2
<1>12. ASSUME NEW how \in {"ok", "crash", "error"}, Start(how)
       PROVE  InOrder' /\ Told
  <2>1. limit' = limit
    BY <1>12, Zenon DEF Start
  <2>2. LoadHistory(how) \/ UNCHANGED <<file, last, records, opened, torn, hurt>>
    BY <1>12, Zenon DEF Start
  <2>3. limit' \in Limits
    BY <1>1, <2>1, Types
  <2> QED
    BY <1>6, <1>7, <2>1, <2>2, <2>3
<1>13. ASSUME Crash
       PROVE  InOrder' /\ Told
  <2>1. ~opened' /\ UNCHANGED <<file, last, torn, hurt>>
    BY <1>13, Zenon DEF Crash, Remember
  <2> QED
    BY <1>8, <2>1
<1>14. ASSUME NEW i \in Ids, MarkHistoryForgotten(i)
       PROVE  InOrder' /\ Told
  BY <1>7, <1>14, Zenon DEF MarkHistoryForgotten
<1>15. ASSUME UNCHANGED vars
       PROVE  InOrder' /\ Told
  BY <1>7, <1>15, Zenon DEF vars
<1>16. InOrder' /\ Told
  BY <1>3, <1>4, <1>5, <1>9, <1>10, <1>11, <1>12, <1>13, <1>14, <1>15, Zenon DEF Next
<1> QED
  BY <1>2, <1>16 DEF KeepInv

\* Memory and file are in step when the process has not run yet.
LEMMA KeepInit ==
  ASSUME Init
  PROVE  KeepInv /\ Rows(file) = {}
<1>1. PICK e : e = <<>>
  OBVIOUS
<1>2. Rows(e) = {}
  <2>1. e \in Seq(AnyLine) /\ DOMAIN e = {}
    BY <1>1
  <2>2. ToSet(MergeHistory(e)) = {e[k] : k \in {j \in DOMAIN e : Latest(e, j)}}
    BY <2>1, MergeSelects, Zenon
  <2> QED
    BY <2>1, <2>2 DEF Rows
<1>3. Rows(file) = {} /\ ~opened /\ last = [i \in Ids |-> None] /\ hurt = {}
  BY <1>1, <1>2, Zenon DEF Init
<1>4. InOrder
  BY <1>3, Pair DEF InOrder, Tells, Remembers, Synced, Whole, Rows
<1> QED
  BY <1>3, <1>4, LogInit DEF KeepInv

\* A restart at any moment finds every row that memory shows (loadHistory,
\* upsertHistory), if only appends may be cut; where a line was glued to one
\* that the death of the process left without its newline, every row of work in
\* progress but those of these two lines.
THEOREM Restarts ==
  ASSUME OnlyAppends
  PROVE  Spec => []RestartKeeps
<1>1. Init => KeepInv
  BY KeepInit
<1>2. KeepInv /\ [Next]_vars => KeepInv'
  BY KeepNext
<1>3. KeepInv => RestartKeeps
  <2> SUFFICES ASSUME KeepInv, up, limit > 0,
                      NEW found, found = ToSet(CapHistory(MergeHistory(file), limit))
               PROVE  /\ hurt = {} => ToSet(CapHistory(records, limit)) \subseteq found
                      /\ \A r \in ToSet(records) : ~r.done /\ r.id \notin hurt => r \in found
                      /\ Cardinality(hurt) <= 2
    BY DEF RestartKeeps
  <2>1. TypeOK /\ OneEach(records) /\ Counted /\ Tells /\ Remembers /\ Synced /\ Cardinality(hurt) <= 2
    BY DEF KeepInv, LogInv, InOrder
  <2>2. records \in Seq(Row) /\ file \in Seq(AnyLine) /\ limit \in Nat /\ opened
    BY <2>1, Types DEF Counted
  <2>4. PICK merged : merged = MergeHistory(file)
    OBVIOUS
  <2>5. merged \in Seq(Row) /\ OneEach(merged)
    BY <2>2, <2>4, MergeSelects
  <2>6. ASSUME hurt = {}
        PROVE  ToSet(CapHistory(records, limit)) \subseteq found
    <3>1. InStep(records, merged)
      BY <2>1, <2>2, <2>4, <2>6 DEF Synced
    <3> QED
      BY <2>1, <2>2, <2>4, <2>5, <3>1, CapKeeps
  <2>7. ASSUME NEW r \in ToSet(records), ~r.done, r.id \notin hurt
        PROVE  r \in found
    <3>1. r \in Row /\ r.id \in Ids /\ r # None
      <4>1. r \in Row
        BY <2>2 DEF ToSet
      <4> QED
        BY <4>1, Facts DEF Row
    <3>2. last[r.id] = r
      BY <2>1, <2>2 DEF Remembers
    <3>3. r \in ToSet(merged)
      BY <2>1, <2>4, <2>7, <3>1, <3>2 DEF Tells
    <3>4. ToSet(CapHistory(merged, limit)) = {x \in ToSet(merged) : Kept(merged, limit, x)}
      BY <2>2, <2>5, CapSelects
    <3> QED
      BY <2>4, <2>7, <3>3, <3>4 DEF Kept
  <2> QED
    BY <2>1, <2>6, <2>7
<1> QED
  BY <1>1, <1>2, <1>3, PTL DEF Spec

-----------------------------------------------------------------------------
(* HistoryLog implements HistoryStore.                                     *)

\* The rows of a list by id.
LEMMA ListById ==
  ASSUME NEW list
  PROVE  \A i \in Ids :
           /\ i \in IdsOf(list) => ById(list)[i] \in ToSet(list) /\ ById(list)[i].id = i
           /\ i \notin IdsOf(list) => ById(list)[i] = None
<1> SUFFICES ASSUME NEW i \in Ids
             PROVE  /\ i \in IdsOf(list) => ById(list)[i] \in ToSet(list) /\ ById(list)[i].id = i
                    /\ i \notin IdsOf(list) => ById(list)[i] = None
  OBVIOUS
<1>1. ById(list)[i] = IF i \in IdsOf(list) THEN RowOf(list, i) ELSE None
  BY DEF ById
<1>2. ASSUME i \in IdsOf(list)
      PROVE  RowOf(list, i) \in ToSet(list) /\ RowOf(list, i).id = i
  <2>1. \E x \in ToSet(list) : x.id = i
    BY <1>2 DEF IdsOf, ToSet
  <2> QED
    BY <2>1, Zenon DEF RowOf
<1> QED
  BY <1>1, <1>2

\* What readers see is what was recorded; what they do not see is finished, or
\* was glued to another row.
LEMMA ShownIsTold ==
  ASSUME KeepInv
  PROVE  Shown \in Store!Shows(last, hurt)
<1>1. TypeOK /\ OneEach(records) /\ Counted /\ Tells /\ Remembers
  BY DEF KeepInv, LogInv, InOrder
<1>2. PICK list : list = IF up /\ limit > 0 THEN records ELSE MergeHistory(file)
  OBVIOUS
<1>3. /\ \A x \in ToSet(list) : x \in Row /\ x.id \in Ids /\ (x.id \notin hurt => last[x.id] = x)
      /\ \A i \in Ids : i \notin hurt /\ last[i] # None /\ ~last[i].done => last[i] \in ToSet(list)
  <2>1. CASE up /\ limit > 0
    <3>1. opened /\ list = records
      BY <1>1, <1>2, <2>1 DEF Counted
    <3>2. \A x \in ToSet(records) : x \in Row
      BY <1>1, Types DEF ToSet
    <3>3. \A x \in ToSet(records) : x.id \in Ids
      BY <3>2 DEF Row
    <3> QED
      BY <1>1, <3>1, <3>2, <3>3 DEF Remembers
  <2>2. CASE ~(up /\ limit > 0)
    <3>1. list = MergeHistory(file)
      BY <1>2, <2>2
    <3> QED
      BY <1>1, <3>1, FileRows DEF Tells, Rows
  <2> QED
    BY <2>1, <2>2
<1>4. \A i \in Ids : last[i] # None => last[i].id = i
  BY <1>1 DEF Tells
<1>5. Shown = ById(list)
  BY <1>2, Zenon DEF Shown
<1>6. ASSUME NEW i \in Ids, i \in IdsOf(list)
      PROVE  Shown[i] \in Row /\ Shown[i].id = i /\ (i \notin hurt => Shown[i] = last[i])
  <2>1. Shown[i] \in ToSet(list) /\ Shown[i].id = i
    BY <1>5, <1>6, ListById
  <2> QED
    BY <1>3, <2>1
<1>7. ASSUME NEW i \in Ids, i \notin IdsOf(list)
      PROVE  Shown[i] = None /\ (i \in hurt \/ last[i] = None \/ last[i].done)
  <2>1. Shown[i] = None
    BY <1>5, <1>7, ListById
  <2>2. ASSUME i \notin hurt, last[i] # None, ~last[i].done
        PROVE  FALSE
    <3>1. last[i] \in ToSet(list) /\ last[i].id = i
      BY <1>3, <1>4, <2>2
    <3> QED
      BY <1>7, <3>1 DEF IdsOf, ToSet
  <2> QED
    BY <2>1, <2>2
<1>8. Shown \in [Ids -> Row \cup {None}]
  <2>1. PICK m : m = ById(list)
    OBVIOUS
  <2>2. m = [i \in Ids |-> m[i]]
    BY <2>1 DEF ById
  <2>3. \A i \in Ids : m[i] \in Row \cup {None}
    BY <1>5, <1>6, <1>7, <2>1
  <2> QED
    BY <1>5, <2>1, <2>2, <2>3
<1> QED
  BY <1>6, <1>7, <1>8 DEF Store!Shows

\* A reader sees a row that is in memory, or what a start will find.
LEMMA ShownHere ==
  ASSUME KeepInv, NEW r \in Row,
         (up /\ limit > 0 /\ r \in ToSet(records)) \/ (~up /\ r \in Rows(file))
  PROVE  Shown[r.id] = r
<1>1. TypeOK /\ OneEach(records)
  BY DEF KeepInv, LogInv
<1>2. records \in Seq(Row) /\ file \in Seq(AnyLine) /\ r.id \in Ids
  BY <1>1, Types DEF Row
<1>3. CASE up /\ limit > 0 /\ r \in ToSet(records)
  <2>1. Shown = ById(records)
    BY <1>3, Zenon DEF Shown
  <2>2. r.id \in IdsOf(records)
    BY <1>3 DEF IdsOf, ToSet
  <2>3. Shown[r.id] \in ToSet(records) /\ Shown[r.id].id = r.id
    BY <1>2, <2>1, <2>2, ListById
  <2>4. \A x, y \in ToSet(records) : x.id = y.id => x = y
    BY <1>1 DEF OneEach, ToSet
  <2> QED
    BY <1>3, <2>3, <2>4
<1>4. CASE ~up /\ r \in Rows(file)
  <2>1. Shown = ById(MergeHistory(file))
    BY <1>4, Zenon DEF Shown
  <2> QED
    BY <1>2, <1>4, <2>1, FoundById
<1> QED
  BY <1>3, <1>4

\* The history keeps the promise of HistoryStore, if only appends may be cut:
\* what is recorded is shown until it is removed or, finished, left out; a
\* death in the middle of recording costs two rows at the most.
THEOREM Implements ==
  ASSUME OnlyAppends
  PROVE  Spec => StoreSpec
<1>1. Init => KeepInv /\ Store!Init
  <2> SUFFICES ASSUME Init PROVE KeepInv /\ Store!Init
    OBVIOUS
  <2>1. KeepInv /\ Rows(file) = {}
    BY KeepInit
  <2>2. up = FALSE /\ torn = FALSE /\ hurt = {} /\ last = [i \in Ids |-> None]
    BY Zenon DEF Init
  <2>3. Shown = ById(MergeHistory(file))
    BY <2>2, Zenon DEF Shown
  <2>4. IdsOf(MergeHistory(file)) = {}
    BY <2>1 DEF Rows, IdsOf, ToSet
  <2>5. Shown = last
    BY <2>2, <2>3, <2>4 DEF ById
  <2> QED
    BY <2>1, <2>2, <2>5, Zenon DEF Store!Init
<1>2. (KeepInv => Shown \in Store!Shows(last, hurt))'
  <2>1. KeepInv => Shown \in Store!Shows(last, hurt)
    BY ShownIsTold
  <2> QED
    BY <2>1, PTL
<1>3. (KeepInv => \A r \in Row :
         (up /\ limit > 0 /\ r \in ToSet(records)) \/ (~up /\ r \in Rows(file)) => Shown[r.id] = r)'
  <2>1. KeepInv => \A r \in Row :
          (up /\ limit > 0 /\ r \in ToSet(records)) \/ (~up /\ r \in Rows(file)) => Shown[r.id] = r
    BY ShownHere
  <2> QED
    BY <2>1, PTL
<1>4. KeepInv /\ [Next]_vars => KeepInv' /\ Store!Next
  <2> SUFFICES ASSUME KeepInv, [Next]_vars PROVE KeepInv' /\ Store!Next
    BY Zenon
  <2>1. KeepInv' /\ Told
    BY KeepNext
  <2>2. Shown' \in Store!Shows(last', hurt')
    BY <1>2, <2>1 DEF Store!Shows
  <2>3. ASSUME torn' => torn \/ ~up', last' = last,
               hurt' \in {hurt, {}} \/ (~up' /\ torn /\ hurt = {} /\ \E i, j \in Ids : hurt' = {i, j})
        PROVE  Store!Next
    <3>1. Store!Trim
      <4>1. Shown' \in Store!Shows(last, hurt')
        BY <2>2, <2>3 DEF Store!Shows
      <4>2. Store!Spares \/ (~up' /\ \E i, j \in Ids : Store!Hurts(i, j))
        BY <2>3 DEF Store!Spares, Store!Hurts
      <4> QED
        BY <2>3, <4>1, <4>2, Zenon DEF Store!Trim
    <3> QED
      BY <2>3, <3>1, Zenon DEF Store!Next
  <2>4. ASSUME NEW r \in Row, limit' = limit, limit > 0, Recorded(r)
        PROVE  Store!Next
    <3>1. torn' => ~up'
      BY <2>4, Zenon DEF Recorded
    <3>2. CASE /\ last' = [last EXCEPT ![r.id] = r]
               /\ hurt' \in {hurt, {}} \/ (~torn' /\ torn /\ hurt = {} /\ \E i \in Ids : hurt' = {i, r.id})
               /\ (up' /\ opened' /\ r \in ToSet(records')) \/ (~up' /\ r \in Rows(file'))
      <4>1. Shown'[r.id] = r
        <5>1. limit' > 0
          BY <2>4
        <5>2. (up' /\ limit' > 0 /\ r \in ToSet(records')) \/ (~up' /\ r \in Rows(file'))
          BY <3>2, <5>1, Zenon
        <5> QED
          BY <1>3, <2>1, <5>2
      <4>2. Store!Spares \/ (~torn' /\ \E i \in Ids : Store!Hurts(i, r.id))
        BY <3>2 DEF Store!Spares, Store!Hurts
      <4>3. Store!Put(r)
        BY <2>2, <3>2, <4>1, <4>2, Zenon DEF Store!Put
      <4> QED
        BY <3>1, <4>3, Zenon DEF Store!Next
    <3>3. CASE /\ last' = last /\ ~up'
               /\ hurt' = hurt \/ (torn /\ hurt = {} /\ \E i, j \in Ids : hurt' = {i, j})
      <4>1. hurt' \in {hurt, {}} \/ (~up' /\ torn /\ hurt = {} /\ \E i, j \in Ids : hurt' = {i, j})
        BY <3>3
      <4> QED
        BY <2>3, <3>1, <3>3, <4>1
    <3> QED
      BY <2>4, <3>2, <3>3, Zenon DEF Recorded
  <2>5. ASSUME NEW S \in SUBSET Ids, \A i \in S : last[i] # None /\ last[i].done, Removed(S)
        PROVE  Store!Next
    <3>1. (torn' => torn) /\ hurt' \in {hurt, {}} /\ last' = [i \in Ids |-> IF i \in S THEN None ELSE last[i]]
      BY <2>5, Zenon DEF Removed
    <3>2. Store!Remove(S)
      BY <2>2, <2>5, <3>1, Zenon DEF Store!Remove, Store!Spares
    <3> QED
      BY <3>1, <3>2, Zenon DEF Store!Next
  <2>6. ASSUME Reloaded
        PROVE  Store!Next
    <3>1. /\ torn' => torn
          /\ hurt' = {}
          /\ last' \in [Ids -> Row \cup {None}]
          /\ \A i \in Ids : \/ last'[i] = last[i]
                            \/ i \in hurt /\ (last'[i] = None \/ last'[i].id = i)
      BY <2>6, Zenon DEF Reloaded
    <3>2. Store!Reload
      BY <2>2, <3>1, Zenon DEF Store!Reload
    <3> QED
      BY <3>1, <3>2, Zenon DEF Store!Next
  <2>7. ASSUME torn' => torn, last' = last, hurt' = hurt
        PROVE  Store!Next
    <3>1. hurt' \in {hurt, {}}
      BY <2>7
    <3> QED
      BY <2>3, <2>7, <3>1
  <2> QED
    BY <2>1, <2>4, <2>5, <2>6, <2>7, Zenon DEF Told
<1> QED
  BY <1>1, <1>4, PTL DEF Spec, StoreSpec, Store!Spec
=============================================================================
