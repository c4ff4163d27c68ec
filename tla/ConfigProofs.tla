---------------------------- MODULE ConfigProofs ----------------------------
(***************************************************************************)
(* What ConfigCommit promises, proved for all setups, requests, passwords  *)
(* and bounds.  The inductive invariant is ConfigInv.                      *)
(***************************************************************************)
EXTENDS ConfigCommit, Integers, FiniteSetTheorems, SequenceTheorems, WellFoundedInduction, TLAPS

LiveKinds == {"hash", "webauth", "noauth"}
LivePw == [kind : LiveKinds, text : Texts]
Used(m) == Given \union {Fresh[i] : i \in 1..m}
Own(e, m) == Used(m) \ ForeignTo(e)
MapKeys(e) == Texts \ ForeignTo(e)
OwnPw(e, kinds) == {p \in Password(kinds) : PwOwn(e, p)}
FileWebs(e, m) == Web(OwnPw(e, FileKinds), Own(e, m))
FileDoc(e, m) == Document(MapKeys(e), OwnPw(e, FileKinds), Own(e, m))
Form(e, m) == [pw : OwnPw(e, ClientKinds), confirm : Texts, keys : Seq(ApiKey(Own(e, m))),
               roles : [Roles -> SUBSET Perms], listen : Texts, roleHeader : Texts]
GeneralTask(k) == [id : 1..k, section : {"general"}, body : General]
MapTask(k, e) == [id : 1..k, section : Lists, body : Instances(MapKeys(e))]
WebTask(k, e, m) == [id : 1..k, section : {"web"}, body : Form(e, m)]
Task(k, e, m) == GeneralTask(k) \union MapTask(k, e) \union WebTask(k, e, m)
GeneralJob(k) == [at : {"ready"}, task : GeneralTask(k), file : General, live : General, restart : BOOLEAN]
MapJob(k, e) == [at : {"ready"}, task : MapTask(k, e), file : Instances(MapKeys(e)),
                 live : Instances(Texts), restart : BOOLEAN]
SnapJob(k, e, m) == [at : {"snapped"}, task : WebTask(k, e, m), live : Web(LivePw, Used(m))]
WebJob(k, e, m) == [at : {"ready"}, task : WebTask(k, e, m), file : FileWebs(e, m),
                    live : Web(LivePw, Used(m)), restart : BOOLEAN]
Job(k, e, m) == {NoJob} \union GeneralJob(k) \union MapJob(k, e) \union SnapJob(k, e, m) \union WebJob(k, e, m)
Count == [puts : Nat, starts : Nat, fails : Nat, tray : Nat, resets : Nat, made : Nat]
Alive == phase \in {"auth", "up", "headless"}

Phases == {"down", "auth", "up", "headless", "exited"}
TraySteps == {TrayIdle} \union [at : {"set"}, text : Texts, pass : {NoPw}]
                        \union [at : {"read", "synced"}, text : Texts, pass : LivePw]
DocsOK(e, m, d, f) == e \in {s.env : s \in Setups} /\ d \in FileDoc(e, m) /\ f \in FileDoc(e, m)
LiveOK(m, lv) ==
    /\ lv = [general |-> lv.general, maps |-> lv.maps, web |-> lv.web, perms |-> lv.perms]
    /\ lv.general \in General /\ lv.maps \in [Lists -> Instances(Texts)]
    /\ lv.web \in Web(Password(FileKinds), Used(m))
QueueOK(e, c, ts, ws, j) ==
    /\ ts \in Seq(Task(c.puts, e, c.made)) /\ Len(ts) <= c.puts
    /\ ws \subseteq 1..c.puts /\ c.puts <= MaxPuts
    /\ j \in Job(c.puts, e, c.made)
CountOK(c, p) == c \in Count /\ p \in Phases /\ c.made <= Len(Fresh) /\ (p = "auth" => c.made < Len(Fresh))

Values ==
    /\ DocsOK(env, n.made, disk, mem) /\ LiveOK(n.made, live)
    /\ QueueOK(env, n, tasks, waiting, job) /\ CountOK(n, phase)
    /\ tray \in TraySteps /\ told \in Texts
Quiet == ~Running => tasks = <<>> /\ job = NoJob /\ waiting = {} /\ tray = TrayIdle
Accounts ==
    /\ live.perms = KeyPerms(live.web)
    /\ Alive => ValidAuth(live.web) /\ live.web.pw \in LivePw
    /\ job.at = "ready" /\ job.task.section = "web" => ValidAuth(job.live)
    /\ built.dialog => env.pw = NoPw
    /\ tray.at # "none" => env.pw = NoPw
\* The parts of a document that a change of password leaves alone.
Alike(d, m) == d.general = m.general /\ d.maps = m.maps /\ d.web.listen = m.web.listen
\* On disk and in memory those parts are the same, and what runs is what they say.
DiskSync == Alive /\ path => Alike(disk, mem)
LiveSync ==
    /\ Alive => live.general = LiveGeneral(env, mem.general) /\ \A l \in Lists : live.maps[l] = LiveMap(env, l, mem.maps[l])
    /\ phase = "auth" => live.web.listen = mem.web.listen
\* What a checked section will run is what it will write, and it asks for a restart
\* when it changes what cannot be changed in place.
CommitOK ==
    /\ job.at = "ready" /\ job.task.section = "general" => job.live = LiveGeneral(env, job.file)
    /\ job.at = "ready" /\ job.task.section \in Lists => job.live = LiveMap(env, job.task.section, job.file)
RestartOK ==
    /\ job.at = "ready" /\ job.task.section = "general" => (job.restart <=> job.live.debug # live.general.debug)
    /\ job.at = "ready" /\ job.task.section \in Lists => (job.restart <=> job.task.section = "folder")
    /\ job.at = "ready" /\ job.task.section = "web" => (job.restart <=> mem.web.listen # job.file.listen)
\* What the running process was built with is what the document asks for, or a
\* restart is asked for.
Fits(b, l, m) == b.debug = l.general.debug /\ b.listen = m.web.listen /\ b.folder = l.maps["folder"]
BuiltSync == Running /\ ~manual => pending \/ Fits(built, live, mem)
Sync == DiskSync /\ LiveSync /\ CommitOK /\ RestartOK /\ BuiltSync
TrayHolds ==
    tray.at # "none" /\ ~raced =>
        /\ told = None /\ (job = NoJob \/ job.task.section # "web")
        /\ live.web.pw = Hash(tray.text)
        /\ tray.at \in {"read", "synced"} => tray.pass = Hash(tray.text)
        /\ tray.at = "synced" => mem.web.pw = Hash(tray.text)
ToldInv ==
    told # None =>
       /\ path
       /\ ~raced =>
        /\ disk.web.pw = Hash(told) /\ (Alive => mem.web.pw = Hash(told))
        /\ Alive /\ env.pw = NoPw => live.web.pw = Hash(told)
        /\ job.at = "snapped" /\ env.pw = NoPw => job.live.pw = Hash(told)
        /\ job.at = "ready" /\ job.task.section = "web" /\ job.file.pw = mem.web.pw /\ env.pw = NoPw => job.live.pw = Hash(told)
Linked(e, file, lv) ==
    \A i \in DOMAIN lv :
        \/ \E j \in DOMAIN file : file[j].name = lv[i].name /\ Expand(file[j].secret) = lv[i].secret
        \/ lv[i].name = e.key.name /\ lv[i].secret = Expand(e.key.secret)
Distinct(keys) == \A i, j \in DOMAIN keys : i # j => keys[i].name # keys[j].name
\* The saved form keeps what the file has of a key it names.
FormKept(keys, filekeys, fk, nk) ==
  \A i \in DOMAIN keys :
     /\ keys[i].name \in Names(nk)
     /\ \A j \in DOMAIN filekeys :
           keys[i].secret = None /\ keys[i].name = filekeys[j].name /\ filekeys[j].secret # None
              => filekeys[j].secret \in Secrets(fk)

\* The names of the keys, on disk and in memory, are their own.
DistinctOK == Distinct(disk.web.keys) /\ Distinct(mem.web.keys)
\* What runs comes from the document or the variables, and admits an administrator
\* when the document has one.
LinkOK ==
    /\ Alive => Linked(env, mem.web.keys, live.web.keys)
    /\ Running /\ AdminKeys(mem.web.keys) # {} => AdminKeys(live.web.keys) # {}
\* The same of a section that was checked.
JobKeys ==
    /\ job.at = "snapped" => job.live.keys = live.web.keys
    /\ job.at = "ready" /\ job.task.section = "web" =>
          /\ Distinct(job.file.keys) /\ Linked(env, job.file.keys, job.live.keys)
          /\ AdminKeys(job.file.keys) # {} => AdminKeys(job.live.keys) # {}
          /\ FormKept(job.task.body.keys, mem.web.keys, job.file.keys, job.live.keys)
KeysHold == DistinctOK /\ LinkOK /\ JobKeys

ConfigInv == Values /\ Quiet /\ Accounts /\ Sync /\ TrayHolds /\ ToldInv /\ KeysHold

-----------------------------------------------------------------------------
(* Induction over numbers and recursive functions.  The library's theorems *)
(* on induction take an operator; these are about a set.                   *)

\* A set of naturals that is not empty has a least element.
LEMMA Least ==
  ASSUME NEW T \in SUBSET Nat, T # {}
  PROVE  \E top \in T : \A m \in T : top <= m
<1> DEFINE D == {0..top : top \in T}
<1>1. D \subseteq FiniteSubsetsOf(Nat) /\ D # {}
  <2>1. \A top \in Nat : IsFiniteSet(0..top) /\ 0..top \in SUBSET Nat
    BY FS_Interval
  <2> QED
    BY <2>1, Zenon DEF FiniteSubsetsOf
<1>2. IsWellFoundedOn(StrictSubsetOrdering(Nat), FiniteSubsetsOf(Nat))
  BY FS_StrictSubsetOrderingWellFounded
<1>3. \E x \in D : \A y \in D : ~(<<y, x>> \in StrictSubsetOrdering(Nat))
  <2> HIDE DEF D
  <2> QED
    BY <1>1, <1>2, WFMin
<1>4. PICK top \in T : \A m \in T : ~(<<0..m, 0..top>> \in StrictSubsetOrdering(Nat))
  BY <1>3
<1>5. \A m \in T : top <= m
  <2> SUFFICES ASSUME NEW m \in T, m < top PROVE FALSE
    OBVIOUS
  <2>1. 0..m \in SUBSET Nat /\ 0..top \in SUBSET Nat /\ 0..m \subseteq 0..top /\ 0..m # 0..top
    OBVIOUS
  <2>2. <<0..m, 0..top>> \in StrictSubsetOrdering(Nat)
    BY <2>1, Zenon DEF StrictSubsetOrdering
  <2> QED
    BY <2>2, <1>4
<1> QED
  BY <1>5

\* Induction over 0..top: a set that holds 0 and is closed under the next number
\* holds all of them.
LEMMA UpTo ==
  ASSUME NEW top \in Nat, NEW P \in SUBSET (0..top),
         0 \in P, \A k \in 1..top : k - 1 \in P => k \in P
  PROVE  P = 0..top
<1> DEFINE T == (0..top) \ P
<1>1. T \in SUBSET Nat
  OBVIOUS
<1>2. SUFFICES ASSUME T # {} PROVE FALSE
  OBVIOUS
<1>3. PICK k \in T : \A m \in T : k <= m
  BY <1>1, <1>2, Least
<1>4. k \in 1..top /\ k - 1 \notin T
  BY <1>3
<1> QED
  BY <1>3, <1>4

\* h holds the values of a recursion over 0..top: b first, then each step F[k] of
\* the one before.
Chain(h, top, b, F) == h[0] = b /\ \A k \in 1..top : h[k] = F[k][h[k-1]]

\* There is such a function when each step keeps to S: it is what a recursive
\* function denotes.
LEMMA ChainExists ==
  ASSUME NEW top \in Nat, NEW S, NEW b \in S, NEW F \in [1..top -> [S -> S]]
  PROVE  \E h \in [0..top -> S] : Chain(h, top, b, F)
<1> DEFINE P == {k \in 0..top : \E h \in [0..k -> S] : Chain(h, k, b, F)}
<1>1. 0 \in P
  <2>1. [i \in 0..0 |-> b] \in [0..0 -> S] /\ Chain([i \in 0..0 |-> b], 0, b, F)
    BY DEF Chain
  <2> QED
    BY <2>1
<1>2. ASSUME NEW k \in 1..top, k - 1 \in P
      PROVE  k \in P
  <2>1. PICK g \in [0..(k-1) -> S] : Chain(g, k - 1, b, F)
    BY <1>2
  <2> DEFINE h == [i \in 0..k |-> IF i = k THEN F[k][g[k-1]] ELSE g[i]]
  <2>2. k - 1 \in 0..(k-1) /\ \A i \in 0..k : i = k \/ i \in 0..(k-1)
    OBVIOUS
  <2>3. F[k][g[k-1]] \in S
    BY <2>1, <2>2
  <2>4. h \in [0..k -> S]
    BY <2>1, <2>2, <2>3
  <2>5. \A i \in 1..k : h[i] = F[i][h[i-1]]
    BY <2>1, <2>2 DEF Chain
  <2>6. h[0] = b
    BY <2>1 DEF Chain
  <2> HIDE DEF h
  <2>7. Chain(h, k, b, F)
    BY <2>5, <2>6 DEF Chain
  <2> QED
    BY <2>4, <2>7
<1>3. top \in P
  <2>1. P \in SUBSET (0..top) /\ top \in 0..top
    OBVIOUS
  <2> HIDE DEF P
  <2> QED
    BY <1>1, <1>2, <2>1, UpTo
<1> QED
  BY <1>3

-----------------------------------------------------------------------------
(* Operators of the model.                                                 *)

\* h holds what Only has kept of each prefix.
KeptRun(h, keys, kept) ==
  /\ h[Len(keys)] = Only(keys, kept) /\ h[0] = <<>>
  /\ \A k \in 1..Len(keys) :
        h[k] = IF keys[k] \in kept THEN Append(h[k-1], keys[k]) ELSE h[k-1]

\* What Only gives is the run of its step over the keys.
LEMMA OnlyRuns ==
  ASSUME NEW T, NEW keys \in Seq(T), NEW kept
  PROVE  \E h \in [0..Len(keys) -> Seq(T)] : KeptRun(h, keys, kept)
<1> DEFINE top == Len(keys)
      S == Seq(T)
      b == <<>>
      Put(x, k) == IF keys[k] \in kept THEN Append(x, keys[k]) ELSE x
      F == [k \in 1..top |-> [x \in S |-> Put(x, k)]]
      Step(g) == [k \in 0..top |-> IF k = 0 THEN b ELSE Put(g[k-1], k)]
      it == CHOOSE g : g = Step(g)
<1>1. Only(keys, kept) = it[top]
  BY Zenon DEF Only
<1>2. top \in Nat /\ \A k \in 1..top : keys[k] \in T
  BY LenProperties, ElementOfSeq
<1>3. b \in S /\ \A x \in S : \A k \in 1..top : Put(x, k) \in S
  BY <1>2
<1>4. F \in [1..top -> [S -> S]]
  <2> HIDE DEF Put, top, S
  <2> QED
    BY <1>3
<1>5. PICK h \in [0..top -> S] : Chain(h, top, b, F)
  <2> HIDE DEF F, top, S, b
  <2> QED
    BY <1>2, <1>3, <1>4, ChainExists
<1>6. h[0] = b /\ \A k \in 1..top : h[k] = Put(h[k-1], k)
  <2>1. \A k \in 1..top : h[k-1] \in S
    BY <1>2
  <2> HIDE DEF Put, top, S, b
  <2> QED
    BY <1>5, <2>1 DEF Chain
<1>7. h = Step(h)
  <2> HIDE DEF Put, top, S, b
  <2>1. \A k \in 0..top : h[k] = Step(h)[k]
    BY <1>2, <1>6
  <2> QED
    BY <2>1
<1>8. it = Step(it)
  <2> HIDE DEF Step
  <2> QED
    BY <1>7, Zenon
<1>9. it[top] = h[top]
  <2> DEFINE P == {k \in 0..top : it[k] = h[k]}
  <2> HIDE DEF Put, S, b, it
  <2>1. 0 \in P
    BY <1>2, <1>6, <1>8
  <2>2. \A k \in 1..top : k - 1 \in P => k \in P
    BY <1>2, <1>6, <1>8
  <2>3. P \in SUBSET (0..top) /\ top \in 0..top
    BY <1>2
  <2>4. top \in P
    <3> HIDE DEF P, top
    <3> QED
      BY <2>1, <2>2, <2>3, <1>2, UpTo
  <2> QED
    BY <2>4
<1> QED
  BY <1>1, <1>6, <1>9 DEF KeptRun

\* Only keeps the keys of a set, all of them and no others.
LEMMA OnlyKeeps ==
  ASSUME NEW T, NEW keys \in Seq(T), NEW kept
  PROVE  /\ Only(keys, kept) \in Seq({x \in T : x \in kept})
         /\ \A i \in DOMAIN keys : keys[i] \in kept => \E j \in DOMAIN Only(keys, kept) : Only(keys, kept)[j] = keys[i]
         /\ \A j \in DOMAIN Only(keys, kept) : \E i \in DOMAIN keys : Only(keys, kept)[j] = keys[i]
<1> DEFINE len == Len(keys)
      R == {x \in T : x \in kept /\ \E i \in DOMAIN keys : keys[i] = x}
<1>1. len \in Nat /\ DOMAIN keys = 1..len /\ \A k \in 1..len : keys[k] \in T
  BY LenProperties, ElementOfSeq
<1>2. PICK h \in [0..len -> Seq(T)] : KeptRun(h, keys, kept)
  BY OnlyRuns
<1> DEFINE Has(k) == /\ h[k] \in Seq(R)
                     /\ \A i \in 1..k : keys[i] \in kept => \E j \in DOMAIN h[k] : h[k][j] = keys[i]
           P == {k \in 0..len : Has(k)}
<1>3. 0 \in P
  BY <1>1, <1>2 DEF KeptRun
<1>4. ASSUME NEW k \in 1..len, k - 1 \in P
      PROVE  k \in P
  <2>1. k - 1 \in 0..len /\ Has(k - 1) /\ k \in 0..len
    BY <1>1, <1>4
  <2>2. CASE keys[k] \notin kept
    <3>1. h[k] = h[k-1]
      BY <1>2, <2>2 DEF KeptRun
    <3>2. \A i \in 1..k : keys[i] \in kept => i \in 1..(k-1)
      BY <1>1, <2>2
    <3> HIDE DEF len, R
    <3> QED
      BY <2>1, <3>1, <3>2
  <2>3. CASE keys[k] \in kept
    <3>1. h[k] = Append(h[k-1], keys[k]) /\ keys[k] \in R
      BY <1>1, <1>2, <2>3 DEF KeptRun
    <3>2. \A i \in 1..k : i = k \/ i \in 1..(k-1)
      BY <1>1
    <3>3. Has(k)
      <4> HIDE DEF len, R
      <4>1. /\ h[k] \in Seq(R) /\ Len(h[k]) = Len(h[k-1]) + 1 /\ h[k][Len(h[k])] = keys[k]
            /\ \A j \in DOMAIN h[k-1] : j \in DOMAIN h[k] /\ h[k][j] = h[k-1][j]
            /\ Len(h[k]) \in DOMAIN h[k]
        BY <2>1, <3>1
      <4> QED
        BY <2>1, <3>2, <4>1
    <3> QED
      BY <2>1, <3>3
  <2> QED
    BY <2>2, <2>3
<1>5. len \in P
  <2> HIDE DEF P, len
  <2>1. P \in SUBSET (0..len)
    BY DEF P
  <2>2. P = 0..len
    BY <1>1, <1>3, <1>4, <2>1, UpTo
  <2> QED
    BY <1>1, <2>2
<1>6. Only(keys, kept) \in Seq(R) /\ \A i \in DOMAIN keys : keys[i] \in kept =>
         \E j \in DOMAIN Only(keys, kept) : Only(keys, kept)[j] = keys[i]
  BY <1>1, <1>2, <1>5 DEF KeptRun
<1>7. \A j \in DOMAIN Only(keys, kept) : Only(keys, kept)[j] \in R
  BY <1>6
<1>8. R \subseteq {x \in T : x \in kept}
  OBVIOUS
<1>9. Only(keys, kept) \in Seq({x \in T : x \in kept})
  <2> HIDE DEF R
  <2> QED
    BY <1>6, <1>8, SeqMonotonic
<1> QED
  BY <1>6, <1>7, <1>9

\* B has what A has when references are read.
Read(A, B) == \A a \in A : Expand(a) \in B

\* Secrets read from their files: names and roles stay.
LEMMA ExpandedKeys ==
  ASSUME NEW A, NEW B, NEW keys \in Seq(ApiKey(A)), Read(A, B)
  PROVE  /\ Expanded(keys) \in Seq(ApiKey(B)) /\ DOMAIN Expanded(keys) = DOMAIN keys
         /\ \A i \in DOMAIN keys : /\ Expanded(keys)[i].name = keys[i].name
                                   /\ Expanded(keys)[i].role = keys[i].role
                                   /\ Expanded(keys)[i].secret = Expand(keys[i].secret)
<1>1. Len(keys) \in Nat /\ DOMAIN keys = 1..Len(keys)
  BY LenProperties
<1>2. ASSUME NEW i \in DOMAIN keys
      PROVE  /\ Expanded(keys)[i] \in ApiKey(B)
             /\ Expanded(keys)[i].name = keys[i].name /\ Expanded(keys)[i].role = keys[i].role
             /\ Expanded(keys)[i].secret = Expand(keys[i].secret)
  <2>1. keys[i] \in ApiKey(A)
    BY <1>2
  <2>2. Expand(keys[i].secret) \in B
    BY <2>1 DEF ApiKey, Read
  <2> HIDE DEF Expand
  <2> QED
    BY <2>1, <2>2 DEF Expanded, ApiKey
<1>3. Expanded(keys) \in [1..Len(keys) -> ApiKey(B)]
  <2>1. Expanded(keys) = [i \in 1..Len(keys) |-> Expanded(keys)[i]]
    BY <1>1 DEF Expanded
  <2> QED
    BY <1>1, <1>2, <2>1
<1>4. Expanded(keys) \in Seq(ApiKey(B))
  BY <1>1, <1>3, SeqDef
<1>5. DOMAIN Expanded(keys) = DOMAIN keys
  BY DEF Expanded
<1> QED
  BY <1>2, <1>4, <1>5

\* The table of rights has the rights of the one key that has a secret.
LEMMA TableOfRights ==
  ASSUME NEW A, NEW web, web.keys \in Seq(ApiKey(A)), ValidAuth(web)
  PROVE  /\ DOMAIN KeyPerms(web) = Secrets(web.keys)
         /\ \A i \in DOMAIN web.keys :
               KeyPerms(web)[web.keys[i].secret] = RolePerms(web.roles, {web.keys[i].role})
<1> DEFINE K == web.keys
<1>1. ASSUME NEW i \in DOMAIN K
      PROVE  KeyPerms(web)[K[i].secret] = RolePerms(web.roles, {K[i].role})
  <2>1. {j \in DOMAIN K : K[j].secret = K[i].secret} = {i}
    BY <1>1 DEF ValidAuth
  <2>2. {K[j].role : j \in {x \in DOMAIN K : K[x].secret = K[i].secret}} = {K[i].role}
    BY <2>1
  <2>3. K[i].secret \in Secrets(K)
    BY <1>1 DEF Secrets
  <2> QED
    BY <2>2, <2>3, Zenon DEF KeyPerms
<1>2. DOMAIN KeyPerms(web) = Secrets(K)
  BY DEF KeyPerms
<1> QED
  BY <1>1, <1>2

\* A request with a secret in force has the rights of its key, every other
\* one what the password, the proxy and the session give it.
LEMMA Rights ==
  ASSUME NEW A, live.web.keys \in Seq(ApiKey(A)), ValidAuth(live.web),
         live.perms = KeyPerms(live.web), live.web.pw.kind \in LiveKinds
  PROVE  /\ \A i \in DOMAIN live.web.keys :
               Authenticate([header |-> live.web.keys[i].secret])
                   = RolePerms(live.web.roles, {live.web.keys[i].role})
         /\ DOMAIN live.perms = Secrets(live.web.keys)
         /\ \A req \in Requests : req.bearer \notin Secrets(live.web.keys) => Authenticate(req) = Granted(req)
<1>1. /\ DOMAIN live.perms = Secrets(live.web.keys)
      /\ \A i \in DOMAIN live.web.keys :
            live.perms[live.web.keys[i].secret] = RolePerms(live.web.roles, {live.web.keys[i].role})
  BY TableOfRights
<1>2. ASSUME NEW i \in DOMAIN live.web.keys
      PROVE  Authenticate([header |-> live.web.keys[i].secret]) = RolePerms(live.web.roles, {live.web.keys[i].role})
  <2>1. live.web.keys[i].secret # None /\ live.web.keys[i].secret \in DOMAIN live.perms
    BY <1>1 DEF ValidAuth, Secrets
  <2>2. [header |-> live.web.keys[i].secret].header = live.web.keys[i].secret
    OBVIOUS
  <2> QED
    BY <1>1, <2>1, <2>2, Zenon DEF Authenticate, AuthAPIKey
<1>3. ASSUME NEW req \in Requests, req.bearer \notin Secrets(live.web.keys)
      PROVE  Authenticate(req) = Granted(req)
  <2>1. AuthAPIKey(req.bearer) = {} /\ req.header = None
    BY <1>1, <1>3 DEF AuthAPIKey, Requests
  <2>2. AllPermissions # {}
    BY DEF AllPermissions
  <2>3. Authenticate(req) = IF ProxyAuth(req) # {} THEN ProxyAuth(req) ELSE SessionAuth(req)
    BY <2>1, Zenon DEF Authenticate
  <2>4. CASE ~Proxied(live.web.pw)
    <3>1. ProxyAuth(req) = {}
      BY <2>4 DEF ProxyAuth, Proxied
    <3>2. SessionAuth(req) = IF req.session THEN AllPermissions ELSE {}
      BY <2>4, Zenon DEF SessionAuth
    <3>3. Granted(req) = IF req.session THEN AllPermissions ELSE {}
      BY <2>4, Zenon DEF Granted
    <3> QED
      BY <2>3, <3>1, <3>2, <3>3, Zenon
  <2>5. CASE Proxied(live.web.pw)
    <3>1. SessionAuth(req) = {}
      BY <2>5, Zenon DEF SessionAuth
    <3>2. CASE ~req.trusted
      <4>1. ProxyAuth(req) = {}
        BY <3>2, Zenon DEF ProxyAuth
      <4>2. Granted(req) = {}
        BY <2>5, <3>2, Zenon DEF Granted
      <4> QED
        BY <2>3, <3>1, <4>1, <4>2, Zenon
    <3>3. CASE req.trusted /\ live.web.pw.kind = "noauth"
      <4>1. ProxyAuth(req) = AllPermissions
        BY <2>5, <3>3 DEF ProxyAuth
      <4>2. "noauth" # "webauth"
        OBVIOUS
      <4>3. Granted(req) = AllPermissions
        BY <2>5, <3>3, <4>2, Zenon DEF Granted
      <4> QED
        BY <2>2, <2>3, <4>1, <4>3, Zenon
    <3>4. CASE req.trusted /\ live.web.pw.kind # "noauth"
      <4>1. live.web.pw.kind = "webauth" /\ "webauth" # "noauth"
        BY <2>5, <3>4 DEF Proxied
      <4>2. ProxyAuth(req) = IF req.user THEN ProxyRolePerms(req) ELSE {}
        BY <2>5, <3>4, <4>1 DEF ProxyAuth
      <4>3. Granted(req) = IF req.user THEN ProxyRolePerms(req) ELSE {}
        BY <2>5, <3>4, <4>1, Zenon DEF Granted, ProxyRolePerms
      <4> QED
        BY <2>3, <3>1, <4>2, <4>3, Zenon
    <3> QED
      BY <3>2, <3>3, <3>4, Zenon
  <2> QED
    BY <2>4, <2>5, Zenon
<1> QED
  BY <1>1, <1>2, <1>3, Zenon

\* Sections to look keys up in, one after the other.
Sources(sources, A) ==
  DOMAIN sources \subseteq Nat /\ \A s \in DOMAIN sources : sources[s].keys \in Seq(ApiKey(A))

\* k is key with the secret it was sent with, or with one that the first
\* source to know its name has under that name.
FilledFrom(k, key, sources) ==
  /\ k.name = key.name /\ k.role = key.role
  /\ \/ /\ key.secret # None \/ \A s \in DOMAIN sources : Named(sources[s], key.name) = {}
        /\ k.secret = key.secret
     \/ /\ key.secret = None
        /\ \E s \in DOMAIN sources : \E j \in DOMAIN sources[s].keys :
              /\ sources[s].keys[j].name = key.name /\ k.secret = sources[s].keys[j].secret
              /\ \A r \in DOMAIN sources : Named(sources[r], key.name) # {} => s <= r

\* Keys sent without their secret are filled in from the first source that
\* knows them.
LEMMA KeptNames ==
  ASSUME NEW A, NEW keys \in Seq(ApiKey(A)), NEW sources, Sources(sources, A)
  PROVE  /\ KeepNamed(keys, sources) \in Seq(ApiKey(A))
         /\ DOMAIN KeepNamed(keys, sources) = DOMAIN keys
         /\ \A i \in DOMAIN keys : FilledFrom(KeepNamed(keys, sources)[i], keys[i], sources)
<1> DEFINE K == KeepNamed(keys, sources)
<1>0. DOMAIN sources \subseteq Nat /\ \A s \in DOMAIN sources : sources[s].keys \in Seq(ApiKey(A))
  BY DEF Sources
<1>1. Len(keys) \in Nat /\ DOMAIN keys = 1..Len(keys)
  BY LenProperties
<1>2. ASSUME NEW i \in DOMAIN keys
      PROVE  K[i] \in ApiKey(A) /\ FilledFrom(K[i], keys[i], sources)
  <2> DEFINE key == keys[i]
        known == {j \in DOMAIN sources : Named(sources[j], key.name) # {}}
        s == CHOOSE j \in known : \A k \in known : j <= k
        web == sources[s]
        j0 == CHOOSE j \in Named(web, key.name) : TRUE
  <2>1. key \in ApiKey(A)
    BY <1>2
  <2>2. CASE key.secret # None \/ known = {}
    <3>1. K[i] = key
      BY <1>2, <2>2, Zenon DEF KeepNamed
    <3> QED
      BY <2>1, <2>2, <3>1 DEF FilledFrom
  <2>3. CASE ~(key.secret # None \/ known = {})
    <3>1. K[i] = [key EXCEPT !.secret = web.keys[j0].secret]
      BY <1>2, <2>3, Zenon DEF KeepNamed
    <3>2. s \in known /\ \A k \in known : s <= k
      <4>0. known \subseteq DOMAIN sources /\ known # {}
        BY <2>3, Zenon
      <4>1. known \in SUBSET Nat /\ known # {}
        <5> HIDE DEF known
        <5> QED
          BY <1>0, <4>0
      <4>2. \E n1 \in known : \A k \in known : n1 <= k
        <5> HIDE DEF known
        <5> QED
          BY <4>1, Least
      <4> HIDE DEF known
      <4> QED
        BY <4>2
    <3>3. s \in DOMAIN sources /\ Named(web, key.name) # {} /\ web.keys \in Seq(ApiKey(A))
      BY <1>0, <3>2
    <3>4. j0 \in Named(web, key.name)
      BY <3>3
    <3>5. j0 \in DOMAIN web.keys /\ web.keys[j0].name = key.name /\ web.keys[j0] \in ApiKey(A)
      <4> HIDE DEF j0, web
      <4> QED
        BY <3>3, <3>4 DEF Named
    <3>6. /\ K[i] \in ApiKey(A) /\ K[i].name = key.name /\ K[i].role = key.role
          /\ K[i].secret = web.keys[j0].secret
      <4> HIDE DEF j0, web, K, key
      <4> QED
        BY <2>1, <3>1, <3>5 DEF ApiKey
    <3>7. key.secret = None /\ \A r \in DOMAIN sources : Named(sources[r], key.name) # {} => s <= r
      <4>1. \A r \in DOMAIN sources : Named(sources[r], key.name) # {} => r \in known
        OBVIOUS
      <4> HIDE DEF known, s
      <4> QED
        BY <2>3, <3>2, <4>1
    <3>8. \E s1 \in DOMAIN sources : \E j \in DOMAIN sources[s1].keys :
              /\ sources[s1].keys[j].name = key.name /\ K[i].secret = sources[s1].keys[j].secret
              /\ \A r \in DOMAIN sources : Named(sources[r], key.name) # {} => s1 <= r
      <4> HIDE DEF j0, s, K
      <4> QED
        BY <3>3, <3>5, <3>6, <3>7
    <3> QED
      BY <3>6, <3>7, <3>8, Zenon DEF FilledFrom
  <2> QED
    BY <2>2, <2>3, Zenon
<1>3. DOMAIN K = DOMAIN keys
  BY DEF KeepNamed
<1>4. K \in Seq(ApiKey(A))
  <2>1. K = [i \in 1..Len(keys) |-> K[i]]
    BY <1>1 DEF KeepNamed
  <2>2. K \in [1..Len(keys) -> ApiKey(A)]
    <3> HIDE DEF K
    <3> QED
      BY <1>1, <1>2, <2>1
  <2> QED
    BY <1>1, <2>2, SeqDef
<1> QED
  BY <1>2, <1>3, <1>4

\* k is key with its own secret, or with the one w has under its name.
OneFilled(k, key, w) ==
  /\ k.name = key.name /\ k.role = key.role
  /\ key.secret # None => k.secret = key.secret
  /\ key.secret = None =>
       \/ \E j \in DOMAIN w.keys : w.keys[j].name = key.name /\ k.secret = w.keys[j].secret
       \/ k.secret = None /\ \A j \in DOMAIN w.keys : w.keys[j].name # key.name

\* k is key with its own secret, or with the one v or w has under its name.
TwoFilled(k, key, v, w) ==
  /\ k.name = key.name /\ k.role = key.role
  /\ key.secret # None => k.secret = key.secret
  /\ key.secret = None =>
       \/ \E j \in DOMAIN v.keys : v.keys[j].name = key.name /\ k.secret = v.keys[j].secret
       \/ \E j \in DOMAIN w.keys : w.keys[j].name = key.name /\ k.secret = w.keys[j].secret
       \/ k.secret = None

\* A key filled in from one section.
LEMMA FromOne ==
  ASSUME NEW k, NEW key, NEW w, FilledFrom(k, key, <<w>>)
  PROVE  OneFilled(k, key, w)
<1>1. DOMAIN <<w>> = {1} /\ <<w>>[1] = w
  OBVIOUS
<1>2. Named(w, key.name) = {} => \A j \in DOMAIN w.keys : w.keys[j].name # key.name
  BY DEF Named
<1> QED
  BY <1>1, <1>2 DEF FilledFrom, OneFilled

\* A key filled in from one section, or else from another.
LEMMA FromTwo ==
  ASSUME NEW k, NEW key, NEW v, NEW w, FilledFrom(k, key, <<v, w>>)
  PROVE  TwoFilled(k, key, v, w)
<1>1. DOMAIN <<v, w>> = {1, 2} /\ <<v, w>>[1] = v /\ <<v, w>>[2] = w
  OBVIOUS
<1> QED
  BY <1>1 DEF FilledFrom, TwoFilled

\* All keys filled in from one section.
LEMMA KeptOne ==
  ASSUME NEW A, NEW keys \in Seq(ApiKey(A)), NEW w, w.keys \in Seq(ApiKey(A)),
         NEW K, K = KeepNamed(keys, <<w>>)
  PROVE  /\ K \in Seq(ApiKey(A)) /\ DOMAIN K = DOMAIN keys
         /\ \A i \in DOMAIN keys : OneFilled(K[i], keys[i], w)
<1> DEFINE sources == <<w>>
<1>1. Sources(sources, A) /\ K = KeepNamed(keys, sources)
  BY DEF Sources
<1>2. /\ KeepNamed(keys, sources) \in Seq(ApiKey(A)) /\ DOMAIN KeepNamed(keys, sources) = DOMAIN keys
      /\ \A i \in DOMAIN keys : FilledFrom(KeepNamed(keys, sources)[i], keys[i], sources)
  <2> HIDE DEF sources
  <2> QED
    BY <1>1, KeptNames
<1> QED
  BY <1>1, <1>2, FromOne

\* All keys filled in from one section, or else from another.
LEMMA KeptTwo ==
  ASSUME NEW A, NEW keys \in Seq(ApiKey(A)), NEW v, v.keys \in Seq(ApiKey(A)), NEW w, w.keys \in Seq(ApiKey(A)),
         NEW K, K = KeepNamed(keys, <<v, w>>)
  PROVE  /\ K \in Seq(ApiKey(A)) /\ DOMAIN K = DOMAIN keys
         /\ \A i \in DOMAIN keys : TwoFilled(K[i], keys[i], v, w)
<1> DEFINE sources == <<v, w>>
<1>1. Sources(sources, A) /\ K = KeepNamed(keys, sources)
  BY DEF Sources
<1>2. /\ KeepNamed(keys, sources) \in Seq(ApiKey(A)) /\ DOMAIN KeepNamed(keys, sources) = DOMAIN keys
      /\ \A i \in DOMAIN keys : FilledFrom(KeepNamed(keys, sources)[i], keys[i], sources)
  <2> HIDE DEF sources
  <2> QED
    BY <1>1, KeptNames
<1> QED
  BY <1>1, <1>2, FromTwo

\* Keys without a secret are dropped, the others stay.
LEMMA Dropped ==
  ASSUME NEW A, NEW K \in Seq(ApiKey(A)), NEW fk, fk = DropEmpty(K)
  PROVE  /\ fk \in Seq(ApiKey(A))
         /\ \A i \in DOMAIN K : K[i].secret # None => \E j \in DOMAIN fk : fk[j] = K[i]
         /\ \A j \in DOMAIN fk : \E i \in DOMAIN K : fk[j] = K[i]
<1> DEFINE kept == {k \in Range(K) : k.secret # None}
      T == ApiKey(A)
<1>1. fk = Only(K, kept)
  BY DEF DropEmpty
<1>2. \A i \in DOMAIN K : K[i].secret # None => K[i] \in kept
  BY Zenon DEF Range
<1> HIDE DEF kept
<1>3. /\ fk \in Seq({x \in T : x \in kept})
      /\ \A i \in DOMAIN K : K[i] \in kept => \E j \in DOMAIN fk : fk[j] = K[i]
      /\ \A j \in DOMAIN fk : \E i \in DOMAIN K : fk[j] = K[i]
  <2>1. K \in Seq(T)
    OBVIOUS
  <2> HIDE DEF T
  <2>2. /\ Only(K, kept) \in Seq({x \in T : x \in kept})
        /\ \A i \in DOMAIN K : K[i] \in kept => \E j \in DOMAIN Only(K, kept) : Only(K, kept)[j] = K[i]
        /\ \A j \in DOMAIN Only(K, kept) : \E i \in DOMAIN K : Only(K, kept)[j] = K[i]
    BY <2>1, OnlyKeeps
  <2> QED
    BY <2>2, <1>1
<1>4. fk \in Seq(T)
  <2> DEFINE R == {x \in T : x \in kept}
  <2>1. R \subseteq T /\ fk \in Seq(R)
    BY <1>3
  <2> HIDE DEF R, T
  <2> QED
    BY <2>1, SeqMonotonic
<1> QED
  BY <1>2, <1>3, <1>4

\* Every key has a secret, which is no reference.
Real(keys) == \A i \in DOMAIN keys : keys[i].secret \notin {None, Ref}

\* fk, for the file, and nk, for what runs, stand for the same key of a form.
Agreeing(e, key, fk, nk, file) ==
  /\ fk.name = key.name /\ nk.name = key.name /\ fk.role = key.role /\ nk.role = key.role
  /\ \/ fk.secret # None /\ Expand(fk.secret) = Expand(nk.secret)
     \/ key.name = e.key.name /\ Expand(nk.secret) = Expand(e.key.secret)
  /\ \A j \in DOMAIN file.keys :
        key.secret = None /\ key.name = file.keys[j].name => fk.secret = file.keys[j].secret

\* The secrets that a save fills in agree: FK is what goes to the file, NK
\* what goes to the running keys before references are read, each from the
\* file's and the running keys.
LEMMA FillsAgree ==
  ASSUME NEW e, NEW key, NEW fk, NEW nk, NEW snap, NEW file,
         OneFilled(fk, key, file), TwoFilled(nk, key, snap, file), nk.secret # None,
         Distinct(file.keys), Linked(e, file.keys, snap.keys),
         Real(snap.keys)
  PROVE  Agreeing(e, key, fk, nk, file)
<1>1. fk.name = key.name /\ nk.name = key.name /\ fk.role = key.role /\ nk.role = key.role
  BY DEF OneFilled, TwoFilled
<1>2. ASSUME NEW j \in DOMAIN file.keys, key.secret = None, key.name = file.keys[j].name
      PROVE  fk.secret = file.keys[j].secret
  BY <1>2 DEF OneFilled, Distinct
<1>3. \/ fk.secret # None /\ Expand(fk.secret) = Expand(nk.secret)
      \/ key.name = e.key.name /\ Expand(nk.secret) = Expand(e.key.secret)
  <2>1. CASE key.secret # None
    BY <2>1 DEF OneFilled, TwoFilled
  <2>2. CASE key.secret = None /\ \E j \in DOMAIN file.keys : file.keys[j].name = key.name /\ nk.secret = file.keys[j].secret
    BY <1>2, <2>2
  <2>3. CASE key.secret = None /\ \E j \in DOMAIN snap.keys : snap.keys[j].name = key.name /\ nk.secret = snap.keys[j].secret
    <3>1. PICK j \in DOMAIN snap.keys : snap.keys[j].name = key.name /\ nk.secret = snap.keys[j].secret
      BY <2>3
    <3>2. nk.secret # None /\ nk.secret # Ref
      BY <3>1 DEF Real
    <3>3. Expand(nk.secret) = nk.secret
      BY <3>2 DEF Expand
    <3>4. CASE \E x \in DOMAIN file.keys : file.keys[x].name = snap.keys[j].name /\ Expand(file.keys[x].secret) = snap.keys[j].secret
      <4>1. PICK x \in DOMAIN file.keys : file.keys[x].name = snap.keys[j].name /\ Expand(file.keys[x].secret) = snap.keys[j].secret
        BY <3>4
      <4>2. fk.secret = file.keys[x].secret
        BY <1>2, <2>3, <3>1, <4>1
      <4>3. Expand(file.keys[x].secret) = None <=> file.keys[x].secret = None
        BY DEF Expand, None, Ref, Content
      <4> QED
        BY <3>1, <3>2, <3>3, <4>1, <4>2, <4>3
    <3>5. CASE snap.keys[j].name = e.key.name /\ snap.keys[j].secret = Expand(e.key.secret)
      BY <3>1, <3>3, <3>5
    <3> QED
      BY <3>4, <3>5 DEF Linked
  <2> QED
    BY <2>1, <2>2, <2>3 DEF TwoFilled
<1> QED
  BY <1>1, <1>2, <1>3 DEF Agreeing

\* A save of keys as sent in a form: fk is what it writes, nk what it puts in
\* force; secrets of the file are in O, all in U.
Saving(e, O, U, keys, file, snap, fk, nk) ==
  /\ O \subseteq U /\ Read(U, U)
  /\ keys \in Seq(ApiKey(O)) /\ file.keys \in Seq(ApiKey(O)) /\ snap.keys \in Seq(ApiKey(U))
  /\ Distinct(file.keys) /\ Linked(e, file.keys, snap.keys) /\ Real(snap.keys)
  /\ fk = DropEmpty(KeepNamed(keys, <<file>>))
  /\ nk = Expanded(KeepNamed(keys, <<snap, file>>))
  /\ \A i \in DOMAIN nk : nk[i].secret # None

\* What a save of the web server section does to the keys, in the file (fk)
\* and in what runs (nk).
LEMMA PutKeys ==
  ASSUME NEW e, NEW O, NEW U, NEW keys, NEW file, NEW snap, NEW fk, NEW nk,
         Saving(e, O, U, keys, file, snap, fk, nk)
  PROVE  /\ fk \in Seq(ApiKey(O)) /\ nk \in Seq(ApiKey(U))
         /\ Linked(e, fk, nk)
         /\ AdminKeys(fk) # {} => AdminKeys(nk) # {}
         /\ FormKept(keys, file.keys, fk, nk)
<1> /\ O \subseteq U /\ Read(U, U)
    /\ keys \in Seq(ApiKey(O)) /\ file.keys \in Seq(ApiKey(O)) /\ snap.keys \in Seq(ApiKey(U))
    /\ Distinct(file.keys) /\ Linked(e, file.keys, snap.keys) /\ Real(snap.keys)
    /\ fk = DropEmpty(KeepNamed(keys, <<file>>))
    /\ nk = Expanded(KeepNamed(keys, <<snap, file>>))
    /\ \A i \in DOMAIN nk : nk[i].secret # None
  BY Zenon DEF Saving
<1>1. PICK FK : FK = KeepNamed(keys, <<file>>)
  OBVIOUS
<1>2. PICK NK : NK = KeepNamed(keys, <<snap, file>>)
  OBVIOUS
<1>3. FK \in Seq(ApiKey(O)) /\ DOMAIN FK = DOMAIN keys /\ \A i \in DOMAIN keys : OneFilled(FK[i], keys[i], file)
  BY <1>1, KeptOne
<1>4. keys \in Seq(ApiKey(U)) /\ file.keys \in Seq(ApiKey(U))
  <2> DEFINE T == ApiKey(O)
        V == ApiKey(U)
  <2>1. T \subseteq V /\ keys \in Seq(T) /\ file.keys \in Seq(T)
    BY DEF ApiKey
  <2> HIDE DEF T, V
  <2>2. keys \in Seq(V) /\ file.keys \in Seq(V)
    BY <2>1, SeqMonotonic
  <2> QED
    BY <2>2 DEF V
<1>5. NK \in Seq(ApiKey(U)) /\ DOMAIN NK = DOMAIN keys /\ \A i \in DOMAIN keys : TwoFilled(NK[i], keys[i], snap, file)
  BY <1>2, <1>4, KeptTwo
<1>6. nk \in Seq(ApiKey(U)) /\ DOMAIN nk = DOMAIN keys
      /\ \A i \in DOMAIN keys : /\ nk[i].name = NK[i].name /\ nk[i].role = NK[i].role
                                /\ nk[i].secret = Expand(NK[i].secret)
  <2> DEFINE X == Expanded(NK)
  <2>1. /\ X \in Seq(ApiKey(U)) /\ DOMAIN X = DOMAIN NK
        /\ \A i \in DOMAIN NK : /\ X[i].name = NK[i].name /\ X[i].role = NK[i].role
                                /\ X[i].secret = Expand(NK[i].secret)
    BY <1>5, ExpandedKeys
  <2> QED
    BY <1>2, <1>5, <2>1
<1>7. /\ fk \in Seq(ApiKey(O))
      /\ \A i \in DOMAIN FK : FK[i].secret # None => \E j \in DOMAIN fk : fk[j] = FK[i]
      /\ \A j \in DOMAIN fk : \E i \in DOMAIN FK : fk[j] = FK[i]
  BY <1>1, <1>3, Dropped
<1>8. ASSUME NEW i \in DOMAIN keys
      PROVE  /\ FK[i].name = keys[i].name /\ nk[i].name = keys[i].name /\ nk[i].role = FK[i].role
             /\ \/ FK[i].secret # None /\ Expand(FK[i].secret) = nk[i].secret
                \/ keys[i].name = e.key.name /\ nk[i].secret = Expand(e.key.secret)
             /\ \A j \in DOMAIN file.keys :
                   keys[i].secret = None /\ keys[i].name = file.keys[j].name => FK[i].secret = file.keys[j].secret
  <2>1. PICK key : key = keys[i]
    OBVIOUS
  <2>2. PICK k : k = FK[i]
    OBVIOUS
  <2>3. PICK l : l = NK[i]
    OBVIOUS
  <2>4. OneFilled(k, key, file) /\ TwoFilled(l, key, snap, file)
    BY <1>3, <1>5, <1>8, <2>1, <2>2, <2>3
  <2>5. l.secret # None
    <3>1. Expand(l.secret) # None
      BY <1>6, <1>8, <2>3
    <3> QED
      BY <3>1 DEF Expand, None, Ref
  <2>6. Agreeing(e, key, k, l, file)
    BY <2>4, <2>5, FillsAgree
  <2> QED
    BY <1>6, <1>8, <2>1, <2>2, <2>3, <2>6 DEF Agreeing
<1>9. Linked(e, fk, nk)
  <2> SUFFICES ASSUME NEW i \in DOMAIN nk
      PROVE  \/ \E j \in DOMAIN fk : fk[j].name = nk[i].name /\ Expand(fk[j].secret) = nk[i].secret
             \/ nk[i].name = e.key.name /\ nk[i].secret = Expand(e.key.secret)
    BY Zenon DEF Linked
  <2>1. i \in DOMAIN keys /\ i \in DOMAIN FK
    BY <1>3, <1>6
  <2>2. CASE FK[i].secret # None /\ Expand(FK[i].secret) = nk[i].secret
    <3>1. PICK j \in DOMAIN fk : fk[j] = FK[i]
      BY <1>7, <2>1, <2>2, Zenon
    <3> QED
      BY <1>8, <2>1, <2>2, <3>1, Zenon
  <2> QED
    BY <1>8, <2>1, <2>2, Zenon
<1>10. AdminKeys(fk) # {} => AdminKeys(nk) # {}
  <2> SUFFICES ASSUME NEW j \in DOMAIN fk, fk[j].role = Admin
      PROVE  \E i \in DOMAIN nk : nk[i].role = Admin
    BY Zenon DEF AdminKeys
  <2>1. PICK i \in DOMAIN FK : fk[j] = FK[i]
    BY <1>7, Zenon
  <2>2. i \in DOMAIN nk /\ nk[i].role = FK[i].role
    BY <1>3, <1>6, <1>8, <2>1
  <2>3. nk[i].role = Admin
    BY <2>1, <2>2, Zenon
  <2> QED
    BY <2>2, <2>3
<1>11. ASSUME NEW i \in DOMAIN keys
       PROVE  /\ keys[i].name \in Names(nk)
              /\ \A j \in DOMAIN file.keys :
                    keys[i].secret = None /\ keys[i].name = file.keys[j].name /\ file.keys[j].secret # None
                       => file.keys[j].secret \in Secrets(fk)
  <2>1. keys[i].name \in Names(nk)
    BY <1>6, <1>8, <1>11, Zenon DEF Names
  <2>2. ASSUME NEW j \in DOMAIN file.keys, keys[i].secret = None, keys[i].name = file.keys[j].name, file.keys[j].secret # None
        PROVE  file.keys[j].secret \in Secrets(fk)
    <3>1. FK[i].secret = file.keys[j].secret /\ i \in DOMAIN FK
      BY <1>3, <1>8, <1>11, <2>2, Zenon
    <3>2. PICK x \in DOMAIN fk : fk[x] = FK[i]
      BY <1>7, <2>2, <3>1, Zenon
    <3> QED
      BY <3>1, <3>2, Zenon DEF Secrets
  <2> QED
    BY <2>1, <2>2, Zenon
<1> QED
  BY <1>6, <1>7, <1>9, <1>10, <1>11, Zenon DEF FormKept

-----------------------------------------------------------------------------
(* Types of what is read and written.                                      *)

\* The general section that runs.
LEMMA GeneralType ==
  ASSUME NEW e, e.general \in General, NEW g \in General
  PROVE  LiveGeneral(e, g) \in General
<1> DEFINE over == [f \in DOMAIN g |-> IF e.general[f] = 0 THEN g[f] ELSE e.general[f]]
           x == [over EXCEPT !.interval = IF @ = 0 THEN 1 ELSE @]
<1>1. DOMAIN g = {"interval", "debug"} /\ g.interval \in Nat /\ g.debug \in Nat
  BY DEF General
<1>2. e.general.interval \in Nat /\ e.general.debug \in Nat
  BY DEF General
<1>3. DOMAIN x = {"interval", "debug"} /\ x.interval \in Nat /\ x.debug \in Nat
  BY <1>1, <1>2
<1>4. x = [interval |-> x.interval, debug |-> x.debug]
  <2>1. x = [f \in {"interval", "debug"} |-> x[f]]
    BY <1>1
  <2> HIDE DEF x
  <2> QED
    BY <1>3, <2>1
<1> HIDE DEF x
<1>5. x \in General
  BY <1>3, <1>4 DEF General
<1> QED
  BY <1>5 DEF LiveGeneral, x

\* A secret stays a string when it is read.
LEMMA ReadStrings == Read(Texts, Texts)
BY ConfigAssumption DEF Read, Expand, ConfigAssumption

\* The instances that run.
LEMMA MapType ==
  ASSUME NEW e, e.maps \in [Lists -> Instances(Texts)], NEW l \in Lists, NEW m \in Instances(Texts)
  PROVE  LiveMap(e, l, m) \in Instances(Texts)
<1>1. ASSUME NEW s \in Slugs
      PROVE  LiveMap(e, l, m)[s] \in [url : Texts, key : Texts]
  <2> DEFINE inst == Overlaid(e, l, m)[s]
  <2>1. inst = [url |-> Over(m[s].url, e.maps[l][s].url), key |-> Expand(Over(m[s].key, e.maps[l][s].key))]
    BY <1>1 DEF Overlaid
  <2>2. /\ m[s].url \in Texts /\ m[s].key \in Texts
        /\ e.maps[l][s].url \in Texts /\ e.maps[l][s].key \in Texts
    BY <1>1 DEF Instances
  <2>3. inst.url \in Texts /\ inst.key \in Texts
    BY <2>1, <2>2, ReadStrings DEF Over, Read
  <2> HIDE DEF inst
  <2>4. LiveMap(e, l, m)[s] = inst \/ LiveMap(e, l, m)[s] = NoInst
    BY <1>1 DEF LiveMap, inst
  <2>5. NoInst \in [url : Texts, key : Texts]
    BY ConfigAssumption DEF NoInst, ConfigAssumption
  <2>6. inst \in [url : Texts, key : Texts]
    BY <2>1, <2>3
  <2> QED
    BY <2>4, <2>5, <2>6
<1>2. LiveMap(e, l, m) = [s \in Slugs |-> LiveMap(e, l, m)[s]]
  BY DEF LiveMap
<1> QED
  BY <1>1, <1>2 DEF Instances

\* The keys of a file under the variables, references read.
LEMMA KeysType ==
  ASSUME NEW e, e.key \in ApiKey(Texts), NEW U, e.key.secret \in U, Read(U, U),
         NEW O, O \subseteq U, NEW keys \in Seq(ApiKey(O))
  PROVE  Expanded(LiveKeys(e, keys)) \in Seq(ApiKey(U))
<1>1. e.key \in ApiKey(U)
  BY DEF ApiKey
<1>2. keys \in Seq(ApiKey(U))
  <2> DEFINE T == ApiKey(O)
        V == ApiKey(U)
  <2>1. T \subseteq V /\ keys \in Seq(T)
    BY DEF ApiKey
  <2> HIDE DEF T, V
  <2>2. keys \in Seq(V)
    BY <2>1, SeqMonotonic
  <2> QED
    BY <2>2 DEF V
<1>3. LiveKeys(e, keys) \in Seq(ApiKey(U))
  <2> DEFINE V == ApiKey(U)
        k == e.key
  <2>1. k \in V /\ keys \in Seq(V)
    BY <1>1, <1>2
  <2>2. LiveKeys(e, keys) = keys \/ LiveKeys(e, keys) = <<k>>
        \/ (keys # <<>> /\ LiveKeys(e, keys) = [keys EXCEPT ![1] = k])
    BY DEF LiveKeys
  <2> HIDE DEF V, k
  <2>3. keys # <<>> => [keys EXCEPT ![1] = k] \in Seq(V)
    BY <2>1
  <2>4. <<k>> \in Seq(V)
    BY <2>1
  <2>5. LiveKeys(e, keys) \in Seq(V)
    BY <2>1, <2>2, <2>3, <2>4, Zenon
  <2> QED
    BY <2>5 DEF V
<1> QED
  BY <1>3, ExpandedKeys

\* What Setups and the variables give, for the environment of the process.
LEMMA Given1 ==
  ASSUME NEW e \in {s.env : s \in Setups}
  PROVE  /\ e.general \in General /\ e.maps \in [Lists -> Instances(Texts)] /\ e.pw \in Password(FileKinds)
         /\ e.key \in ApiKey(Texts)
         /\ e.key.secret \in Given /\ Content \in Given /\ None \in Given /\ Ref \in Given
         /\ \A k \in DOMAIN Fresh : Fresh[k] \notin ForeignTo(e) \union {e.pw.text}
         /\ \A edit \in WebEdits : Secrets(edit.add) \intersect ForeignTo(e) = {} /\ PwOwn(e, edit.pw)
         /\ \A l \in Lists : \A m \in MapBodies[l], g \in Slugs : m[g].key \notin ForeignTo(e)
<1>1. PICK s \in Setups : e = s.env
  OBVIOUS
<1>2. e \in Environment
  BY <1>1, ConfigAssumption DEF ConfigAssumption
<1>3. e.general \in General /\ e.maps \in [Lists -> Instances(Texts)] /\ e.pw \in Password(FileKinds) /\ e.key \in ApiKey(Texts)
  BY <1>2 DEF Environment
<1>4. e.key.secret \in Given /\ Content \in Given /\ None \in Given /\ Ref \in Given
  BY <1>1 DEF Given
<1>5. /\ \A k \in DOMAIN Fresh : Fresh[k] \notin ForeignTo(s.env) \union {s.env.pw.text}
      /\ \A edit \in WebEdits : Secrets(edit.add) \intersect ForeignTo(s.env) = {} /\ PwOwn(s.env, edit.pw)
      /\ \A l \in Lists : \A m \in {s.file.maps[l]} \union MapBodies[l], g \in Slugs : m[g].key \notin ForeignTo(s.env)
  BY InputAssumption, Zenon DEF InputAssumption, InputsAreOwn
<1> QED
  BY <1>1, <1>3, <1>4, <1>5

\* Every used secret is still used when more were made up.
LEMMA UsedGrows ==
  ASSUME NEW m \in Nat, NEW m2 \in Nat, m <= m2, NEW e
  PROVE  Used(m) \subseteq Used(m2) /\ Own(e, m) \subseteq Own(e, m2)
<1>1. 1..m \subseteq 1..m2
  OBVIOUS
<1> QED
  BY <1>1 DEF Used, Own

\* Secrets in force include what is read from other files.
LEMMA UsedRead ==
  ASSUME NEW m \in Nat
  PROVE  Read(Used(m), Used(m)) /\ Read(Given, Used(m))
BY DEF Read, Expand, Used, Given

\* The sections of a list of keys over more and more secrets.
LEMMA KeysGrow ==
  ASSUME NEW A, NEW B, A \subseteq B
  PROVE  Seq(ApiKey(A)) \subseteq Seq(ApiKey(B))
<1> DEFINE T == ApiKey(A)
      V == ApiKey(B)
<1>1. T \subseteq V
  BY DEF ApiKey
<1> HIDE DEF T, V
<1>2. Seq(T) \subseteq Seq(V)
  BY <1>1, SeqMonotonic
<1> QED
  BY <1>2 DEF T, V

\* So do documents, forms, tasks and what is under way.
LEMMA TypesGrow ==
  ASSUME NEW e, NEW m \in Nat, NEW m2 \in Nat, m <= m2, NEW k \in Nat, NEW k2 \in Nat, k <= k2
  PROVE  /\ FileDoc(e, m) \subseteq FileDoc(e, m2)
         /\ \A pws : Web(pws, Used(m)) \subseteq Web(pws, Used(m2))
         /\ Task(k, e, m) \subseteq Task(k2, e, m2)
         /\ Job(k, e, m) \subseteq Job(k2, e, m2)
<1>1. Seq(ApiKey(Used(m))) \subseteq Seq(ApiKey(Used(m2))) /\ Seq(ApiKey(Own(e, m))) \subseteq Seq(ApiKey(Own(e, m2)))
  BY UsedGrows, KeysGrow
<1>2. \A pws : Web(pws, Used(m)) \subseteq Web(pws, Used(m2)) /\ Web(pws, Own(e, m)) \subseteq Web(pws, Own(e, m2))
  BY <1>1 DEF Web
<1>3. FileDoc(e, m) \subseteq FileDoc(e, m2) /\ FileWebs(e, m) \subseteq FileWebs(e, m2)
  BY <1>2 DEF FileDoc, FileWebs, Document
<1>4. Form(e, m) \subseteq Form(e, m2)
  BY <1>1 DEF Form
<1>5. 1..k \subseteq 1..k2
  OBVIOUS
<1>6. /\ GeneralTask(k) \subseteq GeneralTask(k2) /\ MapTask(k, e) \subseteq MapTask(k2, e)
      /\ WebTask(k, e, m) \subseteq WebTask(k2, e, m2)
  BY <1>4, <1>5 DEF GeneralTask, MapTask, WebTask
<1>7. GeneralJob(k) \subseteq GeneralJob(k2)
  BY <1>6 DEF GeneralJob
<1>8. MapJob(k, e) \subseteq MapJob(k2, e)
  BY <1>6 DEF MapJob
<1>9. SnapJob(k, e, m) \subseteq SnapJob(k2, e, m2)
  BY <1>2, <1>6 DEF SnapJob
<1>10. WebJob(k, e, m) \subseteq WebJob(k2, e, m2)
  BY <1>2, <1>3, <1>6 DEF WebJob
<1> QED
  BY <1>2, <1>3, <1>6, <1>7, <1>8, <1>9, <1>10 DEF Task, Job

\* Another password in a document.
LEMMA DocPw ==
  ASSUME NEW e, NEW m, NEW d \in FileDoc(e, m), NEW p, NEW x, x = [d EXCEPT !.web.pw = p]
  PROVE  /\ x.general = d.general /\ x.maps = d.maps /\ x.web.pw = p /\ x.web.keys = d.web.keys
         /\ x.web.listen = d.web.listen /\ x.web = [d.web EXCEPT !.pw = p]
         /\ p \in OwnPw(e, FileKinds) => x \in FileDoc(e, m)
BY DEF FileDoc, Document, Web

\* Other keys in a document.
LEMMA DocKeys ==
  ASSUME NEW e, NEW m, NEW d \in FileDoc(e, m), NEW ks, NEW x, x = [d EXCEPT !.web.keys = ks]
  PROVE  /\ x.general = d.general /\ x.maps = d.maps /\ x.web.pw = d.web.pw /\ x.web.keys = ks
         /\ x.web.listen = d.web.listen
         /\ ks \in Seq(ApiKey(Own(e, m))) => x \in FileDoc(e, m)
BY DEF FileDoc, Document, Web

\* What a document is made of.
LEMMA DocParts ==
  ASSUME NEW e, NEW m, NEW d \in FileDoc(e, m)
  PROVE  /\ d.general \in General /\ d.maps \in [Lists -> Instances(MapKeys(e))]
         /\ d.web \in FileWebs(e, m) /\ d.web.pw \in OwnPw(e, FileKinds) /\ d.web.keys \in Seq(ApiKey(Own(e, m)))
         /\ d = [general |-> d.general, maps |-> d.maps, web |-> d.web]
BY DEF FileDoc, Document, FileWebs, Web

\* Instances of the file are instances.
LEMMA OwnInstances ==
  ASSUME NEW e
  PROVE  Instances(MapKeys(e)) \subseteq Instances(Texts) /\ [Lists -> Instances(MapKeys(e))] \subseteq [Lists -> Instances(Texts)]
<1>1. Instances(MapKeys(e)) \subseteq Instances(Texts)
  BY DEF Instances, MapKeys
<1> QED
  BY <1>1

\* What a start makes of the password it finds.
LEMMA StartPassword ==
  ASSUME env.pw \in Password(FileKinds), NEW p \in OwnPw(env, FileKinds), Fresh[n.made + 1] \in Texts,
         NEW read, read = ReadPw(EnvPw(p)), NEW pw, pw = HashedPw(read)
  PROVE  /\ pw \in LivePw
         /\ \/ pw = read \/ EnvPw(p).kind = "path" \/ env.pw # NoPw
            \/ pw \in OwnPw(env, FileKinds)
         /\ told # None /\ p = Hash(told) /\ env.pw = NoPw => pw = Hash(told) /\ pw = read
<1>1. p \in Password(FileKinds) /\ EnvPw(p) \in Password(FileKinds)
  BY DEF OwnPw, EnvPw
<1>2. read \in Password(FileKinds) /\ read.kind # "path"
  BY <1>1, ConfigAssumption DEF ReadPw, Password, Pw, FileKinds, NoPw, ConfigAssumption
<1>3. pw \in LivePw
  BY <1>2 DEF HashedPw, Hash, Pw, LivePw, LiveKinds, Password, FileKinds, NoPw
<1>4. LivePw \subseteq Password(FileKinds)
  BY DEF LivePw, LiveKinds, FileKinds, Password
<1>5. env.pw = NoPw => pw \in OwnPw(env, FileKinds)
  BY <1>3, <1>4 DEF OwnPw, PwOwn
<1>6. p = Hash(told) /\ env.pw = NoPw => pw = Hash(told) /\ pw = read
  BY <1>1 DEF EnvPw, ReadPw, HashedPw, Hash, Pw
<1> QED
  BY <1>3, <1>5, <1>6

\* What a live password is.
LEMMA LivePws ==
  /\ LivePw \subseteq Password(FileKinds) /\ LivePw \subseteq Password(ClientKinds)
  /\ \A t \in Texts : Hash(t) \in LivePw
  /\ \A e : e.pw = NoPw => LivePw \subseteq OwnPw(e, FileKinds)
  /\ NoPw \in Password(FileKinds)
<1>1. LivePw \subseteq Password(FileKinds) /\ LivePw \subseteq Password(ClientKinds)
  BY DEF LivePw, LiveKinds, FileKinds, Password, ClientKinds
<1>2. \A t \in Texts : Hash(t) \in LivePw
  BY DEF LivePw, LiveKinds, Hash, Pw
<1>3. \A e : e.pw = NoPw => LivePw \subseteq OwnPw(e, FileKinds)
  BY <1>1 DEF OwnPw, PwOwn
<1> QED
  BY <1>1, <1>2, <1>3 DEF Password

\* d counts at least what c counts.
Counts(c, d) == /\ d \in Count /\ c.made <= d.made /\ c.puts <= d.puts
                /\ c.made \in Nat /\ d.made \in Nat /\ c.puts \in Nat /\ d.puts \in Nat

\* Any change of the counters that counts on.
LEMMA CountsOn ==
  ASSUME NEW c \in Count, NEW d,
         d = [puts |-> d.puts, starts |-> d.starts, fails |-> d.fails, tray |-> d.tray,
              resets |-> d.resets, made |-> d.made],
         d.puts \in {c.puts, c.puts + 1}, d.made \in {c.made, c.made + 1},
         d.starts \in Nat, d.fails \in Nat, d.tray \in Nat, d.resets \in Nat
  PROVE  Counts(c, d)
<1>1. c.puts \in Nat /\ c.made \in Nat
  BY DEF Count
<1>2. d.puts \in Nat /\ d.made \in Nat /\ c.made <= d.made /\ c.puts <= d.puts
  BY <1>1
<1>3. d \in Count
  BY <1>2 DEF Count
<1> QED
  BY <1>1, <1>2, <1>3 DEF Counts

\* One counter goes up.
LEMMA CountOne ==
  ASSUME NEW c \in Count, NEW d,
         d \in {[c EXCEPT !.puts = @ + 1], [c EXCEPT !.fails = @ + 1], [c EXCEPT !.tray = @ + 1], c}
  PROVE  Counts(c, d)
<1>1. d = [puts |-> d.puts, starts |-> d.starts, fails |-> d.fails, tray |-> d.tray,
           resets |-> d.resets, made |-> d.made]
  BY DEF Count
<1>2. d.puts \in {c.puts, c.puts + 1} /\ d.made \in {c.made, c.made + 1}
      /\ d.starts \in Nat /\ d.fails \in Nat /\ d.tray \in Nat /\ d.resets \in Nat
  BY DEF Count
<1> QED
  BY <1>1, <1>2, CountsOn

\* d counts one secret more than c, or none, and a start or a reset.
Makes(c, m, x, d) ==
  /\ c \in Count /\ m \in {c.made, c.made + 1} /\ x \in Nat
  /\ \/ d = [c EXCEPT !.starts = x, !.made = m]
     \/ d = [c EXCEPT !.resets = x, !.made = m]
     \/ d = [c EXCEPT !.made = m, !.fails = x]
MakesNot(c, m, x, y, d) ==
  /\ c \in Count /\ m \in {c.made, c.made + 1} /\ x \in Nat /\ y \in Nat
  /\ d = [c EXCEPT !.starts = x, !.made = m, !.fails = y]

\* A start or a reset counts what it made up.
LEMMA CountMade ==
  ASSUME NEW c, NEW m, NEW x, NEW d, Makes(c, m, x, d)
  PROVE  Counts(c, d) /\ d.made = m
<1>1. d = [puts |-> d.puts, starts |-> d.starts, fails |-> d.fails, tray |-> d.tray,
           resets |-> d.resets, made |-> d.made]
  BY DEF Count, Makes
<1>2. d.puts = c.puts /\ d.made = m /\ m \in {c.made, c.made + 1} /\ c \in Count
      /\ d.starts \in Nat /\ d.fails \in Nat /\ d.tray \in Nat /\ d.resets \in Nat
  BY DEF Count, Makes
<1> QED
  BY <1>1, <1>2, CountsOn

\* So does a start that cannot write.
LEMMA CountFailed ==
  ASSUME NEW c, NEW m, NEW x, NEW y, NEW d, MakesNot(c, m, x, y, d)
  PROVE  Counts(c, d) /\ d.made = m
<1>1. d = [puts |-> d.puts, starts |-> d.starts, fails |-> d.fails, tray |-> d.tray,
           resets |-> d.resets, made |-> d.made]
  BY DEF Count, MakesNot
<1>2. d.puts = c.puts /\ d.made = m /\ m \in {c.made, c.made + 1} /\ c \in Count
      /\ d.starts \in Nat /\ d.fails \in Nat /\ d.tray \in Nat /\ d.resets \in Nat
  BY DEF Count, MakesNot
<1> QED
  BY <1>1, <1>2, CountsOn

-----------------------------------------------------------------------------
(* The start.                                                              *)

\* What StartConfig did, with the password pw it made of the one it found.
Started(pw) ==
  /\ phase = "down" /\ UNCHANGED <<env, path, tasks, waiting, job, pending, tray, built, ghosts>>
  /\ live' = [general |-> LiveGeneral(env, disk.general),
              maps |-> [l \in Lists |-> LiveMap(env, l, disk.maps[l])],
              web |-> [disk.web EXCEPT !.pw = pw, !.keys = Expanded(LiveKeys(env, @))],
              perms |-> KeyPerms([disk.web EXCEPT !.pw = pw, !.keys = Expanded(LiveKeys(env, @))])]
  /\ mem' = disk \/ (mem' = [disk EXCEPT !.web.pw = pw] /\ pw \in OwnPw(env, FileKinds))
  /\ disk' = disk \/ (path /\ disk' = mem')
  /\ told # None /\ disk.web.pw = Hash(told) => mem' = disk /\ (env.pw = NoPw => pw = Hash(told))
  /\ phase' \in {"auth", "exited"}
  /\ phase' = "auth" => ValidAuth([disk.web EXCEPT !.pw = pw, !.keys = Expanded(LiveKeys(env, @))])
  /\ Counts(n, n') /\ n'.made < Len(Fresh) /\ n'.puts = n.puts

\* The length of Fresh is a number and what is in it is text.
LEMMA FreshTexts ==
  /\ Len(Fresh) \in Nat
  /\ \A i \in 1..Len(Fresh) : Fresh[i] \in Texts /\ i \in DOMAIN Fresh
BY ConfigAssumption DEF ConfigAssumption

\* A start finds its password, makes up what is missing and checks the rest.
LEMMA StartFacts ==
  ASSUME Values, NEW ok, StartConfig(ok)
  PROVE  \E pw \in LivePw : Started(pw)
<1> DEFINE read == ReadPw(EnvPw(disk.web.pw))
      pw == HashedPw(read)
      keep == pw = read \/ EnvPw(disk.web.pw).kind = "path" \/ env.pw # NoPw
      web == [disk.web EXCEPT !.pw = pw, !.keys = Expanded(LiveKeys(env, @))]
      made == IF read.kind = "none" THEN 1 ELSE 0
<1>1. /\ phase = "down" /\ n.made + 2 <= Len(Fresh)
      /\ mem' = IF keep THEN disk ELSE [disk EXCEPT !.web.pw = pw]
      /\ \/ disk' = (IF path THEN mem' ELSE disk) /\ n' = [n EXCEPT !.starts = @ + 1, !.made = @ + made]
         \/ disk' = disk /\ ~keep /\ n' = [n EXCEPT !.starts = @ + 1, !.made = @ + made, !.fails = @ + 1]
      /\ live' = [general |-> LiveGeneral(env, disk.general),
                  maps |-> [l \in Lists |-> LiveMap(env, l, disk.maps[l])],
                  web |-> web, perms |-> KeyPerms(web)]
      /\ phase' = IF ValidAuth(web) /\ StartAccepts(env, disk.maps) THEN "auth" ELSE "exited"
      /\ UNCHANGED <<env, path, tasks, waiting, job, pending, tray, built, ghosts>>
  BY Zenon DEF StartConfig
<1>2. disk \in FileDoc(env, n.made) /\ env \in {s.env : s \in Setups} /\ n \in Count /\ n.made \in Nat
  BY DEF Values, DocsOK, CountOK, Count
<1>3. disk.web.pw \in OwnPw(env, FileKinds) /\ env.pw \in Password(FileKinds)
  BY <1>2, DocParts, Given1
<1>4. Fresh[n.made + 1] \in Texts
  BY <1>1, <1>2, FreshTexts
<1>5. /\ pw \in LivePw
      /\ keep \/ pw \in OwnPw(env, FileKinds)
      /\ told # None /\ disk.web.pw = Hash(told) /\ env.pw = NoPw => pw = Hash(told) /\ pw = read
  <2>1. PICK p : p = disk.web.pw
    OBVIOUS
  <2>2. PICK r : r = ReadPw(EnvPw(p))
    OBVIOUS
  <2>3. PICK q : q = HashedPw(r)
    OBVIOUS
  <2>4. /\ q \in LivePw
        /\ \/ q = r \/ EnvPw(p).kind = "path" \/ env.pw # NoPw
           \/ q \in OwnPw(env, FileKinds)
        /\ told # None /\ p = Hash(told) /\ env.pw = NoPw => q = Hash(told) /\ q = r
    BY <1>3, <1>4, <2>1, <2>2, <2>3, StartPassword
  <2> QED
    BY <2>1, <2>2, <2>3, <2>4, Zenon
<1>6. Counts(n, n') /\ n'.made < Len(Fresh) /\ n'.puts = n.puts
  <2>1. made \in {0, 1}
    OBVIOUS
  <2>2. PICK k : k = made
    OBVIOUS
  <2>3. PICK m : m = n.made + k
    OBVIOUS
  <2>4. m \in {n.made, n.made + 1} /\ m < Len(Fresh)
    BY <1>1, <1>2, <2>1, <2>2, <2>3, FreshTexts
  <2>5. PICK x : x = n.starts + 1
    OBVIOUS
  <2>6. PICK y : y = n.fails + 1
    OBVIOUS
  <2>7. x \in Nat /\ y \in Nat
    BY <1>2, <2>5, <2>6 DEF Count
  <2>8. n' = [n EXCEPT !.starts = x, !.made = m] \/ n' = [n EXCEPT !.starts = x, !.made = m, !.fails = y]
    BY <1>1, <2>2, <2>3, <2>5, <2>6, Zenon
  <2>9. PICK d : d = n'
    OBVIOUS
  <2>10. Counts(n, d) /\ d.made = m
    <3>1. CASE d = [n EXCEPT !.starts = x, !.made = m]
      <4>1. Makes(n, m, x, d)
        BY <1>2, <2>4, <2>7, <3>1, Zenon DEF Makes
      <4> QED
        BY <4>1, CountMade
    <3>2. CASE d = [n EXCEPT !.starts = x, !.made = m, !.fails = y]
      <4>1. MakesNot(n, m, x, y, d)
        BY <1>2, <2>4, <2>7, <3>2, Zenon DEF MakesNot
      <4> QED
        BY <4>1, CountFailed
    <3> QED
      BY <2>8, <2>9, <3>1, <3>2, Zenon
  <2>11. d.puts = n.puts
    BY <1>2, <2>8, <2>9 DEF Count
  <2> QED
    BY <2>4, <2>9, <2>10, <2>11
<1>7. told # None /\ disk.web.pw = Hash(told) => keep
  BY <1>5, Zenon
<1> HIDE DEF pw, keep, web
<1>8. mem' = disk \/ (mem' = [disk EXCEPT !.web.pw = pw] /\ pw \in OwnPw(env, FileKinds))
  BY <1>1, <1>5, Zenon
<1>9. disk' = disk \/ (path /\ disk' = mem')
  BY <1>1, Zenon
<1>10. told # None /\ disk.web.pw = Hash(told) => mem' = disk /\ (env.pw = NoPw => pw = Hash(told))
  BY <1>1, <1>5, <1>7, Zenon
<1>11. phase' \in {"auth", "exited"} /\ (phase' = "auth" => ValidAuth(web))
  <2>1. "auth" # "exited"
    OBVIOUS
  <2>2. phase' = "auth" => ValidAuth(web)
    BY <1>1, <2>1, Zenon
  <2>3. phase' = "auth" \/ phase' = "exited"
    BY <1>1, Zenon
  <2> QED
    BY <2>2, <2>3
<1> QED
  BY <1>1, <1>5, <1>6, <1>8, <1>9, <1>10, <1>11, Zenon DEF Started, web

\* ks is keys and then key.
Adds(ks, keys, key) ==
  \E z \in DOMAIN ks : /\ z \notin DOMAIN keys /\ ks[z] = key /\ DOMAIN ks = DOMAIN keys \union {z}
                       /\ \A i \in DOMAIN keys : ks[i] = keys[i]

\* Append puts one key at the end.
LEMMA Appended ==
  ASSUME NEW T, NEW keys \in Seq(T), NEW key \in T, NEW ks, ks = Append(keys, key)
  PROVE  ks \in Seq(T) /\ Adds(ks, keys, key)
<1>1. ks \in Seq(T) /\ Len(ks) = Len(keys) + 1 /\ ks[Len(ks)] = key
      /\ \A i \in DOMAIN keys : i \in DOMAIN ks /\ ks[i] = keys[i]
  OBVIOUS
<1>2. DOMAIN ks = DOMAIN keys \union {Len(keys) + 1} /\ Len(keys) + 1 \notin DOMAIN keys
  <2>1. DOMAIN ks = 1..Len(ks) /\ DOMAIN keys = 1..Len(keys) /\ Len(keys) \in Nat
    BY <1>1, LenProperties
  <2> QED
    BY <1>1, <2>1
<1> QED
  BY <1>1, <1>2 DEF Adds

\* The section with other keys.
LEMMA WebKeys ==
  ASSUME NEW P, NEW A, NEW B, NEW web \in Web(P, A), NEW ks, NEW x, x = [web EXCEPT !.keys = ks]
  PROVE  /\ x.keys = ks /\ x.pw = web.pw /\ x.roles = web.roles /\ x.listen = web.listen
         /\ ks \in Seq(ApiKey(B)) => x \in Web(P, B)
BY DEF Web

\* A new admin key beside valid ones.
LEMMA AddedKey ==
  ASSUME NEW web, ValidAuth(web), NEW x, x.roles = web.roles, NEW key, Adds(x.keys, web.keys, key),
         key.role = Admin, key.secret \notin {None, Ref},
         key.name \notin Names(web.keys), key.secret \notin Secrets(web.keys)
  PROVE  ValidAuth(x)
<1> PICK z \in DOMAIN x.keys : /\ z \notin DOMAIN web.keys /\ x.keys[z] = key
                               /\ DOMAIN x.keys = DOMAIN web.keys \union {z}
                               /\ \A i \in DOMAIN web.keys : x.keys[i] = web.keys[i]
  BY DEF Adds
<1>1. \A i \in DOMAIN x.keys : x.keys[i].secret \notin {None, Ref}
                               /\ (x.keys[i].role = Admin \/ x.roles[x.keys[i].role] # {})
  BY DEF ValidAuth
<1>2. \A i \in DOMAIN web.keys : web.keys[i].name # key.name /\ web.keys[i].secret # key.secret
  BY DEF Names, Secrets
<1>3. \A i, j \in DOMAIN x.keys : i # j => x.keys[i].name # x.keys[j].name /\ x.keys[i].secret # x.keys[j].secret
  BY <1>2 DEF ValidAuth
<1> QED
  BY <1>1, <1>3 DEF ValidAuth

\* What a start makes up next is in no key yet.
LEMMA FreshNew ==
  ASSUME NEW m \in Nat, m < Len(Fresh), NEW e \in {s.env : s \in Setups}
  PROVE  /\ Fresh[m + 1] \notin Used(m) /\ Fresh[m + 1] \in Own(e, m + 1) /\ Fresh[m + 1] \notin {None, Ref}
         /\ Fresh[m + 1] \in Texts /\ Fresh[m + 1] # e.pw.text
<1>1. m + 1 \in DOMAIN Fresh /\ Fresh[m + 1] \in Texts /\ \A i \in 1..m : i \in DOMAIN Fresh /\ i # m + 1
  BY FreshTexts
<1>2. Fresh[m + 1] \notin Given /\ \A i \in 1..m : Fresh[m + 1] # Fresh[i]
  BY <1>1, InputAssumption DEF InputAssumption, FreshIsNew
<1>3. Fresh[m + 1] \notin ForeignTo(e) \union {e.pw.text}
  BY <1>1, Given1
<1>4. m + 1 \in 1..(m + 1)
  OBVIOUS
<1> QED
  BY <1>1, <1>2, <1>3, <1>4 DEF Used, Own, Given

\* A free name is in no list of keys.
LEMMA FreeName ==
  ASSUME NEW A, NEW a \in Seq(A), NEW b \in Seq(A), NEW known, known = a \o b, FreeNames(known) # {}
  PROVE  UnusedKeyName(known) \in Texts /\ UnusedKeyName(known) \notin Names(a) /\ UnusedKeyName(known) \notin Names(b)
<1> DEFINE S == FreeNames(known)
      i0 == CHOOSE i \in S : \A j \in S : i <= j
<1>1. S \in SUBSET Nat /\ S # {}
  <2>1. KeyNames \in Seq(Texts)
    BY ConfigAssumption DEF ConfigAssumption
  <2>2. DOMAIN KeyNames = 1..Len(KeyNames) /\ Len(KeyNames) \in Nat
    BY <2>1, LenProperties
  <2> QED
    BY <2>2 DEF FreeNames
<1>2. \E i \in S : \A j \in S : i <= j
  <2> HIDE DEF S
  <2> QED
    BY <1>1, Least
<1>3. i0 \in S
  <2> HIDE DEF S
  <2> QED
    BY <1>2
<1>4. UnusedKeyName(known) = KeyNames[i0]
  BY Zenon DEF UnusedKeyName
<1>5. i0 \in DOMAIN KeyNames /\ KeyNames[i0] \notin Names(known)
  <2> HIDE DEF i0
  <2> QED
    BY <1>3 DEF FreeNames
<1>6. KeyNames[i0] \in Texts
  <2>1. KeyNames \in Seq(Texts)
    BY ConfigAssumption DEF ConfigAssumption
  <2> HIDE DEF i0
  <2> QED
    BY <1>5, <2>1, ElementOfSeq
<1>7. Names(a) \subseteq Names(known) /\ Names(b) \subseteq Names(known)
  <2>1. Len(known) = Len(a) + Len(b) /\ known \in Seq(A) /\ DOMAIN known = 1..Len(known)
        /\ DOMAIN a = 1..Len(a) /\ DOMAIN b = 1..Len(b) /\ Len(a) \in Nat /\ Len(b) \in Nat
    BY LenProperties
  <2>2. \A i \in 1..Len(a) : known[i] = a[i] /\ i \in DOMAIN known
    BY <2>1
  <2>3. \A i \in 1..Len(b) : known[i + Len(a)] = b[i] /\ i + Len(a) \in DOMAIN known
    BY <2>1
  <2>4. \A i \in DOMAIN a : \E j \in DOMAIN known : known[j] = a[i]
    BY <2>1, <2>2
  <2>5. \A i \in DOMAIN b : \E j \in DOMAIN known : known[j] = b[i]
    <3> SUFFICES ASSUME NEW i \in DOMAIN b
        PROVE  \E j \in DOMAIN known : known[j] = b[i]
      OBVIOUS
    <3>1. i \in 1..Len(b)
      BY <2>1
    <3> QED
      BY <2>3, <3>1
  <2>6. Names(a) \subseteq Names(known)
    BY <2>4 DEF Names
  <2>7. Names(b) \subseteq Names(known)
    BY <2>5 DEF Names
  <2> QED
    BY <2>6, <2>7
<1> HIDE DEF i0
<1> QED
  BY <1>4, <1>5, <1>6, <1>7

\* A key that is in the file too, beside keys that are.
LEMMA LinkedAdd ==
  ASSUME NEW e, NEW file, NEW lv, Linked(e, file, lv), NEW lv2, NEW key, Adds(lv2, lv, key),
         NEW file2, \A j \in DOMAIN file : \E i \in DOMAIN file2 : file2[i] = file[j],
         \E j \in DOMAIN file2 : file2[j].name = key.name /\ Expand(file2[j].secret) = key.secret
  PROVE  Linked(e, file2, lv2)
<1> PICK z \in DOMAIN lv2 : /\ z \notin DOMAIN lv /\ lv2[z] = key /\ DOMAIN lv2 = DOMAIN lv \union {z}
                            /\ \A i \in DOMAIN lv : lv2[i] = lv[i]
  BY DEF Adds
<1>1. ASSUME NEW i \in DOMAIN lv
      PROVE  \/ \E j \in DOMAIN file2 : file2[j].name = lv2[i].name /\ Expand(file2[j].secret) = lv2[i].secret
             \/ lv2[i].name = e.key.name /\ lv2[i].secret = Expand(e.key.secret)
  <2>1. lv2[i] = lv[i]
    BY <1>1
  <2>2. CASE \E j \in DOMAIN file : file[j].name = lv[i].name /\ Expand(file[j].secret) = lv[i].secret
    <3>1. PICK j \in DOMAIN file : file[j].name = lv[i].name /\ Expand(file[j].secret) = lv[i].secret
      BY <2>2
    <3>2. PICK x \in DOMAIN file2 : file2[x] = file[j]
      OBVIOUS
    <3> QED
      BY <2>1, <3>1, <3>2
  <2> QED
    BY <1>1, <2>1, <2>2 DEF Linked
<1> QED
  BY <1>1 DEF Linked

\* x is the section web with an admin key at the end.
AdminPut(x, web, key, P, A, B) ==
  /\ A \subseteq B /\ web \in Web(P, A) /\ key \in ApiKey(B) /\ key.role = Admin
  /\ x = [web EXCEPT !.keys = Append(@, key)]

\* An admin key put at the end of the section.
LEMMA AdminAdded ==
  ASSUME NEW P, NEW A, NEW B, NEW web, NEW key, NEW x, AdminPut(x, web, key, P, A, B)
  PROVE  x \in Web(P, B) /\ Adds(x.keys, web.keys, key) /\ AdminKeys(x.keys) # {} /\ x.roles = web.roles
         /\ x.keys \in Seq(ApiKey(B)) /\ x = [web EXCEPT !.keys = x.keys]
<1> A \subseteq B /\ web \in Web(P, A) /\ key \in ApiKey(B) /\ key.role = Admin
    /\ x = [web EXCEPT !.keys = Append(@, key)]
  BY DEF AdminPut
<1>1. web.keys \in Seq(ApiKey(B))
  <2>1. web.keys \in Seq(ApiKey(A))
    BY DEF Web
  <2> QED
    BY <2>1, KeysGrow
<1>2. PICK ks : ks = Append(web.keys, key)
  OBVIOUS
<1>3. ks \in Seq(ApiKey(B)) /\ Adds(ks, web.keys, key)
  <2> DEFINE T == ApiKey(B)
  <2>1. web.keys \in Seq(T) /\ key \in T
    BY <1>1
  <2> HIDE DEF T
  <2>2. ks \in Seq(T) /\ Adds(ks, web.keys, key)
    BY <1>2, <2>1, Appended
  <2> QED
    BY <2>2 DEF T
<1>4. x = [web EXCEPT !.keys = ks]
  BY <1>2
<1>5. x.keys = ks /\ x.roles = web.roles /\ x \in Web(P, B)
  BY <1>3, <1>4 DEF Web
<1>6. AdminKeys(ks) # {}
  BY <1>3 DEF Adds, AdminKeys
<1> QED
  BY <1>3, <1>4, <1>5, <1>6

\* Names stay apart when a new one is added.
LEMMA DistinctAdd ==
  ASSUME NEW keys, Distinct(keys), NEW key, NEW ks, Adds(ks, keys, key), key.name \notin Names(keys)
  PROVE  Distinct(ks)
BY DEF Adds, Distinct, Names

\* The install of an admin key, seen from its parts.
LEMMA Installed ==
  ASSUME Values, NEW key, live' = InstallAdminKey(key), NEW x, x = WithKey(key)
  PROVE  /\ live'.general = live.general /\ live'.maps = live.maps /\ live'.web = x /\ live'.perms = KeyPerms(x)
         /\ live' = [general |-> live'.general, maps |-> live'.maps, web |-> live'.web, perms |-> live'.perms]
<1>1. PICK lv : lv = live
  OBVIOUS
<1>2. PICK p : p = KeyPerms(x)
  OBVIOUS
<1>3. lv = [general |-> lv.general, maps |-> lv.maps, web |-> lv.web, perms |-> lv.perms]
  BY <1>1, Zenon DEF Values, LiveOK
<1>4. PICK y : y = [lv EXCEPT !.web = x, !.perms = p]
  OBVIOUS
<1>5. y = [general |-> lv.general, maps |-> lv.maps, web |-> x, perms |-> p]
  BY <1>3, <1>4
<1>6. live' = y
  BY <1>1, <1>2, <1>4, Zenon DEF InstallAdminKey
<1> QED
  BY <1>1, <1>2, <1>5, <1>6

\* What StartWebServer did to the keys: x is the section in force, d the document.
Keyed(x, d) ==
  /\ live' = [general |-> live.general, maps |-> live.maps, web |-> x, perms |-> KeyPerms(x)]
  /\ x \in Web(LivePw, Used(n'.made)) /\ x = [live.web EXCEPT !.keys = x.keys]
  /\ ValidAuth(x) /\ AdminKeys(x.keys) # {}
  /\ mem' = d /\ d = [mem EXCEPT !.web.keys = d.web.keys]
  /\ d \in FileDoc(env, n'.made) /\ Distinct(d.web.keys) /\ Linked(env, d.web.keys, x.keys)
  /\ disk' = disk \/ (path /\ disk' = d)
  /\ Counts(n, n') /\ n'.made <= Len(Fresh) /\ n'.puts = n.puts

\* What the setup of the admin key starts from.
KeysBefore ==
  /\ Values /\ phase = "auth" /\ live.perms = KeyPerms(live.web) /\ ValidAuth(live.web) /\ live.web.pw \in LivePw
  /\ Distinct(mem.web.keys) /\ Linked(env, mem.web.keys, live.web.keys)

\* The section in force and the document, before.
LEMMA BeforeFacts ==
  ASSUME KeysBefore
  PROVE  /\ live.web \in Web(LivePw, Used(n.made)) /\ mem \in FileDoc(env, n.made)
         /\ live.web.keys \in Seq(ApiKey(Used(n.made))) /\ mem.web.keys \in Seq(ApiKey(Own(env, n.made)))
         /\ live.web = [live.web EXCEPT !.keys = live.web.keys] /\ mem = [mem EXCEPT !.web.keys = mem.web.keys]
         /\ n.made \in Nat /\ n.made < Len(Fresh) /\ n \in Count /\ env \in {s.env : s \in Setups}
         /\ Own(env, n.made) \subseteq Used(n.made)
<1>1. live.web \in Web(Password(FileKinds), Used(n.made)) /\ mem \in FileDoc(env, n.made) /\ live.web.pw \in LivePw
      /\ n.made < Len(Fresh) /\ n \in Count /\ env \in {s.env : s \in Setups}
  BY Zenon DEF KeysBefore, Values, DocsOK, LiveOK, CountOK
<1>2. live.web \in Web(LivePw, Used(n.made)) /\ live.web.keys \in Seq(ApiKey(Used(n.made)))
      /\ live.web = [live.web EXCEPT !.keys = live.web.keys]
  BY <1>1 DEF Web
<1>3. mem.web.keys \in Seq(ApiKey(Own(env, n.made))) /\ mem = [mem EXCEPT !.web.keys = mem.web.keys]
  BY <1>1 DEF FileDoc, Document, Web
<1>4. n.made \in Nat
  BY <1>1 DEF Count
<1>5. Own(env, n.made) \subseteq Used(n.made)
  BY DEF Own
<1> QED
  BY <1>1, <1>2, <1>3, <1>4, <1>5

\* An admin key was in force, or one of the file was adopted.
LEMMA KeysAdopted ==
  ASSUME KeysBefore, NEW ok, SetupAdminAPIKey(ok), AdminKeys(live.web.keys) # {} \/ Adoptable # {}
  PROVE  \E x, d : Keyed(x, d)
<1>1. disk' = disk /\ n' = n /\ mem' = mem
  BY Zenon DEF SetupAdminAPIKey, NoWrite
<1>2. Counts(n, n') /\ n'.made <= Len(Fresh) /\ n'.puts = n.puts
  <2>1. PICK c \in Count : c = n /\ c.made < Len(Fresh) /\ c.made \in Nat
    BY BeforeFacts
  <2>2. Counts(c, c)
    BY CountOne
  <2>3. c.made <= Len(Fresh)
    BY <2>1, FreshTexts
  <2> QED
    BY <1>1, <2>1, <2>2, <2>3, Zenon
<1>3. CASE AdminKeys(live.web.keys) # {}
  <2>1. live' = live
    BY <1>3, Zenon DEF SetupAdminAPIKey
  <2>2. live = [general |-> live.general, maps |-> live.maps, web |-> live.web, perms |-> KeyPerms(live.web)]
    BY Zenon DEF KeysBefore, Values, DocsOK, LiveOK, CountOK
  <2>3. Keyed(live.web, mem)
    BY <1>1, <1>2, <1>3, <2>1, <2>2, BeforeFacts, Zenon DEF Keyed, KeysBefore
  <2> QED
    BY <2>3, Zenon
<1>4. CASE AdminKeys(live.web.keys) = {} /\ Adoptable # {}
  <2> DEFINE i0 == CHOOSE i \in Adoptable : \A j \in Adoptable : i <= j
  <2>1. live' = InstallAdminKey(mem.web.keys[i0])
    BY <1>4, Zenon DEF SetupAdminAPIKey
  <2>2. i0 \in Adoptable
    <3>1. Adoptable \in SUBSET Nat
      <4>1. DOMAIN mem.web.keys \subseteq Nat
        BY BeforeFacts, LenProperties
      <4> QED
        BY <4>1 DEF Adoptable, AdminKeys
    <3>2. \E i \in Adoptable : \A j \in Adoptable : i <= j
      BY <1>4, <3>1, Least
    <3> QED
      BY <3>2
  <2>3. PICK key : key = mem.web.keys[i0]
    OBVIOUS
  <2>4. i0 \in DOMAIN mem.web.keys /\ key.role = Admin /\ ValidAuth(WithKey(key))
    <3> HIDE DEF i0
    <3> QED
      BY <2>2, <2>3 DEF Adoptable, AdminKeys
  <2>5. PICK x : x = WithKey(key)
    OBVIOUS
  <2>6. key \in ApiKey(Own(env, n.made)) /\ key \in ApiKey(Used(n.made))
    <3>1. ApiKey(Own(env, n.made)) \subseteq ApiKey(Used(n.made))
      BY BeforeFacts DEF ApiKey
    <3>2. key \in ApiKey(Own(env, n.made))
      <4> DEFINE T == ApiKey(Own(env, n.made))
      <4>1. mem.web.keys \in Seq(T)
        BY BeforeFacts
      <4> HIDE DEF T, i0
      <4>2. key \in T
        BY <2>3, <2>4, <4>1, ElementOfSeq
      <4> QED
        BY <4>2 DEF T
    <3> QED
      BY <3>1, <3>2
  <2>7. x \in Web(LivePw, Used(n.made)) /\ Adds(x.keys, live.web.keys, key) /\ AdminKeys(x.keys) # {}
        /\ x = [live.web EXCEPT !.keys = x.keys]
    <3>0. PICK U : U = Used(n.made)
      OBVIOUS
    <3>1. PICK w \in Web(LivePw, U) : w = live.web
      BY <3>0, BeforeFacts
    <3>2. x = [w EXCEPT !.keys = Append(@, key)]
      BY <2>5, <3>1 DEF WithKey
    <3>3. U \subseteq U /\ key \in ApiKey(U) /\ key.role = Admin
      BY <2>4, <2>6, <3>0
    <3>4. AdminPut(x, w, key, LivePw, U, U)
      BY <3>2, <3>3, Zenon DEF AdminPut
    <3>5. x \in Web(LivePw, U) /\ Adds(x.keys, w.keys, key) /\ AdminKeys(x.keys) # {} /\ x = [w EXCEPT !.keys = x.keys]
      BY <3>4, AdminAdded
    <3> QED
      BY <3>0, <3>1, <3>5, Zenon
  <2>8. ValidAuth(x)
    BY <2>4, <2>5
  <2>9. key.secret \notin {None, Ref}
    BY <2>7, <2>8 DEF ValidAuth, Adds
  <2>10. Linked(env, mem.web.keys, x.keys)
    <3>1. mem.web.keys[i0].name = key.name /\ Expand(mem.web.keys[i0].secret) = key.secret
      <4> HIDE DEF i0
      <4> QED
        BY <2>3, <2>9 DEF Expand
    <3>2. Linked(env, mem.web.keys, live.web.keys)
      BY DEF KeysBefore
    <3> HIDE DEF i0
    <3> QED
      BY <2>4, <2>7, <3>1, <3>2, LinkedAdd
  <2>11. live' = [general |-> live.general, maps |-> live.maps, web |-> x, perms |-> KeyPerms(x)]
    <3>0. Values /\ live' = InstallAdminKey(key)
      BY <2>1, <2>3 DEF KeysBefore
    <3>1. /\ live'.general = live.general /\ live'.maps = live.maps /\ live'.web = x /\ live'.perms = KeyPerms(x)
          /\ live' = [general |-> live'.general, maps |-> live'.maps, web |-> live'.web, perms |-> live'.perms]
      BY <2>5, <3>0, Installed
    <3> QED
      BY <3>1, Zenon
  <2>12. Keyed(x, mem)
    BY <1>1, <1>2, <2>7, <2>8, <2>10, <2>11, BeforeFacts, Zenon DEF Keyed, KeysBefore
  <2> QED
    BY <2>12, Zenon
<1> QED
  BY <1>3, <1>4, Zenon

\* The counters of a start that made up a key.
LEMMA MadeKeyCounts ==
  ASSUME NEW c \in Count, NEW d, c.made < Len(Fresh), NEW x \in {c.fails, c.fails + 1},
         d = [c EXCEPT !.made = @ + 1, !.fails = x]
  PROVE  Counts(c, d) /\ d.made = c.made + 1 /\ d.made <= Len(Fresh) /\ d.puts = c.puts /\ c.made \in Nat
<1>1. c.made \in Nat /\ c.fails \in Nat
  BY DEF Count
<1>2. PICK m : m = c.made + 1
  OBVIOUS
<1>3. x \in Nat /\ m \in {c.made, c.made + 1}
  BY <1>1, <1>2
<1>4. d = [c EXCEPT !.made = m, !.fails = x]
  BY <1>2
<1>5. Makes(c, m, x, d)
  BY <1>3, <1>4, Zenon DEF Makes
<1>6. Counts(c, d) /\ d.made = m
  BY <1>5, CountMade
<1>7. d.puts = c.puts
  BY <1>4 DEF Count
<1>8. m <= Len(Fresh)
  BY <1>1, <1>2, FreshTexts
<1> QED
  BY <1>1, <1>2, <1>6, <1>7, <1>8

\* A key was made up, with a name and a secret of its own.
LEMMA KeysMade ==
  ASSUME KeysBefore, NEW ok, SetupAdminAPIKey(ok), AdminKeys(live.web.keys) = {}, Adoptable = {}
  PROVE  \E x, d : Keyed(x, d)
<1>1. PICK known : known = live.web.keys \o mem.web.keys
  OBVIOUS
<1>2. PICK key : key = [name |-> UnusedKeyName(known), secret |-> Fresh[n.made + 1], role |-> Admin]
  OBVIOUS
<1>3. PICK fails : fails = IF ok THEN n.fails ELSE n.fails + 1
  OBVIOUS
<1>4. /\ FreeNames(known) # {} /\ live' = InstallAdminKey(key) /\ mem' = [mem EXCEPT !.web.keys = Append(@, key)]
      /\ disk' = IF ok /\ path THEN mem' ELSE disk
      /\ n' = [n EXCEPT !.made = @ + 1, !.fails = fails]
  BY <1>1, <1>2, <1>3, Zenon DEF SetupAdminAPIKey
<1>5. PICK c \in Count : c = n /\ c.made < Len(Fresh) /\ c.made \in Nat
  BY BeforeFacts
<1>6. PICK d : d = n'
  OBVIOUS
<1>7. Counts(c, d) /\ d.made = c.made + 1 /\ d.made <= Len(Fresh) /\ d.puts = c.puts
  <2>1. fails \in {c.fails, c.fails + 1}
    BY <1>3, <1>5
  <2>2. d = [c EXCEPT !.made = @ + 1, !.fails = fails]
    <3>1. n' = [n EXCEPT !.made = @ + 1, !.fails = fails]
      BY <1>4
    <3>2. c = n /\ d = n'
      BY <1>5, <1>6
    <3> QED
      BY <3>1, <3>2
  <2> QED
    BY <1>5, <2>1, <2>2, MadeKeyCounts, Zenon
<1>8. PICK U : U = Used(c.made)
  OBVIOUS
<1>9. PICK V : V = Used(d.made)
  OBVIOUS
<1>10. PICK O : O = Own(env, c.made)
  OBVIOUS
<1>11. PICK Q : Q = Own(env, d.made)
  OBVIOUS
<1>12. U \subseteq V /\ O \subseteq Q /\ Q \subseteq V /\ O \subseteq U
  <2>1. d.made \in Nat /\ c.made <= d.made
    BY <1>7 DEF Counts
  <2> QED
    BY <1>5, <2>1, <1>8, <1>9, <1>10, <1>11, UsedGrows DEF Own
<1>13. /\ live.web \in Web(LivePw, U) /\ live.web.keys \in Seq(ApiKey(U)) /\ mem \in FileDoc(env, c.made)
       /\ mem.web.keys \in Seq(ApiKey(O)) /\ env \in {s.env : s \in Setups}
       /\ mem = [mem EXCEPT !.web.keys = mem.web.keys]
  BY <1>5, <1>8, <1>10, BeforeFacts
<1>14. mem.web.keys \in Seq(ApiKey(Q))
  BY <1>12, <1>13, KeysGrow
<1>15. key.secret \in Q /\ key.secret \notin U /\ key.secret \notin {None, Ref} /\ key.role = Admin
  <2>1. key.secret = Fresh[c.made + 1] /\ key.role = Admin
    BY <1>2, <1>5
  <2> QED
    BY <1>5, <1>7, <1>8, <1>11, <1>13, <2>1, FreshNew
<1>16. key.name \in Texts /\ key.name \notin Names(live.web.keys) /\ key.name \notin Names(mem.web.keys)
  <2>1. key.name = UnusedKeyName(known)
    BY <1>2
  <2>2. live.web.keys \in Seq(ApiKey(U)) /\ mem.web.keys \in Seq(ApiKey(U))
    BY <1>12, <1>13, KeysGrow
  <2> QED
    BY <1>1, <1>4, <2>1, <2>2, FreeName
<1>17. key \in ApiKey(Q) /\ key \in ApiKey(V)
  <2>1. key = [name |-> key.name, secret |-> key.secret, role |-> key.role]
    BY <1>2
  <2> QED
    BY <1>12, <1>15, <1>16, <2>1 DEF ApiKey
<1>18. PICK x : x = WithKey(key)
  OBVIOUS
<1>19. x \in Web(LivePw, V) /\ Adds(x.keys, live.web.keys, key) /\ AdminKeys(x.keys) # {}
       /\ x = [live.web EXCEPT !.keys = x.keys] /\ x.roles = live.web.roles
  <2>1. PICK w : w = live.web
    OBVIOUS
  <2>2. x = [w EXCEPT !.keys = Append(@, key)]
    BY <1>18, <2>1 DEF WithKey
  <2>3. AdminPut(x, w, key, LivePw, U, V)
    BY <1>12, <1>13, <1>15, <1>17, <2>1, <2>2, Zenon DEF AdminPut
  <2>4. x \in Web(LivePw, V) /\ Adds(x.keys, w.keys, key) /\ AdminKeys(x.keys) # {} /\ x = [w EXCEPT !.keys = x.keys]
        /\ x.roles = w.roles
    BY <2>3, AdminAdded
  <2> QED
    BY <2>1, <2>4, Zenon
<1>20. ValidAuth(x)
  <2>1. key.secret \notin Secrets(live.web.keys)
    <3>1. \A i \in DOMAIN live.web.keys : live.web.keys[i] \in ApiKey(U)
      <4> DEFINE T == ApiKey(U)
      <4>1. live.web.keys \in Seq(T)
        BY <1>13
      <4> HIDE DEF T
      <4>2. \A i \in DOMAIN live.web.keys : live.web.keys[i] \in T
        BY <4>1, ElementOfSeq
      <4> QED
        BY <4>2 DEF T
    <3>2. \A i \in DOMAIN live.web.keys : live.web.keys[i].secret \in U
      BY <3>1 DEF ApiKey
    <3> QED
      BY <1>15, <3>2 DEF Secrets
  <2>2. PICK w : w = live.web
    OBVIOUS
  <2>3. ValidAuth(w)
    BY <2>2 DEF KeysBefore
  <2> QED
    BY <1>15, <1>16, <1>19, <2>1, <2>2, <2>3, AddedKey
<1>21. PICK mk : mk = Append(mem.web.keys, key)
  OBVIOUS
<1>22. mk \in Seq(ApiKey(Q)) /\ Adds(mk, mem.web.keys, key)
  <2> DEFINE T == ApiKey(Q)
  <2>1. mem.web.keys \in Seq(T) /\ key \in T
    BY <1>14, <1>17
  <2> HIDE DEF T
  <2>2. mk \in Seq(T) /\ Adds(mk, mem.web.keys, key)
    BY <1>21, <2>1, Appended
  <2> QED
    BY <2>2 DEF T
<1>23. PICK doc : doc = mem'
  OBVIOUS
<1>24. doc = [mem EXCEPT !.web.keys = mk]
  BY <1>4, <1>21, <1>23
<1>25. mem \in FileDoc(env, d.made)
  <2>1. d.made \in Nat /\ c.made <= d.made
    BY <1>7 DEF Counts
  <2>2. FileDoc(env, c.made) \subseteq FileDoc(env, d.made)
    <3>1. PICK z \in Nat : z = 0 /\ z <= z
      OBVIOUS
    <3> QED
      BY <1>5, <2>1, <3>1, TypesGrow
  <2> QED
    BY <1>13, <2>2
<1>26. doc.web.keys = mk /\ doc \in FileDoc(env, d.made)
  <2>1. mk \in Seq(ApiKey(Own(env, d.made)))
    BY <1>11, <1>22
  <2> QED
    BY <1>24, <1>25, <2>1 DEF FileDoc, Document, Web
<1>27. Distinct(mk)
  <2>1. Distinct(mem.web.keys)
    BY DEF KeysBefore
  <2> QED
    BY <1>16, <1>22, <2>1, DistinctAdd
<1>28. Linked(env, mk, x.keys)
  <2>1. Linked(env, mem.web.keys, live.web.keys)
    BY DEF KeysBefore
  <2>2. \A j \in DOMAIN mem.web.keys : \E i \in DOMAIN mk : mk[i] = mem.web.keys[j]
    BY <1>22 DEF Adds
  <2>3. \E j \in DOMAIN mk : mk[j].name = key.name /\ Expand(mk[j].secret) = key.secret
    BY <1>15, <1>22 DEF Adds, Expand
  <2> QED
    BY <1>19, <2>1, <2>2, <2>3, LinkedAdd
<1>29. live' = [general |-> live.general, maps |-> live.maps, web |-> x, perms |-> KeyPerms(x)]
  <2>0. Values /\ live' = InstallAdminKey(key)
    BY <1>4 DEF KeysBefore
  <2>1. /\ live'.general = live.general /\ live'.maps = live.maps /\ live'.web = x /\ live'.perms = KeyPerms(x)
        /\ live' = [general |-> live'.general, maps |-> live'.maps, web |-> live'.web, perms |-> live'.perms]
    BY <1>18, <2>0, Installed
  <2> QED
    BY <2>1, Zenon
<1>30. disk' = disk \/ (path /\ disk' = doc)
  BY <1>4, <1>23, Zenon
<1>31. mem' = doc /\ doc = [mem EXCEPT !.web.keys = doc.web.keys]
  BY <1>23, <1>24, <1>26
<1>32. Keyed(x, doc)
  <2>1. x \in Web(LivePw, Used(n'.made)) /\ doc \in FileDoc(env, n'.made)
    BY <1>6, <1>9, <1>19, <1>26, Zenon
  <2>2. Counts(n, n') /\ n'.made <= Len(Fresh) /\ n'.puts = n.puts
    BY <1>5, <1>6, <1>7, Zenon
  <2>3. Distinct(doc.web.keys) /\ Linked(env, doc.web.keys, x.keys)
    BY <1>26, <1>27, <1>28, Zenon
  <2> QED
    BY <2>1, <2>2, <2>3, <1>19, <1>20, <1>29, <1>30, <1>31, Zenon DEF Keyed
<1> QED
  BY <1>32, Zenon

\* The setup of the admin key, whichever of its three ways it takes.
LEMMA KeysUp ==
  ASSUME KeysBefore, NEW ok, SetupAdminAPIKey(ok)
  PROVE  \E x, d : Keyed(x, d)
<1>1. CASE AdminKeys(live.web.keys) # {} \/ Adoptable # {}
  BY <1>1, KeysAdopted, Zenon
<1>2. CASE AdminKeys(live.web.keys) = {} /\ Adoptable = {}
  BY <1>2, KeysMade, Zenon
<1> QED
  BY <1>1, <1>2, Zenon

-----------------------------------------------------------------------------
(* What is sent and saved.                                                 *)

\* No secret is a secret of the file's own.
LEMMA NoneOwn ==
  ASSUME NEW e \in {s.env : s \in Setups}, NEW m
  PROVE  None \in Own(e, m) /\ NoPw \in OwnPw(e, FileKinds) /\ OwnPw(e, FileKinds) \subseteq OwnPw(e, ClientKinds)
<1>1. None \in Own(e, m)
  BY Given1 DEF Own, Used, ForeignTo
<1>2. FileKinds \subseteq ClientKinds /\ Password(FileKinds) \subseteq Password(ClientKinds)
  BY DEF ClientKinds, Password
<1>3. NoPw \in OwnPw(e, FileKinds)
  BY LivePws DEF OwnPw, PwOwn, NoPw, Pw, Hash
<1> QED
  BY <1>1, <1>2, <1>3 DEF OwnPw

\* The keys an edit adds are the file's own.
LEMMA EditKeys ==
  ASSUME NEW e \in {s.env : s \in Setups}, NEW m, NEW edit \in WebEdits
  PROVE  edit.add \in Seq(ApiKey(Own(e, m)))
<1>1. edit.add \in Seq(ApiKey(Texts))
  BY ConfigAssumption DEF ConfigAssumption, Edit
<1>2. Secrets(edit.add) \intersect ForeignTo(e) = {} /\ Secrets(edit.add) \subseteq Given
  <2>1. Secrets(edit.add) \intersect ForeignTo(e) = {}
    BY Given1
  <2>2. ASSUME NEW y \in Secrets(edit.add)
        PROVE  y \in Given
    <3>1. y \in EditSecrets
      BY DEF EditSecrets
    <3> QED
      BY <3>1 DEF Given
  <2> QED
    BY <2>1, <2>2
<1>3. ASSUME NEW i \in DOMAIN edit.add
      PROVE  edit.add[i] \in ApiKey(Own(e, m))
  <2>1. edit.add[i] \in ApiKey(Texts)
    <3> DEFINE T == ApiKey(Texts)
    <3>1. edit.add \in Seq(T)
      BY <1>1
    <3> HIDE DEF T
    <3>2. edit.add[i] \in T
      BY <3>1, ElementOfSeq
    <3> QED
      BY <3>2 DEF T
  <2>2. edit.add[i].secret \in Secrets(edit.add)
    BY DEF Secrets
  <2>3. edit.add[i].secret \in Own(e, m)
    BY <1>2, <2>2 DEF Own, Used
  <2> QED
    BY <2>1, <2>3 DEF ApiKey
<1>4. Len(edit.add) \in Nat /\ DOMAIN edit.add = 1..Len(edit.add) /\ edit.add = [i \in 1..Len(edit.add) |-> edit.add[i]]
  BY <1>1
<1>5. edit.add \in [1..Len(edit.add) -> ApiKey(Own(e, m))]
  BY <1>3, <1>4
<1> QED
  BY <1>4, <1>5, SeqDef

\* The form a page fills.
LEMMA FormShown ==
  ASSUME NEW A, None \in A, NEW keys \in Seq(ApiKey(A)),
         NEW K, K = [i \in DOMAIN keys |-> [keys[i] EXCEPT !.secret = None]]
  PROVE  K \in Seq(ApiKey(A))
<1>1. Len(keys) \in Nat /\ DOMAIN keys = 1..Len(keys)
  BY LenProperties
<1>2. \A i \in DOMAIN keys : keys[i] \in ApiKey(A)
  OBVIOUS
<1>3. \A i \in DOMAIN keys : K[i] \in ApiKey(A)
  BY <1>2 DEF ApiKey
<1>4. K \in [1..Len(keys) -> ApiKey(A)]
  BY <1>1, <1>3
<1> QED
  BY <1>1, <1>4, SeqDef

\* The keys an edited form has.
LEMMA EditedKeys ==
  ASSUME NEW A, NEW keys \in Seq(ApiKey(A)), NEW kept, NEW add \in Seq(ApiKey(A))
  PROVE  Only(keys, kept) \o add \in Seq(ApiKey(A))
<1> DEFINE T == ApiKey(A)
      R == {x \in T : x \in kept}
<1>1. keys \in Seq(T) /\ add \in Seq(T)
  OBVIOUS
<1> HIDE DEF T
<1>2. Only(keys, kept) \in Seq(R)
  BY <1>1, OnlyKeeps
<1>3. R \subseteq T
  OBVIOUS
<1> HIDE DEF R
<1>4. Only(keys, kept) \in Seq(T)
  BY <1>2, <1>3, SeqMonotonic
<1>5. Only(keys, kept) \o add \in Seq(T)
  BY <1>1, <1>4
<1> QED
  BY <1>5 DEF T

\* What a client may send.
LEMMA SentForm ==
  ASSUME NEW e \in {s.env : s \in Setups}, e = env, NEW m, mem \in FileDoc(e, m), NEW edit \in WebEdits, NEW all
  PROVE  Edited(PublicWeb(all), edit) \in Form(e, m)
<1>1. PICK web \in FileWebs(e, m) : web = mem.web
  BY DocParts
<1>2. PICK form : form = PublicWeb(all)
  OBVIOUS
<1>3. PICK O : O = Own(e, m)
  OBVIOUS
<1>4. web.keys \in Seq(ApiKey(O)) /\ web.pw \in OwnPw(e, FileKinds) /\ web.roles \in [Roles -> SUBSET Perms]
      /\ web.listen \in Texts /\ web.roleHeader \in Texts
      /\ web = [pw |-> web.pw, keys |-> web.keys, roles |-> web.roles, listen |-> web.listen, roleHeader |-> web.roleHeader]
  BY <1>3 DEF FileWebs, Web
<1>5. form.keys \in Seq(ApiKey(O))
  <2>1. PICK K : K = [i \in DOMAIN web.keys |-> [web.keys[i] EXCEPT !.secret = None]]
    OBVIOUS
  <2>2. K \in Seq(ApiKey(O))
    BY <1>3, <1>4, <2>1, NoneOwn, FormShown
  <2>3. form = [web EXCEPT !.keys = IF all THEN @ ELSE K, !.pw = IF @.kind = "plain" THEN NoPw ELSE @]
    BY <1>1, <1>2, <2>1 DEF PublicWeb
  <2> QED
    BY <1>4, <2>2, <2>3
<1>6. /\ form.pw \in OwnPw(e, ClientKinds) /\ form.roles = web.roles /\ form.listen = web.listen
      /\ form.roleHeader = web.roleHeader
  <2>1. form.pw = IF web.pw.kind = "plain" THEN NoPw ELSE web.pw
    BY <1>1, <1>2, <1>4 DEF PublicWeb
  <2>2. form.roles = web.roles /\ form.listen = web.listen /\ form.roleHeader = web.roleHeader
    BY <1>1, <1>2, <1>4 DEF PublicWeb
  <2> QED
    BY <1>4, <2>1, <2>2, NoneOwn
<1>7. /\ edit.pw \in Password(ClientKinds) /\ edit.confirm \in Texts /\ edit.roles \subseteq Perms
      /\ edit.listen \in Texts /\ PwOwn(e, edit.pw) /\ edit.add \in Seq(ApiKey(O))
  BY <1>3, Given1, EditKeys, ConfigAssumption DEF ConfigAssumption, Edit
<1>8. PICK kept : kept = {k \in Range(form.keys) : k.name \notin edit.drop}
  OBVIOUS
<1>9. PICK ks : ks = Only(form.keys, kept) \o edit.add
  OBVIOUS
<1>10. ks \in Seq(ApiKey(O))
  BY <1>5, <1>7, <1>9, EditedKeys
<1>11. PICK body : body = Edited(form, edit)
  OBVIOUS
<1>12. body = [pw |-> IF edit.pw = NoPw THEN form.pw ELSE edit.pw, confirm |-> edit.confirm, keys |-> ks,
               roles |-> IF edit.roles = {} THEN form.roles ELSE [r \in Roles |-> edit.roles],
               listen |-> IF edit.listen = Keep THEN form.listen ELSE edit.listen,
               roleHeader |-> form.roleHeader]
  BY <1>8, <1>9, <1>11 DEF Edited
<1>13. body.pw \in OwnPw(e, ClientKinds)
  BY <1>6, <1>7, <1>12 DEF OwnPw
<1>14. body.roles \in [Roles -> SUBSET Perms] /\ body.listen \in Texts /\ body.roleHeader \in Texts /\ body.confirm \in Texts
  BY <1>4, <1>6, <1>7, <1>12
<1>15. body \in Form(e, m)
  BY <1>3, <1>10, <1>12, <1>13, <1>14 DEF Form
<1> QED
  BY <1>2, <1>11, <1>15

\* The password a save writes, and the one it puts in force.
LEMMA SavedPw ==
  ASSUME NEW e, NEW m, NEW body \in Form(e, m), body.pw.kind # "plain", NEW file, file.pw \in OwnPw(e, FileKinds),
         NEW snap, snap.pw \in LivePw, NEW fp, fp = FileWeb(body, file).pw,
         NEW np, np = IF KeepLivePw(body, file) THEN snap.pw ELSE Normalized(body.pw)
  PROVE  /\ fp \in OwnPw(e, FileKinds) /\ np \in LivePw
         /\ file.pw = snap.pw /\ snap.pw.kind # "path" /\ fp = file.pw => np = snap.pw
<1>1. PICK pw \in OwnPw(e, ClientKinds) : pw = body.pw /\ pw.kind # "plain"
  BY DEF Form
<1>2. /\ pw \in Password(ClientKinds) /\ PwOwn(e, pw)
      /\ pw = NoPw \/ (pw = Pw(pw.kind, pw.text) /\ pw.kind \in ClientKinds \ {"none", "plain"} /\ pw.text \in Texts)
  BY <1>1 DEF OwnPw, Password, Pw
<1>3. fp = CASE pw = NoPw -> file.pw [] pw.kind = "path" -> pw [] pw.kind \notin {"none", "path"} -> Normalized(pw)
  BY <1>1 DEF FileWeb
<1>4. CASE pw = NoPw
  <2>1. np = snap.pw
    BY <1>1, <1>4 DEF KeepLivePw
  <2>2. fp = file.pw
    BY <1>3, <1>4 DEF NoPw, Pw
  <2> QED
    BY <2>1, <2>2
<1>5. CASE pw # NoPw /\ pw.kind = "path"
  <2>1. fp = pw
    BY <1>3, <1>5
  <2>2. pw \in Password(FileKinds)
    BY <1>2, <1>5 DEF Password, FileKinds, Pw
  <2>3. ReadPw(pw) = Pw("plain", Content)
    BY <1>5, Zenon DEF ReadPw
  <2>4. np = Normalized(pw)
    BY <1>1, <1>5, Zenon DEF KeepLivePw
  <2>5. np = Hash(Content)
    BY <1>5, <2>3, <2>4 DEF Normalized, Pw
  <2>6. np \in LivePw
    BY <2>5, LivePws, ConfigAssumption DEF ConfigAssumption
  <2> QED
    BY <1>2, <1>5, <2>1, <2>2, <2>6 DEF OwnPw
<1>6. CASE pw # NoPw /\ pw.kind = "kdf"
  <2>1. fp = Normalized(pw) /\ Normalized(pw) = Hash(pw.text)
    BY <1>3, <1>6 DEF Normalized, ReadPw
  <2>2. Hash(pw.text) \in LivePw /\ pw.text \in Texts
    BY <1>2, <1>6, LivePws
  <2>3. Hash(pw.text) \in Password(FileKinds)
    BY <2>2, LivePws
  <2>4. PwOwn(e, Hash(pw.text))
    BY <1>2, <1>6 DEF PwOwn, Hash, Pw
  <2>5. np = snap.pw \/ np = Normalized(pw)
    BY <1>1, Zenon
  <2>6. KeepLivePw(body, file) => np = snap.pw
    BY Zenon
  <2>7. ~KeepLivePw(body, file) => np = fp
    BY <1>1, <2>1, Zenon
  <2> QED
    BY <2>1, <2>2, <2>3, <2>4, <2>5, <2>6, <2>7 DEF OwnPw
<1>7. CASE pw # NoPw /\ pw.kind \in LiveKinds
  <2>1. fp = pw /\ Normalized(pw) = pw
    BY <1>3, <1>7 DEF Normalized, LiveKinds
  <2>2. pw \in LivePw
    BY <1>2, <1>7 DEF LivePw, Pw
  <2>3. pw \in OwnPw(e, FileKinds)
    BY <1>2, <2>2, LivePws DEF OwnPw
  <2>6. KeepLivePw(body, file) => np = snap.pw
    BY Zenon
  <2>7. ~KeepLivePw(body, file) => np = fp
    BY <1>1, <2>1, Zenon
  <2> QED
    BY <2>1, <2>2, <2>3, <2>6, <2>7
<1>8. pw = NoPw \/ pw.kind = "path" \/ pw.kind = "kdf" \/ pw.kind \in LiveKinds
  BY <1>2 DEF ClientKinds, FileKinds, LiveKinds
<1> QED
  BY <1>4, <1>5, <1>6, <1>7, <1>8

\* A task and what the main loop has made of it.
LEMMA JobCases ==
  ASSUME Values
  PROVE  /\ \/ job = NoJob /\ job.at = "none"
            \/ /\ job \in GeneralJob(n.puts) /\ job.at = "ready" /\ job.task.section = "general"
               /\ job.file \in General /\ job.live \in General
            \/ /\ job \in MapJob(n.puts, env) /\ job.at = "ready" /\ job.task.section \in Lists
               /\ job.file \in Instances(MapKeys(env)) /\ job.live \in Instances(Texts)
            \/ /\ job \in SnapJob(n.puts, env, n.made) /\ job.at = "snapped" /\ job.task.section = "web"
               /\ job.task.body \in Form(env, n.made) /\ job.live \in Web(LivePw, Used(n.made))
            \/ /\ job \in WebJob(n.puts, env, n.made) /\ job.at = "ready" /\ job.task.section = "web"
               /\ job.task.body \in Form(env, n.made)
               /\ job.file \in FileWebs(env, n.made) /\ job.live \in Web(LivePw, Used(n.made))
         /\ job # NoJob => job.task \in Task(n.puts, env, n.made) /\ job.task.id \in 1..n.puts
<1>1. job \in Job(n.puts, env, n.made)
  BY DEF Values, QueueOK
<1>2. CASE job = NoJob
  BY <1>2 DEF NoJob
<1>3. CASE job \in GeneralJob(n.puts)
  BY <1>3 DEF GeneralJob, GeneralTask, Task
<1>4. CASE job \in MapJob(n.puts, env)
  BY <1>4 DEF MapJob, MapTask, Task
<1>5. CASE job \in SnapJob(n.puts, env, n.made)
  BY <1>5 DEF SnapJob, WebTask, Task
<1>6. CASE job \in WebJob(n.puts, env, n.made)
  BY <1>6 DEF WebJob, WebTask, Task
<1> QED
  BY <1>1, <1>2, <1>3, <1>4, <1>5, <1>6, Zenon DEF Job

\* A form that was accepted: file is the section to write, next the one to run.
Checked(file, next) ==
  /\ job' = [at |-> "ready", task |-> job.task, file |-> file, live |-> next, restart |-> WebRestart(mem.web, file)]
  /\ waiting' = waiting
  /\ file \in FileWebs(env, n.made) /\ next \in Web(LivePw, Used(n.made))
  /\ ValidAuth(next) /\ Distinct(file.keys) /\ Linked(env, file.keys, next.keys)
  /\ AdminKeys(file.keys) # {} => AdminKeys(next.keys) # {}
  /\ FormKept(job.task.body.keys, mem.web.keys, file.keys, next.keys)
  /\ mem.web.pw = job.live.pw /\ file.pw = mem.web.pw => next.pw = job.live.pw

\* Names stay as they are when references are read.
LEMMA DistinctExpanded ==
  ASSUME NEW A, NEW keys \in Seq(ApiKey(A)), NEW x, x.keys = Expanded(keys), ValidAuth(x)
  PROVE  Distinct(keys)
<1>1. Read(A, {Expand(a) : a \in A})
  BY DEF Read
<1>2. DOMAIN x.keys = DOMAIN keys /\ \A i \in DOMAIN keys : x.keys[i].name = keys[i].name
  BY <1>1, ExpandedKeys
<1> QED
  BY <1>2 DEF ValidAuth, Distinct

\* A form that is checked is turned away or becomes sections of their types.
LEMMA CheckFacts ==
  ASSUME Values, Accounts, KeysHold, CheckWebserver
  PROVE  (job' = NoJob /\ waiting' \subseteq waiting) \/ \E file, next : Checked(file, next)
<1>1. PICK body : body = job.task.body
  OBVIOUS
<1>2. PICK cur : cur = mem.web
  OBVIOUS
<1>3. PICK snap : snap = job.live
  OBVIOUS
<1>4. PICK file : file = FileWeb(body, cur)
  OBVIOUS
<1>5. PICK next : next = NextWeb(body, snap, cur)
  OBVIOUS
<1>6. job.at = "snapped" /\ Running
  BY Zenon DEF CheckWebserver
<1>7. CASE /\ body.pw.kind # "plain" /\ Confirmed(body, cur) /\ ValidAuth(next)
           /\ ValidAuth([file EXCEPT !.keys = Expanded(@)])
  <2>1. job' = [at |-> "ready", task |-> job.task, file |-> file, live |-> next, restart |-> WebRestart(mem.web, file)]
        /\ waiting' = waiting
    BY <1>1, <1>2, <1>3, <1>4, <1>5, <1>7, Zenon DEF CheckWebserver
  <2>2. PICK O : O = Own(env, n.made)
    OBVIOUS
  <2>3. PICK U : U = Used(n.made)
    OBVIOUS
  <2>4. mem \in FileDoc(env, n.made) /\ n \in Count /\ live.web \in Web(Password(FileKinds), U)
    BY <2>3 DEF Values, DocsOK, CountOK, LiveOK
  <2>5. O \subseteq U /\ Read(U, U)
    <3>1. n.made \in Nat
      BY <2>4 DEF Count
    <3> QED
      BY <2>2, <2>3, <3>1, UsedRead DEF Own
  <2>6. cur.keys \in Seq(ApiKey(O)) /\ cur.pw \in OwnPw(env, FileKinds)
    BY <1>2, <2>2, <2>4, DocParts
  <2>7. body \in Form(env, n.made) /\ snap \in Web(LivePw, U)
    BY <1>1, <1>3, <1>6, <2>3, JobCases
  <2>8. body.keys \in Seq(ApiKey(O)) /\ snap.keys \in Seq(ApiKey(U)) /\ snap.pw \in LivePw
        /\ body.roles \in [Roles -> SUBSET Perms] /\ body.listen \in Texts /\ body.roleHeader \in Texts
    BY <2>2, <2>7 DEF Form, Web
  <2>9. Distinct(cur.keys) /\ Linked(env, cur.keys, snap.keys) /\ Real(snap.keys)
    <3>1. Alive
      BY <1>6 DEF Running, Alive
    <3>2. Distinct(cur.keys) /\ Linked(env, cur.keys, live.web.keys) /\ snap.keys = live.web.keys
      BY <1>2, <1>3, <1>6, <3>1, Zenon DEF KeysHold, DistinctOK, LinkOK, JobKeys
    <3>3. Real(live.web.keys)
      BY <3>1 DEF Accounts, ValidAuth, Real
    <3> QED
      BY <3>2, <3>3, Zenon
  <2>10. PICK fk : fk = DropEmpty(KeepNamed(body.keys, <<cur>>))
    OBVIOUS
  <2>11. PICK nk : nk = Expanded(KeepNamed(body.keys, <<snap, cur>>))
    OBVIOUS
  <2>12. PICK fp : fp = FileWeb(body, cur).pw
    OBVIOUS
  <2>13. PICK np : np = IF KeepLivePw(body, cur) THEN snap.pw ELSE Normalized(body.pw)
    OBVIOUS
  <2>14. file = [pw |-> fp, keys |-> fk, roles |-> body.roles, listen |-> body.listen, roleHeader |-> body.roleHeader]
    BY <1>4, <2>10, <2>12 DEF FileWeb
  <2>15. next = [pw |-> np, keys |-> nk, roles |-> body.roles, listen |-> live.web.listen, roleHeader |-> body.roleHeader]
    BY <1>5, <2>11, <2>13 DEF NextWeb
  <2>16. \A i \in DOMAIN nk : nk[i].secret # None
    BY <1>7, <2>15 DEF ValidAuth
  <2>17. /\ fk \in Seq(ApiKey(O)) /\ nk \in Seq(ApiKey(U)) /\ Linked(env, fk, nk)
         /\ AdminKeys(fk) # {} => AdminKeys(nk) # {}
         /\ FormKept(body.keys, cur.keys, fk, nk)
    <3>1. Saving(env, O, U, body.keys, cur, snap, fk, nk)
      BY <2>5, <2>6, <2>8, <2>9, <2>10, <2>11, <2>16, Zenon DEF Saving
    <3> QED
      BY <3>1, PutKeys
  <2>18. fp \in OwnPw(env, FileKinds) /\ np \in LivePw /\ (cur.pw = snap.pw /\ snap.pw.kind # "path" /\ fp = cur.pw => np = snap.pw)
    BY <1>7, <2>6, <2>7, <2>8, <2>12, <2>13, SavedPw
  <2>19. snap.pw.kind # "path"
    BY <2>8 DEF LivePw, LiveKinds
  <2>20. live.web.listen \in Texts
    BY <2>4 DEF Web
  <2>21. file \in FileWebs(env, n.made)
    BY <2>2, <2>8, <2>14, <2>17, <2>18 DEF FileWebs, Web
  <2>22. next \in Web(LivePw, U)
    BY <2>8, <2>15, <2>17, <2>18, <2>20 DEF Web
  <2>23. Distinct(file.keys)
    <3>1. PICK x : x = [file EXCEPT !.keys = Expanded(@)]
      OBVIOUS
    <3>2. x.keys = Expanded(fk) /\ file.keys = fk
      BY <2>14, <3>1
    <3>3. ValidAuth(x)
      BY <1>7, <3>1
    <3> QED
      BY <2>17, <3>2, <3>3, DistinctExpanded
  <2>24. file.keys = fk /\ next.keys = nk /\ file.pw = fp /\ next.pw = np
    BY <2>14, <2>15
  <2>25. Checked(file, next)
    BY <1>1, <1>2, <1>3, <1>7, <2>1, <2>3, <2>17, <2>18, <2>19, <2>21, <2>22, <2>23, <2>24, Zenon DEF Checked
  <2> QED
    BY <2>25, Zenon
<1>8. CASE ~(/\ body.pw.kind # "plain" /\ Confirmed(body, cur) /\ ValidAuth(next)
             /\ ValidAuth([file EXCEPT !.keys = Expanded(@)]))
  <2>1. Reply(job.task.id)
    BY <1>1, <1>2, <1>3, <1>4, <1>5, <1>8, Zenon DEF CheckWebserver
  <2> QED
    BY <2>1 DEF Reply
<1> QED
  BY <1>7, <1>8, Zenon

\* What a save makes of the document, d, and of what runs, lv.
Saved(d, lv) ==
  /\ job # NoJob /\ job.at = "ready" /\ d \in FileDoc(env, n.made) /\ LiveOK(n.made, lv)
  /\ \/ /\ job.task.section = "general" /\ d.general = job.file /\ d.maps = mem.maps /\ d.web = mem.web
        /\ lv.general = job.live /\ lv.maps = live.maps /\ lv.web = live.web /\ lv.perms = live.perms
     \/ /\ job.task.section \in Lists /\ d.general = mem.general /\ d.web = mem.web
        /\ d.maps = [mem.maps EXCEPT ![job.task.section] = job.file]
        /\ lv.maps = [live.maps EXCEPT ![job.task.section] = job.live]
        /\ lv.general = live.general /\ lv.web = live.web /\ lv.perms = live.perms
     \/ /\ job.task.section = "web" /\ d.general = mem.general /\ d.maps = mem.maps /\ d.web = job.file
        /\ lv.general = live.general /\ lv.maps = live.maps /\ lv.web = job.live /\ lv.perms = KeyPerms(job.live)
        /\ lv.web.pw \in LivePw

\* A section is staged in memory, and its live values are applied, alone.
LEMMA GeneralSection ==
  ASSUME NEW sec, sec = "general", NEW x
  PROVE  Staged(sec, x) = [mem EXCEPT !.general = x] /\ ApplyLive(sec, x) = [live EXCEPT !.general = x]
<1>1. "general" \notin Lists /\ "general" # "web"
  BY DEF Lists
<1> QED
  BY <1>1 DEF Staged, ApplyLive

LEMMA ListSection ==
  ASSUME NEW sec, sec \in Lists, NEW x
  PROVE  Staged(sec, x) = [mem EXCEPT !.maps[sec] = x] /\ ApplyLive(sec, x) = [live EXCEPT !.maps[sec] = x]
<1>1. sec # "general" /\ sec # "web"
  BY DEF Lists
<1> QED
  BY <1>1 DEF Staged, ApplyLive

LEMMA WebSection ==
  ASSUME NEW sec, sec = "web", NEW x
  PROVE  /\ Staged(sec, x) = [mem EXCEPT !.web = x]
         /\ ApplyLive(sec, x) = [live EXCEPT !.web = x, !.perms = KeyPerms(x)]
<1>1. "web" \notin Lists /\ "general" # "web"
  BY DEF Lists
<1> QED
  BY <1>1 DEF Staged, ApplyLive

\* A save changes one section.
LEMMA SavedFacts ==
  ASSUME Values, job.at = "ready", NEW d, d = Staged(job.task.section, job.file),
         NEW lv, lv = ApplyLive(job.task.section, job.live)
  PROVE  Saved(d, lv)
<1>1. PICK j : j = job
  OBVIOUS
<1>s. PICK sec : sec = j.task.section
  OBVIOUS
<1>f. PICK f : f = j.file
  OBVIOUS
<1>v. PICK v : v = j.live
  OBVIOUS
<1>d. d = Staged(sec, f) /\ lv = ApplyLive(sec, v)
  BY <1>1, <1>s, <1>f, <1>v, Zenon
<1>2. PICK m \in FileDoc(env, n.made) : m = mem
  BY DEF Values, DocsOK
<1>3. PICK l : l = live
  OBVIOUS
<1>4. LiveOK(n.made, l) /\ job # NoJob
  BY <1>3 DEF Values, NoJob
<1>5. m.general \in General /\ m.maps \in [Lists -> Instances(MapKeys(env))] /\ m.web \in FileWebs(env, n.made)
      /\ m = [general |-> m.general, maps |-> m.maps, web |-> m.web]
  BY DocParts
<1>6. l = [general |-> l.general, maps |-> l.maps, web |-> l.web, perms |-> l.perms]
      /\ l.general \in General /\ l.maps \in [Lists -> Instances(Texts)] /\ l.web \in Web(Password(FileKinds), Used(n.made))
  BY <1>4 DEF LiveOK
<1>7. CASE j.task.section = "general" /\ j.file \in General /\ j.live \in General
  <2>1. d = [m EXCEPT !.general = j.file]
    <3>1. sec = "general"
      BY <1>7, <1>s
    <3>2. Staged(sec, f) = [mem EXCEPT !.general = f]
      BY <3>1, GeneralSection
    <3> QED
      BY <1>2, <1>d, <1>s, <1>f, <3>2
  <2>2. lv = [l EXCEPT !.general = j.live]
    <3>1. sec = "general"
      BY <1>7, <1>s
    <3>2. ApplyLive(sec, v) = [live EXCEPT !.general = v]
      BY <3>1, GeneralSection
    <3> QED
      BY <1>3, <1>d, <1>s, <1>v, <3>2
  <2>3. d = [general |-> j.file, maps |-> m.maps, web |-> m.web]
    BY <1>5, <2>1
  <2>4. lv = [general |-> j.live, maps |-> l.maps, web |-> l.web, perms |-> l.perms]
    BY <1>6, <2>2
  <2>5. d \in FileDoc(env, n.made)
    BY <1>5, <1>7, <2>3 DEF FileDoc, Document, FileWebs
  <2>6. LiveOK(n.made, lv)
    BY <1>6, <1>7, <2>4 DEF LiveOK
  <2>7. d.general = j.file /\ d.maps = m.maps /\ d.web = m.web
        /\ lv.general = j.live /\ lv.maps = l.maps /\ lv.web = l.web /\ lv.perms = l.perms
    BY <2>3, <2>4
  <2> QED
    BY <1>1, <1>2, <1>3, <1>4, <1>7, <2>5, <2>6, <2>7, Zenon DEF Saved
<1>8. CASE j.task.section \in Lists /\ j.file \in Instances(MapKeys(env)) /\ j.live \in Instances(Texts)
  <2>0. j.task.section # "general"
    BY <1>8 DEF Lists
  <2>1. d = [m EXCEPT !.maps[j.task.section] = j.file]
    <3>1. sec \in Lists
      BY <1>8, <1>s
    <3>2. Staged(sec, f) = [mem EXCEPT !.maps[sec] = f]
      BY <3>1, ListSection
    <3> QED
      BY <1>2, <1>d, <1>s, <1>f, <3>2
  <2>2. lv = [l EXCEPT !.maps[j.task.section] = j.live]
    <3>1. sec \in Lists
      BY <1>8, <1>s
    <3>2. ApplyLive(sec, v) = [live EXCEPT !.maps[sec] = v]
      BY <3>1, ListSection
    <3> QED
      BY <1>3, <1>d, <1>s, <1>v, <3>2
  <2>3. PICK ms : ms = [m.maps EXCEPT ![j.task.section] = j.file]
    OBVIOUS
  <2>4. PICK ls : ls = [l.maps EXCEPT ![j.task.section] = j.live]
    OBVIOUS
  <2>5. d = [general |-> m.general, maps |-> ms, web |-> m.web]
    BY <1>5, <2>1, <2>3
  <2>6. lv = [general |-> l.general, maps |-> ls, web |-> l.web, perms |-> l.perms]
    BY <1>6, <2>2, <2>4
  <2>7. ms \in [Lists -> Instances(MapKeys(env))] /\ ls \in [Lists -> Instances(Texts)]
    BY <1>5, <1>6, <1>8, <2>3, <2>4
  <2>8. d \in FileDoc(env, n.made)
    BY <1>5, <2>5, <2>7 DEF FileDoc, Document, FileWebs
  <2>9. LiveOK(n.made, lv)
    BY <1>6, <2>6, <2>7 DEF LiveOK
  <2>10. d.general = m.general /\ d.maps = ms /\ d.web = m.web
        /\ lv.general = l.general /\ lv.maps = ls /\ lv.web = l.web /\ lv.perms = l.perms
    BY <2>5, <2>6
  <2> QED
    BY <1>1, <1>2, <1>3, <1>4, <1>8, <2>3, <2>4, <2>8, <2>9, <2>10, Zenon DEF Saved
<1>9. CASE j.task.section = "web" /\ j.file \in FileWebs(env, n.made) /\ j.live \in Web(LivePw, Used(n.made))
  <2>0. j.task.section \notin Lists
    BY <1>9 DEF Lists
  <2>1. d = [m EXCEPT !.web = j.file]
    <3>1. sec = "web"
      BY <1>9, <1>s
    <3>2. Staged(sec, f) = [mem EXCEPT !.web = f]
      BY <3>1, WebSection
    <3> QED
      BY <1>2, <1>d, <1>s, <1>f, <3>2
  <2>2. PICK p : p = KeyPerms(j.live)
    OBVIOUS
  <2>3. lv = [l EXCEPT !.web = j.live, !.perms = p]
    <3>1. sec = "web"
      BY <1>9, <1>s
    <3>2. ApplyLive(sec, v) = [live EXCEPT !.web = v, !.perms = KeyPerms(v)]
      BY <3>1, WebSection
    <3> QED
      BY <1>3, <1>d, <1>s, <1>v, <2>2, <3>2
  <2>4. d = [general |-> m.general, maps |-> m.maps, web |-> j.file]
    BY <1>5, <2>1
  <2>5. lv = [general |-> l.general, maps |-> l.maps, web |-> j.live, perms |-> p]
    BY <1>6, <2>3
  <2>6. j.live \in Web(Password(FileKinds), Used(n.made)) /\ j.live.pw \in LivePw
    BY <1>9, LivePws DEF Web
  <2>7. d \in FileDoc(env, n.made)
    BY <1>5, <1>9, <2>4 DEF FileDoc, Document, FileWebs
  <2>8. LiveOK(n.made, lv)
    BY <1>6, <2>5, <2>6 DEF LiveOK
  <2>9. d.general = m.general /\ d.maps = m.maps /\ d.web = j.file
        /\ lv.general = l.general /\ lv.maps = l.maps /\ lv.web = j.live /\ lv.perms = p
    BY <2>4, <2>5
  <2> QED
    BY <1>1, <1>2, <1>3, <1>4, <1>9, <2>2, <2>6, <2>7, <2>8, <2>9, Zenon DEF Saved
<1>10. \/ j.task.section = "general" /\ j.file \in General /\ j.live \in General
       \/ j.task.section \in Lists /\ j.file \in Instances(MapKeys(env)) /\ j.live \in Instances(Texts)
       \/ j.task.section = "web" /\ j.file \in FileWebs(env, n.made) /\ j.live \in Web(LivePw, Used(n.made))
  <2>1. job.at # "none" /\ job.at # "snapped"
    OBVIOUS
  <2> QED
    BY <1>1, <2>1, JobCases, Zenon
<1> QED
  BY <1>7, <1>8, <1>9, <1>10

-----------------------------------------------------------------------------
(* The types hold at every step.                                           *)

\* What was of its type still is when more was counted.
LEMMA Grown ==
  ASSUME NEW e, NEW c, NEW c2, Counts(c, c2)
  PROVE  /\ \A d, f : DocsOK(e, c.made, d, f) => DocsOK(e, c2.made, d, f)
         /\ \A lv : LiveOK(c.made, lv) => LiveOK(c2.made, lv)
         /\ \A ts, ws, j : QueueOK(e, c, ts, ws, j) /\ c2.puts <= MaxPuts => QueueOK(e, c2, ts, ws, j)
<1>1. PICK m \in Nat : m = c.made
  BY DEF Counts
<1>2. PICK m2 \in Nat : m2 = c2.made /\ m <= m2
  BY <1>1 DEF Counts
<1>3. PICK k \in Nat : k = c.puts
  BY DEF Counts
<1>4. PICK k2 \in Nat : k2 = c2.puts /\ k <= k2
  BY <1>3 DEF Counts
<1>5. /\ FileDoc(e, m) \subseteq FileDoc(e, m2)
      /\ \A pws : Web(pws, Used(m)) \subseteq Web(pws, Used(m2))
      /\ Task(k, e, m) \subseteq Task(k2, e, m2)
      /\ Job(k, e, m) \subseteq Job(k2, e, m2)
  BY <1>2, <1>4, TypesGrow
<1>6. ASSUME NEW d, NEW f, DocsOK(e, c.made, d, f)
      PROVE  DocsOK(e, c2.made, d, f)
  BY <1>1, <1>2, <1>5, <1>6 DEF DocsOK
<1>7. ASSUME NEW lv, LiveOK(c.made, lv)
      PROVE  LiveOK(c2.made, lv)
  BY <1>1, <1>2, <1>5, <1>7 DEF LiveOK
<1>8. ASSUME NEW ts, NEW ws, NEW j, QueueOK(e, c, ts, ws, j), c2.puts <= MaxPuts
      PROVE  QueueOK(e, c2, ts, ws, j)
  <2>1. /\ ts \in Seq(Task(k, e, m)) /\ Len(ts) <= k /\ ws \subseteq 1..k /\ j \in Job(k, e, m)
    BY <1>1, <1>3, <1>8, Zenon DEF QueueOK
  <2>2. PICK A : A = Task(k, e, m)
    OBVIOUS
  <2>3. PICK B : B = Task(k2, e, m2)
    OBVIOUS
  <2>4. ts \in Seq(A) /\ A \subseteq B
    BY <1>5, <2>1, <2>2, <2>3
  <2>5. ts \in Seq(B) /\ Len(ts) \in Nat
    BY <2>4, SeqMonotonic, LenProperties
  <2>6. Len(ts) <= k2 /\ ws \subseteq 1..k2 /\ j \in Job(k2, e, m2)
    BY <1>4, <1>5, <2>1, <2>5
  <2> QED
    BY <1>2, <1>4, <1>8, <2>3, <2>5, <2>6, Zenon DEF QueueOK
<1> QED
  BY <1>6, <1>7, <1>8, Zenon

\* What was true of what did not change.
LEMMA ValuesFacts ==
  ASSUME Values
  PROVE  /\ env \in {s.env : s \in Setups} /\ n \in Count /\ n.made \in Nat /\ n.puts \in Nat /\ n.fails \in Nat
         /\ n.tray \in Nat /\ n.resets \in Nat /\ n.puts <= MaxPuts /\ n.made <= Len(Fresh)
         /\ disk \in FileDoc(env, n.made) /\ mem \in FileDoc(env, n.made)
         /\ live.web \in Web(Password(FileKinds), Used(n.made))
BY DEF Values, DocsOK, LiveOK, QueueOK, CountOK, Count

\* StartConfig.
LEMMA ValuesStart ==
  ASSUME Values, NEW pw \in LivePw, Started(pw)
  PROVE  Values'
<1>1. Counts(n, n') /\ n'.made < Len(Fresh) /\ n'.puts = n.puts
  BY Zenon DEF Started
<1>2. PICK c : c = n'
  OBVIOUS
<1>3. c \in Count /\ c.made \in Nat /\ c.puts = n.puts /\ c.made < Len(Fresh) /\ Counts(n, c)
  BY <1>1, <1>2 DEF Counts
<1>4. DocsOK(env, c.made, disk, mem) /\ QueueOK(env, c, tasks, waiting, job)
  <2>1. DocsOK(env, n.made, disk, mem) /\ QueueOK(env, n, tasks, waiting, job) /\ c.puts <= MaxPuts
    BY <1>3, ValuesFacts DEF Values
  <2> QED
    BY <1>3, <2>1, Grown
<1>5. PICK d \in FileDoc(env, c.made) : d = disk
  BY <1>4 DEF DocsOK
<1>6. PICK x : x = [d EXCEPT !.web.pw = pw]
  OBVIOUS
<1>7. pw \in OwnPw(env, FileKinds) => x \in FileDoc(env, c.made)
  BY <1>6, DocPw
<1>8. mem' \in FileDoc(env, c.made)
  <2>1. mem' = d \/ (mem' = x /\ pw \in OwnPw(env, FileKinds))
    BY <1>5, <1>6, Zenon DEF Started
  <2> QED
    BY <1>5, <1>7, <2>1, Zenon
<1>9. disk' \in FileDoc(env, c.made)
  <2>1. disk' = d \/ disk' = mem'
    BY <1>5, Zenon DEF Started
  <2> QED
    BY <1>5, <1>8, <2>1, Zenon
<1>10. d.general \in General /\ d.maps \in [Lists -> Instances(MapKeys(env))] /\ d.web \in FileWebs(env, c.made)
       /\ d.web.keys \in Seq(ApiKey(Own(env, c.made)))
  BY <1>5, DocParts
<1>11. env.general \in General /\ env.maps \in [Lists -> Instances(Texts)] /\ env.key \in ApiKey(Texts)
       /\ env.key.secret \in Used(c.made) /\ env \in {s.env : s \in Setups}
  <2>1. env \in {s.env : s \in Setups}
    BY ValuesFacts
  <2> QED
    BY <2>1, Given1 DEF Used
<1>12. LiveGeneral(env, d.general) \in General
  BY <1>10, <1>11, GeneralType
<1>13. \A l \in Lists : LiveMap(env, l, d.maps[l]) \in Instances(Texts)
  <2> SUFFICES ASSUME NEW l \in Lists
      PROVE  LiveMap(env, l, d.maps[l]) \in Instances(Texts)
    OBVIOUS
  <2>1. PICK mp : mp = d.maps[l]
    OBVIOUS
  <2>2. mp \in Instances(Texts)
    BY <1>10, <2>1, OwnInstances
  <2> QED
    BY <1>11, <2>1, <2>2, MapType
<1>14. PICK ks : ks = Expanded(LiveKeys(env, d.web.keys))
  OBVIOUS
<1>15. ks \in Seq(ApiKey(Used(c.made)))
  <2>1. Read(Used(c.made), Used(c.made))
    BY <1>3, UsedRead
  <2>2. Own(env, c.made) \subseteq Used(c.made)
    BY DEF Own
  <2> QED
    BY <1>10, <1>11, <1>14, <2>1, <2>2, KeysType
<1>16. PICK w : w = [d.web EXCEPT !.pw = pw, !.keys = ks]
  OBVIOUS
<1>17. w \in Web(Password(FileKinds), Used(c.made))
  <2>1. pw \in Password(FileKinds)
    BY LivePws
  <2> QED
    BY <1>10, <1>15, <1>16, <2>1 DEF FileWebs, Web
<1>18. PICK lv : lv = live'
  OBVIOUS
<1>19. PICK ms : ms = [l \in Lists |-> LiveMap(env, l, d.maps[l])]
  OBVIOUS
<1>20. PICK g : g = LiveGeneral(env, d.general)
  OBVIOUS
<1>21. lv = [general |-> g, maps |-> ms, web |-> w, perms |-> KeyPerms(w)]
  <2>1. w = [disk.web EXCEPT !.pw = pw, !.keys = Expanded(LiveKeys(env, @))]
    BY <1>5, <1>14, <1>16, Zenon
  <2>2. live' = [general |-> LiveGeneral(env, disk.general),
                 maps |-> [l \in Lists |-> LiveMap(env, l, disk.maps[l])],
                 web |-> [disk.web EXCEPT !.pw = pw, !.keys = Expanded(LiveKeys(env, @))],
                 perms |-> KeyPerms([disk.web EXCEPT !.pw = pw, !.keys = Expanded(LiveKeys(env, @))])]
    BY Zenon DEF Started
  <2> QED
    BY <1>5, <1>18, <1>19, <1>20, <2>1, <2>2, Zenon
<1>22. g \in General /\ ms \in [Lists -> Instances(Texts)]
  BY <1>12, <1>13, <1>19, <1>20
<1>23. LiveOK(c.made, lv)
  <2>1. PICK p : p = KeyPerms(w)
    OBVIOUS
  <2>2. lv = [general |-> g, maps |-> ms, web |-> w, perms |-> p]
    BY <1>21, <2>1
  <2> QED
    BY <1>17, <1>22, <2>2 DEF LiveOK
<1>24. phase' \in {"auth", "exited"} /\ UNCHANGED <<env, tasks, waiting, job, tray, told>>
  BY Zenon DEF Started, ghosts
<1>25. CountOK(c, phase')
  <2>1. phase' \in Phases
    BY <1>24 DEF Phases
  <2>2. c.made <= Len(Fresh)
    BY <1>3, FreshTexts
  <2> QED
    BY <1>3, <2>1, <2>2 DEF CountOK
<1>26. DocsOK(env, c.made, disk', mem')
  BY <1>4, <1>8, <1>9, Zenon DEF DocsOK
<1>27. tray' \in TraySteps /\ told' \in Texts
  BY <1>24 DEF Values
<1>28. DocsOK(env', n'.made, disk', mem') /\ QueueOK(env', n', tasks', waiting', job')
  BY <1>2, <1>4, <1>24, <1>26, Zenon
<1>29. LiveOK(n'.made, live') /\ CountOK(n', phase')
  BY <1>2, <1>18, <1>23, <1>25, Zenon
<1> QED
  BY <1>27, <1>28, <1>29, Zenon DEF Values

\* StartWebServer.
LEMMA ValuesUp ==
  ASSUME Values, NEW x, NEW d, Keyed(x, d), phase' = "up", UNCHANGED <<env, tasks, waiting, job, tray, told>>
  PROVE  Values'
<1>1. PICK c : c = n'
  OBVIOUS
<1>2. Counts(n, c) /\ c.made <= Len(Fresh) /\ c.puts = n.puts
  BY <1>1, Zenon DEF Keyed
<1>3. DocsOK(env, c.made, disk, mem) /\ QueueOK(env, c, tasks, waiting, job)
  <2>1. DocsOK(env, n.made, disk, mem) /\ QueueOK(env, n, tasks, waiting, job) /\ c.puts <= MaxPuts
    BY <1>2, ValuesFacts DEF Values
  <2> QED
    BY <1>2, <2>1, Grown
<1>4. d \in FileDoc(env, c.made) /\ mem' = d /\ (disk' = disk \/ disk' = d)
  BY <1>1, Zenon DEF Keyed
<1>5. DocsOK(env, c.made, disk', mem')
  BY <1>3, <1>4, Zenon DEF DocsOK
<1>6. PICK lv : lv = live'
  OBVIOUS
<1>7. PICK p : p = KeyPerms(x)
  OBVIOUS
<1>8. lv = [general |-> live.general, maps |-> live.maps, web |-> x, perms |-> p]
  BY <1>6, <1>7, Zenon DEF Keyed
<1>9. x \in Web(LivePw, Used(c.made))
  BY <1>1, Zenon DEF Keyed
<1>10. x \in Web(Password(FileKinds), Used(c.made))
  BY <1>9, LivePws DEF Web
<1>11. LiveOK(c.made, lv)
  <2>1. live.general \in General /\ live.maps \in [Lists -> Instances(Texts)]
    BY DEF Values, LiveOK
  <2> QED
    BY <1>8, <1>10, <2>1 DEF LiveOK
<1>12. CountOK(c, phase')
  BY <1>2 DEF CountOK, Counts, Phases
<1>13. DocsOK(env', n'.made, disk', mem') /\ QueueOK(env', n', tasks', waiting', job')
  BY <1>1, <1>3, <1>5, Zenon
<1>14. LiveOK(n'.made, live') /\ CountOK(n', phase')
  BY <1>1, <1>6, <1>11, <1>12, Zenon
<1>15. tray' \in TraySteps /\ told' \in Texts
  BY DEF Values
<1> QED
  BY <1>13, <1>14, <1>15, Zenon DEF Values

\* ResetUIPassword.
LEMMA ValuesReset ==
  ASSUME Values, ResetUIPassword
  PROVE  Values'
<1>1. PICK c : c = n'
  OBVIOUS
<1>2. PICK k \in Count : k = n /\ k.made \in Nat /\ k.made + 3 <= Len(Fresh)
  BY ValuesFacts DEF ResetUIPassword
<1>3. PICK t : t = Fresh[k.made + 1]
  OBVIOUS
<1>4. /\ disk' = [disk EXCEPT !.web.pw = Hash(t)] /\ c = [k EXCEPT !.resets = @ + 1, !.made = @ + 1] /\ told' = t
      /\ UNCHANGED <<env, mem, live, phase, tasks, waiting, job, tray>>
  BY <1>1, <1>2, <1>3, Zenon DEF ResetUIPassword
<1>5. Counts(k, c) /\ c.made = k.made + 1 /\ c.puts = k.puts
  <2>1. PICK m : m = k.made + 1
    OBVIOUS
  <2>2. PICK x : x = k.resets + 1
    OBVIOUS
  <2>3. x \in Nat /\ m \in {k.made, k.made + 1}
    BY <1>2, <2>1, <2>2 DEF Count
  <2>4. c = [k EXCEPT !.resets = x, !.made = m]
    BY <1>4, <2>1, <2>2
  <2>5. Makes(k, m, x, c)
    BY <2>3, <2>4, Zenon DEF Makes
  <2>6. Counts(k, c) /\ c.made = m
    BY <2>5, CountMade
  <2>7. c.puts = k.puts
    BY <2>4 DEF Count
  <2> QED
    BY <2>1, <2>6, <2>7
<1>6. /\ DocsOK(env, c.made, disk, mem) /\ QueueOK(env, c, tasks, waiting, job) /\ LiveOK(c.made, live)
  <2>1. DocsOK(env, k.made, disk, mem) /\ QueueOK(env, k, tasks, waiting, job) /\ LiveOK(k.made, live) /\ c.puts <= MaxPuts
    BY <1>2, <1>5, ValuesFacts DEF Values
  <2> QED
    BY <1>5, <2>1, Grown
<1>7. t \in Texts /\ Hash(t) \in OwnPw(env, FileKinds)
  <2>1. env \in {s.env : s \in Setups} /\ k.made < Len(Fresh)
    BY <1>2, FreshTexts, ValuesFacts
  <2>2. t \in Texts /\ t # env.pw.text
    BY <1>2, <1>3, <2>1, FreshNew
  <2>3. Hash(t) \in Password(FileKinds)
    BY <2>2, LivePws
  <2>4. PwOwn(env, Hash(t))
    BY <2>2 DEF PwOwn, Hash, Pw
  <2> QED
    BY <2>2, <2>3, <2>4 DEF OwnPw
<1>8. PICK d \in FileDoc(env, c.made) : d = disk
  BY <1>6 DEF DocsOK
<1>9. PICK x : x = [d EXCEPT !.web.pw = Hash(t)]
  OBVIOUS
<1>10. x \in FileDoc(env, c.made)
  BY <1>7, <1>9, DocPw
<1>11. DocsOK(env, c.made, disk', mem')
  BY <1>4, <1>6, <1>8, <1>9, <1>10, Zenon DEF DocsOK
<1>12. CountOK(c, phase')
  <2>1. phase \in Phases
    BY DEF Values, CountOK
  <2>2. c.made < Len(Fresh) /\ c.made <= Len(Fresh)
    BY <1>2, <1>5, FreshTexts
  <2> QED
    BY <1>4, <1>5, <2>1, <2>2 DEF CountOK, Counts
<1>13. DocsOK(env', n'.made, disk', mem') /\ QueueOK(env', n', tasks', waiting', job')
  BY <1>1, <1>4, <1>6, <1>11, Zenon
<1>14. LiveOK(n'.made, live') /\ CountOK(n', phase')
  BY <1>1, <1>4, <1>6, <1>12, Zenon
<1>15. tray' \in TraySteps /\ told' \in Texts
  BY <1>4, <1>7 DEF Values
<1> QED
  BY <1>13, <1>14, <1>15, Zenon DEF Values

\* A counter of the environment went up: all else is as it was.
LEMMA CountedOn ==
  ASSUME Values, NEW c, c = n',
         n' \in {[n EXCEPT !.puts = @ + 1], [n EXCEPT !.fails = @ + 1], [n EXCEPT !.tray = @ + 1], n}
  PROVE  /\ Counts(n, c) /\ c.made = n.made /\ CountOK(c, phase)
         /\ c.puts \in {n.puts, n.puts + 1}
         /\ DocsOK(env, c.made, disk, mem) /\ LiveOK(c.made, live)
         /\ c.puts <= MaxPuts => QueueOK(env, c, tasks, waiting, job)
<1>1. PICK k \in Count : k = n
  BY ValuesFacts
<1>2. c \in {[k EXCEPT !.puts = @ + 1], [k EXCEPT !.fails = @ + 1], [k EXCEPT !.tray = @ + 1], k}
  BY <1>1, Zenon
<1>3. c.made = k.made /\ c.puts \in {k.puts, k.puts + 1}
  BY <1>2 DEF Count
<1>4. Counts(k, c)
  BY <1>2, CountOne
<1>5. DocsOK(env, k.made, disk, mem) /\ QueueOK(env, k, tasks, waiting, job) /\ LiveOK(k.made, live) /\ CountOK(k, phase)
  BY <1>1 DEF Values
<1>6. CountOK(c, phase)
  BY <1>3, <1>4, <1>5 DEF CountOK, Counts
<1>7. DocsOK(env, c.made, disk, mem) /\ LiveOK(c.made, live)
      /\ (c.puts <= MaxPuts => QueueOK(env, c, tasks, waiting, job))
  BY <1>4, <1>5, Grown
<1> QED
  BY <1>1, <1>3, <1>4, <1>6, <1>7

\* The Send actions: the task is of its type.
LEMMA ValuesSend ==
  ASSUME Values, NEW sec, NEW body, Send(sec, body),
         NEW t, t = [id |-> n.puts + 1, section |-> sec, body |-> body], t \in Task(n.puts + 1, env, n.made)
  PROVE  Values'
<1>1. PICK c : c = n'
  OBVIOUS
<1>2. /\ phase = "up" /\ n.puts < MaxPuts /\ n' = [n EXCEPT !.puts = @ + 1] /\ tasks' = Append(tasks, t)
      /\ waiting' = waiting \union {n.puts + 1}
      /\ UNCHANGED <<env, disk, mem, live, phase, job, tray, told>>
  BY Zenon DEF Send, store, ghosts
<1>3. /\ Counts(n, c) /\ c.made = n.made /\ CountOK(c, phase)
      /\ DocsOK(env, c.made, disk, mem) /\ LiveOK(c.made, live)
      /\ c.puts <= MaxPuts => QueueOK(env, c, tasks, waiting, job)
  BY <1>1, <1>2, CountedOn
<1>4. c.puts = n.puts + 1 /\ c.puts <= MaxPuts /\ n.puts \in Nat
  <2>1. MaxPuts \in Nat
    BY ConfigAssumption DEF ConfigAssumption
  <2>2. n \in Count /\ n.puts \in Nat
    BY ValuesFacts
  <2>3. c.puts = n.puts + 1
    BY <1>1, <1>2, <2>2 DEF Count
  <2> QED
    BY <1>2, <2>1, <2>2, <2>3
<1>5. QueueOK(env, c, tasks', waiting', job)
  <2>1. PICK A : A = Task(c.puts, env, c.made)
    OBVIOUS
  <2>2. tasks \in Seq(A) /\ waiting \subseteq 1..c.puts /\ job \in Job(c.puts, env, c.made)
    BY <1>3, <1>4, <2>1 DEF QueueOK
  <2>3. Len(tasks) <= n.puts
    BY DEF Values, QueueOK
  <2>4. t \in A
    BY <1>3, <1>4, <2>1
  <2>5. tasks' \in Seq(A) /\ Len(tasks') = Len(tasks) + 1 /\ Len(tasks) \in Nat
    BY <1>2, <2>2, <2>4
  <2>6. Len(tasks') <= c.puts
    BY <1>4, <2>3, <2>5
  <2>7. waiting' \subseteq 1..c.puts
    BY <1>2, <1>4, <2>2
  <2> QED
    BY <1>4, <2>1, <2>2, <2>5, <2>6, <2>7, Zenon DEF QueueOK
<1>6. DocsOK(env', n'.made, disk', mem') /\ QueueOK(env', n', tasks', waiting', job')
  BY <1>1, <1>2, <1>3, <1>5, Zenon
<1>7. LiveOK(n'.made, live') /\ CountOK(n', phase')
  BY <1>1, <1>2, <1>3, Zenon
<1>8. tray' \in TraySteps /\ told' \in Texts
  BY <1>2 DEF Values
<1> QED
  BY <1>6, <1>7, <1>8, Zenon DEF Values

\* What a step leaves alone keeps its type.
LEMMA ValuesFrame ==
  ASSUME Values, UNCHANGED <<env, n>>,
         disk' \in FileDoc(env, n.made), mem' \in FileDoc(env, n.made), LiveOK(n.made, live'),
         QueueOK(env, n, tasks', waiting', job'), CountOK(n, phase'), tray' \in TraySteps, told' \in Texts
  PROVE  Values'
<1>1. DocsOK(env', n'.made, disk', mem')
  BY Zenon DEF Values, DocsOK
<1>2. LiveOK(n'.made, live') /\ CountOK(n', phase') /\ QueueOK(env', n', tasks', waiting', job')
  BY Zenon
<1> QED
  BY <1>1, <1>2, Zenon DEF Values

\* SendGeneral, SendMap and SendWebserver.
LEMMA ValuesSent ==
  ASSUME Values, SendGeneral \/ SendMap \/ SendWebserver
  PROVE  Values'
<1>1. PICK k \in Nat : k = n.puts
  BY ValuesFacts
<1>2. PICK e \in {s.env : s \in Setups} : e = env
  BY ValuesFacts
<1>3. k + 1 \in 1..(k + 1)
  OBVIOUS
<1>4. CASE SendGeneral
  <2>1. PICK g \in GeneralBodies : Send("general", g)
    BY <1>4 DEF SendGeneral
  <2>2. PICK t : t = [id |-> k + 1, section |-> "general", body |-> g]
    OBVIOUS
  <2>3. g \in General
    BY ConfigAssumption DEF ConfigAssumption
  <2>4. t \in Task(k + 1, e, n.made)
    BY <1>3, <2>2, <2>3 DEF Task, GeneralTask
  <2> QED
    BY <1>1, <1>2, <2>1, <2>2, <2>4, ValuesSend
<1>5. CASE SendMap
  <2>1. PICK l \in Lists : \E b \in MapBodies[l] : Send(l, b)
    BY <1>5 DEF SendMap
  <2>2. PICK b \in MapBodies[l] : Send(l, b)
    BY <2>1
  <2>3. PICK t : t = [id |-> k + 1, section |-> l, body |-> b]
    OBVIOUS
  <2>4. b \in Instances(Texts)
    BY ConfigAssumption DEF ConfigAssumption
  <2>5. \A g \in Slugs : b[g].key \notin ForeignTo(e)
    BY Given1
  <2>6. b \in Instances(MapKeys(e))
    BY <2>4, <2>5 DEF Instances, MapKeys
  <2>7. t \in Task(k + 1, e, n.made)
    BY <1>3, <2>3, <2>6 DEF Task, MapTask
  <2> QED
    BY <1>1, <1>2, <2>2, <2>3, <2>7, ValuesSend
<1>6. CASE SendWebserver
  <2>1. PICK all \in BOOLEAN, edit \in WebEdits : Send("web", Edited(PublicWeb(all), edit))
    BY <1>6 DEF SendWebserver
  <2>2. PICK body : body = Edited(PublicWeb(all), edit)
    OBVIOUS
  <2>3. PICK t : t = [id |-> k + 1, section |-> "web", body |-> body]
    OBVIOUS
  <2>4. body \in Form(e, n.made)
    BY <1>2, <2>2, ValuesFacts, SentForm
  <2>5. t \in Task(k + 1, e, n.made)
    BY <1>3, <2>3, <2>4 DEF Task, WebTask
  <2>6. Send("web", body)
    BY <2>1, <2>2, Zenon
  <2> QED
    BY <1>1, <1>2, <2>3, <2>5, <2>6, ValuesSend
<1> QED
  BY <1>4, <1>5, <1>6

\* What the main loop makes of the task t it takes.
Taken(t) ==
  /\ t \in Task(n.puts, env, n.made) /\ t = Head(tasks) /\ tasks # <<>> /\ tasks' = Tail(tasks)
  /\ \/ /\ t \in GeneralTask(n.puts) /\ t.section = "general" /\ UNCHANGED <<waiting, raced>>
        /\ job' = [at |-> "ready", task |-> t, file |-> t.body, live |-> LiveGeneral(env, t.body),
                   restart |-> GeneralRestart(LiveGeneral(env, t.body))]
     \/ /\ t \in MapTask(n.puts, env) /\ t.section \in Lists /\ UNCHANGED <<waiting, raced>>
        /\ job' = [at |-> "ready", task |-> t, file |-> t.body, live |-> LiveMap(env, t.section, t.body),
                   restart |-> t.section = "folder"]
     \/ t \in MapTask(n.puts, env) /\ job' = NoJob /\ waiting' \subseteq waiting /\ UNCHANGED raced
     \/ /\ t \in WebTask(n.puts, env, n.made) /\ t.section = "web" /\ waiting' = waiting
        /\ job' = [at |-> "snapped", task |-> t, live |-> live.web] /\ raced' = (raced \/ tray.at # "none")

\* The task is the first of the queue, of one of three sorts.
LEMMA TakeFacts ==
  ASSUME Values, TakeTask
  PROVE  \E t : Taken(t)
<1>1. PICK t : t = Head(tasks)
  OBVIOUS
<1>2. PICK A : A = Task(n.puts, env, n.made)
  OBVIOUS
<1>3. tasks \in Seq(A) /\ tasks # <<>> /\ tasks' = Tail(tasks)
  BY <1>2 DEF Values, QueueOK, TakeTask
<1>4. t \in A
  BY <1>1, <1>3
<1>5. CASE \E x : x \in GeneralTask(n.puts) /\ x = t
  <2>1. t \in GeneralTask(n.puts) /\ t.section = "general"
    BY <1>5 DEF GeneralTask
  <2>2. PutGeneral(t)
    BY <1>1, <2>1 DEF TakeTask, Lists
  <2>3. job' = [at |-> "ready", task |-> t, file |-> t.body, live |-> LiveGeneral(env, t.body),
                restart |-> GeneralRestart(LiveGeneral(env, t.body))] /\ UNCHANGED <<waiting, raced>>
    BY <2>2, Zenon DEF PutGeneral
  <2> QED
    BY <1>1, <1>2, <1>3, <1>4, <2>1, <2>3, Zenon DEF Taken
<1>6. CASE \E x : x \in MapTask(n.puts, env) /\ x = t
  <2>1. t \in MapTask(n.puts, env) /\ t.section \in Lists
    BY <1>6 DEF MapTask
  <2>2. t.section # "general" /\ t.section # "web"
    BY <2>1 DEF Lists
  <2>3. PutMap(t)
    BY <1>1, <2>1, <2>2 DEF TakeTask
  <2>4. CASE PutAccepts(env, t.section, t.body)
    <3>1. job' = [at |-> "ready", task |-> t, file |-> t.body, live |-> LiveMap(env, t.section, t.body),
                  restart |-> t.section = "folder"] /\ UNCHANGED <<waiting, raced>>
      BY <2>3, <2>4, Zenon DEF PutMap
    <3> QED
      BY <1>1, <1>2, <1>3, <1>4, <2>1, <3>1, Zenon DEF Taken
  <2>5. CASE ~PutAccepts(env, t.section, t.body)
    <3>1. Reply(t.id) /\ UNCHANGED raced
      BY <2>3, <2>5, Zenon DEF PutMap
    <3>2. job' = NoJob /\ waiting' \subseteq waiting
      BY <3>1 DEF Reply
    <3> QED
      BY <1>1, <1>2, <1>3, <1>4, <2>1, <3>1, <3>2, Zenon DEF Taken
  <2> QED
    BY <2>4, <2>5
<1>7. CASE \E x : x \in WebTask(n.puts, env, n.made) /\ x = t
  <2>1. t \in WebTask(n.puts, env, n.made) /\ t.section = "web"
    BY <1>7 DEF WebTask
  <2>2. PutWebserver(t)
    BY <1>1, <2>1 DEF TakeTask, Lists
  <2>3. job' = [at |-> "snapped", task |-> t, live |-> live.web] /\ raced' = (raced \/ tray.at # "none") /\ waiting' = waiting
    BY <2>2, Zenon DEF PutWebserver
  <2> QED
    BY <1>1, <1>2, <1>3, <1>4, <2>1, <2>3, Zenon DEF Taken
<1> QED
  BY <1>2, <1>4, <1>5, <1>6, <1>7, Zenon DEF Task

\* A queue with fewer tasks, fewer waiting and another job.
LEMMA QueueSmaller ==
  ASSUME Values, NEW ts, NEW ws, NEW j, ts = tasks \/ (tasks # <<>> /\ ts = Tail(tasks)) \/ ts = <<>>, ws \subseteq waiting,
         j \in Job(n.puts, env, n.made)
  PROVE  QueueOK(env, n, ts, ws, j)
<1>1. PICK A : A = Task(n.puts, env, n.made)
  OBVIOUS
<1>2. tasks \in Seq(A) /\ Len(tasks) <= n.puts /\ waiting \subseteq 1..n.puts /\ n.puts <= MaxPuts /\ n.puts \in Nat
  BY <1>1, ValuesFacts DEF Values, QueueOK
<1>3. ts \in Seq(A) /\ Len(ts) <= n.puts
  <2>1. CASE ts = tasks
    BY <1>2, <2>1
  <2>2. CASE tasks # <<>> /\ ts = Tail(tasks)
    BY <1>2, <2>2
  <2>3. CASE ts = <<>>
    BY <1>2, <2>3
  <2> QED
    BY <2>1, <2>2, <2>3
<1> QED
  BY <1>1, <1>2, <1>3 DEF QueueOK

\* TakeTask.
LEMMA ValuesTake ==
  ASSUME Values, Accounts, TakeTask
  PROVE  Values'
<1>1. PICK t : Taken(t)
  BY TakeFacts
<1>2. UNCHANGED <<env, disk, mem, live, phase, tray, n, told>> /\ Running
  BY Zenon DEF TakeTask, store
<1>3. PICK e \in {s.env : s \in Setups} : e = env /\ e.general \in General /\ e.maps \in [Lists -> Instances(Texts)]
  BY ValuesFacts, Given1
<1>4. PICK g : g = LiveGeneral(e, t.body)
  OBVIOUS
<1>5. job' \in Job(n.puts, env, n.made)
  <2>1. CASE /\ t \in GeneralTask(n.puts)
             /\ job' = [at |-> "ready", task |-> t, file |-> t.body, live |-> LiveGeneral(env, t.body),
                        restart |-> GeneralRestart(LiveGeneral(env, t.body))]
    <3>1. t.body \in General
      BY <2>1 DEF GeneralTask
    <3>2. g \in General
      BY <1>3, <1>4, <3>1, GeneralType
    <3>r. PICK r : r = GeneralRestart(g)
      OBVIOUS
    <3>b. r \in BOOLEAN
      BY <3>r, Zenon DEF GeneralRestart
    <3>3. job' = [at |-> "ready", task |-> t, file |-> t.body, live |-> g, restart |-> r] /\ r \in BOOLEAN
      BY <1>3, <1>4, <2>1, <3>r, <3>b, Zenon
    <3>4. job' \in GeneralJob(n.puts)
      BY <2>1, <3>1, <3>2, <3>3 DEF GeneralJob
    <3> QED
      BY <3>4 DEF Job
  <2>2. CASE /\ t \in MapTask(n.puts, env)
             /\ job' = [at |-> "ready", task |-> t, file |-> t.body, live |-> LiveMap(env, t.section, t.body),
                        restart |-> t.section = "folder"]
    <3>1. t.body \in Instances(MapKeys(e)) /\ t.section \in Lists
      BY <1>3, <2>2 DEF MapTask
    <3>2. t.body \in Instances(Texts)
      BY <3>1, OwnInstances
    <3>3. PICK m : m = LiveMap(e, t.section, t.body)
      OBVIOUS
    <3>4. m \in Instances(Texts)
      <4>1. PICK b : b = t.body
        OBVIOUS
      <4>2. PICK l : l = t.section
        OBVIOUS
      <4> QED
        BY <1>3, <3>1, <3>2, <3>3, <4>1, <4>2, MapType
    <3>5. job' = [at |-> "ready", task |-> t, file |-> t.body, live |-> m, restart |-> t.section = "folder"]
      BY <1>3, <2>2, <3>3, Zenon
    <3>6. job' \in MapJob(n.puts, env)
      BY <1>3, <2>2, <3>1, <3>4, <3>5 DEF MapJob
    <3> QED
      BY <3>6 DEF Job
  <2>3. CASE job' = NoJob
    BY <2>3 DEF Job
  <2>4. CASE t \in WebTask(n.puts, env, n.made) /\ job' = [at |-> "snapped", task |-> t, live |-> live.web]
    <3>1. live.web \in Web(LivePw, Used(n.made))
      <4>1. live.web.pw \in LivePw
        BY <1>2 DEF Accounts, Alive, Running
      <4> QED
        BY <4>1, ValuesFacts DEF Web
    <3>2. job' \in SnapJob(n.puts, env, n.made)
      BY <2>4, <3>1 DEF SnapJob
    <3> QED
      BY <3>2 DEF Job
  <2> QED
    BY <1>1, <2>1, <2>2, <2>3, <2>4, Zenon DEF Taken
<1>6. QueueOK(env, n, tasks', waiting', job')
  <2>1. waiting' \subseteq waiting
    BY <1>1 DEF Taken
  <2>2. tasks # <<>> /\ tasks' = Tail(tasks)
    BY <1>1, Zenon DEF Taken
  <2> QED
    BY <1>5, <2>1, <2>2, QueueSmaller
<1>7. disk' \in FileDoc(env, n.made) /\ mem' \in FileDoc(env, n.made) /\ tray' \in TraySteps /\ told' \in Texts
  BY <1>2, ValuesFacts DEF Values
<1>8. LiveOK(n.made, live') /\ CountOK(n, phase')
  BY <1>2, Zenon DEF Values
<1> QED
  BY <1>2, <1>6, <1>7, <1>8, ValuesFrame, Zenon

\* CheckWebserver.
LEMMA ValuesCheck ==
  ASSUME Values, Accounts, KeysHold, CheckWebserver
  PROVE  Values'
<1>1. UNCHANGED <<env, disk, mem, live, phase, tasks, tray, n, told>> /\ job.at = "snapped"
  BY Zenon DEF CheckWebserver, store, ghosts
<1>2. job' \in Job(n.puts, env, n.made) /\ waiting' \subseteq waiting
  <2>1. CASE job' = NoJob /\ waiting' \subseteq waiting
    BY <2>1 DEF Job
  <2>2. CASE \E file, next : Checked(file, next)
    <3>1. PICK file, next : Checked(file, next)
      BY <2>2
    <3>2. job \in SnapJob(n.puts, env, n.made)
      BY <1>1, JobCases
    <3>3. job.task \in WebTask(n.puts, env, n.made)
      BY <3>2 DEF SnapJob
    <3>4. job' = [at |-> "ready", task |-> job.task, file |-> file, live |-> next, restart |-> mem.web.listen # file.listen]
          /\ file \in FileWebs(env, n.made) /\ next \in Web(LivePw, Used(n.made)) /\ waiting' = waiting
      BY <3>1, Zenon DEF Checked, WebRestart
    <3>5. job' \in WebJob(n.puts, env, n.made)
      BY <3>3, <3>4 DEF WebJob
    <3> QED
      BY <3>4, <3>5 DEF Job
  <2> QED
    BY <2>1, <2>2, CheckFacts
<1>3. QueueOK(env, n, tasks', waiting', job')
  BY <1>1, <1>2, QueueSmaller
<1>4. disk' \in FileDoc(env, n.made) /\ mem' \in FileDoc(env, n.made) /\ tray' \in TraySteps /\ told' \in Texts
  BY <1>1, ValuesFacts DEF Values
<1>5. LiveOK(n.made, live') /\ CountOK(n, phase')
  BY <1>1, Zenon DEF Values
<1> QED
  BY <1>1, <1>3, <1>4, <1>5, ValuesFrame, Zenon

\* GiveUp.
LEMMA ValuesGiveUp ==
  ASSUME Values, NEW id, GiveUp(id)
  PROVE  Values'
<1>1. UNCHANGED <<env, disk, mem, live, phase, tasks, job, tray, n, told>>
  BY Zenon DEF GiveUp, store, ghosts
<1>2. QueueOK(env, n, tasks', waiting', job')
  <2>1. waiting' \subseteq waiting
    BY DEF GiveUp
  <2>2. job' \in Job(n.puts, env, n.made)
    BY <1>1 DEF Values, QueueOK
  <2> QED
    BY <1>1, <2>1, <2>2, QueueSmaller
<1>3. disk' \in FileDoc(env, n.made) /\ mem' \in FileDoc(env, n.made) /\ tray' \in TraySteps /\ told' \in Texts
  BY <1>1, ValuesFacts DEF Values
<1>4. LiveOK(n.made, live') /\ CountOK(n, phase')
  BY <1>1, Zenon DEF Values
<1> QED
  BY <1>1, <1>2, <1>3, <1>4, ValuesFrame, Zenon

\* CommitConfig.
LEMMA ValuesCommit ==
  ASSUME Values, CommitConfig
  PROVE  Values'
<1>1. PICK d : d = Staged(job.task.section, job.file)
  OBVIOUS
<1>2. PICK lv : lv = ApplyLive(job.task.section, job.live)
  OBVIOUS
<1>3. /\ mem' = d /\ live' = lv /\ (disk' = d \/ disk' = disk) /\ job.at = "ready"
      /\ job' = NoJob /\ waiting' \subseteq waiting /\ (told' = None \/ told' = told)
      /\ UNCHANGED <<env, phase, tasks, tray, n>>
  <2>1. /\ mem' = d /\ live' = lv /\ (disk' = d \/ disk' = disk) /\ job.at = "ready" /\ Reply(job.task.id)
        /\ (told' = None \/ told' = told) /\ UNCHANGED <<env, phase, tasks, tray, n>>
    BY <1>1, <1>2, Zenon DEF CommitConfig
  <2> QED
    BY <2>1 DEF Reply
<1>4. Saved(d, lv)
  BY <1>1, <1>2, <1>3, SavedFacts
<1>5. d \in FileDoc(env, n.made) /\ LiveOK(n.made, lv)
  BY <1>4, Zenon DEF Saved
<1>6. QueueOK(env, n, tasks', waiting', job')
  <2>1. job' \in Job(n.puts, env, n.made)
    BY <1>3 DEF Job
  <2> QED
    BY <1>3, <2>1, QueueSmaller
<1>7. disk' \in FileDoc(env, n.made) /\ mem' \in FileDoc(env, n.made) /\ LiveOK(n.made, live')
  BY <1>3, <1>5, ValuesFacts, Zenon
<1>8. tray' \in TraySteps /\ told' \in Texts
  BY <1>3, ConfigAssumption DEF Values, ConfigAssumption
<1>9. CountOK(n, phase')
  BY <1>3, Zenon DEF Values
<1> QED
  BY <1>3, <1>6, <1>7, <1>8, <1>9, ValuesFrame, Zenon

\* CommitFails.
LEMMA ValuesFail ==
  ASSUME Values, CommitFails
  PROVE  Values'
<1>1. PICK c : c = n'
  OBVIOUS
<1>2. n' = [n EXCEPT !.fails = @ + 1] /\ UNCHANGED <<env, disk, mem, live, phase, tasks, tray, told>>
      /\ job' = NoJob /\ waiting' \subseteq waiting
  <2>1. n' = [n EXCEPT !.fails = @ + 1] /\ UNCHANGED <<env, disk, mem, live, phase, tasks, tray, told>> /\ Reply(job.task.id)
    BY Zenon DEF CommitFails, store, ghosts
  <2> QED
    BY <2>1 DEF Reply
<1>3. /\ Counts(n, c) /\ CountOK(c, phase) /\ DocsOK(env, c.made, disk, mem) /\ LiveOK(c.made, live)
  BY <1>1, <1>2, CountedOn
<1>4. c.puts = n.puts
  <2>1. n \in Count
    BY ValuesFacts
  <2> QED
    BY <1>1, <1>2, <2>1 DEF Count
<1>5. QueueOK(env, n, tasks', waiting', job')
  <2>1. job' \in Job(n.puts, env, n.made)
    BY <1>2 DEF Job
  <2> QED
    BY <1>2, <2>1, QueueSmaller
<1>6. QueueOK(env, c, tasks', waiting', job')
  <2>1. c.puts <= MaxPuts
    BY <1>4, ValuesFacts
  <2>2. PICK ts, ws, j : ts = tasks' /\ ws = waiting' /\ j = job'
    OBVIOUS
  <2>3. QueueOK(env, n, ts, ws, j)
    BY <1>5, <2>2, Zenon
  <2>4. QueueOK(env, c, ts, ws, j)
    BY <1>3, <2>1, <2>3, Grown
  <2> QED
    BY <2>2, <2>4, Zenon
<1>7. DocsOK(env', n'.made, disk', mem') /\ QueueOK(env', n', tasks', waiting', job')
  BY <1>1, <1>2, <1>3, <1>6, Zenon
<1>8. LiveOK(n'.made, live') /\ CountOK(n', phase')
  BY <1>1, <1>2, <1>3, Zenon
<1>9. tray' \in TraySteps /\ told' \in Texts
  BY <1>2 DEF Values
<1> QED
  BY <1>7, <1>8, <1>9, Zenon DEF Values

\* Another password in what runs.
LEMMA LivePassword ==
  ASSUME NEW m, NEW l, LiveOK(m, l), NEW p, NEW x, x = [l EXCEPT !.web.pw = p]
  PROVE  /\ x.general = l.general /\ x.maps = l.maps /\ x.perms = l.perms /\ x.web.pw = p /\ x.web.keys = l.web.keys
         /\ x.web.roles = l.web.roles /\ x.web.listen = l.web.listen
         /\ p \in Password(FileKinds) => LiveOK(m, x)
<1>1. l = [general |-> l.general, maps |-> l.maps, web |-> l.web, perms |-> l.perms]
      /\ l.general \in General /\ l.maps \in [Lists -> Instances(Texts)] /\ l.web \in Web(Password(FileKinds), Used(m))
  BY DEF LiveOK
<1>2. PICK w : w = [l.web EXCEPT !.pw = p]
  OBVIOUS
<1>3. x = [general |-> l.general, maps |-> l.maps, web |-> w, perms |-> l.perms]
  BY <1>1, <1>2
<1>4. w.pw = p /\ w.keys = l.web.keys /\ w.roles = l.web.roles /\ w.listen = l.web.listen
      /\ (p \in Password(FileKinds) => w \in Web(Password(FileKinds), Used(m)))
  BY <1>1, <1>2 DEF Web
<1> QED
  BY <1>1, <1>3, <1>4 DEF LiveOK

\* TraySet.
LEMMA ValuesTraySet ==
  ASSUME Values, TraySet
  PROVE  Values'
<1>1. PICK c : c = n'
  OBVIOUS
<1>2. PICK t \in TrayTexts : live' = [live EXCEPT !.web.pw = Hash(t)] /\ tray' = [at |-> "set", text |-> t, pass |-> NoPw]
  BY Zenon DEF TraySet
<1>3. n' = [n EXCEPT !.tray = @ + 1] /\ UNCHANGED <<env, disk, mem, phase, tasks, waiting, job>> /\ told' = None
  BY Zenon DEF TraySet
<1>4. /\ Counts(n, c) /\ CountOK(c, phase) /\ DocsOK(env, c.made, disk, mem) /\ LiveOK(c.made, live)
      /\ c.puts <= MaxPuts => QueueOK(env, c, tasks, waiting, job)
  BY <1>1, <1>3, CountedOn
<1>5. c.puts <= MaxPuts
  <2>1. n \in Count /\ n.puts <= MaxPuts
    BY ValuesFacts
  <2> QED
    BY <1>1, <1>3, <2>1 DEF Count
<1>6. t \in Texts /\ Hash(t) \in Password(FileKinds)
  <2>1. t \in Texts
    BY ConfigAssumption DEF ConfigAssumption
  <2> QED
    BY <2>1, LivePws
<1>7. PICK l : l = live
  OBVIOUS
<1>8. PICK x : x = [l EXCEPT !.web.pw = Hash(t)]
  OBVIOUS
<1>9. LiveOK(c.made, x)
  BY <1>4, <1>6, <1>7, <1>8, LivePassword
<1>10. DocsOK(env', n'.made, disk', mem') /\ QueueOK(env', n', tasks', waiting', job')
  BY <1>1, <1>3, <1>4, <1>5, Zenon
<1>11. LiveOK(n'.made, live') /\ CountOK(n', phase')
  BY <1>1, <1>2, <1>3, <1>4, <1>7, <1>8, <1>9, Zenon
<1>12. tray' \in TraySteps /\ told' \in Texts
  BY <1>2, <1>3, <1>6, ConfigAssumption DEF ConfigAssumption, TraySteps
<1> QED
  BY <1>10, <1>11, <1>12, Zenon DEF Values

\* TrayRead, TraySync and TrayWrite.
LEMMA ValuesTray ==
  ASSUME Values, Accounts, TrayRead \/ TraySync \/ TrayWrite
  PROVE  Values'
<1>1. tray \in TraySteps /\ told \in Texts
  BY DEF Values
<1>2. QueueOK(env, n, tasks, waiting, job) /\ CountOK(n, phase) /\ LiveOK(n.made, live)
      /\ disk \in FileDoc(env, n.made) /\ mem \in FileDoc(env, n.made)
  BY ValuesFacts DEF Values
<1>3. CASE TrayRead
  <2>1. UNCHANGED <<env, disk, mem, live, phase, tasks, waiting, job, n, told>>
        /\ tray' = [tray EXCEPT !.at = "read", !.pass = live.web.pw] /\ tray.at = "set" /\ Running
    BY <1>3, Zenon DEF TrayRead, store, ghosts
  <2>2. live.web.pw \in LivePw
    BY <2>1 DEF Accounts, Running, Alive
  <2>3. tray \in [at : {"set"}, text : Texts, pass : {NoPw}]
    BY <1>1, <2>1 DEF TraySteps, TrayIdle
  <2>4. tray' \in TraySteps
    <3>1. tray' = [at |-> "read", text |-> tray.text, pass |-> live.web.pw]
      BY <2>1, <2>3
    <3> QED
      BY <2>2, <2>3, <3>1 DEF TraySteps
  <2>5. QueueOK(env, n, tasks', waiting', job') /\ CountOK(n, phase') /\ LiveOK(n.made, live')
        /\ disk' \in FileDoc(env, n.made) /\ mem' \in FileDoc(env, n.made) /\ told' \in Texts
    BY <1>1, <1>2, <2>1, Zenon
  <2> QED
    BY <2>1, <2>4, <2>5, ValuesFrame, Zenon
<1>4. CASE TraySync
  <2>1. UNCHANGED <<env, disk, live, phase, tasks, waiting, job, n, told>>
        /\ mem' = [mem EXCEPT !.web.pw = tray.pass] /\ tray' = [tray EXCEPT !.at = "synced"] /\ tray.at = "read"
    BY <1>4, Zenon DEF TraySync, ghosts
  <2>2. tray \in [at : {"read", "synced"}, text : Texts, pass : LivePw]
    BY <1>1, <2>1 DEF TraySteps, TrayIdle
  <2>3. tray' \in TraySteps
    BY <2>1, <2>2 DEF TraySteps
  <2>4. env.pw = NoPw
    BY <2>1 DEF Accounts
  <2>5. tray.pass \in OwnPw(env, FileKinds)
    BY <2>2, <2>4, LivePws
  <2>6. PICK p : p = tray.pass
    OBVIOUS
  <2>7. PICK d \in FileDoc(env, n.made) : d = mem
    BY <1>2
  <2>8. PICK x : x = [d EXCEPT !.web.pw = p]
    OBVIOUS
  <2>9. x \in FileDoc(env, n.made)
    BY <2>5, <2>6, <2>8, DocPw
  <2>10. QueueOK(env, n, tasks', waiting', job') /\ CountOK(n, phase') /\ LiveOK(n.made, live')
        /\ disk' \in FileDoc(env, n.made) /\ mem' \in FileDoc(env, n.made) /\ told' \in Texts
    BY <1>1, <1>2, <2>1, <2>6, <2>7, <2>8, <2>9, Zenon
  <2> QED
    BY <2>1, <2>3, <2>10, ValuesFrame, Zenon
<1>5. CASE TrayWrite
  <2>1. PICK c : c = n'
    OBVIOUS
  <2>2. UNCHANGED <<env, mem, live, phase, tasks, waiting, job>> /\ tray' = TrayIdle
        /\ (disk' = disk \/ disk' = mem) /\ (told' = told \/ told' = tray.text)
        /\ (n' = n \/ n' = [n EXCEPT !.fails = @ + 1]) /\ tray.at = "synced"
    BY <1>5, Zenon DEF TrayWrite
  <2>3. tray \in [at : {"read", "synced"}, text : Texts, pass : LivePw]
    BY <1>1, <2>2 DEF TraySteps, TrayIdle
  <2>4. tray' \in TraySteps /\ told' \in Texts
    BY <1>1, <2>2, <2>3 DEF TraySteps
  <2>5. n' \in {[n EXCEPT !.puts = @ + 1], [n EXCEPT !.fails = @ + 1], [n EXCEPT !.tray = @ + 1], n}
    BY <2>2, Zenon
  <2>6. /\ Counts(n, c) /\ CountOK(c, phase) /\ DocsOK(env, c.made, disk, mem) /\ LiveOK(c.made, live)
        /\ c.puts <= MaxPuts => QueueOK(env, c, tasks, waiting, job)
    BY <2>1, <2>5, CountedOn
  <2>7. c.puts <= MaxPuts
    <3>1. n \in Count /\ n.puts <= MaxPuts
      BY ValuesFacts
    <3> QED
      BY <2>1, <2>2, <3>1 DEF Count
  <2>8. DocsOK(env, c.made, disk', mem')
    BY <2>2, <2>6, Zenon DEF DocsOK
  <2>9. DocsOK(env', n'.made, disk', mem') /\ QueueOK(env', n', tasks', waiting', job')
    BY <2>1, <2>2, <2>6, <2>7, <2>8, Zenon
  <2>10. LiveOK(n'.made, live') /\ CountOK(n', phase')
    BY <2>1, <2>2, <2>6, Zenon
  <2> QED
    BY <2>4, <2>9, <2>10, Zenon DEF Values
<1> QED
  BY <1>3, <1>4, <1>5

\* What a crash leaves on disk.
LEMMA CrashDisk ==
  ASSUME Values, Crash
  PROVE  \/ disk' = disk /\ told' = told
         \/ path /\ job.at = "ready" /\ disk' = Staged(job.task.section, job.file) /\ (disk' = disk \/ told' = None)
         \/ path /\ tray.at = "synced" /\ disk' = mem /\ (disk' = disk \/ told' = None)
<1>1. \/ disk' = disk
      \/ path /\ job.at = "ready" /\ disk' = Staged(job.task.section, job.file)
      \/ path /\ tray.at = "synced" /\ disk' = mem
  <2>1. PICK A : A = IF path /\ job.at = "ready" THEN {Staged(job.task.section, job.file)} ELSE {}
    OBVIOUS
  <2>2. PICK B : B = IF path /\ tray.at = "synced" THEN {mem} ELSE {}
    OBVIOUS
  <2>3. disk' \in {disk} \union A \union B
    BY <2>1, <2>2, Zenon DEF Crash
  <2>4. disk' = disk \/ disk' \in A \/ disk' \in B
    BY <2>3
  <2>5. disk' \in A => path /\ job.at = "ready" /\ disk' = Staged(job.task.section, job.file)
    BY <2>1, Zenon
  <2>6. disk' \in B => path /\ tray.at = "synced" /\ disk' = mem
    BY <2>2, Zenon
  <2> QED
    BY <2>4, <2>5, <2>6, Zenon
<1>2. told' = IF disk' = disk THEN told ELSE None
  BY Zenon DEF Crash
<1>3. disk' = disk => told' = told
  BY <1>2, Zenon
<1>4. disk' # disk => told' = None
  BY <1>2, Zenon
<1> QED
  BY <1>1, <1>3, <1>4, Zenon

\* Nothing is under way in a process that is gone.
LEMMA GoneFacts ==
  ASSUME Values, Gone
  PROVE  QueueOK(env, n, tasks', waiting', job') /\ CountOK(n, phase') /\ tray' \in TraySteps
<1>1. tasks' = <<>> /\ waiting' \subseteq waiting /\ job' = NoJob /\ tray' = TrayIdle /\ phase' = "down"
  BY DEF Gone
<1>2. job' \in Job(n.puts, env, n.made)
  BY <1>1 DEF Job
<1>3. CountOK(n, phase')
  BY <1>1 DEF Values, CountOK, Phases
<1> QED
  BY <1>1, <1>2, <1>3, QueueSmaller DEF TraySteps

\* Crash and MaybeRestart.
LEMMA ValuesDown ==
  ASSUME Values, Crash \/ MaybeRestart
  PROVE  Values'
<1>1. disk \in FileDoc(env, n.made) /\ mem \in FileDoc(env, n.made) /\ LiveOK(n.made, live) /\ told \in Texts
      /\ QueueOK(env, n, tasks, waiting, job) /\ CountOK(n, phase) /\ tray \in TraySteps
  BY ValuesFacts DEF Values
<1>2. CASE Crash
  <2>1. Gone /\ UNCHANGED <<env, mem, live, n>>
    BY <1>2, Zenon DEF Crash
  <2>2. disk' \in FileDoc(env, n.made)
    <3>1. CASE disk' = disk \/ disk' = mem
      BY <1>1, <3>1
    <3>2. CASE job.at = "ready" /\ disk' = Staged(job.task.section, job.file)
      <4>1. PICK d, lv : d = Staged(job.task.section, job.file) /\ lv = ApplyLive(job.task.section, job.live)
        OBVIOUS
      <4>2. Saved(d, lv)
        BY <3>2, <4>1, SavedFacts
      <4>3. d \in FileDoc(env, n.made)
        BY <4>2, Zenon DEF Saved
      <4> QED
        BY <3>2, <4>1, <4>3, Zenon
    <3> QED
      BY <1>2, <3>1, <3>2, CrashDisk, Zenon
  <2>3. told' \in Texts
    <3>1. told' = told \/ told' = None
      BY <1>2, Zenon DEF Crash
    <3> QED
      BY <1>1, <3>1, ConfigAssumption DEF ConfigAssumption
  <2>4. mem' \in FileDoc(env, n.made) /\ LiveOK(n.made, live')
    BY <1>1, <2>1, Zenon
  <2> QED
    BY <2>1, <2>2, <2>3, <2>4, GoneFacts, ValuesFrame, Zenon
<1>3. CASE MaybeRestart
  <2>1. UNCHANGED <<env, disk, mem, live, n, told>>
        /\ (Gone \/ ((phase' = phase \/ phase' = "headless") /\ UNCHANGED <<tasks, waiting, job, tray>>))
    BY <1>3, Zenon DEF MaybeRestart, store
  <2>2. QueueOK(env, n, tasks', waiting', job') /\ CountOK(n, phase') /\ tray' \in TraySteps
    <3>1. CASE Gone
      BY <3>1, GoneFacts
    <3>2. CASE (phase' = phase \/ phase' = "headless") /\ UNCHANGED <<tasks, waiting, job, tray>>
      <4>1. CountOK(n, phase')
        BY <1>1, <3>2 DEF CountOK, Phases
      <4> QED
        BY <1>1, <3>2, <4>1, Zenon
    <3> QED
      BY <2>1, <3>1, <3>2, Zenon
  <2>3. disk' \in FileDoc(env, n.made) /\ mem' \in FileDoc(env, n.made) /\ LiveOK(n.made, live') /\ told' \in Texts
    BY <1>1, <2>1, Zenon
  <2> QED
    BY <2>1, <2>2, <2>3, ValuesFrame, Zenon
<1> QED
  BY <1>2, <1>3

\* Every step keeps the types.
LEMMA ValuesNext ==
  ASSUME Values, Accounts, KeysHold, [Next]_vars
  PROVE  Values'
<1>1. CASE \E ok \in BOOLEAN : StartConfig(ok)
  <2>1. PICK ok \in BOOLEAN : StartConfig(ok)
    BY <1>1
  <2>2. PICK pw \in LivePw : Started(pw)
    BY <2>1, StartFacts
  <2> QED
    BY <2>2, ValuesStart
<1>2. CASE \E ok \in BOOLEAN : StartWebServer(ok)
  <2>1. PICK ok \in BOOLEAN : StartWebServer(ok)
    BY <1>2
  <2>2. SetupAdminAPIKey(ok) /\ phase = "auth" /\ phase' = "up" /\ UNCHANGED <<env, tasks, waiting, job, tray, told>>
    BY <2>1, Zenon DEF StartWebServer
  <2>3. KeysBefore
    BY <2>2 DEF KeysBefore, Accounts, KeysHold, DistinctOK, LinkOK, Alive
  <2>4. PICK x, d : Keyed(x, d)
    BY <2>2, <2>3, KeysUp
  <2> QED
    BY <2>2, <2>4, ValuesUp
<1>3. CASE ResetUIPassword
  BY <1>3, ValuesReset
<1>4. CASE SendGeneral \/ SendMap \/ SendWebserver
  BY <1>4, ValuesSent
<1>5. CASE \E id \in waiting : GiveUp(id)
  BY <1>5, ValuesGiveUp
<1>6. CASE TakeTask
  BY <1>6, ValuesTake
<1>7. CASE CheckWebserver
  BY <1>7, ValuesCheck
<1>8. CASE CommitConfig
  BY <1>8, ValuesCommit
<1>9. CASE CommitFails
  BY <1>9, ValuesFail
<1>10. CASE TraySet
  BY <1>10, ValuesTraySet
<1>11. CASE TrayRead \/ TraySync \/ TrayWrite
  BY <1>11, ValuesTray
<1>12. CASE Crash \/ MaybeRestart
  BY <1>12, ValuesDown
<1>13. CASE UNCHANGED vars
  BY <1>13, Zenon DEF vars, store, ghosts, Values
<1> QED
  BY <1>1, <1>2, <1>3, <1>4, <1>5, <1>6, <1>7, <1>8, <1>9, <1>10, <1>11, <1>12, <1>13, Zenon DEF Next

-----------------------------------------------------------------------------
(* The parts of the invariant that relate one thing to another.            *)

\* A process that does not run does nothing.
LEMMA QuietNext ==
  ASSUME Quiet, [Next]_vars
  PROVE  Quiet'
<1>1. CASE \E ok \in BOOLEAN : StartConfig(ok)
  <2>1. phase = "down" /\ UNCHANGED <<tasks, waiting, job, tray>>
    BY <1>1, Zenon DEF StartConfig
  <2> QED
    BY <2>1 DEF Quiet, Running
<1>2. CASE \E ok \in BOOLEAN : StartWebServer(ok)
  <2>1. phase' = "up"
    BY <1>2, Zenon DEF StartWebServer
  <2> QED
    BY <2>1 DEF Quiet, Running
<1>3. CASE ResetUIPassword
  <2>1. UNCHANGED <<phase, tasks, waiting, job, tray>>
    BY <1>3, Zenon DEF ResetUIPassword
  <2> QED
    BY <2>1, Zenon DEF Quiet, Running
<1>4. CASE SendGeneral \/ SendMap \/ SendWebserver
  <2>1. phase = "up" /\ UNCHANGED phase
    BY <1>4, Zenon DEF SendGeneral, SendMap, SendWebserver, Send
  <2> QED
    BY <2>1 DEF Quiet, Running
<1>5. CASE \E id \in waiting : GiveUp(id)
  <2>1. UNCHANGED phase /\ waiting # {}
    BY <1>5, Zenon DEF GiveUp
  <2>2. Running
    BY <2>1 DEF Quiet
  <2> QED
    BY <2>1, <2>2, Zenon DEF Quiet, Running
<1>6. CASE TakeTask \/ CheckWebserver \/ CommitConfig \/ CommitFails \/ TraySet \/ TrayRead \/ TraySync \/ TrayWrite
  <2>1. Running /\ UNCHANGED phase
    BY <1>6, Zenon DEF TakeTask, CheckWebserver, CommitConfig, CommitFails, TraySet, TrayRead, TraySync, TrayWrite
  <2> QED
    BY <2>1, Zenon DEF Quiet, Running
<1>7. CASE Crash
  BY <1>7, Zenon DEF Crash, Gone, Quiet
<1>8. CASE MaybeRestart
  <2>1. CASE Gone
    BY <2>1, Zenon DEF Gone, Quiet
  <2>2. CASE ~Gone
    <3>1. Running /\ (phase' = phase \/ phase' = "headless")
      BY <1>8, <2>2, Zenon DEF MaybeRestart
    <3>2. Running'
      BY <3>1 DEF Running
    <3> QED
      BY <3>2, Zenon DEF Quiet
  <2> QED
    BY <2>1, <2>2
<1>9. CASE UNCHANGED vars
  BY <1>9, Zenon DEF vars, Quiet, Running
<1> QED
  BY <1>1, <1>2, <1>3, <1>4, <1>5, <1>6, <1>7, <1>8, <1>9, Zenon DEF Next

\* What a tray that starts nothing leaves, and when its dialog is open.
TrayOwn ==
  /\ built.dialog => env.pw = NoPw
  /\ tray.at # "none" => env.pw = NoPw

\* The rights in force are those of the section in force.
InForce ==
  /\ live.perms = KeyPerms(live.web)
  /\ Alive => ValidAuth(live.web) /\ live.web.pw \in LivePw

\* Rights depend on keys and roles alone.
LEMMA SameRights ==
  ASSUME NEW w, NEW x, x.keys = w.keys, x.roles = w.roles
  PROVE  KeyPerms(x) = KeyPerms(w) /\ (ValidAuth(w) => ValidAuth(x))
<1>1. KeyPerms(x) = KeyPerms(w)
  BY DEF KeyPerms
<1>2. ValidAuth(w) => ValidAuth(x)
  BY DEF ValidAuth
<1> QED
  BY <1>1, <1>2

\* The rights in force at every step.
LEMMA InForceNext ==
  ASSUME Values, Accounts, Quiet, KeysHold, [Next]_vars
  PROVE  InForce'
<1>0. InForce
  BY Zenon DEF Accounts, InForce
<1>1. CASE \E ok \in BOOLEAN : StartConfig(ok)
  <2>1. PICK pw \in LivePw : Started(pw)
    BY <1>1, StartFacts
  <2>2. PICK d \in FileDoc(env, n.made) : d = disk
    BY ValuesFacts
  <2>3. PICK w : w = [d.web EXCEPT !.pw = pw, !.keys = Expanded(LiveKeys(env, @))]
    OBVIOUS
  <2>4. w.pw = pw
    BY <2>3 DEF FileDoc, Document, Web
  <2>5. live'.web = w /\ live'.perms = KeyPerms(w)
    <3>1. PICK g, ms, p : g = LiveGeneral(env, disk.general) /\ ms = [l \in Lists |-> LiveMap(env, l, disk.maps[l])]
                          /\ p = KeyPerms(w)
      OBVIOUS
    <3>2. live' = [general |-> g, maps |-> ms, web |-> w, perms |-> p]
      BY <2>1, <2>2, <2>3, <3>1, Zenon DEF Started
    <3> QED
      BY <3>1, <3>2
  <2>6. phase' = "auth" \/ phase' = "exited"
    BY <2>1 DEF Started
  <2>7. phase' = "auth" => ValidAuth(w)
    BY <2>1, <2>2, <2>3, Zenon DEF Started
  <2>8. Alive' => phase' = "auth"
    BY <2>6 DEF Alive
  <2> QED
    BY <2>4, <2>5, <2>7, <2>8, Zenon DEF InForce
<1>2. CASE \E ok \in BOOLEAN : StartWebServer(ok)
  <2>1. PICK ok \in BOOLEAN : StartWebServer(ok)
    BY <1>2
  <2>2. SetupAdminAPIKey(ok) /\ phase = "auth"
    BY <2>1, Zenon DEF StartWebServer
  <2>3. KeysBefore
    BY <2>2 DEF KeysBefore, Accounts, KeysHold, DistinctOK, LinkOK, Alive
  <2>4. PICK x, d : Keyed(x, d)
    BY <2>2, <2>3, KeysUp
  <2>5. live'.web = x /\ live'.perms = KeyPerms(x)
    <3>1. PICK p : p = KeyPerms(x)
      OBVIOUS
    <3>2. live' = [general |-> live.general, maps |-> live.maps, web |-> x, perms |-> p]
      BY <2>4, <3>1, Zenon DEF Keyed
    <3> QED
      BY <3>1, <3>2
  <2>6. ValidAuth(x) /\ x \in Web(LivePw, Used(n'.made))
    BY <2>4, Zenon DEF Keyed
  <2>7. x.pw \in LivePw
    BY <2>6 DEF Web
  <2> QED
    BY <2>5, <2>6, <2>7, Zenon DEF InForce
<1>3. CASE CommitConfig
  <2>1. PICK d : d = Staged(job.task.section, job.file)
    OBVIOUS
  <2>2. PICK lv : lv = ApplyLive(job.task.section, job.live)
    OBVIOUS
  <2>3. live' = lv /\ job.at = "ready" /\ UNCHANGED phase
    BY <1>3, <2>2, Zenon DEF CommitConfig
  <2>4. Saved(d, lv)
    BY <2>1, <2>2, <2>3, SavedFacts
  <2>5. CASE lv.web = live.web /\ lv.perms = live.perms
    BY <1>0, <2>3, <2>5, Zenon DEF InForce, Alive
  <2>6. CASE job.task.section = "web" /\ lv.web = job.live /\ lv.perms = KeyPerms(job.live) /\ lv.web.pw \in LivePw
    <3>1. ValidAuth(job.live)
      BY <2>3, <2>6, Zenon DEF Accounts
    <3> QED
      BY <2>3, <2>6, <3>1, Zenon DEF InForce
  <2> QED
    BY <2>4, <2>5, <2>6, Zenon DEF Saved
<1>4. CASE TraySet
  <2>1. PICK t \in TrayTexts : live' = [live EXCEPT !.web.pw = Hash(t)]
    BY <1>4, Zenon DEF TraySet
  <2>2. Hash(t) \in LivePw
    BY LivePws, ConfigAssumption DEF ConfigAssumption
  <2>3. PICK l : l = live /\ LiveOK(n.made, l)
    BY DEF Values
  <2>4. PICK x : x = [l EXCEPT !.web.pw = Hash(t)]
    OBVIOUS
  <2>5. x.perms = l.perms /\ x.web.pw = Hash(t) /\ x.web.keys = l.web.keys /\ x.web.roles = l.web.roles
    BY <2>3, <2>4, LivePassword
  <2>6. KeyPerms(x.web) = KeyPerms(l.web) /\ (ValidAuth(l.web) => ValidAuth(x.web))
    <3>1. PICK w, y : w = l.web /\ y = x.web
      OBVIOUS
    <3> QED
      BY <2>5, <3>1, SameRights
  <2>7. live' = x /\ UNCHANGED phase
    BY <1>4, <2>1, <2>3, <2>4, Zenon DEF TraySet
  <2> QED
    BY <1>0, <2>2, <2>3, <2>5, <2>6, <2>7, Zenon DEF InForce, Alive
<1>5. CASE ~(\E ok \in BOOLEAN : StartConfig(ok)) /\ ~(\E ok \in BOOLEAN : StartWebServer(ok)) /\ ~CommitConfig /\ ~TraySet
  <2>1. UNCHANGED live
    BY <1>5, Zenon DEF Next, vars, store, ResetUIPassword, SendGeneral, SendMap, SendWebserver, Send, GiveUp,
       TakeTask, CheckWebserver, CommitFails, TrayRead, TraySync, TrayWrite, Crash, MaybeRestart
  <2>2. Alive' => Alive
    <3>1. CASE Crash
      <4>1. phase' = "down"
        BY <3>1, Zenon DEF Crash, Gone
      <4> QED
        BY <4>1 DEF Alive
    <3>2. CASE MaybeRestart
      <4>1. Running
        BY <3>2, Zenon DEF MaybeRestart
      <4> QED
        BY <4>1 DEF Running, Alive
    <3>3. CASE ~Crash /\ ~MaybeRestart
      <4>1. UNCHANGED phase
        BY <1>5, <3>3, Zenon DEF Next, vars, ResetUIPassword, SendGeneral, SendMap, SendWebserver, Send, GiveUp,
           TakeTask, CheckWebserver, CommitFails, TrayRead, TraySync, TrayWrite
      <4> QED
        BY <4>1, Zenon DEF Alive
    <3> QED
      BY <3>1, <3>2, <3>3
  <2> QED
    BY <1>0, <2>1, <2>2, Zenon DEF InForce
<1> QED
  BY <1>1, <1>2, <1>3, <1>4, <1>5, Zenon

\* The job of the main loop at every step.
LEMMA JobNext ==
  ASSUME Values, Accounts, KeysHold, [Next]_vars
  PROVE  \/ UNCHANGED job
         \/ job' = NoJob
         \/ TakeTask /\ job = NoJob /\ \E t : Taken(t)
         \/ CheckWebserver /\ job.at = "snapped" /\ job.task.section = "web" /\ \E file, next : Checked(file, next)
<1>1. CASE TakeTask
  BY <1>1, TakeFacts, Zenon DEF TakeTask
<1>2. CASE CheckWebserver
  <2>1. job.at = "snapped"
    BY <1>2, Zenon DEF CheckWebserver
  <2>2. job.task.section = "web"
    BY <2>1, JobCases
  <2> QED
    BY <1>2, <2>1, <2>2, CheckFacts, Zenon
<1>3. CASE CommitConfig \/ CommitFails
  <2>1. Reply(job.task.id)
    BY <1>3, Zenon DEF CommitConfig, CommitFails
  <2> QED
    BY <2>1 DEF Reply
<1>4. CASE Crash
  BY <1>4, Zenon DEF Crash, Gone
<1>5. CASE MaybeRestart
  BY <1>5, Zenon DEF MaybeRestart, Gone
<1>6. CASE ~TakeTask /\ ~CheckWebserver /\ ~CommitConfig /\ ~CommitFails /\ ~Crash /\ ~MaybeRestart
  BY <1>6, Zenon DEF Next, vars, store, ghosts, StartConfig, StartWebServer, ResetUIPassword, SendGeneral, SendMap,
     SendWebserver, Send, GiveUp, TraySet, TrayRead, TraySync, TrayWrite
<1> QED
  BY <1>1, <1>2, <1>3, <1>4, <1>5, <1>6, Zenon

\* The sorts of job a task becomes, by the fields they are told apart by.
LEMMA TakenJob ==
  ASSUME NEW t, Taken(t)
  PROVE  \/ job'.at = "ready" /\ job'.task = t /\ job'.task.section = "general" /\ job'.file = t.body
            /\ job'.live = LiveGeneral(env, t.body) /\ job'.restart = GeneralRestart(LiveGeneral(env, t.body)) /\ UNCHANGED raced
         \/ job'.at = "ready" /\ job'.task = t /\ t.section \in Lists /\ job'.task.section \in Lists /\ job'.file = t.body
            /\ job'.live = LiveMap(env, t.section, t.body) /\ job'.restart = (t.section = "folder") /\ UNCHANGED raced
         \/ job' = NoJob /\ job'.at = "none" /\ UNCHANGED raced
         \/ job'.at = "snapped" /\ job'.task.section = "web" /\ job'.live = live.web /\ raced' = (raced \/ tray.at # "none")
<1>1. CASE /\ t.section = "general" /\ UNCHANGED <<waiting, raced>>
           /\ job' = [at |-> "ready", task |-> t, file |-> t.body, live |-> LiveGeneral(env, t.body),
                      restart |-> GeneralRestart(LiveGeneral(env, t.body))]
  BY <1>1, Zenon
<1>2. CASE /\ t.section \in Lists /\ UNCHANGED <<waiting, raced>>
           /\ job' = [at |-> "ready", task |-> t, file |-> t.body, live |-> LiveMap(env, t.section, t.body),
                      restart |-> t.section = "folder"]
  BY <1>2, Zenon
<1>3. CASE job' = NoJob /\ UNCHANGED raced
  BY <1>3, Zenon DEF NoJob
<1>4. CASE /\ t.section = "web" /\ raced' = (raced \/ tray.at # "none")
           /\ job' = [at |-> "snapped", task |-> t, live |-> live.web]
  BY <1>4, Zenon
<1> QED
  BY <1>1, <1>2, <1>3, <1>4, Zenon DEF Taken

\* The fields of a job whose form was accepted.
LEMMA CheckedJob ==
  ASSUME NEW file, NEW next, Checked(file, next)
  PROVE  /\ job'.at = "ready" /\ job'.task = job.task /\ job'.file = file /\ job'.live = next
         /\ job'.restart = WebRestart(mem.web, file)
BY Zenon DEF Checked

\* The tray's dialog is opened only where no variable sets the password.
LEMMA TrayOwnNext ==
  ASSUME TrayOwn, [Next]_vars
  PROVE  TrayOwn'
<1>1. UNCHANGED env
  BY Zenon DEF Next, vars, StartConfig, StartWebServer, ResetUIPassword, SendGeneral, SendMap, SendWebserver, Send,
     GiveUp, TakeTask, CheckWebserver, CommitConfig, CommitFails, TraySet, TrayRead, TraySync, TrayWrite, Crash, MaybeRestart
<1>2. CASE \E ok \in BOOLEAN : StartWebServer(ok)
  <2>1. built' = [debug |-> live.general.debug, listen |-> live.web.listen, folder |-> live.maps["folder"],
                 dialog |-> env.pw = NoPw /\ ~Proxied(live.web.pw)] /\ UNCHANGED tray
    BY <1>2, Zenon DEF StartWebServer
  <2>2. built'.dialog => env.pw = NoPw
    BY <2>1, Zenon
  <2> QED
    BY <1>1, <2>1, <2>2, Zenon DEF TrayOwn
<1>3. CASE TraySet
  <2>1. built.dialog /\ UNCHANGED built
    BY <1>3, Zenon DEF TraySet
  <2> QED
    BY <1>1, <2>1, Zenon DEF TrayOwn
<1>4. CASE TrayRead \/ TraySync
  <2>1. (tray.at = "set" \/ tray.at = "read") /\ UNCHANGED built
    BY <1>4, Zenon DEF TrayRead, TraySync
  <2>2. tray.at # "none"
    BY <2>1
  <2> QED
    BY <1>1, <2>1, <2>2, Zenon DEF TrayOwn
<1>5. CASE TrayWrite \/ Crash
  <2>1. tray' = TrayIdle /\ UNCHANGED built
    BY <1>5, Zenon DEF TrayWrite, Crash, Gone
  <2>2. tray'.at = "none"
    BY <2>1 DEF TrayIdle
  <2> QED
    BY <1>1, <2>1, <2>2, Zenon DEF TrayOwn
<1>6. CASE MaybeRestart
  <2>1. (tray' = TrayIdle \/ UNCHANGED tray) /\ UNCHANGED built
    BY <1>6, Zenon DEF MaybeRestart, Gone
  <2>2. tray'.at = "none" \/ UNCHANGED tray
    BY <2>1 DEF TrayIdle
  <2> QED
    BY <1>1, <2>1, <2>2, Zenon DEF TrayOwn
<1>7. CASE /\ ~(\E ok \in BOOLEAN : StartWebServer(ok)) /\ ~TraySet /\ ~TrayRead /\ ~TraySync /\ ~TrayWrite
           /\ ~Crash /\ ~MaybeRestart
  <2>1. UNCHANGED <<tray, built>>
    BY <1>7, Zenon DEF Next, vars, StartConfig, ResetUIPassword, SendGeneral, SendMap, SendWebserver, Send,
       GiveUp, TakeTask, CheckWebserver, CommitConfig, CommitFails
  <2> QED
    BY <1>1, <2>1, Zenon DEF TrayOwn
<1> QED
  BY <1>2, <1>3, <1>4, <1>5, <1>6, <1>7, Zenon

\* Accounts at every step.
LEMMA AccountsNext ==
  ASSUME Values, Accounts, Quiet, KeysHold, [Next]_vars
  PROVE  Accounts'
<1>1. InForce' /\ TrayOwn'
  <2>1. TrayOwn
    BY Zenon DEF Accounts, TrayOwn
  <2> QED
    BY <2>1, InForceNext, TrayOwnNext
<1> DEFINE J == job.at = "ready" /\ job.task.section = "web" => ValidAuth(job.live)
<1>2. J
  BY Zenon DEF Accounts
<1>3. J'
  <2>1. CASE UNCHANGED job
    BY <1>2, <2>1, Zenon
  <2>2. CASE job' = NoJob
    <3>1. job'.at # "ready"
      BY <2>2 DEF NoJob
    <3> QED
      BY <3>1, Zenon
  <2>3. CASE \E t : Taken(t)
    <3>1. job'.at # "ready" \/ job'.task.section # "web"
      BY <2>3, TakenJob DEF Lists
    <3> QED
      BY <3>1, Zenon
  <2>4. CASE \E file, next : Checked(file, next)
    <3>1. PICK file, next : Checked(file, next)
      BY <2>4
    <3>2. job'.live = next /\ ValidAuth(next)
      BY <3>1, CheckedJob, Zenon DEF Checked
    <3> QED
      BY <3>2, Zenon
  <2> QED
    BY <2>1, <2>2, <2>3, <2>4, JobNext, Zenon
<1> QED
  BY <1>1, <1>3, Zenon DEF Accounts, InForce, TrayOwn

\* Only a start makes a process.
LEMMA AliveNext ==
  ASSUME [Next]_vars, ~(\E ok \in BOOLEAN : StartConfig(ok))
  PROVE  /\ Alive' => Alive
         /\ Running' => Running \/ \E ok \in BOOLEAN : StartWebServer(ok)
         /\ phase' = "auth" => phase = "auth"
<1>1. CASE \E ok \in BOOLEAN : StartWebServer(ok)
  <2>1. phase = "auth" /\ phase' = "up"
    BY <1>1, Zenon DEF StartWebServer
  <2> QED
    BY <1>1, <2>1 DEF Alive
<1>2. CASE Crash
  <2>1. phase' = "down"
    BY <1>2, Zenon DEF Crash, Gone
  <2> QED
    BY <2>1 DEF Alive, Running
<1>3. CASE MaybeRestart
  <2>1. Running /\ (phase' = phase \/ phase' = "headless" \/ phase' = "down")
    BY <1>3, Zenon DEF MaybeRestart, Gone
  <2> QED
    BY <2>1 DEF Running, Alive
<1>4. CASE ~(\E ok \in BOOLEAN : StartWebServer(ok)) /\ ~Crash /\ ~MaybeRestart
  <2>1. UNCHANGED phase
    BY <1>4, Zenon DEF Next, vars, ResetUIPassword, SendGeneral, SendMap, SendWebserver, Send, GiveUp,
       TakeTask, CheckWebserver, CommitConfig, CommitFails, TraySet, TrayRead, TraySync, TrayWrite
  <2> QED
    BY <2>1, Zenon DEF Alive, Running
<1> QED
  BY <1>1, <1>2, <1>3, <1>4

\* What runs, apart from the web server section, as Started and Keyed have it.
LEMMA StartedParts ==
  ASSUME Values, NEW pw, Started(pw)
  PROVE  /\ live'.general = LiveGeneral(env, mem'.general) /\ \A l \in Lists : live'.maps[l] = LiveMap(env, l, mem'.maps[l])
         /\ mem'.general = disk'.general /\ mem'.maps = disk'.maps /\ mem'.web.listen = disk'.web.listen
         /\ live'.web.listen = mem'.web.listen /\ mem'.web.keys = disk.web.keys /\ disk'.web.keys = disk.web.keys
         /\ live'.web.keys = Expanded(LiveKeys(env, disk.web.keys)) /\ live'.web.pw = pw
<1>1. PICK d \in FileDoc(env, n.made) : d = disk
  BY ValuesFacts
<1>2. PICK x : x = [d EXCEPT !.web.pw = pw]
  OBVIOUS
<1>3. x.general = d.general /\ x.maps = d.maps /\ x.web.keys = d.web.keys /\ x.web.listen = d.web.listen
  BY <1>2, DocPw
<1>4. PICK f : f = mem'
  OBVIOUS
<1>5. f = d \/ f = x
  BY <1>1, <1>2, <1>4, Zenon DEF Started
<1>6. PICK y : y = disk'
  OBVIOUS
<1>7. y = d \/ y = f
  BY <1>1, <1>4, <1>6, Zenon DEF Started
<1>8. PICK ks : ks = Expanded(LiveKeys(env, d.web.keys))
  OBVIOUS
<1>9. PICK w : w = [d.web EXCEPT !.pw = pw, !.keys = ks]
  OBVIOUS
<1>10. w.listen = d.web.listen /\ w.pw = pw /\ w.keys = ks
  BY <1>9 DEF FileDoc, Document, Web
<1>11. PICK g, ms, p : g = LiveGeneral(env, d.general) /\ ms = [l \in Lists |-> LiveMap(env, l, d.maps[l])] /\ p = KeyPerms(w)
  OBVIOUS
<1>12. live' = [general |-> g, maps |-> ms, web |-> w, perms |-> p]
  BY <1>1, <1>8, <1>9, <1>11, Zenon DEF Started
<1>13. PICK lv : lv = live' /\ lv.general = g /\ lv.maps = ms /\ lv.web = w
  BY <1>12
<1>14. f.general = d.general /\ f.maps = d.maps /\ f.web.listen = d.web.listen /\ f.web.keys = d.web.keys
  BY <1>3, <1>5
<1>15. y.general = d.general /\ y.maps = d.maps /\ y.web.listen = d.web.listen /\ y.web.keys = d.web.keys
  BY <1>7, <1>14
<1>16. \A l \in Lists : ms[l] = LiveMap(env, l, d.maps[l])
  BY <1>11, Zenon
<1> QED
  BY <1>1, <1>4, <1>6, <1>8, <1>10, <1>11, <1>13, <1>14, <1>15, <1>16, Zenon

\* What the setup of the admin key leaves alone.
LEMMA KeyedParts ==
  ASSUME Values, NEW x, NEW d, Keyed(x, d)
  PROVE  /\ live'.general = live.general /\ live'.maps = live.maps /\ live'.web = x
         /\ x.listen = live.web.listen /\ x.pw = live.web.pw
         /\ mem'.general = mem.general /\ mem'.maps = mem.maps /\ mem'.web.listen = mem.web.listen /\ mem'.web.pw = mem.web.pw
         /\ mem'.web.keys = d.web.keys /\ (disk' = disk \/ (path /\ disk' = mem'))
<1>1. PICK m \in FileDoc(env, n.made) : m = mem
  BY ValuesFacts
<1>2. PICK f : f = mem' /\ f = d
  BY Zenon DEF Keyed
<1>3. PICK ks : ks = d.web.keys
  OBVIOUS
<1>4. f = [m EXCEPT !.web.keys = ks]
  BY <1>1, <1>2, <1>3, Zenon DEF Keyed
<1>5. f.general = m.general /\ f.maps = m.maps /\ f.web.pw = m.web.pw /\ f.web.keys = ks /\ f.web.listen = m.web.listen
  BY <1>4 DEF FileDoc, Document, Web
<1>6. PICK w \in Web(Password(FileKinds), Used(n.made)) : w = live.web
  BY ValuesFacts
<1>7. PICK xs : xs = x.keys
  OBVIOUS
<1>8. x = [w EXCEPT !.keys = xs]
  BY <1>6, <1>7, Zenon DEF Keyed
<1>9. x.listen = w.listen /\ x.pw = w.pw
  BY <1>8 DEF Web
<1>10. PICK p : p = KeyPerms(x)
  OBVIOUS
<1>11. live' = [general |-> live.general, maps |-> live.maps, web |-> x, perms |-> p]
  BY <1>10, Zenon DEF Keyed
<1>12. live'.general = live.general /\ live'.maps = live.maps /\ live'.web = x
  BY <1>11
<1>13. disk' = disk \/ (path /\ disk' = mem')
  BY <1>2, Zenon DEF Keyed
<1> QED
  BY <1>1, <1>2, <1>3, <1>5, <1>6, <1>9, <1>12, <1>13, Zenon

\* What a change at the tray leaves alone.
LEMMA TrayParts ==
  ASSUME Values, TraySet \/ TraySync
  PROVE  /\ live'.general = live.general /\ live'.maps = live.maps /\ live'.web.keys = live.web.keys
         /\ live'.web.listen = live.web.listen
         /\ mem'.general = mem.general /\ mem'.maps = mem.maps /\ mem'.web.listen = mem.web.listen
         /\ mem'.web.keys = mem.web.keys /\ UNCHANGED <<env, path, disk, phase, job, pending, built, manual>>
<1>1. UNCHANGED <<env, path, disk, phase, job, pending, built, manual>>
  BY Zenon DEF TraySet, TraySync, ghosts
<1>2. CASE TraySet
  <2>1. PICK t \in TrayTexts : live' = [live EXCEPT !.web.pw = Hash(t)]
    BY <1>2, Zenon DEF TraySet
  <2>2. PICK l : l = live /\ LiveOK(n.made, l)
    BY DEF Values
  <2>3. PICK x : x = [l EXCEPT !.web.pw = Hash(t)]
    OBVIOUS
  <2>4. x.general = l.general /\ x.maps = l.maps /\ x.web.keys = l.web.keys /\ x.web.listen = l.web.listen
    BY <2>2, <2>3, LivePassword
  <2>5. UNCHANGED mem /\ live' = x
    BY <1>2, <2>1, <2>2, <2>3, Zenon DEF TraySet
  <2> QED
    BY <1>1, <2>2, <2>4, <2>5, Zenon
<1>3. CASE TraySync
  <2>1. PICK p : p = tray.pass
    OBVIOUS
  <2>2. PICK d \in FileDoc(env, n.made) : d = mem
    BY ValuesFacts
  <2>3. PICK x : x = [d EXCEPT !.web.pw = p]
    OBVIOUS
  <2>4. x.general = d.general /\ x.maps = d.maps /\ x.web.keys = d.web.keys /\ x.web.listen = d.web.listen
    BY <2>3, DocPw
  <2>5. UNCHANGED live /\ mem' = x
    BY <1>3, <2>1, <2>2, <2>3, Zenon DEF TraySync
  <2> QED
    BY <1>1, <2>2, <2>4, <2>5, Zenon
<1> QED
  BY <1>2, <1>3

-----------------------------------------------------------------------------
(* What runs and what is written.                                          *)

\* What a commit does.
Committed(d, lv) ==
  /\ Running /\ job.at = "ready" /\ job' = NoJob /\ Saved(d, lv)
  /\ mem' = d /\ live' = lv /\ disk' = (IF path THEN d ELSE disk)
  /\ pending' = (pending \/ job.restart)
  /\ told' = IF job.task.section = "web" /\ job.file.pw # mem.web.pw THEN None ELSE told
  /\ UNCHANGED <<env, path, phase, tray, built, n, raced, manual>>

\* Steps that write neither what runs nor the document in memory.
Still ==
  /\ UNCHANGED <<mem, live>>
  /\ ~(\E ok \in BOOLEAN : StartConfig(ok)) /\ ~(\E ok \in BOOLEAN : StartWebServer(ok))
  /\ ~CommitConfig /\ ~TraySet /\ ~TraySync
  /\ disk' = disk \/ ResetUIPassword \/ TrayWrite \/ Crash

\* The steps, by what they write.
LEMMA StepCases ==
  ASSUME Values, Accounts, Quiet, KeysHold, [Next]_vars
  PROVE  /\ UNCHANGED <<env, path>>
         /\ \/ \E pw \in LivePw : Started(pw)
            \/ (\E ok \in BOOLEAN : StartWebServer(ok)) /\ phase = "auth" /\ phase' = "up" /\ \E x, d : Keyed(x, d)
            \/ CommitConfig /\ \E d, lv : Committed(d, lv)
            \/ TraySet \/ TraySync
            \/ Still
<1>1. UNCHANGED <<env, path>>
  BY Zenon DEF Next, vars, StartConfig, StartWebServer, ResetUIPassword, SendGeneral, SendMap, SendWebserver, Send,
     GiveUp, TakeTask, CheckWebserver, CommitConfig, CommitFails, TraySet, TrayRead, TraySync, TrayWrite, Crash, MaybeRestart
<1>2. CASE \E ok \in BOOLEAN : StartConfig(ok)
  BY <1>1, <1>2, StartFacts, Zenon
<1>3. CASE \E ok \in BOOLEAN : StartWebServer(ok)
  <2>1. PICK ok \in BOOLEAN : StartWebServer(ok)
    BY <1>3
  <2>2. SetupAdminAPIKey(ok) /\ phase = "auth" /\ phase' = "up"
    BY <2>1, Zenon DEF StartWebServer
  <2>3. KeysBefore
    BY <2>2 DEF KeysBefore, Accounts, KeysHold, DistinctOK, LinkOK, Alive
  <2>4. \E x, d : Keyed(x, d)
    BY <2>2, <2>3, KeysUp
  <2> QED
    BY <1>1, <1>3, <2>2, <2>4, Zenon
<1>4. CASE CommitConfig
  <2>1. PICK d : d = Staged(job.task.section, job.file)
    OBVIOUS
  <2>2. PICK lv : lv = ApplyLive(job.task.section, job.live)
    OBVIOUS
  <2>3. /\ Running /\ job.at = "ready" /\ Reply(job.task.id) /\ mem' = d /\ live' = lv /\ disk' = (IF path THEN mem' ELSE disk)
        /\ pending' = (pending \/ job.restart)
        /\ told' = IF job.task.section = "web" /\ job.file.pw # mem.web.pw THEN None ELSE told
        /\ UNCHANGED <<env, path, phase, tray, built, n, raced, manual>>
    BY <1>4, <2>1, <2>2, Zenon DEF CommitConfig
  <2>4. Saved(d, lv)
    BY <2>1, <2>2, <2>3, SavedFacts
  <2>5. job' = NoJob
    BY <2>3, Zenon DEF Reply
  <2>6. Committed(d, lv)
    BY <2>3, <2>4, <2>5, Zenon DEF Committed
  <2> QED
    BY <1>1, <1>4, <2>6, Zenon
<1>5. CASE ~(\E ok \in BOOLEAN : StartConfig(ok)) /\ ~(\E ok \in BOOLEAN : StartWebServer(ok)) /\ ~CommitConfig /\ ~TraySet /\ ~TraySync
  <2>1. UNCHANGED <<mem, live>>
    BY <1>5, Zenon DEF Next, vars, store, ResetUIPassword, SendGeneral, SendMap, SendWebserver, Send, GiveUp,
       TakeTask, CheckWebserver, CommitFails, TrayRead, TrayWrite, Crash, MaybeRestart
  <2>2. disk' = disk \/ ResetUIPassword \/ TrayWrite \/ Crash
    BY <1>5, Zenon DEF Next, vars, store, SendGeneral, SendMap, SendWebserver, Send, GiveUp,
       TakeTask, CheckWebserver, CommitFails, TrayRead, MaybeRestart
  <2> QED
    BY <1>1, <1>5, <2>1, <2>2, Zenon DEF Still
<1> QED
  BY <1>1, <1>2, <1>3, <1>4, <1>5, Zenon

\* Neither do the other steps change them on disk.
LEMMA StillAlike ==
  ASSUME Values, Still, [Next]_vars
  PROVE  (Alive' => Alive) /\ (phase' = "auth" => phase = "auth") /\ (Running' => Running)
         /\ (Alive' => disk' = mem \/ Alike(disk', disk))
<1>1. (Alive' => Alive) /\ (phase' = "auth" => phase = "auth") /\ (Running' => Running)
  BY AliveNext, Zenon DEF Still
<1>2. CASE disk' = disk
  BY <1>1, <1>2, Zenon DEF Alike
<1>3. CASE ResetUIPassword
  <2>1. PICK p : p = Hash(Fresh[n.made + 1])
    OBVIOUS
  <2>2. PICK d \in FileDoc(env, n.made) : d = disk
    BY ValuesFacts
  <2>3. PICK x : x = [d EXCEPT !.web.pw = p]
    OBVIOUS
  <2>4. x.general = d.general /\ x.maps = d.maps /\ x.web.listen = d.web.listen
    BY <2>3, DocPw
  <2>5. disk' = x
    BY <1>3, <2>1, <2>2, <2>3, Zenon DEF ResetUIPassword
  <2> QED
    BY <1>1, <2>2, <2>4, <2>5, Zenon DEF Alike
<1>4. CASE TrayWrite
  <2>1. disk' = mem \/ UNCHANGED disk
    BY <1>4, Zenon DEF TrayWrite
  <2> QED
    BY <1>1, <1>2, <2>1, Zenon
<1>5. CASE Crash
  <2>1. phase' = "down"
    BY <1>5, Zenon DEF Crash, Gone
  <2>2. ~Alive'
    BY <2>1 DEF Alive
  <2> QED
    BY <1>1, <2>2, Zenon
<1> QED
  BY <1>2, <1>3, <1>4, <1>5, Zenon DEF Still

\* The disk at every step.
LEMMA DiskNext ==
  ASSUME Values, Accounts, Quiet, KeysHold, DiskSync, [Next]_vars
  PROVE  DiskSync'
<1>1. UNCHANGED path
  BY StepCases, Zenon
<1>2. CASE \E pw \in LivePw : Started(pw)
  <2>1. mem'.general = disk'.general /\ mem'.maps = disk'.maps /\ mem'.web.listen = disk'.web.listen
    BY <1>2, StartedParts
  <2> QED
    BY <2>1, Zenon DEF DiskSync, Alike
<1>3. CASE phase = "auth" /\ \E x, d : Keyed(x, d)
  <2>1. mem'.general = mem.general /\ mem'.maps = mem.maps /\ mem'.web.listen = mem.web.listen
        /\ (disk' = disk \/ (path /\ disk' = mem'))
    BY <1>3, KeyedParts, Zenon
  <2>2. Alive
    BY <1>3 DEF Alive
  <2> QED
    BY <1>1, <2>1, <2>2, Zenon DEF DiskSync, Alike
<1>4. CASE \E d, lv : Committed(d, lv)
  <2>1. path => disk' = mem'
    BY <1>4, Zenon DEF Committed
  <2> QED
    BY <1>1, <2>1, Zenon DEF DiskSync, Alike
<1>5. CASE TraySet \/ TraySync
  <2>1. mem'.general = mem.general /\ mem'.maps = mem.maps /\ mem'.web.listen = mem.web.listen /\ UNCHANGED <<disk, phase>>
    BY <1>5, TrayParts, Zenon
  <2> QED
    BY <1>1, <2>1, Zenon DEF DiskSync, Alike, Alive
<1>6. CASE Still
  <2>1. UNCHANGED mem /\ (Alive' => Alive) /\ (Alive' => disk' = mem \/ Alike(disk', disk))
    BY <1>6, StillAlike, Zenon DEF Still
  <2> QED
    BY <1>1, <2>1, Zenon DEF DiskSync, Alike
<1> QED
  BY <1>2, <1>3, <1>4, <1>5, <1>6, StepCases, Zenon


\* What runs, after a commit.
LEMMA SavedLive ==
  ASSUME Values, LiveSync, CommitOK, Alive, NEW d, NEW lv, Saved(d, lv)
  PROVE  lv.general = LiveGeneral(env, d.general) /\ \A l \in Lists : lv.maps[l] = LiveMap(env, l, d.maps[l])
<1>1. live.general = LiveGeneral(env, mem.general) /\ \A l \in Lists : live.maps[l] = LiveMap(env, l, mem.maps[l])
  BY Zenon DEF LiveSync
<1>2. CASE /\ job.at = "ready" /\ job.task.section = "general" /\ d.general = job.file /\ d.maps = mem.maps
           /\ lv.general = job.live /\ lv.maps = live.maps
  BY <1>1, <1>2, Zenon DEF CommitOK
<1>3. CASE /\ job.at = "ready" /\ job.task.section \in Lists /\ d.general = mem.general
           /\ d.maps = [mem.maps EXCEPT ![job.task.section] = job.file]
           /\ lv.maps = [live.maps EXCEPT ![job.task.section] = job.live]
           /\ lv.general = live.general
  <2>1. PICK sec, f, j, ms, ls : sec = job.task.section /\ f = job.file /\ j = job.live /\ ms = mem.maps /\ ls = live.maps
    OBVIOUS
  <2>2. DOMAIN ms = Lists /\ DOMAIN ls = Lists
    <3>1. PICK m \in FileDoc(env, n.made) : m = mem
      BY ValuesFacts
    <3>2. m.maps \in [Lists -> Instances(MapKeys(env))]
      BY DocParts
    <3>3. live.maps \in [Lists -> Instances(Texts)]
      BY DEF Values, LiveOK
    <3> QED
      BY <2>1, <3>1, <3>2, <3>3
  <2>3. j = LiveMap(env, sec, f) /\ sec \in Lists
    BY <1>3, <2>1, Zenon DEF CommitOK
  <2>4. \A l \in Lists : l # sec => d.maps[l] = ms[l] /\ lv.maps[l] = ls[l]
    BY <1>3, <2>1, <2>2
  <2>5. d.maps[sec] = f /\ lv.maps[sec] = j
    BY <1>3, <2>1, <2>2, <2>3
  <2>6. ASSUME NEW l \in Lists
        PROVE  lv.maps[l] = LiveMap(env, l, d.maps[l])
    <3>1. CASE l = sec
      BY <2>3, <2>5, <3>1, Zenon
    <3>2. CASE l # sec
      BY <1>1, <2>1, <2>4, <3>2, Zenon
    <3> QED
      BY <3>1, <3>2
  <2> QED
    BY <1>1, <1>3, <2>6, Zenon
<1>4. CASE d.general = mem.general /\ d.maps = mem.maps /\ lv.general = live.general /\ lv.maps = live.maps
  BY <1>1, <1>4, Zenon
<1> QED
  BY <1>2, <1>3, <1>4, Zenon DEF Saved

\* What runs, at every step.
LEMMA LiveNext ==
  ASSUME Values, Accounts, Quiet, KeysHold, LiveSync, CommitOK, [Next]_vars
  PROVE  LiveSync'
<1>1. UNCHANGED env
  BY StepCases, Zenon
<1>2. CASE \E pw \in LivePw : Started(pw)
  <2>1. /\ live'.general = LiveGeneral(env, mem'.general) /\ \A l \in Lists : live'.maps[l] = LiveMap(env, l, mem'.maps[l])
        /\ live'.web.listen = mem'.web.listen
    BY <1>2, StartedParts
  <2> QED
    BY <1>1, <2>1, Zenon DEF LiveSync
<1>3. CASE phase = "auth" /\ phase' = "up" /\ \E x, d : Keyed(x, d)
  <2>1. mem'.general = mem.general /\ mem'.maps = mem.maps /\ live'.general = live.general /\ live'.maps = live.maps
    BY <1>3, KeyedParts, Zenon
  <2>2. Alive /\ phase' # "auth"
    BY <1>3 DEF Alive
  <2> QED
    BY <1>1, <2>1, <2>2, Zenon DEF LiveSync
<1>4. CASE \E d, lv : Committed(d, lv)
  <2>1. PICK d, lv : Committed(d, lv)
    BY <1>4
  <2>2. Alive /\ phase # "auth"
    BY <2>1 DEF Committed, Running, Alive
  <2>3. Saved(d, lv) /\ mem' = d /\ live' = lv /\ UNCHANGED phase
    BY <2>1, Zenon DEF Committed
  <2>4. lv.general = LiveGeneral(env, d.general) /\ \A l \in Lists : lv.maps[l] = LiveMap(env, l, d.maps[l])
    BY <2>2, <2>3, SavedLive
  <2> QED
    BY <1>1, <2>2, <2>3, <2>4, Zenon DEF LiveSync
<1>5. CASE TraySet \/ TraySync
  <2>1. mem'.general = mem.general /\ mem'.maps = mem.maps /\ live'.general = live.general /\ live'.maps = live.maps
        /\ live'.web.listen = live.web.listen /\ mem'.web.listen = mem.web.listen /\ UNCHANGED phase
    BY <1>5, TrayParts, Zenon
  <2> QED
    BY <1>1, <2>1, Zenon DEF LiveSync, Alive
<1>6. CASE Still
  <2>1. UNCHANGED <<mem, live>> /\ (Alive' => Alive) /\ (phase' = "auth" => phase = "auth")
    BY <1>6, StillAlike, Zenon DEF Still
  <2> QED
    BY <1>1, <2>1, Zenon DEF LiveSync
<1> QED
  BY <1>2, <1>3, <1>4, <1>5, <1>6, StepCases, Zenon

\* A job that goes on keeps the main loop, so nobody else writes what it was compared with.
LEMMA JobStays ==
  ASSUME Values, Accounts, Quiet, KeysHold, [Next]_vars, UNCHANGED job, job # NoJob
  PROVE  /\ Running /\ live'.general = live.general /\ live'.maps = live.maps /\ live'.web.keys = live.web.keys
         /\ mem'.general = mem.general /\ mem'.maps = mem.maps
         /\ mem'.web.listen = mem.web.listen /\ mem'.web.keys = mem.web.keys
<1>1. Running
  BY DEF Quiet
<1>2. ~(\E pw \in LivePw : Started(pw))
  BY <1>1 DEF Started, Running
<1>3. phase # "auth"
  BY <1>1 DEF Running
<1>4. ~(\E d, lv : Committed(d, lv))
  BY Zenon DEF Committed
<1>5. CASE TraySet \/ TraySync
  BY <1>1, <1>5, TrayParts, Zenon
<1>6. CASE Still
  BY <1>1, <1>6, Zenon DEF Still
<1> QED
  BY <1>2, <1>3, <1>4, <1>5, <1>6, StepCases, Zenon

\* The job at every step.
LEMMA JobSyncNext ==
  ASSUME Values, Accounts, Quiet, KeysHold, CommitOK, RestartOK, [Next]_vars
  PROVE  CommitOK' /\ RestartOK'
<1>1. UNCHANGED env
  BY StepCases, Zenon
<1>2. CASE job' = NoJob
  <2>1. job'.at # "ready"
    BY <1>2 DEF NoJob
  <2> QED
    BY <2>1, Zenon DEF CommitOK, RestartOK
<1>3. CASE UNCHANGED job /\ job # NoJob
  <2>1. live'.general = live.general /\ mem'.web.listen = mem.web.listen
    BY <1>3, JobStays
  <2> QED
    BY <1>1, <1>3, <2>1, Zenon DEF CommitOK, RestartOK
<1>4. CASE TakeTask /\ \E t : Taken(t)
  <2>1. PICK t : Taken(t)
    BY <1>4
  <2>2. UNCHANGED <<live, mem>>
    BY <1>4, Zenon DEF TakeTask, store
  <2>3. CASE job'.at = "ready" /\ job'.task = t /\ job'.task.section = "general" /\ job'.file = t.body
            /\ job'.live = LiveGeneral(env, t.body) /\ job'.restart = GeneralRestart(LiveGeneral(env, t.body))
    <3>1. job'.task.section \notin Lists /\ job'.task.section # "web"
      BY <2>3 DEF Lists
    <3>2. job'.restart <=> job'.live.debug # live'.general.debug
      BY <2>2, <2>3, Zenon DEF GeneralRestart
    <3> QED
      BY <1>1, <2>3, <3>1, <3>2, Zenon DEF CommitOK, RestartOK
  <2>4. CASE job'.at = "ready" /\ job'.task = t /\ t.section \in Lists /\ job'.task.section \in Lists /\ job'.file = t.body
            /\ job'.live = LiveMap(env, t.section, t.body) /\ job'.restart = (t.section = "folder")
    <3>1. job'.task.section # "general" /\ job'.task.section # "web"
      BY <2>4 DEF Lists
    <3>2. job'.restart <=> job'.task.section = "folder"
      BY <2>4, Zenon
    <3> QED
      BY <1>1, <2>4, <3>1, <3>2, Zenon DEF CommitOK, RestartOK
  <2>5. CASE job'.at = "none" \/ job'.at = "snapped"
    <3>1. job'.at # "ready"
      BY <2>5
    <3> QED
      BY <3>1, Zenon DEF CommitOK, RestartOK
  <2> QED
    BY <2>1, <2>3, <2>4, <2>5, TakenJob, Zenon
<1>5. CASE CheckWebserver /\ job.task.section = "web" /\ \E file, next : Checked(file, next)
  <2>1. PICK file, next : Checked(file, next)
    BY <1>5
  <2>2. job'.task = job.task /\ job'.file = file /\ job'.restart = WebRestart(mem.web, file)
    BY <2>1, CheckedJob
  <2>3. UNCHANGED <<live, mem>>
    BY <1>5, Zenon DEF CheckWebserver, store
  <2>4. job'.task.section # "general" /\ job'.task.section \notin Lists
    BY <1>5, <2>2 DEF Lists
  <2>5. job'.restart <=> mem'.web.listen # job'.file.listen
    BY <2>2, <2>3, Zenon DEF WebRestart
  <2> QED
    BY <2>4, <2>5, Zenon DEF CommitOK, RestartOK
<1> QED
  BY <1>2, <1>3, <1>4, <1>5, JobNext, Zenon

\* Nothing but a commit and the start of the web server brings the two apart.
LEMMA BuiltNext ==
  ASSUME Values, Accounts, Quiet, KeysHold, LiveSync, RestartOK, BuiltSync, [Next]_vars
  PROVE  BuiltSync'
<1>1. CASE \E pw \in LivePw : Started(pw)
  <2>1. phase' = "auth" \/ phase' = "exited"
    BY <1>1 DEF Started
  <2> QED
    BY <2>1 DEF BuiltSync, Running
<1>2. CASE (\E ok \in BOOLEAN : StartWebServer(ok)) /\ phase = "auth" /\ phase' = "up" /\ \E x, d : Keyed(x, d)
  <2>1. live'.general = live.general /\ live'.maps = live.maps /\ mem'.web.listen = mem.web.listen
    BY <1>2, KeyedParts, Zenon
  <2>2. PICK a, b, c : a = live.general.debug /\ b = live.web.listen /\ c = live.maps["folder"]
    OBVIOUS
  <2>3. PICK g : g = (env.pw = NoPw /\ ~Proxied(live.web.pw))
    OBVIOUS
  <2>4. built' = [debug |-> a, listen |-> b, folder |-> c, dialog |-> g]
    BY <1>2, <2>2, <2>3, Zenon DEF StartWebServer
  <2>5. built'.debug = a /\ built'.listen = b /\ built'.folder = c
    BY <2>4
  <2>6. live.web.listen = mem.web.listen
    BY <1>2, Zenon DEF LiveSync
  <2>7. Fits(built', live', mem')
    BY <2>1, <2>2, <2>5, <2>6, Zenon DEF Fits
  <2> QED
    BY <2>7, Zenon DEF BuiltSync, Fits
<1>3. CASE \E d, lv : Committed(d, lv)
  <2>1. PICK d, lv : Committed(d, lv)
    BY <1>3
  <2>2. Running /\ mem' = d /\ live' = lv /\ UNCHANGED <<phase, built, manual>> /\ Saved(d, lv) /\ job.at = "ready"
    BY <2>1, Zenon DEF Committed
  <2>3. pending' <=> pending \/ job.restart
    BY <2>1, Zenon DEF Committed
  <2>4. CASE ~manual /\ Fits(built, live, mem) /\ ~job.restart
    <3>1. CASE /\ job.task.section = "general" /\ d.maps = mem.maps /\ d.web = mem.web
               /\ lv.general = job.live /\ lv.maps = live.maps
      BY <2>2, <2>4, <3>1, Zenon DEF BuiltSync, Fits, RestartOK
    <3>2. CASE /\ job.task.section \in Lists /\ d.web = mem.web /\ lv.general = live.general
               /\ lv.maps = [live.maps EXCEPT ![job.task.section] = job.live]
      <4>1. job.task.section # "folder"
        BY <2>2, <2>4, <3>2, Zenon DEF RestartOK
      <4>2. PICK sec, j, ls : sec = job.task.section /\ j = job.live /\ ls = live.maps
        OBVIOUS
      <4>3. ls \in [Lists -> Instances(Texts)]
        BY <4>2 DEF Values, LiveOK
      <4>4. lv.maps["folder"] = ls["folder"]
        BY <3>2, <4>1, <4>2, <4>3 DEF Lists
      <4> QED
        BY <2>2, <2>4, <3>2, <4>2, <4>4, Zenon DEF BuiltSync, Fits
    <3>3. CASE /\ job.task.section = "web" /\ d.web = job.file
               /\ lv.general = live.general /\ lv.maps = live.maps
      <4>1. mem.web.listen = job.file.listen
        BY <2>2, <2>4, <3>3, Zenon DEF RestartOK
      <4> QED
        BY <2>2, <2>4, <3>3, <4>1, Zenon DEF BuiltSync, Fits
    <3> QED
      BY <2>2, <3>1, <3>2, <3>3, Zenon DEF Saved
  <2> QED
    BY <2>2, <2>3, <2>4, Zenon DEF BuiltSync, Running
<1>4. CASE TraySet \/ TraySync
  <2>1. live'.general = live.general /\ live'.maps = live.maps /\ mem'.web.listen = mem.web.listen
        /\ UNCHANGED <<phase, built, pending, manual>>
    BY <1>4, TrayParts, Zenon
  <2> QED
    BY <2>1, Zenon DEF BuiltSync, Fits, Running
<1>5. CASE Still
  <2>1. UNCHANGED <<mem, live>> /\ (Running' => Running)
    BY <1>5, StillAlike, Zenon DEF Still
  <2>2. CASE MaybeRestart
    <3>1. Gone \/ manual' = TRUE
      BY <2>2, Zenon DEF MaybeRestart
    <3>2. Gone => phase' = "down"
      BY Zenon DEF Gone
    <3>3. ~Running' \/ manual'
      BY <3>1, <3>2, Zenon DEF Running
    <3> QED
      BY <3>3, Zenon DEF BuiltSync
  <2>3. CASE ~MaybeRestart
    <3>1. UNCHANGED <<built, pending, manual>>
      BY <1>5, <2>3, Zenon DEF Still, Next, vars, ghosts, ResetUIPassword, SendGeneral, SendMap, SendWebserver, Send, GiveUp,
         TakeTask, CheckWebserver, CommitFails, TrayRead, TrayWrite, Crash
    <3> QED
      BY <2>1, <3>1, Zenon DEF BuiltSync, Fits
  <2> QED
    BY <2>2, <2>3
<1> QED
  BY <1>1, <1>2, <1>3, <1>4, <1>5, StepCases, Zenon

-----------------------------------------------------------------------------
(* Passwords the user was told of.                                         *)

\* The tray's dialog is closed, or a live process has it open.
LEMMA TrayQuiet ==
  ASSUME Quiet, tray.at # "none"
  PROVE  Running
<1>1. tray # TrayIdle
  BY DEF TrayIdle
<1> QED
  BY <1>1 DEF Quiet

\* The dialog at every step.
LEMMA TrayHoldsNext ==
  ASSUME Values, Accounts, Quiet, KeysHold, TrayHolds, [Next]_vars
  PROVE  TrayHolds'
<1>1. CASE \E pw \in LivePw : Started(pw)
  <2>1. ~Running /\ UNCHANGED tray
    BY <1>1 DEF Started, Running
  <2>2. tray.at = "none"
    BY <2>1, TrayQuiet
  <2> QED
    BY <2>1, <2>2, Zenon DEF TrayHolds
<1>2. CASE (\E ok \in BOOLEAN : StartWebServer(ok)) /\ phase = "auth"
  <2>1. UNCHANGED tray
    BY <1>2, Zenon DEF StartWebServer
  <2>2. ~Running
    BY <1>2 DEF Running
  <2>3. tray.at = "none"
    BY <2>2, TrayQuiet
  <2> QED
    BY <2>1, <2>3, Zenon DEF TrayHolds
<1>3. CASE \E d, lv : Committed(d, lv)
  <2>1. PICK d, lv : Committed(d, lv)
    BY <1>3
  <2>2. mem' = d /\ live' = lv /\ job' = NoJob /\ Saved(d, lv) /\ (told' = told \/ told' = None) /\ UNCHANGED <<tray, raced>>
        /\ job # NoJob
    BY <2>1, Zenon DEF Committed, Saved
  <2>3. job.task.section # "web" => d.web = mem.web /\ lv.web = live.web
    BY <2>2, Zenon DEF Saved
  <2> QED
    BY <2>2, <2>3, Zenon DEF TrayHolds
<1>4. CASE TraySet
  <2>1. PICK t \in TrayTexts : live' = [live EXCEPT !.web.pw = Hash(t)] /\ tray' = [at |-> "set", text |-> t, pass |-> NoPw]
    BY <1>4, Zenon DEF TraySet
  <2>2. told' = None /\ UNCHANGED job /\ raced' = (job # NoJob /\ job.task.section = "web")
    BY <1>4, Zenon DEF TraySet
  <2>3. ~raced' => job' = NoJob \/ job'.task.section # "web"
    BY <2>2, Zenon
  <2>4. PICK l : l = live /\ LiveOK(n.made, l)
    BY DEF Values
  <2>5. PICK x : x = [l EXCEPT !.web.pw = Hash(t)]
    OBVIOUS
  <2>6. x.web.pw = Hash(t)
    BY <2>4, <2>5, LivePassword
  <2>7. live' = x
    BY <2>1, <2>4, <2>5, Zenon
  <2>8. tray'.text = t /\ tray'.at \notin {"read", "synced"} /\ tray'.at # "synced"
    BY <2>1
  <2> QED
    BY <2>2, <2>3, <2>6, <2>7, <2>8, Zenon DEF TrayHolds
<1>5. CASE TraySync
  <2>1. PICK p : p = tray.pass
    OBVIOUS
  <2>2. PICK m \in FileDoc(env, n.made) : m = mem
    BY ValuesFacts
  <2>3. PICK x : x = [m EXCEPT !.web.pw = p]
    OBVIOUS
  <2>4. x.web.pw = p
    BY <2>3, DocPw
  <2>5. PICK y : y = tray
    OBVIOUS
  <2>6. y.at = "read" /\ tray' = [y EXCEPT !.at = "synced"] /\ mem' = x /\ UNCHANGED <<live, job, told, raced>>
    BY <1>5, <2>1, <2>2, <2>3, <2>5, Zenon DEF TraySync, ghosts
  <2>7. y \in TraySteps
    BY <2>5 DEF Values
  <2>8. PICK z : z = tray'
    OBVIOUS
  <2>9. z.text = y.text /\ z.pass = y.pass /\ y.at # "none" /\ y.at \in {"read", "synced"}
    BY <2>6, <2>7, <2>8 DEF TraySteps, TrayIdle
  <2> QED
    BY <2>1, <2>4, <2>5, <2>6, <2>8, <2>9, Zenon DEF TrayHolds
<1>6. CASE Still
  <2>1. UNCHANGED <<mem, live>>
    BY <1>6, Zenon DEF Still
  <2>2. CASE ResetUIPassword
    <3>1. raced' = Alive /\ UNCHANGED tray
      BY <2>2, Zenon DEF ResetUIPassword, Alive
    <3>2. tray.at # "none" => Alive
      BY TrayQuiet DEF Running, Alive
    <3> QED
      BY <3>1, <3>2, Zenon DEF TrayHolds
  <2>3. CASE TakeTask
    <3>1. UNCHANGED <<tray, told>> /\ job = NoJob
      BY <2>3, Zenon DEF TakeTask
    <3>2. PICK t : Taken(t)
      BY <2>3, TakeFacts
    <3>3. CASE job'.task.section = "general" /\ UNCHANGED raced
      <4>1. job'.task.section # "web"
        BY <3>3
      <4> QED
        BY <2>1, <3>1, <3>3, <4>1, Zenon DEF TrayHolds
    <3>4. CASE job'.task.section \in Lists /\ UNCHANGED raced
      <4>1. job'.task.section # "web"
        BY <3>4 DEF Lists
      <4> QED
        BY <2>1, <3>1, <3>4, <4>1, Zenon DEF TrayHolds
    <3>5. CASE job' = NoJob /\ UNCHANGED raced
      BY <2>1, <3>1, <3>5, Zenon DEF TrayHolds
    <3>6. CASE raced' = (raced \/ tray.at # "none")
      BY <3>1, <3>6, Zenon DEF TrayHolds
    <3> QED
      BY <3>2, <3>3, <3>4, <3>5, <3>6, TakenJob, Zenon
  <2>4. CASE CheckWebserver
    <3>1. UNCHANGED <<tray, told, raced>> /\ job.at = "snapped"
      BY <2>4, Zenon DEF CheckWebserver, ghosts
    <3>2. job # NoJob
      BY <3>1 DEF NoJob
    <3>3. job.task.section = "web"
      BY <3>1, JobCases
    <3> QED
      BY <3>1, <3>2, <3>3, Zenon DEF TrayHolds
  <2>5. CASE TrayRead
    <3>1. PICK y, p : y = tray /\ p = live.web.pw
      OBVIOUS
    <3>2. y.at = "set" /\ tray' = [y EXCEPT !.at = "read", !.pass = p] /\ UNCHANGED <<job, told, raced>>
      BY <2>5, <3>1, Zenon DEF TrayRead, ghosts
    <3>3. y \in TraySteps
      BY <3>1 DEF Values
    <3>4. PICK z : z = tray'
      OBVIOUS
    <3>5. z.text = y.text /\ z.pass = p /\ z.at # "synced" /\ y.at # "none"
      BY <3>2, <3>3, <3>4 DEF TraySteps, TrayIdle
    <3> QED
      BY <2>1, <3>1, <3>2, <3>4, <3>5, Zenon DEF TrayHolds
  <2>6. CASE TrayWrite \/ Crash
    <3>1. tray' = TrayIdle
      BY <2>6, Zenon DEF TrayWrite, Crash, Gone
    <3>2. tray'.at = "none"
      BY <3>1 DEF TrayIdle
    <3> QED
      BY <3>2, Zenon DEF TrayHolds
  <2>7. CASE MaybeRestart
    <3>1. (tray' = TrayIdle \/ (UNCHANGED <<tray, job>>)) /\ UNCHANGED <<told, raced>>
      BY <2>7, Zenon DEF MaybeRestart, Gone
    <3>2. tray' = TrayIdle => tray'.at = "none"
      BY DEF TrayIdle
    <3> QED
      BY <2>1, <3>1, <3>2, Zenon DEF TrayHolds
  <2>8. CASE ~ResetUIPassword /\ ~TakeTask /\ ~CheckWebserver /\ ~TrayRead /\ ~TrayWrite /\ ~Crash /\ ~MaybeRestart
    <3>1. UNCHANGED <<tray, told, raced>> /\ (job' = NoJob \/ UNCHANGED job)
      BY <1>6, <2>8, Zenon DEF Still, Next, vars, ghosts, SendGeneral, SendMap, SendWebserver, Send, GiveUp, CommitFails, Reply
    <3> QED
      BY <2>1, <3>1, Zenon DEF TrayHolds
  <2> QED
    BY <2>2, <2>3, <2>4, <2>5, <2>6, <2>7, <2>8, Zenon
<1> QED
  BY <1>1, <1>2, <1>3, <1>4, <1>5, <1>6, StepCases, Zenon

\* A step that leaves the passwords alone and at most ends the job or the process.
LEMMA ToldStays ==
  ASSUME ToldInv, UNCHANGED <<told, raced, env, path, mem, live, disk>>, job' = job \/ job'.at = "none", Alive' => Alive
  PROVE  ToldInv'
<1>1. CASE job'.at = "none"
  <2>1. job'.at # "snapped" /\ job'.at # "ready"
    BY <1>1
  <2> QED
    BY <2>1, Zenon DEF ToldInv
<1>2. CASE job' = job
  BY <1>2, Zenon DEF ToldInv
<1> QED
  BY <1>1, <1>2

\* Told at a start and at the setup of the admin key.
LEMMA ToldUp ==
  ASSUME Values, Quiet, ToldInv, UNCHANGED <<env, path>>,
         (\E pw \in LivePw : Started(pw)) \/ (phase = "auth" /\ UNCHANGED <<told, raced, job>> /\ \E x, d : Keyed(x, d))
  PROVE  ToldInv'
<1>1. CASE \E pw \in LivePw : Started(pw)
  <2>1. PICK pw \in LivePw : Started(pw)
    BY <1>1
  <2>2. UNCHANGED <<told, raced, job>> /\ ~Running
    BY <2>1 DEF Started, ghosts, Running
  <2>3. job'.at # "snapped" /\ job'.at # "ready"
    BY <2>2 DEF Quiet, NoJob
  <2>4. live'.web.pw = pw
    BY <2>1, StartedParts
  <2>5. told # None /\ disk.web.pw = Hash(told) => mem' = disk /\ (env.pw = NoPw => pw = Hash(told))
    BY <2>1, Zenon DEF Started
  <2>6. disk' = disk \/ disk' = mem'
    BY <2>1, Zenon DEF Started
  <2> QED
    BY <2>2, <2>3, <2>4, <2>5, <2>6, Zenon DEF ToldInv
<1>2. CASE phase = "auth" /\ UNCHANGED <<told, raced, job>> /\ \E x, d : Keyed(x, d)
  <2>1. mem'.web.pw = mem.web.pw /\ live'.web.pw = live.web.pw /\ (disk' = disk \/ disk' = mem')
    BY <1>2, KeyedParts, Zenon
  <2>2. Alive /\ ~Running
    BY <1>2 DEF Alive, Running
  <2>3. job'.at # "snapped" /\ job'.at # "ready"
    BY <1>2, <2>2 DEF Quiet, NoJob
  <2> QED
    BY <1>2, <2>1, <2>2, <2>3, Zenon DEF ToldInv
<1> QED
  BY <1>1, <1>2

\* Told at a commit.
LEMMA ToldCommit ==
  ASSUME Values, ToldInv, NEW d, NEW lv, Committed(d, lv)
  PROVE  ToldInv'
<1>1. Running /\ mem' = d /\ live' = lv /\ job' = NoJob /\ Saved(d, lv) /\ UNCHANGED <<env, path, raced, phase>> /\ job.at = "ready"
  BY Zenon DEF Committed
<1>2. disk' = IF path THEN d ELSE disk
  BY Zenon DEF Committed
<1>3. told' = IF job.task.section = "web" /\ job.file.pw # mem.web.pw THEN None ELSE told
  BY Zenon DEF Committed
<1>4. Alive /\ job'.at # "snapped" /\ job'.at # "ready"
  BY <1>1 DEF Running, Alive, NoJob
<1>5. CASE job.task.section = "web" /\ job.file.pw # mem.web.pw
  BY <1>3, <1>5, Zenon DEF ToldInv
<1>6. CASE d.web = mem.web /\ lv.web = live.web /\ told' = told
  BY <1>1, <1>2, <1>4, <1>6, Zenon DEF ToldInv
<1>7. CASE job.task.section = "web" /\ job.file.pw = mem.web.pw /\ d.web = job.file /\ lv.web = job.live /\ told' = told
  BY <1>1, <1>2, <1>4, <1>7, Zenon DEF ToldInv
<1>8. CASE job.task.section # "web"
  <2>1. told' = told
    BY <1>3, <1>8, Zenon
  <2> QED
    BY <1>1, <1>6, <1>8, <2>1, Zenon DEF Saved
<1>9. CASE job.task.section = "web" /\ job.file.pw = mem.web.pw
  <2>1. told' = told
    BY <1>3, <1>9, Zenon
  <2>2. d.web = job.file /\ lv.web = job.live
    BY <1>1, <1>9 DEF Saved, Lists
  <2> QED
    BY <1>7, <1>9, <2>1, <2>2, Zenon
<1> QED
  BY <1>5, <1>8, <1>9, Zenon

\* Told when a task is taken or a form is accepted.
LEMMA ToldJob ==
  ASSUME Values, Quiet, ToldInv, Running, UNCHANGED <<told, env, path, phase, mem, live, disk>>,
         (job = NoJob /\ \E t : Taken(t)) \/ (UNCHANGED raced /\ job.at = "snapped" /\ \E file, next : Checked(file, next))
  PROVE  ToldInv'
<1>1. Alive
  BY DEF Running, Alive
<1>2. CASE job = NoJob /\ \E t : Taken(t)
  <2>1. PICK t : Taken(t)
    BY <1>2
  <2>2. CASE job'.at = "ready" /\ (job'.task.section = "general" \/ job'.task.section \in Lists) /\ UNCHANGED raced
    <3>1. job'.at # "snapped" /\ job'.task.section # "web"
      BY <2>2 DEF Lists
    <3> QED
      BY <2>2, <3>1, Zenon DEF ToldInv, Alive
  <2>3. CASE job'.at = "none" /\ UNCHANGED raced
    <3>1. job'.at # "snapped" /\ job'.at # "ready"
      BY <2>3
    <3> QED
      BY <2>3, <3>1, Zenon DEF ToldInv, Alive
  <2>4. CASE job'.at = "snapped" /\ job'.live = live.web /\ raced' = (raced \/ tray.at # "none")
    <3>1. job'.at # "ready"
      BY <2>4
    <3>2. ~raced' => ~raced
      BY <2>4, Zenon
    <3> QED
      BY <1>1, <2>4, <3>1, <3>2, Zenon DEF ToldInv, Alive
  <2> QED
    BY <2>1, <2>2, <2>3, <2>4, TakenJob, Zenon
<1>3. CASE UNCHANGED raced /\ job.at = "snapped" /\ \E file, next : Checked(file, next)
  <2>1. PICK file, next : Checked(file, next)
    BY <1>3
  <2>2. job'.at = "ready" /\ job'.file = file /\ job'.live = next
    BY <2>1, CheckedJob
  <2>3. mem.web.pw = job.live.pw /\ file.pw = mem.web.pw => next.pw = job.live.pw
    BY <2>1, Zenon DEF Checked
  <2>4. job'.at # "snapped"
    BY <2>2
  <2> QED
    BY <1>1, <1>3, <2>2, <2>3, <2>4, Zenon DEF ToldInv, Alive
<1> QED
  BY <1>2, <1>3

\* Told at every step.
LEMMA ToldNext ==
  ASSUME Values, Accounts, Quiet, KeysHold, TrayHolds, ToldInv, [Next]_vars
  PROVE  ToldInv'
<1>0. UNCHANGED <<env, path>>
  BY StepCases
<1>1. CASE \E pw \in LivePw : Started(pw)
  BY <1>0, <1>1, ToldUp
<1>2. CASE (\E ok \in BOOLEAN : StartWebServer(ok)) /\ phase = "auth" /\ \E x, d : Keyed(x, d)
  <2>1. UNCHANGED <<told, raced, job>>
    BY <1>2, Zenon DEF StartWebServer
  <2> QED
    BY <1>0, <1>2, <2>1, ToldUp
<1>3. CASE \E d, lv : Committed(d, lv)
  BY <1>3, ToldCommit
<1>4. CASE TraySet
  <2>1. told' = None
    BY <1>4, Zenon DEF TraySet
  <2> QED
    BY <2>1, Zenon DEF ToldInv
<1>5. CASE TraySync
  <2>1. tray.at = "read" /\ UNCHANGED <<told, raced>>
    BY <1>5, Zenon DEF TraySync, ghosts
  <2>2. tray.at # "none"
    BY <2>1
  <2>3. told' = None \/ raced'
    BY <2>1, <2>2, Zenon DEF TrayHolds
  <2>4. path \/ told' = None
    BY <2>1, Zenon DEF ToldInv
  <2> QED
    BY <1>0, <2>3, <2>4, Zenon DEF ToldInv
<1>6. CASE Still
  <2>1. UNCHANGED <<mem, live>> /\ (Alive' => Alive)
    BY <1>6, StillAlike, Zenon DEF Still
  <2>2. CASE ResetUIPassword
    <3>1. PICK p : p = Fresh[n.made + 1]
      OBVIOUS
    <3>2. PICK d \in FileDoc(env, n.made) : d = disk
      BY ValuesFacts
    <3>3. PICK x, h : h = Hash(p) /\ x = [d EXCEPT !.web.pw = h]
      OBVIOUS
    <3>4. x.web.pw = h
      BY <3>3, DocPw
    <3>5. path /\ disk' = x /\ told' = p /\ raced' = Alive /\ UNCHANGED <<phase, job>>
      BY <2>2, <3>1, <3>2, <3>3, Zenon DEF ResetUIPassword, Alive
    <3>6. ~Alive => ~Running
      BY DEF Alive, Running
    <3>7. ~Alive => job'.at # "snapped" /\ job'.at # "ready"
      BY <3>5, <3>6 DEF Quiet, NoJob
    <3> QED
      BY <1>0, <3>3, <3>4, <3>5, <3>7, Zenon DEF ToldInv, Alive
  <2>3. CASE TrayWrite
    <3>1. tray.at = "synced" /\ Running /\ UNCHANGED <<raced, job, phase>>
      BY <2>3, Zenon DEF TrayWrite
    <3>2. tray.at # "none"
      BY <3>1
    <3>3. CASE path /\ disk' = mem /\ told' = tray.text
      <4>1. raced \/ (mem.web.pw = Hash(told') /\ live.web.pw = Hash(told') /\ (job = NoJob \/ job.task.section # "web"))
        BY <3>1, <3>2, <3>3, Zenon DEF TrayHolds
      <4>2. job.at = "snapped" => job # NoJob /\ job.task.section = "web"
        BY JobCases DEF NoJob
      <4>3. job = NoJob => job.at # "ready"
        BY DEF NoJob
      <4> QED
        BY <1>0, <2>1, <3>1, <3>3, <4>1, <4>2, <4>3, Zenon DEF ToldInv
    <3>4. CASE UNCHANGED <<disk, told>>
      BY <1>0, <2>1, <3>1, <3>4, ToldStays
    <3> QED
      BY <2>3, <3>3, <3>4, Zenon DEF TrayWrite
  <2>4. CASE Crash
    <3>1. told' = IF disk' = disk THEN told ELSE None
      BY <2>4, Zenon DEF Crash
    <3>2. CASE disk' = disk
      <4>1. told' = told /\ UNCHANGED raced /\ job' = NoJob
        BY <2>4, <3>1, <3>2, Zenon DEF Crash, Gone
      <4>2. job'.at = "none"
        BY <4>1 DEF NoJob
      <4> QED
        BY <1>0, <2>1, <3>2, <4>1, <4>2, ToldStays
    <3>3. CASE disk' # disk
      <4>1. told' = None
        BY <3>1, <3>3, Zenon
      <4> QED
        BY <4>1, Zenon DEF ToldInv
    <3> QED
      BY <3>2, <3>3
  <2>5. CASE TakeTask \/ CheckWebserver
    <3>1. Running /\ UNCHANGED <<told, phase, disk>>
      BY <2>5, Zenon DEF TakeTask, CheckWebserver, store, ghosts
    <3>2. CASE TakeTask
      <4>1. job = NoJob /\ \E t : Taken(t)
        BY <3>2, TakeFacts, Zenon DEF TakeTask
      <4> QED
        BY <1>0, <2>1, <3>1, <4>1, ToldJob
    <3>3. CASE CheckWebserver
      <4>1. UNCHANGED raced /\ job.at = "snapped"
        BY <3>3, Zenon DEF CheckWebserver, ghosts
      <4>2. CASE \E file, next : Checked(file, next)
        BY <1>0, <2>1, <3>1, <4>1, <4>2, ToldJob
      <4>3. CASE job' = job \/ job' = NoJob
        <5>1. job' = job \/ job'.at = "none"
          BY <4>3 DEF NoJob
        <5> QED
          BY <1>0, <2>1, <3>1, <4>1, <5>1, ToldStays
      <4>4. CASE job = NoJob
        BY <4>1, <4>4 DEF NoJob
      <4> QED
        BY <4>2, <4>3, <4>4, JobNext, Zenon
    <3> QED
      BY <2>5, <3>2, <3>3
  <2>6. CASE ~ResetUIPassword /\ ~TakeTask /\ ~CheckWebserver /\ ~TrayWrite /\ ~Crash
    <3>1. UNCHANGED <<told, raced>> /\ (job' = NoJob \/ job' = job) /\ UNCHANGED disk
      BY <1>6, <2>6, Zenon DEF Still, Next, vars, ghosts, store, SendGeneral, SendMap, SendWebserver, Send, GiveUp, CommitFails, Reply,
         TrayRead, MaybeRestart, Gone
    <3>2. job' = job \/ job'.at = "none"
      BY <3>1 DEF NoJob
    <3> QED
      BY <1>0, <2>1, <3>1, <3>2, ToldStays
  <2> QED
    BY <2>2, <2>3, <2>4, <2>5, <2>6, Zenon
<1> QED
  BY <1>1, <1>2, <1>3, <1>4, <1>5, <1>6, StepCases, Zenon

-----------------------------------------------------------------------------
(* Keys.                                                                   *)

\* A start links what it runs to the document and the variables.
LEMMA LinkedStart ==
  ASSUME NEW e, e.key \in ApiKey(Texts), NEW U, e.key.secret \in U, Read(U, U),
         NEW A, A \subseteq U, NEW keys \in Seq(ApiKey(A))
  PROVE  Linked(e, keys, Expanded(LiveKeys(e, keys)))
<1>1. keys \in Seq(ApiKey(U)) /\ e.key \in ApiKey(U)
  BY KeysGrow DEF ApiKey
<1>2. /\ LiveKeys(e, keys) \in Seq(ApiKey(U))
      /\ \A i \in DOMAIN LiveKeys(e, keys) : (i \in DOMAIN keys /\ LiveKeys(e, keys)[i] = keys[i]) \/ LiveKeys(e, keys)[i] = e.key
  <2> DEFINE V == ApiKey(U)
        k == e.key
  <2>1. k \in V /\ keys \in Seq(V)
    BY <1>1
  <2>2. PICK lk : lk = LiveKeys(e, keys)
    OBVIOUS
  <2>3. lk = keys \/ lk = <<k>> \/ (keys # <<>> /\ lk = [keys EXCEPT ![1] = k])
    BY <2>2 DEF LiveKeys
  <2> HIDE DEF V, k
  <2> DEFINE Good == lk \in Seq(V) /\ \A i \in DOMAIN lk : (i \in DOMAIN keys /\ lk[i] = keys[i]) \/ lk[i] = k
  <2>4. lk = keys => Good
    BY <2>1
  <2>5. lk = <<k>> => Good
    <3>1. lk = <<k>> => lk \in Seq(V) /\ DOMAIN lk = {1} /\ lk[1] = k
      BY <2>1
    <3> QED
      BY <3>1
  <2>6. keys # <<>> /\ lk = [keys EXCEPT ![1] = k] => Good
    BY <2>1
  <2>7. Good
    BY <2>3, <2>4, <2>5, <2>6
  <2> QED
    BY <2>2, <2>7 DEF V, k
<1>3. PICK lk \in Seq(ApiKey(U)) : lk = LiveKeys(e, keys)
  BY <1>2
<1>4. /\ DOMAIN Expanded(lk) = DOMAIN lk
      /\ \A i \in DOMAIN lk : Expanded(lk)[i].name = lk[i].name /\ Expanded(lk)[i].secret = Expand(lk[i].secret)
  BY <1>3, ExpandedKeys
<1>5. \A i \in DOMAIN lk : (i \in DOMAIN keys /\ lk[i] = keys[i]) \/ lk[i] = e.key
  BY <1>2, <1>3
<1>6. PICK ex : ex = Expanded(lk)
  OBVIOUS
<1>7. Linked(e, keys, ex)
  BY <1>4, <1>5, <1>6 DEF Linked
<1> QED
  BY <1>3, <1>6, <1>7


\* Still steps write what was in memory, what is being committed, or another password.
LEMMA StillKeys ==
  ASSUME Values, Still
  PROVE  \/ disk'.web.keys = disk.web.keys \/ disk'.web.keys = mem.web.keys
         \/ job.at = "ready" /\ job.task.section = "web" /\ disk'.web.keys = job.file.keys
<1>1. CASE disk' = disk
  BY <1>1
<1>2. CASE ResetUIPassword
  <2>1. PICK p : p = Hash(Fresh[n.made + 1])
    OBVIOUS
  <2>2. PICK d \in FileDoc(env, n.made) : d = disk
    BY ValuesFacts
  <2>3. PICK x : x = [d EXCEPT !.web.pw = p]
    OBVIOUS
  <2>4. x.web.keys = d.web.keys
    BY <2>3, DocPw
  <2>5. disk' = x
    BY <1>2, <2>1, <2>2, <2>3, Zenon DEF ResetUIPassword
  <2> QED
    BY <2>2, <2>4, <2>5, Zenon
<1>3. CASE TrayWrite
  BY <1>3, Zenon DEF TrayWrite
<1>4. CASE Crash
  <2>1. CASE job.at = "ready" /\ disk' = Staged(job.task.section, job.file)
    <3>1. PICK d : d = Staged(job.task.section, job.file)
      OBVIOUS
    <3>2. PICK lv : lv = ApplyLive(job.task.section, job.live)
      OBVIOUS
    <3>3. Saved(d, lv)
      BY <2>1, <3>1, <3>2, SavedFacts
    <3>4. d.web = mem.web \/ (job.task.section = "web" /\ d.web = job.file)
      BY <3>3, Zenon DEF Saved
    <3> QED
      BY <2>1, <3>1, <3>4, Zenon
  <2> QED
    BY <1>4, <2>1, CrashDisk, Zenon
<1> QED
  BY <1>1, <1>2, <1>3, <1>4, Zenon DEF Still

\* The names at every step.
LEMMA DistinctNext ==
  ASSUME Values, Accounts, Quiet, KeysHold, DistinctOK, JobKeys, [Next]_vars
  PROVE  DistinctOK'
<1>1. CASE \E pw \in LivePw : Started(pw)
  <2>1. mem'.web.keys = disk.web.keys /\ disk'.web.keys = disk.web.keys
    BY <1>1, StartedParts
  <2> QED
    BY <2>1, Zenon DEF DistinctOK
<1>2. CASE \E x, d : Keyed(x, d)
  <2>1. PICK x, d : Keyed(x, d)
    BY <1>2
  <2>2. mem' = d /\ Distinct(d.web.keys) /\ (disk' = disk \/ disk' = d)
    BY <2>1, Zenon DEF Keyed
  <2> QED
    BY <2>2, Zenon DEF DistinctOK
<1>3. CASE \E d, lv : Committed(d, lv)
  <2>1. PICK d, lv : Committed(d, lv)
    BY <1>3
  <2>2. mem' = d /\ disk' = (IF path THEN d ELSE disk) /\ Saved(d, lv) /\ job.at = "ready"
    BY <2>1, Zenon DEF Committed
  <2>3. d.web = mem.web \/ (job.task.section = "web" /\ d.web = job.file)
    BY <2>2, Zenon DEF Saved
  <2>4. Distinct(d.web.keys)
    BY <2>2, <2>3, Zenon DEF DistinctOK, JobKeys
  <2>5. disk' = d \/ disk' = disk
    BY <2>2, Zenon
  <2> QED
    BY <2>2, <2>4, <2>5, Zenon DEF DistinctOK
<1>4. CASE TraySet \/ TraySync
  <2>1. mem'.web.keys = mem.web.keys /\ UNCHANGED disk
    BY <1>4, TrayParts, Zenon
  <2> QED
    BY <2>1, Zenon DEF DistinctOK
<1>5. CASE Still
  <2>1. UNCHANGED mem
    BY <1>5, Zenon DEF Still
  <2> QED
    BY <1>5, <2>1, StillKeys, Zenon DEF DistinctOK, JobKeys
<1> QED
  BY <1>1, <1>2, <1>3, <1>4, <1>5, StepCases, Zenon

\* The links at every step.
LEMMA LinkNext ==
  ASSUME Values, Accounts, Quiet, KeysHold, LinkOK, JobKeys, [Next]_vars
  PROVE  LinkOK'
<1>0. UNCHANGED env
  BY StepCases
<1>1. CASE \E pw \in LivePw : Started(pw)
  <2>1. PICK pw \in LivePw : Started(pw)
    BY <1>1
  <2>2. mem'.web.keys = disk.web.keys /\ live'.web.keys = Expanded(LiveKeys(env, disk.web.keys))
    BY <2>1, StartedParts
  <2>3. PICK ks \in Seq(ApiKey(Own(env, n.made))) : ks = disk.web.keys
    BY ValuesFacts, DocParts
  <2>4. env.key \in ApiKey(Texts) /\ env.key.secret \in Given
    BY ValuesFacts, Given1
  <2>5. Own(env, n.made) \subseteq Used(n.made) /\ Read(Used(n.made), Used(n.made)) /\ env.key.secret \in Used(n.made)
    BY <2>4, ValuesFacts, UsedRead DEF Own, Used
  <2>6. Linked(env, ks, Expanded(LiveKeys(env, ks)))
    BY <2>4, <2>5, LinkedStart
  <2>7. ~Running'
    <3>1. phase' = "auth" \/ phase' = "exited"
      BY <2>1 DEF Started
    <3> QED
      BY <3>1 DEF Running
  <2> QED
    BY <1>0, <2>2, <2>3, <2>6, <2>7, Zenon DEF LinkOK
<1>2. CASE phase = "auth" /\ \E x, d : Keyed(x, d)
  <2>1. PICK x, d : Keyed(x, d)
    BY <1>2
  <2>2. Linked(env, d.web.keys, x.keys) /\ AdminKeys(x.keys) # {} /\ mem' = d
    BY <2>1, Zenon DEF Keyed
  <2>3. live'.web = x
    BY <2>1, KeyedParts
  <2> QED
    BY <1>0, <2>2, <2>3, Zenon DEF LinkOK
<1>3. CASE \E d, lv : Committed(d, lv)
  <2>1. PICK d, lv : Committed(d, lv)
    BY <1>3
  <2>2. mem' = d /\ live' = lv /\ Saved(d, lv) /\ job.at = "ready" /\ UNCHANGED phase
    BY <2>1, Zenon DEF Committed
  <2>3. (d.web = mem.web /\ lv.web = live.web) \/ (job.task.section = "web" /\ d.web = job.file /\ lv.web = job.live)
    BY <2>2, Zenon DEF Saved
  <2> QED
    BY <1>0, <2>2, <2>3, Zenon DEF LinkOK, JobKeys, Alive, Running
<1>4. CASE TraySet \/ TraySync
  <2>1. mem'.web.keys = mem.web.keys /\ live'.web.keys = live.web.keys /\ UNCHANGED phase
    BY <1>4, TrayParts, Zenon
  <2> QED
    BY <1>0, <2>1, Zenon DEF LinkOK, Alive, Running
<1>5. CASE Still
  <2>1. UNCHANGED <<mem, live>> /\ (Alive' => Alive) /\ (Running' => Running)
    BY <1>5, StillAlike, Zenon DEF Still
  <2> QED
    BY <1>0, <2>1, Zenon DEF LinkOK
<1> QED
  BY <1>1, <1>2, <1>3, <1>4, <1>5, StepCases, Zenon

\* What will be committed, at every step.
LEMMA JobKeysNext ==
  ASSUME Values, Accounts, Quiet, KeysHold, JobKeys, [Next]_vars
  PROVE  JobKeys'
<1>0. UNCHANGED env
  BY StepCases
<1>1. CASE job' = NoJob
  <2>1. job'.at # "ready" /\ job'.at # "snapped"
    BY <1>1 DEF NoJob
  <2> QED
    BY <2>1, Zenon DEF JobKeys
<1>2. CASE UNCHANGED job /\ job # NoJob
  <2>1. live'.web.keys = live.web.keys /\ mem'.web.keys = mem.web.keys
    BY <1>2, JobStays
  <2> QED
    BY <1>0, <1>2, <2>1, Zenon DEF JobKeys
<1>3. CASE TakeTask /\ \E t : Taken(t)
  <2>1. PICK t : Taken(t)
    BY <1>3
  <2>2. UNCHANGED live
    BY <1>3, Zenon DEF TakeTask, store
  <2>3. CASE job'.at = "ready" /\ (job'.task.section = "general" \/ job'.task.section \in Lists)
    <3>1. job'.at # "snapped" /\ job'.task.section # "web"
      BY <2>3 DEF Lists
    <3> QED
      BY <3>1, Zenon DEF JobKeys
  <2>4. CASE job'.at = "none"
    <3>1. job'.at # "ready" /\ job'.at # "snapped"
      BY <2>4
    <3> QED
      BY <3>1, Zenon DEF JobKeys
  <2>5. CASE job'.at = "snapped" /\ job'.live = live.web
    <3>1. job'.at # "ready"
      BY <2>5
    <3> QED
      BY <2>2, <2>5, <3>1, Zenon DEF JobKeys
  <2> QED
    BY <2>1, <2>3, <2>4, <2>5, TakenJob, Zenon
<1>4. CASE CheckWebserver /\ \E file, next : Checked(file, next)
  <2>1. PICK file, next : Checked(file, next)
    BY <1>4
  <2>2. job'.at = "ready" /\ job'.task = job.task /\ job'.file = file /\ job'.live = next
    BY <2>1, CheckedJob
  <2>3. UNCHANGED mem
    BY <1>4, Zenon DEF CheckWebserver, store
  <2>4. job'.at # "snapped"
    BY <2>2
  <2>5. /\ Distinct(file.keys) /\ Linked(env, file.keys, next.keys)
        /\ AdminKeys(file.keys) # {} => AdminKeys(next.keys) # {}
        /\ FormKept(job.task.body.keys, mem.web.keys, file.keys, next.keys)
    BY <2>1, Zenon DEF Checked
  <2> QED
    BY <1>0, <2>2, <2>3, <2>4, <2>5, Zenon DEF JobKeys
<1> QED
  BY <1>1, <1>2, <1>3, <1>4, JobNext, Zenon

-----------------------------------------------------------------------------
(* The invariant.                                                          *)

\* The document of a setup is one of the file's own, and so is an empty one.
LEMMA FirstFile ==
  ASSUME NEW s \in Setups
  PROVE  s.file \in FileDoc(s.env, 0) /\ Distinct(s.file.web.keys)
<1>1. PICK d, e : d = s.file /\ e = s.env
  OBVIOUS
<1>2. d \in Document(Texts, Password(FileKinds), Texts)
  BY <1>1, ConfigAssumption DEF ConfigAssumption, AnyDocument
<1>3. /\ d = [general |-> d.general, maps |-> d.maps, web |-> d.web]
      /\ d.web = [pw |-> d.web.pw, keys |-> d.web.keys, roles |-> d.web.roles, listen |-> d.web.listen, roleHeader |-> d.web.roleHeader]
      /\ d.general \in General /\ d.maps \in [Lists -> Instances(Texts)] /\ d.web.pw \in Password(FileKinds)
      /\ d.web.keys \in Seq(ApiKey(Texts)) /\ d.web.roles \in [Roles -> SUBSET Perms] /\ d.web.listen \in Texts /\ d.web.roleHeader \in Texts
  BY <1>2 DEF Document, Web
<1>4. d.maps \in [Lists -> Instances(MapKeys(e))]
  <2>1. \A l \in Lists : \A m \in {s.file.maps[l]} \union MapBodies[l], g \in Slugs : m[g].key \notin ForeignTo(s.env)
    BY InputAssumption, Zenon DEF InputAssumption, InputsAreOwn
  <2>2. \A l \in Lists, g \in Slugs : d.maps[l][g].key \notin ForeignTo(e)
    BY <1>1, <2>1
  <2>3. ASSUME NEW l \in Lists
        PROVE  d.maps[l] \in Instances(MapKeys(e))
    <3>1. PICK m \in Instances(Texts) : m = d.maps[l]
      BY <1>3
    <3>2. \A g \in Slugs : m[g] \in [url : Texts, key : Texts] /\ m[g].key \notin ForeignTo(e)
      BY <2>2, <3>1 DEF Instances
    <3>3. \A g \in Slugs : m[g] \in [url : Texts, key : MapKeys(e)]
      BY <3>2 DEF MapKeys
    <3> QED
      BY <3>1, <3>3 DEF Instances
  <2> QED
    BY <1>3, <2>3
<1>5. d.web.pw \in OwnPw(e, FileKinds)
  <2>1. PwOwn(s.env, s.file.web.pw)
    BY InputAssumption, Zenon DEF InputAssumption, InputsAreOwn
  <2> QED
    BY <1>1, <1>3, <2>1 DEF OwnPw
<1>6. d.web.keys \in Seq(ApiKey(Own(e, 0)))
  <2>1. Secrets(s.file.web.keys) \intersect ForeignTo(s.env) = {}
    BY InputAssumption, Zenon DEF InputAssumption, InputsAreOwn
  <2>2. PICK ks \in Seq(ApiKey(Texts)) : ks = d.web.keys
    BY <1>3
  <2>3. \A i \in DOMAIN ks : ks[i].secret \in Secrets(ks)
    BY DEF Secrets
  <2>4. Secrets(ks) \subseteq FileSecrets
    BY <1>1, <2>2 DEF FileSecrets
  <2>5. \A i \in DOMAIN ks : ks[i].secret \in Own(e, 0)
    BY <1>1, <2>1, <2>2, <2>3, <2>4 DEF Own, Used, Given
  <2>6. \A i \in DOMAIN ks : ks[i] \in ApiKey(Texts)
    <3> DEFINE V == ApiKey(Texts)
    <3>1. ks \in Seq(V)
      BY <2>2
    <3> HIDE DEF V
    <3>2. \A i \in DOMAIN ks : ks[i] \in V
      BY <3>1
    <3> QED
      BY <3>2 DEF V
  <2>7. \A i \in DOMAIN ks : ks[i] \in ApiKey(Own(e, 0))
    BY <2>5, <2>6 DEF ApiKey
  <2>8. ks \in Seq(ApiKey(Own(e, 0)))
    <3> DEFINE V == ApiKey(Texts)
               W == ApiKey(Own(e, 0))
    <3>1. ks \in Seq(V) /\ \A i \in DOMAIN ks : ks[i] \in W
      BY <2>2, <2>7
    <3> HIDE DEF V, W
    <3>2. ks \in Seq(W)
      BY <3>1
    <3> QED
      BY <3>2 DEF W
  <2> QED
    BY <2>2, <2>8
<1>7. d \in FileDoc(e, 0)
  BY <1>3, <1>4, <1>5, <1>6 DEF FileDoc, Document, Web
<1>8. Distinct(d.web.keys)
  BY <1>1, InputAssumption DEF InputAssumption, NamesAreOwn, Distinct
<1> QED
  BY <1>1, <1>7, <1>8

\* The document of a process without a file.
LEMMA DefaultFile ==
  ASSUME NEW e \in {s.env : s \in Setups}
  PROVE  /\ Default \in FileDoc(e, 0) /\ Distinct(Default.web.keys)
         /\ Default.general \in General /\ Default.maps \in [Lists -> Instances(Texts)]
         /\ Default.web \in Web(Password(FileKinds), Used(0))
<1>1. None \in Texts /\ "L1" \in Texts
  BY ConfigAssumption DEF ConfigAssumption
<1>2. None \in MapKeys(e)
  BY <1>1 DEF MapKeys, ForeignTo
<1>3. NoPw \in OwnPw(e, FileKinds) /\ NoPw \in Password(FileKinds)
  BY NoneOwn, LivePws
<1>4. PICK g, ms, w : g = Default.general /\ ms = Default.maps /\ w = Default.web
  OBVIOUS
<1>5. g = [interval |-> 0, debug |-> 0] /\ ms = [l \in Lists |-> [s \in Slugs |-> NoInst]]
      /\ w = [pw |-> NoPw, keys |-> <<>>, roles |-> [r \in Roles |-> {}], listen |-> "L1", roleHeader |-> None]
  BY <1>4 DEF Default
<1>6. g \in General
  BY <1>5 DEF General
<1>7. ms \in [Lists -> Instances(MapKeys(e))] /\ ms \in [Lists -> Instances(Texts)]
  BY <1>1, <1>2, <1>5 DEF Instances, NoInst
<1>8. w \in Web(OwnPw(e, FileKinds), Own(e, 0)) /\ w \in Web(Password(FileKinds), Used(0))
  BY <1>1, <1>3, <1>5 DEF Web
<1>9. Default = [general |-> g, maps |-> ms, web |-> w]
  BY <1>5 DEF Default
<1>10. Default \in FileDoc(e, 0)
  BY <1>6, <1>7, <1>8, <1>9 DEF FileDoc, Document
<1>11. Distinct(w.keys)
  BY <1>5 DEF Distinct
<1> QED
  BY <1>4, <1>6, <1>7, <1>8, <1>10, <1>11

\* What is true before the first start.
LEMMA InitInv ==
  ASSUME Init
  PROVE  ConfigInv
<1>1. PICK s \in Setups : env = s.env /\ disk = (IF path THEN s.file ELSE Default)
  BY Zenon DEF Init
<1>2. env \in {t.env : t \in Setups}
  BY <1>1
<1>3. disk = s.file \/ disk = Default
  BY <1>1, Zenon
<1>4. s.file \in FileDoc(env, 0) /\ Distinct(s.file.web.keys)
  BY <1>1, FirstFile
<1>5. disk \in FileDoc(env, 0) /\ Distinct(disk.web.keys)
  BY <1>2, <1>3, <1>4, DefaultFile
<1>6. mem = disk /\ phase = "down" /\ tasks = <<>> /\ waiting = {} /\ job = NoJob /\ pending = FALSE /\ tray = TrayIdle
      /\ n = [puts |-> 0, starts |-> 0, fails |-> 0, tray |-> 0, resets |-> 0, made |-> 0] /\ told = None
  BY Zenon DEF Init
<1>7. n.made = 0 /\ n.puts = 0 /\ n \in Count
  BY <1>6 DEF Count
<1>8. PICK g, ms, w, p : g = LiveGeneral(env, Default.general) /\ ms = Default.maps /\ w = Default.web /\ p = KeyPerms(Default.web)
  OBVIOUS
<1>9. live = [general |-> g, maps |-> ms, web |-> w, perms |-> p]
  BY <1>8, Zenon DEF Init
<1>10. LiveOK(0, live)
  <2>1. g \in General
    BY <1>2, <1>8, DefaultFile, Given1, GeneralType
  <2>2. ms \in [Lists -> Instances(Texts)] /\ w \in Web(Password(FileKinds), Used(0))
    BY <1>2, <1>8, DefaultFile
  <2> QED
    BY <1>9, <2>1, <2>2 DEF LiveOK
<1>11. Values
  <2>1. QueueOK(env, n, tasks, waiting, job)
    BY <1>6, <1>7, ConfigAssumption DEF QueueOK, Job, ConfigAssumption
  <2>2. CountOK(n, phase)
    BY <1>6, <1>7, FreshTexts DEF CountOK, Phases
  <2>3. tray \in TraySteps /\ told \in Texts
    BY <1>6, ConfigAssumption DEF TraySteps, ConfigAssumption
  <2> QED
    BY <1>2, <1>5, <1>6, <1>7, <1>10, <2>1, <2>2, <2>3 DEF Values, DocsOK
<1>12. ~Alive /\ ~Running /\ job.at = "none" /\ tray.at = "none" /\ phase # "auth"
  BY <1>6 DEF Alive, Running, NoJob, TrayIdle
<1>13. job.at # "ready" /\ job.at # "snapped"
  BY <1>12
<1>14. Quiet
  BY <1>6 DEF Quiet
<1>15. Accounts
  <2>1. live.perms = KeyPerms(live.web)
    BY <1>8, <1>9
  <2>2. ~built.dialog
    <3>1. PICK f : f = Default.maps["folder"]
      OBVIOUS
    <3>2. built = [debug |-> 0, listen |-> "L1", folder |-> f, dialog |-> FALSE]
      BY <3>1, Zenon DEF Init
    <3> QED
      BY <3>2, Zenon
  <2> QED
    BY <1>12, <1>13, <2>1, <2>2, Zenon DEF Accounts
<1>16. Sync
  BY <1>12, <1>13, Zenon DEF Sync, DiskSync, LiveSync, CommitOK, RestartOK, BuiltSync
<1>17. TrayHolds /\ ToldInv
  BY <1>6, <1>12, Zenon DEF TrayHolds, ToldInv
<1>18. KeysHold
  BY <1>5, <1>6, <1>12, <1>13, Zenon DEF KeysHold, DistinctOK, LinkOK, JobKeys
<1> QED
  BY <1>11, <1>14, <1>15, <1>16, <1>17, <1>18, Zenon DEF ConfigInv

\* Every step keeps the invariant.
LEMMA InvNext ==
  ASSUME ConfigInv, [Next]_vars
  PROVE  ConfigInv'
<1>1. Values /\ Quiet /\ Accounts /\ Sync /\ TrayHolds /\ ToldInv /\ KeysHold
  BY Zenon DEF ConfigInv
<1>2. DiskSync /\ LiveSync /\ CommitOK /\ RestartOK /\ BuiltSync /\ DistinctOK /\ LinkOK /\ JobKeys
  BY <1>1, Zenon DEF Sync, KeysHold
<1>3. Values'
  BY <1>1, ValuesNext
<1>4. Quiet'
  BY <1>1, QuietNext
<1>5. Accounts'
  BY <1>1, AccountsNext
<1>6. DiskSync' /\ LiveSync' /\ BuiltSync'
  BY <1>1, <1>2, DiskNext, LiveNext, BuiltNext
<1>7. CommitOK' /\ RestartOK'
  BY <1>1, <1>2, JobSyncNext
<1>8. TrayHolds' /\ ToldInv'
  BY <1>1, TrayHoldsNext, ToldNext
<1>9. DistinctOK' /\ LinkOK' /\ JobKeys'
  BY <1>1, <1>2, DistinctNext, LinkNext, JobKeysNext
<1> QED
  BY <1>3, <1>4, <1>5, <1>6, <1>7, <1>8, <1>9, Zenon DEF ConfigInv, Sync, KeysHold

\* The invariant holds.
LEMMA Invariant == Spec => []ConfigInv
<1>1. Init => ConfigInv
  BY InitInv
<1>2. ConfigInv /\ [Next]_vars => ConfigInv'
  BY InvNext
<1> QED
  BY <1>1, <1>2, PTL DEF Spec

\* All secrets are text.
LEMMA UsedTexts ==
  ASSUME NEW m, m \in Nat, m <= Len(Fresh)
  PROVE  Used(m) \subseteq Texts
<1>1. ASSUME NEW ks \in Seq(ApiKey(Texts))
      PROVE  Secrets(ks) \subseteq Texts
  <2> DEFINE V == ApiKey(Texts)
  <2>1. ks \in Seq(V)
    OBVIOUS
  <2> HIDE DEF V
  <2>2. \A i \in DOMAIN ks : ks[i] \in V
    BY <2>1
  <2>3. \A i \in DOMAIN ks : ks[i].secret \in Texts
    BY <2>2 DEF V, ApiKey
  <2> QED
    BY <2>3 DEF Secrets
<1>2. \A s \in Setups : s.env.key.secret \in Texts /\ s.file.web.keys \in Seq(ApiKey(Texts))
  BY ConfigAssumption DEF ConfigAssumption, Environment, ApiKey, AnyDocument, Document, Web
<1>3. \A s \in Setups : Secrets(s.file.web.keys) \subseteq Texts
  BY <1>1, <1>2, Zenon
<1>4. \A edit \in WebEdits : Secrets(edit.add) \subseteq Texts
  <2>1. ASSUME NEW edit \in WebEdits
        PROVE  edit.add \in Seq(ApiKey(Texts))
    BY ConfigAssumption DEF ConfigAssumption, Edit
  <2> QED
    BY <1>1, <2>1, Zenon
<1>5. FileSecrets \subseteq Texts /\ EditSecrets \subseteq Texts
  BY <1>3, <1>4 DEF FileSecrets, EditSecrets
<1>6. \A i \in 1..m : Fresh[i] \in Texts
  BY FreshTexts
<1> QED
  BY <1>2, <1>5, <1>6, ConfigAssumption DEF Used, Given, ConfigAssumption

\* The file's own documents are documents.
LEMMA OwnDocuments ==
  ASSUME NEW e, NEW m \in Nat, m <= Len(Fresh)
  PROVE  FileDoc(e, m) \subseteq AnyDocument
<1>1. Own(e, m) \subseteq Texts
  BY UsedTexts DEF Own
<1>2. Seq(ApiKey(Own(e, m))) \subseteq Seq(ApiKey(Texts))
  BY <1>1, KeysGrow
<1>3. [Lists -> Instances(MapKeys(e))] \subseteq [Lists -> Instances(Texts)]
  BY OwnInstances
<1>4. OwnPw(e, FileKinds) \subseteq Password(FileKinds)
  BY DEF OwnPw
<1> QED
  BY <1>2, <1>3, <1>4 DEF FileDoc, AnyDocument, Document, Web

\* What Values and Accounts say of a process that runs.
LEMMA RunningFacts ==
  ASSUME Values, Accounts, Running
  PROVE  /\ Alive /\ ValidAuth(live.web) /\ live.web.pw \in LivePw /\ live.web.pw.kind \in LiveKinds
         /\ live.perms = KeyPerms(live.web) /\ live.web.keys \in Seq(ApiKey(Used(n.made)))
         /\ \A i \in DOMAIN live.web.keys : live.web.keys[i].secret \notin {None, Ref}
<1>1. Alive
  BY DEF Running, Alive
<1>2. live.perms = KeyPerms(live.web) /\ ValidAuth(live.web) /\ live.web.pw \in LivePw
  BY <1>1, Zenon DEF Accounts
<1>3. live.web.pw.kind \in LiveKinds
  BY <1>2 DEF LivePw
<1>4. live.web.keys \in Seq(ApiKey(Used(n.made)))
  BY ValuesFacts DEF Web
<1>5. \A i \in DOMAIN live.web.keys : live.web.keys[i].secret \notin {None, Ref}
  BY <1>2, Zenon DEF ValidAuth
<1> QED
  BY <1>1, <1>2, <1>3, <1>4, <1>5

-----------------------------------------------------------------------------
(* The theorems.                                                           *)

\* Documents keep their sections, nothing that runs has a password in the clear
\* or a reference that was not read, and tasks stay within bounds.
THEOREM TypeCorrect == Spec => []TypeOK
<1>1. ConfigInv => TypeOK
  <2> SUFFICES ASSUME ConfigInv
               PROVE  TypeOK
    OBVIOUS
  <2>1. Values /\ Accounts
    BY Zenon DEF ConfigInv
  <2>2. {disk, mem} \subseteq AnyDocument
    BY <2>1, ValuesFacts, OwnDocuments
  <2>3. phase \in {"down", "auth", "up", "headless", "exited"}
    BY <2>1 DEF Values, CountOK, Phases
  <2>4. tray.at \in {"none", "set", "read", "synced"}
    BY <2>1 DEF Values, TraySteps, TrayIdle
  <2>5. job.at \in {"none", "snapped", "ready"}
    BY <2>1, JobCases
  <2>6. waiting \subseteq 1 .. MaxPuts /\ Len(tasks) <= MaxPuts
    <3>1. waiting \subseteq 1..n.puts /\ n.puts <= MaxPuts /\ Len(tasks) <= n.puts /\ n.puts \in Nat /\ MaxPuts \in Nat
          /\ Len(tasks) \in Nat
      BY <2>1, ValuesFacts, ConfigAssumption DEF Values, QueueOK, ConfigAssumption
    <3> QED
      BY <3>1
  <2>7. Running => live.web.pw.kind \in {"hash", "webauth", "noauth"} /\ Ref \notin Secrets(live.web.keys)
    BY <2>1, RunningFacts DEF LiveKinds, Secrets
  <2> QED
    BY <2>2, <2>3, <2>4, <2>5, <2>6, <2>7 DEF TypeOK
<1> QED
  BY <1>1, Invariant, PTL

\* In every section but the web server's, what runs is what a start from the
\* present file would run (configput.go, commitConfig).
THEOREM FileRuns == Spec => []RunsTheFile
<1>1. ConfigInv => RunsTheFile
  <2> SUFFICES ASSUME ConfigInv, Running, path
               PROVE  /\ live.general = LiveGeneral(env, disk.general)
                      /\ \A l \in Lists : live.maps[l] = LiveMap(env, l, disk.maps[l])
    BY DEF RunsTheFile
  <2>1. Alive /\ DiskSync /\ LiveSync
    BY DEF ConfigInv, Sync, Running, Alive
  <2> QED
    BY <2>1, Zenon DEF DiskSync, LiveSync, Alike
<1> QED
  BY <1>1, Invariant, PTL

\* What the variables say and what other files hold never gets into the config
\* file.
THEOREM StaysOut == Spec => []SecretsStayOut
<1>1. ConfigInv => SecretsStayOut
  <2> SUFFICES ASSUME ConfigInv
               PROVE  SecretsStayOut
    OBVIOUS
  <2>1. PICK d \in FileDoc(env, n.made) : d = disk
    BY ValuesFacts DEF ConfigInv
  <2>2. PICK ks \in Seq(ApiKey(Own(env, n.made))) : ks = d.web.keys
    BY DocParts
  <2>3. \A i \in DOMAIN ks : ks[i].secret \notin Foreign
    <3> DEFINE V == ApiKey(Own(env, n.made))
    <3>1. ks \in Seq(V)
      BY <2>2
    <3> HIDE DEF V
    <3>2. \A i \in DOMAIN ks : ks[i] \in V
      BY <3>1
    <3> QED
      BY <3>2 DEF V, ApiKey, Own, Foreign
  <2>4. Secrets(disk.web.keys) \intersect Foreign = {}
    BY <2>1, <2>2, <2>3 DEF Secrets
  <2>5. \A l \in Lists, s \in Slugs : disk.maps[l][s].key \notin Foreign
    <3>1. d.maps \in [Lists -> Instances(MapKeys(env))]
      BY DocParts
    <3>2. ASSUME NEW l \in Lists, NEW s \in Slugs
          PROVE  d.maps[l][s].key \notin Foreign
      <4>1. d.maps[l] \in Instances(MapKeys(env))
        BY <3>1
      <4>2. d.maps[l][s].key \in MapKeys(env)
        BY <4>1 DEF Instances
      <4> QED
        BY <4>2 DEF MapKeys, Foreign
    <3> QED
      BY <2>1, <3>2
  <2>6. env.pw # NoPw => disk.web.pw \notin {env.pw, Hash(env.pw.text)}
    BY <2>1, DocParts DEF OwnPw, PwOwn
  <2> QED
    BY <2>4, <2>5, <2>6, Zenon DEF SecretsStayOut
<1> QED
  BY <1>1, Invariant, PTL

\* The table of rights is never older than the keys and roles in force, and the
\* other ways in give what they should (auth.go).
THEOREM RightsHold == Spec => []RightsAreCurrent
<1>1. ConfigInv => RightsAreCurrent
  <2> SUFFICES ASSUME ConfigInv, Running
               PROVE  RightsAreCurrent
    BY DEF RightsAreCurrent
  <2>1. /\ ValidAuth(live.web) /\ live.web.pw.kind \in LiveKinds
        /\ live.perms = KeyPerms(live.web) /\ live.web.keys \in Seq(ApiKey(Used(n.made)))
    BY RunningFacts DEF ConfigInv
  <2>2. /\ \A i \in DOMAIN live.web.keys :
              Authenticate([header |-> live.web.keys[i].secret])
                  = RolePerms(live.web.roles, {live.web.keys[i].role})
        /\ DOMAIN live.perms = Secrets(live.web.keys)
        /\ \A req \in Requests : req.bearer \notin Secrets(live.web.keys) => Authenticate(req) = Granted(req)
    BY <2>1, Rights
  <2> QED
    BY <2>2, Zenon DEF RightsAreCurrent
<1> QED
  BY <1>1, Invariant, PTL

\* As long as the file has an admin key, one of the file or of the variables opens
\* everything (configkeys.go, webserver.go).
THEOREM AdminEnters == Spec => []AdminKeyWorks
<1>1. ConfigInv => AdminKeyWorks
  <2> SUFFICES ASSUME ConfigInv, Running, AdminKeys(mem.web.keys) # {}
               PROVE  \E secret \in (Secrets(Expanded(mem.web.keys)) \union {Expand(env.key.secret)}) \ {None} :
                        Authenticate([header |-> secret]) = AllPermissions
    BY DEF AdminKeyWorks
  <2>1. Values /\ Accounts /\ LinkOK
    BY Zenon DEF ConfigInv, KeysHold
  <2>2. /\ Alive /\ ValidAuth(live.web) /\ live.web.pw.kind \in LiveKinds
        /\ live.perms = KeyPerms(live.web) /\ live.web.keys \in Seq(ApiKey(Used(n.made)))
        /\ \A i \in DOMAIN live.web.keys : live.web.keys[i].secret \notin {None, Ref}
    BY <2>1, RunningFacts
  <2>3. Linked(env, mem.web.keys, live.web.keys) /\ AdminKeys(live.web.keys) # {}
    BY <2>1, <2>2, Zenon DEF LinkOK
  <2>4. PICK ks, fs : ks = live.web.keys /\ fs = mem.web.keys
    OBVIOUS
  <2>5. PICK i \in DOMAIN ks : ks[i].role = Admin
    BY <2>3, <2>4 DEF AdminKeys
  <2>6. PICK s : s = ks[i].secret
    OBVIOUS
  <2>7. Authenticate([header |-> s]) = AllPermissions
    <3>1. Authenticate([header |-> live.web.keys[i].secret]) = RolePerms(live.web.roles, {live.web.keys[i].role})
      BY <2>2, <2>4, Rights
    <3>2. RolePerms(live.web.roles, {Admin}) = AllPermissions
      BY DEF RolePerms
    <3> QED
      BY <2>4, <2>5, <2>6, <3>1, <3>2, Zenon
  <2>8. s # None
    BY <2>2, <2>4, <2>6
  <2>9. s \in Secrets(Expanded(fs)) \/ s = Expand(env.key.secret)
    <3>1. fs \in Seq(ApiKey(Own(env, n.made)))
      BY <2>1, <2>4, ValuesFacts, DocParts
    <3>2. Read(Own(env, n.made), Used(n.made))
      <4>1. Read(Used(n.made), Used(n.made))
        BY <2>1, ValuesFacts, UsedRead
      <4> QED
        BY <4>1 DEF Read, Own
    <3>3. DOMAIN Expanded(fs) = DOMAIN fs /\ \A j \in DOMAIN fs : Expanded(fs)[j].secret = Expand(fs[j].secret)
      BY <3>1, <3>2, ExpandedKeys
    <3>4. (\E j \in DOMAIN fs : Expand(fs[j].secret) = ks[i].secret) \/ ks[i].secret = Expand(env.key.secret)
      BY <2>3, <2>4 DEF Linked
    <3> QED
      BY <2>6, <3>3, <3>4 DEF Secrets
  <2> QED
    BY <2>4, <2>7, <2>8, <2>9
<1> QED
  BY <1>1, Invariant, PTL

\* The password the user was told is saved is the one in the file and in force.
THEOREM Told == Spec => []ToldHolds
<1>1. ConfigInv => ToldHolds
  <2> SUFFICES ASSUME ConfigInv, told # None, ~raced
               PROVE  disk.web.pw = Hash(told) /\ (Running /\ env.pw = NoPw => live.web.pw = Hash(told))
    BY DEF ToldHolds
  <2>1. Running => Alive
    BY DEF Running, Alive
  <2> QED
    BY <2>1, Zenon DEF ConfigInv, ToldInv
<1> QED
  BY <1>1, Invariant, PTL

\* A difference between the running process and the file that cannot be applied in
\* place has a restart pending (markPendingRestart).
THEOREM Owed == Spec => []RestartOwed
<1>1. ConfigInv => RestartOwed
  <2> SUFFICES ASSUME ConfigInv, Running, path, ~manual, ~pending
               PROVE  /\ built.debug = LiveGeneral(env, disk.general).debug
                      /\ built.listen = disk.web.listen
                      /\ built.folder = LiveMap(env, "folder", disk.maps["folder"])
    BY Zenon DEF RestartOwed
  <2>1. Alive /\ DiskSync /\ LiveSync /\ BuiltSync
    BY DEF ConfigInv, Sync, Running, Alive
  <2>2. "folder" \in Lists
    BY DEF Lists
  <2> QED
    BY <2>1, <2>2, Zenon DEF DiskSync, LiveSync, BuiltSync, Alike, Fits
<1> QED
  BY <1>1, Invariant, PTL

\* A saved form keeps the secret of every key that it lists without one, and the
\* key stays in force (keepNamedAPIKeys).
THEOREM FormKeeps == Spec => FormKeepsKeys
<1>1. ConfigInv /\ [Next]_vars =>
        [job.at = "ready" /\ job.task.section = "web" /\ job' = NoJob /\ mem' # mem =>
           \A i \in DOMAIN job.task.body.keys, j \in DOMAIN mem.web.keys :
              LET key == job.task.body.keys[i]
                  old == mem.web.keys[j]
              IN  key.secret = None /\ key.name = old.name /\ old.secret # None =>
                      /\ old.secret \in Secrets(mem'.web.keys)
                      /\ key.name \in Names(live'.web.keys)]_vars
  <2> SUFFICES ASSUME ConfigInv, [Next]_vars, job.at = "ready", job.task.section = "web", job' = NoJob, mem' # mem,
                      NEW i \in DOMAIN job.task.body.keys, NEW j \in DOMAIN mem.web.keys,
                      job.task.body.keys[i].secret = None, job.task.body.keys[i].name = mem.web.keys[j].name,
                      mem.web.keys[j].secret # None
               PROVE  /\ mem.web.keys[j].secret \in Secrets(mem'.web.keys)
                      /\ job.task.body.keys[i].name \in Names(live'.web.keys)
    BY Zenon
  <2>1. Values /\ Accounts /\ Quiet /\ KeysHold /\ JobKeys
    BY Zenon DEF ConfigInv, KeysHold
  <2>2. job # NoJob
    BY DEF NoJob
  <2>3. Running
    BY <2>1, <2>2 DEF Quiet
  <2>4. phase # "auth" /\ phase # "down"
    BY <2>3 DEF Running
  <2>5. ~TraySet /\ ~TraySync
    BY <2>2, Zenon DEF TraySet, TraySync
  <2>6. PICK d, lv : Committed(d, lv)
    BY <2>1, <2>4, <2>5, StepCases, Zenon DEF Started, Still
  <2>7. mem' = d /\ live' = lv /\ d.web = job.file /\ lv.web = job.live
    <3>1. mem' = d /\ live' = lv /\ Saved(d, lv)
      BY <2>6, Zenon DEF Committed
    <3> QED
      BY <3>1 DEF Saved, Lists
  <2>8. FormKept(job.task.body.keys, mem.web.keys, job.file.keys, job.live.keys)
    BY <2>1, Zenon DEF JobKeys
  <2> QED
    BY <2>7, <2>8, Zenon DEF FormKept
<1> QED
  BY <1>1, Invariant, PTL DEF Spec, FormKeepsKeys
=============================================================================
