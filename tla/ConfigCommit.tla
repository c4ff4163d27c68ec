---------------------------- MODULE ConfigCommit ----------------------------
(***************************************************************************)
(* The configuration of UnpackUI, three times over: the file on disk,      *)
(* u.fileConfig (the file as this process last wrote it) and u.Config (what *)
(* runs: the file with the UN_* variables on top, clamped, with secrets    *)
(* read from the files they name and the password hashed).                 *)
(*                                                                         *)
(* Actors: HTTP clients that PUT a section (configput.go), the main loop   *)
(* that validates and commits it, the tray that changes the password       *)
(* (password_gui.go) in a goroutine of its own, and the start of the       *)
(* process, which writes a hashed or generated password and an admin key   *)
(* back.  Any write of the file may fail; the process may crash anywhere.  *)
(*                                                                         *)
(* One list of each sort stands for the instance maps: "starr", whose      *)
(* invalid instances a start skips, and "folder", whose invalid instances  *)
(* make it fail and whose PUT always asks for a restart.  General has one  *)
(* field that applies in place and is clamped (interval) and one that      *)
(* needs a restart (debug).                                                *)
(***************************************************************************)
EXTENDS Naturals, Sequences, FiniteSets, SequencesExt

CONSTANTS Texts,               \* names, secrets, addresses
          Slugs, Setups,        \* instance keys; environments, each with a file to start with
          GeneralBodies, MapBodies, WebEdits,  \* what clients send
          TrayTexts, Fresh,     \* passwords typed at the tray; secrets a start makes up
          KeyNames,             \* what a start calls an admin key it makes up, the first that is free
          Roles, Perms,         \* names of custom roles; permissions a role can give
          MaxPuts, MaxWaiting, MaxStarts, MaxFails, MaxTray, MaxResets   \* bounds

None == ""                      \* an empty field, an unset variable
Keep == "keep"                  \* an edit that leaves a field of the form alone
Lists == {"starr", "folder"}
Ref == "filepath:"              \* a secret kept in another file ...
Content == "kr"                 \* ... and what is in it
Admin == "admin"
AllPermissions == Perms \union {"*"}

Pw(kind, text) == [kind |-> kind, text |-> text]
NoPw == Pw("none", None)
Hash(text) == Pw("hash", text)
NoInst == [url |-> None, key |-> None]

(* The document of a process without a file.                               *)
Default == [general |-> [interval |-> 0, debug |-> 0],
            maps |-> [l \in Lists |-> [s \in Slugs |-> NoInst]],
            web |-> [pw |-> NoPw, keys |-> <<>>, roles |-> [r \in Roles |-> {}],
                     listen |-> "L1", roleHeader |-> None]]

(* What documents, environments and requests are made of.                  *)
FileKinds == {"none", "plain", "path", "hash", "webauth", "noauth"}
ClientKinds == FileKinds \union {"kdf"}
Password(kinds) == {NoPw} \union [kind : kinds \ {"none"}, text : Texts]
General == [interval : Nat, debug : Nat]
Instances(keys) == [Slugs -> [url : Texts, key : keys]]
ApiKey(secrets) == [name : Texts, secret : secrets, role : Roles \union {Admin}]
Web(pws, secrets) == [pw : pws, keys : Seq(ApiKey(secrets)), roles : [Roles -> SUBSET Perms],
                      listen : Texts, roleHeader : Texts]
Document(keys, pws, secrets) ==
    [general : General, maps : [Lists -> Instances(keys)], web : Web(pws, secrets)]
AnyDocument == Document(Texts, Password(FileKinds), Texts)
Environment == [general : General, maps : [Lists -> Instances(Texts)], pw : Password(FileKinds),
                key : ApiKey(Texts)]
Edit == [pw : Password(ClientKinds), confirm : Texts, drop : SUBSET Texts, add : Seq(ApiKey(Texts)),
         roles : SUBSET Perms, listen : Texts]

ASSUME ConfigAssumption ==
    /\ {None, Content, Ref, "L1"} \subseteq Texts
    /\ \A s \in Setups : s.env \in Environment /\ s.file \in AnyDocument
    /\ GeneralBodies \subseteq General /\ WebEdits \subseteq Edit
    /\ MapBodies \in [Lists -> SUBSET Instances(Texts)]
    /\ TrayTexts \subseteq Texts /\ Fresh \in Seq(Texts) /\ KeyNames \in Seq(Texts)
    /\ {MaxPuts, MaxWaiting, MaxStarts, MaxFails, MaxTray, MaxResets} \subseteq Nat

(* What is not the file's: secrets of the variables and of other files.    *)
ForeignTo(e) == ({Content, e.key.secret} \union {e.maps[l][s].key : l \in Lists, s \in Slugs}) \ {None}
PwOwn(e, pw) ==
    e.pw # NoPw => pw \notin {e.pw, Hash(e.pw.text)} /\ (pw.kind = "kdf" => pw.text # e.pw.text)
Secrets(keys) == {keys[i].secret : i \in DOMAIN keys}
EditSecrets == UNION {Secrets(edit.add) : edit \in WebEdits}
FileSecrets == UNION {Secrets(s.file.web.keys) : s \in Setups}
Given == {None, Ref, Content} \union {s.env.key.secret : s \in Setups} \union FileSecrets \union EditSecrets

(* Nobody types in what the variables or another file say; what a start    *)
(* makes up is new; the keys of a file have names of their own.            *)
InputsAreOwn ==
    \A s \in Setups :
        /\ Secrets(s.file.web.keys) \intersect ForeignTo(s.env) = {}
        /\ \A l \in Lists : \A m \in {s.file.maps[l]} \union MapBodies[l], g \in Slugs : m[g].key \notin ForeignTo(s.env)
        /\ \A e \in WebEdits : Secrets(e.add) \intersect ForeignTo(s.env) = {} /\ PwOwn(s.env, e.pw)
        /\ PwOwn(s.env, s.file.web.pw)
        /\ \A k \in DOMAIN Fresh : Fresh[k] \notin ForeignTo(s.env) \union {s.env.pw.text}
FreshIsNew ==
    \A k \in DOMAIN Fresh : Fresh[k] \notin Given /\ \A l \in DOMAIN Fresh : k # l => Fresh[k] # Fresh[l]
NamesAreOwn ==
    \A s \in Setups : \A i, j \in DOMAIN s.file.web.keys :
        i # j => s.file.web.keys[i].name # s.file.web.keys[j].name
ASSUME InputAssumption == InputsAreOwn /\ FreshIsNew /\ NamesAreOwn

VARIABLES
    env,      \* the UN_* variables: never change while the process is watched
    path,     \* is there a config file path? (env-only setups have none)
    disk,     \* the document on disk
    mem,      \* u.fileConfig
    live,     \* u.Config, and perms = u.Webserver.keyPerms
    phase,    \* "down", "auth" (loaded), "up", "headless" (listener gone), "exited"
    tasks,    \* u.taskChan: PUTs in the order they were sent
    waiting,  \* ids of the PUTs whose handler still waits
    job,      \* the PUT the main loop is in
    pending,  \* u.pendingRestart
    tray,     \* the password dialog: where it is and what it holds
    built,    \* what the running process was built with at its start
    n,        \* counters: puts, starts, fails, tray, resets, made
    told,     \* the password the tray or --reset last said it had saved
    raced,    \* was the section being changed by another actor meanwhile?
    manual    \* was the user told that a manual restart is needed?

store == <<disk, mem, live>>
ghosts == <<told, raced, manual>>
vars == <<env, path, disk, mem, live, phase, tasks, waiting, job, pending, tray, built, n,
          told, raced, manual>>

NoJob == [at |-> "none"]
TrayIdle == [at |-> "none", text |-> None, pass |-> NoPw]
Running == phase \in {"up", "headless"}

-----------------------------------------------------------------------------
(* What runs, from what is written.                                        *)

Over(value, var) == IF var = None THEN value ELSE var
Expand(secret) == IF secret = Ref THEN Content ELSE secret

(* overlayEnv and clampConfig, on the general section.                     *)
LiveGeneral(e, g) ==
    LET over == [f \in DOMAIN g |-> IF e.general[f] = 0 THEN g[f] ELSE e.general[f]]
    IN  [over EXCEPT !.interval = IF @ = 0 THEN 1 ELSE @]

(* ParseENV on a map: a variable of a slug creates the instance.           *)
Overlaid(e, l, m) == [s \in Slugs |-> [url |-> Over(m[s].url, e.maps[l][s].url),
                                       key |-> Expand(Over(m[s].key, e.maps[l][s].key))]]

Valid(l, inst) == inst.url # None /\ (l = "starr" => inst.key # None)

(* The instances that run: those that are not valid are left out.          *)
LiveMap(e, l, m) == [s \in Slugs |-> IF Valid(l, Overlaid(e, l, m)[s])
                                     THEN Overlaid(e, l, m)[s] ELSE NoInst]

(* A start skips an invalid Starr instance and fails at an invalid folder; *)
(* a PUT refuses an invalid instance of its body.                          *)
StartAccepts(e, maps) ==
    \A s \in Slugs : LET inst == Overlaid(e, "folder", maps["folder"])[s]
                     IN  inst = NoInst \/ Valid("folder", inst)
PutAccepts(e, l, m) == \A s \in Slugs : m[s] = NoInst \/ Valid(l, Overlaid(e, l, m)[s])

(* The variables of the first API key overwrite the first key of the list. *)
LiveKeys(e, keys) ==
    IF e.key.name = None THEN keys
    ELSE IF keys = <<>> THEN <<e.key>> ELSE [keys EXCEPT ![1] = e.key]

Expanded(keys) == [i \in DOMAIN keys |-> [keys[i] EXCEPT !.secret = Expand(@)]]

-----------------------------------------------------------------------------
(* Accounts: keys, roles and who may do what.                              *)

Only(keys, kept) ==
    LET done[k \in 0..Len(keys)] ==
          IF k = 0 THEN <<>>
          ELSE IF keys[k] \in kept THEN Append(done[k - 1], keys[k]) ELSE done[k - 1]
    IN  done[Len(keys)]
Names(keys) == {keys[i].name : i \in DOMAIN keys}

(* validateAuth; a name of a file is too short to be a key.                *)
ValidAuth(web) ==
    LET keys == web.keys IN
    /\ \A i \in DOMAIN keys : keys[i].secret \notin {None, Ref} /\ (keys[i].role = Admin \/ web.roles[keys[i].role] # {})
    /\ \A i, j \in DOMAIN keys :
          i # j => keys[i].name # keys[j].name /\ keys[i].secret # keys[j].secret

RolePerms(roles, names) ==
    IF Admin \in names THEN AllPermissions ELSE UNION {roles[r] : r \in names \intersect Roles}

(* The table of rights by secret, built when the keys are validated.       *)
KeyPerms(web) ==
    [s \in Secrets(web.keys) |->
        RolePerms(web.roles, {web.keys[i].role : i \in {j \in DOMAIN web.keys : web.keys[j].secret = s}})]

Proxied(pw) == pw.kind \in {"webauth", "noauth"}

AuthAPIKey(key) == IF key \in DOMAIN live.perms THEN live.perms[key] ELSE {}

(* A role header that is configured must name a role that exists.          *)
ProxyRolePerms(req) ==
    IF live.web.roleHeader = None THEN AllPermissions ELSE RolePerms(live.web.roles, req.roles)

ProxyAuth(req) ==
    CASE ~Proxied(live.web.pw) \/ ~req.trusted -> {}
      [] live.web.pw.kind = "noauth" /\ req.trusted -> AllPermissions
      [] live.web.pw.kind = "webauth" /\ req.trusted -> IF req.user THEN ProxyRolePerms(req) ELSE {}

SessionAuth(req) == IF req.session /\ ~Proxied(live.web.pw) THEN AllPermissions ELSE {}

(* authenticate: the rights a request gets, {} when it is turned away.     *)
Authenticate(req) ==
    IF req.header # None THEN AuthAPIKey(req.header)
    ELSE IF AuthAPIKey(req.bearer) # {} THEN AuthAPIKey(req.bearer)
    ELSE IF ProxyAuth(req) # {} THEN ProxyAuth(req)
    ELSE SessionAuth(req)

-----------------------------------------------------------------------------
(* The start of the process.                                               *)

NoWrite(ok) == ok /\ UNCHANGED <<disk, n>>

AdminKeys(keys) == {i \in DOMAIN keys : keys[i].role = Admin}
FreeNames(keys) == {i \in DOMAIN KeyNames : KeyNames[i] \notin Names(keys)}
UnusedKeyName(keys) ==
    KeyNames[CHOOSE i \in FreeNames(keys) : \A j \in FreeNames(keys) : i <= j]

EnvPw(pw) == IF env.pw = NoPw THEN pw ELSE env.pw
ReadPw(pw) == IF pw.kind = "path" THEN Pw("plain", Content) ELSE pw

(* setupUIPassword: what is in the clear is hashed, what is missing is     *)
(* made up.                                                                *)
HashedPw(pw) ==
    CASE pw.kind = "none" -> Hash(Fresh[n.made + 1])
      [] pw.kind = "plain" -> Hash(pw.text)
      [] pw.kind \notin {"none", "plain"} -> pw

(* unmarshalConfig, handleStartupPassword, validateAuth and validateApps.  *)
StartConfig(ok) ==
    /\ phase = "down" /\ n.starts < MaxStarts /\ n.made + 2 <= Len(Fresh)
    /\ LET read == ReadPw(EnvPw(disk.web.pw))
           pw == HashedPw(read)
           keep == pw = read \/ EnvPw(disk.web.pw).kind = "path" \/ env.pw # NoPw
           web == [disk.web EXCEPT !.pw = pw, !.keys = Expanded(LiveKeys(env, @))]
           made == IF read.kind = "none" THEN 1 ELSE 0
       IN  /\ mem' = IF keep THEN disk ELSE [disk EXCEPT !.web.pw = pw]
           /\ \/ ok /\ disk' = (IF path THEN mem' ELSE disk)
                    /\ n' = [n EXCEPT !.starts = @ + 1, !.made = @ + made]
              \/ ~ok /\ ~keep /\ path /\ n.fails < MaxFails /\ UNCHANGED disk
                    /\ n' = [n EXCEPT !.starts = @ + 1, !.made = @ + made, !.fails = @ + 1]
           /\ live' = [general |-> LiveGeneral(env, disk.general),
                       maps |-> [l \in Lists |-> LiveMap(env, l, disk.maps[l])],
                       web |-> web, perms |-> KeyPerms(web)]
           /\ phase' = IF ValidAuth(web) /\ StartAccepts(env, disk.maps) THEN "auth" ELSE "exited"
    /\ UNCHANGED <<env, path, tasks, waiting, job, pending, tray, built, ghosts>>

(* A bug: the table of rights is not built again.                          *)
InstallAdminKeyOnly(key) == [live EXCEPT !.web.keys = Append(@, key)]
WithKey(key) == [live.web EXCEPT !.keys = Append(@, key)]
InstallAdminKey(key) == [live EXCEPT !.web = WithKey(key), !.perms = KeyPerms(WithKey(key))]

(* Admin keys of the file that the variables hide; adoptFileAdminKey takes *)
(* the first that is valid beside the live ones.                           *)
Adoptable == {i \in AdminKeys(mem.web.keys) : ValidAuth(WithKey(mem.web.keys[i]))}

SetupAdminAPIKey(ok) ==
    CASE AdminKeys(live.web.keys) # {} -> NoWrite(ok) /\ UNCHANGED <<mem, live>>
      [] AdminKeys(live.web.keys) = {} /\ Adoptable # {} ->
            /\ live' = InstallAdminKey(mem.web.keys[CHOOSE i \in Adoptable : \A j \in Adoptable : i <= j])
            /\ NoWrite(ok) /\ UNCHANGED mem
      [] AdminKeys(live.web.keys) = {} /\ Adoptable = {} ->
            LET known == live.web.keys \o mem.web.keys
                key == [name |-> UnusedKeyName(known),
                        secret |-> Fresh[n.made + 1], role |-> Admin]
                fails == IF ok THEN n.fails ELSE n.fails + 1
            IN  /\ FreeNames(known) # {}
                /\ live' = InstallAdminKey(key)
                /\ mem' = [mem EXCEPT !.web.keys = Append(@, key)]
                /\ ok \/ (path /\ n.fails < MaxFails)
                /\ disk' = IF ok /\ path THEN mem' ELSE disk
                /\ n' = [n EXCEPT !.made = @ + 1, !.fails = fails]

StartWebServer(ok) ==
    /\ phase = "auth"
    /\ SetupAdminAPIKey(ok)
    /\ phase' = "up" /\ pending' = FALSE /\ manual' = FALSE
    /\ built' = [debug |-> live.general.debug, listen |-> live.web.listen, folder |-> live.maps["folder"],
                 dialog |-> env.pw = NoPw /\ ~Proxied(live.web.pw)]
    /\ UNCHANGED <<env, path, tasks, waiting, job, tray, told, raced>>

(* A process of its own, started with --reset: it writes a new password    *)
(* and ends, whether or not a daemon is running.                           *)
ResetUIPassword ==
    /\ path /\ n.resets < MaxResets /\ n.made + 3 <= Len(Fresh)
    /\ disk' = [disk EXCEPT !.web.pw = Hash(Fresh[n.made + 1])]
    /\ n' = [n EXCEPT !.resets = @ + 1, !.made = @ + 1]
    /\ told' = Fresh[n.made + 1] /\ raced' = (phase \in {"auth", "up", "headless"})
    /\ UNCHANGED <<env, path, mem, live, phase, tasks, waiting, job, pending, tray, built, manual>>

-----------------------------------------------------------------------------
(* GET and PUT.                                                            *)

(* The form a page fills from GET: keys without secrets unless the caller  *)
(* may see them, no password in the clear.                                 *)
PublicWeb(all) ==
    [mem.web EXCEPT !.keys = IF all THEN @ ELSE [i \in DOMAIN @ |-> [@[i] EXCEPT !.secret = None]],
                    !.pw = IF @.kind = "plain" THEN NoPw ELSE @]

(* An edit of that form: keys dropped and added, the rest kept or replaced. *)
Edited(form, edit) ==
    LET kept == {k \in Range(form.keys) : k.name \notin edit.drop}
    IN  [pw |-> IF edit.pw = NoPw THEN form.pw ELSE edit.pw, confirm |-> edit.confirm,
         keys |-> Only(form.keys, kept) \o edit.add,
         roles |-> IF edit.roles = {} THEN form.roles ELSE [r \in Roles |-> edit.roles],
         listen |-> IF edit.listen = Keep THEN form.listen ELSE edit.listen,
         roleHeader |-> form.roleHeader]

(* configPutHandler hands the section to the main loop and waits.          *)
Send(section, body) ==
    /\ phase = "up" /\ n.puts < MaxPuts /\ Cardinality(waiting) < MaxWaiting
    /\ n' = [n EXCEPT !.puts = @ + 1]
    /\ tasks' = Append(tasks, [id |-> n.puts + 1, section |-> section, body |-> body])
    /\ waiting' = waiting \union {n.puts + 1}
    /\ UNCHANGED <<env, path, store, phase, job, pending, tray, built, ghosts>>

SendGeneral == \E g \in GeneralBodies : Send("general", g)
SendMap == \E l \in Lists : \E m \in MapBodies[l] : Send(l, m)
SendWebserver == \E all \in BOOLEAN, edit \in WebEdits : Send("web", Edited(PublicWeb(all), edit))

(* The request ends before its answer; its task stays in the queue.        *)
GiveUp(id) ==
    /\ id \in waiting /\ waiting' = waiting \ {id}
    /\ UNCHANGED <<env, path, store, phase, tasks, job, pending, tray, built, n, ghosts>>

(* The main loop is done with the task it took.                            *)
Reply(id) == waiting' = waiting \ {id} /\ job' = NoJob

GeneralRestart(g) == g.debug # live.general.debug
WebRestart(cur, next) == cur.listen # next.listen

(* putGeneral, up to the commit: the body under the variables, clamped,    *)
(* and compared with what runs.                                            *)
PutGeneral(task) ==
    /\ job' = [at |-> "ready", task |-> task, file |-> task.body,
               live |-> LiveGeneral(env, task.body),
               restart |-> GeneralRestart(LiveGeneral(env, task.body))]
    /\ UNCHANGED <<waiting, raced>>

(* putStarrList and putFolders, up to the commit.                          *)
PutMap(task) ==
    IF PutAccepts(env, task.section, task.body)
    THEN /\ job' = [at |-> "ready", task |-> task, file |-> task.body,
                    live |-> LiveMap(env, task.section, task.body),
                    restart |-> task.section = "folder"]
         /\ UNCHANGED <<waiting, raced>>
    ELSE Reply(task.id) /\ UNCHANGED raced

(* putWebserver starts with a copy of the live section.                    *)
PutWebserver(task) ==
    /\ job' = [at |-> "snapped", task |-> task, live |-> live.web]
    /\ raced' = (raced \/ tray.at # "none")
    /\ UNCHANGED waiting

TakeTask ==
    /\ Running /\ job = NoJob /\ tasks # <<>>
    /\ tasks' = Tail(tasks)
    /\ CASE Head(tasks).section = "general" -> PutGeneral(Head(tasks))
         [] Head(tasks).section \in Lists -> PutMap(Head(tasks))
         [] Head(tasks).section = "web" -> PutWebserver(Head(tasks))
    /\ UNCHANGED <<env, path, store, phase, pending, tray, built, n, told, manual>>

(* keepNamedAPIKeys: a key sent without its secret has the secret the      *)
(* first of the sources has under its name.                                *)
Named(web, name) == {i \in DOMAIN web.keys : web.keys[i].name = name}
KeepNamed(keys, sources) ==
    [i \in DOMAIN keys |->
        LET known == {j \in DOMAIN sources : Named(sources[j], keys[i].name) # {}} IN
        IF keys[i].secret # None \/ known = {} THEN keys[i]
        ELSE LET web == sources[CHOOSE j \in known : \A k \in known : j <= k]
             IN  [keys[i] EXCEPT !.secret = web.keys[CHOOSE j \in Named(web, keys[i].name) : TRUE].secret]]
DropEmpty(keys) == Only(keys, {k \in Range(keys) : k.secret # None})

(* normalizeStoredPassword: what a page sends is hashed; in the clear it   *)
(* is accepted only from a file.                                           *)
Normalized(pw) ==
    CASE pw.kind \in {"kdf", "path"} -> Hash(ReadPw(pw).text)
      [] pw.kind \notin {"kdf", "path"} -> pw

(* confirmUIPasswordChange: a new password needs the one in force.         *)
Confirmed(body, file) ==
    \/ Proxied(live.web.pw)
    \/ body.pw.kind \in {"none", "path"} \/ body.pw = live.web.pw \/ body.pw = file.pw
    \/ live.web.pw = Hash(body.confirm)

(* Two bugs: keys are filled from what runs; empty keys go first.          *)
FileWebFromLive(body, file) ==
    [pw |-> IF body.pw = NoPw THEN file.pw ELSE IF body.pw.kind = "path" THEN body.pw ELSE Normalized(body.pw),
     keys |-> DropEmpty(KeepNamed(body.keys, <<live.web, file>>)),
     roles |-> body.roles, listen |-> body.listen, roleHeader |-> body.roleHeader]
FileWebDropFirst(body, file) ==
    [pw |-> IF body.pw = NoPw THEN file.pw ELSE IF body.pw.kind = "path" THEN body.pw ELSE Normalized(body.pw),
     keys |-> KeepNamed(DropEmpty(body.keys), <<file>>),
     roles |-> body.roles, listen |-> body.listen, roleHeader |-> body.roleHeader]

(* The section as it will be written, and as it will run.                  *)
FileWeb(body, file) ==
    [pw |-> CASE body.pw = NoPw -> file.pw
              [] body.pw.kind = "path" -> body.pw
              [] body.pw.kind \notin {"none", "path"} -> Normalized(body.pw),
     keys |-> DropEmpty(KeepNamed(body.keys, <<file>>)),
     roles |-> body.roles, listen |-> body.listen, roleHeader |-> body.roleHeader]
KeepLivePw(body, file) == body.pw = NoPw \/ (body.pw.kind # "path" /\ body.pw = file.pw)
NextWeb(body, snap, file) ==
    [pw |-> IF KeepLivePw(body, file) THEN snap.pw ELSE Normalized(body.pw),
     keys |-> Expanded(KeepNamed(body.keys, <<snap, file>>)),
     roles |-> body.roles, listen |-> live.web.listen, roleHeader |-> body.roleHeader]

(* The copy of the file's section, and all checks up to the commit.        *)
CheckWebserver ==
    /\ Running /\ job.at = "snapped"
    /\ LET body == job.task.body
           file == FileWeb(body, mem.web)
           next == NextWeb(body, job.live, mem.web)
       IN  IF /\ body.pw.kind # "plain" /\ Confirmed(body, mem.web) /\ ValidAuth(next)
              /\ ValidAuth([file EXCEPT !.keys = Expanded(@)])
           THEN /\ job' = [at |-> "ready", task |-> job.task, file |-> file, live |-> next,
                           restart |-> WebRestart(mem.web, file)]
                /\ UNCHANGED waiting
           ELSE Reply(job.task.id)
    /\ UNCHANGED <<env, path, store, phase, tasks, pending, tray, built, n, ghosts>>

(* A bug: the keys change and the table of their rights does not.          *)
ApplyLiveOldTable(section, next) ==
    IF section = "general" THEN [live EXCEPT !.general = next]
    ELSE IF section \in Lists THEN [live EXCEPT !.maps[section] = next] ELSE [live EXCEPT !.web = next]

(* applyLive of each section.                                              *)
ApplyLive(section, next) ==
    CASE section = "general" -> [live EXCEPT !.general = next]
      [] section \in Lists -> [live EXCEPT !.maps[section] = next]
      [] section = "web" -> [live EXCEPT !.web = next, !.perms = KeyPerms(next)]
Staged(section, file) ==
    CASE section = "general" -> [mem EXCEPT !.general = file]
      [] section \in Lists -> [mem EXCEPT !.maps[section] = file]
      [] section = "web" -> [mem EXCEPT !.web = file]

(* A bug: the last save alone decides whether a restart is pending.        *)
CommitConfigLast ==
    /\ Running /\ job.at = "ready"
    /\ mem' = Staged(job.task.section, job.file)
    /\ disk' = IF path THEN mem' ELSE disk
    /\ live' = ApplyLive(job.task.section, job.live)
    /\ pending' = job.restart
    /\ Reply(job.task.id)
    /\ told' = IF job.task.section = "web" /\ job.file.pw # mem.web.pw THEN None ELSE told
    /\ UNCHANGED <<env, path, phase, tasks, tray, built, n, raced, manual>>

(* commitConfig under configMu: stage on a copy of the file's document,    *)
(* write it, publish it.                                                   *)
CommitConfig ==
    /\ Running /\ job.at = "ready"
    /\ mem' = Staged(job.task.section, job.file)
    /\ disk' = IF path THEN mem' ELSE disk
    /\ live' = ApplyLive(job.task.section, job.live)
    /\ pending' = (pending \/ job.restart)
    /\ Reply(job.task.id)
    /\ told' = IF job.task.section = "web" /\ job.file.pw # mem.web.pw THEN None ELSE told
    /\ UNCHANGED <<env, path, phase, tasks, tray, built, n, raced, manual>>

(* A bug: what could not be written runs all the same.                     *)
CommitFailsLive ==
    /\ Running /\ job.at = "ready" /\ path /\ n.fails < MaxFails
    /\ n' = [n EXCEPT !.fails = @ + 1]
    /\ live' = ApplyLive(job.task.section, job.live)
    /\ Reply(job.task.id)
    /\ UNCHANGED <<env, path, disk, mem, phase, tasks, pending, tray, built, ghosts>>

(* The write fails: nothing was changed.                                   *)
CommitFails ==
    /\ Running /\ job.at = "ready" /\ path /\ n.fails < MaxFails
    /\ n' = [n EXCEPT !.fails = @ + 1]
    /\ Reply(job.task.id)
    /\ UNCHANGED <<env, path, store, phase, tasks, pending, tray, built, ghosts>>

-----------------------------------------------------------------------------
(* The tray's password dialog: its menu entry is hidden if, at the start,  *)
(* a variable set the password or a proxy logged users in.                 *)

TraySet ==
    /\ Running /\ tray.at = "none" /\ built.dialog /\ n.tray < MaxTray
    /\ \E t \in TrayTexts :
          /\ live' = [live EXCEPT !.web.pw = Hash(t)]
          /\ tray' = [at |-> "set", text |-> t, pass |-> NoPw]
    /\ n' = [n EXCEPT !.tray = @ + 1]
    /\ raced' = (job # NoJob /\ job.task.section = "web")
    /\ told' = None
    /\ UNCHANGED <<env, path, disk, mem, phase, tasks, waiting, job, pending, built, manual>>

(* syncFileUIPassword reads the live password under one mutex ...          *)
TrayRead ==
    /\ Running /\ tray.at = "set"
    /\ tray' = [tray EXCEPT !.at = "read", !.pass = live.web.pw]
    /\ UNCHANGED <<env, path, store, phase, tasks, waiting, job, pending, built, n, ghosts>>

(* A bug: the password goes to what runs and the document keeps the old.   *)
TraySyncLive ==
    /\ Running /\ tray.at = "read"
    /\ live' = [live EXCEPT !.web.pw = tray.pass]
    /\ tray' = [tray EXCEPT !.at = "synced"]
    /\ UNCHANGED <<env, path, disk, mem, phase, tasks, waiting, job, pending, built, n, ghosts>>

(* ... and puts it into the file's document under another.                 *)
TraySync ==
    /\ Running /\ tray.at = "read"
    /\ mem' = [mem EXCEPT !.web.pw = tray.pass]
    /\ tray' = [tray EXCEPT !.at = "synced"]
    /\ UNCHANGED <<env, path, disk, live, phase, tasks, waiting, job, pending, built, n, ghosts>>

TrayWrite ==
    /\ Running /\ tray.at = "synced" /\ tray' = TrayIdle
    /\ \/ path /\ disk' = mem /\ told' = tray.text /\ UNCHANGED n
       \/ ~path /\ UNCHANGED <<disk, told, n>>
       \/ path /\ n.fails < MaxFails /\ n' = [n EXCEPT !.fails = @ + 1] /\ UNCHANGED <<disk, told>>
    /\ UNCHANGED <<env, path, mem, live, phase, tasks, waiting, job, pending, built, raced, manual>>

-----------------------------------------------------------------------------
(* Restarts.                                                               *)

Gone == /\ phase' = "down" /\ tasks' = <<>> /\ waiting' = {} /\ job' = NoJob /\ tray' = TrayIdle

(* A crash; the file may already have what was being written.              *)
Crash ==
    /\ phase \in {"auth", "up", "headless"} /\ n.starts < MaxStarts /\ Gone
    /\ disk' \in {disk} \union (IF path /\ job.at = "ready" THEN {Staged(job.task.section, job.file)} ELSE {})
                        \union (IF path /\ tray.at = "synced" THEN {mem} ELSE {})
    /\ told' = IF disk' = disk THEN told ELSE None
    /\ UNCHANGED <<env, path, mem, live, pending, built, n, raced, manual>>

(* maybeRestart on the main loop, with nothing to do: the flag is taken    *)
(* down first.  Without the path of the binary the process stays as it is; *)
(* if it cannot be started again, the listener is gone.                    *)
MaybeRestart ==
    /\ Running /\ pending /\ job = NoJob /\ n.starts < MaxStarts
    /\ pending' = FALSE
    /\ \/ Gone /\ UNCHANGED manual
       \/ manual' = TRUE /\ UNCHANGED <<phase, tasks, waiting, job, tray>>
       \/ manual' = TRUE /\ phase' = "headless" /\ UNCHANGED <<tasks, waiting, job, tray>>
    /\ UNCHANGED <<env, path, store, built, n, told, raced>>

-----------------------------------------------------------------------------
Init ==
    /\ path \in BOOLEAN
    /\ \E s \in Setups : env = s.env /\ disk = (IF path THEN s.file ELSE Default)
    /\ mem = disk
    /\ live = [general |-> LiveGeneral(env, Default.general), maps |-> Default.maps,
               web |-> Default.web, perms |-> KeyPerms(Default.web)]
    /\ phase = "down" /\ tasks = <<>> /\ waiting = {} /\ job = NoJob /\ pending = FALSE
    /\ tray = TrayIdle
    /\ built = [debug |-> 0, listen |-> "L1", folder |-> Default.maps["folder"], dialog |-> FALSE]
    /\ n = [puts |-> 0, starts |-> 0, fails |-> 0, tray |-> 0, resets |-> 0, made |-> 0]
    /\ told = None /\ raced = FALSE /\ manual = FALSE

Next ==
    \/ \E ok \in BOOLEAN : StartConfig(ok) \/ StartWebServer(ok)
    \/ ResetUIPassword
    \/ SendGeneral \/ SendMap \/ SendWebserver
    \/ \E id \in waiting : GiveUp(id)
    \/ TakeTask \/ CheckWebserver \/ CommitConfig \/ CommitFails
    \/ TraySet \/ TrayRead \/ TraySync \/ TrayWrite
    \/ Crash \/ MaybeRestart

Spec == Init /\ [][Next]_vars

-----------------------------------------------------------------------------
(* Types.                                                                  *)

(* Type invariant: documents have their sections, nothing that runs has a  *)
(* password in the clear or a reference that was not read, and the main    *)
(* loop is in at most one task, taken from at most MaxPuts.                *)
TypeOK ==
    /\ {disk, mem} \subseteq AnyDocument
    /\ phase \in {"down", "auth", "up", "headless", "exited"}
    /\ tray.at \in {"none", "set", "read", "synced"} /\ job.at \in {"none", "snapped", "ready"}
    /\ waiting \subseteq 1 .. MaxPuts /\ Len(tasks) <= MaxPuts
    /\ Running => live.web.pw.kind \in {"hash", "webauth", "noauth"} /\ Ref \notin Secrets(live.web.keys)

(***************************************************************************)
(* What runs is what the file says: in every section but the webserver's a *)
(* running process has what a start from the present file would have, so   *)
(* a PUT that failed, one whose caller gave up, a change at the tray and a *)
(* crash between the write and its publication all leave the two together. *)
(***************************************************************************)
RunsTheFile ==
    Running /\ path =>
        /\ live.general = LiveGeneral(env, disk.general)
        /\ \A l \in Lists : live.maps[l] = LiveMap(env, l, disk.maps[l])

(***************************************************************************)
(* What the variables say and what other files hold stays out of the       *)
(* config file, whoever saved what from which form.                        *)
(***************************************************************************)
Foreign == ForeignTo(env)
SecretsStayOut ==
    /\ Secrets(disk.web.keys) \intersect Foreign = {}
    /\ \A l \in Lists, s \in Slugs : disk.maps[l][s].key \notin Foreign
    /\ env.pw # NoPw => disk.web.pw \notin {env.pw, Hash(env.pw.text)}

(***************************************************************************)
(* As long as the file has an admin key, a key of the file or of the       *)
(* variables opens everything: a start under variables that hide the       *)
(* file's key, a failed write of a made key and a save from a form without *)
(* secrets or from an old form do not lock the administrator out.          *)
(***************************************************************************)
AdminKeyWorks ==
    Running /\ AdminKeys(mem.web.keys) # {} =>
        \E secret \in (Secrets(Expanded(mem.web.keys)) \union {Expand(env.key.secret)}) \ {None} :
            Authenticate([header |-> secret]) = AllPermissions

(***************************************************************************)
(* A key that a saved form lists without its secret keeps the secret the   *)
(* file has, in the file, and stays among the keys in force.               *)
(***************************************************************************)
FormKeepsKeys ==
    [][job.at = "ready" /\ job.task.section = "web" /\ job' = NoJob /\ mem' # mem =>
        \A i \in DOMAIN job.task.body.keys, j \in DOMAIN mem.web.keys :
            LET key == job.task.body.keys[i]
                old == mem.web.keys[j]
            IN  key.secret = None /\ key.name = old.name /\ old.secret # None =>
                    /\ old.secret \in Secrets(mem'.web.keys)
                    /\ key.name \in Names(live'.web.keys)]_vars

(***************************************************************************)
(* A password the user was told is saved is the one in the file, and the   *)
(* one in force, until it is changed again: no save of another section and *)
(* no restart brings the old one back.  raced leaves out the two overlaps  *)
(* that do: see SavedStays.                                                *)
(***************************************************************************)
ToldHolds ==
    told # None /\ ~raced =>
        /\ disk.web.pw = Hash(told)
        /\ Running /\ env.pw = NoPw => live.web.pw = Hash(told)

(***************************************************************************)
(* Whatever of the running process differs from what the file now asks for *)
(* and cannot be changed in place, a restart is pending for it, also when  *)
(* the caller gave up or a later save changed nothing - unless the log     *)
(* asked for a manual restart.                                             *)
(***************************************************************************)
RestartOwed ==
    Running /\ path /\ ~manual =>
        \/ pending
        \/ /\ built.debug = LiveGeneral(env, disk.general).debug
           /\ built.listen = disk.web.listen
           /\ built.folder = LiveMap(env, "folder", disk.maps["folder"])

(***************************************************************************)
(* The rights of a request are those the keys and roles in force give it:  *)
(* the table by secret is never older than they are, whichever path - a    *)
(* start, an adopted or a made key, a PUT - last changed them.             *)
(***************************************************************************)
Requests == [header : {None}, bearer : {"wrong"}, session : BOOLEAN, trusted : BOOLEAN,
             user : BOOLEAN, roles : {{}, {Admin}, Roles}]
Granted(req) ==
    LET kind == live.web.pw.kind IN
    IF ~Proxied(live.web.pw) THEN (IF req.session THEN AllPermissions ELSE {})
    ELSE IF ~req.trusted \/ (kind = "webauth" /\ ~req.user) THEN {}
    ELSE IF kind = "noauth" \/ live.web.roleHeader = None THEN AllPermissions
    ELSE RolePerms(live.web.roles, req.roles)
RightsAreCurrent ==
    Running =>
        /\ \A i \in DOMAIN live.web.keys :
              Authenticate([header |-> live.web.keys[i].secret])
                  = RolePerms(live.web.roles, {live.web.keys[i].role})
        /\ DOMAIN live.perms = Secrets(live.web.keys)
        /\ \A req \in Requests : req.bearer \notin Secrets(live.web.keys) =>
              Authenticate(req) = Granted(req)

(***************************************************************************)
(* What the program's messages and comments say but does not hold.         *)
(***************************************************************************)

(* "Reset UI password ... and wrote ...", "Updated UI password ...": the    *)
(* password the user was told stays in the file.                           *)
SavedStays == told # None => disk.web.pw = Hash(told)

(* A process that was up and took a save can be started again.             *)
AcceptedStarts == n.puts > 0 => phase # "exited"
=============================================================================
