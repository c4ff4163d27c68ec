----------------------------- MODULE HookDelivery -----------------------------
(***************************************************************************)
(* Webhooks and command hooks.  The main loop queues one delivery per hook *)
(* for a status change and waits while the queue is full.  One worker      *)
(* serves the queue; for Discord and Telegram it edits the message it      *)
(* posted before, whose id it finds in a cache of its own.  Failures and   *)
(* new message ids go back to the main loop, which owns the live items and *)
(* their history rows: a list under a mutex and a wake token.              *)
(*                                                                         *)
(* An item is removed and another one of the same name appears while       *)
(* deliveries of the first still wait; the process restarts.  Item numbers *)
(* (live) stand for the *Extract pointers.                                 *)
(***************************************************************************)
EXTENDS Naturals, SequencesExt

CONSTANTS
  Ids,        \* Starr titles: keys of the live items and of the history
  HookList,   \* the configured hooks, webhooks first
  Editing,    \* webhooks that edit their last message (WantUpdate)
  Commands,   \* command hooks; the rest are plain webhooks
  Events,     \* the statuses each hook asks for; WAITING alone is all of them
  Exclude,    \* the ids each hook leaves out, by app or instance name
  HookBuf,    \* capacity of the hook queue
  MaxLives,   \* bound: items that ever exist
  MaxChanges, \* bound: status changes that fire hooks
  MaxChat,    \* bound: messages ever posted
  None        \* no item, row, cache or delivery

Hooks == ToSet(HookList)
Statuses == {"WAITING", "QUEUED", "EXTRACTFAILED", "EXTRACTED", "DELETED"}

ASSUME HookAssumption ==
  /\ HookList \in Seq(Hooks) /\ IsInjective(HookList)
  /\ Editing \subseteq Hooks
  /\ Commands \subseteq Hooks \ Editing
  /\ Events \in [Hooks -> SUBSET Statuses]
  /\ Exclude \in [Hooks -> SUBSET Ids]
  /\ {HookBuf, MaxLives, MaxChanges, MaxChat} \subseteq Nat
  /\ HookBuf > 0

VARIABLES
  map,            \* the live item of an id
  records,        \* the history row of an id
  hookMsgs,       \* the worker's cache of an id
  pendingHooks,   \* status changes whose hooks are not queued yet
  sending,        \* deliveries the main loop still has to queue
  queue,          \* the hook worker's queue
  job,            \* the delivery the worker is at
  hookFails,      \* ids of failed deliveries
  failWake,       \* hookFailWake holds a token
  hookMsgSaves,   \* message ids to record
  msgWake,        \* hookMsgWake holds a token
  inFlight,       \* hooks queued or running
  pendingRestart, \* a restart waits for the loop to be idle
  chat,           \* what was ever posted to Discord and Telegram
  changes,        \* status changes so far that fire hooks
  lives           \* items so far

main == <<map, records, pendingHooks, sending, pendingRestart, changes, lives>>
worker == <<queue, job, inFlight>>
shared == <<hookMsgs, hookFails, failWake, hookMsgSaves, msgWake>>
vars == <<main, worker, shared, chat>>

-----------------------------------------------------------------------------
NoMessages == [h \in Editing |-> 0]
MessageIds == [Editing -> 0..MaxChat]

Item == [live : 1..MaxLives, status : Statuses, msgs : MessageIds, fails : Nat]
Delivery == [id : Ids, hook : Hooks, live : 1..MaxLives, change : 1..MaxChanges]
Steps == {"lookup", "edit", "post", "save", "saved", "failed", "reported", "done"}
Job == [of : Delivery, at : Steps, msg : 0..MaxChat]
Cache == [live : 1..MaxLives, msgs : MessageIds]
Message == [of : 1..MaxLives, hook : Editing, change : 1..MaxChanges,
            there : BOOLEAN, known : BOOLEAN, here : BOOLEAN]
Pending == [id : Ids, item : Item, change : 1..MaxChanges]
MsgSave == [id : Ids, hook : Editing, live : 1..MaxLives, msg : 1..MaxChat]

ASSUME NoneAssumption == None \notin Item \cup Job \cup Cache

\* Starr WAITING is not recorded; the next poll recreates it.
Persisted(item) == item.status # "WAITING"

HasEvent(h, status) == status \in Events[h] \/ Events[h] = {"WAITING"}

Excluded(h, id) == id \in Exclude[h]

\* (mutant: whoever has the name owns the cache)
OwnedByName(c, live) == c # None

OwnedBy(c, live) == c # None /\ c.live = live

\* maybeRecordHistory
Record(id, item) ==
  IF Persisted(item) THEN [records EXCEPT ![id] = item] ELSE records

-----------------------------------------------------------------------------
(* The main loop.  It takes its next case once all hooks are queued.       *)

Free == pendingHooks = <<>> /\ sending = <<>>

\* queuePendingHook: the item as it is now.
QueuePendingHook(id, item) ==
  /\ changes < MaxChanges
  /\ changes' = changes + 1
  /\ pendingHooks' =
       Append(pendingHooks, [id |-> id, item |-> item, change |-> changes + 1])

\* A title enters the live queue.
NewItem(id) ==
  /\ Free
  /\ map[id] = None
  /\ lives < MaxLives
  /\ lives' = lives + 1
  /\ map' = [map EXCEPT ![id] =
       [live |-> lives + 1, status |-> "WAITING", msgs |-> NoMessages, fails |-> 0]]
  /\ UNCHANGED <<records, pendingHooks, sending, pendingRestart, changes, worker, shared, chat>>

\* updateQueueStatus with a hook.
UpdateQueueStatus(id, status) ==
  /\ Free
  /\ map[id] # None
  /\ <<map[id].status, status>> \in
       {<<"WAITING", "QUEUED">>, <<"QUEUED", "EXTRACTFAILED">>, <<"QUEUED", "EXTRACTED">>,
        <<"EXTRACTFAILED", "EXTRACTFAILED">>, <<"EXTRACTED", "DELETED">>}
  /\ LET item == [map[id] EXCEPT !.status = status] IN
       /\ map' = [map EXCEPT ![id] = item]
       /\ QueuePendingHook(id, item)
       /\ records' = Record(id, item)
  /\ UNCHANGED <<sending, pendingRestart, lives, worker, shared, chat>>

\* A failed item is tried again, without a hook or a row.
RetryFailed(id) ==
  /\ Free
  /\ map[id] # None
  /\ map[id].status = "EXTRACTFAILED"
  /\ map' = [map EXCEPT ![id].status = "WAITING"]
  /\ UNCHANGED <<records, pendingHooks, sending, pendingRestart, changes, lives,
                 worker, shared, chat>>

\* deleteExtract, once deleted or out of the queue before it was extracted.
DeleteExtract(id) ==
  /\ Free
  /\ map[id] # None
  /\ map[id].status \in {"WAITING", "DELETED"}
  /\ map' = [map EXCEPT ![id] = None]
  /\ hookMsgs' = IF OwnedBy(hookMsgs[id], map[id].live)
                 THEN [hookMsgs EXCEPT ![id] = None] ELSE hookMsgs
  /\ UNCHANGED <<records, pendingHooks, sending, pendingRestart, changes, lives,
                 worker, hookFails, failWake, hookMsgSaves, msgWake, chat>>

\* (mutant: the snapshot of the item replaces what the worker saved since)
SeedSnapshot(c, item) == [live |-> item.live, msgs |-> item.msgs]

\* The cache before hooks of an item are queued: another item's is replaced;
\* ids the worker saved win over those of the item.
SeedHookMessages(c, item) ==
  IF OwnedBy(c, item.live)
  THEN [c EXCEPT !.msgs = [h \in Editing |-> IF @[h] # 0 THEN @[h] ELSE item.msgs[h]]]
  ELSE [live |-> item.live, msgs |-> item.msgs]

\* The deliveries d of a status change p and one for hook h, if it fires.
Fire(p, d, h) ==
  IF HasEvent(h, p.item.status) /\ ~Excluded(h, p.id)
  THEN Append(d, [id |-> p.id, hook |-> h, live |-> p.item.live, change |-> p.change])
  ELSE d

Deliveries(p) == FoldLeft(LAMBDA d, h : Fire(p, d, h), <<>>, HookList)

\* runAllHooks for the first pending status change.
RunAllHooks ==
  /\ sending = <<>>
  /\ pendingHooks # <<>>
  /\ LET p == Head(pendingHooks) IN
        /\ hookMsgs' = [hookMsgs EXCEPT ![p.id] = SeedHookMessages(@, p.item)]
        /\ sending' = Deliveries(p)
        /\ pendingHooks' = Tail(pendingHooks)
  /\ UNCHANGED <<map, records, pendingRestart, changes, lives, worker,
                 hookFails, failWake, hookMsgSaves, msgWake, chat>>

\* queueHook: counted, then sent; the loop waits in it while the queue is full.
QueueHook ==
  /\ sending # <<>>
  /\ Len(queue) < HookBuf
  /\ queue' = Append(queue, Head(sending))
  /\ sending' = Tail(sending)
  /\ inFlight' = inFlight + 1
  /\ UNCHANGED <<map, records, pendingHooks, pendingRestart, changes, lives, job, shared, chat>>

-----------------------------------------------------------------------------
(* What the worker reported.                                               *)

\* recordHookFail on a state s of items and rows: the item's count and its
\* row's; a row alone when the item is gone or not recorded.
RecordHookFail(s, id) ==
  LET bumped == IF s.map[id] = None THEN None ELSE [s.map[id] EXCEPT !.fails = @ + 1]
      row == IF bumped # None /\ Persisted(bumped) THEN bumped
             ELSE IF s.records[id] = None THEN None
             ELSE [s.records[id] EXCEPT !.fails = @ + 1]
  IN [map |-> [s.map EXCEPT ![id] = bumped], records |-> [s.records EXCEPT ![id] = row]]

\* saveHookMessage: to the item that posted it; to the row when no item has
\* the name any more; nowhere when a newer item has it.
SaveHookMessage(s, save) ==
  LET id == save.id
      item == IF s.map[id] = None THEN None ELSE [s.map[id] EXCEPT !.msgs[save.hook] = save.msg]
  IN IF item = None THEN
       [s EXCEPT !.records[id] =
          IF @ = None THEN None ELSE [@ EXCEPT !.msgs[save.hook] = save.msg]]
     ELSE IF item.live # save.live THEN s
     ELSE [map |-> [s.map EXCEPT ![id] = item],
           records |-> IF Persisted(item) THEN [s.records EXCEPT ![id] = item] ELSE s.records]

Kept == [map |-> map, records |-> records]

DrainHookFails ==
  /\ Free
  /\ failWake
  /\ failWake' = FALSE
  /\ hookFails' = <<>>
  /\ LET s == FoldLeft(RecordHookFail, Kept, hookFails) IN
       map' = s.map /\ records' = s.records
  /\ UNCHANGED <<pendingHooks, sending, pendingRestart, changes, lives, worker,
                 hookMsgs, hookMsgSaves, msgWake, chat>>

DrainHookMessages ==
  /\ Free
  /\ msgWake
  /\ msgWake' = FALSE
  /\ hookMsgSaves' = <<>>
  /\ LET s == FoldLeft(SaveHookMessage, Kept, hookMsgSaves) IN
       map' = s.map /\ records' = s.records
  /\ UNCHANGED <<pendingHooks, sending, pendingRestart, changes, lives, worker,
                 hookMsgs, hookFails, failWake, chat>>

-----------------------------------------------------------------------------
(* The worker: one delivery at a time, in order.                           *)

Take ==
  /\ job = None
  /\ queue # <<>>
  /\ LET d == Head(queue) IN
       job' = [of |-> d, at |-> IF d.hook \in Editing THEN "lookup" ELSE "post", msg |-> 0]
  /\ queue' = Tail(queue)
  /\ UNCHANGED <<main, shared, inFlight, chat>>

At(step) == job # None /\ job.at = step

To(step) == job' = [job EXCEPT !.at = step]

\* lookupHookMessage
Lookup ==
  /\ At("lookup")
  /\ LET d == job.of
         c == hookMsgs[d.id]
         msg == IF OwnedBy(c, d.live) THEN c.msgs[d.hook] ELSE 0
     IN job' = [of |-> d, at |-> IF msg # 0 THEN "edit" ELSE "post", msg |-> msg]
  /\ UNCHANGED <<main, shared, queue, inFlight, chat>>

\* deliverDiscord and deliverTelegram with an id: edit; only an answer that
\* the message is gone leads to a new one.  The reply to an edit may be lost.
Edit ==
  /\ At("edit")
  /\ \/ chat[job.msg].there /\ To("done")
        /\ chat' = [chat EXCEPT ![job.msg].change = job.of.change]
     \/ chat[job.msg].there /\ To("failed")
        /\ chat' = [chat EXCEPT ![job.msg].change = job.of.change]
     \/ To("failed") /\ UNCHANGED chat
     \/ ~chat[job.msg].there /\ To("post") /\ UNCHANGED chat
  /\ UNCHANGED <<main, shared, queue, inFlight>>

Posted(known) ==
  [of |-> job.of.live, hook |-> job.of.hook, change |-> job.of.change,
   there |-> TRUE, known |-> known, here |-> TRUE]

\* The first message, or an anonymous one, or a command: done or failed.  An
\* editing hook saves the id of the reply, if the reply arrives and has one.
Post ==
  /\ At("post")
  /\ IF job.of.hook \in Editing
     THEN \/ /\ Len(chat) < MaxChat
             /\ \/ chat' = Append(chat, Posted(TRUE)) /\ job' = [of |-> job.of, at |-> "save", msg |-> Len(chat) + 1]
                \/ chat' = Append(chat, Posted(FALSE)) /\ (To("done") \/ To("failed"))
          \/ To("failed") /\ UNCHANGED chat
     ELSE (To("done") \/ To("failed")) /\ UNCHANGED chat
  /\ UNCHANGED <<main, shared, queue, inFlight>>

\* storeHookMessage: dropped when the cache is another item's.
Save ==
  /\ At("save")
  /\ LET d == job.of
         c == hookMsgs[d.id]
         own == IF c = None THEN [live |-> d.live, msgs |-> NoMessages] ELSE c
     IN IF c = None \/ OwnedBy(c, d.live)
        THEN /\ hookMsgs' = [hookMsgs EXCEPT ![d.id] = [own EXCEPT !.msgs[d.hook] = job.msg]]
             /\ hookMsgSaves' = Append(hookMsgSaves,
                  [id |-> d.id, hook |-> d.hook, live |-> d.live, msg |-> job.msg])
             /\ To("saved")
        ELSE To("done") /\ UNCHANGED <<hookMsgs, hookMsgSaves>>
  /\ UNCHANGED <<main, queue, inFlight, hookFails, failWake, msgWake, chat>>

WakeForMessage ==
  /\ At("saved")
  /\ msgWake' = TRUE
  /\ To("done")
  /\ UNCHANGED <<main, queue, inFlight, hookMsgs, hookFails, failWake, hookMsgSaves, chat>>

\* (mutant: the main loop is woken before there is something to drain)
ReportAfterWake ==
  /\ At("failed") \/ At("reported")
  /\ \/ At("failed") /\ failWake' = TRUE /\ To("reported") /\ UNCHANGED hookFails
     \/ At("reported") /\ hookFails' = Append(hookFails, job.of.id) /\ To("done") /\ UNCHANGED failWake
  /\ UNCHANGED <<main, queue, inFlight, hookMsgs, hookMsgSaves, msgWake, chat>>

\* reportHookFail, in two steps: the list, then the token.
ReportHookFail ==
  /\ At("failed") \/ At("reported")
  /\ \/ At("failed") /\ hookFails' = Append(hookFails, job.of.id) /\ To("reported") /\ UNCHANGED failWake
     \/ At("reported") /\ failWake' = TRUE /\ To("done") /\ UNCHANGED hookFails
  /\ UNCHANGED <<main, queue, inFlight, hookMsgs, hookMsgSaves, msgWake, chat>>

\* (mutant: only a delivery that did not fail is counted down)
FinishUncounted ==
  /\ At("done")
  /\ job' = None
  /\ inFlight' = inFlight - (IF hookFails = <<>> THEN 1 ELSE 0)
  /\ UNCHANGED <<main, shared, queue, chat>>

\* The end of one delivery: after() counts it down.
Finish ==
  /\ At("done")
  /\ job' = None
  /\ inFlight' = inFlight - 1
  /\ UNCHANGED <<main, shared, queue, chat>>

\* Somebody deletes a message.
Vanish(m) ==
  /\ chat[m].there
  /\ chat' = [chat EXCEPT ![m].there = FALSE]
  /\ UNCHANGED <<main, worker, shared>>

-----------------------------------------------------------------------------
(* Restarts.                                                               *)

\* A config PUT asks for a restart.
AskRestart ==
  /\ Free
  /\ ~pendingRestart
  /\ pendingRestart' = TRUE
  /\ UNCHANGED <<map, records, pendingHooks, sending, changes, lives, worker, shared, chat>>

\* Items restored from their rows: queued ones wait for the next poll again,
\* deleted ones are not restored.
Restored(rows) ==
  [id \in Ids |->
     IF rows[id] = None \/ rows[id].status = "DELETED" THEN None
     ELSE IF rows[id].status = "QUEUED" THEN [rows[id] EXCEPT !.status = "WAITING"]
     ELSE rows[id]]

\* A new process, with the rows of the last one.  It knows the messages whose
\* ids are in restored items.
NewProcess(rows) ==
  /\ records' = rows
  /\ map' = Restored(rows)
  /\ hookMsgs' = [id \in Ids |-> None]
  /\ pendingHooks' = <<>> /\ sending' = <<>> /\ queue' = <<>>
  /\ job' = None
  /\ hookFails' = <<>> /\ failWake' = FALSE
  /\ hookMsgSaves' = <<>> /\ msgWake' = FALSE
  /\ inFlight' = 0
  /\ pendingRestart' = FALSE
  /\ chat' = [m \in DOMAIN chat |-> [chat[m] EXCEPT
       !.here = FALSE,
       !.known = \E id \in Ids : map'[id] # None /\ map'[id].msgs[chat[m].hook] = m]]
  /\ UNCHANGED <<changes, lives>>

Crash == NewProcess(records)

\* maybeRestart: drain, then restart if nothing is queued, running or reported
\* and no item is between two states.
MaybeRestart ==
  LET s == FoldLeft(SaveHookMessage, FoldLeft(RecordHookFail, Kept, hookFails), hookMsgSaves) IN
  /\ Free
  /\ pendingRestart
  /\ IF inFlight = 0 /\ \A id \in Ids :
          s.map[id] = None \/ s.map[id].status \in {"WAITING", "EXTRACTFAILED", "DELETED"}
     THEN NewProcess(s.records)
     ELSE /\ map' = s.map /\ records' = s.records
          /\ hookFails' = <<>> /\ hookMsgSaves' = <<>>
          /\ UNCHANGED <<pendingHooks, sending, pendingRestart, changes, lives, worker,
                         hookMsgs, failWake, msgWake, chat>>

-----------------------------------------------------------------------------
Init ==
  /\ map = [id \in Ids |-> None]
  /\ records = [id \in Ids |-> None]
  /\ hookMsgs = [id \in Ids |-> None]
  /\ pendingHooks = <<>> /\ sending = <<>> /\ queue = <<>>
  /\ job = None
  /\ hookFails = <<>> /\ hookMsgSaves = <<>>
  /\ failWake = FALSE /\ msgWake = FALSE /\ pendingRestart = FALSE
  /\ inFlight = 0 /\ changes = 0 /\ lives = 0
  /\ chat = <<>>

Next ==
  \/ RunAllHooks \/ QueueHook \/ DrainHookFails \/ DrainHookMessages
  \/ Take \/ Lookup \/ Edit \/ Post
  \/ Save \/ WakeForMessage \/ ReportHookFail \/ Finish
  \/ AskRestart \/ MaybeRestart \/ Crash
  \/ \E m \in DOMAIN chat : Vanish(m)
  \/ \E id \in Ids :
       \/ NewItem(id) \/ RetryFailed(id) \/ DeleteExtract(id)
       \/ \E status \in Statuses : UpdateQueueStatus(id, status)

Spec == Init /\ [][Next]_vars

-----------------------------------------------------------------------------
(* Properties.                                                             *)

\* Every variable keeps its type.
TypeOK ==
  /\ map \in [Ids -> Item \cup {None}]
  /\ records \in [Ids -> Item \cup {None}]
  /\ hookMsgs \in [Ids -> Cache \cup {None}]
  /\ pendingHooks \in Seq(Pending)
  /\ sending \in Seq(Delivery)
  /\ queue \in Seq(Delivery)
  /\ job \in Job \cup {None}
  /\ hookFails \in Seq(Ids)
  /\ hookMsgSaves \in Seq(MsgSave)
  /\ failWake \in BOOLEAN /\ msgWake \in BOOLEAN /\ pendingRestart \in BOOLEAN
  /\ inFlight \in Nat /\ changes \in 0..MaxChanges /\ lives \in 0..MaxLives
  /\ chat \in Seq(Message)

\* The count that idle() trusts is the work there is: a hook queued or under
\* way is counted until it is delivered, failed or not (restart.go:58).
InFlightExact == inFlight = Len(queue) + (IF job = None THEN 0 ELSE 1)

\* What the worker reported is drained: while there is something to drain the
\* main loop has a wake token, or the worker is about to send one.
NoLostWake ==
  /\ hookFails # <<>> => failWake \/ At("reported")
  /\ hookMsgSaves # <<>> => msgWake \/ At("saved")

\* A delivery edits a message of its own extraction and hook only, when this
\* process posted it: neither a name used again nor a save that comes late
\* makes the worker find another extraction's id.
EditsOwnHere ==
  [][\A m \in DOMAIN chat : chat'[m].change # chat[m].change =>
       ~chat[m].here \/ (chat[m].of = job.of.live /\ chat[m].hook = job.of.hook)]_vars

\* webhook.go:300 says that a reused title or path cannot edit the message of
\* the extraction that had it before.  It can after a restart: a late id goes
\* to the row of the name, which may be a newer extraction's by then.
EditsOwnMessage ==
  [][\A m \in DOMAIN chat : chat'[m].change # chat[m].change =>
       chat[m].of = job.of.live]_vars

\* While an extraction is in the live queue, a hook that edits posts a second
\* message only if the first is gone or its id never got back: an id the worker
\* saved is found by the next delivery, drained by the main loop or not.
PostsOnce ==
  [][\A m \in DOMAIN chat :
       /\ Len(chat') > Len(chat)
       /\ chat[m].of = job.of.live /\ chat[m].hook = job.of.hook
       /\ chat[m].known /\ chat[m].there
       => map[job.of.id] = None \/ map[job.of.id].live # job.of.live]_vars
=============================================================================
