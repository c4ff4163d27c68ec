------------------------------- MODULE LiveHub -------------------------------
(***************************************************************************)
(* The live web pages.  Whoever changes the queue or the history notifies  *)
(* the hub under the lock of what changed; the hub's own goroutine sends   *)
(* frames to the clients that asked for the topic.  Queue tables and       *)
(* progress are coalesced until the next tick, history goes through a      *)
(* bounded channel, and a client's buffer is bounded too: a full one drops *)
(* the frame.  A subscription is served by the client's own goroutine, so  *)
(* its snapshot can reach the client before or after the hub's frames.     *)
(*                                                                         *)
(* A row of the queue is [status, detail]: status counts the changes that  *)
(* notify the whole table, detail those that send the row alone.  Progress *)
(* of a job whose item has left the queue is a row of its own.             *)
(***************************************************************************)
EXTENDS Naturals, SequencesExt, FiniteSets

CONSTANTS
  Items,      \* ids of the rows of the queue: names and paths of items
  Rows,       \* durable history rows
  Clients,    \* websocket connections, each used once
  HubEventBuf, ClientSendBuf, HubClientBuf,   \* capacities
  FollowLog,  \* lines of a log replayed to a new subscriber
  LogLines,   \* lines there are in the log
  MaxChanges, \* bound: changes of the queue, the counters and the history
  MaxSubs,    \* bound: subscriptions of one connection
  None

ASSUME HubAssumption ==
  /\ {HubEventBuf, ClientSendBuf, HubClientBuf, FollowLog, LogLines, MaxChanges, MaxSubs}
       \subseteq Nat
  /\ IsFiniteSet(Items)

VARIABLES
  table,      \* the live items
  gone,       \* the last status of items that left; xtractr may still run them
  count,      \* counters that change without the queue
  records,    \* the history
  changes,    \* changes so far
  pending,    \* the latest progress of an item this tick
  pendingQ,   \* the latest queue frame this tick
  events,     \* history frames on their way to the hub
  gap,        \* one was dropped, and older ones are still on their way
  register, unregister,  \* clients on their way in and out
  clients,    \* the clients the hub knows
  lastStats,  \* the counters of the last queue frame
  hub,        \* where the hub is in its loop
  conn,       \* off, on or closed
  topics,     \* what a client asked for
  send,       \* frames that wait to be written to a client
  sub,        \* a subscription being served
  page,       \* what the page of a client shows
  subs,       \* subscriptions of a client so far
  (* history variables *)
  missed,     \* topics of which a client was not sent the latest, or not last
  astray,     \* rows of progress sent since the last table, in another status
              \* than their item's
  untold      \* rows of the history that changed without a frame, and since
              \* had none

server == <<table, gone, count, records, untold, changes>>
mailbox == <<pending, pendingQ, events, gap>>
loop == <<clients, lastStats, hub, astray>>
doors == <<register, unregister>>
session == <<conn, topics, sub, subs>>
vars == <<server, mailbox, loop, doors, session, send, page, missed>>

-----------------------------------------------------------------------------
Topics == {"queue", "history", "logs"}
Row == [status : Nat, detail : Nat]
Table == [Items -> Row \cup {None}]
QueueFrame == [type : {"queue"}, items : Table \cup {None}, stats : Nat]
ProgressFrame == [type : {"progress"}, item : Items, row : Row]
HistoryFrame == [type : {"history"}, op : {"upsert", "delete"}, row : Rows, version : Nat]
                  \cup [type : {"history"}, op : {"clear"}]
                  \cup [type : {"history"}, op : {"snapshot"}, rows : [Rows -> Nat]]
Frame == QueueFrame \cup ProgressFrame \cup HistoryFrame \cup [type : {"log"}, line : 1..LogLines]
Sub == [at : {"stats", "items", "queue", "rows", "history", "logs"},
        stats : Nat, items : Table \cup {None}, rows : [Rows -> Nat], line : 1..LogLines + 1]

ASSUME NoneAssumption ==
  None \notin Row /\ None \notin Table /\ None \notin QueueFrame /\ None \notin Sub

EmptyTable == [i \in Items |-> None]
Status(row) == IF row = None THEN 0 ELSE row.status
NoRows == [r \in Rows |-> 0]
\* A page that was sent nothing.
Blank == [queue |-> EmptyTable, stats |-> 0, history |-> NoRows, lines |-> {}]

\* The topic a frame is sent to.  Progress belongs to the queue.
Topic(frame) ==
  IF frame.type = "history" THEN "history" ELSE IF frame.type = "log" THEN "logs" ELSE "queue"

\* lastN: the lines a new subscriber of the log is sent.
FollowFrom == IF LogLines > FollowLog THEN LogLines - FollowLog + 1 ELSE 1

-----------------------------------------------------------------------------
(* Producers.                                                              *)

Changed == changes < MaxChanges /\ changes' = changes + 1

\* An item comes, changes its status or leaves.
ChangeTable(i) ==
  \/ /\ table[i] # None
     /\ table' = [table EXCEPT ![i] = None]
     /\ gone' = gone \cup {table[i].status}
  \/ /\ table' = [table EXCEPT ![i] = [status |-> changes', detail |-> 0]]
     /\ UNCHANGED gone

\* (mutant: a frame that waits is kept)
NotifyQueueOnce(i) ==
  /\ Changed
  /\ ChangeTable(i)
  /\ pendingQ' = IF pendingQ # None THEN pendingQ
                 ELSE [type |-> "queue", items |-> table', stats |-> count]
  /\ UNCHANGED <<count, records, untold, pending, events, gap, loop, doors, session, send, page, missed>>

\* notifyQueueLocked after such a change: the new frame replaces the one that
\* waits.
NotifyQueue(i) ==
  /\ Changed
  /\ ChangeTable(i)
  /\ pendingQ' = [type |-> "queue", items |-> table', stats |-> count]
  /\ UNCHANGED <<count, records, untold, pending, events, gap, loop, doors, session, send, page, missed>>

\* notifyProgress: progress, a note or a hook failure of an item; or progress
\* of a job whose item left, as a row of the item's path in its last status.
NotifyProgress(i) ==
  /\ Changed
  /\ \/ /\ table[i] # None
        /\ table' = [table EXCEPT ![i].detail = changes']
        /\ pending' = [pending EXCEPT ![i] = table'[i]]
     \/ /\ \E status \in gone :
             pending' = [pending EXCEPT ![i] = [status |-> status, detail |-> changes']]
        /\ UNCHANGED table
  /\ UNCHANGED <<gone, count, records, untold, pendingQ, events, gap, loop, doors, session, send, page, missed>>

\* Hook totals and channel depths.
Count ==
  /\ Changed
  /\ count' = changes'
  /\ UNCHANGED <<table, gone, records, untold, mailbox, loop, doors, session, send, page, missed>>

\* What the hub was not told is missed by every client.
Miss == missed' = [c \in Clients |-> missed[c] \cup {"history"}]

\* notify: dropped when the channel is full.
Notify(frame) ==
  IF Len(events) < HubEventBuf
  THEN events' = Append(events, frame) /\ UNCHANGED <<gap, missed>>
  ELSE gap' = TRUE /\ Miss /\ UNCHANGED events

\* The frame for a row: an upsert, or a delete for a row that is gone or of
\* work in progress, which the page does not show.
RowFrame(r, version) ==
  [type |-> "history", op |-> IF version = 0 THEN "delete" ELSE "upsert", row |-> r, version |-> version]

\* A row becomes version, and keep_history takes the rows of capped.
RecordsWith(r, version, capped) ==
  [q \in Rows |-> IF q = r THEN version ELSE IF q \in capped THEN 0 ELSE records[q]]

\* (mutant: a row that goes is not announced)
NotifyUpserts ==
  /\ Changed
  /\ \E r \in Rows, version \in {0, changes'}, capped \in SUBSET {q \in Rows : records[q] # 0} :
       /\ records' = RecordsWith(r, version, capped)
       /\ untold' = (untold \cup capped) \ {r}
       /\ IF version = 0 THEN UNCHANGED <<events, gap, missed>> ELSE Notify(RowFrame(r, version))
  /\ UNCHANGED <<table, gone, count, pending, pendingQ, loop, doors, session, send, page>>

\* upsertHistory, deleteHistoryID and clearHistory, under the lock of the
\* history.  A frame tells of the row itself, and of no row that keep_history
\* takes.
NotifyHistory ==
  /\ Changed
  /\ \/ \E r \in Rows, version \in {0, changes'}, capped \in SUBSET {q \in Rows : records[q] # 0} :
          /\ records' = RecordsWith(r, version, capped)
          /\ untold' = (untold \cup capped) \ {r}
          /\ Notify(RowFrame(r, version))
     \/ /\ records' = NoRows
        /\ untold' = {}
        /\ Notify([type |-> "history", op |-> "clear"])
  /\ UNCHANGED <<table, gone, count, pending, pendingQ, loop, doors, session, send, page>>

\* loadHistory, when keep_history is turned on while the process runs: rows go
\* and come back, and no frame tells of it.
LoadHistory ==
  /\ Changed
  /\ \E back \in SUBSET Rows, capped \in SUBSET {q \in Rows : records[q] # 0} :
       /\ records' = [q \in Rows |->
            IF q \in back THEN changes' ELSE IF q \in capped THEN 0 ELSE records[q]]
       /\ untold' = untold \cup capped \cup back
  /\ UNCHANGED <<table, gone, count, mailbox, loop, doors, session, send, page, missed>>

-----------------------------------------------------------------------------
(* The hub.  A client that asked for a topic and is not known to the hub   *)
(* yet, or whose buffer is full, misses the frame; one whose snapshot is   *)
(* being built may be sent the snapshot after it.                          *)

Wants(c, topic) == conn[c] = "on" /\ topic \in topics[c]

\* enqueue
Enqueue(q, frame) == IF Len(q) < ClientSendBuf THEN Append(q, frame) ELSE q
\* ... of each frame of a list.
EnqueueAll(q, frames) ==
  LET put[k \in 0..Len(frames)] == IF k = 0 THEN q ELSE Enqueue(put[k - 1], frames[k])
  IN put[Len(frames)]

Overtaken(c, topic) ==
  \/ topic = "queue" /\ sub[c] # None /\ sub[c].at \in {"items", "queue"}
  \/ topic = "history" /\ sub[c] # None /\ sub[c].at = "history"

\* Whether a frame that is sent now leaves a client behind.
LeftBehind(c, frame) ==
  \/ c \notin clients \/ Len(send[c]) >= ClientSendBuf \/ Overtaken(c, Topic(frame))

Broadcast(frame) ==
  LET topic == Topic(frame) IN
  /\ send' = [c \in Clients |->
       IF c \in clients /\ Wants(c, topic) THEN Enqueue(send[c], frame) ELSE send[c]]
  /\ missed' = [c \in Clients |->
       IF ~Wants(c, topic) \/ frame.type = "progress" THEN missed[c]
       ELSE IF LeftBehind(c, frame) THEN missed[c] \cup {topic}
       ELSE IF frame.type = "queue" /\ frame.items # None THEN missed[c] \ {topic}
       ELSE missed[c]]

HubRegister ==
  /\ hub = "select"
  /\ register # <<>>
  /\ clients' = clients \cup {Head(register)}
  /\ register' = Tail(register)
  /\ UNCHANGED <<server, mailbox, lastStats, hub, astray, unregister, session, send, page, missed>>

HubUnregister ==
  /\ hub = "select"
  /\ unregister # <<>>
  /\ clients' = clients \ {Head(unregister)}
  /\ unregister' = Tail(unregister)
  /\ UNCHANGED <<server, mailbox, lastStats, hub, astray, register, session, send, page, missed>>

HubEvent ==
  /\ hub = "select"
  /\ events # <<>>
  /\ Broadcast(Head(events))
  /\ events' = Tail(events)
  /\ gap' = (gap /\ Len(events) > 1)
  /\ UNCHANGED <<server, pending, pendingQ, loop, doors, session, page>>

\* flushProgress, the first part of a tick: the rows in any order.
FlushProgress ==
  /\ hub = "select"
  /\ hub' = "queue"
  /\ \E order \in SetToSeqs({i \in Items : pending[i] # None}) :
       LET frames == [k \in DOMAIN order |->
             [type |-> "progress", item |-> order[k], row |-> pending[order[k]]]]
       IN send' = [c \in Clients |->
            IF c \in clients /\ Wants(c, "queue") THEN EnqueueAll(send[c], frames)
            ELSE send[c]]
  /\ astray' = astray \cup {i \in Items : pending[i] # None /\ Status(pending[i]) # Status(table[i])}
  /\ pending' = EmptyTable
  /\ UNCHANGED <<server, pendingQ, events, gap, clients, lastStats, doors, session, page, missed>>

\* flushQueue, the second part.
FlushQueue ==
  /\ hub = "queue"
  /\ hub' = "stats"
  /\ IF pendingQ = None
     THEN UNCHANGED <<send, missed, lastStats, astray>>
     ELSE /\ Broadcast(pendingQ)
          /\ lastStats' = pendingQ.stats
          /\ astray' = {}
  /\ pendingQ' = None
  /\ UNCHANGED <<server, pending, events, gap, clients, doors, session, page>>

\* flushStats, the third: the counters alone, when they changed since the last
\* frame and somebody looks.
FlushStats ==
  /\ hub = "stats"
  /\ hub' = "select"
  /\ IF (\E c \in clients : Wants(c, "queue")) /\ lastStats # count
     THEN /\ lastStats' = count
          /\ Broadcast([type |-> "queue", items |-> None, stats |-> count])
     ELSE UNCHANGED <<lastStats, send, missed>>
  /\ UNCHANGED <<server, mailbox, clients, astray, doors, session, page>>

-----------------------------------------------------------------------------
(* A connection: the handler registers the client, then reads what the     *)
(* page asks for; the writer sends it what waits.                          *)

\* liveWSHandler
Connect(c) ==
  /\ conn[c] = "off"
  /\ Len(register) < HubClientBuf
  /\ register' = Append(register, c)
  /\ conn' = [conn EXCEPT ![c] = "on"]
  /\ UNCHANGED <<server, mailbox, loop, unregister, topics, sub, subs, send, page, missed>>

\* The page is closed, or a write failed or timed out.  What waits is lost, and
\* what the page shows is of no interest any more.
Disconnect(c) ==
  /\ conn[c] = "on"
  /\ sub[c] = None
  /\ Len(unregister) < HubClientBuf
  /\ unregister' = Append(unregister, c)
  /\ conn' = [conn EXCEPT ![c] = "closed"]
  /\ topics' = [topics EXCEPT ![c] = {}]
  /\ send' = [send EXCEPT ![c] = <<>>]
  /\ page' = [page EXCEPT ![c] = Blank]
  /\ missed' = [missed EXCEPT ![c] = {"queue", "history"}]
  /\ UNCHANGED <<server, mailbox, loop, register, sub, subs>>

NewSub == [at |-> "stats", stats |-> 0, items |-> None, rows |-> NoRows, line |-> FollowFrom]

\* handleSub: the topics first, then their snapshots.
HandleSub(c) ==
  /\ conn[c] = "on" /\ sub[c] = None
  /\ subs[c] < MaxSubs
  /\ subs' = [subs EXCEPT ![c] = @ + 1]
  /\ topics' = [topics EXCEPT ![c] = Topics]
  /\ sub' = [sub EXCEPT ![c] = NewSub]
  /\ UNCHANGED <<server, mailbox, loop, doors, conn, send, page, missed>>

\* (op unsub) The topics are dropped; what waits is written all the same.
Unsub(c) ==
  /\ conn[c] = "on" /\ sub[c] = None
  /\ topics[c] # {}
  /\ topics' = [topics EXCEPT ![c] = {}]
  /\ missed' = [missed EXCEPT ![c] = {"queue", "history"}]
  /\ UNCHANGED <<server, mailbox, loop, doors, conn, sub, subs, send, page>>

Serving(c, step) == sub[c] # None /\ sub[c].at = step

EnqueueFrame(c, frame) ==
  /\ send' = [send EXCEPT ![c] = Enqueue(@, frame)]
  /\ missed' = IF Len(send[c]) >= ClientSendBuf /\ frame.type # "log"
               THEN [missed EXCEPT ![c] = @ \cup {Topic(frame)}] ELSE missed

\* sendSnapshot: the counters, then the items, then the frame; the history;
\* sendLogSnapshot line by line.
SendSnapshot(c) ==
  /\ \/ /\ Serving(c, "stats")
        /\ sub' = [sub EXCEPT ![c].stats = count, ![c].at = "items"]
        /\ missed' = [missed EXCEPT ![c] = @ \ {"queue"}]
        /\ UNCHANGED send
     \/ /\ Serving(c, "items")
        /\ sub' = [sub EXCEPT ![c].items = table, ![c].at = "queue"]
        /\ UNCHANGED <<send, missed>>
     \/ /\ Serving(c, "queue")
        /\ EnqueueFrame(c, [type |-> "queue", items |-> sub[c].items, stats |-> sub[c].stats])
        /\ sub' = [sub EXCEPT ![c].at = "rows"]
     \/ /\ Serving(c, "rows")
        /\ sub' = [sub EXCEPT ![c].rows = records, ![c].at = "history"]
        /\ missed' = IF gap THEN missed ELSE [missed EXCEPT ![c] = @ \ {"history"}]
        /\ UNCHANGED send
     \/ /\ Serving(c, "history")
        /\ EnqueueFrame(c, [type |-> "history", op |-> "snapshot", rows |-> sub[c].rows])
        /\ sub' = [sub EXCEPT ![c].at = "logs"]
     \/ /\ Serving(c, "logs")
        /\ sub[c].line <= LogLines
        /\ EnqueueFrame(c, [type |-> "log", line |-> sub[c].line])
        /\ sub' = [sub EXCEPT ![c].line = @ + 1]
     \/ /\ Serving(c, "logs")
        /\ sub[c].line > LogLines
        /\ sub' = [sub EXCEPT ![c] = None]
        /\ UNCHANGED <<send, missed>>
  /\ UNCHANGED <<server, mailbox, loop, doors, conn, topics, subs, page>>

-----------------------------------------------------------------------------
(* The page (handle, applyProgress and applyHistory of the web interface). *)

ApplyHistory(rows, frame) ==
  CASE frame.op = "snapshot" -> frame.rows
    [] frame.op = "clear"    -> NoRows
    [] frame.op = "upsert"   -> [rows EXCEPT ![frame.row] = frame.version]
    [] frame.op = "delete"   -> [rows EXCEPT ![frame.row] = 0]

Show(shown, frame) ==
  CASE frame.type = "queue" ->
         [shown EXCEPT !.stats = frame.stats,
                       !.queue = IF frame.items = None THEN @ ELSE frame.items]
    [] frame.type = "progress" -> [shown EXCEPT !.queue[frame.item] = frame.row]
    [] frame.type = "history"  -> [shown EXCEPT !.history = ApplyHistory(@, frame)]
    [] frame.type = "log"      -> [shown EXCEPT !.lines = @ \cup {frame.line}]

\* liveWSWrite: one frame reaches the page.
Write(c) ==
  /\ conn[c] = "on"
  /\ send[c] # <<>>
  /\ page' = [page EXCEPT ![c] = Show(@, Head(send[c]))]
  /\ send' = [send EXCEPT ![c] = Tail(@)]
  /\ UNCHANGED <<server, mailbox, loop, doors, session, missed>>

-----------------------------------------------------------------------------
Init ==
  /\ table = EmptyTable /\ gone = {} /\ count = 0 /\ changes = 0
  /\ records = NoRows /\ untold = {}
  /\ pending = EmptyTable /\ pendingQ = None /\ events = <<>> /\ gap = FALSE
  /\ register = <<>> /\ unregister = <<>>
  /\ clients = {} /\ lastStats = None /\ hub = "select" /\ astray = {}
  /\ conn = [c \in Clients |-> "off"]
  /\ topics = [c \in Clients |-> {}]
  /\ sub = [c \in Clients |-> None]
  /\ subs = [c \in Clients |-> 0]
  /\ send = [c \in Clients |-> <<>>]
  /\ page = [c \in Clients |-> Blank]
  /\ missed = [c \in Clients |-> {"queue", "history"}]

HubStep == HubRegister \/ HubUnregister \/ HubEvent \/ FlushProgress \/ FlushQueue \/ FlushStats

Next ==
  \/ \E i \in Items : NotifyQueue(i) \/ NotifyProgress(i)
  \/ Count \/ NotifyHistory \/ LoadHistory
  \/ HubStep
  \/ \E c \in Clients :
       Connect(c) \/ Disconnect(c) \/ HandleSub(c) \/ Unsub(c) \/ SendSnapshot(c) \/ Write(c)

Spec == Init /\ [][Next]_vars

-----------------------------------------------------------------------------
(* Properties.                                                             *)

\* Every variable keeps its type and every buffer its capacity.
TypeOK ==
  /\ table \in Table /\ pending \in Table
  /\ {count, changes} \subseteq 0..MaxChanges
  /\ gone \subseteq Nat
  /\ records \in [Rows -> 0..MaxChanges] /\ untold \subseteq Rows
  /\ pendingQ \in QueueFrame \cup {None}
  /\ events \in Seq(HistoryFrame) /\ Len(events) <= HubEventBuf
  /\ {register, unregister} \subseteq Seq(Clients)
  /\ Len(register) <= HubClientBuf /\ Len(unregister) <= HubClientBuf
  /\ clients \subseteq Clients
  /\ lastStats \in Nat \cup {None}
  /\ hub \in {"select", "queue", "stats"} /\ astray \subseteq Items /\ gap \in BOOLEAN
  /\ conn \in [Clients -> {"off", "on", "closed"}]
  /\ topics \in [Clients -> SUBSET Topics]
  /\ sub \in [Clients -> Sub \cup {None}]
  /\ subs \in [Clients -> 0..MaxSubs]
  /\ send \in [Clients -> Seq(Frame)]
  /\ \A c \in Clients : Len(send[c]) <= ClientSendBuf
  /\ page \in [Clients -> [queue : Table, stats : Nat, history : [Rows -> Nat],
                           lines : SUBSET (1..LogLines)]]
  /\ missed \in [Clients -> SUBSET {"queue", "history"}]

\* Nothing is on its way to the client c any more.
Quiet(c) ==
  /\ conn[c] = "on" /\ sub[c] = None /\ send[c] = <<>>
  /\ hub = "select" /\ pendingQ = None /\ pending = EmptyTable /\ events = <<>>

Follows(c, topic) == topic \in topics[c] /\ topic \notin missed[c]

\* A page that looks at the queue shows the items there are, each with its
\* status, and no others, once nothing is on its way: a table that is overwritten
\* before the tick, a progress row sent before a table and a snapshot read while
\* the hub runs do no harm.  The exceptions are a page that was sent no table
\* when it should, or one that was overtaken (missed), and the rows of progress
\* sent after the table in an old status: of a status that changed between the
\* halves of the tick, or of an item that is gone (astray).
TableShown ==
  \A c \in Clients : Quiet(c) /\ Follows(c, "queue") =>
    \A i \in Items \ astray : Status(page[c].queue[i]) = Status(table[i])

\* livehub.go:15 says that the latest snapshot or the latest item wins.  A
\* progress row recorded between the two halves of a tick is sent after the
\* newer table and stays on the page; so does one of an item that is gone.
LatestWins ==
  \A c \in Clients : Quiet(c) /\ Follows(c, "queue") =>
    \A i \in Items : Status(page[c].queue[i]) = Status(table[i])

\* A page that looks at the history shows the rows there are, in their last
\* version, and no others: frames and snapshot arrive in the order of the
\* changes.  The exceptions are a page that missed a frame, and the rows that
\* keep_history took, or that came and went with it, since the last frame about
\* them (untold).
HistoryShown ==
  \A c \in Clients : Quiet(c) /\ Follows(c, "history") =>
    \A r \in Rows \ untold : page[c].history[r] = records[r]

\* livews.go:163 says that a new subscriber of a log is sent its last lines.
\* More lines are replayed than the buffer holds, and the rest, the newest of
\* them, is dropped unless the writer keeps up.
LogReplayed ==
  \A c \in Clients : Quiet(c) /\ "logs" \in topics[c] =>
    FollowFrom..LogLines \subseteq page[c].lines
=============================================================================
