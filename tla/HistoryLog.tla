----------------------------- MODULE HistoryLog -----------------------------
(***************************************************************************)
(* The history file: rows in memory, one appended line per transition on   *)
(* disk, folded by id when the process starts and rewritten when the file  *)
(* outgrows keep_history.  The main loop records, the HTTP goroutine       *)
(* deletes and clears; each holds histMu for one step, except              *)
(* markHistoryForgotten, which reads and writes in two.                    *)
(*                                                                         *)
(* A write may end early because the process dies or the disk is full.  It *)
(* leaves whole lines and possibly a last one without its newline: a       *)
(* fragment that cannot be read, or a row that can.  The next line is      *)
(* glued to it and both are unreadable.                                    *)
(***************************************************************************)
EXTENDS Naturals, FiniteSets, SequencesExt

CONSTANTS
  Ids,      \* ids of history rows
  Limits,   \* values of keep_history a general PUT may set
  Crashes,  \* the process may die between two steps
  Faults,   \* which writes may end early: "append", "compact": the process
            \* dies in one; "disk": one fails and the process goes on
  None,     \* no row
  Bad       \* a line that is not a row

ASSUME HistoryAssumption ==
  /\ IsFiniteSet(Ids)
  /\ Limits \subseteq Nat
  /\ Limits # {}
  /\ Faults \subseteq {"append", "compact", "disk"}
  /\ Crashes \in BOOLEAN

VARIABLES
  limit,    \* KeepHistory, live and in the config file
  up,       \* the process runs
  opened,   \* histPath is set
  records,  \* the rows in memory, latest transition last
  lines,    \* histLines
  file,     \* the lines of the file
  torn,     \* its last line has no newline
  marking,  \* the copy markHistoryForgotten holds between its two locks
  last,     \* (not in the code) the row of an id recorded last and not
            \* removed since, or what a load found in its place
  hurt      \* (not in the code) the ids of rows glued together since the
            \* file was rewritten or read

vars == <<limit, up, opened, records, lines, file, torn, marking, last, hurt>>

-----------------------------------------------------------------------------
\* done: isDurableHistory of the status.
Row == [id : Ids, done : BOOLEAN, forgotten : BOOLEAN]

ASSUME NotRows == None \notin Row /\ Bad \notin Row

\* The elements of a list at the positions ks, in their order.
Pick(list, ks) ==
  LET picked[k \in 0..Len(list)] ==
        IF k = 0 THEN <<>>
        ELSE IF k \in ks THEN Append(picked[k - 1], list[k]) ELSE picked[k - 1]
  IN picked[Len(list)]

\* Of every id the latest row; lines that cannot be read are skipped.
MergeHistory(list) ==
  LET Older(k) ==
        \E j \in DOMAIN list : j > k /\ list[j] # Bad /\ list[j].id = list[k].id
  IN Pick(list, {k \in DOMAIN list : list[k] # Bad /\ ~Older(k)})

\* (mutant: every row counts)
CapAll(list, n) ==
  IF n > 0 /\ Len(list) > n THEN SubSeq(list, Len(list) - n + 1, Len(list)) ELSE list

\* Of the finished rows only the n latest stay; work in progress all stays.
CapHistory(list, n) ==
  LET Later(k) == {j \in DOMAIN list : j > k /\ list[j].done}
  IN IF n = 0 THEN list
     ELSE Pick(list, {k \in DOMAIN list : list[k].done => Cardinality(Later(k)) < n})

IdsOf(list) == {list[k].id : k \in DOMAIN list}

RowOf(list, i) == CHOOSE r \in ToSet(list) : r.id = i

\* The row of each id.
ById(list) == [i \in Ids |-> IF i \in IdsOf(list) THEN RowOf(list, i) ELSE None]

-----------------------------------------------------------------------------
(* Writing.  how is "ok", "crash" or "error".                              *)

MayEnd(kind, how) ==
  \/ how = "ok"
  \/ how = "crash" /\ kind \in Faults
  \/ how = "error" /\ "disk" \in Faults

\* The number of lines in memory, which dies with the process.
Lines(n) == IF up' THEN n ELSE 0

\* (mutant: appended lines are not counted)
AppendUncounted(r, how) ==
  /\ how = "ok"
  /\ file' = Append(file, r)
  /\ UNCHANGED <<up, torn, lines, hurt>>

\* The ids of a row r and of the row it is glued to.
Glues(r) == IF torn /\ Last(file) # Bad THEN {r.id, Last(file).id} ELSE {}

\* One more line; the first bytes of it, or all but the newline, may be what
\* gets there.
AppendLine(r, how) ==
  LET Glued(line) == IF torn THEN Append(Front(file), Bad) ELSE Append(file, line) IN
  /\ MayEnd("append", how)
  /\ up' = (how # "crash")
  /\ \/ /\ \/ how = "ok" /\ file' = Glued(r) /\ torn' = FALSE /\ lines' = lines + 1
           \/ /\ how # "ok" /\ torn' = TRUE /\ lines' = Lines(lines)
              /\ file' = Glued(Bad) \/ file' = Glued(r)
        /\ hurt' = hurt \cup Glues(r)
     \/ how = "error" /\ UNCHANGED <<file, torn, lines, hurt>>

\* (mutant: the file is left as it is)
CompactNothing(rows, n, how) ==
  how = "ok" /\ up' = TRUE /\ lines' = n /\ UNCHANGED <<file, torn, hurt>>

\* The whole file anew: it is truncated first.  A failure leaves the count n.
CompactHistory(rows, n, how) ==
  /\ MayEnd("compact", how)
  /\ up' = (how # "crash")
  /\ \/ how = "ok" /\ file' = rows /\ torn' = FALSE /\ lines' = Len(rows)
     \/ /\ how # "ok"
        /\ \E k \in 0..Len(rows) :
             \/ file' = SubSeq(rows, 1, k) /\ torn' \in {FALSE, k > 0}
             \/ k < Len(rows) /\ file' = Append(SubSeq(rows, 1, k), Bad) /\ torn' = TRUE
        /\ lines' = Lines(n)
     \/ how = "error" /\ lines' = n /\ UNCHANGED <<file, torn>>
  /\ hurt' = IF how = "ok" THEN {} ELSE hurt

\* Memory after a step that wrote: the process may have died in it.
Remember(rows, copy) ==
  /\ records' = IF up' THEN rows ELSE <<>>
  /\ opened' = (up' /\ opened)
  /\ marking' = IF up' THEN copy ELSE None

-----------------------------------------------------------------------------
(* The main loop.                                                          *)

\* upsertHistory: memory, then one line or the whole file.
UpsertHistory(r, how) ==
  LET kept == CapHistory(MergeHistory(Append(records, r)), limit) IN
  /\ IF lines >= 2 * limit THEN CompactHistory(kept, lines, how) ELSE AppendLine(r, how)
  /\ Remember(kept, None)
  /\ last' = IF up' \/ r \in ToSet(MergeHistory(file')) THEN [last EXCEPT ![r.id] = r] ELSE last
  /\ UNCHANGED limit

\* The main loop is free and keeps a history.
Recording == up /\ limit > 0 /\ marking = None

\* maybeRecordHistory of a persisted transition.
RecordHistory(i, done, how) ==
  /\ Recording
  /\ UpsertHistory([id |-> i, done |-> done, forgotten |-> FALSE], how)

\* A failed or answered hook of an item whose row is there: its row moves up.
BumpHistory(i, how) ==
  /\ Recording
  /\ i \in IdsOf(records)
  /\ UpsertHistory(RowOf(records, i), how)

\* markHistoryForgotten reads the row of a forgotten item and lets go of
\* histMu ...
MarkHistoryForgotten(i) ==
  /\ Recording
  /\ i \in IdsOf(records)
  /\ marking' = [RowOf(records, i) EXCEPT !.forgotten = TRUE]
  /\ UNCHANGED <<limit, up, opened, records, lines, file, torn, last, hurt>>

\* ... and writes what it read.
WriteForgotten(how) ==
  /\ up
  /\ marking # None
  /\ UpsertHistory(marking, how)

\* (mutant: unreadable lines are not counted)
LoadReadable(how) ==
  LET rows == CapHistory(MergeHistory(file), limit') IN
  /\ IF Cardinality({k \in DOMAIN file : file[k] # Bad}) # Len(rows)
     THEN CompactHistory(rows, Len(file), how)
     ELSE /\ how = "ok" /\ up' = TRUE /\ lines' = Len(file) /\ hurt' = {}
          /\ UNCHANGED <<file, torn>>
  /\ records' = IF up' THEN rows ELSE <<>>
  /\ opened' = up'
  /\ last' = [i \in Ids |-> IF i \in hurt THEN ById(MergeHistory(file))[i] ELSE last[i]]

\* loadHistory: what was appended more than once, cannot be read or is over
\* keep_history is folded away in the file too.
LoadHistory(how) ==
  LET rows == CapHistory(MergeHistory(file), limit') IN
  /\ IF Len(file) # Len(rows)
     THEN CompactHistory(rows, Len(file), how)
     ELSE /\ how = "ok" /\ up' = TRUE /\ lines' = Len(file) /\ hurt' = {}
          /\ UNCHANGED <<file, torn>>
  /\ records' = IF up' THEN rows ELSE <<>>
  /\ opened' = up'
  /\ last' = [i \in Ids |-> IF i \in hurt THEN ById(MergeHistory(file))[i] ELSE last[i]]

\* A general PUT sets keep_history; turning it on loads the file.
PutGeneral(n, how) ==
  /\ up
  /\ marking = None
  /\ n # limit
  /\ limit' = n
  /\ IF limit = 0 THEN LoadHistory(how)
     ELSE how = "ok" /\ UNCHANGED <<up, opened, records, lines, file, torn, last, hurt>>
  /\ UNCHANGED marking

-----------------------------------------------------------------------------
(* The HTTP goroutine.                                                     *)

\* Rows leave memory and the file; without a file there is nothing to write.
Drop(S, how) ==
  LET rows == Pick(records, {k \in DOMAIN records : records[k].id \notin S}) IN
  /\ IF opened THEN CompactHistory(rows, lines, how)
     ELSE how = "ok" /\ UNCHANGED <<up, file, torn, lines, hurt>>
  /\ Remember(rows, marking)
  /\ last' = IF how = "ok" THEN [i \in Ids |-> IF i \in S THEN None ELSE last[i]]
             ELSE last
  /\ UNCHANGED limit

DeleteHistoryID(i, how) ==
  /\ up
  /\ i \in IdsOf(records)
  /\ RowOf(records, i).done
  /\ Drop({i}, how)

ClearHistory(how) ==
  /\ up
  /\ Drop({r.id : r \in {q \in ToSet(records) : q.done}}, how)

-----------------------------------------------------------------------------
(* The process.                                                            *)

Crash ==
  /\ Crashes
  /\ up
  /\ up' = FALSE
  /\ Remember(<<>>, None)
  /\ lines' = 0
  /\ UNCHANGED <<limit, file, torn, last, hurt>>

Start(how) ==
  /\ ~up
  /\ UNCHANGED <<limit, marking>>
  /\ IF limit > 0 THEN LoadHistory(how)
     ELSE /\ how = "ok" /\ up' = TRUE
          /\ UNCHANGED <<opened, records, lines, file, torn, last, hurt>>

Init ==
  /\ limit \in Limits
  /\ up = FALSE
  /\ opened = FALSE
  /\ records = <<>>
  /\ lines = 0
  /\ file = <<>>
  /\ torn = FALSE
  /\ marking = None
  /\ last = [i \in Ids |-> None]
  /\ hurt = {}

Next ==
  \/ Crash
  \/ \E i \in Ids : MarkHistoryForgotten(i)
  \/ \E how \in {"ok", "crash", "error"} :
       \/ WriteForgotten(how) \/ ClearHistory(how) \/ Start(how)
       \/ \E n \in Limits : PutGeneral(n, how)
       \/ \E i \in Ids : BumpHistory(i, how) \/ DeleteHistoryID(i, how)
       \/ \E i \in Ids, done \in BOOLEAN : RecordHistory(i, done, how)

Spec == Init /\ [][Next]_vars

-----------------------------------------------------------------------------
(* Properties.                                                             *)

\* Every variable keeps its type, and memory lives only while the process does.
TypeOK ==
  /\ limit \in Limits
  /\ {up, opened, torn} \subseteq BOOLEAN
  /\ records \in Seq(Row)
  /\ lines \in Nat
  /\ file \in Seq(Row \cup {Bad})
  /\ marking \in Row \cup {None}
  /\ last \in [Ids -> Row \cup {None}]
  /\ hurt \subseteq Ids
  /\ ~up => records = <<>> /\ lines = 0 /\ ~opened /\ marking = None

\* A restart at any moment finds every row that memory shows, as it is: no
\* row is cut off by keep_history only because the file holds more lines, and
\* no line is lost because the one before it was torn by an earlier crash.  A
\* last line that lacks only its newline is taken for whole, and the next one
\* glued to it: from then on, until the file is rewritten, the rows of these
\* two may be gone, and with them finished ones, but no other work in progress.
RestartKeeps ==
  up /\ limit > 0 =>
    LET found == ToSet(CapHistory(MergeHistory(file), limit)) IN
    /\ hurt = {} => ToSet(CapHistory(records, limit)) \subseteq found
    /\ \A r \in ToSet(records) : ~r.done /\ r.id \notin hurt => r \in found
    /\ Cardinality(hurt) <= 2

\* INTERNALS.md:344 says that the rows of work in progress stay until the work
\* is finished, so that a restart can resume it.  Those of glued lines do not.
WorkResumes ==
  up /\ limit > 0 =>
    \A r \in ToSet(records) : ~r.done => r \in ToSet(MergeHistory(file))

\* A row whose deletion was answered with ok does not come back, whatever
\* restarts, changes of keep_history and failed writes follow, unless it is
\* recorded again (or was just being flagged as forgotten).
DeletedStaysDeleted ==
  \A i \in Ids : last[i] = None => i \notin IdsOf(records) \cup IdsOf(MergeHistory(file))

\* The file stays bounded (historyfile.go:22), failed writes included.
LogBounded ==
  \A n \in Limits : (\A m \in Limits : m <= n) =>
    Len(file) <= 2 * n + Cardinality(Ids) + 1

\* INTERNALS.md:346 says that forgotten rows stay in the file, flagged, so that
\* a restart makes a tombstone of them.  keep_history drops them like any
\* other finished row, while their titles may still be listed upstream.
ForgottenRowsStay ==
  [][\A how \in {"ok", "crash", "error"} : \A i \in Ids :
       /\ RecordHistory(i, TRUE, how)
       /\ up'
       => \A r \in ToSet(records) :
            r.forgotten /\ r.id # i => r.id \in IdsOf(records')]_vars

\* What readers see: memory, or what the next start will make of the file.
Shown == ById(IF up /\ limit > 0 THEN records ELSE MergeHistory(file))

\* The history keeps the promise of HistoryStore: the row of work in progress
\* survives clears, keep_history, restarts and torn lines; a finished row is
\* the last one recorded or absent; a death in the middle of recording costs
\* two rows at the most, at the next restart.
Store == INSTANCE HistoryStore WITH rows <- Shown
StoreSpec == Store!Spec
=============================================================================
