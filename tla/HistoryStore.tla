---------------------------- MODULE HistoryStore ----------------------------
(***************************************************************************)
(* What the history promises its readers: of every id it shows the row     *)
(* recorded last or nothing.  The row of work in progress is always there. *)
(* Finished rows may be left out (keep_history) and may be back later, but *)
(* a row the user removed is not, unless it is recorded again.  A process  *)
(* that dies while it records may leave a row without its end; once, this  *)
(* costs the next process two rows, when the history is read again.        *)
(***************************************************************************)
CONSTANTS
  Ids,   \* ids of history rows
  Row,   \* the rows: records with an id and whether the item is done
  None   \* no row

VARIABLES
  up,    \* the process runs
  torn,  \* a row was left without its end
  hurt,  \* the ids whose rows this may cost
  last,  \* the row of an id recorded last and not removed since
  rows   \* the row of an id that is shown

vars == <<up, torn, hurt, last, rows>>

\* The rows that may be shown of what was recorded.
Shows(l, h) ==
  {r \in [Ids -> Row \cup {None}] :
     \A i \in Ids :
       \/ r[i] = l[i]
       \/ r[i] = None /\ l[i].done
       \/ i \in h /\ (r[i] = None \/ r[i].id = i)}

\* No more rows are hurt.
Spares == hurt' \in {hurt, {}}

\* A row and one that was left without its end.
Hurts(i, j) == torn /\ hurt = {} /\ hurt' = {i, j}

Init ==
  /\ ~up /\ ~torn
  /\ hurt = {}
  /\ last = [i \in Ids |-> None]
  /\ rows = last

Put(r) ==
  /\ last' = [last EXCEPT ![r.id] = r]
  /\ \/ Spares
     \/ ~torn' /\ \E i \in Ids : Hurts(i, r.id)
  /\ rows' \in Shows(last', hurt')
  /\ rows'[r.id] = r

Remove(S) ==
  /\ \A i \in S : last[i] # None /\ last[i].done
  /\ last' = [i \in Ids |-> IF i \in S THEN None ELSE last[i]]
  /\ Spares
  /\ rows' \in Shows(last', hurt')

\* keep_history, a restart or a change of keep_history; the process may die.
Trim ==
  /\ \/ Spares
     \/ ~up' /\ \E i, j \in Ids : Hurts(i, j)
  /\ rows' \in Shows(last, hurt')
  /\ UNCHANGED last

\* The history is read again; what is there of the hurt ids counts.
Reload ==
  /\ hurt' = {}
  /\ last' \in [Ids -> Row \cup {None}]
  /\ \A i \in Ids : \/ last'[i] = last[i]
                    \/ i \in hurt /\ (last'[i] = None \/ last'[i].id = i)
  /\ rows' \in Shows(last', hurt')

Next ==
  /\ torn' => torn \/ ~up'
  /\ \/ \E r \in Row : Put(r)
     \/ \E S \in SUBSET Ids : Remove(S)
     \/ Trim
     \/ Reload

Spec == Init /\ [][Next]_vars
=============================================================================
