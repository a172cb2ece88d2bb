----------------------------- MODULE AuditedRows -----------------------------
(***************************************************************************)
(* What trackd promises of every table with an audit trail: "every         *)
(* mutation records an audit event with before/after state", and rows are  *)
(* never deleted (package comment of internal/store).                      *)
(*                                                                         *)
(* rows is the table, a function from row ids to rows; log is the events   *)
(* table, which is shared by every table of the store.  Events whose       *)
(* action is in Actions are about this table; log[n].row says which row.   *)
(* Fields are the columns the trail follows.  Columns outside Fields hold  *)
(* a reference that events spell as the name the referenced row had at the *)
(* time, so the trail does not follow renames of that other row.           *)
(***************************************************************************)
EXTENDS Naturals, Sequences

CONSTANTS Fields,   \* the columns the trail follows
          Actions,  \* the event actions that are about this table
          NoRow     \* the "before" of an event that creates a row

VARIABLES rows, log

vars == <<rows, log>>

IsAbout(e, k) == e.action \in Actions /\ e.row = k

Agree(a, b) == \A f \in Fields : a[f] = b[f]

Init ==
  /\ rows = << >>
  /\ log = << >>

\* The log grows by one event and keeps every earlier one.
Extended ==
  /\ Len(log') = Len(log) + 1
  /\ DOMAIN log' = 1..Len(log')
  /\ \A n \in DOMAIN log : log'[n] = log[n]

NewEvent == log'[Len(log) + 1]

Create(k) ==
  /\ k \notin DOMAIN rows
  /\ DOMAIN rows' = DOMAIN rows \cup {k}
  /\ \A j \in DOMAIN rows : rows'[j] = rows[j]
  /\ Extended
  /\ IsAbout(NewEvent, k)
  /\ NewEvent.before = NoRow
  /\ Agree(NewEvent.after, rows'[k])

Write(k) ==
  /\ k \in DOMAIN rows
  /\ DOMAIN rows' = DOMAIN rows
  /\ \A j \in DOMAIN rows \ {k} : rows'[j] = rows[j]
  /\ Extended
  /\ IsAbout(NewEvent, k)
  /\ NewEvent.before # NoRow
  /\ Agree(NewEvent.before, rows[k])
  /\ Agree(NewEvent.after, rows'[k])

\* Any other write of the store leaves this table alone, and what it records
\* is not about this table.
Elsewhere ==
  /\ rows' = rows
  /\ Extended
  /\ NewEvent.action \notin Actions

Next ==
  \/ \E k \in DOMAIN rows' : Create(k) \/ Write(k)
  \/ Elsewhere

Spec == Init /\ [][Next]_vars

-----------------------------------------------------------------------------
\* m is the last event about row k before position n.
Precedes(m, n, k) ==
  /\ m < n
  /\ IsAbout(log[m], k)
  /\ \A i \in (m + 1)..(n - 1) : ~IsAbout(log[i], k)

\* Events are about rows that exist, and the row as it stands is the "after"
\* of the last event about it: nothing changed it since.
Current ==
  /\ \A n \in DOMAIN log : log[n].action \in Actions => log[n].row \in DOMAIN rows
  /\ \A k \in DOMAIN rows : \E n \in DOMAIN log :
       Precedes(n, Len(log) + 1, k) /\ Agree(log[n].after, rows[k])

\* Each event about a row starts where the previous one left the row.
Chained ==
  \A m, n \in DOMAIN log :
    IsAbout(log[n], log[n].row) /\ Precedes(m, n, log[n].row) =>
      log[n].before # NoRow /\ Agree(log[m].after, log[n].before)

\* The first event about a row is the one that created it.
Born ==
  \A n \in DOMAIN log :
    log[n].action \in Actions
    /\ (\A m \in 1..(n - 1) : ~IsAbout(log[m], log[n].row))
      => log[n].before = NoRow

\* Read from its first event to its last, the trail of a row is the whole
\* history of that row, without a gap.
AuditTrail == Current /\ Chained /\ Born
=============================================================================
