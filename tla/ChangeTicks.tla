----------------------------- MODULE ChangeTicks -----------------------------
(***************************************************************************)
(* Change detection: src/src/query.c, with the stamps of                   *)
(* src/src/component_write.h, table.c and table_migration.c.               *)
(*                                                                         *)
(* Every run of a query takes a tick of its own from the clock and stamps  *)
(* the columns it may write with it; any other write carries the clock's   *)
(* value.  A query with a change filter returns a table when a stamp of it *)
(* is newer than the query's last run.  Here every query matches every     *)
(* table, and a table has one owned column.                                *)
(***************************************************************************)
EXTENDS Integers, Sequences, SequencesExt

CONSTANTS
  Queries,
  Writers,    \* queries with an out or inout field
  Filtered,   \* queries with a change filter on it
  Tables,     \* number of tables
  Nesting,    \* bound: iterations open at once, each inside the last
  MaxClock,   \* bound: ticks taken
  MaxChanges  \* bound: changes made

ASSUME TicksAssumption ==
  /\ Writers \subseteq Queries /\ Filtered \subseteq Queries
  /\ Tables \in Nat /\ Nesting \in Nat /\ MaxClock \in Nat /\ MaxChanges \in Nat

VARIABLES
  clock,      \* ecs_world.change_tick
  written,    \* tick of each table's column
  structure,  \* structure_tick of each table
  rows,       \* tables with rows
  last_run,   \* of each query's cache
  iters,      \* iterations in progress, the innermost last
  version,    \* history: changes made to each table
  seen        \* history: the version each query last saw of each table

vars == <<clock, written, structure, rows, last_run, iters, version, seen>>
T == 1..Tables

Init ==
  /\ clock = 1
  /\ written = [t \in T |-> 1] /\ structure = [t \in T |-> 1] /\ rows = {}
  /\ last_run = [q \in Queries |-> 0]
  /\ iters = <<>>
  /\ version = [t \in T |-> 0]
  /\ seen = [q \in Queries |-> [t \in T |-> 0]]

CanChange(t) == version[t] < MaxChanges

-----------------------------------------------------------------------------
(* ecs_query_iter; the callback of one iteration may start another.        *)
IterWithSharedTick(q) ==
  /\ Len(iters) < Nesting /\ clock <= MaxClock
  /\ iters' = Append(iters, [query |-> q, tick |-> clock, last |-> last_run[q], table |-> 0])
  /\ UNCHANGED <<clock, written, structure, rows, last_run, version, seen>>
Iter(q) ==
  /\ Len(iters) < Nesting /\ clock <= MaxClock
  /\ iters' = Append(iters, [query |-> q, tick |-> clock, last |-> last_run[q], table |-> 0])
  /\ clock' = clock + 1
  /\ UNCHANGED <<written, structure, rows, last_run, version, seen>>

Current == Last(iters)
TableChanged(t, last) == structure[t] > last \/ written[t] > last
Returns(it, t) == t \in rows /\ (it.query \in Filtered => TableChanged(t, it.last))
PassesOver(it, t) == \A u \in T : it.table < u /\ u < t => ~Returns(it, u)

(* ecs_iter_next returns a table, stamping the columns it hands out for    *)
(* writing, or ends the iteration and records the run.                     *)
Stamped(it, t) == IF it.query \in Writers THEN [written EXCEPT ![t] = it.tick] ELSE written
AtTable(s, t) == [s EXCEPT ![Len(s)].table = t]
SeenBy(q, t) == [seen EXCEPT ![q][t] = version[t]]
IterNext(t) ==
  /\ iters # <<>>
  /\ t > Current.table /\ Returns(Current, t) /\ PassesOver(Current, t)
  /\ iters' = AtTable(iters, t)
  /\ written' = Stamped(Current, t)
  /\ seen' = SeenBy(Current.query, t)
  /\ UNCHANGED <<clock, structure, rows, last_run, version>>
IterEndNow ==
  /\ iters # <<>> /\ PassesOver(Current, Tables + 1)
  /\ last_run' = [last_run EXCEPT ![Current.query] = clock]
  /\ iters' = Front(iters)
  /\ UNCHANGED <<clock, written, structure, rows, version, seen>>
IterEnd ==
  /\ iters # <<>> /\ PassesOver(Current, Tables + 1)
  /\ last_run' = [last_run EXCEPT ![Current.query] = Current.tick]
  /\ iters' = Front(iters)
  /\ UNCHANGED <<clock, written, structure, rows, version, seen>>
(* The callback leaves the loop: the run is not recorded.                  *)
IterAbandon ==
  /\ iters # <<>>
  /\ iters' = Front(iters)
  /\ UNCHANGED <<clock, written, structure, rows, last_run, version, seen>>

(* A callback writes the rows of a batch it was handed, which it sees.     *)
OwnWriteSeen(q, t) == [seen EXCEPT ![q][t] = IF @ = version[t] THEN @ + 1 ELSE @]
WriteField(k) ==
  /\ k \in DOMAIN iters /\ iters[k].query \in Writers
  /\ iters[k].table \in rows /\ CanChange(iters[k].table)
  /\ version' = [version EXCEPT ![iters[k].table] = @ + 1]
  /\ seen' = OwnWriteSeen(iters[k].query, iters[k].table)
  /\ UNCHANGED <<clock, written, structure, rows, last_run, iters>>

-----------------------------------------------------------------------------
(* ecs_set and ecs_modified, and rows that come, go or move.               *)
Set(t) ==
  /\ t \in rows /\ CanChange(t)
  /\ written' = [written EXCEPT ![t] = clock]
  /\ version' = [version EXCEPT ![t] = @ + 1]
  /\ UNCHANGED <<clock, structure, rows, last_run, iters, seen>>

Restructure(t, left) ==
  /\ CanChange(t)
  /\ structure' = [structure EXCEPT ![t] = clock]
  /\ rows' = IF left THEN rows \cup {t} ELSE rows \ {t}
  /\ version' = [version EXCEPT ![t] = @ + 1]
  /\ UNCHANGED <<clock, written, last_run, iters, seen>>

Next ==
  \/ \E q \in Queries : Iter(q)
  \/ \E t \in T : IterNext(t)
  \/ IterEnd
  \/ IterAbandon
  \/ \E k \in 1..Nesting : WriteField(k)
  \/ \E t \in T : Set(t)
  \/ \E t \in T, left \in BOOLEAN : Restructure(t, left)
Spec == Init /\ [][Next]_vars

-----------------------------------------------------------------------------
Iteration == [query : Queries, tick : 0..MaxClock, last : 0..MaxClock, table : 0..Tables]
TypeOK ==
  /\ clock \in 1..(MaxClock + 1)
  /\ written \in [T -> 0..(MaxClock + 1)] /\ structure \in [T -> 0..(MaxClock + 1)]
  /\ rows \subseteq T
  /\ last_run \in [Queries -> 0..MaxClock]
  /\ iters \in Seq(Iteration) /\ Len(iters) <= Nesting
  /\ version \in [T -> 0..MaxChanges]
  /\ seen \in [Queries -> [T -> 0..MaxChanges]]

(* A change that a filtered query has not seen has a stamp newer than its  *)
(* last run, so the next run returns the table, however reads, writes,     *)
(* moves of rows and abandoned iterations followed each other: "the table *)
(* is skipped unless the component changed" (include/siecs.h:462).         *)
ReportsEveryChange ==
  \A q \in Filtered, t \in rows : seen[q][t] # version[t] => TableChanged(t, last_run[q])
==============================================================================
