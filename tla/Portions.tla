------------------------------ MODULE Portions ------------------------------
(***************************************************************************)
(* A parallel system's run: src/src/worker_pool.c, with system.c and       *)
(* query.c.  The threads of the pool claim portions of the system's rows   *)
(* through one cursor, several under one lock, and run the callback on     *)
(* them at the same time; the change filter of the query is read when a    *)
(* table is claimed and again when a portion of it runs.                   *)
(*                                                                         *)
(* The run shares the clock, the stamps and the last run of ChangeTicks.   *)
(* What would conflict with it waits, as Scheduler shows: other queries    *)
(* are iterated meanwhile only where neither writes, and the commands of   *)
(* its callbacks come after it.                                            *)
(***************************************************************************)
EXTENDS ChangeTicks, FiniteSetsExt

CONSTANTS
  Parallel,   \* queries of parallel systems; the others are iterated
  Threads,    \* the workers and the calling thread
  ChunkSize,  \* rows of a portion
  BatchSize,  \* ECS_WORKER_BATCH_SIZE
  Sizes,      \* bound: how many rows each table may have, when it has any
  NoRun

(* What ecs_worker_batch_t and ecs_worker_node_t hold of it; the tables    *)
(* due at the start are a history.                                         *)
PortionRecord == [table : T, offset : Nat, ordinal : Nat, count : Nat]
NodeRecord ==
  [query : Parallel, tick : 1..MaxClock, table : Nat, row : Nat, next : Nat,
   exhausted : BOOLEAN, holder : Threads, allowed : Nat, due : SUBSET T]

ASSUME PortionsAssumption ==
  /\ Parallel \subseteq Queries
  /\ IsFiniteSet(Threads) /\ Threads # {}
  /\ ChunkSize \in Nat \ {0} /\ BatchSize \in Nat \ {0}
  /\ Sizes \in [1..Tables -> SUBSET (Nat \ {0})]
  /\ NoRun \notin NodeRecord

VARIABLES
  size,   \* entity_count of each table
  node,   \* the system's node in the pool, or NoRun
  busy,   \* threads executing a batch: node->running counts them
  batch,  \* portions each thread has claimed and not run yet
  calls   \* history: times the callback has been given each row in this run

runVars == <<size, node, busy, batch, calls>>
allVars == <<vars, runVars>>

RowsOf(t) == 0..(size[t] - 1)
Running == node # NoRun
NoCalls == [t \in T |-> [r \in RowsOf(t) |-> 0]]

PInit ==
  /\ Init
  /\ size = [t \in T |-> 0]
  /\ node = NoRun /\ busy = {} /\ batch = [th \in Threads |-> <<>>]
  /\ calls = NoCalls

-----------------------------------------------------------------------------
(* ecs_worker_skip_empty_tables: the cursor moves to the next table with   *)
(* rows left that passes the change filter, which only a table not begun   *)
(* has to.                                                                 *)
RowAt(nd, t) == IF t = nd.table THEN nd.row ELSE 0
PassesFilter(q, t) == q \in Filtered => TableChanged(t, last_run[q])
RowsLeft(nd) ==
  {t \in nd.table..Tables : /\ RowAt(nd, t) < size[t]
                            /\ RowAt(nd, t) = 0 => PassesFilter(nd.query, t)}
SkipEmptyTables(nd) ==
  IF RowsLeft(nd) = {} THEN [nd EXCEPT !.exhausted = TRUE]
  ELSE [nd EXCEPT !.table = Min(RowsLeft(nd)), !.row = RowAt(nd, Min(RowsLeft(nd)))]

(* The portions a thread may claim under one lock: a share of those left   *)
(* in the table, so that the other threads find some.                      *)
Chunks(n) == 1 + (n - 1) \div ChunkSize
Limit(nd) ==
  Max({1, Min({BatchSize, Chunks(size[nd.table] - nd.row) \div (2 * Cardinality(Threads))})})

Portion(nd) ==
  [table |-> nd.table, offset |-> nd.row, ordinal |-> nd.next,
   count |-> Min({ChunkSize, size[nd.table] - nd.row})]
PastPortion(nd) ==
  SkipEmptyTables([nd EXCEPT !.row = @ + Portion(nd).count, !.next = @ + 1])

(* ecs_worker_take claims up to the limit before it unlocks: the lock is   *)
(* held while more portions are allowed.                                   *)
Claim(th, nd, allowed) ==
  /\ batch' = [batch EXCEPT ![th] = Append(@, Portion(nd))]
  /\ node' = LET past == PastPortion(nd) IN
             [past EXCEPT !.holder = th, !.allowed = IF past.exhausted THEN 0 ELSE allowed - 1]
Unlocked == node.allowed = 0

(* The first take of the system's node starts the run with a tick of its   *)
(* own; a system without a row to visit completes at once.                 *)
Compatible(q, p) == q \notin Writers /\ p \notin Writers
Open == {iters[k].query : k \in DOMAIN iters}
Fresh(q, th) ==
  SkipEmptyTables([query |-> q, tick |-> clock, table |-> 1, row |-> 0, next |-> 0,
                   exhausted |-> FALSE, holder |-> th, allowed |-> 0,
                   due |-> {t \in rows : PassesFilter(q, t)}])
Start(th, q) ==
  /\ ~Running /\ clock <= MaxClock /\ \A p \in Open : Compatible(q, p)
  /\ clock' = clock + 1
  /\ IF Fresh(q, th).exhausted
     THEN last_run' = [last_run EXCEPT ![q] = clock] /\ UNCHANGED <<node, busy, batch>>
     ELSE /\ Claim(th, Fresh(q, th), Limit(Fresh(q, th)))
          /\ busy' = {th}
          /\ UNCHANGED last_run
  /\ UNCHANGED <<written, structure, rows, iters, version, seen, size, calls>>
Take(th) ==
  /\ Running /\ Unlocked /\ ~node.exhausted /\ th \notin busy
  /\ Claim(th, node, Limit(node))
  /\ busy' = busy \cup {th}
  /\ UNCHANGED <<vars, size, calls>>
TakeMore(th) ==
  /\ Running /\ ~Unlocked /\ node.holder = th
  /\ Claim(th, node, node.allowed)
  /\ UNCHANGED <<vars, size, busy, calls>>

(* ecs_system_run_job on a portion, unlocked: an iterator bounded to it,   *)
(* which filters and stamps as any other and does not record the run.      *)
Calls(p) ==
  [calls EXCEPT ![p.table] = [r \in RowsOf(p.table) |->
     IF r \in p.offset..(p.offset + p.count - 1) THEN @[r] + 1 ELSE @[r]]]
SeenWhole(q, t, now) ==
  IF \A r \in RowsOf(t) : now[t][r] > 0 THEN SeenBy(q, t) ELSE seen
RecordedByEachPortion == [last_run EXCEPT ![node.query] = node.tick]
RecordedByPortion == last_run
StampedByRun(t) ==
  IF node.query \in Writers THEN [written EXCEPT ![t] = node.tick] ELSE written
RunJob(th) ==
  /\ Running /\ th \in busy /\ batch[th] # <<>> /\ (~Unlocked => node.holder # th)
  /\ batch' = [batch EXCEPT ![th] = Tail(@)]
  /\ LET p == Head(batch[th]) IN
     IF PassesFilter(node.query, p.table)
     THEN /\ written' = StampedByRun(p.table)
          /\ calls' = Calls(p)
          /\ seen' = SeenWhole(node.query, p.table, Calls(p))
     ELSE UNCHANGED <<written, calls, seen>>
  /\ last_run' = RecordedByPortion
  /\ UNCHANGED <<clock, structure, rows, iters, version, size, node, busy>>

(* The callback writes rows of the portions it is given.                   *)
WriteRow(t) ==
  /\ Running /\ node.query \in Writers /\ CanChange(t)
  /\ \E r \in RowsOf(t) : calls[t][r] > 0
  /\ version' = [version EXCEPT ![t] = @ + 1]
  /\ seen' = OwnWriteSeen(node.query, t)
  /\ UNCHANGED <<clock, written, structure, rows, last_run, iters, runVars>>

(* Its batch done, a thread locks again; the last one of an exhausted      *)
(* system completes it, which records the run (ecs_worker_complete).       *)
Finish(th) ==
  /\ Running /\ Unlocked /\ th \in busy /\ batch[th] = <<>>
  /\ busy' = busy \ {th}
  /\ IF node.exhausted /\ busy = {th}
     THEN /\ last_run' = [last_run EXCEPT ![node.query] = node.tick]
          /\ node' = NoRun /\ calls' = NoCalls
     ELSE UNCHANGED <<last_run, node, calls>>
  /\ UNCHANGED <<clock, written, structure, rows, iters, version, seen, size, batch>>

-----------------------------------------------------------------------------
(* Everything outside the run, as far as it does not conflict with it.     *)
Restructured(t, left) ==
  /\ ~Running /\ Restructure(t, left)
  /\ \E n \in IF left THEN Sizes[t] ELSE {0} : size' = [size EXCEPT ![t] = n]
  /\ calls' = NoCalls'
  /\ UNCHANGED <<node, busy, batch>>
Beside ==
  /\ \/ \E q \in Queries \ Parallel : (Running => Compatible(q, node.query)) /\ Iter(q)
     \/ \E t \in T : IterNext(t)
     \/ IterEnd
     \/ IterAbandon
     \/ \E k \in 1..Nesting : WriteField(k)
     \/ ~Running /\ \E t \in T : Set(t)
  /\ UNCHANGED runVars

PNext ==
  \/ \E th \in Threads, q \in Parallel : Start(th, q)
  \/ \E th \in Threads : Take(th) \/ TakeMore(th) \/ RunJob(th) \/ Finish(th)
  \/ \E t \in T : WriteRow(t)
  \/ \E t \in T, left \in BOOLEAN : Restructured(t, left)
  \/ Beside
PSpec == PInit /\ [][PNext]_allVars

-----------------------------------------------------------------------------
PortionsTypeOK ==
  /\ TypeOK
  /\ size \in [T -> Nat] /\ rows = {t \in T : size[t] # 0}
  /\ node \in NodeRecord \cup {NoRun}
  /\ busy \subseteq Threads
  /\ batch \in [Threads -> Seq(PortionRecord)]
  /\ DOMAIN calls = T /\ \A t \in T : calls[t] \in [RowsOf(t) -> Nat]

ClaimedBy(th) == {batch[th][k] : k \in DOMAIN batch[th]}
Claimed == UNION {ClaimedBy(th) : th \in Threads}

(* "The same logical portions" (docs/src/content/docs/systems.mdx:519),    *)
(* whatever threads claim them: each within a table that was due when the  *)
(* run started, cut at a multiple of the chunk size, and numbered in the   *)
(* order of the rows, which is the order their commands are published in.  *)
Before(p, r) == p.table < r.table \/ (p.table = r.table /\ p.offset < r.offset)
Logical(p, due) ==
  /\ p.table \in due /\ p.offset < size[p.table]
  /\ \E k \in 0..p.offset : p.offset = k * ChunkSize
  /\ p.count = Min({ChunkSize, size[p.table] - p.offset})
SamePortions ==
  /\ \A p \in Claimed : Logical(p, node.due)
  /\ \A p, r \in Claimed : p.ordinal < r.ordinal <=> Before(p, r)

(* No two threads hold one portion, no row is given to the callback twice  *)
(* or from a table that was not due, and once all that was claimed has run *)
(* and the cursor is at the end, every row that was due has been given.    *)
GivenOnce ==
  /\ \A th1, th2 \in Threads : th1 # th2 => ClaimedBy(th1) \cap ClaimedBy(th2) = {}
  /\ \A t \in T : \A r \in RowsOf(t) : calls[t][r] = 0 \/ (calls[t][r] = 1 /\ t \in node.due)
  /\ node.exhausted /\ Claimed = {} => \A t \in node.due : \A r \in RowsOf(t) : calls[t][r] = 1

(* "Portions stay within a single table and each matching row is processed *)
(* exactly once" (docs/src/content/docs/systems.mdx:503), however threads  *)
(* claim and run them and whatever is iterated meanwhile.                  *)
EachRowOnce == Running => SamePortions /\ GivenOnce
==============================================================================
