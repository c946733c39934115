# siecs in TLA+

TLA+ models of siecs, an entity component system in C, with the TLC
configurations that check small instances of them and proofs checked by TLAPS.
Paths are relative to the repository; `worker_pool.c` and the other bare names are
under `src/`. `PROJECT.json` maps each definition to the lines it models, and lists
the runs, the hazards each property is for, the findings and the theorems.

    tlc -workers 2 -config SchedulerSafety.cfg MCScheduler.tla
    tlapm SchedulerProofs.tla

## The system

A world is one global structure. A program creates entities, adds components to
them, relates them to each other and registers systems: callbacks over the tables a
query matches. `ecs_progress` runs the phases in order; in a phase a pool of worker
threads runs the systems that do not conflict. A structural change inside a parallel
callback, or between `ecs_defer_begin` and `ecs_defer_end`, is recorded in a command
buffer and applied later.

| Component | State | Operations | What makes it correct |
|---|---|---|---|
| worker pool (`worker_pool.c`) | nodes of the run, ready ring, cursor, counters, one mutex and two condition variables | take a portion, execute it, complete, release, drain, publish, wait, shut down | conflicting callbacks never overlap; `main_thread_only` is exclusive; commands are published in registration order, each once; every run and the shutdown end |
| system plan and phases (`storage/system_index.c`, `system.c`) | systems, phase order, dependency edges, a dirty flag | register, enable, build the plan, run phases, intervals | the plan in use agrees with the tables and the enabled systems |
| entity index (`storage/entity_index.c`) | generations, stack of freed ids, cursor of a window, reservations of each thread | reserve, kill, open and close a window | an id is in one place; a handle is given out once; a dead one stays dead |
| entity life cycle (`entity.c`) | records | new, kill, clone, inherit | kill removes the entity from everything that refers to it |
| relations (`relation.c`, `component.c`) | the target of each source, the sources of each target | relate, unrelate, cascades of kills | the two directions agree; a cascade kills what it promises, once, and returns |
| command buffer (`command_buffer.c`) | one merged command per entity, in order of first mention | record, flush in batches | the world after a flush is what the calls said |
| change detection (`query.c`, `component_write.h`) | a clock, a tick per column and table, the last run of each query | start, advance, end an iteration; write; move rows | a filtered query skips no table with a change it has not seen |
| query index (`storage/query_index.c`) | for each query the matching tables, in order, with field pointers | create, match a new table, refresh | the cache is the set of matching tables; no field pointer is stale |
| tables (`table.c`, `table_migration.c`, `storage/table_index.c`, `type.c`) | rows, columns, edges between tables | add and remove rows, migrate, look up a type | each entity has one row; a migration keeps values |
| components (`component_ops.c`, `storage/component_index.c`) | component records, requirements | add, remove, set, move | requirements hold; hooks run once |
| inheritance (`inheritance.c`) | `IsA` types, inherited copies | inherit, copy on add | a base's values are seen or copied as declared |
| observers (`observer.c`, `event_ops.h`) | lists by table and event, target observers | create, remove, emit | each enabled observer is called once per event |
| names (`naming.c`) | an open-addressing index of (parent, name) | name, rename, reparent, look up | the index is a map, whatever the deletions |
| modules, resources, world (`module.c`, `resource.c`, `world.c`) | registries | import, release, start, finish | released in reverse order, once |
| scenes (`save.c`), reflection, platform, C++ headers, addons, `distr/` | | | not modelled, see below |

How they interact: the pool runs callbacks that read and write tables through queries,
reserve ids from the entity index inside a window the pool opens and closes, and
record commands in a buffer of their own; it publishes those buffers, and publication
creates tables, which makes the plan dirty. Killing an entity runs the remove hooks of
its components, among them those that keep relations, which kill or unrelate other
entities. Every write stamps a column with a tick of the world's clock.

What is hard: the interleavings of the pool; the ids threads claim with atomic
operations; hooks that call back into the operation that runs them; the difference
between an immediate call and the same call recorded and merged; pointers and indices
read before a callback and used after it. `hazards` in `PROJECT.json` lists them, line
by line, with the properties that cover them or why none does yet.

## Modules

| Module | Models | Extends or refines |
|---|---|---|
| `Scheduler` | `worker_pool.c`, the plan of `system_index.c` | |
| `MCScheduler` | instances for TLC | `Scheduler` |
| `SchedulerProofs` | types, counters, the end of a run; what may run together, what comes before what | `Scheduler` |
| `EntityHandles` | what handles promise | abstract |
| `EntityIndex` | `entity_index.c` with atomic operations | implements `EntityHandles` |
| `EntityIndexProofs` | types and bounds of `EntityIndex`; each id is in one place; the refinement of `EntityHandles` | `EntityIndex` |
| `RelationGraph` | what relate and kill promise of the graph | abstract, as operators |
| `Relations` | dense relations, cascades, recorded edges and kills | uses `RelationGraph` as its reference |
| `MCRelations` | instances for TLC | `Relations` |
| `RelationsProofs` | the lists are the edges reversed; a cascade enters an entity once; nothing fails and the promised graph is left | `Relations`, `RecursionLemmas` |
| `CommandBuffer` | recording, merging and flushing of components, values, bases and kills | compared with the calls made alone |
| `MCCommandBuffer` | an instance for TLC | `CommandBuffer` |
| `CommandBufferProofs` | theorems about `CommandBuffer`: rows and types agree through every flush; a scope does what its calls do alone; kept transitions are fresh | `CommandBuffer`, `RecursionLemmas` |
| `ChangeTicks` | change detection | |
| `Portions` | a parallel system's run: claims, bounded iterators, completion | `ChangeTicks`: the composition of both |
| `MCPortions` | an instance for TLC | `Portions` |
| `PortionsProofs` | theorems about `ChangeTicks` and `Portions`: no change is missed; each row is given once | `Portions`, `RecursionLemmas` |
| `RecursionLemmas` | iterated functions, least members, sequences: made of sets, cut, kept in order, for the proofs | |
| `QueryCache` | tables, migration, inheritance and the caches of queries | |
| `MCQueryCache` | an instance for TLC | `QueryCache` |
| `Observers` | observers and the delivery of events | `QueryCache`: the composition of both |
| `MCObservers` | an instance for TLC | `Observers` |
| `ObserversProofs` | theorems about `QueryCache` and `Observers`: rows, lists of tables, caches and pointers are exact; lists of observers and entries of targeted ones are; a delivery calls each of its listeners, once | `Observers`, `RecursionLemmas` |
| `NameTree` | what names and parents promise | abstract |
| `Names` | `naming.c` with its open-addressing index | implements `NameTree` |
| `MCNames` | an instance for TLC | `Names` |
| `NamesProofs` | the index is the tree's map, probes end, the refinement of `NameTree` | `Names`, `RecursionLemmas` |

Some definitions that nothing uses (`MergedKeepsFirst`, `IterWithSharedTick`,
`PositionAtEnd`, ...) are seeded defects. Each stands before the definition it would
replace, and a property is known to refute it.

### Scheduler

One action is what a thread does between two acquisitions of the mutex, or one
iteration of a loop under it when other state depends on that iteration. `pc` says
where a thread is: outside, about to lock, inside the loop of `ecs_worker_take`, in a
callback, in an exclusive callback, about to finish, waiting on a condition. Nodes are
identified with systems in registration order. The ready ring is a set, since a call of
`ecs_worker_take` goes round it once and any order of requeued entries occurs. A
callback is what it leaves behind: which portions have commands, and changes to what the
plan is built from (`Toggle`, `Retable`), which the code allows only to exclusive
callbacks, to publication and to callbacks that run without workers.

* `NoConflictingCallbacks`: two systems with an edge in the plan never execute at
  once, and `ReservationQuiescence`: no worker executes while the ids of the main
  thread are being handed out or commands published.
* `StartsAfterPrerequisites`, `PublicationInOrder` (action properties): a system starts
  when those it depends on are released; jobs are published in order of system and
  portion.
* `PendingCounts`: the counter the pool decrements is the number of unreleased
  predecessors. `RunFinished`: nothing is left behind by a run that ended.
* `RunTerminates`, `ShutdownJoins` (liveness).

### EntityIndex

Claims are one action per atomic operation: the subtraction from the cursor of freed
ids, the addition for fresh ones, and issuing from the thread's slice. The window is
opened, closed, given back thread by thread and truncated as
`ecs_worker_reservations` does. `OneHome` accounts for every id: live, on the stack, in
one thread's slice, or never given out. `HandlesAreFresh` is refinement of
`EntityHandles`.

### Relations

A dense edge is a component of the source; the list of sources is a component of the
target. A call of `ecs_kill_now` is a frame with the components still to remove, and
the hook of the list of sources is a frame with the sources still to treat, so that
kills nest as they do in C. `store` holds, for each relation, both directions as the code
stores them, indices and the mark of a list in removal included; `Component` gives the ids
of its two components, which are the order the hooks run in. `promised` is the graph that
`RelationGraph` computes for the same calls, each made alone.

* `ReverseIndexExact`: outside a call, the lists are exactly the edges reversed and
  each source knows its place in the list.
* `Settled`: after a call, and after the flush of a scope, the graph is the promised one.
* `KilledOnce`, `NothingFails`, `CallsReturn`: a cascade enters each entity once,
  meets no assertion and returns.

Left out: observers; an edge to oneself (`e # t` in the guards, because there the
removal hook migrates the entity under the caller, see the hazard at
`component_ops.c:100`); relations by depth, by target and virtual. Inside a scope a
program may relate only to a target that no recorded call kills. `DeferKills` says what it
may kill there: nothing, anything, or (`"unlinked"`) an entity whose death, with all it takes
along, takes no edge away from an entity that lives on, be the edge in the store or recorded
(`NoLinkInto`): the flush removes such an edge by a command of the next batch, and by then
the target is dead (`component.c:104`, `relation.c:525`, see Disagreements).

### ChangeTicks

`Iter` takes a tick, `IterNext` returns the next table that has rows and passes the
filter and stamps what it hands out, `IterEnd` records the run, `IterAbandon` is a
caller that leaves the loop. `Set` and `Restructure` are writes from outside and rows
that come, go or move. `version` and `seen` are history: what changed and what each
query saw. `ReportsEveryChange`: an unseen change has a stamp newer than the query's
last run. Fields are owned; a table has one column.

### Portions

The run of one parallel system, over the clock, stamps and last runs of `ChangeTicks`.
Threads claim portions, up to `Limit` under one lock, through the cursor of the node
(`Start`, `Take`, `TakeMore`: the lock is held while more are allowed); run them unlocked,
each through an iterator bounded to it, which reads the change filter and stamps again
(`RunJob`); and complete the run when the cursor is at the end and the last of them is done
(`Finish`), which is when the run is recorded. `calls` counts how often the callback has been
given each row. Beside the run, queries that do not conflict with it are iterated (`Beside`);
`Scheduler` shows that what conflicts waits, and that the commands of the callbacks come
later. Where `Scheduler` counts the portions of a system, this module has their rows; it
leaves out what `Scheduler` has, and systems disabled in the middle of a run.

* `EachRowOnce`: no row is given twice, none that was due is left out, and the portions
  are the ones a single thread would make, numbered in the order of their rows. A portion
  that recorded the run would hide the rest of its table from the filter; so would a stamp,
  were it not newer than the last run.
* `ReportsEveryChange`, now also of queries of parallel systems.

### CommandBuffer

A scope keeps one command for each entity (`Recorded`, `Merged`), in the order in which
they are first mentioned; `DeferEnd` hands them to the flush, which applies one command
a step: a dead entity is skipped, a kill is a kill, a command that needs no other type
writes in place, and the rest find the final type, mark the base abstract, migrate once,
copy from the base and write. `transition` is the type and the addresses of copied values
that entities in a row with commands of the same shape share. An address is a table, a row
and an allocation; a read through one that is stale gives what is in the row now, or any
value when the columns have moved. `promised` is the world if each call had been made
alone.

* `SettledAsPromised`: with nothing recorded and no flush under way, the world is the
  promised one.
* `TransitionFresh`: a cached transition about to be used gives what a fresh look at the
  types gives, and its addresses are those of the values.

The two worlds are not always the same. `Divergences` names when, and each action allows
the calls that meet a disagreement only if the instance names it:

| Name | Calls in one scope | Alone | After the flush |
|---|---|---|---|
| `required` | add Q (which requires P), remove P; add Q, remove Q; add a Q that is there without its P | Q alone; P alone; Q alone | Q and P; nothing; Q and P |
| `again` | remove P, add P | P is new | P has its old value |
| `inherited` | `is_a`, then add or remove what the base gives | the base's value; gone | the default value; the base's value |
| `rebased` | `is_a` of two bases; `is_a`, then kill | copies of both; the base is abstract | copies of the last; it is not |
| `order` | an entity mentioned, its base changed or killed, then the entity inherits, and the like | what the base was at the call | what it is at the entity's place |
| `moved` | two `is_a` of a base, something that moves rows of abstract entities (the first `is_a` itself, when its entity is abstract), a third `is_a` | the base's value | what is at the old address |

What "its base" is at that place, `Seen` says: the entities mentioned before as the calls
leave them, the others as they were. The run allows none of the six. TLC finds a violation
of `SettledAsPromised` for each of the first five when it alone is allowed, and one of
`TransitionFresh` for `moved` with four entities, so no exclusion is idle. Hooks and observers are left out, so nothing is
recorded during a flush and the flush has one batch (batches are in `Relations`).

### QueryCache

`types` is the list of tables, in order of creation, each with the components and the base
of its entities; `rows`, `place` and `capacity` are the rows, the entity records and the
room in each table, whose columns move when it grows. `having` is the list of tables of
each component. A query keeps an entry for each table it matches, with a pointer to each
field: table, row and allocation. The operations are `ecs_new`, `ecs_add` with
requirements, `ecs_remove`, `ecs_is_a` and its end, `ecs_kill`, and the creation and
destruction of queries, each whole: a new table is offered to the active queries, growth
binds the entries it must.

The line of bases above an entity (`Line`), what a type gets from it (`Providers`,
`InheritedBy`) and the tables a new query is filled from (`Filled`) are functions, the loops
being recursive ones over numbers.

* `RecordsAgree`: each living entity has one row, and its record says which.
* `CacheExact`: a query lists exactly the tables that match, each once, in its order.
* `FieldsCurrent`: every pointer is the one a new binding would give.
* `AsIfNew`: a query holds what a query of its shape made now would be given, in the same
  order: offering tables one by one, at their places, comes to the same as filling a cache
  from the shortest list of a component and sorting it.

`BaseHazards` says what may happen to a base in use, one a table names: it may `die`; be
`move`d within its table when another entity leaves; or `change`: lose a component, or get or
lose a base of its own (`MayChange`). The code does all three and has no check against any.
It offers the tables of the inheritors to nothing again when a base changes, so that what they
inherit and what queries and lists hold of them part (see Disagreements). The history
variable `changed` remembers these tables, and the last three properties and `ListsExact`
except them, and them alone: all other tables, those made after the change with the new line
of bases included, must be exact. The run `query_cache` allows `change`, and
`query_shared_moved` allows `move`. No run allows `die`, and `observers` allows none of the
three: what the code does then is in the table of disagreements.
`ecs_is_a_now` makes the new base Abstract before it migrates the entity: here these are two
operations, `AddComp(b, Abstract)` and `IsA(e, b)`. The code looks for a cycle before the first
of them, which leaves the lines of bases as they are, so it would find the same after it.

### Observers

The composition of `QueryCache` with `observer.c`: every step of `QueryCache` is a step
here, followed by the lists of tables (`ListsFollow`), the end of the observers of a dead
entity, or a delivery. A delivery is a frame of a stack: the walk of the table's list, of
the length the list had at its start, then of the targeted observers of the entity and of
its bases. `Advance` calls the next observer, and between a call and its `Return` the
user's code may do anything `UserStep` does: change entities, make and end queries and
observers, enable them, trigger events, and so start deliveries within the delivery.

* `ListsExact`, `TargetsExact`: the lists hold exactly the live observers of tables their
  queries match (but for tables in `changed`), the array exactly the live targeted ones,
  sorted.
* `CalledOnce`, `EveryListenerCalled`: no observer is called twice in a delivery or after
  its end, and every one that was there at the start and stays enabled is called.

The environment is restricted to what the walk survives, by guards that name it: a callback
ends no observer of a list that is being walked (`EndInCallback`), registers none for an
event on a table that is being walked, changes no targeted observers while targets are being
walked, and kills no entity of a delivery under way nor its bases. The run also leaves out
that a base in use changes (`BaseHazards = {}`): a callback that does it breaks the walk up the
bases. `ecs_is_a_now` looks for a cycle, makes the base Abstract, which delivers, and
migrates the entity (`entity.c:90`); here the delivery is that of the operation
`AddComp(b, Abstract)`, before the search, so that a callback of it that closes a cycle
behind the search is left out: the next walk up would not end. Tables are found by their
number, not by an address. Removals, sets and relation events are not delivered.

### Names

`index` is the table of slots of `naming.c`, with its counts of entries and marks; an entry
is a key (a parent and a name) and an entity. Growth, the reuse of a mark, removal and the
probe are as in the code, over a hash given by the instance. `roots` is the index of
entities without a parent. `SetName`, `SetParent`, `NewNamed` and `Kill` change both, with
the entity that gives way and its subtree.

* `ImplementsTree`: with a lookup in the index for `lookup`, `Names` implements `NameTree`.
* `IndexExact`: the index has each named entity once, reachable by its probe, and the two
  indexes agree. `ProbesEnd`: an empty slot always remains.


## Runs

| Run | Instance | Shows |
|---|---|---|
| `scheduler_safety` | 2 workers, 4 systems (parallel, main-thread-only, an `.after` edge, a conflict that comes and goes), 2 changes, spurious wakeups | the safety properties above under every interleaving |
| `scheduler_serial` | no workers, 2 runs | the pool that follows its cursor |
| `scheduler_liveness` | 2 workers, 3 systems, no spurious wakeups | no lost wakeup: every run ends, the shutdown joins |
| `scheduler_enable` | one run of 3 systems, one `main_thread_only`; exclusive callbacks may enable a system | violation: a system is disabled while commands are published and enabled again by the exclusive callback that follows; a worker starts it beside that callback |
| `entity_index` | 2 threads, slices of 2 ids, 3 kills | ids are neither lost nor doubled; handles are fresh |
| `relations` | 3 entities, an owning relation and a link, 2 recorded calls | graph, reverse index and cascades |
| `command_buffer` | 3 entities, 2 components, one required by the other, 4 calls in one or more scopes | merged commands and shared transitions give what the calls give |
| `portions` | 2 threads, 2 parallel and 2 iterated queries, tables of 3 and 15 rows, portions of 2 | each row is given once; no change is missed |
| `query_cache` | 3 entities, a component inherited by reference, bases in use that change, any 4 tables and 6 behind a given beginning, 2 queries with fewer than 4 tables, else 1 | rows, caches and pointers stay exact, and are what a new query would be given |
| `query_shared_moved` | a base may be moved within its table | violation: a query keeps the pointer to the row the base left |
| `observers` | 3 handles, the third with the index of the first, a component copied from bases, which gain it with Abstract (a delivery for each of the two), 2 observers, 3 tables, deliveries one deep | lists stay exact; each listener is called once |
| `names` | 3 entities, 2 names, an index of 4 slots that grows | the index is a map, the tree is a tree |

Bounds. Two workers and the caller are enough for a signal to reach the wrong sleeper
and for one thread to execute while another takes and a third waits; four systems hold
every kind of edge and one system outside each. `MaxPortions = 2` has a parallel system
split and requeued. `MaxChanges = 2` lets a change be undone. With three entities and
two relations a target has two sources (the moved index), a cascade has depth two and
branches, and graphs have cycles; two recorded calls are a pair merged on one entity or
ordered between two. Four recorded calls on three entities are a command merged from four
calls, two commands of one shape and the base they share, or two scopes of two calls.
In `portions` the
first table ends in a short portion, and the second has the eight portions that two threads
need before one of them may claim two; two ticks are a run and an iteration beside it, or a
run and a later one (`ParallelRunsLoseNothing` has no bound); the threads are interchangeable, so the
instance declares them a symmetry set. In `query_cache` a line
of bases is two long, a table grows twice, and four tables are the root, a base's, an
inheritor's and one more; two queries let a slot be freed and used again. A base in use that
changes, and a second inheritor whose table comes after that, need six tables: the root, the
base with P, another base, an inheritor, the base after it has lost P and inherited from the
other, and the second inheritor's, with P or without. `MCNext` of `MCQueryCache` lets there be more
than four tables only behind this beginning (`Prelude`, `Follows`). In `observers`
two are enough for one to end, disable or follow the other in a list, the third handle
meets observers left by the first, and three tables are the root, a base's and an
inheritor's. In `names` four slots fill up with marks and force a
rehash. All bounds are CONSTANTS, named `Max...`, `Nesting`, `Capacity` or `GenLimit`.

Fairness. `Scheduler!FairSpec` gives each thread, and the caller while it is inside
`ecs_worker_pool_run` or the shutdown, weak fairness: the operating system runs every
thread that can run, and callbacks return. The caller starting a run or a shutdown is
not fair. Spurious wakeups are off in `scheduler_liveness`, so that only signals wake a
thread. `Relations!FairSpec` asks that the single thread goes on with a call it is in.
The other modules state no liveness. Programs over `CommandBuffer`, `Portions`,
`QueryCache`, `Observers` and `Names` may stop at a bound, so their runs do not look for
deadlock; the others do.

## Disagreements

Between the code and its documents, or between two ways of saying the same. Two have a run
(`findings` in `PROJECT.json` quotes the documents). The others can be seen with the module
and the constants named; those marked * were also met by a small C program, under an address
sanitizer where memory is read after it is freed.

| What happens | Where | To see it |
|---|---|---|
| a system that is disabled while commands are published, and enabled again by the exclusive callback that follows, starts beside it | `worker_pool.c:142` | `scheduler_enable` |
| * a query reads a base through the row it left | `storage/query_index.c:413` | `query_shared_moved` |
| * a base dies; a query made later looks for its table | `table_ops.h:30` | `QueryCache`, `BaseHazards = {"die"}` |
| a base in use loses a component, or gets or loses a base: the tables of its inheritors stay in the lists and caches they were in, and join no others (`docs/src/content/docs/inheritance.mdx:366` tells how to change bases) | `storage/table_index.c:226` | `QueryCache`, `BaseHazards = {"change"}`, without the exception for `changed` |
| a callback gives bases of the entity delivered other bases: an observer is called twice, or passed over | `observer.c:247` | `Observers`, `BaseHazards = {"change"}`, 4 entities, 7 tables (`CalledOnce`, `EveryListenerCalled`) |
| an observer of Abstract lets the new base inherit from its inheritor: a cycle, behind the search for one | `entity.c:90` | not in a module |
| * an observer that ends itself in its callback: the next is passed over and another called twice | `observer.c:228` | `Observers`, `EndInCallback = TRUE` |
| * a callback registers observers, and the list or the array being walked moves | `observer.c:224`, `world_internal.h:80` | guards of `Observers` |
| * a callback makes a table during the delivery of several added components, and the table of the delivery is read after it is freed | `event_ops.h:71` | not in a module |
| * in a scope, two `is_a` of a base, a change of the base or `is_a` of other entities (the base's table grows), a third `is_a`: copied from the old address | `command_buffer.c:120` | `CommandBuffer`, `Divergences = {"moved"}`, 4 entities |
| the other five rows of the table under CommandBuffer | `command_buffer.c:494-535` | `CommandBuffer` |
| * in a scope, two entities inherit from each other: accepted, and the next walk up does not end | `command_buffer.c:658` | guard of `CommandBuffer!IsA` |
| a handle kept through 65536 reuses of its index is alive again | `entity.c:139` | `EntityIndex!StaleStaysDead`, `MaxKills >= GenLimit` |
| * a target killed in a scope: the hook follows an edge to a dead target | `relation.c:525` | `Relations`, `DeferKills = "any"` |
| * two owning relations between two entities: the cascade enters one twice | `component.c:144` | `Relations!KilledOnce`, two owning relations |
| * an acyclic edge reversed in a scope is taken for a cycle | `relation.c:466` | `Relations`, `Acyclic` and `Deferrable` not disjoint |
| * in a scope, an owned entity is unrelated and then its owner killed: it dies all the same, its edge goes in the next batch | `command_buffer.c:594` | `Relations`, an owning relation in `Deferrable` (`Settled`) |
| * a query run inside another's iteration misses its changes afterwards | `query.c:81` | `ChangeTicks`, `Nesting = 2` (`ReportsEveryChange`) |

## Proofs

TLC checks these statements on the instances above; TLAPS proves them for all
constants that satisfy the named assumptions.

`SchedulerProofs`, from `ConstantsAssumption`:

* `TypeCorrect`: `TypeOK` always holds. `PublishesAlone`: commands are published
  while no callback executes.
* `RunsFinish`: with at least one worker, `RunFinished` always holds. `RunFinished` is
  not inductive: that a run ends with nothing left follows from what the cursor has
  passed, so the invariant `RunInv` adds that `active` and `running` count the threads in
  callbacks (`CountsBusy`), that a complete node is exhausted with none running
  (`FlagsAgree`), that every node before the cursor is complete and published
  (`PrefixDone`), and where the caller can be in each phase of a run (`CallerPhase`).

`SchedulerProofs`, second part, with at least one worker:

* `PendingIsExact` (`PendingCounts`): the counter of a system is the number of systems it
  waits for that are not released, through releases, drains and new plans, and what waits
  for none is ready.
* `PublishesInRegistrationOrder` (`PublicationInOrder`).
* With the further assumption that exclusive callbacks enable no system
  (`~ExclusiveMayEnable`): `CallbacksSeparated` (`NoConflictingCallbacks`),
  `MainOnlyRunsAlone` (`MainOnlyIsExclusive`), `StartsAfterItsPrerequisites`
  (`StartsAfterPrerequisites`) and `ReservationsReturnedAlone` (`ReservationQuiescence`).
  The run `scheduler_enable` shows that `MainOnlyIsExclusive` needs the assumption.

None of these is inductive. The invariant has three layers. `PhaseInv`: where the caller
is, and what each phase (parallel part, drain, publication) implies for the flags.
`EdgeInv`: the edges of the plan in use, the released set and the counters agree. `OrderInv`:
a system that has started and not finished has only released predecessors; so two that run
together have no edge between them; and a plan that is up to date has an edge between any
two that must not overlap (`PlanJoins`). The plan is stale only inside an exclusive
callback, or in a drain in which nothing is unfinished; that is the part that fails when such a
callback enables a system, because a system that was disabled has no edges in the old plan.

`EntityIndexProofs`, from `EntityAssumption`:

* `TypeCorrect` (`TypeOK`). It needs bounds (`BoundsInv`): a thread's slice lies between
  the cursor and the snapshot of the stack, its block below the count, and the calls under
  way cannot together count past the bound.
* `NoIdTwiceOrLost` (`OneHome`): whatever order the atomic operations of any number of threads
  take, each id counted so far is in one place. `Homes` says it without counting: what is
  held on the stack is held once, is not alive and in no block; slices are disjoint and
  so are blocks; what is alive is in no block; nothing is lost. The step that takes the
  work is the return of a reservation, whose slice and block become new positions.
* With fewer kills than generations (`MaxKills < GenLimit`, 65536 in the code):
  `IndexKeepsThePromise` (`HandlesAreFresh`), the refinement of `EntityHandles`, and
  `KilledStaysDead`. The generation of an id is at most the number of kills, so it does
  not wrap, and every killed handle has an earlier one.

`PortionsProofs`, first part, about `ChangeTicks`, from `TicksAssumption`:

* `TypeCorrect`.
* `NothingIsLost`: if iterations do not nest (`Nesting = 1`), `ReportsEveryChange`
  always holds. The invariant says that stamps never pass the clock, that a run in
  progress that may write is newer than every recorded run, so that its stamp is enough for
  every query, and that the tables it went past hold no unseen change stamped before it.
  Nesting breaks exactly the second part.

`PortionsProofs`, second part, from `TicksAssumption` and `PortionsAssumption`, for any number of threads,
tables, rows and portions (and, in the first two, iterations nested to any depth):

* `PortionsTypeCorrect` (`PortionsTypeOK`).
* `EachRowHandedOnce` (`EachRowOnce`). It is not inductive: that no row is left out at the end
  follows from where each row is before. The invariant `PInv` says that the cursor stands in
  a table that is due, at a multiple of the chunk size (`CursorInv`); that the portions claimed
  lie behind it, disjoint and in order (`ClaimsInv`); that a row that is due is ahead of the
  cursor, or in one of them, or has been given once, and no other row has (`GivenInv`); and
  that a table is due exactly when it passes the filter still, the last run being older than
  the run's tick (`DueInv`), so that no portion is refused after it was claimed. The lemma that
  takes the work is `ClaimKeeps`: the cursor moves past a portion and over the tables that are
  not due. That a set of numbers has the least member `Min` picks is `LeastOf` of
  `RecursionLemmas`.
* `ParallelRunsLoseNothing` (`ReportsEveryChange`), if iterations do not nest. Here a run that
  only reads may be recorded after a later iteration, so not every run is newer than every
  recorded one; one that may write is, since nothing is iterated beside it
  (`NewestWriter`). The tables that were not due, or whose rows have all been given, hold no
  change the run has not seen (`SeenWhatIsDone`), and when it is recorded these are all.

`ObserversProofs`, first part, from the assumptions `QueryCache` names (finitely many numbered
entities and components, what a component requires is closed, the fields of a shape), for any
number of entities, components, tables and queries:

* `TypeCorrect` (`TypeOK`) and `RowsAndRecordsAgree` (`RecordsAgree`), whatever happens to
  bases.
* If no base in use dies (`"die" \notin BaseHazards`), while bases change and move:
  `ListsOfTablesExact` (`HavingExact`, the lists new queries are filled from) and
  `CachesExact` (`CacheExact`). Both except the tables one of whose bases has changed since they
  were made (`changed`), of which they say only that they are listed once at most. A base
  that dies leaves types whose base is nothing, and the
  walk of a query made later goes there: the disagreement at `table_ops.h:30`.
* If, besides, no base is moved (`BaseHazards \subseteq {"change"}`): `PointersCurrent`
  (`FieldsCurrent`), with the same exception. The run `query_shared_moved` shows that it
  needs this.

The invariant is built in layers. `Typed` adds to the types what lists hold: entities in rows,
tables in lists, each once. `RecordsAgree` is inductive over it. `BasesAbstract`: the base of a
type in use is alive and Abstract, so that an entity that becomes a base, or is one, keeps its
components but for those it is told to lose. A line of bases on which no type changes stays
(`LineStays`), and with it what is inherited (`TableStays`). Only the entity of the operation
changes its type, and the tables whose line it is on enter `changed`, so for all others the
line stays (`Undisturbed`). `HavingExact` follows for the tables there
were, and a table made by the step is entered in the lists of just what it owns and inherits.
`QueriesExact`: the slots in use and the free ones are disjoint, each cache holds, each once and
in order (`Arranged`), tables of which those outside `changed` are the ones that match (`Fits`),
be it filled from the shortest list of tables (`CountOfDistinct`,
`SequenceOfValues`), or offered each table as it is made, or left alone. `QueriesBound`: each
pointer of a table outside `changed` is what `Bind` gives. Its bases do not move (`Steady`,
`InPlace`): a base that migrates puts the tables below it into `changed`; and where a
table grows, the pointers left as they are lead to other
tables, because a line of bases that passes through it goes through an entity of it
(`RecordsAgree`). `Line` and `Filled` recurse over numbers. No proof here does induction with a
predicate for a parameter: `RecursionLemmas` shows that a function with the recursive equation
exists (`Iterated`) by taking the functions on initial parts, and that two of them are equal
(`SameIterates`) at the least number at which they would differ.

`NamesProofs`, from the assumptions `Names` names (finitely many handles, a hash that is any
function to the natural numbers, a table of four slots or more at first), for any number of
entities and names and tables that grow to any size:

* `TypeCorrect` (`TypeOK`) and `ProbesAlwaysEnd` (`ProbesEnd`): the search loops of
  `naming.c` have no other way out than an empty slot or the key.
* `IndexIsTheTree` (`IndexExact`) and `NamesImplementTheTree` (`ImplementsTree`), the
  refinement of `NameTree`: with the lookup by probes, each handler, the growth of the table
  and its reuse of marks included, is one step of the abstract tree.

`IndexExact` alone is not inductive, for a probe that finds each entry now may not once
another is gone. The invariant `IInv` has three parts. `Sound`, about slots alone: every entry
is reached by a probe for its key that passes only over entries and marks, the counters count,
and they stay under three quarters of the slots, so that some slot is empty (`EmptyLeft`).
It is kept, with what it does to the set of entries (`Contents`), by removal (`Erasing`: marks
do not cut a probe), by insertion in the first mark or the empty slot (`Putting`), and by
growth (`Rehashing`, entry by entry: `Moved` is what holds when the first slots have been
moved). A probe of a table of any size comes to every slot (`ProbeCovers`). `Shape`, about the
tree alone: parents are alive and no line of parents comes back (`Rooted`). It gives the walk
up its end, for a line that met an entity twice would come back (`LineIsReach`), and is kept by
a move because the place is not below what moves (`RootedKept`). And `Listed`, `ShortListed`:
`Contents` is what the tree says. The step that needs all three is a move that makes an entity
give way: those who die are closed downwards and are not above the entity that comes nor above
its place (`GivingWay`), so the tree keeps its shape and the place is free.

`ObserversProofs`, second part, from the assumptions `QueryCache` and `Observers` name, for any number of
entities, events, observers, tables and queries, and whatever callbacks do within the guards
of `Observers`:

* `ObserversTypeCorrect` (`ObserversTypeOK`) and `TargetsAreExact` (`TargetsExact`), whatever
  happens to bases.
* If no base in use dies: `ListsAreExact` (`ListsExact`), but for the tables in `changed`.
* If no base in use dies or changes (`{"die", "change"} \cap BaseHazards = {}`) and no callback
  ends an observer of a list being walked (`EndInCallback = FALSE`): `ObserversCalledOnce`
  (`CalledOnce`) and `ListenersAreCalled` (`EveryListenerCalled`), for deliveries within
  deliveries to any depth (the run has one level). With `change` both are false, see the
  disagreement at `observer.c:247`.

Every step is a step of `QueryCache` (`StepsOfQueries`), so that the invariants of the
first part are carried along and cited. `TargetsExact` is not inductive: it does not say
that an entry that leaves is that of the observer that ends, nor that what dies with an index
watches one entity. `Registry` adds that the free slots are the ended observers, each once
(`SlotsOfObservers`), that each active query belongs to one global observer (`Linked`), that no
two living entities have one index (`IndexesApart`), and that every entry is the one its
observer gives (`TargetsKept`). In a sorted array the entries before `LowerBound` are those
below the key (`LowerBoundIs`), so an entry is put in its place (`SortedInsert`), and the
observers of a dead index are one run of it, which is cut out (`SortedCut`, `EndedObservers`).
For `ListsExact` the lists of tables are also free of repetition (`ListsKept`). The list of a
new table is made by a loop over the active queries, which a recursive function models: two
queries have two observers, so none joins twice (`JoinedAre`), and the queries that take the
table are those whose caches name it (`Named`), which by `QueriesExact` in the next state are,
outside `changed`, those that match. A step that makes no table leaves what active queries
name as it is (`MatchesStay`).

The walks have an invariant of their own, over these (`Settled`). `FramesTyped`: the entity of
a delivery is alive, the source its walk has come to is that entity or an Abstract base, and
every delivery but the innermost waits for a callback. `Orderly`, for each delivery: in the
list, those called stand before the position, the part to be walked names no observer that
came since, and those due stand ahead or watch the entity or a base of it; among the targeted
observers, all that sort below the source's key are behind the position, and those due watch
the source, ahead of the position, or a base above it. That nobody is called for two sources
needs an order in which the walk only goes down: a `rank` of the living entities in which the
base of a type is below those that inherit from it (`Ranking`). It is not part of the state,
so the invariant says that one exists (`Flow`), and a step that gives an entity a base finds
the next one: the entity is no base in use, so that it can be raised above its new base while
every other rank stays (`RankStep`). `Advance` moves one delivery along (`CallInList`,
`CallInTargets` and the changes of stage). A step of the user leaves the others as they are,
but for what they owe (`Carried`): lists only grow behind the part that is walked
(`ListsHeld`), targeted observers stay while any are walked (`TargetsHeld`), entities
delivered and their bases stay alive (`EntitiesHeld`), only one entity moves and it is no
base in use (`HierarchyMoves`), and a delivery begun inside starts in order (`Begun`).

`RelationsProofs`, from `GraphAssumption` and `RelationsAssumption` (finitely many entities,
any relations, the ids of a relation's two components apart from those of others), for any
graph, scope and cascade:

* `TypeCorrect` (`TypeOK`) and `ListsAreEdges` (`ReverseIndexExact`).
* If one relation at most deletes the sources of a deleted target (`OneOwner`):
  `KilledAtMostOnce` (`KilledOnce`). With two the program's cascades do come back, see the
  disagreement at `component.c:144`.
* If, besides, scopes are orderly (`Orderly`: they change no relation registered with
  `.acyclic`, and kill nothing or what is unlinked, while the relations they change do not
  delete): `NothingEverFails` (`NothingFails`) and `SettlesAsPromised` (`Settled`). Each
  condition answers one of the disagreements above marked for `Relations`; the instance
  `relations` satisfies all of them, with kills in scopes. Outside scopes nothing is asked.

`ReverseIndexExact` speaks of the time between calls and is broken in the middle of each
cascade: a list whose hook runs is left as it is while its sources go, and the edge of an
entity whose target's hook has run points on at a list it is no longer in. `Kept` says how far
the two directions agree for one relation while the entities of a set `K` are being killed and
those of `R` have had the target's hook run: lists that are not marked are true and hold each
source at the place it remembers (`TrueLists`), all others alive are in their target's list
(`Listed`), those of `R` are not (`Unlisted`), and marked lists belong to entities of `K`
(`Clean`). Between calls both sets are empty and `Kept` is the property. Each operation on a
list keeps it (`KeptDetached`, where the last source moves into the gap, `KeptJoined`,
`KeptUnlinked`, `KeptMarked`, `KeptDropped`), and `K` and `R` are read off the stack
(`UnderIn`, `RanIn`), whatever frames are on it, so that the proof of a step is the lemma for
the operation and what the step does to the two sets.

`KilledOnce` needs what frames say of each other (`Nested`): a list opens above the killing of
its owner, after the hook of the owner's own target (`Opened`, from the ids); the sources
left in it are distinct and still those of the owner (`Listing`); in a relation that deletes
none of them is being killed (`Waiting`); and a killing below the first was dragged in by the
list under it (`Dragged`). When a list opens, `Waiting` is the point of the proof: with one
such relation, every entity being killed has had its target's hook run (`LowerRan`), and by
`Unlisted` is in no list (`ListOpens`). One that dies leaves the other lists waiting, for it
stands in one list only (`LowerLeft`).

`NothingFails` and `Settled` are proved together (`Sure`), since what the flush promises
rests on hooks that do not fail, and a hook can fail only on an edge that should have gone.
`Flow` is the invariant of the store: an edge of the living leads to the living unless the
hook of its source has run (`Pointing`); whoever still points at an entity that has given up
its list is being killed, or is one the list's hook has yet to come to (`Drained`, with
`Awaits` read off the frames); the dead have no edges (`Cleared`). When a row goes its entity
is below no frame, so nothing awaits it, and `Flow` says that no edge of the living is left to
it (`FlowKillRow`). A list that only unrelates runs outside scopes (`Leaving`), for in a flush
an entity that is killed has no such source.
`Pact` is what the promise says of a state in which calls are under way. Those who are alive
but dead in the promise are the least set closed under the deleting edges that contains those
whose kill has begun or waits (`Doom`); `DeletedIs` shows that the series by which
`RelationGraph` computes `Deleted` reaches such a set, as it stands still within as many steps
as there are entities. An edge promised is the one that waits for its source, and where none
waits the one that is there, unless its target is doomed (`Spoken`, `Left`); no edge that
waits leads to the doomed (`Aimed`). The lemmas `PactCall`, `PactRecord`, `PactKill`,
`PactApply`, `PactRow` and `PactLoose` are its steps: a call that changes both graphs, a
command that takes the place of the entity's last (`Replaces`), a kill, the flush of a command
that leaves its removals to the next batch (`Follows`, `Flushed`), a death, and an edge that a
hook removes. At rest nothing waits and nobody is doomed, and `Pact` and `Flow` leave one graph
(`PromiseKept`).

`CommandBufferProofs`, from `CommandsAssumption` (finitely many entities, what a component
requires is closed), for any number of entities, components and values, scopes nested to any
depth and flushes of any length. The first theorem holds whatever disagreements are allowed;
the others assume `Divergences = {}`, a program that avoids all of them, which is no more
than TLC has shown to be needed:

* `RowsFollowTypes` (`TypeOK`). The rows are the point: a migration enters the new table, which
  may double, and the last row of the old one fills the hole (`GrownHolds`, `ShrunkHolds`), so
  that each living entity stands once, in the table of its type. `Stored` says so of a world,
  and is kept by each operation on one; that what is read through an address, fresh or cached,
  is a value at all needs that addresses lead to tables that exist (`TransitionTyped`).
* `ScopeActsAsItsCalls` (`SettledAsPromised`). The invariant is `Promising`. `Agrees` says that
  each command waiting gives its entity the promised record, component by component
  (`ResultAt`), when it is applied to the entity as it is and to what it will find there:
  the entities mentioned before it as they are promised, the others as they are (`SeenIn`).
  It also says that an entity is promised to be abstract when it is now or a waiting
  command inherits from it (`Abst`), and that a living base is abstract. One lemma
  for each call (`AddAgrees`, `SetAgrees`, `RemoveAgrees`, `IsAAgrees`, `KillAgrees`) shows
  that the merged command still fits, and where each guard against a disagreement is
  needed: without it the merged command would give something else. One for each way of
  applying a command (`InPlaceAgrees`, `RestructuredAgrees`, `ApplyKillAgrees`) shows that
  the rest finds what it expected. With no command left the two worlds are one.
* `TransitionsFresh` (`TransitionFresh`). A transition is kept while rows move, for the
  next command of its shape (`Shared`). Its addresses lead to the base and what that
  inherits from, which are abstract (`AncestorsAbstract`), and whether an entity is abstract is
  part of its type: what migrates or dies without being abstract is in other tables, and moves
  none of those rows (`MigratedApart`, `KilledApart`, `StillSame`). A program that avoids
  `moved` moves no abstract entity between two commands that inherit from one base
  (`NoMovesIn`), so the transition stays fresh while a command for its base waits (`Lasting`).
  The other theorem rests on this one: what was copied through a stale address would not be
  what was promised.

Only model-checked: `RunFinished` without workers (`scheduler_serial`); `AsIfNew`, of whose
two halves the first, that both caches hold the same tables with the same pointers, rests on
what `ListsOfTablesExact`, `CachesExact` and `PointersCurrent` prove, while the second needs
the order among tables of one base; and all liveness, which needs ENABLED.

## Plan

What is left, in this order.

1. Hooks in `CommandBuffer`, whose calls come in further batches, and observers of sets
   and removals.
2. Relations by depth, by target and virtual, with the tables they make.
3. `Phases`: order of phases and intervals.

## Not modelled

Scenes and reflection are conversions over the public interface; the platform layer is
modelled by its contract (mutex, conditions, threads); the arena and the id map are below
the models' level; the world's start and end are straight lines; the C++ headers are
templates over the C functions; the addons (`addons/gpu`, `addons/ui`, `addons/rest`,
`addons/spatial`) are clients of the library; `distr/` is generated.
