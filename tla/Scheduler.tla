------------------------------ MODULE Scheduler ------------------------------
(***************************************************************************)
(* The phase scheduler of src/src/worker_pool.c with the access plan of    *)
(* src/src/storage/system_index.c: a calling thread and a pool of workers  *)
(* share one mutex and two condition variables, execute the systems of one *)
(* phase, and publish the commands the callbacks deferred.                 *)
(*                                                                         *)
(* Systems are 1..NumSystems in registration order.  A run's nodes are the *)
(* live systems of StartRun; every other system is treated like a node an  *)
(* interval skips, exhausted, complete and released from the beginning,    *)
(* which is how the code's UINT32_MAX entries of system_to_node behave.    *)
(* The ready ring is a set: a call of ecs_worker_take examines every ready *)
(* node, so only the order in which it meets them is abstracted.  What a   *)
(* callback does is abstracted to the portions that leave commands behind  *)
(* and to the changes it makes to what the plan is built from.             *)
(*                                                                         *)
(* The definitions no other one uses (ConflictOfDataOnly, FirstIncomplete  *)
(* and the like) are seeded defects: each stands just before the operator  *)
(* it would replace, and a property is known to refute it.                 *)
(***************************************************************************)
EXTENDS Integers, FiniteSets

CONSTANTS
  Main,               \* the thread that calls ecs_progress and ecs_run_system
  Workers,            \* the worker threads; {} is the serial build of the pool
  NumSystems,         \* number of systems registered in the phase
  MainOnly,           \* systems with main_thread_only
  Parallel,           \* systems with parallel portions
  After,              \* explicit .after edges, as pairs <<before, after>>
  AccessConflicts,    \* pairs of systems whose access terms may conflict
  MaxPortions,        \* bound: portions of a parallel system in one run
  BatchSize,          \* ECS_WORKER_BATCH_SIZE
  MaxRuns,            \* bound: runs started
  MaxChanges,         \* bound: changes of enablement or of access conflicts
  ExclusiveMayEnable, \* may an exclusive callback enable a disabled system?
  SpuriousWakeups     \* may a condition wait return without a signal?

Systems == 1..NumSystems
Threads == Workers \cup {Main}
Earlier == {p \in Systems \X Systems : p[1] < p[2]}

ASSUME ConstantsAssumption ==
  /\ NumSystems \in Nat \ {0}
  /\ Main \notin Workers
  /\ IsFiniteSet(Workers)
  /\ MainOnly \subseteq Systems
  /\ Parallel \subseteq Systems
  /\ MainOnly \cap Parallel = {}        \* ecs_system_init refuses the pair
  /\ After \subseteq Earlier
  /\ AccessConflicts \subseteq Earlier
  /\ MaxPortions \in Nat /\ BatchSize \in Nat \ {0}
  /\ MaxRuns \in Nat /\ MaxChanges \in Nat
  /\ ExclusiveMayEnable \in BOOLEAN /\ SpuriousWakeups \in BOOLEAN

VARIABLES
  \* what the plan is built from, and the plan
  enabled,    \* systems with sys->enabled
  conflicts,  \* access conflicts under the present tables and field kinds
  planDirty,  \* system_index.plan_dirty
  edges,      \* phase dependencies and successors, as last built
  \* nodes of the run
  pending, running, left, issued, jobs,
  started, exhausted, complete, released,
  \* the pool
  ready, cursor, active,
  inRun, draining, publishing, forced, allocating, stop,
  \* threads
  pc, batch,
  \* history and bounds
  published, runs, changes

planVars  == <<enabled, conflicts, planDirty>>
nodeCount == <<pending, running, left, issued, jobs>>
nodeFlags == <<started, exhausted, complete, released>>
poolFlags == <<inRun, publishing, forced, allocating, stop>>
history   == <<published, runs, changes>>
vars == <<enabled, conflicts, planDirty, edges, pending, running, left, issued,
          jobs, started, exhausted, complete, released, ready, cursor, active,
          inRun, draining, publishing, forced, allocating, stop, pc, batch,
          published, runs, changes>>

Ordinals == 0..MaxPortions
NoBatch  == [node |-> 0, ordinals |-> {}]
Batches  == [node : 0..NumSystems, ordinals : SUBSET Ordinals]
PcValues == {"idle", "lock", "loop", "take", "exec", "exclusive", "finish",
             "publish", "wait", "join", "done"}

Init ==
  /\ enabled \in SUBSET Systems
  /\ conflicts \in SUBSET AccessConflicts
  /\ planDirty = TRUE
  /\ edges = {}
  /\ pending = [n \in Systems |-> 0]
  /\ running = [n \in Systems |-> 0]
  /\ left = [n \in Systems |-> 0]
  /\ issued = [n \in Systems |-> 0]
  /\ jobs = [n \in Systems |-> {}]
  /\ started = {} /\ exhausted = {} /\ complete = {} /\ released = {}
  /\ ready = {} /\ cursor = 1 /\ active = 0
  /\ inRun = FALSE /\ draining = FALSE /\ publishing = FALSE
  /\ forced = FALSE /\ allocating = FALSE /\ stop = FALSE
  /\ pc = [t \in Threads |-> IF t = Main THEN "idle" ELSE "lock"]
  /\ batch = [t \in Threads |-> NoBatch]
  /\ published = <<0, 0>> /\ runs = 0 /\ changes = 0

-----------------------------------------------------------------------------
(* The mutex is held by the thread inside ecs_worker_take or the run loop. *)
MutexFree == \A t \in Threads : pc[t] \notin {"loop", "take"}

(* Condition variables: k signals wake k waiters, or all when there are    *)
(* fewer; only the calling thread waits on completion_condition.           *)
Waiting == {t \in Threads : pc[t] = "wait"}
WokenBy(k) ==
  LET idle == Waiting \cap Workers
  IN  {W \in SUBSET idle :
         \/ Cardinality(W) = k
         \/ W = idle /\ Cardinality(idle) < k}
LostCompletionSignal == {}
WaitingCaller == Waiting \cap {Main}
GoTo(t, at, woken) ==
  pc' = [u \in Threads |-> IF u = t THEN at
                           ELSE IF u \in woken THEN "lock" ELSE pc[u]]

Executing == {t \in Threads : pc[t] \in {"exec", "exclusive"}}
NodeOf(t) == batch[t].node

(* A context whose commands wait for publication, against one that flushes *)
(* them in place when the callback returns.                                *)
Deferred(n) ==
  n \notin MainOnly /\ (n \in Parallel \/ (Workers # {} /\ ~forced))

(* ecs_worker_reservations(begin) leaves the flag alone for serial and     *)
(* forced runs.                                                            *)
Reserving == Workers # {} /\ ~forced

-----------------------------------------------------------------------------
(* The plan: registration order between conflicting enabled systems.       *)
ConflictOfDataOnly(a, b) == <<a, b>> \in conflicts
Conflict(a, b) == a \in MainOnly \/ b \in MainOnly \/ <<a, b>> \in conflicts
PlanWithoutAfter ==
  {p \in Earlier : p[1] \in enabled /\ p[2] \in enabled /\ Conflict(p[1], p[2])}
PlanEdges ==
  {p \in Earlier : /\ p[1] \in enabled /\ p[2] \in enabled
                   /\ Conflict(p[1], p[2]) \/ p \in After}

(* ecs_worker_dependencies, for the node flags the caller has just left.   *)
Unreleased(n, plan, freed) == {m \in Systems : <<m, n>> \in plan /\ m \notin freed}
Dependencies(begun, spent, freed) ==
  LET plan == IF planDirty THEN PlanEdges ELSE edges
      count == [n \in Systems |->
                  IF n \in begun THEN 0 ELSE Cardinality(Unreleased(n, plan, freed))]
  IN  /\ edges' = plan
      /\ planDirty' = FALSE
      /\ pending' = count
      /\ ready' = IF Workers = {} THEN {}
                  ELSE {n \in Systems \ spent : count[n] = 0}

(* ecs_worker_advance: the cursor passes the completed nodes that leave no *)
(* commands, and stops for publication at one that does.                   *)
FirstIncomplete(from, c, done, stored) ==
  /\ \A n \in Systems : from <= n /\ n < c => n \in done
  /\ c \in Systems => c \notin done
FirstBlocked(from, c, done, stored) ==
  /\ \A n \in Systems : from <= n /\ n < c => n \in done /\ stored[n] = {}
  /\ c \in Systems => c \notin done \/ stored[c] # {}
AdvanceTooFar(from, done, stored, drain) ==
  \E c \in from..(NumSystems + 2) :
    FirstBlocked(from, c, done, stored) /\ cursor' = c /\ draining' = (drain \/ c \in done)
Advance(from, done, stored, drain) ==
  \E c \in from..(NumSystems + 1) :
    /\ FirstBlocked(from, c, done, stored)
    /\ cursor' = c
    /\ draining' = (drain \/ c \in done)

(* ecs_worker_release: what the successors of n still wait for, and the    *)
(* ones it enqueues (each with a signal of its own).                       *)
Successors(n) == {m \in Systems : <<n, m>> \in edges /\ m \notin started /\ pending[m] > 0}
EnqueuedWhilePending(S) == {m \in S : m \notin exhausted /\ m \notin ready}
Enqueued(S) == IF Workers = {} THEN {}
               ELSE {m \in S : pending[m] = 1 /\ m \notin exhausted /\ m \notin ready}

(* ecs_worker_complete of an exhausted node n with no portion running.     *)
Complete(n, stored, queue, drain, t, at) ==
  LET freed == IF stored[n] = {} THEN Successors(n) ELSE {}
      fresh == Enqueued(freed)
  IN  /\ complete' = complete \cup {n}
      /\ released' = IF stored[n] = {} THEN released \cup {n} ELSE released
      /\ pending' = [m \in Systems |-> IF m \in freed THEN pending[m] - 1 ELSE pending[m]]
      /\ ready' = queue \cup fresh
      /\ Advance(cursor, complete \cup {n}, stored, drain)
      /\ \E W \in WokenBy(Cardinality(fresh)) : GoTo(t, at, W \cup WaitingCaller)

-----------------------------------------------------------------------------
(* Changes to what the plan is built from, by the code that runs outside   *)
(* the scheduler's own steps: between runs, in an exclusive callback, in a *)
(* callback that flushes in place, in the hooks of a publication.          *)
MayChange ==
  \/ pc[Main] \in {"idle", "publish", "exclusive"}
  \/ pc[Main] = "exec" /\ NodeOf(Main) \notin MainOnly /\ ~Deferred(NodeOf(Main))

Toggle(n) ==
  /\ MayChange /\ changes < MaxChanges
  /\ \/ n \in enabled
     \/ ExclusiveMayEnable
     \/ pc[Main] # "exclusive"
     \/ ~Reserving
  /\ enabled' = IF n \in enabled THEN enabled \ {n} ELSE enabled \cup {n}
  /\ planDirty' = TRUE
  /\ changes' = changes + 1
  /\ UNCHANGED <<conflicts, edges, nodeCount, nodeFlags, ready, cursor, active,
                 draining, poolFlags, pc, batch, published, runs>>

Retable ==
  /\ MayChange /\ changes < MaxChanges
  /\ conflicts' \in SUBSET AccessConflicts
  /\ planDirty' = TRUE
  /\ changes' = changes + 1
  /\ UNCHANGED <<enabled, edges, nodeCount, nodeFlags, ready, cursor, active,
                 draining, poolFlags, pc, batch, published, runs>>

-----------------------------------------------------------------------------
(* ecs_worker_pool_run, from its entry to the first look at the loop test. *)
StartRun(live, byHand) ==
  /\ pc[Main] = "idle" /\ MutexFree /\ ~stop /\ runs < MaxRuns
  /\ enabled # {} /\ live \subseteq enabled
  /\ byHand => \E n \in enabled : live = {n}
  /\ forced' = byHand
  /\ started' = {}
  /\ exhausted' = Systems \ live
  /\ complete' = Systems \ live
  /\ released' = Systems \ live
  /\ running' = [n \in Systems |-> 0]
  /\ left' = [n \in Systems |-> 0]
  /\ issued' = [n \in Systems |-> 0]
  /\ Dependencies({}, Systems \ live, Systems \ live)
  /\ allocating' = (Workers # {} /\ ~byHand)
  /\ inRun' = TRUE
  /\ Advance(1, Systems \ live, jobs, FALSE)
  /\ GoTo(Main, "loop", Waiting)
  /\ published' = <<0, 0>>
  /\ runs' = runs + 1
  /\ UNCHANGED <<enabled, conflicts, jobs, active, publishing, stop, batch, changes>>

LockIgnoringStop(t) ==
  /\ pc[t] = "lock" /\ MutexFree
  /\ GoTo(t, IF t = Main THEN "loop" ELSE "take", {})
  /\ UNCHANGED <<planVars, edges, nodeCount, nodeFlags, ready, cursor, active,
                 draining, poolFlags, batch, history>>
(* A thread that wants the mutex gets it; a worker leaves once stop is set.*)
Lock(t) ==
  /\ pc[t] = "lock" /\ MutexFree
  /\ GoTo(t, IF t = Main THEN "loop" ELSE IF stop THEN "done" ELSE "take", {})
  /\ UNCHANGED <<planVars, edges, nodeCount, nodeFlags, ready, cursor, active,
                 draining, poolFlags, batch, history>>

SpuriousWake(t) ==
  /\ SpuriousWakeups /\ pc[t] = "wait"
  /\ GoTo(t, "lock", {})
  /\ UNCHANGED <<planVars, edges, nodeCount, nodeFlags, ready, cursor, active,
                 draining, poolFlags, batch, history>>

-----------------------------------------------------------------------------
(* ecs_worker_take: the loop runs under the mutex, so a thread at "take"   *)
(* examines candidates until it claims a batch or none is left for it.     *)
TakeAllowed(t) == inRun /\ ~publishing /\ (t = Main \/ ~forced)
Candidates == IF Workers = {} THEN Systems \cap {cursor} ELSE ready
EligibleDuringDrain(t, n) == n \notin MainOnly \/ t = Main
Eligible(t, n) ==
  /\ ~draining \/ n \in started
  /\ n \notin MainOnly \/ t = Main

(* Portions left of n when it is popped: those of a parallel system are    *)
(* counted by its first claim, no table changing before they are spent.    *)
Portions(n) == IF n \in started THEN {left[n]}
               ELSE IF n \in Parallel THEN 0..MaxPortions ELSE {1}

(* A popped node that is disabled, or whose tables have no row left.       *)
TakeExhausted(t, n) ==
  /\ pc[t] = "take" /\ TakeAllowed(t)
  /\ n \in Candidates /\ Eligible(t, n)
  /\ n \notin enabled \/ 0 \in Portions(n)
  /\ started' = started \cup {n}
  /\ exhausted' = exhausted \cup {n}
  /\ left' = [left EXCEPT ![n] = 0]
  /\ IF running[n] = 0
     THEN Complete(n, jobs, ready \ {n}, draining, t, "take")
     ELSE /\ ready' = ready \ {n}
          /\ UNCHANGED <<complete, released, pending, cursor, draining, pc>>
  /\ UNCHANGED <<planVars, edges, running, issued, jobs, active, poolFlags,
                 batch, history>>

(* The claim of up to BatchSize portions of one system.                    *)
TakeBatch(t, n) ==
  /\ pc[t] = "take" /\ TakeAllowed(t)
  /\ n \in Candidates /\ Eligible(t, n) /\ n \in enabled
  /\ \E rest \in Portions(n) : \E k \in 1..BatchSize :
       /\ k <= rest
       /\ left' = [left EXCEPT ![n] = rest - k]
       /\ issued' = [issued EXCEPT ![n] = @ + k]
       /\ batch' = [batch EXCEPT ![t] = [node |-> n,
                      ordinals |-> {o \in Ordinals : issued[n] <= o /\ o < issued[n] + k}]]
       /\ exhausted' = IF k = rest THEN exhausted \cup {n} ELSE exhausted
       /\ ready' = IF k = rest THEN ready \ {n} ELSE ready
       /\ \E W \in WokenBy(IF k < rest /\ Workers # {} THEN 1 ELSE 0) : GoTo(t, "exec", W)
  /\ started' = started \cup {n}
  /\ running' = [running EXCEPT ![n] = @ + 1]
  /\ active' = active + 1
  /\ UNCHANGED <<planVars, edges, pending, jobs, complete, released, cursor,
                 draining, poolFlags, history>>

(* Nothing to take: a worker waits for work, the calling thread for a      *)
(* completion unless the loop has something else for it to do.             *)
QuiescentButOne == active <= 1
Quiescent == active = 0 /\ started \subseteq complete
TakeNothing(t) ==
  /\ pc[t] = "take"
  /\ ~TakeAllowed(t) \/ \A n \in Candidates : ~Eligible(t, n)
  /\ GoTo(t, IF t = Main /\ (cursor > NumSystems \/ (draining /\ Quiescent))
             THEN "loop" ELSE "wait", {})
  /\ UNCHANGED <<planVars, edges, nodeCount, nodeFlags, ready, cursor, active,
                 draining, poolFlags, batch, history>>

-----------------------------------------------------------------------------
(* ecs_worker_execute.  An exclusive callback runs with the reservations   *)
(* returned; the other callbacks run from the claim to Finish.             *)
ExclusiveBegin(t) ==
  /\ pc[t] = "exec" /\ NodeOf(t) \in MainOnly
  /\ allocating' = FALSE
  /\ GoTo(t, "exclusive", {})
  /\ UNCHANGED <<planVars, edges, nodeCount, nodeFlags, ready, cursor, active,
                 draining, inRun, publishing, forced, stop, batch, history>>

ExclusiveEnd(t) ==
  /\ pc[t] = "exclusive"
  /\ allocating' = Reserving
  /\ GoTo(t, "finish", {})
  /\ UNCHANGED <<planVars, edges, nodeCount, nodeFlags, ready, cursor, active,
                 draining, inRun, publishing, forced, stop, batch, history>>

(* Under the mutex again: the portions of the batch that deferred commands *)
(* are stored by ordinal, and the node may be complete.                    *)
Finish(t, n, wrote) ==
  /\ pc[t] = "finish" \/ (pc[t] = "exec" /\ n \notin MainOnly)
  /\ MutexFree /\ n = NodeOf(t)
  /\ wrote \subseteq batch[t].ordinals
  /\ Deferred(n) \/ wrote = {}
  /\ jobs' = [jobs EXCEPT ![n] = @ \cup wrote]
  /\ running' = [running EXCEPT ![n] = @ - 1]
  /\ active' = active - 1
  /\ batch' = [batch EXCEPT ![t] = NoBatch]
  /\ LET drain == draining \/ (n \in MainOnly /\ planDirty)
     IN  IF n \in exhausted /\ running[n] = 1
         THEN Complete(n, jobs', ready, drain, t, "lock")
         ELSE /\ draining' = drain
              /\ GoTo(t, "lock", WaitingCaller)
              /\ UNCHANGED <<complete, released, pending, ready, cursor>>
  /\ UNCHANGED <<planVars, edges, left, issued, started, exhausted, poolFlags, history>>

-----------------------------------------------------------------------------
(* The calling thread's loop, holding the mutex.                           *)
LoopTake ==
  /\ pc[Main] = "loop" /\ cursor <= NumSystems
  /\ ~(draining /\ Quiescent)
  /\ GoTo(Main, "take", {})
  /\ UNCHANGED <<planVars, edges, nodeCount, nodeFlags, ready, cursor, active,
                 draining, poolFlags, batch, history>>

PublishBegin ==
  /\ pc[Main] = "loop" /\ cursor <= NumSystems
  /\ draining /\ Quiescent
  /\ publishing' = TRUE
  /\ allocating' = FALSE
  /\ GoTo(Main, "publish", {})
  /\ UNCHANGED <<planVars, edges, nodeCount, nodeFlags, ready, cursor, active,
                 draining, inRun, forced, stop, batch, history>>

(* ecs_worker_publish, one job at a time and without the mutex: a node's   *)
(* jobs in ordinal order, then its release.                                *)
PublishJob(o) ==
  /\ pc[Main] = "publish" /\ cursor \in complete
  /\ o \in jobs[cursor] /\ \A other \in jobs[cursor] : o <= other
  /\ jobs' = [jobs EXCEPT ![cursor] = @ \ {o}]
  /\ published' = <<cursor, o>>
  /\ UNCHANGED <<planVars, edges, pending, running, left, issued, nodeFlags, ready,
                 cursor, active, draining, poolFlags, pc, batch, runs, changes>>

PublishNode ==
  /\ pc[Main] = "publish" /\ cursor \in complete /\ jobs[cursor] = {}
  /\ released' = released \cup {cursor}
  /\ cursor' = cursor + 1
  /\ UNCHANGED <<planVars, edges, nodeCount, started, exhausted, complete, ready,
                 active, draining, poolFlags, pc, batch, history>>

PublishEnd ==
  /\ pc[Main] = "publish" /\ cursor \notin complete /\ MutexFree
  /\ publishing' = FALSE
  /\ allocating' = Reserving
  /\ Dependencies(started, exhausted, released)
  /\ Advance(cursor, complete, jobs, FALSE)
  /\ GoTo(Main, "loop", Waiting)
  /\ UNCHANGED <<enabled, conflicts, running, left, issued, jobs, nodeFlags, active,
                 inRun, forced, stop, batch, history>>

LoopEnd ==
  /\ pc[Main] = "loop" /\ cursor > NumSystems
  /\ allocating' = FALSE
  /\ inRun' = FALSE
  /\ GoTo(Main, "idle", {})
  /\ UNCHANGED <<planVars, edges, nodeCount, nodeFlags, ready, cursor, active,
                 draining, publishing, forced, stop, batch, history>>

-----------------------------------------------------------------------------
(* ecs_worker_pool_fini: stop, wake every worker, join them.               *)
Stop ==
  /\ pc[Main] = "idle" /\ MutexFree
  /\ stop' = TRUE
  /\ GoTo(Main, "join", Waiting)
  /\ UNCHANGED <<planVars, edges, nodeCount, nodeFlags, ready, cursor, active,
                 draining, inRun, publishing, forced, allocating, batch, history>>

Join ==
  /\ pc[Main] = "join" /\ \A w \in Workers : pc[w] = "done"
  /\ GoTo(Main, "done", {})
  /\ UNCHANGED <<planVars, edges, nodeCount, nodeFlags, ready, cursor, active,
                 draining, poolFlags, batch, history>>

Terminated ==
  /\ \A t \in Threads : pc[t] = "done"
  /\ UNCHANGED vars

-----------------------------------------------------------------------------
WorldStep == Retable \/ \E n \in Systems : Toggle(n)
ThreadStep(t) ==
  \/ Lock(t)
  \/ \E n \in Systems : TakeExhausted(t, n) \/ TakeBatch(t, n)
  \/ TakeNothing(t)
  \/ ExclusiveBegin(t)
  \/ ExclusiveEnd(t)
  \/ \E n \in Systems, wrote \in SUBSET Ordinals : Finish(t, n, wrote)
CallerStep ==
  \/ ThreadStep(Main)
  \/ LoopTake
  \/ PublishBegin
  \/ \E o \in Ordinals : PublishJob(o)
  \/ PublishNode
  \/ PublishEnd
  \/ LoopEnd
  \/ Join
Next ==
  \/ \E live \in SUBSET Systems, byHand \in BOOLEAN : StartRun(live, byHand)
  \/ WorldStep
  \/ CallerStep
  \/ \E w \in Workers : ThreadStep(w)
  \/ \E t \in Threads : SpuriousWake(t)
  \/ Stop
  \/ Terminated

(* The operating system runs every thread that can run, and callbacks      *)
(* return; nothing obliges the program to start a run or to stop.          *)
Fairness == WF_vars(CallerStep) /\ \A w \in Workers : WF_vars(ThreadStep(w))
Spec == Init /\ [][Next]_vars
FairSpec == Spec /\ Fairness

-----------------------------------------------------------------------------
TypeOK ==
  /\ enabled \in SUBSET Systems /\ conflicts \in SUBSET AccessConflicts
  /\ planDirty \in BOOLEAN /\ edges \in SUBSET Earlier
  /\ pending \in [Systems -> Nat] /\ running \in [Systems -> Int]
  /\ left \in [Systems -> Nat] /\ issued \in [Systems -> Nat]
  /\ jobs \in [Systems -> SUBSET Ordinals]
  /\ started \in SUBSET Systems /\ exhausted \in SUBSET Systems
  /\ complete \in SUBSET Systems /\ released \in SUBSET Systems
  /\ ready \in SUBSET Systems /\ cursor \in 1..(NumSystems + 1) /\ active \in Int
  /\ inRun \in BOOLEAN /\ draining \in BOOLEAN /\ publishing \in BOOLEAN
  /\ forced \in BOOLEAN /\ allocating \in BOOLEAN /\ stop \in BOOLEAN
  /\ pc \in [Threads -> PcValues] /\ batch \in [Threads -> Batches]
  /\ published \in (0..NumSystems) \X Ordinals
  /\ runs \in 0..MaxRuns /\ changes \in 0..MaxChanges
-----------------------------------------------------------------------------
(* No two callbacks run at once unless their systems may: the same system  *)
(* only with parallel portions, two systems only without a data conflict,  *)
(* an .after edge or main_thread_only between them (ecs_system_conflict).  *)
NoConflictingCallbacks ==
  \A t, u \in Executing : t # u =>
    LET a == NodeOf(t)
        b == NodeOf(u)
    IN  IF a = b THEN a \in Parallel
        ELSE ~Conflict(a, b) /\ ~Conflict(b, a) /\ {<<a, b>>, <<b, a>>} \cap After = {}

(* What siecs.h:1695 promises of main_thread_only: while such a callback   *)
(* runs, no other callback does.                                           *)
MainOnlyIsExclusive ==
  pc[Main] = "exclusive" => Executing = {Main}

(* Reserved entity ids are returned only while nobody can be reserving:    *)
(* entity_index.c requires quiescence of ecs_entity_index_return, and a    *)
(* worker's callback always runs inside an open reservation window.        *)
ReservationQuiescence ==
  /\ pc[Main] \in {"exclusive", "publish"} => Executing \subseteq {Main}
  /\ Executing \cap Workers # {} => allocating

(* A system starts only when every enabled system that precedes it and     *)
(* conflicts with it, or is in its .after list, has finished all its       *)
(* portions and has had all its commands published.                        *)
StartsAfterPrerequisites ==
  [][\A n \in (started' \ started) \cap enabled : \A m \in enabled :
       m < n /\ (Conflict(m, n) \/ <<m, n>> \in After) =>
         m \in complete /\ running[m] = 0 /\ jobs[m] = {}]_vars

(* Commands are published in registration order and then portion order,    *)
(* whichever worker ran them, and only once every earlier system of the    *)
(* run is complete and has nothing left to publish.                        *)
PublicationInOrder ==
  [][published' # published /\ published' # <<0, 0>> =>
       /\ \/ published[1] < published'[1]
          \/ published[1] = published'[1] /\ published[2] < published'[2]
       /\ \A m \in Systems : m < published'[1] => m \in complete /\ jobs[m] = {}
       /\ Executing = {}]_vars

(* A run ends with every node complete, every command published and no     *)
(* callback active (the fatal check after the loop never fires).           *)
RunFinished ==
  (pc[Main] = "loop" /\ cursor > NumSystems) \/ (pc[Main] = "idle" /\ runs > 0) =>
    /\ complete = Systems
    /\ \A n \in Systems : jobs[n] = {} /\ running[n] = 0
    /\ active = 0 /\ Executing = {}

(* The pending counter of a node that has not started is the number of its *)
(* predecessors still unreleased, through releases by workers, drains and  *)
(* rebuilt plans; it is what keeps such a node out of the ready ring.      *)
PendingCounts ==
  inRun /\ ~publishing =>
    \A n \in Systems \ started :
      /\ pending[n] = Cardinality(Unreleased(n, edges, released))
      /\ n \in ready => pending[n] = 0
      /\ n \notin exhausted /\ Workers # {} /\ pending[n] = 0 => n \in ready

(* Every run that starts ends: no lost wakeup, no drain that waits for     *)
(* itself.                                                                 *)
RunTerminates == inRun ~> ~inRun

(* ecs_worker_pool_fini returns: every worker sees stop and is joined.     *)
ShutdownJoins == stop ~> \A t \in Threads : pc[t] = "done"
=============================================================================
