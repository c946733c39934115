--------------------------- MODULE SchedulerProofs ---------------------------
(***************************************************************************)
(* What Scheduler guarantees for every number of systems, workers, runs    *)
(* and changes.                                                            *)
(***************************************************************************)
EXTENDS Scheduler, FiniteSetTheorems, TLAPS

(* There are finitely many systems.                                        *)
LEMMA SystemsFinite == IsFiniteSet(Systems)
  BY FS_Interval, ConstantsAssumption DEF Systems, ConstantsAssumption

(* There are finitely many threads.                                        *)
LEMMA ThreadsFinite == IsFiniteSet(Threads)
  BY FS_AddElement, ConstantsAssumption DEF Threads, ConstantsAssumption

(* Moving one thread and waking others keeps pc well typed.                *)
LEMMA GoToTyped ==
  ASSUME pc \in [Threads -> PcValues],
         NEW t \in Threads, NEW at \in PcValues, NEW woken, GoTo(t, at, woken)
  PROVE  pc' \in [Threads -> PcValues]
  BY DEF GoTo, PcValues

(* The number of predecessors of a node that are still unreleased.         *)
LEMMA UnreleasedFinite ==
  ASSUME NEW n, NEW plan, NEW freed
  PROVE  /\ IsFiniteSet(Unreleased(n, plan, freed))
         /\ Cardinality(Unreleased(n, plan, freed)) \in Nat
<1>1. Unreleased(n, plan, freed) \in SUBSET Systems
  BY DEF Unreleased
<1>2. IsFiniteSet(Unreleased(n, plan, freed))
  BY <1>1, SystemsFinite, FS_Subset
<1>3. QED
  BY <1>2, FS_CardinalityType

(* ecs_worker_dependencies leaves a well-typed plan, counters and queue.   *)
LEMMA DependenciesTyped ==
  ASSUME TypeOK, NEW begun, NEW spent, NEW freed, Dependencies(begun, spent, freed)
  PROVE  /\ edges' \in SUBSET Earlier
         /\ planDirty' \in BOOLEAN
         /\ pending' \in [Systems -> Nat]
         /\ ready' \in SUBSET Systems
<1> DEFINE plan == IF planDirty THEN PlanEdges ELSE edges
           count == [n \in Systems |->
                      IF n \in begun THEN 0 ELSE Cardinality(Unreleased(n, plan, freed))]
<1>1. plan \in SUBSET Earlier
  BY DEF TypeOK, PlanEdges
<1>2. count \in [Systems -> Nat]
  BY UnreleasedFinite
<1>3. edges' = plan /\ planDirty' = FALSE /\ pending' = count
  BY DEF Dependencies
<1>4. ready' \in SUBSET Systems
  BY DEF Dependencies
<1> HIDE DEF plan, count
<1>5. QED
  BY <1>1, <1>2, <1>3, <1>4

(* ecs_worker_complete changes only well-typed things.                     *)
LEMMA CompleteTyped ==
  ASSUME TypeOK, NEW n \in Systems, NEW stored, NEW queue \in SUBSET Systems,
         NEW drain \in BOOLEAN, NEW t \in Threads, NEW at \in PcValues,
         Complete(n, stored, queue, drain, t, at)
  PROVE  /\ complete' \in SUBSET Systems /\ released' \in SUBSET Systems
         /\ pending' \in [Systems -> Nat] /\ ready' \in SUBSET Systems
         /\ cursor' \in 1..(NumSystems + 1) /\ draining' \in BOOLEAN
         /\ pc' \in [Threads -> PcValues]
<1>1. complete' \in SUBSET Systems /\ released' \in SUBSET Systems
  BY DEF Complete, TypeOK
<1>2. pending' \in [Systems -> Nat]
  BY DEF Complete, TypeOK, Successors
<1>3. ready' \in SUBSET Systems
  BY DEF Complete, TypeOK, Enqueued, Successors
<1>4. cursor' \in 1..(NumSystems + 1) /\ draining' \in BOOLEAN
  BY ConstantsAssumption DEF ConstantsAssumption, Complete, TypeOK, Advance
<1>5. pc' \in [Threads -> PcValues]
  BY GoToTyped DEF Complete, TypeOK
<1>6. QED
  BY <1>1, <1>2, <1>3, <1>4, <1>5

(* The types hold at the start.                                            *)
LEMMA TypeInit == Init => TypeOK
<1> SUFFICES ASSUME Init PROVE TypeOK
  OBVIOUS
<1> USE ConstantsAssumption DEF ConstantsAssumption
<1>1. pc \in [Threads -> PcValues] /\ batch \in [Threads -> Batches]
  BY DEF Init, PcValues, Batches, NoBatch
<1>2. /\ published \in (0..NumSystems) \X Ordinals
      /\ runs \in 0..MaxRuns /\ changes \in 0..MaxChanges
  BY DEF Init, Ordinals
<1>3. /\ enabled \in SUBSET Systems /\ conflicts \in SUBSET AccessConflicts
      /\ edges \in SUBSET Earlier
  BY DEF Init
<1>4. /\ pending \in [Systems -> Nat] /\ running \in [Systems -> Int]
      /\ left \in [Systems -> Nat] /\ issued \in [Systems -> Nat]
      /\ jobs \in [Systems -> SUBSET Ordinals]
  BY DEF Init
<1>5. cursor \in 1..(NumSystems + 1) /\ active \in Int
  BY DEF Init
<1>6. /\ started \in SUBSET Systems /\ exhausted \in SUBSET Systems
      /\ complete \in SUBSET Systems /\ released \in SUBSET Systems /\ ready \in SUBSET Systems
      /\ planDirty \in BOOLEAN /\ inRun \in BOOLEAN /\ draining \in BOOLEAN
      /\ publishing \in BOOLEAN /\ forced \in BOOLEAN /\ allocating \in BOOLEAN
      /\ stop \in BOOLEAN
  BY DEF Init
<1>7. QED
  BY <1>1, <1>2, <1>3, <1>4, <1>5, <1>6 DEF TypeOK

(* The types are inductive, action by action.                              *)
LEMMA TypeStep == TypeOK /\ [Next]_vars => TypeOK'
<1> SUFFICES ASSUME TypeOK, [Next]_vars PROVE TypeOK'
  OBVIOUS
<1> USE ConstantsAssumption DEF ConstantsAssumption
<1>1. ASSUME NEW live \in SUBSET Systems, NEW byHand \in BOOLEAN, StartRun(live, byHand)
      PROVE  TypeOK'
  <2>1. /\ edges' \in SUBSET Earlier /\ planDirty' \in BOOLEAN
        /\ pending' \in [Systems -> Nat] /\ ready' \in SUBSET Systems
    BY <1>1, DependenciesTyped DEF StartRun
  <2>2. cursor' \in 1..(NumSystems + 1) /\ draining' \in BOOLEAN
    BY <1>1 DEF StartRun, Advance
  <2>3. pc' \in [Threads -> PcValues]
    BY <1>1, GoToTyped DEF StartRun, TypeOK, PcValues, Threads
  <2>4. published' \in (0..NumSystems) \X Ordinals /\ runs' \in 0..MaxRuns
    BY <1>1 DEF StartRun, TypeOK, Ordinals
  <2>5. /\ running' \in [Systems -> Int] /\ left' \in [Systems -> Nat]
        /\ issued' \in [Systems -> Nat]
    BY <1>1 DEF StartRun
  <2>6. /\ started' \in SUBSET Systems /\ exhausted' \in SUBSET Systems
        /\ complete' \in SUBSET Systems /\ released' \in SUBSET Systems
        /\ forced' \in BOOLEAN /\ allocating' \in BOOLEAN /\ inRun' \in BOOLEAN
    BY <1>1 DEF StartRun
  <2>7. UNCHANGED <<enabled, conflicts, jobs, active, publishing, stop, batch, changes>>
    BY <1>1 DEF StartRun
  <2>8. QED
    BY <2>1, <2>2, <2>3, <2>4, <2>5, <2>6, <2>7 DEF TypeOK
<1>2. CASE WorldStep
  <2>1. changes' \in 0..MaxChanges
    BY <1>2 DEF WorldStep, Toggle, Retable, TypeOK
  <2>2. enabled' \in SUBSET Systems /\ conflicts' \in SUBSET AccessConflicts
    BY <1>2 DEF WorldStep, Toggle, Retable, TypeOK
  <2>3. planDirty' = TRUE /\ UNCHANGED <<edges, pending, running, left, issued, jobs,
          started, exhausted, complete, released, ready, cursor, active, inRun, draining,
          publishing, forced, allocating, stop, pc, batch, published, runs>>
    BY <1>2 DEF WorldStep, Toggle, Retable, nodeCount, nodeFlags, poolFlags
  <2>4. QED
    BY <2>1, <2>2, <2>3 DEF TypeOK
<1>3. ASSUME NEW t \in Threads, Lock(t) \/ SpuriousWake(t) \/ TakeNothing(t)
      PROVE  TypeOK'
  <2>1. pc' \in [Threads -> PcValues]
    BY <1>3, GoToTyped DEF Lock, SpuriousWake, TakeNothing, TypeOK, PcValues
  <2>2. QED
    BY <1>3, <2>1 DEF Lock, SpuriousWake, TakeNothing, TypeOK, planVars, nodeCount,
                      nodeFlags, poolFlags, history
<1>4. ASSUME NEW t \in Threads, NEW n \in Systems, TakeExhausted(t, n)
      PROVE  TypeOK'
  <2>1. /\ complete' \in SUBSET Systems /\ released' \in SUBSET Systems
        /\ pending' \in [Systems -> Nat] /\ ready' \in SUBSET Systems
        /\ cursor' \in 1..(NumSystems + 1) /\ draining' \in BOOLEAN
        /\ pc' \in [Threads -> PcValues]
    <3>1. CASE running[n] = 0
      <4>1. Complete(n, jobs, ready \ {n}, draining, t, "take")
        BY <1>4, <3>1 DEF TakeExhausted
      <4>2. "take" \in PcValues /\ ready \ {n} \in SUBSET Systems /\ draining \in BOOLEAN
        BY DEF PcValues, TypeOK
      <4>3. QED
        BY <4>1, <4>2, CompleteTyped
    <3>2. CASE running[n] # 0
      BY <1>4, <3>2 DEF TakeExhausted, TypeOK
    <3>3. QED
      BY <3>1, <3>2
  <2>2. QED
    BY <1>4, <2>1 DEF TakeExhausted, TypeOK, planVars, poolFlags, history
<1>5. ASSUME NEW t \in Threads, NEW n \in Systems, TakeBatch(t, n)
      PROVE  TypeOK'
  <2>1. PICK rest \in Portions(n), k \in 1..BatchSize :
          /\ k <= rest
          /\ left' = [left EXCEPT ![n] = rest - k]
          /\ issued' = [issued EXCEPT ![n] = @ + k]
          /\ batch' = [batch EXCEPT ![t] = [node |-> n,
               ordinals |-> {o \in Ordinals : issued[n] <= o /\ o < issued[n] + k}]]
          /\ exhausted' = IF k = rest THEN exhausted \cup {n} ELSE exhausted
          /\ ready' = IF k = rest THEN ready \ {n} ELSE ready
          /\ \E W \in WokenBy(IF k < rest /\ Workers # {} THEN 1 ELSE 0) : GoTo(t, "exec", W)
    BY <1>5 DEF TakeBatch
  <2>2. rest \in Nat /\ k \in Nat
    BY DEF Portions, TypeOK
  <2>3. left' \in [Systems -> Nat] /\ issued' \in [Systems -> Nat]
    BY <2>1, <2>2 DEF TypeOK
  <2>4. batch' \in [Threads -> Batches]
    BY <2>1 DEF TypeOK, Batches, Systems
  <2>5. pc' \in [Threads -> PcValues]
    BY <2>1, GoToTyped DEF TypeOK, PcValues
  <2>6. running' \in [Systems -> Int] /\ active' \in Int /\ started' \in SUBSET Systems
    BY <1>5 DEF TakeBatch, TypeOK
  <2>7. exhausted' \in SUBSET Systems /\ ready' \in SUBSET Systems
    BY <2>1 DEF TypeOK
  <2>8. QED
    BY <1>5, <2>3, <2>4, <2>5, <2>6, <2>7
       DEF TakeBatch, TypeOK, planVars, poolFlags, history
<1>6. ASSUME NEW t \in Threads, ExclusiveBegin(t) \/ ExclusiveEnd(t)
      PROVE  TypeOK'
  <2>1. pc' \in [Threads -> PcValues]
    BY <1>6, GoToTyped DEF ExclusiveBegin, ExclusiveEnd, TypeOK, PcValues
  <2>2. QED
    BY <1>6, <2>1 DEF ExclusiveBegin, ExclusiveEnd, TypeOK, planVars, nodeCount,
                      nodeFlags, history, Reserving
<1>7. ASSUME NEW t \in Threads, NEW n \in Systems, NEW wrote \in SUBSET Ordinals,
             Finish(t, n, wrote)
      PROVE  TypeOK'
  <2> DEFINE drain == draining \/ (n \in MainOnly /\ planDirty)
  <2>1. /\ complete' \in SUBSET Systems /\ released' \in SUBSET Systems
        /\ pending' \in [Systems -> Nat] /\ ready' \in SUBSET Systems
        /\ cursor' \in 1..(NumSystems + 1) /\ draining' \in BOOLEAN
        /\ pc' \in [Threads -> PcValues]
    <3>1. "lock" \in PcValues /\ ready \in SUBSET Systems /\ drain \in BOOLEAN
      BY DEF PcValues, TypeOK
    <3>2. CASE n \in exhausted /\ running[n] = 1
      <4>1. Complete(n, jobs', ready, drain, t, "lock")
        BY <1>7, <3>2 DEF Finish
      <4>2. QED
        BY <4>1, <3>1, CompleteTyped
    <3>3. CASE ~(n \in exhausted /\ running[n] = 1)
      <4>1. /\ draining' = drain /\ GoTo(t, "lock", WaitingCaller)
            /\ UNCHANGED <<complete, released, pending, ready, cursor>>
        BY <1>7, <3>3 DEF Finish
      <4>2. QED
        BY <4>1, <3>1, GoToTyped DEF TypeOK
    <3>4. QED
      BY <3>2, <3>3
  <2>2. jobs' \in [Systems -> SUBSET Ordinals] /\ running' \in [Systems -> Int]
    BY <1>7 DEF Finish, TypeOK
  <2>3. batch' \in [Threads -> Batches] /\ active' \in Int
    BY <1>7 DEF Finish, TypeOK, Batches, NoBatch
  <2>4. QED
    BY <1>7, <2>1, <2>2, <2>3 DEF Finish, TypeOK, planVars, poolFlags, history
<1>8. ASSUME LoopTake \/ PublishBegin \/ LoopEnd \/ Join \/ Stop PROVE TypeOK'
  <2>1. Main \in Threads
    BY DEF Threads
  <2>2. pc' \in [Threads -> PcValues]
    BY <1>8, <2>1, GoToTyped DEF LoopTake, PublishBegin, LoopEnd, Join, Stop, TypeOK, PcValues
  <2>3. QED
    <3>1. CASE LoopTake \/ Join
      BY <3>1, <2>2 DEF LoopTake, Join, TypeOK, planVars, nodeCount, nodeFlags, poolFlags,
                        history
    <3>2. CASE PublishBegin \/ LoopEnd \/ Stop
      BY <3>2, <2>2 DEF PublishBegin, LoopEnd, Stop, TypeOK, planVars, nodeCount,
                        nodeFlags, history
    <3>3. QED
      BY <1>8, <3>1, <3>2
<1>9. CASE PublishNode
  <2>1. cursor \in Systems
    BY <1>9 DEF PublishNode, TypeOK
  <2>2. cursor' \in 1..(NumSystems + 1) /\ released' \in SUBSET Systems
    BY <1>9, <2>1 DEF PublishNode, TypeOK, Systems
  <2>3. QED
    BY <1>9, <2>2 DEF PublishNode, TypeOK, planVars, nodeCount, poolFlags, history
<1>10. ASSUME NEW o \in Ordinals, PublishJob(o) PROVE TypeOK'
  <2>1. cursor \in Systems
    BY <1>10 DEF PublishJob, TypeOK
  <2>2. jobs' \in [Systems -> SUBSET Ordinals]
    BY <1>10, <2>1 DEF PublishJob, TypeOK
  <2>3. published' \in (0..NumSystems) \X Ordinals
    BY <1>10, <2>1 DEF PublishJob, Systems
  <2>4. QED
    BY <1>10, <2>2, <2>3 DEF PublishJob, TypeOK, planVars, nodeFlags, poolFlags
<1>11. CASE PublishEnd
  <2>1. /\ edges' \in SUBSET Earlier /\ planDirty' \in BOOLEAN
        /\ pending' \in [Systems -> Nat] /\ ready' \in SUBSET Systems
    BY <1>11, DependenciesTyped DEF PublishEnd
  <2>2. cursor' \in 1..(NumSystems + 1) /\ draining' \in BOOLEAN
    BY <1>11 DEF PublishEnd, Advance, TypeOK
  <2>3. pc' \in [Threads -> PcValues]
    BY <1>11, GoToTyped DEF PublishEnd, TypeOK, PcValues, Threads
  <2>4. QED
    BY <1>11, <2>1, <2>2, <2>3 DEF PublishEnd, TypeOK, nodeFlags, history, Reserving
<1>12. CASE UNCHANGED vars
  BY <1>12 DEF vars, TypeOK
<1>13. QED
  BY <1>1, <1>2, <1>3, <1>4, <1>5, <1>6, <1>7, <1>8, <1>9, <1>10, <1>11, <1>12
     DEF Next, CallerStep, ThreadStep, Terminated, Threads

(* Every reachable state of the scheduler is well typed.                   *)
THEOREM TypeCorrect == Spec => []TypeOK
  BY TypeInit, TypeStep, PTL DEF Spec

-----------------------------------------------------------------------------
(* A run ends with nothing left behind.  The inductive invariant, for a    *)
(* pool with workers, relates the counters to the threads between claim    *)
(* and Finish, the node flags to the ready set, and the cursor to the      *)
(* prefix it has passed.                                                   *)
Busy == {t \in Threads : pc[t] \in {"exec", "exclusive", "finish"}}
BusyOn(n) == {t \in Busy : NodeOf(t) = n}

CountsBusy ==
  /\ active = Cardinality(Busy)
  /\ \A n \in Systems : running[n] = Cardinality(BusyOn(n))
  /\ \A t \in Busy : NodeOf(t) \in Systems
FlagsAgree ==
  /\ complete \subseteq exhausted
  /\ ready \cap exhausted = {}
  /\ \A n \in complete : running[n] = 0
PrefixDone == \A n \in Systems : n < cursor => n \in complete /\ jobs[n] = {}
CallerPhase ==
  /\ inRun <=> pc[Main] \notin {"idle", "join", "done"}
  /\ ~inRun => Busy = {}
  /\ publishing <=> pc[Main] = "publish"
  /\ publishing => Busy = {}
  /\ pc[Main] = "idle" /\ runs > 0 => cursor = NumSystems + 1
RunInv == TypeOK /\ CountsBusy /\ FlagsAgree /\ PrefixDone /\ CallerPhase

(* Finitely many threads are in callbacks, on any node.                    *)
LEMMA BusyFinite ==
  /\ IsFiniteSet(Busy) /\ IsFiniteSet(Busy')
  /\ \A n : IsFiniteSet(BusyOn(n)) /\ IsFiniteSet(BusyOn(n)')
<1>1. Busy \in SUBSET Threads /\ Busy' \in SUBSET Threads
  BY DEF Busy
<1>2. IsFiniteSet(Busy) /\ IsFiniteSet(Busy')
  BY <1>1, ThreadsFinite, FS_Subset
<1>3. ASSUME NEW n PROVE IsFiniteSet(BusyOn(n)) /\ IsFiniteSet(BusyOn(n)')
  <2>1. BusyOn(n) \in SUBSET Busy /\ BusyOn(n)' \in SUBSET Busy'
    BY DEF BusyOn
  <2>2. QED
    BY <2>1, <1>2, FS_Subset
<1>4. QED
  BY <1>2, <1>3

(* Only the moving thread enters or leaves Busy: waking is from "wait".    *)
LEMMA BusyMoves ==
  ASSUME TypeOK, NEW t \in Threads, NEW at, NEW woken \in SUBSET Waiting, GoTo(t, at, woken)
  PROVE  /\ Busy' = IF at \in {"exec", "exclusive", "finish"} THEN Busy \cup {t} ELSE Busy \ {t}
         /\ pc'[t] = at
         /\ t # Main => (pc'[Main] = pc[Main] \/ (pc[Main] = "wait" /\ pc'[Main] = "lock"))
<1>1. \A u \in Threads : pc'[u] = IF u = t THEN at ELSE IF u \in woken THEN "lock" ELSE pc[u]
  BY DEF GoTo
<1>2. \A u \in woken : pc[u] = "wait"
  BY DEF Waiting
<1>3. Main \in Threads
  BY DEF Threads
<1>4. QED
  BY <1>1, <1>2, <1>3 DEF Busy

(* Only a waiting thread is woken.                                         *)
LEMMA WokenWait ==
  /\ WaitingCaller \in SUBSET Waiting
  /\ \A k : \A W \in WokenBy(k) : W \in SUBSET Waiting /\ W \cup WaitingCaller \in SUBSET Waiting
  BY DEF WaitingCaller, WokenBy

(* A step that claims and finishes nothing leaves the counters right.      *)
LEMMA CountsKept ==
  ASSUME CountsBusy, Busy' = Busy, UNCHANGED <<batch, active, running>>
  PROVE  CountsBusy'
<1>1. \A n : BusyOn(n)' = BusyOn(n)
  BY DEF BusyOn, NodeOf
<1>2. QED
  BY <1>1 DEF CountsBusy, NodeOf

(* What ecs_worker_complete does to the threads and to the cursor.         *)
LEMMA CompleteMoves ==
  ASSUME TypeOK, NEW n, NEW stored, NEW queue, NEW drain, NEW t \in Threads,
         NEW at, at \notin {"exec", "exclusive", "finish"},
         Complete(n, stored, queue, drain, t, at)
  PROVE  /\ Busy' = Busy \ {t} /\ pc'[t] = at
         /\ t # Main => (pc'[Main] = pc[Main] \/ (pc[Main] = "wait" /\ pc'[Main] = "lock"))
<1>1. PICK W \in SUBSET Waiting : GoTo(t, at, W)
  BY WokenWait DEF Complete
<1>2. QED
  BY <1>1, BusyMoves

(* The cursor passes only what is complete and has nothing left to         *)
(* publish.                                                                *)
LEMMA CompletePrefix ==
  ASSUME TypeOK, NEW n \in Systems, NEW stored, NEW queue, NEW drain, NEW t, NEW at,
         \A m \in Systems : m < cursor => m \in complete /\ stored[m] = {},
         Complete(n, stored, queue, drain, t, at)
  PROVE  \A m \in Systems : m < cursor' => m \in complete' /\ stored[m] = {}
<1>1. PICK c \in cursor..(NumSystems + 1) :
        FirstBlocked(cursor, c, complete \cup {n}, stored) /\ cursor' = c
  BY DEF Complete, Advance
<1>2. complete' = complete \cup {n}
  BY DEF Complete
<1>3. cursor \in Int /\ c \in Int /\ \A m \in Systems : m \in Int
  BY DEF TypeOK, Systems
<1>4. SUFFICES ASSUME NEW m \in Systems, m < c PROVE m \in complete' /\ stored[m] = {}
  BY <1>1
<1>5. CASE m < cursor
  BY <1>2, <1>5
<1>6. CASE cursor <= m
  BY <1>1, <1>2, <1>4, <1>6 DEF FirstBlocked
<1>7. QED
  BY <1>3, <1>5, <1>6

(* What a completion makes ready has not been handed out.                  *)
LEMMA CompleteQueue ==
  ASSUME TypeOK, Workers # {}, NEW n \in Systems, NEW stored, NEW queue, NEW drain, NEW t, NEW at,
         Complete(n, stored, queue, drain, t, at)
  PROVE  \A m \in ready' \ queue : m \notin exhausted /\ m # n
<1>1. Successors(n) \in SUBSET Systems /\ n \notin Successors(n)
  BY DEF Successors, TypeOK, Earlier, Systems
<1>2. QED
  BY <1>1 DEF Complete, Enqueued

(* The invariant of a run holds at the start.                              *)
LEMMA RunInit == Init => RunInv
<1> SUFFICES ASSUME Init PROVE RunInv
  OBVIOUS
<1>1. Busy = {}
  BY DEF Init, Busy, Threads
<1>2. \A n : BusyOn(n) = {}
  BY <1>1 DEF BusyOn
<1>3. CountsBusy
  BY <1>1, <1>2, FS_EmptySet DEF CountsBusy, Init
<1>4. FlagsAgree /\ PrefixDone
  <2>1. FlagsAgree
    BY DEF FlagsAgree, Init
  <2>2. \A n \in Systems : ~(n < 1)
    BY ConstantsAssumption DEF ConstantsAssumption, Systems
  <2>3. QED
    BY <2>1, <2>2 DEF PrefixDone, Init
<1>5. CallerPhase
  BY <1>1 DEF CallerPhase, Init, Threads
<1>6. QED
  BY <1>3, <1>4, <1>5, TypeInit DEF RunInv

(* The invariant of a run is inductive, action by action.                  *)
LEMMA RunStep ==
  ASSUME Workers # {}, RunInv, [Next]_vars
  PROVE  RunInv'
<1> USE ConstantsAssumption DEF ConstantsAssumption
<1> TypeOK /\ TypeOK' /\ Main \in Threads
  BY TypeStep DEF RunInv, Threads
<1> DEFINE Quiet == Busy' = Busy
           Callers == {"idle", "join", "done"}
<1>1. ASSUME NEW live \in SUBSET Systems, NEW byHand \in BOOLEAN, StartRun(live, byHand)
      PROVE  RunInv'
  <2>1. Busy = {} /\ pc[Main] = "idle" /\ ~publishing
    BY <1>1 DEF StartRun, RunInv, CallerPhase
  <2>2. Waiting \in SUBSET Waiting /\ GoTo(Main, "loop", Waiting)
    BY <1>1 DEF StartRun
  <2>3. Busy' = {} /\ pc'[Main] = "loop"
    BY <2>1, <2>2, BusyMoves
  <2>4. \A n : BusyOn(n)' = {} /\ BusyOn(n) = {}
    BY <2>1, <2>3 DEF BusyOn
  <2>5. CountsBusy'
    BY <1>1, <2>1, <2>3, <2>4, FS_EmptySet DEF StartRun, CountsBusy, RunInv
  <2>6. FlagsAgree'
    BY <1>1 DEF StartRun, Dependencies, FlagsAgree
  <2>7. PICK c \in 1..(NumSystems + 1) :
          FirstBlocked(1, c, Systems \ live, jobs) /\ cursor' = c
    BY <1>1 DEF StartRun, Advance
  <2>8. PrefixDone'
    BY <1>1, <2>7 DEF StartRun, FirstBlocked, PrefixDone, Systems
  <2>9. CallerPhase'
    BY <1>1, <2>1, <2>3 DEF StartRun, CallerPhase
  <2>10. QED
    BY <2>5, <2>6, <2>8, <2>9 DEF RunInv
<1>2. CASE WorldStep
  <2>1. UNCHANGED <<pending, running, left, issued, jobs, started, exhausted, complete,
                    released, ready, cursor, active, inRun, publishing, pc, batch, runs>>
    BY <1>2 DEF WorldStep, Toggle, Retable, nodeCount, nodeFlags, poolFlags
  <2>2. Busy' = Busy
    BY <2>1 DEF Busy
  <2>3. CountsBusy' /\ FlagsAgree' /\ PrefixDone' /\ CallerPhase'
    BY <2>1, <2>2, CountsKept DEF RunInv, FlagsAgree, PrefixDone, CallerPhase
  <2>4. QED
    BY <2>3 DEF RunInv
<1>3. ASSUME NEW t \in Threads, Lock(t) \/ SpuriousWake(t) \/ TakeNothing(t)
      PROVE  RunInv'
  <2>1. UNCHANGED <<running, jobs, exhausted, complete, ready, cursor, active, inRun,
                    publishing, batch, runs>>
    BY <1>3 DEF Lock, SpuriousWake, TakeNothing, nodeCount, nodeFlags, poolFlags, history
  <2>2. PICK at \in {"loop", "done", "take", "lock", "wait"} :
          /\ GoTo(t, at, {}) /\ pc[t] \in {"lock", "wait", "take"}
          /\ t = Main => at # "done"
    BY <1>3 DEF Lock, SpuriousWake, TakeNothing
  <2>3. Busy' = Busy /\ pc'[t] = at
    BY <2>2, BusyMoves DEF Busy
  <2>4. t # Main => pc'[Main] = pc[Main]
    BY <2>2 DEF GoTo
  <2>5. CallerPhase'
    BY <2>1, <2>2, <2>3, <2>4 DEF RunInv, CallerPhase
  <2>6. CountsBusy' /\ FlagsAgree' /\ PrefixDone'
    BY <2>1, <2>3, CountsKept DEF RunInv, FlagsAgree, PrefixDone
  <2>7. QED
    BY <2>5, <2>6 DEF RunInv
<1>4. ASSUME NEW t \in Threads, NEW n \in Systems, TakeExhausted(t, n)
      PROVE  RunInv'
  <2>1. /\ pc[t] = "take" /\ inRun /\ ~publishing /\ n \in ready
        /\ UNCHANGED <<running, jobs, active, inRun, publishing, batch, runs>>
        /\ exhausted' = exhausted \cup {n}
    BY <1>4 DEF TakeExhausted, TakeAllowed, Candidates, poolFlags, history
  <2>2. CASE running[n] = 0
    <3>1. Complete(n, jobs, ready \ {n}, draining, t, "take")
      BY <1>4, <2>2 DEF TakeExhausted
    <3>2. Busy' = Busy
      BY <3>1, <2>1, CompleteMoves DEF Busy
    <3>3. pc'[t] = "take" /\ (t # Main => (pc'[Main] = pc[Main] \/
                               (pc[Main] = "wait" /\ pc'[Main] = "lock")))
      BY <3>1, CompleteMoves
    <3>4. CallerPhase'
      BY <2>1, <3>2, <3>3 DEF RunInv, CallerPhase
    <3>5. complete' = complete \cup {n}
      BY <3>1 DEF Complete
    <3>6. ready' \cap exhausted' = {}
      BY <3>1, <2>1, CompleteQueue DEF RunInv, FlagsAgree
    <3>7. FlagsAgree'
      BY <2>1, <2>2, <3>5, <3>6 DEF RunInv, FlagsAgree
    <3>8. PrefixDone'
      BY <3>1, <2>1, CompletePrefix DEF RunInv, PrefixDone
    <3>9. CountsBusy'
      BY <3>2, <2>1, CountsKept DEF RunInv
    <3>10. QED
      BY <3>4, <3>7, <3>8, <3>9 DEF RunInv
  <2>3. CASE running[n] # 0
    <3>1. ready' = ready \ {n} /\ UNCHANGED <<complete, cursor, pc>>
      BY <1>4, <2>3 DEF TakeExhausted
    <3>2. Busy' = Busy
      BY <3>1 DEF Busy
    <3>3. CallerPhase'
      BY <2>1, <3>1, <3>2 DEF RunInv, CallerPhase
    <3>4. CountsBusy' /\ FlagsAgree' /\ PrefixDone'
      BY <3>1, <3>2, <2>1, CountsKept DEF RunInv, FlagsAgree, PrefixDone
    <3>5. QED
      BY <3>3, <3>4 DEF RunInv
  <2>4. QED
    BY <2>2, <2>3
<1>5. ASSUME NEW t \in Threads, NEW n \in Systems, TakeBatch(t, n)
      PROVE  RunInv'
  <2>1. /\ pc[t] = "take" /\ inRun /\ ~publishing /\ n \in ready
        /\ UNCHANGED <<jobs, complete, cursor, inRun, publishing, runs>>
        /\ running' = [running EXCEPT ![n] = @ + 1] /\ active' = active + 1
    BY <1>5 DEF TakeBatch, TakeAllowed, Candidates, poolFlags, history
  <2>2. PICK W \in SUBSET Waiting, o \in SUBSET Ordinals :
          /\ GoTo(t, "exec", W)
          /\ batch' = [batch EXCEPT ![t] = [node |-> n, ordinals |-> o]]
          /\ \/ exhausted' = exhausted /\ ready' = ready
             \/ exhausted' = exhausted \cup {n} /\ ready' = ready \ {n}
    <3>1. PICK rest \in Portions(n), k \in 1..BatchSize :
            /\ batch' = [batch EXCEPT ![t] = [node |-> n,
                 ordinals |-> {o \in Ordinals : issued[n] <= o /\ o < issued[n] + k}]]
            /\ exhausted' = IF k = rest THEN exhausted \cup {n} ELSE exhausted
            /\ ready' = IF k = rest THEN ready \ {n} ELSE ready
            /\ \E W \in WokenBy(IF k < rest /\ Workers # {} THEN 1 ELSE 0) : GoTo(t, "exec", W)
      BY <1>5 DEF TakeBatch
    <3>2. PICK W \in SUBSET Waiting : GoTo(t, "exec", W)
      BY <3>1, WokenWait
    <3>3. {o \in Ordinals : issued[n] <= o /\ o < issued[n] + k} \in SUBSET Ordinals
      OBVIOUS
    <3>4. \/ exhausted' = exhausted /\ ready' = ready
          \/ exhausted' = exhausted \cup {n} /\ ready' = ready \ {n}
      BY <3>1
    <3>5. QED
      BY <3>1, <3>2, <3>3, <3>4
  <2>3. t \notin Busy /\ Busy' = Busy \cup {t} /\ pc'[t] = "exec"
    BY <2>1, <2>2, BusyMoves DEF Busy
  <2>4. t # Main => (pc'[Main] = pc[Main] \/ (pc[Main] = "wait" /\ pc'[Main] = "lock"))
    BY <2>2, BusyMoves
  <2>5. CallerPhase'
    BY <2>1, <2>3, <2>4 DEF RunInv, CallerPhase
  <2>6. active' = Cardinality(Busy')
    BY <2>1, <2>3, BusyFinite, FS_AddElement DEF RunInv, CountsBusy
  <2>7. /\ NodeOf(t)' = n /\ \A u \in Busy : NodeOf(u)' = NodeOf(u)
    BY <2>2, <2>3 DEF NodeOf, TypeOK, Busy
  <2>8. ASSUME NEW m \in Systems PROVE running'[m] = Cardinality(BusyOn(m)')
    <3>1. CASE m = n
      <4>1. BusyOn(m)' = BusyOn(m) \cup {t} /\ t \notin BusyOn(m)
        BY <2>3, <2>7, <3>1 DEF BusyOn
      <4>2. running'[m] = running[m] + 1
        BY <2>1, <3>1 DEF TypeOK
      <4>3. Cardinality(BusyOn(m) \cup {t}) = Cardinality(BusyOn(m)) + 1
        BY <4>1, BusyFinite, FS_AddElement
      <4>4. QED
        BY <4>1, <4>2, <4>3 DEF RunInv, CountsBusy
    <3>2. CASE m # n
      <4>1. BusyOn(m)' = BusyOn(m)
        BY <2>3, <2>7, <3>2 DEF BusyOn
      <4>2. running'[m] = running[m]
        BY <2>1, <3>2 DEF TypeOK
      <4>3. QED
        BY <4>1, <4>2 DEF RunInv, CountsBusy
    <3>3. QED
      BY <3>1, <3>2
  <2>9. CountsBusy'
    BY <2>3, <2>6, <2>7, <2>8 DEF RunInv, CountsBusy
  <2>10. FlagsAgree'
    <3>1. n \notin complete
      BY <2>1 DEF RunInv, FlagsAgree
    <3>2. \A m \in complete : running'[m] = running[m]
      BY <2>1, <3>1 DEF TypeOK
    <3>3. QED
      BY <2>1, <2>2, <3>2 DEF RunInv, FlagsAgree
  <2>11. PrefixDone'
    BY <2>1 DEF RunInv, PrefixDone
  <2>12. QED
    BY <2>5, <2>9, <2>10, <2>11 DEF RunInv
<1>6. ASSUME NEW t \in Threads, ExclusiveBegin(t) \/ ExclusiveEnd(t)
      PROVE  RunInv'
  <2>1. UNCHANGED <<running, jobs, exhausted, complete, ready, cursor, active, inRun,
                    publishing, batch, runs>>
    BY <1>6 DEF ExclusiveBegin, ExclusiveEnd, nodeCount, nodeFlags, history
  <2>2. PICK at \in {"exclusive", "finish"} : GoTo(t, at, {}) /\ pc[t] \in {"exec", "exclusive"}
    BY <1>6 DEF ExclusiveBegin, ExclusiveEnd
  <2>3. Busy' = Busy /\ pc'[t] = at
    BY <2>2, BusyMoves DEF Busy
  <2>4. t # Main => pc'[Main] = pc[Main]
    BY <2>2 DEF GoTo
  <2>5. CallerPhase'
    BY <2>1, <2>2, <2>3, <2>4 DEF RunInv, CallerPhase
  <2>6. CountsBusy' /\ FlagsAgree' /\ PrefixDone'
    BY <2>1, <2>3, CountsKept DEF RunInv, FlagsAgree, PrefixDone
  <2>7. QED
    BY <2>5, <2>6 DEF RunInv
<1>7. ASSUME NEW t \in Threads, NEW n \in Systems, NEW wrote \in SUBSET Ordinals,
             Finish(t, n, wrote)
      PROVE  RunInv'
  <2> DEFINE drain == draining \/ (n \in MainOnly /\ planDirty)
  <2>1. /\ pc[t] \in {"exec", "finish"} /\ n = NodeOf(t)
        /\ UNCHANGED <<inRun, publishing, runs, exhausted>>
        /\ jobs' = [jobs EXCEPT ![n] = @ \cup wrote]
        /\ running' = [running EXCEPT ![n] = @ - 1] /\ active' = active - 1
        /\ batch' = [batch EXCEPT ![t] = NoBatch]
    BY <1>7 DEF Finish, poolFlags, history
  <2>2. t \in Busy /\ t \in BusyOn(n)
    BY <2>1 DEF Busy, BusyOn
  <2>3. running[n] # 0 /\ n \notin complete
    <3>1. Cardinality(BusyOn(n)) # 0
      BY <2>2, BusyFinite, FS_EmptySet
    <3>2. QED
      BY <3>1 DEF RunInv, CountsBusy, FlagsAgree
  <2>4. /\ Busy' = Busy \ {t} /\ pc'[t] = "lock"
        /\ t # Main => (pc'[Main] = pc[Main] \/ (pc[Main] = "wait" /\ pc'[Main] = "lock"))
    <3>1. CASE n \in exhausted /\ running[n] = 1
      <4>1. Complete(n, jobs', ready, drain, t, "lock")
        BY <1>7, <3>1 DEF Finish
      <4>2. QED
        BY <4>1, CompleteMoves
    <3>2. CASE ~(n \in exhausted /\ running[n] = 1)
      <4>1. GoTo(t, "lock", WaitingCaller)
        BY <1>7, <3>2 DEF Finish
      <4>2. QED
        BY <4>1, WokenWait, BusyMoves
    <3>3. QED
      BY <3>1, <3>2
  <2>5. inRun /\ ~publishing
    BY <2>2 DEF RunInv, CallerPhase
  <2>6. CallerPhase'
    BY <2>1, <2>4, <2>5 DEF RunInv, CallerPhase
  <2>7. \A u \in Busy' : NodeOf(u)' = NodeOf(u)
    BY <2>1, <2>4 DEF NodeOf, TypeOK, Busy
  <2>8. active' = Cardinality(Busy')
    BY <2>1, <2>2, <2>4, BusyFinite, FS_RemoveElement DEF RunInv, CountsBusy
  <2>9. ASSUME NEW m \in Systems PROVE running'[m] = Cardinality(BusyOn(m)')
    <3>1. BusyOn(m)' = BusyOn(m) \ {t}
      BY <2>4, <2>7 DEF BusyOn
    <3>2. CASE m = n
      <4>1. running'[m] = running[m] - 1
        BY <2>1, <3>2 DEF TypeOK
      <4>2. Cardinality(BusyOn(m) \ {t}) = Cardinality(BusyOn(m)) - 1
        BY <3>2, <2>2, BusyFinite, FS_RemoveElement
      <4>3. QED
        BY <4>1, <4>2, <3>1 DEF RunInv, CountsBusy
    <3>3. CASE m # n
      <4>1. t \notin BusyOn(m)
        BY <2>1, <3>3 DEF BusyOn
      <4>2. running'[m] = running[m]
        BY <2>1, <3>3 DEF TypeOK
      <4>3. BusyOn(m) \ {t} = BusyOn(m)
        BY <4>1
      <4>4. QED
        BY <4>2, <4>3, <3>1 DEF RunInv, CountsBusy
    <3>4. QED
      BY <3>2, <3>3
  <2>10. CountsBusy'
    BY <2>4, <2>7, <2>8, <2>9 DEF RunInv, CountsBusy
  <2>11. \A m \in Systems : m < cursor => m \in complete /\ jobs'[m] = {}
    <3>1. \A m \in Systems : m < cursor => m # n
      BY <2>3 DEF RunInv, PrefixDone
    <3>2. QED
      BY <2>1, <3>1 DEF RunInv, PrefixDone, TypeOK
  <2>12. \A m \in complete : running'[m] = 0
    BY <2>1, <2>3 DEF RunInv, FlagsAgree, TypeOK
  <2>13. FlagsAgree' /\ PrefixDone'
    <3>1. CASE n \in exhausted /\ running[n] = 1
      <4>1. Complete(n, jobs', ready, drain, t, "lock")
        BY <1>7, <3>1 DEF Finish
      <4>2. complete' = complete \cup {n} /\ running'[n] = 0
        BY <4>1, <2>1, <3>1 DEF Complete, TypeOK
      <4>3. ready' \cap exhausted' = {}
        BY <4>1, <2>1, CompleteQueue DEF RunInv, FlagsAgree
      <4>4. FlagsAgree'
        BY <2>1, <2>12, <3>1, <4>2, <4>3 DEF RunInv, FlagsAgree
      <4>5. PrefixDone'
        BY <4>1, <2>11, CompletePrefix DEF PrefixDone
      <4>6. QED
        BY <4>4, <4>5
    <3>2. CASE ~(n \in exhausted /\ running[n] = 1)
      <4>1. UNCHANGED <<complete, ready, cursor>>
        BY <1>7, <3>2 DEF Finish
      <4>2. QED
        BY <4>1, <2>1, <2>11, <2>12 DEF RunInv, FlagsAgree, PrefixDone
    <3>3. QED
      BY <3>1, <3>2
  <2>14. QED
    BY <2>6, <2>10, <2>13 DEF RunInv
<1>8. CASE LoopTake \/ PublishBegin \/ LoopEnd \/ Join \/ Stop
  <2>1. UNCHANGED <<running, jobs, exhausted, complete, ready, cursor, active, batch, runs>>
    BY <1>8 DEF LoopTake, PublishBegin, LoopEnd, Join, Stop, nodeCount, nodeFlags, history
  <2>2. PICK at \in PcValues \ {"exec", "exclusive", "finish"}, W \in SUBSET Waiting :
          GoTo(Main, at, W) /\ pc[Main] \in {"loop", "join", "idle"}
    BY <1>8 DEF LoopTake, PublishBegin, LoopEnd, Join, Stop, PcValues
  <2>3. Busy' = Busy /\ pc'[Main] = at
    BY <2>2, BusyMoves DEF Busy
  <2>4. CountsBusy' /\ FlagsAgree' /\ PrefixDone'
    BY <2>1, <2>3, CountsKept DEF RunInv, FlagsAgree, PrefixDone
  <2>5. CallerPhase'
    <3>1. CASE LoopTake
      <4>1. pc[Main] = "loop" /\ pc'[Main] = "take" /\ UNCHANGED <<inRun, publishing>>
        BY <3>1 DEF LoopTake, GoTo, poolFlags
      <4>2. QED
        BY <4>1, <2>3, <2>1 DEF RunInv, CallerPhase
    <3>2. CASE PublishBegin
      <4>1. pc[Main] = "loop" /\ pc'[Main] = "publish" /\ inRun' = inRun /\ publishing' = TRUE
        BY <3>2 DEF PublishBegin, GoTo
      <4>2. Cardinality(Busy) = 0
        BY <3>2 DEF PublishBegin, Quiescent, RunInv, CountsBusy
      <4>3. Busy = {}
        BY <4>2, BusyFinite, FS_EmptySet
      <4>4. QED
        BY <4>1, <4>3, <2>3, <2>1 DEF RunInv, CallerPhase
    <3>3. CASE LoopEnd
      <4>1. /\ pc[Main] = "loop" /\ pc'[Main] = "idle" /\ inRun' = FALSE
            /\ publishing' = publishing /\ cursor > NumSystems
        BY <3>3 DEF LoopEnd, GoTo
      <4>2. \A n \in Systems : n < cursor
        BY <4>1 DEF Systems, TypeOK
      <4>3. \A n \in Systems : Cardinality(BusyOn(n)) = 0
        BY <4>2 DEF RunInv, PrefixDone, FlagsAgree, CountsBusy
      <4>4. \A n \in Systems : BusyOn(n) = {}
        BY <4>3, BusyFinite, FS_EmptySet
      <4>5. Busy = {}
        BY <4>4 DEF RunInv, CountsBusy, BusyOn
      <4>6. cursor = NumSystems + 1
        BY <4>1 DEF TypeOK
      <4>7. QED
        BY <4>1, <4>5, <4>6, <2>1, <2>3 DEF RunInv, CallerPhase
    <3>4. CASE Join
      <4>1. pc[Main] = "join" /\ pc'[Main] = "done" /\ UNCHANGED <<inRun, publishing>>
        BY <3>4 DEF Join, GoTo, poolFlags
      <4>2. QED
        BY <4>1, <2>3, <2>1 DEF RunInv, CallerPhase
    <3>5. CASE Stop
      <4>1. pc[Main] = "idle" /\ pc'[Main] = "join" /\ UNCHANGED <<inRun, publishing>>
        BY <3>5 DEF Stop, GoTo
      <4>2. QED
        BY <4>1, <2>3, <2>1 DEF RunInv, CallerPhase
    <3>6. QED
      BY <1>8, <3>1, <3>2, <3>3, <3>4, <3>5
  <2>6. QED
    BY <2>4, <2>5 DEF RunInv
<1>9. CASE PublishNode
  <2>1. /\ cursor \in complete /\ jobs[cursor] = {} /\ cursor' = cursor + 1
        /\ UNCHANGED <<running, jobs, exhausted, complete, ready, active, inRun,
                       publishing, pc, batch, runs>>
        /\ pc[Main] = "publish"
    BY <1>9 DEF PublishNode, nodeCount, poolFlags, history
  <2>2. Busy' = Busy
    BY <2>1 DEF Busy
  <2>3. PrefixDone'
    <3>1. \A m \in Systems : m < cursor + 1 => m < cursor \/ m = cursor
      BY DEF TypeOK, Systems
    <3>2. QED
      BY <2>1, <3>1 DEF RunInv, PrefixDone
  <2>4. CountsBusy' /\ FlagsAgree' /\ CallerPhase'
    BY <2>1, <2>2, CountsKept DEF RunInv, FlagsAgree, CallerPhase
  <2>5. QED
    BY <2>3, <2>4 DEF RunInv
<1>10. ASSUME NEW o \in Ordinals, PublishJob(o) PROVE RunInv'
  <2>1. /\ jobs' = [jobs EXCEPT ![cursor] = @ \ {o}]
        /\ UNCHANGED <<running, exhausted, complete, ready, cursor, active, inRun,
                       publishing, pc, batch, runs>>
    BY <1>10 DEF PublishJob, nodeFlags, poolFlags
  <2>2. Busy' = Busy
    BY <2>1 DEF Busy
  <2>3. PrefixDone'
    BY <2>1 DEF RunInv, PrefixDone, TypeOK
  <2>4. CountsBusy' /\ FlagsAgree' /\ CallerPhase'
    BY <2>1, <2>2, CountsKept DEF RunInv, FlagsAgree, CallerPhase
  <2>5. QED
    BY <2>3, <2>4 DEF RunInv
<1>11. CASE PublishEnd
  <2>1. /\ pc[Main] = "publish" /\ publishing' = FALSE /\ GoTo(Main, "loop", Waiting)
        /\ UNCHANGED <<running, jobs, exhausted, complete, active, inRun, batch, runs>>
        /\ Workers # {} => ready' \subseteq Systems \ exhausted
    BY <1>11 DEF PublishEnd, nodeFlags, history, Dependencies
  <2>2. Waiting \in SUBSET Waiting
    OBVIOUS
  <2>3. Busy' = Busy /\ pc'[Main] = "loop"
    BY <2>1, <2>2, BusyMoves DEF Busy
  <2>4. PICK c \in cursor..(NumSystems + 1) :
          FirstBlocked(cursor, c, complete, jobs) /\ cursor' = c
    BY <1>11 DEF PublishEnd, Advance
  <2>5. PrefixDone'
    <3>1. \A m \in Systems : m < c => m < cursor \/ (cursor <= m /\ m < c)
      BY DEF TypeOK, Systems
    <3>2. QED
      BY <2>1, <2>4, <3>1 DEF RunInv, PrefixDone, FirstBlocked
  <2>6. CountsBusy' /\ FlagsAgree' /\ CallerPhase'
    BY <2>1, <2>3, CountsKept DEF RunInv, FlagsAgree, CallerPhase
  <2>7. QED
    BY <2>5, <2>6 DEF RunInv
<1>12. CASE UNCHANGED vars
  <2>1. Busy' = Busy
    BY <1>12 DEF vars, Busy
  <2>2. CountsBusy' /\ FlagsAgree' /\ PrefixDone' /\ CallerPhase'
    BY <1>12, <2>1, CountsKept DEF vars, RunInv, FlagsAgree, PrefixDone, CallerPhase
  <2>3. QED
    BY <2>2 DEF RunInv
<1>13. QED
  BY <1>1, <1>2, <1>3, <1>4, <1>5, <1>6, <1>7, <1>8, <1>9, <1>10, <1>11, <1>12
     DEF Next, CallerStep, ThreadStep, Terminated, Threads

(* A run that ended with the invariant has finished everything.            *)
LEMMA RunInvEnds == RunInv => RunFinished
<1> SUFFICES ASSUME RunInv, (pc[Main] = "loop" /\ cursor > NumSystems)
                            \/ (pc[Main] = "idle" /\ runs > 0)
             PROVE  /\ complete = Systems
                    /\ \A n \in Systems : jobs[n] = {} /\ running[n] = 0
                    /\ active = 0 /\ Executing = {}
  BY DEF RunFinished
<1>1. cursor > NumSystems
  BY ConstantsAssumption DEF ConstantsAssumption, RunInv, CallerPhase
<1>2. \A n \in Systems : n < cursor
  BY <1>1, ConstantsAssumption DEF ConstantsAssumption, RunInv, TypeOK, Systems
<1>3. complete = Systems /\ \A n \in Systems : jobs[n] = {} /\ running[n] = 0
  BY <1>2 DEF RunInv, PrefixDone, FlagsAgree, TypeOK
<1>4. \A n \in Systems : BusyOn(n) = {}
  BY <1>3, BusyFinite, FS_EmptySet DEF RunInv, CountsBusy
<1>5. Busy = {}
  BY <1>4 DEF RunInv, CountsBusy, BusyOn
<1>6. active = 0 /\ Executing = {}
  BY <1>5, FS_EmptySet DEF RunInv, CountsBusy, Busy, Executing
<1>7. QED
  BY <1>3, <1>6

(* A run of a pool with workers ends with every node complete, no command  *)
(* unpublished and no callback active: the fatal check of                  *)
(* ecs_worker_pool_run never fires and no command of a worker is lost.     *)
THEOREM RunsFinish ==
  ASSUME Workers # {}
  PROVE  Spec => []RunFinished
<1>1. RunInv /\ [Next]_vars => RunInv'
  BY RunStep
<1>2. QED
  BY RunInit, <1>1, RunInvEnds, PTL DEF Spec

(* While the calling thread publishes, with the reservations returned and  *)
(* the mutex free, no callback executes anywhere.                          *)
THEOREM PublishesAlone ==
  ASSUME Workers # {}
  PROVE  Spec => [](pc[Main] = "publish" => Executing = {})
<1>1. RunInv /\ [Next]_vars => RunInv'
  BY RunStep
<1>2. RunInv => (pc[Main] = "publish" => Executing = {})
  BY DEF RunInv, CallerPhase, Busy, Executing
<1>3. QED
  BY RunInit, <1>1, <1>2, PTL DEF Spec

-----------------------------------------------------------------------------
(***************************************************************************)
(* That Scheduler runs callbacks and publishes their commands in the order *)
(* of its plan, for every number of systems, workers, runs and changes.    *)
(*                                                                         *)
(* A node that is started and not complete has only released predecessors, *)
(* and released nodes have no portion running.  So two callbacks that run  *)
(* together have no edge between them; what is left to show is that the    *)
(* plan is up to date whenever two callbacks can run together.             *)
(***************************************************************************)
Unfinished == started \ complete
Exclusive  == Main \in Busy /\ NodeOf(Main) \in MainOnly

(* The order in which a node's flags are raised and its jobs spent.        *)
ReleasedDone ==
  /\ released \subseteq complete
  /\ \A n \in released : jobs[n] = {}
  /\ ~inRun => \A n \in Systems : jobs[n] = {}
PublishesFinished == publishing => Unfinished = {}
Publications ==
  /\ published[1] <= cursor
  /\ published[1] = cursor => cursor \in complete /\ \A o \in jobs[cursor] : published[2] < o

(* What the threads between claim and Finish work on.                      *)
Claims ==
  /\ \A t \in Busy : /\ NodeOf(t) \in started
                     /\ NodeOf(t) \in MainOnly => t = Main
                     /\ pc[t] # "exec" => NodeOf(t) \in MainOnly
  /\ started \ Parallel \subseteq exhausted
  /\ \A t, u \in Busy : t # u /\ NodeOf(t) = NodeOf(u) => NodeOf(t) \in Parallel
ForcedRun ==
  inRun /\ forced => /\ Busy \subseteq {Main}
                     /\ \E n \in Systems : Systems \ {n} \subseteq released
Window == inRun /\ ~forced /\ ~publishing /\ pc[Main] # "exclusive" => allocating
PlanCurrent == ~planDirty => edges = PlanEdges

PhaseInv == /\ RunInv /\ ReleasedDone /\ PublishesFinished /\ Publications
            /\ Claims /\ ForcedRun /\ Window /\ PlanCurrent

(* A node starts with all its predecessors released, and a plan built when *)
(* some nodes have started finds them complete.                            *)
Prerequisites ==
  inRun /\ ~publishing =>
    \A a, b \in Systems : <<a, b>> \in edges /\ b \in Unfinished => a \in released

EdgeInv == PhaseInv /\ PendingCounts /\ Prerequisites

(* Outside an exclusive callback a plan that is out of date has nothing    *)
(* unfinished; inside one, nothing else is unfinished or can start.        *)
Ordered ==
  inRun /\ ~forced =>
    /\ ~Exclusive => Unfinished \subseteq enabled
    /\ ~Exclusive /\ ~publishing /\ planDirty => draining /\ Unfinished = {}
    /\ Exclusive =>
         /\ Unfinished \subseteq {NodeOf(Main)}
         /\ \A n \in enabled \ {NodeOf(Main)} :
              <<n, NodeOf(Main)>> \in edges \/ <<NodeOf(Main), n>> \in edges

OrderInv == EdgeInv /\ Ordered

-----------------------------------------------------------------------------
(* What RunInv says of a busy thread and of the node it works on.          *)
LEMMA BusyFacts ==
  ASSUME RunInv
  PROVE  /\ \A t \in Busy : /\ t \in Threads /\ NodeOf(t) \in Systems
                            /\ NodeOf(t) \notin complete
                            /\ inRun /\ ~publishing
         /\ \A n \in Systems : running[n] # 0 => \E t \in Busy : NodeOf(t) = n
<1>1. ASSUME NEW t \in Busy
      PROVE  /\ t \in Threads /\ NodeOf(t) \in Systems /\ NodeOf(t) \notin complete
             /\ inRun /\ ~publishing
  <2>1. t \in Threads /\ NodeOf(t) \in Systems /\ t \in BusyOn(NodeOf(t))
    BY DEF RunInv, CountsBusy, Busy, BusyOn
  <2>2. running[NodeOf(t)] # 0
    BY <2>1, BusyFinite, FS_EmptySet DEF RunInv, CountsBusy
  <2>3. QED
    BY <2>1, <2>2 DEF RunInv, FlagsAgree, CallerPhase
<1>2. ASSUME NEW n \in Systems, running[n] # 0 PROVE \E t \in Busy : NodeOf(t) = n
  <2>1. BusyOn(n) # {}
    BY <1>2, FS_EmptySet DEF RunInv, CountsBusy
  <2>2. QED
    BY <2>1 DEF BusyOn
<1>3. QED
  BY <1>1, <1>2

(* A woken thread is not a busy one: the others stay where they are.       *)
LEMMA OthersStay ==
  ASSUME TypeOK, NEW t \in Threads, NEW at, NEW woken \in SUBSET Waiting, GoTo(t, at, woken)
  PROVE  \A u \in Busy \ {t} : pc'[u] = pc[u]
  BY DEF GoTo, Waiting, Busy

(* Completing a node moves no other thread out of a callback.              *)
LEMMA CompleteStays ==
  ASSUME TypeOK, NEW n, NEW stored, NEW queue, NEW drain, NEW t \in Threads, NEW at,
         Complete(n, stored, queue, drain, t, at)
  PROVE  \A u \in Busy \ {t} : pc'[u] = pc[u]
<1>1. PICK W \in SUBSET Waiting : GoTo(t, at, W)
  BY WokenWait DEF Complete
<1>2. QED
  BY <1>1, OthersStay

(* The effect of a claim.                                                  *)
LEMMA TakeBatchEffect ==
  ASSUME Workers # {}, RunInv, Claims, NEW t \in Threads, NEW n \in Systems, TakeBatch(t, n)
  PROVE  /\ t \notin Busy /\ Busy' = Busy \cup {t}
         /\ pc'[t] = "exec" /\ \A u \in Busy : pc'[u] = pc[u]
         /\ NodeOf(t)' = n /\ \A u \in Busy : NodeOf(u)' = NodeOf(u)
         /\ n \in ready /\ n \notin exhausted /\ n \notin complete
         /\ Eligible(t, n) /\ n \in enabled
         /\ started' = started \cup {n}
         /\ \/ exhausted' = exhausted /\ ready' = ready /\ n \in Parallel
            \/ exhausted' = exhausted \cup {n} /\ ready' = ready \ {n}
         /\ inRun /\ ~publishing /\ (t # Main => ~forced)
         /\ UNCHANGED <<enabled, conflicts, planDirty, edges, pending, jobs, complete, released,
                        cursor, draining, inRun, publishing, forced, allocating, published>>
<1>1. /\ pc[t] = "take" /\ inRun /\ ~publishing /\ n \in ready /\ (t # Main => ~forced)
      /\ Eligible(t, n) /\ n \in enabled /\ started' = started \cup {n}
      /\ UNCHANGED <<enabled, conflicts, planDirty, edges, pending, jobs, complete, released,
                     cursor, draining, inRun, publishing, forced, allocating, published>>
  BY DEF TakeBatch, TakeAllowed, Candidates, planVars, poolFlags, history
<1>2. n \notin exhausted /\ n \notin complete
  BY <1>1 DEF RunInv, FlagsAgree
<1>3. PICK rest \in Portions(n), k \in 1..BatchSize :
        /\ k <= rest
        /\ batch' = [batch EXCEPT ![t] = [node |-> n,
             ordinals |-> {o \in Ordinals : issued[n] <= o /\ o < issued[n] + k}]]
        /\ exhausted' = IF k = rest THEN exhausted \cup {n} ELSE exhausted
        /\ ready' = IF k = rest THEN ready \ {n} ELSE ready
        /\ \E W \in WokenBy(IF k < rest /\ Workers # {} THEN 1 ELSE 0) : GoTo(t, "exec", W)
  BY DEF TakeBatch
<1>4. PICK W \in SUBSET Waiting : GoTo(t, "exec", W)
  BY <1>3, WokenWait
<1>5. n \in Parallel \/ k = rest
  <2>1. SUFFICES ASSUME n \notin Parallel PROVE k = rest
    OBVIOUS
  <2>2. n \notin started
    BY <1>2, <2>1 DEF Claims
  <2>3. rest = 1
    BY <2>1, <2>2 DEF Portions
  <2>4. QED
    BY <1>3, <2>3, ConstantsAssumption DEF ConstantsAssumption
<1>6. t \notin Busy /\ Busy' = Busy \cup {t} /\ pc'[t] = "exec"
  BY <1>1, <1>4, BusyMoves DEF RunInv, Busy
<1>7. \A u \in Busy : pc'[u] = pc[u]
  BY <1>4, <1>6, OthersStay DEF RunInv
<1>8. NodeOf(t)' = n /\ \A u \in Busy : NodeOf(u)' = NodeOf(u)
  BY <1>3, <1>6 DEF NodeOf, RunInv, TypeOK, Busy
<1>9. QED
  BY <1>1, <1>2, <1>3, <1>5, <1>6, <1>7, <1>8

(* A popped node with nothing to run is complete unless it is running.     *)
LEMMA TakeExhaustedEffect ==
  ASSUME Workers # {}, RunInv, Claims, NEW t \in Threads, NEW n \in Systems, TakeExhausted(t, n)
  PROVE  /\ Busy' = Busy /\ \A u \in Busy : pc'[u] = pc[u]
         /\ \A u : NodeOf(u)' = NodeOf(u)
         /\ pc[t] = "take" /\ pc'[t] = "take"
         /\ n \in ready /\ n \notin exhausted /\ n \notin complete
         /\ Eligible(t, n)
         /\ started' = started \cup {n} /\ exhausted' = exhausted \cup {n}
         /\ \/ /\ running[n] = 0 /\ Complete(n, jobs, ready \ {n}, draining, t, "take")
               /\ complete' = complete \cup {n}
            \/ /\ n \in started
               /\ ready' = ready \ {n}
               /\ UNCHANGED <<complete, released, pending, cursor, draining, pc>>
         /\ inRun /\ ~publishing
         /\ UNCHANGED <<enabled, conflicts, planDirty, edges, jobs, inRun, publishing, forced,
                        allocating, published>>
<1>1. /\ pc[t] = "take" /\ inRun /\ ~publishing /\ n \in ready /\ Eligible(t, n)
      /\ started' = started \cup {n} /\ exhausted' = exhausted \cup {n}
      /\ UNCHANGED <<enabled, conflicts, planDirty, edges, jobs, inRun, publishing, forced,
                     allocating, batch, published>>
  BY DEF TakeExhausted, TakeAllowed, Candidates, planVars, poolFlags, history
<1>2. n \notin exhausted /\ n \notin complete
  BY <1>1 DEF RunInv, FlagsAgree
<1>3. \A u : NodeOf(u)' = NodeOf(u)
  BY <1>1 DEF NodeOf
<1>4. CASE running[n] = 0
  <2>1. Complete(n, jobs, ready \ {n}, draining, t, "take")
    BY <1>4 DEF TakeExhausted
  <2>2. Busy' = Busy \ {t} /\ pc'[t] = "take" /\ \A u \in Busy \ {t} : pc'[u] = pc[u]
    BY <2>1, CompleteMoves, CompleteStays DEF RunInv
  <2>3. t \notin Busy /\ complete' = complete \cup {n}
    BY <1>1, <2>1 DEF Busy, Complete
  <2>4. QED
    BY <1>1, <1>2, <1>3, <1>4, <2>1, <2>2, <2>3
<1>5. CASE running[n] # 0
  <2>1. ready' = ready \ {n} /\ UNCHANGED <<complete, released, pending, cursor, draining, pc>>
    BY <1>5 DEF TakeExhausted
  <2>2. n \in started
    BY <1>5, BusyFacts DEF Claims
  <2>3. QED
    BY <1>1, <1>2, <1>3, <2>1, <2>2 DEF Busy
<1>6. QED
  BY <1>4, <1>5

(* A thread that finishes its batch leaves Busy; its node is complete when *)
(* it was the last.                                                        *)
LEMMA FinishEffect ==
  ASSUME Workers # {}, RunInv, NEW t \in Threads, NEW n \in Systems, NEW wrote \in SUBSET Ordinals,
         Finish(t, n, wrote)
  PROVE  /\ t \in Busy /\ Busy' = Busy \ {t} /\ n = NodeOf(t)
         /\ \A u \in Busy' : pc'[u] = pc[u] /\ NodeOf(u)' = NodeOf(u)
         /\ n \notin complete /\ pc'[t] = "lock"
         /\ jobs' = [jobs EXCEPT ![n] = @ \cup wrote]
         /\ \/ /\ n \in exhausted /\ running[n] = 1
               /\ Complete(n, jobs', ready, draining \/ (n \in MainOnly /\ planDirty), t, "lock")
               /\ complete' = complete \cup {n}
            \/ /\ ~(n \in exhausted /\ running[n] = 1)
               /\ draining' = (draining \/ (n \in MainOnly /\ planDirty))
               /\ UNCHANGED <<complete, released, pending, ready, cursor>>
         /\ inRun /\ ~publishing
         /\ UNCHANGED <<enabled, conflicts, planDirty, edges, started, exhausted, inRun, publishing,
                        forced, allocating, published>>
<1>1. /\ pc[t] \in {"exec", "finish"} /\ n = NodeOf(t)
      /\ jobs' = [jobs EXCEPT ![n] = @ \cup wrote]
      /\ batch' = [batch EXCEPT ![t] = NoBatch]
      /\ UNCHANGED <<enabled, conflicts, planDirty, edges, started, exhausted, inRun, publishing,
                     forced, allocating, published>>
  BY DEF Finish, planVars, poolFlags, history
<1>2. t \in Busy /\ n \notin complete /\ inRun /\ ~publishing
  BY <1>1, BusyFacts DEF Busy
<1>3. CASE n \in exhausted /\ running[n] = 1
  <2>1. Complete(n, jobs', ready, draining \/ (n \in MainOnly /\ planDirty), t, "lock")
    BY <1>3 DEF Finish
  <2>2. Busy' = Busy \ {t} /\ pc'[t] = "lock" /\ \A u \in Busy \ {t} : pc'[u] = pc[u]
    BY <2>1, CompleteMoves, CompleteStays DEF RunInv
  <2>3. \A u \in Busy' : NodeOf(u)' = NodeOf(u)
    BY <1>1, <2>2 DEF NodeOf, RunInv, TypeOK, Busy
  <2>4. complete' = complete \cup {n}
    BY <2>1 DEF Complete
  <2>5. QED
    BY <1>1, <1>2, <1>3, <2>1, <2>2, <2>3, <2>4
<1>4. CASE ~(n \in exhausted /\ running[n] = 1)
  <2>1. /\ GoTo(t, "lock", WaitingCaller)
        /\ draining' = (draining \/ (n \in MainOnly /\ planDirty))
        /\ UNCHANGED <<complete, released, pending, ready, cursor>>
    BY <1>4 DEF Finish
  <2>2. Busy' = Busy \ {t} /\ pc'[t] = "lock" /\ \A u \in Busy \ {t} : pc'[u] = pc[u]
    BY <2>1, WokenWait, BusyMoves, OthersStay DEF RunInv
  <2>3. \A u \in Busy' : NodeOf(u)' = NodeOf(u)
    BY <1>1, <2>2 DEF NodeOf, RunInv, TypeOK, Busy
  <2>4. QED
    BY <1>1, <1>2, <1>4, <2>1, <2>2, <2>3
<1>5. QED
  BY <1>3, <1>4

(* The steps that only move a thread or turn a phase of the pool.          *)
Turn ==
  \/ \E t \in Threads : \/ Lock(t) \/ SpuriousWake(t) \/ TakeNothing(t)
                        \/ ExclusiveBegin(t) \/ ExclusiveEnd(t)
  \/ LoopTake \/ PublishBegin \/ LoopEnd \/ Join \/ Stop

(* A turn touches no node and moves no thread out of a callback; only the  *)
(* caller, with an exclusive one to execute, moves on in it.               *)
LEMMA TurnEffect ==
  ASSUME RunInv, Claims, Turn
  PROVE  /\ UNCHANGED <<enabled, conflicts, planDirty, edges, pending, jobs, started, exhausted,
                        complete, released, ready, cursor, draining, forced, batch, published>>
         /\ Busy' = Busy /\ \A u : NodeOf(u)' = NodeOf(u)
         /\ \A u \in Busy : pc'[u] = pc[u] \/ NodeOf(u) \in MainOnly
         /\ inRun' => inRun
         /\ publishing' = publishing \/ PublishBegin
         /\ publishing => publishing'
         /\ ~inRun' => ~inRun \/ LoopEnd
<1> TypeOK /\ Main \in Threads
  BY DEF RunInv, Threads
<1>1. ASSUME NEW t \in Threads, Lock(t) \/ SpuriousWake(t) \/ TakeNothing(t)
             \/ ExclusiveBegin(t) \/ ExclusiveEnd(t)
      PROVE  /\ UNCHANGED <<enabled, conflicts, planDirty, edges, pending, jobs, started, exhausted,
                            complete, released, ready, cursor, draining, forced, batch, published,
                            inRun, publishing>>
             /\ Busy' = Busy /\ \A u \in Busy : pc'[u] = pc[u] \/ NodeOf(u) \in MainOnly
  <2>1. UNCHANGED <<enabled, conflicts, planDirty, edges, pending, jobs, started, exhausted,
                    complete, released, ready, cursor, draining, forced, batch, published,
                    inRun, publishing>>
    BY <1>1 DEF Lock, SpuriousWake, TakeNothing, ExclusiveBegin, ExclusiveEnd, planVars,
                nodeCount, nodeFlags, poolFlags, history
  <2>2. CASE Lock(t) \/ SpuriousWake(t) \/ TakeNothing(t)
    <3>1. PICK at \in {"loop", "done", "take", "lock", "wait"} :
            GoTo(t, at, {}) /\ pc[t] \in {"lock", "wait", "take"}
      BY <2>2 DEF Lock, SpuriousWake, TakeNothing
    <3>2. QED
      BY <2>1, <3>1, BusyMoves, OthersStay DEF Busy
  <2>3. CASE ExclusiveBegin(t) \/ ExclusiveEnd(t)
    <3>1. PICK at \in {"exclusive", "finish"} : GoTo(t, at, {}) /\ pc[t] \in {"exec", "exclusive"}
      BY <2>3 DEF ExclusiveBegin, ExclusiveEnd
    <3>2. NodeOf(t) \in MainOnly
      BY <2>3 DEF ExclusiveBegin, ExclusiveEnd, Claims, Busy
    <3>3. QED
      BY <2>1, <3>1, <3>2, BusyMoves, OthersStay DEF Busy
  <2>4. QED
    BY <1>1, <2>2, <2>3, <2>1
<1>2. ASSUME LoopTake \/ PublishBegin \/ LoopEnd \/ Join \/ Stop
      PROVE  /\ UNCHANGED <<enabled, conflicts, planDirty, edges, pending, jobs, started, exhausted,
                            complete, released, ready, cursor, draining, forced, batch, published>>
             /\ Busy' = Busy /\ \A u \in Busy : pc'[u] = pc[u]
  <2>1. UNCHANGED <<enabled, conflicts, planDirty, edges, pending, jobs, started, exhausted,
                    complete, released, ready, cursor, draining, forced, batch, published>>
    BY <1>2 DEF LoopTake, PublishBegin, LoopEnd, Join, Stop, planVars,
                nodeCount, nodeFlags, poolFlags, history
  <2>2. PICK at \in {"take", "publish", "idle", "done", "join"}, W \in SUBSET Waiting :
          GoTo(Main, at, W) /\ pc[Main] \in {"loop", "join", "idle"}
    BY <1>2 DEF LoopTake, PublishBegin, LoopEnd, Join, Stop
  <2>3. QED
    BY <2>1, <2>2, BusyMoves, OthersStay DEF Busy
<1>3. ASSUME LoopTake \/ Join \/ Stop PROVE UNCHANGED <<inRun, publishing>>
  BY <1>3 DEF LoopTake, Join, Stop, poolFlags
<1>4. ASSUME PublishBegin PROVE inRun' = inRun /\ publishing'
  BY <1>4 DEF PublishBegin
<1>5. ASSUME LoopEnd PROVE ~inRun' /\ publishing' = publishing
  BY <1>5 DEF LoopEnd
<1>6. QED
  BY <1>1, <1>2, <1>3, <1>4, <1>5 DEF Turn, NodeOf

(* What completing a node does to its flags and to the cursor.             *)
LEMMA CompleteFlags ==
  ASSUME TypeOK, NEW n \in Systems, NEW stored, NEW queue, NEW drain \in BOOLEAN, NEW t, NEW at,
         Complete(n, stored, queue, drain, t, at)
  PROVE  /\ complete' = complete \cup {n}
         /\ released' = IF stored[n] = {} THEN released \cup {n} ELSE released
         /\ cursor <= cursor' /\ cursor' \in Int
         /\ drain => draining'
<1>1. PICK c \in cursor..(NumSystems + 1) : cursor' = c /\ draining' = (drain \/ c \in complete \cup {n})
  BY DEF Complete, Advance
<1>2. cursor <= cursor' /\ cursor' \in Int
  BY <1>1 DEF TypeOK
<1>3. drain => draining'
  BY <1>1
<1>4. QED
  BY <1>2, <1>3 DEF Complete

(* The phases of a run are consistent at the start.                        *)
LEMMA PhaseInit == Init => PhaseInv
<1> SUFFICES ASSUME Init PROVE PhaseInv
  OBVIOUS
<1>1. Busy = {}
  BY DEF Init, Busy, Threads
<1>2. ReleasedDone /\ PublishesFinished /\ Claims /\ ForcedRun /\ Window /\ PlanCurrent
  BY <1>1 DEF Init, ReleasedDone, PublishesFinished, Unfinished, Claims, ForcedRun, Window,
              PlanCurrent
<1>3. Publications
  BY DEF Init, Publications
<1>4. QED
  BY <1>2, <1>3, RunInit DEF PhaseInv

(* The start of a run.                                                     *)
LEMMA PhaseStartRun ==
  ASSUME Workers # {}, PhaseInv, RunInv', NEW live \in SUBSET Systems, NEW byHand \in BOOLEAN,
         StartRun(live, byHand)
  PROVE  PhaseInv'
<1>1. /\ started' = {} /\ complete' = Systems \ live /\ exhausted' = Systems \ live
      /\ released' = Systems \ live /\ inRun' /\ jobs' = jobs /\ forced' = byHand
      /\ publishing' = publishing /\ published' = <<0, 0>>
      /\ allocating' = (Workers # {} /\ ~byHand)
      /\ byHand => \E n \in enabled : live = {n}
      /\ UNCHANGED <<enabled, conflicts>>
      /\ pc[Main] = "idle"
  BY DEF StartRun
<1>2. Busy = {} /\ ~inRun /\ ~publishing
  BY <1>1 DEF PhaseInv, RunInv, CallerPhase
<1>3. Busy' = {}
  <2>1. Waiting \in SUBSET Waiting /\ GoTo(Main, "loop", Waiting) /\ Main \in Threads
    BY DEF StartRun, Threads
  <2>2. QED
    BY <2>1, <1>2, BusyMoves DEF PhaseInv, RunInv
<1>4. ReleasedDone'
  BY <1>1, <1>2 DEF PhaseInv, ReleasedDone
<1>5. PublishesFinished' /\ Claims' /\ Window'
  BY <1>1, <1>2, <1>3 DEF PublishesFinished, Claims, Window
<1>6. Publications'
  BY <1>1 DEF Publications, RunInv, TypeOK
<1>7. ForcedRun'
  BY <1>1, <1>3 DEF ForcedRun, PhaseInv, RunInv, TypeOK
<1>8. PlanCurrent'
  BY <1>1 DEF StartRun, Dependencies, PhaseInv, PlanCurrent, PlanEdges, Conflict
<1>9. QED
  BY <1>4, <1>5, <1>6, <1>7, <1>8 DEF PhaseInv

(* A change of the world by a callback keeps them.                         *)
LEMMA PhaseWorld ==
  ASSUME PhaseInv, RunInv', WorldStep
  PROVE  PhaseInv'
<1>1. planDirty' /\ UNCHANGED <<jobs, started, exhausted, complete, released, cursor, inRun,
                                publishing, forced, allocating, pc, batch, published>>
  BY DEF WorldStep, Toggle, Retable, nodeCount, nodeFlags, poolFlags
<1>2. Busy' = Busy /\ \A u : NodeOf(u)' = NodeOf(u)
  BY <1>1 DEF Busy, NodeOf
<1>3. QED
  BY <1>1, <1>2 DEF PhaseInv, ReleasedDone, PublishesFinished, Unfinished, Publications, Claims,
                    ForcedRun, Window, PlanCurrent

(* A turn of a thread or of the publication keeps them.                    *)
LEMMA PhaseTurn ==
  ASSUME Workers # {}, PhaseInv, RunInv', Turn
  PROVE  PhaseInv'
<1> RunInv /\ TypeOK /\ Claims /\ Main \in Threads
  BY DEF PhaseInv, RunInv, Threads
<1>1. /\ UNCHANGED <<enabled, conflicts, planDirty, edges, jobs, started, exhausted,
                     complete, released, cursor, forced, published>>
      /\ Busy' = Busy /\ \A u : NodeOf(u)' = NodeOf(u)
      /\ \A u \in Busy : pc'[u] = pc[u] \/ NodeOf(u) \in MainOnly
      /\ inRun' => inRun
  BY TurnEffect
<1>2. ReleasedDone'
  <2>1. ASSUME LoopEnd PROVE \A n \in Systems : jobs[n] = {}
    <3>1. \A n \in Systems : n < cursor
      BY <2>1, ConstantsAssumption DEF ConstantsAssumption, LoopEnd, TypeOK, Systems
    <3>2. QED
      BY <3>1 DEF RunInv, PrefixDone
  <2>2. ~inRun' => ~inRun \/ LoopEnd
    BY TurnEffect
  <2>3. QED
    BY <1>1, <2>1, <2>2 DEF PhaseInv, ReleasedDone
<1>3. PublishesFinished'
  <2>1. ASSUME PublishBegin PROVE Unfinished = {}
    BY <2>1 DEF PublishBegin, Quiescent, Unfinished
  <2>2. publishing' = publishing \/ PublishBegin
    BY TurnEffect
  <2>3. QED
    BY <1>1, <2>1, <2>2 DEF PhaseInv, PublishesFinished, Unfinished
<1>4. Publications' /\ Claims' /\ ForcedRun' /\ PlanCurrent'
  BY <1>1 DEF PhaseInv, Publications, Claims, ForcedRun, PlanCurrent, PlanEdges, Conflict
<1>5. Window'
  <2>1. ASSUME NEW t \in Threads, Lock(t) \/ SpuriousWake(t) \/ TakeNothing(t) PROVE Window'
    <3>1. UNCHANGED <<inRun, publishing, forced, allocating>>
      BY <2>1 DEF Lock, SpuriousWake, TakeNothing, poolFlags
    <3>2. pc'[Main] # "exclusive" => pc[Main] # "exclusive"
      BY <2>1 DEF Lock, SpuriousWake, TakeNothing, GoTo
    <3>3. QED
      BY <3>1, <3>2 DEF PhaseInv, Window
  <2>2. ASSUME NEW t \in Threads, ExclusiveBegin(t) PROVE Window'
    <3>1. t = Main /\ pc'[t] = "exclusive"
      BY <2>2 DEF ExclusiveBegin, Claims, Busy, GoTo
    <3>2. QED
      BY <3>1 DEF Window
  <2>3. ASSUME NEW t \in Threads, ExclusiveEnd(t) PROVE Window'
    BY <2>3 DEF ExclusiveEnd, Reserving, Window
  <2>4. ASSUME LoopTake \/ Join \/ Stop PROVE Window'
    <3>1. UNCHANGED <<inRun, publishing, forced, allocating>> /\ pc[Main] # "exclusive"
      BY <2>4 DEF LoopTake, Join, Stop, poolFlags
    <3>2. QED
      BY <3>1 DEF PhaseInv, Window
  <2>5. ASSUME PublishBegin \/ LoopEnd PROVE Window'
    BY <2>5 DEF PublishBegin, LoopEnd, Window
  <2>6. QED
    BY <2>1, <2>2, <2>3, <2>4, <2>5 DEF Turn
<1>6. QED
  BY <1>2, <1>3, <1>4, <1>5 DEF PhaseInv

(* Taking a node with nothing left keeps them.                             *)
LEMMA PhaseTakeExhausted ==
  ASSUME Workers # {}, PhaseInv, RunInv', NEW t \in Threads, NEW n \in Systems, TakeExhausted(t, n)
  PROVE  PhaseInv'
<1> RunInv /\ TypeOK /\ Claims /\ Main \in Threads
  BY DEF PhaseInv, RunInv, Threads
<1>1. /\ Busy' = Busy /\ (\A u \in Busy : pc'[u] = pc[u]) /\ (\A u : NodeOf(u)' = NodeOf(u))
      /\ pc[t] = "take" /\ pc'[t] = "take" /\ n \notin exhausted /\ n \notin complete
      /\ started' = started \cup {n} /\ exhausted' = exhausted \cup {n}
      /\ inRun /\ ~publishing
      /\ UNCHANGED <<enabled, conflicts, planDirty, edges, jobs, inRun, publishing, forced,
                     allocating, published>>
  BY TakeExhaustedEffect
<1>2. /\ complete \subseteq complete' /\ cursor <= cursor'
      /\ released \subseteq released' /\ released' \subseteq released \cup {n}
      /\ n \in released' => n \in complete' /\ jobs[n] = {}
  <2>1. CASE Complete(n, jobs, ready \ {n}, draining, t, "take")
    <3>1. draining \in BOOLEAN
      BY DEF TypeOK
    <3>2. /\ complete' = complete \cup {n} /\ cursor <= cursor'
          /\ released' = IF jobs[n] = {} THEN released \cup {n} ELSE released
      BY <2>1, <3>1, CompleteFlags
    <3>3. QED
      BY <1>1, <3>2 DEF PhaseInv, ReleasedDone
  <2>2. CASE UNCHANGED <<complete, released, cursor>>
    BY <2>2, <1>1 DEF PhaseInv, ReleasedDone, TypeOK
  <2>3. QED
    BY <2>1, <2>2, TakeExhaustedEffect
<1>3. ReleasedDone' /\ PublishesFinished' /\ Claims' /\ ForcedRun' /\ PlanCurrent'
  BY <1>1, <1>2 DEF PhaseInv, ReleasedDone, PublishesFinished, Claims, ForcedRun, PlanCurrent,
                    PlanEdges, Conflict
<1>4. Publications'
  BY <1>1, <1>2 DEF PhaseInv, Publications, RunInv, TypeOK
<1>5. Window'
  <2>1. pc'[Main] = "exclusive" <=> pc[Main] = "exclusive"
    BY <1>1 DEF Busy
  <2>2. QED
    BY <1>1, <2>1 DEF PhaseInv, Window
<1>6. QED
  BY <1>3, <1>4, <1>5 DEF PhaseInv

(* Taking a portion keeps them.                                            *)
LEMMA PhaseTakeBatch ==
  ASSUME Workers # {}, PhaseInv, RunInv', NEW t \in Threads, NEW n \in Systems, TakeBatch(t, n)
  PROVE  PhaseInv'
<1> RunInv /\ TypeOK /\ Claims /\ Main \in Threads
  BY DEF PhaseInv, RunInv, Threads
<1>1. /\ t \notin Busy /\ Busy' = Busy \cup {t}
      /\ pc'[t] = "exec" /\ (\A u \in Busy : pc'[u] = pc[u])
      /\ NodeOf(t)' = n /\ (\A u \in Busy : NodeOf(u)' = NodeOf(u))
      /\ n \notin exhausted /\ n \notin complete /\ Eligible(t, n)
      /\ started' = started \cup {n}
      /\ (exhausted' = exhausted /\ n \in Parallel) \/ exhausted' = exhausted \cup {n}
      /\ inRun /\ ~publishing /\ (t # Main => ~forced)
      /\ UNCHANGED <<enabled, conflicts, planDirty, edges, jobs, complete, released,
                     cursor, inRun, publishing, forced, allocating, published>>
  BY TakeBatchEffect
<1>2. ReleasedDone' /\ PublishesFinished' /\ Publications' /\ ForcedRun' /\ PlanCurrent'
  BY <1>1 DEF PhaseInv, ReleasedDone, PublishesFinished, Publications, ForcedRun, PlanCurrent,
              PlanEdges, Conflict
<1>3. Claims'
  <2>1. n \in MainOnly => t = Main
    BY <1>1 DEF Eligible
  <2>2. \A u \in Busy : NodeOf(u) = n => n \in Parallel
    BY <1>1 DEF Claims
  <2>3. (started \cup {n}) \ Parallel \subseteq exhausted'
    BY <1>1 DEF Claims
  <2>4. \A u \in Busy' : /\ NodeOf(u)' \in started' /\ (NodeOf(u)' \in MainOnly => u = Main)
                         /\ (pc'[u] # "exec" => NodeOf(u)' \in MainOnly)
    BY <1>1, <2>1 DEF Claims
  <2>5. \A u, v \in Busy' : u # v /\ NodeOf(u)' = NodeOf(v)' => NodeOf(u)' \in Parallel
    BY <1>1, <2>2 DEF Claims
  <2>6. QED
    BY <1>1, <2>3, <2>4, <2>5 DEF Claims
<1>4. Window'
  <2>1. pc[Main] = "exclusive" => pc'[Main] = "exclusive"
    BY <1>1 DEF Busy
  <2>2. QED
    BY <1>1, <2>1 DEF PhaseInv, Window
<1>5. QED
  BY <1>2, <1>3, <1>4 DEF PhaseInv

(* Finishing a portion keeps them, whatever it completes.                  *)
LEMMA PhaseFinish ==
  ASSUME Workers # {}, PhaseInv, RunInv', NEW t \in Threads, NEW n \in Systems,
         NEW wrote \in SUBSET Ordinals, Finish(t, n, wrote)
  PROVE  PhaseInv'
<1> RunInv /\ TypeOK /\ TypeOK' /\ Claims /\ Main \in Threads
  BY DEF PhaseInv, RunInv, Threads
<1>1. /\ t \in Busy /\ Busy' = Busy \ {t} /\ n = NodeOf(t)
      /\ (\A u \in Busy' : pc'[u] = pc[u] /\ NodeOf(u)' = NodeOf(u))
      /\ n \notin complete /\ pc'[t] = "lock"
      /\ jobs' = [jobs EXCEPT ![n] = @ \cup wrote]
      /\ inRun /\ ~publishing
      /\ UNCHANGED <<enabled, conflicts, planDirty, edges, started, exhausted, inRun, publishing,
                     forced, allocating, published>>
  BY FinishEffect
<1>2. \A m \in Systems \ {n} : jobs'[m] = jobs[m]
  BY <1>1 DEF TypeOK
<1>3. /\ complete \subseteq complete' /\ cursor <= cursor'
      /\ released \subseteq released' /\ released' \subseteq released \cup {n}
      /\ n \in released' => n \in complete' /\ jobs'[n] = {}
  <2>1. n \notin released
    BY <1>1 DEF PhaseInv, ReleasedDone
  <2>2. CASE Complete(n, jobs', ready, draining \/ (n \in MainOnly /\ planDirty), t, "lock")
    <3>1. (draining \/ (n \in MainOnly /\ planDirty)) \in BOOLEAN
      BY DEF TypeOK
    <3>2. /\ complete' = complete \cup {n} /\ cursor <= cursor'
          /\ released' = IF jobs'[n] = {} THEN released \cup {n} ELSE released
      BY <2>2, <3>1, CompleteFlags
    <3>3. QED
      BY <2>1, <3>2
  <2>3. CASE UNCHANGED <<complete, released, cursor>>
    BY <2>1, <2>3 DEF TypeOK
  <2>4. QED
    BY <2>2, <2>3, FinishEffect
<1>4. released' \subseteq Systems /\ released \subseteq Systems
  BY DEF TypeOK
<1>5. ReleasedDone'
  BY <1>1, <1>2, <1>3, <1>4 DEF PhaseInv, ReleasedDone
<1>6. PublishesFinished' /\ Claims' /\ ForcedRun' /\ PlanCurrent'
  BY <1>1, <1>3 DEF PhaseInv, PublishesFinished, Claims, ForcedRun, PlanCurrent, PlanEdges, Conflict
<1>7. Publications'
  <2>1. published \in (0..NumSystems) \X Ordinals
    BY DEF TypeOK
  <2>2. published[1] <= cursor'
    BY <1>3, <2>1 DEF PhaseInv, Publications, TypeOK
  <2>3. ASSUME published[1] = cursor'
        PROVE  cursor' \in complete' /\ \A o \in jobs'[cursor'] : published[2] < o
    <3>1. cursor' = cursor /\ cursor \in complete
      BY <1>3, <2>1, <2>3 DEF PhaseInv, Publications, TypeOK
    <3>2. cursor # n /\ cursor \in Systems
      BY <1>1, <3>1 DEF TypeOK
    <3>3. QED
      BY <1>2, <1>3, <2>3, <3>1, <3>2 DEF PhaseInv, Publications
  <2>4. QED
    BY <1>1, <2>2, <2>3 DEF Publications
<1>8. Window'
  <2>1. pc[Main] = "exclusive" => pc'[Main] = "exclusive"
    <3>1. pc[t] # "exclusive"
      BY DEF Finish
    <3>2. QED
      BY <1>1, <3>1 DEF Busy
  <2>2. QED
    BY <1>1, <2>1 DEF PhaseInv, Window
<1>9. QED
  BY <1>5, <1>6, <1>7, <1>8 DEF PhaseInv

(* The publication of a job, of a node and its end.                        *)
LEMMA PhasePublish ==
  ASSUME Workers # {}, PhaseInv, RunInv', PublishNode \/ \E o \in Ordinals : PublishJob(o)
  PROVE  PhaseInv'
<1> RunInv /\ TypeOK /\ TypeOK' /\ Claims /\ Main \in Threads
  BY DEF PhaseInv, RunInv, Threads
<1>1. /\ pc[Main] = "publish" /\ cursor \in complete /\ cursor \in Systems
      /\ UNCHANGED <<enabled, conflicts, planDirty, edges, started, exhausted, complete, inRun,
                     publishing, forced, allocating, pc, batch>>
  BY DEF PublishNode, PublishJob, planVars, nodeFlags, poolFlags, history, TypeOK
<1>2. publishing /\ inRun
  BY <1>1 DEF RunInv, CallerPhase
<1>3. Busy' = Busy /\ \A u : NodeOf(u)' = NodeOf(u)
  BY <1>1 DEF Busy, NodeOf
<1>4. released \subseteq released' /\ (\A n \in Systems : jobs'[n] \subseteq jobs[n])
      /\ released' \subseteq complete /\ (\A n \in released' : jobs'[n] = {})
  <2>1. CASE PublishNode
    BY <2>1 DEF PublishNode, nodeCount, PhaseInv, ReleasedDone
  <2>2. ASSUME NEW o \in Ordinals, PublishJob(o)
        PROVE  released' = released /\ \A n \in Systems : jobs'[n] \subseteq jobs[n]
    BY <2>2 DEF PublishJob, nodeFlags, TypeOK
  <2>3. released \subseteq Systems
    BY DEF TypeOK
  <2>4. QED
    BY <2>1, <2>2, <2>3 DEF PhaseInv, ReleasedDone
<1>5. ReleasedDone' /\ PublishesFinished' /\ Claims' /\ ForcedRun' /\ Window' /\ PlanCurrent'
  BY <1>1, <1>2, <1>3, <1>4 DEF PhaseInv, ReleasedDone, PublishesFinished, Unfinished, Claims,
                                ForcedRun, Window, PlanCurrent, PlanEdges, Conflict
<1>6. Publications'
  <2>1. published \in (0..NumSystems) \X Ordinals
    BY DEF TypeOK
  <2>2. CASE PublishNode
    <3>1. cursor' = cursor + 1 /\ published' = published
      BY <2>2 DEF PublishNode, history
    <3>2. published[1] <= cursor /\ cursor \in Int /\ published[1] \in Int
      BY <2>1 DEF PhaseInv, Publications, TypeOK
    <3>3. QED
      BY <3>1, <3>2 DEF Publications
  <2>3. ASSUME NEW o \in Ordinals, PublishJob(o) PROVE Publications'
    <3>1. /\ cursor' = cursor /\ published' = <<cursor, o>>
          /\ jobs' = [jobs EXCEPT ![cursor] = @ \ {o}]
          /\ \A other \in jobs[cursor] : o <= other
      BY <2>3 DEF PublishJob
    <3>2. jobs'[cursor] = jobs[cursor] \ {o} /\ jobs[cursor] \subseteq Ordinals
      BY <1>1, <3>1 DEF TypeOK
    <3>3. \A other \in jobs'[cursor] : o < other
      BY <3>1, <3>2 DEF Ordinals
    <3>4. QED
      BY <1>1, <3>1, <3>3 DEF Publications, TypeOK
  <2>4. QED
    BY <2>2, <2>3
<1>7. QED
  BY <1>5, <1>6 DEF PhaseInv

(* The end of a publication keeps them.                                    *)
LEMMA PhasePublishEnd ==
  ASSUME Workers # {}, PhaseInv, RunInv', PublishEnd
  PROVE  PhaseInv'
<1> RunInv /\ TypeOK /\ Claims /\ Main \in Threads
  BY DEF PhaseInv, RunInv, Threads
<1>1. /\ pc[Main] = "publish" /\ ~publishing' /\ allocating' = Reserving
      /\ GoTo(Main, "loop", Waiting)
      /\ UNCHANGED <<enabled, conflicts, jobs, started, exhausted, complete, released, inRun,
                     forced, batch, published>>
  BY DEF PublishEnd, nodeFlags, history
<1>2. Busy = {} /\ Busy' = {} /\ inRun
  <2>1. Waiting \in SUBSET Waiting /\ Busy = {} /\ inRun
    BY <1>1 DEF RunInv, CallerPhase
  <2>2. QED
    BY <1>1, <2>1, BusyMoves
<1>3. ReleasedDone' /\ PublishesFinished' /\ Claims' /\ ForcedRun'
  BY <1>1, <1>2 DEF PhaseInv, ReleasedDone, PublishesFinished, Claims, ForcedRun
<1>4. Window'
  BY <1>1 DEF Window, Reserving
<1>5. PlanCurrent'
  BY <1>1 DEF PublishEnd, Dependencies, PhaseInv, PlanCurrent, PlanEdges, Conflict
<1>6. Publications'
  <2>1. cursor <= cursor'
    BY DEF PublishEnd, Advance, TypeOK
  <2>2. cursor' = cursor \/ cursor < cursor'
    BY <2>1 DEF RunInv, TypeOK
  <2>3. QED
    BY <1>1, <2>1, <2>2 DEF PhaseInv, Publications, RunInv, TypeOK
<1>7. QED
  BY <1>3, <1>4, <1>5, <1>6 DEF PhaseInv

(* The steps, as the proofs group them.                                    *)
LEMMA NextSplit ==
  ASSUME [Next]_vars
  PROVE  \/ \E live \in SUBSET Systems, byHand \in BOOLEAN : StartRun(live, byHand)
         \/ WorldStep
         \/ Turn
         \/ \E t \in Threads, n \in Systems : TakeExhausted(t, n)
         \/ \E t \in Threads, n \in Systems : TakeBatch(t, n)
         \/ \E t \in Threads, n \in Systems, wrote \in SUBSET Ordinals : Finish(t, n, wrote)
         \/ PublishNode \/ \E o \in Ordinals : PublishJob(o)
         \/ PublishEnd
         \/ UNCHANGED vars
<1>1. ASSUME NEW t \in Threads, ThreadStep(t)
      PROVE  \/ Turn
             \/ \E n \in Systems : TakeExhausted(t, n)
             \/ \E n \in Systems : TakeBatch(t, n)
             \/ \E n \in Systems, wrote \in SUBSET Ordinals : Finish(t, n, wrote)
  BY <1>1 DEF ThreadStep, Turn
<1>2. Main \in Threads /\ Workers \subseteq Threads
  BY DEF Threads
<1>3. CASE CallerStep
  BY <1>1, <1>2, <1>3 DEF CallerStep, Turn
<1>4. CASE \E w \in Workers : ThreadStep(w)
  BY <1>1, <1>2, <1>4
<1>5. CASE Stop \/ \E t \in Threads : SpuriousWake(t)
  BY <1>5 DEF Turn
<1>6. CASE Terminated
  BY <1>6 DEF Terminated
<1>7. QED
  BY <1>3, <1>4, <1>5, <1>6 DEF Next

(* The phases of a run are inductive.                                      *)
LEMMA PhaseStep ==
  ASSUME Workers # {}, PhaseInv, [Next]_vars
  PROVE  PhaseInv'
<1>1. RunInv'
  BY RunStep DEF PhaseInv
<1>2. CASE UNCHANGED vars
  <2>1. Busy' = Busy /\ \A u : NodeOf(u)' = NodeOf(u)
    BY <1>2 DEF vars, Busy, NodeOf
  <2>2. QED
    BY <1>1, <1>2, <2>1 DEF vars, PhaseInv, ReleasedDone, PublishesFinished, Unfinished,
         Publications, Claims, ForcedRun, Window, PlanCurrent, PlanEdges, Conflict
<1>3. QED
  BY <1>1, <1>2, NextSplit, PhaseStartRun, PhaseWorld, PhaseTurn, PhaseTakeExhausted,
     PhaseTakeBatch, PhaseFinish, PhasePublish, PhasePublishEnd

-----------------------------------------------------------------------------
(* A rebuilt plan counts the unreleased predecessors of the nodes that have *)
(* not started and enqueues those that have none.                          *)
LEMMA DependenciesCount ==
  ASSUME Workers # {}, NEW begun, NEW spent, NEW freed, Dependencies(begun, spent, freed)
  PROVE  \A n \in Systems \ begun :
           /\ pending'[n] = Cardinality(Unreleased(n, edges', freed))
           /\ n \in ready' => pending'[n] = 0
           /\ n \notin spent /\ pending'[n] = 0 => n \in ready'
<1> DEFINE plan == IF planDirty THEN PlanEdges ELSE edges
           count == [n \in Systems |->
                      IF n \in begun THEN 0 ELSE Cardinality(Unreleased(n, plan, freed))]
<1>1. edges' = plan /\ pending' = count /\ ready' = {n \in Systems \ spent : count[n] = 0}
  BY DEF Dependencies
<1>2. \A n \in Systems \ begun : count[n] = Cardinality(Unreleased(n, plan, freed))
  OBVIOUS
<1> HIDE DEF plan, count
<1>3. QED
  BY <1>1, <1>2

(* A node that is ready and has not started has no unreleased predecessor. *)
LEMMA ReadyReleased ==
  ASSUME TypeOK, PendingCounts, inRun, ~publishing, NEW n \in ready, n \notin started
  PROVE  \A m \in Systems : <<m, n>> \in edges => m \in released
<1>1. n \in Systems
  BY DEF TypeOK
<1>2. Cardinality(Unreleased(n, edges, released)) = 0
  BY <1>1 DEF PendingCounts
<1>3. Unreleased(n, edges, released) = {}
  BY <1>2, UnreleasedFinite, FS_EmptySet
<1>4. QED
  BY <1>3 DEF Unreleased

(* A release takes one from the count of each successor.                   *)
LEMMA UnreleasedLess ==
  ASSUME NEW n \in Systems, n \notin released, NEW m
  PROVE  Cardinality(Unreleased(m, edges, released \cup {n})) =
           IF <<n, m>> \in edges THEN Cardinality(Unreleased(m, edges, released)) - 1
                                 ELSE Cardinality(Unreleased(m, edges, released))
<1>1. CASE <<n, m>> \in edges
  <2>1. /\ Unreleased(m, edges, released \cup {n}) = Unreleased(m, edges, released) \ {n}
        /\ n \in Unreleased(m, edges, released)
    BY <1>1 DEF Unreleased
  <2>2. QED
    BY <1>1, <2>1, UnreleasedFinite, FS_RemoveElement
<1>2. CASE <<n, m>> \notin edges
  <2>1. Unreleased(m, edges, released \cup {n}) = Unreleased(m, edges, released)
    BY <1>2 DEF Unreleased
  <2>2. QED
    BY <1>2, <2>1
<1>3. QED
  BY <1>1, <1>2

(* Completing a node lowers what its successors wait for by exactly one.   *)
LEMMA CompletePending ==
  ASSUME Workers # {}, TypeOK, PendingCounts, inRun, ~publishing,
         NEW n \in Systems, n \notin released, NEW stored, NEW queue \in SUBSET ready,
         NEW drain, NEW t, NEW at, Complete(n, stored, queue, drain, t, at),
         ready \subseteq queue \cup {n}, UNCHANGED edges,
         started' = started \cup {n}, exhausted' = exhausted \cup {n}
  PROVE  PendingCounts'
<1> DEFINE freed == IF stored[n] = {} THEN Successors(n) ELSE {}
<1>1. /\ released' = IF stored[n] = {} THEN released \cup {n} ELSE released
      /\ pending' = [m \in Systems |-> IF m \in freed THEN pending[m] - 1 ELSE pending[m]]
      /\ ready' = queue \cup {m \in freed : pending[m] = 1 /\ m \notin exhausted /\ m \notin ready}
  BY DEF Complete, Enqueued
<1>2. SUFFICES ASSUME NEW m \in Systems, m \notin started'
               PROVE  /\ pending'[m] = Cardinality(Unreleased(m, edges', released'))
                      /\ m \in ready' => pending'[m] = 0
                      /\ m \notin exhausted' /\ pending'[m] = 0 => m \in ready'
  BY DEF PendingCounts
<1>3. /\ m # n /\ m \notin started
      /\ pending[m] = Cardinality(Unreleased(m, edges, released))
      /\ m \in ready => pending[m] = 0
      /\ m \notin exhausted /\ pending[m] = 0 => m \in ready
  BY <1>2 DEF PendingCounts
<1>4. pending[m] \in Nat
  BY DEF TypeOK
<1>5. <<n, m>> \in edges => pending[m] > 0
  <2>1. SUFFICES ASSUME <<n, m>> \in edges PROVE Unreleased(m, edges, released) # {}
    BY <1>3, <1>4, UnreleasedFinite, FS_EmptySet
  <2>2. QED
    BY <2>1 DEF Unreleased
<1>6. m \in freed <=> stored[n] = {} /\ <<n, m>> \in edges
  BY <1>3, <1>5 DEF Successors
<1>7. pending'[m] = IF m \in freed THEN pending[m] - 1 ELSE pending[m]
  BY <1>1
<1>8. pending'[m] = Cardinality(Unreleased(m, edges', released'))
  <2>1. CASE stored[n] = {}
    <3>1. released' = released \cup {n}
      BY <1>1, <2>1
    <3>2. QED
      BY <1>3, <1>6, <1>7, <2>1, <3>1, UnreleasedLess
  <2>2. CASE stored[n] # {}
    <3>1. released' = released
      BY <1>1, <2>2
    <3>2. QED
      BY <1>3, <1>6, <1>7, <2>2, <3>1
  <2>3. QED
    BY <2>1, <2>2
<1>9. m \in freed => pending[m] > 0
  BY <1>5, <1>6
<1> HIDE DEF freed
<1>10. m \in ready' => pending'[m] = 0
  BY <1>1, <1>3, <1>4, <1>7, <1>9
<1>11. m \notin exhausted' /\ pending'[m] = 0 => m \in ready'
  BY <1>1, <1>3, <1>4, <1>7, <1>9
<1>12. QED
  BY <1>8, <1>10, <1>11

(* The edges and counters agree at the start.                              *)
LEMMA EdgeInit == Init => EdgeInv
<1> SUFFICES ASSUME Init PROVE EdgeInv
  OBVIOUS
<1>1. PendingCounts /\ Prerequisites
  BY DEF Init, PendingCounts, Prerequisites
<1>2. QED
  BY <1>1, PhaseInit DEF EdgeInv

(* They stay in agreement through releases, drains and new plans.          *)
LEMMA EdgeStep ==
  ASSUME Workers # {}, EdgeInv, [Next]_vars
  PROVE  EdgeInv'
<1> PhaseInv /\ PhaseInv' /\ RunInv /\ TypeOK /\ Claims /\ ReleasedDone
  BY PhaseStep DEF EdgeInv, PhaseInv, RunInv
<1>1. ASSUME NEW live \in SUBSET Systems, NEW byHand \in BOOLEAN, StartRun(live, byHand)
      PROVE  PendingCounts' /\ Prerequisites'
  <2>1. /\ Dependencies({}, Systems \ live, Systems \ live)
        /\ released' = Systems \ live /\ exhausted' = Systems \ live /\ started' = {}
    BY <1>1 DEF StartRun
  <2>2. PendingCounts'
    BY <2>1, DependenciesCount DEF PendingCounts
  <2>3. Prerequisites'
    BY <2>1 DEF Prerequisites, Unfinished
  <2>4. QED
    BY <2>2, <2>3
<1>2. CASE WorldStep
  <2>1. UNCHANGED <<edges, pending, started, exhausted, complete, released, ready, inRun, publishing>>
    BY <1>2 DEF WorldStep, Toggle, Retable, nodeCount, nodeFlags, poolFlags
  <2>2. QED
    BY <2>1 DEF EdgeInv, PendingCounts, Unreleased, Prerequisites, Unfinished
<1>3. CASE Turn
  <2>1. /\ UNCHANGED <<edges, pending, started, exhausted, complete, released, ready>>
        /\ inRun' => inRun
        /\ publishing => publishing'
    BY <1>3, TurnEffect
  <2>2. QED
    BY <2>1 DEF EdgeInv, PendingCounts, Unreleased, Prerequisites, Unfinished
<1>4. ASSUME NEW t \in Threads, NEW n \in Systems, TakeExhausted(t, n)
      PROVE  PendingCounts' /\ Prerequisites'
  <2>1. /\ n \in ready /\ n \notin complete
        /\ started' = started \cup {n} /\ exhausted' = exhausted \cup {n}
        /\ inRun /\ ~publishing /\ UNCHANGED <<edges, inRun, publishing>>
    BY <1>4, TakeExhaustedEffect
  <2>2. n \notin released
    BY <2>1 DEF ReleasedDone
  <2>3. CASE Complete(n, jobs, ready \ {n}, draining, t, "take")
    <3>1. PendingCounts'
      BY <2>1, <2>2, <2>3, CompletePending DEF EdgeInv
    <3>2. complete' = complete \cup {n} /\ released \subseteq released'
      BY <2>3 DEF Complete
    <3>3. Prerequisites'
      BY <2>1, <3>2 DEF EdgeInv, Prerequisites, Unfinished
    <3>4. QED
      BY <3>1, <3>3
  <2>4. CASE n \in started /\ ready' = ready \ {n} /\ UNCHANGED <<complete, released, pending>>
    BY <2>1, <2>4 DEF EdgeInv, PendingCounts, Unreleased, Prerequisites, Unfinished
  <2>5. QED
    BY <1>4, <2>3, <2>4, TakeExhaustedEffect
<1>5. ASSUME NEW t \in Threads, NEW n \in Systems, TakeBatch(t, n)
      PROVE  PendingCounts' /\ Prerequisites'
  <2>1. /\ n \in ready /\ n \notin complete /\ started' = started \cup {n}
        /\ (exhausted' = exhausted /\ ready' = ready)
           \/ (exhausted' = exhausted \cup {n} /\ ready' = ready \ {n})
        /\ inRun /\ ~publishing
        /\ UNCHANGED <<edges, pending, complete, released, inRun, publishing>>
    BY <1>5, TakeBatchEffect
  <2>2. PendingCounts'
    BY <2>1 DEF EdgeInv, PendingCounts, Unreleased
  <2>3. n \notin started => \A m \in Systems : <<m, n>> \in edges => m \in released
    BY <2>1, ReadyReleased DEF EdgeInv
  <2>4. Prerequisites'
    BY <2>1, <2>3 DEF EdgeInv, Prerequisites, Unfinished
  <2>5. QED
    BY <2>2, <2>4
<1>6. ASSUME NEW t \in Threads, NEW n \in Systems, NEW wrote \in SUBSET Ordinals, Finish(t, n, wrote)
      PROVE  PendingCounts' /\ Prerequisites'
  <2>1. /\ t \in Busy /\ n = NodeOf(t) /\ n \notin complete /\ inRun /\ ~publishing
        /\ UNCHANGED <<edges, started, exhausted, inRun, publishing>>
    BY <1>6, FinishEffect
  <2>2. n \in started /\ n \notin released
    BY <2>1 DEF Claims, ReleasedDone
  <2>3. CASE /\ n \in exhausted
             /\ Complete(n, jobs', ready, draining \/ (n \in MainOnly /\ planDirty), t, "lock")
    <3>1. started' = started \cup {n} /\ exhausted' = exhausted \cup {n}
      BY <2>1, <2>2, <2>3
    <3>2. PendingCounts'
      BY <2>1, <2>2, <2>3, <3>1, CompletePending DEF EdgeInv
    <3>3. complete' = complete \cup {n} /\ released \subseteq released'
      BY <2>3 DEF Complete
    <3>4. Prerequisites'
      BY <2>1, <3>3 DEF EdgeInv, Prerequisites, Unfinished
    <3>5. QED
      BY <3>2, <3>4
  <2>4. CASE UNCHANGED <<complete, released, pending, ready>>
    BY <2>1, <2>4 DEF EdgeInv, PendingCounts, Unreleased, Prerequisites, Unfinished
  <2>5. QED
    BY <1>6, <2>3, <2>4, FinishEffect
<1>7. CASE PublishNode \/ \E o \in Ordinals : PublishJob(o)
  <2>1. pc[Main] = "publish" /\ publishing' = publishing
    BY <1>7 DEF PublishNode, PublishJob, poolFlags
  <2>2. publishing'
    BY <2>1 DEF RunInv, CallerPhase
  <2>3. QED
    BY <2>2 DEF EdgeInv, PendingCounts, Prerequisites
<1>8. CASE PublishEnd
  <2>1. /\ Dependencies(started, exhausted, released) /\ pc[Main] = "publish"
        /\ UNCHANGED <<started, exhausted, complete, released>>
    BY <1>8 DEF PublishEnd, nodeFlags
  <2>2. Unfinished' = {}
    BY <2>1 DEF PhaseInv, RunInv, CallerPhase, PublishesFinished, Unfinished
  <2>3. PendingCounts'
    BY <2>1, DependenciesCount DEF PendingCounts
  <2>4. QED
    BY <2>2, <2>3 DEF EdgeInv, Prerequisites
<1>9. CASE UNCHANGED vars
  BY <1>9 DEF vars, EdgeInv, PendingCounts, Unreleased, Prerequisites, Unfinished
<1>10. QED
  BY <1>1, <1>2, <1>3, <1>4, <1>5, <1>6, <1>7, <1>8, <1>9, NextSplit DEF EdgeInv

-----------------------------------------------------------------------------
(* Two systems the plan must keep apart are joined by an edge when both are *)
(* enabled.                                                                *)
Joined(m, n) == <<m, n>> \in edges \/ <<n, m>> \in edges

(* A plan that is up to date has an edge between any two systems that must *)
(* not overlap.                                                            *)
LEMMA PlanJoins ==
  ASSUME edges = PlanEdges, TypeOK, NEW m \in enabled, NEW n \in enabled, m # n,
         \/ Conflict(m, n) \/ Conflict(n, m)
         \/ <<m, n>> \in After \/ <<n, m>> \in After
  PROVE  Joined(m, n)
<1>1. m \in Systems /\ n \in Systems
  BY DEF TypeOK
<1>2. m \in Int /\ n \in Int /\ (m < n \/ n < m)
  BY <1>1, ConstantsAssumption DEF Systems, ConstantsAssumption
<1>3. \A a, b \in Systems : <<a, b>> \in conflicts \cup After => a < b
  BY ConstantsAssumption DEF ConstantsAssumption, TypeOK, Earlier
<1>4. CASE m < n
  <2>1. <<m, n>> \in Earlier
    BY <1>1, <1>4 DEF Earlier
  <2>2. Conflict(m, n) \/ <<m, n>> \in After
    BY <1>1, <1>2, <1>3, <1>4 DEF Conflict
  <2>3. QED
    BY <2>1, <2>2 DEF PlanEdges, Joined
<1>5. CASE n < m
  <2>1. <<n, m>> \in Earlier
    BY <1>1, <1>5 DEF Earlier
  <2>2. Conflict(n, m) \/ <<n, m>> \in After
    BY <1>1, <1>2, <1>3, <1>5 DEF Conflict
  <2>3. QED
    BY <2>1, <2>2 DEF PlanEdges, Joined
<1>6. QED
  BY <1>2, <1>4, <1>5

(* A node that can be claimed is joined to no unfinished node.             *)
LEMMA ReadyApart ==
  ASSUME EdgeInv, inRun, ~publishing, NEW n \in ready, NEW m \in Unfinished, m # n
  PROVE  ~Joined(m, n)
<1>1. /\ TypeOK /\ released \subseteq complete
      /\ n \in Systems /\ m \in Systems /\ n \notin complete /\ m \notin complete
  BY DEF EdgeInv, PhaseInv, RunInv, TypeOK, FlagsAgree, ReleasedDone, Unfinished
<1>2. <<n, m>> \notin edges
  BY <1>1 DEF EdgeInv, Prerequisites
<1>3. CASE n \in started
  <2>1. n \in Unfinished
    BY <1>1, <1>3 DEF Unfinished
  <2>2. QED
    BY <1>1, <1>2, <2>1 DEF EdgeInv, Prerequisites, Joined
<1>4. CASE n \notin started
  BY <1>1, <1>2, <1>4, ReadyReleased DEF EdgeInv, Joined
<1>5. QED
  BY <1>3, <1>4

(* A thread in a callback is in an unfinished node.                        *)
LEMMA BusyUnfinished ==
  ASSUME PhaseInv
  PROVE  \A t \in Busy : NodeOf(t) \in Unfinished /\ NodeOf(t) \in Systems
  BY BusyFacts DEF PhaseInv, Claims, Unfinished

(* Nothing has started at the start.                                       *)
LEMMA OrderInit == Init => OrderInv
<1>1. Init => Ordered
  BY DEF Init, Ordered
<1>2. QED
  BY <1>1, EdgeInit DEF OrderInv

(* In a run with workers, what changes the plan is an exclusive callback,  *)
(* which enables nothing, or a publication.                                *)
LEMMA OrderedWorld ==
  ASSUME Workers # {}, ~ExclusiveMayEnable, OrderInv, WorldStep
  PROVE  Ordered'
<1> RunInv /\ Claims /\ PublishesFinished /\ Main \in Threads
  BY DEF OrderInv, EdgeInv, PhaseInv, Threads
<1>1. /\ UNCHANGED <<edges, started, complete, draining, inRun, publishing, forced, pc, batch>>
      /\ MayChange
  BY DEF WorldStep, Toggle, Retable, nodeFlags, nodeCount, poolFlags
<1>2. (Exclusive' <=> Exclusive) /\ NodeOf(Main)' = NodeOf(Main) /\ Unfinished' = Unfinished
  BY <1>1 DEF Exclusive, Busy, NodeOf, Unfinished
<1>3. SUFFICES ASSUME inRun, ~forced PROVE Ordered'
  BY <1>1 DEF Ordered
<1>4. pc[Main] \in {"publish", "exclusive"}
  BY <1>1, <1>3 DEF MayChange, Deferred, RunInv, CallerPhase
<1>5. CASE pc[Main] = "publish"
  <2>1. publishing /\ Unfinished = {} /\ ~Exclusive
    BY <1>5 DEF RunInv, CallerPhase, PublishesFinished, Exclusive
  <2>2. QED
    BY <1>1, <1>2, <2>1 DEF Ordered
<1>6. CASE pc[Main] = "exclusive"
  <2>1. Exclusive
    BY <1>6 DEF Claims, Busy, Exclusive
  <2>2. enabled' \subseteq enabled
    BY <1>3, <1>6 DEF WorldStep, Toggle, Retable, Reserving
  <2>3. QED
    BY <1>1, <1>2, <1>3, <2>1, <2>2 DEF OrderInv, Ordered
<1>7. QED
  BY <1>4, <1>5, <1>6

(* What starts has no unreleased predecessor.                              *)
LEMMA OrderedTakeBatch ==
  ASSUME Workers # {}, OrderInv, NEW t \in Threads, NEW n \in Systems, TakeBatch(t, n)
  PROVE  Ordered'
<1> EdgeInv /\ PhaseInv /\ RunInv /\ TypeOK /\ Claims /\ Main \in Threads
  BY DEF OrderInv, EdgeInv, PhaseInv, RunInv, Threads
<1>1. /\ t \notin Busy /\ Busy' = Busy \cup {t}
      /\ NodeOf(t)' = n /\ (\A u \in Busy : NodeOf(u)' = NodeOf(u))
      /\ n \in ready /\ n \notin exhausted /\ n \notin complete
      /\ Eligible(t, n) /\ n \in enabled /\ started' = started \cup {n}
      /\ inRun /\ ~publishing
      /\ UNCHANGED <<enabled, planDirty, edges, complete, draining, inRun, publishing, forced>>
  BY TakeBatchEffect
<1>2. SUFFICES ASSUME ~forced PROVE Ordered'
  BY <1>1 DEF Ordered
<1>3. ~Exclusive
  <2>1. SUFFICES ASSUME Exclusive PROVE FALSE
    OBVIOUS
  <2>2. /\ NodeOf(Main) \in Unfinished /\ NodeOf(Main) \in exhausted
    BY <2>1, BusyUnfinished, ConstantsAssumption
       DEF ConstantsAssumption, Exclusive, Claims
  <2>3. NodeOf(Main) # n /\ Joined(NodeOf(Main), n)
    BY <1>1, <1>2, <2>1, <2>2 DEF OrderInv, Ordered, Joined
  <2>4. QED
    BY <1>1, <2>2, <2>3, ReadyApart
<1>4. ~planDirty /\ edges = PlanEdges
  <2>1. SUFFICES ASSUME planDirty PROVE FALSE
    BY DEF PhaseInv, PlanCurrent
  <2>2. draining /\ Unfinished = {}
    BY <1>1, <1>2, <1>3, <2>1 DEF OrderInv, Ordered
  <2>3. n \in Unfinished
    BY <1>1, <2>2 DEF Eligible, Unfinished
  <2>4. QED
    BY <2>2, <2>3
<1>5. Unfinished \subseteq enabled /\ Unfinished' = Unfinished \cup {n}
  BY <1>1, <1>2, <1>3 DEF OrderInv, Ordered, Unfinished
<1>6. CASE n \in MainOnly
  <2>1. t = Main
    BY <1>1, <1>6 DEF Eligible
  <2>2. Exclusive' /\ NodeOf(Main)' = n
    BY <1>1, <1>6, <2>1 DEF Exclusive
  <2>3. \A m \in enabled \ {n} : Joined(m, n)
    BY <1>1, <1>4, <1>6, PlanJoins DEF Conflict
  <2>4. Unfinished \subseteq {n}
    BY <1>1, <1>5, <2>3, ReadyApart
  <2>5. QED
    BY <1>1, <1>5, <2>2, <2>3, <2>4 DEF Ordered, Joined
<1>7. CASE n \notin MainOnly
  <2>1. ~Exclusive'
    BY <1>1, <1>3, <1>7 DEF Exclusive
  <2>2. QED
    BY <1>1, <1>4, <1>5, <2>1 DEF Ordered
<1>8. QED
  BY <1>6, <1>7

(* What finishes lets go of nothing that is still running.                 *)
LEMMA OrderedFinish ==
  ASSUME Workers # {}, OrderInv, NEW t \in Threads, NEW n \in Systems,
         NEW wrote \in SUBSET Ordinals, Finish(t, n, wrote)
  PROVE  Ordered'
<1> EdgeInv /\ PhaseInv /\ RunInv /\ TypeOK /\ Claims /\ Main \in Threads
  BY DEF OrderInv, EdgeInv, PhaseInv, RunInv, Threads
<1> DEFINE drain == draining \/ (n \in MainOnly /\ planDirty)
<1>1. /\ t \in Busy /\ Busy' = Busy \ {t} /\ n = NodeOf(t)
      /\ (\A u \in Busy' : NodeOf(u)' = NodeOf(u))
      /\ inRun /\ ~publishing
      /\ UNCHANGED <<enabled, planDirty, edges, started, inRun, publishing, forced>>
  BY FinishEffect
<1>2. (drain => draining') /\ complete \subseteq complete'
  <2>1. CASE Complete(n, jobs', ready, drain, t, "lock")
    <3>1. drain \in BOOLEAN
      BY DEF TypeOK
    <3>2. QED
      BY <2>1, <3>1, CompleteFlags
  <2>2. CASE draining' = drain /\ complete' = complete
    BY <2>2
  <2>3. QED
    BY <2>1, <2>2, FinishEffect
<1>3. Unfinished' \subseteq Unfinished
  BY <1>1, <1>2 DEF Unfinished
<1>4. SUFFICES ASSUME ~forced PROVE Ordered'
  BY <1>1 DEF Ordered
<1>5. CASE ~Exclusive
  <2>1. ~Exclusive'
    BY <1>1, <1>5 DEF Exclusive
  <2>2. QED
    BY <1>1, <1>2, <1>3, <1>4, <1>5, <2>1 DEF OrderInv, Ordered
<1>6. CASE Exclusive
  <2>1. Unfinished \subseteq {NodeOf(Main)}
    BY <1>1, <1>4, <1>6 DEF OrderInv, Ordered
  <2>2. n = NodeOf(Main) /\ n \in MainOnly
    BY <1>1, <1>6, <2>1, BusyUnfinished DEF Exclusive
  <2>3. t = Main
    BY <1>1, <2>2 DEF Claims
  <2>4. n \in exhausted
    BY <1>1, <2>2, ConstantsAssumption DEF ConstantsAssumption, Claims
  <2>5. BusyOn(n) = {Main}
    BY <1>1, <2>2, <2>3 DEF Claims, BusyOn
  <2>6. running[n] = 1
    BY <2>5, FS_Singleton DEF RunInv, CountsBusy
  <2>7. n \in complete'
    BY <2>4, <2>6, FinishEffect
  <2>8. Unfinished' = {} /\ ~Exclusive'
    BY <1>1, <1>3, <2>1, <2>2, <2>3, <2>7 DEF Unfinished, Exclusive
  <2>9. QED
    BY <1>1, <1>2, <2>2, <2>8 DEF Ordered
<1>7. QED
  BY <1>5, <1>6

(* The order of the callbacks is inductive.                                *)
LEMMA OrderStep ==
  ASSUME Workers # {}, ~ExclusiveMayEnable, OrderInv, [Next]_vars
  PROVE  OrderInv'
<1> EdgeInv /\ EdgeInv' /\ PhaseInv /\ PhaseInv' /\ RunInv /\ RunInv' /\ TypeOK /\ Claims
  BY EdgeStep DEF OrderInv, EdgeInv, PhaseInv, RunInv
<1>1. ASSUME NEW live \in SUBSET Systems, NEW byHand \in BOOLEAN, StartRun(live, byHand)
      PROVE  Ordered'
  <2>1. started' = {} /\ ~planDirty'
    BY <1>1 DEF StartRun, Dependencies
  <2>2. ~Exclusive'
    BY <2>1 DEF PhaseInv, Claims, Exclusive
  <2>3. QED
    BY <2>1, <2>2 DEF Ordered, Unfinished
<1>2. CASE Turn
  <2>1. /\ UNCHANGED <<enabled, planDirty, edges, started, complete, draining, forced>>
        /\ Busy' = Busy /\ \A u : NodeOf(u)' = NodeOf(u)
        /\ inRun' => inRun
        /\ publishing => publishing'
    BY <1>2, TurnEffect
  <2>2. QED
    BY <2>1 DEF OrderInv, Ordered, Exclusive, Unfinished
<1>3. ASSUME NEW t \in Threads, NEW n \in Systems, TakeExhausted(t, n)
      PROVE  Ordered'
  <2>1. /\ Busy' = Busy /\ (\A u : NodeOf(u)' = NodeOf(u))
        /\ started' = started \cup {n}
        /\ UNCHANGED <<enabled, planDirty, edges, inRun, publishing, forced>>
    BY <1>3, TakeExhaustedEffect
  <2>2. Unfinished' \subseteq Unfinished /\ (draining => draining')
    <3>1. CASE Complete(n, jobs, ready \ {n}, draining, t, "take")
      <4>1. draining \in BOOLEAN
        BY DEF TypeOK
      <4>2. complete' = complete \cup {n} /\ (draining => draining')
        BY <3>1, <4>1, CompleteFlags
      <4>3. QED
        BY <2>1, <4>2 DEF Unfinished
    <3>2. CASE n \in started /\ UNCHANGED <<complete, draining>>
      BY <2>1, <3>2 DEF Unfinished
    <3>3. QED
      BY <1>3, <3>1, <3>2, TakeExhaustedEffect
  <2>3. QED
    BY <2>1, <2>2 DEF OrderInv, Ordered, Exclusive
<1>4. CASE PublishNode \/ \E o \in Ordinals : PublishJob(o)
  <2>1. /\ pc[Main] = "publish"
        /\ UNCHANGED <<pc, batch, publishing, started, complete>>
    BY <1>4 DEF PublishNode, PublishJob, poolFlags, nodeFlags
  <2>2. publishing' /\ Unfinished' = {} /\ ~Exclusive'
    BY <2>1 DEF RunInv, CallerPhase, PhaseInv, PublishesFinished, Exclusive
  <2>3. QED
    BY <2>2 DEF OrderInv, Ordered
<1>5. CASE PublishEnd
  <2>1. /\ pc[Main] = "publish" /\ ~planDirty' /\ ~publishing' /\ pc'[Main] = "loop"
        /\ UNCHANGED <<started, complete>>
    BY <1>5 DEF PublishEnd, Dependencies, nodeFlags, GoTo, Threads
  <2>2. Unfinished' = {} /\ ~Exclusive'
    BY <2>1 DEF RunInv, CallerPhase, PhaseInv, PublishesFinished, Unfinished, Exclusive, Busy
  <2>3. QED
    BY <2>1, <2>2 DEF OrderInv, Ordered
<1>6. CASE UNCHANGED vars
  BY <1>6 DEF vars, OrderInv, Ordered, Exclusive, Busy, NodeOf, Unfinished
<1>7. QED
  BY <1>1, <1>2, <1>3, <1>4, <1>5, <1>6, NextSplit, OrderedWorld, OrderedTakeBatch, OrderedFinish
     DEF OrderInv

-----------------------------------------------------------------------------
(* The theorems.                                                           *)

(* While an exclusive callback runs outside a forced run, or anything runs *)
(* in a forced one, only the calling thread is busy.                       *)
LEMMA ExclusiveAlone ==
  ASSUME OrderInv, Exclusive \/ forced
  PROVE  Busy \subseteq {Main}
<1>1. SUFFICES ASSUME NEW t \in Busy PROVE t = Main
  OBVIOUS
<1>2. /\ PhaseInv /\ Claims /\ inRun /\ NodeOf(t) \in Unfinished
  BY <1>1, BusyUnfinished, BusyFacts DEF OrderInv, EdgeInv, PhaseInv
<1>3. CASE forced
  BY <1>1, <1>2, <1>3 DEF PhaseInv, ForcedRun
<1>4. CASE Exclusive /\ ~forced
  <2>1. NodeOf(t) = NodeOf(Main)
    BY <1>2, <1>4 DEF OrderInv, Ordered
  <2>2. QED
    BY <1>1, <1>2, <1>4, <2>1 DEF Claims, Exclusive
<1>5. QED
  BY <1>3, <1>4

(* Ordered callbacks do not conflict.                                      *)
LEMMA OrderSeparates == OrderInv => NoConflictingCallbacks
<1> SUFFICES ASSUME OrderInv, NEW t \in Executing, NEW u \in Executing, t # u
             PROVE  IF NodeOf(t) = NodeOf(u) THEN NodeOf(t) \in Parallel
                    ELSE /\ ~Conflict(NodeOf(t), NodeOf(u)) /\ ~Conflict(NodeOf(u), NodeOf(t))
                         /\ {<<NodeOf(t), NodeOf(u)>>, <<NodeOf(u), NodeOf(t)>>} \cap After = {}
  BY DEF NoConflictingCallbacks
<1> DEFINE a == NodeOf(t)
           b == NodeOf(u)
<1>1. /\ PhaseInv /\ EdgeInv /\ TypeOK /\ t \in Busy /\ u \in Busy
      /\ released \subseteq complete
  BY DEF OrderInv, EdgeInv, PhaseInv, RunInv, ReleasedDone, Executing, Busy
<1>2. /\ a \in Unfinished /\ b \in Unfinished /\ a \in Systems /\ b \in Systems
      /\ inRun /\ ~publishing
  BY <1>1, BusyUnfinished, BusyFacts DEF PhaseInv
<1>3. ~Exclusive /\ ~forced
  BY <1>1, ExclusiveAlone
<1>4. a \in enabled /\ b \in enabled /\ edges = PlanEdges
  BY <1>1, <1>2, <1>3 DEF OrderInv, Ordered, PhaseInv, PlanCurrent
<1>5. ~Joined(a, b)
  BY <1>1, <1>2 DEF EdgeInv, Prerequisites, Joined, Unfinished
<1>6. CASE a = b
  BY <1>1, <1>6 DEF PhaseInv, Claims
<1>7. CASE a # b
  <2>1. ~Conflict(a, b) /\ ~Conflict(b, a) /\ <<a, b>> \notin After /\ <<b, a>> \notin After
    BY <1>1, <1>4, <1>5, <1>7, PlanJoins
  <2>2. QED
    BY <1>7, <2>1
<1>8. QED
  BY <1>6, <1>7

(* No two callbacks run at once unless their systems may, however the plan *)
(* changes between runs, in publications and in exclusive callbacks, as    *)
(* long as exclusive callbacks enable no system.                           *)
THEOREM CallbacksSeparated ==
  ASSUME Workers # {}, ~ExclusiveMayEnable
  PROVE  Spec => []NoConflictingCallbacks
<1>1. OrderInv /\ [Next]_vars => OrderInv'
  BY OrderStep
<1>2. QED
  BY OrderInit, <1>1, OrderSeparates, PTL DEF Spec

(* While a main-thread-only callback runs, no other callback does.         *)
THEOREM MainOnlyRunsAlone ==
  ASSUME Workers # {}, ~ExclusiveMayEnable
  PROVE  Spec => []MainOnlyIsExclusive
<1>1. OrderInv /\ [Next]_vars => OrderInv'
  BY OrderStep
<1>2. OrderInv => MainOnlyIsExclusive
  <2>1. SUFFICES ASSUME OrderInv, pc[Main] = "exclusive" PROVE Executing = {Main}
    BY DEF MainOnlyIsExclusive
  <2>2. Main \in Busy /\ Main \in Executing
    BY <2>1 DEF Busy, Executing, Threads
  <2>3. Exclusive
    BY <2>1, <2>2 DEF OrderInv, EdgeInv, PhaseInv, Claims, Exclusive
  <2>4. Executing \subseteq Busy
    BY DEF Executing, Busy
  <2>5. QED
    BY <2>1, <2>2, <2>3, <2>4, ExclusiveAlone
<1>3. QED
  BY OrderInit, <1>1, <1>2, PTL DEF Spec

(* Reserved entity ids are returned only when no worker executes, and a    *)
(* worker executes only inside an open reservation window.                 *)
THEOREM ReservationsReturnedAlone ==
  ASSUME Workers # {}, ~ExclusiveMayEnable
  PROVE  Spec => []ReservationQuiescence
<1>1. OrderInv /\ [Next]_vars => OrderInv'
  BY OrderStep
<1>2. OrderInv => ReservationQuiescence
  <2>1. SUFFICES ASSUME OrderInv PROVE ReservationQuiescence
    OBVIOUS
  <2>2. Executing \subseteq Busy /\ PhaseInv /\ RunInv
    BY <2>1 DEF Executing, Busy, OrderInv, EdgeInv, PhaseInv
  <2>3. ASSUME pc[Main] = "exclusive" PROVE Executing \subseteq {Main}
    <3>1. Main \in Busy
      BY <2>3 DEF Busy, Threads
    <3>2. Exclusive
      BY <2>2, <2>3, <3>1 DEF PhaseInv, Claims, Exclusive
    <3>3. QED
      BY <2>1, <2>2, <3>2, ExclusiveAlone
  <2>4. ASSUME pc[Main] = "publish" PROVE Executing \subseteq {Main}
    BY <2>2, <2>4 DEF RunInv, CallerPhase
  <2>5. ASSUME NEW w \in Executing \cap Workers PROVE allocating
    <3>1. w \in Busy /\ w # Main /\ inRun /\ ~publishing
      BY <2>2, <2>5, BusyFacts, ConstantsAssumption DEF ConstantsAssumption
    <3>2. ~forced /\ pc[Main] # "exclusive"
      BY <2>1, <2>3, <2>5, <3>1, ExclusiveAlone
    <3>3. QED
      BY <2>2, <3>1, <3>2 DEF PhaseInv, Window
  <2>6. QED
    BY <2>3, <2>4, <2>5 DEF ReservationQuiescence
<1>3. QED
  BY OrderInit, <1>1, <1>2, PTL DEF Spec

(* The pending counter of a node that has not started is the number of its *)
(* unreleased predecessors, and the ready ring holds the nodes that wait   *)
(* for none.                                                               *)
THEOREM PendingIsExact ==
  ASSUME Workers # {}
  PROVE  Spec => []PendingCounts
<1>1. EdgeInv /\ [Next]_vars => EdgeInv'
  BY EdgeStep
<1>2. EdgeInv => PendingCounts
  BY DEF EdgeInv
<1>3. QED
  BY EdgeInit, <1>1, <1>2, PTL DEF Spec

(* A step that starts a system finds its prerequisites complete.           *)
LEMMA StartsInOrder ==
  ASSUME Workers # {}, ~ExclusiveMayEnable, OrderInv, [Next]_vars,
         NEW n \in (started' \ started) \cap enabled, NEW m \in enabled,
         m < n, Conflict(m, n) \/ <<m, n>> \in After
  PROVE  m \in complete /\ running[m] = 0 /\ jobs[m] = {}
<1> EdgeInv /\ PhaseInv /\ RunInv /\ TypeOK /\ Claims
  BY DEF OrderInv, EdgeInv, PhaseInv, RunInv
<1>1. PICK t \in Threads : TakeExhausted(t, n) \/ TakeBatch(t, n)
  <2>1. ASSUME NEW live \in SUBSET Systems, NEW byHand \in BOOLEAN, StartRun(live, byHand)
        PROVE  FALSE
    BY <2>1 DEF StartRun
  <2>2. ASSUME WorldStep \/ PublishNode \/ PublishEnd \/ (\E o \in Ordinals : PublishJob(o))
               \/ UNCHANGED vars
        PROVE  FALSE
    BY <2>2 DEF WorldStep, Toggle, Retable, PublishNode, PublishEnd, PublishJob, nodeFlags, vars
  <2>3. ASSUME Turn PROVE FALSE
    BY <2>3, TurnEffect
  <2>4. ASSUME NEW t \in Threads, NEW k \in Systems, NEW wrote \in SUBSET Ordinals,
               Finish(t, k, wrote)
        PROVE  FALSE
    BY <2>4, FinishEffect
  <2>5. ASSUME NEW t \in Threads, NEW k \in Systems, TakeExhausted(t, k) \/ TakeBatch(t, k)
        PROVE  k = n
    <3>1. CASE TakeExhausted(t, k)
      BY <3>1, TakeExhaustedEffect
    <3>2. CASE TakeBatch(t, k)
      BY <3>2, TakeBatchEffect
    <3>3. QED
      BY <2>5, <3>1, <3>2
  <2>6. \/ \E t \in Threads, k \in Systems : TakeExhausted(t, k)
        \/ \E t \in Threads, k \in Systems : TakeBatch(t, k)
    BY <2>1, <2>2, <2>3, <2>4, NextSplit
  <2>7. QED
    BY <2>5, <2>6
<1>2. /\ n \in ready /\ n \notin started /\ n \notin complete /\ n \in Systems
      /\ Eligible(t, n) /\ inRun /\ ~publishing
  BY <1>1, TakeExhaustedEffect, TakeBatchEffect DEF TypeOK
<1>3. m \in released
  <2>1. m \in Systems /\ m # n
    BY <1>2 DEF TypeOK, Systems
  <2>2. CASE forced
    <3>1. PICK k \in Systems : Systems \ {k} \subseteq released
      BY <1>2, <2>2 DEF PhaseInv, ForcedRun
    <3>2. n = k
      BY <1>2, <3>1 DEF PhaseInv, ReleasedDone
    <3>3. QED
      BY <2>1, <3>1, <3>2
  <2>3. CASE ~forced
    <3>1. ~draining
      BY <1>2 DEF Eligible
    <3>2. ~Exclusive
      <4>1. SUFFICES ASSUME Exclusive PROVE FALSE
        OBVIOUS
      <4>2. NodeOf(Main) \in Unfinished /\ NodeOf(Main) # n
        BY <1>2, <4>1, BusyUnfinished DEF Exclusive, Unfinished
      <4>3. Joined(NodeOf(Main), n)
        BY <1>2, <2>3, <4>1, <4>2 DEF OrderInv, Ordered, Joined
      <4>4. QED
        BY <1>2, <4>2, <4>3, ReadyApart
    <3>3. edges = PlanEdges
      BY <1>2, <2>3, <3>1, <3>2 DEF OrderInv, Ordered, PhaseInv, PlanCurrent
    <3>4. <<m, n>> \in edges
      BY <1>2, <2>1, <3>3 DEF PlanEdges, Earlier
    <3>5. QED
      BY <1>2, <2>1, <3>4, ReadyReleased DEF EdgeInv
  <2>4. QED
    BY <2>2, <2>3
<1>4. QED
  BY <1>3 DEF PhaseInv, ReleasedDone, RunInv, FlagsAgree

(* A system starts only when every enabled system that precedes it and     *)
(* conflicts with it, or is in its .after list, has finished and has had   *)
(* all its commands published.                                             *)
THEOREM StartsAfterItsPrerequisites ==
  ASSUME Workers # {}, ~ExclusiveMayEnable
  PROVE  Spec => StartsAfterPrerequisites
<1> DEFINE Starts == \A n \in (started' \ started) \cap enabled : \A m \in enabled :
                       m < n /\ (Conflict(m, n) \/ <<m, n>> \in After) =>
                         m \in complete /\ running[m] = 0 /\ jobs[m] = {}
<1>1. OrderInv /\ [Next]_vars => OrderInv'
  BY OrderStep
<1>2. OrderInv /\ [Next]_vars => [Starts]_vars
  BY StartsInOrder
<1>3. QED
  BY OrderInit, <1>1, <1>2, PTL DEF Spec, StartsAfterPrerequisites

(* A step that publishes moves on, with everything before it published.    *)
LEMMA PublishesInOrder ==
  ASSUME Workers # {}, PhaseInv, [Next]_vars, published' # published, published' # <<0, 0>>
  PROVE  /\ \/ published[1] < published'[1]
            \/ published[1] = published'[1] /\ published[2] < published'[2]
         /\ \A m \in Systems : m < published'[1] => m \in complete /\ jobs[m] = {}
         /\ Executing = {}
<1> RunInv /\ TypeOK /\ Claims
  BY DEF PhaseInv, RunInv
<1>1. PICK o \in Ordinals : PublishJob(o)
  <2>1. ASSUME NEW live \in SUBSET Systems, NEW byHand \in BOOLEAN, StartRun(live, byHand)
        PROVE  FALSE
    BY <2>1 DEF StartRun
  <2>2. ASSUME WorldStep \/ PublishNode \/ PublishEnd \/ UNCHANGED vars PROVE FALSE
    BY <2>2 DEF WorldStep, Toggle, Retable, PublishNode, PublishEnd, history, vars
  <2>3. ASSUME Turn PROVE FALSE
    BY <2>3, TurnEffect
  <2>4. ASSUME NEW t \in Threads, NEW n \in Systems, TakeExhausted(t, n) \/ TakeBatch(t, n)
        PROVE  FALSE
    BY <2>4, TakeExhaustedEffect, TakeBatchEffect
  <2>5. ASSUME NEW t \in Threads, NEW n \in Systems, NEW wrote \in SUBSET Ordinals,
               Finish(t, n, wrote)
        PROVE  FALSE
    BY <2>5, FinishEffect
  <2>6. QED
    BY <2>1, <2>2, <2>3, <2>4, <2>5, NextSplit
<1>2. pc[Main] = "publish" /\ o \in jobs[cursor] /\ published' = <<cursor, o>>
  BY <1>1 DEF PublishJob
<1>3. \/ published[1] < cursor
      \/ published[1] = cursor /\ published[2] < o
  BY <1>2 DEF PhaseInv, Publications, TypeOK
<1>4. Executing = {}
  BY <1>2 DEF RunInv, CallerPhase, Busy, Executing
<1>5. QED
  BY <1>2, <1>3, <1>4 DEF RunInv, PrefixDone

(* Commands are published in registration order and then portion order,    *)
(* whichever worker ran them, once everything before them is published,    *)
(* and never while a callback executes.                                    *)
THEOREM PublishesInRegistrationOrder ==
  ASSUME Workers # {}
  PROVE  Spec => PublicationInOrder
<1> DEFINE Publishes ==
      published' # published /\ published' # <<0, 0>> =>
        /\ \/ published[1] < published'[1]
           \/ published[1] = published'[1] /\ published[2] < published'[2]
        /\ \A m \in Systems : m < published'[1] => m \in complete /\ jobs[m] = {}
        /\ Executing = {}
<1>1. PhaseInv /\ [Next]_vars => PhaseInv'
  BY PhaseStep
<1>2. PhaseInv /\ [Next]_vars => [Publishes]_vars
  BY PublishesInOrder
<1>3. QED
  BY PhaseInit, <1>1, <1>2, PTL DEF Spec, PublicationInOrder

=============================================================================
