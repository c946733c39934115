------------------------------ MODULE Relations ------------------------------
(***************************************************************************)
(* Dense relations: src/src/relation.c, the hooks of src/src/component.c   *)
(* that keep the reverse index, ecs_kill_now of src/src/entity.c, and the  *)
(* relation and kill commands of src/src/command_buffer.c.                 *)
(*                                                                         *)
(* An edge of a relation is the source's target component, which holds the *)
(* target and the source's place in the target's list of sources; that     *)
(* list is a component of the target, removed when it is empty.  Killing   *)
(* runs the remove hooks of an entity's components in the order of their   *)
(* ids, a relation's target component just before its list of sources, and *)
(* the hook of the list kills or unrelates every source.  Kills nest, so a *)
(* call is a stack of frames, one hook per step.  Observers are left out.  *)
(***************************************************************************)
EXTENDS RelationGraph, Sequences, SequencesExt

CONSTANTS
  Acyclic,       \* relations registered with .acyclic
  Component,     \* the id of each relation's target; that of its sources is the next
  Deferrable,    \* relations whose edges are changed in defer scopes
  DeferKills,    \* entities killed in defer scopes: "none", "any", or those whose death
                 \* removes no edge, made or recorded, without its source: "unlinked"
  MaxCalls       \* bound: calls in a defer scope

ASSUME RelationsAssumption ==
  /\ Acyclic \subseteq Relations /\ Deferrable \subseteq Relations
  /\ DeferKills \in {"none", "unlinked", "any"} /\ MaxCalls \in Nat
  /\ Component \in [Relations -> Nat]
  /\ \A q, r \in Relations : Component[q] \in {Component[r], Component[r] + 1} => q = r

VARIABLES
  alive,     \* entities whose generation is current
  store,     \* of each relation the target and index of each source, the sources
             \* of each target, and marked: the size of the list is UINT32_MAX
  stack,     \* frames of ecs_kill_now and RelationSourceOnRemove, last on top
  phase,     \* idle, in a defer scope, or flushing its commands
  calls,     \* calls made in the scope
  commands,  \* commands recorded, one per entity in the order of first mention
  batch,     \* commands of the batch being applied
  failure,   \* the assertion or the dead entity the program ran into
  promised   \* history: the graph if each call had been made alone

vars == <<alive, store, stack, phase, calls, commands, batch, failure, promised>>

Now == [alive |-> alive, target |-> [r \in Relations |-> store[r].target]]

Init ==
  /\ alive = Entities
  /\ store = [r \in Relations |->
                [target  |-> [e \in Entities |-> NoEntity], index  |-> [e \in Entities |-> 0],
                 sources |-> [e \in Entities |-> <<>>],     marked |-> [e \in Entities |-> FALSE]]]
  /\ stack = <<>> /\ phase = "idle" /\ calls = 0
  /\ commands = <<>> /\ batch = <<>> /\ failure = "none"
  /\ promised = Now

Running == stack # <<>> /\ failure = "none"
Returned == stack = <<>> /\ failure = "none"
Idle == Returned /\ phase = "idle"

-----------------------------------------------------------------------------
(* The reverse index of one relation, s.  A dense relation's source list   *)
(* fills the place of a removed source with its last one.                  *)

(* Seeded defect: the last source keeps the place it had.                  *)
DetachedUnmoved(s, e) ==
  LET t == s.target[e]  list == s.sources[t]  k == s.index[e]
  IN  [s EXCEPT !.sources[t] = Front([list EXCEPT ![k] = Last(list)])]

(* ecs_dense_relation_remove_source                                        *)
Detached(s, e) ==
  LET t == s.target[e]  list == s.sources[t]  k == s.index[e]
  IN  [s EXCEPT !.sources[t] = Front([list EXCEPT ![k] = Last(list)]),
                !.index[Last(list)] = k]

Freed(s, e) == IF s.target[e] = NoEntity THEN s ELSE Detached(s, e)
Joined(s, e, t, k) ==
  [s EXCEPT !.target[e] = t, !.sources[t] = Append(@, e), !.index[e] = k]

(* Seeded defects: the place of the first source is nought; an edge to     *)
(* another target leaves the source in the list of the first.              *)
AttachedOffByOne(s, e, t) == Joined(Freed(s, e), e, t, Len(Freed(s, e).sources[t]) - 1)
AttachedTwice(s, e, t) == Joined(s, e, t, Len(s.sources[t]) + 1)

(* RelationOnSet                                                           *)
Attached(s, e, t) == Joined(Freed(s, e), e, t, Len(Freed(s, e).sources[t]) + 1)

(* RelationOnRemove, which leaves a list alone while its owner is killed.  *)
Hook(s, e) == IF s.marked[s.target[e]] THEN s ELSE Detached(s, e)
Unlinked(s, e) == [Hook(s, e) EXCEPT !.target[e] = NoEntity, !.index[e] = 0]

(* Where the code asserts or follows a handle of a dead entity.            *)
HookFailure(s, e) ==
  LET t == s.target[e]  list == s.sources[t]  k == s.index[e]
  IN  IF t \notin alive THEN "dead"
      ELSE IF s.marked[t] \/ (k \in DOMAIN list /\ list[k] = e) THEN "none" ELSE "index"
SetFailure(r, e, t) ==
  LET old == store[r].target[e]
  IN  IF r \in Acyclic /\ Reaches(store[r].target, t, e) THEN "cycle"
      ELSE IF old = t THEN "none"
      ELSE IF t \notin alive THEN "dead"
      ELSE IF old # NoEntity THEN HookFailure(store[r], e) ELSE "none"
Worst(failures) ==
  IF failures \subseteq {"none"} THEN "none" ELSE CHOOSE f \in failures : f # "none"

-----------------------------------------------------------------------------
(* Calls made outside a defer scope: ecs_relate_id, ecs_unrelate_id.       *)
RelateCall(e, r, t) ==
  /\ Idle /\ e \in alive /\ t \in alive /\ e # t
  /\ r \in Acyclic => ~Reaches(store[r].target, t, e)
  /\ failure' = SetFailure(r, e, t)
  /\ store' = IF failure' = "none" /\ store[r].target[e] # t
                THEN [store EXCEPT ![r] = Attached(@, e, t)] ELSE store
  /\ promised' = Relate(promised, e, r, t)
  /\ UNCHANGED <<alive, stack, phase, calls, commands, batch>>

HasTarget(e, r) == store[r].target[e] # NoEntity
UnrelateCall(e, r) ==
  /\ Idle /\ e \in alive /\ HasTarget(e, r)
  /\ failure' = HookFailure(store[r], e)
  /\ store' = IF failure' = "none" THEN [store EXCEPT ![r] = Unlinked(@, e)] ELSE store
  /\ promised' = Relate(promised, e, r, NoEntity)
  /\ UNCHANGED <<alive, stack, phase, calls, commands, batch>>

(* ecs_kill_now starts from the components the entity has then, and takes  *)
(* them in the order of their ids.                                         *)
HasSources(e, r) == store[r].sources[e] # <<>> \/ store[r].marked[e]
Components(e) ==
  {<<"target", r>> : r \in {q \in Relations : HasTarget(e, q)}}
    \cup {<<"sources", r>> : r \in {q \in Relations : HasSources(e, q)}}

(* Seeded defect: the sources come before the target.                      *)
IdReversed(c) == Component[c[2]] + (IF c[1] = "target" THEN 1 ELSE 0)
Id(c) == Component[c[2]] + (IF c[1] = "sources" THEN 1 ELSE 0)
First(todo) == CHOOSE c \in todo : \A d \in todo : Id(c) <= Id(d)

KillFrame(e) == [hook |-> "kill", entity |-> e, todo |-> Components(e)]
SourcesFrame(e, r) ==
  [hook |-> "sources", entity |-> e, relation |-> r, left |-> store[r].sources[e]]

KillCall(e) ==
  /\ Idle /\ e \in alive
  /\ stack' = <<KillFrame(e)>>
  /\ promised' = Kill(promised, e)
  /\ UNCHANGED <<alive, store, phase, calls, commands, batch, failure>>

-----------------------------------------------------------------------------
(* The commands of a defer scope, merged per entity.                       *)
NoCommand(e) == [entity |-> e, kill |-> FALSE, removes |-> {}, edges |-> <<>>]
PlaceOf(cs, e) ==
  IF \E k \in DOMAIN cs : cs[k].entity = e
    THEN CHOOSE k \in DOMAIN cs : cs[k].entity = e ELSE Len(cs) + 1
CommandOf(cs, e) == Append(cs, NoCommand(e))[PlaceOf(cs, e)]
Recorded(cs, c) ==
  LET k == PlaceOf(cs, c.entity)
  IN  IF k \in DOMAIN cs THEN [cs EXCEPT ![k] = c] ELSE Append(cs, c)

DeferBegin ==
  /\ Idle
  /\ phase' = "defer" /\ calls' = 0
  /\ UNCHANGED <<alive, store, stack, commands, batch, failure, promised>>

(* Seeded defect: the first edge of a relation stays.                      *)
MergedKeepsFirst(c, r, t) ==
  [c EXCEPT !.edges = [q \in DOMAIN @ \cup {r} |-> IF q \in DOMAIN @ THEN @[q] ELSE t]]
Merged(c, r, t) == [c EXCEPT !.edges = [q \in DOMAIN @ \cup {r} |-> IF q = r THEN t ELSE @[q]]]

DeferCall == phase = "defer" /\ calls < MaxCalls /\ calls' = calls + 1

(* What a call asks for is legal if the calls before it had been made.     *)
DeferRelate(e, r, t) ==
  /\ DeferCall /\ r \in Deferrable
  /\ {e, t} \subseteq promised.alive /\ e # t
  /\ r \in Acyclic => ~Reaches(promised.target[r], t, e)
  /\ commands' = Recorded(commands, Merged(CommandOf(commands, e), r, t))
  /\ promised' = Relate(promised, e, r, t)
  /\ UNCHANGED <<alive, store, stack, phase, batch, failure>>

DeferUnrelate(e, r) ==
  /\ DeferCall /\ r \in Deferrable /\ e \in promised.alive
  /\ commands' = Recorded(commands, Merged(CommandOf(commands, e), r, NoEntity))
  /\ promised' = Relate(promised, e, r, NoEntity)
  /\ UNCHANGED <<alive, store, stack, phase, batch, failure>>

NoLinkInto(D) ==
  /\ \A r \in Relations, x \in alive : OnDelete[r] = "remove" => store[r].target[x] \notin D
  /\ \A k \in DOMAIN commands : \A r \in DOMAIN commands[k].edges : commands[k].edges[r] \notin D
DeferKill(e) ==
  /\ DeferCall /\ DeferKills # "none" /\ e \in promised.alive
  /\ DeferKills = "unlinked" => NoLinkInto(Deleted(promised, e))
  /\ commands' = Recorded(commands, [NoCommand(e) EXCEPT !.kill = TRUE])
  /\ promised' = Kill(promised, e)
  /\ UNCHANGED <<alive, store, stack, phase, batch, failure>>

DeferEnd ==
  /\ phase = "defer"
  /\ phase' = "flush"
  /\ UNCHANGED <<alive, store, stack, calls, commands, batch, failure, promised>>

-----------------------------------------------------------------------------
(* ecs_command_buffer_flush_buffer.  While commands are flushed            *)
(* ecs_remove_cid records a command for the next batch, so an edge that is *)
(* removed stays until then; an edge that is set is set at once.           *)
Queued(cs, e, removed) ==
  IF removed = {} THEN cs
  ELSE Recorded(cs, [CommandOf(cs, e) EXCEPT !.removes = @ \cup removed])

Flushing == Returned /\ phase = "flush"
(* Seeded defect: the commands stay recorded.                              *)
NextBatchKept ==
  /\ Flushing /\ batch = <<>> /\ commands # <<>>
  /\ batch' = commands
  /\ UNCHANGED <<alive, store, stack, phase, calls, commands, failure, promised>>
NextBatch ==
  /\ Flushing /\ batch = <<>> /\ commands # <<>>
  /\ batch' = commands /\ commands' = <<>>
  /\ UNCHANGED <<alive, store, stack, phase, calls, failure, promised>>
EndFlush ==
  /\ Flushing /\ batch = <<>> /\ commands = <<>>
  /\ phase' = "idle" /\ calls' = 0
  /\ UNCHANGED <<alive, store, stack, commands, batch, failure, promised>>

SkipCommand ==
  /\ Flushing /\ batch # <<>> /\ Head(batch).entity \notin alive
  /\ batch' = Tail(batch)
  /\ UNCHANGED <<alive, store, stack, phase, calls, commands, failure, promised>>
KillCommand ==
  /\ Flushing /\ batch # <<>> /\ Head(batch).entity \in alive /\ Head(batch).kill
  /\ batch' = Tail(batch)
  /\ stack' = <<KillFrame(Head(batch).entity)>>
  /\ UNCHANGED <<alive, store, phase, calls, commands, failure, promised>>

EdgeCommand(c) ==
  LET e == c.entity
      gone == {r \in c.removes : HasTarget(e, r)}
      kept(r) == IF r \in gone THEN NoEntity ELSE store[r].target[e]
      set == {r \in DOMAIN c.edges : c.edges[r] \notin {NoEntity, kept(r)}}
      unset == {r \in DOMAIN c.edges : c.edges[r] = NoEntity /\ kept(r) # NoEntity}
      edited(r) == LET s == IF r \in gone THEN Unlinked(store[r], e) ELSE store[r]
                   IN  IF r \in set THEN Attached(s, e, c.edges[r]) ELSE s
  IN  /\ failure' = Worst({HookFailure(store[r], e) : r \in gone}
                            \cup {SetFailure(r, e, c.edges[r]) : r \in set})
      /\ store' = IF failure' = "none" THEN [r \in Relations |-> edited(r)] ELSE store
      /\ commands' = Queued(commands, e, unset)
ApplyCommand ==
  /\ Flushing /\ batch # <<>> /\ Head(batch).entity \in alive /\ ~Head(batch).kill
  /\ EdgeCommand(Head(batch))
  /\ batch' = Tail(batch)
  /\ UNCHANGED <<alive, stack, phase, calls, promised>>

-----------------------------------------------------------------------------
(* ecs_kill_now, one component per step, and RelationSourceOnRemove, one   *)
(* source per step.                                                        *)
Top == Last(stack)
Killing == Running /\ Top.hook = "kill"
NextHook == First(Top.todo)
Popped == [stack EXCEPT ![Len(stack)].todo = @ \ {NextHook}]
Unchanged == UNCHANGED <<phase, calls, batch, promised>>

(* The loop ends early when the entity is no longer alive.                 *)
KillTarget ==
  /\ Killing /\ Top.entity \in alive /\ Top.todo # {} /\ NextHook[1] = "target"
  /\ LET r == NextHook[2]
     IN  IF HasTarget(Top.entity, r)
           THEN /\ failure' = HookFailure(store[r], Top.entity)
                /\ store' = IF failure' = "none" THEN [store EXCEPT ![r] = Hook(@, Top.entity)]
                            ELSE store
           ELSE UNCHANGED <<failure, store>>
  /\ stack' = Popped
  /\ UNCHANGED <<alive, commands>> /\ Unchanged

KillSources ==
  /\ Killing /\ Top.entity \in alive /\ Top.todo # {} /\ NextHook[1] = "sources"
  /\ LET r == NextHook[2]
     IN  IF HasSources(Top.entity, r)
           THEN /\ store' = [store EXCEPT ![r].marked[Top.entity] = TRUE]
                /\ stack' = Append(Popped, SourcesFrame(Top.entity, r))
           ELSE /\ store' = store /\ stack' = Popped
  /\ UNCHANGED <<alive, commands, failure>> /\ Unchanged

(* What is left of an entity in a relation, with its components.           *)
Dropped(s, e) ==
  [s EXCEPT !.target[e] = NoEntity, !.index[e] = 0, !.sources[e] = <<>>, !.marked[e] = FALSE]

KillRow ==
  /\ Killing /\ (Top.todo = {} \/ Top.entity \notin alive)
  /\ alive' = alive \ {Top.entity}
  /\ store' = IF Top.entity \in alive THEN [r \in Relations |-> Dropped(store[r], Top.entity)]
              ELSE store
  /\ stack' = Front(stack)
  /\ UNCHANGED <<commands, failure>> /\ Unchanged

InSources == Running /\ Top.hook = "sources"
NextSource == Head(Top.left)
Passed == [stack EXCEPT ![Len(stack)].left = Tail(@)]
KillSource ==
  /\ InSources /\ Top.left # <<>> /\ OnDelete[Top.relation] = "delete"
  /\ stack' = IF NextSource \in alive THEN Append(Passed, KillFrame(NextSource)) ELSE Passed
  /\ UNCHANGED <<alive, store, commands, failure>> /\ Unchanged

(* ecs_unrelate_id_now, whose removal is a command while flushing.         *)
UnrelateSource ==
  /\ InSources /\ Top.left # <<>> /\ OnDelete[Top.relation] = "remove"
  /\ LET e == NextSource  r == Top.relation
         linked == e \in alive /\ HasTarget(e, r)
     IN  /\ failure' = IF e \notin alive THEN "dead"
                       ELSE IF linked /\ phase = "idle" THEN HookFailure(store[r], e)
                       ELSE "none"
         /\ store' = IF linked /\ phase = "idle" /\ failure' = "none"
                       THEN [store EXCEPT ![r] = Unlinked(@, e)] ELSE store
         /\ commands' = IF linked /\ phase = "flush" THEN Queued(commands, e, {r})
                          ELSE commands
  /\ stack' = Passed
  /\ UNCHANGED alive /\ Unchanged

SourcesDone ==
  /\ InSources /\ Top.left = <<>>
  /\ stack' = Front(stack)
  /\ UNCHANGED <<alive, store, commands, failure>> /\ Unchanged

-----------------------------------------------------------------------------
Calls ==
  \/ \E e \in Entities, r \in Relations :
       \/ \E t \in Entities : RelateCall(e, r, t) \/ DeferRelate(e, r, t)
       \/ UnrelateCall(e, r) \/ DeferUnrelate(e, r)
  \/ \E e \in Entities : KillCall(e) \/ DeferKill(e)
  \/ DeferBegin
  \/ DeferEnd
Work ==
  \/ NextBatch \/ SkipCommand \/ KillCommand \/ ApplyCommand \/ EndFlush
  \/ KillTarget \/ KillSources \/ KillRow
  \/ KillSource \/ UnrelateSource \/ SourcesDone
Next == Calls \/ Work
Spec == Init /\ [][Next]_vars
(* A call runs until it returns: its steps are those of one thread.        *)
FairSpec == Spec /\ WF_vars(Work)

-----------------------------------------------------------------------------
Indexes == [target : [Entities -> Entities \cup {NoEntity}], index : [Entities -> Nat],
            sources : [Entities -> Seq(Entities)], marked : [Entities -> BOOLEAN]]
Frames ==
  [hook : {"kill"}, entity : Entities, todo : SUBSET ({"target", "sources"} \X Relations)]
    \cup [hook : {"sources"}, entity : Entities, relation : Relations, left : Seq(Entities)]
Edges == UNION {[R -> Entities \cup {NoEntity}] : R \in SUBSET Relations}
Commands == [entity : Entities, kill : BOOLEAN, removes : SUBSET Relations, edges : Edges]
TypeOK ==
  /\ Now \in Graphs /\ promised \in Graphs
  /\ store \in [Relations -> Indexes]
  /\ stack \in Seq(Frames)
  /\ phase \in {"idle", "defer", "flush"} /\ calls \in 0..MaxCalls
  /\ commands \in Seq(Commands) /\ batch \in Seq(Commands)
  /\ failure \in {"none", "dead", "cycle", "index"}

(* Whenever no hook is running, the lists of sources are exactly the edges *)
(* read backwards, each source once and at the place its edge remembers,   *)
(* whatever lists were shortened, moved within or emptied to get there.    *)
ReverseIndexExact ==
  Returned =>
    \A t \in alive, r \in Relations :
      LET list == store[r].sources[t]
      IN  /\ Len(list) = Cardinality({e \in alive : store[r].target[e] = t})
          /\ \A e \in alive : store[r].target[e] = t =>
               store[r].index[e] \in DOMAIN list /\ list[store[r].index[e]] = e

(* When every call has returned and every scope is flushed, the entities   *)
(* and the edges are those the calls promise when made one after another,  *)
(* merged, reordered and delayed as the commands were: a deleted target    *)
(* took exactly its sources with it (relationships.mdx:415-434), and "the  *)
(* flush applies the final structural result" (relationships.mdx:619).     *)
Settled == Idle => Now = promised

(* A killed entity's hooks run once: no cascade comes back to an entity    *)
(* that is being killed, along whatever cycle of edges ("deletes source    *)
(* entities that point at the deleted target", relationships.mdx:431).     *)
KilledOnce ==
  \A i, j \in DOMAIN stack :
    stack[i].hook = "kill" /\ stack[j].hook = "kill" /\ stack[i].entity = stack[j].entity
      => i = j

(* No hook follows a handle of a dead entity (component-traits.mdx:28).    *)
TouchesTheLiving == failure # "dead"

(* A flush does not reject as a cycle the edges its calls left acyclic.    *)
AcceptsWhatCallsAllow == failure # "cycle"

(* The places remembered in edges are valid whenever a hook uses them, and *)
(* neither a dead entity nor a cycle stops the program.                    *)
NothingFails == failure = "none"

(* A cascade of kills ends, and so does a flush whose hooks record further *)
(* commands.                                                               *)
CallsReturn == (stack # <<>> \/ phase = "flush") ~> (stack = <<>> /\ phase # "flush")
==============================================================================
