---------------------------- MODULE CommandBuffer ----------------------------
(***************************************************************************)
(* Components, values and bases recorded in a defer scope:                 *)
(* src/src/command_buffer.c, against the same calls made alone             *)
(* (src/src/component_ops.c, src/src/entity.c, src/src/inheritance.c).     *)
(*                                                                         *)
(* A scope keeps one command for each entity, in the order in which they   *)
(* are first mentioned, and merges the calls into it.  A flush computes    *)
(* the final type of each entity and moves it there once.  Entities in a   *)
(* row whose commands have the same shape share that work through a cached *)
(* transition: the type found for the first, and the addresses of the      *)
(* values it copied from its base.                                         *)
(*                                                                         *)
(* Hooks and observers are left out, so a command is applied in one step;  *)
(* names and relations are in Names and Relations.                         *)
(***************************************************************************)
EXTENDS Integers, FiniteSets, Sequences, SequencesExt, TLC

CONSTANTS
  Entities, NoEntity,
  Components,
  Requires,            \* components that adding a component brings along
  Copied,              \* components copied from a base (EcsInheritOwned)
  Values, Default, Absent,
  Inputs,              \* values that calls set
  Starts,              \* contents of the entities before the first scope
  Divergences,         \* the disagreements between a scope and calls made
                       \* alone that the program is allowed to meet
  TransitionCapacity,  \* ECS_COMMAND_TRANSITION_CHANGE_CAPACITY
  MaxDepth,            \* bound: nested defer scopes
  MaxCalls             \* bound: calls recorded

Disagreements == {"required", "again", "inherited", "rebased", "order", "moved"}

ASSUME CommandsAssumption ==
  /\ IsFiniteSet(Entities) /\ NoEntity \notin Entities
  /\ Default \in Values /\ Absent \notin Values
  /\ Inputs \subseteq Values
  /\ Requires \in [Components -> SUBSET Components] /\ Copied \subseteq Components
  /\ \A c \in Components : /\ c \notin Requires[c]
                           /\ \A d \in Requires[c] : Requires[d] \subseteq Requires[c]
  /\ Starts \subseteq [Entities -> [Components -> Values \cup {Absent}]]
  /\ Divergences \subseteq Disagreements
  /\ TransitionCapacity \in Nat /\ MaxDepth \in Nat \ {0} /\ MaxCalls \in Nat

VARIABLES
  entity,      \* what each entity holds: alive, abstract, base, and its values
  table,       \* rows and capacity of the table of each type that has been used
  depth,       \* defer_depth
  calls,       \* calls recorded so far
  commands,    \* commands recorded in the scope
  batch,       \* commands the flush has still to apply
  transition,  \* the cached transition of the flush
  promised     \* history: entity if each call had been made alone

vars == <<entity, table, depth, calls, commands, batch, transition, promised>>

-----------------------------------------------------------------------------
(* Entities and their types.                                               *)

Contents == [alive : BOOLEAN, abstract : BOOLEAN, base : Entities \cup {NoEntity},
             value : [Components -> Values \cup {Absent}]]

Owned(x) == {c \in Components : x.value[c] # Absent}
TypeOf(x) == [owned |-> Owned(x), base |-> x.base, abstract |-> x.abstract]

\* b and the entities it inherits from, nearest first, then NoEntity.
Line(es, b) ==
  LET up[n \in Nat] == IF n = 0 THEN b
                       ELSE IF up[n - 1] = NoEntity THEN NoEntity ELSE es[up[n - 1]].base
  IN [n \in 1 .. Cardinality(Entities) |-> up[n - 1]]

Ancestors(es, b) == Range(Line(es, b)) \ {NoEntity}

\* ecs_component_locate from b: the nearest entity of its line that owns c.
Provider(es, b, c) ==
  LET line == Line(es, b)
  IN line[Min({n \in DOMAIN line : line[n] # NoEntity /\ c \in Owned(es[line[n]])})]

\* ecs_inheritance_plan_build: what an entity that owns `owned` copies from b.
Plan(es, b, owned) ==
  {c \in Copied \ owned : \E y \in Ancestors(es, b) : c \in Owned(es[y])}

\* A migration keeps the values of common components; new ones are constructed.
Retyped(x, owned) ==
  [x EXCEPT !.value = [c \in Components |->
     IF c \notin owned THEN Absent ELSE IF x.value[c] = Absent THEN Default ELSE x.value[c]]]

-----------------------------------------------------------------------------
(* The same calls made alone.                                              *)

AddedAlone(es, e, c) ==
  IF c \in Owned(es[e]) THEN es
  ELSE [es EXCEPT ![e] = Retyped(@, Owned(@) \cup {c} \cup Requires[c])]

RemovedAlone(es, e, c) == [es EXCEPT ![e] = Retyped(@, Owned(@) \ {c})]

SetAlone(es, e, c, v) == [AddedAlone(es, e, c) EXCEPT ![e].value[c] = v]

InheritedAlone(es, e, b) ==
  LET marked == [es EXCEPT ![b].abstract = TRUE]
      plan == Plan(marked, b, Owned(es[e]))
  IN IF es[e].base = b THEN marked
     ELSE [marked EXCEPT ![e].base = b,
                         ![e].value = [c \in Components |->
                            IF c \in plan THEN marked[Provider(marked, b, c)].value[c] ELSE @[c]]]

Nothing == [alive |-> FALSE, abstract |-> FALSE, base |-> NoEntity,
            value |-> [c \in Components |-> Absent]]

KilledAlone(es, e) == [es EXCEPT ![e] = Nothing]

-----------------------------------------------------------------------------
(* Rows.  An entity that leaves a table leaves its row to the last one; a  *)
(* table that is full doubles, and its columns move.                       *)

RowOf(t, e) == CHOOSE i \in DOMAIN t.rows : t.rows[i] = e

TableOf(ts, type) == IF type \in DOMAIN ts THEN ts[type] ELSE [rows |-> <<>>, capacity |-> 1]

Grown(t, e) == [rows |-> Append(t.rows, e),
                capacity |-> IF Len(t.rows) < t.capacity THEN t.capacity ELSE 2 * t.capacity]

Shrunk(t, e) ==
  [t EXCEPT !.rows = Front([t.rows EXCEPT ![RowOf(t, e)] = Last(t.rows)])]

Entered(ts, type, e) ==
  [u \in DOMAIN ts \cup {type} |-> IF u = type THEN Grown(TableOf(ts, u), e) ELSE ts[u]]

Left(ts, type, e) == [ts EXCEPT ![type] = Shrunk(@, e)]

\* A world is the contents of the entities and their tables.
World == [entity |-> entity, table |-> table]

\* ecs_migrate, or only a write when the type stays the same.
MigrateWithoutLeaving(w, e, x) ==
  LET from == TypeOf(w.entity[e])
      to == TypeOf(x)
  IN [entity |-> [w.entity EXCEPT ![e] = x],
      table  |-> IF from = to THEN w.table ELSE Entered(w.table, to, e)]

Migrate(w, e, x) ==
  LET from == TypeOf(w.entity[e])
      to == TypeOf(x)
  IN [entity |-> [w.entity EXCEPT ![e] = x],
      table  |-> IF from = to THEN w.table ELSE Left(Entered(w.table, to, e), from, e)]

KillRow(w, e) == [entity |-> [w.entity EXCEPT ![e] = Nothing],
                 table  |-> Left(w.table, TypeOf(w.entity[e]), e)]

AbstractNow(w, b) == Migrate(w, b, [w.entity[b] EXCEPT !.abstract = TRUE])

\* The address of c in the row of e, as a pointer holds it.
Address(w, e) ==
  LET type == TypeOf(w.entity[e])
  IN [type |-> type, row |-> RowOf(w.table[type], e), capacity |-> w.table[type].capacity]

\* What a read through an address may give: the value of the entity that is in
\* the row now, or anything once the columns have moved or the row is unused.
ReadAt(w, address, c) ==
  LET t == w.table[address.type]
  IN IF address.capacity = t.capacity /\ address.row <= Len(t.rows)
       THEN {w.entity[t.rows[address.row]].value[c]} ELSE Values

-----------------------------------------------------------------------------
(* Recording.                                                              *)

Ops == {"none", "add", "remove", "copy"}
Commands == [entity : Entities, op : [Components -> Ops], data : [Components -> Values],
             base : Entities \cup {NoEntity}, kill : BOOLEAN]

NoCommand(e) == [entity |-> e, op |-> [c \in Components |-> "none"],
                 data |-> [c \in Components |-> Default], base |-> NoEntity, kill |-> FALSE]

PlaceOf(cs, e) == SelectInSeq(cs, LAMBDA k : k.entity = e)
CommandOf(cs, e) == IF PlaceOf(cs, e) = 0 THEN NoCommand(e) ELSE cs[PlaceOf(cs, e)]
Recorded(cs, k) == IF PlaceOf(cs, k.entity) = 0 THEN Append(cs, k)
                   ELSE [cs EXCEPT ![PlaceOf(cs, k.entity)] = k]

\* command_buffer_change: an addition never replaces a value; the last of the
\* other operations wins.
MergedRemoveStays(k, c, op, v) ==
  IF op = "add" /\ k.op[c] # "none" THEN k
  ELSE [k EXCEPT !.op[c] = op, !.data[c] = v]

Merged(k, c, op, v) ==
  IF op = "add" /\ k.op[c] \in {"add", "copy"} THEN k
  ELSE [k EXCEPT !.op[c] = op, !.data[c] = v]

Killed(k) == [NoCommand(k.entity) EXCEPT !.kill = TRUE]

Scope == depth > 0

\* A call is made on a living entity.  Once a kill of it is recorded, calls are
\* still accepted but promise nothing.
MayCall(e) == Scope /\ calls < MaxCalls /\ entity[e].alive

Record(k, alone) ==
  /\ commands' = Recorded(commands, k)
  /\ promised' = IF promised[k.entity].alive THEN alone ELSE promised
  /\ calls' = calls + 1
  /\ UNCHANGED <<entity, table, depth, batch, transition>>

Allow(reason, present) == present => reason \in Divergences

-----------------------------------------------------------------------------
(* Where a scope and the calls made alone disagree.  Each is a condition   *)
(* on a call and the commands already recorded.                            *)

Command(e) == CommandOf(commands, e)
InheritsAtFlush(e) == Command(e).base # NoEntity /\ Command(e).base # entity[e].base

Keeps(e, c) == Command(e).op[c] \in {"add", "copy"}

\* Required components are resolved at the flush: they come back when they were
\* removed, they do not come with a component that is removed again, and they
\* come with a component that was there already.
RequirementLost(e, c) ==
  \/ \E d \in Components : c \in Requires[d] /\ Keeps(e, d)
  \/ Keeps(e, c) /\ \E d \in Requires[c] : d \notin Owned(entity[e]) /\ ~Keeps(e, d)
RequirementMissing(e, c) ==
  \E x \in {entity[e], promised[e]} : c \in Owned(x) /\ ~(Requires[c] \subseteq Owned(x))

\* A component removed and added again keeps its value.
AddedAgain(e, cs) ==
  \E d \in cs : Command(e).op[d] = "remove" /\ d \in Owned(entity[e])

\* An entity is changed at the place of its first call: a command finds those
\* that come before it as the calls leave them, those after it as they were.
Precedes(e, f) == PlaceOf(commands, e) # 0 /\ (PlaceOf(commands, f) = 0 \/
                                               PlaceOf(commands, e) < PlaceOf(commands, f))
Seen(e) == [y \in Entities |-> IF Precedes(e, y) THEN entity[y] ELSE promised[y]]

\* What is copied from a base is found at the flush, from the final changes.
TouchesInherited(e, cs) ==
  InheritsAtFlush(e) /\ cs \cap Plan(Seen(e), Command(e).base, {}) # {}

\* Only the last base recorded counts; alone each is copied from and made abstract.
BaseReplaced(e, b) == Command(e).base \notin {NoEntity, b}
BaseForgotten(e) == Command(e).base # NoEntity /\ ~entity[Command(e).base].abstract

\* So a later change of a base may come before the entities that inherited from
\* it, and the reverse.
EditsOutOfOrder(b) ==
  \E k \in Range(commands) : /\ k.base # NoEntity /\ b \in Ancestors(Seen(k.entity), k.base)
                             /\ Precedes(b, k.entity)
InheritsOutOfOrder(e, b) ==
  \E y \in Ancestors(promised, b) : PlaceOf(commands, y) # 0 /\ Precedes(e, y)

\* Two entities inherit from one base and the command of the first, or one
\* between them, may move rows of abstract entities: the second reads through
\* an address that is stale.
MovesRows(cs, j, b) ==
  \/ entity[cs[j].entity].abstract \/ \E i \in 1 .. (j - 1) : cs[i].base = cs[j].entity
  \/ cs[j].base \notin {NoEntity, b} /\ ~entity[cs[j].base].abstract
MovesBetween(cs) ==
  \E i, j, k \in DOMAIN cs : /\ i <= j /\ j < k
                            /\ cs[i].base # NoEntity /\ cs[k].base = cs[i].base
                            /\ MovesRows(cs, j, cs[i].base)

Change(e, c, op, v) == Recorded(commands, Merged(Command(e), c, op, v))

-----------------------------------------------------------------------------
Add(e, c) ==
  /\ MayCall(e) /\ ~entity[e].abstract /\ ~promised[e].abstract
  /\ Allow("required", RequirementMissing(e, c))
  /\ Allow("again", AddedAgain(e, {c} \cup Requires[c]))
  /\ Allow("inherited", TouchesInherited(e, {c} \cup Requires[c]))
  /\ Allow("order", EditsOutOfOrder(e))
  /\ Allow("moved", MovesBetween(Change(e, c, "add", Default)))
  /\ Record(Merged(Command(e), c, "add", Default), AddedAlone(promised, e, c))

Set(e, c, v) ==
  /\ MayCall(e)
  /\ Allow("required", RequirementMissing(e, c))
  /\ Allow("again", AddedAgain(e, Requires[c]))
  /\ Allow("inherited", TouchesInherited(e, Requires[c]))
  /\ Allow("order", EditsOutOfOrder(e))
  /\ Allow("moved", MovesBetween(Change(e, c, "copy", v)))
  /\ Record(Merged(Command(e), c, "copy", v), SetAlone(promised, e, c, v))

RemoveComponent(e, c) ==
  /\ MayCall(e)
  /\ Allow("required", RequirementLost(e, c))
  /\ Allow("inherited", TouchesInherited(e, {c}))
  /\ Allow("order", EditsOutOfOrder(e))
  /\ Allow("moved", MovesBetween(Change(e, c, "remove", Default)))
  /\ Record(Merged(Command(e), c, "remove", Default), RemovedAlone(promised, e, c))

\* Left out: a base that is killed in the scope, which aborts the flush, and a
\* cycle, which aborts a call made alone and which the flush does not look for.
IsA(e, b) ==
  /\ MayCall(e) /\ entity[b].alive /\ promised[b].alive
  /\ e \notin Ancestors(promised, b)
  /\ Allow("rebased", BaseReplaced(e, b))
  /\ Allow("order", InheritsOutOfOrder(e, b) \/ EditsOutOfOrder(e))
  /\ Allow("moved", MovesBetween(Recorded(commands, [Command(e) EXCEPT !.base = b])))
  /\ Record([Command(e) EXCEPT !.base = b], InheritedAlone(promised, e, b))

Kill(e) ==
  /\ MayCall(e)
  /\ \A f \in Entities : promised[f].base # e /\ Command(f).base # e
  /\ Allow("rebased", BaseForgotten(e))
  /\ Allow("order", EditsOutOfOrder(e))
  /\ Allow("moved", MovesBetween(Recorded(commands, Killed(Command(e)))))
  /\ Record(Killed(Command(e)), KilledAlone(promised, e))

\* ecs_defer_begin.
DeferBegin ==
  /\ depth < MaxDepth /\ batch = <<>> /\ calls < MaxCalls
  /\ depth' = depth + 1
  /\ UNCHANGED <<entity, table, calls, commands, batch, transition, promised>>

\* ecs_defer_end: the outermost one starts the flush.
DeferEnd ==
  /\ Scope
  /\ depth' = depth - 1
  /\ batch' = IF depth = 1 THEN commands ELSE batch
  /\ commands' = IF depth = 1 THEN <<>> ELSE commands
  /\ UNCHANGED <<entity, table, calls, transition, promised>>

-----------------------------------------------------------------------------
(* Applying a command.                                                     *)

Changed(k) == {c \in Components : k.op[c] # "none"}
Kept(k) == {c \in Components : k.op[c] \in {"add", "copy"}}

\* The loop of command_build_type that adds what the kept components require to
\* the command itself; a removal of one of them turns into an addition.
Completed(k) ==
  LET required == (UNION {Requires[c] : c \in Kept(k)}) \ Kept(k)
  IN [k EXCEPT !.op = [c \in Components |-> IF c \in required THEN "add" ELSE @[c]]]

BuiltOwned(k, x) == (Owned(x) \ Changed(k)) \cup Kept(k)

TypeUnchanged(k, x) == /\ k.base \in {NoEntity, x.base}
                       /\ Changed(k) \subseteq Kept(k) \cap Owned(x)

Written(k, x) == [x EXCEPT !.value = [c \in Components |->
                    IF k.op[c] = "copy" THEN k.data[c] ELSE @[c]]]

NoTransition == [valid |-> FALSE]

TransitionMatches(t, k, from) == t.valid /\ t.from = from /\ t.base = k.base /\ t.op = k.op

ShapeEquals(k, l) == k.base = l.base /\ k.op = l.op

\* The values a command copies: where each is, found now.
SourcesBeforeMark(w, b, plan) ==
  [c \in plan |-> Address(World, Provider(w.entity, b, c))]

Sources(w, b, plan) ==
  [c \in plan |-> Address(w, Provider(w.entity, b, c))]

BaseChanged(k, x) == k.base # NoEntity /\ k.base # x.base

\* The transition that a fresh look at the types gives.
Fresh(w, k, from, x) ==
  LET built == BuiltOwned(k, x)
      plan == IF BaseChanged(k, x) THEN Plan(w.entity, k.base, built) ELSE {}
  IN [valid |-> TRUE, from |-> from, base |-> k.base, op |-> k.op,
      to |-> [owned |-> built \cup plan, abstract |-> from.abstract,
              base |-> IF k.base = NoEntity THEN from.base ELSE k.base],
      copies |-> Sources(w, k.base, plan)]

\* The next command takes the cached transition only if it starts from the same
\* table with the same changes.
CachedFor(k, next, from, w) ==
  /\ Cardinality(Changed(k)) <= TransitionCapacity
  /\ next # <<>> /\ ShapeEquals(k, next[1])
  /\ w.entity[next[1].entity].alive /\ TypeOf(w.entity[next[1].entity]) = from

Settle(w, t) ==
  /\ entity' = w.entity /\ table' = w.table
  /\ batch' = Tail(batch)
  /\ transition' = IF Len(batch) = 1 THEN NoTransition ELSE t
  /\ UNCHANGED <<depth, calls, commands, promised>>

Hit(k, from) == /\ Cardinality(Changed(k)) <= TransitionCapacity
                /\ TransitionMatches(transition, k, from)

\* The world once the base of a command is abstract
Ready(k) ==
  IF BaseChanged(k, entity[k.entity]) THEN AbstractNow(World, k.base) ELSE World

\* What reading the copied values may give
Reads(w, t) == {f \in [DOMAIN t.copies -> Values \cup {Absent}] :
                  \A c \in DOMAIN f : f[c] \in ReadAt(w, t.copies[c], c)}

\* An entity in its new table, with the values copied from its base
Moved(x, t, copied) ==
  [Retyped(x, t.to.owned) EXCEPT
     !.base = t.to.base,
     !.value = [c \in Components |-> IF c \in DOMAIN copied THEN copied[c] ELSE @[c]]]

\* command_apply for a command that changes the entity's type.
Restructure(k) ==
  LET x == entity[k.entity]
      from == TypeOf(x)
      w == Ready(k)
      hit == Hit(k, from)
      full == IF hit THEN k ELSE Completed(k)
      t == IF hit THEN transition ELSE Fresh(w, full, from, x)
      keep == t.to # from /\ ~hit /\ CachedFor(full, Tail(batch), from, w)
  IN \E copied \in Reads(w, t) :
       Settle(Migrate(w, k.entity, Written(full, Moved(x, t, copied))),
              IF keep THEN t ELSE transition)

\* The entity of a command is alive here: only a hook of an earlier command
\* could have killed it, and command_apply would then drop the command.
ApplyKill ==
  /\ batch # <<>> /\ Head(batch).kill
  /\ Settle(KillRow(World, Head(batch).entity), transition)

Alters == batch # <<>> /\ ~Head(batch).kill

ApplyInPlace ==
  /\ Alters /\ TypeUnchanged(Head(batch), entity[Head(batch).entity])
  /\ Settle(Migrate(World, Head(batch).entity,
                    Written(Head(batch), entity[Head(batch).entity])), transition)

ApplyRestructured ==
  /\ Alters /\ ~TypeUnchanged(Head(batch), entity[Head(batch).entity])
  /\ Restructure(Head(batch))

-----------------------------------------------------------------------------
\* The tables after each entity in turn has entered that of its type.
Filled(es, order) ==
  LET filled[n \in 0 .. Len(order)] ==
        IF n = 0 THEN <<>> ELSE Entered(filled[n - 1], TypeOf(es[order[n]]), order[n])
  IN filled[Len(order)]

Loaded(value) == [alive |-> TRUE, abstract |-> FALSE, base |-> NoEntity, value |-> value]

Init ==
  \E start \in Starts, order \in SetToSeqs(Entities) :
    /\ entity = [e \in Entities |-> Loaded(start[e])]
    /\ table = Filled(entity, order)
    /\ depth = 0 /\ calls = 0 /\ commands = <<>> /\ batch = <<>>
    /\ transition = NoTransition /\ promised = entity

Next ==
  \/ DeferBegin \/ DeferEnd
  \/ \E e \in Entities : \/ Kill(e)
                         \/ \E b \in Entities : IsA(e, b)
                         \/ \E c \in Components : \/ Add(e, c) \/ RemoveComponent(e, c)
                                                  \/ \E v \in Inputs : Set(e, c, v)
  \/ ApplyKill \/ ApplyInPlace \/ ApplyRestructured

Spec == Init /\ [][Next]_vars

-----------------------------------------------------------------------------
(* Properties.                                                             *)

\* Every record has its form, and the tables hold each living entity once, in
\* the table of its type: what the migrations of a flush leave behind.
TypeOK ==
  /\ entity \in [Entities -> Contents] /\ promised \in [Entities -> Contents]
  /\ commands \in Seq(Commands) /\ batch \in Seq(Commands)
  /\ depth \in 0 .. MaxDepth /\ calls \in 0 .. MaxCalls
  /\ \A type \in DOMAIN table :
       /\ IsInjective(table[type].rows)
       /\ Len(table[type].rows) <= table[type].capacity
       /\ ToSet(table[type].rows) = {e \in Entities : entity[e].alive /\ TypeOf(entity[e]) = type}
  /\ \A e \in Entities : entity[e].alive => TypeOf(entity[e]) \in DOMAIN table

\* When nothing is recorded and no flush is under way, the world is the one the
\* calls give when each is made alone, in the order of the program: merging,
\* ordering by first mention and shared transitions change nothing.
SettledAsPromised == (batch = <<>> /\ commands = <<>>) => entity = promised

\* A cached transition that the flush is about to use gives what a fresh look
\* at the types and the base gives, and its addresses are those of the values.
TransitionFresh ==
  Alters =>
    LET k == Head(batch)
        x == entity[k.entity]
        fresh == Fresh(Ready(k), Completed(k), TypeOf(x), x)
    IN (~TypeUnchanged(k, x) /\ Hit(k, TypeOf(x))) =>
         transition.to = fresh.to /\ transition.copies = fresh.copies
=============================================================================
