------------------------------ MODULE QueryCache ------------------------------
(* Tables and the caches of queries over them: table_index.c, table.c,       *)
(* table_migration.c, component_ops.c, entity.c and query_index.c.  A table  *)
(* holds the entities of one type, a row each; its columns move when it      *)
(* grows.  A query keeps, for every table it matches, a pointer to each of   *)
(* its fields: to a column of the table, or to the row of the base its       *)
(* entities inherit from.  Nothing tells a query that a table is gone: tables *)
(* are never removed.  A definition marked "Seeded defect" is a wrong form of *)
(* the one below it, which the properties must tell from the right one.      *)
EXTENDS Naturals, Sequences, FiniteSets, SequencesExt, FiniteSetsExt

CONSTANTS
  Entities,      \* handles, numbered: a handle is never given out again
  IndexOf,       \* the index of a handle, which a later handle may take over
  Comps,         \* components, without Abstract
  Shared,        \* those inherited by reference (EcsInheritShared)
  Requires,      \* what each component brings along, closed under itself
  Shapes,        \* what queries may ask
  MaxTables,     \* bound on the tables
  MaxQueries,    \* bound on the queries at a time
  BaseHazards    \* what may happen to a base in use, a subset of Hazards

None == 0
Abstract == "Abstract"
Root == 1        \* the table of the empty type

(* A base in use may be killed when what inherits from it is dead; be moved   *)
(* within its table when another entity leaves it; or lose a component, or    *)
(* get or lose a base of its own.                                            *)
Hazards == {"die", "move", "change"}

ASSUME EntitiesNumbered ==
  /\ Entities \subseteq Nat \ {None} /\ IsFiniteSet(Entities)
  /\ IndexOf \in [Entities -> Nat \ {None}]
ASSUME ComponentsNamed ==
  /\ Abstract \notin Comps /\ Shared \subseteq Comps
  /\ Requires \in [Comps \cup {Abstract} -> SUBSET Comps]
  /\ \A c \in Comps : c \notin Requires[c] /\ \A d \in Requires[c] : Requires[d] \subseteq Requires[c]
ASSUME ComponentsAreFinite == IsFiniteSet(Comps)
ASSUME ShapesOfFields ==
  Shapes \subseteq [reads : SUBSET Comps, writes : SUBSET Comps, optional : SUBSET Comps,
                    without : SUBSET Comps, ordered : BOOLEAN]
ASSUME BoundsArePositive == MaxTables \in Nat \ {0} /\ MaxQueries \in Nat \ {0}
ASSUME HazardsNamed == BaseHazards \subseteq Hazards

VARIABLES
  types,     \* the type of each table, in order of creation
  rows,      \* the entities of each table, in order
  capacity,  \* how many rows a table has room for; its columns move when it changes
  place,     \* table and row of an entity; table None before its life and after
  dead,      \* handles killed
  having,    \* for each component the tables that own or inherit it
  changed,   \* history: tables one of whose bases has changed or died since
  queries,   \* the shape and the cache of each query alive, Gone otherwise
  active,    \* the queries alive, in the order new tables are offered to them
  free       \* slots of destroyed queries, the last one first

tableVars == <<types, rows, capacity, place, dead, having, changed>>
queryVars == <<queries, active, free>>
vars == <<types, rows, capacity, place, dead, having, changed, queries, active, free>>

Gone == [alive |-> FALSE]
Nowhere == [table |-> None, row |-> None]
Tables == DOMAIN types
Living == {e \in Entities : place[e].table # None}
TypeOf(e) == IF e \in Living THEN types[place[e].table] ELSE [comps |-> {}, base |-> None]
Inherited(e) == \E t \in Tables : types[t].base = e

-----------------------------------------------------------------------------
(* Inheritance. *)

(* The bases reached from b, nearest first, then None: the loop over         *)
(* ecs_type_isa_target.                                                      *)
Line(b) ==
  LET up[n \in Nat] == IF n = 0 THEN b ELSE TypeOf(up[n - 1]).base
  IN  [n \in 1..Cardinality(Entities) |-> up[n - 1]]

Lineage(b) == Range(Line(b)) \ {None}

(* Where on its line of bases a component of a type without it may come from. *)
Providers(type, c) ==
  LET line == Line(type.base) IN {n \in DOMAIN line : c \in TypeOf(line[n]).comps}

(* The nearest of them *)
Provider(type, c) == Line(type.base)[Min(Providers(type, c))]

InheritedBy(type) == {c \in Comps \ type.comps : Providers(type, c) # {}}

(* The components copied into an entity that gets the base b. *)
CopiesFrom(comps, b) ==
  {c \in Comps \ (Shared \cup comps) : \E a \in Lineage(b) : c \in TypeOf(a).comps}

-----------------------------------------------------------------------------
(* The cache of a query. *)

(* The pointer to a field of table t: to a column, or to one value of a base. *)
(* room says which allocation the columns of each table are in.              *)
FieldOf(shape, t, type, c, room) ==
  IF c \in type.comps THEN [kind |-> "owned", table |-> t, room |-> room[t], row |-> 1]
  ELSE IF c \in shape.writes \/ Providers(type, c) = {}
  THEN [kind |-> "none", table |-> None, room |-> None, row |-> None]
  ELSE LET base == place[Provider(type, c)]
       IN  [kind |-> "shared", table |-> base.table, room |-> room[base.table], row |-> base.row]

Bind(shape, t, type, room) ==
  [id |-> t, fields |-> [c \in shape.reads \cup shape.writes \cup shape.optional |->
                           FieldOf(shape, t, type, c, room)]]

(* What ecs_query_add asks of a table: an inherited Abstract does not count. *)
Accepts(shape, type) ==
  /\ shape.reads \subseteq type.comps \cup InheritedBy(type)
  /\ shape.writes \subseteq type.comps
  /\ Abstract \notin type.comps
  /\ shape.without \cap (type.comps \cup InheritedBy(type)) = {}

(* Seeded defect: the order is kept only by the sort of a new query. *)
PositionAtEnd(shape, cache, base) == Len(cache) + 1

(* Where an entry goes: at the end, or behind the last that is not after it. *)
Position(shape, cache, base) ==
  IF ~shape.ordered THEN Len(cache) + 1
  ELSE 1 + Cardinality({i \in DOMAIN cache : types[cache[i].id].base <= base})

Offer(shape, cache, t, type, room) ==
  IF Accepts(shape, type)
  THEN InsertAt(cache, Position(shape, cache, type.base), Bind(shape, t, type, room))
  ELSE cache

(* ecs_query_index_add_table *)
OfferToActive(t, type, room) ==
  [s \in DOMAIN queries |->
     IF s \in Range(active)
     THEN [queries[s] EXCEPT !.cache = Offer(queries[s].shape, @, t, type, room)]
     ELSE queries[s]]

(* Seeded defect: only the entry of the table that has grown. *)
MustRebindDirect(t, id) == id = t

(* Which entries are bound again when table t has grown: that of t, and, when *)
(* some entity of t is a base, those whose line of bases passes through t.    *)
MustRebind(t, id) ==
  \/ id = t
  \/ /\ \E i \in DOMAIN rows[t] : Inherited(rows[t][i])
     /\ \E b \in Lineage(types[id].base) : place[b].table = t

RefreshAfterGrowth(t, room) ==
  [s \in DOMAIN queries |->
     IF s \in Range(active)
     THEN [queries[s] EXCEPT !.cache = [i \in DOMAIN @ |->
             IF MustRebind(t, @[i].id) THEN Bind(queries[s].shape, @[i].id, types[@[i].id], room)
             ELSE @[i]]]
     ELSE queries[s]]

-----------------------------------------------------------------------------
(* Tables. *)

(* A row is filled with the last row of its table. *)
RowsWithout(t, r) ==
  IF r = Len(rows[t]) THEN Front(rows[t]) ELSE [Front(rows[t]) EXCEPT ![r] = Last(rows[t])]

(* The rows of bases stay where queries point unless "move" is allowed. *)
MayLeave(e) ==
  LET last == Last(rows[place[e].table])
  IN  last = e \/ ~Inherited(last) \/ "move" \in BaseHazards

(* ecs_table_add_entity: the columns move when there is no room, and then the *)
(* queries are told.                                                         *)
GrowFor(t) ==
  LET room == [capacity EXCEPT ![t] = IF Len(rows[t]) >= @ THEN 2 * @ ELSE @]
  IN  /\ capacity' = room
      /\ queries' = IF room = capacity THEN queries ELSE RefreshAfterGrowth(t, room)

(* Seeded defect: a component lists only the tables that own it. *)
CreateTableOwnOnly(type) ==
  LET t == Len(types) + 1
      room == Append(capacity, 1)
  IN  /\ Len(types) < MaxTables
      /\ types' = Append(types, type)
      /\ capacity' = room
      /\ having' = [c \in Comps |-> IF c \in type.comps THEN Append(having[c], t) ELSE having[c]]
      /\ queries' = OfferToActive(t, type, room)

(* ecs_table_index_get_or_create, where the type is new *)
CreateTable(type) ==
  LET t == Len(types) + 1
      room == Append(capacity, 1)
  IN  /\ Len(types) < MaxTables
      /\ types' = Append(types, type)
      /\ capacity' = room
      /\ having' = [c \in Comps |-> IF c \in type.comps \cup InheritedBy(type)
                                    THEN Append(having[c], t) ELSE having[c]]
      /\ queries' = OfferToActive(t, type, room)

(* Seeded defect: the entity that fills the hole keeps its old row. *)
MigrateAlone(e, t) ==
  LET old == place[e]
      into == IF t > Len(types) THEN Append(rows, <<>>) ELSE rows
  IN  /\ rows' = [into EXCEPT ![old.table] = RowsWithout(old.table, old.row),
                              ![t] = Append(@, e)]
      /\ place' = [place EXCEPT ![e] = [table |-> t, row |-> Len(into[t]) + 1]]

(* ecs_migrate: append to the new table, then fill the hole in the old one *)
Migrate(e, t) ==
  LET old == place[e]
      into == IF t > Len(types) THEN Append(rows, <<>>) ELSE rows
      moved == Last(rows[old.table])
  IN  /\ rows' = [into EXCEPT ![old.table] = RowsWithout(old.table, old.row),
                              ![t] = Append(@, e)]
      /\ place' = [place EXCEPT ![moved].row = old.row,
                                ![e] = [table |-> t, row |-> Len(into[t]) + 1]]

(* The tables of a list whose line of bases passes through e: their types and *)
(* the lists they are in stay as they are when e changes.                    *)
Behind(list, e) == {t \in DOMAIN list : e \in Lineage(list[t].base)}

ChangeType(e, type) ==
  /\ MayLeave(e)
  /\ UNCHANGED <<dead, active, free>>
  /\ \/ \E t \in Tables : types[t] = type /\ t # place[e].table /\ GrowFor(t) /\ Migrate(e, t)
                          /\ UNCHANGED <<types, having>>
     \/ /\ \A t \in Tables : types[t] # type
        /\ CreateTable(type) /\ Migrate(e, Len(types) + 1)
  /\ changed' = changed \cup Behind(types', e)

-----------------------------------------------------------------------------
(* Operations. *)

Init ==
  /\ types = <<[comps |-> {}, base |-> None]>>
  /\ rows = << <<>> >> /\ capacity = <<1>>
  /\ place = [e \in Entities |-> Nowhere] /\ dead = {}
  /\ having = [c \in Comps |-> <<>>] /\ changed = {}
  /\ queries = <<>> /\ active = <<>> /\ free = <<>>

(* ecs_new: an index of no living entity, the table of the empty type.       *)
(* Handles are numbered in the order they are given out.                     *)
New(e) ==
  /\ place[e] = Nowhere /\ e \notin dead
  /\ \A d \in Entities : d < e => d \in Living \cup dead
  /\ \A d \in Living : IndexOf[d] # IndexOf[e]
  /\ GrowFor(Root)
  /\ rows' = [rows EXCEPT ![Root] = Append(@, e)]
  /\ place' = [place EXCEPT ![e] = [table |-> Root, row |-> Len(rows[Root]) + 1]]
  /\ UNCHANGED <<types, dead, having, changed, active, free>>

(* ecs_add: not on an entity that is Abstract; a component owned stays as it  *)
(* is.  Also ecs_abstract, for an entity without children.                   *)
AddComp(e, c) ==
  /\ e \in Living /\ {c, Abstract} \cap TypeOf(e).comps = {}
  /\ ChangeType(e, [TypeOf(e) EXCEPT !.comps = @ \cup {c} \cup Requires[c]])

(* The code changes a base in use like any entity, and offers the tables of   *)
(* its inheritors to nothing again.                                          *)
MayChange(e) == ~Inherited(e) \/ "change" \in BaseHazards

(* ecs_remove *)
RemoveComp(e, c) ==
  /\ e \in Living /\ c \in TypeOf(e).comps /\ MayChange(e)
  /\ ChangeType(e, [TypeOf(e) EXCEPT !.comps = @ \ {c}])

(* ecs_is_a_now, where b is Abstract: what it does first to another base is   *)
(* AddComp(b, Abstract), which leaves the lines of bases as they are, so that *)
(* the search for a cycle, which comes before it, would find the same.       *)
IsA(e, b) ==
  /\ {e, b} \subseteq Living /\ Abstract \in TypeOf(b).comps /\ MayChange(e)
  /\ e \notin Lineage(b) /\ TypeOf(e).base # b
  /\ ChangeType(e, [comps |-> TypeOf(e).comps \cup CopiesFrom(TypeOf(e).comps, b), base |-> b])

(* ecs_unrelate of IsA: what was inherited by reference is inherited no more. *)
IsNot(e) ==
  /\ e \in Living /\ TypeOf(e).base # None /\ MayChange(e)
  /\ ChangeType(e, [TypeOf(e) EXCEPT !.base = None])

(* Seeded defect: the record of a dead entity still names its row. *)
KillPlaced(e) ==
  LET old == place[e]
  IN  /\ e \in Living /\ MayLeave(e)
      /\ \A d \in Living : TypeOf(d).base # e
      /\ "die" \in BaseHazards \/ ~Inherited(e)
      /\ rows' = [rows EXCEPT ![old.table] = RowsWithout(old.table, old.row)]
      /\ place' = [place EXCEPT ![Last(rows[old.table])].row = old.row]
      /\ dead' = dead \cup {e}
      /\ changed' = changed \cup Behind(types, e)
      /\ UNCHANGED <<types, capacity, having, queries, active, free>>

(* ecs_kill_now of an entity no living one inherits from *)
Kill(e) ==
  LET old == place[e]
  IN  /\ e \in Living /\ MayLeave(e)
      /\ \A d \in Living : TypeOf(d).base # e
      /\ "die" \in BaseHazards \/ ~Inherited(e)
      /\ rows' = [rows EXCEPT ![old.table] = RowsWithout(old.table, old.row)]
      /\ place' = [place EXCEPT ![Last(rows[old.table])].row = old.row, ![e] = Nowhere]
      /\ dead' = dead \cup {e}
      /\ changed' = changed \cup Behind(types, e)
      /\ UNCHANGED <<types, capacity, having, queries, active, free>>

(* The tables a new query looks at: the shortest list that holds all matches. *)
Candidates(shape) ==
  LET lists == {[t \in Tables |-> t]} \cup {having[c] : c \in shape.reads \cup shape.writes}
  IN  CHOOSE l \in lists : \A k \in lists : Len(l) <= Len(k)

(* The matches among the candidates, in the order they are looked at *)
Filled(shape) ==
  LET list == Candidates(shape)
      found[n \in 0..Len(list)] ==
        IF n = 0 THEN <<>> ELSE Offer(shape, found[n - 1], list[n], types[list[n]], capacity)
  IN  found[Len(list)]

(* ecs_query_index_create and _activate; the sort is stable *)
QueryInit(shape) ==
  LET s == IF free = <<>> THEN Len(queries) + 1 ELSE Head(free)
      query == [alive |-> TRUE, shape |-> shape, cache |-> Filled(shape)]
  IN  /\ Len(active) < MaxQueries
      /\ queries' = IF free = <<>> THEN Append(queries, query) ELSE [queries EXCEPT ![s] = query]
      /\ free' = IF free = <<>> THEN free ELSE Tail(free)
      /\ active' = Append(active, s)

(* ecs_query_fini: the last active query takes the place of the one removed *)
QueryFini(s) ==
  /\ active' = Front([i \in DOMAIN active |-> IF active[i] = s THEN Last(active) ELSE active[i]])
  /\ queries' = [queries EXCEPT ![s] = Gone]
  /\ free' = <<s>> \o free

CreateQuery(shape) == QueryInit(shape) /\ UNCHANGED tableVars
FiniQuery(s) == s \in Range(active) /\ QueryFini(s) /\ UNCHANGED tableVars

Next ==
  \/ \E e \in Entities :
       \/ New(e) \/ IsNot(e) \/ Kill(e)
       \/ \E c \in Comps : AddComp(e, c) \/ RemoveComp(e, c)
       \/ AddComp(e, Abstract)
       \/ \E b \in Entities : IsA(e, b)
  \/ \E shape \in Shapes : CreateQuery(shape)
  \/ \E s \in DOMAIN queries : FiniQuery(s)

Spec == Init /\ [][Next]_vars

-----------------------------------------------------------------------------
(* Properties. *)

TypeOK ==
  /\ types \in Seq([comps : SUBSET (Comps \cup {Abstract}), base : Entities \cup {None}])
  /\ rows \in Seq(Seq(Entities)) /\ capacity \in Seq(Nat)
  /\ place \in [Entities -> [table : Tables \cup {None}, row : Nat]]
  /\ dead \subseteq Entities \ Living
  /\ having \in [Comps -> Seq(Tables)] /\ changed \subseteq Tables
  /\ active \in Seq(DOMAIN queries) /\ free \in Seq(DOMAIN queries)

(* Each living entity is in the row its record names, and in no other row:    *)
(* the moves of table_migration.c and the swap of table.c agree with records. *)
RecordsAgree ==
  /\ \A e \in Living : /\ place[e].row \in DOMAIN rows[place[e].table]
                       /\ rows[place[e].table][place[e].row] = e
  /\ \A t \in Tables : \A i \in DOMAIN rows[t] : place[rows[t][i]] = [table |-> t, row |-> i]

(* The cache of a query lists every table it matches once, whenever table and *)
(* query were made, in the order of bases when the query asks for it.  Where  *)
(* a base has changed since the table was made, the code keeps what it found. *)
CacheExact ==
  \A s \in DOMAIN queries : queries[s].alive =>
    LET cache == queries[s].cache
        base(i) == types[cache[i].id].base
    IN  /\ {cache[i].id : i \in DOMAIN cache} \ changed =
             {t \in Tables : Accepts(queries[s].shape, types[t])} \ changed
        /\ Len(cache) = Cardinality({cache[i].id : i \in DOMAIN cache})
        /\ queries[s].shape.ordered => \A i, j \in DOMAIN cache : i < j => base(i) <= base(j)

(* The pointers a query keeps are those a fresh binding would give, however   *)
(* tables have grown since: no query reads or writes a column that moved.    *)
FieldsCurrent ==
  \A s \in DOMAIN queries : queries[s].alive =>
    \A i \in DOMAIN queries[s].cache :
      LET t == queries[s].cache[i].id
      IN  t \in changed \/ queries[s].cache[i] = Bind(queries[s].shape, t, types[t], capacity)

(* The list of a component names each table that owns or inherits it, once:   *)
(* a new query looks at no table outside the shortest of these lists.        *)
HavingExact ==
  \A c \in Comps :
    /\ Range(having[c]) \ changed =
         {t \in Tables : c \in types[t].comps \cup InheritedBy(types[t])} \ changed
    /\ Len(having[c]) = Cardinality(Range(having[c]))

(* Entry x stands before entry y. *)
Before(cache, x, y) == \E i, j \in DOMAIN cache : i < j /\ cache[i] = x /\ cache[j] = y

(* A query made now would be given what an old one of its shape holds, the    *)
(* same pointers in the same order: the shortest list of a component leaves   *)
(* out no table that the old one was offered one by one, and the places at    *)
(* which tables were put in come to what the sort of a new query gives.      *)
AsIfNew ==
  \A s \in DOMAIN queries : queries[s].alive =>
    LET old == queries[s].cache
        new == Filled(queries[s].shape)
        Entries(cache) == {x \in Range(cache) : x.id \notin changed}
    IN  /\ Entries(old) = Entries(new)
        /\ \A x, y \in Entries(old) : Before(old, x, y) <=> Before(new, x, y)
=============================================================================
