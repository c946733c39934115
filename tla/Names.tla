-------------------------------- MODULE Names --------------------------------
(* Names and parents (naming.c): a hash table with open addressing finds the  *)
(* child of a parent by its name, a second index finds the entities without a *)
(* parent.  Removing an entry leaves a mark that a probe passes over; growing *)
(* clears the marks.  Operations run to their end before any observer: they   *)
(* open a defer scope.  Seeded defects, wrong forms of the definition below    *)
(* them that the properties must tell from it, are marked so.                *)
EXTENDS Naturals, Sequences, FiniteSets, SequencesExt, FiniteSetsExt

CONSTANTS
  Entities,   \* handles, numbered in the order they are given out
  Names,      \* names that are valid
  Hash,       \* hash of a parent and a name
  Capacity    \* of a table at first: a power of two, 16 in the code

NoName == "none"
Top == 0
Empty == [key |-> <<>>, entity |-> 0]      \* a slot of hash 0
Deleted == [key |-> <<>>, entity |-> 1]    \* a mark: hash 1

ASSUME EntitiesNumbered == Entities \subseteq Nat \ {Top} /\ IsFiniteSet(Entities)
ASSUME NamesNamed == NoName \notin Names
ASSUME HashIsNumber == Hash \in [(Entities \cup {Top}) \X Names -> Nat]
ASSUME CapacityHoldsTwo == Capacity \in Nat /\ Capacity >= 4

VARIABLES
  living, dead,   \* handles alive, and killed
  parent, name,   \* the ChildOf target and the Name of an entity
  index,          \* names: slots from 0, how many hold an entry, how many a mark
  roots           \* root_names: the entity without a parent that has a name

vars == <<living, dead, parent, name, index, roots>>

Keys == (Entities \cup {Top}) \X Names
Entries == [key : Keys, entity : Entities]

-----------------------------------------------------------------------------
(* The index. *)

At(t, key, k) == (Hash[key] + k) % t.size

(* The length of a probe for a key: to its entry, or to the first empty slot. *)
Steps(t, key) ==
  CHOOSE k \in 0..t.size - 1 :
    /\ t.slots[At(t, key, k)] = Empty \/ t.slots[At(t, key, k)].key = key
    /\ \A j \in 0..k - 1 : LET slot == t.slots[At(t, key, j)] IN slot # Empty /\ slot.key # key
Stop(t, key) == At(t, key, Steps(t, key))

(* ecs_name_index_find *)
Find(t, key) ==
  IF t.count = 0 THEN Top
  ELSE LET slot == t.slots[Stop(t, key)] IN IF slot.key = key THEN slot.entity ELSE Top

(* Where a new entry goes: in the first mark on the way, else where it ends. *)
Vacancy(t, key) ==
  LET marks == {k \in 0..Steps(t, key) - 1 : t.slots[At(t, key, k)] = Deleted}
  IN  IF marks = {} THEN Stop(t, key) ELSE At(t, key, Min(marks))

(* ecs_name_index_rehash: entries in the order of their old slots, no marks *)
Rehash(t, size) ==
  LET blank == [slots |-> [s \in 0..size - 1 |-> Empty], size |-> size, count |-> t.count, deleted |-> 0]
      moved[i \in 0..t.size] ==
        IF i = 0 THEN blank
        ELSE LET u == moved[i - 1]  entry == t.slots[i - 1]
             IN  IF entry \in {Empty, Deleted} THEN u
                 ELSE [u EXCEPT !.slots[Stop(u, entry.key)] = entry]
  IN  moved[t.size]

(* Three quarters of the slots hold an entry or a mark: make room.  The table *)
(* doubles only if it is the entries that fill it.                           *)
RoomFor(t) ==
  LET size == IF t.size = 0 THEN Capacity ELSE t.size
  IN  IF t.size # 0 /\ (t.count + t.deleted + 1) * 4 < t.size * 3 THEN t
      ELSE Rehash(t, IF (t.count + 1) * 4 >= size * 3 THEN 2 * size ELSE size)

(* ecs_name_index_insert: an entry of the key is taken over *)
Put(t, key, e) ==
  LET u == RoomFor(t)
      entry == [key |-> key, entity |-> e]
      at == Vacancy(u, key)
  IN  IF u.slots[Stop(u, key)].key = key THEN [u EXCEPT !.slots[Stop(u, key)] = entry]
      ELSE [u EXCEPT !.slots[at] = entry, !.count = @ + 1,
                     !.deleted = IF u.slots[at] = Deleted THEN @ - 1 ELSE @]

-----------------------------------------------------------------------------
(* The tree. *)

(* e, its parent, the parent of that, ...: the loop of ecs_name_is_ancestor *)
Line(e) ==
  LET up[n \in Nat] == IF n = 0 THEN e ELSE LET d == up[n - 1] IN IF d = Top THEN Top ELSE parent[d]
  IN  {up[n] : n \in 0..Cardinality(Entities)} \ {Top}
Below(e) == {d \in living : e \in Line(d)}

(* ecs_names_remove, for some entities: the entry of an entity becomes a mark, *)
(* which keeps longer probes whole.  Nothing is done for another's entry.    *)
EntriesOf(t, ds) ==
  {Stop(t, <<parent[d], name[d]>>) :
     d \in {c \in ds : name[c] # NoName /\ Find(t, <<parent[c], name[c]>>) = c}}
(* Seeded defect: the slot of the entry becomes empty. *)
UnregisterToEmpty(t, ds) ==
  LET gone == EntriesOf(t, ds)
  IN  [t EXCEPT !.slots = [s \in DOMAIN @ |-> IF s \in gone THEN Empty ELSE @[s]],
                !.count = @ - Cardinality(gone)]
(* Seeded defect: marks are not counted. *)
UnregisterUncounted(t, ds) ==
  LET gone == EntriesOf(t, ds)
  IN  [t EXCEPT !.slots = [s \in DOMAIN @ |-> IF s \in gone THEN Deleted ELSE @[s]],
                !.count = @ - Cardinality(gone)]
Unregister(t, ds) ==
  LET gone == EntriesOf(t, ds)
  IN  [t EXCEPT !.slots = [s \in DOMAIN @ |-> IF s \in gone THEN Deleted ELSE @[s]],
                !.count = @ - Cardinality(gone), !.deleted = @ + Cardinality(gone)]

(* The short index forgets an entity only under the name it still has there. *)
UnregisterRoots(ds) == [n \in Names |->
  IF \E d \in ds : d = roots[n] /\ name[d] = n /\ parent[d] = Top THEN Top ELSE roots[n]]

Init ==
  /\ living = {} /\ dead = {}
  /\ parent = [e \in Entities |-> Top] /\ name = [e \in Entities |-> NoName]
  /\ index = [slots |-> [s \in {} |-> Empty], size |-> 0, count |-> 0, deleted |-> 0]
  /\ roots = [n \in Names |-> Top]

(* Seeded defect: a handle is given out again when its entity is dead. *)
NewestAgain(e) == e \notin living

Newest(e) == e \notin living \cup dead /\ \A d \in Entities : d < e => d \in living \cup dead

(* ecs_name_update_now, after its checks: who has the name under the parent   *)
(* dies, e leaves its entry, moves, and gets an entry where it now is.       *)
Victim(e, p, n) ==
  IF n = NoName THEN Top ELSE LET v == Find(index, <<p, n>>) IN IF v = e THEN Top ELSE v
(* Seeded defect: the entity that gives way may be above the one that comes. *)
MayTakeUnchecked(e, p, n) == p = parent[e] \/ p = Top \/ (p \in living /\ e \notin Line(p))
MayTake(e, p, n) ==
  /\ p = parent[e] \/ p = Top \/ (p \in living /\ e \notin Line(p))
  /\ Victim(e, p, n) = Top \/ Victim(e, p, n) \notin Line(e) \cup Line(p)

Relocate(e, p, n) ==
  LET gone == IF Victim(e, p, n) = Top THEN {} ELSE Below(Victim(e, p, n))
      left == Unregister(index, gone \cup {e})
  IN  /\ dead' = dead \cup gone /\ living' = (living \cup {e}) \ gone
      /\ parent' = [d \in Entities |-> IF d = e THEN p ELSE IF d \in gone THEN Top ELSE parent[d]]
      /\ name' = [d \in Entities |-> IF d = e THEN n ELSE IF d \in gone THEN NoName ELSE name[d]]
      /\ index' = IF n = NoName THEN left ELSE Put(left, <<p, n>>, e)
      /\ roots' = IF n # NoName /\ p = Top
                  THEN [UnregisterRoots(gone \cup {e}) EXCEPT ![n] = e]
                  ELSE UnregisterRoots(gone \cup {e})

(* ecs_set_name, or Name set or removed *)
SetName(e, n) ==
  /\ e \in living /\ n # name[e] /\ MayTake(e, parent[e], n)
  /\ Relocate(e, parent[e], n)

(* ecs_relate and ecs_unrelate of ChildOf *)
SetParent(e, p) ==
  /\ e \in living /\ p # parent[e] /\ MayTake(e, p, name[e])
  /\ Relocate(e, p, name[e])

(* ecs_new *)
New(e) ==
  /\ Newest(e) /\ living' = living \cup {e}
  /\ UNCHANGED <<dead, parent, name, index, roots>>

(* A segment of the path of ecs_new_named that is not there yet *)
NewNamed(e, p, n) ==
  /\ Newest(e) /\ p \in living \cup {Top} /\ Find(index, <<p, n>>) = Top
  /\ Relocate(e, p, n)

(* ecs_kill of e and, because ChildOf deletes sources, of all that is below   *)
(* it; the hook of its Name unregisters each.                                *)
Kill(e) ==
  /\ e \in living
  /\ living' = living \ Below(e) /\ dead' = dead \cup Below(e)
  /\ parent' = [d \in Entities |-> IF d \in Below(e) THEN Top ELSE parent[d]]
  /\ name' = [d \in Entities |-> IF d \in Below(e) THEN NoName ELSE name[d]]
  /\ index' = Unregister(index, Below(e)) /\ roots' = UnregisterRoots(Below(e))

Next ==
  \E e \in Entities :
    \/ New(e) \/ Kill(e)
    \/ \E n \in Names \cup {NoName} : SetName(e, n)
    \/ \E p \in Entities \cup {Top} : SetParent(e, p)
    \/ \E p \in Entities \cup {Top}, n \in Names : NewNamed(e, p, n)

Spec == Init /\ [][Next]_vars

-----------------------------------------------------------------------------
(* Properties. *)

TypeOK ==
  /\ living \subseteq Entities \ dead /\ dead \subseteq Entities
  /\ parent \in [Entities -> Entities \cup {Top}] /\ name \in [Entities -> Names \cup {NoName}]
  /\ roots \in [Names -> Entities \cup {Top}]
  /\ index.size \in Nat /\ DOMAIN index.slots = 0..index.size - 1
  /\ Range(index.slots) \subseteq Entries \cup {Empty, Deleted}

(* The counters of the index say how many entries and marks it holds, and some *)
(* slot is empty: a probe for a name that is not there comes to an end.      *)
ProbesEnd ==
  /\ index.deleted = Cardinality({s \in DOMAIN index.slots : index.slots[s] = Deleted})
  /\ index.count = Cardinality({s \in DOMAIN index.slots : index.slots[s] \in Entries})
  /\ index.size # 0 => \E s \in DOMAIN index.slots : index.slots[s] = Empty

(* Each named entity alive has its entry where a probe finds it, and there is  *)
(* no other entry: the index is what the tree says, whatever was removed.      *)
(* The short way of ecs_lookup for a plain name finds what the long one does.  *)
IndexExact ==
  /\ \A e \in living : name[e] # NoName => Find(index, <<parent[e], name[e]>>) = e
  /\ \A s \in DOMAIN index.slots : index.slots[s] \in Entries =>
       LET entry == index.slots[s]
       IN  entry.entity \in living /\ entry.key = <<parent[entry.entity], name[entry.entity]>>
  /\ \A n \in Names : roots[n] = Find(index, <<Top, n>>)

(* Names implement the tree of NameTree, with the probes as its lookup. *)
Tree == INSTANCE NameTree WITH lookup <- [k \in Keys |-> Find(index, k)]
ImplementsTree == Tree!Spec
=============================================================================
