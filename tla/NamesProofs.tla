------------------------------ MODULE NamesProofs ------------------------------
(* Theorems about Names: the index with open addressing is the map from keys  *)
(* to entities that the tree says, and Names implements NameTree.  First what *)
(* each operation of the index does to its contents, for any hash; then lines *)
(* of parents; then the steps.                                               *)
EXTENDS Names, RecursionLemmas, FiniteSetTheorems, TLAPS

-----------------------------------------------------------------------------
(* Tables of slots. *)

(* What a slot may hold                                                      *)
Slots == Entries \cup {Empty, Deleted}

(* The records an index of n slots can be *)
IndexOf(n) == [slots : [0..n - 1 -> Slots], size : {n}, count : Nat, deleted : Nat]

(* The first k steps of a probe for a key pass over what is there. *)
Passes(t, key, k) ==
  \A j \in 0..k - 1 : t.slots[At(t, key, j)] # Empty /\ t.slots[At(t, key, j)].key # key

(* A probe for its key leads to each entry. *)
Reached(t) ==
  \A s \in 0..t.size - 1 : t.slots[s] \in Entries =>
    \E k \in 0..t.size - 1 : At(t, t.slots[s].key, k) = s /\ Passes(t, t.slots[s].key, k)

(* The entries of an index                                                   *)
Contents(t) == {x \in Entries : \E s \in 0..t.size - 1 : t.slots[s] = x}

(* Where it has entries and marks, and that it knows how many                *)
Occupied(t) == {s \in 0..t.size - 1 : t.slots[s] \in Entries}
Marked(t) == {s \in 0..t.size - 1 : t.slots[s] = Deleted}
Counted(t) == t.count = Cardinality(Occupied(t)) /\ t.deleted = Cardinality(Marked(t))

(* Entries and marks leave more than a quarter of the slots empty. *)
Roomy(t) == t.size = 0 \/ (t.size >= 4 /\ (t.count + t.deleted) * 4 < t.size * 3)

(* What every operation of the index keeps                                   *)
Sound(t) == t \in IndexOf(t.size) /\ t.size \in Nat /\ Reached(t) /\ Counted(t) /\ Roomy(t)

(* An entry is neither an empty slot nor a mark, and neither has a key.       *)
LEMMA KindsOfSlots ==
  /\ Empty \notin Entries /\ Deleted \notin Entries /\ Empty # Deleted
  /\ \A key \in Keys : Empty.key # key /\ Deleted.key # key
<1>1. \A key \in Keys : key # <<>>
  BY DEF Keys
<1>2. Empty.key = <<>> /\ Deleted.key = <<>> /\ Empty.entity = 0 /\ Deleted.entity = 1
  BY DEF Empty, Deleted
<1>3. \A x \in Entries : x.key \in Keys
  BY DEF Entries
<1>4. QED
  BY <1>1, <1>2, <1>3

(* A number is what its quotient and its remainder say.                      *)
LEMMA Division ==
  ASSUME NEW n \in Nat \ {0}, NEW h \in Nat
  PROVE  h \div n \in Nat /\ h % n \in 0..n - 1 /\ h = n * (h \div n) + (h % n)
<1>1. h \div n \in Nat
  OBVIOUS
<1>2. h % n \in 0..n - 1
  OBVIOUS
<1>3. h = n * (h \div n) + (h % n)
  BY Z3
<1>4. QED
  BY <1>1, <1>2, <1>3

(* The remainder is what a multiple of the divisor leaves.                   *)
LEMMA Remainder ==
  ASSUME NEW n \in Nat \ {0}, NEW q \in Nat, NEW r \in 0..n - 1
  PROVE  (n * q + r) % n = r
OBVIOUS

(* A probe comes to every slot.                                              *)
LEMMA ProbeCovers ==
  ASSUME NEW n \in Nat \ {0}, NEW h \in Nat, NEW s \in 0..n - 1
  PROVE  \E k \in 0..n - 1 : (h + k) % n = s
<1>1. PICK q \in Nat, r \in 0..n - 1 : h = n * q + r
  BY Division
<1>2. CASE r <= s
  <2>1. h + (s - r) = n * q + s
    BY <1>1
  <2>2. s - r \in 0..n - 1
    BY <1>2
  <2>3. QED
    BY <2>1, <2>2, Remainder
<1>3. CASE r > s
  <2>1. n * (q + 1) = n * q + n
    OBVIOUS
  <2>2. h + (s + n - r) = n * (q + 1) + s
    BY <1>1, <2>1
  <2>3. (n * (q + 1) + s) % n = s /\ s + n - r \in 0..n - 1
    BY <1>3, Remainder
  <2>4. QED
    BY <2>2, <2>3
<1>4. QED
  BY <1>2, <1>3

(* Where a probe may go: a slot of the index.                                *)
LEMMA ProbesInside ==
  ASSUME NEW n \in Nat \ {0}, NEW t \in IndexOf(n), NEW key \in Keys, NEW k \in Nat
  PROVE  At(t, key, k) \in 0..n - 1
<1>1. Hash[key] \in Nat
  BY HashIsNumber DEF Keys
<1>2. t.size = n
  BY DEF IndexOf
<1>3. Hash[key] + k \in Nat
  BY <1>1
<1>4. QED
  BY <1>2, <1>3, Division DEF At

(* Every slot is somewhere on the probe of a key.                            *)
LEMMA ProbesEverywhere ==
  ASSUME NEW n \in Nat \ {0}, NEW t \in IndexOf(n), NEW key \in Keys, NEW s \in 0..n - 1
  PROVE  \E k \in 0..n - 1 : At(t, key, k) = s
<1>1. Hash[key] \in Nat
  BY HashIsNumber DEF Keys
<1>2. t.size = n
  BY DEF IndexOf
<1>3. QED
  BY <1>1, <1>2, ProbeCovers DEF At

(* The probe for a key ends at the one place with nothing before it.         *)
LEMMA StepsUnique ==
  ASSUME NEW n \in Nat \ {0}, NEW t \in IndexOf(n), NEW key \in Keys, NEW k \in 0..n - 1,
         Passes(t, key, k),
         t.slots[At(t, key, k)] = Empty \/ t.slots[At(t, key, k)].key = key
  PROVE  Steps(t, key) = k
<1> DEFINE P(i) == /\ t.slots[At(t, key, i)] = Empty \/ t.slots[At(t, key, i)].key = key
                   /\ \A j \in 0..i - 1 : LET slot == t.slots[At(t, key, j)]
                                          IN  slot # Empty /\ slot.key # key
<1>1. t.size = n
  BY DEF IndexOf
<1>2. P(k)
  BY DEF Passes
<1>3. Steps(t, key) = CHOOSE i \in 0..n - 1 : P(i)
  BY <1>1 DEF Steps
<1>4. Steps(t, key) \in 0..n - 1 /\ P(Steps(t, key))
  BY <1>2, <1>3
<1>5. \A i, j \in 0..n - 1 : P(i) /\ P(j) => ~(i < j)
  OBVIOUS
<1> HIDE DEF P
<1>6. ~(k < Steps(t, key)) /\ ~(Steps(t, key) < k)
  BY <1>2, <1>4, <1>5
<1>7. QED
  BY <1>4, <1>6

(* With an empty slot, the probe ends.                                       *)
LEMMA StepsFound ==
  ASSUME NEW n \in Nat \ {0}, NEW t \in IndexOf(n), NEW key \in Keys,
         \E s \in 0..n - 1 : t.slots[s] = Empty
  PROVE  /\ Steps(t, key) \in 0..n - 1 /\ Passes(t, key, Steps(t, key))
         /\ t.slots[Stop(t, key)] = Empty \/ t.slots[Stop(t, key)].key = key
<1> DEFINE Q(i) == t.slots[At(t, key, i)] = Empty \/ t.slots[At(t, key, i)].key = key
           Ends == {i \in 0..n - 1 : Q(i)}
<1>1. Ends # {}
  BY ProbesEverywhere
<1>2. Ends \in SUBSET Nat
  OBVIOUS
<1>3. PICK k \in Ends : \A i \in Ends : k <= i
  BY ONLY <1>1, <1>2, LeastOf
<1>4. Passes(t, key, k)
  BY <1>3 DEF Passes
<1>5. Steps(t, key) = k
  BY <1>3, <1>4, StepsUnique
<1>6. QED
  BY <1>3, <1>4, <1>5 DEF Stop

(* The probe for the key of an entry ends at the entry.                      *)
LEMMA StopAtEntry ==
  ASSUME NEW n \in Nat \ {0}, NEW t \in IndexOf(n), Reached(t), NEW s \in 0..n - 1,
         t.slots[s] \in Entries
  PROVE  Stop(t, t.slots[s].key) = s
<1>1. t.size = n
  BY DEF IndexOf
<1>2. PICK k \in 0..n - 1 : At(t, t.slots[s].key, k) = s /\ Passes(t, t.slots[s].key, k)
  BY <1>1 DEF Reached
<1>3. t.slots[s].key \in Keys
  BY DEF Entries
<1>4. Steps(t, t.slots[s].key) = k
  BY <1>2, <1>3, StepsUnique
<1>5. QED
  BY <1>2, <1>4 DEF Stop

-----------------------------------------------------------------------------
(* Counts. *)

(* The slots of an index are finitely many.                                  *)
LEMMA SlotsFinite ==
  ASSUME NEW n \in Nat, NEW t \in IndexOf(n)
  PROVE  /\ IsFiniteSet(Occupied(t)) /\ IsFiniteSet(Marked(t))
         /\ Cardinality(Occupied(t)) \in Nat /\ Cardinality(Marked(t)) \in Nat
         /\ IsFiniteSet(0..n - 1) /\ Cardinality(0..n - 1) = n
<1>1. t.size = n
  BY DEF IndexOf
<1>2. IsFiniteSet(0..n - 1) /\ Cardinality(0..n - 1) = n
  BY FS_Interval
<1>3. Occupied(t) \subseteq 0..n - 1 /\ Marked(t) \subseteq 0..n - 1
  BY <1>1 DEF Occupied, Marked
<1>4. QED
  BY <1>2, <1>3, FS_Subset, FS_CardinalityType

(* Two finite sets without a common member have as many members together.    *)
LEMMA CountOfBoth ==
  ASSUME NEW S, NEW T, IsFiniteSet(S), IsFiniteSet(T), S \cap T = {}
  PROVE  IsFiniteSet(S \cup T) /\ Cardinality(S \cup T) = Cardinality(S) + Cardinality(T)
<1>1. /\ IsFiniteSet(S \cup T)
      /\ Cardinality(S \cup T) = Cardinality(S) + Cardinality(T) - Cardinality(S \cap T)
  BY FS_Union
<1>2. Cardinality(S) \in Nat /\ Cardinality(T) \in Nat /\ Cardinality({}) = 0
  BY FS_CardinalityType, FS_EmptySet
<1>3. Cardinality(S \cap T) = 0
  BY <1>2
<1>4. QED
  BY ONLY <1>1, <1>2, <1>3

(* If entries and marks are fewer than the slots, a slot is empty.           *)
LEMMA EmptyIfFewer ==
  ASSUME NEW n \in Nat, NEW t \in IndexOf(n),
         Cardinality(Occupied(t)) + Cardinality(Marked(t)) < n
  PROVE  \E s \in 0..n - 1 : t.slots[s] = Empty
<1>1. SUFFICES ASSUME \A s \in 0..n - 1 : t.slots[s] # Empty PROVE FALSE
  OBVIOUS
<1>2. t.size = n /\ \A s \in 0..n - 1 : t.slots[s] \in Slots
  BY DEF IndexOf
<1>3. 0..n - 1 = Occupied(t) \cup Marked(t)
  BY <1>1, <1>2 DEF Occupied, Marked, Slots
<1>4. Occupied(t) \cap Marked(t) = {}
  BY KindsOfSlots DEF Occupied, Marked
<1>5. Cardinality(Occupied(t) \cup Marked(t)) = Cardinality(Occupied(t)) + Cardinality(Marked(t))
  BY <1>4, SlotsFinite, CountOfBoth
<1>6. Cardinality(0..n - 1) = n
  BY FS_Interval
<1>7. Cardinality(0..n - 1) = Cardinality(Occupied(t) \cup Marked(t))
  BY ONLY <1>3, Zenon
<1>8. QED
  BY <1>5, <1>6, <1>7

(* A sound index that has slots has an empty one.                            *)
LEMMA EmptyLeft ==
  ASSUME NEW t, Sound(t), t.size # 0
  PROVE  \E s \in 0..t.size - 1 : t.slots[s] = Empty
<1>1. t \in IndexOf(t.size) /\ t.size \in Nat /\ t.count \in Nat /\ t.deleted \in Nat
  BY DEF Sound, IndexOf
<1>2. t.count + t.deleted < t.size
  BY <1>1 DEF Sound, Roomy
<1>3. Cardinality(Occupied(t)) + Cardinality(Marked(t)) < t.size
  BY <1>2 DEF Sound, Counted
<1>4. QED
  BY <1>1, <1>3, EmptyIfFewer

-----------------------------------------------------------------------------
(* What a lookup finds. *)

(* An entry is the only one of its key.                                      *)
LEMMA KeysOnce ==
  ASSUME NEW n \in Nat, NEW t \in IndexOf(n), Reached(t),
         NEW r \in 0..n - 1, NEW s \in 0..n - 1, t.slots[r] \in Entries, t.slots[s] \in Entries,
         t.slots[r].key = t.slots[s].key
  PROVE  r = s
<1>1. n \in Nat \ {0}
  OBVIOUS
<1>2. Stop(t, t.slots[r].key) = r /\ Stop(t, t.slots[s].key) = s
  BY <1>1, StopAtEntry
<1>3. QED
  BY <1>2

(* Find returns the entity of the entry with the key, and Top if there is none. *)
LEMMA FindIs ==
  ASSUME NEW t, Sound(t), NEW key \in Keys
  PROVE  /\ \A x \in Contents(t) : x.key = key => Find(t, key) = x.entity
         /\ Find(t, key) # Top => [key |-> key, entity |-> Find(t, key)] \in Contents(t)
         /\ Find(t, key) \in Entities \cup {Top}
<1>1. t \in IndexOf(t.size) /\ t.size \in Nat /\ Reached(t)
  BY DEF Sound
<1>2. CASE t.count = 0
  <2>1. Occupied(t) = {}
    BY <1>1, <1>2, SlotsFinite, FS_EmptySet DEF Sound, Counted
  <2>2. Contents(t) = {}
    BY <2>1 DEF Contents, Occupied
  <2>3. Find(t, key) = Top
    BY <1>2 DEF Find
  <2>4. QED
    BY <2>2, <2>3
<1>3. CASE t.count # 0
  <2>1. t.size # 0
    <3>1. SUFFICES ASSUME t.size = 0 PROVE FALSE
      OBVIOUS
    <3>2. Occupied(t) = {}
      BY <3>1 DEF Occupied
    <3>3. QED
      BY <1>3, <3>2, FS_EmptySet DEF Sound, Counted
  <2>2. /\ Steps(t, key) \in 0..t.size - 1
        /\ t.slots[Stop(t, key)] = Empty \/ t.slots[Stop(t, key)].key = key
    BY <1>1, <2>1, EmptyLeft, StepsFound
  <2>3. Stop(t, key) \in 0..t.size - 1
    BY <1>1, <2>1, <2>2, ProbesInside DEF Stop
  <2>4. t.slots[Stop(t, key)] \in Slots
    BY <1>1, <2>3 DEF IndexOf
  <2>5. Find(t, key) = IF t.slots[Stop(t, key)].key = key THEN t.slots[Stop(t, key)].entity ELSE Top
    BY <1>3 DEF Find
  <2>6. ASSUME NEW x \in Contents(t), x.key = key PROVE Find(t, key) = x.entity
    <3>1. PICK s \in 0..t.size - 1 : t.slots[s] = x /\ x \in Entries
      BY DEF Contents
    <3>2. Stop(t, key) = s
      BY <1>1, <2>1, <2>6, <3>1, StopAtEntry
    <3>3. QED
      BY <2>5, <2>6, <3>1, <3>2
  <2>7. CASE t.slots[Stop(t, key)].key = key
    <3>1. t.slots[Stop(t, key)] \in Entries
      BY <2>4, <2>7, KindsOfSlots DEF Slots
    <3>2. PICK x \in Entries : x = t.slots[Stop(t, key)]
      BY <3>1
    <3>3. x = [key |-> x.key, entity |-> x.entity] /\ x.entity \in Entities
      BY <3>2 DEF Entries
    <3>4. x \in Contents(t)
      BY <2>3, <3>2 DEF Contents
    <3>5. x.key = key /\ Find(t, key) = x.entity
      BY <2>5, <2>7, <3>2
    <3>6. QED
      BY <2>6, <3>3, <3>4, <3>5
  <2>8. CASE t.slots[Stop(t, key)].key # key
    BY <2>5, <2>6, <2>8
  <2>9. QED
    BY <2>7, <2>8
<1>4. QED
  BY <1>2, <1>3

-----------------------------------------------------------------------------
(* Indexes with other slots and counts. *)

(* What the slots of an index can be                                         *)
Arrays(n) == [0..n - 1 -> Slots]

(* Slots and counts changed                                                  *)
Refilled(t, slots, count, deleted) ==
  [t EXCEPT !.slots = slots, !.count = count, !.deleted = deleted]

(* An index with other slots and counts has them and is one of its size.     *)
LEMMA Refilling ==
  ASSUME NEW n, NEW t \in IndexOf(n), NEW slots \in Arrays(n),
         NEW count \in Nat, NEW deleted \in Nat
  PROVE  /\ Refilled(t, slots, count, deleted) \in IndexOf(n)
         /\ Refilled(t, slots, count, deleted).slots = slots
         /\ Refilled(t, slots, count, deleted).size = n
         /\ Refilled(t, slots, count, deleted).count = count
         /\ Refilled(t, slots, count, deleted).deleted = deleted
BY DEF IndexOf, Refilled, Arrays

(* One slot changed *)
Reslotted(t, s, x) == [t EXCEPT !.slots[s] = x]

(* An index with one slot changed differs in that slot.                      *)
LEMMA Reslotting ==
  ASSUME NEW n, NEW t \in IndexOf(n), NEW s, NEW x \in Slots
  PROVE  /\ Reslotted(t, s, x) \in IndexOf(n)
         /\ Reslotted(t, s, x).slots = [t.slots EXCEPT ![s] = x]
         /\ Reslotted(t, s, x).size = n
         /\ Reslotted(t, s, x).count = t.count /\ Reslotted(t, s, x).deleted = t.deleted
<1>1. [t.slots EXCEPT ![s] = x] \in [0..n - 1 -> Slots]
  BY DEF IndexOf
<1>2. QED
  BY <1>1 DEF IndexOf, Reslotted

-----------------------------------------------------------------------------
(* Removing entries. *)

(* Slots turned into marks, and counted                                      *)
Erased(t, gone) ==
  [t EXCEPT !.slots = [s \in DOMAIN @ |-> IF s \in gone THEN Deleted ELSE @[s]],
            !.count = @ - Cardinality(gone), !.deleted = @ + Cardinality(gone)]

(* Entries become marks: every probe passes over them as before.             *)
LEMMA Erasing ==
  ASSUME NEW t, Sound(t), NEW gone \in SUBSET Occupied(t)
  PROVE  /\ Sound(Erased(t, gone))
         /\ Contents(Erased(t, gone)) = {x \in Contents(t) : \A s \in gone : t.slots[s] # x}
<1> DEFINE u == Erased(t, gone)
<1>1. PICK n \in Nat : n = t.size /\ t \in IndexOf(n)
  BY DEF Sound
<1>2. t.slots \in [0..n - 1 -> Slots] /\ t.count \in Nat /\ t.deleted \in Nat
  BY <1>1 DEF IndexOf
<1>3. /\ IsFiniteSet(gone) /\ IsFiniteSet(Occupied(t)) /\ IsFiniteSet(Marked(t))
      /\ Cardinality(gone) \in Nat /\ Cardinality(gone) <= Cardinality(Occupied(t))
  BY <1>1, SlotsFinite, FS_Subset, FS_CardinalityType
<1>4. /\ u \in IndexOf(n)
      /\ u.slots = [s \in 0..n - 1 |-> IF s \in gone THEN Deleted ELSE t.slots[s]]
      /\ u.size = n /\ u.count = t.count - Cardinality(gone) /\ u.deleted = t.deleted + Cardinality(gone)
  <2> DEFINE slots == [s \in 0..n - 1 |-> IF s \in gone THEN Deleted ELSE t.slots[s]]
             count == t.count - Cardinality(gone)
             deleted == t.deleted + Cardinality(gone)
  <2>1. slots \in Arrays(n)
    BY <1>2 DEF Slots, Arrays
  <2>2. count \in Nat /\ deleted \in Nat
    BY <1>2, <1>3 DEF Sound, Counted
  <2>3. DOMAIN t.slots = 0..n - 1
    BY <1>2
  <2>4. u = Refilled(t, slots, count, deleted)
    BY <2>3 DEF Erased, Refilled
  <2> HIDE DEF u, slots, count, deleted
  <2>5. /\ u \in IndexOf(n)
        /\ u.slots = slots /\ u.size = n /\ u.count = count /\ u.deleted = deleted
    <3>1. t \in IndexOf(n)
      BY <1>1
    <3>2. \A f \in Arrays(n), c \in Nat, d \in Nat :
            /\ Refilled(t, f, c, d) \in IndexOf(n)
            /\ Refilled(t, f, c, d).slots = f /\ Refilled(t, f, c, d).size = n
            /\ Refilled(t, f, c, d).count = c /\ Refilled(t, f, c, d).deleted = d
      BY ONLY <3>1, Refilling
    <3>3. QED
      BY ONLY <2>1, <2>2, <2>4, <3>2
  <2>6. QED
    BY ONLY <2>5 DEF slots, count, deleted
<1> HIDE DEF u
<1>5. gone \subseteq 0..n - 1 /\ \A s \in gone : t.slots[s] \in Entries
  BY <1>1 DEF Occupied
<1>6. Occupied(u) = Occupied(t) \ gone
  BY <1>1, <1>4, KindsOfSlots DEF Occupied
<1>7. Marked(u) = Marked(t) \cup gone /\ Marked(t) \cap gone = {}
  BY <1>1, <1>4, <1>5, KindsOfSlots DEF Marked
<1>8. Cardinality(Occupied(u)) = Cardinality(Occupied(t)) - Cardinality(gone)
  <2>1. Occupied(t) \cap gone = gone
    OBVIOUS
  <2>2. QED
    BY <1>3, <1>6, <2>1, FS_Difference
<1>9. Cardinality(Marked(u)) = Cardinality(Marked(t)) + Cardinality(gone)
  BY <1>3, <1>7, CountOfBoth
<1>10. Counted(u)
  BY <1>4, <1>8, <1>9 DEF Sound, Counted
<1>11. u.count \in Nat /\ u.deleted \in Nat /\ u.count + u.deleted = t.count + t.deleted
  BY <1>2, <1>4, <1>3 DEF Sound, Counted
<1>12. Roomy(u)
  BY <1>1, <1>4, <1>11 DEF Sound, Roomy
<1>13. Reached(u)
  <2>1. SUFFICES ASSUME NEW s \in 0..n - 1, u.slots[s] \in Entries
                 PROVE  \E k \in 0..n - 1 : At(u, u.slots[s].key, k) = s /\ Passes(u, u.slots[s].key, k)
    BY <1>4 DEF Reached
  <2>2. u.slots[s] = t.slots[s]
    BY <1>4, <2>1, KindsOfSlots
  <2>3. PICK key \in Keys : key = t.slots[s].key
    BY <2>1, <2>2 DEF Entries
  <2>4. PICK k \in 0..n - 1 : At(t, key, k) = s /\ Passes(t, key, k)
    BY <1>1, <2>1, <2>2, <2>3 DEF Sound, Reached
  <2>5. \A j \in Nat : At(u, key, j) = At(t, key, j) /\ At(t, key, j) \in 0..n - 1
    <3>1. n \in Nat \ {0}
      OBVIOUS
    <3>2. t.size = u.size
      BY <1>1, <1>4
    <3>3. \A j : At(u, key, j) = At(t, key, j)
      BY <3>2 DEF At
    <3>4. \A j \in Nat : At(t, key, j) \in 0..n - 1
      BY ONLY <1>1, <2>3, <3>1, ProbesInside
    <3>5. QED
      BY <3>3, <3>4
  <2>6. Passes(u, key, k)
    <3>1. SUFFICES ASSUME NEW j \in 0..k - 1
                   PROVE  u.slots[At(u, key, j)] # Empty /\ u.slots[At(u, key, j)].key # key
      BY DEF Passes
    <3>2. PICK a \in 0..n - 1 : a = At(t, key, j) /\ a = At(u, key, j)
      BY <2>5
    <3>3. t.slots[a] # Empty /\ t.slots[a].key # key
      BY <2>4, <3>2 DEF Passes
    <3>4. u.slots[a] = Deleted \/ u.slots[a] = t.slots[a]
      BY <1>4
    <3>5. QED
      BY <3>2, <3>3, <3>4, KindsOfSlots
  <2>7. QED
    BY <2>2, <2>3, <2>4, <2>5, <2>6
<1>14. Sound(u)
  BY <1>4, <1>10, <1>4, <1>12, <1>13 DEF Sound
<1>15. Contents(u) = {x \in Contents(t) : \A s \in gone : t.slots[s] # x}
  <2>1. ASSUME NEW x \in Contents(u) PROVE x \in Contents(t) /\ \A s \in gone : t.slots[s] # x
    <3>1. PICK s \in 0..n - 1 : u.slots[s] = x /\ x \in Entries
      BY <1>4 DEF Contents
    <3>2. s \notin gone /\ t.slots[s] = x
      BY <1>4, <3>1, KindsOfSlots
    <3>3. \A r \in gone : t.slots[r] = x => r = s
      BY <1>1, <1>5, <3>1, <3>2, KeysOnce DEF Sound
    <3>4. x \in Contents(t)
      BY <1>1, <3>1, <3>2 DEF Contents
    <3>5. QED
      BY <3>2, <3>3, <3>4
  <2>2. ASSUME NEW x \in Contents(t), \A s \in gone : t.slots[s] # x PROVE x \in Contents(u)
    <3>1. PICK s \in 0..n - 1 : t.slots[s] = x /\ x \in Entries
      BY <1>1 DEF Contents
    <3>2. u.slots[s] = x
      BY <1>4, <2>2, <3>1
    <3>3. QED
      BY <1>4, <3>1, <3>2 DEF Contents
  <2>3. QED
    BY <2>1, <2>2
<1>16. QED
  BY <1>14, <1>15 DEF u

-----------------------------------------------------------------------------
(* Placing an entry. *)

(* An entry x put where the probe for its key first comes, in place of an      *)
(* empty slot, a mark or the entry of that key: every other probe goes as     *)
(* before, and x is what the index holds for its key.                        *)
LEMMA Placing ==
  ASSUME NEW n \in Nat \ {0}, NEW t \in IndexOf(n), Reached(t),
         NEW u \in IndexOf(n), NEW x \in Entries, NEW s \in 0..n - 1,
         u.slots = [t.slots EXCEPT ![s] = x],
         \A r \in 0..n - 1 : t.slots[r] \in Entries /\ t.slots[r].key = x.key => r = s,
         t.slots[s] \in Entries => t.slots[s].key = x.key,
         NEW k \in 0..n - 1, At(t, x.key, k) = s, Passes(t, x.key, k),
         \A j \in 0..k - 1 : At(t, x.key, j) # s
  PROVE  /\ Reached(u)
         /\ Contents(u) = {y \in Contents(t) : y.key # x.key} \cup {x}
         /\ Occupied(u) = Occupied(t) \cup {s} /\ Marked(u) = Marked(t) \ {s}
<1>1. /\ t.size = n /\ u.size = n /\ t.slots \in [0..n - 1 -> Slots]
      /\ u.slots[s] = x /\ \A r \in 0..n - 1 : r # s => u.slots[r] = t.slots[r]
  BY DEF IndexOf
<1>2. \A key, j : At(u, key, j) = At(t, key, j)
  BY <1>1 DEF At
<1>3. \A key \in Keys, j \in Nat : At(t, key, j) \in 0..n - 1
  BY ProbesInside
<1>4. x.key \in Keys /\ \A y \in Entries : y.key \in Keys
  BY DEF Entries
<1>5. Reached(u)
  <2>1. SUFFICES ASSUME NEW r \in 0..n - 1, u.slots[r] \in Entries
                 PROVE  \E i \in 0..n - 1 : At(u, u.slots[r].key, i) = r /\ Passes(u, u.slots[r].key, i)
    BY <1>1 DEF Reached
  <2>2. CASE r = s
    <3>1. Passes(u, x.key, k)
      <4>1. SUFFICES ASSUME NEW j \in 0..k - 1
                     PROVE  u.slots[At(u, x.key, j)] # Empty /\ u.slots[At(u, x.key, j)].key # x.key
        BY DEF Passes
      <4>2. PICK a \in 0..n - 1 : a = At(t, x.key, j) /\ a = At(u, x.key, j) /\ a # s
        BY <1>2, <1>3, <1>4
      <4>3. u.slots[a] = t.slots[a]
        BY <1>1, <4>2
      <4>4. t.slots[a] # Empty /\ t.slots[a].key # x.key
        BY <4>2 DEF Passes
      <4>5. QED
        BY <4>2, <4>3, <4>4
    <3>2. u.slots[r] = x /\ At(u, x.key, k) = r
      BY <1>1, <1>2, <2>2
    <3>3. QED
      BY <3>1, <3>2
  <2>3. CASE r # s
    <3>1. u.slots[r] = t.slots[r] /\ t.slots[r] \in Entries
      BY <1>1, <2>1, <2>3
    <3>2. PICK key \in Keys : key = t.slots[r].key /\ key # x.key
      BY <1>4, <2>3, <3>1
    <3>3. PICK i \in 0..n - 1 : At(t, key, i) = r /\ Passes(t, key, i)
      BY <1>1, <3>1, <3>2 DEF Reached
    <3>4. Passes(u, key, i)
      <4>1. SUFFICES ASSUME NEW j \in 0..i - 1
                     PROVE  u.slots[At(u, key, j)] # Empty /\ u.slots[At(u, key, j)].key # key
        BY DEF Passes
      <4>2. PICK a \in 0..n - 1 : a = At(t, key, j) /\ a = At(u, key, j)
        BY <1>2, <1>3
      <4>3. CASE a = s
        <5>1. u.slots[a] = x
          BY <1>1, <4>3
        <5>2. QED
          BY <3>2, <4>2, <5>1, KindsOfSlots
      <4>4. CASE a # s
        <5>1. u.slots[a] = t.slots[a]
          BY <1>1, <4>2, <4>4
        <5>2. t.slots[a] # Empty /\ t.slots[a].key # key
          BY <3>3, <4>2 DEF Passes
        <5>3. QED
          BY <4>2, <5>1, <5>2
      <4>5. QED
        BY <4>3, <4>4
    <3>5. QED
      BY <1>2, <3>1, <3>2, <3>3, <3>4
  <2>4. QED
    BY <2>2, <2>3
<1>6. ASSUME NEW y \in Contents(u) PROVE y = x \/ (y \in Contents(t) /\ y.key # x.key)
  <2>1. PICK r \in 0..n - 1 : u.slots[r] = y /\ y \in Entries
    BY <1>1 DEF Contents
  <2>2. CASE r = s
    BY <1>1, <2>1, <2>2
  <2>3. CASE r # s
    <3>1. t.slots[r] = y
      BY <1>1, <2>1, <2>3
    <3>2. y \in Contents(t)
      BY <1>1, <2>1, <3>1 DEF Contents
    <3>3. QED
      BY <2>1, <2>3, <3>1, <3>2
  <2>4. QED
    BY <2>2, <2>3
<1>7. ASSUME NEW y \in Contents(t), y.key # x.key PROVE y \in Contents(u)
  <2>1. PICK r \in 0..n - 1 : t.slots[r] = y /\ y \in Entries
    BY <1>1 DEF Contents
  <2>2. u.slots[r] = y
    BY <1>1, <1>7, <2>1
  <2>3. QED
    BY <1>1, <2>1, <2>2 DEF Contents
<1>8. x \in Contents(u)
  BY <1>1 DEF Contents
<1>9. Contents(u) = {y \in Contents(t) : y.key # x.key} \cup {x}
  BY <1>6, <1>7, <1>8
<1>10. Occupied(u) = Occupied(t) \cup {s}
  BY <1>1 DEF Occupied
<1>11. Marked(u) = Marked(t) \ {s}
  BY <1>1, KindsOfSlots DEF Marked
<1>12. QED
  BY <1>5, <1>9, <1>10, <1>11

-----------------------------------------------------------------------------
(* Growing. *)

(* The entries among the first i slots *)
Before(t, i) == {s \in 0..i - 1 : t.slots[s] \in Entries}

(* What is true of the new index when the first i slots have been moved.     *)
Moved(t, m, i, u) ==
  /\ u \in IndexOf(m) /\ u.count = t.count /\ u.deleted = 0
  /\ Reached(u) /\ Marked(u) = {}
  /\ Cardinality(Occupied(u)) = Cardinality(Before(t, i))
  /\ Contents(u) = {x \in Entries : \E s \in 0..i - 1 : t.slots[s] = x}

(* One slot is moved.                                                        *)
LEMMA MoveOne ==
  ASSUME NEW n \in Nat, NEW t \in IndexOf(n), Reached(t), NEW m \in Nat \ {0},
         Cardinality(Occupied(t)) < m, NEW i \in 1..n,
         NEW u, Moved(t, m, i - 1, u), t.slots[i - 1] \in Entries,
         NEW v, v = Reslotted(u, Stop(u, t.slots[i - 1].key), t.slots[i - 1])
  PROVE  Moved(t, m, i, v)
<1>1. PICK x \in Entries : x = t.slots[i - 1] /\ x \in Slots
  BY DEF Slots
<1>2. x.key \in Keys /\ u \in IndexOf(m) /\ u.size = m /\ t.size = n
  BY DEF Entries, Moved, IndexOf
<1>3. /\ v \in IndexOf(m) /\ v.slots = [u.slots EXCEPT ![Stop(u, x.key)] = x]
      /\ v.count = u.count /\ v.deleted = u.deleted
  <2>1. PICK p : p = Stop(u, x.key)
    OBVIOUS
  <2>2. ASSUME NEW s, NEW y \in Slots
        PROVE  /\ Reslotted(u, s, y) \in IndexOf(m)
               /\ Reslotted(u, s, y).slots = [u.slots EXCEPT ![s] = y]
               /\ Reslotted(u, s, y).count = u.count /\ Reslotted(u, s, y).deleted = u.deleted
    <3>1. u \in IndexOf(m)
      BY <1>2
    <3>2. [u.slots EXCEPT ![s] = y] \in [0..m - 1 -> Slots]
      BY <3>1 DEF IndexOf
    <3>3. QED
      BY ONLY <3>1, <3>2 DEF IndexOf, Reslotted
  <2>3. v = Reslotted(u, p, x) /\ x \in Slots
    BY <1>1, <2>1
  <2>4. /\ v \in IndexOf(m) /\ v.slots = [u.slots EXCEPT ![p] = x]
        /\ v.count = u.count /\ v.deleted = u.deleted
    BY ONLY <2>2, <2>3
  <2>5. QED
    BY ONLY <2>1, <2>4
<1>4. /\ IsFiniteSet(Before(t, i - 1)) /\ IsFiniteSet(Occupied(t))
      /\ Cardinality(Before(t, i - 1)) < m
  <2>1. Before(t, i - 1) \subseteq Occupied(t)
    BY <1>2 DEF Before, Occupied
  <2>2. IsFiniteSet(Occupied(t)) /\ Cardinality(Occupied(t)) \in Nat
    BY SlotsFinite
  <2>3. QED
    BY <2>1, <2>2, FS_Subset, FS_CardinalityType
<1>5. \E s \in 0..m - 1 : u.slots[s] = Empty
  <2>1. Cardinality(Occupied(u)) + Cardinality(Marked(u)) < m
    BY <1>4, FS_EmptySet, FS_CardinalityType DEF Moved
  <2>2. QED
    BY <1>2, <2>1, EmptyIfFewer
<1>6. PICK k \in 0..m - 1 : k = Steps(u, x.key)
  BY <1>2, <1>5, StepsFound
<1>7. PICK s \in 0..m - 1 : s = Stop(u, x.key) /\ s = At(u, x.key, k)
  BY <1>2, <1>6, ProbesInside DEF Stop
<1>8. Passes(u, x.key, k) /\ (u.slots[s] = Empty \/ u.slots[s].key = x.key)
  <2>1. /\ Passes(u, x.key, Steps(u, x.key))
        /\ u.slots[Stop(u, x.key)] = Empty \/ u.slots[Stop(u, x.key)].key = x.key
    BY ONLY <1>2, <1>5, StepsFound
  <2>2. QED
    BY ONLY <1>6, <1>7, <2>1
<1>9. \A r \in 0..m - 1 : u.slots[r] \in Entries => u.slots[r].key # x.key
  <2>1. SUFFICES ASSUME NEW r \in 0..m - 1, u.slots[r] \in Entries, u.slots[r].key = x.key
                 PROVE  FALSE
    OBVIOUS
  <2>2. u.slots[r] \in Contents(u)
    <3>1. r \in 0..u.size - 1
      BY <1>2
    <3>2. QED
      BY ONLY <2>1, <3>1 DEF Contents
  <2>3. PICK s1 \in 0..(i - 1) - 1 : t.slots[s1] = u.slots[r]
    <3>1. Contents(u) = {y \in Entries : \E s1 \in 0..(i - 1) - 1 : t.slots[s1] = y}
      BY DEF Moved
    <3>2. QED
      BY ONLY <2>2, <3>1
  <2>4. s1 = i - 1
    BY <1>1, <2>1, <2>3, KeysOnce
  <2>5. QED
    BY <2>4
<1>10. u.slots[s] = Empty
  <2>1. u.slots[s] \in Slots
    BY <1>2 DEF IndexOf
  <2>2. QED
    BY <1>2, <1>8, <1>9, <2>1, KindsOfSlots DEF Slots
<1>11. \A j \in 0..k - 1 : At(u, x.key, j) # s
  BY <1>8, <1>10 DEF Passes
<1>12. Reached(u)
  BY DEF Moved
<1>13. v.slots = [u.slots EXCEPT ![s] = x]
  BY <1>3, <1>7
<1>14. /\ \A r \in 0..m - 1 : u.slots[r] \in Entries /\ u.slots[r].key = x.key => r = s
       /\ u.slots[s] \in Entries => u.slots[s].key = x.key
  BY <1>9, <1>10, KindsOfSlots
<1>15. /\ Reached(v)
       /\ Contents(v) = {y \in Contents(u) : y.key # x.key} \cup {x}
       /\ Occupied(v) = Occupied(u) \cup {s} /\ Marked(v) = Marked(u) \ {s}
  <2>1. \A y \in Entries, p \in 0..m - 1, i1 \in 0..m - 1 :
          /\ v.slots = [u.slots EXCEPT ![p] = y]
          /\ \A r \in 0..m - 1 : u.slots[r] \in Entries /\ u.slots[r].key = y.key => r = p
          /\ u.slots[p] \in Entries => u.slots[p].key = y.key
          /\ At(u, y.key, i1) = p /\ Passes(u, y.key, i1)
          /\ \A j \in 0..i1 - 1 : At(u, y.key, j) # p
          => /\ Reached(v)
             /\ Contents(v) = {z \in Contents(u) : z.key # y.key} \cup {y}
             /\ Occupied(v) = Occupied(u) \cup {p} /\ Marked(v) = Marked(u) \ {p}
    BY ONLY <1>2, <1>3, <1>12, Placing
  <2>2. At(u, x.key, k) = s /\ x \in Entries
    BY <1>7
  <2>3. QED
    BY ONLY <1>6, <1>7, <1>8, <1>11, <1>13, <1>14, <2>1, <2>2, Zenon
<1>16. Contents(v) = {y \in Entries : \E r \in 0..i - 1 : t.slots[r] = y}
  <2>1. \A y \in Contents(u) : y.key # x.key
    <3>1. SUFFICES ASSUME NEW y \in Contents(u) PROVE y.key # x.key
      OBVIOUS
    <3>2. PICK r \in 0..m - 1 : u.slots[r] = y /\ y \in Entries
      BY <1>2 DEF Contents
    <3>3. QED
      BY <1>9, <3>2
  <2>2. Contents(v) = Contents(u) \cup {x}
    BY <1>15, <2>1
  <2>3. Contents(u) = {y \in Entries : \E r \in 0..i - 2 : t.slots[r] = y}
    BY DEF Moved
  <2>4. QED
    BY <1>1, <2>2, <2>3
<1>17. Cardinality(Occupied(v)) = Cardinality(Before(t, i))
  <2>1. s \notin Occupied(u) /\ IsFiniteSet(Occupied(u))
    BY <1>2, <1>10, SlotsFinite, KindsOfSlots DEF Occupied
  <2>2. Cardinality(Occupied(v)) = Cardinality(Occupied(u)) + 1
    BY <1>15, <2>1, FS_AddElement
  <2>3. Before(t, i) = Before(t, i - 1) \cup {i - 1} /\ i - 1 \notin Before(t, i - 1)
    BY DEF Before
  <2>4. Cardinality(Before(t, i)) = Cardinality(Before(t, i - 1)) + 1
    BY <1>4, <2>3, FS_AddElement
  <2>5. QED
    BY <2>2, <2>4 DEF Moved
<1>18. Marked(v) = {}
  BY <1>15 DEF Moved
<1>19. v.count = t.count /\ v.deleted = 0
  BY <1>3 DEF Moved
<1>20. QED
  BY <1>3, <1>15, <1>16, <1>17, <1>18, <1>19 DEF Moved

(* All slots are moved, in their order: the loop of Rehash.                  *)
LEMMA Rehashing ==
  ASSUME NEW n \in Nat, NEW t \in IndexOf(n), Reached(t), NEW m \in Nat \ {0},
         Cardinality(Occupied(t)) < m
  PROVE  /\ Rehash(t, m) \in IndexOf(m)
         /\ Rehash(t, m).count = t.count /\ Rehash(t, m).deleted = 0
         /\ Reached(Rehash(t, m)) /\ Marked(Rehash(t, m)) = {}
         /\ Cardinality(Occupied(Rehash(t, m))) = Cardinality(Occupied(t))
         /\ Contents(Rehash(t, m)) = Contents(t)
<1> DEFINE blank == [slots |-> [s \in 0..m - 1 |-> Empty], size |-> m, count |-> t.count, deleted |-> 0]
           Step(i, u) == IF t.slots[i - 1] \in {Empty, Deleted} THEN u
                         ELSE Reslotted(u, Stop(u, t.slots[i - 1].key), t.slots[i - 1])
           Runs(f) == f = [i \in 0..n |-> IF i = 0 THEN blank ELSE Step(i, f[i - 1])]
           moved == CHOOSE f : Runs(f)
<1>1. t.size = n /\ t.slots \in [0..n - 1 -> Slots] /\ t.count \in Nat
  BY DEF IndexOf
<1>2. Rehash(t, m) = moved[n]
  BY <1>1 DEF Rehash, Reslotted
<1>3. blank \in IndexOf(m)
  BY <1>1 DEF IndexOf, Slots
<1>4. \A i \in 1..n, u \in IndexOf(m) : Step(i, u) \in IndexOf(m)
  <2>1. SUFFICES ASSUME NEW i \in 1..n, NEW u \in IndexOf(m) PROVE Step(i, u) \in IndexOf(m)
    OBVIOUS
  <2>2. PICK x \in Slots : x = t.slots[i - 1]
    BY <1>1
  <2>3. PICK p : p = Stop(u, x.key)
    OBVIOUS
  <2>4. Reslotted(u, p, x) \in IndexOf(m)
    BY Reslotting
  <2>5. QED
    BY <2>2, <2>3, <2>4
<1> HIDE DEF blank, Step
<1>5. \E f : Runs(f)
  <2> DEFINE step == [i \in Nat |-> [u \in IndexOf(m) |-> IF i \in 1..n THEN Step(i, u) ELSE u]]
  <2>1. step \in [Nat -> [IndexOf(m) -> IndexOf(m)]]
    BY <1>4
  <2>2. \A i \in 1..n, u \in IndexOf(m) : step[i][u] = Step(i, u)
    OBVIOUS
  <2> HIDE DEF step
  <2>3. PICK f \in [Nat -> IndexOf(m)] :
          f[0] = blank /\ \A i \in Nat \ {0} : f[i] = step[i][f[i - 1]]
    <3>1. PICK Y : Y = IndexOf(m)
      OBVIOUS
    <3>2. PICK first \in Y : first = blank
      BY ONLY <1>3, <3>1
    <3>3. PICK h \in [Nat -> [Y -> Y]] : h = step
      BY ONLY <2>1, <3>1
    <3>4. Iterates(Y, first, h) # {}
      BY IteratesExist
    <3>5. QED
      BY ONLY <3>1, <3>2, <3>3, <3>4 DEF Iterates
  <2> DEFINE g == [i \in 0..n |-> f[i]]
  <2>4. \A i \in 1..n : f[i] = Step(i, f[i - 1])
    BY <2>2, <2>3
  <2>5. g = [i \in 0..n |-> IF i = 0 THEN blank ELSE Step(i, g[i - 1])]
    BY <2>3, <2>4
  <2>6. QED
    BY <2>5
<1>6. Runs(moved)
  BY <1>5
<1> HIDE DEF moved
<1>7. moved[0] = blank /\ \A i \in 1..n : moved[i] = Step(i, moved[i - 1])
  BY <1>6
<1>8. Moved(t, m, 0, blank)
  <2>1. /\ blank.slots = [s \in 0..m - 1 |-> Empty] /\ blank.size = m
        /\ blank.count = t.count /\ blank.deleted = 0
    BY DEF blank
  <2>2. Occupied(blank) = {} /\ Marked(blank) = {} /\ Contents(blank) = {} /\ Reached(blank)
    BY <2>1, KindsOfSlots DEF Occupied, Marked, Contents, Reached
  <2>3. Before(t, 0) = {} /\ {x \in Entries : \E s \in 0..0 - 1 : t.slots[s] = x} = {}
    BY DEF Before
  <2>4. QED
    BY <1>3, <2>1, <2>2, <2>3 DEF Moved
<1>9. ASSUME NEW i \in 1..n, Moved(t, m, i - 1, moved[i - 1]) PROVE Moved(t, m, i, moved[i])
  <2>1. moved[i] = Step(i, moved[i - 1])
    BY <1>7
  <2>2. CASE t.slots[i - 1] \in {Empty, Deleted}
    <3>1. moved[i] = moved[i - 1]
      BY <2>1, <2>2 DEF Step
    <3>2. t.slots[i - 1] \notin Entries
      BY <2>2, KindsOfSlots
    <3>3. Before(t, i) = Before(t, i - 1)
      BY <3>2 DEF Before
    <3>4. {x \in Entries : \E s \in 0..i - 1 : t.slots[s] = x}
            = {x \in Entries : \E s \in 0..(i - 1) - 1 : t.slots[s] = x}
      BY <3>2
    <3>5. QED
      BY <1>9, <3>1, <3>3, <3>4 DEF Moved
  <2>3. CASE t.slots[i - 1] \notin {Empty, Deleted}
    <3>1. t.slots[i - 1] \in Entries
      BY <1>1, <2>3 DEF Slots
    <3>2. moved[i] = Reslotted(moved[i - 1], Stop(moved[i - 1], t.slots[i - 1].key), t.slots[i - 1])
      BY <2>1, <2>3 DEF Step
    <3>3. QED
      BY <1>9, <3>1, <3>2, MoveOne
  <2>4. QED
    BY <2>2, <2>3
<1>10. Moved(t, m, n, moved[n])
  <2> DEFINE Wrong == {i \in 0..n : ~Moved(t, m, i, moved[i])}
  <2>1. SUFFICES ASSUME Wrong # {} PROVE FALSE
    OBVIOUS
  <2>2. Wrong \in SUBSET Nat
    OBVIOUS
  <2>3. PICK i \in Wrong : \A j \in Wrong : i <= j
    BY ONLY <2>1, <2>2, LeastOf
  <2>4. i # 0
    BY <1>7, <1>8
  <2>5. i - 1 \in 0..n /\ i - 1 \notin Wrong /\ i \in 1..n
    BY <2>3, <2>4
  <2>6. QED
    BY <1>9, <2>5
<1>11. Before(t, n) = Occupied(t) /\ {x \in Entries : \E s \in 0..n - 1 : t.slots[s] = x} = Contents(t)
  BY <1>1 DEF Before, Occupied, Contents
<1>12. QED
  BY <1>2, <1>10, <1>11 DEF Moved

(* Room is made: the contents stay, and one more entry leaves an empty slot.  *)
LEMMA MakingRoom ==
  ASSUME NEW t, Sound(t)
  PROVE  /\ Sound(RoomFor(t)) /\ Contents(RoomFor(t)) = Contents(t)
         /\ RoomFor(t).size >= 4
         /\ (RoomFor(t).count + RoomFor(t).deleted + 1) * 4 < RoomFor(t).size * 3
<1>1. PICK n \in Nat : n = t.size
  BY DEF Sound
<1>2. t \in IndexOf(n) /\ Reached(t) /\ Counted(t) /\ t.count \in Nat /\ t.deleted \in Nat
  BY <1>1 DEF Sound, IndexOf
<1>3. n = 0 \/ (n >= 4 /\ (t.count + t.deleted) * 4 < n * 3)
  BY <1>1 DEF Sound, Roomy
<1>4. n = 0 => t.count = 0
  <2>1. n = 0 => Occupied(t) = {}
    BY <1>1 DEF Occupied
  <2>2. QED
    BY <1>2, <2>1, FS_EmptySet DEF Counted
<1>5. CASE n # 0 /\ (t.count + t.deleted + 1) * 4 < n * 3
  <2>1. RoomFor(t) = t
    BY <1>1, <1>5 DEF RoomFor
  <2>2. QED
    BY <1>1, <1>3, <1>5, <2>1
<1>6. CASE ~(n # 0 /\ (t.count + t.deleted + 1) * 4 < n * 3)
  <2> DEFINE size == IF n = 0 THEN Capacity ELSE n
             m == IF (t.count + 1) * 4 >= size * 3 THEN 2 * size ELSE size
             u == Rehash(t, m)
  <2>1. RoomFor(t) = u
    BY <1>1, <1>6 DEF RoomFor
  <2>2. size \in Nat /\ size >= 4
    BY <1>3, CapacityHoldsTwo
  <2>3. t.count * 4 < size * 3
    BY <1>2, <1>3, <1>4, <2>2
  <2> HIDE DEF size
  <2>4. m \in Nat \ {0} /\ m >= 4 /\ (t.count + 1) * 4 < m * 3
    BY <1>2, <2>2, <2>3
  <2> HIDE DEF m, u
  <2>5. Cardinality(Occupied(t)) = t.count /\ t.count < m
    BY <1>2, <2>4 DEF Counted
  <2>6. Cardinality(Occupied(t)) < m
    BY <2>5
  <2>7. /\ u \in IndexOf(m) /\ u.count = t.count /\ u.deleted = 0
        /\ Reached(u) /\ Marked(u) = {}
        /\ Cardinality(Occupied(u)) = Cardinality(Occupied(t)) /\ Contents(u) = Contents(t)
    BY <1>2, <2>4, <2>6, Rehashing DEF u
  <2>8. u.size = m
    BY <2>7 DEF IndexOf
  <2>9. Counted(u)
    BY <2>5, <2>7, FS_EmptySet DEF Counted
  <2>10. Roomy(u)
    BY <1>2, <2>4, <2>7, <2>8 DEF Roomy
  <2>11. QED
    BY <1>2, <2>1, <2>4, <2>7, <2>8, <2>9, <2>10 DEF Sound
<1>7. QED
  BY <1>5, <1>6

-----------------------------------------------------------------------------
(* Putting and removing. *)

(* Put: the entity is what the index holds for the key, and nothing else      *)
(* changes.                                                                  *)
LEMMA Putting ==
  ASSUME NEW t, Sound(t), NEW key \in Keys, NEW e \in Entities
  PROVE  /\ Sound(Put(t, key, e))
         /\ Contents(Put(t, key, e)) =
              {x \in Contents(t) : x.key # key} \cup {[key |-> key, entity |-> e]}
<1>0. PICK u : u = RoomFor(t)
  OBVIOUS
<1> DEFINE s == Stop(u, key)
           at == Vacancy(u, key)
<1>1. PICK x \in Entries : x = [key |-> key, entity |-> e]
  BY DEF Entries
<1>2. /\ Sound(u) /\ Contents(u) = Contents(t) /\ u.size >= 4
      /\ (u.count + u.deleted + 1) * 4 < u.size * 3
  BY <1>0, MakingRoom
<1>3. PICK n \in Nat \ {0} : n = u.size
  BY <1>2 DEF Sound
<1>4. u \in IndexOf(n) /\ Reached(u) /\ Counted(u) /\ u.count \in Nat /\ u.deleted \in Nat
      /\ u.slots \in [0..n - 1 -> Slots]
  BY <1>2, <1>3 DEF Sound, IndexOf
<1>5. x.key = key /\ x \in Slots
  BY <1>1 DEF Slots
<1>6. PICK k \in 0..n - 1 : k = Steps(u, key)
  <2>1. \E r \in 0..n - 1 : u.slots[r] = Empty
    BY <1>2, <1>3, EmptyLeft
  <2>2. QED
    BY <1>4, <2>1, StepsFound
<1>7. Passes(u, key, k) /\ (u.slots[s] = Empty \/ u.slots[s].key = key)
  <2>1. \E r \in 0..n - 1 : u.slots[r] = Empty
    BY <1>2, <1>3, EmptyLeft
  <2>2. /\ Passes(u, key, Steps(u, key))
        /\ u.slots[Stop(u, key)] = Empty \/ u.slots[Stop(u, key)].key = key
    BY ONLY <1>4, <2>1, StepsFound
  <2>3. QED
    BY <1>6, <2>2
<1>8. s = At(u, key, k) /\ s \in 0..n - 1
  BY <1>4, <1>6, ProbesInside DEF Stop
<1>9. \A r \in 0..n - 1 : u.slots[r] \in Entries /\ u.slots[r].key = key => r = s
  BY <1>4, StopAtEntry
<1>10. CASE u.slots[s].key = key
  <2>1. PICK v : v = Reslotted(u, s, x)
    OBVIOUS
  <2>2. Put(t, key, e) = v
    BY <1>0, <1>1, <1>10, <2>1 DEF Put, Reslotted
  <2>3. /\ v \in IndexOf(n) /\ v.slots = [u.slots EXCEPT ![s] = x]
        /\ v.count = u.count /\ v.deleted = u.deleted /\ v.size = n
    <3>1. \A p : LET w == Reslotted(u, p, x)
                 IN  /\ w \in IndexOf(n) /\ w.slots = [u.slots EXCEPT ![p] = x]
                     /\ w.count = u.count /\ w.deleted = u.deleted /\ w.size = n
      <4>1. u \in IndexOf(n) /\ x \in Slots
        BY <1>4, <1>5
      <4>2. QED
        BY ONLY <4>1, Reslotting
    <3>2. PICK p : p = s
      OBVIOUS
    <3>3. v = Reslotted(u, p, x)
      BY <2>1, <3>2
    <3>4. QED
      BY ONLY <3>1, <3>2, <3>3
  <2>4. u.slots[s] \in Entries
    BY <1>4, <1>8, <1>10, KindsOfSlots DEF Slots
  <2>5. \A j \in 0..k - 1 : At(u, key, j) # s
    BY <1>7, <1>10 DEF Passes
  <2>6. /\ Reached(v)
        /\ Contents(v) = {y \in Contents(u) : y.key # key} \cup {x}
        /\ Occupied(v) = Occupied(u) \cup {s} /\ Marked(v) = Marked(u) \ {s}
    <3>1. \A p \in 0..n - 1, i1 \in 0..n - 1 :
            /\ v.slots = [u.slots EXCEPT ![p] = x]
            /\ \A r1 \in 0..n - 1 : u.slots[r1] \in Entries /\ u.slots[r1].key = x.key => r1 = p
            /\ u.slots[p] \in Entries => u.slots[p].key = x.key
            /\ At(u, x.key, i1) = p /\ Passes(u, x.key, i1)
            /\ \A j \in 0..i1 - 1 : At(u, x.key, j) # p
            => /\ Reached(v)
               /\ Contents(v) = {z \in Contents(u) : z.key # x.key} \cup {x}
               /\ Occupied(v) = Occupied(u) \cup {p} /\ Marked(v) = Marked(u) \ {p}
      BY ONLY <1>1, <1>4, <2>3, Placing
    <3>2. QED
      BY ONLY <1>5, <1>6, <1>7, <1>8, <1>9, <1>10, <2>3, <2>5, <3>1, Zenon
  <2>7. Occupied(v) = Occupied(u) /\ Marked(v) = Marked(u)
    BY <1>3, <1>8, <2>4, <2>6, KindsOfSlots DEF Occupied, Marked
  <2>8. Sound(v)
    BY <1>2, <1>3, <1>4, <2>3, <2>6, <2>7 DEF Sound, Counted, Roomy
  <2>9. QED
    BY <1>1, <1>2, <2>2, <2>6, <2>8
<1>11. CASE u.slots[s].key # key
  <2>1. PICK r, i \in 0..n - 1 :
          /\ r = at /\ r = At(u, key, i) /\ Passes(u, key, i)
          /\ u.slots[r] \in {Empty, Deleted} /\ r \in 0..n - 1
          /\ \A j \in 0..i - 1 : At(u, key, j) # r
    <3> DEFINE marks == {j \in 0..k - 1 : u.slots[At(u, key, j)] = Deleted}
    <3>1. at = IF marks = {} THEN s ELSE At(u, key, Min(marks))
      BY <1>6 DEF Vacancy
    <3>2. CASE marks = {}
      <4>1. u.slots[s] = Empty
        BY <1>7, <1>11
      <4>2. \A j \in 0..k - 1 : At(u, key, j) # s
        BY <1>7, <4>1 DEF Passes
      <4>3. QED
        BY <1>7, <1>8, <3>1, <3>2, <4>1, <4>2
    <3>3. CASE marks # {}
      <4>1. marks \in SUBSET Nat
        OBVIOUS
      <4>2. Min(marks) \in marks /\ \A j \in marks : Min(marks) <= j
        BY ONLY <3>3, <4>1, LeastOf
      <4>3. PICK i \in 0..k - 1 : i = Min(marks)
        BY <4>2
      <4>4. u.slots[At(u, key, i)] = Deleted /\ \A j \in 0..i - 1 : u.slots[At(u, key, j)] # Deleted
        BY <4>2, <4>3
      <4>5. Passes(u, key, i)
        BY <1>7 DEF Passes
      <4>6. \A j \in 0..i - 1 : At(u, key, j) # At(u, key, i)
        BY <4>4
      <4>7. at = At(u, key, i)
        BY <3>1, <3>3, <4>3
      <4>8. At(u, key, i) \in 0..n - 1
        BY <1>4, ProbesInside
      <4>9. QED
        BY <4>4, <4>5, <4>6, <4>7, <4>8
    <3>4. QED
      BY <3>2, <3>3
  <2> DEFINE slots == [u.slots EXCEPT ![r] = x]
             count == u.count + 1
             deleted == IF u.slots[r] = Deleted THEN u.deleted - 1 ELSE u.deleted
  <2>2. PICK v : v = Refilled(u, slots, count, deleted)
    OBVIOUS
  <2>3. Put(t, key, e) = v
    BY <1>0, <1>1, <1>11, <2>1, <2>2 DEF Put, Refilled
  <2>4. u.slots[r] = Deleted => r \in Marked(u)
    BY <1>3, <2>1 DEF Marked
  <2>5. /\ IsFiniteSet(Occupied(u)) /\ IsFiniteSet(Marked(u))
        /\ Cardinality(Occupied(u)) = u.count /\ Cardinality(Marked(u)) = u.deleted
    BY <1>4, SlotsFinite DEF Counted
  <2>6. slots \in Arrays(n) /\ count \in Nat
    BY <1>4, <1>5 DEF Arrays
  <2>7. deleted = Cardinality(Marked(u) \ {r}) /\ deleted \in Nat
    <3>1. CASE u.slots[r] = Deleted
      <4>1. r \in Marked(u)
        BY <2>4, <3>1
      <4>2. /\ IsFiniteSet(Marked(u) \ {r})
            /\ Cardinality(Marked(u) \ {r}) = Cardinality(Marked(u)) - 1
        BY ONLY <2>5, <4>1, FS_RemoveElement
      <4>3. Cardinality(Marked(u) \ {r}) \in Nat
        BY ONLY <4>2, FS_CardinalityType
      <4>4. QED
        BY <2>5, <3>1, <4>2, <4>3
    <3>2. CASE u.slots[r] # Deleted
      <4>1. Marked(u) \ {r} = Marked(u)
        BY <3>2 DEF Marked
      <4>2. QED
        BY <1>4, <2>5, <3>2, <4>1
    <3>3. QED
      BY <3>1, <3>2
  <2>8. deleted <= u.deleted
    BY <1>4
  <2> HIDE DEF slots, count, deleted
  <2>9. v \in IndexOf(n) /\ v.slots = slots /\ v.count = count /\ v.deleted = deleted /\ v.size = n
    <3>1. \A f \in Arrays(n), c \in Nat, d \in Nat :
            /\ Refilled(u, f, c, d) \in IndexOf(n)
            /\ Refilled(u, f, c, d).slots = f /\ Refilled(u, f, c, d).size = n
            /\ Refilled(u, f, c, d).count = c /\ Refilled(u, f, c, d).deleted = d
      <4>1. u \in IndexOf(n)
        BY <1>4
      <4>2. QED
        BY ONLY <4>1, Refilling
    <3>2. deleted \in Nat
      BY ONLY <2>7
    <3>3. QED
      BY ONLY <2>2, <2>6, <3>1, <3>2
  <2>10. v.slots = [u.slots EXCEPT ![r] = x]
    BY <2>9 DEF slots
  <2>11. u.slots[r] \notin Entries
    BY <2>1, KindsOfSlots
  <2>12. \A i1 \in 0..n - 1 : u.slots[i1] \in Entries => u.slots[i1].key # key
    BY <1>9, <1>11
  <2>13. /\ Reached(v)
         /\ Contents(v) = {y \in Contents(u) : y.key # key} \cup {x}
         /\ Occupied(v) = Occupied(u) \cup {r} /\ Marked(v) = Marked(u) \ {r}
    <3>1. \A p \in 0..n - 1, i1 \in 0..n - 1 :
            /\ v.slots = [u.slots EXCEPT ![p] = x]
            /\ \A r1 \in 0..n - 1 : u.slots[r1] \in Entries /\ u.slots[r1].key = x.key => r1 = p
            /\ u.slots[p] \in Entries => u.slots[p].key = x.key
            /\ At(u, x.key, i1) = p /\ Passes(u, x.key, i1)
            /\ \A j \in 0..i1 - 1 : At(u, x.key, j) # p
            => /\ Reached(v)
               /\ Contents(v) = {z \in Contents(u) : z.key # x.key} \cup {x}
               /\ Occupied(v) = Occupied(u) \cup {p} /\ Marked(v) = Marked(u) \ {p}
      BY ONLY <1>1, <1>4, <2>9, Placing
    <3>2. QED
      BY ONLY <1>5, <2>1, <2>10, <2>11, <2>12, <3>1, Zenon
  <2>14. r \notin Occupied(u)
    BY <2>11 DEF Occupied
  <2>15. Cardinality(Occupied(v)) = v.count /\ Cardinality(Marked(v)) = v.deleted
    <3>1. Cardinality(Occupied(u) \cup {r}) = Cardinality(Occupied(u)) + 1
      BY ONLY <2>5, <2>14, FS_AddElement
    <3>2. QED
      BY <2>5, <2>7, <2>9, <2>13, <3>1 DEF count
  <2>16. (v.count + v.deleted) * 4 < v.size * 3 /\ v.size >= 4
    <3>1. (u.count + u.deleted + 1) * 4 < n * 3 /\ n >= 4 /\ v.count = u.count + 1
      BY <1>2, <1>3, <2>9 DEF count
    <3>2. u.count \in Nat /\ u.deleted \in Nat /\ v.deleted \in Nat /\ v.deleted <= u.deleted
      BY <1>4, <2>7, <2>8, <2>9
    <3>3. v.size = n
      BY <2>9
    <3>4. QED
      BY ONLY <3>1, <3>2, <3>3
  <2>17. Sound(v)
    BY <2>9, <2>13, <2>15, <2>16 DEF Sound, Counted, Roomy
  <2>18. QED
    BY <1>1, <1>2, <2>3, <2>13, <2>17
<1>12. QED
  BY <1>10, <1>11

(* The entry an entity with a name and a parent should have                  *)
EntryOf(par, nam, d) == [key |-> <<par[d], nam[d]>>, entity |-> d]

(* Unregister takes out the entries of the entities, where they have them,     *)
(* and no other.                                                             *)
LEMMA Unregistering ==
  ASSUME NEW t, Sound(t), NEW ds \in SUBSET Entities,
         parent \in [Entities -> Entities \cup {Top}], name \in [Entities -> Names \cup {NoName}]
  PROVE  /\ Sound(Unregister(t, ds))
         /\ Contents(Unregister(t, ds)) =
              {x \in Contents(t) : ~\E d \in ds : x = EntryOf(parent, name, d)}
<1>1. PICK n \in Nat : n = t.size /\ t \in IndexOf(n)
  BY DEF Sound
<1>2. PICK gone : gone = EntriesOf(t, ds)
  OBVIOUS
<1>3. ASSUME NEW d \in ds, name[d] # NoName, Find(t, <<parent[d], name[d]>>) = d
      PROVE  /\ Stop(t, <<parent[d], name[d]>>) \in Occupied(t)
             /\ t.slots[Stop(t, <<parent[d], name[d]>>)] = EntryOf(parent, name, d)
  <2>1. PICK key \in Keys : key = <<parent[d], name[d]>>
    BY <1>3 DEF Keys
  <2>2. d # Top
    BY EntitiesNumbered
  <2>3. EntryOf(parent, name, d) \in Contents(t)
    BY <1>3, <2>1, <2>2, FindIs DEF EntryOf
  <2>4. PICK s \in 0..n - 1 : t.slots[s] = EntryOf(parent, name, d) /\ t.slots[s] \in Entries
    BY <1>1, <2>3 DEF Contents
  <2>5. t.slots[s].key = key
    BY <2>1, <2>4 DEF EntryOf
  <2>6. Stop(t, key) = s
    BY <1>1, <2>4, <2>5, StopAtEntry DEF Sound
  <2>7. s \in Occupied(t)
    BY <1>1, <2>4 DEF Occupied
  <2>8. QED
    BY <2>1, <2>4, <2>6, <2>7
<1>4. gone \in SUBSET Occupied(t)
  BY <1>2, <1>3 DEF EntriesOf
<1>5. Unregister(t, ds) = Erased(t, gone)
  BY <1>2 DEF Unregister, Erased
<1>6. /\ Sound(Erased(t, gone))
      /\ Contents(Erased(t, gone)) = {x \in Contents(t) : \A s \in gone : t.slots[s] # x}
  BY <1>4, Erasing
<1>7. ASSUME NEW x \in Contents(t)
      PROVE  (\E s \in gone : t.slots[s] = x) <=> \E d \in ds : x = EntryOf(parent, name, d)
  <2>1. ASSUME NEW s \in gone, t.slots[s] = x PROVE \E d \in ds : x = EntryOf(parent, name, d)
    <3>1. PICK d \in ds : /\ name[d] # NoName /\ Find(t, <<parent[d], name[d]>>) = d
                          /\ s = Stop(t, <<parent[d], name[d]>>)
      BY <1>2 DEF EntriesOf
    <3>2. QED
      BY <1>3, <2>1, <3>1
  <2>2. ASSUME NEW d \in ds, x = EntryOf(parent, name, d) PROVE \E s \in gone : t.slots[s] = x
    <3>1. x.key = <<parent[d], name[d]>> /\ x.entity = d
      BY <2>2 DEF EntryOf
    <3>2. x.key \in Keys
      BY DEF Contents, Entries
    <3>3. name[d] \in Names
      BY <3>1, <3>2 DEF Keys
    <3>4. name[d] # NoName
      BY <3>3, NamesNamed
    <3>5. Find(t, <<parent[d], name[d]>>) = d
      BY <3>1, <3>2, FindIs
    <3>6. Stop(t, <<parent[d], name[d]>>) \in gone
      BY <1>2, <3>4, <3>5 DEF EntriesOf
    <3>7. QED
      BY <1>3, <2>2, <3>4, <3>5, <3>6
  <2>3. QED
    BY <2>1, <2>2
<1>8. QED
  BY <1>5, <1>6, <1>7

-----------------------------------------------------------------------------
(* Lines of parents. *)

(* What a parent may be, and an assignment of parents                        *)
Places == Entities \cup {Top}
Parents == [Entities -> Places]

(* x, its parent, the parent of that, ...                                    *)
Up(par, x) ==
  CHOOSE up : up = [n \in Nat |-> IF n = 0 THEN x
                                  ELSE LET d == up[n - 1] IN IF d = Top THEN Top ELSE par[d]]

(* What is met on the way, to any distance                                   *)
Reach(par, x) == {Up(par, x)[n] : n \in Nat} \ {Top}

(* No line comes back to where it was.                                       *)
Rooted(par) == \A d \in Entities : d \notin Reach(par, par[d])

(* The way up starts where it says and goes on from parent to parent.        *)
LEMMA UpsOf ==
  ASSUME NEW par \in Parents, NEW x \in Places
  PROVE  \E up \in [Nat -> Places] :
           /\ up = Up(par, x) /\ up[0] = x
           /\ \A n \in Nat : up[n + 1] = IF up[n] = Top THEN Top ELSE par[up[n]]
<1> DEFINE above == [d \in Places |-> IF d = Top THEN Top ELSE par[d]]
           step == [n \in Nat |-> above]
           Runs(up) == up = [n \in Nat |-> IF n = 0 THEN x
                               ELSE LET d == up[n - 1] IN IF d = Top THEN Top ELSE par[d]]
<1>1. above \in [Places -> Places]
  BY EntitiesNumbered DEF Parents, Places
<1>2. PICK h \in [Nat -> [Places -> Places]] : h = step
  BY <1>1
<1>3. Iterates(Places, x, h) # {}
  BY IteratesExist
<1>4. PICK f \in [Nat -> Places] : f[0] = x /\ \A n \in Nat \ {0} : f[n] = h[n][f[n - 1]]
  BY <1>3 DEF Iterates
<1>5. \A n \in Nat \ {0} : f[n] = IF f[n - 1] = Top THEN Top ELSE par[f[n - 1]]
  BY <1>2, <1>4
<1>6. Runs(f)
  BY <1>4, <1>5
<1>7. PICK up : up = Up(par, x)
  OBVIOUS
<1>8. Runs(up)
  BY <1>6, <1>7 DEF Up
<1>9. up[0] = x /\ \A n \in Nat \ {0} : up[n] = IF up[n - 1] = Top THEN Top ELSE par[up[n - 1]]
  BY <1>8
<1>10. up = [n \in Nat |-> up[n]] /\ f = [n \in Nat |-> f[n]]
  BY <1>8
<1>11. up = f
  <2>1. \A n \in Nat \ {0} : up[n - 1] = f[n - 1] => up[n] = f[n]
    BY <1>5, <1>9
  <2>2. up[0] = f[0]
    BY <1>4, <1>9
  <2> DEFINE Different == {n \in Nat : up[n] # f[n]}
  <2>3. SUFFICES ASSUME Different # {} PROVE FALSE
    BY <1>10
  <2>4. Different \in SUBSET Nat
    OBVIOUS
  <2>5. PICK n \in Different : \A m \in Different : n <= m
    BY ONLY <2>3, <2>4, LeastOf
  <2>6. n # 0 /\ n - 1 \in Nat /\ n - 1 \notin Different
    BY <2>2, <2>5
  <2>7. QED
    BY <2>1, <2>6
<1>12. \A n \in Nat : f[n + 1] = IF f[n] = Top THEN Top ELSE par[f[n]]
  BY <1>5
<1>13. QED
  BY <1>4, <1>7, <1>11, <1>12

(* The parent of what is met is met next.                                    *)
LEMMA ReachGoesOn ==
  ASSUME NEW par \in Parents, NEW x \in Places
  PROVE  /\ x # Top => x \in Reach(par, x)
         /\ Reach(par, x) \subseteq Entities
         /\ \A y \in Reach(par, x) : par[y] \in Reach(par, x) \cup {Top}
<1>1. PICK up \in [Nat -> Places] :
        /\ up = Up(par, x) /\ up[0] = x
        /\ \A n \in Nat : up[n + 1] = IF up[n] = Top THEN Top ELSE par[up[n]]
  BY UpsOf, Zenon
<1>2. /\ up \in [Nat -> Places] /\ up[0] = x
      /\ \A n \in Nat : up[n + 1] = IF up[n] = Top THEN Top ELSE par[up[n]]
  BY <1>1
<1>3. Reach(par, x) = {up[n] : n \in Nat} \ {Top}
  BY <1>1 DEF Reach
<1>4. ASSUME NEW y \in Reach(par, x) PROVE par[y] \in Reach(par, x) \cup {Top} /\ y \in Entities
  <2>1. PICK n \in Nat : y = up[n] /\ y # Top
    BY <1>3
  <2>2. up[n + 1] = par[y]
    BY <1>2, <2>1
  <2>3. QED
    BY <1>2, <1>3, <2>1, <2>2 DEF Places
<1>5. QED
  BY <1>2, <1>3, <1>4

(* What is met stays in every set that has the start and the parents of its    *)
(* members.                                                                  *)
LEMMA ReachWithin ==
  ASSUME NEW par \in Parents, NEW x \in Places, NEW S, x \in S \cup {Top},
         \A y \in S : par[y] \in S \cup {Top}
  PROVE  Reach(par, x) \subseteq S
<1>1. PICK up \in [Nat -> Places] :
        /\ up = Up(par, x) /\ up[0] = x
        /\ \A n \in Nat : up[n + 1] = IF up[n] = Top THEN Top ELSE par[up[n]]
  BY UpsOf, Zenon
<1>2. up[0] = x /\ \A n \in Nat : up[n + 1] = IF up[n] = Top THEN Top ELSE par[up[n]]
  BY <1>1
<1> DEFINE Outside == {n \in Nat : up[n] \notin S \cup {Top}}
<1>3. Outside = {}
  <2>1. SUFFICES ASSUME Outside # {} PROVE FALSE
    OBVIOUS
  <2>2. Outside \in SUBSET Nat
    OBVIOUS
  <2>3. PICK n \in Outside : \A m \in Outside : n <= m
    BY ONLY <2>1, <2>2, LeastOf
  <2>4. n # 0
    BY <1>2, <2>3
  <2>5. n - 1 \in Nat /\ n - 1 \notin Outside
    BY <2>3, <2>4
  <2>6. up[n - 1] \in S \cup {Top}
    BY <2>5
  <2>7. up[(n - 1) + 1] \in S \cup {Top}
    BY <1>2, <2>5, <2>6
  <2>8. QED
    BY <2>3, <2>4, <2>7
<1>4. QED
  BY <1>1, <1>3 DEF Reach

(* The line of an entity is the entity and the line of its parent.           *)
LEMMA ReachStep ==
  ASSUME NEW par \in Parents, NEW x \in Entities
  PROVE  /\ par[x] \in Places /\ Reach(par, x) = {x} \cup Reach(par, par[x])
         /\ Reach(par, Top) = {}
<1>1. x \in Places /\ par[x] \in Places /\ Top \in Places /\ x # Top
  BY EntitiesNumbered DEF Parents, Places
<1>2. Reach(par, par[x]) \subseteq Reach(par, x)
  <2>1. x \in Reach(par, x) /\ \A y \in Reach(par, x) : par[y] \in Reach(par, x) \cup {Top}
    BY <1>1, ReachGoesOn
  <2>2. QED
    BY <1>1, <2>1, ReachWithin
<1>3. Reach(par, x) \subseteq {x} \cup Reach(par, par[x])
  <2> DEFINE S == {x} \cup Reach(par, par[x])
  <2>1. par[x] # Top => par[x] \in Reach(par, par[x])
    BY <1>1, ReachGoesOn
  <2>2. \A y \in Reach(par, par[x]) : par[y] \in Reach(par, par[x]) \cup {Top}
    BY <1>1, ReachGoesOn
  <2>3. \A y \in S : par[y] \in S \cup {Top}
    BY <2>1, <2>2
  <2>4. x \in S \cup {Top}
    OBVIOUS
  <2> HIDE DEF S
  <2>5. Reach(par, x) \subseteq S
    BY ONLY <1>1, <2>3, <2>4, ReachWithin
  <2>6. QED
    BY <2>5 DEF S
<1>4. Reach(par, Top) \subseteq {}
  <2>1. PICK S : S = {}
    OBVIOUS
  <2>2. Top \in S \cup {Top} /\ \A y \in S : par[y] \in S \cup {Top}
    BY <2>1
  <2>3. Reach(par, Top) \subseteq S
    BY ONLY <1>1, <2>2, ReachWithin
  <2>4. QED
    BY <2>1, <2>3
<1>5. x \in Reach(par, x)
  BY <1>1, ReachGoesOn
<1>6. QED
  BY <1>1, <1>2, <1>3, <1>4, <1>5

(* The line of what is on a line is on it.                                   *)
LEMMA ReachAgain ==
  ASSUME NEW par \in Parents, NEW x \in Places, NEW y \in Reach(par, x)
  PROVE  Reach(par, y) \subseteq Reach(par, x)
<1>1. y \in Places /\ \A z \in Reach(par, x) : par[z] \in Reach(par, x) \cup {Top}
  BY ReachGoesOn DEF Places
<1>2. QED
  BY <1>1, ReachWithin

(* As many steps as there are entities show a whole line: no entity is met     *)
(* twice before the top.                                                     *)
LEMMA LineIsReach ==
  ASSUME NEW par \in Parents, NEW x \in Places, Rooted(par)
  PROVE  {Up(par, x)[n] : n \in 0..Cardinality(Entities)} \ {Top} = Reach(par, x)
<1>1. PICK up \in [Nat -> Places] :
        /\ up = Up(par, x) /\ up[0] = x
        /\ \A n \in Nat : up[n + 1] = IF up[n] = Top THEN Top ELSE par[up[n]]
  BY UpsOf, Zenon
<1>2. PICK N \in Nat : N = Cardinality(Entities)
  BY EntitiesNumbered, FS_CardinalityType
<1>3. ASSUME NEW i \in Nat, NEW n \in Nat, i <= n, up[i] = Top PROVE up[n] = Top
  <2> DEFINE Left == {m \in Nat : m >= i /\ up[m] # Top}
  <2>1. SUFFICES ASSUME Left # {} PROVE FALSE
    BY <1>3
  <2>2. Left \in SUBSET Nat
    OBVIOUS
  <2>3. PICK m \in Left : \A k \in Left : m <= k
    BY ONLY <2>1, <2>2, LeastOf
  <2>4. m # i
    BY <1>3, <2>3
  <2>5. m - 1 \in Nat /\ m - 1 >= i /\ m - 1 \notin Left
    BY <2>3, <2>4
  <2>6. up[m - 1] = Top
    BY <2>5
  <2>7. up[(m - 1) + 1] = Top
    BY <1>1, <2>5, <2>6
  <2>8. QED
    BY <2>3, <2>7
<1>4. ASSUME NEW i \in Nat, NEW n \in Nat, i < n, up[i] # Top
      PROVE  up[n] \in Reach(par, par[up[i]]) \cup {Top}
  <2>1. up[i] \in Entities /\ par[up[i]] \in Places
    BY <1>1, <1>4 DEF Places, Parents
  <2>2. PICK y \in Places : y = par[up[i]]
    BY <2>1
  <2>3. /\ y # Top => y \in Reach(par, y)
        /\ \A z \in Reach(par, y) : par[z] \in Reach(par, y) \cup {Top}
    BY ReachGoesOn
  <2> DEFINE Left == {m \in Nat : m > i /\ up[m] \notin Reach(par, y) \cup {Top}}
  <2>4. SUFFICES ASSUME Left # {} PROVE FALSE
    BY <1>4, <2>2
  <2>5. Left \in SUBSET Nat
    OBVIOUS
  <2>6. PICK m \in Left : \A k \in Left : m <= k
    BY ONLY <2>4, <2>5, LeastOf
  <2>7. up[i + 1] = y
    BY <1>1, <1>4, <2>2
  <2>8. m # i + 1
    BY <2>3, <2>6, <2>7
  <2>9. m - 1 \in Nat /\ m - 1 > i /\ m - 1 \notin Left
    BY <2>6, <2>8
  <2>10. up[m - 1] \in Reach(par, y) \cup {Top}
    BY <2>9
  <2>11. up[(m - 1) + 1] \in Reach(par, y) \cup {Top}
    BY <1>1, <2>3, <2>9, <2>10
  <2>12. QED
    BY <2>6, <2>11
<1>5. up[N] = Top
  <2>1. SUFFICES ASSUME up[N] # Top PROVE FALSE
    OBVIOUS
  <2>2. \A i \in 0..N : up[i] # Top /\ up[i] \in Entities
    BY <1>1, <1>3, <2>1 DEF Places
  <2>3. ASSUME NEW i \in 0..N, NEW j \in 0..N, i < j PROVE up[i] # up[j]
    <3>1. up[j] \in Reach(par, par[up[i]])
      BY <1>4, <2>2, <2>3
    <3>2. up[i] \notin Reach(par, par[up[i]])
      BY <2>2 DEF Rooted
    <3>3. QED
      BY <3>1, <3>2
  <2> DEFINE g == [i \in 1..N + 1 |-> up[i - 1]]
             met == {g[i] : i \in 1..N + 1}
  <2>4. \A i, j \in 1..N + 1 : g[i] = g[j] => i = j
    <3>1. SUFFICES ASSUME NEW i \in 1..N + 1, NEW j \in 1..N + 1, i < j PROVE g[i] # g[j]
      OBVIOUS
    <3>2. i - 1 \in 0..N /\ j - 1 \in 0..N /\ i - 1 < j - 1
      BY <3>1
    <3>3. QED
      BY <2>3, <3>2
  <2>5. DOMAIN g = 1..N + 1
    OBVIOUS
  <2>6. \A i \in 1..N + 1 : g[i] \in Entities
    BY <2>2
  <2>7. met \in SUBSET Entities
    BY <2>6
  <2> HIDE DEF g
  <2>8. Cardinality(met) = N + 1
    <3>1. N + 1 \in Nat
      OBVIOUS
    <3>2. QED
      BY ONLY <2>4, <2>5, <3>1, CountOfDistinct
  <2> HIDE DEF met
  <2>9. Cardinality(met) <= N
    BY <1>2, <2>7, EntitiesNumbered, FS_Subset
  <2>10. QED
    BY <2>8, <2>9
<1>6. \A n \in Nat : up[n] # Top => n \in 0..N
  BY <1>3, <1>5
<1>7. {up[n] : n \in 0..N} \ {Top} = {up[n] : n \in Nat} \ {Top}
  BY <1>6
<1>8. up = Up(par, x) /\ N = Cardinality(Entities)
  BY <1>1, <1>2
<1>9. Reach(par, x) = {up[n] : n \in Nat} \ {Top}
  BY ONLY <1>8 DEF Reach
<1>10. {up[n] : n \in 0..N} = {Up(par, x)[n] : n \in 0..Cardinality(Entities)}
  BY ONLY <1>8
<1>11. QED
  BY ONLY <1>7, <1>9, <1>10

(* A tree stays one when an entity moves to a place whose line it is not on,   *)
(* and others keep their parents or lose them.                               *)
LEMMA RootedKept ==
  ASSUME NEW par \in Parents, Rooted(par), NEW new \in Parents, NEW e \in Entities,
         e \notin Reach(par, new[e]),
         \A y \in Entities \ {e} : new[y] = par[y] \/ new[y] = Top
  PROVE  Rooted(new)
<1>1. PICK p \in Places : p = new[e]
  BY DEF Parents, Places
<1>2. /\ p # Top => p \in Reach(par, p)
      /\ Reach(par, p) \subseteq Entities
      /\ \A y \in Reach(par, p) : par[y] \in Reach(par, p) \cup {Top}
  BY ReachGoesOn
<1>3. ASSUME NEW d \in Entities PROVE d \notin Reach(new, new[d])
  <2>1. PICK q \in Places : q = par[d]
    BY DEF Parents, Places
  <2>2. PICK r \in Places : r = new[d]
    BY DEF Parents, Places
  <2>3. /\ q # Top => q \in Reach(par, q)
        /\ Reach(par, q) \subseteq Entities
        /\ \A y \in Reach(par, q) : par[y] \in Reach(par, q) \cup {Top}
    BY ReachGoesOn
  <2>4. d \notin Reach(par, q)
    BY <2>1 DEF Rooted
  <2>5. CASE d = e
    <3>1. \A y \in Reach(par, p) : new[y] \in Reach(par, p) \cup {Top}
      BY <1>1, <1>2
    <3>2. p \in Reach(par, p) \cup {Top}
      BY <1>2
    <3>3. Reach(new, p) \subseteq Reach(par, p)
      BY ONLY new \in Parents, p \in Places, <3>1, <3>2, ReachWithin
    <3>4. QED
      BY <1>1, <2>5, <3>3
  <2>6. CASE d # e /\ r = Top
    <3>1. Reach(new, Top) = {}
      BY ReachStep
    <3>2. QED
      BY <2>2, <2>6, <3>1
  <2>7. CASE d # e /\ r = q /\ d \notin Reach(par, p)
    <3>1. PICK S : S = Reach(par, q) \cup Reach(par, p)
      OBVIOUS
    <3>2. q \in S \cup {Top}
      BY <2>3, <3>1
    <3>3. \A y \in S : new[y] \in S \cup {Top}
      BY <1>1, <1>2, <2>3, <3>1
    <3>4. Reach(new, q) \subseteq S
      BY ONLY new \in Parents, q \in Places, <3>2, <3>3, ReachWithin
    <3>5. QED
      BY <2>2, <2>4, <2>7, <3>1, <3>4
  <2>8. CASE d # e /\ r = q /\ d \in Reach(par, p)
    <3>1. q \in Reach(par, p) \cup {Top}
      BY <1>2, <2>1, <2>8
    <3>2. Reach(par, q) \subseteq Reach(par, p)
      BY <1>2, <3>1, ReachWithin
    <3>3. e \notin Reach(par, q)
      BY <1>1, <3>2
    <3>4. \A y \in Reach(par, q) : new[y] \in Reach(par, q) \cup {Top}
      BY <2>3, <3>3
    <3>5. q \in Reach(par, q) \cup {Top}
      BY <2>3
    <3>6. Reach(new, q) \subseteq Reach(par, q)
      BY ONLY new \in Parents, q \in Places, <3>4, <3>5, ReachWithin
    <3>7. QED
      BY <2>2, <2>4, <2>8, <3>6
  <2>9. QED
    BY <2>1, <2>2, <2>5, <2>6, <2>7, <2>8
<1>4. QED
  BY <1>3 DEF Rooted

-----------------------------------------------------------------------------
(* The invariant. *)

(* Entities alive with their parents and names: parents are alive and no line  *)
(* comes back to where it was; what is not alive has neither.                *)
Shape(alive, par, nam) ==
  /\ alive \subseteq Entities /\ par \in Parents /\ nam \in [Entities -> Names \cup {NoName}]
  /\ \A d \in Entities \ alive : par[d] = Top /\ nam[d] = NoName
  /\ \A d \in alive : par[d] \in alive \cup {Top}
  /\ Rooted(par)

(* The entries that the named entities alive should have                      *)
Listings(alive, par, nam) == {EntryOf(par, nam, d) : d \in {c \in alive : nam[c] # NoName}}

(* The index has them and nothing else.                                      *)
Listed(t, alive, par, nam) == Sound(t) /\ Contents(t) = Listings(alive, par, nam)

(* The short index says what the long one does.                              *)
ShortListed(r, t) == r \in [Names -> Places] /\ \A m \in Names : r[m] = Find(t, <<Top, m>>)

(* What every step keeps                                                     *)
IInv ==
  /\ dead \subseteq Entities /\ living \cap dead = {}
  /\ Shape(living, parent, name)
  /\ Listed(index, living, parent, name)
  /\ ShortListed(roots, index)

(* What a lookup finds: the entity alive that has the name under the parent.  *)
LEMMA FindTells ==
  ASSUME NEW alive, NEW par, NEW nam, NEW t, Listed(t, alive, par, nam), NEW key \in Keys
  PROVE  /\ Find(t, key) \in Places
         /\ Find(t, key) # Top => /\ Find(t, key) \in alive /\ nam[Find(t, key)] # NoName
                                  /\ key = <<par[Find(t, key)], nam[Find(t, key)]>>
         /\ \A d \in alive : key = <<par[d], nam[d]>> => Find(t, key) = d
<1>1. PICK f : f = Find(t, key)
  OBVIOUS
<1>2. /\ \A x \in Contents(t) : x.key = key => f = x.entity
      /\ f # Top => [key |-> key, entity |-> f] \in Contents(t)
      /\ f \in Places
  BY <1>1, FindIs DEF Listed, Places
<1>3. ASSUME f # Top PROVE f \in alive /\ nam[f] # NoName /\ key = <<par[f], nam[f]>>
  <2>1. PICK d \in alive : nam[d] # NoName /\ [key |-> key, entity |-> f] = EntryOf(par, nam, d)
    BY <1>2, <1>3 DEF Listed, Listings
  <2>2. f = d /\ key = <<par[d], nam[d]>>
    BY <2>1 DEF EntryOf
  <2>3. QED
    BY <2>1, <2>2
<1>4. ASSUME NEW d \in alive, key = <<par[d], nam[d]>> PROVE f = d
  <2>1. nam[d] # NoName
    BY <1>4, NamesNamed DEF Keys
  <2>2. EntryOf(par, nam, d) \in Contents(t)
    BY <2>1 DEF Listed, Listings
  <2>3. EntryOf(par, nam, d).key = key /\ EntryOf(par, nam, d).entity = d
    BY <1>4 DEF EntryOf
  <2>4. QED
    BY <1>2, <2>2, <2>3
<1>5. QED
  BY <1>1, <1>2, <1>3, <1>4

(* What is met above an entity alive is alive.                               *)
LEMMA LineAlive ==
  ASSUME NEW alive, NEW par, NEW nam, Shape(alive, par, nam), NEW x \in alive \cup {Top}
  PROVE  Reach(par, x) \subseteq alive
<1>1. par \in Parents /\ x \in Places /\ \A y \in alive : par[y] \in alive \cup {Top}
  BY DEF Shape, Places
<1>2. QED
  BY <1>1, ReachWithin

(* The lines of the model are the lines of parents.                          *)
LEMMA LineIs ==
  ASSUME Shape(living, parent, name), NEW x \in Places
  PROVE  Line(x) = Reach(parent, x)
<1>1. PICK par \in Parents : par = parent
  BY DEF Shape
<1>2. Rooted(par)
  BY <1>1 DEF Shape
<1>3. {Up(par, x)[n] : n \in 0..Cardinality(Entities)} \ {Top} = Reach(par, x)
  BY <1>2, LineIsReach
<1>4. Line(x) = {Up(parent, x)[n] : n \in 0..Cardinality(Entities)} \ {Top}
  BY DEF Line, Up
<1>5. QED
  BY <1>1, <1>3, <1>4

(* What is below an entity is closed downwards.                              *)
LEMMA BelowIs ==
  ASSUME Shape(living, parent, name), NEW v \in Entities
  PROVE  /\ Below(v) \subseteq living
         /\ v \in living => v \in Below(v)
         /\ \A d \in living \ Below(v) : parent[d] \notin Below(v)
         /\ \A d \in Places : v \notin Line(d) => d \notin Below(v)
<1>1. PICK par \in Parents : par = parent
  BY DEF Shape
<1>2. living \subseteq Entities /\ Entities \subseteq Places
  BY DEF Shape, Places
<1>3. \A d \in Places : Line(d) = Reach(par, d)
  BY <1>1, LineIs
<1>4. Below(v) = {d \in living : v \in Reach(par, d)}
  BY <1>2, <1>3 DEF Below
<1>5. v \in Reach(par, v)
  BY EntitiesNumbered, ReachGoesOn DEF Places
<1>6. ASSUME NEW d \in living, par[d] \in Below(v) PROVE d \in Below(v)
  <2>1. d \in Entities
    BY <1>2
  <2>2. Reach(par, d) = {d} \cup Reach(par, par[d])
    BY <2>1, ReachStep
  <2>3. QED
    BY <1>4, <1>6, <2>2
<1>7. ASSUME NEW d \in Places, v \notin Line(d) PROVE d \notin Below(v)
  BY <1>3, <1>4, <1>7
<1>8. QED
  BY <1>1, <1>4, <1>5, <1>6, <1>7

(* A function of entities with another value for e, and none for those gone   *)
Assigned(f, e, x, gone, none) ==
  [d \in Entities |-> IF d = e THEN x ELSE IF d \in gone THEN none ELSE f[d]]

(* What can be so taken out of a tree while e goes below p                    *)
Movable(alive, par, gone, e, p) ==
  /\ gone \in SUBSET alive /\ \A d \in alive \ gone : par[d] \notin gone
  /\ e \in Entities \ gone /\ p \in (alive \ gone) \cup {Top} /\ e \notin Reach(par, p)

(* The tree after an entity has moved and others, with all below them, are     *)
(* gone                                                                      *)
LEMMA ShapeMoved ==
  ASSUME NEW alive, NEW par, NEW nam, Shape(alive, par, nam),
         NEW gone, NEW e, NEW p, Movable(alive, par, gone, e, p),
         NEW n \in Names \cup {NoName},
         NEW alive2, alive2 = (alive \cup {e}) \ gone,
         NEW par2, par2 = Assigned(par, e, p, gone, Top),
         NEW nam2, nam2 = Assigned(nam, e, n, gone, NoName)
  PROVE  /\ Shape(alive2, par2, nam2)
         /\ \A d \in alive2 \ {e} : d \in alive \ gone /\ par2[d] = par[d] /\ nam2[d] = nam[d]
         /\ e \in alive2 /\ par2[e] = p /\ nam2[e] = n
         /\ \A d \in alive \ (gone \cup {e}) : d \in alive2
<1> USE DEF Movable
<1>1. alive \subseteq Entities /\ par \in Parents /\ nam \in [Entities -> Names \cup {NoName}]
  BY DEF Shape
<1>2. par2 \in Parents /\ nam2 \in [Entities -> Names \cup {NoName}] /\ alive2 \subseteq Entities
  BY <1>1 DEF Parents, Places, Assigned
<1>3. \A d \in Entities \ alive2 : par2[d] = Top /\ nam2[d] = NoName
  BY <1>1 DEF Shape, Assigned
<1>4. \A d \in alive2 \ {e} : d \in alive \ gone /\ par2[d] = par[d] /\ nam2[d] = nam[d]
  BY <1>1 DEF Assigned
<1>5. e \in alive2 /\ par2[e] = p /\ nam2[e] = n
  BY DEF Assigned
<1>6. \A d \in alive2 : par2[d] \in alive2 \cup {Top}
  <2>1. TAKE d \in alive2
  <2>2. CASE d = e
    BY <1>5, <2>2
  <2>3. CASE d # e
    BY <1>4, <2>3 DEF Shape
  <2>4. QED
    BY <2>2, <2>3
<1>7. Rooted(par2)
  <2>1. \A y \in Entities \ {e} : par2[y] = par[y] \/ par2[y] = Top
    BY DEF Assigned
  <2>2. Rooted(par) /\ e \notin Reach(par, par2[e])
    BY <1>5 DEF Shape
  <2>3. QED
    BY ONLY <1>1, <1>2, <2>1, <2>2, e \in Entities, RootedKept
<1>8. QED
  BY <1>2, <1>3, <1>4, <1>5, <1>6, <1>7 DEF Shape

(* The tree after entities, with all below them, are gone                     *)
LEMMA ShapeShrunk ==
  ASSUME NEW alive, NEW par, NEW nam, Shape(alive, par, nam),
         NEW gone \in SUBSET alive, \A d \in alive \ gone : par[d] \notin gone, gone # {},
         NEW par2, par2 = [d \in Entities |-> IF d \in gone THEN Top ELSE par[d]],
         NEW nam2, nam2 = [d \in Entities |-> IF d \in gone THEN NoName ELSE nam[d]]
  PROVE  /\ Shape(alive \ gone, par2, nam2)
         /\ \A d \in alive \ gone : par2[d] = par[d] /\ nam2[d] = nam[d]
<1>1. alive \subseteq Entities /\ par \in Parents /\ nam \in [Entities -> Names \cup {NoName}]
  BY DEF Shape
<1>2. par2 \in Parents /\ nam2 \in [Entities -> Names \cup {NoName}]
  BY <1>1 DEF Parents, Places
<1>3. \A d \in Entities \ (alive \ gone) : par2[d] = Top /\ nam2[d] = NoName
  BY <1>1 DEF Shape
<1>4. \A d \in alive \ gone : par2[d] = par[d] /\ nam2[d] = nam[d]
  BY <1>1
<1>5. \A d \in alive \ gone : par2[d] \in (alive \ gone) \cup {Top}
  BY <1>4 DEF Shape
<1>6. Rooted(par2)
  <2>1. PICK e \in Entities : e \in gone
    BY <1>1
  <2>2. \A y \in Entities \ {e} : par2[y] = par[y] \/ par2[y] = Top
    OBVIOUS
  <2>3. par2[e] = Top /\ Reach(par, Top) = {}
    BY <1>1, <2>1, ReachStep
  <2>4. Rooted(par) /\ e \notin Reach(par, par2[e])
    BY <2>3 DEF Shape
  <2>5. QED
    BY ONLY <1>1, <1>2, <2>2, <2>4, e \in Entities, RootedKept
<1>7. QED
  BY <1>1, <1>2, <1>3, <1>4, <1>5, <1>6 DEF Shape

(* What the index has and finds when entities have been taken out              *)
LEMMA IndexTrimmed ==
  ASSUME IInv, NEW ds \in SUBSET Entities
  PROVE  /\ Listed(Unregister(index, ds), living \ ds, parent, name)
         /\ ShortListed(UnregisterRoots(ds), Unregister(index, ds))
<1>1. /\ living \subseteq Entities /\ parent \in [Entities -> Entities \cup {Top}]
      /\ name \in [Entities -> Names \cup {NoName}]
  BY DEF IInv, Shape, Parents, Places
<1>2. PICK t : t = index
  OBVIOUS
<1>3. Sound(t) /\ Contents(t) = Listings(living, parent, name)
  BY <1>2 DEF IInv, Listed
<1>4. /\ Sound(Unregister(t, ds))
      /\ Contents(Unregister(t, ds)) =
           {x \in Contents(t) : ~\E d \in ds : x = EntryOf(parent, name, d)}
  BY <1>1, <1>3, Unregistering
<1>5. {x \in Contents(t) : ~\E d \in ds : x = EntryOf(parent, name, d)}
        = Listings(living \ ds, parent, name)
  <2>1. \A c, d : EntryOf(parent, name, c) = EntryOf(parent, name, d) => c = d
    BY DEF EntryOf
  <2>2. QED
    BY <1>3, <2>1 DEF Listings
<1>6. Listed(Unregister(index, ds), living \ ds, parent, name)
  BY <1>2, <1>4, <1>5 DEF Listed
<1>7. PICK u : u = Unregister(index, ds)
  OBVIOUS
<1>8. PICK par \in {parent}, nam \in {name}, alive \in {living} :
        par = parent /\ nam = name /\ alive = living
  OBVIOUS
<1>9. ASSUME NEW m \in Names PROVE UnregisterRoots(ds)[m] = Find(u, <<Top, m>>)
  <2>1. PICK key \in Keys : key = <<Top, m>>
    BY DEF Keys
  <2>2. PICK f : f = Find(t, key)
    OBVIOUS
  <2>3. PICK g : g = Find(u, key)
    OBVIOUS
  <2>4. /\ f # Top => f \in alive /\ key = <<par[f], nam[f]>>
        /\ \A d \in alive : key = <<par[d], nam[d]>> => f = d
    <3>1. Listed(t, alive, par, nam)
      BY <1>2, <1>8 DEF IInv
    <3>2. QED
      BY <2>2, <3>1, FindTells
  <2>5. /\ g # Top => g \in alive \ ds /\ key = <<par[g], nam[g]>>
        /\ \A d \in alive \ ds : key = <<par[d], nam[d]>> => g = d
    <3>1. Listed(u, alive \ ds, par, nam)
      BY <1>6, <1>7, <1>8
    <3>2. QED
      BY <2>3, <3>1, FindTells
  <2>6. roots[m] = f
    BY <1>2, <2>1, <2>2 DEF IInv, ShortListed
  <2>7. Top \notin ds
    BY EntitiesNumbered
  <2>8. f # Top => par[f] = Top /\ nam[f] = m
    BY <2>1, <2>4
  <2>9. UnregisterRoots(ds)[m] = IF f # Top /\ f \in ds THEN Top ELSE f
    BY <1>8, <2>6, <2>7, <2>8 DEF UnregisterRoots
  <2>10. g = IF f # Top /\ f \in ds THEN Top ELSE f
    BY <2>4, <2>5
  <2>11. QED
    BY <2>1, <2>3, <2>9, <2>10
<1>10. UnregisterRoots(ds) \in [Names -> Places]
  BY DEF UnregisterRoots, IInv, ShortListed, Places
<1>11. QED
  BY <1>6, <1>7, <1>9, <1>10 DEF ShortListed

(* What is found when an entry has been put                                   *)
LEMMA FindPut ==
  ASSUME NEW t, Sound(t), NEW key \in Keys, NEW e \in Entities, NEW k \in Keys
  PROVE  Find(Put(t, key, e), k) = IF k = key THEN e ELSE Find(t, k)
<1>1. PICK u : u = Put(t, key, e)
  OBVIOUS
<1>2. PICK x : x = [key |-> key, entity |-> e]
  OBVIOUS
<1>3. Sound(u) /\ Contents(u) = {y \in Contents(t) : y.key # key} \cup {x}
  BY <1>1, <1>2, Putting
<1>4. PICK f : f = Find(t, k)
  OBVIOUS
<1>5. PICK g : g = Find(u, k)
  OBVIOUS
<1>6. /\ \A y \in Contents(t) : y.key = k => f = y.entity
      /\ f # Top => [key |-> k, entity |-> f] \in Contents(t)
  BY <1>4, FindIs
<1>7. /\ \A y \in Contents(u) : y.key = k => g = y.entity
      /\ g # Top => [key |-> k, entity |-> g] \in Contents(u)
  BY <1>3, <1>5, FindIs
<1>8. CASE k = key
  BY <1>1, <1>2, <1>3, <1>5, <1>7, <1>8
<1>9. CASE k # key
  <2>1. f # Top => g = f
    <3>1. ASSUME f # Top PROVE g = f
      <4>1. PICK y \in Contents(t) : y = [key |-> k, entity |-> f]
        BY <1>6, <3>1
      <4>2. y \in Contents(u) /\ y.key = k /\ y.entity = f
        BY <1>3, <1>9, <4>1
      <4>3. QED
        BY <1>7, <4>2
    <3>2. QED
      BY <3>1
  <2>2. g # Top => g = f
    <3>1. ASSUME g # Top PROVE g = f
      <4>1. PICK y \in Contents(u) : y = [key |-> k, entity |-> g]
        BY <1>7, <3>1
      <4>2. y.key = k /\ y.entity = g /\ y # x
        BY <1>2, <1>9, <4>1
      <4>3. y \in Contents(t)
        BY <1>3, <4>2
      <4>4. QED
        BY <1>6, <4>2, <4>3
    <3>2. QED
      BY <3>1
  <2>3. QED
    BY <1>1, <1>4, <1>5, <1>9, <2>1, <2>2
<1>10. QED
  BY <1>8, <1>9

(* Entity e may go below p with the name n.                                    *)
MayGo(e, p, n) ==
  /\ e \in Entities \ dead /\ p \in living \cup {Top} /\ n \in Names \cup {NoName}
  /\ e \notin Line(p)
  /\ Victim(e, p, n) = Top \/ Victim(e, p, n) \notin Line(e) \cup Line(p)

(* Who dies when e goes there                                                *)
Gone(e, p, n) == IF Victim(e, p, n) = Top THEN {} ELSE Below(Victim(e, p, n))

(* Those who give way are alive, with all that is below them, and neither the   *)
(* entity nor where it goes is among them; then the place is free.           *)
LEMMA GivingWay ==
  ASSUME IInv, NEW e, NEW p, NEW n, MayGo(e, p, n)
  PROVE  /\ Gone(e, p, n) \subseteq living
         /\ e \notin Gone(e, p, n) /\ p \notin Gone(e, p, n)
         /\ \A d \in living \ Gone(e, p, n) : parent[d] \notin Gone(e, p, n)
         /\ \A d \in living \ (Gone(e, p, n) \cup {e}) :
              n # NoName => <<p, n>> # <<parent[d], name[d]>>
<1>1. PICK v : v = Victim(e, p, n)
  OBVIOUS
<1>2. e \in Places /\ p \in Places /\ n \in Names \cup {NoName} /\ living \subseteq Entities
  BY DEF MayGo, IInv, Shape, Places
<1>3. PICK par \in {parent}, nam \in {name}, alive \in {living}, t \in {index} :
        par = parent /\ nam = name /\ alive = living /\ t = index
  OBVIOUS
<1>4. Listed(t, alive, par, nam)
  BY <1>3 DEF IInv
<1>5. ASSUME n # NoName
      PROVE  /\ v # Top => v \in living
             /\ \A d \in living : <<p, n>> = <<parent[d], name[d]>> => d = e \/ d = v
  <2>1. PICK key \in Keys : key = <<p, n>>
    BY <1>2, <1>5 DEF Keys, Places
  <2>2. /\ Find(t, key) # Top => Find(t, key) \in alive
        /\ \A d \in alive : key = <<par[d], nam[d]>> => Find(t, key) = d
    BY <1>4, FindTells
  <2>3. v = IF Find(t, key) = e THEN Top ELSE Find(t, key)
    BY <1>1, <1>3, <1>5, <2>1 DEF Victim
  <2>4. QED
    BY <1>3, <2>1, <2>2, <2>3
<1>6. n = NoName => v = Top
  BY <1>1 DEF Victim
<1>7. CASE v = Top
  <2>1. Gone(e, p, n) = {}
    BY <1>1, <1>7 DEF Gone
  <2>2. Top \notin living
    BY <1>2, EntitiesNumbered
  <2>3. QED
    BY <1>5, <1>7, <2>1, <2>2
<1>8. CASE v # Top
  <2>1. v \in living /\ v \in Entities
    BY <1>2, <1>5, <1>6, <1>8
  <2>2. Gone(e, p, n) = Below(v)
    BY <1>1, <1>8 DEF Gone
  <2>3. v \notin Line(e) /\ v \notin Line(p)
    BY <1>1, <1>8 DEF MayGo
  <2>4. /\ Below(v) \subseteq living /\ v \in Below(v)
        /\ \A d \in living \ Below(v) : parent[d] \notin Below(v)
        /\ \A d \in Places : v \notin Line(d) => d \notin Below(v)
    BY <2>1, BelowIs DEF IInv
  <2>5. e \notin Below(v) /\ p \notin Below(v)
    BY <1>2, <2>3, <2>4
  <2>6. \A d \in living \ (Below(v) \cup {e}) : n # NoName => <<p, n>> # <<parent[d], name[d]>>
    BY <1>5, <2>4
  <2>7. QED
    BY <2>2, <2>4, <2>5, <2>6
<1>9. QED
  BY <1>7, <1>8

(* Who moves has a line that does not go through it.                         *)
LEMMA NotAbove ==
  ASSUME IInv, NEW e \in Entities, NEW p \in living \cup {Top},
         e \notin living \/ p = parent[e] \/ p = Top \/ e \notin Line(p)
  PROVE  e \notin Line(p)
<1>1. PICK par \in Parents, alive \in {living}, nam \in {name} :
        par = parent /\ alive = living /\ nam = name
  BY DEF IInv, Shape
<1>2. Shape(alive, par, nam)
  BY <1>1 DEF IInv
<1>3. Reach(par, p) \subseteq alive
  BY <1>1, <1>2, LineAlive
<1>4. p \in Places /\ Line(p) = Reach(par, p)
  <2>1. p \in Places
    BY DEF IInv, Shape, Places
  <2>2. QED
    BY <1>1, <2>1, LineIs DEF IInv
<1>5. e \notin Reach(par, par[e]) /\ Reach(par, Top) = {}
  BY <1>2, ReachStep DEF Shape, Rooted
<1>6. QED
  BY <1>1, <1>3, <1>4, <1>5

(* The steps that move an entity are moves it may make.                      *)
LEMMA Movers ==
  ASSUME IInv, NEW e \in Entities
  PROVE  /\ \A n \in Names \cup {NoName} :
              SetName(e, n) => MayGo(e, parent[e], n) /\ Relocate(e, parent[e], n)
         /\ \A p \in Entities \cup {Top} :
              SetParent(e, p) => MayGo(e, p, name[e]) /\ Relocate(e, p, name[e])
         /\ \A p \in Entities \cup {Top}, n \in Names :
              NewNamed(e, p, n) => MayGo(e, p, n) /\ Relocate(e, p, n)
<1>1. /\ living \cap dead = {}
      /\ \A d \in living : parent[d] \in living \cup {Top} /\ name[d] \in Names \cup {NoName}
      /\ living \subseteq Entities
  BY DEF IInv, Shape
<1>2. ASSUME NEW n \in Names \cup {NoName}, SetName(e, n)
      PROVE  MayGo(e, parent[e], n) /\ Relocate(e, parent[e], n)
  <2>1. e \in living /\ MayTake(e, parent[e], n)
    BY <1>2 DEF SetName
  <2>2. PICK p \in living \cup {Top} : p = parent[e]
    BY <1>1, <2>1
  <2>3. e \notin Line(p)
    BY <2>2, NotAbove
  <2>4. MayGo(e, p, n)
    BY <1>1, <2>1, <2>2, <2>3 DEF MayTake, MayGo
  <2>5. QED
    BY <1>2, <2>2, <2>4 DEF SetName
<1>3. ASSUME NEW p \in Entities \cup {Top}, SetParent(e, p)
      PROVE  MayGo(e, p, name[e]) /\ Relocate(e, p, name[e])
  <2>1. e \in living /\ MayTake(e, p, name[e])
    BY <1>3 DEF SetParent
  <2>2. p \in living \cup {Top} /\ (p = parent[e] \/ p = Top \/ e \notin Line(p))
    BY <1>1, <2>1 DEF MayTake
  <2>3. e \notin Line(p)
    BY <2>2, NotAbove
  <2>4. MayGo(e, p, name[e])
    BY <1>1, <2>1, <2>2, <2>3 DEF MayTake, MayGo
  <2>5. QED
    BY <1>3, <2>4 DEF SetParent
<1>4. ASSUME NEW p \in Entities \cup {Top}, NEW n \in Names, NewNamed(e, p, n)
      PROVE  MayGo(e, p, n) /\ Relocate(e, p, n)
  <2>1. e \notin living \cup dead /\ p \in living \cup {Top} /\ Find(index, <<p, n>>) = Top
    BY <1>4 DEF NewNamed, Newest
  <2>2. e \notin Line(p)
    BY <2>1, NotAbove
  <2>3. Victim(e, p, n) = Top
    BY <2>1 DEF Victim
  <2>4. MayGo(e, p, n)
    BY <2>1, <2>2, <2>3 DEF MayGo
  <2>5. QED
    BY <1>4, <2>4 DEF NewNamed
<1>5. QED
  BY <1>2, <1>3, <1>4

(* The tree after a move                                                     *)
LEMMA TreeMoved ==
  ASSUME IInv, NEW e, NEW p, NEW n, MayGo(e, p, n), Relocate(e, p, n)
  PROVE  /\ Shape(living', parent', name')
         /\ \A d \in living' \ {e} : /\ d \in living \ Gone(e, p, n)
                                     /\ parent'[d] = parent[d] /\ name'[d] = name[d]
         /\ e \in living' /\ parent'[e] = p /\ name'[e] = n
         /\ \A d \in living \ (Gone(e, p, n) \cup {e}) : d \in living'
         /\ dead' \subseteq Entities /\ living' \cap dead' = {}
<1>1. PICK gone : gone = Gone(e, p, n)
  OBVIOUS
<1>2. /\ gone \subseteq living /\ e \notin gone /\ p \notin gone
      /\ \A d \in living \ gone : parent[d] \notin gone
  BY <1>1, GivingWay
<1>3. PICK alive \in {living}, par \in {parent}, nam \in {name} :
        alive = living /\ par = parent /\ nam = name
  OBVIOUS
<1>4. PICK alive2 \in {living'}, par2 \in {parent'}, nam2 \in {name'} :
        alive2 = living' /\ par2 = parent' /\ nam2 = name'
  OBVIOUS
<1>5. /\ alive2 = (alive \cup {e}) \ gone
      /\ par2 = [d \in Entities |-> IF d = e THEN p ELSE IF d \in gone THEN Top ELSE par[d]]
      /\ nam2 = [d \in Entities |-> IF d = e THEN n ELSE IF d \in gone THEN NoName ELSE nam[d]]
      /\ dead' = dead \cup gone
  BY <1>1, <1>3, <1>4 DEF Relocate, Gone
<1>6. /\ Shape(alive, par, nam) /\ gone \in SUBSET alive
      /\ \A d \in alive \ gone : par[d] \notin gone
      /\ e \in Entities \ gone /\ p \in (alive \ gone) \cup {Top} /\ n \in Names \cup {NoName}
  BY <1>2, <1>3 DEF IInv, MayGo
<1>7. e \notin Reach(par, p)
  <2>1. p \in Places
    BY DEF MayGo, IInv, Shape, Places
  <2>2. QED
    BY <1>3, <2>1, LineIs DEF IInv, MayGo
<1>8. /\ Shape(alive2, par2, nam2)
      /\ \A d \in alive2 \ {e} : d \in alive \ gone /\ par2[d] = par[d] /\ nam2[d] = nam[d]
      /\ e \in alive2 /\ par2[e] = p /\ nam2[e] = n
      /\ \A d \in alive \ (gone \cup {e}) : d \in alive2
  <2>1. par2 = Assigned(par, e, p, gone, Top) /\ nam2 = Assigned(nam, e, n, gone, NoName)
    BY <1>5 DEF Assigned
  <2>2. alive2 = (alive \cup {e}) \ gone
    BY <1>5
  <2>3. Movable(alive, par, gone, e, p) /\ Shape(alive, par, nam) /\ n \in Names \cup {NoName}
    BY <1>6, <1>7 DEF Movable
  <2>4. QED
    BY ONLY <2>1, <2>2, <2>3, ShapeMoved
<1>9. dead' \subseteq Entities /\ living' \cap dead' = {}
  BY <1>3, <1>4, <1>5, <1>6 DEF IInv, MayGo, Shape
<1>10. QED
  BY <1>1, <1>3, <1>4, <1>8, <1>9

(* The indexes after a move                                                  *)
LEMMA IndexMoved ==
  ASSUME IInv, NEW e, NEW p, NEW n, MayGo(e, p, n), Relocate(e, p, n)
  PROVE  Listed(index', living', parent', name') /\ ShortListed(roots', index')
<1>1. PICK gone : gone = Gone(e, p, n)
  OBVIOUS
<1>2. PICK ds : ds = gone \cup {e}
  OBVIOUS
<1>3. gone \subseteq living /\ ds \in SUBSET Entities /\ e \in Entities
  BY <1>1, <1>2, GivingWay DEF MayGo, IInv, Shape
<1>4. PICK left \in {Unregister(index, ds)}, short \in {UnregisterRoots(ds)} :
        left = Unregister(index, ds) /\ short = UnregisterRoots(ds)
  OBVIOUS
<1>5. PICK par \in {parent}, nam \in {name}, alive \in {living} :
        par = parent /\ nam = name /\ alive = living
  OBVIOUS
<1>6. Listed(left, alive \ ds, par, nam) /\ ShortListed(short, left)
  BY <1>3, <1>4, <1>5, IndexTrimmed
<1>7. /\ index' = IF n = NoName THEN left ELSE Put(left, <<p, n>>, e)
      /\ roots' = IF n # NoName /\ p = Top THEN [short EXCEPT ![n] = e] ELSE short
  BY <1>1, <1>2, <1>4 DEF Relocate, Gone
<1>8. PICK alive2 \in {living'}, par2 \in {parent'}, nam2 \in {name'} :
        alive2 = living' /\ par2 = parent' /\ nam2 = name'
  OBVIOUS
<1>9. /\ \A d \in alive2 \ {e} : d \in alive \ ds /\ par2[d] = par[d] /\ nam2[d] = nam[d]
      /\ e \in alive2 /\ par2[e] = p /\ nam2[e] = n
      /\ \A d \in alive \ ds : d \in alive2 \ {e}
  BY <1>1, <1>2, <1>5, <1>8, TreeMoved
<1>10. \A d \in alive \ ds : EntryOf(par2, nam2, d) = EntryOf(par, nam, d)
  BY <1>9 DEF EntryOf
<1>11. CASE n = NoName
  <2>1. Listings(alive2, par2, nam2) = Listings(alive \ ds, par, nam)
    BY <1>9, <1>10, <1>11 DEF Listings
  <2>2. Listed(left, alive2, par2, nam2)
    BY <1>6, <2>1 DEF Listed
  <2>3. QED
    BY <1>6, <1>7, <1>8, <1>11, <2>2
<1>12. CASE n # NoName
  <2>1. PICK key \in Keys : key = <<p, n>>
    BY <1>12 DEF Keys, MayGo, IInv, Shape
  <2>2. PICK u : u = Put(left, key, e)
    OBVIOUS
  <2>3. Sound(left) /\ Contents(left) = Listings(alive \ ds, par, nam)
    BY <1>6 DEF Listed
  <2>4. PICK x : x = [key |-> key, entity |-> e]
    OBVIOUS
  <2>5. Sound(u) /\ Contents(u) = {y \in Contents(left) : y.key # key} \cup {x}
    BY <1>3, <2>2, <2>3, <2>4, Putting
  <2>6. \A y \in Contents(left) : y.key # key
    <3>1. TAKE y \in Contents(left)
    <3>2. PICK d \in alive \ ds : y = EntryOf(par, nam, d)
      BY <2>3 DEF Listings
    <3>3. y.key = <<par[d], nam[d]>>
      BY <3>2 DEF EntryOf
    <3>4. QED
      BY <1>1, <1>2, <1>5, <1>12, <2>1, <3>3, GivingWay
  <2>7. x = EntryOf(par2, nam2, e)
    BY <1>9, <2>1, <2>4 DEF EntryOf
  <2>8. Listings(alive2, par2, nam2) = Listings(alive \ ds, par, nam) \cup {x}
    <3>1. ASSUME NEW y \in Listings(alive2, par2, nam2)
          PROVE  y \in Listings(alive \ ds, par, nam) \cup {x}
      <4>1. PICK d \in alive2 : nam2[d] # NoName /\ y = EntryOf(par2, nam2, d)
        BY <3>1 DEF Listings
      <4>2. CASE d = e
        BY <2>7, <4>1, <4>2
      <4>3. CASE d # e
        BY <1>9, <1>10, <4>1, <4>3 DEF Listings
      <4>4. QED
        BY <4>2, <4>3
    <3>2. ASSUME NEW y \in Listings(alive \ ds, par, nam) PROVE y \in Listings(alive2, par2, nam2)
      <4>1. PICK d \in alive \ ds : nam[d] # NoName /\ y = EntryOf(par, nam, d)
        BY <3>2 DEF Listings
      <4>2. d \in alive2 /\ nam2[d] # NoName /\ y = EntryOf(par2, nam2, d)
        BY <1>9, <1>10, <4>1
      <4>3. QED
        BY <4>2 DEF Listings
    <3>3. x \in Listings(alive2, par2, nam2)
      BY <1>9, <1>12, <2>7 DEF Listings
    <3>4. QED
      BY <3>1, <3>2, <3>3
  <2>9. Listed(u, alive2, par2, nam2)
    BY <2>3, <2>5, <2>6, <2>8 DEF Listed
  <2>10. PICK r : r = roots'
    OBVIOUS
  <2>11. r = IF p = Top THEN [short EXCEPT ![n] = e] ELSE short
    BY <1>7, <1>12, <2>10
  <2>12. n \in Names
    BY <1>12 DEF MayGo
  <2>13. short \in [Names -> Places] /\ \A m \in Names : short[m] = Find(left, <<Top, m>>)
    BY <1>6 DEF ShortListed
  <2>14. r \in [Names -> Places]
    BY <1>3, <2>11, <2>13 DEF Places
  <2>15. ASSUME NEW m \in Names PROVE r[m] = Find(u, <<Top, m>>)
    <3>1. PICK k \in Keys : k = <<Top, m>>
      BY DEF Keys
    <3>2. Find(u, k) = IF k = key THEN e ELSE Find(left, k)
      BY <1>3, <2>2, <2>3, FindPut
    <3>3. k = key <=> (p = Top /\ m = n)
      BY <2>1, <3>1
    <3>4. r[m] = IF p = Top /\ m = n THEN e ELSE short[m]
      BY <2>11, <2>12, <2>13
    <3>5. QED
      BY <2>13, <3>1, <3>2, <3>3, <3>4
  <2>16. ShortListed(r, u)
    BY <2>14, <2>15 DEF ShortListed
  <2>17. u = index'
    BY <1>7, <1>12, <2>1, <2>2
  <2>18. QED
    BY <1>8, <2>9, <2>10, <2>16, <2>17
<1>13. QED
  BY <1>11, <1>12

(* The tree and the indexes after a death                                    *)
LEMMA Killed ==
  ASSUME IInv, NEW e \in Entities, Kill(e)
  PROVE  /\ dead' \subseteq Entities /\ living' \cap dead' = {}
         /\ Shape(living', parent', name')
         /\ Listed(index', living', parent', name') /\ ShortListed(roots', index')
<1>1. PICK gone : gone = Below(e)
  OBVIOUS
<1>2. e \in living /\ e \in Entities
  BY DEF Kill
<1>3. gone \subseteq living /\ e \in gone /\ \A d \in living \ gone : parent[d] \notin gone
  BY <1>1, <1>2, BelowIs DEF IInv
<1>4. PICK alive \in {living}, par \in {parent}, nam \in {name} :
        alive = living /\ par = parent /\ nam = name
  OBVIOUS
<1>5. PICK par2 \in {parent'}, nam2 \in {name'} : par2 = parent' /\ nam2 = name'
  OBVIOUS
<1>6. /\ living' = alive \ gone /\ dead' = dead \cup gone
      /\ par2 = [d \in Entities |-> IF d \in gone THEN Top ELSE par[d]]
      /\ nam2 = [d \in Entities |-> IF d \in gone THEN NoName ELSE nam[d]]
      /\ index' = Unregister(index, gone) /\ roots' = UnregisterRoots(gone)
  BY <1>1, <1>4, <1>5 DEF Kill
<1>7. /\ Shape(alive, par, nam) /\ gone \in SUBSET alive /\ gone # {}
      /\ \A d \in alive \ gone : par[d] \notin gone
  BY <1>3, <1>4 DEF IInv
<1>8. /\ Shape(alive \ gone, par2, nam2)
      /\ \A d \in alive \ gone : par2[d] = par[d] /\ nam2[d] = nam[d]
  BY <1>6, <1>7, ShapeShrunk
<1>9. gone \in SUBSET Entities
  BY <1>7 DEF Shape
<1>10. Listed(index', alive \ gone, par, nam) /\ ShortListed(roots', index')
  BY <1>4, <1>6, <1>9, IndexTrimmed
<1>11. Listings(alive \ gone, par2, nam2) = Listings(alive \ gone, par, nam)
  <2>1. \A d \in alive \ gone : EntryOf(par2, nam2, d) = EntryOf(par, nam, d)
    BY <1>8 DEF EntryOf
  <2>2. QED
    BY <1>8, <2>1 DEF Listings
<1>12. Listed(index', alive \ gone, par2, nam2)
  BY <1>10, <1>11 DEF Listed
<1>13. dead' \subseteq Entities /\ living' \cap dead' = {}
  BY <1>4, <1>6, <1>9 DEF IInv
<1>14. QED
  BY <1>5, <1>6, <1>8, <1>10, <1>12, <1>13

(* A new entity is under no other and has no name.                           *)
LEMMA Born ==
  ASSUME IInv, NEW e \in Entities, New(e)
  PROVE  IInv'
<1>1. e \notin living \cup dead /\ living' = living \cup {e}
      /\ UNCHANGED <<dead, parent, name, index, roots>>
  BY DEF New, Newest
<1>2. name[e] = NoName /\ parent[e] = Top
  BY <1>1 DEF IInv, Shape
<1>3. Shape(living', parent', name')
  BY <1>1, <1>2 DEF IInv, Shape
<1>4. Listings(living', parent', name') = Listings(living, parent, name)
  BY <1>1, <1>2 DEF Listings
<1>5. Listed(index', living', parent', name')
  BY <1>1, <1>4 DEF IInv, Listed
<1>6. dead' \subseteq Entities /\ living' \cap dead' = {} /\ ShortListed(roots', index')
  BY <1>1 DEF IInv
<1>7. QED
  BY <1>3, <1>5, <1>6 DEF IInv

(* The invariant holds at first.                                             *)
LEMMA Starts == Init => IInv
<1>1. SUFFICES ASSUME Init PROVE IInv
  OBVIOUS
<1>2. Shape(living, parent, name)
  <2>1. PICK par : par = parent
    OBVIOUS
  <2>2. par \in Parents /\ \A d \in Entities : par[d] = Top
    BY <1>1, <2>1 DEF Init, Parents, Places
  <2>3. Rooted(par)
    BY <2>2, ReachStep DEF Rooted
  <2>4. QED
    BY <1>1, <2>1, <2>2, <2>3 DEF Init, Shape
<1>3. PICK t : t = index
  OBVIOUS
<1>4. /\ t = [slots |-> [s \in {} |-> Empty], size |-> 0, count |-> 0, deleted |-> 0]
  BY <1>1, <1>3 DEF Init
<1>5. 0..t.size - 1 = {} /\ t.size = 0 /\ t.count = 0 /\ t.deleted = 0
  BY <1>4
<1>6. t \in IndexOf(t.size)
  BY <1>4, <1>5 DEF IndexOf
<1>7. Sound(t)
  <2>1. Occupied(t) = {} /\ Marked(t) = {}
    BY <1>5 DEF Occupied, Marked
  <2>2. Counted(t)
    BY <1>5, <2>1, FS_EmptySet DEF Counted
  <2>3. Reached(t)
    BY <1>5 DEF Reached
  <2>4. QED
    BY <1>5, <1>6, <2>2, <2>3 DEF Sound, Roomy
<1>8. Contents(t) = {} /\ Listings(living, parent, name) = {}
  BY <1>1, <1>5 DEF Contents, Listings, Init
<1>9. ShortListed(roots, index)
  BY <1>1, <1>3, <1>5 DEF Init, ShortListed, Places, Find
<1>10. QED
  BY <1>1, <1>2, <1>3, <1>7, <1>8, <1>9 DEF Init, IInv, Listed

(* Every step keeps the invariant.                                           *)
LEMMA Keeps == IInv /\ [Next]_vars => IInv'
<1>1. SUFFICES ASSUME IInv, [Next]_vars PROVE IInv'
  OBVIOUS
<1>2. CASE UNCHANGED vars
  BY <1>1, <1>2 DEF vars, IInv
<1>3. CASE Next
  <2>1. PICK e \in Entities :
          \/ New(e) \/ Kill(e)
          \/ \E n \in Names \cup {NoName} : SetName(e, n)
          \/ \E p \in Entities \cup {Top} : SetParent(e, p)
          \/ \E p \in Entities \cup {Top}, n \in Names : NewNamed(e, p, n)
    BY <1>3 DEF Next
  <2>2. CASE New(e)
    BY <1>1, <2>2, Born
  <2>3. CASE Kill(e)
    BY <1>1, <2>3, Killed DEF IInv
  <2>4. ASSUME NEW p, NEW n, MayGo(e, p, n), Relocate(e, p, n) PROVE IInv'
    BY <1>1, <2>4, TreeMoved, IndexMoved DEF IInv
  <2>5. CASE \E n \in Names \cup {NoName} : SetName(e, n)
    BY <1>1, <2>4, <2>5, Movers
  <2>6. CASE \E p \in Entities \cup {Top} : SetParent(e, p)
    BY <1>1, <2>4, <2>6, Movers
  <2>7. CASE \E p \in Entities \cup {Top}, n \in Names : NewNamed(e, p, n)
    BY <1>1, <2>4, <2>7, Movers
  <2>8. QED
    BY <2>1, <2>2, <2>3, <2>5, <2>6, <2>7
<1>4. QED
  BY <1>1, <1>2, <1>3

(* The invariant holds in every state.                                       *)
LEMMA Always == Spec => []IInv
BY Starts, Keeps, PTL DEF Spec

-----------------------------------------------------------------------------
(* Theorems. *)

(* The state has its types in every behaviour.                               *)
THEOREM TypeCorrect == Spec => []TypeOK
<1>1. ASSUME IInv PROVE TypeOK
  <2>1. PICK t : t = index
    OBVIOUS
  <2>2. t \in IndexOf(t.size) /\ t.size \in Nat
    BY <1>1, <2>1 DEF IInv, Listed, Sound
  <2>3. DOMAIN t.slots = 0..t.size - 1 /\ \A s \in 0..t.size - 1 : t.slots[s] \in Slots
    BY <2>2 DEF IndexOf
  <2>4. Range(t.slots) \subseteq Entries \cup {Empty, Deleted}
    BY <2>3 DEF Range, Slots
  <2>5. QED
    BY <1>1, <2>1, <2>2, <2>3, <2>4 DEF TypeOK, IInv, Shape, ShortListed, Parents, Places
<1>2. QED
  BY <1>1, Always, PTL

(* The counters of the index are right and some slot is empty, for every hash   *)
(* and number of entities: a probe for a name that is not there comes to an   *)
(* end (ecs_name_index_find has no other way out of its loop).               *)
THEOREM ProbesAlwaysEnd == Spec => []ProbesEnd
<1>1. ASSUME IInv PROVE ProbesEnd
  <2>1. PICK t : t = index
    OBVIOUS
  <2>2. Sound(t)
    BY <1>1, <2>1 DEF IInv, Listed
  <2>3. DOMAIN t.slots = 0..t.size - 1
    BY <2>2 DEF Sound, IndexOf
  <2>4. t.size # 0 => \E s \in 0..t.size - 1 : t.slots[s] = Empty
    BY <2>2, EmptyLeft
  <2>5. {s \in DOMAIN t.slots : t.slots[s] = Deleted} = Marked(t)
        /\ {s \in DOMAIN t.slots : t.slots[s] \in Entries} = Occupied(t)
    BY <2>3 DEF Marked, Occupied
  <2>6. QED
    BY <2>1, <2>2, <2>3, <2>4, <2>5 DEF ProbesEnd, Sound, Counted
<1>2. QED
  BY <1>1, Always, PTL

(* Each named entity alive is found by a probe, nothing else is in the index,   *)
(* and the short index agrees, whatever was renamed, moved or killed before.  *)
THEOREM IndexIsTheTree == Spec => []IndexExact
<1>1. ASSUME IInv PROVE IndexExact
  <2>1. PICK t \in {index}, alive \in {living}, par \in {parent}, nam \in {name} :
          t = index /\ alive = living /\ par = parent /\ nam = name
    OBVIOUS
  <2>2. Listed(t, alive, par, nam) /\ Shape(alive, par, nam)
    BY <1>1, <2>1 DEF IInv
  <2>3. ASSUME NEW e \in alive, nam[e] # NoName PROVE Find(t, <<par[e], nam[e]>>) = e
    <3>1. PICK key \in Keys : key = <<par[e], nam[e]>>
      BY <2>2, <2>3 DEF Shape, Keys, Parents, Places
    <3>2. \A d \in alive : key = <<par[d], nam[d]>> => Find(t, key) = d
      BY <2>2, FindTells
    <3>3. QED
      BY <3>1, <3>2
  <2>4. DOMAIN t.slots = 0..t.size - 1
    BY <2>2 DEF Listed, Sound, IndexOf
  <2>5. ASSUME NEW s \in DOMAIN t.slots, t.slots[s] \in Entries
        PROVE  /\ t.slots[s].entity \in alive
               /\ t.slots[s].key = <<par[t.slots[s].entity], nam[t.slots[s].entity]>>
    <3>1. t.slots[s] \in Listings(alive, par, nam)
      BY <2>2, <2>4, <2>5 DEF Listed, Contents
    <3>2. PICK d \in alive : t.slots[s] = EntryOf(par, nam, d)
      BY <3>1 DEF Listings
    <3>3. QED
      BY <3>2 DEF EntryOf
  <2>6. \A n \in Names : roots[n] = Find(index, <<Top, n>>)
    BY <1>1 DEF IInv, ShortListed
  <2>7. QED
    BY <2>1, <2>3, <2>5, <2>6 DEF IndexExact
<1>2. QED
  BY <1>1, Always, PTL

-----------------------------------------------------------------------------
(* Names implements NameTree. *)

(* The lines of the tree are those of Names.                                 *)
LEMMA SameLines ==
  ASSUME NEW x
  PROVE  Tree!Line(x) = Line(x) /\ Tree!Below(x) = Below(x)
<1>1. ASSUME NEW y PROVE Tree!Line(y) = Line(y)
  BY DEF Tree!Line, Line, Tree!Top, Top, Tree!Cardinality, Cardinality, Tree!IsFiniteSet, IsFiniteSet
<1>2. QED
  BY <1>1 DEF Tree!Below, Below

(* All the lookups together are the directory of the tree.                   *)
LEMMA LookupIs ==
  ASSUME NEW alive, NEW par, NEW nam, NEW t, Listed(t, alive, par, nam)
  PROVE  [k \in Keys |-> Find(t, k)] = Tree!Directory(alive, par, nam)
<1> DEFINE Who(k) == IF \E d \in alive : <<par[d], nam[d]>> = k
                     THEN CHOOSE d \in alive : <<par[d], nam[d]>> = k ELSE Top
<1>1. ASSUME NEW k \in Keys PROVE Find(t, k) = Who(k)
  <2>1. PICK f : f = Find(t, k)
    OBVIOUS
  <2>2. /\ f # Top => f \in alive /\ k = <<par[f], nam[f]>>
        /\ \A d \in alive : k = <<par[d], nam[d]>> => f = d
    BY <2>1, FindTells
  <2>3. CASE \E d \in alive : <<par[d], nam[d]>> = k
    <3>1. Who(k) \in alive /\ <<par[Who(k)], nam[Who(k)]>> = k
      BY <2>3
    <3>2. QED
      BY <2>1, <2>2, <3>1
  <2>4. CASE ~\E d \in alive : <<par[d], nam[d]>> = k
    BY <2>1, <2>2, <2>4
  <2>5. QED
    BY <2>3, <2>4
<1>2. Tree!Directory(alive, par, nam) = [k \in Keys |-> Who(k)]
  BY DEF Tree!Directory, Tree!Keys, Tree!Top, Keys, Top
<1>3. QED
  BY <1>1, <1>2

(* The first state of Names is one of the tree.                              *)
LEMMA TreeStarts == Init => Tree!Init
<1>1. ASSUME Init PROVE [k \in Keys |-> Find(index, k)] = [k \in Keys |-> Top]
  BY <1>1 DEF Init, Find
<1>2. QED
  BY <1>1 DEF Init, Tree!Init, Tree!Keys, Keys, Tree!Top, Top, Tree!NoName, NoName

(* A move of Names is one of the tree.                                       *)
LEMMA TreePuts ==
  ASSUME IInv, NEW e, NEW p, NEW n, MayGo(e, p, n), Relocate(e, p, n)
  PROVE  Tree!Put(e, p, n)
<1>1. Tree!Line(p) = Line(p) /\ \A v : Tree!Below(v) = Below(v)
  BY SameLines
<1>2. Tree!Occupant(e, p, n) = Victim(e, p, n)
  <2>1. CASE n = NoName
    BY <2>1 DEF Tree!Occupant, Victim, Tree!NoName, NoName, Tree!Top, Top
  <2>2. CASE n # NoName
    <3>1. <<p, n>> \in Keys
      BY <2>2 DEF MayGo, Keys, IInv, Shape
    <3>2. [k \in Keys |-> Find(index, k)][<<p, n>>] = Find(index, <<p, n>>)
      BY <3>1
    <3>3. QED
      BY <2>2, <3>2 DEF Tree!Occupant, Victim, Tree!NoName, NoName, Tree!Top, Top
  <2>3. QED
    BY <2>1, <2>2
<1>3. PICK gone : gone = Gone(e, p, n)
  OBVIOUS
<1>4. gone = IF Tree!Occupant(e, p, n) = Tree!Top THEN {} ELSE Tree!Below(Tree!Occupant(e, p, n))
  BY <1>1, <1>2, <1>3 DEF Gone, Tree!Top, Top
<1>5. {e, p} \cap gone = {} /\ e \notin Tree!Line(p) /\ p \in living \cup {Top}
  BY <1>1, <1>3, GivingWay DEF MayGo
<1>6. /\ living' = (living \cup {e}) \ gone
      /\ parent' = [d \in Entities |-> IF d = e THEN p ELSE IF d \in gone THEN Top ELSE parent[d]]
      /\ name' = [d \in Entities |-> IF d = e THEN n ELSE IF d \in gone THEN NoName ELSE name[d]]
  BY <1>3 DEF Relocate, Gone
<1>7. [k \in Keys |-> Find(index, k)]' = Tree!Directory(living', parent', name')
  <2>1. PICK alive \in {living'}, par \in {parent'}, nam \in {name'}, t \in {index'} :
          alive = living' /\ par = parent' /\ nam = name' /\ t = index'
    OBVIOUS
  <2>2. Listed(t, alive, par, nam)
    BY <2>1, IndexMoved
  <2>3. [k \in Keys |-> Find(t, k)] = Tree!Directory(alive, par, nam)
    BY <2>2, LookupIs
  <2>4. QED
    BY <2>1, <2>3
<1>8. QED
  BY <1>4, <1>5, <1>6, <1>7 DEF Tree!Put, Tree!Top, Top, Tree!NoName, NoName

(* A death of Names is one of the tree.                                      *)
LEMMA TreeKills ==
  ASSUME IInv, NEW e \in Entities, Kill(e)
  PROVE  Tree!Kill(e)
<1>1. Tree!Below(e) = Below(e)
  BY SameLines
<1>2. [k \in Keys |-> Find(index, k)]' = Tree!Directory(living', parent', name')
  <2>1. PICK alive \in {living'}, par \in {parent'}, nam \in {name'}, t \in {index'} :
          alive = living' /\ par = parent' /\ nam = name' /\ t = index'
    OBVIOUS
  <2>2. Listed(t, alive, par, nam)
    BY <2>1, Killed
  <2>3. [k \in Keys |-> Find(t, k)] = Tree!Directory(alive, par, nam)
    BY <2>2, LookupIs
  <2>4. QED
    BY <2>1, <2>3
<1>3. QED
  BY <1>1, <1>2 DEF Kill, Tree!Kill, Tree!Top, Top, Tree!NoName, NoName

(* A new entity is put at the top without a name.                            *)
LEMMA TreeGrows ==
  ASSUME IInv, NEW e \in Entities, New(e)
  PROVE  Tree!Put(e, Top, NoName)
<1>1. e \notin living \cup dead /\ living' = living \cup {e}
      /\ UNCHANGED <<dead, parent, name, index, roots>>
  BY DEF New, Newest
<1>2. parent[e] = Top /\ name[e] = NoName /\ parent \in Parents
      /\ name \in [Entities -> Names \cup {NoName}]
  BY <1>1 DEF IInv, Shape
<1>3. e \notin Tree!Line(Top)
  <2>1. Tree!Line(Top) = Line(Top)
    BY SameLines
  <2>2. e \notin Line(Top)
    BY <1>1, NotAbove
  <2>3. QED
    BY <2>1, <2>2
<1>4. Tree!Occupant(e, Top, NoName) = Tree!Top
  BY DEF Tree!Occupant, Tree!NoName, NoName
<1>5. /\ parent' = [d \in Entities |-> IF d = e THEN Top ELSE IF d \in {} THEN Top ELSE parent[d]]
      /\ name' = [d \in Entities |-> IF d = e THEN NoName ELSE IF d \in {} THEN NoName ELSE name[d]]
      /\ living' = (living \cup {e}) \ {}
  BY <1>1, <1>2 DEF Parents
<1>6. [k \in Keys |-> Find(index, k)]' = Tree!Directory(living', parent', name')
  <2>1. PICK alive \in {living'}, par \in {parent'}, nam \in {name'}, t \in {index'} :
          alive = living' /\ par = parent' /\ nam = name' /\ t = index'
    OBVIOUS
  <2>2. Listed(t, alive, par, nam)
    BY <2>1, Born DEF IInv
  <2>3. [k \in Keys |-> Find(t, k)] = Tree!Directory(alive, par, nam)
    BY <2>2, LookupIs
  <2>4. QED
    BY <2>1, <2>3
<1>7. {e, Top} \cap {} = {} /\ Top \in living \cup {Top}
  OBVIOUS
<1>8. QED
  BY <1>3, <1>4, <1>5, <1>6, <1>7 DEF Tree!Put, Tree!Top, Top, Tree!NoName, NoName

(* Every step of Names, the whole of a handler with its probes, marks and       *)
(* growth, is a step of the tree that NameTree promises, or changes nothing of *)
(* it: a lookup finds the child that has the name, and nothing else.         *)
THEOREM NamesImplementTheTree == Spec => ImplementsTree
<1>1. ASSUME IInv, [Next]_vars PROVE [Tree!Next]_(Tree!treeVars)
  <2>1. CASE UNCHANGED vars
    BY <2>1 DEF vars, Tree!treeVars
  <2>2. CASE Next
    <3>1. PICK e \in Entities :
            \/ New(e) \/ Kill(e)
            \/ \E n \in Names \cup {NoName} : SetName(e, n)
            \/ \E p \in Entities \cup {Top} : SetParent(e, p)
            \/ \E p \in Entities \cup {Top}, n \in Names : NewNamed(e, p, n)
      BY <2>2 DEF Next
    <3>2. ASSUME NEW p, NEW n, MayGo(e, p, n), Tree!Put(e, p, n) PROVE Tree!Next
      <4>1. p \in Entities \cup {Tree!Top} /\ n \in Names \cup {Tree!NoName}
        BY <1>1, <3>2 DEF MayGo, IInv, Shape, Tree!Top, Top, Tree!NoName, NoName
      <4>2. QED
        BY <3>2, <4>1 DEF Tree!Next
    <3>3. ASSUME NEW p, NEW n, MayGo(e, p, n), Relocate(e, p, n) PROVE Tree!Next
      BY <1>1, <3>2, <3>3, TreePuts
    <3>4. CASE New(e)
      <4>1. Tree!Put(e, Top, NoName)
        BY <1>1, <3>4, TreeGrows
      <4>2. Top \in Entities \cup {Tree!Top} /\ NoName \in Names \cup {Tree!NoName}
        BY DEF Tree!Top, Top, Tree!NoName, NoName
      <4>3. QED
        BY <4>1, <4>2 DEF Tree!Next
    <3>5. CASE Kill(e)
      BY <1>1, <3>5, TreeKills DEF Tree!Next
    <3>6. CASE \E n \in Names \cup {NoName} : SetName(e, n)
      BY <1>1, <3>3, <3>6, Movers
    <3>7. CASE \E p \in Entities \cup {Top} : SetParent(e, p)
      BY <1>1, <3>3, <3>7, Movers
    <3>8. CASE \E p \in Entities \cup {Top}, n \in Names : NewNamed(e, p, n)
      BY <1>1, <3>3, <3>8, Movers
    <3>9. QED
      BY <3>1, <3>4, <3>5, <3>6, <3>7, <3>8
  <2>3. QED
    BY <1>1, <2>1, <2>2
<1>2. QED
  BY <1>1, TreeStarts, Always, PTL DEF Spec, ImplementsTree, Tree!Spec
===============================================================================
