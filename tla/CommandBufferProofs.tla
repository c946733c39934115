------------------------- MODULE CommandBufferProofs -------------------------
(* Proofs about CommandBuffer.  First the tables and the forms of records,    *)
(* which hold whatever the program does; then, for programs that avoid the    *)
(* disagreements named in the module, that a scope does what its calls do     *)
(* when each is made alone.                                                   *)
EXTENDS CommandBuffer, RecursionLemmas

-----------------------------------------------------------------------------
(* Rows of a table. *)

(* A table holds the entities of a set, each once, and has room for them.    *)
Holds(t, S) ==
  /\ t.rows \in Seq(Entities) /\ t.capacity \in Nat \ {0} /\ Len(t.rows) <= t.capacity
  /\ IsInjective(t.rows) /\ ToSet(t.rows) = S
  /\ t = [rows |-> t.rows, capacity |-> t.capacity]

(* An entity that is not in a table enters it at the end.                    *)
LEMMA GrownHolds ==
  ASSUME NEW t, NEW S, Holds(t, S), NEW e \in Entities, e \notin S
  PROVE  /\ Holds(Grown(t, e), S \cup {e})
         /\ \A i \in DOMAIN t.rows : Grown(t, e).rows[i] = t.rows[i]
         /\ Len(t.rows) <= Len(Grown(t, e).rows)
<1> DEFINE rows == t.rows
           n == Len(rows)
           g == Grown(t, e)
<1>1. rows \in Seq(Entities) /\ n \in Nat /\ DOMAIN rows = 1..n /\ t.capacity \in Nat \ {0}
      /\ n <= t.capacity /\ IsInjective(rows) /\ ToSet(rows) = S
  BY DEF Holds
<1>2. g.rows = Append(rows, e) /\ g = [rows |-> g.rows, capacity |-> g.capacity]
      /\ g.capacity = IF n < t.capacity THEN t.capacity ELSE 2 * t.capacity
  BY DEF Grown
<1> HIDE DEF g, rows
<1>3. g.rows \in Seq(Entities) /\ Len(g.rows) = n + 1 /\ DOMAIN g.rows = 1..(n + 1)
      /\ g.rows[n + 1] = e /\ \A i \in 1..n : g.rows[i] = rows[i]
  BY <1>1, <1>2
<1>4. g.capacity \in Nat \ {0} /\ n + 1 <= g.capacity
  BY <1>1, <1>2
<1>5. \A i \in 1..n : rows[i] # e
  BY <1>1 DEF ToSet
<1>6. IsInjective(g.rows)
  BY <1>1, <1>3, <1>5 DEF IsInjective
<1>7. ToSet(g.rows) = S \cup {e}
  <2>1. \A x \in ToSet(g.rows) : x \in S \cup {e}
    BY <1>1, <1>3 DEF ToSet
  <2>2. e \in ToSet(g.rows)
    BY <1>1, <1>3 DEF ToSet
  <2>3. \A x \in S : x \in ToSet(g.rows)
    BY <1>1, <1>3 DEF ToSet
  <2>4. QED
    BY <2>1, <2>2, <2>3
<1>8. QED
  BY <1>1, <1>2, <1>3, <1>4, <1>6, <1>7 DEF Holds, rows, g

(* The row of an entity is one where it stands.                              *)
LEMMA RowHolds ==
  ASSUME NEW t, NEW S, Holds(t, S), NEW e \in S
  PROVE  RowOf(t, e) \in 1..Len(t.rows) /\ t.rows[RowOf(t, e)] = e
<1>1. \E i \in DOMAIN t.rows : t.rows[i] = e
  BY DEF Holds, ToSet
<1>2. RowOf(t, e) \in DOMAIN t.rows /\ t.rows[RowOf(t, e)] = e
  BY <1>1 DEF RowOf
<1>3. QED
  BY <1>2 DEF Holds

(* An entity that is in a table leaves it, and the last one takes its row.   *)
LEMMA ShrunkHolds ==
  ASSUME NEW t, NEW S, Holds(t, S), NEW e \in S
  PROVE  Holds(Shrunk(t, e), S \ {e})
<1> DEFINE rows == t.rows
           n == Len(rows)
           r == RowOf(t, e)
           s == Shrunk(t, e)
<1>1. rows \in Seq(Entities) /\ n \in Nat /\ DOMAIN rows = 1..n /\ t.capacity \in Nat \ {0}
      /\ n <= t.capacity /\ IsInjective(rows) /\ ToSet(rows) = S
      /\ t = [rows |-> rows, capacity |-> t.capacity]
  BY DEF Holds
<1>2. r \in 1..n /\ rows[r] = e
  BY RowHolds
<1>3. s = [rows |-> Front([rows EXCEPT ![r] = Last(rows)]), capacity |-> t.capacity]
  BY <1>1 DEF Shrunk
<1> HIDE DEF rows, r, s
<1> DEFINE moved == [rows EXCEPT ![r] = Last(rows)]
<1>4. moved \in Seq(Entities) /\ Len(moved) = n
      /\ \A i \in 1..n : moved[i] = IF i = r THEN rows[n] ELSE rows[i]
  BY <1>1, <1>2 DEF Last
<1> HIDE DEF moved
<1>5. Front(moved) \in Seq(Entities) /\ Len(Front(moved)) = n - 1
      /\ DOMAIN Front(moved) = 1..(n - 1)
      /\ \A i \in 1..(n - 1) : Front(moved)[i] = IF i = r THEN rows[n] ELSE rows[i]
  BY <1>1, <1>2, <1>4 DEF Front
<1>6. s.rows = Front(moved) /\ s.capacity = t.capacity
  BY <1>3 DEF moved
<1>7. IsInjective(s.rows)
  <2>1. SUFFICES ASSUME NEW i \in 1..(n - 1), NEW j \in 1..(n - 1), s.rows[i] = s.rows[j]
                 PROVE i = j
    BY <1>5, <1>6 DEF IsInjective
  <2>2. n \in 1..n /\ i \in 1..n /\ j \in 1..n /\ i # n /\ j # n
    BY <1>1, <1>2
  <2>3. \A a, b \in 1..n : rows[a] = rows[b] => a = b
    BY <1>1 DEF IsInjective
  <2>4. QED
    BY <1>5, <1>6, <2>1, <2>2, <2>3
<1>8. ToSet(s.rows) = S \ {e}
  <2>1. \A a, b \in 1..n : rows[a] = rows[b] => a = b
    BY <1>1 DEF IsInjective
  <2>2. ASSUME NEW x \in ToSet(s.rows) PROVE x \in S \ {e}
    <3>1. PICK i \in 1..(n - 1) : x = s.rows[i]
      BY <1>5, <1>6 DEF ToSet
    <3>2. n \in 1..n /\ i \in 1..n /\ i # n
      BY <1>1, <1>2
    <3>3. PICK a \in 1..n : x = rows[a] /\ a # r
      BY <1>5, <1>6, <3>1, <3>2
    <3>4. rows[a] # e
      BY <1>2, <2>1, <3>3
    <3>5. QED
      BY <1>1, <3>3, <3>4 DEF ToSet
  <2>3. ASSUME NEW x \in S, x # e PROVE x \in ToSet(s.rows)
    <3>1. PICK a \in 1..n : x = rows[a]
      BY <1>1 DEF ToSet
    <3>2. a # r
      BY <1>2, <2>3, <3>1
    <3>3. CASE a = n
      <4>1. r \in 1..(n - 1) /\ s.rows[r] = x
        BY <1>2, <1>5, <1>6, <3>1, <3>2, <3>3
      <4>2. QED
        BY <1>5, <1>6, <4>1 DEF ToSet
    <3>4. CASE a # n
      <4>1. a \in 1..(n - 1) /\ s.rows[a] = x
        BY <1>5, <1>6, <3>1, <3>2, <3>4
      <4>2. QED
        BY <1>5, <1>6, <4>1 DEF ToSet
    <3>5. QED
      BY <3>3, <3>4
  <2>4. QED
    BY <2>2, <2>3
<1>9. Len(s.rows) <= s.capacity
  BY <1>1, <1>5, <1>6
<1>10. QED
  BY <1>1, <1>3, <1>5, <1>6, <1>7, <1>8, <1>9 DEF Holds, s

-----------------------------------------------------------------------------
(* Worlds. *)

InTable(es, type) == {e \in Entities : es[e].alive /\ TypeOf(es[e]) = type}

(* Each living entity stands in the table of its type.                       *)
Stored(es, ts) ==
  /\ es \in [Entities -> Contents]
  /\ \A type \in DOMAIN ts : Holds(ts[type], InTable(es, type))
  /\ \A e \in Entities : es[e].alive => TypeOf(es[e]) \in DOMAIN ts

(* An entity that was in no table enters that of its type.                   *)
LEMMA EnteredStored ==
  ASSUME NEW es, NEW ts, Stored(es, ts), NEW e \in Entities, ~es[e].alive,
         NEW x \in Contents, x.alive
  PROVE  Stored([es EXCEPT ![e] = x], Entered(ts, TypeOf(x), e))
<1> DEFINE after == [es EXCEPT ![e] = x]
           type == TypeOf(x)
           new == Entered(ts, type, e)
<1>1. after \in [Entities -> Contents] /\ after[e] = x
      /\ \A y \in Entities : y # e => after[y] = es[y]
  BY DEF Stored
<1>2. DOMAIN new = DOMAIN ts \cup {type} /\ new[type] = Grown(TableOf(ts, type), e)
      /\ \A u \in DOMAIN ts : u # type => new[u] = ts[u]
  BY DEF Entered
<1> HIDE DEF after, type, new
<1>3. Holds(TableOf(ts, type), InTable(es, type)) /\ e \notin InTable(es, type)
  <2>1. e \notin InTable(es, type)
    BY DEF InTable
  <2>2. CASE type \in DOMAIN ts
    BY <2>1, <2>2 DEF TableOf, Stored
  <2>3. CASE type \notin DOMAIN ts
    <3>1. InTable(es, type) = {}
      BY <2>3 DEF InTable, Stored
    <3>2. TableOf(ts, type) = [rows |-> <<>>, capacity |-> 1]
      BY <2>3 DEF TableOf
    <3>3. Holds([rows |-> <<>>, capacity |-> 1], {})
      BY DEF Holds, IsInjective, ToSet
    <3>4. QED
      BY <2>1, <3>1, <3>2, <3>3
  <2>4. QED
    BY <2>2, <2>3
<1>4. Holds(new[type], InTable(es, type) \cup {e})
  BY <1>2, <1>3, GrownHolds
<1>5. InTable(after, type) = InTable(es, type) \cup {e}
      /\ \A u : u # type => InTable(after, u) = InTable(es, u)
  BY <1>1 DEF InTable, type
<1>6. ASSUME NEW u \in DOMAIN new PROVE Holds(new[u], InTable(after, u))
  BY <1>2, <1>4, <1>5 DEF Stored
<1>7. ASSUME NEW y \in Entities, after[y].alive PROVE TypeOf(after[y]) \in DOMAIN new
  <2>1. CASE y = e
    BY <1>1, <1>2, <2>1 DEF type
  <2>2. CASE y # e
    BY <1>1, <1>2, <1>7, <2>2 DEF Stored
  <2>3. QED
    BY <2>1, <2>2
<1>8. QED
  BY <1>1, <1>6, <1>7 DEF Stored, after, type, new

(* An entity that leaves its table is in none.                               *)
LEMMA LeftStored ==
  ASSUME NEW es, NEW ts, Stored(es, ts), NEW e \in Entities, es[e].alive,
         NEW x \in Contents, ~x.alive
  PROVE  Stored([es EXCEPT ![e] = x], Left(ts, TypeOf(es[e]), e))
<1> DEFINE after == [es EXCEPT ![e] = x]
           type == TypeOf(es[e])
           new == Left(ts, type, e)
<1>1. after \in [Entities -> Contents] /\ after[e] = x
      /\ \A y \in Entities : y # e => after[y] = es[y]
  BY DEF Stored
<1>2. type \in DOMAIN ts
  BY DEF Stored
<1>3. DOMAIN new = DOMAIN ts /\ new[type] = Shrunk(ts[type], e)
      /\ \A u \in DOMAIN ts : u # type => new[u] = ts[u]
  BY <1>2 DEF Left
<1>4. Holds(ts[type], InTable(es, type)) /\ e \in InTable(es, type)
  BY <1>2 DEF Stored, InTable
<1>5. \A u : InTable(after, u) = InTable(es, u) \ {e}
  BY <1>1 DEF InTable
<1>6. \A u : u # type => e \notin InTable(es, u)
  BY DEF InTable
<1> HIDE DEF after, type, new
<1>7. Holds(new[type], InTable(es, type) \ {e})
  BY <1>3, <1>4, ShrunkHolds
<1>8. ASSUME NEW u \in DOMAIN new PROVE Holds(new[u], InTable(after, u))
  <2>1. CASE u = type
    BY <1>5, <1>7, <2>1
  <2>2. CASE u # type
    <3>1. InTable(after, u) = InTable(es, u)
      BY <1>5, <1>6, <2>2
    <3>2. QED
      BY <1>3, <2>2, <3>1 DEF Stored
  <2>3. QED
    BY <2>1, <2>2
<1>9. ASSUME NEW y \in Entities, after[y].alive PROVE TypeOf(after[y]) \in DOMAIN new
  BY <1>1, <1>3, <1>9 DEF Stored
<1>10. QED
  BY <1>1, <1>8, <1>9 DEF Stored, after, type, new

(* An entity that moves from one table to another, or is written in place.   *)
LEMMA MigratedStored ==
  ASSUME NEW w, Stored(w.entity, w.table), NEW e \in Entities, w.entity[e].alive,
         NEW x \in Contents, x.alive
  PROVE  /\ Stored(Migrate(w, e, x).entity, Migrate(w, e, x).table)
         /\ Migrate(w, e, x).entity = [w.entity EXCEPT ![e] = x]
<1> DEFINE es == w.entity
           ts == w.table
           from == TypeOf(es[e])
           to == TypeOf(x)
           after == [es EXCEPT ![e] = x]
           m == Migrate(w, e, x)
<1>1. m.entity = after /\ m.table = IF from = to THEN ts ELSE Left(Entered(ts, to, e), from, e)
  BY DEF Migrate
<1>2. after \in [Entities -> Contents] /\ after[e] = x
      /\ (\A y \in Entities : y # e => after[y] = es[y]) /\ from \in DOMAIN ts
      /\ es[e].alive
  BY DEF Stored
<1>3. \A u : InTable(after, u) = (InTable(es, u) \ {e}) \cup (IF u = to THEN {e} ELSE {})
  BY <1>2 DEF InTable
<1>4. \A u : e \in InTable(es, u) <=> u = from
  BY <1>2 DEF InTable
<1> HIDE DEF es, ts, from, to, after, m
<1>5. (\A u \in DOMAIN ts : Holds(ts[u], InTable(es, u)))
      /\ \A y \in Entities : es[y].alive => TypeOf(es[y]) \in DOMAIN ts
  BY DEF Stored, es, ts
<1>6. CASE from = to
  <2>1. \A u : InTable(after, u) = InTable(es, u)
    BY <1>3, <1>4, <1>6
  <2>2. \A y \in Entities : after[y].alive => TypeOf(after[y]) \in DOMAIN ts
    BY <1>2, <1>5, <1>6 DEF to
  <2>3. Stored(after, ts)
    BY <1>2, <1>5, <2>1, <2>2 DEF Stored
  <2>4. QED
    BY <1>1, <1>6, <2>3 DEF m, after, es
<1>7. CASE from # to
  <2> DEFINE mid == Entered(ts, to, e)
             new == Left(mid, from, e)
  <2>1. DOMAIN mid = DOMAIN ts \cup {to} /\ mid[to] = Grown(TableOf(ts, to), e)
        /\ \A u \in DOMAIN ts : u # to => mid[u] = ts[u]
    BY DEF Entered
  <2>2. DOMAIN new = DOMAIN mid /\ new[from] = Shrunk(mid[from], e)
        /\ \A u \in DOMAIN mid : u # from => new[u] = mid[u]
    BY <1>2, <2>1 DEF Left
  <2> HIDE DEF mid, new
  <2>3. Holds(TableOf(ts, to), InTable(es, to))
    <3>1. CASE to \in DOMAIN ts
      BY <1>5, <3>1 DEF TableOf
    <3>2. CASE to \notin DOMAIN ts
      <4>1. InTable(es, to) = {}
        BY <1>5, <3>2 DEF InTable
      <4>2. Holds([rows |-> <<>>, capacity |-> 1], {})
        BY DEF Holds, IsInjective, ToSet
      <4>3. QED
        BY <3>2, <4>1, <4>2 DEF TableOf
    <3>3. QED
      BY <3>1, <3>2
  <2>4. e \notin InTable(es, to) /\ e \in InTable(es, from)
    BY <1>4, <1>7
  <2>5. Holds(mid[to], InTable(es, to) \cup {e})
    BY <2>1, <2>3, <2>4, GrownHolds
  <2>6. Holds(mid[from], InTable(es, from))
    BY <1>2, <1>5, <1>7, <2>1
  <2>7. Holds(new[from], InTable(es, from) \ {e})
    BY <2>2, <2>4, <2>6, ShrunkHolds
  <2>8. ASSUME NEW u \in DOMAIN new PROVE Holds(new[u], InTable(after, u))
    <3>1. CASE u = from
      <4>1. InTable(after, u) = InTable(es, from) \ {e}
        BY <1>3, <1>7, <3>1
      <4>2. QED
        BY <2>7, <3>1, <4>1
    <3>2. CASE u = to
      <4>1. InTable(after, u) = InTable(es, to) \cup {e}
        BY <1>3, <3>2
      <4>2. QED
        BY <1>7, <2>1, <2>2, <2>5, <3>2, <4>1
    <3>3. CASE u # from /\ u # to
      <4>1. InTable(after, u) = InTable(es, u)
        BY <1>3, <1>4, <3>3
      <4>2. new[u] = ts[u] /\ u \in DOMAIN ts
        BY <2>1, <2>2, <3>3
      <4>3. QED
        BY <1>5, <4>1, <4>2
    <3>4. QED
      BY <3>1, <3>2, <3>3
  <2>9. \A y \in Entities : after[y].alive => TypeOf(after[y]) \in DOMAIN new
    BY <1>2, <1>5, <2>1, <2>2 DEF to
  <2>10. Stored(after, new)
    BY <1>2, <2>8, <2>9 DEF Stored
  <2>11. QED
    BY <1>1, <1>7, <2>10 DEF new, mid, m, after, es
<1>8. QED
  BY <1>6, <1>7

-----------------------------------------------------------------------------
(* Lines of bases. *)

Based(es) == \A y \in Entities : es[y].base \in Entities \cup {NoEntity}

(* The one after y on a line *)
Up(es, y) == IF y = NoEntity THEN NoEntity ELSE es[y].base

(* The line of b starts with b and goes from each to its base.               *)
LEMMA LineUp ==
  ASSUME NEW es, Based(es), NEW b \in Entities \cup {NoEntity}
  PROVE  /\ Cardinality(Entities) \in Nat
         /\ Line(es, b) \in [1..Cardinality(Entities) -> Entities \cup {NoEntity}]
         /\ 1 \in DOMAIN Line(es, b) => Line(es, b)[1] = b
         /\ \A n \in DOMAIN Line(es, b) \ {1} : Line(es, b)[n] = Up(es, Line(es, b)[n - 1])
<1> DEFINE X == Entities \cup {NoEntity}
           C == Cardinality(Entities)
           base == [y \in X |-> Up(es, y)]
           IsUp(up) == up = [n \in Nat |-> IF n = 0 THEN b
                              ELSE IF up[n - 1] = NoEntity THEN NoEntity ELSE es[up[n - 1]].base]
<1>1. C \in Nat
  BY CommandsAssumption, FS_CardinalityType
<1>2. base \in [X -> X] /\ b \in X
  BY DEF Based, Up
<1>3. PICK f \in [Nat -> X] : f[0] = b /\ \A n \in Nat \ {0} : f[n] = base[f[n - 1]]
  <2> HIDE DEF base, X
  <2>1. QED
    BY <1>2, IteratedOne
<1>4. \A n \in Nat \ {0} : n - 1 \in Nat /\ f[n - 1] \in X /\ f[n] = Up(es, f[n - 1])
  <2>1. \A y \in X : base[y] = Up(es, y)
    OBVIOUS
  <2> HIDE DEF base, X
  <2>2. \A n \in Nat \ {0} : n - 1 \in Nat /\ f[n - 1] \in X /\ f[n] = base[f[n - 1]]
    BY <1>3
  <2>3. QED
    BY <2>1, <2>2
<1>5. IsUp(f)
  BY <1>3, <1>4 DEF Up
<1>6. ASSUME NEW up, IsUp(up) PROVE up = f
  <2>1. up = [n \in Nat |-> up[n]] /\ up[0] = b /\ \A n \in Nat \ {0} : up[n] = Up(es, up[n - 1])
    BY <1>6 DEF Up
  <2>2. f = [n \in Nat |-> f[n]]
    BY <1>3
  <2>3. \A n \in Nat \ {0} : f[n - 1] = up[n - 1] => f[n] = up[n]
    BY <1>4, <2>1
  <2>4. QED
    BY <1>3, <2>1, <2>2, <2>3, SameIterates
<1>7. Line(es, b) = [n \in 1..C |-> f[n - 1]]
  <2>1. (CHOOSE g : IsUp(g)) = f
    <3> HIDE DEF IsUp
    <3>1. QED
      BY <1>5, <1>6
  <2> DEFINE up == CHOOSE g : IsUp(g)
  <2>2. Line(es, b) = [n \in 1..C |-> up[n - 1]]
    BY DEF Line
  <2>3. up = f
    BY <2>1
  <2> HIDE DEF up
  <2>4. QED
    BY <2>2, <2>3
<1>8. \A n \in 1..C : n - 1 \in Nat
  BY <1>1
<1>9. Line(es, b) \in [1..C -> X]
  BY <1>3, <1>7, <1>8
<1>10. 1 \in 1..C => Line(es, b)[1] = b
  BY <1>3, <1>7
<1>11. ASSUME NEW n \in (1..C) \ {1} PROVE Line(es, b)[n] = Up(es, Line(es, b)[n - 1])
  <2>1. n - 1 \in 1..C /\ n - 1 \in Nat \ {0} /\ (n - 1) - 1 \in Nat
    BY <1>1
  <2>2. Line(es, b)[n] = f[n - 1] /\ Line(es, b)[n - 1] = f[(n - 1) - 1]
    BY <1>7, <2>1
  <2>3. f[n - 1] = Up(es, f[(n - 1) - 1])
    BY <1>4, <2>1
  <2>4. QED
    BY <2>2, <2>3
<1>12. QED
  BY <1>1, <1>9, <1>10, <1>11

(* Those on a line are entities, b the first of them.                        *)
LEMMA AncestorsAre ==
  ASSUME NEW es, Based(es), NEW b \in Entities \cup {NoEntity}
  PROVE  /\ Ancestors(es, b) \subseteq Entities
         /\ b # NoEntity => b \in Ancestors(es, b)
         /\ \A n \in DOMAIN Line(es, b) :
              Line(es, b)[n] # NoEntity => Line(es, b)[n] \in Ancestors(es, b)
<1> DEFINE line == Line(es, b)
<1>1. line \in [1..Cardinality(Entities) -> Entities \cup {NoEntity}]
      /\ (1 \in DOMAIN line => line[1] = b) /\ Cardinality(Entities) \in Nat
  BY LineUp
<1> HIDE DEF line
<1>2. Range(line) \subseteq Entities \cup {NoEntity} /\ \A n \in DOMAIN line : line[n] \in Range(line)
  BY <1>1 DEF Range
<1>3. Ancestors(es, b) = Range(line) \ {NoEntity}
  BY DEF Ancestors, line
<1>4. ASSUME b # NoEntity PROVE b \in Ancestors(es, b)
  <2>1. Cardinality(Entities) # 0
    BY <1>4, CommandsAssumption, FS_EmptySet
  <2>2. 1 \in DOMAIN line
    BY <1>1, <2>1
  <2>3. QED
    BY <1>1, <1>2, <1>3, <1>4, <2>2
<1>5. QED
  BY <1>2, <1>3, <1>4 DEF line

(* Worlds that agree on what the entities of a line inherit from have the     *)
(* same line.                                                                *)
LEMMA SameLine ==
  ASSUME NEW es, NEW fs, Based(es), Based(fs), NEW b \in Entities \cup {NoEntity},
         \A y \in Ancestors(es, b) : fs[y].base = es[y].base
  PROVE  Line(fs, b) = Line(es, b) /\ Ancestors(fs, b) = Ancestors(es, b)
<1> DEFINE line == Line(es, b)
           other == Line(fs, b)
           C == Cardinality(Entities)
           Different == {n \in 1..C : line[n] # other[n]}
<1>1. C \in Nat /\ line \in [1..C -> Entities \cup {NoEntity}]
      /\ other \in [1..C -> Entities \cup {NoEntity}]
      /\ (1 \in 1..C => line[1] = b /\ other[1] = b)
      /\ \A n \in (1..C) \ {1} : line[n] = Up(es, line[n - 1]) /\ other[n] = Up(fs, other[n - 1])
  <2>1. /\ C \in Nat /\ line \in [1..C -> Entities \cup {NoEntity}]
        /\ 1 \in DOMAIN line => line[1] = b
        /\ \A n \in DOMAIN line \ {1} : line[n] = Up(es, line[n - 1])
    BY LineUp
  <2>2. /\ other \in [1..C -> Entities \cup {NoEntity}]
        /\ 1 \in DOMAIN other => other[1] = b
        /\ \A n \in DOMAIN other \ {1} : other[n] = Up(fs, other[n - 1])
    BY LineUp
  <2> HIDE DEF line, other
  <2>3. DOMAIN line = 1..C /\ DOMAIN other = 1..C
    BY <2>1, <2>2
  <2>4. QED
    BY <2>1, <2>2, <2>3
<1>2. \A n \in 1..C : line[n] # NoEntity => line[n] \in Ancestors(es, b)
  <2>1. DOMAIN line = 1..C
    BY <1>1
  <2>2. QED
    BY <2>1, AncestorsAre
<1> HIDE DEF line, other, C
<1>3. Different = {}
  <2>1. SUFFICES ASSUME Different # {} PROVE FALSE
    OBVIOUS
  <2>2. PICK n \in Different : \A m \in Different : n <= m
    <3>1. Different \in SUBSET Nat
      BY <1>1
    <3>2. QED
      BY ONLY <2>1, <3>1, LeastOf
  <2>3. n # 1 /\ n \in 1..C
    BY <1>1, <2>2
  <2>4. n - 1 \in 1..C /\ n - 1 \notin Different
    BY <1>1, <2>2, <2>3
  <2>5. line[n - 1] = other[n - 1]
    BY <2>4
  <2>6. Up(es, line[n - 1]) = Up(fs, line[n - 1])
    BY <1>2, <2>4 DEF Up
  <2>7. line[n] = other[n]
    BY <1>1, <2>3, <2>5, <2>6
  <2>8. QED
    BY <2>2, <2>7
<1>4. other = line
  BY <1>1, <1>3
<1>5. QED
  BY <1>4 DEF Ancestors, line, other

(* Where a component of a line comes from is an entity of the line with it.   *)
LEMMA ProviderIs ==
  ASSUME NEW es, Based(es), NEW b \in Entities \cup {NoEntity}, NEW c,
         \E y \in Ancestors(es, b) : c \in Owned(es[y])
  PROVE  Provider(es, b, c) \in Ancestors(es, b) /\ c \in Owned(es[Provider(es, b, c)])
<1> DEFINE line == Line(es, b)
           places == {n \in DOMAIN line : line[n] # NoEntity /\ c \in Owned(es[line[n]])}
<1>1. DOMAIN line = 1..Cardinality(Entities) /\ Cardinality(Entities) \in Nat
  BY LineUp
<1>2. PICK y : y \in Ancestors(es, b) /\ c \in Owned(es[y])
  OBVIOUS
<1>3. \E n \in DOMAIN line : line[n] = y /\ y # NoEntity
  BY <1>2 DEF Ancestors, Range
<1>4. places # {}
  BY <1>2, <1>3
<1>5. places \in SUBSET Nat
  BY <1>1
<1>6. Min(places) \in places
  <2> HIDE DEF places
  <2>1. QED
    BY <1>4, <1>5, LeastOf
<1>7. Provider(es, b, c) = line[Min(places)]
  BY DEF Provider
<1>8. QED
  BY <1>6, <1>7, AncestorsAre

(* Worlds that agree on the bases and the components of a line take a         *)
(* component of the line from the same entity.                               *)
LEMMA SameProvider ==
  ASSUME NEW es, NEW fs, Based(es), Based(fs), NEW b \in Entities \cup {NoEntity},
         \A y \in Ancestors(es, b) : fs[y].base = es[y].base /\ Owned(fs[y]) = Owned(es[y])
  PROVE  /\ Ancestors(fs, b) = Ancestors(es, b)
         /\ \A c : Provider(fs, b, c) = Provider(es, b, c)
         /\ \A owned : Plan(fs, b, owned) = Plan(es, b, owned)
<1>1. Line(fs, b) = Line(es, b) /\ Ancestors(fs, b) = Ancestors(es, b)
  BY SameLine
<1> DEFINE line == Line(es, b)
<1>2. \A n \in DOMAIN line : line[n] # NoEntity => Owned(fs[line[n]]) = Owned(es[line[n]])
  BY AncestorsAre
<1>3. ASSUME NEW c PROVE Provider(fs, b, c) = Provider(es, b, c)
  <2>1. {n \in DOMAIN line : line[n] # NoEntity /\ c \in Owned(fs[line[n]])}
        = {n \in DOMAIN line : line[n] # NoEntity /\ c \in Owned(es[line[n]])}
    BY <1>2
  <2>2. Provider(fs, b, c)
        = line[Min({n \in DOMAIN line : line[n] # NoEntity /\ c \in Owned(fs[line[n]])})]
    BY <1>1 DEF Provider
  <2>3. QED
    BY <2>1, <2>2 DEF Provider
<1>4. \A owned : Plan(fs, b, owned) = Plan(es, b, owned)
  BY <1>1 DEF Plan
<1>5. QED
  BY <1>1, <1>3, <1>4

-----------------------------------------------------------------------------
(* Recorded commands. *)

(* The commands of a scope, one for each entity.                             *)
Distinct(cs) ==
  cs \in Seq(Commands) /\ \A i, j \in DOMAIN cs : cs[i].entity = cs[j].entity => i = j

LEMMA PlaceIs ==
  ASSUME NEW cs \in Seq(Commands), NEW e
  PROVE  /\ PlaceOf(cs, e) \in 0..Len(cs)
         /\ PlaceOf(cs, e) = 0 <=> \A i \in DOMAIN cs : cs[i].entity # e
         /\ PlaceOf(cs, e) # 0 => PlaceOf(cs, e) \in DOMAIN cs /\ cs[PlaceOf(cs, e)].entity = e
<1> DEFINE found == {i \in 1..Len(cs) : cs[i].entity = e}
<1>1. PlaceOf(cs, e) = IF found # {} THEN Min(found) ELSE 0
  BY DEF PlaceOf, SelectInSeq
<1>2. found \in SUBSET Nat /\ DOMAIN cs = 1..Len(cs) /\ Len(cs) \in Nat
  OBVIOUS
<1>3. found # {} => Min(found) \in found
  <2> HIDE DEF found
  <2>1. QED
    BY <1>2, LeastOf
<1>4. CASE found = {}
  BY <1>1, <1>2, <1>4
<1>5. CASE found # {}
  <2>1. PlaceOf(cs, e) \in 1..Len(cs) /\ cs[PlaceOf(cs, e)].entity = e
    BY <1>1, <1>3, <1>5
  <2> HIDE DEF found
  <2>2. QED
    BY <1>2, <2>1
<1>6. QED
  BY <1>4, <1>5

LEMMA PlaceAt ==
  ASSUME NEW cs, Distinct(cs), NEW i \in DOMAIN cs
  PROVE  PlaceOf(cs, cs[i].entity) = i /\ CommandOf(cs, cs[i].entity) = cs[i]
         /\ cs[i] \in Commands /\ cs[i].entity \in Entities
<1>1. cs \in Seq(Commands) /\ i \in 1..Len(cs) /\ Len(cs) \in Nat
  BY DEF Distinct
<1>2. cs[i] \in Commands /\ cs[i].entity \in Entities
  <2>1. cs[i] \in Commands
    BY <1>1
  <2>2. QED
    BY <2>1 DEF Commands
<1>3. PlaceOf(cs, cs[i].entity) # 0
  BY <1>1, PlaceIs
<1>4. PlaceOf(cs, cs[i].entity) \in DOMAIN cs
      /\ cs[PlaceOf(cs, cs[i].entity)].entity = cs[i].entity
  BY <1>1, <1>3, PlaceIs
<1>5. PlaceOf(cs, cs[i].entity) = i
  BY <1>4 DEF Distinct
<1>6. QED
  BY <1>2, <1>3, <1>5 DEF CommandOf

(* The command of an entity is about it.                                     *)
LEMMA CommandIs ==
  ASSUME NEW cs \in Seq(Commands), NEW e \in Entities
  PROVE  /\ CommandOf(cs, e) \in Commands /\ CommandOf(cs, e).entity = e
         /\ PlaceOf(cs, e) = 0 => CommandOf(cs, e) = NoCommand(e)
         /\ PlaceOf(cs, e) # 0 => CommandOf(cs, e) = cs[PlaceOf(cs, e)]
<1>1. NoCommand(e) \in Commands /\ NoCommand(e).entity = e
  BY CommandsAssumption DEF NoCommand, Commands, Ops
<1>2. PlaceOf(cs, e) # 0 => PlaceOf(cs, e) \in DOMAIN cs /\ cs[PlaceOf(cs, e)].entity = e
  BY PlaceIs
<1>3. \A i \in DOMAIN cs : cs[i] \in Commands
  OBVIOUS
<1>4. QED
  BY <1>1, <1>2, <1>3 DEF CommandOf

(* A command takes the place of the one of its entity, or the last place.     *)
PlaceFor(cs, e) == IF PlaceOf(cs, e) = 0 THEN Len(cs) + 1 ELSE PlaceOf(cs, e)

LEMMA RecordedIs ==
  ASSUME NEW cs, Distinct(cs), NEW k \in Commands
  PROVE  /\ Distinct(Recorded(cs, k)) /\ Recorded(cs, k) \in Seq(Commands)
         /\ DOMAIN cs \subseteq DOMAIN Recorded(cs, k)
         /\ DOMAIN Recorded(cs, k) = DOMAIN cs \cup {PlaceFor(cs, k.entity)}
         /\ Recorded(cs, k)[PlaceFor(cs, k.entity)] = k
         /\ \A i \in DOMAIN Recorded(cs, k) : i # PlaceFor(cs, k.entity) =>
              i \in DOMAIN cs /\ Recorded(cs, k)[i] = cs[i]
         /\ PlaceOf(Recorded(cs, k), k.entity) = PlaceFor(cs, k.entity)
         /\ CommandOf(Recorded(cs, k), k.entity) = k
         /\ \A f \in Entities : f # k.entity =>
              /\ PlaceOf(Recorded(cs, k), f) = PlaceOf(cs, f)
              /\ CommandOf(Recorded(cs, k), f) = CommandOf(cs, f)
<1> DEFINE after == Recorded(cs, k)
           e == k.entity
           p == PlaceOf(cs, e)
           place == PlaceFor(cs, e)
<1>1. cs \in Seq(Commands) /\ DOMAIN cs = 1..Len(cs) /\ Len(cs) \in Nat /\ e \in Entities
  BY DEF Distinct, Commands
<1>2. p \in 0..Len(cs) /\ (p = 0 <=> \A i \in DOMAIN cs : cs[i].entity # e)
      /\ (p # 0 => p \in DOMAIN cs /\ cs[p].entity = e)
  BY <1>1, PlaceIs
<1>3. after = IF p = 0 THEN Append(cs, k) ELSE [cs EXCEPT ![p] = k]
  BY DEF Recorded
<1> HIDE DEF after, p, place
<1>p. place = IF p = 0 THEN Len(cs) + 1 ELSE p
  BY DEF place, PlaceFor, p
<1>4. /\ after \in Seq(Commands) /\ DOMAIN after = DOMAIN cs \cup {place}
      /\ after[place] = k
      /\ \A i \in DOMAIN after : i # place => i \in DOMAIN cs /\ after[i] = cs[i]
  <2>1. CASE p = 0
    <3>1. after = Append(cs, k)
      BY <1>3, <2>1
    <3>2. after \in Seq(Commands) /\ Len(after) = Len(cs) + 1 /\ after[Len(cs) + 1] = k
          /\ \A i \in 1..Len(cs) : after[i] = cs[i]
      BY <1>1, <3>1
    <3>3. DOMAIN after = 1..(Len(cs) + 1)
      BY <3>2
    <3>4. QED
      BY <1>1, <1>p, <2>1, <3>2, <3>3
  <2>2. CASE p # 0
    <3>1. after = [cs EXCEPT ![p] = k]
      BY <1>3, <2>2
    <3>2. QED
      BY <1>1, <1>2, <1>p, <2>2, <3>1
  <2>3. QED
    BY <2>1, <2>2
<1>5. \A i \in DOMAIN cs : cs[i].entity = e => i = place
  BY <1>2, <1>p DEF Distinct
<1>6. Distinct(after)
  <2>1. \A i \in DOMAIN after : after[i].entity = e => i = place
    BY <1>4, <1>5
  <2>2. \A i, j \in DOMAIN after : after[i].entity = after[j].entity => i = j
    <3> SUFFICES ASSUME NEW i \in DOMAIN after, NEW j \in DOMAIN after,
                        after[i].entity = after[j].entity
                 PROVE  i = j
      OBVIOUS
    <3>1. CASE i = place \/ j = place
      BY <1>4, <2>1, <3>1
    <3>2. CASE i # place /\ j # place
      BY <1>4, <3>2 DEF Distinct
    <3>3. QED
      BY <3>1, <3>2
  <2>3. QED
    BY <1>4, <2>2 DEF Distinct
<1>7. place \in DOMAIN after
  BY <1>4
<1>8. PlaceOf(after, e) = place /\ CommandOf(after, e) = k
  BY <1>4, <1>6, <1>7, PlaceAt
<1>9. ASSUME NEW f \in Entities, f # e
      PROVE  PlaceOf(after, f) = PlaceOf(cs, f) /\ CommandOf(after, f) = CommandOf(cs, f)
  <2>1. CASE PlaceOf(cs, f) = 0
    <3>1. \A i \in DOMAIN cs : cs[i].entity # f
      BY <1>1, <2>1, PlaceIs
    <3>2. \A i \in DOMAIN after : after[i].entity # f
      BY <1>4, <1>9, <3>1
    <3>3. PlaceOf(after, f) = 0
      BY <1>4, <3>2, PlaceIs
    <3>4. QED
      BY <2>1, <3>3 DEF CommandOf
  <2>2. CASE PlaceOf(cs, f) # 0
    <3> DEFINE i == PlaceOf(cs, f)
    <3>1. i \in DOMAIN cs /\ cs[i].entity = f
      BY <1>1, <2>2, PlaceIs
    <3>2. i # place \/ p # 0
      BY <1>1, <1>p, <3>1
    <3>3. i # place
      BY <1>2, <1>9, <3>1, <3>2, <1>p
    <3>4. i \in DOMAIN after /\ after[i] = cs[i]
      BY <1>4, <3>1, <3>3
    <3>5. PlaceOf(after, f) = i /\ CommandOf(after, f) = after[i]
      BY <1>6, <3>1, <3>4, PlaceAt
    <3>6. CommandOf(cs, f) = cs[i]
      BY <2>2 DEF CommandOf
    <3>7. QED
      BY <3>4, <3>5, <3>6
  <2>3. QED
    BY <2>1, <2>2
<1>10. QED
  BY <1>4, <1>6, <1>7, <1>8, <1>9 DEF place, p, after

(* After the first command is applied, the others are one place nearer.       *)
LEMMA TailIs ==
  ASSUME NEW cs, Distinct(cs), cs # <<>>
  PROVE  /\ Distinct(Tail(cs)) /\ Tail(cs) \in Seq(Commands) /\ Len(cs) \in Nat \ {0}
         /\ Head(cs) = cs[1] /\ 1 \in DOMAIN cs /\ DOMAIN cs = 1..Len(cs)
         /\ DOMAIN Tail(cs) = 1..(Len(cs) - 1)
         /\ \A i \in DOMAIN Tail(cs) : i + 1 \in DOMAIN cs /\ Tail(cs)[i] = cs[i + 1]
         /\ PlaceOf(Tail(cs), Head(cs).entity) = 0
         /\ CommandOf(Tail(cs), Head(cs).entity) = NoCommand(Head(cs).entity)
         /\ \A f \in Entities : f # Head(cs).entity =>
              /\ PlaceOf(Tail(cs), f) = (IF PlaceOf(cs, f) = 0 THEN 0 ELSE PlaceOf(cs, f) - 1)
              /\ PlaceOf(cs, f) # 1 /\ CommandOf(Tail(cs), f) = CommandOf(cs, f)
<1> DEFINE rest == Tail(cs)
           e == Head(cs).entity
<1>1. cs \in Seq(Commands) /\ DOMAIN cs = 1..Len(cs) /\ Len(cs) \in Nat \ {0} /\ Head(cs) = cs[1]
      /\ 1 \in DOMAIN cs
  BY DEF Distinct
<1>2. rest \in Seq(Commands) /\ DOMAIN rest = 1..(Len(cs) - 1)
      /\ \A i \in DOMAIN rest : i + 1 \in DOMAIN cs /\ rest[i] = cs[i + 1]
  BY <1>1
<1> HIDE DEF rest
<1>3. Distinct(rest)
  <2>1. \A i, j \in DOMAIN rest : rest[i].entity = rest[j].entity => i + 1 = j + 1
    BY <1>2 DEF Distinct
  <2>2. \A i, j \in DOMAIN rest : i + 1 = j + 1 => i = j
    BY <1>2
  <2>3. QED
    BY <1>2, <2>1, <2>2 DEF Distinct
<1>4. \A i \in DOMAIN rest : rest[i].entity # e
  <2>1. \A i \in DOMAIN rest : i + 1 # 1
    BY <1>2
  <2>2. QED
    BY <1>1, <1>2, <2>1 DEF Distinct
<1>5. PlaceOf(rest, e) = 0
  BY <1>2, <1>4, PlaceIs
<1>6. ASSUME NEW f \in Entities, f # e
      PROVE  /\ PlaceOf(rest, f) = (IF PlaceOf(cs, f) = 0 THEN 0 ELSE PlaceOf(cs, f) - 1)
             /\ PlaceOf(cs, f) # 1 /\ CommandOf(rest, f) = CommandOf(cs, f)
  <2>1. CASE PlaceOf(cs, f) = 0
    <3>1. \A i \in DOMAIN rest : rest[i].entity # f
      BY <1>1, <1>2, <2>1, PlaceIs
    <3>2. PlaceOf(rest, f) = 0
      BY <1>2, <3>1, PlaceIs
    <3>3. QED
      BY <2>1, <3>2 DEF CommandOf
  <2>2. CASE PlaceOf(cs, f) # 0
    <3> DEFINE p == PlaceOf(cs, f)
    <3>1. p \in DOMAIN cs /\ cs[p].entity = f
      BY <1>1, <2>2, PlaceIs
    <3>2. p # 1
      BY <1>1, <1>6, <3>1
    <3> HIDE DEF p
    <3>3. p - 1 \in DOMAIN rest /\ rest[p - 1] = cs[p]
      <4>1. p - 1 \in DOMAIN rest /\ (p - 1) + 1 = p
        BY <1>1, <1>2, <3>1, <3>2
      <4>2. QED
        BY <1>2, <4>1
    <3>4. PlaceOf(rest, f) = p - 1 /\ CommandOf(rest, f) = rest[p - 1]
      BY <1>3, <3>1, <3>3, PlaceAt
    <3>5. QED
      BY <2>2, <3>2, <3>3, <3>4 DEF CommandOf, p
  <2>3. QED
    BY <2>1, <2>2
<1>7. QED
  BY <1>1, <1>2, <1>3, <1>5, <1>6 DEF rest, CommandOf

-----------------------------------------------------------------------------
(* Calls made alone. *)

Contained(es) == es \in [Entities -> Contents]

LEMMA ContentsAre ==
  ASSUME NEW x \in Contents
  PROVE  /\ x.alive \in BOOLEAN /\ x.abstract \in BOOLEAN /\ x.base \in Entities \cup {NoEntity}
         /\ x.value \in [Components -> Values \cup {Absent}]
         /\ x = [alive |-> x.alive, abstract |-> x.abstract, base |-> x.base, value |-> x.value]
         /\ Owned(x) \subseteq Components
  BY DEF Contents, Owned

LEMMA ContainedBased == ASSUME NEW es, Contained(es) PROVE Based(es)
  BY DEF Contained, Based, Contents

LEMMA NothingIs == Nothing \in Contents /\ ~Nothing.alive /\ Owned(Nothing) = {}
  BY DEF Nothing, Contents, Owned

(* Which components an entity has is what a change of type makes it.         *)
LEMMA RetypedIs ==
  ASSUME NEW x \in Contents, NEW S \in SUBSET Components
  PROVE  LET z == Retyped(x, S)
         IN  /\ z \in Contents /\ z.alive = x.alive /\ z.abstract = x.abstract /\ z.base = x.base
             /\ \A d \in Components :
                  z.value[d] = IF d \notin S THEN Absent
                               ELSE IF x.value[d] = Absent THEN Default ELSE x.value[d]
             /\ Owned(z) = S
<1> DEFINE z == Retyped(x, S)
<1>1. z = [alive |-> x.alive, abstract |-> x.abstract, base |-> x.base,
           value |-> [d \in Components |-> IF d \notin S THEN Absent
                        ELSE IF x.value[d] = Absent THEN Default ELSE x.value[d]]]
  BY ContentsAre DEF Retyped
<1>2. Default \in Values /\ Absent \notin Values
  BY CommandsAssumption
<1>3. \A d \in Components : x.value[d] \in Values \cup {Absent}
  BY ContentsAre
<1>4. [d \in Components |-> IF d \notin S THEN Absent
         ELSE IF x.value[d] = Absent THEN Default ELSE x.value[d]]
      \in [Components -> Values \cup {Absent}]
  BY <1>2, <1>3
<1>5. z \in Contents
  BY <1>1, <1>4, ContentsAre DEF Contents
<1>6. \A d \in Components : z.value[d] = Absent <=> d \notin S
  BY <1>1, <1>2, <1>3
<1>7. Owned(z) = S
  BY <1>6 DEF Owned
<1> HIDE DEF z
<1>8. QED
  BY <1>1, <1>5, <1>7 DEF z

(* A component is added with those it requires.                              *)
LEMMA AddedIs ==
  ASSUME NEW es, Contained(es), NEW e \in Entities, NEW c \in Components
  PROVE  LET fs == AddedAlone(es, e, c)
             y == es[e]
             z == fs[e]
         IN  /\ Contained(fs) /\ \A f \in Entities : f # e => fs[f] = es[f]
             /\ z.alive = y.alive /\ z.abstract = y.abstract /\ z.base = y.base
             /\ \A d \in Components :
                  z.value[d] = IF c \in Owned(y) \/ d \in Owned(y) \/ d \notin {c} \cup Requires[c]
                               THEN y.value[d] ELSE Default
<1> DEFINE fs == AddedAlone(es, e, c)
           y == es[e]
           S == Owned(y) \cup {c} \cup Requires[c]
<1>1. y \in Contents
  BY DEF Contained
<1>2. CASE c \in Owned(y)
  <2>1. fs = es
    BY <1>2 DEF AddedAlone
  <2>2. QED
    BY <1>2, <2>1
<1>3. CASE c \notin Owned(y)
  <2>1. fs = [es EXCEPT ![e] = Retyped(y, S)]
    BY <1>3 DEF AddedAlone
  <2>2. S \in SUBSET Components
    BY <1>1, ContentsAre, CommandsAssumption
  <2> HIDE DEF S
  <2> DEFINE z == Retyped(y, S)
  <2>3. /\ z \in Contents /\ z.alive = y.alive /\ z.abstract = y.abstract /\ z.base = y.base
        /\ \A d \in Components :
             z.value[d] = IF d \notin S THEN Absent
                          ELSE IF y.value[d] = Absent THEN Default ELSE y.value[d]
    BY <1>1, <2>2, RetypedIs
  <2> HIDE DEF z
  <2>4. fs \in [Entities -> Contents] /\ fs[e] = z /\ \A f \in Entities : f # e => fs[f] = es[f]
    BY <2>1, <2>3 DEF Contained, z
  <2>5. ASSUME NEW d \in Components
        PROVE  z.value[d] = IF c \in Owned(y) \/ d \in Owned(y) \/ d \notin {c} \cup Requires[c]
                            THEN y.value[d] ELSE Default
    <3>1. d \in Owned(y) <=> y.value[d] # Absent
      BY DEF Owned
    <3>2. d \in S <=> d \in Owned(y) \/ d \in {c} \cup Requires[c]
      BY DEF S
    <3>3. QED
      BY <1>3, <2>3, <3>1, <3>2
  <2> HIDE DEF fs, y
  <2>6. QED
    BY <2>3, <2>4, <2>5 DEF Contained, fs, y
<1>4. QED
  BY <1>2, <1>3

(* A component that is set is added first.                                   *)
LEMMA SetIs ==
  ASSUME NEW es, Contained(es), NEW e \in Entities, NEW c \in Components, NEW v \in Values
  PROVE  LET fs == SetAlone(es, e, c, v)
             y == es[e]
             z == fs[e]
         IN  /\ Contained(fs) /\ \A f \in Entities : f # e => fs[f] = es[f]
             /\ z.alive = y.alive /\ z.abstract = y.abstract /\ z.base = y.base
             /\ \A d \in Components :
                  z.value[d] = IF d = c THEN v
                               ELSE IF c \in Owned(y) \/ d \in Owned(y) \/ d \notin Requires[c]
                               THEN y.value[d] ELSE Default
<1> DEFINE gs == AddedAlone(es, e, c)
           y == es[e]
           x == gs[e]
           fs == SetAlone(es, e, c, v)
<1>1. /\ Contained(gs) /\ \A f \in Entities : f # e => gs[f] = es[f]
      /\ x.alive = y.alive /\ x.abstract = y.abstract /\ x.base = y.base
      /\ \A d \in Components :
           x.value[d] = IF c \in Owned(y) \/ d \in Owned(y) \/ d \notin {c} \cup Requires[c]
                        THEN y.value[d] ELSE Default
  BY AddedIs
<1>2. fs = [gs EXCEPT ![e] = [x EXCEPT !.value = [x.value EXCEPT ![c] = v]]]
  BY DEF SetAlone
<1> HIDE DEF gs, fs
<1>3. x \in Contents /\ x.value \in [Components -> Values \cup {Absent}]
      /\ x = [alive |-> x.alive, abstract |-> x.abstract, base |-> x.base, value |-> x.value]
      /\ x.alive \in BOOLEAN /\ x.abstract \in BOOLEAN /\ x.base \in Entities \cup {NoEntity}
  BY <1>1, ContentsAre DEF Contained
<1>4. gs \in [Entities -> Contents]
  BY <1>1 DEF Contained
<1>5. fs \in [Entities -> Contents] /\ \A f \in Entities : f # e => fs[f] = gs[f]
  <2>1. [x EXCEPT !.value = [x.value EXCEPT ![c] = v]] \in Contents
    BY <1>3 DEF Contents
  <2>2. QED
    BY <1>2, <1>4, <2>1
<1>6. fs[e] = [alive |-> x.alive, abstract |-> x.abstract, base |-> x.base,
               value |-> [x.value EXCEPT ![c] = v]]
  BY <1>2, <1>3, <1>4
<1>7. fs[e].alive = x.alive /\ fs[e].abstract = x.abstract /\ fs[e].base = x.base
      /\ \A d \in Components : fs[e].value[d] = IF d = c THEN v ELSE x.value[d]
  BY <1>3, <1>6
<1>8. QED
  BY <1>1, <1>5, <1>7 DEF Contained, fs, x

LEMMA RemovedIs ==
  ASSUME NEW es, Contained(es), NEW e \in Entities, NEW c \in Components
  PROVE  LET fs == RemovedAlone(es, e, c)
             y == es[e]
             z == fs[e]
         IN  /\ Contained(fs) /\ \A f \in Entities : f # e => fs[f] = es[f]
             /\ z.alive = y.alive /\ z.abstract = y.abstract /\ z.base = y.base
             /\ \A d \in Components : z.value[d] = IF d = c THEN Absent ELSE y.value[d]
<1> DEFINE fs == RemovedAlone(es, e, c)
           y == es[e]
           S == Owned(y) \ {c}
           z == Retyped(y, S)
<1>1. y \in Contents /\ S \in SUBSET Components
  BY ContentsAre DEF Contained
<1>2. fs = [es EXCEPT ![e] = z]
  BY DEF RemovedAlone
<1> HIDE DEF S
<1>3. /\ z \in Contents /\ z.alive = y.alive /\ z.abstract = y.abstract /\ z.base = y.base
      /\ \A d \in Components :
           z.value[d] = IF d \notin S THEN Absent
                        ELSE IF y.value[d] = Absent THEN Default ELSE y.value[d]
  BY <1>1, RetypedIs
<1> HIDE DEF z, fs, y
<1>4. fs \in [Entities -> Contents] /\ fs[e] = z /\ \A f \in Entities : f # e => fs[f] = es[f]
  BY <1>2, <1>3 DEF Contained
<1>5. \A d \in Components : d \in S <=> y.value[d] # Absent /\ d # c
  BY DEF S, Owned
<1>6. \A d \in Components : z.value[d] = IF d = c THEN Absent ELSE y.value[d]
  BY <1>3, <1>5
<1>7. QED
  BY <1>3, <1>4, <1>6 DEF Contained, fs, y

LEMMA KilledIs ==
  ASSUME NEW es, Contained(es), NEW e \in Entities
  PROVE  /\ Contained(KilledAlone(es, e)) /\ KilledAlone(es, e)[e] = Nothing
         /\ \A f \in Entities : f # e => KilledAlone(es, e)[f] = es[f]
  BY NothingIs DEF Contained, KilledAlone

(* What a change of a field gives                                            *)
LEMMA FieldChanged ==
  ASSUME NEW x \in Contents, NEW v
  PROVE  /\ [x EXCEPT !.abstract = v]
            = [alive |-> x.alive, abstract |-> v, base |-> x.base, value |-> x.value]
         /\ [x EXCEPT !.base = v]
            = [alive |-> x.alive, abstract |-> x.abstract, base |-> v, value |-> x.value]
         /\ [x EXCEPT !.value = v]
            = [alive |-> x.alive, abstract |-> x.abstract, base |-> x.base, value |-> v]
<1>1. PICK a1, a2, a3, a4 : x = [alive |-> a1, abstract |-> a2, base |-> a3, value |-> a4]
  BY ContentsAre
<1>2. x.alive = a1 /\ x.abstract = a2 /\ x.base = a3 /\ x.value = a4
  BY <1>1
<1>3. [x EXCEPT !.abstract = v] = [alive |-> a1, abstract |-> v, base |-> a3, value |-> a4]
  BY <1>1
<1>4. [x EXCEPT !.base = v] = [alive |-> a1, abstract |-> a2, base |-> v, value |-> a4]
  BY <1>1
<1>5. [x EXCEPT !.value = v] = [alive |-> a1, abstract |-> a2, base |-> a3, value |-> v]
  BY <1>1
<1>6. QED
  BY <1>2, <1>3, <1>4, <1>5

(* The same world with b abstract                                            *)
Marked(es, b) == [es EXCEPT ![b] = [es[b] EXCEPT !.abstract = TRUE]]

LEMMA MarkedIs ==
  ASSUME NEW es, Contained(es), NEW b \in Entities
  PROVE  /\ Contained(Marked(es, b)) /\ Marked(es, b)[b].abstract
         /\ \A f \in Entities : f # b => Marked(es, b)[f] = es[f]
         /\ \A f \in Entities : /\ Marked(es, b)[f].alive = es[f].alive
                                /\ Marked(es, b)[f].base = es[f].base
                                /\ Marked(es, b)[f].value = es[f].value
                                /\ Owned(Marked(es, b)[f]) = Owned(es[f])
<1> DEFINE x == es[b]
           z == [x EXCEPT !.abstract = TRUE]
<1>1. x \in Contents
  BY DEF Contained
<1>2. z = [alive |-> x.alive, abstract |-> TRUE, base |-> x.base, value |-> x.value]
  BY <1>1, FieldChanged
<1>3. z \in Contents
  BY <1>1, <1>2, ContentsAre DEF Contents
<1>4. Marked(es, b) = [es EXCEPT ![b] = z]
  BY DEF Marked
<1> HIDE DEF z
<1>5. Marked(es, b) \in [Entities -> Contents] /\ Marked(es, b)[b] = z
      /\ \A f \in Entities : f # b => Marked(es, b)[f] = es[f]
  BY <1>3, <1>4 DEF Contained
<1>6. \A f \in Entities : Marked(es, b)[f].value = es[f].value
  BY <1>2, <1>5
<1>7. QED
  BY <1>2, <1>5, <1>6 DEF Contained, Owned

(* A new base is marked, and what it hands down is copied.                    *)
LEMMA InheritedIs ==
  ASSUME NEW es, Contained(es), NEW e \in Entities, NEW b \in Entities, e # b
  PROVE  LET fs == InheritedAlone(es, e, b)
             y == es[e]
             z == fs[e]
             plan == Plan(es, b, Owned(y))
         IN  /\ Contained(fs)
             /\ fs[b].abstract /\ fs[b].base = es[b].base /\ fs[b].value = es[b].value
             /\ fs[b].alive = es[b].alive
             /\ \A f \in Entities : f \notin {e, b} => fs[f] = es[f]
             /\ z.alive = y.alive /\ z.abstract = y.abstract /\ z.base = b
             /\ \A d \in Components :
                  z.value[d] = IF y.base # b /\ d \in plan THEN es[Provider(es, b, d)].value[d]
                               ELSE y.value[d]
             /\ y.base # b => \A d \in plan : Provider(es, b, d) \in Entities
<1> DEFINE marked == Marked(es, b)
           y == es[e]
           fs == InheritedAlone(es, e, b)
           plan == Plan(es, b, Owned(y))
<1>1. /\ Contained(marked) /\ marked[b].abstract
      /\ \A f \in Entities : f # b => marked[f] = es[f]
      /\ \A f \in Entities : /\ marked[f].alive = es[f].alive /\ marked[f].base = es[f].base
                             /\ marked[f].value = es[f].value /\ Owned(marked[f]) = Owned(es[f])
  BY MarkedIs
<1>2. Based(es) /\ Based(marked)
  BY <1>1, ContainedBased
<1>3. Ancestors(es, b) \subseteq Entities
  BY <1>2, AncestorsAre
<1>4. /\ \A d : Provider(marked, b, d) = Provider(es, b, d)
      /\ Plan(marked, b, Owned(y)) = plan
  <2> HIDE DEF marked
  <2>1. \A f \in Ancestors(es, b) : marked[f].base = es[f].base /\ Owned(marked[f]) = Owned(es[f])
    BY <1>1, <1>3
  <2>2. QED
    BY <1>2, <2>1, SameProvider
<1>5. \A d \in plan : Provider(es, b, d) \in Entities /\ d \in Components
  <2>1. \A d \in plan : \E f \in Ancestors(es, b) : d \in Owned(es[f])
    BY DEF Plan
  <2>2. Copied \subseteq Components
    BY CommandsAssumption
  <2>3. QED
    BY <1>2, <1>3, <2>1, <2>2, ProviderIs DEF Plan
<1>6. fs = IF y.base = b THEN marked
           ELSE [marked EXCEPT ![e] = [[marked[e] EXCEPT !.base = b] EXCEPT
                   !.value = [d \in Components |->
                      IF d \in plan THEN marked[Provider(es, b, d)].value[d]
                      ELSE [marked[e] EXCEPT !.base = b].value[d]]]]
  <2>1. fs = LET m == Marked(es, b)
                 p == Plan(m, b, Owned(es[e]))
             IN IF es[e].base = b THEN m
                ELSE [m EXCEPT ![e].base = b,
                         ![e].value = [c \in Components |->
                            IF c \in p THEN m[Provider(m, b, c)].value[c] ELSE @[c]]]
    BY DEF InheritedAlone, Marked
  <2> HIDE DEF marked, fs
  <2>2. fs = IF y.base = b THEN marked
             ELSE [marked EXCEPT ![e].base = b,
                      ![e].value = [c \in Components |->
                         IF c \in plan THEN marked[Provider(marked, b, c)].value[c] ELSE @[c]]]
    BY <1>4, <2>1 DEF marked
  <2>3. QED
    BY <1>1, <1>4, <2>2 DEF Contained
<1> HIDE DEF marked, fs
<1>7. y \in Contents /\ marked[e] = y /\ marked \in [Entities -> Contents]
  BY <1>1 DEF Contained
<1> DEFINE z == [alive |-> y.alive, abstract |-> y.abstract, base |-> b,
                 value |-> [d \in Components |->
                   IF d \in plan THEN es[Provider(es, b, d)].value[d] ELSE y.value[d]]]
<1>8. CASE y.base = b
  <2>1. fs = marked
    BY <1>6, <1>8
  <2>2. QED
    BY <1>1, <1>7, <1>8, <2>1 DEF fs
<1>9. CASE y.base # b
  <2>1. fs = [marked EXCEPT ![e] = z]
    <3>1. \A d \in plan : marked[Provider(es, b, d)].value[d] = es[Provider(es, b, d)].value[d]
      BY <1>1, <1>5
    <3>2. [d \in Components |->
             IF d \in plan THEN marked[Provider(es, b, d)].value[d]
             ELSE [marked[e] EXCEPT !.base = b].value[d]]
          = [d \in Components |->
               IF d \in plan THEN es[Provider(es, b, d)].value[d] ELSE y.value[d]]
      <4>1. [marked[e] EXCEPT !.base = b].value = y.value
        BY <1>7, ContentsAre
      <4>2. QED
        BY <1>7, <3>1, <4>1
    <3> DEFINE v == [d \in Components |->
               IF d \in plan THEN es[Provider(es, b, d)].value[d] ELSE y.value[d]]
    <3>3. fs = [marked EXCEPT ![e] = [[marked[e] EXCEPT !.base = b] EXCEPT !.value = v]]
      BY <1>6, <1>9, <3>2
    <3> HIDE DEF v
    <3>4. [[marked[e] EXCEPT !.base = b] EXCEPT !.value = v]
          = [alive |-> y.alive, abstract |-> y.abstract, base |-> b, value |-> v]
      <4>1. marked[e] \in Contents /\ marked[e] = y
        BY <1>7
      <4> DEFINE based == [marked[e] EXCEPT !.base = b]
      <4>2. based = [alive |-> y.alive, abstract |-> y.abstract, base |-> b, value |-> y.value]
        BY <4>1, FieldChanged
      <4>3. based \in Contents
        BY <4>1, <4>2, ContentsAre DEF Contents
      <4> HIDE DEF based
      <4>4. [based EXCEPT !.value = v]
            = [alive |-> based.alive, abstract |-> based.abstract, base |-> based.base, value |-> v]
        BY <4>3, FieldChanged
      <4>5. based.alive = y.alive /\ based.abstract = y.abstract /\ based.base = b
        BY <4>2
      <4>6. QED
        BY <4>4, <4>5 DEF based
    <3>5. QED
      BY <3>3, <3>4 DEF v
  <2>2. z \in Contents
    <3>1. \A d \in plan : es[Provider(es, b, d)].value[d] \in Values \cup {Absent}
      BY <1>5, ContentsAre DEF Contained
    <3>2. \A d \in Components : y.value[d] \in Values \cup {Absent}
      BY <1>7, ContentsAre
    <3>3. [d \in Components |->
             IF d \in plan THEN es[Provider(es, b, d)].value[d] ELSE y.value[d]]
          \in [Components -> Values \cup {Absent}]
      BY <3>1, <3>2
    <3>4. QED
      BY <1>7, <3>3, ContentsAre DEF Contents
  <2>3. /\ z.alive = y.alive /\ z.abstract = y.abstract /\ z.base = b
        /\ \A d \in Components :
             z.value[d] = IF d \in plan THEN es[Provider(es, b, d)].value[d] ELSE y.value[d]
    OBVIOUS
  <2> HIDE DEF z
  <2>4. fs \in [Entities -> Contents] /\ fs[e] = z /\ \A f \in Entities : f # e => fs[f] = marked[f]
    BY <1>7, <2>1, <2>2
  <2>5. fs[b] = marked[b]
    BY <2>4
  <2>6. QED
    BY <1>1, <1>5, <1>9, <2>3, <2>4, <2>5 DEF Contained, fs
<1>10. QED
  BY <1>8, <1>9

-----------------------------------------------------------------------------
(* The forms of commands. *)

LEMMA CommandFields ==
  ASSUME NEW k \in Commands
  PROVE  /\ k.entity \in Entities /\ k.op \in [Components -> Ops]
         /\ k.data \in [Components -> Values] /\ k.base \in Entities \cup {NoEntity}
         /\ k.kill \in BOOLEAN
         /\ k = [entity |-> k.entity, op |-> k.op, data |-> k.data, base |-> k.base,
                 kill |-> k.kill]
  BY DEF Commands

(* A call is merged into the command of its entity.                          *)
LEMMA MergedIs ==
  ASSUME NEW k \in Commands, NEW c \in Components, NEW op \in Ops, NEW v \in Values
  PROVE  LET m == Merged(k, c, op, v)
         IN  /\ m \in Commands /\ m.entity = k.entity /\ m.base = k.base /\ m.kill = k.kill
             /\ \A d \in Components :
                  d # c => m.op[d] = k.op[d] /\ m.data[d] = k.data[d]
             /\ m.op[c] = IF op = "add" /\ k.op[c] \in {"add", "copy"} THEN k.op[c] ELSE op
             /\ m.data[c] = IF op = "add" /\ k.op[c] \in {"add", "copy"} THEN k.data[c] ELSE v
<1> DEFINE m == Merged(k, c, op, v)
<1>1. CASE op = "add" /\ k.op[c] \in {"add", "copy"}
  BY <1>1, CommandFields DEF Merged
<1>2. CASE ~(op = "add" /\ k.op[c] \in {"add", "copy"})
  <2>1. PICK a1, a2, a3, a4, a5 :
          k = [entity |-> a1, op |-> a2, data |-> a3, base |-> a4, kill |-> a5]
    BY CommandFields
  <2>2. k.entity = a1 /\ k.op = a2 /\ k.data = a3 /\ k.base = a4 /\ k.kill = a5
    BY <2>1
  <2>3. a1 \in Entities /\ a2 \in [Components -> Ops] /\ a3 \in [Components -> Values]
        /\ a4 \in Entities \cup {NoEntity} /\ a5 \in BOOLEAN
    BY <2>2, CommandFields
  <2> DEFINE ops == [a2 EXCEPT ![c] = op]
             data == [a3 EXCEPT ![c] = v]
  <2>4. m = [k EXCEPT !.op[c] = op, !.data[c] = v]
    BY <1>2 DEF Merged
  <2>5. m = [entity |-> a1, op |-> ops, data |-> data, base |-> a4, kill |-> a5]
    BY <2>1, <2>4
  <2>6. ops \in [Components -> Ops] /\ data \in [Components -> Values]
    BY <2>3
  <2>7. ops[c] = op /\ data[c] = v /\ \A d \in Components : d # c => ops[d] = a2[d] /\ data[d] = a3[d]
    BY <2>3
  <2> HIDE DEF ops, data, m
  <2>8. m \in Commands
    BY <2>3, <2>5, <2>6 DEF Commands
  <2>9. m.entity = a1 /\ m.op = ops /\ m.data = data /\ m.base = a4 /\ m.kill = a5
    BY <2>5
  <2>10. m.op[c] = op /\ m.data[c] = v
         /\ \A d \in Components : d # c => m.op[d] = k.op[d] /\ m.data[d] = k.data[d]
    BY <2>2, <2>7, <2>9
  <2>11. QED
    BY <1>2, <2>2, <2>8, <2>9, <2>10 DEF m
<1>3. QED
  BY <1>1, <1>2

LEMMA RebasedIs ==
  ASSUME NEW k \in Commands, NEW b \in Entities
  PROVE  LET m == [k EXCEPT !.base = b]
         IN  /\ m \in Commands /\ m.entity = k.entity /\ m.base = b /\ m.kill = k.kill
             /\ m.op = k.op /\ m.data = k.data
<1> DEFINE m == [k EXCEPT !.base = b]
<1>1. m = [entity |-> k.entity, op |-> k.op, data |-> k.data, base |-> b, kill |-> k.kill]
  <2>1. PICK a1, a2, a3, a4, a5 :
          k = [entity |-> a1, op |-> a2, data |-> a3, base |-> a4, kill |-> a5]
    BY CommandFields
  <2>2. k.entity = a1 /\ k.op = a2 /\ k.data = a3 /\ k.base = a4 /\ k.kill = a5
    BY <2>1
  <2>3. m = [entity |-> a1, op |-> a2, data |-> a3, base |-> b, kill |-> a5]
    BY <2>1
  <2>4. QED
    BY <2>2, <2>3
<1>2. m \in Commands
  BY <1>1, CommandFields DEF Commands
<1> HIDE DEF m
<1>3. QED
  BY <1>1, <1>2 DEF m

LEMMA KillField ==
  ASSUME NEW e, NEW v
  PROVE  [NoCommand(e) EXCEPT !.kill = v]
         = [entity |-> e, op |-> [c \in Components |-> "none"],
            data |-> [c \in Components |-> Default], base |-> NoEntity, kill |-> v]
  BY DEF NoCommand

LEMMA KillIs ==
  ASSUME NEW k \in Commands
  PROVE  /\ Killed(k) \in Commands /\ Killed(k).entity = k.entity /\ Killed(k).kill
         /\ Killed(k).base = NoEntity
<1>1. Killed(k) = [entity |-> k.entity, op |-> [c \in Components |-> "none"],
                   data |-> [c \in Components |-> Default], base |-> NoEntity, kill |-> TRUE]
  BY KillField DEF Killed
<1>2. Killed(k) \in Commands
  BY <1>1, CommandFields, CommandsAssumption DEF Commands, Ops
<1>3. QED
  BY <1>1, <1>2

(* What kept components require is added to the command.                      *)
LEMMA CompletedIs ==
  ASSUME NEW k \in Commands
  PROVE  LET m == Completed(k)
             required == UNION {Requires[c] : c \in Kept(k)}
         IN  /\ m \in Commands /\ m.entity = k.entity /\ m.base = k.base /\ m.kill = k.kill
             /\ m.data = k.data
             /\ \A d \in Components : m.op[d] = IF d \in required /\ d \notin Kept(k) THEN "add"
                                                ELSE k.op[d]
             /\ required \subseteq Components
<1> DEFINE m == Completed(k)
           required == UNION {Requires[c] : c \in Kept(k)}
           ops == [d \in Components |-> IF d \in required \ Kept(k) THEN "add" ELSE k.op[d]]
<1>1. m = [k EXCEPT !.op = ops]
  BY DEF Completed
<1>2. required \subseteq Components
  BY CommandsAssumption DEF Kept
<1>3. k.op \in [Components -> Ops]
  BY CommandFields
<1>4. ops \in [Components -> Ops]
  BY <1>3 DEF Ops
<1>5. \A d \in Components : ops[d] = IF d \in required /\ d \notin Kept(k) THEN "add" ELSE k.op[d]
  OBVIOUS
<1> HIDE DEF ops
<1>6. m = [entity |-> k.entity, op |-> ops, data |-> k.data, base |-> k.base, kill |-> k.kill]
  <2>1. PICK a1, a2, a3, a4, a5 :
          k = [entity |-> a1, op |-> a2, data |-> a3, base |-> a4, kill |-> a5]
    BY CommandFields
  <2>2. k.entity = a1 /\ k.op = a2 /\ k.data = a3 /\ k.base = a4 /\ k.kill = a5
    BY <2>1
  <2>3. m = [entity |-> a1, op |-> ops, data |-> a3, base |-> a4, kill |-> a5]
    BY <1>1, <2>1
  <2>4. QED
    BY <2>2, <2>3
<1>7. m \in Commands
  BY <1>4, <1>6, CommandFields DEF Commands
<1> HIDE DEF m, required
<1>8. QED
  BY <1>2, <1>5, <1>6, <1>7 DEF m, required

(* A write of the values a command sets changes nothing else.                *)
LEMMA WrittenIs ==
  ASSUME NEW k \in Commands, NEW x \in Contents
  PROVE  LET z == Written(k, x)
         IN  /\ z \in Contents /\ z.alive = x.alive /\ z.abstract = x.abstract /\ z.base = x.base
             /\ \A d \in Components :
                  z.value[d] = IF k.op[d] = "copy" THEN k.data[d] ELSE x.value[d]
<1> DEFINE z == Written(k, x)
           u == [d \in Components |-> IF k.op[d] = "copy" THEN k.data[d] ELSE x.value[d]]
<1>1. z = [x EXCEPT !.value = u]
  BY DEF Written
<1>2. u \in [Components -> Values \cup {Absent}]
  BY ContentsAre, CommandFields
<1>3. \A d \in Components : u[d] = IF k.op[d] = "copy" THEN k.data[d] ELSE x.value[d]
  OBVIOUS
<1> HIDE DEF u
<1>4. z = [alive |-> x.alive, abstract |-> x.abstract, base |-> x.base, value |-> u]
  BY <1>1, FieldChanged
<1> HIDE DEF z
<1>5. z \in Contents
  BY <1>2, <1>4, ContentsAre DEF Contents
<1>6. QED
  BY <1>3, <1>4, <1>5 DEF z

(* An entity in its new table                                                *)
LEMMA MovedIs ==
  ASSUME NEW x \in Contents, NEW t, t.to.owned \in SUBSET Components,
         t.to.base \in Entities \cup {NoEntity}, NEW D,
         NEW copied \in [D -> Values \cup {Absent}]
  PROVE  LET z == Moved(x, t, copied)
         IN  /\ z \in Contents /\ z.alive = x.alive /\ z.abstract = x.abstract
             /\ z.base = t.to.base
             /\ \A d \in Components :
                  z.value[d] = IF d \in D THEN copied[d]
                               ELSE IF d \notin t.to.owned THEN Absent
                               ELSE IF x.value[d] = Absent THEN Default ELSE x.value[d]
<1> DEFINE y == Retyped(x, t.to.owned)
           z == Moved(x, t, copied)
<1>1. /\ y \in Contents /\ y.alive = x.alive /\ y.abstract = x.abstract /\ y.base = x.base
      /\ \A d \in Components :
           y.value[d] = IF d \notin t.to.owned THEN Absent
                        ELSE IF x.value[d] = Absent THEN Default ELSE x.value[d]
  BY RetypedIs
<1> HIDE DEF y
<1> DEFINE u == [d \in Components |-> IF d \in D THEN copied[d] ELSE y.value[d]]
<1>2. z = [[y EXCEPT !.base = t.to.base] EXCEPT !.value = u]
  <2>1. DOMAIN copied = D
    OBVIOUS
  <2>2. PICK a1, a2, a3, a4 : y = [alive |-> a1, abstract |-> a2, base |-> a3, value |-> a4]
    BY <1>1, ContentsAre
  <2>3. y.value = a4
    BY <2>2
  <2>4. z = [y EXCEPT !.base = t.to.base,
                      !.value = [d \in Components |-> IF d \in DOMAIN copied THEN copied[d] ELSE @[d]]]
    BY DEF Moved, y
  <2>5. QED
    BY <2>1, <2>2, <2>3, <2>4
<1>3. u \in [Components -> Values \cup {Absent}]
  BY <1>1, ContentsAre
<1>4. \A d \in Components : u[d] = IF d \in D THEN copied[d] ELSE y.value[d]
  OBVIOUS
<1> DEFINE based == [y EXCEPT !.base = t.to.base]
<1>5. based = [alive |-> y.alive, abstract |-> y.abstract, base |-> t.to.base, value |-> y.value]
  BY <1>1, FieldChanged
<1>6. based \in Contents
  BY <1>1, <1>5, ContentsAre DEF Contents
<1> HIDE DEF u, based
<1>7. z = [alive |-> based.alive, abstract |-> based.abstract, base |-> based.base, value |-> u]
  BY <1>2, <1>6, FieldChanged DEF based
<1>8. z = [alive |-> y.alive, abstract |-> y.abstract, base |-> t.to.base, value |-> u]
  BY <1>5, <1>7
<1> HIDE DEF z
<1>9. z \in Contents
  BY <1>1, <1>3, <1>8, ContentsAre DEF Contents
<1>10. QED
  BY <1>1, <1>4, <1>8, <1>9 DEF z

-----------------------------------------------------------------------------
(* Every record has its form, and tables hold the entities of their type. *)

(* Commands are about living entities; a base recorded is not killed.        *)
Sound(es, ps, cs) ==
  \A i \in DOMAIN cs :
    /\ es[cs[i].entity].alive
    /\ cs[i].kill => ~ps[cs[i].entity].alive
    /\ cs[i].base # NoEntity => es[cs[i].base].alive /\ ps[cs[i].base].alive

TransitionTyped(t) ==
  t.valid => t.to.base \in Entities \cup {NoEntity} /\ t.to.owned \in SUBSET Components

Typed ==
  /\ Stored(entity, table) /\ Contained(promised)
  /\ Distinct(commands) /\ Distinct(batch)
  /\ Sound(entity, promised, commands) /\ Sound(entity, promised, batch)
  /\ depth \in 0 .. MaxDepth /\ calls \in 0 .. MaxCalls
  /\ depth # 0 => batch = <<>>
  /\ depth = 0 => commands = <<>>
  /\ TransitionTyped(transition)

LEMMA TypedOK == Typed => TypeOK
<1> SUFFICES ASSUME Typed PROVE TypeOK
  OBVIOUS
<1>1. entity \in [Entities -> Contents] /\ promised \in [Entities -> Contents]
  BY DEF Typed, Stored, Contained
<1>2. commands \in Seq(Commands) /\ batch \in Seq(Commands)
  BY DEF Typed, Distinct
<1>3. \A type \in DOMAIN table :
        /\ IsInjective(table[type].rows)
        /\ Len(table[type].rows) <= table[type].capacity
        /\ ToSet(table[type].rows) = {e \in Entities : entity[e].alive /\ TypeOf(entity[e]) = type}
  BY DEF Typed, Stored, Holds, InTable
<1>4. \A e \in Entities : entity[e].alive => TypeOf(entity[e]) \in DOMAIN table
  BY DEF Typed, Stored
<1>5. depth \in 0 .. MaxDepth /\ calls \in 0 .. MaxCalls
  BY DEF Typed
<1>6. QED
  BY <1>1, <1>2, <1>3, <1>4, <1>5 DEF TypeOK

LEMMA CommandSound ==
  ASSUME NEW es, NEW ps, NEW cs, Distinct(cs), Sound(es, ps, cs), NEW e \in Entities
  PROVE  /\ CommandOf(cs, e) \in Commands /\ CommandOf(cs, e).entity = e
         /\ CommandOf(cs, e).kill => ~ps[e].alive
         /\ CommandOf(cs, e).base # NoEntity =>
              es[CommandOf(cs, e).base].alive /\ ps[CommandOf(cs, e).base].alive
<1>1. cs \in Seq(Commands)
  BY DEF Distinct
<1>2. CommandOf(cs, e) \in Commands /\ CommandOf(cs, e).entity = e
  BY <1>1, CommandIs
<1>3. CASE PlaceOf(cs, e) = 0
  <2>1. CommandOf(cs, e) = NoCommand(e)
    BY <1>1, <1>3, CommandIs
  <2>2. ~NoCommand(e).kill /\ NoCommand(e).base = NoEntity
    BY DEF NoCommand
  <2>3. QED
    BY <1>2, <2>1, <2>2
<1>4. CASE PlaceOf(cs, e) # 0
  <2>1. PlaceOf(cs, e) \in DOMAIN cs /\ CommandOf(cs, e) = cs[PlaceOf(cs, e)]
    BY <1>1, <1>4, CommandIs, PlaceIs
  <2>2. QED
    BY <1>2, <2>1 DEF Sound
<1>5. QED
  BY <1>3, <1>4

(* What a recorded command may ask for                                       *)
LEMMA RecordTyped ==
  ASSUME Typed, Scope, calls < MaxCalls, NEW k \in Commands, NEW alone, Contained(alone),
         Record(k, alone), entity[k.entity].alive,
         \A y \in Entities : promised'[y].alive => promised[y].alive,
         k.kill => ~promised'[k.entity].alive,
         k.base # NoEntity => entity[k.base].alive /\ promised'[k.base].alive,
         \A i \in DOMAIN commands :
           commands[i].base # NoEntity => promised'[commands[i].base].alive
  PROVE  Typed'
<1>1. Distinct(commands) /\ commands \in Seq(Commands) /\ Sound(entity, promised, commands)
  BY DEF Typed, Distinct
<1>2. commands' = Recorded(commands, k)
      /\ promised' = (IF promised[k.entity].alive THEN alone ELSE promised)
      /\ calls' = calls + 1 /\ entity' = entity /\ table' = table /\ depth' = depth
      /\ batch' = batch /\ transition' = transition
  BY DEF Record
<1>3. batch = <<>> /\ depth # 0
  BY DEF Typed, Scope
<1> DEFINE place == PlaceFor(commands, k.entity)
<1>4. /\ Distinct(commands') /\ commands'[place] = k
      /\ \A i \in DOMAIN commands' : i # place => i \in DOMAIN commands /\ commands'[i] = commands[i]
  <2> DEFINE after == Recorded(commands, k)
  <2>1. /\ Distinct(after) /\ after[place] = k
        /\ \A i \in DOMAIN after : i # place => i \in DOMAIN commands /\ after[i] = commands[i]
    <3>1. Distinct(commands) /\ k \in Commands
      BY <1>1
    <3>2. QED
      BY ONLY <3>1, RecordedIs
  <2> HIDE DEF after, place
  <2>2. commands' = after
    BY <1>2 DEF after
  <2>3. QED
    BY <2>1, <2>2
<1> HIDE DEF place
<1>5. Sound(entity, promised', commands')
  <2>1. SUFFICES ASSUME NEW i \in DOMAIN commands'
                 PROVE  /\ entity[commands'[i].entity].alive
                        /\ commands'[i].kill => ~promised'[commands'[i].entity].alive
                        /\ commands'[i].base # NoEntity =>
                             entity[commands'[i].base].alive /\ promised'[commands'[i].base].alive
    BY DEF Sound
  <2>2. CASE i = place
    BY <1>4, <2>2
  <2>3. CASE i # place
    <3>1. i \in DOMAIN commands /\ commands'[i] = commands[i]
      BY <1>4, <2>3
    <3>2. commands[i].entity \in Entities
      BY <1>1, <3>1, PlaceAt
    <3>3. QED
      BY <1>1, <3>1, <3>2 DEF Sound
  <2>4. QED
    BY <2>2, <2>3
<1>6. Contained(promised')
  BY <1>2 DEF Typed
<1>7. calls' \in 0 .. MaxCalls
  BY <1>2, CommandsAssumption DEF Typed
<1>8. Sound(entity', promised', batch') /\ Distinct(batch')
  BY <1>2, <1>3 DEF Sound, Typed
<1>9. Stored(entity', table') /\ TransitionTyped(transition') /\ depth' \in 0 .. MaxDepth
      /\ depth' # 0 /\ batch' = <<>>
  BY <1>2, <1>3 DEF Typed
<1>10. QED
  BY <1>2, <1>4, <1>5, <1>6, <1>7, <1>8, <1>9 DEF Typed

(* The same for a call that kills nothing                                    *)
LEMMA CallTyped ==
  ASSUME Typed, NEW e \in Entities, MayCall(e), NEW k \in Commands, k.entity = e,
         NEW alone, Contained(alone), Record(k, alone),
         \A y \in Entities : alone[y].alive = promised[y].alive,
         k.kill = Command(e).kill,
         k.base # Command(e).base => entity[k.base].alive /\ promised[k.base].alive
  PROVE  Typed'
<1>1. Scope /\ calls < MaxCalls /\ entity[e].alive
  BY DEF MayCall
<1>2. Distinct(commands) /\ Sound(entity, promised, commands)
  BY DEF Typed
<1>3. /\ Command(e) \in Commands
      /\ Command(e).kill => ~promised[e].alive
      /\ Command(e).base # NoEntity =>
           entity[Command(e).base].alive /\ promised[Command(e).base].alive
  BY <1>2, CommandSound DEF Command
<1>4. \A y \in Entities : promised'[y].alive = promised[y].alive
  BY DEF Record
<1>5. k.base \in Entities \cup {NoEntity} /\ \A i \in DOMAIN commands :
        commands[i].base \in Entities \cup {NoEntity}
  <2>1. \A i \in DOMAIN commands : commands[i] \in Commands
    BY <1>2, PlaceAt
  <2>2. QED
    BY <2>1, CommandFields
<1>6. \A i \in DOMAIN commands :
        commands[i].base # NoEntity => promised'[commands[i].base].alive
  BY <1>2, <1>4, <1>5 DEF Sound
<1>7. k.base # NoEntity => entity[k.base].alive /\ promised'[k.base].alive
  BY <1>3, <1>4, <1>5
<1>8. k.kill => ~promised'[e].alive
  BY <1>3, <1>4
<1>9. QED
  BY <1>1, <1>4, <1>6, <1>7, <1>8, RecordTyped

LEMMA AddTyped ==
  ASSUME Typed, NEW e \in Entities, NEW c \in Components, Add(e, c) PROVE Typed'
<1> DEFINE k == Merged(Command(e), c, "add", Default)
           alone == AddedAlone(promised, e, c)
<1>1. MayCall(e) /\ Record(k, alone)
  BY DEF Add
<1>2. Command(e) \in Commands /\ Command(e).entity = e
  BY CommandSound DEF Typed, Command
<1>3. "add" \in Ops /\ Default \in Values
  BY CommandsAssumption DEF Ops
<1>4. k \in Commands /\ k.entity = e /\ k.base = Command(e).base /\ k.kill = Command(e).kill
  BY <1>2, <1>3, MergedIs
<1>5. Contained(promised)
  BY DEF Typed
<1>6. Contained(alone) /\ \A y \in Entities : alone[y].alive = promised[y].alive
  BY <1>5, AddedIs
<1> HIDE DEF k, alone
<1>7. QED
  BY <1>1, <1>4, <1>6, CallTyped

LEMMA SetTyped ==
  ASSUME Typed, NEW e \in Entities, NEW c \in Components, NEW v \in Inputs, Set(e, c, v)
  PROVE  Typed'
<1> DEFINE k == Merged(Command(e), c, "copy", v)
           alone == SetAlone(promised, e, c, v)
<1>1. MayCall(e) /\ Record(k, alone)
  BY DEF Set
<1>2. Command(e) \in Commands /\ Command(e).entity = e
  BY CommandSound DEF Typed, Command
<1>3. "copy" \in Ops /\ v \in Values
  BY CommandsAssumption DEF Ops
<1>4. k \in Commands /\ k.entity = e /\ k.base = Command(e).base /\ k.kill = Command(e).kill
  BY <1>2, <1>3, MergedIs
<1>5. Contained(promised)
  BY DEF Typed
<1>6. Contained(alone) /\ \A y \in Entities : alone[y].alive = promised[y].alive
  BY <1>3, <1>5, SetIs
<1> HIDE DEF k, alone
<1>7. QED
  BY <1>1, <1>4, <1>6, CallTyped

LEMMA RemoveTyped ==
  ASSUME Typed, NEW e \in Entities, NEW c \in Components, RemoveComponent(e, c) PROVE Typed'
<1> DEFINE k == Merged(Command(e), c, "remove", Default)
           alone == RemovedAlone(promised, e, c)
<1>1. MayCall(e) /\ Record(k, alone)
  BY DEF RemoveComponent
<1>2. Command(e) \in Commands /\ Command(e).entity = e
  BY CommandSound DEF Typed, Command
<1>3. "remove" \in Ops /\ Default \in Values
  BY CommandsAssumption DEF Ops
<1>4. k \in Commands /\ k.entity = e /\ k.base = Command(e).base /\ k.kill = Command(e).kill
  BY <1>2, <1>3, MergedIs
<1>5. Contained(promised)
  BY DEF Typed
<1>6. Contained(alone) /\ \A y \in Entities : alone[y].alive = promised[y].alive
  BY <1>5, RemovedIs
<1> HIDE DEF k, alone
<1>7. QED
  BY <1>1, <1>4, <1>6, CallTyped

LEMMA IsATyped ==
  ASSUME Typed, NEW e \in Entities, NEW b \in Entities, IsA(e, b) PROVE Typed'
<1> DEFINE k == [Command(e) EXCEPT !.base = b]
           alone == InheritedAlone(promised, e, b)
<1>1. MayCall(e) /\ Record(k, alone) /\ entity[b].alive /\ promised[b].alive
      /\ e \notin Ancestors(promised, b)
  BY DEF IsA
<1>2. Command(e) \in Commands /\ Command(e).entity = e
  BY CommandSound DEF Typed, Command
<1>3. k \in Commands /\ k.entity = e /\ k.base = b /\ k.kill = Command(e).kill
  BY <1>2, RebasedIs
<1>4. Contained(promised)
  BY DEF Typed
<1>5. e # b
  <2>1. Based(promised) /\ b # NoEntity
    BY <1>4, ContainedBased, CommandsAssumption
  <2>2. b \in Ancestors(promised, b)
    BY <2>1, AncestorsAre
  <2>3. QED
    BY <1>1, <2>2
<1>6. Contained(alone) /\ \A y \in Entities : alone[y].alive = promised[y].alive
  <2>1. /\ Contained(alone) /\ alone[b].alive = promised[b].alive
        /\ alone[e].alive = promised[e].alive
        /\ \A f \in Entities : f \notin {e, b} => alone[f] = promised[f]
    BY <1>4, <1>5, InheritedIs
  <2> HIDE DEF alone
  <2>2. QED
    BY <2>1
<1> HIDE DEF k, alone
<1>7. QED
  BY <1>1, <1>3, <1>6, CallTyped

LEMMA KillTyped ==
  ASSUME Typed, NEW e \in Entities, Kill(e) PROVE Typed'
<1> DEFINE k == Killed(Command(e))
           alone == KilledAlone(promised, e)
<1>1. MayCall(e) /\ Record(k, alone) /\ \A f \in Entities : Command(f).base # e
  BY DEF Kill
<1>2. Command(e) \in Commands /\ Command(e).entity = e /\ Distinct(commands)
      /\ Sound(entity, promised, commands)
  BY CommandSound DEF Typed, Command
<1>3. k \in Commands /\ k.entity = e /\ k.base = NoEntity /\ k.kill
  BY <1>2, KillIs
<1>4. Contained(promised)
  BY DEF Typed
<1>5. Contained(alone) /\ alone[e] = Nothing /\ ~Nothing.alive
      /\ \A f \in Entities : f # e => alone[f] = promised[f]
  BY <1>4, KilledIs, NothingIs
<1>6. Scope /\ calls < MaxCalls /\ entity[e].alive
  BY <1>1 DEF MayCall
<1> HIDE DEF k, alone
<1>7. promised' = IF promised[e].alive THEN alone ELSE promised
  BY <1>1, <1>3 DEF Record
<1>8. ~promised'[e].alive /\ \A f \in Entities : f # e => promised'[f] = promised[f]
  BY <1>5, <1>7
<1>9. \A i \in DOMAIN commands :
        commands[i].base # NoEntity => promised'[commands[i].base].alive
  <2>1. SUFFICES ASSUME NEW i \in DOMAIN commands, commands[i].base # NoEntity
                 PROVE  promised'[commands[i].base].alive
    OBVIOUS
  <2>2. commands[i] \in Commands /\ Command(commands[i].entity) = commands[i]
        /\ commands[i].entity \in Entities
    BY <1>2, PlaceAt DEF Command
  <2>3. commands[i].base \in Entities /\ commands[i].base # e
    BY <1>1, <2>1, <2>2, CommandFields
  <2>4. promised[commands[i].base].alive
    BY <1>2, <2>1 DEF Sound
  <2>5. QED
    BY <1>8, <2>3, <2>4
<1>10. \A y \in Entities : promised'[y].alive => promised[y].alive
  BY <1>8
<1>11. QED
  BY <1>1, <1>3, <1>5, <1>6, <1>8, <1>9, <1>10, RecordTyped

(* After a command is applied                                                *)
LEMMA SettleTyped ==
  ASSUME Typed, batch # <<>>, NEW w, NEW t, Settle(w, t), Stored(w.entity, w.table),
         TransitionTyped(t),
         \A y \in Entities : w.entity[y].alive = entity[y].alive
                             \/ (y = Head(batch).entity /\ Head(batch).kill)
  PROVE  Typed'
<1>1. entity' = w.entity /\ table' = w.table /\ batch' = Tail(batch)
      /\ transition' = (IF Len(batch) = 1 THEN NoTransition ELSE t)
      /\ depth' = depth /\ calls' = calls /\ commands' = commands /\ promised' = promised
  BY DEF Settle
<1>2. Distinct(batch) /\ Sound(entity, promised, batch)
  BY DEF Typed
<1>3. /\ Distinct(Tail(batch)) /\ Head(batch) = batch[1] /\ 1 \in DOMAIN batch
      /\ \A i \in DOMAIN Tail(batch) : i + 1 \in DOMAIN batch /\ Tail(batch)[i] = batch[i + 1]
                                       /\ i \in Nat \ {0}
  <2>1. /\ Distinct(Tail(batch)) /\ Head(batch) = batch[1] /\ 1 \in DOMAIN batch
        /\ DOMAIN Tail(batch) = 1..(Len(batch) - 1) /\ Len(batch) \in Nat
        /\ \A i \in DOMAIN Tail(batch) : i + 1 \in DOMAIN batch /\ Tail(batch)[i] = batch[i + 1]
    BY <1>2, TailIs
  <2>2. \A i \in DOMAIN Tail(batch) : i \in Nat \ {0}
    BY <2>1
  <2>3. QED
    BY <2>1, <2>2
<1>4. Sound(w.entity, promised, Tail(batch))
  <2>1. SUFFICES ASSUME NEW i \in DOMAIN batch, i # 1
                 PROVE  /\ w.entity[batch[i].entity].alive
                        /\ batch[i].kill => ~promised[batch[i].entity].alive
                        /\ batch[i].base # NoEntity =>
                             w.entity[batch[i].base].alive /\ promised[batch[i].base].alive
    <3>1. \A i \in DOMAIN Tail(batch) : i + 1 # 1
      BY <1>3
    <3>2. QED
      BY <1>3, <3>1 DEF Sound
  <2>2. batch[i].entity # batch[1].entity
    BY <1>2, <1>3, <2>1 DEF Distinct
  <2>3. batch[i].entity \in Entities /\ batch[i].base \in Entities \cup {NoEntity}
    BY <1>2, PlaceAt, CommandFields
  <2>4. w.entity[batch[i].entity].alive
    BY <1>2, <1>3, <2>2, <2>3 DEF Sound
  <2>5. ASSUME batch[i].base # NoEntity
        PROVE  w.entity[batch[i].base].alive /\ promised[batch[i].base].alive
    <3>1. promised[batch[i].base].alive /\ entity[batch[i].base].alive
      BY <1>2, <2>5 DEF Sound
    <3>2. Head(batch).kill => ~promised[Head(batch).entity].alive
      BY <1>2, <1>3 DEF Sound
    <3>3. w.entity[batch[i].base].alive = entity[batch[i].base].alive
      BY <2>3, <2>5, <3>1, <3>2
    <3>4. QED
      BY <3>1, <3>3
  <2>6. QED
    BY <1>2, <2>4, <2>5 DEF Sound
<1>5. depth = 0 /\ commands = <<>>
  BY DEF Typed
<1>6. TransitionTyped(transition')
  <2>1. TransitionTyped(NoTransition)
    BY DEF TransitionTyped, NoTransition
  <2>2. QED
    BY <1>1, <2>1
<1>7. Sound(entity', promised', commands') /\ Distinct(commands') /\ commands' = <<>>
  BY <1>1, <1>5 DEF Typed, Sound
<1>8. Stored(entity', table') /\ Contained(promised') /\ depth' = 0 /\ depth' \in 0 .. MaxDepth
      /\ calls' \in 0 .. MaxCalls
  BY <1>1, <1>5 DEF Typed
<1>9. Distinct(batch') /\ Sound(entity', promised', batch')
  BY <1>1, <1>3, <1>4
<1>10. QED
  BY <1>6, <1>7, <1>8, <1>9 DEF Typed

(* The first command of a flush                                              *)
LEMMA HeadIs ==
  ASSUME Typed, batch # <<>>
  PROVE  /\ Head(batch) \in Commands /\ Head(batch).entity \in Entities
         /\ Head(batch) = batch[1] /\ 1 \in DOMAIN batch
         /\ entity[Head(batch).entity].alive /\ entity[Head(batch).entity] \in Contents
         /\ Head(batch).kill => ~promised[Head(batch).entity].alive
         /\ Head(batch).base \in Entities \cup {NoEntity}
         /\ Head(batch).base # NoEntity =>
              entity[Head(batch).base].alive /\ promised[Head(batch).base].alive
         /\ depth = 0 /\ commands = <<>> /\ Len(batch) \in Nat \ {0}
<1>1. Distinct(batch) /\ Sound(entity, promised, batch) /\ Contained(entity)
  BY DEF Typed, Stored, Contained
<1>2. Head(batch) = batch[1] /\ 1 \in DOMAIN batch /\ Len(batch) \in Nat \ {0}
  BY <1>1, TailIs
<1>3. batch[1] \in Commands /\ batch[1].entity \in Entities
  BY <1>1, <1>2, PlaceAt
<1>4. batch[1].base \in Entities \cup {NoEntity}
  BY <1>3, CommandFields
<1>5. entity[batch[1].entity] \in Contents
  BY <1>1, <1>3 DEF Contained
<1>6. depth = 0 /\ commands = <<>>
  BY DEF Typed
<1>7. QED
  BY <1>1, <1>2, <1>3, <1>4, <1>5, <1>6 DEF Sound

(* The base of a command is made abstract, in the table of its new type.      *)
LEMMA ReadyIs ==
  ASSUME Typed, batch # <<>>
  PROVE  LET k == Head(batch)
             w == Ready(k)
         IN  /\ Stored(w.entity, w.table)
             /\ w.entity = IF BaseChanged(k, entity[k.entity]) THEN Marked(entity, k.base) ELSE entity
             /\ \A y \in Entities : /\ w.entity[y].alive = entity[y].alive
                                    /\ w.entity[y].base = entity[y].base
                                    /\ w.entity[y].value = entity[y].value
                                    /\ Owned(w.entity[y]) = Owned(entity[y])
<1> DEFINE k == Head(batch)
           b == k.base
           w == Ready(k)
<1>1. b \in Entities \cup {NoEntity} /\ (b # NoEntity => entity[b].alive) /\ k.entity \in Entities
  BY HeadIs
<1>2. Stored(World.entity, World.table) /\ World.entity = entity /\ World.table = table
  BY DEF Typed, World
<1>3. Contained(entity)
  BY <1>2 DEF Stored, Contained
<1>4. CASE ~BaseChanged(k, entity[k.entity])
  <2>1. w = World
    BY <1>4 DEF Ready
  <2>2. QED
    BY <1>2, <1>4, <2>1
<1>5. CASE BaseChanged(k, entity[k.entity])
  <2>1. b \in Entities
    BY <1>1, <1>5 DEF BaseChanged
  <2> DEFINE x == [entity[b] EXCEPT !.abstract = TRUE]
  <2>2. w = Migrate(World, b, x)
    BY <1>2, <1>5 DEF Ready, AbstractNow
  <2>3. Marked(entity, b) = [entity EXCEPT ![b] = x]
    BY DEF Marked
  <2>4. Contained(Marked(entity, b)) /\ \A y \in Entities :
          /\ Marked(entity, b)[y].alive = entity[y].alive
          /\ Marked(entity, b)[y].base = entity[y].base
          /\ Marked(entity, b)[y].value = entity[y].value
          /\ Owned(Marked(entity, b)[y]) = Owned(entity[y])
    BY <1>3, <2>1, MarkedIs
  <2>5. Marked(entity, b)[b] = x
    BY <1>3, <2>1, <2>3 DEF Contained
  <2>6. x \in Contents /\ x.alive
    <3>1. x \in Contents
      BY <2>1, <2>4, <2>5 DEF Contained
    <3>2. x.alive = entity[b].alive
      BY <2>1, <2>4, <2>5
    <3>3. QED
      BY <1>1, <2>1, <3>1, <3>2, CommandsAssumption
  <2> HIDE DEF x
  <2>7. World.entity[b].alive
    BY <1>1, <1>2, <2>1, CommandsAssumption
  <2>8. /\ Stored(Migrate(World, b, x).entity, Migrate(World, b, x).table)
        /\ Migrate(World, b, x).entity = [World.entity EXCEPT ![b] = x]
    BY <1>2, <2>1, <2>6, <2>7, MigratedStored
  <2>9. w.entity = Marked(entity, b) /\ Stored(w.entity, w.table)
    BY <1>2, <2>2, <2>3, <2>8
  <2>10. QED
    BY <1>5, <2>4, <2>9
<1>6. QED
  BY <1>4, <1>5

LEMMA FreshTyped ==
  ASSUME NEW w, NEW k \in Commands, NEW x \in Contents
  PROVE  TransitionTyped(Fresh(w, k, TypeOf(x), x))
<1> DEFINE t == Fresh(w, k, TypeOf(x), x)
           built == BuiltOwned(k, x)
           plan == IF BaseChanged(k, x) THEN Plan(w.entity, k.base, built) ELSE {}
<1>1. t.to = [owned |-> built \cup plan, abstract |-> TypeOf(x).abstract,
              base |-> IF k.base = NoEntity THEN TypeOf(x).base ELSE k.base]
  BY DEF Fresh
<1>2. built \subseteq Components /\ plan \subseteq Components
  BY CommandsAssumption DEF BuiltOwned, Plan, Owned, Kept
<1>3. k.base \in Entities \cup {NoEntity} /\ TypeOf(x).base = x.base
      /\ x.base \in Entities \cup {NoEntity}
  BY CommandFields, ContentsAre DEF TypeOf
<1> HIDE DEF built, plan, t
<1>4. t.to.owned = built \cup plan
      /\ t.to.base = IF k.base = NoEntity THEN TypeOf(x).base ELSE k.base
  BY <1>1
<1>5. QED
  BY <1>2, <1>3, <1>4 DEF TransitionTyped, t

(* The command that a restructuring applies, and the transition it takes      *)
FullFor(k) == IF Hit(k, TypeOf(entity[k.entity])) THEN k ELSE Completed(k)
TransitionFor(k) ==
  IF Hit(k, TypeOf(entity[k.entity])) THEN transition
  ELSE Fresh(Ready(k), FullFor(k), TypeOf(entity[k.entity]), entity[k.entity])
KeptFor(k) ==
  /\ TransitionFor(k).to # TypeOf(entity[k.entity]) /\ ~Hit(k, TypeOf(entity[k.entity]))
  /\ CachedFor(FullFor(k), Tail(batch), TypeOf(entity[k.entity]), Ready(k))
After(k, copied) == Written(FullFor(k), Moved(entity[k.entity], TransitionFor(k), copied))

LEMMA RestructureIs ==
  ASSUME NEW k, Restructure(k)
  PROVE  \E copied \in Reads(Ready(k), TransitionFor(k)) :
           Settle(Migrate(Ready(k), k.entity, After(k, copied)),
                  IF KeptFor(k) THEN TransitionFor(k) ELSE transition)
  BY Zenon DEF Restructure, FullFor, TransitionFor, KeptFor, After

LEMMA ForTyped ==
  ASSUME Typed, batch # <<>>
  PROVE  LET k == Head(batch)
         IN  FullFor(k) \in Commands
             /\ TransitionFor(k).to.base \in Entities \cup {NoEntity}
             /\ TransitionFor(k).to.owned \in SUBSET Components
             /\ TransitionTyped(TransitionFor(k))
<1> DEFINE k == Head(batch)
           x == entity[k.entity]
<1>1. k \in Commands /\ x \in Contents
  BY HeadIs
<1>2. FullFor(k) \in Commands
  BY <1>1, CompletedIs DEF FullFor
<1>3. CASE Hit(k, TypeOf(x))
  <2>1. TransitionFor(k) = transition /\ transition.valid
    BY <1>3 DEF TransitionFor, Hit, TransitionMatches
  <2>2. QED
    BY <1>2, <2>1 DEF Typed, TransitionTyped
<1>4. CASE ~Hit(k, TypeOf(x))
  <2>1. TransitionFor(k) = Fresh(Ready(k), FullFor(k), TypeOf(x), x)
    BY <1>4 DEF TransitionFor
  <2>2. TransitionTyped(TransitionFor(k))
    BY <1>1, <1>2, <2>1, FreshTyped
  <2>3. TransitionFor(k).valid
    BY <2>1 DEF Fresh
  <2>4. QED
    BY <1>2, <2>2, <2>3 DEF TransitionTyped
<1>5. QED
  BY <1>3, <1>4

LEMMA AfterTyped ==
  ASSUME Typed, batch # <<>>, NEW copied \in Reads(Ready(Head(batch)), TransitionFor(Head(batch)))
  PROVE  After(Head(batch), copied) \in Contents /\ After(Head(batch), copied).alive
<1> DEFINE k == Head(batch)
           t == TransitionFor(k)
           D == DOMAIN t.copies
           x == entity[k.entity]
<1>1. copied \in [D -> Values \cup {Absent}]
  BY DEF Reads
<1>2. t.to.owned \in SUBSET Components /\ t.to.base \in Entities \cup {NoEntity}
      /\ FullFor(k) \in Commands
  BY ForTyped
<1>3. x \in Contents /\ x.alive
  BY HeadIs
<1> HIDE DEF D, t, x
<1>4. Moved(x, t, copied) \in Contents /\ Moved(x, t, copied).alive = x.alive
  BY <1>1, <1>2, <1>3, MovedIs
<1> DEFINE z == Moved(x, t, copied)
<1> HIDE DEF z
<1>5. Written(FullFor(k), z) \in Contents /\ Written(FullFor(k), z).alive = z.alive
  BY <1>2, <1>4, WrittenIs DEF z
<1>6. After(k, copied) = Written(FullFor(k), z)
  BY DEF After, z, x, t
<1>7. QED
  BY <1>3, <1>4, <1>5, <1>6 DEF z

LEMMA RestructuredTyped == ASSUME Typed, ApplyRestructured PROVE Typed'
<1> DEFINE k == Head(batch)
           x == entity[k.entity]
           w == Ready(k)
<1>1. batch # <<>> /\ ~k.kill /\ Restructure(k)
  BY DEF ApplyRestructured, Alters
<1>2. PICK copied \in Reads(w, TransitionFor(k)) :
        Settle(Migrate(w, k.entity, After(k, copied)),
               IF KeptFor(k) THEN TransitionFor(k) ELSE transition)
  BY <1>1, RestructureIs
<1>3. k \in Commands /\ k.entity \in Entities /\ x \in Contents /\ x.alive
  BY <1>1, HeadIs
<1>4. /\ Stored(w.entity, w.table)
      /\ \A y \in Entities : w.entity[y].alive = entity[y].alive
  BY <1>1, ReadyIs
<1>5. After(k, copied) \in Contents /\ After(k, copied).alive
  BY <1>1, <1>2, AfterTyped
<1> DEFINE z == After(k, copied)
           m == Migrate(w, k.entity, z)
           t == IF KeptFor(k) THEN TransitionFor(k) ELSE transition
<1>6. TransitionTyped(t)
  <2>1. TransitionTyped(TransitionFor(k)) /\ TransitionTyped(transition)
    BY <1>1, ForTyped DEF Typed
  <2>2. QED
    BY <2>1
<1> HIDE DEF w, z, k, t
<1>7. w.entity[k.entity].alive
  BY <1>3, <1>4
<1>8. z \in Contents /\ z.alive
  BY <1>5 DEF z
<1>9. Stored(m.entity, m.table) /\ m.entity = [w.entity EXCEPT ![k.entity] = z]
  BY <1>3, <1>4, <1>7, <1>8, MigratedStored
<1>10. Settle(m, t)
  BY <1>2 DEF z, t
<1> HIDE DEF m
<1>11. \A y \in Entities : m.entity[y].alive = entity[y].alive
  <2>1. w.entity \in [Entities -> Contents]
    BY <1>4 DEF Stored
  <2>2. entity[k.entity].alive /\ z.alive
    BY <1>3, <1>8 DEF k
  <2>3. \A y \in Entities : y # k.entity => m.entity[y] = w.entity[y]
    BY <1>9, <2>1
  <2>4. m.entity[k.entity] = z
    BY <1>3, <1>9, <2>1
  <2>5. m.entity[k.entity].alive = entity[k.entity].alive
    <3>1. entity[k.entity].alive = TRUE /\ z.alive = TRUE
      BY <1>3, <1>8, ContentsAre DEF k
    <3>2. QED
      BY <2>4, <3>1
  <2>6. QED
    BY <1>4, <2>3, <2>5
<1>12. QED
  BY <1>1, <1>6, <1>9, <1>10, <1>11, SettleTyped DEF k

LEMMA InPlaceTyped == ASSUME Typed, ApplyInPlace PROVE Typed'
<1> DEFINE k == Head(batch)
           x == entity[k.entity]
           z == Written(k, x)
           m == Migrate(World, k.entity, z)
<1>1. batch # <<>> /\ Settle(m, transition)
  BY DEF ApplyInPlace, Alters
<1>2. k \in Commands /\ k.entity \in Entities /\ x \in Contents /\ x.alive
  BY <1>1, HeadIs
<1>3. z \in Contents /\ z.alive = x.alive
  BY <1>2, WrittenIs
<1>4. World.entity = entity /\ World.table = table /\ Stored(entity, table)
  BY DEF World, Typed
<1> HIDE DEF z, x, k
<1>5. Stored(m.entity, m.table) /\ m.entity = [entity EXCEPT ![k.entity] = z]
  <2>1. Stored(World.entity, World.table) /\ World.entity[k.entity].alive /\ z.alive
    BY <1>2, <1>3, <1>4 DEF x
  <2>2. Stored(m.entity, m.table) /\ m.entity = [World.entity EXCEPT ![k.entity] = z]
    BY ONLY <1>2, <1>3, <2>1, MigratedStored
  <2>3. QED
    BY <1>4, <2>2
<1>6. entity \in [Entities -> Contents]
  BY <1>4 DEF Stored
<1> HIDE DEF m
<1>7. \A y \in Entities : m.entity[y].alive = entity[y].alive
  BY <1>2, <1>3, <1>5, <1>6 DEF x
<1>8. TransitionTyped(transition)
  BY DEF Typed
<1>9. QED
  BY <1>1, <1>5, <1>7, <1>8, SettleTyped DEF k

LEMMA ApplyKillTyped == ASSUME Typed, ApplyKill PROVE Typed'
<1> DEFINE k == Head(batch)
           m == KillRow(World, k.entity)
<1>1. batch # <<>> /\ Settle(m, transition) /\ k.kill
  BY DEF ApplyKill
<1>2. k.entity \in Entities /\ entity[k.entity].alive
  BY <1>1, HeadIs
<1>3. m.entity = [entity EXCEPT ![k.entity] = Nothing]
      /\ m.table = Left(table, TypeOf(entity[k.entity]), k.entity) /\ Stored(entity, table)
  BY DEF World, KillRow, Typed
<1>4. Stored(m.entity, m.table)
  BY <1>2, <1>3, LeftStored, NothingIs
<1>5. entity \in [Entities -> Contents]
  BY <1>3 DEF Stored
<1> HIDE DEF m
<1>6. \A y \in Entities : m.entity[y].alive = entity[y].alive \/ (y = k.entity /\ k.kill)
  BY <1>1, <1>3, <1>5
<1>7. TransitionTyped(transition)
  BY DEF Typed
<1>8. QED
  BY <1>1, <1>4, <1>6, <1>7, SettleTyped

LEMMA DeferTyped == ASSUME Typed, DeferBegin \/ DeferEnd PROVE Typed'
<1>1. CASE DeferBegin
  BY <1>1, CommandsAssumption DEF DeferBegin, Typed
<1>2. CASE DeferEnd
  <2>1. depth # 0 /\ batch = <<>> /\ depth' = depth - 1 /\ depth \in Nat /\ depth <= MaxDepth
        /\ entity' = entity /\ table' = table /\ calls' = calls /\ transition' = transition
        /\ promised' = promised
    BY <1>2, CommandsAssumption DEF DeferEnd, Scope, Typed
  <2>2. CASE depth = 1
    <3>1. batch' = commands /\ commands' = <<>> /\ depth' = 0
      BY <1>2, <2>1, <2>2 DEF DeferEnd
    <3>2. Sound(entity', promised', commands') /\ Distinct(commands')
      BY <3>1 DEF Sound, Distinct
    <3>3. Sound(entity', promised', batch') /\ Distinct(batch')
      BY <2>1, <3>1 DEF Typed
    <3>4. Stored(entity', table') /\ Contained(promised') /\ TransitionTyped(transition')
      BY <2>1 DEF Typed
    <3>5. depth' \in 0 .. MaxDepth /\ calls' \in 0 .. MaxCalls
      BY <2>1, <3>1, CommandsAssumption DEF Typed
    <3>6. QED
      BY <3>1, <3>2, <3>3, <3>4, <3>5 DEF Typed
  <2>3. CASE depth # 1
    <3>1. batch' = batch /\ commands' = commands /\ depth' # 0 /\ depth' \in 0 .. MaxDepth
      BY <1>2, <2>1, <2>3, CommandsAssumption DEF DeferEnd
    <3>2. QED
      BY <2>1, <2>3, <3>1 DEF Typed
  <2>4. QED
    BY <2>2, <2>3
<1>3. QED
  BY <1>1, <1>2

-----------------------------------------------------------------------------
(* The first tables. *)

Types == [owned : SUBSET Components, base : Entities \cup {NoEntity}, abstract : BOOLEAN]

(* Tables as they may be whatever is in them                                 *)
AnyTables ==
  UNION {[D -> [rows : Seq(Entities), capacity : Nat]] : D \in SUBSET Types}

LEMMA EnteredAny ==
  ASSUME NEW ts \in AnyTables, NEW type \in Types, NEW e \in Entities
  PROVE  Entered(ts, type, e) \in AnyTables
<1> DEFINE R == [rows : Seq(Entities), capacity : Nat]
           new == Entered(ts, type, e)
<1>1. PICK D \in SUBSET Types : ts \in [D -> R]
  BY DEF AnyTables
<1>2. TableOf(ts, type) \in R
  <2>1. [rows |-> <<>>, capacity |-> 1] \in R
    OBVIOUS
  <2>2. QED
    BY <1>1, <2>1 DEF TableOf
<1>3. \A t \in R : Grown(t, e) \in R
  <2>1. SUFFICES ASSUME NEW t \in R PROVE Grown(t, e) \in R
    OBVIOUS
  <2>2. t.rows \in Seq(Entities) /\ t.capacity \in Nat
    OBVIOUS
  <2>3. Append(t.rows, e) \in Seq(Entities) /\ 2 * t.capacity \in Nat
    BY <2>2
  <2>4. QED
    BY <2>2, <2>3 DEF Grown
<1> HIDE DEF R
<1>4. new = [u \in D \cup {type} |-> IF u = type THEN Grown(TableOf(ts, u), e) ELSE ts[u]]
  BY <1>1 DEF Entered
<1>5. new \in [D \cup {type} -> R]
  BY <1>1, <1>2, <1>3, <1>4
<1>6. D \cup {type} \in SUBSET Types
  BY <1>1
<1>7. QED
  BY <1>5, <1>6 DEF AnyTables, R

LEMMA TypeIs == ASSUME NEW x \in Contents PROVE TypeOf(x) \in Types
<1>1. Owned(x) \in SUBSET Components /\ x.base \in Entities \cup {NoEntity} /\ x.abstract \in BOOLEAN
  BY ContentsAre
<1>2. QED
  BY <1>1 DEF TypeOf, Types

(* What the recursion for the first tables gives, step by step               *)
Fills(es, order, f) ==
  f = [n \in 0 .. Len(order) |->
         IF n = 0 THEN <<>> ELSE Entered(f[n - 1], TypeOf(es[order[n]]), order[n])]

LEMMA FilledIs ==
  ASSUME NEW es \in [Entities -> Contents], NEW order \in Seq(Entities)
  PROVE  \E f : Fills(es, order, f) /\ Filled(es, order) = f[Len(order)]
<1> DEFINE N == Len(order)
           step == [n \in Nat |-> [ts \in AnyTables |->
                      IF n \in 1..N THEN Entered(ts, TypeOf(es[order[n]]), order[n]) ELSE ts]]
<1>1. N \in Nat /\ \A n \in 1..N : order[n] \in Entities
  OBVIOUS
<1>2. step \in [Nat -> [AnyTables -> AnyTables]]
  <2>1. ASSUME NEW n \in 1..N, NEW ts \in AnyTables
        PROVE  Entered(ts, TypeOf(es[order[n]]), order[n]) \in AnyTables
    <3>1. TypeOf(es[order[n]]) \in Types
      BY <1>1, TypeIs
    <3>2. QED
      BY <1>1, <3>1, EnteredAny
  <2>2. ASSUME NEW n \in Nat, NEW ts \in AnyTables
        PROVE  (IF n \in 1..N THEN Entered(ts, TypeOf(es[order[n]]), order[n]) ELSE ts) \in AnyTables
    BY <2>1
  <2> HIDE DEF AnyTables, N
  <2>3. QED
    BY <2>2, Zenon
<1>3. <<>> \in AnyTables
  <2>1. <<>> \in [{} -> [rows : Seq(Entities), capacity : Nat]]
    OBVIOUS
  <2>2. QED
    BY <2>1 DEF AnyTables
<1>4. \A n \in 1..N : \A ts \in AnyTables :
        step[n][ts] = Entered(ts, TypeOf(es[order[n]]), order[n])
  <2>1. \A n \in 1..N : n \in Nat
    OBVIOUS
  <2> HIDE DEF N
  <2>2. QED
    BY <2>1
<1> HIDE DEF step
<1>5. PICK g \in [Nat -> AnyTables] : g[0] = <<>> /\ \A n \in Nat \ {0} : g[n] = step[n][g[n - 1]]
  <2>1. Iterates(AnyTables, <<>>, step) # {}
    BY ONLY <1>2, <1>3, IteratesExist
  <2>2. QED
    BY <2>1 DEF Iterates
<1> DEFINE f == [n \in 0..N |-> g[n]]
<1>6. f[0] = <<>>
  BY <1>1, <1>5
<1>7. ASSUME NEW n \in 0..N, n # 0
      PROVE  f[n] = Entered(f[n - 1], TypeOf(es[order[n]]), order[n])
  <2>1. n \in 1..N /\ n \in Nat \ {0} /\ n - 1 \in 0..N /\ n - 1 \in Nat
    BY <1>1, <1>7
  <2>2. f[n] = g[n] /\ f[n - 1] = g[n - 1] /\ g[n - 1] \in AnyTables /\ g[n] = step[n][g[n - 1]]
    BY <1>5, <2>1
  <2>3. QED
    BY <1>4, <2>1, <2>2
<1>8. Fills(es, order, f)
  <2> DEFINE h == [n \in 0 .. N |->
                     IF n = 0 THEN <<>> ELSE Entered(f[n - 1], TypeOf(es[order[n]]), order[n])]
  <2>1. \A n \in 0..N : f[n] = h[n]
    BY <1>6, <1>7
  <2>2. DOMAIN f = 0..N /\ DOMAIN h = 0..N /\ f = [n \in 0..N |-> f[n]] /\ h = [n \in 0..N |-> h[n]]
    OBVIOUS
  <2> HIDE DEF f, h
  <2>3. f = h
    BY <2>1, <2>2
  <2>4. QED
    BY <2>3 DEF Fills, h
<1> DEFINE filled == CHOOSE k : Fills(es, order, k)
<1>9. Fills(es, order, filled)
  BY <1>8
<1>10. Filled(es, order) = filled[Len(order)]
  BY DEF Filled, Fills
<1>11. QED
  BY <1>9, <1>10

(* Of each thing on the order, whether it is among the first n               *)
Among(order, n) == {order[i] : i \in 1..n}
Part(es, order, n) == [e \in Entities |-> IF e \in Among(order, n) THEN es[e] ELSE Nothing]

LEMMA FilledStored ==
  ASSUME NEW es \in [Entities -> Contents], NEW order \in Seq(Entities),
         \A i, j \in 1..Len(order) : order[i] = order[j] => i = j,
         \A e \in Entities : es[e].alive
  PROVE  Stored(Part(es, order, Len(order)), Filled(es, order))
<1> DEFINE N == Len(order)
           P(n) == Part(es, order, n)
<1>1. N \in Nat /\ \A n \in 1..N : order[n] \in Entities
  OBVIOUS
<1>2. PICK f : Fills(es, order, f) /\ Filled(es, order) = f[N]
  BY FilledIs
<1>3. f[0] = <<>> /\ \A n \in 1..N : f[n] = Entered(f[n - 1], TypeOf(es[order[n]]), order[n])
  BY <1>1, <1>2 DEF Fills
<1> DEFINE Bad == {n \in 0..N : ~Stored(P(n), f[n])}
<1>4. Bad = {}
  <2>1. SUFFICES ASSUME Bad # {} PROVE FALSE
    OBVIOUS
  <2>2. PICK n \in Bad : \A m \in Bad : n <= m
    <3>1. Bad \in SUBSET Nat
      BY <1>1
    <3>2. QED
      BY ONLY <2>1, <3>1, LeastOf
  <2>3. CASE n = 0
    <3>1. P(0) = [e \in Entities |-> Nothing]
      BY DEF Part, Among
    <3>2. Stored(P(0), <<>>)
      BY <3>1, NothingIs DEF Stored
    <3>3. QED
      BY <1>3, <2>3, <3>2
  <2>4. CASE n # 0
    <3>1. n \in 1..N /\ n - 1 \in 0..N
      BY <1>1, <2>4
    <3>2. Stored(P(n - 1), f[n - 1])
      BY <2>2, <3>1
    <3>3. Among(order, n) = Among(order, n - 1) \cup {order[n]}
      <4>1. 1..n = 1..(n - 1) \cup {n}
        BY <3>1
      <4>2. QED
        BY <4>1 DEF Among
    <3>4. order[n] \notin Among(order, n - 1)
      BY <1>1, <3>1 DEF Among
    <3> DEFINE e == order[n]
               x == es[e]
    <3>5. e \in Entities /\ x \in Contents /\ x.alive
      BY <1>1, <3>1
    <3>6. P(n) = [P(n - 1) EXCEPT ![e] = x]
      BY <3>3, <3>4, <3>5 DEF Part
    <3>7. ~P(n - 1)[e].alive
      BY <3>4, <3>5, NothingIs DEF Part
    <3>8. f[n] = Entered(f[n - 1], TypeOf(x), e)
      BY <1>3, <3>1
    <3> HIDE DEF P, x, e
    <3>9. Stored([P(n - 1) EXCEPT ![e] = x], Entered(f[n - 1], TypeOf(x), e))
      BY <3>2, <3>5, <3>7, EnteredStored
    <3>10. Stored(P(n), f[n])
      BY <3>6, <3>8, <3>9
    <3>11. QED
      BY <3>10
  <2>5. QED
    BY <2>3, <2>4
<1>5. QED
  BY <1>1, <1>2, <1>4

(* An order of a finite set has all of it.                                   *)
LEMMA OrderHasAll ==
  ASSUME NEW order \in SetToSeqs(Entities)
  PROVE  /\ order \in Seq(Entities) /\ Among(order, Len(order)) = Entities
         /\ \A i, j \in 1..Len(order) : order[i] = order[j] => i = j
<1> DEFINE N == Cardinality(Entities)
<1>1. N \in Nat /\ IsFiniteSet(Entities)
  BY CommandsAssumption, FS_CardinalityType
<1>2. order \in [1..N -> Entities] /\ \A i, j \in 1..N : i # j => order[i] # order[j]
  BY DEF SetToSeqs
<1>3. order \in Seq(Entities) /\ Len(order) = N
  BY <1>1, <1>2
<1>4. Cardinality(Among(order, N)) = N
  <2>1. DOMAIN order = 1..N /\ \A i, j \in 1..N : order[i] = order[j] => i = j
    BY <1>2
  <2> HIDE DEF N
  <2>2. QED
    BY <1>1, <2>1, CountOfDistinct DEF Among
<1>5. Among(order, N) \subseteq Entities
  BY <1>2 DEF Among
<1>6. Among(order, N) = Entities
  BY <1>1, <1>4, <1>5, FS_Subset
<1>7. QED
  BY <1>2, <1>3, <1>6

(* What Init says of the contents and the order that it chooses              *)
Starting(start, order) ==
  /\ entity = [e \in Entities |-> Loaded(start[e])]
  /\ table = Filled(entity, order)
  /\ depth = 0 /\ calls = 0 /\ commands = <<>> /\ batch = <<>>
  /\ transition = NoTransition /\ promised = entity

LEMMA InitIs == Init => \E start \in Starts, order \in SetToSeqs(Entities) : Starting(start, order)
  BY Zenon DEF Init, Starting

LEMMA TypedInit == Init => Typed
<1> SUFFICES ASSUME Init PROVE Typed
  OBVIOUS
<1>1. PICK start \in Starts, order \in SetToSeqs(Entities) : Starting(start, order)
  BY ONLY Init, InitIs
<1>2. depth = 0 /\ calls = 0 /\ commands = <<>> /\ batch = <<>>
      /\ transition = NoTransition /\ promised = entity
  BY <1>1 DEF Starting
<1>3. start \in [Entities -> [Components -> Values \cup {Absent}]]
  BY CommandsAssumption
<1>4. ASSUME NEW e \in Entities PROVE entity[e] \in Contents /\ entity[e].alive
  <2>1. entity[e] = [alive |-> TRUE, abstract |-> FALSE, base |-> NoEntity, value |-> start[e]]
    BY <1>1 DEF Starting, Loaded
  <2>2. QED
    BY <1>3, <2>1 DEF Contents
<1>5. entity \in [Entities -> Contents]
  BY <1>1, <1>4 DEF Starting
<1>6. Stored(entity, table)
  <2>1. order \in Seq(Entities) /\ Among(order, Len(order)) = Entities
        /\ \A i, j \in 1..Len(order) : order[i] = order[j] => i = j
    BY OrderHasAll
  <2>2. Part(entity, order, Len(order)) = entity
    BY <1>5, <2>1 DEF Part
  <2>3. Stored(Part(entity, order, Len(order)), Filled(entity, order))
    BY <1>4, <1>5, <2>1, FilledStored
  <2>4. QED
    BY <1>1, <2>2, <2>3 DEF Starting
<1>7. Distinct(<<>>)
  BY DEF Distinct
<1>8. Sound(entity, promised, <<>>)
  BY DEF Sound
<1>9. QED
  BY <1>2, <1>5, <1>6, <1>7, <1>8, CommandsAssumption
     DEF Typed, Contained, TransitionTyped, NoTransition

LEMMA TypedStep == ASSUME Typed, [Next]_vars PROVE Typed'
<1>1. ASSUME NEW e \in Entities, Kill(e) PROVE Typed'
  BY <1>1, KillTyped
<1>2. ASSUME NEW e \in Entities, NEW b \in Entities, IsA(e, b) PROVE Typed'
  BY <1>2, IsATyped
<1>3. ASSUME NEW e \in Entities, NEW c \in Components, Add(e, c) PROVE Typed'
  BY <1>3, AddTyped
<1>4. ASSUME NEW e \in Entities, NEW c \in Components, RemoveComponent(e, c) PROVE Typed'
  BY <1>4, RemoveTyped
<1>5. ASSUME NEW e \in Entities, NEW c \in Components, NEW v \in Inputs, Set(e, c, v) PROVE Typed'
  BY <1>5, SetTyped
<1>6. CASE DeferBegin \/ DeferEnd
  BY <1>6, DeferTyped
<1>7. CASE ApplyKill
  BY <1>7, ApplyKillTyped
<1>8. CASE ApplyInPlace
  BY <1>8, InPlaceTyped
<1>9. CASE ApplyRestructured
  BY <1>9, RestructuredTyped
<1>10. CASE UNCHANGED vars
  BY <1>10 DEF vars, Typed, Stored, Contained, Distinct, Sound, TransitionTyped
<1>11. QED
  BY <1>1, <1>2, <1>3, <1>4, <1>5, <1>6, <1>7, <1>8, <1>9, <1>10 DEF Next

(* Whatever a program records and in whatever order the flush migrates its   *)
(* entities, every living entity stands once in the table of its type and    *)
(* in no other, and no table has more rows than room.                        *)
THEOREM RowsFollowTypes == Spec => []TypeOK
<1>1. Typed /\ [Next]_vars => Typed'
  BY TypedStep
<1>2. QED
  BY TypedInit, TypedOK, <1>1, PTL DEF Spec

-----------------------------------------------------------------------------
(* What a command makes of its entity. *)

Required(k) == UNION {Requires[c] : c \in Kept(k)}

(* The components that k leaves or gives to x, and those it copies           *)
Built(k, x) == (Owned(x) \ {c \in Components : k.op[c] = "remove"}) \cup Kept(k) \cup Required(k)
Copies(k, x, es) == IF BaseChanged(k, x) THEN Plan(es, k.base, Built(k, x)) ELSE {}

ResultAt(k, x, es, c) ==
  IF k.op[c] = "copy" THEN k.data[c]
  ELSE IF c \in Copies(k, x, es) THEN es[Provider(es, k.base, c)].value[c]
  ELSE IF c \notin Built(k, x) THEN Absent
  ELSE IF x.value[c] = Absent THEN Default ELSE x.value[c]

LEMMA BuiltIs ==
  ASSUME NEW k \in Commands, NEW x \in Contents
  PROVE  /\ Kept(k) \subseteq Components /\ Required(k) \subseteq Components
         /\ Built(k, x) \subseteq Components
         /\ \A es : Copies(k, x, es) \subseteq Components
         /\ \A es : \A c \in Copies(k, x, es) : c \notin Built(k, x)
         /\ \A c \in Components : k.op[c] = "copy" => c \in Kept(k)
         /\ \A c \in Components : c \in Kept(k) <=> k.op[c] \in {"add", "copy"}
<1>1. Kept(k) \subseteq Components /\ \A c \in Components : c \in Kept(k) <=> k.op[c] \in {"add", "copy"}
  BY DEF Kept
<1>2. Required(k) \subseteq Components
  BY <1>1, CommandsAssumption DEF Required
<1>3. Built(k, x) \subseteq Components
  BY <1>1, <1>2 DEF Built, Owned
<1>4. \A es : Copies(k, x, es) \subseteq Components /\ \A c \in Copies(k, x, es) : c \notin Built(k, x)
  BY CommandsAssumption DEF Copies, Plan
<1>5. QED
  BY <1>1, <1>2, <1>3, <1>4

(* What is copied comes from an entity of the line that has it.              *)
LEMMA CopiedFrom ==
  ASSUME NEW k \in Commands, NEW x \in Contents, NEW es, Contained(es), NEW c \in Copies(k, x, es)
  PROVE  /\ BaseChanged(k, x) /\ k.base \in Entities /\ c \in Components
         /\ Provider(es, k.base, c) \in Ancestors(es, k.base)
         /\ Provider(es, k.base, c) \in Entities
         /\ c \in Owned(es[Provider(es, k.base, c)])
         /\ es[Provider(es, k.base, c)].value[c] # Absent
<1>1. BaseChanged(k, x) /\ c \in Plan(es, k.base, Built(k, x))
  BY DEF Copies
<1>2. k.base \in Entities
  BY <1>1, CommandFields DEF BaseChanged
<1>3. \E y \in Ancestors(es, k.base) : c \in Owned(es[y])
  BY <1>1 DEF Plan
<1>4. Based(es)
  BY ContainedBased
<1>5. Provider(es, k.base, c) \in Ancestors(es, k.base) /\ c \in Owned(es[Provider(es, k.base, c)])
  BY <1>2, <1>3, <1>4, ProviderIs
<1>6. Provider(es, k.base, c) \in Entities
  BY <1>2, <1>4, <1>5, AncestorsAre
<1>7. QED
  BY <1>1, <1>2, <1>5, <1>6 DEF Owned

(* The components that a command gives a value                               *)
LEMMA ResultOwned ==
  ASSUME NEW k \in Commands, NEW x \in Contents, NEW es, Contained(es), NEW c \in Components
  PROVE  ResultAt(k, x, es, c) # Absent <=> c \in Built(k, x) \cup Copies(k, x, es)
<1>1. k.data[c] \in Values /\ x.value[c] \in Values \cup {Absent}
      /\ Default # Absent /\ Absent \notin Values
  BY CommandFields, ContentsAre, CommandsAssumption
<1>2. CASE k.op[c] = "copy"
  <2>1. c \in Built(k, x)
    BY <1>2, BuiltIs DEF Built
  <2>2. QED
    BY <1>1, <1>2, <2>1 DEF ResultAt
<1>3. CASE k.op[c] # "copy" /\ c \in Copies(k, x, es)
  BY <1>3, CopiedFrom DEF ResultAt
<1>4. CASE k.op[c] # "copy" /\ c \notin Copies(k, x, es)
  BY <1>1, <1>4 DEF ResultAt
<1>5. QED
  BY <1>2, <1>3, <1>4

(* Only the line of the base matters to a result.                            *)
LEMMA ResultSame ==
  ASSUME NEW k \in Commands, NEW x \in Contents, NEW es, Contained(es), NEW fs, Contained(fs),
         BaseChanged(k, x) =>
           \A y \in Ancestors(es, k.base) : fs[y].base = es[y].base /\ fs[y].value = es[y].value
  PROVE  /\ Copies(k, x, fs) = Copies(k, x, es)
         /\ \A c \in Components : ResultAt(k, x, fs, c) = ResultAt(k, x, es, c)
         /\ BaseChanged(k, x) => Ancestors(fs, k.base) = Ancestors(es, k.base)
<1>1. CASE ~BaseChanged(k, x)
  BY <1>1 DEF Copies, ResultAt
<1>2. CASE BaseChanged(k, x)
  <2>1. k.base \in Entities
    BY <1>2, CommandFields DEF BaseChanged
  <2>2. Based(es) /\ Based(fs)
    BY ContainedBased
  <2>3. \A y \in Ancestors(es, k.base) : fs[y].base = es[y].base /\ Owned(fs[y]) = Owned(es[y])
    BY <1>2 DEF Owned
  <2>4. /\ Ancestors(fs, k.base) = Ancestors(es, k.base)
        /\ \A c : Provider(fs, k.base, c) = Provider(es, k.base, c)
        /\ \A owned : Plan(fs, k.base, owned) = Plan(es, k.base, owned)
    BY <2>1, <2>2, <2>3, SameProvider
  <2>5. Copies(k, x, fs) = Copies(k, x, es)
    BY <1>2, <2>4 DEF Copies
  <2>6. \A c \in Copies(k, x, es) : fs[Provider(es, k.base, c)].value = es[Provider(es, k.base, c)].value
    BY <1>2, CopiedFrom
  <2>7. ASSUME NEW c \in Components PROVE ResultAt(k, x, fs, c) = ResultAt(k, x, es, c)
    <3>1. CASE c \in Copies(k, x, es)
      BY <2>4, <2>5, <2>6, <3>1 DEF ResultAt
    <3>2. CASE c \notin Copies(k, x, es)
      BY <2>5, <3>2 DEF ResultAt
    <3>3. QED
      BY <3>1, <3>2
  <2>8. QED
    BY <2>4, <2>5, <2>7
<1>3. QED
  BY <1>1, <1>2

-----------------------------------------------------------------------------
(* An entity, its command and what is promised of it. *)

(* What a kept component requires is there when the component is, and is not  *)
(* taken away.                                                               *)
Brings(k, x) ==
  \A c \in Kept(k) : \A d \in Requires[c] :
    (c \in Owned(x) => d \in Owned(x)) /\ (k.op[d] = "remove" => d \notin Owned(x))

Fit(e, k, x, p, seen) ==
  /\ p.alive <=> x.alive /\ ~k.kill
  /\ ~p.alive => p = Nothing
  /\ ~x.alive => x = Nothing
  /\ p.alive =>
       /\ p.base = IF k.base = NoEntity THEN x.base ELSE k.base
       /\ \A c \in Components : p.value[c] = ResultAt(k, x, seen, c)
       /\ Brings(k, x)
       /\ BaseChanged(k, x) => e \notin Ancestors(seen, k.base)

LEMMA FitSeen ==
  ASSUME NEW e, NEW k \in Commands, NEW x \in Contents, NEW p, NEW es, Contained(es),
         NEW fs, Contained(fs), Fit(e, k, x, p, es),
         p.alive /\ BaseChanged(k, x) =>
           \A y \in Ancestors(es, k.base) : fs[y].base = es[y].base /\ fs[y].value = es[y].value
  PROVE  Fit(e, k, x, p, fs)
<1>1. CASE ~p.alive
  BY <1>1 DEF Fit
<1>2. CASE p.alive
  <2>1. /\ \A c \in Components : ResultAt(k, x, fs, c) = ResultAt(k, x, es, c)
        /\ BaseChanged(k, x) => Ancestors(fs, k.base) = Ancestors(es, k.base)
    BY <1>2, ResultSame
  <2>2. QED
    BY <1>2, <2>1 DEF Fit
<1>3. QED
  BY <1>1, <1>2

(* What a living entity is promised to own                                   *)
LEMMA FitOwned ==
  ASSUME NEW e, NEW k \in Commands, NEW x \in Contents, NEW p \in Contents, NEW es, Contained(es),
         Fit(e, k, x, p, es), p.alive
  PROVE  \A c \in Components : c \in Owned(p) <=> c \in Built(k, x) \cup Copies(k, x, es)
<1>1. SUFFICES ASSUME NEW c \in Components
               PROVE c \in Owned(p) <=> c \in Built(k, x) \cup Copies(k, x, es)
  OBVIOUS
<1>2. p.value[c] = ResultAt(k, x, es, c)
  BY DEF Fit
<1>3. c \in Owned(p) <=> p.value[c] # Absent
  BY DEF Owned
<1>4. QED
  BY <1>2, <1>3, ResultOwned

-----------------------------------------------------------------------------
(* One call more, for the entity that it is about. *)

(* A component added or set                                                  *)
LEMMA MoreBuilt ==
  ASSUME NEW k \in Commands, NEW m \in Commands, NEW x \in Contents, NEW c \in Components,
         \A d \in Components : d # c => m.op[d] = k.op[d] /\ m.data[d] = k.data[d],
         m.op[c] \in {"add", "copy"}, m.base = k.base
  PROVE  /\ Kept(m) = Kept(k) \cup {c}
         /\ Built(m, x) = Built(k, x) \cup {c} \cup Requires[c]
         /\ BaseChanged(m, x) <=> BaseChanged(k, x)
         /\ \A es : Copies(m, x, es) = Copies(k, x, es) \ ({c} \cup Requires[c])
         /\ \A es : \A d \in Components \ ({c} \cup Requires[c]) :
              ResultAt(m, x, es, d) = ResultAt(k, x, es, d)
<1>1. Kept(m) = Kept(k) \cup {c}
  BY DEF Kept
<1>2. Required(m) = Required(k) \cup Requires[c]
  BY <1>1 DEF Required
<1>3. Requires[c] \subseteq Components
  BY CommandsAssumption
<1>4. \A d \in Components : d \in Built(m, x) <=> d \in Built(k, x) \cup {c} \cup Requires[c]
  BY <1>1, <1>2 DEF Built
<1>5. Built(m, x) \subseteq Components /\ Built(k, x) \subseteq Components
  BY BuiltIs
<1>6. Built(m, x) = Built(k, x) \cup {c} \cup Requires[c]
  BY <1>3, <1>4, <1>5
<1>7. BaseChanged(m, x) <=> BaseChanged(k, x)
  BY DEF BaseChanged
<1>8. ASSUME NEW es PROVE Copies(m, x, es) = Copies(k, x, es) \ ({c} \cup Requires[c])
  BY <1>6, <1>7 DEF Copies, Plan
<1>9. ASSUME NEW es, NEW d \in Components \ ({c} \cup Requires[c])
      PROVE  ResultAt(m, x, es, d) = ResultAt(k, x, es, d)
  <2>1. m.op[d] = k.op[d] /\ m.data[d] = k.data[d]
    OBVIOUS
  <2>2. d \in Copies(m, x, es) <=> d \in Copies(k, x, es)
    BY <1>8
  <2>3. d \in Built(m, x) <=> d \in Built(k, x)
    BY <1>6
  <2>4. QED
    BY <2>1, <2>2, <2>3 DEF ResultAt
<1>10. QED
  BY <1>1, <1>6, <1>7, <1>8, <1>9

(* What comes along with a component: nothing of it is copied or was removed *)
Along(k, x, p, es, S) ==
  /\ \A d \in S : k.op[d] = "remove" => d \notin Owned(x)
  /\ BaseChanged(k, x) => \A d \in S : d \notin Plan(es, k.base, {})

(* A required component, or one that is added: it keeps the value promised,  *)
(* and is there with the default when none was.                              *)
LEMMA AlongResult ==
  ASSUME NEW e, NEW k \in Commands, NEW m \in Commands, NEW x \in Contents, NEW p \in Contents,
         NEW es, Contained(es), Fit(e, k, x, p, es), p.alive, NEW c \in Components,
         \A d \in Components : d # c => m.op[d] = k.op[d] /\ m.data[d] = k.data[d],
         m.op[c] \in {"add", "copy"}, m.base = k.base,
         NEW S, S \subseteq {c} \cup Requires[c], Along(k, x, p, es, S),
         NEW d \in S, m.op[d] = "copy" => k.op[d] = "copy" /\ m.data[d] = k.data[d],
         k.op[d] = "copy" => m.op[d] = "copy"
  PROVE  ResultAt(m, x, es, d) = IF d \in Owned(p) THEN p.value[d] ELSE Default
<1>1. d \in Components
  BY CommandsAssumption
<1>2. d \in Built(m, x) /\ d \notin Copies(m, x, es)
  BY MoreBuilt
<1>3. p.value[d] = ResultAt(k, x, es, d)
  BY <1>1 DEF Fit
<1>4. d \notin Copies(k, x, es)
  <2>1. ASSUME d \in Copies(k, x, es) PROVE FALSE
    <3>1. BaseChanged(k, x) /\ d \in Plan(es, k.base, Built(k, x))
      BY <2>1 DEF Copies
    <3>2. d \in Plan(es, k.base, {})
      BY <3>1 DEF Plan
    <3>3. QED
      BY <3>1, <3>2 DEF Along
  <2>2. QED
    BY <2>1
<1>5. d \in Owned(p) <=> d \in Built(k, x)
  BY <1>1, <1>4, FitOwned
<1>6. CASE k.op[d] = "copy"
  <2>1. d \in Built(k, x)
    BY <1>1, <1>6, BuiltIs DEF Built
  <2>2. ResultAt(m, x, es, d) = k.data[d] /\ ResultAt(k, x, es, d) = k.data[d]
    BY <1>6 DEF ResultAt
  <2>3. QED
    BY <1>3, <1>5, <2>1, <2>2
<1>7. CASE k.op[d] # "copy"
  <2>1. ResultAt(m, x, es, d) = IF x.value[d] = Absent THEN Default ELSE x.value[d]
    BY <1>2, <1>7 DEF ResultAt
  <2>2. CASE d \in Built(k, x)
    <3>1. ResultAt(k, x, es, d) = IF x.value[d] = Absent THEN Default ELSE x.value[d]
      BY <1>4, <1>7, <2>2 DEF ResultAt
    <3>2. QED
      BY <1>3, <1>5, <2>1, <2>2, <3>1
  <2>3. CASE d \notin Built(k, x)
    <3>1. d \notin Owned(x)
      BY <1>1, <2>3 DEF Along, Built
    <3>2. x.value[d] = Absent
      BY <1>1, <3>1 DEF Owned
    <3>3. QED
      BY <1>5, <2>1, <2>3, <3>2
  <2>4. QED
    BY <2>2, <2>3
<1>8. QED
  BY <1>6, <1>7

(* What a command that keeps one component more asks of the required ones    *)
LEMMA MoreRequired ==
  ASSUME NEW k \in Commands, NEW m \in Commands, NEW x \in Contents, NEW c \in Components,
         \A d \in Components : d # c => m.op[d] = k.op[d] /\ m.data[d] = k.data[d],
         m.op[c] \in {"add", "copy"}, m.base = k.base,
         Brings(k, x),
         c \in Owned(x) => Requires[c] \subseteq Owned(x),
         \A d \in Requires[c] : k.op[d] = "remove" => d \notin Owned(x)
  PROVE  Brings(m, x)
<1>1. SUFFICES ASSUME NEW a \in Kept(m), NEW d \in Requires[a]
               PROVE  (a \in Owned(x) => d \in Owned(x)) /\ (m.op[d] = "remove" => d \notin Owned(x))
  BY DEF Brings
<1>2. a \in Components /\ d \in Components
  BY CommandsAssumption DEF Kept
<1>3. Kept(m) = Kept(k) \cup {c}
  BY MoreBuilt
<1>4. m.op[d] = "remove" => d # c /\ k.op[d] = "remove"
  BY <1>2
<1>5. CASE a = c
  BY <1>4, <1>5
<1>6. CASE a # c
  BY <1>3, <1>4, <1>6 DEF Brings
<1>7. QED
  BY <1>5, <1>6

LEMMA AddFits ==
  ASSUME NEW e, NEW k \in Commands, NEW x \in Contents, NEW p \in Contents,
         NEW es, Contained(es), Fit(e, k, x, p, es), p.alive, NEW c \in Components,
         \A y \in {x, p} : c \in Owned(y) => Requires[c] \subseteq Owned(y),
         Along(k, x, p, es, {c} \cup Requires[c]),
         NEW q \in Contents, q.alive = p.alive, q.base = p.base,
         \A d \in Components :
           q.value[d] = IF c \in Owned(p) \/ d \in Owned(p) \/ d \notin {c} \cup Requires[c]
                        THEN p.value[d] ELSE Default
  PROVE  Fit(e, Merged(k, c, "add", Default), x, q, es)
<1> DEFINE m == Merged(k, c, "add", Default)
<1>1. /\ m \in Commands /\ m.base = k.base /\ m.kill = k.kill
      /\ \A d \in Components : d # c => m.op[d] = k.op[d] /\ m.data[d] = k.data[d]
      /\ m.op[c] = IF k.op[c] \in {"add", "copy"} THEN k.op[c] ELSE "add"
      /\ m.data[c] = IF k.op[c] \in {"add", "copy"} THEN k.data[c] ELSE Default
  <2>1. "add" \in Ops /\ Default \in Values
    BY CommandsAssumption DEF Ops
  <2>2. QED
    BY <2>1, MergedIs
<1> HIDE DEF m
<1>2. m.op[c] \in {"add", "copy"}
  BY <1>1
<1>3. Requires[c] \subseteq Components
  BY CommandsAssumption
<1>4. ASSUME NEW d \in {c} \cup Requires[c] PROVE q.value[d] = ResultAt(m, x, es, d)
  <2>1. d \in Components
    BY <1>3
  <2>2. (m.op[d] = "copy" => k.op[d] = "copy" /\ m.data[d] = k.data[d])
        /\ (k.op[d] = "copy" => m.op[d] = "copy")
    BY <1>1, <2>1
  <2>3. ResultAt(m, x, es, d) = IF d \in Owned(p) THEN p.value[d] ELSE Default
    BY <1>1, <1>2, <2>2, AlongResult
  <2>4. CASE d \in Owned(p)
    BY <2>1, <2>3, <2>4
  <2>5. CASE d \notin Owned(p)
    <3>1. c \notin Owned(p)
      BY <2>5
    <3>2. QED
      BY <2>1, <2>3, <2>5, <3>1
  <2>6. QED
    BY <2>4, <2>5
<1>5. ASSUME NEW d \in Components, d \notin {c} \cup Requires[c]
      PROVE  q.value[d] = ResultAt(m, x, es, d)
  <2>1. ResultAt(m, x, es, d) = ResultAt(k, x, es, d)
    BY <1>1, <1>2, <1>5, MoreBuilt
  <2>2. p.value[d] = ResultAt(k, x, es, d)
    BY DEF Fit
  <2>3. QED
    BY <1>5, <2>1, <2>2
<1>6. Brings(m, x)
  <2>1. Brings(k, x)
    BY DEF Fit
  <2>2. \A d \in Requires[c] : k.op[d] = "remove" => d \notin Owned(x)
    BY DEF Along
  <2>3. QED
    BY <1>1, <1>2, <2>1, <2>2, MoreRequired
<1>7. BaseChanged(m, x) => BaseChanged(k, x)
  BY <1>1 DEF BaseChanged
<1>8. \A d \in Components : q.value[d] = ResultAt(m, x, es, d)
  BY <1>4, <1>5
<1>9. QED
  BY <1>1, <1>6, <1>7, <1>8 DEF Fit, m

LEMMA SetFits ==
  ASSUME NEW e, NEW k \in Commands, NEW x \in Contents, NEW p \in Contents,
         NEW es, Contained(es), Fit(e, k, x, p, es), p.alive, NEW c \in Components,
         NEW v \in Values,
         \A y \in {x, p} : c \in Owned(y) => Requires[c] \subseteq Owned(y),
         Along(k, x, p, es, Requires[c]),
         NEW q \in Contents, q.alive = p.alive, q.base = p.base,
         \A d \in Components :
           q.value[d] = IF d = c THEN v
                        ELSE IF c \in Owned(p) \/ d \in Owned(p) \/ d \notin Requires[c]
                        THEN p.value[d] ELSE Default
  PROVE  Fit(e, Merged(k, c, "copy", v), x, q, es)
<1> DEFINE m == Merged(k, c, "copy", v)
<1>1. /\ m \in Commands /\ m.base = k.base /\ m.kill = k.kill
      /\ \A d \in Components : d # c => m.op[d] = k.op[d] /\ m.data[d] = k.data[d]
      /\ m.op[c] = "copy" /\ m.data[c] = v
  <2>1. "copy" \in Ops /\ "copy" # "add"
    BY DEF Ops
  <2>2. QED
    BY <2>1, MergedIs
<1> HIDE DEF m
<1>2. m.op[c] \in {"add", "copy"}
  BY <1>1
<1>3. Requires[c] \subseteq Components /\ c \notin Requires[c]
  BY CommandsAssumption
<1>4. ASSUME NEW d \in Requires[c] PROVE q.value[d] = ResultAt(m, x, es, d)
  <2>1. d \in Components /\ d # c
    BY <1>3
  <2>2. (m.op[d] = "copy" => k.op[d] = "copy" /\ m.data[d] = k.data[d])
        /\ (k.op[d] = "copy" => m.op[d] = "copy") /\ Requires[c] \subseteq {c} \cup Requires[c]
    BY <1>1, <2>1
  <2>3. ResultAt(m, x, es, d) = IF d \in Owned(p) THEN p.value[d] ELSE Default
    <3> DEFINE R == Requires[c]
    <3>1. R \subseteq {c} \cup Requires[c] /\ Along(k, x, p, es, R) /\ d \in R
      OBVIOUS
    <3> HIDE DEF R
    <3>2. QED
      BY <1>1, <1>2, <2>2, <3>1, AlongResult
  <2>4. CASE d \in Owned(p)
    BY <2>1, <2>3, <2>4
  <2>5. CASE d \notin Owned(p)
    <3>1. c \notin Owned(p)
      BY <2>5
    <3>2. QED
      BY <2>1, <2>3, <2>5, <3>1
  <2>6. QED
    BY <2>4, <2>5
<1>5. ASSUME NEW d \in Components, d \notin {c} \cup Requires[c]
      PROVE  q.value[d] = ResultAt(m, x, es, d)
  <2>1. ResultAt(m, x, es, d) = ResultAt(k, x, es, d)
    BY <1>1, <1>2, <1>5, MoreBuilt
  <2>2. p.value[d] = ResultAt(k, x, es, d)
    BY DEF Fit
  <2>3. QED
    BY <1>5, <2>1, <2>2
<1>6. Brings(m, x)
  <2>1. Brings(k, x)
    BY DEF Fit
  <2>2. \A d \in Requires[c] : k.op[d] = "remove" => d \notin Owned(x)
    BY DEF Along
  <2>3. QED
    BY <1>1, <1>2, <2>1, <2>2, MoreRequired
<1>7. BaseChanged(m, x) => BaseChanged(k, x)
  BY <1>1 DEF BaseChanged
<1>8. \A d \in Components : q.value[d] = ResultAt(m, x, es, d)
  <2>1. q.value[c] = ResultAt(m, x, es, c)
    BY <1>1 DEF ResultAt
  <2>2. QED
    BY <1>4, <1>5, <2>1
<1>9. QED
  BY <1>1, <1>6, <1>7, <1>8 DEF Fit, m

(* No other component needs c, nor does c alone bring another one.           *)
Unneeded(k, x, c) ==
  /\ \A d \in Kept(k) : c \notin Requires[d]
  /\ c \in Kept(k) => \A d \in Requires[c] : d \in Owned(x) \/ d \in Kept(k)

LEMMA RemoveFits ==
  ASSUME NEW e, NEW k \in Commands, NEW x \in Contents, NEW p \in Contents,
         NEW es, Contained(es), Fit(e, k, x, p, es), p.alive, NEW c \in Components,
         Unneeded(k, x, c),
         BaseChanged(k, x) => c \notin Plan(es, k.base, {}),
         NEW q \in Contents, q.alive = p.alive, q.base = p.base,
         \A d \in Components : q.value[d] = IF d = c THEN Absent ELSE p.value[d]
  PROVE  Fit(e, Merged(k, c, "remove", Default), x, q, es)
<1> DEFINE m == Merged(k, c, "remove", Default)
<1>1. /\ m \in Commands /\ m.base = k.base /\ m.kill = k.kill
      /\ \A d \in Components : d # c => m.op[d] = k.op[d] /\ m.data[d] = k.data[d]
      /\ m.op[c] = "remove"
  <2>1. "remove" \in Ops /\ "remove" # "add" /\ Default \in Values
    BY CommandsAssumption DEF Ops
  <2>2. QED
    BY <2>1, MergedIs
<1> HIDE DEF m
<1>2. Kept(m) = Kept(k) \ {c} /\ c \in Components
  BY <1>1 DEF Kept
<1>3. Brings(k, x)
  BY DEF Fit
<1>4. c \notin Required(m)
  BY <1>2 DEF Required, Unneeded
<1>5. c \notin Built(m, x)
  BY <1>1, <1>2, <1>4 DEF Built
<1>6. ASSUME NEW d \in Components, d # c
      PROVE  d \in Built(m, x) <=> d \in Built(k, x)
  <2>1. ASSUME d \in Built(m, x) PROVE d \in Built(k, x)
    BY <1>1, <1>2, <1>6, <2>1 DEF Built, Required
  <2>2. ASSUME d \in Built(k, x) PROVE d \in Built(m, x)
    <3>1. CASE d \in Owned(x) \ {a \in Components : k.op[a] = "remove"} \/ d \in Kept(k)
      BY <1>1, <1>2, <1>6, <3>1 DEF Built
    <3>2. CASE d \in Required(k)
      <4>1. PICK a \in Kept(k) : d \in Requires[a]
        BY <3>2 DEF Required
      <4>2. CASE a # c
        BY <1>2, <4>1, <4>2 DEF Built, Required
      <4>3. CASE a = c
        <5>1. CASE d \in Kept(k)
          BY <1>2, <1>6, <5>1 DEF Built
        <5>2. CASE d \in Owned(x)
          <6>1. k.op[d] # "remove"
            BY <1>3, <4>1, <5>2 DEF Brings
          <6>2. QED
            BY <1>1, <1>6, <5>2, <6>1 DEF Built
        <5>3. QED
          BY <4>1, <4>3, <5>1, <5>2 DEF Unneeded
      <4>4. QED
        BY <4>2, <4>3
    <3>3. QED
      BY <2>2, <3>1, <3>2 DEF Built
  <2>3. QED
    BY <2>1, <2>2
<1>7. BaseChanged(m, x) <=> BaseChanged(k, x)
  BY <1>1 DEF BaseChanged
<1>8. \A d \in Components : d \in Copies(m, x, es) <=> (d # c /\ d \in Copies(k, x, es))
  <2>1. SUFFICES ASSUME NEW d \in Components, BaseChanged(k, x)
                 PROVE  d \in Plan(es, k.base, Built(m, x)) <=>
                          (d # c /\ d \in Plan(es, k.base, Built(k, x)))
    BY <1>1, <1>7 DEF Copies
  <2>2. CASE d = c
    <3>1. c \notin Plan(es, k.base, {})
      BY <2>1
    <3>2. QED
      BY <2>2, <3>1 DEF Plan
  <2>3. CASE d # c
    BY <1>6, <2>3 DEF Plan
  <2>4. QED
    BY <2>2, <2>3
<1>9. \A d \in Components : q.value[d] = ResultAt(m, x, es, d)
  <2>1. q.value[c] = ResultAt(m, x, es, c)
    BY <1>1, <1>5, <1>8 DEF ResultAt
  <2>2. ASSUME NEW d \in Components, d # c PROVE q.value[d] = ResultAt(m, x, es, d)
    <3>1. m.op[d] = k.op[d] /\ m.data[d] = k.data[d]
      BY <1>1, <2>2
    <3>2. d \in Copies(m, x, es) <=> d \in Copies(k, x, es)
      BY <1>8, <2>2
    <3>3. d \in Built(m, x) <=> d \in Built(k, x)
      BY <1>6, <2>2
    <3>4. ResultAt(m, x, es, d) = ResultAt(k, x, es, d)
      BY <1>1, <3>1, <3>2, <3>3 DEF ResultAt
    <3>5. p.value[d] = ResultAt(k, x, es, d)
      BY DEF Fit
    <3>6. QED
      BY <2>2, <3>4, <3>5
  <2>3. QED
    BY <2>1, <2>2
<1>10. Brings(m, x)
  <2>1. SUFFICES ASSUME NEW a \in Kept(m), NEW d \in Requires[a]
                 PROVE  (a \in Owned(x) => d \in Owned(x)) /\ (m.op[d] = "remove" => d \notin Owned(x))
    BY DEF Brings
  <2>2. a \in Kept(k) /\ d # c /\ a \in Components
    BY <1>2 DEF Kept, Unneeded
  <2>3. d \in Components
    BY <2>2, CommandsAssumption
  <2>4. m.op[d] = k.op[d]
    BY <1>1, <2>2, <2>3
  <2>5. QED
    BY <1>3, <2>2, <2>4 DEF Brings
<1>11. QED
  BY <1>1, <1>7, <1>9, <1>10 DEF Fit, m

(* A base: alone, the components are copied from it as it is promised.       *)
LEMMA IsAFits ==
  ASSUME NEW e, NEW k \in Commands, NEW x \in Contents, NEW p \in Contents,
         NEW es, Contained(es), Fit(e, k, x, p, es), p.alive, NEW b \in Entities,
         k.base \in {NoEntity, b}, e \notin Ancestors(es, b),
         NEW q \in Contents, q.alive = p.alive, q.base = b,
         \A d \in Components :
           q.value[d] = IF p.base # b /\ d \in Plan(es, b, Owned(p))
                        THEN es[Provider(es, b, d)].value[d] ELSE p.value[d]
  PROVE  Fit(e, [k EXCEPT !.base = b], x, q, es)
<1> DEFINE m == [k EXCEPT !.base = b]
<1>1. m \in Commands /\ m.base = b /\ m.kill = k.kill /\ m.op = k.op /\ m.data = k.data
  BY RebasedIs
<1> HIDE DEF m
<1>2. Kept(m) = Kept(k) /\ Required(m) = Required(k)
  BY <1>1 DEF Kept, Required
<1>3. Built(m, x) = Built(k, x)
  BY <1>1, <1>2 DEF Built
<1>4. b # NoEntity
  BY CommandsAssumption
<1>5. p.base = IF k.base = NoEntity THEN x.base ELSE k.base
  BY DEF Fit
<1>6. Brings(m, x)
  BY <1>1, <1>2 DEF Fit, Brings
<1>7. \A d \in Components : q.value[d] = ResultAt(m, x, es, d)
  <2>1. CASE p.base = b
    <3>1. \A d \in Components : q.value[d] = ResultAt(k, x, es, d)
      BY <2>1 DEF Fit
    <3>2. BaseChanged(m, x) <=> BaseChanged(k, x)
      BY <1>1, <1>4, <1>5, <2>1 DEF BaseChanged
    <3>3. BaseChanged(k, x) => k.base = b
      BY <1>4 DEF BaseChanged
    <3>4. Copies(m, x, es) = Copies(k, x, es)
      BY <1>1, <1>3, <3>2, <3>3 DEF Copies
    <3>5. \A d \in Components : ResultAt(m, x, es, d) = ResultAt(k, x, es, d)
      <4>1. SUFFICES ASSUME NEW d \in Components PROVE ResultAt(m, x, es, d) = ResultAt(k, x, es, d)
        OBVIOUS
      <4>2. CASE d \in Copies(k, x, es)
        <5>1. k.base = b
          BY <3>3, <4>2 DEF Copies
        <5>2. QED
          BY <1>1, <1>3, <3>4, <5>1 DEF ResultAt
      <4>3. CASE d \notin Copies(k, x, es)
        BY <1>1, <1>3, <3>4, <4>3 DEF ResultAt
      <4>4. QED
        BY <4>2, <4>3
    <3>6. QED
      BY <3>1, <3>5
  <2>2. CASE p.base # b
    <3>1. k.base = NoEntity /\ ~BaseChanged(k, x) /\ BaseChanged(m, x)
      BY <1>1, <1>4, <1>5, <2>2 DEF BaseChanged
    <3>2. Copies(k, x, es) = {}
      BY <3>1 DEF Copies
    <3>3. Owned(p) = Built(k, x)
      <4>1. \A d \in Components : d \in Owned(p) <=> d \in Built(k, x)
        BY <3>2, FitOwned
      <4>2. Owned(p) \subseteq Components /\ Built(k, x) \subseteq Components
        BY BuiltIs, ContentsAre
      <4>3. QED
        BY <4>1, <4>2
    <3>4. Copies(m, x, es) = Plan(es, b, Owned(p))
      BY <1>1, <1>3, <3>1, <3>3 DEF Copies
    <3>5. ASSUME NEW d \in Components PROVE q.value[d] = ResultAt(m, x, es, d)
      <4>1. CASE d \in Plan(es, b, Owned(p))
        <5>1. d \notin Built(k, x)
          BY <3>3, <4>1 DEF Plan
        <5>2. k.op[d] # "copy"
          BY <5>1, BuiltIs DEF Built
        <5>3. QED
          BY <1>1, <2>2, <3>4, <4>1, <5>2 DEF ResultAt
      <4>2. CASE d \notin Plan(es, b, Owned(p))
        <5>1. q.value[d] = ResultAt(k, x, es, d)
          BY <4>2 DEF Fit
        <5>2. QED
          BY <1>1, <1>3, <3>2, <3>4, <4>2, <5>1 DEF ResultAt
      <4>3. QED
        BY <4>1, <4>2
    <3>6. QED
      BY <3>5
  <2>3. QED
    BY <2>1, <2>2
<1>8. QED
  BY <1>1, <1>4, <1>6, <1>7 DEF Fit, m

-----------------------------------------------------------------------------
(* What commands find when they are applied. *)

Before(cs, e, f) == PlaceOf(cs, e) # 0 /\ (PlaceOf(cs, f) = 0 \/ PlaceOf(cs, e) < PlaceOf(cs, f))
SeenIn(es, ps, cs, e) == [y \in Entities |-> IF Before(cs, e, y) THEN es[y] ELSE ps[y]]

(* An entity is abstract once something inherits from it.                    *)
Abst(es, ps, cs) ==
  \A y \in Entities : ps[y].alive =>
    (ps[y].abstract <=> es[y].abstract \/ \E f \in Entities : ps[f].alive /\ CommandOf(cs, f).base = y)

BasesAbstract(es) ==
  \A e \in Entities : es[e].base # NoEntity => es[es[e].base].abstract \/ ~es[es[e].base].alive

(* The entities es, the commands cs that are to be applied to them, and what  *)
(* is promised.                                                              *)
Agrees(es, ps, cs) ==
  /\ \A e \in Entities : Fit(e, CommandOf(cs, e), es[e], ps[e], SeenIn(es, ps, cs, e))
  /\ Abst(es, ps, cs) /\ BasesAbstract(es)

LEMMA SeenContained ==
  ASSUME NEW es, NEW ps, NEW cs, NEW e, Contained(es), Contained(ps)
  PROVE  Contained(SeenIn(es, ps, cs, e))
  BY DEF SeenIn, Contained

LEMMA SeenAt ==
  ASSUME NEW es, NEW ps, NEW cs, NEW e, NEW y \in Entities
  PROVE  /\ Before(cs, e, y) => SeenIn(es, ps, cs, e)[y] = es[y]
         /\ ~Before(cs, e, y) => SeenIn(es, ps, cs, e)[y] = ps[y]
  BY DEF SeenIn, Before

(* An entity with no command is as promised.                                 *)
LEMMA NoCommandFit ==
  ASSUME NEW e \in Entities, NEW x \in Contents, NEW p \in Contents, NEW es, Contained(es)
  PROVE  /\ NoCommand(e) \in Commands /\ ~NoCommand(e).kill /\ NoCommand(e).base = NoEntity
         /\ ~BaseChanged(NoCommand(e), x)
         /\ \A c \in Components : ResultAt(NoCommand(e), x, es, c) = x.value[c]
         /\ Fit(e, NoCommand(e), x, p, es) =>
              p.alive = x.alive /\ p.base = x.base /\ p.value = x.value
<1> DEFINE k == NoCommand(e)
<1>1. k \in Commands /\ ~k.kill /\ k.base = NoEntity
      /\ \A c \in Components : k.op[c] = "none"
  BY CommandsAssumption DEF NoCommand, Commands, Ops
<1> HIDE DEF k
<1>2. ~BaseChanged(k, x)
  BY <1>1 DEF BaseChanged
<1>3. Kept(k) = {} /\ Required(k) = {} /\ Copies(k, x, es) = {}
  BY <1>1, <1>2 DEF Kept, Required, Copies
<1>4. Built(k, x) = Owned(x)
  BY <1>1, <1>3 DEF Built, Owned
<1>5. ASSUME NEW c \in Components PROVE ResultAt(k, x, es, c) = x.value[c]
  BY <1>1, <1>3, <1>4 DEF ResultAt, Owned
<1>6. ASSUME Fit(e, k, x, p, es) PROVE p.alive = x.alive /\ p.base = x.base /\ p.value = x.value
  <2>1. p.value \in [Components -> Values \cup {Absent}]
        /\ x.value \in [Components -> Values \cup {Absent}]
        /\ p.alive \in BOOLEAN /\ x.alive \in BOOLEAN
    BY ContentsAre
  <2>2. p.alive <=> x.alive
    BY <1>1, <1>6 DEF Fit
  <2>3. CASE p.alive
    <3>1. \A c \in Components : p.value[c] = x.value[c]
      BY <1>5, <1>6, <2>3 DEF Fit
    <3>2. p.value = x.value
      BY <2>1, <3>1
    <3>3. QED
      BY <1>1, <1>6, <2>1, <2>2, <2>3, <3>2 DEF Fit
  <2>4. CASE ~p.alive
    BY <1>6, <2>1, <2>2, <2>4 DEF Fit
  <2>5. QED
    BY <2>3, <2>4
<1>7. QED
  BY <1>1, <1>2, <1>5, <1>6 DEF k

LEMMA RecordedCommands ==
  ASSUME NEW cs, Distinct(cs), NEW k \in Commands
  PROVE  /\ CommandOf(Recorded(cs, k), k.entity) = k
         /\ \A f \in Entities : f # k.entity => CommandOf(Recorded(cs, k), f) = CommandOf(cs, f)
<1> DEFINE ds == Recorded(cs, k)
<1>1. CommandOf(ds, k.entity) = k
  BY RecordedIs
<1> HIDE DEF ds
<1>2. \A f \in Entities : f # k.entity => /\ PlaceOf(ds, f) = PlaceOf(cs, f)
                                          /\ CommandOf(ds, f) = CommandOf(cs, f)
  BY RecordedIs DEF ds
<1>3. QED
  BY <1>1, <1>2 DEF ds

(* A call on e changes what the commands of others find only behind them.    *)
LEMMA OtherFits ==
  ASSUME NEW es, Contained(es), NEW ps, Contained(ps), NEW qs, Contained(qs),
         NEW cs, Distinct(cs), NEW k \in Commands, NEW f \in Entities, f # k.entity,
         Fit(f, CommandOf(cs, f), es[f], ps[f], SeenIn(es, ps, cs, f)),
         \A y \in Entities : y # k.entity => qs[y].base = ps[y].base /\ qs[y].value = ps[y].value,
         qs[f].alive = ps[f].alive, ~ps[f].alive => qs[f] = ps[f],
         CommandOf(cs, f).base # NoEntity =>
           \/ k.entity \notin Ancestors(SeenIn(es, ps, cs, f), CommandOf(cs, f).base)
           \/ ~Before(cs, k.entity, f)
  PROVE  Fit(f, CommandOf(Recorded(cs, k), f), es[f], qs[f], SeenIn(es, qs, Recorded(cs, k), f))
<1> DEFINE e == k.entity
           ds == Recorded(cs, k)
           j == CommandOf(cs, f)
           seen == SeenIn(es, ps, cs, f)
           new == SeenIn(es, qs, ds, f)
<1>1. e \in Entities /\ cs \in Seq(Commands)
  BY CommandFields DEF Distinct
<1>2. CommandOf(ds, f) = j /\ PlaceOf(ds, f) = PlaceOf(cs, f)
      /\ (\A y \in Entities : y # e => PlaceOf(ds, y) = PlaceOf(cs, y))
      /\ PlaceOf(ds, e) = PlaceFor(cs, e)
  <2> HIDE DEF ds
  <2>1. /\ PlaceOf(ds, e) = PlaceFor(cs, e)
        /\ \A y \in Entities : y # e => /\ PlaceOf(ds, y) = PlaceOf(cs, y)
                                        /\ CommandOf(ds, y) = CommandOf(cs, y)
    BY RecordedIs DEF ds
  <2>2. QED
    BY <2>1
<1>3. j \in Commands /\ (PlaceOf(cs, f) = 0 => j = NoCommand(f))
  BY <1>1, CommandIs
<1>4. Contained(seen) /\ Contained(new) /\ es[f] \in Contents
  BY SeenContained DEF Contained
<1>5. ASSUME BaseChanged(j, es[f]), NEW y \in Ancestors(seen, j.base)
      PROVE  new[y].base = seen[y].base /\ new[y].value = seen[y].value
  <2>1. j.base # NoEntity /\ j.base \in Entities
    BY <1>3, <1>5, CommandFields DEF BaseChanged
  <2>2. y \in Entities
    BY <1>4, <1>5, <2>1, ContainedBased, AncestorsAre
  <2>3. PlaceOf(cs, f) # 0
    BY <1>3, <2>1 DEF NoCommand
  <2>4. PlaceOf(cs, f) \in 1..Len(cs) /\ PlaceOf(cs, y) \in 0..Len(cs) /\ Len(cs) \in Nat
        /\ PlaceOf(cs, e) \in 0..Len(cs)
    <3>1. DOMAIN cs = 1..Len(cs) /\ Len(cs) \in Nat
      BY <1>1
    <3>2. PlaceOf(cs, f) \in DOMAIN cs
      BY <1>1, <2>3, PlaceIs
    <3>3. PlaceOf(cs, y) \in 0..Len(cs) /\ PlaceOf(cs, e) \in 0..Len(cs)
      BY <1>1, PlaceIs
    <3>4. QED
      BY <3>1, <3>2, <3>3
  <2>5. /\ Before(ds, f, y) => new[y] = es[y]
        /\ ~Before(ds, f, y) => new[y] = qs[y]
        /\ Before(cs, f, y) => seen[y] = es[y]
        /\ ~Before(cs, f, y) => seen[y] = ps[y]
    BY <2>2, SeenAt
  <2> HIDE DEF new, seen, j, ds, e
  <2>6. CASE y # e
    <3>1. Before(ds, f, y) <=> Before(cs, f, y)
      BY <1>2, <2>2, <2>6 DEF Before
    <3>2. qs[y].base = ps[y].base /\ qs[y].value = ps[y].value
      BY <2>2, <2>6 DEF e
    <3>3. CASE Before(cs, f, y)
      BY <2>5, <3>1, <3>3
    <3>4. CASE ~Before(cs, f, y)
      BY <2>5, <3>1, <3>2, <3>4
    <3>5. QED
      BY <3>3, <3>4
  <2>7. CASE y = e
    <3>1. ~Before(cs, e, f)
      BY <1>5, <2>1, <2>7 DEF e, seen, j
    <3>2. Before(cs, f, e)
      <4>1. PlaceOf(cs, e) # PlaceOf(cs, f) \/ PlaceOf(cs, e) = 0
        <5>1. ASSUME PlaceOf(cs, e) = PlaceOf(cs, f) PROVE FALSE
          <6>1. cs[PlaceOf(cs, f)].entity = f /\ cs[PlaceOf(cs, e)].entity = e
            BY <1>1, <2>3, <5>1, PlaceIs
          <6>2. f # e
            BY DEF e
          <6>3. QED
            BY <5>1, <6>1, <6>2
        <5>2. QED
          BY <5>1
      <4>2. QED
        BY <2>3, <2>4, <3>1, <4>1 DEF Before
    <3>3. Before(ds, f, e)
      BY <1>2, <2>3, <2>4, <3>2 DEF Before, PlaceFor
    <3>4. new[y] = es[y] /\ seen[y] = es[y]
      BY <2>5, <2>7, <3>2, <3>3
    <3>5. QED
      BY <3>4
  <2>8. QED
    BY <2>6, <2>7
<1>6. Fit(f, j, es[f], ps[f], new)
  <2> HIDE DEF new, seen, j
  <2>1. Fit(f, j, es[f], ps[f], seen)
    BY DEF seen, j
  <2>2. QED
    BY <1>3, <1>4, <1>5, <2>1, FitSeen
<1>7. Fit(f, j, es[f], qs[f], new)
  <2> HIDE DEF new, seen, j
  <2>1. CASE ps[f].alive
    BY <1>6, <2>1 DEF Fit
  <2>2. CASE ~ps[f].alive
    BY <1>6, <2>2
  <2>3. QED
    BY <2>1, <2>2
<1>8. QED
  BY <1>2, <1>7

(* The command of the entity that a call is about finds the same elsewhere.  *)
LEMMA OwnSeen ==
  ASSUME NEW es, Contained(es), NEW ps, Contained(ps), NEW qs, Contained(qs),
         NEW cs, Distinct(cs), NEW m \in Commands, Agrees(es, ps, cs),
         \A y \in Entities : y # m.entity => qs[y].base = ps[y].base /\ qs[y].value = ps[y].value,
         NEW y \in Entities, y # m.entity
  PROVE  LET old == SeenIn(es, ps, cs, m.entity)
             new == SeenIn(es, qs, Recorded(cs, m), m.entity)
         IN  new[y].base = old[y].base /\ new[y].value = old[y].value
<1> DEFINE e == m.entity
           ds == Recorded(cs, m)
           old == SeenIn(es, ps, cs, e)
           new == SeenIn(es, qs, ds, e)
<1>1. e \in Entities /\ cs \in Seq(Commands)
  BY CommandFields DEF Distinct
<1>2. PlaceOf(ds, y) = PlaceOf(cs, y) /\ PlaceOf(ds, e) = PlaceFor(cs, e)
  BY RecordedIs
<1>3. qs[y].base = ps[y].base /\ qs[y].value = ps[y].value
  OBVIOUS
<1>4. PlaceOf(cs, y) \in 0..Len(cs) /\ PlaceOf(cs, e) \in 0..Len(cs) /\ Len(cs) \in Nat
  BY <1>1, PlaceIs
<1>5. /\ Before(ds, e, y) => new[y] = es[y]
      /\ ~Before(ds, e, y) => new[y] = qs[y]
      /\ Before(cs, e, y) => old[y] = es[y]
      /\ ~Before(cs, e, y) => old[y] = ps[y]
  BY SeenAt
<1>6. PlaceOf(cs, y) = 0 => es[y].base = ps[y].base /\ es[y].value = ps[y].value
  <2>1. ASSUME PlaceOf(cs, y) = 0 PROVE es[y].base = ps[y].base /\ es[y].value = ps[y].value
    <3>1. CommandOf(cs, y) = NoCommand(y)
      BY <1>1, <2>1, CommandIs
    <3>2. Fit(y, NoCommand(y), es[y], ps[y], SeenIn(es, ps, cs, y))
      BY <3>1 DEF Agrees
    <3>3. es[y] \in Contents /\ ps[y] \in Contents /\ Contained(SeenIn(es, ps, cs, y))
      BY SeenContained DEF Contained
    <3>4. QED
      BY <3>2, <3>3, NoCommandFit
  <2>2. QED
    BY <2>1
<1> HIDE DEF new, old, ds, e
<1>7. CASE PlaceOf(cs, e) # 0
  <2>1. Before(ds, e, y) <=> Before(cs, e, y)
    BY <1>2, <1>7 DEF Before, PlaceFor
  <2>2. CASE Before(cs, e, y)
    BY <1>5, <2>1, <2>2 DEF new, old, ds, e
  <2>3. CASE ~Before(cs, e, y)
    BY <1>3, <1>5, <2>1, <2>3 DEF new, old, ds, e
  <2>4. QED
    BY <2>2, <2>3
<1>8. CASE PlaceOf(cs, e) = 0
  <2>1. ~Before(cs, e, y)
    BY <1>8 DEF Before
  <2>2. Before(ds, e, y) <=> PlaceOf(cs, y) = 0
    BY <1>2, <1>4, <1>8 DEF Before, PlaceFor
  <2>3. CASE PlaceOf(cs, y) = 0
    BY <1>5, <1>6, <2>1, <2>2, <2>3 DEF new, old, ds, e
  <2>4. CASE PlaceOf(cs, y) # 0
    BY <1>3, <1>5, <2>1, <2>2, <2>4 DEF new, old, ds, e
  <2>5. QED
    BY <2>3, <2>4
<1>9. QED
  BY <1>7, <1>8

(* A call keeps the agreement when its entity fits and no command that was    *)
(* recorded behind the one of the entity copies from it.                     *)
LEMMA CallAgrees ==
  ASSUME NEW es, Contained(es), NEW ps, Contained(ps), NEW qs, Contained(qs),
         NEW cs, Distinct(cs), NEW m \in Commands, Agrees(es, ps, cs),
         \A y \in Entities : y # m.entity =>
           /\ qs[y].alive = ps[y].alive /\ qs[y].base = ps[y].base /\ qs[y].value = ps[y].value
           /\ ~ps[y].alive => qs[y] = ps[y],
         \A f \in Entities : CommandOf(cs, f).base # NoEntity =>
           \/ m.entity \notin Ancestors(SeenIn(es, ps, cs, f), CommandOf(cs, f).base)
           \/ ~Before(cs, m.entity, f),
         Fit(m.entity, m, es[m.entity], qs[m.entity], SeenIn(es, ps, cs, m.entity)),
         Abst(es, qs, Recorded(cs, m))
  PROVE  Agrees(es, qs, Recorded(cs, m))
<1> DEFINE e == m.entity
           ds == Recorded(cs, m)
<1>1. e \in Entities
  BY CommandFields
<1>2. ASSUME NEW f \in Entities
      PROVE  Fit(f, CommandOf(ds, f), es[f], qs[f], SeenIn(es, qs, ds, f))
  <2>1. CASE f # e
    <3>1. Fit(f, CommandOf(cs, f), es[f], ps[f], SeenIn(es, ps, cs, f))
      BY DEF Agrees
    <3>2. \A y \in Entities : y # m.entity => qs[y].base = ps[y].base /\ qs[y].value = ps[y].value
      OBVIOUS
    <3>3. qs[f].alive = ps[f].alive /\ (~ps[f].alive => qs[f] = ps[f])
      BY <2>1
    <3>4. CommandOf(cs, f).base # NoEntity =>
            \/ m.entity \notin Ancestors(SeenIn(es, ps, cs, f), CommandOf(cs, f).base)
            \/ ~Before(cs, m.entity, f)
      OBVIOUS
    <3>5. QED
      BY <2>1, <3>1, <3>2, <3>3, <3>4, OtherFits
  <2>2. CASE f = e
    <3> DEFINE old == SeenIn(es, ps, cs, e)
               new == SeenIn(es, qs, ds, e)
    <3>1. CommandOf(ds, e) = m
      BY RecordedIs
    <3>2. Contained(old) /\ Contained(new) /\ es[e] \in Contents
      BY <1>1, SeenContained DEF Contained
    <3>3. \A y \in Entities : y # e => new[y].base = old[y].base /\ new[y].value = old[y].value
      BY OwnSeen
    <3>4. Fit(e, m, es[e], qs[e], old)
      OBVIOUS
    <3> HIDE DEF old, new
    <3>5. qs[e].alive /\ BaseChanged(m, es[e]) =>
            \A y \in Ancestors(old, m.base) : new[y].base = old[y].base /\ new[y].value = old[y].value
      <4>1. SUFFICES ASSUME qs[e].alive, BaseChanged(m, es[e]), NEW y \in Ancestors(old, m.base)
                     PROVE  new[y].base = old[y].base /\ new[y].value = old[y].value
        OBVIOUS
      <4>2. e \notin Ancestors(old, m.base)
        BY <3>4, <4>1 DEF Fit
      <4>3. m.base \in Entities
        BY <4>1, CommandFields DEF BaseChanged
      <4>4. y \in Entities
        BY <3>2, <4>1, <4>3, ContainedBased, AncestorsAre
      <4>5. QED
        BY <3>3, <4>1, <4>2, <4>4
    <3>6. Fit(e, m, es[e], qs[e], new)
      <4> HIDE DEF e
      <4>1. QED
        BY <3>2, <3>4, <3>5, FitSeen
    <3>7. QED
      BY <2>2, <3>1, <3>6 DEF new
  <2>3. QED
    BY <2>1, <2>2
<1>3. BasesAbstract(es)
  BY DEF Agrees
<1>4. QED
  BY <1>2, <1>3 DEF Agrees

(* What is abstract when a call leaves bases alone                           *)
LEMMA AbstKept ==
  ASSUME NEW es, NEW ps, NEW qs, NEW cs, Distinct(cs), NEW m \in Commands, Abst(es, ps, cs),
         m.base = CommandOf(cs, m.entity).base,
         \A y \in Entities : qs[y].alive = ps[y].alive /\ qs[y].abstract = ps[y].abstract
  PROVE  Abst(es, qs, Recorded(cs, m))
<1>1. \A f \in Entities : CommandOf(Recorded(cs, m), f).base = CommandOf(cs, f).base
  <2>1. CommandOf(Recorded(cs, m), m.entity) = m
        /\ \A f \in Entities : f # m.entity => CommandOf(Recorded(cs, m), f) = CommandOf(cs, f)
    BY RecordedCommands
  <2>2. ASSUME NEW f \in Entities
        PROVE  CommandOf(Recorded(cs, m), f).base = CommandOf(cs, f).base
    <3>1. CASE f = m.entity
      BY <2>1, <3>1
    <3>2. CASE f # m.entity
      BY <2>1, <3>2
    <3>3. QED
      BY <3>1, <3>2
  <2>3. QED
    BY <2>2
<1>2. ASSUME NEW y \in Entities, qs[y].alive
      PROVE  qs[y].abstract <=> es[y].abstract
               \/ \E f \in Entities : qs[f].alive /\ CommandOf(Recorded(cs, m), f).base = y
  <2>1. ps[y].alive
    BY <1>2
  <2>2. ps[y].abstract <=> es[y].abstract
          \/ \E f \in Entities : ps[f].alive /\ CommandOf(cs, f).base = y
    BY <2>1 DEF Abst
  <2>3. (\E f \in Entities : ps[f].alive /\ CommandOf(cs, f).base = y)
        <=> \E f \in Entities : qs[f].alive /\ CommandOf(Recorded(cs, m), f).base = y
    BY <1>1
  <2>4. qs[y].abstract = ps[y].abstract
    OBVIOUS
  <2>5. QED
    BY <2>2, <2>3, <2>4
<1>3. QED
  BY <1>2 DEF Abst

-----------------------------------------------------------------------------
(* Calls keep the agreement. *)

LEMMA SeenIs ==
  ASSUME NEW e \in Entities
  PROVE  Seen(e) = SeenIn(entity, promised, commands, e)
  BY DEF Seen, SeenIn, Precedes, Before

LEMMA OrderKept ==
  ASSUME Typed, NEW e \in Entities, ~EditsOutOfOrder(e), NEW f \in Entities,
         CommandOf(commands, f).base # NoEntity
  PROVE  \/ e \notin Ancestors(SeenIn(entity, promised, commands, f), CommandOf(commands, f).base)
         \/ ~Before(commands, e, f)
<1> DEFINE k == CommandOf(commands, f)
<1>1. commands \in Seq(Commands)
  BY DEF Typed, Distinct
<1>2. PlaceOf(commands, f) # 0
  BY <1>1, CommandIs DEF NoCommand
<1>3. k = commands[PlaceOf(commands, f)] /\ PlaceOf(commands, f) \in DOMAIN commands /\ k.entity = f
  BY <1>1, <1>2, CommandIs, PlaceIs
<1>4. k \in Range(commands)
  BY <1>3 DEF Range
<1>5. Seen(f) = SeenIn(entity, promised, commands, f)
  BY SeenIs
<1>6. Precedes(e, f) <=> Before(commands, e, f)
  BY DEF Precedes, Before
<1> HIDE DEF k
<1>7. ~(k.base # NoEntity /\ e \in Ancestors(Seen(k.entity), k.base) /\ Precedes(e, k.entity))
  BY <1>4 DEF EditsOutOfOrder
<1>8. QED
  BY <1>3, <1>5, <1>6, <1>7 DEF k

(* A call that changes components of an entity                               *)
LEMMA ComponentCall ==
  ASSUME Typed, Agrees(entity, promised, commands), NEW e \in Entities, entity[e].alive,
         NEW m \in Commands, m.entity = e, m.base = Command(e).base, m.kill = Command(e).kill,
         NEW alone, Contained(alone), Record(m, alone), ~EditsOutOfOrder(e),
         \A f \in Entities : f # e => alone[f] = promised[f],
         alone[e].alive = promised[e].alive, alone[e].abstract = promised[e].abstract,
         promised[e].alive =>
           Fit(e, m, entity[e], alone[e], SeenIn(entity, promised, commands, e))
  PROVE  Agrees(entity', promised', commands')
<1> DEFINE seen == SeenIn(entity, promised, commands, e)
           ds == Recorded(commands, m)
<1>1. commands' = ds /\ entity' = entity
      /\ promised' = IF promised[e].alive THEN alone ELSE promised
  BY DEF Record
<1>2. Contained(entity) /\ Contained(promised) /\ Distinct(commands)
  BY DEF Typed, Stored, Contained
<1>3. \A f \in Entities : CommandOf(commands, f).base # NoEntity =>
        \/ m.entity \notin Ancestors(SeenIn(entity, promised, commands, f), CommandOf(commands, f).base)
        \/ ~Before(commands, m.entity, f)
  BY OrderKept
<1>4. Abst(entity, promised, commands)
  BY DEF Agrees
<1>5. m.base = CommandOf(commands, m.entity).base
  BY DEF Command
<1>6. CASE promised[e].alive
  <2>1. \A y \in Entities : y # m.entity =>
          /\ alone[y].alive = promised[y].alive /\ alone[y].base = promised[y].base
          /\ alone[y].value = promised[y].value
          /\ ~promised[y].alive => alone[y] = promised[y]
    OBVIOUS
  <2>2. \A y \in Entities : alone[y].alive = promised[y].alive /\ alone[y].abstract = promised[y].abstract
    OBVIOUS
  <2>3. Abst(entity, alone, ds)
    BY <1>2, <1>4, <1>5, <2>2, AbstKept
  <2>4. Fit(m.entity, m, entity[m.entity], alone[m.entity],
            SeenIn(entity, promised, commands, m.entity))
    BY <1>6
  <2>5. Agrees(entity, alone, ds)
    BY <1>2, <1>3, <2>1, <2>3, <2>4, CallAgrees
  <2>6. QED
    BY <1>1, <1>6, <2>5
<1>7. CASE ~promised[e].alive
  <2>1. Abst(entity, promised, ds)
    BY <1>2, <1>4, <1>5, AbstKept
  <2>2. Fit(m.entity, m, entity[m.entity], promised[m.entity],
            SeenIn(entity, promised, commands, m.entity))
    <3>1. Fit(e, CommandOf(commands, e), entity[e], promised[e], seen)
      BY DEF Agrees
    <3>2. m.kill = CommandOf(commands, e).kill
      BY DEF Command
    <3>3. QED
      BY <1>7, <3>1, <3>2 DEF Fit
  <2>3. Agrees(entity, promised, ds)
    BY <1>2, <1>3, <2>1, <2>2, CallAgrees
  <2>4. QED
    BY <1>1, <1>7, <2>3
<1>8. QED
  BY <1>6, <1>7

(* What Along asks follows from the guards of the calls.                     *)
LEMMA GuardsAlong ==
  ASSUME NEW e \in Entities, NEW S, ~AddedAgain(e, S), S \subseteq Components,
         ~TouchesInherited(e, S)
  PROVE  /\ Along(Command(e), entity[e], promised[e], SeenIn(entity, promised, commands, e), S)
         /\ \A T : T \subseteq S =>
              Along(Command(e), entity[e], promised[e], SeenIn(entity, promised, commands, e), T)
<1>1. Seen(e) = SeenIn(entity, promised, commands, e)
  BY SeenIs
<1>2. \A d \in S : Command(e).op[d] = "remove" => d \notin Owned(entity[e])
  BY DEF AddedAgain
<1>3. BaseChanged(Command(e), entity[e]) => S \cap Plan(Seen(e), Command(e).base, {}) = {}
  BY DEF BaseChanged, TouchesInherited, InheritsAtFlush
<1>4. QED
  BY <1>1, <1>2, <1>3 DEF Along

(* The entity of a call, what is promised of it and what its command finds   *)
LEMMA CallFacts ==
  ASSUME Typed, Agrees(entity, promised, commands), NEW e \in Entities
  PROVE  /\ Command(e) \in Commands /\ Command(e).entity = e
         /\ Contained(entity) /\ Contained(promised)
         /\ entity[e] \in Contents /\ promised[e] \in Contents
         /\ Contained(SeenIn(entity, promised, commands, e))
         /\ Fit(e, Command(e), entity[e], promised[e], SeenIn(entity, promised, commands, e))
<1>1. Contained(entity) /\ Contained(promised)
  BY DEF Typed, Stored, Contained
<1>2. Command(e) \in Commands /\ Command(e).entity = e
  BY CommandSound DEF Typed, Command
<1>3. Fit(e, Command(e), entity[e], promised[e], SeenIn(entity, promised, commands, e))
  BY DEF Agrees, Command
<1>4. Contained(SeenIn(entity, promised, commands, e))
  BY <1>1, SeenContained
<1>5. QED
  BY <1>1, <1>2, <1>3, <1>4 DEF Contained

LEMMA AddAgrees ==
  ASSUME Divergences = {}, Typed, Agrees(entity, promised, commands),
         NEW e \in Entities, NEW c \in Components, Add(e, c)
  PROVE  Agrees(entity', promised', commands')
<1> DEFINE k == Command(e)
           m == Merged(k, c, "add", Default)
           alone == AddedAlone(promised, e, c)
           seen == SeenIn(entity, promised, commands, e)
           S == {c} \cup Requires[c]
<1>1. entity[e].alive /\ Record(m, alone)
  BY DEF Add, MayCall
<1>2. ~RequirementMissing(e, c) /\ ~AddedAgain(e, S) /\ ~TouchesInherited(e, S) /\ ~EditsOutOfOrder(e)
  BY DEF Add, Allow
<1>3. /\ k \in Commands /\ k.entity = e /\ Contained(promised) /\ Contained(seen)
      /\ entity[e] \in Contents /\ promised[e] \in Contents
      /\ Fit(e, k, entity[e], promised[e], seen)
  BY CallFacts
<1>4. m \in Commands /\ m.entity = e /\ m.base = k.base /\ m.kill = k.kill
  <2>1. "add" \in Ops /\ Default \in Values
    BY CommandsAssumption DEF Ops
  <2>2. QED
    BY <1>3, <2>1, MergedIs
<1>5. /\ Contained(alone) /\ \A f \in Entities : f # e => alone[f] = promised[f]
      /\ alone[e].alive = promised[e].alive /\ alone[e].abstract = promised[e].abstract
      /\ alone[e].base = promised[e].base
      /\ \A d \in Components :
           alone[e].value[d] = IF c \in Owned(promised[e]) \/ d \in Owned(promised[e]) \/ d \notin S
                               THEN promised[e].value[d] ELSE Default
  BY <1>3, AddedIs
<1>6. alone[e] \in Contents
  BY <1>5 DEF Contained
<1>7. Along(k, entity[e], promised[e], seen, S)
  <2>1. S \subseteq Components
    BY CommandsAssumption
  <2> HIDE DEF S
  <2>2. QED
    BY <1>2, <2>1, GuardsAlong
<1>8. \A y \in {entity[e], promised[e]} : c \in Owned(y) => Requires[c] \subseteq Owned(y)
  BY <1>2 DEF RequirementMissing
<1> HIDE DEF k, alone, seen
<1>9. ASSUME promised[e].alive PROVE Fit(e, m, entity[e], alone[e], seen)
  BY <1>3, <1>5, <1>6, <1>7, <1>8, <1>9, AddFits
<1> HIDE DEF m
<1>10. QED
  BY <1>1, <1>2, <1>4, <1>5, <1>9, ComponentCall DEF k, seen

LEMMA SetAgrees ==
  ASSUME Divergences = {}, Typed, Agrees(entity, promised, commands),
         NEW e \in Entities, NEW c \in Components, NEW v \in Inputs, Set(e, c, v)
  PROVE  Agrees(entity', promised', commands')
<1> DEFINE k == Command(e)
           m == Merged(k, c, "copy", v)
           alone == SetAlone(promised, e, c, v)
           seen == SeenIn(entity, promised, commands, e)
           S == Requires[c]
<1>1. entity[e].alive /\ Record(m, alone)
  BY DEF Set, MayCall
<1>2. ~RequirementMissing(e, c) /\ ~AddedAgain(e, S) /\ ~TouchesInherited(e, S) /\ ~EditsOutOfOrder(e)
  BY DEF Set, Allow
<1>3. /\ k \in Commands /\ k.entity = e /\ Contained(promised) /\ Contained(seen)
      /\ entity[e] \in Contents /\ promised[e] \in Contents
      /\ Fit(e, k, entity[e], promised[e], seen)
  BY CallFacts
<1>4. m \in Commands /\ m.entity = e /\ m.base = k.base /\ m.kill = k.kill /\ v \in Values
  <2>1. "copy" \in Ops /\ v \in Values
    BY CommandsAssumption DEF Ops
  <2>2. QED
    BY <1>3, <2>1, MergedIs
<1>5. /\ Contained(alone) /\ \A f \in Entities : f # e => alone[f] = promised[f]
      /\ alone[e].alive = promised[e].alive /\ alone[e].abstract = promised[e].abstract
      /\ alone[e].base = promised[e].base
      /\ \A d \in Components :
           alone[e].value[d] = IF d = c THEN v
                               ELSE IF c \in Owned(promised[e]) \/ d \in Owned(promised[e]) \/ d \notin S
                               THEN promised[e].value[d] ELSE Default
  BY <1>3, <1>4, SetIs
<1>6. alone[e] \in Contents
  BY <1>5 DEF Contained
<1>7. Along(k, entity[e], promised[e], seen, S)
  <2>1. S \subseteq Components
    BY CommandsAssumption
  <2> HIDE DEF S
  <2>2. QED
    BY <1>2, <2>1, GuardsAlong
<1>8. \A y \in {entity[e], promised[e]} : c \in Owned(y) => Requires[c] \subseteq Owned(y)
  BY <1>2 DEF RequirementMissing
<1> HIDE DEF k, alone, seen
<1>9. ASSUME promised[e].alive PROVE Fit(e, m, entity[e], alone[e], seen)
  BY <1>3, <1>4, <1>5, <1>6, <1>7, <1>8, <1>9, SetFits
<1> HIDE DEF m
<1>10. QED
  BY <1>1, <1>2, <1>4, <1>5, <1>9, ComponentCall DEF k, seen

LEMMA RemoveAgrees ==
  ASSUME Divergences = {}, Typed, Agrees(entity, promised, commands),
         NEW e \in Entities, NEW c \in Components, RemoveComponent(e, c)
  PROVE  Agrees(entity', promised', commands')
<1> DEFINE k == Command(e)
           m == Merged(k, c, "remove", Default)
           alone == RemovedAlone(promised, e, c)
           seen == SeenIn(entity, promised, commands, e)
<1>1. entity[e].alive /\ Record(m, alone)
  BY DEF RemoveComponent, MayCall
<1>2. ~RequirementLost(e, c) /\ ~TouchesInherited(e, {c}) /\ ~EditsOutOfOrder(e)
  BY DEF RemoveComponent, Allow
<1>3. /\ k \in Commands /\ k.entity = e /\ Contained(promised) /\ Contained(seen)
      /\ entity[e] \in Contents /\ promised[e] \in Contents
      /\ Fit(e, k, entity[e], promised[e], seen)
  BY CallFacts
<1>4. m \in Commands /\ m.entity = e /\ m.base = k.base /\ m.kill = k.kill
  <2>1. "remove" \in Ops /\ Default \in Values
    BY CommandsAssumption DEF Ops
  <2>2. QED
    BY <1>3, <2>1, MergedIs
<1>5. /\ Contained(alone) /\ \A f \in Entities : f # e => alone[f] = promised[f]
      /\ alone[e].alive = promised[e].alive /\ alone[e].abstract = promised[e].abstract
      /\ alone[e].base = promised[e].base
      /\ \A d \in Components :
           alone[e].value[d] = IF d = c THEN Absent ELSE promised[e].value[d]
  BY <1>3, RemovedIs
<1>6. alone[e] \in Contents
  BY <1>5 DEF Contained
<1>7. BaseChanged(k, entity[e]) => c \notin Plan(seen, k.base, {})
  <2>1. Seen(e) = seen
    BY SeenIs
  <2>2. QED
    BY <1>2, <2>1 DEF BaseChanged, TouchesInherited, InheritsAtFlush
<1>8. Unneeded(k, entity[e], c)
  <2>1. Requires[c] \subseteq Components
    BY CommandsAssumption
  <2>2. QED
    BY <1>2, <2>1 DEF RequirementLost, Keeps, Kept, Unneeded
<1> HIDE DEF k, alone, seen
<1>9. ASSUME promised[e].alive PROVE Fit(e, m, entity[e], alone[e], seen)
  BY <1>3, <1>5, <1>6, <1>7, <1>8, <1>9, RemoveFits
<1> HIDE DEF m
<1>10. QED
  BY <1>1, <1>2, <1>4, <1>5, <1>9, ComponentCall DEF k, seen

LEMMA IsAAgrees ==
  ASSUME Divergences = {}, Typed, Agrees(entity, promised, commands),
         NEW e \in Entities, NEW b \in Entities, IsA(e, b)
  PROVE  Agrees(entity', promised', commands')
<1> DEFINE k == Command(e)
           m == [k EXCEPT !.base = b]
           alone == InheritedAlone(promised, e, b)
           seen == SeenIn(entity, promised, commands, e)
           p == promised[e]
           ds == Recorded(commands, m)
<1>1. /\ entity[e].alive /\ Record(m, alone) /\ promised[b].alive /\ e \notin Ancestors(promised, b)
      /\ ~BaseReplaced(e, b) /\ ~InheritsOutOfOrder(e, b) /\ ~EditsOutOfOrder(e)
  BY DEF IsA, MayCall, Allow
<1>2. /\ k \in Commands /\ k.entity = e /\ Contained(entity) /\ Contained(promised)
      /\ Contained(seen) /\ entity[e] \in Contents /\ p \in Contents
      /\ Fit(e, k, entity[e], p, seen)
  BY CallFacts
<1>3. m \in Commands /\ m.entity = e /\ m.base = b /\ m.kill = k.kill
  BY <1>2, RebasedIs
<1>4. Based(promised) /\ Based(seen) /\ b \in Entities \cup {NoEntity} /\ b # NoEntity
  BY <1>2, ContainedBased, CommandsAssumption
<1>5. e # b
  BY <1>1, <1>4, AncestorsAre
<1>6. k.base \in {NoEntity, b}
  BY <1>1 DEF BaseReplaced
<1>7. /\ Contained(alone)
      /\ alone[b].abstract /\ alone[b].base = promised[b].base /\ alone[b].value = promised[b].value
      /\ alone[b].alive = promised[b].alive
      /\ \A f \in Entities : f \notin {e, b} => alone[f] = promised[f]
      /\ alone[e].alive = p.alive /\ alone[e].abstract = p.abstract /\ alone[e].base = b
      /\ \A d \in Components :
           alone[e].value[d] = IF p.base # b /\ d \in Plan(promised, b, Owned(p))
                               THEN promised[Provider(promised, b, d)].value[d] ELSE p.value[d]
  BY <1>2, <1>5, InheritedIs
<1>8. commands' = ds /\ entity' = entity
      /\ promised' = IF p.alive THEN alone ELSE promised
  BY <1>1, <1>3 DEF Record
<1>9. Distinct(commands) /\ Abst(entity, promised, commands)
  BY DEF Typed, Agrees
<1>10. \A f \in Entities : CommandOf(commands, f).base # NoEntity =>
        \/ m.entity \notin Ancestors(SeenIn(entity, promised, commands, f), CommandOf(commands, f).base)
        \/ ~Before(commands, m.entity, f)
  BY <1>1, <1>3, OrderKept
<1>11. CommandOf(ds, e) = m
       /\ \A f \in Entities : f # e => CommandOf(ds, f) = CommandOf(commands, f)
  <2> HIDE DEF m, k
  <2>1. /\ CommandOf(Recorded(commands, m), m.entity) = m
        /\ \A f \in Entities : f # m.entity => CommandOf(Recorded(commands, m), f) = CommandOf(commands, f)
    BY <1>3, <1>9, RecordedCommands
  <2>2. QED
    BY <1>3, <2>1 DEF ds
<1>12. ASSUME NEW y \in Ancestors(promised, b)
       PROVE  seen[y].base = promised[y].base /\ seen[y].value = promised[y].value
  <2>1. y \in Entities
    BY <1>4, AncestorsAre
  <2>2. CASE Before(commands, e, y)
    <3>1. PlaceOf(commands, y) = 0
      BY <1>1, <2>2 DEF InheritsOutOfOrder, Precedes, Before
    <3>2. CommandOf(commands, y) = NoCommand(y)
      BY <1>9, <2>1, <3>1, CommandIs DEF Distinct
    <3>3. Fit(y, NoCommand(y), entity[y], promised[y], SeenIn(entity, promised, commands, y))
      BY <2>1, <3>2 DEF Agrees
    <3>4. entity[y] \in Contents /\ promised[y] \in Contents
          /\ Contained(SeenIn(entity, promised, commands, y))
      BY <1>2, <2>1, SeenContained DEF Contained
    <3>5. entity[y].base = promised[y].base /\ entity[y].value = promised[y].value
      BY <2>1, <3>3, <3>4, NoCommandFit
    <3>6. QED
      BY <2>1, <2>2, <3>5, SeenAt
  <2>3. CASE ~Before(commands, e, y)
    <3>1. seen[y] = promised[y]
      BY <2>1, <2>3, SeenAt
    <3>2. QED
      BY <3>1
  <2>4. QED
    BY <2>2, <2>3
<1>13. BasesAbstract(entity)
  BY DEF Agrees
<1>14. CASE p.alive
  <2>1. /\ Ancestors(seen, b) = Ancestors(promised, b)
        /\ \A d : Provider(seen, b, d) = Provider(promised, b, d)
        /\ \A owned : Plan(seen, b, owned) = Plan(promised, b, owned)
    <3>1. \A y \in Ancestors(promised, b) : seen[y].base = promised[y].base /\ Owned(seen[y]) = Owned(promised[y])
      BY <1>12 DEF Owned
    <3> HIDE DEF seen
    <3>2. QED
      BY <1>4, <3>1, SameProvider
  <2>2. \A d \in Plan(promised, b, Owned(p)) :
          seen[Provider(promised, b, d)].value = promised[Provider(promised, b, d)].value
    <3>1. SUFFICES ASSUME NEW d \in Plan(promised, b, Owned(p))
                   PROVE  seen[Provider(promised, b, d)].value = promised[Provider(promised, b, d)].value
      OBVIOUS
    <3>2. Provider(promised, b, d) \in Ancestors(promised, b)
      BY <1>4, ProviderIs DEF Plan
    <3>3. QED
      BY <1>12, <3>2
  <2>3. \A d \in Components :
          alone[e].value[d] = IF p.base # b /\ d \in Plan(seen, b, Owned(p))
                              THEN seen[Provider(seen, b, d)].value[d] ELSE p.value[d]
    BY <1>7, <2>1, <2>2
  <2>4. alone[e] \in Contents
    BY <1>7 DEF Contained
  <2>5. e \notin Ancestors(seen, b)
    BY <1>1, <2>1
  <2>6. Fit(e, m, entity[e], alone[e], seen)
    <3> DEFINE x == entity[e]
               q == alone[e]
    <3>1. /\ k \in Commands /\ x \in Contents /\ p \in Contents /\ Contained(seen)
          /\ Fit(e, k, x, p, seen) /\ k.base \in {NoEntity, b} /\ p.alive
          /\ q \in Contents /\ q.alive = p.alive /\ q.base = b /\ e \notin Ancestors(seen, b)
      BY <1>2, <1>6, <1>7, <1>14, <2>4, <2>5
    <3>2. \A d \in Components :
            q.value[d] = IF p.base # b /\ d \in Plan(seen, b, Owned(p))
                         THEN seen[Provider(seen, b, d)].value[d] ELSE p.value[d]
      BY <2>3
    <3> HIDE DEF x, q, k, p, seen, alone
    <3>3. Fit(e, [k EXCEPT !.base = b], x, q, seen)
      BY <3>1, <3>2, IsAFits
    <3>4. QED
      BY <3>3 DEF x, q
  <2>7. \A y \in Entities : y # m.entity =>
          /\ alone[y].alive = promised[y].alive /\ alone[y].base = promised[y].base
          /\ alone[y].value = promised[y].value
          /\ ~promised[y].alive => alone[y] = promised[y]
    <3> HIDE DEF alone, m, p
    <3>1. QED
      BY <1>1, <1>3, <1>7
  <2>8. Abst(entity, alone, ds)
    <3> HIDE DEF alone, m, p, ds, k
    <3>1. ASSUME NEW y \in Entities, alone[y].alive
          PROVE  alone[y].abstract <=> entity[y].abstract
                   \/ \E f \in Entities : alone[f].alive /\ CommandOf(ds, f).base = y
      <4>1. CASE y = b
        <5>1. alone[e].alive /\ CommandOf(ds, e).base = y
          BY <1>3, <1>7, <1>11, <1>14, <4>1
        <5>2. QED
          BY <1>7, <4>1, <5>1
      <4>2. CASE y # b
        <5>1. \A f \in Entities : alone[f].alive = promised[f].alive
          BY <1>3, <1>7, <2>7 DEF p
        <5>2. alone[y].abstract = promised[y].abstract
          BY <1>7, <4>2 DEF p
        <5>3. \A f \in Entities : CommandOf(ds, f).base = y <=> CommandOf(commands, f).base = y
          <6>1. ASSUME NEW f \in Entities
                PROVE  CommandOf(ds, f).base = y <=> CommandOf(commands, f).base = y
            <7>1. CASE f = e
              <8>1. CommandOf(ds, f).base = b /\ CommandOf(commands, f).base \in {NoEntity, b}
                BY <1>3, <1>6, <1>11, <7>1 DEF k, Command
              <8>2. y # NoEntity
                BY CommandsAssumption
              <8>3. QED
                BY <4>2, <8>1, <8>2
            <7>2. CASE f # e
              BY <1>11, <7>2
            <7>3. QED
              BY <7>1, <7>2
          <6>2. QED
            BY <6>1
        <5>4. promised[y].alive
          BY <3>1, <5>1
        <5>5. promised[y].abstract <=> entity[y].abstract
                \/ \E f \in Entities : promised[f].alive /\ CommandOf(commands, f).base = y
          BY <1>9, <5>4 DEF Abst
        <5>6. (\E f \in Entities : promised[f].alive /\ CommandOf(commands, f).base = y)
              <=> \E f \in Entities : alone[f].alive /\ CommandOf(ds, f).base = y
          BY <5>1, <5>3
        <5>7. QED
          BY <5>2, <5>5, <5>6
      <4>3. QED
        BY <4>1, <4>2
    <3>2. QED
      BY <3>1 DEF Abst
  <2>9. Fit(m.entity, m, entity[m.entity], alone[m.entity],
            SeenIn(entity, promised, commands, m.entity))
    BY <1>3, <2>6
  <2> HIDE DEF alone, m
  <2>10. Agrees(entity, alone, ds)
    BY <1>2, <1>3, <1>7, <1>9, <1>10, <2>7, <2>8, <2>9, CallAgrees
  <2>11. QED
    BY <1>8, <1>14, <2>10
<1>15. CASE ~p.alive
  <2> HIDE DEF alone, m
  <2>1. Abst(entity, promised, ds)
    <3>1. ASSUME NEW y \in Entities
          PROVE (\E f \in Entities : promised[f].alive /\ CommandOf(commands, f).base = y)
              <=> \E f \in Entities : promised[f].alive /\ CommandOf(ds, f).base = y
      BY <1>11, <1>15
    <3>2. QED
      BY <1>9, <3>1 DEF Abst
  <2>2. Fit(m.entity, m, entity[m.entity], promised[m.entity],
            SeenIn(entity, promised, commands, m.entity))
    BY <1>2, <1>3, <1>15 DEF Fit
  <2>3. Agrees(entity, promised, ds)
    BY <1>2, <1>3, <1>9, <1>10, <2>1, <2>2, CallAgrees
  <2>4. QED
    BY <1>8, <1>15, <2>3
<1>16. QED
  BY <1>14, <1>15

LEMMA KillAgrees ==
  ASSUME Divergences = {}, Typed, Agrees(entity, promised, commands), NEW e \in Entities, Kill(e)
  PROVE  Agrees(entity', promised', commands')
<1> DEFINE k == Command(e)
           m == Killed(k)
           alone == KilledAlone(promised, e)
           seen == SeenIn(entity, promised, commands, e)
           ds == Recorded(commands, m)
<1>1. entity[e].alive /\ Record(m, alone) /\ ~BaseForgotten(e) /\ ~EditsOutOfOrder(e)
  BY DEF Kill, MayCall, Allow
<1>2. /\ k \in Commands /\ k.entity = e /\ Contained(entity) /\ Contained(promised)
      /\ Contained(seen) /\ Fit(e, k, entity[e], promised[e], seen)
  BY CallFacts
<1>3. m \in Commands /\ m.entity = e /\ m.base = NoEntity /\ m.kill
  BY <1>2, KillIs
<1>4. /\ Contained(alone) /\ alone[e] = Nothing /\ ~Nothing.alive
      /\ \A f \in Entities : f # e => alone[f] = promised[f]
  BY <1>2, KilledIs, NothingIs
<1>5. promised' = alone /\ entity' = entity /\ commands' = ds
  <2>1. promised' = IF promised[e].alive THEN alone ELSE promised
    BY <1>1, <1>3 DEF Record
  <2>2. ~promised[e].alive => alone = promised
    BY <1>2 DEF Fit, KilledAlone, Contained
  <2>3. entity' = entity /\ commands' = ds
    BY <1>1 DEF Record
  <2>4. QED
    BY <2>1, <2>2, <2>3
<1>6. Distinct(commands) /\ Abst(entity, promised, commands)
  BY DEF Typed, Agrees
<1>7. \A f \in Entities : CommandOf(commands, f).base # NoEntity =>
        \/ m.entity \notin Ancestors(SeenIn(entity, promised, commands, f), CommandOf(commands, f).base)
        \/ ~Before(commands, m.entity, f)
  BY <1>1, <1>3, OrderKept
<1>8. CommandOf(ds, e) = m
       /\ \A f \in Entities : f # e => CommandOf(ds, f) = CommandOf(commands, f)
  BY <1>3, <1>6, RecordedCommands
<1> HIDE DEF alone, m, ds
<1>9. Fit(m.entity, m, entity[m.entity], alone[m.entity],
          SeenIn(entity, promised, commands, m.entity))
  BY <1>2, <1>3, <1>4 DEF Fit
<1>10. \A y \in Entities : y # m.entity =>
          /\ alone[y].alive = promised[y].alive /\ alone[y].base = promised[y].base
          /\ alone[y].value = promised[y].value
          /\ ~promised[y].alive => alone[y] = promised[y]
  BY <1>3, <1>4
<1>11. Abst(entity, alone, ds)
  <2>1. ASSUME NEW y \in Entities, alone[y].alive
        PROVE  alone[y].abstract <=> entity[y].abstract
                 \/ \E f \in Entities : alone[f].alive /\ CommandOf(ds, f).base = y
    <3>1. y # e /\ alone[y] = promised[y] /\ y # NoEntity
      BY <1>4, <2>1, CommandsAssumption
    <3>2. promised[y].abstract <=> entity[y].abstract
            \/ \E f \in Entities : promised[f].alive /\ CommandOf(commands, f).base = y
      BY <1>6, <2>1, <3>1 DEF Abst
    <3>3. ASSUME NEW f \in Entities, alone[f].alive, CommandOf(ds, f).base = y
          PROVE  promised[f].alive /\ CommandOf(commands, f).base = y
      BY <1>4, <1>8, <3>3
    <3>4. ASSUME NEW f \in Entities, promised[f].alive, CommandOf(commands, f).base = y
          PROVE  entity[y].abstract \/ (alone[f].alive /\ CommandOf(ds, f).base = y)
      <4>1. CASE f = e
        BY <1>1, <3>1, <3>4, <4>1 DEF BaseForgotten, Command
      <4>2. CASE f # e
        BY <1>4, <1>8, <3>4, <4>2
      <4>3. QED
        BY <4>1, <4>2
    <3>5. QED
      BY <3>1, <3>2, <3>3, <3>4
  <2>2. QED
    BY <2>1 DEF Abst
<1>12. Agrees(entity, alone, ds)
  BY <1>2, <1>3, <1>4, <1>6, <1>7, <1>9, <1>10, <1>11, CallAgrees DEF ds
<1>13. QED
  BY <1>5, <1>12

-----------------------------------------------------------------------------
(* A command applied. *)

(* What a command finds of its entity: alive, base and values count.         *)
LEMMA FitHeld ==
  ASSUME NEW e, NEW k \in Commands, NEW x \in Contents, NEW y \in Contents, NEW p, NEW es,
         Contained(es), Fit(e, k, x, p, es),
         y.alive = x.alive, y.base = x.base, y.value = x.value, ~x.alive => y = x
  PROVE  Fit(e, k, y, p, es)
<1>1. Owned(y) = Owned(x) /\ (BaseChanged(k, y) <=> BaseChanged(k, x))
  BY DEF Owned, BaseChanged
<1>2. Built(k, y) = Built(k, x)
  BY <1>1 DEF Built
<1>3. Copies(k, y, es) = Copies(k, x, es)
  BY <1>1, <1>2 DEF Copies
<1>4. \A c \in Components : ResultAt(k, y, es, c) = ResultAt(k, x, es, c)
  BY <1>2, <1>3 DEF ResultAt
<1>5. Brings(k, x) => Brings(k, y)
  BY <1>1 DEF Brings
<1>6. QED
  BY <1>1, <1>4, <1>5 DEF Fit

(* An entity that is as promised fits without a command.                     *)
LEMMA AsPromisedFits ==
  ASSUME NEW e \in Entities, NEW x \in Contents, NEW p \in Contents, NEW es, Contained(es),
         p.alive = x.alive, p.base = x.base, p.value = x.value,
         ~p.alive => p = Nothing /\ x = Nothing
  PROVE  Fit(e, NoCommand(e), x, p, es)
<1> DEFINE k == NoCommand(e)
<1>1. /\ k \in Commands /\ ~k.kill /\ k.base = NoEntity /\ ~BaseChanged(k, x)
      /\ \A c \in Components : ResultAt(k, x, es, c) = x.value[c]
  BY NoCommandFit
<1>2. Kept(k) = {}
  BY DEF Kept, NoCommand
<1> HIDE DEF k
<1>3. Brings(k, x)
  BY <1>2 DEF Brings
<1>4. QED
  BY <1>1, <1>3 DEF Fit, k

(* The first command finds every other entity as it is.                      *)
LEMMA FirstSeen ==
  ASSUME NEW es, Contained(es), NEW ps, Contained(ps), NEW cs, Distinct(cs), cs # <<>>,
         NEW y \in Entities, y # Head(cs).entity
  PROVE  SeenIn(es, ps, cs, Head(cs).entity)[y] = es[y]
<1> DEFINE e == Head(cs).entity
<1>1. /\ Head(cs) = cs[1] /\ 1 \in DOMAIN cs /\ cs \in Seq(Commands)
      /\ PlaceOf(cs, y) # 1
  BY TailIs DEF Distinct
<1>2. PlaceOf(cs, e) = 1
  BY <1>1, PlaceAt
<1>3. PlaceOf(cs, y) \in 0..Len(cs) /\ Len(cs) \in Nat
  BY <1>1, PlaceIs
<1>4. Before(cs, e, y)
  BY <1>1, <1>2, <1>3 DEF Before
<1>5. QED
  BY <1>4, SeenAt

(* So it may be judged by the entities themselves, marked or not.            *)
LEMMA HeadFits ==
  ASSUME NEW es, Contained(es), NEW ps, Contained(ps), NEW cs, Distinct(cs), cs # <<>>,
         Agrees(es, ps, cs), NEW fs, Contained(fs),
         \A y \in Entities : fs[y].base = es[y].base /\ fs[y].value = es[y].value
  PROVE  LET k == Head(cs)
         IN  /\ Fit(k.entity, k, es[k.entity], ps[k.entity], fs)
             /\ k.entity \in Entities /\ k \in Commands
<1> DEFINE k == Head(cs)
           e == k.entity
           seen == SeenIn(es, ps, cs, e)
           x == es[e]
           p == ps[e]
<1>1. k = cs[1] /\ 1 \in DOMAIN cs
  BY TailIs
<1>2. CommandOf(cs, e) = k /\ k \in Commands /\ e \in Entities
  BY <1>1, PlaceAt
<1>3. Fit(e, k, x, p, seen)
  <2> HIDE DEF e
  <2>1. Fit(e, CommandOf(cs, e), x, p, seen)
    BY <1>2 DEF Agrees
  <2>2. QED
    BY <1>2, <2>1
<1>4. Contained(seen) /\ x \in Contents
  BY <1>2, SeenContained DEF Contained
<1>5. \A y \in Entities : y # e => seen[y] = es[y]
  BY FirstSeen
<1> HIDE DEF k, e, seen, x, p
<1>6. p.alive /\ BaseChanged(k, x) =>
        \A y \in Ancestors(seen, k.base) : fs[y].base = seen[y].base /\ fs[y].value = seen[y].value
  <2>1. SUFFICES ASSUME p.alive, BaseChanged(k, x), NEW y \in Ancestors(seen, k.base)
                 PROVE  fs[y].base = seen[y].base /\ fs[y].value = seen[y].value
    OBVIOUS
  <2>2. y # e
    BY <1>3, <2>1 DEF Fit
  <2>3. k.base \in Entities
    BY <1>2, <2>1, CommandFields DEF BaseChanged
  <2>4. y \in Entities
    BY <1>4, <2>1, <2>3, ContainedBased, AncestorsAre
  <2>5. QED
    BY <1>5, <2>2, <2>4
<1>7. Fit(e, k, x, p, fs)
  BY <1>2, <1>3, <1>4, <1>6, FitSeen
<1>8. QED
  BY <1>2, <1>7 DEF k, e, x, p

(* After the first command the others find what it leaves, as promised.      *)
LEMMA SeenApplied ==
  ASSUME NEW es, Contained(es), NEW ps, Contained(ps), NEW fs, Contained(fs),
         NEW cs, Distinct(cs), cs # <<>>,
         \A y \in Entities : y # Head(cs).entity =>
           fs[y].base = es[y].base /\ fs[y].value = es[y].value,
         fs[Head(cs).entity].base = ps[Head(cs).entity].base,
         fs[Head(cs).entity].value = ps[Head(cs).entity].value,
         NEW f \in Entities, f # Head(cs).entity, PlaceOf(cs, f) # 0, NEW y \in Entities
  PROVE  LET old == SeenIn(es, ps, cs, f)
             new == SeenIn(fs, ps, Tail(cs), f)
         IN  new[y].base = old[y].base /\ new[y].value = old[y].value
<1> DEFINE e == Head(cs).entity
           old == SeenIn(es, ps, cs, f)
           new == SeenIn(fs, ps, Tail(cs), f)
<1>1. /\ PlaceOf(Tail(cs), e) = 0
      /\ PlaceOf(Tail(cs), f) = PlaceOf(cs, f) - 1 /\ PlaceOf(cs, f) # 1
      /\ y # e => /\ PlaceOf(Tail(cs), y) = (IF PlaceOf(cs, y) = 0 THEN 0 ELSE PlaceOf(cs, y) - 1)
                  /\ PlaceOf(cs, y) # 1
  BY TailIs
<1>2. PlaceOf(cs, e) = 1
  <2>1. Head(cs) = cs[1] /\ 1 \in DOMAIN cs
    BY TailIs
  <2>2. QED
    BY <2>1, PlaceAt
<1>3. PlaceOf(cs, f) \in Nat /\ PlaceOf(cs, y) \in Nat
  <2>1. cs \in Seq(Commands)
    BY DEF Distinct
  <2>2. PlaceOf(cs, f) \in 0..Len(cs) /\ PlaceOf(cs, y) \in 0..Len(cs) /\ Len(cs) \in Nat
    BY <2>1, PlaceIs
  <2>3. QED
    BY <2>2
<1>4. /\ Before(Tail(cs), f, y) => new[y] = fs[y]
      /\ ~Before(Tail(cs), f, y) => new[y] = ps[y]
      /\ Before(cs, f, y) => old[y] = es[y]
      /\ ~Before(cs, f, y) => old[y] = ps[y]
  BY SeenAt
<1> HIDE DEF new, old
<1>5. CASE y = e
  <2>1. Before(Tail(cs), f, y)
    BY <1>1, <1>3, <1>5 DEF Before
  <2>2. ~Before(cs, f, y)
    BY <1>1, <1>2, <1>3, <1>5 DEF Before
  <2>3. QED
    BY <1>4, <1>5, <2>1, <2>2 DEF new, old
<1>6. CASE y # e
  <2>1. Before(Tail(cs), f, y) <=> Before(cs, f, y)
    BY <1>1, <1>3, <1>6 DEF Before
  <2>2. CASE Before(cs, f, y)
    BY <1>4, <1>6, <2>1, <2>2 DEF new, old
  <2>3. CASE ~Before(cs, f, y)
    BY <1>4, <1>6, <2>1, <2>3 DEF new, old
  <2>4. QED
    BY <2>2, <2>3
<1>7. QED
  BY <1>5, <1>6

(* A command that leaves its entity as promised and the others alone         *)
LEMMA AppliedAgrees ==
  ASSUME NEW es, Contained(es), NEW ps, Contained(ps), NEW fs, Contained(fs),
         NEW cs, Distinct(cs), cs # <<>>, Agrees(es, ps, cs),
         \A y \in Entities : y # Head(cs).entity =>
           /\ fs[y].alive = es[y].alive /\ fs[y].base = es[y].base /\ fs[y].value = es[y].value
           /\ ~es[y].alive => fs[y] = es[y],
         fs[Head(cs).entity].alive = ps[Head(cs).entity].alive,
         fs[Head(cs).entity].base = ps[Head(cs).entity].base,
         fs[Head(cs).entity].value = ps[Head(cs).entity].value,
         ~ps[Head(cs).entity].alive => fs[Head(cs).entity] = Nothing,
         Abst(fs, ps, Tail(cs)), BasesAbstract(fs)
  PROVE  Agrees(fs, ps, Tail(cs))
<1> DEFINE e == Head(cs).entity
           ds == Tail(cs)
<1>1. ASSUME NEW f \in Entities
      PROVE  Fit(f, CommandOf(ds, f), fs[f], ps[f], SeenIn(fs, ps, ds, f))
  <2>1. fs[f] \in Contents /\ ps[f] \in Contents /\ es[f] \in Contents
        /\ Contained(SeenIn(fs, ps, ds, f)) /\ Contained(SeenIn(es, ps, cs, f))
    BY SeenContained DEF Contained
  <2>2. Fit(f, CommandOf(cs, f), es[f], ps[f], SeenIn(es, ps, cs, f))
    BY DEF Agrees
  <2>3. CASE f = e
    <3>1. CommandOf(ds, f) = NoCommand(f)
      BY <2>3, TailIs
    <3>2. ~ps[f].alive => ps[f] = Nothing /\ fs[f] = Nothing
      BY <2>2, <2>3 DEF Fit
    <3>3. ps[f].alive = fs[f].alive /\ ps[f].base = fs[f].base /\ ps[f].value = fs[f].value
      BY <2>3
    <3>4. QED
      BY <2>1, <3>1, <3>2, <3>3, AsPromisedFits
  <2>4. CASE f # e
    <3> DEFINE k == CommandOf(cs, f)
               old == SeenIn(es, ps, cs, f)
               new == SeenIn(fs, ps, ds, f)
    <3>1. cs \in Seq(Commands) /\ k \in Commands /\ CommandOf(ds, f) = k
      <4>1. cs \in Seq(Commands)
        BY DEF Distinct
      <4>2. CommandOf(ds, f) = k
        BY <2>4, TailIs
      <4>3. QED
        BY <4>1, <4>2, CommandIs
    <3>2. PlaceOf(cs, f) = 0 => k.base = NoEntity
      BY <3>1, CommandIs DEF NoCommand
    <3>3. PlaceOf(cs, f) # 0 => \A y \in Entities :
            new[y].base = old[y].base /\ new[y].value = old[y].value
      BY <2>4, SeenApplied
    <3> HIDE DEF k, old, new
    <3>4. Fit(f, k, fs[f], ps[f], old)
      <4>1. fs[f].alive = es[f].alive /\ fs[f].base = es[f].base /\ fs[f].value = es[f].value
            /\ (~es[f].alive => fs[f] = es[f])
        BY <2>4
      <4>2. Fit(f, k, es[f], ps[f], old) /\ Contained(old)
        BY <2>1, <2>2 DEF k, old
      <4>3. QED
        BY <2>1, <3>1, <4>1, <4>2, FitHeld
    <3>5. ps[f].alive /\ BaseChanged(k, fs[f]) =>
            \A y \in Ancestors(old, k.base) : new[y].base = old[y].base /\ new[y].value = old[y].value
      <4>1. SUFFICES ASSUME BaseChanged(k, fs[f]), NEW y \in Ancestors(old, k.base)
                     PROVE  new[y].base = old[y].base /\ new[y].value = old[y].value
        OBVIOUS
      <4>2. k.base \in Entities /\ k.base # NoEntity
        BY <3>1, <4>1, CommandFields DEF BaseChanged
      <4>3. y \in Entities
        BY <2>1, <4>1, <4>2, ContainedBased, AncestorsAre DEF old
      <4>4. QED
        BY <3>2, <3>3, <4>2, <4>3
    <3>6. Contained(old) /\ Contained(new)
      BY <2>1 DEF old, new
    <3>7. Fit(f, k, fs[f], ps[f], new)
      BY <2>1, <3>1, <3>4, <3>5, <3>6, FitSeen
    <3>8. QED
      BY <3>1, <3>7 DEF new
  <2>5. QED
    BY <2>3, <2>4
<1>2. QED
  BY <1>1 DEF Agrees

(* What is abstract once a command has given its entity a base               *)
LEMMA AppliedAbst ==
  ASSUME NEW es, Contained(es), NEW ps, Contained(ps), NEW fs, Contained(fs),
         NEW cs, Distinct(cs), cs # <<>>, Agrees(es, ps, cs),
         NEW k, k = Head(cs), NEW e, e = k.entity, ps[e].alive,
         k.base # NoEntity => es[k.base].alive,
         \A y \in Entities : fs[y].alive = es[y].alive,
         \A y \in Entities : y # e => fs[y].base = es[y].base,
         fs[e].base = IF k.base = NoEntity THEN es[e].base ELSE k.base,
         \A y \in Entities :
           fs[y].abstract <=> es[y].abstract \/ (BaseChanged(k, es[e]) /\ y = k.base)
  PROVE  Abst(fs, ps, Tail(cs)) /\ BasesAbstract(fs)
<1>1. /\ k = cs[1] /\ 1 \in DOMAIN cs
      /\ CommandOf(Tail(cs), e) = NoCommand(e)
      /\ \A f \in Entities : f # e => CommandOf(Tail(cs), f) = CommandOf(cs, f)
  BY TailIs
<1>2. CommandOf(cs, e) = k /\ e \in Entities /\ k \in Commands
  BY <1>1, PlaceAt
<1>3. k.base \in Entities \cup {NoEntity} /\ CommandOf(Tail(cs), e).base = NoEntity
  BY <1>1, <1>2, CommandFields DEF NoCommand
<1>4. Abst(es, ps, cs) /\ BasesAbstract(es)
  BY DEF Agrees
<1>5. ASSUME k.base # NoEntity, ~BaseChanged(k, es[e]) PROVE es[k.base].abstract
  <2>1. es[e].base = k.base
    BY <1>5 DEF BaseChanged
  <2>2. QED
    BY <1>2, <1>4, <1>5, <2>1 DEF BasesAbstract
<1>6. \A y \in Entities : fs[y].abstract <=> es[y].abstract \/ y = k.base
  <2>1. ASSUME NEW y \in Entities PROVE fs[y].abstract <=> es[y].abstract \/ y = k.base
    <3>1. y # NoEntity
      BY CommandsAssumption
    <3>2. CASE BaseChanged(k, es[e])
      BY <3>2
    <3>3. CASE ~BaseChanged(k, es[e])
      BY <1>5, <3>1, <3>3
    <3>4. QED
      BY <3>2, <3>3
  <2>2. QED
    BY <2>1
<1>7. ASSUME NEW y \in Entities, ps[y].alive
      PROVE  ps[y].abstract <=> fs[y].abstract
               \/ \E f \in Entities : ps[f].alive /\ CommandOf(Tail(cs), f).base = y
  <2>1. ps[y].abstract <=> es[y].abstract
          \/ \E f \in Entities : ps[f].alive /\ CommandOf(cs, f).base = y
    BY <1>4, <1>7 DEF Abst
  <2>2. y # NoEntity
    BY CommandsAssumption
  <2>3. (\E f \in Entities : ps[f].alive /\ CommandOf(cs, f).base = y)
        <=> y = k.base \/ \E f \in Entities : ps[f].alive /\ CommandOf(Tail(cs), f).base = y
    <3>1. ASSUME NEW f \in Entities, ps[f].alive, CommandOf(cs, f).base = y
          PROVE  y = k.base \/ CommandOf(Tail(cs), f).base = y
      BY <1>1, <1>2, <3>1
    <3>2. ASSUME y = k.base PROVE ps[e].alive /\ CommandOf(cs, e).base = y
      BY <1>2, <3>2
    <3>3. ASSUME NEW f \in Entities, ps[f].alive, CommandOf(Tail(cs), f).base = y
          PROVE  CommandOf(cs, f).base = y
      BY <1>1, <1>3, <2>2, <3>3
    <3>4. QED
      BY <1>2, <3>1, <3>2, <3>3
  <2>4. QED
    BY <1>6, <2>1, <2>3
<1>8. ASSUME NEW g \in Entities, fs[g].base # NoEntity
      PROVE  fs[fs[g].base].abstract \/ ~fs[fs[g].base].alive
  <2>1. fs[g].base \in Entities
    BY <1>8, ContentsAre DEF Contained
  <2>2. CASE fs[g].base = es[g].base
    <3>1. es[es[g].base].abstract \/ ~es[es[g].base].alive
      BY <1>4, <1>8, <2>2 DEF BasesAbstract
    <3>2. QED
      BY <1>6, <2>1, <2>2, <3>1
  <2>3. CASE fs[g].base # es[g].base
    <3>1. g = e /\ fs[g].base = k.base
      BY <2>3
    <3>2. QED
      BY <1>6, <2>1, <3>1
  <2>4. QED
    BY <2>2, <2>3
<1>9. QED
  BY <1>7, <1>8 DEF Abst, BasesAbstract

(* And once it has killed its entity                                         *)
LEMMA KilledAbst ==
  ASSUME NEW es, Contained(es), NEW ps, Contained(ps), NEW fs, Contained(fs),
         NEW cs, Distinct(cs), cs # <<>>, Agrees(es, ps, cs),
         NEW e, e = Head(cs).entity, ~ps[e].alive, fs[e] = Nothing,
         \A y \in Entities : y # e => fs[y] = es[y]
  PROVE  Abst(fs, ps, Tail(cs)) /\ BasesAbstract(fs)
<1>1. /\ CommandOf(Tail(cs), e) = NoCommand(e)
      /\ \A f \in Entities : f # e => CommandOf(Tail(cs), f) = CommandOf(cs, f)
  BY TailIs
<1>2. CommandOf(Tail(cs), e).base = NoEntity /\ Nothing.base = NoEntity /\ ~Nothing.alive
  BY <1>1 DEF NoCommand, Nothing
<1>3. Abst(es, ps, cs) /\ BasesAbstract(es)
  BY DEF Agrees
<1>4. ASSUME NEW y \in Entities, ps[y].alive
      PROVE  ps[y].abstract <=> fs[y].abstract
               \/ \E f \in Entities : ps[f].alive /\ CommandOf(Tail(cs), f).base = y
  <2>1. ps[y].abstract <=> es[y].abstract
          \/ \E f \in Entities : ps[f].alive /\ CommandOf(cs, f).base = y
    BY <1>3, <1>4 DEF Abst
  <2>2. y # e /\ fs[y] = es[y] /\ y # NoEntity
    BY <1>4, CommandsAssumption
  <2>3. \A f \in Entities : ps[f].alive => CommandOf(Tail(cs), f) = CommandOf(cs, f)
    BY <1>1
  <2>4. QED
    BY <2>1, <2>2, <2>3
<1>5. ASSUME NEW g \in Entities, fs[g].base # NoEntity
      PROVE  fs[fs[g].base].abstract \/ ~fs[fs[g].base].alive
  <2>1. g # e /\ fs[g] = es[g]
    BY <1>2, <1>5
  <2>2. fs[g].base \in Entities
    BY <1>5, ContentsAre DEF Contained
  <2>3. es[es[g].base].abstract \/ ~es[es[g].base].alive
    BY <1>3, <1>5, <2>1 DEF BasesAbstract
  <2>4. CASE fs[g].base = e
    BY <1>2, <2>4
  <2>5. CASE fs[g].base # e
    BY <2>1, <2>2, <2>3, <2>5
  <2>6. QED
    BY <2>4, <2>5
<1>6. QED
  BY <1>4, <1>5 DEF Abst, BasesAbstract

(* A command that changes no type only writes values.                        *)
LEMMA InPlaceResult ==
  ASSUME NEW k \in Commands, NEW x \in Contents, TypeUnchanged(k, x), Brings(k, x), NEW es
  PROVE  /\ ~BaseChanged(k, x)
         /\ \A c \in Components :
              ResultAt(k, x, es, c) = IF k.op[c] = "copy" THEN k.data[c] ELSE x.value[c]
<1>1. k.base \in {NoEntity, x.base} /\ Changed(k) \subseteq Kept(k) /\ Changed(k) \subseteq Owned(x)
  BY DEF TypeUnchanged
<1>2. ~BaseChanged(k, x) /\ Copies(k, x, es) = {}
  BY <1>1 DEF BaseChanged, Copies
<1>3. Kept(k) \subseteq Changed(k)
  BY DEF Kept, Changed
<1>4. \A c \in Components : k.op[c] # "remove"
  BY <1>1 DEF Kept, Changed
<1>5. Required(k) \subseteq Owned(x)
  BY <1>1, <1>3 DEF Required, Brings
<1>6. Built(k, x) = Owned(x)
  BY <1>1, <1>3, <1>4, <1>5 DEF Built
<1>7. ASSUME NEW c \in Components
      PROVE  ResultAt(k, x, es, c) = IF k.op[c] = "copy" THEN k.data[c] ELSE x.value[c]
  <2>1. c \in Owned(x) <=> x.value[c] # Absent
    BY DEF Owned
  <2>2. QED
    BY <1>2, <1>6, <2>1 DEF ResultAt
<1>8. QED
  BY <1>2, <1>7

LEMMA InPlaceAgrees ==
  ASSUME Typed, Agrees(entity, promised, batch), ApplyInPlace
  PROVE  Agrees(entity', promised', batch')
<1> DEFINE k == Head(batch)
           e == k.entity
           x == entity[e]
           p == promised[e]
           z == Written(k, x)
           m == Migrate(World, e, z)
<1>1. batch # <<>> /\ Settle(m, transition) /\ ~k.kill /\ TypeUnchanged(k, x)
  BY DEF ApplyInPlace, Alters
<1>2. k \in Commands /\ e \in Entities /\ x \in Contents /\ x.alive
  BY <1>1, HeadIs
<1>3. /\ z \in Contents /\ z.alive = x.alive /\ z.abstract = x.abstract /\ z.base = x.base
      /\ \A d \in Components : z.value[d] = IF k.op[d] = "copy" THEN k.data[d] ELSE x.value[d]
  BY <1>2, WrittenIs
<1>4. /\ World.entity = entity /\ World.table = table /\ Stored(entity, table)
      /\ Contained(entity) /\ Contained(promised) /\ Distinct(batch)
  BY DEF World, Typed, Stored, Contained
<1>5. Fit(e, k, x, p, entity)
  BY <1>1, <1>4, HeadFits
<1>6. m.entity = [entity EXCEPT ![e] = z]
  BY DEF Migrate, World
<1>7. entity' = m.entity /\ batch' = Tail(batch) /\ promised' = promised
  BY <1>1 DEF Settle
<1>8. p \in Contents /\ p.alive
  BY <1>1, <1>2, <1>4, <1>5 DEF Contained, Fit
<1>9. k.base # NoEntity => entity[k.base].alive
  BY <1>1, HeadIs
<1> HIDE DEF z, m
<1>10. Brings(k, x) /\ \A c \in Components : p.value[c] = ResultAt(k, x, entity, c)
  BY <1>5, <1>8 DEF Fit
<1>11. /\ ~BaseChanged(k, x)
       /\ \A c \in Components :
            ResultAt(k, x, entity, c) = IF k.op[c] = "copy" THEN k.data[c] ELSE x.value[c]
  BY <1>1, <1>2, <1>10, InPlaceResult
<1>12. p.value = z.value
  <2>1. \A c \in Components : p.value[c] = z.value[c]
    BY <1>3, <1>10, <1>11
  <2>2. QED
    BY <1>3, <1>8, <2>1, ContentsAre
<1>13. p.base = z.base
  <2>1. p.base = IF k.base = NoEntity THEN x.base ELSE k.base
    BY <1>5, <1>8 DEF Fit
  <2>2. QED
    BY <1>3, <1>11, <2>1 DEF BaseChanged
<1>14. p.alive = z.alive
  BY <1>2, <1>3, <1>8, ContentsAre
<1> DEFINE fs == entity'
<1>15. /\ fs[e] = z /\ \A y \in Entities : y # e => fs[y] = entity[y]
       /\ Contained(fs)
  BY <1>2, <1>3, <1>4, <1>6, <1>7 DEF Contained
<1> HIDE DEF k, e, x, p, fs
<1>16. \A y \in Entities : /\ fs[y].alive = entity[y].alive /\ fs[y].base = entity[y].base
                           /\ fs[y].abstract <=> entity[y].abstract
  BY <1>3, <1>15 DEF x
<1>17. Abst(fs, promised, Tail(batch)) /\ BasesAbstract(fs)
  <2>1. ~BaseChanged(k, entity[e]) /\ k = Head(batch) /\ e = k.entity /\ promised[e].alive
    BY <1>8, <1>11 DEF k, e, x, p
  <2>2. fs[e].base = IF k.base = NoEntity THEN entity[e].base ELSE k.base
    BY <1>2, <1>16, <2>1 DEF BaseChanged
  <2>3. \A y \in Entities : y # e => fs[y].base = entity[y].base
    BY <1>16
  <2>4. \A y \in Entities :
          fs[y].abstract <=> entity[y].abstract \/ (BaseChanged(k, entity[e]) /\ y = k.base)
    BY <1>16, <2>1
  <2>5. QED
    BY <1>1, <1>4, <1>9, <1>15, <1>16, <2>1, <2>2, <2>3, <2>4, AppliedAbst
<1>18. Agrees(fs, promised, Tail(batch))
  <2>1. \A y \in Entities : y # Head(batch).entity =>
           /\ fs[y].alive = entity[y].alive /\ fs[y].base = entity[y].base
           /\ fs[y].value = entity[y].value
           /\ ~entity[y].alive => fs[y] = entity[y]
    BY <1>15 DEF e, k
  <2>2. /\ fs[Head(batch).entity].alive = promised[Head(batch).entity].alive
        /\ fs[Head(batch).entity].base = promised[Head(batch).entity].base
        /\ fs[Head(batch).entity].value = promised[Head(batch).entity].value
        /\ promised[Head(batch).entity].alive
    BY <1>8, <1>12, <1>13, <1>14, <1>15 DEF e, k, p
  <2>3. QED
    BY <1>1, <1>4, <1>15, <1>17, <2>1, <2>2, AppliedAgrees
<1>19. QED
  BY <1>7, <1>18 DEF fs

LEMMA ApplyKillAgrees ==
  ASSUME Typed, Agrees(entity, promised, batch), ApplyKill
  PROVE  Agrees(entity', promised', batch')
<1> DEFINE k == Head(batch)
           e == k.entity
           fs == entity'
<1>1. batch # <<>> /\ Settle(KillRow(World, e), transition) /\ k.kill
  BY DEF ApplyKill
<1>2. k \in Commands /\ e \in Entities /\ ~promised[e].alive
  BY <1>1, HeadIs
<1>3. Contained(entity) /\ Contained(promised) /\ Distinct(batch)
  BY DEF Typed, Stored, Contained
<1>4. fs = [entity EXCEPT ![e] = Nothing] /\ batch' = Tail(batch) /\ promised' = promised
  BY <1>1 DEF Settle, KillRow, World
<1>5. /\ fs[e] = Nothing /\ \A y \in Entities : y # e => fs[y] = entity[y]
      /\ Contained(fs)
  BY <1>2, <1>3, <1>4, NothingIs DEF Contained
<1>6. promised[e] = Nothing
  <2>1. Fit(e, CommandOf(batch, e), entity[e], promised[e], SeenIn(entity, promised, batch, e))
    BY <1>2 DEF Agrees
  <2>2. QED
    BY <1>2, <2>1 DEF Fit
<1> HIDE DEF k, e, fs
<1>7. e = Head(batch).entity
  BY DEF e, k
<1>8. Abst(fs, promised, Tail(batch)) /\ BasesAbstract(fs)
  BY <1>1, <1>2, <1>3, <1>5, <1>7, KilledAbst
<1>9. Agrees(fs, promised, Tail(batch))
  <2>1. \A y \in Entities : y # Head(batch).entity =>
           /\ fs[y].alive = entity[y].alive /\ fs[y].base = entity[y].base
           /\ fs[y].value = entity[y].value
           /\ ~entity[y].alive => fs[y] = entity[y]
    BY <1>5, <1>7
  <2>2. /\ fs[Head(batch).entity].alive = promised[Head(batch).entity].alive
        /\ fs[Head(batch).entity].base = promised[Head(batch).entity].base
        /\ fs[Head(batch).entity].value = promised[Head(batch).entity].value
        /\ fs[Head(batch).entity] = Nothing
    BY <1>5, <1>6, <1>7
  <2>3. QED
    BY <1>1, <1>3, <1>5, <1>8, <2>1, <2>2, AppliedAgrees
<1>10. QED
  BY <1>4, <1>9 DEF fs

(* The address of a value of a living entity is where the value is.          *)
LEMMA AddressReads ==
  ASSUME NEW w, Stored(w.entity, w.table), NEW y \in Entities, w.entity[y].alive, NEW c
  PROVE  ReadAt(w, Address(w, y), c) = {w.entity[y].value[c]}
<1> DEFINE type == TypeOf(w.entity[y])
           t == w.table[type]
           a == Address(w, y)
<1>1. type \in DOMAIN w.table /\ Holds(t, InTable(w.entity, type)) /\ y \in InTable(w.entity, type)
  BY DEF Stored, InTable
<1>2. a.type = type /\ a.row = RowOf(t, y) /\ a.capacity = t.capacity
  BY DEF Address
<1> HIDE DEF a, t, type
<1>3. RowOf(t, y) \in 1..Len(t.rows) /\ t.rows[RowOf(t, y)] = y /\ Len(t.rows) \in Nat
  <2>1. RowOf(t, y) \in 1..Len(t.rows) /\ t.rows[RowOf(t, y)] = y
    BY <1>1, RowHolds
  <2>2. QED
    BY <1>1, <2>1 DEF Holds
<1>4. w.table[a.type] = t
  BY <1>2 DEF t
<1>5. a.row <= Len(t.rows)
  BY <1>2, <1>3
<1>6. QED
  BY <1>2, <1>3, <1>4, <1>5 DEF ReadAt, a

(* The transition found for a command gives its entity what the command does. *)
LEMMA FreshIs ==
  ASSUME NEW w, NEW k \in Commands, NEW x \in Contents
  PROVE  LET t == Fresh(w, Completed(k), TypeOf(x), x)
         IN  /\ t.to.owned = Built(k, x) \cup Copies(k, x, w.entity)
             /\ t.to.base = IF k.base = NoEntity THEN x.base ELSE k.base
             /\ t.copies = [c \in Copies(k, x, w.entity) |->
                              Address(w, Provider(w.entity, k.base, c))]
<1> DEFINE m == Completed(k)
           t == Fresh(w, m, TypeOf(x), x)
<1>1. /\ m \in Commands /\ m.base = k.base /\ Required(k) \subseteq Components
      /\ \A d \in Components : m.op[d] = IF d \in Required(k) /\ d \notin Kept(k) THEN "add"
                                         ELSE k.op[d]
  BY CompletedIs DEF Required
<1> HIDE DEF m
<1>2. k.op \in [Components -> Ops]
  BY CommandFields
<1>3. Kept(m) = Kept(k) \cup Required(k)
  BY <1>1 DEF Kept
<1>4. \A d \in Components : d \in Changed(m) <=> d \in Kept(m) \/ k.op[d] = "remove"
  BY <1>1, <1>2, <1>3 DEF Changed, Kept, Ops
<1>5. \A d \in Components : d \in BuiltOwned(m, x) <=> d \in Built(k, x)
  BY <1>3, <1>4 DEF BuiltOwned, Built, Owned
<1>6. BuiltOwned(m, x) = Built(k, x)
  <2>1. BuiltOwned(m, x) \subseteq Components
    BY DEF BuiltOwned, Owned, Kept
  <2>2. Built(k, x) \subseteq Components
    BY BuiltIs
  <2>3. QED
    BY <1>5, <2>1, <2>2
<1>7. BaseChanged(m, x) <=> BaseChanged(k, x)
  BY <1>1 DEF BaseChanged
<1> DEFINE plan == IF BaseChanged(m, x) THEN Plan(w.entity, m.base, BuiltOwned(m, x)) ELSE {}
<1>8. plan = Copies(k, x, w.entity)
  BY <1>1, <1>6, <1>7 DEF Copies
<1>9. t.to.owned = BuiltOwned(m, x) \cup plan
      /\ t.to.base = (IF m.base = NoEntity THEN TypeOf(x).base ELSE m.base)
      /\ t.copies = Sources(w, m.base, plan)
  BY DEF Fresh
<1>10. TypeOf(x).base = x.base
  BY DEF TypeOf
<1> HIDE DEF t, plan
<1>11. t.copies = [c \in Copies(k, x, w.entity) |-> Address(w, Provider(w.entity, k.base, c))]
  BY <1>1, <1>8, <1>9 DEF Sources
<1>12. QED
  BY <1>1, <1>6, <1>8, <1>9, <1>10, <1>11 DEF t, m

(* What a restructured entity holds, when its transition is as a fresh one.  *)
LEMMA AfterResult ==
  ASSUME Typed, batch # <<>>, TransitionFresh, Alters,
         ~TypeUnchanged(Head(batch), entity[Head(batch).entity]),
         \A y \in Entities : ~entity[y].alive => entity[y] = Nothing,
         NEW copied \in Reads(Ready(Head(batch)), TransitionFor(Head(batch)))
  PROVE  LET k == Head(batch)
             x == entity[k.entity]
             z == After(k, copied)
         IN  /\ z.alive = x.alive /\ z.abstract = x.abstract
             /\ z.base = IF k.base = NoEntity THEN x.base ELSE k.base
             /\ \A c \in Components : z.value[c] = ResultAt(k, x, Ready(k).entity, c)
<1> DEFINE k == Head(batch)
           x == entity[k.entity]
           w == Ready(k)
           t == TransitionFor(k)
           usual == Fresh(w, Completed(k), TypeOf(x), x)
           S == Copies(k, x, w.entity)
<1>1. k \in Commands /\ k.entity \in Entities /\ x \in Contents
  BY HeadIs
<1>2. /\ Stored(w.entity, w.table)
      /\ \A y \in Entities : /\ w.entity[y].alive = entity[y].alive
                             /\ Owned(w.entity[y]) = Owned(entity[y])
  BY ReadyIs
<1>3. Contained(w.entity)
  BY <1>2 DEF Stored, Contained
<1>4. t.to = usual.to /\ t.copies = usual.copies
  <2>1. CASE Hit(k, TypeOf(x))
    <3>1. t = transition
      BY <2>1 DEF TransitionFor
    <3>2. QED
      BY <2>1, <3>1 DEF TransitionFresh
  <2>2. CASE ~Hit(k, TypeOf(x))
    BY <2>2 DEF TransitionFor, FullFor
  <2>3. QED
    BY <2>1, <2>2
<1>5. /\ usual.to.owned = Built(k, x) \cup S
      /\ usual.to.base = IF k.base = NoEntity THEN x.base ELSE k.base
      /\ usual.copies = [c \in S |-> Address(w, Provider(w.entity, k.base, c))]
  BY <1>1, FreshIs
<1>6. copied \in [DOMAIN t.copies -> Values \cup {Absent}]
      /\ \A c \in DOMAIN copied : copied[c] \in ReadAt(w, t.copies[c], c)
  BY DEF Reads
<1>7. t.to.owned \in SUBSET Components /\ t.to.base \in Entities \cup {NoEntity}
      /\ FullFor(k) \in Commands
  BY ForTyped
<1>8. FullFor(k).data = k.data /\ \A c \in Components : FullFor(k).op[c] = "copy" <=> k.op[c] = "copy"
  <2> DEFINE m == Completed(k)
  <2>1. m.data = k.data
        /\ \A d \in Components : m.op[d] = IF d \in Required(k) /\ d \notin Kept(k) THEN "add"
                                           ELSE k.op[d]
    BY <1>1, CompletedIs DEF Required
  <2> HIDE DEF m
  <2>2. \A d \in Components : m.op[d] = "copy" <=> k.op[d] = "copy"
    BY <2>1 DEF Kept
  <2>3. FullFor(k) \in {k, m}
    BY DEF FullFor, m
  <2>4. QED
    BY <2>1, <2>2, <2>3
<1> HIDE DEF k, x, w, t, usual, S
<1>9. copied \in [S -> Values \cup {Absent}]
  BY <1>4, <1>5, <1>6
<1>10. ASSUME NEW c \in S PROVE copied[c] = w.entity[Provider(w.entity, k.base, c)].value[c]
  <2> DEFINE y == Provider(w.entity, k.base, c)
  <2>1. y \in Entities /\ c \in Owned(w.entity[y])
    BY <1>1, <1>3, <1>10, CopiedFrom DEF S
  <2>2. w.entity[y].alive
    <3>1. Owned(Nothing) = {}
      BY NothingIs
    <3> HIDE DEF y
    <3>2. entity[y].alive
      BY <1>2, <2>1, <3>1
    <3>3. QED
      BY <1>2, <2>1, <3>2
  <2>3. t.copies[c] = Address(w, y)
    BY <1>4, <1>5
  <2>4. copied[c] \in ReadAt(w, t.copies[c], c)
    BY <1>6, <1>9
  <2> HIDE DEF y
  <2>5. ReadAt(w, Address(w, y), c) = {w.entity[y].value[c]}
    BY <1>2, <2>1, <2>2, AddressReads
  <2>6. QED
    BY <2>3, <2>4, <2>5 DEF y
<1> DEFINE v == Moved(x, t, copied)
<1>11. /\ v \in Contents /\ v.alive = x.alive /\ v.abstract = x.abstract /\ v.base = t.to.base
       /\ \A d \in Components :
            v.value[d] = IF d \in S THEN copied[d]
                         ELSE IF d \notin t.to.owned THEN Absent
                         ELSE IF x.value[d] = Absent THEN Default ELSE x.value[d]
  BY <1>1, <1>7, <1>9, MovedIs
<1> HIDE DEF v
<1> DEFINE z == Written(FullFor(k), v)
<1>12. /\ z.alive = v.alive /\ z.abstract = v.abstract /\ z.base = v.base
       /\ \A d \in Components :
            z.value[d] = IF FullFor(k).op[d] = "copy" THEN FullFor(k).data[d] ELSE v.value[d]
  BY <1>7, <1>11, WrittenIs
<1> HIDE DEF z
<1>13. z = After(k, copied)
  BY DEF z, v, After, x, t
<1>14. ASSUME NEW c \in Components PROVE z.value[c] = ResultAt(k, x, w.entity, c)
  <2>1. CASE k.op[c] = "copy"
    BY <1>8, <1>12, <2>1 DEF ResultAt
  <2>2. CASE k.op[c] # "copy" /\ c \in S
    <3>1. z.value[c] = copied[c]
      BY <1>8, <1>11, <1>12, <2>2
    <3>2. QED
      BY <1>10, <2>2, <3>1 DEF ResultAt, S
  <2>3. CASE k.op[c] # "copy" /\ c \notin S
    <3>1. c \in t.to.owned <=> c \in Built(k, x)
      BY <1>4, <1>5, <2>3
    <3>2. z.value[c] = IF c \notin t.to.owned THEN Absent
                       ELSE IF x.value[c] = Absent THEN Default ELSE x.value[c]
      BY <1>8, <1>11, <1>12, <2>3
    <3>3. QED
      BY <2>3, <3>1, <3>2 DEF ResultAt, S
  <2>4. QED
    BY <2>1, <2>2, <2>3
<1>15. z.base = IF k.base = NoEntity THEN x.base ELSE k.base
  BY <1>4, <1>5, <1>11, <1>12
<1>16. QED
  BY <1>11, <1>12, <1>13, <1>14, <1>15 DEF k, x, w

(* The world in which a command changes its entity: its base is marked.      *)
LEMMA ReadyMarks ==
  ASSUME Typed, Agrees(entity, promised, batch), batch # <<>>, ~Head(batch).kill
  PROVE  LET k == Head(batch)
             x == entity[k.entity]
             w == Ready(k)
         IN  /\ BaseChanged(k, x) => k.base # k.entity /\ k.base \in Entities
             /\ \A y \in Entities :
                  /\ w.entity[y].abstract <=> entity[y].abstract \/ (BaseChanged(k, x) /\ y = k.base)
                  /\ ~(BaseChanged(k, x) /\ y = k.base) => w.entity[y] = entity[y]
             /\ \A y \in Entities : ~w.entity[y].alive => w.entity[y] = Nothing
             /\ BasesAbstract(w.entity)
<1> DEFINE k == Head(batch)
           e == k.entity
           x == entity[e]
           p == promised[e]
           w == Ready(k)
<1>1. /\ k \in Commands /\ e \in Entities /\ x \in Contents /\ x.alive
      /\ k.base \in Entities \cup {NoEntity} /\ (k.base # NoEntity => entity[k.base].alive)
  BY HeadIs
<1>2. /\ Stored(w.entity, w.table)
      /\ w.entity = IF BaseChanged(k, x) THEN Marked(entity, k.base) ELSE entity
      /\ \A y \in Entities : /\ w.entity[y].alive = entity[y].alive
                             /\ w.entity[y].base = entity[y].base
                             /\ w.entity[y].value = entity[y].value
  BY ReadyIs
<1>3. Contained(entity) /\ Contained(promised) /\ Distinct(batch) /\ Contained(w.entity)
  BY <1>2 DEF Typed, Stored, Contained
<1>4. Fit(e, k, x, p, w.entity)
  BY <1>2, <1>3, HeadFits
<1>5. p.alive
  BY <1>1, <1>4 DEF Fit
<1>6. BaseChanged(k, x) => k.base # e /\ k.base \in Entities
  <2>1. ASSUME BaseChanged(k, x) PROVE k.base # e /\ k.base \in Entities
    <3>1. e \notin Ancestors(w.entity, k.base) /\ k.base \in Entities /\ k.base # NoEntity
      BY <1>1, <1>4, <1>5, <2>1 DEF Fit, BaseChanged
    <3>2. k.base \in Ancestors(w.entity, k.base)
      BY <1>3, <3>1, ContainedBased, AncestorsAre
    <3>3. QED
      BY <3>1, <3>2
  <2>2. QED
    BY <2>1
<1>7. \A y \in Entities :
        /\ w.entity[y].abstract <=> entity[y].abstract \/ (BaseChanged(k, x) /\ y = k.base)
        /\ ~(BaseChanged(k, x) /\ y = k.base) => w.entity[y] = entity[y]
  <2>1. CASE ~BaseChanged(k, x)
    BY <1>2, <2>1
  <2>2. CASE BaseChanged(k, x)
    <3>1. /\ Marked(entity, k.base)[k.base].abstract
          /\ \A f \in Entities : f # k.base => Marked(entity, k.base)[f] = entity[f]
      BY <1>3, <1>6, <2>2, MarkedIs
    <3>2. QED
      BY <1>2, <2>2, <3>1
  <2>3. QED
    BY <2>1, <2>2
<1> HIDE DEF k, e, x, p, w
<1>8. ASSUME NEW y \in Entities, ~w.entity[y].alive PROVE w.entity[y] = Nothing
  <2>1. ~entity[y].alive
    BY <1>2, <1>8
  <2>2. entity[y] = Nothing
    BY <2>1 DEF Agrees, Fit
  <2>3. ~(BaseChanged(k, x) /\ y = k.base)
    BY <1>1, <2>1, CommandsAssumption
  <2>4. QED
    BY <1>7, <2>2, <2>3
<1>9. ASSUME NEW g \in Entities, w.entity[g].base # NoEntity
      PROVE  w.entity[w.entity[g].base].abstract \/ ~w.entity[w.entity[g].base].alive
  <2> DEFINE b == entity[g].base
  <2>1. w.entity[g].base = b /\ b \in Entities
    BY <1>2, <1>3, <1>9, ContentsAre DEF Contained
  <2>2. entity[b].abstract \/ ~entity[b].alive
    BY <1>9, <2>1 DEF Agrees, BasesAbstract
  <2> HIDE DEF b
  <2>3. w.entity[b].alive = entity[b].alive /\ (entity[b].abstract => w.entity[b].abstract)
    BY <1>2, <1>7, <2>1
  <2>4. QED
    BY <2>1, <2>2, <2>3
<1>10. QED
  BY <1>6, <1>7, <1>8, <1>9 DEF BasesAbstract, k, e, x, w

LEMMA RestructuredAgrees ==
  ASSUME Typed, Agrees(entity, promised, batch), TransitionFresh, ApplyRestructured
  PROVE  Agrees(entity', promised', batch')
<1> DEFINE k == Head(batch)
           e == k.entity
           x == entity[e]
           p == promised[e]
           w == Ready(k)
<1>1. batch # <<>> /\ ~k.kill /\ Alters /\ ~TypeUnchanged(k, x) /\ Restructure(k)
  BY DEF ApplyRestructured, Alters
<1>2. PICK copied \in Reads(w, TransitionFor(k)) :
        Settle(Migrate(w, e, After(k, copied)),
               IF KeptFor(k) THEN TransitionFor(k) ELSE transition)
  BY <1>1, RestructureIs
<1> DEFINE z == After(k, copied)
<1>3. /\ k \in Commands /\ e \in Entities /\ x \in Contents /\ x.alive
      /\ k.base \in Entities \cup {NoEntity} /\ (k.base # NoEntity => entity[k.base].alive)
  BY <1>1, HeadIs
<1>4. /\ Stored(w.entity, w.table)
      /\ w.entity = IF BaseChanged(k, x) THEN Marked(entity, k.base) ELSE entity
      /\ \A y \in Entities : /\ w.entity[y].alive = entity[y].alive
                             /\ w.entity[y].base = entity[y].base
                             /\ w.entity[y].value = entity[y].value
                             /\ Owned(w.entity[y]) = Owned(entity[y])
  BY <1>1, ReadyIs
<1>5. Contained(entity) /\ Contained(promised) /\ Distinct(batch) /\ Contained(w.entity)
  BY <1>4 DEF Typed, Stored, Contained
<1>6. \A y \in Entities : ~entity[y].alive => entity[y] = Nothing
  BY DEF Agrees, Fit
<1>7. Fit(e, k, x, p, w.entity)
  BY <1>1, <1>4, <1>5, HeadFits
<1>8. p \in Contents /\ p.alive
  BY <1>1, <1>3, <1>5, <1>7 DEF Contained, Fit
<1>9. z \in Contents /\ z.alive
  BY <1>1, <1>2, AfterTyped
<1>10. /\ z.alive = x.alive /\ z.abstract = x.abstract
       /\ z.base = IF k.base = NoEntity THEN x.base ELSE k.base
       /\ \A c \in Components : z.value[c] = ResultAt(k, x, w.entity, c)
  BY <1>1, <1>2, <1>6, AfterResult
<1>11. entity' = [w.entity EXCEPT ![e] = z] /\ batch' = Tail(batch) /\ promised' = promised
  BY <1>2 DEF Settle, Migrate
<1> DEFINE fs == entity'
<1> HIDE DEF z, w
<1>12. p.value = z.value /\ p.base = z.base /\ p.alive = z.alive
  <2>1. \A c \in Components : p.value[c] = z.value[c]
    BY <1>7, <1>8, <1>10 DEF Fit
  <2>2. p.base = z.base
    BY <1>7, <1>8, <1>10 DEF Fit
  <2>3. QED
    BY <1>8, <1>9, <2>1, <2>2, ContentsAre
<1>13. fs[e] = z /\ (\A y \in Entities : y # e => fs[y] = w.entity[y]) /\ Contained(fs)
  BY <1>3, <1>5, <1>9, <1>11 DEF Contained
<1>14. /\ BaseChanged(k, x) => k.base # e /\ k.base \in Entities
       /\ \A y \in Entities :
            /\ w.entity[y].abstract <=> entity[y].abstract \/ (BaseChanged(k, x) /\ y = k.base)
            /\ ~(BaseChanged(k, x) /\ y = k.base) => w.entity[y] = entity[y]
  BY <1>1, ReadyMarks DEF w
<1> HIDE DEF k, e, x, p, fs
<1>16. \A y \in Entities : y # e =>
         /\ fs[y].alive = entity[y].alive /\ fs[y].base = entity[y].base
         /\ fs[y].value = entity[y].value
         /\ ~entity[y].alive => fs[y] = entity[y]
  <2>1. ASSUME NEW y \in Entities, y # e, ~entity[y].alive PROVE fs[y] = entity[y]
    <3>1. ~(BaseChanged(k, x) /\ y = k.base)
      BY <1>3, <2>1, CommandsAssumption DEF BaseChanged
    <3>2. QED
      BY <1>13, <1>14, <2>1, <3>1
  <2>2. QED
    BY <1>4, <1>13, <2>1
<1>17. \A y \in Entities :
         fs[y].abstract <=> entity[y].abstract \/ (BaseChanged(k, x) /\ y = k.base)
  BY <1>10, <1>13, <1>14, <1>14 DEF x
<1>18. Abst(fs, promised, Tail(batch)) /\ BasesAbstract(fs)
  <2>1. k = Head(batch) /\ e = k.entity /\ promised[e].alive
    BY <1>8 DEF k, e, p
  <2>2. fs[e].base = IF k.base = NoEntity THEN entity[e].base ELSE k.base
    BY <1>10, <1>13 DEF x
  <2>3. \A y \in Entities : y # e => fs[y].base = entity[y].base
    BY <1>16
  <2>4. \A y \in Entities :
          fs[y].abstract <=> entity[y].abstract \/ (BaseChanged(k, entity[e]) /\ y = k.base)
    BY <1>17 DEF x
  <2>5. \A y \in Entities : fs[y].alive = entity[y].alive
    BY <1>10, <1>13, <1>16 DEF x
  <2>6. QED
    BY <1>1, <1>3, <1>5, <1>13, <2>1, <2>2, <2>3, <2>4, <2>5, AppliedAbst
<1>19. Agrees(fs, promised, Tail(batch))
  <2>1. \A y \in Entities : y # Head(batch).entity =>
           /\ fs[y].alive = entity[y].alive /\ fs[y].base = entity[y].base
           /\ fs[y].value = entity[y].value
           /\ ~entity[y].alive => fs[y] = entity[y]
    BY <1>16 DEF e, k
  <2>2. /\ fs[Head(batch).entity].alive = promised[Head(batch).entity].alive
        /\ fs[Head(batch).entity].base = promised[Head(batch).entity].base
        /\ fs[Head(batch).entity].value = promised[Head(batch).entity].value
        /\ promised[Head(batch).entity].alive
    BY <1>8, <1>12, <1>13 DEF e, k, p
  <2>3. QED
    BY <1>1, <1>5, <1>13, <1>18, <2>1, <2>2, AppliedAgrees
<1>20. QED
  BY <1>11, <1>19 DEF fs

-----------------------------------------------------------------------------
(* A transition that is kept. *)

KeptOf(op) == {c \in Components : op[c] \in {"add", "copy"}}
BuiltFrom(t) == (t.from.owned \ {c \in Components : t.op[c] = "remove"}) \cup KeptOf(t.op)
Carries(t) == t.base \notin {NoEntity, t.from.base}
PlanOf(t, es) == IF Carries(t) THEN Plan(es, t.base, BuiltFrom(t)) ELSE {}
TargetOf(t, es) ==
  [owned |-> BuiltFrom(t) \cup PlanOf(t, es), abstract |-> t.from.abstract,
   base |-> IF t.base = NoEntity THEN t.from.base ELSE t.base]

(* It is still what a fresh look at the world gives.                         *)
Still(t, w) ==
  /\ t.to = TargetOf(t, w.entity) /\ t.copies = Sources(w, t.base, PlanOf(t, w.entity))
  /\ Carries(t) => w.entity[t.base].abstract

(* A transition with the operations of a completed command builds the same.  *)
LEMMA SameBuilt ==
  ASSUME NEW k \in Commands, NEW x \in Contents, NEW t, t.from = TypeOf(x), t.base = k.base,
         \A d \in Components :
           t.op[d] = IF d \in Required(k) /\ d \notin Kept(k) THEN "add" ELSE k.op[d]
  PROVE  /\ BuiltFrom(t) = Built(k, x) /\ (Carries(t) <=> BaseChanged(k, x))
         /\ \A es : PlanOf(t, es) = Copies(k, x, es)
<1>1. t.from.owned = Owned(x) /\ t.from.base = x.base
  BY DEF TypeOf
<1>2. Kept(k) \subseteq Components /\ Required(k) \subseteq Components
      /\ k.op \in [Components -> Ops] /\ Owned(x) \subseteq Components
      /\ Built(k, x) \subseteq Components
  BY BuiltIs, CommandFields, ContentsAre
<1>3. KeptOf(t.op) = Kept(k) \cup Required(k)
  BY <1>2 DEF KeptOf, Kept
<1>4. \A d \in Components : d \in BuiltFrom(t) <=> d \in Built(k, x)
  <2>1. \A d \in Components \ KeptOf(t.op) : t.op[d] = "remove" <=> k.op[d] = "remove"
    BY <1>3
  <2> DEFINE K == KeptOf(t.op)
  <2> HIDE DEF K
  <2>2. BuiltFrom(t) = (Owned(x) \ {c \in Components : t.op[c] = "remove"}) \cup K
    BY <1>1 DEF BuiltFrom, K
  <2>3. Built(k, x) = (Owned(x) \ {c \in Components : k.op[c] = "remove"}) \cup K
    BY <1>3 DEF Built, K
  <2>4. QED
    BY <2>1, <2>2, <2>3 DEF K
<1>5. BuiltFrom(t) \subseteq Components
  BY <1>1, <1>2, <1>3 DEF BuiltFrom
<1>6. BuiltFrom(t) = Built(k, x)
  BY <1>2, <1>4, <1>5
<1>7. Carries(t) <=> BaseChanged(k, x)
  BY <1>1 DEF Carries, BaseChanged
<1>8. \A es : PlanOf(t, es) = Copies(k, x, es)
  BY <1>6, <1>7 DEF PlanOf, Copies
<1>9. QED
  BY <1>6, <1>7, <1>8

(* One found for a command in a world where its base is abstract             *)
LEMMA FreshStill ==
  ASSUME NEW w, NEW k \in Commands, NEW x \in Contents,
         BaseChanged(k, x) => w.entity[k.base].abstract,
         NEW t, t = Fresh(w, Completed(k), TypeOf(x), x)
  PROVE  /\ t.valid /\ t.base = k.base /\ (Carries(t) <=> BaseChanged(k, x))
         /\ \A c \in KeptOf(t.op) : Requires[c] \subseteq KeptOf(t.op)
         /\ Still(t, w)
<1> DEFINE m == Completed(k)
<1>1. /\ m \in Commands /\ m.base = k.base /\ Required(k) \subseteq Components
      /\ \A d \in Components : m.op[d] = IF d \in Required(k) /\ d \notin Kept(k) THEN "add"
                                         ELSE k.op[d]
  BY CompletedIs DEF Required
<1>2. t.valid /\ t.base = m.base /\ t.from = TypeOf(x) /\ t.op = m.op
      /\ t.to.abstract = t.from.abstract
      /\ t.to = [owned |-> t.to.owned, abstract |-> t.to.abstract, base |-> t.to.base]
  BY DEF Fresh
<1>3. /\ t.to.owned = Built(k, x) \cup Copies(k, x, w.entity)
      /\ t.to.base = IF k.base = NoEntity THEN x.base ELSE k.base
      /\ t.copies = [c \in Copies(k, x, w.entity) |-> Address(w, Provider(w.entity, k.base, c))]
  BY FreshIs
<1> HIDE DEF m
<1>4. /\ BuiltFrom(t) = Built(k, x) /\ (Carries(t) <=> BaseChanged(k, x))
      /\ \A es : PlanOf(t, es) = Copies(k, x, es)
  BY <1>1, <1>2, SameBuilt
<1>5. t.from.base = x.base
  BY <1>2 DEF TypeOf
<1>6. t.to = TargetOf(t, w.entity)
  BY <1>1, <1>2, <1>3, <1>4, <1>5 DEF TargetOf
<1>7. t.copies = Sources(w, t.base, PlanOf(t, w.entity))
  BY <1>1, <1>2, <1>3, <1>4 DEF Sources
<1>8. ASSUME NEW c \in KeptOf(t.op) PROVE Requires[c] \subseteq KeptOf(t.op)
  <2>1. KeptOf(t.op) = Kept(k) \cup Required(k)
    <3>1. Kept(k) \subseteq Components
      BY BuiltIs
    <3>2. QED
      BY <1>1, <1>2, <3>1 DEF KeptOf, Kept
  <2>2. CASE c \in Kept(k)
    BY <2>1, <2>2 DEF Required
  <2>3. CASE c \in Required(k)
    <3>1. PICK a \in Kept(k) : c \in Requires[a]
      BY <2>3 DEF Required
    <3>2. a \in Components
      BY <3>1 DEF Kept
    <3>3. Requires[c] \subseteq Requires[a]
      BY <3>1, <3>2, CommandsAssumption
    <3>4. QED
      BY <2>1, <3>1, <3>3 DEF Required
  <2>4. QED
    BY <2>1, <2>2, <2>3
<1>9. QED
  BY <1>1, <1>2, <1>4, <1>6, <1>7, <1>8 DEF Still

(* An abstract entity inherits only from abstract entities.                  *)
LEMMA AncestorsAbstract ==
  ASSUME NEW es, Contained(es), BasesAbstract(es), NEW b \in Entities, es[b].abstract,
         NEW y \in Ancestors(es, b)
  PROVE  y \in Entities /\ (es[y].abstract \/ ~es[y].alive)
<1> DEFINE line == Line(es, b)
<1>1. /\ line \in [1..Cardinality(Entities) -> Entities \cup {NoEntity}]
      /\ 1 \in DOMAIN line => line[1] = b
      /\ \A n \in DOMAIN line \ {1} : line[n] = Up(es, line[n - 1])
      /\ Cardinality(Entities) \in Nat
  BY ContainedBased, LineUp
<1>2. PICK n \in DOMAIN line : y = line[n]
  BY DEF Ancestors, Range
<1>3. y # NoEntity /\ y \in Entities
  BY ContainedBased, AncestorsAre DEF Ancestors
<1> HIDE DEF line
<1>4. CASE n = 1
  BY <1>1, <1>2, <1>3, <1>4
<1>5. CASE n # 1
  <2>1. line[n] = Up(es, line[n - 1]) /\ n - 1 \in 1..Cardinality(Entities)
    BY <1>1, <1>2, <1>5
  <2>2. line[n - 1] \in Entities \cup {NoEntity}
    BY <1>1, <2>1
  <2>3. line[n - 1] \in Entities /\ es[line[n - 1]].base = y
    BY <1>2, <1>3, <2>1, <2>2 DEF Up
  <2>4. QED
    BY <1>3, <2>3 DEF BasesAbstract
<1>6. QED
  BY <1>4, <1>5

(* It stays so while only an entity that is not abstract changes.            *)
LEMMA StillSame ==
  ASSUME NEW w, NEW v, Contained(w.entity), Contained(v.entity), BasesAbstract(w.entity),
         \A y \in Entities : ~w.entity[y].alive => w.entity[y] = Nothing,
         NEW e \in Entities, w.entity[e].alive, ~w.entity[e].abstract,
         \A y \in Entities : y # e => v.entity[y] = w.entity[y],
         \A y \in Entities : w.entity[y].alive /\ w.entity[y].abstract =>
           v.table[TypeOf(w.entity[y])] = w.table[TypeOf(w.entity[y])],
         NEW t, t.base \in Entities \cup {NoEntity}, Still(t, w)
  PROVE  Still(t, v)
<1> DEFINE b == t.base
           es == w.entity
           fs == v.entity
<1>1. CASE ~Carries(t)
  <2>1. PlanOf(t, es) = {} /\ PlanOf(t, fs) = {}
    BY <1>1 DEF PlanOf
  <2>2. TargetOf(t, fs) = TargetOf(t, es)
    BY <2>1 DEF TargetOf
  <2>3. Sources(v, b, {}) = Sources(w, b, {})
    BY DEF Sources
  <2>4. QED
    BY <1>1, <2>1, <2>2, <2>3 DEF Still
<1>2. CASE Carries(t)
  <2>1. b \in Entities /\ es[b].abstract
    BY <1>2 DEF Carries, Still
  <2>2. \A y \in Ancestors(es, b) :
          /\ y \in Entities /\ (es[y].abstract \/ ~es[y].alive) /\ y # e /\ fs[y] = es[y]
    <3>1. \A y \in Ancestors(es, b) : y \in Entities /\ (es[y].abstract \/ ~es[y].alive)
      BY <2>1, AncestorsAbstract
    <3>2. QED
      BY <3>1
  <2>3. Based(es) /\ Based(fs)
    BY ContainedBased
  <2>4. /\ \A c : Provider(fs, b, c) = Provider(es, b, c)
        /\ \A owned : Plan(fs, b, owned) = Plan(es, b, owned)
    <3>1. \A y \in Ancestors(es, b) : fs[y].base = es[y].base /\ Owned(fs[y]) = Owned(es[y])
      BY <2>2
    <3> HIDE DEF es, fs, b
    <3>2. QED
      BY <2>1, <2>3, <3>1, SameProvider
  <2>5. PlanOf(t, fs) = PlanOf(t, es)
    BY <1>2, <2>4 DEF PlanOf
  <2>6. TargetOf(t, fs) = TargetOf(t, es)
    BY <2>5 DEF TargetOf
  <2>7. ASSUME NEW c \in PlanOf(t, es)
        PROVE  Address(v, Provider(fs, b, c)) = Address(w, Provider(es, b, c))
    <3> DEFINE y == Provider(es, b, c)
    <3>1. \E a \in Ancestors(es, b) : c \in Owned(es[a])
      BY <1>2, <2>7 DEF PlanOf, Plan
    <3>2. y \in Ancestors(es, b) /\ c \in Owned(es[y])
      <4> HIDE DEF es, b
      <4>1. QED
        BY <2>1, <2>3, <3>1, ProviderIs
    <3> HIDE DEF y
    <3>3. es[y].alive
      BY <2>2, <3>2, NothingIs
    <3>4. es[y].abstract /\ fs[y] = es[y] /\ y \in Entities
      BY <2>2, <3>2, <3>3
    <3>5. v.table[TypeOf(es[y])] = w.table[TypeOf(es[y])]
      BY <3>3, <3>4
    <3>6. Address(v, y) = Address(w, y)
      BY <3>4, <3>5 DEF Address
    <3>7. QED
      BY <2>4, <3>6 DEF y
  <2>8. Sources(v, b, PlanOf(t, fs)) = Sources(w, b, PlanOf(t, es))
    BY <2>5, <2>7 DEF Sources
  <2>9. fs[b].abstract
    <3>1. b \in Ancestors(es, b)
      BY <2>1, <2>3, CommandsAssumption, AncestorsAre
    <3>2. QED
      BY <2>1, <2>2, <3>1
  <2>10. QED
    BY <2>6, <2>8, <2>9 DEF Still
<1>3. QED
  BY <1>1, <1>2

(* Applying the command at j moves a row that an address may point to.       *)
MovesIn(es, cs, j, b) ==
  \/ es[cs[j].entity].abstract \/ \E i \in 1 .. (j - 1) : cs[i].base = cs[j].entity
  \/ cs[j].base \notin {NoEntity, b} /\ ~es[cs[j].base].abstract

NoMovesIn(es, cs) ==
  \A i, j, k \in DOMAIN cs :
    i <= j /\ j < k /\ cs[i].base # NoEntity /\ cs[k].base = cs[i].base
      => ~MovesIn(es, cs, j, cs[i].base)

(* What a transition that is kept needs of the commands that follow          *)
Waits(t, cs) == \E i \in DOMAIN cs : cs[i].base = t.base
Quiet(t, es, cs) ==
  \A i, j \in DOMAIN cs : cs[i].base = t.base /\ j < i => ~MovesIn(es, cs, j, t.base)

Lasting(t, w, cs) ==
  t.valid =>
    /\ t.base \in Entities \cup {NoEntity}
    /\ \A c \in KeptOf(t.op) : Requires[c] \subseteq KeptOf(t.op)
    /\ (Carries(t) => Waits(t, cs)) => Still(t, w)
    /\ Carries(t) => Quiet(t, w.entity, cs)

LEMMA NoMovesIs ==
  ASSUME NEW cs
  PROVE  NoMovesIn(entity, cs) <=> ~MovesBetween(cs)
  BY DEF NoMovesIn, MovesIn, MovesBetween, MovesRows

(* A base that is abstract already is not marked again.                      *)
LEMMA ReadyAgain ==
  ASSUME Typed, batch # <<>>,
         BaseChanged(Head(batch), entity[Head(batch).entity]) => entity[Head(batch).base].abstract
  PROVE  Ready(Head(batch)) = World
<1> DEFINE k == Head(batch)
           b == k.base
           x == entity[b]
<1>1. CASE ~BaseChanged(k, entity[k.entity])
  BY <1>1 DEF Ready
<1>2. CASE BaseChanged(k, entity[k.entity])
  <2>1. b \in Entities /\ x.abstract
    <3>1. b \in Entities \cup {NoEntity}
      BY HeadIs
    <3>2. QED
      BY <1>2, <3>1 DEF BaseChanged
  <2>2. Contained(entity) /\ World.entity = entity /\ World.table = table
    BY DEF Typed, Stored, Contained, World
  <2>3. x \in Contents
    BY <2>1, <2>2 DEF Contained
  <2>4. [x EXCEPT !.abstract = TRUE] = x
    <3>1. x.abstract \in BOOLEAN
          /\ x = [alive |-> x.alive, abstract |-> x.abstract, base |-> x.base, value |-> x.value]
      BY <2>3, ContentsAre
    <3>2. x.abstract = TRUE
      BY <2>1, <3>1
    <3>3. [x EXCEPT !.abstract = TRUE]
            = [alive |-> x.alive, abstract |-> TRUE, base |-> x.base, value |-> x.value]
      BY <2>3, FieldChanged
    <3> HIDE DEF x
    <3>4. QED
      BY <3>1, <3>2, <3>3
  <2>5. [entity EXCEPT ![b] = x] = entity
    BY <2>2 DEF Contained
  <2>6. Ready(k) = Migrate(World, b, [World.entity[b] EXCEPT !.abstract = TRUE])
    BY <1>2 DEF Ready, AbstractNow
  <2>7. Ready(k) = Migrate(World, b, x)
    BY <2>2, <2>4, <2>6
  <2> HIDE DEF x
  <2>8. Migrate(World, b, x) = [entity |-> [entity EXCEPT ![b] = x], table |-> table]
    BY <2>2 DEF Migrate, x
  <2>9. QED
    BY <2>5, <2>7, <2>8 DEF World
<1>3. QED
  BY <1>1, <1>2

(* A lasting transition that a command finds is the one it would make.       *)
LEMMA LastingIsFresh ==
  ASSUME Typed, Lasting(transition, World, batch)
  PROVE  TransitionFresh
<1> DEFINE k == Head(batch)
           x == entity[k.entity]
           t == transition
           fresh == Fresh(Ready(k), Completed(k), TypeOf(x), x)
<1>1. SUFFICES ASSUME Alters, Hit(k, TypeOf(x))
               PROVE  t.to = fresh.to /\ t.copies = fresh.copies
  BY DEF TransitionFresh
<1>2. batch # <<>> /\ t.valid /\ t.from = TypeOf(x) /\ t.base = k.base /\ t.op = k.op
  BY <1>1 DEF Alters, Hit, TransitionMatches
<1>3. k \in Commands /\ x \in Contents /\ k = batch[1] /\ 1 \in DOMAIN batch
  BY <1>2, HeadIs
<1>4. Required(k) \subseteq Kept(k)
  <2>1. KeptOf(t.op) = Kept(k)
    BY <1>2 DEF KeptOf, Kept
  <2>2. \A c \in KeptOf(t.op) : Requires[c] \subseteq KeptOf(t.op)
    BY <1>2 DEF Lasting
  <2>3. QED
    BY <2>1, <2>2 DEF Required
<1>5. /\ BuiltFrom(t) = Built(k, x) /\ (Carries(t) <=> BaseChanged(k, x))
      /\ \A es : PlanOf(t, es) = Copies(k, x, es)
  <2>1. \A d \in Components :
          t.op[d] = IF d \in Required(k) /\ d \notin Kept(k) THEN "add" ELSE k.op[d]
    BY <1>2, <1>4
  <2> HIDE DEF k, x, t
  <2>2. QED
    BY <1>2, <1>3, <2>1, SameBuilt
<1>6. Still(t, World)
  BY <1>2, <1>3 DEF Lasting, Waits
<1>7. Ready(k) = World /\ World.entity = entity
  <2>1. BaseChanged(k, x) => entity[k.base].abstract
    BY <1>2, <1>5, <1>6 DEF Still, World
  <2>2. QED
    BY <1>2, <2>1, ReadyAgain DEF World
<1>8. /\ fresh.to.owned = Built(k, x) \cup Copies(k, x, entity)
      /\ fresh.to.base = IF k.base = NoEntity THEN x.base ELSE k.base
      /\ fresh.copies = [c \in Copies(k, x, entity) |-> Address(World, Provider(entity, k.base, c))]
  BY <1>3, <1>7, FreshIs
<1>9. fresh.to = [owned |-> fresh.to.owned, abstract |-> TypeOf(x).abstract, base |-> fresh.to.base]
  BY DEF Fresh
<1> HIDE DEF fresh, k, x, t
<1>10. t.from.base = x.base
  BY <1>2 DEF TypeOf
<1>11. t.to = fresh.to
  <2>1. t.to = TargetOf(t, entity)
    BY <1>6, <1>7 DEF Still
  <2>2. PlanOf(t, entity) = Copies(k, x, entity)
    BY <1>5
  <2>3. BuiltFrom(t) \cup PlanOf(t, entity) = fresh.to.owned
    BY <1>5, <1>8, <2>2
  <2>4. (IF t.base = NoEntity THEN t.from.base ELSE t.base) = fresh.to.base
    BY <1>2, <1>8, <1>10
  <2>5. t.from.abstract = TypeOf(x).abstract
    BY <1>2
  <2>6. QED
    BY <1>9, <2>1, <2>3, <2>4, <2>5 DEF TargetOf
<1>12. t.copies = fresh.copies
  BY <1>2, <1>5, <1>6, <1>7, <1>8 DEF Still, Sources
<1>13. QED
  BY <1>11, <1>12 DEF fresh, k, x, t

(* What moves a row later moves one now: only the first command's base is     *)
(* abstract anew, and no base of a later command stops being abstract.       *)
LEMMA MovesLater ==
  ASSUME NEW es, NEW fs, NEW cs, Distinct(cs), cs # <<>>,
         \A y \in Entities : fs[y].abstract => es[y].abstract \/ y = Head(cs).base,
         \A i \in DOMAIN Tail(cs) :
           Tail(cs)[i].base # NoEntity /\ es[Tail(cs)[i].base].abstract
             => fs[Tail(cs)[i].base].abstract,
         NEW j \in DOMAIN Tail(cs), NEW b, MovesIn(fs, Tail(cs), j, b)
  PROVE  MovesIn(es, cs, j + 1, b)
<1> DEFINE ds == Tail(cs)
<1>1. /\ ds \in Seq(Commands) /\ Head(cs) = cs[1] /\ 1 \in DOMAIN cs
      /\ DOMAIN cs = 1..Len(cs) /\ DOMAIN ds = 1..(Len(cs) - 1) /\ Len(cs) \in Nat
      /\ \A i \in DOMAIN ds : i + 1 \in DOMAIN cs /\ ds[i] = cs[i + 1]
  BY TailIs
<1>2. j + 1 \in DOMAIN cs /\ ds[j] = cs[j + 1] /\ j \in Nat /\ j >= 1 /\ j <= Len(cs) - 1
  BY <1>1
<1>3. ds[j] \in Commands /\ ds[j].entity \in Entities
  BY <1>1, CommandFields
<1> HIDE DEF ds
<1>4. CASE fs[ds[j].entity].abstract
  <2>1. es[ds[j].entity].abstract \/ ds[j].entity = cs[1].base
    BY <1>1, <1>3, <1>4
  <2>2. 1 \in 1..((j + 1) - 1)
    BY <1>2
  <2>3. QED
    BY <1>2, <2>1, <2>2 DEF MovesIn
<1>5. CASE \E i \in 1..(j - 1) : ds[i].base = ds[j].entity
  <2>1. PICK i \in 1..(j - 1) : ds[i].base = ds[j].entity
    BY <1>5
  <2>2. i \in DOMAIN ds /\ i + 1 \in 1..((j + 1) - 1)
    BY <1>1, <1>2
  <2>3. cs[i + 1].base = cs[j + 1].entity
    BY <1>1, <1>2, <2>1, <2>2
  <2>4. QED
    BY <2>2, <2>3 DEF MovesIn
<1>6. CASE ds[j].base \notin {NoEntity, b} /\ ~fs[ds[j].base].abstract
  <2>1. ~es[ds[j].base].abstract
    BY <1>6 DEF ds
  <2>2. QED
    BY <1>2, <1>6, <2>1 DEF MovesIn
<1>7. QED
  BY <1>4, <1>5, <1>6 DEF MovesIn, ds

(* So where nothing moved, nothing moves behind the first command.           *)
LEMMA NoMovesLater ==
  ASSUME NEW es, NEW fs, NEW cs, Distinct(cs), cs # <<>>,
         \A y \in Entities : fs[y].abstract => es[y].abstract \/ y = Head(cs).base,
         \A i \in DOMAIN Tail(cs) :
           Tail(cs)[i].base # NoEntity /\ es[Tail(cs)[i].base].abstract
             => fs[Tail(cs)[i].base].abstract
  PROVE  /\ NoMovesIn(es, cs) => NoMovesIn(fs, Tail(cs))
         /\ \A t : Quiet(t, es, cs) => Quiet(t, fs, Tail(cs))
         /\ NoMovesIn(es, cs) => \A t : t.base = Head(cs).base /\ t.base # NoEntity
              => Quiet(t, fs, Tail(cs))
<1> DEFINE ds == Tail(cs)
<1>1. /\ Head(cs) = cs[1] /\ 1 \in DOMAIN cs /\ DOMAIN cs = 1..Len(cs) /\ Len(cs) \in Nat
      /\ DOMAIN ds = 1..(Len(cs) - 1)
      /\ \A i \in DOMAIN ds : i + 1 \in DOMAIN cs /\ ds[i] = cs[i + 1]
  BY TailIs
<1>2. \A j \in DOMAIN ds : \A b : MovesIn(fs, ds, j, b) => MovesIn(es, cs, j + 1, b)
  BY MovesLater
<1> HIDE DEF ds
<1>3. ASSUME NoMovesIn(es, cs) PROVE NoMovesIn(fs, ds)
  <2>1. SUFFICES ASSUME NEW i \in DOMAIN ds, NEW j \in DOMAIN ds, NEW k \in DOMAIN ds,
                        i <= j, j < k, ds[i].base # NoEntity, ds[k].base = ds[i].base
                 PROVE  ~MovesIn(fs, ds, j, ds[i].base)
    BY DEF NoMovesIn
  <2>2. i + 1 <= j + 1 /\ j + 1 < k + 1
    <3>1. i \in Nat /\ j \in Nat /\ k \in Nat /\ i <= j /\ j < k
      BY <1>1, <2>1
    <3>2. QED
      BY ONLY <3>1
  <2>3. i + 1 \in DOMAIN cs /\ j + 1 \in DOMAIN cs /\ k + 1 \in DOMAIN cs
        /\ ds[i] = cs[i + 1] /\ ds[k] = cs[k + 1]
    BY <1>1
  <2>4. ~MovesIn(es, cs, j + 1, ds[i].base)
    BY <1>3, <2>1, <2>2, <2>3 DEF NoMovesIn
  <2>5. QED
    BY <1>2, <2>4
<1>4. ASSUME NEW t, Quiet(t, es, cs) PROVE Quiet(t, fs, ds)
  <2>1. SUFFICES ASSUME NEW i \in DOMAIN ds, NEW j \in DOMAIN ds, ds[i].base = t.base, j < i
                 PROVE  ~MovesIn(fs, ds, j, t.base)
    BY DEF Quiet
  <2>2. j + 1 < i + 1 /\ i + 1 \in DOMAIN cs /\ j + 1 \in DOMAIN cs /\ ds[i] = cs[i + 1]
    BY <1>1, <2>1
  <2>3. ~MovesIn(es, cs, j + 1, t.base)
    BY <1>4, <2>1, <2>2 DEF Quiet
  <2>4. QED
    BY <1>2, <2>3
<1>5. ASSUME NoMovesIn(es, cs), NEW t, t.base = Head(cs).base, t.base # NoEntity
      PROVE  Quiet(t, fs, ds)
  <2>1. SUFFICES ASSUME NEW i \in DOMAIN ds, NEW j \in DOMAIN ds, ds[i].base = t.base, j < i
                 PROVE  ~MovesIn(fs, ds, j, t.base)
    BY DEF Quiet
  <2>2. 1 <= j + 1 /\ j + 1 < i + 1 /\ i + 1 \in DOMAIN cs /\ j + 1 \in DOMAIN cs
        /\ ds[i] = cs[i + 1]
    BY <1>1, <2>1
  <2>3. ~MovesIn(es, cs, j + 1, cs[1].base)
    BY <1>1, <1>5, <2>1, <2>2 DEF NoMovesIn
  <2>4. QED
    BY <1>1, <1>2, <1>5, <2>3
<1>6. QED
  BY <1>3, <1>4, <1>5 DEF ds

(* What a step leaves where it was, next to the entity it is about           *)
Unmoved(w, v, e) ==
  /\ \A y \in Entities : y # e => v.entity[y] = w.entity[y]
  /\ \A y \in Entities : w.entity[y].alive /\ w.entity[y].abstract =>
       v.table[TypeOf(w.entity[y])] = w.table[TypeOf(w.entity[y])]

LEMMA MigratedApart ==
  ASSUME NEW w, Stored(w.entity, w.table), NEW e \in Entities, ~w.entity[e].abstract,
         NEW z \in Contents, ~z.abstract
  PROVE  Unmoved(w, Migrate(w, e, z), e)
<1> DEFINE v == Migrate(w, e, z)
           from == TypeOf(w.entity[e])
           to == TypeOf(z)
<1>1. v.entity = [w.entity EXCEPT ![e] = z]
      /\ v.table = IF from = to THEN w.table ELSE Left(Entered(w.table, to, e), from, e)
  BY DEF Migrate
<1>2. w.entity \in [Entities -> Contents]
  BY DEF Stored
<1>3. \A y \in Entities : y # e => v.entity[y] = w.entity[y]
  BY <1>1, <1>2
<1>4. ASSUME NEW y \in Entities, w.entity[y].alive, w.entity[y].abstract
      PROVE  v.table[TypeOf(w.entity[y])] = w.table[TypeOf(w.entity[y])]
  <2> DEFINE type == TypeOf(w.entity[y])
  <2>1. type \in DOMAIN w.table
    BY <1>4 DEF Stored
  <2>2. type # from /\ type # to
    <3>1. type.abstract = w.entity[y].abstract /\ from.abstract = w.entity[e].abstract
          /\ to.abstract = z.abstract
      BY DEF TypeOf
    <3> HIDE DEF type, from, to
    <3>2. QED
      BY <1>4, <3>1
  <2> HIDE DEF type, from, to
  <2> DEFINE in == Entered(w.table, to, e)
  <2>3. type \in DOMAIN in /\ in[type] = w.table[type]
    BY <2>1, <2>2 DEF Entered
  <2> HIDE DEF in
  <2>4. Left(in, from, e)[type] = in[type]
    BY <2>2, <2>3 DEF Left
  <2>5. QED
    BY <1>1, <2>3, <2>4 DEF in, type
<1>5. QED
  BY <1>3, <1>4 DEF Unmoved

LEMMA KilledApart ==
  ASSUME NEW w, Stored(w.entity, w.table), NEW e \in Entities, ~w.entity[e].abstract
  PROVE  Unmoved(w, KillRow(w, e), e)
<1> DEFINE v == KillRow(w, e)
           from == TypeOf(w.entity[e])
<1>1. v.entity = [w.entity EXCEPT ![e] = Nothing] /\ v.table = Left(w.table, from, e)
  BY DEF KillRow
<1>2. w.entity \in [Entities -> Contents]
  BY DEF Stored
<1>3. \A y \in Entities : y # e => v.entity[y] = w.entity[y]
  BY <1>1, <1>2
<1>4. ASSUME NEW y \in Entities, w.entity[y].alive, w.entity[y].abstract
      PROVE  v.table[TypeOf(w.entity[y])] = w.table[TypeOf(w.entity[y])]
  <2> DEFINE type == TypeOf(w.entity[y])
  <2>1. type \in DOMAIN w.table
    BY <1>4 DEF Stored
  <2>2. type # from
    <3>1. type.abstract = w.entity[y].abstract /\ from.abstract = w.entity[e].abstract
      BY DEF TypeOf
    <3> HIDE DEF type, from
    <3>2. QED
      BY <1>4, <3>1
  <2> HIDE DEF type, from
  <2>3. Left(w.table, from, e)[type] = w.table[type]
    BY <2>1, <2>2 DEF Left
  <2>4. QED
    BY <1>1, <2>3 DEF type
<1>5. QED
  BY <1>3, <1>4 DEF Unmoved

-----------------------------------------------------------------------------
(* A transition lasts. *)

(* Without a base to copy from, a transition needs nothing of the world.     *)
LEMMA StillApart ==
  ASSUME NEW w, NEW v, NEW t, ~Carries(t), Still(t, w)
  PROVE  Still(t, v)
<1>1. PlanOf(t, w.entity) = {} /\ PlanOf(t, v.entity) = {}
  BY DEF PlanOf
<1>2. TargetOf(t, v.entity) = TargetOf(t, w.entity)
  BY <1>1 DEF TargetOf
<1>3. Sources(v, t.base, {}) = Sources(w, t.base, {})
  BY DEF Sources
<1>4. QED
  BY <1>1, <1>2, <1>3 DEF Still

(* The conditions under which a step may not disturb a transition            *)
Calm(w, v, e) ==
  /\ Contained(w.entity) /\ Contained(v.entity) /\ BasesAbstract(w.entity)
  /\ \A y \in Entities : ~w.entity[y].alive => w.entity[y] = Nothing
  /\ e \in Entities /\ w.entity[e].alive

LEMMA CalmStill ==
  ASSUME NEW w, NEW v, NEW e, Calm(w, v, e), ~w.entity[e].abstract, Unmoved(w, v, e),
         NEW t, t.base \in Entities \cup {NoEntity}, Still(t, w)
  PROVE  Still(t, v)
<1>1. /\ Contained(w.entity) /\ Contained(v.entity) /\ BasesAbstract(w.entity)
      /\ \A y \in Entities : ~w.entity[y].alive => w.entity[y] = Nothing
      /\ e \in Entities /\ w.entity[e].alive
  BY DEF Calm
<1>2. /\ \A y \in Entities : y # e => v.entity[y] = w.entity[y]
      /\ \A y \in Entities : w.entity[y].alive /\ w.entity[y].abstract =>
           v.table[TypeOf(w.entity[y])] = w.table[TypeOf(w.entity[y])]
  BY DEF Unmoved
<1>3. QED
  BY <1>1, <1>2, StillSame

(* The first command leaves a transition that later ones wait for.           *)
LEMMA LastingLater ==
  ASSUME NEW w, NEW v, NEW cs, Distinct(cs), cs # <<>>,
         Calm(w, v, Head(cs).entity),
         /\ ~w.entity[Head(cs).entity].abstract
         /\ Head(cs).base # NoEntity => w.entity[Head(cs).base].abstract
         => Unmoved(w, v, Head(cs).entity),
         NEW t, Lasting(t, w, cs),
         Quiet(t, w.entity, cs) => Quiet(t, v.entity, Tail(cs))
  PROVE  Lasting(t, v, Tail(cs))
<1> DEFINE k == Head(cs)
           e == k.entity
           ds == Tail(cs)
<1>1. /\ k = cs[1] /\ 1 \in DOMAIN cs /\ DOMAIN cs = 1..Len(cs) /\ Len(cs) \in Nat
      /\ DOMAIN ds = 1..(Len(cs) - 1)
      /\ \A i \in DOMAIN ds : i + 1 \in DOMAIN cs /\ ds[i] = cs[i + 1]
  BY TailIs
<1>2. SUFFICES ASSUME t.valid PROVE Lasting(t, v, ds)
  BY DEF Lasting
<1>3. /\ t.base \in Entities \cup {NoEntity}
      /\ \A c \in KeptOf(t.op) : Requires[c] \subseteq KeptOf(t.op)
      /\ (Carries(t) => Waits(t, cs)) => Still(t, w)
      /\ Carries(t) => Quiet(t, w.entity, cs)
  BY <1>2 DEF Lasting
<1>4. ASSUME Carries(t) => Waits(t, ds) PROVE Still(t, v)
  <2>1. CASE ~Carries(t)
    BY <1>3, <2>1, StillApart
  <2>2. CASE Carries(t)
    <3>1. PICK i \in DOMAIN ds : ds[i].base = t.base
      BY <1>4, <2>2 DEF Waits
    <3>2. i + 1 \in DOMAIN cs /\ cs[i + 1].base = t.base /\ 1 < i + 1
      BY <1>1, <3>1
    <3>3. Still(t, w)
      BY <1>3, <3>2 DEF Waits
    <3>4. ~MovesIn(w.entity, cs, 1, t.base)
      BY <1>1, <1>3, <2>2, <3>2 DEF Quiet
    <3>5. ~w.entity[e].abstract /\ (k.base # NoEntity => w.entity[k.base].abstract)
      <4>1. w.entity[t.base].abstract
        BY <2>2, <3>3 DEF Still
      <4>2. QED
        BY <1>1, <3>4, <4>1 DEF MovesIn
    <3>6. Unmoved(w, v, e)
      BY <3>5
    <3> HIDE DEF e
    <3>7. Calm(w, v, e)
      BY DEF e
    <3>8. QED
      BY <1>3, <3>3, <3>5, <3>6, <3>7, CalmStill
  <2>3. QED
    BY <2>1, <2>2
<1>5. Carries(t) => Quiet(t, v.entity, ds)
  BY <1>3
<1>6. QED
  BY <1>3, <1>4, <1>5 DEF Lasting

(* A transition that was found for the first command lasts.                  *)
LEMMA LastingNew ==
  ASSUME NEW es, NEW w, NEW v, NEW cs, Distinct(cs), cs # <<>>, NEW x \in Contents,
         Calm(w, v, Head(cs).entity), NoMovesIn(es, cs),
         BaseChanged(Head(cs), x) => w.entity[Head(cs).base].abstract,
         ~es[Head(cs).entity].abstract =>
           ~w.entity[Head(cs).entity].abstract /\ Unmoved(w, v, Head(cs).entity),
         NEW t, t = Fresh(w, Completed(Head(cs)), TypeOf(x), x),
         Head(cs).base # NoEntity => Quiet(t, v.entity, Tail(cs))
  PROVE  Lasting(t, v, Tail(cs))
<1> DEFINE k == Head(cs)
           e == k.entity
           ds == Tail(cs)
<1>1. /\ k = cs[1] /\ 1 \in DOMAIN cs /\ DOMAIN cs = 1..Len(cs) /\ Len(cs) \in Nat
      /\ DOMAIN ds = 1..(Len(cs) - 1)
      /\ \A i \in DOMAIN ds : i + 1 \in DOMAIN cs /\ ds[i] = cs[i + 1]
  BY TailIs
<1>2. k \in Commands /\ k.base \in Entities \cup {NoEntity}
  <2>1. k \in Commands
    BY <1>1, PlaceAt
  <2>2. QED
    BY <2>1, CommandFields
<1>3. /\ t.valid /\ t.base = k.base /\ (Carries(t) <=> BaseChanged(k, x))
      /\ \A c \in KeptOf(t.op) : Requires[c] \subseteq KeptOf(t.op)
      /\ Still(t, w)
  <2> HIDE DEF k
  <2>1. BaseChanged(k, x) => w.entity[k.base].abstract
    BY DEF k
  <2>2. t = Fresh(w, Completed(k), TypeOf(x), x)
    BY DEF k
  <2>3. QED
    BY <1>2, <2>1, <2>2, FreshStill
<1>4. ASSUME Carries(t) => Waits(t, ds) PROVE Still(t, v)
  <2>1. CASE ~Carries(t)
    BY <1>3, <2>1, StillApart
  <2>2. CASE Carries(t)
    <3>1. PICK i \in DOMAIN ds : ds[i].base = t.base
      BY <1>4, <2>2 DEF Waits
    <3>2. i + 1 \in DOMAIN cs /\ cs[i + 1].base = k.base /\ 1 < i + 1 /\ 1 <= 1
      BY <1>1, <1>3, <3>1
    <3>3. cs[1].base # NoEntity
      BY <1>1, <1>3, <2>2 DEF Carries
    <3>4. ~MovesIn(es, cs, 1, cs[1].base)
      BY <1>1, <3>2, <3>3 DEF NoMovesIn
    <3>5. ~es[e].abstract
      BY <1>1, <3>4 DEF MovesIn
    <3>6. ~w.entity[e].abstract /\ Unmoved(w, v, e)
      BY <3>5
    <3> HIDE DEF e
    <3>7. Calm(w, v, e)
      BY DEF e
    <3>8. QED
      BY <1>2, <1>3, <3>6, <3>7, CalmStill
  <2>3. QED
    BY <2>1, <2>2
<1>5. Carries(t) => Quiet(t, v.entity, ds)
  BY <1>3 DEF Carries
<1>6. QED
  BY <1>2, <1>3, <1>4, <1>5 DEF Lasting

-----------------------------------------------------------------------------
(* Every call and every command applied keep all of this. *)

Queued == IF depth # 0 THEN commands ELSE batch

(* What the commands of a flush share                                        *)
Shared ==
  /\ batch = <<>> => ~transition.valid
  /\ Lasting(transition, World, batch)
  /\ NoMovesIn(entity, Queued)

LEMMA SettleShared ==
  ASSUME Typed, batch # <<>>, NEW v, v = [entity |-> v.entity, table |-> v.table],
         NEW t, Settle(v, t), Lasting(t, v, Tail(batch)), NoMovesIn(v.entity, Tail(batch))
  PROVE  Shared'
<1>1. depth = 0 /\ Len(batch) \in Nat \ {0}
  BY HeadIs
<1>2. /\ entity' = v.entity /\ table' = v.table /\ batch' = Tail(batch) /\ depth' = depth
      /\ transition' = IF Len(batch) = 1 THEN NoTransition ELSE t
  BY DEF Settle
<1>3. World' = v
  BY <1>2 DEF World
<1>4. Queued' = Tail(batch)
  BY <1>1, <1>2 DEF Queued
<1>5. ~NoTransition.valid
  BY DEF NoTransition
<1>6. CASE Len(batch) = 1
  <2>1. ~transition'.valid
    BY <1>2, <1>5, <1>6
  <2>2. Lasting(transition', World', batch')
    BY <2>1 DEF Lasting
  <2>3. QED
    BY <1>2, <1>4, <2>1, <2>2 DEF Shared
<1>7. CASE Len(batch) # 1
  <2>1. batch' # <<>>
    <3>1. DOMAIN Tail(batch) = 1..(Len(batch) - 1)
      BY TailIs DEF Typed
    <3>2. 1 \in 1..(Len(batch) - 1)
      <4>1. PICK n \in Nat \ {0} : n = Len(batch)
        BY <1>1
      <4>2. 1 \in 1..(n - 1)
        BY <1>7, <4>1
      <4>3. QED
        BY <4>1, <4>2
    <3>3. DOMAIN Tail(batch) # {}
      BY <3>1, <3>2
    <3>4. DOMAIN <<>> = {}
      OBVIOUS
    <3>5. Tail(batch) # <<>>
      BY ONLY <3>3, <3>4
    <3>6. QED
      BY <1>2, <3>5
  <2>2. Lasting(transition', World', batch')
    BY <1>2, <1>3, <1>7
  <2>3. QED
    BY <1>2, <1>4, <2>1, <2>2 DEF Shared
<1>8. QED
  BY <1>6, <1>7

(* What the bases of later commands are after the first one                  *)
LEMMA LaterBases ==
  ASSUME Typed, Typed', batch # <<>>, batch' = Tail(batch),
         \A y \in Entities : entity'[y].alive /\ entity[y].abstract => entity'[y].abstract
  PROVE  \A i \in DOMAIN Tail(batch) :
           Tail(batch)[i].base # NoEntity /\ entity[Tail(batch)[i].base].abstract
             => entity'[Tail(batch)[i].base].abstract
<1>1. SUFFICES ASSUME NEW i \in DOMAIN Tail(batch), Tail(batch)[i].base # NoEntity,
                      entity[Tail(batch)[i].base].abstract
               PROVE  entity'[Tail(batch)[i].base].abstract
  OBVIOUS
<1>2. Sound(entity', promised', batch')
  BY DEF Typed
<1>3. entity'[Tail(batch)[i].base].alive
  BY <1>1, <1>2 DEF Sound
<1>4. Tail(batch)[i] \in Commands
  <2>1. Tail(batch) \in Seq(Commands)
    BY TailIs DEF Typed
  <2>2. QED
    BY <2>1
<1>5. Tail(batch)[i].base \in Entities
  BY <1>1, <1>4, CommandFields
<1>6. QED
  BY <1>1, <1>3, <1>5

LEMMA ApplyKillShared ==
  ASSUME Typed, Typed', Agrees(entity, promised, batch), Shared, ApplyKill
  PROVE  Shared'
<1> DEFINE e == Head(batch).entity
           w == World
           v == KillRow(World, e)
<1>1. batch # <<>> /\ Settle(v, transition)
  BY DEF ApplyKill
<1>2. e \in Entities /\ entity[e].alive /\ depth = 0
  BY <1>1, HeadIs
<1>3. /\ w.entity = entity /\ w.table = table /\ Stored(w.entity, w.table)
      /\ Contained(entity) /\ Distinct(batch)
  BY DEF World, Typed, Stored, Contained
<1>4. entity' = v.entity /\ v.entity = [entity EXCEPT ![e] = Nothing] /\ batch' = Tail(batch)
      /\ v = [entity |-> v.entity, table |-> v.table]
  BY <1>1 DEF Settle, KillRow, World
<1>5. v.entity[e] = Nothing /\ (\A y \in Entities : y # e => v.entity[y] = entity[y])
      /\ Contained(v.entity) /\ ~Nothing.alive /\ ~Nothing.abstract
  BY <1>2, <1>3, <1>4, NothingIs DEF Contained, Nothing
<1>6. Calm(w, v, e)
  <2>1. \A y \in Entities : ~entity[y].alive => entity[y] = Nothing
    BY DEF Agrees, Fit
  <2>2. BasesAbstract(entity)
    BY DEF Agrees
  <2> HIDE DEF w, v, e
  <2>3. QED
    BY <1>2, <1>3, <1>5, <2>1, <2>2 DEF Calm
<1>7. ~w.entity[e].abstract => Unmoved(w, v, e)
  BY <1>2, <1>3, KilledApart
<1> HIDE DEF w, v
<1>8. \A y \in Entities : v.entity[y].abstract => entity[y].abstract \/ y = Head(batch).base
  BY <1>5
<1>9. \A i \in DOMAIN Tail(batch) :
        Tail(batch)[i].base # NoEntity /\ entity[Tail(batch)[i].base].abstract
          => v.entity[Tail(batch)[i].base].abstract
  <2>1. \A y \in Entities : entity'[y].alive /\ entity[y].abstract => entity'[y].abstract
    BY <1>4, <1>5
  <2>2. QED
    BY <1>1, <1>4, <2>1, LaterBases
<1>10. NoMovesIn(entity, batch) /\ Lasting(transition, w, batch)
  BY <1>2 DEF Shared, Queued, w
<1>11. /\ NoMovesIn(entity, batch) => NoMovesIn(v.entity, Tail(batch))
       /\ \A t : Quiet(t, entity, batch) => Quiet(t, v.entity, Tail(batch))
  BY <1>1, <1>3, <1>8, <1>9, NoMovesLater
<1>12. Lasting(transition, v, Tail(batch))
  <2>1. Quiet(transition, w.entity, batch) => Quiet(transition, v.entity, Tail(batch))
    BY <1>3, <1>11
  <2>2. QED
    BY <1>1, <1>3, <1>6, <1>7, <1>10, <2>1, LastingLater DEF e
<1>13. QED
  BY <1>1, <1>4, <1>10, <1>11, <1>12, SettleShared

LEMMA InPlaceShared ==
  ASSUME Typed, Typed', Agrees(entity, promised, batch), Shared, ApplyInPlace
  PROVE  Shared'
<1> DEFINE k == Head(batch)
           e == k.entity
           x == entity[e]
           z == Written(k, x)
           w == World
           v == Migrate(World, e, z)
<1>1. batch # <<>> /\ Settle(v, transition)
  BY DEF ApplyInPlace, Alters
<1>2. k \in Commands /\ e \in Entities /\ x \in Contents /\ x.alive /\ depth = 0
  BY <1>1, HeadIs
<1>3. /\ w.entity = entity /\ w.table = table /\ Stored(w.entity, w.table)
      /\ Contained(entity) /\ Distinct(batch)
  BY DEF World, Typed, Stored, Contained
<1>4. z \in Contents /\ z.alive = x.alive /\ z.abstract = x.abstract
  BY <1>2, WrittenIs
<1>5. entity' = v.entity /\ v.entity = [entity EXCEPT ![e] = z] /\ batch' = Tail(batch)
      /\ v = [entity |-> v.entity, table |-> v.table]
  BY <1>1 DEF Settle, Migrate, World
<1> HIDE DEF z
<1>6. v.entity[e] = z /\ (\A y \in Entities : y # e => v.entity[y] = entity[y])
      /\ Contained(v.entity)
  BY <1>2, <1>3, <1>4, <1>5 DEF Contained
<1>7. Calm(w, v, e)
  <2>1. \A y \in Entities : ~entity[y].alive => entity[y] = Nothing
    BY DEF Agrees, Fit
  <2>2. BasesAbstract(entity)
    BY DEF Agrees
  <2>3. entity[e].alive
    BY <1>2
  <2> HIDE DEF w, v, e
  <2>4. QED
    BY <1>2, <1>3, <1>6, <2>1, <2>2, <2>3 DEF Calm
<1>8. ~w.entity[e].abstract => Unmoved(w, v, e)
  BY <1>2, <1>3, <1>4, MigratedApart
<1>9. \A y \in Entities : v.entity[y].abstract <=> entity[y].abstract
  BY <1>4, <1>6
<1> HIDE DEF w, v
<1>10. \A i \in DOMAIN Tail(batch) :
         Tail(batch)[i].base # NoEntity /\ entity[Tail(batch)[i].base].abstract
           => v.entity[Tail(batch)[i].base].abstract
  <2>1. \A y \in Entities : entity'[y].alive /\ entity[y].abstract => entity'[y].abstract
    BY <1>5, <1>9
  <2>2. QED
    BY <1>1, <1>5, <2>1, LaterBases
<1>11. NoMovesIn(entity, batch) /\ Lasting(transition, w, batch)
  BY <1>2 DEF Shared, Queued, w
<1>12. /\ NoMovesIn(entity, batch) => NoMovesIn(v.entity, Tail(batch))
       /\ \A t : Quiet(t, entity, batch) => Quiet(t, v.entity, Tail(batch))
  BY <1>1, <1>3, <1>9, <1>10, NoMovesLater
<1>13. Lasting(transition, v, Tail(batch))
  <2>1. Quiet(transition, w.entity, batch) => Quiet(transition, v.entity, Tail(batch))
    BY <1>3, <1>12
  <2>2. QED
    BY <1>1, <1>3, <1>7, <1>8, <1>11, <2>1, LastingLater DEF e, k
<1>14. QED
  BY <1>1, <1>5, <1>11, <1>12, <1>13, SettleShared

LEMMA RestructuredShared ==
  ASSUME Typed, Typed', Agrees(entity, promised, batch), Shared, ApplyRestructured
  PROVE  Shared'
<1> DEFINE k == Head(batch)
           e == k.entity
           x == entity[e]
           w == Ready(k)
           t == TransitionFor(k)
<1>1. batch # <<>> /\ ~k.kill /\ Alters /\ ~TypeUnchanged(k, x) /\ Restructure(k)
  BY DEF ApplyRestructured, Alters
<1>2. PICK copied \in Reads(w, t) :
        Settle(Migrate(w, e, After(k, copied)), IF KeptFor(k) THEN t ELSE transition)
  BY <1>1, RestructureIs
<1> DEFINE z == After(k, copied)
           v == Migrate(w, e, z)
<1>3. k \in Commands /\ e \in Entities /\ x \in Contents /\ x.alive /\ depth = 0
  BY <1>1, HeadIs
<1>4. /\ World.entity = entity /\ World.table = table /\ Stored(World.entity, World.table)
      /\ Contained(entity) /\ Distinct(batch)
  BY DEF World, Typed, Stored, Contained
<1>5. /\ Stored(w.entity, w.table)
      /\ \A y \in Entities : w.entity[y].alive = entity[y].alive
  BY <1>1, ReadyIs
<1>6. /\ BaseChanged(k, x) => k.base # e /\ k.base \in Entities
      /\ \A y \in Entities :
           /\ w.entity[y].abstract <=> entity[y].abstract \/ (BaseChanged(k, x) /\ y = k.base)
           /\ ~(BaseChanged(k, x) /\ y = k.base) => w.entity[y] = entity[y]
      /\ \A y \in Entities : ~w.entity[y].alive => w.entity[y] = Nothing
      /\ BasesAbstract(w.entity)
  BY <1>1, ReadyMarks
<1>7. \A y \in Entities : ~entity[y].alive => entity[y] = Nothing
  BY DEF Agrees, Fit
<1>8. z \in Contents
  BY <1>1, <1>2, AfterTyped
<1>9. z.abstract = x.abstract
  <2>1. TransitionFresh
    <3>1. Lasting(transition, World, batch)
      BY DEF Shared
    <3>2. QED
      BY <3>1, LastingIsFresh
  <2>2. QED
    BY <1>1, <1>2, <1>7, <2>1, AfterResult
<1>10. Settle(v, IF KeptFor(k) THEN t ELSE transition)
  BY <1>2
<1> HIDE DEF z, w, t
<1>11. entity' = v.entity /\ v.entity = [w.entity EXCEPT ![e] = z] /\ batch' = Tail(batch)
       /\ v = [entity |-> v.entity, table |-> v.table]
  BY <1>10 DEF Settle, Migrate
<1>12. Contained(w.entity)
  BY <1>5 DEF Stored, Contained
<1>13. v.entity[e] = z /\ (\A y \in Entities : y # e => v.entity[y] = w.entity[y])
       /\ Contained(v.entity)
  BY <1>3, <1>8, <1>11, <1>12 DEF Contained
<1>14. w.entity[e].alive /\ (w.entity[e].abstract <=> entity[e].abstract)
  BY <1>3, <1>5, <1>6
<1>15. Calm(w, v, e)
  <2> HIDE DEF v, e
  <2>1. QED
    BY <1>3, <1>6, <1>12, <1>13, <1>14 DEF Calm
<1>16. ~entity[e].abstract => ~w.entity[e].abstract /\ Unmoved(w, v, e)
  BY <1>3, <1>5, <1>8, <1>9, <1>14, MigratedApart
<1> HIDE DEF v
<1>17. \A y \in Entities :
         v.entity[y].abstract <=> entity[y].abstract \/ (BaseChanged(k, x) /\ y = k.base)
  BY <1>6, <1>9, <1>13
<1>18. \A i \in DOMAIN Tail(batch) :
         Tail(batch)[i].base # NoEntity /\ entity[Tail(batch)[i].base].abstract
           => v.entity[Tail(batch)[i].base].abstract
  <2>1. \A y \in Entities : entity'[y].alive /\ entity[y].abstract => entity'[y].abstract
    BY <1>11, <1>17
  <2>2. QED
    BY <1>1, <1>11, <2>1, LaterBases
<1>19. NoMovesIn(entity, batch) /\ Lasting(transition, World, batch)
  BY <1>3 DEF Shared, Queued
<1>20. /\ NoMovesIn(entity, batch) => NoMovesIn(v.entity, Tail(batch))
       /\ \A s : Quiet(s, entity, batch) => Quiet(s, v.entity, Tail(batch))
       /\ NoMovesIn(entity, batch) => \A s : s.base = Head(batch).base /\ s.base # NoEntity
            => Quiet(s, v.entity, Tail(batch))
  BY <1>1, <1>4, <1>17, <1>18, NoMovesLater
<1>21. Lasting(transition, v, Tail(batch))
  <2>1. Quiet(transition, World.entity, batch) => Quiet(transition, v.entity, Tail(batch))
    BY <1>4, <1>20
  <2>2. Calm(World, v, e)
    <3>1. BasesAbstract(entity)
      BY DEF Agrees
    <3>2. entity[e].alive
      BY <1>3
    <3> HIDE DEF e
    <3>3. QED
      BY <1>3, <1>4, <1>7, <1>13, <3>1, <3>2 DEF Calm
  <2>3. /\ ~World.entity[e].abstract
        /\ k.base # NoEntity => World.entity[k.base].abstract
        => Unmoved(World, v, e)
    <3>1. SUFFICES ASSUME ~entity[e].abstract, k.base # NoEntity => entity[k.base].abstract
                   PROVE  Unmoved(World, v, e)
      BY <1>4
    <3>2. BaseChanged(k, x) => entity[k.base].abstract
      BY <3>1 DEF BaseChanged
    <3>3. w = World
      BY <1>1, <3>2, ReadyAgain DEF w
    <3>4. QED
      BY <1>16, <3>1, <3>3
  <2>4. QED
    BY <1>1, <1>4, <1>19, <2>1, <2>2, <2>3, LastingLater DEF e, k
<1>22. ASSUME KeptFor(k) PROVE Lasting(t, v, Tail(batch))
  <2>1. t = Fresh(w, Completed(Head(batch)), TypeOf(x), x)
    BY <1>22 DEF t, w, KeptFor, TransitionFor, FullFor
  <2>2. t.base = k.base
    <3>1. t.base = Completed(k).base
      BY <2>1 DEF Fresh
    <3>2. QED
      BY <1>3, <3>1, CompletedIs
  <2>3. Head(batch).base # NoEntity => Quiet(t, v.entity, Tail(batch))
    BY <1>19, <1>20, <2>2
  <2>4. BaseChanged(Head(batch), x) => w.entity[Head(batch).base].abstract
    BY <1>6
  <2>5. Calm(w, v, Head(batch).entity)
    BY <1>15
  <2>6. ~entity[Head(batch).entity].abstract =>
          ~w.entity[Head(batch).entity].abstract /\ Unmoved(w, v, Head(batch).entity)
    BY <1>16
  <2>7. batch # <<>> /\ Distinct(batch) /\ NoMovesIn(entity, batch) /\ x \in Contents
    BY <1>1, <1>3, <1>4, <1>19
  <2> HIDE DEF x, k, e
  <2>8. QED
    BY <2>1, <2>3, <2>4, <2>5, <2>6, <2>7, LastingNew
<1> DEFINE s == IF KeptFor(k) THEN t ELSE transition
<1>23. Lasting(s, v, Tail(batch))
  BY <1>21, <1>22
<1>24. Settle(v, s) /\ NoMovesIn(v.entity, Tail(batch))
  BY <1>10, <1>19, <1>20
<1> HIDE DEF s, k, e, x
<1>25. QED
  BY <1>1, <1>11, <1>23, <1>24, SettleShared

(* The commands agree with what is promised, whoever holds them.             *)
Promising == Typed /\ Agrees(entity, promised, Queued) /\ Shared

LEMMA CallPromises ==
  ASSUME Promising, Scope, NEW k, NEW alone, Record(k, alone),
         ~MovesBetween(Recorded(commands, k)), Typed',
         Agrees(entity', promised', commands')
  PROVE  Promising'
<1>1. depth # 0 /\ batch = <<>> /\ ~transition.valid
  <2>1. depth # 0
    BY DEF Promising, Typed, Scope
  <2>2. QED
    BY <2>1 DEF Promising, Typed, Shared
<1>2. /\ commands' = Recorded(commands, k) /\ entity' = entity /\ table' = table
      /\ depth' = depth /\ batch' = batch /\ transition' = transition
  BY DEF Record
<1>3. Queued' = commands'
  BY <1>1, <1>2 DEF Queued
<1>4. NoMovesIn(entity', Queued')
  <2>1. NoMovesIn(entity, Recorded(commands, k))
    BY NoMovesIs
  <2>2. QED
    BY <1>2, <1>3, <2>1
<1>5. Lasting(transition', World', batch')
  BY <1>1, <1>2 DEF Lasting
<1>6. QED
  BY <1>1, <1>2, <1>3, <1>4, <1>5 DEF Promising, Shared

LEMMA CallQueued == ASSUME Promising, Scope PROVE Typed /\ Agrees(entity, promised, commands)
<1>1. depth # 0
  BY DEF Promising, Typed, Scope
<1>2. QED
  BY <1>1 DEF Promising, Queued

LEMMA DeferPromises ==
  ASSUME Promising, Typed', DeferBegin \/ DeferEnd
  PROVE  Promising'
<1>1. /\ entity' = entity /\ table' = table /\ promised' = promised /\ transition' = transition
  BY DEF DeferBegin, DeferEnd
<1>2. batch = <<>>
  BY DEF DeferBegin, DeferEnd, Scope, Promising, Typed
<1>3. depth \in Nat /\ (depth = 0 => commands = <<>>)
  BY CommandsAssumption DEF Promising, Typed
<1>4. Queued' = Queued
  <2>1. CASE DeferBegin
    BY <1>2, <1>3, <2>1 DEF DeferBegin, Queued
  <2>2. CASE DeferEnd
    <3>1. CASE depth = 1
      BY <2>2, <3>1 DEF DeferEnd, Queued
    <3>2. CASE depth # 1
      <4>1. depth # 0 /\ depth' # 0
        BY <1>3, <2>2, <3>2 DEF DeferEnd, Scope
      <4>2. QED
        BY <2>2, <3>2, <4>1 DEF DeferEnd, Queued
    <3>3. QED
      BY <3>1, <3>2
  <2>3. QED
    BY <2>1, <2>2
<1>5. ~transition.valid
  BY <1>2 DEF Promising, Shared
<1>6. Lasting(transition', World', batch')
  BY <1>1, <1>5 DEF Lasting
<1>7. Agrees(entity', promised', Queued') /\ NoMovesIn(entity', Queued')
  BY <1>1, <1>4 DEF Promising, Shared
<1>8. QED
  BY <1>1, <1>5, <1>6, <1>7 DEF Promising, Shared

LEMMA ApplyPromises ==
  ASSUME Promising, Typed', ApplyKill \/ ApplyInPlace \/ ApplyRestructured
  PROVE  Promising'
<1>1. batch # <<>>
  BY DEF ApplyKill, ApplyInPlace, ApplyRestructured, Alters
<1>2. Typed /\ Shared /\ depth = 0
  BY <1>1, HeadIs DEF Promising
<1>3. Agrees(entity, promised, batch)
  BY <1>2 DEF Promising, Queued
<1>4. depth' = depth
  <2>1. CASE ApplyKill
    BY <2>1 DEF ApplyKill, Settle
  <2>2. CASE ApplyInPlace
    BY <2>2 DEF ApplyInPlace, Settle
  <2>3. CASE ApplyRestructured
    <3> DEFINE k == Head(batch)
    <3>1. Restructure(k)
      BY <2>3 DEF ApplyRestructured
    <3> HIDE DEF k
    <3>2. QED
      BY <3>1, RestructureIs DEF Settle
  <2>4. QED
    BY <2>1, <2>2, <2>3
<1>5. Queued' = batch'
  BY <1>2, <1>4 DEF Queued
<1>6. TransitionFresh
  BY <1>2, LastingIsFresh DEF Shared
<1>7. Agrees(entity', promised', batch') /\ Shared'
  <2>1. CASE ApplyKill
    BY <1>2, <1>3, <2>1, ApplyKillAgrees, ApplyKillShared
  <2>2. CASE ApplyInPlace
    BY <1>2, <1>3, <2>2, InPlaceAgrees, InPlaceShared
  <2>3. CASE ApplyRestructured
    BY <1>2, <1>3, <1>6, <2>3, RestructuredAgrees, RestructuredShared
  <2>4. QED
    BY <2>1, <2>2, <2>3
<1>8. QED
  BY <1>5, <1>7 DEF Promising

LEMMA PromisingStep == ASSUME Divergences = {}, Promising, [Next]_vars PROVE Promising'
<1>1. Typed'
  BY TypedStep DEF Promising
<1>2. ASSUME NEW e \in Entities, Kill(e) PROVE Promising'
  <2>1. Scope /\ Record(Killed(Command(e)), KilledAlone(promised, e))
        /\ ~MovesBetween(Recorded(commands, Killed(Command(e))))
    BY <1>2 DEF Kill, MayCall, Allow
  <2>2. QED
    BY <1>1, <1>2, <2>1, CallQueued, KillAgrees, CallPromises
<1>3. ASSUME NEW e \in Entities, NEW b \in Entities, IsA(e, b) PROVE Promising'
  <2> DEFINE k == [Command(e) EXCEPT !.base = b]
  <2>1. Scope /\ Record(k, InheritedAlone(promised, e, b)) /\ ~MovesBetween(Recorded(commands, k))
    BY <1>3 DEF IsA, MayCall, Allow
  <2> HIDE DEF k
  <2>2. QED
    BY <1>1, <1>3, <2>1, CallQueued, IsAAgrees, CallPromises
<1>4. ASSUME NEW e \in Entities, NEW c \in Components, Add(e, c) PROVE Promising'
  <2> DEFINE k == Merged(Command(e), c, "add", Default)
  <2>1. Scope /\ Record(k, AddedAlone(promised, e, c)) /\ ~MovesBetween(Recorded(commands, k))
    BY <1>4 DEF Add, MayCall, Allow, Change
  <2> HIDE DEF k
  <2>2. QED
    BY <1>1, <1>4, <2>1, CallQueued, AddAgrees, CallPromises
<1>5. ASSUME NEW e \in Entities, NEW c \in Components, RemoveComponent(e, c) PROVE Promising'
  <2> DEFINE k == Merged(Command(e), c, "remove", Default)
  <2>1. Scope /\ Record(k, RemovedAlone(promised, e, c)) /\ ~MovesBetween(Recorded(commands, k))
    BY <1>5 DEF RemoveComponent, MayCall, Allow, Change
  <2> HIDE DEF k
  <2>2. QED
    BY <1>1, <1>5, <2>1, CallQueued, RemoveAgrees, CallPromises
<1>6. ASSUME NEW e \in Entities, NEW c \in Components, NEW v \in Inputs, Set(e, c, v)
      PROVE  Promising'
  <2> DEFINE k == Merged(Command(e), c, "copy", v)
  <2>1. Scope /\ Record(k, SetAlone(promised, e, c, v)) /\ ~MovesBetween(Recorded(commands, k))
    BY <1>6 DEF Set, MayCall, Allow, Change
  <2> HIDE DEF k
  <2>2. QED
    BY <1>1, <1>6, <2>1, CallQueued, SetAgrees, CallPromises
<1>7. CASE DeferBegin \/ DeferEnd
  BY <1>1, <1>7, DeferPromises
<1>8. CASE ApplyKill \/ ApplyInPlace \/ ApplyRestructured
  BY <1>1, <1>8, ApplyPromises
<1>9. CASE UNCHANGED vars
  <2>1. /\ entity' = entity /\ table' = table /\ promised' = promised /\ transition' = transition
        /\ batch' = batch /\ Queued' = Queued /\ World' = World
    BY <1>9 DEF vars, Queued, World
  <2>2. QED
    BY <1>1, <2>1 DEF Promising, Shared
<1>10. QED
  BY <1>2, <1>3, <1>4, <1>5, <1>6, <1>7, <1>8, <1>9 DEF Next

LEMMA NothingRecorded ==
  ASSUME NEW e \in Entities
  PROVE  CommandOf(<<>>, e) = NoCommand(e)
<1> DEFINE none == <<>>
<1>1. none \in Seq(Commands) /\ DOMAIN none = {}
  OBVIOUS
<1> HIDE DEF none
<1>2. PlaceOf(none, e) = 0
  BY <1>1, PlaceIs
<1>3. QED
  BY <1>1, <1>2, CommandIs DEF none

LEMMA PromisingInit == Init => Promising
<1> SUFFICES ASSUME Init PROVE Promising
  OBVIOUS
<1>1. PICK start \in Starts, order \in SetToSeqs(Entities) : Starting(start, order)
  BY ONLY Init, InitIs
<1>2. depth = 0 /\ commands = <<>> /\ batch = <<>> /\ transition = NoTransition /\ promised = entity
  BY <1>1 DEF Starting
<1>3. Typed /\ Contained(entity)
  BY TypedInit DEF Typed, Stored, Contained
<1>4. ASSUME NEW e \in Entities
      PROVE  entity[e].alive /\ entity[e].base = NoEntity /\ entity[e] \in Contents
  <2>1. entity[e] = [alive |-> TRUE, abstract |-> FALSE, base |-> NoEntity, value |-> start[e]]
    BY <1>1 DEF Starting, Loaded
  <2>2. entity[e] \in Contents
    BY <1>3 DEF Contained
  <2>3. QED
    BY <2>1, <2>2
<1>5. \A e \in Entities : CommandOf(<<>>, e) = NoCommand(e)
  BY NothingRecorded
<1>6. ASSUME NEW e \in Entities
      PROVE  Fit(e, CommandOf(<<>>, e), entity[e], promised[e], SeenIn(entity, promised, <<>>, e))
  <2>1. Contained(SeenIn(entity, promised, <<>>, e))
    BY <1>2, <1>3, SeenContained
  <2> HIDE DEF Contained
  <2>2. promised[e] = entity[e] /\ entity[e] \in Contents /\ entity[e].alive
    BY <1>2, <1>4
  <2> DEFINE seen == SeenIn(entity, promised, <<>>, e)
             x == entity[e]
  <2> HIDE DEF seen, x
  <2>3. x \in Contents /\ x.alive /\ Contained(seen)
    BY <2>1, <2>2 DEF x, seen
  <2>4. Fit(e, NoCommand(e), x, x, seen)
    BY <2>3, AsPromisedFits
  <2>5. QED
    BY <1>5, <2>2, <2>4 DEF x, seen
<1>7. Abst(entity, promised, <<>>)
  BY <1>2, <1>5, CommandsAssumption DEF Abst, NoCommand
<1>8. BasesAbstract(entity)
  BY <1>4 DEF BasesAbstract
<1>9. Agrees(entity, promised, <<>>)
  BY <1>6, <1>7, <1>8 DEF Agrees
<1>10. NoMovesIn(entity, <<>>) /\ ~transition.valid
  BY <1>2 DEF NoMovesIn, NoTransition
<1>11. QED
  BY <1>2, <1>3, <1>9, <1>10 DEF Promising, Shared, Lasting, Queued

(* With nothing recorded every entity is as promised.                        *)
LEMMA PromisingSettles == Promising => SettledAsPromised
<1> SUFFICES ASSUME Promising, batch = <<>>, commands = <<>> PROVE entity = promised
  BY DEF SettledAsPromised
<1>1. Agrees(entity, promised, <<>>) /\ Contained(entity) /\ Contained(promised)
  BY DEF Promising, Queued, Typed, Stored, Contained
<1>2. \A e \in Entities : CommandOf(<<>>, e) = NoCommand(e)
  BY NothingRecorded
<1>3. ASSUME NEW e \in Entities PROVE entity[e] = promised[e]
  <2> DEFINE x == entity[e]
             p == promised[e]
             seen == SeenIn(entity, promised, <<>>, e)
  <2>1. Fit(e, NoCommand(e), x, p, seen)
    BY <1>1, <1>2 DEF Agrees
  <2>2. x \in Contents /\ p \in Contents /\ Contained(seen)
    BY <1>1, SeenContained DEF Contained
  <2>3. CASE ~p.alive
    <3>1. ~NoCommand(e).kill
      BY DEF NoCommand
    <3>2. QED
      BY <2>1, <2>3, <3>1 DEF Fit
  <2>4. CASE p.alive
    <3>1. p.abstract <=> x.abstract
      <4>1. Abst(entity, promised, <<>>)
        BY <1>1 DEF Agrees
      <4>2. p.abstract <=> x.abstract \/ \E f \in Entities : promised[f].alive
                                                             /\ CommandOf(<<>>, f).base = e
        BY <2>4, <4>1 DEF Abst
      <4>3. \A f \in Entities : CommandOf(<<>>, f).base # e
        BY <1>2, CommandsAssumption DEF NoCommand
      <4>4. QED
        BY <4>2, <4>3
    <3> HIDE DEF x, p, seen
    <3>2. p.alive = x.alive /\ p.base = x.base /\ p.value = x.value
      BY <2>1, <2>2, NoCommandFit
    <3>3. p.abstract = x.abstract
      BY <2>2, <3>1, ContentsAre
    <3>4. QED
      BY <2>2, <3>2, <3>3, ContentsAre DEF x, p
  <2>5. QED
    BY <2>3, <2>4
<1>4. QED
  BY <1>1, <1>3 DEF Contained

(* When no scope is open and no flush under way, the world is the one that    *)
(* the same calls leave when each is made alone: for a program that avoids   *)
(* the disagreements, merging the calls of an entity into one command,       *)
(* applying commands in the order of first mention, and sharing types and    *)
(* addresses between entities of one shape change nothing.                   *)
THEOREM ScopeActsAsItsCalls ==
  ASSUME Divergences = {}
  PROVE  Spec => []SettledAsPromised
<1>1. Promising /\ [Next]_vars => Promising'
  BY PromisingStep
<1>2. QED
  BY PromisingInit, PromisingSettles, <1>1, PTL DEF Spec

(* A cached transition that a command finds names the type that the command   *)
(* would compute, and the rows where the values that it copies are now.      *)
THEOREM TransitionsFresh ==
  ASSUME Divergences = {}
  PROVE  Spec => []TransitionFresh
<1>1. Promising /\ [Next]_vars => Promising'
  BY PromisingStep
<1>2. Promising => TransitionFresh
  BY LastingIsFresh DEF Promising, Shared
<1>3. QED
  BY PromisingInit, <1>1, <1>2, PTL DEF Spec

=============================================================================
