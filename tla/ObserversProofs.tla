---------------------------- MODULE ObserversProofs ----------------------------
(* Theorems about QueryCache and Observers.                                   *)
(*                                                                            *)
(* Of QueryCache, the types and the agreement of rows and records hold        *)
(* whatever is done.  No base dying, the lists of tables, the caches and the  *)
(* lists of observers are exact but where a base of a table has changed since *)
(* the table was made; no base moving either, the pointers are current.       *)
(* Deliveries go as promised where no base in use dies or changes.  The steps *)
(* of Observers are steps of QueryCache, so that its invariants hold there.   *)
EXTENDS Observers, RecursionLemmas

-----------------------------------------------------------------------------
(* Types. *)

TypeSet == [comps : SUBSET (Comps \cup {Abstract}), base : Entities \cup {None}]
Places(n) == [table : (1..n) \cup {None}, row : Nat]

(* Tables, rows and room are lists of one length; slots of queries, a list.  *)
Lists ==
  /\ Len(rows) = Len(types) /\ Len(capacity) = Len(types) /\ Len(types) > 0
  /\ queries \in Seq(Range(queries))

Typed == TypeOK /\ Lists

(* What holds of the variables taken one by one.                             *)
LEMMA TypedFacts ==
  ASSUME Typed
  PROVE  /\ Tables = 1..Len(types) /\ DOMAIN rows = Tables /\ DOMAIN capacity = Tables
         /\ Len(types) \in Nat \ {0} /\ Root \in Tables /\ None \notin Tables
         /\ \A t \in Tables : /\ types[t] \in TypeSet /\ rows[t] \in Seq(Entities)
                              /\ capacity[t] \in Nat
         /\ \A e \in Entities : place[e] \in Places(Len(types))
         /\ \A e \in Living : e \in Entities /\ place[e].table \in Tables /\ TypeOf(e) \in TypeSet
                              /\ TypeOf(e) = types[place[e].table]
         /\ DOMAIN queries = 1..Len(queries) /\ Len(queries) \in Nat
<1>1. types \in Seq(TypeSet) /\ Tables = 1..Len(types)
  BY DEF Typed, TypeOK, Tables, TypeSet
<1>2. Len(types) \in Nat \ {0}
  BY <1>1 DEF Typed, Lists
<1>3. DOMAIN rows = Tables /\ DOMAIN capacity = Tables
  BY <1>1 DEF Typed, TypeOK, Lists
<1>4. \A t \in Tables : types[t] \in TypeSet /\ rows[t] \in Seq(Entities) /\ capacity[t] \in Nat
  BY <1>1, <1>3 DEF Typed, TypeOK
<1>5. \A e \in Entities : place[e] \in Places(Len(types))
  BY <1>1 DEF Typed, TypeOK, Places
<1>6. ASSUME NEW e \in Living
      PROVE  e \in Entities /\ place[e].table \in Tables /\ TypeOf(e) \in TypeSet
             /\ TypeOf(e) = types[place[e].table]
  BY <1>1, <1>4, <1>5 DEF Living, TypeOf, Places
<1>7. DOMAIN queries = 1..Len(queries) /\ Len(queries) \in Nat
  BY DEF Typed, Lists
<1>8. QED
  BY <1>1, <1>2, <1>3, <1>4, <1>5, <1>6, <1>7 DEF Root, None

(* The types of the operations are types.                                    *)
LEMMA NewTypes ==
  ASSUME Typed, NEW e \in Living
  PROVE  /\ \A c \in Comps \cup {Abstract} :
              [TypeOf(e) EXCEPT !.comps = @ \cup {c} \cup Requires[c]] \in TypeSet
         /\ \A c : [TypeOf(e) EXCEPT !.comps = @ \ {c}] \in TypeSet
         /\ \A b \in Entities : [comps |-> TypeOf(e).comps \cup CopiesFrom(TypeOf(e).comps, b),
                                 base |-> b] \in TypeSet
         /\ [TypeOf(e) EXCEPT !.base = None] \in TypeSet
<1>1. TypeOf(e) \in TypeSet
  BY TypedFacts
<1>2. \A c \in Comps \cup {Abstract} : Requires[c] \subseteq Comps
  BY ComponentsNamed
<1>3. \A b : CopiesFrom(TypeOf(e).comps, b) \subseteq Comps
  BY DEF CopiesFrom
<1> DEFINE ty == TypeOf(e)
<1>4. ty = [comps |-> ty.comps, base |-> ty.base] /\ ty.comps \in SUBSET (Comps \cup {Abstract})
      /\ ty.base \in Entities \cup {None}
  BY <1>1 DEF TypeSet
<1> HIDE DEF ty
<1>5. QED
  BY <1>2, <1>3, <1>4 DEF TypeSet, ty

(* When a table grows, only room and caches change.                          *)
LEMMA GrowTyped ==
  ASSUME Typed, NEW t \in Tables, GrowFor(t)
  PROVE  /\ capacity' \in Seq(Nat) /\ Len(capacity') = Len(types)
         /\ queries' \in Seq(Range(queries')) /\ DOMAIN queries' = DOMAIN queries
<1> DEFINE room == [capacity EXCEPT ![t] = IF Len(rows[t]) >= @ THEN 2 * @ ELSE @]
<1>1. capacity' = room
  BY DEF GrowFor
<1>2. capacity \in Seq(Nat) /\ Len(capacity) = Len(types) /\ t \in 1..Len(types)
  BY TypedFacts DEF Typed, TypeOK, Lists
<1>3. Len(rows[t]) \in Nat /\ capacity[t] \in Nat
  BY TypedFacts
<1>4. room \in Seq(Nat) /\ Len(room) = Len(types)
  BY <1>2, <1>3
<1>5. queries' = [s \in DOMAIN queries |-> queries'[s]]
  <2>1. queries = [s \in DOMAIN queries |-> queries[s]]
    BY TypedFacts DEF Typed, Lists
  <2>2. CASE room = capacity
    BY <2>1, <2>2 DEF GrowFor
  <2>3. CASE room # capacity
    BY <2>3 DEF GrowFor, RefreshAfterGrowth
  <2>4. QED
    BY <2>2, <2>3
<1>6. QED
  BY <1>1, <1>4, <1>5, SequenceOfValues, TypedFacts

(* A new table comes last.                                                   *)
LEMMA CreateTyped ==
  ASSUME Typed, NEW type \in TypeSet, CreateTable(type)
  PROVE  /\ types' = Append(types, type) /\ types' \in Seq(TypeSet) /\ Len(types') = Len(types) + 1
         /\ \A t \in Tables : types'[t] = types[t]
         /\ types'[Len(types) + 1] = type
         /\ Tables' = Tables \cup {Len(types) + 1}
         /\ capacity' \in Seq(Nat) /\ Len(capacity') = Len(types) + 1
         /\ \A t \in Tables : capacity'[t] = capacity[t]
         /\ having' \in [Comps -> Seq(Tables')]
         /\ queries' \in Seq(Range(queries')) /\ DOMAIN queries' = DOMAIN queries
<1> DEFINE new == Len(types) + 1
<1>1. types \in Seq(TypeSet) /\ capacity \in Seq(Nat) /\ Len(capacity) = Len(types)
      /\ having \in [Comps -> Seq(Tables)]
  BY DEF Typed, TypeOK, TypeSet, Lists
<1>2. types' = Append(types, type) /\ capacity' = Append(capacity, 1)
  BY DEF CreateTable
<1>3. types' \in Seq(TypeSet) /\ Len(types') = new /\ types'[new] = type
      /\ \A t \in 1..Len(types) : types'[t] = types[t]
  BY <1>1, <1>2
<1>4. capacity' \in Seq(Nat) /\ Len(capacity') = new /\ \A t \in 1..Len(types) : capacity'[t] = capacity[t]
  BY <1>1, <1>2
<1>5. Tables = 1..Len(types) /\ Tables' = 1..new /\ Len(types) \in Nat
  BY <1>1, <1>3 DEF Tables
<1>6. having' \in [Comps -> Seq(Tables')]
  <2>1. ASSUME NEW c \in Comps PROVE having[c] \in Seq(Tables') /\ Append(having[c], new) \in Seq(Tables')
    <3>1. having[c] \in Seq(Tables) /\ Tables \subseteq Tables' /\ new \in Tables'
      BY <1>1, <1>5
    <3>2. having[c] \in Seq(Tables')
      BY <3>1, SeqMonotonic
    <3>3. QED
      BY <3>1, <3>2
  <2>2. having' = [c \in Comps |-> IF c \in type.comps \cup InheritedBy(type)
                                   THEN Append(having[c], new) ELSE having[c]]
    BY DEF CreateTable
  <2>3. QED
    BY <2>1, <2>2
<1>7. queries' = [s \in DOMAIN queries |-> queries'[s]]
  BY DEF CreateTable, OfferToActive
<1>8. queries' \in Seq(Range(queries')) /\ DOMAIN queries' = DOMAIN queries
  BY <1>7, SequenceOfValues, TypedFacts
<1>9. Tables' = Tables \cup {new}
  BY <1>5
<1>10. QED
  BY <1>2, <1>3, <1>4, <1>5, <1>6, <1>8, <1>9
-----------------------------------------------------------------------------
(* Rows and records. *)

(* What is left of a table when one of its rows goes.                        *)
LEMMA RowsLess ==
  ASSUME Typed, NEW t \in Tables, NEW r \in 1..Len(rows[t])
  PROVE  LET left == RowsWithout(t, r) IN
         /\ left \in Seq(Entities) /\ Len(left) = Len(rows[t]) - 1
         /\ \A i \in 1..(Len(rows[t]) - 1) :
              left[i] = IF i = r THEN rows[t][Len(rows[t])] ELSE rows[t][i]
         /\ Last(rows[t]) = rows[t][Len(rows[t])]
<1> DEFINE L == rows[t]
           n == Len(L)
           front == Front(L)
<1>1. L \in Seq(Entities) /\ n \in Nat /\ r \in 1..n
  BY TypedFacts
<1>2. front \in Seq(Entities) /\ Len(front) = n - 1 /\ \A i \in 1..(n - 1) : front[i] = L[i]
  <2>1. front = SubSeq(L, 1, n - 1)
    BY DEF Front
  <2>2. QED
    BY <1>1, <2>1
<1>3. Last(L) = L[n] /\ L[n] \in Entities
  BY <1>1 DEF Last
<1>4. RowsWithout(t, r) = IF r = n THEN front ELSE [front EXCEPT ![r] = L[n]]
  BY <1>3 DEF RowsWithout
<1> HIDE DEF L, n, front
<1>5. CASE r = n
  BY <1>1, <1>2, <1>3, <1>4, <1>5 DEF L, n
<1>6. CASE r # n
  <2>1. r \in 1..Len(front)
    BY <1>1, <1>2, <1>6
  <2>2. RowsWithout(t, r) = [front EXCEPT ![r] = L[n]]
    BY <1>4, <1>6
  <2>3. RowsWithout(t, r) \in Seq(Entities) /\ Len(RowsWithout(t, r)) = n - 1
        /\ \A i \in 1..(n - 1) : RowsWithout(t, r)[i] = IF i = r THEN L[n] ELSE front[i]
    BY <1>2, <1>3, <2>1, <2>2, ExceptSeq
  <2>4. QED
    BY <1>2, <1>3, <2>3 DEF L, n
<1>7. QED
  BY <1>5, <1>6

(* The row of a living entity, and the entity last in its table.             *)
LEMMA RowOf ==
  ASSUME Typed, RecordsAgree, NEW e \in Living
  PROVE  LET t == place[e].table
             last == Last(rows[t])
         IN  /\ t \in Tables /\ place[e].row \in 1..Len(rows[t]) /\ rows[t][place[e].row] = e
             /\ last = rows[t][Len(rows[t])] /\ last \in Living
             /\ place[last] = [table |-> t, row |-> Len(rows[t])]
             /\ TypeOf(last) = TypeOf(e)
             /\ last = e <=> place[e].row = Len(rows[t])
<1> DEFINE t == place[e].table
           n == Len(rows[t])
<1>1. t \in Tables /\ rows[t] \in Seq(Entities) /\ n \in Nat
  BY TypedFacts
<1>2. place[e].row \in 1..n /\ rows[t][place[e].row] = e
  BY <1>1 DEF RecordsAgree
<1>3. n \in 1..n /\ n \in DOMAIN rows[t]
  BY <1>1, <1>2
<1>4. Last(rows[t]) = rows[t][n] /\ rows[t][n] \in Entities
  BY <1>1, <1>3 DEF Last
<1>5. place[rows[t][n]] = [table |-> t, row |-> n]
  BY <1>1, <1>3 DEF RecordsAgree
<1>6. rows[t][n] \in Living
  BY <1>1, <1>4, <1>5, TypedFacts DEF Living
<1>7. TypeOf(rows[t][n]) = TypeOf(e)
  BY <1>5, <1>6, TypedFacts
<1>8. rows[t][n] = e <=> place[e].row = n
  BY <1>2, <1>5
<1>9. QED
  BY <1>1, <1>2, <1>4, <1>5, <1>6, <1>7, <1>8

(* Records agree, said of given rows and records of n tables.                *)
Agree(n, R, P) ==
  /\ \A e \in Entities : P[e].table # None => /\ P[e].row \in DOMAIN R[P[e].table]
                                              /\ R[P[e].table][P[e].row] = e
  /\ \A t \in 1..n : \A i \in DOMAIN R[t] : P[R[t][i]] = [table |-> t, row |-> i]

(* The invariant is the agreement of the variables.                          *)
LEMMA AgreeIs == Typed => (RecordsAgree <=> Agree(Len(types), rows, place))
  BY TypedFacts DEF RecordsAgree, Agree, Living

(* After a step as well, whatever the number of tables then.                 *)
LEMMA AgreeIsThen ==
  ASSUME types' \in Seq(TypeSet)
  PROVE  RecordsAgree' <=> Agree(Len(types'), rows', place')
<1>1. Tables' = 1..Len(types')
  BY DEF Tables
<1>2. QED
  BY <1>1 DEF RecordsAgree, Agree, Living

(* An entity that moves to another table, or to a new one at the end: the    *)
(* entity last in its old table takes its row, all others stay.              *)
LEMMA Moved ==
  ASSUME Typed, RecordsAgree, NEW e \in Living, NEW t \in Tables \cup {Len(types) + 1},
         t # place[e].table, Migrate(e, t)
  PROVE  LET n == IF t \in Tables THEN Len(types) ELSE Len(types) + 1
             last == Last(rows[place[e].table])
         IN  /\ rows' \in Seq(Seq(Entities)) /\ Len(rows') = n
             /\ place' \in [Entities -> Places(n)]
             /\ place'[e].table = t
             /\ last # e => place'[last] = place[e]
             /\ \A x \in Entities \ {e, last} : place'[x] = place[x]
             /\ Agree(n, rows', place')
<1> DEFINE n == IF t \in Tables THEN Len(types) ELSE Len(types) + 1
           src == place[e].table
           r == place[e].row
           last == Last(rows[src])
           into == IF t > Len(types) THEN Append(rows, <<>>) ELSE rows
           len == Len(rows[src])
           left == RowsWithout(src, r)
<1>1. Tables = 1..Len(types) /\ Len(types) \in Nat \ {0} /\ rows \in Seq(Seq(Entities))
      /\ Len(rows) = Len(types) /\ DOMAIN rows = Tables
  BY TypedFacts DEF Typed, TypeOK, Lists
<1>2. src \in Tables /\ r \in 1..len /\ rows[src][r] = e /\ last = rows[src][len]
      /\ place[last] = [table |-> src, row |-> len] /\ (last = e <=> r = len)
      /\ last \in Entities /\ e \in Entities /\ len \in Nat /\ DOMAIN rows[src] = 1..len
  BY RowOf, TypedFacts DEF Living
<1>3. into \in Seq(Seq(Entities)) /\ Len(into) = n /\ \A u \in Tables : into[u] = rows[u]
  <2>1. CASE t \in Tables
    <3>1. t \in 1..Len(types) /\ ~(t > Len(types))
      BY <1>1, <2>1
    <3>2. into = rows /\ n = Len(types)
      BY <2>1, <3>1
    <3>3. QED
      BY <1>1, <3>2
  <2>2. CASE t = Len(types) + 1
    <3>1. t > Len(types) /\ t \notin Tables
      BY <1>1, <2>2
    <3>2. into = Append(rows, <<>>) /\ n = Len(types) + 1
      BY <3>1
    <3>3. <<>> \in Seq(Entities)
      OBVIOUS
    <3> HIDE DEF into
    <3>4. QED
      BY <1>1, <3>2, <3>3, AppendProperties
  <2>3. QED
    BY <2>1, <2>2
<1>4. t \in 1..n /\ src \in 1..n /\ n \in Nat /\ Tables \subseteq 1..n
  BY <1>1, <1>2
<1>5. t \notin Tables => into[t] = <<>>
  BY <1>1
<1>6. left \in Seq(Entities) /\ Len(left) = len - 1 /\ DOMAIN left = 1..(len - 1)
      /\ \A i \in 1..(len - 1) : left[i] = IF i = r THEN rows[src][len] ELSE rows[src][i]
  <2>1. left \in Seq(Entities) /\ Len(left) = len - 1
        /\ \A i \in 1..(len - 1) : left[i] = IF i = r THEN rows[src][len] ELSE rows[src][i]
    BY <1>2, RowsLess
  <2>2. QED
    BY <2>1
<1>7. rows' = [into EXCEPT ![src] = left, ![t] = Append(@, e)]
      /\ place' = [place EXCEPT ![last].row = r, ![e] = [table |-> t, row |-> Len(into[t]) + 1]]
  BY DEF Migrate
<1> HIDE DEF into, left, last
<1>8. into[t] \in Seq(Entities) /\ Len(into[t]) \in Nat
  BY <1>3, <1>4
<1>9. /\ rows' \in Seq(Seq(Entities)) /\ Len(rows') = n
      /\ rows'[src] = left /\ rows'[t] = Append(into[t], e)
      /\ \A u \in Tables \ {src, t} : rows'[u] = rows[u]
      /\ DOMAIN rows'[t] = 1..(Len(into[t]) + 1) /\ rows'[t][Len(into[t]) + 1] = e
      /\ \A i \in 1..Len(into[t]) : rows'[t][i] = into[t][i]
  <2> DEFINE half == [into EXCEPT ![src] = left]
  <2>1. half \in Seq(Seq(Entities)) /\ Len(half) = n /\ half[src] = left
        /\ \A u \in 1..n \ {src} : half[u] = into[u]
    BY <1>3, <1>4, <1>6
  <2>2. rows' = [half EXCEPT ![t] = Append(into[t], e)]
    BY <1>3, <1>4, <1>7
  <2> HIDE DEF half
  <2>3. Append(into[t], e) \in Seq(Entities)
    BY <1>2, <1>8
  <2>4. rows' \in Seq(Seq(Entities)) /\ Len(rows') = n /\ rows'[t] = Append(into[t], e)
        /\ \A u \in 1..n \ {t} : rows'[u] = half[u]
    BY <1>4, <2>1, <2>2, <2>3
  <2>5. /\ DOMAIN Append(into[t], e) = 1..(Len(into[t]) + 1)
        /\ Append(into[t], e)[Len(into[t]) + 1] = e
        /\ \A i \in 1..Len(into[t]) : Append(into[t], e)[i] = into[t][i]
    BY <1>2, <1>8, AppendProperties
  <2>6. QED
    BY <1>1, <1>3, <1>4, <2>1, <2>4, <2>5
<1>10. place \in [Entities -> Places(Len(types))] /\ place[e] = [table |-> src, row |-> r]
  BY <1>1, <1>2 DEF Typed, TypeOK, Places
<1>11. /\ place'[e] = [table |-> t, row |-> Len(into[t]) + 1]
       /\ last # e => place'[last] = place[e]
       /\ \A x \in Entities \ {e, last} : place'[x] = place[x]
       /\ DOMAIN place' = Entities
       /\ place' = [x \in Entities |-> place'[x]]
  <2> DEFINE half == [place EXCEPT ![last].row = r]
  <2>1. half \in [Entities -> Places(Len(types))]
        /\ half[last] = [table |-> src, row |-> r]
        /\ \A x \in Entities \ {last} : half[x] = place[x]
    BY <1>1, <1>2, <1>10 DEF Places
  <2>2. place' = [half EXCEPT ![e] = [table |-> t, row |-> Len(into[t]) + 1]]
    BY <1>7
  <2> HIDE DEF half
  <2>3. QED
    BY <1>2, <1>10, <2>1, <2>2
<1>12. place' \in [Entities -> Places(n)]
  <2>1. \A x \in Entities : place[x] \in Places(n)
    BY <1>4, <1>10, <1>1 DEF Places
  <2>2. place'[e] \in Places(n)
    BY <1>4, <1>8, <1>11 DEF Places
  <2>3. \A x \in Entities : place'[x] \in Places(n)
    BY <1>2, <1>11, <2>1, <2>2
  <2>4. QED
    BY <1>11, <2>3
<1>13. Agree(n, rows', place')
  <2>1. Agree(Len(types), rows, place)
    BY AgreeIs
  <2>2. ASSUME NEW x \in Entities, place'[x].table # None
        PROVE  place'[x].row \in DOMAIN rows'[place'[x].table]
               /\ rows'[place'[x].table][place'[x].row] = x
    <3>1. CASE x = e
      <4>1. Len(into[t]) + 1 \in 1..(Len(into[t]) + 1)
        BY <1>8
      <4>2. QED
        BY <1>9, <1>11, <3>1, <4>1
    <3>2. CASE x = last /\ x # e
      <4>1. r \in 1..(len - 1)
        BY <1>2, <3>2
      <4>2. r \in DOMAIN left /\ left[r] = last
        BY <1>2, <1>6, <4>1
      <4>3. place'[x] = [table |-> src, row |-> r]
        BY <1>10, <1>11, <3>2
      <4>4. QED
        BY <1>9, <3>2, <4>2, <4>3
    <3>3. CASE x # last /\ x # e
      <4> DEFINE u == place[x].table
                 i == place[x].row
      <4>1. place'[x] = place[x] /\ u # None
        BY <1>11, <2>2, <3>3
      <4>2. u \in Tables /\ i \in DOMAIN rows[u] /\ rows[u][i] = x
        BY <1>1, <1>10, <2>1, <4>1 DEF Agree, Places
      <4>3. CASE u = src
        <5>1. i \in 1..len /\ i # r /\ i # len
          BY <1>2, <3>3, <4>2, <4>3
        <5>2. i \in 1..(len - 1)
          BY <1>2, <5>1
        <5>3. i \in DOMAIN left /\ left[i] = rows[src][i]
          BY <1>6, <5>1, <5>2
        <5>4. left[i] = x /\ rows'[src] = left
          BY <1>9, <4>2, <4>3, <5>3
        <5>5. QED
          BY <4>1, <4>3, <5>3, <5>4
      <4>4. CASE u = t
        <5>1. into[t] = rows[t] /\ i \in 1..Len(into[t])
          BY <1>3, <1>8, <4>2, <4>4
        <5>2. rows'[t][i] = x /\ i \in DOMAIN rows'[t]
          BY <1>8, <1>9, <4>2, <4>4, <5>1
        <5>3. QED
          BY <4>1, <4>4, <5>2
      <4>5. CASE u # t /\ u # src
        BY <1>9, <4>1, <4>2, <4>5
      <4>6. QED
        BY <4>3, <4>4, <4>5
    <3>4. QED
      BY <3>1, <3>2, <3>3
  <2>3. ASSUME NEW u \in 1..n, NEW i \in DOMAIN rows'[u]
        PROVE  place'[rows'[u][i]] = [table |-> u, row |-> i]
    <3>1. CASE u = src
      <4>1. i \in 1..(len - 1) /\ rows'[u][i] = IF i = r THEN last ELSE rows[src][i]
        <5>1. rows'[u] = left /\ i \in 1..(len - 1)
          BY <1>6, <1>9, <3>1
        <5>2. QED
          BY <1>2, <1>6, <5>1
      <4>2. CASE i = r
        BY <1>2, <1>10, <1>11, <3>1, <4>1, <4>2
      <4>3. CASE i # r
        <5>1. i \in DOMAIN rows[src] /\ rows[src][i] \in Entities
          BY <1>1, <1>2, <4>1
        <5>2. place[rows[src][i]] = [table |-> src, row |-> i]
          BY <1>1, <1>2, <2>1, <5>1 DEF Agree
        <5>3. rows[src][i] # e /\ rows[src][i] # last
          BY <1>2, <1>10, <4>1, <4>3, <5>2
        <5>4. QED
          BY <1>11, <3>1, <4>1, <4>3, <5>1, <5>2, <5>3
      <4>4. QED
        BY <4>2, <4>3
    <3>2. CASE u = t
      <4>1. i \in 1..(Len(into[t]) + 1)
            /\ rows'[u][i] = IF i = Len(into[t]) + 1 THEN e ELSE into[t][i]
        <5>1. rows'[u] = rows'[t] /\ i \in DOMAIN rows'[t]
          BY <3>2
        <5>2. i \in 1..(Len(into[t]) + 1)
          BY <1>9, <5>1
        <5>3. CASE i = Len(into[t]) + 1
          BY <1>9, <5>1, <5>2, <5>3
        <5>4. CASE i # Len(into[t]) + 1
          <6>1. i \in 1..Len(into[t])
            BY <1>8, <5>2, <5>4
          <6>2. rows'[t][i] = into[t][i]
            BY <1>9, <6>1
          <6>3. QED
            BY <5>1, <5>2, <5>4, <6>2
        <5>5. QED
          BY <5>3, <5>4
      <4>2. CASE i = Len(into[t]) + 1
        BY <1>11, <3>2, <4>1, <4>2
      <4>3. CASE i # Len(into[t]) + 1
        <5>1. t \in Tables /\ into[t] = rows[t] /\ i \in DOMAIN rows[t] /\ rows[t][i] \in Entities
          BY <1>1, <1>3, <1>5, <1>8, <4>1, <4>3
        <5>2. place[rows[t][i]] = [table |-> t, row |-> i]
          BY <1>1, <2>1, <5>1 DEF Agree
        <5>3. rows[t][i] # e /\ rows[t][i] # last
          BY <1>2, <1>10, <5>2
        <5>4. QED
          BY <1>11, <3>2, <4>1, <4>3, <5>1, <5>2, <5>3
      <4>4. QED
        BY <4>2, <4>3
    <3>3. CASE u # src /\ u # t
      <4>1. u \in Tables /\ rows'[u] = rows[u]
        <5>1. u \in Tables
          BY <1>1, <3>3
        <5>2. QED
          BY <1>9, <3>3, <5>1
      <4>2. i \in DOMAIN rows[u] /\ rows[u][i] \in Entities
        BY <1>1, <4>1
      <4>3. place[rows[u][i]] = [table |-> u, row |-> i]
        BY <1>1, <2>1, <4>1, <4>2 DEF Agree
      <4>4. rows[u][i] # e /\ rows[u][i] # last
        BY <1>2, <1>10, <3>3, <4>3
      <4>5. QED
        BY <1>11, <4>1, <4>2, <4>3, <4>4
    <3>4. QED
      BY <3>1, <3>2, <3>3
  <2>4. QED
    BY <2>2, <2>3 DEF Agree
<1>14. QED
  BY <1>9, <1>11, <1>12, <1>13 DEF last

(* A new entity takes the row behind the last of the table of the empty type. *)
LEMMA Placed ==
  ASSUME Typed, RecordsAgree, NEW e \in Entities, New(e)
  PROVE  LET n == Len(types) IN
         /\ rows' \in Seq(Seq(Entities)) /\ Len(rows') = n
         /\ place' \in [Entities -> Places(n)]
         /\ place'[e].table = Root
         /\ \A x \in Entities \ {e} : place'[x] = place[x]
         /\ Agree(n, rows', place')
<1> DEFINE n == Len(types)
           len == Len(rows[Root])
<1>1. Tables = 1..n /\ n \in Nat \ {0} /\ rows \in Seq(Seq(Entities)) /\ Root \in Tables
      /\ Len(rows) = n /\ DOMAIN rows = Tables /\ len \in Nat /\ rows[Root] \in Seq(Entities)
      /\ Root # None
  BY TypedFacts DEF Typed, TypeOK, Lists
<1>2. place \in [Entities -> Places(n)] /\ place[e].table = None
  BY <1>1 DEF New, Nowhere, Typed, TypeOK, Places
<1>3. rows' = [rows EXCEPT ![Root] = Append(@, e)]
      /\ place' = [place EXCEPT ![e] = [table |-> Root, row |-> len + 1]]
  BY DEF New
<1>4. /\ rows' \in Seq(Seq(Entities)) /\ Len(rows') = n
      /\ rows'[Root] = Append(rows[Root], e)
      /\ \A u \in Tables \ {Root} : rows'[u] = rows[u]
  <2>1. Append(rows[Root], e) \in Seq(Entities)
    BY <1>1
  <2>2. QED
    BY <1>1, <1>3, <2>1
<1>5. /\ DOMAIN rows'[Root] = 1..(len + 1) /\ rows'[Root][len + 1] = e
      /\ \A i \in 1..len : rows'[Root][i] = rows[Root][i]
  BY <1>1, <1>4, AppendProperties
<1>6. place' \in [Entities -> Places(n)] /\ place'[e] = [table |-> Root, row |-> len + 1]
      /\ \A x \in Entities \ {e} : place'[x] = place[x]
  BY <1>1, <1>2, <1>3 DEF Places
<1>7. Agree(n, rows, place)
  BY AgreeIs
<1> HIDE DEF len
<1>8. Agree(n, rows', place')
  <2>1. ASSUME NEW x \in Entities, place'[x].table # None
        PROVE  place'[x].row \in DOMAIN rows'[place'[x].table]
               /\ rows'[place'[x].table][place'[x].row] = x
    <3>1. CASE x = e
      <4>1. len + 1 \in 1..(len + 1)
        BY <1>1
      <4>2. QED
        BY <1>5, <1>6, <3>1, <4>1
    <3>2. CASE x # e
      <4>1. place'[x] = place[x] /\ place[x].table \in Tables
        BY <1>1, <1>2, <1>6, <2>1, <3>2 DEF Places
      <4>2. place[x].row \in DOMAIN rows[place[x].table] /\ rows[place[x].table][place[x].row] = x
        BY <1>7, <2>1, <4>1 DEF Agree
      <4>3. CASE place[x].table = Root
        <5>1. place[x].row \in 1..len
          BY <1>1, <4>2, <4>3 DEF len
        <5>2. place[x].row \in DOMAIN rows'[Root] /\ rows'[Root][place[x].row] = x
          BY <1>1, <1>5, <4>2, <4>3, <5>1
        <5>3. QED
          BY <4>1, <4>3, <5>2
      <4>4. CASE place[x].table # Root
        BY <1>4, <4>1, <4>2, <4>4
      <4>5. QED
        BY <4>3, <4>4
    <3>3. QED
      BY <3>1, <3>2
  <2>2. ASSUME NEW u \in 1..n, NEW i \in DOMAIN rows'[u]
        PROVE  place'[rows'[u][i]] = [table |-> u, row |-> i]
    <3>1. CASE u = Root /\ i = len + 1
      BY <1>5, <1>6, <3>1
    <3>2. CASE u = Root /\ i # len + 1
      <4>1. i \in DOMAIN rows[u] /\ rows[u][i] \in Entities /\ rows'[u][i] = rows[u][i]
        <5> HIDE DEF n
        <5>1. i \in 1..len
          <6>1. i \in 1..(len + 1)
            BY <1>5, <3>2
          <6>2. QED
            BY <1>1, <3>2, <6>1
        <5>2. DOMAIN rows[Root] = 1..len /\ rows[Root][i] \in Entities
          BY <1>1, <5>1 DEF len
        <5>3. QED
          BY <1>5, <3>2, <5>1, <5>2
      <4>2. place[rows[u][i]] = [table |-> u, row |-> i]
        BY <1>7, <4>1 DEF Agree
      <4>3. rows[u][i] # e
        BY <1>1, <1>2, <3>2, <4>2
      <4>4. QED
        BY <1>6, <4>1, <4>2, <4>3
    <3>3. CASE u # Root
      <4>1. rows'[u] = rows[u] /\ i \in DOMAIN rows[u] /\ rows[u][i] \in Entities
        BY <1>1, <1>4, <3>3
      <4>2. place[rows[u][i]] = [table |-> u, row |-> i]
        BY <1>7, <4>1 DEF Agree
      <4>3. rows[u][i] # e
        BY <1>1, <1>2, <4>2 DEF None
      <4>4. QED
        BY <1>6, <4>1, <4>2, <4>3
    <3>4. QED
      BY <3>1, <3>2, <3>3
  <2>3. QED
    BY <2>1, <2>2 DEF Agree
<1>9. QED
  BY <1>4, <1>6, <1>8

(* A killed entity leaves its row to the entity last in its table.           *)
LEMMA Removed ==
  ASSUME Typed, RecordsAgree, NEW e \in Entities, Kill(e)
  PROVE  LET n == Len(types)
             last == Last(rows[place[e].table])
         IN  /\ rows' \in Seq(Seq(Entities)) /\ Len(rows') = n
             /\ place' \in [Entities -> Places(n)]
             /\ place'[e] = Nowhere
             /\ last # e => place'[last] = place[e]
             /\ \A x \in Entities \ {e, last} : place'[x] = place[x]
             /\ Agree(n, rows', place')
<1> DEFINE n == Len(types)
           src == place[e].table
           r == place[e].row
           last == Last(rows[src])
           len == Len(rows[src])
           left == RowsWithout(src, r)
<1>1. Tables = 1..n /\ n \in Nat \ {0} /\ rows \in Seq(Seq(Entities))
      /\ Len(rows) = n /\ DOMAIN rows = Tables
  BY TypedFacts DEF Typed, TypeOK, Lists
<1>2. src \in Tables /\ r \in 1..len /\ rows[src][r] = e /\ last = rows[src][len]
      /\ place[last] = [table |-> src, row |-> len] /\ (last = e <=> r = len)
      /\ last \in Entities /\ len \in Nat /\ DOMAIN rows[src] = 1..len
  <2>1. e \in Living
    BY DEF Kill
  <2>2. QED
    BY <2>1, RowOf, TypedFacts DEF Living
<1>3. left \in Seq(Entities) /\ Len(left) = len - 1 /\ DOMAIN left = 1..(len - 1)
      /\ \A i \in 1..(len - 1) : left[i] = IF i = r THEN last ELSE rows[src][i]
  <2>1. left \in Seq(Entities) /\ Len(left) = len - 1
        /\ \A i \in 1..(len - 1) : left[i] = IF i = r THEN last ELSE rows[src][i]
    BY <1>2, RowsLess
  <2>2. QED
    BY <1>2, <2>1
<1>4. rows' = [rows EXCEPT ![src] = left]
      /\ place' = [place EXCEPT ![last].row = r, ![e] = Nowhere]
  BY DEF Kill
<1> HIDE DEF left, last
<1>5. rows' \in Seq(Seq(Entities)) /\ Len(rows') = n /\ rows'[src] = left
      /\ \A u \in Tables \ {src} : rows'[u] = rows[u]
  BY <1>1, <1>2, <1>3, <1>4
<1>6. place \in [Entities -> Places(n)] /\ place[e] = [table |-> src, row |-> r]
  BY <1>1, <1>2 DEF Typed, TypeOK, Places
<1>7. /\ place' \in [Entities -> Places(n)] /\ place'[e] = Nowhere
      /\ last # e => place'[last] = place[e]
      /\ \A x \in Entities \ {e, last} : place'[x] = place[x]
  <2> DEFINE half == [place EXCEPT ![last].row = r]
  <2>1. half \in [Entities -> Places(n)]
        /\ half[last] = [table |-> src, row |-> r]
        /\ \A x \in Entities \ {last} : half[x] = place[x]
    BY <1>1, <1>2, <1>6 DEF Places
  <2>2. place' = [half EXCEPT ![e] = Nowhere] /\ Nowhere \in Places(n)
    BY <1>4 DEF Nowhere, Places, None
  <2> HIDE DEF half
  <2>3. QED
    BY <1>2, <1>6, <2>1, <2>2
<1>8. Agree(n, rows, place)
  BY AgreeIs
<1>9. Agree(n, rows', place')
  <2>1. ASSUME NEW x \in Entities, place'[x].table # None
        PROVE  place'[x].row \in DOMAIN rows'[place'[x].table]
               /\ rows'[place'[x].table][place'[x].row] = x
    <3>1. x # e
      BY <1>7, <2>1 DEF Nowhere
    <3>2. CASE x = last
      <4>1. r \in 1..(len - 1)
        BY <1>2, <3>1, <3>2
      <4>2. r \in DOMAIN left /\ left[r] = last
        BY <1>3, <4>1
      <4>3. place'[x] = [table |-> src, row |-> r]
        BY <1>6, <1>7, <3>1, <3>2
      <4>4. QED
        BY <1>5, <3>2, <4>2, <4>3
    <3>3. CASE x # last
      <4> DEFINE u == place[x].table
                 i == place[x].row
      <4>1. place'[x] = place[x] /\ u \in Tables
        BY <1>1, <1>6, <1>7, <2>1, <3>1, <3>3 DEF Places
      <4>2. i \in DOMAIN rows[u] /\ rows[u][i] = x
        BY <1>8, <2>1, <4>1 DEF Agree
      <4>3. CASE u = src
        <5>1. i \in 1..len /\ i # r /\ i # len
          BY <1>2, <3>1, <3>3, <4>2, <4>3
        <5>2. i \in 1..(len - 1)
          BY <1>2, <5>1
        <5>3. i \in DOMAIN left /\ left[i] = rows[src][i]
          BY <1>3, <5>1, <5>2
        <5>4. left[i] = x /\ rows'[src] = left
          BY <1>5, <4>2, <4>3, <5>3
        <5>5. QED
          BY <4>1, <4>3, <5>3, <5>4
      <4>4. CASE u # src
        BY <1>5, <4>1, <4>2, <4>4
      <4>5. QED
        BY <4>3, <4>4
    <3>4. QED
      BY <3>2, <3>3
  <2>2. ASSUME NEW u \in 1..n, NEW i \in DOMAIN rows'[u]
        PROVE  place'[rows'[u][i]] = [table |-> u, row |-> i]
    <3>1. CASE u = src
      <4>1. i \in 1..(len - 1) /\ rows'[u][i] = IF i = r THEN last ELSE rows[src][i]
        <5>1. rows'[u] = left /\ i \in 1..(len - 1)
          BY <1>3, <1>5, <3>1
        <5>2. QED
          BY <1>3, <5>1
      <4>2. CASE i = r
        <5>1. last # e /\ rows'[u][i] = last
          BY <1>2, <4>1, <4>2
        <5>2. QED
          BY <1>6, <1>7, <3>1, <4>2, <5>1
      <4>3. CASE i # r
        <5>1. i \in DOMAIN rows[src] /\ rows[src][i] \in Entities
          <6>1. rows[src] \in Seq(Entities)
            BY <1>1, <1>2
          <6>2. i \in 1..len
            BY <1>2, <4>1
          <6>3. QED
            BY <6>1, <6>2
        <5>2. place[rows[src][i]] = [table |-> src, row |-> i]
          BY <1>1, <1>2, <1>8, <5>1 DEF Agree
        <5>3. rows[src][i] # e /\ rows[src][i] # last
          BY <1>2, <1>6, <4>1, <4>3, <5>2
        <5>4. QED
          BY <1>7, <3>1, <4>1, <4>3, <5>1, <5>2, <5>3
      <4>4. QED
        BY <4>2, <4>3
    <3>2. CASE u # src
      <4>1. rows'[u] = rows[u] /\ i \in DOMAIN rows[u] /\ rows[u][i] \in Entities
        <5>1. rows'[u] = rows[u]
          BY <1>1, <1>5, <3>2
        <5>2. QED
          BY <1>1, <5>1
      <4>2. place[rows[u][i]] = [table |-> u, row |-> i]
        BY <1>8, <4>1 DEF Agree
      <4>3. rows[u][i] # e /\ rows[u][i] # last
        BY <1>2, <1>6, <3>2, <4>2
      <4>4. QED
        BY <1>7, <4>1, <4>2, <4>3
    <3>3. QED
      BY <3>1, <3>2
  <2>3. QED
    BY <2>1, <2>2 DEF Agree
<1>10. QED
  BY <1>5, <1>7, <1>9 DEF last

-----------------------------------------------------------------------------
(* Every step keeps the types, and rows and records in agreement.            *)
LEMMA TypedThen ==
  ASSUME NEW n \in Nat \ {0}, types' \in Seq(TypeSet), Len(types') = n,
         rows' \in Seq(Seq(Entities)), Len(rows') = n, capacity' \in Seq(Nat), Len(capacity') = n,
         place' \in [Entities -> Places(n)], Agree(n, rows', place'),
         dead' \subseteq Entities \ {x \in Entities : place'[x].table # None},
         having' \in [Comps -> Seq(1..n)], changed' \subseteq 1..n, queries' \in Seq(Range(queries')),
         active' \in Seq(DOMAIN queries'), free' \in Seq(DOMAIN queries')
  PROVE  Typed' /\ RecordsAgree'
<1>1. Tables' = 1..n
  BY DEF Tables
<1>2. RecordsAgree'
  BY AgreeIsThen
<1>3. TypeOK'
  BY <1>1 DEF TypeOK, TypeSet, Places, Living
<1>4. Lists'
  BY DEF Lists
<1>5. QED
  BY <1>2, <1>3, <1>4 DEF Typed

(* What a step that changes the type of e, or gives it its first, leaves as   *)
(* it was.                                                                   *)
OthersStay(e) ==
  /\ \A t \in Tables : t \in Tables' /\ types'[t] = types[t]
  /\ \A x \in Entities \ {e} : TypeOf(x)' = TypeOf(x) /\ place'[x].table = place[x].table

(* A type stays when neither the table of an entity nor its type changes.    *)
LEMMA OthersStayIf ==
  ASSUME Typed, NEW e, \A t \in Tables : t \in Tables' /\ types'[t] = types[t],
         \A x \in Entities \ {e} : place'[x].table = place[x].table
  PROVE  OthersStay(e)
<1>1. ASSUME NEW x \in Entities \ {e} PROVE TypeOf(x)' = TypeOf(x)
  <2>1. x \in Living' <=> x \in Living
    BY DEF Living
  <2>2. x \in Living => place[x].table \in Tables
    BY TypedFacts
  <2>3. QED
    BY <2>1, <2>2 DEF TypeOf
<1>2. QED
  BY <1>1 DEF OthersStay

(* ecs_migrate to a table that exists or to a new one                        *)
LEMMA ChangeTypeTyped ==
  ASSUME Typed, RecordsAgree, NEW e \in Living, NEW type \in TypeSet, ChangeType(e, type)
  PROVE  LET last == Last(rows[place[e].table]) IN
         /\ Typed' /\ RecordsAgree' /\ OthersStay(e)
         /\ e \in Living' /\ TypeOf(e)' = type
         /\ last # e => place'[last] = place[e]
         /\ \A x \in Entities \ {e, last} : place'[x] = place[x]
<1> DEFINE last == Last(rows[place[e].table])
<1>1. UNCHANGED <<dead, active, free>>
  BY DEF ChangeType
<1>2. active \in Seq(DOMAIN queries) /\ free \in Seq(DOMAIN queries)
      /\ types \in Seq(TypeSet) /\ having \in [Comps -> Seq(Tables)]
      /\ dead \subseteq Entities \ {x \in Entities : place[x].table # None}
      /\ changed \subseteq Tables /\ changed' \subseteq changed \cup DOMAIN types'
  BY DEF Typed, TypeOK, TypeSet, Living, ChangeType, Behind
<1>3. Tables = 1..Len(types) /\ Len(types) \in Nat \ {0} /\ None \notin Tables
      /\ e \in Entities /\ last \in Entities /\ last \in Living
  BY TypedFacts, RowOf DEF Living
<1>4. ASSUME last # e => place'[last] = place[e],
             \A x \in Entities \ {e, last} : place'[x] = place[x]
      PROVE  /\ \A x \in Entities \ {e} : place'[x].table = place[x].table
             /\ dead' \subseteq Entities \ {x \in Entities : place'[x].table # None}
  <2>1. ASSUME NEW x \in Entities \ {e} PROVE place'[x].table = place[x].table
    <3>1. CASE x = last
      <4>1. place[last].table = place[e].table
        <5>1. place[last] = [table |-> place[e].table, row |-> Len(rows[place[e].table])]
          BY RowOf
        <5>2. QED
          BY <5>1
      <4>2. QED
        BY <1>4, <3>1, <4>1
    <3>2. CASE x # last
      BY <1>4, <3>2
    <3>3. QED
      BY <3>1, <3>2
  <2>2. e \notin dead
    BY <1>2 DEF Living
  <2>3. QED
    BY <1>1, <1>2, <2>1, <2>2
<1>5. CASE \E t \in Tables : types[t] = type /\ t # place[e].table /\ GrowFor(t) /\ Migrate(e, t)
                             /\ UNCHANGED <<types, having>>
  <2>1. PICK t \in Tables : types[t] = type /\ t # place[e].table /\ GrowFor(t) /\ Migrate(e, t)
                            /\ UNCHANGED <<types, having>>
    BY <1>5
  <2> DEFINE n == Len(types)
  <2>2. /\ rows' \in Seq(Seq(Entities)) /\ Len(rows') = n
        /\ place' \in [Entities -> Places(n)] /\ place'[e].table = t
        /\ last # e => place'[last] = place[e]
        /\ \A x \in Entities \ {e, last} : place'[x] = place[x]
        /\ Agree(n, rows', place')
    BY <2>1, Moved
  <2>3. /\ capacity' \in Seq(Nat) /\ Len(capacity') = n
        /\ queries' \in Seq(Range(queries')) /\ DOMAIN queries' = DOMAIN queries
    BY <2>1, GrowTyped
  <2>4. /\ \A x \in Entities \ {e} : place'[x].table = place[x].table
        /\ dead' \subseteq Entities \ {x \in Entities : place'[x].table # None}
    BY <1>4, <2>2
  <2>5. changed' \subseteq 1..n
    BY <1>2, <1>3, <2>1 DEF Tables
  <2>6. Typed' /\ RecordsAgree'
    BY <1>1, <1>2, <1>3, <2>1, <2>2, <2>3, <2>4, <2>5, TypedThen
  <2>7. OthersStay(e)
    BY <1>3, <2>1, <2>4, OthersStayIf DEF Tables
  <2>8. e \in Living' /\ TypeOf(e)' = type
    BY <1>3, <2>1, <2>2 DEF Living, TypeOf
  <2>9. QED
    BY <2>2, <2>6, <2>7, <2>8
<1>6. CASE CreateTable(type) /\ Migrate(e, Len(types) + 1)
  <2> DEFINE n == Len(types) + 1
  <2>1. n \notin Tables /\ n # place[e].table /\ n \in Nat \ {0} /\ n \in Tables \cup {n}
    BY <1>3, TypedFacts
  <2>2. /\ rows' \in Seq(Seq(Entities)) /\ Len(rows') = n
        /\ place' \in [Entities -> Places(n)] /\ place'[e].table = n
        /\ last # e => place'[last] = place[e]
        /\ \A x \in Entities \ {e, last} : place'[x] = place[x]
        /\ Agree(n, rows', place')
    BY <1>6, <2>1, Moved
  <2>3. /\ types' \in Seq(TypeSet) /\ Len(types') = n
        /\ \A t \in Tables : types'[t] = types[t]
        /\ types'[n] = type /\ Tables' = Tables \cup {n}
        /\ capacity' \in Seq(Nat) /\ Len(capacity') = n
        /\ having' \in [Comps -> Seq(Tables')]
        /\ queries' \in Seq(Range(queries')) /\ DOMAIN queries' = DOMAIN queries
    BY <1>6, CreateTyped
  <2>4. /\ \A x \in Entities \ {e} : place'[x].table = place[x].table
        /\ dead' \subseteq Entities \ {x \in Entities : place'[x].table # None}
    BY <1>4, <2>2
  <2>5. Tables' = 1..n
    <3>1. types' \in Seq(TypeSet) /\ Len(types') = n
      BY <2>3
    <3>2. DOMAIN types' = 1..n
      BY ONLY <3>1
    <3>3. QED
      BY <3>2 DEF Tables
  <2>6. Typed' /\ RecordsAgree'
    <3>1. changed' \subseteq 1..n
      BY <1>2, <2>3, <2>5 DEF Tables
    <3> HIDE DEF n
    <3>2. QED
      BY <1>1, <1>2, <2>1, <2>2, <2>3, <2>4, <2>5, <3>1, TypedThen
  <2>7. OthersStay(e)
    BY <2>3, <2>4, OthersStayIf
  <2>8. e \in Living' /\ TypeOf(e)' = type
    BY <1>3, <2>1, <2>2, <2>3 DEF Living, TypeOf, None
  <2>9. QED
    BY <2>2, <2>6, <2>7, <2>8
<1>7. QED
  BY <1>5, <1>6 DEF ChangeType

(* ecs_new                                                                   *)
LEMMA NewTyped ==
  ASSUME Typed, RecordsAgree, NEW e \in Entities, New(e)
  PROVE  /\ Typed' /\ RecordsAgree' /\ OthersStay(e)
         /\ e \in Living' /\ e \notin Living /\ TypeOf(e)' = types[Root]
         /\ \A x \in Entities \ {e} : place'[x] = place[x]
<1> DEFINE n == Len(types)
<1>1. UNCHANGED <<types, dead, having, changed, active, free>> /\ place[e] = Nowhere /\ e \notin dead
      /\ GrowFor(Root)
  BY DEF New
<1>2. Tables = 1..n /\ n \in Nat \ {0} /\ Root \in Tables /\ None \notin Tables
  BY TypedFacts
<1>3. active \in Seq(DOMAIN queries) /\ free \in Seq(DOMAIN queries)
      /\ types \in Seq(TypeSet) /\ having \in [Comps -> Seq(Tables)]
      /\ dead \subseteq Entities \ {x \in Entities : place[x].table # None}
      /\ changed \subseteq Tables
  BY DEF Typed, TypeOK, TypeSet, Living
<1>4. /\ rows' \in Seq(Seq(Entities)) /\ Len(rows') = n
      /\ place' \in [Entities -> Places(n)] /\ place'[e].table = Root
      /\ \A x \in Entities \ {e} : place'[x] = place[x]
      /\ Agree(n, rows', place')
  BY Placed
<1>5. /\ capacity' \in Seq(Nat) /\ Len(capacity') = n
      /\ queries' \in Seq(Range(queries')) /\ DOMAIN queries' = DOMAIN queries
  BY <1>1, <1>2, GrowTyped
<1>6. dead' \subseteq Entities \ {x \in Entities : place'[x].table # None}
  BY <1>1, <1>3, <1>4
<1>7. Typed' /\ RecordsAgree'
  BY <1>1, <1>2, <1>3, <1>4, <1>5, <1>6, TypedThen
<1>8. OthersStay(e)
  BY <1>1, <1>4, OthersStayIf DEF Tables
<1>9. e \in Living' /\ e \notin Living /\ TypeOf(e)' = types[Root]
  BY <1>1, <1>2, <1>4 DEF Living, TypeOf, Nowhere
<1>10. QED
  BY <1>4, <1>7, <1>8, <1>9

(* ecs_kill_now                                                              *)
LEMMA KillTyped ==
  ASSUME Typed, RecordsAgree, NEW e \in Entities, Kill(e)
  PROVE  LET last == Last(rows[place[e].table]) IN
         /\ Typed' /\ RecordsAgree' /\ OthersStay(e)
         /\ last # e => place'[last] = place[e]
         /\ \A x \in Entities \ {e, last} : place'[x] = place[x]
<1> DEFINE n == Len(types)
           last == Last(rows[place[e].table])
<1>1. UNCHANGED <<types, capacity, having, queries, active, free>> /\ dead' = dead \cup {e}
      /\ e \in Living
  BY DEF Kill
<1>2. Tables = 1..n /\ n \in Nat \ {0}
  BY TypedFacts
<1>3. active \in Seq(DOMAIN queries) /\ free \in Seq(DOMAIN queries)
      /\ types \in Seq(TypeSet) /\ having \in [Comps -> Seq(Tables)]
      /\ capacity \in Seq(Nat) /\ Len(capacity) = n /\ queries \in Seq(Range(queries))
      /\ dead \subseteq Entities \ {x \in Entities : place[x].table # None}
      /\ changed' \subseteq 1..n
  BY <1>2 DEF Typed, TypeOK, Lists, TypeSet, Living, Kill, Behind, Tables
<1>4. /\ rows' \in Seq(Seq(Entities)) /\ Len(rows') = n
      /\ place' \in [Entities -> Places(n)] /\ place'[e] = Nowhere
      /\ last # e => place'[last] = place[e]
      /\ \A x \in Entities \ {e, last} : place'[x] = place[x]
      /\ Agree(n, rows', place')
  BY Removed
<1>5. place[last].table = place[e].table /\ last \in Entities
  <2>1. place[last] = [table |-> place[e].table, row |-> Len(rows[place[e].table])]
        /\ last \in Living
    BY <1>1, RowOf
  <2>2. QED
    BY <2>1 DEF Living
<1>6. ASSUME NEW x \in Entities \ {e} PROVE place'[x].table = place[x].table
  <2>1. CASE x = last
    BY <1>4, <1>5, <2>1
  <2>2. CASE x # last
    BY <1>4, <2>2
  <2>3. QED
    BY <2>1, <2>2
<1>7. dead' \subseteq Entities \ {x \in Entities : place'[x].table # None}
  <2>1. place'[e].table = None
    BY <1>4 DEF Nowhere
  <2>2. QED
    BY <1>1, <1>3, <1>6, <2>1
<1>8. Typed' /\ RecordsAgree'
  BY <1>1, <1>2, <1>3, <1>4, <1>7, TypedThen
<1>9. OthersStay(e)
  BY <1>1, <1>6, OthersStayIf DEF Tables
<1>10. QED
  BY <1>4, <1>8, <1>9

(* A step of queries alone *)
LEMMA QueriesTyped ==
  ASSUME Typed, RecordsAgree, UNCHANGED tableVars, queries' \in Seq(Range(queries')),
         active' \in Seq(DOMAIN queries'), free' \in Seq(DOMAIN queries')
  PROVE  Typed' /\ RecordsAgree'
<1>1. TypeOK'
  BY DEF Typed, TypeOK, tableVars, Tables, Living
<1>2. Lists'
  BY DEF Typed, Lists, tableVars
<1>3. RecordsAgree'
  BY DEF RecordsAgree, tableVars, Tables, Living
<1>4. QED
  BY <1>1, <1>2, <1>3 DEF Typed

(* A query made in a new slot, or in the one freed last                      *)
LEMMA CreateQueryTyped ==
  ASSUME Typed, RecordsAgree, NEW shape, CreateQuery(shape)
  PROVE  Typed' /\ RecordsAgree'
<1> DEFINE query == [alive |-> TRUE, shape |-> shape, cache |-> Filled(shape)]
           s == IF free = <<>> THEN Len(queries) + 1 ELSE Head(free)
           V == Range(queries) \cup {query}
<1>1. queries' = (IF free = <<>> THEN Append(queries, query) ELSE [queries EXCEPT ![s] = query])
      /\ free' = (IF free = <<>> THEN free ELSE Tail(free)) /\ active' = Append(active, s)
      /\ UNCHANGED tableVars
  BY DEF CreateQuery, QueryInit
<1> HIDE DEF query
<1>2. queries \in Seq(V) /\ DOMAIN queries = 1..Len(queries) /\ Len(queries) \in Nat
      /\ active \in Seq(DOMAIN queries) /\ free \in Seq(DOMAIN queries)
  <2>1. queries \in Seq(Range(queries)) /\ Range(queries) \subseteq V
    BY DEF Typed, Lists
  <2>2. queries \in Seq(V)
    BY <2>1, SeqMonotonic
  <2>3. QED
    BY <2>2, TypedFacts DEF Typed, TypeOK
<1> HIDE DEF V
<1>3. query \in V
  BY DEF V
<1>4. CASE free = <<>>
  <2>1. queries' \in Seq(V) /\ Len(queries') = Len(queries) + 1 /\ s = Len(queries) + 1
    BY <1>1, <1>2, <1>3, <1>4
  <2>2. queries' \in Seq(Range(queries')) /\ DOMAIN queries' = 1..(Len(queries) + 1)
    BY <2>1, SeqOfRange
  <2>3. active \in Seq(DOMAIN queries') /\ free' \in Seq(DOMAIN queries')
    <3>1. DOMAIN queries \subseteq DOMAIN queries'
      BY <1>2, <2>2
    <3>2. active \in Seq(DOMAIN queries') /\ free \in Seq(DOMAIN queries')
      BY <1>2, <3>1, SeqMonotonic
    <3>3. QED
      BY <1>1, <1>4, <3>2
  <2>4. s \in DOMAIN queries'
    BY <1>2, <2>1, <2>2
  <2>5. active' \in Seq(DOMAIN queries')
    BY <1>1, <2>3, <2>4, AppendProperties
  <2>6. QED
    BY <1>1, <2>2, <2>3, <2>5, QueriesTyped
<1>5. CASE free # <<>>
  <2>1. s = Head(free) /\ s \in DOMAIN queries /\ Tail(free) \in Seq(DOMAIN queries)
    BY <1>2, <1>5
  <2> HIDE DEF s
  <2>2. queries' = [queries EXCEPT ![s] = query] /\ queries' \in Seq(V)
        /\ DOMAIN queries' = DOMAIN queries
    BY <1>1, <1>2, <1>3, <1>5, <2>1
  <2>3. queries' \in Seq(Range(queries'))
    BY <2>2, SeqOfRange
  <2>4. active' \in Seq(DOMAIN queries') /\ free' \in Seq(DOMAIN queries')
    BY <1>1, <1>2, <1>5, <2>1, <2>2, AppendProperties
  <2>5. QED
    BY <1>1, <2>3, <2>4, QueriesTyped
<1>6. QED
  BY <1>4, <1>5

(* A query destroyed                                                         *)
LEMMA FiniQueryTyped ==
  ASSUME Typed, RecordsAgree, NEW s, FiniQuery(s)
  PROVE  Typed' /\ RecordsAgree'
<1> DEFINE V == Range(queries) \cup {Gone}
           D == DOMAIN queries
           n == Len(active)
           seq == [i \in DOMAIN active |-> IF active[i] = s THEN Last(active) ELSE active[i]]
<1>1. active' = Front(seq) /\ queries' = [queries EXCEPT ![s] = Gone] /\ free' = <<s>> \o free
      /\ UNCHANGED tableVars /\ s \in Range(active)
  BY DEF FiniQuery, QueryFini
<1>2. queries \in Seq(V) /\ active \in Seq(D) /\ free \in Seq(D) /\ n \in Nat
  <2>1. queries \in Seq(Range(queries)) /\ Range(queries) \subseteq V
    BY DEF Typed, Lists
  <2>2. queries \in Seq(V)
    BY <2>1, SeqMonotonic
  <2>3. QED
    BY <2>2 DEF Typed, TypeOK
<1>3. s \in D /\ n > 0 /\ DOMAIN active = 1..n
  BY <1>1, <1>2 DEF Range
<1>4. queries' \in Seq(V) /\ DOMAIN queries' = D
  <2>1. Gone \in V
    OBVIOUS
  <2> HIDE DEF V
  <2>2. QED
    BY <1>1, <1>2, <1>3, <2>1
<1>5. queries' \in Seq(Range(queries'))
  BY <1>4, SeqOfRange
<1>6. free' \in Seq(D)
  BY <1>1, <1>2, <1>3
<1>7. active' \in Seq(D)
  <2>1. Last(active) \in D
    BY <1>2, <1>3 DEF Last
  <2>2. seq \in Seq(D) /\ Len(seq) = n
    BY <1>2, <1>3, <2>1
  <2>3. Front(seq) = SubSeq(seq, 1, n - 1)
    BY <2>2 DEF Front
  <2> HIDE DEF seq
  <2>4. \A i \in 1..(n - 1) : seq[i] \in D
    BY <1>2, <2>2
  <2>5. SubSeq(seq, 1, n - 1) \in Seq(D)
    BY <1>2, <2>4, SubSeqProperties
  <2>6. QED
    BY <1>1, <1>4, <2>3, <2>5
<1>8. QED
  BY <1>1, <1>4, <1>5, <1>6, <1>7, QueriesTyped

(* What the operations on an entity ask and do                               *)
LEMMA OperationTypes ==
  ASSUME Typed, NEW e \in Entities
  PROVE  /\ \A c \in Comps \cup {Abstract} : AddComp(e, c) =>
              e \in Living /\ \E type \in TypeSet :
                /\ TypeOf(e).comps \subseteq type.comps /\ type.base = TypeOf(e).base
                /\ Abstract \notin TypeOf(e).comps /\ ChangeType(e, type)
         /\ \A c \in Comps : RemoveComp(e, c) =>
              e \in Living /\ \E type \in TypeSet :
                /\ Abstract \in TypeOf(e).comps => Abstract \in type.comps
                /\ type.base = TypeOf(e).base /\ MayChange(e) /\ ChangeType(e, type)
         /\ \A b \in Entities : IsA(e, b) =>
              {e, b} \subseteq Living /\ \E type \in TypeSet :
                /\ TypeOf(e).comps \subseteq type.comps /\ type.base = b /\ e \notin Lineage(b)
                /\ Abstract \in TypeOf(b).comps /\ MayChange(e) /\ ChangeType(e, type)
         /\ IsNot(e) => e \in Living /\ \E type \in TypeSet :
                /\ Abstract \in TypeOf(e).comps => Abstract \in type.comps
                /\ type.base = None /\ MayChange(e) /\ ChangeType(e, type)
<1>1. ASSUME NEW c \in Comps \cup {Abstract}, AddComp(e, c)
      PROVE  e \in Living /\ \E type \in TypeSet :
                /\ TypeOf(e).comps \subseteq type.comps /\ type.base = TypeOf(e).base
                /\ Abstract \notin TypeOf(e).comps /\ ChangeType(e, type)
  <2> DEFINE type == [TypeOf(e) EXCEPT !.comps = @ \cup {c} \cup Requires[c]]
  <2>1. e \in Living /\ Abstract \notin TypeOf(e).comps /\ ChangeType(e, type)
    BY <1>1 DEF AddComp
  <2>2. type \in TypeSet /\ TypeOf(e) \in TypeSet
    BY <2>1, NewTypes, TypedFacts
  <2>3. TypeOf(e).comps \subseteq type.comps /\ type.base = TypeOf(e).base
    BY <2>2 DEF TypeSet
  <2>4. QED
    BY <2>1, <2>2, <2>3
<1>2. ASSUME NEW c \in Comps, RemoveComp(e, c)
      PROVE  e \in Living /\ \E type \in TypeSet :
                /\ Abstract \in TypeOf(e).comps => Abstract \in type.comps
                /\ type.base = TypeOf(e).base /\ MayChange(e) /\ ChangeType(e, type)
  <2> DEFINE type == [TypeOf(e) EXCEPT !.comps = @ \ {c}]
  <2>1. e \in Living /\ MayChange(e) /\ ChangeType(e, type)
    BY <1>2 DEF RemoveComp
  <2>2. type \in TypeSet /\ TypeOf(e) \in TypeSet
    BY <2>1, NewTypes, TypedFacts
  <2>3. type.base = TypeOf(e).base /\ (Abstract \in TypeOf(e).comps => Abstract \in type.comps)
    BY <2>2, ComponentsNamed DEF TypeSet
  <2>4. QED
    BY <2>1, <2>2, <2>3
<1>3. ASSUME NEW b \in Entities, IsA(e, b)
      PROVE  {e, b} \subseteq Living /\ \E type \in TypeSet :
                /\ TypeOf(e).comps \subseteq type.comps /\ type.base = b /\ e \notin Lineage(b)
                /\ Abstract \in TypeOf(b).comps /\ MayChange(e) /\ ChangeType(e, type)
  <2> DEFINE type == [comps |-> TypeOf(e).comps \cup CopiesFrom(TypeOf(e).comps, b), base |-> b]
  <2>1. {e, b} \subseteq Living /\ Abstract \in TypeOf(b).comps /\ MayChange(e)
        /\ e \notin Lineage(b) /\ ChangeType(e, type)
    BY <1>3 DEF IsA
  <2>2. type \in TypeSet
    BY <2>1, NewTypes
  <2>3. QED
    BY <2>1, <2>2
<1>4. ASSUME IsNot(e)
      PROVE  e \in Living /\ \E type \in TypeSet :
                /\ Abstract \in TypeOf(e).comps => Abstract \in type.comps
                /\ type.base = None /\ MayChange(e) /\ ChangeType(e, type)
  <2> DEFINE type == [TypeOf(e) EXCEPT !.base = None]
  <2>1. e \in Living /\ MayChange(e) /\ ChangeType(e, type)
    BY <1>4 DEF IsNot
  <2>2. type \in TypeSet /\ TypeOf(e) \in TypeSet
    BY <2>1, NewTypes, TypedFacts
  <2>3. type.base = None /\ (Abstract \in TypeOf(e).comps => Abstract \in type.comps)
    BY <2>2 DEF TypeSet
  <2>4. QED
    BY <2>1, <2>2, <2>3
<1>5. QED
  BY <1>1, <1>2, <1>3, <1>4

(* At the start the variables have their types, and nothing lives.           *)
LEMMA TypedInit == Init => Typed /\ RecordsAgree
<1> SUFFICES ASSUME Init PROVE Typed /\ RecordsAgree
  OBVIOUS
<1>1. types \in Seq(TypeSet) /\ Len(types) = 1 /\ Tables = {1}
  BY DEF Init, TypeSet, Tables
<1>2. rows \in Seq(Seq(Entities)) /\ Len(rows) = 1 /\ rows[1] = <<>>
      /\ capacity \in Seq(Nat) /\ Len(capacity) = 1
  BY DEF Init
<1>3. place \in [Entities -> Places(1)] /\ Living = {} /\ dead = {} /\ changed = {}
  BY DEF Init, Places, Nowhere, None, Living
<1>4. having \in [Comps -> Seq(Tables)] /\ queries \in Seq(Range(queries))
      /\ active \in Seq(DOMAIN queries) /\ free \in Seq(DOMAIN queries)
  BY DEF Init
<1>5. TypeOK
  BY <1>1, <1>2, <1>3, <1>4 DEF TypeOK, TypeSet, Places
<1>6. Lists
  BY <1>1, <1>2, <1>4 DEF Lists
<1>7. RecordsAgree
  BY <1>1, <1>2, <1>3 DEF RecordsAgree
<1>8. QED
  BY <1>5, <1>6, <1>7 DEF Typed

(* Every step keeps the types and the agreement of rows and records.         *)
LEMMA TypedStep == Typed /\ RecordsAgree /\ [Next]_vars => Typed' /\ RecordsAgree'
<1> SUFFICES ASSUME Typed, RecordsAgree, [Next]_vars PROVE Typed' /\ RecordsAgree'
  OBVIOUS
<1>1. ASSUME NEW e \in Entities, New(e) PROVE Typed' /\ RecordsAgree'
  BY <1>1, NewTyped
<1>2. ASSUME NEW e \in Entities, Kill(e) PROVE Typed' /\ RecordsAgree'
  BY <1>2, KillTyped
<1>3. ASSUME NEW e \in Living, NEW type \in TypeSet, ChangeType(e, type) PROVE Typed' /\ RecordsAgree'
  BY <1>3, ChangeTypeTyped
<1>4. ASSUME NEW e \in Entities,
             \/ IsNot(e) \/ AddComp(e, Abstract)
             \/ \E c \in Comps : AddComp(e, c) \/ RemoveComp(e, c)
             \/ \E b \in Entities : IsA(e, b)
      PROVE Typed' /\ RecordsAgree'
  <2>1. e \in Living /\ \E type \in TypeSet : ChangeType(e, type)
    BY <1>4, OperationTypes
  <2>2. QED
    BY <1>3, <2>1
<1>5. ASSUME NEW shape \in Shapes, CreateQuery(shape) PROVE Typed' /\ RecordsAgree'
  BY <1>5, CreateQueryTyped
<1>6. ASSUME NEW s \in DOMAIN queries, FiniQuery(s) PROVE Typed' /\ RecordsAgree'
  BY <1>6, FiniQueryTyped
<1>7. CASE UNCHANGED vars
  <2>1. UNCHANGED tableVars /\ UNCHANGED <<queries, active, free>>
    BY <1>7 DEF vars, tableVars
  <2>2. queries \in Seq(Range(queries)) /\ active \in Seq(DOMAIN queries) /\ free \in Seq(DOMAIN queries)
    BY DEF Typed, TypeOK, Lists
  <2>3. QED
    BY <2>1, <2>2, QueriesTyped
<1>8. QED
  BY <1>1, <1>2, <1>4, <1>5, <1>6, <1>7 DEF Next

(* The variables have their types: tables, rows, records, lists of tables and *)
(* slots of queries.                                                         *)
THEOREM TypeCorrect == Spec => []TypeOK
<1>1. Typed => TypeOK
  BY DEF Typed
<1>2. QED
  BY <1>1, TypedInit, TypedStep, PTL DEF Spec

(* Each living entity is in the row its record names, and in no other row:   *)
(* whatever entities migrate, die and fill holes in whatever order.          *)
THEOREM RowsAndRecordsAgree == Spec => []RecordsAgree
  BY TypedInit, TypedStep, PTL DEF Spec

-----------------------------------------------------------------------------
(* Lines of bases. *)

(* The line of bases of b follows the bases of types, in a set B that is      *)
(* closed under them.                                                        *)
LEMMA LineSteps ==
  ASSUME NEW B \in SUBSET Entities, \A x \in B : TypeOf(x).base \in B \cup {None},
         NEW b \in B \cup {None}
  PROVE  \E f \in [Nat -> B \cup {None}] :
           /\ f[0] = b
           /\ \A n \in Nat \ {0} : /\ n - 1 \in Nat /\ f[n - 1] \in B \cup {None}
                                  /\ f[n] = TypeOf(f[n - 1]).base
           /\ Line(b) = [n \in 1..Cardinality(Entities) |-> f[n - 1]]
<1> DEFINE X == B \cup {None}
           base == [x \in X |-> TypeOf(x).base]
           Up(up) == up = [n \in Nat |-> IF n = 0 THEN b ELSE TypeOf(up[n - 1]).base]
<1>1. TypeOf(None).base = None /\ TypeOf(None)' = TypeOf(None)
  BY EntitiesNumbered DEF TypeOf, Living
<1>2. base \in [X -> X] /\ b \in X
  BY <1>1
<1>3. PICK f \in [Nat -> X] : f[0] = b /\ \A n \in Nat \ {0} : f[n] = base[f[n - 1]]
  <2> HIDE DEF base, X
  <2>1. QED
    BY <1>2, IteratedOne
<1>4. \A n \in Nat \ {0} : n - 1 \in Nat /\ f[n - 1] \in X /\ f[n] = TypeOf(f[n - 1]).base
  <2>1. \A x \in X : base[x] = TypeOf(x).base
    OBVIOUS
  <2> HIDE DEF base, X
  <2>2. ASSUME NEW n \in Nat \ {0}
        PROVE  n - 1 \in Nat /\ f[n - 1] \in X /\ f[n] = base[f[n - 1]]
    BY <1>3
  <2>3. QED
    BY <2>1, <2>2
<1>5. Up(f)
  BY <1>3, <1>4
<1>6. ASSUME NEW up, Up(up) PROVE up = f
  <2>1. up = [n \in Nat |-> up[n]] /\ up[0] = b
        /\ \A n \in Nat \ {0} : up[n] = TypeOf(up[n - 1]).base
    BY <1>6
  <2>2. f = [n \in Nat |-> f[n]]
    BY <1>3
  <2>3. \A n \in Nat \ {0} : f[n - 1] = up[n - 1] => f[n] = up[n]
    BY <1>4, <2>1
  <2>4. QED
    BY <1>3, <2>1, <2>2, <2>3, SameIterates
<1>7. Line(b) = [n \in 1..Cardinality(Entities) |-> f[n - 1]]
  <2>1. (CHOOSE g : Up(g)) = f
    <3> HIDE DEF Up
    <3>1. QED
      BY <1>5, <1>6
  <2> DEFINE up == CHOOSE g : Up(g)
  <2>2. Line(b) = [n \in 1..Cardinality(Entities) |-> up[n - 1]]
    BY DEF Line
  <2>3. up = f
    BY <2>1
  <2> HIDE DEF up
  <2>4. QED
    BY <2>2, <2>3
<1>8. QED
  BY <1>3, <1>4, <1>7

(* The line of bases of b stays in such a set.                               *)
LEMMA LineWithin ==
  ASSUME NEW B \in SUBSET Entities, \A x \in B : TypeOf(x).base \in B \cup {None},
         NEW b \in B \cup {None}
  PROVE  /\ DOMAIN Line(b) = 1..Cardinality(Entities)
         /\ \A n \in DOMAIN Line(b) : Line(b)[n] \in B \cup {None}
         /\ Lineage(b) \subseteq B
         /\ b # None => b \in Lineage(b)
<1> DEFINE X == B \cup {None}
<1>2. PICK f \in [Nat -> X] :
         /\ f[0] = b
         /\ \A n \in Nat \ {0} : n - 1 \in Nat /\ f[n - 1] \in X /\ f[n] = TypeOf(f[n - 1]).base
         /\ Line(b) = [n \in 1..Cardinality(Entities) |-> f[n - 1]]
  BY LineSteps
<1>3. f[0] = b /\ f \in [Nat -> X]
  BY <1>2
<1>4. Line(b) = [n \in 1..Cardinality(Entities) |-> f[n - 1]]
  BY <1>2
<1>5. \A n \in 1..Cardinality(Entities) : n - 1 \in Nat
  OBVIOUS
<1>6. DOMAIN Line(b) = 1..Cardinality(Entities) /\ \A n \in DOMAIN Line(b) : Line(b)[n] \in X
  BY <1>3, <1>4, <1>5
<1>7. Lineage(b) \subseteq B
  BY <1>6 DEF Lineage, Range
<1>8. b # None => b \in Lineage(b)
  <2>1. SUFFICES ASSUME b # None PROVE b \in Lineage(b)
    OBVIOUS
  <2>2. Cardinality(Entities) \in Nat \ {0}
    <3>1. b \in Entities
      BY <2>1
    <3>2. QED
      BY <3>1, EntitiesNumbered, FS_CardinalityType, FS_EmptySet
  <2>3. 1 \in DOMAIN Line(b) /\ Line(b)[1] = b
    BY <1>3, <1>4, <2>2
  <2>4. QED
    BY <2>1, <2>3 DEF Lineage, Range
<1>9. QED
  BY <1>6, <1>7, <1>8

(* The line of each entity is made of the first of its bases.                *)
LinesIterate ==
  \A b \in Entities \cup {None} : \E f \in [Nat -> Entities \cup {None}] :
    /\ f[0] = b
    /\ \A n \in Nat \ {0} : n - 1 \in Nat /\ f[n] = TypeOf(f[n - 1]).base
    /\ Line(b) = [n \in 1..Cardinality(Entities) |-> f[n - 1]]

LEMMA BasesOfEntities ==
  ASSUME Typed
  PROVE  \A x \in Entities : TypeOf(x).base \in Entities \cup {None}
<1>1. \A x \in Living : TypeOf(x).base \in Entities \cup {None}
  BY TypedFacts DEF TypeSet
<1>2. QED
  BY <1>1 DEF TypeOf

LEMMA LinesAreIterates == Typed => LinesIterate
<1>1. SUFFICES ASSUME Typed, NEW b \in Entities \cup {None}
               PROVE  \E f \in [Nat -> Entities \cup {None}] :
                        /\ f[0] = b
                        /\ \A n \in Nat \ {0} : n - 1 \in Nat /\ f[n] = TypeOf(f[n - 1]).base
                        /\ Line(b) = [n \in 1..Cardinality(Entities) |-> f[n - 1]]
  BY DEF LinesIterate
<1>2. \A x \in Entities : TypeOf(x).base \in Entities \cup {None}
  BY <1>1, BasesOfEntities
<1>3. PICK f \in [Nat -> Entities \cup {None}] :
         /\ f[0] = b
         /\ \A n \in Nat \ {0} : /\ n - 1 \in Nat /\ f[n - 1] \in Entities \cup {None}
                                /\ f[n] = TypeOf(f[n - 1]).base
         /\ Line(b) = [n \in 1..Cardinality(Entities) |-> f[n - 1]]
  <2>1. Entities \in SUBSET Entities
    OBVIOUS
  <2>2. QED
    BY ONLY <1>1, <1>2, <2>1, LineSteps
<1>4. QED
  BY <1>3

(* A line on which no type changes stays as it is.                           *)
LEMMA LineStays ==
  ASSUME Typed, Typed', NEW b \in Entities \cup {None},
         \A x \in Lineage(b) : TypeOf(x)' = TypeOf(x)
  PROVE  Line(b)' = Line(b) /\ Lineage(b) \subseteq Entities
<1> DEFINE X == Entities \cup {None}
           C == Cardinality(Entities)
<1>1. Typed' => LinesIterate'
  BY LinesAreIterates, PTL
<1>2. TypeOf(None)' = TypeOf(None)
  BY EntitiesNumbered DEF TypeOf, Living
<1>3. PICK f \in [Nat -> X] :
         /\ f[0] = b
         /\ \A n \in Nat \ {0} : n - 1 \in Nat /\ f[n] = TypeOf(f[n - 1]).base
         /\ Line(b) = [n \in 1..C |-> f[n - 1]]
  BY LinesAreIterates DEF LinesIterate
<1>4. PICK g \in [Nat -> X] :
         /\ g[0] = b
         /\ \A n \in Nat \ {0} : n - 1 \in Nat /\ g[n] = (TypeOf(g[n - 1])').base
         /\ Line(b)' = [n \in 1..C |-> g[n - 1]]
  BY <1>1 DEF LinesIterate
<1>5. C \in Nat
  BY EntitiesNumbered, FS_CardinalityType
<1> DEFINE p == [n \in Nat |-> IF n < C THEN f[n] ELSE None]
           q == [n \in Nat |-> IF n < C THEN g[n] ELSE None]
<1>6. p[0] = q[0]
  BY <1>3, <1>4
<1>7. ASSUME NEW n \in Nat \ {0}, p[n - 1] = q[n - 1] PROVE p[n] = q[n]
  <2>1. CASE n < C
    <3>1. n - 1 \in Nat /\ n - 1 < C /\ n \in 1..C
      BY <1>5, <2>1
    <3>2. f[n - 1] = g[n - 1]
      BY <1>7, <3>1
    <3>3. f[n - 1] \in Lineage(b) \cup {None}
      <4>1. Line(b)[n] = f[n - 1] /\ n \in DOMAIN Line(b)
        BY <1>3, <3>1
      <4>2. QED
        BY <4>1 DEF Lineage, Range
    <3>4. TypeOf(f[n - 1])' = TypeOf(f[n - 1])
      BY <1>2, <3>3
    <3>5. f[n] = g[n]
      BY <1>3, <1>4, <3>2, <3>4
    <3>6. QED
      BY <3>5
  <2>2. CASE ~(n < C)
    BY <2>2
  <2>3. QED
    BY <2>1, <2>2
<1>8. p = [n \in Nat |-> p[n]] /\ q = [n \in Nat |-> q[n]]
  OBVIOUS
<1>9. p = q
  <2> HIDE DEF p, q
  <2>1. QED
    BY ONLY <1>6, <1>7, <1>8, SameIterates
<1>10. ASSUME NEW n \in 1..C PROVE f[n - 1] = g[n - 1]
  <2>1. n - 1 \in Nat /\ n - 1 < C
    BY <1>5
  <2>2. p[n - 1] = q[n - 1]
    BY <1>9
  <2>3. QED
    BY <2>1, <2>2
<1>11. Lineage(b) \subseteq Entities
  BY <1>3 DEF Lineage, Range
<1>12. QED
  BY <1>3, <1>4, <1>10, <1>11

(* Behind b come the bases of its base.                                     *)
LEMMA LineageSplit ==
  ASSUME NEW B \in SUBSET Entities, \A x \in B : TypeOf(x).base \in B \cup {None}, NEW b \in B
  PROVE  Lineage(b) \subseteq {b} \cup Lineage(TypeOf(b).base) /\ Lineage(None) = {}
<1> DEFINE X == B \cup {None}
           C == Cardinality(Entities)
<1>1. PICK a \in X : a = TypeOf(b).base
  OBVIOUS
<1>2. b \in X
  OBVIOUS
<1>3. PICK f \in [Nat -> X] :
         /\ f[0] = b
         /\ \A n \in Nat \ {0} : n - 1 \in Nat /\ f[n - 1] \in X /\ f[n] = TypeOf(f[n - 1]).base
         /\ Line(b) = [n \in 1..C |-> f[n - 1]]
  BY <1>2, LineSteps
<1>4. PICK h \in [Nat -> X] :
         /\ h[0] = a
         /\ \A n \in Nat \ {0} : n - 1 \in Nat /\ h[n - 1] \in X /\ h[n] = TypeOf(h[n - 1]).base
         /\ Line(a) = [n \in 1..C |-> h[n - 1]]
  BY LineSteps
<1> DEFINE k == [n \in Nat |-> f[n + 1]]
<1>5. k[0] = h[0]
  BY <1>1, <1>3, <1>4
<1>6. ASSUME NEW n \in Nat \ {0}, h[n - 1] = k[n - 1] PROVE h[n] = k[n]
  <2>1. n + 1 \in Nat \ {0} /\ (n + 1) - 1 = n /\ (n - 1) + 1 = n /\ n - 1 \in Nat
    OBVIOUS
  <2>2. k[n - 1] = f[n] /\ k[n] = f[n + 1]
    BY <2>1
  <2>3. f[n + 1] = TypeOf(f[n]).base
    BY <1>3, <2>1
  <2>4. QED
    BY <1>4, <1>6, <2>2, <2>3
<1>7. k = [n \in Nat |-> k[n]] /\ h = [n \in Nat |-> h[n]]
  BY <1>4
<1> HIDE DEF k
<1>8. h = k
  BY <1>5, <1>6, <1>7, SameIterates
<1>9. ASSUME NEW x \in Lineage(b) PROVE x \in {b} \cup Lineage(a)
  <2>1. PICK n \in 1..C : x = f[n - 1] /\ x # None
    BY <1>3 DEF Lineage, Range
  <2>2. C \in Nat
    BY EntitiesNumbered, FS_CardinalityType
  <2>3. CASE n = 1
    BY <1>3, <2>1, <2>3
  <2>4. CASE n # 1
    <3>1. n - 1 \in 1..C /\ n - 2 \in Nat /\ (n - 2) + 1 = n - 1 /\ (n - 1) - 1 = n - 2
      BY <2>2, <2>4
    <3>2. f[n - 1] = h[n - 2]
      BY <1>8, <3>1 DEF k
    <3>3. Line(a)[n - 1] = x /\ n - 1 \in DOMAIN Line(a)
      BY <1>4, <2>1, <3>1, <3>2
    <3>4. QED
      BY <2>1, <3>3 DEF Lineage, Range
  <2>5. QED
    BY <2>3, <2>4
<1>10. Lineage(None) \subseteq {}
  <2>1. {} \in SUBSET Entities /\ \A x \in {} : TypeOf(x).base \in {} \cup {None}
    OBVIOUS
  <2>2. QED
    BY ONLY <2>1, None \in {} \cup {None}, LineWithin
<1>11. QED
  BY <1>1, <1>9, <1>10

BasesInUse == {types[t].base : t \in Tables} \ {None}

(* A base has been made abstract, which only a removal undoes, and lives.    *)
BasesAbstract == \A b \in BasesInUse : b \in Living /\ Abstract \in TypeOf(b).comps

(* The bases in use are entities: those that something inherits from.        *)
LEMMA BasesFacts ==
  ASSUME Typed
  PROVE  /\ BasesInUse \subseteq Entities
         /\ \A t \in Tables : types[t].base \in BasesInUse \cup {None}
         /\ \A x \in Living : TypeOf(x).base \in BasesInUse \cup {None}
         /\ \A x : Inherited(x) /\ x # None <=> x \in BasesInUse
<1>1. \A t \in Tables : types[t].base \in Entities \cup {None}
  BY TypedFacts DEF TypeSet
<1>2. \A t \in Tables : types[t].base \in BasesInUse \cup {None}
  BY DEF BasesInUse
<1>3. \A x \in Living : TypeOf(x).base \in BasesInUse \cup {None}
  BY <1>2, TypedFacts
<1>4. \A x : Inherited(x) /\ x # None <=> x \in BasesInUse
  BY DEF Inherited, BasesInUse
<1>5. QED
  BY <1>1, <1>2, <1>3, <1>4 DEF BasesInUse

(* B holds the bases in use and, maybe, one that is about to be: the lines   *)
(* from B stay in B.                                                         *)
Closed(B) == BasesInUse \subseteq B /\ B \subseteq Living

(* The line of bases of an entity of such a set.                             *)
LEMMA ClosedLines ==
  ASSUME Typed, NEW B, Closed(B), NEW b \in B \cup {None}
  PROVE  /\ DOMAIN Line(b) = 1..Cardinality(Entities)
         /\ \A n \in DOMAIN Line(b) : Line(b)[n] \in B \cup {None}
         /\ Lineage(b) \subseteq B
         /\ b # None => b \in Lineage(b)
<1>1. B \in SUBSET Entities
  BY TypedFacts DEF Closed
<1>2. \A x \in B : TypeOf(x).base \in B \cup {None}
  BY BasesFacts DEF Closed
<1> HIDE DEF Closed
<1>3. QED
  BY <1>1, <1>2, LineWithin

(* Where a component comes from is a base with it.                           *)
LEMMA ProviderIsBase ==
  ASSUME Typed, NEW type \in TypeSet, NEW c, Providers(type, c) # {}
  PROVE  /\ Provider(type, c) \in Lineage(type.base)
         /\ c \in TypeOf(Provider(type, c)).comps
<1> DEFINE line == Line(type.base)
           m == Min(Providers(type, c))
<1>1. DOMAIN line = 1..Cardinality(Entities)
  BY LinesAreIterates DEF LinesIterate, TypeSet
<1>2. Cardinality(Entities) \in Nat
  BY EntitiesNumbered, FS_CardinalityType
<1>3. Providers(type, c) = {n \in DOMAIN line : c \in TypeOf(line[n]).comps}
  BY DEF Providers
<1>4. Providers(type, c) \in SUBSET Nat
  BY <1>1, <1>2, <1>3
<1>5. m \in Providers(type, c)
  BY <1>4, LeastOf
<1>6. m \in DOMAIN line /\ c \in TypeOf(line[m]).comps
  BY <1>3, <1>5
<1>7. Provider(type, c) = line[m]
  BY DEF Provider
<1>8. TypeOf(None).comps = {}
  BY EntitiesNumbered DEF TypeOf, Living
<1>9. line[m] # None
  BY <1>6, <1>8
<1>10. QED
  BY <1>6, <1>7, <1>9 DEF Lineage, Range

(* As long as the types on a line stay, so does what is inherited.            *)
LEMMA InheritedStays ==
  ASSUME Typed, Typed', NEW type \in TypeSet,
         \A x \in Lineage(type.base) : TypeOf(x)' = TypeOf(x)
  PROVE  /\ \A c : Providers(type, c)' = Providers(type, c)
         /\ \A c : Provider(type, c)' = Provider(type, c)
         /\ InheritedBy(type)' = InheritedBy(type)
         /\ \A shape : Accepts(shape, type)' <=> Accepts(shape, type)
         /\ Lineage(type.base)' = Lineage(type.base)
<1>1. PICK line : line = Line(type.base)
  OBVIOUS
<1>2. type.base \in Entities \cup {None}
  BY DEF TypeSet
<1>3. Line(type.base)' = line /\ \A n \in DOMAIN line : line[n] \in Lineage(type.base) \cup {None}
  BY <1>1, <1>2, LineStays DEF Lineage, Range
<1>4. TypeOf(None)' = TypeOf(None)
  BY EntitiesNumbered DEF TypeOf, Living
<1>5. ASSUME NEW c PROVE Providers(type, c)' = Providers(type, c)
  <2>1. Providers(type, c) = {n \in DOMAIN line : c \in TypeOf(line[n]).comps}
    BY <1>1 DEF Providers
  <2>2. Providers(type, c)' = {n \in DOMAIN line : c \in (TypeOf(line[n])').comps}
    BY <1>3 DEF Providers
  <2>3. \A n \in DOMAIN line : TypeOf(line[n])' = TypeOf(line[n])
    BY <1>3, <1>4
  <2>4. QED
    BY <2>1, <2>2, <2>3
<1>6. ASSUME NEW c PROVE Provider(type, c)' = Provider(type, c)
  BY <1>1, <1>3, <1>5 DEF Provider
<1>7. InheritedBy(type)' = InheritedBy(type)
  BY <1>5 DEF InheritedBy
<1>8. \A shape : Accepts(shape, type)' <=> Accepts(shape, type)
  BY <1>7 DEF Accepts
<1>9. Lineage(type.base)' = Lineage(type.base)
  BY <1>1, <1>3 DEF Lineage
<1>10. QED
  BY <1>5, <1>6, <1>7, <1>8, <1>9

(* What the entities of a table inherit stays with the types of its bases.    *)
LEMMA TableStays ==
  ASSUME Typed, Typed', NEW t \in Tables, types'[t] = types[t],
         \A x \in Lineage(types'[t].base) : TypeOf(x)' = TypeOf(x)
  PROVE  /\ InheritedBy(types[t])' = InheritedBy(types[t])
         /\ \A shape : Accepts(shape, types[t])' <=> Accepts(shape, types[t])
<1>1. PICK ty : ty = types[t]
  OBVIOUS
<1>2. ty \in TypeSet /\ types'[t] = ty
  BY <1>1, TypedFacts
<1>3. InheritedBy(ty)' = InheritedBy(ty) /\ \A shape : Accepts(shape, ty)' <=> Accepts(shape, ty)
  BY <1>2, InheritedStays
<1>4. InheritedBy(types[t])' = InheritedBy(ty)'
  BY <1>2 DEF InheritedBy, Providers, Line
<1>5. \A shape : Accepts(shape, types[t])' <=> Accepts(shape, ty)'
  BY <1>2, <1>4 DEF Accepts
<1>6. QED
  BY <1>1, <1>3, <1>4, <1>5

(* What an operation that changes the type of e asks of e and of its base.    *)
Changes(e, type) ==
  /\ e \in Living /\ type \in TypeSet /\ ChangeType(e, type)
  /\ Abstract \in TypeOf(e).comps => Abstract \in type.comps
  /\ type.base # None => type.base \in Living /\ Abstract \in TypeOf(type.base).comps
  /\ type.base \notin BasesInUse \cup {None} => TypeOf(e).comps \subseteq type.comps

(* Each operation on the type of an entity asks what Changes says.           *)
LEMMA OperationsChange ==
  ASSUME Typed, BasesAbstract, NEW e \in Entities,
         \/ IsNot(e) \/ AddComp(e, Abstract)
         \/ \E c \in Comps : AddComp(e, c) \/ RemoveComp(e, c)
         \/ \E b \in Entities : IsA(e, b)
  PROVE  \E type : Changes(e, type)
<1>1. \A b \in BasesInUse : b \in Living /\ Abstract \in TypeOf(b).comps
  BY DEF BasesAbstract
<1>2. e \in Living => TypeOf(e).base \in BasesInUse \cup {None}
  BY BasesFacts
<1>3. ASSUME NEW c \in Comps \cup {Abstract}, AddComp(e, c) PROVE \E type : Changes(e, type)
  <2>1. e \in Living
    BY <1>3, OperationTypes
  <2>2. PICK type \in TypeSet :
           /\ type.base = TypeOf(e).base /\ Abstract \notin TypeOf(e).comps /\ ChangeType(e, type)
    BY <1>3, OperationTypes
  <2>3. Changes(e, type)
    BY <1>1, <1>2, <2>1, <2>2 DEF Changes
  <2>4. QED
    BY <2>3
<1>4. ASSUME NEW c \in Comps, RemoveComp(e, c) PROVE \E type : Changes(e, type)
  <2>1. e \in Living
    BY <1>4, OperationTypes
  <2>2. PICK type \in TypeSet :
           /\ Abstract \in TypeOf(e).comps => Abstract \in type.comps
           /\ type.base = TypeOf(e).base /\ ChangeType(e, type)
    BY <1>4, OperationTypes
  <2>3. Changes(e, type)
    BY <1>1, <1>2, <2>1, <2>2 DEF Changes
  <2>4. QED
    BY <2>3
<1>5. ASSUME NEW b \in Entities, IsA(e, b) PROVE \E type : Changes(e, type)
  <2>1. {e, b} \subseteq Living
    BY <1>5, OperationTypes
  <2>2. PICK type \in TypeSet :
           /\ TypeOf(e).comps \subseteq type.comps /\ type.base = b
           /\ Abstract \in TypeOf(b).comps /\ ChangeType(e, type)
    BY <1>5, OperationTypes
  <2>3. Changes(e, type)
    BY <2>1, <2>2 DEF Changes
  <2>4. QED
    BY <2>3
<1>6. ASSUME IsNot(e) PROVE \E type : Changes(e, type)
  <2>1. e \in Living
    BY <1>6, OperationTypes
  <2>2. PICK type \in TypeSet : /\ Abstract \in TypeOf(e).comps => Abstract \in type.comps
                               /\ type.base = None /\ ChangeType(e, type)
    BY <1>6, OperationTypes
  <2>3. Changes(e, type)
    BY <2>1, <2>2 DEF Changes
  <2>4. QED
    BY <2>3
<1>7. QED
  BY <1>3, <1>4, <1>5, <1>6

(* The set of bases that an operation on e leaves closed, alive and abstract. *)
LEMMA ChangesClosed ==
  ASSUME Typed, RecordsAgree, BasesAbstract, NEW e, NEW type, Changes(e, type)
  PROVE  LET B == BasesInUse \cup ({type.base} \ {None}) IN
         /\ Closed(B) /\ type.base \in B \cup {None}
         /\ \A x \in B : /\ x \in Living' /\ Abstract \in TypeOf(x).comps
                         /\ Abstract \in (TypeOf(x)').comps
         /\ BasesInUse' \subseteq B
<1> DEFINE B == BasesInUse \cup ({type.base} \ {None})
<1>1. \A x \in B : x \in Living /\ Abstract \in TypeOf(x).comps
  BY DEF Changes, BasesAbstract
<1>2. e \in Living /\ type \in TypeSet /\ ChangeType(e, type)
  BY DEF Changes
<1>3. OthersStay(e) /\ e \in Living' /\ TypeOf(e)' = type
        /\ (Abstract \in TypeOf(e).comps => Abstract \in type.comps)
  BY <1>2, ChangeTypeTyped DEF Changes
<1>4. \A x \in B : x \in Entities /\ place[x].table # None
  BY <1>1 DEF Living
<1>5. \A x \in B \ {e} : TypeOf(x)' = TypeOf(x) /\ x \in Living'
  BY <1>3, <1>4 DEF OthersStay, Living
<1>6. BasesInUse' \subseteq B
  <2>1. CASE types' = types
    BY <2>1 DEF BasesInUse, Tables
  <2>2. CASE CreateTable(type)
    <3>1. Tables' = Tables \cup {Len(types) + 1} /\ types'[Len(types) + 1] = type
          /\ \A t \in Tables : types'[t] = types[t]
      BY <1>2, <2>2, CreateTyped
    <3>2. \A t \in Tables' : types'[t].base \in B \cup {None}
      BY <3>1 DEF BasesInUse
    <3>3. BasesInUse' = {types'[t].base : t \in Tables'} \ {None}
      BY DEF BasesInUse
    <3>4. QED
      BY <3>2, <3>3
  <2>3. QED
    BY <1>2, <2>1, <2>2 DEF ChangeType
<1>7. QED
  BY <1>1, <1>3, <1>5, <1>6 DEF Closed

(* Bases live on, and stay abstract, while killing one is not allowed.       *)
LEMMA BasesStep ==
  ASSUME Typed, RecordsAgree, BasesAbstract, [Next]_vars, "die" \notin BaseHazards
  PROVE  BasesAbstract'
<1>1. SUFFICES ASSUME NEW b, b \in BasesInUse'
               PROVE  b \in Living' /\ Abstract \in (TypeOf(b)').comps
  BY DEF BasesAbstract
<1>2. ASSUME NEW e \in Entities, types' = types, OthersStay(e), e \notin BasesInUse
      PROVE  b \in Living' /\ Abstract \in (TypeOf(b)').comps
  <2>1. b \in BasesInUse
    BY <1>1, <1>2 DEF BasesInUse, Tables
  <2>2. b \in Living /\ Abstract \in TypeOf(b).comps /\ b # e
    BY <1>2, <2>1 DEF BasesAbstract
  <2>3. QED
    BY <1>2, <2>2 DEF OthersStay, Living
<1>3. ASSUME NEW e \in Entities, New(e)
      PROVE  b \in Living' /\ Abstract \in (TypeOf(b)').comps
  <2>1. types' = types /\ OthersStay(e) /\ e \notin Living
    BY <1>3, NewTyped DEF New
  <2>2. e \notin BasesInUse
    BY <2>1 DEF BasesAbstract
  <2>3. QED
    BY <1>2, <2>1, <2>2
<1>4. ASSUME NEW e \in Entities, Kill(e)
      PROVE  b \in Living' /\ Abstract \in (TypeOf(b)').comps
  <2>1. types' = types /\ OthersStay(e) /\ ~Inherited(e)
    BY <1>4, KillTyped DEF Kill
  <2>2. e \notin BasesInUse
    BY <2>1, BasesFacts
  <2>3. QED
    BY <1>2, <2>1, <2>2
<1>5. ASSUME NEW e, NEW type, Changes(e, type)
      PROVE  b \in Living' /\ Abstract \in (TypeOf(b)').comps
  BY <1>1, <1>5, ChangesClosed
<1>6. ASSUME types' = types, place' = place
      PROVE  b \in Living' /\ Abstract \in (TypeOf(b)').comps
  BY <1>1, <1>6 DEF BasesInUse, BasesAbstract, Tables, TypeOf, Living
<1>7. ASSUME NEW shape \in Shapes, CreateQuery(shape) PROVE types' = types /\ place' = place
  BY <1>7 DEF CreateQuery, tableVars
<1>8. ASSUME NEW s \in DOMAIN queries, FiniQuery(s) PROVE types' = types /\ place' = place
  BY <1>8 DEF FiniQuery, tableVars
<1>9. ASSUME UNCHANGED vars PROVE types' = types /\ place' = place
  BY <1>9 DEF vars
<1>10. ASSUME NEW e \in Entities,
              \/ IsNot(e) \/ AddComp(e, Abstract)
              \/ \E c \in Comps : AddComp(e, c) \/ RemoveComp(e, c)
              \/ \E c \in Entities : IsA(e, c)
       PROVE  b \in Living' /\ Abstract \in (TypeOf(b)').comps
  BY <1>5, <1>10, OperationsChange
<1>11. QED
  BY <1>3, <1>4, <1>6, <1>7, <1>8, <1>9, <1>10 DEF Next

-----------------------------------------------------------------------------
(* The lists of tables. *)

Holding(c) == {t \in Tables : c \in types[t].comps \cup InheritedBy(types[t])}

(* What no base of a table has changed under stays: the lines of bases of the *)
(* tables outside the history.                                               *)
Undisturbed ==
  /\ changed \subseteq changed'
  /\ \A t \in Tables' \ changed' : \A x \in Lineage(types'[t].base) : TypeOf(x)' = TypeOf(x)

(* The lists are right after a step that changes no table.                   *)
LEMMA HavingKept ==
  ASSUME Typed, Typed', HavingExact, Undisturbed, types' = types, having' = having
  PROVE  HavingExact'
<1>1. ASSUME NEW c \in Comps PROVE Holding(c)' \ changed' = Holding(c) \ changed'
  <2>1. Tables' = Tables
    BY DEF Tables
  <2>2. \A t \in Tables \ changed' : InheritedBy(types[t])' = InheritedBy(types[t])
    BY <2>1, TableStays DEF Undisturbed
  <2>3. QED
    BY <2>1, <2>2 DEF Holding
<1>2. QED
  BY <1>1 DEF HavingExact, Holding, Undisturbed

(* A new table is appended to the lists of what it owns or inherits.         *)
LEMMA HavingOfNew ==
  ASSUME Typed, Typed', HavingExact, Undisturbed, NEW type \in TypeSet, CreateTable(type)
  PROVE  HavingExact'
<1>1. PICK n : n = Len(types) + 1
  OBVIOUS
<1>2. /\ Tables' = Tables \cup {n} /\ types'[n] = type
      /\ \A t \in Tables : types'[t] = types[t]
  BY <1>1, CreateTyped
<1>3. having' = [c \in Comps |-> IF c \in type.comps \cup InheritedBy(type)
                                  THEN Append(having[c], n) ELSE having[c]]
  BY <1>1 DEF CreateTable
<1>4. Tables = 1..Len(types) /\ Len(types) \in Nat
  BY TypedFacts
<1>5. n \notin Tables /\ n \in Nat
  BY <1>1, <1>4
<1>6. \A t \in Tables \ changed' : InheritedBy(types[t])' = InheritedBy(types[t])
  BY <1>2, TableStays DEF Undisturbed
<1>7. n \notin changed' => InheritedBy(types[n])' = InheritedBy(type)
  <2>1. n \notin changed' => InheritedBy(type)' = InheritedBy(type)
    BY <1>2, InheritedStays DEF Undisturbed
  <2>2. InheritedBy(types[n])' = InheritedBy(type)'
    BY <1>2 DEF InheritedBy, Providers, Line
  <2>3. QED
    BY <2>1, <2>2
<1>8. ASSUME NEW c \in Comps
      PROVE  Range(having'[c]) \ changed' =
               {t \in Tables' : c \in types'[t].comps \cup InheritedBy(types[t])'} \ changed'
             /\ Len(having'[c]) = Cardinality(Range(having'[c]))
  <2>1. /\ Range(having[c]) \ changed =
             {t \in Tables : c \in types[t].comps \cup InheritedBy(types[t])} \ changed
        /\ Len(having[c]) = Cardinality(Range(having[c]))
        /\ having[c] \in Seq(Tables) /\ Range(having[c]) \subseteq Tables
    <3>1. having[c] \in Seq(Tables)
      BY DEF Typed, TypeOK
    <3>2. Range(having[c]) \subseteq Tables
      BY <3>1 DEF Range
    <3>3. QED
      BY <3>1, <3>2 DEF HavingExact
  <2>2. Range(having[c]) \ changed' =
          {t \in Tables : c \in types'[t].comps \cup InheritedBy(types[t])'} \ changed'
    BY <1>2, <1>6, <2>1 DEF Undisturbed
  <2>3. CASE c \in type.comps \cup InheritedBy(type)
    <3>1. having'[c] = Append(having[c], n)
      BY <1>3, <2>3
    <3>2. having[c] \in Seq(Tables \cup {n})
      BY <2>1, SeqMonotonic
    <3>3. Range(having'[c]) = Range(having[c]) \cup {n} /\ Len(having'[c]) = Len(having[c]) + 1
      BY <3>1, <3>2, RangeAppended
    <3>4. IsFiniteSet(Range(having[c])) /\ n \notin Range(having[c])
      <4>1. IsFiniteSet(Tables)
        BY <1>4, FS_Interval
      <4>2. QED
        BY <1>5, <2>1, <4>1, FS_Subset
    <3>5. Cardinality(Range(having'[c])) = Len(having'[c])
      BY <2>1, <3>3, <3>4, FS_AddElement
    <3>6. Range(having'[c]) \ changed' =
            {t \in Tables' : c \in types'[t].comps \cup InheritedBy(types[t])'} \ changed'
      BY <1>2, <1>7, <2>2, <2>3, <3>3
    <3>7. QED
      BY <3>5, <3>6
  <2>4. CASE c \notin type.comps \cup InheritedBy(type)
    <3>1. having'[c] = having[c]
      BY <1>3, <2>4
    <3>2. QED
      BY <1>2, <1>7, <2>1, <2>2, <2>4, <3>1
  <2>5. QED
    BY <2>3, <2>4
<1>9. QED
  BY <1>8 DEF HavingExact

(* What the steps do to tables and queries.                                  *)
KeepsTables ==
  /\ UNCHANGED <<types, having>>
  /\ \/ UNCHANGED queryVars
     \/ \E t \in Tables : GrowFor(t) /\ UNCHANGED <<active, free>>
     \/ \E shape \in Shapes : CreateQuery(shape)
     \/ \E s \in DOMAIN queries : FiniQuery(s)

AddsTable(type) == type \in TypeSet /\ CreateTable(type) /\ UNCHANGED <<active, free>>

(* Every step is one of these.                                               *)
LEMMA Kinds ==
  ASSUME Typed, RecordsAgree, BasesAbstract, [Next]_vars, "die" \notin BaseHazards
  PROVE  Undisturbed /\ (KeepsTables \/ \E type : AddsTable(type))
<1>1. \A t \in Tables : types[t].base \in Entities \cup {None} /\ Lineage(types[t].base) \subseteq BasesInUse
  BY BasesFacts, ClosedLines DEF Closed, BasesAbstract
<1>2. BasesInUse \subseteq Entities /\ Root \in Tables /\ changed \subseteq Tables
  BY BasesFacts, TypedFacts DEF Typed, TypeOK
<1>3. ASSUME NEW e \in Entities, OthersStay(e), types' = types, changed \subseteq changed',
             \A t \in Tables \ changed' : e \notin Lineage(types[t].base)
      PROVE  Undisturbed
  BY <1>1, <1>2, <1>3 DEF Undisturbed, OthersStay, Tables
<1>4. ASSUME NEW e \in Entities, New(e) PROVE Undisturbed /\ KeepsTables
  <2>1. OthersStay(e) /\ e \notin Living /\ UNCHANGED <<types, changed>>
    BY <1>4, NewTyped DEF New
  <2>2. e \notin BasesInUse
    BY <2>1 DEF BasesAbstract
  <2>3. Undisturbed
    BY <1>1, <1>3, <2>1, <2>2
  <2>4. KeepsTables
    BY <1>2, <1>4 DEF New, KeepsTables
  <2>5. QED
    BY <2>3, <2>4
<1>5. ASSUME NEW e \in Entities, Kill(e) PROVE Undisturbed /\ KeepsTables
  <2>1. OthersStay(e) /\ types' = types /\ changed' = changed \cup Behind(types, e)
    BY <1>5, KillTyped DEF Kill
  <2>2. Undisturbed
    BY <1>3, <2>1 DEF Behind, Tables
  <2>3. KeepsTables
    BY <1>5 DEF Kill, KeepsTables, queryVars
  <2>4. QED
    BY <2>2, <2>3
<1>6. ASSUME UNCHANGED <<types, place, changed>> PROVE Undisturbed
  BY <1>6 DEF Undisturbed, TypeOf, Living
<1>7. ASSUME NEW shape \in Shapes, CreateQuery(shape) PROVE Undisturbed /\ KeepsTables
  <2>1. UNCHANGED <<types, place, changed, having>>
    BY <1>7 DEF CreateQuery, tableVars
  <2>2. QED
    BY <1>6, <1>7, <2>1 DEF KeepsTables
<1>8. ASSUME NEW s \in DOMAIN queries, FiniQuery(s) PROVE Undisturbed /\ KeepsTables
  <2>1. UNCHANGED <<types, place, changed, having>>
    BY <1>8 DEF FiniQuery, tableVars
  <2>2. QED
    BY <1>6, <1>8, <2>1 DEF KeepsTables
<1>9. ASSUME UNCHANGED vars PROVE Undisturbed /\ KeepsTables
  <2>1. UNCHANGED <<types, place, changed, having>> /\ UNCHANGED queryVars
    BY <1>9 DEF vars, queryVars
  <2>2. QED
    BY <1>6, <2>1 DEF KeepsTables
<1>10. ASSUME NEW e \in Entities,
              \/ IsNot(e) \/ AddComp(e, Abstract)
              \/ \E c \in Comps : AddComp(e, c) \/ RemoveComp(e, c)
              \/ \E c \in Entities : IsA(e, c)
       PROVE  Undisturbed /\ (KeepsTables \/ \E type : AddsTable(type))
  <2>1. PICK type : Changes(e, type)
    BY <1>10, OperationsChange
  <2>2. e \in Living /\ type \in TypeSet /\ ChangeType(e, type)
    BY <2>1 DEF Changes
  <2>3. OthersStay(e) /\ Typed' /\ changed' = changed \cup Behind(types', e)
    BY <2>2, ChangeTypeTyped DEF ChangeType
  <2>4. KeepsTables \/ AddsTable(type)
    BY <2>2 DEF ChangeType, KeepsTables, AddsTable
  <2>5. ASSUME NEW t \in Tables' \ changed', NEW x \in Lineage(types'[t].base)
        PROVE  TypeOf(x)' = TypeOf(x)
    <3>1. x # e
      BY <2>3, <2>5 DEF Behind, Tables
    <3>2. types'[t].base \in Entities \cup {None}
      <4>1. types' \in Seq(TypeSet)
        BY <2>3 DEF Typed, TypeOK, TypeSet
      <4>2. types'[t] \in TypeSet
        BY <4>1 DEF Tables
      <4>3. QED
        BY <4>2 DEF TypeSet
    <3>3. x \in Entities
      <4>1. \A y \in Entities : TypeOf(y).base \in Entities \cup {None}
        BY BasesOfEntities
      <4>2. Entities \in SUBSET Entities
        OBVIOUS
      <4>3. Lineage(types'[t].base) \subseteq Entities
        BY ONLY <3>2, <4>1, <4>2, LineWithin
      <4>4. QED
        BY <2>5, <4>3
    <3>4. QED
      BY <2>3, <3>1, <3>3 DEF OthersStay
  <2>6. QED
    BY <2>3, <2>4, <2>5 DEF Undisturbed
<1>11. QED
  BY <1>4, <1>5, <1>7, <1>8, <1>9, <1>10 DEF Next

(* Every step keeps the lists right.                                         *)
LEMMA HavingStep ==
  ASSUME Typed, RecordsAgree, BasesAbstract, HavingExact, [Next]_vars, "die" \notin BaseHazards
  PROVE  HavingExact'
<1>1. Undisturbed /\ (KeepsTables \/ \E type : AddsTable(type)) /\ Typed'
  BY Kinds, TypedStep
<1>2. CASE KeepsTables
  <2>1. types' = types /\ having' = having
    BY <1>2 DEF KeepsTables
  <2>2. QED
    BY <1>1, <2>1, HavingKept
<1>3. ASSUME NEW type, AddsTable(type) PROVE HavingExact'
  BY <1>1, <1>3, HavingOfNew DEF AddsTable
<1>4. QED
  BY <1>1, <1>2, <1>3

(* At the start there is the table of the empty type alone.                  *)
LEMMA HavingInit == Init => BasesAbstract /\ HavingExact
<1> SUFFICES ASSUME Init PROVE BasesAbstract /\ HavingExact
  OBVIOUS
<1>1. Typed /\ BasesInUse = {} /\ Tables = {1} /\ types[1] = [comps |-> {}, base |-> None]
  BY TypedInit DEF Init, BasesInUse, Tables
<1>2. BasesAbstract /\ Closed({})
  BY <1>1 DEF BasesAbstract, Closed
<1>3. \A c : Providers(types[1], c) = {}
  <2>1. types[1] \in TypeSet /\ types[1].base \in {} \cup {None}
    BY <1>1 DEF TypeSet
  <2>2. Lineage(types[1].base) \subseteq {}
    BY <1>1, <1>2, <2>1, ClosedLines
  <2>3. QED
    BY <1>1, <2>1, <2>2, ProviderIsBase
<1>4. ASSUME NEW c \in Comps
      PROVE  /\ Range(having[c]) \ changed =
                  {t \in Tables : c \in types[t].comps \cup InheritedBy(types[t])} \ changed
             /\ Len(having[c]) = Cardinality(Range(having[c]))
  <2>1. having[c] = <<>> /\ Range(having[c]) = {}
    BY DEF Init, Range
  <2>2. Cardinality({}) = 0
    BY FS_EmptySet
  <2>3. InheritedBy(types[1]) = {} /\ types[1].comps = {}
    BY <1>1, <1>3 DEF InheritedBy
  <2>4. {t \in Tables : c \in types[t].comps \cup InheritedBy(types[t])} = {}
    BY <1>1, <2>3
  <2>5. QED
    BY <2>1, <2>2, <2>4
<1>5. QED
  BY <1>2, <1>4 DEF HavingExact

(* No base dying: the list of a component names each table that owns or       *)
(* inherits it, once, but that a table one of whose bases has changed since   *)
(* it was made stays in the lists it was put in.                             *)
THEOREM ListsOfTablesExact ==
  ASSUME "die" \notin BaseHazards
  PROVE  Spec => []HavingExact
<1>1. Typed /\ RecordsAgree /\ BasesAbstract /\ HavingExact /\ [Next]_vars
      => Typed' /\ RecordsAgree' /\ BasesAbstract' /\ HavingExact'
  BY TypedStep, BasesStep, HavingStep
<1>2. Init => Typed /\ RecordsAgree /\ BasesAbstract /\ HavingExact
  BY TypedInit, HavingInit
<1>3. QED
  BY <1>1, <1>2, PTL DEF Spec

-----------------------------------------------------------------------------
(* The caches. *)

Accepted(shape) == {t \in Tables : Accepts(shape, types[t])}
BaseOf == [t \in Tables |-> types[t].base]

(* Tables of which those outside the history are the ones a query accepts.    *)
Fits(K, shape) == K \in SUBSET Tables /\ K \ changed = Accepted(shape) \ changed

(* Bases are numbers, which the order of a cache compares.                   *)
LEMMA BasesAreNumbers ==
  ASSUME Typed
  PROVE  /\ \A t \in Tables : types[t].base \in Nat
         /\ \A type \in TypeSet : type.base \in Nat
<1>1. ASSUME NEW type \in TypeSet PROVE type.base \in Nat
  <2>1. type.base \in Entities \cup {None}
    BY DEF TypeSet
  <2>2. Entities \subseteq Nat
    BY EntitiesNumbered
  <2>3. None \in Nat
    BY DEF None
  <2>4. QED
    BY <2>1, <2>2, <2>3
<1>2. QED
  BY <1>1, TypedFacts

(* A table that is offered is added at its place.                            *)
LEMMA OfferArranged ==
  ASSUME Typed, NEW shape \in Shapes, NEW cache, NEW K \in SUBSET Tables, NEW base,
         Arranged(cache, K, shape.ordered, base), \A u \in Tables : base[u] = types[u].base,
         NEW t, t \notin K, NEW type \in TypeSet, base[t] = type.base, NEW room
  PROVE  Arranged(Offer(shape, cache, t, type, room),
                  IF Accepts(shape, type) THEN K \cup {t} ELSE K, shape.ordered, base)
<1> DEFINE p == Spot(cache, shape.ordered, base, base[t])
           entry == Bind(shape, t, type, room)
<1>1. DOMAIN cache = 1..Len(cache) /\ \A i \in 1..Len(cache) : cache[i].id \in Tables
  BY DEF Arranged
<1>2. {i \in DOMAIN cache : types[cache[i].id].base <= type.base}
      = {i \in 1..Len(cache) : base[cache[i].id] <= base[t]}
  BY <1>1
<1>3. Position(shape, cache, type.base) = p
  BY <1>2 DEF Position, Spot
<1>4. entry.id = t
  BY DEF Bind
<1>5. \A u \in K \cup {t} : base[u] \in Nat
  BY BasesAreNumbers
<1> HIDE DEF entry, p
<1>6. Arranged(InsertAt(cache, p, entry), K \cup {t}, shape.ordered, base)
  BY <1>4, <1>5, ArrangedMore DEF p
<1>7. Offer(shape, cache, t, type, room)
      = IF Accepts(shape, type) THEN InsertAt(cache, p, entry) ELSE cache
  BY <1>3 DEF Offer, entry
<1>8. QED
  BY <1>6, <1>7

(* The candidates: no table twice, and no match outside but in the history.   *)
LEMMA CandidatesHold ==
  ASSUME Typed, HavingExact, NEW shape \in Shapes
  PROVE  LET list == Candidates(shape) IN
         /\ list \in Seq(Tables)
         /\ \A i, j \in 1..Len(list) : list[i] = list[j] => i = j
         /\ \A t \in Accepted(shape) \ changed : \E i \in 1..Len(list) : list[i] = t
<1> DEFINE all == [t \in Tables |-> t]
           lists == {all} \cup {having[c] : c \in shape.reads \cup shape.writes}
           Holds(l) == /\ l \in Seq(Tables)
                       /\ \A i, j \in 1..Len(l) : l[i] = l[j] => i = j
                       /\ \A t \in Accepted(shape) \ changed : \E i \in 1..Len(l) : l[i] = t
<1>1. Holds(all)
  <2>1. Tables = 1..Len(types) /\ Len(types) \in Nat
    BY TypedFacts
  <2>2. all \in Seq(Tables) /\ Len(all) = Len(types)
    BY <2>1
  <2>3. QED
    BY <2>1, <2>2 DEF Accepted
<1>2. ASSUME NEW c \in shape.reads \cup shape.writes PROVE Holds(having[c])
  <2>1. c \in Comps
    BY ShapesOfFields
  <2>2. having[c] \in Seq(Tables) /\ Len(having[c]) = Cardinality(Range(having[c]))
        /\ Range(having[c]) \ changed =
             {t \in Tables : c \in types[t].comps \cup InheritedBy(types[t])} \ changed
    BY <2>1 DEF HavingExact, Typed, TypeOK
  <2>3. \A i, j \in 1..Len(having[c]) : having[c][i] = having[c][j] => i = j
    BY <2>2, DistinctByCount
  <2>4. ASSUME NEW t \in Accepted(shape) \ changed PROVE \E i \in 1..Len(having[c]) : having[c][i] = t
    <3>1. t \in Tables \ changed /\ c \in types[t].comps \cup InheritedBy(types[t])
      BY DEF Accepted, Accepts
    <3>2. t \in Range(having[c]) /\ DOMAIN having[c] = 1..Len(having[c])
      BY <2>2, <3>1
    <3>3. QED
      BY <3>2 DEF Range
  <2>5. QED
    BY <2>2, <2>3, <2>4
<1>3. \A l \in lists : Holds(l)
  <2> HIDE DEF Holds, all
  <2>1. QED
    BY <1>1, <1>2
<1>4. \A l \in lists : Len(l) \in Nat
  <2> HIDE DEF lists
  <2>1. QED
    BY <1>3
<1> HIDE DEF Holds
<1>5. \E l \in lists : \A k \in lists : Len(l) <= Len(k)
  <2> DEFINE L == {Len(l) : l \in lists}
  <2>1. L \in SUBSET Nat /\ L # {}
    <3>1. all \in lists
      OBVIOUS
    <3> HIDE DEF lists
    <3>2. QED
      BY <1>4, <3>1
  <2> HIDE DEF lists
  <2>2. Min(L) \in L /\ \A x \in L : Min(L) <= x
    <3> HIDE DEF L
    <3>1. QED
      BY <2>1, LeastOf
  <2>3. QED
    BY <2>2
<1>6. Candidates(shape) = CHOOSE l \in lists : \A k \in lists : Len(l) <= Len(k)
  BY DEF Candidates
<1> HIDE DEF lists
<1>7. Candidates(shape) \in lists
  BY <1>5, <1>6
<1>8. Holds(Candidates(shape))
  BY <1>3, <1>7
<1>9. QED
  BY <1>8 DEF Holds

(* A new query lists what it matches, bound to where things are.             *)
LEMMA FilledArranged ==
  ASSUME Typed, HavingExact, NEW shape \in Shapes
  PROVE  /\ \E K : Fits(K, shape) /\ Arranged(Filled(shape), K, shape.ordered, BaseOf)
         /\ Filled(shape) \in Seq({Bind(shape, t, types[t], capacity) : t \in Tables})
<1>1. PICK list : /\ list = Candidates(shape) /\ list \in Seq(Tables)
                  /\ \A i, j \in 1..Len(list) : list[i] = list[j] => i = j
                  /\ \A t \in Accepted(shape) \ changed : \E i \in 1..Len(list) : list[i] = t
  BY CandidatesHold
<1> DEFINE N == Len(list)
           S == {Bind(shape, t, types[t], capacity) : t \in Tables}
           X == Seq(S)
           more(n, c) == Offer(shape, c, list[n], types[list[n]], capacity)
           step == [n \in Nat |-> [c \in X |-> IF n \in 1..N THEN more(n, c) ELSE c]]
           Found(found) == found = [n \in 0..N |-> IF n = 0 THEN <<>> ELSE more(n, found[n - 1])]
<1>2. N \in Nat /\ \A n \in 1..N : list[n] \in Tables
  BY <1>1
<1>3. ASSUME NEW n \in 1..N, NEW c \in X PROVE more(n, c) \in X
  <2>1. PICK t \in Tables : t = list[n]
    BY <1>2
  <2>2. PICK type \in TypeSet : type = types[t]
    BY TypedFacts
  <2>3. PICK entry \in S : entry = Bind(shape, t, type, capacity)
    BY <2>2
  <2>4. \A x \in S : x.id \in Tables
    BY DEF Bind
  <2> HIDE DEF S
  <2>5. DOMAIN c = 1..Len(c) /\ \A i \in 1..Len(c) : c[i].id \in Tables
    BY <2>4
  <2>6. Position(shape, c, type.base) = Spot(c, shape.ordered, BaseOf, type.base)
    <3>1. {i \in DOMAIN c : types[c[i].id].base <= type.base}
          = {i \in 1..Len(c) : BaseOf[c[i].id] <= type.base}
      BY <2>5 DEF BaseOf
    <3>2. QED
      BY <3>1 DEF Position, Spot
  <2>7. Position(shape, c, type.base) \in 1..(Len(c) + 1)
    BY <2>6, SlotWithin
  <2>8. InsertAt(c, Position(shape, c, type.base), entry) \in Seq(S)
    BY <2>7, Inserted
  <2>9. QED
    BY <2>1, <2>2, <2>3, <2>8 DEF Offer
<1>4. step \in [Nat -> [X -> X]] /\ <<>> \in X
  <2>1. ASSUME NEW n \in Nat PROVE [c \in X |-> IF n \in 1..N THEN more(n, c) ELSE c] \in [X -> X]
    <3> HIDE DEF X, more
    <3>1. QED
      BY <1>3
  <2>2. <<>> \in X
    OBVIOUS
  <2> HIDE DEF X, more
  <2>3. QED
    BY <2>1, <2>2
<1>5. PICK f \in [Nat -> X] : f[0] = <<>> /\ \A n \in Nat \ {0} : f[n] = step[n][f[n - 1]]
  <2> HIDE DEF step, X
  <2>1. PICK Y : Y = X
    OBVIOUS
  <2>2. PICK first \in Y : first = <<>>
    BY <1>4, <2>1
  <2>3. PICK g \in [Nat -> [Y -> Y]] : g = step
    BY <1>4, <2>1
  <2>4. \E f \in [Nat -> Y] : f[0] = first /\ \A n \in Nat \ {0} : f[n] = g[n][f[n - 1]]
    BY Iterated
  <2>5. QED
    BY <2>1, <2>2, <2>3, <2>4
<1>6. \A n \in 1..N : f[n] = more(n, f[n - 1]) /\ f[n - 1] \in X
  <2> HIDE DEF X, more
  <2>1. ASSUME NEW n \in 1..N PROVE f[n] = more(n, f[n - 1]) /\ f[n - 1] \in X
    <3>1. n \in Nat \ {0} /\ n - 1 \in Nat
      BY <1>2
    <3>2. f[n - 1] \in X /\ f[n] = step[n][f[n - 1]]
      BY <1>5, <3>1
    <3>3. QED
      BY <3>1, <3>2
  <2>2. QED
    BY <2>1
<1> HIDE DEF step
<1>7. Filled(shape) = f[N]
  <2> DEFINE g == [n \in 0..N |-> f[n]]
  <2>1. Found(g)
    <3> HIDE DEF more
    <3>1. \A n \in 1..N : g[n - 1] = f[n - 1]
      BY <1>2
    <3>2. \A n \in 0..N : f[n] = IF n = 0 THEN <<>> ELSE more(n, g[n - 1])
      <4>1. ASSUME NEW n \in 0..N, n # 0 PROVE f[n] = more(n, g[n - 1])
        <5>1. n \in 1..N
          BY <1>2, <4>1
        <5>2. QED
          BY <1>6, <3>1, <5>1
      <4>2. QED
        BY <1>5, <4>1
    <3>3. QED
      BY <3>2
  <2>2. ASSUME NEW h, Found(h) PROVE h[N] = f[N]
    <3> HIDE DEF more
    <3>1. \A n \in 0..N : h[n] = IF n = 0 THEN <<>> ELSE more(n, h[n - 1])
      BY <2>2
    <3> DEFINE Different == {n \in 0..N : h[n] # f[n]}
    <3>2. SUFFICES ASSUME Different # {} PROVE FALSE
      BY <1>2
    <3>3. PICK n \in Different : \A m \in Different : n <= m
      <4>1. Different \in SUBSET Nat
        OBVIOUS
      <4>2. QED
        BY <3>2, <4>1, LeastOf
    <3>4. n # 0
      BY <1>5, <3>1
    <3>5. n \in 1..N /\ n - 1 \in 0..N /\ n - 1 \notin Different
      BY <1>2, <3>3, <3>4
    <3>6. QED
      BY <1>6, <3>1, <3>3, <3>4, <3>5
  <2> DEFINE found == CHOOSE h : Found(h)
  <2>3. Found(found)
    <3> HIDE DEF Found, g
    <3>1. QED
      BY <2>1
  <2>4. Filled(shape) = found[N]
    BY <1>1 DEF Filled
  <2> HIDE DEF found, Found
  <2>5. QED
    BY <2>2, <2>3, <2>4
<1> HIDE DEF Found
<1> DEFINE Seen(n) == {t \in Accepted(shape) : \E i \in 1..n : list[i] = t}
           Unlike == {n \in 0..N : ~Arranged(f[n], Seen(n), shape.ordered, BaseOf)}
<1>8. Arranged(<<>>, {}, shape.ordered, BaseOf)
  BY DEF Arranged
<1>9. Unlike = {}
  <2>1. SUFFICES ASSUME Unlike # {} PROVE FALSE
    OBVIOUS
  <2>2. PICK n \in Unlike : \A m \in Unlike : n <= m
    <3>1. Unlike \in SUBSET Nat
      BY <1>2
    <3>2. QED
      BY <2>1, <3>1, LeastOf
  <2>3. n # 0
    <3>1. Seen(0) = {}
      OBVIOUS
    <3>2. QED
      BY <1>5, <1>8, <3>1
  <2>4. n \in 1..N /\ n - 1 \in 0..N /\ n - 1 \notin Unlike
    BY <1>2, <2>2, <2>3
  <2>5. Arranged(f[n - 1], Seen(n - 1), shape.ordered, BaseOf)
    BY <2>4
  <2>6. PICK t : t = list[n] /\ t \in Tables
    BY <1>2, <2>4
  <2>7. t \notin Seen(n - 1) /\ Seen(n - 1) \in SUBSET Tables
    <3>1. \A i \in 1..(n - 1) : list[i] # t
      BY <1>1, <1>2, <2>4, <2>6
    <3>2. QED
      BY <3>1 DEF Accepted
  <2>8. Seen(n) = IF Accepts(shape, types[t]) THEN Seen(n - 1) \cup {t} ELSE Seen(n - 1)
    <3>1. \A u : (\E i \in 1..n : list[i] = u) <=> u = t \/ \E i \in 1..(n - 1) : list[i] = u
      BY <1>2, <2>4, <2>6
    <3>2. t \in Accepted(shape) <=> Accepts(shape, types[t])
      BY <2>6 DEF Accepted
    <3>3. QED
      BY <3>1, <3>2
  <2>9. PICK type \in TypeSet : type = types[t]
    BY <2>6, TypedFacts
  <2>10. f[n] = Offer(shape, f[n - 1], t, type, capacity)
    BY <1>6, <2>4, <2>6, <2>9
  <2>11. (\A u \in Tables : BaseOf[u] = types[u].base) /\ BaseOf[t] = type.base
    BY <2>6, <2>9 DEF BaseOf
  <2> HIDE DEF Seen
  <2>12. Arranged(f[n], Seen(n), shape.ordered, BaseOf)
    <3>1. PICK cache : cache = f[n - 1]
      OBVIOUS
    <3>2. PICK K : K = Seen(n - 1)
      OBVIOUS
    <3>3. Arranged(cache, K, shape.ordered, BaseOf) /\ t \notin K /\ K \in SUBSET Tables
      BY <2>5, <2>7, <3>1, <3>2
    <3>4. Arranged(Offer(shape, cache, t, type, capacity),
                   IF Accepts(shape, type) THEN K \cup {t} ELSE K, shape.ordered, BaseOf)
      BY <2>11, <3>3, OfferArranged
    <3>5. QED
      BY <2>8, <2>9, <2>10, <3>1, <3>2, <3>4
  <2>13. QED
    BY <2>2, <2>12
<1>10. Arranged(f[N], Seen(N), shape.ordered, BaseOf)
  <2>1. N \in 0..N
    BY <1>2
  <2> HIDE DEF Seen
  <2>2. QED
    BY <1>9, <2>1
<1>11. Fits(Seen(N), shape)
  BY <1>1 DEF Fits, Accepted
<1>12. f[N] \in X
  BY <1>2, <1>5
<1> HIDE DEF Seen
<1>13. QED
  BY <1>7, <1>10, <1>11, <1>12

(* The slots in use, and the free ones, are there once.                      *)
Slots ==
  /\ \A i, j \in DOMAIN active : active[i] = active[j] => i = j
  /\ \A i, j \in DOMAIN free : free[i] = free[j] => i = j
  /\ Range(active) \cap Range(free) = {}

(* A new query takes a slot no query has, and comes last among the active.   *)
LEMMA Activated ==
  ASSUME Typed, Slots, NEW shape, CreateQuery(shape)
  PROVE  LET query == [alive |-> TRUE, shape |-> shape, cache |-> Filled(shape)] IN
         /\ Slots'
         /\ \E s : /\ s \notin Range(active) /\ Range(active') = Range(active) \cup {s}
                   /\ DOMAIN queries' = DOMAIN queries \cup {s} /\ queries'[s] = query
                   /\ \A x \in DOMAIN queries \ {s} : queries'[x] = queries[x]
<1> DEFINE query == [alive |-> TRUE, shape |-> shape, cache |-> Filled(shape)]
           D == DOMAIN queries
<1>1. PICK s : s = IF free = <<>> THEN Len(queries) + 1 ELSE Head(free)
  OBVIOUS
<1>2. queries' = (IF free = <<>> THEN Append(queries, query) ELSE [queries EXCEPT ![s] = query])
      /\ free' = (IF free = <<>> THEN free ELSE Tail(free)) /\ active' = Append(active, s)
  BY <1>1 DEF CreateQuery, QueryInit
<1> HIDE DEF query
<1>3. D = 1..Len(queries) /\ Len(queries) \in Nat /\ active \in Seq(D) /\ free \in Seq(D)
      /\ queries \in Seq(Range(queries))
  BY TypedFacts DEF Typed, TypeOK, Lists
<1>4. Range(active) \subseteq D /\ DOMAIN active = 1..Len(active) /\ Len(active) \in Nat
  BY <1>3 DEF Range
<1>5. /\ s \notin Range(active)
      /\ DOMAIN queries' = D \cup {s} /\ queries'[s] = query
      /\ \A x \in D \ {s} : queries'[x] = queries[x]
      /\ \A i, j \in DOMAIN free' : free'[i] = free'[j] => i = j
      /\ Range(free') \subseteq Range(free) \ {s}
  <2>1. CASE free = <<>>
    <3>1. s = Len(queries) + 1 /\ s \notin D
      BY <1>1, <1>3, <2>1
    <3>2. s \notin Range(active)
      BY <1>4, <3>1
    <3>3. /\ Len(queries') = Len(queries) + 1 /\ DOMAIN queries' = 1..(Len(queries) + 1)
          /\ queries'[s] = query /\ \A x \in 1..Len(queries) : queries'[x] = queries[x]
      <4> DEFINE V == Range(queries) \cup {query}
      <4>1. Range(queries) \subseteq V /\ query \in V
        OBVIOUS
      <4> HIDE DEF V
      <4>2. queries \in Seq(V)
        BY <1>3, <4>1, SeqMonotonic
      <4>3. queries' = Append(queries, query)
        BY <1>2, <2>1
      <4>4. QED
        BY <3>1, <4>1, <4>2, <4>3, AppendProperties
    <3>4. D \cup {s} = 1..(Len(queries) + 1)
      BY <1>3, <3>1
    <3>5. free' = <<>> /\ Range(free') = {}
      BY <1>2, <2>1 DEF Range
    <3>6. QED
      BY <1>3, <2>1, <3>2, <3>3, <3>4, <3>5
  <2>2. CASE free # <<>>
    <3>1. /\ s = free[1] /\ free' = Tail(free) /\ Len(free) \in Nat \ {0} /\ DOMAIN free = 1..Len(free)
          /\ DOMAIN free' = 1..(Len(free) - 1)
          /\ \A i \in 1..(Len(free) - 1) : free'[i] = free[i + 1]
      BY <1>1, <1>2, <1>3, <2>2
    <3>2. s \in Range(free) /\ s \in D
      <4>1. 1 \in DOMAIN free
        BY <3>1
      <4>2. s \in Range(free)
        BY <3>1, <4>1 DEF Range
      <4> HIDE DEF D
      <4>3. s \in D
        BY <1>3, <3>1, <4>1
      <4>4. QED
        BY <4>2, <4>3
    <3>3. s \notin Range(active)
      BY <3>2 DEF Slots
    <3>4. DOMAIN queries' = D /\ queries'[s] = query /\ \A x \in D \ {s} : queries'[x] = queries[x]
      BY <1>2, <1>3, <2>2, <3>2
    <3>5. \A i, j \in DOMAIN free : free[i] = free[j] => i = j
      BY DEF Slots
    <3>6. ASSUME NEW i \in DOMAIN free', NEW j \in DOMAIN free', free'[i] = free'[j] PROVE i = j
      <4>1. i + 1 \in DOMAIN free /\ j + 1 \in DOMAIN free /\ free[i + 1] = free[j + 1]
            /\ i \in Nat /\ j \in Nat
        BY <3>1, <3>6
      <4>2. QED
        BY <3>5, <4>1
    <3>7. ASSUME NEW x \in Range(free') PROVE x \in Range(free) \ {s}
      <4>1. PICK i \in DOMAIN free' : x = free'[i]
        BY DEF Range
      <4>2. i + 1 \in DOMAIN free /\ 1 \in DOMAIN free /\ i + 1 # 1 /\ x = free[i + 1]
        BY <3>1, <4>1
      <4>3. x # s
        BY <3>1, <3>5, <4>2
      <4>4. QED
        BY <4>2, <4>3 DEF Range
    <3>8. QED
      BY <3>2, <3>3, <3>4, <3>6, <3>7
  <2>3. QED
    BY <2>1, <2>2
<1>6. /\ Range(active') = Range(active) \cup {s}
      /\ DOMAIN active' = 1..(Len(active) + 1) /\ active'[Len(active) + 1] = s
      /\ \A i \in 1..Len(active) : active'[i] = active[i]
  <2>1. active \in Seq(D \cup {s}) /\ s \in D \cup {s}
    BY <1>3, SeqMonotonic
  <2> HIDE DEF D
  <2>2. QED
    BY <1>2, <2>1, RangeAppended, AppendProperties
<1>7. \A i, j \in DOMAIN active' : active'[i] = active'[j] => i = j
  <2>1. \A i \in 1..Len(active) : active[i] # s
    BY <1>4, <1>5 DEF Range
  <2>2. \A i, j \in 1..Len(active) : active[i] = active[j] => i = j
    BY <1>4 DEF Slots
  <2>3. \A i \in DOMAIN active' : i \in 1..Len(active) \/ i = Len(active) + 1
    BY <1>4, <1>6
  <2>4. QED
    BY <1>6, <2>1, <2>2, <2>3
<1>8. Slots'
  <2>1. Range(active') \cap Range(free') = {}
    BY <1>5, <1>6 DEF Slots
  <2>2. QED
    BY <1>5, <1>7, <2>1 DEF Slots
<1>9. QED
  BY <1>5, <1>6, <1>8 DEF query

(* A query destroyed gives its slot back; the others stay active, each once. *)
LEMMA Deactivated ==
  ASSUME Typed, Slots, NEW s, FiniQuery(s)
  PROVE  /\ Slots'
         /\ Range(active') = Range(active) \ {s}
         /\ DOMAIN queries' = DOMAIN queries /\ queries'[s] = Gone
         /\ \A x \in DOMAIN queries \ {s} : queries'[x] = queries[x]
<1> DEFINE D == DOMAIN queries
           n == Len(active)
           seq == [i \in DOMAIN active |-> IF active[i] = s THEN Last(active) ELSE active[i]]
<1>1. active' = Front(seq) /\ queries' = [queries EXCEPT ![s] = Gone] /\ free' = <<s>> \o free
      /\ s \in Range(active)
  BY DEF FiniQuery, QueryFini
<1>2. active \in Seq(D) /\ free \in Seq(D) /\ n \in Nat /\ queries \in Seq(Range(queries))
      /\ DOMAIN active = 1..n
  BY DEF Typed, TypeOK, Lists
<1>3. PICK k \in 1..n : active[k] = s
  BY <1>1, <1>2 DEF Range
<1>4. s \in D /\ n \in 1..n /\ n \in Nat \ {0} /\ Last(active) = active[n]
  BY <1>2, <1>3 DEF Last
<1>5. \A i, j \in 1..n : active[i] = active[j] => i = j
  BY <1>2 DEF Slots
<1>6. DOMAIN active' = 1..(n - 1)
      /\ \A i \in 1..(n - 1) : active'[i] = IF i = k THEN active[n] ELSE active[i]
  <2>1. seq \in Seq(D) /\ Len(seq) = n
    BY <1>2, <1>4
  <2>2. \A i \in 1..n : seq[i] = IF i = k THEN active[n] ELSE active[i]
    BY <1>2, <1>3, <1>4, <1>5
  <2>3. Front(seq) = SubSeq(seq, 1, n - 1)
    BY <2>1 DEF Front
  <2> HIDE DEF seq
  <2>4. Len(SubSeq(seq, 1, n - 1)) = n - 1 /\ DOMAIN SubSeq(seq, 1, n - 1) = 1..(n - 1)
        /\ \A i \in 1..(n - 1) : SubSeq(seq, 1, n - 1)[i] = seq[i]
    BY <1>4, <2>1
  <2>5. \A i \in 1..(n - 1) : i \in 1..n
    BY <1>4
  <2>6. QED
    BY <1>1, <2>2, <2>3, <2>4, <2>5
<1>7. \A i, j \in DOMAIN active' : active'[i] = active'[j] => i = j
  BY <1>3, <1>4, <1>5, <1>6
<1>8. Range(active') = Range(active) \ {s}
  <2>1. ASSUME NEW x \in Range(active') PROVE x \in Range(active) /\ x # s
    <3>1. PICK i \in 1..(n - 1) : x = active'[i]
      BY <1>6 DEF Range
    <3>2. \E j \in 1..n : j # k /\ x = active[j]
      BY <1>4, <1>6, <3>1
    <3>3. QED
      BY <1>2, <1>3, <1>5, <3>2 DEF Range
  <2>2. ASSUME NEW x \in Range(active), x # s PROVE x \in Range(active')
    <3>1. PICK i \in 1..n : x = active[i]
      BY <1>2 DEF Range
    <3>2. i # k
      BY <1>3, <2>2, <3>1
    <3>3. CASE i = n
      <4>1. k \in 1..(n - 1) /\ active'[k] = x
        BY <1>3, <1>4, <1>6, <3>1, <3>2, <3>3
      <4>2. QED
        BY <1>6, <4>1 DEF Range
    <3>4. CASE i # n
      <4>1. i \in 1..(n - 1) /\ active'[i] = x
        BY <1>4, <1>6, <3>1, <3>2, <3>4
      <4>2. QED
        BY <1>6, <4>1 DEF Range
    <3>5. QED
      BY <3>3, <3>4
  <2>3. QED
    BY <2>1, <2>2
<1>9. /\ \A i, j \in DOMAIN free' : free'[i] = free'[j] => i = j
      /\ Range(free') = Range(free) \cup {s}
  <2>1. \A i, j \in DOMAIN free : free[i] = free[j] => i = j
    BY DEF Slots
  <2>2. s \notin Range(free)
    BY <1>1 DEF Slots
  <2>3. DOMAIN free = 1..Len(free) /\ Len(free) \in Nat
    BY <1>2
  <2>4. DOMAIN free' = 1..(Len(free) + 1)
        /\ \A i \in 1..(Len(free) + 1) : free'[i] = IF i = 1 THEN s ELSE free[i - 1]
    <3>1. <<s>> \in Seq(D) /\ Len(<<s>>) = 1 /\ <<s>>[1] = s
      BY <1>4
    <3> HIDE DEF D
    <3>2. /\ <<s>> \o free \in Seq(D) /\ Len(<<s>> \o free) = 1 + Len(free)
          /\ \A i \in 1..(1 + Len(free)) :
               (<<s>> \o free)[i] = IF i <= 1 THEN <<s>>[i] ELSE free[i - 1]
      BY <1>2, <3>1, ConcatProperties
    <3>3. QED
      BY <1>1, <2>3, <3>1, <3>2
  <2>5. \A i \in 1..Len(free) : free[i] # s
    BY <2>2, <2>3 DEF Range
  <2>6. \A i, j \in DOMAIN free' : free'[i] = free'[j] => i = j
    <3>1. \A i \in DOMAIN free' : i \in Nat /\ (i # 1 => i - 1 \in 1..Len(free))
      BY <2>3, <2>4
    <3>2. QED
      BY <2>1, <2>3, <2>4, <2>5, <3>1
  <2>7. ASSUME NEW x PROVE x \in Range(free') <=> x \in Range(free) \cup {s}
    <3>1. ASSUME x \in Range(free') PROVE x \in Range(free) \cup {s}
      <4>1. PICK i \in 1..(Len(free) + 1) : x = free'[i]
        BY <2>4, <3>1 DEF Range
      <4>2. i # 1 => i - 1 \in DOMAIN free /\ x = free[i - 1]
        BY <2>3, <2>4, <4>1
      <4>3. QED
        BY <2>4, <4>1, <4>2 DEF Range
    <3>2. ASSUME x = s PROVE x \in Range(free')
      <4>1. 1 \in DOMAIN free' /\ free'[1] = x
        BY <2>3, <2>4, <3>2
      <4>2. QED
        BY <4>1 DEF Range
    <3>3. ASSUME x \in Range(free) PROVE x \in Range(free')
      <4>1. PICK i \in 1..Len(free) : x = free[i]
        BY <2>3, <3>3 DEF Range
      <4>2. i + 1 \in DOMAIN free' /\ free'[i + 1] = x
        BY <2>3, <2>4, <4>1
      <4>3. QED
        BY <4>2 DEF Range
    <3>4. QED
      BY <3>1, <3>2, <3>3
  <2>8. QED
    BY <2>6, <2>7
<1>10. Slots'
  <2>1. Range(active') \cap Range(free') = {}
    BY <1>8, <1>9 DEF Slots
  <2>2. QED
    BY <1>7, <1>9, <2>1 DEF Slots
<1>11. DOMAIN queries' = D /\ queries'[s] = Gone /\ \A x \in D \ {s} : queries'[x] = queries[x]
  BY <1>1, <1>2, <1>4
<1>12. QED
  BY <1>8, <1>10, <1>11

QueryExact(q) ==
  /\ q = [alive |-> TRUE, shape |-> q.shape, cache |-> q.cache] /\ q.shape \in Shapes
  /\ \E K : Fits(K, q.shape) /\ Arranged(q.cache, K, q.shape.ordered, BaseOf)

(* The queries alive are the active ones, and their caches are exact.        *)
QueriesExact ==
  /\ Slots
  /\ \A s \in DOMAIN queries :
       IF s \in Range(active) THEN QueryExact(queries[s]) ELSE queries[s] = Gone

(* What the invariant says of each query is what the property asks.          *)
LEMMA ExactCaches == Typed /\ QueriesExact => CacheExact
<1> SUFFICES ASSUME Typed, QueriesExact, NEW s \in DOMAIN queries, queries[s].alive
             PROVE  LET cache == queries[s].cache
                        base(i) == types[cache[i].id].base
                    IN  /\ {cache[i].id : i \in DOMAIN cache} \ changed
                           = {t \in Tables : Accepts(queries[s].shape, types[t])} \ changed
                        /\ Len(cache) = Cardinality({cache[i].id : i \in DOMAIN cache})
                        /\ queries[s].shape.ordered =>
                             \A i, j \in DOMAIN cache : i < j => base(i) <= base(j)
  BY DEF CacheExact
<1> DEFINE cache == queries[s].cache
           shape == queries[s].shape
<1>1. PICK K : Fits(K, shape) /\ Arranged(cache, K, shape.ordered, BaseOf)
  <2>1. s \in Range(active)
    BY DEF QueriesExact, Gone
  <2>2. QED
    BY <2>1 DEF QueriesExact, QueryExact
<1> HIDE DEF cache, shape
<1>2. Len(cache) \in Nat /\ DOMAIN cache = 1..Len(cache)
  BY <1>1 DEF Arranged
<1>3. {cache[i].id : i \in DOMAIN cache} = K
  BY <1>1, <1>2 DEF Arranged
<1>4. Cardinality({cache[i].id : i \in DOMAIN cache}) = Len(cache)
  <2> DEFINE ids == [i \in 1..Len(cache) |-> cache[i].id]
  <2>1. DOMAIN ids = 1..Len(cache) /\ \A i \in 1..Len(cache) : ids[i] = cache[i].id
    OBVIOUS
  <2>2. {cache[i].id : i \in DOMAIN cache} = {ids[i] : i \in 1..Len(cache)}
    BY <1>2, <2>1
  <2>3. \A i, j \in 1..Len(cache) : ids[i] = ids[j] => i = j
    BY <1>1, <2>1 DEF Arranged
  <2> HIDE DEF ids
  <2>4. Cardinality({ids[i] : i \in 1..Len(cache)}) = Len(cache)
    BY <1>2, <2>1, <2>3, CountOfDistinct
  <2>5. QED
    BY <2>2, <2>4
<1>5. \A i \in DOMAIN cache : BaseOf[cache[i].id] = types[cache[i].id].base
  BY <1>1, <1>2 DEF Arranged, Fits, BaseOf
<1>6. shape.ordered => \A i, j \in DOMAIN cache : i < j => types[cache[i].id].base <= types[cache[j].id].base
  BY <1>1, <1>2, <1>5 DEF Arranged
<1>7. QED
  BY <1>1, <1>3, <1>4, <1>6 DEF cache, shape, Accepted, Fits

(* What a query accepts stays with the tables outside the history.            *)
LEMMA TablesStay ==
  ASSUME Typed, Typed', Undisturbed, types' = types
  PROVE  (\A shape, K : Fits(K, shape) => Fits(K, shape)') /\ BaseOf' = BaseOf
<1>1. Tables' = Tables
  BY DEF Tables
<1>2. \A t \in Tables \ changed' : \A shape : Accepts(shape, types[t])' <=> Accepts(shape, types[t])
  BY <1>1, TableStays DEF Undisturbed
<1>3. \A shape : Accepted(shape)' \ changed' = Accepted(shape) \ changed'
  BY <1>1, <1>2 DEF Accepted
<1>4. QED
  BY <1>1, <1>3 DEF Fits, Undisturbed, BaseOf

(* A query with another cache                                                *)
LEMMA CacheReplaced ==
  ASSUME NEW q, q = [alive |-> TRUE, shape |-> q.shape, cache |-> q.cache], NEW cache2
  PROVE  [q EXCEPT !.cache = cache2] = [alive |-> TRUE, shape |-> q.shape, cache |-> cache2]
<1> DEFINE q2 == [alive |-> TRUE, shape |-> q.shape, cache |-> cache2]
           q3 == [q EXCEPT !.cache = cache2]
<1>1. DOMAIN q = {"alive", "shape", "cache"} /\ q.alive = TRUE
  OBVIOUS
<1>2. DOMAIN q2 = {"alive", "shape", "cache"} /\ q2.alive = TRUE /\ q2.shape = q.shape
      /\ q2.cache = cache2 /\ q2 = [x \in {"alive", "shape", "cache"} |-> q2[x]]
  BY ONLY DEF q2
<1>3. DOMAIN q3 = DOMAIN q /\ q3.alive = q.alive /\ q3.shape = q.shape /\ q3.cache = cache2
      /\ q3 = [x \in DOMAIN q |-> q3[x]]
  BY ONLY <1>1 DEF q3
<1> HIDE DEF q2, q3
<1>4. q2 = q3
  BY ONLY <1>1, <1>2, <1>3
<1>5. QED
  BY ONLY <1>4 DEF q2, q3

(* A query that stays, or whose pointers are bound again.                    *)
LEMMA QueryAgain ==
  ASSUME Typed, Typed', Undisturbed, types' = types, NEW q, QueryExact(q), NEW cache2,
         cache2 = [i \in DOMAIN q.cache |-> cache2[i]],
         \A i \in DOMAIN q.cache : cache2[i].id = q.cache[i].id,
         NEW q2, q2 = [q EXCEPT !.cache = cache2]
  PROVE  QueryExact(q2)'
<1>2. q2 = [alive |-> TRUE, shape |-> q.shape, cache |-> cache2] /\ q.shape \in Shapes
  BY CacheReplaced DEF QueryExact
<1>1. PICK K : Fits(K, q.shape) /\ Arranged(q.cache, K, q.shape.ordered, BaseOf)
  BY DEF QueryExact
<1>3. Arranged(cache2, K, q.shape.ordered, BaseOf)
  BY <1>1, ArrangedAgain
<1>4. Fits(K, q.shape)' /\ BaseOf' = BaseOf
  BY <1>1, TablesStay
<1>5. Fits(K, q2.shape)' /\ Arranged(q2.cache, K, q2.shape.ordered, BaseOf')
  BY <1>2, <1>3, <1>4
<1>6. q2 = [alive |-> TRUE, shape |-> q2.shape, cache |-> q2.cache] /\ q2.shape \in Shapes
  BY <1>2
<1>7. QED
  BY <1>5, <1>6 DEF QueryExact

(* A query no step touches stays exact while the tables stay.                *)
LEMMA QueryStays ==
  ASSUME Typed, Typed', Undisturbed, types' = types, NEW q, QueryExact(q)
  PROVE  QueryExact(q)'
<1>1. PICK K : Fits(K, q.shape) /\ Arranged(q.cache, K, q.shape.ordered, BaseOf)
  BY DEF QueryExact
<1>2. Fits(K, q.shape)' /\ BaseOf' = BaseOf
  BY <1>1, TablesStay
<1>3. QED
  BY <1>1, <1>2 DEF QueryExact

(* A query that a new table is offered to.                                   *)
LEMMA Offered ==
  ASSUME Typed, Typed', NEW type, type \in TypeSet, CreateTable(type), NEW q, QueryExact(q),
         NEW n, n = Len(types) + 1, NEW room
  PROVE  \E K, M : /\ Fits(K, q.shape) /\ Named(q.cache) = K
                   /\ M = IF Accepts(q.shape, type) THEN K \cup {n} ELSE K
                   /\ Arranged(Offer(q.shape, q.cache, n, type, room), M, q.shape.ordered, BaseOf')
<1>2. Tables' = Tables \cup {n} /\ types'[n] = type /\ \A t \in Tables : types'[t] = types[t]
  BY CreateTyped
<1>3. n \notin Tables
  BY TypedFacts
<1>4. PICK base2 : base2 = BaseOf'
  OBVIOUS
<1>5. base2[n] = type.base /\ \A t \in Tables : base2[t] = types[t].base /\ base2[t] = BaseOf[t]
  BY <1>2, <1>4 DEF BaseOf
<1>6. q.shape \in Shapes
  BY DEF QueryExact
<1>7. PICK K : Fits(K, q.shape) /\ Arranged(q.cache, K, q.shape.ordered, BaseOf)
  BY DEF QueryExact
<1>8. K \in SUBSET Tables /\ q.cache = [i \in DOMAIN q.cache |-> q.cache[i]]
  BY <1>7 DEF Fits, Arranged
<1>9. Arranged(q.cache, K, q.shape.ordered, base2)
  BY <1>5, <1>7, <1>8, ArrangedAgain
<1>10. PICK M : /\ M = IF Accepts(q.shape, type) THEN K \cup {n} ELSE K
                /\ Arranged(Offer(q.shape, q.cache, n, type, room), M, q.shape.ordered, base2)
  BY <1>3, <1>5, <1>6, <1>8, <1>9, OfferArranged
<1>11. Named(q.cache) = K
  BY <1>7, ArrangedNames
<1>12. QED
  BY <1>4, <1>7, <1>10, <1>11

LEMMA QueryOffered ==
  ASSUME Typed, Typed', Undisturbed, NEW type, type \in TypeSet, CreateTable(type),
         NEW q, QueryExact(q), NEW n, n = Len(types) + 1, NEW room,
         NEW q2, q2 = [q EXCEPT !.cache = Offer(q.shape, q.cache, n, type, room)]
  PROVE  QueryExact(q2)'
<1>1. PICK cache2 : cache2 = Offer(q.shape, q.cache, n, type, room)
  OBVIOUS
<1>2. Tables' = Tables \cup {n} /\ types'[n] = type /\ \A t \in Tables : types'[t] = types[t]
  BY CreateTyped
<1>3. n \notin Tables
  BY TypedFacts
<1>6. q = [alive |-> TRUE, shape |-> q.shape, cache |-> q.cache] /\ q.shape \in Shapes
  BY DEF QueryExact
<1>10. PICK K, M : /\ Fits(K, q.shape) /\ M = IF Accepts(q.shape, type) THEN K \cup {n} ELSE K
                   /\ Arranged(cache2, M, q.shape.ordered, BaseOf')
  BY <1>1, Offered
<1>11. Fits(M, q.shape)'
  <2>1. \A t \in Tables \ changed' : Accepts(q.shape, types[t])' <=> Accepts(q.shape, types[t])
    BY <1>2, TableStays DEF Undisturbed
  <2>2. n \notin changed' => (Accepts(q.shape, types[n])' <=> Accepts(q.shape, type))
    <3>1. n \notin changed' => (Accepts(q.shape, type)' <=> Accepts(q.shape, type))
      BY <1>2, InheritedStays DEF Undisturbed
    <3>2. Accepts(q.shape, types[n])' <=> Accepts(q.shape, type)'
      BY <1>2 DEF Accepts, InheritedBy, Providers, Line
    <3>3. QED
      BY <3>1, <3>2
  <2>3. Accepted(q.shape)' \ changed' =
          (IF Accepts(q.shape, type) THEN Accepted(q.shape) \cup {n} ELSE Accepted(q.shape)) \ changed'
    BY <1>2, <1>3, <2>1, <2>2 DEF Accepted
  <2>4. QED
    BY <1>2, <1>10, <2>3 DEF Fits, Undisturbed
<1>12. q2 = [q EXCEPT !.cache = cache2]
  BY <1>1
<1>13. q2 = [alive |-> TRUE, shape |-> q.shape, cache |-> cache2]
  BY ONLY <1>6, <1>12, CacheReplaced
<1>14. q2.shape = q.shape /\ q2.cache = cache2
       /\ q2 = [alive |-> TRUE, shape |-> q2.shape, cache |-> q2.cache]
  BY ONLY <1>13
<1>15. Fits(M, q2.shape)' /\ Arranged(q2.cache, M, q2.shape.ordered, BaseOf')
  BY <1>10, <1>11, <1>14
<1>16. q2.shape \in Shapes
  BY <1>6, <1>14
<1>17. QED
  BY <1>14, <1>15, <1>16 DEF QueryExact

(* Every step keeps the queries exact.                                       *)
LEMMA QueriesStep ==
  ASSUME Typed, RecordsAgree, BasesAbstract, HavingExact, QueriesExact, [Next]_vars,
         "die" \notin BaseHazards
  PROVE  QueriesExact'
<1>1. Typed' /\ Undisturbed /\ (KeepsTables \/ \E type : AddsTable(type))
  BY Kinds, TypedStep
<1>2. \A s \in DOMAIN queries :
        /\ s \in Range(active) => QueryExact(queries[s])
        /\ s \notin Range(active) => queries[s] = Gone
  BY DEF QueriesExact
<1>3. ASSUME types' = types, UNCHANGED queryVars PROVE QueriesExact'
  <2>1. \A q : QueryExact(q) => QueryExact(q)'
    BY <1>1, <1>3, QueryStays
  <2>2. queries' = queries /\ active' = active /\ free' = free
    BY <1>3 DEF queryVars
  <2>3. Slots'
    BY <2>2 DEF QueriesExact, Slots
  <2>4. ASSUME NEW s \in DOMAIN queries', s \in Range(active') PROVE QueryExact(queries[s])'
    <3>1. PICK q : q = queries[s]
      OBVIOUS
    <3>2. QueryExact(q)'
      BY <1>2, <2>1, <2>2, <2>4, <3>1
    <3>3. q = queries'[s]
      BY <2>2, <3>1
    <3>4. QED
      BY <3>2, <3>3 DEF QueryExact
  <2>5. QED
    BY <1>2, <2>2, <2>3, <2>4 DEF QueriesExact
<1>4. ASSUME types' = types, NEW t \in Tables, GrowFor(t), UNCHANGED <<active, free>>
      PROVE  QueriesExact'
  <2>1. Slots'
    BY <1>4 DEF QueriesExact, Slots
  <2>2. DOMAIN queries' = DOMAIN queries
    BY <1>4, GrowTyped
  <2>3. ASSUME NEW s \in DOMAIN queries
        PROVE  IF s \in Range(active') THEN QueryExact(queries[s])' ELSE queries'[s] = Gone
    <3>1. PICK q : q = queries[s]
      OBVIOUS
    <3>2. PICK q2 : q2 = queries'[s]
      OBVIOUS
    <3>3. CASE q2 = q
      <4>1. s \in Range(active) => QueryExact(q)'
        BY <1>1, <1>2, <1>4, <3>1, QueryStays
      <4>2. s \in Range(active) => QueryExact(queries[s])'
        BY <3>2, <3>3, <4>1 DEF QueryExact
      <4>3. QED
        BY <1>2, <1>4, <3>1, <3>2, <3>3, <4>2
    <3>4. CASE q2 # q
      <4>1. queries' = RefreshAfterGrowth(t, capacity')
        BY <1>4, <3>1, <3>2, <3>4 DEF GrowFor
      <4> DEFINE cache2 == [i \in DOMAIN q.cache |->
                              IF MustRebind(t, q.cache[i].id)
                              THEN Bind(q.shape, q.cache[i].id, types[q.cache[i].id], capacity')
                              ELSE q.cache[i]]
      <4>2. s \in Range(active) /\ q2 = [q EXCEPT !.cache = cache2]
        BY <3>1, <3>2, <3>4, <4>1 DEF RefreshAfterGrowth
      <4>3. \A i \in DOMAIN q.cache : cache2[i].id = q.cache[i].id
        BY DEF Bind
      <4>4. QueryExact(q) /\ cache2 = [i \in DOMAIN q.cache |-> cache2[i]]
        BY <1>2, <3>1, <4>2
      <4> HIDE DEF cache2
      <4>5. QueryExact(q2)'
        BY <1>1, <1>4, <4>2, <4>3, <4>4, QueryAgain
      <4>6. QueryExact(queries[s])'
        BY <3>2, <4>5 DEF QueryExact
      <4>7. QED
        BY <1>4, <4>2, <4>6
    <3>5. QED
      BY <3>3, <3>4
  <2>4. QED
    BY <2>1, <2>2, <2>3 DEF QueriesExact
<1>5. ASSUME NEW type, AddsTable(type) PROVE QueriesExact'
  <2>1. type \in TypeSet /\ CreateTable(type) /\ active' = active /\ free' = free
    BY <1>5 DEF AddsTable
  <2>2. Slots'
    BY <2>1 DEF QueriesExact, Slots
  <2>3. PICK n, room : n = Len(types) + 1 /\ room = Append(capacity, 1)
    OBVIOUS
  <2>4. queries' = OfferToActive(n, type, room)
    BY <2>1, <2>3 DEF CreateTable
  <2>5. DOMAIN queries' = DOMAIN queries
    BY <2>4 DEF OfferToActive
  <2>6. ASSUME NEW s \in DOMAIN queries
        PROVE  IF s \in Range(active') THEN QueryExact(queries[s])' ELSE queries'[s] = Gone
    <3>1. PICK q : q = queries[s]
      OBVIOUS
    <3>2. PICK q2 : q2 = queries'[s]
      OBVIOUS
    <3>3. CASE s \in Range(active)
      <4>1. q2 = [q EXCEPT !.cache = Offer(q.shape, q.cache, n, type, room)]
        BY <2>4, <3>1, <3>2, <3>3 DEF OfferToActive
      <4>2. QueryExact(q)
        BY <1>2, <3>1, <3>3
      <4>3. QueryExact(q2)'
        BY <1>1, <1>5, <2>1, <2>3, <4>1, <4>2, QueryOffered
      <4>4. QueryExact(queries[s])'
        BY <3>2, <4>3 DEF QueryExact
      <4>5. QED
        BY <2>1, <3>3, <4>4
    <3>4. CASE s \notin Range(active)
      BY <1>2, <2>1, <2>4, <3>4 DEF OfferToActive
    <3>5. QED
      BY <3>3, <3>4
  <2>7. QED
    BY <2>2, <2>5, <2>6 DEF QueriesExact
<1>6. ASSUME types' = types, NEW shape \in Shapes, CreateQuery(shape) PROVE QueriesExact'
  <2>1. PICK q2 : q2 = [alive |-> TRUE, shape |-> shape, cache |-> Filled(shape)]
    OBVIOUS
  <2>2. Slots' /\ \E s : /\ s \notin Range(active) /\ Range(active') = Range(active) \cup {s}
                        /\ DOMAIN queries' = DOMAIN queries \cup {s} /\ queries'[s] = q2
                        /\ \A x \in DOMAIN queries \ {s} : queries'[x] = queries[x]
    BY <1>6, <2>1, Activated DEF QueriesExact
  <2>3. PICK s : /\ s \notin Range(active) /\ Range(active') = Range(active) \cup {s}
                 /\ DOMAIN queries' = DOMAIN queries \cup {s} /\ queries'[s] = q2
                 /\ \A x \in DOMAIN queries \ {s} : queries'[x] = queries[x]
    BY <2>2
  <2>4. QueryExact(q2)
    BY <2>1, FilledArranged DEF QueryExact
  <2>5. \A q : QueryExact(q) => QueryExact(q)'
    BY <1>1, <1>6, QueryStays
  <2>6. ASSUME NEW x \in DOMAIN queries'
        PROVE  IF x \in Range(active') THEN QueryExact(queries[x])' ELSE queries'[x] = Gone
    <3>1. PICK q : q = queries'[x]
      OBVIOUS
    <3>2. ASSUME x \in Range(active') PROVE QueryExact(q)
      BY <1>2, <2>3, <2>4, <3>1, <3>2
    <3>3. ASSUME x \notin Range(active') PROVE q = Gone
      BY <1>2, <2>3, <3>1, <3>3
    <3>4. QueryExact(q)' => QueryExact(queries[x])'
      BY <3>1 DEF QueryExact
    <3>5. QED
      BY <2>5, <3>1, <3>2, <3>3, <3>4
  <2>7. QED
    BY <2>2, <2>6 DEF QueriesExact
<1>7. ASSUME types' = types, NEW s \in DOMAIN queries, FiniQuery(s) PROVE QueriesExact'
  <2>1. /\ Slots' /\ Range(active') = Range(active) \ {s}
        /\ DOMAIN queries' = DOMAIN queries /\ queries'[s] = Gone
        /\ \A x \in DOMAIN queries \ {s} : queries'[x] = queries[x]
    BY <1>7, Deactivated DEF QueriesExact
  <2>2. \A q : QueryExact(q) => QueryExact(q)'
    BY <1>1, <1>7, QueryStays
  <2>3. ASSUME NEW x \in DOMAIN queries'
        PROVE  IF x \in Range(active') THEN QueryExact(queries[x])' ELSE queries'[x] = Gone
    <3>1. PICK q : q = queries'[x]
      OBVIOUS
    <3>2. ASSUME x \in Range(active') PROVE QueryExact(q)
      BY <1>2, <2>1, <3>1, <3>2
    <3>3. ASSUME x \notin Range(active') PROVE q = Gone
      BY <1>2, <2>1, <3>1, <3>3
    <3>4. QueryExact(q)' => QueryExact(queries[x])'
      BY <3>1 DEF QueryExact
    <3>5. QED
      BY <2>2, <3>1, <3>2, <3>3, <3>4
  <2>4. QED
    BY <2>1, <2>3 DEF QueriesExact
<1>8. CASE KeepsTables
  BY <1>3, <1>4, <1>6, <1>7, <1>8 DEF KeepsTables
<1>9. QED
  BY <1>1, <1>5, <1>8

(* At the start there are no queries.                                        *)
LEMMA QueriesInit == Init => QueriesExact
  BY DEF Init, QueriesExact, Slots, Range

(* No base dying: the cache of a query lists every table it matches once, in  *)
(* the order of bases when the query asks for it, whichever was made first    *)
(* and whatever slots were used again, but that a table one of whose bases    *)
(* has changed since it was made stays in the caches it was put in.          *)
THEOREM CachesExact ==
  ASSUME "die" \notin BaseHazards
  PROVE  Spec => []CacheExact
<1> DEFINE Inv == Typed /\ RecordsAgree /\ BasesAbstract /\ HavingExact /\ QueriesExact
<1>1. Inv /\ [Next]_vars => Inv'
  BY TypedStep, BasesStep, HavingStep, QueriesStep
<1>2. Init => Inv
  BY TypedInit, HavingInit, QueriesInit
<1>3. Inv => CacheExact
  BY ExactCaches
<1>4. QED
  BY <1>1, <1>2, <1>3, PTL DEF Spec

-----------------------------------------------------------------------------
(* The pointers. *)

(* The bases of a table outside the history do not move, and those of a new   *)
(* table do not either, unless it has no entities a query may look at.       *)
InPlace ==
  \A t \in Tables' \ changed' : t \in Tables \/ Abstract \notin types'[t].comps =>
    \A x \in Lineage(types'[t].base) : place'[x] = place[x]

(* Every step leaves such bases where they are, and is one of these.         *)
LEMMA Steady ==
  ASSUME Typed, RecordsAgree, BasesAbstract, [Next]_vars, BaseHazards \subseteq {"change"}
  PROVE  /\ InPlace
         /\ \/ UNCHANGED <<types, capacity, queries, active>>
            \/ \E t \in Tables : GrowFor(t) /\ UNCHANGED <<types, active>>
            \/ \E shape \in Shapes : CreateQuery(shape)
            \/ \E s \in DOMAIN queries : FiniQuery(s)
            \/ \E type : AddsTable(type)
<1> DEFINE Kind ==
            \/ UNCHANGED <<types, capacity, queries, active>>
            \/ \E t \in Tables : GrowFor(t) /\ UNCHANGED <<types, active>>
            \/ \E shape \in Shapes : CreateQuery(shape)
            \/ \E s \in DOMAIN queries : FiniQuery(s)
            \/ \E type : AddsTable(type)
<1>1. Closed(BasesInUse)
  BY DEF Closed, BasesAbstract
<1>2. /\ BasesInUse \subseteq Entities /\ Root \in Tables /\ \A x \in BasesInUse : Inherited(x)
      /\ \A t \in Tables : Lineage(types[t].base) \subseteq BasesInUse
  BY <1>1, BasesFacts, TypedFacts, ClosedLines
<1>3. ASSUME NEW e \in Living, MayLeave(e),
             NEW last, last = Last(rows[place[e].table]),
             \A x \in Entities \ {e, last} : place'[x] = place[x]
      PROVE  \A x \in BasesInUse \ {e} : place'[x] = place[x]
  BY <1>2, <1>3 DEF MayLeave
<1>4. ASSUME NEW e \in Entities, New(e) PROVE InPlace /\ Kind
  <2>1. types' = types /\ e \notin Living /\ \A x \in Entities \ {e} : place'[x] = place[x]
    BY <1>4, NewTyped DEF New
  <2>2. e \notin BasesInUse
    BY <2>1 DEF BasesAbstract
  <2>3. InPlace
    BY <1>2, <2>1, <2>2 DEF InPlace, Tables
  <2>4. Kind
    BY <1>2, <1>4 DEF New
  <2>5. QED
    BY <2>3, <2>4
<1>5. ASSUME NEW e \in Entities, Kill(e) PROVE InPlace /\ Kind
  <2>1. PICK last : last = Last(rows[place[e].table])
    OBVIOUS
  <2>2. types' = types /\ changed' = changed \cup Behind(types, e) /\ MayLeave(e) /\ e \in Living
        /\ \A x \in Entities \ {e, last} : place'[x] = place[x]
    BY <1>5, <2>1, KillTyped DEF Kill
  <2>3. \A x \in BasesInUse \ {e} : place'[x] = place[x]
    BY <1>3, <2>1, <2>2
  <2>4. InPlace
    BY <1>2, <2>2, <2>3 DEF InPlace, Tables, Behind
  <2>5. Kind
    BY <1>5 DEF Kill
  <2>6. QED
    BY <2>4, <2>5
<1>6. ASSUME UNCHANGED place PROVE InPlace
  BY <1>6 DEF InPlace
<1>7. ASSUME NEW shape \in Shapes, CreateQuery(shape) PROVE InPlace /\ Kind
  BY <1>6, <1>7 DEF CreateQuery, tableVars
<1>8. ASSUME NEW s \in DOMAIN queries, FiniQuery(s) PROVE InPlace /\ Kind
  BY <1>6, <1>8 DEF FiniQuery, tableVars
<1>9. ASSUME UNCHANGED vars PROVE InPlace /\ Kind
  BY <1>6, <1>9 DEF vars
<1>10. ASSUME NEW e \in Entities,
             \/ IsNot(e) \/ AddComp(e, Abstract)
             \/ \E c \in Comps : AddComp(e, c) \/ RemoveComp(e, c)
             \/ \E c \in Entities : IsA(e, c)
       PROVE InPlace /\ Kind
  <2>1. PICK type : Changes(e, type)
    BY <1>10, OperationsChange
  <2>2. PICK B : /\ B = BasesInUse \cup ({type.base} \ {None}) /\ Closed(B)
                 /\ type.base \in B \cup {None}
    BY <2>1, ChangesClosed
  <2>3. PICK last : last = Last(rows[place[e].table])
    OBVIOUS
  <2>4. e \in Living /\ type \in TypeSet /\ ChangeType(e, type) /\ MayLeave(e)
        /\ changed' = changed \cup Behind(types', e)
        /\ (type.base # None => type.base \in Living /\ Abstract \in TypeOf(type.base).comps)
        /\ (type.base \notin BasesInUse \cup {None} => TypeOf(e).comps \subseteq type.comps)
    BY <2>1 DEF Changes, ChangeType
  <2>5. OthersStay(e) /\ \A x \in Entities \ {e, last} : place'[x] = place[x]
    BY <2>3, <2>4, ChangeTypeTyped
  <2>6. \A x \in BasesInUse \ {e} : place'[x] = place[x]
    BY <1>3, <2>3, <2>4, <2>5
  <2>7. \A t \in Tables' \ changed' : e \notin Lineage(types'[t].base)
    BY <2>4 DEF Behind, Tables
  <2>8. TypeOf(last) = TypeOf(e)
    BY <2>3, <2>4, RowOf
  <2>9. ASSUME Abstract \notin type.comps, e \notin Lineage(type.base)
        PROVE  \A x \in Lineage(type.base) : place'[x] = place[x]
    <3>1. Lineage(type.base) \subseteq B /\ (type.base # None => type.base # e)
      BY <2>2, <2>4, <2>9, ClosedLines
    <3>2. SUFFICES ASSUME type.base \notin BasesInUse \cup {None}
                   PROVE  place'[type.base] = place[type.base]
      BY <2>2, <2>6, <2>9, <3>1
    <3>3. type.base # last
      BY <2>4, <2>8, <2>9, <3>2
    <3>4. type.base \in Entities \ {e, last}
      BY <2>4, <3>1, <3>2, <3>3, TypedFacts
    <3>5. QED
      BY <2>5, <3>4
  <2>10. InPlace
    <3>1. ASSUME NEW t \in Tables, t \notin changed'
          PROVE  \A x \in Lineage(types'[t].base) : place'[x] = place[x]
      BY <1>2, <2>5, <2>6, <2>7, <3>1 DEF OthersStay
    <3>2. ASSUME NEW t \in Tables' \ changed', t \notin Tables, Abstract \notin types'[t].comps
          PROVE  \A x \in Lineage(types'[t].base) : place'[x] = place[x]
      <4>1. CreateTable(type)
        BY <2>4, <3>2 DEF ChangeType, Tables
      <4>2. types'[t] = type
        BY <2>4, <3>2, <4>1, CreateTyped
      <4>3. QED
        BY <2>7, <2>9, <3>2, <4>2
    <3>3. QED
      BY <3>1, <3>2 DEF InPlace
  <2>11. Kind
    BY <2>4 DEF ChangeType, AddsTable
  <2>12. QED
    BY <2>10, <2>11
<1> HIDE DEF Kind
<1>11. InPlace /\ Kind
  BY <1>4, <1>5, <1>7, <1>8, <1>9, <1>10 DEF Next
<1>12. QED
  BY <1>11 DEF Kind

(* The pointers of an entry after a step that leaves the bases it may point   *)
(* to as and where they are.                                                 *)
LEMMA EntryThen ==
  ASSUME Typed, Typed', NEW type, type \in TypeSet,
         \A x \in Lineage(type.base) : TypeOf(x)' = TypeOf(x) /\ place'[x] = place[x],
         NEW shape, NEW t, NEW room, types'[t] = type, capacity' = room
  PROVE  Bind(shape, t, types[t], capacity)' = Bind(shape, t, type, room)
<1>2. \A c : Providers(type, c)' = Providers(type, c) /\ Provider(type, c)' = Provider(type, c)
  BY InheritedStays
<1>3. ASSUME NEW c PROVE FieldOf(shape, t, type, c, room)' = FieldOf(shape, t, type, c, room)
  <2>1. CASE c \in type.comps
    BY <2>1 DEF FieldOf
  <2>2. CASE c \notin type.comps /\ (c \in shape.writes \/ Providers(type, c) = {})
    BY <1>2, <2>2 DEF FieldOf
  <2>3. CASE c \notin type.comps /\ ~(c \in shape.writes \/ Providers(type, c) = {})
    <3>1. PICK x : x = Provider(type, c)
      OBVIOUS
    <3>2. x \in Lineage(type.base)
      BY <2>3, <3>1, ProviderIsBase
    <3>3. place'[x] = place[x] /\ Provider(type, c)' = x /\ Providers(type, c)' # {}
      BY <1>2, <2>3, <3>1, <3>2
    <3>4. FieldOf(shape, t, type, c, room)
          = [kind |-> "shared", table |-> place[x].table, room |-> room[place[x].table], row |-> place[x].row]
      BY <2>3, <3>1 DEF FieldOf
    <3>5. FieldOf(shape, t, type, c, room)'
          = [kind |-> "shared", table |-> place'[x].table, room |-> room[place'[x].table],
             row |-> place'[x].row]
      BY <2>3, <3>3 DEF FieldOf
    <3>6. QED
      BY <3>3, <3>4, <3>5
  <2>4. QED
    BY <2>1, <2>2, <2>3
<1>4. Bind(shape, t, type, room)' = Bind(shape, t, type, room)
  BY <1>3 DEF Bind
<1>5. \A c : FieldOf(shape, t, types[t], c, capacity)' = FieldOf(shape, t, type, c, room)'
  BY DEF FieldOf, Provider, Providers, Line
<1>6. Bind(shape, t, types[t], capacity)' = Bind(shape, t, type, room)'
  BY <1>5 DEF Bind
<1>7. QED
  BY <1>4, <1>6

(* The pointers of an entry whose tables have not moved.                     *)
LEMMA EntryRoom ==
  ASSUME Typed, NEW type \in TypeSet,
         NEW shape, NEW t, NEW room, NEW room2, room2[t] = room[t],
         \A x \in Lineage(type.base) : room2[place[x].table] = room[place[x].table]
  PROVE  Bind(shape, t, type, room2) = Bind(shape, t, type, room)
<1>1. ASSUME NEW c PROVE FieldOf(shape, t, type, c, room2) = FieldOf(shape, t, type, c, room)
  <2>1. CASE Providers(type, c) = {}
    BY <2>1 DEF FieldOf
  <2>2. CASE Providers(type, c) # {}
    <3>1. Provider(type, c) \in Lineage(type.base)
      BY <2>2, ProviderIsBase
    <3>2. QED
      BY <3>1 DEF FieldOf
  <2>3. QED
    BY <2>1, <2>2
<1>2. QED
  BY <1>1 DEF Bind

BoundTo(q) ==
  \A i \in DOMAIN q.cache : q.cache[i].id \notin changed =>
    q.cache[i] = Bind(q.shape, q.cache[i].id, types[q.cache[i].id], capacity)

(* The pointers of the queries alive, but into tables of the history, are     *)
(* what a fresh binding would give.                                          *)
QueriesBound == \A s \in DOMAIN queries : s \in Range(active) => BoundTo(queries[s])

(* What the invariant says of each query is what the property asks.          *)
LEMMA BoundFields == Typed /\ QueriesExact /\ QueriesBound => FieldsCurrent
<1> SUFFICES ASSUME Typed, QueriesExact, QueriesBound, NEW s \in DOMAIN queries, queries[s].alive
             PROVE  BoundTo(queries[s])
  BY DEF FieldsCurrent, BoundTo
<1>1. s \in Range(active)
  BY DEF QueriesExact, Gone
<1>2. QED
  BY <1>1 DEF QueriesBound

(* The tables an exact query points into.                                    *)
LEMMA EntryTables ==
  ASSUME Typed, NEW q, QueryExact(q), NEW i \in DOMAIN q.cache
  PROVE  q.cache[i].id \in Tables
<1>1. PICK K : Fits(K, q.shape) /\ Arranged(q.cache, K, q.shape.ordered, BaseOf)
  BY DEF QueryExact
<1>2. QED
  BY <1>1 DEF Arranged, Fits

(* A query that no table of which has moved stays bound.                     *)
LEMMA BoundStays ==
  ASSUME Typed, Typed', BasesAbstract, Undisturbed, InPlace,
         NEW q, QueryExact(q), BoundTo(q), \A t \in Tables : t \in Tables' /\ types'[t] = types[t],
         \A t \in Tables : capacity'[t] = capacity[t]
  PROVE  BoundTo(q)'
<1>1. SUFFICES ASSUME NEW i \in DOMAIN q.cache, q.cache[i].id \notin changed'
               PROVE  q.cache[i] = Bind(q.shape, q.cache[i].id, types[q.cache[i].id], capacity)'
  BY DEF BoundTo
<1>2. PICK t \in Tables : t = q.cache[i].id
  BY EntryTables
<1>3. PICK type, room, old : type = types[t] /\ room = capacity' /\ old = capacity
  OBVIOUS
<1>4. type \in TypeSet /\ type.base \in BasesInUse \cup {None}
  BY <1>3, TypedFacts, BasesFacts
<1>5. Closed(BasesInUse)
  BY DEF Closed, BasesAbstract
<1>6. Bind(q.shape, t, types[t], capacity)' = Bind(q.shape, t, type, room)
  <2>1. types'[t] = type /\ \A x \in Lineage(type.base) : TypeOf(x)' = TypeOf(x) /\ place'[x] = place[x]
    BY <1>1, <1>2, <1>3 DEF Undisturbed, InPlace
  <2>2. QED
    BY <1>3, <1>4, <2>1, EntryThen
<1>7. room[t] = old[t] /\ \A x \in Lineage(type.base) : room[place[x].table] = old[place[x].table]
  <2>1. Lineage(type.base) \subseteq BasesInUse /\ BasesInUse \subseteq Living
    BY <1>4, <1>5, ClosedLines DEF Closed
  <2>2. \A x \in BasesInUse : place[x].table \in Tables
    BY <2>1, TypedFacts
  <2>3. QED
    BY <1>3, <2>1, <2>2
<1>8. Bind(q.shape, t, type, room) = Bind(q.shape, t, type, old)
  BY <1>4, <1>7, EntryRoom
<1>9. q.cache[i] = Bind(q.shape, t, type, old)
  BY <1>1, <1>2, <1>3 DEF BoundTo, Undisturbed
<1>10. QED
  BY <1>2, <1>6, <1>8, <1>9

(* A query after the table t has grown.                                      *)
LEMMA BoundAgain ==
  ASSUME Typed, Typed', RecordsAgree, BasesAbstract, Undisturbed, InPlace,
         NEW q, QueryExact(q), BoundTo(q), types' = types, NEW t \in Tables,
         NEW room, room = capacity', \A u \in Tables \ {t} : room[u] = capacity[u],
         NEW q2, q2 = [q EXCEPT !.cache = [i \in DOMAIN @ |->
                         IF MustRebind(t, @[i].id) THEN Bind(q.shape, @[i].id, types[@[i].id], room)
                         ELSE @[i]]]
  PROVE  BoundTo(q2)'
<1> DEFINE cache2 == [i \in DOMAIN q.cache |->
                        IF MustRebind(t, q.cache[i].id)
                        THEN Bind(q.shape, q.cache[i].id, types[q.cache[i].id], room)
                        ELSE q.cache[i]]
<1>1. q2.shape = q.shape /\ q2.cache = cache2
  <2>1. q = [alive |-> TRUE, shape |-> q.shape, cache |-> q.cache]
    BY DEF QueryExact
  <2>2. q2 = [q EXCEPT !.cache = cache2]
    OBVIOUS
  <2> HIDE DEF cache2
  <2>3. q2 = [alive |-> TRUE, shape |-> q.shape, cache |-> cache2]
    BY ONLY <2>1, <2>2, CacheReplaced
  <2>4. QED
    BY ONLY <2>3
<1>2. ASSUME NEW i \in DOMAIN q.cache
      PROVE  /\ cache2[i].id = q.cache[i].id
             /\ q.cache[i].id \notin changed' =>
                  cache2[i] = Bind(q.shape, q.cache[i].id, types[q.cache[i].id], capacity)'
  <2>1. PICK u \in Tables : u = q.cache[i].id
    BY EntryTables
  <2>2. PICK type, old : type = types[u] /\ old = capacity
    OBVIOUS
  <2>3. type \in TypeSet /\ type.base \in BasesInUse \cup {None} /\ Closed(BasesInUse)
    BY <2>2, TypedFacts, BasesFacts DEF Closed, BasesAbstract
  <2>4. u \notin changed' => Bind(q.shape, u, types[u], capacity)' = Bind(q.shape, u, type, room)
    <3>1. SUFFICES ASSUME u \notin changed'
                   PROVE  Bind(q.shape, u, types[u], capacity)' = Bind(q.shape, u, type, room)
      OBVIOUS
    <3>2. types'[u] = type /\ u \in Tables' /\ Tables' = Tables
      BY <2>2 DEF Tables
    <3>3. \A x \in Lineage(type.base) : TypeOf(x)' = TypeOf(x) /\ place'[x] = place[x]
      BY <3>1, <3>2 DEF Undisturbed, InPlace
    <3>4. QED
      BY <2>3, <3>2, <3>3, EntryThen
  <2>5. cache2[i] = IF MustRebind(t, u) THEN Bind(q.shape, u, type, room) ELSE q.cache[i]
    BY <2>1, <2>2
  <2>6. u \notin changed' => q.cache[i] = Bind(q.shape, u, type, old)
    BY <2>1, <2>2 DEF BoundTo, Undisturbed
  <2> HIDE DEF cache2
  <2>7. cache2[i].id = u
    <3>1. \A r : Bind(q.shape, u, type, r).id = u
      BY DEF Bind
    <3>2. QED
      BY <2>1, <2>5, <3>1
  <2>8. CASE MustRebind(t, u)
    BY <2>1, <2>4, <2>5, <2>7, <2>8
  <2>9. CASE ~MustRebind(t, u)
    <3>1. room[u] = old[u]
      BY <2>2, <2>9 DEF MustRebind
    <3>2. ASSUME NEW x \in Lineage(type.base) PROVE room[place[x].table] = old[place[x].table]
      <4>1. x \in BasesInUse /\ x \in Living
        BY <2>3, ClosedLines DEF Closed
      <4>2. place[x].table \in Tables
        BY <4>1, TypedFacts
      <4>3. place[x].table # t
        <5>1. SUFFICES ASSUME place[x].table = t PROVE FALSE
          OBVIOUS
        <5>2. place[x].row \in DOMAIN rows[t] /\ rows[t][place[x].row] = x
          BY <4>1, <5>1 DEF RecordsAgree
        <5>3. Inherited(x)
          BY <4>1, BasesFacts
        <5>4. x \in Lineage(types[u].base)
          BY <2>2
        <5>5. MustRebind(t, u)
          BY <5>1, <5>2, <5>3, <5>4 DEF MustRebind
        <5>6. QED
          BY <2>9, <5>5
      <4>4. QED
        BY <2>2, <4>2, <4>3
    <3>3. Bind(q.shape, u, type, room) = Bind(q.shape, u, type, old)
      BY <2>3, <3>1, <3>2, EntryRoom
    <3>4. QED
      BY <2>1, <2>4, <2>5, <2>6, <2>7, <2>9, <3>3
  <2>10. QED
    BY <2>8, <2>9
<1>3. DOMAIN cache2 = DOMAIN q.cache
  OBVIOUS
<1> HIDE DEF cache2
<1>4. SUFFICES ASSUME NEW i \in DOMAIN q2.cache, q2.cache[i].id \notin changed'
               PROVE  q2.cache[i] = Bind(q2.shape, q2.cache[i].id, types[q2.cache[i].id], capacity)'
  BY DEF BoundTo
<1>5. i \in DOMAIN q.cache /\ q2.cache[i] = cache2[i]
  BY <1>1, <1>3, <1>4
<1>6. PICK u : u = q.cache[i].id
  OBVIOUS
<1>7. cache2[i].id = u /\ cache2[i] = Bind(q.shape, u, types[u], capacity)'
  BY <1>2, <1>4, <1>5, <1>6
<1>8. QED
  BY <1>1, <1>5, <1>7

(* A query that a new table is offered to.                                   *)
LEMMA BoundOffered ==
  ASSUME Typed, Typed', BasesAbstract, Undisturbed, InPlace,
         NEW q, QueryExact(q), BoundTo(q), NEW type, AddsTable(type),
         NEW n, n = Len(types) + 1, NEW room, room = Append(capacity, 1), capacity' = room,
         NEW q2, q2 = [q EXCEPT !.cache = Offer(q.shape, q.cache, n, type, room)]
  PROVE  BoundTo(q2)'
<1>1. /\ types'[n] = type /\ \A t \in Tables : types'[t] = types[t] /\ capacity'[t] = capacity[t]
      /\ type \in TypeSet /\ Tables' = Tables \cup {n}
      /\ n \notin changed' /\ Abstract \notin type.comps =>
           \A x \in Lineage(type.base) : TypeOf(x)' = TypeOf(x) /\ place'[x] = place[x]
  <2>1. /\ types'[n] = type /\ \A t \in Tables : types'[t] = types[t] /\ capacity'[t] = capacity[t]
        /\ type \in TypeSet /\ Tables' = Tables \cup {n}
    BY CreateTyped DEF AddsTable
  <2>2. QED
    BY <2>1 DEF Undisturbed, InPlace
<1>2. BoundTo(q)'
  BY <1>1, BoundStays
<1>3. PICK cache2 : cache2 = Offer(q.shape, q.cache, n, type, room)
  OBVIOUS
<1>4. q2.shape = q.shape /\ q2.cache = cache2
  <2>1. q = [alive |-> TRUE, shape |-> q.shape, cache |-> q.cache]
    BY DEF QueryExact
  <2>2. q2 = [q EXCEPT !.cache = cache2]
    BY <1>3
  <2>3. q2 = [alive |-> TRUE, shape |-> q.shape, cache |-> cache2]
    BY ONLY <2>1, <2>2, CacheReplaced
  <2>4. QED
    BY ONLY <2>3
<1>5. CASE ~Accepts(q.shape, type)
  <2>1. cache2 = q.cache
    BY <1>3, <1>5 DEF Offer
  <2>2. QED
    BY <1>2, <1>4, <2>1 DEF BoundTo
<1>6. CASE Accepts(q.shape, type)
  <2>1. PICK entry : entry = Bind(q.shape, n, type, room)
    OBVIOUS
  <2>2. PICK p : p = Position(q.shape, q.cache, type.base)
    OBVIOUS
  <2>3. cache2 = InsertAt(q.cache, p, entry)
    BY <1>3, <1>6, <2>1, <2>2 DEF Offer
  <2>4. Abstract \notin type.comps
    BY <1>6 DEF Accepts
  <2>5. entry.id = n /\ (n \notin changed' => entry = Bind(q.shape, n, types[n], capacity)')
    <3>1. /\ Typed /\ Typed' /\ type \in TypeSet /\ types'[n] = type /\ capacity' = room
          /\ n \notin changed' => \A x \in Lineage(type.base) : TypeOf(x)' = TypeOf(x) /\ place'[x] = place[x]
      BY <1>1, <2>4
    <3>2. PICK shape : shape = q.shape
      OBVIOUS
    <3>3. n \notin changed' => Bind(shape, n, types[n], capacity)' = Bind(shape, n, type, room)
      BY ONLY <3>1, EntryThen
    <3>4. QED
      BY <2>1, <3>2, <3>3 DEF Bind
  <2>6. q.cache \in Seq(Range(q.cache)) /\ Len(q.cache) \in Nat /\ DOMAIN q.cache = 1..Len(q.cache)
        /\ \A i \in 1..Len(q.cache) : q.cache[i].id \in Tables
    BY DEF QueryExact, Arranged, Fits
  <2>7. p \in 1..(Len(q.cache) + 1)
    <3>1. {i \in DOMAIN q.cache : types[q.cache[i].id].base <= type.base}
          = {i \in 1..Len(q.cache) : BaseOf[q.cache[i].id] <= type.base}
      BY <2>6 DEF BaseOf
    <3>2. p = Spot(q.cache, q.shape.ordered, BaseOf, type.base)
      BY <2>2, <2>6, <3>1 DEF Position, Spot
    <3>3. QED
      BY <2>6, <3>2, SlotWithin
  <2>8. /\ Len(cache2) = Len(q.cache) + 1 /\ DOMAIN cache2 = 1..(Len(q.cache) + 1)
        /\ \A i \in 1..(Len(q.cache) + 1) :
             cache2[i] = IF i < p THEN q.cache[i] ELSE IF i = p THEN entry ELSE q.cache[i - 1]
    <3> DEFINE S == Range(q.cache) \cup {entry}
    <3>1. Range(q.cache) \subseteq S /\ entry \in S
      OBVIOUS
    <3> HIDE DEF S
    <3>2. q.cache \in Seq(S)
      BY <2>6, <3>1, SeqMonotonic
    <3>3. cache2 \in Seq(S) /\ Len(cache2) = Len(q.cache) + 1
          /\ \A i \in 1..(Len(q.cache) + 1) :
               cache2[i] = IF i < p THEN q.cache[i] ELSE IF i = p THEN entry ELSE q.cache[i - 1]
      <4>1. PICK s : s = q.cache
        OBVIOUS
      <4>2. s \in Seq(S) /\ p \in 1..(Len(s) + 1) /\ cache2 = InsertAt(s, p, entry) /\ entry \in S
        BY <2>3, <2>7, <3>1, <3>2, <4>1
      <4>3. \A z \in Seq(S) : \A e \in S : \A k \in 1..(Len(z) + 1) :
              /\ InsertAt(z, k, e) \in Seq(S) /\ Len(InsertAt(z, k, e)) = Len(z) + 1
              /\ \A i \in 1..(Len(z) + 1) :
                   InsertAt(z, k, e)[i] = IF i < k THEN z[i] ELSE IF i = k THEN e ELSE z[i - 1]
        BY ONLY Inserted
      <4>4. /\ InsertAt(s, p, entry) \in Seq(S) /\ Len(InsertAt(s, p, entry)) = Len(s) + 1
            /\ \A i \in 1..(Len(s) + 1) :
                 InsertAt(s, p, entry)[i] = IF i < p THEN s[i] ELSE IF i = p THEN entry ELSE s[i - 1]
        BY ONLY <4>2, <4>3
      <4>5. QED
        BY <4>1, <4>2, <4>4
    <3>4. QED
      BY <3>3
  <2>9. \A j \in DOMAIN q.cache : \A u : u = q.cache[j].id /\ u \notin changed' =>
           q.cache[j] = Bind(q.shape, u, types[u], capacity)'
    BY <1>2 DEF BoundTo
  <2>10. ASSUME NEW i \in DOMAIN cache2, NEW u, u = cache2[i].id, u \notin changed'
         PROVE  cache2[i] = Bind(q.shape, u, types[u], capacity)'
    <3>1. CASE i = p
      BY <2>5, <2>7, <2>8, <2>10, <3>1
    <3>2. CASE i # p
      <4>1. PICK j \in DOMAIN q.cache : cache2[i] = q.cache[j]
        <5>1. CASE i < p
          <6>1. i \in DOMAIN q.cache /\ cache2[i] = q.cache[i]
            BY <2>6, <2>7, <2>8, <5>1
          <6>2. QED
            BY <6>1
        <5>2. CASE ~(i < p)
          <6>1. i - 1 \in DOMAIN q.cache /\ cache2[i] = q.cache[i - 1]
            BY <2>6, <2>7, <2>8, <3>2, <5>2
          <6>2. QED
            BY <6>1
        <5>3. QED
          BY <5>1, <5>2
      <4>2. QED
        BY <2>9, <2>10, <4>1
    <3>3. QED
      BY <3>1, <3>2
  <2>11. QED
    BY <1>4, <2>10 DEF BoundTo
<1>7. QED
  BY <1>5, <1>6

(* Every step keeps the pointers of all queries current.                     *)
LEMMA BoundStep ==
  ASSUME Typed, RecordsAgree, BasesAbstract, HavingExact, QueriesExact, QueriesBound,
         [Next]_vars, BaseHazards \subseteq {"change"}
  PROVE  QueriesBound'
<1>1. /\ Typed' /\ Undisturbed /\ InPlace
      /\ \/ UNCHANGED <<types, capacity, queries, active>>
         \/ \E t \in Tables : GrowFor(t) /\ UNCHANGED <<types, active>>
         \/ \E shape \in Shapes : CreateQuery(shape)
         \/ \E s \in DOMAIN queries : FiniQuery(s)
         \/ \E type : AddsTable(type)
  BY Steady, Kinds, TypedStep
<1>2. \A s \in DOMAIN queries :
        s \in Range(active) => QueryExact(queries[s]) /\ BoundTo(queries[s])
  BY DEF QueriesExact, QueriesBound
<1>3. ASSUME NEW s \in DOMAIN queries', s \in Range(active'),
             NEW q2, q2 = queries'[s], BoundTo(q2)'
      PROVE  BoundTo(queries[s])'
  BY <1>3 DEF BoundTo
<1>4. ASSUME types' = types, capacity' = capacity, NEW q, QueryExact(q), BoundTo(q)
      PROVE  BoundTo(q)'
  <2>1. \A t \in Tables : t \in Tables' /\ types'[t] = types[t]
    BY <1>4 DEF Tables
  <2>2. QED
    BY <1>1, <1>4, <2>1, BoundStays
<1>5. CASE UNCHANGED <<types, capacity, queries, active>>
  BY <1>2, <1>3, <1>4, <1>5 DEF QueriesBound
<1>6. ASSUME NEW t \in Tables, GrowFor(t), UNCHANGED <<types, active>> PROVE QueriesBound'
  <2>1. SUFFICES ASSUME NEW s \in DOMAIN queries', s \in Range(active') PROVE BoundTo(queries[s])'
    BY DEF QueriesBound
  <2>2. PICK q, q2, room : q = queries[s] /\ q2 = queries'[s] /\ room = capacity'
    OBVIOUS
  <2>3. s \in DOMAIN queries /\ s \in Range(active) /\ QueryExact(q) /\ BoundTo(q)
    BY <1>2, <1>6, <2>1, <2>2, GrowTyped
  <2>4. room = [capacity EXCEPT ![t] = IF Len(rows[t]) >= @ THEN 2 * @ ELSE @]
        /\ queries' = IF room = capacity THEN queries ELSE RefreshAfterGrowth(t, room)
    BY <1>6, <2>2 DEF GrowFor
  <2>5. CASE room = capacity
    BY <1>3, <1>4, <1>6, <2>1, <2>2, <2>3, <2>4, <2>5
  <2>6. CASE room # capacity
    <3>1. q2 = [q EXCEPT !.cache = [i \in DOMAIN @ |->
                  IF MustRebind(t, @[i].id) THEN Bind(q.shape, @[i].id, types[@[i].id], room)
                  ELSE @[i]]]
      BY <2>2, <2>3, <2>4, <2>6 DEF RefreshAfterGrowth
    <3>2. \A u \in Tables \ {t} : room[u] = capacity[u]
      BY <2>4, TypedFacts
    <3>3. BoundTo(q2)'
      BY <1>1, <1>6, <2>2, <2>3, <3>1, <3>2, BoundAgain
    <3>4. QED
      BY <1>3, <2>1, <2>2, <3>3
  <2>7. QED
    BY <2>5, <2>6
<1>7. ASSUME NEW shape \in Shapes, CreateQuery(shape) PROVE QueriesBound'
  <2>1. types' = types /\ capacity' = capacity
    BY <1>7 DEF CreateQuery, tableVars
  <2>2. PICK new : new = [alive |-> TRUE, shape |-> shape, cache |-> Filled(shape)]
    OBVIOUS
  <2>3. PICK n : /\ n \notin Range(active) /\ Range(active') = Range(active) \cup {n}
                 /\ DOMAIN queries' = DOMAIN queries \cup {n} /\ queries'[n] = new
                 /\ \A x \in DOMAIN queries \ {n} : queries'[x] = queries[x]
    BY <1>7, <2>2, Activated DEF QueriesExact
  <2>4. QueryExact(new) /\ BoundTo(new)
    <3>1. /\ \E K : Fits(K, shape) /\ Arranged(Filled(shape), K, shape.ordered, BaseOf)
          /\ Filled(shape) \in Seq({Bind(shape, t, types[t], capacity) : t \in Tables})
      BY FilledArranged
    <3>2. PICK cache : cache = Filled(shape)
      OBVIOUS
    <3>3. new = [alive |-> TRUE, shape |-> shape, cache |-> cache]
      BY <2>2, <3>2
    <3>4. QueryExact(new)
      BY <3>1, <3>2, <3>3 DEF QueryExact
    <3>5. ASSUME NEW i \in DOMAIN cache
          PROVE  cache[i] = Bind(shape, cache[i].id, types[cache[i].id], capacity)
      <4>1. cache[i] \in {Bind(shape, t, types[t], capacity) : t \in Tables}
        BY <3>1, <3>2
      <4>2. PICK t \in Tables : cache[i] = Bind(shape, t, types[t], capacity)
        BY <4>1
      <4>3. cache[i].id = t
        BY <4>2 DEF Bind
      <4>4. QED
        BY <4>2, <4>3
    <3>6. BoundTo(new)
      BY <3>3, <3>5 DEF BoundTo
    <3>7. QED
      BY <3>4, <3>6
  <2>5. ASSUME NEW s \in DOMAIN queries', s \in Range(active') PROVE BoundTo(queries[s])'
    <3>1. PICK q2 : q2 = queries'[s]
      OBVIOUS
    <3>2. QueryExact(q2) /\ BoundTo(q2)
      BY <1>2, <2>3, <2>4, <2>5, <3>1
    <3>3. QED
      BY <1>3, <1>4, <2>1, <2>5, <3>1, <3>2
  <2>6. QED
    BY <2>5 DEF QueriesBound
<1>8. ASSUME NEW s \in DOMAIN queries, FiniQuery(s) PROVE QueriesBound'
  <2>1. types' = types /\ capacity' = capacity
    BY <1>8 DEF FiniQuery, tableVars
  <2>2. /\ Range(active') = Range(active) \ {s} /\ DOMAIN queries' = DOMAIN queries
        /\ \A x \in DOMAIN queries \ {s} : queries'[x] = queries[x]
    BY <1>8, Deactivated DEF QueriesExact
  <2>3. ASSUME NEW x \in DOMAIN queries', x \in Range(active') PROVE BoundTo(queries[x])'
    <3>1. PICK q2 : q2 = queries'[x]
      OBVIOUS
    <3>2. QueryExact(q2) /\ BoundTo(q2)
      BY <1>2, <2>2, <2>3, <3>1
    <3>3. QED
      BY <1>3, <1>4, <2>1, <2>3, <3>1, <3>2
  <2>4. QED
    BY <2>3 DEF QueriesBound
<1>9. ASSUME NEW type, AddsTable(type) PROVE QueriesBound'
  <2>1. type \in TypeSet /\ CreateTable(type) /\ active' = active
    BY <1>9 DEF AddsTable
  <2>2. PICK n, room : n = Len(types) + 1 /\ room = Append(capacity, 1)
    OBVIOUS
  <2>3. queries' = OfferToActive(n, type, room) /\ capacity' = room
    BY <2>1, <2>2 DEF CreateTable
  <2>4. ASSUME NEW s \in DOMAIN queries', s \in Range(active') PROVE BoundTo(queries[s])'
    <3>1. PICK q, q2 : q = queries[s] /\ q2 = queries'[s]
      OBVIOUS
    <3>2. s \in DOMAIN queries /\ s \in Range(active)
      BY <2>1, <2>3, <2>4 DEF OfferToActive
    <3>3. QueryExact(q) /\ BoundTo(q)
      BY <1>2, <3>1, <3>2
    <3>4. q2 = [q EXCEPT !.cache = Offer(q.shape, q.cache, n, type, room)]
      BY <2>3, <3>1, <3>2 DEF OfferToActive
    <3>5. BoundTo(q2)'
      BY <1>1, <1>9, <2>2, <2>3, <3>3, <3>4, BoundOffered
    <3>6. QED
      BY <1>3, <2>4, <3>1, <3>5
  <2>5. QED
    BY <2>4 DEF QueriesBound
<1>10. QED
  BY <1>1, <1>5, <1>6, <1>7, <1>8, <1>9

(* The pointers a query keeps are those a fresh binding would give, however   *)
(* tables have grown since, but in tables one of whose bases has changed      *)
(* since, and as long as no base dies or fills the hole of another entity.   *)
THEOREM PointersCurrent ==
  ASSUME BaseHazards \subseteq {"change"}
  PROVE  Spec => []FieldsCurrent
<1> DEFINE Inv == /\ Typed /\ RecordsAgree /\ BasesAbstract /\ HavingExact
                  /\ QueriesExact /\ QueriesBound
<1>1. Inv /\ [Next]_vars => Inv'
  BY TypedStep, BasesStep, HavingStep, QueriesStep, BoundStep
<1>2. Init => Inv
  <2>1. Init => QueriesBound
    BY DEF Init, QueriesBound
  <2>2. QED
    BY <2>1, TypedInit, HavingInit, QueriesInit
<1>3. Inv => FieldsCurrent
  BY BoundFields
<1>4. QED
  BY <1>1, <1>2, <1>3, PTL DEF Spec

-----------------------------------------------------------------------------
(* The registry: slots of observers and the sorted array of targeted ones. *)

ObserverSet == [alive : {TRUE}, enabled : BOOLEAN, event : Events, query : Nat,
                watched : Entities \cup {None}]
TargetSet == [index : Nat, event : Events, observer : Nat]

Alive == {o \in DOMAIN observers : IsAlive(o)}

(* A slot is on the stack of unused ones exactly when its observer has ended. *)
SlotsOfObservers ==
  /\ observers \in Seq(ObserverSet \cup {Gone}) /\ unused \in Seq(Nat)
  /\ \A i, j \in DOMAIN unused : unused[i] = unused[j] => i = j
  /\ Range(unused) = DOMAIN observers \ Alive

(* Each active query belongs to one global observer; a targeted one has none. *)
Linked ==
  /\ \A o \in Alive : IF observers[o].watched = None THEN observers[o].query \in Range(active)
                      ELSE observers[o].query = None
  /\ \A o, p \in Alive : observers[o].query = observers[p].query /\ Global(o) => o = p
  /\ \A s \in Range(active) : \E o \in Alive : observers[o].query = s

(* No two living entities have one index. *)
IndexesApart == \A d, e \in Living : IndexOf[d] = IndexOf[e] => d = e

Below(x, index, event) == x.index < index \/ (x.index = index /\ x.event < event)

Sorted(T) == \A i, j \in DOMAIN T : i < j => ~Below(T[j], T[i].index, T[i].event)

(* The entries are those of the targeted observers, one each.               *)
Entered(o, x) ==
  /\ o \in Alive /\ observers[o].watched \in Living
  /\ x = [index |-> IndexOf[observers[o].watched], event |-> observers[o].event, observer |-> o]

TargetsKept ==
  /\ targets \in Seq(TargetSet) /\ Sorted(targets)
  /\ \A i, j \in DOMAIN targets : targets[i].observer = targets[j].observer => i = j
  /\ \A i \in DOMAIN targets : Entered(targets[i].observer, targets[i])
  /\ \A o \in Alive : observers[o].watched # None => \E i \in DOMAIN targets : targets[i].observer = o

Registry == SlotsOfObservers /\ Slots /\ Linked /\ IndexesApart /\ TargetsKept

-----------------------------------------------------------------------------
(* The lists of tables. *)

ListsTyped ==
  /\ listening \in Seq([Events -> Seq(Nat)]) /\ Len(listening) = Len(types)
  /\ \A t \in Tables, event \in Events : Range(listening[t][event]) \subseteq DOMAIN observers

(* The tables an active query holds                                         *)
Matches(s) == Named(queries[s].cache)

Globals == {o \in Alive : Global(o)}

Listeners(t, event) ==
  {o \in Globals : observers[o].event = event /\ t \in Matches(observers[o].query)}

(* The list of a table names its listeners, each once.                      *)
ListsKept ==
  \A t \in Tables, event \in Events :
    NoRepeat(listening[t][event]) /\ Range(listening[t][event]) = Listeners(t, event)

-----------------------------------------------------------------------------
(* Steps of Observers are steps of QueryCache. *)

LEMMA StepsOfQueries ==
  ASSUME Typed, Linked, [ObserversNext]_allVars
  PROVE  [Next]_vars
<1>1. CASE UNCHANGED vars
  BY <1>1
<1>2. CASE Advance \/ Return
  BY <1>2 DEF Advance, Return, tableVars, queryVars, vars
<1>3. CASE UserStep
  <2>1. CASE \E e \in Entities :
               \/ New(e) /\ Quietly
               \/ \E c \in Comps \cup {Abstract} : AddComp(e, c) /\ Loudly(e)
               \/ \E b \in Entities : IsA(e, b) /\ Loudly(e)
    BY <2>1 DEF Next
  <2>2. CASE \E e \in Entities : KillEntity(e)
    BY <2>2 DEF Next, KillEntity
  <2>3. CASE \E e \in Entities, event \in Events : Trigger(e, event) \/ ObserveOne(event, e)
    BY <2>3 DEF Trigger, ObserveOne, tableVars, queryVars, vars
  <2>4. CASE \E event \in Events, shape \in Shapes : ObserveAll(event, shape)
    BY <2>4 DEF Next, ObserveAll, CreateQuery
  <2>5. ASSUME NEW o \in DOMAIN observers, ObserverFini(o) PROVE [Next]_vars
    <3>1. CASE Global(o)
      <4>1. o \in Alive /\ observers[o].query \in Range(active)
        BY <2>5, <3>1 DEF ObserverFini, Alive, Linked, Global
      <4>2. FiniQuery(observers[o].query)
        BY <2>5, <3>1, <4>1 DEF ObserverFini, Leave, FiniQuery
      <4>3. observers[o].query \in DOMAIN queries
        BY <4>1 DEF Typed, TypeOK, Range
      <4>4. QED
        BY <4>2, <4>3 DEF Next
    <3>2. CASE ~Global(o)
      BY <2>5, <3>2 DEF ObserverFini, Leave, tableVars, queryVars, vars
    <3>3. QED
      BY <3>1, <3>2
  <2>6. CASE \E o \in DOMAIN observers : SetEnabled(o, TRUE) \/ SetEnabled(o, FALSE)
    BY <2>6 DEF SetEnabled, tableVars, queryVars, vars
  <2>7. QED
    BY <1>3, <2>1, <2>2, <2>3, <2>4, <2>5, <2>6 DEF UserStep
<1>4. UNCHANGED allVars => UNCHANGED vars
  BY DEF allVars, vars
<1>5. QED
  BY <1>1, <1>2, <1>3, <1>4 DEF ObserversNext

(* Which entities live after a step.                                        *)
LEMMA LivingAfter ==
  ASSUME Typed, RecordsAgree, NEW e \in Entities
  PROVE  /\ New(e) => Living' = Living \cup {e}
         /\ Kill(e) => Living' = Living \ {e}
         /\ \A c \in Comps \cup {Abstract} : AddComp(e, c) => Living' = Living
         /\ \A b \in Entities : IsA(e, b) => Living' = Living
<1>1. ASSUME NEW type \in TypeSet, e \in Living, ChangeType(e, type) PROVE Living' = Living
  <2>1. OthersStay(e) /\ e \in Living'
    BY <1>1, ChangeTypeTyped
  <2>2. QED
    BY <1>1, <2>1 DEF OthersStay, Living
<1>2. ASSUME New(e) PROVE Living' = Living \cup {e}
  <2>1. e \in Living' /\ \A x \in Entities \ {e} : place'[x] = place[x]
    BY <1>2, NewTyped
  <2>2. QED
    BY <2>1 DEF Living
<1>3. ASSUME Kill(e) PROVE Living' = Living \ {e}
  <2>1. OthersStay(e)
    BY <1>3, KillTyped
  <2>2. place'[e].table = None
    BY <1>3, Removed DEF Nowhere
  <2>3. QED
    BY <2>1, <2>2 DEF OthersStay, Living
<1>4. QED
  BY <1>1, <1>2, <1>3, OperationTypes

-----------------------------------------------------------------------------
(* The sorted array of targeted observers. *)

LEMMA Keys ==
  ASSUME NEW x \in TargetSet
  PROVE  x.index \in Nat /\ x.event \in Events /\ x.event \in Nat \ {0} /\ x.observer \in Nat
         /\ x = [index |-> x.index, event |-> x.event, observer |-> x.observer]
  BY EventsNumbered DEF TargetSet

(* The search finds the end of the entries below a key.                     *)
LEMMA LowerBoundIs ==
  ASSUME targets \in Seq(TargetSet), Sorted(targets), NEW index \in Nat, NEW event \in Nat
  PROVE  /\ LowerBound(index, event) \in 1..(Len(targets) + 1)
         /\ \A i \in 1..Len(targets) : i < LowerBound(index, event) <=> Below(targets[i], index, event)
<1> DEFINE n == Len(targets)
           K == {i \in 1..n : Below(targets[i], index, event)}
<1>1. n \in Nat /\ DOMAIN targets = 1..n /\ \A i \in 1..n : targets[i] \in TargetSet
  OBVIOUS
<1>2. LowerBound(index, event) = 1 + Cardinality(K)
  BY <1>1 DEF LowerBound, Below
<1> HIDE DEF n
<1>3. ASSUME NEW i \in K, NEW j \in 1..n, j < i PROVE j \in K
  <2>1. PICK x \in TargetSet : x = targets[i]
    BY <1>1
  <2>2. PICK y \in TargetSet : y = targets[j]
    BY <1>1
  <2>3. Below(x, index, event) /\ ~Below(x, y.index, y.event)
    BY <1>1, <1>3, <2>1, <2>2 DEF Sorted
  <2>4. {x.index, x.event, y.index, y.event} \subseteq Nat
    BY Keys
  <2>5. Below(y, index, event)
    BY <2>3, <2>4 DEF Below
  <2>6. QED
    BY <2>2, <2>5
<1>4. /\ K \in SUBSET (1..n) /\ \A i \in K : \A j \in 1..n : j < i => j \in K
      /\ \A i \in 1..n : i \in K <=> Below(targets[i], index, event)
  BY <1>3
<1> HIDE DEF K
<1>5. Cardinality(K) \in 0..n /\ K = 1..Cardinality(K)
  BY <1>1, <1>4, InitialPart
<1>6. PICK m \in Nat : m = Cardinality(K)
  BY <1>5
<1>7. m \in 0..n /\ K = 1..m /\ LowerBound(index, event) = 1 + m
  BY <1>2, <1>5, <1>6
<1>8. \A i \in 1..n : i < 1 + m <=> i \in K
  BY <1>1, <1>7
<1>9. QED
  BY <1>1, <1>7, <1>8, <1>4 DEF n

LEMMA SortedCut ==
  ASSUME NEW T \in Seq(TargetSet), Sorted(T), NEW from \in 1..(Len(T) + 1), NEW to \in from..(Len(T) + 1)
  PROVE  Sorted(Cut(T, from, to))
<1> DEFINE C == Cut(T, from, to)
           old(i) == IF i < from THEN i ELSE i + (to - from)
<1>1. C \in Seq(TargetSet) /\ Len(C) = Len(T) - (to - from)
      /\ \A i \in 1..(Len(T) - (to - from)) : C[i] = T[old(i)]
  BY CutLeaves
<1>2. Len(T) \in Nat /\ DOMAIN T = 1..Len(T) /\ DOMAIN C = 1..(Len(T) - (to - from))
  BY <1>1
<1> HIDE DEF C
<1>3. ASSUME NEW i \in DOMAIN C, NEW j \in DOMAIN C, i < j
      PROVE  old(i) \in DOMAIN T /\ old(j) \in DOMAIN T /\ old(i) < old(j)
  <2>1. i \in 1..(Len(T) - (to - from)) /\ j \in 1..(Len(T) - (to - from))
    BY <1>2
  <2>2. ASSUME NEW k \in 1..(Len(T) - (to - from)) PROVE old(k) \in 1..Len(T)
    BY <1>2
  <2>3. old(i) < old(j)
    BY <1>2, <1>3, <2>1
  <2>4. QED
    BY <1>2, <2>1, <2>2, <2>3
<1> HIDE DEF old
<1>4. QED
  BY <1>1, <1>2, <1>3 DEF Sorted, C

LEMMA SortedInsert ==
  ASSUME NEW T \in Seq(TargetSet), Sorted(T), NEW x \in TargetSet, NEW p \in 1..(Len(T) + 1),
         \A i \in 1..Len(T) : i < p => ~Below(x, T[i].index, T[i].event),
         \A i \in 1..Len(T) : i >= p => ~Below(T[i], x.index, x.event)
  PROVE  Sorted(InsertAt(T, p, x))
<1> DEFINE C == InsertAt(T, p, x)
<1>1. C \in Seq(TargetSet) /\ Len(C) = Len(T) + 1
      /\ \A i \in 1..(Len(T) + 1) : C[i] = IF i < p THEN T[i] ELSE IF i = p THEN x ELSE T[i - 1]
  BY Inserted
<1>2. Len(T) \in Nat /\ DOMAIN T = 1..Len(T) /\ DOMAIN C = 1..(Len(T) + 1)
  BY <1>1
<1> HIDE DEF C
<1>3. SUFFICES ASSUME NEW i \in DOMAIN C, NEW j \in DOMAIN C, i < j
               PROVE  ~Below(C[j], C[i].index, C[i].event)
  BY DEF Sorted, C
<1>4. \A k, l \in 1..Len(T) : k < l => ~Below(T[l], T[k].index, T[k].event)
  BY <1>2 DEF Sorted
<1>5. CASE j < p
  <2>1. i \in 1..Len(T) /\ j \in 1..Len(T) /\ C[i] = T[i] /\ C[j] = T[j]
    BY <1>1, <1>2, <1>3, <1>5
  <2>2. QED
    BY <1>3, <1>4, <2>1
<1>6. CASE j = p
  <2>1. i \in 1..Len(T) /\ i < p /\ C[i] = T[i] /\ C[j] = x
    BY <1>1, <1>2, <1>3, <1>6
  <2>2. QED
    BY <2>1
<1>7. CASE j > p
  <2>1. j - 1 \in 1..Len(T) /\ j - 1 >= p /\ C[j] = T[j - 1]
    BY <1>1, <1>2, <1>3, <1>7
  <2>2. CASE i < p
    <3>1. i \in 1..Len(T) /\ C[i] = T[i] /\ i < j - 1
      BY <1>1, <1>2, <2>1, <2>2
    <3>2. QED
      BY <1>4, <2>1, <3>1
  <2>3. CASE i = p
    <3>1. C[i] = x
      BY <1>1, <1>2, <2>3
    <3>2. QED
      BY <2>1, <3>1
  <2>4. CASE i > p
    <3>1. i - 1 \in 1..Len(T) /\ C[i] = T[i - 1] /\ i - 1 < j - 1
      BY <1>1, <1>2, <1>3, <2>4
    <3>2. QED
      BY <1>4, <2>1, <3>1
  <2>5. QED
    BY <1>2, <2>2, <2>3, <2>4
<1>8. QED
  BY <1>2, <1>5, <1>6, <1>7

-----------------------------------------------------------------------------
(* Slots of observers. *)

(* What holds of an observer that has not ended.                            *)
LEMMA AliveFacts ==
  ASSUME SlotsOfObservers
  PROVE  /\ DOMAIN observers = 1..Len(observers) /\ Len(observers) \in Nat
         /\ Alive \subseteq DOMAIN observers
         /\ \A o \in Alive : /\ observers[o] \in ObserverSet /\ observers[o].event \in Events
                             /\ observers[o].query \in Nat
                             /\ observers[o].watched \in Entities \cup {None}
         /\ \A o \in DOMAIN observers \ Alive : observers[o] = Gone
         /\ unused \in Seq(Nat) /\ DOMAIN unused = 1..Len(unused) /\ Len(unused) \in Nat
         /\ Alive = {o \in DOMAIN observers : observers[o] \in ObserverSet}
<1>1. observers \in Seq(ObserverSet \cup {Gone}) /\ unused \in Seq(Nat)
  BY DEF SlotsOfObservers
<1>2. DOMAIN observers = 1..Len(observers) /\ Len(observers) \in Nat
      /\ \A o \in DOMAIN observers : observers[o] \in ObserverSet \cup {Gone}
  BY <1>1
<1>3. \A x \in ObserverSet : x.alive = TRUE /\ x.event \in Events /\ x.query \in Nat
                             /\ x.watched \in Entities \cup {None}
  BY DEF ObserverSet
<1>4. Gone.alive = FALSE
  BY DEF Gone
<1>5. \A o \in DOMAIN observers : IsAlive(o) <=> observers[o] \in ObserverSet
  BY <1>2, <1>3, <1>4 DEF IsAlive
<1>6. QED
  BY <1>1, <1>2, <1>3, <1>5 DEF Alive

(* Which observers are alive in the next state.                             *)
LEMMA AliveThen ==
  ASSUME NEW n \in Nat, observers' \in Seq(ObserverSet \cup {Gone}), DOMAIN observers' = 1..n
  PROVE  Alive' = {o \in 1..n : observers'[o] \in ObserverSet}
<1>1. \A x \in ObserverSet : x.alive = TRUE
  BY DEF ObserverSet
<1>2. Gone.alive = FALSE
  BY DEF Gone
<1>3. \A o \in 1..n : observers'[o] \in ObserverSet \cup {Gone}
  OBVIOUS
<1>4. \A o \in 1..n : observers'[o].alive <=> observers'[o] \in ObserverSet
  BY <1>1, <1>2, <1>3
<1>5. QED
  BY <1>4 DEF Alive, IsAlive

LEMMA GoneIsNone == Gone \notin ObserverSet
<1>1. \A x \in ObserverSet : x.alive = TRUE
  BY DEF ObserverSet
<1>2. QED
  BY <1>1 DEF Gone

(* A new observer takes the slot of one that has ended, if there is one.    *)
LEMMA Registered ==
  ASSUME SlotsOfObservers, NEW record \in ObserverSet, Register(record)
  PROVE  /\ SlotsOfObservers' /\ Slot \notin Alive /\ Slot \in Nat \ {0}
         /\ Alive' = Alive \cup {Slot} /\ observers'[Slot] = record
         /\ \A o \in Alive : observers'[o] = observers[o]
         /\ DOMAIN observers' = DOMAIN observers \cup {Slot}
<1>1. PICK n \in Nat : n = Len(observers) /\ DOMAIN observers = 1..n
  BY AliveFacts
<1>2. PICK s : s = Slot
  OBVIOUS
<1>3. /\ observers \in Seq(ObserverSet \cup {Gone}) /\ unused \in Seq(Nat)
      /\ \A i, j \in DOMAIN unused : unused[i] = unused[j] => i = j
      /\ Range(unused) = DOMAIN observers \ Alive
  BY DEF SlotsOfObservers
<1>4. DOMAIN observers = 1..n /\ Alive \subseteq DOMAIN observers
      /\ Alive = {o \in DOMAIN observers : observers[o] \in ObserverSet}
  BY <1>1, AliveFacts
<1>5. CASE unused = <<>>
  <2>1. s = n + 1 /\ observers' = Append(observers, record) /\ unused' = unused
    BY <1>1, <1>2, <1>5 DEF Slot, Register
  <2>2. /\ observers' \in Seq(ObserverSet \cup {Gone}) /\ DOMAIN observers' = 1..(n + 1)
        /\ observers'[n + 1] = record /\ \A o \in 1..n : observers'[o] = observers[o]
    BY <1>1, <1>3, <2>1, AppendProperties
  <2>3. Alive' = Alive \cup {s}
    BY <1>4, <2>1, <2>2, AliveThen
  <2>4. Range(unused) = {}
    BY <1>5 DEF Range
  <2>5. Range(unused') = DOMAIN observers' \ Alive'
    <3>1. DOMAIN observers \subseteq Alive
      BY <1>3, <2>4
    <3>2. DOMAIN observers' = DOMAIN observers \cup {s}
      BY <1>4, <2>1, <2>2
    <3>3. Range(unused') = {}
      BY <2>1, <2>4
    <3>4. QED
      BY <2>3, <3>1, <3>2, <3>3
  <2>6. SlotsOfObservers'
    BY <1>3, <2>1, <2>2, <2>5 DEF SlotsOfObservers
  <2>7. s \notin Alive /\ DOMAIN observers' = DOMAIN observers \cup {s} /\ s \in Nat \ {0}
    BY <1>4, <2>1, <2>2
  <2>8. \A o \in Alive : observers'[o] = observers[o]
    BY <1>4, <2>2
  <2>9. QED
    BY <1>2, <2>1, <2>2, <2>3, <2>6, <2>7, <2>8
<1>6. CASE unused # <<>>
  <2>1. s = Head(unused) /\ observers' = [observers EXCEPT ![s] = record] /\ unused' = Tail(unused)
    BY <1>2, <1>6 DEF Slot, Register
  <2>2. /\ Len(unused) \in Nat \ {0} /\ DOMAIN unused = 1..Len(unused) /\ s = unused[1]
        /\ unused' \in Seq(Nat) /\ DOMAIN unused' = 1..(Len(unused) - 1)
        /\ \A i \in 1..(Len(unused) - 1) : unused'[i] = unused[i + 1]
    BY <1>3, <1>6, <2>1
  <2>3. s \in Range(unused) /\ s \in DOMAIN observers /\ s \notin Alive
    <3>1. 1 \in DOMAIN unused
      BY <2>2
    <3>2. s \in Range(unused)
      BY <2>2, <3>1 DEF Range
    <3>3. QED
      BY <1>3, <3>2
  <2>4. /\ observers' \in Seq(ObserverSet \cup {Gone}) /\ DOMAIN observers' = 1..n
        /\ observers'[s] = record /\ \A o \in DOMAIN observers \ {s} : observers'[o] = observers[o]
    <3>1. /\ DOMAIN observers' = DOMAIN observers /\ observers'[s] = record
          /\ \A o \in DOMAIN observers \ {s} : observers'[o] = observers[o]
      BY <1>3, <2>1, <2>3
    <3>2. record \in ObserverSet \cup {Gone}
      OBVIOUS
    <3> DEFINE X == ObserverSet \cup {Gone}
    <3>3. observers \in Seq(X) /\ record \in X /\ s \in 1..n
      BY <1>3, <1>4, <2>3, <3>2
    <3> HIDE DEF X
    <3>4. observers' \in Seq(X)
      <4>1. s \in 1..Len(observers)
        BY <1>1, <3>3
      <4>2. QED
        BY ONLY <2>1, <3>3, <4>1, ExceptSeq
    <3>5. QED
      BY <1>4, <3>1, <3>4 DEF X
  <2>5. Alive' = Alive \cup {s}
    <3>1. Alive' = {o \in 1..n : observers'[o] \in ObserverSet}
      BY <1>4, <2>4, AliveThen
    <3>2. QED
      BY <1>4, <2>3, <2>4, <3>1
  <2>6. Range(unused') = Range(unused) \ {s}
    <3>1. ASSUME NEW x \in Range(unused') PROVE x \in Range(unused) \ {s}
      <4>1. PICK i \in DOMAIN unused' : x = unused'[i]
        BY DEF Range
      <4>2. i + 1 \in DOMAIN unused /\ 1 \in DOMAIN unused /\ i + 1 # 1 /\ x = unused[i + 1]
        BY <2>2, <4>1
      <4>3. x # s
        BY <1>3, <2>2, <4>2
      <4>4. QED
        BY <4>2, <4>3 DEF Range
    <3>2. ASSUME NEW x \in Range(unused) \ {s} PROVE x \in Range(unused')
      <4>1. PICK i \in DOMAIN unused : x = unused[i]
        BY DEF Range
      <4>2. i - 1 \in DOMAIN unused' /\ x = unused'[i - 1]
        BY <2>2, <3>2, <4>1
      <4>3. QED
        BY <4>2 DEF Range
    <3>3. QED
      BY <3>1, <3>2
  <2>7. \A i, j \in DOMAIN unused' : unused'[i] = unused'[j] => i = j
    <3>1. ASSUME NEW i \in DOMAIN unused', NEW j \in DOMAIN unused', unused'[i] = unused'[j]
          PROVE  i = j
      <4>1. /\ i + 1 \in DOMAIN unused /\ j + 1 \in DOMAIN unused /\ i \in Nat /\ j \in Nat
            /\ unused[i + 1] = unused[j + 1]
        BY <2>2, <3>1
      <4>2. QED
        BY <1>3, <4>1
    <3>2. QED
      BY <3>1
  <2>8. SlotsOfObservers'
    BY <1>3, <1>4, <2>2, <2>3, <2>4, <2>5, <2>6, <2>7 DEF SlotsOfObservers
  <2>9. DOMAIN observers' = DOMAIN observers \cup {s} /\ s \in Nat \ {0}
        /\ \A o \in Alive : observers'[o] = observers[o]
    BY <1>4, <2>3, <2>4
  <2>10. QED
    BY <1>2, <2>3, <2>4, <2>5, <2>8, <2>9
<1>7. QED
  BY <1>5, <1>6

(* Observers that end give their slots back, the last one first.            *)
LEMMA EndedObservers ==
  ASSUME SlotsOfObservers, NEW ended \in Seq(Nat), Range(ended) \subseteq Alive,
         \A i, j \in DOMAIN ended : ended[i] = ended[j] => i = j,
         observers' = [o \in DOMAIN observers |-> IF o \in Range(ended) THEN Gone ELSE observers[o]],
         unused' = Reverse(ended) \o unused
  PROVE  /\ SlotsOfObservers' /\ Alive' = Alive \ Range(ended)
         /\ \A o \in Alive \ Range(ended) : observers'[o] = observers[o]
         /\ DOMAIN observers' = DOMAIN observers
<1>1. PICK n \in Nat, k \in Nat, m \in Nat :
        n = Len(observers) /\ k = Len(ended) /\ m = Len(unused)
  <2>1. Len(observers) \in Nat /\ Len(ended) \in Nat /\ Len(unused) \in Nat
    BY AliveFacts
  <2>2. QED
    BY <2>1
<1>2. /\ observers \in Seq(ObserverSet \cup {Gone}) /\ unused \in Seq(Nat)
      /\ \A i, j \in DOMAIN unused : unused[i] = unused[j] => i = j
      /\ Range(unused) = DOMAIN observers \ Alive
  BY DEF SlotsOfObservers
<1>3. DOMAIN observers = 1..n /\ Alive \subseteq DOMAIN observers
      /\ Alive = {o \in DOMAIN observers : observers[o] \in ObserverSet}
  BY <1>1, AliveFacts
<1>4. DOMAIN ended = 1..k /\ DOMAIN unused = 1..m
  BY <1>1, <1>2
<1>5. \A o \in 1..n : observers'[o] \in ObserverSet \cup {Gone}
  BY <1>2, <1>3
<1>6. observers' \in Seq(ObserverSet \cup {Gone}) /\ DOMAIN observers' = 1..n
  <2> DEFINE X == ObserverSet \cup {Gone}
  <2>1. DOMAIN observers' = 1..n /\ \A o \in 1..n : observers'[o] \in X
    BY <1>3, <1>5
  <2> HIDE DEF X
  <2>2. observers' = [o \in 1..n |-> observers'[o]]
    BY <1>3
  <2>3. observers' \in [1..n -> X]
    BY <2>1, <2>2
  <2>4. observers' \in Seq(X)
    BY <1>3, <2>3
  <2>5. QED
    BY <2>1, <2>4 DEF X
<1>7. Alive' = Alive \ Range(ended)
  <2>1. Alive' = {o \in 1..n : observers'[o] \in ObserverSet}
    BY <1>3, <1>6, AliveThen
  <2>2. \A o \in 1..n : observers'[o] = IF o \in Range(ended) THEN Gone ELSE observers[o]
    BY <1>3
  <2>3. QED
    BY <1>3, <2>1, <2>2, GoneIsNone
<1> DEFINE back == Reverse(ended)
<1>8. /\ back \in Seq(Nat) /\ Len(back) = k /\ DOMAIN back = 1..k
      /\ \A i \in 1..k : back[i] = ended[k - i + 1]
  <2>1. back = [i \in 1..k |-> ended[k - i + 1]]
    BY <1>1 DEF Reverse
  <2>2. \A i \in 1..k : k - i + 1 \in 1..k /\ ended[k - i + 1] \in Nat
    BY <1>4
  <2> HIDE DEF back
  <2>3. QED
    BY <1>4, <2>1, <2>2
<1> HIDE DEF back
<1>9. /\ unused' \in Seq(Nat) /\ DOMAIN unused' = 1..(k + m)
      /\ \A i \in 1..(k + m) : unused'[i] = IF i <= k THEN ended[k - i + 1] ELSE unused[i - k]
  <2>1. unused' = back \o unused
    BY DEF back
  <2>2. /\ unused' \in Seq(Nat) /\ Len(unused') = k + m
        /\ \A i \in 1..(k + m) : unused'[i] = IF i <= k THEN back[i] ELSE unused[i - k]
    BY <1>1, <1>2, <1>8, <2>1, ConcatProperties
  <2>3. DOMAIN unused' = 1..(k + m)
    BY <1>4, <2>2
  <2>4. QED
    BY <1>4, <1>8, <2>2, <2>3
<1>10. Range(unused') = Range(ended) \cup Range(unused)
  <2>1. ASSUME NEW x \in Range(unused') PROVE x \in Range(ended) \cup Range(unused)
    <3>1. PICK i \in 1..(k + m) : x = unused'[i]
      BY <1>9 DEF Range
    <3>2. CASE i <= k
      <4>1. k - i + 1 \in DOMAIN ended /\ x = ended[k - i + 1]
        BY <1>4, <1>9, <3>1, <3>2
      <4>2. QED
        BY <4>1 DEF Range
    <3>3. CASE ~(i <= k)
      <4>1. i - k \in DOMAIN unused /\ x = unused[i - k]
        BY <1>4, <1>9, <3>1, <3>3
      <4>2. QED
        BY <4>1 DEF Range
    <3>4. QED
      BY <3>2, <3>3
  <2>2. ASSUME NEW x \in Range(ended) PROVE x \in Range(unused')
    <3>1. PICK i \in 1..k : x = ended[i]
      BY <1>4 DEF Range
    <3>2. k - i + 1 \in 1..(k + m) /\ k - i + 1 <= k /\ k - (k - i + 1) + 1 = i
      BY <1>4
    <3>3. unused'[k - i + 1] = x
      BY <1>9, <3>1, <3>2
    <3>4. QED
      BY <1>9, <3>2, <3>3 DEF Range
  <2>3. ASSUME NEW x \in Range(unused) PROVE x \in Range(unused')
    <3>1. PICK i \in 1..m : x = unused[i]
      BY <1>4 DEF Range
    <3>2. k + i \in 1..(k + m) /\ ~(k + i <= k) /\ (k + i) - k = i
      BY <1>4
    <3>3. unused'[k + i] = x
      BY <1>9, <3>1, <3>2
    <3>4. QED
      BY <1>9, <3>2, <3>3 DEF Range
  <2>4. QED
    BY <2>1, <2>2, <2>3
<1>11. ASSUME NEW i \in DOMAIN unused', NEW j \in DOMAIN unused', unused'[i] = unused'[j]
       PROVE  i = j
  <2>1. \A x \in 1..k, y \in 1..m : ended[x] # unused[y]
    <3>1. ASSUME NEW x \in 1..k, NEW y \in 1..m PROVE ended[x] # unused[y]
      <4>1. ended[x] \in Alive /\ unused[y] \notin Alive
        BY <1>2, <1>4 DEF Range
      <4>2. QED
        BY <4>1
    <3>2. QED
      BY <3>1
  <2>2. i \in 1..(k + m) /\ j \in 1..(k + m)
    BY <1>9
  <2>3. \A x \in 1..(k + m) :
         /\ x <= k => k - x + 1 \in 1..k /\ unused'[x] = ended[k - x + 1]
         /\ x > k => x - k \in 1..m /\ unused'[x] = unused[x - k]
    BY <1>9
  <2>4. CASE i <= k /\ j <= k
    <3>1. k - i + 1 \in DOMAIN ended /\ k - j + 1 \in DOMAIN ended /\ ended[k - i + 1] = ended[k - j + 1]
      BY <1>4, <1>11, <2>2, <2>3, <2>4
    <3>2. k - i + 1 = k - j + 1
      BY <3>1
    <3>3. QED
      BY <1>4, <2>2, <3>2
  <2>5. CASE i > k /\ j > k
    <3>1. i - k \in DOMAIN unused /\ j - k \in DOMAIN unused /\ unused[i - k] = unused[j - k]
      BY <1>4, <1>11, <2>2, <2>3, <2>5
    <3>2. i - k = j - k
      BY <1>2, <3>1
    <3>3. QED
      BY <1>4, <2>2, <3>2
  <2>6. CASE i <= k /\ j > k
    <3>1. k - i + 1 \in 1..k /\ j - k \in 1..m /\ ended[k - i + 1] = unused[j - k]
      BY <1>4, <1>11, <2>2, <2>3, <2>6
    <3>2. QED
      BY <2>1, <3>1
  <2>7. CASE i > k /\ j <= k
    <3>1. k - j + 1 \in 1..k /\ i - k \in 1..m /\ ended[k - j + 1] = unused[i - k]
      BY <1>4, <1>11, <2>2, <2>3, <2>7
    <3>2. QED
      BY <2>1, <3>1
  <2>8. QED
    BY <1>4, <2>2, <2>4, <2>5, <2>6, <2>7
<1>12. SlotsOfObservers'
  <2>1. Range(unused') = DOMAIN observers' \ Alive'
    BY <1>2, <1>3, <1>6, <1>7, <1>10
  <2>2. QED
    BY <1>6, <1>9, <1>11, <2>1 DEF SlotsOfObservers
<1>13. QED
  BY <1>3, <1>6, <1>7, <1>12

-----------------------------------------------------------------------------
(* The registry, operation by operation. *)

(* An observer is global exactly when it watches no entity.                 *)
LEMMA GlobalOrTargeted ==
  ASSUME Typed, SlotsOfObservers, Linked, NEW o \in Alive
  PROVE  /\ Global(o) <=> observers[o].watched = None
         /\ Global(o) => observers[o].query \in Range(active)
         /\ ~Global(o) => observers[o].watched \in Entities
         /\ None \notin Range(active) /\ None \notin DOMAIN observers
<1>1. None \notin DOMAIN queries /\ Range(active) \subseteq DOMAIN queries
  <2>1. active \in Seq(DOMAIN queries)
    BY DEF Typed, TypeOK
  <2>2. DOMAIN queries = 1..Len(queries) /\ Len(queries) \in Nat
    BY TypedFacts
  <2>3. Range(active) \subseteq DOMAIN queries
    BY <2>1 DEF Range
  <2>4. QED
    BY <2>2, <2>3 DEF None
<1>2. IF observers[o].watched = None THEN observers[o].query \in Range(active)
      ELSE observers[o].query = None
  BY DEF Linked
<1>3. observers[o].watched \in Entities \cup {None} /\ DOMAIN observers = 1..Len(observers)
      /\ Len(observers) \in Nat
  BY AliveFacts
<1>4. None \notin DOMAIN observers
  BY <1>3 DEF None
<1>5. QED
  BY <1>1, <1>2, <1>3, <1>4 DEF Global

(* The entries stay right while the targeted observers and what they watch   *)
(* stay.                                                                     *)
LEMMA TargetsStay ==
  ASSUME TargetsKept, targets' = targets,
         \A o \in Alive : observers[o].watched # None =>
           /\ o \in Alive' /\ observers'[o].watched = observers[o].watched
           /\ observers'[o].event = observers[o].event /\ observers[o].watched \in Living',
         \A o \in Alive' : observers'[o].watched # None => o \in Alive /\ observers[o].watched # None,
         None \notin Living
  PROVE  TargetsKept'
<1>1. ASSUME NEW i \in DOMAIN targets PROVE Entered(targets[i].observer, targets[i])'
  <2>1. PICK x : x = targets[i]
    OBVIOUS
  <2>2. Entered(x.observer, x)
    BY <2>1 DEF TargetsKept
  <2>3. observers[x.observer].watched # None /\ x.observer \in Alive
    BY <2>2 DEF Entered
  <2>4. Entered(x.observer, x)'
    BY <2>2, <2>3 DEF Entered
  <2>5. QED
    BY <2>1, <2>4
<1>2. \A o \in Alive' : observers'[o].watched # None => \E i \in DOMAIN targets : targets[i].observer = o
  BY DEF TargetsKept
<1>3. targets \in Seq(TargetSet) /\ Sorted(targets)
      /\ \A i, j \in DOMAIN targets : targets[i].observer = targets[j].observer => i = j
  BY DEF TargetsKept
<1>4. QED
  BY <1>1, <1>2, <1>3 DEF TargetsKept, Sorted, Below

(* Observers registered, ended or changed leave the links to queries right.  *)
LEMMA LinkedStays ==
  ASSUME Linked, active' = active, Alive' \subseteq Alive,
         \A o \in Alive' : observers'[o].query = observers[o].query
                           /\ observers'[o].watched = observers[o].watched,
         \A o \in Alive : Global(o) => o \in Alive',
         None \notin Range(active)
  PROVE  Linked'
<1>1. \A o \in Alive' : IF observers'[o].watched = None THEN observers'[o].query \in Range(active')
                        ELSE observers'[o].query = None
  BY DEF Linked
<1>2. \A o, p \in Alive' : observers'[o].query = observers'[p].query /\ observers'[o].query # None => o = p
  BY DEF Linked, Global
<1>3. ASSUME NEW s \in Range(active') PROVE \E o \in Alive' : observers'[o].query = s
  <2>1. PICK o \in Alive : observers[o].query = s
    BY <1>3 DEF Linked
  <2>2. o \in Alive'
    BY <1>3, <2>1 DEF Global
  <2>3. QED
    BY <2>1, <2>2
<1>4. QED
  BY <1>1, <1>2, <1>3 DEF Linked, Global

(* An operation on entities that kills none.                                *)
LEMMA RegistryStays ==
  ASSUME Typed, Registry, UNCHANGED <<observers, targets, unused, active, free>>,
         Living \subseteq Living', IndexesApart'
  PROVE  Registry' /\ Alive' = Alive
<1>1. Alive' = Alive
  BY DEF Alive, IsAlive
<1>2. SlotsOfObservers'
  BY <1>1 DEF Registry, SlotsOfObservers
<1>3. Slots'
  BY DEF Registry, Slots
<1>4. Linked'
  BY <1>1 DEF Registry, Linked, Global
<1>5. TargetsKept'
  <2>1. TargetsKept
    BY DEF Registry
  <2>2. \A i \in DOMAIN targets : Entered(targets[i].observer, targets[i])'
    BY <1>1, <2>1 DEF TargetsKept, Entered
  <2>3. QED
    BY <1>1, <2>1, <2>2 DEF TargetsKept, Sorted, Below
<1>6. QED
  BY <1>1, <1>2, <1>3, <1>4, <1>5 DEF Registry

(* No two living entities have one index: a new entity takes an index that   *)
(* is free (ecs_new), and none changes.                                      *)
LEMMA IndexesStayApart ==
  ASSUME IndexesApart, Living' \subseteq Living \/ \E e \in Entities : New(e) /\ Living' = Living \cup {e}
  PROVE  IndexesApart'
<1>1. CASE Living' \subseteq Living
  BY <1>1 DEF IndexesApart
<1>2. ASSUME NEW e \in Entities, New(e), Living' = Living \cup {e} PROVE IndexesApart'
  <2>1. \A d \in Living : IndexOf[d] # IndexOf[e]
    BY <1>2 DEF New
  <2>2. QED
    BY <1>2, <2>1 DEF IndexesApart
<1>3. QED
  BY <1>1, <1>2

LEMMA NoneNeverLives == None \notin Living /\ Living \subseteq Entities /\ None \notin Entities
  BY EntitiesNumbered DEF Living

(* What targeted observers watch lives.                                     *)
LEMMA Watching ==
  ASSUME TargetsKept
  PROVE  \A o \in Alive : observers[o].watched # None => observers[o].watched \in Living
<1>1. ASSUME NEW o \in Alive, observers[o].watched # None PROVE observers[o].watched \in Living
  <2>1. PICK i \in DOMAIN targets : targets[i].observer = o
    BY <1>1 DEF TargetsKept
  <2>2. QED
    BY <2>1 DEF TargetsKept, Entered
<1>2. QED
  BY <1>1

LEMMA EnabledRecord ==
  ASSUME NEW r \in ObserverSet, NEW on \in BOOLEAN
  PROVE  LET record == [r EXCEPT !.enabled = on] IN
         /\ record \in ObserverSet /\ record.query = r.query
         /\ record.watched = r.watched /\ record.event = r.event
<1>1. r = [alive |-> r.alive, enabled |-> r.enabled, event |-> r.event, query |-> r.query,
           watched |-> r.watched]
  BY DEF ObserverSet
<1>2. r.alive \in {TRUE} /\ r.event \in Events /\ r.query \in Nat /\ r.watched \in Entities \cup {None}
  BY DEF ObserverSet
<1>3. [r EXCEPT !.enabled = on] = [alive |-> r.alive, enabled |-> on, event |-> r.event,
                                   query |-> r.query, watched |-> r.watched]
  BY <1>1
<1>4. QED
  BY <1>2, <1>3 DEF ObserverSet

(* ecs_observer_enable and ecs_observer_disable                              *)
LEMMA RegistryEnabled ==
  ASSUME Typed, Registry, NEW o \in DOMAIN observers, NEW on \in BOOLEAN, SetEnabled(o, on)
  PROVE  /\ Registry' /\ Alive' = Alive /\ DOMAIN observers' = DOMAIN observers /\ o \in Alive
         /\ \A p \in Alive : /\ observers'[p].query = observers[p].query
                             /\ observers'[p].watched = observers[p].watched
                             /\ observers'[p].event = observers[p].event
                             /\ p # o => observers'[p].enabled = observers[p].enabled
<1> DEFINE record == [observers[o] EXCEPT !.enabled = on]
<1>1. /\ SlotsOfObservers /\ Linked /\ TargetsKept /\ IndexesApart /\ Slots
  BY DEF Registry
<1>2. /\ o \in Alive /\ observers' = [observers EXCEPT ![o] = record]
      /\ UNCHANGED <<targets, unused, active, free, place>>
  BY DEF SetEnabled, Alive, tableVars, queryVars
<1>3. observers[o] \in ObserverSet
  BY <1>1, <1>2, AliveFacts
<1>4. /\ record \in ObserverSet /\ record.query = observers[o].query
      /\ record.watched = observers[o].watched /\ record.event = observers[o].event
  BY <1>3, EnabledRecord
<1> HIDE DEF record
<1>5. PICK n : n = Len(observers)
  OBVIOUS
<1>6. n \in Nat /\ n = Len(observers) /\ DOMAIN observers = 1..n
  BY <1>1, <1>5, AliveFacts
<1>7. observers' \in Seq(ObserverSet \cup {Gone}) /\ DOMAIN observers' = 1..n
      /\ observers'[o] = record /\ \A p \in DOMAIN observers \ {o} : observers'[p] = observers[p]
  <2> DEFINE X == ObserverSet \cup {Gone}
  <2>1. observers \in Seq(X) /\ record \in X
    BY <1>1, <1>4 DEF SlotsOfObservers
  <2> HIDE DEF X
  <2>2. o \in 1..Len(observers)
    BY <1>2, <1>6
  <2>3. observers' \in Seq(X)
    BY ONLY <1>2, <2>1, <2>2, ExceptSeq
  <2>4. QED
    BY <1>2, <1>6, <2>3 DEF X
<1>8. Alive' = Alive
  <2>1. Alive' = {p \in 1..n : observers'[p] \in ObserverSet}
    BY <1>6, <1>7, AliveThen
  <2>2. Alive = {p \in 1..n : observers[p] \in ObserverSet}
    BY <1>1, <1>6, AliveFacts
  <2>3. \A p \in 1..n : observers'[p] \in ObserverSet <=> observers[p] \in ObserverSet
    BY <1>3, <1>4, <1>6, <1>7
  <2>4. QED
    BY <2>1, <2>2, <2>3
<1>9. \A p \in Alive : /\ observers'[p].query = observers[p].query
                       /\ observers'[p].watched = observers[p].watched
                       /\ observers'[p].event = observers[p].event
                       /\ p # o => observers'[p].enabled = observers[p].enabled
  <2>1. Alive \subseteq DOMAIN observers
    BY DEF Alive
  <2>2. QED
    BY <1>4, <1>7, <2>1
<1>10. SlotsOfObservers'
  BY <1>1, <1>2, <1>6, <1>7, <1>8 DEF SlotsOfObservers
<1>11. None \notin Range(active)
  BY <1>1, <1>2, GlobalOrTargeted
<1>12. Linked'
  BY <1>1, <1>2, <1>8, <1>9, <1>11, LinkedStays
<1>13. Living' = Living
  BY <1>2 DEF Living
<1>14. TargetsKept'
  <2>1. \A p \in Alive : observers[p].watched # None => observers[p].watched \in Living
    BY <1>1, Watching
  <2>2. QED
    BY <1>1, <1>2, <1>8, <1>9, <1>13, <2>1, TargetsStay, NoneNeverLives
<1>15. Slots' /\ IndexesApart'
  BY <1>1, <1>2, <1>13 DEF Slots, IndexesApart
<1>16. QED
  BY <1>2, <1>6, <1>7, <1>8, <1>9, <1>10, <1>12, <1>14, <1>15 DEF Registry

(* ecs_observer_init without an entity: the new observer has the new query.  *)
LEMMA RegistryObserveAll ==
  ASSUME Typed, Typed', Registry, NEW event \in Events, NEW shape \in Shapes, ObserveAll(event, shape)
  PROVE  /\ Registry' /\ Slot \notin Alive /\ Alive' = Alive \cup {Slot}
         /\ DOMAIN observers' = DOMAIN observers \cup {Slot}
         /\ \A o \in Alive : observers'[o] = observers[o]
         /\ \E s : /\ s \notin Range(active) /\ Range(active') = Range(active) \cup {s} /\ s = Last(active')
                   /\ queries'[s] = [alive |-> TRUE, shape |-> shape, cache |-> Filled(shape)]
                   /\ \A x \in DOMAIN queries \ {s} : queries'[x] = queries[x]
                   /\ observers'[Slot] = [alive |-> TRUE, enabled |-> TRUE, event |-> event,
                                          query |-> s, watched |-> None]
<1>1. SlotsOfObservers /\ Linked /\ TargetsKept /\ IndexesApart /\ Slots
  BY DEF Registry
<1>2. CreateQuery(shape) /\ UNCHANGED <<tableVars, targets>>
  BY DEF ObserveAll, CreateQuery
<1>3. PICK s : /\ s \notin Range(active) /\ Range(active') = Range(active) \cup {s}
               /\ queries'[s] = [alive |-> TRUE, shape |-> shape, cache |-> Filled(shape)]
               /\ DOMAIN queries' = DOMAIN queries \cup {s}
               /\ \A x \in DOMAIN queries \ {s} : queries'[x] = queries[x]
  BY <1>1, <1>2, Activated
<1>4. Slots'
  BY <1>1, <1>2, Activated
<1>5. Last(active') = s
  <2>1. PICK q : q = IF free = <<>> THEN Len(queries) + 1 ELSE Head(free)
    OBVIOUS
  <2>2. active' = Append(active, q)
    BY <1>2, <2>1 DEF CreateQuery, QueryInit
  <2>3. active \in Seq(DOMAIN queries)
    BY DEF Typed, TypeOK
  <2>4. active \in Seq(DOMAIN queries \cup {q}) /\ q \in DOMAIN queries \cup {q}
    BY <2>3, SeqMonotonic
  <2>5. Range(active') = Range(active) \cup {q} /\ Last(active') = q
    <3> DEFINE X == DOMAIN queries \cup {q}
    <3>1. active \in Seq(X) /\ q \in X
      BY <2>4
    <3> HIDE DEF X
    <3>2. Range(active') = Range(active) \cup {q}
      BY <2>2, <3>1, RangeAppended
    <3>3. Len(active') = Len(active) + 1 /\ active'[Len(active) + 1] = q
      BY <2>2, <3>1, AppendProperties
    <3>4. QED
      BY <3>2, <3>3 DEF Last
  <2>6. q = s
    BY <1>3, <2>5
  <2>7. QED
    BY <2>5, <2>6
<1>6. s \in Nat /\ s # None
  <2>1. active' \in Seq(DOMAIN queries') /\ queries' \in Seq(Range(queries'))
    BY DEF Typed, TypeOK, Lists
  <2>2. DOMAIN queries' = 1..Len(queries') /\ Len(queries') \in Nat
    BY <2>1
  <2>3. Range(active') \subseteq DOMAIN queries'
    BY <2>1 DEF Range
  <2>4. s \in Range(active')
    BY <1>3
  <2>5. QED
    BY <2>2, <2>3, <2>4 DEF None
<1> DEFINE record == [alive |-> TRUE, enabled |-> TRUE, event |-> event, query |-> s, watched |-> None]
<1>7. record \in ObserverSet /\ record.query = s /\ record.watched = None
  BY <1>6 DEF ObserverSet
<1>8. Register(record)
  BY <1>5 DEF ObserveAll
<1> HIDE DEF record
<1>9. /\ SlotsOfObservers' /\ Slot \notin Alive /\ Slot \in Nat \ {0}
      /\ Alive' = Alive \cup {Slot} /\ observers'[Slot] = record
      /\ \A o \in Alive : observers'[o] = observers[o]
      /\ DOMAIN observers' = DOMAIN observers \cup {Slot}
  BY <1>1, <1>7, <1>8, Registered
<1>10. PICK new : new = Slot
  OBVIOUS
<1>11. /\ new \notin Alive /\ Alive' = Alive \cup {new} /\ observers'[new] = record
  BY <1>9, <1>10
<1>12. None \notin Range(active) /\ \A o \in Alive : Global(o) => observers[o].query \in Range(active)
  <2>1. ASSUME NEW o \in Alive, Global(o) PROVE observers[o].query \in Range(active) /\ None \notin Range(active)
    BY <1>1, <2>1, GlobalOrTargeted
  <2>2. None \notin Range(active)
    <3>1. active \in Seq(DOMAIN queries) /\ DOMAIN queries = 1..Len(queries) /\ Len(queries) \in Nat
      BY TypedFacts DEF Typed, TypeOK
    <3>2. Range(active) \subseteq DOMAIN queries
      BY <3>1 DEF Range
    <3>3. QED
      BY <3>1, <3>2 DEF None
  <2>3. QED
    BY <2>1, <2>2
<1>13. Linked'
  <2>1. \A o \in Alive' : IF observers'[o].watched = None THEN observers'[o].query \in Range(active')
                         ELSE observers'[o].query = None
    BY <1>1, <1>3, <1>7, <1>9, <1>11 DEF Linked
  <2>2. ASSUME NEW o \in Alive', NEW p \in Alive', observers'[o].query = observers'[p].query,
               observers'[o].query # None
        PROVE  o = p
    <3>1. CASE o \in Alive /\ p \in Alive
      BY <1>1, <1>9, <2>2, <3>1 DEF Linked, Global
    <3>2. CASE o \in Alive /\ p = new
      <4>1. Global(o) /\ observers[o].query = s
        BY <1>7, <1>9, <1>11, <2>2, <3>2 DEF Global
      <4>2. QED
        BY <1>3, <1>12, <3>2, <4>1
    <3>3. CASE o = new /\ p \in Alive
      <4>1. Global(p) /\ observers[p].query = s
        BY <1>7, <1>9, <1>11, <2>2, <3>3 DEF Global
      <4>2. QED
        BY <1>3, <1>12, <3>3, <4>1
    <3>4. QED
      BY <1>11, <3>1, <3>2, <3>3
  <2>3. ASSUME NEW q \in Range(active') PROVE \E o \in Alive' : observers'[o].query = q
    <3>1. CASE q = s
      BY <1>7, <1>11, <3>1
    <3>2. CASE q \in Range(active)
      <4>1. PICK o \in Alive : observers[o].query = q
        BY <1>1, <3>2 DEF Linked
      <4>2. QED
        BY <1>9, <1>11, <4>1
    <3>3. QED
      BY <1>3, <2>3, <3>1, <3>2
  <2>4. QED
    BY <2>1, <2>2, <2>3 DEF Linked, Global
<1>14. Living' = Living
  BY <1>2 DEF Living, tableVars
<1>15. TargetsKept'
  <2>1. \A p \in Alive : observers[p].watched # None => observers[p].watched \in Living
    BY <1>1, Watching
  <2>2. \A o \in Alive : observers[o].watched # None =>
           /\ o \in Alive' /\ observers'[o].watched = observers[o].watched
           /\ observers'[o].event = observers[o].event /\ observers[o].watched \in Living'
    BY <1>9, <1>14, <2>1
  <2>3. \A o \in Alive' : observers'[o].watched # None => o \in Alive /\ observers[o].watched # None
    BY <1>7, <1>9, <1>11
  <2>4. QED
    BY <1>1, <1>2, <2>2, <2>3, TargetsStay, NoneNeverLives
<1>16. IndexesApart'
  BY <1>1, <1>14 DEF IndexesApart
<1>17. QED
  BY <1>3, <1>4, <1>5, <1>9, <1>13, <1>15, <1>16 DEF Registry, record

(* An entry goes in for a new targeted observer.                            *)
LEMMA TargetsInserted ==
  ASSUME TargetsKept, NEW s, s \notin Alive, Alive' = Alive \cup {s},
         \A o \in Alive : observers'[o] = observers[o], Living' = Living,
         NEW x \in TargetSet, x.observer = s, Entered(s, x)', NEW p \in 1..(Len(targets) + 1),
         targets' = InsertAt(targets, p, x), Sorted(targets')
  PROVE  TargetsKept'
<1>1. /\ targets \in Seq(TargetSet)
      /\ \A i, j \in DOMAIN targets : targets[i].observer = targets[j].observer => i = j
      /\ \A i \in DOMAIN targets : Entered(targets[i].observer, targets[i])
      /\ \A o \in Alive : observers[o].watched # None => \E i \in DOMAIN targets : targets[i].observer = o
  BY DEF TargetsKept
<1>2. PICK n \in Nat : n = Len(targets) /\ DOMAIN targets = 1..n
  BY <1>1
<1>3. /\ targets' \in Seq(TargetSet) /\ DOMAIN targets' = 1..(n + 1)
      /\ \A i \in 1..(n + 1) : targets'[i] = IF i < p THEN targets[i]
                                             ELSE IF i = p THEN x ELSE targets[i - 1]
  <2>1. /\ targets' \in Seq(TargetSet) /\ Len(targets') = Len(targets) + 1
        /\ \A i \in 1..(Len(targets) + 1) :
             targets'[i] = IF i < p THEN targets[i] ELSE IF i = p THEN x ELSE targets[i - 1]
    <3> DEFINE C == InsertAt(targets, p, x)
    <3>1. /\ C \in Seq(TargetSet) /\ Len(C) = Len(targets) + 1
          /\ \A i \in 1..(Len(targets) + 1) :
               C[i] = IF i < p THEN targets[i] ELSE IF i = p THEN x ELSE targets[i - 1]
      BY ONLY <1>1, x \in TargetSet, p \in 1..(Len(targets) + 1), Inserted
    <3>2. targets' = C
      OBVIOUS
    <3> HIDE DEF C
    <3>3. QED
      BY <3>1, <3>2
  <2>2. DOMAIN targets' = 1..(Len(targets) + 1)
    BY <2>1
  <2>3. QED
    BY <1>2, <2>1, <2>2
<1>4. p \in 1..(n + 1)
  BY <1>2
<1>5. ASSUME NEW i \in DOMAIN targets' \ {p}
      PROVE  \E k \in DOMAIN targets : /\ targets'[i] = targets[k] /\ targets[k].observer \in Alive
                                       /\ k = IF i < p THEN i ELSE i - 1
  <2>1. PICK k \in DOMAIN targets : targets'[i] = targets[k] /\ k = IF i < p THEN i ELSE i - 1
    BY <1>2, <1>3, <1>4
  <2>2. QED
    BY <1>1, <2>1 DEF Entered
<1>6. ASSUME NEW i \in DOMAIN targets', NEW j \in DOMAIN targets',
             targets'[i].observer = targets'[j].observer
      PROVE  i = j
  <2>1. CASE i = p \/ j = p
    <3>1. targets'[p].observer = s
      BY <1>3, <1>4
    <3>2. QED
      BY <1>5, <1>6, <2>1, <3>1
  <2>2. CASE i # p /\ j # p
    <3>1. PICK k \in DOMAIN targets : targets'[i] = targets[k] /\ k = IF i < p THEN i ELSE i - 1
      BY <1>5, <2>2
    <3>2. PICK l \in DOMAIN targets : targets'[j] = targets[l] /\ l = IF j < p THEN j ELSE j - 1
      BY <1>5, <2>2
    <3>3. k = l
      BY <1>1, <1>6, <3>1, <3>2
    <3>4. QED
      BY <1>2, <1>3, <1>4, <2>2, <3>1, <3>2, <3>3
  <2>3. QED
    BY <2>1, <2>2
<1>7. ASSUME NEW i \in DOMAIN targets' PROVE Entered(targets[i].observer, targets[i])'
  <2>1. CASE i = p
    <3>1. targets'[i] = x
      BY <1>3, <1>4, <2>1
    <3>2. Entered(x.observer, x)'
      OBVIOUS
    <3>3. QED
      BY <3>1, <3>2
  <2>2. CASE i # p
    <3>1. PICK k \in DOMAIN targets : targets'[i] = targets[k] /\ targets[k].observer \in Alive
      BY <1>5, <2>2
    <3>2. PICK y : y = targets[k]
      OBVIOUS
    <3>3. Entered(y.observer, y) /\ y.observer \in Alive
      BY <1>1, <3>1, <3>2
    <3>4. Entered(y.observer, y)'
      BY <3>3 DEF Entered
    <3>5. QED
      BY <3>1, <3>2, <3>4
  <2>3. QED
    BY <2>1, <2>2
<1>8. ASSUME NEW o \in Alive', observers'[o].watched # None
      PROVE  \E i \in DOMAIN targets' : targets'[i].observer = o
  <2>1. CASE o = s
    <3>1. p \in DOMAIN targets' /\ targets'[p] = x
      BY <1>3, <1>4
    <3>2. QED
      BY <2>1, <3>1
  <2>2. CASE o \in Alive
    <3>1. PICK k \in DOMAIN targets : targets[k].observer = o
      BY <1>1, <1>8, <2>2
    <3>2. CASE k < p
      <4>1. k \in DOMAIN targets' /\ targets'[k] = targets[k]
        BY <1>2, <1>3, <3>2
      <4>2. QED
        BY <3>1, <4>1
    <3>3. CASE ~(k < p)
      <4>1. k + 1 \in DOMAIN targets' /\ targets'[k + 1] = targets[k]
        BY <1>2, <1>3, <1>4, <3>3
      <4>2. QED
        BY <3>1, <4>1
    <3>4. QED
      BY <3>2, <3>3
  <2>3. QED
    BY <2>1, <2>2
<1>9. QED
  BY <1>3, <1>6, <1>7, <1>8 DEF TargetsKept

(* Entries go with their observers.                                         *)
LEMMA TargetsLess ==
  ASSUME TargetsKept, NEW from \in 1..(Len(targets) + 1), NEW to \in from..(Len(targets) + 1),
         targets' = Cut(targets, from, to),
         NEW E, E = {targets[i].observer : i \in from..(to - 1)}, Alive' = Alive \ E,
         \A o \in Alive \ E : observers'[o] = observers[o],
         \A o \in Alive \ E : observers[o].watched # None => observers[o].watched \in Living',
         None \notin Living
  PROVE  TargetsKept'
<1>1. /\ targets \in Seq(TargetSet) /\ Sorted(targets)
      /\ \A i, j \in DOMAIN targets : targets[i].observer = targets[j].observer => i = j
      /\ \A i \in DOMAIN targets : Entered(targets[i].observer, targets[i])
      /\ \A o \in Alive : observers[o].watched # None => \E i \in DOMAIN targets : targets[i].observer = o
  BY DEF TargetsKept
<1>2. PICK n \in Nat : n = Len(targets) /\ DOMAIN targets = 1..n
  BY <1>1
<1>3. from \in 1..(n + 1) /\ to \in from..(n + 1) /\ from..(to - 1) \subseteq 1..n
  BY <1>2
<1>4. PICK d \in Nat : d = to - from
  BY <1>3
<1>5. /\ targets' \in Seq(TargetSet) /\ DOMAIN targets' = 1..(n - d)
      /\ \A i \in 1..(n - d) : targets'[i] = IF i < from THEN targets[i] ELSE targets[i + d]
  <2>1. /\ targets' \in Seq(TargetSet) /\ Len(targets') = Len(targets) - (to - from)
        /\ \A i \in 1..(Len(targets) - (to - from)) :
             targets'[i] = IF i < from THEN targets[i] ELSE targets[i + (to - from)]
    <3> DEFINE C == Cut(targets, from, to)
    <3>1. /\ C \in Seq(TargetSet) /\ Len(C) = Len(targets) - (to - from)
          /\ \A i \in 1..(Len(targets) - (to - from)) :
               C[i] = IF i < from THEN targets[i] ELSE targets[i + (to - from)]
      <4>1. targets \in Seq(TargetSet)
        BY <1>1
      <4>2. QED
        BY ONLY <4>1, from \in 1..(Len(targets) + 1), to \in from..(Len(targets) + 1), CutLeaves, Zenon
    <3>2. targets' = C
      OBVIOUS
    <3> HIDE DEF C
    <3>3. QED
      BY <3>1, <3>2
  <2>2. /\ targets' \in Seq(TargetSet) /\ Len(targets') = n - d
        /\ \A i \in 1..(n - d) : targets'[i] = IF i < from THEN targets[i] ELSE targets[i + d]
    BY <1>2, <1>4, <2>1
  <2>3. DOMAIN targets' = 1..(n - d)
    BY <2>2
  <2>4. QED
    BY <2>2, <2>3
<1>6. Sorted(targets')
  BY <1>1, SortedCut
<1>7. ASSUME NEW i \in DOMAIN targets'
      PROVE  \E k \in DOMAIN targets : /\ targets'[i] = targets[k] /\ targets[k].observer \in Alive \ E
                                       /\ k = IF i < from THEN i ELSE i + d
  <2>1. PICK k \in DOMAIN targets : /\ targets'[i] = targets[k] /\ k = IF i < from THEN i ELSE i + d
                                    /\ k \notin from..(to - 1)
    BY <1>2, <1>3, <1>4, <1>5
  <2>2. targets[k].observer \notin E
    BY <1>1, <1>2, <1>3, <2>1
  <2>3. QED
    BY <1>1, <2>1, <2>2 DEF Entered
<1>8. ASSUME NEW i \in DOMAIN targets', NEW j \in DOMAIN targets',
             targets'[i].observer = targets'[j].observer
      PROVE  i = j
  <2>1. PICK k \in DOMAIN targets : targets'[i] = targets[k] /\ k = IF i < from THEN i ELSE i + d
    BY <1>7
  <2>2. PICK l \in DOMAIN targets : targets'[j] = targets[l] /\ l = IF j < from THEN j ELSE j + d
    BY <1>7
  <2>3. k = l
    BY <1>1, <1>8, <2>1, <2>2
  <2>4. QED
    BY <1>3, <1>4, <1>5, <2>1, <2>2, <2>3
<1>9. ASSUME NEW i \in DOMAIN targets' PROVE Entered(targets[i].observer, targets[i])'
  <2>1. PICK k \in DOMAIN targets : targets'[i] = targets[k] /\ targets[k].observer \in Alive \ E
    BY <1>7
  <2>2. PICK y : y = targets[k]
    OBVIOUS
  <2>3. Entered(y.observer, y) /\ y.observer \in Alive \ E
    BY <1>1, <2>1, <2>2
  <2>4. Entered(y.observer, y)'
    BY <2>3 DEF Entered
  <2>5. QED
    BY <2>1, <2>2, <2>4
<1>10. ASSUME NEW o \in Alive', observers'[o].watched # None
       PROVE  \E i \in DOMAIN targets' : targets'[i].observer = o
  <2>1. o \in Alive \ E /\ observers[o].watched # None
    BY <1>10
  <2>2. PICK k \in DOMAIN targets : targets[k].observer = o
    BY <1>1, <2>1
  <2>3. k \notin from..(to - 1)
    BY <2>1, <2>2
  <2>4. CASE k < from
    <3>1. k \in DOMAIN targets' /\ targets'[k] = targets[k]
      BY <1>2, <1>3, <1>4, <1>5, <2>4
    <3>2. QED
      BY <2>2, <3>1
  <2>5. CASE k >= to
    <3>1. k - d \in 1..(n - d) /\ ~(k - d < from) /\ (k - d) + d = k
      BY <1>2, <1>3, <1>4, <2>5
    <3>2. targets'[k - d] = targets[k]
      BY <1>5, <3>1
    <3>3. QED
      BY <1>5, <2>2, <3>1, <3>2
  <2>6. QED
    BY <1>2, <1>3, <2>3, <2>4, <2>5
<1>11. QED
  BY <1>5, <1>6, <1>8, <1>9, <1>10 DEF TargetsKept

(* ecs_observer_init with an entity                                         *)
LEMMA RegistryObserveOne ==
  ASSUME Typed, Registry, NEW event \in Events, NEW e \in Entities, ObserveOne(event, e)
  PROVE  /\ Registry' /\ Slot \notin Alive /\ Alive' = Alive \cup {Slot}
         /\ DOMAIN observers' = DOMAIN observers \cup {Slot}
         /\ \A o \in Alive : observers'[o] = observers[o]
         /\ observers'[Slot] = [alive |-> TRUE, enabled |-> TRUE, event |-> event,
                                query |-> None, watched |-> e]
<1>1. SlotsOfObservers /\ Linked /\ TargetsKept /\ IndexesApart /\ Slots
  BY DEF Registry
<1>2. e \in Living /\ UNCHANGED <<active, free, place>>
  BY DEF ObserveOne, tableVars, queryVars
<1> DEFINE record == [alive |-> TRUE, enabled |-> TRUE, event |-> event, query |-> None, watched |-> e]
<1>3. record \in ObserverSet /\ record.query = None /\ record.watched = e /\ record.event = event
  BY DEF ObserverSet, None
<1>4. Register(record)
  BY DEF ObserveOne
<1> HIDE DEF record
<1>5. /\ SlotsOfObservers' /\ Slot \notin Alive /\ Slot \in Nat \ {0}
      /\ Alive' = Alive \cup {Slot} /\ observers'[Slot] = record
      /\ \A o \in Alive : observers'[o] = observers[o]
      /\ DOMAIN observers' = DOMAIN observers \cup {Slot}
  BY <1>1, <1>3, <1>4, Registered
<1>6. PICK new \in Nat : new = Slot
  BY <1>5
<1>7. Living' = Living /\ e # None /\ None \notin Range(active)
  <2>1. Living' = Living
    BY <1>2 DEF Living
  <2>2. active \in Seq(DOMAIN queries) /\ DOMAIN queries = 1..Len(queries) /\ Len(queries) \in Nat
    BY TypedFacts DEF Typed, TypeOK
  <2>3. Range(active) \subseteq DOMAIN queries
    BY <2>2 DEF Range
  <2>4. None \notin DOMAIN queries
    BY <2>2 DEF None
  <2>5. QED
    BY <2>1, <2>3, <2>4, NoneNeverLives
<1>8. Linked'
  <2>1. \A o \in Alive' : IF observers'[o].watched = None THEN observers'[o].query \in Range(active')
                         ELSE observers'[o].query = None
    BY <1>1, <1>2, <1>3, <1>5, <1>7 DEF Linked
  <2>2. \A o, p \in Alive' : observers'[o].query = observers'[p].query /\ observers'[o].query # None => o = p
    BY <1>1, <1>3, <1>5 DEF Linked, Global
  <2>3. \A q \in Range(active') : \E o \in Alive' : observers'[o].query = q
    BY <1>1, <1>2, <1>5 DEF Linked
  <2>4. QED
    BY <2>1, <2>2, <2>3 DEF Linked, Global
<1> DEFINE x == [index |-> IndexOf[e], event |-> event, observer |-> new]
<1>9. /\ x \in TargetSet /\ x.observer = new /\ x.index = IndexOf[e] /\ x.event = event
      /\ IndexOf[e] \in Nat /\ event \in Nat
  BY EntitiesNumbered, EventsNumbered DEF TargetSet
<1>10. Entered(new, x)'
  BY <1>2, <1>3, <1>5, <1>6, <1>7 DEF Entered
<1>11. PICK p : p = LowerBound(IndexOf[e], event + 1)
  OBVIOUS
<1>12. targets' = InsertAt(targets, p, x)
  BY <1>6, <1>11 DEF ObserveOne
<1> HIDE DEF x
<1>13. targets \in Seq(TargetSet) /\ Sorted(targets)
  BY <1>1 DEF TargetsKept
<1>14. /\ p \in 1..(Len(targets) + 1)
       /\ \A i \in 1..Len(targets) : i < p <=> Below(targets[i], IndexOf[e], event + 1)
  <2>1. event + 1 \in Nat
    BY <1>9
  <2>2. QED
    BY <1>9, <1>11, <1>13, <2>1, LowerBoundIs
<1>15. ASSUME NEW i \in 1..Len(targets)
       PROVE  /\ i < p => ~Below(x, targets[i].index, targets[i].event)
              /\ i >= p => ~Below(targets[i], x.index, x.event)
  <2>1. PICK y \in TargetSet : y = targets[i]
    BY <1>13
  <2>2. y.index \in Nat /\ y.event \in Nat
    BY Keys
  <2>3. p \in Nat /\ i \in Nat
    BY <1>14
  <2>4. CASE i < p
    <3>1. Below(y, IndexOf[e], event + 1)
      BY <1>14, <2>1, <2>4
    <3>2. ~Below(x, y.index, y.event)
      BY <1>9, <2>2, <3>1 DEF Below
    <3>3. QED
      BY <2>1, <2>3, <2>4, <3>2
  <2>5. CASE ~(i < p)
    <3>1. ~Below(y, IndexOf[e], event + 1)
      BY <1>14, <2>1, <2>5
    <3>2. ~Below(y, x.index, x.event)
      BY <1>9, <2>2, <3>1 DEF Below
    <3>3. QED
      BY <2>1, <2>5, <3>2
  <2>6. QED
    BY <2>4, <2>5
<1>16. Sorted(targets')
  <2>1. Sorted(InsertAt(targets, p, x))
    BY <1>9, <1>13, <1>14, <1>15, SortedInsert
  <2>2. QED
    BY <1>12, <2>1
<1>17. TargetsKept'
  <2>1. new \notin Alive /\ Alive' = Alive \cup {new}
    BY <1>5, <1>6
  <2>2. QED
    BY <1>1, <1>5, <1>7, <1>9, <1>10, <1>12, <1>14, <1>16, <2>1, TargetsInserted
<1>18. Slots' /\ IndexesApart'
  BY <1>1, <1>2, <1>7 DEF Slots, IndexesApart
<1>19. QED
  BY <1>5, <1>8, <1>17, <1>18 DEF Registry, record

(* One observer ends.                                                       *)
LEMMA EndedOne ==
  ASSUME SlotsOfObservers, NEW o \in Alive,
         observers' = [observers EXCEPT ![o] = Gone], unused' = <<o>> \o unused
  PROVE  /\ SlotsOfObservers' /\ Alive' = Alive \ {o}
         /\ \A p \in Alive \ {o} : observers'[p] = observers[p]
         /\ DOMAIN observers' = DOMAIN observers
<1> DEFINE ended == <<o>>
<1>1. o \in Nat
  BY AliveFacts
<1>2. ended \in Seq(Nat) /\ Len(ended) = 1 /\ DOMAIN ended = 1..1 /\ ended[1] = o
  BY <1>1
<1>3. Reverse(ended) = ended
  <2>1. Reverse(ended) = [i \in 1..1 |-> ended[1 - i + 1]]
    BY <1>2 DEF Reverse
  <2>2. ended = [i \in 1..1 |-> ended[1 - i + 1]]
    <3>1. \A i \in 1..1 : 1 - i + 1 = i
      OBVIOUS
    <3>2. ended = [i \in 1..1 |-> ended[i]]
      OBVIOUS
    <3>3. QED
      BY <3>1, <3>2
  <2>3. QED
    BY <2>1, <2>2
<1>4. unused' = Reverse(ended) \o unused
  BY <1>3
<1> HIDE DEF ended
<1>5. Range(ended) = {o}
  BY <1>2 DEF Range
<1>6. observers' = [p \in DOMAIN observers |-> IF p \in Range(ended) THEN Gone ELSE observers[p]]
  BY <1>5
<1>7. \A i, j \in DOMAIN ended : ended[i] = ended[j] => i = j
  BY <1>2
<1>8. QED
  BY <1>2, <1>4, <1>5, <1>6, <1>7, EndedObservers

(* ecs_observer_fini                                                        *)
LEMMA RegistryFini ==
  ASSUME Typed, Registry, NEW o \in DOMAIN observers, ObserverFini(o)
  PROVE  /\ Registry' /\ o \in Alive /\ Alive' = Alive \ {o} /\ DOMAIN observers' = DOMAIN observers
         /\ \A p \in Alive \ {o} : observers'[p] = observers[p]
         /\ Global(o) => FiniQuery(observers[o].query)
         /\ ~Global(o) => UNCHANGED <<queries, active, free, listening>>
<1>1. SlotsOfObservers /\ Linked /\ TargetsKept /\ IndexesApart /\ Slots
  BY DEF Registry
<1>2. /\ o \in Alive /\ Leave(o) /\ UNCHANGED tableVars
      /\ observers' = [observers EXCEPT ![o] = Gone] /\ unused' = <<o>> \o unused
  BY DEF ObserverFini, Alive
<1>3. /\ SlotsOfObservers' /\ Alive' = Alive \ {o}
      /\ \A p \in Alive \ {o} : observers'[p] = observers[p]
      /\ DOMAIN observers' = DOMAIN observers
  BY <1>1, <1>2, EndedOne
<1>4. Living' = Living
  BY <1>2 DEF Living, tableVars
<1>5. IndexesApart'
  BY <1>1, <1>4 DEF IndexesApart
<1>6. \A p \in Alive : observers[p].watched # None => observers[p].watched \in Living
  BY <1>1, Watching
<1>7. CASE Global(o)
  <2>1. PICK q : q = observers[o].query
    OBVIOUS
  <2>2. q \in Range(active) /\ q # None /\ observers[o].watched = None
    BY <1>1, <1>2, <1>7, <2>1, GlobalOrTargeted
  <2>3. FiniQuery(q) /\ UNCHANGED targets
    BY <1>2, <1>7, <2>1, <2>2 DEF Leave, FiniQuery
  <2>4. Slots' /\ Range(active') = Range(active) \ {q}
    BY <1>1, <2>3, Deactivated
  <2>5. Linked'
    <3>1. ASSUME NEW p \in Alive'
          PROVE  IF observers'[p].watched = None THEN observers'[p].query \in Range(active')
                 ELSE observers'[p].query = None
      <4>1. p \in Alive /\ p # o /\ observers'[p] = observers[p]
        BY <1>3
      <4>2. observers[p].query # q
        BY <1>1, <1>2, <1>7, <2>1, <4>1 DEF Linked
      <4>3. QED
        BY <1>1, <2>4, <4>1, <4>2 DEF Linked
    <3>2. \A p, r \in Alive' : observers'[p].query = observers'[r].query /\ observers'[p].query # None => p = r
      BY <1>1, <1>3 DEF Linked, Global
    <3>3. ASSUME NEW s \in Range(active') PROVE \E p \in Alive' : observers'[p].query = s
      <4>1. PICK p \in Alive : observers[p].query = s
        BY <1>1, <2>4, <3>3 DEF Linked
      <4>2. p # o
        BY <2>1, <2>4, <3>3, <4>1
      <4>3. QED
        BY <1>3, <4>1, <4>2
    <3>4. QED
      BY <3>1, <3>2, <3>3 DEF Linked, Global
  <2>6. TargetsKept'
    <3>1. \A p \in Alive : observers[p].watched # None =>
            /\ p \in Alive' /\ observers'[p].watched = observers[p].watched
            /\ observers'[p].event = observers[p].event /\ observers[p].watched \in Living'
      BY <1>3, <1>4, <1>6, <2>2
    <3>2. \A p \in Alive' : observers'[p].watched # None => p \in Alive /\ observers[p].watched # None
      BY <1>3
    <3>3. QED
      BY <1>1, <2>3, <3>1, <3>2, TargetsStay, NoneNeverLives
  <2>7. QED
    BY <1>2, <1>3, <1>5, <1>7, <2>1, <2>3, <2>4, <2>5, <2>6 DEF Registry
<1>8. CASE ~Global(o)
  <2>1. observers[o].watched # None /\ None \notin Range(active)
    BY <1>1, <1>2, <1>8, GlobalOrTargeted, NoneNeverLives
  <2>2. UNCHANGED <<queries, active, free, listening>>
    BY <1>2, <1>8 DEF Leave, queryVars
  <2>3. Linked'
    <3>1. \A p \in Alive' : observers'[p].query = observers[p].query
                            /\ observers'[p].watched = observers[p].watched
      BY <1>3
    <3>2. \A p \in Alive : Global(p) => p \in Alive'
      BY <1>3, <1>8
    <3>3. QED
      BY <1>1, <1>3, <2>1, <2>2, <3>1, <3>2, LinkedStays
  <2>4. PICK k \in DOMAIN targets : targets[k].observer = o
    BY <1>1, <1>2, <2>1 DEF TargetsKept
  <2>5. targets[k] = [index |-> IndexOf[observers[o].watched], event |-> observers[o].event, observer |-> o]
    <3>1. PICK y : y = targets[k]
      OBVIOUS
    <3>2. Entered(y.observer, y) /\ y.observer = o
      BY <1>1, <2>4, <3>1 DEF TargetsKept
    <3>3. QED
      BY <3>1, <3>2 DEF Entered
  <2>6. targets' = RemoveFirst(targets, targets[k])
    BY <1>2, <1>8, <2>5 DEF Leave
  <2>7. PICK n \in Nat : n = Len(targets)
    <3>1. targets \in Seq(TargetSet)
      BY <1>1 DEF TargetsKept
    <3>2. QED
      BY <3>1
  <2>8. targets \in Seq(TargetSet) /\ DOMAIN targets = 1..n /\ k \in 1..n
    BY <1>1, <2>7 DEF TargetsKept
  <2>9. \A i \in 1..Len(targets) : targets[i] = targets[k] => i = k
    BY <1>1, <2>7, <2>8 DEF TargetsKept
  <2>10. targets' = Cut(targets, k, k + 1)
    BY <2>6, <2>7, <2>8, <2>9, RemovedIsCut
  <2>11. k \in 1..(Len(targets) + 1) /\ k + 1 \in k..(Len(targets) + 1)
    BY <2>7, <2>8
  <2>12. PICK to : to = k + 1
    OBVIOUS
  <2>13. {o} = {targets[i].observer : i \in k..(to - 1)}
    BY <2>4, <2>8, <2>12
  <2>14. targets' = Cut(targets, k, to) /\ to \in k..(Len(targets) + 1)
    BY <2>10, <2>11, <2>12
  <2>15. TargetsKept'
    BY <1>1, <1>3, <1>4, <1>6, <2>11, <2>13, <2>14, NoneNeverLives, TargetsLess
  <2>16. Slots'
    BY <1>1, <2>2 DEF Slots
  <2>17. QED
    BY <1>2, <1>3, <1>5, <1>8, <2>2, <2>3, <2>15, <2>16 DEF Registry
<1>9. QED
  BY <1>7, <1>8

(* ecs_observer_fini_entity in ecs_kill_now: the entries of one index are    *)
(* those of the observers of the entity that has it.                         *)
LEMMA RegistryKill ==
  ASSUME Typed, RecordsAgree, Registry, NEW e \in Entities, KillEntity(e)
  PROVE  LET E == {o \in Alive : observers[o].watched = e} IN
         /\ Registry' /\ Alive' = Alive \ E /\ DOMAIN observers' = DOMAIN observers
         /\ \A o \in Alive \ E : observers'[o] = observers[o]
<1>1. SlotsOfObservers /\ Linked /\ TargetsKept /\ IndexesApart /\ Slots
  BY DEF Registry
<1>2. Kill(e) /\ EndTargeting(IndexOf[e]) /\ e \in Living /\ UNCHANGED <<active, free>>
  BY DEF KillEntity, Kill
<1>3. Living' = Living \ {e}
  BY <1>2, LivingAfter
<1>4. targets \in Seq(TargetSet) /\ Sorted(targets) /\ IndexOf[e] \in Nat
  BY <1>1, EntitiesNumbered DEF TargetsKept
<1>5. PICK n \in Nat : n = Len(targets)
  BY <1>4
<1>6. DOMAIN targets = 1..n
  BY <1>4, <1>5
<1>7. PICK from : from = LowerBound(IndexOf[e], 0)
  OBVIOUS
<1>8. PICK to : to = LowerBound(IndexOf[e] + 1, 0)
  OBVIOUS
<1>9. /\ from \in 1..(n + 1) /\ to \in 1..(n + 1)
      /\ \A i \in 1..n : i < from <=> Below(targets[i], IndexOf[e], 0)
      /\ \A i \in 1..n : i < to <=> Below(targets[i], IndexOf[e] + 1, 0)
  <2>1. IndexOf[e] + 1 \in Nat /\ 0 \in Nat
    BY <1>4
  <2>2. /\ from \in 1..(Len(targets) + 1)
        /\ \A i \in 1..Len(targets) : i < from <=> Below(targets[i], IndexOf[e], 0)
    BY <1>4, <1>7, <2>1, LowerBoundIs
  <2>3. /\ to \in 1..(Len(targets) + 1)
        /\ \A i \in 1..Len(targets) : i < to <=> Below(targets[i], IndexOf[e] + 1, 0)
    BY <1>4, <1>8, <2>1, LowerBoundIs
  <2>4. QED
    BY <1>5, <2>2, <2>3
<1>10. ASSUME NEW i \in 1..n
       PROVE  /\ i < from <=> targets[i].index < IndexOf[e]
              /\ i < to <=> targets[i].index <= IndexOf[e]
  <2>1. PICK y \in TargetSet : y = targets[i]
    BY <1>4, <1>5
  <2>2. y.index \in Nat /\ y.event \in Nat \ {0}
    BY Keys
  <2>3. i < from <=> Below(y, IndexOf[e], 0)
    BY <1>9, <2>1
  <2>4. i < to <=> Below(y, IndexOf[e] + 1, 0)
    BY <1>9, <2>1
  <2>5. Below(y, IndexOf[e], 0) <=> y.index < IndexOf[e]
    BY <2>2 DEF Below
  <2>6. Below(y, IndexOf[e] + 1, 0) <=> y.index <= IndexOf[e]
    BY <1>4, <2>2 DEF Below
  <2>7. QED
    BY <2>1, <2>3, <2>4, <2>5, <2>6
<1>11. \A i \in 1..n : targets[i].index \in Nat
  BY <1>4, <1>5, Keys
<1>12. to \in from..(n + 1)
  <2>1. SUFFICES ASSUME to < from PROVE FALSE
    BY <1>9
  <2>2. to \in 1..n /\ targets[to].index < IndexOf[e] /\ ~(to < to)
    BY <1>9, <1>10, <2>1
  <2>3. QED
    BY <1>4, <1>10, <1>11, <2>2
<1>13. \A i \in 1..n : i \in from..(to - 1) <=> targets[i].index = IndexOf[e]
  BY <1>4, <1>9, <1>10, <1>11
<1>14. \A i \in 1..n : \E o \in Alive : /\ o = targets[i].observer /\ observers[o].watched \in Living
                                        /\ targets[i].index = IndexOf[observers[o].watched]
  <2>1. ASSUME NEW i \in 1..n
        PROVE  \E o \in Alive : /\ o = targets[i].observer /\ observers[o].watched \in Living
                                /\ targets[i].index = IndexOf[observers[o].watched]
    <3>1. PICK y : y = targets[i]
      OBVIOUS
    <3>2. Entered(y.observer, y)
      BY <1>1, <1>6, <3>1 DEF TargetsKept
    <3>3. QED
      BY <3>1, <3>2 DEF Entered
  <2>2. QED
    BY <2>1
<1> DEFINE E == {o \in Alive : observers[o].watched = e}
<1>15. E = {targets[i].observer : i \in from..(to - 1)}
  <2>1. from..(to - 1) \subseteq 1..n
    BY <1>9, <1>12
  <2>2. ASSUME NEW o \in E PROVE \E i \in from..(to - 1) : o = targets[i].observer
    <3>1. PICK i \in DOMAIN targets : targets[i].observer = o
      BY <1>1, <2>2, NoneNeverLives DEF TargetsKept
    <3>2. targets[i].index = IndexOf[e]
      BY <1>6, <1>14, <3>1
    <3>3. QED
      BY <1>6, <1>13, <3>1, <3>2
  <2>3. ASSUME NEW i \in from..(to - 1) PROVE targets[i].observer \in E
    <3>1. i \in 1..n /\ targets[i].index = IndexOf[e]
      BY <1>13, <2>1
    <3>2. PICK o \in Alive : /\ o = targets[i].observer /\ observers[o].watched \in Living
                             /\ targets[i].index = IndexOf[observers[o].watched]
      BY <1>14, <3>1
    <3>3. observers[o].watched = e
      BY <1>1, <1>2, <3>1, <3>2 DEF IndexesApart
    <3>4. QED
      BY <3>2, <3>3
  <2>4. QED
    BY <2>2, <2>3
<1> DEFINE ended == [i \in 1..(to - from) |-> targets[from + i - 1].observer]
<1>16. /\ targets' = Cut(targets, from, to) /\ unused' = Reverse(ended) \o unused
       /\ observers' = [o \in DOMAIN observers |-> IF o \in Range(ended) THEN Gone ELSE observers[o]]
  BY <1>2, <1>7, <1>8 DEF EndTargeting, Cut
<1>17. PICK d \in Nat : d = to - from /\ \A i \in 1..d : from + i - 1 \in from..(to - 1)
  BY <1>9, <1>12
<1>18. \A i \in 1..d : from + i - 1 \in 1..n
  BY <1>9, <1>12, <1>17
<1>19. ended \in Seq(Nat) /\ DOMAIN ended = 1..d
  <2>1. \A i \in 1..n : targets[i].observer \in Nat
    BY <1>4, <1>5, Keys
  <2>2. \A i \in 1..d : targets[from + i - 1].observer \in Nat
    BY <1>18, <2>1
  <2>3. ended \in [1..d -> Nat]
    BY <1>17, <2>2
  <2> HIDE DEF ended
  <2>4. QED
    BY <2>3
<1>20. \A i \in 1..d : ended[i] = targets[from + i - 1].observer
  BY <1>17
<1> HIDE DEF ended
<1>21. Range(ended) = E
  <2>1. ASSUME NEW x \in Range(ended) PROVE x \in E
    <3>1. PICK i \in 1..d : x = ended[i]
      BY <1>19 DEF Range
    <3>2. QED
      BY <1>15, <1>17, <1>20, <3>1
  <2>2. ASSUME NEW x \in E PROVE x \in Range(ended)
    <3>1. PICK j \in from..(to - 1) : x = targets[j].observer
      BY <1>15, <2>2
    <3>2. j - from + 1 \in 1..d /\ from + (j - from + 1) - 1 = j
      BY <1>9, <1>12, <1>17
    <3>3. ended[j - from + 1] = x
      BY <1>20, <3>1, <3>2
    <3>4. QED
      BY <1>19, <3>2, <3>3 DEF Range
  <2>3. QED
    BY <2>1, <2>2
<1>22. ASSUME NEW i \in DOMAIN ended, NEW j \in DOMAIN ended, ended[i] = ended[j] PROVE i = j
  <2>1. from + i - 1 \in DOMAIN targets /\ from + j - 1 \in DOMAIN targets
    BY <1>6, <1>18, <1>19
  <2>2. targets[from + i - 1].observer = targets[from + j - 1].observer
    BY <1>19, <1>20, <1>22
  <2>3. from + i - 1 = from + j - 1
    BY <1>1, <2>1, <2>2 DEF TargetsKept
  <2>4. QED
    BY <1>9, <1>19, <2>3
<1> HIDE DEF E
<1>23. /\ SlotsOfObservers' /\ Alive' = Alive \ E
       /\ \A o \in Alive \ E : observers'[o] = observers[o]
       /\ DOMAIN observers' = DOMAIN observers
  <2>1. Range(ended) \subseteq Alive
    BY <1>21 DEF E
  <2>2. /\ SlotsOfObservers' /\ Alive' = Alive \ Range(ended)
        /\ \A o \in Alive \ Range(ended) : observers'[o] = observers[o]
        /\ DOMAIN observers' = DOMAIN observers
    BY <1>1, <1>16, <1>19, <1>22, <2>1, EndedObservers
  <2>3. \A o \in Alive \ E : observers'[o] = observers[o]
    BY <1>21, <2>2
  <2>4. Alive' = Alive \ E
    BY <1>21, <2>2
  <2>5. QED
    BY <2>2, <2>3, <2>4
<1>24. \A o \in Alive : observers[o].watched # None => observers[o].watched \in Living
  BY <1>1, Watching
<1>25. TargetsKept'
  <2>1. \A o \in Alive \ E : observers[o].watched # None => observers[o].watched \in Living'
    BY <1>3, <1>24 DEF E
  <2>2. QED
    BY <1>1, <1>5, <1>9, <1>12, <1>15, <1>16, <1>23, <2>1, NoneNeverLives, TargetsLess
<1>26. Linked'
  <2>1. e # None
    BY NoneNeverLives
  <2>2. ASSUME NEW o \in Alive, Global(o) PROVE o \in Alive'
    BY <1>1, <1>23, <2>1, <2>2, GlobalOrTargeted DEF E
  <2>3. None \notin Range(active)
    <3>1. active \in Seq(DOMAIN queries) /\ DOMAIN queries = 1..Len(queries) /\ Len(queries) \in Nat
      BY TypedFacts DEF Typed, TypeOK
    <3>2. Range(active) \subseteq DOMAIN queries
      BY <3>1 DEF Range
    <3>3. QED
      BY <3>1, <3>2 DEF None
  <2>4. \A o \in Alive' : observers'[o].query = observers[o].query
                          /\ observers'[o].watched = observers[o].watched
    BY <1>23
  <2>5. QED
    BY <1>1, <1>2, <1>23, <2>2, <2>3, <2>4, LinkedStays
<1>27. IndexesApart' /\ Slots'
  BY <1>1, <1>2, <1>3 DEF IndexesApart, Slots
<1>28. QED
  BY <1>23, <1>25, <1>26, <1>27 DEF Registry, E

(* The operations on entities that kill none                                *)
LEMMA RegistryGains ==
  ASSUME Typed, RecordsAgree, Registry, UNCHANGED <<observers, targets, unused>>, NEW e \in Entities,
         \/ New(e) \/ \E c \in Comps \cup {Abstract} : AddComp(e, c) \/ \E b \in Entities : IsA(e, b)
  PROVE  Registry' /\ Alive' = Alive
<1>1. UNCHANGED <<active, free>>
  BY DEF New, AddComp, IsA, ChangeType
<1>2. Living' = Living \/ (New(e) /\ Living' = Living \cup {e})
  BY LivingAfter
<1>3. IndexesApart
  BY DEF Registry
<1>4. IndexesApart'
  BY <1>2, <1>3, IndexesStayApart
<1>5. Living \subseteq Living'
  BY <1>2
<1>6. QED
  BY <1>1, <1>4, <1>5, RegistryStays

LEMMA RegistryKept ==
  ASSUME Registry, UNCHANGED <<observers, targets, unused, active, free, place>>
  PROVE  Registry'
<1>1. UNCHANGED <<observers, targets, unused, active, free, place>>
  OBVIOUS
<1>2. Living' = Living /\ Alive' = Alive
  BY <1>1 DEF Living, Alive, IsAlive
<1>3. SlotsOfObservers' /\ Slots' /\ IndexesApart'
  BY <1>1, <1>2 DEF Registry, SlotsOfObservers, Slots, IndexesApart
<1>4. Linked'
  BY <1>1, <1>2 DEF Registry, Linked, Global
<1>5. TargetsKept'
  <2>1. TargetsKept
    BY DEF Registry
  <2>2. \A i \in DOMAIN targets : Entered(targets[i].observer, targets[i])'
    BY <1>1, <1>2, <2>1 DEF TargetsKept, Entered
  <2>3. QED
    BY <1>1, <1>2, <2>1, <2>2 DEF TargetsKept, Sorted, Below
<1>6. QED
  BY <1>3, <1>4, <1>5 DEF Registry

LEMMA RegistryInit == ObserversInit => Registry
<1> SUFFICES ASSUME ObserversInit PROVE Registry
  OBVIOUS
<1>1. /\ observers = <<>> /\ unused = <<>> /\ targets = <<>> /\ active = <<>> /\ free = <<>>
      /\ place = [e \in Entities |-> Nowhere]
  BY DEF ObserversInit, Init
<1>2. Living = {} /\ Alive = {}
  BY <1>1 DEF Living, Nowhere, Alive
<1>3. SlotsOfObservers /\ Slots
  BY <1>1, <1>2 DEF SlotsOfObservers, Slots, Range
<1>4. Linked /\ IndexesApart
  BY <1>1, <1>2 DEF Linked, IndexesApart, Range
<1>5. TargetsKept
  BY <1>1, <1>2 DEF TargetsKept, Sorted
<1>6. QED
  BY <1>3, <1>4, <1>5 DEF Registry

(* A delivery goes on, and nothing else changes.                            *)
LEMMA OnlyFrames ==
  ASSUME Advance
  PROVE  UNCHANGED <<types, rows, capacity, place, dead, having, queries, active, free,
                     observers, listening, targets, unused>>
  BY DEF Advance, tableVars, queryVars, observerVars

LEMMA RegistryStep ==
  ASSUME Typed, Typed', RecordsAgree, Registry, [ObserversNext]_allVars
  PROVE  Registry'
<1>1. CASE UNCHANGED allVars
  BY <1>1, RegistryKept DEF allVars
<1>2. CASE Advance \/ Return
  <2>1. UNCHANGED <<observers, targets, unused, active, free, place>>
    <3>1. CASE Advance
      BY <3>1, OnlyFrames
    <3>2. CASE Return
      BY <3>2 DEF Return, tableVars, queryVars, observerVars
    <3>3. QED
      BY <1>2, <3>1, <3>2
  <2>2. QED
    BY <2>1, RegistryKept
<1>3. CASE UserStep
  <2>1. ASSUME NEW e \in Entities,
               \/ New(e) /\ Quietly
               \/ \E c \in Comps \cup {Abstract} : AddComp(e, c) /\ Loudly(e)
               \/ \E b \in Entities : IsA(e, b) /\ Loudly(e)
        PROVE  Registry'
    <3>1. UNCHANGED <<observers, targets, unused>>
      BY <2>1 DEF Quietly, Loudly
    <3>2. \/ New(e) \/ \E c \in Comps \cup {Abstract} : AddComp(e, c) \/ \E b \in Entities : IsA(e, b)
      BY <2>1
    <3>3. QED
      BY <3>1, <3>2, RegistryGains
  <2>2. ASSUME NEW e \in Entities, KillEntity(e) PROVE Registry'
    BY <2>2, RegistryKill
  <2>3. ASSUME NEW e \in Entities, NEW event \in Events, Trigger(e, event) PROVE Registry'
    BY <2>3, RegistryKept DEF Trigger, tableVars, queryVars, observerVars
  <2>4. ASSUME NEW e \in Entities, NEW event \in Events, ObserveOne(event, e) PROVE Registry'
    BY <2>4, RegistryObserveOne
  <2>5. ASSUME NEW event \in Events, NEW shape \in Shapes, ObserveAll(event, shape) PROVE Registry'
    BY <2>5, RegistryObserveAll
  <2>6. ASSUME NEW o \in DOMAIN observers, ObserverFini(o) PROVE Registry'
    BY <2>6, RegistryFini
  <2>7. ASSUME NEW o \in DOMAIN observers, NEW on \in BOOLEAN, SetEnabled(o, on) PROVE Registry'
    BY <2>7, RegistryEnabled
  <2>8. QED
    BY <1>3, <2>1, <2>2, <2>3, <2>4, <2>5, <2>6, <2>7 DEF UserStep
<1>4. QED
  BY <1>1, <1>2, <1>3 DEF ObserversNext

(* What the registry says is what the property asks.                        *)
LEMMA ExactTargets ==
  ASSUME Typed, Registry
  PROVE  TargetsExact
<1>1. SlotsOfObservers /\ Linked /\ TargetsKept
  BY DEF Registry
<1>2. targets \in Seq(TargetSet) /\ Sorted(targets)
  BY <1>1 DEF TargetsKept
<1>3. \A i \in DOMAIN targets : targets[i].index \in Nat /\ targets[i].event \in Nat
  BY <1>2, Keys
<1>4. \A i, j \in DOMAIN targets : i < j =>
        \/ targets[i].index < targets[j].index
        \/ targets[i].index = targets[j].index /\ targets[i].event <= targets[j].event
  BY <1>2, <1>3 DEF Sorted, Below
<1>5. ASSUME NEW o \in DOMAIN observers, IsAlive(o), ~Global(o)
      PROVE  observers[o].watched \in Living /\ Cardinality({i \in DOMAIN targets : targets[i].observer = o}) = 1
  <2>1. o \in Alive
    BY <1>5 DEF Alive
  <2>2. observers[o].watched # None
    BY <1>1, <1>5, <2>1, GlobalOrTargeted
  <2>3. PICK k \in DOMAIN targets : targets[k].observer = o
    BY <1>1, <2>1, <2>2 DEF TargetsKept
  <2>4. {i \in DOMAIN targets : targets[i].observer = o} = {k}
    BY <1>1, <2>3 DEF TargetsKept
  <2>5. QED
    BY <1>1, <2>1, <2>2, <2>4, Watching, FS_Singleton
<1>6. ASSUME NEW i \in DOMAIN targets
      PROVE  LET o == targets[i].observer
             IN  /\ IsAlive(o) /\ observers[o].event = targets[i].event
                 /\ IndexOf[observers[o].watched] = targets[i].index
  <2>1. PICK y : y = targets[i]
    OBVIOUS
  <2>2. Entered(y.observer, y)
    BY <1>1, <2>1 DEF TargetsKept
  <2>3. QED
    BY <2>1, <2>2 DEF Entered, Alive
<1>7. QED
  BY <1>4, <1>5, <1>6 DEF TargetsExact

(* The entries of targeted observers are sorted, one for each observer, and    *)
(* name the living entity that the observer was made for, whatever indexes    *)
(* and slots were used again since.                                          *)
THEOREM TargetsAreExact == ObserversSpec => []TargetsExact
<1> DEFINE Inv == Typed /\ RecordsAgree /\ Registry
<1>1. ObserversInit => Inv
  BY TypedInit, RegistryInit DEF ObserversInit
<1>2. Inv /\ [ObserversNext]_allVars => Inv'
  <2>1. SUFFICES ASSUME Inv, [ObserversNext]_allVars PROVE Inv'
    OBVIOUS
  <2>2. [Next]_vars
    BY <2>1, StepsOfQueries DEF Registry
  <2>3. Typed' /\ RecordsAgree'
    BY <2>1, <2>2, TypedStep
  <2>4. QED
    BY <2>1, <2>3, RegistryStep
<1>3. Inv => TargetsExact
  BY ExactTargets
<1>4. QED
  BY <1>1, <1>2, <1>3, PTL DEF ObserversSpec

-----------------------------------------------------------------------------
(* The lists of a new table. *)

(* The loop over the active queries: the n-th one takes the table or not, and *)
(* is that of an observer of an event.                                       *)
Joined(h, n, took, who, what) ==
  IF n = 0 THEN [event \in Events |-> <<>>]
  ELSE IF ~took[n] THEN h[n - 1]
  ELSE [h[n - 1] EXCEPT ![what[n]] = Append(@, who[n])]

(* A longer list in one place                                               *)
Longer(lists, event, o) == [lists EXCEPT ![event] = Append(@, o)]

OneMore(longer, lists, event, o, X) ==
  /\ longer \in [Events -> Seq(X)]
  /\ \A ev \in Events : Range(longer[ev]) = Range(lists[ev]) \cup (IF ev = event THEN {o} ELSE {})
  /\ \A ev \in Events \ {event} : longer[ev] = lists[ev]
  /\ longer[event] = Append(lists[event], o)
  /\ NoRepeat(lists[event]) /\ o \notin Range(lists[event]) => NoRepeat(longer[event])

LEMMA ListLonger ==
  ASSUME NEW X, NEW lists \in [Events -> Seq(X)], NEW event \in Events, NEW o \in X
  PROVE  OneMore(Longer(lists, event, o), lists, event, o, X)
<1> DEFINE longer == Longer(lists, event, o)
<1>1. PICK s \in Seq(X) : s = lists[event]
  OBVIOUS
<1>2. /\ Append(s, o) \in Seq(X) /\ Len(Append(s, o)) = Len(s) + 1 /\ Len(s) \in Nat
      /\ \A i \in 1..Len(s) : Append(s, o)[i] = s[i]
      /\ Append(s, o)[Len(s) + 1] = o
      /\ DOMAIN s = 1..Len(s) /\ DOMAIN Append(s, o) = 1..(Len(s) + 1)
  BY AppendProperties
<1>3. longer[event] = Append(s, o) /\ \A ev \in Events \ {event} : longer[ev] = lists[ev]
  BY <1>1 DEF Longer
<1>4. longer \in [Events -> Seq(X)]
  BY <1>1, <1>2 DEF Longer
<1> HIDE DEF longer
<1>5. Range(Append(s, o)) = Range(s) \cup {o}
  BY RangeAppended
<1>6. \A ev \in Events : Range(longer[ev]) = Range(lists[ev]) \cup (IF ev = event THEN {o} ELSE {})
  BY <1>1, <1>3, <1>5
<1>7. ASSUME NoRepeat(s), o \notin Range(s) PROVE NoRepeat(Append(s, o))
  <2>1. SUFFICES ASSUME NEW i \in 1..(Len(s) + 1), NEW j \in 1..(Len(s) + 1),
                        Append(s, o)[i] = Append(s, o)[j]
                 PROVE  i = j
    BY <1>2 DEF NoRepeat
  <2>2. \A k \in 1..Len(s) : s[k] # o
    BY <1>2, <1>7 DEF Range
  <2>3. \A k \in 1..(Len(s) + 1) : k = Len(s) + 1 \/ k \in 1..Len(s)
    BY <1>2
  <2>4. QED
    BY <1>2, <1>7, <2>1, <2>2, <2>3 DEF NoRepeat
<1>8. QED
  BY <1>1, <1>3, <1>4, <1>6, <1>7 DEF longer, OneMore

Loop(N, took, who, what) ==
  \A n \in 1..N : took[n] => who[n] \in Nat /\ what[n] \in Events

LoopOf(h, N, took, who, what) == h = [n \in 0..N |-> Joined(h, n, took, who, what)]

LEMMA JoinedExists ==
  ASSUME NEW N \in Nat, NEW took, NEW who, NEW what, Loop(N, took, who, what)
  PROVE  \E h : LoopOf(h, N, took, who, what)
<1>1. \A n \in 1..N : took[n] => who[n] \in Nat /\ what[n] \in Events
  BY DEF Loop
<1> DEFINE X == [Events -> Seq(Nat)]
           more(n, c) == IF ~took[n] THEN c ELSE [c EXCEPT ![what[n]] = Append(@, who[n])]
           step == [n \in Nat |-> [c \in X |-> IF n \in 1..N THEN more(n, c) ELSE c]]
           empty == [event \in Events |-> <<>>]
<1>2. ASSUME NEW n \in 1..N, NEW c \in X PROVE more(n, c) \in X
  <2>1. CASE ~took[n]
    BY <2>1
  <2>2. CASE took[n]
    <3>1. who[n] \in Nat /\ what[n] \in Events
      BY <1>1, <2>2
    <3>2. [c EXCEPT ![what[n]] = Append(@, who[n])] \in X
      BY <3>1, ListLonger DEF Longer, OneMore
    <3>3. QED
      BY <2>2, <3>2
  <2>3. QED
    BY <2>1, <2>2
<1>3. empty \in X
  OBVIOUS
<1>4. step \in [Nat -> [X -> X]]
  <2> HIDE DEF X, more
  <2>1. ASSUME NEW n \in Nat PROVE [c \in X |-> IF n \in 1..N THEN more(n, c) ELSE c] \in [X -> X]
    BY <1>2
  <2>2. QED
    BY <2>1
<1>5. PICK f : /\ f[0] = empty /\ \A n \in Nat : f[n] \in X
               /\ \A n \in Nat \ {0} : f[n] = step[n][f[n - 1]]
  <2> HIDE DEF step, X, empty
  <2>1. PICK Y : Y = X
    OBVIOUS
  <2>2. PICK first \in Y : first = empty
    BY <1>3, <2>1
  <2>3. PICK g \in [Nat -> [Y -> Y]] : g = step
    BY <1>4, <2>1
  <2>4. \E f \in [Nat -> Y] : f[0] = first /\ \A n \in Nat \ {0} : f[n] = g[n][f[n - 1]]
    BY ONLY first \in Y, g \in [Nat -> [Y -> Y]], Iterated
  <2>5. QED
    BY <2>1, <2>2, <2>3, <2>4
<1>6. \A n \in 1..N : f[n] = more(n, f[n - 1])
  <2> HIDE DEF X, more, empty
  <2>1. ASSUME NEW n \in 1..N PROVE f[n] = more(n, f[n - 1])
    <3>1. n \in Nat \ {0} /\ n - 1 \in Nat
      OBVIOUS
    <3>2. f[n - 1] \in X /\ f[n] = step[n][f[n - 1]]
      BY <1>5, <3>1
    <3>3. QED
      BY <3>1, <3>2
  <2>2. QED
    BY <2>1
<1> HIDE DEF step
<1> DEFINE g == [n \in 0..N |-> f[n]]
<1>7. \A n \in 0..N : f[n] = Joined(g, n, took, who, what)
  <2>1. ASSUME NEW n \in 0..N PROVE f[n] = Joined(g, n, took, who, what)
    <3>1. CASE n = 0
      BY <1>5, <3>1 DEF Joined
    <3>2. CASE n # 0
      <4>1. n \in 1..N /\ n - 1 \in 0..N
        BY <3>2
      <4>2. g[n - 1] = f[n - 1]
        BY <4>1
      <4>3. f[n] = more(n, g[n - 1])
        BY <1>6, <4>1, <4>2
      <4> HIDE DEF g
      <4>4. QED
        BY <3>2, <4>3 DEF Joined
    <3>3. QED
      BY <3>1, <3>2
  <2>2. QED
    BY <2>1
<1>8. g = [n \in 0..N |-> Joined(g, n, took, who, what)]
  <2>1. g = [n \in 0..N |-> f[n]]
    OBVIOUS
  <2> HIDE DEF g
  <2>2. QED
    BY <1>7, <2>1
<1>9. QED
  BY <1>8 DEF LoopOf

(* In the lists are those whose query took the table, once each.            *)
Apart(N, who) == \A m, n \in 1..N : who[m] = who[n] => m = n

ListsOf(lists, N, took, who, what) ==
  /\ lists \in [Events -> Seq(Nat)]
  /\ \A ev \in Events : /\ NoRepeat(lists[ev])
                        /\ Range(lists[ev]) = {who[n] : n \in {m \in 1..N : took[m] /\ what[m] = ev}}

LEMMA JoinedAre ==
  ASSUME NEW N \in Nat, NEW took, NEW who, NEW what,
         Loop(N, took, who, what), Apart(N, who),
         NEW h, LoopOf(h, N, took, who, what), NEW lists, lists = h[N]
  PROVE  ListsOf(lists, N, took, who, what)
<1> DEFINE Took(n, ev) == {who[k] : k \in {m \in 1..n : took[m] /\ what[m] = ev}}
           Right(n, l) == /\ l \in [Events -> Seq(Nat)]
                          /\ \A ev \in Events : NoRepeat(l[ev]) /\ Range(l[ev]) = Took(n, ev)
           Wrong == {n \in 0..N : ~Right(n, h[n])}
<1>1. \A n \in 1..N : took[n] => who[n] \in Nat /\ what[n] \in Events
  BY DEF Loop
<1>2. \A n \in 0..N : h[n] = Joined(h, n, took, who, what)
  BY DEF LoopOf
<1>3. Right(0, h[0])
  <2>1. h[0] = [event \in Events |-> <<>>]
    <3>1. h[0] = Joined(h, 0, took, who, what)
      BY <1>2
    <3>2. QED
      BY ONLY <3>1 DEF Joined
  <2>2. h[0] \in [Events -> Seq(Nat)] /\ \A ev \in Events : h[0][ev] = <<>>
    <3>1. <<>> \in Seq(Nat)
      BY ONLY TRUE
    <3>2. PICK none : none = <<>> /\ none \in Seq(Nat)
      BY <3>1, Zenon
    <3>3. h[0] = [event \in Events |-> none]
      BY <2>1, <3>2
    <3>4. QED
      BY <3>2, <3>3
  <2>3. \A ev \in Events : Took(0, ev) = {}
    OBVIOUS
  <2>4. Range(<<>>) = {} /\ NoRepeat(<<>>)
    BY DEF Range, NoRepeat
  <2> HIDE DEF Took
  <2>5. QED
    BY <2>2, <2>3, <2>4
<1>4. ASSUME NEW n \in 1..N, Right(n - 1, h[n - 1]) PROVE Right(n, h[n])
  <2>1. PICK l : l = h[n - 1]
    OBVIOUS
  <2>2. h[n] = IF ~took[n] THEN l ELSE [l EXCEPT ![what[n]] = Append(@, who[n])]
    <3>1. n \in 0..N /\ n # 0
      OBVIOUS
    <3>2. h[n] = Joined(h, n, took, who, what)
      BY <1>2, <3>1
    <3>3. QED
      BY ONLY <2>1, <3>1, <3>2 DEF Joined
  <2>3. Right(n - 1, l)
    BY <1>4, <2>1
  <2>4. \A ev \in Events : Took(n, ev) = Took(n - 1, ev) \cup (IF took[n] /\ what[n] = ev THEN {who[n]} ELSE {})
    <3>1. ASSUME NEW ev \in Events, NEW x PROVE x \in Took(n, ev) <=>
                 x \in Took(n - 1, ev) \/ (took[n] /\ what[n] = ev /\ x = who[n])
      <4>1. \A m : m \in 1..n <=> m \in 1..(n - 1) \/ m = n
        OBVIOUS
      <4>2. QED
        BY <4>1
    <3> HIDE DEF Took
    <3>2. QED
      BY <3>1
  <2>5. CASE ~took[n]
    <3>1. \A ev \in Events : Took(n, ev) = Took(n - 1, ev)
      BY <2>4, <2>5
    <3> HIDE DEF Took
    <3>2. QED
      BY <2>2, <2>3, <2>5, <3>1
  <2>6. CASE took[n]
    <3>1. who[n] \in Nat /\ what[n] \in Events
      BY <1>1, <2>6
    <3>2. PICK l2 : l2 = [l EXCEPT ![what[n]] = Append(@, who[n])]
      OBVIOUS
    <3>3. l \in [Events -> Seq(Nat)] /\ \A ev \in Events : NoRepeat(l[ev]) /\ Range(l[ev]) = Took(n - 1, ev)
      BY <2>3
    <3>4. who[n] \notin Took(n - 1, what[n])
      BY DEF Apart
    <3> HIDE DEF Took
    <3>5. /\ l2 \in [Events -> Seq(Nat)]
          /\ \A ev \in Events : Range(l2[ev]) = Range(l[ev]) \cup (IF ev = what[n] THEN {who[n]} ELSE {})
          /\ \A ev \in Events \ {what[n]} : l2[ev] = l[ev]
          /\ NoRepeat(l[what[n]]) /\ who[n] \notin Range(l[what[n]]) => NoRepeat(l2[what[n]])
      <4>1. PICK o \in Nat : o = who[n]
        BY <3>1
      <4>2. PICK w \in Events : w = what[n]
        BY <3>1
      <4>3. l \in [Events -> Seq(Nat)] /\ l2 = Longer(l, w, o)
        BY <3>2, <3>3, <4>1, <4>2 DEF Longer
      <4>4. /\ l2 \in [Events -> Seq(Nat)]
            /\ \A ev \in Events : Range(l2[ev]) = Range(l[ev]) \cup (IF ev = w THEN {o} ELSE {})
            /\ \A ev \in Events \ {w} : l2[ev] = l[ev]
            /\ NoRepeat(l[w]) /\ o \notin Range(l[w]) => NoRepeat(l2[w])
        <5>1. OneMore(l2, l, w, o, Nat)
          BY <4>3, ListLonger
        <5>2. QED
          BY <5>1 DEF OneMore
      <4>5. QED
        BY <4>1, <4>2, <4>4
    <3>6. \A ev \in Events : NoRepeat(l2[ev])
      BY <3>1, <3>3, <3>4, <3>5
    <3>7. ASSUME NEW ev \in Events PROVE Range(l2[ev]) = Took(n, ev)
      <4>1. Took(n, ev) = Took(n - 1, ev) \cup (IF ev = what[n] THEN {who[n]} ELSE {})
        <5>1. CASE ev = what[n]
          BY <2>4, <2>6, <5>1
        <5>2. CASE ev # what[n]
          BY <2>4, <5>2
        <5>3. QED
          BY <5>1, <5>2
      <4>2. QED
        BY <3>3, <3>5, <4>1
    <3>8. QED
      BY <2>2, <2>6, <3>2, <3>5, <3>6, <3>7
  <2>7. QED
    BY <2>5, <2>6
<1> HIDE DEF Right
<1>5. Wrong = {}
  <2>1. SUFFICES ASSUME Wrong # {} PROVE FALSE
    OBVIOUS
  <2>2. PICK n \in Wrong : \A m \in Wrong : n <= m
    <3>1. Wrong \in SUBSET Nat
      OBVIOUS
    <3>2. QED
      BY ONLY <2>1, <3>1, LeastOf
  <2>3. n # 0
    BY <1>3
  <2>4. n \in 1..N /\ n - 1 \in 0..N /\ n - 1 \notin Wrong
    BY <2>2, <2>3
  <2>5. QED
    BY <1>4, <2>2, <2>4
<1>6. Right(N, h[N])
  <2>1. N \in 0..N
    OBVIOUS
  <2>2. QED
    BY <1>5, <2>1
<1>7. QED
  BY <1>6 DEF Right, ListsOf

(* The queries that take in the table that a step makes                      *)
Takers == {s \in Range(active) : \E i \in DOMAIN queries'[s].cache : queries'[s].cache[i].id = Len(types')}

(* Each active query is that of one observer, which the loop finds.          *)
LEMMA ObserverOf ==
  ASSUME Typed, SlotsOfObservers, Linked, NEW s \in Range(active)
  PROVE  LET o == CHOOSE o \in DOMAIN observers : observers[o].alive /\ observers[o].query = s IN
         /\ o \in Alive /\ Global(o) /\ observers[o].query = s /\ o \in Nat
         /\ observers[o].event \in Events
<1>1. PICK p \in Alive : observers[p].query = s
  BY DEF Linked
<1>2. p \in DOMAIN observers /\ observers[p].alive
  BY <1>1 DEF Alive, IsAlive
<1> DEFINE o == CHOOSE o \in DOMAIN observers : observers[o].alive /\ observers[o].query = s
<1>3. o \in DOMAIN observers /\ observers[o].alive /\ observers[o].query = s
  BY <1>1, <1>2
<1> HIDE DEF o
<1>4. o \in Alive
  BY <1>3 DEF Alive, IsAlive
<1>5. s # None
  <2>1. None \notin Range(active)
    BY <1>1, GlobalOrTargeted
  <2>2. QED
    BY <2>1
<1>6. DOMAIN observers = 1..Len(observers) /\ Len(observers) \in Nat /\ observers[o].event \in Events
  BY <1>4, AliveFacts
<1>7. QED
  BY <1>3, <1>4, <1>5, <1>6 DEF o, Global

LEMMA NewLists ==
  ASSUME Typed, SlotsOfObservers, Slots, Linked, ListsFollow, Len(types') # Len(types)
  PROVE  \E l \in [Events -> Seq(Nat)] :
           /\ listening' = Append(listening, l)
           /\ \A ev \in Events :
                /\ NoRepeat(l[ev])
                /\ Range(l[ev]) = {o \in Alive : /\ Global(o) /\ observers[o].event = ev
                                                 /\ observers[o].query \in Takers}
<1>1. PICK N \in Nat : N = Len(active) /\ DOMAIN active = 1..N
  <2>1. active \in Seq(DOMAIN queries)
    BY DEF Typed, TypeOK
  <2>2. QED
    BY <2>1
<1> DEFINE takes(s) == \E i \in DOMAIN queries'[s].cache : queries'[s].cache[i].id = Len(types')
           observer(s) == CHOOSE o \in DOMAIN observers : observers[o].alive /\ observers[o].query = s
           Found(h) == h = [n \in 0..Len(active) |->
                              IF n = 0 THEN [event \in Events |-> <<>>]
                              ELSE IF ~takes(active[n]) THEN h[n - 1]
                              ELSE [h[n - 1] EXCEPT ![observers[observer(active[n])].event] =
                                      Append(@, observer(active[n]))]]
           joined == CHOOSE h : Found(h)
<1>2. listening' = Append(listening, joined[Len(active)])
  <2>1. listening' = IF Len(types') = Len(types) THEN listening
                     ELSE Append(listening, joined[Len(active)])
    BY Zenon DEF ListsFollow
  <2> HIDE DEF joined
  <2>2. QED
    BY <2>1
<1> HIDE DEF joined, observer
<1>3. \A n \in 1..N : /\ observer(active[n]) \in Alive /\ Global(observer(active[n]))
                      /\ observers[observer(active[n])].query = active[n]
                      /\ observer(active[n]) \in Nat
                      /\ observers[observer(active[n])].event \in Events
  <2>1. ASSUME NEW n \in 1..N
        PROVE  /\ observer(active[n]) \in Alive /\ Global(observer(active[n]))
               /\ observers[observer(active[n])].query = active[n]
               /\ observer(active[n]) \in Nat
               /\ observers[observer(active[n])].event \in Events
    <3>1. PICK s \in Range(active) : s = active[n]
      BY <1>1 DEF Range
    <3>2. PICK o : o = observer(s)
      OBVIOUS
    <3>3. /\ o \in Alive /\ Global(o) /\ observers[o].query = s /\ o \in Nat
          /\ observers[o].event \in Events
      BY <3>2, ObserverOf DEF observer
    <3>4. QED
      BY <3>1, <3>2, <3>3
  <2>2. QED
    BY <2>1
<1> DEFINE took == [n \in 1..N |-> active[n] \in Takers]
           who == [n \in 1..N |-> observer(active[n])]
           what == [n \in 1..N |-> observers[observer(active[n])].event]
<1>4. \A n \in 1..N : /\ took[n] <=> takes(active[n])
                      /\ who[n] = observer(active[n])
                      /\ what[n] = observers[observer(active[n])].event
  <2>1. \A n \in 1..N : active[n] \in Range(active)
    BY <1>1 DEF Range
  <2>2. QED
    BY <2>1 DEF Takers
<1> HIDE DEF took, who, what, takes
<1>5. ASSUME NEW h PROVE Found(h) <=> LoopOf(h, N, took, who, what)
  <2>1. ASSUME NEW n \in 0..N
        PROVE  Joined(h, n, took, who, what)
               = IF n = 0 THEN [event \in Events |-> <<>>]
                 ELSE IF ~takes(active[n]) THEN h[n - 1]
                 ELSE [h[n - 1] EXCEPT ![observers[observer(active[n])].event] =
                         Append(@, observer(active[n]))]
    <3>1. CASE n = 0
      BY <3>1 DEF Joined
    <3>2. CASE n # 0
      <4>1. n \in 1..N
        BY <3>2
      <4>2. /\ took[n] <=> takes(active[n])
            /\ who[n] = observer(active[n])
            /\ what[n] = observers[observer(active[n])].event
        BY <1>4, <4>1
      <4>3. QED
        BY <3>2, <4>2 DEF Joined
    <3>3. QED
      BY <3>1, <3>2
  <2>2. QED
    BY <1>1, <2>1 DEF LoopOf
<1>6. Loop(N, took, who, what)
  BY <1>3, <1>4 DEF Loop
<1>7. Apart(N, who)
  <2>1. ASSUME NEW m \in 1..N, NEW n \in 1..N, who[m] = who[n] PROVE m = n
    <3>1. active[m] = active[n]
      BY <1>3, <1>4, <2>1
    <3>2. QED
      BY <1>1, <3>1 DEF Slots
  <2>2. QED
    BY <2>1 DEF Apart
<1>8. Found(joined)
  <2>1. PICK h : LoopOf(h, N, took, who, what)
    BY <1>6, JoinedExists
  <2>2. Found(h)
    BY <1>5, <2>1
  <2> HIDE DEF Found
  <2>3. QED
    BY <2>2 DEF joined
<1>9. LoopOf(joined, N, took, who, what)
  BY <1>5, <1>8
<1>10. PICK l : l = joined[N]
  OBVIOUS
<1>11. /\ l \in [Events -> Seq(Nat)]
       /\ \A ev \in Events : /\ NoRepeat(l[ev])
                             /\ Range(l[ev]) = {who[n] : n \in {m \in 1..N : took[m] /\ what[m] = ev}}
  <2>1. ListsOf(l, N, took, who, what)
    BY <1>6, <1>7, <1>9, <1>10, JoinedAre
  <2>2. QED
    BY <2>1 DEF ListsOf
<1>12. ASSUME NEW ev \in Events
       PROVE  {who[n] : n \in {m \in 1..N : took[m] /\ what[m] = ev}}
              = {o \in Alive : Global(o) /\ observers[o].event = ev /\ observers[o].query \in Takers}
  <2>1. ASSUME NEW n \in 1..N, took[n], what[n] = ev
        PROVE  /\ who[n] \in Alive /\ Global(who[n]) /\ observers[who[n]].event = ev
               /\ observers[who[n]].query \in Takers
    <3>1. active[n] \in Takers
      BY <2>1 DEF took
    <3>2. QED
      BY <1>3, <1>4, <2>1, <3>1
  <2>2. ASSUME NEW o \in Alive, Global(o), observers[o].event = ev, observers[o].query \in Takers
        PROVE  \E n \in 1..N : took[n] /\ what[n] = ev /\ who[n] = o
    <3>1. PICK n \in 1..N : active[n] = observers[o].query
      BY <1>1, <2>2 DEF Takers, Range
    <3>2. took[n]
      BY <2>2, <3>1 DEF took
    <3>3. who[n] = o
      BY <1>3, <1>4, <2>2, <3>1 DEF Linked
    <3>4. what[n] = ev
      BY <1>4, <2>2, <3>3
    <3>5. QED
      BY <3>2, <3>3, <3>4
  <2>3. QED
    BY <2>1, <2>2
<1>13. listening' = Append(listening, l)
  BY <1>1, <1>2, <1>10
<1>14. QED
  BY <1>11, <1>12, <1>13

-----------------------------------------------------------------------------
(* The lists, operation by operation. *)

LEMMA ListsFacts ==
  ASSUME Typed, ListsTyped
  PROVE  /\ DOMAIN listening = Tables /\ Len(listening) \in Nat /\ Tables = 1..Len(listening)
         /\ \A t \in Tables : listening[t] \in [Events -> Seq(Nat)]
         /\ \A t \in Tables, ev \in Events :
              /\ listening[t][ev] \in Seq(Nat) /\ DOMAIN listening[t][ev] = 1..Len(listening[t][ev])
              /\ Len(listening[t][ev]) \in Nat /\ Range(listening[t][ev]) \subseteq DOMAIN observers
<1>1. listening \in Seq([Events -> Seq(Nat)]) /\ Len(listening) = Len(types)
      /\ \A t \in Tables, event \in Events : Range(listening[t][event]) \subseteq DOMAIN observers
  BY DEF ListsTyped
<1>2. DOMAIN listening = Tables /\ Len(listening) \in Nat /\ Tables = 1..Len(listening)
  BY <1>1, TypedFacts
<1>3. \A t \in Tables : listening[t] \in [Events -> Seq(Nat)]
  <2> DEFINE X == [Events -> Seq(Nat)]
  <2> HIDE DEF X
  <2>1. listening \in Seq(X)
    BY <1>1 DEF X
  <2>2. \A t \in Tables : listening[t] \in X
    BY <1>2, <2>1
  <2>3. QED
    BY <2>2 DEF X
<1>4. \A t \in Tables, ev \in Events : listening[t][ev] \in Seq(Nat)
  BY <1>3
<1>5. QED
  BY <1>1, <1>2, <1>3, <1>4

(* A type stays or a table is added.                                        *)
LEMMA TablesGrow ==
  ASSUME Typed, NEW e \in Entities,
         \/ New(e) \/ \E c \in Comps \cup {Abstract} : AddComp(e, c) \/ \E b \in Entities : IsA(e, b)
  PROVE  /\ UNCHANGED <<active, free>>
         /\ Tables' = 1..Len(types') /\ (Len(types') = Len(types) \/ Len(types') = Len(types) + 1)
         /\ \A t \in Tables : t \in Tables' /\ types'[t] = types[t]
<1>1. CASE New(e)
  BY <1>1 DEF New, Tables
<1>2. ASSUME NEW type \in TypeSet, ChangeType(e, type)
      PROVE  /\ UNCHANGED <<active, free>>
             /\ Tables' = 1..Len(types') /\ (Len(types') = Len(types) \/ Len(types') = Len(types) + 1)
             /\ \A t \in Tables : t \in Tables' /\ types'[t] = types[t]
  <2>1. UNCHANGED <<active, free>>
    BY <1>2 DEF ChangeType
  <2>2. CASE types' = types
    BY <2>1, <2>2 DEF Tables
  <2>3. CASE CreateTable(type)
    <3>1. /\ types' \in Seq(TypeSet) /\ Len(types') = Len(types) + 1
          /\ \A t \in Tables : types'[t] = types[t]
          /\ Tables' = Tables \cup {Len(types) + 1}
      BY <2>3, CreateTyped
    <3>2. Tables' = 1..Len(types')
      BY <3>1 DEF Tables
    <3>3. QED
      BY <2>1, <3>1, <3>2
  <2>4. QED
    BY <1>2, <2>2, <2>3 DEF ChangeType
<1>3. QED
  BY <1>1, <1>2, OperationTypes

(* A table that is made gets its lists, and the others keep theirs.         *)
LEMMA ListsFollowed ==
  ASSUME Typed, Registry, ListsTyped, ListsFollow, DOMAIN observers' = DOMAIN observers,
         Tables' = 1..Len(types'), Len(types') = Len(types) \/ Len(types') = Len(types) + 1
  PROVE  /\ ListsTyped' /\ \A t \in Tables : listening'[t] = listening[t]
         /\ \A t \in Tables' \ Tables, ev \in Events :
              /\ NoRepeat(listening'[t][ev]) /\ t = Len(types')
              /\ Range(listening'[t][ev]) = {o \in Alive : /\ Global(o) /\ observers[o].event = ev
                                                           /\ observers[o].query \in Takers}
<1>1. SlotsOfObservers /\ Slots /\ Linked
  BY DEF Registry
<1>2. PICK n \in Nat : n = Len(types) /\ Len(listening) = n /\ Tables = 1..n
  BY ListsFacts, TypedFacts DEF ListsTyped
<1>3. CASE Len(types') = Len(types)
  <2>1. listening' = listening /\ Tables' = Tables
    BY <1>2, <1>3 DEF ListsFollow
  <2>2. QED
    BY <1>3, <2>1 DEF ListsTyped
<1>4. CASE Len(types') # Len(types)
  <2>1. Len(types') = n + 1 /\ Tables' = Tables \cup {n + 1} /\ n + 1 \notin Tables
    BY <1>2, <1>4, TypedFacts
  <2>2. PICK l \in [Events -> Seq(Nat)] :
           /\ listening' = Append(listening, l)
           /\ \A ev \in Events :
                /\ NoRepeat(l[ev])
                /\ Range(l[ev]) = {o \in Alive : /\ Global(o) /\ observers[o].event = ev
                                                 /\ observers[o].query \in Takers}
    BY <1>1, <1>4, NewLists
  <2> DEFINE X == [Events -> Seq(Nat)]
  <2>3. listening \in Seq(X) /\ l \in X
    BY DEF ListsTyped
  <2> HIDE DEF X
  <2>4. /\ listening' \in Seq(X) /\ Len(listening') = n + 1
        /\ \A t \in 1..n : listening'[t] = listening[t]
        /\ listening'[n + 1] = l
    BY <1>2, <2>2, <2>3, AppendProperties
  <2>5. \A t \in Tables : listening'[t] = listening[t]
    BY <1>2, <2>4
  <2>6. \A ev \in Events : Range(l[ev]) \subseteq DOMAIN observers
    BY <1>1, <2>2, AliveFacts
  <2>7. \A t \in Tables', ev \in Events : Range(listening'[t][ev]) \subseteq DOMAIN observers'
    BY <2>1, <2>4, <2>5, <2>6, ListsFacts
  <2>8. ListsTyped'
    BY <2>1, <2>4, <2>7 DEF ListsTyped, X
  <2>9. QED
    BY <2>1, <2>2, <2>4, <2>5, <2>8
<1>5. QED
  BY <1>3, <1>4

(* A new global observer joins the lists of the tables that its query takes. *)
LEMMA ListsObserveAll ==
  ASSUME Typed, ListsTyped, NEW event \in Events, NEW shape, ObserveAll(event, shape),
         NEW s, s = Last(active'), NEW new \in Nat, new = Slot,
         DOMAIN observers' = DOMAIN observers \cup {new}
  PROVE  /\ types' = types /\ ListsTyped'
         /\ \A t \in Tables, ev \in Events :
              listening'[t][ev] =
                IF ev = event /\ \E i \in DOMAIN queries'[s].cache : queries'[s].cache[i].id = t
                THEN Append(listening[t][ev], new) ELSE listening[t][ev]
<1> DEFINE joins(t) == \E i \in DOMAIN queries'[s].cache : queries'[s].cache[i].id = t
           matched == {queries'[s].cache[i].id : i \in DOMAIN queries'[s].cache}
<1>1. types' = types
  BY DEF ObserveAll, tableVars
<1>2. listening' = [t \in Tables |-> [listening[t] EXCEPT ![event] =
                      IF t \in matched THEN Append(@, new) ELSE @]]
  BY DEF ObserveAll
<1>3. \A t : t \in matched <=> joins(t)
  OBVIOUS
<1> HIDE DEF matched, joins
<1>4. PICK n \in Nat : Tables = 1..n /\ n = Len(types)
  BY TypedFacts
<1>5. ASSUME NEW t \in Tables
      PROVE  /\ listening'[t] \in [Events -> Seq(Nat)]
             /\ \A ev \in Events :
                  /\ listening'[t][ev] = IF ev = event /\ joins(t) THEN Append(listening[t][ev], new)
                                         ELSE listening[t][ev]
                  /\ Range(listening'[t][ev]) \subseteq DOMAIN observers'
  <2>1. PICK l \in [Events -> Seq(Nat)] : l = listening[t]
    BY ListsFacts
  <2>2. \A ev \in Events : Range(l[ev]) \subseteq DOMAIN observers
    BY <2>1, ListsFacts
  <2>3. CASE joins(t)
    <3>1. listening'[t] = Longer(l, event, new)
      BY <1>2, <1>3, <2>1, <2>3 DEF Longer
    <3>2. PICK m : m = Longer(l, event, new)
      OBVIOUS
    <3>3. OneMore(m, l, event, new, Nat)
      BY <3>2, ListLonger
    <3>4. /\ m \in [Events -> Seq(Nat)] /\ m[event] = Append(l[event], new)
          /\ \A ev \in Events : Range(m[ev]) = Range(l[ev]) \cup (IF ev = event THEN {new} ELSE {})
          /\ \A ev \in Events \ {event} : m[ev] = l[ev]
      BY <3>3 DEF OneMore
    <3>5. \A ev \in Events : Range(m[ev]) \subseteq DOMAIN observers'
      BY <2>2, <3>4
    <3>6. QED
      BY <2>1, <2>3, <3>1, <3>2, <3>4, <3>5
  <2>4. CASE ~joins(t)
    <3>1. listening'[t] = [l EXCEPT ![event] = l[event]]
      BY <1>2, <1>3, <2>1, <2>4
    <3>2. listening'[t] = l
      BY <3>1
    <3>3. QED
      BY <2>1, <2>2, <2>4, <3>2
  <2>5. QED
    BY <2>3, <2>4
<1>6. ListsTyped'
  <2> DEFINE X == [Events -> Seq(Nat)]
  <2>1. \A t \in 1..n : listening'[t] \in X
    BY <1>4, <1>5
  <2> HIDE DEF X
  <2>2. listening' = [t \in 1..n |-> listening'[t]]
    BY <1>2, <1>4
  <2>3. listening' \in [1..n -> X]
    BY <2>1, <2>2
  <2>4. listening' \in Seq(X) /\ Len(listening') = n
    BY <2>3
  <2>5. Tables' = Tables
    BY <1>1 DEF Tables
  <2>6. QED
    BY <1>1, <1>4, <1>5, <2>4, <2>5 DEF ListsTyped, X
<1>7. QED
  BY <1>1, <1>5, <1>6 DEF joins

(* A global observer that ends leaves the lists of the tables in the cache of *)
(* its query.                                                                *)
LEMMA ListsFini ==
  ASSUME Typed, ListsTyped, NEW o \in DOMAIN observers, ObserverFini(o), Global(o),
         observers[o].event \in Events, DOMAIN observers' = DOMAIN observers
  PROVE  /\ types' = types /\ ListsTyped'
         /\ \A t \in Tables, ev \in Events :
              listening'[t][ev] =
                IF /\ ev = observers[o].event
                   /\ \E i \in DOMAIN queries[observers[o].query].cache :
                        queries[observers[o].query].cache[i].id = t
                THEN RemoveFirst(listening[t][ev], o) ELSE listening[t][ev]
<1> DEFINE leaves(t) == \E i \in DOMAIN queries[observers[o].query].cache :
                          queries[observers[o].query].cache[i].id = t
<1>1. types' = types
  BY DEF ObserverFini, tableVars
<1>2. PICK event \in Events : event = observers[o].event
  OBVIOUS
<1>3. listening' = [t \in Tables |-> [listening[t] EXCEPT ![event] =
                      IF leaves(t) THEN RemoveFirst(@, o) ELSE @]]
  BY <1>2 DEF ObserverFini, Leave
<1> HIDE DEF leaves
<1>4. PICK n \in Nat : Tables = 1..n /\ n = Len(types)
  BY TypedFacts
<1>5. ASSUME NEW t \in Tables
      PROVE  /\ listening'[t] \in [Events -> Seq(Nat)]
             /\ \A ev \in Events :
                  /\ listening'[t][ev] = IF ev = event /\ leaves(t) THEN RemoveFirst(listening[t][ev], o)
                                         ELSE listening[t][ev]
                  /\ Range(listening'[t][ev]) \subseteq DOMAIN observers'
  <2>1. PICK l \in [Events -> Seq(Nat)] : l = listening[t]
    BY ListsFacts
  <2>2. \A ev \in Events : Range(l[ev]) \subseteq DOMAIN observers
    BY <2>1, ListsFacts
  <2>3. PICK r : r = RemoveFirst(l[event], o)
    OBVIOUS
  <2>4. r \in Seq(Nat) /\ Range(r) \subseteq Range(l[event])
    BY <2>3, ListShorter
  <2>5. listening'[t] = [l EXCEPT ![event] = IF leaves(t) THEN r ELSE l[event]]
    BY <1>3, <2>1, <2>3
  <2>6. QED
    BY <2>1, <2>2, <2>3, <2>4, <2>5
<1>6. ListsTyped'
  <2> DEFINE X == [Events -> Seq(Nat)]
  <2>1. \A t \in 1..n : listening'[t] \in X
    BY <1>4, <1>5
  <2> HIDE DEF X
  <2>2. listening' = [t \in 1..n |-> listening'[t]]
    BY <1>3, <1>4
  <2>3. listening' \in [1..n -> X]
    BY <2>1, <2>2
  <2>4. listening' \in Seq(X) /\ Len(listening') = n
    BY <2>3
  <2>5. Tables' = Tables
    BY <1>1 DEF Tables
  <2>6. QED
    BY <1>1, <1>4, <1>5, <2>4, <2>5 DEF ListsTyped, X
<1>7. QED
  BY <1>1, <1>2, <1>5, <1>6 DEF leaves

LEMMA ListsUnchanged ==
  ASSUME ListsTyped, listening' = listening, types' = types, DOMAIN observers \subseteq DOMAIN observers'
  PROVE  ListsTyped'
  BY DEF ListsTyped, Tables

LEMMA ListsTypedStep ==
  ASSUME Typed, Typed', RecordsAgree, Registry, ListsTyped, [ObserversNext]_allVars
  PROVE  ListsTyped'
<1>1. CASE UNCHANGED allVars
  BY <1>1, ListsUnchanged DEF allVars
<1>2. CASE Advance
  BY <1>2, OnlyFrames, ListsUnchanged
<1>3. CASE Return
  BY <1>3, ListsUnchanged DEF Return, tableVars, observerVars
<1>4. CASE UserStep
  <2>1. ASSUME NEW e \in Entities,
               \/ New(e) /\ Quietly
               \/ \E c \in Comps \cup {Abstract} : AddComp(e, c) /\ Loudly(e)
               \/ \E b \in Entities : IsA(e, b) /\ Loudly(e)
        PROVE  ListsTyped'
    <3>1. observers' = observers /\ ListsFollow
      BY <2>1 DEF Quietly, Loudly
    <3>2. \/ New(e) \/ \E c \in Comps \cup {Abstract} : AddComp(e, c) \/ \E b \in Entities : IsA(e, b)
      BY <2>1
    <3>3. QED
      BY <3>1, <3>2, TablesGrow, ListsFollowed
  <2>2. ASSUME NEW e \in Entities, KillEntity(e) PROVE ListsTyped'
    <3>1. DOMAIN observers' = DOMAIN observers
      BY <2>2, RegistryKill
    <3>2. QED
      BY <2>2, <3>1, ListsUnchanged DEF KillEntity, Kill
  <2>3. ASSUME NEW e \in Entities, NEW event \in Events, Trigger(e, event) PROVE ListsTyped'
    BY <2>3, ListsUnchanged DEF Trigger, tableVars, observerVars
  <2>4. ASSUME NEW e \in Entities, NEW event \in Events, ObserveOne(event, e) PROVE ListsTyped'
    <3>1. DOMAIN observers \subseteq DOMAIN observers'
      BY <2>4, RegistryObserveOne
    <3>2. QED
      BY <2>4, <3>1, ListsUnchanged DEF ObserveOne, tableVars
  <2>5. ASSUME NEW event \in Events, NEW shape \in Shapes, ObserveAll(event, shape) PROVE ListsTyped'
    <3>1. PICK new : new = Slot
      OBVIOUS
    <3>2. DOMAIN observers' = DOMAIN observers \cup {new}
      BY <2>5, <3>1, RegistryObserveAll
    <3>3. new \in Nat
      <4>1. SlotsOfObservers'
        BY <2>5, RegistryObserveAll DEF Registry
      <4>2. observers' \in Seq(ObserverSet \cup {Gone})
        BY <4>1 DEF SlotsOfObservers
      <4>3. DOMAIN observers' \subseteq Nat
        BY <4>2
      <4>4. QED
        BY <3>2, <4>3
    <3>4. QED
      BY <2>5, <3>1, <3>2, <3>3, ListsObserveAll
  <2>6. ASSUME NEW o \in DOMAIN observers, ObserverFini(o) PROVE ListsTyped'
    <3>1. DOMAIN observers' = DOMAIN observers /\ o \in Alive
      BY <2>6, RegistryFini
    <3>2. observers[o].event \in Events
      BY <3>1, AliveFacts DEF Registry
    <3>3. CASE Global(o)
      BY <2>6, <3>1, <3>2, <3>3, ListsFini
    <3>4. CASE ~Global(o)
      <4>1. listening' = listening /\ types' = types
        BY <2>6, <3>4 DEF ObserverFini, Leave, tableVars
      <4>2. QED
        BY <3>1, <4>1, ListsUnchanged
    <3>5. QED
      BY <3>3, <3>4
  <2>7. ASSUME NEW o \in DOMAIN observers, NEW on \in BOOLEAN, SetEnabled(o, on) PROVE ListsTyped'
    BY <2>7, ListsUnchanged DEF SetEnabled, tableVars
  <2>8. QED
    BY <1>4, <2>1, <2>2, <2>3, <2>4, <2>5, <2>6, <2>7 DEF UserStep
<1>5. QED
  BY <1>1, <1>2, <1>3, <1>4 DEF ObserversNext

-----------------------------------------------------------------------------
(* How many deliveries are under way. *)

(* Only the innermost delivery goes on.                                     *)
LEMMA FirstMoves ==
  ASSUME Advance
  PROVE  frames # <<>> /\ (frames' = Tail(frames) \/ \E g : frames' = <<g>> \o Tail(frames))
<1>1. frames # <<>>
  <2>1. ~UserRuns
    BY Zenon DEF Advance
  <2>2. ASSUME frames = <<>> PROVE UserRuns
    <3>1. DOMAIN frames = {}
      BY <2>2
    <3>2. QED
      BY <3>1 DEF UserRuns
  <2>3. QED
    BY <2>1, <2>2
<1>2. PICK f : f = Head(frames)
  OBVIOUS
<1>3. PICK s : s = Tail(frames)
  OBVIOUS
<1>4. frames' = s \/ \E g : frames' = <<g>> \o s
  BY <1>2, <1>3, Zenon DEF Advance
<1>5. QED
  BY <1>1, <1>3, <1>4, Zenon

LEMMA FramesShort ==
  ASSUME Short(frames, MaxDepth), [ObserversNext]_allVars
  PROVE  Short(frames', MaxDepth)
<1>1. MaxDepth \in Nat
  BY BoundsOfObservers
<1>2. CASE UNCHANGED allVars
  <2>1. frames' = frames
    BY <1>2 DEF allVars
  <2>2. QED
    BY <2>1 DEF Short
<1>3. CASE Advance
  <2>1. frames' = Tail(frames) \/ \E g : frames' = <<g>> \o Tail(frames)
    BY <1>3, FirstMoves
  <2>2. frames # <<>>
    BY <1>3, FirstMoves
  <2>3. Short(Tail(frames), MaxDepth) /\ \A x : Short(<<x>> \o Tail(frames), MaxDepth)
    BY <1>1, <2>2, TailShort
  <2>4. CASE frames' = Tail(frames)
    BY <2>3, <2>4
  <2>5. ASSUME NEW g, frames' = <<g>> \o Tail(frames) PROVE Short(frames', MaxDepth)
    BY <2>3, <2>5
  <2>6. QED
    BY <2>1, <2>4, <2>5
<1>4. ASSUME NEW r, frames' = [i \in DOMAIN frames |-> r[i]] PROVE Short(frames', MaxDepth)
  <2>1. frames' = [i \in DOMAIN frames |-> frames'[i]]
    BY <1>4
  <2>2. QED
    BY <2>1, MappedShort
<1>5. CASE Return
  <2>1. frames' = [frames EXCEPT ![1].calling = None]
    BY <1>5 DEF Return
  <2>2. frames = [i \in DOMAIN frames |-> frames[i]]
    BY DEF Short
  <2>3. frames' = [i \in DOMAIN frames |-> frames'[i]]
    BY <2>1, <2>2
  <2>4. QED
    BY <2>3, MappedShort
<1>6. ASSUME NEW e, NEW t, NEW event, NEW k, Deliver(e, t, event, k) PROVE Short(frames', MaxDepth)
  <2>1. PICK s : s = StillDue
    OBVIOUS
  <2>2. s = [i \in DOMAIN frames |-> s[i]] /\ DOMAIN s = DOMAIN frames
    BY <2>1 DEF StillDue
  <2>3. Short(s, MaxDepth)
    BY <2>2, MappedShort
  <2>4. Len(s) = Len(frames)
    BY <2>2 DEF Short
  <2>5. frames' = s \/ (Len(frames) < MaxDepth /\ \E w : frames' = <<w>> \o s)
    BY <1>6, <2>1 DEF Deliver
  <2>6. QED
    BY <1>1, <2>3, <2>4, <2>5, PrefixedShort
<1>7. CASE UserStep
  <2>1. ASSUME NEW e \in Entities,
               \/ New(e) /\ Quietly
               \/ \E c \in Comps \cup {Abstract} : AddComp(e, c) /\ Loudly(e)
               \/ \E b \in Entities : IsA(e, b) /\ Loudly(e)
        PROVE  Short(frames', MaxDepth)
    <3>1. CASE Quietly
      BY <3>1 DEF Quietly
    <3>2. CASE Loudly(e)
      BY <3>2, <1>6, Zenon DEF Loudly
    <3>3. QED
      BY <2>1, <3>1, <3>2
  <2>2. ASSUME NEW e \in Entities, KillEntity(e) PROVE Short(frames', MaxDepth)
    <3>1. frames' = [i \in DOMAIN frames |-> frames'[i]]
      BY <2>2 DEF KillEntity
    <3>2. QED
      BY <3>1, MappedShort
  <2>3. ASSUME NEW e \in Entities, NEW event \in Events, Trigger(e, event) PROVE Short(frames', MaxDepth)
    BY <2>3, <1>6 DEF Trigger
  <2>4. ASSUME NEW record, Register(record) PROVE Short(frames', MaxDepth)
    <3>1. frames' = [i \in DOMAIN frames |-> frames'[i]]
      BY <2>4 DEF Register
    <3>2. QED
      BY <3>1, MappedShort
  <2>5. ASSUME NEW e \in Entities, NEW event \in Events, ObserveOne(event, e) PROVE Short(frames', MaxDepth)
    BY <2>4, <2>5, Zenon DEF ObserveOne
  <2>6. ASSUME NEW event \in Events, NEW shape \in Shapes, ObserveAll(event, shape)
        PROVE  Short(frames', MaxDepth)
    BY <2>4, <2>6, Zenon DEF ObserveAll
  <2>7. ASSUME NEW o \in DOMAIN observers, ObserverFini(o) PROVE Short(frames', MaxDepth)
    <3>1. frames' = [i \in DOMAIN frames |-> frames'[i]]
      BY <2>7 DEF ObserverFini
    <3>2. QED
      BY <3>1, MappedShort
  <2>8. ASSUME NEW o \in DOMAIN observers, NEW on \in BOOLEAN, SetEnabled(o, on)
        PROVE  Short(frames', MaxDepth)
    <3>1. frames' = [i \in DOMAIN frames |-> frames'[i]]
      BY <2>8 DEF SetEnabled
    <3>2. QED
      BY <3>1, MappedShort
  <2>9. QED
    BY <1>7, <2>1, <2>2, <2>3, <2>5, <2>6, <2>7, <2>8 DEF UserStep
<1>8. QED
  BY <1>2, <1>3, <1>5, <1>7 DEF ObserversNext

LEMMA TypesOfObservers ==
  ASSUME Typed, Registry, ListsTyped, Short(frames, MaxDepth)
  PROVE  ObserversTypeOK
<1>1. SlotsOfObservers /\ Linked /\ TargetsKept
  BY DEF Registry
<1>2. ASSUME NEW o \in DOMAIN observers, IsAlive(o)
      PROVE  observers[o] \in [alive : {TRUE}, enabled : BOOLEAN, event : Events,
                               query : DOMAIN queries \cup {None}, watched : Entities \cup {None}]
  <2>1. o \in Alive
    BY <1>2 DEF Alive
  <2>2. observers[o] \in ObserverSet
    BY <1>1, <2>1, AliveFacts
  <2>3. observers[o].query \in DOMAIN queries \cup {None}
    <3>1. active \in Seq(DOMAIN queries)
      BY DEF Typed, TypeOK
    <3>2. Range(active) \subseteq DOMAIN queries
      BY <3>1 DEF Range
    <3>3. QED
      BY <1>1, <2>1, <3>2 DEF Linked
  <2>4. QED
    BY <2>2, <2>3 DEF ObserverSet
<1>3. ASSUME NEW t \in Tables PROVE listening[t] \in [Events -> Seq(DOMAIN observers)]
  <2>1. listening[t] \in [Events -> Seq(Nat)]
    BY ListsFacts
  <2>2. ASSUME NEW ev \in Events PROVE listening[t][ev] \in Seq(DOMAIN observers)
    <3>1. PICK l \in Seq(Nat) : l = listening[t][ev]
      BY <2>1
    <3>2. Range(l) \subseteq DOMAIN observers
      BY <3>1, ListsFacts
    <3>3. \A i \in 1..Len(l) : l[i] \in DOMAIN observers
      BY <3>2 DEF Range
    <3>4. l \in Seq(DOMAIN observers)
      BY <3>3
    <3>5. QED
      BY <3>1, <3>4
  <2>3. QED
    BY <2>1, <2>2
<1>4. targets \in Seq([index : Nat, event : Events, observer : DOMAIN observers])
  <2> DEFINE X == [index : Nat, event : Events, observer : DOMAIN observers]
  <2>1. targets \in Seq(TargetSet)
    BY <1>1 DEF TargetsKept
  <2>2. ASSUME NEW i \in DOMAIN targets PROVE targets[i] \in X
    <3>1. PICK x \in TargetSet : x = targets[i]
      BY <2>1
    <3>2. Entered(x.observer, x)
      BY <1>1, <3>1 DEF TargetsKept
    <3>3. x.observer \in DOMAIN observers
      BY <3>2 DEF Entered, Alive
    <3>4. QED
      BY <3>1, <3>3 DEF TargetSet
  <2> HIDE DEF X
  <2>3. targets \in Seq(X)
    BY <2>1, <2>2
  <2>4. QED
    BY <2>3 DEF X
<1>5. unused \in Seq(DOMAIN observers)
  <2>1. unused \in Seq(Nat) /\ Range(unused) \subseteq DOMAIN observers
    BY <1>1 DEF SlotsOfObservers
  <2>2. \A i \in 1..Len(unused) : unused[i] \in DOMAIN observers
    BY <2>1 DEF Range
  <2>3. QED
    BY <2>1, <2>2
<1>6. Len(frames) <= MaxDepth
  BY DEF Short
<1>7. Len(listening) = Len(types)
  BY DEF ListsTyped
<1>8. QED
  BY <1>2, <1>3, <1>4, <1>5, <1>6, <1>7 DEF ObserversTypeOK

LEMMA ListsTypedInit == ObserversInit => ListsTyped /\ Short(frames, MaxDepth)
<1> SUFFICES ASSUME ObserversInit PROVE ListsTyped /\ Short(frames, MaxDepth)
  OBVIOUS
<1>1. PICK l : l = [event \in Events |-> <<>>]
  OBVIOUS
<1>2. l \in [Events -> Seq(Nat)] /\ \A ev \in Events : l[ev] = <<>>
  BY <1>1
<1>3. listening = <<l>> /\ Len(types) = 1 /\ Tables = {1} /\ frames = <<>>
  BY <1>1 DEF ObserversInit, Init, Tables
<1>4. listening \in Seq([Events -> Seq(Nat)]) /\ Len(listening) = 1 /\ listening[1] = l
  <2> DEFINE X == [Events -> Seq(Nat)]
  <2>1. l \in X
    BY <1>2
  <2> HIDE DEF X
  <2>2. listening \in Seq(X) /\ Len(listening) = 1 /\ listening[1] = l
    BY <1>3, <2>1
  <2>3. QED
    BY <2>2 DEF X
<1>5. \A ev \in Events : Range(l[ev]) = {}
  BY <1>2 DEF Range
<1>6. ListsTyped
  BY <1>3, <1>4, <1>5 DEF ListsTyped
<1>7. frames \in Seq({}) /\ Len(frames) <= MaxDepth
  BY <1>3, BoundsOfObservers
<1>8. QED
  BY <1>6, <1>7 DEF Short

(* Observers, lists and entries have their types, and no more deliveries are   *)
(* under way than the bound allows.                                          *)
THEOREM ObserversTypeCorrect == ObserversSpec => []ObserversTypeOK
<1> DEFINE Inv == Typed /\ RecordsAgree /\ Registry /\ ListsTyped /\ Short(frames, MaxDepth)
<1>1. ObserversInit => Inv
  BY TypedInit, RegistryInit, ListsTypedInit DEF ObserversInit
<1>2. Inv /\ [ObserversNext]_allVars => Inv'
  <2>1. SUFFICES ASSUME Inv, [ObserversNext]_allVars PROVE Inv'
    OBVIOUS
  <2>2. [Next]_vars
    BY <2>1, StepsOfQueries DEF Registry
  <2>3. Typed' /\ RecordsAgree'
    BY <2>1, <2>2, TypedStep
  <2>4. Registry' /\ ListsTyped'
    BY <2>1, <2>3, RegistryStep, ListsTypedStep
  <2>5. Short(frames, MaxDepth)'
    <3>1. Short(frames', MaxDepth)
      BY <2>1, FramesShort
    <3>2. QED
      BY <3>1
  <2>6. QED
    BY <2>3, <2>4, <2>5
<1>3. Inv => ObserversTypeOK
  BY TypesOfObservers
<1>4. QED
  BY <1>1, <1>2, <1>3, PTL DEF ObserversSpec

-----------------------------------------------------------------------------
(* The lists name those whose queries match. *)

(* A query that stays active keeps the tables it holds.                     *)
LEMMA MatchesStay ==
  ASSUME Typed, RecordsAgree, BasesAbstract, QueriesExact, [Next]_vars, "die" \notin BaseHazards
  PROVE  \A s \in Range(active) : s \in Range(active') =>
           \A t \in Tables : t \in Matches(s)' <=> t \in Matches(s)
<1>1. Typed' /\ Undisturbed /\ (KeepsTables \/ \E type : AddsTable(type))
  BY Kinds, TypedStep
<1> SUFFICES ASSUME NEW s \in Range(active), s \in Range(active'), NEW t \in Tables
             PROVE  t \in Matches(s)' <=> t \in Matches(s)
  OBVIOUS
<1>2. PICK q, q2 : q = queries[s] /\ q2 = queries'[s]
  OBVIOUS
<1>3. s \in DOMAIN queries /\ QueryExact(q)
  <2>1. active \in Seq(DOMAIN queries)
    BY DEF Typed, TypeOK
  <2>2. s \in DOMAIN queries
    BY <2>1 DEF Range
  <2>3. QED
    BY <1>2, <2>2 DEF QueriesExact
<1>4. Matches(s) = Named(q.cache) /\ Matches(s)' = Named(q2.cache)
  BY <1>2 DEF Matches, Named
<1>5. ASSUME NEW u \in Tables, GrowFor(u) PROVE t \in Matches(s)' <=> t \in Matches(s)
  <2>1. CASE q2 = q
    BY <1>4, <2>1
  <2>2. CASE q2 # q
    <3> DEFINE cache2 == [i \in DOMAIN q.cache |->
                            IF MustRebind(u, q.cache[i].id)
                            THEN Bind(q.shape, q.cache[i].id, types[q.cache[i].id], capacity')
                            ELSE q.cache[i]]
    <3>1. queries' = RefreshAfterGrowth(u, capacity')
      BY <1>2, <1>5, <2>2 DEF GrowFor
    <3>2. q2 = [q EXCEPT !.cache = cache2]
      BY <1>2, <1>3, <3>1 DEF RefreshAfterGrowth
    <3>3. q2.cache = cache2
      BY <1>3, <3>2 DEF QueryExact
    <3>4. DOMAIN cache2 = DOMAIN q.cache /\ \A i \in DOMAIN q.cache : cache2[i].id = q.cache[i].id
      BY DEF Bind
    <3> HIDE DEF cache2
    <3>5. QED
      BY <1>4, <3>3, <3>4 DEF Named
  <2>3. QED
    BY <2>1, <2>2
<1>6. ASSUME NEW shape \in Shapes, CreateQuery(shape) PROVE q2 = q
  BY <1>2, <1>3, <1>6, Activated DEF QueriesExact
<1>7. ASSUME NEW d \in DOMAIN queries, FiniQuery(d) PROVE q2 = q
  BY <1>2, <1>3, <1>7, Deactivated DEF QueriesExact
<1>8. ASSUME UNCHANGED queryVars PROVE q2 = q
  BY <1>2, <1>8 DEF queryVars
<1>9. CASE KeepsTables
  BY <1>4, <1>5, <1>6, <1>7, <1>8, <1>9 DEF KeepsTables
<1>10. ASSUME NEW type, AddsTable(type) PROVE t \in Matches(s)' <=> t \in Matches(s)
  <2>1. PICK n, room : n = Len(types) + 1 /\ room = Append(capacity, 1)
    OBVIOUS
  <2>2. type \in TypeSet /\ CreateTable(type)
    BY <1>10 DEF AddsTable
  <2>3. PICK cache2 : cache2 = Offer(q.shape, q.cache, n, type, room)
    OBVIOUS
  <2>4. q2.cache = cache2
    <3>1. queries' = OfferToActive(n, type, room)
      BY <2>1, <2>2 DEF CreateTable
    <3>2. q2 = [q EXCEPT !.cache = cache2]
      BY <1>2, <1>3, <2>3, <3>1 DEF OfferToActive
    <3>3. QED
      BY <1>3, <3>2 DEF QueryExact
  <2>5. PICK K, M : /\ Named(q.cache) = K
                    /\ M = IF Accepts(q.shape, type) THEN K \cup {n} ELSE K
                    /\ Arranged(cache2, M, q.shape.ordered, BaseOf')
    BY <1>1, <1>3, <2>1, <2>2, <2>3, Offered
  <2>6. Named(cache2) = M /\ n \notin Tables
    BY <2>1, <2>5, ArrangedNames, TypedFacts
  <2>7. QED
    BY <1>4, <2>4, <2>5, <2>6
<1>11. QED
  BY <1>1, <1>9, <1>10

(* Global observers have an active query and an event.                      *)
LEMMA GlobalFacts == Typed /\ Registry => \A o \in Globals :
    /\ o \in Alive /\ Global(o) /\ observers[o].query \in Range(active) /\ observers[o].event \in Events
<1> SUFFICES ASSUME Typed, Registry, NEW o \in Globals
             PROVE  /\ o \in Alive /\ Global(o) /\ observers[o].query \in Range(active)
                    /\ observers[o].event \in Events
  OBVIOUS
<1>1. o \in Alive /\ Global(o)
  BY DEF Globals
<1>2. SlotsOfObservers /\ Linked
  BY DEF Registry
<1>3. QED
  BY <1>1, <1>2, GlobalOrTargeted, AliveFacts

(* The global observers stay, with their events and queries.                *)
GlobalsStay ==
  /\ Globals' = Globals
  /\ \A o \in Globals : /\ observers'[o].event = observers[o].event
                        /\ observers'[o].query = observers[o].query
                        /\ observers[o].query \in Range(active')

(* What the queries that stay ask for stays.                                *)
Steadily ==
  \A s \in Range(active) : s \in Range(active') =>
    \A t \in Tables : t \in Matches(s)' <=> t \in Matches(s)

LEMMA ListenersStay ==
  ASSUME Typed, Registry, Steadily, GlobalsStay, NEW t \in Tables, NEW event \in Events
  PROVE  Listeners(t, event)' = Listeners(t, event)
<1>1. ASSUME NEW o \in Globals
      PROVE  t \in Matches(observers[o].query)' <=> t \in Matches(observers[o].query)
  <2>1. PICK s : s = observers[o].query
    OBVIOUS
  <2>2. s \in Range(active) /\ s \in Range(active') /\ observers'[o].query = s
    BY <2>1, GlobalFacts DEF GlobalsStay
  <2>3. t \in Matches(s)' <=> t \in Matches(s)
    BY <2>2 DEF Steadily
  <2>4. Matches(observers[o].query)' = Matches(s)'
    BY <2>2 DEF Matches, Named
  <2>5. QED
    BY <2>1, <2>3, <2>4
<1>2. \A o \in Globals : (observers[o].event = event)' <=> observers[o].event = event
  BY DEF GlobalsStay
<1>3. Globals' = Globals
  BY DEF GlobalsStay
<1>4. QED
  BY <1>1, <1>2, <1>3 DEF Listeners

LEMMA ListsStay ==
  ASSUME Typed, Registry, Steadily, GlobalsStay, ListsKept, listening' = listening, types' = types
  PROVE  ListsKept'
<1>1. Tables' = Tables
  BY DEF Tables
<1>2. ASSUME NEW t \in Tables, NEW event \in Events
      PROVE  NoRepeat(listening[t][event])' /\ Range(listening'[t][event]) = Listeners(t, event)'
  <2>1. Listeners(t, event)' = Listeners(t, event)
    BY ListenersStay
  <2>2. NoRepeat(listening[t][event]) /\ Range(listening[t][event]) = Listeners(t, event)
    BY DEF ListsKept
  <2>3. QED
    BY <2>1, <2>2 DEF NoRepeat
<1>3. QED
  BY <1>1, <1>2 DEF ListsKept

(* Operations that add a table, or none                                     *)
LEMMA ListsGain ==
  ASSUME Typed, Typed', Registry, Registry', Steadily, ListsTyped, ListsKept,
         observers' = observers, ListsFollow, NEW e \in Entities,
         \/ New(e) \/ \E c \in Comps \cup {Abstract} : AddComp(e, c) \/ \E b \in Entities : IsA(e, b)
  PROVE  ListsKept'
<1>1. /\ active' = active /\ Tables' = 1..Len(types')
      /\ (Len(types') = Len(types) \/ Len(types') = Len(types) + 1)
  BY TablesGrow
<1>2. DOMAIN observers' = DOMAIN observers /\ Globals' = Globals
  BY DEF Globals, Alive, IsAlive, Global
<1>3. GlobalsStay
  BY <1>1, <1>2, GlobalFacts DEF GlobalsStay
<1>4. /\ \A t \in Tables : listening'[t] = listening[t]
      /\ \A t \in Tables' \ Tables, ev \in Events :
              /\ NoRepeat(listening'[t][ev]) /\ t = Len(types')
              /\ Range(listening'[t][ev]) = {o \in Alive : /\ Global(o) /\ observers[o].event = ev
                                                           /\ observers[o].query \in Takers}
  BY <1>1, <1>2, ListsFollowed
<1>5. ASSUME NEW t \in Tables, NEW event \in Events
      PROVE  NoRepeat(listening'[t][event]) /\ Range(listening'[t][event]) = Listeners(t, event)'
  <2>1. Listeners(t, event)' = Listeners(t, event)
    BY <1>3, ListenersStay
  <2>2. NoRepeat(listening[t][event]) /\ Range(listening[t][event]) = Listeners(t, event)
    BY DEF ListsKept
  <2>3. QED
    BY <1>4, <2>1, <2>2
<1>6. ASSUME NEW t \in Tables' \ Tables, NEW event \in Events
      PROVE  NoRepeat(listening'[t][event]) /\ Range(listening'[t][event]) = Listeners(t, event)'
  <2>1. /\ NoRepeat(listening'[t][event]) /\ t = Len(types')
        /\ Range(listening'[t][event]) = {o \in Globals : /\ observers[o].event = event
                                                          /\ observers[o].query \in Takers}
    BY <1>4 DEF Globals
  <2>2. ASSUME NEW o \in Globals
        PROVE  t \in Matches(observers[o].query)' <=> observers[o].query \in Takers
    <3>1. PICK s : s = observers[o].query
      OBVIOUS
    <3>2. s \in Range(active) /\ s \in Range(active') /\ observers'[o].query = s
      BY <1>1, <3>1, GlobalFacts
    <3>4. s \in Takers <=> t \in Matches(s)'
      BY <2>1, <3>2 DEF Takers, Matches, Named
    <3>5. Matches(observers[o].query)' = Matches(s)'
      BY <3>2 DEF Matches, Named
    <3>6. QED
      BY <3>1, <3>4, <3>5
  <2>3. Listeners(t, event)' = {o \in Globals : /\ observers[o].event = event
                                                /\ observers[o].query \in Takers}
    BY <1>2, <2>2 DEF Listeners
  <2>4. QED
    BY <2>1, <2>3
<1>7. \A t \in Tables', event \in Events :
        NoRepeat(listening'[t][event]) /\ Range(listening'[t][event]) = Listeners(t, event)'
  BY <1>5, <1>6
<1>8. QED
  BY <1>7 DEF ListsKept, NoRepeat

(* A new global observer                                                    *)
LEMMA ListsJoin ==
  ASSUME Typed, Typed', Registry, Registry', Steadily, ListsTyped, ListsKept,
         NEW event \in Events, NEW shape \in Shapes, ObserveAll(event, shape)
  PROVE  ListsKept'
<1>1. PICK new : new = Slot
  OBVIOUS
<1>2. /\ new \notin Alive /\ Alive' = Alive \cup {new} /\ DOMAIN observers' = DOMAIN observers \cup {new}
      /\ \A o \in Alive : observers'[o] = observers[o]
      /\ \E s : /\ s \notin Range(active) /\ Range(active') = Range(active) \cup {s} /\ s = Last(active')
                /\ observers'[new] = [alive |-> TRUE, enabled |-> TRUE, event |-> event,
                                      query |-> s, watched |-> None]
  BY <1>1, RegistryObserveAll
<1>3. PICK s : /\ s \notin Range(active) /\ Range(active') = Range(active) \cup {s} /\ s = Last(active')
               /\ observers'[new] = [alive |-> TRUE, enabled |-> TRUE, event |-> event,
                                     query |-> s, watched |-> None]
  BY <1>2
<1>4. new \in Nat
  <2>1. DOMAIN observers' = 1..Len(observers')
    <3>1. observers' \in Seq(ObserverSet \cup {Gone})
      BY DEF Registry, SlotsOfObservers
    <3>2. QED
      BY <3>1
  <2>2. Len(observers') \in Nat
    <3>1. observers' \in Seq(ObserverSet \cup {Gone})
      BY DEF Registry, SlotsOfObservers
    <3>2. QED
      BY <3>1
  <2>3. QED
    BY <1>2, <2>1, <2>2
<1>5. /\ types' = types
      /\ \A t \in Tables, ev \in Events :
           listening'[t][ev] =
             IF ev = event /\ \E i \in DOMAIN queries'[s].cache : queries'[s].cache[i].id = t
             THEN Append(listening[t][ev], new) ELSE listening[t][ev]
  BY <1>1, <1>2, <1>3, <1>4, ListsObserveAll
<1>6. \A t : (\E i \in DOMAIN queries'[s].cache : queries'[s].cache[i].id = t) <=> t \in Matches(s)'
  BY DEF Matches, Named
<1>7. s # None /\ new \in Globals'
  <2>1. None \notin Range(active')
    <3>1. new \in Alive' /\ Registry' /\ Typed'
      BY <1>2
    <3>2. active' \in Seq(DOMAIN queries') /\ queries' \in Seq(Range(queries'))
      BY DEF Typed, TypeOK, Lists
    <3>3. DOMAIN queries' = 1..Len(queries')
      BY <3>2
    <3>4. Range(active') \subseteq 1..Len(queries')
      BY <3>2, <3>3 DEF Range
    <3>5. None = 0
      BY DEF None
    <3>6. QED
      BY <3>4, <3>5
  <2>2. s # None
    BY <1>3, <2>1
  <2>3. QED
    BY <1>2, <1>3, <2>2 DEF Globals, Global
<1>8. Globals' = Globals \cup {new} /\ \A o \in Globals : observers'[o] = observers[o]
  BY <1>2, <1>7 DEF Globals, Global
<1>9. Tables' = Tables
  BY <1>5 DEF Tables
<1>10. ASSUME NEW t \in Tables, NEW ev \in Events
       PROVE  NoRepeat(listening'[t][ev]) /\ Range(listening'[t][ev]) = Listeners(t, ev)'
  <2>1. ASSUME NEW o \in Globals
        PROVE  t \in Matches(observers[o].query)' <=> t \in Matches(observers[o].query)
    <3>1. PICK q : q = observers[o].query
      OBVIOUS
    <3>2. q \in Range(active) /\ q \in Range(active') /\ observers'[o].query = q
      BY <1>3, <1>8, <3>1, GlobalFacts
    <3>3. t \in Matches(q)' <=> t \in Matches(q)
      BY <3>2 DEF Steadily
    <3>4. Matches(observers[o].query)' = Matches(q)'
      BY <3>2 DEF Matches, Named
    <3>5. QED
      BY <3>1, <3>3, <3>4
  <2>2. t \in Matches(observers[new].query)' <=> t \in Matches(s)'
    BY <1>3 DEF Matches, Named
  <2>3. \A o \in Globals : o \in Listeners(t, ev)' <=> o \in Listeners(t, ev)
    BY <1>8, <2>1 DEF Listeners
  <2>4. new \in Listeners(t, ev)' <=> ev = event /\ t \in Matches(s)'
    BY <1>3, <1>7, <2>2 DEF Listeners
  <2>5. Listeners(t, ev) \subseteq Globals /\ Listeners(t, ev)' \subseteq Globals \cup {new}
    BY <1>8 DEF Listeners
  <2>6. new \notin Listeners(t, ev)
    BY <1>2, <2>5 DEF Globals
  <2>7. Listeners(t, ev)' = Listeners(t, ev) \cup (IF ev = event /\ t \in Matches(s)' THEN {new} ELSE {})
    BY <2>3, <2>4, <2>5, <2>6
  <2>8. PICK l \in [Events -> Seq(Nat)] : l = listening[t]
    BY ListsFacts
  <2>9. NoRepeat(l[ev]) /\ Range(l[ev]) = Listeners(t, ev)
    BY <2>8 DEF ListsKept
  <2>10. CASE ev = event /\ t \in Matches(s)'
    <3>1. listening'[t][ev] = Append(l[ev], new)
      BY <1>5, <1>6, <2>8, <2>10
    <3>2. OneMore(Longer(l, ev, new), l, ev, new, Nat)
      BY <1>4, ListLonger
    <3>3. PICK m : m = Longer(l, ev, new)
      OBVIOUS
    <3>4. m[ev] = Append(l[ev], new) /\ NoRepeat(m[ev]) /\ Range(m[ev]) = Range(l[ev]) \cup {new}
      BY <2>6, <2>9, <3>2, <3>3 DEF OneMore
    <3>5. QED
      BY <2>7, <2>9, <2>10, <3>1, <3>4
  <2>11. CASE ~(ev = event /\ t \in Matches(s)')
    <3>1. listening'[t][ev] = l[ev]
      BY <1>5, <1>6, <2>8, <2>11
    <3>2. QED
      BY <2>7, <2>9, <2>11, <3>1
  <2>12. QED
    BY <2>10, <2>11
<1>11. QED
  BY <1>9, <1>10 DEF ListsKept, NoRepeat

(* A global observer ends                                                   *)
LEMMA ListsLeave ==
  ASSUME Typed, Registry, Registry', Typed', Steadily, QueriesExact, ListsTyped, ListsKept,
         NEW o \in DOMAIN observers, ObserverFini(o), Global(o)
  PROVE  ListsKept'
<1>1. /\ o \in Alive /\ Alive' = Alive \ {o} /\ DOMAIN observers' = DOMAIN observers
      /\ \A p \in Alive \ {o} : observers'[p] = observers[p]
      /\ FiniQuery(observers[o].query)
  BY RegistryFini
<1>2. PICK s : s = observers[o].query
  OBVIOUS
<1>3. Range(active') = Range(active) \ {s}
  BY <1>1, <1>2, Deactivated DEF QueriesExact
<1>4. PICK event \in Events : event = observers[o].event
  BY <1>1, AliveFacts DEF Registry
<1>5. o \in Globals /\ s \in Range(active)
  BY <1>1, <1>2, GlobalFacts DEF Globals
<1>6. /\ types' = types
      /\ \A t \in Tables, ev \in Events :
           listening'[t][ev] =
             IF ev = event /\ \E i \in DOMAIN queries[s].cache : queries[s].cache[i].id = t
             THEN RemoveFirst(listening[t][ev], o) ELSE listening[t][ev]
  BY <1>1, <1>2, <1>4, ListsFini
<1>7. \A t : (\E i \in DOMAIN queries[s].cache : queries[s].cache[i].id = t) <=> t \in Matches(s)
  BY DEF Matches, Named
<1>8. Globals' = Globals \ {o} /\ \A p \in Globals \ {o} : observers'[p] = observers[p]
  BY <1>1 DEF Globals, Global
<1>9. \A p \in Globals \ {o} : observers[p].query \in Range(active')
  <2>1. Linked
    BY DEF Registry
  <2>2. \A p \in Globals \ {o} : observers[p].query # s
    BY <1>1, <1>2, <2>1 DEF Linked, Globals
  <2>3. QED
    BY <1>3, <2>2, GlobalFacts
<1>10. Tables' = Tables
  BY <1>6 DEF Tables
<1>11. ASSUME NEW t \in Tables, NEW ev \in Events
       PROVE  NoRepeat(listening'[t][ev]) /\ Range(listening'[t][ev]) = Listeners(t, ev)'
  <2>1. ASSUME NEW p \in Globals \ {o}
        PROVE  t \in Matches(observers[p].query)' <=> t \in Matches(observers[p].query)
    <3>1. PICK q : q = observers[p].query
      OBVIOUS
    <3>2. q \in Range(active) /\ q \in Range(active') /\ observers'[p].query = q
      BY <1>8, <1>9, <3>1, GlobalFacts
    <3>3. t \in Matches(q)' <=> t \in Matches(q)
      BY <3>2 DEF Steadily
    <3>4. Matches(observers[p].query)' = Matches(q)'
      BY <3>2 DEF Matches, Named
    <3>5. QED
      BY <3>1, <3>3, <3>4
  <2>2. \A p \in Globals \ {o} : p \in Listeners(t, ev)' <=> p \in Listeners(t, ev)
    BY <1>8, <2>1 DEF Listeners
  <2>3. Listeners(t, ev)' \subseteq Globals \ {o} /\ Listeners(t, ev) \subseteq Globals
    BY <1>8 DEF Listeners
  <2>4. Listeners(t, ev)' = Listeners(t, ev) \ {o}
    BY <2>2, <2>3
  <2>5. o \in Listeners(t, ev) <=> ev = event /\ t \in Matches(s)
    BY <1>2, <1>4, <1>5 DEF Listeners
  <2>6. PICK l \in Seq(Nat) : l = listening[t][ev]
    BY ListsFacts
  <2>7. NoRepeat(l) /\ Range(l) = Listeners(t, ev)
    BY <2>6 DEF ListsKept
  <2>8. CASE ev = event /\ t \in Matches(s)
    <3>1. PICK r : r = RemoveFirst(l, o)
      OBVIOUS
    <3>2. NoRepeat(r) /\ Range(r) = Range(l) \ {o}
      BY <2>7, <3>1, ListShorter
    <3>3. listening'[t][ev] = r
      BY <1>6, <1>7, <2>6, <2>8, <3>1
    <3>4. QED
      BY <2>4, <2>7, <3>2, <3>3
  <2>9. CASE ~(ev = event /\ t \in Matches(s))
    <3>1. listening'[t][ev] = l
      BY <1>6, <1>7, <2>6, <2>9
    <3>2. QED
      BY <2>4, <2>5, <2>7, <2>9, <3>1
  <2>10. QED
    BY <2>8, <2>9
<1>12. QED
  BY <1>10, <1>11 DEF ListsKept, NoRepeat

(* Every step keeps the lists right.                                        *)
LEMMA ListsKeptStep ==
  ASSUME Typed, Typed', RecordsAgree, Registry, Registry', ListsTyped, ListsKept,
         QueriesExact, Steadily, [ObserversNext]_allVars
  PROVE  ListsKept'
<1>1. ASSUME UNCHANGED <<types, listening, observers, active>> PROVE ListsKept'
  <2>1. Globals' = Globals /\ observers' = observers /\ active' = active
    BY <1>1 DEF Globals, Alive, IsAlive, Global
  <2>2. GlobalsStay
    BY <2>1, GlobalFacts DEF GlobalsStay
  <2>3. QED
    BY <1>1, <2>2, ListsStay
<1>2. CASE UNCHANGED allVars
  BY <1>1, <1>2 DEF allVars
<1>3. CASE Advance
  BY <1>1, <1>3, OnlyFrames
<1>4. CASE Return
  BY <1>1, <1>4 DEF Return, tableVars, queryVars, observerVars
<1>5. CASE UserStep
  <2>1. ASSUME NEW e \in Entities,
               \/ New(e) /\ Quietly
               \/ \E c \in Comps \cup {Abstract} : AddComp(e, c) /\ Loudly(e)
               \/ \E b \in Entities : IsA(e, b) /\ Loudly(e)
        PROVE  ListsKept'
    <3>1. observers' = observers /\ ListsFollow
      BY <2>1 DEF Quietly, Loudly
    <3>2. \/ New(e) \/ \E c \in Comps \cup {Abstract} : AddComp(e, c) \/ \E b \in Entities : IsA(e, b)
      BY <2>1
    <3>3. QED
      BY <3>1, <3>2, ListsGain
  <2>2. ASSUME NEW e \in Entities, KillEntity(e) PROVE ListsKept'
    <3>1. PICK E : /\ E = {o \in Alive : observers[o].watched = e} /\ Alive' = Alive \ E
                   /\ \A o \in Alive \ E : observers'[o] = observers[o]
      BY <2>2, RegistryKill
    <3>2. active' = active /\ listening' = listening /\ types' = types
      BY <2>2 DEF KillEntity, Kill
    <3>3. \A o \in E : o \notin Globals
      <4>1. \A o \in Globals : observers[o].watched = None
        BY GlobalOrTargeted DEF Globals, Registry
      <4>2. e # None
        BY NoneNeverLives
      <4>3. QED
        BY <3>1, <4>1, <4>2
    <3>4. Globals' = Globals /\ \A o \in Globals : observers'[o] = observers[o]
      BY <3>1, <3>3 DEF Globals, Global
    <3>5. GlobalsStay
      BY <3>2, <3>4, GlobalFacts DEF GlobalsStay
    <3>6. QED
      BY <3>2, <3>5, ListsStay
  <2>3. ASSUME NEW e \in Entities, NEW event \in Events, Trigger(e, event) PROVE ListsKept'
    BY <1>1, <2>3 DEF Trigger, tableVars, queryVars, observerVars
  <2>4. ASSUME NEW e \in Entities, NEW event \in Events, ObserveOne(event, e) PROVE ListsKept'
    <3>1. PICK new : new = Slot
      OBVIOUS
    <3>2. /\ new \notin Alive /\ Alive' = Alive \cup {new} /\ \A o \in Alive : observers'[o] = observers[o]
          /\ observers'[new] = [alive |-> TRUE, enabled |-> TRUE, event |-> event,
                                query |-> None, watched |-> e]
      BY <2>4, <3>1, RegistryObserveOne
    <3>3. active' = active /\ listening' = listening /\ types' = types
      BY <2>4 DEF ObserveOne, tableVars, queryVars
    <3>4. Globals' = Globals /\ \A o \in Globals : observers'[o] = observers[o]
      BY <3>2 DEF Globals, Global
    <3>5. GlobalsStay
      BY <3>3, <3>4, GlobalFacts DEF GlobalsStay
    <3>6. QED
      BY <3>3, <3>5, ListsStay
  <2>5. ASSUME NEW event \in Events, NEW shape \in Shapes, ObserveAll(event, shape) PROVE ListsKept'
    BY <2>5, ListsJoin
  <2>6. ASSUME NEW o \in DOMAIN observers, ObserverFini(o) PROVE ListsKept'
    <3>1. CASE Global(o)
      BY <2>6, <3>1, ListsLeave
    <3>2. CASE ~Global(o)
      <4>1. /\ Alive' = Alive \ {o} /\ \A p \in Alive \ {o} : observers'[p] = observers[p]
            /\ UNCHANGED <<queries, active, free, listening>>
        BY <2>6, <3>2, RegistryFini
      <4>2. types' = types
        BY <2>6 DEF ObserverFini, tableVars
      <4>3. Globals' = Globals /\ \A p \in Globals : observers'[p] = observers[p]
        BY <3>2, <4>1 DEF Globals, Global
      <4>4. GlobalsStay
        BY <4>1, <4>3, GlobalFacts DEF GlobalsStay
      <4>5. QED
        BY <4>1, <4>2, <4>4, ListsStay
    <3>3. QED
      BY <3>1, <3>2
  <2>7. ASSUME NEW o \in DOMAIN observers, NEW on \in BOOLEAN, SetEnabled(o, on) PROVE ListsKept'
    <3>1. /\ Alive' = Alive
          /\ \A p \in Alive : observers'[p].query = observers[p].query /\ observers'[p].event = observers[p].event
      BY <2>7, RegistryEnabled
    <3>2. active' = active /\ listening' = listening /\ types' = types
      BY <2>7 DEF SetEnabled, tableVars, queryVars
    <3>3. Globals' = Globals
      BY <3>1 DEF Globals, Global
    <3>4. GlobalsStay
      BY <3>1, <3>2, <3>3, GlobalFacts DEF GlobalsStay
    <3>5. QED
      BY <3>2, <3>4, ListsStay
  <2>8. QED
    BY <1>5, <2>1, <2>2, <2>3, <2>4, <2>5, <2>6, <2>7 DEF UserStep
<1>6. QED
  BY <1>2, <1>3, <1>4, <1>5 DEF ObserversNext

LEMMA ExactLists ==
  ASSUME Typed, Registry, ListsTyped, ListsKept, QueriesExact
  PROVE  ListsExact
<1>1. SUFFICES ASSUME NEW t \in Tables, NEW event \in Events
               PROVE  /\ t \notin changed =>
                           Range(listening[t][event]) =
                             {o \in DOMAIN observers :
                                /\ IsAlive(o) /\ Global(o) /\ observers[o].event = event
                                /\ Accepts(queries[observers[o].query].shape, types[t])}
                      /\ Len(listening[t][event]) = Cardinality(Range(listening[t][event]))
  BY DEF ListsExact
<1>2. Range(listening[t][event]) = Listeners(t, event) /\ NoRepeat(listening[t][event])
  BY DEF ListsKept
<1>3. ASSUME t \notin changed, NEW o \in Globals
      PROVE  t \in Matches(observers[o].query) <=> Accepts(queries[observers[o].query].shape, types[t])
  <2>1. PICK s, q : s = observers[o].query /\ q = queries[s]
    OBVIOUS
  <2>2. s \in Range(active)
    BY <2>1, GlobalFacts
  <2>3. QueryExact(q)
    <3>1. active \in Seq(DOMAIN queries)
      BY DEF Typed, TypeOK
    <3>2. s \in DOMAIN queries
      BY <2>2, <3>1 DEF Range
    <3>3. QED
      BY <2>1, <2>2, <3>2 DEF QueriesExact
  <2>4. PICK K : Fits(K, q.shape) /\ Arranged(q.cache, K, q.shape.ordered, BaseOf)
    BY <2>3 DEF QueryExact
  <2>5. Named(q.cache) = K
    BY <2>4, ArrangedNames
  <2>6. t \in K <=> Accepts(q.shape, types[t])
    BY <1>3, <2>4 DEF Fits, Accepted
  <2>7. QED
    BY <2>1, <2>5, <2>6 DEF Matches
<1>4. t \notin changed =>
        Listeners(t, event) = {o \in DOMAIN observers :
                              /\ IsAlive(o) /\ Global(o) /\ observers[o].event = event
                              /\ Accepts(queries[observers[o].query].shape, types[t])}
  BY <1>3 DEF Listeners, Globals, Alive
<1>5. PICK l \in Seq(Nat) : l = listening[t][event]
  BY ListsFacts
<1>6. Len(l) \in Nat /\ DOMAIN l = 1..Len(l) /\ \A i, j \in 1..Len(l) : l[i] = l[j] => i = j
  BY <1>2, <1>5 DEF NoRepeat
<1>7. Cardinality({l[i] : i \in 1..Len(l)}) = Len(l)
  BY <1>6, CountOfDistinct
<1>8. Cardinality(Range(l)) = Len(l)
  BY <1>6, <1>7 DEF Range
<1>9. QED
  BY <1>2, <1>4, <1>5, <1>8

LEMMA ListsKeptInit == ObserversInit => ListsKept
<1> SUFFICES ASSUME ObserversInit PROVE ListsKept
  OBVIOUS
<1>1. PICK l : l = [event \in Events |-> <<>>]
  OBVIOUS
<1>2. \A event \in Events : l[event] = <<>>
  BY <1>1
<1>3. listening = <<l>> /\ Tables = {1} /\ observers = <<>>
  BY <1>1 DEF ObserversInit, Init, Tables
<1>4. Globals = {}
  BY <1>3 DEF Globals, Alive
<1>5. listening[1] = l
  BY <1>3
<1>6. \A event \in Events : NoRepeat(l[event]) /\ Range(l[event]) = {}
  BY <1>2 DEF NoRepeat, Range
<1>7. QED
  BY <1>3, <1>4, <1>5, <1>6 DEF ListsKept, Listeners

-----------------------------------------------------------------------------
(* Deliveries under way. *)

FrameSet == [table : Nat, entity : Entities, event : Events, todo : Nat,
             stage : {"list", "targets", "done"}, at : Nat \ {0}, count : Nat, source : Entities,
             calling : Nat, due : SUBSET Nat, heard : Seq(Nat), late : SUBSET (Nat \ {0})]

(* The entity of a delivery lives, and so does the base it has come to.      *)
FrameTyped(f, tables, living, bases) ==
  /\ f \in FrameSet /\ f.table \in tables /\ {f.entity, f.source} \subseteq living
  /\ f.source \in {f.entity} \cup bases

(* Every delivery but the innermost waits for a callback.                   *)
FramesTyped ==
  /\ frames \in Seq(FrameSet)
  /\ \A i \in DOMAIN frames : FrameTyped(frames[i], Tables, Living, BasesInUse)
  /\ \A i \in DOMAIN frames : i > 1 => frames[i].calling # None

Alter(f, d, l) == [f EXCEPT !.due = d, !.late = l]

Parent == [e \in Entities |-> TypeOf(e).base]

(* What code of the user leaves of a delivery that waits for it              *)
Carried(f, g) ==
  /\ g \in FrameSet /\ g = Alter(f, g.due, g.late) /\ g.late \subseteq f.late \cup {Slot}
  /\ \A o \in g.due :
       /\ o \in f.due /\ (o \in Alive => o \in Alive' /\ observers'[o] = observers[o])
       /\ \/ Parent'[f.entity] = Parent[f.entity]
          \/ observers[o].watched \in {None, f.entity} \cup Bases'[f.entity]

(* A delivery that begins, of an observer or of a component that was added   *)
Begins(w) ==
  /\ observers' = observers
  /\ \E t \in Tables', e \in Living', event \in Events, k \in Nat : w = Walk(listening', t, e, event, k)

LEMMA SlotUnused ==
  ASSUME SlotsOfObservers
  PROVE  Slot \notin Alive /\ Slot \in Nat \ {0}
<1>1. /\ unused \in Seq(Nat) /\ Range(unused) = DOMAIN observers \ Alive
      /\ DOMAIN observers = 1..Len(observers) /\ Len(observers) \in Nat /\ Alive \subseteq DOMAIN observers
  BY AliveFacts DEF SlotsOfObservers
<1>2. CASE unused = <<>>
  BY <1>1, <1>2 DEF Slot
<1>3. CASE unused # <<>>
  <2>1. Slot = unused[1] /\ 1 \in DOMAIN unused
    BY <1>1, <1>3 DEF Slot
  <2>2. Slot \in Range(unused)
    BY <2>1 DEF Range
  <2>3. QED
    BY <1>1, <2>2
<1>4. QED
  BY <1>2, <1>3

LEMMA FramesFacts ==
  ASSUME frames \in Seq(FrameSet)
  PROVE  /\ DOMAIN frames = 1..Len(frames) /\ Len(frames) \in Nat
         /\ frames = [i \in DOMAIN frames |-> frames[i]]
         /\ \A i \in DOMAIN frames : frames[i] \in FrameSet
         /\ Range(frames) = {frames[i] : i \in DOMAIN frames}
  BY DEF Range

LEMMA FramesMapped ==
  ASSUME frames \in Seq(FrameSet), NEW r, r = [i \in DOMAIN frames |-> r[i]],
         \A i \in DOMAIN frames : r[i] \in FrameSet
  PROVE  r \in Seq(FrameSet) /\ Len(r) = Len(frames) /\ DOMAIN r = DOMAIN frames
<1>1. DOMAIN frames = 1..Len(frames) /\ Len(frames) \in Nat
  BY FramesFacts
<1>2. r \in [1..Len(frames) -> FrameSet]
  BY <1>1
<1>3. r \in Seq(FrameSet)
  BY <1>1, <1>2
<1>4. QED
  BY <1>1, <1>2, <1>3

(* A delivery with other observers due and late                             *)
LEMMA Altered ==
  ASSUME NEW f \in FrameSet, NEW d, NEW l, NEW g, g = Alter(f, d, l)
  PROVE  /\ g.table = f.table /\ g.entity = f.entity /\ g.event = f.event /\ g.todo = f.todo
         /\ g.stage = f.stage /\ g.at = f.at /\ g.count = f.count /\ g.source = f.source
         /\ g.calling = f.calling /\ g.heard = f.heard /\ g.due = d /\ g.late = l
         /\ g = Alter(f, g.due, g.late)
         /\ d \subseteq f.due /\ l \subseteq f.late \cup (Nat \ {0}) => g \in FrameSet
  BY DEF FrameSet, Alter

LEMMA AlteredForms ==
  ASSUME NEW f \in FrameSet, NEW d, NEW l
  PROVE  /\ [f EXCEPT !.due = d] = Alter(f, d, f.late)
         /\ [f EXCEPT !.late = l] = Alter(f, f.due, l)
         /\ f = Alter(f, f.due, f.late)
  BY DEF FrameSet, Alter

Rearranged(H) == H = [i \in DOMAIN frames |-> H[i]] /\ \A i \in DOMAIN frames : Carried(frames[i], H[i])

LEMMA CarriedIf ==
  ASSUME NEW f \in FrameSet, NEW d, NEW l, d \subseteq f.due, l = f.late \/ l = f.late \cup {Slot}, Slot \in Nat \ {0},
         \A o \in d : /\ o \in Alive => o \in Alive' /\ observers'[o] = observers[o]
                      /\ \/ Parent'[f.entity] = Parent[f.entity]
                         \/ observers[o].watched \in {None, f.entity} \cup Bases'[f.entity]
  PROVE  Carried(f, Alter(f, d, l))
<1>1. PICK g : g = Alter(f, d, l)
  OBVIOUS
<1>2. f.late \subseteq Nat \ {0}
  BY DEF FrameSet
<1>3. g.due = d /\ g.late = l /\ g \in FrameSet /\ g = Alter(f, g.due, g.late)
  BY <1>1, <1>2, Altered
<1>4. Carried(f, g)
  BY <1>3 DEF Carried
<1>5. QED
  BY <1>1, <1>4

(* What code of the user does to the deliveries under way.                  *)
LEMMA UserFrames ==
  ASSUME Typed, RecordsAgree, Registry, FramesTyped, UserStep
  PROVE  \E H : Rearranged(H) /\ (frames' = H \/ \E w : Begins(w) /\ frames' = <<w>> \o H)
<1>1. frames \in Seq(FrameSet) /\ SlotsOfObservers
  BY DEF FramesTyped, Registry
<1>2. /\ frames = [i \in DOMAIN frames |-> frames[i]]
      /\ \A i \in DOMAIN frames : frames[i] \in FrameSet /\ frames[i].entity \in Living
                                  /\ frames[i].entity \in Entities /\ frames[i] \in Range(frames)
  BY <1>1, FramesFacts, NoneNeverLives DEF FramesTyped, FrameTyped, Range
<1>3. Slot \in Nat \ {0} /\ Slot \notin Alive
  BY <1>1, SlotUnused
<1> DEFINE Calm == \A i \in DOMAIN frames : Parent'[frames[i].entity] = Parent[frames[i].entity]
           Goal == \E H : Rearranged(H) /\ (frames' = H \/ \E w : Begins(w) /\ frames' = <<w>> \o H)
<1>4. ASSUME Calm, Alive' = Alive, \A o \in Alive : observers'[o] = observers[o], frames' = frames
      PROVE  Goal
  <2>1. \A i \in DOMAIN frames : Carried(frames[i], frames[i])
    <3>1. SUFFICES ASSUME NEW i \in DOMAIN frames PROVE Carried(frames[i], frames[i])
      OBVIOUS
    <3>2. PICK f \in FrameSet : f = frames[i] /\ Parent'[f.entity] = Parent[f.entity]
      BY <1>2, <1>4
    <3>3. Carried(f, Alter(f, f.due, f.late))
      BY <1>3, <1>4, <3>2, CarriedIf
    <3>4. QED
      BY <3>2, <3>3, AlteredForms
  <2>2. Rearranged(frames)
    BY <1>2, <2>1 DEF Rearranged
  <2>3. QED
    BY <1>4, <2>2
<1>5. ASSUME NEW D, frames' = [i \in DOMAIN frames |-> [frames[i] EXCEPT !.due = D[i]]],
             \A i \in DOMAIN frames :
               /\ D[i] \subseteq frames[i].due
               /\ \A o \in D[i] : o \in Alive => o \in Alive' /\ observers'[o] = observers[o],
             Calm
      PROVE  Goal
  <2> DEFINE H == [i \in DOMAIN frames |-> [frames[i] EXCEPT !.due = D[i]]]
  <2>1. ASSUME NEW i \in DOMAIN frames PROVE Carried(frames[i], H[i])
    <3>1. PICK f \in FrameSet : f = frames[i] /\ Parent'[f.entity] = Parent[f.entity]
      BY <1>2, <1>5
    <3>2. Carried(f, Alter(f, D[i], f.late))
      BY <1>3, <1>5, <3>1, CarriedIf
    <3>3. QED
      BY <3>1, <3>2, AlteredForms
  <2>2. Rearranged(H)
    BY <2>1 DEF Rearranged
  <2>3. QED
    BY <1>5, <2>2
<1>6. ASSUME frames' = [i \in DOMAIN frames |-> [frames[i] EXCEPT !.late = @ \cup {Slot}]],
             \A o \in Alive : o \in Alive' /\ observers'[o] = observers[o], Calm
      PROVE  Goal
  <2> DEFINE H == [i \in DOMAIN frames |-> [frames[i] EXCEPT !.late = frames[i].late \cup {Slot}]]
  <2>1. ASSUME NEW i \in DOMAIN frames PROVE Carried(frames[i], H[i])
    <3>1. PICK f \in FrameSet : f = frames[i] /\ Parent'[f.entity] = Parent[f.entity]
      BY <1>2, <1>6
    <3>2. Carried(f, Alter(f, f.due, f.late \cup {Slot}))
      BY <1>3, <1>6, <3>1, CarriedIf
    <3>3. QED
      BY <3>1, <3>2, AlteredForms
  <2>2. Rearranged(H)
    BY <2>1 DEF Rearranged
  <2>3. QED
    BY <1>6, <2>2
<1>7. ASSUME UNCHANGED <<types, place>> PROVE Calm
  BY <1>7 DEF Parent, TypeOf, Living
<1>8. ASSUME NEW e \in Entities, OthersStay(e), \A i \in DOMAIN frames : frames[i].entity # e PROVE Calm
  <2>1. \A x \in Entities \ {e} : Parent'[x] = Parent[x]
    BY <1>8 DEF OthersStay, Parent
  <2>2. QED
    BY <1>2, <1>8, <2>1
<1>9. ASSUME NEW e \in Entities, NEW t \in Tables', e \in Living', NEW event \in Events, NEW k \in Nat,
             observers' = observers, Deliver(e, t, event, k)
      PROVE  Goal
  <2>1. PICK H : H = StillDue
    OBVIOUS
  <2>2. H = [i \in DOMAIN frames |-> H[i]]
    BY <2>1 DEF StillDue
  <2>3. Alive' = Alive
    BY <1>9 DEF Alive, IsAlive
  <2>4. ASSUME NEW i \in DOMAIN frames PROVE Carried(frames[i], H[i])
    <3>1. PICK f \in FrameSet : f = frames[i]
      BY <1>2
    <3>2. PICK B : B = Bases'
      OBVIOUS
    <3> DEFINE d == {o \in f.due : observers[o].watched \in {None, f.entity} \cup B[f.entity]}
    <3>3. H[i] = [f EXCEPT !.due = d]
      BY <2>1, <3>1, <3>2 DEF StillDue
    <3>4. Carried(f, Alter(f, d, f.late))
      BY <1>3, <1>9, <2>3, <3>2, CarriedIf
    <3>5. QED
      BY <3>1, <3>3, <3>4, AlteredForms
  <2>5. Rearranged(H)
    BY <2>2, <2>4 DEF Rearranged
  <2>6. frames' = H \/ \E w : Begins(w) /\ frames' = <<w>> \o H
    <3>1. CASE k = 0 \/ ~Observed(listening', t, event)
      BY <1>9, <2>1, <3>1 DEF Deliver
    <3>2. CASE ~(k = 0 \/ ~Observed(listening', t, event))
      <4>1. PICK w : w = Walk(listening', t, e, event, k - 1)
        OBVIOUS
      <4>2. frames' = <<w>> \o H
        BY <1>9, <2>1, <3>2, <4>1 DEF Deliver
      <4>3. k - 1 \in Nat
        BY <3>2
      <4>4. Begins(w)
        BY <1>9, <4>1, <4>3 DEF Begins
      <4>5. QED
        BY <4>2, <4>4
    <3>3. QED
      BY <3>1, <3>2
  <2>7. QED
    BY <2>5, <2>6
<1>10. ASSUME NEW e \in Entities, New(e), Quietly PROVE Goal
  <2>1. OthersStay(e) /\ e \notin Living
    BY <1>10, NewTyped
  <2>2. Calm
    BY <1>2, <1>8, <2>1
  <2>3. observers' = observers /\ frames' = frames
    BY <1>10 DEF Quietly
  <2>4. Alive' = Alive
    BY <2>3 DEF Alive, IsAlive
  <2>5. QED
    BY <1>4, <2>2, <2>3, <2>4
<1>11. ASSUME NEW e \in Entities, Loudly(e),
              (\E c \in Comps \cup {Abstract} : AddComp(e, c)) \/ \E b \in Entities : IsA(e, b)
       PROVE  Goal
  <2>1. Typed' /\ e \in Living'
    <3>1. PICK type \in TypeSet : e \in Living /\ ChangeType(e, type)
      BY <1>11, OperationTypes
    <3>2. QED
      BY <3>1, ChangeTypeTyped
  <2>2. PICK t : t = place'[e].table
    OBVIOUS
  <2>3. t \in Tables'
    BY <2>1, <2>2 DEF Living, Typed, TypeOK
  <2>4. PICK k : k = Cardinality(types'[t].comps \ TypeOf(e).comps)
    OBVIOUS
  <2>5. observers' = observers /\ Deliver(e, t, OnAdd, k)
    BY <1>11, <2>2, <2>4 DEF Loudly
  <2>6. k \in Nat
    <3>1. IsFiniteSet(Comps \cup {Abstract})
      BY ComponentsAreFinite, FS_AddElement
    <3>2. types'[t].comps \subseteq Comps \cup {Abstract}
      <4>1. types' \in Seq(TypeSet)
        BY <2>1 DEF Typed, TypeOK, TypeSet
      <4>2. types'[t] \in TypeSet
        BY <2>3, <4>1 DEF Tables
      <4>3. QED
        BY <4>2 DEF TypeSet
    <3>3. IsFiniteSet(types'[t].comps \ TypeOf(e).comps)
      BY <3>1, <3>2, FS_Subset
    <3>4. QED
      BY <2>4, <3>3, FS_CardinalityType
  <2>7. QED
    BY <1>9, <2>1, <2>3, <2>5, <2>6, EventsNumbered
<1>12. ASSUME NEW e \in Entities, KillEntity(e) PROVE Goal
  <2>1. OthersStay(e)
    BY <1>12, KillTyped DEF KillEntity
  <2>2. e \notin Walked
    BY <1>12 DEF KillEntity
  <2>3. Calm
    BY <1>2, <1>8, <2>1, <2>2 DEF Walked
  <2>4. PICK E : /\ Alive' = Alive \ E /\ DOMAIN observers' = DOMAIN observers
                 /\ \A o \in Alive \ E : observers'[o] = observers[o]
    BY <1>12, RegistryKill
  <2> DEFINE D == [i \in DOMAIN frames |-> {o \in frames[i].due : observers'[o].alive}]
  <2>5. frames' = [i \in DOMAIN frames |-> [frames[i] EXCEPT !.due = D[i]]]
    BY <1>12 DEF KillEntity
  <2>6. ASSUME NEW o \in Alive, observers'[o].alive PROVE o \in Alive' /\ observers'[o] = observers[o]
    <3>1. o \in DOMAIN observers'
      BY <2>4 DEF Alive
    <3>2. o \in Alive'
      BY <2>6, <3>1 DEF Alive, IsAlive
    <3>3. QED
      BY <2>4, <3>2
  <2>7. \A i \in DOMAIN frames :
          /\ D[i] \subseteq frames[i].due
          /\ \A o \in D[i] : o \in Alive => o \in Alive' /\ observers'[o] = observers[o]
    BY <2>6
  <2> HIDE DEF D
  <2>8. QED
    BY <1>5, <2>3, <2>5, <2>7
<1>13. ASSUME NEW e \in Entities, NEW event \in Events, Trigger(e, event) PROVE Goal
  <2>1. UNCHANGED <<types, place, observers>> /\ e \in Living /\ Deliver(e, place[e].table, event, 1)
    BY <1>13 DEF Trigger, tableVars, observerVars
  <2>2. e \in Living' /\ place[e].table \in Tables'
    BY <2>1, TypedFacts DEF Living, Tables
  <2>3. 1 \in Nat
    OBVIOUS
  <2>4. QED
    BY <1>9, <2>1, <2>2, <2>3
<1>14. ASSUME NEW e \in Entities, NEW event \in Events, ObserveOne(event, e) PROVE Goal
  <2>1. UNCHANGED <<types, place>>
    BY <1>14 DEF ObserveOne, tableVars
  <2>2. frames' = [i \in DOMAIN frames |-> [frames[i] EXCEPT !.late = @ \cup {Slot}]]
    BY <1>14 DEF ObserveOne, Register
  <2>3. \A o \in Alive : o \in Alive' /\ observers'[o] = observers[o]
    BY <1>14, RegistryObserveOne
  <2>4. QED
    BY <1>6, <1>7, <2>1, <2>2, <2>3
<1>15. ASSUME NEW event \in Events, NEW shape \in Shapes, ObserveAll(event, shape) PROVE Goal
  <2>1. UNCHANGED <<types, place>>
    BY <1>15 DEF ObserveAll, tableVars
  <2>2. frames' = [i \in DOMAIN frames |-> [frames[i] EXCEPT !.late = @ \cup {Slot}]]
    BY <1>15 DEF ObserveAll, Register
  <2>3. Typed'
    <3>1. CreateQuery(shape)
      BY <1>15 DEF ObserveAll, CreateQuery
    <3>2. [Next]_vars
      BY <3>1 DEF Next
    <3>3. QED
      BY <3>2, TypedStep
  <2>4. \A o \in Alive : o \in Alive' /\ observers'[o] = observers[o]
    BY <1>15, <2>3, RegistryObserveAll
  <2>5. QED
    BY <1>6, <1>7, <2>1, <2>2, <2>4
<1>16. ASSUME NEW o \in DOMAIN observers, UNCHANGED <<types, place>>,
              frames' = [i \in DOMAIN frames |-> [frames[i] EXCEPT !.due = @ \ {o}]],
              \A p \in Alive \ {o} : p \in Alive' /\ observers'[p] = observers[p]
       PROVE  Goal
  <2> DEFINE D == [i \in DOMAIN frames |-> frames[i].due \ {o}]
  <2>1. frames' = [i \in DOMAIN frames |-> [frames[i] EXCEPT !.due = D[i]]]
    BY <1>16
  <2>2. \A i \in DOMAIN frames :
          /\ D[i] \subseteq frames[i].due
          /\ \A p \in D[i] : p \in Alive => p \in Alive' /\ observers'[p] = observers[p]
    BY <1>16
  <2> HIDE DEF D
  <2>3. QED
    BY <1>5, <1>7, <1>16, <2>1, <2>2
<1>17. ASSUME NEW o \in DOMAIN observers, ObserverFini(o) PROVE Goal
  <2>1. UNCHANGED <<types, place>> /\ frames' = [i \in DOMAIN frames |-> [frames[i] EXCEPT !.due = @ \ {o}]]
    BY <1>17 DEF ObserverFini, tableVars
  <2>2. \A p \in Alive \ {o} : p \in Alive' /\ observers'[p] = observers[p]
    BY <1>17, RegistryFini
  <2>3. QED
    BY <1>16, <2>1, <2>2
<1>18. ASSUME NEW o \in DOMAIN observers, NEW on \in BOOLEAN, SetEnabled(o, on) PROVE Goal
  <2>1. UNCHANGED <<types, place>> /\ frames' = [i \in DOMAIN frames |-> [frames[i] EXCEPT !.due = @ \ {o}]]
    BY <1>18 DEF SetEnabled, tableVars
  <2>2. observers' = [observers EXCEPT ![o].enabled = on] /\ Alive' = Alive
    BY <1>18, RegistryEnabled DEF SetEnabled
  <2>3. \A p \in Alive \ {o} : p \in Alive' /\ observers'[p] = observers[p]
    BY <2>2 DEF Alive
  <2>4. QED
    BY <1>16, <2>1, <2>3
<1>19. QED
  BY <1>10, <1>11, <1>12, <1>13, <1>14, <1>15, <1>17, <1>18 DEF UserStep

(* The innermost delivery goes on.                                          *)
Found(f) ==
  f.at <= f.count /\ targets[f.at].index = IndexOf[f.source] /\ targets[f.at].event = f.event

Goes(f, g) ==
  \/ f.stage = "list" /\ f.at <= f.count /\ g = Call(f, listening[f.table][f.event][f.at])
  \/ /\ f.stage = "list" /\ ~(f.at <= f.count) /\ HasTargets(f.event)
     /\ g = TargetStage(f, f.entity)
  \/ /\ f.stage = "list" /\ ~(f.at <= f.count) /\ ~HasTargets(f.event)
     /\ g = [f EXCEPT !.stage = "done"]
  \/ f.stage = "targets" /\ Found(f) /\ g = Call(f, targets[f.at].observer)
  \/ /\ f.stage = "targets" /\ ~Found(f) /\ TypeOf(f.source).base # None
     /\ g = TargetStage(f, TypeOf(f.source).base)
  \/ /\ f.stage = "targets" /\ ~Found(f) /\ TypeOf(f.source).base = None
     /\ g = [f EXCEPT !.stage = "done"]

LEMMA AdvanceOf ==
  ASSUME Advance, frames \in Seq(FrameSet)
  PROVE  /\ frames # <<>> /\ 1 \in DOMAIN frames /\ frames[1].calling = None
         /\ \/ \E g : Goes(frames[1], g) /\ frames' = <<g>> \o Tail(frames)
            \/ /\ frames[1].stage = "done" /\ frames[1].todo > 0
               /\ frames' = <<Walk(listening, frames[1].table, frames[1].entity, frames[1].event,
                                   frames[1].todo - 1)>> \o Tail(frames)
            \/ frames[1].stage = "done" /\ frames' = Tail(frames)
<1>1. frames # <<>>
  BY FirstMoves
<1>2. 1 \in DOMAIN frames /\ Head(frames) = frames[1]
  BY <1>1
<1>3. ~UserRuns
  BY Zenon DEF Advance
<1>4. frames[1].calling = None
  BY <1>3 DEF UserRuns
<1>5. PICK f : f = Head(frames)
  OBVIOUS
<1>6. PICK s : s = Tail(frames)
  OBVIOUS
<1>7. PICK w : w = Walk(listening, f.table, f.entity, f.event, f.todo - 1)
  OBVIOUS
<1>8. \/ InList(f) /\ frames' = <<Call(f, listening[f.table][f.event][f.at])>> \o s
      \/ /\ f.stage = "list" /\ ~InList(f)
         /\ frames' = <<IF HasTargets(f.event) THEN TargetStage(f, f.entity)
                        ELSE [f EXCEPT !.stage = "done"]>> \o s
      \/ f.stage = "targets" /\ Found(f) /\ frames' = <<Call(f, targets[f.at].observer)>> \o s
      \/ /\ f.stage = "targets" /\ ~Found(f)
         /\ frames' = <<IF TypeOf(f.source).base # None THEN TargetStage(f, TypeOf(f.source).base)
                        ELSE [f EXCEPT !.stage = "done"]>> \o s
      \/ /\ f.stage = "done"
         /\ IF f.todo > 0 /\ Observed(listening, f.table, f.event)
            THEN frames' = <<w>> \o s ELSE frames' = s
  BY <1>5, <1>6, <1>7, Zenon DEF Advance, Found
<1>9. \/ \E g : Goes(f, g) /\ frames' = <<g>> \o s
      \/ f.stage = "done" /\ f.todo > 0 /\ frames' = <<w>> \o s
      \/ f.stage = "done" /\ frames' = s
  <2>1. CASE InList(f) /\ frames' = <<Call(f, listening[f.table][f.event][f.at])>> \o s
    BY <2>1 DEF InList, Goes
  <2>2. CASE /\ f.stage = "list" /\ ~InList(f)
             /\ frames' = <<IF HasTargets(f.event) THEN TargetStage(f, f.entity)
                            ELSE [f EXCEPT !.stage = "done"]>> \o s
    BY <2>2 DEF InList, Goes
  <2>3. CASE f.stage = "targets" /\ Found(f) /\ frames' = <<Call(f, targets[f.at].observer)>> \o s
    BY <2>3 DEF Goes
  <2>4. CASE /\ f.stage = "targets" /\ ~Found(f)
             /\ frames' = <<IF TypeOf(f.source).base # None THEN TargetStage(f, TypeOf(f.source).base)
                            ELSE [f EXCEPT !.stage = "done"]>> \o s
    BY <2>4 DEF Goes
  <2>5. QED
    BY <1>8, <2>1, <2>2, <2>3, <2>4
<1>10. QED
  BY <1>1, <1>2, <1>4, <1>5, <1>6, <1>7, <1>9

(* The deliveries after it stay where they are, or move by one place.        *)
LEMMA FirstReplaced ==
  ASSUME frames \in Seq(FrameSet), frames # <<>>, NEW g \in FrameSet
  PROVE  LET r == <<g>> \o Tail(frames) IN
         /\ r \in Seq(FrameSet) /\ Len(r) = Len(frames) /\ DOMAIN r = DOMAIN frames
         /\ r[1] = g /\ \A i \in DOMAIN frames : i > 1 => r[i] = frames[i]
<1>1. Tail(frames) \in Seq(FrameSet) /\ <<g>> \in Seq(FrameSet) /\ Len(Tail(frames)) = Len(frames) - 1
      /\ Len(frames) \in Nat /\ Len(frames) > 0 /\ Len(<<g>>) = 1
  BY FramesFacts
<1>2. \A i \in 1..(Len(frames) - 1) : Tail(frames)[i] = frames[i + 1]
  BY <1>1
<1>3. PICK s \in Seq(FrameSet) : s = Tail(frames)
  BY <1>1
<1>4. /\ <<g>> \o s \in Seq(FrameSet) /\ Len(<<g>> \o s) = 1 + Len(s) /\ (<<g>> \o s)[1] = g
      /\ \A i \in 2..(1 + Len(s)) : (<<g>> \o s)[i] = s[i - 1]
  BY <1>1, ConcatProperties
<1>5. DOMAIN frames = 1..Len(frames) /\ DOMAIN (<<g>> \o s) = 1..Len(<<g>> \o s)
  BY <1>4, FramesFacts
<1>6. ASSUME NEW i \in 2..Len(frames) PROVE (<<g>> \o s)[i] = frames[i]
  BY <1>1, <1>2, <1>3, <1>4
<1>7. QED
  BY <1>1, <1>3, <1>4, <1>5, <1>6

LEMMA FirstDropped ==
  ASSUME frames \in Seq(FrameSet), frames # <<>>
  PROVE  LET r == Tail(frames) IN
         /\ r \in Seq(FrameSet) /\ DOMAIN r = 1..(Len(frames) - 1) /\ Len(frames) \in Nat
         /\ \A i \in 1..(Len(frames) - 1) : r[i] = frames[i + 1]
  BY FramesFacts

-----------------------------------------------------------------------------
(* Where a delivery stands. *)

(* Those who may be called *)
Ears == [o \in Alive |-> observers[o]]

(* Walking the list of a table: the part that is walked stays as it is.      *)
ListWalk(f, list) ==
  f.stage = "list" =>
    /\ f.source = f.entity /\ f.count <= Len(list) /\ f.at <= f.count + 1
    /\ \A i \in 1..f.count : list[i] \notin f.late
    /\ \A h \in Range(f.heard) : \E i \in 1..(f.at - 1) : list[i] = h
    /\ f.calling # None => f.at > 1 /\ f.calling = list[f.at - 1]

(* Who was called before this position: a global observer, one that stands    *)
(* before it, or one that watches something ranked above the source.         *)
Passed(f, o, list, T, ears, bases, rank) ==
  \/ o \in Range(list)
  \/ /\ o \in DOMAIN ears /\ ears[o].watched \in Entities
     /\ \/ ears[o].watched = f.source /\ \E i \in 1..(f.at - 1) : T[i].observer = o
        \/ f.source \in bases /\ rank[ears[o].watched] > rank[f.source]

(* Walking the targeted observers of a source: none comes or goes meanwhile.  *)
TargetWalk(f, list, T, ears, bases, rank) ==
  f.stage = "targets" =>
    /\ f.count = Len(T) /\ f.at <= f.count + 1
    /\ \A i \in 1..Len(T) : Below(T[i], IndexOf[f.source], f.event) => i < f.at
    /\ \A h \in Range(f.heard) : Passed(f, h, list, T, ears, bases, rank)
    /\ f.calling # None => f.at > 1 /\ f.calling = T[f.at - 1].observer

(* An observer that is due is still ahead.                                  *)
Ahead(f, o, list, T, ears, up) ==
  IF ears[o].watched = None THEN f.stage = "list" /\ \E i \in f.at..f.count : list[i] = o
  ELSE /\ ears[o].event = f.event
       /\ \/ f.stage = "list" /\ ears[o].watched \in {f.entity} \cup up[f.entity]
          \/ f.stage = "targets" /\ ears[o].watched = f.source /\ \E i \in f.at..f.count : T[i].observer = o
          \/ f.stage = "targets" /\ ears[o].watched \in up[f.source]

AllAhead(f, list, T, ears, up) ==
  \A o \in f.due : o \in DOMAIN ears /\ ears[o].enabled /\ Ahead(f, o, list, T, ears, up)

Orderly(f, list, T, ears, bases, up, rank) ==
  /\ ListWalk(f, list) /\ TargetWalk(f, list, T, ears, bases, rank) /\ AllAhead(f, list, T, ears, up)
  /\ NoRepeat(f.heard) /\ (f.stage = "done" => f.calling = None)

(* Bases rank below those that inherit from them.                           *)
Ranking(rank) ==
  rank \in [Entities -> Nat] /\ \A x \in Living : Parent[x] # None => rank[Parent[x]] < rank[x]

Deliveries(rank) ==
  \A i \in DOMAIN frames :
    Orderly(frames[i], listening[frames[i].table][frames[i].event], targets, Ears, BasesInUse, Bases, rank)

(* The fields of a delivery                                                 *)
LEMMA FrameFields ==
  ASSUME NEW f \in FrameSet
  PROVE  /\ f.table \in Nat /\ f.entity \in Entities /\ f.event \in Events /\ f.todo \in Nat
         /\ f.stage \in {"list", "targets", "done"} /\ f.at \in Nat \ {0} /\ f.count \in Nat
         /\ f.source \in Entities /\ f.calling \in Nat /\ f.due \subseteq Nat /\ f.heard \in Seq(Nat)
         /\ f.late \subseteq Nat \ {0} /\ f.source # None /\ f.entity # None
  BY EntitiesNumbered DEF FrameSet, None

(* What lets a delivery stay in order: the list that is walked grows behind,  *)
(* while targeted observers are walked none comes or goes, those who are due  *)
(* are as they were, and so are the lines of bases it may come to.           *)
Extends(list, list2) == Len(list) <= Len(list2) /\ \A j \in 1..Len(list) : list2[j] = list[j]

ListStays(f, l, list, list2, slot) ==
  /\ list \in Seq(Nat) /\ list2 \in Seq(Nat) /\ Extends(list, list2)
  /\ l \subseteq f.late \cup {slot} /\ \A j \in 1..Len(list) : list[j] # slot

EarsStay(f, d, T, T2, ears, ears2) ==
  /\ f.stage = "targets" =>
       /\ T2 = T
       /\ \A o \in DOMAIN ears : ears[o].watched # None =>
            o \in DOMAIN ears2 /\ ears2[o].watched = ears[o].watched
  /\ d \subseteq f.due /\ \A o \in d : o \in DOMAIN ears => o \in DOMAIN ears2 /\ ears2[o] = ears[o]

RanksRise(bases, rank, rank2) ==
  /\ rank \in [Entities -> Nat] /\ rank2 \in [Entities -> Nat]
  /\ \A x \in Entities : rank2[x] >= rank[x]
  /\ \A x \in bases : rank2[x] = rank[x]

LinesStay(f, d, ears, bases, bases2, up, up2) ==
  /\ f.source \in {f.entity} \cup bases /\ bases \subseteq bases2 /\ None \notin bases
  /\ up[f.entity] \subseteq bases /\ \A x \in bases : up2[x] = up[x]
  /\ \A o \in d : o \in DOMAIN ears =>
       up2[f.entity] = up[f.entity] \/ ears[o].watched \in {None, f.entity} \cup up2[f.entity]

LEMMA OrderlyStays ==
  ASSUME NEW f \in FrameSet, NEW d, NEW l, NEW g \in FrameSet, g = Alter(f, d, l),
         NEW list, NEW list2, NEW slot, ListStays(f, l, list, list2, slot),
         NEW T, NEW T2, NEW ears, NEW ears2, EarsStay(f, d, T, T2, ears, ears2),
         NEW bases, NEW bases2, NEW rank, NEW rank2, RanksRise(bases, rank, rank2),
         NEW up, NEW up2, LinesStay(f, d, ears, bases, bases2, up, up2),
         Orderly(f, list, T, ears, bases, up, rank)
  PROVE  Orderly(g, list2, T2, ears2, bases2, up2, rank2)
<1> USE DEF Extends, ListStays, EarsStay, RanksRise, LinesStay
<1>1. /\ g.entity = f.entity /\ g.event = f.event /\ g.stage = f.stage /\ g.at = f.at
      /\ g.count = f.count /\ g.source = f.source /\ g.calling = f.calling /\ g.heard = f.heard
      /\ g.due = d /\ g.late = l
  BY Altered
<1>2. /\ f.at \in Nat \ {0} /\ f.count \in Nat /\ f.calling \in Nat /\ f.source \in Entities
      /\ f.source # None /\ f.entity # None
  BY FrameFields
<1>3. PICK at \in Nat \ {0} : at = f.at
  BY <1>2
<1>4. PICK count \in Nat : count = f.count
  BY <1>2
<1>5. /\ Len(list) \in Nat /\ Len(list2) \in Nat /\ Len(list) <= Len(list2)
      /\ DOMAIN list = 1..Len(list) /\ DOMAIN list2 = 1..Len(list2)
      /\ \A i \in 1..Len(list) : list2[i] = list[i] /\ list[i] # slot
      /\ l \subseteq f.late \cup {slot}
  OBVIOUS
<1>6. ListWalk(g, list2)
  <2>1. SUFFICES ASSUME g.stage = "list" PROVE ListWalk(g, list2)
    BY DEF ListWalk
  <2>2. /\ f.source = f.entity /\ count <= Len(list) /\ at <= count + 1
        /\ \A i \in 1..count : list[i] \notin f.late
        /\ \A h \in Range(f.heard) : \E i \in 1..(at - 1) : list[i] = h
        /\ f.calling # None => at > 1 /\ f.calling = list[at - 1]
    BY <1>1, <1>3, <1>4, <2>1 DEF Orderly, ListWalk
  <2>3. ASSUME NEW i \in 1..count PROVE list2[i] = list[i] /\ list2[i] \notin l
    <3>1. i \in 1..Len(list)
      BY ONLY <1>5, <2>2, i \in 1..count
    <3>2. QED
      BY ONLY <1>5, <2>2, <3>1, i \in 1..count
  <2>4. \A i \in 1..count : list2[i] = list[i] /\ list2[i] \notin l
    BY <2>3
  <2>5. at - 1 <= count
    BY <2>2
  <2>6. \A i \in 1..(at - 1) : list2[i] = list[i]
    BY <2>4, <2>5
  <2>7. f.calling # None => at > 1 /\ f.calling = list2[at - 1]
    BY <2>2, <2>6
  <2>8. \A h \in Range(f.heard) : \E i \in 1..(at - 1) : list2[i] = h
    <3>1. SUFFICES ASSUME NEW h \in Range(f.heard), NEW i \in 1..(at - 1), list[i] = h
                   PROVE  \E j \in 1..(at - 1) : list2[j] = h
      BY <2>2, Zenon
    <3>2. list2[i] = h
      BY ONLY <2>6, <3>1, i \in 1..(at - 1)
    <3>3. QED
      BY ONLY <3>2, i \in 1..(at - 1), Zenon
  <2>9. count <= Len(list2)
    BY <1>5, <2>2
  <2>10. \A i \in 1..count : list2[i] \notin l
    BY <2>4
  <2>11. QED
    BY <1>1, <1>3, <1>4, <2>2, <2>7, <2>8, <2>9, <2>10 DEF ListWalk
<1>7. TargetWalk(g, list2, T2, ears2, bases2, rank2)
  <2>1. SUFFICES ASSUME g.stage = "targets" PROVE TargetWalk(g, list2, T2, ears2, bases2, rank2)
    BY DEF TargetWalk
  <2>2. /\ f.count = Len(T) /\ f.at <= f.count + 1 /\ T2 = T
        /\ \A i \in 1..Len(T) : Below(T[i], IndexOf[f.source], f.event) => i < f.at
        /\ \A h \in Range(f.heard) : Passed(f, h, list, T, ears, bases, rank)
        /\ f.calling # None => f.at > 1 /\ f.calling = T[f.at - 1].observer
    BY <1>1, <2>1 DEF Orderly, TargetWalk
  <2>3. ASSUME NEW h \in Range(f.heard) PROVE Passed(g, h, list2, T2, ears2, bases2, rank2)
    <3>1. Passed(f, h, list, T, ears, bases, rank)
      BY <2>2
    <3>2. CASE h \in Range(list)
      <4>1. h \in Range(list2)
        BY ONLY <1>5, <3>2 DEF Range
      <4>2. QED
        BY <4>1 DEF Passed
    <3>3. CASE h \notin Range(list)
      <4>1. h \in DOMAIN ears /\ ears[h].watched \in Entities
        BY <3>1, <3>3 DEF Passed
      <4>2. h \in DOMAIN ears2 /\ ears2[h].watched = ears[h].watched
        BY <1>1, <2>1, <4>1, EntitiesNumbered
      <4>3. CASE ears[h].watched = f.source /\ \E i \in 1..(f.at - 1) : T[i].observer = h
        BY <1>1, <2>2, <4>1, <4>2, <4>3 DEF Passed
      <4>4. CASE f.source \in bases /\ rank[ears[h].watched] > rank[f.source]
        <5>1. rank2[ears[h].watched] >= rank[ears[h].watched] /\ rank2[f.source] = rank[f.source]
              /\ rank[f.source] \in Nat /\ rank[ears[h].watched] \in Nat /\ rank2[ears[h].watched] \in Nat
          BY <1>2, <4>1, <4>4
        <5>2. rank2[ears[h].watched] > rank2[f.source]
          BY <4>4, <5>1
        <5>3. QED
          BY <1>1, <4>1, <4>2, <4>4, <5>2 DEF Passed
      <4>5. QED
        BY <3>1, <3>3, <4>3, <4>4 DEF Passed
    <3>4. QED
      BY <3>2, <3>3
  <2>4. QED
    BY <1>1, <2>2, <2>3 DEF TargetWalk
<1>8. ASSUME NEW o \in d
      PROVE  o \in DOMAIN ears2 /\ ears2[o].enabled /\ Ahead(g, o, list2, T2, ears2, up2)
  <2>1. o \in DOMAIN ears /\ ears[o].enabled /\ Ahead(f, o, list, T, ears, up)
    BY DEF Orderly, AllAhead
  <2>2. o \in DOMAIN ears2 /\ ears2[o] = ears[o] /\ ears2[o].enabled
    BY <2>1
  <2>3. CASE ears[o].watched = None
    <3>1. PICK i \in f.at..f.count : f.stage = "list" /\ list[i] = o
      BY <2>1, <2>3 DEF Ahead
    <3>2. f.count <= Len(list) /\ Len(list) \in Nat
      BY <3>1 DEF Orderly, ListWalk
    <3>3. list2[i] = o
      BY ONLY <1>5, <1>2, <3>1, <3>2
    <3>4. g.stage = "list" /\ ears2[o].watched = None /\ i \in g.at..g.count
      BY <1>1, <2>2, <2>3, <3>1
    <3>5. QED
      BY <2>2, <3>3, <3>4 DEF Ahead
  <2>4. CASE ears[o].watched # None
    <3>1. f.stage = "targets" => T2 = T
      OBVIOUS
    <3>2. ears[o].event = f.event
      BY <2>1, <2>4 DEF Ahead
    <3>3. up2[f.entity] = up[f.entity] \/ ears[o].watched \in {None, f.entity} \cup up2[f.entity]
      BY <2>1
    <3>4. CASE f.stage = "list" /\ ears[o].watched \in {f.entity} \cup up[f.entity]
      <4>1. ears[o].watched \in {f.entity} \cup up2[f.entity]
        BY <2>4, <3>3, <3>4
      <4>2. QED
        BY <1>1, <2>2, <2>4, <3>2, <3>4, <4>1 DEF Ahead
    <3>5. CASE f.stage = "targets" /\ ears[o].watched = f.source /\ \E i \in f.at..f.count : T[i].observer = o
      BY <1>1, <2>2, <2>4, <3>2, <3>5, <3>1 DEF Ahead
    <3>6. CASE f.stage = "targets" /\ ears[o].watched \in up[f.source]
      <4>1. ears[o].watched \in up2[f.source]
        <5>1. CASE f.source \in bases
          BY <3>6, <5>1
        <5>2. CASE f.source \notin bases
          <6>1. f.source = f.entity
            BY <5>2
          <6>2. ears[o].watched # f.entity
            BY <3>6, <5>2, <6>1
          <6>3. QED
            BY <2>4, <3>3, <3>6, <6>1, <6>2
        <5>3. QED
          BY <5>1, <5>2
      <4>2. QED
        BY <1>1, <2>2, <2>4, <3>2, <3>6, <4>1 DEF Ahead
    <3>7. QED
      BY <2>1, <2>4, <3>4, <3>5, <3>6 DEF Ahead
  <2>5. QED
    BY <2>3, <2>4
<1>9. AllAhead(g, list2, T2, ears2, up2)
  BY <1>1, <1>8 DEF AllAhead
<1>10. NoRepeat(g.heard) /\ (g.stage = "done" => g.calling = None)
  BY <1>1 DEF Orderly
<1>11. QED
  BY <1>6, <1>7, <1>9, <1>10 DEF Orderly

-----------------------------------------------------------------------------
(* The innermost delivery. *)

LEMMA ParentFacts ==
  ASSUME Typed, BasesAbstract
  PROVE  /\ BasesInUse \subseteq Living /\ None \notin BasesInUse
         /\ \A x \in Living : /\ x \in Entities /\ Parent[x] = TypeOf(x).base
                              /\ Parent[x] \in BasesInUse \cup {None}
                              /\ Bases[x] = Lineage(Parent[x]) /\ Bases[x] \subseteq BasesInUse
         /\ \A x \in Living : Parent[x] # None => Bases[x] \subseteq {Parent[x]} \cup Bases[Parent[x]]
         /\ \A x \in Living : Parent[x] = None => Bases[x] = {}
<1>1. BasesInUse \subseteq Living /\ None \notin BasesInUse /\ Closed(BasesInUse)
  BY DEF BasesAbstract, BasesInUse, Closed
<1>2. Living \subseteq Entities
  BY NoneNeverLives
<1>3. ASSUME NEW x \in Living
      PROVE  /\ x \in Entities /\ Parent[x] = TypeOf(x).base /\ Parent[x] \in BasesInUse \cup {None}
             /\ Bases[x] = Lineage(Parent[x]) /\ Bases[x] \subseteq BasesInUse
  <2>1. x \in Entities /\ Parent[x] = TypeOf(x).base /\ Bases[x] = Lineage(TypeOf(x).base)
    BY <1>2 DEF Parent, Bases
  <2>2. Parent[x] \in BasesInUse \cup {None}
    BY <2>1, BasesFacts
  <2>3. PICK b \in BasesInUse \cup {None} : b = Parent[x]
    BY <2>2
  <2>4. Lineage(b) \subseteq BasesInUse
    BY <1>1, ClosedLines
  <2>5. QED
    BY <2>1, <2>3, <2>4
<1>4. BasesInUse \in SUBSET Entities /\ \A x \in BasesInUse : TypeOf(x).base \in BasesInUse \cup {None}
  BY <1>1, BasesFacts
<1>5. ASSUME NEW x \in Living, Parent[x] # None PROVE Bases[x] \subseteq {Parent[x]} \cup Bases[Parent[x]]
  <2>1. PICK b \in BasesInUse : b = Parent[x]
    BY <1>3, <1>5
  <2>2. Lineage(b) \subseteq {b} \cup Lineage(TypeOf(b).base)
    BY <1>4, LineageSplit
  <2>3. b \in Living
    BY <1>1
  <2>4. QED
    BY <1>3, <2>1, <2>2, <2>3
<1>6. Lineage(None) = {}
  <2>1. ASSUME NEW b \in BasesInUse PROVE Lineage(None) = {}
    BY <1>4, LineageSplit
  <2>2. CASE BasesInUse = {}
    <3>1. None \in BasesInUse \cup {None} /\ Lineage(None) \subseteq BasesInUse
      BY <1>1, ClosedLines
    <3>2. QED
      BY <2>2, <3>1
  <2>3. QED
    BY <2>1, <2>2
<1>7. QED
  BY <1>1, <1>3, <1>5, <1>6

(* The entries of the array, one by one                                     *)
LEMMA EntryFacts ==
  ASSUME Registry
  PROVE  /\ targets \in Seq(TargetSet) /\ Len(targets) \in Nat /\ DOMAIN targets = 1..Len(targets)
         /\ \A i \in 1..Len(targets) :
              /\ targets[i].index \in Nat /\ targets[i].event \in Nat
              /\ targets[i].observer \in Alive /\ targets[i].observer \in Nat
              /\ observers[targets[i].observer].watched \in Living
              /\ targets[i].index = IndexOf[observers[targets[i].observer].watched]
              /\ targets[i].event = observers[targets[i].observer].event
         /\ \A i, j \in 1..Len(targets) : targets[i].observer = targets[j].observer => i = j
         /\ \A o \in Alive : observers[o].watched # None =>
              \E i \in 1..Len(targets) : targets[i].observer = o
         /\ Sorted(targets)
<1>1. TargetsKept
  BY DEF Registry
<1>2. targets \in Seq(TargetSet) /\ Len(targets) \in Nat /\ DOMAIN targets = 1..Len(targets) /\ Sorted(targets)
  BY <1>1 DEF TargetsKept
<1>3. ASSUME NEW i \in 1..Len(targets)
      PROVE  /\ targets[i].index \in Nat /\ targets[i].event \in Nat
             /\ targets[i].observer \in Alive /\ targets[i].observer \in Nat
             /\ observers[targets[i].observer].watched \in Living
             /\ targets[i].index = IndexOf[observers[targets[i].observer].watched]
             /\ targets[i].event = observers[targets[i].observer].event
  <2>1. PICK y \in TargetSet : y = targets[i]
    BY <1>2
  <2>2. Entered(y.observer, y)
    BY <1>1, <1>2, <2>1 DEF TargetsKept
  <2>3. PICK o : o = y.observer
    OBVIOUS
  <2>4. /\ o \in Alive /\ observers[o].watched \in Living
        /\ y.index = IndexOf[observers[o].watched] /\ y.event = observers[o].event
    BY <2>2, <2>3 DEF Entered
  <2>5. y.index \in Nat /\ y.event \in Nat /\ y.observer \in Nat
    BY Keys
  <2>6. QED
    BY <2>1, <2>3, <2>4, <2>5
<1>4. QED
  BY <1>1, <1>2, <1>3 DEF TargetsKept

LEMMA EarsFacts ==
  DOMAIN Ears = Alive /\ \A o \in Alive : Ears[o] = observers[o]
  BY DEF Ears

(* A delivery at its next position                                          *)
LEMMA CallFields ==
  ASSUME NEW f \in FrameSet, NEW o \in Alive, o \in Nat, NEW g, g = Call(f, o), f.calling = None
  PROVE  /\ g \in FrameSet /\ g.table = f.table /\ g.entity = f.entity /\ g.event = f.event
         /\ g.todo = f.todo /\ g.stage = f.stage /\ g.count = f.count /\ g.source = f.source
         /\ g.late = f.late /\ g.at = f.at + 1
         /\ \/ observers[o].enabled /\ g.calling = o /\ g.due = f.due \ {o} /\ g.heard = Append(f.heard, o)
            \/ ~observers[o].enabled /\ g.calling = None /\ g.due = f.due /\ g.heard = f.heard
<1>1. observers[o].alive
  BY DEF Alive, IsAlive
<1>2. CASE observers[o].enabled
  <2>1. g = [f EXCEPT !.at = f.at + 1, !.calling = o, !.due = f.due \ {o}, !.heard = Append(f.heard, o)]
    BY <1>1, <1>2 DEF Call
  <2>2. f.at + 1 \in Nat \ {0} /\ Append(f.heard, o) \in Seq(Nat) /\ f.due \ {o} \subseteq Nat
    BY FrameFields
  <2>3. PICK a \in Nat \ {0}, d \in SUBSET Nat, h \in Seq(Nat) :
           a = f.at + 1 /\ d = f.due \ {o} /\ h = Append(f.heard, o)
    BY <2>2
  <2>4. g = [f EXCEPT !.at = a, !.calling = o, !.due = d, !.heard = h]
    BY <2>1, <2>3
  <2>5. /\ g \in FrameSet /\ g.table = f.table /\ g.entity = f.entity /\ g.event = f.event
        /\ g.todo = f.todo /\ g.stage = f.stage /\ g.count = f.count /\ g.source = f.source
        /\ g.late = f.late /\ g.at = a /\ g.calling = o /\ g.due = d /\ g.heard = h
    BY ONLY f \in FrameSet, o \in Nat, a \in Nat \ {0}, d \in SUBSET Nat, h \in Seq(Nat), <2>4 DEF FrameSet
  <2>6. QED
    BY <1>2, <2>3, <2>5
<1>3. CASE ~observers[o].enabled
  <2>1. g = [f EXCEPT !.at = f.at + 1]
    BY <1>3 DEF Call
  <2>2. f.at + 1 \in Nat \ {0}
    BY FrameFields
  <2>3. QED
    BY <1>3, <2>1, <2>2 DEF FrameSet
<1>4. QED
  BY <1>2, <1>3

Settled ==
  Typed /\ RecordsAgree /\ BasesAbstract /\ HavingExact /\ QueriesExact /\ Registry /\ ListsTyped /\ ListsKept

Standing(f, rank) ==
  /\ FrameTyped(f, Tables, Living, BasesInUse)
  /\ Orderly(f, listening[f.table][f.event], targets, Ears, BasesInUse, Bases, rank)

(* The list of a delivery, and who is in it                                 *)
LEMMA ListFacts ==
  ASSUME Settled, NEW f, FrameTyped(f, Tables, Living, BasesInUse)
  PROVE  LET list == listening[f.table][f.event] IN
         /\ list \in Seq(Nat) /\ Len(list) \in Nat /\ DOMAIN list = 1..Len(list) /\ NoRepeat(list)
         /\ \A i \in 1..Len(list) : list[i] \in Alive /\ observers[list[i]].watched = None /\ list[i] \in Nat
         /\ \A o \in Range(list) : o \in Alive /\ observers[o].watched = None
<1> DEFINE list == listening[f.table][f.event]
<1>1. f.table \in Tables /\ f.event \in Events
  BY FrameFields DEF FrameTyped
<1>2. list \in Seq(Nat) /\ Len(list) \in Nat /\ DOMAIN list = 1..Len(list)
  BY <1>1, ListsFacts DEF Settled
<1>3. NoRepeat(list) /\ Range(list) = Listeners(f.table, f.event)
  BY <1>1 DEF Settled, ListsKept
<1>4. \A o \in Range(list) : o \in Alive /\ Global(o)
  BY <1>3 DEF Listeners, Globals
<1>5. \A o \in Range(list) : o \in Alive /\ observers[o].watched = None
  BY <1>4, GlobalOrTargeted DEF Settled, Registry
<1> HIDE DEF list
<1>6. \A i \in 1..Len(list) : list[i] \in Range(list) /\ list[i] \in Nat
  BY <1>2 DEF Range
<1>7. QED
  BY <1>2, <1>3, <1>5, <1>6 DEF list

(* What a step to the next position of a walk may change                    *)
Called(f, g, o) ==
  /\ g.table = f.table /\ g.entity = f.entity /\ g.event = f.event /\ g.stage = f.stage
  /\ g.count = f.count /\ g.source = f.source /\ g.late = f.late /\ g.at = f.at + 1
  /\ g.calling \in {None, o} /\ g.heard \in {f.heard, Append(f.heard, o)}

(* An observer that is called has not been called.                          *)
LEMMA HeardOnce ==
  ASSUME NEW f \in FrameSet, NEW g \in FrameSet, NEW o \in Nat, Called(f, g, o),
         NoRepeat(f.heard), o \notin Range(f.heard)
  PROVE  NoRepeat(g.heard) /\ \A h \in Range(g.heard) : h \in Range(f.heard) \/ h = o
<1>1. f.heard \in Seq(Nat)
  BY FrameFields
<1>2. CASE g.heard = f.heard
  BY <1>2
<1>3. CASE g.heard = Append(f.heard, o)
  <2>1. PICK s \in Seq(Nat) : s = f.heard
    BY <1>1
  <2>2. NoRepeat(Append(s, o)) /\ Range(Append(s, o)) = Range(s) \cup {o}
    BY <2>1, AppendDistinct
  <2>3. QED
    BY <1>3, <2>1, <2>2
<1>4. QED
  BY <1>2, <1>3 DEF Called

LEMMA NextInList ==
  ASSUME NEW f \in FrameSet, NEW g \in FrameSet, NEW list \in Seq(Nat), NoRepeat(list),
         NEW at \in Nat \ {0}, at = f.at, NEW count \in Nat, count = f.count, at <= count,
         NEW o \in Nat, o = list[at], f.stage = "list", Called(f, g, o), ListWalk(f, list), NoRepeat(f.heard)
  PROVE  ListWalk(g, list) /\ NoRepeat(g.heard)
<1>1. /\ f.source = f.entity /\ count <= Len(list) /\ Len(list) \in Nat /\ DOMAIN list = 1..Len(list)
      /\ \A i \in 1..count : list[i] \notin f.late
      /\ \A h \in Range(f.heard) : \E i \in 1..(at - 1) : list[i] = h
  BY DEF ListWalk
<1>2. o \notin Range(f.heard)
  <2>1. SUFFICES ASSUME NEW i \in 1..(at - 1), list[i] = list[at] PROVE FALSE
    BY <1>1
  <2>2. i \in 1..Len(list) /\ at \in 1..Len(list) /\ i # at
    <3>1. count <= Len(list) /\ Len(list) \in Nat
      BY <1>1
    <3>2. QED
      BY ONLY <2>1, <3>1, at \in Nat \ {0}, count \in Nat, at <= count
  <2>3. QED
    BY <1>1, <2>1, <2>2 DEF NoRepeat
<1>3. NoRepeat(g.heard) /\ \A h \in Range(g.heard) : h \in Range(f.heard) \/ h = o
  BY <1>2, HeardOnce
<1>4. \A h \in Range(g.heard) : \E i \in 1..at : list[i] = h
  <2>1. SUFFICES ASSUME NEW h \in Range(g.heard) PROVE \E i \in 1..at : list[i] = h
    OBVIOUS
  <2>2. CASE h = o
    <3>1. at \in 1..at
      OBVIOUS
    <3>2. QED
      BY ONLY <2>2, <3>1, o = list[at]
  <2>3. CASE h \in Range(f.heard)
    <3>1. PICK i \in 1..(at - 1) : list[i] = h
      BY <1>1, <2>3
    <3>2. i \in 1..at
      BY <3>1
    <3>3. QED
      BY <3>1, <3>2
  <2>4. QED
    BY <1>3, <2>2, <2>3
<1>5. /\ g.stage = "list" /\ g.source = g.entity /\ g.count = count /\ g.late = f.late
      /\ g.at = at + 1 /\ g.calling \in {None, o}
  BY <1>1, Zenon DEF Called
<1>6. at + 1 <= count + 1 /\ at + 1 > 1 /\ (at + 1) - 1 = at
  OBVIOUS
<1>7. /\ g.count <= Len(list) /\ g.at <= g.count + 1
      /\ \A i \in 1..g.count : list[i] \notin g.late
      /\ \A h \in Range(g.heard) : \E i \in 1..(g.at - 1) : list[i] = h
      /\ g.calling # None => g.at > 1 /\ g.calling = list[g.at - 1]
  BY <1>1, <1>4, <1>5, <1>6
<1>8. QED
  BY <1>3, <1>5, <1>7 DEF ListWalk

(* What a call leaves due: not the observer it called, if it is enabled.     *)
StillAhead(f, g, o, ears) ==
  \A p \in g.due : p \in f.due /\ (p = o => ~ears[o].enabled)

LEMMA AheadInList ==
  ASSUME NEW f \in FrameSet, NEW g \in FrameSet, NEW list \in Seq(Nat), NEW T, NEW ears, NEW up,
         NEW at \in Nat \ {0}, at = f.at, NEW count \in Nat, count = f.count, at <= count,
         NEW o \in Nat, o = list[at], f.stage = "list", Called(f, g, o), StillAhead(f, g, o, ears),
         AllAhead(f, list, T, ears, up)
  PROVE  AllAhead(g, list, T, ears, up)
<1>1. SUFFICES ASSUME NEW p \in g.due
               PROVE  p \in DOMAIN ears /\ ears[p].enabled /\ Ahead(g, p, list, T, ears, up)
  BY DEF AllAhead
<1>2. p \in DOMAIN ears /\ ears[p].enabled /\ Ahead(f, p, list, T, ears, up) /\ p # o
  BY DEF StillAhead, AllAhead
<1>3. g.stage = "list" /\ g.entity = f.entity /\ g.event = f.event /\ g.count = count /\ g.at = at + 1
  BY DEF Called
<1>4. CASE ears[p].watched = None
  <2>1. PICK i \in at..count : list[i] = p
    BY <1>2, <1>4 DEF Ahead
  <2>2. i # at
    BY <1>2, <2>1
  <2>3. i \in (at + 1)..count
    BY <2>2
  <2>4. QED
    BY <1>2, <1>3, <1>4, <2>1, <2>3 DEF Ahead
<1>5. CASE ears[p].watched # None
  BY <1>2, <1>3, <1>5 DEF Ahead
<1>6. QED
  BY <1>4, <1>5, <1>2

(* A call, of an observer that is alive                                     *)
LEMMA CallIs ==
  ASSUME NEW f, FrameTyped(f, Tables, Living, BasesInUse), f.calling = None,
         NEW o \in Alive, o \in Nat, NEW g, g = Call(f, o)
  PROVE  /\ FrameTyped(g, Tables, Living, BasesInUse) /\ f \in FrameSet /\ g \in FrameSet
         /\ Called(f, g, o) /\ StillAhead(f, g, o, Ears)
<1>1. f \in FrameSet
  BY DEF FrameTyped
<1>2. /\ g \in FrameSet /\ g.table = f.table /\ g.entity = f.entity /\ g.event = f.event
      /\ g.todo = f.todo /\ g.stage = f.stage /\ g.count = f.count /\ g.source = f.source
      /\ g.late = f.late /\ g.at = f.at + 1
      /\ \/ observers[o].enabled /\ g.calling = o /\ g.due = f.due \ {o} /\ g.heard = Append(f.heard, o)
         \/ ~observers[o].enabled /\ g.calling = None /\ g.due = f.due /\ g.heard = f.heard
  BY <1>1, CallFields
<1>3. Called(f, g, o)
  BY <1>2, Zenon DEF Called
<1>4. StillAhead(f, g, o, Ears)
  BY <1>2, EarsFacts, Zenon DEF StillAhead
<1>5. FrameTyped(g, Tables, Living, BasesInUse)
  BY <1>2, Zenon DEF FrameTyped
<1>6. QED
  BY <1>1, <1>2, <1>3, <1>4, <1>5

(* The observer at the position of a walk of a list                         *)
LEMMA CallInList ==
  ASSUME Settled, NEW f, NEW rank, Standing(f, rank), f.calling = None, f.stage = "list", f.at <= f.count,
         NEW g, g = Call(f, listening[f.table][f.event][f.at])
  PROVE  Standing(g, rank)
<1>1. PICK list : list = listening[f.table][f.event]
  OBVIOUS
<1>2. FrameTyped(f, Tables, Living, BasesInUse) /\ f \in FrameSet
  BY DEF Standing, FrameTyped
<1>3. /\ list \in Seq(Nat) /\ Len(list) \in Nat /\ NoRepeat(list)
      /\ \A i \in 1..Len(list) : list[i] \in Alive /\ list[i] \in Nat
  BY <1>1, <1>2, ListFacts
<1>4. PICK at \in Nat \ {0}, count \in Nat : at = f.at /\ count = f.count
  BY <1>2, FrameFields
<1>5. /\ ListWalk(f, list) /\ AllAhead(f, list, targets, Ears, Bases) /\ NoRepeat(f.heard)
      /\ count <= Len(list) /\ at <= count
  BY <1>1, <1>4 DEF Standing, Orderly, ListWalk
<1>6. PICK o \in Nat : o = list[at] /\ o \in Alive
  BY <1>3, <1>4, <1>5
<1>7. g = Call(f, o)
  BY <1>1, <1>4, <1>6
<1>8. /\ FrameTyped(g, Tables, Living, BasesInUse) /\ g \in FrameSet
      /\ Called(f, g, o) /\ StillAhead(f, g, o, Ears)
  BY <1>2, <1>6, <1>7, CallIs
<1>9. ListWalk(g, list) /\ NoRepeat(g.heard)
  BY <1>2, <1>3, <1>4, <1>5, <1>6, <1>8, NextInList
<1>10. AllAhead(g, list, targets, Ears, Bases)
  BY <1>2, <1>3, <1>4, <1>5, <1>6, <1>8, AheadInList
<1>11. g.stage = "list" /\ g.table = f.table /\ g.event = f.event
  BY <1>8, Zenon DEF Called
<1>12. TargetWalk(g, list, targets, Ears, BasesInUse, rank)
  BY <1>11, Zenon DEF TargetWalk
<1>13. Orderly(g, list, targets, Ears, BasesInUse, Bases, rank)
  BY <1>9, <1>10, <1>11, <1>12, Zenon DEF Orderly
<1>14. QED
  BY <1>1, <1>8, <1>11, <1>13, Zenon DEF Standing

(* The walk of targeted observers begins at a source.                       *)
LEMMA ToSource ==
  ASSUME Settled, NEW f, NEW rank, Standing(f, rank), f.calling = None,
         NEW source \in Living, source \in {f.entity} \cup BasesInUse, NEW g, g = TargetStage(f, source),
         NEW list, list = listening[f.table][f.event],
         \A h \in Range(f.heard) :
           \/ h \in Range(list)
           \/ /\ h \in Alive /\ observers[h].watched \in Entities /\ source \in BasesInUse
              /\ rank[observers[h].watched] > rank[source],
         \A o \in f.due : /\ o \in Alive /\ observers[o].enabled /\ observers[o].watched # None
                          /\ observers[o].event = f.event /\ observers[o].watched \in {source} \cup Bases[source]
  PROVE  Standing(g, rank)
<1>1. FrameTyped(f, Tables, Living, BasesInUse) /\ f \in FrameSet
  BY DEF Standing, FrameTyped
<1>2. /\ targets \in Seq(TargetSet) /\ Sorted(targets) /\ Len(targets) \in Nat
      /\ \A i \in 1..Len(targets) :
           /\ targets[i].index \in Nat /\ targets[i].event \in Nat
           /\ targets[i].index = IndexOf[observers[targets[i].observer].watched]
           /\ targets[i].event = observers[targets[i].observer].event
      /\ \A o \in Alive : observers[o].watched # None => \E i \in 1..Len(targets) : targets[i].observer = o
  BY EntryFacts DEF Settled
<1>3. source \in Entities /\ IndexOf[source] \in Nat /\ f.event \in Nat /\ f.event \in Events
  BY <1>1, NoneNeverLives, EntitiesNumbered, EventsNumbered, FrameFields
<1>4. PICK index \in Nat, event \in Nat : index = IndexOf[source] /\ event = f.event
  BY <1>3
<1>5. PICK at \in 1..(Len(targets) + 1) :
        /\ at = LowerBound(index, event)
        /\ \A i \in 1..Len(targets) : i < at <=> Below(targets[i], index, event)
  BY <1>2, <1>4, LowerBoundIs
<1>6. /\ g \in FrameSet /\ g.table = f.table /\ g.entity = f.entity /\ g.event = f.event /\ g.stage = "targets"
      /\ g.at = at /\ g.count = Len(targets) /\ g.source = source /\ g.calling = None /\ g.due = f.due
      /\ g.heard = f.heard
  <2>1. g = [f EXCEPT !.stage = "targets", !.source = source, !.at = at, !.count = Len(targets)]
    BY <1>4, <1>5 DEF TargetStage
  <2>2. PICK n \in Nat : n = Len(targets)
    BY <1>2
  <2>3. at \in Nat \ {0}
    BY <1>2
  <2>4. g = [f EXCEPT !.stage = "targets", !.source = source, !.at = at, !.count = n]
    BY <2>1, <2>2
  <2>5. /\ g \in FrameSet /\ g.table = f.table /\ g.entity = f.entity /\ g.event = f.event /\ g.stage = "targets"
        /\ g.at = at /\ g.count = n /\ g.source = source /\ g.calling = f.calling /\ g.due = f.due
        /\ g.heard = f.heard
    BY ONLY <1>1, <1>3, <2>2, <2>3, <2>4 DEF FrameSet
  <2>6. QED
    BY <2>2, <2>5
<1>7. FrameTyped(g, Tables, Living, BasesInUse)
  BY <1>1, <1>6 DEF FrameTyped
<1>8. TargetWalk(g, list, targets, Ears, BasesInUse, rank)
  <2>1. ASSUME NEW h \in Range(f.heard) PROVE Passed(g, h, list, targets, Ears, BasesInUse, rank)
    BY <1>6, EarsFacts DEF Passed
  <2>2. at <= Len(targets) + 1
    BY <1>2
  <2>3. QED
    BY <1>4, <1>5, <1>6, <2>1, <2>2 DEF TargetWalk
<1>9. ASSUME NEW o \in g.due
      PROVE  o \in DOMAIN Ears /\ Ears[o].enabled /\ Ahead(g, o, list, targets, Ears, Bases)
  <2>1. /\ o \in Alive /\ observers[o].enabled /\ observers[o].watched # None
        /\ observers[o].event = f.event /\ observers[o].watched \in {source} \cup Bases[source]
    BY <1>6
  <2>2. Ears[o] = observers[o] /\ o \in DOMAIN Ears
    BY <2>1, EarsFacts
  <2>3. CASE observers[o].watched = source
    <3>1. PICK i \in 1..Len(targets) : targets[i].observer = o
      BY <1>2, <2>1
    <3>2. targets[i].index = index /\ targets[i].event = event
      BY <1>2, <1>4, <2>1, <2>3, <3>1
    <3>3. ~Below(targets[i], index, event)
      BY <3>2 DEF Below
    <3>4. i \in at..Len(targets)
      BY <1>2, <1>5, <3>3
    <3>5. QED
      BY <1>6, <2>1, <2>2, <2>3, <3>1, <3>4 DEF Ahead
  <2>4. CASE observers[o].watched \in Bases[source]
    BY <1>6, <2>1, <2>2, <2>4 DEF Ahead
  <2>5. QED
    BY <2>1, <2>3, <2>4
<1>10. Orderly(g, list, targets, Ears, BasesInUse, Bases, rank)
  <2>1. ListWalk(g, list) /\ NoRepeat(g.heard)
    BY <1>6 DEF ListWalk, Standing, Orderly
  <2>2. QED
    BY <1>6, <1>8, <1>9, <2>1 DEF Orderly, AllAhead
<1>11. QED
  BY <1>6, <1>7, <1>10 DEF Standing

(* The next entry of the observers of a source                              *)
LEMMA NextInTargets ==
  ASSUME NEW f \in FrameSet, NEW g \in FrameSet, NEW list, NEW T, NEW ears, NEW bases, NEW rank \in [Entities -> Nat],
         NEW n \in Nat, n = Len(T), NEW at \in Nat \ {0}, at = f.at, f.count = n, at <= n,
         \A i, j \in 1..n : T[i].observer = T[j].observer => i = j,
         NEW o \in Nat, o = T[at].observer, o \in DOMAIN ears, ears[o].watched = f.source, o \notin Range(list),
         f.stage = "targets", Called(f, g, o), TargetWalk(f, list, T, ears, bases, rank), NoRepeat(f.heard)
  PROVE  TargetWalk(g, list, T, ears, bases, rank) /\ NoRepeat(g.heard)
<1>1. f.source \in Entities /\ rank[f.source] \in Nat
  BY FrameFields
<1>2. /\ \A i \in 1..n : Below(T[i], IndexOf[f.source], f.event) => i < at
      /\ \A h \in Range(f.heard) : Passed(f, h, list, T, ears, bases, rank)
  BY DEF TargetWalk
<1>3. o \notin Range(f.heard)
  <2>1. SUFFICES ASSUME Passed(f, o, list, T, ears, bases, rank) PROVE FALSE
    BY <1>2
  <2>2. ~(rank[f.source] > rank[f.source])
    BY <1>1
  <2>3. PICK i \in 1..(at - 1) : T[i].observer = o
    BY <2>1, <2>2, Zenon DEF Passed
  <2>4. i \in 1..n /\ at \in 1..n /\ i # at
    OBVIOUS
  <2>5. QED
    BY <2>3, <2>4
<1>4. NoRepeat(g.heard) /\ \A h \in Range(g.heard) : h \in Range(f.heard) \/ h = o
  BY <1>3, HeardOnce
<1>5. /\ g.stage = "targets" /\ g.source = f.source /\ g.event = f.event /\ g.count = n
      /\ g.at = at + 1 /\ g.calling \in {None, o}
  BY Zenon DEF Called
<1>6. at <= n /\ at + 1 <= n + 1 /\ at + 1 > 1 /\ (at + 1) - 1 = at /\ at \in 1..at
  OBVIOUS
<1>7. ASSUME NEW h \in Range(g.heard) PROVE Passed(g, h, list, T, ears, bases, rank)
  <2>1. CASE h = o
    <3>1. \E i \in 1..(g.at - 1) : T[i].observer = o
      BY <1>5, <1>6
    <3>2. QED
      BY <1>1, <1>5, <2>1, <3>1, Zenon DEF Passed
  <2>2. CASE h \in Range(f.heard)
    <3>1. Passed(f, h, list, T, ears, bases, rank)
      BY <1>2, <2>2
    <3>2. (\E i \in 1..(f.at - 1) : T[i].observer = h) => \E i \in 1..(g.at - 1) : T[i].observer = h
      <4>1. SUFFICES ASSUME NEW i \in 1..(at - 1), T[i].observer = h
                     PROVE  \E j \in 1..(g.at - 1) : T[j].observer = h
        OBVIOUS
      <4>2. i \in 1..(g.at - 1)
        BY <1>5
      <4>3. QED
        BY <4>1, <4>2
    <3>3. QED
      BY <1>5, <3>1, <3>2, Zenon DEF Passed
  <2>3. QED
    BY <1>4, <2>1, <2>2
<1>8. \A i \in 1..n : Below(T[i], IndexOf[g.source], g.event) => i < g.at
  BY <1>2, <1>5
<1>9. g.calling # None => g.at > 1 /\ g.calling = T[g.at - 1].observer
  BY <1>5, <1>6
<1>10. g.count = Len(T) /\ g.at <= g.count + 1
  BY <1>5, <1>6
<1>11. QED
  BY <1>4, <1>7, <1>8, <1>9, <1>10 DEF TargetWalk

LEMMA AheadInTargets ==
  ASSUME NEW f \in FrameSet, NEW g \in FrameSet, NEW list, NEW T, NEW ears, NEW up,
         NEW at \in Nat \ {0}, at = f.at, NEW count \in Nat, count = f.count, at <= count,
         NEW o \in Nat, o = T[at].observer, f.stage = "targets", Called(f, g, o), StillAhead(f, g, o, ears),
         AllAhead(f, list, T, ears, up)
  PROVE  AllAhead(g, list, T, ears, up)
<1>1. SUFFICES ASSUME NEW p \in g.due
               PROVE  p \in DOMAIN ears /\ ears[p].enabled /\ Ahead(g, p, list, T, ears, up)
  BY DEF AllAhead
<1>2. p \in DOMAIN ears /\ ears[p].enabled /\ Ahead(f, p, list, T, ears, up) /\ p # o
  BY DEF StillAhead, AllAhead
<1>3. /\ g.stage = "targets" /\ g.entity = f.entity /\ g.event = f.event /\ g.count = count /\ g.at = at + 1
      /\ g.source = f.source
  BY Zenon DEF Called
<1>4. ears[p].watched # None /\ ears[p].event = f.event
  BY <1>2 DEF Ahead
<1>5. CASE ears[p].watched = f.source /\ \E i \in f.at..f.count : T[i].observer = p
  <2>1. PICK i \in at..count : T[i].observer = p
    BY <1>5
  <2>2. i # at
    BY <1>2, <2>1
  <2>3. i \in (at + 1)..count
    BY <2>2
  <2>4. QED
    BY <1>2, <1>3, <1>4, <1>5, <2>1, <2>3 DEF Ahead
<1>6. CASE ears[p].watched \in up[f.source]
  BY <1>2, <1>3, <1>4, <1>6 DEF Ahead
<1>7. QED
  BY <1>2, <1>4, <1>5, <1>6 DEF Ahead

LEMMA CallInTargets ==
  ASSUME Settled, NEW f, NEW rank, rank \in [Entities -> Nat], Standing(f, rank), f.calling = None,
         f.stage = "targets", Found(f), NEW g, g = Call(f, targets[f.at].observer)
  PROVE  Standing(g, rank)
<1>1. PICK list : list = listening[f.table][f.event]
  OBVIOUS
<1>2. FrameTyped(f, Tables, Living, BasesInUse) /\ f \in FrameSet /\ f.source \in Living
  BY DEF Standing, FrameTyped
<1>3. \A o \in Range(list) : o \in Alive /\ observers[o].watched = None
  BY <1>1, <1>2, ListFacts
<1>4. PICK n \in Nat : n = Len(targets)
  <2>1. Registry
    BY DEF Settled
  <2>2. Len(targets) \in Nat
    BY <2>1, EntryFacts
  <2>3. QED
    BY <2>2
<1>5. PICK at \in Nat \ {0} : at = f.at
  BY <1>2, FrameFields
<1>6. /\ TargetWalk(f, list, targets, Ears, BasesInUse, rank)
      /\ AllAhead(f, list, targets, Ears, Bases) /\ NoRepeat(f.heard)
  BY <1>1, Zenon DEF Standing, Orderly
<1>7. f.count = n /\ at <= n
  BY <1>4, <1>5, <1>6 DEF TargetWalk, Found
<1>8. /\ targets[at].observer \in Alive /\ targets[at].observer \in Nat
      /\ observers[targets[at].observer].watched \in Living
      /\ targets[at].index = IndexOf[observers[targets[at].observer].watched]
  BY <1>4, <1>7, EntryFacts DEF Settled
<1>9. PICK o \in Nat : o = targets[at].observer
  BY <1>8
<1>10. o \in Alive /\ observers[o].watched = f.source
  <2>1. targets[at].index = IndexOf[f.source]
    BY <1>5 DEF Found
  <2>2. IndexesApart
    BY DEF Settled, Registry
  <2>3. QED
    BY <1>2, <1>8, <1>9, <2>1, <2>2 DEF IndexesApart
<1>11. o \in DOMAIN Ears /\ Ears[o].watched = f.source /\ o \notin Range(list)
  BY <1>2, <1>3, <1>10, EarsFacts, FrameFields
<1>12. g = Call(f, o)
  BY <1>5, <1>9
<1>13. /\ FrameTyped(g, Tables, Living, BasesInUse) /\ g \in FrameSet
       /\ Called(f, g, o) /\ StillAhead(f, g, o, Ears)
  BY <1>2, <1>10, <1>12, CallIs
<1>14. \A i, j \in 1..n : targets[i].observer = targets[j].observer => i = j
  BY <1>4, EntryFacts DEF Settled
<1>15. TargetWalk(g, list, targets, Ears, BasesInUse, rank) /\ NoRepeat(g.heard)
  BY <1>2, <1>4, <1>5, <1>6, <1>7, <1>9, <1>11, <1>13, <1>14, NextInTargets
<1>16. AllAhead(g, list, targets, Ears, Bases)
  BY <1>2, <1>5, <1>6, <1>7, <1>9, <1>13, AheadInTargets
<1>17. g.stage = "targets" /\ g.table = f.table /\ g.event = f.event
  BY <1>13, Zenon DEF Called
<1>18. ListWalk(g, list)
  BY <1>17, Zenon DEF ListWalk
<1>19. Orderly(g, list, targets, Ears, BasesInUse, Bases, rank)
  BY <1>15, <1>16, <1>17, <1>18, Zenon DEF Orderly
<1>20. QED
  BY <1>1, <1>13, <1>17, <1>19, Zenon DEF Standing

(* A delivery with nobody left to call                                      *)
LEMMA Finishes ==
  ASSUME NEW f, NEW rank, Standing(f, rank), f.calling = None, f.due = {}, NEW g, g = [f EXCEPT !.stage = "done"]
  PROVE  Standing(g, rank)
<1>1. FrameTyped(f, Tables, Living, BasesInUse) /\ f \in FrameSet
  BY DEF Standing, FrameTyped
<1>2. /\ g \in FrameSet /\ g.table = f.table /\ g.entity = f.entity /\ g.event = f.event
      /\ g.stage = "done" /\ g.source = f.source /\ g.calling = None /\ g.due = {} /\ g.heard = f.heard
  BY <1>1 DEF FrameSet
<1>3. FrameTyped(g, Tables, Living, BasesInUse)
  BY <1>1, <1>2, Zenon DEF FrameTyped
<1>4. PICK list : list = listening[f.table][f.event]
  OBVIOUS
<1>5. NoRepeat(g.heard)
  BY <1>2, Zenon DEF Standing, Orderly
<1>6. ListWalk(g, list) /\ TargetWalk(g, list, targets, Ears, BasesInUse, rank)
  BY <1>2 DEF ListWalk, TargetWalk
<1>7. AllAhead(g, list, targets, Ears, Bases)
  BY <1>2 DEF AllAhead
<1>8. Orderly(g, list, targets, Ears, BasesInUse, Bases, rank)
  BY <1>2, <1>5, <1>6, <1>7, Zenon DEF Orderly
<1>9. QED
  BY <1>2, <1>3, <1>4, <1>8, Zenon DEF Standing

(* Those still due behind the entries of a source watch a base of it.        *)
LEMMA DueBeyond ==
  ASSUME Settled, NEW f, NEW rank, Standing(f, rank), f.stage = "targets", ~Found(f), NEW o \in f.due
  PROVE  /\ o \in Alive /\ observers[o].enabled /\ observers[o].watched # None
         /\ observers[o].event = f.event /\ observers[o].watched \in Bases[f.source]
<1>1. PICK list : list = listening[f.table][f.event]
  OBVIOUS
<1>2. FrameTyped(f, Tables, Living, BasesInUse) /\ f \in FrameSet
  BY DEF Standing, FrameTyped
<1>3. /\ TargetWalk(f, list, targets, Ears, BasesInUse, rank)
      /\ AllAhead(f, list, targets, Ears, Bases)
  BY <1>1, Zenon DEF Standing, Orderly
<1>4. o \in DOMAIN Ears /\ Ears[o].enabled /\ Ahead(f, o, list, targets, Ears, Bases)
  BY <1>3, Zenon DEF AllAhead
<1>5. o \in Alive /\ Ears[o] = observers[o]
  BY <1>4, EarsFacts
<1>6. /\ observers[o].watched # None /\ observers[o].event = f.event
      /\ \/ observers[o].watched = f.source /\ \E i \in f.at..f.count : targets[i].observer = o
         \/ observers[o].watched \in Bases[f.source]
  BY <1>4, <1>5 DEF Ahead
<1>7. ASSUME NEW i \in f.at..f.count, targets[i].observer = o, observers[o].watched = f.source PROVE FALSE
  <2>1. Registry
    BY DEF Settled
  <2>2. /\ Len(targets) \in Nat /\ DOMAIN targets = 1..Len(targets) /\ Sorted(targets)
        /\ \A j \in 1..Len(targets) :
             /\ targets[j].index \in Nat /\ targets[j].event \in Nat
             /\ targets[j].index = IndexOf[observers[targets[j].observer].watched]
             /\ targets[j].event = observers[targets[j].observer].event
    BY <2>1, EntryFacts
  <2>3. PICK n \in Nat : n = Len(targets)
    BY <2>2
  <2>4. PICK at \in Nat \ {0} : at = f.at
    BY <1>2, FrameFields
  <2>5. f.source \in Entities /\ f.event \in Events
    BY <1>2, FrameFields
  <2>6. PICK index \in Nat, event \in Nat : index = IndexOf[f.source] /\ event = f.event
    BY <2>5, EntitiesNumbered, EventsNumbered
  <2>7. f.count = n /\ \A j \in 1..n : Below(targets[j], index, event) => j < at
    BY <1>3, <2>3, <2>4, <2>6 DEF TargetWalk
  <2>8. ~(at <= n /\ targets[at].index = index /\ targets[at].event = event)
    BY <2>4, <2>6, <2>7 DEF Found
  <2>9. i \in at..n /\ i \in 1..n
    BY <2>4, <2>7
  <2>10. targets[i].index = index /\ targets[i].event = event
    BY <1>6, <1>7, <2>2, <2>3, <2>6, <2>9
  <2>11. \A j \in 1..n : targets[j].index \in Nat /\ targets[j].event \in Nat
    BY <2>2, <2>3
  <2>12. DOMAIN targets = 1..n /\ Sorted(targets)
    BY <2>2, <2>3
  <2>13. at \in 1..n /\ i \in 1..n /\ at < i
    <3>1. i # at
      BY <2>8, <2>9, <2>10
    <3>2. QED
      BY <2>9, <3>1
  <2>14. ~Below(targets[at], index, event) /\ ~Below(targets[i], targets[at].index, targets[at].event)
    BY <2>7, <2>12, <2>13 DEF Sorted
  <2>15. PICK x \in Nat, y \in Nat : x = targets[at].index /\ y = targets[at].event
    BY <2>11, <2>13
  <2>16. ~(x < index) /\ ~(x = index /\ y < event) /\ ~(index < x) /\ ~(index = x /\ event < y)
    BY <2>10, <2>14, <2>15 DEF Below
  <2>17. x = index /\ y = event
    BY <2>16
  <2>18. QED
    BY <2>8, <2>13, <2>15, <2>17
<1>8. QED
  BY <1>4, <1>5, <1>6, <1>7

(* The walk comes to the base of its source, or ends.                       *)
LEMMA SourceBehind ==
  ASSUME Settled, NEW f, NEW rank, Ranking(rank), Standing(f, rank), f.calling = None,
         f.stage = "targets", ~Found(f), NEW g,
         IF TypeOf(f.source).base # None THEN g = TargetStage(f, TypeOf(f.source).base)
         ELSE g = [f EXCEPT !.stage = "done"]
  PROVE  Standing(g, rank)
<1>1. PICK list : list = listening[f.table][f.event]
  OBVIOUS
<1>2. FrameTyped(f, Tables, Living, BasesInUse) /\ f \in FrameSet /\ f.source \in Living
  BY DEF Standing, FrameTyped
<1>3. Typed /\ BasesAbstract
  BY DEF Settled
<1>4. PICK base : base = TypeOf(f.source).base
  OBVIOUS
<1>5. /\ BasesInUse \subseteq Living /\ f.source \in Entities /\ base \in BasesInUse \cup {None}
      /\ base # None => Bases[f.source] \subseteq {base} \cup Bases[base]
      /\ base = None => Bases[f.source] = {}
      /\ base = Parent[f.source]
  BY <1>2, <1>3, <1>4, ParentFacts
<1>6. CASE base = None
  <2>1. f.due = {}
    BY <1>5, <1>6, DueBeyond
  <2>2. g = [f EXCEPT !.stage = "done"]
    BY <1>4, <1>6
  <2>3. QED
    BY <2>1, <2>2, Finishes
<1>7. CASE base # None
  <2>1. base \in BasesInUse /\ base \in Living /\ base \in Entities
    BY <1>5, <1>7, NoneNeverLives
  <2>2. g = TargetStage(f, base)
    BY <1>4, <1>7
  <2>3. \A o \in f.due :
          /\ o \in Alive /\ observers[o].enabled /\ observers[o].watched # None
          /\ observers[o].event = f.event /\ observers[o].watched \in {base} \cup Bases[base]
    BY <1>5, <1>7, DueBeyond
  <2>4. rank \in [Entities -> Nat] /\ rank[base] < rank[f.source]
    BY <1>2, <1>5, <1>7 DEF Ranking
  <2>5. PICK low \in Nat, high \in Nat : low = rank[base] /\ high = rank[f.source] /\ low < high
    BY <1>5, <2>1, <2>4
  <2>6. ASSUME NEW h \in Range(f.heard)
        PROVE  \/ h \in Range(list)
               \/ /\ h \in Alive /\ observers[h].watched \in Entities /\ base \in BasesInUse
                  /\ rank[observers[h].watched] > rank[base]
    <3>1. Passed(f, h, list, targets, Ears, BasesInUse, rank)
      BY <1>1, Zenon DEF Standing, Orderly, TargetWalk
    <3>2. CASE h \notin Range(list)
      <4>1. /\ h \in DOMAIN Ears /\ Ears[h].watched \in Entities
            /\ Ears[h].watched = f.source \/ rank[Ears[h].watched] > rank[f.source]
        BY <3>1, <3>2, Zenon DEF Passed
      <4>2. h \in Alive /\ Ears[h] = observers[h]
        BY <4>1, EarsFacts
      <4>3. PICK r \in Nat : r = rank[Ears[h].watched]
        BY <2>4, <4>1
      <4>4. r = high \/ r > high
        BY <2>5, <4>1, <4>3
      <4>5. r > low
        BY <2>5, <4>4
      <4>6. QED
        BY <2>1, <2>5, <4>1, <4>2, <4>3, <4>5
    <3>3. QED
      BY <3>2
  <2>7. QED
    BY <1>1, <2>1, <2>2, <2>3, <2>6, ToSource
<1>8. QED
  BY <1>6, <1>7

(* The walk of a list ends.                                                 *)
LEMMA ListBehind ==
  ASSUME Settled, NEW f, NEW rank, Standing(f, rank), f.calling = None,
         f.stage = "list", ~(f.at <= f.count), NEW g,
         IF HasTargets(f.event) THEN g = TargetStage(f, f.entity) ELSE g = [f EXCEPT !.stage = "done"]
  PROVE  Standing(g, rank)
<1>1. PICK list : list = listening[f.table][f.event]
  OBVIOUS
<1>2. FrameTyped(f, Tables, Living, BasesInUse) /\ f \in FrameSet /\ f.entity \in Living
  BY DEF Standing, FrameTyped
<1>3. ListWalk(f, list) /\ AllAhead(f, list, targets, Ears, Bases)
  BY <1>1, Zenon DEF Standing, Orderly
<1>4. PICK at \in Nat \ {0}, count \in Nat : at = f.at /\ count = f.count /\ ~(at <= count)
  BY <1>2, FrameFields
<1>5. list \in Seq(Nat) /\ Len(list) \in Nat /\ DOMAIN list = 1..Len(list)
  BY <1>1, <1>2, ListFacts
<1>6. ASSUME NEW h \in Range(f.heard) PROVE h \in Range(list)
  <2>1. PICK i \in 1..(at - 1) : list[i] = h
    BY <1>3, <1>4 DEF ListWalk
  <2>2. count <= Len(list) /\ at <= count + 1
    BY <1>3, <1>4 DEF ListWalk
  <2>3. i \in DOMAIN list
    BY <1>5, <2>2
  <2>4. QED
    BY <2>1, <2>3 DEF Range
<1>7. ASSUME NEW o \in f.due
      PROVE  /\ o \in Alive /\ observers[o].enabled /\ observers[o].watched # None
             /\ observers[o].event = f.event /\ observers[o].watched \in {f.entity} \cup Bases[f.entity]
  <2>1. o \in DOMAIN Ears /\ Ears[o].enabled /\ Ahead(f, o, list, targets, Ears, Bases)
    BY <1>3, Zenon DEF AllAhead
  <2>2. o \in Alive /\ Ears[o] = observers[o]
    BY <2>1, EarsFacts
  <2>3. f.at..f.count = {}
    BY <1>4
  <2>4. QED
    BY <2>1, <2>2, <2>3 DEF Ahead
<1>8. CASE HasTargets(f.event)
  <2>1. g = TargetStage(f, f.entity)
    BY <1>8
  <2>2. QED
    BY <1>1, <1>2, <1>6, <1>7, <2>1, ToSource
<1>9. CASE ~HasTargets(f.event)
  <2>1. ASSUME NEW o \in f.due PROVE FALSE
    <3>1. o \in Alive /\ observers[o].watched # None /\ observers[o].event = f.event
      BY <1>7
    <3>2. Registry
      BY DEF Settled
    <3>3. PICK i \in DOMAIN targets : targets[i].observer = o /\ targets[i].event = observers[targets[i].observer].event
      BY <3>1, <3>2, EntryFacts
    <3>4. QED
      BY <1>9, <3>1, <3>3 DEF HasTargets
  <2>2. f.due = {}
    BY <2>1
  <2>3. g = [f EXCEPT !.stage = "done"]
    BY <1>9
  <2>4. QED
    BY <2>2, <2>3, Finishes
<1>10. QED
  BY <1>8, <1>9

(* Whatever the innermost delivery does next, it stays in order.             *)
LEMMA GoesOn ==
  ASSUME Settled, NEW f, NEW rank, Ranking(rank), Standing(f, rank), f.calling = None, NEW g, Goes(f, g)
  PROVE  Standing(g, rank)
<1>1. rank \in [Entities -> Nat]
  BY DEF Ranking
<1>2. CASE f.stage = "list" /\ f.at <= f.count /\ g = Call(f, listening[f.table][f.event][f.at])
  BY <1>2, CallInList
<1>3. CASE f.stage = "targets" /\ Found(f) /\ g = Call(f, targets[f.at].observer)
  BY <1>1, <1>3, CallInTargets
<1>4. CASE f.stage = "list" /\ ~(f.at <= f.count)
  <2>1. IF HasTargets(f.event) THEN g = TargetStage(f, f.entity) ELSE g = [f EXCEPT !.stage = "done"]
    BY <1>4, Zenon DEF Goes
  <2>2. QED
    BY <1>4, <2>1, ListBehind
<1>5. CASE f.stage = "targets" /\ ~Found(f)
  <2>1. IF TypeOf(f.source).base # None THEN g = TargetStage(f, TypeOf(f.source).base)
        ELSE g = [f EXCEPT !.stage = "done"]
    BY <1>5, Zenon DEF Goes
  <2>2. QED
    BY <1>5, <2>1, SourceBehind
<1>6. QED
  BY <1>2, <1>3, <1>4, <1>5, Zenon DEF Goes

-----------------------------------------------------------------------------
(* What code of the user leaves of what deliveries walk. *)

(* The lists that are walked only grow, behind the part that is walked.      *)
LEMMA ListsHeld ==
  ASSUME Typed, Typed', RecordsAgree, Registry, ListsTyped, UserStep, EndInCallback = FALSE,
         NEW t \in Tables, NEW ev \in Events, \E f \in Range(frames) : f.table = t /\ f.event = ev
  PROVE  Extends(listening[t][ev], listening'[t][ev])
<1>1. PICK list \in Seq(Nat) : list = listening[t][ev]
  BY ListsFacts
<1>2. Len(list) \in Nat /\ Extends(list, list)
  BY DEF Extends
<1>3. listening' = listening => Extends(list, listening'[t][ev])
  BY <1>1, <1>2
<1>4. ASSUME NEW e \in Entities,
             \/ New(e) /\ Quietly
             \/ \E c \in Comps \cup {Abstract} : AddComp(e, c) /\ Loudly(e)
             \/ \E b \in Entities : IsA(e, b) /\ Loudly(e)
      PROVE  Extends(list, listening'[t][ev])
  <2>1. observers' = observers /\ ListsFollow
    BY <1>4 DEF Quietly, Loudly
  <2>2. \/ New(e) \/ \E c \in Comps \cup {Abstract} : AddComp(e, c) \/ \E b \in Entities : IsA(e, b)
    BY <1>4
  <2>3. listening'[t] = listening[t]
    BY <2>1, <2>2, TablesGrow, ListsFollowed
  <2>4. QED
    BY <1>1, <1>2, <2>3
<1>5. ASSUME NEW e \in Entities, KillEntity(e) PROVE Extends(list, listening'[t][ev])
  BY <1>3, <1>5 DEF KillEntity
<1>6. ASSUME NEW e \in Entities, NEW event \in Events, Trigger(e, event) \/ ObserveOne(event, e)
      PROVE  Extends(list, listening'[t][ev])
  BY <1>3, <1>6 DEF Trigger, ObserveOne, observerVars
<1>7. ASSUME NEW event \in Events, NEW shape \in Shapes, ObserveAll(event, shape)
      PROVE  Extends(list, listening'[t][ev])
  <2>1. PICK new : new = Slot
    OBVIOUS
  <2>2. DOMAIN observers' = DOMAIN observers \cup {new}
    BY <1>7, <2>1, RegistryObserveAll
  <2>3. new \in Nat
    BY <2>1, SlotUnused DEF Registry
  <2>4. PICK s : s = Last(active')
    OBVIOUS
  <2>5. listening'[t][ev] = list \/ listening'[t][ev] = Append(list, new)
    <3>1. \A u \in Tables, v \in Events :
            listening'[u][v] =
              IF v = event /\ \E i \in DOMAIN queries'[s].cache : queries'[s].cache[i].id = u
              THEN Append(listening[u][v], new) ELSE listening[u][v]
      BY <1>7, <2>1, <2>2, <2>3, <2>4, ListsObserveAll
    <3>2. QED
      BY <1>1, <3>1
  <2>6. Extends(list, Append(list, new))
    BY <2>3 DEF Extends
  <2>7. QED
    BY <1>2, <2>5, <2>6
<1>8. ASSUME NEW o \in DOMAIN observers, ObserverFini(o) PROVE Extends(list, listening'[t][ev])
  <2>1. CASE ~Global(o)
    BY <1>3, <1>8, <2>1, RegistryFini
  <2>2. CASE Global(o)
    <3>1. o \notin Range(list)
      BY <1>1, <1>8, <2>2 DEF ObserverFini
    <3>2. \A i \in 1..Len(list) : list[i] # o
      BY <3>1 DEF Range
    <3>3. RemoveFirst(list, o) = list
      BY <3>2, NothingRemoved
    <3>4. o \in Alive /\ DOMAIN observers' = DOMAIN observers /\ observers[o].event \in Events
      BY <1>8, RegistryFini, AliveFacts DEF Registry
    <3>5. listening'[t][ev] = list \/ listening'[t][ev] = RemoveFirst(list, o)
      BY <1>1, <1>8, <2>2, <3>4, ListsFini
    <3>6. QED
      BY <1>2, <3>3, <3>5
  <2>3. QED
    BY <2>1, <2>2
<1>9. ASSUME NEW o \in DOMAIN observers, NEW on \in BOOLEAN, SetEnabled(o, on)
      PROVE  Extends(list, listening'[t][ev])
  BY <1>3, <1>9 DEF SetEnabled
<1>10. QED
  BY <1>1, <1>4, <1>5, <1>6, <1>7, <1>8, <1>9 DEF UserStep

(* While targeted observers are walked none comes or goes.                  *)
Targeted(o) == observers[o].watched # None

LEMMA TargetsHeld ==
  ASSUME Typed, Typed', RecordsAgree, Registry, UserStep, EndInCallback = FALSE, InTargets
  PROVE  /\ targets' = targets
         /\ \A o \in Alive : Targeted(o) => o \in Alive' /\ observers'[o].watched = observers[o].watched
<1> DEFINE Goal == /\ targets' = targets
                   /\ \A o \in Alive : Targeted(o) => o \in Alive' /\ observers'[o].watched = observers[o].watched
<1>1. ASSUME UNCHANGED <<observers, targets>> PROVE Goal
  <2>1. Alive' = Alive
    BY <1>1 DEF Alive, IsAlive
  <2>2. QED
    BY <1>1, <2>1
<1>2. ASSUME NEW e \in Entities,
             \/ New(e) /\ Quietly
             \/ \E c \in Comps \cup {Abstract} : AddComp(e, c) /\ Loudly(e)
             \/ \E b \in Entities : IsA(e, b) /\ Loudly(e)
      PROVE  Goal
  BY <1>1, <1>2 DEF Quietly, Loudly
<1>3. ASSUME NEW e \in Entities, KillEntity(e) PROVE Goal
  <2>1. targets' = targets
    BY <1>3 DEF KillEntity
  <2>2. Registry'
    BY <1>3, RegistryKill
  <2>3. \A o \in Alive : observers[o].watched # e => o \in Alive' /\ observers'[o] = observers[o]
    BY <1>3, RegistryKill
  <2>4. ASSUME NEW o \in Alive, observers[o].watched = e PROVE FALSE
    <3>1. e # None
      BY EntitiesNumbered DEF None
    <3>2. PICK i \in DOMAIN targets : targets[i].observer = o
      BY <2>4, <3>1, EntryFacts
    <3>3. TargetsKept'
      BY <2>2 DEF Registry
    <3>4. i \in DOMAIN targets' /\ targets'[i].observer = o
      BY <2>1, <3>2
    <3>5. o \in Alive'
      BY <3>3, <3>4 DEF TargetsKept, Entered
    <3>6. QED
      BY <1>3, <2>4, <3>5, RegistryKill
  <2>5. QED
    BY <2>1, <2>3, <2>4
<1>4. ASSUME NEW e \in Entities, NEW event \in Events, Trigger(e, event) PROVE Goal
  BY <1>1, <1>4 DEF Trigger, observerVars
<1>5. ASSUME NEW e \in Entities, NEW event \in Events, ObserveOne(event, e) PROVE Goal
  BY <1>5 DEF ObserveOne
<1>6. ASSUME NEW event \in Events, NEW shape \in Shapes, ObserveAll(event, shape) PROVE Goal
  <2>1. targets' = targets
    BY <1>6 DEF ObserveAll
  <2>2. \A o \in Alive : o \in Alive' /\ observers'[o] = observers[o]
    BY <1>6, RegistryObserveAll
  <2>3. QED
    BY <2>1, <2>2
<1>7. ASSUME NEW o \in DOMAIN observers, ObserverFini(o) PROVE Goal
  <2>1. o \in Alive /\ \A p \in Alive \ {o} : p \in Alive' /\ observers'[p] = observers[p]
    BY <1>7, RegistryFini
  <2>2. Global(o)
    BY <1>7 DEF ObserverFini, InTargets
  <2>3. targets' = targets
    BY <1>7, <2>2 DEF ObserverFini, Leave
  <2>4. ~Targeted(o)
    BY <2>1, <2>2, GlobalOrTargeted DEF Registry, Targeted
  <2>5. QED
    BY <2>1, <2>3, <2>4
<1>8. ASSUME NEW o \in DOMAIN observers, NEW on \in BOOLEAN, SetEnabled(o, on) PROVE Goal
  <2>1. targets' = targets
    BY <1>8 DEF SetEnabled
  <2>2. Alive' = Alive /\ \A p \in Alive : observers'[p].watched = observers[p].watched
    BY <1>8, RegistryEnabled
  <2>3. QED
    BY <2>1, <2>2
<1>9. QED
  BY <1>2, <1>3, <1>4, <1>5, <1>6, <1>7, <1>8 DEF UserStep

(* The entities whose events are being delivered live on.                   *)
LEMMA EntitiesHeld ==
  ASSUME Typed, RecordsAgree, FramesTyped, UserStep, NEW i \in DOMAIN frames
  PROVE  frames[i].entity \in Living'
<1>1. PICK x : x = frames[i].entity
  OBVIOUS
<1>2. x \in Living /\ frames[i] \in Range(frames)
  BY <1>1 DEF FramesTyped, FrameTyped, Range
<1>3. place' = place => x \in Living'
  BY <1>2 DEF Living
<1>4. ASSUME NEW e \in Entities,
             \/ New(e) /\ Quietly
             \/ \E c \in Comps \cup {Abstract} : AddComp(e, c) /\ Loudly(e)
             \/ \E b \in Entities : IsA(e, b) /\ Loudly(e)
      PROVE  x \in Living'
  BY <1>2, <1>4, LivingAfter
<1>5. ASSUME NEW e \in Entities, KillEntity(e) PROVE x \in Living'
  <2>1. e \notin Walked /\ Kill(e)
    BY <1>5 DEF KillEntity
  <2>2. x # e
    BY <1>1, <1>2, <2>1 DEF Walked
  <2>3. QED
    BY <1>2, <2>1, <2>2, LivingAfter
<1>6. ASSUME NEW e \in Entities, NEW event \in Events, Trigger(e, event) \/ ObserveOne(event, e)
      PROVE  x \in Living'
  BY <1>3, <1>6 DEF Trigger, ObserveOne, tableVars
<1>7. ASSUME NEW event \in Events, NEW shape \in Shapes, ObserveAll(event, shape) PROVE x \in Living'
  BY <1>3, <1>7 DEF ObserveAll, tableVars
<1>8. ASSUME NEW o \in DOMAIN observers, NEW on \in BOOLEAN, ObserverFini(o) \/ SetEnabled(o, on)
      PROVE  x \in Living'
  BY <1>3, <1>8 DEF ObserverFini, SetEnabled, tableVars
<1>9. QED
  BY <1>1, <1>4, <1>5, <1>6, <1>7, <1>8 DEF UserStep

-----------------------------------------------------------------------------
(* Entities and their bases. *)

(* What a step that moves at most e in the hierarchy leaves                  *)
Moves(e) ==
  /\ e \notin BasesInUse /\ BasesInUse \subseteq BasesInUse' /\ \A t \in Tables : t \in Tables'
  /\ \A x \in Entities \ {e} : Parent'[x] = Parent[x] /\ (x \in Living' <=> x \in Living)
  /\ e \in Entities => Parent'[e] # e
  /\ \A x \in Living : Parent'[x] = Parent[x] => Bases'[x] = Bases[x]

LEMMA MovesIf ==
  ASSUME Typed, Typed', BasesAbstract, NEW e, e \notin BasesInUse, OthersStay(e),
         e \in Entities => TypeOf(e)'.base # e
  PROVE  Moves(e)
<1>1. /\ \A t \in Tables : t \in Tables' /\ types'[t] = types[t]
      /\ \A x \in Entities \ {e} : TypeOf(x)' = TypeOf(x) /\ place'[x].table = place[x].table
  BY DEF OthersStay
<1>2. BasesInUse \subseteq BasesInUse'
  BY <1>1 DEF BasesInUse
<1>3. \A x \in Entities : Parent'[x] = TypeOf(x)'.base /\ Parent[x] = TypeOf(x).base
  BY DEF Parent
<1>4. Closed(BasesInUse) /\ \A x \in BasesInUse : TypeOf(x)' = TypeOf(x)
  BY <1>1, BasesFacts DEF BasesAbstract, Closed
<1>5. ASSUME NEW x \in Living, Parent'[x] = Parent[x] PROVE Bases'[x] = Bases[x]
  <2>1. PICK b : b = Parent[x]
    OBVIOUS
  <2>2. b \in BasesInUse \cup {None} /\ x \in Entities
    BY <2>1, ParentFacts
  <2>3. Line(b)' = Line(b)
    <3>1. \A y \in Lineage(b) : TypeOf(y)' = TypeOf(y)
      BY <1>4, <2>2, ClosedLines
    <3>2. b \in Entities \cup {None}
      BY <2>2, BasesFacts
    <3>3. QED
      BY <3>1, <3>2, LineStays
  <2>4. Lineage(b)' = Lineage(b)
    BY <2>3 DEF Lineage
  <2>5. TypeOf(x)'.base = b
    BY <1>3, <1>5, <2>1, <2>2
  <2>6. Bases'[x] = (Lineage(TypeOf(x).base))'
    BY <2>2 DEF Bases
  <2>7. (Lineage(TypeOf(x).base))' = Lineage(b)'
    BY <2>5 DEF Lineage, Line
  <2>8. Bases[x] = Lineage(b)
    BY <2>1, ParentFacts
  <2>9. QED
    BY <2>4, <2>6, <2>7, <2>8
<1>6. \A x \in Entities \ {e} : Parent'[x] = Parent[x] /\ (x \in Living' <=> x \in Living)
  BY <1>1, <1>3 DEF Living
<1>7. QED
  BY <1>1, <1>2, <1>3, <1>5, <1>6 DEF Moves

LEMMA HierarchyMoves ==
  ASSUME Typed, Typed', RecordsAgree, BasesAbstract, [Next]_vars, {"die", "change"} \cap BaseHazards = {}
  PROVE  \E e : Moves(e)
<1>1. None \notin BasesInUse /\ None \notin Entities
  BY EntitiesNumbered DEF BasesInUse
<1>2. ASSUME UNCHANGED <<types, place>> PROVE \E e : Moves(e)
  <2>1. OthersStay(None)
    BY <1>2 DEF OthersStay, TypeOf, Living, Tables
  <2>2. QED
    BY <1>1, <2>1, MovesIf
<1>3. ASSUME NEW e \in Entities, New(e) PROVE \E x : Moves(x)
  <2>1. OthersStay(e) /\ e \notin Living /\ TypeOf(e)' = types[Root]
    BY <1>3, NewTyped
  <2>2. e \notin BasesInUse
    BY <2>1 DEF BasesAbstract
  <2>3. types[Root].base # e
    BY <1>1, <2>2, BasesFacts, TypedFacts
  <2>4. QED
    BY <2>1, <2>2, <2>3, MovesIf
<1>4. ASSUME NEW e \in Entities, Kill(e) PROVE \E x : Moves(x)
  <2>1. OthersStay(e) /\ ~Inherited(e)
    BY <1>4, KillTyped DEF Kill
  <2>2. e \notin BasesInUse
    BY <2>1, BasesFacts
  <2>3. e \notin Living'
    BY <1>4, LivingAfter
  <2>4. TypeOf(e)'.base = None
    BY <2>3 DEF TypeOf
  <2>5. QED
    BY <1>1, <2>1, <2>2, <2>4, MovesIf
<1>5. ASSUME NEW e \in Entities,
             \/ IsNot(e) \/ AddComp(e, Abstract)
             \/ \E c \in Comps : AddComp(e, c) \/ RemoveComp(e, c)
             \/ \E c \in Entities : IsA(e, c)
      PROVE  \E x : Moves(x)
  <2>1. e \notin BasesInUse
    <3>1. Abstract \notin TypeOf(e).comps \/ ~Inherited(e)
      BY <1>5 DEF IsNot, AddComp, RemoveComp, IsA, MayChange
    <3>2. QED
      BY <3>1, BasesFacts DEF BasesAbstract
  <2>2. e \in Living /\ \E type \in TypeSet :
          /\ ChangeType(e, type)
          /\ \/ type.base \in {None, TypeOf(e).base}
             \/ type.base \in Living /\ e \notin Lineage(type.base)
    <3> DEFINE Shifted == e \in Living /\ \E type \in TypeSet :
                 /\ ChangeType(e, type)
                 /\ \/ type.base \in {None, TypeOf(e).base}
                    \/ type.base \in Living /\ e \notin Lineage(type.base)
    <3>1. ASSUME NEW c \in Comps \cup {Abstract}, AddComp(e, c) PROVE Shifted
      BY <3>1, OperationTypes
    <3>2. ASSUME NEW c \in Comps, RemoveComp(e, c) PROVE Shifted
      BY <3>2, OperationTypes
    <3>3. ASSUME NEW b \in Entities, IsA(e, b) PROVE Shifted
      BY <3>3, OperationTypes
    <3>4. ASSUME IsNot(e) PROVE Shifted
      BY <3>4, OperationTypes
    <3>5. QED
      BY <1>5, <3>1, <3>2, <3>3, <3>4
  <2>3. PICK type \in TypeSet :
          /\ ChangeType(e, type)
          /\ \/ type.base \in {None, TypeOf(e).base}
             \/ type.base \in Living /\ e \notin Lineage(type.base)
    BY <2>2
  <2>4. OthersStay(e) /\ TypeOf(e)' = type
    BY <2>2, <2>3, ChangeTypeTyped
  <2>5. type.base # e
    <3>1. e # None /\ TypeOf(e).base # e
      BY <1>1, <2>1, <2>2, BasesFacts
    <3>2. e \in Lineage(e)
      <4>1. Closed(Living)
        BY BasesFacts DEF Closed, BasesAbstract
      <4>2. QED
        BY <2>2, <3>1, <4>1, ClosedLines
    <3>3. QED
      BY <2>3, <3>1, <3>2
  <2>6. QED
    BY <2>1, <2>4, <2>5, MovesIf
<1>6. ASSUME NEW shape \in Shapes, CreateQuery(shape) PROVE \E e : Moves(e)
  BY <1>2, <1>6 DEF CreateQuery, tableVars
<1>7. ASSUME NEW s \in DOMAIN queries, FiniQuery(s) PROVE \E e : Moves(e)
  BY <1>2, <1>7 DEF FiniQuery, tableVars
<1>8. ASSUME UNCHANGED vars PROVE \E e : Moves(e)
  BY <1>2, <1>8 DEF vars
<1>9. QED
  BY <1>3, <1>4, <1>5, <1>6, <1>7, <1>8 DEF Next

ParentsKnown == \A x \in Living : Parent[x] # None => Parent[x] \in Entities

LEMMA ParentsKnow == Typed /\ BasesAbstract => ParentsKnown
BY ParentFacts, NoneNeverLives DEF ParentsKnown

(* An entity that gets another base ranks above that base; nothing inherits  *)
(* from it, so that the ranks of the others stay.                            *)
LEMMA RankStep ==
  ASSUME Typed, BasesAbstract, Typed', BasesAbstract', NEW e, Moves(e), NEW rank, Ranking(rank)
  PROVE  \E rank2 : /\ rank2 \in [Entities -> Nat]
                    /\ \A x \in Living' : Parent'[x] # None => rank2[Parent'[x]] < rank2[x]
                    /\ \A x \in Entities : rank2[x] >= rank[x]
                    /\ \A x \in BasesInUse : rank2[x] = rank[x]
<1>1. rank \in [Entities -> Nat] /\ \A x \in Living : Parent[x] # None => rank[Parent[x]] < rank[x]
  BY DEF Ranking
<1>2. /\ e \notin BasesInUse
      /\ \A x \in Entities \ {e} : Parent'[x] = Parent[x] /\ (x \in Living' <=> x \in Living)
      /\ e \in Entities => Parent'[e] # e
  BY DEF Moves
<1>3. PICK parent : parent = Parent'
  OBVIOUS
<1>4. PICK living : living = Living'
  OBVIOUS
<1>5. living \subseteq Entities
  BY <1>4 DEF Living
<1>6. \A x \in living : parent[x] # None => parent[x] \in Entities
  <2>1. Typed' /\ BasesAbstract' => ParentsKnown'
    BY ParentsKnow, PTL
  <2>2. QED
    BY <1>3, <1>4, <2>1 DEF ParentsKnown
<1>7. \A x \in BasesInUse : x \in Entities /\ x # e
  BY <1>2, BasesFacts
<1>8. \A x \in living \ {e} : parent[x] # None => parent[x] \in BasesInUse /\ rank[parent[x]] < rank[x]
  <2>1. SUFFICES ASSUME NEW x \in living \ {e}, parent[x] # None
                 PROVE  parent[x] \in BasesInUse /\ rank[parent[x]] < rank[x]
    OBVIOUS
  <2>2. x \in Living /\ parent[x] = Parent[x]
    BY <1>2, <1>3, <1>4, <1>5
  <2>3. Parent[x] \in BasesInUse \cup {None}
    BY <2>2, ParentFacts
  <2>4. QED
    BY <1>1, <2>1, <2>2, <2>3
<1>9. CASE e \in living /\ parent[e] # None
  <2>1. e \in Entities /\ parent[e] \in Entities /\ parent[e] # e
    BY <1>2, <1>3, <1>5, <1>6, <1>9
  <2>2. PICK n \in Nat, m \in Nat : n = rank[e] /\ m = rank[parent[e]]
    BY <1>1, <2>1
  <2>3. PICK r : r = [rank EXCEPT ![e] = n + m + 1]
    OBVIOUS
  <2>4. r \in [Entities -> Nat] /\ r[e] = n + m + 1 /\ \A x \in Entities \ {e} : r[x] = rank[x]
    BY <1>1, <2>1, <2>2, <2>3
  <2>5. \A x \in Entities : r[x] >= rank[x]
    BY <1>1, <2>2, <2>4
  <2>6. \A x \in BasesInUse : r[x] = rank[x]
    BY <1>7, <2>4
  <2>7. \A x \in living : parent[x] # None => r[parent[x]] < r[x]
    <3>1. SUFFICES ASSUME NEW x \in living, parent[x] # None PROVE r[parent[x]] < r[x]
      OBVIOUS
    <3>2. CASE x = e
      BY <2>1, <2>2, <2>4, <3>2
    <3>3. CASE x # e
      BY <1>5, <1>8, <2>4, <2>6, <3>1, <3>3
    <3>4. QED
      BY <3>2, <3>3
  <2>8. QED
    BY <1>3, <1>4, <2>4, <2>5, <2>6, <2>7
<1>10. CASE ~(e \in living /\ parent[e] # None)
  <2>1. \A x \in living : parent[x] # None => rank[parent[x]] < rank[x]
    BY <1>8, <1>10
  <2>2. \A x \in Entities : rank[x] >= rank[x]
    BY <1>1
  <2>3. QED
    BY <1>1, <1>3, <1>4, <2>1, <2>2
<1>11. QED
  BY <1>9, <1>10

-----------------------------------------------------------------------------
(* A delivery that begins. *)

LEMMA WalkOrderly ==
  ASSUME NEW w \in FrameSet, NEW list \in Seq(Nat), NEW T, NEW ears, NEW bases, NEW up, NEW rank,
         w.stage = "list", w.at = 1, w.count = Len(list), w.source = w.entity, w.calling = None,
         w.heard = <<>>, w.late = {}, None \notin {w.entity} \cup up[w.entity],
         \A o \in Range(list) : ears[o].watched = None,
         \A o \in w.due :
           /\ o \in DOMAIN ears /\ ears[o].enabled
           /\ \/ o \in Range(list)
              \/ ears[o].event = w.event /\ ears[o].watched \in {w.entity} \cup up[w.entity]
  PROVE  Orderly(w, list, T, ears, bases, up, rank)
<1>1. Len(list) \in Nat /\ DOMAIN list = 1..Len(list) /\ Range(w.heard) = {}
  BY DEF Range
<1>2. ListWalk(w, list)
  BY <1>1 DEF ListWalk
<1>3. TargetWalk(w, list, T, ears, bases, rank)
  BY DEF TargetWalk
<1>4. ASSUME NEW o \in w.due PROVE Ahead(w, o, list, T, ears, up)
  <2>1. CASE ears[o].watched = None
    <3>1. o \in Range(list)
      BY <2>1
    <3>2. \E i \in w.at..w.count : list[i] = o
      BY <1>1, <3>1 DEF Range
    <3>3. QED
      BY <2>1, <3>2 DEF Ahead
  <2>2. CASE ears[o].watched # None
    <3>1. ears[o].event = w.event /\ ears[o].watched \in {w.entity} \cup up[w.entity]
      BY <2>2
    <3>2. QED
      BY <2>2, <3>1 DEF Ahead
  <2>3. QED
    BY <2>1, <2>2
<1>5. AllAhead(w, list, T, ears, up)
  BY <1>4 DEF AllAhead
<1>6. NoRepeat(w.heard)
  BY DEF NoRepeat
<1>7. QED
  BY <1>2, <1>3, <1>5, <1>6 DEF Orderly

(* What a new delivery finds                                                *)
ListsKnown ==
  \A t \in Tables, event \in Events :
    /\ listening[t][event] \in Seq(Nat)
    /\ \A o \in Range(listening[t][event]) : o \in Alive /\ observers[o].watched = None

LEMMA ListsKnow == Settled => ListsKnown
<1> SUFFICES ASSUME Settled, NEW t \in Tables, NEW event \in Events
             PROVE  /\ listening[t][event] \in Seq(Nat)
                    /\ \A o \in Range(listening[t][event]) : o \in Alive /\ observers[o].watched = None
  BY DEF ListsKnown
<1>1. listening[t][event] \in Seq(Nat)
  BY ListsFacts DEF Settled
<1>2. Range(listening[t][event]) = Listeners(t, event)
  BY DEF Settled, ListsKept
<1>3. \A o \in Listeners(t, event) : o \in Alive /\ Global(o)
  BY DEF Listeners, Globals
<1>4. \A o \in Listeners(t, event) : o \in Alive /\ observers[o].watched = None
  BY <1>3, GlobalOrTargeted DEF Settled, Registry
<1>5. QED
  BY <1>1, <1>2, <1>4

WorldKnown ==
  /\ Tables \subseteq Nat /\ Living \subseteq Entities /\ Alive \subseteq Nat
  /\ \A x \in Living : x # None /\ None \notin Bases[x]

LEMMA WorldKnow == Settled => WorldKnown
<1> SUFFICES ASSUME Settled PROVE WorldKnown
  OBVIOUS
<1>1. Tables \subseteq Nat
  BY TypedFacts DEF Settled
<1>2. Alive \subseteq Nat
  <2>1. DOMAIN observers = 1..Len(observers) /\ Len(observers) \in Nat /\ Alive \subseteq DOMAIN observers
    BY AliveFacts DEF Settled, Registry
  <2>2. QED
    BY <2>1
<1>3. \A x \in Living : x # None /\ None \notin Bases[x]
  BY ParentFacts, NoneNeverLives DEF Settled
<1>4. QED
  BY <1>1, <1>2, <1>3, NoneNeverLives DEF WorldKnown

LEMMA Begun ==
  ASSUME Settled', NEW w, Begins(w), NEW rank
  PROVE  /\ FrameTyped(w, Tables', Living', BasesInUse') /\ w.calling = None
         /\ Orderly(w, listening'[w.table][w.event], targets', Ears', BasesInUse', Bases', rank)
<1>1. Settled' => ListsKnown'
  BY ListsKnow, PTL
<1>2. Settled' => WorldKnown'
  BY WorldKnow, PTL
<1>3. PICK t \in Tables', e \in Living', event \in Events, k \in Nat : w = Walk(listening', t, e, event, k)
  BY DEF Begins
<1>4. /\ listening'[t][event] \in Seq(Nat)
      /\ \A o \in Range(listening'[t][event]) : o \in Alive' /\ observers'[o].watched = None
  BY <1>1 DEF ListsKnown
<1>5. /\ Tables' \subseteq Nat /\ Living' \subseteq Entities /\ Alive' \subseteq Nat
      /\ e # None /\ None \notin Bases'[e]
  BY <1>2 DEF WorldKnown
<1>6. PICK list \in Seq(Nat) : list = listening'[t][event]
  BY <1>4
<1>7. PICK up : up = Bases'
  OBVIOUS
<1>8. PICK ears : ears = Ears'
  OBVIOUS
<1>9. DOMAIN ears = Alive' /\ \A o \in Alive' : ears[o] = observers[o]
  BY <1>8 DEF Ears, Begins
<1>10. \A o \in DOMAIN observers : IsAlive(o) => o \in Alive'
  BY DEF Begins, Alive, IsAlive
<1>11. observers' = observers
  BY DEF Begins
<1>12. PICK due : due = {o \in Range(list) : observers[o].enabled}
                        \cup {o \in DOMAIN observers :
                                /\ IsAlive(o) /\ observers[o].enabled /\ observers[o].event = event
                                /\ observers[o].watched \in {e} \cup up[e]}
  OBVIOUS
<1>13. \A o \in due : /\ o \in Alive' /\ observers[o].enabled
                      /\ \/ o \in Range(list)
                         \/ observers[o].event = event /\ observers[o].watched \in {e} \cup up[e]
  BY <1>4, <1>6, <1>10, <1>12
<1>14. due \in SUBSET Nat
  BY <1>5, <1>13
<1>15. w = [table |-> t, entity |-> e, event |-> event, todo |-> k,
            stage |-> "list", at |-> 1, count |-> Len(list), source |-> e, calling |-> None,
            due |-> due, heard |-> <<>>, late |-> {}]
  BY <1>3, <1>6, <1>7, <1>12 DEF Walk
<1>16. Len(list) \in Nat /\ t \in Nat /\ e \in Entities /\ 1 \in Nat \ {0}
  BY <1>5
<1>17. w \in FrameSet
  BY <1>14, <1>15, <1>16 DEF FrameSet, None
<1>18. FrameTyped(w, Tables', Living', BasesInUse')
  BY <1>15, <1>17 DEF FrameTyped
<1>19. \A o \in Range(list) : ears[o].watched = None
  BY <1>4, <1>6, <1>9, <1>11
<1>20. \A o \in due : /\ o \in DOMAIN ears /\ ears[o].enabled
                      /\ \/ o \in Range(list)
                         \/ ears[o].event = event /\ ears[o].watched \in {e} \cup up[e]
  BY <1>9, <1>13
<1>21. None \notin {e} \cup up[e]
  BY <1>5, <1>7
<1>22. Orderly(w, list, targets', ears, BasesInUse', up, rank)
  BY ONLY w \in FrameSet, list \in Seq(Nat), <1>15, <1>17, <1>19, <1>20, <1>21, WalkOrderly
<1>23. QED
  BY <1>6, <1>7, <1>8, <1>15, <1>18, <1>22

-----------------------------------------------------------------------------
(* Deliveries that wait while code of the user runs. *)

LEMMA CarriedOn ==
  ASSUME Settled, Settled', UserStep, FramesTyped, EndInCallback = FALSE, NEW e, Moves(e),
         NEW rank, NEW rank2, RanksRise(BasesInUse, rank, rank2),
         NEW i \in DOMAIN frames, NEW f, f = frames[i], Standing(f, rank), NEW g, Carried(f, g)
  PROVE  /\ FrameTyped(g, Tables', Living', BasesInUse') /\ g.calling = f.calling
         /\ Orderly(g, listening'[g.table][g.event], targets', Ears', BasesInUse', Bases', rank2)
<1>1. /\ Typed /\ RecordsAgree /\ BasesAbstract /\ Registry /\ ListsTyped
      /\ Typed' /\ BasesAbstract'
  BY DEF Settled
<1>2. /\ f \in FrameSet /\ f.table \in Tables /\ f.entity \in Living /\ f.source \in Living
      /\ f.source \in {f.entity} \cup BasesInUse /\ f \in Range(frames) /\ f.event \in Events
  BY FrameFields DEF Standing, FrameTyped, Range
<1>3. Settled' => ListsKnown'
  BY ListsKnow, PTL
<1>4. /\ e \notin BasesInUse /\ BasesInUse \subseteq BasesInUse' /\ \A t \in Tables : t \in Tables'
      /\ \A x \in Entities \ {e} : Parent'[x] = Parent[x]
      /\ \A x \in Living : Parent'[x] = Parent[x] => Bases'[x] = Bases[x]
  BY DEF Moves
<1>5. /\ BasesInUse \subseteq Living /\ None \notin BasesInUse /\ BasesInUse \subseteq Entities
      /\ Bases[f.entity] \subseteq BasesInUse
  BY <1>1, <1>2, ParentFacts, NoneNeverLives
<1>6. PICK d, l, slot : d = g.due /\ l = g.late /\ slot = Slot
  OBVIOUS
<1>7. /\ g \in FrameSet /\ g = Alter(f, d, l) /\ l \subseteq f.late \cup {slot} /\ d \subseteq f.due
      /\ \A o \in d :
           /\ o \in Alive => o \in Alive' /\ observers'[o] = observers[o]
           /\ \/ Parent'[f.entity] = Parent[f.entity]
              \/ observers[o].watched \in {None, f.entity} \cup Bases'[f.entity]
  BY <1>6 DEF Carried
<1>8. /\ g.table = f.table /\ g.entity = f.entity /\ g.event = f.event /\ g.stage = f.stage
      /\ g.source = f.source /\ g.calling = f.calling
  BY <1>2, <1>7, Altered
<1>9. f.entity \in Living' /\ f.source \in Living' /\ f.source \in {f.entity} \cup BasesInUse'
      /\ f.table \in Tables'
  <2>1. f.entity \in Living'
    BY <1>1, EntitiesHeld
  <2>2. BasesInUse' \subseteq Living'
    BY <1>1 DEF BasesAbstract
  <2>3. QED
    BY <1>2, <1>4, <2>1, <2>2
<1>10. FrameTyped(g, Tables', Living', BasesInUse')
  BY <1>7, <1>8, <1>9 DEF FrameTyped
<1>11. PICK list \in Seq(Nat) : list = listening[f.table][f.event]
  BY <1>1, <1>2, ListsFacts
<1>12. PICK list2 \in Seq(Nat) : list2 = listening'[f.table][f.event]
  BY <1>2, <1>3, <1>9 DEF ListsKnown
<1>13. ListStays(f, l, list, list2, slot)
  <2>1. Extends(list, list2)
    BY <1>1, <1>2, <1>11, <1>12, ListsHeld
  <2>2. \A j \in 1..Len(list) : list[j] \in Alive
    BY <1>2, <1>11, ListFacts DEF Standing
  <2>3. slot \notin Alive
    BY <1>1, <1>6, SlotUnused DEF Registry
  <2>4. QED
    BY <1>7, <2>1, <2>2, <2>3 DEF ListStays
<1>14. PICK T, T2, ears, ears2, bases, bases2, up, up2 :
         /\ T = targets /\ T2 = targets' /\ ears = Ears /\ ears2 = Ears' /\ bases = BasesInUse
         /\ bases2 = BasesInUse' /\ up = Bases /\ up2 = Bases'
  OBVIOUS
<1>15. /\ DOMAIN ears = Alive /\ \A o \in Alive : ears[o] = observers[o]
       /\ DOMAIN ears2 = Alive' /\ \A o \in Alive' : ears2[o] = observers'[o]
  BY <1>14 DEF Ears
<1>16. EarsStay(f, d, T, T2, ears, ears2)
  <2>1. f.stage = "targets" => InTargets
    BY <1>2 DEF InTargets
  <2>2. InTargets =>
          /\ targets' = targets
          /\ \A o \in Alive : Targeted(o) => o \in Alive' /\ observers'[o].watched = observers[o].watched
    BY <1>1, TargetsHeld
  <2>3. f.stage = "targets" =>
          /\ T2 = T
          /\ \A o \in DOMAIN ears : ears[o].watched # None =>
               o \in DOMAIN ears2 /\ ears2[o].watched = ears[o].watched
    BY <1>14, <1>15, <2>1, <2>2 DEF Targeted
  <2>4. \A o \in d : o \in DOMAIN ears => o \in DOMAIN ears2 /\ ears2[o] = ears[o]
    BY <1>7, <1>15
  <2>5. QED
    BY <1>7, <2>3, <2>4 DEF EarsStay
<1>17. RanksRise(bases, rank, rank2)
  BY <1>14
<1>18. LinesStay(f, d, ears, bases, bases2, up, up2)
  <2>1. \A x \in BasesInUse : Bases'[x] = Bases[x]
    <3>1. SUFFICES ASSUME NEW x \in BasesInUse PROVE Bases'[x] = Bases[x]
      OBVIOUS
    <3>2. x \in Living /\ Parent'[x] = Parent[x]
      BY <1>4, <1>5
    <3>3. QED
      BY <1>4, <3>2
  <2>2. Parent'[f.entity] = Parent[f.entity] => Bases'[f.entity] = Bases[f.entity]
    BY <1>2, <1>4
  <2>3. \A o \in d : o \in DOMAIN ears =>
          up2[f.entity] = up[f.entity] \/ ears[o].watched \in {None, f.entity} \cup up2[f.entity]
    BY <1>7, <1>14, <1>15, <2>2
  <2>4. QED
    BY <1>2, <1>4, <1>5, <1>14, <2>1, <2>3 DEF LinesStay
<1>19. Orderly(f, list, T, ears, bases, up, rank)
  BY <1>11, <1>14 DEF Standing
<1>20. Orderly(g, list2, T2, ears2, bases2, up2, rank2)
  <2>1. f \in FrameSet /\ g \in FrameSet /\ g = Alter(f, d, l)
    BY <1>2, <1>7
  <2>2. QED
    BY ONLY <1>13, <1>16, <1>17, <1>18, <1>19, <2>1, OrderlyStays, ZenonT(30)
<1>21. QED
  BY <1>8, <1>10, <1>12, <1>14, <1>20

-----------------------------------------------------------------------------
(* Every delivery is in order. *)

Flow == FramesTyped /\ \E rank : Ranking(rank) /\ Deliveries(rank)

(* A delivery in the next state                                             *)
Stands(g, rank) ==
  /\ FrameTyped(g, Tables', Living', BasesInUse')
  /\ Orderly(g, listening'[g.table][g.event], targets', Ears', BasesInUse', Bases', rank)

Ranks(rank) ==
  rank \in [Entities -> Nat] /\ \A x \in Living' : Parent'[x] # None => rank[Parent'[x]] < rank[x]

LEMMA FlowThen ==
  ASSUME NEW r \in Seq(FrameSet), frames' = r, NEW rank, Ranks(rank),
         \A i \in DOMAIN r : Stands(r[i], rank) /\ (i > 1 => r[i].calling # None)
  PROVE  Flow'
<1>1. FramesTyped'
  BY DEF FramesTyped, Stands
<1>2. \A i \in DOMAIN frames' : Orderly(frames'[i], listening'[frames'[i].table][frames'[i].event],
                                        targets', Ears', BasesInUse', Bases', rank)
  BY DEF Stands
<1>3. Deliveries(rank)'
  BY <1>2 DEF Deliveries
<1>4. Ranking(rank)'
  BY DEF Ranking, Ranks
<1>5. QED
  BY <1>1, <1>3, <1>4 DEF Flow

LEMMA FlowFacts ==
  ASSUME Flow
  PROVE  /\ FramesTyped /\ frames \in Seq(FrameSet)
         /\ \E rank : Ranking(rank) /\ \A i \in DOMAIN frames : Standing(frames[i], rank)
<1>1. FramesTyped /\ frames \in Seq(FrameSet)
  BY DEF Flow, FramesTyped
<1>2. PICK rank : Ranking(rank) /\ Deliveries(rank)
  BY DEF Flow
<1>3. \A i \in DOMAIN frames : FrameTyped(frames[i], Tables, Living, BasesInUse)
  BY <1>1 DEF FramesTyped
<1>4. \A i \in DOMAIN frames : Standing(frames[i], rank)
  BY <1>2, <1>3 DEF Deliveries, Standing
<1>5. QED
  BY <1>1, <1>2, <1>4

(* What code of the user does keeps all deliveries in order.                *)
LEMMA FlowUser ==
  ASSUME Settled, Settled', Flow, UserRuns, UserStep, [Next]_vars, EndInCallback = FALSE,
         {"die", "change"} \cap BaseHazards = {}
  PROVE  Flow'
<1>1. Typed /\ RecordsAgree /\ BasesAbstract /\ Registry /\ Typed' /\ BasesAbstract'
  BY DEF Settled
<1>2. FramesTyped /\ frames \in Seq(FrameSet)
  BY FlowFacts
<1>3. PICK rank : Ranking(rank) /\ \A i \in DOMAIN frames : Standing(frames[i], rank)
  BY FlowFacts
<1>4. PICK e : Moves(e)
  BY <1>1, HierarchyMoves
<1>5. PICK rank2 : Ranks(rank2) /\ RanksRise(BasesInUse, rank, rank2)
  <2>1. \E rank2 : /\ rank2 \in [Entities -> Nat]
                   /\ \A x \in Living' : Parent'[x] # None => rank2[Parent'[x]] < rank2[x]
                   /\ \A x \in Entities : rank2[x] >= rank[x]
                   /\ \A x \in BasesInUse : rank2[x] = rank[x]
    BY <1>1, <1>3, <1>4, RankStep
  <2>2. rank \in [Entities -> Nat]
    BY <1>3 DEF Ranking
  <2>3. QED
    BY <2>1, <2>2 DEF Ranks, RanksRise
<1>6. PICK H : Rearranged(H) /\ (frames' = H \/ \E w : Begins(w) /\ frames' = <<w>> \o H)
  BY <1>1, <1>2, UserFrames
<1>7. H = [i \in DOMAIN frames |-> H[i]] /\ \A i \in DOMAIN frames : Carried(frames[i], H[i])
  BY <1>6 DEF Rearranged
<1>8. H \in Seq(FrameSet) /\ DOMAIN H = DOMAIN frames
  <2>1. \A i \in DOMAIN frames : H[i] \in FrameSet
    BY <1>7 DEF Carried
  <2>2. QED
    BY <1>2, <1>7, <2>1, FramesMapped
<1>9. \A i \in DOMAIN H : Stands(H[i], rank2) /\ H[i].calling # None
  <2>1. SUFFICES ASSUME NEW i \in DOMAIN frames PROVE Stands(H[i], rank2) /\ H[i].calling # None
    BY <1>8
  <2>2. PICK f, g : f = frames[i] /\ g = H[i]
    OBVIOUS
  <2>3. Standing(f, rank) /\ Carried(f, g)
    BY <1>3, <1>7, <2>2
  <2>4. /\ FrameTyped(g, Tables', Living', BasesInUse') /\ g.calling = f.calling
        /\ Orderly(g, listening'[g.table][g.event], targets', Ears', BasesInUse', Bases', rank2)
    BY <1>2, <1>4, <1>5, <2>2, <2>3, CarriedOn
  <2>5. f.calling # None
    <3>1. DOMAIN frames = 1..Len(frames) /\ Len(frames) \in Nat
      BY <1>2, FramesFacts
    <3>2. i = 1 \/ i > 1
      BY <3>1
    <3>3. QED
      BY <1>2, <2>2, <3>2 DEF FramesTyped, UserRuns
  <2>6. QED
    BY <2>2, <2>4, <2>5 DEF Stands
<1>10. CASE frames' = H
  BY <1>5, <1>8, <1>9, <1>10, FlowThen
<1>11. ASSUME NEW w, Begins(w), frames' = <<w>> \o H PROVE Flow'
  <2>1. FrameTyped(w, Tables', Living', BasesInUse') /\ Stands(w, rank2)
    BY <1>11, Begun DEF Stands
  <2>2. w \in FrameSet
    BY <2>1 DEF FrameTyped
  <2>3. PICK r : r = <<w>> \o H
    OBVIOUS
  <2>4. /\ r \in Seq(FrameSet) /\ DOMAIN r = 1..(Len(H) + 1) /\ Len(H) \in Nat /\ DOMAIN H = 1..Len(H)
        /\ r[1] = w /\ \A i \in 2..(Len(H) + 1) : r[i] = H[i - 1]
    BY <1>8, <2>2, <2>3, FirstAdded
  <2>5. ASSUME NEW i \in DOMAIN r PROVE Stands(r[i], rank2) /\ (i > 1 => r[i].calling # None)
    <3>1. CASE i = 1
      BY <2>1, <2>4, <3>1
    <3>2. CASE i # 1
      <4>1. i \in 2..(Len(H) + 1) /\ i - 1 \in DOMAIN H
        BY <2>4, <3>2
      <4>2. r[i] = H[i - 1]
        BY <2>4, <4>1
      <4>3. QED
        BY <1>9, <4>1, <4>2
    <3>3. QED
      BY <3>1, <3>2
  <2>6. QED
    BY <1>5, <1>11, <2>3, <2>4, <2>5, FlowThen
<1>12. QED
  BY <1>6, <1>10, <1>11

(* When only deliveries change, those that do not change stay in order.      *)
Still == UNCHANGED <<types, place, observers, listening, targets>>

LEMMA StillStands ==
  ASSUME Still
  PROVE  /\ \A g, rank : Standing(g, rank) => Stands(g, rank)
         /\ \A rank : Ranking(rank) => Ranks(rank)
         /\ Tables' = Tables /\ Living' = Living
<1>1. UNCHANGED <<types, place, observers, listening, targets>>
  BY DEF Still
<1>2. Tables' = Tables /\ Living' = Living
  BY <1>1 DEF Tables, Living
<1>3. BasesInUse' = BasesInUse
  BY <1>1, <1>2 DEF BasesInUse
<1>4. Ears' = Ears
  BY <1>1 DEF Ears, Alive, IsAlive
<1>5. Bases' = Bases /\ Parent' = Parent
  BY <1>1, <1>2 DEF Bases, Parent, Lineage, Line, TypeOf
<1>6. QED
  BY <1>1, <1>2, <1>3, <1>4, <1>5 DEF Standing, Stands, Ranking, Ranks

LEMMA FlowAdvance ==
  ASSUME Settled, Settled', Flow, Advance
  PROVE  Flow'
<1>1. FramesTyped /\ frames \in Seq(FrameSet) /\ \A i \in DOMAIN frames : frames[i] \in FrameSet
  BY FlowFacts, FramesFacts
<1>2. PICK rank : Ranking(rank) /\ \A i \in DOMAIN frames : Standing(frames[i], rank)
  BY FlowFacts
<1>3. UNCHANGED <<types, place, observers, listening, targets>> /\ Still
  BY OnlyFrames DEF Still
<1>4. Ranks(rank) /\ \A i \in DOMAIN frames : Stands(frames[i], rank)
  BY <1>2, <1>3, StillStands
<1>5. \A i \in DOMAIN frames : i > 1 => frames[i].calling # None
  BY <1>1 DEF FramesTyped
<1>6. PICK f : f = frames[1]
  OBVIOUS
<1>7. /\ frames # <<>> /\ 1 \in DOMAIN frames /\ f.calling = None
      /\ \/ \E g : Goes(f, g) /\ frames' = <<g>> \o Tail(frames)
         \/ /\ f.stage = "done" /\ f.todo > 0
            /\ frames' = <<Walk(listening, f.table, f.entity, f.event, f.todo - 1)>> \o Tail(frames)
         \/ f.stage = "done" /\ frames' = Tail(frames)
  BY <1>1, <1>6, AdvanceOf
<1>8. Standing(f, rank) /\ FrameTyped(f, Tables, Living, BasesInUse) /\ f \in FrameSet
  BY <1>1, <1>2, <1>6, <1>7 DEF Standing
<1>9. ASSUME NEW g, Stands(g, rank), frames' = <<g>> \o Tail(frames) PROVE Flow'
  <2>1. g \in FrameSet
    BY <1>9 DEF Stands, FrameTyped
  <2>2. PICK r : r = <<g>> \o Tail(frames)
    OBVIOUS
  <2>3. /\ r \in Seq(FrameSet) /\ DOMAIN r = DOMAIN frames
        /\ r[1] = g /\ \A i \in DOMAIN frames : i > 1 => r[i] = frames[i]
    BY <1>1, <1>7, <2>1, <2>2, FirstReplaced
  <2>4. ASSUME NEW i \in DOMAIN r PROVE Stands(r[i], rank) /\ (i > 1 => r[i].calling # None)
    <3>1. i = 1 \/ i > 1
      BY <1>1, <2>3, FramesFacts
    <3>2. CASE i = 1
      BY <1>9, <2>3, <3>2
    <3>3. CASE i > 1
      BY <1>4, <1>5, <2>3, <3>3
    <3>4. QED
      BY <3>1, <3>2, <3>3
  <2>5. QED
    BY <1>4, <1>9, <2>2, <2>3, <2>4, FlowThen
<1>10. ASSUME NEW g, Goes(f, g), frames' = <<g>> \o Tail(frames) PROVE Flow'
  <2>1. Standing(g, rank)
    BY <1>2, <1>7, <1>8, <1>10, GoesOn
  <2>2. Stands(g, rank)
    BY <1>3, <2>1, StillStands
  <2>3. QED
    BY <1>9, <1>10, <2>2
<1>11. CASE /\ f.stage = "done" /\ f.todo > 0
            /\ frames' = <<Walk(listening, f.table, f.entity, f.event, f.todo - 1)>> \o Tail(frames)
  <2>1. PICK w : w = Walk(listening, f.table, f.entity, f.event, f.todo - 1)
    OBVIOUS
  <2>2. PICK k \in Nat : k = f.todo - 1
    BY <1>8, <1>11, FrameFields
  <2>3. PICK t \in Tables, e \in Living, event \in Events : t = f.table /\ e = f.entity /\ event = f.event
    BY <1>8, FrameFields DEF FrameTyped
  <2>4. w = Walk(listening', t, e, event, k)
    BY <1>3, <2>1, <2>2, <2>3
  <2>5. t \in Tables' /\ e \in Living'
    BY <1>3, StillStands
  <2>6. Begins(w)
    BY <1>3, <2>4, <2>5 DEF Begins
  <2>7. Stands(w, rank)
    BY <2>6, Begun DEF Stands
  <2>8. QED
    BY <1>9, <1>11, <2>1, <2>7
<1>12. CASE frames' = Tail(frames)
  <2>1. PICK r : r = Tail(frames)
    OBVIOUS
  <2>2. /\ r \in Seq(FrameSet) /\ DOMAIN r = 1..(Len(frames) - 1) /\ Len(frames) \in Nat
        /\ \A i \in 1..(Len(frames) - 1) : r[i] = frames[i + 1]
    BY <1>1, <1>7, <2>1, FirstDropped
  <2>3. ASSUME NEW i \in DOMAIN r PROVE Stands(r[i], rank) /\ (i > 1 => r[i].calling # None)
    <3>1. i + 1 \in DOMAIN frames /\ i + 1 > 1 /\ r[i] = frames[i + 1]
      BY <1>1, <2>2, FramesFacts
    <3>2. QED
      BY <1>4, <1>5, <3>1
  <2>4. QED
    BY <1>4, <1>12, <2>1, <2>2, <2>3, FlowThen
<1>13. QED
  BY <1>7, <1>10, <1>11, <1>12

(* A callback that returns leaves its delivery where it was.                *)
LEMMA Returns ==
  ASSUME NEW f, NEW rank, Standing(f, rank), NEW g, g = [f EXCEPT !.calling = None]
  PROVE  Standing(g, rank)
<1>1. FrameTyped(f, Tables, Living, BasesInUse) /\ f \in FrameSet
  BY DEF Standing, FrameTyped
<1>2. /\ g \in FrameSet /\ g.table = f.table /\ g.entity = f.entity /\ g.event = f.event
      /\ g.stage = f.stage /\ g.at = f.at /\ g.count = f.count /\ g.source = f.source
      /\ g.calling = None /\ g.due = f.due /\ g.heard = f.heard /\ g.late = f.late
  BY <1>1 DEF FrameSet, None
<1>3. PICK list, T, ears, bases, up :
        /\ list = listening[f.table][f.event] /\ T = targets /\ ears = Ears /\ bases = BasesInUse /\ up = Bases
  OBVIOUS
<1>4. Orderly(f, list, T, ears, bases, up, rank)
  BY <1>3 DEF Standing
<1>5. ListWalk(g, list)
  BY <1>2, <1>4, Zenon DEF Orderly, ListWalk
<1>6. TargetWalk(g, list, T, ears, bases, rank)
  BY <1>2, <1>4, Zenon DEF Orderly, TargetWalk, Passed
<1>7. AllAhead(g, list, T, ears, up)
  BY <1>2, <1>4, Zenon DEF Orderly, AllAhead, Ahead
<1>8. Orderly(g, list, T, ears, bases, up, rank)
  BY <1>2, <1>4, <1>5, <1>6, <1>7, Zenon DEF Orderly
<1>9. FrameTyped(g, Tables, Living, BasesInUse)
  BY <1>1, <1>2, Zenon DEF FrameTyped
<1>10. QED
  BY <1>2, <1>3, <1>8, <1>9 DEF Standing

LEMMA FlowReturn ==
  ASSUME Flow, Return
  PROVE  Flow'
<1>1. FramesTyped /\ frames \in Seq(FrameSet)
  BY FlowFacts
<1>2. PICK rank : Ranking(rank) /\ \A i \in DOMAIN frames : Standing(frames[i], rank)
  BY FlowFacts
<1>3. Still
  BY DEF Return, Still, tableVars, observerVars
<1>4. frames # <<>> /\ frames' = [frames EXCEPT ![1].calling = None]
  BY DEF Return
<1>5. PICK g : g = [frames[1] EXCEPT !.calling = None]
  OBVIOUS
<1>6. PICK r : r = [frames EXCEPT ![1] = g]
  OBVIOUS
<1>7. frames' = r
  BY <1>4, <1>5, <1>6
<1>8. 1 \in DOMAIN frames
  BY <1>1, <1>4, FramesFacts
<1>9. Standing(g, rank)
  BY <1>2, <1>5, <1>8, Returns
<1>10. g \in FrameSet
  BY <1>9 DEF Standing, FrameTyped
<1>11. r \in Seq(FrameSet) /\ DOMAIN r = DOMAIN frames
  BY <1>1, <1>6, <1>8, <1>10, ReplacedInSeq
<1>12. r[1] = g /\ \A i \in DOMAIN frames \ {1} : r[i] = frames[i]
  BY <1>6, <1>8
<1>13. \A i \in DOMAIN r : Standing(r[i], rank) /\ (i > 1 => r[i].calling # None)
  <2>1. SUFFICES ASSUME NEW i \in DOMAIN frames
                 PROVE  Standing(r[i], rank) /\ (i > 1 => r[i].calling # None)
    BY <1>11
  <2>2. CASE i = 1
    BY <1>9, <1>12, <2>2
  <2>3. CASE i # 1
    BY <1>1, <1>2, <1>12, <2>3 DEF FramesTyped
  <2>4. QED
    BY <2>2, <2>3
<1>14. Ranks(rank) /\ \A i \in DOMAIN r : Stands(r[i], rank) /\ (i > 1 => r[i].calling # None)
  BY <1>2, <1>3, <1>13, StillStands
<1>15. QED
  BY <1>7, <1>11, <1>14, FlowThen

LEMMA FlowInit == ObserversInit => Flow
<1> SUFFICES ASSUME ObserversInit PROVE Flow
  OBVIOUS
<1>1. frames = <<>> /\ place = [e \in Entities |-> Nowhere]
  BY DEF ObserversInit, Init
<1>2. FramesTyped
  BY <1>1 DEF FramesTyped
<1>3. PICK rank : rank = [e \in Entities |-> 0]
  OBVIOUS
<1>4. Living = {}
  BY <1>1 DEF Living, Nowhere
<1>5. Ranking(rank)
  BY <1>3, <1>4 DEF Ranking
<1>6. Deliveries(rank)
  BY <1>1 DEF Deliveries
<1>7. QED
  BY <1>2, <1>5, <1>6 DEF Flow

LEMMA FlowStep ==
  ASSUME Settled, Settled', Flow, [ObserversNext]_allVars, [Next]_vars, EndInCallback = FALSE,
         {"die", "change"} \cap BaseHazards = {}
  PROVE  Flow'
<1>1. CASE UNCHANGED allVars
  <2>1. frames' = frames /\ Still
    BY <1>1 DEF allVars, Still
  <2>2. frames \in Seq(FrameSet) /\ FramesTyped
    BY FlowFacts
  <2>3. PICK rank : Ranking(rank) /\ \A i \in DOMAIN frames : Standing(frames[i], rank)
    BY FlowFacts
  <2>4. Ranks(rank) /\ \A i \in DOMAIN frames : Stands(frames[i], rank) /\ (i > 1 => frames[i].calling # None)
    BY <2>1, <2>2, <2>3, StillStands DEF FramesTyped
  <2>5. PICK r : r = frames
    OBVIOUS
  <2>6. QED
    BY <2>1, <2>2, <2>4, <2>5, FlowThen
<1>2. CASE Advance
  BY <1>2, FlowAdvance
<1>3. CASE Return
  BY <1>3, FlowReturn
<1>4. CASE UserRuns /\ UserStep
  BY <1>4, FlowUser
<1>5. QED
  BY <1>1, <1>2, <1>3, <1>4 DEF ObserversNext

-----------------------------------------------------------------------------
(* What the deliveries promise. *)

LEMMA SettledInit == ObserversInit => Settled
  BY TypedInit, HavingInit, QueriesInit, RegistryInit, ListsTypedInit, ListsKeptInit DEF ObserversInit, Settled

LEMMA SettledStep ==
  ASSUME Settled, [ObserversNext]_allVars, "die" \notin BaseHazards
  PROVE  Settled' /\ [Next]_vars
<1>1. /\ Typed /\ RecordsAgree /\ BasesAbstract /\ HavingExact /\ QueriesExact
      /\ Registry /\ ListsTyped /\ ListsKept
  BY DEF Settled
<1>2. [Next]_vars
  BY <1>1, StepsOfQueries DEF Registry
<1>3. Typed' /\ RecordsAgree' /\ BasesAbstract' /\ HavingExact' /\ QueriesExact'
  BY <1>1, <1>2, TypedStep, BasesStep, HavingStep, QueriesStep
<1>4. Registry' /\ ListsTyped'
  BY <1>1, <1>3, RegistryStep, ListsTypedStep
<1>6. Steadily
  BY <1>1, <1>2, MatchesStay DEF Steadily
<1>7. ListsKept'
  BY <1>1, <1>3, <1>4, <1>6, ListsKeptStep
<1>8. QED
  BY <1>2, <1>3, <1>4, <1>7 DEF Settled

(* No base dying: the list of a table for an event names each observer alive   *)
(* whose query matches the table, once, whichever of the two came first and   *)
(* whatever slots were used again, but that a table one of whose bases has    *)
(* changed since it was made stays in the lists it was put in.               *)
THEOREM ListsAreExact ==
  ASSUME "die" \notin BaseHazards
  PROVE  ObserversSpec => []ListsExact
<1>1. ObserversInit => Settled
  BY SettledInit
<1>2. Settled /\ [ObserversNext]_allVars => Settled'
  BY SettledStep
<1>3. Settled => ListsExact
  BY ExactLists DEF Settled
<1>4. QED
  BY <1>1, <1>2, <1>3, PTL DEF ObserversSpec

LEMMA FlowAlways ==
  ASSUME {"die", "change"} \cap BaseHazards = {}, EndInCallback = FALSE
  PROVE  ObserversSpec => [](Settled /\ Flow)
<1>1. ObserversInit => Settled /\ Flow
  BY SettledInit, FlowInit
<1>2. Settled /\ Flow /\ [ObserversNext]_allVars => (Settled /\ Flow)'
  <2>1. SUFFICES ASSUME Settled, Flow, [ObserversNext]_allVars PROVE Settled' /\ Flow'
    OBVIOUS
  <2>2. Settled' /\ [Next]_vars
    BY <2>1, SettledStep
  <2>3. Flow'
    BY <2>1, <2>2, FlowStep
  <2>4. QED
    BY <2>2, <2>3
<1>3. QED
  BY <1>1, <1>2, PTL DEF ObserversSpec

(* An observer that came while the list was walked is none of those called.  *)
LEMMA CalledBefore ==
  ASSUME Settled, NEW f, NEW rank, Standing(f, rank), f.calling \in f.late
  PROVE  ~Global(f.calling)
<1>1. FrameTyped(f, Tables, Living, BasesInUse) /\ f \in FrameSet
  BY DEF Standing, FrameTyped
<1>2. f.calling # None /\ f.stage \in {"list", "targets", "done"}
  BY <1>1, FrameFields DEF None
<1>3. PICK list, T : list = listening[f.table][f.event] /\ T = targets
  OBVIOUS
<1>4. /\ ListWalk(f, list) /\ TargetWalk(f, list, T, Ears, BasesInUse, rank)
      /\ f.stage = "done" => f.calling = None
  BY <1>3, Zenon DEF Standing, Orderly
<1>5. PICK at \in Nat \ {0}, count \in Nat : at = f.at /\ count = f.count
  BY <1>1, FrameFields
<1>6. CASE f.stage = "list"
  <2>1. at <= count + 1 /\ at > 1 /\ f.calling = list[at - 1] /\ \A i \in 1..count : list[i] \notin f.late
    BY <1>2, <1>4, <1>5, <1>6 DEF ListWalk
  <2>2. at - 1 \in 1..count
    BY <2>1
  <2>3. QED
    BY <2>1, <2>2
<1>7. CASE f.stage = "targets"
  <2>1. at <= count + 1 /\ at > 1 /\ f.calling = T[at - 1].observer /\ count = Len(T)
    BY <1>2, <1>4, <1>5, <1>7 DEF TargetWalk
  <2>2. at - 1 \in 1..Len(T)
    BY <2>1
  <2>3. PICK o \in Alive : o = f.calling /\ observers[o].watched \in Living
    BY <1>3, <2>1, <2>2, EntryFacts DEF Settled
  <2>4. observers[o].watched # None
    BY <2>3, NoneNeverLives
  <2>5. ~Global(o)
    BY <2>3, <2>4, GlobalOrTargeted DEF Settled, Registry
  <2>6. QED
    BY <2>3, <2>5
<1>8. QED
  BY <1>2, <1>4, <1>6, <1>7

LEMMA CallsOnce == Settled /\ Flow => CalledOnce
<1> SUFFICES ASSUME Settled, Flow, NEW f \in Range(frames)
             PROVE  Len(f.heard) = Cardinality(Range(f.heard)) /\ (f.calling \in f.late => ~Global(f.calling))
  BY DEF CalledOnce
<1>1. PICK rank : \A i \in DOMAIN frames : Standing(frames[i], rank)
  BY FlowFacts
<1>2. Standing(f, rank)
  BY <1>1 DEF Range
<1>3. f \in FrameSet /\ NoRepeat(f.heard)
  BY <1>2, Zenon DEF Standing, FrameTyped, Orderly
<1>4. PICK l \in Seq(Nat) : l = f.heard
  BY <1>3, FrameFields
<1>5. Len(l) \in Nat /\ DOMAIN l = 1..Len(l) /\ \A i, j \in 1..Len(l) : l[i] = l[j] => i = j
  BY <1>3, <1>4 DEF NoRepeat
<1>6. Cardinality({l[i] : i \in 1..Len(l)}) = Len(l)
  BY <1>5, CountOfDistinct
<1>7. Cardinality(Range(l)) = Len(l)
  BY <1>5, <1>6 DEF Range
<1>8. f.calling \in f.late => ~Global(f.calling)
  BY <1>2, CalledBefore
<1>9. QED
  BY <1>4, <1>7, <1>8

LEMMA CallsAll == Settled /\ Flow => EveryListenerCalled
<1> SUFFICES ASSUME Settled, Flow, NEW f \in Range(frames), f.stage = "done", NEW o \in f.due
             PROVE  FALSE
  BY DEF EveryListenerCalled
<1>1. PICK rank : \A i \in DOMAIN frames : Standing(frames[i], rank)
  BY FlowFacts
<1>2. Standing(f, rank)
  BY <1>1 DEF Range
<1>3. PICK list : AllAhead(f, list, targets, Ears, Bases)
  BY <1>2, Zenon DEF Standing, Orderly
<1>4. Ahead(f, o, list, targets, Ears, Bases)
  BY <1>3 DEF AllAhead
<1>5. QED
  BY <1>4 DEF Ahead

(* No delivery calls an observer twice, nor a global observer that was         *)
(* registered while it was under way, when callbacks kill no base in use, give *)
(* it no other base, and end no observer of a list being walked.  They may    *)
(* deliver in their turn, add, give a base to what is not a base in use, kill, *)
(* and make, enable, disable and end observers.                              *)
THEOREM ObserversCalledOnce ==
  ASSUME {"die", "change"} \cap BaseHazards = {}, EndInCallback = FALSE
  PROVE  ObserversSpec => []CalledOnce
<1>1. ObserversSpec => [](Settled /\ Flow)
  BY FlowAlways
<1>2. Settled /\ Flow => CalledOnce
  BY CallsOnce
<1>3. QED
  BY <1>1, <1>2, PTL

(* A delivery ends when every listener it owed a call has been called, the     *)
(* observers of its table, of its entity and of each of its bases, wherever    *)
(* callbacks have moved the entity meanwhile, when no base in use dies or      *)
(* changes and no observer of a list being walked ends.                      *)
THEOREM ListenersAreCalled ==
  ASSUME {"die", "change"} \cap BaseHazards = {}, EndInCallback = FALSE
  PROVE  ObserversSpec => []EveryListenerCalled
<1>1. ObserversSpec => [](Settled /\ Flow)
  BY FlowAlways
<1>2. Settled /\ Flow => EveryListenerCalled
  BY CallsAll
<1>3. QED
  BY <1>1, <1>2, PTL

=============================================================================
