--------------------------- MODULE RecursionLemmas ---------------------------
(* Facts about numbers, sequences and functions defined by recursion, for the *)
(* proofs about the other modules.  Induction is by the least counterexample.  *)
EXTENDS Naturals, Sequences, FiniteSets, SequencesExt, FiniteSetsExt,
        FiniteSetTheorems, SequenceTheorems, WellFoundedInduction, TLAPS

(* A set of numbers has a least one, which Min returns: of the initial     *)
(* parts of the set, the smallest ends with it.                            *)
LEMMA LeastOf ==
  ASSUME NEW S \in SUBSET Nat, S # {}
  PROVE  Min(S) \in S /\ \A x \in S : Min(S) <= x
<1> DEFINE Part(n) == S \cap (0..n)
           Parts == {Part(n) : n \in S}
<1>1. Parts \subseteq FiniteSubsetsOf(S) /\ Parts # {}
  <2>1. \A n \in S : IsFiniteSet(0..n)
    BY FS_Interval
  <2>2. \A n \in S : IsFiniteSet(Part(n)) /\ Part(n) \in SUBSET S
    BY <2>1, FS_Intersection
  <2>3. QED
    BY <2>2 DEF FiniteSubsetsOf
<1>2. PICK P \in Parts : \A Q \in Parts : ~(<<Q, P>> \in StrictSubsetOrdering(S))
  BY ONLY <1>1, FS_StrictSubsetOrderingWellFounded, WFMin
<1>3. PICK n \in S : P = Part(n)
  BY <1>2
<1>4. ASSUME NEW m \in S PROVE n <= m
  <2>1. SUFFICES ASSUME m < n PROVE FALSE
    OBVIOUS
  <2>2. Part(m) \subseteq Part(n) /\ n \in Part(n) /\ n \notin Part(m)
    BY <2>1
  <2>3. <<Part(m), Part(n)>> \in StrictSubsetOrdering(S)
    BY <2>2 DEF StrictSubsetOrdering
  <2>4. QED
    BY <1>2, <1>3, <2>3
<1>5. QED
  BY <1>4 DEF Min

(* From each of a series of steps follows the next value: there is a function *)
(* of all the values.                                                       *)
LEMMA Iterated ==
  ASSUME NEW X, NEW first \in X, NEW step \in [Nat -> [X -> X]]
  PROVE  \E f \in [Nat -> X] : f[0] = first /\ \A n \in Nat \ {0} : f[n] = step[n][f[n - 1]]
<1> DEFINE Part(n) == {g \in [0..n -> X] : /\ g[0] = first
                                           /\ \A k \in 1..n : g[k] = step[k][g[k - 1]]}
           Missing == {n \in Nat : Part(n) = {}}
<1>1. Missing = {}
  <2>1. SUFFICES ASSUME Missing # {} PROVE FALSE
    OBVIOUS
  <2>2. PICK n \in Missing : \A m \in Missing : n <= m
    <3>1. Missing \in SUBSET Nat
      OBVIOUS
    <3>2. QED
      BY ONLY <2>1, <3>1, LeastOf
  <2>3. n # 0
    <3>1. [i \in 0..0 |-> first] \in Part(0)
      OBVIOUS
    <3>2. QED
      BY <3>1
  <2>4. PICK g : g \in Part(n - 1)
    <3>1. n - 1 \in Nat /\ n - 1 < n
      BY <2>3
    <3>2. n - 1 \notin Missing
      BY <2>2, <3>1
    <3>3. QED
      BY <3>1, <3>2
  <2> DEFINE h == [i \in 0..n |-> IF i = n THEN step[n][g[n - 1]] ELSE g[i]]
  <2>5. h \in Part(n)
    <3>1. h \in [0..n -> X]
      BY <2>3, <2>4
    <3>2. h[0] = first
      BY <2>3, <2>4
    <3>3. ASSUME NEW k \in 1..n PROVE h[k] = step[k][h[k - 1]]
      BY <2>3, <2>4
    <3>4. QED
      BY <3>1, <3>2, <3>3
  <2>6. QED
    BY <2>5
<1>2. ASSUME NEW m \in Nat, NEW n \in Nat, NEW g \in Part(m), NEW h \in Part(n), n <= m
      PROVE  \A i \in 0..n : g[i] = h[i]
  <2> DEFINE Different == {i \in 0..n : g[i] # h[i]}
  <2>1. SUFFICES ASSUME Different # {} PROVE FALSE
    OBVIOUS
  <2>2. PICK i \in Different : \A j \in Different : i <= j
    <3>1. Different \in SUBSET Nat
      OBVIOUS
    <3>2. QED
      BY ONLY <2>1, <3>1, LeastOf
  <2>3. i # 0
    OBVIOUS
  <2>4. i - 1 \in 0..n /\ i \in 1..n /\ i \in 1..m /\ i - 1 \notin Different
    BY <2>2, <2>3, <1>2
  <2>5. g[i - 1] = h[i - 1]
    BY <2>4
  <2>6. g[i] = step[i][g[i - 1]] /\ h[i] = step[i][h[i - 1]]
    BY <2>4
  <2>7. QED
    BY <2>5, <2>6
<1>3. PICK part : \A n \in Nat : part[n] \in Part(n)
  <2> DEFINE q == [n \in Nat |-> CHOOSE g \in Part(n) : TRUE]
  <2>1. \A n \in Nat : q[n] \in Part(n)
    BY <1>1
  <2>2. QED
    BY <2>1
<1> DEFINE f == [n \in Nat |-> part[n][n]]
<1>4. f \in [Nat -> X] /\ f[0] = first
  <2>1. ASSUME NEW n \in Nat PROVE f[n] \in X
    BY <1>3
  <2>2. part[0][0] = first
    BY <1>3
  <2>3. QED
    BY <2>1, <2>2
<1>5. ASSUME NEW n \in Nat \ {0} PROVE f[n] = step[n][f[n - 1]]
  <2>1. n - 1 \in Nat /\ n - 1 <= n /\ n - 1 \in 0..(n - 1) /\ n \in 1..n
    OBVIOUS
  <2>2. part[n] \in Part(n) /\ part[n - 1] \in Part(n - 1)
    BY <1>3, <2>1
  <2>3. part[n][n] = step[n][part[n][n - 1]]
    BY <2>1, <2>2
  <2> HIDE DEF Part
  <2>4. part[n][n - 1] = part[n - 1][n - 1]
    BY <1>2, <2>1, <2>2
  <2>5. QED
    BY <2>1, <2>3, <2>4
<1>6. QED
  BY <1>4, <1>5

(* The functions that a step generates from a first value                    *)
Iterates(X, first, step) ==
  {f \in [Nat -> X] : f[0] = first /\ \A n \in Nat \ {0} : f[n] = step[n][f[n - 1]]}

(* There are some.                                                           *)
LEMMA IteratesExist ==
  ASSUME NEW X, NEW first \in X, NEW step \in [Nat -> [X -> X]]
  PROVE  Iterates(X, first, step) # {}
<1>1. PICK f \in [Nat -> X] : f[0] = first /\ \A n \in Nat \ {0} : f[n] = step[n][f[n - 1]]
  BY Iterated, Z3
<1>2. QED
  BY <1>1 DEF Iterates

(* The same for one step that is repeated                                    *)
LEMMA IteratedOne ==
  ASSUME NEW X, NEW first \in X, NEW step \in [X -> X]
  PROVE  \E f \in [Nat -> X] : f[0] = first /\ \A n \in Nat \ {0} : f[n] = step[f[n - 1]]
<1> DEFINE steps == [n \in Nat |-> step]
<1>1. steps \in [Nat -> [X -> X]]
  OBVIOUS
<1>2. \A n \in Nat \ {0} : steps[n] = step
  OBVIOUS
<1> HIDE DEF steps
<1>3. PICK f \in [Nat -> X] : f[0] = first /\ \A n \in Nat \ {0} : f[n] = steps[n][f[n - 1]]
  <2>1. \A s \in [Nat -> [X -> X]] : \E f \in [Nat -> X] :
          f[0] = first /\ \A n \in Nat \ {0} : f[n] = s[n][f[n - 1]]
    BY Iterated
  <2>2. QED
    BY ONLY <1>1, <2>1
<1>4. QED
  BY <1>2, <1>3

(* Two functions that start with one value and go on alike are one.          *)
LEMMA SameIterates ==
  ASSUME NEW f, NEW g, f = [n \in Nat |-> f[n]], g = [n \in Nat |-> g[n]], f[0] = g[0],
         \A n \in Nat \ {0} : f[n - 1] = g[n - 1] => f[n] = g[n]
  PROVE  f = g
<1> DEFINE Different == {n \in Nat : f[n] # g[n]}
<1>1. Different = {}
  <2>1. SUFFICES ASSUME Different # {} PROVE FALSE
    OBVIOUS
  <2>2. PICK n \in Different : \A m \in Different : n <= m
    <3>1. Different \in SUBSET Nat
      OBVIOUS
    <3>2. QED
      BY ONLY <2>1, <3>1, LeastOf
  <2>3. n # 0 /\ n - 1 \in Nat /\ n - 1 \notin Different
    BY <2>2
  <2>4. QED
    BY <2>3
<1>2. QED
  BY <1>1

(* A set of positions that holds all before each of its own is an initial   *)
(* part, and its cardinality says which.                                    *)
LEMMA InitialPart ==
  ASSUME NEW n \in Nat, NEW K \in SUBSET (1..n),
         \A i \in K : \A j \in 1..n : j < i => j \in K
  PROVE  Cardinality(K) \in 0..n /\ K = 1..Cardinality(K)
<1> DEFINE Beyond == {i \in 1..(n + 1) : i \notin K}
<1>1. PICK m \in Beyond : \A i \in Beyond : m <= i
  <2>1. Beyond \in SUBSET Nat /\ n + 1 \in Beyond
    OBVIOUS
  <2>2. QED
    BY ONLY <2>1, LeastOf
<1>2. K = 1..(m - 1)
  <2>1. \A i \in 1..(m - 1) : i \in K
    BY <1>1
  <2>2. ASSUME NEW i \in K PROVE i \in 1..(m - 1)
    BY <1>1
  <2>3. QED
    BY <2>1, <2>2, Zenon
<1>3. m - 1 \in 0..n
  OBVIOUS
<1>4. Cardinality(1..(m - 1)) = m - 1
  BY <1>3, FS_Interval
<1>5. QED
  BY <1>2, <1>3, <1>4

(* A sequence that has nothing twice is as long as the set of what it has.   *)
LEMMA CountOfDistinct ==
  ASSUME NEW n \in Nat, NEW f, DOMAIN f = 1..n,
         \A i, j \in 1..n : f[i] = f[j] => i = j
  PROVE  Cardinality({f[i] : i \in 1..n}) = n
<1> DEFINE S == {f[i] : i \in 1..n}
           g == [i \in 1..n |-> f[i]]
<1>1. g \in [1..n -> S] /\ \A i, j \in 1..n : g[i] = g[j] => i = j
  OBVIOUS
<1>2. \A y \in S : \E i \in 1..n : g[i] = y
  OBVIOUS
<1>3. g \in Bijection(1..n, S)
  BY <1>1, <1>2 DEF Bijection, Injection, Surjection, IsInjective
<1>4. ExistsBijection(1..n, S)
  BY <1>3 DEF ExistsBijection
<1>5. QED
  BY <1>4, FS_CountingElements

(* What InsertAt makes of a sequence, element by element.                    *)
LEMMA Inserted ==
  ASSUME NEW S, NEW s \in Seq(S), NEW e \in S, NEW p \in 1..(Len(s) + 1)
  PROVE  /\ InsertAt(s, p, e) \in Seq(S) /\ Len(InsertAt(s, p, e)) = Len(s) + 1
         /\ \A i \in 1..(Len(s) + 1) :
              InsertAt(s, p, e)[i] = IF i < p THEN s[i] ELSE IF i = p THEN e ELSE s[i - 1]
<1> DEFINE left == SubSeq(s, 1, p - 1)
           right == SubSeq(s, p, Len(s))
<1>1. left \in Seq(S) /\ Len(left) = p - 1 /\ \A i \in 1..(p - 1) : left[i] = s[i]
  OBVIOUS
<1>2. right \in Seq(S) /\ Len(right) = Len(s) - p + 1
      /\ \A i \in 1..(Len(s) - p + 1) : right[i] = s[p + i - 1]
  OBVIOUS
<1>3. InsertAt(s, p, e) = left \o <<e>> \o right
  BY DEF InsertAt
<1> HIDE DEF left, right
<1> DEFINE mid == left \o <<e>>
<1>4. mid \in Seq(S) /\ Len(mid) = p
      /\ \A i \in 1..p : mid[i] = IF i < p THEN s[i] ELSE e
  <2>1. <<e>> \in Seq(S) /\ Len(<<e>>) = 1 /\ <<e>>[1] = e
    OBVIOUS
  <2>2. QED
    BY <1>1, <2>1
<1> HIDE DEF mid
<1>5. mid \o right \in Seq(S) /\ Len(mid \o right) = Len(s) + 1
      /\ \A i \in 1..(Len(s) + 1) : (mid \o right)[i] = IF i <= p THEN mid[i] ELSE right[i - p]
  <2>1. Len(mid) + Len(right) = Len(s) + 1
    BY <1>2, <1>4
  <2>2. QED
    BY <1>2, <1>4, <2>1, ConcatProperties
<1>6. ASSUME NEW i \in 1..(Len(s) + 1), i > p PROVE right[i - p] = s[i - 1]
  BY <1>2, <1>6
<1>7. InsertAt(s, p, e) = mid \o right
  BY <1>3 DEF mid
<1> DEFINE new == mid \o right
<1>8. \A i \in 1..(Len(s) + 1) :
        new[i] = IF i < p THEN s[i] ELSE IF i = p THEN e ELSE s[i - 1]
  <2>1. Len(s) \in Nat /\ p \in Nat /\ \A i \in 1..(Len(s) + 1) : i \in Nat
    OBVIOUS
  <2>2. \A i \in 1..(Len(s) + 1) : new[i] = IF i <= p THEN mid[i] ELSE right[i - p]
    BY <1>5
  <2>3. \A i \in 1..(Len(s) + 1) : i <= p => mid[i] = IF i < p THEN s[i] ELSE e
    BY <1>4
  <2> HIDE DEF new
  <2>4. ASSUME NEW i \in 1..(Len(s) + 1)
        PROVE  new[i] = IF i < p THEN s[i] ELSE IF i = p THEN e ELSE s[i - 1]
    <3>1. CASE i <= p
      BY <2>1, <2>2, <2>3, <3>1
    <3>2. CASE i > p
      BY <1>6, <2>1, <2>2, <3>2
    <3>3. QED
      BY <2>1, <3>1, <3>2
  <2>5. QED
    BY <2>4
<1>9. QED
  BY <1>5, <1>7, <1>8

(* A function on the first numbers is a sequence of its values.              *)
LEMMA SequenceOfValues ==
  ASSUME NEW n \in Nat, NEW f, f = [i \in 1..n |-> f[i]]
  PROVE  f \in Seq(Range(f)) /\ Len(f) = n /\ DOMAIN f = 1..n
<1>1. DOMAIN f = 1..n
  OBVIOUS
<1>2. f \in [1..n -> Range(f)]
  BY <1>1 DEF Range
<1>3. QED
  BY <1>1, <1>2

(* What a sequence has and how long it is with one more at the end           *)
LEMMA RangeAppended ==
  ASSUME NEW S, NEW s \in Seq(S), NEW x \in S
  PROVE  Range(Append(s, x)) = Range(s) \cup {x} /\ Len(Append(s, x)) = Len(s) + 1
<1>1. /\ Append(s, x) \in Seq(S) /\ Len(Append(s, x)) = Len(s) + 1 /\ Len(s) \in Nat
      /\ \A i \in 1..Len(s) : Append(s, x)[i] = s[i]
      /\ Append(s, x)[Len(s) + 1] = x
      /\ DOMAIN s = 1..Len(s) /\ DOMAIN Append(s, x) = 1..(Len(s) + 1)
  BY AppendProperties
<1>2. ASSUME NEW y \in Range(Append(s, x)) PROVE y \in Range(s) \cup {x}
  <2>1. PICK i \in 1..(Len(s) + 1) : y = Append(s, x)[i]
    BY <1>1, <1>2 DEF Range
  <2>2. CASE i = Len(s) + 1
    BY <1>1, <2>1, <2>2
  <2>3. CASE i # Len(s) + 1
    <3>1. i \in 1..Len(s)
      BY <1>1, <2>3
    <3>2. QED
      BY <1>1, <2>1, <3>1 DEF Range
  <2>4. QED
    BY <2>2, <2>3
<1>3. ASSUME NEW y \in Range(s) \cup {x} PROVE y \in Range(Append(s, x))
  <2>1. CASE y = x
    <3>1. Len(s) + 1 \in 1..(Len(s) + 1)
      BY <1>1
    <3>2. QED
      BY <1>1, <2>1, <3>1 DEF Range
  <2>2. CASE y \in Range(s)
    <3>1. PICK i \in 1..Len(s) : y = s[i]
      BY <1>1, <2>2 DEF Range
    <3>2. i \in 1..(Len(s) + 1)
      BY <1>1
    <3>3. QED
      BY <1>1, <3>1, <3>2 DEF Range
  <2>3. QED
    BY <1>3, <2>1, <2>2
<1>4. QED
  BY <1>1, <1>2, <1>3

(* A sequence as long as the set of what it has has nothing twice.           *)
LEMMA DistinctByCount ==
  ASSUME NEW S, NEW s \in Seq(S), Len(s) = Cardinality(Range(s))
  PROVE  \A i, j \in 1..Len(s) : s[i] = s[j] => i = j
<1>1. DOMAIN s = 1..Len(s) /\ Len(s) \in Nat
  OBVIOUS
<1>2. IsFiniteSet(1..Len(s)) /\ Cardinality(1..Len(s)) = Len(s)
  BY <1>1, FS_Interval
<1>3. s \in Surjection(1..Len(s), Range(s))
  <2>1. s \in [1..Len(s) -> Range(s)]
    <3>1. s = [i \in 1..Len(s) |-> s[i]]
      OBVIOUS
    <3>2. \A i \in 1..Len(s) : s[i] \in Range(s)
      BY <1>1 DEF Range
    <3>3. QED
      BY <3>1, <3>2
  <2>2. \A y \in Range(s) : \E i \in 1..Len(s) : s[i] = y
    BY <1>1 DEF Range
  <2>3. QED
    BY <2>1, <2>2 DEF Surjection
<1>4. s \in Injection(1..Len(s), Range(s))
  BY <1>2, <1>3, FS_Surjection
<1>5. QED
  BY <1>4 DEF Injection, IsInjective

-----------------------------------------------------------------------------
(* Removing from a sequence. *)

Cut(s, from, to) == SubSeq(s, 1, from - 1) \o SubSeq(s, to, Len(s))

(* What is left when the elements from one position up to another are cut.   *)
LEMMA CutLeaves ==
  ASSUME NEW S, NEW s \in Seq(S), NEW from \in 1..(Len(s) + 1), NEW to \in from..(Len(s) + 1)
  PROVE  /\ Cut(s, from, to) \in Seq(S) /\ Len(Cut(s, from, to)) = Len(s) - (to - from)
         /\ \A i \in 1..(Len(s) - (to - from)) :
              Cut(s, from, to)[i] = IF i < from THEN s[i] ELSE s[i + (to - from)]
<1> DEFINE left == SubSeq(s, 1, from - 1)
           right == SubSeq(s, to, Len(s))
<1>1. left \in Seq(S) /\ Len(left) = from - 1 /\ \A i \in 1..(from - 1) : left[i] = s[i]
  OBVIOUS
<1>2. /\ right \in Seq(S) /\ Len(right) = Len(s) + 1 - to
      /\ \A i \in 1..(Len(s) + 1 - to) : right[i] = s[to + i - 1]
  OBVIOUS
<1> HIDE DEF left, right
<1>3. /\ left \o right \in Seq(S) /\ Len(left \o right) = Len(left) + Len(right)
      /\ \A i \in 1..(Len(left) + Len(right)) :
           (left \o right)[i] = IF i <= Len(left) THEN left[i] ELSE right[i - Len(left)]
  BY <1>1, <1>2, ConcatProperties
<1>4. Cut(s, from, to) = left \o right
  BY DEF Cut, left, right
<1>5. Len(s) \in Nat
  OBVIOUS
<1>6. ASSUME NEW i \in 1..(Len(s) - (to - from))
      PROVE  Cut(s, from, to)[i] = IF i < from THEN s[i] ELSE s[i + (to - from)]
  <2>1. CASE i < from
    BY <1>1, <1>2, <1>3, <1>4, <1>5, <2>1
  <2>2. CASE ~(i < from)
    <3>1. i - (from - 1) \in 1..(Len(s) + 1 - to) /\ to + (i - (from - 1)) - 1 = i + (to - from)
      BY <1>5, <2>2
    <3>2. Cut(s, from, to)[i] = right[i - (from - 1)]
      BY <1>1, <1>2, <1>3, <1>4, <1>5, <2>2
    <3>3. QED
      BY <1>2, <2>2, <3>1, <3>2
  <2>3. QED
    BY <2>1, <2>2
<1>7. Cut(s, from, to) \in Seq(S) /\ Len(Cut(s, from, to)) = Len(s) - (to - from)
  <2>1. Len(left) + Len(right) = Len(s) - (to - from)
    BY <1>1, <1>2, <1>5
  <2>2. QED
    BY <1>3, <1>4, <2>1
<1>8. QED
  BY <1>6, <1>7

(* Removing the one place of an element cuts it.                            *)
LEMMA RemovedIsCut ==
  ASSUME NEW S, NEW s \in Seq(S), NEW k \in 1..Len(s), \A i \in 1..Len(s) : s[i] = s[k] => i = k
  PROVE  RemoveFirst(s, s[k]) = Cut(s, k, k + 1)
<1> DEFINE I == {i \in 1..Len(s) : s[i] = s[k]}
<1>1. I = {k}
  OBVIOUS
<1>2. Min(I) = k
  <2>1. I \in SUBSET Nat /\ I # {}
    BY <1>1
  <2>2. Min(I) \in I
    BY <2>1, LeastOf
  <2>3. QED
    BY <1>1, <2>2
<1>3. SelectInSeq(s, LAMBDA v : v = s[k]) = k
  <2>1. I # {}
    BY <1>1
  <2>2. QED
    BY <1>2, <2>1 DEF SelectInSeq
<1>4. QED
  BY <1>3 DEF RemoveFirst, RemoveAt, Cut

(* An element that is nowhere is not removed.                               *)
LEMMA NothingRemoved ==
  ASSUME NEW S, NEW s \in Seq(S), NEW x, \A i \in 1..Len(s) : s[i] # x
  PROVE  RemoveFirst(s, x) = s
  BY DEF RemoveFirst

-----------------------------------------------------------------------------
(* Sequences of records with a key, which a set of keys fills. *)

(* A cache with one entry for each table of K, in the order of bases if asked. *)
Arranged(cache, K, ordered, base) ==
  /\ cache \in Seq(Range(cache))
  /\ \A i \in 1..Len(cache) : cache[i].id \in K
  /\ \A t \in K : \E i \in 1..Len(cache) : cache[i].id = t
  /\ \A i, j \in 1..Len(cache) : cache[i].id = cache[j].id => i = j
  /\ ordered => \A i, j \in 1..Len(cache) : i < j => base[cache[i].id] <= base[cache[j].id]

(* The place of one more entry                                               *)
Spot(cache, ordered, base, b) ==
  IF ~ordered THEN Len(cache) + 1
  ELSE 1 + Cardinality({i \in 1..Len(cache) : base[cache[i].id] <= b})

(* It is a place in the cache, or the one behind the last.                   *)
LEMMA SlotWithin ==
  ASSUME NEW S, NEW cache \in Seq(S), NEW ordered, NEW base, NEW b
  PROVE  Spot(cache, ordered, base, b) \in 1..(Len(cache) + 1)
<1> DEFINE K == {i \in 1..Len(cache) : base[cache[i].id] <= b}
<1>1. Len(cache) \in Nat
  OBVIOUS
<1>2. IsFiniteSet(1..Len(cache)) /\ Cardinality(1..Len(cache)) = Len(cache)
  BY <1>1, FS_Interval
<1>3. Cardinality(K) \in Nat /\ Cardinality(K) <= Len(cache)
  <2>1. K \subseteq 1..Len(cache)
    OBVIOUS
  <2> HIDE DEF K
  <2>2. QED
    BY <1>2, <2>1, FS_Subset, FS_CardinalityType
<1> HIDE DEF K
<1>4. 1 + Cardinality(K) \in 1..(Len(cache) + 1) /\ Len(cache) + 1 \in 1..(Len(cache) + 1)
  BY <1>1, <1>3
<1>5. QED
  BY <1>4 DEF Spot, K

(* One more entry at its place: no table twice, and the order is kept.       *)
LEMMA ArrangedMore ==
  ASSUME NEW cache, NEW K, NEW ordered, NEW base, Arranged(cache, K, ordered, base),
         NEW t, t \notin K, \A u \in K \cup {t} : base[u] \in Nat, NEW entry, entry.id = t
  PROVE  LET p == Spot(cache, ordered, base, base[t]) IN
         Arranged(InsertAt(cache, p, entry), K \cup {t}, ordered, base)
<1> DEFINE p == Spot(cache, ordered, base, base[t])
           S == Range(cache) \cup {entry}
           new == InsertAt(cache, p, entry)
           n == Len(cache)
<1>1. cache \in Seq(S) /\ entry \in S /\ n \in Nat
  <2>1. cache \in Seq(Range(cache)) /\ Range(cache) \subseteq S
    BY DEF Arranged
  <2> HIDE DEF S
  <2>2. cache \in Seq(S)
    BY <2>1, SeqMonotonic
  <2>3. QED
    BY <2>2 DEF S
<1>2. p \in 1..(n + 1)
  BY <1>1, SlotWithin
<1> HIDE DEF p
<1>3. new \in Seq(S) /\ Len(new) = n + 1
      /\ \A i \in 1..(n + 1) : new[i] = IF i < p THEN cache[i] ELSE IF i = p THEN entry ELSE cache[i - 1]
  <2> HIDE DEF S
  <2>1. QED
    BY <1>1, <1>2, Inserted
<1>4. new \in Seq(Range(new))
  <2> HIDE DEF S, new
  <2>1. QED
    BY <1>3, SeqOfRange
<1>5. DOMAIN new = 1..(n + 1)
  <2> HIDE DEF S, new
  <2>1. QED
    BY <1>3
<1>6. /\ \A i \in 1..n : cache[i].id \in K
      /\ \A u \in K : \E i \in 1..n : cache[i].id = u
      /\ \A i, j \in 1..n : cache[i].id = cache[j].id => i = j
      /\ ordered => \A i, j \in 1..n : i < j => base[cache[i].id] <= base[cache[j].id]
  BY DEF Arranged
<1> HIDE DEF new, n, S
(* From where in the cache an entry of the new one comes                      *)
<1> DEFINE from(i) == IF i < p THEN i ELSE i - 1
<1>7. /\ new[p].id = t
      /\ \A i \in 1..(n + 1) \ {p} : from(i) \in 1..n /\ new[i] = cache[from(i)]
      /\ \A i, j \in 1..(n + 1) \ {p} : from(i) = from(j) => i = j
      /\ \A i, j \in 1..(n + 1) \ {p} : i < j => from(i) < from(j)
      /\ \A i \in 1..n : \E j \in 1..(n + 1) \ {p} : from(j) = i
  <2>1. new[p].id = t
    BY <1>2, <1>3
  <2>2. \A i \in 1..(n + 1) \ {p} : from(i) \in 1..n /\ new[i] = cache[from(i)]
    BY <1>1, <1>2, <1>3
  <2>3. \A i, j \in 1..(n + 1) \ {p} : (from(i) = from(j) => i = j) /\ (i < j => from(i) < from(j))
    BY <1>1, <1>2
  <2>4. ASSUME NEW i \in 1..n PROVE \E j \in 1..(n + 1) \ {p} : from(j) = i
    <3>1. CASE i < p
      <4>1. i \in 1..(n + 1) \ {p} /\ from(i) = i
        BY <1>1, <1>2, <3>1
      <4>2. QED
        BY <4>1
    <3>2. CASE i >= p
      <4>1. i + 1 \in 1..(n + 1) \ {p} /\ from(i + 1) = i
        BY <1>1, <1>2, <3>2
      <4>2. QED
        BY <4>1
    <3>3. QED
      BY <1>1, <1>2, <3>1, <3>2
  <2>5. QED
    BY <2>1, <2>2, <2>3, <2>4
<1> HIDE DEF from
<1>8. \A i \in 1..(n + 1) : new[i].id \in K \cup {t}
  BY <1>2, <1>6, <1>7
<1>9. \A u \in K \cup {t} : \E i \in 1..(n + 1) : new[i].id = u
  BY <1>2, <1>6, <1>7
<1>10. \A i, j \in 1..(n + 1) : new[i].id = new[j].id => i = j
  BY <1>2, <1>6, <1>7
<1>11. ASSUME ordered PROVE \A i, j \in 1..(n + 1) : i < j => base[new[i].id] <= base[new[j].id]
  <2> DEFINE L == {i \in 1..n : base[cache[i].id] <= base[t]}
  <2>1. \A i \in 1..n : base[cache[i].id] \in Nat
    BY <1>6
  <2>2. \A i, j \in 1..n : i < j => base[cache[i].id] <= base[cache[j].id]
    BY <1>6, <1>11
  <2>3. \A i \in L : \A j \in 1..n : j < i => j \in L
    BY <2>1, <2>2
  <2>4. Cardinality(L) \in 0..n /\ L = 1..Cardinality(L)
    <3>1. L \in SUBSET (1..n)
      OBVIOUS
    <3> HIDE DEF L
    <3>2. QED
      BY <1>1, <2>3, <3>1, InitialPart
  <2>5. p = 1 + Cardinality(L)
    BY <1>11 DEF p, Spot, n
  <2>6. \A i \in 1..n : i < p <=> base[cache[i].id] <= base[t]
    <3>1. \A i \in 1..n : i \in L <=> base[cache[i].id] <= base[t]
      OBVIOUS
    <3> HIDE DEF L
    <3>2. \A i \in 1..n : i < p <=> i \in L
      BY <1>1, <2>4, <2>5
    <3>3. QED
      BY <3>1, <3>2
  <2> HIDE DEF L
  <2>7. ASSUME NEW i \in 1..(n + 1), NEW j \in 1..(n + 1), i < j
        PROVE  base[new[i].id] <= base[new[j].id]
    <3>1. CASE i # p /\ j # p
      <4>1. from(i) \in 1..n /\ from(j) \in 1..n /\ from(i) < from(j)
            /\ new[i] = cache[from(i)] /\ new[j] = cache[from(j)]
        BY <1>7, <2>7, <3>1
      <4>2. QED
        BY <2>2, <4>1
    <3>2. CASE i = p
      <4>1. from(j) = j - 1 /\ from(j) \in 1..n /\ new[j] = cache[from(j)] /\ ~(from(j) < p)
        BY <1>2, <1>7, <2>7, <3>2 DEF from
      <4>2. base[t] \in Nat
        OBVIOUS
      <4>3. QED
        BY <1>7, <2>1, <2>6, <3>2, <4>1, <4>2
    <3>3. CASE j = p
      <4>1. from(i) = i /\ from(i) \in 1..n /\ new[i] = cache[from(i)] /\ from(i) < p
        BY <1>2, <1>7, <2>7, <3>3 DEF from
      <4>2. QED
        BY <1>7, <2>6, <3>3, <4>1
    <3>4. QED
      BY <3>1, <3>2, <3>3
  <2>8. QED
    BY <2>7
<1>12. Arranged(new, K \cup {t}, ordered, base)
  BY <1>3, <1>4, <1>8, <1>9, <1>10, <1>11 DEF Arranged
<1>13. QED
  BY <1>12 DEF new, p

(* Another cache with the same tables at the same places.                    *)
LEMMA ArrangedAgain ==
  ASSUME NEW cache, NEW K, NEW ordered, NEW base, Arranged(cache, K, ordered, base),
         NEW cache2, NEW base2, cache2 = [i \in DOMAIN cache |-> cache2[i]],
         \A i \in DOMAIN cache : cache2[i].id = cache[i].id, \A t \in K : base2[t] = base[t]
  PROVE  Arranged(cache2, K, ordered, base2)
<1>1. cache \in Seq(Range(cache)) /\ Len(cache) \in Nat /\ DOMAIN cache = 1..Len(cache)
  BY DEF Arranged
<1>2. cache2 \in Seq(Range(cache2)) /\ Len(cache2) = Len(cache)
  BY <1>1, SequenceOfValues
<1>3. \A i \in 1..Len(cache) : cache[i].id \in K
  BY DEF Arranged
<1>4. QED
  BY <1>1, <1>2, <1>3 DEF Arranged

(* The tables named in a cache                                               *)
Named(cache) == {cache[i].id : i \in DOMAIN cache}

LEMMA ArrangedNames ==
  ASSUME NEW cache, NEW K, NEW ordered, NEW base, Arranged(cache, K, ordered, base)
  PROVE  Named(cache) = K
<1>1. DOMAIN cache = 1..Len(cache)
  BY DEF Arranged
<1>2. QED
  BY <1>1 DEF Arranged, Named

-----------------------------------------------------------------------------
(* Sequences without repetitions, and short ones. *)

NoRepeat(s) == \A i, j \in DOMAIN s : s[i] = s[j] => i = j

(* What is left of a sequence when an element is removed from it.             *)
LEMMA ListShorter ==
  ASSUME NEW S, NEW s \in Seq(S), NEW x
  PROVE  /\ RemoveFirst(s, x) \in Seq(S) /\ Range(RemoveFirst(s, x)) \subseteq Range(s)
         /\ NoRepeat(s) => /\ NoRepeat(RemoveFirst(s, x))
                           /\ Range(RemoveFirst(s, x)) = Range(s) \ {x}
<1>1. PICK n \in Nat : n = Len(s) /\ DOMAIN s = 1..n
  OBVIOUS
<1>2. CASE \A i \in 1..n : s[i] # x
  <2>1. RemoveFirst(s, x) = s
    BY <1>1, <1>2, NothingRemoved
  <2>2. x \notin Range(s)
    BY <1>1, <1>2 DEF Range
  <2>3. QED
    BY <2>1, <2>2
<1>3. ASSUME NEW j \in 1..n, s[j] = x
      PROVE  /\ RemoveFirst(s, x) \in Seq(S) /\ Range(RemoveFirst(s, x)) \subseteq Range(s)
             /\ NoRepeat(s) => /\ NoRepeat(RemoveFirst(s, x))
                               /\ Range(RemoveFirst(s, x)) = Range(s) \ {x}
  <2> DEFINE I == {i \in 1..Len(s) : s[i] = x}
  <2>1. PICK k \in 1..n : k = Min(I) /\ s[k] = x
    <3>1. I \in SUBSET Nat /\ I # {}
      BY <1>1, <1>3
    <3>2. Min(I) \in I
      BY <3>1, LeastOf
    <3>3. QED
      BY <1>1, <3>2
  <2>2. RemoveFirst(s, x) = Cut(s, k, k + 1)
    <3>1. SelectInSeq(s, LAMBDA v : v = x) = k
      <4>1. I # {}
        BY <1>1, <1>3
      <4>2. QED
        BY <2>1, <4>1 DEF SelectInSeq
    <3>2. \E i \in 1..Len(s) : s[i] = x
      BY <1>1, <1>3
    <3>3. QED
      BY <3>1, <3>2 DEF RemoveFirst, RemoveAt, Cut
  <2> HIDE DEF I
  <2>3. PICK r : r = Cut(s, k, k + 1)
    OBVIOUS
  <2>4. /\ r \in Seq(S) /\ DOMAIN r = 1..(n - 1)
        /\ \A i \in 1..(n - 1) : r[i] = IF i < k THEN s[i] ELSE s[i + 1]
    <3>1. k \in 1..(Len(s) + 1) /\ k + 1 \in k..(Len(s) + 1)
      BY <1>1
    <3>2. PICK to : to = k + 1
      OBVIOUS
    <3>3. to \in k..(Len(s) + 1) /\ r = Cut(s, k, to)
      BY <2>3, <3>1, <3>2
    <3>4. /\ r \in Seq(S) /\ Len(r) = Len(s) - (to - k)
          /\ \A i \in 1..(Len(s) - (to - k)) : r[i] = IF i < k THEN s[i] ELSE s[i + (to - k)]
      BY <3>1, <3>3, CutLeaves
    <3>5. to - k = 1 /\ \A i \in Nat : i + (to - k) = i + 1
      BY <3>2
    <3>6. Len(r) = n - 1 /\ \A i \in 1..(n - 1) : r[i] = IF i < k THEN s[i] ELSE s[i + (to - k)]
      BY <1>1, <3>4, <3>5
    <3>7. \A i \in 1..(n - 1) : r[i] = IF i < k THEN s[i] ELSE s[i + 1]
      BY <3>5, <3>6
    <3>8. QED
      BY <3>4, <3>6, <3>7
  <2>5. ASSUME NEW y \in Range(r)
        PROVE  \E i \in 1..n : i # k /\ s[i] = y
    <3>1. PICK i \in 1..(n - 1) : r[i] = y
      BY <2>4 DEF Range
    <3>2. CASE i < k
      BY <2>4, <3>1, <3>2
    <3>3. CASE ~(i < k)
      <4>1. i + 1 \in 1..n /\ i + 1 # k /\ s[i + 1] = y
        BY <2>4, <3>1, <3>3
      <4>2. QED
        BY <4>1
    <3>4. QED
      BY <3>2, <3>3
  <2>6. Range(r) \subseteq Range(s)
    BY <1>1, <2>5 DEF Range
  <2>7. ASSUME NoRepeat(s) PROVE NoRepeat(r) /\ Range(r) = Range(s) \ {x}
    <3>1. x \notin Range(r)
      BY <1>1, <2>1, <2>5, <2>7 DEF NoRepeat
    <3>2. ASSUME NEW y \in Range(s) \ {x} PROVE y \in Range(r)
      <4>1. PICK i \in 1..n : s[i] = y /\ i # k
        BY <1>1, <2>1, <3>2 DEF Range
      <4>2. CASE i < k
        <5>1. i \in DOMAIN r /\ r[i] = y
          BY <2>4, <4>1, <4>2
        <5>2. QED
          BY <5>1 DEF Range
      <4>3. CASE ~(i < k)
        <5>1. i - 1 \in 1..(n - 1) /\ ~(i - 1 < k) /\ (i - 1) + 1 = i
          BY <4>1, <4>3
        <5>2. i - 1 \in DOMAIN r /\ r[i - 1] = y
          BY <2>4, <4>1, <5>1
        <5>3. QED
          BY <5>2 DEF Range
      <4>4. QED
        BY <4>2, <4>3
    <3>3. ASSUME NEW i \in DOMAIN r, NEW j2 \in DOMAIN r, r[i] = r[j2] PROVE i = j2
      <4>1. i \in 1..(n - 1) /\ j2 \in 1..(n - 1)
        BY <2>4
      <4>2. PICK a \in 1..n : a = (IF i < k THEN i ELSE i + 1) /\ r[i] = s[a]
        BY <2>4, <4>1
      <4>3. PICK b \in 1..n : b = (IF j2 < k THEN j2 ELSE j2 + 1) /\ r[j2] = s[b]
        BY <2>4, <4>1
      <4>4. a = b
        BY <1>1, <2>7, <3>3, <4>2, <4>3 DEF NoRepeat
      <4>5. QED
        BY <4>1, <4>2, <4>3, <4>4
    <3>4. QED
      BY <2>6, <3>1, <3>2, <3>3 DEF NoRepeat
  <2>8. QED
    BY <2>2, <2>3, <2>4, <2>6, <2>7
<1>4. QED
  BY <1>2, <1>3

LEMMA AppendDistinct ==
  ASSUME NEW s \in Seq(Nat), NEW x \in Nat, NoRepeat(s), x \notin Range(s)
  PROVE  NoRepeat(Append(s, x)) /\ Range(Append(s, x)) = Range(s) \cup {x}
<1>1. PICK n \in Nat : n = Len(s) /\ DOMAIN s = 1..n
  OBVIOUS
<1>2. PICK r : r = Append(s, x)
  OBVIOUS
<1>3. DOMAIN r = 1..(n + 1) /\ r[n + 1] = x /\ \A i \in 1..n : r[i] = s[i]
  BY <1>1, <1>2
<1>4. \A i \in 1..n : s[i] # x
  BY <1>1 DEF Range
<1>5. \A i, j \in 1..n : s[i] = s[j] => i = j
  BY <1>1 DEF NoRepeat
<1>6. NoRepeat(r)
  BY <1>3, <1>4, <1>5 DEF NoRepeat
<1>7. Range(r) = Range(s) \cup {x}
  <2>1. \A i \in 1..(n + 1) : i \in 1..n \/ i = n + 1
    OBVIOUS
  <2>2. \A i \in 1..n : i \in 1..(n + 1)
    OBVIOUS
  <2>3. n + 1 \in 1..(n + 1)
    OBVIOUS
  <2>4. QED
    BY <1>1, <1>3, <2>1, <2>2, <2>3 DEF Range
<1>8. QED
  BY <1>2, <1>6, <1>7

Short(s, n) == \E X : s \in Seq(X) /\ Len(s) <= n

LEMMA MappedShort ==
  ASSUME NEW s, NEW n, Short(s, n), NEW r, r = [i \in DOMAIN s |-> r[i]]
  PROVE  Short(r, n)
<1>1. PICK X : s \in Seq(X) /\ Len(s) <= n
  BY DEF Short
<1>2. PICK k \in Nat : k = Len(s) /\ DOMAIN s = 1..k
  BY <1>1
<1> DEFINE Y == {r[i] : i \in 1..k}
<1>3. \A i \in 1..k : r[i] \in Y
  OBVIOUS
<1> HIDE DEF Y
<1>4. r \in [1..k -> Y]
  BY <1>2, <1>3
<1>5. r \in Seq(Y) /\ Len(r) = k
  BY <1>4
<1>6. QED
  BY <1>1, <1>2, <1>5 DEF Short

LEMMA PrefixedShort ==
  ASSUME NEW s, NEW n \in Nat, Short(s, n), Len(s) < n, NEW x
  PROVE  Short(<<x>> \o s, n)
<1>1. PICK X : s \in Seq(X) /\ Len(s) <= n
  BY DEF Short
<1> DEFINE Y == X \cup {x}
<1>2. s \in Seq(Y) /\ <<x>> \in Seq(Y) /\ Len(s) \in Nat
  BY <1>1
<1> HIDE DEF Y
<1>3. <<x>> \o s \in Seq(Y) /\ Len(<<x>> \o s) = 1 + Len(s)
  BY <1>2, ConcatProperties
<1>4. QED
  BY <1>2, <1>3 DEF Short

LEMMA TailShort ==
  ASSUME NEW s, NEW n \in Nat, Short(s, n), s # <<>>
  PROVE  Short(Tail(s), n) /\ \A x : Short(<<x>> \o Tail(s), n)
<1>1. PICK X : s \in Seq(X) /\ Len(s) <= n
  BY DEF Short
<1>2. Tail(s) \in Seq(X) /\ Len(Tail(s)) = Len(s) - 1 /\ Len(s) \in Nat
  BY <1>1
<1>3. Short(Tail(s), n) /\ Len(Tail(s)) < n
  BY <1>1, <1>2 DEF Short
<1>4. QED
  BY <1>3, PrefixedShort

(* A sequence with a member replaced, and one with a member put in front.    *)
LEMMA ReplacedInSeq ==
  ASSUME NEW S, NEW s \in Seq(S), NEW n \in DOMAIN s, NEW x \in S
  PROVE  [s EXCEPT ![n] = x] \in Seq(S) /\ DOMAIN [s EXCEPT ![n] = x] = DOMAIN s
  OBVIOUS

LEMMA FirstAdded ==
  ASSUME NEW S, NEW H \in Seq(S), NEW w \in S
  PROVE  LET r == <<w>> \o H IN
         /\ r \in Seq(S) /\ DOMAIN r = 1..(Len(H) + 1) /\ Len(H) \in Nat /\ DOMAIN H = 1..Len(H)
         /\ r[1] = w /\ \A i \in 2..(Len(H) + 1) : r[i] = H[i - 1]
<1>1. <<w>> \in Seq(S) /\ Len(H) \in Nat /\ DOMAIN H = 1..Len(H) /\ Len(<<w>>) = 1
  OBVIOUS
<1>2. /\ <<w>> \o H \in Seq(S) /\ Len(<<w>> \o H) = 1 + Len(H) /\ (<<w>> \o H)[1] = w
      /\ \A i \in 2..(1 + Len(H)) : (<<w>> \o H)[i] = H[i - 1]
  BY <1>1, ConcatProperties
<1>3. QED
  BY <1>1, <1>2

=============================================================================
