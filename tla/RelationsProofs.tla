--------------------------- MODULE RelationsProofs ---------------------------
(***************************************************************************)
(* The reverse index of every relation is exact, a cascade kills each      *)
(* entity once, nothing fails and what is left in the end is what the      *)
(* calls promise, for any entities, relations, edges, scopes and kills.    *)
(***************************************************************************)
EXTENDS Relations, RecursionLemmas

-----------------------------------------------------------------------------
(* Sequences: a list that loses one of its elements, the top of a stack. *)

LEMMA ReplacedIn ==
  ASSUME NEW S, NEW s \in Seq(S), NEW n \in DOMAIN s, NEW x \in S
  PROVE  [s EXCEPT ![n] = x] \in Seq(S) /\ Len([s EXCEPT ![n] = x]) = Len(s)
  OBVIOUS

LEMMA FrontIs ==
  ASSUME NEW S, NEW s \in Seq(S), s # <<>>
  PROVE  /\ Front(s) \in Seq(S) /\ Len(Front(s)) = Len(s) - 1 /\ Len(s) \in Nat \ {0}
         /\ \A j \in 1..(Len(s) - 1) : Front(s)[j] = s[j]
         /\ Last(s) = s[Len(s)] /\ Last(s) \in S
<1>1. Len(s) \in Nat \ {0} /\ Last(s) = s[Len(s)] /\ Last(s) \in S
  BY DEF Last
<1>2. Front(s) = SubSeq(s, 1, Len(s) - 1)
  BY DEF Front
<1>3. /\ SubSeq(s, 1, Len(s) - 1) \in Seq(S)
      /\ Len(SubSeq(s, 1, Len(s) - 1)) = (IF 1 <= Len(s) - 1 THEN Len(s) - 1 - 1 + 1 ELSE 0)
      /\ \A j \in 1..(Len(s) - 1 - 1 + 1) : SubSeq(s, 1, Len(s) - 1)[j] = s[1 + j - 1]
  BY <1>1, SubSeqProperties
<1>4. PICK f : f = SubSeq(s, 1, Len(s) - 1)
  OBVIOUS
<1>10. \A n \in Nat \ {0} : (IF 1 <= n - 1 THEN n - 1 - 1 + 1 ELSE 0) = n - 1
  OBVIOUS
<1>5. f \in Seq(S) /\ Len(f) = Len(s) - 1
  BY <1>1, <1>3, <1>4, <1>10, Zenon
<1>7. \A j \in 1..(Len(s) - 1) : 1 + j - 1 = j /\ j \in 1..(Len(s) - 1 - 1 + 1)
  BY <1>1
<1>8. \A j \in 1..(Len(s) - 1) : f[j] = s[j]
  BY <1>3, <1>4, <1>7, Zenon
<1>6. QED
  BY <1>1, <1>2, <1>4, <1>5, <1>8, Zenon

(* What is left when the place of one is filled with the last.               *)
Shorter(s, k) == Front([s EXCEPT ![k] = Last(s)])

LEMMA Shortened ==
  ASSUME NEW S, NEW s \in Seq(S), NEW k \in DOMAIN s
  PROVE  /\ Shorter(s, k) \in Seq(S) /\ Len(Shorter(s, k)) = Len(s) - 1 /\ Len(s) \in Nat \ {0}
         /\ \A j \in 1..(Len(s) - 1) : Shorter(s, k)[j] = IF j = k THEN s[Len(s)] ELSE s[j]
<1>1. s # <<>> /\ Len(s) \in Nat \ {0} /\ DOMAIN s = 1..Len(s)
  OBVIOUS
<1>2. Last(s) = s[Len(s)] /\ Last(s) \in S
  BY <1>1, FrontIs
<1>3. PICK q : q = [s EXCEPT ![k] = Last(s)]
  OBVIOUS
<1>4. q \in Seq(S) /\ Len(q) = Len(s)
  BY <1>2, <1>3, ReplacedIn
<1>5. \A j \in 1..Len(s) : q[j] = IF j = k THEN s[Len(s)] ELSE s[j]
  BY <1>1, <1>2, <1>3
<1>6. q # <<>>
  BY <1>1, <1>4
<1>7. Front(q) \in Seq(S) /\ Len(Front(q)) = Len(q) - 1 /\ \A j \in 1..(Len(q) - 1) : Front(q)[j] = q[j]
  BY <1>4, <1>6, FrontIs
<1>8. \A j \in 1..(Len(s) - 1) : Front(q)[j] = IF j = k THEN s[Len(s)] ELSE s[j]
  BY <1>1, <1>4, <1>5, <1>7
<1>9. Shorter(s, k) = Front(q)
  BY <1>3 DEF Shorter
<1>11. Len(Front(q)) = Len(s) - 1
  BY <1>4, <1>7
<1>10. QED
  BY <1>1, <1>7, <1>8, <1>9, <1>11, Zenon

-----------------------------------------------------------------------------
(* One relation. *)

IndexTypes(s) ==
  /\ s.target \in [Entities -> Entities \cup {NoEntity}] /\ s.index \in [Entities -> Nat]
  /\ s.sources \in [Entities -> Seq(Entities)] /\ s.marked \in [Entities -> BOOLEAN]

LEMMA IndexFields ==
  ASSUME NEW s \in Indexes
  PROVE  /\ IndexTypes(s)
         /\ s = [target |-> s.target, index |-> s.index, sources |-> s.sources, marked |-> s.marked]
  BY DEF Indexes, IndexTypes

LEMMA IndexFrom ==
  ASSUME NEW s, IndexTypes(s),
         s = [target |-> s.target, index |-> s.index, sources |-> s.sources, marked |-> s.marked]
  PROVE  s \in Indexes
  BY DEF Indexes, IndexTypes

(* The source and the place its edge remembers fit together.                 *)
Placed(s, e) ==
  /\ s.index[e] \in DOMAIN s.sources[s.target[e]]
  /\ s.sources[s.target[e]][s.index[e]] = e

LEMMA DetachedIs ==
  ASSUME NEW s \in Indexes, NEW e \in Entities, NEW t \in Entities, s.target[e] = t,
         s.index[e] \in DOMAIN s.sources[t],
         NEW list, list = s.sources[t], NEW k, k = s.index[e], NEW d, d = Detached(s, e)
  PROVE  /\ d \in Indexes /\ d.target = s.target /\ d.marked = s.marked
         /\ d.sources = [s.sources EXCEPT ![t] = Shorter(list, k)]
         /\ d.index = [s.index EXCEPT ![list[Len(list)]] = k]
         /\ list \in Seq(Entities) /\ k \in 1..Len(list) /\ list[Len(list)] \in Entities
<1>1. IndexTypes(s) /\ s = [target |-> s.target, index |-> s.index, sources |-> s.sources, marked |-> s.marked]
  BY IndexFields
<1>2. list \in Seq(Entities)
  BY <1>1 DEF IndexTypes
<1>11. k \in DOMAIN list /\ k \in 1..Len(list) /\ list # <<>>
  BY <1>2
<1>3. Last(list) = list[Len(list)] /\ Last(list) \in Entities
  BY <1>2, <1>11, FrontIs
<1>4. Shorter(list, k) \in Seq(Entities)
  BY <1>2, <1>11, Shortened
<1>5. d = [s EXCEPT !.sources[t] = Shorter(list, k), !.index[Last(list)] = k]
  BY DEF Detached, Shorter
<1>12. PICK tg, ix, so, mk : s = [target |-> tg, index |-> ix, sources |-> so, marked |-> mk]
  BY <1>1
<1>13. d = [target |-> tg, index |-> [ix EXCEPT ![Last(list)] = k],
           sources |-> [so EXCEPT ![t] = Shorter(list, k)], marked |-> mk]
  BY <1>5, <1>12
<1>6. d = [target |-> s.target, index |-> [s.index EXCEPT ![list[Len(list)]] = k],
           sources |-> [s.sources EXCEPT ![t] = Shorter(list, k)], marked |-> s.marked]
  BY <1>3, <1>12, <1>13
<1>7. /\ [s.index EXCEPT ![list[Len(list)]] = k] \in [Entities -> Nat]
      /\ [s.sources EXCEPT ![t] = Shorter(list, k)] \in [Entities -> Seq(Entities)]
  BY <1>1, <1>2, <1>3, <1>4, <1>11 DEF IndexTypes
<1>14. /\ d.target = s.target /\ d.marked = s.marked
       /\ d.sources = [s.sources EXCEPT ![t] = Shorter(list, k)]
       /\ d.index = [s.index EXCEPT ![list[Len(list)]] = k]
  BY ONLY <1>6
<1>15. s.target \in [Entities -> Entities \cup {NoEntity}] /\ s.marked \in [Entities -> BOOLEAN]
  BY ONLY <1>1 DEF IndexTypes
<1>8. IndexTypes(d)
  BY ONLY <1>7, <1>14, <1>15 DEF IndexTypes
<1>9. d \in Indexes
  BY <1>6, <1>8, <1>14, IndexFrom
<1>10. QED
  BY <1>2, <1>3, <1>9, <1>11, <1>14

-----------------------------------------------------------------------------
(* The reverse index of one relation while the entities of K are being killed: *)
(* those of R have had their target's hook run, whatever frames are above.     *)

Entry(s, A, u, j) ==
  /\ s.sources[u][j] \in A /\ s.target[s.sources[u][j]] = u
  /\ s.index[s.sources[u][j]] = j
TrueLists(s, A) ==
  \A u \in A : ~s.marked[u] => \A j \in DOMAIN s.sources[u] : Entry(s, A, u, j)
Listed(s, A, R) ==
  \A x \in A \ R : s.target[x] \in A => s.marked[s.target[x]] \/ Placed(s, x)
NotIn(s, x, u) == \A j \in DOMAIN s.sources[u] : s.sources[u][j] # x
Unlisted(s, A, R) ==
  \A x \in A \cap R : s.target[x] \in A => s.marked[s.target[x]] \/ NotIn(s, x, s.target[x])
Clean(s, A, K) == \A u \in Entities : s.marked[u] => u \in A \cap K
Kept(s, A, K, R) ==
  TrueLists(s, A) /\ Listed(s, A, R) /\ Unlisted(s, A, R) /\ Clean(s, A, K)

(* One whose hook has run is in no list that is in use.                      *)
LEMMA NotInLists ==
  ASSUME NEW s, NEW A, NEW R, TrueLists(s, A), Unlisted(s, A, R), NEW x \in R
  PROVE  \A u \in A : ~s.marked[u] => NotIn(s, x, u)
<1>1. SUFFICES ASSUME NEW u \in A, ~s.marked[u], NEW j \in DOMAIN s.sources[u], s.sources[u][j] = x
               PROVE  FALSE
  BY DEF NotIn
<1>2. x \in A /\ s.target[x] = u
  BY <1>1 DEF TrueLists, Entry
<1>3. NotIn(s, x, u)
  BY <1>1, <1>2 DEF Unlisted
<1>4. QED
  BY <1>1, <1>3 DEF NotIn

(* The hook of a target takes the source out of the list.                    *)
LEMMA KeptDetached ==
  ASSUME NEW A \in SUBSET Entities, NEW K, NEW R, NEW s \in Indexes, Kept(s, A, K, R),
         NEW e \in Entities, s.target[e] \in A, ~s.marked[s.target[e]], Placed(s, e),
         NEW d, d = Detached(s, e)
  PROVE  /\ d \in Indexes /\ d.target = s.target /\ d.marked = s.marked
         /\ Kept(d, A, K, R \cup {e})
<1>1. PICK t \in A : t = s.target[e]
  OBVIOUS
<1>2. t \in Entities /\ ~s.marked[t] /\ IndexTypes(s)
  BY <1>1, IndexFields
<1>3. PICK list : list = s.sources[t]
  OBVIOUS
<1>4. PICK k : k = s.index[e]
  OBVIOUS
<1>5. k \in DOMAIN list /\ list[k] = e
  BY <1>1, <1>3, <1>4 DEF Placed
<1>6. /\ d \in Indexes /\ d.target = s.target /\ d.marked = s.marked
      /\ d.sources = [s.sources EXCEPT ![t] = Shorter(list, k)]
      /\ d.index = [s.index EXCEPT ![list[Len(list)]] = k]
      /\ list \in Seq(Entities) /\ k \in 1..Len(list) /\ list[Len(list)] \in Entities
  BY <1>1, <1>2, <1>3, <1>4, <1>5, DetachedIs
<1>7. PICK l \in Entities : l = list[Len(list)]
  BY <1>6
<1>8. PICK q : q = Shorter(list, k)
  OBVIOUS
<1>9. /\ q \in Seq(Entities) /\ Len(q) = Len(list) - 1 /\ Len(list) \in Nat \ {0}
      /\ \A j \in 1..(Len(list) - 1) : q[j] = IF j = k THEN list[Len(list)] ELSE list[j]
  BY <1>5, <1>6, <1>8, Shortened
<1>10. /\ d.sources[t] = q /\ \A u \in Entities \ {t} : d.sources[u] = s.sources[u]
       /\ d.index[l] = k /\ \A x \in Entities \ {l} : d.index[x] = s.index[x]
  BY <1>2, <1>6, <1>7, <1>8 DEF IndexTypes
<1>11. TrueLists(s, A) /\ Listed(s, A, R) /\ Unlisted(s, A, R) /\ Clean(s, A, K)
  BY DEF Kept
<1>12. \A j \in 1..Len(list) : list[j] \in A /\ s.target[list[j]] = t /\ s.index[list[j]] = j
  BY <1>2, <1>3, <1>6, <1>11 DEF TrueLists, Entry
<1>13. \A i, j \in 1..Len(list) : list[i] = list[j] => i = j
  BY <1>12
<1>14. DOMAIN q = 1..(Len(list) - 1) /\ Len(list) \in 1..Len(list)
  BY <1>9
<1>15. TrueLists(d, A)
  <2>1. SUFFICES ASSUME NEW u \in A, ~s.marked[u], NEW j \in DOMAIN d.sources[u]
                 PROVE  Entry(d, A, u, j)
    BY <1>6 DEF TrueLists
  <2>2. CASE u = t
    <3>1. j \in 1..(Len(list) - 1) /\ j \in 1..Len(list)
      BY <1>9, <1>10, <1>14, <2>1, <2>2
    <3>2. CASE j = k
      <4>1. q[j] = l /\ l \in A /\ s.target[l] = t
        BY <1>7, <1>9, <1>12, <1>14, <3>1, <3>2
      <4>2. QED
        BY <1>6, <1>10, <2>2, <3>2, <4>1 DEF Entry
    <3>3. CASE j # k
      <4>1. q[j] = list[j] /\ list[j] # l
        BY <1>7, <1>9, <1>13, <1>14, <3>1, <3>3
      <4>2. list[j] \in A /\ s.target[list[j]] = t /\ s.index[list[j]] = j
        BY <1>12, <3>1
      <4>3. d.index[list[j]] = j
        BY <1>10, <4>1, <4>2
      <4>4. QED
        BY <1>6, <1>10, <2>2, <4>1, <4>2, <4>3 DEF Entry
    <3>4. QED
      BY <3>2, <3>3
  <2>3. CASE u # t
    <3>1. d.sources[u] = s.sources[u]
      BY <1>10, <2>3
    <3>2. Entry(s, A, u, j)
      BY <1>11, <2>1, <3>1 DEF TrueLists
    <3>3. s.sources[u][j] # l
      BY <1>7, <1>12, <1>14, <2>3, <3>2 DEF Entry
    <3>4. QED
      BY <1>6, <1>10, <3>1, <3>2, <3>3 DEF Entry
  <2>4. QED
    BY <2>2, <2>3
<1>16. Listed(d, A, R \cup {e})
  <2>1. SUFFICES ASSUME NEW x \in A \ R, x # e, s.target[x] \in A, ~s.marked[s.target[x]]
                 PROVE  Placed(d, x)
    BY <1>6 DEF Listed
  <2>2. Placed(s, x)
    BY <1>11, <2>1 DEF Listed
  <2>3. CASE s.target[x] = t
    <3>1. PICK i \in 1..Len(list) : i = s.index[x] /\ list[i] = x
      BY <1>3, <1>6, <2>2, <2>3 DEF Placed
    <3>2. i # k
      BY <1>5, <2>1, <3>1
    <3>3. CASE x = l
      <4>1. i = Len(list)
        BY <1>7, <1>13, <1>14, <3>1, <3>3
      <4>2. k \in 1..(Len(list) - 1)
        BY <1>6, <1>9, <3>2, <4>1
      <4>3. d.index[x] = k /\ q[k] = x
        BY <1>7, <1>9, <1>10, <3>3, <4>2
      <4>4. QED
        BY <1>6, <1>10, <1>14, <2>3, <4>2, <4>3 DEF Placed
    <3>4. CASE x # l
      <4>1. i # Len(list) /\ i \in 1..(Len(list) - 1)
        BY <1>7, <1>9, <3>1, <3>4
      <4>2. d.index[x] = i /\ q[i] = x
        BY <1>9, <1>10, <3>1, <3>2, <3>4, <4>1
      <4>3. QED
        BY <1>6, <1>10, <1>14, <2>3, <4>1, <4>2 DEF Placed
    <3>5. QED
      BY <3>3, <3>4
  <2>4. CASE s.target[x] # t
    <3>1. x # l
      BY <1>7, <1>12, <1>14, <2>4
    <3>2. d.index[x] = s.index[x] /\ d.sources[s.target[x]] = s.sources[s.target[x]]
      BY <1>10, <2>1, <2>4, <3>1
    <3>3. QED
      BY <1>6, <2>2, <3>2 DEF Placed
  <2>5. QED
    BY <2>3, <2>4
<1>17. Unlisted(d, A, R \cup {e})
  <2>1. SUFFICES ASSUME NEW x \in A \cap (R \cup {e}), s.target[x] \in A, ~s.marked[s.target[x]]
                 PROVE  NotIn(d, x, s.target[x])
    BY <1>6 DEF Unlisted
  <2>2. SUFFICES ASSUME NEW j \in DOMAIN d.sources[s.target[x]], d.sources[s.target[x]][j] = x
                 PROVE  FALSE
    BY DEF NotIn
  <2>3. CASE s.target[x] = t
    <3>1. j \in 1..(Len(list) - 1) /\ q[j] = x
      BY <1>10, <1>14, <2>2, <2>3
    <3>2. PICK i \in 1..Len(list) : list[i] = x /\ i # k
      <4>1. CASE j = k
        BY <1>9, <1>14, <3>1, <4>1
      <4>2. CASE j # k
        BY <1>9, <3>1, <4>2
      <4>3. QED
        BY <4>1, <4>2
    <3>3. x # e
      BY <1>5, <1>6, <1>13, <3>2
    <3>4. NotIn(s, x, t)
      BY <1>2, <1>11, <2>1, <2>3, <3>3 DEF Unlisted
    <3>5. QED
      BY <1>3, <1>6, <3>2, <3>4 DEF NotIn
  <2>4. CASE s.target[x] # t
    <3>1. d.sources[s.target[x]] = s.sources[s.target[x]] /\ x # e
      BY <1>1, <1>10, <2>1, <2>4
    <3>2. NotIn(s, x, s.target[x])
      BY <1>11, <2>1, <3>1 DEF Unlisted
    <3>3. QED
      BY <2>2, <3>1, <3>2 DEF NotIn
  <2>5. QED
    BY <2>3, <2>4
<1>18. Clean(d, A, K)
  BY <1>6, <1>11 DEF Clean
<1>19. QED
  BY <1>6, <1>15, <1>16, <1>17, <1>18 DEF Kept

LEMMA KeptHook ==
  ASSUME NEW A \in SUBSET Entities, NEW K, NEW R, NEW s \in Indexes, Kept(s, A, K, R),
         NEW e \in Entities, s.target[e] \in A, s.marked[s.target[e]] \/ Placed(s, e),
         NEW d, d = Hook(s, e)
  PROVE  /\ d \in Indexes /\ d.target = s.target /\ d.marked = s.marked
         /\ Kept(d, A, K, R \cup {e})
<1>1. CASE s.marked[s.target[e]]
  <2>1. d = s
    BY <1>1 DEF Hook
  <2>2. Kept(s, A, K, R \cup {e})
    BY <1>1 DEF Kept, Listed, Unlisted
  <2>3. QED
    BY <2>1, <2>2
<1>2. CASE ~s.marked[s.target[e]]
  <2>1. d = Detached(s, e) /\ Placed(s, e)
    BY <1>2 DEF Hook
  <2>2. QED
    BY <1>2, <2>1, KeptDetached
<1>3. QED
  BY <1>1, <1>2

(* One without a target, whether or not its hook has run.                    *)
LEMMA KeptFrames ==
  ASSUME NEW A \in SUBSET Entities, NEW K, NEW R, NEW s, Kept(s, A, K, R),
         NEW M, NEW Q, \A u \in Entities : s.marked[u] => u \in M,
         \A x \in A : s.target[x] \in A => (x \in R <=> x \in Q)
  PROVE  Kept(s, A, M, Q)
<1>1. TrueLists(s, A) /\ Clean(s, A, M)
  BY DEF Kept, Clean
<1>2. Listed(s, A, Q)
  BY DEF Kept, Listed
<1>3. Unlisted(s, A, Q)
  BY DEF Kept, Unlisted
<1>4. QED
  BY <1>1, <1>2, <1>3 DEF Kept

LEMMA ClearedIs ==
  ASSUME NEW s \in Indexes, NEW e \in Entities,
         NEW d, d = [s EXCEPT !.target[e] = NoEntity, !.index[e] = 0]
  PROVE  /\ d \in Indexes /\ d.sources = s.sources /\ d.marked = s.marked
         /\ d.target = [s.target EXCEPT ![e] = NoEntity]
         /\ d.index = [s.index EXCEPT ![e] = 0]
<1>1. IndexTypes(s) /\ s = [target |-> s.target, index |-> s.index, sources |-> s.sources, marked |-> s.marked]
  BY IndexFields
<1>2. PICK tg, ix, so, mk : s = [target |-> tg, index |-> ix, sources |-> so, marked |-> mk]
  BY <1>1
<1>3. d = [target |-> [tg EXCEPT ![e] = NoEntity], index |-> [ix EXCEPT ![e] = 0],
           sources |-> so, marked |-> mk]
  BY <1>2
<1>4. d = [target |-> [s.target EXCEPT ![e] = NoEntity], index |-> [s.index EXCEPT ![e] = 0],
           sources |-> s.sources, marked |-> s.marked]
  BY <1>2, <1>3
<1>5. /\ [s.target EXCEPT ![e] = NoEntity] \in [Entities -> Entities \cup {NoEntity}]
      /\ [s.index EXCEPT ![e] = 0] \in [Entities -> Nat]
  BY <1>1 DEF IndexTypes
<1>6. IndexTypes(d)
  BY <1>1, <1>4, <1>5 DEF IndexTypes
<1>7. d \in Indexes
  BY <1>4, <1>6, IndexFrom
<1>8. QED
  BY <1>4, <1>7

(* Removing an edge runs the hook and takes the target away.                 *)
LEMMA KeptUnlinked ==
  ASSUME NEW A \in SUBSET Entities, NEW K, NEW R, NEW s \in Indexes, Kept(s, A, K, R),
         NEW e \in Entities, s.target[e] \in A, s.marked[s.target[e]] \/ Placed(s, e),
         NEW d, d = Unlinked(s, e)
  PROVE  /\ d \in Indexes /\ d.target = [s.target EXCEPT ![e] = NoEntity] /\ d.marked = s.marked
         /\ Kept(d, A, K, R)
<1>1. PICK h : h = Hook(s, e)
  OBVIOUS
<1>2. h \in Indexes /\ h.target = s.target /\ h.marked = s.marked /\ Kept(h, A, K, R \cup {e})
  BY <1>1, KeptHook
<1>3. d = [h EXCEPT !.target[e] = NoEntity, !.index[e] = 0]
  BY <1>1 DEF Unlinked
<1>4. /\ d \in Indexes /\ d.sources = h.sources /\ d.marked = h.marked
      /\ d.target = [h.target EXCEPT ![e] = NoEntity]
      /\ d.index = [h.index EXCEPT ![e] = 0]
  BY <1>2, <1>3, ClearedIs, Zenon
<1>5. IndexTypes(h) /\ IndexTypes(d)
  BY <1>2, <1>4, IndexFields
<1>6. /\ d.target[e] = NoEntity /\ NoEntity \notin A
      /\ \A x \in Entities \ {e} : d.target[x] = h.target[x] /\ d.index[x] = h.index[x]
  BY <1>4, <1>5, GraphAssumption DEF IndexTypes, GraphAssumption
<1>7. TrueLists(h, A) /\ Listed(h, A, R \cup {e}) /\ Unlisted(h, A, R \cup {e}) /\ Clean(h, A, K)
  BY <1>2 DEF Kept
<1>8. \A u \in A : ~h.marked[u] => NotIn(h, e, u)
  BY <1>7, NotInLists
<1>9. TrueLists(d, A)
  <2>1. SUFFICES ASSUME NEW u \in A, ~h.marked[u], NEW j \in DOMAIN h.sources[u]
                 PROVE  Entry(d, A, u, j)
    BY <1>4 DEF TrueLists
  <2>2. Entry(h, A, u, j) /\ h.sources[u][j] # e
    BY <1>7, <1>8, <2>1 DEF TrueLists, NotIn
  <2>3. QED
    BY <1>4, <1>6, <2>2 DEF Entry
<1>10. Listed(d, A, R)
  <2>1. SUFFICES ASSUME NEW x \in A \ R, x # e, h.target[x] \in A, ~h.marked[h.target[x]]
                 PROVE  Placed(d, x)
    BY <1>4, <1>6 DEF Listed
  <2>2. Placed(h, x)
    BY <1>7, <2>1 DEF Listed
  <2>3. QED
    BY <1>4, <1>6, <2>1, <2>2 DEF Placed
<1>11. Unlisted(d, A, R)
  BY <1>4, <1>6, <1>7 DEF Unlisted, NotIn
<1>12. Clean(d, A, K)
  BY <1>4, <1>7 DEF Clean
<1>13. QED
  BY <1>2, <1>4, <1>9, <1>10, <1>11, <1>12 DEF Kept

LEMMA JoinedIs ==
  ASSUME NEW s \in Indexes, NEW e \in Entities, NEW t \in Entities, NEW k \in Nat,
         NEW d, d = Joined(s, e, t, k)
  PROVE  /\ d \in Indexes /\ d.marked = s.marked
         /\ d.target = [s.target EXCEPT ![e] = t]
         /\ d.index = [s.index EXCEPT ![e] = k]
         /\ d.sources = [s.sources EXCEPT ![t] = Append(s.sources[t], e)]
<1>1. IndexTypes(s) /\ s = [target |-> s.target, index |-> s.index, sources |-> s.sources, marked |-> s.marked]
  BY IndexFields
<1>2. PICK tg, ix, so, mk : s = [target |-> tg, index |-> ix, sources |-> so, marked |-> mk]
  BY <1>1
<1>3. d = [target |-> [tg EXCEPT ![e] = t], index |-> [ix EXCEPT ![e] = k],
           sources |-> [so EXCEPT ![t] = Append(so[t], e)], marked |-> mk]
  BY <1>2 DEF Joined
<1>4. d = [target |-> [s.target EXCEPT ![e] = t], index |-> [s.index EXCEPT ![e] = k],
           sources |-> [s.sources EXCEPT ![t] = Append(s.sources[t], e)], marked |-> s.marked]
  BY <1>2, <1>3
<1>5. /\ [s.target EXCEPT ![e] = t] \in [Entities -> Entities \cup {NoEntity}]
      /\ [s.index EXCEPT ![e] = k] \in [Entities -> Nat]
      /\ [s.sources EXCEPT ![t] = Append(s.sources[t], e)] \in [Entities -> Seq(Entities)]
  BY <1>1 DEF IndexTypes
<1>6. IndexTypes(d)
  BY <1>1, <1>4, <1>5 DEF IndexTypes
<1>7. d \in Indexes
  BY <1>4, <1>6, IndexFrom
<1>8. QED
  BY <1>4, <1>7

(* Setting an edge of a source that is in no list.                           *)
Joining(s, e, t) == Joined(s, e, t, Len(s.sources[t]) + 1)

Linking(A, K, R, s, e, t) ==
  /\ A \subseteq Entities /\ s \in Indexes /\ e \in A \ R /\ t \in A
  /\ Kept(s, A, K, R \cup {e}) /\ ~s.marked[t]
Linked(A, K, R, s, e, t, d) ==
  d \in Indexes /\ d.target = [s.target EXCEPT ![e] = t] /\ d.marked = s.marked /\ Kept(d, A, K, R)

LEMMA KeptJoined ==
  ASSUME NEW A, NEW K, NEW R, NEW s, NEW e, NEW t, Linking(A, K, R, s, e, t),
         NEW d, d = Joining(s, e, t)
  PROVE  Linked(A, K, R, s, e, t, d)
<1>1. PICK W : W = R \cup {e}
  OBVIOUS
<1>2. A \subseteq Entities /\ s \in Indexes /\ e \in A /\ e \notin R /\ t \in A /\ Kept(s, A, K, W) /\ ~s.marked[t]
  BY <1>1 DEF Linking
<1>3. s \in Indexes
  BY <1>2
<1>4. PICK list : list = s.sources[t]
  OBVIOUS
<1>5. IndexTypes(s) /\ e \in Entities /\ t \in Entities
  BY <1>2, IndexFields
<1>6. list \in Seq(Entities) /\ Len(list) + 1 \in Nat /\ Len(list) \in Nat
  BY <1>2, <1>4, <1>5 DEF IndexTypes
<1>7. PICK k \in Nat : k = Len(list) + 1
  BY <1>2, <1>6
<1>8. /\ d \in Indexes /\ d.marked = s.marked /\ d.target = [s.target EXCEPT ![e] = t]
      /\ d.index = [s.index EXCEPT ![e] = k]
      /\ d.sources = [s.sources EXCEPT ![t] = Append(list, e)]
  <2>1. d = Joined(s, e, t, k)
    BY <1>2, <1>4, <1>7 DEF Joining
  <2>2. QED
    BY ONLY <1>4, <1>5, <1>7, <1>3, <2>1, JoinedIs
<1>9. /\ DOMAIN Append(list, e) = 1..k /\ DOMAIN list = 1..Len(list) /\ k \in 1..k
      /\ \A j \in 1..k : Append(list, e)[j] = IF j = k THEN e ELSE list[j]
      /\ \A j \in 1..k : j # k => j \in 1..Len(list)
      /\ \A j \in 1..Len(list) : j # k /\ j \in 1..k
  BY <1>2, <1>5, <1>6, <1>7
<1>10. PICK q : q = Append(list, e)
  OBVIOUS
<1>11. /\ d.target[e] = t /\ d.index[e] = k /\ d.sources[t] = q
       /\ \A x \in Entities \ {e} : d.target[x] = s.target[x] /\ d.index[x] = s.index[x]
       /\ \A u \in Entities \ {t} : d.sources[u] = s.sources[u]
  BY <1>2, <1>5, <1>8, <1>10 DEF IndexTypes
<1>12. TrueLists(s, A) /\ Listed(s, A, W) /\ Unlisted(s, A, W) /\ Clean(s, A, K)
  BY <1>2 DEF Kept
<1>33. e \in W /\ \A x \in A : x # e => (x \in W <=> x \in R)
  BY <1>1
<1>13. \A u \in A : ~s.marked[u] => NotIn(s, e, u)
  BY <1>12, <1>33, NotInLists
<1>14. TrueLists(d, A)
  <2>1. SUFFICES ASSUME NEW u \in A, ~s.marked[u], NEW j \in DOMAIN d.sources[u]
                 PROVE  Entry(d, A, u, j)
    BY <1>2, <1>8 DEF TrueLists
  <2>2. CASE u = t /\ j = k
    BY <1>2, <1>9, <1>10, <1>11, <2>2 DEF Entry
  <2>3. CASE ~(u = t /\ j = k)
    <3>1. j \in DOMAIN s.sources[u] /\ d.sources[u][j] = s.sources[u][j]
      BY <1>2, <1>4, <1>9, <1>10, <1>11, <2>1, <2>3
    <3>2. Entry(s, A, u, j) /\ s.sources[u][j] # e
      BY <1>2, <1>12, <1>13, <2>1, <3>1 DEF TrueLists, NotIn
    <3>3. QED
      BY <1>2, <1>11, <3>1, <3>2 DEF Entry
  <2>4. QED
    BY <1>2, <2>2, <2>3
<1>15. Listed(d, A, R)
  <2>1. SUFFICES ASSUME NEW x \in A \ R, d.target[x] \in A, ~s.marked[d.target[x]]
                 PROVE  Placed(d, x)
    BY <1>2, <1>8 DEF Listed
  <2>2. CASE x = e
    BY <1>2, <1>9, <1>10, <1>11, <2>2 DEF Placed
  <2>3. CASE x # e
    <3>1. d.target[x] = s.target[x] /\ d.index[x] = s.index[x] /\ Placed(s, x)
      BY <1>2, <1>11, <1>12, <1>33, <2>1, <2>3 DEF Listed
    <3>2. CASE s.target[x] = t
      <4>1. PICK i \in 1..Len(list) : i = s.index[x] /\ list[i] = x
        BY <1>2, <1>4, <1>9, <3>1, <3>2 DEF Placed
      <4>2. d.index[x] = i /\ i \in DOMAIN q /\ q[i] = x
        BY <1>2, <1>9, <1>10, <3>1, <4>1
      <4>3. QED
        BY <1>2, <1>11, <3>1, <3>2, <4>2 DEF Placed
    <3>3. CASE s.target[x] # t
      BY <1>2, <1>11, <2>1, <3>1, <3>3 DEF Placed
    <3>4. QED
      BY <1>2, <3>2, <3>3
  <2>4. QED
    BY <1>2, <2>2, <2>3
<1>16. Unlisted(d, A, R)
  <2>1. SUFFICES ASSUME NEW x \in A \cap R, d.target[x] \in A, ~s.marked[d.target[x]]
                 PROVE  NotIn(d, x, d.target[x])
    BY <1>2, <1>8 DEF Unlisted
  <2>2. SUFFICES ASSUME NEW j \in DOMAIN d.sources[d.target[x]]
                 PROVE  d.sources[d.target[x]][j] # x
    BY <1>2, <2>1 DEF NotIn
  <2>3. x # e /\ d.target[x] = s.target[x]
    BY <1>2, <1>11, <2>1
  <2>4. NotIn(s, x, s.target[x])
    BY <1>2, <1>12, <1>33, <2>3, <2>1 DEF Unlisted
  <2>5. CASE s.target[x] = t
    <3>1. j \in 1..k /\ d.sources[d.target[x]][j] = q[j]
      BY <1>2, <1>9, <1>10, <1>11, <2>2, <2>3, <2>5
    <3>2. CASE j = k
      BY <1>2, <1>9, <1>10, <2>3, <3>1, <3>2
    <3>3. CASE j # k
      <4>1. j \in DOMAIN list /\ q[j] = list[j]
        BY <1>2, <1>9, <1>10, <3>1, <3>3
      <4>2. QED
        BY <1>2, <1>4, <2>4, <2>5, <3>1, <4>1 DEF NotIn
    <3>4. QED
      BY <1>2, <3>2, <3>3
  <2>6. CASE s.target[x] # t
    BY <1>2, <2>1, <1>11, <2>2, <2>3, <2>4, <2>6 DEF NotIn
  <2>7. QED
    BY <1>2, <2>5, <2>6
<1>17. Clean(d, A, K)
  BY <1>2, <1>8, <1>12 DEF Clean
<1>18. QED
  BY <1>8, <1>14, <1>15, <1>16, <1>17 DEF Kept, Linked

(* RelationOnSet, while no entity is being killed.                           *)
LEMMA KeptAttached ==
  ASSUME NEW A \in SUBSET Entities, NEW K, NEW R, NEW s \in Indexes, Kept(s, A, K, R),
         \A u \in Entities : ~s.marked[u], NEW e \in A \ R, NEW t \in A,
         s.target[e] = NoEntity \/ (s.target[e] \in A /\ Placed(s, e)),
         NEW d, d = Attached(s, e, t)
  PROVE  /\ d \in Indexes /\ d.target = [s.target EXCEPT ![e] = t] /\ d.marked = s.marked
         /\ Kept(d, A, K, R)
<1>1. PICK f : f = Freed(s, e)
  OBVIOUS
<1>2. d = Joining(f, e, t)
  BY <1>1 DEF Attached, Joining
<1>3. e \in Entities /\ t \in Entities
  OBVIOUS
<1>4. f \in Indexes /\ f.target = s.target /\ f.marked = s.marked /\ Kept(f, A, K, R \cup {e})
  <2>1. CASE s.target[e] = NoEntity
    <3>1. f = s
      BY <1>1, <2>1 DEF Freed
    <3>2. NoEntity \notin A /\ \A u \in Entities : s.marked[u] => u \in K
      BY GraphAssumption DEF GraphAssumption
    <3>3. \A x \in A : s.target[x] \in A => (x \in R <=> x \in R \cup {e})
      BY <2>1, <3>2
    <3>4. Kept(s, A, K, R \cup {e})
      BY <3>2, <3>3, KeptFrames
    <3>5. QED
      BY <3>1, <3>4
  <2>2. CASE s.target[e] # NoEntity
    <3>1. f = Detached(s, e) /\ s.target[e] \in A /\ s.target[e] \in Entities /\ Placed(s, e)
      BY <1>1, <2>2 DEF Freed
    <3>2. QED
      BY <1>3, <3>1, KeptDetached
  <2>3. QED
    BY <2>1, <2>2
<1>5. ~f.marked[t]
  BY <1>3, <1>4
<1>6. /\ d \in Indexes /\ d.target = [f.target EXCEPT ![e] = t] /\ d.marked = f.marked
      /\ Kept(d, A, K, R)
  <2>1. Linking(A, K, R, f, e, t)
    BY <1>4, <1>5 DEF Linking
  <2>2. Linked(A, K, R, f, e, t, d)
    BY ONLY <2>1, <1>2, KeptJoined
  <2>3. QED
    BY <2>2 DEF Linked
<1>7. QED
  BY <1>4, <1>6

Marking(s, e) == [s EXCEPT !.marked[e] = TRUE]

LEMMA MarkedIs ==
  ASSUME NEW s \in Indexes, NEW e \in Entities, NEW d, d = Marking(s, e)
  PROVE  /\ d \in Indexes /\ d.sources = s.sources /\ d.target = s.target /\ d.index = s.index
         /\ d.marked = [s.marked EXCEPT ![e] = TRUE]
<1>1. IndexTypes(s) /\ s = [target |-> s.target, index |-> s.index, sources |-> s.sources, marked |-> s.marked]
  BY IndexFields
<1>2. PICK tg, ix, so, mk : s = [target |-> tg, index |-> ix, sources |-> so, marked |-> mk]
  BY <1>1
<1>3. d = [target |-> tg, index |-> ix, sources |-> so, marked |-> [mk EXCEPT ![e] = TRUE]]
  BY <1>2 DEF Marking
<1>4. d = [target |-> s.target, index |-> s.index, sources |-> s.sources,
           marked |-> [s.marked EXCEPT ![e] = TRUE]]
  BY <1>2, <1>3
<1>5. [s.marked EXCEPT ![e] = TRUE] \in [Entities -> BOOLEAN]
  BY <1>1 DEF IndexTypes
<1>6. IndexTypes(d)
  BY <1>1, <1>4, <1>5 DEF IndexTypes
<1>7. d \in Indexes
  BY <1>4, <1>6, IndexFrom
<1>8. QED
  BY <1>4, <1>7

(* The list of an entity that is being killed is left alone from here on.    *)
LEMMA KeptMarked ==
  ASSUME NEW A \in SUBSET Entities, NEW K, NEW R, NEW s \in Indexes, Kept(s, A, K, R),
         NEW e \in A \cap K, NEW d, d = Marking(s, e)
  PROVE  d \in Indexes /\ d.target = s.target /\ Kept(d, A, K, R)
<1>1. /\ d \in Indexes /\ d.sources = s.sources /\ d.target = s.target /\ d.index = s.index
      /\ d.marked = [s.marked EXCEPT ![e] = TRUE]
  <2>1. e \in Entities
    OBVIOUS
  <2>2. QED
    BY <2>1, MarkedIs, Zenon
<1>2. s.marked \in [Entities -> BOOLEAN]
  BY IndexFields DEF IndexTypes
<1>3. \A u \in Entities : d.marked[u] <=> u = e \/ s.marked[u]
  BY <1>1, <1>2
<1>4. TrueLists(d, A)
  BY <1>1, <1>3 DEF Kept, TrueLists, Entry
<1>5. Listed(d, A, R) /\ Unlisted(d, A, R)
  <2>1. \A x \in A : s.target[x] \in A => s.target[x] \in Entities
    OBVIOUS
  <2>2. Listed(d, A, R)
    BY <1>1, <1>3, <2>1 DEF Kept, Listed, Placed
  <2>3. Unlisted(d, A, R)
    BY <1>1, <1>3, <2>1 DEF Kept, Unlisted, NotIn
  <2>4. QED
    BY <2>2, <2>3
<1>6. Clean(d, A, K)
  BY <1>3 DEF Kept, Clean
<1>7. QED
  BY <1>1, <1>4, <1>5, <1>6 DEF Kept

LEMMA DroppedIs ==
  ASSUME NEW s \in Indexes, NEW e \in Entities, NEW d, d = Dropped(s, e)
  PROVE  /\ d \in Indexes
         /\ d.target = [s.target EXCEPT ![e] = NoEntity] /\ d.index = [s.index EXCEPT ![e] = 0]
         /\ d.sources = [s.sources EXCEPT ![e] = <<>>]
         /\ d.marked = [s.marked EXCEPT ![e] = FALSE]
<1>1. IndexTypes(s) /\ s = [target |-> s.target, index |-> s.index, sources |-> s.sources, marked |-> s.marked]
  BY IndexFields
<1>2. PICK tg, ix, so, mk : s = [target |-> tg, index |-> ix, sources |-> so, marked |-> mk]
  BY <1>1
<1>3. d = [target |-> [tg EXCEPT ![e] = NoEntity], index |-> [ix EXCEPT ![e] = 0],
           sources |-> [so EXCEPT ![e] = <<>>], marked |-> [mk EXCEPT ![e] = FALSE]]
  BY <1>2 DEF Dropped
<1>4. d = [target |-> [s.target EXCEPT ![e] = NoEntity], index |-> [s.index EXCEPT ![e] = 0],
           sources |-> [s.sources EXCEPT ![e] = <<>>], marked |-> [s.marked EXCEPT ![e] = FALSE]]
  BY <1>2, <1>3
<1>5. /\ [s.target EXCEPT ![e] = NoEntity] \in [Entities -> Entities \cup {NoEntity}]
      /\ [s.index EXCEPT ![e] = 0] \in [Entities -> Nat]
      /\ [s.sources EXCEPT ![e] = <<>>] \in [Entities -> Seq(Entities)]
      /\ [s.marked EXCEPT ![e] = FALSE] \in [Entities -> BOOLEAN]
  BY <1>1 DEF IndexTypes
<1>6. IndexTypes(d)
  BY <1>4, <1>5 DEF IndexTypes
<1>7. d \in Indexes
  BY <1>4, <1>6, IndexFrom
<1>8. QED
  BY <1>4, <1>7

(* The row of an entity goes once the hooks have run for it.                 *)
LEMMA KeptDropped ==
  ASSUME NEW A \in SUBSET Entities, NEW K, NEW R, NEW s \in Indexes, Kept(s, A, K, R),
         NEW e \in A \cap R, NEW M, NEW Q, NEW d, d = Dropped(s, e),
         K \ {e} \subseteq M, \A x \in A \ {e} : x \in R <=> x \in Q
  PROVE  d \in Indexes /\ Kept(d, A \ {e}, M, Q)
<1>1. /\ d \in Indexes
      /\ d.target = [s.target EXCEPT ![e] = NoEntity] /\ d.index = [s.index EXCEPT ![e] = 0]
      /\ d.sources = [s.sources EXCEPT ![e] = <<>>]
      /\ d.marked = [s.marked EXCEPT ![e] = FALSE]
  BY DroppedIs
<1>2. IndexTypes(s)
  BY IndexFields
<1>3. /\ \A x \in Entities \ {e} :
           /\ d.target[x] = s.target[x] /\ d.index[x] = s.index[x]
           /\ d.sources[x] = s.sources[x] /\ d.marked[x] = s.marked[x]
      /\ d.marked[e] = FALSE
  BY <1>1, <1>2 DEF IndexTypes
<1>4. TrueLists(s, A) /\ Listed(s, A, R) /\ Unlisted(s, A, R) /\ Clean(s, A, K)
  BY DEF Kept
<1>5. \A u \in A : ~s.marked[u] => NotIn(s, e, u)
  BY <1>4, NotInLists
<1>6. TrueLists(d, A \ {e})
  <2>1. SUFFICES ASSUME NEW u \in A \ {e}, ~d.marked[u], NEW j \in DOMAIN d.sources[u]
                 PROVE  Entry(d, A \ {e}, u, j)
    BY DEF TrueLists
  <2>2. Entry(s, A, u, j) /\ s.sources[u][j] # e
    BY <1>3, <1>4, <1>5, <2>1 DEF TrueLists, NotIn
  <2>3. QED
    BY <1>3, <2>1, <2>2 DEF Entry
<1>7. Listed(d, A \ {e}, Q)
  <2>1. SUFFICES ASSUME NEW x \in A \ {e}, x \notin Q, d.target[x] \in A \ {e}, ~d.marked[d.target[x]]
                 PROVE  Placed(d, x)
    BY DEF Listed
  <2>2. x \notin R /\ d.target[x] = s.target[x] /\ ~s.marked[s.target[x]]
    BY <1>3, <2>1
  <2>3. Placed(s, x)
    BY <1>4, <2>1, <2>2 DEF Listed
  <2>4. QED
    BY <1>3, <2>1, <2>2, <2>3 DEF Placed
<1>8. Unlisted(d, A \ {e}, Q)
  <2>1. SUFFICES ASSUME NEW x \in A \ {e}, x \in Q, d.target[x] \in A \ {e}, ~d.marked[d.target[x]]
                 PROVE  NotIn(d, x, d.target[x])
    BY DEF Unlisted
  <2>2. x \in R /\ d.target[x] = s.target[x] /\ ~s.marked[s.target[x]]
    BY <1>3, <2>1
  <2>3. NotIn(s, x, s.target[x])
    BY <1>4, <2>1, <2>2 DEF Unlisted
  <2>4. QED
    BY <1>3, <2>1, <2>2, <2>3 DEF NotIn
<1>9. Clean(d, A \ {e}, M)
  BY <1>3, <1>4 DEF Clean
<1>10. QED
  BY <1>1, <1>6, <1>7, <1>8, <1>9 DEF Kept

-----------------------------------------------------------------------------
(* Frames. *)

Kills(f, e) == f.hook = "kill" /\ f.entity = e
UnderIn(st) == {e \in Entities : \E i \in DOMAIN st : Kills(st[i], e)}
RanIn(st, r) ==
  {e \in Entities : \E i \in DOMAIN st : Kills(st[i], e) /\ <<"target", r>> \notin st[i].todo}

LEMMA FrameFacts ==
  ASSUME NEW f \in Frames
  PROVE  /\ f.entity \in Entities /\ f.hook \in {"kill", "sources"}
         /\ f.hook = "kill" => f.todo \in SUBSET ({"target", "sources"} \X Relations)
         /\ f.hook = "sources" => f.relation \in Relations /\ f.left \in Seq(Entities)
  BY DEF Frames

LEMMA StackTop ==
  ASSUME stack \in Seq(Frames), stack # <<>>
  PROVE  /\ Len(stack) \in Nat \ {0} /\ DOMAIN stack = 1..Len(stack) /\ Len(stack) \in DOMAIN stack
         /\ Top = stack[Len(stack)] /\ Top \in Frames
         /\ Front(stack) \in Seq(Frames) /\ Len(Front(stack)) = Len(stack) - 1
         /\ DOMAIN Front(stack) = 1..(Len(stack) - 1)
         /\ \A i \in 1..(Len(stack) - 1) : Front(stack)[i] = stack[i]
<1>1. /\ Front(stack) \in Seq(Frames) /\ Len(Front(stack)) = Len(stack) - 1 /\ Len(stack) \in Nat \ {0}
      /\ \A i \in 1..(Len(stack) - 1) : Front(stack)[i] = stack[i]
      /\ Last(stack) = stack[Len(stack)] /\ Last(stack) \in Frames
  BY FrontIs
<1>2. DOMAIN stack = 1..Len(stack) /\ DOMAIN Front(stack) = 1..(Len(stack) - 1)
  BY <1>1
<1>3. QED
  BY <1>1, <1>2 DEF Top

(* One more frame.                                                           *)
LEMMA Pushed ==
  ASSUME NEW st \in Seq(Frames), NEW f \in Frames
  PROVE  /\ Append(st, f) \in Seq(Frames)
         /\ UnderIn(Append(st, f)) = UnderIn(st) \cup {e \in Entities : Kills(f, e)}
         /\ \A r \in Relations : RanIn(Append(st, f), r) =
              RanIn(st, r) \cup {e \in Entities : Kills(f, e) /\ <<"target", r>> \notin f.todo}
<1>1. PICK g : g = Append(st, f)
  OBVIOUS
<1>2. /\ g \in Seq(Frames) /\ DOMAIN g = 1..(Len(st) + 1) /\ DOMAIN st = 1..Len(st) /\ Len(st) \in Nat
      /\ \A i \in 1..Len(st) : g[i] = st[i]
      /\ g[Len(st) + 1] = f
  BY <1>1
<1>3. /\ \A i \in DOMAIN g : i = Len(st) + 1 \/ i \in DOMAIN st
      /\ \A i \in DOMAIN st : i \in DOMAIN g /\ g[i] = st[i]
      /\ Len(st) + 1 \in DOMAIN g
  BY <1>2
<1>4. UnderIn(g) = UnderIn(st) \cup {e \in Entities : Kills(f, e)}
  <2>1. UnderIn(g) \subseteq UnderIn(st) \cup {e \in Entities : Kills(f, e)}
    BY <1>2, <1>3 DEF UnderIn
  <2>2. UnderIn(st) \subseteq UnderIn(g)
    BY <1>3 DEF UnderIn
  <2>3. {e \in Entities : Kills(f, e)} \subseteq UnderIn(g)
    BY <1>2, <1>3 DEF UnderIn
  <2>4. QED
    BY <2>1, <2>2, <2>3
<1>5. ASSUME NEW r \in Relations
      PROVE  RanIn(g, r) = RanIn(st, r) \cup {e \in Entities : Kills(f, e) /\ <<"target", r>> \notin f.todo}
  <2>1. RanIn(g, r) \subseteq RanIn(st, r) \cup {e \in Entities : Kills(f, e) /\ <<"target", r>> \notin f.todo}
    BY <1>2, <1>3 DEF RanIn
  <2>2. RanIn(st, r) \subseteq RanIn(g, r)
    BY <1>3 DEF RanIn
  <2>3. {e \in Entities : Kills(f, e) /\ <<"target", r>> \notin f.todo} \subseteq RanIn(g, r)
    BY <1>2, <1>3 DEF RanIn
  <2>4. QED
    BY <2>1, <2>2, <2>3
<1>6. QED
  BY <1>1, <1>2, <1>4, <1>5

(* One frame less.                                                           *)
LEMMA Returning ==
  ASSUME stack \in Seq(Frames), stack # <<>>
  PROVE  /\ UnderIn(stack) = UnderIn(Front(stack)) \cup {e \in Entities : Kills(Top, e)}
         /\ \A r \in Relations : RanIn(stack, r) =
              RanIn(Front(stack), r) \cup {e \in Entities : Kills(Top, e) /\ <<"target", r>> \notin Top.todo}
<1>1. Front(stack) \in Seq(Frames) /\ Top \in Frames
  BY StackTop
<1>2. stack = Append(Front(stack), Top)
  <2>1. PICK f : f = Front(stack)
    OBVIOUS
  <2>8. Len(stack) \in Nat \ {0}
    BY StackTop
  <2>2. PICK n \in Nat \ {0} : n = Len(stack)
    BY <2>8
  <2>3. /\ f \in Seq(Frames) /\ Len(f) = n - 1 /\ Top = stack[n] /\ Top \in Frames
        /\ \A i \in 1..(n - 1) : f[i] = stack[i]
    BY <2>1, <2>2, StackTop
  <2>4. Append(f, Top) \in Seq(Frames) /\ Len(Append(f, Top)) = n
    BY <2>2, <2>3
  <2>5. \A i \in 1..n : Append(f, Top)[i] = stack[i]
    BY <2>2, <2>3
  <2>6. stack = Append(f, Top)
    BY <2>2, <2>4, <2>5, SeqEqual
  <2>7. QED
    BY <2>1, <2>6
<1>3. /\ UnderIn(Append(Front(stack), Top)) = UnderIn(Front(stack)) \cup {e \in Entities : Kills(Top, e)}
      /\ \A r \in Relations : RanIn(Append(Front(stack), Top), r) =
           RanIn(Front(stack), r) \cup {e \in Entities : Kills(Top, e) /\ <<"target", r>> \notin Top.todo}
  BY <1>1, Pushed, Zenon
<1>4. QED
  BY ONLY <1>2, <1>3, Zenon

(* The frame on top is replaced.                                             *)
LEMMA Retopped ==
  ASSUME stack \in Seq(Frames), stack # <<>>, NEW f \in Frames,
         NEW p, p = [stack EXCEPT ![Len(stack)] = f]
  PROVE  p = Append(Front(stack), f)
<1>1. PICK b : b = Front(stack)
  OBVIOUS
<1>2. Len(stack) \in Nat \ {0}
  BY StackTop
<1>3. PICK n \in Nat \ {0} : n = Len(stack)
  BY <1>2
<1>4. b \in Seq(Frames) /\ Len(b) = n - 1 /\ \A i \in 1..(n - 1) : b[i] = stack[i]
  BY <1>1, <1>3, StackTop
<1>5. p \in Seq(Frames) /\ Len(p) = n /\ p[n] = f /\ \A i \in 1..(n - 1) : p[i] = stack[i]
  <2>1. n \in DOMAIN stack
    BY <1>3
  <2>2. p = [stack EXCEPT ![n] = f]
    BY <1>3
  <2>3. p \in Seq(Frames) /\ Len(p) = n
    BY <1>3, <2>1, <2>2, ReplacedIn
  <2>4. p[n] = f /\ \A i \in 1..(n - 1) : p[i] = stack[i]
    BY <1>3, <2>1, <2>2
  <2>5. QED
    BY <2>3, <2>4
<1>6. Append(b, f) \in Seq(Frames) /\ Len(Append(b, f)) = n
  BY <1>3, <1>4
<1>7. \A i \in 1..n : Append(b, f)[i] = p[i]
  BY <1>3, <1>4, <1>5
<1>8. p = Append(b, f)
  BY <1>3, <1>5, <1>6, <1>7, SeqEqual
<1>9. QED
  BY <1>1, <1>8

LEMMA PoppedIs ==
  ASSUME stack \in Seq(Frames), stack # <<>>, Top.hook = "kill"
  PROVE  \E f \in Frames :
           /\ Popped = Append(Front(stack), f)
           /\ f.hook = "kill" /\ f.entity = Top.entity /\ f.todo = Top.todo \ {NextHook}
<1>1. Top \in Frames /\ Top = stack[Len(stack)] /\ Len(stack) \in DOMAIN stack
  BY StackTop
<1>2. PICK n : n = NextHook
  OBVIOUS
<1>3. Top \in [hook : {"kill"}, entity : Entities, todo : SUBSET ({"target", "sources"} \X Relations)]
  BY <1>1 DEF Frames
<1>4. PICK e \in Entities, d \in SUBSET ({"target", "sources"} \X Relations) :
        Top = [hook |-> "kill", entity |-> e, todo |-> d]
  BY <1>3
<1>5. PICK f : f = [hook |-> "kill", entity |-> e, todo |-> d \ {n}]
  OBVIOUS
<1>6. f \in [hook : {"kill"}, entity : Entities, todo : SUBSET ({"target", "sources"} \X Relations)]
  BY <1>5
<1>7. f \in Frames
  BY <1>6 DEF Frames
<1>8. Popped = [stack EXCEPT ![Len(stack)].todo = @ \ {n}]
  BY <1>2 DEF Popped
<1>9. [Top EXCEPT !.todo = @ \ {n}] = f
  <2>1. PICK g : g = Top
    OBVIOUS
  <2>2. g = [hook |-> "kill", entity |-> e, todo |-> d]
    BY <1>4, <2>1
  <2>3. [g EXCEPT !.todo = @ \ {n}] = f
    BY ONLY <1>5, <2>2
  <2>4. QED
    BY ONLY <2>1, <2>3
<1>10. Popped = [stack EXCEPT ![Len(stack)] = [stack[Len(stack)] EXCEPT !.todo = @ \ {n}]]
  BY <1>1, <1>8
<1>11. Popped = [stack EXCEPT ![Len(stack)] = f]
  BY ONLY <1>1, <1>9, <1>10
<1>12. Popped = Append(Front(stack), f)
  BY <1>7, <1>11, Retopped
<1>13. f.hook = "kill" /\ f.entity = Top.entity /\ f.todo = Top.todo \ {NextHook}
  BY <1>2, <1>4, <1>5
<1>14. QED
  BY <1>7, <1>12, <1>13

LEMMA PassedIs ==
  ASSUME stack \in Seq(Frames), stack # <<>>, Top.hook = "sources", Top.left # <<>>
  PROVE  \E f \in Frames :
           /\ Passed = Append(Front(stack), f)
           /\ f.hook = "sources" /\ f.entity = Top.entity /\ f.relation = Top.relation
           /\ f.left = Tail(Top.left)
<1>1. Top \in Frames /\ Top = stack[Len(stack)] /\ Len(stack) \in DOMAIN stack
  BY StackTop
<1>3. Top \in [hook : {"sources"}, entity : Entities, relation : Relations, left : Seq(Entities)]
  BY <1>1 DEF Frames
<1>4. PICK e \in Entities, r \in Relations, l \in Seq(Entities) :
        Top = [hook |-> "sources", entity |-> e, relation |-> r, left |-> l]
  BY <1>3
<1>5. PICK f : f = [hook |-> "sources", entity |-> e, relation |-> r, left |-> Tail(l)]
  OBVIOUS
<1>6. l # <<>> /\ Tail(l) \in Seq(Entities)
  BY <1>4
<1>15. f \in [hook : {"sources"}, entity : Entities, relation : Relations, left : Seq(Entities)]
  BY <1>5, <1>6
<1>7. f \in Frames
  BY <1>15 DEF Frames
<1>8. Passed = [stack EXCEPT ![Len(stack)].left = Tail(@)]
  BY DEF Passed
<1>9. [Top EXCEPT !.left = Tail(@)] = f
  <2>1. PICK g : g = Top
    OBVIOUS
  <2>2. g = [hook |-> "sources", entity |-> e, relation |-> r, left |-> l]
    BY <1>4, <2>1
  <2>5. PICK q : q = Tail(l)
    OBVIOUS
  <2>6. g.left = l
    BY <2>2
  <2>7. [g EXCEPT !.left = Tail(@)] = [g EXCEPT !.left = q]
    BY ONLY <2>5, <2>6, Zenon
  <2>8. [g EXCEPT !.left = q] = f
    <3>1. f = [hook |-> "sources", entity |-> e, relation |-> r, left |-> q]
      BY ONLY <1>5, <2>5, Zenon
    <3>2. [g EXCEPT !.left = q] = [hook |-> "sources", entity |-> e, relation |-> r, left |-> q]
      BY ONLY <2>2
    <3>3. QED
      BY ONLY <3>1, <3>2, Zenon
  <2>3. [g EXCEPT !.left = Tail(@)] = f
    BY ONLY <2>7, <2>8, Zenon
  <2>4. QED
    BY ONLY <2>1, <2>3
<1>10. Passed = [stack EXCEPT ![Len(stack)] = [stack[Len(stack)] EXCEPT !.left = Tail(@)]]
  BY <1>1, <1>8
<1>11. Passed = [stack EXCEPT ![Len(stack)] = f]
  BY ONLY <1>1, <1>9, <1>10
<1>12. Passed = Append(Front(stack), f)
  BY <1>7, <1>11, Retopped
<1>13. /\ f.hook = "sources" /\ f.entity = Top.entity /\ f.relation = Top.relation
       /\ f.left = Tail(Top.left)
  BY <1>4, <1>5
<1>14. QED
  BY <1>7, <1>12, <1>13

-----------------------------------------------------------------------------
(* Graphs and commands. *)

LEMMA RelateTyped ==
  ASSUME NEW g \in Graphs, NEW e \in Entities, NEW r \in Relations, NEW t \in Entities \cup {NoEntity}
  PROVE  Relate(g, e, r, t) \in Graphs
<1>1. PICK a \in SUBSET Entities, tg \in [Relations -> [Entities -> Entities \cup {NoEntity}]] :
        g = [alive |-> a, target |-> tg]
  BY DEF Graphs
<1>2. Relate(g, e, r, t) = [alive |-> a, target |-> [tg EXCEPT ![r] = [tg[r] EXCEPT ![e] = t]]]
  BY <1>1 DEF Relate
<1>3. [tg[r] EXCEPT ![e] = t] \in [Entities -> Entities \cup {NoEntity}]
  OBVIOUS
<1>4. [tg EXCEPT ![r] = [tg[r] EXCEPT ![e] = t]] \in [Relations -> [Entities -> Entities \cup {NoEntity}]]
  BY <1>3
<1>5. QED
  BY <1>2, <1>4 DEF Graphs

LEMMA KillTyped ==
  ASSUME NEW g \in Graphs, NEW e
  PROVE  Kill(g, e) \in Graphs
<1>1. PICK a \in SUBSET Entities, tg \in [Relations -> [Entities -> Entities \cup {NoEntity}]] :
        g = [alive |-> a, target |-> tg]
  BY DEF Graphs
<1>2. PICK D : D = Deleted(g, e)
  OBVIOUS
<1>3. PICK u : u = [r \in Relations |-> [x \in Entities |->
                      IF x \in D \/ tg[r][x] \in D THEN NoEntity ELSE tg[r][x]]]
  OBVIOUS
<1>4. Kill(g, e) = [alive |-> a \ D, target |-> u]
  BY <1>1, <1>2, <1>3 DEF Kill
<1>5. u \in [Relations -> [Entities -> Entities \cup {NoEntity}]]
  BY <1>3
<1>6. QED
  BY <1>4, <1>5 DEF Graphs

CommandTypes(c) ==
  c.entity \in Entities /\ c.kill \in BOOLEAN /\ c.removes \in SUBSET Relations /\ c.edges \in Edges

LEMMA CommandFields ==
  ASSUME NEW c \in Commands
  PROVE  /\ CommandTypes(c)
         /\ c = [entity |-> c.entity, kill |-> c.kill, removes |-> c.removes, edges |-> c.edges]
  BY DEF Commands, CommandTypes

LEMMA CommandFrom ==
  ASSUME NEW e \in Entities, NEW k \in BOOLEAN, NEW q \in SUBSET Relations, NEW d \in Edges
  PROVE  [entity |-> e, kill |-> k, removes |-> q, edges |-> d] \in Commands
  BY DEF Commands

LEMMA EdgesFacts ==
  ASSUME NEW d \in Edges
  PROVE  /\ DOMAIN d \in SUBSET Relations /\ \A r \in DOMAIN d : d[r] \in Entities \cup {NoEntity}
         /\ d = [r \in DOMAIN d |-> d[r]]
  BY DEF Edges

LEMMA EdgesFrom ==
  ASSUME NEW d, DOMAIN d \in SUBSET Relations, d = [r \in DOMAIN d |-> d[r]],
         \A r \in DOMAIN d : d[r] \in Entities \cup {NoEntity}
  PROVE  d \in Edges
<1>1. d \in [DOMAIN d -> Entities \cup {NoEntity}]
  OBVIOUS
<1>2. QED
  BY <1>1 DEF Edges

LEMMA KillSet ==
  ASSUME NEW e, NEW k, NEW q, NEW d, NEW v, NEW n, n = [entity |-> e, kill |-> k, removes |-> q, edges |-> d]
  PROVE  [n EXCEPT !.kill = v] = [entity |-> e, kill |-> v, removes |-> q, edges |-> d]
  OBVIOUS

LEMMA NoCommandTyped ==
  ASSUME NEW e \in Entities
  PROVE  /\ NoCommand(e) \in Commands /\ [NoCommand(e) EXCEPT !.kill = TRUE] \in Commands
         /\ NoCommand(e).entity = e /\ ~NoCommand(e).kill /\ NoCommand(e).removes = {}
         /\ DOMAIN NoCommand(e).edges = {}
         /\ [NoCommand(e) EXCEPT !.kill = TRUE].entity = e
         /\ DOMAIN [NoCommand(e) EXCEPT !.kill = TRUE].edges = {}
<1>1. <<>> \in Edges /\ DOMAIN <<>> = {}
  <2>1. DOMAIN <<>> = {}
    OBVIOUS
  <2>2. <<>> = [r \in {} |-> r]
    BY <2>1
  <2>3. <<>> = [r \in DOMAIN <<>> |-> <<>>[r]]
    BY <2>1, <2>2
  <2>4. QED
    BY <2>1, <2>3, EdgesFrom
<1>2. PICK d \in Edges : d = <<>>
  BY <1>1
<1>3. NoCommand(e) = [entity |-> e, kill |-> FALSE, removes |-> {}, edges |-> d]
  BY <1>2 DEF NoCommand
<1>4. [NoCommand(e) EXCEPT !.kill = TRUE] = [entity |-> e, kill |-> TRUE, removes |-> {}, edges |-> d]
  <2>1. PICK n : n = NoCommand(e)
    OBVIOUS
  <2>2. n = [entity |-> e, kill |-> FALSE, removes |-> {}, edges |-> d]
    BY <1>3, <2>1
  <2>3. [n EXCEPT !.kill = TRUE] = [entity |-> e, kill |-> TRUE, removes |-> {}, edges |-> d]
    <3>1. PICK u : u = FALSE
      OBVIOUS
    <3>2. PICK v : v = TRUE
      OBVIOUS
    <3>3. PICK q : q = {}
      OBVIOUS
    <3>4. n = [entity |-> e, kill |-> u, removes |-> q, edges |-> d]
      BY ONLY <2>2, <3>1, <3>3, Zenon
    <3>5. [n EXCEPT !.kill = v] = [entity |-> e, kill |-> v, removes |-> q, edges |-> d]
      BY ONLY <3>4, KillSet
    <3>6. QED
      BY ONLY <3>2, <3>3, <3>5, Zenon
  <2>4. QED
    BY ONLY <2>1, <2>3
<1>5. /\ [entity |-> e, kill |-> FALSE, removes |-> {}, edges |-> d] \in Commands
      /\ [entity |-> e, kill |-> TRUE, removes |-> {}, edges |-> d] \in Commands
  BY CommandFrom
<1>6. DOMAIN d = {}
  BY <1>1, <1>2
<1>7. QED
  BY <1>3, <1>4, <1>5, <1>6

LEMMA PlaceIs ==
  ASSUME NEW cs \in Seq(Commands), NEW e
  PROVE  /\ PlaceOf(cs, e) \in 1..(Len(cs) + 1) /\ Len(cs) \in Nat /\ DOMAIN cs = 1..Len(cs)
         /\ PlaceOf(cs, e) \in DOMAIN cs => cs[PlaceOf(cs, e)].entity = e
         /\ PlaceOf(cs, e) \notin DOMAIN cs =>
              PlaceOf(cs, e) = Len(cs) + 1 /\ \A i \in DOMAIN cs : cs[i].entity # e
<1>1. Len(cs) \in Nat /\ DOMAIN cs = 1..Len(cs)
  OBVIOUS
<1>2. CASE \E i \in DOMAIN cs : cs[i].entity = e
  <2>1. PlaceOf(cs, e) = CHOOSE k \in DOMAIN cs : cs[k].entity = e
    BY <1>2 DEF PlaceOf
  <2>2. PlaceOf(cs, e) \in DOMAIN cs /\ cs[PlaceOf(cs, e)].entity = e
    BY <1>2, <2>1
  <2>3. QED
    BY <1>1, <2>2
<1>3. CASE ~\E i \in DOMAIN cs : cs[i].entity = e
  <2>1. PlaceOf(cs, e) = Len(cs) + 1
    BY <1>3 DEF PlaceOf
  <2>2. QED
    BY <1>1, <1>3, <2>1
<1>4. QED
  BY <1>2, <1>3

(* The command recorded of an entity, or one that asks for nothing.          *)
LEMMA CommandOfIs ==
  ASSUME NEW cs \in Seq(Commands), NEW e \in Entities
  PROVE  /\ CommandOf(cs, e) \in Commands /\ CommandOf(cs, e).entity = e
         /\ CommandOf(cs, e) = NoCommand(e) \/ \E i \in DOMAIN cs : CommandOf(cs, e) = cs[i]
<1>1. /\ PlaceOf(cs, e) \in 1..(Len(cs) + 1) /\ Len(cs) \in Nat /\ DOMAIN cs = 1..Len(cs)
      /\ PlaceOf(cs, e) \in DOMAIN cs => cs[PlaceOf(cs, e)].entity = e
      /\ PlaceOf(cs, e) \notin DOMAIN cs => PlaceOf(cs, e) = Len(cs) + 1
  BY PlaceIs
<1>2. PICK n \in Commands : n = NoCommand(e) /\ n.entity = e
  BY NoCommandTyped
<1>3. CommandOf(cs, e) = Append(cs, n)[PlaceOf(cs, e)]
  BY <1>2 DEF CommandOf
<1>4. PICK k \in 1..(Len(cs) + 1) : k = PlaceOf(cs, e)
  BY <1>1
<1>5. CASE k \in DOMAIN cs
  <2>1. CommandOf(cs, e) = cs[k] /\ cs[k] \in Commands /\ cs[k].entity = e
    BY <1>1, <1>3, <1>4, <1>5
  <2>2. QED
    BY <1>5, <2>1
<1>6. CASE k \notin DOMAIN cs
  <2>1. k = Len(cs) + 1
    BY <1>1, <1>4, <1>6
  <2>2. CommandOf(cs, e) = n
    BY <1>3, <1>4, <2>1
  <2>3. QED
    BY <1>2, <2>2
<1>7. QED
  BY <1>5, <1>6

LEMMA RecordedIs ==
  ASSUME NEW cs \in Seq(Commands), NEW c \in Commands
  PROVE  /\ Recorded(cs, c) \in Seq(Commands)
         /\ \A i \in DOMAIN Recorded(cs, c) :
              Recorded(cs, c)[i] = c \/ \E j \in DOMAIN cs : Recorded(cs, c)[i] = cs[j]
<1>1. PICK k \in 1..(Len(cs) + 1) : k = PlaceOf(cs, c.entity)
  BY PlaceIs
<1>2. Len(cs) \in Nat /\ DOMAIN cs = 1..Len(cs)
  OBVIOUS
<1>3. CASE k \in DOMAIN cs
  <2>1. Recorded(cs, c) = [cs EXCEPT ![k] = c]
    BY <1>1, <1>3 DEF Recorded
  <2>2. [cs EXCEPT ![k] = c] \in Seq(Commands) /\ DOMAIN [cs EXCEPT ![k] = c] = DOMAIN cs
    BY <1>3, ReplacedIn
  <2>3. \A i \in DOMAIN cs : [cs EXCEPT ![k] = c][i] = c \/ [cs EXCEPT ![k] = c][i] = cs[i]
    BY <1>3
  <2>4. QED
    BY <2>1, <2>2, <2>3
<1>4. CASE k \notin DOMAIN cs
  <2>1. Recorded(cs, c) = Append(cs, c)
    BY <1>1, <1>4 DEF Recorded
  <2>2. PICK a : a = Append(cs, c)
    OBVIOUS
  <2>3. a \in Seq(Commands) /\ DOMAIN a = 1..(Len(cs) + 1)
    BY <2>2
  <2>4. \A i \in DOMAIN a : a[i] = c \/ (i \in DOMAIN cs /\ a[i] = cs[i])
    BY <1>2, <2>2, <2>3
  <2>5. QED
    BY <2>1, <2>2, <2>3, <2>4
<1>5. QED
  BY <1>3, <1>4

LEMMA MergedTyped ==
  ASSUME NEW c \in Commands, NEW r \in Relations, NEW t \in Entities \cup {NoEntity}
  PROVE  /\ Merged(c, r, t) \in Commands /\ Merged(c, r, t).entity = c.entity
         /\ Merged(c, r, t).kill = c.kill /\ Merged(c, r, t).removes = c.removes
         /\ DOMAIN Merged(c, r, t).edges = DOMAIN c.edges \cup {r}
         /\ Merged(c, r, t).edges[r] = t
         /\ \A q \in DOMAIN c.edges \ {r} : Merged(c, r, t).edges[q] = c.edges[q]
<1>1. PICK e \in Entities, k \in BOOLEAN, m \in SUBSET Relations, d \in Edges :
        c = [entity |-> e, kill |-> k, removes |-> m, edges |-> d]
  BY DEF Commands
<1>2. PICK n : n = [q \in DOMAIN d \cup {r} |-> IF q = r THEN t ELSE d[q]]
  OBVIOUS
<1>3. /\ DOMAIN d \in SUBSET Relations /\ \A q \in DOMAIN d : d[q] \in Entities \cup {NoEntity}
  BY EdgesFacts
<1>4. /\ DOMAIN n = DOMAIN d \cup {r} /\ n[r] = t /\ \A q \in DOMAIN d \ {r} : n[q] = d[q]
      /\ n = [q \in DOMAIN n |-> n[q]]
  BY <1>2
<1>5. n \in Edges
  BY <1>3, <1>4, EdgesFrom
<1>6. Merged(c, r, t) = [entity |-> e, kill |-> k, removes |-> m, edges |-> n]
  BY <1>1, <1>2 DEF Merged
<1>7. [entity |-> e, kill |-> k, removes |-> m, edges |-> n] \in Commands
  BY <1>5, CommandFrom
<1>8. QED
  BY <1>1, <1>4, <1>6, <1>7

LEMMA QueuedTyped ==
  ASSUME NEW cs \in Seq(Commands), NEW e \in Entities, NEW m \in SUBSET Relations
  PROVE  Queued(cs, e, m) \in Seq(Commands)
<1>1. CASE m = {}
  BY <1>1 DEF Queued
<1>2. CASE m # {}
  <2>1. PICK c \in Commands : c = CommandOf(cs, e)
    BY CommandOfIs
  <2>2. PICK x \in Entities, k \in BOOLEAN, q \in SUBSET Relations, d \in Edges :
          c = [entity |-> x, kill |-> k, removes |-> q, edges |-> d]
    BY DEF Commands
  <2>7. PICK w \in SUBSET Relations : w = q \cup m
    OBVIOUS
  <2>8. [c EXCEPT !.removes = @ \cup m] = [c EXCEPT !.removes = w]
    BY <2>2, <2>7
  <2>3. [c EXCEPT !.removes = w] = [entity |-> x, kill |-> k, removes |-> w, edges |-> d]
    BY <2>2
  <2>4. [c EXCEPT !.removes = @ \cup m] \in Commands
    BY <2>3, <2>8, CommandFrom
  <2>5. Queued(cs, e, m) = Recorded(cs, [c EXCEPT !.removes = @ \cup m])
    BY <1>2, <2>1 DEF Queued
  <2>6. QED
    BY <2>4, <2>5, RecordedIs
<1>3. QED
  BY <1>1, <1>2

-----------------------------------------------------------------------------
(* The invariant: types, and the reverse index of every relation.            *)

Core ==
  /\ alive \in SUBSET Entities /\ promised \in Graphs
  /\ store \in [Relations -> Indexes]
  /\ stack \in Seq(Frames)
  /\ phase \in {"idle", "defer", "flush"} /\ calls \in 0..MaxCalls
  /\ commands \in Seq(Commands) /\ batch \in Seq(Commands)
  /\ failure \in {"none", "dead", "cycle", "index"}
AllKept == \A r \in Relations : Kept(store[r], alive, UnderIn(stack), RanIn(stack, r))
IInv == Core /\ AllKept

LEMMA CoreIsTyped == Core => TypeOK
<1>1. ASSUME Core PROVE TypeOK
  <2>1. [r \in Relations |-> store[r].target] \in [Relations -> [Entities -> Entities \cup {NoEntity}]]
    BY <1>1, IndexFields DEF Core, IndexTypes
  <2>2. Now \in Graphs
    BY <1>1, <2>1 DEF Core, Now, Graphs
  <2>3. QED
    BY <1>1, <2>2 DEF Core, TypeOK
<1>2. QED
  BY <1>1

LEMMA StoreFacts ==
  ASSUME IInv, NEW r \in Relations
  PROVE  /\ store[r] \in Indexes /\ IndexTypes(store[r])
         /\ Kept(store[r], alive, UnderIn(stack), RanIn(stack, r))
         /\ \A x \in Indexes : [store EXCEPT ![r] = x] \in [Relations -> Indexes]
         /\ \A x \in Indexes : [store EXCEPT ![r] = x][r] = x
         /\ \A x \in Indexes : \A q \in Relations \ {r} : [store EXCEPT ![r] = x][q] = store[q]
         /\ alive \in SUBSET Entities
<1>1. store[r] \in Indexes /\ alive \in SUBSET Entities /\ store \in [Relations -> Indexes]
  BY DEF IInv, Core
<1>2. IndexTypes(store[r])
  BY <1>1, IndexFields
<1>3. Kept(store[r], alive, UnderIn(stack), RanIn(stack, r))
  BY DEF IInv, AllKept
<1>4. QED
  BY <1>1, <1>2, <1>3

(* Between calls no list is being left alone.                                *)
LEMMA Quiet ==
  ASSUME IInv, stack = <<>>
  PROVE  /\ UnderIn(stack) = {} /\ \A r \in Relations : RanIn(stack, r) = {}
         /\ \A r \in Relations : Kept(store[r], alive, {}, {}) /\ \A u \in Entities : ~store[r].marked[u]
<1>1. UnderIn(stack) = {} /\ \A r \in Relations : RanIn(stack, r) = {}
  BY DEF UnderIn, RanIn
<1>2. \A r \in Relations : Kept(store[r], alive, {}, {})
  BY <1>1 DEF IInv, AllKept
<1>3. \A r \in Relations : \A u \in Entities : ~store[r].marked[u]
  BY <1>2 DEF Kept, Clean
<1>4. QED
  BY <1>1, <1>2, <1>3

(* What it means that nothing fails.                                         *)
LEMMA HookFine ==
  ASSUME NEW s, NEW e
  PROVE  /\ HookFailure(s, e) \in {"none", "dead", "index"}
         /\ HookFailure(s, e) = "none" <=>
              s.target[e] \in alive /\ (s.marked[s.target[e]] \/ Placed(s, e))
  BY DEF HookFailure, Placed

LEMMA SetFine ==
  ASSUME NEW r, NEW e, NEW t
  PROVE  /\ SetFailure(r, e, t) \in {"none", "dead", "cycle", "index"}
         /\ SetFailure(r, e, t) = "none" /\ store[r].target[e] # t =>
              /\ t \in alive /\ (r \in Acyclic => ~Reaches(store[r].target, t, e))
              /\ store[r].target[e] = NoEntity \/ HookFailure(store[r], e) = "none"
<1>1. HookFailure(store[r], e) \in {"none", "dead", "index"}
  BY HookFine
<1>2. CASE r \in Acyclic /\ Reaches(store[r].target, t, e)
  <2>1. SetFailure(r, e, t) = "cycle"
    BY <1>2, Zenon DEF SetFailure
  <2>2. QED
    BY <2>1
<1>3. CASE ~(r \in Acyclic /\ Reaches(store[r].target, t, e)) /\ store[r].target[e] = t
  <2>1. SetFailure(r, e, t) = "none"
    BY <1>3, Zenon DEF SetFailure
  <2>2. QED
    BY <1>3, <2>1
<1>4. CASE /\ ~(r \in Acyclic /\ Reaches(store[r].target, t, e)) /\ store[r].target[e] # t
           /\ t \notin alive
  <2>1. SetFailure(r, e, t) = "dead"
    BY <1>4, Zenon DEF SetFailure
  <2>2. QED
    BY <2>1
<1>5. CASE /\ ~(r \in Acyclic /\ Reaches(store[r].target, t, e)) /\ store[r].target[e] # t
           /\ t \in alive /\ store[r].target[e] # NoEntity
  <2>1. SetFailure(r, e, t) = HookFailure(store[r], e)
    BY <1>5, Zenon DEF SetFailure
  <2>2. QED
    BY <1>1, <1>5, <2>1
<1>6. CASE /\ ~(r \in Acyclic /\ Reaches(store[r].target, t, e)) /\ store[r].target[e] # t
           /\ t \in alive /\ store[r].target[e] = NoEntity
  <2>1. SetFailure(r, e, t) = "none"
    BY <1>6, Zenon DEF SetFailure
  <2>2. QED
    BY <1>6, <2>1
<1>7. QED
  BY <1>2, <1>3, <1>4, <1>5, <1>6

LEMMA WorstIs ==
  ASSUME NEW F \in SUBSET {"none", "dead", "cycle", "index"}
  PROVE  /\ Worst(F) \in {"none", "dead", "cycle", "index"}
         /\ Worst(F) = "none" => \A f \in F : f = "none"
<1>1. CASE F \subseteq {"none"}
  BY <1>1 DEF Worst
<1>2. CASE ~(F \subseteq {"none"})
  <2>1. \E f \in F : f # "none"
    BY <1>2
  <2>2. Worst(F) = CHOOSE f \in F : f # "none"
    BY <1>2 DEF Worst
  <2>3. Worst(F) \in F /\ Worst(F) # "none"
    BY <2>1, <2>2
  <2>4. QED
    BY <2>3
<1>3. QED
  BY <1>1, <1>2

(* A list of sources is exact for every relation, whatever the stack is now. *)
LEMMA Kept2All ==
  ASSUME \A r \in Relations : Kept(store'[r], alive', UnderIn(stack'), RanIn(stack', r))
  PROVE  AllKept'
  BY DEF AllKept

(* Calls and commands that touch neither entities, edges nor frames.         *)
LEMMA StandStill ==
  ASSUME IInv, alive' = alive, store' = store, stack' = stack
  PROVE  AllKept'
  BY DEF IInv, AllKept

-----------------------------------------------------------------------------
(* Calls outside a scope. *)

LEMMA KeptRelateCall ==
  ASSUME IInv, NEW e \in Entities, NEW r \in Relations, NEW t \in Entities, RelateCall(e, r, t)
  PROVE  IInv'
<1>1. stack = <<>> /\ e \in alive /\ t \in alive
  BY DEF RelateCall, Idle, Returned
<1>2. failure' \in {"none", "dead", "cycle", "index"}
  BY SetFine DEF RelateCall
<1>3. promised' \in Graphs
  BY RelateTyped DEF RelateCall, IInv, Core
<1>4. CASE ~(failure' = "none" /\ store[r].target[e] # t)
  <2>1. alive' = alive /\ store' = store /\ stack' = stack
    BY <1>4 DEF RelateCall
  <2>2. AllKept'
    BY <2>1, StandStill
  <2>3. Core'
    BY <1>2, <1>3, <2>1 DEF RelateCall, IInv, Core
  <2>4. QED
    BY <2>2, <2>3 DEF IInv
<1>5. CASE failure' = "none" /\ store[r].target[e] # t
  <2>1. PICK d : d = Attached(store[r], e, t)
    OBVIOUS
  <2>2. store' = [store EXCEPT ![r] = d]
    BY <1>5, <2>1 DEF RelateCall
  <2>3. SetFailure(r, e, t) = "none"
    BY <1>5 DEF RelateCall
  <2>4. store[r].target[e] = NoEntity \/ HookFailure(store[r], e) = "none"
    BY <1>5, <2>3, SetFine
  <2>5. /\ UnderIn(stack) = {} /\ \A q \in Relations : RanIn(stack, q) = {}
        /\ \A q \in Relations : Kept(store[q], alive, {}, {}) /\ \A u \in Entities : ~store[q].marked[u]
    BY <1>1, Quiet
  <2>6. store[r].target[e] = NoEntity \/ (store[r].target[e] \in alive /\ Placed(store[r], e))
    BY <2>4, <2>5, HookFine, StoreFacts
  <2>7. store[r] \in Indexes /\ alive \in SUBSET Entities
    BY StoreFacts
  <2>8. d \in Indexes /\ Kept(d, alive, {}, {})
    <3>1. PICK O : O = {}
      OBVIOUS
    <3>2. PICK s \in Indexes : s = store[r]
      BY <2>7
    <3>3. PICK A \in SUBSET Entities : A = alive
      BY <2>7
    <3>4. e \in A \ O /\ t \in A
      BY <1>1, <3>1, <3>3
    <3>5. /\ Kept(s, A, O, O) /\ \A u \in Entities : ~s.marked[u]
          /\ s.target[e] = NoEntity \/ (s.target[e] \in A /\ Placed(s, e))
          /\ d = Attached(s, e, t)
      BY <2>1, <2>5, <2>6, <3>1, <3>2, <3>3
    <3>6. d \in Indexes /\ Kept(d, A, O, O)
      BY ONLY <3>4, <3>5, s \in Indexes, A \in SUBSET Entities, KeptAttached
    <3>7. QED
      BY <3>1, <3>3, <3>6
  <2>9. store' \in [Relations -> Indexes] /\ store'[r] = d /\ \A q \in Relations \ {r} : store'[q] = store[q]
    BY <2>2, <2>8, StoreFacts
  <2>10. alive' = alive /\ stack' = stack
    BY DEF RelateCall
  <2>11. AllKept'
    BY <2>5, <2>8, <2>9, <2>10, Kept2All
  <2>12. Core'
    BY <1>2, <1>3, <2>9, <2>10 DEF RelateCall, IInv, Core
  <2>13. QED
    BY <2>11, <2>12 DEF IInv
<1>6. QED
  BY <1>4, <1>5

LEMMA KeptUnrelateCall ==
  ASSUME IInv, NEW e \in Entities, NEW r \in Relations, UnrelateCall(e, r)
  PROVE  IInv'
<1>1. stack = <<>> /\ e \in alive
  BY DEF UnrelateCall, Idle, Returned
<1>2. failure' \in {"none", "dead", "index"}
  BY HookFine DEF UnrelateCall
<1>3. promised' \in Graphs
  BY RelateTyped DEF UnrelateCall, IInv, Core
<1>4. CASE failure' # "none"
  <2>1. alive' = alive /\ store' = store /\ stack' = stack
    BY <1>4 DEF UnrelateCall
  <2>2. AllKept'
    BY <2>1, StandStill
  <2>3. Core'
    BY <1>2, <1>3, <2>1 DEF UnrelateCall, IInv, Core
  <2>4. QED
    BY <2>2, <2>3 DEF IInv
<1>5. CASE failure' = "none"
  <2>1. PICK d : d = Unlinked(store[r], e)
    OBVIOUS
  <2>2. store' = [store EXCEPT ![r] = d]
    BY <1>5, <2>1 DEF UnrelateCall
  <2>3. HookFailure(store[r], e) = "none"
    BY <1>5 DEF UnrelateCall
  <2>4. store[r].target[e] \in alive /\ (store[r].marked[store[r].target[e]] \/ Placed(store[r], e))
    BY <2>3, HookFine
  <2>5. /\ store[r] \in Indexes /\ alive \in SUBSET Entities
        /\ Kept(store[r], alive, UnderIn(stack), RanIn(stack, r))
    BY StoreFacts
  <2>6. d \in Indexes /\ Kept(d, alive, UnderIn(stack), RanIn(stack, r))
    BY <2>1, <2>4, <2>5, KeptUnlinked
  <2>7. store' \in [Relations -> Indexes] /\ store'[r] = d /\ \A q \in Relations \ {r} : store'[q] = store[q]
    BY <2>2, <2>6, StoreFacts
  <2>8. alive' = alive /\ stack' = stack
    BY DEF UnrelateCall
  <2>9. AllKept'
    BY <2>6, <2>7, <2>8, Kept2All DEF IInv, AllKept
  <2>10. Core'
    BY <1>2, <1>3, <2>7, <2>8 DEF UnrelateCall, IInv, Core
  <2>11. QED
    BY <2>9, <2>10 DEF IInv
<1>6. QED
  BY <1>4, <1>5

LEMMA KillFrameTyped ==
  ASSUME NEW e \in Entities
  PROVE  /\ KillFrame(e) \in Frames /\ KillFrame(e).hook = "kill" /\ KillFrame(e).entity = e
         /\ KillFrame(e).todo = Components(e)
         /\ \A r \in Relations : <<"target", r>> \in Components(e) <=> HasTarget(e, r)
         /\ \A r \in Relations : <<"sources", r>> \in Components(e) <=> HasSources(e, r)
<1>1. Components(e) \in SUBSET ({"target", "sources"} \X Relations)
  BY DEF Components
<1>2. KillFrame(e) \in [hook : {"kill"}, entity : Entities, todo : SUBSET ({"target", "sources"} \X Relations)]
  BY <1>1 DEF KillFrame
<1>3. KillFrame(e) \in Frames
  BY <1>2 DEF Frames
<1>4. \A r \in Relations : <<"target", r>> \in Components(e) <=> HasTarget(e, r)
  BY DEF Components
<1>5. \A r \in Relations : <<"sources", r>> \in Components(e) <=> HasSources(e, r)
  BY DEF Components
<1>6. QED
  BY <1>3, <1>4, <1>5 DEF KillFrame

(* Killing begins: one without a target is as one whose hook has run.        *)
LEMMA KeptPushKill ==
  ASSUME IInv, NEW e \in Entities, NEW st \in Seq(Frames),
         UnderIn(st) = UnderIn(stack), \A r \in Relations : RanIn(st, r) = RanIn(stack, r),
         alive' = alive, store' = store, stack' = Append(st, KillFrame(e))
  PROVE  AllKept' /\ stack' \in Seq(Frames)
<1>1. PICK f \in Frames : f = KillFrame(e)
  BY KillFrameTyped
<1>2. /\ \A x \in Entities : Kills(f, x) <=> x = e
      /\ \A r \in Relations : <<"target", r>> \notin f.todo => store[r].target[e] = NoEntity
  BY <1>1, KillFrameTyped DEF Kills, HasTarget
<1>3. /\ stack' \in Seq(Frames)
      /\ UnderIn(stack') = UnderIn(st) \cup {x \in Entities : Kills(f, x)}
      /\ \A r \in Relations : RanIn(stack', r) =
           RanIn(st, r) \cup {x \in Entities : Kills(f, x) /\ <<"target", r>> \notin f.todo}
  BY <1>1, Pushed
<1>4. ASSUME NEW r \in Relations
      PROVE  Kept(store[r], alive, UnderIn(stack'), RanIn(stack', r))
  <2>1. Kept(store[r], alive, UnderIn(stack), RanIn(stack, r)) /\ alive \in SUBSET Entities
    BY StoreFacts
  <2>2. \A u \in Entities : store[r].marked[u] => u \in UnderIn(stack')
    BY <1>3, <2>1 DEF Kept, Clean
  <2>3. NoEntity \notin alive
    BY <2>1, GraphAssumption DEF GraphAssumption
  <2>4. \A x \in alive : store[r].target[x] \in alive => (x \in RanIn(stack, r) <=> x \in RanIn(stack', r))
    BY <1>2, <1>3, <2>3
  <2>5. QED
    BY <2>1, <2>2, <2>4, KeptFrames
<1>5. QED
  BY <1>3, <1>4, Kept2All

LEMMA KeptKillCall ==
  ASSUME IInv, NEW e \in Entities, KillCall(e)
  PROVE  IInv'
<1>1. stack = <<>> /\ alive' = alive /\ store' = store /\ stack' = <<KillFrame(e)>>
  BY DEF KillCall, Idle, Returned
<1>2. stack' = Append(stack, KillFrame(e)) /\ stack \in Seq(Frames)
  BY <1>1
<1>3. AllKept' /\ stack' \in Seq(Frames)
  BY <1>1, <1>2, KeptPushKill
<1>4. promised' \in Graphs
  BY KillTyped DEF KillCall, IInv, Core
<1>5. Core'
  BY <1>1, <1>3, <1>4 DEF KillCall, IInv, Core
<1>6. QED
  BY <1>3, <1>5 DEF IInv

-----------------------------------------------------------------------------
(* Scopes and their commands. *)

LEMMA KeptScope ==
  ASSUME IInv, DeferBegin \/ DeferEnd \/ NextBatch \/ EndFlush \/ SkipCommand
  PROVE  IInv'
<1>1. alive' = alive /\ store' = store /\ stack' = stack
  BY DEF DeferBegin, DeferEnd, NextBatch, EndFlush, SkipCommand
<1>2. AllKept'
  BY <1>1, StandStill
<1>3. Core'
  <2>1. MaxCalls \in Nat /\ 0 \in 0..MaxCalls
    BY RelationsAssumption DEF RelationsAssumption
  <2>2. batch # <<>> => Tail(batch) \in Seq(Commands)
    BY DEF IInv, Core
  <2>3. QED
    BY <1>1, <2>1, <2>2 DEF DeferBegin, DeferEnd, NextBatch, EndFlush, SkipCommand, IInv, Core
<1>4. QED
  BY <1>2, <1>3 DEF IInv

LEMMA KeptDeferred ==
  ASSUME IInv, NEW e \in Entities, NEW r \in Relations, NEW t \in Entities,
         DeferRelate(e, r, t) \/ DeferUnrelate(e, r) \/ DeferKill(e)
  PROVE  IInv'
<1>1. alive' = alive /\ store' = store /\ stack' = stack
  BY DEF DeferRelate, DeferUnrelate, DeferKill
<1>2. AllKept'
  BY <1>1, StandStill
<1>3. calls' \in 0..MaxCalls
  <2>1. calls \in 0..MaxCalls /\ calls < MaxCalls /\ calls' = calls + 1 /\ MaxCalls \in Nat
    BY RelationsAssumption DEF DeferRelate, DeferUnrelate, DeferKill, DeferCall, IInv, Core, RelationsAssumption
  <2>2. QED
    BY <2>1
<1>4. promised' \in Graphs
  BY RelateTyped, KillTyped DEF DeferRelate, DeferUnrelate, DeferKill, IInv, Core
<1>5. commands' \in Seq(Commands)
  <2>1. commands \in Seq(Commands) /\ CommandOf(commands, e) \in Commands
    BY CommandOfIs DEF IInv, Core
  <2>2. CASE DeferRelate(e, r, t)
    <3>1. Merged(CommandOf(commands, e), r, t) \in Commands
      BY <2>1, MergedTyped
    <3>2. QED
      BY <2>1, <2>2, <3>1, RecordedIs DEF DeferRelate
  <2>3. CASE DeferUnrelate(e, r)
    <3>1. Merged(CommandOf(commands, e), r, NoEntity) \in Commands
      BY <2>1, MergedTyped
    <3>2. QED
      BY <2>1, <2>3, <3>1, RecordedIs DEF DeferUnrelate
  <2>4. CASE DeferKill(e)
    <3>1. [NoCommand(e) EXCEPT !.kill = TRUE] \in Commands
      BY NoCommandTyped
    <3>2. QED
      BY <2>1, <2>4, <3>1, RecordedIs DEF DeferKill
  <2>5. QED
    BY <2>2, <2>3, <2>4
<1>6. Core'
  BY <1>1, <1>3, <1>4, <1>5 DEF DeferRelate, DeferUnrelate, DeferKill, IInv, Core
<1>7. QED
  BY <1>2, <1>6 DEF IInv

LEMMA FirstCommand ==
  ASSUME IInv, batch # <<>>
  PROVE  /\ Head(batch) \in Commands /\ CommandTypes(Head(batch)) /\ Tail(batch) \in Seq(Commands)
<1>1. Head(batch) \in Commands /\ Tail(batch) \in Seq(Commands)
  BY DEF IInv, Core
<1>2. QED
  BY <1>1, CommandFields

LEMMA KeptKillCommand ==
  ASSUME IInv, KillCommand
  PROVE  IInv'
<1>1. /\ stack = <<>> /\ alive' = alive /\ store' = store /\ batch # <<>>
      /\ stack' = <<KillFrame(Head(batch).entity)>> /\ batch' = Tail(batch)
  BY DEF KillCommand, Flushing, Returned
<1>2. PICK e \in Entities : e = Head(batch).entity
  BY <1>1, FirstCommand DEF CommandTypes
<1>3. stack' = Append(stack, KillFrame(e)) /\ stack \in Seq(Frames)
  BY <1>1, <1>2
<1>4. AllKept' /\ stack' \in Seq(Frames)
  BY <1>1, <1>3, KeptPushKill
<1>5. Core'
  BY <1>1, <1>4, FirstCommand DEF KillCommand, IInv, Core
<1>6. QED
  BY <1>4, <1>5 DEF IInv

(* What a command does to one relation.                                      *)
Gone(c) == {r \in c.removes : HasTarget(c.entity, r)}
KeptEdge(c, r) == IF r \in Gone(c) THEN NoEntity ELSE store[r].target[c.entity]
Setting(c) == {r \in DOMAIN c.edges : c.edges[r] \notin {NoEntity, KeptEdge(c, r)}}
Unsetting(c) == {r \in DOMAIN c.edges : c.edges[r] = NoEntity /\ KeptEdge(c, r) # NoEntity}
Loosened(c, r) == IF r \in Gone(c) THEN Unlinked(store[r], c.entity) ELSE store[r]
Edited(c, r) ==
  IF r \in Setting(c) THEN Attached(Loosened(c, r), c.entity, c.edges[r]) ELSE Loosened(c, r)

LEMMA EdgeCommandIs ==
  ASSUME NEW c, EdgeCommand(c)
  PROVE  /\ failure' = Worst({HookFailure(store[r], c.entity) : r \in Gone(c)}
                               \cup {SetFailure(r, c.entity, c.edges[r]) : r \in Setting(c)})
         /\ store' = IF failure' = "none" THEN [r \in Relations |-> Edited(c, r)] ELSE store
         /\ commands' = Queued(commands, c.entity, Unsetting(c))
  BY Zenon DEF EdgeCommand, Gone, KeptEdge, Setting, Unsetting, Loosened, Edited

LEMMA EditFine ==
  ASSUME NEW c \in Commands, EdgeCommand(c)
  PROVE  /\ failure' \in {"none", "dead", "cycle", "index"}
         /\ failure' = "none" =>
              /\ \A r \in Gone(c) : HookFailure(store[r], c.entity) = "none"
              /\ \A r \in Setting(c) : SetFailure(r, c.entity, c.edges[r]) = "none"
<1>1. PICK F : F = {HookFailure(store[r], c.entity) : r \in Gone(c)}
                     \cup {SetFailure(r, c.entity, c.edges[r]) : r \in Setting(c)}
  OBVIOUS
<1>2. failure' = Worst(F)
  BY <1>1, EdgeCommandIs
<1>3. F \in SUBSET {"none", "dead", "cycle", "index"}
  BY <1>1, HookFine, SetFine
<1>4. Worst(F) \in {"none", "dead", "cycle", "index"} /\ (Worst(F) = "none" => \A f \in F : f = "none")
  BY <1>3, WorstIs
<1>5. /\ \A r \in Gone(c) : HookFailure(store[r], c.entity) \in F
      /\ \A r \in Setting(c) : SetFailure(r, c.entity, c.edges[r]) \in F
  BY <1>1
<1>6. QED
  BY <1>2, <1>4, <1>5

LEMMA LoosenedKept ==
  ASSUME IInv, stack = <<>>, NEW c \in Commands, EdgeCommand(c), failure' = "none",
         NEW r \in Relations, NEW s, s = Loosened(c, r)
  PROVE  /\ s \in Indexes /\ Kept(s, alive, {}, {}) /\ \A u \in Entities : ~s.marked[u]
         /\ s.target = [store[r].target EXCEPT ![c.entity] = KeptEdge(c, r)]
         /\ s.target[c.entity] = NoEntity \/ s = store[r]
         /\ r \in Gone(c) => s.target[c.entity] = NoEntity /\ store[r].target[c.entity] \in alive
<1>1. PICK e \in Entities : e = c.entity
  BY CommandFields DEF CommandTypes
<1>2. /\ store[r] \in Indexes /\ alive \in SUBSET Entities /\ IndexTypes(store[r])
      /\ Kept(store[r], alive, {}, {}) /\ \A u \in Entities : ~store[r].marked[u]
  BY StoreFacts, Quiet
<1>3. CASE r \in Gone(c)
  <2>1. s = Unlinked(store[r], e)
    BY <1>1, <1>3 DEF Loosened
  <2>2. store[r].target[e] \in alive /\ Placed(store[r], e)
    <3>1. HookFailure(store[r], e) = "none"
      BY <1>1, <1>3, EditFine
    <3>2. QED
      BY <1>2, <3>1, HookFine
  <2>3. /\ s \in Indexes /\ s.target = [store[r].target EXCEPT ![e] = NoEntity]
        /\ s.marked = store[r].marked /\ Kept(s, alive, {}, {})
    BY <1>2, <2>1, <2>2, KeptUnlinked
  <2>4. s.target[e] = NoEntity
    BY <1>2, <2>3 DEF IndexTypes
  <2>5. QED
    BY <1>1, <1>2, <1>3, <2>2, <2>3, <2>4 DEF KeptEdge
<1>4. CASE r \notin Gone(c)
  <2>1. s = store[r]
    BY <1>4 DEF Loosened
  <2>2. s.target = [store[r].target EXCEPT ![e] = store[r].target[e]]
    BY <1>2, <2>1 DEF IndexTypes
  <2>3. QED
    BY <1>1, <1>2, <1>4, <2>1, <2>2 DEF KeptEdge
<1>5. QED
  BY <1>3, <1>4

LEMMA EditedKept ==
  ASSUME IInv, stack = <<>>, NEW c \in Commands, c.entity \in alive, EdgeCommand(c), failure' = "none",
         NEW r \in Relations, NEW d, d = Edited(c, r)
  PROVE  /\ d \in Indexes /\ Kept(d, alive, {}, {})
         /\ d.target = [store[r].target EXCEPT ![c.entity] =
                          IF r \in Setting(c) THEN c.edges[r] ELSE KeptEdge(c, r)]
         /\ r \in Setting(c) => c.edges[r] \in alive
<1>1. PICK e \in Entities : e = c.entity
  BY CommandFields DEF CommandTypes
<1>2. PICK s : s = Loosened(c, r)
  OBVIOUS
<1>3. /\ s \in Indexes /\ Kept(s, alive, {}, {}) /\ \A u \in Entities : ~s.marked[u]
      /\ s.target = [store[r].target EXCEPT ![e] = KeptEdge(c, r)]
      /\ s.target[e] = NoEntity \/ s = store[r]
      /\ r \in Gone(c) => s.target[e] = NoEntity /\ store[r].target[e] \in alive
  BY <1>1, <1>2, LoosenedKept
<1>4. CASE r \notin Setting(c)
  <2>1. d = s
    BY <1>2, <1>4 DEF Edited
  <2>2. QED
    BY <1>1, <1>3, <1>4, <2>1
<1>5. CASE r \in Setting(c)
  <2>1. PICK t : t = c.edges[r]
    OBVIOUS
  <2>2. d = Attached(s, e, t)
    BY <1>1, <1>2, <1>5, <2>1 DEF Edited
  <2>3. SetFailure(r, e, t) = "none"
    BY <1>1, <1>5, <2>1, EditFine
  <2>4. t # KeptEdge(c, r)
    BY <1>5, <2>1 DEF Setting
  <2>5. t \in alive /\ (s.target[e] = NoEntity \/ (s.target[e] \in alive /\ Placed(s, e)))
    <3>1. CASE r \in Gone(c)
      <4>1. t \in alive
        <5>1. CASE store[r].target[e] = t
          BY <1>3, <3>1, <5>1
        <5>2. CASE store[r].target[e] # t
          BY <2>3, <5>2, SetFine
        <5>3. QED
          BY <5>1, <5>2
      <4>2. QED
        BY <1>3, <3>1, <4>1
    <3>2. CASE r \notin Gone(c)
      <4>1. store[r].target[e] # t
        BY <1>1, <2>4, <3>2 DEF KeptEdge
      <4>2. t \in alive /\ (store[r].target[e] = NoEntity \/ HookFailure(store[r], e) = "none")
        BY <2>3, <4>1, SetFine
      <4>3. s = store[r]
        BY <1>2, <3>2 DEF Loosened
      <4>4. ASSUME HookFailure(s, e) = "none"
            PROVE  s.target[e] \in alive /\ Placed(s, e)
        <5>1. s.target[e] \in alive /\ (s.marked[s.target[e]] \/ Placed(s, e))
          BY <4>4, HookFine
        <5>2. QED
          BY <1>3, <5>1, StoreFacts
      <4>5. QED
        BY <4>2, <4>3, <4>4
    <3>3. QED
      BY <3>1, <3>2
  <2>6. PICK O : O = {}
    OBVIOUS
  <2>7. PICK A \in SUBSET Entities : A = alive
    BY StoreFacts
  <2>8. /\ e \in A \ O /\ t \in A /\ Kept(s, A, O, O) /\ \A u \in Entities : ~s.marked[u]
        /\ s.target[e] = NoEntity \/ (s.target[e] \in A /\ Placed(s, e))
    BY <1>1, <1>3, <2>5, <2>6, <2>7
  <2>9. /\ d \in Indexes /\ Kept(d, A, O, O) /\ d.target = [s.target EXCEPT ![e] = t]
    <3>1. s \in Indexes
      BY <1>3
    <3>2. QED
      BY ONLY <2>2, <2>8, <3>1, A \in SUBSET Entities, KeptAttached
  <2>10. [s.target EXCEPT ![e] = t] = [store[r].target EXCEPT ![e] = t]
    BY <1>3, StoreFacts DEF IndexTypes
  <2>11. QED
    BY <1>1, <1>5, <2>1, <2>5, <2>6, <2>7, <2>9, <2>10
<1>6. QED
  BY <1>4, <1>5

LEMMA KeptApplyCommand ==
  ASSUME IInv, ApplyCommand
  PROVE  IInv'
<1>1. /\ stack = <<>> /\ batch # <<>> /\ alive' = alive /\ stack' = stack /\ batch' = Tail(batch)
      /\ phase' = phase /\ calls' = calls /\ promised' = promised
      /\ Head(batch).entity \in alive /\ EdgeCommand(Head(batch))
  BY DEF ApplyCommand, Flushing, Returned
<1>2. PICK c \in Commands : c = Head(batch)
  BY <1>1, FirstCommand
<1>3. /\ EdgeCommand(c) /\ c.entity \in alive /\ c.entity \in Entities /\ c.edges \in Edges
  BY <1>1, <1>2, CommandFields DEF CommandTypes
<1>4. failure' \in {"none", "dead", "cycle", "index"}
  BY <1>3, EditFine
<1>5. commands' \in Seq(Commands)
  <2>1. Unsetting(c) \in SUBSET Relations
    BY <1>3, EdgesFacts DEF Unsetting
  <2>2. commands' = Queued(commands, c.entity, Unsetting(c)) /\ commands \in Seq(Commands)
    BY <1>3, EdgeCommandIs DEF IInv, Core
  <2>3. QED
    BY <1>3, <2>1, <2>2, QueuedTyped
<1>6. batch' \in Seq(Commands)
  BY <1>1, FirstCommand
<1>7. store' \in [Relations -> Indexes] /\ AllKept'
  <2>1. CASE failure' # "none"
    <3>1. store' = store
      BY <1>3, <2>1, EdgeCommandIs
    <3>2. QED
      BY <1>1, <3>1, StandStill DEF IInv, Core
  <2>2. CASE failure' = "none"
    <3>1. store' = [r \in Relations |-> Edited(c, r)]
      BY <1>3, <2>2, EdgeCommandIs
    <3>2. \A r \in Relations : Edited(c, r) \in Indexes /\ Kept(Edited(c, r), alive, {}, {})
      BY <1>1, <1>3, <2>2, EditedKept
    <3>3. UnderIn(stack) = {} /\ \A q \in Relations : RanIn(stack, q) = {}
      BY <1>1, Quiet
    <3>4. AllKept'
      BY <1>1, <3>1, <3>2, <3>3, Kept2All
    <3>5. QED
      BY <3>1, <3>2, <3>4
  <2>3. QED
    BY <2>1, <2>2
<1>8. Core'
  BY <1>1, <1>4, <1>5, <1>6, <1>7 DEF IInv, Core
<1>9. QED
  BY <1>7, <1>8 DEF IInv

-----------------------------------------------------------------------------
(* Killing, hook by hook. *)

Hooks == {"target", "sources"} \X Relations

LEMMA FirstIs ==
  ASSUME NEW todo \in SUBSET Hooks, todo # {}
  PROVE  First(todo) \in todo /\ \A d \in todo : Id(First(todo)) <= Id(d)
<1>1. \A c \in todo : Id(c) \in Nat
  <2>1. ASSUME NEW c \in todo PROVE Id(c) \in Nat
    <3>1. c[2] \in Relations
      BY DEF Hooks
    <3>2. Component[c[2]] \in Nat
      BY <3>1, RelationsAssumption DEF RelationsAssumption
    <3>3. QED
      BY <3>2 DEF Id
  <2>2. QED
    BY <2>1
<1>2. PICK S : S = {Id(c) : c \in todo}
  OBVIOUS
<1>3. S \in SUBSET Nat /\ S # {}
  BY <1>1, <1>2
<1>4. Min(S) \in S /\ \A x \in S : Min(S) <= x
  BY <1>3, LeastOf
<1>5. \E c \in todo : \A d \in todo : Id(c) <= Id(d)
  BY <1>2, <1>4
<1>6. First(todo) = CHOOSE c \in todo : \A d \in todo : Id(c) <= Id(d)
  BY DEF First
<1>7. QED
  BY <1>5, <1>6

LEMMA KillingFacts ==
  ASSUME IInv, Killing
  PROVE  /\ stack \in Seq(Frames) /\ stack # <<>> /\ Top \in Frames /\ Top.hook = "kill"
         /\ Top.entity \in Entities /\ Top.todo \in SUBSET Hooks /\ Front(stack) \in Seq(Frames)
         /\ Top.todo # {} => NextHook \in Top.todo /\ NextHook[2] \in Relations /\ NextHook \in Hooks
         /\ Top.entity \in UnderIn(stack)
<1>1. stack \in Seq(Frames) /\ stack # <<>> /\ Top.hook = "kill"
  BY DEF IInv, Core, Killing, Running
<1>2. Top \in Frames /\ Front(stack) \in Seq(Frames) /\ Top = stack[Len(stack)] /\ Len(stack) \in DOMAIN stack
  BY <1>1, StackTop
<1>3. Top.entity \in Entities /\ Top.todo \in SUBSET Hooks
  BY <1>1, <1>2, FrameFacts DEF Hooks
<1>4. ASSUME Top.todo # {}
      PROVE  NextHook \in Top.todo /\ NextHook[2] \in Relations /\ NextHook \in Hooks
  <2>1. NextHook \in Top.todo
    BY <1>3, <1>4, FirstIs DEF NextHook
  <2>2. NextHook \in Hooks
    BY <1>3, <2>1
  <2>3. QED
    BY <2>1, <2>2 DEF Hooks
<1>5. Top.entity \in UnderIn(stack)
  BY <1>1, <1>2, <1>3 DEF UnderIn, Kills
<1>6. QED
  BY <1>1, <1>2, <1>3, <1>4, <1>5

(* One hook of the entity on top has run.                                    *)
LEMMA PoppedSets ==
  ASSUME IInv, Killing, Top.todo # {}
  PROVE  /\ Popped \in Seq(Frames) /\ UnderIn(Popped) = UnderIn(stack)
         /\ \A r \in Relations : NextHook # <<"target", r>> => RanIn(Popped, r) = RanIn(stack, r)
         /\ \A r \in Relations : NextHook = <<"target", r>> =>
              RanIn(Popped, r) = RanIn(stack, r) \cup {Top.entity}
<1>1. /\ stack \in Seq(Frames) /\ stack # <<>> /\ Top \in Frames /\ Top.hook = "kill"
      /\ Top.entity \in Entities /\ Front(stack) \in Seq(Frames)
  BY KillingFacts
<1>2. PICK f \in Frames : /\ Popped = Append(Front(stack), f)
                          /\ f.hook = "kill" /\ f.entity = Top.entity /\ f.todo = Top.todo \ {NextHook}
  BY <1>1, PoppedIs
<1>3. /\ Popped \in Seq(Frames)
      /\ UnderIn(Popped) = UnderIn(Front(stack)) \cup {e \in Entities : Kills(f, e)}
      /\ \A r \in Relations : RanIn(Popped, r) =
           RanIn(Front(stack), r) \cup {e \in Entities : Kills(f, e) /\ <<"target", r>> \notin f.todo}
  BY <1>1, <1>2, Pushed
<1>4. /\ UnderIn(stack) = UnderIn(Front(stack)) \cup {e \in Entities : Kills(Top, e)}
      /\ \A r \in Relations : RanIn(stack, r) =
           RanIn(Front(stack), r) \cup {e \in Entities : Kills(Top, e) /\ <<"target", r>> \notin Top.todo}
  BY <1>1, Returning
<1>5. \A e : (Kills(f, e) <=> e = Top.entity) /\ (Kills(Top, e) <=> e = Top.entity)
  BY <1>1, <1>2 DEF Kills
<1>6. UnderIn(Popped) = UnderIn(stack)
  BY <1>3, <1>4, <1>5
<1>7. ASSUME NEW r \in Relations, NextHook # <<"target", r>>
      PROVE  RanIn(Popped, r) = RanIn(stack, r)
  <2>1. <<"target", r>> \in f.todo <=> <<"target", r>> \in Top.todo
    BY <1>2, <1>7
  <2>2. QED
    BY <1>3, <1>4, <1>5, <2>1
<1>8. ASSUME NEW r \in Relations, NextHook = <<"target", r>>
      PROVE  RanIn(Popped, r) = RanIn(stack, r) \cup {Top.entity}
  <2>1. <<"target", r>> \notin f.todo
    BY <1>2, <1>8
  <2>2. {e \in Entities : Kills(f, e) /\ <<"target", r>> \notin f.todo} = {Top.entity}
    BY <1>1, <1>5, <2>1
  <2>3. {e \in Entities : Kills(Top, e) /\ <<"target", r>> \notin Top.todo} \subseteq {Top.entity}
    BY <1>5
  <2>4. QED
    BY <1>3, <1>4, <2>2, <2>3
<1>9. QED
  BY <1>3, <1>6, <1>7, <1>8

LEMMA KeptKillTarget ==
  ASSUME IInv, KillTarget
  PROVE  IInv'
<1>1. /\ Killing /\ Top.entity \in alive /\ Top.todo # {} /\ NextHook[1] = "target"
      /\ stack' = Popped /\ alive' = alive /\ commands' = commands /\ Unchanged
  BY DEF KillTarget
<1>2. /\ Top.entity \in Entities /\ NextHook[2] \in Relations /\ NextHook \in Hooks
  BY <1>1, KillingFacts
<1>3. PICK e \in Entities : e = Top.entity
  BY <1>2
<1>4. PICK r \in Relations : r = NextHook[2]
  BY <1>2
<1>5. NextHook = <<"target", r>>
  BY <1>1, <1>2, <1>4 DEF Hooks
<1>6. /\ Popped \in Seq(Frames) /\ UnderIn(Popped) = UnderIn(stack)
      /\ \A q \in Relations \ {r} : RanIn(Popped, q) = RanIn(stack, q)
      /\ RanIn(Popped, r) = RanIn(stack, r) \cup {e}
  <2>1. \A q \in Relations \ {r} : NextHook # <<"target", q>>
    BY <1>5
  <2>2. QED
    BY <1>1, <1>3, <1>5, <2>1, PoppedSets
<1>7. /\ store[r] \in Indexes /\ alive \in SUBSET Entities
      /\ Kept(store[r], alive, UnderIn(stack), RanIn(stack, r))
  BY StoreFacts
<1>8. /\ failure' \in {"none", "dead", "cycle", "index"} /\ store' \in [Relations -> Indexes]
      /\ \A q \in Relations \ {r} : store'[q] = store[q]
      /\ Kept(store'[r], alive, UnderIn(stack), RanIn(stack, r) \cup {e})
  <2>1. CASE ~HasTarget(e, r)
    <3>1. failure' = failure /\ store' = store
      BY <1>3, <1>4, <2>1 DEF KillTarget
    <3>2. NoEntity \notin alive /\ \A u \in Entities : store[r].marked[u] => u \in UnderIn(stack)
      BY <1>7, GraphAssumption DEF GraphAssumption, Kept, Clean
    <3>3. \A x \in alive : store[r].target[x] \in alive => (x \in RanIn(stack, r) <=> x \in RanIn(stack, r) \cup {e})
      BY <2>1, <3>2 DEF HasTarget
    <3>4. Kept(store[r], alive, UnderIn(stack), RanIn(stack, r) \cup {e})
      BY <1>7, <3>2, <3>3, KeptFrames
    <3>5. QED
      BY <3>1, <3>4 DEF IInv, Core
  <2>2. CASE HasTarget(e, r) /\ HookFailure(store[r], e) # "none"
    <3>1. failure' = HookFailure(store[r], e) /\ store' = store
      BY <1>3, <1>4, <2>2 DEF KillTarget
    <3>2. \A u \in Entities : store[r].marked[u] => u \in UnderIn(stack)
      BY <1>7 DEF Kept, Clean
    <3>3. store[r].target[e] \in alive => e \in RanIn(stack, r)
      <4>1. SUFFICES ASSUME store[r].target[e] \in alive, e \notin RanIn(stack, r)
                     PROVE  FALSE
        OBVIOUS
      <4>2. store[r].marked[store[r].target[e]] \/ Placed(store[r], e)
        BY <1>1, <1>3, <1>7, <4>1 DEF Kept, Listed
      <4>3. QED
        BY <2>2, <4>1, <4>2, HookFine
    <3>4. \A x \in alive : store[r].target[x] \in alive => (x \in RanIn(stack, r) <=> x \in RanIn(stack, r) \cup {e})
      BY <3>3
    <3>5. Kept(store[r], alive, UnderIn(stack), RanIn(stack, r) \cup {e})
      BY <1>7, <3>2, <3>4, KeptFrames
    <3>6. QED
      BY <3>1, <3>5, HookFine DEF IInv, Core
  <2>3. CASE HasTarget(e, r) /\ HookFailure(store[r], e) = "none"
    <3>1. PICK d : d = Hook(store[r], e)
      OBVIOUS
    <3>2. failure' = "none" /\ store' = [store EXCEPT ![r] = d]
      BY <1>3, <1>4, <2>3, <3>1 DEF KillTarget
    <3>3. store[r].target[e] \in alive /\ (store[r].marked[store[r].target[e]] \/ Placed(store[r], e))
      BY <2>3, HookFine
    <3>4. d \in Indexes /\ Kept(d, alive, UnderIn(stack), RanIn(stack, r) \cup {e})
      BY <1>7, <3>1, <3>3, KeptHook
    <3>5. store' \in [Relations -> Indexes] /\ store'[r] = d /\ \A q \in Relations \ {r} : store'[q] = store[q]
      BY <3>2, <3>4, StoreFacts
    <3>6. QED
      BY <3>2, <3>4, <3>5
  <2>4. QED
    BY <2>1, <2>2, <2>3
<1>9. AllKept'
  BY <1>1, <1>6, <1>8, Kept2All DEF IInv, AllKept
<1>10. Core'
  BY <1>1, <1>6, <1>8 DEF IInv, Core, Unchanged
<1>11. QED
  BY <1>9, <1>10 DEF IInv

LEMMA SourcesFrameTyped ==
  ASSUME IInv, NEW e \in Entities, NEW r \in Relations
  PROVE  /\ SourcesFrame(e, r) \in Frames /\ SourcesFrame(e, r).hook = "sources"
         /\ SourcesFrame(e, r).entity = e /\ SourcesFrame(e, r).relation = r
         /\ SourcesFrame(e, r).left = store[r].sources[e]
<1>1. store[r].sources[e] \in Seq(Entities)
  BY StoreFacts DEF IndexTypes
<1>2. SourcesFrame(e, r) \in [hook : {"sources"}, entity : Entities, relation : Relations, left : Seq(Entities)]
  BY <1>1 DEF SourcesFrame
<1>3. SourcesFrame(e, r) \in Frames
  BY <1>2 DEF Frames
<1>4. QED
  BY <1>3 DEF SourcesFrame

(* A frame of sources on top changes nothing of who is being killed.         *)
LEMMA PushedSources ==
  ASSUME NEW st \in Seq(Frames), NEW f \in Frames, f.hook = "sources"
  PROVE  /\ Append(st, f) \in Seq(Frames) /\ UnderIn(Append(st, f)) = UnderIn(st)
         /\ \A r \in Relations : RanIn(Append(st, f), r) = RanIn(st, r)
<1>1. \A e : ~Kills(f, e)
  BY DEF Kills
<1>2. /\ Append(st, f) \in Seq(Frames)
      /\ UnderIn(Append(st, f)) = UnderIn(st) \cup {e \in Entities : Kills(f, e)}
      /\ \A r \in Relations : RanIn(Append(st, f), r) =
           RanIn(st, r) \cup {e \in Entities : Kills(f, e) /\ <<"target", r>> \notin f.todo}
  BY Pushed
<1>3. QED
  BY <1>1, <1>2

LEMMA KeptKillSources ==
  ASSUME IInv, KillSources
  PROVE  IInv'
<1>1. /\ Killing /\ Top.entity \in alive /\ Top.todo # {} /\ NextHook[1] = "sources"
      /\ alive' = alive /\ commands' = commands /\ failure' = failure /\ Unchanged
  BY DEF KillSources
<1>2. /\ Top.entity \in Entities /\ NextHook[2] \in Relations /\ NextHook \in Hooks
      /\ Top.entity \in UnderIn(stack)
  BY <1>1, KillingFacts
<1>3. PICK e \in Entities : e = Top.entity
  BY <1>2
<1>4. PICK r \in Relations : r = NextHook[2]
  BY <1>2
<1>5. \A q \in Relations : NextHook # <<"target", q>>
  BY <1>1
<1>6. /\ Popped \in Seq(Frames) /\ UnderIn(Popped) = UnderIn(stack)
      /\ \A q \in Relations : RanIn(Popped, q) = RanIn(stack, q)
  BY <1>1, <1>5, PoppedSets
<1>7. /\ store[r] \in Indexes /\ alive \in SUBSET Entities
      /\ Kept(store[r], alive, UnderIn(stack), RanIn(stack, r))
  BY StoreFacts
<1>8. /\ stack' \in Seq(Frames) /\ UnderIn(stack') = UnderIn(stack)
      /\ \A q \in Relations : RanIn(stack', q) = RanIn(stack, q)
  <2>1. CASE HasSources(e, r)
    <3>1. PICK f \in Frames : f = SourcesFrame(e, r) /\ f.hook = "sources"
      BY SourcesFrameTyped
    <3>2. stack' = Append(Popped, f)
      BY <1>3, <1>4, <2>1, <3>1 DEF KillSources
    <3>3. QED
      BY <1>6, <3>1, <3>2, PushedSources
  <2>2. CASE ~HasSources(e, r)
    <3>1. stack' = Popped
      BY <1>3, <1>4, <2>2 DEF KillSources
    <3>2. QED
      BY <1>6, <3>1
  <2>3. QED
    BY <2>1, <2>2
<1>9. /\ store' \in [Relations -> Indexes] /\ \A q \in Relations \ {r} : store'[q] = store[q]
      /\ Kept(store'[r], alive, UnderIn(stack), RanIn(stack, r))
  <2>1. CASE HasSources(e, r)
    <3>1. PICK d : d = Marking(store[r], e)
      OBVIOUS
    <3>2. store' = [store EXCEPT ![r].marked[e] = TRUE]
      BY <1>3, <1>4, <2>1 DEF KillSources
    <3>3. r \in DOMAIN store
      BY DEF IInv, Core
    <3>4. store' = [store EXCEPT ![r] = d]
      BY <3>1, <3>2, <3>3 DEF Marking
    <3>5. e \in alive \cap UnderIn(stack)
      BY <1>1, <1>2, <1>3
    <3>6. d \in Indexes /\ Kept(d, alive, UnderIn(stack), RanIn(stack, r))
      BY <1>7, <3>1, <3>5, KeptMarked
    <3>7. store' \in [Relations -> Indexes] /\ store'[r] = d /\ \A q \in Relations \ {r} : store'[q] = store[q]
      BY <3>4, <3>6, StoreFacts
    <3>8. QED
      BY <3>6, <3>7
  <2>2. CASE ~HasSources(e, r)
    <3>1. store' = store
      BY <1>3, <1>4, <2>2 DEF KillSources
    <3>2. QED
      BY <1>7, <3>1 DEF IInv, Core
  <2>3. QED
    BY <2>1, <2>2
<1>10. AllKept'
  BY <1>1, <1>8, <1>9, Kept2All DEF IInv, AllKept
<1>11. Core'
  BY <1>1, <1>8, <1>9 DEF IInv, Core, Unchanged
<1>12. QED
  BY <1>10, <1>11 DEF IInv

LEMMA KeptKillRow ==
  ASSUME IInv, KillRow
  PROVE  IInv'
<1>1. /\ Killing /\ (Top.todo = {} \/ Top.entity \notin alive)
      /\ alive' = alive \ {Top.entity} /\ stack' = Front(stack)
      /\ commands' = commands /\ failure' = failure /\ Unchanged
  BY DEF KillRow
<1>2. /\ stack \in Seq(Frames) /\ stack # <<>> /\ Top.hook = "kill" /\ Top.entity \in Entities
      /\ Front(stack) \in Seq(Frames)
  BY <1>1, KillingFacts
<1>3. PICK e \in Entities : e = Top.entity
  BY <1>2
<1>4. \A x : Kills(Top, x) <=> x = e
  BY <1>2, <1>3 DEF Kills
<1>5. /\ UnderIn(stack) = UnderIn(Front(stack)) \cup {x \in Entities : Kills(Top, x)}
      /\ \A r \in Relations : RanIn(stack, r) =
           RanIn(Front(stack), r) \cup {x \in Entities : Kills(Top, x) /\ <<"target", r>> \notin Top.todo}
  BY <1>2, Returning
<1>6. /\ UnderIn(stack) \ {e} \subseteq UnderIn(stack')
      /\ \A r \in Relations : \A x \in Entities \ {e} : x \in RanIn(stack, r) <=> x \in RanIn(stack', r)
  BY <1>1, <1>4, <1>5
<1>7. store' \in [Relations -> Indexes] /\ \A r \in Relations : Kept(store'[r], alive', UnderIn(stack'), RanIn(stack', r))
  <2>1. CASE e \in alive
    <3>1. Top.todo = {} /\ store' = [r \in Relations |-> Dropped(store[r], e)] /\ alive' = alive \ {e}
      BY <1>1, <1>3, <2>1 DEF KillRow
    <3>2. ASSUME NEW r \in Relations
          PROVE  Dropped(store[r], e) \in Indexes /\ Kept(Dropped(store[r], e), alive', UnderIn(stack'), RanIn(stack', r))
      <4>1. e \in alive \cap RanIn(stack, r)
        BY <1>4, <1>5, <2>1, <3>1
      <4>2. /\ store[r] \in Indexes /\ alive \in SUBSET Entities
            /\ Kept(store[r], alive, UnderIn(stack), RanIn(stack, r))
        BY StoreFacts
      <4>3. PICK s \in Indexes : s = store[r]
        BY <4>2
      <4>4. PICK A \in SUBSET Entities : A = alive
        BY <4>2
      <4>5. PICK K : K = UnderIn(stack)
        OBVIOUS
      <4>6. PICK R : R = RanIn(stack, r)
        OBVIOUS
      <4>7. PICK M : M = UnderIn(stack')
        OBVIOUS
      <4>8. PICK Q : Q = RanIn(stack', r)
        OBVIOUS
      <4>9. e \in A \cap R /\ Kept(s, A, K, R) /\ K \ {e} \subseteq M /\ \A x \in A \ {e} : x \in R <=> x \in Q
        BY <1>6, <4>1, <4>2, <4>3, <4>4, <4>5, <4>6, <4>7, <4>8
      <4>10. PICK d : d = Dropped(s, e)
        OBVIOUS
      <4>11. d \in Indexes /\ Kept(d, A \ {e}, M, Q)
        BY ONLY <4>9, <4>10, s \in Indexes, A \in SUBSET Entities, KeptDropped
      <4>12. QED
        BY <3>1, <4>3, <4>4, <4>7, <4>8, <4>10, <4>11
    <3>3. QED
      BY <3>1, <3>2
  <2>2. CASE e \notin alive
    <3>1. store' = store /\ alive' = alive
      BY <1>1, <1>3, <2>2 DEF KillRow
    <3>2. ASSUME NEW r \in Relations
          PROVE  Kept(store[r], alive, UnderIn(stack'), RanIn(stack', r))
      <4>1. Kept(store[r], alive, UnderIn(stack), RanIn(stack, r)) /\ alive \in SUBSET Entities
        BY StoreFacts
      <4>2. \A u \in Entities : store[r].marked[u] => u \in UnderIn(stack')
        BY <1>6, <2>2, <4>1 DEF Kept, Clean
      <4>3. \A x \in alive : x \in RanIn(stack, r) <=> x \in RanIn(stack', r)
        BY <1>6, <2>2, <4>1
      <4>4. QED
        BY <4>1, <4>2, <4>3, KeptFrames
    <3>3. QED
      BY <3>1, <3>2 DEF IInv, Core
  <2>3. QED
    BY <2>1, <2>2
<1>8. AllKept'
  BY <1>7, Kept2All
<1>9. Core'
  BY <1>1, <1>2, <1>7 DEF IInv, Core, Unchanged
<1>10. QED
  BY <1>8, <1>9 DEF IInv

LEMMA InSourcesFacts ==
  ASSUME IInv, InSources
  PROVE  /\ stack \in Seq(Frames) /\ stack # <<>> /\ Top \in Frames /\ Top.hook = "sources"
         /\ Top.entity \in Entities /\ Top.relation \in Relations /\ Top.left \in Seq(Entities)
         /\ Front(stack) \in Seq(Frames)
         /\ Top.left # <<>> => NextSource \in Entities
<1>1. stack \in Seq(Frames) /\ stack # <<>> /\ Top.hook = "sources"
  BY DEF IInv, Core, InSources, Running
<1>2. Top \in Frames /\ Front(stack) \in Seq(Frames)
  BY <1>1, StackTop
<1>3. Top.entity \in Entities /\ Top.relation \in Relations /\ Top.left \in Seq(Entities)
  BY <1>1, <1>2, FrameFacts
<1>4. Top.left # <<>> => NextSource \in Entities
  BY <1>3 DEF NextSource
<1>5. QED
  BY <1>1, <1>2, <1>3, <1>4

LEMMA ReturnedSources ==
  ASSUME IInv, InSources
  PROVE  /\ UnderIn(Front(stack)) = UnderIn(stack)
         /\ \A r \in Relations : RanIn(Front(stack), r) = RanIn(stack, r)
<1>1. stack \in Seq(Frames) /\ stack # <<>> /\ Top.hook = "sources"
  BY InSourcesFacts
<1>2. \A x : ~Kills(Top, x)
  BY <1>1 DEF Kills
<1>3. /\ UnderIn(stack) = UnderIn(Front(stack)) \cup {x \in Entities : Kills(Top, x)}
      /\ \A r \in Relations : RanIn(stack, r) =
           RanIn(Front(stack), r) \cup {x \in Entities : Kills(Top, x) /\ <<"target", r>> \notin Top.todo}
  BY <1>1, Returning
<1>4. QED
  BY <1>2, <1>3

LEMMA PassedSets ==
  ASSUME IInv, InSources, Top.left # <<>>
  PROVE  /\ Passed \in Seq(Frames) /\ UnderIn(Passed) = UnderIn(stack)
         /\ \A r \in Relations : RanIn(Passed, r) = RanIn(stack, r)
<1>1. stack \in Seq(Frames) /\ stack # <<>> /\ Top.hook = "sources" /\ Front(stack) \in Seq(Frames)
  BY InSourcesFacts
<1>2. PICK f \in Frames : Passed = Append(Front(stack), f) /\ f.hook = "sources"
  BY <1>1, PassedIs
<1>3. /\ Passed \in Seq(Frames) /\ UnderIn(Passed) = UnderIn(Front(stack))
      /\ \A r \in Relations : RanIn(Passed, r) = RanIn(Front(stack), r)
  BY <1>1, <1>2, PushedSources
<1>4. QED
  BY <1>3, ReturnedSources

LEMMA KeptKillSource ==
  ASSUME IInv, KillSource
  PROVE  IInv'
<1>1. /\ InSources /\ Top.left # <<>> /\ alive' = alive /\ store' = store
      /\ commands' = commands /\ failure' = failure /\ Unchanged
  BY DEF KillSource
<1>2. /\ Passed \in Seq(Frames) /\ UnderIn(Passed) = UnderIn(stack)
      /\ \A r \in Relations : RanIn(Passed, r) = RanIn(stack, r)
  BY <1>1, PassedSets
<1>3. PICK x \in Entities : x = NextSource
  BY <1>1, InSourcesFacts
<1>4. AllKept' /\ stack' \in Seq(Frames)
  <2>1. CASE x \in alive
    <3>1. stack' = Append(Passed, KillFrame(x))
      BY <1>3, <2>1 DEF KillSource
    <3>2. QED
      BY <1>1, <1>2, <3>1, KeptPushKill
  <2>2. CASE x \notin alive
    <3>1. stack' = Passed
      BY <1>3, <2>2 DEF KillSource
    <3>2. QED
      BY <1>1, <1>2, <3>1, Kept2All DEF IInv, AllKept
  <2>3. QED
    BY <2>1, <2>2
<1>5. Core'
  BY <1>1, <1>4 DEF IInv, Core, Unchanged
<1>6. QED
  BY <1>4, <1>5 DEF IInv

LEMMA KeptUnrelateSource ==
  ASSUME IInv, UnrelateSource
  PROVE  IInv'
<1>1. InSources /\ Top.left # <<>> /\ stack' = Passed /\ alive' = alive /\ Unchanged
  BY DEF UnrelateSource
<1>2. /\ Passed \in Seq(Frames) /\ UnderIn(Passed) = UnderIn(stack)
      /\ \A q \in Relations : RanIn(Passed, q) = RanIn(stack, q)
  BY <1>1, PassedSets
<1>3. PICK e \in Entities : e = NextSource
  BY <1>1, InSourcesFacts
<1>4. PICK r \in Relations : r = Top.relation
  BY <1>1, InSourcesFacts
<1>5. /\ failure' = IF e \notin alive THEN "dead"
                    ELSE IF (e \in alive /\ HasTarget(e, r)) /\ phase = "idle" THEN HookFailure(store[r], e)
                    ELSE "none"
      /\ store' = IF (e \in alive /\ HasTarget(e, r)) /\ phase = "idle" /\ failure' = "none"
                    THEN [store EXCEPT ![r] = Unlinked(@, e)] ELSE store
      /\ commands' = IF (e \in alive /\ HasTarget(e, r)) /\ phase = "flush" THEN Queued(commands, e, {r})
                     ELSE commands
  BY <1>3, <1>4 DEF UnrelateSource
<1>6. /\ store[r] \in Indexes /\ alive \in SUBSET Entities
      /\ Kept(store[r], alive, UnderIn(stack), RanIn(stack, r))
  BY StoreFacts
<1>7. failure' \in {"none", "dead", "cycle", "index"}
  BY <1>5, HookFine
<1>8. commands' \in Seq(Commands)
  BY <1>5, QueuedTyped DEF IInv, Core
<1>9. /\ store' \in [Relations -> Indexes] /\ \A q \in Relations \ {r} : store'[q] = store[q]
      /\ Kept(store'[r], alive, UnderIn(stack), RanIn(stack, r))
  <2>1. CASE (e \in alive /\ HasTarget(e, r)) /\ phase = "idle" /\ failure' = "none"
    <3>1. PICK d : d = Unlinked(store[r], e)
      OBVIOUS
    <3>2. store' = [store EXCEPT ![r] = d] /\ HookFailure(store[r], e) = "none"
      BY <1>5, <2>1, <3>1
    <3>3. store[r].target[e] \in alive /\ (store[r].marked[store[r].target[e]] \/ Placed(store[r], e))
      BY <3>2, HookFine
    <3>4. d \in Indexes /\ Kept(d, alive, UnderIn(stack), RanIn(stack, r))
      BY <1>6, <3>1, <3>3, KeptUnlinked
    <3>5. store' \in [Relations -> Indexes] /\ store'[r] = d /\ \A q \in Relations \ {r} : store'[q] = store[q]
      BY <3>2, <3>4, StoreFacts
    <3>6. QED
      BY <3>4, <3>5
  <2>2. CASE ~((e \in alive /\ HasTarget(e, r)) /\ phase = "idle" /\ failure' = "none")
    <3>1. store' = store
      BY <1>5, <2>2
    <3>2. QED
      BY <1>6, <3>1 DEF IInv, Core
  <2>3. QED
    BY <2>1, <2>2
<1>10. AllKept'
  BY <1>1, <1>2, <1>9, Kept2All DEF IInv, AllKept
<1>11. Core'
  BY <1>1, <1>2, <1>7, <1>8, <1>9 DEF IInv, Core, Unchanged
<1>12. QED
  BY <1>10, <1>11 DEF IInv

LEMMA KeptSourcesDone ==
  ASSUME IInv, SourcesDone
  PROVE  IInv'
<1>1. /\ InSources /\ stack' = Front(stack) /\ alive' = alive /\ store' = store
      /\ commands' = commands /\ failure' = failure /\ Unchanged
  BY DEF SourcesDone
<1>2. Front(stack) \in Seq(Frames)
  BY <1>1, InSourcesFacts
<1>3. AllKept'
  BY <1>1, ReturnedSources, Kept2All DEF IInv, AllKept
<1>4. Core'
  BY <1>1, <1>2 DEF IInv, Core, Unchanged
<1>5. QED
  BY <1>3, <1>4 DEF IInv

LEMMA IInvInit == Init => IInv
<1>1. ASSUME Init PROVE IInv
  <2>1. PICK s : s = [target  |-> [e \in Entities |-> NoEntity], index  |-> [e \in Entities |-> 0],
                      sources |-> [e \in Entities |-> <<>>],     marked |-> [e \in Entities |-> FALSE]]
    OBVIOUS
  <2>2. store = [r \in Relations |-> s]
    BY <1>1, <2>1 DEF Init
  <2>3. s \in Indexes
    BY <2>1 DEF Indexes
  <2>4. stack = <<>> /\ UnderIn(stack) = {} /\ \A r \in Relations : RanIn(stack, r) = {}
    BY <1>1 DEF Init, UnderIn, RanIn
  <2>5. alive = Entities /\ NoEntity \notin alive
    BY <1>1, GraphAssumption DEF Init, GraphAssumption
  <2>6. Kept(s, alive, {}, {})
    <3>1. TrueLists(s, alive)
      BY <2>1, <2>5 DEF TrueLists
    <3>2. Listed(s, alive, {}) /\ Unlisted(s, alive, {})
      BY <2>1, <2>5 DEF Listed, Unlisted
    <3>3. Clean(s, alive, {})
      BY <2>1 DEF Clean
    <3>4. QED
      BY <3>1, <3>2, <3>3 DEF Kept
  <2>7. AllKept
    BY <2>2, <2>4, <2>6 DEF AllKept
  <2>8. [r \in Relations |-> store[r].target] \in [Relations -> [Entities -> Entities \cup {NoEntity}]]
    BY <2>1, <2>2
  <2>9. promised \in Graphs
    BY <1>1, <2>5, <2>8 DEF Init, Now, Graphs
  <2>10. 0 \in 0..MaxCalls
    BY RelationsAssumption DEF RelationsAssumption
  <2>11. Core
    <3>1. store \in [Relations -> Indexes]
      BY <2>2, <2>3
    <3>2. stack \in Seq(Frames) /\ commands \in Seq(Commands) /\ batch \in Seq(Commands)
      BY <1>1 DEF Init
    <3>3. calls \in 0..MaxCalls /\ phase = "idle" /\ failure = "none"
      BY <1>1, <2>10 DEF Init
    <3>4. QED
      BY <2>5, <2>9, <3>1, <3>2, <3>3 DEF Core
  <2>12. QED
    BY <2>7, <2>11 DEF IInv
<1>2. QED
  BY <1>1

LEMMA IInvStep == IInv /\ [Next]_vars => IInv'
<1>1. SUFFICES ASSUME IInv, [Next]_vars
               PROVE  IInv'
  OBVIOUS
<1>2. ASSUME NEW e \in Entities, NEW r \in Relations, NEW t \in Entities, RelateCall(e, r, t)
      PROVE  IInv'
  BY <1>1, <1>2, KeptRelateCall
<1>3. ASSUME NEW e \in Entities, NEW r \in Relations, UnrelateCall(e, r)
      PROVE  IInv'
  BY <1>1, <1>3, KeptUnrelateCall
<1>4. ASSUME NEW e \in Entities, KillCall(e)
      PROVE  IInv'
  BY <1>1, <1>4, KeptKillCall
<1>5. ASSUME NEW e \in Entities, NEW r \in Relations, NEW t \in Entities, DeferRelate(e, r, t)
      PROVE  IInv'
  BY <1>1, <1>5, KeptDeferred
<1>6. ASSUME NEW e \in Entities, NEW r \in Relations, DeferUnrelate(e, r)
      PROVE  IInv'
  BY <1>1, <1>6, KeptDeferred
<1>7. ASSUME NEW e \in Entities, DeferKill(e)
      PROVE  IInv'
  <2>1. alive' = alive /\ store' = store /\ stack' = stack
    BY <1>7 DEF DeferKill
  <2>2. calls' \in 0..MaxCalls
    BY <1>1, <1>7, RelationsAssumption DEF DeferKill, DeferCall, IInv, Core, RelationsAssumption
  <2>3. promised' \in Graphs
    BY <1>1, <1>7, KillTyped DEF DeferKill, IInv, Core
  <2>4. [NoCommand(e) EXCEPT !.kill = TRUE] \in Commands
    BY NoCommandTyped
  <2>5. commands' \in Seq(Commands)
    BY <1>1, <1>7, <2>4, RecordedIs DEF DeferKill, IInv, Core
  <2>6. Core'
    BY <1>1, <1>7, <2>1, <2>2, <2>3, <2>5 DEF DeferKill, IInv, Core
  <2>7. QED
    BY <1>1, <2>1, <2>6, StandStill DEF IInv
<1>8. CASE DeferBegin \/ DeferEnd \/ NextBatch \/ EndFlush \/ SkipCommand
  BY <1>1, <1>8, KeptScope
<1>9. CASE KillCommand
  BY <1>1, <1>9, KeptKillCommand
<1>10. CASE ApplyCommand
  BY <1>1, <1>10, KeptApplyCommand
<1>11. CASE KillTarget
  BY <1>1, <1>11, KeptKillTarget
<1>12. CASE KillSources
  BY <1>1, <1>12, KeptKillSources
<1>13. CASE KillRow
  BY <1>1, <1>13, KeptKillRow
<1>14. CASE KillSource
  BY <1>1, <1>14, KeptKillSource
<1>15. CASE UnrelateSource
  BY <1>1, <1>15, KeptUnrelateSource
<1>16. CASE SourcesDone
  BY <1>1, <1>16, KeptSourcesDone
<1>17. CASE UNCHANGED vars
  BY <1>1, <1>17 DEF vars, IInv, Core, AllKept
<1>18. QED
  BY <1>1, <1>2, <1>3, <1>4, <1>5, <1>6, <1>7, <1>8, <1>9, <1>10, <1>11, <1>12, <1>13, <1>14,
     <1>15, <1>16, <1>17 DEF Next, Calls, Work

LEMMA IInvAlways == Spec => []IInv
  BY IInvInit, IInvStep, PTL DEF Spec

(* Every variable keeps its type: the places in the lists, the frames of     *)
(* nested kills and the commands merged while others are applied.            *)
THEOREM TypeCorrect == Spec => []TypeOK
<1>1. IInv => TypeOK
  BY CoreIsTyped DEF IInv
<1>2. QED
  BY <1>1, IInvAlways, PTL

LEMMA ExactBetweenCalls == IInv => ReverseIndexExact
<1>1. SUFFICES ASSUME IInv, Returned, NEW t \in alive, NEW r \in Relations
               PROVE  /\ Len(store[r].sources[t]) = Cardinality({e \in alive : store[r].target[e] = t})
                      /\ \A e \in alive : store[r].target[e] = t =>
                           /\ store[r].index[e] \in DOMAIN store[r].sources[t]
                           /\ store[r].sources[t][store[r].index[e]] = e
  BY Zenon DEF ReverseIndexExact
<1>2. stack = <<>>
  BY <1>1 DEF Returned
<1>3. PICK s : s = store[r]
  OBVIOUS
<1>4. /\ s \in Indexes /\ alive \in SUBSET Entities /\ IndexTypes(s)
      /\ Kept(s, alive, {}, {}) /\ \A u \in Entities : ~s.marked[u]
  BY <1>1, <1>2, <1>3, StoreFacts, Quiet
<1>5. PICK list \in Seq(Entities) : list = s.sources[t]
  BY <1>1, <1>4 DEF IndexTypes
<1>6. \A e \in alive : s.target[e] = t => s.index[e] \in DOMAIN list /\ list[s.index[e]] = e
  <2>1. SUFFICES ASSUME NEW e \in alive, s.target[e] = t
                 PROVE  s.index[e] \in DOMAIN list /\ list[s.index[e]] = e
    OBVIOUS
  <2>2. Placed(s, e)
    BY <1>1, <1>4, <2>1 DEF Kept, Listed
  <2>3. QED
    BY <1>5, <2>1, <2>2 DEF Placed
<1>7. \A j \in DOMAIN list : list[j] \in alive /\ s.target[list[j]] = t /\ s.index[list[j]] = j
  BY <1>1, <1>4, <1>5 DEF Kept, TrueLists, Entry
<1>8. {list[j] : j \in DOMAIN list} = {e \in alive : s.target[e] = t}
  BY <1>6, <1>7
<1>9. Cardinality({list[j] : j \in DOMAIN list}) = Len(list)
  <2>1. PICK n \in Nat : n = Len(list) /\ DOMAIN list = 1..n
    BY <1>5
  <2>2. \A i, j \in 1..n : list[i] = list[j] => i = j
    BY <1>7, <2>1
  <2>3. Cardinality({list[j] : j \in 1..n}) = n
    BY <2>1, <2>2, CountOfDistinct
  <2>4. QED
    BY <2>1, <2>3
<1>10. QED
  BY <1>3, <1>5, <1>6, <1>8, <1>9

(* Between calls every list of sources is the edges read backwards, however  *)
(* many relations there are and whatever they do when a target is deleted.   *)
THEOREM ListsAreEdges == Spec => []ReverseIndexExact
  BY IInvAlways, ExactBetweenCalls, PTL

-----------------------------------------------------------------------------
(* How the frames of nested kills relate, when one relation at most deletes  *)
(* the sources of a deleted target.                                          *)

OneOwner == \A q, r \in Relations : OnDelete[q] = "delete" /\ OnDelete[r] = "delete" => q = r

(* The hook of a list runs above the frame of the target that is killed.     *)
Opened(g, f) ==
  /\ g.hook = "kill" /\ g.entity = f.entity
  /\ <<"target", f.relation>> \notin g.todo /\ <<"sources", f.relation>> \notin g.todo
(* The sources that are left are distinct and still those of the target.     *)
Listing(S, A, f) ==
  /\ S[f.relation].marked[f.entity]
  /\ \A j, k \in DOMAIN f.left : f.left[j] = f.left[k] => j = k
  /\ \A j \in DOMAIN f.left : f.left[j] \in A => S[f.relation].target[f.left[j]] = f.entity
Waiting(U, f) == OnDelete[f.relation] = "delete" => \A j \in DOMAIN f.left : f.left[j] \notin U
(* The entity of a frame lives, and the lists it has yet to give up are whole. *)
Dying(S, A, f) ==
  f.entity \in A /\ \A r \in Relations : <<"sources", r>> \in f.todo => ~S[r].marked[f.entity]
Dragged(S, g, f) ==
  g.hook = "sources" /\ OnDelete[g.relation] = "delete" /\ S[g.relation].target[f.entity] = g.entity

SoundSources(S, A, U, g, f) == Opened(g, f) /\ Listing(S, A, f) /\ Waiting(U, f)
Sound(S, A, U, st, i) ==
  /\ st[i].hook = "sources" => i > 1 /\ SoundSources(S, A, U, st[i - 1], st[i])
  /\ st[i].hook = "kill" => Dying(S, A, st[i]) /\ (i > 1 => Dragged(S, st[i - 1], st[i]))
NestedIn(S, A, U, st) == \A i \in DOMAIN st : Sound(S, A, U, st, i)
OnceIn(st) ==
  \A i, j \in DOMAIN st :
    st[i].hook = "kill" /\ st[j].hook = "kill" /\ st[i].entity = st[j].entity => i = j
Nested == NestedIn(store, alive, UnderIn(stack), stack) /\ OnceIn(stack)

LEMMA NestedPushed ==
  ASSUME NEW S, NEW A, NEW U, NEW b \in Seq(Frames), NEW f \in Frames, NestedIn(S, A, U, b),
         f.hook = "sources" => b # <<>> /\ SoundSources(S, A, U, b[Len(b)], f),
         f.hook = "kill" => Dying(S, A, f) /\ (b # <<>> => Dragged(S, b[Len(b)], f))
  PROVE  NestedIn(S, A, U, Append(b, f))
<1>1. PICK g : g = Append(b, f)
  OBVIOUS
<1>2. PICK n \in Nat : n = Len(b)
  OBVIOUS
<1>3. /\ DOMAIN b = 1..n /\ DOMAIN g = 1..(n + 1) /\ g[n + 1] = f /\ \A i \in 1..n : g[i] = b[i]
      /\ b # <<>> <=> n > 0
  BY <1>1, <1>2
<1>4. SUFFICES ASSUME NEW i \in 1..(n + 1)
               PROVE  Sound(S, A, U, g, i)
  BY <1>1, <1>3 DEF NestedIn
<1>5. CASE i \in 1..n
  <2>1. Sound(S, A, U, b, i) /\ g[i] = b[i]
    BY <1>3, <1>5 DEF NestedIn
  <2>2. i > 1 => g[i - 1] = b[i - 1]
    BY <1>2, <1>3, <1>5
  <2>3. QED
    BY <2>1, <2>2 DEF Sound
<1>6. CASE i = n + 1
  <2>1. g[i] = f /\ i - 1 = n /\ (i > 1 <=> b # <<>>) /\ (i > 1 => g[i - 1] = b[n])
    BY <1>2, <1>3, <1>6
  <2>2. QED
    BY <1>2, <2>1 DEF Sound
<1>7. QED
  BY <1>2, <1>5, <1>6

LEMMA NestedFront ==
  ASSUME NEW S, NEW A, NEW U, stack \in Seq(Frames), stack # <<>>, NestedIn(S, A, U, stack),
         NEW b, b = Front(stack)
  PROVE  /\ NestedIn(S, A, U, b)
         /\ b # <<>> <=> Len(stack) > 1
         /\ Len(stack) > 1 => b[Len(b)] = stack[Len(stack) - 1]
         /\ Sound(S, A, U, stack, Len(stack))
<1>1. Len(stack) \in Nat \ {0}
  BY StackTop
<1>2. PICK n \in Nat \ {0} : n = Len(stack)
  BY <1>1
<1>3. /\ DOMAIN b = 1..(n - 1) /\ Len(b) = n - 1 /\ DOMAIN stack = 1..n
      /\ \A i \in 1..(n - 1) : b[i] = stack[i]
      /\ b \in Seq(Frames)
  BY <1>2, StackTop
<1>4. b # <<>> <=> n > 1
  BY <1>2, <1>3
<1>5. n > 1 => b[Len(b)] = stack[n - 1]
  BY <1>2, <1>3
<1>6. ASSUME NEW i \in 1..(n - 1)
      PROVE  Sound(S, A, U, b, i)
  <2>1. Sound(S, A, U, stack, i) /\ b[i] = stack[i]
    BY <1>2, <1>3 DEF NestedIn
  <2>2. i > 1 => b[i - 1] = stack[i - 1]
    BY <1>2, <1>3
  <2>3. QED
    BY <2>1, <2>2 DEF Sound
<1>7. Sound(S, A, U, stack, n)
  BY <1>2, <1>3 DEF NestedIn
<1>8. QED
  BY <1>2, <1>3, <1>4, <1>5, <1>6, <1>7 DEF NestedIn

LEMMA OncePushed ==
  ASSUME NEW b \in Seq(Frames), NEW f \in Frames, OnceIn(b), f.hook = "kill" => f.entity \notin UnderIn(b)
  PROVE  OnceIn(Append(b, f))
<1>1. PICK g : g = Append(b, f)
  OBVIOUS
<1>2. PICK n \in Nat : n = Len(b)
  OBVIOUS
<1>3. DOMAIN b = 1..n /\ DOMAIN g = 1..(n + 1) /\ g[n + 1] = f /\ \A i \in 1..n : g[i] = b[i]
  BY <1>1, <1>2
<1>4. f.entity \in Entities
  BY FrameFacts
<1>5. \A i \in 1..n : ~(f.hook = "kill" /\ b[i].hook = "kill" /\ b[i].entity = f.entity)
  BY <1>3, <1>4 DEF UnderIn, Kills
<1>6. SUFFICES ASSUME NEW i \in 1..(n + 1), NEW j \in 1..(n + 1), g[i].hook = "kill", g[j].hook = "kill",
                      g[i].entity = g[j].entity
               PROVE  i = j
  BY <1>1, <1>3, Zenon DEF OnceIn
<1>7. CASE i \in 1..n /\ j \in 1..n
  BY <1>3, <1>6, <1>7 DEF OnceIn
<1>8. CASE i = n + 1 /\ j \in 1..n
  BY <1>3, <1>5, <1>6, <1>8
<1>9. CASE j = n + 1 /\ i \in 1..n
  BY <1>3, <1>5, <1>6, <1>9
<1>10. QED
  BY <1>2, <1>6, <1>7, <1>8, <1>9

LEMMA OnceFront ==
  ASSUME stack \in Seq(Frames), stack # <<>>, OnceIn(stack)
  PROVE  /\ OnceIn(Front(stack))
         /\ Top.hook = "kill" => Top.entity \notin UnderIn(Front(stack))
<1>1. Len(stack) \in Nat \ {0}
  BY StackTop
<1>2. PICK n \in Nat \ {0} : n = Len(stack)
  BY <1>1
<1>3. PICK b : b = Front(stack)
  OBVIOUS
<1>4. /\ DOMAIN b = 1..(n - 1) /\ DOMAIN stack = 1..n /\ Top = stack[n] /\ Top \in Frames
      /\ \A i \in 1..(n - 1) : b[i] = stack[i] /\ i \in 1..n /\ i # n
  BY <1>2, <1>3, StackTop
<1>5. OnceIn(b)
  BY <1>4 DEF OnceIn
<1>6. ASSUME Top.hook = "kill", Top.entity \in UnderIn(b) PROVE FALSE
  <2>1. PICK i \in 1..(n - 1) : b[i].hook = "kill" /\ b[i].entity = Top.entity
    BY <1>4, <1>6 DEF UnderIn, Kills
  <2>2. /\ i \in DOMAIN stack /\ n \in DOMAIN stack /\ i # n
        /\ stack[i].hook = "kill" /\ stack[n].hook = "kill" /\ stack[i].entity = stack[n].entity
    BY <1>2, <1>4, <1>6, <2>1
  <2>3. QED
    BY <2>2, Zenon DEF OnceIn
<1>7. QED
  BY <1>3, <1>5, <1>6

(* Below the top, every frame of sources belongs to the killing above it, and *)
(* the hooks of the targets of that relation have run.                       *)
LEMMA LowerOwns ==
  ASSUME NEW S, NEW A, NEW U, stack \in Seq(Frames), stack # <<>>, NestedIn(S, A, U, stack),
         NEW i \in 1..(Len(stack) - 1), stack[i].hook = "sources"
  PROVE  /\ OnDelete[stack[i].relation] = "delete" /\ stack[i] \in Frames
         /\ i > 1 /\ SoundSources(S, A, U, stack[i - 1], stack[i])
<1>1. Len(stack) \in Nat \ {0}
  BY StackTop
<1>2. PICK n \in Nat \ {0} : n = Len(stack)
  BY <1>1
<1>3. i \in 1..n /\ i + 1 \in 1..n /\ DOMAIN stack = 1..n /\ i + 1 > 1 /\ (i + 1) - 1 = i
  BY <1>2
<1>4. Sound(S, A, U, stack, i) /\ Sound(S, A, U, stack, i + 1)
  BY <1>3 DEF NestedIn
<1>5. stack[i] \in Frames /\ stack[i + 1] \in Frames
  BY <1>3
<1>6. stack[i + 1].hook # "sources"
  <2>1. SUFFICES ASSUME stack[i + 1].hook = "sources"
                 PROVE  FALSE
    OBVIOUS
  <2>2. SoundSources(S, A, U, stack[(i + 1) - 1], stack[i + 1])
    BY <1>4, <2>1, Zenon DEF Sound
  <2>3. stack[i].hook = "kill"
    BY <1>3, <2>2 DEF SoundSources, Opened
  <2>4. QED
    BY <2>3
<1>7. stack[i + 1].hook = "kill"
  BY <1>5, <1>6, FrameFacts
<1>8. Dragged(S, stack[(i + 1) - 1], stack[i + 1])
  BY <1>3, <1>4, <1>7, Zenon DEF Sound
<1>9. OnDelete[stack[i].relation] = "delete"
  BY <1>3, <1>8 DEF Dragged
<1>10. i > 1 /\ SoundSources(S, A, U, stack[i - 1], stack[i])
  BY <1>4, Zenon DEF Sound
<1>11. QED
  BY <1>5, <1>9, <1>10

LEMMA LowerRan ==
  ASSUME OneOwner, NEW S, NEW A, NEW U, stack \in Seq(Frames), stack # <<>>, NestedIn(S, A, U, stack),
         Top.hook = "kill", NEW r \in Relations, OnDelete[r] = "delete", <<"target", r>> \notin Top.todo
  PROVE  UnderIn(stack) \subseteq RanIn(stack, r)
<1>1. Len(stack) \in Nat \ {0}
  BY StackTop
<1>2. PICK n \in Nat \ {0} : n = Len(stack)
  BY <1>1
<1>3. DOMAIN stack = 1..n /\ Top = stack[n] /\ \A i \in 1..n : stack[i] \in Frames
  BY <1>2, StackTop
<1>4. SUFFICES ASSUME NEW e \in Entities, NEW i \in 1..n, Kills(stack[i], e)
               PROVE  <<"target", r>> \notin stack[i].todo
  BY <1>3 DEF UnderIn, RanIn
<1>5. CASE i = n
  BY <1>3, <1>5
<1>6. CASE i # n
  <2>1. i + 1 \in 1..n /\ i + 1 > 1 /\ (i + 1) - 1 = i
    BY <1>6
  <2>2. stack[i].hook = "kill"
    BY <1>4 DEF Kills
  <2>3. Sound(S, A, U, stack, i + 1)
    BY <1>3, <2>1 DEF NestedIn
  <2>4. stack[i + 1].hook # "kill"
    <3>1. SUFFICES ASSUME stack[i + 1].hook = "kill"
                   PROVE  FALSE
      OBVIOUS
    <3>2. Dragged(S, stack[(i + 1) - 1], stack[i + 1])
      BY <2>1, <2>3, <3>1, Zenon DEF Sound
    <3>3. QED
      BY <2>1, <2>2, <3>2 DEF Dragged
  <2>5. stack[i + 1].hook = "sources" /\ stack[i + 1] \in Frames
    BY <1>3, <2>1, <2>4, FrameFacts
  <2>6. SoundSources(S, A, U, stack[(i + 1) - 1], stack[i + 1])
    BY <2>3, <2>5, Zenon DEF Sound
  <2>7. <<"target", stack[i + 1].relation>> \notin stack[i].todo
    BY <2>1, <2>6 DEF SoundSources, Opened
  <2>8. i + 1 \in 1..(n - 1)
    <3>1. i + 1 # n
      BY <1>3, <2>4
    <3>2. QED
      BY <2>1, <3>1
  <2>9. OnDelete[stack[i + 1].relation] = "delete"
    BY <1>2, <2>5, <2>8, LowerOwns
  <2>10. stack[i + 1].relation \in Relations
    BY <2>5, FrameFacts
  <2>11. stack[i + 1].relation = r
    BY <2>9, <2>10 DEF OneOwner
  <2>12. QED
    BY <2>7, <2>11
<1>7. QED
  BY <1>5, <1>6

LEMMA NestedDomain ==
  ASSUME NEW b \in Seq(Frames)
  PROVE  \A i \in DOMAIN b : b[i] \in Frames /\ (i > 1 => i - 1 \in DOMAIN b /\ b[i - 1] \in Frames)
<1>1. PICK n \in Nat : n = Len(b)
  OBVIOUS
<1>2. DOMAIN b = 1..n /\ \A i \in 1..n : b[i] \in Frames
  BY <1>1
<1>3. \A i \in 1..n : i > 1 => i - 1 \in 1..n
  BY <1>1
<1>4. QED
  BY <1>2, <1>3

(* Frames stay sound while the marks and the targets they rest on do.         *)
LEMMA NestedKept ==
  ASSUME NEW S, NEW A, NEW U, NEW b \in Seq(Frames), NestedIn(S, A, U, b),
         NEW T, NEW B, NEW V,
         \A i \in DOMAIN b : b[i].hook = "sources" /\ i > 1 /\ SoundSources(S, A, U, b[i - 1], b[i])
            => Listing(T, B, b[i]) /\ Waiting(V, b[i]),
         \A i \in DOMAIN b : b[i].hook = "kill" /\ Dying(S, A, b[i]) => Dying(T, B, b[i]),
         \A i \in DOMAIN b : b[i].hook = "kill" /\ i > 1 /\ Dragged(S, b[i - 1], b[i])
            => Dragged(T, b[i - 1], b[i])
  PROVE  NestedIn(T, B, V, b)
<1>1. SUFFICES ASSUME NEW i \in DOMAIN b
               PROVE  Sound(T, B, V, b, i)
  BY DEF NestedIn
<1>2. Sound(S, A, U, b, i)
  BY DEF NestedIn
<1>3. b[i].hook = "sources" => i > 1 /\ SoundSources(T, B, V, b[i - 1], b[i])
  <2>1. SUFFICES ASSUME b[i].hook = "sources"
                 PROVE  i > 1 /\ SoundSources(T, B, V, b[i - 1], b[i])
    OBVIOUS
  <2>2. i > 1 /\ SoundSources(S, A, U, b[i - 1], b[i])
    BY <1>2, <2>1, Zenon DEF Sound
  <2>3. Listing(T, B, b[i]) /\ Waiting(V, b[i])
    BY <2>1, <2>2, Zenon
  <2>4. QED
    BY <2>2, <2>3 DEF SoundSources
<1>4. b[i].hook = "kill" => Dying(T, B, b[i])
  BY <1>2, Zenon DEF Sound
<1>5. b[i].hook = "kill" /\ i > 1 => Dragged(T, b[i - 1], b[i])
  BY <1>2, Zenon DEF Sound
<1>6. QED
  BY <1>3, <1>4, <1>5, Zenon DEF Sound

LEMMA NestedSame ==
  ASSUME NEW S, NEW A, NEW U, NEW b \in Seq(Frames), NestedIn(S, A, U, b), NEW T,
         \A r \in Relations : T[r].target = S[r].target /\ T[r].marked = S[r].marked
  PROVE  NestedIn(T, A, U, b)
<1>1. \A i \in DOMAIN b : b[i] \in Frames /\ (i > 1 => b[i - 1] \in Frames)
  BY NestedDomain
<1>2. ASSUME NEW i \in DOMAIN b, b[i].hook = "sources", i > 1, SoundSources(S, A, U, b[i - 1], b[i])
      PROVE  Listing(T, A, b[i]) /\ Waiting(U, b[i])
  <2>1. b[i].relation \in Relations
    BY <1>1, <1>2, FrameFacts
  <2>2. QED
    BY <1>2, <2>1 DEF SoundSources, Listing
<1>3. ASSUME NEW i \in DOMAIN b, Dying(S, A, b[i])
      PROVE  Dying(T, A, b[i])
  BY <1>3 DEF Dying
<1>4. ASSUME NEW i \in DOMAIN b, i > 1, Dragged(S, b[i - 1], b[i])
      PROVE  Dragged(T, b[i - 1], b[i])
  <2>1. b[i - 1].relation \in Relations
    BY <1>1, <1>4, FrameFacts DEF Dragged
  <2>2. QED
    BY <1>4, <2>1 DEF Dragged
<1>5. QED
  BY <1>2, <1>3, <1>4, NestedKept

-----------------------------------------------------------------------------
(* Every step of a cascade keeps the frames nested. *)

LEMMA NestedParts ==
  ASSUME IInv, Nested, stack # <<>>
  PROVE  /\ NestedIn(store, alive, UnderIn(stack), stack) /\ OnceIn(stack)
         /\ stack \in Seq(Frames) /\ Front(stack) \in Seq(Frames)
         /\ NestedIn(store, alive, UnderIn(stack), Front(stack)) /\ OnceIn(Front(stack))
         /\ Top.hook = "kill" => Dying(store, alive, Top) /\ Top.entity \notin UnderIn(Front(stack))
         /\ Top.hook = "kill" /\ Front(stack) # <<>> => Dragged(store, Front(stack)[Len(Front(stack))], Top)
         /\ Top.hook = "sources" =>
              /\ Front(stack) # <<>>
              /\ SoundSources(store, alive, UnderIn(stack), Front(stack)[Len(Front(stack))], Top)
<1>1. /\ NestedIn(store, alive, UnderIn(stack), stack) /\ OnceIn(stack)
      /\ stack \in Seq(Frames) /\ Front(stack) \in Seq(Frames)
  BY StackTop DEF Nested, IInv, Core
<1>2. PICK b : b = Front(stack)
  OBVIOUS
<1>3. Len(stack) \in Nat \ {0} /\ Top = stack[Len(stack)]
  BY <1>1, StackTop
<1>4. PICK n \in Nat \ {0} : n = Len(stack)
  BY <1>3
<1>5. /\ NestedIn(store, alive, UnderIn(stack), b)
      /\ b # <<>> <=> n > 1
      /\ n > 1 => b[Len(b)] = stack[n - 1]
      /\ Sound(store, alive, UnderIn(stack), stack, n)
  BY <1>1, <1>2, <1>4, NestedFront
<1>6. Top.hook = "kill" => Dying(store, alive, Top)
  BY <1>3, <1>4, <1>5, Zenon DEF Sound
<1>7. Top.hook = "kill" /\ b # <<>> => Dragged(store, b[Len(b)], Top)
  BY <1>3, <1>4, <1>5, Zenon DEF Sound
<1>8. Top.hook = "sources" => b # <<>> /\ SoundSources(store, alive, UnderIn(stack), b[Len(b)], Top)
  BY <1>3, <1>4, <1>5, Zenon DEF Sound
<1>9. OnceIn(b) /\ (Top.hook = "kill" => Top.entity \notin UnderIn(b))
  BY <1>1, <1>2, OnceFront
<1>10. QED
  BY <1>1, <1>2, <1>5, <1>6, <1>7, <1>8, <1>9

(* The frame of a killing, when one of its hooks has run.                     *)
LEMMA NestedPopped ==
  ASSUME IInv, Nested, Killing, Top.todo # {}, NEW T,
         NestedIn(T, alive, UnderIn(stack), Front(stack)),
         \A r \in Relations : <<"sources", r>> \in Top.todo \ {NextHook} => ~T[r].marked[Top.entity],
         \A r \in Relations : T[r].target = store[r].target
  PROVE  NestedIn(T, alive, UnderIn(stack), Popped) /\ OnceIn(Popped)
<1>1. /\ stack \in Seq(Frames) /\ stack # <<>> /\ Top \in Frames /\ Top.hook = "kill"
      /\ Top.entity \in Entities /\ Front(stack) \in Seq(Frames)
  BY KillingFacts
<1>2. PICK f \in Frames : /\ Popped = Append(Front(stack), f)
                          /\ f.hook = "kill" /\ f.entity = Top.entity /\ f.todo = Top.todo \ {NextHook}
  BY <1>1, PoppedIs
<1>3. PICK b \in Seq(Frames) : b = Front(stack)
  BY <1>1
<1>4. /\ NestedIn(T, alive, UnderIn(stack), b) /\ OnceIn(b) /\ Top.entity \notin UnderIn(b)
      /\ Dying(store, alive, Top) /\ (b # <<>> => Dragged(store, b[Len(b)], Top))
  BY <1>1, <1>3, NestedParts
<1>5. Dying(T, alive, f)
  BY <1>2, <1>4 DEF Dying
<1>6. b # <<>> => Dragged(T, b[Len(b)], f)
  <2>1. SUFFICES ASSUME b # <<>>
                 PROVE  Dragged(T, b[Len(b)], f)
    OBVIOUS
  <2>2. PICK g : g = b[Len(b)]
    OBVIOUS
  <2>3. g \in Frames
    BY <1>3, <2>1, <2>2
  <2>4. g.hook = "sources" /\ OnDelete[g.relation] = "delete" /\ store[g.relation].target[Top.entity] = g.entity
    BY <1>4, <2>1, <2>2 DEF Dragged
  <2>5. g.relation \in Relations
    BY <2>3, <2>4, FrameFacts
  <2>6. QED
    BY <1>2, <2>2, <2>4, <2>5 DEF Dragged
<1>7. f.hook # "sources"
  BY <1>2
<1>8. NestedIn(T, alive, UnderIn(stack), Append(b, f))
  BY <1>3, <1>4, <1>5, <1>6, <1>7, NestedPushed
<1>9. OnceIn(Append(b, f))
  BY <1>2, <1>4, OncePushed
<1>10. QED
  BY <1>2, <1>3, <1>8, <1>9

LEMMA NestedKillTarget ==
  ASSUME IInv, Nested, KillTarget
  PROVE  Nested'
<1>1. /\ Killing /\ Top.todo # {} /\ NextHook[1] = "target" /\ stack' = Popped /\ alive' = alive
  BY DEF KillTarget
<1>2. stack # <<>> /\ Top.entity \in Entities /\ NextHook[2] \in Relations /\ Top.hook = "kill"
  BY <1>1, KillingFacts
<1>3. \A q \in Relations : store'[q].target = store[q].target /\ store'[q].marked = store[q].marked
  <2>1. PICK r \in Relations : r = NextHook[2]
    BY <1>2
  <2>2. CASE store' = store
    BY <2>2
  <2>3. CASE store' # store
    <3>1. PICK d : d = Hook(store[r], Top.entity)
      OBVIOUS
    <3>2. store' = [store EXCEPT ![r] = d]
      BY <2>1, <2>3, <3>1 DEF KillTarget
    <3>3. PICK s \in Indexes : s = store[r]
      BY StoreFacts
    <3>4. d.target = s.target /\ d.marked = s.marked
      <4>1. d = IF s.marked[s.target[Top.entity]] THEN s ELSE Detached(s, Top.entity)
        BY <3>1, <3>3 DEF Hook
      <4>2. Detached(s, Top.entity).target = s.target /\ Detached(s, Top.entity).marked = s.marked
        BY <3>3 DEF Detached, Indexes
      <4>3. QED
        BY <4>1, <4>2
    <3>5. store \in [Relations -> Indexes]
      BY DEF IInv, Core
    <3>6. QED
      BY <3>2, <3>3, <3>4, <3>5
  <2>4. QED
    BY <2>2, <2>3
<1>4. PICK T : T = store'
  OBVIOUS
<1>5. \A q \in Relations : T[q].target = store[q].target /\ T[q].marked = store[q].marked
  BY <1>3, <1>4
<1>6. /\ Front(stack) \in Seq(Frames) /\ NestedIn(store, alive, UnderIn(stack), Front(stack))
      /\ Dying(store, alive, Top)
  BY <1>2, NestedParts
<1>7. NestedIn(T, alive, UnderIn(stack), Front(stack))
  BY <1>5, <1>6, NestedSame
<1>8. \A r \in Relations : <<"sources", r>> \in Top.todo \ {NextHook} => ~T[r].marked[Top.entity]
  BY <1>5, <1>6 DEF Dying
<1>9. NestedIn(T, alive, UnderIn(stack), Popped) /\ OnceIn(Popped)
  BY <1>1, <1>5, <1>7, <1>8, NestedPopped
<1>10. UnderIn(Popped) = UnderIn(stack)
  BY <1>1, PoppedSets
<1>11. QED
  BY <1>1, <1>4, <1>9, <1>10 DEF Nested

(* The list of a target opens when the hook of its own target has run, and    *)
(* nobody in it is being killed: each of those has left the list.             *)
LEMMA ListOpens ==
  ASSUME OneOwner, IInv, Nested, Killing, Top.entity \in alive, Top.todo # {},
         NEW r \in Relations, NextHook = <<"sources", r>>, NEW f, f = SourcesFrame(Top.entity, r)
  PROVE  /\ <<"target", r>> \notin Top.todo
         /\ \A j, k \in DOMAIN f.left : f.left[j] = f.left[k] => j = k
         /\ \A j \in DOMAIN f.left : store[r].target[f.left[j]] = Top.entity
         /\ Waiting(UnderIn(stack), f)
<1>1. /\ stack \in Seq(Frames) /\ stack # <<>> /\ Top.hook = "kill" /\ Top.todo \in SUBSET Hooks
      /\ NextHook \in Top.todo
  BY KillingFacts
<1>2. PICK e \in Entities : e = Top.entity
  BY KillingFacts
<1>3. f.relation = r /\ f.left = store[r].sources[e]
  BY <1>2, SourcesFrameTyped
<1>4. <<"target", r>> \notin Top.todo
  <2>1. SUFFICES ASSUME <<"target", r>> \in Top.todo
                 PROVE  FALSE
    OBVIOUS
  <2>2. Id(<<"sources", r>>) <= Id(<<"target", r>>)
    BY <1>1, <2>1, FirstIs DEF NextHook
  <2>3. Component[r] \in Nat
    BY RelationsAssumption DEF RelationsAssumption
  <2>4. Id(<<"sources", r>>) = Component[r] + 1 /\ Id(<<"target", r>>) = Component[r]
    BY <2>3 DEF Id
  <2>5. QED
    BY <2>2, <2>3, <2>4
<1>5. PICK s \in Indexes : s = store[r]
  BY StoreFacts
<1>6. Kept(s, alive, UnderIn(stack), RanIn(stack, r)) /\ alive \in SUBSET Entities
  BY <1>5, StoreFacts
<1>7. ~s.marked[e]
  BY <1>1, <1>2, <1>5, NestedParts DEF Dying
<1>8. \A j \in DOMAIN f.left : f.left[j] \in alive /\ s.target[f.left[j]] = e /\ s.index[f.left[j]] = j
  BY <1>2, <1>3, <1>5, <1>6, <1>7 DEF Kept, TrueLists, Entry
<1>9. \A j, k \in DOMAIN f.left : f.left[j] = f.left[k] => j = k
  BY <1>8
<1>10. Waiting(UnderIn(stack), f)
  <2>1. SUFFICES ASSUME OnDelete[r] = "delete", NEW j \in DOMAIN f.left, f.left[j] \in UnderIn(stack)
                 PROVE  FALSE
    BY <1>3 DEF Waiting
  <2>2. UnderIn(stack) \subseteq RanIn(stack, r)
    BY <1>1, <1>4, <2>1, LowerRan DEF Nested
  <2>3. f.left[j] \in RanIn(stack, r)
    BY <2>1, <2>2
  <2>4. NotIn(s, f.left[j], e)
    BY <1>2, <1>6, <1>7, <2>3, NotInLists DEF Kept
  <2>5. QED
    BY <1>3, <1>5, <2>4 DEF NotIn
<1>11. QED
  BY <1>2, <1>4, <1>5, <1>8, <1>9, <1>10

MarkedIn(r, e) == [store EXCEPT ![r] = Marking(store[r], e)]
LEMMA NestedMarked ==
  ASSUME IInv, Nested, Killing, NEW r \in Relations, NEW T, T = MarkedIn(r, Top.entity)
  PROVE  /\ NestedIn(T, alive, UnderIn(stack), Front(stack))
         /\ \A q \in Relations : T[q].target = store[q].target
         /\ \A q \in Relations \ {r} : T[q] = store[q]
         /\ T[r].marked[Top.entity]
<1>1. /\ stack \in Seq(Frames) /\ stack # <<>> /\ Top.hook = "kill" /\ Front(stack) \in Seq(Frames)
  BY KillingFacts
<1>2. PICK e \in Entities : e = Top.entity
  BY KillingFacts
<1>3. PICK b \in Seq(Frames) : b = Front(stack)
  BY <1>1
<1>4. NestedIn(store, alive, UnderIn(stack), b) /\ e \notin UnderIn(b)
  BY <1>1, <1>2, <1>3, NestedParts
<1>5. store[r] \in Indexes /\ store \in [Relations -> Indexes]
  BY DEF IInv, Core
<1>6. PICK s \in Indexes : s = store[r]
  BY <1>5
<1>7. PICK d : d = Marking(s, e)
  OBVIOUS
<1>8. d.target = s.target /\ d.marked = [s.marked EXCEPT ![e] = TRUE] /\ s.marked \in [Entities -> BOOLEAN]
  BY <1>6, <1>7 DEF Marking, Indexes
<1>9. /\ \A q \in Relations : T[q].target = store[q].target
      /\ \A q \in Relations \ {r} : T[q] = store[q]
      /\ T[r] = d
  <2>1. T = [store EXCEPT ![r] = d]
    BY <1>2, <1>6, <1>7 DEF MarkedIn
  <2>2. QED
    BY <1>5, <1>6, <1>8, <2>1
<1>10. /\ T[r].marked[e]
       /\ \A q \in Relations, u \in Entities : store[q].marked[u] => T[q].marked[u]
       /\ \A q \in Relations, u \in Entities : u # e => (T[q].marked[u] <=> store[q].marked[u])
  <2>1. \A u \in Entities : d.marked[u] = IF u = e THEN TRUE ELSE s.marked[u]
    BY <1>8
  <2>2. QED
    BY <1>6, <1>9, <2>1
<1>11. \A i \in DOMAIN b : b[i] \in Frames /\ b[i].entity \in Entities /\ (i > 1 => b[i - 1] \in Frames)
  BY NestedDomain, FrameFacts
<1>12. ASSUME NEW i \in DOMAIN b, b[i].hook = "sources", i > 1,
              SoundSources(store, alive, UnderIn(stack), b[i - 1], b[i])
       PROVE  Listing(T, alive, b[i]) /\ Waiting(UnderIn(stack), b[i])
  <2>1. b[i].relation \in Relations /\ b[i].entity \in Entities
    BY <1>11, <1>12, FrameFacts
  <2>2. QED
    BY <1>9, <1>10, <1>12, <2>1 DEF SoundSources, Listing
<1>13. ASSUME NEW i \in DOMAIN b, b[i].hook = "kill", Dying(store, alive, b[i])
       PROVE  Dying(T, alive, b[i])
  <2>1. b[i].entity # e
    BY <1>2, <1>4, <1>13 DEF UnderIn, Kills
  <2>2. QED
    BY <1>10, <1>11, <1>13, <2>1 DEF Dying
<1>14. ASSUME NEW i \in DOMAIN b, i > 1, Dragged(store, b[i - 1], b[i])
       PROVE  Dragged(T, b[i - 1], b[i])
  <2>1. b[i - 1].relation \in Relations
    BY <1>11, <1>14, FrameFacts DEF Dragged
  <2>2. QED
    BY <1>9, <1>14, <2>1 DEF Dragged
<1>15. NestedIn(T, alive, UnderIn(stack), b)
  BY <1>4, <1>12, <1>13, <1>14, NestedKept
<1>16. QED
  BY <1>2, <1>3, <1>9, <1>10, <1>15

LEMMA NestedKillSources ==
  ASSUME OneOwner, IInv, Nested, KillSources
  PROVE  Nested'
<1>1. /\ Killing /\ Top.entity \in alive /\ Top.todo # {} /\ NextHook[1] = "sources" /\ alive' = alive
  BY DEF KillSources
<1>2. /\ stack # <<>> /\ NextHook[2] \in Relations /\ NextHook \in Hooks /\ Top.hook = "kill"
      /\ Front(stack) \in Seq(Frames) /\ stack \in Seq(Frames)
  BY <1>1, KillingFacts
<1>3. PICK e \in Entities : e = Top.entity
  BY <1>1, KillingFacts
<1>4. PICK r \in Relations : r = NextHook[2]
  BY <1>2
<1>5. NextHook = <<"sources", r>>
  BY <1>1, <1>2, <1>4 DEF Hooks
<1>6. UnderIn(Popped) = UnderIn(stack) /\ Popped \in Seq(Frames)
  BY <1>1, PoppedSets
<1>7. /\ NestedIn(store, alive, UnderIn(stack), Front(stack))
      /\ Dying(store, alive, Top)
  BY <1>2, NestedParts
<1>8. CASE ~HasSources(e, r)
  <2>1. stack' = Popped /\ store' = store
    BY <1>3, <1>4, <1>8 DEF KillSources
  <2>2. \A q \in Relations : <<"sources", q>> \in Top.todo \ {NextHook} => ~store[q].marked[Top.entity]
    BY <1>7 DEF Dying
  <2>3. NestedIn(store, alive, UnderIn(stack), Popped) /\ OnceIn(Popped)
    BY <1>1, <1>7, <2>2, NestedPopped
  <2>4. QED
    BY <1>1, <1>6, <2>1, <2>3 DEF Nested
<1>9. CASE HasSources(e, r)
  <2>1. PICK T : T = MarkedIn(r, Top.entity)
    OBVIOUS
  <2>2. store' = T
    <3>1. store' = [store EXCEPT ![r].marked[e] = TRUE]
      BY <1>3, <1>4, <1>9 DEF KillSources
    <3>2. r \in DOMAIN store
      BY DEF IInv, Core
    <3>3. QED
      BY <1>3, <2>1, <3>1, <3>2 DEF MarkedIn, Marking
  <2>3. /\ NestedIn(T, alive, UnderIn(stack), Front(stack))
        /\ \A q \in Relations : T[q].target = store[q].target
        /\ \A q \in Relations \ {r} : T[q] = store[q]
        /\ T[r].marked[Top.entity]
    BY <1>1, <2>1, NestedMarked
  <2>4. \A q \in Relations : <<"sources", q>> \in Top.todo \ {NextHook} => ~T[q].marked[Top.entity]
    <3>1. ASSUME NEW q \in Relations, <<"sources", q>> \in Top.todo \ {NextHook}
          PROVE  ~T[q].marked[Top.entity]
      <4>1. q # r
        BY <1>5, <3>1
      <4>2. T[q] = store[q]
        BY <2>3, <4>1
      <4>3. <<"sources", q>> \in Top.todo
        BY <3>1
      <4>4. ~store[q].marked[Top.entity]
        BY <1>7, <4>3, Zenon DEF Dying
      <4>5. QED
        BY <4>2, <4>4
    <3>2. QED
      BY <3>1
  <2>5. NestedIn(T, alive, UnderIn(stack), Popped) /\ OnceIn(Popped)
    BY <1>1, <2>3, <2>4, NestedPopped
  <2>6. PICK f \in Frames : f = SourcesFrame(Top.entity, r) /\ f.hook = "sources" /\ f.entity = Top.entity
                            /\ f.relation = r
    BY <1>3, SourcesFrameTyped
  <2>7. stack' = Append(Popped, f)
    BY <1>3, <1>4, <1>9, <2>6 DEF KillSources
  <2>8. /\ <<"target", r>> \notin Top.todo
        /\ \A j, k \in DOMAIN f.left : f.left[j] = f.left[k] => j = k
        /\ \A j \in DOMAIN f.left : store[r].target[f.left[j]] = Top.entity
        /\ Waiting(UnderIn(stack), f)
    BY <1>1, <1>5, <2>6, ListOpens
  <2>9. Listing(T, alive, f)
    BY <2>3, <2>6, <2>8 DEF Listing
  <2>10. Popped # <<>> /\ Opened(Popped[Len(Popped)], f)
    <3>1. PICK g \in Frames : /\ Popped = Append(Front(stack), g)
                              /\ g.hook = "kill" /\ g.entity = Top.entity /\ g.todo = Top.todo \ {NextHook}
      BY <1>2, PoppedIs
    <3>2. PICK b \in Seq(Frames) : b = Front(stack)
      BY <1>2
    <3>3. Append(b, g) # <<>> /\ Append(b, g)[Len(Append(b, g))] = g
      OBVIOUS
    <3>4. Opened(g, f)
      BY <1>5, <2>6, <2>8, <3>1 DEF Opened
    <3>5. QED
      BY <3>1, <3>2, <3>3, <3>4
  <2>11. SoundSources(T, alive, UnderIn(stack), Popped[Len(Popped)], f)
    BY <2>8, <2>9, <2>10 DEF SoundSources
  <2>12. NestedIn(T, alive, UnderIn(stack), Append(Popped, f)) /\ OnceIn(Append(Popped, f))
    <3>1. f.hook # "kill"
      BY <2>6
    <3>2. NestedIn(T, alive, UnderIn(stack), Append(Popped, f))
      BY <1>6, <2>5, <2>6, <2>10, <2>11, <3>1, NestedPushed
    <3>3. OnceIn(Append(Popped, f))
      BY <1>6, <2>5, <3>1, OncePushed
    <3>4. QED
      BY <3>2, <3>3
  <2>13. UnderIn(stack') = UnderIn(stack)
    BY <1>6, <2>6, <2>7, PushedSources
  <2>14. QED
    BY <1>1, <2>2, <2>7, <2>12, <2>13 DEF Nested
<1>10. QED
  BY <1>8, <1>9

LEMMA NestedKillRow ==
  ASSUME IInv, Nested, KillRow
  PROVE  Nested'
<1>1. /\ Killing /\ (Top.todo = {} \/ Top.entity \notin alive)
      /\ alive' = alive \ {Top.entity} /\ stack' = Front(stack)
  BY DEF KillRow
<1>2. /\ stack \in Seq(Frames) /\ stack # <<>> /\ Top.hook = "kill" /\ Top.entity \in Entities
      /\ Front(stack) \in Seq(Frames)
  BY <1>1, KillingFacts
<1>3. PICK e \in Entities : e = Top.entity
  BY <1>2
<1>4. PICK b \in Seq(Frames) : b = Front(stack)
  BY <1>2
<1>5. /\ NestedIn(store, alive, UnderIn(stack), b) /\ OnceIn(b) /\ e \notin UnderIn(b)
      /\ Dying(store, alive, Top)
  BY <1>2, <1>3, <1>4, NestedParts
<1>6. e \in alive /\ alive \in SUBSET Entities
  BY <1>3, <1>5 DEF Dying, IInv, Core
<1>7. PICK T : T = store'
  OBVIOUS
<1>8. \A q \in Relations, u \in Entities \ {e} : /\ T[q].target[u] = store[q].target[u]
                                                 /\ T[q].marked[u] <=> store[q].marked[u]
  <2>1. T = [q \in Relations |-> Dropped(store[q], e)]
    BY <1>3, <1>6, <1>7 DEF KillRow
  <2>2. ASSUME NEW q \in Relations, NEW u \in Entities \ {e}
        PROVE  T[q].target[u] = store[q].target[u] /\ (T[q].marked[u] <=> store[q].marked[u])
    <3>1. PICK s \in Indexes : s = store[q]
      BY StoreFacts
    <3>2. PICK d : d = Dropped(s, e)
      OBVIOUS
    <3>3. d.target = [s.target EXCEPT ![e] = NoEntity] /\ d.marked = [s.marked EXCEPT ![e] = FALSE]
      <4>1. d = Dropped(s, e) /\ e \in Entities /\ s \in Indexes
        BY <1>3, <3>1, <3>2
      <4>2. QED
        BY ONLY <4>1, DroppedIs
    <3>4. s.target \in [Entities -> Entities \cup {NoEntity}] /\ s.marked \in [Entities -> BOOLEAN]
      BY <3>1, IndexFields DEF IndexTypes
    <3>5. d.target[u] = s.target[u]
      BY <3>3, <3>4
    <3>6. d.marked[u] = s.marked[u]
      BY <3>3, <3>4
    <3>7. T[q] = d
      BY <2>1, <3>1, <3>2
    <3>8. QED
      BY <3>1, <3>5, <3>6, <3>7
  <2>3. QED
    BY <2>2
<1>9. UnderIn(b) \subseteq UnderIn(stack)
  BY <1>2, <1>4, Returning
<1>10. \A i \in DOMAIN b : /\ b[i] \in Frames /\ b[i].entity \in Entities
                           /\ b[i].hook = "kill" => b[i].entity \in UnderIn(b) /\ b[i].entity # e
                           /\ i > 1 => i - 1 \in DOMAIN b /\ b[i - 1] \in Frames
  <2>1. \A i \in DOMAIN b : /\ b[i] \in Frames /\ b[i].entity \in Entities
                            /\ i > 1 => i - 1 \in DOMAIN b /\ b[i - 1] \in Frames
    BY NestedDomain, FrameFacts
  <2>2. \A i \in DOMAIN b : b[i].hook = "kill" => b[i].entity \in UnderIn(b)
    BY <2>1 DEF UnderIn, Kills
  <2>3. QED
    BY <1>5, <2>1, <2>2
<1>11. ASSUME NEW i \in DOMAIN b, b[i].hook = "sources", i > 1,
              SoundSources(store, alive, UnderIn(stack), b[i - 1], b[i])
       PROVE  Listing(T, alive \ {e}, b[i]) /\ Waiting(UnderIn(b), b[i])
  <2>1. b[i].relation \in Relations /\ b[i].left \in Seq(Entities) /\ b[i].entity \in Entities \ {e}
    <3>1. b[i].relation \in Relations /\ b[i].left \in Seq(Entities) /\ b[i].entity \in Entities
      BY <1>10, <1>11, FrameFacts
    <3>2. b[i - 1].hook = "kill" /\ b[i - 1].entity = b[i].entity
      BY <1>11 DEF SoundSources, Opened
    <3>3. b[i - 1].entity # e
      BY <1>10, <1>11, <3>2
    <3>4. QED
      BY <3>1, <3>2, <3>3
  <2>2. Waiting(UnderIn(b), b[i])
    BY <1>9, <1>11 DEF SoundSources, Waiting
  <2>3. T[b[i].relation].marked[b[i].entity]
    BY <1>8, <1>11, <2>1 DEF SoundSources, Listing
  <2>4. \A j, k \in DOMAIN b[i].left : b[i].left[j] = b[i].left[k] => j = k
    BY <1>11 DEF SoundSources, Listing
  <2>5. ASSUME NEW j \in DOMAIN b[i].left, b[i].left[j] \in alive \ {e}
        PROVE  T[b[i].relation].target[b[i].left[j]] = b[i].entity
    <3>1. store[b[i].relation].target[b[i].left[j]] = b[i].entity
      BY <1>11, <2>5 DEF SoundSources, Listing
    <3>2. b[i].left[j] \in Entities \ {e}
      BY <1>6, <2>5
    <3>3. QED
      BY <1>8, <2>1, <3>1, <3>2
  <2>6. QED
    BY <2>2, <2>3, <2>4, <2>5 DEF Listing
<1>12. ASSUME NEW i \in DOMAIN b, b[i].hook = "kill", Dying(store, alive, b[i])
       PROVE  Dying(T, alive \ {e}, b[i])
  <2>1. b[i].entity \in Entities \ {e}
    BY <1>10, <1>12
  <2>2. QED
    BY <1>8, <1>12, <2>1 DEF Dying
<1>13. ASSUME NEW i \in DOMAIN b, b[i].hook = "kill", i > 1, Dragged(store, b[i - 1], b[i])
       PROVE  Dragged(T, b[i - 1], b[i])
  <2>1. b[i - 1].relation \in Relations
    BY <1>10, <1>13, FrameFacts DEF Dragged
  <2>2. b[i].entity \in Entities \ {e}
    BY <1>10, <1>13
  <2>3. QED
    BY <1>8, <1>13, <2>1, <2>2 DEF Dragged
<1>14. NestedIn(T, alive \ {e}, UnderIn(b), b)
  BY <1>5, <1>11, <1>12, <1>13, NestedKept
<1>15. QED
  BY <1>1, <1>3, <1>4, <1>5, <1>7, <1>14 DEF Nested

(* The frame of a list, when one of its sources has been passed.              *)
LEMMA NestedPassed ==
  ASSUME IInv, Nested, InSources, Top.left # <<>>, NEW T, NEW V,
         NestedIn(T, alive, V, Front(stack)),
         T[Top.relation].marked[Top.entity],
         \A j \in DOMAIN Top.left : j > 1 /\ Top.left[j] \in alive =>
            T[Top.relation].target[Top.left[j]] = Top.entity,
         OnDelete[Top.relation] = "delete" => \A j \in DOMAIN Top.left : j > 1 => Top.left[j] \notin V
  PROVE  NestedIn(T, alive, V, Passed) /\ OnceIn(Passed)
<1>1. /\ stack \in Seq(Frames) /\ stack # <<>> /\ Top \in Frames /\ Top.hook = "sources"
      /\ Front(stack) \in Seq(Frames) /\ Top.left \in Seq(Entities)
  BY InSourcesFacts
<1>2. PICK f \in Frames : /\ Passed = Append(Front(stack), f)
                          /\ f.hook = "sources" /\ f.entity = Top.entity /\ f.relation = Top.relation
                          /\ f.left = Tail(Top.left)
  BY <1>1, PassedIs
<1>3. PICK b \in Seq(Frames) : b = Front(stack)
  BY <1>1
<1>4. /\ NestedIn(T, alive, V, b) /\ OnceIn(b) /\ b # <<>>
      /\ SoundSources(store, alive, UnderIn(stack), b[Len(b)], Top)
  BY <1>1, <1>3, NestedParts
<1>5. PICK l \in Seq(Entities) : l = Top.left
  BY <1>1
<1>6. \A j \in DOMAIN f.left : j + 1 \in DOMAIN l /\ j + 1 > 1 /\ f.left[j] = l[j + 1] /\ j \in Nat
  BY <1>1, <1>2, <1>5
<1>7. \A j, k \in DOMAIN l : l[j] = l[k] => j = k
  BY <1>4, <1>5 DEF SoundSources, Listing
<1>8. Listing(T, alive, f)
  <2>1. ASSUME NEW j \in DOMAIN f.left, NEW k \in DOMAIN f.left, f.left[j] = f.left[k]
        PROVE  j = k
    <3>1. j + 1 = k + 1
      BY <1>6, <1>7, <2>1
    <3>2. QED
      BY <1>6, <3>1
  <2>2. ASSUME NEW j \in DOMAIN f.left, f.left[j] \in alive
        PROVE  T[f.relation].target[f.left[j]] = f.entity
    BY <1>2, <1>5, <1>6, <2>2
  <2>3. QED
    BY <1>2, <2>1, <2>2 DEF Listing
<1>9. Waiting(V, f)
  BY <1>2, <1>5, <1>6 DEF Waiting
<1>10. Opened(b[Len(b)], f)
  BY <1>2, <1>4 DEF SoundSources, Opened
<1>11. f.hook # "kill" /\ SoundSources(T, alive, V, b[Len(b)], f)
  BY <1>2, <1>8, <1>9, <1>10 DEF SoundSources
<1>12. NestedIn(T, alive, V, Append(b, f))
  BY <1>3, <1>4, <1>11, NestedPushed
<1>13. OnceIn(Append(b, f))
  BY <1>4, <1>11, OncePushed
<1>14. QED
  BY <1>2, <1>3, <1>12, <1>13

(* One source stands in the list of one target only.                          *)
LEMMA LowerLeft ==
  ASSUME OneOwner, IInv, Nested, InSources, Top.left # <<>>, OnDelete[Top.relation] = "delete",
         NextSource \in alive, NEW i \in DOMAIN Front(stack), Front(stack)[i].hook = "sources"
  PROVE  \A j \in DOMAIN Front(stack)[i].left : Front(stack)[i].left[j] # NextSource
<1>1. /\ stack \in Seq(Frames) /\ stack # <<>> /\ Top.hook = "sources" /\ Top.left \in Seq(Entities)
      /\ Top.relation \in Relations /\ Top \in Frames
  BY InSourcesFacts
<1>2. PICK n \in Nat \ {0} : n = Len(stack)
  <2>1. Len(stack) \in Nat \ {0}
    BY <1>1, StackTop
  <2>2. QED
    BY <2>1
<1>3. /\ DOMAIN Front(stack) = 1..(n - 1) /\ Front(stack)[i] = stack[i] /\ Top = stack[n]
      /\ DOMAIN stack = 1..n
  BY <1>1, <1>2, StackTop
<1>4. i \in 1..(n - 1) /\ stack[i].hook = "sources"
  BY <1>3
<1>5. NestedIn(store, alive, UnderIn(stack), stack) /\ OnceIn(stack)
  BY DEF Nested
<1>6. /\ OnDelete[stack[i].relation] = "delete" /\ stack[i] \in Frames
      /\ i > 1 /\ SoundSources(store, alive, UnderIn(stack), stack[i - 1], stack[i])
  BY <1>1, <1>2, <1>4, <1>5, LowerOwns
<1>7. Sound(store, alive, UnderIn(stack), stack, n)
  BY <1>2, <1>3, <1>5 DEF NestedIn
<1>8. n > 1 /\ SoundSources(store, alive, UnderIn(stack), stack[n - 1], stack[n])
  BY <1>1, <1>3, <1>7, Zenon DEF Sound
<1>9. stack[i].relation = Top.relation
  <2>1. stack[i].relation \in Relations
    BY <1>4, <1>6, FrameFacts
  <2>2. QED
    BY <1>1, <1>6, <2>1 DEF OneOwner
<1>10. store[Top.relation].target[NextSource] = Top.entity
  <2>1. 1 \in DOMAIN Top.left /\ NextSource = Top.left[1]
    BY <1>1 DEF NextSource
  <2>2. Listing(store, alive, Top)
    BY <1>3, <1>8 DEF SoundSources
  <2>3. QED
    BY <2>1, <2>2 DEF Listing
<1>11. SUFFICES ASSUME NEW j \in DOMAIN stack[i].left, stack[i].left[j] = NextSource
                PROVE  FALSE
  BY <1>3
<1>12. store[stack[i].relation].target[NextSource] = stack[i].entity
  BY <1>6, <1>11 DEF SoundSources, Listing
<1>13. /\ stack[i - 1].hook = "kill" /\ stack[i - 1].entity = stack[i].entity
       /\ stack[n - 1].hook = "kill" /\ stack[n - 1].entity = Top.entity
  BY <1>3, <1>6, <1>8 DEF SoundSources, Opened
<1>14. stack[i - 1].entity = stack[n - 1].entity
  BY <1>9, <1>10, <1>12, <1>13
<1>15. i - 1 \in DOMAIN stack /\ n - 1 \in DOMAIN stack /\ i - 1 # n - 1
  BY <1>2, <1>3, <1>4, <1>6, <1>8
<1>16. QED
  BY <1>5, <1>13, <1>14, <1>15, Zenon DEF OnceIn

LEMMA NestedKillSource ==
  ASSUME OneOwner, IInv, Nested, KillSource
  PROVE  Nested'
<1>1. /\ InSources /\ Top.left # <<>> /\ OnDelete[Top.relation] = "delete"
      /\ alive' = alive /\ store' = store
  BY DEF KillSource
<1>2. /\ stack \in Seq(Frames) /\ stack # <<>> /\ Top.hook = "sources" /\ Top.left \in Seq(Entities)
      /\ Top.relation \in Relations /\ Top \in Frames /\ Front(stack) \in Seq(Frames)
  BY <1>1, InSourcesFacts
<1>3. PICK x \in Entities : x = NextSource
  BY <1>1, InSourcesFacts
<1>4. PICK b \in Seq(Frames) : b = Front(stack)
  BY <1>2
<1>5. /\ NestedIn(store, alive, UnderIn(stack), b) /\ OnceIn(b) /\ b # <<>>
      /\ SoundSources(store, alive, UnderIn(stack), b[Len(b)], Top)
  BY <1>2, <1>4, NestedParts
<1>6. Passed \in Seq(Frames) /\ UnderIn(Passed) = UnderIn(stack)
  BY <1>1, PassedSets
<1>7. 1 \in DOMAIN Top.left /\ x = Top.left[1]
  BY <1>1, <1>2, <1>3 DEF NextSource
<1>8. /\ store[Top.relation].marked[Top.entity]
      /\ \A j, k \in DOMAIN Top.left : Top.left[j] = Top.left[k] => j = k
      /\ \A j \in DOMAIN Top.left : Top.left[j] \in alive => store[Top.relation].target[Top.left[j]] = Top.entity
      /\ \A j \in DOMAIN Top.left : Top.left[j] \notin UnderIn(stack)
  BY <1>1, <1>5 DEF SoundSources, Listing, Waiting
<1>9. CASE x \notin alive
  <2>1. stack' = Passed
    BY <1>3, <1>9 DEF KillSource
  <2>2. NestedIn(store, alive, UnderIn(stack), Passed) /\ OnceIn(Passed)
    BY <1>1, <1>4, <1>5, <1>8, NestedPassed
  <2>3. QED
    BY <1>1, <1>6, <2>1, <2>2 DEF Nested
<1>10. CASE x \in alive
  <2>1. PICK V : V = UnderIn(stack) \cup {x}
    OBVIOUS
  <2>2. NestedIn(store, alive, V, b)
    <3>1. ASSUME NEW i \in DOMAIN b, b[i].hook = "sources", i > 1,
                 SoundSources(store, alive, UnderIn(stack), b[i - 1], b[i])
          PROVE  Listing(store, alive, b[i]) /\ Waiting(V, b[i])
      <4>1. \A j \in DOMAIN b[i].left : b[i].left[j] # x
        BY <1>1, <1>3, <1>4, <1>10, <3>1, LowerLeft
      <4>2. QED
        BY <2>1, <3>1, <4>1 DEF SoundSources, Waiting
    <3>2. QED
      BY <1>5, <3>1, NestedKept
  <2>3. \A j \in DOMAIN Top.left : j > 1 => Top.left[j] \notin V
    <3>1. ASSUME NEW j \in DOMAIN Top.left, j > 1
          PROVE  Top.left[j] \notin V
      <4>1. Top.left[j] # x
        BY <1>7, <1>8, <3>1
      <4>2. QED
        BY <1>8, <2>1, <4>1
    <3>2. QED
      BY <3>1
  <2>4. NestedIn(store, alive, V, Passed) /\ OnceIn(Passed)
    BY <1>1, <1>4, <1>8, <2>2, <2>3, NestedPassed
  <2>5. PICK f \in Frames : /\ f = KillFrame(x) /\ f.hook = "kill" /\ f.entity = x
    BY KillFrameTyped
  <2>6. x \notin UnderIn(stack)
    BY <1>7, <1>8
  <2>7. Dying(store, alive, f)
    <3>1. \A r \in Relations : ~store[r].marked[x]
      BY <2>6, StoreFacts DEF Kept, Clean
    <3>2. QED
      BY <1>10, <2>5, <3>1 DEF Dying
  <2>8. Passed # <<>> /\ Dragged(store, Passed[Len(Passed)], f)
    <3>1. PICK g \in Frames : /\ Passed = Append(Front(stack), g)
                              /\ g.hook = "sources" /\ g.entity = Top.entity /\ g.relation = Top.relation
      BY <1>1, <1>2, PassedIs
    <3>2. Append(b, g) # <<>> /\ Append(b, g)[Len(Append(b, g))] = g
      OBVIOUS
    <3>3. store[Top.relation].target[x] = Top.entity
      BY <1>7, <1>8, <1>10
    <3>4. Dragged(store, g, f)
      BY <1>1, <2>5, <3>1, <3>3 DEF Dragged
    <3>5. QED
      BY <1>4, <3>1, <3>2, <3>4
  <2>9. f.hook # "sources"
    BY <2>5
  <2>10. NestedIn(store, alive, V, Append(Passed, f))
    BY <1>6, <2>4, <2>7, <2>8, <2>9, NestedPushed
  <2>11. OnceIn(Append(Passed, f))
    BY <1>6, <2>4, <2>5, <2>6, OncePushed
  <2>12. stack' = Append(Passed, f)
    BY <1>3, <1>10, <2>5 DEF KillSource
  <2>13. UnderIn(stack') = V
    <3>1. UnderIn(Append(Passed, f)) = UnderIn(Passed) \cup {e \in Entities : Kills(f, e)}
      BY <1>6, Pushed
    <3>2. {e \in Entities : Kills(f, e)} = {x}
      BY <2>5 DEF Kills
    <3>3. QED
      BY <1>6, <2>1, <2>12, <3>1, <3>2
  <2>14. QED
    BY <1>1, <2>10, <2>11, <2>12, <2>13 DEF Nested
<1>11. QED
  BY <1>9, <1>10

LEMMA UnlinkedLeaves ==
  ASSUME IInv, NEW r \in Relations, NEW x \in Entities, HookFailure(store[r], x) = "none",
         NEW d, d = Unlinked(store[r], x)
  PROVE  d.marked = store[r].marked /\ \A u \in Entities \ {x} : d.target[u] = store[r].target[u]
<1>1. /\ store[r] \in Indexes /\ alive \in SUBSET Entities
      /\ Kept(store[r], alive, UnderIn(stack), RanIn(stack, r))
  BY StoreFacts
<1>2. store[r].target[x] \in alive /\ (store[r].marked[store[r].target[x]] \/ Placed(store[r], x))
  BY HookFine
<1>3. /\ d \in Indexes /\ d.target = [store[r].target EXCEPT ![x] = NoEntity]
      /\ d.marked = store[r].marked /\ Kept(d, alive, UnderIn(stack), RanIn(stack, r))
  BY <1>1, <1>2, KeptUnlinked
<1>4. store[r].target \in [Entities -> Entities \cup {NoEntity}]
  BY StoreFacts DEF IndexTypes
<1>5. QED
  BY <1>3, <1>4

LEMMA NestedUnrelateSource ==
  ASSUME IInv, Nested, UnrelateSource
  PROVE  Nested'
<1>1. /\ InSources /\ Top.left # <<>> /\ OnDelete[Top.relation] = "remove"
      /\ alive' = alive /\ stack' = Passed
  BY DEF UnrelateSource
<1>2. /\ stack \in Seq(Frames) /\ stack # <<>> /\ Top.hook = "sources" /\ Top.left \in Seq(Entities)
      /\ Top.entity \in Entities /\ Front(stack) \in Seq(Frames)
  BY <1>1, InSourcesFacts
<1>3. PICK r \in Relations : r = Top.relation
  BY <1>1, InSourcesFacts
<1>4. PICK x \in Entities : x = NextSource
  BY <1>1, InSourcesFacts
<1>5. PICK b \in Seq(Frames) : b = Front(stack)
  BY <1>2
<1>6. /\ NestedIn(store, alive, UnderIn(stack), b)
      /\ SoundSources(store, alive, UnderIn(stack), b[Len(b)], Top)
      /\ NestedIn(store, alive, UnderIn(stack), stack)
  BY <1>2, <1>5, NestedParts
<1>7. PICK T : T = store'
  OBVIOUS
<1>8. /\ \A q \in Relations, u \in Entities : T[q].marked[u] <=> store[q].marked[u]
      /\ \A q \in Relations \ {r} : T[q] = store[q]
      /\ \A u \in Entities \ {x} : T[r].target[u] = store[r].target[u]
  <2>1. CASE store' = store
    BY <1>7, <2>1
  <2>2. CASE store' # store
    <3>1. PICK s \in Indexes : s = store[r]
      BY StoreFacts
    <3>2. PICK d : d = Unlinked(s, x)
      OBVIOUS
    <3>3. T = [store EXCEPT ![r] = d]
      BY <1>3, <1>4, <1>7, <2>2, <3>1, <3>2 DEF UnrelateSource
    <3>4. store \in [Relations -> Indexes]
      BY DEF IInv, Core
    <3>5. d.marked = s.marked /\ \A u \in Entities \ {x} : d.target[u] = s.target[u]
      <4>1. HookFailure(s, x) = "none"
        BY <1>3, <1>4, <2>2, <3>1 DEF UnrelateSource
      <4>2. QED
        BY <3>1, <3>2, <4>1, UnlinkedLeaves
    <3>6. T[r] = d /\ \A q \in Relations \ {r} : T[q] = store[q]
      BY <3>3, <3>4
    <3>7. QED
      BY <3>1, <3>5, <3>6
  <2>3. QED
    BY <2>1, <2>2
<1>9. \A i \in DOMAIN b : b[i] \in Frames /\ b[i].entity \in Entities /\ (i > 1 => b[i - 1] \in Frames)
  BY NestedDomain, FrameFacts
<1>10. ASSUME NEW i \in DOMAIN b, b[i].hook = "sources", i > 1,
              SoundSources(store, alive, UnderIn(stack), b[i - 1], b[i])
       PROVE  Listing(T, alive, b[i]) /\ Waiting(UnderIn(stack), b[i])
  <2>1. b[i].relation \in Relations /\ b[i].entity \in Entities
    BY <1>9, <1>10, FrameFacts
  <2>2. OnDelete[b[i].relation] = "delete"
    <3>1. i \in 1..(Len(stack) - 1) /\ b[i] = stack[i]
      BY <1>2, <1>5, StackTop
    <3>2. QED
      BY <1>2, <1>6, <1>10, <3>1, LowerOwns
  <2>3. b[i].relation # r
    BY <1>1, <1>3, <2>2
  <2>4. T[b[i].relation] = store[b[i].relation]
    BY <1>8, <2>1, <2>3
  <2>5. QED
    BY <1>10, <2>4 DEF SoundSources, Listing
<1>11. ASSUME NEW i \in DOMAIN b, Dying(store, alive, b[i])
       PROVE  Dying(T, alive, b[i])
  BY <1>8, <1>9, <1>11 DEF Dying
<1>12. ASSUME NEW i \in DOMAIN b, i > 1, Dragged(store, b[i - 1], b[i])
       PROVE  Dragged(T, b[i - 1], b[i])
  <2>1. b[i - 1].relation \in Relations
    BY <1>9, <1>12, FrameFacts DEF Dragged
  <2>2. b[i - 1].relation # r
    BY <1>1, <1>3, <1>12 DEF Dragged
  <2>3. T[b[i - 1].relation] = store[b[i - 1].relation]
    BY <1>8, <2>1, <2>2
  <2>4. QED
    BY <1>12, <2>3 DEF Dragged
<1>13. NestedIn(T, alive, UnderIn(stack), b)
  BY <1>6, <1>10, <1>11, <1>12, NestedKept
<1>14. Listing(store, alive, Top)
  BY <1>6 DEF SoundSources
<1>15. T[Top.relation].marked[Top.entity]
  BY <1>2, <1>3, <1>8, <1>14 DEF Listing
<1>16. \A j \in DOMAIN Top.left : j > 1 /\ Top.left[j] \in alive => T[Top.relation].target[Top.left[j]] = Top.entity
  <2>1. 1 \in DOMAIN Top.left /\ x = Top.left[1]
    BY <1>1, <1>2, <1>4 DEF NextSource
  <2>2. ASSUME NEW j \in DOMAIN Top.left, j > 1, Top.left[j] \in alive
        PROVE  T[Top.relation].target[Top.left[j]] = Top.entity
    <3>1. Top.left[j] # x
      BY <1>14, <2>1, <2>2 DEF Listing
    <3>2. Top.left[j] \in Entities
      BY <1>2, <2>2
    <3>3. store[r].target[Top.left[j]] = Top.entity
      BY <1>3, <1>14, <2>2 DEF Listing
    <3>4. QED
      BY <1>3, <1>8, <3>1, <3>2, <3>3
  <2>3. QED
    BY <2>2
<1>17. OnDelete[Top.relation] # "delete"
  BY <1>1
<1>18. NestedIn(T, alive, UnderIn(stack), Passed) /\ OnceIn(Passed)
  BY <1>1, <1>5, <1>13, <1>15, <1>16, <1>17, NestedPassed
<1>19. UnderIn(Passed) = UnderIn(stack)
  BY <1>1, PassedSets
<1>20. QED
  BY <1>1, <1>7, <1>18, <1>19 DEF Nested

LEMMA NestedSourcesDone ==
  ASSUME IInv, Nested, SourcesDone
  PROVE  Nested'
<1>1. InSources /\ stack' = Front(stack) /\ alive' = alive /\ store' = store
  BY DEF SourcesDone
<1>2. stack # <<>>
  BY <1>1, InSourcesFacts
<1>3. NestedIn(store, alive, UnderIn(stack), Front(stack)) /\ OnceIn(Front(stack))
  BY <1>2, NestedParts
<1>4. UnderIn(Front(stack)) = UnderIn(stack)
  BY <1>1, ReturnedSources
<1>5. QED
  BY <1>1, <1>3, <1>4 DEF Nested

(* A call that kills starts with a single frame.                              *)
LEMMA NestedAlone ==
  ASSUME IInv, stack = <<>>, NEW e \in Entities, e \in alive, alive' = alive, store' = store,
         stack' = <<KillFrame(e)>>
  PROVE  Nested'
<1>1. PICK f \in Frames : f = KillFrame(e) /\ f.hook = "kill" /\ f.entity = e
  BY KillFrameTyped
<1>2. PICK b : b = <<>>
  OBVIOUS
<1>3. PICK V : V = UnderIn(stack')
  OBVIOUS
<1>4. b \in Seq(Frames) /\ NestedIn(store, alive, V, b) /\ OnceIn(b) /\ e \notin UnderIn(b) /\ ~(b # <<>>)
  BY <1>2 DEF NestedIn, OnceIn, UnderIn
<1>5. Dying(store, alive, f)
  BY <1>1, Quiet DEF Dying
<1>6. f.hook # "sources"
  BY <1>1
<1>7. NestedIn(store, alive, V, Append(b, f))
  BY <1>4, <1>5, <1>6, NestedPushed
<1>8. OnceIn(Append(b, f))
  BY <1>1, <1>4, OncePushed
<1>9. stack' = Append(b, f)
  BY <1>1, <1>2
<1>10. QED
  BY <1>3, <1>7, <1>8, <1>9 DEF Nested

LEMMA NestedStep == OneOwner /\ IInv /\ Nested /\ [Next]_vars => Nested'
<1>1. SUFFICES ASSUME OneOwner, IInv, Nested, [Next]_vars
               PROVE  Nested'
  OBVIOUS
<1>2. ASSUME stack = <<>>, stack' = <<>>
      PROVE  Nested'
  BY <1>2 DEF Nested, NestedIn, OnceIn
<1>3. ASSUME stack' = stack, alive' = alive, store' = store
      PROVE  Nested'
  BY <1>1, <1>3 DEF Nested
<1>4. ASSUME NEW e \in Entities, NEW r \in Relations, NEW t \in Entities, RelateCall(e, r, t)
      PROVE  Nested'
  BY <1>2, <1>4 DEF RelateCall, Idle, Returned
<1>5. ASSUME NEW e \in Entities, NEW r \in Relations, UnrelateCall(e, r)
      PROVE  Nested'
  BY <1>2, <1>5 DEF UnrelateCall, Idle, Returned
<1>6. ASSUME NEW e \in Entities, KillCall(e)
      PROVE  Nested'
  BY <1>1, <1>6, NestedAlone DEF KillCall, Idle, Returned
<1>7. ASSUME NEW e \in Entities, NEW r \in Relations, NEW t \in Entities, DeferRelate(e, r, t)
      PROVE  Nested'
  BY <1>3, <1>7 DEF DeferRelate
<1>8. ASSUME NEW e \in Entities, NEW r \in Relations, DeferUnrelate(e, r)
      PROVE  Nested'
  BY <1>3, <1>8 DEF DeferUnrelate
<1>9. ASSUME NEW e \in Entities, DeferKill(e)
      PROVE  Nested'
  BY <1>3, <1>9 DEF DeferKill
<1>10. CASE DeferBegin \/ DeferEnd \/ NextBatch \/ EndFlush \/ SkipCommand
  BY <1>3, <1>10 DEF DeferBegin, DeferEnd, NextBatch, EndFlush, SkipCommand
<1>11. CASE KillCommand
  <2>1. /\ stack = <<>> /\ alive' = alive /\ store' = store /\ batch # <<>>
        /\ stack' = <<KillFrame(Head(batch).entity)>> /\ Head(batch).entity \in alive
    BY <1>11 DEF KillCommand, Flushing, Returned
  <2>2. Head(batch).entity \in Entities
    BY <1>1, <2>1, FirstCommand DEF CommandTypes
  <2>3. QED
    BY <1>1, <2>1, <2>2, NestedAlone
<1>12. CASE ApplyCommand
  BY <1>2, <1>12 DEF ApplyCommand, Flushing, Returned
<1>13. CASE KillTarget
  BY <1>1, <1>13, NestedKillTarget
<1>14. CASE KillSources
  BY <1>1, <1>14, NestedKillSources
<1>15. CASE KillRow
  BY <1>1, <1>15, NestedKillRow
<1>16. CASE KillSource
  BY <1>1, <1>16, NestedKillSource
<1>17. CASE UnrelateSource
  BY <1>1, <1>17, NestedUnrelateSource
<1>18. CASE SourcesDone
  BY <1>1, <1>18, NestedSourcesDone
<1>19. CASE UNCHANGED vars
  BY <1>3, <1>19 DEF vars
<1>20. QED
  BY <1>1, <1>4, <1>5, <1>6, <1>7, <1>8, <1>9, <1>10, <1>11, <1>12, <1>13, <1>14, <1>15, <1>16,
     <1>17, <1>18, <1>19 DEF Next, Calls, Work

LEMMA NestedAlways ==
  ASSUME OneOwner
  PROVE  Spec => []Nested
<1>1. Init => Nested
  BY DEF Init, Nested, NestedIn, OnceIn
<1>2. IInv /\ Nested /\ [Next]_vars => Nested'
  BY NestedStep
<1>3. QED
  BY <1>1, <1>2, IInvAlways, PTL DEF Spec

(* No cascade comes back to an entity that is being killed, whatever cycles   *)
(* the edges make, as long as one relation at most deletes the sources of a   *)
(* deleted target: the hook of the entity's own target has then taken it out  *)
(* of the list it would be found in.  With two such relations a cascade of    *)
(* one returns along the edges of the other.                                  *)
THEOREM KilledAtMostOnce ==
  ASSUME OneOwner
  PROVE  Spec => []KilledOnce
<1>1. Nested => KilledOnce
  BY DEF Nested, OnceIn, KilledOnce
<1>2. QED
  BY <1>1, NestedAlways, PTL

-----------------------------------------------------------------------------
(* Who dies with an entity: the least set that has it and, with each of its  *)
(* own, those whom the deletion of a target takes along.                     *)

LEMMA DeletedSteps ==
  ASSUME NEW g \in Graphs, NEW e \in Entities
  PROVE  \E d \in [Nat -> SUBSET Entities] :
           /\ d[0] = {e} /\ \A n \in Nat \ {0} : d[n] = Owned(g, d[n - 1])
           /\ Deleted(g, e) = d[Cardinality(Entities)]
<1> DEFINE X == SUBSET Entities
           own == [D \in X |-> Owned(g, D)]
           Runs(d) == d = [n \in Nat |-> IF n = 0 THEN {e} ELSE Owned(g, d[n - 1])]
<1>1. g.alive \in SUBSET Entities
  BY DEF Graphs
<1>2. own \in [X -> X] /\ {e} \in X
  BY <1>1 DEF Owned
<1>3. PICK f \in [Nat -> X] : f[0] = {e} /\ \A n \in Nat \ {0} : f[n] = own[f[n - 1]]
  <2> HIDE DEF own, X
  <2>1. QED
    BY <1>2, IteratedOne
<1>4. \A n \in Nat \ {0} : n - 1 \in Nat /\ f[n - 1] \in X /\ f[n] = Owned(g, f[n - 1])
  <2>1. \A D \in X : own[D] = Owned(g, D)
    OBVIOUS
  <2> HIDE DEF own, X
  <2>2. ASSUME NEW n \in Nat \ {0}
        PROVE  n - 1 \in Nat /\ f[n - 1] \in X /\ f[n] = own[f[n - 1]]
    BY <1>3
  <2>3. QED
    BY <2>1, <2>2
<1>5. Runs(f)
  BY <1>3, <1>4
<1>6. ASSUME NEW d, Runs(d) PROVE d = f
  <2>1. d = [n \in Nat |-> d[n]] /\ d[0] = {e} /\ \A n \in Nat \ {0} : d[n] = Owned(g, d[n - 1])
    BY <1>6
  <2>2. f = [n \in Nat |-> f[n]]
    BY <1>3
  <2>3. \A n \in Nat \ {0} : f[n - 1] = d[n - 1] => f[n] = d[n]
    BY <1>4, <2>1
  <2>4. f[0] = d[0]
    BY <1>3, <2>1
  <2>5. QED
    BY ONLY <2>1, <2>2, <2>3, <2>4, SameIterates
<1>7. Deleted(g, e) = f[Cardinality(Entities)]
  <2>1. (CHOOSE d : Runs(d)) = f
    <3> HIDE DEF Runs
    <3>1. QED
      BY <1>5, <1>6
  <2> DEFINE d == CHOOSE h : Runs(h)
  <2>2. Deleted(g, e) = d[Cardinality(Entities)]
    BY DEF Deleted
  <2>3. d = f
    BY <2>1
  <2> HIDE DEF d
  <2>4. QED
    BY <2>2, <2>3
<1>8. QED
  BY <1>3, <1>4, <1>7

LEMMA OwnedGrows ==
  ASSUME NEW g \in Graphs, NEW D \in SUBSET Entities
  PROVE  D \subseteq Owned(g, D) /\ Owned(g, D) \in SUBSET Entities /\ Owned(g, D) \subseteq D \cup g.alive
  BY DEF Owned, Graphs

(* A series of growing sets stands still before it has every entity twice.    *)
LEMMA DeletedIs ==
  ASSUME NEW g \in Graphs, NEW e \in Entities
  PROVE  /\ Deleted(g, e) \in SUBSET Entities /\ e \in Deleted(g, e)
         /\ Deleted(g, e) \subseteq {e} \cup g.alive
         /\ Owned(g, Deleted(g, e)) = Deleted(g, e)
         /\ \A C \in SUBSET Entities : e \in C /\ Owned(g, C) \subseteq C => Deleted(g, e) \subseteq C
<1>1. PICK d \in [Nat -> SUBSET Entities] :
        /\ d[0] = {e} /\ \A n \in Nat \ {0} : d[n] = Owned(g, d[n - 1])
        /\ Deleted(g, e) = d[Cardinality(Entities)]
  BY DeletedSteps
<1>2. IsFiniteSet(Entities) /\ Cardinality(Entities) \in Nat
  BY GraphAssumption, FS_CardinalityType DEF GraphAssumption
<1>3. PICK N \in Nat : N = Cardinality(Entities)
  BY <1>2
<1>4. \A n \in Nat : d[n] \in SUBSET Entities /\ d[n + 1] = Owned(g, d[n])
  <2>1. ASSUME NEW n \in Nat
        PROVE  d[n] \in SUBSET Entities /\ d[n + 1] = Owned(g, d[n])
    <3>1. n + 1 \in Nat \ {0} /\ (n + 1) - 1 = n
      OBVIOUS
    <3>2. QED
      BY <1>1, <3>1
  <2>2. QED
    BY <2>1
<1> DEFINE Small == {n \in Nat : d[n + 1] # d[n] /\ Cardinality(d[n]) < n + 1}
<1>5. Small = {}
  <2>1. SUFFICES ASSUME Small # {} PROVE FALSE
    OBVIOUS
  <2>2. PICK n \in Small : \A m \in Small : n <= m
    <3>1. Small \in SUBSET Nat
      OBVIOUS
    <3>2. QED
      BY ONLY <2>1, <3>1, LeastOf
  <2>3. n # 0
    <3>1. Cardinality(d[0]) = 1
      BY <1>1, FS_Singleton
    <3>2. QED
      BY <2>2, <3>1
  <2>4. PICK m \in Nat : n = m + 1
    BY <2>3
  <2>5. m \notin Small
    BY <2>2, <2>4
  <2>6. d[m + 1] # d[m]
    BY <1>4, <2>2, <2>4
  <2>7. d[m] \subseteq d[n] /\ d[m] # d[n] /\ d[n] \subseteq Entities
    BY <1>4, <2>4, <2>6, OwnedGrows
  <2>8. IsFiniteSet(d[n]) /\ Cardinality(d[m]) < Cardinality(d[n])
    <3>1. IsFiniteSet(d[n])
      BY <1>2, <2>7, FS_Subset
    <3>2. IsFiniteSet(d[n]) /\ d[m] \in SUBSET d[n] /\ d[m] # d[n]
      BY <2>7, <3>1
    <3>3. QED
      BY ONLY <3>2, FS_Subset, FS_CardinalityType
  <2>9. Cardinality(d[m]) \in Nat /\ Cardinality(d[n]) \in Nat
    BY <2>7, <2>8, FS_Subset, FS_CardinalityType
  <2>10. ~(Cardinality(d[m]) < m + 1)
    BY <2>5, <2>6
  <2>11. Cardinality(d[n]) < n + 1
    BY <2>2
  <2>12. QED
    BY <2>4, <2>8, <2>9, <2>10, <2>11
<1>6. d[N + 1] = d[N]
  <2>1. SUFFICES ASSUME d[N + 1] # d[N] PROVE FALSE
    OBVIOUS
  <2>2. ~(Cardinality(d[N]) < N + 1)
    BY <1>5, <2>1
  <2>3. IsFiniteSet(d[N]) /\ Cardinality(d[N]) <= N /\ Cardinality(d[N]) \in Nat
    BY <1>2, <1>3, <1>4, FS_Subset, FS_CardinalityType
  <2>4. QED
    BY <2>2, <2>3
<1>7. ASSUME NEW C \in SUBSET Entities, e \in C, Owned(g, C) \subseteq C
      PROVE  \A n \in Nat : d[n] \subseteq C
  <2> DEFINE Out == {n \in Nat : ~(d[n] \subseteq C)}
  <2>1. SUFFICES ASSUME Out # {} PROVE FALSE
    OBVIOUS
  <2>2. PICK n \in Out : \A m \in Out : n <= m
    <3>1. Out \in SUBSET Nat
      OBVIOUS
    <3>2. QED
      BY ONLY <2>1, <3>1, LeastOf
  <2>3. n # 0
    BY <1>1, <1>7
  <2>4. PICK m \in Nat : n = m + 1
    BY <2>3
  <2>5. d[m] \subseteq C
    BY <2>2, <2>4
  <2>6. d[n] = Owned(g, d[m])
    BY <1>4, <2>4
  <2>7. Owned(g, d[m]) \subseteq Owned(g, C)
    BY <2>5 DEF Owned
  <2>8. QED
    BY <1>7, <2>2, <2>6, <2>7
<1>8. e \in d[N]
  <2> DEFINE Out == {n \in Nat : e \notin d[n]}
  <2>1. SUFFICES ASSUME Out # {} PROVE FALSE
    OBVIOUS
  <2>2. PICK n \in Out : \A m \in Out : n <= m
    <3>1. Out \in SUBSET Nat
      OBVIOUS
    <3>2. QED
      BY ONLY <2>1, <3>1, LeastOf
  <2>3. n # 0
    BY <1>1
  <2>4. PICK m \in Nat : n = m + 1
    BY <2>3
  <2>5. e \in d[m]
    BY <2>2, <2>4
  <2>6. QED
    BY <1>4, <2>2, <2>4, <2>5, OwnedGrows
<1>9. d[N] \subseteq {e} \cup g.alive
  <2>1. PICK C \in SUBSET Entities : C = {e} \cup g.alive
    BY DEF Graphs
  <2>2. e \in C /\ Owned(g, C) \subseteq C
    BY <2>1, OwnedGrows
  <2>3. QED
    BY <1>7, <2>1, <2>2
<1>10. QED
  BY <1>1, <1>3, <1>4, <1>6, <1>7, <1>8, <1>9

-----------------------------------------------------------------------------
(* The edges into those who are being killed.                                *)

(* Who has given up the sources of a relation                                *)
DoneIn(st, r) ==
  {e \in Entities : \E i \in DOMAIN st : Kills(st[i], e) /\ <<"sources", r>> \notin st[i].todo}
(* A source that a running hook has still to come to, or is just killing      *)
Lists(f, e, r) == f.hook = "sources" /\ f.entity = e /\ f.relation = r
Has(f, x) == \E j \in DOMAIN f.left : f.left[j] = x
Awaits(st, e, r, x) ==
  \E k \in DOMAIN st : /\ Lists(st[k], e, r)
                       /\ Has(st[k], x) \/ (k + 1 \in DOMAIN st /\ Kills(st[k + 1], x))

LEMMA DonePushed ==
  ASSUME NEW st \in Seq(Frames), NEW f \in Frames
  PROVE  \A r \in Relations : DoneIn(Append(st, f), r) =
           DoneIn(st, r) \cup {e \in Entities : Kills(f, e) /\ <<"sources", r>> \notin f.todo}
<1>1. PICK g : g = Append(st, f)
  OBVIOUS
<1>2. PICK n \in Nat : n = Len(st)
  OBVIOUS
<1>3. DOMAIN g = 1..(n + 1) /\ DOMAIN st = 1..n /\ g[n + 1] = f /\ \A i \in 1..n : g[i] = st[i]
  BY <1>1, <1>2
<1>4. /\ \A i \in DOMAIN g : i = n + 1 \/ i \in DOMAIN st
      /\ \A i \in DOMAIN st : i \in DOMAIN g /\ g[i] = st[i]
      /\ n + 1 \in DOMAIN g
  BY <1>3
<1>5. ASSUME NEW r \in Relations
      PROVE  DoneIn(g, r) = DoneIn(st, r) \cup {e \in Entities : Kills(f, e) /\ <<"sources", r>> \notin f.todo}
  <2>1. DoneIn(g, r) \subseteq DoneIn(st, r) \cup {e \in Entities : Kills(f, e) /\ <<"sources", r>> \notin f.todo}
    BY <1>3, <1>4 DEF DoneIn
  <2>2. DoneIn(st, r) \subseteq DoneIn(g, r)
    BY <1>4 DEF DoneIn
  <2>3. {e \in Entities : Kills(f, e) /\ <<"sources", r>> \notin f.todo} \subseteq DoneIn(g, r)
    BY <1>3, <1>4 DEF DoneIn
  <2>4. QED
    BY <2>1, <2>2, <2>3
<1>6. QED
  BY <1>1, <1>5

(* A stack is what is below its top, and the top.                            *)
LEMMA TopUp ==
  ASSUME stack \in Seq(Frames), stack # <<>>
  PROVE  /\ stack = Append(Front(stack), Top) /\ Front(stack) \in Seq(Frames) /\ Top \in Frames
<1>1. PICK f : f = Front(stack)
  OBVIOUS
<1>2. Len(stack) \in Nat \ {0}
  BY StackTop
<1>3. PICK n \in Nat \ {0} : n = Len(stack)
  BY <1>2
<1>4. /\ f \in Seq(Frames) /\ Len(f) = n - 1 /\ Top = stack[n] /\ Top \in Frames
      /\ \A i \in 1..(n - 1) : f[i] = stack[i]
  BY <1>1, <1>3, StackTop
<1>5. Append(f, Top) \in Seq(Frames) /\ Len(Append(f, Top)) = n
  BY <1>3, <1>4
<1>6. \A i \in 1..n : Append(f, Top)[i] = stack[i]
  BY <1>3, <1>4
<1>7. stack = Append(f, Top)
  BY <1>3, <1>5, <1>6, SeqEqual
<1>8. QED
  BY <1>1, <1>4, <1>7

LEMMA DoneReturning ==
  ASSUME stack \in Seq(Frames), stack # <<>>
  PROVE  \A r \in Relations : DoneIn(stack, r) =
           DoneIn(Front(stack), r) \cup {e \in Entities : Kills(Top, e) /\ <<"sources", r>> \notin Top.todo}
<1>1. stack = Append(Front(stack), Top) /\ Front(stack) \in Seq(Frames) /\ Top \in Frames
  BY TopUp
<1>2. \A r \in Relations : DoneIn(Append(Front(stack), Top), r) =
        DoneIn(Front(stack), r) \cup {e \in Entities : Kills(Top, e) /\ <<"sources", r>> \notin Top.todo}
  BY <1>1, DonePushed, Zenon
<1>3. QED
  BY ONLY <1>1, <1>2, Zenon

LEMMA AwaitsPushed ==
  ASSUME NEW st \in Seq(Frames), NEW f \in Frames, NEW e, NEW r, NEW x
  PROVE  Awaits(Append(st, f), e, r, x) <=>
           \/ Awaits(st, e, r, x)
           \/ Lists(f, e, r) /\ Has(f, x)
           \/ st # <<>> /\ Lists(st[Len(st)], e, r) /\ Kills(f, x)
<1>1. PICK g : g = Append(st, f)
  OBVIOUS
<1>2. PICK n \in Nat : n = Len(st)
  OBVIOUS
<1>3. /\ DOMAIN g = 1..(n + 1) /\ DOMAIN st = 1..n /\ g[n + 1] = f /\ \A i \in 1..n : g[i] = st[i]
      /\ st # <<>> <=> n \in 1..n
  BY <1>1, <1>2
<1>4. ASSUME Awaits(st, e, r, x)
      PROVE  Awaits(g, e, r, x)
  <2>1. PICK k \in 1..n : /\ Lists(st[k], e, r)
                          /\ Has(st[k], x) \/ (k + 1 \in 1..n /\ Kills(st[k + 1], x))
    BY <1>3, <1>4 DEF Awaits
  <2>2. k \in 1..(n + 1) /\ (k + 1 \in 1..n => k + 1 \in 1..(n + 1)) /\ g[k] = st[k]
    BY <1>3
  <2>3. k + 1 \in 1..n => g[k + 1] = st[k + 1]
    BY <1>3
  <2>4. QED
    BY <1>3, <2>1, <2>2, <2>3 DEF Awaits
<1>5. ASSUME Lists(f, e, r) /\ Has(f, x)
      PROVE  Awaits(g, e, r, x)
  <2>1. n + 1 \in DOMAIN g /\ g[n + 1] = f
    BY <1>3
  <2>2. QED
    BY <1>5, <2>1 DEF Awaits
<1>6. ASSUME st # <<>> /\ Lists(st[n], e, r) /\ Kills(f, x)
      PROVE  Awaits(g, e, r, x)
  <2>1. n \in DOMAIN g /\ n + 1 \in DOMAIN g /\ g[n] = st[n] /\ g[n + 1] = f
    BY <1>3, <1>6
  <2>2. QED
    BY <1>6, <2>1 DEF Awaits
<1>7. ASSUME Awaits(g, e, r, x)
      PROVE  \/ Awaits(st, e, r, x)
             \/ Lists(f, e, r) /\ Has(f, x)
             \/ st # <<>> /\ Lists(st[n], e, r) /\ Kills(f, x)
  <2>1. PICK k \in 1..(n + 1) : /\ Lists(g[k], e, r)
                                /\ Has(g[k], x) \/ (k + 1 \in 1..(n + 1) /\ Kills(g[k + 1], x))
    BY <1>3, <1>7 DEF Awaits
  <2>2. CASE k = n + 1
    <3>1. g[k] = f /\ k + 1 \notin 1..(n + 1)
      BY <1>3, <2>2
    <3>2. QED
      BY <2>1, <3>1
  <2>3. CASE k = n
    <3>1. n \in 1..n /\ g[k] = st[n] /\ g[k + 1] = f
      BY <1>3, <2>1, <2>3
    <3>2. CASE Has(g[k], x)
      <4>1. Awaits(st, e, r, x)
        BY <1>3, <2>1, <3>1, <3>2 DEF Awaits
      <4>2. QED
        BY <4>1
    <3>3. CASE Kills(g[k + 1], x)
      BY <1>3, <2>1, <2>3, <3>1, <3>3
    <3>4. QED
      BY <2>1, <3>2, <3>3
  <2>4. CASE k # n + 1 /\ k # n
    <3>1. k \in 1..n /\ k + 1 \in 1..n
      BY <2>4
    <3>2. g[k] = st[k] /\ g[k + 1] = st[k + 1]
      BY <1>3, <3>1
    <3>3. Awaits(st, e, r, x)
      BY <1>3, <2>1, <3>1, <3>2 DEF Awaits
    <3>4. QED
      BY <3>3
  <2>5. QED
    BY <2>2, <2>3, <2>4
<1>8. QED
  BY <1>1, <1>2, <1>4, <1>5, <1>6, <1>7

LEMMA AwaitsTop ==
  ASSUME stack \in Seq(Frames), stack # <<>>, NEW e, NEW r, NEW x, NEW b, b = Front(stack)
  PROVE  Awaits(stack, e, r, x) <=>
           \/ Awaits(b, e, r, x)
           \/ Lists(Top, e, r) /\ Has(Top, x)
           \/ b # <<>> /\ Lists(b[Len(b)], e, r) /\ Kills(Top, x)
<1>1. stack = Append(b, Top) /\ b \in Seq(Frames) /\ Top \in Frames
  BY TopUp
<1>2. Awaits(Append(b, Top), e, r, x) <=>
           \/ Awaits(b, e, r, x)
           \/ Lists(Top, e, r) /\ Has(Top, x)
           \/ b # <<>> /\ Lists(b[Len(b)], e, r) /\ Kills(Top, x)
  BY <1>1, AwaitsPushed, Zenon
<1>3. QED
  BY ONLY <1>1, <1>2, Zenon

(* Every edge of the living leads to the living until its hook has run.       *)
Pointing(S, A, st) ==
  \A r \in Relations : \A x \in A : S[r].target[x] # NoEntity => S[r].target[x] \in A \/ x \in RanIn(st, r)
(* Who still points at one that gave up its sources is being killed itself,   *)
(* or the hook that takes them one by one has not come to it.                 *)
Drained(S, A, st) ==
  \A r \in Relations : \A x \in A : S[r].target[x] \in DoneIn(st, r) =>
    x \in RanIn(st, r) \/ Awaits(st, S[r].target[x], r, x)
Cleared(S, A) == \A r \in Relations : \A x \in Entities \ A : S[r].target[x] = NoEntity
Flow(S, A, st) == Pointing(S, A, st) /\ Drained(S, A, st) /\ Cleared(S, A)

LEMMA FlowFrames ==
  ASSUME NEW S, NEW A, NEW st, Flow(S, A, st), NEW T, NEW tt,
         \A r \in Relations : T[r].target = S[r].target,
         \A r \in Relations : RanIn(st, r) \subseteq RanIn(tt, r),
         \A r \in Relations : \A x \in A : S[r].target[x] \in DoneIn(tt, r) =>
           \/ S[r].target[x] \in DoneIn(st, r)
           \/ x \in RanIn(tt, r)
           \/ Awaits(tt, S[r].target[x], r, x),
         \A r \in Relations : \A x \in A : Awaits(st, S[r].target[x], r, x) => Awaits(tt, S[r].target[x], r, x)
  PROVE  Flow(T, A, tt)
<1>1. Pointing(T, A, tt)
  BY DEF Flow, Pointing
<1>2. Drained(T, A, tt)
  <2>1. SUFFICES ASSUME NEW r \in Relations, NEW x \in A, S[r].target[x] \in DoneIn(tt, r)
                 PROVE  x \in RanIn(tt, r) \/ Awaits(tt, S[r].target[x], r, x)
    BY DEF Drained
  <2>2. CASE S[r].target[x] \in DoneIn(st, r)
    <3>1. x \in RanIn(st, r) \/ Awaits(st, S[r].target[x], r, x)
      BY <2>2 DEF Flow, Drained
    <3>2. QED
      BY <3>1
  <2>3. QED
    BY <2>1, <2>2
<1>3. Cleared(T, A)
  BY DEF Flow, Cleared
<1>4. QED
  BY <1>1, <1>2, <1>3 DEF Flow

(* A source whose hook has not run is in the list of its target.             *)
LEMMA InList ==
  ASSUME IInv, NEW r \in Relations, NEW x \in alive, NEW t \in alive, store[r].target[x] = t,
         ~store[r].marked[t], x \notin RanIn(stack, r)
  PROVE  store[r].sources[t] # <<>> /\ \E j \in DOMAIN store[r].sources[t] : store[r].sources[t][j] = x
<1>1. Kept(store[r], alive, UnderIn(stack), RanIn(stack, r)) /\ alive \in SUBSET Entities /\ IndexTypes(store[r])
  BY StoreFacts
<1>2. Placed(store[r], x)
  BY <1>1 DEF Kept, Listed
<1>3. store[r].index[x] \in DOMAIN store[r].sources[t] /\ store[r].sources[t][store[r].index[x]] = x
  BY <1>2 DEF Placed
<1>4. QED
  BY <1>3

LEMMA FlowStep ==
  ASSUME NEW S, NEW A, NEW st, Flow(S, A, st), NEW T, NEW B, NEW tt, B \subseteq A,
         \A r \in Relations : \A x \in B : T[r].target[x] \in {S[r].target[x], NoEntity},
         \A r \in Relations : \A x \in Entities \ B : T[r].target[x] = NoEntity,
         \A r \in Relations : \A x \in B : x \in RanIn(st, r) => x \in RanIn(tt, r),
         \A r \in Relations : \A x \in B : S[r].target[x] \in A \ B => x \in RanIn(tt, r),
         \A r \in Relations : \A x \in B : T[r].target[x] \in DoneIn(tt, r) =>
           \/ T[r].target[x] \in DoneIn(st, r)
           \/ x \in RanIn(tt, r)
           \/ Awaits(tt, T[r].target[x], r, x),
         \A r \in Relations : \A x \in B : T[r].target[x] # NoEntity /\ Awaits(st, T[r].target[x], r, x)
           => Awaits(tt, T[r].target[x], r, x)
  PROVE  Flow(T, B, tt)
<1>1. Pointing(T, B, tt)
  <2>1. SUFFICES ASSUME NEW r \in Relations, NEW x \in B, T[r].target[x] # NoEntity, x \notin RanIn(tt, r)
                 PROVE  T[r].target[x] \in B
    BY DEF Pointing
  <2>2. T[r].target[x] = S[r].target[x] /\ x \notin RanIn(st, r) /\ x \in A
    BY <2>1
  <2>3. S[r].target[x] \in A
    BY <2>1, <2>2 DEF Flow, Pointing
  <2>4. QED
    BY <2>1, <2>2, <2>3
<1>2. Drained(T, B, tt)
  <2>1. SUFFICES ASSUME NEW r \in Relations, NEW x \in B, T[r].target[x] \in DoneIn(tt, r)
                 PROVE  x \in RanIn(tt, r) \/ Awaits(tt, T[r].target[x], r, x)
    BY DEF Drained
  <2>2. T[r].target[x] # NoEntity
    BY <2>1, GraphAssumption DEF DoneIn, GraphAssumption
  <2>3. T[r].target[x] = S[r].target[x] /\ x \in A
    BY <2>2
  <2>4. CASE T[r].target[x] \in DoneIn(st, r)
    <3>1. x \in RanIn(st, r) \/ Awaits(st, T[r].target[x], r, x)
      BY <2>3, <2>4 DEF Flow, Drained
    <3>2. QED
      BY <2>2, <3>1
  <2>5. QED
    BY <2>1, <2>4
<1>3. Cleared(T, B)
  BY DEF Cleared
<1>4. QED
  BY <1>1, <1>2, <1>3 DEF Flow

(* The edit of one source between calls.                                      *)
LEMMA FlowEdited ==
  ASSUME NEW S, NEW A, Flow(S, A, <<>>), NEW e \in A, NEW T, A \subseteq Entities,
         \A r \in Relations : \A x \in Entities \ {e} : T[r].target[x] = S[r].target[x],
         \A r \in Relations : T[r].target[e] = S[r].target[e] \/ T[r].target[e] \in A \cup {NoEntity}
  PROVE  Flow(T, A, <<>>)
<1>1. \A r \in Relations : RanIn(<<>>, r) = {} /\ DoneIn(<<>>, r) = {}
  BY DEF RanIn, DoneIn
<1>2. Pointing(T, A, <<>>)
  <2>1. SUFFICES ASSUME NEW r \in Relations, NEW x \in A, T[r].target[x] # NoEntity
                 PROVE  T[r].target[x] \in A
    BY DEF Pointing
  <2>2. S[r].target[x] # NoEntity => S[r].target[x] \in A
    BY <1>1 DEF Flow, Pointing
  <2>3. QED
    BY <2>1, <2>2
<1>3. Drained(T, A, <<>>)
  BY <1>1 DEF Drained
<1>4. Cleared(T, A)
  BY DEF Flow, Cleared
<1>5. QED
  BY <1>2, <1>3, <1>4 DEF Flow

LEMMA FlowPushKill ==
  ASSUME IInv, Flow(store, alive, stack), NEW e \in alive, \A r \in Relations : ~store[r].marked[e],
         NEW st \in Seq(Frames), NEW tt, tt = Append(st, KillFrame(e)),
         \A r \in Relations : DoneIn(st, r) = DoneIn(stack, r),
         \A r \in Relations : RanIn(st, r) = RanIn(stack, r),
         \A r \in Relations : \A x \in alive :
           Awaits(stack, store[r].target[x], r, x) => Awaits(tt, store[r].target[x], r, x)
  PROVE  Flow(store, alive, tt)
<1>1. alive \in SUBSET Entities
  BY DEF IInv, Core
<1>2. PICK f \in Frames : f = KillFrame(e) /\ f.todo = Components(e)
  BY <1>1, KillFrameTyped
<1>3. /\ \A x : Kills(f, x) <=> x = e
      /\ \A r \in Relations : <<"sources", r>> \notin f.todo => store[r].sources[e] = <<>>
  BY <1>1, <1>2, KillFrameTyped DEF Kills, HasSources
<1>4. \A r \in Relations : RanIn(stack, r) \subseteq RanIn(tt, r)
  <2>1. \A r \in Relations : RanIn(Append(st, f), r) =
          RanIn(st, r) \cup {x \in Entities : Kills(f, x) /\ <<"target", r>> \notin f.todo}
    BY <1>2, Pushed
  <2>2. QED
    BY <1>2, <2>1
<1>5. \A r \in Relations : DoneIn(tt, r) =
        DoneIn(stack, r) \cup {x \in Entities : Kills(f, x) /\ <<"sources", r>> \notin f.todo}
  BY <1>2, DonePushed
<1>6. ASSUME NEW r \in Relations, NEW x \in alive, store[r].target[x] \in DoneIn(tt, r)
      PROVE  store[r].target[x] \in DoneIn(stack, r) \/ x \in RanIn(tt, r)
  <2>1. SUFFICES ASSUME store[r].target[x] \notin DoneIn(stack, r), x \notin RanIn(stack, r)
                 PROVE  FALSE
    BY <1>4
  <2>2. store[r].target[x] = e /\ store[r].sources[e] = <<>>
    BY <1>3, <1>5, <1>6, <2>1
  <2>3. QED
    BY <2>1, <2>2, InList
<1>7. QED
  BY <1>4, <1>6, FlowFrames

LEMMA PoppedFlow ==
  ASSUME IInv, Killing, Top.todo # {}
  PROVE  /\ \A r \in Relations : RanIn(stack, r) \subseteq RanIn(Popped, r)
         /\ \A r \in Relations : NextHook # <<"sources", r>> => DoneIn(Popped, r) = DoneIn(stack, r)
         /\ \A r \in Relations : DoneIn(Popped, r) \subseteq DoneIn(stack, r) \cup {Top.entity}
         /\ \A e, r, x : Awaits(stack, e, r, x) => Awaits(Popped, e, r, x)
<1>1. /\ stack \in Seq(Frames) /\ stack # <<>> /\ Top \in Frames /\ Top.hook = "kill"
      /\ Front(stack) \in Seq(Frames)
  BY KillingFacts
<1>2. PICK f \in Frames : /\ Popped = Append(Front(stack), f)
                          /\ f.hook = "kill" /\ f.entity = Top.entity /\ f.todo = Top.todo \ {NextHook}
  BY <1>1, PoppedIs
<1>3. PICK b \in Seq(Frames) : b = Front(stack)
  BY <1>1
<1>4. PICK tt : tt = Popped /\ tt = Append(b, f)
  BY <1>2, <1>3
<1>5. \A r \in Relations : RanIn(stack, r) \subseteq RanIn(tt, r)
  BY <1>4, PoppedSets
<1>6. \A e : Kills(f, e) <=> Kills(Top, e)
  BY <1>1, <1>2 DEF Kills
<1>7. \A r \in Relations : DoneIn(tt, r) =
        DoneIn(b, r) \cup {e \in Entities : Kills(f, e) /\ <<"sources", r>> \notin f.todo}
  BY <1>4, DonePushed
<1>8. \A r \in Relations : DoneIn(stack, r) =
        DoneIn(b, r) \cup {e \in Entities : Kills(Top, e) /\ <<"sources", r>> \notin Top.todo}
  BY <1>1, <1>3, DoneReturning
<1>9. ASSUME NEW r \in Relations, NextHook # <<"sources", r>>
      PROVE  DoneIn(tt, r) = DoneIn(stack, r)
  <2>1. <<"sources", r>> \in f.todo <=> <<"sources", r>> \in Top.todo
    BY <1>2, <1>9
  <2>2. QED
    BY <1>6, <1>7, <1>8, <2>1
<1>10. \A r \in Relations : DoneIn(tt, r) \subseteq DoneIn(stack, r) \cup {Top.entity}
  <2>1. \A e : Kills(f, e) => e = Top.entity
    BY <1>2 DEF Kills
  <2>2. QED
    BY <1>7, <1>8, <2>1
<1>11. ASSUME NEW e, NEW r, NEW x, Awaits(stack, e, r, x)
       PROVE  Awaits(tt, e, r, x)
  <2>1. ~Lists(Top, e, r)
    BY <1>1 DEF Lists
  <2>2. \/ Awaits(b, e, r, x)
        \/ b # <<>> /\ Lists(b[Len(b)], e, r) /\ Kills(f, x)
    BY <1>1, <1>3, <1>6, <1>11, <2>1, AwaitsTop
  <2>3. QED
    BY <1>4, <2>2, AwaitsPushed
<1>12. QED
  BY <1>4, <1>5, <1>9, <1>10, <1>11

(* A step that leaves the targets where they are.                             *)
SameTargets == \A r \in Relations : store'[r].target = store[r].target

LEMMA FlowKillTarget ==
  ASSUME IInv, Flow(store, alive, stack), KillTarget
  PROVE  Flow(store, alive, stack')
<1>1. /\ Killing /\ Top.todo # {} /\ stack' = Popped /\ \A r \in Relations : NextHook # <<"sources", r>>
  BY DEF KillTarget
<1>2. PICK tt : tt = stack'
  OBVIOUS
<1>3. /\ \A r \in Relations : RanIn(stack, r) \subseteq RanIn(tt, r)
      /\ \A r \in Relations : DoneIn(tt, r) = DoneIn(stack, r)
      /\ \A e, r, x : Awaits(stack, e, r, x) => Awaits(tt, e, r, x)
  BY <1>1, <1>2, PoppedFlow
<1>4. Flow(store, alive, tt)
  BY <1>3, FlowFrames
<1>5. QED
  BY <1>2, <1>4

LEMMA FlowKillSources ==
  ASSUME IInv, Nested, Flow(store, alive, stack), KillSources
  PROVE  Flow(store, alive, stack')
<1>1. /\ Killing /\ Top.entity \in alive /\ Top.todo # {} /\ NextHook[1] = "sources"
  BY DEF KillSources
<1>2. /\ stack # <<>> /\ NextHook[2] \in Relations /\ NextHook \in Hooks /\ Top.hook = "kill"
      /\ Front(stack) \in Seq(Frames) /\ stack \in Seq(Frames) /\ NextHook \in Top.todo
  BY <1>1, KillingFacts
<1>3. PICK e \in Entities : e = Top.entity
  BY <1>1, KillingFacts
<1>4. PICK r \in Relations : r = NextHook[2]
  BY <1>2
<1>5. NextHook = <<"sources", r>>
  BY <1>1, <1>2, <1>4 DEF Hooks
<1>6. PICK p \in Seq(Frames) : p = Popped
  BY <1>1, PoppedSets
<1>7. /\ \A q \in Relations : RanIn(stack, q) \subseteq RanIn(p, q)
      /\ \A q \in Relations \ {r} : DoneIn(p, q) = DoneIn(stack, q)
      /\ \A q \in Relations : DoneIn(p, q) \subseteq DoneIn(stack, q) \cup {e}
      /\ \A u, q, x : Awaits(stack, u, q, x) => Awaits(p, u, q, x)
  BY <1>1, <1>3, <1>5, <1>6, PoppedFlow
<1>8. ~store[r].marked[e]
  BY <1>2, <1>3, <1>5, NestedParts DEF Dying
<1>9. ASSUME NEW x \in alive, store[r].target[x] = e, x \notin RanIn(stack, r)
      PROVE  store[r].sources[e] # <<>> /\ \E j \in DOMAIN store[r].sources[e] : store[r].sources[e][j] = x
  BY <1>1, <1>3, <1>8, <1>9, InList
<1>10. CASE ~HasSources(e, r)
  <2>1. stack' = p
    BY <1>3, <1>4, <1>6, <1>10 DEF KillSources
  <2>2. store[r].sources[e] = <<>>
    BY <1>10 DEF HasSources
  <2>3. ASSUME NEW q \in Relations, NEW x \in alive, store[q].target[x] \in DoneIn(p, q)
        PROVE  store[q].target[x] \in DoneIn(stack, q) \/ x \in RanIn(p, q)
    BY <1>7, <1>9, <2>2, <2>3
  <2>4. Flow(store, alive, p)
    BY <1>7, <2>3, FlowFrames
  <2>5. QED
    BY <2>1, <2>4
<1>11. CASE HasSources(e, r)
  <2>1. PICK f \in Frames : /\ f = SourcesFrame(e, r) /\ f.hook = "sources" /\ f.entity = e
                            /\ f.relation = r /\ f.left = store[r].sources[e]
    BY SourcesFrameTyped
  <2>2. PICK tt : tt = Append(p, f)
    OBVIOUS
  <2>3. stack' = tt
    BY <1>3, <1>4, <1>6, <1>11, <2>1, <2>2 DEF KillSources
  <2>4. \A q \in Relations : RanIn(tt, q) = RanIn(p, q)
    BY <2>1, <2>2, PushedSources
  <2>5. \A q \in Relations : DoneIn(tt, q) = DoneIn(p, q)
    <3>1. \A q \in Relations : DoneIn(tt, q) =
            DoneIn(p, q) \cup {u \in Entities : Kills(f, u) /\ <<"sources", q>> \notin f.todo}
      BY <2>2, DonePushed
    <3>2. \A u : ~Kills(f, u)
      BY <2>1 DEF Kills
    <3>3. QED
      BY <3>1, <3>2
  <2>6. \A u, q, x : Awaits(stack, u, q, x) => Awaits(tt, u, q, x)
    BY <1>7, <2>2, AwaitsPushed
  <2>7. \A x : Lists(f, e, r) /\ Has(f, x) => Awaits(tt, e, r, x)
    BY <2>2, AwaitsPushed
  <2>8. ASSUME NEW q \in Relations, NEW x \in alive, store[q].target[x] \in DoneIn(tt, q)
        PROVE  \/ store[q].target[x] \in DoneIn(stack, q)
               \/ x \in RanIn(tt, q)
               \/ Awaits(tt, store[q].target[x], q, x)
    <3>1. SUFFICES ASSUME store[q].target[x] \notin DoneIn(stack, q), x \notin RanIn(stack, q)
                   PROVE  Awaits(tt, store[q].target[x], q, x)
      BY <1>7, <2>4
    <3>2. q = r /\ store[r].target[x] = e
      BY <1>7, <2>5, <2>8, <3>1
    <3>3. Lists(f, e, r) /\ Has(f, x)
      BY <1>9, <2>1, <3>1, <3>2 DEF Lists, Has
    <3>4. QED
      BY <2>7, <3>2, <3>3
  <2>9. \A q \in Relations : RanIn(stack, q) \subseteq RanIn(tt, q)
    BY <1>7, <2>4
  <2>10. Flow(store, alive, tt)
    BY <2>6, <2>8, <2>9, FlowFrames
  <2>11. QED
    BY <2>3, <2>10
<1>12. QED
  BY <1>10, <1>11

(* A kill that ends was the only one of its entity, so no list of it is open. *)
LEMMA FlowKillRow ==
  ASSUME IInv, Nested, Flow(store, alive, stack), KillRow
  PROVE  Flow(store', alive', stack')
<1>1. /\ Killing /\ (Top.todo = {} \/ Top.entity \notin alive)
      /\ alive' = alive \ {Top.entity} /\ stack' = Front(stack)
  BY DEF KillRow
<1>2. /\ stack \in Seq(Frames) /\ stack # <<>> /\ Top.hook = "kill" /\ Top.entity \in Entities
      /\ Front(stack) \in Seq(Frames)
  BY <1>1, KillingFacts
<1>3. PICK e \in Entities : e = Top.entity
  BY <1>2
<1>4. PICK b \in Seq(Frames) : b = Front(stack)
  BY <1>2
<1>5. /\ NestedIn(store, alive, UnderIn(stack), stack) /\ OnceIn(stack)
      /\ Dying(store, alive, Top)
  BY <1>2, NestedParts
<1>6. e \in alive /\ alive \in SUBSET Entities /\ Top.todo = {}
  BY <1>1, <1>3, <1>5 DEF Dying, IInv, Core
<1>7. PICK B : B = alive \ {e}
  OBVIOUS
<1>8. PICK T : T = store'
  OBVIOUS
<1>9. \A r \in Relations : \A x \in Entities : T[r].target[x] = IF x = e THEN NoEntity ELSE store[r].target[x]
  <2>1. T = [r \in Relations |-> Dropped(store[r], e)]
    BY <1>3, <1>6, <1>8 DEF KillRow
  <2>2. ASSUME NEW r \in Relations
        PROVE  T[r].target = [store[r].target EXCEPT ![e] = NoEntity]
               /\ store[r].target \in [Entities -> Entities \cup {NoEntity}]
    <3>1. PICK s \in Indexes : s = store[r] /\ IndexTypes(s)
      BY StoreFacts
    <3>2. PICK d : d = Dropped(s, e)
      OBVIOUS
    <3>3. d.target = [s.target EXCEPT ![e] = NoEntity] /\ d.marked = [s.marked EXCEPT ![e] = FALSE]
      <4>1. d = Dropped(s, e) /\ e \in Entities /\ s \in Indexes
        BY <3>1, <3>2
      <4>2. QED
        BY ONLY <4>1, DroppedIs
    <3>4. QED
      BY <2>1, <3>1, <3>2, <3>3 DEF IndexTypes
  <2>3. QED
    BY <2>2
<1>10. \A r \in Relations : RanIn(stack, r) = RanIn(b, r) \cup {e} /\ DoneIn(stack, r) = DoneIn(b, r) \cup {e}
  <2>1. /\ \A r \in Relations : RanIn(stack, r) =
             RanIn(b, r) \cup {u \in Entities : Kills(Top, u) /\ <<"target", r>> \notin Top.todo}
        /\ \A r \in Relations : DoneIn(stack, r) =
             DoneIn(b, r) \cup {u \in Entities : Kills(Top, u) /\ <<"sources", r>> \notin Top.todo}
    BY <1>2, <1>4, Returning, DoneReturning
  <2>2. \A u : Kills(Top, u) <=> u = e
    BY <1>2, <1>3 DEF Kills
  <2>3. QED
    BY <1>6, <2>1, <2>2
<1>11. ASSUME NEW r, NEW x, Awaits(stack, e, r, x)
       PROVE  FALSE
  <2>1. PICK k \in DOMAIN stack : Lists(stack[k], e, r)
    BY <1>11 DEF Awaits
  <2>2. PICK n \in Nat : n = Len(stack) /\ Top = stack[n] /\ n \in DOMAIN stack
    <3>1. /\ Len(stack) \in Nat \ {0} /\ Len(stack) \in DOMAIN stack
          /\ Top = stack[Len(stack)]
      BY <1>2, StackTop
    <3>2. QED
      BY ONLY <3>1
  <2>3. k > 1 /\ stack[k - 1].hook = "kill" /\ stack[k - 1].entity = e
    <3>1. Sound(store, alive, UnderIn(stack), stack, k)
      BY <1>5, Zenon DEF NestedIn
    <3>2. k > 1 /\ SoundSources(store, alive, UnderIn(stack), stack[k - 1], stack[k])
      BY <2>1, <3>1, Zenon DEF Sound, Lists
    <3>3. QED
      BY <2>1, <3>2 DEF SoundSources, Opened, Lists
  <2>4. k \in 1..n /\ k - 1 \in DOMAIN stack
    BY <1>2, <2>2, <2>3
  <2>5. k - 1 = n
    BY <1>2, <1>3, <1>5, <2>2, <2>3, <2>4 DEF OnceIn
  <2>6. QED
    BY <2>4, <2>5
<1>12. ASSUME NEW u, NEW r, NEW x \in B, Awaits(stack, u, r, x)
       PROVE  Awaits(b, u, r, x)
  <2>1. ~Lists(Top, u, r) /\ ~Kills(Top, x)
    BY <1>2, <1>3, <1>7 DEF Lists, Kills
  <2>2. QED
    BY <1>2, <1>4, <1>12, <2>1, AwaitsTop
<1>13. B \subseteq alive
  BY <1>7
<1>14. \A r \in Relations : \A x \in B : T[r].target[x] = store[r].target[x]
  BY <1>6, <1>7, <1>9
<1>15. \A r \in Relations : \A x \in Entities \ B : T[r].target[x] = NoEntity
  BY <1>7, <1>9 DEF Flow, Cleared
<1>16. \A r \in Relations : \A x \in B : x \in RanIn(stack, r) => x \in RanIn(b, r)
  BY <1>7, <1>10
<1>17. ASSUME NEW r \in Relations, NEW x \in B, store[r].target[x] \in alive \ B
       PROVE  x \in RanIn(b, r)
  <2>1. store[r].target[x] = e
    BY <1>7, <1>17
  <2>2. store[r].target[x] \in DoneIn(stack, r)
    BY <1>10, <2>1
  <2>3. x \in RanIn(stack, r) \/ Awaits(stack, e, r, x)
    BY <1>13, <2>1, <2>2 DEF Flow, Drained
  <2>4. QED
    BY <1>11, <1>16, <2>3
<1>18. Flow(T, B, b)
  <2>1. \A r \in Relations : \A x \in B : T[r].target[x] \in {store[r].target[x], NoEntity}
    BY <1>14
  <2>2. \A r \in Relations : \A x \in B : T[r].target[x] \in DoneIn(b, r) =>
           \/ T[r].target[x] \in DoneIn(stack, r)
           \/ x \in RanIn(b, r)
           \/ Awaits(b, T[r].target[x], r, x)
    BY <1>10
  <2>3. \A r \in Relations : \A x \in B : T[r].target[x] # NoEntity /\ Awaits(stack, T[r].target[x], r, x)
           => Awaits(b, T[r].target[x], r, x)
    BY <1>12
  <2>4. QED
    BY <1>13, <1>15, <1>16, <1>17, <2>1, <2>2, <2>3, FlowStep
<1>19. QED
  BY <1>1, <1>3, <1>4, <1>7, <1>8, <1>18

(* A list whose hook goes on with the next source.                            *)
LEMMA PassedFlow ==
  ASSUME IInv, InSources, Top.left # <<>>
  PROVE  /\ \A r \in Relations : DoneIn(Passed, r) = DoneIn(stack, r)
         /\ \A e, r, x : Awaits(stack, e, r, x) =>
              Awaits(Passed, e, r, x) \/ (x = NextSource /\ Lists(Top, e, r))
         /\ Passed # <<>> /\ \A e, r : Lists(Passed[Len(Passed)], e, r) <=> Lists(Top, e, r)
<1>1. /\ stack \in Seq(Frames) /\ stack # <<>> /\ Top \in Frames /\ Top.hook = "sources"
      /\ Top.left \in Seq(Entities) /\ Front(stack) \in Seq(Frames)
  BY InSourcesFacts
<1>2. PICK f \in Frames : /\ Passed = Append(Front(stack), f)
                          /\ f.hook = "sources" /\ f.entity = Top.entity /\ f.relation = Top.relation
                          /\ f.left = Tail(Top.left)
  BY <1>1, PassedIs
<1>3. PICK b \in Seq(Frames) : b = Front(stack)
  BY <1>1
<1>4. PICK tt : tt = Passed /\ tt = Append(b, f)
  BY <1>2, <1>3
<1>5. \A e : ~Kills(f, e) /\ ~Kills(Top, e)
  BY <1>1, <1>2 DEF Kills
<1>6. \A e, r : Lists(f, e, r) <=> Lists(Top, e, r)
  BY <1>1, <1>2 DEF Lists
<1>7. \A r \in Relations : DoneIn(tt, r) = DoneIn(stack, r)
  <2>1. \A r \in Relations : DoneIn(tt, r) =
          DoneIn(b, r) \cup {e \in Entities : Kills(f, e) /\ <<"sources", r>> \notin f.todo}
    BY <1>4, DonePushed
  <2>2. \A r \in Relations : DoneIn(stack, r) =
          DoneIn(b, r) \cup {e \in Entities : Kills(Top, e) /\ <<"sources", r>> \notin Top.todo}
    BY <1>1, <1>3, DoneReturning
  <2>3. QED
    BY <1>5, <2>1, <2>2
<1>8. \A x : Has(Top, x) => Has(f, x) \/ x = NextSource
  <2>1. PICK s \in Seq(Entities) : s = Top.left /\ s # <<>>
    BY <1>1
  <2>2. NextSource = s[1] /\ f.left = Tail(s)
    BY <1>2, <2>1 DEF NextSource
  <2>3. ASSUME NEW x, NEW j \in DOMAIN s, s[j] = x, x # NextSource
        PROVE  \E k \in DOMAIN Tail(s) : Tail(s)[k] = x
    <3>1. j \in 2..Len(s)
      BY <2>1, <2>2, <2>3
    <3>2. j - 1 \in DOMAIN Tail(s) /\ Tail(s)[j - 1] = s[j]
      BY <2>1, <3>1
    <3>3. QED
      BY <2>3, <3>2
  <2>4. QED
    BY <2>1, <2>2, <2>3 DEF Has
<1>9. ASSUME NEW e, NEW r, NEW x, Awaits(stack, e, r, x)
      PROVE  Awaits(tt, e, r, x) \/ (x = NextSource /\ Lists(Top, e, r))
  <2>1. Awaits(b, e, r, x) \/ (Lists(Top, e, r) /\ Has(Top, x))
    BY <1>1, <1>3, <1>5, <1>9, AwaitsTop
  <2>2. Awaits(b, e, r, x) \/ (Lists(f, e, r) /\ Has(f, x)) => Awaits(tt, e, r, x)
    BY <1>4, AwaitsPushed
  <2>3. QED
    BY <1>6, <1>8, <2>1, <2>2
<1>10. tt # <<>> /\ tt[Len(tt)] = f
  BY <1>4
<1>11. QED
  BY <1>4, <1>6, <1>7, <1>9, <1>10

LEMMA FlowKillSource ==
  ASSUME IInv, Nested, Flow(store, alive, stack), KillSource
  PROVE  Flow(store, alive, stack')
<1>1. InSources /\ Top.left # <<>> /\ OnDelete[Top.relation] = "delete"
  BY DEF KillSource
<1>2. /\ stack # <<>> /\ Top.left \in Seq(Entities) /\ Top.hook = "sources"
  BY <1>1, InSourcesFacts
<1>3. PICK x \in Entities : x = NextSource
  BY <1>1, InSourcesFacts
<1>4. PICK p \in Seq(Frames) : p = Passed
  BY <1>1, PassedSets
<1>5. /\ \A r \in Relations : DoneIn(p, r) = DoneIn(stack, r)
      /\ \A e, r, y : Awaits(stack, e, r, y) => Awaits(p, e, r, y) \/ (y = x /\ Lists(Top, e, r))
      /\ p # <<>> /\ \A e, r : Lists(p[Len(p)], e, r) <=> Lists(Top, e, r)
      /\ \A r \in Relations : RanIn(p, r) = RanIn(stack, r)
  BY <1>1, <1>3, <1>4, PassedFlow, PassedSets
<1>6. CASE x \notin alive
  <2>1. stack' = p
    BY <1>3, <1>4, <1>6 DEF KillSource
  <2>2. /\ \A r \in Relations : \A y \in alive : Awaits(stack, store[r].target[y], r, y) => Awaits(p, store[r].target[y], r, y)
        /\ \A r \in Relations : RanIn(stack, r) \subseteq RanIn(p, r)
    BY <1>5, <1>6
  <2>3. Flow(store, alive, p)
    BY <1>5, <2>2, FlowFrames
  <2>4. QED
    BY <2>1, <2>3
<1>7. CASE x \in alive
  <2>1. PICK tt : tt = Append(p, KillFrame(x))
    OBVIOUS
  <2>2. stack' = tt
    BY <1>3, <1>4, <1>7, <2>1 DEF KillSource
  <2>3. \A r \in Relations : ~store[r].marked[x]
    <3>1. x \notin UnderIn(stack)
      <4>1. SoundSources(store, alive, UnderIn(stack), Front(stack)[Len(Front(stack))], Top)
        BY <1>2, NestedParts
      <4>2. 1 \in DOMAIN Top.left /\ x = Top.left[1]
        BY <1>1, <1>2, <1>3 DEF NextSource
      <4>3. QED
        BY <1>1, <4>1, <4>2 DEF SoundSources, Waiting
    <3>2. QED
      BY <3>1, StoreFacts DEF Kept, Clean
  <2>4. PICK f \in Frames : f = KillFrame(x) /\ f.hook = "kill" /\ f.entity = x
    BY <1>3, KillFrameTyped
  <2>5. \A e, r, y : Awaits(stack, e, r, y) => Awaits(tt, e, r, y)
    <3>1. SUFFICES ASSUME NEW e, NEW r, NEW y, Awaits(stack, e, r, y)
                   PROVE  Awaits(tt, e, r, y)
      OBVIOUS
    <3>2. Kills(f, x)
      BY <2>4 DEF Kills
    <3>3. \/ Awaits(p, e, r, y)
          \/ p # <<>> /\ Lists(p[Len(p)], e, r) /\ Kills(f, y)
      BY <1>5, <3>1, <3>2
    <3>4. Awaits(Append(p, f), e, r, y)
      BY <3>3, AwaitsPushed
    <3>5. QED
      BY <2>1, <2>4, <3>4
  <2>6. Flow(store, alive, tt)
    BY <1>5, <1>7, <2>1, <2>3, <2>5, FlowPushKill
  <2>7. QED
    BY <2>2, <2>6
<1>8. QED
  BY <1>6, <1>7

LEMMA FlowSourcesDone ==
  ASSUME IInv, Flow(store, alive, stack), SourcesDone
  PROVE  Flow(store, alive, stack')
<1>1. InSources /\ Top.left = <<>> /\ stack' = Front(stack)
  BY DEF SourcesDone
<1>2. /\ stack \in Seq(Frames) /\ stack # <<>> /\ Top.hook = "sources" /\ Front(stack) \in Seq(Frames)
  BY <1>1, InSourcesFacts
<1>3. PICK b \in Seq(Frames) : b = Front(stack)
  BY <1>2
<1>4. \A e : ~Kills(Top, e)
  BY <1>2 DEF Kills
<1>5. \A r \in Relations : RanIn(b, r) = RanIn(stack, r)
  BY <1>1, <1>3, ReturnedSources
<1>6. \A r \in Relations : DoneIn(b, r) = DoneIn(stack, r)
  <2>1. \A r \in Relations : DoneIn(stack, r) =
          DoneIn(b, r) \cup {e \in Entities : Kills(Top, e) /\ <<"sources", r>> \notin Top.todo}
    BY <1>2, <1>3, DoneReturning
  <2>2. QED
    BY <1>4, <2>1
<1>7. ASSUME NEW e, NEW r, NEW x, Awaits(stack, e, r, x)
      PROVE  Awaits(b, e, r, x)
  <2>1. ~Has(Top, x)
    BY <1>1 DEF Has
  <2>2. QED
    BY <1>2, <1>3, <1>4, <1>7, <2>1, AwaitsTop
<1>8. Flow(store, alive, b)
  BY <1>5, <1>6, <1>7, FlowFrames
<1>9. QED
  BY <1>1, <1>3, <1>8

-----------------------------------------------------------------------------
(* A list whose sources are only unrelated.                                   *)

(* Such a hook runs outside scopes only, where no source of it has died.      *)
Leaving ==
  stack # <<>> /\ Top.hook = "sources" /\ OnDelete[Top.relation] = "remove" =>
    phase = "idle" /\ \A j \in DOMAIN Top.left : Top.left[j] \in alive

LEMMA UnlinkedTarget ==
  ASSUME IInv, NEW r \in Relations, NEW x \in Entities, HookFailure(store[r], x) = "none",
         NEW d, d = Unlinked(store[r], x)
  PROVE  d \in Indexes /\ d.target = [store[r].target EXCEPT ![x] = NoEntity]
<1>1. /\ store[r] \in Indexes /\ alive \in SUBSET Entities
      /\ Kept(store[r], alive, UnderIn(stack), RanIn(stack, r))
  BY StoreFacts
<1>2. store[r].target[x] \in alive /\ (store[r].marked[store[r].target[x]] \/ Placed(store[r], x))
  BY HookFine
<1>3. /\ d \in Indexes /\ d.target = [store[r].target EXCEPT ![x] = NoEntity]
      /\ d.marked = store[r].marked /\ Kept(d, alive, UnderIn(stack), RanIn(stack, r))
  BY <1>1, <1>2, KeptUnlinked
<1>4. QED
  BY <1>3

LEMMA UnrelatedIs ==
  ASSUME IInv, Nested, Leaving, UnrelateSource
  PROVE  /\ failure' = "none" /\ phase = "idle" /\ commands' = commands
         /\ NextSource \in alive /\ Top.entity \in alive /\ Top.relation \in Relations
         /\ Top.entity \in UnderIn(stack)
         /\ store[Top.relation].target[NextSource] = Top.entity
         /\ \A r \in Relations \ {Top.relation} : store'[r] = store[r]
         /\ store'[Top.relation].target = [store[Top.relation].target EXCEPT ![NextSource] = NoEntity]
<1>1. /\ InSources /\ Top.left # <<>> /\ OnDelete[Top.relation] = "remove"
  BY DEF UnrelateSource
<1>2. /\ stack \in Seq(Frames) /\ stack # <<>> /\ Top.hook = "sources" /\ Top.left \in Seq(Entities)
      /\ Top.entity \in Entities /\ Front(stack) \in Seq(Frames)
  BY <1>1, InSourcesFacts
<1>3. PICK r \in Relations : r = Top.relation
  BY <1>1, InSourcesFacts
<1>4. PICK x \in Entities : x = NextSource
  BY <1>1, InSourcesFacts
<1>5. PICK e \in Entities : e = Top.entity
  BY <1>2
<1>6. x \in alive /\ phase = "idle"
  <2>1. 1 \in DOMAIN Top.left /\ x = Top.left[1]
    BY <1>1, <1>2, <1>4 DEF NextSource
  <2>2. QED
    BY <1>1, <1>2, <2>1 DEF Leaving
<1>7. PICK b \in Seq(Frames) : b = Front(stack)
  BY <1>2
<1>8. /\ b # <<>> /\ SoundSources(store, alive, UnderIn(stack), b[Len(b)], Top)
      /\ NestedIn(store, alive, UnderIn(stack), b)
  BY <1>2, <1>7, NestedParts
<1>9. store[r].target[x] = e /\ store[r].marked[e]
  <2>1. 1 \in DOMAIN Top.left /\ x = Top.left[1]
    BY <1>1, <1>2, <1>4 DEF NextSource
  <2>2. QED
    BY <1>3, <1>5, <1>6, <1>8, <2>1 DEF SoundSources, Listing
<1>10. e \in alive /\ e \in UnderIn(stack)
  <2>1. Clean(store[r], alive, UnderIn(stack))
    BY StoreFacts DEF Kept
  <2>2. QED
    BY <1>9, <2>1 DEF Clean
<1>11. HookFailure(store[r], x) = "none"
  BY <1>9, <1>10, HookFine
<1>12. HasTarget(x, r)
  BY <1>5, <1>9, GraphAssumption DEF HasTarget, GraphAssumption
<1>13. failure' = "none" /\ store' = [store EXCEPT ![r] = Unlinked(store[r], x)] /\ commands' = commands
  BY <1>3, <1>4, <1>6, <1>11, <1>12 DEF UnrelateSource
<1>15. PICK d : d = Unlinked(store[r], x)
  OBVIOUS
<1>16. d \in Indexes /\ d.target = [store[r].target EXCEPT ![x] = NoEntity]
  BY <1>11, <1>15, UnlinkedTarget
<1>17. store'[r] = d /\ \A q \in Relations \ {r} : store'[q] = store[q]
  BY <1>13, <1>15, <1>16, StoreFacts
<1>18. QED
  BY <1>3, <1>4, <1>5, <1>6, <1>9, <1>10, <1>13, <1>16, <1>17

LEMMA FlowUnrelateSource ==
  ASSUME IInv, Nested, Leaving, Flow(store, alive, stack), UnrelateSource
  PROVE  Flow(store', alive, stack')
<1>1. InSources /\ Top.left # <<>> /\ stack' = Passed
  BY DEF UnrelateSource
<1>2. PICK x \in Entities : x = NextSource
  BY <1>1, InSourcesFacts
<1>3. PICK r \in Relations : r = Top.relation
  BY <1>1, InSourcesFacts
<1>4. PICK p : p = Passed
  OBVIOUS
<1>5. PICK T : T = store'
  OBVIOUS
<1>6. /\ \A q \in Relations : DoneIn(p, q) = DoneIn(stack, q)
      /\ \A e, q, y : Awaits(stack, e, q, y) => Awaits(p, e, q, y) \/ (y = x /\ Lists(Top, e, q))
      /\ \A q \in Relations : RanIn(p, q) = RanIn(stack, q)
  BY <1>1, <1>2, <1>4, PassedFlow, PassedSets
<1>7. /\ \A q \in Relations \ {r} : T[q] = store[q]
      /\ T[r].target = [store[r].target EXCEPT ![x] = NoEntity]
      /\ store[r].target \in [Entities -> Entities \cup {NoEntity}]
      /\ x \in alive
  <2>1. IndexTypes(store[r])
    BY StoreFacts
  <2>2. QED
    BY <1>2, <1>3, <1>5, <2>1, UnrelatedIs DEF IndexTypes
<1>8. alive \in SUBSET Entities
  BY DEF IInv, Core
<1>9. \A q \in Relations : \A y \in Entities :
        T[q].target[y] = IF q = r /\ y = x THEN NoEntity ELSE store[q].target[y]
  <2>1. \A y \in Entities : T[r].target[y] = IF y = x THEN NoEntity ELSE store[r].target[y]
    BY <1>7
  <2>2. QED
    BY <1>7, <2>1
<1>10. \A q \in Relations : \A y \in alive : T[q].target[y] \in {store[q].target[y], NoEntity}
  BY <1>8, <1>9
<1>11. \A q \in Relations : \A y \in Entities \ alive : T[q].target[y] = NoEntity
  BY <1>9 DEF Flow, Cleared
<1>12. ASSUME NEW q \in Relations, NEW y \in alive, T[q].target[y] # NoEntity, Awaits(stack, T[q].target[y], q, y)
       PROVE  Awaits(p, T[q].target[y], q, y)
  <2>1. ~(q = r /\ y = x)
    BY <1>8, <1>9, <1>12
  <2>2. ~(y = x /\ Lists(Top, T[q].target[y], q))
    BY <1>3, <2>1 DEF Lists
  <2>3. QED
    BY <1>6, <1>12, <2>2
<1>13. /\ \A q \in Relations : \A y \in alive : T[q].target[y] \in DoneIn(p, q) =>
            \/ T[q].target[y] \in DoneIn(stack, q)
            \/ y \in RanIn(p, q)
            \/ Awaits(p, T[q].target[y], q, y)
       /\ \A q \in Relations : \A y \in alive : y \in RanIn(stack, q) => y \in RanIn(p, q)
       /\ \A q \in Relations : \A y \in alive : store[q].target[y] \in alive \ alive => y \in RanIn(p, q)
  BY <1>6
<1>14. Flow(T, alive, p)
  BY <1>10, <1>11, <1>12, <1>13, FlowStep
<1>15. QED
  BY <1>1, <1>4, <1>5, <1>14

-----------------------------------------------------------------------------
(* What the calls do to the edges when nothing fails.                         *)

LEMMA HookWorks ==
  ASSUME IInv, Flow(store, alive, stack), NEW r \in Relations, NEW x \in alive, x \notin RanIn(stack, r),
         HasTarget(x, r)
  PROVE  HookFailure(store[r], x) = "none"
<1>1. store[r].target[x] \in alive
  BY DEF Flow, Pointing, HasTarget
<1>2. store[r].marked[store[r].target[x]] \/ Placed(store[r], x)
  BY <1>1, StoreFacts DEF Kept, Listed
<1>3. QED
  BY <1>1, <1>2, HookFine

LEMMA KillTargetWorks ==
  ASSUME IInv, Nested, Flow(store, alive, stack), failure = "none", KillTarget
  PROVE  failure' = "none"
<1>1. /\ Killing /\ Top.entity \in alive /\ Top.todo # {} /\ NextHook[1] = "target"
  BY DEF KillTarget
<1>2. /\ stack # <<>> /\ NextHook[2] \in Relations /\ NextHook \in Hooks /\ Top.hook = "kill"
      /\ stack \in Seq(Frames) /\ NextHook \in Top.todo /\ Top.entity \in Entities
  BY <1>1, KillingFacts
<1>3. PICK r \in Relations : r = NextHook[2] /\ NextHook = <<"target", r>>
  BY <1>1, <1>2 DEF Hooks
<1>4. Top.entity \notin RanIn(stack, r)
  <2>1. PICK b : b = Front(stack)
    OBVIOUS
  <2>2. RanIn(stack, r) = RanIn(b, r) \cup {u \in Entities : Kills(Top, u) /\ <<"target", r>> \notin Top.todo}
    BY <1>2, <2>1, Returning
  <2>3. Top.entity \notin UnderIn(b)
    BY <1>2, <2>1, NestedParts
  <2>4. RanIn(b, r) \subseteq UnderIn(b)
    BY DEF RanIn, UnderIn
  <2>5. QED
    BY <1>2, <1>3, <2>2, <2>3, <2>4
<1>5. HasTarget(Top.entity, r) => HookFailure(store[r], Top.entity) = "none"
  BY <1>1, <1>4, HookWorks
<1>6. QED
  BY <1>3, <1>5 DEF KillTarget

LEMMA RelateEffect ==
  ASSUME IInv, Flow(store, alive, stack), NEW e \in Entities, NEW r \in Relations, NEW t \in Entities,
         RelateCall(e, r, t)
  PROVE  /\ failure' = "none"
         /\ \A q \in Relations : \A x \in Entities :
              store'[q].target[x] = IF q = r /\ x = e THEN t ELSE store[q].target[x]
<1>1. /\ stack = <<>> /\ e \in alive /\ t \in alive /\ (r \in Acyclic => ~Reaches(store[r].target, t, e))
      /\ failure' = SetFailure(r, e, t)
      /\ store' = IF failure' = "none" /\ store[r].target[e] # t
                  THEN [store EXCEPT ![r] = Attached(store[r], e, t)] ELSE store
  BY DEF RelateCall, Idle, Returned
<1>2. /\ alive \in SUBSET Entities /\ store[r] \in Indexes /\ IndexTypes(store[r])
      /\ Kept(store[r], alive, {}, {}) /\ (\A u \in Entities : ~store[r].marked[u]) /\ RanIn(stack, r) = {}
  BY <1>1, StoreFacts, Quiet
<1>3. store[r].target[e] = NoEntity \/ HookFailure(store[r], e) = "none"
  BY <1>1, <1>2, HookWorks DEF HasTarget
<1>4. failure' = "none"
  BY <1>1, <1>3 DEF SetFailure
<1>5. CASE store[r].target[e] = t
  <2>1. store' = store
    BY <1>1, <1>5
  <2>2. QED
    BY <1>4, <1>5, <2>1
<1>6. CASE store[r].target[e] # t
  <2>1. PICK d : d = Attached(store[r], e, t)
    OBVIOUS
  <2>2. PICK s \in Indexes : s = store[r]
    BY <1>2
  <2>3. PICK O : O = {}
    OBVIOUS
  <2>4. PICK A \in SUBSET Entities : A = alive
    BY <1>2
  <2>5. store[r].target[e] = NoEntity \/ (store[r].target[e] \in alive /\ Placed(store[r], e))
    BY <1>2, <1>3, HookFine
  <2>6. /\ e \in A \ O /\ t \in A /\ Kept(s, A, O, O) /\ \A u \in Entities : ~s.marked[u]
        /\ s.target[e] = NoEntity \/ (s.target[e] \in A /\ Placed(s, e))
        /\ d = Attached(s, e, t)
    BY <1>1, <1>2, <2>1, <2>2, <2>3, <2>4, <2>5
  <2>7. d \in Indexes /\ Kept(d, A, O, O) /\ d.target = [s.target EXCEPT ![e] = t]
    BY ONLY <2>6, s \in Indexes, A \in SUBSET Entities, KeptAttached
  <2>8. store'[r] = d /\ \A q \in Relations \ {r} : store'[q] = store[q]
    BY <1>1, <1>4, <1>6, <2>1, <2>7, StoreFacts
  <2>9. \A x \in Entities : d.target[x] = IF x = e THEN t ELSE store[r].target[x]
    BY <1>2, <2>2, <2>7 DEF IndexTypes
  <2>10. QED
    BY <1>4, <2>8, <2>9
<1>7. QED
  BY <1>4, <1>5, <1>6

LEMMA UnrelateEffect ==
  ASSUME IInv, Flow(store, alive, stack), NEW e \in Entities, NEW r \in Relations, UnrelateCall(e, r)
  PROVE  /\ failure' = "none"
         /\ \A q \in Relations : \A x \in Entities :
              store'[q].target[x] = IF q = r /\ x = e THEN NoEntity ELSE store[q].target[x]
<1>1. /\ stack = <<>> /\ e \in alive /\ HasTarget(e, r)
      /\ failure' = HookFailure(store[r], e)
      /\ store' = IF failure' = "none" THEN [store EXCEPT ![r] = Unlinked(store[r], e)] ELSE store
  BY DEF UnrelateCall, Idle, Returned
<1>2. IndexTypes(store[r]) /\ RanIn(stack, r) = {}
  BY <1>1, StoreFacts, Quiet
<1>3. failure' = "none" /\ HookFailure(store[r], e) = "none"
  BY <1>1, <1>2, HookWorks
<1>4. PICK d : d = Unlinked(store[r], e)
  OBVIOUS
<1>5. d \in Indexes /\ d.target = [store[r].target EXCEPT ![e] = NoEntity]
  BY <1>3, <1>4, UnlinkedTarget
<1>6. store'[r] = d /\ \A q \in Relations \ {r} : store'[q] = store[q]
  BY <1>1, <1>3, <1>4, <1>5, StoreFacts
<1>7. \A x \in Entities : d.target[x] = IF x = e THEN NoEntity ELSE store[r].target[x]
  BY <1>2, <1>5 DEF IndexTypes
<1>8. QED
  BY <1>3, <1>6, <1>7

LEMMA EditEffect ==
  ASSUME IInv, Flow(store, alive, stack), stack = <<>>, NEW c \in Commands, c.entity \in alive, EdgeCommand(c),
         \A r \in DOMAIN c.edges : r \notin Acyclic /\ c.edges[r] \in alive \cup {NoEntity}
  PROVE  /\ failure' = "none"
         /\ \A r \in Relations : \A x \in Entities : store'[r].target[x] =
              IF x # c.entity THEN store[r].target[x]
              ELSE IF r \in Setting(c) THEN c.edges[r] ELSE KeptEdge(c, r)
<1>1. /\ failure' = Worst({HookFailure(store[r], c.entity) : r \in Gone(c)}
                            \cup {SetFailure(r, c.entity, c.edges[r]) : r \in Setting(c)})
      /\ store' = IF failure' = "none" THEN [r \in Relations |-> Edited(c, r)] ELSE store
  BY EdgeCommandIs
<1>2. \A r \in Relations : RanIn(stack, r) = {}
  BY Quiet
<1>3. CommandTypes(c)
  BY CommandFields
<1>4. \A r \in Gone(c) : HookFailure(store[r], c.entity) = "none"
  BY <1>2, <1>3, HookWorks DEF Gone, CommandTypes
<1>5. ASSUME NEW r \in Setting(c)
      PROVE  SetFailure(r, c.entity, c.edges[r]) = "none"
  <2>1. r \in Relations /\ r \notin Acyclic /\ c.edges[r] \in alive
    BY <1>3, <1>5, EdgesFacts DEF Setting, CommandTypes
  <2>2. store[r].target[c.entity] = NoEntity \/ HookFailure(store[r], c.entity) = "none"
    BY <1>2, <2>1, HookWorks DEF HasTarget
  <2>3. QED
    BY <2>1, <2>2 DEF SetFailure
<1>6. failure' = "none"
  BY <1>1, <1>4, <1>5 DEF Worst
<1>7. ASSUME NEW r \in Relations, NEW x \in Entities
      PROVE  store'[r].target[x] =
               IF x # c.entity THEN store[r].target[x]
               ELSE IF r \in Setting(c) THEN c.edges[r] ELSE KeptEdge(c, r)
  <2>1. PICK d : d = Edited(c, r)
    OBVIOUS
  <2>2. PICK v : v = IF r \in Setting(c) THEN c.edges[r] ELSE KeptEdge(c, r)
    OBVIOUS
  <2>3. /\ d \in Indexes /\ Kept(d, alive, {}, {})
        /\ d.target = [store[r].target EXCEPT ![c.entity] =
                         IF r \in Setting(c) THEN c.edges[r] ELSE KeptEdge(c, r)]
        /\ r \in Setting(c) => c.edges[r] \in alive
    BY <1>6, <2>1, EditedKept
  <2>4. d.target = [store[r].target EXCEPT ![c.entity] = v]
    BY <2>2, <2>3
  <2>5. store'[r] = d
    BY <1>1, <1>6, <2>1
  <2>6. store[r].target \in [Entities -> Entities \cup {NoEntity}]
    BY StoreFacts DEF IndexTypes
  <2>7. d.target[x] = IF x = c.entity THEN v ELSE store[r].target[x]
    BY <2>4, <2>6
  <2>8. QED
    BY <2>2, <2>5, <2>7
<1>8. QED
  BY <1>6, <1>7

(* The promised graph after a call.                                           *)
LEMMA RelateIs ==
  ASSUME NEW g \in Graphs, NEW e \in Entities, NEW r \in Relations, NEW t, NEW h, h = Relate(g, e, r, t)
  PROVE  /\ h.alive = g.alive
         /\ \A q \in Relations : \A x \in Entities :
              h.target[q][x] = IF q = r /\ x = e THEN t ELSE g.target[q][x]
  BY DEF Relate, Graphs

LEMMA KillIs ==
  ASSUME NEW g \in Graphs, NEW e, NEW h, h = Kill(g, e), NEW D, D = Deleted(g, e)
  PROVE  /\ h.alive = g.alive \ D
         /\ \A q \in Relations : \A x \in Entities :
              h.target[q][x] = IF x \in D \/ g.target[q][x] \in D THEN NoEntity ELSE g.target[q][x]
  BY DEF Kill

-----------------------------------------------------------------------------
(* The commands that wait, as a set.                                          *)

Distinct(cs) == \A i, j \in DOMAIN cs : cs[i].entity = cs[j].entity => i = j

LEMMA RecordedSet ==
  ASSUME NEW cs \in Seq(Commands), NEW c \in Commands, NEW rs, rs = Recorded(cs, c),
         NEW old, old = CommandOf(cs, c.entity)
  PROVE  /\ c \in ToSet(rs) /\ ToSet(rs) \subseteq ToSet(cs) \cup {c} /\ ToSet(cs) \ {old} \subseteq ToSet(rs)
         /\ \/ old \in ToSet(cs)
            \/ old = NoCommand(c.entity) /\ \A d \in ToSet(cs) : d.entity # c.entity
         /\ Distinct(cs) => /\ Distinct(rs)
                            /\ \A d \in ToSet(rs) : d.entity = c.entity => d = c
                            /\ \A d \in ToSet(cs) : d.entity = c.entity => d = old
<1>1. PICK e \in Entities : e = c.entity
  BY CommandFields DEF CommandTypes
<1>2. /\ PlaceOf(cs, e) \in 1..(Len(cs) + 1) /\ Len(cs) \in Nat /\ DOMAIN cs = 1..Len(cs)
      /\ PlaceOf(cs, e) \in DOMAIN cs => cs[PlaceOf(cs, e)].entity = e
      /\ PlaceOf(cs, e) \notin DOMAIN cs =>
           PlaceOf(cs, e) = Len(cs) + 1 /\ \A i \in DOMAIN cs : cs[i].entity # e
  BY PlaceIs
<1>3. PICK n \in Nat : n = Len(cs)
  OBVIOUS
<1>4. PICK k \in 1..(n + 1) : k = PlaceOf(cs, e)
  BY <1>2, <1>3
<1>5. PICK m \in Commands : m = NoCommand(e)
  BY NoCommandTyped
<1>6. old = Append(cs, m)[k]
  BY <1>1, <1>4, <1>5 DEF CommandOf
<1>7. CASE k \in DOMAIN cs
  <2>1. old = cs[k] /\ cs[k].entity = e /\ k \in 1..n /\ DOMAIN cs = 1..n
    BY <1>2, <1>3, <1>4, <1>6, <1>7
  <2>2. rs = [cs EXCEPT ![k] = c]
    BY <1>1, <1>4, <1>7 DEF Recorded
  <2>3. DOMAIN rs = 1..n /\ rs[k] = c /\ \A i \in 1..n : i # k => rs[i] = cs[i]
    BY <2>1, <2>2
  <2>4. c \in ToSet(rs) /\ ToSet(rs) \subseteq ToSet(cs) \cup {c} /\ ToSet(cs) \ {old} \subseteq ToSet(rs) /\ old \in ToSet(cs)
    BY <2>1, <2>3 DEF ToSet
  <2>5. ASSUME Distinct(cs)
        PROVE  /\ \A d \in ToSet(rs) : d.entity = c.entity => d = c
               /\ \A d \in ToSet(cs) : d.entity = c.entity => d = old
    <3>1. \A i \in 1..n : cs[i].entity = e => i = k
      BY <2>1, <2>5 DEF Distinct
    <3>2. \A i \in 1..n : rs[i].entity = e => i = k
      BY <2>3, <3>1
    <3>3. QED
      BY <1>1, <2>1, <2>3, <3>1, <3>2 DEF ToSet
  <2>6. ASSUME Distinct(cs)
        PROVE  Distinct(rs)
    <3>1. \A i \in 1..n : rs[i].entity = cs[i].entity
      BY <1>1, <2>1, <2>3
    <3>2. QED
      BY <2>1, <2>3, <2>6, <3>1 DEF Distinct
  <2>7. QED
    BY <2>4, <2>5, <2>6
<1>8. CASE k \notin DOMAIN cs
  <2>1. old = m /\ k = n + 1 /\ DOMAIN cs = 1..n /\ \A i \in 1..n : cs[i].entity # e
    BY <1>2, <1>3, <1>4, <1>6, <1>8
  <2>2. rs = Append(cs, c)
    BY <1>1, <1>4, <1>8 DEF Recorded
  <2>3. DOMAIN rs = 1..(n + 1) /\ rs[n + 1] = c /\ \A i \in 1..n : rs[i] = cs[i]
    BY <1>3, <2>2
  <2>4. \A i \in 1..(n + 1) : i = n + 1 \/ i \in 1..n
    OBVIOUS
  <2>5. c \in ToSet(rs) /\ ToSet(rs) \subseteq ToSet(cs) \cup {c} /\ ToSet(cs) \subseteq ToSet(rs)
    <3>1. n + 1 \in DOMAIN rs /\ \A i \in 1..n : i \in DOMAIN rs
      BY <2>3
    <3>2. QED
      BY <2>1, <2>3, <2>4, <3>1 DEF ToSet
  <2>6. \A d \in ToSet(cs) : d.entity # c.entity
    BY <1>1, <2>1 DEF ToSet
  <2>7. Distinct(cs) => Distinct(rs)
    BY <1>1, <2>1, <2>3, <2>4 DEF Distinct
  <2>8. QED
    BY <1>1, <1>5, <2>1, <2>5, <2>6, <2>7
<1>9. QED
  BY <1>7, <1>8

Waits == ToSet(batch) \cup ToSet(commands)

LEMMA WaitsTyped ==
  ASSUME IInv
  PROVE  Waits \in SUBSET Commands
<1>1. \A cs \in Seq(Commands) : ToSet(cs) \in SUBSET Commands
  BY DEF ToSet
<1>2. batch \in Seq(Commands) /\ commands \in Seq(Commands)
  BY DEF IInv, Core
<1>3. QED
  BY <1>1, <1>2 DEF Waits

LEMMA HeadTaken ==
  ASSUME IInv, batch # <<>>
  PROVE  ToSet(batch) = {Head(batch)} \cup ToSet(Tail(batch))
<1>1. PICK s \in Seq(Commands) : s = batch /\ s # <<>>
  BY DEF IInv, Core
<1>2. PICK n \in Nat \ {0} : n = Len(s)
  BY <1>1
<1>3. /\ DOMAIN s = 1..n /\ Head(s) = s[1] /\ DOMAIN Tail(s) = 1..(n - 1) /\ 1 \in 1..n
      /\ \A i \in 1..(n - 1) : i + 1 \in 1..n /\ Tail(s)[i] = s[i + 1]
      /\ \A i \in 1..n : i = 1 \/ (i - 1 \in 1..(n - 1) /\ s[i] = Tail(s)[i - 1])
  BY <1>1, <1>2
<1>4. ToSet(s) = {Head(s)} \cup ToSet(Tail(s))
  <2>1. ASSUME NEW x \in ToSet(s), x # Head(s)
        PROVE  x \in ToSet(Tail(s))
    <3>1. PICK i \in 1..n : x = s[i]
      BY <1>3 DEF ToSet
    <3>2. i - 1 \in DOMAIN Tail(s) /\ x = Tail(s)[i - 1]
      BY <1>3, <2>1, <3>1
    <3>3. QED
      BY <3>2 DEF ToSet
  <2>2. \A x \in ToSet(Tail(s)) : x \in ToSet(s)
    BY <1>3 DEF ToSet
  <2>3. Head(s) \in ToSet(s)
    BY <1>3 DEF ToSet
  <2>4. QED
    BY <2>1, <2>2, <2>3
<1>5. QED
  BY <1>1, <1>4

(* Removals queued for an entity are added to what waits for it.              *)
QueuedAs(cs, rs, e, m, c, old) ==
  /\ c.entity = e /\ c.kill = old.kill /\ c.edges = old.edges /\ c.removes = old.removes \cup m
  /\ c \in ToSet(rs) /\ ToSet(rs) \subseteq ToSet(cs) \cup {c} /\ ToSet(cs) \ {old} \subseteq ToSet(rs)
  /\ old.entity = e
  /\ old \in ToSet(cs) \/ (~old.kill /\ old.removes = {} /\ DOMAIN old.edges = {})
LEMMA QueuedSet ==
  ASSUME NEW cs \in Seq(Commands), NEW e \in Entities, NEW m \in SUBSET Relations, m # {},
         NEW qs, qs = Queued(cs, e, m)
  PROVE  \E c \in Commands, old \in Commands : QueuedAs(cs, qs, e, m, c, old)
<1>1. PICK old \in Commands : old = CommandOf(cs, e) /\ old.entity = e
  BY CommandOfIs
<1>2. PICK k \in BOOLEAN, q \in SUBSET Relations, d \in Edges :
        old = [entity |-> e, kill |-> k, removes |-> q, edges |-> d]
  BY <1>1, CommandFields DEF CommandTypes
<1>3. PICK w \in SUBSET Relations : w = q \cup m
  OBVIOUS
<1>4. PICK c \in Commands : c = [entity |-> e, kill |-> k, removes |-> w, edges |-> d]
  BY CommandFrom
<1>5. [old EXCEPT !.removes = @ \cup m] = [old EXCEPT !.removes = w]
  BY <1>2, <1>3
<1>6. [old EXCEPT !.removes = w] = c
  BY <1>2, <1>4
<1>7. Queued(cs, e, m) = Recorded(cs, c)
  BY <1>1, <1>5, <1>6 DEF Queued
<1>8. c.entity = e /\ c.kill = old.kill /\ c.edges = old.edges /\ c.removes = old.removes \cup m
  BY <1>2, <1>3, <1>4
<1>9. PICK rs : rs = Recorded(cs, c)
  OBVIOUS
<1>10. /\ c \in ToSet(rs) /\ ToSet(rs) \subseteq ToSet(cs) \cup {c} /\ ToSet(cs) \ {old} \subseteq ToSet(rs)
       /\ \/ old \in ToSet(cs)
          \/ old = NoCommand(c.entity) /\ \A y \in ToSet(cs) : y.entity # c.entity
  BY <1>1, <1>8, <1>9, RecordedSet
<1>11. old = NoCommand(c.entity) => ~old.kill /\ old.removes = {} /\ DOMAIN old.edges = {}
  BY <1>8, NoCommandTyped
<1>12. QueuedAs(cs, qs, e, m, c, old)
  BY <1>1, <1>7, <1>8, <1>9, <1>10, <1>11 DEF QueuedAs
<1>13. QED
  BY <1>1, <1>4, <1>12

-----------------------------------------------------------------------------
(* What was promised, and what is still due.                                  *)

(* Those whose kill has begun or waits                                        *)
Dues(A, st, W) == UnderIn(st) \cup {x \in A : \E c \in W : c.entity = x /\ c.kill}
Closed(S, A, D) == \A r \in Relations : \A x \in A : OnDelete[r] = "delete" /\ S[r].target[x] \in D => x \in D
Least(S, A, D, U) == \A C \in SUBSET Entities : U \subseteq C /\ Closed(S, A, C) => D \subseteq C
(* The living who are dead in the promise are those whom the kills due will    *)
(* take along, and nobody else.                                               *)
Doom(S, A, P, U) ==
  /\ P.alive \subseteq A /\ U \subseteq A \ P.alive
  /\ Closed(S, A, A \ P.alive) /\ Least(S, A, A \ P.alive, U)

Plain(W) ==
  \A c \in W : /\ DOMAIN c.edges \subseteq Deferrable /\ c.removes \subseteq Deferrable
               /\ c.kill => DeferKills = "unlinked"
(* No edge that waits leads to one who will be dead                            *)
Aimed(P, W) == \A c \in W : \A r \in DOMAIN c.edges : c.edges[r] \in P.alive \cup {NoEntity}
(* nor does an edge that a kill would only remove.                            *)
Apart(S, A, P) ==
  \A r \in Relations : \A x \in A : OnDelete[r] = "remove" => S[r].target[x] \notin A \ P.alive

(* A promised edge is the one that waits for its source, and without one the   *)
(* edge that is there, unless its target is to die.                            *)
Silent(W, x, r) == \A c \in W : c.entity = x => r \notin DOMAIN c.edges \cup c.removes
Spoken(P, W) ==
  \A c \in W : c.entity \in P.alive =>
    /\ \A r \in DOMAIN c.edges : P.target[r][c.entity] = c.edges[r]
    /\ \A r \in c.removes \ DOMAIN c.edges : P.target[r][c.entity] = NoEntity
Left(S, A, P, W) ==
  \A r \in Relations : \A x \in P.alive : Silent(W, x, r) =>
    P.target[r][x] = IF S[r].target[x] \in A \ P.alive THEN NoEntity ELSE S[r].target[x]
Gravestones(P) == \A r \in Relations : \A x \in Entities \ P.alive : P.target[r][x] = NoEntity

Pact(S, A, P, U, W) ==
  /\ Doom(S, A, P, U) /\ Plain(W) /\ Aimed(P, W)
  /\ Spoken(P, W) /\ Left(S, A, P, W) /\ Gravestones(P)

(* More may be due, and what waited for the dead may go.                       *)
LEMMA PactSame ==
  ASSUME NEW S, NEW A, NEW P, NEW U, NEW W, Pact(S, A, P, U, W),
         NEW T, NEW V, NEW Z, \A r \in Relations : \A x \in A : T[r].target[x] = S[r].target[x],
         U \subseteq V, V \subseteq A \ P.alive, Z \subseteq W, \A c \in W : c \in Z \/ c.entity \notin P.alive
  PROVE  Pact(T, A, P, V, Z)
<1>1. Doom(S, A, P, U) /\ Plain(W) /\ Aimed(P, W) /\ Spoken(P, W) /\ Left(S, A, P, W) /\ Gravestones(P)
  BY DEF Pact
<1>2. \A D : Closed(S, A, D) <=> Closed(T, A, D)
  BY DEF Closed
<1>3. Doom(T, A, P, V)
  BY <1>1, <1>2 DEF Doom, Least
<1>4. Plain(Z) /\ Aimed(P, Z) /\ Spoken(P, Z)
  BY <1>1 DEF Plain, Aimed, Spoken
<1>5. Left(T, A, P, Z)
  <2>1. SUFFICES ASSUME NEW r \in Relations, NEW x \in P.alive, Silent(Z, x, r)
                 PROVE  P.target[r][x] = IF T[r].target[x] \in A \ P.alive THEN NoEntity ELSE T[r].target[x]
    BY DEF Left
  <2>2. Silent(W, x, r)
    BY <2>1 DEF Silent
  <2>3. T[r].target[x] = S[r].target[x]
    BY <1>1, <2>1 DEF Doom
  <2>4. QED
    BY <1>1, <2>2, <2>3 DEF Left
<1>6. QED
  BY <1>1, <1>3, <1>4, <1>5 DEF Pact

(* One of the doomed dies.                                                    *)
LEMMA PactRow ==
  ASSUME NEW S, NEW A \in SUBSET Entities, NEW P, NEW U, NEW W, Pact(S, A, P, U, W),
         NEW e \in U, NEW B, B = A \ {e}, NEW T, NEW V,
         \A r \in Relations : \A x \in B : T[r].target[x] = S[r].target[x],
         U \subseteq V \cup {e}, V \subseteq U \ {e},
         \A r \in Relations : \A x \in B : T[r].target[x] = e => x \in V
  PROVE  Pact(T, B, P, V, W)
<1>1. Doom(S, A, P, U) /\ Plain(W) /\ Aimed(P, W) /\ Spoken(P, W) /\ Left(S, A, P, W) /\ Gravestones(P)
  BY DEF Pact
<1>2. /\ P.alive \subseteq A /\ U \subseteq A \ P.alive /\ Closed(S, A, A \ P.alive)
      /\ Least(S, A, A \ P.alive, U)
  BY <1>1 DEF Doom
<1>3. P.alive \subseteq B /\ V \subseteq B \ P.alive /\ B \ P.alive \subseteq A \ P.alive
  BY <1>2
<1>4. Closed(T, B, B \ P.alive)
  BY <1>2 DEF Closed
<1>5. ASSUME NEW C \in SUBSET Entities, V \subseteq C, Closed(T, B, C)
      PROVE  B \ P.alive \subseteq C
  <2>1. PICK D \in SUBSET Entities : D = C \cup {e}
    BY <1>2
  <2>2. U \subseteq D
    BY <1>5, <2>1
  <2>3. Closed(S, A, D)
    <3>1. SUFFICES ASSUME NEW r \in Relations, NEW x \in A, OnDelete[r] = "delete", S[r].target[x] \in D, x # e
                   PROVE  x \in C
      BY <2>1 DEF Closed
    <3>2. x \in B /\ T[r].target[x] \in C \cup {e}
      BY <2>1, <3>1
    <3>3. QED
      BY <1>5, <3>1, <3>2 DEF Closed
  <2>4. A \ P.alive \subseteq D
    BY <1>2, <2>2, <2>3 DEF Least
  <2>5. QED
    BY <2>1, <2>4
<1>6. Doom(T, B, P, V)
  BY <1>3, <1>4, <1>5 DEF Doom, Least
<1>7. Left(T, B, P, W)
  <2>1. SUFFICES ASSUME NEW r \in Relations, NEW x \in P.alive, Silent(W, x, r)
                 PROVE  P.target[r][x] = IF T[r].target[x] \in B \ P.alive THEN NoEntity ELSE T[r].target[x]
    BY DEF Left
  <2>2. P.target[r][x] = IF S[r].target[x] \in A \ P.alive THEN NoEntity ELSE S[r].target[x]
    BY <1>1, <2>1 DEF Left
  <2>3. x \in B /\ x \notin V
    BY <1>3
  <2>4. T[r].target[x] = S[r].target[x] /\ T[r].target[x] # e
    BY <2>3
  <2>5. QED
    BY <2>2, <2>4
<1>8. QED
  BY <1>1, <1>6, <1>7 DEF Pact

(* An edge into one of the doomed is removed.                                 *)
FreedOf(S, T, A, D, r, e) ==
  /\ S[r].target[e] \in D
  /\ \A q \in Relations : \A x \in A : T[q].target[x] = IF q = r /\ x = e THEN NoEntity ELSE S[q].target[x]
LEMMA PactLoose ==
  ASSUME NEW S, NEW A, NEW P, NEW U, NEW W, Pact(S, A, P, U, W),
         NEW T, NEW e, NEW r \in Relations, OnDelete[r] = "remove", FreedOf(S, T, A, A \ P.alive, r, e)
  PROVE  Pact(T, A, P, U, W)
<1>1. /\ S[r].target[e] \in A \ P.alive
      /\ \A q \in Relations : \A x \in A : T[q].target[x] = IF q = r /\ x = e THEN NoEntity ELSE S[q].target[x]
  BY DEF FreedOf
<1>2. Doom(S, A, P, U) /\ Plain(W) /\ Aimed(P, W) /\ Spoken(P, W) /\ Left(S, A, P, W) /\ Gravestones(P)
  BY DEF Pact
<1>3. \A D : Closed(S, A, D) <=> Closed(T, A, D)
  BY <1>1 DEF Closed
<1>4. Doom(T, A, P, U)
  BY <1>2, <1>3 DEF Doom, Least
<1>5. Left(T, A, P, W)
  <2>1. SUFFICES ASSUME NEW q \in Relations, NEW x \in P.alive, Silent(W, x, q)
                 PROVE  P.target[q][x] = IF T[q].target[x] \in A \ P.alive THEN NoEntity ELSE T[q].target[x]
    BY DEF Left
  <2>2. P.target[q][x] = IF S[q].target[x] \in A \ P.alive THEN NoEntity ELSE S[q].target[x]
    BY <1>2, <2>1 DEF Left
  <2>3. T[q].target[x] = IF q = r /\ x = e THEN NoEntity ELSE S[q].target[x]
    BY <1>1, <1>2, <2>1 DEF Doom
  <2>4. QED
    BY <1>1, <2>2, <2>3
<1>6. QED
  BY <1>2, <1>4, <1>5 DEF Pact

LEMMA NobodyDoomed ==
  ASSUME NEW S, NEW A, NEW P, NEW W, Pact(S, A, P, {}, W)
  PROVE  A \subseteq P.alive /\ P.alive = A
<1>1. Closed(S, A, {}) /\ {} \in SUBSET Entities
  BY DEF Closed
<1>2. P.alive \subseteq A /\ Least(S, A, A \ P.alive, {})
  BY DEF Pact, Doom
<1>3. A \ P.alive \subseteq {}
  BY <1>1, <1>2 DEF Least
<1>4. QED
  BY <1>2, <1>3

(* A call that changes one edge at once, when nothing waits.                   *)
OneEdge(S, T, r, e, t) ==
  \A q \in Relations : \A x \in Entities : T[q].target[x] = IF q = r /\ x = e THEN t ELSE S[q].target[x]
OnePromise(P, Q, r, e, t) ==
  /\ Q.alive = P.alive
  /\ \A q \in Relations : \A x \in Entities : Q.target[q][x] = IF q = r /\ x = e THEN t ELSE P.target[q][x]
LEMMA PactCall ==
  ASSUME NEW S, NEW A \in SUBSET Entities, NEW P, Pact(S, A, P, {}, {}),
         NEW T, NEW Q, NEW e \in A, NEW r \in Relations, NEW t \in A \cup {NoEntity},
         OneEdge(S, T, r, e, t), OnePromise(P, Q, r, e, t)
  PROVE  Pact(T, A, Q, {}, {})
<1>1. Left(S, A, P, {}) /\ Gravestones(P)
  BY DEF Pact
<1>2. P.alive = A /\ Q.alive = A
  BY NobodyDoomed DEF OnePromise
<1>3. Doom(T, A, Q, {})
  BY <1>2 DEF Doom, Closed, Least
<1>4. Left(T, A, Q, {})
  BY <1>1, <1>2 DEF Left, Silent, OneEdge, OnePromise
<1>5. Gravestones(Q)
  BY <1>1, <1>2 DEF Gravestones, OnePromise
<1>6. QED
  BY <1>3, <1>4, <1>5 DEF Pact, Plain, Aimed, Spoken

(* A call that records one edge of e: c takes the place of what waited for e.  *)
RecordsEdge(c, old, e, r, t) ==
  /\ c.entity = e /\ ~c.kill /\ c.removes = old.removes
  /\ DOMAIN c.edges = DOMAIN old.edges \cup {r} /\ c.edges[r] = t
  /\ \A q \in DOMAIN old.edges \ {r} : c.edges[q] = old.edges[q]
Replaces(W, Z, c, old, e) ==
  /\ (old \in W /\ old.entity = e) \/ (old.removes = {} /\ DOMAIN old.edges = {})
  /\ \A d \in W : d.entity = e => d = old
  /\ c \in Z
  /\ \A d \in Z : d = c \/ (d \in W /\ d.entity # e)
  /\ \A d \in W : d.entity = e \/ d \in Z
LEMMA PactRecord ==
  ASSUME NEW S, NEW A \in SUBSET Entities, NEW P, NEW U, NEW W, Pact(S, A, P, U, W),
         NEW Q, NEW e \in P.alive, NEW r \in Deferrable, NEW t \in P.alive \cup {NoEntity},
         NEW c, NEW old, NEW Z, Deferrable \subseteq Relations,
         RecordsEdge(c, old, e, r, t), Replaces(W, Z, c, old, e), OnePromise(P, Q, r, e, t)
  PROVE  Pact(S, A, Q, U, Z)
<1> USE DEF RecordsEdge, Replaces, OnePromise
<1>1. Doom(S, A, P, U) /\ Plain(W) /\ Aimed(P, W) /\ Spoken(P, W) /\ Left(S, A, P, W) /\ Gravestones(P)
  BY DEF Pact
<1>2. P.alive \subseteq A /\ A \subseteq Entities
  BY <1>1 DEF Doom
<1>3. Doom(S, A, Q, U)
  BY <1>1 DEF Doom
<1>4. old.removes \subseteq Deferrable /\ DOMAIN old.edges \subseteq Deferrable
  BY <1>1 DEF Plain
<1>5. Plain(Z)
  BY <1>1, <1>4 DEF Plain
<1>6. Aimed(Q, Z)
  <2>1. \A q \in DOMAIN old.edges : old.edges[q] \in P.alive \cup {NoEntity}
    BY <1>1 DEF Aimed
  <2>2. \A q \in DOMAIN c.edges : c.edges[q] \in P.alive \cup {NoEntity}
    BY <2>1
  <2>3. QED
    BY <1>1, <2>2 DEF Aimed
<1>7. Spoken(Q, Z)
  <2>1. SUFFICES ASSUME NEW d \in Z, d.entity \in Q.alive
                 PROVE  /\ \A q \in DOMAIN d.edges : Q.target[q][d.entity] = d.edges[q]
                        /\ \A q \in d.removes \ DOMAIN d.edges : Q.target[q][d.entity] = NoEntity
    BY DEF Spoken
  <2>2. CASE d = c
    <3>1. ASSUME NEW q \in DOMAIN old.edges \ {r}
          PROVE  Q.target[q][e] = c.edges[q]
      <4>1. old \in W /\ old.entity = e /\ q \in Relations
        BY <1>4, <3>1
      <4>2. P.target[q][e] = old.edges[q]
        BY <1>1, <3>1, <4>1 DEF Spoken
      <4>3. QED
        BY <1>2, <3>1, <4>1, <4>2
    <3>2. Q.target[r][e] = c.edges[r]
      BY <1>2
    <3>3. ASSUME NEW q \in old.removes, q \notin DOMAIN old.edges, q # r
          PROVE  Q.target[q][e] = NoEntity
      <4>1. old \in W /\ old.entity = e /\ q \in Relations
        BY <1>4, <3>3
      <4>2. P.target[q][e] = NoEntity
        BY <1>1, <3>3, <4>1 DEF Spoken
      <4>3. QED
        BY <1>2, <3>3, <4>1, <4>2
    <3>4. QED
      BY <2>2, <3>1, <3>2, <3>3
  <2>3. CASE d # c
    <3>1. d \in W /\ d.entity # e /\ d.entity \in P.alive /\ d.entity \in Entities
      BY <1>2, <2>1, <2>3
    <3>2. DOMAIN d.edges \subseteq Relations /\ d.removes \subseteq Relations
      BY <1>1, <3>1 DEF Plain
    <3>3. \A q \in Relations : Q.target[q][d.entity] = P.target[q][d.entity]
      BY <3>1
    <3>4. QED
      BY <1>1, <3>1, <3>2, <3>3 DEF Spoken
  <2>4. QED
    BY <2>2, <2>3
<1>8. Left(S, A, Q, Z)
  <2>1. SUFFICES ASSUME NEW q \in Relations, NEW x \in P.alive, Silent(Z, x, q)
                 PROVE  Q.target[q][x] = IF S[q].target[x] \in A \ P.alive THEN NoEntity ELSE S[q].target[x]
    BY DEF Left
  <2>2. ~(q = r /\ x = e)
    BY <2>1 DEF Silent
  <2>3. Silent(W, x, q)
    <3>1. SUFFICES ASSUME NEW d \in W, d.entity = x
                   PROVE  q \notin DOMAIN d.edges \cup d.removes
      BY DEF Silent
    <3>2. CASE x = e
      <4>1. q \notin DOMAIN c.edges \cup c.removes
        BY <2>1, <3>2 DEF Silent
      <4>2. QED
        BY <3>1, <3>2, <4>1
    <3>3. CASE x # e
      BY <2>1, <3>1, <3>3 DEF Silent
    <3>4. QED
      BY <3>2, <3>3
  <2>4. Q.target[q][x] = P.target[q][x]
    BY <1>2, <2>2
  <2>5. QED
    BY <1>1, <2>3, <2>4 DEF Left
<1>9. Gravestones(Q)
  BY <1>1 DEF Gravestones
<1>10. QED
  BY <1>3, <1>5, <1>6, <1>7, <1>8, <1>9 DEF Pact

(* A kill dooms those whom its entity takes along, and nobody else.            *)
LEMMA PactKill ==
  ASSUME NEW S, NEW A \in SUBSET Entities, NEW P \in Graphs, NEW U, NEW W, Pact(S, A, P, U, W),
         NEW e \in P.alive, NEW D, D = Deleted(P, e), NEW Q, Q = Kill(P, e), NEW V, NEW Z,
         \A r \in Relations : OnDelete[r] = "delete" => \A x \in P.alive : Silent(W, x, r),
         \A c \in W : \A r \in DOMAIN c.edges : c.edges[r] \notin D,
         U \ {e} \subseteq V, e \in V, V \subseteq U \cup {e},
         \A c \in Z : c \in W \/ (c.entity = e /\ DOMAIN c.edges = {}),
         Plain(Z),
         \A c \in W : c.entity = e \/ c \in Z
  PROVE  Pact(S, A, Q, V, Z)
<1>1. Doom(S, A, P, U) /\ Plain(W) /\ Aimed(P, W) /\ Spoken(P, W) /\ Left(S, A, P, W) /\ Gravestones(P)
  BY DEF Pact
<1>2. /\ P.alive \subseteq A /\ U \subseteq A \ P.alive /\ Closed(S, A, A \ P.alive)
      /\ Least(S, A, A \ P.alive, U)
  BY <1>1 DEF Doom
<1>3. e \in Entities /\ NoEntity \notin Entities
  BY <1>2, GraphAssumption DEF GraphAssumption
<1>4. /\ D \in SUBSET Entities /\ e \in D /\ D \subseteq P.alive /\ Owned(P, D) = D
      /\ \A C \in SUBSET Entities : e \in C /\ Owned(P, C) \subseteq C => D \subseteq C
  BY <1>3, DeletedIs
<1>5. /\ Q.alive = P.alive \ D
      /\ \A q \in Relations : \A x \in Entities :
           Q.target[q][x] = IF x \in D \/ P.target[q][x] \in D THEN NoEntity ELSE P.target[q][x]
  BY KillIs
<1>6. A \ Q.alive = (A \ P.alive) \cup D
  BY <1>2, <1>4, <1>5
<1>7. ASSUME NEW r \in Relations, OnDelete[r] = "delete", NEW x \in P.alive
      PROVE  P.target[r][x] = S[r].target[x] /\ S[r].target[x] \notin A \ P.alive
  <2>1. S[r].target[x] \notin A \ P.alive
    BY <1>2, <1>7 DEF Closed
  <2>2. QED
    BY <1>1, <1>7, <2>1 DEF Left
<1>8. Closed(S, A, (A \ P.alive) \cup D)
  <2>1. SUFFICES ASSUME NEW r \in Relations, NEW x \in A, OnDelete[r] = "delete",
                        S[r].target[x] \in (A \ P.alive) \cup D, x \in P.alive
                 PROVE  x \in D
    BY DEF Closed
  <2>2. P.target[r][x] \in D
    BY <1>7, <2>1
  <2>3. x \in Owned(P, D)
    BY <2>1, <2>2 DEF Owned
  <2>4. QED
    BY <1>4, <2>3
<1>9. ASSUME NEW C \in SUBSET Entities, V \subseteq C, Closed(S, A, C)
      PROVE  (A \ P.alive) \cup D \subseteq C
  <2>1. U \subseteq C /\ e \in C
    BY <1>9
  <2>2. A \ P.alive \subseteq C
    BY <1>2, <1>9, <2>1 DEF Least
  <2>3. Owned(P, C) \subseteq C
    <3>1. SUFFICES ASSUME NEW x \in P.alive, NEW r \in Relations, OnDelete[r] = "delete", P.target[r][x] \in C
                   PROVE  x \in C
      BY DEF Owned
    <3>2. S[r].target[x] \in C /\ x \in A
      BY <1>2, <1>7, <3>1
    <3>3. QED
      BY <1>9, <3>1, <3>2 DEF Closed
  <2>4. QED
    BY <1>4, <2>1, <2>2, <2>3
<1>10. Doom(S, A, Q, V)
  <2>1. Q.alive \subseteq A /\ V \subseteq (A \ P.alive) \cup D
    BY <1>2, <1>4, <1>5
  <2>2. QED
    BY <1>6, <1>8, <1>9, <2>1 DEF Doom, Least
<1>11. Aimed(Q, Z)
  BY <1>1, <1>5 DEF Aimed
<1>12. Spoken(Q, Z)
  <2>1. SUFFICES ASSUME NEW c \in Z, c.entity \in Q.alive
                 PROVE  /\ \A q \in DOMAIN c.edges : Q.target[q][c.entity] = c.edges[q]
                        /\ \A q \in c.removes \ DOMAIN c.edges : Q.target[q][c.entity] = NoEntity
    BY DEF Spoken
  <2>2. c \in W /\ c.entity \in P.alive /\ c.entity \notin D /\ c.entity \in Entities
    BY <1>2, <1>4, <1>5, <2>1
  <2>3. DOMAIN c.edges \subseteq Relations /\ c.removes \subseteq Relations
    BY <1>1, <2>2, RelationsAssumption DEF Plain, RelationsAssumption
  <2>4. \A q \in Relations : Q.target[q][c.entity] =
          IF P.target[q][c.entity] \in D THEN NoEntity ELSE P.target[q][c.entity]
    BY <1>5, <2>2
  <2>5. \A q \in DOMAIN c.edges : P.target[q][c.entity] = c.edges[q] /\ c.edges[q] \notin D
    BY <1>1, <2>2 DEF Spoken
  <2>6. \A q \in c.removes \ DOMAIN c.edges : P.target[q][c.entity] = NoEntity
    BY <1>1, <2>2 DEF Spoken
  <2>7. QED
    BY <2>3, <2>4, <2>5, <2>6
<1>13. Left(S, A, Q, Z)
  <2>1. SUFFICES ASSUME NEW q \in Relations, NEW x \in Q.alive, Silent(Z, x, q)
                 PROVE  Q.target[q][x] = IF S[q].target[x] \in A \ Q.alive THEN NoEntity ELSE S[q].target[x]
    BY DEF Left
  <2>2. x \in P.alive /\ x \notin D /\ x # e /\ x \in Entities
    BY <1>2, <1>4, <1>5, <2>1
  <2>3. Silent(W, x, q)
    BY <2>1, <2>2 DEF Silent
  <2>4. P.target[q][x] = IF S[q].target[x] \in A \ P.alive THEN NoEntity ELSE S[q].target[x]
    BY <1>1, <2>2, <2>3 DEF Left
  <2>5. Q.target[q][x] = IF P.target[q][x] \in D THEN NoEntity ELSE P.target[q][x]
    BY <1>5, <2>2
  <2>6. NoEntity \notin D
    BY <1>3, <1>4
  <2>7. QED
    BY <1>6, <2>4, <2>5, <2>6
<1>14. Gravestones(Q)
  BY <1>1, <1>5 DEF Gravestones
<1>15. QED
  BY <1>10, <1>11, <1>12, <1>13, <1>14 DEF Pact

(* The flush of c, which leaves the removals of m to another command: whatever *)
(* else waited still waits, nothing new does.                                  *)
Follows(W, Z, c, m) ==
  /\ \A d \in Z :
       /\ \A r \in DOMAIN d.edges : \E o \in W : o.entity = d.entity /\ r \in DOMAIN o.edges /\ o.edges[r] = d.edges[r]
       /\ \A r \in d.removes \ DOMAIN d.edges :
            \/ d.entity = c.entity /\ r \in m
            \/ \E o \in W : o.entity = d.entity /\ r \in o.removes \ DOMAIN o.edges
       /\ d.kill => \E o \in W : o.entity = d.entity /\ o.kill
  /\ \A o \in W : o = c \/ \E d \in Z :
       /\ d.entity = o.entity /\ (o.kill => d.kill)
       /\ DOMAIN o.edges \cup o.removes \subseteq DOMAIN d.edges \cup d.removes
  /\ m = {} \/ \E d \in Z : d.entity = c.entity /\ m \subseteq d.removes

(* What the flush of c makes of the edges of its entity.                       *)
Flushed(S, T, c, m) ==
  /\ m \subseteq {r \in DOMAIN c.edges : c.edges[r] = NoEntity}
  /\ \A r \in Relations : \A x \in Entities \ {c.entity} : T[r].target[x] = S[r].target[x]
  /\ \A r \in Relations :
       /\ r \in DOMAIN c.edges /\ c.edges[r] # NoEntity => T[r].target[c.entity] = c.edges[r]
       /\ r \in DOMAIN c.edges /\ c.edges[r] = NoEntity /\ r \notin m => T[r].target[c.entity] = NoEntity
       /\ r \in DOMAIN c.edges /\ c.edges[r] = NoEntity =>
            T[r].target[c.entity] \in {S[r].target[c.entity], NoEntity}
       /\ r \in c.removes \ DOMAIN c.edges => T[r].target[c.entity] = NoEntity
       /\ r \notin c.removes \cup DOMAIN c.edges => T[r].target[c.entity] = S[r].target[c.entity]

LEMMA PactApply ==
  ASSUME NEW S, NEW A \in SUBSET Entities, NEW P, NEW U, NEW W, Pact(S, A, P, U, W),
         NEW T, NEW Z, NEW c \in W, NEW m, c.entity \in A,
         Follows(W, Z, c, m), Flushed(S, T, c, m),
         U # {} => \A r \in Deferrable : OnDelete[r] = "remove"
  PROVE  Pact(T, A, P, U, Z)
<1>1. Doom(S, A, P, U) /\ Plain(W) /\ Aimed(P, W) /\ Spoken(P, W) /\ Left(S, A, P, W) /\ Gravestones(P)
  BY DEF Pact
<1>2. PICK e : e = c.entity
  OBVIOUS
<1>3. P.alive \subseteq A /\ e \in Entities
  BY <1>1, <1>2 DEF Doom
<1>4. /\ m \subseteq {r \in DOMAIN c.edges : c.edges[r] = NoEntity}
      /\ \A r \in Relations : \A x \in Entities \ {e} : T[r].target[x] = S[r].target[x]
  BY <1>2 DEF Flushed
<1>5. DOMAIN c.edges \subseteq Deferrable /\ c.removes \subseteq Deferrable
  BY <1>1 DEF Plain
<1>6. Doom(T, A, P, U)
  <2>1. CASE U = {}
    <3>1. P.alive = A
      BY <2>1, NobodyDoomed
    <3>2. QED
      BY <2>1, <3>1 DEF Doom, Closed, Least
  <2>2. CASE U # {}
    <3>1. ASSUME NEW r \in Relations, OnDelete[r] = "delete", NEW x \in A
          PROVE  T[r].target[x] = S[r].target[x]
      <4>1. r \notin c.removes \cup DOMAIN c.edges
        BY <1>5, <2>2, <3>1
      <4>2. T[r].target[c.entity] = S[r].target[c.entity]
        BY <4>1 DEF Flushed
      <4>3. QED
        BY <1>2, <1>4, <4>2
    <3>2. \A D : Closed(S, A, D) <=> Closed(T, A, D)
      BY <3>1 DEF Closed
    <3>3. QED
      BY <1>1, <3>2 DEF Doom, Least
  <2>3. QED
    BY <2>1, <2>2
<1>7. Plain(Z)
  <2>1. SUFFICES ASSUME NEW d \in Z
                 PROVE  /\ DOMAIN d.edges \subseteq Deferrable /\ d.removes \subseteq Deferrable
                        /\ d.kill => DeferKills = "unlinked"
    BY DEF Plain
  <2>2. DOMAIN d.edges \subseteq Deferrable
    BY <1>1 DEF Follows, Plain
  <2>3. ASSUME NEW r \in d.removes, r \notin DOMAIN d.edges
        PROVE  r \in Deferrable
    <3>1. r \in m \/ \E o \in W : r \in o.removes
      BY <2>3 DEF Follows
    <3>2. QED
      BY <1>1, <1>4, <1>5, <3>1 DEF Plain
  <2>4. d.kill => DeferKills = "unlinked"
    BY <1>1 DEF Follows, Plain
  <2>5. QED
    BY <2>2, <2>3, <2>4
<1>8. Aimed(P, Z)
  BY <1>1 DEF Follows, Aimed
<1>9. Spoken(P, Z)
  <2>1. SUFFICES ASSUME NEW d \in Z, d.entity \in P.alive
                 PROVE  /\ \A q \in DOMAIN d.edges : P.target[q][d.entity] = d.edges[q]
                        /\ \A q \in d.removes \ DOMAIN d.edges : P.target[q][d.entity] = NoEntity
    BY DEF Spoken
  <2>2. ASSUME NEW q \in DOMAIN d.edges
        PROVE  P.target[q][d.entity] = d.edges[q]
    <3>1. PICK o \in W : o.entity = d.entity /\ q \in DOMAIN o.edges /\ o.edges[q] = d.edges[q]
      BY DEF Follows
    <3>2. QED
      BY <1>1, <2>1, <3>1 DEF Spoken
  <2>3. ASSUME NEW q \in d.removes \ DOMAIN d.edges
        PROVE  P.target[q][d.entity] = NoEntity
    <3>1. \/ d.entity = c.entity /\ q \in m
          \/ \E o \in W : o.entity = d.entity /\ q \in o.removes \ DOMAIN o.edges
      BY DEF Follows
    <3>2. CASE d.entity = c.entity /\ q \in m
      BY <1>1, <1>4, <2>1, <3>2 DEF Spoken
    <3>3. CASE \E o \in W : o.entity = d.entity /\ q \in o.removes \ DOMAIN o.edges
      BY <1>1, <2>1, <3>3 DEF Spoken
    <3>4. QED
      BY <3>1, <3>2, <3>3
  <2>4. QED
    BY <2>2, <2>3
<1>10. Left(T, A, P, Z)
  <2>1. SUFFICES ASSUME NEW r \in Relations, NEW x \in P.alive, Silent(Z, x, r)
                 PROVE  P.target[r][x] = IF T[r].target[x] \in A \ P.alive THEN NoEntity ELSE T[r].target[x]
    BY DEF Left
  <2>2. ASSUME NEW o \in W, o # c, o.entity = x
        PROVE  r \notin DOMAIN o.edges \cup o.removes
    <3>1. PICK d \in Z : d.entity = o.entity /\ DOMAIN o.edges \cup o.removes \subseteq DOMAIN d.edges \cup d.removes
      BY <2>2 DEF Follows
    <3>2. QED
      BY <2>1, <2>2, <3>1 DEF Silent
  <2>3. CASE x # e \/ r \notin DOMAIN c.edges \cup c.removes
    <3>1. Silent(W, x, r)
      BY <1>2, <2>2, <2>3 DEF Silent
    <3>2. T[r].target[x] = S[r].target[x]
      <4>1. CASE x # e
        BY <1>3, <1>4, <4>1
      <4>2. CASE x = e /\ r \notin DOMAIN c.edges \cup c.removes
        BY <1>2, <4>2 DEF Flushed
      <4>3. QED
        BY <2>3, <4>1, <4>2
    <3>3. QED
      BY <1>1, <3>1, <3>2 DEF Left
  <2>4. CASE x = e /\ r \in DOMAIN c.edges
    <3>1. P.target[r][x] = c.edges[r] /\ c.edges[r] \in P.alive \cup {NoEntity}
      BY <1>1, <1>2, <2>1, <2>4 DEF Spoken, Aimed
    <3>2. r \notin m
      BY <1>2, <2>1, <2>4 DEF Follows, Silent
    <3>3. T[r].target[x] = c.edges[r]
      BY <1>2, <2>4, <3>2 DEF Flushed
    <3>4. QED
      BY <3>1, <3>3
  <2>5. CASE x = e /\ r \in c.removes \ DOMAIN c.edges
    <3>1. P.target[r][x] = NoEntity
      BY <1>1, <1>2, <2>1, <2>5 DEF Spoken
    <3>2. T[r].target[x] = NoEntity
      BY <1>2, <2>5 DEF Flushed
    <3>3. QED
      BY <3>1, <3>2
  <2>6. QED
    BY <2>3, <2>4, <2>5
<1>11. QED
  BY <1>1, <1>6, <1>7, <1>8, <1>9, <1>10 DEF Pact

LEMMA ApartApply ==
  ASSUME NEW S, NEW A \in SUBSET Entities, NEW P, NEW W, Apart(S, A, P), Aimed(P, W),
         NEW T, NEW c \in W, NEW m, c.entity \in A, Flushed(S, T, c, m)
  PROVE  Apart(T, A, P)
<1>1. SUFFICES ASSUME NEW r \in Relations, NEW x \in A, OnDelete[r] = "remove"
               PROVE  T[r].target[x] \notin A \ P.alive
  BY DEF Apart
<1>2. S[r].target[x] \notin A \ P.alive /\ NoEntity \notin A
  BY <1>1, GraphAssumption DEF Apart, GraphAssumption
<1>3. CASE x # c.entity
  BY <1>2, <1>3 DEF Flushed
<1>4. CASE x = c.entity
  <2>1. r \in DOMAIN c.edges => c.edges[r] \in P.alive \cup {NoEntity}
    BY DEF Aimed
  <2>2. \/ r \in DOMAIN c.edges /\ T[r].target[x] = c.edges[r]
        \/ T[r].target[x] \in {S[r].target[x], NoEntity}
    BY <1>4 DEF Flushed
  <2>3. QED
    BY <1>2, <2>1, <2>2
<1>5. QED
  BY <1>3, <1>4

LEMMA KillsKept ==
  ASSUME NEW W, NEW Z, NEW c, NEW m, ~c.kill, Follows(W, Z, c, m)
  PROVE  \A A, st : Dues(A, st, Z) = Dues(A, st, W)
<1>1. \A x : (\E d \in Z : d.entity = x /\ d.kill) <=> (\E o \in W : o.entity = x /\ o.kill)
  <2>1. \A d \in Z : d.kill => \E o \in W : o.entity = d.entity /\ o.kill
    BY DEF Follows
  <2>2. \A o \in W : o.kill => \E d \in Z : d.entity = o.entity /\ d.kill
    BY DEF Follows
  <2>3. QED
    BY <2>1, <2>2
<1>2. QED
  BY <1>1 DEF Dues

-----------------------------------------------------------------------------
(* The invariant: the promise is kept while the calls are under way.          *)

Scopes ==
  /\ phase = "idle" => batch = <<>> /\ commands = <<>>
  /\ phase = "defer" => batch = <<>> /\ stack = <<>> /\ Distinct(commands)
Sure ==
  /\ failure = "none" /\ Flow(store, alive, stack) /\ Leaving /\ Scopes
  /\ Pact(store, alive, promised, Dues(alive, stack, Waits), Waits)
  /\ phase # "idle" => Apart(store, alive, promised)

LEMMA SureNext ==
  ASSUME failure' = "none", Flow(store', alive', stack'), Leaving', Scopes',
         NEW Z, Z = Waits', NEW V, V = Dues(alive', stack', Z), Pact(store', alive', promised', V, Z),
         phase' # "idle" => Apart(store', alive', promised')
  PROVE  Sure'
<1>1. Pact(store', alive', promised', Dues(alive', stack', Waits'), Waits')
  OBVIOUS
<1>2. QED
  BY <1>1 DEF Sure

LEMMA NoneDue ==
  ASSUME NEW A
  PROVE  Dues(A, <<>>, {}) = {}
  BY DEF Dues, UnderIn

LEMMA NothingWaits ==
  ASSUME batch = <<>>, commands = <<>>
  PROVE  Waits = {}
  BY DEF Waits, ToSet

LEMMA SureInit == Init => Sure
<1>1. SUFFICES ASSUME Init
               PROVE  Sure
  OBVIOUS
<1>2. stack = <<>> /\ batch = <<>> /\ commands = <<>> /\ phase = "idle" /\ failure = "none" /\ alive = Entities
  BY <1>1 DEF Init
<1>3. \A r \in Relations : \A x \in Entities : store[r].target[x] = NoEntity
  BY <1>1 DEF Init
<1>4. promised.alive = Entities /\ \A r \in Relations : \A x \in Entities : promised.target[r][x] = NoEntity
  BY <1>1, <1>2, <1>3 DEF Init, Now
<1>5. Flow(store, alive, stack)
  <2>1. \A r \in Relations : NoEntity \notin DoneIn(stack, r)
    BY GraphAssumption DEF DoneIn, GraphAssumption
  <2>2. QED
    BY <1>2, <1>3, <2>1 DEF Flow, Pointing, Drained, Cleared
<1>6. Leaving /\ Scopes
  BY <1>2 DEF Leaving, Scopes
<1>7. Waits = {} /\ Dues(alive, stack, {}) = {}
  BY <1>2, NothingWaits, NoneDue
<1>8. Pact(store, alive, promised, {}, {})
  <2>1. Doom(store, alive, promised, {})
    BY <1>2, <1>4 DEF Doom, Closed, Least
  <2>2. Left(store, alive, promised, {}) /\ Gravestones(promised)
    BY <1>2, <1>3, <1>4 DEF Left, Gravestones
  <2>3. QED
    BY <2>1, <2>2 DEF Pact, Plain, Aimed, Spoken
<1>9. QED
  BY <1>2, <1>5, <1>6, <1>7, <1>8 DEF Sure

(* Steps between hooks that leave the graph alone.                            *)
LEMMA SureScope ==
  ASSUME Sure, stack = <<>>, UNCHANGED <<alive, store, stack, failure, promised>>,
         NEW Z, Z = Waits', Z \subseteq Waits, \A c \in Waits : c \in Z \/ c.entity \notin alive,
         Scopes', phase' # "idle" => Apart(store, alive, promised)
  PROVE  Sure'
<1>1. /\ failure' = "none" /\ Flow(store', alive', stack')
      /\ Pact(store, alive, promised, Dues(alive, stack, Waits), Waits)
  BY DEF Sure
<1>2. Leaving'
  BY DEF Leaving
<1>3. PICK U : U = Dues(alive, stack, Waits)
  OBVIOUS
<1>4. Dues(alive, stack, Z) = U
  BY <1>3 DEF Dues
<1>5. promised.alive \subseteq alive /\ U \subseteq alive \ promised.alive
  BY <1>1, <1>3 DEF Pact, Doom
<1>6. Pact(store, alive, promised, U, Z)
  <2>1. PICK W : W = Waits
    OBVIOUS
  <2>2. Pact(store, alive, promised, U, W) /\ Z \subseteq W /\ \A c \in W : c \in Z \/ c.entity \notin promised.alive
    BY <1>1, <1>3, <1>5, <2>1
  <2>3. QED
    BY <1>5, <2>2, PactSame
<1>7. QED
  BY <1>1, <1>2, <1>4, <1>6, SureNext

LEMMA SureDefers ==
  ASSUME Sure, DeferBegin \/ DeferEnd \/ NextBatch \/ EndFlush
  PROVE  Sure'
<1>1. stack = <<>> /\ UNCHANGED <<alive, store, stack, failure, promised>>
  BY DEF Sure, Scopes, DeferBegin, DeferEnd, NextBatch, EndFlush, Idle, Returned, Flushing
<1>2. Waits' = Waits
  <2>1. CASE UNCHANGED <<batch, commands>>
    BY <2>1 DEF Waits
  <2>2. CASE NextBatch
    <3>1. batch = <<>> /\ batch' = commands /\ commands' = <<>>
      BY <2>2 DEF NextBatch
    <3>2. ToSet(<<>>) = {}
      BY DEF ToSet
    <3>3. QED
      BY <3>1, <3>2 DEF Waits
  <2>3. QED
    BY <2>1, <2>2 DEF DeferBegin, DeferEnd, EndFlush
<1>3. Scopes'
  BY <1>1 DEF Sure, Scopes, Distinct, DeferBegin, DeferEnd, NextBatch, EndFlush, Idle, Returned, Flushing
<1>4. ASSUME phase' # "idle"
      PROVE  Apart(store, alive, promised)
  <2>1. CASE phase = "idle"
    <3>1. batch = <<>> /\ commands = <<>>
      BY <2>1 DEF Sure, Scopes
    <3>2. Pact(store, alive, promised, {}, {})
      BY <1>1, <3>1, NothingWaits, NoneDue DEF Sure
    <3>3. promised.alive = alive
      BY <3>2, NobodyDoomed
    <3>4. QED
      BY <3>3 DEF Apart
  <2>2. CASE phase # "idle"
    BY <2>2 DEF Sure
  <2>3. QED
    BY <2>1, <2>2
<1>5. PICK Z : Z = Waits'
  OBVIOUS
<1>6. Z \subseteq Waits /\ \A c \in Waits : c \in Z \/ c.entity \notin alive
  BY <1>2, <1>5
<1>7. QED
  BY <1>1, <1>3, <1>4, <1>5, <1>6, SureScope

LEMMA SureSkip ==
  ASSUME IInv, Sure, SkipCommand
  PROVE  Sure'
<1>1. /\ stack = <<>> /\ UNCHANGED <<alive, store, stack, failure, promised>> /\ phase' = "flush" /\ phase = "flush"
      /\ batch # <<>> /\ batch' = Tail(batch) /\ commands' = commands /\ Head(batch).entity \notin alive
  BY DEF SkipCommand, Flushing, Returned
<1>2. PICK Z : Z = Waits'
  OBVIOUS
<1>3. Z = ToSet(Tail(batch)) \cup ToSet(commands)
  BY <1>1, <1>2 DEF Waits
<1>4. Waits = {Head(batch)} \cup Z
  BY <1>1, <1>3, HeadTaken DEF Waits
<1>5. Z \subseteq Waits /\ \A c \in Waits : c \in Z \/ c.entity \notin alive
  BY <1>1, <1>4
<1>6. Scopes' /\ Apart(store, alive, promised)
  BY <1>1 DEF Scopes, Sure
<1>7. QED
  BY <1>1, <1>2, <1>5, <1>6, SureScope

-----------------------------------------------------------------------------
(* The steps of a kill.                                                       *)

LEMMA TopIs ==
  ASSUME NEW st \in Seq(Frames), NEW f \in Frames, stack' = Append(st, f)
  PROVE  Top' = f
<1>1. Last(Append(st, f)) = f
  BY DEF Last
<1>2. QED
  BY <1>1 DEF Top

LEMMA LeavingKill ==
  ASSUME NEW st \in Seq(Frames), NEW f \in Frames, stack' = Append(st, f), f.hook = "kill"
  PROVE  Leaving'
<1>1. Top' = f
  BY TopIs
<1>2. QED
  BY <1>1 DEF Leaving

(* The frame below is one that opens no list, or a list that deletes.          *)
LEMMA LeavingFront ==
  ASSUME IInv, Nested, stack # <<>>, stack' = Front(stack)
  PROVE  Leaving'
<1>1. /\ stack \in Seq(Frames) /\ Front(stack) \in Seq(Frames)
      /\ Top.hook = "kill" /\ Front(stack) # <<>> => Dragged(store, Front(stack)[Len(Front(stack))], Top)
      /\ Top.hook = "sources" =>
           /\ Front(stack) # <<>>
           /\ SoundSources(store, alive, UnderIn(stack), Front(stack)[Len(Front(stack))], Top)
  BY NestedParts
<1>2. Top.hook \in {"kill", "sources"}
  BY <1>1, StackTop, FrameFacts
<1>3. PICK b \in Seq(Frames) : b = Front(stack)
  BY <1>1
<1>4. SUFFICES ASSUME b # <<>>, OnDelete[b[Len(b)].relation] = "remove", b[Len(b)].hook = "sources"
               PROVE  FALSE
  <2>1. Top' = b[Len(b)]
    BY <1>3 DEF Top, Last
  <2>2. QED
    BY <1>3, <2>1 DEF Leaving
<1>5. CASE Top.hook = "kill"
  BY <1>1, <1>3, <1>4, <1>5 DEF Dragged
<1>6. CASE Top.hook = "sources"
  BY <1>1, <1>3, <1>4, <1>6 DEF SoundSources, Opened
<1>7. QED
  BY <1>2, <1>5, <1>6

(* A step of a hook that changes no edge: more may be due.                     *)
LEMMA SureHook ==
  ASSUME IInv, Sure, alive' = alive, failure' = "none", UNCHANGED <<phase, batch, commands, promised>>,
         stack # <<>>, SameTargets, Flow(store, alive, stack'), Leaving',
         UnderIn(stack) \subseteq UnderIn(stack'), UnderIn(stack') \subseteq alive \ promised.alive
  PROVE  Sure'
<1>1. /\ Pact(store, alive, promised, Dues(alive, stack, Waits), Waits)
      /\ phase # "idle" => Apart(store, alive, promised)
  BY DEF Sure
<1>2. Scopes'
  BY DEF Sure, Scopes
<1>3. Waits' = Waits
  BY DEF Waits
<1>4. PICK W : W = Waits
  OBVIOUS
<1>5. PICK U : U = Dues(alive, stack, W)
  OBVIOUS
<1>6. PICK V : V = Dues(alive, stack', W)
  OBVIOUS
<1>7. U \subseteq V /\ V \subseteq alive \ promised.alive
  <2>1. U \subseteq alive \ promised.alive
    BY <1>1, <1>4, <1>5 DEF Pact, Doom
  <2>2. QED
    BY <1>5, <1>6, <2>1 DEF Dues
<1>8. PICK T : T = store'
  OBVIOUS
<1>9. \A r \in Relations : T[r].target = store[r].target
  BY <1>8 DEF SameTargets
<1>10. Pact(T, alive, promised, V, W)
  <2>1. /\ Pact(store, alive, promised, U, W) /\ W \subseteq W /\ \A c \in W : c \in W \/ c.entity \notin promised.alive
        /\ \A r \in Relations : \A x \in alive : T[r].target[x] = store[r].target[x]
    BY <1>1, <1>4, <1>5, <1>9
  <2>2. QED
    BY <1>7, <2>1, PactSame
<1>11. phase' # "idle" => Apart(T, alive, promised)
  BY <1>1, <1>9 DEF Apart
<1>12. Flow(T, alive, stack')
  BY <1>9 DEF Flow, Pointing, Drained, Cleared
<1>13. QED
  BY <1>2, <1>3, <1>4, <1>6, <1>8, <1>10, <1>11, <1>12, SureNext

LEMMA DueAreDoomed ==
  ASSUME Sure
  PROVE  /\ Dues(alive, stack, Waits) \subseteq alive \ promised.alive
         /\ UnderIn(stack) \subseteq alive \ promised.alive
         /\ promised.alive \subseteq alive
  BY DEF Sure, Pact, Doom, Dues

LEMMA SureKillTarget ==
  ASSUME IInv, Nested, Sure, KillTarget
  PROVE  Sure'
<1>1. /\ Killing /\ Top.todo # {} /\ NextHook[1] = "target" /\ stack' = Popped /\ alive' = alive
      /\ UNCHANGED <<phase, batch, commands, promised>>
  BY DEF KillTarget, Unchanged
<1>2. /\ stack # <<>> /\ NextHook[2] \in Relations /\ NextHook \in Hooks /\ Top.hook = "kill"
      /\ stack \in Seq(Frames) /\ Top.entity \in Entities /\ Front(stack) \in Seq(Frames)
  BY <1>1, KillingFacts
<1>3. failure' = "none"
  BY KillTargetWorks DEF Sure
<1>4. SameTargets
  <2>1. PICK r \in Relations : r = NextHook[2]
    BY <1>2
  <2>2. PICK e \in Entities : e = Top.entity
    BY <1>2
  <2>3. CASE ~HasTarget(e, r)
    <3>1. store' = store
      BY <2>1, <2>2, <2>3 DEF KillTarget
    <3>2. QED
      BY <3>1 DEF SameTargets
  <2>4. CASE HasTarget(e, r)
    <3>1. store' = [store EXCEPT ![r] = Hook(store[r], e)] /\ HookFailure(store[r], e) = "none"
      BY <1>3, <2>1, <2>2, <2>4 DEF KillTarget
    <3>2. store[r].target[e] \in alive /\ (store[r].marked[store[r].target[e]] \/ Placed(store[r], e))
      BY <3>1, HookFine
    <3>3. PICK d : d = Hook(store[r], e)
      OBVIOUS
    <3>4. /\ store[r] \in Indexes /\ alive \in SUBSET Entities
          /\ Kept(store[r], alive, UnderIn(stack), RanIn(stack, r))
      BY StoreFacts
    <3>5. /\ d \in Indexes /\ d.target = store[r].target /\ d.marked = store[r].marked
          /\ Kept(d, alive, UnderIn(stack), RanIn(stack, r) \cup {e})
      BY <3>2, <3>3, <3>4, KeptHook
    <3>6. store'[r] = d /\ \A q \in Relations \ {r} : store'[q] = store[q]
      BY <3>1, <3>3, <3>5, StoreFacts
    <3>7. QED
      BY <3>5, <3>6 DEF SameTargets
  <2>5. QED
    BY <2>3, <2>4
<1>5. UnderIn(stack') = UnderIn(stack)
  BY <1>1, PoppedSets
<1>6. Leaving'
  <2>1. PICK f \in Frames : Popped = Append(Front(stack), f) /\ f.hook = "kill"
    BY <1>2, PoppedIs
  <2>2. QED
    BY <1>1, <1>2, <2>1, LeavingKill
<1>7. Flow(store, alive, stack')
  BY FlowKillTarget DEF Sure
<1>8. QED
  BY <1>1, <1>2, <1>3, <1>4, <1>5, <1>6, <1>7, DueAreDoomed, SureHook

LEMMA SureSourcesDone ==
  ASSUME IInv, Nested, Sure, SourcesDone
  PROVE  Sure'
<1>1. /\ InSources /\ stack' = Front(stack) /\ UNCHANGED <<alive, store, failure, phase, batch, commands, promised>>
  BY DEF SourcesDone, Unchanged
<1>2. stack # <<>> /\ UnderIn(stack') = UnderIn(stack)
  BY <1>1, InSourcesFacts, ReturnedSources
<1>3. Leaving'
  BY <1>1, <1>2, LeavingFront
<1>4. SameTargets
  BY <1>1 DEF SameTargets
<1>5. Flow(store, alive, stack') /\ failure' = "none"
  BY <1>1, FlowSourcesDone DEF Sure
<1>6. QED
  BY <1>1, <1>2, <1>3, <1>4, <1>5, DueAreDoomed, SureHook

(* A list that opens and only unrelates: outside scopes, and all are alive.   *)
LEMMA SureKillSources ==
  ASSUME OneOwner, IInv, Nested, Sure, KillSources
  PROVE  Sure'
<1>1. /\ Killing /\ Top.entity \in alive /\ Top.todo # {} /\ NextHook[1] = "sources" /\ alive' = alive
      /\ UNCHANGED <<failure, phase, batch, commands, promised>>
  BY DEF KillSources, Unchanged
<1>2. /\ stack # <<>> /\ NextHook[2] \in Relations /\ NextHook \in Hooks /\ Top.hook = "kill"
      /\ Front(stack) \in Seq(Frames) /\ stack \in Seq(Frames) /\ NextHook \in Top.todo
      /\ Top.entity \in UnderIn(stack)
  BY <1>1, KillingFacts
<1>3. PICK e \in Entities : e = Top.entity
  BY <1>1, KillingFacts
<1>4. PICK r \in Relations : r = NextHook[2]
  BY <1>2
<1>5. NextHook = <<"sources", r>>
  BY <1>1, <1>2, <1>4 DEF Hooks
<1>6. UnderIn(Popped) = UnderIn(stack) /\ Popped \in Seq(Frames)
  BY <1>1, PoppedSets
<1>7. ~store[r].marked[e]
  BY <1>2, <1>3, <1>5, NestedParts DEF Dying
<1>8. Flow(store, alive, stack') /\ failure' = "none"
  BY <1>1, FlowKillSources DEF Sure
<1>9. CASE ~HasSources(e, r)
  <2>1. stack' = Popped /\ store' = store
    BY <1>3, <1>4, <1>9 DEF KillSources
  <2>2. Leaving'
    <3>1. PICK f \in Frames : Popped = Append(Front(stack), f) /\ f.hook = "kill"
      BY <1>2, PoppedIs
    <3>2. QED
      BY <1>2, <2>1, <3>1, LeavingKill
  <2>3. SameTargets
    BY <2>1 DEF SameTargets
  <2>4. QED
    BY <1>1, <1>2, <1>6, <1>8, <2>1, <2>2, <2>3, DueAreDoomed, SureHook
<1>10. CASE HasSources(e, r)
  <2>1. PICK f \in Frames : /\ f = SourcesFrame(e, r) /\ f.hook = "sources" /\ f.entity = e
                            /\ f.relation = r /\ f.left = store[r].sources[e]
    BY SourcesFrameTyped
  <2>2. stack' = Append(Popped, f)
    BY <1>3, <1>4, <1>10, <2>1 DEF KillSources
  <2>3. UnderIn(stack') = UnderIn(stack)
    BY <1>6, <2>1, <2>2, PushedSources
  <2>4. SameTargets
    <3>1. PICK T : T = MarkedIn(r, Top.entity)
      OBVIOUS
    <3>2. store' = T
      <4>1. store' = [store EXCEPT ![r].marked[e] = TRUE]
        BY <1>3, <1>4, <1>10 DEF KillSources
      <4>2. r \in DOMAIN store
        BY DEF IInv, Core
      <4>3. QED
        BY <1>3, <3>1, <4>1, <4>2 DEF MarkedIn, Marking
    <3>3. \A q \in Relations : T[q].target = store[q].target
      BY <1>1, <3>1, NestedMarked
    <3>4. QED
      BY <3>2, <3>3 DEF SameTargets
  <2>5. \A j \in DOMAIN f.left : store[r].target[f.left[j]] = e /\ f.left[j] \in alive
    <3>1. TrueLists(store[r], alive)
      BY StoreFacts DEF Kept
    <3>2. \A j \in DOMAIN store[r].sources[e] : Entry(store[r], alive, e, j)
      BY <1>1, <1>3, <1>7, <3>1 DEF TrueLists
    <3>3. QED
      BY <2>1, <3>2 DEF Entry
  <2>6. ASSUME OnDelete[r] = "remove", phase # "idle"
        PROVE  FALSE
    <3>1. Apart(store, alive, promised)
      BY <2>6 DEF Sure
    <3>2. e \in alive \ promised.alive
      BY <1>2, <1>3, DueAreDoomed
    <3>3. \A j \in DOMAIN f.left : FALSE
      BY <2>5, <2>6, <3>1, <3>2 DEF Apart
    <3>4. PICK s \in Seq(Entities) : s = store[r].sources[e]
      BY StoreFacts DEF IndexTypes
    <3>5. s # <<>>
      BY <1>7, <1>10, <3>4 DEF HasSources
    <3>6. 1 \in DOMAIN s
      BY <3>5
    <3>7. QED
      BY <2>1, <3>3, <3>4, <3>6
  <2>7. Leaving'
    <3>1. Top' = f
      BY <1>6, <2>2, TopIs
    <3>2. QED
      BY <1>1, <2>1, <2>5, <2>6, <3>1 DEF Leaving
  <2>8. QED
    BY <1>1, <1>2, <1>8, <2>3, <2>4, <2>7, DueAreDoomed, SureHook
<1>11. QED
  BY <1>9, <1>10

LEMMA SureKillSource ==
  ASSUME IInv, Nested, Sure, KillSource
  PROVE  Sure'
<1>1. /\ InSources /\ Top.left # <<>> /\ OnDelete[Top.relation] = "delete"
      /\ UNCHANGED <<alive, store, failure, phase, batch, commands, promised>>
  BY DEF KillSource, Unchanged
<1>2. /\ stack \in Seq(Frames) /\ stack # <<>> /\ Top.hook = "sources" /\ Top.left \in Seq(Entities)
      /\ Front(stack) \in Seq(Frames) /\ Top.relation \in Relations /\ Top.entity \in Entities
  BY <1>1, InSourcesFacts
<1>3. PICK x \in Entities : x = NextSource
  BY <1>1, InSourcesFacts
<1>4. Passed \in Seq(Frames) /\ UnderIn(Passed) = UnderIn(stack)
  BY <1>1, PassedSets
<1>5. Flow(store, alive, stack') /\ failure' = "none" /\ SameTargets
  BY <1>1, FlowKillSource DEF Sure, SameTargets
<1>6. CASE x \notin alive
  <2>1. stack' = Passed
    BY <1>3, <1>6 DEF KillSource
  <2>2. Leaving'
    <3>1. PICK f \in Frames : Passed = Append(Front(stack), f) /\ f.relation = Top.relation
      BY <1>1, <1>2, PassedIs
    <3>2. Top' = f
      BY <1>2, <2>1, <3>1, TopIs
    <3>3. QED
      BY <1>1, <3>1, <3>2 DEF Leaving
  <2>3. QED
    BY <1>1, <1>2, <1>4, <1>5, <2>1, <2>2, DueAreDoomed, SureHook
<1>7. CASE x \in alive
  <2>1. PICK f \in Frames : f = KillFrame(x) /\ f.hook = "kill" /\ f.entity = x
    BY KillFrameTyped
  <2>2. stack' = Append(Passed, f)
    BY <1>3, <1>7, <2>1 DEF KillSource
  <2>3. Leaving'
    BY <1>4, <2>1, <2>2, LeavingKill
  <2>4. UnderIn(stack') = UnderIn(stack) \cup {x}
    <3>1. UnderIn(Append(Passed, f)) = UnderIn(Passed) \cup {u \in Entities : Kills(f, u)}
      BY <1>4, Pushed
    <3>2. {u \in Entities : Kills(f, u)} = {x}
      BY <2>1 DEF Kills
    <3>3. QED
      BY <1>4, <2>2, <3>1, <3>2
  <2>5. x \in alive \ promised.alive
    <3>1. SoundSources(store, alive, UnderIn(stack), Front(stack)[Len(Front(stack))], Top)
      BY <1>2, NestedParts
    <3>2. 1 \in DOMAIN Top.left /\ x = Top.left[1]
      BY <1>1, <1>2, <1>3 DEF NextSource
    <3>3. store[Top.relation].target[x] = Top.entity /\ store[Top.relation].marked[Top.entity]
      BY <1>7, <3>1, <3>2 DEF SoundSources, Listing
    <3>4. Top.entity \in UnderIn(stack)
      BY <1>2, <3>3, StoreFacts DEF Kept, Clean
    <3>5. Top.entity \in alive \ promised.alive
      BY <3>4, DueAreDoomed
    <3>6. Closed(store, alive, alive \ promised.alive)
      BY DEF Sure, Pact, Doom
    <3>7. QED
      BY <1>1, <1>2, <1>7, <3>3, <3>5, <3>6 DEF Closed
  <2>6. UnderIn(stack') \subseteq alive \ promised.alive
    BY <2>4, <2>5, DueAreDoomed
  <2>7. QED
    BY <1>1, <1>2, <1>5, <2>3, <2>4, <2>6, SureHook
<1>8. QED
  BY <1>6, <1>7

LEMMA SureKillRow ==
  ASSUME IInv, Nested, Sure, KillRow
  PROVE  Sure'
<1>1. /\ Killing /\ alive' = alive \ {Top.entity} /\ stack' = Front(stack)
      /\ UNCHANGED <<failure, phase, batch, commands, promised>>
  BY DEF KillRow, Unchanged
<1>2. /\ stack \in Seq(Frames) /\ stack # <<>> /\ Top.hook = "kill" /\ Top.entity \in Entities
      /\ Front(stack) \in Seq(Frames) /\ Top.entity \in UnderIn(stack)
  BY <1>1, KillingFacts
<1>3. PICK e \in Entities : e = Top.entity
  BY <1>2
<1>4. PICK b \in Seq(Frames) : b = Front(stack)
  BY <1>2
<1>5. PICK A \in SUBSET Entities : A = alive
  BY DEF IInv, Core
<1>6. PICK B : B = A \ {e}
  OBVIOUS
<1>7. PICK T : T = store'
  OBVIOUS
<1>8. e \in A
  BY <1>2, <1>3, <1>5, NestedParts DEF Dying
<1>9. \A r \in Relations : \A x \in B : T[r].target[x] = store[r].target[x]
  <2>1. T = [r \in Relations |-> Dropped(store[r], e)]
    BY <1>3, <1>5, <1>7, <1>8 DEF KillRow
  <2>2. ASSUME NEW r \in Relations
        PROVE  \A x \in Entities \ {e} : T[r].target[x] = store[r].target[x]
    <3>1. PICK s \in Indexes : s = store[r] /\ IndexTypes(s)
      BY StoreFacts
    <3>2. PICK d : d = Dropped(s, e)
      OBVIOUS
    <3>3. d.target = [s.target EXCEPT ![e] = NoEntity] /\ d.marked = [s.marked EXCEPT ![e] = FALSE]
      <4>1. d = Dropped(s, e) /\ e \in Entities /\ s \in Indexes
        BY <3>1, <3>2
      <4>2. QED
        BY ONLY <4>1, DroppedIs
    <3>4. T[r] = d
      BY <2>1, <3>1, <3>2
    <3>5. \A x \in Entities \ {e} : d.target[x] = s.target[x]
      BY <3>1, <3>3 DEF IndexTypes
    <3>6. QED
      BY <3>1, <3>4, <3>5
  <2>3. QED
    BY <1>6, <2>2
<1>10. UnderIn(stack) = UnderIn(b) \cup {e} /\ e \notin UnderIn(b)
  <2>1. UnderIn(stack) = UnderIn(b) \cup {u \in Entities : Kills(Top, u)}
    BY <1>2, <1>4, Returning
  <2>2. {u \in Entities : Kills(Top, u)} = {e}
    BY <1>2, <1>3 DEF Kills
  <2>3. QED
    BY <1>2, <1>3, <1>4, <2>1, <2>2, NestedParts
<1>11. Flow(T, B, b) /\ failure' = "none"
  BY <1>1, <1>3, <1>4, <1>5, <1>6, <1>7, FlowKillRow DEF Sure
<1>12. Leaving' /\ Scopes'
  <2>1. Leaving'
    BY <1>1, <1>2, LeavingFront
  <2>2. Scopes'
    BY <1>1, <1>2 DEF Sure, Scopes
  <2>3. QED
    BY <2>1, <2>2
<1>13. PICK W : W = Waits
  OBVIOUS
<1>14. PICK U : U = Dues(A, stack, W)
  OBVIOUS
<1>15. PICK V : V = Dues(B, b, W)
  OBVIOUS
<1>16. e \in U /\ U \subseteq V \cup {e} /\ V \subseteq U \ {e} /\ UnderIn(b) \subseteq V
  BY <1>6, <1>10, <1>14, <1>15 DEF Dues
<1>17. \A r \in Relations : \A x \in B : T[r].target[x] = e => x \in V
  <2>1. SUFFICES ASSUME NEW r \in Relations, NEW x \in B, T[r].target[x] = e
                 PROVE  x \in V
    OBVIOUS
  <2>2. e # NoEntity /\ e \notin B
    BY <1>6, GraphAssumption DEF GraphAssumption
  <2>3. x \in RanIn(b, r)
    BY <1>11, <2>1, <2>2 DEF Flow, Pointing
  <2>4. RanIn(b, r) \subseteq UnderIn(b)
    BY DEF RanIn, UnderIn
  <2>5. QED
    BY <1>16, <2>3, <2>4
<1>18. Pact(store, A, promised, U, W)
  BY <1>5, <1>13, <1>14 DEF Sure
<1>19. Pact(T, B, promised, V, W)
  BY <1>6, <1>9, <1>16, <1>17, <1>18, PactRow
<1>20. phase' # "idle" => Apart(T, B, promised)
  <2>1. phase # "idle" => Apart(store, A, promised)
    BY <1>5 DEF Sure
  <2>2. Apart(store, A, promised) => Apart(T, B, promised)
    BY <1>6, <1>9 DEF Apart
  <2>3. QED
    BY <1>1, <2>1, <2>2
<1>21. Waits' = W
  BY <1>1, <1>13 DEF Waits
<1>22. alive' = B /\ stack' = b /\ promised' = promised
  BY <1>1, <1>3, <1>4, <1>5, <1>6
<1>23. QED
  BY <1>7, <1>11, <1>12, <1>15, <1>19, <1>20, <1>21, <1>22, SureNext

LEMMA SureUnrelateSource ==
  ASSUME IInv, Nested, Sure, UnrelateSource
  PROVE  Sure'
<1>1. /\ InSources /\ Top.left # <<>> /\ OnDelete[Top.relation] = "remove"
      /\ alive' = alive /\ stack' = Passed /\ UNCHANGED <<phase, batch, promised>>
  BY DEF UnrelateSource, Unchanged
<1>2. /\ stack \in Seq(Frames) /\ stack # <<>> /\ Top.hook = "sources" /\ Top.left \in Seq(Entities)
      /\ Top.entity \in Entities /\ Front(stack) \in Seq(Frames)
  BY <1>1, InSourcesFacts
<1>3. PICK r \in Relations : r = Top.relation
  BY <1>1, InSourcesFacts
<1>4. PICK x \in Entities : x = NextSource
  BY <1>1, InSourcesFacts
<1>5. PICK T : T = store'
  OBVIOUS
<1>6. Leaving
  BY DEF Sure
<1>7. /\ failure' = "none" /\ phase = "idle" /\ commands' = commands
      /\ Top.entity \in UnderIn(stack)
      /\ store[r].target[x] = Top.entity
      /\ \A q \in Relations \ {r} : T[q] = store[q]
      /\ T[r].target = [store[r].target EXCEPT ![x] = NoEntity]
  BY <1>3, <1>4, <1>5, <1>6, UnrelatedIs
<1>8. Flow(T, alive, stack')
  BY <1>5, <1>6, FlowUnrelateSource DEF Sure
<1>9. Scopes'
  BY <1>1, <1>2, <1>7 DEF Sure, Scopes
<1>10. Leaving'
  <2>1. PICK f \in Frames : Passed = Append(Front(stack), f) /\ f.left = Tail(Top.left)
    BY <1>1, <1>2, PassedIs
  <2>2. Top' = f
    BY <1>1, <1>2, <2>1, TopIs
  <2>3. PICK s \in Seq(Entities) : s = Top.left /\ s # <<>>
    BY <1>1, <1>2
  <2>4. \A j \in DOMAIN s : s[j] \in alive
    BY <1>1, <1>2, <1>6, <2>3 DEF Leaving
  <2>5. \A j \in DOMAIN Tail(s) : Tail(s)[j] \in alive
    <3>1. \A j \in DOMAIN Tail(s) : j + 1 \in DOMAIN s /\ Tail(s)[j] = s[j + 1]
      BY <2>3
    <3>2. QED
      BY <2>4, <3>1
  <2>6. QED
    BY <1>1, <1>7, <2>1, <2>2, <2>3, <2>5 DEF Leaving
<1>11. PICK A \in SUBSET Entities : A = alive
  BY DEF IInv, Core
<1>12. PICK W : W = Waits
  OBVIOUS
<1>13. PICK U : U = Dues(A, stack, W)
  OBVIOUS
<1>14. Pact(store, A, promised, U, W)
  BY <1>11, <1>12, <1>13 DEF Sure
<1>15. \A q \in Relations : \A y \in A : T[q].target[y] = IF q = r /\ y = x THEN NoEntity ELSE store[q].target[y]
  <2>1. store[r].target \in [Entities -> Entities \cup {NoEntity}]
    BY StoreFacts DEF IndexTypes
  <2>2. \A y \in Entities : T[r].target[y] = IF y = x THEN NoEntity ELSE store[r].target[y]
    BY <1>7, <2>1
  <2>3. QED
    BY <1>7, <2>2
<1>16. store[r].target[x] \in A \ promised.alive
  BY <1>7, <1>11, DueAreDoomed
<1>17. Pact(T, A, promised, U, W)
  <2>1. OnDelete[r] = "remove"
    BY <1>1, <1>3
  <2>2. PICK S : S = store
    OBVIOUS
  <2>3. PICK P : P = promised
    OBVIOUS
  <2>4. Pact(S, A, P, U, W) /\ S[r].target[x] \in A \ P.alive
    BY <1>14, <1>16, <2>2, <2>3
  <2>5. \A q \in Relations : \A y \in A : T[q].target[y] = IF q = r /\ y = x THEN NoEntity ELSE S[q].target[y]
    BY <1>15, <2>2
  <2>6. r \in Relations
    OBVIOUS
  <2>7. FreedOf(S, T, A, A \ P.alive, r, x)
    BY <2>4, <2>5 DEF FreedOf
  <2>8. Pact(T, A, P, U, W)
    BY ONLY <2>1, <2>4, <2>6, <2>7, PactLoose
  <2>9. QED
    BY <2>3, <2>8
<1>18. Waits' = W
  BY <1>1, <1>7, <1>12 DEF Waits
<1>19. Dues(alive', stack', W) = U
  <2>1. UnderIn(stack') = UnderIn(stack)
    BY <1>1, PassedSets
  <2>2. QED
    BY <1>1, <1>11, <1>13, <2>1 DEF Dues
<1>20. QED
  BY <1>1, <1>5, <1>7, <1>8, <1>9, <1>10, <1>11, <1>17, <1>18, <1>19, SureNext

-----------------------------------------------------------------------------
(* The calls outside scopes.                                                  *)

LEMMA Unspoken ==
  ASSUME Sure, Idle
  PROVE  /\ stack = <<>> /\ phase = "idle" /\ Waits = {} /\ Dues(alive, stack, {}) = {}
         /\ Pact(store, alive, promised, {}, {}) /\ promised.alive = alive
<1>1. stack = <<>> /\ phase = "idle" /\ batch = <<>> /\ commands = <<>>
  BY DEF Sure, Scopes, Idle, Returned
<1>2. Waits = {} /\ Dues(alive, stack, {}) = {}
  BY <1>1, NothingWaits, NoneDue
<1>3. Pact(store, alive, promised, {}, {})
  BY <1>2 DEF Sure
<1>4. QED
  BY <1>1, <1>2, <1>3, NobodyDoomed

LEMMA SureCall ==
  ASSUME IInv, Sure, Idle, NEW e \in alive, NEW r \in Relations, NEW t \in alive \cup {NoEntity},
         failure' = "none", UNCHANGED <<alive, stack, phase, commands, batch>>,
         \A q \in Relations : \A x \in Entities :
           store'[q].target[x] = IF q = r /\ x = e THEN t ELSE store[q].target[x],
         promised' = Relate(promised, e, r, t)
  PROVE  Sure'
<1>1. /\ stack = <<>> /\ phase = "idle" /\ Waits = {} /\ Dues(alive, stack, {}) = {}
      /\ Pact(store, alive, promised, {}, {}) /\ promised.alive = alive
  BY Unspoken
<1>2. PICK A \in SUBSET Entities : A = alive
  BY DEF IInv, Core
<1>3. PICK S : S = store
  OBVIOUS
<1>4. PICK T : T = store'
  OBVIOUS
<1>5. PICK P \in Graphs : P = promised
  BY DEF IInv, Core
<1>6. PICK Q : Q = promised'
  OBVIOUS
<1>7. e \in A /\ t \in A \cup {NoEntity} /\ Pact(S, A, P, {}, {})
  BY <1>1, <1>2, <1>3, <1>5
<1>8. \A q \in Relations : \A x \in Entities : T[q].target[x] = IF q = r /\ x = e THEN t ELSE S[q].target[x]
  BY <1>3, <1>4
<1>9. e \in Entities /\ r \in Relations /\ Q = Relate(P, e, r, t)
  BY <1>2, <1>5, <1>6, <1>7
<1>10. /\ Q.alive = P.alive
       /\ \A q \in Relations : \A x \in Entities : Q.target[q][x] = IF q = r /\ x = e THEN t ELSE P.target[q][x]
  BY <1>9, RelateIs
<1>11. Pact(T, A, Q, {}, {})
  <2>1. OneEdge(S, T, r, e, t) /\ OnePromise(P, Q, r, e, t)
    BY <1>8, <1>10 DEF OneEdge, OnePromise
  <2>2. QED
    BY ONLY <1>2, <1>7, <1>9, <2>1, PactCall
<1>12. Flow(T, A, <<>>)
  <2>1. Flow(S, A, <<>>)
    BY <1>1, <1>2, <1>3 DEF Sure
  <2>2. \A q \in Relations : \A x \in Entities \ {e} : T[q].target[x] = S[q].target[x]
    BY <1>8
  <2>3. \A q \in Relations : T[q].target[e] = S[q].target[e] \/ T[q].target[e] \in A \cup {NoEntity}
    BY <1>7, <1>8, <1>9
  <2>4. QED
    BY <1>2, <1>7, <2>1, <2>2, <2>3, FlowEdited
<1>13. alive' = A /\ stack' = <<>> /\ phase' = "idle" /\ Waits' = {} /\ Dues(alive', stack', {}) = {}
  <2>1. Waits' = Waits
    BY DEF Waits
  <2>2. QED
    BY <1>1, <1>2, <2>1
<1>14. Scopes' /\ Leaving'
  BY <1>1 DEF Sure, Scopes, Leaving
<1>15. QED
  BY <1>4, <1>6, <1>11, <1>12, <1>13, <1>14, SureNext

LEMMA SureRelateCall ==
  ASSUME IInv, Sure, NEW e \in Entities, NEW r \in Relations, NEW t \in Entities, RelateCall(e, r, t)
  PROVE  Sure'
<1>1. Flow(store, alive, stack)
  BY DEF Sure
<1>2. /\ failure' = "none"
      /\ \A q \in Relations : \A x \in Entities :
           store'[q].target[x] = IF q = r /\ x = e THEN t ELSE store[q].target[x]
  BY <1>1, RelateEffect
<1>3. /\ Idle /\ e \in alive /\ t \in alive \cup {NoEntity} /\ promised' = Relate(promised, e, r, t)
      /\ UNCHANGED <<alive, stack, phase, commands, batch>>
  BY DEF RelateCall
<1>4. QED
  BY <1>2, <1>3, SureCall

LEMMA SureUnrelateCall ==
  ASSUME IInv, Sure, NEW e \in Entities, NEW r \in Relations, UnrelateCall(e, r)
  PROVE  Sure'
<1>1. Flow(store, alive, stack)
  BY DEF Sure
<1>2. /\ failure' = "none"
      /\ \A q \in Relations : \A x \in Entities :
           store'[q].target[x] = IF q = r /\ x = e THEN NoEntity ELSE store[q].target[x]
  BY <1>1, UnrelateEffect
<1>3. /\ Idle /\ e \in alive /\ NoEntity \in alive \cup {NoEntity} /\ promised' = Relate(promised, e, r, NoEntity)
      /\ UNCHANGED <<alive, stack, phase, commands, batch>>
  BY DEF UnrelateCall
<1>4. QED
  BY <1>2, <1>3, SureCall

LEMMA SureKillCall ==
  ASSUME IInv, Sure, NEW e \in Entities, KillCall(e)
  PROVE  Sure'
<1>1. /\ Idle /\ e \in alive /\ stack' = <<KillFrame(e)>> /\ promised' = Kill(promised, e)
      /\ UNCHANGED <<alive, store, phase, commands, batch, failure>>
  BY DEF KillCall
<1>2. /\ stack = <<>> /\ phase = "idle" /\ Waits = {}
      /\ Pact(store, alive, promised, {}, {}) /\ promised.alive = alive
  BY <1>1, Unspoken
<1>3. /\ KillFrame(e) \in Frames /\ KillFrame(e).hook = "kill" /\ KillFrame(e).entity = e
  BY KillFrameTyped
<1>4. <<>> \in Seq(Frames) /\ stack' = Append(<<>>, KillFrame(e))
  BY <1>1
<1>5. Leaving'
  BY <1>3, <1>4, LeavingKill
<1>6. Flow(store, alive, stack')
  <2>1. \A r \in Relations : ~store[r].marked[e]
    BY <1>2, Quiet
  <2>2. PICK st \in Seq(Frames) : st = <<>>
    BY <1>4
  <2>3. PICK tt : tt = Append(st, KillFrame(e))
    OBVIOUS
  <2>4. /\ \A r \in Relations : DoneIn(st, r) = DoneIn(stack, r)
        /\ \A r \in Relations : RanIn(st, r) = RanIn(stack, r)
    BY <1>2, <2>2
  <2>5. \A r \in Relations : \A x \in alive :
          Awaits(stack, store[r].target[x], r, x) => Awaits(tt, store[r].target[x], r, x)
    BY <1>2 DEF Awaits
  <2>6. Flow(store, alive, stack)
    BY DEF Sure
  <2>7. Flow(store, alive, tt)
    BY <1>1, <2>1, <2>3, <2>4, <2>5, <2>6, FlowPushKill
  <2>8. QED
    BY <1>4, <2>2, <2>3, <2>7
<1>7. UnderIn(stack') = {e}
  <2>1. UnderIn(stack') = UnderIn(<<>>) \cup {x \in Entities : Kills(KillFrame(e), x)}
    BY <1>3, <1>4, Pushed
  <2>2. UnderIn(<<>>) = {}
    BY DEF UnderIn
  <2>3. QED
    BY <1>3, <2>1, <2>2 DEF Kills
<1>8. Waits' = {} /\ Dues(alive', stack', {}) = {e}
  <2>1. Waits' = Waits
    BY <1>1 DEF Waits
  <2>2. QED
    BY <1>2, <1>7, <2>1 DEF Dues
<1>9. PICK P \in Graphs : P = promised
  BY DEF IInv, Core
<1>10. PICK Q : Q = Kill(P, e)
  OBVIOUS
<1>11. PICK A \in SUBSET Entities : A = alive
  BY DEF IInv, Core
<1>12. PICK S : S = store
  OBVIOUS
<1>13. Pact(S, A, Q, {e}, {})
  <2>1. Pact(S, A, P, {}, {}) /\ e \in P.alive
    BY <1>1, <1>2, <1>9, <1>11, <1>12
  <2>2. \A r \in Relations : OnDelete[r] = "delete" => \A x \in P.alive : Silent({}, x, r)
    BY DEF Silent
  <2>3. PICK D : D = Deleted(P, e)
    OBVIOUS
  <2>4. PICK U, W : U = {} /\ W = {}
    OBVIOUS
  <2>5. PICK V : V = {e}
    OBVIOUS
  <2>6. Plain(W)
    BY <2>4 DEF Plain
  <2>7. /\ Pact(S, A, P, U, W)
        /\ \A r \in Relations : OnDelete[r] = "delete" => \A x \in P.alive : Silent(W, x, r)
        /\ \A c \in W : \A r \in DOMAIN c.edges : c.edges[r] \notin D
        /\ U \ {e} \subseteq V /\ e \in V /\ V \subseteq U \cup {e}
        /\ \A c \in W : c \in W \/ (c.entity = e /\ DOMAIN c.edges = {})
        /\ \A c \in W : c.entity = e \/ c \in W
    BY <2>1, <2>2, <2>4, <2>5
  <2>8. Pact(S, A, Q, V, W)
    BY ONLY <1>9, <1>10, <1>11, <2>1, <2>3, <2>6, <2>7, PactKill
  <2>9. QED
    BY <2>4, <2>5, <2>8
<1>14. Scopes' /\ phase' = "idle" /\ failure' = "none"
  BY <1>1, <1>2 DEF Sure, Scopes
<1>15. /\ Pact(store', alive', promised', {e}, {}) /\ Flow(store', alive', stack')
  BY <1>1, <1>6, <1>9, <1>10, <1>11, <1>12, <1>13
<1>16. QED
  BY <1>5, <1>8, <1>14, <1>15, SureNext

-----------------------------------------------------------------------------
(* The calls in a scope, which record commands.                               *)

LEMMA InScope ==
  ASSUME Sure, phase = "defer"
  PROVE  /\ stack = <<>> /\ batch = <<>> /\ Distinct(commands) /\ Waits = ToSet(commands)
         /\ promised.alive \subseteq alive
         /\ \A c \in Waits : c.kill => c.entity \notin promised.alive
<1>1. stack = <<>> /\ batch = <<>> /\ Distinct(commands)
  BY DEF Sure, Scopes
<1>2. Waits = ToSet(commands)
  BY <1>1 DEF Waits, ToSet
<1>3. /\ promised.alive \subseteq alive
      /\ Dues(alive, stack, Waits) \subseteq alive \ promised.alive
  BY DueAreDoomed
<1>4. \A c \in Waits : c.kill => c.entity \notin promised.alive
  BY <1>3 DEF Dues
<1>5. QED
  BY <1>1, <1>2, <1>3, <1>4

LEMMA SureRecord ==
  ASSUME IInv, Sure, phase = "defer", NEW e \in promised.alive, NEW r \in Deferrable,
         NEW t \in promised.alive \cup {NoEntity},
         commands' = Recorded(commands, Merged(CommandOf(commands, e), r, t)),
         promised' = Relate(promised, e, r, t), UNCHANGED <<alive, store, stack, phase, batch, failure>>
  PROVE  Sure'
<1>1. /\ stack = <<>> /\ batch = <<>> /\ Distinct(commands) /\ Waits = ToSet(commands)
      /\ promised.alive \subseteq alive
      /\ \A c \in Waits : c.kill => c.entity \notin promised.alive
  BY InScope
<1>2. Deferrable \subseteq Relations
  BY RelationsAssumption DEF RelationsAssumption
<1>3. PICK A \in SUBSET Entities : A = alive
  BY DEF IInv, Core
<1>4. PICK S : S = store
  OBVIOUS
<1>5. PICK P \in Graphs : P = promised
  BY DEF IInv, Core
<1>6. PICK cs \in Seq(Commands) : cs = commands
  BY DEF IInv, Core
<1>7. PICK W : W = Waits
  OBVIOUS
<1>8. /\ r \in Deferrable /\ e \in P.alive /\ e \in Entities /\ P.alive \subseteq A /\ t \in P.alive \cup {NoEntity}
      /\ t \in Entities \cup {NoEntity} /\ W = ToSet(cs) /\ Distinct(cs)
      /\ \A c \in W : c.kill => c.entity \notin P.alive
  BY <1>1, <1>3, <1>5, <1>6, <1>7
<1>9. PICK old \in Commands : old = CommandOf(cs, e)
  BY <1>8, CommandOfIs
<1>10. old.entity = e
  BY <1>8, <1>9, CommandOfIs
<1>11. PICK c : c = Merged(old, r, t)
  OBVIOUS
<1>12. /\ c \in Commands /\ c.entity = e /\ c.kill = old.kill /\ c.removes = old.removes
       /\ DOMAIN c.edges = DOMAIN old.edges \cup {r} /\ c.edges[r] = t
       /\ \A q \in DOMAIN old.edges \ {r} : c.edges[q] = old.edges[q]
  BY <1>2, <1>8, <1>10, <1>11, MergedTyped
<1>13. PICK rs : rs = Recorded(cs, c)
  OBVIOUS
<1>14. /\ c \in ToSet(rs) /\ ToSet(rs) \subseteq ToSet(cs) \cup {c} /\ ToSet(cs) \ {old} \subseteq ToSet(rs)
       /\ \/ old \in ToSet(cs)
          \/ old = NoCommand(e) /\ \A d \in ToSet(cs) : d.entity # e
       /\ Distinct(rs)
       /\ \A d \in ToSet(rs) : d.entity = e => d = c
       /\ \A d \in ToSet(cs) : d.entity = e => d = old
  <2>1. c.entity = e /\ old = CommandOf(cs, c.entity)
    BY <1>9, <1>12
  <2>2. /\ c \in ToSet(rs) /\ ToSet(rs) \subseteq ToSet(cs) \cup {c} /\ ToSet(cs) \ {old} \subseteq ToSet(rs)
        /\ \/ old \in ToSet(cs)
           \/ old = NoCommand(c.entity) /\ \A d \in ToSet(cs) : d.entity # c.entity
        /\ Distinct(cs) => /\ Distinct(rs)
                           /\ \A d \in ToSet(rs) : d.entity = c.entity => d = c
                           /\ \A d \in ToSet(cs) : d.entity = c.entity => d = old
    BY <1>12, <1>13, <2>1, RecordedSet
  <2>3. QED
    BY <1>8, <2>1, <2>2
<1>15. ~old.kill /\ (old \in W \/ (old.removes = {} /\ DOMAIN old.edges = {}))
  <2>1. CASE old \in ToSet(cs)
    BY <1>8, <1>10, <2>1
  <2>2. CASE old = NoCommand(e)
    BY <1>8, <2>2, NoCommandTyped
  <2>3. QED
    BY <1>14, <2>1, <2>2
<1>16. PICK Z : Z = ToSet(rs)
  OBVIOUS
<1>17. commands' = rs /\ Waits' = Z
  <2>1. commands' = rs
    BY <1>6, <1>9, <1>11, <1>13
  <2>2. ToSet(<<>>) = {}
    BY DEF ToSet
  <2>3. QED
    BY <1>1, <1>16, <2>1, <2>2 DEF Waits
<1>18. RecordsEdge(c, old, e, r, t)
  BY <1>12, <1>15 DEF RecordsEdge
<1>19. Replaces(W, Z, c, old, e)
  BY <1>8, <1>10, <1>14, <1>15, <1>16 DEF Replaces
<1>20. PICK Q : Q = Relate(P, e, r, t)
  OBVIOUS
<1>21. OnePromise(P, Q, r, e, t)
  BY <1>2, <1>8, <1>20, RelateIs DEF OnePromise
<1>22. PICK U : U = Dues(A, stack, W)
  OBVIOUS
<1>23. Pact(S, A, P, U, W)
  BY <1>3, <1>4, <1>5, <1>7, <1>22 DEF Sure
<1>24. Pact(S, A, Q, U, Z)
  BY ONLY <1>2, <1>3, <1>8, <1>18, <1>19, <1>21, <1>23, PactRecord
<1>25. Dues(alive', stack', Z) = U
  <2>1. \A x \in A : (\E d \in Z : d.entity = x /\ d.kill) <=> (\E d \in W : d.entity = x /\ d.kill)
    BY <1>18, <1>19, <1>15 DEF Replaces, RecordsEdge
  <2>2. QED
    BY <1>3, <1>22, <2>1 DEF Dues
<1>26. failure' = "none" /\ Flow(store', alive', stack') /\ Leaving' /\ Scopes'
  <2>1. failure' = "none" /\ Flow(store', alive', stack')
    BY DEF Sure
  <2>2. Leaving'
    BY <1>1 DEF Leaving
  <2>3. Distinct(commands')
    BY <1>14, <1>17
  <2>4. Distinct(commands)'
    BY <2>3 DEF Distinct
  <2>5. QED
    BY <1>1, <2>1, <2>2, <2>4 DEF Scopes
<1>27. Apart(store', alive', promised')
  <2>1. Apart(store, alive, promised)
    BY DEF Sure
  <2>2. Q.alive = P.alive /\ Q = promised'
    BY <1>5, <1>20, <1>21 DEF OnePromise
  <2>3. QED
    BY <1>5, <2>1, <2>2 DEF Apart
<1>28. Pact(store', alive', promised', U, Z)
  BY <1>3, <1>4, <1>5, <1>20, <1>24
<1>29. QED
  BY <1>17, <1>25, <1>26, <1>27, <1>28, SureNext

LEMMA SureDeferRelate ==
  ASSUME IInv, Sure, NEW e \in Entities, NEW r \in Relations, NEW t \in Entities, DeferRelate(e, r, t)
  PROVE  Sure'
<1>1. /\ phase = "defer" /\ e \in promised.alive /\ r \in Deferrable /\ t \in promised.alive \cup {NoEntity}
      /\ commands' = Recorded(commands, Merged(CommandOf(commands, e), r, t))
      /\ promised' = Relate(promised, e, r, t) /\ UNCHANGED <<alive, store, stack, phase, batch, failure>>
  BY DEF DeferRelate, DeferCall
<1>2. QED
  BY <1>1, SureRecord

LEMMA SureDeferUnrelate ==
  ASSUME IInv, Sure, NEW e \in Entities, NEW r \in Relations, DeferUnrelate(e, r)
  PROVE  Sure'
<1>1. /\ phase = "defer" /\ e \in promised.alive /\ r \in Deferrable
      /\ NoEntity \in promised.alive \cup {NoEntity}
      /\ commands' = Recorded(commands, Merged(CommandOf(commands, e), r, NoEntity))
      /\ promised' = Relate(promised, e, r, NoEntity) /\ UNCHANGED <<alive, store, stack, phase, batch, failure>>
  BY DEF DeferUnrelate, DeferCall
<1>2. QED
  BY <1>1, SureRecord

(* What is asked of the calls made in scopes: relations registered with        *)
(* .acyclic are changed outside scopes, and an entity killed in one takes no   *)
(* edge away, made or recorded, whose source lives on.                         *)
Orderly ==
  /\ OneOwner /\ DeferKills # "any" /\ Acyclic \cap Deferrable = {}
  /\ DeferKills = "unlinked" => \A r \in Deferrable : OnDelete[r] = "remove"

LEMMA KillCommandIs ==
  ASSUME NEW e \in Entities, NEW c, c = [NoCommand(e) EXCEPT !.kill = TRUE]
  PROVE  c \in Commands /\ c.entity = e /\ c.kill /\ c.removes = {} /\ DOMAIN c.edges = {}
<1>1. c \in Commands /\ c.entity = e /\ DOMAIN c.edges = {}
  BY NoCommandTyped
<1>2. c = [entity |-> e, kill |-> TRUE, removes |-> {}, edges |-> <<>>]
  BY KillSet DEF NoCommand
<1>3. QED
  BY <1>1, <1>2

LEMMA SureDeferKill ==
  ASSUME Orderly, IInv, Sure, NEW e \in Entities, DeferKill(e)
  PROVE  Sure'
<1>1. /\ phase = "defer" /\ e \in promised.alive /\ DeferKills = "unlinked" /\ NoLinkInto(Deleted(promised, e))
      /\ commands' = Recorded(commands, [NoCommand(e) EXCEPT !.kill = TRUE])
      /\ promised' = Kill(promised, e) /\ UNCHANGED <<alive, store, stack, phase, batch, failure>>
  BY RelationsAssumption DEF DeferKill, DeferCall, Orderly, RelationsAssumption
<1>2. /\ stack = <<>> /\ batch = <<>> /\ Distinct(commands) /\ Waits = ToSet(commands)
      /\ promised.alive \subseteq alive
  BY <1>1, InScope
<1>3. PICK A \in SUBSET Entities : A = alive
  BY DEF IInv, Core
<1>4. PICK S : S = store
  OBVIOUS
<1>5. PICK P \in Graphs : P = promised
  BY DEF IInv, Core
<1>6. PICK cs \in Seq(Commands) : cs = commands
  BY DEF IInv, Core
<1>7. PICK W : W = Waits
  OBVIOUS
<1>8. PICK k : k = [NoCommand(e) EXCEPT !.kill = TRUE]
  OBVIOUS
<1>9. k \in Commands /\ k.entity = e /\ k.kill /\ k.removes = {} /\ DOMAIN k.edges = {}
  BY <1>8, KillCommandIs
<1>10. PICK old : old = CommandOf(cs, k.entity)
  OBVIOUS
<1>11. old.entity = e
  BY <1>6, <1>9, <1>10, CommandOfIs
<1>12. PICK rs : rs = Recorded(cs, k)
  OBVIOUS
<1>13. /\ k \in ToSet(rs) /\ ToSet(rs) \subseteq ToSet(cs) \cup {k} /\ ToSet(cs) \ {old} \subseteq ToSet(rs)
       /\ Distinct(cs) => Distinct(rs)
  <2>1. /\ k \in ToSet(rs) /\ ToSet(rs) \subseteq ToSet(cs) \cup {k} /\ ToSet(cs) \ {old} \subseteq ToSet(rs)
        /\ \/ old \in ToSet(cs)
           \/ old = NoCommand(k.entity) /\ \A d \in ToSet(cs) : d.entity # k.entity
        /\ Distinct(cs) => /\ Distinct(rs)
                           /\ \A d \in ToSet(rs) : d.entity = k.entity => d = k
                           /\ \A d \in ToSet(cs) : d.entity = k.entity => d = old
    BY <1>9, <1>10, <1>12, RecordedSet
  <2>2. QED
    BY <2>1
<1>14. PICK Z : Z = ToSet(rs)
  OBVIOUS
<1>15. commands' = rs /\ Waits' = Z
  <2>1. commands' = rs
    BY <1>1, <1>6, <1>8, <1>12
  <2>2. ToSet(<<>>) = {}
    BY DEF ToSet
  <2>3. QED
    BY <1>1, <1>2, <1>14, <2>1, <2>2 DEF Waits
<1>16. PICK D : D = Deleted(P, e)
  OBVIOUS
<1>17. PICK Q : Q = Kill(P, e)
  OBVIOUS
<1>18. PICK U : U = Dues(A, stack, W)
  OBVIOUS
<1>19. PICK V : V = Dues(A, stack, Z)
  OBVIOUS
<1>20. Pact(S, A, P, U, W) /\ e \in P.alive /\ P.alive \subseteq A /\ W = ToSet(cs)
  BY <1>1, <1>2, <1>3, <1>4, <1>5, <1>6, <1>7, <1>18 DEF Sure
<1>21. Plain(W)
  BY <1>20 DEF Pact
<1>22. \A r \in Relations : OnDelete[r] = "delete" => \A x \in P.alive : Silent(W, x, r)
  <2>1. \A r \in Deferrable : OnDelete[r] # "delete"
    BY <1>1 DEF Orderly
  <2>2. QED
    BY <1>21, <2>1 DEF Plain, Silent
<1>23. \A c \in W : \A r \in DOMAIN c.edges : c.edges[r] \notin D
  <2>1. \A i \in DOMAIN cs : \A r \in DOMAIN cs[i].edges : cs[i].edges[r] \notin D
    BY <1>1, <1>5, <1>6, <1>16 DEF NoLinkInto
  <2>2. QED
    BY <1>20, <2>1 DEF ToSet
<1>24. \A c \in Z : c \in W \/ c = k
  BY <1>13, <1>14, <1>20
<1>25. \A c \in W : c.entity = e \/ c \in Z
  BY <1>11, <1>13, <1>14, <1>20
<1>26. Plain(Z)
  BY <1>1, <1>9, <1>21, <1>24 DEF Plain
<1>27. U \ {e} \subseteq V /\ e \in V /\ V \subseteq U \cup {e}
  <2>1. k \in Z /\ e \in A
    BY <1>13, <1>14, <1>20
  <2>2. QED
    BY <1>9, <1>18, <1>19, <1>24, <1>25, <2>1 DEF Dues
<1>28. Pact(S, A, Q, V, Z)
  <2>1. \A c \in Z : c \in W \/ (c.entity = e /\ DOMAIN c.edges = {})
    BY <1>9, <1>24
  <2>2. U \ {e} \subseteq V /\ e \in V /\ V \subseteq U \cup {e} /\ e \in P.alive
    BY <1>20, <1>27
  <2>3. QED
    BY ONLY <1>5, <1>16, <1>17, <1>20, <1>22, <1>23, <1>25, <1>26, <2>1, <2>2, PactKill
<1>29. Apart(S, A, Q)
  <2>1. Q.alive = P.alive \ D
    BY <1>5, <1>16, <1>17, KillIs
  <2>2. Apart(S, A, P)
    BY <1>1, <1>3, <1>4, <1>5 DEF Sure
  <2>3. \A r \in Relations, x \in A : OnDelete[r] = "remove" => S[r].target[x] \notin D
    BY <1>1, <1>3, <1>4, <1>5, <1>16 DEF NoLinkInto
  <2>4. QED
    BY <2>1, <2>2, <2>3 DEF Apart
<1>30. failure' = "none" /\ Flow(store', alive', stack') /\ Leaving' /\ Scopes'
  <2>1. failure' = "none" /\ Flow(store', alive', stack')
    BY <1>1 DEF Sure
  <2>2. Leaving'
    BY <1>1, <1>2 DEF Leaving
  <2>3. Distinct(commands')
    BY <1>2, <1>6, <1>13, <1>15
  <2>4. Distinct(commands)'
    BY <2>3 DEF Distinct
  <2>5. QED
    BY <1>1, <1>2, <2>1, <2>2, <2>4 DEF Scopes
<1>31. /\ Pact(store', alive', promised', V, Z) /\ Apart(store', alive', promised')
       /\ Dues(alive', stack', Z) = V
  BY <1>1, <1>3, <1>4, <1>5, <1>17, <1>19, <1>28, <1>29
<1>32. QED
  BY <1>15, <1>30, <1>31, SureNext

-----------------------------------------------------------------------------
(* The flush of one command.                                                  *)

LEMMA SureKillCommand ==
  ASSUME IInv, Sure, KillCommand
  PROVE  Sure'
<1>1. /\ stack = <<>> /\ phase = "flush" /\ batch # <<>> /\ Head(batch).entity \in alive /\ Head(batch).kill
      /\ batch' = Tail(batch) /\ stack' = <<KillFrame(Head(batch).entity)>>
      /\ UNCHANGED <<alive, store, phase, commands, failure, promised>>
  BY DEF KillCommand, Flushing, Returned
<1>2. PICK h \in Commands : h = Head(batch)
  BY <1>1, FirstCommand
<1>3. PICK e \in Entities : e = h.entity
  BY CommandFields DEF CommandTypes
<1>4. /\ KillFrame(e) \in Frames /\ KillFrame(e).hook = "kill" /\ KillFrame(e).entity = e
  BY KillFrameTyped
<1>5. <<>> \in Seq(Frames) /\ stack' = Append(<<>>, KillFrame(e)) /\ e \in alive
  BY <1>1, <1>2, <1>3
<1>6. Leaving'
  BY <1>4, <1>5, LeavingKill
<1>7. Flow(store, alive, stack')
  <2>1. \A r \in Relations : ~store[r].marked[e]
    BY <1>1, Quiet
  <2>2. PICK st \in Seq(Frames) : st = <<>>
    BY <1>5
  <2>3. PICK tt : tt = Append(st, KillFrame(e))
    OBVIOUS
  <2>4. /\ \A r \in Relations : DoneIn(st, r) = DoneIn(stack, r)
        /\ \A r \in Relations : RanIn(st, r) = RanIn(stack, r)
    BY <1>1, <2>2
  <2>5. \A r \in Relations : \A x \in alive :
          Awaits(stack, store[r].target[x], r, x) => Awaits(tt, store[r].target[x], r, x)
    BY <1>1 DEF Awaits
  <2>6. Flow(store, alive, stack)
    BY DEF Sure
  <2>7. Flow(store, alive, tt)
    BY <1>5, <2>1, <2>3, <2>4, <2>5, <2>6, FlowPushKill
  <2>8. QED
    BY <1>5, <2>2, <2>3, <2>7
<1>8. UnderIn(stack') = {e} /\ UnderIn(stack) = {}
  <2>1. UnderIn(stack') = UnderIn(<<>>) \cup {x \in Entities : Kills(KillFrame(e), x)}
    BY <1>4, <1>5, Pushed
  <2>2. UnderIn(<<>>) = {}
    BY DEF UnderIn
  <2>3. QED
    BY <1>1, <1>4, <2>1, <2>2 DEF Kills
<1>9. PICK Z : Z = Waits'
  OBVIOUS
<1>10. PICK W : W = Waits
  OBVIOUS
<1>11. W = {h} \cup Z
  <2>1. Z = ToSet(Tail(batch)) \cup ToSet(commands)
    BY <1>1, <1>9 DEF Waits
  <2>2. QED
    BY <1>1, <1>2, <1>10, <2>1, HeadTaken DEF Waits
<1>12. PICK A \in SUBSET Entities : A = alive
  BY DEF IInv, Core
<1>13. PICK S : S = store
  OBVIOUS
<1>14. PICK P : P = promised
  OBVIOUS
<1>15. PICK U : U = Dues(A, stack, W)
  OBVIOUS
<1>16. Pact(S, A, P, U, W) /\ U \subseteq A \ P.alive /\ Apart(S, A, P)
  <2>1. Pact(S, A, P, U, W) /\ Apart(S, A, P)
    BY <1>1, <1>10, <1>12, <1>13, <1>14, <1>15 DEF Sure
  <2>2. QED
    BY <2>1 DEF Pact, Doom
<1>17. h.kill /\ e \in A
  BY <1>1, <1>2, <1>5, <1>12
<1>18. e \in U /\ Dues(A, stack', Z) = U
  BY <1>3, <1>8, <1>11, <1>15, <1>17 DEF Dues
<1>19. Pact(S, A, P, U, Z)
  <2>1. Z \subseteq W /\ \A c \in W : c \in Z \/ c.entity \notin P.alive
    BY <1>3, <1>11, <1>16, <1>18
  <2>2. QED
    BY <1>16, <2>1, PactSame
<1>20. Scopes' /\ failure' = "none"
  BY <1>1 DEF Sure, Scopes
<1>21. /\ Pact(store', alive', promised', U, Z) /\ Apart(store', alive', promised')
       /\ Dues(alive', stack', Z) = U /\ Flow(store', alive', stack')
  BY <1>1, <1>7, <1>12, <1>13, <1>14, <1>16, <1>18, <1>19
<1>22. QED
  BY <1>6, <1>9, <1>20, <1>21, SureNext

(* What an edge command leaves to the next batch.                             *)
LEMMA FollowsQueued ==
  ASSUME NEW cs \in Seq(Commands), NEW B, NEW c \in Commands, NEW m \in SUBSET Relations,
         NEW e \in Entities, c.entity = e,
         NEW W, W = {c} \cup B \cup ToSet(cs), NEW Z, Z = B \cup ToSet(Queued(cs, e, m))
  PROVE  Follows(W, Z, c, m)
<1>1. CASE m = {}
  <2>1. Z = B \cup ToSet(cs)
    BY <1>1 DEF Queued
  <2>2. QED
    BY <1>1, <2>1 DEF Follows
<1>2. CASE m # {}
  <2>1. PICK rs : rs = Queued(cs, e, m)
    OBVIOUS
  <2>2. PICK q \in Commands, old \in Commands : QueuedAs(cs, rs, e, m, q, old)
    BY <1>2, <2>1, QueuedSet
  <2>3. /\ q.entity = e /\ q.kill = old.kill /\ q.edges = old.edges /\ q.removes = old.removes \cup m
        /\ q \in ToSet(rs) /\ ToSet(rs) \subseteq ToSet(cs) \cup {q} /\ ToSet(cs) \ {old} \subseteq ToSet(rs)
        /\ old.entity = e
        /\ old \in ToSet(cs) \/ (~old.kill /\ old.removes = {} /\ DOMAIN old.edges = {})
    BY <2>2 DEF QueuedAs
  <2>4. q \in Z /\ Z \subseteq W \cup {q} /\ \A o \in W : o = c \/ o = old \/ o \in Z
    BY <2>1, <2>3
  <2>5. old \in W \/ (~old.kill /\ old.removes = {} /\ DOMAIN old.edges = {})
    BY <2>3
  <2>6. ASSUME NEW d \in Z
        PROVE  /\ \A r \in DOMAIN d.edges : \E o \in W : o.entity = d.entity /\ r \in DOMAIN o.edges /\ o.edges[r] = d.edges[r]
               /\ \A r \in d.removes \ DOMAIN d.edges :
                    \/ d.entity = c.entity /\ r \in m
                    \/ \E o \in W : o.entity = d.entity /\ r \in o.removes \ DOMAIN o.edges
               /\ d.kill => \E o \in W : o.entity = d.entity /\ o.kill
    <3>1. CASE d \in W
      BY <3>1
    <3>2. CASE d = q
      BY <2>3, <2>5, <3>2
    <3>3. QED
      BY <2>4, <2>6, <3>1, <3>2
  <2>7. ASSUME NEW o \in W
        PROVE  o = c \/ \E d \in Z :
                 /\ d.entity = o.entity /\ (o.kill => d.kill)
                 /\ DOMAIN o.edges \cup o.removes \subseteq DOMAIN d.edges \cup d.removes
    <3>1. CASE o = old
      BY <2>3, <2>4, <3>1
    <3>2. CASE o \in Z
      BY <3>2
    <3>3. QED
      BY <2>4, <2>7, <3>1, <3>2
  <2>8. \E d \in Z : d.entity = c.entity /\ m \subseteq d.removes
    BY <2>3, <2>4
  <2>9. QED
    BY <2>6, <2>7, <2>8 DEF Follows
<1>3. QED
  BY <1>1, <1>2

LEMMA SureApply ==
  ASSUME Orderly, IInv, Sure, ApplyCommand
  PROVE  Sure'
<1>1. /\ stack = <<>> /\ phase = "flush" /\ batch # <<>> /\ Head(batch).entity \in alive /\ ~Head(batch).kill
      /\ EdgeCommand(Head(batch)) /\ batch' = Tail(batch) /\ UNCHANGED <<alive, stack, phase, promised>>
  BY DEF ApplyCommand, Flushing, Returned
<1>2. PICK c \in Commands : c = Head(batch)
  BY <1>1, FirstCommand
<1>3. PICK e \in Entities : e = c.entity
  BY CommandFields DEF CommandTypes
<1>4. PICK A \in SUBSET Entities : A = alive
  BY DEF IInv, Core
<1>5. PICK S : S = store
  OBVIOUS
<1>6. PICK P : P = promised
  OBVIOUS
<1>7. PICK W : W = Waits
  OBVIOUS
<1>8. PICK Z : Z = Waits'
  OBVIOUS
<1>9. PICK m : m = Unsetting(c)
  OBVIOUS
<1>10. PICK cs \in Seq(Commands) : cs = commands
  BY DEF IInv, Core
<1>11. PICK U : U = Dues(A, stack, W)
  OBVIOUS
<1>12. Pact(S, A, P, U, W) /\ Apart(S, A, P) /\ Flow(S, A, <<>>)
  BY <1>1, <1>4, <1>5, <1>6, <1>7, <1>11 DEF Sure
<1>13. Plain(W) /\ Aimed(P, W) /\ P.alive \subseteq A
  BY <1>12 DEF Pact, Doom
<1>14. c \in W /\ W = {c} \cup ToSet(Tail(batch)) \cup ToSet(cs)
  BY <1>1, <1>2, <1>7, <1>10, HeadTaken DEF Waits
<1>15. /\ \A r \in DOMAIN c.edges : r \notin Acyclic /\ c.edges[r] \in alive \cup {NoEntity}
       /\ DOMAIN c.edges \subseteq Relations
  <2>1. DOMAIN c.edges \subseteq Deferrable
    BY <1>13, <1>14 DEF Plain
  <2>2. \A r \in DOMAIN c.edges : c.edges[r] \in P.alive \cup {NoEntity}
    BY <1>13, <1>14 DEF Aimed
  <2>3. QED
    BY <1>4, <1>13, <2>1, <2>2, RelationsAssumption DEF Orderly, RelationsAssumption
<1>16. /\ failure' = "none"
       /\ \A r \in Relations : \A x \in Entities : store'[r].target[x] =
            IF x # c.entity THEN store[r].target[x]
            ELSE IF r \in Setting(c) THEN c.edges[r] ELSE KeptEdge(c, r)
  <2>1. c.entity \in alive /\ EdgeCommand(c) /\ Flow(store, alive, stack)
    BY <1>1, <1>2 DEF Sure
  <2>2. QED
    BY <1>1, <1>15, <2>1, EditEffect
<1>17. PICK T : T = store'
  OBVIOUS
<1>18. m \in SUBSET Relations
  BY <1>9, <1>15 DEF Unsetting
<1>19. Z = ToSet(Tail(batch)) \cup ToSet(Queued(cs, e, m))
  <2>1. commands' = Queued(commands, c.entity, Unsetting(c))
    BY <1>1, <1>2, EdgeCommandIs
  <2>2. QED
    BY <1>1, <1>3, <1>8, <1>9, <1>10, <2>1 DEF Waits
<1>20. Follows(W, Z, c, m)
  BY <1>3, <1>14, <1>18, <1>19, FollowsQueued
<1>21. \A r \in Relations : KeptEdge(c, r) = IF r \in c.removes THEN NoEntity ELSE S[r].target[e]
  BY <1>3, <1>5 DEF KeptEdge, Gone, HasTarget
<1>22. /\ \A r \in Relations : \A x \in Entities \ {e} : T[r].target[x] = S[r].target[x]
       /\ \A r \in Relations : T[r].target[e] = IF r \in Setting(c) THEN c.edges[r] ELSE KeptEdge(c, r)
  BY <1>3, <1>5, <1>16, <1>17
<1>23. Flushed(S, T, c, m)
  <2>1. m \subseteq {r \in DOMAIN c.edges : c.edges[r] = NoEntity}
    BY <1>9 DEF Unsetting
  <2>2. ASSUME NEW r \in Relations
        PROVE  /\ r \in DOMAIN c.edges /\ c.edges[r] # NoEntity => T[r].target[e] = c.edges[r]
               /\ r \in DOMAIN c.edges /\ c.edges[r] = NoEntity /\ r \notin m => T[r].target[e] = NoEntity
               /\ r \in DOMAIN c.edges /\ c.edges[r] = NoEntity => T[r].target[e] \in {S[r].target[e], NoEntity}
               /\ r \in c.removes \ DOMAIN c.edges => T[r].target[e] = NoEntity
               /\ r \notin c.removes \cup DOMAIN c.edges => T[r].target[e] = S[r].target[e]
    BY <1>9, <1>21, <1>22 DEF Setting, Unsetting
  <2>3. QED
    BY <1>3, <1>22, <2>1, <2>2 DEF Flushed
<1>24. U # {} => \A r \in Deferrable : OnDelete[r] = "remove"
  <2>1. SUFFICES ASSUME NEW x \in U
                 PROVE  \A r \in Deferrable : OnDelete[r] = "remove"
    OBVIOUS
  <2>2. UnderIn(stack) = {}
    BY <1>1, Quiet
  <2>3. PICK d \in W : d.kill
    BY <1>11, <2>2 DEF Dues
  <2>4. QED
    BY <1>13, <2>3 DEF Plain, Orderly
<1>25. c.entity \in A /\ ~c.kill
  BY <1>1, <1>2, <1>4
<1>26. Pact(T, A, P, U, Z)
  BY <1>4, <1>12, <1>14, <1>20, <1>23, <1>24, <1>25, PactApply
<1>27. Apart(T, A, P)
  BY <1>4, <1>12, <1>13, <1>14, <1>23, <1>25, ApartApply
<1>28. Dues(A, stack, Z) = U
  BY <1>11, <1>20, <1>25, KillsKept
<1>29. Flow(T, A, <<>>)
  <2>1. e \in A
    BY <1>3, <1>25
  <2>2. \A r \in Relations : T[r].target[e] = S[r].target[e] \/ T[r].target[e] \in A \cup {NoEntity}
    BY <1>4, <1>15, <1>21, <1>22 DEF Setting
  <2>3. QED
    BY <1>4, <1>12, <1>22, <2>1, <2>2, FlowEdited
<1>30. Scopes' /\ Leaving'
  BY <1>1 DEF Scopes, Leaving
<1>31. /\ Pact(store', alive', promised', U, Z) /\ Apart(store', alive', promised')
       /\ Dues(alive', stack', Z) = U /\ Flow(store', alive', stack')
  BY <1>1, <1>4, <1>6, <1>17, <1>26, <1>27, <1>28, <1>29
<1>32. QED
  BY <1>8, <1>16, <1>30, <1>31, SureNext

-----------------------------------------------------------------------------
LEMMA SureStep == Orderly /\ IInv /\ Nested /\ Sure /\ [Next]_vars => Sure'
<1>1. SUFFICES ASSUME Orderly, IInv, Nested, Sure, [Next]_vars
               PROVE  Sure'
  OBVIOUS
<1>2. OneOwner
  BY <1>1 DEF Orderly
<1>3. ASSUME NEW e \in Entities, NEW r \in Relations, NEW t \in Entities, RelateCall(e, r, t)
      PROVE  Sure'
  BY <1>1, <1>3, SureRelateCall
<1>4. ASSUME NEW e \in Entities, NEW r \in Relations, UnrelateCall(e, r)
      PROVE  Sure'
  BY <1>1, <1>4, SureUnrelateCall
<1>5. ASSUME NEW e \in Entities, KillCall(e)
      PROVE  Sure'
  BY <1>1, <1>5, SureKillCall
<1>6. ASSUME NEW e \in Entities, NEW r \in Relations, NEW t \in Entities, DeferRelate(e, r, t)
      PROVE  Sure'
  BY <1>1, <1>6, SureDeferRelate
<1>7. ASSUME NEW e \in Entities, NEW r \in Relations, DeferUnrelate(e, r)
      PROVE  Sure'
  BY <1>1, <1>7, SureDeferUnrelate
<1>8. ASSUME NEW e \in Entities, DeferKill(e)
      PROVE  Sure'
  BY <1>1, <1>8, SureDeferKill
<1>9. CASE DeferBegin \/ DeferEnd \/ NextBatch \/ EndFlush
  BY <1>1, <1>9, SureDefers
<1>10. CASE SkipCommand
  BY <1>1, <1>10, SureSkip
<1>11. CASE KillCommand
  BY <1>1, <1>11, SureKillCommand
<1>12. CASE ApplyCommand
  BY <1>1, <1>12, SureApply
<1>13. CASE KillTarget
  BY <1>1, <1>13, SureKillTarget
<1>14. CASE KillSources
  BY <1>1, <1>2, <1>14, SureKillSources
<1>15. CASE KillRow
  BY <1>1, <1>15, SureKillRow
<1>16. CASE KillSource
  BY <1>1, <1>16, SureKillSource
<1>17. CASE UnrelateSource
  BY <1>1, <1>17, SureUnrelateSource
<1>18. CASE SourcesDone
  BY <1>1, <1>18, SureSourcesDone
<1>19. CASE UNCHANGED vars
  BY <1>1, <1>19 DEF vars, Sure, Flow, Pointing, Drained, Cleared, Leaving, Scopes, Distinct, Waits, Dues, Top,
     Apart
<1>20. QED
  BY <1>1, <1>3, <1>4, <1>5, <1>6, <1>7, <1>8, <1>9, <1>10, <1>11, <1>12, <1>13, <1>14, <1>15, <1>16,
     <1>17, <1>18, <1>19 DEF Next, Calls, Work

LEMMA SureAlways ==
  ASSUME Orderly
  PROVE  Spec => []Sure
<1>1. OneOwner
  BY DEF Orderly
<1>2. Spec => []Nested
  BY <1>1, NestedAlways
<1>3. IInv /\ Nested /\ Sure /\ [Next]_vars => Sure'
  BY SureStep
<1>4. QED
  BY <1>2, <1>3, IInvAlways, SureInit, PTL DEF Spec

(* Whatever is related, unrelated and killed, at once or in scopes, no hook    *)
(* follows a dead entity or an edge whose place is wrong, and no flush is      *)
(* rejected, as long as one relation at most deletes the sources of a deleted  *)
(* target and the calls made in scopes are orderly.                            *)
THEOREM NothingEverFails ==
  ASSUME Orderly
  PROVE  Spec => []NothingFails
<1>1. Sure => NothingFails
  BY DEF Sure, NothingFails
<1>2. QED
  BY <1>1, SureAlways, PTL

LEMMA PromiseKept == IInv /\ Sure => Settled
<1>1. SUFFICES ASSUME IInv, Sure, Idle
               PROVE  Now = promised
  BY DEF Settled
<1>2. Pact(store, alive, promised, {}, {}) /\ promised.alive = alive /\ Flow(store, alive, stack)
  BY <1>1, Unspoken DEF Sure
<1>3. PICK P \in Graphs : P = promised
  BY <1>1 DEF IInv, Core
<1>4. /\ P = [alive |-> P.alive, target |-> P.target]
      /\ P.target \in [Relations -> [Entities -> Entities \cup {NoEntity}]]
  BY DEF Graphs
<1>5. \A r \in Relations : store[r].target \in [Entities -> Entities \cup {NoEntity}]
  BY <1>1, StoreFacts DEF IndexTypes
<1>6. ASSUME NEW r \in Relations, NEW x \in Entities
      PROVE  P.target[r][x] = store[r].target[x]
  <2>1. CASE x \in alive
    BY <1>2, <1>3, <1>6, <2>1 DEF Pact, Left, Silent
  <2>2. CASE x \notin alive
    BY <1>2, <1>3, <1>6, <2>2 DEF Pact, Gravestones, Flow, Cleared
  <2>3. QED
    BY <2>1, <2>2
<1>7. \A r \in Relations : P.target[r] = store[r].target
  BY <1>4, <1>5, <1>6
<1>8. P.target = [r \in Relations |-> store[r].target]
  BY <1>4, <1>7
<1>9. QED
  BY <1>2, <1>3, <1>4, <1>8 DEF Now

(* When every call has returned and every scope is flushed, the entities and   *)
(* the edges are those the calls promise when made one after another, however  *)
(* the commands were merged and whichever cascades the kills began.            *)
THEOREM SettlesAsPromised ==
  ASSUME Orderly
  PROVE  Spec => []Settled
<1>1. IInv /\ Sure => Settled
  BY PromiseKept
<1>2. QED
  BY <1>1, IInvAlways, SureAlways, PTL

=============================================================================
