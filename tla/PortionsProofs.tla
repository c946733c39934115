--------------------------- MODULE PortionsProofs ---------------------------
(***************************************************************************)
(* Each row of a parallel system's run is handed out exactly once, for any *)
(* threads, tables, chunk size and batch size, and whatever is iterated    *)
(* beside the run; and no run hides a change from a filtered query.        *)
(***************************************************************************)
EXTENDS Portions, RecursionLemmas, SequenceTheorems, TLAPS

-----------------------------------------------------------------------------
(* Change detection alone, for any queries, tables and clock.                *)

(* The last of the iterations in progress, and those below it.             *)
LEMMA CurrentTyped ==
  ASSUME NEW S, NEW s \in Seq(S), s # <<>>
  PROVE  /\ Len(s) \in Nat \ {0}
         /\ Last(s) = s[Len(s)] /\ Last(s) \in S
         /\ Front(s) \in Seq(S) /\ Len(Front(s)) = Len(s) - 1
<1>1. Len(s) \in Nat /\ Len(s) # 0
  BY EmptySeq, LenProperties
<1>2. s[Len(s)] \in S
  BY <1>1, ElementOfSeq
<1>3. Front(s) \in Seq(S) /\ Len(Front(s)) = Len(s) - 1
  <2>1. \A i \in 1..(Len(s) - 1) : s[i] \in S
    BY <1>1, ElementOfSeq
  <2>2. Front(s) = SubSeq(s, 1, Len(s) - 1)
    BY DEF Front
  <2>3. Front(s) \in Seq(S)
    BY <1>1, <2>1, <2>2, SubSeqProperties
  <2>4. Len(Front(s)) = IF 1 <= Len(s) - 1 THEN (Len(s) - 1) - 1 + 1 ELSE 0
    BY <1>1, <2>1, <2>2, SubSeqProperties
  <2>5. \A n \in Nat \ {0} : (IF 1 <= n - 1 THEN (n - 1) - 1 + 1 ELSE 0) = n - 1
    OBVIOUS
  <2>6. Len(Front(s)) = Len(s) - 1
    BY <1>1, <2>4, <2>5, Zenon
  <2>7. QED
    BY <2>3, <2>6
<1>4. QED
  BY <1>1, <1>2, <1>3 DEF Last

(* One more batch of the innermost iteration.                              *)
LEMMA AdvancedTyped ==
  ASSUME NEW s \in Seq(Iteration), s # <<>>, NEW t \in T
  PROVE  /\ AtTable(s, t) \in Seq(Iteration)
         /\ Len(AtTable(s, t)) = Len(s)
<1>1. Last(s) \in Iteration /\ Last(s) = s[Len(s)] /\ Len(s) \in 1..Len(s)
  BY CurrentTyped
<1>2. T \subseteq 0..Tables
  BY TicksAssumption DEF T, TicksAssumption
<1>3. [s[Len(s)] EXCEPT !.table = t] \in Iteration
  BY <1>1, <1>2 DEF Iteration
<1>4. AtTable(s, t) = [s EXCEPT ![Len(s)] = [s[Len(s)] EXCEPT !.table = t]]
  BY <1>1 DEF AtTable
<1>5. QED
  BY <1>1, <1>3, <1>4, ExceptSeq, LenProperties

(* What the queries have seen stays a table of versions.                   *)
LEMMA SeenTyped ==
  ASSUME seen \in [Queries -> [T -> 0..MaxChanges]], NEW q \in Queries, NEW t \in T,
         version \in [T -> 0..MaxChanges]
  PROVE  /\ SeenBy(q, t) \in [Queries -> [T -> 0..MaxChanges]]
         /\ CanChange(t) => OwnWriteSeen(q, t) \in [Queries -> [T -> 0..MaxChanges]]
<1>1. seen[q] \in [T -> 0..MaxChanges] /\ version[t] \in 0..MaxChanges
  OBVIOUS
<1>2. [seen[q] EXCEPT ![t] = version[t]] \in [T -> 0..MaxChanges]
  BY <1>1
<1>3. SeenBy(q, t) \in [Queries -> [T -> 0..MaxChanges]]
  BY <1>2 DEF SeenBy
<1>4. ASSUME CanChange(t)
      PROVE  [seen[q] EXCEPT ![t] = IF @ = version[t] THEN @ + 1 ELSE @] \in [T -> 0..MaxChanges]
  BY <1>1, <1>4, TicksAssumption DEF CanChange, TicksAssumption
<1>5. ASSUME CanChange(t) PROVE OwnWriteSeen(q, t) \in [Queries -> [T -> 0..MaxChanges]]
  BY <1>4, <1>5 DEF OwnWriteSeen
<1>6. QED
  BY <1>3, <1>5

(* No step of Next takes a variable out of its type.                        *)
LEMMA TypeStep == TypeOK /\ [Next]_vars => TypeOK'
<1> SUFFICES ASSUME TypeOK, [Next]_vars PROVE TypeOK'
  OBVIOUS
<1> USE TicksAssumption DEF TicksAssumption
<1>1. ASSUME NEW q \in Queries, Iter(q) PROVE TypeOK'
  <2>1. [query |-> q, tick |-> clock, last |-> last_run[q], table |-> 0] \in Iteration
    BY <1>1 DEF Iter, TypeOK, Iteration
  <2>2. iters' \in Seq(Iteration) /\ Len(iters') = Len(iters) + 1 /\ Len(iters) \in Nat
    BY <1>1, <2>1, AppendProperties, LenProperties DEF Iter, TypeOK
  <2>3. Len(iters) < Nesting /\ clock' \in 1..(MaxClock + 1)
    BY <1>1 DEF Iter, TypeOK
  <2>4. UNCHANGED <<written, structure, rows, last_run, version, seen>>
    BY <1>1 DEF Iter
  <2>5. QED
    BY <2>2, <2>3, <2>4 DEF TypeOK
<1>2. ASSUME NEW t \in T, IterNext(t) PROVE TypeOK'
  <2>1. iters \in Seq(Iteration) /\ iters # <<>> /\ Current \in Iteration
    BY <1>2, CurrentTyped DEF TypeOK, IterNext, Current
  <2>2. iters' \in Seq(Iteration) /\ Len(iters') = Len(iters)
    BY <1>2, <2>1, AdvancedTyped DEF IterNext
  <2>3. written' \in [T -> 0..(MaxClock + 1)]
    <3>1. written \in [T -> 0..(MaxClock + 1)] /\ Current.tick \in 0..(MaxClock + 1)
      <4>1. Current.tick \in 0..MaxClock
        BY <2>1 DEF Iteration
      <4>2. written \in [T -> 0..(MaxClock + 1)]
        BY DEF TypeOK
      <4>3. QED
        BY <4>1, <4>2
    <3>2. written' = Stamped(Current, t)
      BY <1>2 DEF IterNext
    <3>3. QED
      <4>1. [written EXCEPT ![t] = Current.tick] \in [T -> 0..(MaxClock + 1)]
        BY <3>1
      <4>2. QED
        BY <3>1, <3>2, <4>1 DEF Stamped
  <2>4. seen' \in [Queries -> [T -> 0..MaxChanges]]
    BY <1>2, <2>1, SeenTyped DEF IterNext, TypeOK, Iteration
  <2>5. QED
    BY <1>2, <2>2, <2>3, <2>4 DEF IterNext, TypeOK
<1>3. ASSUME IterEnd PROVE TypeOK'
  <2>1. /\ Current \in Iteration /\ Len(iters) \in Nat
        /\ Front(iters) \in Seq(Iteration) /\ Len(Front(iters)) = Len(iters) - 1
    BY <1>3, CurrentTyped DEF TypeOK, IterEnd, Current
  <2>2. last_run' \in [Queries -> 0..MaxClock]
    BY <1>3, <2>1 DEF IterEnd, TypeOK, Iteration
  <2>3. iters' = Front(iters) /\ UNCHANGED <<clock, written, structure, rows, version, seen>>
    BY <1>3 DEF IterEnd
  <2>4. QED
    BY <2>1, <2>2, <2>3 DEF TypeOK
<1>4. ASSUME IterAbandon PROVE TypeOK'
  <2>1. /\ Len(iters) \in Nat
        /\ Front(iters) \in Seq(Iteration) /\ Len(Front(iters)) = Len(iters) - 1
    BY <1>4, CurrentTyped DEF TypeOK, IterAbandon
  <2>2. QED
    BY <1>4, <2>1 DEF IterAbandon, TypeOK
<1>5. ASSUME NEW k \in 1..Nesting, WriteField(k) PROVE TypeOK'
  <2>1. iters[k] \in Iteration
    BY <1>5, ElementOfSeq, LenProperties DEF WriteField, TypeOK
  <2>2. version' \in [T -> 0..MaxChanges]
    <3>1. iters[k].table \in T /\ version[iters[k].table] < MaxChanges
      BY <1>5 DEF WriteField, TypeOK, CanChange
    <3>2. version \in [T -> 0..MaxChanges] /\ version[iters[k].table] + 1 \in 0..MaxChanges
      BY <3>1 DEF TypeOK
    <3>3. version' = [version EXCEPT ![iters[k].table] = @ + 1]
      BY <1>5 DEF WriteField
    <3>4. QED
      BY <3>2, <3>3
  <2>3. seen' \in [Queries -> [T -> 0..MaxChanges]]
    BY <1>5, <2>1, SeenTyped DEF WriteField, TypeOK, Iteration
  <2>4. QED
    BY <1>5, <2>2, <2>3 DEF WriteField, TypeOK
<1>6. ASSUME NEW t \in T, Set(t) PROVE TypeOK'
  BY <1>6 DEF Set, TypeOK, CanChange
<1>7. ASSUME NEW t \in T, NEW left \in BOOLEAN, Restructure(t, left) PROVE TypeOK'
  BY <1>7 DEF Restructure, TypeOK, CanChange
<1>8. CASE UNCHANGED vars
  BY <1>8 DEF vars, TypeOK
<1>9. QED
  BY <1>1, <1>2, <1>3, <1>4, <1>5, <1>6, <1>7, <1>8 DEF Next

-----------------------------------------------------------------------------
(* Types: the bounds on the clock and on the changes are those of the      *)
(* guards, and iterations nest no deeper than Nesting (query.c:12-25).     *)
THEOREM TypeCorrect == Spec => []TypeOK
<1>1. Init => TypeOK
  BY TicksAssumption, EmptySeq DEF Init, TypeOK, TicksAssumption, T, Iteration
<1>2. TypeOK /\ [Next]_vars => TypeOK'
  BY TypeStep
<1>3. QED
  BY <1>1, <1>2, PTL DEF Spec

-----------------------------------------------------------------------------
(* Why nothing is lost.  Stamps never pass the clock, and a run that may   *)
(* write is newer than every recorded run; so its stamp is enough to       *)
(* report a change to every query, and the tables a run went past hold no  *)
(* change it did not see, except those stamped later than itself.          *)
StampsBehind ==
  /\ \A t \in T : written[t] <= clock /\ structure[t] <= clock
  /\ \A q \in Queries : last_run[q] < clock
NewestRun(it) ==
  /\ it.tick < clock /\ it.last = last_run[it.query] /\ it.last < it.tick
  /\ it.query \in Writers => \A q \in Queries : last_run[q] < it.tick
StampedBatch(it) ==
  it.query \in Writers /\ it.table \in T => written[it.table] >= it.tick
SeenSoFar(it) ==
  it.query \in Filtered =>
    \A t \in rows : t <= it.table /\ seen[it.query][t] # version[t] => TableChanged(t, it.tick)
RunInv ==
  /\ TypeOK /\ StampsBehind /\ ReportsEveryChange
  /\ iters # <<>> => NewestRun(iters[1]) /\ StampedBatch(iters[1]) /\ SeenSoFar(iters[1])

(* Without nesting the innermost iteration is the only one.                *)
LEMMA OneIteration ==
  ASSUME Nesting = 1, TypeOK, iters # <<>>
  PROVE  /\ Len(iters) = 1 /\ Current = iters[1] /\ iters[1] \in Iteration
         /\ Front(iters) = <<>> /\ T \subseteq Nat
<1>1. /\ Len(iters) \in Nat \ {0} /\ Current = iters[Len(iters)] /\ Current \in Iteration
      /\ Front(iters) \in Seq(Iteration) /\ Len(Front(iters)) = Len(iters) - 1
  BY CurrentTyped DEF Current, TypeOK
<1>2. Len(iters) = 1
  BY <1>1 DEF TypeOK
<1>3. Front(iters) = <<>>
  BY <1>1, <1>2, EmptySeq
<1>4. T \subseteq Nat
  BY TicksAssumption DEF T, TicksAssumption
<1>5. QED
  BY <1>1, <1>2, <1>3, <1>4


(* What TypeOK says of the ticks, as numbers to compare.                   *)
LEMMA TicksAreNumbers ==
  ASSUME TypeOK
  PROVE  /\ clock \in Nat /\ rows \subseteq T /\ T \subseteq Nat \ {0}
         /\ \A t \in T : written[t] \in Nat /\ structure[t] \in Nat
         /\ \A q \in Queries : last_run[q] \in Nat
         /\ \A it \in Iteration : /\ it.query \in Queries /\ it.tick \in Nat
                                  /\ it.last \in Nat /\ it.table \in Nat
<1>1. 0..MaxClock \subseteq Nat /\ 0..(MaxClock + 1) \subseteq Nat /\ 1..(MaxClock + 1) \subseteq Nat
      /\ 0..Tables \subseteq Nat /\ 1..Tables \subseteq Nat \ {0}
  BY TicksAssumption DEF TicksAssumption
<1>2. ASSUME NEW t \in T PROVE written[t] \in Nat /\ structure[t] \in Nat
  BY <1>1 DEF TypeOK
<1>3. ASSUME NEW q \in Queries PROVE last_run[q] \in Nat
  BY <1>1 DEF TypeOK
<1>4. ASSUME NEW it \in Iteration
      PROVE  it.query \in Queries /\ it.tick \in Nat /\ it.last \in Nat /\ it.table \in Nat
  BY <1>1 DEF Iteration
<1>5. clock \in Nat /\ rows \subseteq T /\ T \subseteq Nat \ {0}
  BY <1>1 DEF TypeOK, T
<1>6. QED
  BY <1>2, <1>3, <1>4, <1>5

(* A new run starts from everything stamped so far.                        *)
LEMMA IterPreserves ==
  ASSUME Nesting = 1, RunInv, TypeOK', NEW q \in Queries, Iter(q)
  PROVE  RunInv'
<1> DEFINE it == [query |-> q, tick |-> clock, last |-> last_run[q], table |-> 0]
<1>1. Len(iters) = 0 /\ iters = <<>>
  BY EmptySeq, LenProperties DEF Iter, RunInv, TypeOK
<1>2. iters' = <<it>> /\ iters'[1] = it
  BY <1>1 DEF Iter
<1>3. clock' = clock + 1 /\ clock \in Nat
  BY DEF Iter, RunInv, TypeOK
<1>4. UNCHANGED <<written, structure, rows, last_run, version, seen>>
  BY DEF Iter
<1>5. T \subseteq 1..Tables /\ it.table = 0 /\ it.tick = clock
  BY DEF T
<1>6. /\ written \in [T -> 0..(MaxClock + 1)] /\ structure \in [T -> 0..(MaxClock + 1)]
      /\ last_run \in [Queries -> 0..MaxClock]
  BY DEF RunInv, TypeOK
<1>7. StampsBehind'
  <2>1. ASSUME NEW t \in T PROVE written'[t] <= clock' /\ structure'[t] <= clock'
    BY <1>3, <1>4, <1>6, TicksAssumption DEF RunInv, StampsBehind, TicksAssumption
  <2>2. ASSUME NEW p \in Queries PROVE last_run'[p] < clock'
    BY <1>3, <1>4, <1>6, TicksAssumption DEF RunInv, StampsBehind, TicksAssumption
  <2>3. QED
    BY <2>1, <2>2 DEF StampsBehind
<1>8. ReportsEveryChange'
  BY <1>4 DEF RunInv, ReportsEveryChange, TableChanged
<1>9. NewestRun(iters[1])'
  BY <1>2, <1>3, <1>4 DEF NewestRun, RunInv, StampsBehind
<1>10. StampedBatch(iters[1])' /\ SeenSoFar(iters[1])'
  <2>1. \A t \in T : ~(t <= 0) /\ t # 0
    BY TicksAssumption DEF T, TicksAssumption
  <2>2. rows' \subseteq T /\ it.table \notin T
    BY <1>5, <2>1 DEF TypeOK
  <2>3. QED
    BY <1>2, <1>5, <2>1, <2>2 DEF StampedBatch, SeenSoFar
<1>11. QED
  BY <1>7, <1>8, <1>9, <1>10 DEF RunInv

(* The batch handed out is seen; its stamp is newer than every run; and a  *)
(* table passed over was empty or had no change to report.                 *)
LEMMA IterNextPreserves ==
  ASSUME Nesting = 1, RunInv, TypeOK', NEW t \in T, IterNext(t)
  PROVE  RunInv'
<1> DEFINE it == iters[1]
<1>1. /\ Len(iters) = 1 /\ Current = it /\ it \in Iteration /\ T \subseteq Nat /\ iters # <<>>
      /\ iters \in Seq(Iteration)
  BY OneIteration DEF IterNext, RunInv, TypeOK
<1>2. iters' = [iters EXCEPT ![1] = [it EXCEPT !.table = t]]
  BY <1>1 DEF IterNext, AtTable
<1>3. iters'[1] = [it EXCEPT !.table = t]
  BY <1>1, <1>2, LenProperties
<1>4. /\ iters'[1].query = it.query /\ iters'[1].tick = it.tick
      /\ iters'[1].last = it.last /\ iters'[1].table = t
  BY <1>1, <1>3 DEF Iteration
<1>5. UNCHANGED <<clock, structure, rows, last_run, version>>
  BY DEF IterNext
<1>6. /\ it.query \in Queries /\ it.tick \in Nat /\ it.last \in Nat /\ it.table \in Nat
      /\ clock \in Nat /\ rows \subseteq T
      /\ \A u \in T : written[u] \in Nat /\ structure[u] \in Nat
      /\ \A q \in Queries : last_run[q] \in Nat
  BY <1>1, TicksAreNumbers DEF RunInv
<1>7. NewestRun(it) /\ StampedBatch(it) /\ SeenSoFar(it)
  BY <1>1 DEF RunInv
<1>8. \A u \in T : \/ written'[u] = written[u]
                   \/ u = t /\ written'[u] = it.tick /\ it.query \in Writers
  BY <1>1 DEF IterNext, Stamped, RunInv, TypeOK
<1>9. it.query \in Writers => written'[t] = it.tick
  BY <1>1 DEF IterNext, Stamped, RunInv, TypeOK
<1>10. /\ \A q \in Queries, u \in T : q # it.query \/ u # t => seen'[q][u] = seen[q][u]
       /\ seen'[it.query][t] = version[t]
  BY <1>1, <1>6 DEF IterNext, SeenBy, RunInv, TypeOK
<1>11. StampsBehind'
  BY <1>5, <1>6, <1>7, <1>8 DEF RunInv, StampsBehind, NewestRun
<1>12. ASSUME NEW u \in T, NEW n \in Nat, n < it.tick, TableChanged(u, n)
       PROVE  TableChanged(u, n)'
  BY <1>5, <1>6, <1>8, <1>12 DEF TableChanged
<1>13. ReportsEveryChange'
  <2> SUFFICES ASSUME NEW q \in Filtered, NEW u \in rows, seen'[q][u] # version[u]
               PROVE  TableChanged(u, last_run[q])'
    BY <1>5 DEF ReportsEveryChange, TableChanged
  <2>1. q \in Queries /\ u \in T
    BY <1>6, TicksAssumption DEF TicksAssumption
  <2>2. seen[q][u] # version[u]
    BY <1>10, <2>1
  <2>3. TableChanged(u, last_run[q])
    BY <2>2 DEF RunInv, ReportsEveryChange
  <2>4. /\ last_run[q] \in Nat /\ last_run'[q] = last_run[q]
        /\ it.query \in Writers => last_run[q] < it.tick
    BY <1>5, <1>6, <1>7, <2>1 DEF NewestRun
  <2>5. TableChanged(u, last_run[q])'
    <3>1. CASE it.query \in Writers
      BY <1>12, <2>1, <2>3, <2>4, <3>1 DEF TableChanged
    <3>2. CASE it.query \notin Writers
      BY <1>5, <1>8, <2>1, <2>3, <3>2 DEF TableChanged
    <3>3. QED
      BY <3>1, <3>2
  <2>6. QED
    BY <2>5
<1>14. NewestRun(iters[1])'
  BY <1>4, <1>5, <1>7 DEF NewestRun
<1>15. StampedBatch(iters[1])'
  BY <1>4, <1>6, <1>9 DEF StampedBatch
<1>16. SeenSoFar(iters[1])'
  <2> SUFFICES ASSUME it.query \in Filtered, NEW u \in rows, u <= t,
                      seen'[it.query][u] # version[u]
               PROVE  structure[u] > it.tick \/ written'[u] > it.tick
    BY <1>4, <1>5 DEF SeenSoFar, TableChanged
  <2>1. u \in T /\ u \in Nat /\ t \in Nat /\ u # t /\ seen[it.query][u] # version[u]
    BY <1>1, <1>6, <1>10
  <2>2. written'[u] = written[u]
    BY <1>8, <2>1
  <2>3. CASE u <= it.table
    BY <1>7, <2>1, <2>2, <2>3 DEF SeenSoFar, TableChanged
  <2>4. CASE it.table < u
    <3>1. ~Returns(it, u)
      BY <1>1, <2>1, <2>4 DEF IterNext, PassesOver
    <3>2. ~TableChanged(u, last_run[it.query])
      BY <1>7, <3>1 DEF Returns, NewestRun
    <3>3. QED
      BY <2>1, <3>2 DEF RunInv, ReportsEveryChange
  <2>5. QED
    BY <1>6, <2>1, <2>3, <2>4
<1>17. QED
  BY <1>11, <1>13, <1>14, <1>15, <1>16 DEF RunInv

(* The tables after the last batch hold no change to report.               *)
LEMMA IterEndPreserves ==
  ASSUME Nesting = 1, RunInv, TypeOK', IterEnd
  PROVE  RunInv'
<1> DEFINE it == iters[1]
<1>1. /\ Current = it /\ it \in Iteration /\ Front(iters) = <<>> /\ iters # <<>>
  BY OneIteration DEF IterEnd, RunInv
<1>2. /\ iters' = <<>> /\ last_run' = [last_run EXCEPT ![it.query] = it.tick]
      /\ UNCHANGED <<clock, written, structure, rows, version, seen>>
  BY <1>1 DEF IterEnd
<1>3. /\ it.query \in Queries /\ it.tick \in Nat /\ it.table \in Nat /\ rows \subseteq T
      /\ T \subseteq 1..Tables /\ T \subseteq Nat
  BY <1>1, TicksAreNumbers DEF RunInv, T
<1>4. NewestRun(it) /\ SeenSoFar(it)
  BY <1>1 DEF RunInv
<1>5. \A q \in Queries : last_run'[q] = last_run[q] \/ (q = it.query /\ last_run'[q] = it.tick)
  BY <1>2 DEF RunInv, TypeOK
<1>6. last_run'[it.query] = it.tick
  BY <1>2, <1>3 DEF RunInv, TypeOK
<1>7. StampsBehind'
  BY <1>2, <1>4, <1>5 DEF RunInv, StampsBehind, NewestRun
<1>8. ReportsEveryChange'
  <2> SUFFICES ASSUME NEW q \in Filtered, NEW t \in rows, seen[q][t] # version[t]
               PROVE  TableChanged(t, last_run'[q])
    BY <1>2 DEF ReportsEveryChange, TableChanged
  <2>1. q \in Queries /\ t \in T /\ t \in Nat /\ t < Tables + 1
    <3>1. q \in Queries /\ t \in 1..Tables
      BY <1>3, TicksAssumption DEF TicksAssumption
    <3>2. t \in T
      BY <1>3
    <3>3. QED
      BY <3>1, <3>2, TicksAssumption DEF TicksAssumption
  <2>2. TableChanged(t, last_run[q])
    BY DEF RunInv, ReportsEveryChange
  <2>3. CASE q # it.query
    BY <1>5, <2>1, <2>2, <2>3
  <2>4. CASE q = it.query
    <3>1. CASE t <= it.table
      BY <1>4, <1>6, <2>4, <3>1 DEF SeenSoFar
    <3>2. CASE it.table < t
      <4>1. ~Returns(it, t)
        BY <1>1, <2>1, <3>2 DEF IterEnd, PassesOver
      <4>2. QED
        BY <1>4, <2>2, <2>4, <4>1 DEF Returns, NewestRun
    <3>3. QED
      BY <1>3, <2>1, <3>1, <3>2
  <2>5. QED
    BY <2>3, <2>4
<1>9. QED
  BY <1>2, <1>7, <1>8 DEF RunInv

(* An abandoned iteration records nothing, and keeps the invariant.        *)
LEMMA IterAbandonPreserves ==
  ASSUME Nesting = 1, RunInv, TypeOK', IterAbandon
  PROVE  RunInv'
<1>1. iters' = <<>> /\ UNCHANGED <<clock, written, structure, rows, last_run, version, seen>>
  BY OneIteration DEF IterAbandon, RunInv
<1>2. StampsBehind' /\ ReportsEveryChange'
  BY <1>1 DEF RunInv, StampsBehind, ReportsEveryChange, TableChanged
<1>3. QED
  BY <1>1, <1>2 DEF RunInv

(* A write of the batch is newer than every recorded run, by the batch's   *)
(* stamp; the writer has seen it.                                          *)
LEMMA WriteFieldPreserves ==
  ASSUME Nesting = 1, RunInv, TypeOK', NEW k \in 1..Nesting, WriteField(k)
  PROVE  RunInv'
<1> DEFINE it == iters[1]
           w  == it.table
<1>1. k = 1 /\ iters # <<>>
  BY EmptySeq, LenProperties DEF WriteField
<1>2. it \in Iteration
  BY <1>1, OneIteration DEF RunInv
<1>3. /\ it.query \in Writers /\ it.query \in Queries /\ w \in T /\ it.tick \in Nat
      /\ T \subseteq Nat /\ rows \subseteq T
      /\ \A u \in T : written[u] \in Nat
      /\ \A q \in Queries : last_run[q] \in Nat
  BY <1>1, <1>2, TicksAreNumbers DEF RunInv, WriteField
<1>4. NewestRun(it) /\ StampedBatch(it) /\ SeenSoFar(it)
  BY <1>1 DEF RunInv
<1>5. /\ version' = [version EXCEPT ![w] = @ + 1] /\ seen' = OwnWriteSeen(it.query, w)
      /\ UNCHANGED <<clock, written, structure, rows, last_run, iters>>
  BY <1>1 DEF WriteField
<1>6. \A u \in T : u # w => version'[u] = version[u]
  BY <1>5 DEF RunInv, TypeOK
<1>7. version'[w] = version[w] + 1
  BY <1>3, <1>5 DEF RunInv, TypeOK
<1>8. \A q \in Queries, u \in T : q # it.query \/ u # w => seen'[q][u] = seen[q][u]
  BY <1>3, <1>5 DEF OwnWriteSeen, RunInv, TypeOK
<1>9. seen'[it.query][w] = IF seen[it.query][w] = version[w] THEN seen[it.query][w] + 1
                           ELSE seen[it.query][w]
  BY <1>3, <1>5 DEF OwnWriteSeen, RunInv, TypeOK
<1>10. seen[it.query][w] = version[w] => seen'[it.query][w] = version'[w]
  BY <1>7, <1>9
<1>11. \A q \in Queries : TableChanged(w, last_run[q])
  <2>1. written[w] \in Nat /\ written[w] >= it.tick
    BY <1>3, <1>4 DEF StampedBatch
  <2>2. QED
    BY <1>3, <1>4, <2>1 DEF NewestRun, TableChanged
<1>12. ReportsEveryChange'
  <2> SUFFICES ASSUME NEW q \in Filtered, NEW u \in rows, seen'[q][u] # version'[u]
               PROVE  TableChanged(u, last_run[q])
    BY <1>5 DEF ReportsEveryChange, TableChanged
  <2>1. q \in Queries /\ u \in T
    BY <1>3, TicksAssumption DEF TicksAssumption
  <2>2. CASE u # w
    BY <1>6, <1>8, <2>1, <2>2 DEF RunInv, ReportsEveryChange
  <2>3. QED
    BY <1>11, <2>1, <2>2
<1>13. SeenSoFar(it)'
  <2> SUFFICES ASSUME it.query \in Filtered, NEW u \in rows, u <= w,
                      seen'[it.query][u] # version'[u]
               PROVE  TableChanged(u, it.tick)
    BY <1>5 DEF SeenSoFar, TableChanged
  <2>1. seen[it.query][u] # version[u]
    BY <1>3, <1>6, <1>8, <1>10
  <2>2. QED
    BY <1>4, <2>1 DEF SeenSoFar
<1>14. StampsBehind' /\ NewestRun(it)' /\ StampedBatch(it)'
  BY <1>4, <1>5 DEF RunInv, StampsBehind, NewestRun, StampedBatch
<1>15. QED
  BY <1>12, <1>13, <1>14 DEF RunInv

(* A write from outside, or rows that move, carry the clock's value, newer *)
(* than every run recorded or in progress.                                 *)
LEMMA OutsideChangePreserves ==
  ASSUME RunInv, TypeOK', NEW t \in T,
         \/ Set(t)
         \/ \E left \in BOOLEAN : Restructure(t, left)
  PROVE  RunInv'
<1>1. /\ UNCHANGED <<clock, last_run, iters, seen>>
      /\ version' = [version EXCEPT ![t] = @ + 1]
      /\ rows' \subseteq rows \cup {t}
  BY DEF Set, Restructure
<1>2. \/ written' = [written EXCEPT ![t] = clock] /\ structure' = structure
      \/ written' = written /\ structure' = [structure EXCEPT ![t] = clock]
  BY DEF Set, Restructure
<1>3. /\ clock \in Nat /\ rows \subseteq T /\ T \subseteq Nat
      /\ \A u \in T : written[u] \in Nat /\ structure[u] \in Nat
      /\ \A q \in Queries : last_run[q] \in Nat
  BY TicksAreNumbers DEF RunInv
<1>4. \A u \in T : u # t => /\ written'[u] = written[u] /\ structure'[u] = structure[u]
                            /\ version'[u] = version[u]
  BY <1>1, <1>2 DEF RunInv, TypeOK
<1>5. \/ written'[t] = clock /\ structure'[t] = structure[t]
      \/ written'[t] = written[t] /\ structure'[t] = clock
  <2>1. DOMAIN written = T /\ DOMAIN structure = T
    BY DEF RunInv, TypeOK
  <2>2. QED
    BY <1>2, <2>1
<1>6. \A n \in Nat : n < clock => TableChanged(t, n)'
  BY <1>3, <1>5 DEF TableChanged
<1>7. StampsBehind'
  BY <1>1, <1>3, <1>4, <1>5 DEF RunInv, StampsBehind
<1>8. \A u \in T : written'[u] >= written[u]
  BY <1>3, <1>4, <1>5 DEF RunInv, StampsBehind
<1>9. ReportsEveryChange'
  <2> SUFFICES ASSUME NEW q \in Filtered, NEW u \in rows', seen[q][u] # version'[u]
               PROVE  structure'[u] > last_run[q] \/ written'[u] > last_run[q]
    BY <1>1 DEF ReportsEveryChange, TableChanged
  <2>1. q \in Queries /\ u \in T
    BY <1>1, <1>3, TicksAssumption DEF TicksAssumption
  <2>2. CASE u # t
    BY <1>1, <1>4, <2>1, <2>2 DEF RunInv, ReportsEveryChange, TableChanged
  <2>3. CASE u = t
    BY <1>3, <1>6, <2>1, <2>3 DEF RunInv, StampsBehind, TableChanged
  <2>4. QED
    BY <2>2, <2>3
<1>10. ASSUME iters # <<>> PROVE (NewestRun(iters[1]) /\ StampedBatch(iters[1]) /\ SeenSoFar(iters[1]))'
  <2> DEFINE it == iters[1]
  <2>1. it \in Iteration /\ it.query \in Queries /\ it.tick \in Nat
    <3>1. it \in Iteration
      BY <1>10, CurrentTyped, ElementOfSeq DEF RunInv, TypeOK
    <3>2. QED
      BY <3>1, TicksAreNumbers DEF RunInv
  <2>2. NewestRun(it) /\ StampedBatch(it) /\ SeenSoFar(it)
    BY <1>10 DEF RunInv
  <2>3. NewestRun(it)'
    BY <1>1, <2>2 DEF NewestRun
  <2>4. StampedBatch(it)'
    <3> SUFFICES ASSUME it.query \in Writers, it.table \in T PROVE written'[it.table] >= it.tick
      BY <1>1 DEF StampedBatch
    <3>1. /\ written[it.table] \in Nat /\ written[it.table] >= it.tick
          /\ written'[it.table] >= written[it.table]
      BY <1>3, <1>8, <2>2 DEF StampedBatch
    <3>2. written'[it.table] \in Nat
      BY <1>3, <1>4, <1>5
    <3>3. QED
      BY <2>1, <3>1, <3>2
  <2>5. SeenSoFar(it)'
    <3> SUFFICES ASSUME it.query \in Filtered, NEW u \in rows', u <= it.table,
                        seen[it.query][u] # version'[u]
                 PROVE  structure'[u] > it.tick \/ written'[u] > it.tick
      BY <1>1 DEF SeenSoFar, TableChanged
    <3>1. u \in T
      BY <1>1, <1>3
    <3>2. CASE u # t
      BY <1>1, <1>4, <2>2, <3>1, <3>2 DEF SeenSoFar, TableChanged
    <3>3. CASE u = t
      BY <1>6, <2>1, <2>2, <3>3 DEF NewestRun, TableChanged
    <3>4. QED
      BY <3>2, <3>3
  <2>6. QED
    BY <2>3, <2>4, <2>5
<1>11. QED
  BY <1>1, <1>7, <1>9, <1>10 DEF RunInv

-----------------------------------------------------------------------------
(* While iterations are not nested, a change that a filtered query has not *)
(* seen is reported to its next run (query.c:35-130): no order of writes,  *)
(* stamps, moves and abandoned runs hides it.                              *)
THEOREM NothingIsLost ==
  ASSUME Nesting = 1
  PROVE  Spec => []ReportsEveryChange
<1>1. Init => RunInv
  <2> SUFFICES ASSUME Init PROVE RunInv
    OBVIOUS
  <2>1. TypeOK
    BY TicksAssumption, EmptySeq DEF Init, TypeOK, TicksAssumption, T, Iteration
  <2>2. iters = <<>> /\ StampsBehind /\ ReportsEveryChange
    BY DEF Init, StampsBehind, ReportsEveryChange, T
  <2>3. QED
    BY <2>1, <2>2 DEF RunInv
<1>2. RunInv /\ TypeOK' /\ [Next]_vars => RunInv'
  <2> SUFFICES ASSUME RunInv, TypeOK', [Next]_vars PROVE RunInv'
    OBVIOUS
  <2>1. CASE \E q \in Queries : Iter(q)
    BY <2>1, IterPreserves
  <2>2. CASE \E t \in T : IterNext(t)
    BY <2>2, IterNextPreserves
  <2>3. CASE IterEnd
    BY <2>3, IterEndPreserves
  <2>4. CASE IterAbandon
    BY <2>4, IterAbandonPreserves
  <2>5. CASE \E k \in 1..Nesting : WriteField(k)
    BY <2>5, WriteFieldPreserves
  <2>6. CASE \E t \in T : Set(t)
    BY <2>6, OutsideChangePreserves
  <2>7. CASE \E t \in T, left \in BOOLEAN : Restructure(t, left)
    BY <2>7, OutsideChangePreserves
  <2>8. CASE UNCHANGED vars
    BY <2>8 DEF vars, RunInv, TypeOK, StampsBehind, ReportsEveryChange, NewestRun,
                StampedBatch, SeenSoFar, TableChanged
  <2>9. QED
    BY <2>1, <2>2, <2>3, <2>4, <2>5, <2>6, <2>7, <2>8 DEF Next
<1>3. RunInv => ReportsEveryChange
  BY DEF RunInv
<1>4. QED
  BY <1>1, <1>2, <1>3, TypeCorrect, PTL DEF Spec

-----------------------------------------------------------------------------
(* A parallel system's run, with change detection beside it.                  *)

(* The smaller and the larger of two numbers.                              *)
LEMMA OfTwo ==
  ASSUME NEW a \in Int, NEW b \in Int
  PROVE  /\ Min({a, b}) = IF a <= b THEN a ELSE b
         /\ Max({a, b}) = IF a <= b THEN b ELSE a
<1>1. CASE a <= b
  BY <1>1 DEF Min, Max
<1>2. CASE ~(a <= b)
  BY <1>2 DEF Min, Max
<1>3. QED
  BY <1>1, <1>2

(* What a sequence holds, and that it holds nothing twice.                 *)
Held(s) == {s[k] : k \in DOMAIN s}
NoneTwice(s) == \A i, j \in DOMAIN s : s[i] = s[j] => i = j

(* A sequence that grows at its end by something new.                      *)
LEMMA HeldAppended ==
  ASSUME NEW S, NEW s \in Seq(S), NEW x \in S
  PROVE  /\ Append(s, x) \in Seq(S)
         /\ Held(Append(s, x)) = Held(s) \cup {x}
         /\ NoneTwice(s) /\ x \notin Held(s) => NoneTwice(Append(s, x))
<1>1. /\ Append(s, x) \in Seq(S) /\ Len(Append(s, x)) = Len(s) + 1 /\ Len(s) \in Nat
      /\ DOMAIN s = 1..Len(s) /\ DOMAIN Append(s, x) = 1..(Len(s) + 1)
      /\ \A i \in 1..Len(s) : Append(s, x)[i] = s[i]
      /\ Append(s, x)[Len(s) + 1] = x
  BY AppendProperties, LenProperties
<1>2. \A i \in 1..(Len(s) + 1) : i \in 1..Len(s) \/ i = Len(s) + 1
  BY <1>1
<1>3. 1..Len(s) \subseteq 1..(Len(s) + 1) /\ Len(s) + 1 \in 1..(Len(s) + 1)
  BY <1>1
<1>4. Held(Append(s, x)) = Held(s) \cup {x}
  BY <1>1, <1>2, <1>3 DEF Held
<1>5. ASSUME NoneTwice(s), x \notin Held(s) PROVE NoneTwice(Append(s, x))
  BY <1>1, <1>2, <1>5 DEF Held, NoneTwice
<1>6. QED
  BY <1>1, <1>4, <1>5

(* A sequence that loses its head.                                         *)
LEMMA HeldWithoutHead ==
  ASSUME NEW S, NEW s \in Seq(S), s # <<>>, NoneTwice(s)
  PROVE  /\ Tail(s) \in Seq(S) /\ Head(s) \in S /\ Head(s) \in Held(s)
         /\ Held(Tail(s)) = Held(s) \ {Head(s)}
         /\ NoneTwice(Tail(s))
<1>1. Len(s) \in Nat /\ Len(s) # 0 /\ DOMAIN s = 1..Len(s)
  BY EmptySeq, LenProperties
<1>2. /\ Tail(s) \in Seq(S) /\ Len(Tail(s)) = Len(s) - 1
      /\ \A i \in 1..(Len(s) - 1) : Tail(s)[i] = s[i + 1]
      /\ Head(s) \in S /\ Head(s) = s[1]
  BY HeadTailProperties, <1>1
<1>3. DOMAIN Tail(s) = 1..(Len(s) - 1)
  BY <1>2, LenProperties
<1>4. Head(s) \in Held(s)
  BY <1>1, <1>2 DEF Held
<1>5. Held(Tail(s)) = Held(s) \ {Head(s)}
  <2>1. ASSUME NEW i \in 1..(Len(s) - 1) PROVE Tail(s)[i] \in Held(s) \ {Head(s)}
    <3>1. i + 1 \in 1..Len(s) /\ 1 \in 1..Len(s) /\ i + 1 # 1
      BY <1>1
    <3>2. QED
      BY <1>1, <1>2, <3>1 DEF Held, NoneTwice
  <2>2. ASSUME NEW i \in 1..Len(s), s[i] # Head(s) PROVE s[i] \in Held(Tail(s))
    <3>1. i - 1 \in 1..(Len(s) - 1) /\ (i - 1) + 1 = i
      BY <1>1, <1>2, <2>2
    <3>2. Tail(s)[i - 1] = s[i]
      BY <1>2, <3>1
    <3>3. QED
      BY <1>3, <3>1, <3>2 DEF Held
  <2>3. QED
    BY <1>1, <1>3, <2>1, <2>2 DEF Held
<1>6. NoneTwice(Tail(s))
  <2>1. SUFFICES ASSUME NEW i \in 1..(Len(s) - 1), NEW j \in 1..(Len(s) - 1),
                        Tail(s)[i] = Tail(s)[j]
                 PROVE  i = j
    BY <1>3 DEF NoneTwice
  <2>2. i + 1 \in 1..Len(s) /\ j + 1 \in 1..Len(s) /\ s[i + 1] = s[j + 1]
    BY <1>1, <1>2, <2>1
  <2>3. i + 1 = j + 1
    BY <1>1, <2>2 DEF NoneTwice
  <2>4. QED
    BY <2>3
<1>7. QED
  BY <1>2, <1>4, <1>5, <1>6

-----------------------------------------------------------------------------
(* The cursor.                                                             *)

(* The tables the cursor may go to are numbers.                            *)
LEMMA RowsLeftAreTables ==
  ASSUME NEW nd \in NodeRecord, size \in [T -> Nat]
  PROVE  RowsLeft(nd) \in SUBSET Nat /\ \A t \in RowsLeft(nd) : nd.table <= t /\ t <= Tables
<1>1. nd.table \in Nat /\ Tables \in Nat
  BY TicksAssumption DEF NodeRecord, TicksAssumption
<1>2. \A t \in nd.table..Tables : t \in Nat /\ nd.table <= t /\ t <= Tables
  BY <1>1
<1>3. RowsLeft(nd) \subseteq nd.table..Tables
  BY DEF RowsLeft
<1>4. QED
  BY <1>2, <1>3

(* Where the cursor is after the empty tables.                             *)
LEMMA CursorMoves ==
  ASSUME NEW nd \in NodeRecord, size \in [T -> Nat]
  PROVE  LET past == SkipEmptyTables(nd) IN
         /\ past \in NodeRecord
         /\ past.query = nd.query /\ past.tick = nd.tick /\ past.next = nd.next
         /\ past.due = nd.due /\ past.allowed = nd.allowed /\ past.holder = nd.holder
         /\ RowsLeft(nd) = {} => past.exhausted
         /\ RowsLeft(nd) # {} =>
              /\ past.exhausted = nd.exhausted
              /\ past.table \in RowsLeft(nd) /\ past.row = RowAt(nd, past.table)
              /\ \A t \in RowsLeft(nd) : past.table <= t
<1> DEFINE past == SkipEmptyTables(nd)
<1>1. CASE RowsLeft(nd) = {}
  <2>1. past = [nd EXCEPT !.exhausted = TRUE]
    BY <1>1 DEF SkipEmptyTables
  <2>2. QED
    BY <1>1, <2>1 DEF NodeRecord
<1>2. CASE RowsLeft(nd) # {}
  <2> DEFINE t == Min(RowsLeft(nd))
  <2>1. t \in RowsLeft(nd) /\ t \in Nat /\ \A u \in RowsLeft(nd) : t <= u
    BY <1>2, LeastOf, RowsLeftAreTables
  <2>2. past = [nd EXCEPT !.table = t, !.row = RowAt(nd, t)]
    BY <1>2 DEF SkipEmptyTables
  <2>3. RowAt(nd, t) \in Nat
    BY DEF RowAt, NodeRecord
  <2> HIDE DEF t, past
  <2>4. past \in NodeRecord
    BY <2>1, <2>2, <2>3 DEF NodeRecord
  <2>5. /\ past.query = nd.query /\ past.tick = nd.tick /\ past.next = nd.next
        /\ past.due = nd.due /\ past.allowed = nd.allowed /\ past.holder = nd.holder
        /\ past.exhausted = nd.exhausted /\ past.table = t /\ past.row = RowAt(nd, t)
    BY <2>2 DEF NodeRecord
  <2>6. QED
    BY <1>2, <2>1, <2>4, <2>5 DEF past
<1>3. QED
  BY <1>1, <1>2

-----------------------------------------------------------------------------
(* What a run keeps true, of its node or of the node a thread is about to  *)
(* claim from.  The tables due are those that pass the filter, still.      *)
DueInv(nd) ==
  /\ nd.due \subseteq rows /\ last_run[nd.query] < nd.tick
  /\ \A t \in rows : t \in nd.due <=> PassesFilter(nd.query, t)
(* The cursor is at a multiple of the chunk size, in a table that is due.  *)
CursorInv(nd) ==
  ~nd.exhausted =>
    /\ nd.table \in nd.due /\ nd.row < size[nd.table]
    /\ \E k \in Nat : nd.row = k * ChunkSize
(* What is claimed lies behind the cursor, in order and without overlap.   *)
Behind(nd, p) ==
  p.table < nd.table \/ (p.table = nd.table /\ p.offset + p.count <= nd.row)
Apart(p, r) ==
  p.table # r.table \/ p.offset + p.count <= r.offset \/ r.offset + r.count <= p.offset
ClaimsInv(nd) ==
  /\ \A p \in Claimed : /\ Logical(p, nd.due) /\ p.ordinal < nd.next
                        /\ ~nd.exhausted => Behind(nd, p)
  /\ \A p, r \in Claimed : p.ordinal < r.ordinal <=> Before(p, r)
  /\ \A p, r \in Claimed : p # r => Apart(p, r)
  /\ \A th1, th2 \in Threads : th1 # th2 => ClaimedBy(th1) \cap ClaimedBy(th2) = {}
  /\ \A th \in Threads : NoneTwice(batch[th])
(* A row that was due is ahead of the cursor, or held, or has been given.  *)
Ahead(nd, t, r) == ~nd.exhausted /\ (nd.table < t \/ (t = nd.table /\ nd.row <= r))
Covers(p, t, r) == p.table = t /\ p.offset <= r /\ r < p.offset + p.count
GivenInv(nd) ==
  \A t \in T : \A r \in RowsOf(t) :
    calls[t][r] =
      IF t \in nd.due /\ ~Ahead(nd, t, r) /\ ~(\E p \in Claimed : Covers(p, t, r)) THEN 1 ELSE 0
HandInv(nd) == DueInv(nd) /\ CursorInv(nd) /\ ClaimsInv(nd) /\ GivenInv(nd)

(* The types of what the claims read.                                      *)
ClaimTypes ==
  /\ size \in [T -> Nat] /\ rows = {t \in T : size[t] # 0}
  /\ batch \in [Threads -> Seq(PortionRecord)]

(* The portion at the cursor ends within its table, and at the next        *)
(* multiple of the chunk size or at the end of the table.                  *)
LEMMA PortionAtCursor ==
  ASSUME NEW nd \in NodeRecord, ClaimTypes, DueInv(nd), CursorInv(nd), ~nd.exhausted
  PROVE  LET p == Portion(nd) IN
         /\ p \in PortionRecord /\ Logical(p, nd.due)
         /\ p.table = nd.table /\ p.offset = nd.row /\ p.ordinal = nd.next
         /\ p.count \in Nat /\ 0 < p.count
         /\ p.offset + p.count <= size[nd.table]
         /\ p.offset + p.count < size[nd.table] => p.count = ChunkSize
<1> DEFINE p == Portion(nd)
<1>1. /\ nd.row \in Nat /\ nd.next \in Nat /\ nd.table \in nd.due /\ nd.table \in T
      /\ size[nd.table] \in Nat /\ nd.row < size[nd.table] /\ ChunkSize \in Nat /\ 0 < ChunkSize
  BY PortionsAssumption DEF NodeRecord, ClaimTypes, DueInv, CursorInv, PortionsAssumption
<1>2. p = [table |-> nd.table, offset |-> nd.row, ordinal |-> nd.next,
           count |-> Min({ChunkSize, size[nd.table] - nd.row})]
  BY DEF Portion
<1>3. p.count = IF ChunkSize <= size[nd.table] - nd.row THEN ChunkSize ELSE size[nd.table] - nd.row
  BY <1>1, <1>2, OfTwo
<1>4. p.table = nd.table /\ p.offset = nd.row /\ p.ordinal = nd.next
  BY <1>2
<1>5. p.count \in Nat /\ 0 < p.count
  BY <1>1, <1>3
<1>6. p \in PortionRecord
  BY <1>1, <1>2, <1>5 DEF PortionRecord
<1>7. PICK k \in Nat : nd.row = k * ChunkSize
  BY DEF CursorInv
<1>8. k \in 0..nd.row
  BY <1>1, <1>7
<1>9. Logical(p, nd.due)
  BY <1>1, <1>2, <1>4, <1>7, <1>8 DEF Logical
<1>10. QED
  BY <1>1, <1>3, <1>4, <1>5, <1>6, <1>9

(* Past the portion the cursor has left what the tables due have left.     *)
LEMMA LeftPastPortion ==
  ASSUME NEW nd \in NodeRecord, ClaimTypes, DueInv(nd), CursorInv(nd), ~nd.exhausted,
         NEW nd2 \in NodeRecord,
         nd2.table = nd.table, nd2.query = nd.query, nd2.row = nd.row + Portion(nd).count
  PROVE  \A t \in Nat : t \in RowsLeft(nd2) <=>
           /\ t \in nd.due
           /\ nd.table < t \/ (t = nd.table /\ nd2.row < size[t])
<1>1. /\ nd.table \in nd.due /\ nd.table \in T /\ nd.due \subseteq T
      /\ nd.table \in Nat /\ nd.row \in Nat
      /\ Portion(nd).count \in Nat /\ 0 < Portion(nd).count
  BY PortionAtCursor DEF DueInv, CursorInv, ClaimTypes, NodeRecord
<1>2. nd2.row \in Nat /\ 0 < nd2.row
  BY <1>1
<1>3. \A t \in Nat : t \in T <=> 1 <= t /\ t <= Tables
  BY TicksAssumption DEF T, TicksAssumption
<1>4. ASSUME NEW t \in Nat
      PROVE  t \in nd.table..Tables <=> t \in T /\ nd.table <= t
  BY <1>1, <1>3, TicksAssumption DEF TicksAssumption
<1>5. ASSUME NEW t \in T, nd.table < t
      PROVE  t \in nd.due <=> 0 < size[t] /\ PassesFilter(nd.query, t)
  <2>1. t \in rows <=> 0 < size[t]
    BY DEF ClaimTypes
  <2>2. QED
    BY <2>1 DEF DueInv
<1>6. ASSUME NEW t \in Nat
      PROVE  t \in RowsLeft(nd2) <=> t \in nd.due /\ (nd.table < t \/ (t = nd.table /\ nd2.row < size[t]))
  <2>1. t \in RowsLeft(nd2) <=>
          /\ t \in T /\ nd.table <= t
          /\ RowAt(nd2, t) < size[t] /\ (RowAt(nd2, t) = 0 => PassesFilter(nd.query, t))
    BY <1>4 DEF RowsLeft
  <2>2. CASE t = nd.table
    BY <1>1, <1>2, <2>1, <2>2 DEF RowAt
  <2>3. CASE t # nd.table
    <3>1. RowAt(nd2, t) = 0
      BY <2>3 DEF RowAt
    <3>2. nd.table <= t <=> nd.table < t
      BY <1>1, <2>3
    <3>3. QED
      BY <1>1, <1>5, <2>1, <2>3, <3>1, <3>2
  <2>4. QED
    BY <2>2, <2>3
<1>7. QED
  BY <1>6

(* One claim: the portion leaves what is ahead of the cursor for what the  *)
(* thread holds, and the cursor goes where the rest begins.                *)
LEMMA ClaimKeeps ==
  ASSUME NEW nd \in NodeRecord, NEW th \in Threads, NEW allowed \in Nat \ {0},
         ClaimTypes, HandInv(nd), ~nd.exhausted, Claim(th, nd, allowed),
         UNCHANGED <<written, structure, rows, last_run, size, calls>>
  PROVE  /\ ClaimTypes' /\ node' \in NodeRecord /\ HandInv(node)'
         /\ node'.query = nd.query /\ node'.tick = nd.tick /\ node'.due = nd.due
         /\ node'.holder = th
         /\ \A other \in Threads \ {th} : batch'[other] = batch[other]
<1> DEFINE p == Portion(nd)
           nd2 == [nd EXCEPT !.row = @ + p.count, !.next = @ + 1]
           past == SkipEmptyTables(nd2)
<1>1. /\ p \in PortionRecord /\ Logical(p, nd.due)
      /\ p.table = nd.table /\ p.offset = nd.row /\ p.ordinal = nd.next
      /\ p.count \in Nat /\ 0 < p.count /\ p.offset + p.count <= size[nd.table]
      /\ p.offset + p.count < size[nd.table] => p.count = ChunkSize
  BY PortionAtCursor DEF HandInv
<1>2. /\ nd.row \in Nat /\ nd.next \in Nat /\ nd.table \in Nat /\ nd.exhausted = FALSE
      /\ nd.table \in nd.due /\ nd.due \subseteq T /\ T \subseteq Nat
      /\ nd.row < size[nd.table]
  <2>1. T \subseteq Nat
    BY TicksAssumption DEF T, TicksAssumption
  <2>2. QED
    BY <2>1 DEF NodeRecord, HandInv, CursorInv
<1>3. /\ nd2 \in NodeRecord /\ nd2.query = nd.query /\ nd2.tick = nd.tick
      /\ nd2.table = nd.table /\ nd2.row = nd.row + p.count /\ nd2.next = nd.next + 1
      /\ nd2.due = nd.due /\ nd2.exhausted = FALSE
  <2> HIDE DEF p
  <2>1. nd.row + p.count \in Nat /\ nd.next + 1 \in Nat
    BY <1>1, <1>2
  <2>2. \A m, n \in Nat : [nd EXCEPT !.row = m, !.next = n] \in NodeRecord
    BY DEF NodeRecord
  <2>3. nd2 = [nd EXCEPT !.row = nd.row + p.count, !.next = nd.next + 1]
    BY DEF NodeRecord
  <2>4. QED
    BY <1>2, <2>1, <2>2, <2>3 DEF NodeRecord
<1>4. \A t \in Nat : t \in RowsLeft(nd2) <=>
        t \in nd.due /\ (nd.table < t \/ (t = nd.table /\ nd2.row < size[t]))
  BY <1>3, LeftPastPortion DEF HandInv
<1> HIDE DEF p, nd2
<1>5. /\ past \in NodeRecord /\ past.query = nd.query /\ past.tick = nd.tick
      /\ past.next = nd.next + 1 /\ past.due = nd.due
      /\ RowsLeft(nd2) = {} => past.exhausted
      /\ RowsLeft(nd2) # {} =>
           /\ past.exhausted = FALSE
           /\ past.table \in RowsLeft(nd2) /\ past.row = RowAt(nd2, past.table)
           /\ \A t \in RowsLeft(nd2) : past.table <= t
  BY <1>3, CursorMoves DEF ClaimTypes
<1>6. node' = [past EXCEPT !.holder = th, !.allowed = IF past.exhausted THEN 0 ELSE allowed - 1]
  BY DEF Claim, PastPortion, p, nd2
<1> HIDE DEF past
<1>7. /\ node' \in NodeRecord /\ node'.query = nd.query /\ node'.tick = nd.tick
      /\ node'.next = nd.next + 1 /\ node'.due = nd.due /\ node'.holder = th
      /\ node'.exhausted = past.exhausted /\ node'.table = past.table /\ node'.row = past.row
  <2>1. \A a \in Nat : [past EXCEPT !.holder = th, !.allowed = a] \in NodeRecord
    BY <1>5 DEF NodeRecord
  <2>2. (IF past.exhausted THEN 0 ELSE allowed - 1) \in Nat
    OBVIOUS
  <2>3. node' \in NodeRecord
    BY <1>6, <2>1, <2>2
  <2>4. QED
    BY <1>5, <1>6, <2>3 DEF NodeRecord
<1>8. /\ batch' = [batch EXCEPT ![th] = Append(@, p)]
      /\ batch \in [Threads -> Seq(PortionRecord)]
  BY DEF Claim, p, ClaimTypes
<1>9. /\ batch' \in [Threads -> Seq(PortionRecord)]
      /\ batch'[th] = Append(batch[th], p)
      /\ \A other \in Threads \ {th} : batch'[other] = batch[other]
  BY <1>1, <1>8, HeldAppended
<1>10. ClaimTypes'
  BY <1>9 DEF ClaimTypes
<1>11. p \notin Claimed /\ \A th1 \in Threads : p \notin ClaimedBy(th1)
  <2>1. \A r \in Claimed : r.ordinal < nd.next
    BY DEF HandInv, ClaimsInv
  <2>2. p \notin Claimed
    BY <1>1, <1>2, <2>1
  <2>3. QED
    BY <2>2 DEF Claimed
<1>12. /\ ClaimedBy(th)' = ClaimedBy(th) \cup {p}
       /\ \A other \in Threads \ {th} : ClaimedBy(other)' = ClaimedBy(other)
       /\ NoneTwice(batch'[th])
  <2>1. batch[th] \in Seq(PortionRecord) /\ NoneTwice(batch[th]) /\ p \notin Held(batch[th])
    BY <1>8, <1>11 DEF HandInv, ClaimsInv, Held, ClaimedBy
  <2>2. Held(batch'[th]) = Held(batch[th]) \cup {p} /\ NoneTwice(batch'[th])
    BY <1>1, <1>9, <2>1, HeldAppended
  <2>3. QED
    BY <1>9, <2>2 DEF Held, ClaimedBy
<1>13. Claimed' = Claimed \cup {p}
  BY <1>12 DEF Claimed
<1>14. Claimed \subseteq PortionRecord
  BY <1>8, LenProperties, ElementOfSeq DEF Claimed, ClaimedBy
<1>15. DueInv(node)'
  BY <1>7 DEF HandInv, DueInv, PassesFilter, TableChanged
<1>16. CursorInv(node)'
  <2> SUFFICES ASSUME ~past.exhausted
               PROVE  /\ past.table \in nd.due /\ past.row < size[past.table]
                      /\ \E k \in Nat : past.row = k * ChunkSize
    BY <1>7 DEF CursorInv
  <2>1. past.table \in RowsLeft(nd2) /\ past.row = RowAt(nd2, past.table) /\ past.table \in Nat
    BY <1>5 DEF NodeRecord
  <2>2. past.row < size[past.table] /\ past.table \in nd.due
    BY <1>4, <2>1 DEF RowsLeft
  <2>3. \E k \in Nat : past.row = k * ChunkSize
    <3>1. CASE past.table # nd.table
      <4>1. past.row = 0 * ChunkSize
        BY <1>3, <2>1, <3>1, PortionsAssumption DEF RowAt, PortionsAssumption
      <4>2. QED
        BY <4>1
    <3>2. CASE past.table = nd.table
      <4>1. past.row = nd.row + p.count /\ nd.row + p.count < size[nd.table]
        BY <1>3, <2>1, <2>2, <3>2 DEF RowAt
      <4>2. p.count = ChunkSize
        BY <1>1, <4>1
      <4>3. PICK k \in Nat : nd.row = k * ChunkSize
        BY <1>2 DEF HandInv, CursorInv
      <4>4. past.row = (k + 1) * ChunkSize /\ k + 1 \in Nat
        BY <4>1, <4>2, <4>3, PortionsAssumption DEF PortionsAssumption
      <4>5. QED
        BY <4>4
    <3>3. QED
      BY <3>1, <3>2
  <2>4. QED
    BY <2>2, <2>3
<1>17. ~past.exhausted =>
         /\ past.table \in Nat /\ past.row \in Nat
         /\ past.table = nd.table => past.row = nd.row + p.count
         /\ past.table # nd.table => /\ nd.table < past.table /\ past.row = 0
                                     /\ ~(nd.row + p.count < size[nd.table])
         /\ \A t \in nd.due : nd.table < t => past.table <= t
  <2> SUFFICES ASSUME ~past.exhausted
               PROVE  /\ past.table \in Nat /\ past.row \in Nat
                      /\ past.table = nd.table => past.row = nd.row + p.count
                      /\ past.table # nd.table => /\ nd.table < past.table /\ past.row = 0
                                                  /\ ~(nd.row + p.count < size[nd.table])
                      /\ \A t \in nd.due : nd.table < t => past.table <= t
    OBVIOUS
  <2>1. /\ past.table \in RowsLeft(nd2) /\ past.row = RowAt(nd2, past.table)
        /\ past.table \in Nat /\ past.row \in Nat
        /\ \A t \in RowsLeft(nd2) : past.table <= t
    BY <1>5 DEF NodeRecord
  <2>2. \A t \in nd.due : nd.table < t => past.table <= t
    BY <1>2, <1>4, <2>1
  <2>3. past.table = nd.table => past.row = nd.row + p.count
    BY <1>3, <2>1 DEF RowAt
  <2>4. ASSUME past.table # nd.table
        PROVE  nd.table < past.table /\ past.row = 0 /\ ~(nd.row + p.count < size[nd.table])
    <3>1. nd.table < past.table /\ past.row = 0
      BY <1>3, <1>4, <2>1, <2>4 DEF RowAt
    <3>2. nd.table \notin RowsLeft(nd2)
      BY <1>2, <2>1, <3>1
    <3>3. QED
      BY <1>2, <1>3, <1>4, <3>1, <3>2
  <2>5. QED
    BY <2>1, <2>2, <2>3, <2>4
<1>18. past.exhausted =>
         /\ ~(nd.row + p.count < size[nd.table])
         /\ \A t \in nd.due : ~(nd.table < t)
  BY <1>2, <1>3, <1>4, <1>5
<1>19. ClaimsInv(node)'
  <2>1. \A r \in Claimed : /\ Logical(r, nd.due) /\ r.ordinal < nd.next /\ Behind(nd, r)
    BY <1>2 DEF HandInv, ClaimsInv
  <2>2. \A r \in Claimed : /\ r.table \in Nat /\ r.offset \in Nat /\ r.ordinal \in Nat /\ r.count \in Nat
                           /\ 0 < r.count
    <3> SUFFICES ASSUME NEW r \in Claimed
                 PROVE  /\ r.table \in Nat /\ r.offset \in Nat /\ r.ordinal \in Nat /\ r.count \in Nat
                        /\ 0 < r.count
      OBVIOUS
    <3>1. r.table \in T /\ r.table \in Nat /\ r.offset \in Nat /\ r.ordinal \in Nat /\ r.count \in Nat
      BY <1>2, <1>14 DEF PortionRecord
    <3>2. r.offset < size[r.table] /\ r.count = Min({ChunkSize, size[r.table] - r.offset})
          /\ size[r.table] \in Nat
      BY <2>1, <3>1 DEF Logical, ClaimTypes
    <3>3. 0 < r.count
      BY <3>1, <3>2, OfTwo, PortionsAssumption DEF PortionsAssumption
    <3>4. QED
      BY <3>1, <3>3
  <2>3. ASSUME NEW r \in Claimed'
        PROVE  /\ Logical(r, node.due)' /\ r.ordinal < node'.next
               /\ ~node'.exhausted => Behind(node, r)'
    <3>1. Logical(r, nd.due) /\ r.ordinal <= nd.next
      BY <1>1, <1>2, <1>13, <2>1, <2>2
    <3>2. ~past.exhausted => Behind(past, r)
      <4>1. CASE r = p
        BY <1>1, <1>2, <1>17, <4>1 DEF Behind
      <4>2. CASE r \in Claimed
        BY <1>1, <1>2, <1>17, <2>1, <2>2, <4>2 DEF Behind
      <4>3. QED
        BY <1>13, <4>1, <4>2
    <3>3. r.ordinal \in Nat
      BY <1>1, <1>2, <1>13, <2>2
    <3>4. QED
      BY <1>2, <1>7, <3>1, <3>2, <3>3 DEF Logical, Behind
  <2>4. ASSUME NEW r \in Claimed
        PROVE  /\ r.ordinal < p.ordinal /\ Before(r, p) /\ ~(p.ordinal < r.ordinal) /\ ~Before(p, r)
               /\ Apart(p, r) /\ Apart(r, p)
    <3>1. r.ordinal < nd.next /\ Behind(nd, r)
      BY <2>1
    <3>2. QED
      BY <1>1, <1>2, <2>2, <3>1 DEF Behind, Before, Apart
  <2>5. ~(p.ordinal < p.ordinal) /\ ~Before(p, p)
    BY <1>1, <1>2 DEF Before
  <2>6. \A r, s \in Claimed' : r.ordinal < s.ordinal <=> Before(r, s)
    BY <1>13, <2>4, <2>5 DEF HandInv, ClaimsInv
  <2>7. \A r, s \in Claimed' : r # s => Apart(r, s)
    BY <1>13, <2>4 DEF HandInv, ClaimsInv
  <2>8. \A th1, th2 \in Threads : th1 # th2 => ClaimedBy(th1)' \cap ClaimedBy(th2)' = {}
    <3>1. SUFFICES ASSUME NEW th1 \in Threads, NEW th2 \in Threads, th1 # th2
                   PROVE  ClaimedBy(th1)' \cap ClaimedBy(th2)' = {}
      OBVIOUS
    <3>2. ClaimedBy(th1) \cap ClaimedBy(th2) = {}
      BY <3>1 DEF HandInv, ClaimsInv
    <3>3. CASE th1 # th /\ th2 # th
      BY <1>12, <3>2, <3>3
    <3>4. CASE th1 = th
      BY <1>11, <1>12, <3>1, <3>2, <3>4
    <3>5. CASE th2 = th
      BY <1>11, <1>12, <3>1, <3>2, <3>5
    <3>6. QED
      BY <3>3, <3>4, <3>5
  <2>9. \A th1 \in Threads : NoneTwice(batch'[th1])
    BY <1>9, <1>12 DEF HandInv, ClaimsInv
  <2>10. QED
    BY <2>3, <2>6, <2>7, <2>8, <2>9 DEF ClaimsInv, Behind, Before, Apart, Logical
<1>20. GivenInv(node)'
  <2> SUFFICES ASSUME NEW t \in T, NEW r \in RowsOf(t)
               PROVE  calls[t][r] = IF /\ t \in nd.due /\ ~Ahead(past, t, r)
                                       /\ ~(\E q \in Claimed' : Covers(q, t, r)) THEN 1 ELSE 0
    BY <1>7 DEF GivenInv, Ahead, RowsOf, Covers
  <2>1. r \in Nat /\ t \in Nat /\ size[t] \in Nat /\ r < size[t]
    BY <1>2 DEF RowsOf, ClaimTypes
  <2>2. calls[t][r] = IF /\ t \in nd.due /\ ~Ahead(nd, t, r)
                         /\ ~(\E q \in Claimed : Covers(q, t, r)) THEN 1 ELSE 0
    BY DEF HandInv, GivenInv
  <2>3. (\E q \in Claimed' : Covers(q, t, r)) <=> Covers(p, t, r) \/ \E q \in Claimed : Covers(q, t, r)
    BY <1>13
  <2>4. t \in nd.due => (Ahead(nd, t, r) <=> Ahead(past, t, r) \/ Covers(p, t, r))
    <3>1. Ahead(nd, t, r) <=> nd.table < t \/ (t = nd.table /\ nd.row <= r)
      BY <1>2 DEF Ahead
    <3>2. Covers(p, t, r) <=> t = nd.table /\ nd.row <= r /\ r < nd.row + p.count
      BY <1>1 DEF Covers
    <3>3. CASE past.exhausted
      BY <1>1, <1>2, <1>18, <2>1, <3>1, <3>2, <3>3 DEF Ahead
    <3>4. CASE ~past.exhausted
      <4>1. Ahead(past, t, r) <=> past.table < t \/ (t = past.table /\ past.row <= r)
        BY <3>4 DEF Ahead
      <4>2. QED
        BY <1>1, <1>2, <1>17, <2>1, <3>1, <3>2, <3>4, <4>1
    <3>5. QED
      BY <3>3, <3>4
  <2>5. QED
    BY <2>2, <2>3, <2>4
<1>21. QED
  BY <1>7, <1>9, <1>10, <1>15, <1>16, <1>19, <1>20 DEF HandInv

(* A run starts with every row that is due ahead of its cursor.            *)
LEMMA FreshRun ==
  ASSUME PortionsTypeOK, NEW q \in Parallel, NEW th \in Threads,
         clock <= MaxClock, \A o \in Queries : last_run[o] < clock,
         \A other \in Threads : batch[other] = <<>>, calls = NoCalls
  PROVE  LET nd == Fresh(q, th) IN
         /\ nd \in NodeRecord /\ nd.query = q /\ nd.tick = clock
         /\ nd.due = {t \in rows : PassesFilter(q, t)} /\ (nd.exhausted => nd.due = {})
         /\ ~nd.exhausted => HandInv(nd)
<1> DEFINE due == {t \in rows : PassesFilter(q, t)}
           base == [query |-> q, tick |-> clock, table |-> 1, row |-> 0, next |-> 0,
                    exhausted |-> FALSE, holder |-> th, allowed |-> 0, due |-> due]
           nd == SkipEmptyTables(base)
<1>1. /\ T \subseteq Nat /\ rows \subseteq T /\ due \subseteq rows
      /\ \A t \in T : size[t] \in Nat
      /\ \A t \in T : t \in rows <=> 0 < size[t]
      /\ \A t \in Nat : t \in 1..Tables <=> t \in T
  <2>1. T \subseteq Nat
    BY TicksAssumption DEF T, TicksAssumption
  <2>2. QED
    BY <2>1 DEF PortionsTypeOK, T
<1>2. base \in NodeRecord
  <2>1. clock \in 1..MaxClock
    BY TicksAssumption DEF PortionsTypeOK, TypeOK, TicksAssumption
  <2>2. due \in SUBSET T
    BY <1>1
  <2> HIDE DEF due
  <2>3. QED
    BY <2>1, <2>2 DEF NodeRecord
<1>3. RowsLeft(base) = due
  <2>1. \A t : RowAt(base, t) = 0
    BY DEF RowAt
  <2>2. RowsLeft(base) = {t \in 1..Tables : 0 < size[t] /\ PassesFilter(q, t)}
    BY <2>1 DEF RowsLeft
  <2>3. QED
    BY <1>1, <2>2 DEF T
<1>4. /\ nd \in NodeRecord /\ nd.query = q /\ nd.tick = clock /\ nd.due = due /\ nd.next = 0
      /\ nd.exhausted => due = {}
      /\ ~nd.exhausted => /\ nd.table \in due /\ nd.row = 0 /\ \A t \in due : nd.table <= t
  <2>1. RowAt(base, nd.table) = 0
    BY DEF RowAt
  <2>2. size \in [T -> Nat]
    BY DEF PortionsTypeOK
  <2>3. /\ base.query = q /\ base.tick = clock /\ base.due = due /\ base.next = 0
        /\ base.exhausted = FALSE
    OBVIOUS
  <2> HIDE DEF base
  <2>4. QED
    BY <1>2, <1>3, <2>1, <2>2, <2>3, CursorMoves
<1>5. Fresh(q, th) = nd
  BY DEF Fresh
<1> HIDE DEF nd, base, due
<1>6. ASSUME ~nd.exhausted PROVE HandInv(nd)
  <2>1. DueInv(nd)
    BY <1>1, <1>4, PortionsAssumption DEF DueInv, due, PortionsAssumption
  <2>2. CursorInv(nd)
    <3>1. nd.table \in due /\ nd.table \in T /\ nd.table \in rows /\ nd.row = 0
      BY <1>1, <1>4, <1>6
    <3>2. nd.row < size[nd.table]
      BY <1>1, <3>1
    <3>3. nd.row = 0 * ChunkSize
      BY <3>1, PortionsAssumption DEF PortionsAssumption
    <3>4. QED
      BY <1>4, <3>1, <3>2, <3>3 DEF CursorInv
  <2>3. \A other \in Threads : ClaimedBy(other) = {} /\ NoneTwice(batch[other])
    <3>1. DOMAIN << >> = {}
      OBVIOUS
    <3>2. QED
      BY <3>1 DEF ClaimedBy, NoneTwice
  <2>4. Claimed = {}
    BY <2>3 DEF Claimed
  <2>5. ClaimsInv(nd)
    BY <2>3, <2>4 DEF ClaimsInv
  <2>6. GivenInv(nd)
    <3> SUFFICES ASSUME NEW t \in T, NEW r \in RowsOf(t)
                 PROVE  calls[t][r] = 0 /\ (t \in nd.due => Ahead(nd, t, r))
      BY DEF GivenInv
    <3>1. calls[t][r] = 0
      BY DEF NoCalls
    <3>2. ASSUME t \in nd.due PROVE Ahead(nd, t, r)
      <4>1. nd.table <= t /\ nd.table \in Nat /\ t \in Nat /\ nd.row = 0 /\ 0 <= r
        <5>1. t \in T /\ t \in Nat /\ size[t] \in Nat /\ r \in 0..(size[t] - 1)
          BY <1>1 DEF RowsOf
        <5>2. nd.table \in Nat
          BY <1>4 DEF NodeRecord
        <5>3. nd.table <= t /\ nd.row = 0
          BY <1>4, <1>6, <3>2
        <5>4. QED
          BY <5>1, <5>2, <5>3
      <4>2. QED
        BY <1>6, <4>1 DEF Ahead
    <3>3. QED
      BY <3>1, <3>2
  <2>7. QED
    BY <2>1, <2>2, <2>5, <2>6 DEF HandInv
<1>7. QED
  BY <1>4, <1>5, <1>6 DEF due

(* A portion that runs passes from what its thread holds to what has been  *)
(* given, and its stamp hides no table from the run's filter.              *)
LEMMA RunJobKeeps ==
  ASSUME PortionsTypeOK, node \in NodeRecord, HandInv(node), NEW th \in Threads, RunJob(th)
  PROVE  /\ HandInv(node)' /\ ClaimTypes'
         /\ written' \in [T -> 0..(MaxClock + 1)]
         /\ DOMAIN calls' = T /\ \A t \in T : calls'[t] \in [RowsOf(t) -> Nat]
         /\ seen' = seen \/ \E t \in T : seen' = SeenBy(node.query, t)
         /\ \A other \in Threads \ {th} : batch'[other] = batch[other]
         /\ LET p == Head(batch[th]) IN
            /\ p \in PortionRecord /\ p.table \in node.due
            /\ written' = StampedByRun(p.table) /\ calls' = Calls(p)
            /\ seen' = SeenWhole(node.query, p.table, Calls(p))
<1> DEFINE p == Head(batch[th])
<1>1. /\ batch \in [Threads -> Seq(PortionRecord)] /\ batch[th] \in Seq(PortionRecord)
      /\ batch[th] # <<>> /\ NoneTwice(batch[th])
      /\ batch' = [batch EXCEPT ![th] = Tail(@)]
      /\ UNCHANGED <<clock, structure, rows, last_run, iters, version, size, node, busy>>
  BY DEF PortionsTypeOK, HandInv, ClaimsInv, RunJob, RecordedByPortion
<1>2. /\ Tail(batch[th]) \in Seq(PortionRecord) /\ p \in PortionRecord /\ p \in ClaimedBy(th)
      /\ Held(Tail(batch[th])) = ClaimedBy(th) \ {p} /\ NoneTwice(Tail(batch[th]))
  <2>1. Held(batch[th]) = ClaimedBy(th)
    BY DEF Held, ClaimedBy
  <2>2. QED
    BY <1>1, <2>1, HeldWithoutHead
<1>3. /\ batch'[th] = Tail(batch[th]) /\ batch' \in [Threads -> Seq(PortionRecord)]
      /\ \A other \in Threads \ {th} : batch'[other] = batch[other]
  BY <1>1, <1>2
<1>4. /\ ClaimedBy(th)' = ClaimedBy(th) \ {p}
      /\ \A other \in Threads \ {th} : ClaimedBy(other)' = ClaimedBy(other) /\ p \notin ClaimedBy(other)
  <2>1. ClaimedBy(th)' = Held(Tail(batch[th]))
    BY <1>3 DEF ClaimedBy, Held
  <2>2. \A other \in Threads \ {th} : ClaimedBy(other)' = ClaimedBy(other)
    BY <1>3 DEF ClaimedBy
  <2>3. \A other \in Threads \ {th} : ClaimedBy(other) \cap ClaimedBy(th) = {}
    BY DEF HandInv, ClaimsInv
  <2> HIDE DEF p
  <2>4. QED
    BY <1>2, <2>1, <2>2, <2>3
<1>5. Claimed' = Claimed \ {p} /\ p \in Claimed
  BY <1>2, <1>4 DEF Claimed
<1>6. Logical(p, node.due) /\ p.table \in node.due /\ p.table \in T
  BY <1>2, <1>5 DEF HandInv, ClaimsInv, Logical, PortionRecord
<1>7. PassesFilter(node.query, p.table)
  BY <1>6 DEF HandInv, DueInv
<1>8. /\ written' = StampedByRun(p.table) /\ calls' = Calls(p)
      /\ seen' = SeenWhole(node.query, p.table, Calls(p))
  BY <1>7 DEF RunJob
<1> HIDE DEF p
<1>9. /\ \A t \in T : written[t] \in Nat /\ structure[t] \in Nat
      /\ node.tick \in Nat /\ node.tick \in 0..(MaxClock + 1) /\ last_run[node.query] \in Nat
  <2>1. PortionsTypeOK /\ TypeOK
    BY DEF PortionsTypeOK
  <2>2. node.tick \in 1..MaxClock /\ node.query \in Queries
    BY PortionsAssumption DEF NodeRecord, PortionsAssumption
  <2>3. QED
    BY <2>1, <2>2, TicksAreNumbers, TicksAssumption DEF TicksAssumption
<1>10. /\ written' \in [T -> 0..(MaxClock + 1)]
       /\ \A t \in T : written'[t] = written[t] \/ (t = p.table /\ written'[t] = node.tick)
  <2>1. written \in [T -> 0..(MaxClock + 1)]
    BY DEF PortionsTypeOK, TypeOK
  <2>2. QED
    BY <1>6, <1>8, <1>9, <2>1 DEF StampedByRun
<1>11. DueInv(node)'
  <2>1. ASSUME NEW t \in rows PROVE t \in node.due <=> PassesFilter(node.query, t)'
    <3>1. t \in T /\ (t \in node.due <=> PassesFilter(node.query, t))
      BY DEF HandInv, DueInv, PortionsTypeOK
    <3>2. CASE t = p.table
      <4>1. last_run[node.query] < node.tick
        BY DEF HandInv, DueInv
      <4>2. TableChanged(t, last_run[node.query]) => TableChanged(t, last_run[node.query])'
        BY <1>1, <1>9, <1>10, <3>1, <4>1 DEF TableChanged
      <4>3. QED
        BY <1>1, <1>6, <3>1, <3>2, <4>2 DEF PassesFilter
    <3>3. CASE t # p.table
      BY <1>1, <1>10, <3>1, <3>3 DEF PassesFilter, TableChanged
    <3>4. QED
      BY <3>2, <3>3
  <2>2. QED
    BY <1>1, <2>1 DEF HandInv, DueInv
<1>12. CursorInv(node)'
  BY <1>1 DEF HandInv, CursorInv
<1>13. ClaimsInv(node)'
  <2>1. \A r \in Claimed' : /\ Logical(r, node.due)' /\ r.ordinal < node'.next
                            /\ ~node'.exhausted => Behind(node, r)'
    BY <1>1, <1>5 DEF HandInv, ClaimsInv, Logical, Behind
  <2>2. \A r, s \in Claimed' : /\ r.ordinal < s.ordinal <=> Before(r, s)
                               /\ r # s => Apart(r, s)
    BY <1>5 DEF HandInv, ClaimsInv
  <2>3. \A th1, th2 \in Threads : th1 # th2 => ClaimedBy(th1)' \cap ClaimedBy(th2)' = {}
    <3>1. \A th1 \in Threads : ClaimedBy(th1)' \subseteq ClaimedBy(th1)
      BY <1>4
    <3>2. QED
      BY <3>1 DEF HandInv, ClaimsInv
  <2>4. \A th1 \in Threads : NoneTwice(batch'[th1])
    BY <1>2, <1>3 DEF HandInv, ClaimsInv
  <2>5. QED
    BY <2>1, <2>2, <2>3, <2>4 DEF ClaimsInv, Behind, Before, Apart, Logical
<1>14. /\ size \in [T -> Nat] /\ DOMAIN calls = T
       /\ \A t \in T : calls[t] \in [RowsOf(t) -> Nat]
       /\ p.offset \in Nat /\ p.count \in Nat
  BY <1>2 DEF PortionsTypeOK, PortionRecord
<1>15. /\ DOMAIN calls' = T
       /\ \A t \in T \ {p.table} : calls'[t] = calls[t]
       /\ calls'[p.table] = [r \in RowsOf(p.table) |->
            IF r \in p.offset..(p.offset + p.count - 1) THEN calls[p.table][r] + 1
            ELSE calls[p.table][r]]
  BY <1>6, <1>8, <1>14 DEF Calls
<1>16. \A t \in T : calls'[t] \in [RowsOf(t) -> Nat]
  BY <1>14, <1>15
<1>17. GivenInv(node)'
  <2> SUFFICES ASSUME NEW t \in T, NEW r \in RowsOf(t)
               PROVE  calls'[t][r] =
                        IF /\ t \in node.due /\ ~Ahead(node, t, r)
                           /\ ~(\E o \in Claimed' : Covers(o, t, r)) THEN 1 ELSE 0
    BY <1>1 DEF GivenInv, Ahead, RowsOf, Covers
  <2>1. calls[t][r] = IF /\ t \in node.due /\ ~Ahead(node, t, r)
                         /\ ~(\E o \in Claimed : Covers(o, t, r)) THEN 1 ELSE 0
    BY DEF HandInv, GivenInv
  <2>2. r \in Nat /\ t \in Nat /\ T \subseteq Nat
    BY <1>14, TicksAssumption DEF T, RowsOf, TicksAssumption
  <2>3. CASE Covers(p, t, r)
    <3>1. t = p.table /\ r \in p.offset..(p.offset + p.count - 1)
      BY <1>14, <2>2, <2>3 DEF Covers
    <3>2. calls[t][r] = 0
      BY <1>5, <2>1, <2>3
    <3>3. calls'[t][r] = 1
      BY <1>15, <3>1, <3>2
    <3>4. ~Ahead(node, t, r)
      <4>1. ~node.exhausted => Behind(node, p)
        BY <1>5 DEF HandInv, ClaimsInv
      <4>2. node.table \in Nat /\ node.row \in Nat
        BY DEF NodeRecord
      <4>3. QED
        BY <1>14, <2>2, <2>3, <4>1, <4>2 DEF Ahead, Behind, Covers
    <3>5. ~(\E o \in Claimed' : Covers(o, t, r))
      <4>1. SUFFICES ASSUME NEW o \in Claimed', Covers(o, t, r) PROVE FALSE
        OBVIOUS
      <4>2. Apart(p, o) /\ o \in PortionRecord
        <5>1. Claimed \subseteq PortionRecord
          BY <1>1, LenProperties, ElementOfSeq DEF Claimed, ClaimedBy
        <5>2. QED
          BY <1>5, <4>1, <5>1 DEF HandInv, ClaimsInv
      <4>3. QED
        BY <1>14, <2>2, <2>3, <4>1, <4>2 DEF Apart, Covers, PortionRecord
    <3>6. QED
      BY <1>6, <3>1, <3>3, <3>4, <3>5
  <2>4. CASE ~Covers(p, t, r)
    <3>1. t = p.table => ~(r \in p.offset..(p.offset + p.count - 1))
      BY <1>14, <2>2, <2>4 DEF Covers
    <3>2. calls'[t][r] = calls[t][r]
      BY <1>15, <3>1
    <3>3. (\E o \in Claimed' : Covers(o, t, r)) <=> (\E o \in Claimed : Covers(o, t, r))
      BY <1>5, <2>4
    <3>4. QED
      BY <2>1, <3>2, <3>3
  <2>5. QED
    BY <2>3, <2>4
<1>18. seen' = seen \/ \E t \in T : seen' = SeenBy(node.query, t)
  BY <1>6, <1>8 DEF SeenWhole
<1>19. ClaimTypes'
  BY <1>1, <1>3 DEF ClaimTypes, PortionsTypeOK
<1>20. HandInv(node)'
  BY <1>11, <1>12, <1>13, <1>17 DEF HandInv
<1>21. QED
  BY <1>2, <1>3, <1>6, <1>8, <1>10, <1>15, <1>16, <1>18, <1>19, <1>20 DEF p

-----------------------------------------------------------------------------
(* The invariant.  Between runs no thread is busy; in one, its node is as  *)
(* HandInv says, its tick is in the past, the thread that holds the lock   *)
(* is busy with rows left, and nothing that writes is iterated.            *)
PInv ==
  /\ PortionsTypeOK
  /\ \A q \in Queries : last_run[q] < clock
  /\ \A k \in DOMAIN iters : iters[k].tick < clock /\ iters[k].query \notin Parallel
  /\ \A th \in Threads \ busy : batch[th] = <<>>
  /\ ~Running => busy = {} /\ calls = NoCalls
  /\ Running =>
       /\ HandInv(node) /\ node.tick < clock
       /\ node.allowed # 0 => node.holder \in busy /\ ~node.exhausted
       /\ \A k \in DOMAIN iters : iters[k].query \notin Writers

(* A thread may always claim a portion.                                    *)
LEMMA LimitPositive ==
  ASSUME NEW nd \in NodeRecord, ClaimTypes, DueInv(nd), CursorInv(nd), ~nd.exhausted
  PROVE  Limit(nd) \in Nat \ {0}
<1> DEFINE n == size[nd.table] - nd.row
           d == 2 * Cardinality(Threads)
           share == Chunks(n) \div d
<1>1. n \in Nat /\ 0 < n
  BY DEF NodeRecord, ClaimTypes, DueInv, CursorInv
<1>2. ChunkSize \in Nat /\ 0 < ChunkSize /\ BatchSize \in Nat
  BY PortionsAssumption DEF PortionsAssumption
<1>3. d \in Nat /\ 0 < d
  <2>1. Cardinality(Threads) \in Nat /\ Cardinality(Threads) # 0
    BY FS_CardinalityType, FS_EmptySet, PortionsAssumption DEF PortionsAssumption
  <2>2. QED
    BY <2>1
<1>4. \A a \in Int, b \in Nat : 0 < b => a \div b \in Int
  OBVIOUS
<1>5. share \in Int
  BY <1>1, <1>2, <1>3, <1>4 DEF Chunks
<1>6. Limit(nd) = Max({1, Min({BatchSize, share})})
  BY DEF Limit
<1> HIDE DEF share
<1>7. ASSUME NEW m \in Int PROVE Max({1, m}) \in Nat \ {0}
  <2>1. Max({1, m}) = IF 1 <= m THEN m ELSE 1
    BY OfTwo
  <2>2. QED
    BY <2>1
<1>8. Min({BatchSize, share}) \in Int
  BY <1>2, <1>5, OfTwo
<1>9. QED
  BY <1>6, <1>7, <1>8

(* What an invariant of the types says of the parts used below.            *)
LEMMA PortionTypes ==
  ASSUME PortionsTypeOK
  PROVE  /\ TypeOK /\ ClaimTypes /\ T \subseteq Nat \ {0} /\ clock \in Nat
         /\ Running => node \in NodeRecord
         /\ last_run \in [Queries -> 0..MaxClock] /\ \A q \in Queries : last_run[q] \in Nat
         /\ Parallel \subseteq Queries /\ Filtered \subseteq Queries
         /\ \A k \in DOMAIN iters : iters[k] \in Iteration
<1>1. TypeOK /\ ClaimTypes /\ (Running => node \in NodeRecord)
  BY DEF PortionsTypeOK, ClaimTypes, Running
<1>2. \A k \in DOMAIN iters : iters[k] \in Iteration
  BY <1>1, ElementOfSeq, LenProperties DEF TypeOK
<1>3. QED
  BY <1>1, <1>2, TicksAreNumbers, PortionsAssumption, TicksAssumption
     DEF PortionsAssumption, TicksAssumption, TypeOK

(* A thread keeps the lock only while there are rows to claim.             *)
LEMMA HolderHasRows ==
  ASSUME NEW nd \in NodeRecord, NEW th, NEW allowed, Claim(th, nd, allowed)
  PROVE  node'.allowed # 0 => ~node'.exhausted
<1> DEFINE past == PastPortion(nd)
<1>1. DOMAIN past = DOMAIN nd
  BY DEF PastPortion, SkipEmptyTables
<1>2. "allowed" \in DOMAIN past /\ "exhausted" \in DOMAIN past
  BY <1>1 DEF NodeRecord
<1>3. node' = [past EXCEPT !.holder = th, !.allowed = IF past.exhausted THEN 0 ELSE allowed - 1]
  BY DEF Claim
<1> HIDE DEF past
<1>4. node'.allowed = (IF past.exhausted THEN 0 ELSE allowed - 1) /\ node'.exhausted = past.exhausted
  BY <1>2, <1>3
<1>5. QED
  BY <1>4

(* A run starts, or completes at once when no row is due.                  *)
LEMMA StartKeeps ==
  ASSUME PInv, NEW th \in Threads, NEW q \in Parallel, Start(th, q)
  PROVE  PInv'
<1>1. /\ PortionsTypeOK /\ ClaimTypes /\ q \in Queries /\ clock \in Nat
      /\ last_run \in [Queries -> 0..MaxClock] /\ \A o \in Queries : last_run[o] \in Nat
      /\ \A k \in DOMAIN iters : iters[k] \in Iteration
  BY PortionTypes DEF PInv
<1>2. /\ ~Running /\ clock <= MaxClock /\ \A p \in Open : Compatible(q, p)
      /\ clock' = clock + 1
      /\ UNCHANGED <<written, structure, rows, iters, version, seen, size, calls>>
  BY DEF Start
<1>3. busy = {} /\ calls = NoCalls /\ \A other \in Threads : batch[other] = <<>>
  BY <1>2 DEF PInv
<1> DEFINE nd == Fresh(q, th)
<1>4. /\ nd \in NodeRecord /\ nd.query = q /\ nd.tick = clock
      /\ ~nd.exhausted => HandInv(nd)
  BY <1>1, <1>2, <1>3, FreshRun DEF PInv
<1> HIDE DEF nd
<1>5. last_run' \in [Queries -> 0..MaxClock] /\ \A o \in Queries : last_run'[o] < clock'
  <2>1. clock \in 0..MaxClock
    BY <1>1, <1>2, TicksAssumption DEF TicksAssumption
  <2>2. last_run' = last_run \/ last_run' = [last_run EXCEPT ![q] = clock]
    BY DEF Start
  <2>3. \A o \in Queries : last_run[o] < clock + 1
    BY <1>1 DEF PInv
  <2>4. CASE last_run' = last_run
    BY <1>1, <1>2, <2>3, <2>4
  <2>5. CASE last_run' = [last_run EXCEPT ![q] = clock]
    BY <1>1, <1>2, <2>1, <2>3, <2>5
  <2>6. QED
    BY <2>2, <2>4, <2>5
<1>6. TypeOK'
  <2>1. clock' \in 1..(MaxClock + 1)
    BY <1>1, <1>2, TicksAssumption DEF PortionsTypeOK, TypeOK, TicksAssumption
  <2>2. QED
    BY <1>1, <1>2, <1>5, <2>1 DEF PortionsTypeOK, TypeOK
<1>7. \A k \in DOMAIN iters' : iters'[k].tick < clock' /\ iters'[k].query \notin Parallel
  BY <1>1, <1>2 DEF PInv, Iteration
<1>8. CASE nd.exhausted
  <2>1. UNCHANGED <<node, busy, batch>>
    BY <1>8 DEF Start, nd
  <2>2. PortionsTypeOK'
    BY <1>1, <1>2, <1>6, <2>1 DEF PortionsTypeOK, RowsOf
  <2>3. QED
    BY <1>2, <1>3, <1>5, <1>7, <2>1, <2>2 DEF PInv, Running, NoCalls, RowsOf
<1>9. CASE ~nd.exhausted
  <2>1. Claim(th, nd, Limit(nd)) /\ busy' = {th} /\ last_run' = last_run
    BY <1>9 DEF Start, nd
  <2>2. HandInv(nd) /\ Limit(nd) \in Nat \ {0}
    BY <1>1, <1>4, <1>9, LimitPositive DEF HandInv
  <2>3. /\ ClaimTypes' /\ node' \in NodeRecord /\ HandInv(node)'
        /\ node'.tick = clock /\ node'.holder = th
        /\ \A other \in Threads \ {th} : batch'[other] = batch[other]
    BY <1>1, <1>2, <1>4, <1>9, <2>1, <2>2, ClaimKeeps
  <2>4. node'.allowed # 0 => ~node'.exhausted
    BY <1>4, <2>1, HolderHasRows
  <2>5. Running'
    BY <2>3, PortionsAssumption DEF Running, PortionsAssumption
  <2>6. PortionsTypeOK'
    BY <1>1, <1>2, <1>6, <2>1, <2>3 DEF PortionsTypeOK, ClaimTypes, RowsOf
  <2>7. \A k \in DOMAIN iters' : iters'[k].query \notin Writers
    BY <1>2 DEF Open, Compatible
  <2>8. \A other \in Threads \ busy' : batch'[other] = <<>>
    BY <1>3, <2>1, <2>3
  <2>9. node'.tick < clock'
    BY <1>1, <1>2, <2>3
  <2>10. QED
    BY <1>5, <1>7, <2>1, <2>3, <2>4, <2>5, <2>6, <2>7, <2>8, <2>9 DEF PInv
<1>10. QED
  BY <1>8, <1>9

(* A thread claims from the node of the run: the first portion of a batch, *)
(* or a further one of it.                                                 *)
LEMMA MoreKeeps ==
  ASSUME PInv, NEW th \in Threads, Take(th) \/ TakeMore(th)
  PROVE  PInv'
<1>1. /\ PortionsTypeOK /\ ClaimTypes /\ node \in NodeRecord /\ Running
      /\ HandInv(node) /\ node.tick < clock
  BY PortionTypes DEF PInv, Take, TakeMore
<1>2. PICK allowed \in Nat \ {0} : ~node.exhausted /\ Claim(th, node, allowed)
  <2>1. CASE Take(th)
    BY <1>1, <2>1, LimitPositive DEF Take, HandInv
  <2>2. CASE TakeMore(th)
    <3>1. node.allowed \in Nat \ {0}
      BY <1>1, <2>2 DEF TakeMore, Unlocked, NodeRecord
    <3>2. QED
      BY <1>1, <2>2, <3>1 DEF TakeMore, Unlocked, PInv
  <2>3. QED
    BY <2>1, <2>2
<1>3. /\ UNCHANGED <<clock, written, structure, rows, last_run, iters, version, seen, size, calls>>
      /\ busy' = busy \cup {th}
  <2>1. CASE Take(th)
    BY <2>1 DEF Take, vars
  <2>2. CASE TakeMore(th)
    <3>1. th \in busy
      BY <1>1, <2>2 DEF TakeMore, Unlocked, PInv
    <3>2. QED
      BY <2>2, <3>1 DEF TakeMore, vars
  <2>3. QED
    BY <2>1, <2>2
<1>4. /\ ClaimTypes' /\ node' \in NodeRecord /\ HandInv(node)'
      /\ node'.tick = node.tick /\ node'.holder = th
      /\ \A other \in Threads \ {th} : batch'[other] = batch[other]
  BY <1>1, <1>2, <1>3, ClaimKeeps
<1>5. node'.allowed # 0 => ~node'.exhausted
  BY <1>1, <1>2, HolderHasRows
<1>6. TypeOK'
  BY <1>1, <1>3 DEF PortionsTypeOK, TypeOK
<1>7. PortionsTypeOK'
  BY <1>1, <1>3, <1>4, <1>6 DEF PortionsTypeOK, ClaimTypes, RowsOf
<1>8. Running'
  BY <1>4, PortionsAssumption DEF Running, PortionsAssumption
<1>9. \A other \in Threads \ busy' : batch'[other] = <<>>
  BY <1>3, <1>4 DEF PInv
<1>10. QED
  BY <1>1, <1>3, <1>4, <1>5, <1>7, <1>8, <1>9 DEF PInv

(* The callback runs on a portion.                                         *)
LEMMA RunKeeps ==
  ASSUME PInv, NEW th \in Threads, RunJob(th)
  PROVE  PInv'
<1>1. /\ PortionsTypeOK /\ TypeOK /\ node \in NodeRecord /\ Running
      /\ HandInv(node) /\ node.tick < clock /\ node.query \in Queries
  BY PortionTypes DEF PInv, RunJob, NodeRecord
<1>2. /\ HandInv(node)' /\ ClaimTypes'
      /\ written' \in [T -> 0..(MaxClock + 1)]
      /\ DOMAIN calls' = T /\ \A t \in T : calls'[t] \in [RowsOf(t) -> Nat]
      /\ seen' = seen \/ \E t \in T : seen' = SeenBy(node.query, t)
      /\ \A other \in Threads \ {th} : batch'[other] = batch[other]
  BY <1>1, RunJobKeeps
<1>3. UNCHANGED <<clock, structure, rows, last_run, iters, version, size, node, busy>> /\ th \in busy
  BY DEF RunJob, RecordedByPortion
<1>4. seen' \in [Queries -> [T -> 0..MaxChanges]]
  <2>1. CASE seen' = seen
    BY <1>1, <2>1 DEF TypeOK
  <2>2. CASE \E t \in T : seen' = SeenBy(node.query, t)
    <3>1. seen \in [Queries -> [T -> 0..MaxChanges]] /\ version \in [T -> 0..MaxChanges]
      BY <1>1 DEF TypeOK
    <3>2. \A t \in T : SeenBy(node.query, t) \in [Queries -> [T -> 0..MaxChanges]]
      BY <1>1, <3>1, SeenTyped
    <3>3. QED
      BY <2>2, <3>2
  <2>3. QED
    BY <1>2, <2>1, <2>2
<1>5. TypeOK'
  BY <1>1, <1>2, <1>3, <1>4 DEF TypeOK
<1>6. PortionsTypeOK'
  BY <1>1, <1>2, <1>3, <1>5 DEF PortionsTypeOK, ClaimTypes, RowsOf
<1>7. \A other \in Threads \ busy' : batch'[other] = <<>>
  BY <1>2, <1>3 DEF PInv
<1>8. QED
  BY <1>1, <1>2, <1>3, <1>6, <1>7 DEF PInv, Running

(* The parts of the invariant that no step outside the run reads.          *)
LEMMA HandInvStays ==
  ASSUME node \in NodeRecord, HandInv(node), UNCHANGED <<written, structure, rows, runVars>>,
         last_run'[node.query] = last_run[node.query]
  PROVE  HandInv(node)'
<1>1. UNCHANGED <<size, node, busy, batch, calls>>
  BY DEF runVars
<1>2. DueInv(node)'
  BY <1>1 DEF HandInv, DueInv, PassesFilter, TableChanged
<1>3. CursorInv(node)'
  BY <1>1 DEF HandInv, CursorInv
<1>4. Claimed' = Claimed /\ \A th \in Threads : ClaimedBy(th)' = ClaimedBy(th)
  BY <1>1 DEF Claimed, ClaimedBy
<1>5. ClaimsInv(node)'
  BY <1>1, <1>4 DEF HandInv, ClaimsInv, Behind, Before, Apart, Logical
<1>6. GivenInv(node)'
  BY <1>1, <1>4 DEF HandInv, GivenInv, Ahead, RowsOf, Covers
<1>7. QED
  BY <1>2, <1>3, <1>5, <1>6 DEF HandInv

(* The callback writes a row.                                              *)
LEMMA WriteKeeps ==
  ASSUME PInv, NEW t \in T, WriteRow(t)
  PROVE  PInv'
<1>1. /\ PortionsTypeOK /\ TypeOK /\ node \in NodeRecord /\ Running
      /\ HandInv(node) /\ node.query \in Queries
  BY PortionTypes DEF PInv, WriteRow, NodeRecord
<1>2. /\ UNCHANGED <<clock, written, structure, rows, last_run, iters, runVars>>
      /\ UNCHANGED <<size, node, busy, batch, calls>> /\ CanChange(t)
  BY DEF WriteRow, runVars
<1>3. version' \in [T -> 0..MaxChanges]
  <2>1. version \in [T -> 0..MaxChanges] /\ version[t] + 1 \in 0..MaxChanges
    BY <1>1, <1>2, TicksAssumption DEF TypeOK, CanChange, TicksAssumption
  <2>2. QED
    BY <2>1 DEF WriteRow
<1>4. seen' \in [Queries -> [T -> 0..MaxChanges]]
  BY <1>1, <1>2, SeenTyped DEF WriteRow, TypeOK
<1>5. TypeOK'
  BY <1>1, <1>2, <1>3, <1>4 DEF TypeOK
<1>6. PortionsTypeOK'
  BY <1>1, <1>2, <1>5 DEF PortionsTypeOK, RowsOf
<1>7. HandInv(node)'
  BY <1>1, <1>2, HandInvStays
<1>8. /\ \A q \in Queries : last_run'[q] < clock'
      /\ \A k \in DOMAIN iters' : iters'[k].tick < clock' /\ iters'[k].query \notin Parallel
      /\ \A th \in Threads \ busy' : batch'[th] = <<>>
  BY <1>2 DEF PInv
<1>9. /\ Running' /\ node'.tick < clock'
      /\ node'.allowed # 0 => node'.holder \in busy' /\ ~node'.exhausted
      /\ \A k \in DOMAIN iters' : iters'[k].query \notin Writers
  BY <1>1, <1>2 DEF PInv, Running
<1>10. QED
  BY <1>6, <1>7, <1>8, <1>9 DEF PInv

(* A thread's batch is done, and with the last one the run.                *)
LEMMA FinishKeeps ==
  ASSUME PInv, NEW th \in Threads, Finish(th)
  PROVE  PInv'
<1>1. /\ PortionsTypeOK /\ TypeOK /\ node \in NodeRecord /\ Running /\ clock \in Nat
      /\ HandInv(node) /\ node.tick < clock /\ node.query \in Queries
      /\ last_run \in [Queries -> 0..MaxClock] /\ \A q \in Queries : last_run[q] \in Nat
  BY PortionTypes DEF PInv, Finish, NodeRecord
<1>2. /\ UNCHANGED <<clock, written, structure, rows, iters, version, seen, size, batch>>
      /\ Unlocked /\ batch[th] = <<>> /\ busy' = busy \ {th}
  BY DEF Finish
<1>3. \A other \in Threads \ busy' : batch'[other] = <<>>
  BY <1>2 DEF PInv
<1>4. CASE node.exhausted /\ busy = {th}
  <2>1. /\ last_run' = [last_run EXCEPT ![node.query] = node.tick]
        /\ node' = NoRun /\ calls' = NoCalls
    BY <1>4 DEF Finish
  <2>2. node.tick \in 0..MaxClock
    BY <1>1, TicksAssumption DEF NodeRecord, TicksAssumption
  <2>3. last_run' \in [Queries -> 0..MaxClock] /\ \A q \in Queries : last_run'[q] < clock'
    BY <1>1, <1>2, <2>1, <2>2 DEF PInv
  <2>4. TypeOK'
    BY <1>1, <1>2, <2>3 DEF TypeOK
  <2>5. /\ \A t \in T : size[t] \in Nat
        /\ DOMAIN calls' = T /\ \A t \in T : calls'[t] \in [RowsOf(t) -> Nat]
    BY <1>1, <2>1 DEF NoCalls, PortionsTypeOK
  <2>6. PortionsTypeOK'
    BY <1>1, <1>2, <2>1, <2>4, <2>5 DEF PortionsTypeOK, RowsOf
  <2>7. ~Running' /\ busy' = {} /\ calls' = NoCalls'
    BY <1>2, <1>4, <2>1 DEF Running, NoCalls, RowsOf
  <2>8. QED
    BY <1>2, <1>3, <2>3, <2>6, <2>7 DEF PInv
<1>5. CASE ~(node.exhausted /\ busy = {th})
  <2>1. UNCHANGED <<last_run, node, calls>>
    BY <1>5 DEF Finish
  <2>2. PortionsTypeOK'
    BY <1>1, <1>2, <2>1 DEF PortionsTypeOK, TypeOK, RowsOf
  <2>3. HandInv(node)'
    <3>1. Claimed' = Claimed /\ \A other \in Threads : ClaimedBy(other)' = ClaimedBy(other)
      BY <1>2 DEF Claimed, ClaimedBy
    <3>2. DueInv(node)' /\ CursorInv(node)'
      BY <1>1, <1>2, <2>1 DEF HandInv, DueInv, PassesFilter, TableChanged, CursorInv
    <3>3. ClaimsInv(node)'
      BY <1>1, <1>2, <2>1, <3>1 DEF HandInv, ClaimsInv, Behind, Before, Apart, Logical
    <3>4. GivenInv(node)'
      BY <1>1, <1>2, <2>1, <3>1 DEF HandInv, GivenInv, Ahead, RowsOf, Covers
    <3>5. QED
      BY <3>2, <3>3, <3>4 DEF HandInv
  <2>4. node'.allowed = 0
    BY <1>2, <2>1 DEF Unlocked
  <2>5. Running'
    BY <1>1, <2>1 DEF Running
  <2>6. QED
    BY <1>1, <1>2, <1>3, <2>1, <2>2, <2>3, <2>4, <2>5 DEF PInv
<1>6. QED
  BY <1>4, <1>5

(* Rows come and go between runs.                                          *)
LEMMA RestructureKeeps ==
  ASSUME PInv, NEW t \in T, NEW left \in BOOLEAN, Restructured(t, left)
  PROVE  PInv'
<1>1. PortionsTypeOK /\ TypeOK /\ ~Running
  BY PortionTypes DEF PInv, Restructured
<1>2. /\ UNCHANGED <<node, busy, batch>> /\ UNCHANGED <<clock, last_run, iters>>
      /\ calls' = NoCalls' /\ rows' = IF left THEN rows \cup {t} ELSE rows \ {t}
      /\ Restructure(t, left)
  BY DEF Restructured, Restructure
<1>3. TypeOK'
  <2>1. [Next]_vars
    BY <1>2 DEF Next
  <2>2. QED
    BY <1>1, <2>1, TypeStep
<1>4. PICK n \in Nat : size' = [size EXCEPT ![t] = n] /\ (n # 0 <=> left)
  <2>1. PICK n \in IF left THEN Sizes[t] ELSE {0} : size' = [size EXCEPT ![t] = n]
    BY DEF Restructured
  <2>2. left => Sizes[t] \subseteq Nat \ {0}
    BY PortionsAssumption DEF PortionsAssumption, T
  <2>3. QED
    BY <2>1, <2>2
<1>5. size \in [T -> Nat] /\ rows = {u \in T : size[u] # 0}
  BY <1>1 DEF PortionsTypeOK
<1>6. size' \in [T -> Nat] /\ rows' = {u \in T : size'[u] # 0}
  BY <1>2, <1>4, <1>5
<1>7. DOMAIN calls' = T /\ \A u \in T : calls'[u] \in [RowsOf(u)' -> Nat]
  BY <1>2 DEF NoCalls, T
<1>8. PortionsTypeOK'
  BY <1>1, <1>2, <1>3, <1>6, <1>7 DEF PortionsTypeOK, T
<1>9. QED
  BY <1>1, <1>2, <1>8 DEF PInv, Running

-----------------------------------------------------------------------------
(* What is iterated beside a run, and what is written between runs.        *)

(* A step outside the run leaves its parts of the invariant alone, if it   *)
(* records no run of its query and writes nothing while it runs.           *)
LEMMA OutsideKeeps ==
  ASSUME PInv, [Next]_vars, UNCHANGED runVars, UNCHANGED rows,
         Running => /\ UNCHANGED <<written, structure>>
                    /\ last_run'[node.query] = last_run[node.query]
                    /\ \A k \in DOMAIN iters' : iters'[k].query \notin Writers,
         \A q \in Queries : last_run'[q] < clock',
         clock' = clock \/ clock' = clock + 1,
         \A k \in DOMAIN iters' : iters'[k].tick < clock' /\ iters'[k].query \notin Parallel
  PROVE  PInv'
<1>1. UNCHANGED <<size, node, busy, batch, calls>>
  BY DEF runVars
<1>2. PortionsTypeOK /\ TypeOK /\ clock \in Nat
  BY PortionTypes DEF PInv
<1>3. TypeOK'
  BY <1>2, TypeStep
<1>4. PortionsTypeOK'
  BY <1>1, <1>2, <1>3 DEF PortionsTypeOK, RowsOf
<1>5. /\ \A th \in Threads \ busy' : batch'[th] = <<>>
      /\ ~Running' => busy' = {} /\ calls' = NoCalls'
  BY <1>1 DEF PInv, Running, NoCalls, RowsOf
<1>6. ASSUME Running'
      PROVE  /\ HandInv(node)' /\ node'.tick < clock'
             /\ node'.allowed # 0 => node'.holder \in busy' /\ ~node'.exhausted
             /\ \A k \in DOMAIN iters' : iters'[k].query \notin Writers
  <2>1. Running /\ node \in NodeRecord /\ HandInv(node) /\ node.tick < clock /\ node.tick \in Nat
    BY <1>1, <1>2, <1>6, PortionTypes, TicksAssumption
       DEF PInv, Running, NodeRecord, TicksAssumption
  <2>2. HandInv(node)'
    BY <2>1, HandInvStays
  <2>3. node'.tick < clock'
    BY <1>1, <1>2, <2>1
  <2>4. QED
    BY <1>1, <2>1, <2>2, <2>3 DEF PInv
<1>7. QED
  BY <1>4, <1>5, <1>6 DEF PInv

(* Of these steps only those of queries that do not write are taken while  *)
(* a run is on, and the queries of parallel systems are never iterated.    *)
LEMMA BesideKeeps ==
  ASSUME PInv, Beside
  PROVE  PInv'
<1>1. /\ UNCHANGED runVars /\ PortionsTypeOK /\ TypeOK /\ clock \in Nat
      /\ iters \in Seq(Iteration) /\ \A q \in Queries : last_run[q] < clock /\ last_run[q] \in Nat
      /\ \A k \in DOMAIN iters : /\ iters[k].tick < clock /\ iters[k].query \notin Parallel
                                 /\ iters[k] \in Iteration /\ iters[k].tick \in Nat
                                 /\ iters[k].query \in Queries
      /\ Running => /\ node.query \in Parallel /\ node.query \in Queries
                    /\ \A k \in DOMAIN iters : iters[k].query \notin Writers
      /\ last_run \in [Queries -> 0..MaxClock]
  BY PortionTypes, TicksAssumption
     DEF PInv, Beside, TypeOK, NodeRecord, Iteration, TicksAssumption
<1>2. Len(iters) \in Nat /\ DOMAIN iters = 1..Len(iters)
  BY <1>1, LenProperties
<1>3. ASSUME NEW q \in Queries \ Parallel, Running => Compatible(q, node.query), Iter(q)
      PROVE  PInv'
  <2>1. /\ iters' = Append(iters, [query |-> q, tick |-> clock, last |-> last_run[q], table |-> 0])
        /\ clock' = clock + 1 /\ UNCHANGED <<written, structure, rows, last_run, version, seen>>
    BY <1>3 DEF Iter
  <2> DEFINE it == [query |-> q, tick |-> clock, last |-> last_run[q], table |-> 0]
  <2>2. /\ DOMAIN iters' = 1..(Len(iters) + 1)
        /\ \A k \in DOMAIN iters' : (k \in DOMAIN iters /\ iters'[k] = iters[k]) \/ iters'[k] = it
    <3>1. it \in Iteration
      <4>1. TypeOK'
        BY <1>1, <1>3, TypeStep DEF Next
      <4>2. clock + 1 \in 1..(MaxClock + 1) /\ clock \in 0..MaxClock
        BY <1>1, <2>1, <4>1, TicksAssumption DEF TypeOK, TicksAssumption
      <4>3. 0 \in 0..Tables
        BY TicksAssumption DEF TicksAssumption
      <4>4. QED
        BY <1>1, <4>2, <4>3 DEF Iteration
    <3>2. /\ iters' \in Seq(Iteration) /\ Len(iters') = Len(iters) + 1
          /\ \A k \in 1..Len(iters) : iters'[k] = iters[k]
          /\ iters'[Len(iters) + 1] = it
      BY <1>1, <2>1, <3>1, AppendProperties
    <3>3. DOMAIN iters' = 1..(Len(iters) + 1)
      BY <3>2, LenProperties
    <3>4. \A k \in 1..(Len(iters) + 1) : k \in 1..Len(iters) \/ k = Len(iters) + 1
      BY <1>2
    <3>5. QED
      BY <1>2, <3>2, <3>3, <3>4
  <2>3. \A k \in DOMAIN iters' : iters'[k].tick < clock' /\ iters'[k].query \notin Parallel
    BY <1>1, <1>3, <2>1, <2>2
  <2>4. Running => \A k \in DOMAIN iters' : iters'[k].query \notin Writers
    BY <1>1, <1>3, <2>2 DEF Compatible
  <2>5. \A o \in Queries : last_run'[o] < clock'
    BY <1>1, <2>1
  <2>6. [Next]_vars
    BY <1>3 DEF Next
  <2>7. QED
    BY <1>1, <2>1, <2>3, <2>4, <2>5, <2>6, OutsideKeeps
<1>4. ASSUME NEW t \in T, IterNext(t) PROVE PInv'
  <2>1. /\ iters # <<>> /\ iters' = AtTable(iters, t) /\ written' = Stamped(Current, t)
        /\ UNCHANGED <<clock, structure, rows, last_run, version>>
    BY <1>4 DEF IterNext
  <2>2. Current = iters[Len(iters)] /\ Len(iters) \in DOMAIN iters /\ Current \in Iteration
    <3>1. Len(iters) \in Nat \ {0} /\ Last(iters) = iters[Len(iters)] /\ Last(iters) \in Iteration
      BY <1>1, <2>1, CurrentTyped
    <3>2. QED
      BY <1>2, <3>1 DEF Current
  <2>3. /\ DOMAIN iters' = DOMAIN iters
        /\ \A k \in DOMAIN iters : /\ iters'[k].query = iters[k].query
                                   /\ iters'[k].tick = iters[k].tick
    <3>1. iters' = [iters EXCEPT ![Len(iters)].table = t]
      BY <2>1 DEF AtTable
    <3>2. QED
      BY <1>1, <2>2, <3>1 DEF Iteration
  <2>4. Running => written' = written
    BY <1>1, <2>1, <2>2 DEF Stamped
  <2>5. [Next]_vars
    BY <1>4 DEF Next
  <2>6. QED
    BY <1>1, <2>1, <2>3, <2>4, <2>5, OutsideKeeps
<1>5. ASSUME iters # <<>>, iters' = Front(iters)
      PROVE  \A k \in DOMAIN iters' : k \in DOMAIN iters /\ iters'[k] = iters[k]
  <2>1. Front(iters) \in Seq(Iteration) /\ Len(Front(iters)) = Len(iters) - 1 /\ Len(iters) # 0
    BY <1>1, <1>5, CurrentTyped
  <2>2. DOMAIN iters' = 1..(Len(iters) - 1)
    BY <1>5, <2>1, LenProperties
  <2>3. \A k \in 1..(Len(iters) - 1) : k \in 1..Len(iters) /\ Front(iters)[k] = iters[k]
    <3>1. Front(iters) = SubSeq(iters, 1, Len(iters) - 1)
      BY DEF Front
    <3>2. \A i \in 1..(Len(iters) - 1) : iters[i] \in Iteration
      BY <1>1, <1>2
    <3>3. QED
      BY <1>1, <1>2, <2>1, <3>1, <3>2, SubSeqProperties
  <2>4. QED
    BY <1>2, <1>5, <2>2, <2>3
<1>6. ASSUME IterEnd PROVE PInv'
  <2>1. /\ iters # <<>> /\ iters' = Front(iters)
        /\ last_run' = [last_run EXCEPT ![Current.query] = Current.tick]
        /\ UNCHANGED <<clock, written, structure, rows, version, seen>>
    BY <1>6 DEF IterEnd
  <2>2. Current = iters[Len(iters)] /\ Len(iters) \in DOMAIN iters
    <3>1. Len(iters) \in Nat \ {0} /\ Last(iters) = iters[Len(iters)] /\ Last(iters) \in Iteration
      BY <1>1, <2>1, CurrentTyped
    <3>2. QED
      BY <1>2, <3>1 DEF Current
  <2>3. /\ \A q \in Queries : last_run'[q] < clock'
        /\ Running => last_run'[node.query] = last_run[node.query]
    BY <1>1, <2>1, <2>2
  <2>4. /\ \A k \in DOMAIN iters' : iters'[k].tick < clock' /\ iters'[k].query \notin Parallel
        /\ Running => \A k \in DOMAIN iters' : iters'[k].query \notin Writers
    BY <1>1, <1>5, <2>1
  <2>5. [Next]_vars
    BY <1>6 DEF Next
  <2>6. QED
    BY <1>1, <2>1, <2>3, <2>4, <2>5, OutsideKeeps
<1>7. ASSUME IterAbandon PROVE PInv'
  <2>1. /\ iters # <<>> /\ iters' = Front(iters)
        /\ UNCHANGED <<clock, written, structure, rows, last_run, version, seen>>
    BY <1>7 DEF IterAbandon
  <2>2. /\ \A k \in DOMAIN iters' : iters'[k].tick < clock' /\ iters'[k].query \notin Parallel
        /\ Running => \A k \in DOMAIN iters' : iters'[k].query \notin Writers
    BY <1>1, <1>5, <2>1
  <2>3. [Next]_vars
    BY <1>7 DEF Next
  <2>4. QED
    BY <1>1, <2>1, <2>2, <2>3, OutsideKeeps
<1>8. ASSUME NEW k \in 1..Nesting, WriteField(k) PROVE PInv'
  <2>1. UNCHANGED <<clock, written, structure, rows, last_run, iters>> /\ [Next]_vars
    BY <1>8 DEF WriteField, Next
  <2>2. QED
    BY <1>1, <2>1, OutsideKeeps
<1>9. ASSUME ~Running, NEW t \in T, Set(t) PROVE PInv'
  <2>1. UNCHANGED <<clock, structure, rows, last_run, iters, seen>> /\ [Next]_vars
    BY <1>9 DEF Set, Next
  <2>2. QED
    BY <1>1, <1>9, <2>1, OutsideKeeps
<1>10. QED
  BY <1>3, <1>4, <1>6, <1>7, <1>8, <1>9 DEF Beside

-----------------------------------------------------------------------------
(* Before the first run no tick is taken, no row exists, nothing is        *)
(* claimed.                                                                *)
LEMMA PInitial == PInit => PInv
<1> SUFFICES ASSUME PInit PROVE PInv
  OBVIOUS
<1>1. /\ Init /\ size = [t \in T |-> 0] /\ node = NoRun /\ busy = {}
      /\ batch = [th \in Threads |-> <<>>] /\ calls = NoCalls
  BY DEF PInit
<1>2. TypeOK
  BY <1>1, TicksAssumption, EmptySeq DEF Init, TypeOK, TicksAssumption, T, Iteration
<1>3. iters = <<>> /\ DOMAIN iters = {} /\ rows = {} /\ \A q \in Queries : last_run[q] < clock
  BY <1>1 DEF Init
<1>4. \A t \in T : RowsOf(t) = {}
  BY <1>1 DEF RowsOf
<1>5. DOMAIN calls = T /\ \A t \in T : calls[t] \in [RowsOf(t) -> Nat]
  BY <1>1, <1>4 DEF NoCalls
<1>6. batch \in [Threads -> Seq(PortionRecord)]
  BY <1>1, EmptySeq
<1>7. PortionsTypeOK
  BY <1>1, <1>2, <1>3, <1>5, <1>6 DEF PortionsTypeOK
<1>8. QED
  BY <1>1, <1>3, <1>7 DEF PInv, Running

(* No step of PNext breaks the invariant.                                  *)
LEMMA PInvStep == PInv /\ [PNext]_allVars => PInv'
<1> SUFFICES ASSUME PInv, [PNext]_allVars PROVE PInv'
  OBVIOUS
<1>1. CASE \E th \in Threads, q \in Parallel : Start(th, q)
  BY <1>1, StartKeeps
<1>2. CASE \E th \in Threads : Take(th) \/ TakeMore(th)
  BY <1>2, MoreKeeps
<1>3. CASE \E th \in Threads : RunJob(th)
  BY <1>3, RunKeeps
<1>4. CASE \E th \in Threads : Finish(th)
  BY <1>4, FinishKeeps
<1>5. CASE \E t \in T : WriteRow(t)
  BY <1>5, WriteKeeps
<1>6. CASE \E t \in T, left \in BOOLEAN : Restructured(t, left)
  BY <1>6, RestructureKeeps
<1>7. CASE Beside
  BY <1>7, BesideKeeps
<1>8. CASE UNCHANGED allVars
  <2>1. UNCHANGED runVars /\ UNCHANGED vars
    BY <1>8 DEF allVars
  <2>2. /\ UNCHANGED <<clock, written, structure, rows, last_run, iters>>
        /\ [Next]_vars
    BY <2>1 DEF vars
  <2>3. Running => node.query \in Queries
    BY PortionTypes DEF PInv, NodeRecord
  <2>4. QED
    BY <2>1, <2>2, OutsideKeeps DEF PInv
<1>9. QED
  BY <1>1, <1>2, <1>3, <1>4, <1>5, <1>6, <1>7, <1>8 DEF PNext

(* The invariant says of every row where it is; with the cursor at the end *)
(* and nothing claimed, it has been given.                                 *)
LEMMA PInvGivesRows == PInv => EachRowOnce
<1> SUFFICES ASSUME PInv, Running PROVE SamePortions /\ GivenOnce
  BY DEF EachRowOnce
<1>1. /\ node \in NodeRecord /\ HandInv(node) /\ DueInv(node) /\ ClaimsInv(node) /\ GivenInv(node)
      /\ PortionsTypeOK
  BY PortionTypes DEF PInv, HandInv
<1>2. SamePortions
  BY <1>1 DEF ClaimsInv, SamePortions
<1>3. \A th1, th2 \in Threads : th1 # th2 => ClaimedBy(th1) \cap ClaimedBy(th2) = {}
  BY <1>1 DEF ClaimsInv
<1>4. \A t \in T : \A r \in RowsOf(t) : calls[t][r] = 0 \/ (calls[t][r] = 1 /\ t \in node.due)
  BY <1>1 DEF GivenInv
<1>5. ASSUME node.exhausted, Claimed = {}, NEW t \in node.due, NEW r \in RowsOf(t)
      PROVE  calls[t][r] = 1
  <2>1. t \in T /\ ~Ahead(node, t, r) /\ ~(\E p \in Claimed : Covers(p, t, r))
    BY <1>1, <1>5 DEF NodeRecord, Ahead
  <2>2. QED
    BY <1>1, <1>5, <2>1 DEF GivenInv
<1>6. QED
  BY <1>2, <1>3, <1>4, <1>5 DEF GivenOnce

-----------------------------------------------------------------------------
(* Types of the claims, the stamps and the counts of calls, for a node of  *)
(* any system and portions of any size (worker_pool.h).                    *)
THEOREM PortionsTypeCorrect == PSpec => []PortionsTypeOK
<1>1. PInv => PortionsTypeOK
  BY DEF PInv
<1>2. QED
  BY <1>1, PInitial, PInvStep, PTL DEF PSpec

(* Each row that is due when a parallel system's run starts is given to    *)
(* its callback exactly once (worker_pool.c:95-240), by any number of      *)
(* threads, however they interleave and whatever is iterated meanwhile.    *)
THEOREM EachRowHandedOnce == PSpec => []EachRowOnce
<1>1. QED
  BY PInitial, PInvStep, PInvGivesRows, PTL DEF PSpec

-----------------------------------------------------------------------------
(* Why a run hides no change.  Beside a run that may write nothing is      *)
(* iterated, so that its stamps are newer than every recorded run; and the *)
(* tables that were not due, or have been given whole, hold no change that *)
(* its query has not seen.                                                 *)
Begun(t) == \E r \in RowsOf(t) : calls[t][r] > 0
Whole(t) == \A r \in RowsOf(t) : calls[t][r] > 0
NewestWriter ==
  node.query \in Writers =>
    /\ iters = <<>>
    /\ \A q \in Queries : last_run[q] < node.tick
    /\ \A t \in T : Begun(t) => written[t] >= node.tick
SeenWhatIsDone ==
  node.query \in Filtered =>
    \A t \in rows : t \notin node.due \/ Whole(t) => seen[node.query][t] = version[t]
PRunInv == PInv /\ RunInv /\ (Running => NewestWriter /\ SeenWhatIsDone)

(* The parts of the invariants that the steps below read.                  *)
LEMMA ReportFacts ==
  ASSUME PRunInv
  PROVE  /\ TypeOK /\ StampsBehind /\ ReportsEveryChange
         /\ seen \in [Queries -> [T -> 0..MaxChanges]] /\ version \in [T -> 0..MaxChanges]
         /\ written \in [T -> 0..(MaxClock + 1)] /\ last_run \in [Queries -> 0..MaxClock]
         /\ clock \in Nat /\ rows \subseteq T
         /\ \A t \in T : written[t] \in Nat /\ structure[t] \in Nat
         /\ \A q \in Queries : last_run[q] \in Nat
         /\ Filtered \subseteq Queries
         /\ iters # <<>> => /\ iters[1] \in Iteration /\ 1 \in DOMAIN iters
                            /\ iters[1].query \in Queries \ Parallel
                            /\ NewestRun(iters[1]) /\ StampedBatch(iters[1]) /\ SeenSoFar(iters[1])
         /\ Running => /\ node \in NodeRecord /\ node.query \in Parallel /\ node.query \in Queries
                       /\ node.tick \in Nat /\ node.tick < clock
                       /\ NewestWriter /\ SeenWhatIsDone
                       /\ \A k \in DOMAIN iters : iters[k].query \notin Writers
<1>1. TypeOK /\ StampsBehind /\ ReportsEveryChange /\ PInv
  BY DEF PRunInv, RunInv
<1>2. iters # <<>> => iters[1] \in Iteration /\ 1 \in DOMAIN iters
  <2> SUFFICES ASSUME iters # <<>> PROVE iters[1] \in Iteration /\ 1 \in DOMAIN iters
    OBVIOUS
  <2>1. iters \in Seq(Iteration)
    BY <1>1 DEF TypeOK
  <2>2. Len(iters) \in Nat \ {0}
    BY <2>1, CurrentTyped
  <2>3. DOMAIN iters = 1..Len(iters) /\ 1 \in 1..Len(iters)
    BY <2>1, <2>2, LenProperties
  <2>4. iters[1] \in Iteration
    BY <2>1, <2>3, ElementOfSeq
  <2>5. QED
    BY <2>3, <2>4
<1>3. iters # <<>> => /\ iters[1].query \in Queries \ Parallel
                      /\ NewestRun(iters[1]) /\ StampedBatch(iters[1]) /\ SeenSoFar(iters[1])
  BY <1>1, <1>2 DEF PRunInv, RunInv, PInv, Iteration
<1>4. ASSUME Running
      PROVE  /\ node \in NodeRecord /\ node.query \in Parallel /\ node.query \in Queries
             /\ node.tick \in Nat /\ node.tick < clock
             /\ NewestWriter /\ SeenWhatIsDone
             /\ \A k \in DOMAIN iters : iters[k].query \notin Writers
  <2>1. node \in NodeRecord
    BY <1>1, <1>4, PortionTypes DEF PInv
  <2>2. node.query \in Parallel /\ node.query \in Queries /\ node.tick \in Nat
    BY <2>1, PortionsAssumption, TicksAssumption
       DEF NodeRecord, PortionsAssumption, TicksAssumption
  <2>3. QED
    BY <1>4, <2>1, <2>2 DEF PRunInv, PInv
<1>5. /\ seen \in [Queries -> [T -> 0..MaxChanges]] /\ version \in [T -> 0..MaxChanges]
      /\ written \in [T -> 0..(MaxClock + 1)] /\ last_run \in [Queries -> 0..MaxClock]
  BY <1>1 DEF TypeOK
<1>6. QED
  BY <1>1, <1>2, <1>3, <1>4, <1>5, TicksAreNumbers, TicksAssumption DEF TicksAssumption

(* An iteration beside a run is of another query, which does not write: it *)
(* stays as it is while the step records no run of it, lets the clock go   *)
(* on, and touches no stamp and nothing that it saw.                       *)
LEMMA IterationStays ==
  ASSUME PRunInv, iters # <<>>, iters[1].query \notin Writers,
         UNCHANGED <<iters, rows, version, structure>>,
         clock' \in Nat, clock' >= clock,
         last_run'[iters[1].query] = last_run[iters[1].query],
         seen'[iters[1].query] = seen[iters[1].query],
         UNCHANGED written
  PROVE  (NewestRun(iters[1]) /\ StampedBatch(iters[1]) /\ SeenSoFar(iters[1]))'
<1> DEFINE it == iters[1]
<1>1. /\ it.tick \in Nat /\ clock \in Nat
      /\ NewestRun(it) /\ SeenSoFar(it)
  BY ReportFacts, TicksAreNumbers
<1>2. NewestRun(it)'
  BY <1>1 DEF NewestRun
<1>3. StampedBatch(it)'
  BY DEF StampedBatch
<1>4. SeenSoFar(it)'
  BY <1>1 DEF SeenSoFar, TableChanged
<1>5. QED
  BY <1>2, <1>3, <1>4

(* A run that starts is the newest; what is not due has been seen.         *)
LEMMA StartReports ==
  ASSUME PRunInv, PInv', NEW th \in Threads, NEW q \in Parallel, Start(th, q)
  PROVE  PRunInv'
<1> DEFINE nd == Fresh(q, th)
<1>1. /\ ~Running /\ clock <= MaxClock /\ \A p \in Open : Compatible(q, p)
      /\ clock' = clock + 1
      /\ UNCHANGED <<written, structure, rows, iters, version, seen, size, calls>>
      /\ IF nd.exhausted
         THEN last_run' = [last_run EXCEPT ![q] = clock] /\ UNCHANGED <<node, busy, batch>>
         ELSE Claim(th, nd, Limit(nd)) /\ UNCHANGED last_run
  BY DEF Start
<1>2. /\ q \in Queries /\ clock \in Nat /\ rows \subseteq T
      /\ \A o \in Queries : last_run[o] < clock /\ last_run[o] \in Nat
      /\ PortionsTypeOK /\ ClaimTypes /\ calls = NoCalls
      /\ \A other \in Threads : batch[other] = <<>>
  BY <1>1, ReportFacts, PortionTypes DEF PRunInv, PInv
<1>3. /\ nd \in NodeRecord /\ nd.query = q /\ nd.tick = clock
      /\ nd.due = {t \in rows : PassesFilter(q, t)} /\ (nd.exhausted => nd.due = {})
      /\ ~nd.exhausted => HandInv(nd)
  BY <1>1, <1>2, FreshRun
<1> HIDE DEF nd
<1>4. ASSUME q \in Filtered, NEW t \in rows, t \notin nd.due PROVE seen[q][t] = version[t]
  <2>1. ~TableChanged(t, last_run[q])
    BY <1>3, <1>4 DEF PassesFilter
  <2>2. QED
    BY <1>4, <2>1, ReportFacts DEF ReportsEveryChange
<1>5. \A o \in Queries : last_run'[o] = last_run[o] \/ (o = q /\ nd.exhausted)
  BY <1>1, <1>2, ReportFacts
<1>6. StampsBehind'
  BY <1>1, <1>2, ReportFacts DEF StampsBehind, PInv
<1>7. ReportsEveryChange'
  <2> SUFFICES ASSUME NEW o \in Filtered, NEW t \in rows, seen[o][t] # version[t]
               PROVE  TableChanged(t, last_run'[o])
    BY <1>1 DEF ReportsEveryChange, TableChanged
  <2>1. last_run'[o] = last_run[o]
    BY <1>3, <1>4, <1>5, ReportFacts
  <2>2. QED
    BY <2>1, ReportFacts DEF ReportsEveryChange
<1>8. ASSUME iters # <<>>
      PROVE  (NewestRun(iters[1]) /\ StampedBatch(iters[1]) /\ SeenSoFar(iters[1]))'
  <2>1. iters[1].query \in Open /\ iters[1].query # q /\ iters[1].query \in Queries
    BY <1>8, ReportFacts DEF Open
  <2>2. iters[1].query \notin Writers
    BY <1>1, <2>1 DEF Compatible
  <2>3. QED
    BY <1>1, <1>2, <1>5, <1>8, <2>1, <2>2, IterationStays
<1>9. RunInv'
  BY <1>1, <1>6, <1>7, <1>8, PortionTypes DEF RunInv, PInv, PortionsTypeOK
<1>10. ASSUME Running' PROVE NewestWriter' /\ SeenWhatIsDone'
  <2>1. ~nd.exhausted
    BY <1>1, <1>10 DEF Running
  <2>2. Limit(nd) \in Nat \ {0} /\ HandInv(nd)
    BY <1>2, <1>3, <2>1, LimitPositive DEF HandInv
  <2>3. node'.query = q /\ node'.tick = clock /\ node'.due = nd.due /\ last_run' = last_run
    BY <1>1, <1>2, <1>3, <2>1, <2>2, ClaimKeeps
  <2>4. \A t \in T : ~Begun(t)'
    BY <1>1, <1>2 DEF Begun, NoCalls, RowsOf
  <2>5. \A t \in rows : ~Whole(t)'
    <3>1. \A t \in rows : t \in T /\ 0 \in RowsOf(t)
      BY <1>2 DEF ClaimTypes, RowsOf
    <3>2. \A t \in rows : calls'[t][0] = 0 /\ RowsOf(t)' = RowsOf(t)
      BY <1>1, <1>2, <3>1 DEF NoCalls, RowsOf
    <3>3. QED
      BY <3>1, <3>2 DEF Whole
  <2>6. q \in Writers => iters = <<>>
    <3>1. iters # <<>> => iters[1].query \in Open
      BY ReportFacts DEF Open
    <3>2. QED
      BY <1>1, <3>1 DEF Compatible
  <2>7. NewestWriter'
    BY <1>1, <1>2, <2>3, <2>4, <2>6 DEF NewestWriter
  <2>8. SeenWhatIsDone'
    BY <1>1, <1>4, <2>3, <2>5 DEF SeenWhatIsDone
  <2>9. QED
    BY <2>7, <2>8
<1>11. QED
  BY <1>9, <1>10 DEF PRunInv

(* A claim changes nothing that these parts read.                          *)
LEMMA MoreReports ==
  ASSUME PRunInv, PInv', NEW th \in Threads, Take(th) \/ TakeMore(th)
  PROVE  PRunInv'
<1>1. /\ UNCHANGED <<clock, written, structure, rows, last_run, iters, version, seen>>
      /\ UNCHANGED <<size, calls>> /\ Running
  BY DEF Take, TakeMore, vars
<1>2. /\ PInv /\ PortionsTypeOK /\ ClaimTypes /\ node \in NodeRecord /\ HandInv(node)
  BY <1>1, PortionTypes DEF PRunInv, PInv
<1>3. PICK allowed \in Nat \ {0} : ~node.exhausted /\ Claim(th, node, allowed)
  <2>1. CASE Take(th)
    BY <1>2, <2>1, LimitPositive DEF Take, HandInv
  <2>2. CASE TakeMore(th)
    <3>1. node.allowed \in Nat \ {0}
      BY <1>2, <2>2 DEF TakeMore, Unlocked, NodeRecord
    <3>2. QED
      BY <1>1, <1>2, <2>2, <3>1 DEF TakeMore, Unlocked, PInv
  <2>3. QED
    BY <2>1, <2>2
<1>4. node'.query = node.query /\ node'.tick = node.tick /\ node'.due = node.due
  BY <1>1, <1>2, <1>3, ClaimKeeps
<1>5. RunInv'
  BY <1>1 DEF PRunInv, RunInv, TypeOK, StampsBehind, ReportsEveryChange, NewestRun,
              StampedBatch, SeenSoFar, TableChanged
<1>6. NewestWriter' /\ SeenWhatIsDone'
  BY <1>1, <1>4 DEF PRunInv, NewestWriter, SeenWhatIsDone, Begun, Whole, RowsOf
<1>7. QED
  BY <1>5, <1>6 DEF PRunInv

(* A portion that runs stamps its table with the run's tick, newer than    *)
(* every recorded run; with the last of its rows the table has been seen.  *)
LEMMA RunReports ==
  ASSUME PRunInv, PInv', NEW th \in Threads, RunJob(th)
  PROVE  PRunInv'
<1> DEFINE p == Head(batch[th])
           q == node.query
<1>1. /\ UNCHANGED <<clock, structure, rows, last_run, iters, version, size, node, busy>>
      /\ Running
  BY DEF RunJob, RecordedByPortion
<1>2. /\ p.table \in node.due /\ p.table \in T
      /\ written' = StampedByRun(p.table) /\ calls' = Calls(p)
      /\ seen' = SeenWhole(q, p.table, Calls(p))
  <2>1. PortionsTypeOK /\ node \in NodeRecord /\ HandInv(node)
    BY <1>1, PortionTypes DEF PRunInv, PInv
  <2>2. QED
    BY <2>1, RunJobKeeps DEF PortionRecord
<1> HIDE DEF p
<1>3. /\ q \in Queries /\ q \in Parallel /\ node.tick \in Nat /\ node.tick < clock
      /\ NewestWriter /\ SeenWhatIsDone /\ \A k \in DOMAIN iters : iters[k].query \notin Writers
  BY <1>1, ReportFacts
<1>4. \A t \in T : \/ written'[t] = written[t]
                   \/ t = p.table /\ q \in Writers /\ written'[t] = node.tick
  BY <1>2, ReportFacts DEF StampedByRun
<1>5. q \in Writers => written'[p.table] = node.tick
  BY <1>2, ReportFacts DEF StampedByRun
<1>6. /\ seen' = seen \/ seen' = SeenBy(q, p.table)
      /\ \A o \in Queries, t \in T :
           seen'[o][t] = seen[o][t] \/ (o = q /\ t = p.table /\ seen'[o][t] = version[t])
      /\ \A o \in Queries : o # q => seen'[o] = seen[o]
  <2>1. seen' = seen \/ seen' = SeenBy(q, p.table)
    BY <1>2 DEF SeenWhole
  <2>2. seen \in [Queries -> [T -> 0..MaxChanges]]
    BY ReportFacts
  <2>3. CASE seen' = SeenBy(q, p.table)
    <3>1. seen' = [seen EXCEPT ![q][p.table] = version[p.table]]
      BY <2>3 DEF SeenBy
    <3>2. QED
      BY <1>2, <1>3, <2>1, <2>2, <3>1
  <2>4. QED
    BY <2>1, <2>3
<1>7. StampsBehind'
  <2>1. /\ \A t \in T : written[t] <= clock /\ structure[t] <= clock /\ written[t] \in Nat
        /\ \A o \in Queries : last_run[o] < clock
        /\ clock \in Nat
    BY ReportFacts DEF StampsBehind
  <2>2. \A t \in T : written'[t] <= clock
    BY <1>3, <1>4, <2>1
  <2>3. QED
    BY <1>1, <2>1, <2>2 DEF StampsBehind
<1>8. ReportsEveryChange'
  <2> SUFFICES ASSUME NEW o \in Filtered, NEW t \in rows, seen'[o][t] # version[t]
               PROVE  TableChanged(t, last_run[o])'
    BY <1>1 DEF ReportsEveryChange, TableChanged
  <2>1. o \in Queries /\ t \in T /\ seen[o][t] # version[t]
    BY <1>6, ReportFacts
  <2>2. TableChanged(t, last_run[o])
    BY <2>1, ReportFacts DEF ReportsEveryChange
  <2>3. CASE written'[t] = written[t]
    BY <1>1, <2>2, <2>3 DEF TableChanged
  <2>4. CASE q \in Writers /\ written'[t] = node.tick
    <3>1. last_run[o] < node.tick /\ last_run[o] \in Nat
      BY <1>3, <2>1, <2>4, ReportFacts DEF NewestWriter
    <3>2. QED
      BY <1>1, <1>3, <2>4, <3>1 DEF TableChanged
  <2>5. QED
    BY <1>4, <2>1, <2>3, <2>4
<1>9. ASSUME iters # <<>>
      PROVE  (NewestRun(iters[1]) /\ StampedBatch(iters[1]) /\ SeenSoFar(iters[1]))'
  <2>1. q \notin Writers /\ iters[1].query \notin Writers /\ iters[1].query # q
        /\ iters[1].query \in Queries
    BY <1>3, <1>9, ReportFacts DEF NewestWriter
  <2>2. written' = written
    BY <1>2, <2>1 DEF StampedByRun
  <2>3. clock' \in Nat /\ clock' >= clock
    BY <1>1, ReportFacts
  <2>4. QED
    BY <1>1, <1>6, <1>9, <2>1, <2>2, <2>3, IterationStays
<1>10. RunInv'
  BY <1>1, <1>7, <1>8, <1>9 DEF RunInv, PInv, PortionsTypeOK
<1>11. \A t \in T : t # p.table => calls'[t] = calls[t]
  BY <1>2 DEF Calls, PRunInv, PInv, PortionsTypeOK
<1>12. NewestWriter'
  <2> SUFFICES ASSUME q \in Writers, NEW t \in T, Begun(t)' PROVE written'[t] >= node.tick
    BY <1>1, <1>3 DEF NewestWriter
  <2>1. CASE t = p.table
    BY <1>3, <1>5, <2>1
  <2>2. CASE t # p.table
    <3>1. Begun(t)
      BY <1>1, <1>11, <2>2 DEF Begun, RowsOf
    <3>2. QED
      BY <1>3, <1>4, <2>2, <3>1 DEF NewestWriter
  <2>3. QED
    BY <2>1, <2>2
<1>13. SeenWhatIsDone'
  <2> SUFFICES ASSUME q \in Filtered, NEW t \in rows, t \notin node.due \/ Whole(t)'
               PROVE  seen'[q][t] = version[t]
    BY <1>1 DEF SeenWhatIsDone
  <2>1. t \in T
    BY ReportFacts
  <2>2. CASE t = p.table
    <3>1. \A r \in RowsOf(t) : Calls(p)[t][r] > 0
      BY <1>1, <1>2, <2>2 DEF Whole, RowsOf
    <3>2. seen' = SeenBy(q, t)
      BY <1>2, <2>2, <3>1 DEF SeenWhole
    <3>3. QED
      BY <1>3, <2>1, <3>2, ReportFacts DEF SeenBy
  <2>3. CASE t # p.table
    <3>1. t \notin node.due \/ Whole(t)
      BY <1>1, <1>11, <2>1, <2>3 DEF Whole, RowsOf
    <3>2. QED
      BY <1>3, <1>6, <2>1, <2>3, <3>1 DEF SeenWhatIsDone
  <2>4. QED
    BY <2>2, <2>3
<1>14. QED
  BY <1>10, <1>12, <1>13 DEF PRunInv

(* A row the callback writes is of a table that the run has stamped.       *)
LEMMA WriteReports ==
  ASSUME PRunInv, PInv', NEW t \in T, WriteRow(t)
  PROVE  PRunInv'
<1> DEFINE q == node.query
<1>1. /\ UNCHANGED <<clock, written, structure, rows, last_run, iters>>
      /\ UNCHANGED <<size, node, busy, batch, calls>>
      /\ Running /\ q \in Writers /\ Begun(t)
      /\ version' = [version EXCEPT ![t] = @ + 1] /\ seen' = OwnWriteSeen(q, t)
  BY DEF WriteRow, runVars, Begun
<1>2. /\ q \in Queries /\ NewestWriter /\ SeenWhatIsDone /\ node.tick \in Nat /\ iters = <<>>
  BY <1>1, ReportFacts DEF NewestWriter
<1>3. /\ \A u \in T : u # t => version'[u] = version[u]
      /\ version'[t] = version[t] + 1
      /\ \A o \in Queries, u \in T : o # q \/ u # t => seen'[o][u] = seen[o][u]
      /\ seen[q][t] = version[t] => seen'[q][t] = version'[t]
  BY <1>1, <1>2, ReportFacts DEF OwnWriteSeen
<1>4. \A o \in Queries : TableChanged(t, last_run[o])
  <2>1. written[t] \in Nat /\ written[t] >= node.tick
    BY <1>1, <1>2, ReportFacts DEF NewestWriter
  <2>2. \A o \in Queries : last_run[o] \in Nat /\ last_run[o] < node.tick
    BY <1>1, <1>2, ReportFacts DEF NewestWriter
  <2>3. QED
    BY <1>2, <2>1, <2>2 DEF TableChanged
<1>5. StampsBehind'
  BY <1>1, ReportFacts DEF StampsBehind
<1>6. ReportsEveryChange'
  <2> SUFFICES ASSUME NEW o \in Filtered, NEW u \in rows, seen'[o][u] # version'[u]
               PROVE  TableChanged(u, last_run[o])
    BY <1>1 DEF ReportsEveryChange, TableChanged
  <2>1. o \in Queries /\ u \in T
    BY ReportFacts
  <2>2. CASE u # t
    BY <1>3, <2>1, <2>2, ReportFacts DEF ReportsEveryChange
  <2>3. CASE u = t
    BY <1>4, <2>1, <2>3
  <2>4. QED
    BY <2>2, <2>3
<1>7. RunInv'
  BY <1>1, <1>2, <1>5, <1>6 DEF RunInv, PInv, PortionsTypeOK
<1>8. NewestWriter'
  BY <1>1, <1>2 DEF NewestWriter, Begun, RowsOf
<1>9. SeenWhatIsDone'
  <2> SUFFICES ASSUME q \in Filtered, NEW u \in rows, u \notin node.due \/ Whole(u)
               PROVE  seen'[q][u] = version'[u]
    BY <1>1 DEF SeenWhatIsDone, Whole, RowsOf
  <2>1. u \in T /\ seen[q][u] = version[u]
    BY <1>2, ReportFacts DEF SeenWhatIsDone
  <2>2. QED
    BY <1>2, <1>3, <2>1
<1>10. QED
  BY <1>7, <1>8, <1>9 DEF PRunInv

(* A run that is recorded has given every table that was due whole.        *)
LEMMA FinishReports ==
  ASSUME PRunInv, PInv', NEW th \in Threads, Finish(th)
  PROVE  PRunInv'
<1> DEFINE q == node.query
<1>1. /\ UNCHANGED <<clock, written, structure, rows, iters, version, seen, size, batch>>
      /\ Running /\ batch[th] = <<>> /\ PInv
  BY DEF Finish, PRunInv
<1>2. CASE ~(node.exhausted /\ busy = {th})
  <2>1. UNCHANGED <<last_run, node, calls>>
    BY <1>2 DEF Finish
  <2>2. RunInv'
    BY <1>1, <2>1 DEF PRunInv, RunInv, TypeOK, StampsBehind, ReportsEveryChange, NewestRun,
                      StampedBatch, SeenSoFar, TableChanged
  <2>3. NewestWriter' /\ SeenWhatIsDone'
    BY <1>1, <2>1 DEF PRunInv, NewestWriter, SeenWhatIsDone, Begun, Whole, RowsOf
  <2>4. QED
    BY <2>2, <2>3 DEF PRunInv
<1>3. CASE node.exhausted /\ busy = {th}
  <2>1. last_run' = [last_run EXCEPT ![q] = node.tick] /\ node' = NoRun
    BY <1>3 DEF Finish
  <2>2. Claimed = {}
    <3>1. \A other \in Threads : batch[other] = <<>>
      BY <1>1, <1>3 DEF PInv
    <3>2. DOMAIN << >> = {}
      OBVIOUS
    <3>3. QED
      BY <3>1, <3>2 DEF Claimed, ClaimedBy
  <2>3. \A t \in node.due : Whole(t)
    BY <1>1, <1>3, <2>2, PInvGivesRows DEF EachRowOnce, GivenOnce, Whole
  <2>4. q \in Filtered => \A t \in rows : seen[q][t] = version[t]
    BY <1>1, <2>3, ReportFacts DEF SeenWhatIsDone
  <2>5. \A o \in Queries : o # q => last_run'[o] = last_run[o]
    BY <2>1, ReportFacts
  <2>6. StampsBehind'
    BY <1>1, ReportFacts DEF StampsBehind, PInv
  <2>7. ReportsEveryChange'
    <3> SUFFICES ASSUME NEW o \in Filtered, NEW t \in rows, seen[o][t] # version[t]
                 PROVE  TableChanged(t, last_run'[o])
      BY <1>1 DEF ReportsEveryChange, TableChanged
    <3>1. last_run'[o] = last_run[o]
      BY <2>4, <2>5, ReportFacts
    <3>2. QED
      BY <3>1, ReportFacts DEF ReportsEveryChange
  <2>8. ASSUME iters # <<>>
        PROVE  (NewestRun(iters[1]) /\ StampedBatch(iters[1]) /\ SeenSoFar(iters[1]))'
    <3>1. /\ iters[1].query \notin Writers /\ iters[1].query # q /\ iters[1].query \in Queries
          /\ clock' \in Nat /\ clock' >= clock
      BY <1>1, <2>8, ReportFacts
    <3>2. QED
      BY <1>1, <2>5, <2>8, <3>1, IterationStays
  <2>9. RunInv'
    BY <1>1, <2>6, <2>7, <2>8 DEF RunInv, PInv, PortionsTypeOK
  <2>10. ~Running'
    BY <2>1 DEF Running
  <2>11. QED
    BY <2>9, <2>10 DEF PRunInv
<1>4. QED
  BY <1>2, <1>3

(* Beside a run only queries that do not write are iterated, and no query  *)
(* of a parallel system.                                                   *)
LEMMA BesideReports ==
  ASSUME Nesting = 1, PRunInv, PInv', Beside
  PROVE  PRunInv'
<1>1. /\ UNCHANGED <<size, node, busy, batch, calls>> /\ RunInv /\ TypeOK'
      /\ (Running' <=> Running)
  BY DEF Beside, runVars, PRunInv, PInv, PortionsTypeOK, Running
<1>2. ASSUME RunInv', UNCHANGED <<rows, version>>,
             Running => /\ node.query \notin Writers
                        /\ seen'[node.query] = seen[node.query]
      PROVE  PRunInv'
  <2>1. ASSUME Running PROVE NewestWriter' /\ SeenWhatIsDone'
    BY <1>1, <1>2, <2>1 DEF PRunInv, NewestWriter, SeenWhatIsDone, Whole, RowsOf
  <2>2. QED
    BY <1>1, <1>2, <2>1 DEF PRunInv
<1>3. ASSUME NEW q \in Queries \ Parallel, Running => Compatible(q, node.query), Iter(q)
      PROVE  PRunInv'
  <2>1. RunInv' /\ UNCHANGED <<rows, version, seen>>
    BY <1>1, <1>3, IterPreserves DEF Iter
  <2>2. QED
    BY <1>2, <1>3, <2>1 DEF Compatible
<1>4. Running /\ iters # <<>> => node.query \notin Writers
  BY ReportFacts DEF NewestWriter
<1>5. ASSUME NEW t \in T, IterNext(t) PROVE PRunInv'
  <2>1. RunInv' /\ iters # <<>> /\ UNCHANGED <<rows, version>> /\ seen' = SeenBy(Current.query, t)
    BY <1>1, <1>5, IterNextPreserves DEF IterNext
  <2>2. Current = iters[1]
    BY <1>1, <2>1, OneIteration DEF RunInv
  <2>3. Running => seen'[node.query] = seen[node.query]
    BY <2>1, <2>2, ReportFacts DEF SeenBy
  <2>4. QED
    BY <1>2, <1>4, <2>1, <2>3
<1>6. ASSUME IterEnd PROVE PRunInv'
  <2>1. RunInv' /\ iters # <<>> /\ UNCHANGED <<rows, version, seen>>
    BY <1>1, <1>6, IterEndPreserves DEF IterEnd
  <2>2. QED
    BY <1>2, <1>4, <2>1
<1>7. ASSUME IterAbandon PROVE PRunInv'
  <2>1. RunInv' /\ iters # <<>> /\ UNCHANGED <<rows, version, seen>>
    BY <1>1, <1>7, IterAbandonPreserves DEF IterAbandon
  <2>2. QED
    BY <1>2, <1>4, <2>1
<1>8. ASSUME NEW k \in 1..Nesting, WriteField(k) PROVE PRunInv'
  <2>1. RunInv' /\ k \in DOMAIN iters /\ iters[k].query \in Writers
    BY <1>1, <1>8, WriteFieldPreserves DEF WriteField
  <2>2. ~Running
    BY <2>1, ReportFacts
  <2>3. QED
    BY <1>1, <2>1, <2>2 DEF PRunInv
<1>9. ASSUME ~Running, NEW t \in T, Set(t) PROVE PRunInv'
  <2>1. RunInv'
    BY <1>1, <1>9, OutsideChangePreserves
  <2>2. QED
    BY <1>1, <1>9, <2>1 DEF PRunInv
<1>10. QED
  BY <1>3, <1>5, <1>6, <1>7, <1>8, <1>9 DEF Beside

(* No step of PNext breaks the invariant.                                  *)
LEMMA PRunInvStep ==
  ASSUME Nesting = 1, PRunInv, PInv', [PNext]_allVars
  PROVE  PRunInv'
<1>1. CASE \E th \in Threads, q \in Parallel : Start(th, q)
  BY <1>1, StartReports
<1>2. CASE \E th \in Threads : Take(th) \/ TakeMore(th)
  BY <1>2, MoreReports
<1>3. CASE \E th \in Threads : RunJob(th)
  BY <1>3, RunReports
<1>4. CASE \E th \in Threads : Finish(th)
  BY <1>4, FinishReports
<1>5. CASE \E t \in T : WriteRow(t)
  BY <1>5, WriteReports
<1>6. ASSUME NEW t \in T, NEW left \in BOOLEAN, Restructured(t, left) PROVE PRunInv'
  <2>1. Restructure(t, left) /\ ~Running /\ node' = node
    BY <1>6 DEF Restructured
  <2>2. RunInv'
    BY <2>1, OutsideChangePreserves DEF PRunInv, PInv, PortionsTypeOK
  <2>3. QED
    BY <2>1, <2>2 DEF PRunInv, Running
<1>7. CASE Beside
  BY <1>7, BesideReports
<1>8. CASE UNCHANGED allVars
  BY <1>8 DEF allVars, vars, runVars, PRunInv, RunInv, TypeOK, StampsBehind,
              ReportsEveryChange, NewestRun, StampedBatch, SeenSoFar, TableChanged,
              Running, NewestWriter, SeenWhatIsDone, Begun, Whole, RowsOf
<1>9. QED
  BY <1>1, <1>2, <1>3, <1>4, <1>5, <1>6, <1>7, <1>8 DEF PNext

-----------------------------------------------------------------------------
(* While iterations are not nested, parallel runs hide no change either:   *)
(* neither the stamps of portions that run at the same time, nor what the  *)
(* callback writes after them, nor a run recorded after a later iteration  *)
(* (worker_pool.c:80-91, system.c:80-82).                                  *)
THEOREM ParallelRunsLoseNothing ==
  ASSUME Nesting = 1
  PROVE  PSpec => []ReportsEveryChange
<1>1. PInit => PRunInv
  <2> SUFFICES ASSUME PInit PROVE PRunInv
    OBVIOUS
  <2>1. Init /\ PInv /\ ~Running
    BY PInitial DEF PInit, Running
  <2>2. iters = <<>> /\ StampsBehind /\ ReportsEveryChange
    BY <2>1 DEF Init, StampsBehind, ReportsEveryChange, T
  <2>3. QED
    BY <2>1, <2>2 DEF PRunInv, RunInv, PInv, PortionsTypeOK
<1>2. PRunInv /\ [PNext]_allVars => PRunInv'
  <2> SUFFICES ASSUME PRunInv, [PNext]_allVars PROVE PRunInv'
    OBVIOUS
  <2>1. PInv'
    BY PInvStep DEF PRunInv
  <2>2. QED
    BY <2>1, PRunInvStep
<1>3. PRunInv => ReportsEveryChange
  BY DEF PRunInv, RunInv
<1>4. QED
  BY <1>1, <1>2, <1>3, PTL DEF PSpec
=============================================================================
