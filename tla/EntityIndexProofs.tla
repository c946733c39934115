--------------------------- MODULE EntityIndexProofs ---------------------------
(***************************************************************************)
(* What EntityIndex guarantees for every number of threads, chunk size and *)
(* number of ids: no id is issued twice, none is lost, and no handle comes  *)
(* twice.                                                                  *)
(***************************************************************************)
EXTENDS EntityIndex, FiniteSetTheorems, SequenceTheorems, TLAPS

(* The calls under way that may still count fresh ids up.                  *)
Wanting == {t \in Threads : call[t] # "none" /\ res[t].next = res[t].end}
Room == count + Chunk * Cardinality(Wanting) <= MaxId + 1

(* Where the window stands, and the bounds of what the threads hold.       *)
WindowPhase ==
  /\ window # "open" => \A t \in Threads : call[t] = "none"
  /\ window = "closed" => \A t \in Threads : res[t] = Empty
  /\ window = "returning" => \A t \in Threads : t < returning => res[t] = Empty
  /\ window # "closed" => cursor <= snapshot /\ snapshot <= Len(available)
  /\ window = "open" => snapshot = Len(available)
Holdings ==
  \A t \in Threads :
    /\ res[t].low <= res[t].high /\ res[t].next <= res[t].end
    /\ res[t].low < res[t].high => PrefixLength <= res[t].low /\ res[t].high <= snapshot
                                   /\ window # "closed"
    /\ res[t].next < res[t].end => 1 <= res[t].next /\ res[t].end <= count

BoundsInv == TypeOK /\ WindowPhase /\ Holdings /\ Room

-----------------------------------------------------------------------------
(* There are finitely many threads.                                        *)
LEMMA ThreadsFinite == IsFiniteSet(Threads)
  BY FS_Interval, EntityAssumption DEF Threads, EntityAssumption

(* Finitely many threads want a block.                                     *)
LEMMA WantingFinite ==
  /\ IsFiniteSet(Wanting) /\ Cardinality(Wanting) \in Nat
  /\ IsFiniteSet(Wanting') /\ Cardinality(Wanting') \in Nat
<1>1. Wanting \in SUBSET Threads /\ Wanting' \in SUBSET Threads
  BY DEF Wanting
<1>2. QED
  BY <1>1, ThreadsFinite, FS_Subset, FS_CardinalityType

(* More threads want more room.                                            *)
LEMMA ChunkMonotone ==
  ASSUME NEW a \in Nat, NEW b \in Nat, a <= b
  PROVE  Chunk * a <= Chunk * b
  BY EntityAssumption DEF EntityAssumption

(* A step that counts nothing up and makes nobody want a block keeps Room. *)
LEMMA RoomKept ==
  ASSUME Room, count \in Nat, count' = count, Wanting' \subseteq Wanting
  PROVE  Room'
<1>1. Cardinality(Wanting') <= Cardinality(Wanting)
  BY WantingFinite, FS_Subset
<1>2. Chunk * Cardinality(Wanting') <= Chunk * Cardinality(Wanting)
  BY <1>1, WantingFinite, ChunkMonotone
<1>3. /\ Chunk * Cardinality(Wanting') \in Int /\ Chunk * Cardinality(Wanting) \in Int
      /\ MaxId \in Int
  BY WantingFinite, EntityAssumption DEF EntityAssumption
<1>4. QED
  BY <1>2, <1>3 DEF Room

(* A reservation with some of its fields changed.                          *)
LEMMA Popped ==
  ASSUME NEW r \in Reservations, NEW h \in Nat,
         NEW s, s = [r EXCEPT !.high = h]
  PROVE  /\ s \in Reservations /\ s.low = r.low /\ s.high = h
         /\ s.next = r.next /\ s.end = r.end /\ s.spent = r.spent
  BY DEF Reservations

(* Issuing a fresh id changes one field of a reservation.                  *)
LEMMA Counted ==
  ASSUME NEW r \in Reservations, NEW n \in Nat,
         NEW s, s = [r EXCEPT !.next = n]
  PROVE  /\ s \in Reservations /\ s.low = r.low /\ s.high = r.high
         /\ s.next = n /\ s.end = r.end /\ s.spent = r.spent
  BY DEF Reservations

(* The bounds hold at the start.                                           *)
LEMMA BoundsInit == Init => BoundsInv
<1> SUFFICES ASSUME Init PROVE BoundsInv
  OBVIOUS
<1> USE EntityAssumption DEF EntityAssumption
<1>1. /\ available \in Seq(Ids) /\ snapshot \in Nat /\ cursor \in Int
      /\ count \in 1..(MaxId + 1)
      /\ generation \in [Ids -> 0..(GenLimit - 1)]
      /\ live \in SUBSET Ids /\ killed \in SUBSET (Ids \X (0..(GenLimit - 1)))
  BY DEF Init
<1>2. /\ window \in {"closed", "open", "returning"} /\ returning \in 0..(WorkerCount + 1)
      /\ res \in [Threads -> Reservations]
      /\ call \in [Threads -> {"none", "reuse", "new"}]
  BY DEF Init, Empty, Reservations
<1>3. WindowPhase /\ Holdings
  BY DEF Init, WindowPhase, Holdings, Empty
<1>4. Wanting = {}
  BY DEF Init, Wanting
<1>5. Room
  BY <1>4, FS_EmptySet DEF Init, Room
<1>6. QED
  BY <1>1, <1>2, <1>3, <1>5 DEF BoundsInv, TypeOK

(* The bounds are inductive, action by action.                             *)
LEMMA BoundsStep == BoundsInv /\ [Next]_vars => BoundsInv'
<1> SUFFICES ASSUME BoundsInv, [Next]_vars PROVE BoundsInv'
  OBVIOUS
<1> USE EntityAssumption DEF EntityAssumption
<1> TypeOK /\ WindowPhase /\ Holdings /\ Room
  BY DEF BoundsInv
<1>t. count \in Nat /\ Len(available) \in Nat
  BY DEF TypeOK
<1>1. ASSUME NEW reuse \in BOOLEAN, Reserve(reuse) PROVE BoundsInv'
  <2>1. /\ window = "closed"
        /\ UNCHANGED <<snapshot, cursor, generation, window, returning, res, call, killed>>
    BY <1>1 DEF Reserve
  <2>2. Wanting = {} /\ Wanting' = {}
    BY <2>1 DEF WindowPhase, Wanting
  <2>3. /\ available' \in Seq(Ids) /\ live' \in SUBSET Ids
        /\ count' \in 1..(MaxId + 1) /\ count <= count'
    <3>1. CASE /\ reuse /\ available # <<>>
               /\ live' = live \cup {available[Len(available)]}
               /\ available' = SubSeq(available, 1, Len(available) - 1)
               /\ count' = count
      BY <3>1 DEF TypeOK
    <3>2. CASE /\ count <= MaxId
               /\ live' = live \cup {count}
               /\ count' = count + 1
               /\ available' = available
      BY <3>2 DEF TypeOK, Ids
    <3>3. QED
      BY <1>1, <3>1, <3>2 DEF Reserve
  <2>4. TypeOK'
    BY <2>1, <2>3 DEF TypeOK
  <2>5. WindowPhase' /\ Holdings'
    BY <2>1, <2>3 DEF WindowPhase, Holdings, Empty
  <2>6. Room'
    BY <2>2, <2>3, FS_EmptySet DEF Room
  <2>7. QED
    BY <2>4, <2>5, <2>6 DEF BoundsInv
<1>2. ASSUME NEW i \in Ids, Kill(i) PROVE BoundsInv'
  <2>1. /\ window = "closed" /\ i \in live
        /\ killed' = killed \cup {<<i, generation[i]>>}
        /\ generation' = [generation EXCEPT ![i] = (@ + 1) % GenLimit]
        /\ live' = live \ {i}
        /\ available' = Append(available, i)
        /\ UNCHANGED <<snapshot, cursor, count, window, returning, res, call>>
    BY <1>2 DEF Kill, Handle
  <2>2. generation' \in [Ids -> 0..(GenLimit - 1)]
    BY <2>1 DEF TypeOK
  <2>3. TypeOK'
    BY <2>1, <2>2 DEF TypeOK
  <2>4. WindowPhase' /\ Holdings'
    BY <2>1 DEF WindowPhase, Holdings, Empty, PrefixLength
  <2>5. Wanting' = Wanting
    BY <2>1 DEF Wanting
  <2>6. QED
    BY <1>t, <2>1, <2>3, <2>4, <2>5, RoomKept DEF BoundsInv
<1>3. CASE BeginParallel
  <2>1. /\ window = "closed" /\ window' = "open"
        /\ snapshot' = Len(available) /\ cursor' = Len(available)
        /\ UNCHANGED <<available, count, generation, live, returning, res, call, killed>>
    BY <1>3 DEF BeginParallel
  <2>2. TypeOK'
    BY <2>1, <1>t DEF TypeOK
  <2>3. WindowPhase' /\ Holdings'
    BY <2>1, <1>t DEF WindowPhase, Holdings, Empty
  <2>4. Wanting' = Wanting
    BY <2>1 DEF Wanting
  <2>5. QED
    BY <1>t, <2>1, <2>2, <2>3, <2>4, RoomKept DEF BoundsInv
<1>4. ASSUME NEW t \in Threads, NEW how \in {"reuse", "new"}, CallReserve(t, how)
      PROVE  BoundsInv'
  <2> DEFINE others == {u \in Threads : call[u] # "none"}
  <2>1. /\ window = "open" /\ call[t] = "none"
        /\ count + Chunk * (Cardinality(others) + 1) <= MaxId + 1
        /\ call' = [call EXCEPT ![t] = how]
        /\ UNCHANGED <<available, snapshot, cursor, count, generation, live, window, returning,
                       res, killed>>
    BY <1>4 DEF CallReserve, indexVars
  <2>2. TypeOK'
    BY <2>1 DEF TypeOK
  <2>3. WindowPhase' /\ Holdings'
    BY <2>1 DEF WindowPhase, Holdings, PrefixLength
  <2>4. IsFiniteSet(others) /\ IsFiniteSet(others \cup {t}) /\ Cardinality(others) \in Nat
        /\ Cardinality(others \cup {t}) = Cardinality(others) + 1
    <3>1. others \in SUBSET Threads
      OBVIOUS
    <3>2. IsFiniteSet(others)
      BY <3>1, ThreadsFinite, FS_Subset
    <3>3. t \notin others
      BY <2>1
    <3>4. QED
      BY <3>2, <3>3, FS_AddElement, FS_CardinalityType
  <2>5. Wanting' \subseteq others \cup {t}
    BY <2>1 DEF Wanting, TypeOK
  <2>6. Cardinality(Wanting') <= Cardinality(others) + 1
    BY <2>4, <2>5, FS_Subset
  <2>7. Chunk * Cardinality(Wanting') <= Chunk * (Cardinality(others) + 1)
    BY <2>4, <2>6, WantingFinite, ChunkMonotone
  <2>8. Room'
    <3>1. Chunk * Cardinality(Wanting') \in Int /\ Chunk * (Cardinality(others) + 1) \in Int
      BY <2>4, WantingFinite
    <3> HIDE DEF others
    <3>2. QED
      BY <1>t, <2>1, <2>7, <3>1 DEF Room
  <2>9. QED
    BY <2>2, <2>3, <2>8 DEF BoundsInv
<1>5. ASSUME NEW t \in Threads, ClaimRecycled(t) PROVE BoundsInv'
  <2>1. /\ call[t] = "reuse" /\ res[t].low = res[t].high
        /\ cursor' = cursor - Chunk
        /\ UNCHANGED <<available, snapshot, count, generation, live, window, returning,
                       call, killed>>
    BY <1>5 DEF ClaimRecycled
  <2>2. window = "open"
    BY <2>1 DEF WindowPhase
  <2>3. cursor <= snapshot /\ snapshot = Len(available) /\ cursor \in Int /\ snapshot \in Int
    BY <2>2 DEF WindowPhase, TypeOK
  <2>4. \A u \in Threads \ {t} : res'[u] = res[u]
    BY <1>5 DEF ClaimRecycled, TypeOK
  <2>5. /\ res'[t].next = res[t].next /\ res'[t].end = res[t].end
        /\ res'[t] \in Reservations
        /\ \/ res'[t].low = res[t].low /\ res'[t].high = res[t].high
           \/ cursor > 0 /\ res'[t].low = SliceLow(cursor) /\ res'[t].high = cursor
    <3>1. res[t] \in Reservations
      BY DEF TypeOK
    <3>2. CASE cursor <= 0
      <4>1. res'[t] = [res[t] EXCEPT !.spent = TRUE]
        BY <1>5, <3>2 DEF ClaimRecycled, TypeOK
      <4>2. QED
        BY <3>1, <4>1 DEF Reservations
    <3>3. CASE cursor > 0
      <4>1. res'[t] = [res[t] EXCEPT !.low = SliceLow(cursor), !.high = cursor]
        BY <1>5, <2>3, <3>3 DEF ClaimRecycled, TypeOK
      <4>2. SliceLow(cursor) \in Nat /\ cursor \in Nat
        BY <2>3, <3>3 DEF SliceLow
      <4>3. /\ res'[t] \in Reservations /\ res'[t].low = SliceLow(cursor) /\ res'[t].high = cursor
            /\ res'[t].next = res[t].next /\ res'[t].end = res[t].end
            /\ res'[t].spent = res[t].spent
        <5>1. res'[t] = [next |-> res[t].next, end |-> res[t].end, low |-> SliceLow(cursor),
                         high |-> cursor, spent |-> res[t].spent]
          BY <3>1, <4>1 DEF Reservations
        <5>2. QED
          BY <3>1, <4>2, <5>1 DEF Reservations
      <4>4. QED
        BY <3>3, <4>3
    <3>4. QED
      BY <2>3, <3>2, <3>3
  <2>6. res' \in [Threads -> Reservations]
    BY <1>5, <2>4, <2>5 DEF ClaimRecycled, TypeOK
  <2>7. TypeOK'
    BY <2>1, <2>6 DEF TypeOK
  <2>8. WindowPhase'
    BY <2>1, <2>2, <2>3 DEF WindowPhase
  <2>9. Holdings'
    <3>1. PrefixLength' <= PrefixLength /\ (cursor > 0 => PrefixLength' = SliceLow(cursor))
          /\ PrefixLength \in Int /\ PrefixLength' \in Int
      BY <2>1, <2>3 DEF PrefixLength, SliceLow
    <3>2. ASSUME NEW u \in Threads \ {t}
          PROVE  /\ res'[u].low <= res'[u].high /\ res'[u].next <= res'[u].end
                 /\ res'[u].low < res'[u].high => PrefixLength' <= res'[u].low
                                                  /\ res'[u].high <= snapshot'
                                                  /\ window' # "closed"
                 /\ res'[u].next < res'[u].end => 1 <= res'[u].next /\ res'[u].end <= count'
      <4>1. res[u] \in Reservations
        BY DEF TypeOK
      <4>2. QED
        BY <2>1, <2>4, <3>1, <4>1 DEF Holdings, Reservations
    <3>3. /\ res'[t].low <= res'[t].high /\ res'[t].next <= res'[t].end
          /\ res'[t].low < res'[t].high => PrefixLength' <= res'[t].low
                                           /\ res'[t].high <= snapshot'
                                           /\ window' # "closed"
          /\ res'[t].next < res'[t].end => 1 <= res'[t].next /\ res'[t].end <= count'
      <4>1. res[t] \in Reservations /\ res'[t] \in Reservations
        BY <2>5 DEF TypeOK
      <4>2. SliceLow(cursor) <= cursor \/ cursor <= 0
        BY <2>3 DEF SliceLow
      <4>3. QED
        BY <2>1, <2>2, <2>3, <2>5, <3>1, <4>1, <4>2 DEF Holdings, Reservations
    <3>4. QED
      BY <3>2, <3>3 DEF Holdings
  <2>10. Wanting' = Wanting
    BY <2>1, <2>4, <2>5 DEF Wanting
  <2>11. QED
    BY <1>t, <2>1, <2>7, <2>8, <2>9, <2>10, RoomKept DEF BoundsInv
<1>6. ASSUME NEW t \in Threads, IssueRecycled(t) PROVE BoundsInv'
  <2>1. /\ call[t] = "reuse" /\ res[t].low < res[t].high
        /\ live' = live \cup {available[res[t].high]}
        /\ res' = [res EXCEPT ![t].high = @ - 1]
        /\ call' = [call EXCEPT ![t] = "none"]
        /\ UNCHANGED <<available, snapshot, cursor, count, generation, window, returning, killed>>
    BY <1>6 DEF IssueRecycled, indexVars
  <2>2. window = "open"
    BY <2>1 DEF WindowPhase
  <2>3. res[t] \in Reservations /\ res[t].high \in 1..Len(available)
    BY <2>1, <2>2, <1>t DEF WindowPhase, Holdings, TypeOK, Reservations
  <2>4. available[res[t].high] \in Ids
    BY <2>3 DEF TypeOK
  <2>5. /\ res'[t] \in Reservations /\ res'[t].low = res[t].low /\ res'[t].high = res[t].high - 1
        /\ res'[t].next = res[t].next /\ res'[t].end = res[t].end
        /\ \A u \in Threads \ {t} : res'[u] = res[u]
    <3>1. /\ res'[t] = [res[t] EXCEPT !.high = res[t].high - 1]
          /\ \A u \in Threads \ {t} : res'[u] = res[u]
      BY <2>1 DEF TypeOK
    <3>2. res[t].high - 1 \in Nat
      BY <2>3
    <3>3. QED
      BY <2>3, <3>1, <3>2, Popped
  <2>6. res' \in [Threads -> Reservations]
    BY <2>1, <2>5 DEF TypeOK
  <2>7. TypeOK'
    BY <2>1, <2>4, <2>6 DEF TypeOK
  <2>8. WindowPhase' /\ Holdings'
    <3>1. WindowPhase'
      BY <2>1, <2>2 DEF WindowPhase
    <3>2. Holdings'
      <4>1. /\ res[t].low \in Nat /\ res[t].high \in Nat /\ snapshot \in Nat
            /\ PrefixLength' = PrefixLength
        BY <2>1, <2>3 DEF Reservations, PrefixLength, TypeOK
      <4>2. QED
        BY <2>1, <2>5, <4>1 DEF Holdings
    <3>3. QED
      BY <3>1, <3>2
  <2>9. Wanting' \subseteq Wanting
    BY <2>1, <2>3, <2>5 DEF Wanting, Reservations, TypeOK
  <2>10. QED
    BY <1>t, <2>1, <2>7, <2>8, <2>9, RoomKept DEF BoundsInv
<1>7. ASSUME NEW t \in Threads, ClaimFresh(t) PROVE BoundsInv'
  <2>1. /\ WantsFresh(t) /\ res[t].next = res[t].end
        /\ count' = count + Chunk
        /\ res' = [res EXCEPT ![t].next = count, ![t].end = count + Chunk]
        /\ UNCHANGED <<available, snapshot, cursor, generation, live, window, returning,
                       call, killed>>
    BY <1>7 DEF ClaimFresh
  <2>2. call[t] # "none" /\ window = "open"
    BY <2>1 DEF WantsFresh, WindowPhase
  <2>3. t \in Wanting /\ res[t] \in Reservations
    BY <2>1, <2>2 DEF Wanting, TypeOK
  <2>4. /\ res'[t] \in Reservations /\ res'[t].low = res[t].low /\ res'[t].high = res[t].high
        /\ res'[t].next = count /\ res'[t].end = count + Chunk
        /\ \A u \in Threads \ {t} : res'[u] = res[u]
    <3>1. /\ res'[t] = [res[t] EXCEPT !.next = count, !.end = count + Chunk]
          /\ \A u \in Threads \ {t} : res'[u] = res[u]
      BY <2>1 DEF TypeOK
    <3>2. count + Chunk \in Nat
      BY <1>t
    <3>3. /\ res'[t] \in Reservations /\ res'[t].low = res[t].low
          /\ res'[t].high = res[t].high /\ res'[t].next = count
          /\ res'[t].end = count + Chunk /\ res'[t].spent = res[t].spent
      <4>1. res'[t] = [next |-> count, end |-> count + Chunk, low |-> res[t].low,
                       high |-> res[t].high, spent |-> res[t].spent]
        BY <2>3, <3>1 DEF Reservations
      <4>2. QED
        BY <1>t, <2>3, <3>2, <4>1 DEF Reservations
    <3>4. QED
      BY <3>1, <3>3
  <2>5. res' \in [Threads -> Reservations]
    BY <2>1, <2>4 DEF TypeOK
  <2>6. Wanting' = Wanting \ {t}
    <3>1. res'[t].next # res'[t].end
      BY <1>t, <2>4
    <3>2. QED
      BY <2>1, <2>3, <2>4, <3>1 DEF Wanting
  <2>7. Cardinality(Wanting') = Cardinality(Wanting) - 1
    BY <2>3, <2>6, WantingFinite, FS_RemoveElement
  <2>8. Room' /\ count' <= MaxId + 1
    <3>1. Chunk * Cardinality(Wanting') = Chunk * Cardinality(Wanting) - Chunk
      BY <2>7, WantingFinite
    <3>2. Chunk * Cardinality(Wanting') >= 0 /\ Chunk * Cardinality(Wanting') \in Int
          /\ Chunk * Cardinality(Wanting) \in Int
      BY WantingFinite
    <3>3. QED
      BY <1>t, <2>1, <3>1, <3>2 DEF Room
  <2>9. TypeOK'
    <3>1. count' \in 1..(MaxId + 1)
      BY <1>t, <2>1, <2>8 DEF TypeOK
    <3>2. QED
      BY <2>1, <2>5, <3>1 DEF TypeOK
  <2>10. WindowPhase'
    BY <2>1, <2>2 DEF WindowPhase
  <2>11. Holdings'
    <3>1. \A u \in Threads : res[u] \in Reservations
      BY DEF TypeOK
    <3>2. count >= 1
      BY DEF TypeOK
    <3>3. QED
      <4>1. /\ \A u \in Threads : res[u].end \in Nat
            /\ PrefixLength' = PrefixLength
        BY <2>1, <3>1 DEF Reservations, PrefixLength
      <4>2. count <= count'
        BY <1>t, <2>1
      <4>3. \A u \in Threads : res[u].end <= count => res[u].end <= count'
        BY <1>t, <2>1, <4>1
      <4>4. ASSUME NEW u \in Threads
            PROVE  /\ res'[u].low <= res'[u].high /\ res'[u].next <= res'[u].end
                   /\ res'[u].low < res'[u].high => PrefixLength' <= res'[u].low
                                                    /\ res'[u].high <= snapshot'
                                                    /\ window' # "closed"
                   /\ res'[u].next < res'[u].end => 1 <= res'[u].next /\ res'[u].end <= count'
        <5>1. CASE u = t
          BY <1>t, <2>1, <2>4, <3>2, <4>1, <5>1 DEF Holdings
        <5>2. CASE u # t
          BY <2>1, <2>4, <4>1, <4>3, <5>2 DEF Holdings
        <5>3. QED
          BY <5>1, <5>2
      <4>5. QED
        BY <4>4 DEF Holdings
  <2>12. QED
    BY <2>8, <2>9, <2>10, <2>11 DEF BoundsInv
<1>8. ASSUME NEW t \in Threads, IssueFresh(t) PROVE BoundsInv'
  <2>1. /\ WantsFresh(t) /\ res[t].next < res[t].end
        /\ live' = live \cup {res[t].next}
        /\ res' = [res EXCEPT ![t].next = @ + 1]
        /\ call' = [call EXCEPT ![t] = "none"]
        /\ UNCHANGED <<available, snapshot, cursor, count, generation, window, returning, killed>>
    BY <1>8 DEF IssueFresh, indexVars
  <2>2. call[t] # "none" /\ window = "open"
    BY <2>1 DEF WantsFresh, WindowPhase
  <2>3. \A u \in Threads : res[u] \in Reservations
    BY DEF TypeOK
  <2>4. res[t].next \in Ids
    BY <2>1, <2>3 DEF Holdings, Ids, Reservations, TypeOK
  <2>5. /\ res'[t] \in Reservations /\ res'[t].low = res[t].low /\ res'[t].high = res[t].high
        /\ res'[t].next = res[t].next + 1 /\ res'[t].end = res[t].end
        /\ \A u \in Threads \ {t} : res'[u] = res[u]
    <3>1. /\ res'[t] = [res[t] EXCEPT !.next = res[t].next + 1]
          /\ \A u \in Threads \ {t} : res'[u] = res[u]
      BY <2>1 DEF TypeOK
    <3>2. res[t].next + 1 \in Nat
      BY <2>3 DEF Reservations
    <3>3. QED
      BY <2>3, <3>1, <3>2, Counted
  <2>6. res' \in [Threads -> Reservations]
    BY <2>1, <2>5 DEF TypeOK
  <2>7. TypeOK'
    BY <2>1, <2>4, <2>6 DEF TypeOK
  <2>8. WindowPhase' /\ Holdings'
    <3>1. WindowPhase'
      BY <2>1, <2>2 DEF WindowPhase
    <3>2. Holdings'
      BY <2>1, <2>3, <2>5 DEF Holdings, Reservations, PrefixLength
    <3>3. QED
      BY <3>1, <3>2
  <2>9. Wanting' \subseteq Wanting
    BY <2>1, <2>5 DEF Wanting, TypeOK
  <2>10. QED
    BY <1>t, <2>1, <2>7, <2>8, <2>9, RoomKept DEF BoundsInv
<1>9. CASE CloseWindow
  <2>1. /\ window = "open" /\ window' = "returning" /\ returning' = 0
        /\ \A t \in Threads : call[t] = "none"
        /\ UNCHANGED <<available, snapshot, cursor, count, generation, live, res, call, killed>>
    BY <1>9 DEF CloseWindow, indexVars
  <2>2. TypeOK'
    BY <2>1 DEF TypeOK
  <2>3. WindowPhase' /\ Holdings'
    BY <2>1 DEF WindowPhase, Holdings, PrefixLength, Threads
  <2>4. Wanting' = Wanting
    BY <2>1 DEF Wanting
  <2>5. QED
    BY <1>t, <2>1, <2>2, <2>3, <2>4, RoomKept DEF BoundsInv
<1>10. ASSUME NEW t \in Threads, Return(t) PROVE BoundsInv'
  <2>1. /\ window = "returning" /\ returning = t
        /\ available' = available \o Unissued(res[t])
        /\ res' = [res EXCEPT ![t] = Empty]
        /\ returning' = returning + 1
        /\ UNCHANGED <<snapshot, cursor, count, generation, live, window, call, killed>>
    BY <1>10 DEF Return
  <2>2. Unissued(res[t]) \in Seq(Ids)
    <3>1. res[t] \in Reservations
      BY DEF TypeOK
    <3>2. SubSeq(available, res[t].low + 1, res[t].high) \in Seq(Ids)
      <4>1. CASE res[t].low < res[t].high
        BY <3>1, <4>1, <1>t, <2>1 DEF TypeOK, Holdings, WindowPhase, Reservations
      <4>2. CASE res[t].low = res[t].high
        BY <3>1, <4>2, <1>t DEF TypeOK, Reservations
      <4>3. QED
        BY <3>1, <4>1, <4>2 DEF Holdings, Reservations
    <3>3. [k \in 1..(res[t].end - res[t].next) |-> res[t].next + k - 1] \in Seq(Ids)
      <4>1. res[t].end - res[t].next \in Nat
        BY <3>1 DEF Holdings, Reservations
      <4>2. \A k \in 1..(res[t].end - res[t].next) : res[t].next + k - 1 \in Ids
        <5>1. SUFFICES ASSUME NEW k \in 1..(res[t].end - res[t].next)
                       PROVE  res[t].next + k - 1 \in Ids
          OBVIOUS
        <5>2. res[t].next \in Nat /\ res[t].end \in Nat /\ k \in Nat /\ k >= 1
              /\ k <= res[t].end - res[t].next
          BY <3>1, <4>1 DEF Reservations
        <5>3. 1 <= res[t].next /\ res[t].end <= count
          BY <5>2 DEF Holdings
        <5>4. count <= MaxId + 1
          BY DEF TypeOK
        <5>5. QED
          BY <1>t, <5>2, <5>3, <5>4 DEF Ids
      <4>3. QED
        BY <4>1, <4>2
    <3>4. QED
      BY <3>2, <3>3 DEF Unissued
  <2>3. available' \in Seq(Ids) /\ Len(available') >= Len(available)
    BY <2>1, <2>2 DEF TypeOK
  <2>4. returning' \in 0..(WorkerCount + 1) /\ res' \in [Threads -> Reservations]
    BY <2>1 DEF TypeOK, Threads, Empty, Reservations
  <2>5. TypeOK'
    BY <2>1, <2>3, <2>4 DEF TypeOK
  <2>6. \A u \in Threads : res'[u] = IF u = t THEN Empty ELSE res[u]
    BY <2>1 DEF TypeOK
  <2>7. WindowPhase'
    <3>1. \A u \in Threads : u < returning' => u < returning \/ u = t
      BY <2>1 DEF Threads
    <3>2. snapshot' <= Len(available')
      BY <2>1, <2>3, <1>t DEF WindowPhase, TypeOK
    <3>3. QED
      BY <2>1, <2>6, <3>1, <3>2 DEF WindowPhase
  <2>8. Holdings'
    BY <2>1, <2>6 DEF Holdings, Empty, PrefixLength
  <2>9. Wanting' = {} /\ Wanting = {}
    BY <2>1 DEF WindowPhase, Wanting
  <2>10. QED
    BY <1>t, <2>1, <2>5, <2>7, <2>8, <2>9, RoomKept DEF BoundsInv
<1>11. CASE EndParallel
  <2>1. /\ window = "returning" /\ returning > WorkerCount
        /\ available' = SubSeq(available, 1, PrefixLength)
                          \o SubSeq(available, snapshot + 1, Len(available))
        /\ window' = "closed"
        /\ UNCHANGED <<snapshot, cursor, count, generation, live, returning, res, call, killed>>
    BY <1>11 DEF EndParallel
  <2>2. available' \in Seq(Ids)
    BY <1>t, <2>1 DEF TypeOK, PrefixLength, WindowPhase
  <2>3. TypeOK'
    BY <2>1, <2>2 DEF TypeOK
  <2>4. \A t \in Threads : res[t] = Empty
    BY <2>1 DEF WindowPhase, Threads, TypeOK
  <2>5. WindowPhase' /\ Holdings'
    BY <2>1, <2>4 DEF WindowPhase, Holdings, Empty
  <2>6. Wanting' = Wanting
    BY <2>1 DEF Wanting
  <2>7. QED
    BY <1>t, <2>1, <2>3, <2>5, <2>6, RoomKept DEF BoundsInv
<1>12. CASE UNCHANGED vars
  <2>1. Wanting' = Wanting
    BY <1>12 DEF vars, Wanting
  <2>2. TypeOK' /\ WindowPhase' /\ Holdings' /\ Room'
    BY <1>t, <1>12, <2>1, RoomKept DEF vars, TypeOK, WindowPhase, Holdings, PrefixLength
  <2>3. QED
    BY <2>2 DEF BoundsInv
<1>13. QED
  BY <1>1, <1>2, <1>3, <1>4, <1>5, <1>6, <1>7, <1>8, <1>9, <1>10, <1>11, <1>12 DEF Next

(* Every reachable state of the index has its type: reservations stay      *)
(* within the ids, and the stack holds ids.                                *)
THEOREM TypeCorrect == Spec => []TypeOK
<1>1. BoundsInv => TypeOK
  BY DEF BoundsInv
<1>2. QED
  BY BoundsInit, BoundsStep, <1>1, PTL DEF Spec

-----------------------------------------------------------------------------
(***************************************************************************)
(* No id is ever issued twice and none is lost, whatever order the         *)
(* threads' atomic operations take.                                        *)
(***************************************************************************)
(* Positions of the stack and fresh ids a thread has claimed; positions    *)
(* that hold an unissued id.                                               *)
InSlice(t, k) == res[t].low < k /\ k <= res[t].high
InBlock(t, i) == res[t].next <= i /\ i < res[t].end
Free(k) == window = "closed" \/ k <= PrefixLength \/ k > snapshot
HeldAt(k) == Free(k) \/ \E t \in Threads : InSlice(t, k)
Positions == 1..Len(available)

(* What is held is held once, and is neither alive nor in a block.         *)
StackApart ==
  \A k \in Positions : HeldAt(k) =>
    /\ available[k] < count /\ available[k] \notin live
    /\ \A t \in Threads : ~InBlock(t, available[k])
    /\ \A l \in Positions : HeldAt(l) /\ available[l] = available[k] => l = k
ThreadsApart ==
  \A t, u \in Threads : t # u =>
    /\ \A k \in Positions : ~(InSlice(t, k) /\ InSlice(u, k))
    /\ \A i \in Ids : ~(InBlock(t, i) /\ InBlock(u, i))
LiveApart == \A i \in live : i < count /\ \A t \in Threads : ~InBlock(t, i)
NoneLost ==
  \A i \in Ids : i < count =>
    \/ i \in live
    \/ \E t \in Threads : InBlock(t, i)
    \/ \E k \in Positions : HeldAt(k) /\ available[k] = i
Homes == StackApart /\ ThreadsApart /\ LiveApart /\ NoneLost

-----------------------------------------------------------------------------
(* What BoundsInv says of numbers.                                         *)
LEMMA Numbers ==
  ASSUME BoundsInv
  PROVE  /\ Len(available) \in Nat /\ \A k \in Positions : available[k] \in Ids
         /\ count \in Nat /\ count >= 1 /\ count <= MaxId + 1
         /\ cursor \in Int /\ snapshot \in Nat /\ PrefixLength \in Nat
         /\ \A t \in Threads : /\ res[t].low \in Nat /\ res[t].high \in Nat
                               /\ res[t].next \in Nat /\ res[t].end \in Nat
                               /\ res[t].low <= res[t].high /\ res[t].next <= res[t].end
<1>1. TypeOK /\ Holdings
  BY DEF BoundsInv
<1>2. \A t \in Threads : res[t] \in Reservations
  BY <1>1 DEF TypeOK
<1>3. PrefixLength \in Nat /\ count \in Nat /\ count >= 1 /\ count <= MaxId + 1
  BY <1>1, EntityAssumption DEF TypeOK, PrefixLength, EntityAssumption
<1>4. Len(available) \in Nat /\ \A k \in Positions : available[k] \in Ids
  BY <1>1 DEF TypeOK, Positions
<1>5. QED
  BY <1>1, <1>2, <1>3, <1>4 DEF TypeOK, Holdings, Reservations

(* Nothing is anywhere at the start.                                       *)
LEMMA HomesInit == Init => Homes
  BY DEF Init, Homes, StackApart, ThreadsApart, LiveApart, NoneLost, Positions, InSlice, InBlock,
         Empty, Ids

(* A step that leaves what is held, who is alive and the blocks alone.     *)
LEMMA HomesKept ==
  ASSUME BoundsInv, BoundsInv', Homes,
         UNCHANGED <<available, count, live>>,
         \A k \in Positions : HeldAt(k)' <=> HeldAt(k),
         \A t \in Threads : res'[t].next = res[t].next /\ res'[t].end = res[t].end,
         \A t, u \in Threads : t # u =>
           \A k \in Positions : ~(InSlice(t, k)' /\ InSlice(u, k)')
  PROVE  Homes'
<1>1. StackApart'
  BY DEF Homes, StackApart, Positions, InBlock
<1>2. ThreadsApart' /\ LiveApart'
  BY DEF Homes, ThreadsApart, LiveApart, Positions, InBlock
<1>3. NoneLost'
  BY DEF Homes, NoneLost, Positions, InBlock
<1>4. QED
  BY <1>1, <1>2, <1>3 DEF Homes

(* An id reserved with the window closed leaves the stack, or is counted   *)
(* up.                                                                     *)
LEMMA HomesReserve ==
  ASSUME BoundsInv, BoundsInv', Homes, NEW reuse \in BOOLEAN, Reserve(reuse)
  PROVE  Homes'
<1>1. /\ window = "closed" /\ UNCHANGED <<window, res>>
      /\ \A t \in Threads : res[t] = Empty
  BY DEF Reserve, BoundsInv, WindowPhase
<1>2. \A t \in Threads, k \in Int : ~InSlice(t, k)' /\ ~InBlock(t, k)'
  BY <1>1 DEF InSlice, InBlock, Empty
<1>3. ThreadsApart'
  BY <1>2 DEF ThreadsApart, Positions, Ids
<1>4. \A k : HeldAt(k) /\ HeldAt(k)'
  BY <1>1 DEF HeldAt, Free
<1>5. CASE /\ available # <<>>
           /\ live' = live \cup {available[Len(available)]}
           /\ available' = SubSeq(available, 1, Len(available) - 1)
           /\ count' = count
  <2> DEFINE n == Len(available)
  <2>1. n \in Nat /\ n >= 1
    BY <1>5, Numbers DEF BoundsInv, TypeOK
  <2>2. /\ Len(available') = n - 1 /\ \A k \in 1..(n - 1) : available'[k] = available[k]
        /\ Positions' = 1..(n - 1) /\ Positions = 1..n
    <3>1. available \in Seq(Ids)
      BY DEF BoundsInv, TypeOK
    <3>2. Len(available') = n - 1 /\ \A k \in 1..(n - 1) : available'[k] = available[k]
      <4>1. \A k \in 1..(n - 1) : available[k] \in Ids
        BY <2>1, <3>1
      <4>2. n - 1 \in Int
        BY <2>1
      <4> HIDE DEF n
      <4>3. /\ Len(SubSeq(available, 1, n - 1)) = (IF 1 <= n - 1 THEN n - 1 - 1 + 1 ELSE 0)
            /\ \A k \in 1..(n - 1 - 1 + 1) : SubSeq(available, 1, n - 1)[k] = available[1 + k - 1]
        BY <4>1, <4>2, SubSeqProperties
      <4>4. available' = SubSeq(available, 1, n - 1)
        BY <1>5 DEF n
      <4>5. QED
        BY <2>1, <4>3, <4>4
    <3>3. QED
      BY <3>2 DEF Positions
  <2>3. StackApart'
    <3>1. ASSUME NEW k \in 1..(n - 1)
          PROVE  /\ available'[k] < count' /\ available'[k] \notin live'
                 /\ \A t \in Threads : ~InBlock(t, available[k])'
                 /\ \A l \in 1..(n - 1) : available'[l] = available'[k] => l = k
      <4>1. available'[k] = available[k] /\ available[k] \in Ids /\ k # n /\ k \in Positions
            /\ n \in Positions
        BY <2>1, <2>2, Numbers
      <4>2. available'[k] < count' /\ available'[k] \notin live'
        BY <1>4, <1>5, <4>1 DEF Homes, StackApart
      <4>3. \A l \in 1..(n - 1) : available'[l] = available'[k] => l = k
        BY <1>4, <2>1, <2>2, <4>1 DEF Homes, StackApart
      <4>4. \A t \in Threads : ~InBlock(t, available[k])'
        BY <1>2, <4>1 DEF Ids
      <4>5. QED
        BY <4>2, <4>3, <4>4
    <3>2. QED
      BY <2>2, <3>1 DEF StackApart
  <2>4. LiveApart'
    BY <1>2, <1>4, <1>5, <2>1, <2>2 DEF Homes, StackApart, LiveApart, BoundsInv, TypeOK, Ids
  <2>5. NoneLost'
    BY <1>1, <1>2, <1>4, <1>5, <2>1, <2>2 DEF Homes, NoneLost, InBlock, Empty
  <2>6. QED
    BY <1>3, <2>3, <2>4, <2>5 DEF Homes
<1>6. CASE /\ count <= MaxId
           /\ live' = live \cup {count}
           /\ count' = count + 1
           /\ available' = available
  <2>1. StackApart'
    BY <1>2, <1>4, <1>6, Numbers DEF Homes, StackApart, Positions, Ids
  <2>2. LiveApart'
    BY <1>2, <1>6, Numbers DEF Homes, LiveApart, BoundsInv, TypeOK, Ids
  <2>3. NoneLost'
    BY <1>1, <1>2, <1>4, <1>6, Numbers DEF Homes, NoneLost, InBlock, Empty, Ids, Positions
  <2>4. QED
    BY <1>3, <2>1, <2>2, <2>3 DEF Homes
<1>7. QED
  BY <1>5, <1>6 DEF Reserve

(* The id of a killed entity goes on the stack, and is nowhere else.       *)
LEMMA HomesKill ==
  ASSUME BoundsInv, BoundsInv', Homes, NEW i \in Ids, Kill(i)
  PROVE  Homes'
<1> DEFINE n == Len(available)
<1>1. /\ window = "closed" /\ UNCHANGED <<window, res, count>> /\ i \in live
      /\ live' = live \ {i} /\ available' = Append(available, i)
      /\ \A t \in Threads : res[t] = Empty
  BY DEF Kill, BoundsInv, WindowPhase
<1>2. \A t \in Threads, k \in Int : ~InSlice(t, k)' /\ ~InBlock(t, k)' /\ ~InBlock(t, k)
  BY <1>1 DEF InSlice, InBlock, Empty
<1>3. ThreadsApart'
  BY <1>2 DEF ThreadsApart, Positions, Ids
<1>4. \A k : HeldAt(k) /\ HeldAt(k)'
  BY <1>1 DEF HeldAt, Free
<1>5. /\ n \in Nat /\ \A k \in 1..n : available'[k] = available[k]
      /\ available'[n + 1] = i /\ Positions' = 1..(n + 1) /\ Positions = 1..n
  BY <1>1 DEF BoundsInv, TypeOK, Positions
<1>6. \A k \in 1..n : available[k] # i
  BY <1>1, <1>4, <1>5 DEF Homes, StackApart
<1>7. i < count
  BY <1>1 DEF Homes, LiveApart
<1> HIDE DEF n
<1>8. StackApart'
  <2>1. \A k \in 1..(n + 1) : k = n + 1 \/ k \in 1..n
    BY <1>5
  <2>2. ASSUME NEW k \in 1..(n + 1)
        PROVE  /\ available'[k] < count' /\ available'[k] \notin live'
               /\ \A t \in Threads : ~InBlock(t, available[k])'
               /\ \A l \in 1..(n + 1) : available'[l] = available'[k] => l = k
    <3>1. available'[k] \in Ids
      BY <1>5, Numbers, <2>1
    <3>2. available'[k] < count' /\ available'[k] \notin live'
      BY <1>1, <1>4, <1>5, <1>7, <2>1 DEF Homes, StackApart
    <3>3. \A l \in 1..(n + 1) : available'[l] = available'[k] => l = k
      BY <1>4, <1>5, <1>6, <2>1 DEF Homes, StackApart
    <3>4. QED
      BY <1>2, <3>1, <3>2, <3>3 DEF Ids
  <2>3. QED
    BY <1>5, <2>2 DEF StackApart
<1>9. LiveApart'
  BY <1>1, <1>2 DEF Homes, LiveApart, BoundsInv, TypeOK, Ids
<1>10. NoneLost'
  <2>1. ASSUME NEW j \in Ids, j < count
        PROVE  j \in live' \/ \E k \in 1..(n + 1) : available'[k] = j
    <3>1. CASE j = i
      BY <1>5, <3>1
    <3>2. CASE j # i
      <4>1. \A t \in Threads : ~InBlock(t, j)
        BY <1>2 DEF Ids
      <4>2. j \in live \/ \E k \in 1..n : available[k] = j
        BY <1>5, <2>1, <4>1 DEF Homes, NoneLost
      <4>3. CASE j \in live
        BY <1>1, <3>2, <4>3
      <4>4. CASE \E k \in 1..n : available[k] = j
        <5>1. PICK k \in 1..n : available[k] = j
          BY <4>4
        <5>2. k \in 1..(n + 1) /\ available'[k] = j
          BY <1>5, <5>1
        <5>3. QED
          BY <5>2
      <4>5. QED
        BY <4>2, <4>3, <4>4
    <3>3. QED
      BY <3>1, <3>2
  <2>2. QED
    BY <1>1, <1>4, <1>5, <2>1 DEF NoneLost
<1>11. QED
  BY <1>3, <1>8, <1>9, <1>10 DEF Homes

(* Opening the window takes nothing off the stack.                         *)
LEMMA HomesBegin ==
  ASSUME BoundsInv, BoundsInv', Homes, BeginParallel
  PROVE  Homes'
<1>1. /\ window = "closed" /\ window' = "open" /\ cursor' = Len(available)
      /\ UNCHANGED <<available, count, live, res>>
      /\ \A t \in Threads : res[t] = Empty
  BY DEF BeginParallel, BoundsInv, WindowPhase
<1>2. \A k \in Positions : HeldAt(k) /\ HeldAt(k)'
  BY <1>1, Numbers DEF HeldAt, Free, Positions, PrefixLength
<1>3. \A t \in Threads, k \in Positions : ~InSlice(t, k)'
  BY <1>1 DEF InSlice, Empty, Positions
<1>4. QED
  BY <1>1, <1>2, <1>3, HomesKept

(* A call that begins, and the window's close, move no id.                 *)
LEMMA HomesCall ==
  ASSUME BoundsInv, BoundsInv', Homes, window # "closed", window' # "closed",
         UNCHANGED <<available, snapshot, cursor, count, live, res>>
  PROVE  Homes'
<1>1. \A k \in Positions : HeldAt(k)' <=> HeldAt(k)
  BY DEF HeldAt, Free, PrefixLength, InSlice
<1>2. \A t, u \in Threads : t # u => \A k \in Positions : ~(InSlice(t, k)' /\ InSlice(u, k)')
  BY DEF Homes, ThreadsApart, InSlice
<1>3. QED
  BY <1>1, <1>2, HomesKept

(* A claimed slice was unclaimed, so nobody else holds it.                 *)
LEMMA HomesClaimRecycled ==
  ASSUME BoundsInv, BoundsInv', Homes, NEW t \in Threads, ClaimRecycled(t)
  PROVE  Homes'
<1>1. /\ call[t] = "reuse" /\ res[t].low = res[t].high /\ cursor' = cursor - Chunk
      /\ UNCHANGED <<available, snapshot, count, live, window>>
  BY DEF ClaimRecycled
<1>2. window = "open"
  BY <1>1 DEF BoundsInv, WindowPhase
<1>3. cursor \in Int /\ cursor <= snapshot /\ snapshot = Len(available) /\ Chunk \in Nat \ {0}
  BY <1>2, Numbers, EntityAssumption DEF BoundsInv, WindowPhase, EntityAssumption
<1>4. \A u \in Threads : res'[u].next = res[u].next /\ res'[u].end = res[u].end
  BY DEF ClaimRecycled, BoundsInv, TypeOK, Reservations
<1>5. \A u \in Threads : u # t => res'[u] = res[u]
  BY DEF ClaimRecycled, BoundsInv, TypeOK
<1>6. CASE cursor <= 0
  <2>1. \A u \in Threads : res'[u].low = res[u].low /\ res'[u].high = res[u].high
    BY <1>6 DEF ClaimRecycled, BoundsInv, TypeOK, Reservations
  <2>2. PrefixLength' = PrefixLength
    BY <1>1, <1>3, <1>6 DEF PrefixLength
  <2>3. \A k \in Positions : HeldAt(k)' <=> HeldAt(k)
    BY <1>1, <2>1, <2>2 DEF HeldAt, Free, InSlice
  <2>4. \A u, v \in Threads : u # v => \A k \in Positions : ~(InSlice(u, k)' /\ InSlice(v, k)')
    BY <2>1 DEF Homes, ThreadsApart, InSlice
  <2>5. QED
    BY <1>1, <1>4, <2>3, <2>4, HomesKept
<1>7. CASE cursor > 0
  <2>1. res'[t].low = SliceLow(cursor) /\ res'[t].high = cursor
    BY <1>3, <1>7 DEF ClaimRecycled, BoundsInv, TypeOK, Reservations
  <2>2. /\ PrefixLength = cursor /\ PrefixLength' = SliceLow(cursor)
        /\ SliceLow(cursor) \in Nat /\ SliceLow(cursor) < cursor
    BY <1>1, <1>3, <1>7 DEF PrefixLength, SliceLow
  <2>3. \A k \in Positions : ~InSlice(t, k)
    BY <1>1, Numbers DEF InSlice, Positions
  <2>4. \A k \in Positions : InSlice(t, k)' <=> SliceLow(cursor) < k /\ k <= cursor
    BY <2>1 DEF InSlice
  <2>5. \A u \in Threads, k \in Positions : u # t => (InSlice(u, k)' <=> InSlice(u, k))
    BY <1>5 DEF InSlice
  <2>6. \A u \in Threads, k \in Positions : InSlice(u, k) => k > cursor
    BY <2>2, Numbers DEF BoundsInv, Holdings, InSlice, Positions
  <2>7. \A k \in Positions : HeldAt(k)' <=> HeldAt(k)
    <3>1. \A k \in Positions : Free(k) <=> k <= cursor \/ k > snapshot
      BY <1>2, <2>2 DEF Free
    <3>2. \A k \in Positions : Free(k)' <=> k <= SliceLow(cursor) \/ k > snapshot
      BY <1>1, <1>2, <2>2 DEF Free
    <3>3. \A k \in Positions : Free(k) <=> Free(k)' \/ InSlice(t, k)'
      BY <1>3, <2>2, <2>4, <3>1, <3>2 DEF Positions
    <3>4. QED
      BY <2>3, <2>5, <3>3 DEF HeldAt
  <2>8. \A u, v \in Threads : u # v => \A k \in Positions : ~(InSlice(u, k)' /\ InSlice(v, k)')
    BY <1>3, <2>4, <2>5, <2>6 DEF Homes, ThreadsApart, Positions
  <2>9. QED
    BY <1>1, <1>4, <2>7, <2>8, HomesKept
<1>8. QED
  BY <1>3, <1>6, <1>7

(* The id a thread issues leaves its slice.                                *)
LEMMA HomesIssueRecycled ==
  ASSUME BoundsInv, BoundsInv', Homes, NEW t \in Threads, IssueRecycled(t)
  PROVE  Homes'
<1> DEFINE h == res[t].high
           i == available[h]
<1>1. /\ call[t] = "reuse" /\ res[t].low < h
      /\ live' = live \cup {i}
      /\ UNCHANGED <<available, snapshot, cursor, count, window>>
  BY DEF IssueRecycled, indexVars
<1>2. window = "open"
  BY <1>1 DEF BoundsInv, WindowPhase
<1>3. /\ \A u \in Threads : /\ res'[u].low = res[u].low
                            /\ res'[u].next = res[u].next /\ res'[u].end = res[u].end
                            /\ u # t => res'[u].high = res[u].high
      /\ res'[t].high = h - 1
  BY DEF IssueRecycled, BoundsInv, TypeOK, Reservations
<1>4. h \in Positions /\ InSlice(t, h) /\ PrefixLength < h /\ h <= snapshot
  BY <1>1, <1>2, Numbers DEF BoundsInv, Holdings, WindowPhase, InSlice, Positions
<1>5. HeldAt(h) /\ i \in Ids /\ i < count /\ i \notin live /\ \A u \in Threads : ~InBlock(u, i)
  BY <1>4, Numbers DEF HeldAt, Homes, StackApart
<1>6. \A u \in Threads, k \in Positions : InSlice(u, k)' <=> InSlice(u, k) /\ ~(u = t /\ k = h)
  <2>1. \A k \in Positions : InSlice(t, k)' <=> InSlice(t, k) /\ k # h
    BY <1>3, Numbers DEF InSlice, Positions
  <2>2. \A u \in Threads, k \in Positions : u # t => (InSlice(u, k)' <=> InSlice(u, k))
    BY <1>3 DEF InSlice
  <2>3. QED
    BY <2>1, <2>2
<1>7. \A k \in Positions : HeldAt(k)' <=> HeldAt(k) /\ k # h
  <2>1. \A k \in Positions : Free(k)' <=> Free(k)
    BY <1>1 DEF Free, PrefixLength
  <2>2. ~Free(h)
    BY <1>2, <1>4, Numbers DEF Free, Positions
  <2>3. \A u \in Threads : InSlice(u, h) => u = t
    BY <1>4 DEF Homes, ThreadsApart
  <2>4. QED
    BY <1>6, <2>1, <2>2, <2>3 DEF HeldAt
<1>8. \A u \in Threads, j \in Ids : InBlock(u, j)' <=> InBlock(u, j)
  BY <1>3 DEF InBlock
<1> HIDE DEF h, i
<1>9. available[h] = i
  BY DEF i
<1>10. StackApart'
  <2>1. Positions' = Positions /\ \A k \in Positions : available[k] \in Ids
    BY <1>1, Numbers DEF Positions
  <2>2. ASSUME NEW k \in Positions, HeldAt(k)'
        PROVE  /\ available'[k] < count' /\ available'[k] \notin live'
               /\ \A u \in Threads : ~InBlock(u, available[k])'
               /\ \A l \in Positions : HeldAt(l)' /\ available'[l] = available'[k] => l = k
    <3>1. HeldAt(k) /\ k # h
      BY <1>7, <2>2
    <3>2. available[k] # i
      BY <1>4, <1>5, <1>9, <3>1 DEF Homes, StackApart
    <3>3. available'[k] < count' /\ available'[k] \notin live'
      BY <1>1, <3>1, <3>2 DEF Homes, StackApart
    <3>4. \A u \in Threads : ~InBlock(u, available[k])'
      BY <1>1, <1>3, <3>1 DEF Homes, StackApart, InBlock
    <3>5. \A l \in Positions : HeldAt(l)' /\ available'[l] = available'[k] => l = k
      BY <1>1, <1>7, <3>1 DEF Homes, StackApart
    <3>6. QED
      BY <3>3, <3>4, <3>5
  <2>3. QED
    BY <2>1, <2>2 DEF StackApart
<1>11. ThreadsApart'
  <2>1. Positions' = Positions
    BY <1>1 DEF Positions
  <2>2. QED
    BY <1>6, <1>8, <2>1 DEF Homes, ThreadsApart
<1>12. LiveApart'
  BY <1>1, <1>5, <1>8 DEF Homes, LiveApart, BoundsInv, TypeOK
<1>13. NoneLost'
  <2>1. Positions' = Positions
    BY <1>1 DEF Positions
  <2>2. QED
    BY <1>1, <1>7, <1>8, <1>9, <2>1 DEF Homes, NoneLost
<1>14. QED
  BY <1>10, <1>11, <1>12, <1>13 DEF Homes

(* A claimed block starts at the count, so it holds no id known before.    *)
LEMMA HomesClaimFresh ==
  ASSUME BoundsInv, BoundsInv', Homes, NEW t \in Threads, ClaimFresh(t)
  PROVE  Homes'
<1>1. /\ res[t].next = res[t].end /\ count' = count + Chunk
      /\ UNCHANGED <<available, snapshot, cursor, live, window>>
  BY DEF ClaimFresh
<1>2. /\ \A u \in Threads : res'[u].low = res[u].low /\ res'[u].high = res[u].high
      /\ \A u \in Threads : u # t => res'[u].next = res[u].next /\ res'[u].end = res[u].end
      /\ res'[t].next = count /\ res'[t].end = count + Chunk
  BY DEF ClaimFresh, BoundsInv, TypeOK, Reservations
<1>3. Chunk \in Nat \ {0} /\ count \in Nat
  BY Numbers, EntityAssumption DEF EntityAssumption
<1>4. \A j \in Ids : InBlock(t, j)' <=> count <= j /\ j < count'
  BY <1>1, <1>2 DEF InBlock
<1>5. \A u \in Threads, j \in Ids : u # t => (InBlock(u, j)' <=> InBlock(u, j))
  BY <1>2 DEF InBlock
<1>6. \A u \in Threads, j \in Ids : InBlock(u, j) => j < count /\ u # t
  BY <1>1, Numbers DEF BoundsInv, Holdings, InBlock, Ids
<1>7. /\ Positions' = Positions /\ \A k \in Positions : available[k] \in Ids
      /\ \A k \in Positions : HeldAt(k)' <=> HeldAt(k)
      /\ \A u \in Threads, k \in Positions : InSlice(u, k)' <=> InSlice(u, k)
  BY <1>1, <1>2, Numbers DEF Positions, HeldAt, Free, PrefixLength, InSlice
<1>8. StackApart'
  <2>1. ASSUME NEW k \in Positions, HeldAt(k)
        PROVE  /\ available[k] < count' /\ available[k] \notin live
               /\ \A u \in Threads : ~InBlock(u, available[k])'
               /\ \A l \in Positions : HeldAt(l) /\ available[l] = available[k] => l = k
    <3>1. available[k] \in Ids /\ available[k] < count
      BY <1>7, <2>1 DEF Homes, StackApart
    <3>2. \A u \in Threads : ~InBlock(u, available[k])
      BY <2>1 DEF Homes, StackApart
    <3>3. \A u \in Threads, j \in Ids : InBlock(u, j)' /\ j < count => InBlock(u, j)
      BY <1>3, <1>4, <1>5 DEF Ids
    <3>4. \A u \in Threads : ~InBlock(u, available[k])'
      <4>1. available'[k] = available[k]
        BY <1>1
      <4>2. QED
        BY <1>1, <1>2, <1>3, <3>1, <3>2, Numbers DEF InBlock, Ids
    <3>5. available[k] < count'
      BY <1>1, <1>3, <3>1 DEF Ids
    <3>6. QED
      BY <2>1, <3>4, <3>5 DEF Homes, StackApart
  <2>2. QED
    BY <1>1, <1>7, <2>1 DEF StackApart
<1>9. ThreadsApart'
  <2>1. \A u, v \in Threads : u # v => \A j \in Ids : ~(InBlock(u, j)' /\ InBlock(v, j)')
    BY <1>3, <1>4, <1>5, <1>6 DEF Homes, ThreadsApart, Ids
  <2>2. QED
    BY <1>7, <2>1 DEF Homes, ThreadsApart
<1>10. LiveApart'
  <2>1. ASSUME NEW j \in live
        PROVE  j < count' /\ \A u \in Threads : ~InBlock(u, j)'
    <3>1. j \in Ids /\ j < count /\ \A u \in Threads : ~InBlock(u, j)
      BY DEF Homes, LiveApart, BoundsInv, TypeOK
    <3>2. QED
      BY <1>1, <1>3, <1>4, <1>5, <3>1 DEF Ids
  <2>2. QED
    BY <1>1, <2>1 DEF LiveApart
<1>11. NoneLost'
  <2>1. ASSUME NEW j \in Ids, j < count'
        PROVE  \/ j \in live
               \/ \E u \in Threads : InBlock(u, j)'
               \/ \E k \in Positions : HeldAt(k) /\ available[k] = j
    <3>1. CASE j < count
      BY <1>5, <1>6, <3>1 DEF Homes, NoneLost
    <3>2. CASE ~(j < count)
      BY <1>3, <1>4, <2>1, <3>2 DEF Ids
    <3>3. QED
      BY <3>1, <3>2
  <2>2. QED
    BY <1>1, <1>7, <2>1 DEF NoneLost
<1>12. QED
  BY <1>8, <1>9, <1>10, <1>11 DEF Homes

(* The id a thread issues leaves its block.                                *)
LEMMA HomesIssueFresh ==
  ASSUME BoundsInv, BoundsInv', Homes, NEW t \in Threads, IssueFresh(t)
  PROVE  Homes'
<1> DEFINE i == res[t].next
<1>1. /\ res[t].next < res[t].end /\ live' = live \cup {i}
      /\ UNCHANGED <<available, snapshot, cursor, count, window>>
  BY DEF IssueFresh, indexVars
<1>2. /\ \A u \in Threads : /\ res'[u].low = res[u].low /\ res'[u].high = res[u].high
                            /\ res'[u].end = res[u].end
                            /\ u # t => res'[u].next = res[u].next
      /\ res'[t].next = i + 1
  BY DEF IssueFresh, BoundsInv, TypeOK, Reservations
<1>3. InBlock(t, i) /\ i \in Ids /\ i < count
  <2>1. /\ i \in Nat /\ res[t].end \in Nat /\ 1 <= i /\ res[t].end <= count
        /\ count \in Nat /\ count <= MaxId + 1 /\ MaxId \in Nat
    BY <1>1, Numbers, EntityAssumption DEF BoundsInv, Holdings, EntityAssumption
  <2>2. QED
    BY <1>1, <2>1 DEF InBlock, Ids
<1>4. \A u \in Threads, j \in Ids : InBlock(u, j)' <=> InBlock(u, j) /\ ~(u = t /\ j = i)
  <2>1. \A j \in Ids : InBlock(t, j)' <=> InBlock(t, j) /\ j # i
    BY <1>2, Numbers DEF InBlock, Ids
  <2>2. \A u \in Threads, j \in Ids : u # t => (InBlock(u, j)' <=> InBlock(u, j))
    BY <1>2 DEF InBlock
  <2>3. QED
    BY <2>1, <2>2
<1>5. /\ Positions' = Positions /\ \A k \in Positions : available[k] \in Ids
      /\ \A k \in Positions : HeldAt(k)' <=> HeldAt(k)
      /\ \A u \in Threads, k \in Positions : InSlice(u, k)' <=> InSlice(u, k)
  <2>1. \A u \in Threads, k \in Positions : InSlice(u, k)' <=> InSlice(u, k)
    BY <1>2 DEF InSlice
  <2>2. \A k \in Positions : Free(k)' <=> Free(k)
    BY <1>1 DEF Free, PrefixLength
  <2>3. QED
    BY <1>1, <2>1, <2>2, Numbers DEF Positions, HeldAt
<1> HIDE DEF i
<1>6. StackApart'
  <2>1. ASSUME NEW k \in Positions, HeldAt(k)
        PROVE  /\ available[k] < count /\ available[k] \notin live'
               /\ \A u \in Threads : ~InBlock(u, available[k])'
               /\ \A l \in Positions : HeldAt(l) /\ available[l] = available[k] => l = k
    <3>1. available[k] \in Ids /\ \A u \in Threads : ~InBlock(u, available[k])
      BY <1>5, <2>1 DEF Homes, StackApart
    <3>2. available[k] # i
      BY <1>3, <3>1
    <3>3. \A u \in Threads : ~InBlock(u, available[k])'
      <4>1. ASSUME NEW u \in Threads PROVE ~InBlock(u, available[k])'
        <5>1. ~InBlock(u, available[k]) /\ available'[k] = available[k] /\ available[k] \in Int
          BY <1>1, <3>1 DEF Ids
        <5>2. res'[u].end = res[u].end /\ res'[u].next \in Int /\ res[u].next \in Int
              /\ res[u].next <= res'[u].next
          BY <1>2, <1>3, Numbers DEF i, Ids
        <5>3. QED
          BY <5>1, <5>2 DEF InBlock
      <4>2. QED
        BY <4>1
    <3>4. QED
      BY <1>1, <2>1, <3>2, <3>3 DEF Homes, StackApart
  <2>2. QED
    BY <1>1, <1>5, <2>1 DEF StackApart
<1>7. ThreadsApart'
  BY <1>4, <1>5 DEF Homes, ThreadsApart
<1>8. LiveApart'
  <2>1. ASSUME NEW j \in live'
        PROVE  j < count /\ \A u \in Threads : ~InBlock(u, j)'
    <3>1. CASE j = i
      BY <1>3, <1>4, <3>1 DEF Homes, ThreadsApart
    <3>2. CASE j \in live
      BY <1>4, <3>2 DEF Homes, LiveApart, BoundsInv, TypeOK
    <3>3. QED
      BY <1>1, <2>1, <3>1, <3>2
  <2>2. QED
    BY <1>1, <2>1 DEF LiveApart
<1>9. NoneLost'
  <2>1. ASSUME NEW j \in Ids, j < count
        PROVE  \/ j \in live'
               \/ \E u \in Threads : InBlock(u, j)'
               \/ \E k \in Positions : HeldAt(k) /\ available[k] = j
    BY <1>1, <1>4, <2>1 DEF Homes, NoneLost
  <2>2. QED
    BY <1>1, <1>5, <2>1 DEF NoneLost
<1>10. QED
  BY <1>6, <1>7, <1>8, <1>9 DEF Homes

(* Two sequences appended to a third.                                      *)
LEMMA TwoAppended ==
  ASSUME NEW S, NEW s1 \in Seq(S), NEW s2 \in Seq(S), NEW s3 \in Seq(S)
  PROVE  /\ Len(s1 \o (s2 \o s3)) = Len(s1) + Len(s2) + Len(s3)
         /\ \A k \in 1..Len(s1) : (s1 \o (s2 \o s3))[k] = s1[k]
         /\ \A k \in 1..Len(s2) : (s1 \o (s2 \o s3))[Len(s1) + k] = s2[k]
         /\ \A k \in 1..Len(s3) : (s1 \o (s2 \o s3))[Len(s1) + Len(s2) + k] = s3[k]
<1> DEFINE n == Len(s1)
           a == Len(s2)
           b == Len(s3)
<1>1. n \in Nat /\ a \in Nat /\ b \in Nat
  OBVIOUS
<1>2. /\ s2 \o s3 \in Seq(S) /\ Len(s2 \o s3) = a + b
      /\ \A k \in 1..(a + b) : (s2 \o s3)[k] = IF k <= a THEN s2[k] ELSE s3[k - a]
  BY ConcatProperties
<1>3. /\ Len(s1 \o (s2 \o s3)) = n + a + b
      /\ \A k \in 1..(n + a + b) :
           (s1 \o (s2 \o s3))[k] = IF k <= n THEN s1[k] ELSE (s2 \o s3)[k - n]
  <2>1. /\ Len(s1 \o (s2 \o s3)) = n + Len(s2 \o s3)
        /\ \A k \in 1..(n + Len(s2 \o s3)) :
             (s1 \o (s2 \o s3))[k] = IF k <= n THEN s1[k] ELSE (s2 \o s3)[k - n]
    BY <1>2, ConcatProperties
  <2>2. n + Len(s2 \o s3) = n + a + b
    BY <1>1, <1>2
  <2>3. QED
    BY <2>1, <2>2
<1>4. ASSUME NEW k \in 1..a PROVE (s1 \o (s2 \o s3))[n + k] = s2[k]
  <2>1. n + k \in 1..(n + a + b) /\ ~(n + k <= n) /\ n + k - n = k /\ k \in 1..(a + b) /\ k <= a
    BY <1>1
  <2>2. QED
    BY <1>2, <1>3, <2>1
<1>5. ASSUME NEW k \in 1..b PROVE (s1 \o (s2 \o s3))[n + a + k] = s3[k]
  <2>1. /\ n + a + k \in 1..(n + a + b) /\ ~(n + a + k <= n) /\ n + a + k - n = a + k
        /\ a + k \in 1..(a + b) /\ ~(a + k <= a) /\ a + k - a = k
    BY <1>1
  <2>2. QED
    BY <1>2, <1>3, <2>1
<1>6. ASSUME NEW k \in 1..n PROVE (s1 \o (s2 \o s3))[k] = s1[k]
  BY <1>1, <1>3
<1>7. QED
  BY <1>3, <1>4, <1>5, <1>6

(* What a thread returns: its slice, then its block.                       *)
LEMMA Returned ==
  ASSUME BoundsInv, NEW t \in Threads, Return(t)
  PROVE  LET n == Len(available)
             s == res[t].high - res[t].low
             b == res[t].end - res[t].next
         IN  /\ Len(available') = n + s + b
             /\ \A k \in 1..n : available'[k] = available[k]
             /\ \A k \in 1..s : available'[n + k] = available[res[t].low + k]
             /\ \A k \in 1..b : available'[n + s + k] = res[t].next + k - 1
<1> DEFINE n == Len(available)
           lo == res[t].low
           hi == res[t].high
           s == hi - lo
           b == res[t].end - res[t].next
           mine == SubSeq(available, lo + 1, hi)
           fresh == [k \in 1..b |-> res[t].next + k - 1]
<1>1. available' = available \o (mine \o fresh)
  BY DEF Return, Unissued
<1>2. /\ lo \in Nat /\ hi \in Nat /\ res[t].next \in Nat /\ res[t].end \in Nat /\ n \in Nat
      /\ lo <= hi /\ res[t].next <= res[t].end
  BY Numbers
<1>3. s \in Nat /\ b \in Nat /\ lo + 1 \in Int /\ hi \in Int
  BY <1>2
<1>4. lo < hi => hi <= n
  <2>1. snapshot <= n /\ snapshot \in Nat
    BY Numbers DEF Return, BoundsInv, WindowPhase
  <2>2. lo < hi => hi <= snapshot
    BY DEF BoundsInv, Holdings
  <2>3. QED
    BY <1>2, <2>1, <2>2
<1>5. available \in Seq(Int) /\ \A k \in 1..n : available[k] \in Int
  <2>1. available \in Seq(Ids)
    BY DEF BoundsInv, TypeOK
  <2>2. Ids \subseteq Int
    BY DEF Ids
  <2>3. available \in Seq(Int)
    BY <2>1, <2>2, SeqMonotonic
  <2>4. QED
    BY <2>3, ElementOfSeq
<1>6. \A k \in (lo + 1)..hi : available[k] \in Int
  <2>1. ASSUME NEW k \in (lo + 1)..hi PROVE k \in 1..n
    BY <1>2, <1>4
  <2>2. QED
    BY <1>5, <2>1
<1>7. fresh \in Seq(Int) /\ Len(fresh) = b /\ \A k \in 1..b : fresh[k] = res[t].next + k - 1
  BY <1>2, <1>3
<1>8. mine \in Seq(Int) /\ Len(mine) = s /\ \A k \in 1..s : mine[k] = available[lo + k]
  <2> HIDE DEF lo, hi
  <2>1. /\ mine \in Seq(Int)
        /\ Len(mine) = (IF lo + 1 <= hi THEN hi - (lo + 1) + 1 ELSE 0)
        /\ \A k \in 1..(hi - (lo + 1) + 1) : mine[k] = available[lo + 1 + k - 1]
    BY <1>3, <1>6, SubSeqProperties
  <2> HIDE DEF mine
  <2>2. Len(mine) = s
    BY <1>2, <2>1
  <2>3. ASSUME NEW k \in 1..s PROVE mine[k] = available[lo + k]
    <3>1. /\ k \in 1..(hi - (lo + 1) + 1) /\ lo + 1 + k - 1 = lo + k
      BY <1>2
    <3>2. mine[k] = available[lo + 1 + k - 1]
      BY <2>1, <3>1
    <3>3. QED
      BY <3>1, <3>2
  <2>4. QED
    BY <2>1, <2>2, <2>3
<1> HIDE DEF mine, fresh, n, s, b
<1>9. /\ Len(available') = n + s + b
      /\ \A k \in 1..n : available'[k] = available[k]
      /\ \A k \in 1..s : available'[n + k] = mine[k]
      /\ \A k \in 1..b : available'[n + s + k] = fresh[k]
  <2> DEFINE whole == available \o (mine \o fresh)
  <2>1. available \in Seq(Int) /\ mine \in Seq(Int) /\ fresh \in Seq(Int)
    BY <1>5, <1>7, <1>8
  <2>2. /\ Len(whole) = Len(available) + Len(mine) + Len(fresh)
        /\ \A k \in 1..Len(available) : whole[k] = available[k]
        /\ \A k \in 1..Len(mine) : whole[Len(available) + k] = mine[k]
        /\ \A k \in 1..Len(fresh) : whole[Len(available) + Len(mine) + k] = fresh[k]
    <3> HIDE DEF lo, hi
    <3>1. QED
      BY <2>1, TwoAppended, SMTT(30)
  <2>3. n = Len(available) /\ s = Len(mine) /\ b = Len(fresh) /\ available' = whole
    BY <1>1, <1>7, <1>8 DEF n
  <2> HIDE DEF whole
  <2>4. QED
    BY <2>2, <2>3
<1>10. QED
  BY <1>7, <1>8, <1>9 DEF n, s, b

(* What a thread did not issue goes back on the stack, each id once.       *)
LEMMA HomesReturn ==
  ASSUME BoundsInv, BoundsInv', Homes, NEW t \in Threads, Return(t)
  PROVE  Homes'
<1> DEFINE n == Len(available)
           lo == res[t].low
           s == res[t].high - lo
           nx == res[t].next
           b == res[t].end - nx
<1>1. /\ window = "returning" /\ UNCHANGED <<window, snapshot, cursor, count, live>>
      /\ res' = [res EXCEPT ![t] = Empty]
  BY DEF Return
<1>2. /\ n \in Nat /\ lo \in Nat /\ s \in Nat /\ nx \in Nat /\ b \in Nat
      /\ PrefixLength \in Nat /\ snapshot \in Nat /\ snapshot <= n
  BY <1>1, Numbers DEF BoundsInv, WindowPhase
<1>3. /\ Len(available') = n + s + b
      /\ \A k \in 1..n : available'[k] = available[k]
      /\ \A k \in 1..s : available'[n + k] = available[lo + k]
      /\ \A k \in 1..b : available'[n + s + k] = nx + k - 1
  BY Returned
<1>4. /\ \A u \in Threads : u # t => res'[u] = res[u]
      /\ res'[t] = Empty
  BY <1>1 DEF BoundsInv, TypeOK
<1>5. /\ \A k \in Int : InSlice(t, k) <=> lo < k /\ k <= lo + s
      /\ \A j \in Int : InBlock(t, j) <=> nx <= j /\ j < nx + b
  <2>1. res[t].high = lo + s /\ res[t].end = nx + b
    BY Numbers
  <2> HIDE DEF s, b
  <2>2. QED
    BY <2>1 DEF InSlice, InBlock
<1>6. s > 0 => lo >= PrefixLength /\ lo + s <= snapshot
  BY <1>2, Numbers DEF BoundsInv, Holdings
<1>7. \A k \in Int : ~InSlice(t, k)' /\ ~InBlock(t, k)'
  BY <1>4 DEF InSlice, InBlock, Empty
<1>8. /\ \A u \in Threads, k \in Int : u # t => (InSlice(u, k)' <=> InSlice(u, k))
      /\ \A u \in Threads, k \in Int : u # t => (InBlock(u, k)' <=> InBlock(u, k))
  BY <1>4 DEF InSlice, InBlock
<1>9. \A k : Free(k)' <=> Free(k)
  BY <1>1 DEF Free, PrefixLength
<1> HIDE DEF n, lo, s, nx, b
<1>10. Positions = 1..n /\ Positions' = 1..(n + s + b)
  BY <1>3 DEF Positions, n
<1>11. \A k \in 1..s : lo + k \in Positions /\ InSlice(t, lo + k) /\ HeldAt(lo + k)
  BY <1>2, <1>5, <1>6, <1>10 DEF HeldAt
<1>12. \A k \in 1..n : HeldAt(k)' <=> HeldAt(k) /\ ~InSlice(t, k)
  <2>1. ASSUME NEW k \in 1..n, InSlice(t, k)
        PROVE  ~HeldAt(k)'
    <3>1. ~Free(k)
      BY <1>1, <1>2, <1>5, <1>6, <2>1 DEF Free
    <3>2. \A u \in Threads : InSlice(u, k) => u = t
      BY <1>10, <2>1 DEF Homes, ThreadsApart
    <3>3. QED
      BY <1>7, <1>8, <1>9, <3>1, <3>2 DEF HeldAt
  <2>2. ASSUME NEW k \in 1..n, ~InSlice(t, k)
        PROVE  HeldAt(k)' <=> HeldAt(k)
    BY <1>7, <1>8, <1>9, <2>2 DEF HeldAt
  <2>3. QED
    BY <2>1, <2>2
<1>13. \A k \in (n + 1)..(n + s + b) : HeldAt(k)'
  BY <1>1, <1>2, <1>9 DEF HeldAt, Free
(* The place a position of the new stack comes from.                       *)
<1>14. \A k \in 1..(n + s + b) :
         \/ k \in 1..n
         \/ \E m \in 1..s : k = n + m
         \/ \E m \in 1..b : k = n + s + m
  <2>1. ASSUME NEW k \in 1..(n + s + b), k > n, k <= n + s
        PROVE  \E m \in 1..s : k = n + m
    <3>1. k - n \in 1..s /\ k = n + (k - n)
      BY <1>2, <2>1
    <3>2. QED
      BY <3>1
  <2>2. ASSUME NEW k \in 1..(n + s + b), k > n + s
        PROVE  \E m \in 1..b : k = n + s + m
    <3>1. k - n - s \in 1..b /\ k = n + s + (k - n - s)
      BY <1>2, <2>2
    <3>2. QED
      BY <3>1
  <2>3. QED
    BY <1>2, <2>1, <2>2
<1>15. StackApart'
  <2>1. ASSUME NEW k \in 1..n, HeldAt(k)'
        PROVE  /\ available'[k] = available[k] /\ HeldAt(k) /\ ~InSlice(t, k)
               /\ available[k] < count /\ available[k] \notin live
               /\ \A u \in Threads : ~InBlock(u, available[k])
               /\ \A l \in 1..n : HeldAt(l) /\ available[l] = available[k] => l = k
    BY <1>3, <1>10, <1>12, <2>1 DEF Homes, StackApart
  <2>2. ASSUME NEW m \in 1..s
        PROVE  /\ available'[n + m] = available[lo + m] /\ HeldAt(lo + m) /\ InSlice(t, lo + m)
               /\ available[lo + m] < count /\ available[lo + m] \notin live
               /\ \A u \in Threads : ~InBlock(u, available[lo + m])
               /\ \A l \in 1..n : HeldAt(l) /\ available[l] = available[lo + m] => l = lo + m
    BY <1>3, <1>10, <1>11, <2>2 DEF Homes, StackApart
  <2>3. ASSUME NEW m \in 1..b
        PROVE  /\ available'[n + s + m] = nx + m - 1 /\ InBlock(t, nx + m - 1)
               /\ nx + m - 1 \in Ids /\ nx + m - 1 < count /\ nx + m - 1 \notin live
               /\ \A u \in Threads : u # t => ~InBlock(u, nx + m - 1)
    <3>1. available'[n + s + m] = nx + m - 1 /\ InBlock(t, nx + m - 1)
      <4>1. nx + m - 1 \in Int /\ nx <= nx + m - 1 /\ nx + m - 1 < nx + b
        BY <1>2
      <4>2. QED
        BY <1>3, <1>5, <4>1
    <3>2. 1 <= nx /\ nx + b <= count /\ count <= MaxId + 1 /\ count \in Nat
      <4>1. res[t].next < res[t].end => 1 <= res[t].next /\ res[t].end <= count
        BY DEF BoundsInv, Holdings
      <4>2. QED
        BY <1>2, <4>1, Numbers DEF nx, b
    <3>3. nx + m - 1 \in Ids /\ nx + m - 1 < count
      BY <1>2, <3>2, EntityAssumption DEF Ids, EntityAssumption
    <3>4. QED
      BY <3>1, <3>3 DEF Homes, ThreadsApart, LiveApart
  <2>4. ASSUME NEW k \in Positions', HeldAt(k)'
        PROVE  /\ available'[k] \in Ids
               /\ available'[k] < count /\ available'[k] \notin live
               /\ \A u \in Threads : ~InBlock(u, available[k])'
    <3>1. available'[k] \in Ids
      BY <1>10, BoundsInv' DEF BoundsInv, TypeOK, Positions
    <3>2. CASE k \in 1..n
      BY <1>7, <1>8, <2>1, <2>4, <3>1, <3>2 DEF Ids
    <3>3. CASE \E m \in 1..s : k = n + m
      BY <1>7, <1>8, <2>2, <3>1, <3>3 DEF Ids
    <3>4. CASE \E m \in 1..b : k = n + s + m
      BY <1>7, <1>8, <2>3, <3>1, <3>4 DEF Ids
    <3>5. QED
      BY <1>10, <1>14, <2>4, <3>2, <3>3, <3>4
  <2>5. ASSUME NEW k \in 1..n, HeldAt(k)', NEW l \in Positions', HeldAt(l)',
               available'[l] = available'[k]
        PROVE  l = k
    <3>1. CASE l \in 1..n
      BY <2>1, <2>5, <3>1
    <3>2. CASE \E m \in 1..s : l = n + m
      <4>1. PICK m \in 1..s : l = n + m
        BY <3>2
      <4>2. available[k] = available[lo + m] /\ HeldAt(k) /\ ~InSlice(t, k)
        BY <2>1, <2>2, <2>5, <4>1
      <4>3. k = lo + m
        BY <2>2, <4>2
      <4>4. QED
        BY <2>2, <4>2, <4>3
    <3>3. CASE \E m \in 1..b : l = n + s + m
      BY <2>1, <2>3, <2>5, <3>3
    <3>4. QED
      BY <1>10, <1>14, <3>1, <3>2, <3>3
  <2>6. ASSUME NEW k \in 1..s, NEW l \in 1..s, available'[n + k] = available'[n + l]
        PROVE  k = l
    <3>1. lo + k = lo + l
      BY <1>10, <1>11, <2>2, <2>6
    <3>2. QED
      BY <1>2, <3>1
  <2>7. ASSUME NEW k \in 1..s, NEW l \in 1..b
        PROVE  available'[n + k] # available'[n + s + l]
    BY <2>2, <2>3
  <2>8. ASSUME NEW k \in 1..b, NEW l \in 1..b, available'[n + s + k] = available'[n + s + l]
        PROVE  k = l
    BY <1>2, <2>3, <2>8
  <2>9. ASSUME NEW k \in Positions', HeldAt(k)', NEW l \in Positions', HeldAt(l)',
               available'[l] = available'[k]
        PROVE  l = k
    <3>1. CASE k \in 1..n \/ l \in 1..n
      BY <2>5, <2>9, <3>1
    <3>2. CASE k \notin 1..n /\ l \notin 1..n
      <4>1. /\ (\E m \in 1..s : k = n + m) \/ (\E m \in 1..b : k = n + s + m)
            /\ (\E m \in 1..s : l = n + m) \/ (\E m \in 1..b : l = n + s + m)
        BY <1>10, <1>14, <3>2
      <4>2. QED
        BY <2>6, <2>7, <2>8, <2>9, <4>1
    <3>3. QED
      BY <3>1, <3>2
  <2>10. QED
    BY <1>1, <2>4, <2>9 DEF StackApart
<1>16. ThreadsApart'
  <2>1. ASSUME NEW u \in Threads, NEW v \in Threads, u # v, NEW k \in 1..(n + s + b)
        PROVE  ~(InSlice(u, k)' /\ InSlice(v, k)')
    <3>1. CASE u = t \/ v = t
      BY <1>7, <3>1
    <3>2. CASE u # t /\ v # t
      <4>1. InSlice(u, k) => k <= n
        BY <1>2, Numbers DEF BoundsInv, Holdings, InSlice
      <4>2. ~(InSlice(u, k) /\ InSlice(v, k))
        BY <1>2, <1>10, <2>1, <4>1 DEF Homes, ThreadsApart
      <4>3. QED
        BY <1>8, <3>2, <4>2
    <3>3. QED
      BY <3>1, <3>2
  <2>2. ASSUME NEW u \in Threads, NEW v \in Threads, u # v, NEW j \in Ids
        PROVE  ~(InBlock(u, j)' /\ InBlock(v, j)')
    BY <1>7, <1>8, <2>2 DEF Homes, ThreadsApart, Ids
  <2>3. QED
    BY <1>10, <2>1, <2>2 DEF ThreadsApart
<1>17. LiveApart'
  BY <1>1, <1>7, <1>8 DEF Homes, LiveApart, BoundsInv, TypeOK, Ids
<1>18. NoneLost'
  <2>1. ASSUME NEW j \in Ids, j < count, j \notin live, \A u \in Threads : ~InBlock(u, j)'
        PROVE  \E k \in 1..(n + s + b) : HeldAt(k)' /\ available'[k] = j
    <3>1. CASE InBlock(t, j)
      <4>1. /\ j - nx + 1 \in 1..b /\ nx + (j - nx + 1) - 1 = j
            /\ n + s + (j - nx + 1) \in (n + 1)..(n + s + b)
            /\ n + s + (j - nx + 1) \in 1..(n + s + b)
        BY <1>2, <1>5, <3>1 DEF Ids
      <4>2. available'[n + s + (j - nx + 1)] = j
        BY <1>3, <4>1
      <4>3. QED
        BY <1>13, <4>1, <4>2
    <3>2. CASE ~InBlock(t, j)
      <4>1. \A u \in Threads : ~InBlock(u, j)
        BY <1>8, <2>1, <3>2 DEF Ids
      <4>2. PICK k \in 1..n : HeldAt(k) /\ available[k] = j
        BY <1>10, <2>1, <4>1 DEF Homes, NoneLost
      <4>3. CASE InSlice(t, k)
        <5>1. /\ k - lo \in 1..s /\ lo + (k - lo) = k /\ n + (k - lo) \in (n + 1)..(n + s + b)
              /\ n + (k - lo) \in 1..(n + s + b)
          BY <1>2, <1>5, <4>3
        <5>2. available'[n + (k - lo)] = j
          BY <1>3, <4>2, <5>1
        <5>3. QED
          BY <1>13, <5>1, <5>2
      <4>4. CASE ~InSlice(t, k)
        <5>1. HeldAt(k)' /\ available'[k] = j /\ k \in 1..(n + s + b)
          BY <1>2, <1>3, <1>12, <4>2, <4>4
        <5>2. QED
          BY <5>1
      <4>5. QED
        BY <4>3, <4>4
    <3>3. QED
      BY <3>1, <3>2
  <2>2. QED
    BY <1>1, <1>10, <2>1 DEF NoneLost
<1>19. QED
  BY <1>15, <1>16, <1>17, <1>18 DEF Homes

(* Closing up the stack keeps what was not claimed and what was returned.  *)
LEMMA HomesEnd ==
  ASSUME BoundsInv, BoundsInv', Homes, EndParallel
  PROVE  Homes'
<1> DEFINE n == Len(available)
           p == PrefixLength
           from(k) == IF k <= p THEN k ELSE snapshot + (k - p)
<1>1. /\ window = "returning" /\ returning > WorkerCount /\ window' = "closed"
      /\ available' = SubSeq(available, 1, p) \o SubSeq(available, snapshot + 1, n)
      /\ UNCHANGED <<snapshot, cursor, count, live, res>>
  BY DEF EndParallel
<1>2. /\ n \in Nat /\ p \in Nat /\ snapshot \in Nat /\ snapshot <= n /\ p <= snapshot
  BY <1>1, Numbers DEF BoundsInv, WindowPhase, PrefixLength
<1>3. \A t \in Threads : res[t] = Empty
  BY <1>1, EntityAssumption DEF BoundsInv, WindowPhase, Threads, TypeOK, EntityAssumption
<1>4. \A t \in Threads, k \in Int :
        ~InSlice(t, k) /\ ~InBlock(t, k) /\ ~InSlice(t, k)' /\ ~InBlock(t, k)'
  BY <1>1, <1>3 DEF InSlice, InBlock, Empty
<1>5. /\ Len(available') = p + (n - snapshot)
      /\ \A k \in 1..(p + (n - snapshot)) : available'[k] = available[from(k)]
  <2> DEFINE kept == SubSeq(available, 1, p)
             back == SubSeq(available, snapshot + 1, n)
  <2>1. available \in Seq(Ids) /\ \A k \in 1..n : available[k] \in Ids
    BY DEF BoundsInv, TypeOK
  <2>2. kept \in Seq(Ids) /\ Len(kept) = p /\ \A k \in 1..p : kept[k] = available[k]
    <3>1. \A k \in 1..p : available[k] \in Ids
      BY <1>2, <2>1
    <3> HIDE DEF p, n
    <3>2. /\ kept \in Seq(Ids) /\ Len(kept) = (IF 1 <= p THEN p - 1 + 1 ELSE 0)
          /\ \A k \in 1..(p - 1 + 1) : kept[k] = available[1 + k - 1]
      BY <1>2, <3>1, SubSeqProperties
    <3> HIDE DEF kept
    <3>3. QED
      BY <1>2, <3>2
  <2>3. /\ back \in Seq(Ids) /\ Len(back) = n - snapshot
        /\ \A k \in 1..(n - snapshot) : back[k] = available[snapshot + k]
    <3>1. /\ \A k \in (snapshot + 1)..n : available[k] \in Ids
          /\ snapshot + 1 \in Int /\ n \in Int
      BY <1>2, <2>1
    <3> HIDE DEF p, n
    <3>2. /\ back \in Seq(Ids)
          /\ Len(back) = (IF snapshot + 1 <= n THEN n - (snapshot + 1) + 1 ELSE 0)
          /\ \A k \in 1..(n - (snapshot + 1) + 1) : back[k] = available[snapshot + 1 + k - 1]
      BY <3>1, SubSeqProperties
    <3> HIDE DEF back
    <3>3. ASSUME NEW k \in 1..(n - snapshot) PROVE back[k] = available[snapshot + k]
      <4>1. k \in 1..(n - (snapshot + 1) + 1) /\ snapshot + 1 + k - 1 = snapshot + k
        BY <1>2
      <4>2. back[k] = available[snapshot + 1 + k - 1]
        BY <3>2, <4>1
      <4>3. QED
        BY <4>1, <4>2
    <3>4. QED
      BY <1>2, <3>2, <3>3
  <2> HIDE DEF kept, back
  <2>4. /\ Len(kept \o back) = Len(kept) + Len(back)
        /\ \A k \in 1..(Len(kept) + Len(back)) :
             (kept \o back)[k] = IF k <= Len(kept) THEN kept[k] ELSE back[k - Len(kept)]
    BY <2>2, <2>3, ConcatProperties
  <2>5. available' = kept \o back
    BY <1>1 DEF kept, back
  <2> HIDE DEF p, n
  <2>6. ASSUME NEW k \in 1..(p + (n - snapshot))
        PROVE  available'[k] = available[from(k)]
    <3>1. CASE k <= p
      BY <1>2, <2>2, <2>3, <2>4, <2>5, <3>1
    <3>2. CASE ~(k <= p)
      <4>1. k - p \in 1..(n - snapshot)
        BY <1>2, <3>2
      <4>2. available'[k] = back[k - p]
        BY <1>2, <2>2, <2>3, <2>4, <2>5, <3>2
      <4>3. QED
        BY <2>3, <3>2, <4>1, <4>2
    <3>3. QED
      BY <3>1, <3>2
  <2>7. QED
    BY <2>2, <2>3, <2>4, <2>5, <2>6
<1>6. \A k : HeldAt(k)'
  BY <1>1 DEF HeldAt, Free
<1>7. \A k \in 1..n : HeldAt(k) <=> k <= p \/ k > snapshot
  BY <1>1, <1>4 DEF HeldAt, Free
<1> HIDE DEF n, p
<1>8. Positions = 1..n /\ Positions' = 1..(p + (n - snapshot))
  BY <1>5 DEF Positions, n
<1>9. \A k \in 1..(p + (n - snapshot)) : from(k) \in 1..n /\ HeldAt(from(k))
  <2>1. \A k \in 1..(p + (n - snapshot)) :
          from(k) \in 1..n /\ (from(k) <= p \/ from(k) > snapshot)
    BY <1>2
  <2> HIDE DEF from
  <2>2. QED
    BY <1>7, <2>1
<1>10. \A k, l \in 1..(p + (n - snapshot)) : from(k) = from(l) => k = l
  BY <1>2
<1>11. \A m \in 1..n : HeldAt(m) => \E k \in 1..(p + (n - snapshot)) : from(k) = m
  <2>1. ASSUME NEW m \in 1..n, m <= p
        PROVE  \E k \in 1..(p + (n - snapshot)) : from(k) = m
    <3>1. m \in 1..(p + (n - snapshot)) /\ from(m) = m
      BY <1>2, <2>1
    <3>2. QED
      BY <3>1
  <2>2. ASSUME NEW m \in 1..n, m > snapshot
        PROVE  \E k \in 1..(p + (n - snapshot)) : from(k) = m
    <3>1. p + (m - snapshot) \in 1..(p + (n - snapshot)) /\ from(p + (m - snapshot)) = m
      BY <1>2, <2>2
    <3>2. QED
      BY <3>1
  <2>3. QED
    BY <1>7, <2>1, <2>2
<1> HIDE DEF from
<1>12. StackApart'
  <2>1. ASSUME NEW k \in 1..(p + (n - snapshot))
        PROVE  /\ available'[k] < count' /\ available'[k] \notin live'
               /\ \A t \in Threads : ~InBlock(t, available[k])'
               /\ \A l \in 1..(p + (n - snapshot)) : available'[l] = available'[k] => l = k
    <3>1. available'[k] = available[from(k)] /\ from(k) \in Positions /\ HeldAt(from(k))
      BY <1>5, <1>8, <1>9
    <3>2. available'[k] \in Int
      BY <3>1, Numbers DEF Ids
    <3>3. \A l \in 1..(p + (n - snapshot)) : available'[l] = available'[k] => l = k
      BY <1>5, <1>8, <1>9, <1>10, <3>1 DEF Homes, StackApart
    <3>4. QED
      BY <1>1, <1>4, <3>1, <3>2, <3>3 DEF Homes, StackApart
  <2>2. QED
    BY <1>8, <2>1 DEF StackApart
<1>13. ThreadsApart' /\ LiveApart'
  BY <1>1, <1>4 DEF Homes, ThreadsApart, LiveApart, Positions, BoundsInv, TypeOK, Ids
<1>14. NoneLost'
  <2>1. ASSUME NEW j \in Ids, j < count, j \notin live
        PROVE  \E k \in 1..(p + (n - snapshot)) : available'[k] = j
    <3>1. PICK m \in 1..n : HeldAt(m) /\ available[m] = j
      BY <1>4, <1>8, <2>1 DEF Homes, NoneLost, Ids
    <3>2. PICK k \in 1..(p + (n - snapshot)) : from(k) = m
      BY <1>11, <3>1
    <3>3. QED
      BY <1>5, <3>1, <3>2
  <2>2. QED
    BY <1>1, <1>6, <1>8, <2>1 DEF NoneLost
<1>15. QED
  BY <1>12, <1>13, <1>14 DEF Homes

(* Homes is inductive, given the bounds.                                   *)
LEMMA HomesStep == BoundsInv /\ BoundsInv' /\ Homes /\ [Next]_vars => Homes'
<1> SUFFICES ASSUME BoundsInv, BoundsInv', Homes, [Next]_vars PROVE Homes'
  OBVIOUS
<1>1. ASSUME NEW t \in Threads, NEW how \in {"reuse", "new"}, CallReserve(t, how)
      PROVE  Homes'
  BY <1>1, HomesCall DEF CallReserve, indexVars
<1>2. CASE CloseWindow
  BY <1>2, HomesCall DEF CloseWindow, indexVars
<1>3. CASE UNCHANGED vars
  BY <1>3 DEF vars, Homes, StackApart, ThreadsApart, LiveApart, NoneLost, Positions, HeldAt, Free,
              PrefixLength, InSlice, InBlock
<1>4. QED
  BY <1>1, <1>2, <1>3, HomesReserve, HomesKill, HomesBegin, HomesClaimRecycled,
     HomesIssueRecycled, HomesClaimFresh, HomesIssueFresh, HomesReturn, HomesEnd DEF Next

(* Homes in terms of places.                                               *)
LEMMA HomesGiveOneHome == BoundsInv /\ Homes => OneHome
<1> SUFFICES ASSUME BoundsInv, Homes, NEW i \in Ids
             PROVE  Cardinality(Places(i)) = IF i < count THEN 1 ELSE 0
  BY DEF OneHome
<1> DEFINE A == {<<"alive">> : a \in live \cap {i}}
           B == {<<"stack", k>> : k \in {k \in Unclaimed : available[k] = i}}
           C == {<<"slice", p[1], p[2]>> : p \in
                   {p \in Threads \X (1..Len(available)) :
                      res[p[1]].low < p[2] /\ p[2] <= res[p[1]].high /\ available[p[2]] = i}}
           D == {<<"block", t>> : t \in {t \in Threads : res[t].next <= i /\ i < res[t].end}}
<1>1. Places(i) = A \cup B \cup C \cup D
  BY DEF Places
<1>2. Unclaimed = {k \in Positions : Free(k)}
  <2>1. /\ Len(available) \in Nat /\ PrefixLength \in Nat /\ snapshot \in Nat
        /\ window # "closed" => PrefixLength <= Len(available)
    BY Numbers DEF BoundsInv, WindowPhase, PrefixLength
  <2>2. CASE window = "closed"
    BY <2>2 DEF Unclaimed, Positions, Free
  <2>3. CASE window # "closed"
    BY <2>1, <2>3 DEF Unclaimed, Positions, Free
  <2>4. QED
    BY <2>2, <2>3
<1>3. i \in live => A = {<<"alive">>}
  OBVIOUS
<1>4. i \notin live => A = {}
  OBVIOUS
<1>5. (\A k \in Positions : Free(k) => available[k] # i) => B = {}
  BY <1>2
<1>6. (\A t \in Threads, k \in Positions : InSlice(t, k) => available[k] # i) => C = {}
  BY DEF Positions, InSlice
<1>7. (\A t \in Threads : ~InBlock(t, i)) => D = {}
  BY DEF InBlock
<1>8. CASE \A k \in Positions : HeldAt(k) => available[k] # i
  <2>1. B = {} /\ C = {}
    BY <1>5, <1>6, <1>8 DEF HeldAt
  <2>2. CASE i \in live
    BY <1>1, <1>3, <1>7, <2>1, <2>2, FS_Singleton DEF Homes, LiveApart
  <2>3. CASE i \notin live /\ \A t \in Threads : ~InBlock(t, i)
    <3>1. Places(i) = {}
      BY <1>1, <1>4, <1>7, <2>1, <2>3
    <3>2. ~(i < count)
      BY <1>8, <2>3 DEF Homes, NoneLost
    <3>3. QED
      BY <3>1, <3>2, FS_EmptySet
  <2>4. CASE \E t \in Threads : InBlock(t, i)
    <3>1. PICK t \in Threads : InBlock(t, i)
      BY <2>4
    <3>2. i \notin live /\ \A u \in Threads : InBlock(u, i) => u = t
      BY <3>1 DEF Homes, LiveApart, ThreadsApart
    <3>3. D = {<<"block", t>>}
      BY <3>1, <3>2 DEF InBlock
    <3>4. Places(i) = {<<"block", t>>}
      BY <1>1, <1>4, <2>1, <3>2, <3>3
    <3>5. i < count
      BY <3>1, Numbers DEF BoundsInv, Holdings, InBlock, Ids
    <3>6. QED
      BY <3>4, <3>5, FS_Singleton
  <2>5. QED
    BY <2>2, <2>3, <2>4
<1>9. CASE \E k \in Positions : HeldAt(k) /\ available[k] = i
  <2>1. PICK k \in Positions : HeldAt(k) /\ available[k] = i
    BY <1>9
  <2>2. /\ i < count /\ i \notin live /\ \A t \in Threads : ~InBlock(t, i)
        /\ \A l \in Positions : HeldAt(l) /\ available[l] = i => l = k
    BY <2>1 DEF Homes, StackApart
  <2>3. A = {} /\ D = {}
    BY <1>4, <1>7, <2>2
  <2>4. CASE Free(k)
    <3>1. \A t \in Threads : ~InSlice(t, k)
      BY <2>4, Numbers DEF BoundsInv, Holdings, WindowPhase, Free, InSlice, Positions
    <3>2. C = {}
      BY <1>6, <2>2, <3>1 DEF HeldAt
    <3>3. B = {<<"stack", k>>}
      <4>1. {l \in Unclaimed : available[l] = i} = {k}
        BY <1>2, <2>1, <2>2, <2>4 DEF HeldAt
      <4>2. QED
        BY <4>1
    <3>4. Places(i) = {<<"stack", k>>}
      BY <1>1, <2>3, <3>2, <3>3
    <3>5. QED
      BY <2>2, <3>4, FS_Singleton
  <2>5. CASE ~Free(k)
    <3>1. PICK t \in Threads : InSlice(t, k)
      BY <2>1, <2>5 DEF HeldAt
    <3>2. \A u \in Threads, l \in Positions : InSlice(u, l) /\ available[l] = i => u = t /\ l = k
      BY <2>2, <3>1 DEF HeldAt, Homes, ThreadsApart
    <3>3. B = {}
      BY <1>5, <2>2, <2>5 DEF HeldAt
    <3>4. C = {<<"slice", t, k>>}
      <4>1. ASSUME NEW p \in Threads \X (1..Len(available)),
                   res[p[1]].low < p[2], p[2] <= res[p[1]].high, available[p[2]] = i
            PROVE  p[1] = t /\ p[2] = k
        BY <3>2, <4>1 DEF Positions, InSlice
      <4>2. /\ <<t, k>> \in Threads \X (1..Len(available))
            /\ <<t, k>>[1] = t /\ <<t, k>>[2] = k
            /\ res[t].low < k /\ k <= res[t].high /\ available[k] = i
        BY <2>1, <3>1 DEF Positions, InSlice
      <4>3. <<"slice", t, k>> \in C
        BY <4>2
      <4>4. ASSUME NEW c \in C PROVE c = <<"slice", t, k>>
        BY <4>1
      <4>5. QED
        BY <4>3, <4>4
    <3>5. Places(i) = {<<"slice", t, k>>}
      BY <1>1, <2>3, <3>3, <3>4
    <3>6. QED
      BY <2>2, <3>5, FS_Singleton
  <2>6. QED
    BY <2>4, <2>5
<1>10. QED
  BY <1>8, <1>9

(* Every id counted so far is in exactly one place: alive, on the stack,   *)
(* or claimed by one thread; so no id is issued twice and none is lost.    *)
THEOREM NoIdTwiceOrLost == Spec => []OneHome
<1>1. Init => BoundsInv /\ Homes
  BY BoundsInit, HomesInit
<1>2. BoundsInv /\ Homes /\ [Next]_vars => BoundsInv' /\ Homes'
  BY BoundsStep, HomesStep
<1>3. BoundsInv /\ Homes => OneHome
  BY HomesGiveOneHome
<1>4. QED
  BY <1>1, <1>2, <1>3, PTL DEF Spec

-----------------------------------------------------------------------------
(* EntityIndex gives out handles as EntityHandles promises, as long as     *)
(* there are fewer kills than generations.                                 *)

(* The generation of an id counts its kills, so that it does not wrap.     *)
KillsCounted ==
  /\ IsFiniteSet(killed) /\ Cardinality(killed) <= MaxKills
  /\ \A i \in Ids : generation[i] <= Cardinality(killed)
  /\ \A h \in killed : h[2] < generation[h[1]]

HandlesInv == BoundsInv /\ Homes /\ KillsCounted

-----------------------------------------------------------------------------
(* The invariant of the handles holds at the start.                        *)
LEMMA HandlesInit == Init => HandlesInv
<1> SUFFICES ASSUME Init PROVE HandlesInv
  OBVIOUS
<1>1. KillsCounted
  BY FS_EmptySet, EntityAssumption DEF Init, KillsCounted, EntityAssumption
<1>2. QED
  BY <1>1, BoundsInit, HomesInit DEF HandlesInv

(* Only Kill changes generations and what was killed.                      *)
LEMMA OnlyKillCounts ==
  ASSUME [Next]_vars, \A i \in Ids : ~Kill(i)
  PROVE  UNCHANGED <<generation, killed>>
  BY DEF Next, vars, Reserve, BeginParallel, CallReserve, ClaimRecycled, IssueRecycled, ClaimFresh,
         IssueFresh, CloseWindow, Return, EndParallel

(* A generation below the limit does not wrap.                             *)
LEMMA NoWrap ==
  ASSUME NEW a \in Nat, NEW b \in Nat, a < b
  PROVE  a % b = a
  BY Z3

(* A kill (ecs_kill_now) counts one more, of a handle that was not killed  *)
(* before.                                                                 *)
LEMMA KillCounts ==
  ASSUME MaxKills < GenLimit, HandlesInv, NEW i \in Ids, Kill(i)
  PROVE  KillsCounted' /\ Handle(i) \notin killed
<1>1. /\ killed' = killed \cup {<<i, generation[i]>>}
      /\ generation' = [generation EXCEPT ![i] = (@ + 1) % GenLimit]
      /\ Cardinality(killed) < MaxKills
  BY DEF Kill, Handle
<1>2. /\ generation \in [Ids -> 0..(GenLimit - 1)] /\ MaxKills \in Nat /\ GenLimit \in Nat
      /\ killed \in SUBSET (Ids \X (0..(GenLimit - 1)))
  BY EntityAssumption DEF HandlesInv, BoundsInv, TypeOK, EntityAssumption
<1>3. /\ IsFiniteSet(killed) /\ Cardinality(killed) \in Nat
      /\ \A j \in Ids : generation[j] <= Cardinality(killed)
      /\ \A h \in killed : h[2] < generation[h[1]]
  BY FS_CardinalityType DEF HandlesInv, KillsCounted
<1>4. <<i, generation[i]>> \notin killed
  <2>1. <<i, generation[i]>>[1] = i /\ <<i, generation[i]>>[2] = generation[i]
    OBVIOUS
  <2>2. generation[i] \in Int
    BY <1>2
  <2>3. QED
    BY <1>3, <2>1, <2>2
<1>5. IsFiniteSet(killed') /\ Cardinality(killed') = Cardinality(killed) + 1
  BY <1>1, <1>3, <1>4, FS_AddElement
<1>6. generation'[i] = generation[i] + 1 /\ \A j \in Ids : j # i => generation'[j] = generation[j]
  <2>1. generation[i] \in Nat /\ generation[i] + 1 < GenLimit
    BY <1>1, <1>2, <1>3
  <2>2. (generation[i] + 1) % GenLimit = generation[i] + 1
    <3> DEFINE g == generation[i] + 1
    <3>1. g \in Nat /\ g < GenLimit
      BY <2>1
    <3> HIDE DEF g
    <3>2. g % GenLimit = g
      BY <1>2, <3>1, NoWrap, Zenon
    <3>3. QED
      BY <3>2 DEF g
  <2>3. QED
    BY <1>1, <1>2, <2>2
<1>7. \A j \in Ids : generation'[j] <= Cardinality(killed')
  BY <1>2, <1>3, <1>5, <1>6
<1>8. ASSUME NEW h \in killed' PROVE h[2] < generation'[h[1]]
  <2>1. CASE h = <<i, generation[i]>>
    BY <1>2, <1>6, <2>1
  <2>2. CASE h \in killed
    <3>1. h[1] \in Ids /\ h[2] \in Int /\ h[2] < generation[h[1]]
      BY <1>2, <1>3, <2>2
    <3>2. generation[h[1]] \in Int /\ generation[h[1]] <= generation'[h[1]]
      BY <1>2, <1>6, <3>1
    <3>3. generation'[h[1]] \in Int
      BY <1>2, <1>6, <3>1
    <3>4. QED
      BY <3>1, <3>2, <3>3
  <2>3. QED
    BY <1>1, <1>8, <2>1, <2>2
<1>9. Cardinality(killed') <= MaxKills
  BY <1>1, <1>2, <1>3, <1>5
<1>10. KillsCounted'
  BY <1>5, <1>7, <1>8, <1>9 DEF KillsCounted
<1>11. QED
  BY <1>4, <1>10 DEF Handle

(* The invariant of the handles is inductive.                              *)
LEMMA HandlesStep ==
  ASSUME MaxKills < GenLimit
  PROVE  HandlesInv /\ [Next]_vars => HandlesInv'
<1> SUFFICES ASSUME HandlesInv, [Next]_vars PROVE HandlesInv'
  OBVIOUS
<1>1. BoundsInv' /\ Homes'
  BY BoundsStep, HomesStep DEF HandlesInv
<1>2. CASE \E i \in Ids : Kill(i)
  BY <1>1, <1>2, KillCounts DEF HandlesInv
<1>3. CASE \A i \in Ids : ~Kill(i)
  <2>1. UNCHANGED <<generation, killed>>
    BY <1>3, OnlyKillCounts
  <2>2. KillsCounted'
    BY <2>1 DEF HandlesInv, KillsCounted
  <2>3. QED
    BY <1>1, <2>2 DEF HandlesInv
<1>4. QED
  BY <1>2, <1>3

(* An id that becomes alive was not, and its handle was never killed.      *)
LEMMA GivenOut ==
  ASSUME HandlesInv, NEW i \in Ids, i \notin live, live' = live \cup {i},
         UNCHANGED <<generation, killed>>
  PROVE  [Promise!New \/ Promise!Kill]_(Promise!vars)
<1> DEFINE before == {Handle(j) : j \in live}
<1>1. {Handle(j)' : j \in live'} = before \cup {Handle(i)}
  BY DEF Handle
<1>2. generation[i] \in 0..(GenLimit - 1) /\ Handle(i) \in Ids \X (0..(GenLimit - 1))
  BY DEF HandlesInv, BoundsInv, TypeOK, Handle
<1>3. Handle(i) \notin before
  BY DEF Handle
<1>4. Handle(i) \notin killed
  <2>1. Handle(i)[1] = i /\ Handle(i)[2] = generation[i] /\ generation[i] \in Int
    BY <1>2 DEF Handle
  <2>2. QED
    BY <2>1 DEF HandlesInv, KillsCounted
<1>5. Promise!New
  BY <1>1, <1>2, <1>3, <1>4 DEF Promise!New
<1>6. QED
  BY <1>5

(* Each step of the index gives a new handle out, kills one, or does       *)
(* neither.                                                                *)
LEMMA PromiseKept ==
  ASSUME MaxKills < GenLimit
  PROVE  HandlesInv /\ [Next]_vars => [Promise!New \/ Promise!Kill]_(Promise!vars)
<1> SUFFICES ASSUME HandlesInv, [Next]_vars
             PROVE  [Promise!New \/ Promise!Kill]_(Promise!vars)
  OBVIOUS
<1>1. CASE UNCHANGED <<live, generation, killed>>
  BY <1>1 DEF Promise!vars, Handle
<1>2. ASSUME NEW i \in Ids, Kill(i) PROVE Promise!Kill
  <2> DEFINE before == {Handle(j) : j \in live}
  <2>1. /\ i \in live /\ live' = live \ {i} /\ killed' = killed \cup {Handle(i)}
        /\ \A j \in Ids : j # i => generation'[j] = generation[j]
    BY <1>2 DEF Kill, HandlesInv, BoundsInv, TypeOK
  <2>2. {Handle(j)' : j \in live'} = before \ {Handle(i)}
    <3>1. live \subseteq Ids
      BY DEF HandlesInv, BoundsInv, TypeOK
    <3>2. \A j \in live' : Handle(j)' = Handle(j) /\ Handle(j) # Handle(i)
      BY <2>1, <3>1 DEF Handle
    <3>3. QED
      BY <2>1, <3>2
  <2>3. Handle(i) \in before
    BY <2>1
  <2>4. QED
    BY <2>1, <2>2, <2>3 DEF Promise!Kill
<1>3. ASSUME NEW reuse \in BOOLEAN, Reserve(reuse)
      PROVE  [Promise!New \/ Promise!Kill]_(Promise!vars)
  <2>1. UNCHANGED <<generation, killed>> /\ window = "closed"
    BY <1>3 DEF Reserve
  <2>2. CASE /\ available # <<>>
             /\ live' = live \cup {available[Len(available)]}
    <3>1. Len(available) \in Positions
      BY <2>2, Numbers DEF HandlesInv, BoundsInv, TypeOK, Positions
    <3>2. available[Len(available)] \in Ids /\ available[Len(available)] \notin live
      BY <2>1, <3>1, Numbers DEF HandlesInv, Homes, StackApart, HeldAt, Free
    <3>3. QED
      BY <2>1, <2>2, <3>2, GivenOut
  <2>3. CASE count <= MaxId /\ live' = live \cup {count}
    <3>1. count \in Ids
      BY <2>3, Numbers, EntityAssumption DEF HandlesInv, Ids, EntityAssumption
    <3>2. count \notin live
      BY <3>1 DEF HandlesInv, Homes, LiveApart, Ids
    <3>3. QED
      BY <2>1, <2>3, <3>1, <3>2, GivenOut
  <2>4. QED
    BY <1>3, <2>2, <2>3 DEF Reserve
<1>4. ASSUME NEW t \in Threads, IssueRecycled(t)
      PROVE  [Promise!New \/ Promise!Kill]_(Promise!vars)
  <2>1. /\ UNCHANGED <<generation, killed>> /\ call[t] = "reuse" /\ res[t].low < res[t].high
        /\ live' = live \cup {available[res[t].high]}
    BY <1>4 DEF IssueRecycled
  <2>2. res[t].high \in Positions /\ InSlice(t, res[t].high)
    BY <2>1, Numbers DEF HandlesInv, BoundsInv, Holdings, WindowPhase, InSlice, Positions
  <2>3. available[res[t].high] \in Ids /\ available[res[t].high] \notin live
    BY <2>2, Numbers DEF HandlesInv, Homes, StackApart, HeldAt
  <2>4. QED
    BY <2>1, <2>3, GivenOut
<1>5. ASSUME NEW t \in Threads, IssueFresh(t)
      PROVE  [Promise!New \/ Promise!Kill]_(Promise!vars)
  <2>1. /\ UNCHANGED <<generation, killed>> /\ res[t].next < res[t].end
        /\ live' = live \cup {res[t].next}
    BY <1>5 DEF IssueFresh
  <2>2. /\ res[t].next \in Nat /\ res[t].end \in Nat /\ 1 <= res[t].next /\ res[t].end <= count
        /\ count \in Nat /\ count <= MaxId + 1 /\ MaxId \in Nat
    BY <2>1, Numbers, EntityAssumption DEF HandlesInv, BoundsInv, Holdings, EntityAssumption
  <2>3. res[t].next \in Ids /\ InBlock(t, res[t].next)
    BY <2>1, <2>2 DEF Ids, InBlock
  <2>4. res[t].next \notin live
    BY <2>3 DEF HandlesInv, Homes, LiveApart
  <2>5. QED
    BY <2>1, <2>3, <2>4, GivenOut
<1>6. CASE \/ BeginParallel \/ CloseWindow \/ EndParallel
           \/ \E t \in Threads : \E how \in {"reuse", "new"} : CallReserve(t, how)
           \/ \E t \in Threads : ClaimRecycled(t) \/ ClaimFresh(t) \/ Return(t)
           \/ UNCHANGED vars
  <2>1. UNCHANGED <<live, generation, killed>>
    BY <1>6 DEF BeginParallel, CloseWindow, EndParallel, CallReserve, ClaimRecycled, ClaimFresh,
                Return, vars
  <2>2. QED
    BY <1>1, <2>1
<1>7. QED
  BY <1>2, <1>3, <1>4, <1>5, <1>6 DEF Next

(* A killed handle is never alive again, with fewer kills than generations *)
(* (65536 in the code).                                                    *)
THEOREM KilledStaysDead ==
  ASSUME MaxKills < GenLimit
  PROVE  Spec => []StaleStaysDead
<1>1. HandlesInv => StaleStaysDead
  BY DEF HandlesInv, KillsCounted, StaleStaysDead, IsAlive, BoundsInv, TypeOK
<1>2. QED
  BY <1>1, HandlesInit, HandlesStep, PTL DEF Spec

(* Every behaviour of the index, whatever its threads do, is one that      *)
(* EntityHandles allows: a handle given out was never given out before.    *)
THEOREM IndexKeepsThePromise ==
  ASSUME MaxKills < GenLimit
  PROVE  Spec => HandlesAreFresh
<1>1. Init => Promise!Init
  BY DEF Init, Promise!Init
<1>2. QED
  BY <1>1, HandlesInit, HandlesStep, PromiseKept, PTL DEF Spec, HandlesAreFresh, Promise!Spec
================================================================================
