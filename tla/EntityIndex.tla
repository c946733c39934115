----------------------------- MODULE EntityIndex -----------------------------
(***************************************************************************)
(* Entity ids: src/src/storage/entity_index.c and the part of              *)
(* src/src/entity.c that kills them.                                       *)
(*                                                                         *)
(* Between runs and in exclusive callbacks ids are popped from the stack   *)
(* of available ids or counted up.  While callbacks run in parallel        *)
(* (ecs_worker_reservations keeps a window open) the stack is frozen: each *)
(* thread claims a slice of it with one atomic fetch_sub, or a block of    *)
(* fresh ids with one fetch_add, and issues ids from its own reservation;  *)
(* closing the window returns what was not issued.  Sequences count from   *)
(* one, so recycled_begin..recycled_end is low+1..high here.               *)
(***************************************************************************)
EXTENDS Integers, Sequences, FiniteSets

CONSTANTS
  WorkerCount,  \* threads are 0..WorkerCount, the calling thread is the last
  Chunk,        \* ECS_ENTITY_RESERVATION_SIZE
  GenLimit,     \* 2^16: number of values of the generation field
  MaxId,        \* bound: largest id counted up to
  MaxKills      \* bound: kills

Threads == 0..WorkerCount
Ids == 1..MaxId

ASSUME EntityAssumption ==
  /\ WorkerCount \in Nat /\ Chunk \in Nat \ {0} /\ GenLimit \in Nat \ {0}
  /\ MaxId \in Nat /\ MaxKills \in Nat

VARIABLES
  available,  \* entity_index.available
  snapshot,   \* available_snapshot
  cursor,     \* available_cursor, which may go below zero
  count,      \* entity_index.count
  generation, \* generation of each record
  live,       \* ids whose record has a table
  window,     \* reservations: closed, open, or being returned
  returning,  \* next reservation ecs_worker_reservations(false) returns
  res,        \* each thread's ecs_entity_reservation_t
  call,       \* each thread's ecs_entity_index_reserve call, if any
  killed      \* history: handles that were killed

indexVars == <<available, snapshot, cursor, count>>
vars == <<available, snapshot, cursor, count, generation, live, window, returning,
          res, call, killed>>

Empty == [next |-> 0, end |-> 0, low |-> 0, high |-> 0, spent |-> FALSE]
Handle(i) == <<i, generation[i]>>
IsAlive(h) == h[1] \in live /\ generation[h[1]] = h[2]

Init ==
  /\ available = <<>> /\ snapshot = 0 /\ cursor = 0 /\ count = 1
  /\ generation = [i \in Ids |-> 0]
  /\ live = {} /\ killed = {}
  /\ window = "closed" /\ returning = 0
  /\ res = [t \in Threads |-> Empty]
  /\ call = [t \in Threads |-> "none"]

-----------------------------------------------------------------------------
(* With the window closed there is one thread, and no reservation.         *)
Reserve(reuse) ==
  /\ window = "closed"
  /\ \/ /\ reuse /\ available # <<>>
        /\ live' = live \cup {available[Len(available)]}
        /\ available' = SubSeq(available, 1, Len(available) - 1)
        /\ count' = count
     \/ /\ ~reuse \/ available = <<>>
        /\ count <= MaxId
        /\ live' = live \cup {count}
        /\ count' = count + 1
        /\ available' = available
  /\ UNCHANGED <<snapshot, cursor, generation, window, returning, res, call, killed>>

(* ecs_entity_index_kill, at the end of ecs_kill_now.                      *)
KillWithoutBump(i) ==
  /\ window = "closed" /\ i \in live /\ Cardinality(killed) < MaxKills
  /\ killed' = killed \cup {Handle(i)}
  /\ live' = live \ {i}
  /\ available' = Append(available, i)
  /\ UNCHANGED <<generation, snapshot, cursor, count, window, returning, res, call>>
Kill(i) ==
  /\ window = "closed" /\ i \in live /\ Cardinality(killed) < MaxKills
  /\ killed' = killed \cup {Handle(i)}
  /\ generation' = [generation EXCEPT ![i] = (@ + 1) % GenLimit]
  /\ live' = live \ {i}
  /\ available' = Append(available, i)
  /\ UNCHANGED <<snapshot, cursor, count, window, returning, res, call>>

(* ecs_entity_index_begin_parallel.                                        *)
BeginParallel ==
  /\ window = "closed"
  /\ window' = "open"
  /\ snapshot' = Len(available)
  /\ cursor' = Len(available)
  /\ UNCHANGED <<available, count, generation, live, returning, res, call, killed>>

-----------------------------------------------------------------------------
(* A call of ecs_entity_index_reserve with a reservation, one atomic       *)
(* operation at a time.                                                    *)
CallReserve(t, how) ==
  /\ window = "open" /\ call[t] = "none"
  /\ LET others == {u \in Threads : call[u] # "none"}
     IN  count + Chunk * (Cardinality(others) + 1) <= MaxId + 1
  /\ call' = [call EXCEPT ![t] = how]
  /\ UNCHANGED <<indexVars, generation, live, window, returning, res, killed>>

SliceLowOffByOne(end) == IF end > Chunk THEN end - Chunk - 1 ELSE 0
SliceLowUnclamped(end) == end - Chunk
SliceLow(end) == IF end > Chunk THEN end - Chunk ELSE 0
ClaimRecycled(t) ==
  /\ call[t] = "reuse" /\ ~res[t].spent /\ res[t].low = res[t].high
  /\ cursor' = cursor - Chunk
  /\ res' = [res EXCEPT ![t] =
               IF cursor <= 0 THEN [@ EXCEPT !.spent = TRUE]
               ELSE [@ EXCEPT !.low = SliceLow(cursor), !.high = cursor]]
  /\ UNCHANGED <<available, snapshot, count, generation, live, window, returning,
                 call, killed>>

IssueRecycled(t) ==
  /\ call[t] = "reuse" /\ res[t].low < res[t].high
  /\ live' = live \cup {available[res[t].high]}
  /\ res' = [res EXCEPT ![t].high = @ - 1]
  /\ call' = [call EXCEPT ![t] = "none"]
  /\ UNCHANGED <<indexVars, generation, window, returning, killed>>

WantsFresh(t) ==
  \/ call[t] = "new"
  \/ call[t] = "reuse" /\ res[t].spent /\ res[t].low = res[t].high
ClaimFresh(t) ==
  /\ WantsFresh(t) /\ res[t].next = res[t].end
  /\ count' = count + Chunk
  /\ res' = [res EXCEPT ![t].next = count, ![t].end = count + Chunk]
  /\ UNCHANGED <<available, snapshot, cursor, generation, live, window, returning,
                 call, killed>>

IssueFresh(t) ==
  /\ WantsFresh(t) /\ res[t].next < res[t].end
  /\ live' = live \cup {res[t].next}
  /\ res' = [res EXCEPT ![t].next = @ + 1]
  /\ call' = [call EXCEPT ![t] = "none"]
  /\ UNCHANGED <<indexVars, generation, window, returning, killed>>

-----------------------------------------------------------------------------
(* Closing the window, with every thread quiescent: ecs_entity_index_return*)
(* of each reservation, then ecs_entity_index_end_parallel.                *)
CloseWindow ==
  /\ window = "open" /\ \A t \in Threads : call[t] = "none"
  /\ window' = "returning"
  /\ returning' = 0
  /\ UNCHANGED <<indexVars, generation, live, res, call, killed>>

Unissued(r) == SubSeq(available, r.low + 1, r.high)
                 \o [k \in 1..(r.end - r.next) |-> r.next + k - 1]
Return(t) ==
  /\ window = "returning" /\ returning = t
  /\ available' = available \o Unissued(res[t])
  /\ res' = [res EXCEPT ![t] = Empty]
  /\ returning' = returning + 1
  /\ UNCHANGED <<snapshot, cursor, count, generation, live, window, call, killed>>

PrefixLength == IF cursor > 0 THEN cursor ELSE 0
EndParallel ==
  /\ window = "returning" /\ returning > WorkerCount
  /\ available' = SubSeq(available, 1, PrefixLength)
                    \o SubSeq(available, snapshot + 1, Len(available))
  /\ window' = "closed"
  /\ UNCHANGED <<snapshot, cursor, count, generation, live, returning, res, call, killed>>

-----------------------------------------------------------------------------
Next ==
  \/ \E reuse \in BOOLEAN : Reserve(reuse)
  \/ \E i \in Ids : Kill(i)
  \/ BeginParallel
  \/ \E t \in Threads : \E how \in {"reuse", "new"} : CallReserve(t, how)
  \/ \E t \in Threads : ClaimRecycled(t) \/ IssueRecycled(t) \/ ClaimFresh(t) \/ IssueFresh(t)
  \/ CloseWindow
  \/ \E t \in Threads : Return(t)
  \/ EndParallel
Spec == Init /\ [][Next]_vars

-----------------------------------------------------------------------------
Reservations ==
  [next : Nat, end : Nat, low : Nat, high : Nat, spent : BOOLEAN]
TypeOK ==
  /\ available \in Seq(Ids) /\ snapshot \in Nat /\ cursor \in Int
  /\ count \in 1..(MaxId + 1)
  /\ generation \in [Ids -> 0..(GenLimit - 1)]
  /\ live \in SUBSET Ids /\ killed \in SUBSET (Ids \X (0..(GenLimit - 1)))
  /\ window \in {"closed", "open", "returning"} /\ returning \in 0..(WorkerCount + 1)
  /\ res \in [Threads -> Reservations]
  /\ call \in [Threads -> {"none", "reuse", "new"}]

(* Where an id can be: alive, at a position of the stack nobody claimed,   *)
(* in a thread's slice of the stack, or in a thread's block of fresh ids.  *)
Unclaimed ==
  IF window = "closed" THEN 1..Len(available)
  ELSE (1..PrefixLength) \cup ((snapshot + 1)..Len(available))
Places(i) ==
  {<<"alive">> : a \in live \cap {i}}
    \cup {<<"stack", k>> : k \in {k \in Unclaimed : available[k] = i}}
    \cup {<<"slice", p[1], p[2]>> : p \in
            {p \in Threads \X (1..Len(available)) :
               res[p[1]].low < p[2] /\ p[2] <= res[p[1]].high /\ available[p[2]] = i}}
    \cup {<<"block", t>> : t \in {t \in Threads : res[t].next <= i /\ i < res[t].end}}

(* Every id counted so far is in exactly one place, whatever order the     *)
(* atomic operations of the threads take: no id is issued twice, none of   *)
(* the unissued ones is alive, and none is lost when a window closes.      *)
OneHome ==
  \A i \in Ids : Cardinality(Places(i)) = IF i < count THEN 1 ELSE 0

(* A killed handle is not alive again (entities-components.mdx:154-166).   *)
StaleStaysDead == \A h \in killed : ~IsAlive(h)

(* Handles are given out and killed as EntityHandles promises.             *)
Promise == INSTANCE EntityHandles WITH
  Handles <- Ids \X (0..(GenLimit - 1)), alive <- {Handle(i) : i \in live}, dead <- killed
HandlesAreFresh == Promise!Spec
==============================================================================
