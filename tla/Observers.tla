------------------------------ MODULE Observers ------------------------------
(* Observers (observer.c and the emission of world_internal.h) over the tables *)
(* and query caches of QueryCache.  A global observer has a query and stands  *)
(* in a list of every table the query matches; a targeted one is found by the *)
(* index of its entity, in a sorted array.  Callbacks run in the middle of    *)
(* operations and may start operations, which deliver in their turn.         *)
(*                                                                           *)
(* What callbacks do here stays within what the walk of a list survives: the  *)
(* walk keeps addresses of the list and of the array, and positions in them.  *)
(* Targeted observers have no query here.  ecs_remove and ecs_unrelate, whose  *)
(* deliveries are removals, are left to QueryCache.  ecs_is_a_now looks for a  *)
(* cycle before it makes the base Abstract, which delivers: here the delivery  *)
(* comes first, so that no callback of it closes a cycle behind the search.   *)
EXTENDS QueryCache

CONSTANTS
  Events,        \* events, EcsOnAdd among them, numbered as they were registered
  MaxObservers,  \* bound on the slots of observers
  MaxDepth,      \* bound on deliveries within deliveries
  EndInCallback  \* may a callback end an observer of a list being walked?

OnAdd == 1

ASSUME EventsNumbered == Events \subseteq Nat \ {0} /\ OnAdd \in Events
ASSUME BoundsOfObservers == MaxObservers \in Nat /\ MaxDepth \in Nat \ {0}
ASSUME EndIsBoolean == EndInCallback \in BOOLEAN

VARIABLES
  observers,  \* slot by slot: an observer, or Gone
  listening,  \* for each table and event the list of global observers
  targets,    \* entries of targeted observers, by index and event
  unused,     \* slots of ended observers, the last one first
  frames      \* deliveries under way, the innermost first

observerVars == <<observers, listening, targets, unused>>
allVars == <<types, rows, capacity, place, dead, having, changed, queries, active, free,
             observers, listening, targets, unused, frames>>

Global(o) == observers[o].query # None
IsAlive(o) == observers[o].alive

-----------------------------------------------------------------------------
(* Delivery. *)

(* ecs_table_observed *)
HasTargets(event) == \E i \in DOMAIN targets : targets[i].event = event
Observed(lists, t, event) == lists[t][event] # <<>> \/ HasTargets(event)

Bases == [e \in Entities |-> Lineage(TypeOf(e).base)]

(* A walk of the list as long as it is now.  due holds those who must be       *)
(* called, unless they are disabled or end first, or watch a base the entity  *)
(* leaves; heard those called so far.                                        *)
Walk(lists, t, e, event, todo) ==
  [table |-> t, entity |-> e, event |-> event, todo |-> todo,
   stage |-> "list", at |-> 1, count |-> Len(lists[t][event]), source |-> e, calling |-> None,
   due |-> {o \in Range(lists[t][event]) : observers[o].enabled}
           \cup {o \in DOMAIN observers :
                   /\ IsAlive(o) /\ observers[o].enabled /\ observers[o].event = event
                   /\ observers[o].watched \in {e} \cup Bases'[e]},
   heard |-> <<>>, late |-> {}]

(* Code of the user runs outside of any delivery, or in a callback. *)
UserRuns == \A i \in DOMAIN frames : i = 1 => frames[i].calling # None

(* Deliveries under way owe nothing to observers of bases that were left. *)
StillDue ==
  [i \in DOMAIN frames |-> [frames[i] EXCEPT !.due = {o \in @ :
     observers[o].watched \in {None, frames[i].entity} \cup Bases'[frames[i].entity]}]]

(* An operation that adds k components to e, now in table t, delivers k times. *)
Deliver(e, t, event, k) ==
  IF k = 0 \/ ~Observed(listening', t, event) THEN frames' = StillDue
  ELSE Len(frames) < MaxDepth /\ frames' = <<Walk(listening', t, e, event, k - 1)>> \o StillDue

(* Seeded defect: the bound behind the entries of the key. *)
LowerBoundAbove(index, event) ==
  1 + Cardinality({i \in DOMAIN targets : \/ targets[i].index < index
                                          \/ targets[i].index = index /\ targets[i].event <= event})

(* ecs_observer_target_lower_bound *)
LowerBound(index, event) ==
  1 + Cardinality({i \in DOMAIN targets : \/ targets[i].index < index
                                          \/ targets[i].index = index /\ targets[i].event < event})

(* The walk of targeted observers at one source: the entity or a base of it.  *)
TargetStage(f, source) ==
  [f EXCEPT !.stage = "targets", !.source = source, !.at = LowerBound(IndexOf[source], f.event),
            !.count = Len(targets)]

(* The observer at the position of the walk is called if it is enabled. *)
Call(f, o) ==
  IF observers[o].alive /\ observers[o].enabled
  THEN [f EXCEPT !.at = @ + 1, !.calling = o, !.due = @ \ {o}, !.heard = Append(@, o)]
  ELSE [f EXCEPT !.at = @ + 1]

(* Seeded defect: the size of the list is read at each step. *)
InListNow(f) == f.stage = "list" /\ f.at <= Len(listening[f.table][f.event])

(* The walk of a list ends where the list ended when it began. *)
InList(f) == f.stage = "list" /\ f.at <= f.count

(* One step of the loops of ecs_emit_observers and ecs_emit_target_observers *)
Advance ==
  LET f == Head(frames)
      list == listening[f.table][f.event]
      found == /\ f.at <= f.count
               /\ targets[f.at].index = IndexOf[f.source] /\ targets[f.at].event = f.event
      base == TypeOf(f.source).base
      Continue(g) == frames' = <<g>> \o Tail(frames)
  IN  /\ ~UserRuns /\ UNCHANGED <<tableVars, queryVars, observerVars>>
      /\ \/ InList(f) /\ Continue(Call(f, list[f.at]))
         \/ f.stage = "list" /\ ~InList(f)
            /\ Continue(IF HasTargets(f.event) THEN TargetStage(f, f.entity)
                        ELSE [f EXCEPT !.stage = "done"])
         \/ f.stage = "targets" /\ found /\ Continue(Call(f, targets[f.at].observer))
         \/ f.stage = "targets" /\ ~found
            /\ Continue(IF base # None THEN TargetStage(f, base) ELSE [f EXCEPT !.stage = "done"])
         \/ f.stage = "done"
            /\ IF f.todo > 0 /\ Observed(listening, f.table, f.event)
               THEN Continue(Walk(listening, f.table, f.entity, f.event, f.todo - 1))
               ELSE frames' = Tail(frames)

(* A callback returns. *)
Return ==
  /\ frames # <<>> /\ UserRuns
  /\ frames' = [frames EXCEPT ![1].calling = None]
  /\ UNCHANGED <<tableVars, queryVars, observerVars>>

-----------------------------------------------------------------------------
(* Operations on entities. *)

(* Seeded defect: lists are made for a table that was there. *)
ListsAnew == listening' = Append(listening, [event \in Events |-> <<>>])

(* Seeded defect: a new table comes with empty lists. *)
ListsEmpty ==
  listening' = IF Len(types') = Len(types) THEN listening
               ELSE Append(listening, [event \in Events |-> <<>>])

(* Observers whose query takes in the new table join its lists, in the order  *)
(* in which their queries are offered the table.                             *)
ListsFollow ==
  LET t == Len(types')
      takes(s) == \E i \in DOMAIN queries'[s].cache : queries'[s].cache[i].id = t
      observer(s) == CHOOSE o \in DOMAIN observers : observers[o].alive /\ observers[o].query = s
      joined[n \in 0..Len(active)] ==
        IF n = 0 THEN [event \in Events |-> <<>>]
        ELSE IF ~takes(active[n]) THEN joined[n - 1]
        ELSE [joined[n - 1] EXCEPT ![observers[observer(active[n])].event] =
                Append(@, observer(active[n]))]
  IN  listening' = IF t = Len(types) THEN listening ELSE Append(listening, joined[Len(active)])

Quietly == ListsFollow /\ UNCHANGED <<observers, targets, unused, frames>>

(* An entity that gains components tells so in the table it has come to. *)
Loudly(e) ==
  LET t == place'[e].table
  IN  /\ ListsFollow /\ UNCHANGED <<observers, targets, unused>>
      /\ Deliver(e, t, OnAdd, Cardinality(types'[t].comps \ TypeOf(e).comps))

(* Entities whose event is being delivered, and their bases, are not killed:  *)
(* the walk goes on to their bases, and asserts that they are alive.         *)
Walked == UNION {{f.entity} \cup Lineage(f.entity) \cup Lineage(f.source) :
                   f \in Range(frames)}

(* Seeded defect: a kill forgets the observers of the entity. *)
EndTargetingNone(index) ==
  UNCHANGED <<targets, observers, unused>>

(* ecs_observer_fini_entity: all observers of the index end, in their order. *)
EndTargeting(index) ==
  LET from == LowerBound(index, 0)
      to == LowerBound(index + 1, 0)
      ended == [i \in 1..(to - from) |-> targets[from + i - 1].observer]
  IN  /\ targets' = SubSeq(targets, 1, from - 1) \o SubSeq(targets, to, Len(targets))
      /\ observers' = [o \in DOMAIN observers |-> IF o \in Range(ended) THEN Gone ELSE observers[o]]
      /\ unused' = Reverse(ended) \o unused

InTargets == \E f \in Range(frames) : f.stage = "targets"

KillEntity(e) ==
  /\ Kill(e) /\ e \notin Walked /\ EndTargeting(IndexOf[e])
  /\ InTargets => targets' = targets
  /\ frames' = [i \in DOMAIN frames |-> [frames[i] EXCEPT !.due = {o \in @ : observers'[o].alive}]]
  /\ UNCHANGED listening

-----------------------------------------------------------------------------
(* Operations on observers. *)

Slot == IF unused = <<>> THEN Len(observers) + 1 ELSE Head(unused)

Register(record) ==
  /\ Slot <= MaxObservers
  /\ observers' = IF unused = <<>> THEN Append(observers, record)
                  ELSE [observers EXCEPT ![Slot] = record]
  /\ unused' = IF unused = <<>> THEN unused ELSE Tail(unused)
  /\ frames' = [i \in DOMAIN frames |-> [frames[i] EXCEPT !.late = @ \cup {Slot}]]

(* ecs_observer_init without an entity.  A later event than those of a table   *)
(* would move its lists, which a walk does not survive.                      *)
ObserveAll(event, shape) ==
  /\ \A f \in Range(frames) : event <= f.event
  /\ QueryInit(shape) /\ UNCHANGED <<tableVars, targets>>
  /\ LET s == Last(active')
         matched == {queries'[s].cache[i].id : i \in DOMAIN queries'[s].cache}
     IN  /\ Register([alive |-> TRUE, enabled |-> TRUE, event |-> event, query |-> s, watched |-> None])
         /\ listening' = [t \in Tables |-> [listening[t] EXCEPT ![event] =
                            IF t \in matched THEN Append(@, Slot) ELSE @]]

(* ecs_observer_init with an entity: behind the entries of the same key *)
ObserveOne(event, e) ==
  LET behind == LowerBound(IndexOf[e], event + 1)
  IN  /\ e \in Living /\ ~InTargets
      /\ Register([alive |-> TRUE, enabled |-> TRUE, event |-> event, query |-> None, watched |-> e])
      /\ targets' = InsertAt(targets, behind, [index |-> IndexOf[e], event |-> event, observer |-> Slot])
      /\ UNCHANGED <<tableVars, queryVars, listening>>

(* ecs_observer_fini *)
Leave(o) ==
  IF Global(o)
  THEN LET cache == queries[observers[o].query].cache
       IN  /\ QueryFini(observers[o].query) /\ UNCHANGED targets
           /\ listening' = [t \in Tables |-> [listening[t] EXCEPT ![observers[o].event] =
                              IF \E i \in DOMAIN cache : cache[i].id = t
                              THEN RemoveFirst(@, o) ELSE @]]
  ELSE /\ targets' = RemoveFirst(targets, [index |-> IndexOf[observers[o].watched],
                                            event |-> observers[o].event, observer |-> o])
       /\ UNCHANGED <<queryVars, listening>>

ObserverFini(o) ==
  /\ IsAlive(o)
  /\ \/ EndInCallback
     \/ \A f \in Range(frames) : IF Global(o) THEN o \notin Range(listening[f.table][f.event])
                                 ELSE f.stage # "targets"
  /\ Leave(o)
  /\ observers' = [observers EXCEPT ![o] = Gone] /\ unused' = <<o>> \o unused
  /\ frames' = [i \in DOMAIN frames |-> [frames[i] EXCEPT !.due = @ \ {o}]]
  /\ UNCHANGED tableVars

(* ecs_observer_enable and ecs_observer_disable *)
SetEnabled(o, on) ==
  /\ IsAlive(o) /\ observers[o].enabled # on
  /\ observers' = [observers EXCEPT ![o].enabled = on]
  /\ frames' = [i \in DOMAIN frames |-> [frames[i] EXCEPT !.due = @ \ {o}]]
  /\ UNCHANGED <<tableVars, queryVars, listening, targets, unused>>

(* ecs_observer_trigger *)
Trigger(e, event) ==
  /\ e \in Living /\ Observed(listening, place[e].table, event)
  /\ UNCHANGED <<tableVars, queryVars, observerVars>>
  /\ Deliver(e, place[e].table, event, 1)

-----------------------------------------------------------------------------
ObserversInit ==
  /\ Init /\ observers = <<>> /\ listening = <<[event \in Events |-> <<>>]>>
  /\ targets = <<>> /\ unused = <<>> /\ frames = <<>>

UserStep ==
  \/ \E e \in Entities :
       \/ New(e) /\ Quietly
       \/ KillEntity(e)
       \/ \E c \in Comps \cup {Abstract} : AddComp(e, c) /\ Loudly(e)
       \/ \E b \in Entities : IsA(e, b) /\ Loudly(e)
       \/ \E event \in Events : Trigger(e, event) \/ ObserveOne(event, e)
  \/ \E event \in Events, shape \in Shapes : ObserveAll(event, shape)
  \/ \E o \in DOMAIN observers : ObserverFini(o) \/ SetEnabled(o, TRUE) \/ SetEnabled(o, FALSE)

ObserversNext == Advance \/ Return \/ (UserRuns /\ UserStep)

ObserversSpec == ObserversInit /\ [][ObserversNext]_allVars

-----------------------------------------------------------------------------
(* Properties. *)

ObserversTypeOK ==
  /\ \A o \in DOMAIN observers : IsAlive(o) =>
       observers[o] \in [alive : {TRUE}, enabled : BOOLEAN, event : Events,
                         query : DOMAIN queries \cup {None}, watched : Entities \cup {None}]
  /\ Len(listening) = Len(types)
  /\ \A t \in Tables : listening[t] \in [Events -> Seq(DOMAIN observers)]
  /\ targets \in Seq([index : Nat, event : Events, observer : DOMAIN observers])
  /\ unused \in Seq(DOMAIN observers) /\ Len(frames) <= MaxDepth

(* The list of a table for an event names each observer alive whose query      *)
(* matches the table, once: whichever of table and observer came first, and    *)
(* whatever slots of observers and queries were used again since.  Where a     *)
(* base has changed since the table was made, the code keeps what it found.   *)
ListsExact ==
  \A t \in Tables, event \in Events :
    /\ t \notin changed =>
         Range(listening[t][event]) =
           {o \in DOMAIN observers : /\ IsAlive(o) /\ Global(o) /\ observers[o].event = event
                                     /\ Accepts(queries[observers[o].query].shape, types[t])}
    /\ Len(listening[t][event]) = Cardinality(Range(listening[t][event]))

(* The entries of targeted observers are sorted, one for each observer, and    *)
(* watch a living entity, the one the observer was made for: an entity with    *)
(* the index of a dead one is not watched by the observers of the dead.      *)
TargetsExact ==
  /\ \A i, j \in DOMAIN targets : i < j =>
       \/ targets[i].index < targets[j].index
       \/ targets[i].index = targets[j].index /\ targets[i].event <= targets[j].event
  /\ \A o \in DOMAIN observers : IsAlive(o) /\ ~Global(o) =>
       /\ observers[o].watched \in Living
       /\ Cardinality({i \in DOMAIN targets : targets[i].observer = o}) = 1
  /\ \A i \in DOMAIN targets : LET o == targets[i].observer
                               IN  /\ IsAlive(o) /\ observers[o].event = targets[i].event
                                   /\ IndexOf[observers[o].watched] = targets[i].index

(* A delivery calls each observer at most once, and no global observer that    *)
(* was registered while it was under way.                                    *)
CalledOnce ==
  \A f \in Range(frames) : /\ Len(f.heard) = Cardinality(Range(f.heard))
                           /\ f.calling \in f.late => ~Global(f.calling)

(* When a delivery ends, every observer of the table, of the entity or of its  *)
(* bases that was enabled when it began has been called, unless it was         *)
(* disabled or ended, or watches a base the entity has left.                 *)
EveryListenerCalled == \A f \in Range(frames) : f.stage = "done" => f.due = {}
=============================================================================
