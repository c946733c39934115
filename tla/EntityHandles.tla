---------------------------- MODULE EntityHandles ----------------------------
(***************************************************************************)
(* What ecs_new, ecs_kill and ecs_is_alive promise: a new handle is one    *)
(* that was never given out before, and a killed handle stays dead.        *)
(***************************************************************************)
CONSTANT Handles

VARIABLES alive, dead
vars == <<alive, dead>>

Init == alive = {} /\ dead = {}
New == \E h \in Handles \ (alive \cup dead) : alive' = alive \cup {h} /\ dead' = dead
Kill == \E h \in alive : alive' = alive \ {h} /\ dead' = dead \cup {h}
Spec == Init /\ [][New \/ Kill]_vars
==============================================================================
