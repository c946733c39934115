---------------------------- MODULE RelationGraph ----------------------------
(***************************************************************************)
(* What relations promise (docs/src/content/docs/relationships.mdx): a     *)
(* graph in which every entity has at most one target per relation, and in *)
(* which a deleted target takes its sources with it or leaves them without *)
(* the edge.  Each operator is one call made alone, in one step.           *)
(***************************************************************************)
EXTENDS FiniteSets, Integers

CONSTANTS Entities, Relations, NoEntity,
  OnDelete  \* desc.on_delete_target of each relation: "delete" or "remove"

ASSUME GraphAssumption ==
  /\ NoEntity \notin Entities /\ IsFiniteSet(Entities)
  /\ OnDelete \in [Relations -> {"delete", "remove"}]

Graphs == [alive : SUBSET Entities,
           target : [Relations -> [Entities -> Entities \cup {NoEntity}]]]

(* The n-th entity reached from t along the targets of one relation.       *)
Walk(target, t) ==
  LET w[n \in 0..Cardinality(Entities)] ==
        IF n = 0 THEN t ELSE IF w[n - 1] = NoEntity THEN NoEntity ELSE target[w[n - 1]]
  IN  w
Reaches(target, t, e) == \E n \in 0..Cardinality(Entities) : Walk(target, t)[n] = e

(* Those who die with a set, and those who die with them in turn.          *)
Owned(g, D) == D \cup {x \in g.alive : \E r \in Relations : OnDelete[r] = "delete" /\ g.target[r][x] \in D}
Deleted(g, e) ==
  LET d[n \in Nat] == IF n = 0 THEN {e} ELSE Owned(g, d[n - 1])
  IN  d[Cardinality(Entities)]

Relate(g, e, r, t) == [g EXCEPT !.target[r][e] = t]
Kill(g, e) ==
  LET D == Deleted(g, e)
  IN  [alive  |-> g.alive \ D,
       target |-> [r \in Relations |-> [x \in Entities |->
                     IF x \in D \/ g.target[r][x] \in D THEN NoEntity ELSE g.target[r][x]]]]
==============================================================================
