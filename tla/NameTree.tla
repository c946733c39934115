------------------------------- MODULE NameTree -------------------------------
(* What naming.c promises: entities form a tree, a parent has at most one     *)
(* child of a name, and looking a name up under a parent finds that child.    *)
(* An entity put where another has the name takes its place: the other one    *)
(* dies, with everything below it.                                           *)
EXTENDS Naturals, FiniteSets

CONSTANTS Entities, Names

NoName == "none"
Top == 0         \* the parent of entities without one

VARIABLES living, parent, name, lookup

treeVars == <<living, parent, name, lookup>>
Keys == (Entities \cup {Top}) \X Names

(* e, its parent, the parent of that, ... *)
Line(e) ==
  LET up[n \in Nat] == IF n = 0 THEN e ELSE LET d == up[n - 1] IN IF d = Top THEN Top ELSE parent[d]
  IN  {up[n] : n \in 0..Cardinality(Entities)} \ {Top}

Below(e) == {d \in living : e \in Line(d)}

(* What every lookup finds, given the entities alive and where they are. *)
Directory(alive, par, nam) ==
  [k \in Keys |-> IF \E e \in alive : <<par[e], nam[e]>> = k
                  THEN CHOOSE e \in alive : <<par[e], nam[e]>> = k ELSE Top]

Init ==
  /\ living = {} /\ lookup = [k \in Keys |-> Top]
  /\ parent = [e \in Entities |-> Top] /\ name = [e \in Entities |-> NoName]

Occupant(e, p, n) == IF n = NoName \/ lookup[<<p, n>>] = e THEN Top ELSE lookup[<<p, n>>]

(* Entity e, made now or before, gets the parent p and the name n. *)
Put(e, p, n) ==
  LET gone == IF Occupant(e, p, n) = Top THEN {} ELSE Below(Occupant(e, p, n))
  IN  /\ p \in living \cup {Top} /\ e \notin Line(p) /\ {e, p} \cap gone = {}
      /\ living' = (living \cup {e}) \ gone
      /\ parent' = [d \in Entities |-> IF d = e THEN p ELSE IF d \in gone THEN Top ELSE parent[d]]
      /\ name' = [d \in Entities |-> IF d = e THEN n ELSE IF d \in gone THEN NoName ELSE name[d]]
      /\ lookup' = Directory(living', parent', name')

Kill(e) ==
  /\ e \in living /\ living' = living \ Below(e)
  /\ parent' = [d \in Entities |-> IF d \in Below(e) THEN Top ELSE parent[d]]
  /\ name' = [d \in Entities |-> IF d \in Below(e) THEN NoName ELSE name[d]]
  /\ lookup' = Directory(living', parent', name')

Next == \E e \in Entities :
          Kill(e) \/ \E p \in Entities \cup {Top}, n \in Names \cup {NoName} : Put(e, p, n)

Spec == Init /\ [][Next]_treeVars
=============================================================================
