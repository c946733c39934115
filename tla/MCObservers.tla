---------------------------- MODULE MCObservers ----------------------------
(* An instance of Observers: P is copied from a base, and the queries of       *)
(* observers match it; Abstract brings P along, so that a base gains two       *)
(* components at once; the third handle takes over the index of the first.   *)
EXTENDS Observers

MCIndexOf == [e \in Entities |-> IF e = 3 THEN 1 ELSE e]
MCComps == {"P"}
MCShared == {}
MCRequires == [c \in MCComps \cup {Abstract} |-> MCComps \ {c}]
Matching == [reads |-> {"P"}, writes |-> {}, optional |-> {}, without |-> {}, ordered |-> FALSE]
MCShapes == {Matching}
=============================================================================
