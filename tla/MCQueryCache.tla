---------------------------- MODULE MCQueryCache ----------------------------
(* An instance of QueryCache: P is inherited by reference, comes with         *)
(* Abstract, and is read by one query and optional, in the order of bases,    *)
(* for another.                                                              *)
EXTENDS QueryCache

MCIndexOf == [e \in Entities |-> e]
MCComps == {"P"}
MCShared == {"P"}
MCRequires == [c \in MCComps \cup {Abstract} |-> MCComps \ {c}]
Readers == [reads |-> {"P"}, writes |-> {}, optional |-> {}, without |-> {}, ordered |-> FALSE]
Sorted == [reads |-> {}, writes |-> {}, optional |-> {"P"}, without |-> {}, ordered |-> TRUE]
MCShapes == {Readers, Sorted}

(* The first tables may be any General ones.  There are more only behind the  *)
(* base 2 of entity 1, which loses P, gets the base 3 in table 5, and so       *)
(* changes what the table of a second inheritor, made last, inherits.  There   *)
(* are two queries at a time only with fewer tables.                         *)
General == 4
Prelude == << [comps |-> {}, base |-> None], [comps |-> {"P", Abstract}, base |-> None],
              [comps |-> {Abstract}, base |-> None] >>
Follows ==
  /\ IsPrefix(Prelude, types') /\ types'[4] = [comps |-> {}, base |-> 2]
  /\ Len(types') > 5 => types'[5] = [comps |-> {Abstract}, base |-> 3] /\ types'[6].base = 2
MCNext ==
  /\ Next /\ (Len(types') <= General \/ Follows)
  /\ Len(queries') > 1 => Len(types') < General
MCSpec == Init /\ [][MCNext]_vars
=============================================================================
