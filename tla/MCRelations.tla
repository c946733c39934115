----------------------------- MODULE MCRelations -----------------------------
(* Instances of Relations for TLC: two relations, created in this order.   *)
EXTENDS Relations
CONSTANTS own, link
OwnDeletes == [r \in Relations |-> IF r = own THEN "delete" ELSE "remove"]
BothDelete == [r \in Relations |-> "delete"]
BothRemove == [r \in Relations |-> "remove"]
OwnFirst == [r \in Relations |-> IF r = own THEN 1 ELSE 3]
==============================================================================
