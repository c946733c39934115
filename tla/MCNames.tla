------------------------------- MODULE MCNames -------------------------------
(* An instance of Names: hashes that collide under different parents.        *)
EXTENDS Names

MCHash == [k \in (Entities \cup {Top}) \X Names |-> k[1] \div 2 + (IF k[2] = "a" THEN 3 ELSE 0)]
=============================================================================
