-------------------------- MODULE MCCommandBuffer --------------------------
(* Instances of CommandBuffer for TLC: a base and the entities that may    *)
(* inherit from it; Q requires P, both copied from a base.                 *)
EXTENDS CommandBuffer

CONSTANTS b, e1, e2, e3, P, Q

MCRequires == (P :> {}) @@ (Q :> {P})

Bare == [c \in Components |-> Absent]
WithP == [Bare EXCEPT ![P] = 2]

\* A base with a value for P, and inheritors with nothing or with a P of their own.
MCStarts == {[e \in Entities |-> IF e = b THEN WithP ELSE own] : own \in {Bare, WithP}}

Alike == Permutations({e1, e2, e3} \cap Entities)
=============================================================================
