----------------------------- MODULE MCPersist -----------------------------
(* Small instances of Persist for TLC. *)
EXTENDS Persist, TLC

\* Model values of the instances.
CONSTANTS a, b, c, th1, th2

OwnsAll == [th \in Threads |-> Objs]
OwnsDisjoint == (th1 :> {a}) @@ (th2 :> {b, c})

ValSymmetry == Permutations(Vals)
=============================================================================
