----------------------------- MODULE MCRealTime -----------------------------
(***************************************************************************)
(* TLC instances of LallyRealTime on a fully connected cluster.            *)
(***************************************************************************)
EXTENDS LallyRealTime, TLC

FullMesh == [n \in Node |-> Node \ {n}]

Symmetry == Permutations(Node) \cup Permutations(Value)
                               \cup Permutations(Adds) \cup Permutations(Gets)

=============================================================================
