---------------------------- MODULE MCReplication ----------------------------
(***************************************************************************)
(* TLC instances of LallyReplication: every node is connected to every     *)
(* other, as a cluster is once its joins are over.                         *)
(***************************************************************************)
EXTENDS LallyReplication, TLC

FullMesh == [n \in Node |-> Node \ {n}]

Symmetry == Permutations(Node) \cup Permutations(Value)
                               \cup Permutations(Adds)

=============================================================================
