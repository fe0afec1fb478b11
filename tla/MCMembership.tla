---------------------------- MODULE MCMembership ----------------------------
(***************************************************************************)
(* TLC instances of LallyMembership: a cluster whose nodes share one seed, *)
(* which itself has none.                                                  *)
(***************************************************************************)
EXTENDS LallyMembership

CONSTANTS First,   \* the seed
          Second   \* the node the clients talk to

Star == [n \in Node |-> IF n = First THEN None ELSE First]

AtSecond == [w \in Write |-> Second]

=============================================================================
