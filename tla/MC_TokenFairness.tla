-------------------------- MODULE MC_TokenFairness --------------------------
(* Model-checking instance of TokenFairness. *)
EXTENDS TokenFairness, TLC

\* The nodes that are neither measured nor counted are interchangeable.
Others == Permutations(KnownNodes \ {Waiter, Overtaker})

=============================================================================
