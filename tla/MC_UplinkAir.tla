---------------------------- MODULE MC_UplinkAir ----------------------------
(* Model-checking instance of UplinkAir. *)
EXTENDS UplinkAir, SequencesExt, TLC

\* config.known_clients lists the known clients in some order.
Order == SetToSeq(KnownNodes)

\* Without feedback windows the clients are interchangeable.
Clients == Permutations(KnownNodes)

=============================================================================
