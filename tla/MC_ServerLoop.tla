---------------------------- MODULE MC_ServerLoop ----------------------------
(* Model-checking instance of ServerLoop. *)
EXTENDS ServerLoop, SequencesExt

\* config.known_clients lists the known clients in some order.
Order == SetToSeq(KnownNodes)

=============================================================================
