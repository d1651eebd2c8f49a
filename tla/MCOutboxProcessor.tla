-------------------------- MODULE MCOutboxProcessor --------------------------
(* Small instances of OutboxProcessor for TLC. *)
EXTENDS OutboxProcessor, TLC

Symmetry == Permutations(Processors) \cup Permutations(Events)
=============================================================================
