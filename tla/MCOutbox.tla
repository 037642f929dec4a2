------------------------------ MODULE MCOutbox ------------------------------
(* Small instances of Outbox for TLC.                                      *)
EXTENDS OutboxRefinement, TLC

Symmetric == Permutations(Ops) \cup Permutations(Relays)
=============================================================================
