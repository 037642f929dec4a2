------------------------------ MODULE MCDbClient ------------------------------
(* Small instances of DbClient for TLC.                                    *)
EXTENDS DbClient, TLC

Symmetric == Permutations(Engines) \cup Permutations(Requests)
=============================================================================
