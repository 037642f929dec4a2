--------------------------- MODULE MCSocketManager ---------------------------
(* Small instances of SocketManager for TLC.                               *)
EXTENDS SocketManager, TLC

Symmetric == Permutations(Users) \cup Permutations(Slots)
=============================================================================
