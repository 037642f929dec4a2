--------------------------- MODULE MCKafkaProducer ---------------------------
(* Small instances of KafkaProducer for TLC.                               *)
EXTENDS KafkaProducer, TLC

Symmetric == Permutations(Calls) \cup Permutations(Producers)
=============================================================================
