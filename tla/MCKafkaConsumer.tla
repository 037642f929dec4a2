---------------------------- MODULE MCKafkaConsumer ----------------------------
EXTENDS KafkaConsumer, TLC

(* The processes of a group are interchangeable.                           *)
Symmetric == Permutations(Members)
=============================================================================
