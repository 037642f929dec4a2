------------------------- MODULE TransactionalOutbox -------------------------
(***************************************************************************)
(* What an outbox promises, without relays, locks, sessions or faults:     *)
(* a change and its messages become durable in one step, a message may be  *)
(* announced any number of times while it is not retired or after it was   *)
(* announced once, and it is retired only after it was announced or once   *)
(* its subject was withdrawn.                                              *)
(***************************************************************************)
CONSTANTS Ops, Consumers, Withdrawable

VARIABLES
  recorded,   \* requests whose messages are or were in the outbox
  live,       \* requests whose subject (user, publication) exists
  waiting,    \* messages to be relayed
  announced   \* messages relayed at least once

vars == <<recorded, live, waiting, announced>>

Messages(o) == {o} \X Consumers

Init == recorded = {} /\ live = {} /\ waiting = {} /\ announced = {}

(* The messages of a request and its subject become durable together; the  *)
(* subject may be missing, the messages may not.                           *)
Record(o) ==
  /\ o \notin recorded
  /\ recorded' = recorded \cup {o}
  /\ waiting' = waiting \cup Messages(o)
  /\ live' \in {live, live \cup {o}}
  /\ UNCHANGED announced

Withdraw(o) ==
  /\ Withdrawable
  /\ o \in live
  /\ live' = live \ {o}
  /\ UNCHANGED <<recorded, waiting, announced>>

Announce(m) ==
  /\ m \in waiting \cup announced
  /\ announced' = announced \cup {m}
  /\ UNCHANGED <<recorded, live, waiting>>

Retire(m) ==
  /\ m \in waiting
  /\ m \in announced \/ (Withdrawable /\ m[1] \notin live)
  /\ waiting' = waiting \ {m}
  /\ UNCHANGED <<recorded, live, announced>>

Next ==
  \/ \E o \in Ops : Record(o) \/ Withdraw(o)
  \/ \E m \in Ops \X Consumers : Announce(m) \/ Retire(m)

Spec == Init /\ [][Next]_vars
=============================================================================
