-------------------------- MODULE OutboxRefinement --------------------------
(* The requests and relays of Outbox implement TransactionalOutbox.        *)
EXTENDS Outbox

Promise == INSTANCE TransactionalOutbox WITH
  Withdrawable <- Table = "events_outbox",
  recorded <- {o \in Ops : "outbox" \in durable[o]},
  live <- business,
  waiting <- table,
  announced <- {r \in Rows : handed[r] > 0}

(* Every behaviour of requests, relays and faults is one of the abstract   *)
(* outbox: rows appear only with the commit of a request, and no relay     *)
(* retires a row that it, or another relay, has not announced first.       *)
ImplementsPromise == Promise!Spec
=============================================================================
