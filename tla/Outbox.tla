------------------------------- MODULE Outbox -------------------------------
(***************************************************************************)
(* One outbox table of the monolith, the transactions that write it and    *)
(* the relay loops that empty it.                                          *)
(*                                                                         *)
(*   Table = "users_outbox":  register_user inserts a user and its row;    *)
(*                            processing_users_outbox_task relays it.      *)
(*   Table = "events_outbox": create_post inserts a publication and one    *)
(*                            row per follower; processing_events_task     *)
(*                            re-reads the publication and relays the row. *)
(*                                                                         *)
(* A writer is one request, named by the business row it inserts (a user   *)
(* or a publication).  A relay is the loop of one application process; it  *)
(* hands messages to the Kafka producer of that process, which keeps them  *)
(* in memory until a broker has them (wait_acc is False).  The requests    *)
(* and consumers of the process share that producer: whoever's send it     *)
(* refuses stops it, and what it held may be gone (KafkaProducer has the   *)
(* steps of start() and stop(); here a stop is a span of time).            *)
(***************************************************************************)
EXTENDS Naturals, FiniteSets

CONSTANTS
  Ops,        \* the requests that write: one user or one publication each
  Consumers,  \* recipients of the rows of a request: followers, or the CUD topic
  Relays,     \* application processes, one relay loop each
  Table,      \* which of the two outbox tables this is
  Tries,      \* attempts of execute_stmt at one statement
  MaxFaults,  \* bound on the faults and refused sends of a behaviour
  NoRow,      \* a relay that holds no row
  NoRelay     \* a row no relay has locked

ASSUME OutboxAssumption ==
  /\ Table \in {"users_outbox", "events_outbox"}
  /\ IsFiniteSet(Relays)
  /\ Tries \in Nat \ {0}
  /\ MaxFaults \in Nat
  /\ NoRow \notin Ops \X Consumers
  /\ NoRelay \notin Relays
  /\ Ops \cap Relays = {}

(* A row is the message of one request for one consumer. *)
Rows == Ops \X Consumers
RowsOf(o) == {o} \X Consumers
OpOf(r) == r[1]

VARIABLES
  wpc,       \* control state of the request
  wrote,     \* what the open database transaction of the request has inserted
  clock,     \* start times handed out to database transactions
  stamp,     \* NOW() of the transaction that inserted the rows (created_at)
  durable,   \* history: what the commit of the request made durable
  business,  \* committed users or publications
  table,     \* committed rows of the outbox table
  lock,      \* the relay whose transaction holds the row lock
  rpc,       \* control state of the relay
  cur,       \* the row the relay works on
  tries,     \* failed attempts at the current statement, per session
  handed,    \* history: how often a row was given to a producer
  buffer,    \* messages in the memory of the producer of a process
  stopping,  \* another coroutine of the process is stopping the producer
  topic,     \* messages a broker has
  faults,    \* history: faults so far, refused sends not among them
  refusals,  \* history: sends, or starts, that the producer refused
  stopped    \* history: messages that a stop of their producer dropped

writerVars == <<wpc, wrote, clock, stamp, durable>>
relayVars  == <<lock, rpc, cur, handed>>
producerVars == <<buffer, stopping, topic, stopped>>
costs == <<faults, refusals>>
vars == <<wpc, wrote, clock, stamp, durable, business, table, lock, rpc, cur,
          tries, handed, buffer, stopping, topic, faults, refusals, stopped>>

TypeOK ==
  /\ wpc \in [Ops -> {"idle", "inserted", "prepared", "done", "failed"}]
  /\ wrote \in [Ops -> SUBSET {"business", "outbox"}]
  /\ clock \in Nat
  /\ stamp \in [Ops -> Nat]
  /\ durable \in [Ops -> SUBSET {"business", "outbox"}]
  /\ business \subseteq Ops
  /\ table \subseteq Rows
  /\ lock \in [Rows -> Relays \cup {NoRelay}]
  /\ rpc \in [Relays -> {"select", "send", "refused", "remove", "commit", "sleep"}]
  /\ cur \in [Relays -> Rows \cup {NoRow}]
  /\ tries \in [Ops \cup Relays -> 0..(Tries - 1)]
  /\ handed \in [Rows -> Nat]
  /\ buffer \in [Relays -> SUBSET Rows]
  /\ stopping \in [Relays -> BOOLEAN]
  /\ topic \subseteq Rows
  /\ faults \in 0..MaxFaults
  /\ refusals \in 0..MaxFaults
  /\ stopped \subseteq Rows

Init ==
  /\ wpc = [o \in Ops |-> "idle"]
  /\ wrote = [o \in Ops |-> {}]
  /\ clock = 0
  /\ stamp = [o \in Ops |-> 0]
  /\ durable = [o \in Ops |-> {}]
  /\ business = {}
  /\ table = {}
  /\ lock = [r \in Rows |-> NoRelay]
  /\ rpc = [w \in Relays |-> "select"]
  /\ cur = [w \in Relays |-> NoRow]
  /\ tries = [s \in Ops \cup Relays |-> 0]
  /\ handed = [r \in Rows |-> 0]
  /\ buffer = [w \in Relays |-> {}]
  /\ stopping = [w \in Relays |-> FALSE]
  /\ topic = {}
  /\ faults = 0
  /\ refusals = 0
  /\ stopped = {}

MoreTrouble == faults + refusals < MaxFaults
Fault == MoreTrouble /\ faults' = faults + 1 /\ UNCHANGED refusals
Refusal == MoreTrouble /\ refusals' = refusals + 1 /\ UNCHANGED faults

-----------------------------------------------------------------------------
(* The request: register_user, or create_post, in one unit of work.        *)

(* Broken variant of InsertBusiness: add() commits the row by itself.      *)
AddCommits(o) ==
  /\ wpc[o] = "idle"
  /\ wpc' = [wpc EXCEPT ![o] = "inserted"]
  /\ wrote' = [wrote EXCEPT ![o] = {"business"}]
  /\ durable' = [durable EXCEPT ![o] = {"business"}]
  /\ business' = business \cup {o}
  /\ UNCHANGED <<clock, stamp, table, relayVars, tries, producerVars, costs>>

(* INSERT INTO users / users_publications.  The first statement starts the *)
(* database transaction, so NOW() is fixed here.                           *)
InsertBusiness(o) ==
  /\ wpc[o] = "idle"
  /\ wpc' = [wpc EXCEPT ![o] = "inserted"]
  /\ wrote' = [wrote EXCEPT ![o] = {"business"}]
  /\ clock' = clock + 1
  /\ stamp' = [stamp EXCEPT ![o] = clock + 1]
  /\ UNCHANGED <<durable, business, table, relayVars, tries, producerVars, costs>>

(* INSERT INTO the outbox table.  After a reconnection the session is in a *)
(* new transaction, with a NOW() of its own.                               *)
InsertOutbox(o) ==
  /\ wpc[o] = "inserted"
  /\ wpc' = [wpc EXCEPT ![o] = "prepared"]
  /\ wrote' = [wrote EXCEPT ![o] = @ \cup {"outbox"}]
  /\ IF wrote[o] = {}
       THEN clock' = clock + 1 /\ stamp' = [stamp EXCEPT ![o] = clock + 1]
       ELSE UNCHANGED <<clock, stamp>>
  /\ tries' = [tries EXCEPT ![o] = 0]
  /\ UNCHANGED <<durable, business, table, relayVars, producerVars, costs>>

(* Broken variant of WriterReconnect: the attempts are not counted down.   *)
RetriesWithoutLimit(o) ==
  /\ wpc[o] = "inserted"
  /\ Fault
  /\ tries' = [tries EXCEPT ![o] = @ + 1]
  /\ wrote' = [wrote EXCEPT ![o] = {}]
  /\ UNCHANGED <<wpc, clock, stamp, durable, business, table, relayVars, producerVars>>

(* The INSERT into the outbox fails with a retryable error: the session is *)
(* rolled back, and the same statement alone is tried again.               *)
WriterReconnect(o) ==
  /\ wpc[o] = "inserted"
  /\ tries[o] < Tries - 1
  /\ Fault
  /\ tries' = [tries EXCEPT ![o] = @ + 1]
  /\ wrote' = [wrote EXCEPT ![o] = {}]
  /\ UNCHANGED <<wpc, clock, stamp, durable, business, table, relayVars, producerVars>>

(* The unit of work commits what the session's transaction holds.          *)
WriterCommit(o) ==
  /\ wpc[o] = "prepared"
  /\ wpc' = [wpc EXCEPT ![o] = "done"]
  /\ durable' = [durable EXCEPT ![o] = wrote[o]]
  /\ business' = IF "business" \in wrote[o] THEN business \cup {o} ELSE business
  /\ table' = IF "outbox" \in wrote[o] THEN table \cup RowsOf(o) ELSE table
  /\ UNCHANGED <<wrote, clock, stamp, relayVars, tries, producerVars, costs>>

(* Any exception in the block (unknown user, last try failed, Kafka down,  *)
(* commit refused, process gone) rolls the transaction back.               *)
WriterAbort(o) ==
  /\ wpc[o] \in {"idle", "inserted", "prepared"}
  /\ wpc' = [wpc EXCEPT ![o] = "failed"]
  /\ wrote' = [wrote EXCEPT ![o] = {}]
  /\ UNCHANGED <<clock, stamp, durable, business, table, relayVars, tries,
                 producerVars, costs>>

(* remove_post deletes a committed publication; its outbox rows stay.      *)
RemovePost(o) ==
  /\ Table = "events_outbox"
  /\ o \in business
  /\ business' = business \ {o}
  /\ UNCHANGED <<writerVars, table, relayVars, tries, producerVars, costs>>

-----------------------------------------------------------------------------
(* The relay loop.                                                         *)

Unlocked == {r \in table : lock[r] = NoRelay}

Release(w) == lock' = [r \in Rows |-> IF lock[r] = w THEN NoRelay ELSE lock[r]]

(* Broken variant of RelayRollsBack: the session is left open, and with it *)
(* the row lock.                                                           *)
KeepsRowLock(w) ==
  /\ UNCHANGED lock
  /\ rpc' = [rpc EXCEPT ![w] = "sleep"]
  /\ cur' = [cur EXCEPT ![w] = NoRow]
  /\ tries' = [tries EXCEPT ![w] = 0]

(* The transaction of w ends without effect; the task sleeps and restarts. *)
RelayRollsBack(w) ==
  /\ Release(w)
  /\ rpc' = [rpc EXCEPT ![w] = "sleep"]
  /\ cur' = [cur EXCEPT ![w] = NoRow]
  /\ tries' = [tries EXCEPT ![w] = 0]

(* Broken variant of RelaySelect: a plain SELECT, without FOR UPDATE.      *)
SelectWithoutLock(w) ==
  /\ rpc[w] = "select"
  /\ \E r \in table :
       /\ \A s \in table : stamp[OpOf(r)] <= stamp[OpOf(s)]
       /\ cur' = [cur EXCEPT ![w] = r]
  /\ rpc' = [rpc EXCEPT ![w] = "send"]
  /\ UNCHANGED <<writerVars, business, table, lock, tries, handed, producerVars, costs>>

(* SELECT ... ORDER BY created_at LIMIT 1 FOR UPDATE SKIP LOCKED           *)
RelaySelect(w) ==
  /\ rpc[w] = "select"
  /\ \E r \in Unlocked :
       /\ \A s \in Unlocked : stamp[OpOf(r)] <= stamp[OpOf(s)]
       /\ lock' = [lock EXCEPT ![r] = w]
       /\ cur' = [cur EXCEPT ![w] = r]
  /\ rpc' = [rpc EXCEPT ![w] = "send"]
  /\ UNCHANGED <<writerVars, business, table, tries, handed, producerVars, costs>>

(* No row to take: the transaction commits and the loop sleeps.            *)
RelayIdle(w) ==
  /\ rpc[w] = "select"
  /\ Unlocked = {}
  /\ rpc' = [rpc EXCEPT ![w] = "sleep"]
  /\ UNCHANGED <<writerVars, business, table, lock, cur, tries, handed, producerVars, costs>>

(* The end of a sleep of the loop, or of the backoff of a restarted task.  *)
RelayWake(w) ==
  /\ rpc[w] = "sleep"
  /\ rpc' = [rpc EXCEPT ![w] = "select"]
  /\ UNCHANGED <<writerVars, business, table, lock, cur, tries, handed, producerVars, costs>>

(* Broken variant of Hand: the memory of the producer holds one message.   *)
HandsOverLast(w) ==
  /\ rpc' = [rpc EXCEPT ![w] = "remove"]
  /\ handed' = [handed EXCEPT ![cur[w]] = @ + 1]
  /\ buffer' = [buffer EXCEPT ![w] = {cur[w]}]
  /\ tries' = [tries EXCEPT ![w] = 0]
  /\ UNCHANGED <<writerVars, business, table, lock, cur, stopping, topic, stopped, costs>>

(* send_message, without waiting for the broker.                           *)
Hand(w) ==
  /\ rpc' = [rpc EXCEPT ![w] = "remove"]
  /\ handed' = [handed EXCEPT ![cur[w]] = @ + 1]
  /\ buffer' = [buffer EXCEPT ![w] = @ \cup {cur[w]}]
  /\ tries' = [tries EXCEPT ![w] = 0]
  /\ UNCHANGED <<writerVars, business, table, lock, cur, stopping, topic, stopped, costs>>

(* A user row is sent as it is.                                            *)
RelaySendUser(w) ==
  /\ Table = "users_outbox"
  /\ rpc[w] = "send"
  /\ Hand(w)

(* An event row is sent if its publication can still be read ...           *)
RelaySendPost(w) ==
  /\ Table = "events_outbox"
  /\ rpc[w] = "send"
  /\ OpOf(cur[w]) \in business
  /\ Hand(w)

(* Broken variant of RelayDropPost: any answer counts as NOT_FOUND.        *)
DropsReadablePost(w) ==
  /\ Table = "events_outbox"
  /\ rpc[w] = "send"
  /\ rpc' = [rpc EXCEPT ![w] = "remove"]
  /\ tries' = [tries EXCEPT ![w] = 0]
  /\ UNCHANGED <<writerVars, business, table, lock, cur, handed, producerVars, costs>>

(* ... and otherwise NOT_FOUND is swallowed by async_use_case, and the row *)
(* is removed unsent.                                                      *)
RelayDropPost(w) ==
  /\ Table = "events_outbox"
  /\ rpc[w] = "send"
  /\ OpOf(cur[w]) \notin business
  /\ rpc' = [rpc EXCEPT ![w] = "remove"]
  /\ tries' = [tries EXCEPT ![w] = 0]
  /\ UNCHANGED <<writerVars, business, table, lock, cur, handed, producerVars, costs>>

(* DELETE ... RETURNING *: waits while another transaction has the row.    *)
RelayRemove(w) ==
  /\ rpc[w] = "remove"
  /\ cur[w] \in table
  /\ lock[cur[w]] \in {w, NoRelay}
  /\ lock' = [lock EXCEPT ![cur[w]] = w]
  /\ rpc' = [rpc EXCEPT ![w] = "commit"]
  /\ tries' = [tries EXCEPT ![w] = 0]
  /\ UNCHANGED <<writerVars, business, table, cur, handed, producerVars, costs>>

(* The DELETE found no row: DatabaseInstanceNotFoundError ends the task.   *)
RelayRemoveMisses(w) ==
  /\ rpc[w] = "remove"
  /\ cur[w] \notin table
  /\ RelayRollsBack(w)
  /\ UNCHANGED <<writerVars, business, table, handed, producerVars, costs>>

RelayCommit(w) ==
  /\ rpc[w] = "commit"
  /\ table' = table \ {cur[w]}
  /\ Release(w)
  /\ cur' = [cur EXCEPT ![w] = NoRow]
  /\ rpc' = [rpc EXCEPT ![w] = "select"]
  /\ UNCHANGED <<writerVars, business, tries, handed, producerVars, costs>>

(* A statement after the SELECT (the read of the publication, the DELETE)  *)
(* fails with a retryable error: the rollback gives up the row lock, and   *)
(* the statement is tried again in a new transaction.                      *)
RelayReconnect(w) ==
  /\ \/ rpc[w] = "remove"
     \/ rpc[w] = "send" /\ Table = "events_outbox"
  /\ tries[w] < Tries - 1
  /\ Fault
  /\ Release(w)
  /\ tries' = [tries EXCEPT ![w] = @ + 1]
  /\ UNCHANGED <<writerVars, business, table, rpc, cur, handed, producerVars>>

(* The message to send: any user row, an event row if its publication can  *)
(* still be read.                                                          *)
HasMessage(w) ==
  /\ rpc[w] = "send"
  /\ Table = "users_outbox" \/ OpOf(cur[w]) \in business

(* Broken variant of RelayRefused: the error of a refused send is logged,  *)
(* and the row removed all the same.                                       *)
SwallowsRefusedSend(w) ==
  /\ HasMessage(w)
  /\ Refusal
  /\ rpc' = [rpc EXCEPT ![w] = "remove"]
  /\ UNCHANGED <<writerVars, business, table, lock, cur, tries, handed, producerVars>>

(* start(), or the send itself, fails: the relay stops the producer, or    *)
(* cleans it up, with its transaction open and its row locked ...          *)
RelayRefused(w) ==
  /\ HasMessage(w)
  /\ Refusal
  /\ rpc' = [rpc EXCEPT ![w] = "refused"]
  /\ UNCHANGED <<writerVars, business, table, lock, cur, tries, handed, producerVars>>

(* ... which takes ten seconds at most, and the error ends the block.      *)
RelayRaises(w) ==
  /\ rpc[w] = "refused"
  /\ RelayRollsBack(w)
  /\ UNCHANGED <<writerVars, business, table, handed, producerVars, costs>>

(* Any other exception of the block: the last try of a statement fails,    *)
(* the commit is refused, the task is cancelled.                           *)
RelayAbort(w) ==
  /\ rpc[w] \in {"send", "refused", "remove", "commit"}
  /\ Fault
  /\ RelayRollsBack(w)
  /\ UNCHANGED <<writerVars, business, table, handed, producerVars>>

-----------------------------------------------------------------------------
(* The producer of a process (external: aiokafka).                         *)

(* A batch reaches its broker.                                             *)
Flush(w) ==
  /\ \E r \in buffer[w] :
       /\ buffer' = [buffer EXCEPT ![w] = @ \ {r}]
       /\ topic' = topic \cup {r}
  /\ UNCHANGED <<writerVars, business, table, relayVars, tries, stopping, stopped, costs>>

(* A request or consumer of the process is refused its own send, or start, *)
(* and stops the producer under everybody else.                            *)
RefusedCall(w) ==
  /\ Refusal
  /\ stopping' = [stopping EXCEPT ![w] = TRUE]
  /\ UNCHANGED <<writerVars, business, table, relayVars, tries, buffer, topic, stopped>>

StopEnds(w) ==
  /\ stopping[w]
  /\ stopping' = [stopping EXCEPT ![w] = FALSE]
  /\ UNCHANGED <<writerVars, business, table, relayVars, tries, buffer, topic, stopped, costs>>

BeingStopped(w) == stopping[w] \/ rpc[w] = "refused"

(* Messages in memory are given up: by a stop that ran into its timeout or *)
(* a cleanup that closed the sender, or, a fault, by a sender that could   *)
(* not deliver them in time (wait_acc is False: nobody is told).           *)
ProducerDrops(w) ==
  /\ \E D \in (SUBSET buffer[w]) \ {{}} :
       /\ buffer' = [buffer EXCEPT ![w] = @ \ D]
       /\ \/ BeingStopped(w) /\ stopped' = stopped \cup D /\ UNCHANGED costs
          \/ Fault /\ UNCHANGED stopped
  /\ UNCHANGED <<writerVars, business, table, relayVars, tries, stopping, topic>>

(* The process dies: its transaction is rolled back by the database, what  *)
(* its producer held is gone, and it is started again.                     *)
Crash(w) ==
  /\ Fault
  /\ RelayRollsBack(w)
  /\ buffer' = [buffer EXCEPT ![w] = {}]
  /\ stopping' = [stopping EXCEPT ![w] = FALSE]
  /\ UNCHANGED <<writerVars, business, table, handed, topic, stopped>>

-----------------------------------------------------------------------------
Writer(o) ==
  \/ InsertBusiness(o) \/ InsertOutbox(o) \/ WriterReconnect(o)
  \/ WriterCommit(o) \/ WriterAbort(o) \/ RemovePost(o)

RelayStep(w) ==
  \/ RelaySelect(w) \/ RelayIdle(w) \/ RelayWake(w)
  \/ RelaySendUser(w) \/ RelaySendPost(w) \/ RelayDropPost(w)
  \/ RelayRemove(w) \/ RelayRemoveMisses(w) \/ RelayCommit(w) \/ RelayRaises(w)

RelayFault(w) == RelayReconnect(w) \/ RelayRefused(w) \/ RelayAbort(w) \/ Crash(w)

ProducerStep(w) == RefusedCall(w) \/ StopEnds(w) \/ ProducerDrops(w)

Next ==
  \/ \E o \in Ops : Writer(o)
  \/ \E w \in Relays : RelayStep(w) \/ RelayFault(w) \/ Flush(w) \/ ProducerStep(w)

Spec == Init /\ [][Next]_vars

(* The event loop of every process keeps running its relay and its producer; *)
(* stop() waits ten seconds at most, so a refused relay gets on as well.     *)
Fairness == \A w \in Relays : WF_vars(RelayStep(w)) /\ WF_vars(Flush(w))

FairSpec == Spec /\ Fairness

-----------------------------------------------------------------------------
(* Properties.                                                             *)

Stored(r) == "outbox" \in durable[OpOf(r)]

(* No change of a user or publication is ever committed without its outbox *)
(* rows, even when a lost connection makes execute_stmt roll the session   *)
(* back and repeat one statement.                                          *)
NoSilentChange ==
  \A o \in Ops : "business" \in durable[o] => "outbox" \in durable[o]

(* docs/REVIEW.md: the user and its outbox row are written by the same     *)
(* transaction, so the row never exists without the user.                  *)
SameTransaction ==
  \A o \in Ops : "outbox" \in durable[o] => "business" \in durable[o]

(* A row leaves the table only when it was handed to a producer or when    *)
(* its publication could not be read any more: rollbacks, retries and      *)
(* crashes of the relays never remove a row nobody sent.                   *)
NoUnsentRemoval ==
  \A r \in Rows :
    Stored(r) /\ r \notin table =>
      \/ handed[r] > 0
      \/ Table = "events_outbox" /\ OpOf(r) \notin business

(* The relays of several processes send a row more than once only because  *)
(* of a crash, a lost connection or an aborted transaction, and once more  *)
(* per such fault at most: SELECT ... SKIP LOCKED keeps two healthy loops  *)
(* off the same row, and a refused send, which stops the producer and      *)
(* rolls back, leaves no copy behind.                                      *)
SendsBoundedByFaults == \A r \in Rows : handed[r] <= 1 + faults

(* A relay deletes a row when its message is only in the memory of the     *)
(* producer.  It is lost by a fault after which it was not sent again, or  *)
(* by a stop of the very producer that held it, which a refused send of    *)
(* anybody in the process brings about; nothing else loses it: handed over *)
(* more often than there were faults, and never dropped by a stop, it is   *)
(* at a broker, or in a process that still has to deliver it.              *)
LostOnlyByFaults ==
  \A r \in Rows :
    handed[r] > faults =>
      r \in topic \/ r \in stopped \/ \E w \in Relays : r \in buffer[w]

(* Every committed row is taken out of the table in the end, though relays *)
(* crash, are refused or lose their connection: nobody waits for a row     *)
(* lock for ever.                                                          *)
EventuallyRelayed == \A r \in Rows : r \in table ~> r \notin table
=============================================================================
