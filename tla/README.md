# A TLA+ model of the social-network monolith

This directory models the Python monolith under `src/app/`: users, friendships,
publications, the friends' feed with its Redis cache, two transactional outboxes
relayed to Kafka, a web-socket registry, and the clients for Kafka and PostgreSQL
they share. The modules are translated from the code; every definition that
models code is mapped to its lines in `PROJECT.json`.

    tlc -workers 2 -config MCUserOutbox.cfg MCOutbox.tla     # any run: module + cfg
    tlapm OutboxProofs.tla                                   # a module of proofs

## 1. Inventory

One process is a FastAPI application on one asyncio event loop. Several processes
run side by side and share PostgreSQL (a primary and replicas under Patroni),
Redis and Kafka. Inside a process the requests, three Kafka consumers, two relay
loops, the dead-connection task and the socket clean-up are coroutines: they
interleave only where they await. Between processes everything interleaves.

| Component | State | Operations | What is hard | What makes it correct |
|---|---|---|---|---|
| Transactional outbox (`services/outbox`, `services/tasks.py`, `repos/user.py`, `repos/outbox.py`, `repos/base.py`, `unit_of_work.py`) | tables `users_outbox`, `events_outbox`, row locks, open sessions | `register_user`, `create_post` (row and outbox rows in one unit of work), relay loops: SELECT FOR UPDATE SKIP LOCKED, send, DELETE, commit | relays of several processes, retry of one statement after a rollback, crash between send and commit, publication removed meanwhile | no change without its rows, no row removed unsent, a resend or a loss only for a fault, everything relayed in the end |
| Friends' feed (`services/post`, `services/user`, `feed_consumer.py`) | publications, friendships, cached feeds `friends_posts:{user}`, block keys | create, update, remove publication; add, remove friend; feed consumer; `get_friends_last_posts` | events sent before the commit, cache filled concurrently with its invalidation, block key with a TTL, celebrities handled elsewhere | at rest a cached feed shows what the database holds |
| Socket manager (`clients/ws/manager.py`, `apps/ws/posts.py`) | `active_connections`, user maps, per-user locks | `connect_user`, `disconnect_user`, clean-up | locks dropped while in use, `accept()`/`close()` under the lock | one socket per user, no routing to a closed socket, every handler answered |
| Kafka producer (`clients/kafka/producer`) | `_started`, `_producer`, the objects it made | `start`, `stop`, `safe_cleanup`, `send_message` | shared by all coroutines; start, failure and stop overlap | usable whenever quiet, every call returns or raises |
| Database client (`clients/db`) | living engines, engine map, set of dead engines | refresh of the roles, `check_dead_connection_task`, choice of an engine, retry | overlapping refreshes, failover, task and refreshes write the same maps | dead engines are looked after, writes reach the primary |
| Kafka consumers (`clients/kafka/consumer`, `apps/consumers`) | client object, group offset, message in hand | start, read, process with retries, commit, stop | rebalances, failed starts and stops, cancellation, messages that always fail | no offset past an unhandled message, at most one repeated, a task recovers |
| Units of work and repositories (`unit_of_work.py`, `repos/`) | session, savepoint, statement, outbox rows | transaction, get, count, add, update, remove, add_batch; builders of WHERE / JOIN / ORDER BY | statements outside a transaction, savepoints, chunks, parameter names | a read returns what was asked, the outbox follows the committed changes |
| Dialog service and chat client (`services/dialogs/service.py`, `clients/http`) | the requests under way | send a message, list a dialog | timeout and late answer, errors of the other side, users known late | the client is told what happened |
| Authentication (`services/auth`, `apps/api/auth.py`) | tokens issued | login, check of a token and its scope | a token that runs out between two checks | only the owner of an access token gets through |
| API and middleware (`apps/api`, `apps/middleware`) | request id of a request | translation of requests and answers | concurrent requests | an id stays with its request |
| Life cycle (`server.py`, `core/utils.py`) | tasks | start, restart on exception, shutdown | clients are stopped before the tasks, errors while cancelled | every cancelled task ends |
| Dialogs in Redis (legacy), schemas, configuration | - | not called, or data | - | - |

How they interact: a request opens a unit of work, which writes business rows and
outbox rows, and for feed events sends straight to Kafka *inside* the transaction.
The relays read outbox rows and send through the shared producer. The feed consumer
reads those events, queries PostgreSQL and writes Redis; the web-socket consumer
reads the messages relayed for followers and looks up the socket manager. Every
statement goes through the database client.

The list of hazards, each at its line with the properties aimed at it, is under
`hazards` in `PROJECT.json`.

## 2. The modules

| Module | Role |
|---|---|
| `TransactionalOutbox` | abstract: what an outbox promises (Record, Withdraw, Announce, Retire) |
| `Outbox` | one outbox table, its writers and relays, with faults |
| `OutboxRefinement` | the refinement mapping, `ImplementsPromise` |
| `OutboxProofs` | theorems about `Outbox` and the refinement |
| `FeedCache` | database, events, feed consumers, cached feeds, readers |
| `FeedProofs` | theorems about `FeedCache` |
| `SocketManager` | the socket registry of one process |
| `SocketProofs` | theorems about `SocketManager` |
| `KafkaProducer` | the shared producer client of one process |
| `ProducerProofs` | theorems about `KafkaProducer` |
| `DbClient` | the choice of database servers |
| `DbProofs` | theorems about `DbClient` |
| `KafkaConsumer` | the tasks of one consumer group, from start to shutdown |
| `ConsumerProofs` | theorems about `KafkaConsumer` |
| `Statements` | what the statements of a repository mean |
| `Repository` | a repository with an outbox, units of work |
| `RepositoryProofs` | theorems about `Repository` and `Statements` |
| `DialogApi` | dialog endpoints, authentication, the chat client |
| `DialogProofs` | theorems about `DialogApi` |
| `MC*` | small instances (symmetry sets, a constraint) |

Operators whose comment begins "Broken variant of" belong to no specification.
Each is what a plausible bug would make of the action it names; replacing the
action by it makes the property listed under `mutants` fail, which shows that the
property depends on that code.

### Outbox

One specification serves both tables (`Table`). A request moves
`idle -> inserted -> prepared -> done` with the INSERT of the business row, the
INSERT of the outbox rows and the commit; `WriterReconnect` is the retry inside
`_try_execute_stmt`: it rolls the *whole* session back and repeats only the failing
statement. `stamp` is `created_at`, PostgreSQL's `NOW()` of the transaction that
inserted the rows, hence their order. A relay moves `select -> send -> remove ->
commit`, holding the row lock of its transaction, and `sleep` stands both for the
pause of an idle loop and for the backoff of `restart_on_exception`. A retryable
error in a relay loses the row lock and the relay goes on (`RelayReconnect`); any
other error rolls back (`RelayAbort`). `Hand` puts the message in the memory of the
producer, because the callers leave `wait_acc` False; `Flush`, `ProducerDrops` and
`Crash` decide its fate. A refused send, of the relay itself (`RelayRefused`) or of any
request or consumer of its process (`RefusedCall`), stops the producer they share, and
while it is being stopped messages in its memory may be dropped although their rows are
deleted: the history `stopped` names them. How the stop itself goes is in
`KafkaProducer`. In the events table, a publication that is gone makes the relay remove
the row unsent (`RelayDropPost`), as the NOT_FOUND error is swallowed by
`async_use_case`.

### FeedCache

A user's feed is a function of publications and friendships. `Write` is the body of
a request: the row is locked, the event is queued before the commit. Events are in
one queue per key (user or author), consumed in order, at most `Instances`
consumers at a time; the offset is committed after processing, so a failure reads
the event again. A post event is three reads (the publication, the number of
followers, which sends a celebrity's publication elsewhere, and their ids), then
clears the caches of the followers in chunks; a friendship event computes the user's feed again when the cached one is older. A
computation is a sequence of steps with awaits in between: read the posts, check
the block key, set it, store, remove it. `late` marks a computation whose result
was overtaken by an invalidation.

The code has ways to leave a stale feed behind. The history variable `raced`
records which of them happened (`Races`):

| race | what happens |
|---|---|
| `early_event` | the consumer handles an event before the transaction that sent it commits |
| `removed_post` | the event of a removal finds no publication and is dropped |
| `newer_cache` | a cached feed as old as the event, in whole milliseconds, is kept |
| `emptied_feed` | an emptied feed is not stored, the old one stays |
| `blocked_fill` | a recomputation is skipped because another one holds the block key |
| `late_fill` | a computation stores what it read before an invalidation |
| `celebrity` | the event of an author with many followers goes to a topic whose consumer always fails |
| `lost_event` | the process that sent the event died with it in memory |

`FreshUnlessRaced` says that these are *all*: at rest, with none of them, every
cached feed equals the database. It is the completeness of the list that is hard to
see in the code.

### SocketManager

One handler per socket. Lock objects are values of their own, named by the socket
whose handler made them, because the bug is about two lock objects for one user:
`disconnect_user` pops the user's lock while others hold it or wait for it.
`orphaned` records the users that happened to. A handler of this application drops
its registration in the same step in which its socket leaves CONNECTED, so the
periodic clean-up finds nothing to do and is not modelled.

### KafkaProducer

Calls of `send_message`, and the `stop` of the application, over one client. Each
`AIOKafkaProducer` is an object with a state, so that an object which nobody refers
to any more is still visible. The `sleep(0)` in `_cleanup` is a step of its own:
`_started` and `_producer` are reset only after it, for whatever object is current
by then. `_cleanup` calls `close()` of the object's sender without awaiting it;
whether that ends a running object is left open (`Strip` is nondeterministic).

### DbClient

Requests whose statement failed ask every engine whether it is the primary
(`gather`: answers in any order, `RefreshEnds` writes the maps at once, without
knowing of other refreshes). The background task iterates over the set of dead
engines. Two facts of the code shape the model: an exception counts as true, so a
dead engine is listed among the writers, and removing an engine from the set during
the iteration raises `RuntimeError` outside the `try`, so the task ends with its
first success (`CheckerDies`). `revived` holds the engines that the last refresh
found dead and the task has brought back since: each is listed as a writer, whatever it
is, until the next refresh.

### KafkaConsumer

One task of a group in each process, over one partition. `Loop` follows `run`: an
object in `self.consumer` counts as started (`Begin`), a failing `start()` leaves
`run` before its `try` and so leaves the object (`StartFails`), anything that fails
later passes the `finally` and `stop()`. The broker is the environment: `Assign`
moves the partition for whatever reason, to a client that reads on from the offset
of the group or, when there is none, from the end (`passed` records what is left
behind then). `Commit` commits what the assignment *of that moment* has read.
`Cancel` is `shutdown`, at any suspension; an error of `stop()` then takes the place
of the cancellation (`cancelled = "lost"`), and `restart_on_exception` starts the
task again. A message is `good` or `poison`: the web socket consumer returns for all
of its messages, the celebrity consumer for none.

### Statements and Repository

`Statements` says what the text a repository builds means to PostgreSQL: conditions
that name parameters, an order, a limit, or a text that is refused. Parameters are
named by their lookup, so of two joins with the same lookup the last one gives its
value (`JoinParameters`), as in the dictionary the code updates. `Asked` is the meaning a caller expects; `AnswerIsAsked` compares the two
over every read of `MCReads` and lists the exceptions (`Clash`, a limit of 0).

`Repository` runs the operations one after the other, inside a transaction, inside a
savepoint and outside of both; `execute_stmt` then commits each statement alone.
`failing` is an error on its way out of a block. `silent` keeps, as a history, why a
change is not announced; `Announces` says that the outbox is the sequence of all other
changes, by an increasing one-to-one map. `AddBatch` only takes the data over, or
raises when there are none; each chunk is a step of its own (`InsertChunk`,
`ChunkFails`), because outside a transaction each is committed before the next.

`Reconnect` is the retry of `_try_execute_stmt` inside a transaction: all that the
session has done is rolled back, to the durable database, and the block goes on with the
one statement that is repeated. A savepoint of that session is `gone`: leaving it fails.
When the repeated statement is the INSERT of `save_outbox`, its message is saved without
its change (`silent = "undone"`). When it is a chunk of `add_batch`, the chunks before
it are lost, and reported nevertheless (`batch.lost`).

### DialogApi

A request moves `auth -> sender -> receiver -> call -> waiting -> answered`, a step
per suspension. The chat service checks the token again and knows the users it has
learned through the outbox; its answer may be lost, or come after the timeout, and
the call may still be on the `wire` when the client has been told 502. Any status of the
chat service is passed on, 400 and 503 standing for the other 4xx and 5xx. `ctx` is the
context variable with the request id. Answers are statuses, an id and where their
message comes from; texts are left out, except that they may be empty: httpx says
nothing of a timeout, a body may have an empty `detail`, and `set_unsuccessful` makes
both a null message (`ErrorSaid`). An exception that is not a service error leaves
`RequestIdMiddleware` by its `finally` and is answered without id (`Raise`); a 500 of
the chat service is an ordinary answer with one.

## 3. The runs

All `pass` runs finish with no error. The `violation` runs are disagreements between
the code and what its docs, comments or tests say, quoted in `findings`.

| Run | Shows | Bounds and why they suffice |
|---|---|---|
| `outbox_users` | types, `NoSilentChange`, `SendsBoundedByFaults`, `LostOnlyByFaults` | 2 users, 2 relays, 3 faults or refused sends: one for each relay and a stop of their producer besides; two relays on one row |
| `outbox_posts` | `NoUnsentRemoval`, the refinement, `EventuallyRelayed` | 2 publications, 1 follower, 2 relays, 1 fault or refused send, removal at any time. Liveness is checked with that one fault only |
| `outbox_transaction` (violation) | an outbox row without its user | 1 user, 1 relay, 1 fault |
| `feed_coherence` | `FreshUnlessRaced` with overlapping requests | 2 followers of 1 author, 2 publications, 2 requests, 2 consumers, chunks of 1, a clock of 2 instants, 1 failure: two requests meet two events and a reader, and a consumer fails between two chunks |
| `feed_faults` | types, `FreshUnlessRaced`, `EventuallyConsumed` under failures | 1 request, 2 failures (the second in the retry), 2 followers, celebrity from 2: this run has the celebrity topic, hence no second chunk |
| `socket_registry` | types, `OneSocketUnlessOrphaned`, `NoDeadRouting`, `EveryoneIsAnswered` | 5 sockets of one user: holder, waiter, late arrival, and two more on a second lock. Users share nothing, so one is enough |
| `socket_claim` (violation) | two open sockets of a user | 4 sockets |
| `producer` | types, `UsableWhenQuiet`, `EveryCallEnds` | 3 calls, the shutdown, 4 objects (the first and one per call), 1 failure |
| `db_routing` | types, `NoEngineForgotten`, `WritesReachPrimary`, `EventuallyRevived` | 3 engines, 2 overlapping refreshes, 2 changes of the servers: a failover needs two |
| `consumer` | types, `NothingSkipped`, `RepeatsAtMostOne`, `EventuallyHandled`, `Recovers`, `CancelledEnds` | 2 processes, 2 attempts, 3 messages, 1 failure besides rebalances of free partitions, cancellations and poison: a commit, a repeated message and one behind it |
| `repository` | types, `AnswerIsAsked`, `AnnouncedInOrder`, `BatchOutcome` | 3 ids, 2 values, up to 2 joins, 2 changes, chunks of 2 and batches of 0 to 3 rows, 1 failure or lost connection: a transaction with a savepoint of which one is rolled back, a chunk that fails or is repeated after one that did not |
| `dialog_api` | types, `StoredAsAnswered`, `OwnRequestId`, `StoredIsAllowed`, `EveryoneAnswered` | 2 users, 2 concurrent requests out of 6, one login per user: each way to be refused, replies of success, refusal and failure with and without a message, a shared given id and an id of its own |

`CHECK_DEADLOCK FALSE` is given where the bounded environment may run out (no more
requests, sockets or calls). The outbox and database runs check for deadlock.

`feed_coherence` explores only states with `raced = {}` (the constraint `Unraced`).
This loses nothing: `raced` never shrinks and `FreshUnlessRaced` holds trivially
once it is not empty. Symmetry is used only in runs without liveness properties.

### Fairness

* Relays and producers (`Outbox`): the event loop runs every ready coroutine, the
  loop is restarted after any exception, so each relay and each sender task keeps
  taking steps, and a stop that a refused send began is over in the end. Faults, refused
  sends and requests are not fair.
* Feed: transactions end, computations and consumers go on; readers, failures, the
  expiry of keys and the clock are not fair.
* Sockets: a handler whose lock, `accept()` or `close()` is due is resumed.
  Clients need neither connect nor disconnect.
* Producer: `start`, `send` and `stop` of an object return or run into their ten
  seconds (`asyncio.wait_for`).
* Consumers: the event loop resumes a task that can go on, the supervisor starts a
  dead process, and the coordinator gives a free partition away. Messages, failures,
  rebalances and cancellations are not fair. `EventuallyHandled` excuses what is
  behind a message that always fails, and a group all of whose tasks have ended.
* Dialogs: a request is resumed, and `CHAT_SERVICE_TIMEOUT` ends a call; neither the
  chat service nor the network is fair. httpx counts that time for every read, so this
  leaves out a response that trickles in for ever.
* Database: only the background task is fair; `EventuallyRevived` excuses an engine
  that went down again, and a task that has died.

## 4. What is proved

Every invariant and every action property of the passing runs is the statement of a
theorem. The proofs are checked by TLAPS with no omitted steps, and rest on the named
assumptions of the modules alone.

For `OutboxProofs` the only assumption is
`OutboxAssumption`: `Relays` is finite, the bounds are naturals, and the values that
stand for "no row" and "no relay" are none. Requests, consumers, relays, tries and faults
are otherwise arbitrary, and both tables are covered.

* `TypeCorrect`, `NeverSilent`, `NeverUnsent` from the inductive invariant `IInv`.
  `NoUnsentRemoval` is not inductive: it must be known that a relay past its send has
  settled its row (`SettledFirst`), that it works on a row that was stored
  (`Working`), and that a session holds its outbox rows before it commits
  (`Sessions`).
* `SendsBounded`: a row is sent at most `1 + faults` times. The invariant counts, for
  each row, the sends that happened, those that are about to happen (`Senders`) and
  the one that is possible while the row is `Open`; no step raises the sum unless a
  fault pays for it. It needs `LockInv`: a locked row is in the table and its owner
  works on it. This is where SKIP LOCKED is used.
* `LossBounded`: a row handed over more often than there were faults is at a broker, in
  the memory of a living process, or was dropped by a stop of the producer that held it.
  A crash, which empties a memory, is a fault; a refused send is not, so what its stop
  drops is named in the statement. It needs the same bound on sends as `SendsBounded`.
* `Refinement`: every step of `Outbox` is a step of `TransactionalOutbox` or a
  stutter, given `IInv`.

`SocketProofs` needs `SocketAssumption` only (every socket has a user, `None` is no
socket), so there may be any number of users and sockets. `TypeCorrect`,
`AliveRouting` and `UniqueSocket` follow from one inductive invariant:

* `LockInv`: a lock object, its holder and its queue agree. A handler inside waits for
  or holds the lock it has taken (`HeldBy`); those in the queue of a lock wait for it,
  somebody else holds it, and nobody is queued twice (`Queued`, `Distinct`); a handler
  that waits is in the queue or has just been handed the lock (`Waits`). Without the
  last two, a release could wake a handler that is not waiting.
* `FreshInv`: nobody knows the lock object of a handler that has not arrived, so a new
  lock object is free.
* `MapInv`: the maps stand for open sockets.
* `OneLock`: all handlers of a user that is not `orphaned` go through the one lock
  object in `_user_locks`, and while one of them is being accepted the user has no
  socket. It is the argument that fails once `disconnect_user` pops a lock in use.

`DbProofs` needs `DbAssumption` (finitely many engines, natural bounds).
`TypeCorrect`, `NeverForgotten` and `WritesRouted` are inductive together: no step
relies on more about the maps than the properties say. What the proof adds to the run
is that no number of overlapping refreshes or of failovers makes a difference.
`WritesRouted` does not say that writes reach the primary whenever there was no
failover: a replica that was dead at the last refresh and has been brought back since
gets writes without one. It says that these engines are the only ones.

`ProducerProofs` needs `ProducerAssumption`. `UsableWhenQuiet` says nothing about a
client in use, so its invariant does: the client is `Settled`, or some coroutine
`Cares` about the current object - it stops or cleans up, it is starting that object,
or it is about to find out that the object does not send any more. Every coroutine
that stops caring leaves a settled client or another one that cares.

`ConsumerProofs` needs `ConsumerAssumption`. `NothingSkipped` speaks of the offset
only; the invariant adds what the owner would commit: all it has read is handled, but
for the message in hand (`Covered`). For `RepeatsAtMostOne`, `Near` bounds by `Reach`
what any task, the owner or one that has lost the partition, can still handle.
`Placed` ties the state of a task to that of its client.

`DialogProofs` needs `DialogAssumption`. `Checked` says what a request has been
checked for at each suspension, `Called` that a request has at most one call and that
it carries its id, `Told` that a response already on its way, not only an answer,
agrees with what is stored and with what may still be stored. `ToldTheTruth` rests on
one assumption on the chat service, in `ChatHandles`: what it refuses (4xx) it has not
stored.

`FeedProofs` needs `FeedAssumption` (keys of the two topics differ, a request is no
consumer, the sizes are positive). `TypeCorrect` rests on `Bounded` (a transaction that
writes finds room for its version), `Addressed` (a partition carries the events of its
author) and `InHand` (a consumer that works has an event). `OnlyTheNamedRaces` says
that the list of races is complete. `FreshUnlessRaced` speaks of a system at rest; while
it is busy, and no race has happened, the invariant is `Coherent`:

* `Announced`: the event of an open transaction is unread, so the commit, which makes
  feeds stale, leaves behind what will invalidate them. A consumer that reads it before
  is the race `early_event`.
* `CachesCovered`: a cached feed is fresh, or an invalidation of it is to come
  (`Covered`: an unread event, or a `clear` that has yet to reach this follower), or its
  consumer is about to replace it (`Refilling`).
* `FillsCovered`: what a computation holds in its hands, and will still store, is the
  feed of this moment, or it is covered as well.

At rest no event is unread and nothing is computed, so the cache is fresh. Every other
way a step could end the cover turned out to be one of the races, for any number of
followers, chunks, consumers and readers.

`RepositoryProofs` needs `RepositoryAssumption` and `StatementsAssumption` (keys are
finitely many numbers, a chunk has room for a row, `None` is no number).

* `OutboxFollowsChanges`: `AnnouncedInOrder` is about the durable database, but a commit
  makes durable what a block had, and a rollback returns to what was before it. So every
  database of the state, that of each open block too, announces its changes
  (`AllAnnounce`), and a step leaves each of them as one that was there or as one of
  those that has grown by silent changes or by a message and its change (`Develops`,
  `SilentAnnounces`, `SpokenAnnounces`). A lost connection puts the durable database in
  the place of those of the blocks (`Renewed`), or that database and the message whose
  change is gone (`UndoneAnnounces`); the theorem does not hide these messages, it says
  that there are no others.
* `BatchesInChunks`: between two chunks the users are those of before, or of the last
  lost connection, with the rows of the data after the lost ones put in as far as the
  batch has come (`Progress`); both numbers are multiples of the chunk. That all ids are
  new follows from a count: a chunk PostgreSQL takes has as many ids as rows. A chunk
  keeps that state of affairs (`Keeps`), and so does a connection that is lost
  (`Losses`, `LosesWhole`).
* `ReadsAreAnswered`: the server selects what the caller asked (`ReadsWanted`), for any
  number of joins; without a join a user comes once in an answer (`OnePerUser`), which
  is what `get` and `count` rest on. The two exceptions of the property are where the
  statement asks for something else: a parameter shared by two joins, a limit of 0.

  That one of several joins with a lookup is the last takes an induction over numbers,
  which these provers cannot instantiate; the lemma `Least` gets it from the library's
  theorem that the order of finite sets is well-founded.

Model-checked only: the liveness properties (`EventuallyRelayed`, `EventuallyConsumed`,
`EveryoneIsAnswered`, `EveryCallEnds`, `EventuallyRevived`, `EventuallyHandled`,
`Recovers`, `CancelledEnds`, `EveryoneAnswered`), since fairness is out of the prover's
reach. The properties of the `violation` runs are false.

## 5. Observations

Beyond the findings, the models rest on behaviour a maintainer may want to know:

* `check_dead_connection_task` dies with its first success (`db/base.py:72-75`);
  from then on a dead engine comes back only with a refresh.
* A refresh that started before a failover may finish last and write an old map
  (`db/base.py:143`); the client then keeps it until another statement fails.
* `execute_stmt` asks for a writer even when it is given a session
  (`db/base.py:166`), so reads fail while no writer is alive.
* The celebrity consumer passes an argument name the service does not have
  (`celebrity_feed_consumer.py:24`). Before its group has an offset a restarted
  client starts behind the message; afterwards the message blocks its partition.
* The event of every feed change is sent before the commit (`post/service.py:56`).
* The event of a removed publication finds no publication (`post/service.py:160`) and
  clears no feed, although it is one of `RECALCULATE_CACHE_EVENTS`.
* An outbox row is deleted when its message is in the memory of the producer
  (`aio_producer.py:44`): a process that dies then loses the message. So does a refused
  send of anybody in the process: it stops the producer they share
  (`producer/base.py:112`), and what a stop cannot deliver in time is dropped.
* `stop()` of the producer may meet a `start()` under way and forget an object that
  goes on running (`producer/base.py:69`). At the end of the process `stop_clients` comes
  before the tasks are cancelled (`server.py:130`): one of them may start the producer
  again, and nobody stops it.
* `stop()` of a consumer that raises while its task is cancelled makes the task start
  again (`consumer/base.py:91`); `shutdown` waits for it.
* A condition on the table and one on a join are put together without AND
  (`repos/base.py:156-157`), which PostgreSQL refuses; no caller has both.
* Two joins with the same lookup share one parameter (`repos/base.py:353`).
* A connection lost inside a transaction takes all that was done in it, and the block
  goes on (`db/base.py:195-200`). `add_batch` then returns rows of earlier chunks that are
  not there (`repos/base.py:300-302`), and an outbox row may stay without its change.
* A replica that was dead at the last refresh and is reachable again gets writes until
  the next refresh, since an exception counts as true (`db/base.py:139`).
* `UserRepo` outside a transaction commits the user and then raises
  (`repos/base.py:307`); `update` and `remove` of several rows announce one of them.
* Calls to the chat service carry no idempotency key: a client that repeats a message
  after 502 may store it twice. The answer to an unexpected exception has no
  `X-Request-Id` (`request_id.py:20-25`), and `Retry-After` is only inside `detail`
  (`apps/utils.py:36-42`). The message of a 502 after a timeout is null, because the text
  of httpx's timeouts is empty (`http/base.py:78`); so is that of a body with an empty
  `detail` (`http/base.py:181-182`).
* `login` reads a replica (`user/service.py:54`): a user who has just registered may
  not be found.

## 6. Not modelled, and what is left

* Passwords and signatures of tokens; schemas, configuration, migrations; the content
  of messages and texts, `LIKE`, LEFT and RIGHT joins.
* The dialogs in Redis: nothing calls them any more, so there is no order of steps to
  model. Their GET and SET of a conversation (`dialogs/utils.py:43`) would not be
  atomic.
* The clean-up of the socket manager: a registered socket leaves CONNECTED only in its
  own handler, which drops it in the same step. The sender task of `ActiveWebSocket`
  gets no items in this application.
* The choice of an engine for a statement that already has its session
  (`db/base.py:166`): a property would restate `get_session_maker`.

Left for later, most important first:

1. The composition of outbox, consumer and socket manager (publication -> row ->
   message -> socket): a message is never lost between the outbox and a committed
   offset but by a named fault.
2. An abstract feed (a cache that is eventually that of the database) which `FeedCache`
   implements as long as no race has happened.
