------------------------------ MODULE FeedCache ------------------------------
(***************************************************************************)
(* The friends' feed: publications and friendships in PostgreSQL, the      *)
(* events the requests send to Kafka from inside their transactions, the   *)
(* consumer that invalidates or recomputes cached feeds, and the readers   *)
(* that fill the cache in Redis.                                           *)
(*                                                                         *)
(* Users are the accounts in their role of reader, Authors in their role   *)
(* of being read; a friendship <<u, a>> means that u has added a.          *)
(***************************************************************************)
EXTENDS Integers, Sequences, FiniteSets

CONSTANTS
  Users, Authors, PostIds,
  Readers,       \* concurrent get_friends_last_posts requests
  Instances,     \* feed consumers of the group, one per process
  ChunkSize,     \* FOLLOWERS_CHUNK_SIZE
  CelebrityMin,  \* CELEBRITY_FOLLOWERS_MIN
  MaxVersion,    \* bound: texts of a publication
  MaxRequests,   \* bound: writing requests of a behaviour
  MaxTime,       \* bound: the millisecond clock
  MaxFaults,     \* bound: crashes and lost events
  NoFeed         \* no cached feed

Posts == Authors \X PostIds
Friendships == Users \X Authors
Partitions == Users \cup Authors     \* message keys, of the user and the post topic
Fillers == Readers \cup Users        \* a request, or the consumer of the user's events
Removed == MaxVersion + 1

FeedItems == SUBSET (Posts \X (1..MaxVersion))
Feeds == [items : FeedItems, ts : 0..MaxTime]

(* The two topics have partitions of their own, a request is no consumer,  *)
(* and a missing key differs from every stored feed.                       *)
ASSUME FeedAssumption ==
  /\ Instances \in Nat \ {0} /\ ChunkSize \in Nat \ {0} /\ CelebrityMin \in Nat \ {0}
  /\ MaxVersion \in Nat \ {0} /\ MaxRequests \in Nat
  /\ MaxTime \in Nat /\ MaxFaults \in Nat
  /\ Users \cap Authors = {} /\ Users \cap Readers = {}
  /\ NoFeed \notin Feeds

VARIABLES
  post,       \* committed version of a publication: 0 none yet, Removed gone
  follows,    \* committed friendships
  tx,         \* the open transaction on a publication or friendship
  requests,   \* requests so far, the last transaction id
  queue,      \* unconsumed events of a partition
  cpc, todo,  \* the consumer of a partition: control state, followers to clear
  cache,      \* friends_posts:{user}
  block,      \* friends_posts:{user}:calculate
  fill,       \* computations of a feed under way
  celebrity,  \* the celebrity topic
  now, faults,
  raced       \* history: the races that happened

dbVars == <<post, follows, tx, requests>>
vars == <<post, follows, tx, requests, queue, cpc, todo, cache, block, fill,
          celebrity, now, faults, raced>>

(* Broken variant of Live: publications that were removed still count.     *)
EverCreated(p) == post[p] > 0

Live(p) == post[p] \in 1..MaxVersion
Followers(a) == {u \in Users : <<u, a>> \in follows}
Feed(u) == {<<p, post[p]>> : p \in {q \in Posts : Live(q) /\ <<u, q[1]>> \in follows}}

Idle == [pc |-> "idle"]
NoTx == [id |-> 0, type |-> "none"]
Races == {"early_event", "removed_post", "newer_cache", "emptied_feed",
          "blocked_fill", "late_fill", "celebrity", "lost_event"}

Kinds == {"ADD", "UPDATE", "REMOVE"}
Transactions == {NoTx} \cup [id : 1..MaxRequests, type : Kinds]
Events == [id : 1..MaxRequests, type : Kinds, of : Posts \cup Friendships, ts : 0..MaxTime]
Computations ==
  [pc : {"read", "check", "block", "store", "unblock"}, user : Users, items : FeedItems,
   ts : 0..MaxTime, late : BOOLEAN]

TypeOK ==
  /\ post \in [Posts -> 0..Removed]
  /\ follows \subseteq Friendships
  /\ tx \in [Posts \cup Friendships -> Transactions]
  /\ requests \in 0..MaxRequests
  /\ queue \in [Partitions -> Seq(Events)]
  /\ cpc \in [Partitions -> {"poll", "count", "followers", "clear", "refill", "commit"}]
  /\ todo \in [Partitions -> SUBSET Users]
  /\ cache \in [Users -> {NoFeed} \cup Feeds]
  /\ block \in [Users -> BOOLEAN]
  /\ fill \in [Fillers -> {Idle} \cup Computations]
  /\ celebrity \subseteq Posts
  /\ now \in 0..MaxTime /\ faults \in 0..MaxFaults /\ raced \subseteq Races

(* Any database, no event under way, nothing cached.                       *)
Init ==
  /\ post \in [Posts -> {0, 1}]
  /\ follows \in SUBSET Friendships
  /\ tx = [s \in Posts \cup Friendships |-> NoTx]
  /\ requests = 0
  /\ queue = [k \in Partitions |-> <<>>]
  /\ cpc = [k \in Partitions |-> "poll"]
  /\ todo = [k \in Partitions |-> {}]
  /\ cache = [u \in Users |-> NoFeed]
  /\ block = [u \in Users |-> FALSE]
  /\ fill = [i \in Fillers |-> Idle]
  /\ celebrity = {}
  /\ now = 0 /\ faults = 0 /\ raced = {}

Happened(race, condition) == IF condition THEN {race} ELSE {}

-----------------------------------------------------------------------------
(* Requests: the row is locked by the open transaction, and the event is   *)
(* sent before the commit.                                                 *)

Write(s, key, type) ==
  /\ tx[s] = NoTx
  /\ requests < MaxRequests
  /\ requests' = requests + 1
  /\ tx' = [tx EXCEPT ![s] = [id |-> requests + 1, type |-> type]]
  /\ queue' = [queue EXCEPT ![key] =
       Append(@, [id |-> requests + 1, type |-> type, of |-> s, ts |-> now])]
  /\ UNCHANGED <<post, follows, cpc, todo, cache, block, fill, celebrity, now, faults, raced>>

CreatePost(p) == post[p] = 0 /\ Write(p, p[1], "ADD")
UpdatePost(p) == Live(p) /\ post[p] < MaxVersion /\ Write(p, p[1], "UPDATE")
RemovePost(p) == Live(p) /\ Write(p, p[1], "REMOVE")
AddFriend(f) == f \notin follows /\ Write(f, f[1], "ADD")
RemoveFriend(f) == f \in follows /\ Write(f, f[1], "REMOVE")

(* The unit of work commits ...                                            *)
Commit(s) ==
  /\ tx[s] # NoTx
  /\ tx' = [tx EXCEPT ![s] = NoTx]
  /\ IF s \in Posts
       THEN /\ post' = [post EXCEPT ![s] = IF tx[s].type = "REMOVE" THEN Removed ELSE @ + 1]
            /\ UNCHANGED follows
       ELSE /\ follows' = IF tx[s].type = "ADD" THEN follows \cup {s} ELSE follows \ {s}
            /\ UNCHANGED post
  /\ UNCHANGED <<requests, queue, cpc, todo, cache, block, fill, celebrity, now, faults, raced>>

(* ... or fails, when the event is sent already.                           *)
Abort(s) ==
  /\ tx[s] # NoTx
  /\ faults < MaxFaults /\ faults' = faults + 1
  /\ tx' = [tx EXCEPT ![s] = NoTx]
  /\ UNCHANGED <<post, follows, requests, queue, cpc, todo, cache, block, fill, celebrity, now, raced>>

(* A process dies with the event still in the memory of its producer.      *)
LoseEvent(k) ==
  /\ queue[k] # <<>> /\ (cpc[k] = "poll" \/ Len(queue[k]) > 1)
  /\ faults < MaxFaults /\ faults' = faults + 1
  /\ queue' = [queue EXCEPT ![k] = SubSeq(@, 1, Len(@) - 1)]
  /\ raced' = raced \cup {"lost_event"}
  /\ UNCHANGED <<dbVars, cpc, todo, cache, block, fill, celebrity, now>>

-----------------------------------------------------------------------------
(* Computing a feed: _get_user_friends_posts_and_cached, set_feed_cache.   *)

(* The computations for a user of us whose posts are read, not yet stored, *)
(* and no longer what the database holds: the invalidation that runs now   *)
(* comes too early for them.                                               *)
Overtake(us) ==
  fill' = [i \in Fillers |->
    IF fill[i].pc \in {"check", "block", "store"} /\ fill[i].user \in us
       /\ fill[i].items # Feed(fill[i].user)
      THEN [fill[i] EXCEPT !.late = TRUE]
      ELSE fill[i]]

Start(u) == [pc |-> "read", user |-> u, items |-> {}, ts |-> 0, late |-> FALSE]

(* The end of a computation: a request answers, a consumer goes on to      *)
(* commit the offset.                                                      *)
EndFill(i) ==
  /\ fill' = [fill EXCEPT ![i] = Idle]
  /\ cpc' = IF i \in Users THEN [cpc EXCEPT ![i] = "commit"] ELSE cpc

(* get_friends_last_posts does not find a cached feed.                     *)
ReaderMiss(i) ==
  /\ fill[i] = Idle
  /\ \E u \in Users : cache[u] = NoFeed /\ fill' = [fill EXCEPT ![i] = Start(u)]
  /\ UNCHANGED <<dbVars, queue, cpc, todo, cache, block, celebrity, now, faults, raced>>

(* One SELECT of the friends' posts, then utcnow().                        *)
FillRead(i) ==
  /\ fill[i].pc = "read"
  /\ fill' = [fill EXCEPT ![i].pc = "check", ![i].items = Feed(fill[i].user), ![i].ts = now]
  /\ UNCHANGED <<dbVars, queue, cpc, todo, cache, block, celebrity, now, faults, raced>>

(* An empty feed is not cached, nor one that is being computed elsewhere.  *)
FillSkips(i) ==
  LET u == fill[i].user IN
  /\ fill[i].pc = "check"
  /\ fill[i].items = {} \/ block[u]
  /\ EndFill(i)
  /\ raced' = raced \cup
       Happened("emptied_feed", i \in Users /\ fill[i].items = {} /\ cache[u] # NoFeed) \cup
       Happened("blocked_fill", i \in Users /\ fill[i].items # {})
  /\ UNCHANGED <<dbVars, queue, todo, cache, block, celebrity, now, faults>>

FillChecks(i) ==
  /\ fill[i].pc = "check"
  /\ fill[i].items # {} /\ ~block[fill[i].user]
  /\ fill' = [fill EXCEPT ![i].pc = "block"]
  /\ UNCHANGED <<dbVars, queue, cpc, todo, cache, block, celebrity, now, faults, raced>>

FillBlocks(i) ==
  /\ fill[i].pc = "block"
  /\ block' = [block EXCEPT ![fill[i].user] = TRUE]
  /\ fill' = [fill EXCEPT ![i].pc = "store"]
  /\ UNCHANGED <<dbVars, queue, cpc, todo, cache, celebrity, now, faults, raced>>

(* The feed is stored without an expiry.                                   *)
FillStores(i) ==
  /\ fill[i].pc = "store"
  /\ cache' = [cache EXCEPT ![fill[i].user] = [items |-> fill[i].items, ts |-> fill[i].ts]]
  /\ fill' = [fill EXCEPT ![i].pc = "unblock"]
  /\ raced' = raced \cup Happened("late_fill", fill[i].late)
  /\ UNCHANGED <<dbVars, queue, cpc, todo, block, celebrity, now, faults>>

FillUnblocks(i) ==
  /\ fill[i].pc = "unblock"
  /\ block' = [block EXCEPT ![fill[i].user] = FALSE]
  /\ EndFill(i)
  /\ UNCHANGED <<dbVars, queue, todo, cache, celebrity, now, faults, raced>>

(* The block key lives one second, and TTL rounds its last half to 0.      *)
BlockExpires(u) ==
  /\ block[u]
  /\ block' = [block EXCEPT ![u] = FALSE]
  /\ UNCHANGED <<dbVars, queue, cpc, todo, cache, fill, celebrity, now, faults, raced>>

(* The request fails, or its process dies.                                 *)
ReaderFails(i) ==
  /\ i \in Readers /\ fill[i] # Idle
  /\ faults < MaxFaults /\ faults' = faults + 1
  /\ fill' = [fill EXCEPT ![i] = Idle]
  /\ UNCHANGED <<dbVars, queue, cpc, todo, cache, block, celebrity, now, raced>>

-----------------------------------------------------------------------------
(* The feed consumers: update_user_feed_from_event.                        *)

FreeInstance == Cardinality({k \in Partitions : cpc[k] # "poll"}) < Instances

Early(e) == tx[e.of].id = e.id

(* Broken variant of PostEventNotFound: the error is raised, and the event *)
(* is read again when the consumer has restarted.                          *)
PostEventRaises(a) ==
  /\ a \in Authors /\ cpc[a] = "poll" /\ queue[a] # <<>> /\ FreeInstance
  /\ ~Live(Head(queue[a]).of)
  /\ UNCHANGED vars

(* The publication cannot be read: NOT_FOUND is swallowed, the event is    *)
(* consumed without effect.                                                *)
PostEventNotFound(a) ==
  LET e == Head(queue[a]) IN
  /\ a \in Authors /\ cpc[a] = "poll" /\ queue[a] # <<>> /\ FreeInstance
  /\ ~Live(e.of)
  /\ cpc' = [cpc EXCEPT ![a] = "commit"]
  /\ raced' = raced \cup Happened("early_event", Early(e)) \cup
                         Happened("removed_post", ~Early(e) /\ e.type = "REMOVE")
  /\ UNCHANGED <<dbVars, queue, todo, cache, block, fill, celebrity, now, faults>>

(* Or it can be read: the first of three statements.                       *)
PostEventReadsPost(a) ==
  /\ a \in Authors /\ cpc[a] = "poll" /\ queue[a] # <<>> /\ FreeInstance
  /\ Live(Head(queue[a]).of)
  /\ cpc' = [cpc EXCEPT ![a] = "count"]
  /\ UNCHANGED <<dbVars, queue, todo, cache, block, fill, celebrity, now, faults, raced>>

(* The author has too many followers: the publication is passed on to the  *)
(* celebrity topic, whose consumer calls recalculate_celebrity_users_feeds *)
(* with an argument it does not have, fails, and is restarted at the same  *)
(* message: nothing is ever taken from that topic.                         *)
PostEventOfCelebrity(a) ==
  /\ a \in Authors /\ cpc[a] = "count"
  /\ Cardinality(Followers(a)) >= CelebrityMin
  /\ celebrity' = celebrity \cup {Head(queue[a]).of}
  /\ cpc' = [cpc EXCEPT ![a] = "commit"]
  /\ raced' = raced \cup {"celebrity"}
  /\ UNCHANGED <<dbVars, queue, todo, cache, block, fill, now, faults>>

PostEventCounts(a) ==
  /\ a \in Authors /\ cpc[a] = "count"
  /\ Cardinality(Followers(a)) < CelebrityMin
  /\ cpc' = [cpc EXCEPT ![a] = "followers"]
  /\ UNCHANGED <<dbVars, queue, todo, cache, block, fill, celebrity, now, faults, raced>>

(* The ids of the followers are read, who may be others by now ...         *)
PostEventReadsFollowers(a) ==
  /\ a \in Authors /\ cpc[a] = "followers"
  /\ todo' = [todo EXCEPT ![a] = Followers(a)]
  /\ cpc' = [cpc EXCEPT ![a] = IF Followers(a) = {} THEN "commit" ELSE "clear"]
  /\ raced' = raced \cup Happened("early_event", Early(Head(queue[a])))
  /\ UNCHANGED <<dbVars, queue, cache, block, fill, celebrity, now, faults>>

(* Broken variant of ClearChunk: the loop ends with its first chunk.       *)
ClearFirstChunk(a) ==
  /\ cpc[a] = "clear"
  /\ \E us \in SUBSET todo[a] :
       /\ us # {} /\ Cardinality(us) <= ChunkSize
       /\ us = todo[a] \/ Cardinality(us) = ChunkSize
       /\ cache' = [u \in Users |-> IF u \in us THEN NoFeed ELSE cache[u]]
       /\ Overtake(us)
       /\ todo' = [todo EXCEPT ![a] = {}]
       /\ cpc' = [cpc EXCEPT ![a] = "commit"]
  /\ UNCHANGED <<dbVars, queue, block, celebrity, now, faults, raced>>

(* Broken variant of ClearChunk: the keys are only read.                   *)
ClearNothing(a) ==
  /\ cpc[a] = "clear"
  /\ todo' = [todo EXCEPT ![a] = {}]
  /\ cpc' = [cpc EXCEPT ![a] = "commit"]
  /\ UNCHANGED <<dbVars, queue, cache, block, fill, celebrity, now, faults, raced>>

(* ... and their cached feeds are unlinked, a chunk at a time.             *)
ClearChunk(a) ==
  /\ cpc[a] = "clear"
  /\ \E us \in SUBSET todo[a] :
       /\ us # {} /\ Cardinality(us) <= ChunkSize
       /\ us = todo[a] \/ Cardinality(us) = ChunkSize
       /\ cache' = [u \in Users |-> IF u \in us THEN NoFeed ELSE cache[u]]
       /\ Overtake(us)
       /\ todo' = [todo EXCEPT ![a] = @ \ us]
       /\ cpc' = [cpc EXCEPT ![a] = IF us = todo[a] THEN "commit" ELSE "clear"]
  /\ UNCHANGED <<dbVars, queue, block, celebrity, now, faults, raced>>

Cached(u, ts) == cache[u] # NoFeed /\ cache[u].ts < ts

(* A friendship changed and the cached feed is older than the event: the   *)
(* feed is computed again.                                                 *)
FriendEventRefills(u) ==
  LET e == Head(queue[u]) IN
  /\ u \in Users /\ cpc[u] = "poll" /\ queue[u] # <<>> /\ FreeInstance
  /\ Cached(u, e.ts)
  /\ fill' = [i \in Fillers |->
       IF i = u THEN Start(u)
       ELSE IF fill[i].pc \in {"check", "block", "store"} /\ fill[i].user = u
               /\ fill[i].items # Feed(u)
              THEN [fill[i] EXCEPT !.late = TRUE]
              ELSE fill[i]]
  /\ cpc' = [cpc EXCEPT ![u] = "refill"]
  /\ raced' = raced \cup Happened("early_event", Early(e))
  /\ UNCHANGED <<dbVars, queue, todo, cache, block, celebrity, now, faults>>

(* No cached feed, or one that is not older than the event.                *)
FriendEventSkips(u) ==
  LET e == Head(queue[u]) IN
  /\ u \in Users /\ cpc[u] = "poll" /\ queue[u] # <<>> /\ FreeInstance
  /\ ~Cached(u, e.ts)
  /\ Overtake({u})
  /\ cpc' = [cpc EXCEPT ![u] = "commit"]
  /\ raced' = raced \cup Happened("early_event", Early(e)) \cup
       Happened("newer_cache", cache[u] # NoFeed /\ cache[u].items # Feed(u))
  /\ UNCHANGED <<dbVars, queue, todo, cache, block, celebrity, now, faults>>

(* The offset is committed after the event was processed.                  *)
ConsumerCommits(k) ==
  /\ cpc[k] = "commit"
  /\ queue' = [queue EXCEPT ![k] = Tail(@)]
  /\ cpc' = [cpc EXCEPT ![k] = "poll"]
  /\ UNCHANGED <<dbVars, todo, cache, block, fill, celebrity, now, faults, raced>>

(* Processing fails, or the process dies: the event is read again.         *)
ConsumerFails(k) ==
  /\ cpc[k] # "poll"
  /\ faults < MaxFaults /\ faults' = faults + 1
  /\ cpc' = [cpc EXCEPT ![k] = "poll"]
  /\ todo' = [todo EXCEPT ![k] = {}]
  /\ fill' = IF k \in Users THEN [fill EXCEPT ![k] = Idle] ELSE fill
  /\ UNCHANGED <<dbVars, queue, cache, block, celebrity, now, raced>>

Tick ==
  /\ now < MaxTime /\ now' = now + 1
  /\ UNCHANGED <<dbVars, queue, cpc, todo, cache, block, fill, celebrity, faults, raced>>

-----------------------------------------------------------------------------
Request ==
  \/ \E p \in Posts : CreatePost(p) \/ UpdatePost(p) \/ RemovePost(p)
  \/ \E f \in Friendships : AddFriend(f) \/ RemoveFriend(f)
  \/ \E s \in Posts \cup Friendships : Abort(s)

FillStep(i) ==
  \/ FillRead(i) \/ FillSkips(i) \/ FillChecks(i) \/ FillBlocks(i)
  \/ FillStores(i) \/ FillUnblocks(i)

ConsumerStep(k) ==
  \/ PostEventNotFound(k) \/ PostEventReadsPost(k)
  \/ PostEventOfCelebrity(k) \/ PostEventCounts(k) \/ PostEventReadsFollowers(k)
  \/ ClearChunk(k) \/ FriendEventRefills(k) \/ FriendEventSkips(k) \/ ConsumerCommits(k)

Next ==
  \/ Request
  \/ \E s \in Posts \cup Friendships : Commit(s)
  \/ \E i \in Readers : ReaderMiss(i) \/ ReaderFails(i)
  \/ \E i \in Fillers : FillStep(i)
  \/ \E k \in Partitions : ConsumerStep(k) \/ ConsumerFails(k) \/ LoseEvent(k)
  \/ \E u \in Users : BlockExpires(u)
  \/ Tick

Spec == Init /\ [][Next]_vars

(* Every process keeps running its requests, computations and consumer.    *)
Fairness ==
  /\ \A s \in Posts \cup Friendships : WF_vars(Commit(s) \/ Abort(s))
  /\ \A i \in Fillers : WF_vars(FillStep(i))
  /\ \A k \in Partitions : WF_vars(ConsumerStep(k))

FairSpec == Spec /\ Fairness

-----------------------------------------------------------------------------
(* Properties.                                                             *)

Quiet ==
  /\ \A s \in Posts \cup Friendships : tx[s] = NoTx
  /\ \A k \in Partitions : queue[k] = <<>>
  /\ \A i \in Fillers : fill[i] = Idle

Fresh(u) == cache[u] = NoFeed \/ cache[u].items = Feed(u)

(* Once all requests, events and computations are over, a cached feed      *)
(* shows exactly the friends' publications, unless one of the named races  *)
(* happened: invalidation and recomputation have no other gap.             *)
FreshUnlessRaced == Quiet /\ raced = {} => \A u \in Users : Fresh(u)

(* Every event sent to the user and publication topics is consumed, with   *)
(* failures of the consumers and block keys in the way.                    *)
EventuallyConsumed == \A k \in Partitions : queue[k] # <<>> ~> queue[k] = <<>>
=============================================================================
