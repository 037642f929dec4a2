------------------------------ MODULE FeedProofs ------------------------------
(***************************************************************************)
(* Type correctness of the friends' feed, and the completeness of the list *)
(* of races, for any number of users, authors, publications, requests,     *)
(* readers, consumers and faults.                                          *)
(***************************************************************************)
EXTENDS FeedCache, SequenceTheorems, TLAPS

Rows == Posts \cup Friendships

(* A transaction that writes a text finds room for one more.               *)
Bounded == \A p \in Posts : tx[p].type \in {"ADD", "UPDATE"} => post[p] < MaxVersion

(* The partition of an author carries events of its publications.          *)
Addressed ==
  \A a \in Authors : \A i \in 1..Len(queue[a]) :
    queue[a][i].of \in Posts /\ queue[a][i].of[1] = a

(* A consumer that is not polling has an event in hand, and computes a     *)
(* feed for nobody but the user of that event.                             *)
InHand ==
  /\ \A k \in Partitions : cpc[k] # "poll" => queue[k] # <<>>
  /\ \A u \in Users : fill[u] # Idle => cpc[u] = "refill" /\ fill[u].user = u

Shape == TypeOK /\ Bounded /\ Addressed /\ InHand

-----------------------------------------------------------------------------
(* Rows, their partitions, and the two kinds of them.                      *)
LEMMA Keys ==
  /\ \A p \in Posts : p \in Rows /\ p[1] \in Authors /\ p[1] \in Partitions
  /\ \A f \in Friendships : /\ f \in Rows /\ f \notin Posts
                            /\ f[1] \in Users /\ f[1] \in Partitions /\ f[1] \notin Authors
  BY FeedAssumption DEF Posts, Friendships, Rows, Partitions

LEMMA FeedTyped ==
  ASSUME TypeOK, NEW u \in Users
  PROVE  Feed(u) \in FeedItems
<1>1. \A p \in Posts : Live(p) => <<p, post[p]>> \in Posts \X (1..MaxVersion)
  BY DEF Live
<1>2. Feed(u) \subseteq Posts \X (1..MaxVersion)
  BY <1>1 DEF Feed
<1>3. QED
  BY <1>2 DEF FeedItems

(* A computation that is somewhere is one.                                 *)
LEMMA UnderWay ==
  ASSUME TypeOK, NEW i \in Fillers
  PROVE  /\ fill[i] = Idle \/ fill[i] \in Computations
         /\ fill[i] = Idle <=> fill[i].pc = "idle"
  BY DEF TypeOK, Idle, Computations

(* The first event of a partition that has one.                            *)
LEMMA InFront ==
  ASSUME TypeOK, NEW k \in Partitions
  PROVE  /\ queue[k] \in Seq(Events) /\ Len(queue[k]) \in Nat
         /\ queue[k] # <<>> => /\ Len(queue[k]) > 0 /\ Head(queue[k]) = queue[k][1]
                              /\ queue[k][1] \in Events
<1>1. queue[k] \in Seq(Events) /\ Len(queue[k]) \in Nat
  BY DEF TypeOK
<1>2. ASSUME queue[k] # <<>>
      PROVE  Len(queue[k]) > 0 /\ Head(queue[k]) = queue[k][1] /\ queue[k][1] \in Events
  <2>1. Len(queue[k]) > 0
    BY <1>1, <1>2, EmptySeq
  <2>2. QED
    BY <1>1, <1>2, <2>1, ElementOfSeq
<1>3. QED
  BY <1>1, <1>2

(* An event is appended.                                                   *)
LEMMA Sent ==
  ASSUME TypeOK, NEW k \in Partitions, NEW e \in Events,
         queue' = [queue EXCEPT ![k] = Append(@, e)]
  PROVE  /\ queue' \in [Partitions -> Seq(Events)]
         /\ \A j \in Partitions : j # k => queue'[j] = queue[j]
         /\ queue'[k] # <<>> /\ Len(queue'[k]) = Len(queue[k]) + 1
         /\ \A i \in 1..Len(queue[k]) : queue'[k][i] = queue[k][i]
         /\ queue'[k][Len(queue[k]) + 1] = e
<1>1. queue[k] \in Seq(Events) /\ queue'[k] = Append(queue[k], e)
  BY DEF TypeOK
<1>2. \A j \in Partitions : j # k => queue'[j] = queue[j]
  BY DEF TypeOK
<1>3. queue' \in [Partitions -> Seq(Events)]
  BY <1>1 DEF TypeOK
<1>4. QED
  BY <1>1, <1>2, <1>3, AppendProperties

(* The first event is dropped, the others move up.                         *)
LEMMA Consumed ==
  ASSUME TypeOK, NEW k \in Partitions, queue[k] # <<>>,
         queue' = [queue EXCEPT ![k] = Tail(@)]
  PROVE  /\ queue' \in [Partitions -> Seq(Events)]
         /\ \A j \in Partitions : j # k => queue'[j] = queue[j]
         /\ Len(queue'[k]) = Len(queue[k]) - 1
         /\ \A i \in 1..Len(queue[k]) - 1 : queue'[k][i] = queue[k][i + 1]
<1>1. queue[k] \in Seq(Events) /\ queue'[k] = Tail(queue[k])
  BY DEF TypeOK
<1>2. \A j \in Partitions : j # k => queue'[j] = queue[j]
  BY DEF TypeOK
<1>3. /\ Tail(queue[k]) \in Seq(Events) /\ Len(Tail(queue[k])) = Len(queue[k]) - 1
      /\ \A i \in 1..Len(queue[k]) - 1 : Tail(queue[k])[i] = queue[k][i + 1]
  BY <1>1, HeadTailProperties
<1>4. queue' \in [Partitions -> Seq(Events)]
  BY <1>3 DEF TypeOK
<1>5. QED
  BY <1>1, <1>2, <1>3, <1>4

(* The last event is lost.                                                 *)
LEMMA Lost ==
  ASSUME TypeOK, NEW k \in Partitions, queue[k] # <<>>,
         queue' = [queue EXCEPT ![k] = SubSeq(@, 1, Len(@) - 1)]
  PROVE  /\ queue' \in [Partitions -> Seq(Events)]
         /\ \A j \in Partitions : j # k => queue'[j] = queue[j]
         /\ Len(queue'[k]) = Len(queue[k]) - 1
         /\ \A i \in 1..Len(queue[k]) - 1 : queue'[k][i] = queue[k][i]
<1>1. /\ queue[k] \in Seq(Events) /\ Len(queue[k]) \in Nat /\ Len(queue[k]) > 0
      /\ queue'[k] = SubSeq(queue[k], 1, Len(queue[k]) - 1)
  BY InFront DEF TypeOK
<1>2. \A j \in Partitions : j # k => queue'[j] = queue[j]
  BY DEF TypeOK
<1>3. \A i \in 1..Len(queue[k]) - 1 : queue[k][i] \in Events
  BY <1>1, ElementOfSeq
<1>4. /\ queue'[k] \in Seq(Events) /\ Len(queue'[k]) = Len(queue[k]) - 1
      /\ \A i \in 1..Len(queue[k]) - 1 : queue'[k][i] = queue[k][i]
  <2> DEFINE n == Len(queue[k]) - 1
  <2>1. /\ SubSeq(queue[k], 1, n) \in Seq(Events)
        /\ Len(SubSeq(queue[k], 1, n)) = IF 1 <= n THEN n - 1 + 1 ELSE 0
        /\ \A i \in 1..n - 1 + 1 : SubSeq(queue[k], 1, n)[i] = queue[k][1 + i - 1]
    BY <1>1, <1>3, SubSeqProperties
  <2>2. QED
    BY <1>1, <2>1
<1>5. queue' \in [Partitions -> Seq(Events)]
  BY <1>2, <1>4 DEF TypeOK
<1>6. QED
  BY <1>2, <1>4, <1>5

-----------------------------------------------------------------------------
LEMMA InitShape == Init => Shape
<1> SUFFICES ASSUME Init PROVE Shape
  OBVIOUS
<1> USE FeedAssumption DEF Init
<1>1. TypeOK
  <2>1. post \in [Posts -> 0..Removed]
    BY DEF Removed
  <2>2. tx \in [Posts \cup Friendships -> Transactions]
    BY DEF Transactions
  <2>3. queue \in [Partitions -> Seq(Events)]
    BY EmptySeq
  <2>4. fill \in [Fillers -> {Idle} \cup Computations]
    OBVIOUS
  <2>5. cache \in [Users -> {NoFeed} \cup Feeds] /\ block \in [Users -> BOOLEAN]
    OBVIOUS
  <2>6. QED
    BY <2>1, <2>2, <2>3, <2>4, <2>5 DEF TypeOK
<1>2. Bounded
  BY DEF Bounded, NoTx
<1>3. Addressed
  BY DEF Addressed, Partitions
<1>4. InHand
  BY DEF InHand, Fillers
<1>5. QED
  BY <1>1, <1>2, <1>3, <1>4 DEF Shape

(* A request opens its transaction and sends its event.                    *)
LEMMA WriteShape ==
  ASSUME Shape, NEW s \in Rows, NEW type \in Kinds, Write(s, s[1], type),
         s \in Posts /\ type # "REMOVE" => post[s] < MaxVersion
  PROVE  Shape'
<1> DEFINE e == [id |-> requests + 1, type |-> type, of |-> s, ts |-> now]
<1> USE FeedAssumption
<1>1. s[1] \in Partitions
  BY Keys DEF Rows
<1>2. e \in Events /\ requests + 1 \in 1..MaxRequests
  BY DEF Shape, TypeOK, Write, Events, Rows
<1>3. queue' = [queue EXCEPT ![s[1]] = Append(@, e)]
  BY DEF Write
<1> HIDE DEF e
<1>4. /\ queue' \in [Partitions -> Seq(Events)]
      /\ \A j \in Partitions : j # s[1] => queue'[j] = queue[j]
      /\ queue'[s[1]] # <<>> /\ Len(queue'[s[1]]) = Len(queue[s[1]]) + 1
      /\ \A i \in 1..Len(queue[s[1]]) : queue'[s[1]][i] = queue[s[1]][i]
      /\ queue'[s[1]][Len(queue[s[1]]) + 1] = e
  BY <1>1, <1>2, <1>3, Sent DEF Shape
<1>5. tx' = [tx EXCEPT ![s] = [id |-> requests + 1, type |-> type]]
  BY DEF Write
<1>6. tx' \in [Posts \cup Friendships -> Transactions]
  BY <1>2, <1>5 DEF Shape, TypeOK, Transactions
<1>7. TypeOK'
  BY <1>2, <1>4, <1>6 DEF Write, Shape, TypeOK
<1>8. Bounded'
  BY <1>5, Keys DEF Shape, TypeOK, Bounded, Write, Rows
<1>10. Addressed'
  <2> SUFFICES ASSUME NEW a \in Authors, NEW i \in 1..Len(queue'[a])
               PROVE  queue'[a][i].of \in Posts /\ queue'[a][i].of[1] = a
    BY DEF Addressed
  <2>1. CASE a # s[1]
    BY <1>4, <2>1 DEF Shape, Addressed, Partitions
  <2>2. CASE a = s[1]
    <3>1. s \in Posts /\ e.of = s
      BY <2>2, Keys DEF Rows, e
    <3>2. i = Len(queue[a]) + 1 \/ i \in 1..Len(queue[a])
      BY <1>1, <1>4, <2>2, InFront DEF Shape
    <3>3. QED
      BY <1>4, <2>2, <3>1, <3>2 DEF Shape, Addressed
  <2>3. QED
    BY <2>1, <2>2
<1>11. InHand'
  <2>1. \A k \in Partitions : cpc'[k] # "poll" => queue'[k] # <<>>
    BY <1>4 DEF Shape, InHand, Write
  <2>2. QED
    BY <2>1 DEF Shape, InHand, Write
<1>12. QED
  BY <1>7, <1>8, <1>10, <1>11 DEF Shape

(* The invalidation of us comes too early for a computation: it is marked, *)
(* and differs in its mark only.                                           *)
Overtakes(us, i) ==
  /\ fill[i].pc \in {"check", "block", "store"} /\ fill[i].user \in us
  /\ fill[i].items # Feed(fill[i].user)

Mark(c) == [c EXCEPT !.late = TRUE]

(* What c has in common with the computation of i, after it.               *)
Follows(us, i, c) ==
  /\ c \in {Idle} \cup Computations
  /\ c = Idle <=> fill[i] = Idle
  /\ c.pc = fill[i].pc
  /\ fill[i] # Idle => c.user = fill[i].user /\ c.items = fill[i].items
  /\ fill[i] = Idle \/ fill[i].user \notin us \/ fill[i].pc = "read" => c = fill[i]
  /\ fill[i].pc \in {"check", "block", "store"} =>
       /\ ~c.late => ~fill[i].late
       /\ fill[i].user \in us => c.late \/ fill[i].items = Feed(fill[i].user)

LEMMA Marked ==
  ASSUME NEW c \in Computations
  PROVE  /\ Mark(c) \in Computations /\ Mark(c).late
         /\ Mark(c).pc = c.pc /\ Mark(c).user = c.user /\ Mark(c).items = c.items
  BY DEF Computations, Mark

LEMMA MarkedOrSame ==
  ASSUME TypeOK, NEW us, NEW i \in Fillers
  PROVE  Follows(us, i, IF Overtakes(us, i) THEN Mark(fill[i]) ELSE fill[i])
<1>1. CASE Overtakes(us, i)
  <2>1. fill[i] \in Computations /\ fill[i] # Idle
    BY <1>1, UnderWay DEF Overtakes, Idle
  <2>2. /\ Mark(fill[i]) \in Computations /\ Mark(fill[i]).late
        /\ Mark(fill[i]).pc = fill[i].pc
        /\ Mark(fill[i]).user = fill[i].user /\ Mark(fill[i]).items = fill[i].items
    BY <2>1, Marked
  <2>3. Mark(fill[i]) # Idle
    BY <1>1, <2>2 DEF Overtakes, Idle
  <2>4. Follows(us, i, Mark(fill[i]))
    BY <1>1, <2>1, <2>2, <2>3 DEF Overtakes, Follows
  <2>5. QED
    BY <1>1, <2>4
<1>2. CASE ~Overtakes(us, i)
  <2>1. Follows(us, i, fill[i])
    BY <1>2, UnderWay DEF Overtakes, Follows
  <2>2. QED
    BY <1>2, <2>1
<1>3. QED
  BY <1>1, <1>2

LEMMA Overtaken ==
  ASSUME TypeOK, NEW us, Overtake(us)
  PROVE  /\ fill' \in [Fillers -> {Idle} \cup Computations]
         /\ \A i \in Fillers : Follows(us, i, fill'[i])
<1>1. fill' = [i \in Fillers |-> IF Overtakes(us, i) THEN Mark(fill[i]) ELSE fill[i]]
  BY DEF Overtake, Overtakes, Mark
<1>2. \A i \in Fillers : Follows(us, i, fill'[i])
  BY <1>1, MarkedOrSame
<1>3. QED
  BY <1>1, <1>2 DEF Follows

(* The consumer of a user starts a computation, which overtakes others.    *)
LEMMA Restarted ==
  ASSUME TypeOK, NEW u \in Users, FriendEventRefills(u)
  PROVE  /\ fill' \in [Fillers -> {Idle} \cup Computations]
         /\ fill'[u] = Start(u)
         /\ \A i \in Fillers \ {u} : Follows({u}, i, fill'[i])
<1>1. fill' = [i \in Fillers |->
                IF i = u THEN Start(u)
                ELSE IF Overtakes({u}, i) THEN Mark(fill[i]) ELSE fill[i]]
  <2>1. \A i \in Fillers : Overtakes({u}, i) <=> /\ fill[i].pc \in {"check", "block", "store"}
                                               /\ fill[i].user = u /\ fill[i].items # Feed(u)
    BY DEF Overtakes
  <2>2. QED
    BY <2>1 DEF FriendEventRefills, Mark
<1>2. u \in Fillers /\ fill'[u] = Start(u)
  BY <1>1 DEF Fillers
<1>3. Start(u) \in Computations
  BY FeedAssumption DEF Start, Computations, FeedItems
<1>4. \A i \in Fillers \ {u} : Follows({u}, i, fill'[i])
  BY <1>1, MarkedOrSame
<1>5. \A i \in Fillers : fill'[i] \in {Idle} \cup Computations
  BY <1>2, <1>3, <1>4 DEF Follows
<1>6. QED
  BY <1>1, <1>2, <1>4, <1>5

(* A step of no request and no queue leaves publications and their events. *)
LEMMA SameEvents ==
  ASSUME Bounded, Addressed, UNCHANGED <<post, tx, queue>>
  PROVE  Bounded' /\ Addressed'
  BY DEF Bounded, Addressed

LEMMA RequestShape ==
  ASSUME Shape, Request
  PROVE  Shape'
<1> USE FeedAssumption
<1>1. ASSUME NEW p \in Posts, CreatePost(p) PROVE Shape'
  <2>1. p \in Rows /\ "ADD" \in Kinds /\ post[p] < MaxVersion /\ Write(p, p[1], "ADD")
    BY <1>1 DEF CreatePost, Rows, Kinds
  <2>2. QED
    BY <2>1, WriteShape
<1>2. ASSUME NEW p \in Posts, UpdatePost(p) PROVE Shape'
  <2>1. p \in Rows /\ "UPDATE" \in Kinds /\ post[p] < MaxVersion /\ Write(p, p[1], "UPDATE")
    BY <1>2 DEF UpdatePost, Rows, Kinds
  <2>2. QED
    BY <2>1, WriteShape
<1>3. ASSUME NEW p \in Posts, RemovePost(p) PROVE Shape'
  <2>1. p \in Rows /\ "REMOVE" \in Kinds /\ Write(p, p[1], "REMOVE")
    BY <1>3 DEF RemovePost, Rows, Kinds
  <2>2. QED
    BY <2>1, WriteShape
<1>4. ASSUME NEW f \in Friendships, AddFriend(f) \/ RemoveFriend(f) PROVE Shape'
  <2>1. PICK type \in Kinds : Write(f, f[1], type)
    BY <1>4 DEF AddFriend, RemoveFriend, Kinds
  <2>2. f \in Rows /\ f \notin Posts
    BY Keys
  <2>3. QED
    BY <2>1, <2>2, WriteShape
<1>5. ASSUME NEW s \in Rows, Abort(s) PROVE Shape'
  <2>1. TypeOK'
    BY <1>5 DEF Abort, Shape, TypeOK, Rows, Transactions
  <2>2. Bounded' /\ Addressed' /\ InHand'
    BY <1>5 DEF Abort, Shape, TypeOK, Rows, Bounded, NoTx, Addressed, InHand
  <2>3. QED
    BY <2>1, <2>2 DEF Shape
<1>6. QED
  BY <1>1, <1>2, <1>3, <1>4, <1>5 DEF Request, Rows

LEMMA CommitShape ==
  ASSUME Shape, NEW s \in Rows, Commit(s)
  PROVE  Shape'
<1> USE FeedAssumption
<1>1. tx' = [tx EXCEPT ![s] = NoTx] /\ tx' \in [Posts \cup Friendships -> Transactions]
  BY DEF Commit, Shape, TypeOK, Rows, Transactions
<1>2. tx[s] \in [id : 1..MaxRequests, type : Kinds]
  BY DEF Commit, Shape, TypeOK, Rows, Transactions
<1>3. post' \in [Posts -> 0..Removed]
  <2>1. CASE s \in Posts
    <3>1. post[s] \in 0..Removed /\ Removed \in Nat
      BY <2>1 DEF Shape, TypeOK, Removed
    <3>2. tx[s].type # "REMOVE" => post[s] < MaxVersion
      BY <1>2, <2>1 DEF Shape, Bounded, Kinds
    <3>3. (IF tx[s].type = "REMOVE" THEN Removed ELSE post[s] + 1) \in 0..Removed
      BY <3>1, <3>2 DEF Removed
    <3>4. QED
      BY <2>1, <3>3 DEF Commit, Shape, TypeOK
  <2>2. CASE s \notin Posts
    BY <2>2 DEF Commit, Shape, TypeOK
  <2>3. QED
    BY <2>1, <2>2
<1>4. follows' \subseteq Friendships
  BY DEF Commit, Shape, TypeOK, Rows
<1>5. TypeOK'
  BY <1>1, <1>3, <1>4 DEF Commit, Shape, TypeOK
<1>6. Bounded'
  BY <1>1 DEF Commit, Shape, TypeOK, Rows, Bounded, NoTx
<1>7. Addressed' /\ InHand'
  BY DEF Commit, Shape, Addressed, InHand
<1>8. QED
  BY <1>5, <1>6, <1>7 DEF Shape

(* A computation takes a step: it goes on, or it ends.                     *)
LEMMA FillShape ==
  ASSUME Shape, NEW i \in Fillers, FillStep(i)
  PROVE  Shape'
<1> USE FeedAssumption
<1>1. /\ fill[i] \in Computations /\ fill[i] # Idle
      /\ fill[i].user \in Users /\ fill[i].items \in FeedItems /\ fill[i].ts \in 0..MaxTime
  <2>1. fill[i].pc # "idle"
    BY DEF FillStep, FillRead, FillSkips, FillChecks, FillBlocks, FillStores, FillUnblocks
  <2>2. QED
    BY <2>1, UnderWay DEF Shape, Computations
<1>2. ASSUME EndFill(i)
      PROVE  /\ fill' \in [Fillers -> {Idle} \cup Computations]
             /\ cpc' \in [Partitions -> {"poll", "count", "followers", "clear", "refill", "commit"}]
             /\ \A k \in Partitions : cpc'[k] # "poll" => cpc[k] # "poll"
             /\ \A u \in Users : fill'[u] # Idle => fill'[u] = fill[u] /\ cpc'[u] = cpc[u]
  <2>1. /\ fill' = [fill EXCEPT ![i] = Idle]
        /\ cpc' = IF i \in Users THEN [cpc EXCEPT ![i] = "commit"] ELSE cpc
    BY <1>2 DEF EndFill
  <2>2. i \in Users => cpc[i] = "refill"
    BY <1>1 DEF Shape, InHand
  <2>3. QED
    BY <2>1, <2>2 DEF Shape, TypeOK, Fillers, Partitions
<1>3. CASE FillRead(i)
  <2>1. Feed(fill[i].user) \in FeedItems /\ now \in 0..MaxTime
    BY <1>1, FeedTyped DEF Shape, TypeOK
  <2>2. fill' \in [Fillers -> {Idle} \cup Computations]
    BY <1>1, <1>3, <2>1 DEF FillRead, Shape, TypeOK, Computations
  <2>3. \A u \in Users : fill'[u] # Idle => fill[u] # Idle /\ fill'[u].user = fill[u].user
    BY <1>1, <1>3 DEF FillRead, Shape, TypeOK, Computations, Fillers
  <2>4. TypeOK'
    BY <1>3, <2>2 DEF FillRead, Shape, TypeOK, dbVars
  <2>5. Bounded' /\ Addressed' /\ InHand'
    BY <1>3, <2>3, SameEvents DEF FillRead, Shape, InHand, dbVars
  <2>6. QED
    BY <2>4, <2>5 DEF Shape
<1>4. CASE FillChecks(i) \/ FillBlocks(i) \/ FillStores(i)
  <2>1. PICK pc \in {"block", "store", "unblock"} : fill' = [fill EXCEPT ![i].pc = pc]
    BY <1>4 DEF FillChecks, FillBlocks, FillStores
  <2>2. fill' \in [Fillers -> {Idle} \cup Computations]
    BY <1>1, <2>1 DEF Shape, TypeOK, Computations
  <2>3. \A u \in Users : fill'[u] # Idle => fill[u] # Idle /\ fill'[u].user = fill[u].user
    BY <1>1, <2>1 DEF Shape, TypeOK, Computations, Fillers
  <2>4. cache' \in [Users -> {NoFeed} \cup Feeds] /\ block' \in [Users -> BOOLEAN]
    <3>1. CASE FillChecks(i) \/ FillBlocks(i)
      BY <3>1 DEF FillChecks, FillBlocks, Shape, TypeOK
    <3>2. CASE FillStores(i)
      <4>1. [items |-> fill[i].items, ts |-> fill[i].ts] \in Feeds
        BY <1>1 DEF Feeds
      <4>2. QED
        BY <3>2, <4>1 DEF FillStores, Shape, TypeOK
    <3>3. QED
      BY <1>4, <3>1, <3>2
  <2>5. raced' \subseteq Races
    BY <1>4 DEF FillChecks, FillBlocks, FillStores, Shape, TypeOK, Happened, Races
  <2>6. UNCHANGED <<dbVars, queue, cpc, todo, celebrity, now, faults>>
    BY <1>4 DEF FillChecks, FillBlocks, FillStores
  <2>7. TypeOK'
    BY <2>2, <2>4, <2>5, <2>6 DEF Shape, TypeOK, dbVars
  <2>8. Bounded' /\ Addressed' /\ InHand'
    BY <2>3, <2>6, SameEvents DEF Shape, InHand, dbVars
  <2>9. QED
    BY <2>7, <2>8 DEF Shape
<1>5. CASE FillSkips(i) \/ FillUnblocks(i)
  <2>1. EndFill(i)
    BY <1>5 DEF FillSkips, FillUnblocks
  <2>2. block' \in [Users -> BOOLEAN]
    BY <1>1, <1>5 DEF FillSkips, FillUnblocks, Shape, TypeOK
  <2>3. raced' \subseteq Races
    BY <1>5 DEF FillSkips, FillUnblocks, Shape, TypeOK, Happened, Races
  <2>4. UNCHANGED <<dbVars, queue, todo, cache, celebrity, now, faults>>
    BY <1>5 DEF FillSkips, FillUnblocks
  <2>5. TypeOK'
    BY <1>2, <2>1, <2>2, <2>3, <2>4 DEF Shape, TypeOK, dbVars
  <2>6. Bounded' /\ Addressed' /\ InHand'
    BY <1>2, <2>1, <2>4, SameEvents DEF Shape, InHand, dbVars
  <2>7. QED
    BY <2>5, <2>6 DEF Shape
<1>6. QED
  BY <1>3, <1>4, <1>5 DEF FillStep

(* A consumer takes a step.                                                *)
PostEventStep(a) ==
  \/ PostEventNotFound(a) \/ PostEventReadsPost(a)
  \/ PostEventOfCelebrity(a) \/ PostEventCounts(a) \/ PostEventReadsFollowers(a)

LEMMA ConsumerShape ==
  ASSUME Shape, NEW k \in Partitions, ConsumerStep(k)
  PROVE  Shape'
<1> USE FeedAssumption
<1>1. ASSUME queue[k] # <<>>
      PROVE  /\ Head(queue[k]) = queue[k][1] /\ queue[k][1] \in Events
             /\ k \in Authors => queue[k][1].of \in Posts
  <2>1. Len(queue[k]) > 0 /\ Len(queue[k]) \in Nat
    BY <1>1, InFront DEF Shape
  <2>2. QED
    BY <1>1, <2>1, InFront DEF Shape, Addressed
<1>2. CASE PostEventStep(k)
  <2> USE DEF PostEventStep, PostEventNotFound, PostEventReadsPost, PostEventOfCelebrity,
              PostEventCounts, PostEventReadsFollowers
  <2>1. k \in Authors /\ queue[k] # <<>> /\ k \notin Users
    BY <1>2 DEF Shape, InHand, Partitions
  <2>2. UNCHANGED <<dbVars, queue, cache, block, fill, now, faults>>
    BY <1>2
  <2>3. PICK pc \in {"count", "followers", "clear", "commit"} : cpc' = [cpc EXCEPT ![k] = pc]
    BY <1>2
  <2>4. celebrity' \subseteq Posts
    BY <1>1, <1>2, <2>1 DEF Shape, TypeOK
  <2>5. todo' \in [Partitions -> SUBSET Users]
    <3>1. PICK us \in SUBSET Users : todo' = todo \/ todo' = [todo EXCEPT ![k] = us]
      BY <1>2 DEF Followers
    <3>2. QED
      BY <3>1 DEF Shape, TypeOK
  <2>6. raced' \subseteq Races
    BY <1>2 DEF Shape, TypeOK, Happened, Races
  <2>7. TypeOK'
    BY <2>2, <2>3, <2>4, <2>5, <2>6 DEF Shape, TypeOK, dbVars
  <2>8. Bounded' /\ Addressed' /\ InHand'
    BY <2>1, <2>2, <2>3, SameEvents DEF Shape, TypeOK, InHand, dbVars, Partitions
  <2>9. QED
    BY <2>7, <2>8 DEF Shape
<1>3. CASE ClearChunk(k)
  <2>1. PICK us \in SUBSET todo[k] :
          /\ cache' = [u \in Users |-> IF u \in us THEN NoFeed ELSE cache[u]]
          /\ Overtake(us)
          /\ todo' = [todo EXCEPT ![k] = @ \ us]
          /\ cpc' = [cpc EXCEPT ![k] = IF us = todo[k] THEN "commit" ELSE "clear"]
    BY <1>3 DEF ClearChunk
  <2>2. UNCHANGED <<dbVars, queue, block, celebrity, now, faults, raced>> /\ cpc[k] = "clear"
    BY <1>3 DEF ClearChunk
  <2>3. fill' \in [Fillers -> {Idle} \cup Computations]
    BY <2>1, Overtaken DEF Shape
  <2>4. \A u \in Users : fill'[u] # Idle => fill[u] # Idle /\ fill'[u].user = fill[u].user
    BY <2>1, Overtaken DEF Shape, Follows, Fillers
  <2>5. TypeOK'
    BY <2>1, <2>2, <2>3 DEF Shape, TypeOK, dbVars
  <2>6. InHand'
    <3>1. \A j \in Partitions : cpc'[j] # "poll" => cpc[j] # "poll"
      BY <2>1, <2>2 DEF Shape, TypeOK
    <3>2. \A u \in Users : cpc[u] = "refill" => cpc'[u] = "refill"
      BY <2>1, <2>2 DEF Shape, TypeOK, Partitions
    <3>3. QED
      BY <2>2, <2>4, <3>1, <3>2 DEF Shape, InHand
  <2>7. QED
    BY <2>2, <2>5, <2>6, SameEvents DEF Shape, dbVars
<1>4. CASE FriendEventRefills(k)
  <2>1. k \in Users /\ cpc[k] = "poll" /\ queue[k] # <<>>
    BY <1>4 DEF FriendEventRefills
  <2>2. cpc' = [cpc EXCEPT ![k] = "refill"] /\ UNCHANGED <<dbVars, queue, todo, cache, block,
                                                          celebrity, now, faults>>
    BY <1>4 DEF FriendEventRefills
  <2>3. /\ fill' \in [Fillers -> {Idle} \cup Computations] /\ fill'[k].user = k
        /\ \A u \in Users \ {k} :
             fill'[u] # Idle => fill[u] # Idle /\ fill'[u].user = fill[u].user
    <3>1. /\ fill' \in [Fillers -> {Idle} \cup Computations] /\ fill'[k] = Start(k)
          /\ \A i \in Fillers \ {k} :
               /\ fill'[i] = Idle <=> fill[i] = Idle
               /\ fill[i] # Idle => fill'[i].user = fill[i].user
      BY <1>4, <2>1, Restarted DEF Shape, Follows
    <3>2. Start(k).user = k
      BY DEF Start
    <3>3. QED
      BY <3>1, <3>2 DEF Fillers
  <2>4. raced' \subseteq Races
    BY <1>4 DEF FriendEventRefills, Shape, TypeOK, Happened, Races
  <2>5. TypeOK'
    BY <2>2, <2>3, <2>4 DEF Shape, TypeOK, dbVars
  <2>6. InHand'
    BY <2>1, <2>2, <2>3 DEF Shape, TypeOK, InHand, Partitions
  <2>7. QED
    BY <2>2, <2>5, <2>6, SameEvents DEF Shape, dbVars
<1>5. CASE FriendEventSkips(k)
  <2>1. k \in Users /\ cpc[k] = "poll" /\ queue[k] # <<>>
    BY <1>5 DEF FriendEventSkips
  <2>2. cpc' = [cpc EXCEPT ![k] = "commit"] /\ UNCHANGED <<dbVars, queue, todo, cache, block,
                                                          celebrity, now, faults>>
    BY <1>5 DEF FriendEventSkips
  <2>3. /\ fill' \in [Fillers -> {Idle} \cup Computations]
        /\ \A u \in Users : fill'[u] # Idle => fill[u] # Idle /\ fill'[u].user = fill[u].user
    <3>1. Overtake({k})
      BY <1>5 DEF FriendEventSkips
    <3>2. QED
      BY <3>1, Overtaken DEF Shape, Follows, Fillers
  <2>4. raced' \subseteq Races
    BY <1>5 DEF FriendEventSkips, Shape, TypeOK, Happened, Races
  <2>5. TypeOK'
    BY <2>2, <2>3, <2>4 DEF Shape, TypeOK, dbVars
  <2>6. InHand'
    BY <2>1, <2>2, <2>3 DEF Shape, TypeOK, InHand, Partitions
  <2>7. QED
    BY <2>2, <2>5, <2>6, SameEvents DEF Shape, dbVars
<1>6. CASE ConsumerCommits(k)
  <2>1. /\ cpc[k] = "commit" /\ cpc' = [cpc EXCEPT ![k] = "poll"]
        /\ queue' = [queue EXCEPT ![k] = Tail(@)]
        /\ UNCHANGED <<dbVars, todo, cache, block, fill, celebrity, now, faults, raced>>
    BY <1>6 DEF ConsumerCommits
  <2>2. queue[k] # <<>> /\ Len(queue[k]) \in Nat
    BY <2>1, InFront DEF Shape, InHand
  <2>3. /\ queue' \in [Partitions -> Seq(Events)]
        /\ \A j \in Partitions : j # k => queue'[j] = queue[j]
        /\ Len(queue'[k]) = Len(queue[k]) - 1
        /\ \A i \in 1..Len(queue[k]) - 1 : queue'[k][i] = queue[k][i + 1]
    BY <2>1, <2>2, Consumed DEF Shape
  <2>4. TypeOK'
    BY <2>1, <2>3 DEF Shape, TypeOK, dbVars
  <2>5. Bounded'
    BY <2>1 DEF Shape, Bounded, dbVars
  <2>6. Addressed'
    BY <2>2, <2>3 DEF Shape, Addressed, Partitions
  <2>7. InHand'
    BY <2>1, <2>3 DEF Shape, TypeOK, InHand, Partitions
  <2>8. QED
    BY <2>4, <2>5, <2>6, <2>7 DEF Shape
<1>7. QED
  BY <1>2, <1>3, <1>4, <1>5, <1>6 DEF ConsumerStep, PostEventStep

LEMMA StepShape == Shape /\ [Next]_vars => Shape'
<1> SUFFICES ASSUME Shape, [Next]_vars PROVE Shape'
  OBVIOUS
<1> USE FeedAssumption
<1>1. CASE Request
  BY <1>1, RequestShape
<1>2. ASSUME NEW s \in Posts \cup Friendships, Commit(s) PROVE Shape'
  BY <1>2, CommitShape DEF Rows
<1>3. ASSUME NEW i \in Readers, ReaderMiss(i) PROVE Shape'
  <2>1. PICK u \in Users : fill' = [fill EXCEPT ![i] = Start(u)]
    BY <1>3 DEF ReaderMiss
  <2>2. Start(u) \in Computations
    BY DEF Start, Computations, FeedItems
  <2>3. TypeOK'
    BY <1>3, <2>1, <2>2 DEF ReaderMiss, Shape, TypeOK, dbVars
  <2>4. \A v \in Users : fill'[v] = fill[v]
    BY <2>1 DEF Shape, TypeOK, Fillers
  <2>5. Bounded' /\ Addressed' /\ InHand'
    BY <1>3, <2>4, SameEvents DEF ReaderMiss, Shape, InHand, dbVars
  <2>6. QED
    BY <2>3, <2>5 DEF Shape
<1>4. ASSUME NEW i \in Readers, ReaderFails(i) PROVE Shape'
  <2>1. TypeOK'
    <3>1. fill' \in [Fillers -> {Idle} \cup Computations]
      BY <1>4 DEF ReaderFails, Shape, TypeOK
    <3>2. faults' \in 0..MaxFaults
      BY <1>4 DEF ReaderFails, Shape, TypeOK
    <3>3. QED
      BY <1>4, <3>1, <3>2 DEF ReaderFails, Shape, TypeOK, dbVars
  <2>2. \A v \in Users : fill'[v] = fill[v]
    BY <1>4 DEF ReaderFails, Shape, TypeOK, Fillers
  <2>3. Bounded' /\ Addressed' /\ InHand'
    BY <1>4, <2>2, SameEvents DEF ReaderFails, Shape, InHand, dbVars
  <2>4. QED
    BY <2>1, <2>3 DEF Shape
<1>5. ASSUME NEW i \in Fillers, FillStep(i) PROVE Shape'
  BY <1>5, FillShape
<1>6. ASSUME NEW k \in Partitions, ConsumerStep(k) PROVE Shape'
  BY <1>6, ConsumerShape
<1>7. ASSUME NEW k \in Partitions, ConsumerFails(k) PROVE Shape'
  <2>1. TypeOK'
    BY <1>7 DEF ConsumerFails, Shape, TypeOK, dbVars, Fillers
  <2>2. InHand'
    BY <1>7 DEF ConsumerFails, Shape, TypeOK, InHand, Fillers, Partitions
  <2>3. QED
    BY <1>7, <2>1, <2>2, SameEvents DEF ConsumerFails, Shape, dbVars
<1>8. ASSUME NEW k \in Partitions, LoseEvent(k) PROVE Shape'
  <2>1. /\ queue[k] # <<>> /\ Len(queue[k]) \in Nat
        /\ queue' = [queue EXCEPT ![k] = SubSeq(@, 1, Len(@) - 1)]
    BY <1>8, InFront DEF LoseEvent, Shape
  <2>2. /\ queue' \in [Partitions -> Seq(Events)]
        /\ \A j \in Partitions : j # k => queue'[j] = queue[j]
        /\ Len(queue'[k]) = Len(queue[k]) - 1
        /\ \A i \in 1..Len(queue[k]) - 1 : queue'[k][i] = queue[k][i]
    BY <2>1, Lost DEF Shape
  <2>3. TypeOK'
    BY <1>8, <2>2 DEF LoseEvent, Shape, TypeOK, dbVars, Races
  <2>4. Bounded'
    BY <1>8 DEF LoseEvent, Shape, Bounded, dbVars
  <2>5. Addressed'
    BY <2>1, <2>2 DEF Shape, Addressed, Partitions
  <2>6. InHand'
    <3>1. cpc[k] # "poll" => Len(queue'[k]) > 0
      BY <1>8, <2>1, <2>2 DEF LoseEvent
    <3>2. cpc[k] # "poll" => queue'[k] # <<>>
      BY <3>1, EmptySeq
    <3>3. QED
      BY <1>8, <2>2, <3>2 DEF LoseEvent, Shape, InHand
  <2>7. QED
    BY <2>3, <2>4, <2>5, <2>6 DEF Shape
<1>9. ASSUME NEW u \in Users, BlockExpires(u) PROVE Shape'
  <2>1. TypeOK'
    BY <1>9 DEF BlockExpires, Shape, TypeOK, dbVars
  <2>2. QED
    BY <1>9, <2>1, SameEvents DEF BlockExpires, Shape, InHand, dbVars
<1>10. CASE Tick \/ UNCHANGED vars
  <2>1. TypeOK'
    BY <1>10 DEF Tick, Shape, TypeOK, dbVars, vars
  <2>2. QED
    BY <1>10, <2>1, SameEvents DEF Tick, Shape, InHand, dbVars, vars
<1>11. QED
  BY <1>1, <1>2, <1>3, <1>4, <1>5, <1>6, <1>7, <1>8, <1>9, <1>10 DEF Next

(* TypeOK: whatever the requests, consumers and readers do to each other,  *)
(* posts, events, cached feeds and computations keep their form.           *)
THEOREM TypeCorrect == Spec => []TypeOK
<1>1. Shape => TypeOK
  BY DEF Shape
<1>2. QED
  BY InitShape, StepShape, <1>1, PTL DEF Spec

-----------------------------------------------------------------------------
(* The list of races is complete.  As long as none of them has happened:   *)

(* An event of which no consumer has read what it will work on, but for    *)
(* one that failed.                                                        *)
Reading == {"poll", "count", "followers"}
Unread(k, i) == i > 1 \/ cpc[k] \in Reading

(* An event that will clear the feeds of the followers, or is a race.      *)
Effective(e) == Live(e.of) \/ e.type = "REMOVE"

(* The consumer has yet to come to u on behalf of the event.               *)
Reaches(a, i, u) == Unread(a, i) \/ (cpc[a] = "clear" /\ u \in todo[a])

PostPending(u) ==
  \E a \in Authors :
    /\ <<u, a>> \in follows
    /\ \E i \in 1..Len(queue[a]) : Effective(queue[a][i]) /\ Reaches(a, i, u)

FriendPending(u) == \E i \in 1..Len(queue[u]) : Unread(u, i)

(* An invalidation of the feed of u is to come.                            *)
Covered(u) == PostPending(u) \/ FriendPending(u)

(* The event of an open transaction is unread.                             *)
Announced ==
  \A s \in Rows : tx[s] # NoTx =>
    \E i \in 1..Len(queue[s[1]]) :
      /\ Unread(s[1], i)
      /\ queue[s[1]][i].of = s /\ queue[s[1]][i].id = tx[s].id
      /\ queue[s[1]][i].type = tx[s].type

(* What the consumer of u computes will be stored.                         *)
Refilling(u) ==
  fill[u].pc = "read" \/ (fill[u].pc \in {"check", "block", "store"} /\ ~fill[u].late)

(* Whatever is cached, or about to be, is fresh or will be replaced.       *)
CachesCovered == \A u \in Users : Fresh(u) \/ Covered(u) \/ Refilling(u)

FillCovered(i) ==
  /\ fill[i].pc = "read" => ~fill[i].late
  /\ fill[i].pc \in {"check", "block", "store"} /\ ~fill[i].late =>
       fill[i].items = Feed(fill[i].user) \/ Covered(fill[i].user)

FillsCovered == \A i \in Fillers : FillCovered(i)

Coherent == Announced /\ CachesCovered /\ FillsCovered

IInv == Shape /\ (raced = {} => Coherent)

-----------------------------------------------------------------------------
LEMMA InitIInv == Init => IInv
<1> SUFFICES ASSUME Init PROVE Coherent
  BY InitShape DEF IInv
<1>1. Announced
  BY DEF Init, Announced, Rows
<1>2. CachesCovered
  BY DEF Init, CachesCovered, Fresh
<1>3. FillsCovered
  BY DEF Init, FillsCovered, FillCovered, Idle
<1>4. QED
  BY <1>1, <1>2, <1>3 DEF Coherent

LEMMA SameFeed ==
  ASSUME UNCHANGED <<post, follows>>
  PROVE  \A u \in Users : Feed(u)' = Feed(u)
  BY DEF Feed, Live

(* Events stay where they are, and the consumers have no less to do.       *)
LEMMA StillCovered ==
  ASSUME UNCHANGED <<post, follows, queue>>, NEW u \in Users,
         \A a \in Authors : \A i \in 1..Len(queue[a]) :
           <<u, a>> \in follows /\ Effective(queue[a][i]) /\ Reaches(a, i, u) => Reaches(a, i, u)',
         \A i \in 1..Len(queue[u]) : Unread(u, i) => Unread(u, i)'
  PROVE  Covered(u) => Covered(u)'
<1>1. \A e : Effective(e)' <=> Effective(e)
  BY DEF Effective, Live
<1>2. PostPending(u) => PostPending(u)'
  BY <1>1 DEF PostPending
<1>3. FriendPending(u) => FriendPending(u)'
  BY DEF FriendPending
<1>4. QED
  BY <1>2, <1>3 DEF Covered

(* The consumers do nothing that matters.                                  *)
LEMMA SameCover ==
  ASSUME Announced, UNCHANGED <<post, follows, tx, queue, todo>>,
         \A k \in Partitions : /\ cpc[k] \in Reading => cpc'[k] \in Reading
                               /\ cpc[k] = "clear" => cpc'[k] = "clear"
  PROVE  /\ Announced'
         /\ \A u \in Users : Feed(u)' = Feed(u) /\ (Covered(u) => Covered(u)')
<1>1. \A k \in Partitions : \A i : Unread(k, i) => Unread(k, i)'
  BY DEF Unread
<1>2. \A k \in Partitions : \A i, u : Reaches(k, i, u) => Reaches(k, i, u)'
  BY <1>1 DEF Reaches
<1>3. Announced'
  <2>1. \A s \in Rows : s[1] \in Partitions
    BY Keys DEF Rows
  <2>2. QED
    BY <1>1, <2>1 DEF Announced
<1>4. \A u \in Users : Covered(u) => Covered(u)'
  BY <1>1, <1>2, StillCovered DEF Partitions
<1>5. QED
  BY <1>3, <1>4, SameFeed

(* Users of computations under way.                                        *)
LEMMA FillUser ==
  ASSUME TypeOK, NEW i \in Fillers, fill[i].pc \in {"check", "block", "store"}
  PROVE  fill[i].user \in Users
  BY UnderWay DEF Idle, Computations

(* Nothing is cached or computed, and nothing covered less.                *)
LEMMA SameFills ==
  ASSUME TypeOK, Coherent, UNCHANGED <<post, follows, cache, fill>>, Announced',
         \A u \in Users : Covered(u) => Covered(u)'
  PROVE  Coherent'
<1>1. \A u \in Users : Feed(u)' = Feed(u)
  BY SameFeed
<1>2. CachesCovered'
  BY <1>1 DEF Coherent, CachesCovered, Fresh, Refilling
<1>3. FillsCovered'
  BY <1>1, FillUser DEF Coherent, FillsCovered, FillCovered
<1>4. QED
  BY <1>2, <1>3 DEF Coherent

(* A request appends its event, and nothing is covered less for it.        *)
LEMMA WriteCoherent ==
  ASSUME Shape, Coherent, NEW s \in Rows, NEW type \in Kinds, Write(s, s[1], type)
  PROVE  Coherent'
<1> DEFINE e == [id |-> requests + 1, type |-> type, of |-> s, ts |-> now]
<1> USE FeedAssumption
<1>1. s[1] \in Partitions /\ tx[s] = NoTx
  BY Keys DEF Rows, Write
<1>2. e \in Events
  BY DEF Shape, TypeOK, Write, Events, Rows
<1>3. queue' = [queue EXCEPT ![s[1]] = Append(@, e)]
  BY DEF Write
<1>4. e.of = s /\ e.id = requests + 1 /\ e.type = type
  OBVIOUS
<1> HIDE DEF e
<1>5. /\ \A j \in Partitions : j # s[1] => queue'[j] = queue[j]
      /\ queue'[s[1]] # <<>> /\ Len(queue'[s[1]]) = Len(queue[s[1]]) + 1
      /\ \A i \in 1..Len(queue[s[1]]) : queue'[s[1]][i] = queue[s[1]][i]
      /\ queue'[s[1]][Len(queue[s[1]]) + 1] = e
  BY <1>1, <1>2, <1>3, Sent DEF Shape
<1>6. /\ UNCHANGED <<post, follows, cpc, todo, cache, fill>>
      /\ tx' = [tx EXCEPT ![s] = [id |-> requests + 1, type |-> type]]
  BY DEF Write
<1>7. \A k \in Partitions : \A i \in 1..Len(queue[k]) :
        i \in 1..Len(queue'[k]) /\ queue'[k][i] = queue[k][i]
  BY <1>1, <1>5, InFront DEF Shape
<1>8. \A k, i, u : (Unread(k, i)' <=> Unread(k, i)) /\ (Reaches(k, i, u)' <=> Reaches(k, i, u))
  BY <1>6 DEF Unread, Reaches
<1>9. \A x : Effective(x)' <=> Effective(x)
  BY <1>6 DEF Effective, Live
<1>10. \A u \in Users : Covered(u) => Covered(u)'
  <2> SUFFICES ASSUME NEW u \in Users PROVE Covered(u) => Covered(u)'
    OBVIOUS
  <2>1. PostPending(u) => PostPending(u)'
    BY <1>6, <1>7, <1>8, <1>9 DEF PostPending, Partitions
  <2>2. FriendPending(u) => FriendPending(u)'
    BY <1>7, <1>8 DEF FriendPending, Partitions
  <2>3. QED
    BY <2>1, <2>2 DEF Covered
<1>11. Announced'
  <2> SUFFICES ASSUME NEW t \in Rows, tx'[t] # NoTx
               PROVE  \E i \in 1..Len(queue'[t[1]]) :
                        /\ Unread(t[1], i)'
                        /\ queue'[t[1]][i].of = t /\ queue'[t[1]][i].id = tx'[t].id
                        /\ queue'[t[1]][i].type = tx'[t].type
    BY DEF Announced
  <2>1. t[1] \in Partitions
    BY Keys DEF Rows
  <2>2. CASE t = s
    <3> PICK n : n = Len(queue[s[1]]) + 1
      OBVIOUS
    <3>1. Len(queue[s[1]]) \in Nat /\ n \in 1..Len(queue'[s[1]])
      BY <1>1, <1>5, InFront DEF Shape
    <3>2. Unread(s[1], n)'
      <4>1. CASE queue[s[1]] = <<>>
        BY <1>1, <1>6, <4>1 DEF Shape, InHand, Unread, Reading
      <4>2. CASE queue[s[1]] # <<>>
        <5>1. Len(queue[s[1]]) > 0
          BY <1>1, <4>2, InFront DEF Shape
        <5>2. QED
          BY <3>1, <5>1 DEF Unread
      <4>3. QED
        BY <4>1, <4>2
    <3>3. tx'[s].id = requests + 1 /\ tx'[s].type = type
      BY <1>6 DEF Shape, TypeOK, Rows
    <3>4. queue'[s[1]][n] = e
      BY <1>5
    <3>5. QED
      BY <1>4, <2>2, <3>1, <3>2, <3>3, <3>4
  <2>3. CASE t # s
    <3>1. tx'[t] = tx[t]
      BY <1>6, <2>3 DEF Shape, TypeOK, Rows
    <3>2. PICK i \in 1..Len(queue[t[1]]) :
            /\ Unread(t[1], i)
            /\ queue[t[1]][i].of = t /\ queue[t[1]][i].id = tx[t].id
            /\ queue[t[1]][i].type = tx[t].type
      BY <3>1 DEF Coherent, Announced
    <3>3. QED
      BY <1>7, <1>8, <2>1, <3>1, <3>2
  <2>4. QED
    BY <2>2, <2>3
<1>12. QED
  BY <1>6, <1>10, <1>11, SameFills DEF Shape

LEMMA RequestCoherent ==
  ASSUME Shape, Coherent, Request
  PROVE  Coherent'
<1>1. ASSUME NEW p \in Posts, CreatePost(p) \/ UpdatePost(p) \/ RemovePost(p) PROVE Coherent'
  <2>1. PICK type \in Kinds : Write(p, p[1], type)
    BY <1>1 DEF CreatePost, UpdatePost, RemovePost, Kinds
  <2>2. QED
    BY <2>1, WriteCoherent DEF Rows
<1>2. ASSUME NEW f \in Friendships, AddFriend(f) \/ RemoveFriend(f) PROVE Coherent'
  <2>1. PICK type \in Kinds : Write(f, f[1], type)
    BY <1>2 DEF AddFriend, RemoveFriend, Kinds
  <2>2. QED
    BY <2>1, WriteCoherent DEF Rows
<1>3. ASSUME NEW s \in Rows, Abort(s) PROVE Coherent'
  <2>1. /\ tx' = [tx EXCEPT ![s] = NoTx]
        /\ UNCHANGED <<post, follows, queue, cpc, todo, cache, fill>>
    BY <1>3 DEF Abort
  <2>2. \A t \in Rows : tx'[t] # NoTx => tx'[t] = tx[t]
    BY <2>1 DEF Shape, TypeOK, Rows
  <2>3. Announced'
    BY <2>1, <2>2 DEF Coherent, Announced, Unread
  <2>4. \A u \in Users : Covered(u) => Covered(u)'
    BY <2>1, StillCovered DEF Reaches, Unread
  <2>5. QED
    BY <2>1, <2>3, <2>4, SameFills DEF Shape
<1>4. QED
  BY <1>1, <1>2, <1>3 DEF Request, Rows

(* A commit changes the feeds of those only whom its event is for.         *)
LEMMA CommitCoherent ==
  ASSUME Shape, Coherent, NEW s \in Rows, Commit(s)
  PROVE  Coherent'
<1> USE FeedAssumption
<1>1. /\ tx[s] # NoTx /\ tx' = [tx EXCEPT ![s] = NoTx]
      /\ UNCHANGED <<queue, cpc, todo, cache, fill>>
  BY DEF Commit
<1>2. tx[s] \in [id : 1..MaxRequests, type : Kinds]
  BY <1>1 DEF Shape, TypeOK, Rows, Transactions
<1>3. PICK n \in 1..Len(queue[s[1]]) :
        Unread(s[1], n) /\ queue[s[1]][n].of = s /\ queue[s[1]][n].type = tx[s].type
  BY <1>1 DEF Coherent, Announced
<1>4. \A k, i, u : (Unread(k, i)' <=> Unread(k, i)) /\ (Reaches(k, i, u)' <=> Reaches(k, i, u))
  BY <1>1 DEF Unread, Reaches
<1>5. \A u \in Users : FriendPending(u) => FriendPending(u)'
  BY <1>1, <1>4 DEF FriendPending
<1>6. Announced'
  <2>1. \A t \in Rows : tx'[t] # NoTx => tx'[t] = tx[t]
    BY <1>1 DEF Shape, TypeOK, Rows
  <2>2. ASSUME NEW t \in Rows, tx'[t] # NoTx
        PROVE  \E i \in 1..Len(queue'[t[1]]) :
                 /\ Unread(t[1], i)'
                 /\ queue'[t[1]][i].of = t /\ queue'[t[1]][i].id = tx'[t].id
                 /\ queue'[t[1]][i].type = tx'[t].type
    <3>1. PICK i \in 1..Len(queue[t[1]]) :
            /\ Unread(t[1], i)
            /\ queue[t[1]][i].of = t /\ queue[t[1]][i].id = tx[t].id
            /\ queue[t[1]][i].type = tx[t].type
      BY <2>1, <2>2 DEF Coherent, Announced
    <3>2. QED
      BY <1>1, <1>4, <2>1, <2>2, <3>1
  <2>3. QED
    BY <2>2 DEF Announced
<1>7. ASSUME s \in Posts, NEW u \in Users
      PROVE  Covered(u)' \/ (Feed(u)' = Feed(u) /\ (Covered(u) => Covered(u)'))
  <2>1. /\ s[1] \in Authors /\ UNCHANGED follows
        /\ post' = [post EXCEPT ![s] = IF tx[s].type = "REMOVE" THEN Removed ELSE @ + 1]
    BY <1>7, Keys DEF Commit
  <2>2. \A p \in Posts \ {s} : post'[p] = post[p]
    BY <2>1 DEF Shape, TypeOK
  <2>3. CASE <<u, s[1]>> \in follows
    <3>1. tx[s].type # "REMOVE" => post'[s] \in 1..MaxVersion
      <4>1. post[s] \in Nat /\ (tx[s].type # "REMOVE" => post[s] < MaxVersion)
        BY <1>2, <1>7 DEF Shape, TypeOK, Bounded, Kinds, Removed
      <4>2. tx[s].type # "REMOVE" => post'[s] = post[s] + 1
        BY <1>7, <2>1 DEF Shape, TypeOK
      <4>3. QED
        BY <4>1, <4>2
    <3>2. Effective(queue[s[1]][n])'
      BY <1>1, <1>3, <3>1 DEF Effective, Live
    <3>3. Reaches(s[1], n, u)'
      BY <1>3, <1>4 DEF Reaches
    <3>4. PostPending(u)'
      BY <1>1, <2>1, <2>3, <3>2, <3>3 DEF PostPending
    <3>5. QED
      BY <3>4 DEF Covered
  <2>4. CASE <<u, s[1]>> \notin follows
    <3>1. Feed(u)' = Feed(u)
      <4> DEFINE shown(f, v) == {q \in Posts : f[q] \in 1..MaxVersion /\ <<u, q[1]>> \in v}
      <4>1. shown(post', follows') = shown(post, follows)
        BY <2>1, <2>2, <2>4
      <4>2. \A q \in shown(post, follows) : post'[q] = post[q]
        BY <2>2, <2>4
      <4>3. /\ Feed(u)' = {<<q, post'[q]>> : q \in shown(post', follows')}
            /\ Feed(u) = {<<q, post[q]>> : q \in shown(post, follows)}
        BY DEF Feed, Live
      <4> HIDE DEF shown
      <4>4. QED
        BY <4>1, <4>2, <4>3
    <3>2. ASSUME PostPending(u) PROVE PostPending(u)'
      <4>1. PICK a \in Authors :
              /\ <<u, a>> \in follows
              /\ \E i \in 1..Len(queue[a]) : Effective(queue[a][i]) /\ Reaches(a, i, u)
        BY <3>2 DEF PostPending
      <4>2. PICK i \in 1..Len(queue[a]) : Effective(queue[a][i]) /\ Reaches(a, i, u)
        BY <4>1
      <4>3. queue[a][i].of \in Posts /\ queue[a][i].of # s
        BY <2>4, <4>1 DEF Shape, Addressed
      <4>4. Effective(queue[a][i])'
        BY <1>1, <2>2, <4>2, <4>3 DEF Effective, Live
      <4>5. QED
        BY <1>1, <1>4, <2>1, <4>1, <4>2, <4>4 DEF PostPending
    <3>3. QED
      BY <1>5, <3>1, <3>2 DEF Covered
  <2>5. QED
    BY <2>3, <2>4
<1>8. ASSUME s \notin Posts, NEW u \in Users
      PROVE  Covered(u)' \/ (Feed(u)' = Feed(u) /\ (Covered(u) => Covered(u)'))
  <2>1. /\ s \in Friendships /\ s[1] \in Users /\ UNCHANGED post
        /\ follows' = IF tx[s].type = "ADD" THEN follows \cup {s} ELSE follows \ {s}
    BY <1>8, Keys DEF Commit, Rows
  <2>2. CASE u = s[1]
    <3>1. FriendPending(u)'
      BY <1>1, <1>3, <1>4, <2>2 DEF FriendPending
    <3>2. QED
      BY <3>1 DEF Covered
  <2>3. CASE u # s[1]
    <3>1. \A a : <<u, a>> \in follows' <=> <<u, a>> \in follows
      <4>1. \A a : s # <<u, a>>
        BY <2>3
      <4>2. QED
        BY <2>1, <4>1
    <3>2. Feed(u)' = Feed(u)
      BY <2>1, <3>1 DEF Feed, Live
    <3>3. \A x : Effective(x)' <=> Effective(x)
      BY <2>1 DEF Effective, Live
    <3>4. PostPending(u) => PostPending(u)'
      BY <1>1, <1>4, <3>1, <3>3 DEF PostPending
    <3>5. QED
      BY <1>5, <3>2, <3>4 DEF Covered
  <2>4. QED
    BY <2>2, <2>3
<1>9. \A u \in Users : Covered(u)' \/ (Feed(u)' = Feed(u) /\ (Covered(u) => Covered(u)'))
  BY <1>7, <1>8
<1>10. CachesCovered'
  BY <1>1, <1>9 DEF Coherent, CachesCovered, Fresh, Refilling
<1>11. FillsCovered'
  BY <1>1, <1>9, FillUser DEF Coherent, FillsCovered, FillCovered, Shape
<1>12. QED
  BY <1>6, <1>10, <1>11 DEF Coherent

(* A computation stores what is fresh or will be replaced, and one that    *)
(* ends without storing leaves a fresh feed behind, or none.               *)
LEMMA FillCoherent ==
  ASSUME Shape, Coherent, NEW i \in Fillers, FillStep(i), raced' = {}
  PROVE  Coherent'
<1> PICK v : v = fill[i].user
  OBVIOUS
<1>1. fill[i] \in Computations /\ v \in Users /\ (i \in Users => v = i /\ cpc[i] = "refill")
  <2>1. fill[i].pc # "idle"
    BY DEF FillStep, FillRead, FillSkips, FillChecks, FillBlocks, FillStores, FillUnblocks
  <2>2. fill[i] \in Computations /\ fill[i] # Idle
    BY <2>1, UnderWay DEF Shape
  <2>3. QED
    BY <2>2 DEF Shape, InHand, Computations
<1>2. /\ UNCHANGED <<post, follows, tx, queue, todo>>
      /\ cpc' = cpc \/ (i \in Users /\ cpc' = [cpc EXCEPT ![i] = "commit"])
  BY DEF FillStep, FillRead, FillSkips, FillChecks, FillBlocks, FillStores, FillUnblocks,
         EndFill, dbVars
<1>3. \A k \in Partitions : /\ cpc[k] \in Reading => cpc'[k] \in Reading
                            /\ cpc[k] = "clear" => cpc'[k] = "clear"
  BY <1>1, <1>2 DEF Shape, TypeOK, Reading
<1>4. /\ Announced'
      /\ \A u \in Users : Feed(u)' = Feed(u) /\ (Covered(u) => Covered(u)')
  BY <1>2, <1>3, SameCover DEF Coherent
<1>5. fill' \in [Fillers -> {Idle} \cup Computations] /\ \A j \in Fillers \ {i} : fill'[j] = fill[j]
  <2>1. fill' \in [Fillers -> {Idle} \cup Computations]
    BY FillShape DEF Shape, TypeOK
  <2>2. \A j \in Fillers \ {i} : fill'[j] = fill[j]
    BY DEF FillStep, FillRead, FillSkips, FillChecks, FillBlocks, FillStores, FillUnblocks,
           EndFill, Shape, TypeOK
  <2>3. QED
    BY <2>1, <2>2
<1>6. ASSUME \/ fill'[i].pc \notin {"read", "check", "block", "store"}
             \/ /\ fill'[i].pc # "read"
                /\ fill'[i].user = v
                /\ ~fill'[i].late => fill'[i].items = Feed(v) \/ Covered(v)
      PROVE  FillsCovered'
  <2>1. ASSUME NEW j \in Fillers \ {i} PROVE FillCovered(j)'
    <3>1. FillCovered(j) /\ fill'[j] = fill[j]
      BY <1>5 DEF Coherent, FillsCovered
    <3>2. fill[j].pc \in {"check", "block", "store"} => fill[j].user \in Users
      BY FillUser DEF Shape
    <3>3. QED
      BY <1>4, <3>1, <3>2 DEF FillCovered
  <2>2. FillCovered(i)'
    BY <1>1, <1>4, <1>6 DEF FillCovered
  <2>3. QED
    BY <2>1, <2>2 DEF FillsCovered
<1>7. ASSUME UNCHANGED cache, i \in Users => (Refilling(i) => Refilling(i)') \/ cache[i] = NoFeed
      PROVE  CachesCovered'
  <2>1. \A u \in Users : u # i => (Refilling(u)' <=> Refilling(u))
    BY <1>5 DEF Refilling, Fillers
  <2>2. QED
    BY <1>4, <1>7, <2>1 DEF Coherent, CachesCovered, Fresh
<1>8. CASE FillRead(i)
  <2>1. fill' = [fill EXCEPT ![i].pc = "check", ![i].items = Feed(v), ![i].ts = now] /\ UNCHANGED cache
    BY <1>8 DEF FillRead
  <2>2. /\ fill'[i].pc = "check" /\ fill'[i].items = Feed(v)
        /\ fill'[i].user = v /\ fill'[i].late = fill[i].late
    BY <1>1, <2>1 DEF Shape, TypeOK, Computations
  <2>3. ~fill[i].late
    BY <1>8 DEF FillRead, Coherent, FillsCovered, FillCovered
  <2>4. QED
    BY <1>4, <1>6, <1>7, <2>1, <2>2, <2>3 DEF Coherent, Refilling
<1>9. CASE FillChecks(i) \/ FillBlocks(i)
  <2>1. PICK pc \in {"block", "store"} : fill' = [fill EXCEPT ![i].pc = pc]
    BY <1>9 DEF FillChecks, FillBlocks
  <2>2. UNCHANGED cache /\ fill[i].pc \in {"check", "block"}
    BY <1>9 DEF FillChecks, FillBlocks
  <2>3. /\ fill'[i].pc = pc /\ fill'[i].items = fill[i].items
        /\ fill'[i].user = v /\ fill'[i].late = fill[i].late
    BY <1>1, <2>1 DEF Shape, TypeOK, Computations
  <2>4. ~fill[i].late => fill[i].items = Feed(v) \/ Covered(v)
    BY <2>2 DEF Coherent, FillsCovered, FillCovered
  <2>5. QED
    BY <1>4, <1>6, <1>7, <2>2, <2>3, <2>4 DEF Coherent, Refilling
<1>10. CASE FillStores(i)
  <2>1. /\ fill' = [fill EXCEPT ![i].pc = "unblock"] /\ fill[i].pc = "store"
        /\ cache' = [cache EXCEPT ![v] = [items |-> fill[i].items, ts |-> fill[i].ts]]
        /\ ~fill[i].late
    BY <1>10 DEF FillStores, Happened
  <2>2. fill'[i].pc = "unblock"
    BY <1>1, <2>1 DEF Shape, TypeOK, Computations
  <2>3. fill[i].items = Feed(v) \/ Covered(v)
    BY <2>1 DEF Coherent, FillsCovered, FillCovered
  <2>4. cache'[v].items = fill[i].items /\ \A u \in Users : u # v => cache'[u] = cache[u]
    BY <1>1, <2>1 DEF Shape, TypeOK
  <2>5. Fresh(v)' \/ Covered(v)'
    BY <1>1, <1>4, <2>3, <2>4 DEF Fresh
  <2>6. ASSUME NEW u \in Users, u # v PROVE Fresh(u)' \/ Covered(u)' \/ Refilling(u)'
    <3>1. Refilling(u)' <=> Refilling(u)
      BY <1>1, <1>5, <2>6 DEF Refilling, Fillers
    <3>2. Fresh(u)' <=> Fresh(u)
      BY <1>4, <2>4, <2>6 DEF Fresh
    <3>3. QED
      BY <1>4, <3>1, <3>2 DEF Coherent, CachesCovered
  <2>7. CachesCovered'
    BY <2>5, <2>6 DEF CachesCovered
  <2>8. QED
    BY <1>4, <1>6, <2>2, <2>7 DEF Coherent
<1>11. CASE FillSkips(i)
  <2>1. fill' = [fill EXCEPT ![i] = Idle] /\ UNCHANGED cache
    BY <1>11 DEF FillSkips, EndFill
  <2>2. fill'[i].pc = "idle"
    BY <2>1 DEF Shape, TypeOK, Idle
  <2>3. i \in Users => cache[i] = NoFeed
    BY <1>1, <1>11 DEF FillSkips, Happened
  <2>4. QED
    BY <1>4, <1>6, <1>7, <2>1, <2>2, <2>3 DEF Coherent
<1>12. CASE FillUnblocks(i)
  <2>1. fill' = [fill EXCEPT ![i] = Idle] /\ fill[i].pc = "unblock" /\ UNCHANGED cache
    BY <1>12 DEF FillUnblocks, EndFill
  <2>2. fill'[i].pc = "idle"
    BY <2>1 DEF Shape, TypeOK, Idle
  <2>3. ~Refilling(i)
    BY <2>1 DEF Refilling
  <2>4. QED
    BY <1>4, <1>6, <1>7, <2>1, <2>2, <2>3 DEF Coherent
<1>13. QED
  BY <1>8, <1>9, <1>10, <1>11, <1>12 DEF FillStep

(* The event at the head is handled, and it is not the event of an open    *)
(* transaction.                                                            *)
LEMMA HeadHandled ==
  ASSUME Shape, Announced, NEW k \in Partitions, queue[k] # <<>>,
         ~Early(Head(queue[k])), NEW pc, cpc' = [cpc EXCEPT ![k] = pc],
         UNCHANGED <<tx, queue>>
  PROVE  /\ Announced'
         /\ \A j \in Partitions : \A i \in 1..Len(queue[j]) :
              Unread(j, i) /\ (j = k => i > 1) => Unread(j, i)'
<1>1. Head(queue[k]) = queue[k][1]
  BY InFront DEF Shape
<1>2. cpc'[k] = pc /\ \A j \in Partitions : j # k => cpc'[j] = cpc[j]
  BY DEF Shape, TypeOK
<1>3. \A j \in Partitions : \A i \in 1..Len(queue[j]) :
        Unread(j, i) /\ (j = k => i > 1) => Unread(j, i)'
  BY <1>2 DEF Unread
<1>4. ASSUME NEW s \in Rows, tx'[s] # NoTx
      PROVE  \E i \in 1..Len(queue'[s[1]]) :
               /\ Unread(s[1], i)'
               /\ queue'[s[1]][i].of = s /\ queue'[s[1]][i].id = tx'[s].id
               /\ queue'[s[1]][i].type = tx'[s].type
  <2>1. s[1] \in Partitions
    BY Keys DEF Rows
  <2>2. PICK i \in 1..Len(queue[s[1]]) :
          /\ Unread(s[1], i)
          /\ queue[s[1]][i].of = s /\ queue[s[1]][i].id = tx[s].id
          /\ queue[s[1]][i].type = tx[s].type
    BY <1>4 DEF Announced
  <2>3. s[1] = k => i # 1
    BY <1>1, <2>2 DEF Early
  <2>4. Len(queue[s[1]]) \in Nat
    BY <2>1, InFront DEF Shape
  <2>5. Unread(s[1], i)'
    BY <1>3, <2>1, <2>2, <2>3, <2>4
  <2>6. QED
    BY <2>2, <2>5
<1>5. QED
  BY <1>3, <1>4 DEF Announced

(* The consumer of an author reads the publication, and counts the         *)
(* followers.                                                              *)
LEMMA ReadingCoherent ==
  ASSUME Shape, Coherent, NEW a \in Partitions, PostEventReadsPost(a) \/ PostEventCounts(a)
  PROVE  Coherent'
<1>1. /\ cpc[a] \in {"poll", "count"}
      /\ UNCHANGED <<post, follows, tx, queue, todo, cache, fill>>
  BY DEF PostEventReadsPost, PostEventCounts, dbVars
<1>2. PICK pc \in Reading : cpc' = [cpc EXCEPT ![a] = pc]
  BY DEF PostEventReadsPost, PostEventCounts, Reading
<1>3. \A k \in Partitions : /\ cpc[k] \in Reading => cpc'[k] \in Reading
                            /\ cpc[k] = "clear" => cpc'[k] = "clear"
  BY <1>1, <1>2 DEF Shape, TypeOK
<1>4. Announced' /\ \A u \in Users : Covered(u) => Covered(u)'
  BY <1>1, <1>3, SameCover DEF Coherent
<1>5. QED
  BY <1>1, <1>4, SameFills DEF Shape

(* The consumer of an author handles its event, or begins to.              *)
LEMMA PostEventCoherent ==
  ASSUME Shape, Coherent, raced' = {}, NEW a \in Partitions,
         PostEventNotFound(a) \/ PostEventOfCelebrity(a) \/ PostEventReadsFollowers(a)
  PROVE  Coherent'
<1> USE FeedAssumption
<1>1. /\ a \in Authors /\ a \notin Users /\ queue[a] # <<>>
      /\ UNCHANGED <<post, follows, tx, queue, cache, fill>>
  BY DEF PostEventNotFound, PostEventOfCelebrity, PostEventReadsFollowers, dbVars, Shape, InHand
<1>2. ~Early(Head(queue[a])) /\ ~PostEventOfCelebrity(a)
  BY DEF PostEventNotFound, PostEventOfCelebrity, PostEventReadsFollowers, Happened
<1>3. PICK pc \in {"clear", "commit"} : cpc' = [cpc EXCEPT ![a] = pc]
  BY DEF PostEventNotFound, PostEventOfCelebrity, PostEventReadsFollowers
<1>4. /\ Announced'
      /\ \A j \in Partitions : \A i \in 1..Len(queue[j]) :
           Unread(j, i) /\ (j = a => i > 1) => Unread(j, i)'
  BY <1>1, <1>2, <1>3, HeadHandled DEF Coherent
<1>5. cpc'[a] = pc /\ \A j \in Partitions : j # a => cpc'[j] = cpc[j]
  BY <1>3 DEF Shape, TypeOK
<1>6. Head(queue[a]) = queue[a][1] /\ Len(queue[a]) \in Nat /\ todo \in [Partitions -> SUBSET Users]
  BY <1>1, InFront DEF Shape, TypeOK
<1>7. ASSUME NEW u \in Users, NEW b \in Authors, NEW i \in 1..Len(queue[b]),
             <<u, b>> \in follows, Effective(queue[b][i]), Reaches(b, i, u)
      PROVE  Reaches(b, i, u)'
  <2>1. b \in Partitions
    BY DEF Partitions
  <2>2. CASE b # a
    <3>1. UNCHANGED <<cpc[b], todo[b]>>
      BY <1>5, <1>6, <2>1, <2>2 DEF PostEventNotFound, PostEventOfCelebrity, PostEventReadsFollowers
    <3>2. QED
      BY <1>7, <3>1 DEF Reaches, Unread
  <2>3. CASE b = a /\ i > 1
    BY <2>3 DEF Reaches, Unread
  <2>4. CASE b = a /\ i = 1
    <3>1. PostEventReadsFollowers(a)
      BY <1>2, <1>6, <1>7, <2>4 DEF PostEventNotFound, Effective, Happened
    <3>2. u \in Followers(a)
      BY <1>7, <2>4 DEF Followers
    <3>3. todo'[a] = Followers(a) /\ cpc'[a] = "clear"
      BY <1>6, <3>1, <3>2 DEF PostEventReadsFollowers, Shape, TypeOK
    <3>4. QED
      BY <2>4, <3>2, <3>3 DEF Reaches
  <2>5. QED
    BY <1>6, <2>2, <2>3, <2>4
<1>8. \A u \in Users : \A i \in 1..Len(queue[u]) : Unread(u, i) => Unread(u, i)'
  BY <1>1, <1>4 DEF Partitions
<1>9. \A u \in Users : Covered(u) => Covered(u)'
  BY <1>1, <1>7, <1>8, StillCovered
<1>10. QED
  BY <1>1, <1>4, <1>9, SameFills DEF Shape

(* The computations that an invalidation of us leaves are covered, if      *)
(* everybody else is covered as before.                                    *)
LEMMA FollowingCovered ==
  ASSUME TypeOK, NEW us, NEW i \in Fillers, FillCovered(i), Follows(us, i, fill'[i]),
         UNCHANGED <<post, follows>>,
         \A u \in Users \ us : Covered(u) => Covered(u)'
  PROVE  FillCovered(i)'
<1>1. \A u \in Users : Feed(u)' = Feed(u)
  BY SameFeed
<1>2. fill'[i].pc = fill[i].pc
  BY DEF Follows
<1>3. CASE fill[i].pc = "read"
  <2>1. fill'[i] = fill[i]
    BY <1>3 DEF Follows
  <2>2. QED
    BY <1>3, <2>1 DEF FillCovered
<1>4. CASE fill[i].pc \in {"check", "block", "store"}
  <2>1. fill[i].user \in Users /\ fill[i] # Idle
    BY <1>4, FillUser DEF Idle
  <2>2. PICK v \in Users : v = fill[i].user
    BY <2>1
  <2>3. fill'[i].user = v /\ fill'[i].items = fill[i].items
    BY <2>1, <2>2 DEF Follows
  <2>4. ASSUME ~fill'[i].late PROVE fill[i].items = Feed(v)' \/ Covered(v)'
    <3>1. CASE v \in us
      BY <1>1, <1>4, <2>2, <2>4, <3>1 DEF Follows
    <3>2. CASE v \notin us
      <4>1. fill'[i] = fill[i]
        BY <2>2, <3>2 DEF Follows
      <4>2. fill[i].items = Feed(v) \/ Covered(v)
        BY <1>4, <2>2, <2>4, <4>1 DEF FillCovered
      <4>3. QED
        BY <1>1, <3>2, <4>2
    <3>3. QED
      BY <3>1, <3>2
  <2>5. QED
    BY <1>2, <1>4, <2>3, <2>4 DEF FillCovered
<1>5. CASE fill[i].pc \notin {"read", "check", "block", "store"}
  BY <1>2, <1>5 DEF FillCovered
<1>6. QED
  BY <1>3, <1>4, <1>5

(* A chunk of feeds is cleared, the others are still to come.              *)
LEMMA ClearCoherent ==
  ASSUME Shape, Coherent, NEW a \in Partitions, ClearChunk(a)
  PROVE  Coherent'
<1>1. PICK us \in SUBSET todo[a] :
        /\ cache' = [u \in Users |-> IF u \in us THEN NoFeed ELSE cache[u]]
        /\ Overtake(us)
        /\ todo' = [todo EXCEPT ![a] = @ \ us]
        /\ cpc' = [cpc EXCEPT ![a] = IF us = todo[a] THEN "commit" ELSE "clear"]
  BY DEF ClearChunk
<1>2. cpc[a] = "clear" /\ UNCHANGED <<post, follows, tx, queue>>
  BY DEF ClearChunk, dbVars
<1>3. /\ cpc'[a] = IF us = todo[a] THEN "commit" ELSE "clear"
      /\ todo'[a] = todo[a] \ us
      /\ \A b \in Partitions : b # a => cpc'[b] = cpc[b] /\ todo'[b] = todo[b]
  BY <1>1 DEF Shape, TypeOK
<1>4. \A k \in Partitions : \A i : Unread(k, i) => Unread(k, i)'
  BY <1>2, <1>3 DEF Unread, Reading
<1>5. Announced'
  <2>1. \A s \in Rows : s[1] \in Partitions
    BY Keys DEF Rows
  <2>2. QED
    BY <1>2, <1>4, <2>1 DEF Coherent, Announced
<1>6. \A k \in Partitions : \A i, u : u \notin us /\ Reaches(k, i, u) => Reaches(k, i, u)'
  <2> SUFFICES ASSUME NEW k \in Partitions, NEW i, NEW u, u \notin us, Reaches(k, i, u)
               PROVE  Reaches(k, i, u)'
    OBVIOUS
  <2>1. CASE Unread(k, i)
    BY <1>4, <2>1 DEF Reaches
  <2>2. CASE cpc[k] = "clear" /\ u \in todo[k]
    BY <1>3, <2>2 DEF Reaches
  <2>3. QED
    BY <2>1, <2>2 DEF Reaches
<1>7. \A u \in Users \ us : Covered(u) => Covered(u)'
  BY <1>2, <1>4, <1>6, StillCovered DEF Partitions
<1>8. \A i \in Fillers : Follows(us, i, fill'[i])
  BY <1>1, Overtaken DEF Shape
<1>9. FillsCovered'
  BY <1>2, <1>7, <1>8, FollowingCovered DEF Shape, Coherent, FillsCovered
<1>10. CachesCovered'
  <2> SUFFICES ASSUME NEW u \in Users PROVE Fresh(u)' \/ Covered(u)' \/ Refilling(u)'
    BY DEF CachesCovered
  <2>1. CASE u \in us
    BY <1>1, <2>1 DEF Fresh
  <2>2. CASE u \notin us
    <3>1. fill'[u] = fill[u]
      BY <1>8, <2>2 DEF Shape, InHand, Fillers, Follows
    <3>2. cache'[u] = cache[u] /\ Feed(u)' = Feed(u)
      BY <1>1, <1>2, <2>2, SameFeed
    <3>3. QED
      BY <1>7, <2>2, <3>1, <3>2 DEF Coherent, CachesCovered, Fresh, Refilling
  <2>3. QED
    BY <2>1, <2>2
<1>11. QED
  BY <1>5, <1>9, <1>10 DEF Coherent

(* The consumer of a user computes the feed again, or finds none that is   *)
(* stale.                                                                  *)
LEMMA FriendEventCoherent ==
  ASSUME Shape, Coherent, raced' = {}, NEW u \in Partitions,
         FriendEventRefills(u) \/ FriendEventSkips(u)
  PROVE  Coherent'
<1> USE FeedAssumption
<1>1. /\ u \in Users /\ u \notin Authors /\ cpc[u] = "poll" /\ queue[u] # <<>>
      /\ ~Early(Head(queue[u])) /\ UNCHANGED <<post, follows, tx, queue, todo, cache>>
  BY DEF FriendEventRefills, FriendEventSkips, dbVars, Happened
<1>2. PICK pc \in {"refill", "commit"} : cpc' = [cpc EXCEPT ![u] = pc]
  BY DEF FriendEventRefills, FriendEventSkips
<1>3. /\ Announced'
      /\ \A j \in Partitions : \A i \in 1..Len(queue[j]) :
           Unread(j, i) /\ (j = u => i > 1) => Unread(j, i)'
  <2>1. pc # "poll"
    OBVIOUS
  <2>2. QED
    BY <1>1, <1>2, <2>1, HeadHandled DEF Coherent
<1>4. \A a \in Authors : cpc'[a] = cpc[a]
  BY <1>1, <1>2 DEF Shape, TypeOK, Partitions
<1>5. ASSUME NEW v \in Users \ {u} PROVE Covered(v) => Covered(v)'
  <2>1. \A a \in Authors : \A i \in 1..Len(queue[a]) : Reaches(a, i, v) => Reaches(a, i, v)'
    BY <1>1, <1>4 DEF Reaches, Unread
  <2>2. \A i \in 1..Len(queue[v]) : Unread(v, i) => Unread(v, i)'
    BY <1>3 DEF Partitions
  <2>3. QED
    BY <1>1, <2>1, <2>2, StillCovered
<1>6. /\ \A i \in Fillers \ {u} : Follows({u}, i, fill'[i])
      /\ FriendEventRefills(u) => fill'[u] = Start(u)
      /\ FriendEventSkips(u) => Follows({u}, u, fill'[u])
  <2>1. CASE FriendEventRefills(u)
    <3>1. ~FriendEventSkips(u)
      BY <2>1 DEF FriendEventRefills, FriendEventSkips
    <3>2. QED
      BY <1>1, <2>1, <3>1, Restarted DEF Shape
  <2>2. CASE FriendEventSkips(u)
    <3>1. ~FriendEventRefills(u) /\ Overtake({u})
      BY <2>2 DEF FriendEventRefills, FriendEventSkips
    <3>2. u \in Fillers
      BY <1>1 DEF Fillers
    <3>3. QED
      BY <3>1, <3>2, Overtaken DEF Shape
  <2>3. QED
    BY <2>1, <2>2
<1>7. \A i \in Fillers : Follows({u}, i, fill'[i]) => FillCovered(i)'
  <2> PICK us : us = {u}
    OBVIOUS
  <2>1. \A v \in Users \ us : Covered(v) => Covered(v)'
    BY <1>5
  <2>2. \A i \in Fillers : Follows(us, i, fill'[i]) => FillCovered(i)'
    BY <1>1, <2>1, FollowingCovered DEF Shape, Coherent, FillsCovered
  <2>3. QED
    BY <2>2
<1>8. FillsCovered'
  <2>1. FriendEventRefills(u) => FillCovered(u)'
    BY <1>6 DEF FillCovered, Start
  <2>2. QED
    BY <1>6, <1>7, <2>1 DEF FillsCovered
<1>9. CachesCovered'
  <2> SUFFICES ASSUME NEW v \in Users PROVE Fresh(v)' \/ Covered(v)' \/ Refilling(v)'
    BY DEF CachesCovered
  <2>1. Feed(v)' = Feed(v)
    BY <1>1, SameFeed
  <2>2. CASE v # u
    <3>1. fill'[v] = fill[v]
      BY <1>6, <2>2 DEF Shape, InHand, Fillers, Follows
    <3>2. QED
      BY <1>1, <1>5, <2>1, <2>2, <3>1 DEF Coherent, CachesCovered, Fresh, Refilling
  <2>3. CASE v = u /\ FriendEventRefills(u)
    BY <1>6, <2>3 DEF Refilling, Start
  <2>4. CASE v = u /\ FriendEventSkips(u)
    <3>1. cache[u] = NoFeed \/ cache[u].items = Feed(u)
      BY <2>4 DEF FriendEventSkips, Happened
    <3>2. QED
      BY <1>1, <2>1, <2>4, <3>1 DEF Fresh
  <2>5. QED
    BY <2>2, <2>3, <2>4
<1>10. QED
  BY <1>3, <1>8, <1>9 DEF Coherent

(* The offset moves past an event whose work is done.                      *)
LEMMA OffsetCoherent ==
  ASSUME Shape, Coherent, NEW k \in Partitions, ConsumerCommits(k)
  PROVE  Coherent'
<1>1. /\ cpc[k] = "commit" /\ cpc' = [cpc EXCEPT ![k] = "poll"]
      /\ queue' = [queue EXCEPT ![k] = Tail(@)]
      /\ UNCHANGED <<post, follows, tx, todo, cache, fill>>
  BY DEF ConsumerCommits, dbVars
<1>2. queue[k] # <<>> /\ Len(queue[k]) \in Nat
  BY <1>1, InFront DEF Shape, InHand
<1>3. /\ \A j \in Partitions : j # k => queue'[j] = queue[j]
      /\ Len(queue'[k]) = Len(queue[k]) - 1
      /\ \A i \in 1..Len(queue[k]) - 1 : queue'[k][i] = queue[k][i + 1]
  BY <1>1, <1>2, Consumed DEF Shape
<1>4. cpc'[k] = "poll" /\ \A j \in Partitions : j # k => cpc'[j] = cpc[j]
  BY <1>1 DEF Shape, TypeOK
<1>5. ASSUME NEW j \in Partitions, NEW i \in 1..Len(queue[j]), NEW u,
             Reaches(j, i, u)
      PROVE  \E n \in 1..Len(queue'[j]) :
               queue'[j][n] = queue[j][i] /\ Reaches(j, n, u)' /\ (Unread(j, i) => Unread(j, n)')
  <2>1. CASE j = k
    <3>1. i > 1
      BY <1>1, <1>5, <2>1 DEF Reaches, Unread, Reading
    <3>2. PICK n : n = i - 1
      OBVIOUS
    <3>3. n \in 1..Len(queue'[j]) /\ n \in 1..Len(queue[k]) - 1 /\ n + 1 = i
      BY <1>2, <1>3, <2>1, <3>1, <3>2
    <3>4. queue'[j][n] = queue[j][i] /\ Unread(j, n)'
      BY <1>3, <1>4, <2>1, <3>3 DEF Unread, Reading
    <3>5. QED
      BY <3>3, <3>4 DEF Reaches
  <2>2. CASE j # k
    <3>1. queue'[j] = queue[j] /\ cpc'[j] = cpc[j] /\ todo'[j] = todo[j]
      BY <1>1, <1>3, <1>4, <2>2
    <3>2. Reaches(j, i, u)' /\ (Unread(j, i) => Unread(j, i)')
      BY <1>5, <3>1 DEF Reaches, Unread
    <3>3. QED
      BY <3>1, <3>2
  <2>3. QED
    BY <2>1, <2>2
<1>6. ASSUME NEW j \in Partitions, NEW i \in 1..Len(queue[j]), Unread(j, i)
      PROVE  \E n \in 1..Len(queue'[j]) : queue'[j][n] = queue[j][i] /\ Unread(j, n)'
  BY <1>5, <1>6 DEF Reaches
<1>7. Announced'
  <2> SUFFICES ASSUME NEW s \in Rows, tx[s] # NoTx
               PROVE  \E n \in 1..Len(queue'[s[1]]) :
                        /\ Unread(s[1], n)'
                        /\ queue'[s[1]][n].of = s /\ queue'[s[1]][n].id = tx[s].id
                        /\ queue'[s[1]][n].type = tx[s].type
    BY <1>1 DEF Announced
  <2>1. s[1] \in Partitions
    BY Keys DEF Rows
  <2>2. PICK i \in 1..Len(queue[s[1]]) :
          /\ Unread(s[1], i)
          /\ queue[s[1]][i].of = s /\ queue[s[1]][i].id = tx[s].id
          /\ queue[s[1]][i].type = tx[s].type
    BY DEF Coherent, Announced
  <2>3. PICK n \in 1..Len(queue'[s[1]]) :
          queue'[s[1]][n] = queue[s[1]][i] /\ Unread(s[1], n)'
    BY <1>6, <2>1, <2>2
  <2>4. QED
    BY <2>2, <2>3
<1>8. ASSUME NEW u \in Users PROVE Covered(u) => Covered(u)'
  <2>1. \A x : Effective(x)' <=> Effective(x)
    BY <1>1 DEF Effective, Live
  <2>2. ASSUME PostPending(u) PROVE PostPending(u)'
    <3>1. PICK a \in Authors :
            /\ <<u, a>> \in follows
            /\ \E i \in 1..Len(queue[a]) : Effective(queue[a][i]) /\ Reaches(a, i, u)
      BY <2>2 DEF PostPending
    <3>2. PICK i \in 1..Len(queue[a]) : Effective(queue[a][i]) /\ Reaches(a, i, u)
      BY <3>1
    <3>3. PICK n \in 1..Len(queue'[a]) : queue'[a][n] = queue[a][i] /\ Reaches(a, n, u)'
      BY <1>5, <3>2 DEF Partitions
    <3>4. QED
      BY <1>1, <2>1, <3>1, <3>2, <3>3 DEF PostPending
  <2>3. FriendPending(u) => FriendPending(u)'
    BY <1>6 DEF FriendPending, Partitions
  <2>4. QED
    BY <2>2, <2>3 DEF Covered
<1>9. QED
  BY <1>1, <1>7, <1>8, SameFills DEF Shape

(* A consumer that failed finds its event again, and it covers all that    *)
(* the work it left undone was to cover.                                   *)
LEMMA FailureCoherent ==
  ASSUME Shape, Coherent, NEW k \in Partitions, ConsumerFails(k)
  PROVE  Coherent'
<1>1. /\ cpc[k] # "poll" /\ cpc' = [cpc EXCEPT ![k] = "poll"]
      /\ todo' = [todo EXCEPT ![k] = {}]
      /\ fill' = IF k \in Users THEN [fill EXCEPT ![k] = Idle] ELSE fill
      /\ UNCHANGED <<post, follows, tx, queue, cache>>
  BY DEF ConsumerFails, dbVars
<1>2. queue[k] # <<>> /\ Len(queue[k]) \in Nat /\ Len(queue[k]) > 0
  BY <1>1, InFront DEF Shape, InHand
<1>3. cpc'[k] = "poll" /\ \A j \in Partitions : j # k => cpc'[j] = cpc[j] /\ todo'[j] = todo[j]
  BY <1>1 DEF Shape, TypeOK
<1>4. \A j \in Partitions : \A i : Unread(j, i) => Unread(j, i)'
  BY <1>3 DEF Unread, Reading
<1>5. \A j \in Partitions : \A i, u : Reaches(j, i, u) => Reaches(j, i, u)'
  BY <1>3, <1>4 DEF Reaches, Unread, Reading
<1>6. Announced'
  <2>1. \A s \in Rows : s[1] \in Partitions
    BY Keys DEF Rows
  <2>2. QED
    BY <1>1, <1>4, <2>1 DEF Coherent, Announced
<1>7. \A u \in Users : Covered(u) => Covered(u)'
  BY <1>1, <1>4, <1>5, StillCovered DEF Partitions
<1>8. \A u \in Users : Feed(u)' = Feed(u)
  BY <1>1, SameFeed
<1>9. CachesCovered'
  <2> SUFFICES ASSUME NEW u \in Users PROVE Fresh(u)' \/ Covered(u)' \/ Refilling(u)'
    BY DEF CachesCovered
  <2>1. CASE u = k
    <3>1. 1 \in 1..Len(queue'[u]) /\ Unread(u, 1)'
      BY <1>1, <1>2, <1>3, <2>1 DEF Unread, Reading
    <3>2. QED
      BY <3>1 DEF Covered, FriendPending
  <2>2. CASE u # k
    <3>1. fill'[u] = fill[u]
      BY <1>1, <2>2 DEF Shape, TypeOK, Fillers
    <3>2. QED
      BY <1>1, <1>7, <1>8, <3>1 DEF Coherent, CachesCovered, Fresh, Refilling
  <2>3. QED
    BY <2>1, <2>2
<1>10. FillsCovered'
  <2> SUFFICES ASSUME NEW i \in Fillers PROVE FillCovered(i)'
    BY DEF FillsCovered
  <2>1. CASE fill'[i] = fill[i]
    BY <1>7, <1>8, <2>1, FillUser DEF Shape, Coherent, FillsCovered, FillCovered
  <2>2. CASE fill'[i] # fill[i]
    <3>1. fill'[i] = Idle
      BY <1>1, <2>2 DEF Shape, TypeOK
    <3>2. QED
      BY <3>1 DEF FillCovered, Idle
  <2>3. QED
    BY <2>1, <2>2
<1>11. QED
  BY <1>6, <1>9, <1>10 DEF Coherent

(* A reader begins a computation, or gives up the one it had.              *)
LEMMA ReaderCoherent ==
  ASSUME Shape, Coherent, NEW i \in Readers, ReaderMiss(i) \/ ReaderFails(i)
  PROVE  Coherent'
<1>1. UNCHANGED <<post, follows, tx, queue, cpc, todo, cache>>
  BY DEF ReaderMiss, ReaderFails, dbVars
<1>2. PICK c : /\ fill' = [fill EXCEPT ![i] = c]
               /\ c = Idle \/ (c.pc = "read" /\ ~c.late)
  <2>1. CASE ReaderMiss(i)
    <3>1. PICK u \in Users : fill' = [fill EXCEPT ![i] = Start(u)]
      BY <2>1 DEF ReaderMiss
    <3>2. Start(u).pc = "read" /\ ~Start(u).late
      BY DEF Start
    <3>3. QED
      BY <3>1, <3>2
  <2>2. CASE ReaderFails(i)
    BY <2>2 DEF ReaderFails
  <2>3. QED
    BY <2>1, <2>2
<1>3. i \in Fillers /\ i \notin Users
  BY FeedAssumption DEF Fillers
<1>4. fill'[i] = c /\ \A j \in Fillers : j # i => fill'[j] = fill[j]
  BY <1>2, <1>3 DEF Shape, TypeOK
<1>5. Announced' /\ \A u \in Users : Feed(u)' = Feed(u) /\ (Covered(u) => Covered(u)')
  BY <1>1, SameCover DEF Coherent
<1>6. \A u \in Users : fill'[u] = fill[u]
  BY <1>3, <1>4 DEF Fillers
<1>7. CachesCovered'
  BY <1>1, <1>5, <1>6 DEF Coherent, CachesCovered, Fresh, Refilling
<1>8. ASSUME NEW j \in Fillers PROVE FillCovered(j)'
  <2>1. CASE j = i
    BY <1>2, <1>4, <2>1 DEF FillCovered, Idle
  <2>2. CASE j # i
    BY <1>4, <1>5, <2>2, FillUser DEF Shape, Coherent, FillsCovered, FillCovered
  <2>3. QED
    BY <2>1, <2>2
<1>9. QED
  BY <1>5, <1>7, <1>8 DEF Coherent, FillsCovered

LEMMA StepIInv == IInv /\ [Next]_vars => IInv'
<1> SUFFICES ASSUME IInv, [Next]_vars, raced' = {} PROVE Coherent'
  BY StepShape DEF IInv
<1>1. Shape
  BY DEF IInv
<1>2. ASSUME NEW k \in Partitions, LoseEvent(k) PROVE FALSE
  BY <1>2 DEF LoseEvent
<1>3. ASSUME NEW k \in Partitions, ConsumerStep(k) PROVE raced = {}
  BY <1>3 DEF ConsumerStep, PostEventNotFound, PostEventReadsPost, PostEventOfCelebrity,
       PostEventCounts, PostEventReadsFollowers, ClearChunk, FriendEventRefills, FriendEventSkips, ConsumerCommits
<1>4. ASSUME NEW i \in Fillers, FillStep(i) PROVE raced = {}
  BY <1>4 DEF FillStep, FillRead, FillSkips, FillChecks, FillBlocks, FillStores, FillUnblocks
<1>5. ASSUME Request PROVE raced = {}
  BY <1>5 DEF Request, CreatePost, UpdatePost, RemovePost, AddFriend, RemoveFriend, Write, Abort
<1>6. CASE Request
  BY <1>1, <1>5, <1>6, RequestCoherent DEF IInv
<1>7. ASSUME NEW s \in Posts \cup Friendships, Commit(s) PROVE Coherent'
  <2>1. raced = {}
    BY <1>7 DEF Commit
  <2>2. QED
    BY <1>1, <1>7, <2>1, CommitCoherent DEF IInv, Rows
<1>8. ASSUME NEW i \in Readers, ReaderMiss(i) \/ ReaderFails(i) PROVE Coherent'
  <2>1. raced = {}
    BY <1>8 DEF ReaderMiss, ReaderFails
  <2>2. QED
    BY <1>1, <1>8, <2>1, ReaderCoherent DEF IInv
<1>9. ASSUME NEW i \in Fillers, FillStep(i) PROVE Coherent'
  BY <1>1, <1>4, <1>9, FillCoherent DEF IInv
<1>10. ASSUME NEW k \in Partitions, ConsumerStep(k) PROVE Coherent'
  <2>1. raced = {} /\ Coherent
    BY <1>3, <1>10 DEF IInv
  <2>2. QED
    BY <1>1, <1>10, <2>1, ReadingCoherent, PostEventCoherent, ClearCoherent, FriendEventCoherent, OffsetCoherent
       DEF ConsumerStep
<1>11. ASSUME NEW k \in Partitions, ConsumerFails(k) PROVE Coherent'
  <2>1. raced = {}
    BY <1>11 DEF ConsumerFails
  <2>2. QED
    BY <1>1, <1>11, <2>1, FailureCoherent DEF IInv
<1>12. CASE (\E u \in Users : BlockExpires(u)) \/ Tick \/ UNCHANGED vars
  <2>1. UNCHANGED <<post, follows, tx, queue, cpc, todo, cache, fill, raced>>
    BY <1>12 DEF BlockExpires, Tick, vars, dbVars
  <2>2. Announced' /\ \A u \in Users : Covered(u) => Covered(u)'
    BY <2>1, SameCover DEF IInv, Coherent
  <2>3. QED
    BY <1>1, <2>1, <2>2, SameFills DEF IInv, Shape
<1>13. QED
  BY <1>2, <1>6, <1>7, <1>8, <1>9, <1>10, <1>11, <1>12 DEF Next

(* FreshUnlessRaced: the named races are all there are.  In a system at    *)
(* rest in which none of them happened, whatever requests, consumers,      *)
(* readers and failures did before, every feed the consumers left in Redis *)
(* shows exactly the publications of the user's friends.                   *)
THEOREM OnlyTheNamedRaces == Spec => []FreshUnlessRaced
<1>1. ASSUME IInv PROVE FreshUnlessRaced
  <2> SUFFICES ASSUME Quiet, raced = {}, NEW u \in Users PROVE Fresh(u)
    BY DEF FreshUnlessRaced
  <2>1. \A k \in Partitions : 1..Len(queue[k]) = {}
    BY DEF Quiet
  <2>2. ~Covered(u)
    BY <2>1 DEF Covered, PostPending, FriendPending, Partitions
  <2>3. ~Refilling(u)
    BY DEF Quiet, Refilling, Fillers, Idle
  <2>4. QED
    BY <1>1, <2>2, <2>3 DEF IInv, Coherent, CachesCovered
<1>2. QED
  BY InitIInv, StepIInv, <1>1, PTL DEF Spec
=============================================================================
