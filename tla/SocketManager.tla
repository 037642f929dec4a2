---------------------------- MODULE SocketManager ----------------------------
(***************************************************************************)
(* SocketConnectionManager: the web sockets of one process, one handler    *)
(* feed_socket per socket, all on one event loop.  A step of a handler     *)
(* runs from one suspension to the next; the suspensions are the wait for  *)
(* the user's asyncio.Lock, accept(), close() and receive_text().          *)
(***************************************************************************)
EXTENDS Naturals, Sequences, FiniteSets

CONSTANTS Users, Slots, None

(* The n-th socket a user opens.  A lock object is named by the socket     *)
(* whose handler created it.                                               *)
Sockets == Users \X Slots
Locks == Sockets
UserOf(s) == s[1]

ASSUME SocketAssumption == None \notin Sockets

VARIABLES
  pc,         \* control state of the handler of a socket
  lockOf,     \* the lock object the handler waits for or holds
  userLocks,  \* _user_locks
  holder,     \* who holds a lock object
  waiters,    \* who waits for it, in order
  userMap,    \* active_connections_user_map
  active,     \* keys of active_connections and _ws_to_user_id_map
  orphaned    \* history: users whose lock was dropped while it was in use

vars == <<pc, lockOf, userLocks, holder, waiters, userMap, active, orphaned>>

TypeOK ==
  /\ pc \in [Sockets -> {"new", "waiting", "closing", "accepting", "open", "gone"}]
  /\ lockOf \in [Sockets -> Locks \cup {None}]
  /\ userLocks \in [Users -> Locks \cup {None}]
  /\ holder \in [Locks -> Sockets \cup {None}]
  /\ waiters \in [Locks -> Seq(Sockets)]
  /\ userMap \in [Users -> Sockets \cup {None}]
  /\ active \subseteq Sockets
  /\ orphaned \subseteq Users

Init ==
  /\ pc = [s \in Sockets |-> "new"]
  /\ lockOf = [s \in Sockets |-> None]
  /\ userLocks = [u \in Users |-> None]
  /\ holder = [l \in Locks |-> None]
  /\ waiters = [l \in Locks |-> <<>>]
  /\ userMap = [u \in Users |-> None]
  /\ active = {}
  /\ orphaned = {}

(* _is_exists_device_ws: the user has an open socket on record.            *)
Exists(u) == userMap[u] \in active

(* With the lock, up to close() of the new socket or to accept().          *)
Admit(s) == pc' = [pc EXCEPT ![s] = IF Exists(UserOf(s)) THEN "closing" ELSE "accepting"]

(* asyncio.Lock.release: the lock goes to the first waiter.                *)
Release(s) ==
  LET l == lockOf[s] IN
  /\ lockOf' = [lockOf EXCEPT ![s] = None]
  /\ IF waiters[l] = <<>>
       THEN holder' = [holder EXCEPT ![l] = None] /\ UNCHANGED waiters
       ELSE /\ holder' = [holder EXCEPT ![l] = Head(waiters[l])]
            /\ waiters' = [waiters EXCEPT ![l] = Tail(@)]

(* Broken variant of Arrive: every handler makes a lock of its own.        *)
ArriveWithOwnLock(s) ==
  /\ pc[s] = "new"
  /\ userLocks' = [userLocks EXCEPT ![UserOf(s)] = s]
  /\ lockOf' = [lockOf EXCEPT ![s] = s]
  /\ holder' = [holder EXCEPT ![s] = s]
  /\ Admit(s)
  /\ UNCHANGED <<waiters, userMap, active, orphaned>>

(* connect_user takes, or creates, the lock of the user; a free lock is    *)
(* acquired without a suspension ...                                       *)
Arrive(s) ==
  LET u == UserOf(s)
      l == IF userLocks[u] = None THEN s ELSE userLocks[u]
  IN
  /\ pc[s] = "new"
  /\ userLocks' = [userLocks EXCEPT ![u] = l]
  /\ lockOf' = [lockOf EXCEPT ![s] = l]
  /\ IF holder[l] = None
       THEN holder' = [holder EXCEPT ![l] = s] /\ Admit(s) /\ UNCHANGED waiters
       ELSE /\ waiters' = [waiters EXCEPT ![l] = Append(@, s)]
            /\ pc' = [pc EXCEPT ![s] = "waiting"]
            /\ UNCHANGED holder
  /\ UNCHANGED <<userMap, active, orphaned>>

(* ... and a taken one when it is handed over.                             *)
Granted(s) ==
  /\ pc[s] = "waiting"
  /\ holder[lockOf[s]] = s
  /\ Admit(s)
  /\ UNCHANGED <<lockOf, userLocks, holder, waiters, userMap, active, orphaned>>

(* Broken variant of Accepted: active_connections is keyed by the user.    *)
RegistersUser(s) ==
  /\ pc[s] = "accepting"
  /\ pc' = [pc EXCEPT ![s] = "open"]
  /\ active' = active \cup {UserOf(s)}
  /\ userMap' = [userMap EXCEPT ![UserOf(s)] = s]
  /\ Release(s)
  /\ UNCHANGED <<userLocks, orphaned>>

(* accept() returns: the socket is registered and the lock released.       *)
Accepted(s) ==
  /\ pc[s] = "accepting"
  /\ pc' = [pc EXCEPT ![s] = "open"]
  /\ active' = active \cup {s}
  /\ userMap' = [userMap EXCEPT ![UserOf(s)] = s]
  /\ Release(s)
  /\ UNCHANGED <<userLocks, orphaned>>

(* Broken variant of AcceptFails: the lock is not released on an error.    *)
AcceptFailsLocked(s) ==
  /\ pc[s] = "accepting"
  /\ pc' = [pc EXCEPT ![s] = "gone"]
  /\ UNCHANGED <<lockOf, holder, waiters, userLocks, userMap, active, orphaned>>

(* accept() raises because the client is gone.                             *)
AcceptFails(s) ==
  /\ pc[s] = "accepting"
  /\ pc' = [pc EXCEPT ![s] = "gone"]
  /\ Release(s)
  /\ UNCHANGED <<userLocks, userMap, active, orphaned>>

(* close() of the rejected socket returns, connect_user returns False.     *)
Rejected(s) ==
  /\ pc[s] = "closing"
  /\ pc' = [pc EXCEPT ![s] = "gone"]
  /\ Release(s)
  /\ UNCHANGED <<userLocks, userMap, active, orphaned>>

InUse(l) == holder[l] # None

(* Broken variant of Disconnect: the entry of the user's map stays.        *)
DisconnectKeepsMap(s) ==
  /\ pc[s] = "open"
  /\ pc' = [pc EXCEPT ![s] = "gone"]
  /\ userLocks' = [userLocks EXCEPT ![UserOf(s)] = None]
  /\ active' = active \ {s}
  /\ UNCHANGED <<lockOf, holder, waiters, userMap, orphaned>>

(* receive_text raises: disconnect_user drops the entries of the user,     *)
(* whichever socket they stand for, the lock included.                     *)
Disconnect(s) ==
  LET u == UserOf(s) IN
  /\ pc[s] = "open"
  /\ pc' = [pc EXCEPT ![s] = "gone"]
  /\ userMap' = [userMap EXCEPT ![u] = None]
  /\ userLocks' = [userLocks EXCEPT ![u] = None]
  /\ active' = active \ {s}
  /\ orphaned' = IF userLocks[u] # None /\ InUse(userLocks[u]) THEN orphaned \cup {u} ELSE orphaned
  /\ UNCHANGED <<lockOf, holder, waiters>>

Finish(s) == Granted(s) \/ Accepted(s) \/ Rejected(s)

Next == \E s \in Sockets : Arrive(s) \/ Finish(s) \/ AcceptFails(s) \/ Disconnect(s)

Spec == Init /\ [][Next]_vars

(* The event loop resumes a handler whose lock, accept() or close() is due. *)
Fairness == \A s \in Sockets : WF_vars(Finish(s) \/ AcceptFails(s))

FairSpec == Spec /\ Fairness

-----------------------------------------------------------------------------
(* Properties.                                                             *)

OpenSockets(u) == {s \in Sockets : UserOf(s) = u /\ pc[s] = "open"}

(* test_websocket_manager.py: of concurrent connect_user calls for a user  *)
(* one is accepted, and a second socket of a user is refused.              *)
OneSocketPerUser == \A u \in Users : Cardinality(OpenSockets(u)) <= 1

(* That holds as long as no disconnect drops a lock other handlers hold or *)
(* wait for, and then the open socket is the one messages are sent to.     *)
OneSocketUnlessOrphaned ==
  \A u \in Users \ orphaned :
    \A s \in OpenSockets(u) : userMap[u] = s

(* A message of the relay is never routed to a socket that is closed, not  *)
(* even after the locks of a user got mixed up.                            *)
NoDeadRouting == \A u \in Users : userMap[u] # None => userMap[u] \in OpenSockets(u)

(* Every handler that asks for a connection is answered: accepted or       *)
(* refused, whatever lock objects the disconnects leave behind.            *)
EveryoneIsAnswered ==
  \A s \in Sockets : pc[s] = "waiting" ~> pc[s] \in {"open", "gone"}
=============================================================================
