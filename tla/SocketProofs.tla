---------------------------- MODULE SocketProofs ----------------------------
(***************************************************************************)
(* Type correctness and the safety properties of SocketManager, for any    *)
(* number of users and sockets.                                            *)
(***************************************************************************)
EXTENDS SocketManager, SequenceTheorems, TLAPS

Inside == {"waiting", "closing", "accepting"}

(* A lock object, the handler that holds it and those that wait for it     *)
(* agree with each other.                                                  *)
HeldBy ==
  /\ \A s \in Sockets : pc[s] \in Inside => lockOf[s] \in Locks
  /\ \A s \in Sockets : pc[s] \in {"closing", "accepting"} => holder[lockOf[s]] = s
  /\ \A l \in Locks : holder[l] # None =>
       lockOf[holder[l]] = l /\ pc[holder[l]] \in Inside

Queued(l) ==
  \A i \in 1..Len(waiters[l]) :
    /\ lockOf[waiters[l][i]] = l /\ pc[waiters[l][i]] = "waiting"
    /\ holder[l] # None /\ holder[l] # waiters[l][i]

Distinct(l) == \A i, j \in 1..Len(waiters[l]) : waiters[l][i] = waiters[l][j] => i = j

Waits ==
  \A s \in Sockets : pc[s] = "waiting" =>
    \/ holder[lockOf[s]] = s
    \/ \E i \in 1..Len(waiters[lockOf[s]]) : waiters[lockOf[s]][i] = s

LockInv == HeldBy /\ Waits /\ \A l \in Locks : Queued(l) /\ Distinct(l)

(* Nobody knows the lock object of a handler that has not arrived.         *)
FreshInv ==
  \A s \in Sockets : pc[s] = "new" =>
    /\ \A u \in Users : userLocks[u] # s
    /\ \A t \in Sockets : lockOf[t] # s

(* The maps stand for open sockets.                                        *)
MapInv ==
  /\ active = {s \in Sockets : pc[s] = "open"}
  /\ \A u \in Users : userMap[u] # None => userMap[u] \in active /\ UserOf(userMap[u]) = u

(* A user whose lock was never dropped in use has one lock object, which   *)
(* all its handlers go through, and no open socket beside the one mapped   *)
(* or while another is being accepted.                                     *)
OneLock ==
  \A s \in Sockets : UserOf(s) \notin orphaned =>
    /\ pc[s] \in Inside => lockOf[s] = userLocks[UserOf(s)]
    /\ pc[s] = "open" => userMap[UserOf(s)] = s
    /\ pc[s] = "accepting" => userMap[UserOf(s)] = None

IInv == TypeOK /\ LockInv /\ FreshInv /\ MapInv /\ OneLock

-----------------------------------------------------------------------------
(* No handler, no lock object and no entry: the invariant holds initially. *)
LEMMA InitIInv == Init => IInv
<1> SUFFICES ASSUME Init PROVE IInv
  OBVIOUS
<1> USE SocketAssumption DEF Init
<1>1. TypeOK
  BY DEF TypeOK
<1>2. LockInv
  BY DEF LockInv, HeldBy, Waits, Queued, Distinct, Inside
<1>3. FreshInv /\ MapInv /\ OneLock
  BY DEF FreshInv, MapInv, OneLock, Inside
<1>4. QED
  BY <1>1, <1>2, <1>3 DEF IInv

-----------------------------------------------------------------------------
(* Lock objects.                                                           *)

(* release() by the handler that holds the lock: the lock passes to the    *)
(* first waiter, and is free only when nobody waits for it.                *)
LEMMA ReleasePasses ==
  ASSUME TypeOK, LockInv, NEW s \in Sockets, pc[s] \in {"closing", "accepting"}, Release(s)
  PROVE  /\ lockOf[s] \in Locks /\ holder[lockOf[s]] = s
         /\ lockOf' = [lockOf EXCEPT ![s] = None]
         /\ \A m \in Locks : m # lockOf[s] => holder'[m] = holder[m] /\ waiters'[m] = waiters[m]
         /\ \/ /\ Len(waiters[lockOf[s]]) = 0
               /\ holder'[lockOf[s]] = None /\ waiters'[lockOf[s]] = waiters[lockOf[s]]
            \/ /\ Len(waiters[lockOf[s]]) > 0
               /\ holder'[lockOf[s]] = waiters[lockOf[s]][1]
               /\ Len(waiters'[lockOf[s]]) = Len(waiters[lockOf[s]]) - 1
               /\ \A i \in 1..Len(waiters'[lockOf[s]]) :
                    waiters'[lockOf[s]][i] = waiters[lockOf[s]][i + 1]
         /\ holder' \in [Locks -> Sockets \cup {None}]
         /\ waiters' \in [Locks -> Seq(Sockets)]
<1> DEFINE l == lockOf[s]
           q == waiters[l]
<1>1. l \in Locks /\ holder[l] = s
  BY DEF LockInv, HeldBy, Inside
<1>2. q \in Seq(Sockets) /\ waiters \in [Locks -> Seq(Sockets)]
      /\ holder \in [Locks -> Sockets \cup {None}]
  BY <1>1 DEF TypeOK
<1>3. lockOf' = [lockOf EXCEPT ![s] = None]
  BY DEF Release
<1>4. CASE q = <<>>
  <2>1. holder' = [holder EXCEPT ![l] = None] /\ waiters' = waiters
    BY <1>4 DEF Release
  <2>2. Len(q) = 0
    BY <1>4
  <2>3. QED
    BY <1>1, <1>2, <1>3, <2>1, <2>2
<1>5. CASE q # <<>>
  <2>1. holder' = [holder EXCEPT ![l] = Head(q)] /\ waiters' = [waiters EXCEPT ![l] = Tail(q)]
    BY <1>5 DEF Release
  <2>2. /\ Head(q) = q[1] /\ Head(q) \in Sockets /\ Tail(q) \in Seq(Sockets)
        /\ Len(Tail(q)) = Len(q) - 1
        /\ \A i \in 1..Len(Tail(q)) : Tail(q)[i] = q[i + 1]
    BY <1>2, <1>5, HeadTailProperties
  <2>3. Len(q) > 0
    BY <1>2, <1>5, EmptySeq
  <2>4. holder'[l] = q[1] /\ waiters'[l] = Tail(q)
    BY <1>1, <1>2, <2>1, <2>2
  <2>5. \A m \in Locks : m # l => holder'[m] = holder[m] /\ waiters'[m] = waiters[m]
    BY <1>2, <2>1
  <2>6. holder' \in [Locks -> Sockets \cup {None}] /\ waiters' \in [Locks -> Seq(Sockets)]
    BY <1>2, <2>1, <2>2
  <2>7. QED
    BY <1>1, <1>3, <2>2, <2>3, <2>4, <2>5, <2>6
<1>6. QED
  BY <1>4, <1>5

(* A handler that leaves the critical section keeps the locks in order.    *)
LEMMA LeaveLockInv ==
  ASSUME TypeOK, LockInv, NEW s \in Sockets, pc[s] \in {"closing", "accepting"}, Release(s),
         NEW label \in {"open", "gone"}, pc' = [pc EXCEPT ![s] = label]
  PROVE  LockInv'
<1> DEFINE l == lockOf[s]
           q == waiters[l]
<1>0. pc \in [Sockets -> {"new", "waiting", "closing", "accepting", "open", "gone"}]
      /\ lockOf \in [Sockets -> Locks \cup {None}]
  BY DEF TypeOK
<1>1. pc'[s] \notin Inside /\ \A t \in Sockets : t # s => pc'[t] = pc[t] /\ lockOf'[t] = lockOf[t]
  BY <1>0, ReleasePasses DEF Inside
<1>2. /\ l \in Locks /\ holder[l] = s
      /\ \A m \in Locks : m # l => holder'[m] = holder[m] /\ waiters'[m] = waiters[m]
      /\ \/ Len(q) = 0 /\ holder'[l] = None /\ waiters'[l] = q
         \/ /\ Len(q) > 0 /\ holder'[l] = q[1] /\ Len(waiters'[l]) = Len(q) - 1
            /\ \A i \in 1..Len(waiters'[l]) : waiters'[l][i] = q[i + 1]
  BY ReleasePasses
<1>3. /\ \A m \in Locks : holder[m] \in Sockets \cup {None}
      /\ \A m \in Locks : waiters[m] \in Seq(Sockets)
      /\ \A m \in Locks : Len(waiters[m]) \in Nat
      /\ \A m \in Locks : \A i \in 1..Len(waiters[m]) : waiters[m][i] \in Sockets
  BY DEF TypeOK
<1>4. \A m \in Locks : m # l => holder[m] # s
  BY <1>3, SocketAssumption DEF LockInv, HeldBy
<1>5. \A i \in 1..Len(q) : q[i] \in Sockets /\ q[i] # s /\ pc[q[i]] = "waiting" /\ lockOf[q[i]] = l
  BY <1>2, <1>3 DEF LockInv, Queued
<1>6. HeldBy'
  <2>1. ASSUME NEW t \in Sockets, pc'[t] \in Inside
        PROVE  /\ lockOf'[t] \in Locks
               /\ pc'[t] \in {"closing", "accepting"} => holder'[lockOf'[t]] = t
    <3>1. t # s /\ lockOf'[t] = lockOf[t] /\ pc'[t] = pc[t] /\ lockOf[t] \in Locks
      BY <1>1, <2>1 DEF LockInv, HeldBy
    <3>2. ASSUME pc[t] \in {"closing", "accepting"} PROVE holder'[lockOf[t]] = t
      BY <1>2, <3>1, <3>2 DEF LockInv, HeldBy
    <3>3. QED
      BY <3>1, <3>2
  <2>2. ASSUME NEW m \in Locks, holder'[m] # None
        PROVE  lockOf'[holder'[m]] = m /\ pc'[holder'[m]] \in Inside
    <3>1. CASE m # l
      BY <1>1, <1>2, <1>3, <1>4, <2>2, <3>1 DEF LockInv, HeldBy
    <3>2. CASE m = l
      <4>1. 1 \in 1..Len(q) /\ holder'[l] = q[1]
        BY <1>2, <1>3, <2>2, <3>2
      <4>2. QED
        BY <1>1, <1>5, <3>2, <4>1 DEF Inside
    <3>3. QED
      BY <3>1, <3>2
  <2>3. QED
    BY <2>1, <2>2 DEF HeldBy, Inside
<1>7. Waits'
  <2> SUFFICES ASSUME NEW t \in Sockets, pc'[t] = "waiting"
               PROVE  \/ holder'[lockOf'[t]] = t
                      \/ \E i \in 1..Len(waiters'[lockOf'[t]]) : waiters'[lockOf'[t]][i] = t
    BY DEF Waits
  <2>1. t # s /\ lockOf'[t] = lockOf[t] /\ pc[t] = "waiting" /\ lockOf[t] \in Locks
    BY <1>1 DEF LockInv, HeldBy, Inside
  <2>2. CASE lockOf[t] # l
    BY <1>2, <2>1, <2>2 DEF LockInv, Waits
  <2>3. CASE lockOf[t] = l
    <3>1. PICK i \in 1..Len(q) : q[i] = t
      BY <1>2, <2>1, <2>3 DEF LockInv, Waits
    <3>2. Len(q) \in Nat /\ Len(q) > 0
      BY <1>2, <1>3, <3>1
    <3>3. CASE i = 1
      BY <1>2, <2>1, <2>3, <3>1, <3>2, <3>3
    <3>4. CASE i # 1
      <4>1. i - 1 \in 1..Len(waiters'[l]) /\ (i - 1) + 1 = i
        BY <1>2, <3>1, <3>2, <3>4
      <4>2. waiters'[l][i - 1] = t
        BY <1>2, <3>1, <3>2, <4>1, SMTT(30)
      <4>3. QED
        BY <2>1, <2>3, <4>1, <4>2
    <3>5. QED
      BY <3>3, <3>4
  <2>4. QED
    BY <2>2, <2>3
<1>8. ASSUME NEW m \in Locks PROVE Queued(m)' /\ Distinct(m)'
  <2>1. CASE m # l
    <3>1. \A i \in 1..Len(waiters[m]) :
            waiters[m][i] \in Sockets /\ waiters[m][i] # s /\ holder[m] # None
            /\ lockOf[waiters[m][i]] = m /\ pc[waiters[m][i]] = "waiting"
            /\ holder[m] # waiters[m][i]
      BY <1>3 DEF LockInv, Queued
    <3>2. waiters'[m] = waiters[m] /\ holder'[m] = holder[m]
      BY <1>2, <2>1
    <3>3. Queued(m)'
      BY <1>1, <3>1, <3>2 DEF Queued
    <3>4. Distinct(m)'
      BY <3>2 DEF LockInv, Distinct
    <3>5. QED
      BY <3>3, <3>4
  <2>2. CASE m = l
    <3>1. CASE Len(q) = 0
      BY <1>2, <2>2, <3>1 DEF Queued, Distinct
    <3>2. CASE Len(q) > 0
      <4>1. /\ holder'[l] = q[1] /\ Len(q) \in Nat /\ 1 \in 1..Len(q)
            /\ Len(waiters'[l]) = Len(q) - 1
            /\ \A i \in 1..(Len(q) - 1) : waiters'[l][i] = q[i + 1] /\ i + 1 \in 1..Len(q)
        <5>1. Len(q) \in Nat
          BY <1>2, <1>3
        <5>2. holder'[l] = q[1] /\ Len(waiters'[l]) = Len(q) - 1
              /\ \A i \in 1..Len(waiters'[l]) : waiters'[l][i] = q[i + 1]
          BY <1>2, <3>2, <5>1
        <5>3. 1 \in 1..Len(q) /\ \A i \in 1..(Len(q) - 1) : i + 1 \in 1..Len(q)
          BY <3>2, <5>1
        <5>4. QED
          BY <5>1, <5>2, <5>3
      <4>2. \A i, j \in 1..Len(q) : q[i] = q[j] => i = j
        BY <1>2 DEF LockInv, Distinct
      <4>3. Distinct(m)'
        <5>1. ASSUME NEW i \in 1..(Len(q) - 1), NEW j \in 1..(Len(q) - 1),
                     waiters'[l][i] = waiters'[l][j]
              PROVE  i = j
          <6>1. q[i + 1] = q[j + 1] /\ i + 1 \in 1..Len(q) /\ j + 1 \in 1..Len(q)
            BY <4>1, <5>1
          <6>2. i + 1 = j + 1
            BY <4>2, <6>1
          <6>3. QED
            BY <4>1, <6>2
        <5>2. Len(waiters'[m]) = Len(q) - 1 /\ waiters'[m] = waiters'[l]
          BY <2>2, <4>1
        <5>3. QED
          BY <5>1, <5>2 DEF Distinct
      <4>4. ASSUME NEW i \in 1..(Len(q) - 1)
            PROVE  /\ lockOf'[q[i + 1]] = l /\ pc'[q[i + 1]] = "waiting"
                   /\ q[1] # None /\ q[1] # q[i + 1]
        <5>1. PICK k \in 1..Len(q) : k = i + 1 /\ k # 1
          BY <4>1
        <5>2. q[1] # q[k]
          BY <4>1, <4>2, <5>1
        <5>3. q[1] # None
          BY <1>5, <4>1, SocketAssumption
        <5>4. q[k] \in Sockets /\ q[k] # s /\ pc[q[k]] = "waiting" /\ lockOf[q[k]] = l
          BY <1>5
        <5>5. lockOf'[q[k]] = l /\ pc'[q[k]] = "waiting"
          BY <1>1, <5>4
        <5>6. QED
          BY <5>1, <5>2, <5>3, <5>5
      <4>5. Queued(m)'
        <5>1. \A i \in 1..(Len(q) - 1) :
                /\ lockOf'[waiters'[l][i]] = l /\ pc'[waiters'[l][i]] = "waiting"
                /\ holder'[l] # None /\ holder'[l] # waiters'[l][i]
          BY <4>1, <4>4
        <5>2. Len(waiters'[l]) = Len(q) - 1
          BY <4>1
        <5>3. \A i \in 1..Len(waiters'[m]) :
                /\ lockOf'[waiters'[m][i]] = m /\ pc'[waiters'[m][i]] = "waiting"
                /\ holder'[m] # None /\ holder'[m] # waiters'[m][i]
          BY <2>2, <5>1, <5>2
        <5>4. QED
          BY <5>3 DEF Queued
      <4>6. QED
        BY <4>3, <4>5
    <3>3. QED
      BY <1>2, <1>3, <3>1, <3>2
  <2>3. QED
    BY <2>1, <2>2
<1>9. QED
  BY <1>6, <1>7, <1>8 DEF LockInv

(* A handler arrives at a free lock, at a taken one, or with a new one; a  *)
(* new one is free, because nobody knows it.                               *)
LEMMA ArriveLockInv ==
  ASSUME TypeOK, LockInv, FreshInv, NEW s \in Sockets, Arrive(s)
  PROVE  LockInv'
<1> DEFINE u == UserOf(s)
           l == IF userLocks[u] = None THEN s ELSE userLocks[u]
<1> PICK m \in Locks : m = l
  BY DEF TypeOK, Locks, UserOf, Sockets
<1>0. /\ pc \in [Sockets -> {"new", "waiting", "closing", "accepting", "open", "gone"}]
      /\ lockOf \in [Sockets -> Locks \cup {None}]
      /\ holder \in [Locks -> Sockets \cup {None}]
      /\ waiters \in [Locks -> Seq(Sockets)]
      /\ \A k \in Locks : Len(waiters[k]) \in Nat
      /\ \A k \in Locks : \A i \in 1..Len(waiters[k]) : waiters[k][i] \in Sockets
  BY DEF TypeOK
<1>1. pc[s] = "new" /\ lockOf' = [lockOf EXCEPT ![s] = m]
  BY DEF Arrive
<1>2. /\ \A k \in Locks : holder[k] # s
      /\ \A k \in Locks : \A i \in 1..Len(waiters[k]) : waiters[k][i] # s
  BY <1>1, SocketAssumption DEF LockInv, HeldBy, Queued, Inside
<1>3. /\ pc'[s] \in Inside /\ lockOf'[s] = m
      /\ \A t \in Sockets : t # s => pc'[t] = pc[t] /\ lockOf'[t] = lockOf[t]
  BY <1>0, <1>1 DEF Arrive, Admit, Inside
<1>4. CASE holder[m] = None
  <2>1. /\ holder' = [holder EXCEPT ![m] = s] /\ waiters' = waiters
        /\ pc'[s] \in {"closing", "accepting"}
    BY <1>0, <1>4 DEF Arrive, Admit
  <2>2. \A i \in 1..Len(waiters[m]) : FALSE
    BY <1>4 DEF LockInv, Queued
  <2>3. \A t \in Sockets : pc[t] \in Inside => lockOf[t] # m
    BY <1>4, <2>2, SocketAssumption DEF LockInv, HeldBy, Waits, Inside
  <2>4. HeldBy'
    <3>1. ASSUME NEW t \in Sockets, pc'[t] \in Inside
          PROVE  /\ lockOf'[t] \in Locks
                 /\ pc'[t] \in {"closing", "accepting"} => holder'[lockOf'[t]] = t
      BY <1>0, <1>3, <2>1, <2>3, <3>1 DEF LockInv, HeldBy
    <3>2. ASSUME NEW k \in Locks, holder'[k] # None
          PROVE  lockOf'[holder'[k]] = k /\ pc'[holder'[k]] \in Inside
      BY <1>0, <1>2, <1>3, <2>1, <3>2 DEF LockInv, HeldBy
    <3>3. QED
      BY <3>1, <3>2 DEF HeldBy, Inside
  <2>5. Waits'
    <3> SUFFICES ASSUME NEW t \in Sockets, pc'[t] = "waiting"
                 PROVE  \/ holder'[lockOf'[t]] = t
                        \/ \E i \in 1..Len(waiters'[lockOf'[t]]) : waiters'[lockOf'[t]][i] = t
      BY DEF Waits
    <3>1. t # s
      BY <2>1
    <3>2. lockOf'[t] = lockOf[t] /\ pc[t] = "waiting" /\ lockOf[t] \in Locks /\ lockOf[t] # m
      BY <1>3, <2>3, <3>1 DEF LockInv, HeldBy, Inside
    <3>3. holder'[lockOf[t]] = holder[lockOf[t]]
      BY <1>0, <2>1, <3>2
    <3>4. QED
      BY <2>1, <3>2, <3>3 DEF LockInv, Waits
  <2>6. ASSUME NEW k \in Locks PROVE Queued(k)' /\ Distinct(k)'
    <3>1. \A i \in 1..Len(waiters[k]) :
            waiters[k][i] \in Sockets /\ waiters[k][i] # s /\ holder[k] # None /\ k # m
            /\ lockOf[waiters[k][i]] = k /\ pc[waiters[k][i]] = "waiting"
            /\ holder[k] # waiters[k][i]
      BY <1>0, <1>2, <1>4 DEF LockInv, Queued
    <3>2. Queued(k)'
      BY <1>0, <1>3, <2>1, <3>1 DEF Queued
    <3>3. Distinct(k)'
      BY <2>1 DEF LockInv, Distinct
    <3>4. QED
      BY <3>2, <3>3
  <2>7. QED
    BY <2>4, <2>5, <2>6 DEF LockInv
<1>5. CASE holder[m] # None
  <2>1. /\ holder' = holder /\ pc'[s] = "waiting"
        /\ waiters' = [waiters EXCEPT ![m] = Append(@, s)]
    BY <1>0, <1>5 DEF Arrive
  <2>2. /\ waiters'[m] = Append(waiters[m], s)
        /\ Len(waiters'[m]) = Len(waiters[m]) + 1
        /\ \A i \in 1..Len(waiters[m]) : waiters'[m][i] = waiters[m][i]
        /\ waiters'[m][Len(waiters[m]) + 1] = s
        /\ \A k \in Locks : k # m => waiters'[k] = waiters[k]
    BY <1>0, <2>1, AppendProperties
  <2>3. HeldBy'
    <3>1. ASSUME NEW t \in Sockets, pc'[t] \in Inside
          PROVE  /\ lockOf'[t] \in Locks
                 /\ pc'[t] \in {"closing", "accepting"} => holder'[lockOf'[t]] = t
      BY <1>3, <2>1, <3>1 DEF LockInv, HeldBy
    <3>2. ASSUME NEW k \in Locks, holder'[k] # None
          PROVE  lockOf'[holder'[k]] = k /\ pc'[holder'[k]] \in Inside
      BY <1>0, <1>2, <1>3, <2>1, <3>2 DEF LockInv, HeldBy
    <3>3. QED
      BY <3>1, <3>2 DEF HeldBy, Inside
  <2>4. Waits'
    <3> SUFFICES ASSUME NEW t \in Sockets, pc'[t] = "waiting"
                 PROVE  \/ holder'[lockOf'[t]] = t
                        \/ \E i \in 1..Len(waiters'[lockOf'[t]]) : waiters'[lockOf'[t]][i] = t
      BY DEF Waits
    <3>1. CASE t = s
      <4>1. Len(waiters[m]) + 1 \in 1..Len(waiters'[m])
        BY <1>0, <2>2
      <4>2. QED
        BY <1>3, <2>2, <3>1, <4>1
    <3>2. CASE t # s
      <4>1. lockOf'[t] = lockOf[t] /\ pc[t] = "waiting" /\ lockOf[t] \in Locks
        BY <1>3, <3>2 DEF LockInv, HeldBy, Inside
      <4>2. CASE lockOf[t] # m
        BY <2>1, <2>2, <4>1, <4>2 DEF LockInv, Waits
      <4>3. CASE lockOf[t] = m
        <5>1. \A i \in 1..Len(waiters[m]) : i \in 1..Len(waiters'[m])
          BY <1>0, <2>2
        <5>2. QED
          BY <2>1, <2>2, <4>1, <4>3, <5>1 DEF LockInv, Waits
      <4>4. QED
        BY <4>2, <4>3
    <3>3. QED
      BY <3>1, <3>2
  <2>5. ASSUME NEW k \in Locks PROVE Queued(k)' /\ Distinct(k)'
    <3>1. \A i \in 1..Len(waiters[k]) :
            waiters[k][i] \in Sockets /\ waiters[k][i] # s /\ holder[k] # None
            /\ lockOf[waiters[k][i]] = k /\ pc[waiters[k][i]] = "waiting"
            /\ holder[k] # waiters[k][i]
      BY <1>0, <1>2 DEF LockInv, Queued
    <3>2. \A i, j \in 1..Len(waiters[k]) : waiters[k][i] = waiters[k][j] => i = j
      BY DEF LockInv, Distinct
    <3>3. CASE k # m
      <4>1. waiters'[k] = waiters[k]
        BY <2>2, <3>3
      <4>2. ASSUME NEW i \in 1..Len(waiters[k])
            PROVE  /\ lockOf'[waiters[k][i]] = k /\ pc'[waiters[k][i]] = "waiting"
                   /\ holder'[k] # None /\ holder'[k] # waiters[k][i]
        BY <1>3, <2>1, <3>1
      <4>3. Queued(k)'
        BY <4>1, <4>2 DEF Queued
      <4>4. QED
        BY <3>2, <4>1, <4>3 DEF Distinct
    <3>4. CASE k = m
      <4>1. \A i \in 1..Len(waiters'[m]) :
              \/ i \in 1..Len(waiters[m]) /\ waiters'[m][i] = waiters[m][i]
              \/ i = Len(waiters[m]) + 1 /\ waiters'[m][i] = s
        BY <1>0, <2>2
      <4>2. Queued(k)'
        BY <1>2, <1>3, <1>5, <2>1, <3>1, <3>4, <4>1 DEF Queued
      <4>3. Distinct(k)'
        BY <1>2, <3>2, <3>4, <4>1 DEF Distinct
      <4>4. QED
        BY <4>2, <4>3
    <3>5. QED
      BY <3>3, <3>4
  <2>6. QED
    BY <2>3, <2>4, <2>5 DEF LockInv
<1>6. QED
  BY <1>4, <1>5

-----------------------------------------------------------------------------
(* Every step.                                                             *)

(* Type correctness of one step.                                           *)
LEMMA StepTypeOK == IInv /\ [Next]_vars => TypeOK'
<1> SUFFICES ASSUME TypeOK, LockInv, [Next]_vars PROVE TypeOK'
  BY DEF IInv
<1> USE DEF TypeOK
<1>1. ASSUME NEW s \in Sockets, Arrive(s) PROVE TypeOK'
  <2> DEFINE u == UserOf(s)
             l == IF userLocks[u] = None THEN s ELSE userLocks[u]
  <2>1. u \in Users /\ l \in Locks
    BY DEF UserOf, Sockets, Locks
  <2>2. /\ pc' \in [Sockets -> {"new", "waiting", "closing", "accepting", "open", "gone"}]
        /\ lockOf' \in [Sockets -> Locks \cup {None}]
        /\ userLocks' \in [Users -> Locks \cup {None}]
        /\ UNCHANGED <<userMap, active, orphaned>>
    BY <1>1, <2>1 DEF Arrive, Admit
  <2>3. holder' \in [Locks -> Sockets \cup {None}] /\ waiters' \in [Locks -> Seq(Sockets)]
    <3>1. CASE holder[l] = None
      BY <1>1, <2>1, <3>1 DEF Arrive
    <3>2. CASE holder[l] # None
      <4>1. holder' = holder /\ waiters' = [waiters EXCEPT ![l] = Append(@, s)]
        BY <1>1, <3>2 DEF Arrive
      <4>2. Append(waiters[l], s) \in Seq(Sockets)
        BY <2>1, AppendProperties
      <4>3. QED
        BY <2>1, <4>1, <4>2
    <3>3. QED
      BY <3>1, <3>2
  <2>4. QED
    BY <2>2, <2>3
<1>2. ASSUME NEW s \in Sockets, Granted(s) PROVE TypeOK'
  BY <1>2 DEF Granted, Admit
<1>3. ASSUME NEW s \in Sockets, Accepted(s) \/ Rejected(s) \/ AcceptFails(s) PROVE TypeOK'
  <2>1. pc[s] \in {"closing", "accepting"} /\ Release(s)
    BY <1>3 DEF Accepted, Rejected, AcceptFails
  <2>2. /\ lockOf' = [lockOf EXCEPT ![s] = None]
        /\ holder' \in [Locks -> Sockets \cup {None}] /\ waiters' \in [Locks -> Seq(Sockets)]
    BY <2>1, ReleasePasses
  <2>3. /\ pc' \in [Sockets -> {"new", "waiting", "closing", "accepting", "open", "gone"}]
        /\ userMap' \in [Users -> Sockets \cup {None}] /\ active' \subseteq Sockets
        /\ UNCHANGED <<userLocks, orphaned>>
    <3>1. CASE Accepted(s)
      BY <3>1 DEF Accepted
    <3>2. CASE Rejected(s)
      BY <3>2 DEF Rejected
    <3>3. CASE AcceptFails(s)
      BY <3>3 DEF AcceptFails
    <3>4. QED
      BY <1>3, <3>1, <3>2, <3>3
  <2>4. QED
    BY <2>2, <2>3
<1>4. ASSUME NEW s \in Sockets, Disconnect(s) PROVE TypeOK'
  <2>1. UserOf(s) \in Users
    BY DEF UserOf, Sockets
  <2>2. QED
    BY <1>4, <2>1 DEF Disconnect
<1>5. CASE UNCHANGED vars
  BY <1>5 DEF vars
<1>6. QED
  BY <1>1, <1>2, <1>3, <1>4, <1>5 DEF Next, Finish

(* The locks stay in order, whatever the disconnects drop.                 *)
LEMMA StepLockInv == IInv /\ [Next]_vars => LockInv'
<1> SUFFICES ASSUME TypeOK, LockInv, FreshInv, [Next]_vars PROVE LockInv'
  BY DEF IInv
<1>1. ASSUME NEW s \in Sockets, Arrive(s) PROVE LockInv'
  BY <1>1, ArriveLockInv
<1>2. ASSUME NEW s \in Sockets, Granted(s) PROVE LockInv'
  <2>1. /\ pc[s] = "waiting" /\ holder[lockOf[s]] = s /\ UNCHANGED <<lockOf, holder, waiters>>
        /\ pc'[s] \in {"closing", "accepting"} /\ \A t \in Sockets : t # s => pc'[t] = pc[t]
    BY <1>2 DEF Granted, Admit, TypeOK
  <2>2. HeldBy' /\ Waits'
    <3>1. \A k \in Locks : holder[k] \in Sockets \cup {None}
      BY DEF TypeOK
    <3>2. HeldBy'
      BY <2>1, <3>1 DEF LockInv, HeldBy, Inside
    <3>3. Waits'
      BY <2>1 DEF LockInv, Waits
    <3>4. QED
      BY <3>2, <3>3
  <2>3. ASSUME NEW k \in Locks PROVE Queued(k)' /\ Distinct(k)'
    <3>1. ASSUME NEW i \in 1..Len(waiters[k])
          PROVE  waiters[k][i] \in Sockets /\ waiters[k][i] # s
      BY <2>1 DEF LockInv, Queued, TypeOK
    <3>2. Queued(k) /\ Distinct(k)
      BY DEF LockInv
    <3>3. QED
      BY <2>1, <3>1, <3>2 DEF Queued, Distinct
  <2>4. QED
    BY <2>2, <2>3 DEF LockInv
<1>3. ASSUME NEW s \in Sockets, Accepted(s) \/ Rejected(s) \/ AcceptFails(s) PROVE LockInv'
  <2>1. PICK label \in {"open", "gone"} : pc' = [pc EXCEPT ![s] = label]
    BY <1>3 DEF Accepted, Rejected, AcceptFails
  <2>2. pc[s] \in {"closing", "accepting"} /\ Release(s)
    BY <1>3 DEF Accepted, Rejected, AcceptFails
  <2>3. QED
    BY <2>1, <2>2, LeaveLockInv
<1>4. ASSUME NEW s \in Sockets, Disconnect(s) PROVE LockInv'
  <2>1. /\ pc[s] = "open" /\ UNCHANGED <<lockOf, holder, waiters>>
        /\ pc'[s] = "gone" /\ \A t \in Sockets : t # s => pc'[t] = pc[t]
    BY <1>4 DEF Disconnect, TypeOK
  <2>2. HeldBy' /\ Waits'
    <3>1. \A k \in Locks : holder[k] \in Sockets \cup {None}
      BY DEF TypeOK
    <3>2. HeldBy'
      BY <2>1, <3>1 DEF LockInv, HeldBy, Inside
    <3>3. Waits'
      BY <2>1 DEF LockInv, Waits
    <3>4. QED
      BY <3>2, <3>3
  <2>3. ASSUME NEW k \in Locks PROVE Queued(k)' /\ Distinct(k)'
    <3>1. ASSUME NEW i \in 1..Len(waiters[k])
          PROVE  waiters[k][i] \in Sockets /\ waiters[k][i] # s
      BY <2>1 DEF LockInv, Queued, TypeOK
    <3>2. Queued(k) /\ Distinct(k)
      BY DEF LockInv
    <3>3. QED
      BY <2>1, <3>1, <3>2 DEF Queued, Distinct
  <2>4. QED
    BY <2>2, <2>3 DEF LockInv
<1>5. CASE UNCHANGED vars
  BY <1>5 DEF vars, LockInv, HeldBy, Waits, Queued, Distinct
<1>6. QED
  BY <1>1, <1>2, <1>3, <1>4, <1>5 DEF Next, Finish

(* A lock object is known only once the handler that made it has arrived.  *)
LEMMA StepFreshInv == IInv /\ [Next]_vars => FreshInv'
<1> SUFFICES ASSUME TypeOK, LockInv, FreshInv, [Next]_vars, NEW t \in Sockets, pc'[t] = "new"
             PROVE  (\A u \in Users : userLocks'[u] # t) /\ (\A r \in Sockets : lockOf'[r] # t)
  BY DEF IInv, FreshInv
<1> USE SocketAssumption DEF TypeOK, FreshInv
<1>1. ASSUME NEW s \in Sockets, Arrive(s) PROVE pc[t] = "new" /\ t # s
  BY <1>1 DEF Arrive, Admit
<1>2. ASSUME NEW s \in Sockets, Arrive(s)
      PROVE  (\A u \in Users : userLocks'[u] # t) /\ (\A r \in Sockets : lockOf'[r] # t)
  BY <1>1, <1>2 DEF Arrive, UserOf, Sockets
<1>3. ASSUME NEW s \in Sockets, Granted(s)
      PROVE  (\A u \in Users : userLocks'[u] # t) /\ (\A r \in Sockets : lockOf'[r] # t)
  BY <1>3 DEF Granted, Admit
<1>4. ASSUME NEW s \in Sockets, Accepted(s) \/ Rejected(s) \/ AcceptFails(s)
      PROVE  (\A u \in Users : userLocks'[u] # t) /\ (\A r \in Sockets : lockOf'[r] # t)
  <2>1. pc[t] = "new" /\ userLocks' = userLocks /\ lockOf' = [lockOf EXCEPT ![s] = None]
    BY <1>4 DEF Accepted, Rejected, AcceptFails, Release
  <2>2. QED
    BY <2>1
<1>5. ASSUME NEW s \in Sockets, Disconnect(s)
      PROVE  (\A u \in Users : userLocks'[u] # t) /\ (\A r \in Sockets : lockOf'[r] # t)
  BY <1>5 DEF Disconnect
<1>6. CASE UNCHANGED vars
  BY <1>6 DEF vars
<1>7. QED
  BY <1>2, <1>3, <1>4, <1>5, <1>6 DEF Next, Finish

(* The entries of a user stand for open sockets, whichever lock the        *)
(* handlers went through: accept() and receive_text() end in one step with *)
(* the registration they belong to.                                        *)
LEMMA StepMapInv == IInv /\ [Next]_vars => MapInv'
<1> SUFFICES ASSUME TypeOK, MapInv, [Next]_vars PROVE MapInv'
  BY DEF IInv
<1> USE SocketAssumption DEF TypeOK, MapInv
<1>0. \A s \in Sockets : UserOf(s) \in Users
  BY DEF UserOf, Sockets
<1>1. ASSUME NEW s \in Sockets, Arrive(s) \/ Granted(s) \/ Rejected(s) \/ AcceptFails(s)
      PROVE  MapInv'
  <2>1. /\ pc[s] # "open" /\ pc'[s] # "open" /\ \A t \in Sockets : t # s => pc'[t] = pc[t]
        /\ UNCHANGED <<userMap, active>>
    BY <1>1 DEF Arrive, Granted, Admit, Rejected, AcceptFails
  <2>2. QED
    BY <2>1
<1>2. ASSUME NEW s \in Sockets, Accepted(s) PROVE MapInv'
  BY <1>0, <1>2 DEF Accepted
<1>3. ASSUME NEW s \in Sockets, Disconnect(s) PROVE MapInv'
  BY <1>0, <1>3 DEF Disconnect
<1>4. CASE UNCHANGED vars
  BY <1>4 DEF vars
<1>5. QED
  BY <1>1, <1>2, <1>3, <1>4 DEF Next, Finish

(* The handlers inside the critical section, or waiting, of a user whose   *)
(* lock was never dropped in use have the lock of that user in common.     *)
LEMMA StepOneLock == IInv /\ [Next]_vars => OneLock'
<1> SUFFICES ASSUME TypeOK, LockInv, MapInv, OneLock, [Next]_vars,
                    NEW t \in Sockets, UserOf(t) \notin orphaned'
             PROVE  /\ pc'[t] \in Inside => lockOf'[t] = userLocks'[UserOf(t)]
                    /\ pc'[t] = "open" => userMap'[UserOf(t)] = t
                    /\ pc'[t] = "accepting" => userMap'[UserOf(t)] = None
  BY DEF IInv, OneLock
<1> DEFINE Goal == /\ pc'[t] \in Inside => lockOf'[t] = userLocks'[UserOf(t)]
                   /\ pc'[t] = "open" => userMap'[UserOf(t)] = t
                   /\ pc'[t] = "accepting" => userMap'[UserOf(t)] = None
<1>0. \A r \in Sockets : UserOf(r) \in Users
  BY DEF UserOf, Sockets
<1>1. UserOf(t) \notin orphaned
  BY DEF Next, Finish, Arrive, Granted, Accepted, Rejected, AcceptFails, Disconnect, vars
<1>2. \A r \in Sockets : pc[r] \in Inside =>
        /\ lockOf[r] \in Locks /\ holder[lockOf[r]] # None
        /\ UserOf(r) \notin orphaned => lockOf[r] = userLocks[UserOf(r)]
  BY SocketAssumption DEF LockInv, HeldBy, Waits, Queued, OneLock, Inside
<1>3. \A r \in Sockets : UserOf(r) \notin orphaned =>
        /\ pc[r] = "open" => userMap[UserOf(r)] = r
        /\ pc[r] = "accepting" => userMap[UserOf(r)] = None
  BY DEF OneLock
<1>4. \A u \in Users : ~Exists(u) => userMap[u] = None
  BY DEF Exists, MapInv
<1>5. ASSUME NEW s \in Sockets, Arrive(s) PROVE Goal
  <2>1. /\ pc[s] = "new" /\ UNCHANGED <<userMap, orphaned>>
        /\ \A r \in Sockets : r # s => pc'[r] = pc[r] /\ lockOf'[r] = lockOf[r]
        /\ \A u \in Users : u # UserOf(s) => userLocks'[u] = userLocks[u]
        /\ userLocks[UserOf(s)] # None => userLocks'[UserOf(s)] = userLocks[UserOf(s)]
        /\ lockOf'[s] = userLocks'[UserOf(s)]
    BY <1>0, <1>5 DEF Arrive, Admit, TypeOK
  <2>2. /\ pc'[s] # "open"
        /\ pc'[s] = "accepting" => ~Exists(UserOf(s))
    BY <1>5 DEF Arrive, Admit, TypeOK
  <2>3. CASE t = s
    BY <1>0, <1>4, <2>1, <2>2, <2>3
  <2>4. CASE t # s
    <3>1. pc[t] \in Inside => userLocks[UserOf(t)] \in Locks
      BY <1>1, <1>2
    <3>2. pc[t] \in Inside => userLocks'[UserOf(t)] = userLocks[UserOf(t)]
      BY <1>0, <2>1, <3>1, SocketAssumption DEF Locks
    <3>3. QED
      BY <1>1, <1>2, <1>3, <2>1, <2>4, <3>2
  <2>5. QED
    BY <2>3, <2>4
<1>6. ASSUME NEW s \in Sockets, Granted(s) PROVE Goal
  <2>1. /\ pc[s] = "waiting" /\ UNCHANGED <<lockOf, userLocks, userMap, orphaned>>
        /\ \A r \in Sockets : r # s => pc'[r] = pc[r]
        /\ pc'[s] # "open"
        /\ pc'[s] = "accepting" => ~Exists(UserOf(s))
    BY <1>6 DEF Granted, Admit, TypeOK
  <2>2. QED
    BY <1>0, <1>1, <1>2, <1>3, <1>4, <2>1 DEF Inside
<1>7. ASSUME NEW s \in Sockets, Accepted(s) PROVE Goal
  <2>1. /\ pc[s] = "accepting" /\ pc'[s] = "open" /\ UNCHANGED <<userLocks, orphaned>>
        /\ \A r \in Sockets : r # s => pc'[r] = pc[r] /\ lockOf'[r] = lockOf[r]
        /\ \A u \in Users : u # UserOf(s) => userMap'[u] = userMap[u]
        /\ userMap'[UserOf(s)] = s
    BY <1>0, <1>7 DEF Accepted, Release, TypeOK
  <2>2. CASE t = s
    BY <2>1, <2>2 DEF Inside
  <2>3. CASE t # s /\ UserOf(t) # UserOf(s)
    BY <1>0, <1>1, <1>2, <1>3, <2>1, <2>3
  <2>4. CASE t # s /\ UserOf(t) = UserOf(s)
    <3>1. pc[t] # "open"
      BY <1>1, <1>3, <2>1, <2>4, SocketAssumption
    <3>2. pc[t] # "accepting"
      <4>1. holder[lockOf[s]] = s /\ lockOf[s] = userLocks[UserOf(t)]
        BY <1>1, <1>2, <2>1, <2>4 DEF LockInv, HeldBy, Inside
      <4>2. pc[t] = "accepting" => holder[lockOf[t]] = t /\ lockOf[t] = userLocks[UserOf(t)]
        BY <1>1, <1>2 DEF LockInv, HeldBy, Inside
      <4>3. QED
        BY <2>4, <4>1, <4>2
    <3>3. QED
      BY <1>1, <1>2, <2>1, <2>4, <3>1, <3>2
  <2>5. QED
    BY <2>2, <2>3, <2>4
<1>8. ASSUME NEW s \in Sockets, Rejected(s) \/ AcceptFails(s) PROVE Goal
  <2>1. /\ pc'[s] = "gone" /\ UNCHANGED <<userLocks, userMap, orphaned>>
        /\ \A r \in Sockets : r # s => pc'[r] = pc[r] /\ lockOf'[r] = lockOf[r]
    BY <1>8 DEF Rejected, AcceptFails, Release, TypeOK
  <2>2. QED
    BY <1>1, <1>2, <1>3, <2>1 DEF Inside
<1>9. ASSUME NEW s \in Sockets, Disconnect(s) PROVE Goal
  <2>1. /\ pc[s] = "open" /\ pc'[s] = "gone" /\ UNCHANGED <<lockOf, holder>>
        /\ \A r \in Sockets : r # s => pc'[r] = pc[r]
        /\ \A u \in Users : u # UserOf(s) => userMap'[u] = userMap[u] /\ userLocks'[u] = userLocks[u]
    BY <1>0, <1>9 DEF Disconnect, TypeOK
  <2>2. CASE UserOf(t) # UserOf(s)
    BY <1>0, <1>1, <1>2, <1>3, <2>1, <2>2
  <2>3. CASE UserOf(t) = UserOf(s) /\ t # s
    <3>1. userLocks[UserOf(t)] = None \/ holder[userLocks[UserOf(t)]] = None
      BY <1>9, <2>3 DEF Disconnect, InUse
    <3>2. pc[t] \notin Inside
      BY <1>1, <1>2, <3>1, SocketAssumption DEF Locks
    <3>3. pc[t] # "open"
      BY <1>1, <1>3, <2>1, <2>3
    <3>4. QED
      BY <2>1, <2>3, <3>2, <3>3 DEF Inside
  <2>4. CASE t = s
    BY <2>1, <2>4 DEF Inside
  <2>5. QED
    BY <2>2, <2>3, <2>4
<1>10. CASE UNCHANGED vars
  BY <1>1, <1>2, <1>3, <1>10 DEF vars
<1>11. QED
  BY <1>5, <1>6, <1>7, <1>8, <1>9, <1>10 DEF Next, Finish

-----------------------------------------------------------------------------
(* The theorems.                                                           *)

(* The inductive invariant holds in every reachable state.                 *)
LEMMA Invariance == Spec => []IInv
<1>1. IInv /\ [Next]_vars => IInv'
  BY StepTypeOK, StepLockInv, StepFreshInv, StepMapInv, StepOneLock DEF IInv
<1>2. QED
  BY InitIInv, <1>1, PTL DEF Spec

(* Every variable of the manager and of its handlers keeps its type.       *)
THEOREM TypeCorrect == Spec => []TypeOK
<1>1. IInv => TypeOK
  BY DEF IInv
<1>2. QED
  BY <1>1, Invariance, PTL

(* A user's messages are never routed to a closed socket.                  *)
THEOREM AliveRouting == Spec => []NoDeadRouting
<1>1. IInv => NoDeadRouting
  BY DEF IInv, TypeOK, MapInv, NoDeadRouting, OpenSockets
<1>2. QED
  BY <1>1, Invariance, PTL

(* A user whose lock was never dropped in use has at most the open socket  *)
(* its messages are routed to.                                             *)
THEOREM UniqueSocket == Spec => []OneSocketUnlessOrphaned
<1>1. IInv => OneSocketUnlessOrphaned
  BY DEF IInv, OneLock, OneSocketUnlessOrphaned, OpenSockets
<1>2. QED
  BY <1>1, Invariance, PTL
=============================================================================
