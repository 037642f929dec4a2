---------------------------- MODULE OutboxProofs ----------------------------
(***************************************************************************)
(* Type correctness, the safety invariants and the refinement of Outbox,   *)
(* for any number of requests, consumers, relays, tries and faults.        *)
(***************************************************************************)
EXTENDS OutboxRefinement, FiniteSetTheorems, TLAPS

Busy == {"send", "refused", "remove", "commit"}

(* A relay past its SELECT works on a stored row, an idle one on none.     *)
Working ==
  \A w \in Relays :
    IF rpc[w] \in Busy THEN cur[w] \in Rows /\ Stored(cur[w]) ELSE cur[w] = NoRow

(* What a request's session holds before its commit, and where its rows    *)
(* can be afterwards.                                                      *)
Sessions ==
  /\ \A o \in Ops : wpc[o] = "prepared" => "outbox" \in wrote[o]
  /\ \A o \in Ops : durable[o] # {} => wpc[o] = "done"
  /\ \A r \in table : Stored(r)

Settled(r) == handed[r] > 0 \/ (Table = "events_outbox" /\ OpOf(r) \notin business)

(* A relay that is about to delete a row has sent it, or has seen that its *)
(* publication is gone.                                                    *)
SettledFirst == \A w \in Relays : rpc[w] \in {"remove", "commit"} => Settled(cur[w])

IInv == TypeOK /\ Working /\ Sessions /\ SettledFirst /\ NoSilentChange /\ NoUnsentRemoval

-----------------------------------------------------------------------------
(* The empty tables and idle relays satisfy the inductive invariant.       *)
LEMMA InitIInv == Init => IInv
  BY OutboxAssumption
     DEF Init, IInv, TypeOK, Working, Sessions, SettledFirst, NoSilentChange,
         NoUnsentRemoval, Busy, Stored, Rows, OpOf

USE DEF Fault, Refusal, MoreTrouble

(* Type correctness of one step.                                           *)
LEMMA StepTypeOK == IInv /\ [Next]_vars => TypeOK'
<1> SUFFICES ASSUME TypeOK, Working, [Next]_vars PROVE TypeOK'
  BY DEF IInv
<1> USE OutboxAssumption DEF TypeOK, writerVars, relayVars, producerVars, costs, Rows, RowsOf, OpOf
<1>1. ASSUME NEW o \in Ops, InsertBusiness(o) PROVE TypeOK'
  BY <1>1 DEF InsertBusiness
<1>2. ASSUME NEW o \in Ops, InsertOutbox(o) PROVE TypeOK'
  BY <1>2, SMTT(30) DEF InsertOutbox
<1>3. ASSUME NEW o \in Ops, WriterReconnect(o) PROVE TypeOK'
  BY <1>3 DEF WriterReconnect
<1>4. ASSUME NEW o \in Ops, WriterCommit(o) PROVE TypeOK'
  BY <1>4 DEF WriterCommit
<1>5. ASSUME NEW o \in Ops, WriterAbort(o) PROVE TypeOK'
  BY <1>5 DEF WriterAbort
<1>6. ASSUME NEW o \in Ops, RemovePost(o) PROVE TypeOK'
  BY <1>6 DEF RemovePost
<1>7. ASSUME NEW w \in Relays, RelaySelect(w) PROVE TypeOK'
  BY <1>7 DEF RelaySelect, Unlocked
<1>8. ASSUME NEW w \in Relays, RelayIdle(w) PROVE TypeOK'
  BY <1>8 DEF RelayIdle
<1>9. ASSUME NEW w \in Relays, RelayWake(w) PROVE TypeOK'
  BY <1>9 DEF RelayWake
<1>10. ASSUME NEW w \in Relays, rpc[w] = "send", Hand(w) PROVE TypeOK'
  <2>1. cur[w] \in Rows
    BY <1>10 DEF Working, Busy
  <2>2. QED
    BY <1>10, <2>1 DEF Hand
<1>11. ASSUME NEW w \in Relays, RelayDropPost(w) PROVE TypeOK'
  BY <1>11 DEF RelayDropPost
<1>12. ASSUME NEW w \in Relays, RelayRemove(w) PROVE TypeOK'
  BY <1>12 DEF RelayRemove
<1>13. ASSUME NEW w \in Relays, RelayRemoveMisses(w) PROVE TypeOK'
  BY <1>13 DEF RelayRemoveMisses, RelayRollsBack, Release
<1>14. ASSUME NEW w \in Relays, RelayCommit(w) PROVE TypeOK'
  BY <1>14 DEF RelayCommit, Release
<1>15. ASSUME NEW w \in Relays, RelayReconnect(w) PROVE TypeOK'
  BY <1>15 DEF RelayReconnect, Release
<1>16. ASSUME NEW w \in Relays, RelayAbort(w) PROVE TypeOK'
  BY <1>16 DEF RelayAbort, RelayRollsBack, Release
<1>17. ASSUME NEW w \in Relays, Crash(w) PROVE TypeOK'
  BY <1>17 DEF Crash, RelayRollsBack, Release
<1>18. ASSUME NEW w \in Relays, Flush(w) PROVE TypeOK'
  BY <1>18 DEF Flush
<1>19. ASSUME NEW w \in Relays, RelayRefused(w) PROVE TypeOK'
  BY <1>19 DEF RelayRefused, HasMessage
<1>20. ASSUME NEW w \in Relays, RelayRaises(w) PROVE TypeOK'
  BY <1>20 DEF RelayRaises, RelayRollsBack, Release
<1>21. ASSUME NEW w \in Relays, RefusedCall(w) \/ StopEnds(w) PROVE TypeOK'
  <2>1. CASE RefusedCall(w)
    BY <2>1 DEF RefusedCall
  <2>2. CASE StopEnds(w)
    BY <2>2 DEF StopEnds
  <2>3. QED
    BY <1>21, <2>1, <2>2
<1>22. ASSUME NEW w \in Relays, ProducerDrops(w) PROVE TypeOK'
  BY <1>22 DEF ProducerDrops
<1>23. CASE UNCHANGED vars
  BY <1>23 DEF vars
<1>24. QED
  BY <1>1, <1>2, <1>3, <1>4, <1>5, <1>6, <1>7, <1>8, <1>9, <1>10, <1>11, <1>12,
     <1>13, <1>14, <1>15, <1>16, <1>17, <1>18, <1>19, <1>20, <1>21, <1>22, <1>23
     DEF Next, Writer, RelayStep, RelayFault, RelaySendUser, RelaySendPost, ProducerStep

(* One step preserves the rest of the invariant.                           *)
LEMMA StepIInv == IInv /\ [Next]_vars => IInv'
<1> DEFINE Rest == Working /\ Sessions /\ SettledFirst /\ NoSilentChange /\ NoUnsentRemoval
<1> SUFFICES ASSUME IInv, [Next]_vars PROVE Rest'
  BY StepTypeOK DEF IInv
<1> USE OutboxAssumption
    DEF IInv, TypeOK, Working, Busy, Sessions, SettledFirst, Settled, NoSilentChange,
        NoUnsentRemoval, Stored, writerVars, relayVars, producerVars, costs, Rows, RowsOf,
        OpOf
<1>1. ASSUME NEW o \in Ops, InsertBusiness(o) PROVE Rest'
  BY <1>1 DEF InsertBusiness
<1>2. ASSUME NEW o \in Ops, InsertOutbox(o) PROVE Rest'
  BY <1>2 DEF InsertOutbox
<1>3. ASSUME NEW o \in Ops, WriterReconnect(o) PROVE Rest'
  BY <1>3 DEF WriterReconnect
<1>4. ASSUME NEW o \in Ops, WriterCommit(o) PROVE Rest'
  BY <1>4 DEF WriterCommit
<1>5. ASSUME NEW o \in Ops, WriterAbort(o) PROVE Rest'
  BY <1>5 DEF WriterAbort
<1>6. ASSUME NEW o \in Ops, RemovePost(o) PROVE Rest'
  BY <1>6 DEF RemovePost
<1>7. ASSUME NEW w \in Relays, RelaySelect(w) PROVE Rest'
  BY <1>7 DEF RelaySelect, Unlocked
<1>8. ASSUME NEW w \in Relays, RelayIdle(w) PROVE Rest'
  BY <1>8 DEF RelayIdle
<1>9. ASSUME NEW w \in Relays, RelayWake(w) PROVE Rest'
  BY <1>9 DEF RelayWake
<1>10. ASSUME NEW w \in Relays, rpc[w] = "send", Hand(w) PROVE Rest'
  BY <1>10 DEF Hand
<1>11. ASSUME NEW w \in Relays, RelayDropPost(w) PROVE Rest'
  BY <1>11 DEF RelayDropPost
<1>12. ASSUME NEW w \in Relays, RelayRemove(w) PROVE Rest'
  BY <1>12 DEF RelayRemove
<1>13. ASSUME NEW w \in Relays, RelayRemoveMisses(w) PROVE Rest'
  BY <1>13 DEF RelayRemoveMisses, RelayRollsBack, Release
<1>14. ASSUME NEW w \in Relays, RelayCommit(w) PROVE Rest'
  BY <1>14 DEF RelayCommit, Release
<1>15. ASSUME NEW w \in Relays, RelayReconnect(w) PROVE Rest'
  BY <1>15 DEF RelayReconnect, Release
<1>16. ASSUME NEW w \in Relays, RelayAbort(w) PROVE Rest'
  BY <1>16 DEF RelayAbort, RelayRollsBack, Release
<1>17. ASSUME NEW w \in Relays, Crash(w) PROVE Rest'
  BY <1>17 DEF Crash, RelayRollsBack, Release
<1>18. ASSUME NEW w \in Relays, Flush(w) PROVE Rest'
  BY <1>18 DEF Flush
<1>19. ASSUME NEW w \in Relays, RelayRefused(w) PROVE Rest'
  BY <1>19 DEF RelayRefused, HasMessage
<1>20. ASSUME NEW w \in Relays, RelayRaises(w) PROVE Rest'
  BY <1>20 DEF RelayRaises, RelayRollsBack, Release
<1>21. ASSUME NEW w \in Relays, RefusedCall(w) \/ StopEnds(w) PROVE Rest'
  BY <1>21 DEF RefusedCall, StopEnds
<1>22. ASSUME NEW w \in Relays, ProducerDrops(w) PROVE Rest'
  BY <1>22 DEF ProducerDrops
<1>23. CASE UNCHANGED vars
  BY <1>23 DEF vars
<1>24. QED
  BY <1>1, <1>2, <1>3, <1>4, <1>5, <1>6, <1>7, <1>8, <1>9, <1>10, <1>11,
     <1>12, <1>13, <1>14, <1>15, <1>16, <1>17, <1>18, <1>19, <1>20, <1>21, <1>22, <1>23
     DEF Next, Writer, RelayStep, RelayFault, RelaySendUser, RelaySendPost, ProducerStep

-----------------------------------------------------------------------------
(* The theorems.                                                           *)

(* The inductive invariant holds in every reachable state.                 *)
LEMMA Invariance == Spec => []IInv
<1>1. Init => IInv
  BY InitIInv
<1>2. IInv /\ [Next]_vars => IInv'
  BY StepIInv
<1>3. QED
  BY <1>1, <1>2, PTL DEF Spec

(* Every variable of requests, relays and producers keeps its type.        *)
THEOREM TypeCorrect == Spec => []TypeOK
<1>1. IInv => TypeOK
  BY DEF IInv
<1>2. QED
  BY <1>1, Invariance, PTL

(* A committed user or publication always has its outbox rows: the retry   *)
(* of execute_stmt can lose the first statement, never the last.           *)
THEOREM NeverSilent == Spec => []NoSilentChange
<1>1. IInv => NoSilentChange
  BY DEF IInv
<1>2. QED
  BY <1>1, Invariance, PTL

(* No interleaving of relays, rollbacks, retries and crashes removes a row *)
(* that nobody sent, unless its publication is gone.                       *)
THEOREM NeverUnsent == Spec => []NoUnsentRemoval
<1>1. IInv => NoUnsentRemoval
  BY DEF IInv
<1>2. QED
  BY <1>1, Invariance, PTL

-----------------------------------------------------------------------------
(* How often a row is sent.                                                *)

(* A locked row is in the table and its owner works on it; a relay that    *)
(* has deleted a row holds its lock until the commit.                      *)
LockInv ==
  /\ \A r \in Rows : lock[r] # NoRelay =>
       r \in table /\ cur[lock[r]] = r /\ rpc[lock[r]] \in Busy
  /\ \A w \in Relays : rpc[w] = "commit" => lock[cur[w]] = w

Senders(r) == {w \in Relays : rpc[w] \in {"send", "refused"} /\ cur[w] = r}
Open(r) == ~Stored(r) \/ (r \in table /\ lock[r] = NoRelay)

(* The sends of a row that happened, that are about to happen, or to free  *)
(* the row for another try, and the one that a relay taking it would add.  *)
Sends(r) == handed[r] + Cardinality(Senders(r)) + (IF Open(r) THEN 1 ELSE 0)

Budget == \A r \in Rows : Sends(r) <= 1 + faults

(* Only one relay works on a row it has locked: SELECT ... SKIP LOCKED     *)
(* takes free rows, and a rollback, a commit or a lost connection gives    *)
(* the lock back.                                                          *)
LEMMA StepLockInv == IInv /\ LockInv /\ [Next]_vars => LockInv'
<1> SUFFICES ASSUME TypeOK, Working, Sessions, LockInv, [Next]_vars PROVE LockInv'
  BY DEF IInv
<1> USE OutboxAssumption
    DEF TypeOK, Working, Busy, Sessions, LockInv, Stored, writerVars, relayVars,
        producerVars, costs, Rows, RowsOf, OpOf
<1>1. ASSUME NEW o \in Ops, Writer(o) PROVE LockInv'
  BY <1>1 DEF Writer, InsertBusiness, InsertOutbox, WriterReconnect, WriterCommit,
              WriterAbort, RemovePost
<1>2. ASSUME NEW w \in Relays, RelaySelect(w) PROVE LockInv'
  BY <1>2 DEF RelaySelect, Unlocked
<1>3. ASSUME NEW w \in Relays, RelayIdle(w) \/ RelayWake(w) PROVE LockInv'
  <2>1. /\ rpc[w] \notin Busy /\ UNCHANGED <<lock, cur, table>>
        /\ \E label \in {"select", "sleep"} : rpc' = [rpc EXCEPT ![w] = label]
    BY <1>3 DEF RelayIdle, RelayWake
  <2>2. QED
    BY <2>1
<1>4. ASSUME NEW w \in Relays, rpc[w] = "send", Hand(w) \/ RelayDropPost(w) PROVE LockInv'
  <2>1. rpc' = [rpc EXCEPT ![w] = "remove"] /\ UNCHANGED <<lock, cur, table>>
    BY <1>4 DEF Hand, RelayDropPost
  <2>2. QED
    BY <2>1
<1>5. ASSUME NEW w \in Relays, RelayRemove(w) PROVE LockInv'
  <2>1. cur[w] \in Rows /\ cur[w] \in table /\ lock[cur[w]] \in {w, NoRelay}
    BY <1>5 DEF RelayRemove
  <2>2. /\ lock' = [lock EXCEPT ![cur[w]] = w] /\ rpc' = [rpc EXCEPT ![w] = "commit"]
        /\ cur' = cur /\ table' = table
    BY <1>5 DEF RelayRemove
  <2>3. \A v \in Relays : rpc'[v] = "commit" => lock'[cur'[v]] = v
    BY <2>1, <2>2
  <2>4. \A r \in Rows : lock'[r] # NoRelay =>
          r \in table' /\ cur'[lock'[r]] = r /\ rpc'[lock'[r]] \in Busy
    BY <2>1, <2>2
  <2>5. QED
    BY <2>3, <2>4
<1>6. ASSUME NEW w \in Relays,
             RelayRemoveMisses(w) \/ RelayAbort(w) \/ Crash(w) \/ RelayRaises(w)
      PROVE  LockInv'
  <2>1. RelayRollsBack(w) /\ table' = table
    BY <1>6 DEF RelayRemoveMisses, RelayAbort, Crash, RelayRaises
  <2>2. \A v \in Relays : rpc'[v] = "commit" => v # w /\ lock'[cur'[v]] = v
    BY <2>1 DEF RelayRollsBack, Release
  <2>3. \A r \in Rows : lock'[r] # NoRelay => lock'[r] = lock[r] /\ lock[r] # w
    BY <2>1 DEF RelayRollsBack, Release
  <2>4. \A r \in Rows : lock'[r] # NoRelay =>
          r \in table' /\ cur'[lock'[r]] = r /\ rpc'[lock'[r]] \in Busy
    BY <2>1, <2>3 DEF RelayRollsBack
  <2>5. QED
    BY <2>2, <2>4
<1>7. ASSUME NEW w \in Relays, RelayCommit(w) PROVE LockInv'
  BY <1>7 DEF RelayCommit, Release
<1>8. ASSUME NEW w \in Relays, RelayReconnect(w) PROVE LockInv'
  BY <1>8 DEF RelayReconnect, Release
<1>9. ASSUME NEW w \in Relays, Flush(w) \/ ProducerStep(w) PROVE LockInv'
  BY <1>9 DEF Flush, ProducerStep, RefusedCall, StopEnds, ProducerDrops
<1>10. ASSUME NEW w \in Relays, RelayRefused(w) PROVE LockInv'
  <2>1. rpc' = [rpc EXCEPT ![w] = "refused"] /\ rpc[w] = "send" /\ UNCHANGED <<lock, cur, table>>
    BY <1>10 DEF RelayRefused, HasMessage
  <2>2. QED
    BY <2>1
<1>11. CASE UNCHANGED vars
  BY <1>11 DEF vars
<1>12. QED
  BY <1>1, <1>2, <1>3, <1>4, <1>5, <1>6, <1>7, <1>8, <1>9, <1>10, <1>11
     DEF Next, RelayStep, RelayFault, RelaySendUser, RelaySendPost, RelayDropPost

(* Adding a relay to a set of relays, or taking one away.                  *)
LEMMA SetSizes ==
  ASSUME NEW S \in SUBSET Relays, NEW w \in Relays
  PROVE  /\ Cardinality(S) \in Nat
         /\ w \notin S => Cardinality(S \cup {w}) = Cardinality(S) + 1
         /\ w \in S => Cardinality(S \ {w}) = Cardinality(S) - 1
         /\ w \notin S => Cardinality(S \ {w}) = Cardinality(S)
<1>1. IsFiniteSet(S)
  BY OutboxAssumption, FS_Subset
<1>2. QED
  BY <1>1, FS_CardinalityType, FS_AddElement, FS_RemoveElement

(* No step adds a send to the budget of a row, unless a fault pays for it. *)
LEMMA StepBudget == IInv /\ LockInv /\ Budget /\ [Next]_vars => Budget'
<1> SUFFICES ASSUME TypeOK, Working, Sessions, LockInv, Budget, [Next]_vars,
                    NEW r \in Rows
             PROVE  (Sends(r) <= 1 + faults)'
  BY DEF IInv, Budget
<1> DEFINE n == Cardinality(Senders(r))
<1>a. Senders(r) \in SUBSET Relays /\ handed[r] \in Nat /\ faults \in Nat
  BY OutboxAssumption DEF Senders, TypeOK
<1>b. n \in Nat /\ Sends(r) <= 1 + faults
  <2>1. CASE Relays = {}
    BY <2>1, <1>a, FS_EmptySet DEF Budget
  <2>2. CASE Relays # {}
    BY <2>2, <1>a, SetSizes DEF Budget
  <2>3. QED
    BY <2>1, <2>2
<1> USE OutboxAssumption, <1>a, <1>b DEF Sends, costs
<1>1. ASSUME Senders(r)' = Senders(r), handed'[r] = handed[r],
             faults' \in Nat, faults <= faults',
             Open(r)' => Open(r) \/ faults < faults'
      PROVE  (Sends(r) <= 1 + faults)'
  BY <1>1
<1>2. ASSUME NEW o \in Ops, Writer(o) PROVE (Sends(r) <= 1 + faults)'
  <2>1. Senders(r)' = Senders(r) /\ handed'[r] = handed[r] /\ faults' \in Nat /\ faults <= faults'
    BY <1>2 DEF Writer, InsertBusiness, InsertOutbox, WriterReconnect, WriterCommit,
                WriterAbort, RemovePost, relayVars, Senders, TypeOK
  <2>2. Open(r)' => Open(r)
    BY <1>2 DEF Writer, InsertBusiness, InsertOutbox, WriterReconnect, WriterCommit,
                WriterAbort, RemovePost, writerVars, relayVars, Open, Stored, Sessions,
                TypeOK, Rows, RowsOf, OpOf
  <2>3. QED
    BY <1>1, <2>1, <2>2
<1>3. ASSUME NEW w \in Relays, RelaySelect(w) PROVE (Sends(r) <= 1 + faults)'
  <2>1. PICK q \in Unlocked : lock' = [lock EXCEPT ![q] = w] /\ cur' = [cur EXCEPT ![w] = q]
    BY <1>3 DEF RelaySelect
  <2>2. w \notin Senders(r) /\ handed' = handed /\ faults' = faults
    BY <1>3 DEF RelaySelect, Senders
  <2>3. CASE q = r
    <3>1. Senders(r)' = Senders(r) \cup {w}
      BY <1>3, <2>1, <2>3 DEF RelaySelect, Senders, TypeOK
    <3>2. Open(r) /\ ~Open(r)'
      BY <1>3, <2>1, <2>3
         DEF RelaySelect, Open, Unlocked, TypeOK, Stored, Sessions, writerVars
    <3>3. QED
      BY <2>2, <3>1, <3>2, SetSizes
  <2>4. CASE q # r
    <3>1. Senders(r)' = Senders(r)
      BY <1>3, <2>1, <2>4 DEF RelaySelect, Senders, TypeOK
    <3>2. Open(r)' = Open(r)
      BY <1>3, <2>1, <2>4 DEF RelaySelect, Open, Unlocked, TypeOK, Stored, writerVars
    <3>3. QED
      BY <1>1, <2>2, <3>1, <3>2
  <2>5. QED
    BY <2>3, <2>4
<1>4. ASSUME NEW w \in Relays, RelayIdle(w) \/ RelayWake(w) \/ RelayRemove(w) \/ RelayRemoveMisses(w)
      PROVE  (Sends(r) <= 1 + faults)'
  <2>1. Senders(r)' = Senders(r) /\ handed'[r] = handed[r] /\ faults' = faults
    BY <1>4 DEF RelayIdle, RelayWake, RelayRemove, RelayRemoveMisses, RelayRollsBack,
                Senders, TypeOK
  <2>2. Open(r)' => Open(r)
    BY <1>4 DEF RelayIdle, RelayWake, RelayRemove, RelayRemoveMisses, RelayRollsBack,
                Release, Open, Stored, writerVars, TypeOK, LockInv
  <2>3. QED
    BY <1>1, <2>1, <2>2
<1>5. ASSUME NEW w \in Relays, RelayCommit(w) PROVE (Sends(r) <= 1 + faults)'
  <2>1. Senders(r)' = Senders(r) /\ handed'[r] = handed[r] /\ faults' = faults
    BY <1>5 DEF RelayCommit, Senders, TypeOK
  <2>2. Open(r)' => Open(r)
    BY <1>5 DEF RelayCommit, Release, Open, Stored, writerVars, TypeOK, LockInv
  <2>3. QED
    BY <1>1, <2>1, <2>2
<1>6. ASSUME NEW w \in Relays, rpc[w] = "send", Hand(w) PROVE (Sends(r) <= 1 + faults)'
  <2>1. Open(r)' = Open(r) /\ faults' = faults
    BY <1>6 DEF Hand, Open, Stored, writerVars
  <2>2. CASE cur[w] = r
    <3>1. w \in Senders(r) /\ Senders(r)' = Senders(r) \ {w} /\ handed'[r] = handed[r] + 1
      BY <1>6, <2>2 DEF Hand, Senders, TypeOK
    <3>2. QED
      BY <2>1, <3>1, SetSizes
  <2>3. CASE cur[w] # r
    <3>1. Senders(r)' = Senders(r) /\ handed'[r] = handed[r]
      BY <1>6, <2>3 DEF Hand, Senders, TypeOK
    <3>2. QED
      BY <1>1, <2>1, <3>1
  <2>4. QED
    BY <2>2, <2>3
<1>7. ASSUME NEW w \in Relays, RelayDropPost(w) PROVE (Sends(r) <= 1 + faults)'
  <2>1. Open(r)' = Open(r) /\ faults' = faults /\ handed' = handed
    BY <1>7 DEF RelayDropPost, Open, Stored, writerVars
  <2>2. Senders(r)' = Senders(r) \ {w}
    BY <1>7 DEF RelayDropPost, Senders, TypeOK
  <2>3. CASE w \in Senders(r)
    BY <2>1, <2>2, <2>3, SetSizes
  <2>4. CASE w \notin Senders(r)
    <3>1. Senders(r)' = Senders(r)
      BY <2>2, <2>4
    <3>2. QED
      BY <1>1, <2>1, <3>1
  <2>5. QED
    BY <2>3, <2>4
<1>8. ASSUME NEW w \in Relays, RelayReconnect(w) PROVE (Sends(r) <= 1 + faults)'
  <2>1. Senders(r)' = Senders(r) /\ handed' = handed /\ faults' = faults + 1
    BY <1>8 DEF RelayReconnect, Senders
  <2>2. QED
    BY <1>1, <2>1
<1>9. ASSUME NEW w \in Relays, RelayAbort(w) \/ Crash(w) PROVE (Sends(r) <= 1 + faults)'
  <2>1. handed' = handed /\ faults' = faults + 1
    BY <1>9 DEF RelayAbort, Crash
  <2>2. Senders(r)' = Senders(r) \ {w}
    BY <1>9 DEF RelayAbort, Crash, RelayRollsBack, Senders, TypeOK
  <2>3. CASE w \in Senders(r)
    BY <2>1, <2>2, <2>3, SetSizes
  <2>4. CASE w \notin Senders(r)
    <3>1. Senders(r)' = Senders(r)
      BY <2>2, <2>4
    <3>2. QED
      BY <1>1, <2>1, <3>1
  <2>5. QED
    BY <2>3, <2>4
<1>10. ASSUME NEW w \in Relays, Flush(w) \/ ProducerStep(w) PROVE (Sends(r) <= 1 + faults)'
  <2>1. Senders(r)' = Senders(r) /\ handed'[r] = handed[r] /\ (Open(r)' = Open(r))
    BY <1>10 DEF Flush, ProducerStep, RefusedCall, StopEnds, ProducerDrops, relayVars,
                 writerVars, Senders, Open, Stored
  <2>2. faults' = faults \/ faults' = faults + 1
    BY <1>10 DEF Flush, ProducerStep, RefusedCall, StopEnds, ProducerDrops
  <2>3. QED
    BY <1>1, <2>1, <2>2
<1>11. ASSUME NEW w \in Relays, RelayRefused(w) PROVE (Sends(r) <= 1 + faults)'
  <2>1. Senders(r)' = Senders(r)
    BY <1>11 DEF RelayRefused, HasMessage, Senders, TypeOK
  <2>2. handed' = handed /\ faults' = faults /\ (Open(r)' = Open(r))
    BY <1>11 DEF RelayRefused, writerVars, Open, Stored
  <2>3. QED
    BY <1>1, <2>1, <2>2
<1>12. ASSUME NEW w \in Relays, RelayRaises(w) PROVE (Sends(r) <= 1 + faults)'
  <2>1. handed' = handed /\ faults' = faults
    BY <1>12 DEF RelayRaises
  <2>2. Senders(r)' = Senders(r) \ {w}
    BY <1>12 DEF RelayRaises, RelayRollsBack, Senders, TypeOK
  <2>3. CASE w \in Senders(r)
    BY <2>1, <2>2, <2>3, SetSizes
  <2>4. CASE w \notin Senders(r)
    <3>1. Senders(r)' = Senders(r)
      BY <2>2, <2>4
    <3>2. cur[w] # r
      BY <1>12, <2>4 DEF RelayRaises, Senders
    <3>3. lock[r] # w
      BY <1>12, <3>2 DEF LockInv
    <3>4. Open(r)' => Open(r)
      BY <1>12, <3>3 DEF RelayRaises, RelayRollsBack, Release, Open, Stored, writerVars, TypeOK
    <3>5. QED
      BY <1>1, <2>1, <3>1, <3>4
  <2>5. QED
    BY <2>3, <2>4
<1>13. CASE UNCHANGED vars
  <2>1. Senders(r)' = Senders(r) /\ handed'[r] = handed[r] /\ faults' = faults /\ (Open(r)' = Open(r))
    BY <1>13 DEF vars, Senders, Open, Stored
  <2>2. QED
    BY <1>1, <2>1
<1>14. QED
  BY <1>2, <1>3, <1>4, <1>5, <1>6, <1>7, <1>8, <1>9, <1>10, <1>11, <1>12, <1>13
     DEF Next, RelayStep, RelayFault, RelaySendUser, RelaySendPost

(* A row is sent once, and once more for each fault at most.               *)
THEOREM SendsBounded == Spec => []SendsBoundedByFaults
<1>1. Init => LockInv /\ Budget
  <2>1. ASSUME Init, NEW r \in Rows PROVE Sends(r) = 1 /\ faults = 0
    <3>1. Senders(r) = {} /\ handed[r] = 0 /\ faults = 0
      BY <2>1 DEF Init, Senders
    <3>2. Open(r)
      BY <2>1 DEF Init, Open, Stored, Rows, OpOf
    <3>3. QED
      BY <3>1, <3>2, FS_EmptySet DEF Sends
  <2>2. Init => LockInv
    BY DEF Init, LockInv
  <2>3. QED
    BY <2>1, <2>2 DEF Budget
<1>2. IInv /\ LockInv /\ Budget /\ [Next]_vars => (LockInv /\ Budget)'
  BY StepLockInv, StepBudget
<1>3. IInv /\ Budget => SendsBoundedByFaults
  <2> SUFFICES ASSUME IInv, Budget, NEW r \in Rows PROVE handed[r] <= 1 + faults
    BY DEF SendsBoundedByFaults
  <2>1. Senders(r) \in SUBSET Relays /\ handed[r] \in Nat /\ faults \in Nat
    BY OutboxAssumption DEF Senders, IInv, TypeOK
  <2>2. Cardinality(Senders(r)) \in Nat
    BY <2>1, OutboxAssumption, FS_Subset, FS_CardinalityType
  <2>3. QED
    BY <2>1, <2>2 DEF Budget, Sends
<1>4. QED
  BY <1>1, <1>2, <1>3, Invariance, PTL DEF Spec

(* A fault makes up for every sending so far, a stop remembers what it     *)
(* drops, and any other step leaves what was handed over where it is or    *)
(* brings it further.                                                      *)
LEMMA StepLost ==
  IInv /\ SendsBoundedByFaults /\ LostOnlyByFaults /\ [Next]_vars => LostOnlyByFaults'
<1> SUFFICES ASSUME IInv, SendsBoundedByFaults, LostOnlyByFaults, [Next]_vars
             PROVE  LostOnlyByFaults'
  OBVIOUS
<1> USE DEF IInv, TypeOK, LostOnlyByFaults, producerVars, costs
<1>1. CASE handed' = handed /\ faults' = faults + 1
  BY <1>1 DEF SendsBoundedByFaults
<1>2. CASE UNCHANGED <<handed, faults, topic, buffer, stopped>>
  BY <1>2
<1>3. ASSUME NEW w \in Relays, RelaySendUser(w) \/ RelaySendPost(w) PROVE LostOnlyByFaults'
  <2>1. rpc[w] = "send" /\ Hand(w)
    BY <1>3 DEF RelaySendUser, RelaySendPost
  <2>2. PICK m \in Rows : m = cur[w]
    BY <2>1 DEF Working, Busy
  <2>3. m \in buffer'[w] /\ \A v \in Relays : buffer[v] \subseteq buffer'[v]
    BY <2>1, <2>2 DEF Hand
  <2>4. \A r \in Rows : r # m => handed'[r] = handed[r]
    BY <2>1, <2>2 DEF Hand
  <2>5. QED
    BY <2>1, <2>3, <2>4 DEF Hand
<1>4. ASSUME NEW w \in Relays, Flush(w) PROVE LostOnlyByFaults'
  BY <1>4 DEF Flush, relayVars
<1>5. ASSUME NEW w \in Relays, RelayReconnect(w) \/ RelayAbort(w) \/ Crash(w)
      PROVE  handed' = handed /\ faults' = faults + 1
  BY <1>5 DEF RelayReconnect, RelayAbort, Crash
<1>6. ASSUME NEW o \in Ops, Writer(o) \/ RemovePost(o)
      PROVE  /\ handed' = handed
             /\ faults' = faults + 1 \/ UNCHANGED <<faults, topic, buffer, stopped>>
  BY <1>6 DEF Writer, InsertBusiness, InsertOutbox, WriterReconnect, WriterCommit, WriterAbort,
              RemovePost, relayVars
<1>7. ASSUME NEW w \in Relays,
             \/ RelaySelect(w) \/ RelayIdle(w) \/ RelayWake(w) \/ RelayDropPost(w)
             \/ RelayRemove(w) \/ RelayRemoveMisses(w) \/ RelayCommit(w)
             \/ RelayRefused(w) \/ RelayRaises(w) \/ RefusedCall(w) \/ StopEnds(w)
      PROVE  UNCHANGED <<handed, faults, topic, buffer, stopped>>
  <2>1. CASE RefusedCall(w) \/ StopEnds(w)
    BY <2>1 DEF RefusedCall, StopEnds, relayVars
  <2>2. CASE ~(RefusedCall(w) \/ StopEnds(w))
    BY <1>7, <2>2 DEF RelaySelect, RelayIdle, RelayWake, RelayDropPost, RelayRemove,
                      RelayRemoveMisses, RelayCommit, RelayRefused, RelayRaises
  <2>3. QED
    BY <2>1, <2>2
<1>8. ASSUME NEW w \in Relays, ProducerDrops(w) PROVE LostOnlyByFaults'
  <2>1. handed' = handed /\ topic' = topic
    BY <1>8 DEF ProducerDrops, relayVars
  <2>2. PICK D \in SUBSET buffer[w] :
          /\ buffer' = [buffer EXCEPT ![w] = @ \ D]
          /\ \/ stopped' = stopped \cup D /\ faults' = faults
             \/ faults' = faults + 1
    BY <1>8 DEF ProducerDrops
  <2>3. CASE stopped' = stopped \cup D /\ faults' = faults
    BY <2>1, <2>2, <2>3
  <2>4. CASE faults' = faults + 1
    BY <1>1, <2>1, <2>4
  <2>5. QED
    BY <2>2, <2>3, <2>4
<1>9. CASE UNCHANGED vars
  BY <1>2, <1>9 DEF vars
<1>10. QED
  BY <1>1, <1>2, <1>3, <1>4, <1>5, <1>6, <1>7, <1>8, <1>9
     DEF Next, RelayStep, RelayFault, ProducerStep, Writer

(* Whoever crashes or is refused, a message is lost only by a fault after  *)
(* which its row was not sent again, or by a stop of the producer that     *)
(* held it.                                                                *)
THEOREM LossBounded == Spec => []LostOnlyByFaults
<1>1. Init => LostOnlyByFaults
  BY DEF Init, LostOnlyByFaults
<1>2. IInv /\ SendsBoundedByFaults /\ LostOnlyByFaults /\ [Next]_vars => LostOnlyByFaults'
  BY StepLost
<1>3. QED
  BY <1>1, <1>2, Invariance, SendsBounded, PTL DEF Spec

-----------------------------------------------------------------------------
(* The refinement.                                                         *)

(* A commit records, a send announces, a commit of a relay retires; every  *)
(* other step leaves the abstract outbox as it is.                         *)
LEMMA StepRefines == IInv /\ [Next]_vars => [Promise!Next]_(Promise!vars)
<1> DEFINE Recorded == {o \in Ops : "outbox" \in durable[o]}
           Announced == {r \in Rows : handed[r] > 0}
           Stutter == /\ Recorded' = Recorded /\ Announced' = Announced
                      /\ business' = business /\ table' = table
<1> SUFFICES ASSUME IInv, [Next]_vars PROVE [Promise!Next]_(Promise!vars)
  OBVIOUS
<1> USE OutboxAssumption DEF IInv, TypeOK
<1>0. Stutter => UNCHANGED Promise!vars
  BY DEF Promise!vars
<1>1. ASSUME NEW o \in Ops, WriterCommit(o) PROVE Promise!Next
  <2>1. "outbox" \in wrote[o] /\ o \notin Recorded
    BY <1>1 DEF WriterCommit, Sessions
  <2>2. Recorded' = Recorded \cup {o} /\ Announced' = Announced
    BY <1>1, <2>1 DEF WriterCommit, relayVars
  <2>3. table' = table \cup RowsOf(o) /\ business' \in {business, business \cup {o}}
    BY <1>1, <2>1 DEF WriterCommit
  <2>4. Promise!Record(o)
    BY <2>1, <2>2, <2>3 DEF Promise!Record, Promise!Messages, RowsOf
  <2>5. QED
    BY <2>4 DEF Promise!Next
<1>2. ASSUME NEW o \in Ops, RemovePost(o) PROVE Promise!Next
  <2>1. Promise!Withdraw(o)
    BY <1>2 DEF RemovePost, writerVars, relayVars, Promise!Withdraw
  <2>2. QED
    BY <2>1 DEF Promise!Next
<1>3. ASSUME NEW o \in Ops,
             \/ InsertBusiness(o) \/ InsertOutbox(o) \/ WriterReconnect(o) \/ WriterAbort(o)
      PROVE  Stutter
  BY <1>3 DEF InsertBusiness, InsertOutbox, WriterReconnect, WriterAbort, relayVars
<1>4. ASSUME NEW w \in Relays, RelaySendUser(w) \/ RelaySendPost(w) PROVE Promise!Next
  <2>1. rpc[w] = "send" /\ Hand(w) /\ (Table = "events_outbox" => OpOf(cur[w]) \in business)
    BY <1>4 DEF RelaySendUser, RelaySendPost
  <2>2. cur[w] \in Rows /\ (cur[w] \in table \/ handed[cur[w]] > 0)
    BY <2>1 DEF Working, Busy, NoUnsentRemoval
  <2>3. PICK m \in Rows : m = cur[w]
    BY <2>2
  <2>4. m \in table \cup Announced
    BY <2>2, <2>3
  <2>5. Announced' = Announced \cup {m}
    BY <2>1, <2>3 DEF Hand
  <2>6. Recorded' = Recorded /\ business' = business /\ table' = table
    BY <2>1 DEF Hand, writerVars
  <2>7. Promise!Announce(m)
    BY <2>4, <2>5, <2>6 DEF Promise!Announce
  <2>8. QED
    BY <2>7 DEF Promise!Next, Rows
<1>5. ASSUME NEW w \in Relays, RelayCommit(w) PROVE Promise!Next \/ Stutter
  <2>1. Recorded' = Recorded /\ Announced' = Announced /\ business' = business
    BY <1>5 DEF RelayCommit, writerVars
  <2>2. table' = table \ {cur[w]} /\ cur[w] \in Rows /\ Settled(cur[w])
    BY <1>5 DEF RelayCommit, Working, Busy, SettledFirst
  <2>3. CASE cur[w] \in table
    <3>1. Promise!Retire(cur[w])
      BY <2>1, <2>2, <2>3 DEF Promise!Retire, Settled, OpOf
    <3>2. QED
      BY <2>2, <3>1 DEF Promise!Next, Rows
  <2>4. CASE cur[w] \notin table
    BY <2>1, <2>2, <2>4
  <2>5. QED
    BY <2>3, <2>4
<1>6. ASSUME NEW w \in Relays,
             \/ RelaySelect(w) \/ RelayIdle(w) \/ RelayWake(w) \/ RelayDropPost(w)
             \/ RelayRemove(w) \/ RelayRemoveMisses(w) \/ RelayRaises(w) \/ RelayFault(w)
             \/ Flush(w) \/ ProducerStep(w)
      PROVE  Stutter
  BY <1>6 DEF RelaySelect, RelayIdle, RelayWake, RelayDropPost, RelayRemove,
              RelayRemoveMisses, RelayRaises, RelayFault, RelayReconnect, RelayRefused,
              RelayAbort, Crash, Flush, ProducerStep, RefusedCall, StopEnds, ProducerDrops,
              RelayRollsBack, writerVars, relayVars
<1>7. CASE UNCHANGED vars
  BY <1>0, <1>7 DEF vars
<1>8. QED
  BY <1>0, <1>1, <1>2, <1>3, <1>4, <1>5, <1>6, <1>7 DEF Next, Writer, RelayStep

(* The requests and relays implement the abstract outbox.                  *)
THEOREM Refinement == Spec => ImplementsPromise
<1>1. Init => Promise!Init
  BY DEF Init, Promise!Init, Rows
<1>2. IInv /\ [Next]_vars => [Promise!Next]_(Promise!vars)
  BY StepRefines
<1>3. QED
  BY <1>1, <1>2, Invariance, PTL DEF Spec, ImplementsPromise, Promise!Spec
=============================================================================
