---------------------------- MODULE ConsumerProofs ----------------------------
(***************************************************************************)
(* Type correctness of KafkaConsumer, and how far its offset and its       *)
(* handled messages can be apart, for any number of processes, messages,   *)
(* attempts and failures.                                                  *)
(***************************************************************************)
EXTENDS KafkaConsumer, TLAPS

(* Where a task is when its client is open, and what it has in hand.       *)
Placed ==
  \A p \in Members :
    /\ client[p] = "open" => pc[p] \in {"reading", "processing", "committing", "stopping"}
    /\ pc[p] \in {"processing", "committing"} => client[p] = "open"
    /\ pc[p] = "processing" => msg[p] \in 1..Len(log)

Serving(p) == owner = p /\ client[p] = "open"

(* What the owner would commit now has been handled, but for the message   *)
(* it has in hand.                                                         *)
Covered ==
  \A p \in Members : Serving(p) =>
    /\ pc[p] \in {"reading", "committing"} => 1..pos \subseteq handled \cup passed
    /\ pc[p] = "processing" => 1..pos \subseteq handled \cup passed \cup {msg[p]}

(* The last message that can have been read: the one after the offset, or  *)
(* without one, that of the last owner.                                    *)
Reach == IF committed = 0 THEN pos ELSE committed + 1

Near ==
  /\ \A p \in Members : Serving(p) /\ pc[p] \in {"reading", "processing", "committing"} =>
       /\ committed <= pos /\ pos <= Reach
       /\ committed # 0 /\ pc[p] = "reading" => pos = committed
  /\ \A p \in Members : pc[p] = "processing" => msg[p] <= Reach
  /\ handled \subseteq 1..Reach

IInv == TypeOK /\ Placed /\ NothingSkipped /\ Covered /\ Near

-----------------------------------------------------------------------------
(* No process has a client, nothing is read or committed.                  *)
LEMMA InitIInv == Init => IInv
<1> SUFFICES ASSUME Init PROVE IInv
  OBVIOUS
<1> USE ConsumerAssumption DEF Init
<1>1. TypeOK
  BY DEF TypeOK
<1>2. Placed /\ Covered
  BY DEF Placed, Covered, Serving
<1>3. NothingSkipped /\ Near
  BY DEF NothingSkipped, Near, Reach, Serving
<1>4. QED
  BY <1>1, <1>2, <1>3 DEF IInv

(* Type correctness of one step.                                           *)
LEMMA StepTypeOK == TypeOK /\ Placed /\ [Next]_vars => TypeOK'
<1> SUFFICES ASSUME TypeOK, Placed, [Next]_vars PROVE TypeOK'
  OBVIOUS
<1> USE ConsumerAssumption DEF TypeOK, Placed, Goto, Fault, kafka
<1>1. CASE Produce
  BY <1>1 DEF Produce
<1>2. ASSUME NEW q \in Members, Begin(q) PROVE TypeOK'
  BY <1>2 DEF Begin
<1>3. ASSUME NEW q \in Members, StartSucceeds(q) PROVE TypeOK'
  BY <1>3 DEF StartSucceeds
<1>4. ASSUME NEW q \in Members, StartFails(q) PROVE TypeOK'
  BY <1>4 DEF StartFails
<1>5. ASSUME NEW q \in Members, Read(q) PROVE TypeOK'
  BY <1>5 DEF Read
<1>6. ASSUME NEW q \in Members, ReadFails(q) PROVE TypeOK'
  BY <1>6, SMTT(30) DEF ReadFails
<1>7. ASSUME NEW q \in Members, Processed(q) PROVE TypeOK'
  <2>1. handled' \in SUBSET (1..Len(log))
    BY <1>7, msg[q] \in 1..Len(log) DEF Processed
  <2>2. pc' \in [Members -> {"begin", "starting", "reading", "processing", "committing",
                            "stopping", "backoff", "ended", "dead"}]
        /\ msg' \in [Members -> 0..MaxLog] /\ tries' \in [Members -> 0..Retries - 1]
    BY <1>7 DEF Processed
  <2>3. QED
    BY <1>7, <2>1, <2>2 DEF Processed
<1>8. ASSUME NEW q \in Members, ProcessFails(q) PROVE TypeOK'
  <2>1. CASE tries[q] + 1 < Retries
    <3>1. tries' \in [Members -> 0..Retries - 1]
      <4>1. tries[q] + 1 \in 0..Retries - 1
        BY <2>1
      <4>2. tries' = [tries EXCEPT ![q] = tries[q] + 1]
        BY <1>8, <2>1 DEF ProcessFails
      <4>3. QED
        BY <4>1, <4>2
    <3>2. faults' \in 0..MaxFaults
      BY <1>8 DEF ProcessFails
    <3>3. QED
      BY <1>8, <2>1, <3>1, <3>2 DEF ProcessFails
  <2>2. CASE ~(tries[q] + 1 < Retries)
    <3>1. faults' \in 0..MaxFaults
      BY <1>8 DEF ProcessFails
    <3>2. Goto(q, "stopping") /\ UNCHANGED <<client, cancelled, handled, kafka>>
      BY <1>8, <2>2 DEF ProcessFails
    <3>3. QED
      BY <3>1, <3>2
  <2>3. QED
    BY <2>1, <2>2
<1>9. ASSUME NEW q \in Members, Commit(q) PROVE TypeOK'
  BY <1>9 DEF Commit
<1>10. ASSUME NEW q \in Members, CommitFails(q) PROVE TypeOK'
  BY <1>10, SMTT(30) DEF CommitFails
<1>11. ASSUME NEW q \in Members, StopSucceeds(q) PROVE TypeOK'
  BY <1>11 DEF StopSucceeds
<1>12. ASSUME NEW q \in Members, StopFails(q) PROVE TypeOK'
  BY <1>12 DEF StopFails
<1>13. ASSUME NEW q \in Members, Wakes(q) PROVE TypeOK'
  BY <1>13 DEF Wakes
<1>14. ASSUME NEW q \in Members, Assign(q) PROVE TypeOK'
  <2>1. pos' \in 0..Len(log) /\ passed' \in SUBSET (1..Len(log))
    BY <1>14 DEF Assign
  <2>2. faults' \in 0..MaxFaults
    BY <1>14 DEF Assign
  <2>3. QED
    BY <1>14, <2>1, <2>2 DEF Assign
<1>15. ASSUME NEW q \in Members, Cancel(q) PROVE TypeOK'
  BY <1>15 DEF Cancel
<1>16. ASSUME NEW q \in Members, Crash(q) PROVE TypeOK'
  BY <1>16 DEF Crash
<1>17. ASSUME NEW q \in Members, Reboot(q) PROVE TypeOK'
  BY <1>17 DEF Reboot
<1>18. CASE UNCHANGED vars
  BY <1>18 DEF vars
<1>19. QED
  BY <1>1, <1>2, <1>3, <1>4, <1>5, <1>6, <1>7, <1>8, <1>9, <1>10, <1>11, <1>12, <1>13, <1>14, <1>15, <1>16, <1>17, <1>18 DEF Next, Loop

LEMMA StepPlaced == TypeOK /\ Placed /\ [Next]_vars => Placed'
<1> SUFFICES ASSUME TypeOK, Placed, [Next]_vars PROVE Placed'
  OBVIOUS
<1> USE ConsumerAssumption DEF TypeOK, Placed, Goto, Fault, kafka
<1>1. CASE Produce
  BY <1>1 DEF Produce
<1>2. ASSUME NEW q \in Members, Begin(q) PROVE Placed'
  BY <1>2 DEF Begin
<1>3. ASSUME NEW q \in Members, StartSucceeds(q) PROVE Placed'
  BY <1>3 DEF StartSucceeds
<1>4. ASSUME NEW q \in Members, StartFails(q) PROVE Placed'
  BY <1>4 DEF StartFails
<1>5. ASSUME NEW q \in Members, Read(q) PROVE Placed'
  BY <1>5 DEF Read
<1>6. ASSUME NEW q \in Members, ReadFails(q) PROVE Placed'
  BY <1>6 DEF ReadFails
<1>7. ASSUME NEW q \in Members, Processed(q) PROVE Placed'
  BY <1>7 DEF Processed
<1>8. ASSUME NEW q \in Members, ProcessFails(q) PROVE Placed'
  BY <1>8 DEF ProcessFails
<1>9. ASSUME NEW q \in Members, Commit(q) PROVE Placed'
  BY <1>9 DEF Commit
<1>10. ASSUME NEW q \in Members, CommitFails(q) PROVE Placed'
  BY <1>10 DEF CommitFails
<1>11. ASSUME NEW q \in Members, StopSucceeds(q) PROVE Placed'
  BY <1>11 DEF StopSucceeds
<1>12. ASSUME NEW q \in Members, StopFails(q) PROVE Placed'
  BY <1>12 DEF StopFails
<1>13. ASSUME NEW q \in Members, Wakes(q) PROVE Placed'
  BY <1>13 DEF Wakes
<1>14. ASSUME NEW q \in Members, Assign(q) PROVE Placed'
  BY <1>14 DEF Assign
<1>15. ASSUME NEW q \in Members, Cancel(q) PROVE Placed'
  BY <1>15 DEF Cancel
<1>16. ASSUME NEW q \in Members, Crash(q) PROVE Placed'
  BY <1>16 DEF Crash
<1>17. ASSUME NEW q \in Members, Reboot(q) PROVE Placed'
  BY <1>17 DEF Reboot
<1>18. CASE UNCHANGED vars
  BY <1>18 DEF vars
<1>19. QED
  BY <1>1, <1>2, <1>3, <1>4, <1>5, <1>6, <1>7, <1>8, <1>9, <1>10, <1>11, <1>12, <1>13, <1>14, <1>15, <1>16, <1>17, <1>18 DEF Next, Loop

LEMMA StepCovered == TypeOK /\ Placed /\ NothingSkipped /\ Covered /\ [Next]_vars => Covered'
<1> SUFFICES ASSUME TypeOK, Placed, NothingSkipped, Covered, [Next]_vars PROVE Covered'
  OBVIOUS
<1> USE ConsumerAssumption DEF TypeOK, Placed, NothingSkipped, Covered, Serving, Goto, Fault, kafka
<1>1. CASE Produce
  BY <1>1 DEF Produce
<1>2. ASSUME NEW q \in Members, Begin(q) PROVE Covered'
  BY <1>2 DEF Begin
<1>3. ASSUME NEW q \in Members, StartSucceeds(q) PROVE Covered'
  BY <1>3 DEF StartSucceeds
<1>4. ASSUME NEW q \in Members, StartFails(q) PROVE Covered'
  BY <1>4 DEF StartFails
<1>5. ASSUME NEW q \in Members, Read(q) PROVE Covered'
  BY <1>5 DEF Read
<1>6. ASSUME NEW q \in Members, ReadFails(q) PROVE Covered'
  BY <1>6 DEF ReadFails
<1>7. ASSUME NEW q \in Members, Processed(q) PROVE Covered'
  BY <1>7 DEF Processed
<1>8. ASSUME NEW q \in Members, ProcessFails(q) PROVE Covered'
  BY <1>8, SMTT(30) DEF ProcessFails
<1>9. ASSUME NEW q \in Members, Commit(q) PROVE Covered'
  BY <1>9 DEF Commit
<1>10. ASSUME NEW q \in Members, CommitFails(q) PROVE Covered'
  BY <1>10 DEF CommitFails
<1>11. ASSUME NEW q \in Members, StopSucceeds(q) PROVE Covered'
  BY <1>11 DEF StopSucceeds
<1>12. ASSUME NEW q \in Members, StopFails(q) PROVE Covered'
  BY <1>12 DEF StopFails
<1>13. ASSUME NEW q \in Members, Wakes(q) PROVE Covered'
  BY <1>13 DEF Wakes
<1>14. ASSUME NEW q \in Members, Assign(q) PROVE Covered'
  BY <1>14 DEF Assign
<1>15. ASSUME NEW q \in Members, Cancel(q) PROVE Covered'
  BY <1>15 DEF Cancel
<1>16. ASSUME NEW q \in Members, Crash(q) PROVE Covered'
  BY <1>16 DEF Crash
<1>17. ASSUME NEW q \in Members, Reboot(q) PROVE Covered'
  BY <1>17 DEF Reboot
<1>18. CASE UNCHANGED vars
  BY <1>18 DEF vars
<1>19. QED
  BY <1>1, <1>2, <1>3, <1>4, <1>5, <1>6, <1>7, <1>8, <1>9, <1>10, <1>11, <1>12, <1>13, <1>14, <1>15, <1>16, <1>17, <1>18 DEF Next, Loop

LEMMA StepNear == TypeOK /\ Placed /\ Near /\ [Next]_vars => Near'
<1> SUFFICES ASSUME TypeOK, Placed, Near, [Next]_vars PROVE Near'
  OBVIOUS
<1> USE ConsumerAssumption DEF TypeOK, Placed, Near, Reach, Serving, Goto, Fault, kafka
<1>1. CASE Produce
  BY <1>1 DEF Produce
<1>2. ASSUME NEW q \in Members, Begin(q) PROVE Near'
  BY <1>2 DEF Begin
<1>3. ASSUME NEW q \in Members, StartSucceeds(q) PROVE Near'
  BY <1>3 DEF StartSucceeds
<1>4. ASSUME NEW q \in Members, StartFails(q) PROVE Near'
  BY <1>4 DEF StartFails
<1>5. ASSUME NEW q \in Members, Read(q) PROVE Near'
  BY <1>5 DEF Read
<1>6. ASSUME NEW q \in Members, ReadFails(q) PROVE Near'
  BY <1>6 DEF ReadFails
<1>7. ASSUME NEW q \in Members, Processed(q) PROVE Near'
  <2>1. handled' \subseteq 1..Reach'
    <3>1. msg[q] \in 1..Reach
      BY <1>7 DEF Processed
    <3>2. QED
      BY <1>7, <3>1 DEF Processed
  <2>2. \A p \in Members : pc'[p] = "processing" => msg'[p] <= Reach'
    BY <1>7 DEF Processed
  <2>3. QED
    BY <1>7, <2>1, <2>2 DEF Processed
<1>8. ASSUME NEW q \in Members, ProcessFails(q) PROVE Near'
  BY <1>8 DEF ProcessFails
<1>9. ASSUME NEW q \in Members, Commit(q) PROVE Near'
  BY <1>9 DEF Commit
<1>10. ASSUME NEW q \in Members, CommitFails(q) PROVE Near'
  BY <1>10, SMTT(30) DEF CommitFails
<1>11. ASSUME NEW q \in Members, StopSucceeds(q) PROVE Near'
  BY <1>11 DEF StopSucceeds
<1>12. ASSUME NEW q \in Members, StopFails(q) PROVE Near'
  BY <1>12 DEF StopFails
<1>13. ASSUME NEW q \in Members, Wakes(q) PROVE Near'
  BY <1>13 DEF Wakes
<1>14. ASSUME NEW q \in Members, Assign(q) PROVE Near'
  BY <1>14 DEF Assign
<1>15. ASSUME NEW q \in Members, Cancel(q) PROVE Near'
  BY <1>15 DEF Cancel
<1>16. ASSUME NEW q \in Members, Crash(q) PROVE Near'
  BY <1>16 DEF Crash
<1>17. ASSUME NEW q \in Members, Reboot(q) PROVE Near'
  BY <1>17 DEF Reboot
<1>18. CASE UNCHANGED vars
  BY <1>18 DEF vars
<1>19. QED
  BY <1>1, <1>2, <1>3, <1>4, <1>5, <1>6, <1>7, <1>8, <1>9, <1>10, <1>11, <1>12, <1>13, <1>14, <1>15, <1>16, <1>17, <1>18 DEF Next, Loop
(* A commit of what the owner has read passes nothing unhandled.           *)
LEMMA StepSkips ==
  TypeOK /\ Placed /\ NothingSkipped /\ Covered /\ [Next]_vars => NothingSkipped'
<1> SUFFICES ASSUME TypeOK, Placed, NothingSkipped, Covered, [Next]_vars PROVE NothingSkipped'
  OBVIOUS
<1> USE ConsumerAssumption DEF TypeOK, Placed, NothingSkipped, Covered, Serving, Goto, Fault, kafka
<1>1. CASE Produce
  BY <1>1 DEF Produce
<1>2. ASSUME NEW q \in Members, Begin(q) PROVE NothingSkipped'
  BY <1>2 DEF Begin
<1>3. ASSUME NEW q \in Members, StartSucceeds(q) PROVE NothingSkipped'
  BY <1>3 DEF StartSucceeds
<1>4. ASSUME NEW q \in Members, StartFails(q) PROVE NothingSkipped'
  BY <1>4 DEF StartFails
<1>5. ASSUME NEW q \in Members, Read(q) PROVE NothingSkipped'
  BY <1>5 DEF Read
<1>6. ASSUME NEW q \in Members, ReadFails(q) PROVE NothingSkipped'
  BY <1>6 DEF ReadFails
<1>7. ASSUME NEW q \in Members, Processed(q) PROVE NothingSkipped'
  BY <1>7 DEF Processed
<1>8. ASSUME NEW q \in Members, ProcessFails(q) PROVE NothingSkipped'
  BY <1>8 DEF ProcessFails
<1>9. ASSUME NEW q \in Members, Commit(q) PROVE NothingSkipped'
  BY <1>9 DEF Commit
<1>10. ASSUME NEW q \in Members, CommitFails(q) PROVE NothingSkipped'
  BY <1>10 DEF CommitFails
<1>11. ASSUME NEW q \in Members, StopSucceeds(q) PROVE NothingSkipped'
  BY <1>11 DEF StopSucceeds
<1>12. ASSUME NEW q \in Members, StopFails(q) PROVE NothingSkipped'
  BY <1>12 DEF StopFails
<1>13. ASSUME NEW q \in Members, Wakes(q) PROVE NothingSkipped'
  BY <1>13 DEF Wakes
<1>14. ASSUME NEW q \in Members, Assign(q) PROVE NothingSkipped'
  BY <1>14 DEF Assign
<1>15. ASSUME NEW q \in Members, Cancel(q) PROVE NothingSkipped'
  BY <1>15 DEF Cancel
<1>16. ASSUME NEW q \in Members, Crash(q) PROVE NothingSkipped'
  BY <1>16 DEF Crash
<1>17. ASSUME NEW q \in Members, Reboot(q) PROVE NothingSkipped'
  BY <1>17 DEF Reboot
<1>18. CASE UNCHANGED vars
  BY <1>18 DEF vars
<1>19. QED
  BY <1>1, <1>2, <1>3, <1>4, <1>5, <1>6, <1>7, <1>8, <1>9, <1>10, <1>11, <1>12, <1>13, <1>14, <1>15, <1>16, <1>17, <1>18 DEF Next, Loop

LEMMA Induction == Spec => []IInv
<1>1. IInv /\ [Next]_vars => IInv'
  BY StepTypeOK, StepPlaced, StepCovered, StepNear, StepSkips DEF IInv
<1>2. QED
  BY InitIInv, <1>1, PTL DEF Spec

-----------------------------------------------------------------------------
(* Every reachable state is of the types it is meant to be of: a task has  *)
(* never made more attempts at a message than process_retries.             *)
THEOREM TypeCorrect == Spec => []TypeOK
<1>1. IInv => TypeOK
  BY DEF IInv
<1>2. QED
  BY Induction, <1>1, PTL

(* However many processes start, fail, are cancelled, die and take the     *)
(* partition from each other, the offset of the group passes no message    *)
(* that process_message has not returned for, except those it began after. *)
THEOREM AtLeastOnce == Spec => []NothingSkipped
<1>1. IInv => NothingSkipped
  BY DEF IInv
<1>2. QED
  BY Induction, <1>1, PTL

(* commit() after each message: a group that has an offset has handled one *)
(* message past it at the most, and will repeat no more than that.         *)
THEOREM OneRepeat == Spec => []RepeatsAtMostOne
<1>1. IInv => RepeatsAtMostOne
  BY DEF IInv, Near, Reach, RepeatsAtMostOne
<1>2. QED
  BY Induction, <1>1, PTL
=============================================================================
