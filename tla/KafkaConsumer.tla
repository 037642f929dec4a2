----------------------------- MODULE KafkaConsumer -----------------------------
(***************************************************************************)
(* BaseKafkaConsumer.run under restart_on_exception: the background task   *)
(* of each process that reads one partition for a consumer group, with the *)
(* broker's log and group as the environment.  A step runs from one        *)
(* suspension of the task to the next; shutdown cancels the task at any of *)
(* them.                                                                   *)
(***************************************************************************)
EXTENDS Naturals, Sequences

CONSTANTS
  Members,    \* the processes, one task of the group each
  Retries,    \* process_retries
  MaxLog,     \* bound: messages of the partition
  MaxFaults,  \* bound: failures of Kafka, of handlers and of processes
  None

ASSUME ConsumerAssumption ==
  /\ None \notin Members
  /\ Retries \in Nat \ {0}
  /\ MaxLog \in Nat
  /\ MaxFaults \in Nat

VARIABLES
  pc,         \* control state of the task of a process
  client,     \* self.consumer: none, open, or an object that cannot be used
  cancelled,  \* whether shutdown has cancelled the task, or an error has undone it
  msg,        \* the message being processed
  tries,      \* failed attempts at it
  log,        \* external: the partition, a message is "good" or always fails
  owner,      \* external: the member the partition is assigned to
  pos,        \* external: how far the client of the owner has read
  committed,  \* external: the offset of the group, 0 when there is none
  handled,    \* history: messages process_message has returned for
  passed,     \* history: messages a client without an offset started behind
  faults      \* history: failures so far

vars == <<pc, client, cancelled, msg, tries, log, owner, pos, committed, handled,
          passed, faults>>

TypeOK ==
  /\ pc \in [Members -> {"begin", "starting", "reading", "processing", "committing",
                         "stopping", "backoff", "ended", "dead"}]
  /\ client \in [Members -> {"none", "open", "unusable"}]
  /\ cancelled \in [Members -> {"no", "due", "lost"}]
  /\ msg \in [Members -> 0..MaxLog]
  /\ tries \in [Members -> 0..Retries - 1]
  /\ log \in Seq({"good", "poison"}) /\ Len(log) <= MaxLog
  /\ owner \in Members \cup {None}
  /\ pos \in 0..Len(log)
  /\ committed \in 0..Len(log)
  /\ handled \subseteq 1..Len(log)
  /\ passed \subseteq 1..Len(log)
  /\ faults \in 0..MaxFaults

(* lifespan has made the consumers and run_tasks their tasks.              *)
Init ==
  /\ pc = [p \in Members |-> "begin"]
  /\ client = [p \in Members |-> "none"]
  /\ cancelled = [p \in Members |-> "no"]
  /\ msg = [p \in Members |-> 0]
  /\ tries = [p \in Members |-> 0]
  /\ log = <<>>
  /\ owner = None
  /\ pos = 0
  /\ committed = 0
  /\ handled = {}
  /\ passed = {}
  /\ faults = 0

(* The message in hand is forgotten with the iteration that has read it.   *)
Goto(p, label) ==
  /\ pc' = [pc EXCEPT ![p] = label]
  /\ msg' = [msg EXCEPT ![p] = 0]
  /\ tries' = [tries EXCEPT ![p] = 0]

Fault == faults < MaxFaults /\ faults' = faults + 1

kafka == <<log, owner, pos, committed, passed>>

-----------------------------------------------------------------------------
(* The brokers (external).                                                 *)

Produce ==
  /\ Len(log) < MaxLog
  /\ \E kind \in {"good", "poison"} : log' = Append(log, kind)
  /\ UNCHANGED <<pc, client, cancelled, msg, tries, handled, owner, pos, committed, passed, faults>>

(* The partition goes to a member whose client is in the group, because it *)
(* is free or for whatever reason: that client reads on from the offset of *)
(* the group or, when there is none, from the end of the log.              *)
Assign(p) ==
  /\ client[p] = "open"
  /\ \/ owner = None /\ UNCHANGED faults
     \/ owner # None /\ client[owner] # "open" /\ UNCHANGED faults
     \/ owner # None /\ client[owner] = "open" /\ Fault
  /\ owner' = p
  /\ pos' = IF committed = 0 THEN Len(log) ELSE committed
  /\ passed' = IF committed = 0 THEN 1..Len(log) ELSE passed
  /\ UNCHANGED <<pc, client, cancelled, msg, tries, handled, log, committed>>

-----------------------------------------------------------------------------
(* run.                                                                    *)

(* consumer_is_started: an object left by a failed start or stop counts as *)
(* a started client.                                                       *)
Begin(p) ==
  /\ pc[p] = "begin"
  /\ Goto(p, IF client[p] = "none" THEN "starting" ELSE "reading")
  /\ UNCHANGED <<client, cancelled, handled, kafka, faults>>

(* start(): the new client joins the group as a new member.                *)
StartSucceeds(p) ==
  /\ pc[p] = "starting"
  /\ Goto(p, "reading")
  /\ client' = [client EXCEPT ![p] = "open"]
  /\ owner' = IF owner = p THEN None ELSE owner
  /\ UNCHANGED <<cancelled, handled, log, pos, committed, passed, faults>>

(* An error of start() leaves run before its try: nothing is stopped.      *)
StartFails(p) ==
  /\ pc[p] = "starting"
  /\ Fault
  /\ Goto(p, "backoff")
  /\ client' = [client EXCEPT ![p] = "unusable"]
  /\ UNCHANGED <<cancelled, handled, kafka>>

Read(p) ==
  /\ pc[p] = "reading"
  /\ client[p] = "open" /\ owner = p /\ pos < Len(log)
  /\ pc' = [pc EXCEPT ![p] = "processing"]
  /\ pos' = pos + 1
  /\ msg' = [msg EXCEPT ![p] = pos + 1]
  /\ UNCHANGED <<client, cancelled, tries, handled, log, owner, committed, passed, faults>>

(* Broken variant of ReadFails: run has no finally.                        *)
ReadFailsUnstopped(p) ==
  /\ pc[p] = "reading"
  /\ \/ client[p] = "unusable" /\ UNCHANGED faults
     \/ client[p] = "open" /\ Fault
  /\ Goto(p, "backoff")
  /\ UNCHANGED <<client, cancelled, handled, kafka>>

(* async for raises on an object that is closed or was never started, or   *)
(* when Kafka fails; the finally of run stops it.                          *)
ReadFails(p) ==
  /\ pc[p] = "reading"
  /\ \/ client[p] = "unusable" /\ UNCHANGED faults
     \/ client[p] = "open" /\ Fault
  /\ Goto(p, "stopping")
  /\ UNCHANGED <<client, cancelled, handled, kafka>>

Processed(p) ==
  /\ pc[p] = "processing"
  /\ log[msg[p]] = "good"
  /\ Goto(p, "committing")
  /\ handled' = handled \cup {msg[p]}
  /\ UNCHANGED <<client, cancelled, kafka, faults>>

(* Broken variant of ProcessFails: one attempt too many.                   *)
ProcessFailsOnce(p) ==
  /\ pc[p] = "processing"
  /\ \/ log[msg[p]] = "poison" /\ UNCHANGED faults
     \/ Fault
  /\ IF tries[p] < Retries
       THEN tries' = [tries EXCEPT ![p] = @ + 1] /\ UNCHANGED <<pc, msg>>
       ELSE Goto(p, "stopping")
  /\ UNCHANGED <<client, cancelled, handled, kafka>>

(* Broken variant of ProcessFails: the message is given up.                *)
ProcessFailsQuietly(p) ==
  /\ pc[p] = "processing"
  /\ \/ log[msg[p]] = "poison" /\ UNCHANGED faults
     \/ Fault
  /\ IF tries[p] + 1 < Retries
       THEN tries' = [tries EXCEPT ![p] = @ + 1] /\ UNCHANGED <<pc, msg>>
       ELSE Goto(p, "committing")
  /\ UNCHANGED <<client, cancelled, handled, kafka>>

(* An attempt raises; after the last one RetriesExceededError leaves run.  *)
ProcessFails(p) ==
  /\ pc[p] = "processing"
  /\ \/ log[msg[p]] = "poison" /\ UNCHANGED faults
     \/ Fault
  /\ IF tries[p] + 1 < Retries
       THEN tries' = [tries EXCEPT ![p] = @ + 1] /\ UNCHANGED <<pc, msg>>
       ELSE Goto(p, "stopping")
  /\ UNCHANGED <<client, cancelled, handled, kafka>>

(* Broken variant of Commit: the offset of the message, not of the next.   *)
CommitMessageOffset(p) ==
  /\ pc[p] = "committing"
  /\ Goto(p, "reading")
  /\ committed' = IF owner = p THEN pos - 1 ELSE committed
  /\ UNCHANGED <<client, cancelled, handled, log, owner, pos, passed, faults>>

(* commit() without arguments commits what the current assignment has read *)
(* by now; a client that has lost the partition has nothing to commit.     *)
Commit(p) ==
  /\ pc[p] = "committing"
  /\ Goto(p, "reading")
  /\ committed' = IF owner = p THEN pos ELSE committed
  /\ UNCHANGED <<client, cancelled, handled, log, owner, pos, passed, faults>>

(* It fails for a member that is being moved, or without its answer.       *)
CommitFails(p) ==
  /\ pc[p] = "committing"
  /\ \/ owner # p /\ UNCHANGED <<committed, faults>>
     \/ owner = p /\ Fault /\ committed' \in {committed, pos}
  /\ Goto(p, "stopping")
  /\ UNCHANGED <<client, cancelled, handled, log, owner, pos, passed>>

(* Broken variant of StopSucceeds: a cancelled task is restarted.          *)
StopRestarts(p) ==
  /\ pc[p] = "stopping"
  /\ Goto(p, "backoff")
  /\ client' = [client EXCEPT ![p] = "none"]
  /\ owner' = IF owner = p THEN None ELSE owner
  /\ UNCHANGED <<cancelled, handled, log, pos, committed, passed, faults>>

(* stop() returns: the member leaves the group and run ends with the error *)
(* or the cancellation that ended the loop.                                *)
StopSucceeds(p) ==
  /\ pc[p] = "stopping"
  /\ Goto(p, IF cancelled[p] = "due" THEN "ended" ELSE "backoff")
  /\ client' = [client EXCEPT ![p] = "none"]
  /\ owner' = IF owner = p THEN None ELSE owner
  /\ UNCHANGED <<cancelled, handled, log, pos, committed, passed, faults>>

(* stop() raises: the object stays, closed, and the error takes the place  *)
(* of a cancellation.                                                      *)
StopFails(p) ==
  /\ pc[p] = "stopping"
  /\ Fault
  /\ Goto(p, "backoff")
  /\ client' = [client EXCEPT ![p] = "unusable"]
  /\ cancelled' = [cancelled EXCEPT ![p] = IF @ = "due" THEN "lost" ELSE @]
  /\ UNCHANGED <<handled, kafka>>

-----------------------------------------------------------------------------
(* restart_on_exception and the life of the process.                       *)

Wakes(p) ==
  /\ pc[p] = "backoff"
  /\ Goto(p, "begin")
  /\ UNCHANGED <<client, cancelled, handled, kafka, faults>>

(* shutdown cancels the task: in the loop, run still stops its client; in  *)
(* start() and stop() the object is left as it is, half started or closed. *)
(* A commit on its way may still be done.                                  *)
Cancel(p) ==
  /\ cancelled[p] = "no"
  /\ pc[p] # "dead"
  /\ cancelled' = [cancelled EXCEPT ![p] = "due"]
  /\ Goto(p, IF pc[p] \in {"reading", "processing", "committing"} THEN "stopping" ELSE "ended")
  /\ client' = [client EXCEPT ![p] = IF pc[p] \in {"starting", "stopping"} THEN "unusable" ELSE @]
  /\ IF pc[p] = "committing" /\ owner = p
       THEN committed' \in {committed, pos}
       ELSE UNCHANGED committed
  /\ UNCHANGED <<handled, log, owner, pos, passed, faults>>

Crash(p) ==
  /\ pc[p] \notin {"ended", "dead"}
  /\ Fault
  /\ Goto(p, "dead")
  /\ client' = [client EXCEPT ![p] = "none"]
  /\ UNCHANGED <<cancelled, handled, kafka>>

Reboot(p) ==
  /\ pc[p] = "dead"
  /\ Goto(p, "begin")
  /\ client' = [client EXCEPT ![p] = "none"]
  /\ cancelled' = [cancelled EXCEPT ![p] = "no"]
  /\ UNCHANGED <<handled, kafka, faults>>

-----------------------------------------------------------------------------
Loop(p) ==
  \/ Begin(p) \/ StartSucceeds(p) \/ StartFails(p) \/ Read(p) \/ ReadFails(p)
  \/ Processed(p) \/ ProcessFails(p) \/ Commit(p) \/ CommitFails(p)
  \/ StopSucceeds(p) \/ StopFails(p) \/ Wakes(p)

Next ==
  \/ Produce
  \/ \E p \in Members : Assign(p) \/ Loop(p) \/ Cancel(p) \/ Crash(p) \/ Reboot(p)

Spec == Init /\ [][Next]_vars

(* The event loop resumes a task that can go on, the supervisor starts a   *)
(* process that died, and the coordinator gives a free partition away.     *)
Fairness ==
  /\ \A p \in Members : WF_vars(Loop(p)) /\ WF_vars(Reboot(p))
  /\ WF_vars(\E p \in Members : Assign(p))

FairSpec == Spec /\ Fairness

-----------------------------------------------------------------------------
(* Properties.                                                             *)

(* "Provides retries if process_message operation ended up with failure"   *)
(* (kafka/consumer/base.py): whatever fails, dies, is cancelled or moved to *)
(* another process, the offset never passes a message no process_message   *)
(* has returned for, except those a group without an offset began behind.  *)
NothingSkipped == 1..committed \subseteq handled \cup passed

(* Each message is committed before the next is read (base.py:108), so a   *)
(* group that has an offset repeats at most one message after it, however  *)
(* many processes have come and gone.                                      *)
RepeatsAtMostOne == committed # 0 => handled \subseteq 1..committed + 1

(* A message is handled or passed over, unless one that always fails is    *)
(* before it or every process is shut down.                                *)
EventuallyHandled ==
  \A i \in 1..MaxLog :
    i <= Len(log) ~> \/ i \in handled \cup passed
                     \/ \E j \in 1..i \cap DOMAIN log : log[j] = "poison"
                     \/ \A p \in Members : pc[p] = "ended"

(* An object that a failed start or stop left behind does not keep a task  *)
(* from reading for good: the next run fails on it, stops it and makes a   *)
(* new one.                                                                *)
Recovers ==
  \A p \in Members : client[p] = "unusable" ~> client[p] = "open" \/ pc[p] = "ended"

(* "do not restart cancelled tasks" (utils.py:23): a cancelled task ends,  *)
(* so that shutdown returns, unless its stop() raised and the error took   *)
(* the place of the cancellation.                                          *)
CancelledEnds ==
  \A p \in Members : cancelled[p] = "due" ~> pc[p] = "ended" \/ cancelled[p] = "lost"
                                               \/ pc[p] = "dead"
=============================================================================
