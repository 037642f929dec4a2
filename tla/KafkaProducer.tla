---------------------------- MODULE KafkaProducer ----------------------------
(***************************************************************************)
(* KafkaProducerAbstract: the one Kafka client of a process, shared by its *)
(* requests, relays and consumers.  send_message starts the client when it *)
(* is not started, and stops it after a refused send, with other calls     *)
(* under way.  A step runs from one suspension of a coroutine to the next; *)
(* the suspensions are AIOKafkaProducer.start(), send() and stop(), and    *)
(* the sleep(0) of _cleanup.                                               *)
(***************************************************************************)
EXTENDS Naturals, FiniteSets

CONSTANTS
  Calls,      \* the calls of send_message of a behaviour
  Shutdown,   \* the call of stop() when the application stops
  Producers,  \* bound: AIOKafkaProducer objects
  MaxFaults,  \* bound: failures of Kafka
  None

Coroutines == Calls \cup {Shutdown}

ASSUME ProducerAssumption ==
  /\ Shutdown \notin Calls
  /\ None \notin Producers
  /\ MaxFaults \in Nat

VARIABLES
  pc,        \* control state of a coroutine
  mine,      \* the producer object whose start, send or stop it waits for
  started,   \* _started
  producer,  \* _producer
  state,     \* external: what a producer object is
  buffer,    \* external: messages a producer object has accepted
  topic,     \* messages the brokers have
  faults     \* history: failures so far

vars == <<pc, mine, started, producer, state, buffer, topic, faults>>

TypeOK ==
  /\ pc \in [Coroutines -> {"idle", "starting", "sending", "stopping", "cleaning",
                            "sent", "failed"}]
  /\ mine \in [Coroutines -> Producers \cup {None}]
  /\ started \in BOOLEAN
  /\ producer \in Producers \cup {None}
  /\ state \in [Producers -> {"new", "starting", "running", "closing", "dead"}]
  /\ buffer \in [Producers -> SUBSET Calls]
  /\ topic \subseteq Calls
  /\ faults \in 0..MaxFaults

(* start_clients has started the client.                                   *)
Init ==
  /\ pc = [c \in Coroutines |-> "idle"]
  /\ mine = [c \in Coroutines |-> None]
  /\ started = TRUE
  /\ producer \in Producers
  /\ state = [p \in Producers |-> IF p = producer THEN "running" ELSE "new"]
  /\ buffer = [p \in Producers |-> {}]
  /\ topic = {}
  /\ faults = 0

Goto(c, label, p) ==
  /\ pc' = [pc EXCEPT ![c] = label]
  /\ mine' = [mine EXCEPT ![c] = p]

Fault == faults < MaxFaults /\ faults' = faults + 1

(* _cleanup up to its sleep(0), with objects in states and messages in     *)
(* memory: the sender of the current object is told to close, which may    *)
(* end it, with what it holds (external).                                  *)
Strip(states, memory) ==
  \/ state' = states /\ buffer' = memory
  \/ /\ producer # None /\ states[producer] \in {"starting", "running"}
     /\ state' = [states EXCEPT ![producer] = "dead"]
     /\ buffer' = [memory EXCEPT ![producer] = {}]

(* _send_message: send() of the current object; without one ValueError,    *)
(* and a stop() with nothing to stop.                                      *)
Send(c) ==
  IF producer = None THEN Goto(c, "cleaning", None) ELSE Goto(c, "sending", producer)

(* stop(): safe_cleanup alone when not started; otherwise stop() of the    *)
(* current object first, which returns at once when it is closed already.  *)
Stop(c) ==
  IF started /\ producer # None /\ state[producer] \in {"starting", "running"}
    THEN /\ Goto(c, "stopping", producer)
         /\ state' = [state EXCEPT ![producer] = "closing"]
         /\ UNCHANGED buffer
    ELSE Goto(c, "cleaning", None) /\ Strip(state, buffer)

-----------------------------------------------------------------------------
(* send_message.                                                           *)

(* start() returns at once when the client is started ...                  *)
CallStarted(c) ==
  /\ c \in Calls /\ pc[c] = "idle"
  /\ started
  /\ Send(c)
  /\ UNCHANGED <<started, producer, state, buffer, topic, faults>>

(* ... and otherwise _start replaces the current object by a new one,      *)
(* whether or not another call is starting one.                            *)
CallStarts(c) ==
  /\ c \in Calls /\ pc[c] = "idle"
  /\ ~started
  /\ \E p \in Producers :
       /\ state[p] = "new"
       /\ producer' = p
       /\ state' = [state EXCEPT ![p] = "starting"]
       /\ Goto(c, "starting", p)
  /\ UNCHANGED <<started, buffer, topic, faults>>

(* The object this call has started runs, unless it was closed meanwhile;  *)
(* the message goes to the current one.                                    *)
StartSucceeds(c) ==
  /\ pc[c] = "starting"
  /\ started' = TRUE
  /\ state' = [state EXCEPT ![mine[c]] = IF @ = "starting" THEN "running" ELSE @]
  /\ Send(c)
  /\ UNCHANGED <<producer, buffer, topic, faults>>

(* start() of the object fails or takes ten seconds: safe_cleanup, and the *)
(* error leaves send_message as it is.                                     *)
StartFails(c) ==
  /\ pc[c] = "starting"
  /\ \/ state[mine[c]] # "starting" /\ UNCHANGED faults
     \/ Fault
  /\ Goto(c, "cleaning", None)
  /\ Strip([state EXCEPT ![mine[c]] = "dead"], buffer)
  /\ UNCHANGED <<started, producer, topic>>

(* send() of a running object has the message in memory.                   *)
SendSucceeds(c) ==
  /\ pc[c] = "sending"
  /\ state[mine[c]] = "running"
  /\ buffer' = [buffer EXCEPT ![mine[c]] = @ \cup {c}]
  /\ Goto(c, "sent", None)
  /\ UNCHANGED <<started, producer, state, topic, faults>>

(* send() is refused by a closed object, or Kafka does not answer in time. *)
SendFails(c) ==
  /\ pc[c] = "sending"
  /\ \/ state[mine[c]] \in {"closing", "dead"} /\ UNCHANGED faults
     \/ Fault
  /\ Stop(c)
  /\ UNCHANGED <<started, producer, topic>>

(* stop_clients, when the application stops.                               *)
ShutdownStops ==
  /\ pc[Shutdown] = "idle"
  /\ Stop(Shutdown)
  /\ UNCHANGED <<started, producer, topic, faults>>

(* stop() of the object returns: its messages are delivered or, after an   *)
(* error or ten seconds, given up; safe_cleanup deals with what is the     *)
(* current object by now.                                                  *)
StopReturns(c) ==
  /\ pc[c] = "stopping"
  /\ \/ topic' = topic \cup buffer[mine[c]] /\ UNCHANGED faults
     \/ UNCHANGED topic /\ Fault
  /\ Goto(c, "cleaning", None)
  /\ Strip([state EXCEPT ![mine[c]] = "dead"], [buffer EXCEPT ![mine[c]] = {}])
  /\ UNCHANGED <<started, producer>>

(* Broken variant of CleanupEnds: both references are set to None.         *)
CleanupClearsBoth(c) ==
  /\ pc[c] = "cleaning"
  /\ started' = None
  /\ producer' = None
  /\ Goto(c, "failed", None)
  /\ UNCHANGED <<state, buffer, topic, faults>>

(* Broken variant of CleanupEnds: _started is left as it is.               *)
CleanupStaysStarted(c) ==
  /\ pc[c] = "cleaning"
  /\ producer' = None
  /\ Goto(c, "failed", None)
  /\ UNCHANGED <<started, state, buffer, topic, faults>>

(* Broken variant of CleanupEnds: the call is put back for another try,    *)
(* and its caller waits.                                                   *)
CleanupRepeats(c) ==
  /\ pc[c] = "cleaning"
  /\ started' = FALSE
  /\ producer' = None
  /\ Goto(c, "idle", None)
  /\ UNCHANGED <<state, buffer, topic, faults>>

(* The end of safe_cleanup drops the current object, whichever it is; the  *)
(* call raises, and stop() is done.                                        *)
CleanupEnds(c) ==
  /\ pc[c] = "cleaning"
  /\ started' = FALSE
  /\ producer' = None
  /\ Goto(c, "failed", None)
  /\ UNCHANGED <<state, buffer, topic, faults>>

(* The sender task of an object delivers a message (external: aiokafka).   *)
Deliver(p) ==
  /\ state[p] \in {"running", "closing"}
  /\ \E m \in buffer[p] :
       /\ buffer' = [buffer EXCEPT ![p] = @ \ {m}]
       /\ topic' = topic \cup {m}
  /\ UNCHANGED <<pc, mine, started, producer, state, faults>>

-----------------------------------------------------------------------------
Resume(c) ==
  \/ StartSucceeds(c) \/ StartFails(c) \/ SendSucceeds(c) \/ SendFails(c)
  \/ StopReturns(c) \/ CleanupEnds(c)

Next ==
  \/ \E c \in Calls : CallStarted(c) \/ CallStarts(c)
  \/ \E c \in Coroutines : Resume(c)
  \/ ShutdownStops
  \/ \E p \in Producers : Deliver(p)

Spec == Init /\ [][Next]_vars

(* The event loop resumes whatever is due: start, send and stop of an      *)
(* object return or run into their ten seconds.                            *)
Fairness ==
  /\ \A c \in Coroutines : WF_vars(Resume(c))
  /\ \A p \in Producers : WF_vars(Deliver(p))

FairSpec == Spec /\ Fairness

-----------------------------------------------------------------------------
(* Properties.                                                             *)

Quiet == \A c \in Coroutines : pc[c] \in {"idle", "sent", "failed"}

(* However starts, refusals and stops of concurrent calls overlapped: when *)
(* none is under way, the client is either stopped and empty, so that the  *)
(* next call starts it afresh, or started with an object that runs.        *)
UsableWhenQuiet ==
  Quiet => /\ started <=> producer # None
           /\ started => state[producer] = "running"

(* Every call returns or raises, whoever stops the client under it.        *)
EveryCallEnds ==
  \A c \in Coroutines : pc[c] # "idle" ~> pc[c] \in {"sent", "failed"}
=============================================================================
