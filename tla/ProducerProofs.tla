--------------------------- MODULE ProducerProofs ---------------------------
(***************************************************************************)
(* Type correctness of KafkaProducer and its use after any interleaving of *)
(* starts, refusals and stops, for any number of calls and failures.       *)
(***************************************************************************)
EXTENDS KafkaProducer, TLAPS

Settled == (started <=> producer # None) /\ (started => state[producer] = "running")

(* Somebody will still deal with the current object: stop it, drop it,     *)
(* end its start, or find out that it does not send any more.              *)
Cares(c) ==
  \/ pc[c] \in {"stopping", "cleaning"}
  \/ pc[c] = "starting" /\ mine[c] = producer
  \/ pc[c] = "sending" /\ mine[c] = producer /\ state[producer] # "running"

(* Who waits for an object has one, and the shutdown only stops it.        *)
Waiting ==
  \A c \in Coroutines :
    /\ pc[c] \in {"starting", "sending", "stopping"} => mine[c] \in Producers
    /\ pc[c] \in {"starting", "sending"} => c \in Calls

IInv == TypeOK /\ Waiting /\ (Settled \/ \E c \in Coroutines : Cares(c))

-----------------------------------------------------------------------------
(* start_clients has left a running object.                                *)
LEMMA InitIInv == Init => IInv
  BY ProducerAssumption DEF Init, IInv, TypeOK, Waiting, Settled

(* What _cleanup leaves of the objects and of their memory.                *)
LEMMA StripTypes ==
  ASSUME NEW states \in [Producers -> {"new", "starting", "running", "closing", "dead"}],
         NEW memory \in [Producers -> SUBSET Calls],
         Strip(states, memory)
  PROVE  /\ state' \in [Producers -> {"new", "starting", "running", "closing", "dead"}]
         /\ buffer' \in [Producers -> SUBSET Calls]
<1>1. CASE state' = states /\ buffer' = memory
  BY <1>1
<1>2. CASE /\ state' = [states EXCEPT ![producer] = "dead"]
           /\ buffer' = [memory EXCEPT ![producer] = {}]
  BY <1>2
<1>3. QED
  BY <1>1, <1>2 DEF Strip

(* Type correctness of one step.                                           *)
LEMMA StepTypeOK == IInv /\ [Next]_vars => TypeOK' /\ Waiting'
<1> DEFINE Goal == TypeOK' /\ Waiting'
<1> SUFFICES ASSUME TypeOK, Waiting, [Next]_vars PROVE Goal
  BY DEF IInv
<1> USE ProducerAssumption DEF TypeOK, Waiting, Coroutines, Goto, Fault
<1>1. ASSUME NEW c \in Calls, CallStarted(c) PROVE Goal
  BY <1>1 DEF CallStarted, Send
<1>2. ASSUME NEW c \in Calls, CallStarts(c) PROVE Goal
  BY <1>2 DEF CallStarts
<1>3. ASSUME NEW c \in Coroutines, StartSucceeds(c) PROVE Goal
  BY <1>3 DEF StartSucceeds, Send
<1>4. ASSUME NEW c \in Coroutines, StartFails(c) PROVE Goal
  <2>1. /\ state' \in [Producers -> {"new", "starting", "running", "closing", "dead"}]
        /\ buffer' \in [Producers -> SUBSET Calls]
    <3>1. [state EXCEPT ![mine[c]] = "dead"]
            \in [Producers -> {"new", "starting", "running", "closing", "dead"}]
      OBVIOUS
    <3>2. Strip([state EXCEPT ![mine[c]] = "dead"], buffer)
      BY <1>4 DEF StartFails
    <3>3. QED
      BY <3>1, <3>2, StripTypes
  <2>2. faults' \in 0..MaxFaults
    BY <1>4 DEF StartFails
  <2>3. QED
    BY <1>4, <2>1, <2>2 DEF StartFails
<1>5. ASSUME NEW c \in Coroutines, SendSucceeds(c) PROVE Goal
  BY <1>5 DEF SendSucceeds
<1>6. ASSUME NEW c \in Coroutines, SendFails(c) PROVE Goal
  BY <1>6 DEF SendFails, Stop, Strip
<1>7. ASSUME ShutdownStops PROVE Goal
  BY <1>7 DEF ShutdownStops, Stop, Strip
<1>8. ASSUME NEW c \in Coroutines, StopReturns(c) PROVE Goal
  BY <1>8 DEF StopReturns, Strip
<1>9. ASSUME NEW c \in Coroutines, CleanupEnds(c) PROVE Goal
  BY <1>9 DEF CleanupEnds
<1>10. ASSUME NEW p \in Producers, Deliver(p) PROVE Goal
  BY <1>10 DEF Deliver
<1>11. CASE UNCHANGED vars
  BY <1>11 DEF vars
<1>12. QED
  BY <1>1, <1>2, <1>3, <1>4, <1>5, <1>6, <1>7, <1>8, <1>9, <1>10, <1>11 DEF Next, Resume

(* One step leaves the client settled, or somebody who cares: a coroutine  *)
(* that stops or cleans up does, whatever it finds, and the end of a start *)
(* either finds a running object or goes on to find out that it is not.    *)
LEMMA StepCared ==
  IInv /\ [Next]_vars => (Settled \/ \E c \in Coroutines : Cares(c))'
<1> DEFINE Goal == (Settled \/ \E c \in Coroutines : Cares(c))'
<1> SUFFICES ASSUME TypeOK, Waiting, Settled \/ \E c \in Coroutines : Cares(c), [Next]_vars
             PROVE Goal
  BY DEF IInv
<1>0. ASSUME NEW c \in Coroutines, pc'[c] \in {"stopping", "cleaning"} PROVE Goal
  BY <1>0 DEF Cares
<1>1. ASSUME NEW c \in Calls, CallStarted(c) PROVE Goal
  <2>1. CASE producer = None
    <3>1. pc'[c] = "cleaning"
      BY <1>1, <2>1 DEF CallStarted, Send, Goto, TypeOK, Coroutines
    <3>2. QED
      BY <1>0, <3>1 DEF Coroutines
  <2>2. CASE producer # None
    <3>1. \A d \in Coroutines \ {c} : pc'[d] = pc[d] /\ mine'[d] = mine[d]
      BY <1>1, <2>2 DEF CallStarted, Send, Goto, TypeOK, Coroutines
    <3>2. ~Cares(c)
      BY <1>1 DEF CallStarted, Cares
    <3>3. UNCHANGED <<started, producer, state>>
      BY <1>1 DEF CallStarted
    <3>4. QED
      BY <3>1, <3>2, <3>3 DEF Settled, Cares
  <2>3. QED
    BY <2>1, <2>2
<1>2. ASSUME NEW c \in Calls, CallStarts(c) PROVE Goal
  <2>1. pc'[c] = "starting" /\ mine'[c] = producer'
    BY <1>2 DEF CallStarts, Goto, TypeOK, Coroutines
  <2>2. QED
    BY <2>1 DEF Cares, Coroutines
<1>3. ASSUME NEW c \in Coroutines, StartSucceeds(c) PROVE Goal
  <2>1. CASE producer = None
    <3>1. pc'[c] = "cleaning"
      BY <1>3, <2>1 DEF StartSucceeds, Send, Goto, TypeOK
    <3>2. QED
      BY <1>0, <3>1
  <2>2. CASE producer # None
    <3>1. pc'[c] = "sending" /\ mine'[c] = producer' /\ started' /\ producer' # None
      BY <1>3, <2>2 DEF StartSucceeds, Send, Goto, TypeOK
    <3>2. CASE state'[producer'] = "running"
      BY <3>1, <3>2 DEF Settled
    <3>3. CASE state'[producer'] # "running"
      BY <3>1, <3>3 DEF Cares
    <3>4. QED
      BY <3>2, <3>3
  <2>3. QED
    BY <2>1, <2>2
<1>4. ASSUME NEW c \in Coroutines, StartFails(c) PROVE Goal
  <2>1. pc'[c] = "cleaning"
    BY <1>4 DEF StartFails, Goto, TypeOK
  <2>2. QED
    BY <1>0, <2>1
<1>5. ASSUME NEW c \in Coroutines, SendSucceeds(c) PROVE Goal
  <2>1. \A d \in Coroutines \ {c} : pc'[d] = pc[d] /\ mine'[d] = mine[d]
    BY <1>5 DEF SendSucceeds, Goto, TypeOK
  <2>2. ~Cares(c)
    BY <1>5 DEF SendSucceeds, Cares
  <2>3. UNCHANGED <<started, producer, state>>
    BY <1>5 DEF SendSucceeds
  <2>4. QED
    BY <2>1, <2>2, <2>3 DEF Settled, Cares
<1>6. ASSUME NEW c \in Coroutines, SendFails(c) PROVE Goal
  <2>1. pc'[c] \in {"stopping", "cleaning"}
    BY <1>6 DEF SendFails, Stop, Goto, TypeOK
  <2>2. QED
    BY <1>0, <2>1
<1>7. ASSUME ShutdownStops PROVE Goal
  <2>1. pc'[Shutdown] \in {"stopping", "cleaning"}
    BY <1>7 DEF ShutdownStops, Stop, Goto, TypeOK, Coroutines
  <2>2. QED
    BY <1>0, <2>1 DEF Coroutines
<1>8. ASSUME NEW c \in Coroutines, StopReturns(c) PROVE Goal
  <2>1. pc'[c] = "cleaning"
    BY <1>8 DEF StopReturns, Goto, TypeOK
  <2>2. QED
    BY <1>0, <2>1
<1>9. ASSUME NEW c \in Coroutines, CleanupEnds(c) PROVE Goal
  BY <1>9 DEF CleanupEnds, Settled
<1>10. ASSUME NEW p \in Producers, Deliver(p) PROVE Goal
  BY <1>10 DEF Deliver, Settled, Cares
<1>11. CASE UNCHANGED vars
  BY <1>11 DEF vars, Settled, Cares
<1>12. QED
  BY <1>1, <1>2, <1>3, <1>4, <1>5, <1>6, <1>7, <1>8, <1>9, <1>10, <1>11 DEF Next, Resume

LEMMA Invariance == Spec => []IInv
<1>1. IInv /\ [Next]_vars => IInv'
  BY StepTypeOK, StepCared DEF IInv
<1>2. QED
  BY InitIInv, <1>1, PTL DEF Spec

-----------------------------------------------------------------------------
(* The variables of the client keep their types.                           *)
THEOREM TypeCorrect == Spec => []TypeOK
<1>1. IInv => TypeOK
  BY DEF IInv
<1>2. QED
  BY Invariance, <1>1, PTL

(* Whatever calls start, refuse and stop the client under each other: when *)
(* none is under way, nobody is left to care, so the client is settled and *)
(* the next call can use it.                                               *)
THEOREM Usable == Spec => []UsableWhenQuiet
<1>1. IInv => UsableWhenQuiet
  BY DEF IInv, UsableWhenQuiet, Quiet, Cares, Settled
<1>2. QED
  BY Invariance, <1>1, PTL
=============================================================================
