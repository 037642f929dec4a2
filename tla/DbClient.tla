------------------------------ MODULE DbClient ------------------------------
(***************************************************************************)
(* SQLAlchemyAsyncDbBaseClient: which database server a transaction is     *)
(* sent to.  The client keeps for every engine whether it lives, and which *)
(* engines serve reads and writes; a statement that fails refreshes both,  *)
(* a background task looks after the dead engines.  All run on one event   *)
(* loop; a step runs from one suspension to the next.                      *)
(***************************************************************************)
EXTENDS Naturals, FiniteSets

CONSTANTS
  Engines,     \* the master engine and the replica engines
  Requests,    \* the requests: each may refresh, and choose engines
  MaxChanges,  \* bound: servers that go down, come up or are promoted
  Nobody       \* no server is primary, no engine is being checked

ASSUME DbAssumption == Nobody \notin Engines /\ IsFiniteSet(Engines) /\ MaxChanges \in Nat

VARIABLES
  up, primary,  \* external: reachable servers, the one out of recovery
  changes,      \* external: changes so far
  live,         \* engines _engines_lives_map holds for alive
  writers,      \* _engine_map[READ_WRITE]; the others are in [READ]
  suspects,     \* _need_check_dead_connections
  asking,       \* a refresh under way: the engines that have not answered
  answers,      \* and the answers of the others
  checker,      \* control state of check_dead_connection_task
  checking,     \* the engine it is connecting to
  visited,      \* the engines its iteration of the set has been at
  size,         \* the size of the set when that iteration began
  stale,        \* history: the last refresh does not show the present primary
  revived       \* history: engines the task brought back since the last refresh

serverVars == <<up, primary, changes>>
mapVars == <<live, writers, suspects>>
checkerVars == <<checker, checking, visited, size>>
history == <<stale, revived>>
vars == <<serverVars, mapVars, asking, answers, checkerVars, history>>

Unasked == [e \in Engines |-> "none"]

TypeOK ==
  /\ up \subseteq Engines /\ primary \in Engines \cup {Nobody} /\ changes \in 0..MaxChanges
  /\ live \subseteq Engines /\ writers \subseteq Engines /\ suspects \subseteq Engines
  /\ asking \in [Requests -> SUBSET Engines]
  /\ answers \in [Requests -> [Engines -> {"none", "master", "replica", "error"}]]
  /\ checker \in {"sleep", "next", "connect", "dead"}
  /\ checking \in Engines \cup {Nobody}
  /\ visited \subseteq Engines
  /\ size \in 0..Cardinality(Engines)
  /\ stale \in BOOLEAN /\ revived \subseteq Engines

(* start_client has refreshed once, with every server up.                  *)
Init ==
  /\ up = Engines /\ primary \in Engines /\ changes = 0
  /\ live = Engines /\ writers = {primary} /\ suspects = {}
  /\ asking = [r \in Requests |-> {}]
  /\ answers = [r \in Requests |-> Unasked]
  /\ checker = "next" /\ checking = Nobody /\ visited = {} /\ size = 0
  /\ stale = FALSE /\ revived = {}

-----------------------------------------------------------------------------
(* The servers (external): Patroni promotes a reachable replica, servers   *)
(* stop and start.                                                         *)

Change == changes < MaxChanges /\ changes' = changes + 1

ServerStops(e) ==
  /\ e \in up /\ Change
  /\ up' = up \ {e}
  /\ primary' = IF primary = e THEN Nobody ELSE primary
  /\ stale' = (stale \/ primary = e)
  /\ UNCHANGED <<mapVars, asking, answers, checkerVars, revived>>

ServerStarts(e) ==
  /\ e \notin up /\ Change
  /\ up' = up \cup {e}
  /\ UNCHANGED <<primary, mapVars, asking, answers, checkerVars, history>>

Promoted(e) ==
  /\ e \in up /\ primary = Nobody /\ Change
  /\ primary' = e
  /\ stale' = TRUE
  /\ UNCHANGED <<up, mapVars, asking, answers, checkerVars, revived>>

-----------------------------------------------------------------------------
(* refresh_read_write_consistency, after a statement failed with an error  *)
(* that is not retryable: of the server, the connection or the SQL.        *)

RefreshStarts(r) ==
  /\ asking[r] = {} /\ answers[r] = Unasked
  /\ asking' = [asking EXCEPT ![r] = Engines]
  /\ UNCHANGED <<serverVars, mapVars, answers, checkerVars, history>>

(* Broken variant of Answers: a server that is starting answers nothing.   *)
AnswersUnknown(r, e) ==
  /\ e \in asking[r]
  /\ asking' = [asking EXCEPT ![r] = @ \ {e}]
  /\ answers' = [answers EXCEPT ![r][e] = IF e \in up THEN "master" ELSE "unknown"]
  /\ UNCHANGED <<serverVars, mapVars, checkerVars, history>>

(* is_master of one engine: the servers answer in any order.               *)
Answers(r, e) ==
  /\ e \in asking[r]
  /\ asking' = [asking EXCEPT ![r] = @ \ {e}]
  /\ answers' = [answers EXCEPT ![r][e] =
       IF e \notin up THEN "error" ELSE IF e = primary THEN "master" ELSE "replica"]
  /\ UNCHANGED <<serverVars, mapVars, checkerVars, history>>

Answered(r, what) == {e \in Engines : answers[r][e] = what}

(* Broken variant of RefreshEnds: an engine that fails is only put on the  *)
(* list of the task.                                                       *)
RefreshKeepsAlive(r) ==
  /\ asking[r] = {} /\ answers[r] # Unasked
  /\ live' = live \cup (Engines \ Answered(r, "error"))
  /\ suspects' = suspects \cup Answered(r, "error")
  /\ writers' = Answered(r, "master") \cup Answered(r, "error")
  /\ answers' = [answers EXCEPT ![r] = Unasked]
  /\ stale' = (Answered(r, "master") # {primary})
  /\ revived' = {}
  /\ UNCHANGED <<serverVars, asking, checkerVars>>

(* gather() returns: an error marks the engine as dead, and, as the        *)
(* exception is true, lists it with the writers.                           *)
RefreshEnds(r) ==
  /\ asking[r] = {} /\ answers[r] # Unasked
  /\ live' = Engines \ Answered(r, "error")
  /\ suspects' = suspects \cup Answered(r, "error")
  /\ writers' = Answered(r, "master") \cup Answered(r, "error")
  /\ answers' = [answers EXCEPT ![r] = Unasked]
  /\ stale' = (Answered(r, "master") # {primary})
  /\ revived' = {}
  /\ UNCHANGED <<serverVars, asking, checkerVars>>

-----------------------------------------------------------------------------
(* check_dead_connection_task.                                             *)

(* Broken variant of CheckerWakes: the loop goes on after the engines it   *)
(* has tried already.                                                      *)
WakesWhereItWas ==
  /\ checker = "sleep"
  /\ checker' = "next"
  /\ size' = Cardinality(suspects)
  /\ UNCHANGED <<serverVars, mapVars, asking, answers, checking, visited, history>>

(* The for loop starts over the set after each sleep.                      *)
CheckerWakes ==
  /\ checker = "sleep"
  /\ checker' = "next"
  /\ visited' = {}
  /\ size' = Cardinality(suspects)
  /\ UNCHANGED <<serverVars, mapVars, asking, answers, checking, history>>

(* The iterator meets a set of another size: RuntimeError, outside of the  *)
(* try, ends the task.                                                     *)
CheckerDies ==
  /\ checker = "next"
  /\ Cardinality(suspects) # size
  /\ checker' = "dead"
  /\ UNCHANGED <<serverVars, mapVars, asking, answers, checking, visited, size, history>>

CheckerConnects ==
  /\ checker = "next"
  /\ Cardinality(suspects) = size
  /\ \E e \in suspects \ visited : checking' = e /\ visited' = visited \cup {e}
  /\ checker' = "connect"
  /\ UNCHANGED <<serverVars, mapVars, asking, answers, size, history>>

CheckerSleeps ==
  /\ checker = "next"
  /\ Cardinality(suspects) = size /\ suspects \subseteq visited
  /\ checker' = "sleep"
  /\ UNCHANGED <<serverVars, mapVars, asking, answers, checking, visited, size, history>>

(* Broken variant of CheckSucceeds: the engine is not marked alive.        *)
ForgetsEngine ==
  /\ checker = "connect"
  /\ checking \in up
  /\ suspects' = suspects \ {checking}
  /\ checker' = "next" /\ checking' = Nobody
  /\ UNCHANGED <<serverVars, live, writers, asking, answers, visited, size, history>>

(* check_connection succeeds: the engine is alive again.                   *)
CheckSucceeds ==
  /\ checker = "connect"
  /\ checking \in up
  /\ suspects' = suspects \ {checking}
  /\ live' = live \cup {checking}
  /\ revived' = revived \cup {checking}
  /\ checker' = "next" /\ checking' = Nobody
  /\ UNCHANGED <<serverVars, writers, asking, answers, visited, size, stale>>

(* check_connection raises: the engine stays in the set, the loop goes on. *)
CheckFails ==
  /\ checker = "connect"
  /\ checking \notin up
  /\ checker' = "next" /\ checking' = Nobody
  /\ UNCHANGED <<serverVars, mapVars, asking, answers, visited, size, history>>

-----------------------------------------------------------------------------
(* _choose_engine picks any of these for a transaction.                    *)

WritePool == writers \cap live

-----------------------------------------------------------------------------
Server == \E e \in Engines : ServerStops(e) \/ ServerStarts(e) \/ Promoted(e)

RefreshStep(r) == RefreshEnds(r) \/ \E e \in Engines : Answers(r, e)

Checker ==
  \/ CheckerWakes \/ CheckerDies \/ CheckerConnects \/ CheckerSleeps
  \/ CheckSucceeds \/ CheckFails

Next ==
  \/ Server
  \/ \E r \in Requests : RefreshStarts(r) \/ RefreshStep(r)
  \/ Checker

Spec == Init /\ [][Next]_vars

(* The event loop keeps running the task; its connections return or fail.  *)
FairSpec == Spec /\ WF_vars(Checker)

-----------------------------------------------------------------------------
(* Properties.                                                             *)

(* Two writers, refreshes and the task, never leave a dead engine that the *)
(* task would not look after.                                              *)
NoEngineForgotten == Engines \ live \subseteq suspects

(* Writes go to the primary, with two exceptions.  The primary changed     *)
(* since the last refresh, or the last refresh to end had asked before     *)
(* that change.  Or, without any failover, an engine that was dead at that *)
(* refresh answers again: it was listed with the writers, and the task     *)
(* marks it alive, so that a replica gets writes until the next refresh.   *)
WritesReachPrimary == ~stale => WritePool \ revived \subseteq {primary}

(* A dead engine that can be reached is used again, as long as the task    *)
(* has not died of its own first success.                                  *)
EventuallyRevived ==
  \A e \in Engines :
    e \in up \ live ~> (e \in live \/ e \notin up \/ checker = "dead")
=============================================================================
