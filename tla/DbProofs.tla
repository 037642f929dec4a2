------------------------------ MODULE DbProofs ------------------------------
(***************************************************************************)
(* Type correctness and the safety properties of DbClient, for any number  *)
(* of engines, requests and changes of the servers.                        *)
(***************************************************************************)
EXTENDS DbClient, FiniteSetTheorems, TLAPS

(* The properties are inductive together with the types: no step relies on *)
(* more about the maps than they say.                                      *)
IInv == TypeOK /\ NoEngineForgotten /\ WritesReachPrimary

(* One refresh has succeeded, every server is up.                          *)
LEMMA InitIInv == Init => IInv
<1> SUFFICES ASSUME Init PROVE IInv
  OBVIOUS
<1>1. TypeOK
  <2>1. Cardinality(Engines) \in Nat
    BY DbAssumption, FS_CardinalityType
  <2>2. 0 \in 0..Cardinality(Engines)
    BY <2>1
  <2>3. asking \in [Requests -> SUBSET Engines]
        /\ answers \in [Requests -> [Engines -> {"none", "master", "replica", "error"}]]
    BY DEF Init, Unasked
  <2>4. /\ up \subseteq Engines /\ primary \in Engines \cup {Nobody} /\ changes \in 0..MaxChanges
        /\ live \subseteq Engines /\ writers \subseteq Engines /\ suspects \subseteq Engines
    BY DbAssumption DEF Init
  <2>5. /\ checker \in {"sleep", "next", "connect", "dead"}
        /\ checking \in Engines \cup {Nobody} /\ visited \subseteq Engines /\ size = 0
        /\ stale \in BOOLEAN /\ revived \subseteq Engines
    BY DEF Init
  <2>6. QED
    BY <2>2, <2>3, <2>4, <2>5 DEF TypeOK
<1>2. NoEngineForgotten /\ WritesReachPrimary
  BY DEF Init, NoEngineForgotten, WritesReachPrimary, WritePool
<1>3. QED
  BY <1>1, <1>2 DEF IInv

(* Type correctness of one step.                                           *)
LEMMA StepTypeOK == IInv /\ [Next]_vars => TypeOK'
<1> SUFFICES ASSUME TypeOK, [Next]_vars PROVE TypeOK'
  BY DEF IInv
<1> USE DbAssumption DEF TypeOK, serverVars, mapVars, checkerVars, history
<1>1. ASSUME NEW e \in Engines, ServerStops(e) \/ ServerStarts(e) \/ Promoted(e) PROVE TypeOK'
  <2>1. CASE ServerStops(e)
    BY <2>1 DEF ServerStops, Change
  <2>2. CASE ServerStarts(e)
    BY <2>2 DEF ServerStarts, Change
  <2>3. CASE Promoted(e)
    BY <2>3 DEF Promoted, Change
  <2>4. QED
    BY <1>1, <2>1, <2>2, <2>3
<1>2. ASSUME NEW r \in Requests, RefreshStarts(r) PROVE TypeOK'
  BY <1>2 DEF RefreshStarts
<1>3. ASSUME NEW r \in Requests, NEW e \in Engines, Answers(r, e) PROVE TypeOK'
  BY <1>3 DEF Answers
<1>4. ASSUME NEW r \in Requests, RefreshEnds(r) PROVE TypeOK'
  BY <1>4 DEF RefreshEnds, Answered, Unasked
<1>5. ASSUME CheckerWakes PROVE TypeOK'
  <2>1. Cardinality(suspects) \in 0..Cardinality(Engines)
    BY FS_Subset, FS_CardinalityType
  <2>2. QED
    BY <1>5, <2>1 DEF CheckerWakes
<1>6. ASSUME CheckerDies \/ CheckerConnects \/ CheckerSleeps PROVE TypeOK'
  BY <1>6 DEF CheckerDies, CheckerConnects, CheckerSleeps
<1>7. ASSUME CheckSucceeds \/ CheckFails PROVE TypeOK'
  BY <1>7 DEF CheckSucceeds, CheckFails
<1>8. CASE UNCHANGED vars
  BY <1>8 DEF vars
<1>9. QED
  BY <1>1, <1>2, <1>3, <1>4, <1>5, <1>6, <1>7, <1>8 DEF Next, Server, RefreshStep, Checker

(* A refresh lists the engines it marks as dead, the task takes off the    *)
(* list only what it marks as alive; writers that are alive after a        *)
(* refresh have answered that they are the primary.                        *)
LEMMA StepSafe == IInv /\ [Next]_vars => NoEngineForgotten' /\ WritesReachPrimary'
<1> DEFINE Safe == NoEngineForgotten /\ WritesReachPrimary
<1> SUFFICES ASSUME TypeOK, Safe, [Next]_vars PROVE Safe'
  BY DEF IInv
<1> USE DEF TypeOK, serverVars, mapVars, checkerVars, history,
            NoEngineForgotten, WritesReachPrimary, WritePool
<1>1. ASSUME NEW e \in Engines, ServerStops(e) \/ ServerStarts(e) \/ Promoted(e) PROVE Safe'
  BY <1>1 DEF ServerStops, ServerStarts, Promoted
<1>2. ASSUME NEW r \in Requests, RefreshStarts(r) PROVE Safe'
  BY <1>2 DEF RefreshStarts
<1>3. ASSUME NEW r \in Requests, NEW e \in Engines, Answers(r, e) PROVE Safe'
  BY <1>3 DEF Answers
<1>4. ASSUME NEW r \in Requests, RefreshEnds(r) PROVE Safe'
  <2>1. writers' \cap live' \subseteq Answered(r, "master")
    BY <1>4 DEF RefreshEnds, Answered
  <2>2. Engines \ live' \subseteq suspects'
    BY <1>4 DEF RefreshEnds
  <2>3. ~stale' => Answered(r, "master") = {primary'}
    BY <1>4 DEF RefreshEnds
  <2>4. QED
    BY <2>1, <2>2, <2>3
<1>5. ASSUME CheckerWakes \/ CheckerDies \/ CheckerConnects \/ CheckerSleeps \/ CheckFails
      PROVE  Safe'
  BY <1>5 DEF CheckerWakes, CheckerDies, CheckerConnects, CheckerSleeps, CheckFails
<1>6. ASSUME CheckSucceeds PROVE Safe'
  BY <1>6 DEF CheckSucceeds
<1>7. CASE UNCHANGED vars
  BY <1>7 DEF vars
<1>8. QED
  BY <1>1, <1>2, <1>3, <1>4, <1>5, <1>6, <1>7 DEF Next, Server, RefreshStep, Checker

-----------------------------------------------------------------------------
(* The inductive invariant holds in every reachable state.                 *)
LEMMA Invariance == Spec => []IInv
<1>1. IInv /\ [Next]_vars => IInv'
  BY StepTypeOK, StepSafe DEF IInv
<1>2. QED
  BY InitIInv, <1>1, PTL DEF Spec

(* Every variable of the client and of its task keeps its type.            *)
THEOREM TypeCorrect == Spec => []TypeOK
<1>1. IInv => TypeOK
  BY DEF IInv
<1>2. QED
  BY <1>1, Invariance, PTL

(* Refreshes of any number of requests and the background task, which all  *)
(* write the same map and set, never lose a dead engine between them.      *)
THEOREM NeverForgotten == Spec => []NoEngineForgotten
<1>1. IInv => NoEngineForgotten
  BY DEF IInv
<1>2. QED
  BY <1>1, Invariance, PTL

(* While the last refresh shows the present primary, writes go there, or   *)
(* to an engine that was dead at that refresh and that the task has        *)
(* brought back since: no failover is needed for writes to reach such a    *)
(* replica.  Nothing else that overlapping refreshes and checks do sends   *)
(* writes astray: engines that are still dead are listed with the writers, *)
(* but not used.                                                           *)
THEOREM WritesRouted == Spec => []WritesReachPrimary
<1>1. IInv => WritesReachPrimary
  BY DEF IInv
<1>2. QED
  BY <1>1, Invariance, PTL
=============================================================================
