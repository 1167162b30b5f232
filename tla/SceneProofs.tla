---------------------------- MODULE SceneProofs ----------------------------
(* The scenes of MCHub: every one of them keeps the invariants of its own  *)
(* instance of Hub, whatever its jobs, workers and sockets are.            *)
EXTENDS MCHub, HubProofs

SceneInv ==
    /\ Scene = "retries" => HubInv
    /\ Scene = "again" => Again!HubInv
    /\ Scene = "batch" => Batch!HubInv

\* What each invariant says of the scene it is the invariant of, before a step
\* and after it.
LEMMA ScenesApart ==
    /\ HubInv => Scene = "retries"
    /\ Again!HubInv => Scene = "again"
    /\ Batch!HubInv => Scene = "batch"
    /\ HubInv' => Scene' = "retries"
    /\ Again!HubInv' => Scene' = "again"
    /\ Batch!HubInv' => Scene' = "batch"
<1>1. /\ HubInv => DOMAIN job = Jobs /\ DOMAIN sock = Socks
      /\ HubInv' => DOMAIN job' = Jobs /\ DOMAIN sock' = Socks
  BY DEF HubInv, TypeOK
<1>2. /\ Again!HubInv => DOMAIN job = Jobs /\ DOMAIN sock = TwoSocks
      /\ Again!HubInv' => DOMAIN job' = Jobs /\ DOMAIN sock' = TwoSocks
  BY DEF Again!HubInv, Again!TypeOK
<1>3. /\ Batch!HubInv => DOMAIN job = TwoJobs
      /\ Batch!HubInv' => DOMAIN job' = TwoJobs
  BY DEF Batch!HubInv, Batch!TypeOK
<1> QED
  BY <1>1, <1>2, <1>3, ScenesAssumption DEF Scene, ScenesAssumption

LEMMA ScenesInit == MCInit => SceneInv
<1>1. Init => HubInv
  BY HubInvKept
<1>2. Again!Init => Again!HubInv
  BY Again!HubInvKept, ScenesAssumption DEF ScenesAssumption
<1>3. Batch!Init => Batch!HubInv
  BY Batch!HubInvKept, ScenesAssumption DEF ScenesAssumption
<1> QED
  BY <1>1, <1>2, <1>3, ScenesApart DEF MCInit, SceneInv

\* A step belongs to the scene it starts in, keeps that scene's invariant and
\* recalls no job without its reason.
LEMMA ScenesStep ==
    ASSUME SceneInv, [MCNext]_vars
    PROVE  /\ SceneInv'
           /\ Scene = "retries" => RecallStep
           /\ Scene = "again" => Again!RecallStep
           /\ Scene = "batch" => Batch!RecallStep
<1>1. CASE Scene = "retries"
  <2>1. HubInv /\ [Next]_vars
    BY <1>1 DEF SceneInv, MCNext
  <2>2. HubInv' /\ RecallStep
    BY <2>1, HubInvKept
  <2>3. Scene' = "retries"
    BY <2>2, ScenesApart
  <2> QED
    BY <1>1, <2>2, <2>3 DEF SceneInv
<1>2. CASE Scene = "again"
  <2>1. Again!HubInv /\ [Again!Next]_(Again!vars)
    BY <1>2 DEF SceneInv, MCNext, vars, Again!vars
  <2>2. Again!HubInv' /\ Again!RecallStep
    BY <2>1, Again!HubInvKept, ScenesAssumption DEF ScenesAssumption
  <2>3. Scene' = "again"
    BY <2>2, ScenesApart
  <2> QED
    BY <1>2, <2>2, <2>3 DEF SceneInv
<1>3. CASE Scene = "batch"
  <2>1. Batch!HubInv /\ [Batch!Next]_(Batch!vars)
    BY <1>3 DEF SceneInv, MCNext, vars, Batch!vars
  <2>2. Batch!HubInv' /\ Batch!RecallStep
    BY <2>1, Batch!HubInvKept, ScenesAssumption DEF ScenesAssumption
  <2>3. Scene' = "batch"
    BY <2>2, ScenesApart
  <2> QED
    BY <1>3, <2>2, <2>3 DEF SceneInv
<1> QED
  BY <1>1, <1>2, <1>3 DEF Scene

\* In every scene of MCHub the live work has its right owner, the failures
\* and the ledger agree, an alarm is armed while it is needed, and a worker
\* excluded from a job stays out of it but for a round that could not read the
\* exclusions.
THEOREM ScenesHold == MCSpec => []InOtherScenes
<1>1. SceneInv => InOtherScenes
  BY Again!HubInvKept, Batch!HubInvKept, ScenesAssumption
     DEF SceneInv, InOtherScenes, ScenesAssumption, Again!HubInv, Batch!HubInv
<1>2. SceneInv /\ [MCNext]_vars => SceneInv'
  BY ScenesStep
<1> QED
  BY <1>1, <1>2, ScenesInit, PTL DEF MCSpec

\* In every scene a job goes back to the queue without a counted failure only
\* from a worker that is silent, that kept saying since the last push on one
\* connection that it has nothing to do, or whose hello crossed that push.
THEOREM ScenesRecall == MCSpec => RecallsJustified
<1>1. SceneInv /\ [MCNext]_vars =>
        CASE Scene = "retries" -> RecallStep
          [] Scene = "again" -> Again!RecallStep
          [] OTHER -> Batch!RecallStep
  BY ScenesStep DEF Scene
<1>2. SceneInv /\ [MCNext]_vars => SceneInv'
  BY ScenesStep
<1> QED
  BY <1>1, <1>2, ScenesInit, PTL DEF MCSpec, RecallsJustified
============================================================================
