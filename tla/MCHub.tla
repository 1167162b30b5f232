------------------------------- MODULE MCHub -------------------------------
(* Hub on small instances, in three scenes: two workers try a job, fail it *)
(* and are asked again; one worker comes and goes on two sockets; two      *)
(* jobs, one of them a model fetch, wait for one worker.                   *)
EXTENDS Hub, TLC

CONSTANTS j1, j2, k1, w1, v1, v2, s1, s2, t

MCEveryPair == Jobs \X Workers
MCOneKind == [j \in Jobs |-> k1]

OneWorker == {w1}
TwoSocks == {s1, s2}
OnePair == Jobs \X OneWorker
TwoJobs == {j1, j2}
TwoPairs == TwoJobs \X OneWorker
KeyOfFirst == [j \in TwoJobs |-> IF j = j1 THEN k1 ELSE None]
TheFetch == {j2}
Never == 0

\* TLC computes the constant definitions of a module it only finds extended
\* once, for all scenes: instantiated, each scene has its own.
Plain == INSTANCE Hub

Again == INSTANCE HubProofs WITH
           Workers <- OneWorker, Socks <- TwoSocks, CanRun <- OnePair,
           MaxReruns <- Never

Batch == INSTANCE HubProofs WITH
           Jobs <- TwoJobs, Workers <- OneWorker, CanRun <- TwoPairs, TaskKey <- KeyOfFirst,
           ModelFetch <- TheFetch, MaxReruns <- Never

\* A state tells its scene by the jobs and sockets it is about.
ScenesAssumption ==
  /\ Jobs # TwoJobs /\ Socks # TwoSocks
  /\ Again!ConstantsAssumption /\ Batch!ConstantsAssumption

ASSUME ScenesAssumption

MCInit == Init \/ Again!Init \/ Batch!Init

Scene ==
  IF DOMAIN job = TwoJobs THEN "batch" ELSE IF DOMAIN sock = TwoSocks THEN "again" ELSE "retries"

MCNext ==
  \/ Scene = "retries" /\ Next
  \/ Scene = "again" /\ Again!Next
  \/ Scene = "batch" /\ Batch!Next

MCSpec == MCInit /\ [][MCNext]_vars

\* Bounds: nobody is removed; only across reconnections do records age and
\* silences last, only with two jobs at hand does an agent that has been heard,
\* and told nothing, greet once more, and only a lone worker is told of a job
\* that it does not hold.
Bounds ==
  /\ disabled = {} /\ deleted = {}
  /\ Scene = "again" \/ (aged = {} /\ \A x \in DOMAIN silence : silence[x] < 2)
  /\ \A s \in DOMAIN sock :
       \/ Scene = "batch" /\ sock[s].told = {}
       \/ ~sock[s].crossed /\ sock[s].quiet <= sock[s].beats
  /\ Scene # "retries" \/ \A s \in DOMAIN sock : sock[s].told = {}

\* The other scenes' jobs, workers and sockets keep to the same invariants, the
\* exclusion again but for a round that could not read it.
InOtherScenes ==
  /\ Scene = "again" =>
       Again!TypeOK /\ Again!Ownership /\ Again!AlarmArmed /\ Again!ExcludedStaysOut
  /\ Scene = "batch" => Batch!Ownership /\ Batch!LedgerAgrees /\ Batch!ExcludedStaysOut

\* RecallJustified in every scene: a job is taken back without a counted
\* failure only from a worker that has been silent too long, or that said twice
\* running on one connection, with no push there in between, that it has nothing
\* to do, or whose hello crossed that push.
RecallsJustified ==
  [][CASE Scene = "retries" -> RecallStep
       [] Scene = "again" -> Again!RecallStep
       [] OTHER -> Batch!RecallStep]_vars

Alike == Permutations({v1, v2}) \cup Permutations(TwoSocks)
============================================================================
