---------------------------- MODULE ComfyUpdate ----------------------------
(***************************************************************************)
(* A ComfyUI update commanded by the platform: the agent checks out the    *)
(* newest release, installs its requirements, restarts ComfyUI, and goes   *)
(* back when the release does not come up.  Git, pip and the ComfyUI       *)
(* process are external; each command may fail, and the agent may die      *)
(* between any two of them, leaving the machine as it was at that moment.  *)
(***************************************************************************)
EXTENDS Integers

CONSTANTS MaxJobs, MaxCommands, MaxFaults   \* bounds of the model

Refs == {"old", "new"}
Nobody == "nobody"

VARIABLES
  newWorks,   \* does the new release come up at all
  repo,       \* the ref checked out
  deps,       \* the release whose requirements are installed, or "partly"
  serving,    \* the code of the ComfyUI that answers, or Nobody
  update,     \* the update task: its next step and the ref it started from
  status,     \* the outcome the console is shown
  pending,    \* _comfy_update_pending
  up,         \* the agent runs
  hub,        \* what the hub last heard: "free", "busy", "paused"
  pushed,     \* a job message is on its way
  job,        \* "none", "running", or "late": pushed before the hub heard of the update
  jobs, commands, faults,   \* bounds
  damaged     \* history: a step failed or was cut off in a way nothing repairs

vars == <<newWorks, repo, deps, serving, update, status, pending, up, hub, pushed, job,
          jobs, commands, faults, damaged>>
machine == <<newWorks, repo, deps, serving>>
work == <<hub, pushed, job, jobs>>

Rest == [pc |-> "rest", prev |-> "old"]
At(pc) == update' = [update EXCEPT !.pc = pc]
Fault == faults < MaxFaults /\ faults' = faults + 1

Init ==
  /\ newWorks \in BOOLEAN
  /\ repo = "old" /\ deps = "old" /\ serving = "old"
  /\ update = Rest /\ status = "none" /\ pending = FALSE /\ up = TRUE
  /\ hub = "free" /\ pushed = FALSE /\ job = "none"
  /\ jobs = 0 /\ commands = 0 /\ faults = 0 /\ damaged = FALSE

Updating == update.pc # "rest"

----------------------------------------------------------------------------
(* Commands.                                                               *)

Busy == job # "none"

\* _spawn_comfy_update: one update at a time, and none beside a job.
Spawn(deferred) ==
  IF Updating THEN pending' = deferred /\ UNCHANGED <<update, status>>
  ELSE IF Busy THEN pending' = TRUE /\ status' = "deferred" /\ UNCHANGED update
  ELSE /\ pending' = deferred
       /\ status' = "updating" /\ update' = [pc |-> "announce", prev |-> repo]

Command ==
  /\ up /\ commands < MaxCommands /\ commands' = commands + 1
  /\ Spawn(pending)
  /\ UNCHANGED <<machine, up, work, faults, damaged>>

\* The connection loop looks for a deferred update between two messages.  Only
\* here is the request taken back: one that was deferred and overtaken by a
\* command that could start at once is carried out a second time.
Poll ==
  /\ up /\ pending /\ ~Updating /\ ~Busy
  /\ Spawn(FALSE)
  /\ UNCHANGED <<machine, up, work, commands, faults, damaged>>

\* The heartbeat that says "paused" goes out before the first step.
Announce ==
  /\ update.pc = "announce" /\ At("fetch")
  /\ hub' = "paused"
  /\ UNCHANGED <<machine, status, pending, up, pushed, job, jobs, commands, faults, damaged>>

----------------------------------------------------------------------------
(* perform_update().                                                       *)

\* The task ends: the outcome is kept and every connection is closed, so
\* that the hub hears the state again.
End(outcome) == /\ update' = Rest /\ status' = outcome
                /\ hub' = IF Busy THEN "busy" ELSE "free"
Step == UNCHANGED <<newWorks, pending, up, pushed, job, jobs, commands>>

\* Marker, work tree, fetch and tags; the tag of the ref checked out decides
\* whether there is anything to do.
Fetch ==
  /\ update.pc = "fetch" /\ Step
  /\ \/ Fault /\ End("failed")
     \/ repo = "new" /\ End("ok") /\ UNCHANGED faults
     \/ repo = "old" /\ At("checkout") /\ UNCHANGED <<status, hub, faults>>
  /\ UNCHANGED <<repo, deps, serving, damaged>>

Checkout ==
  /\ update.pc = "checkout" /\ Step
  /\ \/ Fault /\ End("failed") /\ UNCHANGED repo
     \/ repo' = "new" /\ At("pip") /\ UNCHANGED <<status, hub, faults>>
  /\ UNCHANGED <<deps, serving, damaged>>

\* Slip: the new release stays checked out when its requirements fail.
Restored == repo

\* The ref that was checked out before.
Before == update.prev

\* Requirements that fail to install send the ref back (best effort); what
\* pip had installed by then stays.
Pip ==
  /\ update.pc = "pip" /\ Step
  /\ \/ /\ deps' = "new" /\ At("stop") /\ UNCHANGED <<repo, status, hub, faults, damaged>>
     \/ /\ Fault /\ End("failed")
        /\ \E d \in {deps, "partly"}, r \in {Before, repo} :
             /\ deps' = d /\ repo' = r
             /\ damaged' = (damaged \/ r # Before \/ d = "partly")
  /\ UNCHANGED serving

\* The listener is found by its port and killed.  It may survive unseen
\* (another user's process), or the attempt may raise.
Stop ==
  /\ update.pc = "stop" /\ Step
  /\ \/ serving' = Nobody /\ At("start") /\ UNCHANGED <<status, hub, faults, damaged>>
     \/ Fault /\ At("start") /\ damaged' = TRUE /\ UNCHANGED <<serving, status, hub>>
     \/ Fault /\ End("failed") /\ damaged' = TRUE /\ UNCHANGED serving
  /\ UNCHANGED <<repo, deps>>

\* A release with its own requirements comes up if it works at all; with
\* others it may or may not.  A port still held keeps the new process out.
ComesUp(ref) == IF deps = ref THEN {ref = "old" \/ newWorks} ELSE BOOLEAN
Launched(ref) ==
  IF serving # Nobody THEN serving' = serving
  ELSE \E ok \in ComesUp(ref) : serving' = IF ok THEN ref ELSE Nobody

Start ==
  /\ update.pc = "start" /\ Step
  /\ \/ Launched(repo) /\ At("wait") /\ UNCHANGED <<status, hub, faults, damaged>>
     \/ Fault /\ End("failed") /\ damaged' = TRUE /\ UNCHANGED serving
  /\ UNCHANGED <<repo, deps>>

\* Whoever answers at the port counts as ready.
Ready == serving # Nobody

WaitReady ==
  /\ update.pc = "wait" /\ Step
  /\ IF Ready THEN End("ok") ELSE At("back") /\ UNCHANGED <<status, hub>>
  /\ UNCHANGED <<repo, deps, serving, faults, damaged>>

\* The rollback: ref, requirements, restart; any error ends it.
RollBack ==
  /\ update.pc = "back" /\ Step
  /\ \/ repo' = Before /\ At("backpip") /\ UNCHANGED <<status, hub, faults, damaged>>
     \/ Fault /\ End("manual") /\ damaged' = TRUE /\ UNCHANGED repo
  /\ UNCHANGED <<deps, serving>>

RollBackPip ==
  /\ update.pc = "backpip" /\ Step
  /\ \/ deps' = repo /\ At("backstart") /\ UNCHANGED <<status, hub, faults, damaged>>
     \/ /\ Fault /\ End("manual") /\ damaged' = TRUE
        /\ \E d \in {deps, "partly"} : deps' = d
  /\ UNCHANGED <<repo, serving>>

RollBackStart ==
  /\ update.pc = "backstart" /\ Step
  /\ \/ /\ Launched(repo)
        /\ End(IF serving' = Nobody THEN "manual" ELSE "failed")
        /\ UNCHANGED <<faults, damaged>>
     \/ Fault /\ End("manual") /\ damaged' = TRUE /\ UNCHANGED serving
  /\ UNCHANGED <<repo, deps>>

----------------------------------------------------------------------------
(* Jobs, and the end of the agent.                                         *)

Push ==
  /\ hub = "free" /\ ~pushed /\ job = "none" /\ jobs < MaxJobs
  /\ pushed' = TRUE /\ jobs' = jobs + 1
  /\ UNCHANGED <<machine, update, status, pending, up, hub, job, commands, faults, damaged>>

\* A job is taken whatever the agent is doing.
Take ==
  /\ up /\ pushed /\ pushed' = FALSE
  /\ job' = IF Updating THEN "late" ELSE "running"
  /\ hub' = "busy"
  /\ UNCHANGED <<machine, update, status, pending, up, jobs, commands, faults, damaged>>

JobEnds ==
  /\ job # "none" /\ job' = "none"
  /\ hub' = IF Updating THEN "paused" ELSE "free"
  /\ UNCHANGED <<machine, update, status, pending, up, pushed, jobs, commands, faults, damaged>>

\* A kill or a power cut: the update stops where it is, and a deferred one
\* is forgotten.  ComfyUI is a process of its own.
AgentDies ==
  /\ up /\ Fault /\ up' = FALSE
  /\ update' = Rest /\ status' = "none" /\ pending' = FALSE
  /\ pushed' = FALSE /\ job' = "none" /\ hub' = "paused"
  /\ damaged' = (damaged \/ update.pc \notin {"rest", "announce", "fetch", "checkout"})
  /\ UNCHANGED <<machine, jobs, commands>>

AgentReturns ==
  /\ ~up /\ up' = TRUE /\ hub' = "free"
  /\ UNCHANGED <<machine, update, status, pending, pushed, job, jobs, commands, faults, damaged>>

Next ==
  \/ Command \/ Poll \/ Announce
  \/ Fetch \/ Checkout \/ Pip \/ Stop \/ Start \/ WaitReady
  \/ RollBack \/ RollBackPip \/ RollBackStart
  \/ Push \/ Take \/ JobEnds \/ AgentDies \/ AgentReturns

Spec == Init /\ [][Next]_vars

----------------------------------------------------------------------------
\* The console is told "updated" or "already the latest" only when the new
\* release, with its requirements, is what answers.  (The exception: an earlier
\* step was cut off or failed in a way nothing repairs; an update commanded
\* after that may be told "already the latest" of what does not answer.)
OkIsTheNewRelease ==
  (status = "ok" /\ ~damaged) => (serving = "new" /\ deps = "new")

\* A release that does not come up never strands the machine: with the task
\* at rest something answers, whatever the new release is worth.  (The same
\* exception.)
NeverStranded == (~Updating /\ ~damaged) => (serving # Nobody /\ serving = repo)

\* While ComfyUI is stopped or restarted the only job that can be running is
\* one that was pushed before the hub heard of the update.
JobsAreSpared ==
  update.pc \in {"stop", "start", "wait", "back", "backpip", "backstart"} => job # "running"

\* An update is told as it went, leaves a ComfyUI that runs what is checked out,
\* and takes none down under a job (comfyupdate.py, run_update).
UpdateSound == OkIsTheNewRelease /\ NeverStranded /\ JobsAreSpared
============================================================================
