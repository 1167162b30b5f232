--------------------------- MODULE AgentProcess ---------------------------
(***************************************************************************)
(* The agent as a process of its machine: its own update at start and on   *)
(* the platform's command, the files "comfyfed stop" and "comfyfed status" *)
(* use, the wind-down, and the supervisor, which starts the agent again    *)
(* after exit 75 (an update was installed) and, where it watches for       *)
(* failures, after a crash, but never after exit 0.  The supervisor and    *)
(* the operator are external.                                              *)
(***************************************************************************)
EXTENDS Integers

CONSTANTS Latest,      \* newest release; releases are 1 .. Latest
          MaxStarts, MaxStops, MaxJobs   \* bounds of the model

VARIABLES
  proc,       \* "down", "starting", "running", "exiting"
  code,       \* release that runs
  wheel,      \* release that is installed
  published,  \* release the platform offers, which is also its minimum
  autoUpdate, \* config.auto_update
  stopFile,   \* stop.request exists
  stateFile,  \* agent_state.json: exists, as of the last tick
  control,    \* the control loop runs
  shutdown,   \* _shutdown_in_progress
  exitCode,   \* 0 or 75
  install,    \* the update tasks: those "asking", those "installing"
  deferred,   \* RemoteUpdater.pending
  job,        \* "none", "running", or "late": it came during the wind-down
  wish,       \* history: the operator's last word, "run" or "stop"
  early,      \* history: the stop was asked for before the process that runs now ran
  underway,   \* history: an update was being decided or installed when the stop was
              \* taken, or was asked for during the wind-down
  disobeyed,  \* history: the agent took the last stop and was started again all the same
  starts, stops, jobs   \* bounds

vars == <<proc, code, wheel, published, autoUpdate, stopFile, stateFile, control, shutdown,
          exitCode, install, deferred, job, wish, early, underway, disobeyed, starts, stops, jobs>>
operator == <<wish, early, starts, stops>>
said == <<underway, disobeyed>>
releases == <<code, wheel, published, autoUpdate>>
files == <<stopFile, stateFile>>
tasks == <<install, deferred, job, jobs>>

Init ==
  /\ proc = "down" /\ code = 1 /\ wheel = 1 /\ published \in 1 .. Latest
  /\ autoUpdate \in BOOLEAN
  /\ stopFile \in BOOLEAN /\ stateFile \in BOOLEAN   \* left by an earlier crash
  /\ control = FALSE /\ shutdown = FALSE /\ exitCode = 0
  /\ install = {} /\ deferred = FALSE /\ job = "none"
  /\ wish = "run" /\ early = FALSE /\ underway = FALSE /\ disobeyed = FALSE
  /\ starts = 0 /\ stops = 0 /\ jobs = 0

----------------------------------------------------------------------------
(* The operator.                                                           *)

Launched == /\ proc' = "starting" /\ code' = wheel
            /\ shutdown' = FALSE /\ exitCode' = 0

OperatorStarts ==
  /\ proc = "down" /\ starts < MaxStarts /\ starts' = starts + 1
  /\ Launched /\ wish' = "run" /\ early' = FALSE
  /\ underway' = FALSE /\ disobeyed' = FALSE
  /\ UNCHANGED <<wheel, published, autoUpdate, files, control, tasks, stops>>

\* "comfyfed stop" leaves a file for the control loop.
OperatorStops ==
  /\ stops < MaxStops /\ stops' = stops + 1
  /\ stopFile' = TRUE /\ wish' = "stop"
  /\ early' = (proc # "running")
  /\ disobeyed' = FALSE
  /\ UNCHANGED <<proc, releases, stateFile, control, shutdown, exitCode, tasks, underway, starts>>

Publish ==
  /\ published < Latest /\ published' = published + 1
  /\ UNCHANGED <<proc, code, wheel, autoUpdate, files, control, shutdown, exitCode, tasks,
                 operator, said>>

----------------------------------------------------------------------------
(* Starting: _cmd_run.                                                     *)

\* The platform cannot be asked, or has nothing newer, or the update is
\* declined or fails its checks: the agent runs as it is.
RunAsItIs ==
  /\ proc = "starting"
  /\ proc' = "running" /\ control' = TRUE
  /\ stopFile' = FALSE
  /\ UNCHANGED <<releases, stateFile, shutdown, exitCode, tasks, operator, said>>

\* An update that verifies is installed, and the process ends with 75.
SelfUpdate ==
  /\ proc = "starting" /\ code < published /\ autoUpdate
  /\ wheel' = published /\ proc' = "exiting" /\ exitCode' = 75
  /\ UNCHANGED <<code, published, autoUpdate, files, control, shutdown, tasks, operator, said>>

\* Below the minimum with nothing to install: exit 3, which asks for a human.
Blocked ==
  /\ proc = "starting" /\ code < published
  /\ proc' = "down"
  /\ UNCHANGED <<releases, files, control, shutdown, exitCode, tasks, operator, said>>

----------------------------------------------------------------------------
(* Running.                                                                *)

\* One tick of the control loop: publish the state, then look for a stop,
\* whose request is consumed before the wind-down begins.
ControlTick ==
  /\ control
  /\ stateFile' = TRUE
  /\ stopFile' = FALSE
  /\ shutdown' = (shutdown \/ stopFile)
  /\ underway' = IF stopFile THEN install # {} \/ exitCode = 75 ELSE underway
  /\ UNCHANGED <<proc, releases, control, exitCode, tasks, operator, disobeyed>>

\* _spawn_job takes a job also during the wind-down, which may be past
\* collecting those it waits for.
JobStarts ==
  /\ proc = "running" /\ job = "none" /\ jobs < MaxJobs
  /\ job' = (IF shutdown THEN "late" ELSE "running") /\ jobs' = jobs + 1
  /\ UNCHANGED <<proc, releases, files, control, shutdown, exitCode, install, deferred,
                 operator, said>>

\* Slip: a deferred update is installed also while the agent stops.
AppliesAnyway == deferred

\* The deferred update is looked at when a job ends, unless the agent stops.
Applies == deferred /\ ~shutdown

JobEnds ==
  /\ proc = "running" /\ job # "none"
  /\ job' = "none"
  /\ IF Applies THEN install' = install \cup {"installing"} /\ deferred' = FALSE
                ELSE UNCHANGED <<install, deferred>>
  /\ UNCHANGED <<proc, releases, files, control, shutdown, exitCode, jobs, operator, said>>

\* update_agent is answered by a task of its own, also during the wind-down.
UpdateAsked ==
  /\ proc = "running" /\ "asking" \notin install
  /\ install' = install \cup {"asking"}
  /\ underway' = (underway \/ shutdown)
  /\ UNCHANGED <<proc, releases, files, control, shutdown, exitCode, deferred, job, jobs,
                 operator, disobeyed>>

\* The answer of the version check: nothing newer or declined, deferred
\* behind a job, or installed now.
Decide ==
  /\ proc = "running" /\ "asking" \in install
  /\ \/ install' = install \ {"asking"} /\ UNCHANGED deferred
     \/ /\ code < published /\ autoUpdate
        /\ IF job # "none"
           THEN install' = install \ {"asking"} /\ deferred' = TRUE
           ELSE install' = (install \ {"asking"}) \cup {"installing"} /\ UNCHANGED deferred
  /\ UNCHANGED <<proc, releases, files, control, shutdown, exitCode, job, jobs, operator, said>>

\* The thread is done.  A success sets the exit code, also when the agent
\* is already stopping for another reason.
Installed ==
  /\ proc = "running" /\ "installing" \in install /\ install' = install \ {"installing"}
  /\ \/ UNCHANGED <<wheel, exitCode, shutdown>>
     \/ wheel' = published /\ exitCode' = 75 /\ shutdown' = TRUE
  /\ UNCHANGED <<proc, code, published, autoUpdate, files, control, deferred, job, jobs,
                 operator, said>>

----------------------------------------------------------------------------
(* The end.                                                                *)

ControlStopped == control' = FALSE

\* shutdown() has waited for the jobs it collected; the control loop is
\* cancelled and the published state dropped.
StopControlLoop ==
  /\ proc = "running" /\ shutdown /\ job # "running"
  /\ proc' = "exiting" /\ ControlStopped /\ stateFile' = FALSE
  /\ UNCHANGED <<releases, stopFile, shutdown, exitCode, tasks, operator, said>>

\* The process is gone; what pip was still installing may be complete.
Gone == /\ control' = FALSE /\ install' = {} /\ deferred' = FALSE /\ job' = "none"
        /\ wheel' \in {wheel} \cup (IF "installing" \in install THEN {published} ELSE {})

Exit ==
  /\ proc = "exiting" /\ Gone
  /\ IF exitCode = 75
     THEN /\ starts < MaxStarts /\ starts' = starts + 1
          /\ proc' = "starting" /\ code' = wheel' /\ shutdown' = FALSE /\ exitCode' = 0
          /\ disobeyed' = (disobeyed \/ (wish = "stop" /\ ~stopFile /\ ~early))
          /\ early' = TRUE
     ELSE proc' = "down" /\ UNCHANGED <<code, shutdown, exitCode, disobeyed, early, starts>>
  /\ UNCHANGED <<published, autoUpdate, files, jobs, wish, underway, stops>>

\* A kill, a power cut, a wind-down that takes too long: some supervisors
\* start the agent again.
Crash ==
  /\ proc \in {"starting", "running"} /\ Gone
  /\ \/ proc' = "down" /\ UNCHANGED <<code, shutdown, exitCode, starts>>
     \/ starts < MaxStarts /\ starts' = starts + 1
        /\ proc' = "starting" /\ code' = wheel' /\ shutdown' = FALSE /\ exitCode' = 0
  /\ early' = TRUE
  /\ UNCHANGED <<published, autoUpdate, files, jobs, wish, stops, said>>

Next ==
  \/ OperatorStarts \/ OperatorStops \/ Publish
  \/ RunAsItIs \/ SelfUpdate \/ Blocked
  \/ ControlTick \/ JobStarts \/ JobEnds \/ UpdateAsked \/ Decide \/ Installed
  \/ StopControlLoop \/ Exit \/ Crash

Spec == Init /\ [][Next]_vars

----------------------------------------------------------------------------
\* A stop asked of a running agent is never lost: its file waits for the
\* control loop, or the wind-down has begun.
StopNotForgotten ==
  (wish = "stop" /\ proc = "running" /\ ~early) => (stopFile \/ shutdown)

\* A stop is final (docs/SELF-HOSTING.en.md: "comfyfed stop exits 0").
StopIsFinal == ~disobeyed

\* ... but an update being decided or installed when the stop is taken, or asked
\* for during the wind-down, turns it into a restart (runner.py:1918).  One that
\* waits behind a job never does, whichever way the jobs end.
StopBeatsDeferredUpdate == disobeyed => underway

\* An agent that ended in order is not reported as running.
StateGoneWithAgent == (proc = "exiting" /\ shutdown) => ~stateFile

\* A stop is not forgotten, no update that was put off beats it, and an agent that
\* is gone is not taken for a running one (runner.py, control.py).
ProcessSound == StopNotForgotten /\ StopBeatsDeferredUpdate /\ StateGoneWithAgent
============================================================================
