------------------------------- MODULE Agent -------------------------------
(***************************************************************************)
(* The agent process on a worker's machine: one asyncio loop that keeps a  *)
(* connection to every platform it is registered with, runs one job at a   *)
(* time on the local ComfyUI, and may be told to cancel a job, to update   *)
(* itself or ComfyUI, or to stop.  A step is what runs between two awaits; *)
(* the threads that talk to ComfyUI take steps of their own.               *)
(***************************************************************************)
EXTENDS Integers, FiniteSets, FiniteSetsExt

CONSTANTS
    Platforms,    \* the registrations
    Jobs,         \* the platforms' job ids
    OwnerOf,      \* OwnerOf[j]: the platform that issued job j
    NoJob,
    MaxPushes,    \* bound: job messages received
    MaxTrouble    \* bound: connections lost or first refused, and update commands

ASSUME AgentAssumption ==
    /\ OwnerOf \in [Jobs -> Platforms]
    /\ MaxPushes \in Nat /\ MaxTrouble \in Nat

Tasks == 1 .. MaxPushes

VARIABLES
    conn,       \* each platform's connection
    task,       \* the task each job message started, numbered in order
    handle,     \* what the loop knows of a job, one made by each job message
    listed,     \* _jobs: the handle of each job, 0 for none
    prompt,     \* what ComfyUI makes of each task's prompt
    stop,       \* the request to stop each prompt
    upd,        \* the agent's update, and ComfyUI's
    exit,       \* how far the process is on its way out
    missed,     \* prompts no stop request reached, or could reach (history)
    repushed,   \* a job was pushed while an earlier push of it was listed (history)
    trouble

vars == <<conn, task, handle, listed, prompt, stop, upd, exit, missed, repushed, trouble>>

\* ws: none, connected (open), authenticated and greeted (live), or gone dead
\* without anyone having noticed (lost).  said: conn.state, the last state
\* sent.  rejected: refusals in a row.  gone: given up and pruned.
Conns == [ws: {"none", "open", "live", "lost"}, said: {"idle", "busy"},
          rejected: 0 .. 1, gone: BOOLEAN]

TaskStates == {"unused", "spawned", "waiting", "work", "posted", "run", "fetched", "report",
               "winddown", "stopping", "ended"}
TaskRecords == [pc: TaskStates, job: Jobs \cup {NoJob}, handle: Tasks,
                how: {"none", "done", "failed", "cancelled", "raised"}]

NewTask(t) == [pc |-> "unused", job |-> NoJob, handle |-> t, how |-> "none"]

Handles == [cancel: BOOLEAN, running: BOOLEAN, reporting: BOOLEAN, prompt: 0 .. MaxPushes,
            asked: 0 .. MaxPushes]
NewHandle == [cancel |-> FALSE, running |-> FALSE, reporting |-> FALSE, prompt |-> 0, asked |-> 0]

Prompts == {"none", "pending", "running", "done", "error"}
Stops == {"no", "asked", "pending", "running", "over"}

\* work: the update task; pending: put off until the job ends; woken: a job
\* ended and the deferred apply is about to look.
Updates == [work: {"none", "checking", "applying"}, pending: BOOLEAN, woken: BOOLEAN,
            comfyPending: BOOLEAN, comfy: BOOLEAN]

TypeOK ==
    /\ conn \in [Platforms -> Conns]
    /\ task \in [Tasks -> TaskRecords]
    /\ handle \in [Tasks -> Handles]
    /\ listed \in [Jobs -> 0 .. MaxPushes]
    /\ prompt \in [Tasks -> Prompts]
    /\ stop \in [Tasks -> Stops]
    /\ upd \in Updates
    /\ exit \in {"run", "asked", "stopping", "over"}
    /\ missed \in SUBSET Tasks /\ repushed \in BOOLEAN
    /\ trouble \in 0 .. MaxTrouble

Init ==
    /\ conn = [p \in Platforms |-> [ws |-> "none", said |-> "idle", rejected |-> 0, gone |-> FALSE]]
    /\ task = [t \in Tasks |-> NewTask(t)]
    /\ handle = [t \in Tasks |-> NewHandle]
    /\ listed = [j \in Jobs |-> 0]
    /\ prompt = [t \in Tasks |-> "none"]
    /\ stop = [t \in Tasks |-> "no"]
    /\ upd = [work |-> "none", pending |-> FALSE, woken |-> FALSE,
              comfyPending |-> FALSE, comfy |-> FALSE]
    /\ exit = "run"
    /\ missed = {} /\ repushed = FALSE
    /\ trouble = 0

----------------------------------------------------------------------------

Alive == exit # "over"

\* job_lock is held from its winning to the last line of the wind-down.
Holds(t) == task[t].pc \in {"work", "posted", "run", "fetched", "report", "winddown", "stopping"}

\* _running_job_id: what the listed handles say.
Running == \E j \in Jobs : listed[j] # 0 /\ handle[listed[j]].running

Unfinished(t) == task[t].pc \notin {"unused", "ended"}

\* The last state said to each platform after a broadcast: one without a socket
\* is passed over, one whose send fails remembers it all the same.
Broadcast(state) ==
    [p \in Platforms |-> IF conn[p].ws = "none" THEN conn[p] ELSE [conn[p] EXCEPT !.said = state]]

Goes(t, pc) == task' = [task EXCEPT ![t].pc = pc]
Ends(t, how) == task' = [task EXCEPT ![t].pc = "winddown", ![t].how = how]
Mine(t) == task[t].handle
Cancelled(t) == handle[Mine(t)].cancel
OwnConn(t) == conn[OwnerOf[task[t].job]]

----------------------------------------------------------------------------
(* The connections *)

\* Connected; then the handshake answers, and hello, heartbeat and inventory go out.
Open(p) ==
    /\ Alive /\ conn[p].ws = "none" /\ ~conn[p].gone
    /\ conn' = [conn EXCEPT ![p].ws = "open"]
    /\ UNCHANGED <<task, handle, listed, prompt, stop, upd, exit, missed, repushed, trouble>>

Greet(p) ==
    /\ Alive /\ conn[p].ws = "open"
    /\ conn' = [conn EXCEPT ![p].ws = "live", ![p].rejected = 0]
    /\ UNCHANGED <<task, handle, listed, prompt, stop, upd, exit, missed, repushed, trouble>>

\* The second refusal in a row.
GivesUp(c) == [c EXCEPT !.ws = "none", !.rejected = 1, !.gone = c.rejected = 1]

\* The platform refuses the registration (4401), and once given up it is pruned
\* and its loop returns.
Reject(p) ==
    /\ Alive /\ conn[p].ws = "open"
    /\ conn[p].rejected = 1 \/ trouble < MaxTrouble
    /\ conn' = [conn EXCEPT ![p] = GivesUp(@)]
    /\ trouble' = trouble + 1 - conn[p].rejected
    /\ UNCHANGED <<task, handle, listed, prompt, stop, upd, exit, missed, repushed>>

\* A connection breaks, or is closed by the other side.
Drop(p) ==
    /\ Alive /\ conn[p].ws \in {"open", "live"} /\ trouble < MaxTrouble
    /\ conn' = [conn EXCEPT ![p].ws = "lost"]
    /\ trouble' = trouble + 1
    /\ UNCHANGED <<task, handle, listed, prompt, stop, upd, exit, missed, repushed>>

\* Its loop notices.
Close(p) ==
    /\ Alive /\ conn[p].ws = "lost"
    /\ conn' = [conn EXCEPT ![p].ws = "none", ![p].rejected = 0]
    /\ UNCHANGED <<task, handle, listed, prompt, stop, upd, exit, missed, repushed, trouble>>

----------------------------------------------------------------------------
(* A job *)

Push(j) ==
    /\ Alive /\ conn[OwnerOf[j]].ws = "live"
    /\ \E t \in Tasks : task[t].pc = "unused"
    /\ LET t == Min({u \in Tasks : task[u].pc = "unused"})
       IN  /\ task' = [task EXCEPT ![t].pc = "spawned", ![t].job = j]
           /\ listed' = [listed EXCEPT ![j] = t]
    /\ repushed' = (repushed \/ listed[j] # 0)
    /\ UNCHANGED <<conn, handle, prompt, stop, upd, exit, missed, trouble>>

\* The task starts: its handle is the job's latest, whoever pushed it.
Begin(t) ==
    /\ Alive /\ task[t].pc = "spawned"
    /\ \A u \in 1 .. t - 1 : task[u].pc # "spawned"
    /\ LET j == task[t].job
           h == IF listed[j] # 0 THEN listed[j] ELSE t
       IN  /\ task' = [task EXCEPT ![t].pc = "waiting", ![t].handle = h]
           /\ listed' = [listed EXCEPT ![j] = h]
    /\ UNCHANGED <<conn, handle, prompt, stop, upd, exit, missed, repushed, trouble>>

\* It wins the lock, in the order the tasks asked, and says busy.
Acquire(t) ==
    /\ Alive /\ task[t].pc = "waiting"
    /\ \A u \in Tasks : ~Holds(u) /\ (task[u].pc = "waiting" => t <= u)
    /\ handle' = [handle EXCEPT ![Mine(t)].running = TRUE]
    /\ IF Cancelled(t) THEN Ends(t, "cancelled") /\ UNCHANGED conn
                       ELSE Goes(t, "work") /\ conn' = Broadcast("busy")
    /\ UNCHANGED <<listed, prompt, stop, upd, exit, missed, repushed, trouble>>

\* The preparations (models fetched, workflow checked, inputs put in place), a
\* poll or the download fail, which is a cancellation if one had come.
Fails(t) == Ends(t, IF Cancelled(t) THEN "cancelled" ELSE "failed")

StepFails(t) ==
    /\ Alive /\ task[t].pc \in {"work", "run"}
    /\ Fails(t)
    /\ UNCHANGED <<conn, handle, listed, prompt, stop, upd, exit, missed, repushed, trouble>>

\* A model download is all there was to do.
FetchOnly(t) ==
    /\ Alive /\ task[t].pc = "work"
    /\ Goes(t, "fetched")
    /\ UNCHANGED <<conn, handle, listed, prompt, stop, upd, exit, missed, repushed, trouble>>

\* The workflow is posted; ComfyUI queues it before its answer is read.
Post(t) ==
    /\ Alive /\ task[t].pc = "work"
    /\ IF Cancelled(t) THEN Ends(t, "cancelled") /\ UNCHANGED prompt
                       ELSE Goes(t, "posted") /\ prompt' = [prompt EXCEPT ![t] = "pending"]
    /\ UNCHANGED <<conn, handle, listed, stop, upd, exit, missed, repushed, trouble>>

\* The answer names the prompt, and progress is broadcast; or it never comes.
Answer(t) ==
    /\ Alive /\ task[t].pc = "posted"
    /\ \/ /\ handle' = [handle EXCEPT ![Mine(t)].prompt = t]
          /\ Goes(t, "run")
          /\ conn' = Broadcast("busy")
          /\ UNCHANGED missed
       \/ Fails(t) /\ missed' = missed \cup {t} /\ UNCHANGED <<conn, handle>>
    /\ UNCHANGED <<listed, prompt, stop, upd, exit, repushed, trouble>>

\* A poll: cancelled, finished, failed, or still busy, which is broadcast.
Poll(t) ==
    /\ Alive /\ task[t].pc = "run"
    /\ \/ Cancelled(t) /\ Ends(t, "cancelled") /\ UNCHANGED conn
       \/ ~Cancelled(t) /\ prompt[t] = "done" /\ Goes(t, "fetched") /\ UNCHANGED conn
       \/ ~Cancelled(t) /\ prompt[t] = "error" /\ Ends(t, "failed") /\ UNCHANGED conn
       \/ ~Cancelled(t) /\ prompt[t] \in {"pending", "running"}
          /\ conn' = Broadcast("busy") /\ UNCHANGED task
    /\ UNCHANGED <<handle, listed, prompt, stop, upd, exit, missed, repushed, trouble>>

Report(t) ==
    /\ Alive /\ task[t].pc = "fetched"
    /\ handle' = [handle EXCEPT ![Mine(t)].reporting = TRUE]
    /\ Goes(t, "report")
    /\ UNCHANGED <<conn, listed, prompt, stop, upd, exit, missed, repushed, trouble>>

\* Slip: only the uploads look for a cancellation.
CalledOffUploading(t) == Cancelled(t) /\ prompt[t] = "running"

\* Each attempt at the hand-over looks for a cancellation first.
CalledOff(t) == Cancelled(t)

\* An attempt: called off; sent on whatever socket there is; or put off for the
\* platform to come back, and nothing has changed.
HandOver(t) ==
    /\ Alive /\ task[t].pc = "report"
    /\ IF CalledOff(t) THEN Ends(t, "cancelled")
                       ELSE OwnConn(t).ws # "none" /\ Ends(t, "done")
    /\ UNCHANGED <<conn, handle, listed, prompt, stop, upd, exit, missed, repushed, trouble>>

\* The platform refuses a file for good.
Refused(t) ==
    /\ Alive /\ task[t].pc = "report" /\ ~CalledOff(t)
    /\ Fails(t)
    /\ UNCHANGED <<conn, handle, listed, prompt, stop, upd, exit, missed, repushed, trouble>>

----------------------------------------------------------------------------
(* Stopping a prompt *)

\* _stop_comfy_prompt: the prompt a handle knows is asked to stop, once.
ToStop(h) == IF handle[h].prompt # handle[h].asked THEN {handle[h].prompt} ELSE {}
Asked(hs) == [h \in Tasks |-> IF h \in hs THEN [handle[h] EXCEPT !.asked = handle[h].prompt]
                                          ELSE handle[h]]
StopsOf(hs) == [t \in Tasks |-> IF t \in UNION {ToStop(h) : h \in hs} THEN "asked" ELSE stop[t]]

\* The queue is read: where is it?  A read that fails counts as running.
ReadQueue(t) ==
    /\ Alive /\ stop[t] = "asked"
    /\ \/ stop' = [stop EXCEPT ![t] =
                       IF prompt[t] \in {"pending", "running"} THEN prompt[t] ELSE "over"]
       \/ stop' = [stop EXCEPT ![t] = "running"]
    /\ UNCHANGED <<conn, task, handle, listed, prompt, upd, exit, missed, repushed, trouble>>

\* It is taken off the queue, or whatever runs by now is interrupted; or the
\* request fails.
Strike(t) ==
    /\ Alive /\ stop[t] \in {"pending", "running"}
    /\ LET hit == IF stop[t] = "pending" THEN {t} \cap {u \in Tasks : prompt[u] = "pending"}
                                         ELSE {u \in Tasks : prompt[u] = "running"}
       IN  \/ /\ prompt' = [u \in Tasks |-> IF u \in hit THEN "error" ELSE prompt[u]]
              /\ missed' = IF t \in hit THEN missed ELSE missed \cup {t}
           \/ /\ missed' = missed \cup {t}
              /\ UNCHANGED prompt
    /\ stop' = [stop EXCEPT ![t] = "over"]
    /\ UNCHANGED <<conn, task, handle, listed, upd, exit, repushed, trouble>>

\* job_cancelled, from the platform the job is from: a message from another,
\* or for a job that is not here, is ignored.
CancelJob(j) ==
    /\ Alive /\ conn[OwnerOf[j]].ws = "live" /\ listed[j] # 0
    /\ stop' = StopsOf({listed[j]})
    /\ handle' = [Asked({listed[j]}) EXCEPT ![listed[j]].cancel = TRUE]
    /\ UNCHANGED <<conn, task, listed, prompt, upd, exit, missed, repushed, trouble>>

----------------------------------------------------------------------------
(* The wind-down *)

\* Slip: the request made when the cancellation came is taken to be enough.
StopAgainNever(t) == FALSE

\* A cancelled job's prompt is looked at again: the first look may have been
\* too early to know it.
StopAgain(t) == task[t].how = "cancelled"

\* A failure is reported on the socket there is, and raises if there is none.
WindDown(t) ==
    /\ Alive /\ task[t].pc = "winddown"
    /\ LET hs == IF StopAgain(t) THEN {Mine(t)} ELSE {}
       IN  /\ stop' = StopsOf(hs)
           /\ handle' = [Asked(hs) EXCEPT ![Mine(t)].running = FALSE]
    /\ task' = [task EXCEPT ![t].pc = "stopping",
                    ![t].how = IF @ = "failed" /\ OwnConn(t).ws = "none" THEN "raised" ELSE @]
    /\ UNCHANGED <<conn, listed, prompt, upd, exit, missed, repushed, trouble>>

\* Slip: only a job that was done wakes the update.
WakesIfDone(t) == upd.pending /\ exit = "run" /\ task[t].how = "done"

\* The done callback looks whether an update waits for the job.
Wakes(t) == upd.pending /\ exit = "run"

\* The files are cleared away, the job is struck off if the list still means
\* this handle, idle is said, and the lock is let go.
Finish(t) ==
    /\ Alive /\ task[t].pc = "stopping"
    /\ handle[Mine(t)].prompt = t /\ task[t].how = "cancelled" => stop[t] \in {"no", "over"}
    /\ Goes(t, "ended")
    /\ listed' = [listed EXCEPT ![task[t].job] = IF @ = Mine(t) THEN 0 ELSE @]
    /\ handle' = [handle EXCEPT ![Mine(t)] =
           IF \E u \in Tasks \ {t} : Unfinished(u) /\ Mine(u) = Mine(t) THEN @ ELSE NewHandle]
    /\ conn' = Broadcast("idle")
    /\ upd' = [upd EXCEPT !.woken = @ \/ Wakes(t)]
    /\ UNCHANGED <<prompt, stop, exit, missed, repushed, trouble>>

----------------------------------------------------------------------------
(* ComfyUI *)

\* It runs one prompt at a time, in its order; the prompt succeeds or fails.
ComfyStart ==
    /\ Alive
    /\ \E t \in Tasks : prompt[t] = "pending"
    /\ \A t \in Tasks : prompt[t] # "running"
    /\ prompt' = [prompt EXCEPT ![Min({t \in Tasks : prompt[t] = "pending"})] = "running"]
    /\ UNCHANGED <<conn, task, handle, listed, stop, upd, exit, missed, repushed, trouble>>

ComfyEnd(t) ==
    /\ Alive /\ prompt[t] = "running"
    /\ \E end \in {"done", "error"} : prompt' = [prompt EXCEPT ![t] = end]
    /\ UNCHANGED <<conn, task, handle, listed, stop, upd, exit, missed, repushed, trouble>>

----------------------------------------------------------------------------
(* Updates *)

\* update_agent: the version is looked up in a thread.  One at a time is a bound.
UpdateAgent ==
    /\ Alive /\ trouble < MaxTrouble /\ upd.work = "none"
    /\ \E p \in Platforms : conn[p].ws = "live"
    /\ upd' = [upd EXCEPT !.work = "checking"]
    /\ trouble' = trouble + 1
    /\ UNCHANGED <<conn, task, handle, listed, prompt, stop, exit, missed, repushed>>

\* Nothing newer, declined or failed; put off if a job runs; else applied.
Decide ==
    /\ Alive /\ upd.work = "checking"
    /\ \/ upd' = [upd EXCEPT !.work = "none"]
       \/ upd' = IF Running THEN [upd EXCEPT !.work = "none", !.pending = TRUE]
                            ELSE [upd EXCEPT !.work = "applying"]
    /\ UNCHANGED <<conn, task, handle, listed, prompt, stop, exit, missed, repushed, trouble>>

\* apply_pending_if_idle: if another job has started meanwhile it stays put off.
ApplyPending ==
    /\ Alive /\ upd.woken /\ upd.work = "none"
    /\ upd' = IF Running THEN [upd EXCEPT !.woken = FALSE]
              ELSE [upd EXCEPT !.woken = FALSE, !.pending = FALSE,
                               !.work = IF upd.pending THEN "applying" ELSE "none"]
    /\ UNCHANGED <<conn, task, handle, listed, prompt, stop, exit, missed, repushed, trouble>>

\* Downloaded, verified and installed, whatever has started since: the exit code
\* is set and the process is on its way out; or it fails.
Apply ==
    /\ Alive /\ upd.work = "applying"
    /\ upd' = [upd EXCEPT !.work = "none"]
    /\ exit' \in {exit, IF exit = "run" THEN "asked" ELSE exit}
    /\ UNCHANGED <<conn, task, handle, listed, prompt, stop, missed, repushed, trouble>>

StartComfy == IF Running THEN [upd EXCEPT !.comfyPending = TRUE]
              ELSE [upd EXCEPT !.comfy = TRUE]

\* update_comfyui: ignored while one runs.
UpdateComfy ==
    /\ Alive /\ trouble < MaxTrouble /\ ~upd.comfy
    /\ \E p \in Platforms : conn[p].ws = "live"
    /\ upd' = StartComfy
    /\ trouble' = trouble + 1
    /\ UNCHANGED <<conn, task, handle, listed, prompt, stop, exit, missed, repushed>>

\* A connection's loop looks whether the put-off one may start.
ComfyDue ==
    /\ Alive /\ upd.comfyPending /\ ~upd.comfy /\ ~Running
    /\ \E p \in Platforms : conn[p].ws = "live"
    /\ upd' = [upd EXCEPT !.comfyPending = FALSE, !.comfy = TRUE]
    /\ UNCHANGED <<conn, task, handle, listed, prompt, stop, exit, missed, repushed, trouble>>

\* ComfyUI was restarted, and every connection is closed to greet anew.
ComfyDone ==
    /\ Alive /\ upd.comfy
    /\ upd' = [upd EXCEPT !.comfy = FALSE]
    /\ prompt' = [t \in Tasks |-> IF prompt[t] \in {"pending", "running"} THEN "error" ELSE prompt[t]]
    /\ conn' = [p \in Platforms |-> IF conn[p].ws = "none" THEN conn[p]
                                    ELSE [conn[p] EXCEPT !.ws = "none", !.rejected = 0]]
    /\ UNCHANGED <<task, handle, listed, stop, exit, missed, repushed, trouble>>

----------------------------------------------------------------------------
(* The way out *)

\* A signal, the stop file, or no registration left.
AskToStop ==
    /\ exit = "run"
    /\ exit' = "asked"
    /\ UNCHANGED <<conn, task, handle, listed, prompt, stop, upd, missed, repushed, trouble>>

\* The jobs shutdown calls off: those with nothing to hand over yet.
Abortable == {h \in {listed[j] : j \in Jobs} \ {0} : ~handle[h].reporting}

Shutdown ==
    /\ exit = "asked"
    /\ exit' = "stopping"
    /\ stop' = StopsOf(Abortable)
    /\ handle' = [h \in Tasks |-> [Asked(Abortable)[h] EXCEPT !.cancel = @ \/ h \in Abortable]]
    /\ UNCHANGED <<conn, task, listed, prompt, upd, missed, repushed, trouble>>

\* All is wound down, or the ten seconds are over: the process ends, and what it
\* knew is gone.
Exit ==
    /\ exit = "stopping"
    /\ exit' = "over"
    /\ conn' = [p \in Platforms |-> [conn[p] EXCEPT !.ws = "none"]]
    /\ task' = [t \in Tasks |-> IF Unfinished(t) THEN [task[t] EXCEPT !.pc = "ended", !.how = "none"]
                                                ELSE task[t]]
    /\ handle' = [t \in Tasks |-> NewHandle]
    /\ listed' = [j \in Jobs |-> 0]
    /\ stop' = [t \in Tasks |-> "over"]
    /\ upd' = [work |-> "none", pending |-> FALSE, woken |-> FALSE,
               comfyPending |-> FALSE, comfy |-> FALSE]
    /\ UNCHANGED <<prompt, missed, repushed, trouble>>

----------------------------------------------------------------------------

Works(t) ==
    \/ Begin(t) \/ Acquire(t) \/ Post(t) \/ Answer(t) \/ Poll(t)
    \/ Report(t) \/ HandOver(t) \/ WindDown(t) \/ Finish(t)

Next ==
    \/ \E p \in Platforms : Open(p) \/ Greet(p) \/ Reject(p) \/ Drop(p) \/ Close(p)
    \/ \E j \in Jobs : Push(j) \/ CancelJob(j)
    \/ \E t \in Tasks : Works(t) \/ StepFails(t) \/ FetchOnly(t) \/ Refused(t)
                          \/ ReadQueue(t) \/ Strike(t) \/ ComfyEnd(t)
    \/ ComfyStart \/ UpdateAgent \/ Decide \/ ApplyPending \/ Apply
    \/ UpdateComfy \/ ComfyDue \/ ComfyDone \/ AskToStop \/ Shutdown \/ Exit

\* Threads and tasks that can run do: nothing is assumed of the network, the
\* platforms, or ComfyUI.
Fairness ==
    /\ \A t \in Tasks : WF_vars(Works(t)) /\ WF_vars(ReadQueue(t)) /\ WF_vars(Strike(t))
    /\ WF_vars(Shutdown) /\ WF_vars(Exit)

Spec == Init /\ [][Next]_vars
FairSpec == Spec /\ Fairness

----------------------------------------------------------------------------
(* Properties *)

\* A cancelled job leaves nothing running on the machine: once its task is over,
\* its prompt is off ComfyUI, unless a stop request was sent and missed it or its
\* name was never learnt, or the job was pushed twice (_stop_comfy_prompt).
NoPromptLeftBehind ==
    \A t \in Tasks :
        task[t].pc = "ended" /\ task[t].how = "cancelled" /\ ~repushed =>
            prompt[t] \notin {"pending", "running"} \/ t \in missed

\* An update put off for a job is not forgotten: while it waits, a job is still
\* to end or its wake-up is on its way (RemoteUpdater.pending).
UpdateNotForgotten ==
    upd.pending /\ exit = "run" => upd.woken \/ \E t \in Tasks : Unfinished(t)

\* A job that holds the machine and is cancelled lets go of it, even while its
\* result waits for a platform that may never come back (_report_completion).
CancelTakesEffect ==
    \A t \in Tasks : (Holds(t) /\ Cancelled(t)) ~> (~Holds(t) \/ exit = "over")

\* The agent's parts fit each other whatever comes in between, and an update it
\* put off is remembered (PlatformConnection, RemoteUpdater).
LoopSound == TypeOK /\ UpdateNotForgotten
============================================================================
