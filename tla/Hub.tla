-------------------------------- MODULE Hub --------------------------------
(***************************************************************************)
(* The Hub Durable Object and the tables it drives: the jobs, their owners *)
(* and failed attempts, the per-worker record of unsuitable tasks, the     *)
(* receipts, the agent sockets with their durable attachments, and the     *)
(* dispatch alarm.                                                         *)
(*                                                                         *)
(* The model is open: an agent is any sequence of well-formed messages on  *)
(* its authenticated socket, so what is shown here needs nothing of it.    *)
(* A handler is one step; the interleavings inside a handler, between two  *)
(* of its database statements, are the subject of module OwnedGate.  The   *)
(* jobs are unsplit.                                                       *)
(*                                                                         *)
(* Time is what the code compares it with: `silence' is how long a worker  *)
(* has not been heard of (0, 1 past STALE_SECONDS, 2 past                  *)
(* POSSIBLE_WORKER_STALE_DAYS), `aged' the unsuitable records past their   *)
(* time to live, and `started' the worker whose heartbeat stamped the      *)
(* job's start.                                                            *)
(*                                                                         *)
(* Three fields are history, read by properties alone: a row's `slipped'   *)
(* are the workers that got the job, however often they had failed it, in  *)
(* a round without exclusions, and have not failed it since; a socket's    *)
(* `quiet' counts the idle heartbeats without a job it sent running since  *)
(* its last job frame or recall, up to the one before a recall, and        *)
(* `crossed' says that it helloed between that frame and the first         *)
(* heartbeat after it.                                                     *)
(***************************************************************************)
EXTENDS Integers, FiniteSets, Functions

CONSTANTS
    Jobs, Workers, Socks, Keys,  \* job ids, worker ids, agent sockets, task keys
    None,                        \* SQL NULL
    ModelFetch,                  \* the jobs of kind model_fetch
    CanRun,                      \* <<job, worker>> that verdict() passes, exclusions aside
    TaskKey,                     \* a job's task key, or None
    MaxJobAttempts, MaxFailuresPerWorker, UnsuitableThreshold, OrphanBeats,
    MaxReruns                    \* bound: user retries of one job

ASSUME ConstantsAssumption ==
    /\ None \notin Workers \cup Keys
    /\ IsFiniteSet(Workers)
    /\ ModelFetch \subseteq Jobs
    /\ CanRun \subseteq Jobs \X Workers
    /\ TaskKey \in [Jobs -> Keys \cup {None}]
    /\ MaxJobAttempts \in Nat \ {0}
    /\ MaxFailuresPerWorker \in Nat \ {0}
    /\ UnsuitableThreshold \in Nat \ {0}
    /\ OrphanBeats \in Nat \ {0, 1}
    /\ MaxReruns \in Nat

VARIABLES
    job,        \* the jobs table
    reruns,     \* user retries of a job so far
    failures,   \* worker_task_failures, counted up to the threshold
    aged,       \* its rows whose updated_at is past the time to live
    ledger,     \* receipts minted, counted by job, worker and kind
    silence,    \* how long a worker has not been heard of
    disabled, deleted,  \* the workers' flags
    sock,       \* agent sockets that getWebSockets() lists, with attachments
    alarm       \* is the dispatch alarm set

vars == <<job, reruns, failures, aged, ledger, silence, disabled, deleted, sock, alarm>>

Owned == {"assigned", "running"}
Terminal == {"done", "failed", "cancelled"}
Statuses == {"absent", "queued"} \cup Owned \cup Terminal

JobRow == [status: Statuses, owner: Workers \cup {None}, last: Workers \cup {None},
           started: Workers \cup {None}, attempts: [Workers -> Nat], retried: BOOLEAN,
           slipped: SUBSET Workers]

NewRow == [status |-> "absent", owner |-> None, last |-> None, started |-> None,
           attempts |-> [w \in Workers |-> 0], retried |-> FALSE, slipped |-> {}]

\* "failed_foreign" is a failed receipt whose span starts at another worker's start.
Kinds == {"completed", "model_fetch", "failed", "failed_foreign", "cancelled"}

States == {"idle", "busy", "dispatched", "paused"}

Socket == [phase: {"none", "handshake", "ready"}, worker: Workers \cup {None},
           state: States, hello: BOOLEAN, newer: SUBSET Socks, beats: Nat,
           told: SUBSET Jobs, quiet: 0 .. OrphanBeats - 1, crossed: BOOLEAN]

NoSocket == [phase |-> "none", worker |-> None, state |-> "idle", hello |-> FALSE,
             newer |-> {}, beats |-> 0, told |-> {},
             quiet |-> 0, crossed |-> FALSE]

TypeOK ==
    /\ job \in [Jobs -> JobRow]
    /\ reruns \in [Jobs -> Nat]
    /\ failures \in [Workers -> [Keys -> 0 .. UnsuitableThreshold]]
    /\ aged \subseteq Workers \X Keys
    /\ ledger \in [Jobs -> [Workers -> [Kinds -> Nat]]]
    /\ silence \in [Workers -> 0 .. 2]
    /\ disabled \subseteq Workers
    /\ deleted \subseteq Workers
    /\ sock \in [Socks -> Socket]
    /\ alarm \in BOOLEAN

Init ==
    /\ job = [j \in Jobs |-> NewRow]
    /\ reruns = [j \in Jobs |-> 0]
    /\ failures = [w \in Workers |-> [k \in Keys |-> 0]]
    /\ aged = {}
    /\ ledger = [j \in Jobs |-> [w \in Workers |-> [k \in Kinds |-> 0]]]
    /\ silence = [w \in Workers |-> 0]
    /\ disabled = {}
    /\ deleted = {}
    /\ sock = [s \in Socks |-> NoSocket]
    /\ alarm = FALSE

----------------------------------------------------------------------------
(* Helpers: rows of the jobs table *)

\* Slip: the owner is checked and the status forgotten.
HeldByOwnerAlone(r, w) == r.owner = w

Held(r, w) == r.status \in Owned /\ r.owner = w

\* Slip: "failed" is not taken for an end.
CancellableOrFailed(r) == r.status \in {"queued", "failed"} \cup Owned

Cancellable(r) == r.status \in {"queued"} \cup Owned

\* Slip: only the queue keeps the alarm going.
HasQueuedJobs(jt) == \E j \in Jobs : jt[j].status = "queued"

HasActiveJobs(jt) == \E j \in Jobs : Cancellable(jt[j])

\* Slip: worker_id is not cleared.
RequeuedOwned(r) == [r EXCEPT !.status = "queued", !.last = r.owner]

Requeued(r) == [r EXCEPT !.status = "queued", !.last = r.owner, !.owner = None]

\* UPDATE jobs ... WHERE worker_id = ? AND status IN (...), for each worker of W.
RequeueJobsFor(W) ==
    [j \in Jobs |-> IF job[j].status \in Owned /\ job[j].owner \in W
                    THEN Requeued(job[j]) ELSE job[j]]

\* Slip: counted on past the threshold.
CountedUpForEver(n) == n + 1

\* A row of worker_task_failures after one more failure.
CountedUp(n) == IF n < UnsuitableThreshold THEN n + 1 ELSE n

TotalAttempts(r) == SumFunction(r.attempts)

\* Slip: off by one.
ExhaustedBeyond(r) == TotalAttempts(r) > MaxJobAttempts

Exhausted(r) == TotalAttempts(r) >= MaxJobAttempts

Unsuitable(f, a) ==
    {p \in Workers \X Keys : f[p[1]][p[2]] >= UnsuitableThreshold /\ p \notin a}

\* The verdict of a pair with its exclusions: the job's own and the task's.
Eligible(j, r, w, excluded) ==
    /\ <<j, w>> \in CanRun
    /\ r.attempts[w] < MaxFailuresPerWorker
    /\ <<w, TaskKey[j]>> \notin excluded

AnyPossibleWorker(j, r, excluded) ==
    \E w \in Workers \ (deleted \cup disabled) : silence[w] < 2 /\ Eligible(j, r, w, excluded)

Mint(j, w, kind) == [ledger EXCEPT ![j][w][kind] = @ + 1]

(* Helpers: sockets *)

Ready(s, w) == sock[s].phase = "ready" /\ sock[s].worker = w

\* The sockets findWsForWorker may return for w: the one that helloed last,
\* any one of them when none has.
Candidates(w) ==
    {s \in Socks : /\ Ready(s, w)
                   /\ sock[s].newer = {}
                   /\ sock[s].hello \/ ~\E t \in Socks : Ready(t, w) /\ sock[t].hello}

Without(gone) ==
    [s \in Socks |-> IF s \in gone THEN NoSocket
                     ELSE [sock[s] EXCEPT !.newer = @ \ gone]]

\* sendJobCancelled: once per connection and job; protocol 1 (no hello yet) never.
Telling(r, j) == IF r.hello THEN [r EXCEPT !.told = @ \cup {j}] ELSE r

\* The attachment after its job frame went out.
Dispatched(r) == [r EXCEPT !.state = "dispatched", !.quiet = 0, !.crossed = FALSE]

\* Slip: a push in between does not restart the count.
IdleBeatsEver(r) == r.beats + 1

\* Consecutive idle heartbeats without a job: a push in between restarts the count.
IdleBeats(r) == IF r.state = "idle" THEN r.beats + 1 ELSE 1

\* The history after a heartbeat: `idle' without a job, `last' before a recall.
Heard(r, idle, last) ==
    [r EXCEPT !.quiet = IF ~idle \/ last THEN 0 ELSE IF @ + 1 < OrphanBeats THEN @ + 1 ELSE @,
              !.crossed = @ /\ idle /\ ~last]

Forgetful(r) == [r EXCEPT !.told = {}]

----------------------------------------------------------------------------
(* What users and administrators do *)

\* wakeHub is fire-and-forget: the alarm is armed unless the call is lost.
WakeHub == alarm' \in {alarm, TRUE}

CreateJob(j) ==
    /\ job[j].status = "absent"
    /\ job' = [job EXCEPT ![j].status = "queued"]
    /\ WakeHub
    /\ UNCHANGED <<reruns, failures, aged, ledger, silence, disabled, deleted, sock>>

CancelJob(j) ==
    LET r == job[j] IN
    /\ Cancellable(r)
    /\ job' = [job EXCEPT ![j].status = "cancelled", ![j].owner = None,
                          ![j].last = IF r.owner = None THEN @ ELSE r.owner]
    /\ ledger' = IF r.status = "running" /\ r.started # None /\ r.owner # None
                 THEN Mint(j, r.owner, "cancelled") ELSE ledger
    /\ IF Candidates(r.owner) = {}
       THEN sock' = sock
       ELSE \E s \in Candidates(r.owner) : sock' = [sock EXCEPT ![s] = Telling(@, j)]
    /\ alarm' = TRUE
    /\ UNCHANGED <<reruns, failures, aged, silence, disabled, deleted>>

\* attempts, retry_count and last_worker_id survive a user's retry.
RetryJob(j) ==
    /\ job[j].status = "failed"
    /\ reruns[j] < MaxReruns
    /\ job' = [job EXCEPT ![j].status = "queued", ![j].owner = None, ![j].started = None]
    /\ reruns' = [reruns EXCEPT ![j] = @ + 1]
    /\ WakeHub
    /\ UNCHANGED <<failures, aged, ledger, silence, disabled, deleted, sock>>

DisableWorker(w) ==
    /\ disabled' = disabled \cup {w}
    /\ UNCHANGED <<job, reruns, failures, aged, ledger, silence, deleted, sock, alarm>>

\* The kick closes the one socket findWsForWorker returns, and may be lost.
DeleteWorker(w) ==
    /\ w \notin deleted
    /\ deleted' = deleted \cup {w}
    /\ disabled' = disabled \cup {w}
    /\ \/ sock' = sock
       \/ \E s \in Candidates(w) : \/ sock' = Without({s})
                                   \/ sock' = [sock EXCEPT ![s] = Forgetful(@)]
    /\ UNCHANGED <<job, reruns, failures, aged, ledger, silence, alarm>>

\* One task key, or all of them.
ClearUnsuitable(w, ks) ==
    /\ w \notin deleted
    /\ failures' = [failures EXCEPT ![w] = [k \in Keys |-> IF k \in ks THEN 0 ELSE @[k]]]
    /\ aged' = aged \ ({w} \X ks)
    /\ UNCHANGED <<job, reruns, ledger, silence, disabled, deleted, sock, alarm>>

----------------------------------------------------------------------------
(* Connections *)

Connect(s) ==
    /\ sock[s].phase = "none"
    /\ sock' = [sock EXCEPT ![s].phase = "handshake"]
    /\ UNCHANGED <<job, reruns, failures, aged, ledger, silence, disabled, deleted, alarm>>

\* Superseding closes the worker's other sockets, best effort: those not in
\* `gone' stay listed, their memory of what they were told deleted.
Authenticate(s, w, gone) ==
    /\ sock[s].phase = "handshake"
    /\ w \notin deleted \cup disabled
    /\ \A t \in gone : Ready(t, w)
    /\ sock' = [t \in Socks |->
                  IF t = s THEN [NoSocket EXCEPT !.phase = "ready", !.worker = w]
                  ELSE IF Ready(t, w) THEN Forgetful(Without(gone)[t])
                  ELSE sock[t]]
    /\ alarm' = TRUE
    /\ UNCHANGED <<job, reruns, failures, aged, ledger, silence, disabled, deleted>>

\* A socket closes: refused, timed out, or gone.
Disconnect(s) ==
    /\ sock[s].phase # "none"
    /\ sock' = Without({s})
    /\ UNCHANGED <<job, reruns, failures, aged, ledger, silence, disabled, deleted, alarm>>

\* The object hibernates or restarts: the in-memory half of a connection is lost.
Hibernate ==
    /\ sock' = [s \in Socks |-> Forgetful(sock[s])]
    /\ UNCHANGED <<job, reruns, failures, aged, ledger, silence, disabled, deleted, alarm>>

Hello(s, state) ==
    LET w == sock[s].worker IN
    /\ sock[s].phase = "ready"
    /\ w \notin deleted
    /\ silence' = [silence EXCEPT ![w] = 0]
    /\ sock' = [t \in Socks |->
                  IF t = s THEN [sock[s] EXCEPT !.state = state, !.hello = TRUE, !.newer = {},
                                                !.crossed = @ \/ sock[s].state = "dispatched"]
                  ELSE IF Ready(t, w) /\ sock[t].hello
                       THEN [sock[t] EXCEPT !.newer = @ \cup {s}]
                       ELSE sock[t]]
    /\ UNCHANGED <<job, reruns, failures, aged, ledger, disabled, deleted, alarm>>

----------------------------------------------------------------------------
(* Messages of an authenticated agent *)

\* j is the job the heartbeat names, or None.
Heartbeat(s, state, j, fetching) ==
    LET r == sock[s]
        w == r.worker
        idle == state = "idle" /\ j = None
        beats == IF idle THEN IdleBeats(r) ELSE 0
        orphaned == beats >= OrphanBeats
        foreign == j # None /\ job[j].owner # w
        starts == j # None /\ state = "busy" /\ ~fetching
                  /\ job[j].owner = w /\ job[j].status = "assigned"
    IN
    /\ r.phase = "ready"
    /\ w \notin deleted
    /\ silence' = [silence EXCEPT ![w] = 0]
    /\ sock' = [sock EXCEPT ![s] =
                  LET beaten == [Heard(r, idle, orphaned) EXCEPT
                                   !.state = state, !.beats = IF orphaned THEN 0 ELSE beats]
                  IN  IF foreign THEN Telling(beaten, j) ELSE beaten]
    /\ job' = IF orphaned THEN RequeueJobsFor({w})
              ELSE IF starts
                   THEN [job EXCEPT ![j].status = "running", ![j].started = w]
                   ELSE job
    /\ UNCHANGED <<reruns, failures, aged, ledger, disabled, deleted, alarm>>

\* Slip: a failed worker's stale success is taken too.
ReadoptableByLast(r, w) == r.status = "queued" /\ r.last = w

\* tryReadopt: the job was taken from this very worker and is still queued,
\* and the worker has not failed it without having started it again.
Readoptable(r, w) ==
    /\ r.status = "queued"
    /\ r.last = w
    /\ ~(r.started = None /\ r.attempts[w] > 0)

JobDone(s, j) ==
    LET w == sock[s].worker
        k == TaskKey[j]
    IN
    /\ sock[s].phase = "ready"
    /\ Held(job[j], w) \/ Readoptable(job[j], w)
    /\ job' = [job EXCEPT ![j].status = "done", ![j].owner = w]
    /\ failures' = IF k = None THEN failures ELSE [failures EXCEPT ![w][k] = 0]
    /\ aged' = aged \ {<<w, k>>}
    /\ ledger' = Mint(j, w, IF j \in ModelFetch THEN "model_fetch" ELSE "completed")
    /\ UNCHANGED <<reruns, silence, disabled, deleted, sock, alarm>>

JobFailed(s, j) ==
    LET w == sock[s].worker
        k == TaskKey[j]
        r == [job[j] EXCEPT !.attempts[w] = @ + 1, !.slipped = @ \ {w}]
        final == \/ Exhausted(r)
                 \/ ~AnyPossibleWorker(j, r, Unsuitable(failures', aged'))
    IN
    /\ sock[s].phase = "ready"
    /\ Held(job[j], w)
    /\ failures' = IF k = None THEN failures
                   ELSE [failures EXCEPT ![w][k] = CountedUp(@)]
    /\ aged' = aged \ {<<w, k>>}
    /\ job' = [job EXCEPT ![j] =
                 IF final THEN [r EXCEPT !.status = "failed"]
                 ELSE [Requeued(r) EXCEPT !.started = None, !.retried = TRUE]]
    /\ ledger' = Mint(j, w, IF r.started \in {w, None} THEN "failed" ELSE "failed_foreign")
    /\ UNCHANGED <<reruns, silence, disabled, deleted, sock, alarm>>

\* A job_done or job_failed for a job of someone else: the sender is told.
Refuse(s, j) ==
    /\ sock[s].phase = "ready"
    /\ job[j].owner # sock[s].worker
    /\ sock' = [sock EXCEPT ![s] = Telling(@, j)]
    /\ UNCHANGED <<job, reruns, failures, aged, ledger, silence, disabled, deleted, alarm>>

JobDoneRefused(s, j) == Refuse(s, j) /\ ~Readoptable(job[j], sock[s].worker)

JobFailedRefused(s, j) == Refuse(s, j)

----------------------------------------------------------------------------
(* The dispatch alarm *)

StaleWorkers == {w \in Workers : silence[w] >= 1}

\* Slip: the sweep asks whether attempts are spent, not whether anyone could run it.
SweepExhausted(jt, reached) ==
    [j \in Jobs |-> IF /\ jt[j].status = "queued" /\ jt[j].retried
                       /\ j \in reached /\ Exhausted(jt[j])
                    THEN [jt[j] EXCEPT !.status = "failed"] ELSE jt[j]]

SweepHopeless(jt, reached) ==
    [j \in Jobs |-> IF /\ jt[j].status = "queued"
                       /\ jt[j].retried
                       /\ j \in reached
                       /\ ~AnyPossibleWorker(j, jt[j], Unsuitable(failures, aged))
                    THEN [jt[j] EXCEPT !.status = "failed"] ELSE jt[j]]

\* The workers with a ready socket in one of the given states.
InState(states) ==
    {w \in Workers : \E s \in Socks : Ready(s, w) /\ sock[s].state \in states}

\* A round that could not read the exclusions knows none of either kind.
Dispatchable(jt, j, w, excluding) ==
    /\ jt[j].status = "queued"
    /\ w \in InState({"idle"}) \ deleted
    /\ IF excluding THEN Eligible(j, jt[j], w, Unsuitable(failures, aged)) ELSE <<j, w>> \in CanRun

\* What assignJobs may claim: any matching of dispatchable pairs.  Which one is
\* the scheduler's business: cost, holds for a busy worker and the limit on the
\* queue's head may all leave a pair out.
Matching(jt, m, excluding) ==
    /\ \A p \in m : Dispatchable(jt, p[1], p[2], excluding)
    /\ \A p, q \in m : p[1] = q[1] <=> p[2] = q[2]

Slipping(j, r, m) ==
    {w \in Workers : <<j, w>> \in m /\ r.attempts[w] >= MaxFailuresPerWorker}

Claimed(jt, m) ==
    [j \in Jobs |-> IF \E w \in Workers : <<j, w>> \in m
                    THEN [jt[j] EXCEPT !.status = "assigned",
                                       !.owner = CHOOSE w \in Workers : <<j, w>> \in m,
                                       !.slipped = @ \cup Slipping(j, jt[j], m)]
                    ELSE jt[j]]

\* `sent' are the sockets whose job frame went out: at most one of each matched
\* worker, none when the send throws.
Pushable(m, sent) ==
    /\ \A s \in sent : \E p \in m : s \in Candidates(p[2])
    /\ \A s, t \in sent : sock[s].worker = sock[t].worker => s = t

\* Each part of a round catches its own errors, and the next goes on without:
\* `stale' are the silent workers whose jobs were reclaimed, `reached' the jobs
\* the sweep got to, `excluding' whether the exclusions could be read.
Round(m, sent, stale, reached, excluding) ==
    LET swept == SweepHopeless(RequeueJobsFor(stale), reached) IN
    /\ alarm
    /\ Matching(swept, m, excluding)
    /\ Pushable(m, sent)
    /\ job' = Claimed(swept, m)
    /\ sock' = [s \in Socks |-> IF s \in sent THEN Dispatched(sock[s]) ELSE sock[s]]
    /\ UNCHANGED <<reruns, failures, aged, ledger, silence, disabled, deleted>>

Rearmed == (\E s \in Socks : sock[s].phase # "none") \/ HasActiveJobs(job')

Tick(m, sent) ==
    /\ Round(m, sent, StaleWorkers, Jobs, TRUE)
    /\ alarm' = Rearmed

\* A round in which statements fail.  One that nothing catches, or the end of the
\* object, leaves the rest to the round that the platform runs again.
TickFaltering(m, sent, stale, reached, excluding) ==
    /\ Round(m, sent, stale, reached, excluding)
    /\ alarm' \in {Rearmed, TRUE}

----------------------------------------------------------------------------
(* Time *)

FallSilent(w) ==
    /\ silence[w] < 2
    /\ silence' = [silence EXCEPT ![w] = @ + 1]
    /\ UNCHANGED <<job, reruns, failures, aged, ledger, disabled, deleted, sock, alarm>>

AgeRecord(w, k) ==
    /\ failures[w][k] > 0
    /\ aged' = aged \cup {<<w, k>>}
    /\ UNCHANGED <<job, reruns, failures, ledger, silence, disabled, deleted, sock, alarm>>

----------------------------------------------------------------------------

Dispatch == \E m \in SUBSET (Jobs \X Workers), sent \in SUBSET Socks : Tick(m, sent)

Falter ==
    \E m \in SUBSET (Jobs \X Workers), sent \in SUBSET Socks,
       stale \in SUBSET StaleWorkers, reached \in SUBSET {j \in Jobs : job[j].retried},
       excluding \in BOOLEAN :
          TickFaltering(m, sent, stale, reached, excluding)

Admin ==
    \/ \E j \in Jobs : CreateJob(j) \/ CancelJob(j) \/ RetryJob(j)
    \/ \E w \in Workers : DisableWorker(w) \/ DeleteWorker(w)
    \/ \E w \in Workers, ks \in {{k} : k \in Keys} \cup {Keys} : ClearUnsuitable(w, ks)

Connection ==
    \/ \E s \in Socks : Connect(s) \/ Disconnect(s)
    \/ \E s \in Socks, w \in Workers, gone \in SUBSET Socks : Authenticate(s, w, gone)
    \/ \E s \in Socks, state \in States \ {"dispatched"} : Hello(s, state)
    \/ Hibernate

Message ==
    \/ \E s \in Socks, state \in States \ {"dispatched"}, j \in Jobs \cup {None},
          fetching \in BOOLEAN : Heartbeat(s, state, j, fetching)
    \/ \E s \in Socks, j \in Jobs :
          JobDone(s, j) \/ JobFailed(s, j) \/ JobDoneRefused(s, j) \/ JobFailedRefused(s, j)

Time ==
    \/ \E w \in Workers : FallSilent(w)
    \/ \E w \in Workers, k \in Keys : AgeRecord(w, k)

Next == Admin \/ Connection \/ Message \/ Dispatch \/ Falter \/ Time

Spec == Init /\ [][Next]_vars

\* The alarm rings again and again, and not every round falters.
FairSpec == Spec /\ WF_vars(Dispatch)
----------------------------------------------------------------------------
(* What must hold *)

\* A job in the hands of the fleet has an owner, a waiting or cancelled one has
\* none, and the clock a running job is billed by was started by its owner:
\* claims, requeues, retries and re-adoptions all keep the three columns
\* status, worker_id and started_at in step.
Ownership ==
    \A j \in Jobs :
        /\ job[j].status \in Owned => job[j].owner # None
        /\ job[j].status \in {"absent", "queued", "cancelled"} => job[j].owner = None
        /\ job[j].status = "running" => job[j].started = job[j].owner

\* The ledger agrees with the jobs: a worker is paid once for a job it finished
\* and for no other, each failure it reported left one failed receipt, and a
\* cancelled receipt is for work under way when its job was cancelled, once.
LedgerAgrees ==
    \A j \in Jobs, w \in Workers :
        LET r == job[j]
            finished == IF r.status = "done" /\ r.owner = w THEN 1 ELSE 0
        IN
        /\ ledger[j][w]["completed"] = IF j \in ModelFetch THEN 0 ELSE finished
        /\ ledger[j][w]["model_fetch"] = IF j \in ModelFetch THEN finished ELSE 0
        /\ ledger[j][w]["failed"] + ledger[j][w]["failed_foreign"] = r.attempts[w]
        /\ ledger[j][w]["cancelled"] > 0 =>
              /\ ledger[j][w]["cancelled"] = 1
              /\ r.status = "cancelled" /\ r.last = w

\* A worker that failed a job MAX_FAILURES_PER_WORKER_PER_JOB times never gets
\* hold of it again, neither by dispatch nor by a late job_done that is
\* re-adopted, and so never finishes it, but for one case: a round that could
\* not read the exclusions claims without them, and gives it the job once more,
\* until it has failed that as well.
ExcludedStaysOut ==
    \A j \in Jobs :
        LET w == job[j].owner IN
        job[j].status \in Owned \cup {"done"} /\ w # None =>
            job[j].attempts[w] < MaxFailuresPerWorker \/ w \in job[j].slipped

\* The fleet spends at most MAX_JOB_ATTEMPTS failures on a job, and one more
\* each time its user asks again.
AttemptBudget ==
    \A j \in Jobs : TotalAttempts(job[j]) <= MaxJobAttempts + reruns[j]

\* While an agent is connected or a job is in a worker's hands the alarm is
\* armed: nothing else would ever reclaim the job or feed the worker.
AlarmArmed ==
    \/ \E s \in Socks : sock[s].phase = "ready"
    \/ \E j \in Jobs : job[j].status \in Owned
    => alarm

\* A job is taken back without a counted failure only from a worker that has
\* been silent too long, or that said ORPHAN_IDLE_BEATS times running on one
\* connection, with no push there in between, that it has nothing to do.  The
\* count is kept by hello and by the push itself, so a hello that crosses a push
\* makes beats from before it count: that exception is the code's.
RecallStep ==
    \A j \in Jobs :
        LET w == job[j].owner IN
        /\ job[j].status \in Owned
        /\ job'[j].status = "queued" /\ job'[j].attempts = job[j].attempts
        => \/ silence[w] > 0
           \/ \E s \in Socks : Ready(s, w) /\ (sock[s].quiet + 1 >= OrphanBeats \/ sock[s].crossed)

RecallJustified == [][RecallStep]_vars

\* A job is worked on by the promise of module JobLifecycle.
Lifecycle ==
    INSTANCE JobLifecycle WITH
        Unpaid <- ModelFetch,
        phase <- [j \in Jobs |-> IF job[j].status \in Owned THEN "held" ELSE job[j].status],
        holder <- [j \in Jobs |-> job[j].owner],
        paid <- [j \in Jobs |-> [w \in Workers |-> ledger[j][w]["completed"]]]

ImplementsLifecycle == Lifecycle!Spec

\* A job of a worker that dropped off is reclaimed, unless the worker comes
\* back or one of its sockets still passes for idle (then dispatch may hand it
\* the very same job again).
StaleJobReclaimed ==
    \A j \in Jobs, w \in Workers :
        Held(job[j], w) /\ silence[w] > 0
        ~> ~Held(job[j], w) \/ silence[w] = 0 \/ w \in InState({"idle"})

\* "Could anyone still run it" is asked again every tick: a retried job that no
\* worker could ever run any more is wrapped up, not left in the queue.
HopelessWrappedUp ==
    \A j \in Jobs :
        LET hopeless == /\ job[j].status = "queued" /\ job[j].retried
                        /\ ~AnyPossibleWorker(j, job[j], Unsuitable(failures, aged))
        IN  alarm /\ hopeless ~> ~hopeless
============================================================================
