# ComfyFed: specifications, model checking and proofs

ComfyFed shares the GPUs of a group: users submit ComfyUI workflows to a cloud
service, the service hands each job to the agent of a worker machine, and a
signed receipt records the work. This directory holds TLA+ specifications of
that system, the TLC runs that check them on small instances, and theorems that
the TLA+ proof system checks for all instances.

## The system

The service is one Cloudflare Worker (`src/cloud/src`): HTTP routes, one Durable
Object (the *Hub*), a D1 database and an R2 bucket. The agents
(`src/agent/comfyfed_agent`) are Python programs, one per machine, each with a
WebSocket to the Hub. The web console (`src/web`) only calls the routes.

| component | state | operations | interacts with |
|---|---|---|---|
| Hub, `do/hub.ts` | agent and panel sockets with a durable attachment each (phase, worker, state, idle beats, time of the hello), an in-memory part each (what it was told), the alarm | handshake, hello, heartbeat, job_done, job_failed, receipt_ack; /internal cancel, kick, wake, update; the 5 s tick | agents by messages, D1 by statements, routes by internal calls |
| job lifecycle, `core/dispatch.ts`, `db/queries.ts` | the rows of `jobs`: status, worker_id, last_worker_id, started_at, attempts | claim, requeue (stale, orphaned, retry), re-adopt, cancel, mark running, done, failed | called by the Hub and the routes |
| failure accounting, `core/retry.ts` | `jobs.attempts`, `worker_task_failures` | count, exclude, expire, clear | Hub, assessment |
| assessment and scheduling, `core/assess.ts`, `core/scheduler.ts` | none (pure) | verdict of a pair, cost matrix, holds, assignment | `assignJobs` |
| receipts, in `do/hub.ts` | rows of `receipts` | mint for done, failed, cancelled; counter-signature | agents |
| split jobs, `core/split.ts` | parent and child rows | plan, partition, derive the parent, cascade | every transition of a child |
| routes | sessions, tokens, settings, workers' flags | REST for the console, the panel's ComfyUI API, agents' uploads | D1, R2, Hub |
| agent runner, `runner.py` | running jobs by id, connections, held completions | connect, heartbeat, run, report, cancel, shut down | Hub, ComfyUI, fetcher, peers |
| peer transfer, `core/peer.ts`, `peerserve.py`, `natmap.py` | grants, served bytes, bookings, hash rows; the router's mapping | grant, serve, report, book, probe, map, renew | agents, routes, routers |
| accounts | users, sessions, API tokens, nonces | set up, log in, issue, revoke | routes |

Nothing in the Hub holds a lock. A handler awaits D1 between its statements and
other handlers run meanwhile; D1 gives single-statement atomicity only. Workers
come and go without closing their sockets, the object may be evicted at any time,
and the calls from routes to the Hub are fire-and-forget. What must come out
right all the same:

- a job has one owner at a time, ends once, and is paid once, to whoever did it;
- a job is not lost: whatever happens to its worker it is taken back, and not
  before there is cause; a job no worker can run is ended, not left waiting;
- failures are counted, a worker that failed too often stays out, and the fleet
  does not spend more than the budget;
- the alarm that drives all this is armed while there is something to drive.

`PROJECT.json` lists every component and the hazards of the code, each at its
line, with the properties that cover it.

## Modules

One module per component that keeps state, pure algorithms beside the module that
uses them. A module is translated from the source its header names; `PROJECT.json`
maps each definition to its lines.

| module | what it models |
|---|---|
| `JobLifecycle` | the abstract promise for one job: queued, held by one worker, ended once, paid once; only a user's retry leaves "failed", nothing leaves "done" and "cancelled" |
| `Hub` | the Durable Object with the tables it drives: one action per route, message handler, connection event and tick of the alarm |
| `OwnedGate` | what `Hub` takes as one step: the handlers that move one job, database statement by statement, overlapping at their awaits and breaking off anywhere |
| `SplitPlan`, `SplitFamily` | which workflow may be split and what a child gets; parent and children, the derivation, the cascade and its receipts, statement by statement |
| `PanelEvents` | what the panels of a job's owner are told, and the download stage kept in memory |
| `Stats` | what a completion teaches of worker and kind, and the replay of older receipts |
| `FetchJobs` | the panel's download button: jobs that only fetch a model, their signed entry and the manifest a tick builds anew |
| `Fit`, `Assignment`, `Scheduler` | the verdict on a worker and a job; the matching algorithm; the tick with its window, holds, starved tail and claims |
| `Agent` | the agent's event loop: connections, the task of each job, its prompt in ComfyUI, cancellation, updates, shutdown |
| `Fetch` | one model file being fetched, chunk by chunk, from peers and the web |
| `Sharing` | learning a hash, granting a file, serving and reporting it, booking it |
| `PortMapping`, `PeerHealth` | the router's mapping and the address it yields; the hub's verdict on that address |
| `ComfyUpdate`, `AgentProcess`, `Registrations` | a ComfyUI update with its roll-back; the process with stop, update and supervisor; the entries of agent.json |
| `Accounts`, `Backoff`, `SignedRequests` | accounts, sessions, tokens and panel sockets; the wait after failed sign-ins; nonces and register tokens |
| `Artifacts`, `Files` | a job's result files with counter, tokens and sweep; a user's files, inputs and quota |

The `MC*` modules hold the instances. Components that share no state are checked in
one run: the initial state chooses a part and the others stay at rest, so a run
explores their sum and not their product. `HubProofs`, `SceneProofs`,
`JobProofs`, `AgentProofs`, `AccessProofs`, `MachineProofs` and `StorageProofs` hold the theorems,
`Sums` the lemmas about sums over finite sets that two of them need.

What the modules of the hub's side have in common: a request or handler is a
record with a program counter, one action per await; D1 gives single statements
atomicity and no more; any request may die between two steps. On the agent's side a
step is what runs between two awaits, threads take their own steps. What is outside
(routers, ComfyUI, git, supervisors, the network, users) takes any step it can at
any time, limited by a counter that bounds faults. Variables marked *history* are
not in the code; they record that something happened (two handlers overlapped, a
handler broke off) that a property makes an exception for, and decide no step.

### How `Hub` corresponds to the code

| variable | code |
|---|---|
| `job[j]` | the row of `jobs`: `status`, `owner` = worker_id, `last` = last_worker_id, `attempts` = the failures in the attempts JSON, `retried` = retry_count > 0 |
| `job[j].started` | started_at: NULL is `None`, otherwise whose heartbeat stamped it |
| `job[j].slipped` | history: the workers given the job, though excluded from it, by a round that could not read the exclusions |
| `reruns` | how often a user retried the job; it bounds the model only |
| `failures`, `aged` | `worker_task_failures` up to the threshold, and the records whose updated_at is past UNSUITABLE_TTL_DAYS |
| `ledger` | receipts counted by job, worker and kind; a failed receipt measured from another worker's start is a kind of its own |
| `silence` | age of last_seen: fresh, past STALE_SECONDS, past POSSIBLE_WORKER_STALE_DAYS |
| `disabled`, `deleted` | flags in `workers` |
| `sock[s]` | a socket `getWebSockets()` lists: attachment phase, worker, state, idleNoJobBeats, and, for helloAt, `hello` and the set `newer` of sockets of the same worker that helloed after it; `told` is the in-memory cancelledJobsSent |
| `sock[s].quiet`, `.crossed` | history: the idle heartbeats sent since the last job frame or recall, and whether a hello came between that frame and the next heartbeat |
| `alarm` | an alarm is set |

| action | code |
|---|---|
| `CreateJob`, `RetryJob` | POST /api/jobs, POST /api/jobs/:id/retry, with the wake-up that may be lost |
| `CancelJob` | POST /api/jobs/:id/cancel and the Hub's /internal/cancel: the update, the cancelled receipt, job_cancelled, the alarm |
| `DisableWorker`, `DeleteWorker`, `ClearUnsuitable` | the worker routes; the kick of a deleted worker closes one socket, or is lost |
| `Connect`, `Authenticate`, `Disconnect` | the upgrade, the handshake with its best-effort closing of older sockets, any end of a connection |
| `Hibernate` | eviction: in-memory state is gone, attachments stay |
| `Hello`, `Heartbeat` | with the running transition, the idle count and the orphan rule, and job_cancelled for a job of someone else |
| `JobDone`, `JobFailed`, and the refused forms | the gates, re-adoption, counting, requeue or end, receipts |
| `Tick` | requeueStale, sweepHopelessRetries, assignJobs, the pushes and the re-arm in alarm() |
| `Falter` | the same with statements that fail: some silent workers' jobs not reclaimed, some jobs not swept, the exclusions not read (2675-2686: the round goes on with none), claims or pushes left out, or an exception nothing catches, after which the platform fires the alarm again |
| `FallSilent`, `AgeRecord` | time, as far as the code compares it with anything |

A handler is one step, so nothing here is about two handlers that cross (a heartbeat
that writes back an attachment read before a push is not seen). Agents are open: any well-formed message may come over an
authenticated socket at any time, so what holds here needs nothing of the agents.
The scheduler is open too: a round may claim any matching of eligible pairs, so
what holds does not depend on costs, holds or the limit on the queue's head. A
push may reach any socket `findWsForWorker` may pick, or none. Jobs are unsplit.
A hello always counts as protocol 2 or later, which every agent in this
repository speaks, and a message always carries its state. Whether a recall is
justified is judged by what the connection sent, not by the counter the code keeps: the
two differ after a hello that crosses a push (1438 and 2755 keep the count, and the hello
takes back "dispatched"), which `RecallJustified` excepts. The agents of this repository
say hello once per connection, before any heartbeat (runner.py:2834), and never meet it.

### How `OwnedGate` corresponds to the code

`row` is the job's row as above. `hand[h]` is one call of a handler: `pc` names the
statement it is about to issue ("ready" before it starts, "over" after its last,
"gone" when an error or an eviction ended it), `worker` whose message it serves or
from whom a cancellation takes the job, `attempts` the JSON a failure read, `ran`
the `wasRunning` of a cancellation. `held` is history.

| actions | code |
|---|---|
| `RunCheck`, `RunWrite` | a busy heartbeat: `applyOwnedTransition` and `updateJobRunning` |
| `DoneCheck`, `DoneWrite`, `DonePay` | `handleJobDone`: gate, `updateJobDone`, the receipt |
| `DoneForeign`, `DoneJudge`, `DoneReadopt`, `DoneAgain` | its way through `jobNotOwnedBy` and `tryReadopt` |
| `FailCheck`, `FailCount` | `recordFailedAttempt`: the read and the write of the attempts |
| `FailRetry`, `FailRetryWrite`, `FailEnd`, `FailEndWrite`, `FailPay` | the requeue, or the end, and the receipt |
| `CancelLook`, `CancelCheck`, `CancelWrite`, `CancelPay` | `/internal/cancel`: its own read, `cancelJob`'s read and write, the receipt |
| `Claim`, `Requeue`, `Sweep`, `Retry` | the single statements that check and write at once |
| `Abandon` | an exception `webSocketMessage` logs, or an eviction |

Whether any worker could still run a failed job is left open, as are the agents and
the alarm. The job is a prompt and unsplit, and a message is handled by one handler,
once.

### The other modules

- **`SplitFamily`**: `parent`, `kid` are rows, `planner` the tick's batch, `hand[h]` a
  handler that moved a child and then reads the parent (`WalkRead`), reads the
  children and writes the parent back (`Refreshing`), and cancels what is left
  (`WalkNext`, `Mint`). A child's own check and write is one step here, as `OwnedGate`
  takes it apart. The sweep of hopeless queued children is left out.
- **`PanelEvents`**: `relay[h]` is a handler between a move and its frames; `beat`
  the heartbeat with a download stage; `stage` is `fetchProgress`.
- **`Stats`**: `table` is worker_job_stats, `speed` the column speed_index; a lesson is
  four statements. Seconds are whole; a receipt's seconds are the run's.
- **`FetchJobs`**: one model of one size; the tick matches one job; an inventory or
  a job's end is one step; an address that is refused or does not answer ends the
  request (`LookUp`).
- **`Scheduler`**: `due` is the alarm; a tick selects, judges, holds and matches in one
  step, the claims are single statements with cancellations in between, the pushes follow
  when all are claimed, and an error cuts the round short (`BreakOff`). `says` is the state
  in a worker's socket attachment, which alone decides who is idle: a claim that is never
  pushed, or a heartbeat that overtakes one, leaves a worker that holds a job idle. `warm`
  is its warm_models; `matched` is history. One worker has one socket; pausing, and
  a write of warm_models that fails, are left out.
- **`PeerHealth`**: a check writes the verdict (`Record`) and tells the agent (`Tell`) in
  two steps, and may die before, between and after its probe (`LoseCheck`).
- **`AgentProcess`**: `install` are the tasks of commanded updates, one of which may be
  asking and one installing; commands and jobs may also come during the wind-down
  (2539-2544 and 1842 do not ask), where a job is `late`: shutdown() may not wait for it.
- **`ComfyUpdate`**: a deferred request is taken back only by the poll that carries it out
  (2712): a command that starts at once leaves it, and the update runs a second time.
- **`Agent`**: `task[t]` is the asyncio task a job message started, `handle[h]` the
  JobHandle, `prompt[t]` ComfyUI's view, `stop[t]` the thread that takes it off.
  A broadcast is one step; one `update_agent` at a time.
- **`Fetch`**: chunks are good or bad; the offset is the length of the .part file; a
  cancelled asyncio task is a crash.
- **`Sharing`**: `serve` is _GrantTracker, `due` and `posting` the reporter thread,
  `booking` the requests the platform handles.
- **`Artifacts`**: `request[r]` goes through the bucket and database operations of an
  upload (whole, under a token, by presigned URL), a deletion or a listing; a refused body's
  deletion may fail and is passed over; what goes straight to the bucket may be anything;
  `sweep` is the retention cron. **`Files`** does the same for staging, userdata and inputs.
- **`Accounts`**: `req[r]` is a request of routes/auth.ts or users.ts. A password is
  not kept: a request that needs one has it or is refused.

## Runs

Run `tlc -config X.cfg M` with the module M that `PROJECT.json` names. All
configurations say `CHECK_DEADLOCK FALSE`: with the bounds reached and nobody
connecting the system may rest.

| run | checks |
|---|---|
| hub (`MCHub.cfg`) | scene "retries": `ExcludedStaysOut`, `AttemptBudget`, `Ownership`; scenes "again" and "batch": `InOtherScenes` (the same, the alarm stays armed, receipts agree); in all: `RecallsJustified`, a job is only taken back with cause |
| live (`MCHubLive.cfg`) | `TypeOK`, `LedgerAgrees`, the refinement `ImplementsLifecycle`, and under fairness `StaleJobReclaimed`, `HopelessWrappedUp` |
| job (`MCJob.cfg`) | gate: `QueueSound`, `PaidHadIt`, `GateSound`; family: `SplitSound`, `FamilyAgrees`, `CancelledPayIsDue`; both: `EndsAreFinal`; panels: `PanelsInStep`; stats: `StatsSound`; downloads: `FetchJobsSound` |
| agent (`MCAgent.cfg`) | loop: `NoPromptLeftBehind`, `LoopSound`; fetch: `FilesAreWhole`; sharing: `SharingSound` |
| agent_live (`MCAgentLive.cfg`) | `CancelTakesEffect`, `FetchEnds`, `ReportSettled` |
| sched (`MCScheduler.cfg`) | `RoundSound`: `solve` finds a best matching on more than five thousand matrices, a download pays off, the starved go first; `JobServed`, with a job that is held for a busy worker |
| access (`MCAccess.cfg`) | `AccountsSound`, `LockoutSound`, `SignedOnce` |
| storage (`MCStorage.cfg`) | `ResultsKept`, `FilesSound`, `MoveLosesNothing` |
| machine (`MCMachine.cfg`) | `MappingSound`, `AddressSound`, `UpdateSound`, `ProcessSound`, `RegistrationsSound` |
| sched_blocked, stop_final, registration_lost | a claim each that the code does not keep (below) |

### Bounds, and why they are enough

- **hub.** Two workers suffice for a job to pass from one to another and back
  (re-adoption, exclusion, a start that is someone else's), two sockets for a
  reconnect beside a corpse, two jobs for a round that claims more than one.
  `MaxFailuresPerWorker` and `OrphanBeats` have the code's value 2, except in *live*
  where a worker may fail three times so that its record passes the threshold.
  `UnsuitableThreshold` is 1 in *hub*, so that the first failure excludes, and the code's
  2 in *live*; `MaxJobAttempts` is 2 and 4 where the code says 6, which two workers
  reach. The constraint `Bounds` keeps flags out of *hub* (*live* has them), ageing and
  long silence to the scene with reconnections, a hello that crosses a push to the
  scene with two jobs, and job_cancelled to the scenes of one worker.
- **job.** A handler serves one message; three handlers, at most two of which
  overlap: a stale one between two of the next owner. A batch of three images over
  two children is uneven. The cut is checked on all workflows of three nodes. One
  panel, two relays; two workers and two kinds for the statistics, with histories on
  either side of the replay's limit; two presses of the download button.
- **agent.** One platform and two job messages, of one job or of two; one fault.
  A file of three chunks has a first, a middle and a last. One grant, two workers.
- **sched.** Four jobs and two workers: a job only the fast worker that comes and goes
  can run, one nobody can run, one that is refused, and one that is held for the fast
  worker while that has just begun the first: holds strike, and end when the
  first takes longer than twice what was expected (`Overdue`). Two jobs held for one
  worker, the promised seconds of the second, do not come up.
- **access.** Three requests, at most two of which overlap (`LastAlone`). A tick of the signed
  requests is a minute (`Skew` 2, `Ttl` 5); the backoff has a window of six.
- **storage.** Two requests at a time; for result files three in all and two names, for
  a user's files two in all, three saved keys (two moves of one file need two
  destinations) and one staged one. The third is left out
  where something already happened that the counter cannot follow, unless both in
  progress carry one token (`TwoAreEnough`): what is still checked there needs no more. **machine.** Two
  platforms, two faults of the router; three faults of an update or of a file, the last
  of which finds no second registration under way (`LastAlone`).

Symmetry is only declared over model values no constant tells apart, and never in a
run with liveness.

### Fairness

`Hub`: weak fairness of `Dispatch`: the alarm is set by the object itself and the
platform fires a set alarm, and not every round falters. Nothing is assumed of users,
agents, connections or time. `Scheduler`: the alarm fires while jobs are queued, time
passes, workers send heartbeats, a round claims and pushes what it matched, a job a worker
was told of starts, and one that a `Reliable` worker has started ends (strong fairness, as a worker may
come and go in between); of other workers it is not assumed that what they run ever ends.
`JobServed` has a premise besides: rounds that are cut short and jobs taken back
(`Mishap`) cease some time, as each may take the very job. `Agent`, `Fetch`, `Sharing`: tasks and threads that can
run do, requests end by a timeout, time passes; nothing of the network, the
platforms or ComfyUI.

### What the code does not keep

Three runs end in a counterexample to something the repository says:

1. `JobServed` (sched_blocked): as many jobs nobody can run as a tick looks at fill
   the head and the starved tail, and the job behind them is never looked at.
2. `StopIsFinal` (stop_final): a stop taken while a commanded update installs ends
   with exit code 75, and the supervisor starts the agent again.
3. `LossIsInstant` (registration_lost): agent.json is read, ComfyUI is probed for
   seconds, and the file is written as it was read.

What else came up while modelling, and is in the models as the code has it:

- *Hub.* A round that cannot read the exclusions claims as if there were none, so a worker
  may be given a job it is excluded from once more (`slipped`; hub.ts:2675-2686). After a push only the socket pushed to is marked busy; another listed
  socket of the worker still says idle and the next tick may push again. A requeue
  keeps started_at, so the next worker's fetch failure can be measured from the
  previous start. Dispatch does not look at the disabled flag.
- *Overlapping handlers* (`mixed` in `OwnedGate`). The updates to running, done, failed and
  cancelled name the row by id only: a heartbeat checked while the job was assigned
  may turn a done job back to running; a late reporter may finish and be paid for the
  next owner's job; that a cancelled job ran and who ran it come from two reads.
- *Families* (`overlapped`). A stale refresh can bring an ended parent back.
- *Panels.* Entries of a cascaded child's download stage are never deleted; a
  heartbeat that crosses the end of the job sets its stage again.
- *Statistics.* A completion before the first tick makes the replay skip for good;
  overlapping completions lose a sample.
- *Downloads* (`crossed`). The look for a download under way and its insertion are two
  statements; two presses, or a retry, give two downloads of one file.
- *Storage* (`exact`, `stale`, `late`, `revived`). The byte counter cannot follow two
  requests on one object, a request that dies after its write, an object put again
  by presigned URL, or a refused body whose deletion fails (jobs.ts:1004 and 1012 pass over
  it: the body stays, uncounted, and the replaced file's bytes are subtracted); two columns are written whole from an older reading; an upload under
  a token does not look again whether the job is still its worker's; a retry during the
  sweep can lose the job.
- *Files* (`squeezed`, `halved`). Two moves of one file to two names that overlap both read
  the source and leave two copies, neither of them weighed: the total is not unchanged, as
  the comment at comfyapi.ts:1127 has it of one move. (The attempt to prove `QuotaKept` found that
  one, `MovedToo`.) Two writes weighed side by side, or inputs stored and not
  yet counted, pass the quota together; so does a single save whose file is deleted after
  it looked at its size, as the bytes are taken off twice (comfyapi.ts:1199-1205).
- *Moves* (`disturbed`). Two overwriting moves that cross, each to the other's source, lose
  both files (comfyapi.ts:1141-1143).
- *Access* (`raced`, `halfdone`, `stray`). Two changes of roles that overlap may leave no
  administrator, or a panel of a disabled account open: one that read the account as
  disabled writes disabled again after another enabled it and somebody signed in, and as
  it did not see itself disabling (users.ts:259) it bumps and closes nothing. (The
  attempt to prove `PanelsAreCurrent` found that one.) A request that dies between disabling and the epoch's bump leaves
  the session; a panel being accepted may miss its closing.
- *Machine* (`misplaced`, `missed`, `underway`, `damaged`, `stray`, `unsaid`). A check that
  spans a change of the address writes its verdict over the new one's; one that dies between
  the row and the message, or spans a hello, leaves the agent untold until it
  reconnects. An update decided or installed when a stop is taken, or commanded during the
  wind-down, turns the stop into a restart. An update cut off between checkout and restart makes the
  next one say "already the latest". A renewal that lands after the agent gave up
  waiting leaves a mapping on the router; news held back by the throttle of forced
  reconnections leave platforms with the earlier address.

## Proofs

Each theorem holds for all values of the constants that its named assumption allows.

| module | theorem | statement | from |
|---|---|---|---|
| `HubProofs` | `TypeCorrect` | `Spec => [](TypeOK /\ Attached)` | `ConstantsAssumption` |
| | `OwnershipHolds` | `Spec => []Ownership` | |
| | `ExclusionHolds` | `Spec => []ExcludedStaysOut` | |
| | `LedgerHolds` | `Spec => []LedgerAgrees` | |
| | `BudgetHolds` | `Spec => []AttemptBudget` | |
| | `AlarmHolds` | `Spec => []AlarmArmed` | |
| | `RecallHolds` | `Spec => RecallJustified` | |
| | `Refinement` | `Spec => ImplementsLifecycle` | |
| `SceneProofs` | `ScenesHold`, `ScenesRecall` | `MCSpec => []InOtherScenes`, `MCSpec => RecallsJustified` | also `ScenesAssumption` |
| `JobProofs` | `QueueSoundHolds`, `PaidHadItHolds` | `Spec => []QueueSound`, `Spec => []PaidHadIt` | `GateAssumption` |
| | `GateSoundHolds` | `Spec => []GateSound` | |
| | `SplitSoundHolds` | `MCSpec => []SplitSound` | `FamilyAssumption` |
| | `FamilyAgreesHolds` | `MCSpec => []FamilyAgrees` | |
| | `CancelledPayIsDueHolds` | `MCSpec => []CancelledPayIsDue` | |
| | `EndsAreFinalHolds` | `MCSpec => EndsAreFinal` | both |
| | `PanelsInStepHolds` | `MCSpec => []PanelsInStep` | `PanelsAssumption` |
| | `StatsSoundHolds` | `MCSpec => []StatsSound` | `LearningAssumption` |
| | `FetchJobsSoundHolds` | `MCSpec => []FetchJobsSound` | `FetchJobsAssumption` |
| `MachineProofs` | `MappingSoundHolds` | `Spec => []MappingSound` | `MappingAssumption` |
| | `AddressSoundHolds` | `H!Spec => []AddressSound` | |
| | `UpdateSoundHolds` | `C!Spec => []UpdateSound` | |
| | `ProcessSoundHolds` | `P!Spec => []ProcessSound` | |
| | `RegistrationsSoundHold` | `R!Spec => []RegistrationsSound` | `EntriesAssumption` |
| `AccessProofs` | `AccountsSoundHolds` | `Spec => []AccountsSound` | `FirstIsUser`, `Bounds`, `NoneIsOther`, `TokensAreOther` |
| | `SignedOnceHolds` | `S!Spec => []SignedOnce` | `S!TimesAssumption` |
| | `LockoutSoundHolds` | `B!Spec => []LockoutSound` | `B!TimesAssumption` |
| `AgentProofs` | `LoopSoundHolds` | `Spec => []LoopSound` | `AgentAssumption` |
| | `NoPromptLeftBehindHolds` | `Spec => []NoPromptLeftBehind` | |
| | `FilesAreWholeHolds` | `F!Spec => []FilesAreWhole` | `FetchAssumption` |
| | `SharingSoundHolds` | `S!Spec => []SharingSound` | `SharingAssumption` |
| `StorageProofs` | `FilesSoundHolds` | `Spec => []FilesSound` | `FilesAssumption` |
| | `MoveKeeps` | `Spec => MoveLosesNothing` | |
| | `ResultsKeptHolds` | `A!Spec => []ResultsKept` | `ResultsAssumption` |

**`HubProofs`.** `TypeOK` is inductive together with `Attached` (an authenticated socket
has a worker): without it a message could be taken from a socket whose worker is
`None`. Lemma `EveryStep` then says what any step does to one job: it is one of ten
*row relations* (submitted, cancelled, retried, started, done, failed, recalled,
swept, handed on, or through a whole dispatch round) or leaves row and receipts
alone. Most of the other invariants are proved about the row relations only and never
look at sockets again; the alarm and the recalls need both.

- `Ownership` and `LedgerAgrees` are inductive given the types.
- `ExcludedStaysOut` is not: re-adoption consults `last`, so what must be carried
  along is that whoever held the job last either may hold it, was given it by a round
  without exclusions (`slipped`), or has failed it with its start cleared (`Tried`, made of
  `HolderTried` and `LastTried`).
- `AttemptBudget` bounds a sum over the workers (`Sums`); `SumOneMore` says what one
  counted failure adds, and `StepAffords` that it is afforded.
- `AlarmArmed` is inductive given the types: every step but the tick keeps the alarm, and
  either ends no more live work or wakes the hub for what it adds (`Undemanding`, one lemma
  per group of handlers); the tick re-arms for what it leaves.
- `RecallJustified` is about what a step may do: only the heartbeat's orphan rule and the
  requeue of the stale take a job back uncounted. The code's count must agree with what the
  connection sent (`AllCount`): between pushes the counter is no more than the idle beats
  heard since the last one, unless a hello crossed it. It needs that an idle count is more
  than one, `OrphanBeats \in Nat \ {0, 1}` (the code says 2): with one, a worker's first
  idle beat after a push would cost it the job that is on its way.
- `Refinement` maps each row relation to a step of `JobLifecycle` or to a stutter.

**`SceneProofs`.** The scenes of *hub* are three instances of one module, and a lemma of `HubProofs`
holds of each (`Again!HubInvKept`, `Batch!HubInvKept`), since `ScenesAssumption` says that the
instances' constants satisfy what it assumes. What is left to prove is that a state
belongs to one scene only and a step keeps it there (`ScenesApart`, `ScenesStep`).

**`JobProofs`.** Of the job's row, the invariant `IInv` has a part for the handlers, one for the row and
one for the receipts. A handler carries a promise with its place (`Sound`): where it is
about to finish the job or to pay for it, it serves a worker who had the job. That
is what lets the write, whose only condition is the job's id, and the payment after it
be judged without knowing what happened since the check. `Serial` says what holds
besides while no two handlers were ever under way together: the one that is stands on
what it read, and the books (`Books`) are balanced but for its own payment.
`Capped` counts: no more failures than messages.

Of a family, `FamilyInv`. As long as no two handlers overlap, one is at work (`OnePays`),
what it writes back is of a parent that has not ended (`WritesLive`), and each of its points
says how far the family is from agreeing (`OnTheWay`): what it read of parent and children is
still so, the children it is about to cancel are all that is left. So a parent is what its
children make of it unless a handler is at work or one broke off, which is `FamilyAgrees`;
and the one that collected a child to pay for moved that child itself, and nobody else
did, which is `CancelledPayIsDue`. `SplitSound` is about the plan. The children's
parts follow one another without gap or overlap for every number of images and of children
(`PartitionCovers`), as shares differ by one; that the cut feeds every sampler and output follows
by the number of links on the way: a chain to the source is one to the cut in the child's
workflow. There `FamilyAssumption` enters: whoever takes a latent of the source takes
its one output, and nothing in a workflow has the name of the node a cut adds.

Of the panels, `PanelsInv`. While no two handlers cross, one is at work (`OneAtATime`), and
at each of its lines a panel shows what the job is or is about to be told (`Follow`). Whether
handlers cross or not, an ended job's panels were told so, or a handler that has just read or
posted it will (`EndTold`), and nobody was told of an end that did not come (`DoneTold`). A
download stage is that of a job a worker holds, of a child a cascade took away, or of one
whose handler is about to delete it (`Staged`).

Of download jobs, `DownloadsInv`. Unless two presses crossed, who is between its look and its
insertion is alone and there is no live download (`Alone`). What goes out in a frame has
the hash the platform knew, if it knew one (`KnownWins`). As long as no file is
removed by hand, what is listed lies on the disk, and a frame without an entry goes to a worker
that has the file (`There`), so that a job is only done where the file is.

Of what completions teach, `LearnInv`. No row counts more runs than its key has receipts and
handlers that have taught and still owe theirs, and neither does a row that was read or is
about to be written (`NoneTwice`); it holds however handlers overlap, until one dies. While
completions follow one another (`InOrder`), nobody learns before the flag is set but
the replay (`Before`), and after it one handler at a time, of which `Reached` says, at
each of its statements, what the tables hold of what a replay of the receipts would yield
(`After`). That compares a table with a recursion over a sequence, which is done with a few
lemmas: the recursive function exists (`ReplayExists`, `ReplayIs`), replays of what begins
alike agree so far (`ReplaysAgree`), one receipt more teaches one run more or nothing
(`ReplayAppends`), and what is yielded is well formed (`ReplayLearns`); each by the least
number at which it fails. `LearningAssumption` has what a new worker is taken for in the range
that the code clamps speeds to, tells receipts of before the backfill from later
ones, and takes finitely many handlers.

The run of these parts chooses one in its initial state; `PartsAreSpecs` says that a behaviour of
the run is one of each part, executed or at rest, which carries the results over.

**`MachineProofs`.** `UpdateSound` needs `Undamaged`: for each step of the update, what is
checked out, installed and serving while nothing unrepairable happened.
`ProcessSound` needs `StopHeard`: which of the file, the flag and the loop carries a stop
at each stage. `AddressSound` needs `Placed`: unless an address was replaced under a check,
every check is of the address in force and so is the verdict; and `Straight`: unless
something was missed there is one check at most, which relies on what it read (`Relies`), and
what the connection was shown is the verdict in force but for what that check still owes
it (`Owes`). `RegistrationsSound` needs what each of the two processes has
read and may write over (`RegKeys`) and why an entry may leave (`RegLeaving`).
`MappingSound` needs `Accounted`: every mapping of ours on the router is
in the agent's hands, in a thread's result, or known to be stray.

**`AccessProofs`.** No credential, panel or request is ahead of its account's epoch
(`Behind`, `Grounded`), which is what makes a bump end all of them. What a change struck
is behind the epoch unless the bump is still to come (`Struck`, `Bumping`), and the
same holds of a panel that is about to be accepted (`Accepting`). `Undisturbed` is about
the guard of the last administrator: a change that overlaps no other stands on the row
it read, and past the guard an administrator remains besides its target.

A nonce is kept at least until no copy of its request can be under way
any more (`Remembered`, `Over`): a copy is weighed within `Skew` of its timestamp and
served within `MaxStall`. `Ttl >= 2 * Skew + MaxStall` is the assumption; the code has
300 s and 120 s, which leaves a request 60 s.

Of failed logins, `LoginInv` says why the budget cannot be beaten by letting old failures
leave the window. While logins come one at a time, rows follow one another in time, and who
is past the backoff would still be let through by the rows there are now (`StillMay`). Then
failures in a row, first to last within one window, have taken as long as their waits
add up to (`Paced`): the next one saw all of them, no success between hides any, and so
waited for their number (`NextPaced`, `TakesMore`). The waits are powers of two; that their
recursion defines a function, and that it grows, is `DoubledIs` and `DoubledGrows`.

**`AgentProofs`.** `LoopInv` adds to the types and `UpdateNotForgotten`: one task at a time
holds the machine (`OneHolder`), a handle that says it runs is the holder's before its
wind-down (`RunningIsHeld`) — so an update that is put off because a job runs has
a job whose end will wake it — and, while no job was pushed twice, each task's handle
is its own and listed (`OwnHandle`) and `Stage`: at each of its lines, whether the
prompt it posted is known to the handle or was missed, and how far a request to stop
it has come. The second look of the wind-down is what makes the handle's `asked`
agree with its `prompt` before the task may end. A job pushed twice shares a handle
between two tasks, and the first to end resets it, which is why `repushed` excepts it.

Of the files that agents fetch from one another, `FetchInv`: whatever list a grant brings, what is kept of a `.part` file is
one of its prefixes and no longer than the file (`CommonPrefixIs`, `VerifiedIs`); while a
grant is held an address of it is left, and stalls to spare. `SharingInv`: what a
reporter has in hand is its own and not yet reported (`InHand`), it waits for one request
at most (`Awaited`, `Handled`), and of the requests for a grant one at most holds the claim, with
no receipt written (`Claimed`): so a late request, a second report and an undone claim
cannot each write one. `Steady` is why a receipt is complete: with a report under way
nothing is being served, and all that is on its way for the grant says the same number,
unless `late` says otherwise. A worker whose report is recorded agrees with the row or has
marked it (`RowsTold`).

**`Sums`.** What a fold over a finite set adds up (`Totals`): that the recursive
function exists (`SumsExist`), that the fold of the community modules yields it
(`FoldIsTotal`), that any element may be taken out first (`TakeOut`), how it changes with one
element (`TotalsChange`), that it is monotone and additive. Induction is by a least
counterexample, over numbers or in the well-founded order of finite sets.

**`StorageProofs`.** `FilesInv` adds to the quota what makes a write fit. A submission knows
its row, and no other submission has it (`Submissions`); a row is charged unless
the charge is still to come (`Charged`), so that what is kept of inputs is at most what the
quota counts (`InputsAreCharged`). A request nobody disturbed since it read has room for
what it brings (`Room`), and a move has the file where it read it or where it goes
(`MoveStands`). Each write disturbs everybody else, so of a write only its own sum is
to be followed (`WriteStep`).

Of result files, `ResultsInv` says what holds in the middle of requests. What is charged
for is a figure per file (`Standing`): the size of what is stored, except where a
request in progress has changed the object and not yet booked it (`Owed`); there it is the size
the request read before. The counter is the total of these figures (`Balanced`), so a
step moves one figure by what it books (`TurnBalanced`), and at rest the figures are the
sizes. It needs that no two requests race for an object (`Apart`), what a request knows
of its object (`Knows`), and an exception while all files are being deleted, where nobody
else is at work (`Clearing`). In the same way an object is what the row vouches for, or
an upload is about to vouch for it (`Vouched`); a listed file is stored, or somebody is
about to take it off the list (`Listed`); and a token past its claim is used and never
another's (`TokensStand`).

The proof modules extend the MC modules where the run checks an instance, so that a
theorem is about the very definition the run checks; the MC modules then take the
instance's parameters as constants and `ASSUME` what the theorems need, which TLC
evaluates.

Only model-checked: liveness (`StaleJobReclaimed`, `HopelessWrappedUp`, `CancelTakesEffect`,
`FetchEnds`, `ReportSettled`, `JobServed`), which needs `ENABLED`; `RoundSound`, whose
matching is a recursion over data (`Assignment` has a `RECURSIVE` operator).

## Not modelled

The parts `PROJECT.json` marks `not_modelled`, with the reason there; amounts, signatures and
acknowledgements of receipts; the relay of log tails and frames that only carry
figures; listing and paging; the manual and off modes of the port mapping; throttling
of uploads; the cache of text results; rate limits by address; hardware probes.

## Plan

Left: the overlap of two ticks of the hub; the installers' content gate.
