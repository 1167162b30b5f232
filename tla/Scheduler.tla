----------------------------- MODULE Scheduler -----------------------------
(***************************************************************************)
(* A dispatch tick: the head of the queue and the jobs that have starved   *)
(* are judged against every idle worker, a job is held back when a busy    *)
(* worker is expected to end it sooner, the rest is matched at least cost, *)
(* claimed job by job and then pushed, while users cancel and workers come *)
(* and go.  Who is idle is what the sockets say, not what the rows say.    *)
(* Seconds count in steps of Step; elapsed times stop counting at a bound. *)
(***************************************************************************)
EXTENDS Assignment, Fit, TLC

CONSTANTS
    NumJobs,           \* the jobs, in the order they are submitted
    Workers,           \* the workers, each a position in the order of names
    Reliable,          \* the workers that never go away
    WorkerOf, NeedsOf, \* what each worker is and each job needs
    Manifest,
    Predict,           \* Predict[j][w]: the seconds the statistics expect
    JobsPerIdleWorker, MaxJobsPerTick, \* JOBS_PER_IDLE_WORKER and MAX_JOBS_PER_TICK
    StarveBonus, Warn, \* STARVE_BONUS and WARN_PENALTY, scaled down
    Step,              \* the seconds of one step of time
    MaxElapsed,        \* bound: steps a job's age and run are counted
    Matrices,          \* every matrix solve is checked on
    FitLaw             \* every case the verdict is checked on

Jobs == 1 .. NumJobs

VARIABLES
    job,     \* the jobs
    up,      \* the workers that are connected
    says,    \* the state their sockets are in ("busy": dispatched as well)
    warm,    \* the models of the job each was given last
    due,     \* the alarm is to fire
    claims,  \* what the tick has still to claim
    pushes,  \* what it has claimed and has still to push
    matched  \* what the last tick matched and what it judged (history)

vars == <<job, up, says, warm, due, claims, pushes, matched>>

\* told: its push has reached the worker.  age: since it was submitted.
\* elapsed: since it started.  expected: the prediction it was dispatched with.
JobRecords == [status: {"new", "queued", "assigned", "running", "over"},
               worker: Workers \cup {None}, told: BOOLEAN, age: 0 .. MaxElapsed,
               elapsed: 0 .. MaxElapsed, expected: Nat]
NewJob == [status |-> "new", worker |-> None, told |-> FALSE, age |-> 0, elapsed |-> 0, expected |-> 0]
NoMatch == [pairs |-> {}, starved |-> {}, open |-> {}]

TypeOK ==
    /\ job \in [Jobs -> JobRecords]
    /\ \A j \in Jobs : job[j].worker # None <=> job[j].status \in {"assigned", "running"}
    /\ up \in SUBSET Workers
    /\ says \in [Workers -> {"idle", "busy"}]
    /\ warm \in [Workers -> SUBSET UNION {NeedsOf[j].models : j \in Jobs}]
    /\ due \in BOOLEAN
    /\ claims \in SUBSET [job: Jobs, worker: Workers, expected: Nat]
    /\ pushes \in SUBSET (Jobs \X Workers)
    /\ matched.pairs \in SUBSET (Jobs \X Workers)
    /\ matched.open \in SUBSET (Jobs \X Workers) /\ matched.starved \in SUBSET Jobs

Init ==
    /\ job = [j \in Jobs |-> NewJob]
    /\ up = Workers
    /\ says = [w \in Workers |-> "idle"]
    /\ warm = [w \in Workers |-> {}]
    /\ due = FALSE
    /\ claims = {}
    /\ pushes = {}
    /\ matched = NoMatch

Queued == {j \in Jobs : job[j].status = "queued"}
HeldBy(w) == {j \in Jobs : job[j].status \in {"assigned", "running"} /\ job[j].worker = w}

IdleWorkers == {w \in up : says[w] = "idle"}

Fleet == {WorkerOf[w] : w \in Workers}

----------------------------------------------------------------------------
(* What a pair costs *)

StarveSeconds == 300
LightBackendPenalty == 60
LightVramWeight == 5
FetchSecondsPerGb == 20
LoadTenthsPerGb == 15

\* What a job needs, with the memory its models are expected to take.
Needs(j) == [NeedsOf[j] EXCEPT !.estVram = EstimateVram(NeedsOf[j].models, Fleet)]
IsLight(j) == Needs(j).models = {} /\ Needs(j).estVram = None

Pair(j, w) == Verdict(WorkerOf[w], Needs(j), Fleet, Manifest, FALSE)
Runs(kind) == kind \in {"eligible", "eligible_after_fetch"}

\* Models that are not warm on the worker are loaded; those it downloads take longer.
LoadSeconds(j, w, warmModels) ==
    LET sizes == {<<m, SizeIn({WorkerOf[w]}, m)>> : m \in Needs(j).models \ warmModels}
    IN  (MapThenSumSet(LAMBDA s : s[2], {s \in sizes : s[2] # None}) * LoadTenthsPerGb) \div 10
FetchSeconds(pair) == IF pair.kind = "eligible_after_fetch" THEN pair.fetch * FetchSecondsPerGb ELSE 0

\* A light job is kept off the cards with much memory free.
LightPenalty(j, w, free) ==
    IF ~IsLight(j) THEN 0
    ELSE (IF WorkerOf[w].backend \in {"mps", "cpu"} THEN 0 ELSE LightBackendPenalty)
         + free * LightVramWeight

\* Forbidden unless it runs there, and has its models if any worker has.  seen: the
\* memory that is free and the models that are warm.
Cost(j, w, pair, tier1, seen) ==
    IF ~Runs(pair.kind) \/ (pair.kind = "eligible_after_fetch" /\ tier1) THEN Forbidden
    ELSE Predict[j][w] + LoadSeconds(j, w, seen.warm) + FetchSeconds(pair) + LightPenalty(j, w, seen.free)
         + (IF pair.warned THEN Warn ELSE 0)

\* As an idle worker is.
CostNow(j, w, tier1) == Cost(j, w, Pair(j, w), tier1, [free |-> WorkerOf[w].vram, warm |-> warm[w]])

WaitSeconds(j) == job[j].age * Step

Objective(j, cost) ==
    IF cost = Forbidden THEN Forbidden
    ELSE cost - WaitSeconds(j) - (IF WaitSeconds(j) >= StarveSeconds THEN StarveBonus ELSE 0)

----------------------------------------------------------------------------
(* Which jobs are looked at *)

\* The oldest n of a set of jobs.
Oldest(jobs, n) == {j \in jobs : Cardinality({i \in jobs : i < j}) < n}

\* The head of the queue, and as many again that have starved behind it.
Selected(limit) ==
    LET head == Oldest(Queued, limit)
    IN  head \cup Oldest({j \in Queued \ head : WaitSeconds(j) >= StarveSeconds}, limit)

----------------------------------------------------------------------------
(* Holding a job back for a busy worker *)

\* The job a busy worker is on: of several the one that has started.
Current(w) ==
    LET started == {j \in HeldBy(w) : job[j].status = "running"}
    IN  Min(IF started # {} THEN started ELSE HeldBy(w))

\* Slip: a job that takes ever longer is expected to end ever sooner.
OverdueNever(expected, elapsed) == expected <= 0

\* Nothing is known of a job that has taken twice as long as predicted.
Overdue(expected, elapsed) == expected <= 0 \/ elapsed > 2 * expected

\* The workers whose sockets say they are busy, with a job whose end can be told.
Estimable ==
    {w \in up \ IdleWorkers : HeldBy(w) # {} /\ ~Overdue(job[Current(w)].expected, job[Current(w)].elapsed * Step)}

\* The seconds such a worker has still to go.
Remaining(w) ==
    LET expected == job[Current(w)].expected
    IN  Max({expected - job[Current(w)].elapsed * Step, expected \div 10})

\* The models of its job will be warm; the memory that will be free is unknown.
WaitCost(j, w, ahead) ==
    LET own == Cost(j, w, Pair(j, w), FALSE, [free |-> 0, warm |-> Needs(Current(w)).models])
    IN  IF own = Forbidden THEN Forbidden ELSE Remaining(w) + ahead + own

\* Running now takes a quarter and half a minute longer than waiting.
WorthHolding(now, later) == now * 4 > later * 5 + 120

\* Job by job, the oldest first: the pairs struck off, and what each busy worker
\* has been promised besides.
Hold(acc, j) ==
    LET idle == acc.idle
        tier1 == \E w \in idle : Pair(j, w).kind = "eligible"
        waits == {w \in Estimable : WaitCost(j, w, acc.ahead[w]) # Forbidden}
        best == Min({WaitCost(j, w, acc.ahead[w]) : w \in waits})
        busy == Min({w \in waits : WaitCost(j, w, acc.ahead[w]) = best})
        cost == [w \in idle |-> CostNow(j, w, tier1)]
        runnable == {w \in idle : cost[w] # Forbidden}
        struck == {w \in runnable : WorthHolding(cost[w], best)}
    IN  IF waits = {} THEN acc
        ELSE [acc EXCEPT
            !.struck = @ \cup {<<j, w>> : w \in struck},
            !.ahead = IF runnable \ struck # {} THEN @
                      ELSE [@ EXCEPT ![busy] = @ + Predict[j][busy]
                                                      + LoadSeconds(j, busy, Needs(Current(busy)).models)]]

\* The pairs (job, idle worker) that are held back.
Struck(jobs, idle) ==
    FoldLeft(Hold, [idle |-> idle, struck |-> {}, ahead |-> [w \in Workers |-> 0]],
             SetToSortSeq(jobs, <)).struck

----------------------------------------------------------------------------
(* The tick *)

\* What each selected job costs on each idle worker.
PairCost(jobs, idle, struck) ==
    [p \in jobs \X idle |->
        IF p \in struck THEN Forbidden
        ELSE Objective(p[1], CostNow(p[1], p[2], \E w \in idle : Pair(p[1], w).kind = "eligible"))]

\* The matching of the jobs, by age, to the workers, by name.
Matched(jobs, idle, costs) ==
    LET rows == SetToSortSeq(jobs, <)
        columns == SetToSortSeq(idle, <)
        matrix == [i \in DOMAIN rows |-> [k \in DOMAIN columns |-> costs[<<rows[i], columns[k]>>]]]
    IN  {<<rows[c[1]], columns[c[2]]>> : c \in Solve(matrix)}

\* The alarm fires: one tick at a time.
Fires == due /\ claims = {} /\ pushes = {} /\ IdleWorkers # {} /\ Queued # {}

Tick ==
    /\ Fires
    /\ due' = FALSE
    /\ LET idle == IdleWorkers
           jobs == Selected(Min({MaxJobsPerTick, JobsPerIdleWorker * Cardinality(idle)}))
       IN  \E costs \in {PairCost(jobs, idle, Struck(jobs, idle))} :
           \E pairs \in {Matched(jobs, idle, costs)} :
              /\ claims' = {[job |-> p[1], worker |-> p[2],
                             expected |-> Predict[p[1]][p[2]] + LoadSeconds(p[1], p[2], warm[p[2]])
                                          + FetchSeconds(Pair(p[1], p[2]))] : p \in pairs}
              /\ matched' = [pairs |-> pairs,
                             open |-> {p \in DOMAIN costs : costs[p] # Forbidden},
                             starved |-> {j \in jobs : WaitSeconds(j) >= StarveSeconds}]
    /\ UNCHANGED <<job, up, says, warm, pushes>>

Claimable(j) == job[j].status = "queued"

\* The matched jobs are claimed in their order, those still queued.
Claim ==
    /\ claims # {}
    /\ LET c == CHOOSE c \in claims : \A d \in claims : c.job <= d.job
       IN  /\ claims' = claims \ {c}
           /\ IF Claimable(c.job)
              THEN /\ job' = [job EXCEPT ![c.job] = [@ EXCEPT !.status = "assigned", !.worker = c.worker,
                                                             !.expected = c.expected]]
                   /\ warm' = [warm EXCEPT ![c.worker] = Needs(c.job).models]
                   /\ pushes' = pushes \cup {<<c.job, c.worker>>}
              ELSE UNCHANGED <<job, warm, pushes>>
    /\ matched' = NoMatch
    /\ UNCHANGED <<up, says, due>>

\* Once all are claimed they are pushed, each whether or not it still stands; a
\* worker that has gone meanwhile is left out.
Push ==
    /\ claims = {} /\ pushes # {}
    /\ \E p \in pushes :
          /\ pushes' = pushes \ {p}
          /\ IF p[2] \in up
             THEN /\ says' = [says EXCEPT ![p[2]] = "busy"]
                  /\ job' = IF job[p[1]].status = "assigned" /\ job[p[1]].worker = p[2]
                            THEN [job EXCEPT ![p[1]].told = TRUE] ELSE job
             ELSE UNCHANGED <<says, job>>
    /\ UNCHANGED <<up, warm, due, claims, matched>>

\* A read or a write fails: nothing more is claimed, and nothing is pushed.
BreakOff ==
    /\ claims # {} \/ pushes # {}
    /\ claims' = {} /\ pushes' = {} /\ matched' = NoMatch
    /\ UNCHANGED <<job, up, says, warm, due>>

----------------------------------------------------------------------------
(* Around it *)

\* A model nobody has and nobody can download.
Unobtainable(j) ==
    LET gaps == FleetWideGaps(Needs(j), Fleet).models
    IN  gaps \ FleetFetchable(gaps, Manifest, {WorkerOf[w] : w \in up})

\* The next job is submitted, or refused.
Submit ==
    /\ \E j \in Jobs : job[j].status = "new"
    /\ LET j == Min({j \in Jobs : job[j].status = "new"})
       IN  job' = [job EXCEPT ![j].status = IF Unobtainable(j) = {} THEN "queued" ELSE "over"]
    /\ UNCHANGED <<up, says, warm, due, claims, pushes, matched>>

\* A worker runs one of the jobs it has been told of at a time.
Start(j) ==
    LET w == job[j].worker
    IN  /\ job[j].status = "assigned" /\ job[j].told /\ w \in up
        /\ \A i \in HeldBy(w) : job[i].status # "running"
        /\ job' = [job EXCEPT ![j].status = "running"]
        /\ says' = [says EXCEPT ![w] = "busy"]
        /\ UNCHANGED <<up, warm, due, claims, pushes, matched>>

Ended == [NewJob EXCEPT !.status = "over"]

End(j) ==
    /\ job[j].status = "running" /\ job[j].worker \in up
    /\ job' = [job EXCEPT ![j] = Ended]
    /\ UNCHANGED <<up, says, warm, due, claims, pushes, matched>>

Cancel(j) ==
    /\ job[j].status \in {"queued", "assigned", "running"}
    /\ job' = [job EXCEPT ![j] = Ended]
    /\ UNCHANGED <<up, says, warm, due, claims, pushes, matched>>

\* A heartbeat of a worker that runs nothing; it may have left before a push came.
IdleBeat(w) ==
    /\ w \in up /\ says[w] = "busy"
    /\ \A i \in HeldBy(w) : job[i].status # "running"
    /\ says' = [says EXCEPT ![w] = "idle"]
    /\ UNCHANGED <<job, up, warm, due, claims, pushes, matched>>

\* A step of time: queued jobs age, running ones run on, the alarm comes due.
Pass ==
    /\ job' = [j \in Jobs |->
           LET later(n) == Min({n + 1, MaxElapsed})
           IN  [job[j] EXCEPT !.age = IF job[j].status \in {"queued", "assigned", "running"} THEN later(@) ELSE @,
                              !.elapsed = IF job[j].status = "running" THEN later(@) ELSE @]]
    /\ due' = TRUE
    /\ UNCHANGED <<up, says, warm, claims, pushes, matched>>

\* A worker goes; it may return, at work or started afresh.
Lose(w) ==
    /\ w \in up \ Reliable
    /\ up' = up \ {w} /\ says' = [says EXCEPT ![w] = "idle"]
    /\ UNCHANGED <<job, warm, due, claims, pushes, matched>>

Return(w) ==
    /\ w \in Workers \ up
    /\ up' = up \cup {w}
    /\ \E state \in {"idle", "busy"} :
          /\ state = "busy" => \E j \in HeldBy(w) : job[j].told
          /\ says' = [says EXCEPT ![w] = state]
    /\ UNCHANGED <<job, warm, due, claims, pushes, matched>>

\* The job of a worker that has gone, or that says it is idle, is taken back.
TakeBack(j) ==
    /\ job[j].status \in {"assigned", "running"}
    /\ job[j].worker \in up => says[job[j].worker] = "idle"
    /\ job' = [job EXCEPT ![j] = [NewJob EXCEPT !.status = "queued", !.age = job[j].age]]
    /\ UNCHANGED <<up, says, warm, due, claims, pushes, matched>>

Next ==
    \/ Tick \/ Claim \/ Push \/ BreakOff \/ Submit \/ Pass
    \/ \E j \in Jobs : Start(j) \/ End(j) \/ Cancel(j) \/ TakeBack(j)
    \/ \E w \in Workers : IdleBeat(w) \/ Lose(w) \/ Return(w)

\* The alarm is armed while jobs are queued, time passes, workers send heartbeats,
\* a worker starts what it is told of, and one that stays ends what it has started.
\* (A tick that may fire always can and always changes the state: the first line
\* is WF_vars(Tick).)
Fairness ==
    /\ ([]<>~Fires \/ []<><<Tick>>_vars)
    /\ WF_vars(Claim) /\ WF_vars(Push) /\ WF_vars(Pass)
    /\ \A w \in Workers : /\ WF_vars(IdleBeat(w)) /\ WF_vars(\E j \in HeldBy(w) : TakeBack(j))
                          /\ SF_vars(\E j \in HeldBy(w) : Start(j))
    /\ \A w \in Reliable : SF_vars(\E j \in HeldBy(w) : End(j))

Spec == Init /\ [][Next]_vars
FairSpec == Spec /\ Fairness

----------------------------------------------------------------------------
(* Properties *)

\* The laws of the pure parts are checked where nothing has happened yet.
Fresh == job[1].status = "new" /\ up = Workers

\* As many jobs are matched as can be, at the least cost (solve).
SolvesBest == Fresh => \A matrix \in Matrices : Solve(matrix) \in Best(matrix)

\* A worker a job is sent to for a download can run it once it has downloaded
\* (verdict).
FetchPaysOff ==
    Fresh =>
        \A case \in FitLaw :
            LET missing == Missing(case.worker, case.needs)
                after == Fetched(case.worker, missing, Manifest)
            IN  Verdict(case.worker, case.needs, {case.worker}, Manifest, FALSE).kind
                    = "eligible_after_fetch" =>
                Verdict(after, case.needs, {after}, Manifest, FALSE).kind = "eligible"

\* No younger job takes a worker from one that has starved and was looked at and
\* may run there (STARVE_BONUS).
StarvedGoFirst ==
    \A j \in matched.starved : (\A p \in matched.pairs : p[1] # j) =>
        \A p \in matched.pairs : <<j, p[2]>> \in matched.open => p[1] \in matched.starved

\* A round is cut short, or a worker loses what it was given.
Mishap == BreakOff \/ \E j \in Jobs : TakeBack(j)

\* A job that some worker that stays can run is given to one or ends, whatever
\* else is queued, however it is held back and though the worker it is held for
\* never ends what it runs, unless mishaps never cease (applyHolds, the starved
\* tail, remainingSeconds).
Runnable == {j \in Jobs : \E w \in Reliable : Runs(Pair(j, w).kind)}
JobServed ==
    <>[][~Mishap]_vars => \A j \in Runnable : job[j].status = "queued" ~> job[j].status # "queued"

\* A round makes of what it may do the best matching there is, lets those that have
\* starved go first, and makes nobody download what will not help it (assignJobs).
RoundSound == TypeOK /\ SolvesBest /\ FetchPaysOff /\ StarvedGoFirst
============================================================================
