------------------------------- MODULE Stats -------------------------------
(***************************************************************************)
(* How long each worker takes for each kind of workflow: what a completed  *)
(* job teaches, statement by statement, with handlers overlapping, and the *)
(* first tick's replay of the receipts there were before the statistics.   *)
(* Seconds are whole, speeds in hundredths.  A receipt's seconds are the   *)
(* run's: the wall clock that may cap them is longer.                      *)
(***************************************************************************)
EXTENDS Integers, Sequences, FiniteSets, FiniteSetsExt

CONSTANTS
    None,
    Workers, Signatures,
    PriorOf,         \* PriorOf[w]: what w's backend is taken for until it has run
    Handlers,        \* handlers of job_done at work at a time
    Histories,       \* the receipts there may be before the first tick
    Runs,            \* those of the jobs that may complete after
    BackfillLimit,   \* BACKFILL_LIMIT
    MaxCompletions,  \* bounds of the model: jobs completed,
    MaxTrouble       \* and statements that fail or handlers that die

VARIABLES
    table,       \* worker_job_stats: (worker, signature) -> seconds and samples
    speed,       \* workers.speed_index
    flag,        \* the setting stats_backfilled
    short,       \* statsBackfillDone, in memory
    receipts,    \* billable receipts of completed jobs, the oldest first
    hand,        \* the handlers
    fill,        \* the tick's replay: its step and what it has read
    troubles,    \* bound
    clean,       \* history: no job ended early, across another or with a fault
    broken       \* history: a handler died between its statements

vars == <<table, speed, flag, short, receipts, hand, fill, troubles, clean, broken>>

Keys == Workers \X Signatures
Row == [ewma: Nat, samples: Nat \ {0}]
Receipt == [key: Keys, seconds: Nat, kind: {"old", "whole", "child"}]

Empty == [k \in {} |-> None]
Rest == [pc |-> "rest", run |-> None, rows |-> Empty, speeds |-> Empty]
NoFill == [pc |-> "rest", learnt |-> None, of |-> {}]

Init ==
    /\ table = Empty
    /\ speed = [w \in Workers |-> 100]
    /\ flag = FALSE /\ short = FALSE
    /\ receipts \in Histories
    /\ hand = [h \in Handlers |-> Rest]
    /\ fill = NoFill
    /\ troubles = 0 /\ clean = TRUE /\ broken = FALSE

----------------------------------------------------------------------------
(* What is learned and what is predicted *)

\* The n-th of a function's values by size, and the one in the middle.
Nth(f, n) == Min({f[x] : x \in {x \in DOMAIN f : Cardinality({y \in DOMAIN f : f[y] <= f[x]}) >= n}})

Median(f) ==
    LET n == Cardinality(DOMAIN f)
    IN  IF n = 0 THEN None ELSE (Nth(f, (n + 1) \div 2) + Nth(f, n \div 2 + 1)) \div 2

SpeedIn(speeds, w) == IF w \in DOMAIN speeds THEN speeds[w] ELSE 100

\* What the signature takes on a worker of speed one, in everyone else's experience.
FleetReference(rows, speeds, key) ==
    Median([k \in {k \in DOMAIN rows : k[2] = key[2] /\ k[1] # key[1]} |->
               (rows[k].ewma * SpeedIn(speeds, k[1])) \div 100])

\* A fresh sample weighs three tenths, a first one all.
Blend(new, old) == (3 * new + 7 * old) \div 10

NextEwma(rows, key, seconds) ==
    IF key \in DOMAIN rows THEN Blend(seconds, rows[key].ewma) ELSE seconds

HasRun(rows, w) == \E k \in DOMAIN rows : k[1] = w

Clamp(index) == Max({10, Min({1000, index})})

\* A worker's speed after a run: its first replaces the prior.
NextSpeed(rows, speeds, key, seconds) ==
    LET reference == FleetReference(rows, speeds, key)
        current == SpeedIn(speeds, key[1])
        ratio == (reference * 100) \div seconds
    IN  IF reference = None \/ seconds <= 0 THEN current
        ELSE IF HasRun(rows, key[1]) THEN Clamp(Blend(ratio, current))
        ELSE Clamp(ratio)

\* The rows after a run.
NextRows(rows, key, seconds) ==
    [k \in DOMAIN rows \cup {key} |->
        IF k # key THEN rows[k]
        ELSE [ewma |-> NextEwma(rows, key, seconds),
              samples |-> 1 + (IF key \in DOMAIN rows THEN rows[key].samples ELSE 0)]]

\* What has been learned, and what a run adds to it.
Learn(known, run) ==
    [rows |-> NextRows(known.rows, run.key, run.seconds),
     speeds |-> IF run.key[1] \in DOMAIN known.speeds
                THEN [known.speeds EXCEPT ![run.key[1]] =
                         NextSpeed(known.rows, known.speeds, run.key, run.seconds)]
                ELSE known.speeds]

\* A worker that has run nothing is as fast as its backend is taken to be.
Effective(rows, stored) == [w \in Workers |-> IF HasRun(rows, w) THEN stored[w] ELSE PriorOf[w]]

\* What a job of that signature is expected to take on w.
Predict(rows, speeds, signature, w) ==
    LET reference == FleetReference(rows, speeds, <<w, signature>>)
        all == Median([k \in DOMAIN rows |-> rows[k].ewma])
    IN  IF <<w, signature>> \in DOMAIN rows THEN rows[<<w, signature>>].ewma
        ELSE IF reference # None THEN (reference * 100) \div SpeedIn(speeds, w)
        ELSE IF all # None THEN (all * 100) \div SpeedIn(speeds, w)
        ELSE 60

----------------------------------------------------------------------------
(* A job completes *)

Sound == UNCHANGED <<clean, troubles>>
Trouble == troubles < MaxTrouble /\ troubles' = troubles + 1 /\ clean' = FALSE

\* Slip: a batch job's child teaches like any other.
TaughtAlways(kind) == kind \in {"whole", "child"}

\* A batch job's child runs a part of what its signature says: it teaches nothing.
Taught(kind) == kind # "child"

\* job_done was applied; what it teaches comes before its receipt.
Complete(h, run) ==
    /\ hand[h] = Rest
    /\ Len(receipts) + Cardinality({g \in Handlers : hand[g] # Rest}) < MaxCompletions
    /\ hand' = [hand EXCEPT ![h] = [Rest EXCEPT !.pc = IF Taught(run.kind) THEN "rows" ELSE "receipt",
                                                !.run = run]]
    /\ clean' = (clean /\ flag /\ \A g \in Handlers : hand[g] = Rest)
    /\ UNCHANGED <<table, speed, flag, short, receipts, fill, troubles, broken>>

At(h, pc) == hand[h].pc = pc
Move(h, pc) == hand' = [hand EXCEPT ![h].pc = pc]

\* loadRows: a read that fails is an empty table.
ReadRows(h) ==
    /\ At(h, "rows")
    /\ \E rows \in {table, Empty} :
        /\ hand' = [hand EXCEPT ![h].pc = "speeds", ![h].rows = rows]
        /\ IF rows = table THEN Sound ELSE Trouble
    /\ UNCHANGED <<table, speed, flag, short, receipts, fill, broken>>

\* loadEffectiveSpeedIndex: a read that fails knows no worker.
ReadSpeeds(h) ==
    /\ At(h, "speeds")
    /\ \/ /\ hand' = [hand EXCEPT ![h].pc = "upsert", ![h].speeds = Effective(hand[h].rows, speed)]
          /\ Sound
       \/ /\ hand' = [hand EXCEPT ![h].pc = "upsert"]
          /\ Trouble
    /\ UNCHANGED <<table, speed, flag, short, receipts, fill, broken>>

\* The row is written whole, from what was read.
Upsert(h) ==
    /\ At(h, "upsert")
    /\ LET key == hand[h].run.key
       IN  \/ /\ table' = [k \in DOMAIN table \cup {key} |->
                             IF k = key THEN Learn(hand[h], hand[h].run).rows[key] ELSE table[k]]
              /\ Move(h, "speed") /\ Sound
           \/ /\ Move(h, "receipt") /\ Trouble /\ UNCHANGED table
    /\ UNCHANGED <<speed, flag, short, receipts, fill, broken>>

\* So is the speed, for a worker the reading knew.
UpdateSpeed(h) ==
    /\ At(h, "speed")
    /\ Move(h, "receipt")
    /\ LET w == hand[h].run.key[1]
       IN  \/ /\ speed' = IF w \in DOMAIN hand[h].speeds
                          THEN [speed EXCEPT ![w] = Learn(hand[h], hand[h].run).speeds[w]]
                          ELSE speed
              /\ Sound
           \/ Trouble /\ UNCHANGED speed
    /\ UNCHANGED <<table, flag, short, receipts, fill, broken>>

\* The receipt; without it the handler dies.
AddReceipt(h) ==
    /\ At(h, "receipt")
    /\ hand' = [hand EXCEPT ![h] = Rest]
    /\ \/ receipts' = Append(receipts, hand[h].run) /\ Sound /\ UNCHANGED broken
       \/ Trouble /\ broken' = TRUE /\ UNCHANGED receipts
    /\ UNCHANGED <<table, speed, flag, short, fill>>

----------------------------------------------------------------------------
(* The first tick's replay *)

\* Some of the receipts, the oldest first, as if each had just been earned.
Replay(past, some, speeds) ==
    LET after[n \in 0 .. Len(past)] ==
            IF n = 0 THEN [rows |-> Empty, speeds |-> speeds]
            ELSE IF n \in some THEN Learn(after[n - 1], past[n])
            ELSE after[n - 1]
    IN  after[Len(past)]

Prior == Effective(Empty, speed)

Latest == {i \in DOMAIN receipts : i > Len(receipts) - BackfillLimit}

\* Nothing to do once it was done or anything has been learned.
SkipFill ==
    /\ fill = NoFill /\ ~short
    /\ flag \/ table # Empty
    /\ flag' = TRUE /\ short' = TRUE
    /\ UNCHANGED <<table, speed, receipts, hand, fill, troubles, clean, broken>>

CheckFill ==
    /\ fill = NoFill /\ ~short
    /\ ~flag /\ table = Empty
    /\ fill' = [fill EXCEPT !.pc = "read"]
    /\ UNCHANGED <<table, speed, flag, short, receipts, hand, troubles, clean, broken>>

\* The receipts are read, then the speeds.
ReadFill ==
    /\ fill.pc = "read"
    /\ \E known \in {Prior, Empty} :
        /\ fill' = [pc |-> "write", learnt |-> Replay(receipts, Latest, known),
                    of |-> {receipts[i].key[1] : i \in Latest} \cap DOMAIN known]
        /\ IF known = Prior THEN Sound ELSE Trouble
    /\ UNCHANGED <<table, speed, flag, short, receipts, hand, broken>>

\* One batch.
WriteFill ==
    /\ fill.pc = "write"
    /\ LET new == fill.learnt.rows
       IN  table' = [k \in DOMAIN new \cup DOMAIN table |-> IF k \in DOMAIN new THEN new[k] ELSE table[k]]
    /\ speed' = [w \in Workers |-> IF w \in fill.of THEN fill.learnt.speeds[w] ELSE speed[w]]
    /\ fill' = [fill EXCEPT !.pc = "flag"]
    /\ UNCHANGED <<flag, short, receipts, hand, troubles, clean, broken>>

EndFill ==
    /\ fill.pc = "flag"
    /\ flag' = TRUE /\ short' = TRUE /\ fill' = NoFill
    /\ UNCHANGED <<table, speed, receipts, hand, troubles, clean, broken>>

\* A statement of it fails: the next tick begins anew.
FailFill ==
    /\ fill # NoFill
    /\ troubles < MaxTrouble /\ troubles' = troubles + 1
    /\ fill' = NoFill
    /\ UNCHANGED <<table, speed, flag, short, receipts, hand, clean, broken>>

\* The object restarts.
Restart ==
    /\ troubles < MaxTrouble /\ troubles' = troubles + 1
    /\ hand' = [h \in Handlers |-> Rest] /\ fill' = NoFill /\ short' = FALSE
    /\ broken' = (broken \/ \E h \in Handlers : hand[h] # Rest)
    /\ UNCHANGED <<table, speed, flag, receipts, clean>>

Next ==
    \/ \E h \in Handlers :
        \/ \E run \in Runs : Complete(h, run)
        \/ ReadRows(h) \/ ReadSpeeds(h) \/ Upsert(h) \/ UpdateSpeed(h) \/ AddReceipt(h)
    \/ SkipFill \/ CheckFill \/ ReadFill \/ WriteFill \/ EndFill \/ FailFill
    \/ Restart

Spec == Init /\ [][Next]_vars

----------------------------------------------------------------------------
(* Properties *)

Idle == fill = NoFill /\ \A h \in Handlers : hand[h] = Rest

TypeOK ==
    /\ DOMAIN table \subseteq Keys /\ table \in [DOMAIN table -> Row]
    /\ speed \in [Workers -> 10 .. 1000]
    /\ receipts \in Seq(Receipt)

\* No run is counted twice, though its handler may cross the replay of the receipts
\* (its lesson comes before its receipt): no row has more samples than its key has
\* receipts and handlers at work, unless one died between the two.
CountedOnce ==
    ~broken =>
        \A k \in DOMAIN table :
            table[k].samples <= Cardinality({i \in DOMAIN receipts : receipts[i].key = k})
                                + Cardinality({h \in Handlers : hand[h] # Rest /\ hand[h].run.key = k})

\* The receipts the statistics are to have learned from: of those from before them the
\* latest, and every whole job's since.
Lessons ==
    LET old == {i \in DOMAIN receipts : receipts[i].kind = "old"}
    IN  {i \in old : i > Cardinality(old) - BackfillLimit}
            \cup {i \in DOMAIN receipts : receipts[i].kind = "whole"}

\* Jobs that ended one after another, after the first tick and without a fault, leave
\* dispatch predicting what a replay of every whole job's receipt would have it predict
\* (backfillIfNeeded: "the result of N receipts is that of N recordCompletion").
LearnedAsReplayed ==
    clean /\ ~broken /\ flag /\ Idle =>
        LET learnt == Replay(receipts, Lessons, PriorOf)
        IN  \A k \in Keys :
                Predict(table, Effective(table, speed), k[2], k[1])
                    = Predict(learnt.rows, learnt.speeds, k[2], k[1])

\* What the statistics have learned is what the completed jobs taught, each once
\* (recordCompletion, backfillIfNeeded).
StatsSound == TypeOK /\ CountedOnce /\ LearnedAsReplayed
============================================================================
