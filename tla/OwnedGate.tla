----------------------------- MODULE OwnedGate -----------------------------
(***************************************************************************)
(* The handlers that move one job, database statement by statement.  D1    *)
(* makes a single statement atomic; between two statements a handler       *)
(* awaits, other handlers run, and an error or an eviction may end it.     *)
(* Claims, re-adoptions, stale and orphaned requeues, the sweep and a      *)
(* user's retry are conditional updates: they check and write at once.     *)
(* What agents report, and a cancellation, is checked by one statement     *)
(* and written by another, whose only condition is the job's id.           *)
(*                                                                         *)
(* The rest of the Hub is left open here: any worker may claim, lose or    *)
(* report the job at any time.  The job is a prompt and unsplit.           *)
(***************************************************************************)
EXTENDS Integers, FiniteSets, Functions

CONSTANTS
    Workers, None,
    Handlers,        \* the messages and calls handled, each once
    MaxJobAttempts

ASSUME GateAssumption ==
    /\ None \notin Workers
    /\ IsFiniteSet(Handlers)
    /\ MaxJobAttempts \in Nat \ {0}

VARIABLES
    row,     \* the job's row
    hand,    \* the handlers in progress
    ledger,  \* receipts minted, counted by worker and kind
    held,    \* the workers that ever had the job (history)
    mixed    \* two handlers were in progress at a time (history)

vars == <<row, hand, ledger, held, mixed>>

Owned == {"assigned", "running"}
Statuses == {"queued"} \cup Owned \cup {"done", "failed", "cancelled"}
Kinds == {"completed", "failed", "cancelled"}

Attempts == [Workers -> 0 .. Cardinality(Handlers)]

Rows == [status: Statuses, owner: Workers \cup {None}, last: Workers \cup {None},
         started: Workers \cup {None}, attempts: Attempts,
         retried: BOOLEAN]

NewRow == [status |-> "queued", owner |-> None, last |-> None, started |-> None,
           attempts |-> [w \in Workers |-> 0], retried |-> FALSE]

\* Where a handler awaits.
Points == {"ready", "over", "gone", "run write",
           "done write", "done foreign", "done judge", "done readopt", "done again", "done pay",
           "fail count", "fail retry", "fail retry write", "fail end", "fail end write", "fail pay",
           "cancel check", "cancel write", "cancel pay"}

\* Whose message it is, or whom a cancellation took the job from; the attempts
\* a failure read; whether the job was running when a cancellation first looked.
HandlerStates == [pc: Points, worker: Workers \cup {None}, attempts: Attempts, ran: BOOLEAN]

Ready == [pc |-> "ready", worker |-> None, attempts |-> [w \in Workers |-> 0], ran |-> FALSE]

TypeOK ==
    /\ row \in Rows
    /\ hand \in [Handlers -> HandlerStates]
    /\ ledger \in [Workers -> [Kinds -> Nat]]
    /\ held \subseteq Workers
    /\ mixed \in BOOLEAN

Init ==
    /\ row = NewRow
    /\ hand = [h \in Handlers |-> Ready]
    /\ ledger = [w \in Workers |-> [k \in Kinds |-> 0]]
    /\ held = {}
    /\ mixed = FALSE

----------------------------------------------------------------------------
(* Helpers *)

\* Slip: the owner is forgotten.
HeldByAnyone(w) == row.status \in Owned

Held(w) == row.status \in Owned /\ row.owner = w

Cancellable == row.status \in {"queued"} \cup Owned

At(h, pc) == hand[h].pc = pc

Goes(h, pc) ==
    hand' = [hand EXCEPT ![h] = IF pc \in {"over", "gone"} THEN [Ready EXCEPT !.pc = pc]
                                ELSE [@ EXCEPT !.pc = pc]]

\* Slip: a worker's first failure is forgiven.
CountedFromSecond(attempts, w) == [attempts EXCEPT ![w] = IF @ = 0 THEN 0 ELSE @ + 1]

Counted(attempts, w) == [attempts EXCEPT ![w] = @ + 1]

Total(attempts) == SumFunction(attempts)

\* The handler of a message of worker w reads the row: it goes on to pc.
Reads(h, w, pc) ==
    /\ At(h, "ready")
    /\ hand' = [hand EXCEPT ![h] = [@ EXCEPT !.pc = pc, !.worker = w]]
    /\ UNCHANGED <<row, ledger, held>>

\* The handler looks at the row again and goes on to pc.
Looks(h, here, pc) == At(h, here) /\ Goes(h, pc) /\ UNCHANGED <<row, ledger, held>>

\* The handler writes the row, whatever it holds by now, and goes on to pc.
Writes(h, here, new, pc) ==
    At(h, here) /\ row' = new /\ Goes(h, pc) /\ UNCHANGED <<ledger, held>>

Pays(h, here, w, kind) ==
    /\ At(h, here)
    /\ ledger' = [ledger EXCEPT ![w][kind] = @ + 1]
    /\ Goes(h, "over")
    /\ UNCHANGED <<row, held>>

----------------------------------------------------------------------------
(* A busy heartbeat; one that is refused does nothing to the job *)

RunCheck(h, w) == row.status = "assigned" /\ row.owner = w /\ Reads(h, w, "run write")

RunWrite(h) ==
    Writes(h, "run write",
           [row EXCEPT !.status = "running", !.started = hand[h].worker], "over")

(* job_done *)

DoneCheck(h, w) == Reads(h, w, IF Held(w) THEN "done write" ELSE "done foreign")

DoneWrite(h) == Writes(h, "done write", [row EXCEPT !.status = "done"], "done pay")

DoneForeign(h) ==
    Looks(h, "done foreign", IF row.owner # hand[h].worker THEN "done judge" ELSE "over")

\* Only a start that is not there, after a failure, tells against the worker.
DoneJudge(h) ==
    Looks(h, "done judge",
          IF row.started = None /\ row.attempts[hand[h].worker] > 0 THEN "over" ELSE "done readopt")

DoneReadopt(h) ==
    LET w == hand[h].worker IN
    /\ At(h, "done readopt")
    /\ IF row.status = "queued" /\ row.last = w
       THEN /\ row' = [row EXCEPT !.status = "assigned", !.owner = w]
            /\ held' = held \cup {w}
            /\ Goes(h, "done again")
       ELSE UNCHANGED <<row, held>> /\ Goes(h, "over")
    /\ UNCHANGED ledger

DoneAgain(h) ==
    Looks(h, "done again", IF Held(hand[h].worker) THEN "done write" ELSE "over")

DonePay(h) == Pays(h, "done pay", hand[h].worker, "completed")

(* job_failed *)

FailCheck(h, w) ==
    /\ At(h, "ready")
    /\ Held(w)
    /\ hand' = [hand EXCEPT ![h] =
                  [@ EXCEPT !.pc = "fail count", !.worker = w, !.attempts = row.attempts]]
    /\ UNCHANGED <<row, ledger, held>>

\* The attempts read are written back with one more; whether any worker could
\* still run the job is anyone's guess here.
FailCount(h) ==
    LET attempts == Counted(hand[h].attempts, hand[h].worker) IN
    \E next \in {"fail retry", "fail end"} :
        /\ next = "fail retry" => Total(attempts) < MaxJobAttempts
        /\ Writes(h, "fail count", [row EXCEPT !.attempts = attempts], next)

FailRetry(h) ==
    Looks(h, "fail retry", IF Held(hand[h].worker) THEN "fail retry write" ELSE "fail end")

FailRetryWrite(h) ==
    Writes(h, "fail retry write",
           [row EXCEPT !.status = "queued", !.last = hand[h].worker, !.owner = None,
                       !.started = None, !.retried = TRUE], "fail pay")

FailEnd(h) ==
    Looks(h, "fail end", IF Held(hand[h].worker) THEN "fail end write" ELSE "over")

FailEndWrite(h) == Writes(h, "fail end write", [row EXCEPT !.status = "failed"], "fail pay")

FailPay(h) == Pays(h, "fail pay", hand[h].worker, "failed")

(* /internal/cancel *)

CancelLook(h) ==
    /\ Cancellable
    /\ At(h, "ready")
    /\ hand' = [hand EXCEPT ![h] =
                  [@ EXCEPT !.pc = "cancel check",
                            !.ran = row.status = "running" /\ row.started # None]]
    /\ UNCHANGED <<row, ledger, held>>

CancelCheck(h) ==
    /\ At(h, "cancel check")
    /\ IF Cancellable
       THEN hand' = [hand EXCEPT ![h] = [@ EXCEPT !.pc = "cancel write", !.worker = row.owner]]
       ELSE Goes(h, "over")
    /\ UNCHANGED <<row, ledger, held>>

\* Slip: worker_id is not cleared.
CancelledOwned(owner) == [row EXCEPT !.status = "cancelled"]

\* The row cancelled, taken from the owner that was read.
CancelledFrom(owner) ==
    [row EXCEPT !.status = "cancelled", !.owner = None,
                !.last = IF owner = None THEN @ ELSE owner]

CancelWrite(h) ==
    LET owner == hand[h].worker IN
    Writes(h, "cancel write", CancelledFrom(owner),
           IF hand[h].ran /\ owner # None THEN "cancel pay" ELSE "over")

CancelPay(h) == Pays(h, "cancel pay", hand[h].worker, "cancelled")

----------------------------------------------------------------------------
(* A handler that ends between two statements *)

InProgress == {h \in Handlers : hand[h].pc \notin {"ready", "over", "gone"}}

Abandon(h) ==
    /\ h \in InProgress
    /\ Goes(h, "gone")
    /\ UNCHANGED <<row, ledger, held>>

(* Statements that check and write at once *)

\* Slip: a claim that does not look at the status.
ClaimableAlways == TRUE

Claimable == row.status = "queued"

Claim(w) ==
    /\ Claimable
    /\ row' = [row EXCEPT !.status = "assigned", !.owner = w]
    /\ held' = held \cup {w}
    /\ UNCHANGED <<hand, ledger>>

Requeue(w) ==
    /\ Held(w)
    /\ row' = [row EXCEPT !.status = "queued", !.last = w, !.owner = None]
    /\ UNCHANGED <<hand, ledger, held>>

Sweep ==
    /\ row.status = "queued"
    /\ row.retried
    /\ row' = [row EXCEPT !.status = "failed"]
    /\ UNCHANGED <<hand, ledger, held>>

Retry ==
    /\ row.status = "failed"
    /\ row' = [row EXCEPT !.status = "queued", !.owner = None, !.started = None]
    /\ UNCHANGED <<hand, ledger, held>>

----------------------------------------------------------------------------

Report(h) ==
    \/ \E w \in Workers : RunCheck(h, w) \/ DoneCheck(h, w) \/ FailCheck(h, w)
    \/ RunWrite(h)
    \/ DoneWrite(h) \/ DoneForeign(h) \/ DoneJudge(h) \/ DoneReadopt(h) \/ DoneAgain(h) \/ DonePay(h)
    \/ FailCount(h) \/ FailRetry(h) \/ FailRetryWrite(h) \/ FailEnd(h) \/ FailEndWrite(h) \/ FailPay(h)

Cancel(h) == CancelLook(h) \/ CancelCheck(h) \/ CancelWrite(h) \/ CancelPay(h)

Statement == (\E w \in Workers : Claim(w) \/ Requeue(w)) \/ Sweep \/ Retry

Next ==
    /\ (\E h \in Handlers : Report(h) \/ Cancel(h) \/ Abandon(h)) \/ Statement
    /\ mixed' = (mixed \/ Cardinality(InProgress') > 1)

Spec == Init /\ [][Next]_vars
----------------------------------------------------------------------------
(* What must hold *)

\* A job is paid once at the most, whoever else was given it between the check
\* of a job_done and its write, and however often its completion is reported.
PaidAtMostOnce ==
    \A v, w \in Workers :
        ledger[v]["completed"] > 0 /\ ledger[w]["completed"] > 0 => v = w /\ ledger[v]["completed"] = 1

\* No failed receipt without a counted attempt of that worker.
FailuresCounted == \A w \in Workers : ledger[w]["failed"] <= row.attempts[w]

\* As long as no two handlers overlapped a job is paid once and fails for no more
\* attempts than were counted, whatever claims, recalls, sweeps, retries and errors
\* came between a handler's statements; an attempt without its receipt may be left.
GateSound == TypeOK /\ (~mixed => PaidAtMostOnce /\ FailuresCounted)

\* However the handlers overlap, a job in the queue has no owner and an assigned
\* one has: dispatch never claims a job from under a worker's feet.
QueueSound ==
    /\ row.status \in {"queued", "cancelled"} => row.owner = None
    /\ row.status = "assigned" => row.owner # None

\* However the handlers overlap, nobody is paid who never had the job.
PaidHadIt == \A w \in Workers : ledger[w]["completed"] > 0 => w \in held
============================================================================
