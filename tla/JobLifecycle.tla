---------------------------- MODULE JobLifecycle ----------------------------
(***************************************************************************)
(* What the platform promises of a job, whatever the workers do: it is     *)
(* queued, in the hands of one worker at a time, and ends once; a finished *)
(* job is paid once, to the worker that finished it; only a user's retry   *)
(* takes a job out of "failed", and nothing out of "done" or "cancelled".  *)
(* A step may move several jobs: one dispatch round moves many.            *)
(***************************************************************************)
EXTENDS Integers

CONSTANTS Jobs, Workers, None,
          Unpaid  \* jobs whose completion earns nothing

VARIABLES phase, holder, paid

Phases == {"absent", "queued", "held", "done", "failed", "cancelled"}

Init ==
    /\ phase = [j \in Jobs |-> "absent"]
    /\ holder = [j \in Jobs |-> None]
    /\ paid = [j \in Jobs |-> [w \in Workers |-> 0]]

Becomes(j, p, h) ==
    /\ phase'[j] = p
    /\ holder'[j] = h
    /\ paid'[j] = paid[j]

Submit(j) == phase[j] = "absent" /\ Becomes(j, "queued", None)

\* Handed to a worker, possibly straight from the hands of another.
Hand(j, w) == phase[j] \in {"queued", "held"} /\ Becomes(j, "held", w)

Recall(j) == phase[j] = "held" /\ Becomes(j, "queued", None)

\* A worker finishes the job it holds, or one that was just recalled.
Finish(j, w) ==
    /\ phase[j] = "queued" \/ (phase[j] = "held" /\ holder[j] = w)
    /\ phase'[j] = "done"
    /\ holder'[j] = w
    /\ paid'[j] = IF j \in Unpaid THEN paid[j] ELSE [paid[j] EXCEPT ![w] = @ + 1]

GiveUp(j) ==
    /\ phase[j] \in {"queued", "held"}
    /\ Becomes(j, "failed", None) \/ Becomes(j, "failed", holder[j])

Cancel(j) == phase[j] \in {"queued", "held"} /\ Becomes(j, "cancelled", None)

Retry(j) == phase[j] = "failed" /\ Becomes(j, "queued", None)

Rest(j) == Becomes(j, phase[j], holder[j])

JobStep(j) ==
    \/ Submit(j) \/ Recall(j) \/ GiveUp(j) \/ Cancel(j) \/ Retry(j) \/ Rest(j)
    \/ \E w \in Workers : Hand(j, w) \/ Finish(j, w)

Next == \A j \in Jobs : JobStep(j)

Spec == Init /\ [][Next]_<<phase, holder, paid>>
=============================================================================
