---------------------------- MODULE PanelEvents ----------------------------
(***************************************************************************)
(* What the panels of a job's owner are told: the hub relays each move of  *)
(* a job, and of a batch job's children under the batch job's own id, over *)
(* sockets that come and go.  Between a move and its frames the hub reads  *)
(* the job and its parent and counts the queue, so the frames of two moves *)
(* may cross.  The download stage an agent reports while it fetches models *)
(* is kept in memory beside them.  A move and what it does to the family   *)
(* is one step here: SplitFamily takes it apart.                           *)
(***************************************************************************)
EXTENDS Integers, FiniteSets

CONSTANTS Panels,      \* the owner's panel sockets
          Relays,      \* handlers at work at a time
          Split,       \* children a batch job has
          MaxBeats,    \* bounds of the model: heartbeats that report a download,
          MaxRequeues, \* jobs that go back to the queue,
          MaxConnects  \* and panels that connect

VARIABLES
  status,     \* job -> status; job 0 is the submitted one, the others its children
  stage,      \* fetchProgress: the jobs with an entry
  relay,      \* the handlers: their step, kind of move, job, frame and count
  beat,       \* the heartbeat at work: its step and job
  panel,      \* what each panel shows and was told
  beats, requeues, connects,   \* bounds
  cascaded,   \* history: children cancelled with their family
  overlapped, \* history: a handler began while another was at work
  broken      \* history: a handler broke off

bounds == <<beats, requeues, connects>>
vars == <<status, stage, relay, beat, panel, bounds, cascaded, overlapped, broken>>

Root == 0
Jobs == 0 .. Split
Kids == {j \in Jobs : j # Root /\ status[j] # "none"}
Live == {"queued", "assigned", "running"}
Held == {"assigned", "running"}

\* shows: "unknown" until a first frame.  late: connected after the job ended.
Off == [on |-> FALSE, shows |-> "unknown", told |-> {}, badge |-> 0, late |-> FALSE,
        greeting |-> FALSE, count |-> 0]

\* No handler.
Rest == [pc |-> "rest", kind |-> "none", job |-> Root, frame |-> "none", count |-> 0]

NoBeat == [pc |-> "rest", job |-> Root]

\* A job waits whole, or as a batch job's children.
Init ==
  /\ status \in {[j \in Jobs |-> IF j = Root THEN "queued" ELSE s] : s \in {"none", "queued"}}
  /\ stage = {}
  /\ relay = [h \in Relays |-> Rest]
  /\ beat = NoBeat
  /\ panel = [p \in Panels |-> Off]
  /\ beats = 0 /\ requeues = 0 /\ connects = 0
  /\ cascaded = {} /\ overlapped = FALSE /\ broken = FALSE

Calm == /\ \A h \in Relays : relay[h] = Rest
        /\ beat = NoBeat
        /\ \A p \in Panels : ~panel[p].greeting

Ended == status[Root] \notin Live

\* countQueueRemaining: a batch job counts once.
Count == IF Ended THEN 0 ELSE 1

----------------------------------------------------------------------------
(* Moves of the job and of its children.                                   *)

\* The batch job's status by its children's.
Derived(of) ==
  LET has == {of[j] : j \in Kids}
  IN  CASE "failed" \in has -> "failed"
        [] "failed" \notin has /\ "cancelled" \in has -> "cancelled"
        [] has = {"done"} -> "done"
        [] has \cap {"failed", "cancelled"} = {} /\ "running" \in has -> "running"
        [] has \cap {"failed", "cancelled", "running"} = {} /\ "assigned" \in has -> "assigned"
        [] OTHER -> "queued"

\* The family once job j is in status s: an ended parent stays, and a child
\* that fails or is cancelled ends its siblings.
Family(j, s) ==
  LET moved == [status EXCEPT ![j] = s]
  IN  IF j = Root \/ Ended THEN moved
      ELSE LET ends == Derived(moved) \in {"failed", "cancelled"}
           IN  [k \in Jobs |-> IF k = Root THEN Derived(moved)
                               ELSE IF ends /\ moved[k] \in Live THEN "cancelled" ELSE moved[k]]

\* Only the children of a batch job go to workers.
Dispatched(j) == IF Kids = {} THEN j = Root ELSE j \in Kids

Moves(j, s) ==
  /\ status' = Family(j, s)
  /\ cascaded' = cascaded \cup {k \in Kids \ {j} : status[k] \in Live /\ status'[k] = "cancelled"}

\* A move whose handler goes on to relay it.
Relayed(h, kind, j, s) ==
  /\ relay[h] = Rest
  /\ Moves(j, s)
  /\ relay' = [relay EXCEPT ![h] = [Rest EXCEPT !.pc = "look", !.kind = kind, !.job = j]]
  /\ requeues' = IF kind = "requeued" THEN requeues + 1 ELSE requeues
  /\ overlapped' = (overlapped \/ ~Calm)
  /\ UNCHANGED <<stage, beat, panel, beats, connects, broken>>

\* A push tells the panels nothing.
Claim(j) ==
  /\ Dispatched(j) /\ status[j] = "queued"
  /\ Moves(j, "assigned")
  /\ overlapped' = (overlapped \/ ~Calm)
  /\ UNCHANGED <<stage, relay, beat, panel, bounds, broken>>

Run(h, j) == Dispatched(j) /\ status[j] = "assigned" /\ Relayed(h, "running", j, "running")
Requeue(h, j) ==
  /\ Dispatched(j) /\ status[j] \in Held /\ requeues < MaxRequeues
  /\ Relayed(h, "requeued", j, "queued")

Done(h, j) == Dispatched(j) /\ status[j] \in Held /\ Relayed(h, "done", j, "done")

\* A final failure of its worker, or of a queued job nobody can run.
Fail(h, j) == Dispatched(j) /\ status[j] \in Live /\ Relayed(h, "failed", j, "failed")

Cancel(h, j) ==
  /\ j \in Kids \cup {Root} /\ status[j] \in Live
  /\ Relayed(h, "cancelled", j, "cancelled")

----------------------------------------------------------------------------
(* The frames.                                                             *)

Step(h, new) == relay' = [relay EXCEPT ![h] = new]

\* The moves that end a job's download stage.
Cleared(kind) == kind # "running"

\* The frame a move is relayed as.
Frame(kind, j) ==
  CASE kind = "running" -> "executing"
    [] kind = "requeued" /\ j # Root /\ status[Root] \notin {"queued", "assigned"} -> "none"
    [] kind = "failed" -> "error"
    [] kind = "done" -> IF j # Root /\ status[Root] # "done" THEN "none" ELSE "done"
    [] OTHER -> "idle"

\* The stage goes, and the job's parent is read.
Look(h) ==
  /\ relay[h].pc = "look"
  /\ stage' = IF Cleared(relay[h].kind) THEN stage \ {relay[h].job} ELSE stage
  /\ Step(h, [relay[h] EXCEPT !.pc = "post", !.frame = Frame(relay[h].kind, relay[h].job)])
  /\ UNCHANGED <<status, beat, panel, bounds, cascaded, overlapped, broken>>

\* A cancelled batch job has children left.
Unwalked(h) ==
  relay[h].kind = "cancelled" /\ relay[h].job = Root /\ \E k \in Kids : status[k] \in Live

Walk(h) ==
  /\ relay[h].pc = "post" /\ Unwalked(h)
  /\ status' = [k \in Jobs |-> IF k \in Kids /\ status[k] \in Live THEN "cancelled" ELSE status[k]]
  /\ cascaded' = cascaded \cup {k \in Kids : status[k] \in Live}
  /\ UNCHANGED <<stage, relay, beat, panel, bounds, overlapped, broken>>

\* Slip: a child's frame names the child.
PanelJobItself(j) == j

\* resolvePanelJobId, parentOf: panels know the submitted job only.
PanelJob(j) == Root

\* Whether the queue's count is sent too: a failed attempt that is retried
\* sends none, a job taken back from a silent or idle worker does.
Refreshes(kind) ==
  CASE kind = "running" -> {FALSE} [] kind = "requeued" -> BOOLEAN [] OTHER -> {TRUE}

\* A panel takes a frame about the job it knows.
Shown(p, frame) ==
  [p EXCEPT !.shows = IF frame \in {"executing", "error"} THEN frame ELSE "idle",
            !.told = @ \cup {frame}]

Post(h) ==
  /\ relay[h].pc = "post" /\ ~Unwalked(h)
  /\ panel' = [p \in Panels |->
       IF panel[p].on /\ relay[h].frame # "none" /\ PanelJob(relay[h].job) = Root
       THEN Shown(panel[p], relay[h].frame) ELSE panel[p]]
  /\ \E refreshes \in Refreshes(relay[h].kind) :
       Step(h, IF refreshes THEN [relay[h] EXCEPT !.pc = "count"] ELSE Rest)
  /\ UNCHANGED <<status, stage, beat, bounds, cascaded, overlapped, broken>>

CountQueue(h) ==
  /\ relay[h].pc = "count"
  /\ Step(h, [relay[h] EXCEPT !.pc = "badge", !.count = Count])
  /\ UNCHANGED <<status, stage, beat, panel, bounds, cascaded, overlapped, broken>>

Badge(h) ==
  /\ relay[h].pc = "badge"
  /\ panel' = [p \in Panels |-> IF panel[p].on THEN [panel[p] EXCEPT !.badge = relay[h].count]
                                ELSE panel[p]]
  /\ Step(h, Rest)
  /\ UNCHANGED <<status, stage, beat, bounds, cascaded, overlapped, broken>>

\* A read fails.
BreakOff(h) ==
  /\ relay[h] # Rest /\ ~broken
  /\ Step(h, Rest)
  /\ broken' = TRUE
  /\ UNCHANGED <<status, stage, beat, panel, bounds, cascaded, overlapped>>

\* The hub is evicted: what it keeps in memory goes, sockets in use stay.
Evict ==
  /\ ~broken
  /\ stage' = {}
  /\ relay' = [h \in Relays |-> Rest] /\ beat' = NoBeat
  /\ panel' = [p \in Panels |-> IF panel[p].greeting THEN Off ELSE panel[p]]
  /\ broken' = ~Calm
  /\ UNCHANGED <<status, bounds, cascaded, overlapped>>

----------------------------------------------------------------------------
(* Heartbeats of a job that downloads its models, and the panels.          *)

BeatRead(j) ==
  /\ beat = NoBeat /\ beats < MaxBeats
  /\ Dispatched(j) /\ status[j] \in Held
  /\ beat' = [pc |-> "set", job |-> j] /\ beats' = beats + 1
  /\ overlapped' = (overlapped \/ ~Calm)
  /\ UNCHANGED <<status, stage, relay, panel, requeues, connects, cascaded, broken>>

\* The stage is set, or cleared by a heartbeat that reports none.
BeatSet ==
  /\ beat.pc = "set"
  /\ stage' \in {stage \cup {beat.job}, stage \ {beat.job}}
  /\ beat' = NoBeat
  /\ UNCHANGED <<status, relay, panel, bounds, cascaded, overlapped, broken>>

\* A socket is accepted, and then the queue counted.
Connect(p) ==
  /\ ~panel[p].on /\ connects < MaxConnects
  /\ connects' = connects + 1
  /\ panel' = [panel EXCEPT ![p] = [Off EXCEPT !.on = TRUE, !.greeting = TRUE,
                                               !.late = Ended, !.count = Count]]
  /\ overlapped' = (overlapped \/ ~Calm)
  /\ UNCHANGED <<status, stage, relay, beat, beats, requeues, cascaded, broken>>

Greet(p) ==
  /\ panel[p].greeting
  /\ panel' = [panel EXCEPT ![p].greeting = FALSE, ![p].badge = panel[p].count]
  /\ UNCHANGED <<status, stage, relay, beat, bounds, cascaded, overlapped, broken>>

Disconnect(p) ==
  /\ panel[p].on
  /\ panel' = [panel EXCEPT ![p] = Off]
  /\ UNCHANGED <<status, stage, relay, beat, bounds, cascaded, overlapped, broken>>

Next ==
  \/ BeatSet \/ Evict
  \/ \E j \in Jobs : Claim(j) \/ BeatRead(j)
  \/ \E p \in Panels : Connect(p) \/ Greet(p) \/ Disconnect(p)
  \/ \E h \in Relays :
       \/ Walk(h) \/ Look(h) \/ Post(h) \/ CountQueue(h) \/ Badge(h) \/ BreakOff(h)
       \/ \E j \in Jobs : Run(h, j) \/ Requeue(h, j) \/ Done(h, j) \/ Fail(h, j) \/ Cancel(h, j)

Spec == Init /\ [][Next]_vars

----------------------------------------------------------------------------
Quiet == Calm /\ ~broken

\* Every panel that was there before the job ended has been told how it ended,
\* under the job's own id, however the handlers of its children overlapped
\* (panelJobDone, panelJobFailed, panelJobCancelled).
PanelsAreTold ==
  Quiet /\ Ended =>
    \A p \in Panels : panel[p].on /\ ~panel[p].late =>
      CASE status[Root] = "done" -> "done" \in panel[p].told
        [] status[Root] = "failed" -> "error" \in panel[p].told
        [] OTHER -> "idle" \in panel[p].told

\* A panel is never told a job is done that is not: a batch job is done when
\* its last child is, whoever reports it (panelJobDone).
DoneWhenDone == \A p \in Panels : "done" \in panel[p].told => status[Root] = "done"

\* While no handlers overlapped, a panel that has heard of the job shows it
\* executing whenever it runs, and not once it has ended, and its badge counts
\* the queue (panelJobRequeued, panelJobStatusRefresh).
PanelsFollow ==
  Quiet /\ ~overlapped =>
    \A p \in Panels : panel[p].on =>
      /\ panel[p].badge = Count
      /\ panel[p].shows # "unknown" /\ status[Root] = "running" => panel[p].shows = "executing"
      /\ Ended => panel[p].shows # "executing"

\* While no handlers overlapped, only jobs a worker holds have a download
\* stage, but for children cancelled with their family (fetchProgress).
StageOfHeldJobs ==
  Quiet /\ ~overlapped => stage \subseteq {j \in Jobs : status[j] \in Held} \cup cascaded

\* What the panels and the stages say of a batch job keeps in step with the
\* job, whichever children's handlers send it (panelJobDone and its like).
PanelsInStep == PanelsAreTold /\ DoneWhenDone /\ PanelsFollow /\ StageOfHeldJobs
=============================================================================
