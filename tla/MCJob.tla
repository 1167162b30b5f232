------------------------------- MODULE MCJob -------------------------------
(* What happens to a job and its family between the statements of the      *)
(* hub's handlers: the job's own row, a batch job and its children, what   *)
(* the owner's panels are told, what a completion teaches, and the jobs    *)
(* that only download a model.  A run explores each of them, chosen by the *)
(* initial state, and leaves the others at rest.                           *)
EXTENDS OwnedGate, Sequences, TLC

CONSTANTS
    \* of the family, of the panels, of what is learnt, of the downloads
    NodeIds, Cut, NoLink, NoBatch, MaxBatch, MaxSplit, FamilyHandlers, Workflows, Law,
    Panels, Relays, Split, MaxBeats, MaxRequeues, MaxConnects,
    Learners, Runners, Signatures, PriorOf, Pasts, LaterRuns, BackfillLimit, MaxCompletions, MaxMishaps,
    FetchWorkers, Capable, Requests, Good, Other, Conflict, MaxFaults

VARIABLES part,
          parent, kid, planner, family, paid, retried, overlapped, broken,
          status, stage, relay, beat, panel, beats, requeues, connects,
          cascaded, crossed, lost,
          table, speed, flag, short, receipts, learning, fill, troubles, clean, died,
          guide, hashes, disk, listed, online, request, download, tick, frame, faults, pressed, removed

Node(class, batch, latent, other) ==
    [class |-> class, batch |-> batch, latent |-> latent, slot0 |-> TRUE, other |-> other]

\* One that may be split, and one with a custom node.
MCWorkflows ==
    LET flow == (1 :> Node("source", 3, NoLink, NoLink)) @@ (2 :> Node("sampler", NoBatch, 1, NoLink))
                @@ (3 :> Node("output", NoBatch, NoLink, 2))
    IN  {flow, [flow EXCEPT ![2].class = "custom"]}

\* A source and two nodes of any class and links.  A source has one output.
MCLaw ==
    LET some == {n \in [class: {"source", "sampler", "pass", "plain", "output", "custom"},
                        batch: {NoBatch, 2}, latent: {1, 2, 3, NoLink},
                        slot0: BOOLEAN, other: {1, 2, 3, NoLink}] :
                    /\ n.latent \in {1, NoLink} => n.slot0
                    /\ n.class # "source" => n.batch = NoBatch}
    IN  {(1 :> Node("source", 2, NoLink, NoLink)) @@ (2 :> a) @@ (3 :> b) : a \in some, b \in some}

S == INSTANCE SplitFamily WITH Handlers <- FamilyHandlers, hand <- family

P == INSTANCE PanelEvents WITH overlapped <- crossed, broken <- lost

ASSUME PanelsAssumption == Split \in Nat

\* No workflow has a node of the cut's name, and whoever takes a latent of the only
\* batch source takes the one output it has.
ASSUME FamilyAssumption ==
    /\ MaxBatch \in Nat /\ MaxSplit \in Nat /\ IsFiniteSet(NodeIds) /\ Cut \notin NodeIds
    /\ \A flow \in Workflows \cup Law :
          DOMAIN flow \subseteq NodeIds /\ flow \in [DOMAIN flow -> S!Nodes]
    /\ \A flow \in Law : \A s, m \in DOMAIN flow :
          S!Sources(flow) = {s} /\ flow[m].latent = s => flow[m].slot0

\* The second worker is taken for the slower.
MCRunners == {1, 2}
MCSignatures == {"a", "b"}
MCPriorOf == <<100, 70>>

\* With a replay of two receipts, one worker learns twice, or an older receipt is out of
\* reach.
Ran(w, s, seconds, kind) == [key |-> <<w, s>>, seconds |-> seconds, kind |-> kind]
MCPasts ==
    {<<Ran(1, "a", 40, "old"), Ran(1, "a", 90, "old")>>,
     <<Ran(1, "b", 40, "old"), Ran(1, "a", 40, "old"), Ran(2, "a", 90, "old")>>}
MCLaterRuns ==
    {Ran(1, "a", 40, "whole"), Ran(2, "a", 90, "whole"), Ran(2, "a", 40, "whole"),
     Ran(1, "a", 9, "child")}

L == INSTANCE Stats WITH
       Workers <- Runners, Handlers <- Learners, Histories <- Pasts, Runs <- LaterRuns,
       MaxTrouble <- MaxMishaps, hand <- learning, broken <- died

\* What a backend is taken for is a speed, and the receipts from before the statistics
\* are told from later ones.
ASSUME LearningAssumption ==
    /\ IsFiniteSet(Learners) /\ BackfillLimit \in Nat /\ None \notin Int
    /\ PriorOf \in [Runners -> 10 .. 1000]
    /\ \A past \in Pasts : past \in Seq(L!Receipt) /\ \A i \in DOMAIN past : past[i].kind = "old"
    /\ \A run \in LaterRuns : run \in L!Receipt /\ run.kind # "old"

F == INSTANCE FetchJobs WITH
       Workers <- FetchWorkers, MaxTrouble <- MaxFaults,
       row <- hashes, job <- download, troubles <- faults, crossed <- pressed

ASSUME FetchJobsAssumption == None \notin {Good, Other, F!Unhashed}

families == <<parent, kid, planner, family, paid, retried, overlapped, broken>>
panels == <<status, stage, relay, beat, panel, beats, requeues, connects, cascaded, crossed, lost>>

learnt == <<table, speed, flag, short, receipts, learning, fill, troubles, clean, died>>
downloads == <<guide, hashes, disk, listed, online, request, download, tick, frame, faults, pressed, removed>>

MCInit ==
  /\ part \in {"gate", "family", "panels", "stats", "downloads"}
  /\ Init /\ S!Init /\ P!Init /\ L!Init /\ F!Init
  /\ part = "panels" \/ status[1] = "none"
  /\ part = "stats" \/ Len(receipts) = 2
  /\ part = "downloads" \/ (guide = "nothing" /\ disk = [w \in FetchWorkers |-> None])

MCNext ==
  /\ UNCHANGED part
  /\ \/ part = "gate" /\ Next /\ UNCHANGED <<families, panels, learnt, downloads>>
     \/ part = "family" /\ S!Next /\ UNCHANGED <<vars, panels, learnt, downloads>>
     \/ part = "panels" /\ P!Next /\ UNCHANGED <<vars, families, learnt, downloads>>
     \/ part = "stats" /\ L!Next /\ UNCHANGED <<vars, families, panels, downloads>>
     \/ part = "downloads" /\ F!Next /\ UNCHANGED <<vars, families, panels, learnt>>

MCSpec == MCInit /\ [][MCNext]_<<part, vars, families, panels, learnt, downloads>>

\* Bounds: of three handlers of the job no more than two overlap; the third is for
\* those that follow each other.  Once panel handlers have crossed, no property
\* is about the download stages, which decide no step: heartbeats are left out.
\* Where two presses of the download button have crossed, nothing else goes wrong.
Bounds ==
  /\ part = "gate" => /\ Cardinality(InProgress) <= 2
                      /\ mixed => \E h \in Handlers : At(h, "ready")
  /\ part = "panels" /\ crossed => beats = 0
  /\ part = "downloads" /\ pressed => faults = 0 \/ \E r \in DOMAIN download : download[r].status = "failed"

\* The workers of one part and the handlers of the others have the same names.
Symmetric == Permutations(Workers) \cup Permutations(FetchWorkers)

\* As long as handlers did not overlap, a job that is done or cancelled stays so, whatever
\* claim, requeue, sweep, retry or error comes between a handler's statements; and
\* an ended parent stays as it ended unless a user retries it, even if handlers
\* break off half way, as long as no two overlap (refreshParent's early return).
EndsAreFinal ==
  [][/\ ~mixed' /\ row.status \in {"done", "cancelled"} => row'.status = row.status
     /\ parent.status \in S!Terminal /\ ~overlapped' /\ parent'.status # parent.status => S!Retry
    ]_<<vars, families>>

SplitSound == part = "family" => S!SplitSound
FamilyAgrees == part = "family" => S!FamilyAgrees
CancelledPayIsDue == part = "family" => S!CancelledPayIsDue

PanelsInStep == part = "panels" => P!PanelsInStep

StatsSound == part = "stats" => L!StatsSound
FetchJobsSound == part = "downloads" => F!FetchJobsSound
=============================================================================
