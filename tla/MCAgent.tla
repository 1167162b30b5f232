------------------------------ MODULE MCAgent ------------------------------
(* An agent: its loop, registered with one platform; its fetch of a model  *)
(* from other agents and the web; and the sharing of a model that one      *)
(* worker has while another has a different file under the same name.  A   *)
(* run explores each of them, chosen by the initial state, and leaves the  *)
(* other two at rest.                                                      *)
EXTENDS Agent, TLC

CONSTANTS Chunks, MaxStalls, MaxAddresses, FetchTries,   \* of the fetch
          Workers, Grants, FileOf, Lists, NoGrant,       \* and of the sharing
          Units, MaxServed, MaxStreams, MaxReportAttempts, MaxStops

VARIABLES scene,
          entry, pc, part, file, list, left, of, before, stalls, blind, source, cancel, tries,
          row, telling, told, grant, serve, agent, due, posting, booking, receipts, late, stops

MCOnePlatform == [j \in Jobs |-> CHOOSE p \in Platforms : TRUE]

\* Two files under one name, one of them with its chunks hashed.
MCTwoFiles == [w \in Workers |-> IF w \in Lists THEN "other" ELSE "file"]

F == INSTANCE Fetch WITH MaxTries <- FetchTries

S == INSTANCE Sharing

\* What the theorems about the fetch and the sharing ask of the constants: a
\* file has a chunk, a new grant is asked for once at least, a report is tried
\* once at least, and no file's hash is the word for none.
ASSUME FetchAssumption ==
  /\ Chunks \in Nat \ {0} /\ MaxStalls \in Nat \ {0}
  /\ MaxAddresses \in Nat /\ FetchTries \in Nat
ASSUME SharingAssumption ==
  /\ Workers # {} /\ FileOf \in [Workers -> STRING \ {"none"}] /\ NoGrant \notin Grants
  /\ Units \in Nat /\ MaxServed \in Nat /\ MaxStreams \in Nat
  /\ MaxReportAttempts \in Nat \ {0} /\ MaxStops \in Nat

fetching == <<entry, pc, part, file, list, left, of, before, stalls, blind, source, cancel, tries>>
sharing == <<row, telling, told, grant, serve, agent, due, posting, booking, receipts, late, stops>>

MCInit ==
  /\ scene \in {"loop", "fetch", "sharing"}
  /\ Init /\ F!Init /\ S!Init
  /\ scene = "fetch" \/ entry = CHOOSE e \in F!Entries : TRUE

MCNext ==
  /\ UNCHANGED scene
  /\ \/ scene = "loop" /\ Next /\ UNCHANGED <<fetching, sharing>>
     \/ scene = "fetch" /\ F!Next /\ UNCHANGED <<vars, sharing>>
     \/ scene = "sharing" /\ S!Next /\ UNCHANGED <<vars, fetching>>

MCSpec == MCInit /\ [][MCNext]_<<scene, vars, fetching, sharing>>

\* The fairness of each part, while it is the one explored.
MCFairness ==
  /\ \A t \in Tasks : /\ WF_vars(scene = "loop" /\ Works(t))
                      /\ WF_vars(scene = "loop" /\ ReadQueue(t))
                      /\ WF_vars(scene = "loop" /\ Strike(t))
  /\ WF_vars(scene = "loop" /\ Shutdown) /\ WF_vars(scene = "loop" /\ Exit)
  /\ WF_fetching(scene = "fetch" /\ F!Proceed)
  /\ \A g \in Grants : /\ WF_sharing(scene = "sharing" /\ S!Expire(g))
                        /\ WF_sharing(scene = "sharing" /\ S!Serving(g))
  /\ \A w \in Workers : /\ WF_sharing(scene = "sharing" /\ S!Collect(w))
                         /\ WF_sharing(scene = "sharing" /\ S!Post(w))
                         /\ WF_sharing(scene = "sharing" /\ S!TimeOut(w))
                         /\ WF_sharing(scene = "sharing" /\ S!Exit(w))

MCFairSpec == MCSpec /\ MCFairness

SymmetricJobs == Permutations(Jobs)

FilesAreWhole == scene = "fetch" => F!FilesAreWhole

SharingSound == scene = "sharing" => S!SharingSound

FetchEnds == F!FetchEnds
ReportSettled == S!ReportSettled
=============================================================================
