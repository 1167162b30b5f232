----------------------------- MODULE MCStorage ------------------------------
(* The result files of a job and the files of a user share no state: a run  *)
(* explores each of them, chosen by the initial state.                      *)
EXTENDS Files, TLC

CONSTANTS Workers, Names, Garbage, MaxStarts, MaxMoves,  \* of Artifacts
          a, b, g, s1

VARIABLES part,
          direct, row, store, tokens, request, sweep, starts, moves, exact, stale, late, revived

MCSizeOf == [c \in {a, b, g} |-> IF c = a THEN 1 ELSE 2]
MCShared == [k \in {s1} |-> a]

A == INSTANCE Artifacts WITH Requests <- Clients

\* What the proofs about result files assume of the constants.
ASSUME ResultsAssumption ==
  /\ IsFiniteSet(Names) /\ None \notin Names \cup Workers \cup {Garbage} /\ None \notin Nat
  /\ Contents # {} /\ SizeOf[Garbage] \in Nat
  /\ None \notin [status : {"queued", "running", "done", "failed", "cancelled"},
                   holder : Workers \cup {None}, last : Workers \cup {None}, old : BOOLEAN,
                   files : SUBSET Names, hashes : [Names -> Contents \cup {None}],
                   bytes : Nat \cup {None}]

results == <<direct, row, store, tokens, request, sweep, starts, moves, exact, stale, late, revived>>

MCInit ==
  /\ part \in {"artifacts", "files"}
  /\ Init /\ A!Init
  /\ IF part = "files" THEN direct /\ row.status = "done"
     ELSE file = [k \in Keys |-> None]

MCNext ==
  /\ UNCHANGED part
  /\ \/ part = "artifacts" /\ A!Next /\ UNCHANGED vars
     \/ part = "files" /\ Next /\ UNCHANGED results

MCSpec == MCInit /\ [][MCNext]_<<part, vars, results>>

\* Where something happened that the counter cannot follow, a third request is left
\* out unless two carry one token: what is still checked there needs no more.
TwoAreEnough ==
  part = "artifacts" =>
    exact \/ starts < MaxStarts \/ \A r \in Clients : request[r] # A!Idle /\ request[r].kind = "raw"

Symmetry ==
  Permutations(Clients) \cup Permutations(Workers) \cup Permutations(Names)

ResultsKept == A!ResultsKept
==============================================================================
