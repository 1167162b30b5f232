-------------------------------- MODULE Fit --------------------------------
(***************************************************************************)
(* assess.ts: what a job needs, whether a worker can run it, now or after  *)
(* it has downloaded models, and what the whole fleet lacks.  Sizes are in *)
(* units of a gigabyte; a reason's wording is left out, its cause is not.  *)
(***************************************************************************)
EXTENDS Integers, Sequences, SequencesExt, FiniteSets, FiniteSetsExt

CONSTANTS
    None,         \* unknown, or not asked for
    BackendsOf    \* BackendsOf[model]: where its guide says the model runs

\* A worker: nodes (none known: {}), inventory (path -> size or None), vram, ram,
\* unified (its memory if CPU and GPU share it), freeRam, disk, backend, shim,
\* protocol, gpus (the substrings of its GPU's name), autoFetch and maxFetch.  A
\* job's needs: nodes, models, estVram, and what the user insists on: minVram,
\* minDisk, backend, gpu (what the GPU's name contains).  A manifest: the size of
\* each model on offer, those only peers have, those nobody has verified.

\* A needed name is matched by a path that ends in it, whole components only.
Matches(inventory, model) == {path \in DOMAIN inventory : IsSuffix(model, path)}
Has(worker, model) == Matches(worker.inventory, model) # {}
Missing(worker, needs) == {model \in needs.models : ~Has(worker, model)}

\* The largest size any of the fleet reports.
SizeIn(fleet, model) ==
    LET sizes == UNION {{w.inventory[path] : path \in Matches(w.inventory, model)} : w \in fleet}
    IN  IF sizes \subseteq {None} THEN None ELSE Max(sizes \ {None})

KnownSizes(models, fleet) == {model \in models : SizeIn(fleet, model) # None}

\* Fifteen in a hundred over.
Fudged(size) == (size * 115) \div 100

EstimateVram(models, fleet) ==
    LET known == KnownSizes(models, fleet)
    IN  IF known = {} THEN None ELSE Fudged(Max({SizeIn(fleet, m) : m \in known}))

EstimateResident(models, fleet) ==
    LET known == KnownSizes(models, fleet)
    IN  IF known = {} THEN None ELSE Fudged(MapThenSumSet(LAMBDA m : SizeIn(fleet, m), known))

FleetWideGaps(needs, fleet) ==
    [models |-> {m \in needs.models : \A w \in fleet : fleet # {} /\ ~Has(w, m)},
     nodes |-> {n \in needs.nodes : /\ \E w \in fleet : w.nodes # {}
                                    /\ \A w \in fleet : n \notin w.nodes}]

----------------------------------------------------------------------------
(* Downloading *)

MinAutoFetchProtocol == 3
MinPeerFetchProtocol == 4
MinUnverifiedFetchProtocol == 5

TotalOf(models, manifest) == MapThenSumSet(LAMBDA m : manifest.size[m], models)

\* Whether the worker downloads at all, and has the room: a fifth over.
FetchCapacity(worker, total) ==
    /\ worker.protocol >= MinAutoFetchProtocol
    /\ worker.autoFetch
    /\ total <= worker.maxFetch
    /\ worker.disk # None
    /\ worker.disk * 10 > total * 12

SpeaksFor(worker, models, manifest) ==
    /\ models \cap manifest.peerOnly # {} => worker.protocol >= MinPeerFetchProtocol
    /\ models \cap manifest.unverified # {} => worker.protocol >= MinUnverifiedFetchProtocol

OnOffer(missing, manifest) == missing \subseteq DOMAIN manifest.size

EligibleAfterFetch(worker, missing, manifest) ==
    /\ OnOffer(missing, manifest)
    /\ SpeaksFor(worker, missing, manifest)
    /\ FetchCapacity(worker, TotalOf(missing \cap DOMAIN manifest.size, manifest))

\* What a submission may count on: all that is on offer, if one worker can have it.
FleetFetchable(missing, manifest, online) ==
    LET covered == missing \cap DOMAIN manifest.size
    IN  IF \E w \in online : /\ FetchCapacity(w, TotalOf(covered, manifest))
                             /\ SpeaksFor(w, covered, manifest)
        THEN covered ELSE {}

----------------------------------------------------------------------------
(* The verdict *)

\* Memory the models spill into: none beyond the GPU's own when it is shared.
SpillRam(worker) == IF worker.unified = None /\ worker.ram # None THEN worker.ram ELSE worker.freeRam

ResidentFits(worker, needs, fleet) ==
    LET resident == EstimateResident(needs.models, fleet)
    IN  worker.unified # None /\ resident # None => resident * 100 <= worker.unified * 85

Spills(worker, needs) ==
    needs.estVram # None /\ worker.vram # None /\ needs.estVram > worker.vram

VramFits(worker, needs) ==
    Spills(worker, needs) /\ SpillRam(worker) # None =>
        needs.estVram <= worker.vram + SpillRam(worker)

\* What the user insists on is known to hold.
OverridesHold(worker, needs) ==
    /\ needs.minVram # None => worker.vram # None /\ worker.vram >= needs.minVram
    /\ needs.minDisk # None => worker.disk # None /\ worker.disk >= needs.minDisk
    /\ needs.backend # None => worker.backend = needs.backend
    /\ needs.gpu # None => needs.gpu \in worker.gpus

BackendFits(worker, needs) ==
    worker.backend # "cuda" /\ ~worker.shim => \A m \in needs.models : worker.backend \in BackendsOf[m]

Able(worker, needs, fleet) ==
    /\ worker.nodes # {} => needs.nodes \subseteq worker.nodes
    /\ ResidentFits(worker, needs, fleet) /\ VramFits(worker, needs)
    /\ OverridesHold(worker, needs) /\ BackendFits(worker, needs)

\* excluded: the job, or its kind of job, has failed there too often.
Verdict(worker, needs, fleet, manifest, excluded) ==
    LET missing == Missing(worker, needs)
        able == ~excluded /\ Able(worker, needs, fleet)
    IN  [kind |-> IF ~able THEN "ineligible"
                  ELSE IF missing = {} THEN "eligible"
                  ELSE IF EligibleAfterFetch(worker, missing, manifest) THEN "eligible_after_fetch"
                  ELSE "ineligible",
         warned |-> able /\ Spills(worker, needs),
         fetch |-> TotalOf(missing \cap DOMAIN manifest.size, manifest)]

\* The worker once it has downloaded what there is of what it lacked.
Fetched(worker, missing, manifest) ==
    LET had == missing \cap DOMAIN manifest.size
    IN  [worker EXCEPT !.inventory = [path \in DOMAIN @ \cup had |->
            IF path \in had THEN manifest.size[path] ELSE @[path]]]
============================================================================
