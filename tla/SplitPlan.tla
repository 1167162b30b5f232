----------------------------- MODULE SplitPlan -----------------------------
(***************************************************************************)
(* Which workflows the cloud may split into children, and what it hands a  *)
(* child.  A workflow is a graph of nodes: the one latent link of a node,  *)
(* which only counts when it takes slot 0 of its source, and one other     *)
(* link stand for its inputs, and a node's class for the lists it is in.   *)
(***************************************************************************)
EXTENDS Integers, FiniteSets, FiniteSetsExt, Functions

CONSTANTS
    NodeIds,    \* the nodes a workflow may have
    Cut,        \* the node a child gets, LatentFromBatch
    NoLink,
    NoBatch,    \* the node has no batch_size
    MaxBatch,   \* the largest batch_size
    MaxSplit

\* A sampler is a latent pass-through too, as "pass" is; no custom node is safe.
Classes == {"source", "sampler", "pass", "plain", "output", "custom"}

Nodes == [class: Classes, batch: {NoBatch} \cup 1 .. MaxBatch,
          latent: NodeIds \cup {Cut, NoLink}, slot0: BOOLEAN,
          other: NodeIds \cup {Cut, NoLink}]

Sources(flow) ==
    {n \in DOMAIN flow : flow[n].class = "source" /\ flow[n].batch \notin {NoBatch, 1}}

\* The latent chain from node n, through pass-throughs, reaches the target: reaches[d]
\* are the nodes that do in d links at most.
ReachesBatchSource(flow, n, target) ==
    LET through == {m \in DOMAIN flow : flow[m].class \in {"sampler", "pass"} /\ flow[m].slot0}
        reaches[d \in 0 .. Cardinality(DOMAIN flow)] ==
            {target} \cup IF d = 0 THEN {} ELSE {m \in through : flow[m].latent \in reaches[d - 1]}
    IN  n \in reaches[Cardinality(DOMAIN flow)]

\* Some chain of links, of any slot, leads from node n back to the target.
HasAncestor(flow, n, target) ==
    LET has[d \in 0 .. Cardinality(DOMAIN flow)] ==
            {target} \cup IF d = 0 THEN {}
                         ELSE {m \in DOMAIN flow : flow[m].latent \in has[d - 1] \/ flow[m].other \in has[d - 1]}
    IN  n \in has[Cardinality(DOMAIN flow)]

\* A sampler that takes a latent takes it from the batch.
SamplesTheBatch(flow, n, source) ==
    flow[n].class = "sampler" /\ flow[n].latent # NoLink =>
        flow[n].slot0 /\ ReachesBatchSource(flow, flow[n].latent, source)

\* The conditions on a workflow, its only batch source given.
Splittable(flow, source) ==
    /\ Sources(flow) = {source}
    /\ \A n \in DOMAIN flow :
          /\ n # source => flow[n].batch = NoBatch
          /\ flow[n].class # "custom"
          /\ SamplesTheBatch(flow, n, source)
          /\ flow[n].class = "output" => HasAncestor(flow, n, source)

\* The workflow of a child: whoever took the batch from slot 0 takes the cut.
ChildWorkflow(flow, source) ==
    LET Rewired(node) ==
            [node EXCEPT !.latent = IF @ = source /\ node.slot0 THEN Cut ELSE @,
                         !.other = IF @ = source THEN Cut ELSE @]
        cut == [class |-> "pass", batch |-> NoBatch, latent |-> source, slot0 |-> TRUE,
                other |-> NoLink]
    IN  [n \in DOMAIN flow \cup {Cut} |-> IF n = Cut THEN cut ELSE Rewired(flow[n])]

----------------------------------------------------------------------------
(* The images of each child *)

\* The first children take one more while there is a remainder.
Length(batch, count, index) ==
    batch \div count + IF index < batch % count THEN 1 ELSE 0

\* The images of each child, counted from 0.
Partition(batch, k) ==
    LET count == Max({1, Min({k, batch, MaxSplit})})
        start[i \in 0 .. count] == IF i = 0 THEN 0 ELSE start[i - 1] + Length(batch, count, i - 1)
    IN  [i \in 0 .. count - 1 |-> start[i] .. start[i] + Length(batch, count, i) - 1]
============================================================================
