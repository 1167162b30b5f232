---------------------------- MODULE MCScheduler ----------------------------
(* Two workers, a fast one that comes and goes and a slow one that stays,  *)
(* and a queue of jobs some of which nobody can run.                       *)
EXTENDS Scheduler

x == <<"x">>
y == <<"y">>
MCBackendsOf == [m \in {x, y} |-> {"cuda", "mps"}]
MCManifest == [size |-> x :> 2, peerOnly |-> {x}, unverified |-> {}]

Machine(backend, models) ==
    [nodes |-> {}, inventory |-> models, vram |-> 8, ram |-> 8, unified |-> None, freeRam |-> 8,
     disk |-> 20, backend |-> backend, gpus |-> {}, shim |-> FALSE, protocol |-> 5, autoFetch |-> TRUE, maxFetch |-> 10]
MCWorkerOf == <<[Machine("cuda", <<"dir", "x">> :> 2) EXCEPT !.gpus = {"rtx"}], Machine("mps", <<>>)>>

Asks(models, minVram) ==
    [nodes |-> {}, models |-> models, estVram |-> None, minVram |-> minVram, minDisk |-> None,
     backend |-> None, gpu |-> None]

\* The first insists on the fast worker's GPU, the second wants more memory than
\* there is, the third's model is nowhere and the fourth's is on the fast worker, for
\* which it is held while the first has just begun there.
MCNeedsOf == <<[Asks({}, None) EXCEPT !.gpu = "rtx"], Asks({}, 99), Asks({y}, None), Asks({x}, None)>>
MCPredict == <<<<140, 140>>, <<100, 400>>, <<100, 400>>, <<100, 400>>>>

\* Two nobody can run ahead of one anyone can.
MCBlockedNeedsOf == <<Asks({}, 99), Asks({}, 99), Asks({}, None)>>

\* Any three columns can be put in the order of the first row.
Values == {0, 1, 3, Forbidden}
Ordered == {<<0, 0, 0>>, <<0, 0, 2>>, <<0, 2, 2>>, <<0, 2, Forbidden>>, <<2, Forbidden, Forbidden>>}
MCMatrices ==
    [1 .. 2 -> [1 .. 2 -> Values]] \cup [1 .. 2 -> [1 .. 3 -> Values]] \cup [1 .. 3 -> [1 .. 2 -> Values]]
        \cup {<<first, second, third>> : first \in Ordered, second, third \in [1 .. 3 -> {0, 2, Forbidden}]}
MCNone == {}

\* Workers with every mix of models, memory, room and protocol.
MCFitLaw ==
    {[worker |-> [Machine("cuda", inventory) EXCEPT !.vram = vram, !.ram = ram, !.disk = disk, !.protocol = protocol],
      needs |-> [Asks(models, None) EXCEPT !.estVram = est]] :
        inventory \in {<<>>, <<"dir", "x">> :> 2, y :> 1}, vram \in {None, 2, 8}, ram \in {None, 2},
        disk \in {None, 1, 20}, protocol \in {2, 3, 4}, models \in SUBSET {x, y}, est \in {None, 3, 9}}
============================================================================
