--------------------------- MODULE MachineProofs ---------------------------
(***************************************************************************)
(* What holds of the parts of the agent's machine however often they fail  *)
(* and for any bounds: the ComfyUI update, the agent's process, the hub's  *)
(* verdict on its address, its registrations and its port mapping.  Each   *)
(* theorem is about one part by itself; parts that name a variable alike   *)
(* share no more than the name.                                            *)
(***************************************************************************)
EXTENDS MCMachine, FiniteSetTheorems, TLAPS

----------------------------------------------------------------------------
(* The ComfyUI update *)

ComfyPcs == {"rest", "announce", "fetch", "checkout", "pip", "stop", "start", "wait",
             "back", "backpip", "backstart"}

ComfyTypes ==
    /\ update \in [pc: ComfyPcs, prev: C!Refs]
    /\ repo \in C!Refs
    /\ serving \in C!Refs \cup {C!Nobody}

\* What is checked out, installed and answering, as far as nothing was damaged.
Undamaged ==
    LET pc == update.pc IN
    /\ pc \in {"rest", "announce", "fetch"} => serving = repo /\ deps = repo
    /\ pc \in {"announce", "fetch"} => update.prev = repo
    /\ pc \notin {"rest", "announce", "fetch"} => update.prev = "old"
    /\ pc = "checkout" => repo = "old" /\ serving = "old" /\ deps = "old"
    /\ pc = "pip" => repo = "new" /\ serving = "old" /\ deps = "old"
    /\ pc = "stop" => repo = "new" /\ serving = "old" /\ deps = "new"
    /\ pc \in {"start", "back"} => repo = "new" /\ serving = C!Nobody /\ deps = "new"
    /\ pc = "wait" => repo = "new" /\ serving \in {"new", C!Nobody} /\ deps = "new"
    /\ pc = "backpip" => repo = "old" /\ serving = C!Nobody
    /\ pc = "backstart" => repo = "old" /\ serving = C!Nobody /\ deps = "old"
    /\ status = "ok" => repo = "new"

ComfyInv ==
    /\ ComfyTypes
    /\ C!Updating => status # "ok" /\ comfyJob # "running"
    /\ ~damaged => Undamaged

LEMMA ComfyInit == C!Init => ComfyInv
BY DEF C!Init, C!Rest, C!Refs, C!Nobody, C!Updating, ComfyInv, ComfyTypes, ComfyPcs, Undamaged

LEMMA ComfyNext == ComfyInv /\ [C!Next]_C!vars => ComfyInv'
<1> SUFFICES ASSUME ComfyInv, [C!Next]_C!vars PROVE ComfyInv'
    OBVIOUS
<1> USE DEF ComfyInv, ComfyTypes, ComfyPcs, Undamaged, C!Refs, C!Nobody, C!Updating, C!At, C!Rest
<1>1. CASE C!Command
    BY <1>1 DEF C!Command, C!Spawn, C!Busy, C!machine, C!work
<1>2. CASE C!Poll
    BY <1>2 DEF C!Poll, C!Spawn, C!Busy, C!machine, C!work
<1>3. CASE C!Announce
    BY <1>3 DEF C!Announce, C!machine
<1>4. CASE C!Fetch
    BY <1>4 DEF C!Fetch, C!End, C!Step, C!Fault
<1>5. CASE C!Checkout
    BY <1>5 DEF C!Checkout, C!End, C!Step, C!Fault
<1>6. CASE C!Pip
    <2>1. update.pc = "pip" /\ UNCHANGED <<comfyJob, pending, up>> /\ UNCHANGED serving
        BY <1>6 DEF C!Pip, C!Step
    <2>2. CASE deps' = "new" /\ update' = [update EXCEPT !.pc = "stop"] /\ UNCHANGED <<repo, status, damaged>>
        BY <2>1, <2>2
    <2>3. CASE /\ update' = [pc |-> "rest", prev |-> "old"] /\ status' = "failed"
               /\ \E d \in {deps, "partly"}, r \in {update.prev, repo} :
                     deps' = d /\ repo' = r /\ damaged' = (damaged \/ r # update.prev \/ d = "partly")
        <3>1. PICK d \in {deps, "partly"}, r \in {update.prev, repo} :
                 deps' = d /\ repo' = r /\ damaged' = (damaged \/ r # update.prev \/ d = "partly")
            BY <2>3
        <3>2. update.prev \in C!Refs /\ r \in C!Refs
            OBVIOUS
        <3>3. ~damaged' => ~damaged /\ r = update.prev /\ d = deps
            BY <3>1
        <3>4. ~damaged' => update.prev = "old" /\ serving = "old" /\ deps = "old"
            BY <2>1, <3>3
        <3>5. ~damaged' => repo' = "old" /\ deps' = "old" /\ serving' = "old"
            BY <2>1, <3>1, <3>3, <3>4
        <3>6. repo' \in C!Refs
            BY <3>1, <3>2
        <3> QED
            BY <2>1, <2>3, <3>5, <3>6
    <2> QED
        BY <1>6, <2>2, <2>3 DEF C!Pip, C!End, C!Before
<1>7. CASE C!Stop
    BY <1>7 DEF C!Stop, C!End, C!Step, C!Fault
<1>8. CASE C!Start
    BY <1>8 DEF C!Start, C!End, C!Step, C!Fault, C!Launched, C!ComesUp
<1>9. CASE C!WaitReady
    BY <1>9 DEF C!WaitReady, C!End, C!Step, C!Ready
<1>10. CASE C!RollBack
    BY <1>10 DEF C!RollBack, C!End, C!Step, C!Fault, C!Before
<1>11. CASE C!RollBackPip
    BY <1>11 DEF C!RollBackPip, C!End, C!Step, C!Fault
<1>12. CASE C!RollBackStart
    <2>1. update.pc = "backstart" /\ UNCHANGED <<comfyJob, pending, up>> /\ UNCHANGED <<repo, deps>>
        BY <1>12 DEF C!RollBackStart, C!Step
    <2>2. update' = [pc |-> "rest", prev |-> "old"] /\ status' \in {"manual", "failed"}
        BY <1>12 DEF C!RollBackStart, C!End
    <2>3. CASE damaged' = TRUE /\ UNCHANGED serving
        BY <2>1, <2>2, <2>3
    <2>4. CASE C!Launched(repo) /\ UNCHANGED damaged
        BY <2>1, <2>2, <2>4 DEF C!Launched, C!ComesUp
    <2> QED
        BY <1>12, <2>3, <2>4 DEF C!RollBackStart
<1>13. CASE C!Push \/ C!Take \/ C!JobEnds
    BY <1>13 DEF C!Push, C!Take, C!JobEnds, C!machine
<1>14. CASE C!AgentDies
    <2>1. /\ update' = [pc |-> "rest", prev |-> "old"] /\ status' = "none" /\ UNCHANGED <<repo, deps, serving>>
          /\ ~damaged' => ~damaged /\ update.pc \in {"rest", "announce", "fetch", "checkout"}
        BY <1>14 DEF C!AgentDies, C!machine
    <2> QED
        BY <2>1
<1>16. CASE C!AgentReturns
    BY <1>16 DEF C!AgentReturns, C!machine
<1>15. CASE UNCHANGED C!vars
    BY <1>15 DEF C!vars
<1> QED
    BY <1>1, <1>2, <1>3, <1>4, <1>5, <1>6, <1>7, <1>8, <1>9, <1>10, <1>11, <1>12, <1>13, <1>14, <1>15, <1>16
    DEF C!Next

\* However commands and jobs come in between, whichever steps of an update fail
\* and wherever the agent dies: as long as no step failed or was cut off in a way
\* nothing repairs, "ok" means that the new release answers, and with the task at
\* rest something answers that runs what is checked out.  After such damage
\* neither is claimed.  Damaged or not, ComfyUI is not taken down under a job but
\* one that the hub pushed before it heard of the update.
THEOREM UpdateSoundHolds == C!Spec => []UpdateSound
<1>1. C!Init => ComfyInv
    BY ComfyInit
<1>2. ComfyInv /\ [C!Next]_C!vars => ComfyInv'
    BY ComfyNext
<1>3. ComfyInv => UpdateSound
    BY DEF UpdateSound, ComfyInv, ComfyTypes, Undamaged, C!UpdateSound, C!OkIsTheNewRelease, C!NeverStranded,
           C!JobsAreSpared, C!Updating, C!Refs, C!Nobody, ComfyPcs
<1> QED
    BY <1>1, <1>2, <1>3, PTL DEF C!Spec

----------------------------------------------------------------------------
(* The agent's process *)

ProcessTypes ==
    /\ proc \in {"down", "starting", "running", "exiting"}
    /\ install \subseteq {"asking", "installing"}
    /\ exitCode \in {0, 75}
    /\ wish \in {"run", "stop"}

\* The control loop runs with the process; a process that starts is not ending.
Living ==
    /\ control => proc = "running"
    /\ proc = "running" => control
    /\ proc = "starting" => ~shutdown
    /\ proc = "exiting" /\ shutdown => ~stateFile

\* A stop asked of the running process is waiting, or has been taken: then no
\* update begins any more but one that was under way or is asked for now.
StopHeard ==
    /\ proc = "starting" /\ wish = "stop" => early
    /\ proc \in {"running", "exiting"} /\ wish = "stop" /\ ~early /\ ~stopFile
          => shutdown /\ (underway \/ (install = {} /\ exitCode = 0))
    /\ proc = "running" /\ wish = "stop" /\ ~early => stopFile \/ shutdown
    /\ disobeyed => underway /\ ~stopFile

ProcessInv == ProcessTypes /\ Living /\ StopHeard

LEMMA ProcessInit == P!Init => ProcessInv
BY DEF P!Init, ProcessInv, ProcessTypes, Living, StopHeard

LEMMA ProcessNext == ProcessInv /\ [P!Next]_P!vars => ProcessInv'
<1> SUFFICES ASSUME ProcessInv, [P!Next]_P!vars PROVE ProcessInv'
    OBVIOUS
<1> USE DEF ProcessInv, ProcessTypes, Living, StopHeard,
            P!operator, P!said, P!releases, P!files, P!tasks
<1>1. CASE P!OperatorStarts
    BY <1>1 DEF P!OperatorStarts, P!Launched
<1>2. CASE P!OperatorStops
    BY <1>2 DEF P!OperatorStops
<1>3. CASE P!Publish
    BY <1>3 DEF P!Publish
<1>4. CASE P!RunAsItIs
    BY <1>4 DEF P!RunAsItIs
<1>5. CASE P!SelfUpdate
    BY <1>5 DEF P!SelfUpdate
<1>6. CASE P!Blocked
    BY <1>6 DEF P!Blocked
<1>7. CASE P!ControlTick
    BY <1>7 DEF P!ControlTick
<1>8. CASE P!JobStarts
    BY <1>8 DEF P!JobStarts
<1>9. CASE P!JobEnds
    BY <1>9 DEF P!JobEnds, P!Applies
<1>10. CASE P!UpdateAsked
    BY <1>10 DEF P!UpdateAsked
<1>11. CASE P!Decide
    BY <1>11 DEF P!Decide
<1>12. CASE P!Installed
    BY <1>12 DEF P!Installed
<1>13. CASE P!StopControlLoop
    BY <1>13 DEF P!StopControlLoop, P!ControlStopped
<1>14. CASE P!Exit
    <2>1. /\ proc = "exiting" /\ install' = {} /\ control' = FALSE
          /\ UNCHANGED <<stopFile, stateFile, wish, underway>>
        BY <1>14 DEF P!Exit, P!Gone
    <2>2. CASE exitCode = 75
        <3>1. /\ proc' = "starting" /\ shutdown' = FALSE /\ exitCode' = 0 /\ early' = TRUE
              /\ disobeyed' = (disobeyed \/ (wish = "stop" /\ ~stopFile /\ ~early))
            BY <1>14, <2>2 DEF P!Exit
        <3>2. disobeyed' => disobeyed \/ (wish = "stop" /\ ~stopFile /\ ~early)
            BY <3>1
        <3>3. disobeyed' => underway /\ ~stopFile
            BY <2>1, <2>2, <3>2
        <3> QED
            BY <2>1, <3>1, <3>3
    <2>3. CASE exitCode # 75
        BY <1>14, <2>1, <2>3 DEF P!Exit
    <2> QED
        BY <2>2, <2>3
<1>15. CASE P!Crash
    BY <1>15 DEF P!Crash, P!Gone
<1>16. CASE UNCHANGED P!vars
    BY <1>16 DEF P!vars
<1> QED
    BY <1>1, <1>2, <1>3, <1>4, <1>5, <1>6, <1>7, <1>8, <1>9, <1>10, <1>11, <1>12, <1>13, <1>14, <1>15, <1>16
    DEF P!Next

\* Whatever crashes, starts, updates and jobs come in between: a stop asked of
\* a running agent waits for its control loop or is being carried out; an update
\* turns it into a restart only if it was being decided or installed when the
\* stop was taken or was asked for during the wind-down, never because it waited
\* behind a job; and an agent that ended in order is not published as running.
THEOREM ProcessSoundHolds == P!Spec => []ProcessSound
<1>1. P!Init => ProcessInv
    BY ProcessInit
<1>2. ProcessInv /\ [P!Next]_P!vars => ProcessInv'
    BY ProcessNext
<1>3. ProcessInv => ProcessSound
    BY DEF ProcessSound, ProcessInv, Living, StopHeard, P!ProcessSound, P!StopNotForgotten, P!StopBeatsDeferredUpdate,
           P!StateGoneWithAgent
<1> QED
    BY <1>1, <1>2, <1>3, PTL DEF P!Spec

----------------------------------------------------------------------------
(* The hub's verdict on the address *)

Verdicts == {H!Unknown, H!Reached, H!Unreached}

CheckStates == [id: Nat, url: Urls, ws: Nat, onChange: BOOLEAN,
                pc: {"begin", "probing", "writing", "telling"}, previous: Verdicts, found: Verdicts]

HealthTypes ==
    /\ worker \in [url: Urls \cup {H!NoUrl}, reachable: Verdicts, of: Urls \cup {H!NoUrl}, old: BOOLEAN]
    /\ checks \subseteq CheckStates
    /\ agentConn \in Nat /\ hellos \in Nat /\ started \in Nat

\* The checks are of the address the row holds, and so is its verdict.
Placed ==
    /\ \A c \in checks : c.url = worker.url
    /\ worker.reachable # H!Unknown => worker.of = worker.url

\* What one check by itself may rely on.
Relies(c) ==
    /\ c.url = worker.url
    /\ agentConn # 0 => c.ws = agentConn
    /\ c.pc \in {"probing", "writing"} => c.previous = worker.reachable
    /\ c.pc \in {"writing", "telling"} => c.found \in {H!Reached, H!Unreached}
    /\ c.pc = "telling" => worker.reachable = c.found

\* The check has written what the agent is still to hear.
Owes(c) == c.pc = "telling" /\ H!Tells(c)

Told == shown = [reachable |-> worker.reachable, url |-> worker.url]

Straight ==
    /\ \A c, d \in checks : c = d
    /\ \A c \in checks : Relies(c)
    /\ agentConn # 0 /\ worker.reachable # H!Unknown /\ (\A c \in checks : ~Owes(c)) => Told

HealthInv ==
    /\ HealthTypes
    /\ agentConn # 0 => advert = worker.url
    /\ ~misplaced => Placed
    /\ ~missed => Straight

LEMMA HealthInit == H!Init => HealthInv
<1> SUFFICES ASSUME H!Init PROVE HealthInv
    OBVIOUS
<1>1. worker = [url |-> H!NoUrl, reachable |-> H!Unknown, of |-> H!NoUrl, old |-> TRUE]
    BY DEF H!Init
<1>2. agentConn = 0 /\ hellos = 0 /\ started = 0 /\ checks = {}
    BY DEF H!Init
<1>3. HealthTypes
    BY <1>1, <1>2 DEF HealthTypes, Verdicts
<1>4. Placed /\ Straight
    BY <1>1, <1>2 DEF Placed, Straight
<1> QED
    BY <1>2, <1>3, <1>4 DEF HealthInv

\* A step of a check.
CheckStep(c) ==
    \/ H!SkipHostName(c) \/ H!ReadPrevious(c) \/ H!Probe(c)
    \/ H!Record(c) \/ H!Tell(c) \/ H!LoseCheck(c)

LEMMA HealthTypesNext == HealthTypes /\ [H!Next]_H!vars => HealthTypes'
<1> SUFFICES ASSUME HealthTypes, [H!Next]_H!vars PROVE HealthTypes'
    OBVIOUS
<1> USE DEF HealthTypes, Verdicts
<1>0. ASSUME NEW u \in Urls, NEW onChange \in BOOLEAN, agentConn' \in Nat, H!Schedule(u, onChange)
      PROVE  checks' \subseteq CheckStates /\ started' \in Nat
    <2>1. H!Scheduled(u, onChange) \in CheckStates
        BY <1>0 DEF H!Scheduled, CheckStates
    <2>2. checks' = checks \cup {H!Scheduled(u, onChange)} /\ started' = started + 1
        BY <1>0 DEF H!Schedule
    <2> QED
        BY <2>1, <2>2
<1>1. ASSUME NEW u \in Urls, H!Hello(u) PROVE HealthTypes'
    <2>1. agentConn' \in Nat /\ hellos' \in Nat
        BY <1>1 DEF H!Hello
    <2>2. checks' \subseteq CheckStates /\ started' \in Nat
        BY <1>0, <1>1, <2>1 DEF H!Hello
    <2>3. worker' \in [url: Urls \cup {H!NoUrl}, reachable: Verdicts, of: Urls \cup {H!NoUrl}, old: BOOLEAN]
        BY <1>1 DEF H!Hello, H!Advertised
    <2> QED
        BY <2>1, <2>2, <2>3
<1>2. CASE H!Heartbeat
    <2>1. worker.url \in Urls /\ agentConn' \in Nat /\ H!Schedule(worker.url, TRUE) /\ UNCHANGED <<worker, hellos>>
        BY <1>2 DEF H!Heartbeat
    <2> QED
        BY <1>0, <2>1
<1>3. CASE H!Disconnect
    BY <1>3 DEF H!Disconnect
<1>6. CASE H!Age
    BY <1>6 DEF H!Age
<1>7. CASE \E u \in Urls : H!Flip(u)
    BY <1>7 DEF H!Flip
<1>4. ASSUME NEW c \in checks,
             CheckStep(c)
      PROVE  HealthTypes'
    <2>1. c \in CheckStates
        OBVIOUS
    <2>2. CASE H!SkipHostName(c) \/ H!Tell(c) \/ H!LoseCheck(c)
        BY <2>1, <2>2 DEF H!SkipHostName, H!Tell, H!LoseCheck, CheckStates
    <2>3. CASE H!ReadPrevious(c)
        <3>1. [c EXCEPT !.pc = "probing", !.previous = worker.reachable] \in CheckStates
            BY <2>1 DEF CheckStates
        <3> QED
            BY <2>3, <3>1 DEF H!ReadPrevious, H!Replace
    <2>4. CASE H!Probe(c)
        <3>1. [c EXCEPT !.pc = "writing", !.found = H!Verdict(answers[c.url])] \in CheckStates
            BY <2>1 DEF CheckStates, H!Verdict
        <3> QED
            BY <2>4, <3>1 DEF H!Probe, H!Replace
    <2>5. CASE H!Record(c)
        <3>1. [c EXCEPT !.pc = "telling"] \in CheckStates
            BY <2>1 DEF CheckStates
        <3> QED
            BY <2>1, <2>5, <3>1 DEF H!Record, H!Replace, CheckStates
    <2> QED
        BY <1>4, <2>2, <2>3, <2>4, <2>5 DEF CheckStep
<1>5. CASE UNCHANGED H!vars
    BY <1>5 DEF H!vars
<1> QED
    BY <1>1, <1>2, <1>3, <1>4, <1>5, <1>6, <1>7 DEF H!Next, CheckStep

\* A hello: either it meets a check under way, or it starts afresh.
LEMMA HealthHello ==
    ASSUME HealthInv, NEW u \in Urls, H!Hello(u)
    PROVE  (~misplaced' => Placed') /\ (~missed' => Straight')
<1>1. /\ agentConn' = hellos + 1 /\ worker' = H!Advertised(u)
      /\ missed' = (checks # {})
    BY DEF H!Hello
<1>2. CASE u # worker.url
    <2>1. worker' = [url |-> u, reachable |-> H!Unknown, of |-> H!NoUrl, old |-> TRUE]
        BY <1>1, <1>2 DEF H!Advertised
    <2>2. misplaced' = (checks # {})
        BY <1>2 DEF H!Hello
    <2>3. PICK c : checks' = checks \cup {c} /\ c = H!Scheduled(u, FALSE)
        BY <1>1, <1>2 DEF H!Hello, H!Schedule
    <2>4. c.url = u /\ Relies(c)'
        BY <2>1, <2>3 DEF Relies, H!Scheduled
    <2>5. worker'.url = u /\ worker'.reachable = H!Unknown
        BY <2>1
    <2>6. checks = {} => checks' = {c}
        BY <2>3
    <2>7. ~misplaced' => Placed'
        BY <2>2, <2>4, <2>5, <2>6 DEF Placed
    <2>8. ~missed' => Straight'
        BY <1>1, <2>4, <2>5, <2>6 DEF Straight
    <2> QED
        BY <2>7, <2>8
<1>3. CASE u = worker.url
    <2>1. worker' = worker /\ UNCHANGED <<checks, misplaced>>
        BY <1>1, <1>3 DEF H!Hello, H!Advertised
    <2>2. worker.reachable # H!Unknown => Told'
        BY <1>3, <2>1 DEF H!Hello, Told
    <2> QED
        BY <1>1, <2>1, <2>2 DEF HealthInv, Placed, Straight
<1> QED
    BY <1>2, <1>3

LEMMA HealthHeartbeat ==
    ASSUME HealthInv, H!Heartbeat
    PROVE  (~misplaced' => Placed') /\ (~missed' => Straight')
<1>1. agentConn' = agentConn /\ UNCHANGED <<worker, shown, misplaced>> /\ missed' = (missed \/ checks # {})
    BY DEF H!Heartbeat
<1>2. PICK c : checks' = checks \cup {c} /\ c = H!Scheduled(worker.url, TRUE)
    BY <1>1 DEF H!Heartbeat, H!Schedule
<1>3. c.url = worker.url /\ c.pc = "begin" /\ Relies(c)'
    BY <1>1, <1>2 DEF Relies, H!Scheduled
<1>4. ~misplaced' => Placed'
    BY <1>1, <1>2, <1>3 DEF HealthInv, Placed
<1>5. ~missed' => Straight'
    BY <1>1, <1>2, <1>3 DEF HealthInv, Straight, Told, Owes
<1> QED
    BY <1>4, <1>5

\* A step of a check, of the address the row holds.
LEMMA HealthPlaced ==
    ASSUME HealthTypes, Placed, NEW c \in checks, CheckStep(c)
    PROVE  Placed'
<1>1. c \in CheckStates /\ c.url = worker.url
    BY DEF HealthTypes, Placed
<1>2. CASE H!SkipHostName(c) \/ H!Tell(c) \/ H!LoseCheck(c)
    BY <1>2 DEF H!SkipHostName, H!Tell, H!LoseCheck, Placed, HealthTypes
<1>3. ASSUME NEW d, d.url = c.url, checks' = (checks \ {c}) \cup {d}, worker'.url = worker.url,
             worker'.reachable # H!Unknown => worker'.of = worker.url
      PROVE  Placed'
    BY <1>1, <1>3 DEF Placed
<1>4. CASE H!ReadPrevious(c)
    <2>1. [c EXCEPT !.pc = "probing", !.previous = worker.reachable].url = c.url
        BY <1>1 DEF CheckStates
    <2> QED
        BY <1>3, <1>4, <2>1 DEF H!ReadPrevious, H!Replace, Placed
<1>5. CASE H!Probe(c)
    <2>1. [c EXCEPT !.pc = "writing", !.found = H!Verdict(answers[c.url])].url = c.url
        BY <1>1 DEF CheckStates
    <2> QED
        BY <1>3, <1>5, <2>1 DEF H!Probe, H!Replace, Placed
<1>6. CASE H!Record(c)
    <2>1. [c EXCEPT !.pc = "telling"].url = c.url
        BY <1>1 DEF CheckStates
    <2>2. worker'.url = worker.url /\ worker'.of = worker.url
        BY <1>1, <1>6 DEF H!Record, HealthTypes
    <2> QED
        BY <1>3, <1>6, <2>1, <2>2 DEF H!Record, H!Replace
<1> QED
    BY <1>2, <1>4, <1>5, <1>6 DEF CheckStep

\* The one check under way goes on, writes what it found, tells it, or is lost.
LEMMA HealthCheck ==
    ASSUME HealthTypes, Straight, NEW c \in checks, CheckStep(c), ~missed'
    PROVE  Straight'
<1>1. checks = {c} /\ Relies(c) /\ c \in CheckStates
    BY DEF HealthTypes, Straight
<1>2. CASE H!SkipHostName(c)
    <2>1. checks' = {} /\ worker'.reachable = H!Unknown
        BY <1>1, <1>2 DEF H!SkipHostName, HealthTypes
    <2> QED
        BY <2>1 DEF Straight
<1>3. CASE H!ReadPrevious(c)
    <2>0. PICK d : d = [c EXCEPT !.pc = "probing", !.previous = worker.reachable]
        OBVIOUS
    <2>1. checks' = {d} /\ UNCHANGED <<worker, agentConn, shown>> /\ c.pc = "begin"
        BY <1>1, <1>3, <2>0 DEF H!ReadPrevious, H!Replace
    <2>2. /\ d.url = c.url /\ d.ws = c.ws /\ d.onChange = c.onChange
          /\ d.pc = "probing" /\ d.previous = worker.reachable
        BY <1>1, <2>0 DEF CheckStates
    <2>3. Relies(d)'
        BY <1>1, <2>1, <2>2 DEF Relies
    <2> QED
        BY <1>1, <2>1, <2>3 DEF Straight, Told, Owes
<1>4. CASE H!Probe(c)
    <2>0. PICK d : d = [c EXCEPT !.pc = "writing", !.found = H!Verdict(answers[c.url])]
        OBVIOUS
    <2>1. checks' = {d} /\ UNCHANGED <<worker, agentConn, shown>> /\ c.pc = "probing"
        BY <1>1, <1>4, <2>0 DEF H!Probe, H!Replace
    <2>2. /\ d.url = c.url /\ d.ws = c.ws /\ d.onChange = c.onChange
          /\ d.pc = "writing" /\ d.previous = c.previous /\ d.found \in {H!Reached, H!Unreached}
        BY <1>1, <2>0 DEF CheckStates, H!Verdict
    <2>3. Relies(d)'
        BY <1>1, <2>1, <2>2 DEF Relies
    <2> QED
        BY <1>1, <2>1, <2>3 DEF Straight, Told, Owes
<1>5. CASE H!Record(c)
    <2>0. PICK d : d = [c EXCEPT !.pc = "telling"]
        OBVIOUS
    <2>1. /\ checks' = {d} /\ UNCHANGED <<agentConn, shown>> /\ c.pc = "writing"
          /\ worker' = [worker EXCEPT !.reachable = c.found, !.of = c.url, !.old = FALSE]
        BY <1>1, <1>5, <2>0 DEF H!Record, H!Replace
    <2>2. /\ d.url = c.url /\ d.ws = c.ws /\ d.onChange = c.onChange
          /\ d.pc = "telling" /\ d.previous = c.previous /\ d.found = c.found
        BY <1>1, <2>0 DEF CheckStates
    <2>3. worker'.reachable = c.found /\ worker'.url = worker.url
        BY <1>1, <2>1 DEF HealthTypes
    <2>4. /\ c.url = worker.url /\ c.previous = worker.reachable
          /\ c.found \in {H!Reached, H!Unreached}
          /\ agentConn # 0 => c.ws = agentConn
        BY <1>1, <2>1 DEF Relies
    <2>5. Relies(d)'
        BY <2>1, <2>2, <2>3, <2>4 DEF Relies
    <2>6. agentConn # 0 /\ ~Owes(d) => Told'
        <3> SUFFICES ASSUME agentConn # 0, ~Owes(d) PROVE Told'
            OBVIOUS
        <3>1. c.previous = c.found
            BY <2>2 DEF Owes, H!Tells
        <3>2. worker.reachable # H!Unknown
            BY <2>4, <3>1 DEF H!Reached, H!Unreached, H!Unknown
        <3>3. ~Owes(c)
            BY <2>1 DEF Owes
        <3>4. Told
            BY <1>1, <3>2, <3>3 DEF Straight
        <3> QED
            BY <2>1, <2>3, <2>4, <3>1, <3>4 DEF Told
    <2> QED
        BY <2>1, <2>5, <2>6 DEF Straight, Owes, H!Tells
<1>6. CASE H!Tell(c)
    <2>1. /\ checks' = {} /\ UNCHANGED <<worker, agentConn>> /\ c.pc = "telling"
          /\ shown' = IF H!Tells(c) /\ c.ws = agentConn THEN [reachable |-> c.found, url |-> c.url] ELSE shown
        BY <1>1, <1>6 DEF H!Tell
    <2>2. c.url = worker.url /\ worker.reachable = c.found /\ (agentConn # 0 => c.ws = agentConn)
        BY <1>1, <2>1 DEF Relies
    <2>3. agentConn # 0 /\ worker.reachable # H!Unknown => Told'
        <3>1. CASE H!Tells(c)
            BY <2>1, <2>2, <3>1 DEF Told
        <3>2. CASE ~H!Tells(c)
            BY <1>1, <2>1, <3>2 DEF Straight, Told, Owes
        <3> QED
            BY <3>1, <3>2
    <2> QED
        BY <2>1, <2>3 DEF Straight
<1>7. CASE H!LoseCheck(c)
    <2>1. checks' = {} /\ UNCHANGED <<worker, agentConn, shown>> /\ ~Owes(c)
        BY <1>1, <1>7 DEF H!LoseCheck, Owes
    <2> QED
        BY <1>1, <2>1 DEF Straight, Told
<1> QED
    BY <1>2, <1>3, <1>4, <1>5, <1>6, <1>7 DEF CheckStep

LEMMA HealthNext == HealthInv /\ [H!Next]_H!vars => HealthInv'
<1> SUFFICES ASSUME HealthInv, [H!Next]_H!vars PROVE HealthInv'
    OBVIOUS
<1>1. HealthTypes'
    BY HealthTypesNext DEF HealthInv
<1>2. agentConn' # 0 => advert' = worker'.url
    <2>1. ASSUME NEW u \in Urls, H!Hello(u) PROVE advert' = worker'.url
        BY <2>1 DEF H!Hello, H!Advertised
    <2>2. CASE H!Disconnect
        BY <2>2 DEF H!Disconnect
    <2>3. CASE H!Heartbeat \/ H!Age \/ (\E u \in Urls : H!Flip(u)) \/ UNCHANGED H!vars
        BY <2>3 DEF H!Heartbeat, H!Age, H!Flip, H!vars, HealthInv, HealthTypes
    <2>4. ASSUME NEW c \in checks, CheckStep(c) PROVE agentConn' # 0 => advert' = worker'.url
        BY <2>4 DEF CheckStep, H!SkipHostName, H!ReadPrevious, H!Probe, H!Record, H!Tell, H!LoseCheck,
                    HealthInv, HealthTypes
    <2> QED
        BY <2>1, <2>2, <2>3, <2>4 DEF H!Next, CheckStep
<1>3. (~misplaced' => Placed') /\ (~missed' => Straight')
    <2>1. ASSUME NEW u \in Urls, H!Hello(u) PROVE (~misplaced' => Placed') /\ (~missed' => Straight')
        BY <2>1, HealthHello
    <2>2. CASE H!Heartbeat
        BY <2>2, HealthHeartbeat
    <2>3. CASE H!Disconnect
        BY <2>3 DEF H!Disconnect, HealthInv, Placed, Straight, Relies
    <2>4. CASE H!Age
        BY <2>4 DEF H!Age, HealthInv, HealthTypes, Placed, Straight, Relies, Told
    <2>5. CASE (\E u \in Urls : H!Flip(u)) \/ UNCHANGED H!vars
        BY <2>5 DEF H!Flip, H!vars, HealthInv, Placed, Straight, Relies, Told
    <2>6. ASSUME NEW c \in checks, CheckStep(c)
          PROVE  (~misplaced' => Placed') /\ (~missed' => Straight')
        <3>1. UNCHANGED misplaced /\ (~missed' => ~missed)
            <4>1. CASE H!LoseCheck(c)
                BY <4>1, Zenon DEF H!LoseCheck
            <4>2. CASE H!SkipHostName(c) \/ H!ReadPrevious(c)
                BY <4>2 DEF H!SkipHostName, H!ReadPrevious
            <4>3. CASE H!Probe(c) \/ H!Record(c) \/ H!Tell(c)
                BY <4>3 DEF H!Probe, H!Record, H!Tell
            <4> QED
                BY <2>6, <4>1, <4>2, <4>3 DEF CheckStep
        <3> QED
            BY <2>6, <3>1, HealthPlaced, HealthCheck DEF HealthInv
    <2> QED
        BY <2>1, <2>2, <2>3, <2>4, <2>5, <2>6 DEF H!Next, CheckStep
<1> QED
    BY <1>1, <1>2, <1>3 DEF HealthInv

\* For any addresses and any number of hellos, heartbeats and lost checks: unless
\* the address changed under a check of the earlier one, the verdict kept with the
\* address was measured at it; and with no check under way a connected agent has
\* been told it -- also when a recheck stayed silent because nothing had changed
\* -- unless a check ran across its hello, ran beside another one, or died between
\* the row and the message.
THEOREM AddressSoundHolds == H!Spec => []AddressSound
<1>1. H!Init => HealthInv
    BY HealthInit
<1>2. HealthInv /\ [H!Next]_H!vars => HealthInv'
    BY HealthNext
<1>3. HealthInv => AddressSound
    BY DEF AddressSound, HealthInv, Placed, Straight, Told, H!AddressSound, H!VerdictIsOfTheAddress, H!AgentKnowsTheVerdict
<1> QED
    BY <1>1, <1>2, <1>3, PTL DEF H!Spec

----------------------------------------------------------------------------
(* The registrations *)

Standings == {"none", "live", "disabled", "deleted"}

RegTypes ==
    LET E == R!Entries IN
    /\ file \subseteq E
    /\ dead \in [entries: SUBSET E, parses: BOOLEAN, aside: SUBSET E]
    /\ account \in [E -> Standings]
    /\ runningAgent \in [pc: {"down", "probing", "running"}, read: SUBSET E]
    /\ entryConn \in [E -> {"off", "trying", "up", "over"}]
    /\ rejections \in [E -> Nat] /\ lies \in [E -> 0 .. GiveUp]
    /\ prune \in [pc: {"idle", "load", "backup", "save"}, entry: E \cup {<<>>}, read: SUBSET E]
    /\ prune.pc # "idle" => prune.entry \in E
    /\ register \in [pc: {"idle", "save", "reload", "probing"}, entry: E \cup {<<>>}, read: SUBSET E]
    /\ register.pc # "idle" => register.entry \in E

\* Whatever is or was in agent.json has an account at its platform, or had one.
Known == {e \in R!Entries : account[e] # "none"}

RegKnown ==
    /\ file \cup runningAgent.read \cup prune.read \cup register.read \subseteq Known
    /\ register.pc # "idle" => register.entry \in Known
    /\ \A e \in R!Entries : entryConn[e] # "off" => e \in Known

\* An entry may leave: its account was deleted, or its platform lied for long.
MayLeave(e) == account[e] = "deleted" \/ lies[e] = GiveUp

Kept == dead.entries \cup dead.aside

RegLeaving ==
    /\ \A e \in R!Entries : MayLeave(e) \/ rejections[e] <= lies[e]
    /\ prune.pc # "idle" => MayLeave(prune.entry)
    /\ \A e \in Kept : MayLeave(e)

RegKeys ==
    /\ prune.pc = "save" => prune.entry \in Kept
    /\ raced = {} => saved \subseteq file \cup Kept \cup replaced

RegInv == RegTypes /\ RegKnown /\ RegLeaving /\ RegKeys

LEMMA RegInit == ASSUME R!EntriesAssumption, R!Init PROVE RegInv
<1> USE DEF R!EntriesAssumption, R!Init, R!Down, R!Idle
<1>1. file \subseteq R!Entries
    BY DEF R!Entries
<1>2. RegTypes
    BY <1>1 DEF RegTypes, Standings
<1>3. RegKnown
    BY <1>1 DEF RegKnown, Known
<1>4. \A e \in R!Entries : rejections[e] <= lies[e]
    <2> SUFFICES ASSUME NEW e \in R!Entries PROVE rejections[e] = 0 /\ lies[e] = 0
        OBVIOUS
    <2> QED
        OBVIOUS
<1>5. RegLeaving /\ RegKeys
    BY <1>4 DEF RegLeaving, RegKeys, Kept
<1> QED
    BY <1>2, <1>3, <1>5 DEF RegInv

Prunes == [pc: {"idle", "load", "backup", "save"}, entry: R!Entries \cup {<<>>}, read: SUBSET R!Entries]

\* What a step that touches no entry's standing keeps.
LEMMA LeavingKept ==
    ASSUME RegLeaving, UNCHANGED <<account, lies, rejections>>, Kept' \subseteq Kept,
           prune'.pc # "idle" => prune.pc # "idle" /\ prune'.entry = prune.entry
    PROVE  RegLeaving'
BY DEF RegLeaving, MayLeave

\* Writing back what was read: nothing that somebody else wrote is lost unnoticed.
LEMMA WrittenKeeps ==
    ASSUME RegInv, NEW read, NEW new, NEW how, R!Written(read, new, how),
           UNCHANGED dead, prune'.pc = "save" => prune'.entry \in Kept,
           replaced \subseteq replaced', read \subseteq new \cup Kept \cup replaced'
    PROVE  RegKeys'
<1>1. file' = new /\ saved' = saved \cup new /\ raced' = IF file = read THEN raced ELSE raced \cup {how}
    BY DEF R!Written
<1>2. raced' = {} => raced = {} /\ file = read
    BY <1>1
<1>3. Kept' = Kept
    BY DEF Kept
<1> QED
    BY <1>1, <1>2, <1>3 DEF RegInv, RegKeys

\* One more rejection of a account that its platform has.
LEMMA OneMoreLie ==
    ASSUME GiveUp \in Nat, NEW r \in Nat, NEW l \in 0 .. GiveUp, l = GiveUp \/ r <= l,
           NEW k, k = IF l < GiveUp THEN l + 1 ELSE l
    PROVE  /\ k \in 0 .. GiveUp
           /\ k = GiveUp \/ r + 1 <= k
           /\ ~(r + 1 < GiveUp) => k = GiveUp
OBVIOUS

\* An attempt to connect: answered, refused, or refused once too often.
LEMMA AttemptStep ==
    ASSUME R!EntriesAssumption, RegInv, NEW e \in R!Entries, R!Attempt(e)
    PROVE  RegInv'
<1> USE DEF R!EntriesAssumption
<1>1. /\ RegTypes /\ RegKnown /\ RegLeaving /\ RegKeys
      /\ UNCHANGED <<file, dead, account, runningAgent, register, replaced, saved, raced>>
      /\ entryConn[e] = "trying" /\ prune.pc = "idle" /\ e \in Known
    BY DEF RegInv, R!Attempt, R!Free, RegKnown
<1>2. PICK answer \in R!Answers(e) :
         /\ IF answer = "4401" /\ account[e] = "live"
            THEN lies' = [lies EXCEPT ![e] = IF @ < GiveUp THEN @ + 1 ELSE @]
            ELSE lies' = [lies EXCEPT ![e] = IF @ < GiveUp THEN 0 ELSE @]
         /\ IF answer = "4401"
            THEN /\ rejections' = [rejections EXCEPT ![e] = @ + 1]
                 /\ IF rejections[e] + 1 < GiveUp
                    THEN UNCHANGED <<entryConn, prune>>
                    ELSE /\ entryConn' = [entryConn EXCEPT ![e] = "over"]
                         /\ prune' = [pc |-> "load", entry |-> e, read |-> {}]
            ELSE /\ rejections' = [rejections EXCEPT ![e] = 0]
                 /\ entryConn' = IF answer = "ready" THEN [entryConn EXCEPT ![e] = "up"] ELSE entryConn
                 /\ UNCHANGED prune
    BY DEF R!Attempt, R!Rejected
<1>3. account[e] # "none" /\ (answer = "4401" => account[e] \in {"live", "deleted"})
    BY <1>1 DEF R!Answers, Known, RegTypes, Standings
<1>4. lies[e] \in 0 .. GiveUp /\ rejections[e] \in Nat
    BY <1>1 DEF RegTypes
<1>5. PICK k : lies' = [lies EXCEPT ![e] = k]
               /\ (answer = "4401" /\ account[e] = "live" => k = IF lies[e] < GiveUp THEN lies[e] + 1 ELSE lies[e])
               /\ (~(answer = "4401" /\ account[e] = "live") => k = IF lies[e] < GiveUp THEN 0 ELSE lies[e])
    BY <1>2
<1>6. PICK r : rejections' = [rejections EXCEPT ![e] = r]
               /\ (answer = "4401" => r = rejections[e] + 1) /\ (answer # "4401" => r = 0)
    BY <1>2
<1>7. k \in 0 .. GiveUp /\ r \in Nat
    BY <1>4, <1>5, <1>6
<1>8. prune' = prune \/ (answer = "4401" /\ ~(rejections[e] + 1 < GiveUp)
                         /\ prune' = [pc |-> "load", entry |-> e, read |-> {}])
    BY <1>2
<1>16. entryConn' = entryConn \/ \E c \in {"up", "over"} : entryConn' = [entryConn EXCEPT ![e] = c]
    BY <1>2
<1>9. RegTypes'
    <2>1. lies' \in [R!Entries -> 0 .. GiveUp] /\ rejections' \in [R!Entries -> Nat]
        BY <1>1, <1>5, <1>6, <1>7 DEF RegTypes
    <2>2. entryConn' \in [R!Entries -> {"off", "trying", "up", "over"}]
        BY <1>1, <1>16 DEF RegTypes
    <2> QED
        BY <1>1, <1>8, <2>1, <2>2 DEF RegTypes
<1>10. RegKnown'
    <2>1. \A d \in R!Entries : entryConn'[d] # "off" => d \in Known
        BY <1>1, <1>16 DEF RegTypes, RegKnown
    <2> QED
        BY <1>1, <1>8, <2>1 DEF RegKnown, Known
<1>11. account[e] = "deleted" \/ ((k = GiveUp \/ r <= k) /\ (prune' # prune => k = GiveUp))
    <2>1. CASE answer = "4401"
        <3>1. CASE account[e] = "live"
            <4>1. lies[e] = GiveUp \/ rejections[e] <= lies[e]
                BY <1>1, <3>1 DEF RegLeaving, MayLeave
            <4>2. k = IF lies[e] < GiveUp THEN lies[e] + 1 ELSE lies[e]
                BY <1>5, <2>1, <3>1
            <4>3. (k = GiveUp \/ rejections[e] + 1 <= k) /\ (~(rejections[e] + 1 < GiveUp) => k = GiveUp)
                BY <1>4, <4>1, <4>2, OneMoreLie
            <4> QED
                BY <1>6, <1>8, <2>1, <4>3
        <3> QED
            BY <1>3, <2>1, <3>1
    <2>2. CASE answer # "4401"
        <3>1. r = 0 /\ prune' = prune
            BY <1>6, <1>8, <2>2
        <3> QED
            BY <1>7, <3>1
    <2> QED
        BY <2>1, <2>2
<1>12. \A d \in R!Entries : /\ lies'[d] = IF d = e THEN k ELSE lies[d]
                           /\ rejections'[d] = IF d = e THEN r ELSE rejections[d]
    BY <1>1, <1>5, <1>6 DEF RegTypes
<1>13. lies[e] = GiveUp => k = GiveUp
    BY <1>4, <1>5
<1>14. RegLeaving'
    <2>1. \A d \in R!Entries : MayLeave(d) => MayLeave(d)'
        BY <1>1, <1>12, <1>13 DEF MayLeave
    <2>2. \A d \in R!Entries : MayLeave(d)' \/ rejections'[d] <= lies'[d]
        BY <1>1, <1>11, <1>12 DEF RegLeaving, MayLeave
    <2>3. prune' # prune => MayLeave(e)'
        BY <1>1, <1>11, <1>12 DEF MayLeave
    <2>4. Kept' = Kept /\ Kept \subseteq R!Entries
        BY <1>1 DEF Kept, RegTypes
    <2>5. prune'.pc # "idle" => MayLeave(prune.entry)'
        BY <1>1, <1>8, <2>3
    <2> QED
        BY <1>1, <2>1, <2>2, <2>4, <2>5 DEF RegLeaving
<1>15. RegKeys'
    BY <1>1, <1>8 DEF RegKeys, Kept
<1> QED
    BY <1>9, <1>10, <1>14, <1>15 DEF RegInv
\* An entry's standing changes: an administrator's doing, or a new account.
LEMMA StandingStep ==
    ASSUME RegInv, NEW e \in R!Entries, NEW standing \in Standings \ {"none"},
           account' = [account EXCEPT ![e] = standing], account[e] # "deleted",
           UNCHANGED <<file, dead, runningAgent, entryConn, rejections, prune, replaced, lies, saved, raced>>
    PROVE  /\ RegLeaving' /\ RegKeys' /\ account' \in [R!Entries -> Standings]
           /\ Known' = Known \cup {e}
<1>1. \A d \in R!Entries : account'[d] = IF d = e THEN standing ELSE account[d]
    BY DEF RegInv, RegTypes
<1>2. \A d \in R!Entries : MayLeave(d) => MayLeave(d)'
    BY <1>1 DEF MayLeave
<1>3. Kept' = Kept /\ Kept \subseteq R!Entries
    BY DEF Kept, RegInv, RegTypes
<1>4. prune.pc # "idle" => prune.entry \in R!Entries
    BY DEF RegInv, RegTypes
<1>5. RegLeaving'
    BY <1>2, <1>3, <1>4 DEF RegInv, RegLeaving
<1>6. Known' = Known \cup {e}
    BY <1>1 DEF Known
<1>7. account' \in [R!Entries -> Standings]
    BY DEF RegInv, RegTypes
<1> QED
    BY <1>3, <1>5, <1>6, <1>7 DEF RegInv, RegKeys

LEMMA AdministerStep ==
    ASSUME RegInv, NEW e \in R!Entries, R!Administer(e)
    PROVE  RegInv'
<1>1. UNCHANGED <<file, dead, runningAgent, entryConn, rejections, prune, register, replaced, lies, saved, raced>>
    BY DEF R!Administer, R!agentside
<1>2. PICK standing \in {"live", "disabled", "deleted"} :
         account' = [account EXCEPT ![e] = standing] /\ account[e] \in {"live", "disabled"}
    BY DEF R!Administer
<1>3. RegLeaving' /\ RegKeys' /\ account' \in [R!Entries -> Standings] /\ Known' = Known \cup {e}
    BY <1>1, <1>2, StandingStep DEF Standings
<1>4. RegKnown'
    BY <1>1, <1>3 DEF RegInv, RegKnown
<1>5. RegTypes'
    BY <1>1, <1>3 DEF RegInv, RegTypes
<1> QED
    BY <1>3, <1>4, <1>5 DEF RegInv

\* The agent's process and its connections.
LEMMA AgentStep ==
    ASSUME R!EntriesAssumption, RegInv,
           R!Start \/ R!Probed \/ R!GaveUpAll \/ R!Die \/ \E e \in R!Entries : R!Drop(e)
    PROVE  RegInv'
<1> USE DEF R!platform, R!Down, R!Idle
<1>0. RegTypes /\ RegKnown /\ RegLeaving /\ RegKeys
    BY DEF RegInv
<1>1. CASE R!Start
    <2>1. /\ runningAgent' = [pc |-> "probing", read |-> file]
          /\ UNCHANGED <<file, dead, account, lies, entryConn, rejections, prune, register, replaced, saved, raced>>
        BY <1>1 DEF R!Start
    <2>2. RegTypes'
        BY <1>0, <2>1 DEF RegTypes
    <2>3. RegKnown'
        BY <1>0, <2>1 DEF RegKnown, Known
    <2>4. RegLeaving' /\ RegKeys'
        BY <1>0, <2>1, LeavingKept DEF RegKeys, Kept
    <2> QED
        BY <2>2, <2>3, <2>4 DEF RegInv
<1>2. CASE R!Probed
    <2>1. /\ runningAgent' = [pc |-> "running", read |-> runningAgent.read]
          /\ entryConn' = [e \in R!Entries |-> IF e \in runningAgent.read THEN "trying" ELSE "off"]
          /\ rejections' = [e \in R!Entries |-> 0]
          /\ UNCHANGED <<dead, account, lies, prune, register, replaced>>
        BY <1>2 DEF R!Probed, R!Running
    <2>2. R!Written(runningAgent.read, runningAgent.read, "probe") \/ UNCHANGED <<file, saved, raced>>
        BY <1>2 DEF R!Probed
    <2>3. file' = runningAgent.read \/ file' = file
        BY <2>2 DEF R!Written
    <2>4. runningAgent.read \subseteq R!Entries /\ runningAgent.read \subseteq Known
        BY <1>0 DEF RegTypes, RegKnown
    <2>5. RegTypes'
        BY <1>0, <2>1, <2>3, <2>4 DEF RegTypes
    <2>6. RegKnown'
        BY <1>0, <2>1, <2>3, <2>4 DEF RegKnown, Known
    <2>7. RegLeaving'
        <3>1. \A e \in R!Entries : rejections'[e] = 0 /\ lies'[e] \in 0 .. GiveUp
            BY <1>0, <2>1 DEF RegTypes
        <3>2. \A e \in R!Entries : rejections'[e] <= lies'[e]
            BY <3>1
        <3> QED
            BY <1>0, <2>1, <3>2 DEF RegLeaving, MayLeave, Kept
    <2>8. RegKeys'
        <3>1. CASE R!Written(runningAgent.read, runningAgent.read, "probe")
            BY <1>0, <2>1, <3>1, WrittenKeeps DEF RegKeys
        <3>2. CASE UNCHANGED <<file, saved, raced>>
            BY <1>0, <2>1, <3>2 DEF RegKeys, Kept
        <3> QED
            BY <2>2, <3>1, <3>2
    <2> QED
        BY <2>5, <2>6, <2>7, <2>8 DEF RegInv
<1>3. CASE R!GaveUpAll \/ R!Die
    <2>1. /\ runningAgent' = [pc |-> "down", read |-> {}]
          /\ entryConn' = [e \in R!Entries |-> "off"]
          /\ prune' = prune \/ prune' = [pc |-> "idle", entry |-> <<>>, read |-> {}]
          /\ UNCHANGED <<file, dead, account, lies, rejections, register, replaced, saved, raced>>
        BY <1>3 DEF R!GaveUpAll, R!Die
    <2>2. RegTypes'
        BY <1>0, <2>1 DEF RegTypes
    <2>3. RegKnown'
        BY <1>0, <2>1 DEF RegKnown, Known
    <2>4. RegLeaving' /\ RegKeys'
        BY <1>0, <2>1, LeavingKept DEF RegKeys, Kept
    <2> QED
        BY <2>2, <2>3, <2>4 DEF RegInv
<1>4. ASSUME NEW e \in R!Entries, R!Drop(e) PROVE RegInv'
    <2>1. /\ entryConn' = [entryConn EXCEPT ![e] = "trying"] /\ rejections' = [rejections EXCEPT ![e] = 0]
          /\ entryConn[e] = "up"
          /\ UNCHANGED <<file, dead, account, lies, runningAgent, prune, register, replaced, saved, raced>>
        BY <1>4 DEF R!Drop
    <2>2. RegTypes'
        BY <1>0, <2>1 DEF RegTypes
    <2>3. RegKnown'
        BY <1>0, <2>1 DEF RegKnown, Known, RegTypes
    <2>4. RegLeaving'
        <3>1. \A d \in R!Entries : rejections'[d] = (IF d = e THEN 0 ELSE rejections[d])
                                   /\ lies[d] \in 0 .. GiveUp
            BY <1>0, <2>1 DEF RegTypes
        <3>2. \A d \in R!Entries : MayLeave(d)' \/ rejections'[d] <= lies'[d]
            BY <1>0, <2>1, <3>1 DEF RegLeaving, MayLeave
        <3> QED
            BY <1>0, <2>1, <3>2 DEF RegLeaving, MayLeave, Kept
    <2>5. RegKeys'
        BY <1>0, <2>1 DEF RegKeys, Kept
    <2> QED
        BY <2>2, <2>3, <2>4, <2>5 DEF RegInv
<1> QED
    BY <1>1, <1>2, <1>3, <1>4

\* The removal of an entry: read, back up, save; and the list of dead entries.
LEMMA PruneStep ==
    ASSUME RegInv, R!PruneLoad \/ R!PruneBackup \/ R!PruneSave \/ R!DeadFileBreaks
    PROVE  RegInv'
<1> USE DEF R!platform, R!agentside, R!Idle, R!Skip
<1>0. RegTypes /\ RegKnown /\ RegLeaving /\ RegKeys
    BY DEF RegInv
<1>1. CASE R!PruneLoad
    <2>1. /\ prune.pc = "load"
          /\ \/ prune' = [prune EXCEPT !.pc = "backup", !.read = file]
             \/ prune' = [pc |-> "idle", entry |-> <<>>, read |-> {}]
          /\ UNCHANGED <<file, dead, account, lies, runningAgent, entryConn, rejections, register, replaced, saved, raced>>
        BY <1>1 DEF R!PruneLoad
    <2>3. /\ prune' \in Prunes /\ prune'.pc # "save"
          /\ prune'.read \subseteq file
          /\ prune'.pc # "idle" => prune'.entry = prune.entry
        <3>1. prune \in Prunes /\ file \subseteq R!Entries
            BY <1>0 DEF RegTypes, Prunes
        <3>2. CASE prune' = [prune EXCEPT !.pc = "backup", !.read = file]
            BY <3>1, <3>2 DEF Prunes
        <3>3. CASE prune' = [pc |-> "idle", entry |-> <<>>, read |-> {}]
            BY <3>3 DEF Prunes
        <3> QED
            BY <2>1, <3>2, <3>3
    <2>2. RegTypes'
        BY <1>0, <2>1, <2>3 DEF RegTypes, Prunes
    <2>4. RegKnown'
        BY <1>0, <2>1, <2>3 DEF RegKnown, Known
    <2>5. RegLeaving' /\ RegKeys'
        BY <1>0, <2>1, <2>3, LeavingKept DEF RegKeys, Kept
    <2> QED
        BY <2>2, <2>4, <2>5 DEF RegInv
<1>2. CASE R!PruneBackup
    <2>1. /\ prune.pc = "backup"
          /\ \/ dead' = R!Appended(prune.entry) /\ prune' = [prune EXCEPT !.pc = "save"]
             \/ prune' = [pc |-> "idle", entry |-> <<>>, read |-> {}] /\ dead' \in {dead, R!SetAside}
          /\ UNCHANGED <<file, account, lies, runningAgent, entryConn, rejections, register, replaced, saved, raced>>
        BY <1>2 DEF R!PruneBackup
    <2> DEFINE E == R!Entries
               Lists == [entries: SUBSET E, parses: BOOLEAN, aside: SUBSET E]
    <2>2. prune.entry \in E /\ dead \in Lists
        BY <1>0, <2>1 DEF RegTypes
    <2>3. R!SetAside \in Lists /\ R!SetAside.entries \cup R!SetAside.aside = Kept
        BY <2>2 DEF R!SetAside, Kept
    <2>4. /\ R!Appended(prune.entry) \in Lists
          /\ R!Appended(prune.entry).entries = R!SetAside.entries \cup {prune.entry}
          /\ R!Appended(prune.entry).aside = R!SetAside.aside
        BY <2>2, <2>3 DEF R!Appended
    <2>5. dead' \in Lists /\ Kept \subseteq Kept' /\ Kept' \subseteq Kept \cup {prune.entry}
          /\ (prune'.pc = "save" => prune.entry \in Kept')
        BY <2>1, <2>2, <2>3, <2>4 DEF Kept
    <2>6. /\ prune' \in Prunes /\ prune'.read \subseteq prune.read
          /\ prune'.pc # "idle" => prune'.entry = prune.entry
        <3>1. prune \in Prunes
            BY <1>0 DEF RegTypes, Prunes
        <3>2. CASE prune' = [prune EXCEPT !.pc = "save"]
            BY <3>1, <3>2 DEF Prunes
        <3>3. CASE prune' = [pc |-> "idle", entry |-> <<>>, read |-> {}]
            BY <3>3 DEF Prunes
        <3> QED
            BY <2>1, <3>2, <3>3
    <2>8. RegTypes'
        BY <1>0, <2>1, <2>2, <2>5, <2>6 DEF RegTypes, Prunes
    <2>9. RegKnown'
        BY <1>0, <2>1, <2>6 DEF RegKnown, Known
    <2>10. RegLeaving'
        BY <1>0, <2>1, <2>5, <2>6 DEF RegLeaving, MayLeave
    <2>11. RegKeys'
        BY <1>0, <2>1, <2>5, <2>6 DEF RegKeys
    <2> QED
        BY <2>8, <2>9, <2>10, <2>11 DEF RegInv
<1>3. CASE R!PruneSave
    <2>1. /\ prune.pc = "save" /\ prune' = [pc |-> "idle", entry |-> <<>>, read |-> {}]
          /\ UNCHANGED <<dead, account, lies, runningAgent, entryConn, rejections, register, replaced>>
        BY <1>3 DEF R!PruneSave
    <2>2. \/ R!Written(prune.read, prune.read \ {prune.entry}, "at once")
          \/ UNCHANGED <<file, saved, raced>>
        BY <1>3 DEF R!PruneSave
    <2>3. file' = prune.read \ {prune.entry} \/ file' = file
        BY <2>2 DEF R!Written
    <2>4. RegTypes'
        BY <1>0, <2>1, <2>3 DEF RegTypes
    <2>5. RegKnown'
        BY <1>0, <2>1, <2>3 DEF RegKnown, Known
    <2>6. RegLeaving'
        BY <1>0, <2>1, LeavingKept DEF Kept
    <2>7. RegKeys'
        <3>1. CASE R!Written(prune.read, prune.read \ {prune.entry}, "at once")
            <4>1. prune.entry \in Kept
                BY <1>0, <2>1 DEF RegKeys
            <4> QED
                BY <2>1, <3>1, <4>1, WrittenKeeps
        <3>2. CASE UNCHANGED <<file, saved, raced>>
            BY <1>0, <2>1, <3>2 DEF RegKeys, Kept
        <3> QED
            BY <2>2, <3>1, <3>2
    <2> QED
        BY <2>4, <2>5, <2>6, <2>7 DEF RegInv
<1>4. CASE R!DeadFileBreaks
    <2>1. /\ dead' = [dead EXCEPT !.parses = FALSE]
          /\ UNCHANGED <<file, account, lies, runningAgent, entryConn, rejections, prune, register, replaced, saved, raced>>
        BY <1>4 DEF R!DeadFileBreaks
    <2>2. dead' \in [entries: SUBSET R!Entries, parses: BOOLEAN, aside: SUBSET R!Entries] /\ Kept' = Kept
        BY <1>0, <2>1 DEF RegTypes, Kept
    <2>3. RegTypes'
        BY <1>0, <2>1, <2>2 DEF RegTypes
    <2>4. RegKnown' /\ RegLeaving' /\ RegKeys'
        BY <1>0, <2>1, <2>2, LeavingKept DEF RegKnown, Known, RegKeys
    <2> QED
        BY <2>3, <2>4 DEF RegInv
<1> QED
    BY <1>1, <1>2, <1>3, <1>4

\* The register command.
LEMMA RegisterStep ==
    ASSUME RegInv,
           \/ \E e \in R!Entries : R!RegisterLoad(e)
           \/ R!RegisterSave \/ R!RegisterReload \/ R!RegisterProbed \/ R!RegisterDies
    PROVE  RegInv'
<1> USE DEF R!platform, R!agentside, R!Idle
<1>0. RegTypes /\ RegKnown /\ RegLeaving /\ RegKeys
    BY DEF RegInv
<1>1. ASSUME NEW e \in R!Entries, R!RegisterLoad(e) PROVE RegInv'
    <2>1. /\ account[e] = "none" /\ account' = [account EXCEPT ![e] = "live"]
          /\ register' = [pc |-> "save", entry |-> e, read |-> file]
          /\ UNCHANGED <<file, dead, lies, runningAgent, entryConn, rejections, prune, replaced, saved, raced>>
        BY <1>1 DEF R!RegisterLoad
    <2>2. RegLeaving' /\ RegKeys' /\ account' \in [R!Entries -> Standings] /\ Known' = Known \cup {e}
        BY <2>1, StandingStep DEF Standings
    <2>3. RegTypes'
        BY <1>0, <2>1, <2>2 DEF RegTypes
    <2>4. RegKnown'
        BY <1>0, <2>1, <2>2 DEF RegKnown
    <2> QED
        BY <2>2, <2>3, <2>4 DEF RegInv
<1>2. CASE R!RegisterSave
    <2> DEFINE e == register.entry
               new == R!Others(register.read, e) \cup {e}
    <2>1. /\ register.pc = "save" /\ register' = [register EXCEPT !.pc = "reload"]
          /\ R!Written(register.read, new, "at once")
          /\ replaced' = replaced \cup {o \in register.read : R!Of(o) = R!Of(e)}
          /\ UNCHANGED <<dead, account, lies, runningAgent, entryConn, rejections, prune>>
        BY <1>2 DEF R!RegisterSave
    <2>2. e \in R!Entries /\ e \in Known /\ register.read \subseteq R!Entries /\ register.read \subseteq Known
        BY <1>0, <2>1 DEF RegTypes, RegKnown
    <2>3. new \subseteq R!Entries /\ new \subseteq Known /\ register.read \subseteq new \cup replaced'
        BY <2>1, <2>2 DEF R!Others
    <2>4. file' = new
        BY <2>1 DEF R!Written
    <2> HIDE DEF new, e
    <2>5. RegTypes'
        BY <1>0, <2>1, <2>3, <2>4 DEF RegTypes
    <2>6. RegKnown'
        <3>1. register'.entry = register.entry /\ register'.read = register.read /\ Known' = Known
            BY <1>0, <2>1 DEF RegTypes, Known
        <3>2. file' \subseteq Known /\ runningAgent' = runningAgent /\ prune' = prune /\ entryConn' = entryConn
            BY <2>1, <2>3, <2>4
        <3>3. register.entry \in Known
            BY <2>2 DEF e
        <3> QED
            BY <1>0, <3>1, <3>2, <3>3 DEF RegKnown
    <2>7. RegLeaving'
        BY <1>0, <2>1, LeavingKept DEF Kept
    <2>8. RegKeys'
        BY <1>0, <2>1, <2>3, WrittenKeeps DEF RegKeys
    <2> QED
        BY <2>5, <2>6, <2>7, <2>8 DEF RegInv
<1>3. CASE R!RegisterReload
    <2>1. /\ register.pc = "reload" /\ register' = [register EXCEPT !.pc = "probing", !.read = file]
          /\ UNCHANGED <<file, dead, account, lies, runningAgent, entryConn, rejections, prune, replaced, saved, raced>>
        BY <1>3 DEF R!RegisterReload
    <2>2. RegTypes'
        BY <1>0, <2>1 DEF RegTypes
    <2>3. RegKnown'
        <3>1. register'.entry = register.entry /\ register'.read = file /\ Known' = Known
            BY <1>0, <2>1 DEF RegTypes, Known
        <3> QED
            BY <1>0, <2>1, <3>1 DEF RegKnown
    <2>4. RegLeaving' /\ RegKeys'
        BY <1>0, <2>1, LeavingKept DEF RegKeys, Kept
    <2> QED
        BY <2>2, <2>3, <2>4 DEF RegInv
<1>4. CASE R!RegisterProbed
    <2>1. /\ register.pc = "probing" /\ register' = [pc |-> "idle", entry |-> <<>>, read |-> {}]
          /\ UNCHANGED <<dead, account, lies, runningAgent, entryConn, rejections, prune, replaced>>
        BY <1>4 DEF R!RegisterProbed
    <2>2. R!Written(register.read, register.read, "probe") \/ UNCHANGED <<file, saved, raced>>
        BY <1>4 DEF R!RegisterProbed
    <2>3. file' = register.read \/ file' = file
        BY <2>2 DEF R!Written
    <2>4. RegTypes'
        BY <1>0, <2>1, <2>3 DEF RegTypes
    <2>5. RegKnown'
        BY <1>0, <2>1, <2>3 DEF RegKnown, Known
    <2>6. RegLeaving'
        BY <1>0, <2>1, LeavingKept DEF Kept
    <2>7. RegKeys'
        <3>1. CASE R!Written(register.read, register.read, "probe")
            BY <1>0, <2>1, <3>1, WrittenKeeps DEF RegKeys
        <3>2. CASE UNCHANGED <<file, saved, raced>>
            BY <1>0, <2>1, <3>2 DEF RegKeys, Kept
        <3> QED
            BY <2>2, <3>1, <3>2
    <2> QED
        BY <2>4, <2>5, <2>6, <2>7 DEF RegInv
<1>5. CASE R!RegisterDies
    <2>1. /\ register' = [pc |-> "idle", entry |-> <<>>, read |-> {}]
          /\ UNCHANGED <<file, dead, account, lies, runningAgent, entryConn, rejections, prune, replaced, saved, raced>>
        BY <1>5 DEF R!RegisterDies
    <2>2. RegTypes'
        BY <1>0, <2>1 DEF RegTypes
    <2>3. RegKnown'
        BY <1>0, <2>1 DEF RegKnown, Known
    <2>4. RegLeaving' /\ RegKeys'
        BY <1>0, <2>1, LeavingKept DEF RegKeys, Kept
    <2> QED
        BY <2>2, <2>3, <2>4 DEF RegInv
<1> QED
    BY <1>1, <1>2, <1>3, <1>4, <1>5

LEMMA RegNext == ASSUME R!EntriesAssumption, RegInv, [R!Next]_R!vars PROVE RegInv'
<1>1. CASE UNCHANGED R!vars
    BY <1>1 DEF R!vars, RegInv, RegTypes, RegKnown, Known, RegLeaving, MayLeave, RegKeys, Kept
<1> QED
    BY <1>1, AgentStep, PruneStep, RegisterStep, AdministerStep, AttemptStep DEF R!Next

\* For any platforms, entries, faults and moments of death: a signing key that
\* was in agent.json is still there or among the dead ones, unless a new
\* registration replaced it or two processes wrote over each other; and only an
\* entry whose account was deleted, or whose platform kept lying, is taken out.
THEOREM RegistrationsSoundHold == R!Spec => []RegistrationsSound
<1> USE EntriesFit
<1>1. R!Init => RegInv
    BY RegInit
<1>2. RegInv /\ [R!Next]_R!vars => RegInv'
    BY RegNext
<1>3. RegInv => RegistrationsSound
    BY DEF RegistrationsSound, RegInv, RegLeaving, RegKeys, MayLeave, Kept, R!RegistrationsSound, R!KeysAreKept, R!Lost,
           R!OnlyTheDeadLeave
<1> QED
    BY <1>1, <1>2, <1>3, PTL DEF R!Spec

----------------------------------------------------------------------------
(* The port mapping *)

Ips == {"here", "elsewhere", None}
Mappings == [method: {"natpmp", "upnp"}, ip: Ips, port: PortNumbers]
Holdings == [by: {"nobody", "other", "natpmp", "upnp"}, left: Int]
Calls == [pc: {"idle", "ask", "grant", "discover", "add"}, ip: Ips, port: PortNumbers]
         \cup [pc: {"landed"}, got: Mappings \cup {NoMapping}]

MappingTypes ==
    /\ router \in [PortNumbers -> Holdings]
    /\ mapping \in Mappings \cup {NoMapping}
    /\ giving \in Mappings \cup {NoMapping}
    /\ call \in Calls
    /\ conn \in [Platforms -> {"down", "ready", "up"}]
    /\ told = [p \in Platforms |-> told[p]]
    /\ failures \in Nat

\* What the agent does by itself: before it runs it holds nothing and is
\* connected to nobody, and only a renewal that was under way is cancelled.
Stages ==
    /\ phase = "setup" => mapping = NoMapping /\ (\A p \in Platforms : conn[p] = "down") /\ failures = 0
    /\ renewal = "calling" => phase = "running"
    /\ renewal = "cancelled" => phase \in {"unmapping", "draining"}
    /\ phase = "draining" => mapping = NoMapping
    /\ phase \in {"setup", "running"} /\ mapping = NoMapping => renewal = "off"

\* Entry n of the router is the one that m stands for.
Holds(m, n) == m.port = n /\ m.method = router[n].by

Brought(n) == call.pc = "landed" /\ Holds(call.got, n)

\* What a call brought is there until the agent takes it over or gives it back.
Delivered == phase \in {"setup", "running"} /\ call.pc = "landed" /\ call.got # NoMapping
                 => Holds(call.got, call.got.port)

\* Every entry of ours is known to somebody who will see to it, or is astray.
Vouched(n) ==
    \/ n \in stray
    \/ phase = "setup" /\ Brought(n)
    \/ phase = "running" /\ (Holds(mapping, n) \/ (renewal = "calling" /\ Brought(n)))
    \/ phase = "unmapping" /\ Holds(giving, n)
    \/ phase = "draining" /\ renewal = "cancelled" /\ Holds(giving, n)

Accounted == \A n \in PortNumbers : Ours(n) => Vouched(n)

Downgraded ==
    /\ nat = "lan" => url = Lan
    /\ failures >= FailureLimit => nat = "lan"

Informed == \A p \in Platforms : conn[p] = "up" /\ told[p] # url => unsaid

MappingInv == MappingTypes /\ Stages /\ Delivered /\ Accounted /\ Downgraded
              /\ (phase \in {"setup", "running"} => Informed)

LEMMA ZeroIsAPort == MappingAssumption => 0 \in PortNumbers
BY DEF MappingAssumption, PortNumbers

LEMMA NextPort ==
    ASSUME MappingAssumption, NEW n \in PortNumbers, n + 1 # Attempts
    PROVE  n + 1 \in PortNumbers
BY DEF MappingAssumption, PortNumbers

LEMMA LeaseTypes ==
    ASSUME MappingAssumption
    PROVE  Forever \in Int /\ Lease \in Int
BY DEF MappingAssumption, Forever

LEMMA AgedKeeps ==
    ASSUME MappingAssumption, NEW e \in Holdings
    PROVE  Aged(e) \in Holdings /\ (Aged(e) = Free \/ Aged(e).by = e.by)
<1>1. Free \in Holdings
    BY LeaseTypes DEF Free, Holdings
<1>2. e.left - 1 \in Int
    BY DEF Holdings
<1>3. CASE Aged(e) = [e EXCEPT !.left = e.left - 1]
    BY <1>2, <1>3 DEF Holdings
<1> QED
    BY <1>1, <1>3 DEF Aged

LEMMA MappingInit == MappingAssumption /\ Init => MappingInv
<1> SUFFICES ASSUME MappingAssumption, Init PROVE MappingInv
    OBVIOUS
<1> USE DEF Init
<1>1. MappingTypes
    <2>1. Free \in Holdings /\ Other \in Holdings
        BY LeaseTypes DEF Free, Other, Holdings
    <2>2. router \in [PortNumbers -> Holdings]
        BY <2>1
    <2>3. call \in Calls
        BY ZeroIsAPort DEF Start, None, Calls, Ips
    <2> QED
        BY <2>2, <2>3 DEF MappingTypes
<1>2. Stages /\ Delivered /\ Informed
    BY DEF Stages, Delivered, Informed, Start
<1>3. Accounted
    BY DEF Accounted, Ours, Free, Other
<1>4. Downgraded
    BY DEF Downgraded, MappingAssumption, None
<1> QED
    BY <1>1, <1>2, <1>3, <1>4 DEF MappingInv

\* The steps of a call: the router takes an entry for us, or nothing happens to
\* it, and a call that brings a mapping says who is going to see to it.
LEMMA CallStep ==
    ASSUME MappingInv, NEW n \in PortNumbers, NEW e \in Holdings,
           phase' = phase, mapping' = mapping, giving' = giving, renewal' = renewal,
           nat' = nat, url' = url, conn' = conn, told' = told, failures' = failures, unsaid' = unsaid,
           call' \in Calls, call.pc # "landed",
           e.by \in {"natpmp", "upnp"},
           \/ UNCHANGED <<router, stray>> /\ (call'.pc = "landed" => call'.got = NoMapping)
           \/ /\ router' = [router EXCEPT ![n] = e]
              /\ stray' = stray \cup {n}
              /\ call'.pc = "landed" => call'.got = NoMapping
           \/ /\ router' = [router EXCEPT ![n] = e]
              /\ call'.pc = "landed" /\ call'.got \in Mappings
              /\ call'.got.port = n /\ call'.got.method = e.by
              /\ stray' = Noted(call'.got)
    PROVE  MappingInv'
<1>0. MappingTypes /\ Stages /\ Delivered /\ Accounted /\ Downgraded
      /\ (phase \in {"setup", "running"} => Informed)
    BY DEF MappingInv
<1>1. MappingTypes'
    BY <1>0 DEF MappingTypes
<1>2. Stages' /\ Downgraded' /\ (phase' \in {"setup", "running"} => Informed')
    BY <1>0 DEF Stages, Downgraded, Informed
<1>3. Delivered'
    BY <1>0 DEF Delivered, Holds, MappingTypes
<1>4. Accounted'
    <2> SUFFICES ASSUME NEW k \in PortNumbers, Ours(k)' PROVE Vouched(k)'
        BY DEF Accounted
    <2>1. CASE k # n \/ UNCHANGED <<router, stray>>
        <3>1. router'[k] = router[k]
            BY <1>0, <2>1 DEF MappingTypes
        <3>2. Vouched(k) /\ ~Brought(k)
            BY <1>0, <3>1 DEF Accounted, Ours, Brought
        <3>3. k \in stray => k \in stray'
            BY <2>1 DEF Noted
        <3> QED
            BY <3>1, <3>2, <3>3 DEF Vouched, Holds
    <2>2. CASE k = n /\ stray' = stray \cup {n}
        BY <2>2 DEF Vouched
    <2>3. CASE /\ k = n /\ router' = [router EXCEPT ![n] = e]
               /\ call'.pc = "landed" /\ call'.got.port = n /\ call'.got.method = e.by
               /\ stray' = Noted(call'.got)
        <3>1. router'[n] = e
            BY <1>0, <2>3 DEF MappingTypes
        <3>2. Brought(n)'
            BY <2>3, <3>1 DEF Brought, Holds
        <3>3. CASE ~Traceable(call'.got)
            BY <2>3, <3>3 DEF Noted, Vouched
        <3>4. CASE phase = "setup" \/ renewal = "calling"
            BY <1>0, <2>3, <3>2, <3>4 DEF Stages, Vouched
        <3>5. CASE renewal = "cancelled" /\ giving.port = n /\ giving.method = e.by
            BY <1>0, <2>3, <3>1, <3>5 DEF Stages, Vouched, Holds
        <3> QED
            BY <2>3, <3>3, <3>4, <3>5 DEF Traceable
    <2> QED
        BY <2>1, <2>2, <2>3
<1> QED
    BY <1>1, <1>2, <1>3, <1>4 DEF MappingInv

LEMMA Thread ==
    ASSUME MappingAssumption, MappingInv, AskAddress \/ Grant \/ Discover \/ AddMapping
    PROVE  MappingInv'
<1> USE DEF Process
<1>0. MappingTypes
    BY DEF MappingInv
<1>1. PICK zero \in PortNumbers : zero = 0
    BY ZeroIsAPort
<1>2. PICK some \in Holdings : some.by \in {"natpmp", "upnp"}
    <2>1. [by |-> "natpmp", left |-> Lease] \in Holdings
        BY LeaseTypes DEF Holdings
    <2> QED
        BY <2>1
<1>3. CASE AskAddress
    <2>1. call' \in Calls /\ call'.pc # "landed" /\ call.pc # "landed"
        BY <1>0, <1>3 DEF AskAddress, MappingTypes, Calls, Ips, None
    <2> QED
        BY <1>1, <1>2, <1>3, <2>1, CallStep DEF AskAddress
<1>4. CASE Grant
    <2>0. call.pc = "grant" /\ call.ip \in Ips
        BY <1>0, <1>4 DEF Grant, MappingTypes, Calls
    <2>1. [call EXCEPT !.pc = "discover"] \in Calls
        BY <1>0, <2>0 DEF MappingTypes, Calls
    <2>2. CASE call' = [call EXCEPT !.pc = "discover"] /\ UNCHANGED <<router, stray>>
        <3>1. call'.pc # "landed"
            BY <1>0, <2>0, <2>2 DEF MappingTypes, Calls
        <3> QED
            BY <1>1, <1>2, <1>4, <2>0, <2>1, <2>2, <3>1, CallStep DEF Grant
    <2>3. ASSUME NEW n \in PortNumbers,
                 router' = [router EXCEPT ![n] = [by |-> "natpmp", left |-> Lease]],
                 \/ call' = Landed(Mapped("natpmp", call.ip, n)) /\ stray' = Noted(call'.got)
                 \/ call' = [call EXCEPT !.pc = "discover"] /\ stray' = stray \cup {n}
          PROVE  MappingInv'
        <3> DEFINE e == [by |-> "natpmp", left |-> Lease]
                   m == Mapped("natpmp", call.ip, n)
        <3>1. e \in Holdings /\ e.by = "natpmp"
            BY LeaseTypes DEF Holdings
        <3>2. m \in Mappings /\ m.port = n /\ m.method = "natpmp"
            BY <2>0 DEF Mapped, Mappings
        <3> HIDE DEF e
        <3>3. router' = [router EXCEPT ![n] = e]
            BY <2>3 DEF e
        <3> HIDE DEF m
        <3>4. CASE call' = Landed(m) /\ stray' = Noted(call'.got)
            <4>1. call'.pc = "landed" /\ call'.got = m /\ call' \in Calls
                BY <3>2, <3>4 DEF Landed, Calls
            <4> QED
                BY <1>4, <2>0, <3>1, <3>2, <3>3, <3>4, <4>1, CallStep DEF Grant
        <3>5. CASE call' = [call EXCEPT !.pc = "discover"] /\ stray' = stray \cup {n}
            <4>1. call'.pc # "landed"
                BY <1>0, <2>0, <3>5 DEF MappingTypes, Calls
            <4> QED
                BY <1>4, <2>0, <2>1, <3>1, <3>3, <3>5, <4>1, CallStep DEF Grant
        <3> QED
            BY <2>3, <3>4, <3>5 DEF m
    <2> QED
        BY <1>4, <2>2, <2>3 DEF Grant
<1>5. CASE Discover
    <2>1. call.pc # "landed" /\ UNCHANGED <<router, stray>>
        BY <1>5 DEF Discover
    <2>2. call' \in Calls /\ (call'.pc = "landed" => call'.got = NoMapping)
        BY <1>1, <1>5 DEF Discover, Landed, Calls, Ips, None
    <2> QED
        BY <1>1, <1>2, <1>5, <2>1, <2>2, CallStep DEF Discover
<1>6. CASE AddMapping
    <2> DEFINE n == call.port
    <2>0. call.pc = "add" /\ call.ip \in Ips /\ n \in PortNumbers
        BY <1>0, <1>6 DEF AddMapping, MappingTypes, Calls
    <2>1. Landed(NoMapping) \in Calls /\ Landed(NoMapping).pc = "landed"
          /\ Landed(NoMapping).got = NoMapping
        BY DEF Landed, Calls
    <2>2. CASE /\ UNCHANGED <<router, stray>>
               /\ \/ call' = Landed(NoMapping)
                  \/ n + 1 # Attempts /\ call' = [call EXCEPT !.port = n + 1]
        <3>1. call' \in Calls /\ (call'.pc = "landed" => call'.got = NoMapping)
            <4>1. CASE call' = Landed(NoMapping)
                BY <2>1, <4>1
            <4>2. ASSUME NEW next \in PortNumbers, call' = [call EXCEPT !.port = next]
                  PROVE  call' \in Calls /\ call'.pc # "landed"
                BY <1>0, <2>0, <4>2 DEF MappingTypes, Calls
            <4> QED
                BY <2>0, <2>2, <4>1, <4>2, NextPort
        <3> QED
            BY <1>1, <1>2, <1>6, <2>0, <2>2, <3>1, CallStep DEF AddMapping
    <2>3. ASSUME NEW left \in {Lease, Forever},
                 router' = [router EXCEPT ![n] = [by |-> "upnp", left |-> left]],
                 \/ call' = Landed(Mapped("upnp", call.ip, n)) /\ stray' = Noted(call'.got)
                 \/ call' = Landed(NoMapping) /\ stray' = stray \cup {n}
          PROVE  MappingInv'
        <3> DEFINE e == [by |-> "upnp", left |-> left]
                   m == Mapped("upnp", call.ip, n)
        <3>1. e \in Holdings /\ e.by = "upnp"
            BY LeaseTypes DEF Holdings
        <3>2. m \in Mappings /\ m.port = n /\ m.method = "upnp"
            BY <2>0 DEF Mapped, Mappings
        <3> HIDE DEF e
        <3>3. router' = [router EXCEPT ![n] = e]
            BY <2>3 DEF e
        <3> HIDE DEF m
        <3>4. CASE call' = Landed(m) /\ stray' = Noted(call'.got)
            <4>1. call'.pc = "landed" /\ call'.got = m /\ call' \in Calls
                BY <3>2, <3>4 DEF Landed, Calls
            <4> QED
                BY <1>6, <2>0, <3>1, <3>2, <3>3, <3>4, <4>1, CallStep DEF AddMapping
        <3>5. CASE call' = Landed(NoMapping) /\ stray' = stray \cup {n}
            BY <1>6, <2>0, <2>1, <3>1, <3>3, <3>5, CallStep DEF AddMapping
        <3> QED
            BY <2>3, <3>4, <3>5 DEF m
    <2> QED
        BY <1>6, <2>2, <2>3 DEF AddMapping
<1> QED
    BY <1>3, <1>4, <1>5, <1>6

\* The address changes: whoever is connected is disconnected, or the throttle
\* is noted.
LEMMA Reconnecting ==
    ASSUME RequestReconnect
    PROVE  \/ Informed' /\ conn' \in [Platforms -> {"down", "ready", "up"}]
           \/ unsaid' /\ conn' = conn
BY DEF RequestReconnect, KickAll, Informed

\* The agent takes over what its first call brought.
LEMMA SetUpStep == ASSUME MappingAssumption, MappingInv, SetUp PROVE MappingInv'
<1> USE DEF links, bounds
<1>0. MappingTypes /\ Stages /\ Delivered /\ Accounted /\ Downgraded /\ Informed
    BY DEF MappingInv, SetUp
<1>1. /\ phase = "setup" /\ call.pc = "landed" /\ phase' = "running" /\ call' = Idle
      /\ UNCHANGED <<router, seenIp, failures, quiet, giving, conn, told, ticks, faults, stray, unsaid>>
      /\ call.got \in Mappings \cup {NoMapping} /\ mapping = NoMapping
    BY <1>0 DEF SetUp, MappingTypes, Calls, Stages
<1>2. \/ /\ call.got = NoMapping /\ nat' = "lan" /\ url' = Lan /\ UNCHANGED <<mapping, renewal>>
      \/ /\ call.got # NoMapping
         /\ mapping' = call.got /\ nat' = call.got.method /\ renewal' = "asleep"
    BY DEF SetUp
<1>3. MappingTypes'
    BY <1>0, <1>1, <1>2, ZeroIsAPort DEF MappingTypes, Idle, Calls, Ips, None
<1>4. Stages' /\ Delivered'
    BY <1>0, <1>1, <1>2 DEF Stages, Delivered, Idle
<1>5. Informed'
    BY <1>0, <1>1 DEF Stages, Informed
<1>6. Downgraded'
    <2>1. 0 < FailureLimit
        BY DEF MappingAssumption
    <2>2. failures' = 0 /\ ~(failures' >= FailureLimit)
        BY <1>0, <1>1, <2>1 DEF Stages, MappingAssumption
    <2>3. nat' = "lan" => url' = Lan
        BY <1>1, <1>2 DEF Mappings
    <2> QED
        BY <2>2, <2>3 DEF Downgraded, Lan
<1>7. Accounted'
    <2> SUFFICES ASSUME NEW k \in PortNumbers, Ours(k)' PROVE Vouched(k)'
        BY DEF Accounted
    <2>1. k \in stray \/ Holds(call.got, k)
        BY <1>0, <1>1 DEF Accounted, Vouched, Ours, Brought
    <2>2. Holds(call.got, k) => call.got # NoMapping
        BY <1>1 DEF Holds, Ours, NoMapping, None
    <2> QED
        BY <1>1, <1>2, <2>1, <2>2 DEF Vouched, Holds
<1> QED
    BY <1>3, <1>4, <1>5, <1>6, <1>7 DEF MappingInv

\* A renewal starts, and what it brought replaces what was kept.
LEMMA RenewalStep == ASSUME MappingAssumption, MappingInv, Renew \/ Renewed PROVE MappingInv'
<1> USE DEF links, bounds, agent
<1>0. MappingTypes /\ Stages /\ Delivered /\ Accounted /\ Downgraded
      /\ (phase \in {"setup", "running"} => Informed)
    BY DEF MappingInv
<1>1. CASE Renew
    <2>1. /\ phase = "running" /\ phase' = phase /\ renewal = "due" /\ renewal' = "calling"
          /\ call' = Start
          /\ UNCHANGED <<router, mapping, nat, url, failures, unsaid, giving, conn, told, stray>>
        BY <1>1 DEF Renew
    <2>2. call' \in Calls /\ call'.pc = "ask"
        BY <2>1, ZeroIsAPort DEF Start, Calls, Ips, None
    <2>3. MappingTypes' /\ Stages' /\ Delivered' /\ Downgraded' /\ Informed'
        BY <1>0, <2>1, <2>2 DEF MappingTypes, Stages, Delivered, Downgraded, Informed
    <2>4. Accounted'
        BY <1>0, <2>1 DEF Accounted, Vouched, Ours, Holds
    <2> QED
        BY <2>3, <2>4 DEF MappingInv
<1>2. CASE Renewed
    <2>1. /\ renewal = "calling" /\ call.pc = "landed" /\ renewal' = "asleep" /\ call' = Idle
          /\ phase = "running" /\ phase' = "running"
          /\ UNCHANGED <<router, giving, told>>
          /\ call.got \in Mappings \cup {NoMapping}
        BY <1>0, <1>2 DEF Renewed, MappingTypes, Calls, Stages
    <2>2. call' \in Calls /\ call'.pc = "idle"
        BY <2>1, ZeroIsAPort DEF Idle, Calls, Ips, None
    <2>3. CASE call.got = NoMapping
        <3>1. NoteRenewalFailure /\ UNCHANGED <<mapping, stray>>
            BY <1>2, <2>3 DEF Renewed
        <3>2. failures' \in Nat /\ FailureLimit \in Nat
              /\ (failures' >= FailureLimit => failures >= FailureLimit \/ failures + 1 = FailureLimit)
            BY <1>0, <3>1 DEF NoteRenewalFailure, MappingTypes, MappingAssumption
        <3>3. \/ (failures + 1 # FailureLimit \/ nat = "lan") /\ UNCHANGED <<nat, url, conn, unsaid>>
              \/ nat' = "lan" /\ url' = Lan /\ RequestReconnect
            BY <3>1 DEF NoteRenewalFailure
        <3>4. Downgraded'
            BY <1>0, <3>2, <3>3 DEF Downgraded, Lan
        <3>5. Informed' /\ conn' \in [Platforms -> {"down", "ready", "up"}]
            BY <1>0, <2>1, <3>3, Reconnecting DEF Informed, MappingTypes
        <3>6. MappingTypes' /\ Stages' /\ Delivered'
            BY <1>0, <2>1, <2>2, <3>1, <3>2, <3>5 DEF MappingTypes, Stages, Delivered
        <3>7. Accounted'
            BY <1>0, <2>1, <2>3, <3>1
            DEF Accounted, Vouched, Ours, Holds, Brought, NoMapping, None
        <3> QED
            BY <3>4, <3>5, <3>6, <3>7 DEF MappingInv
    <2>4. CASE call.got # NoMapping
        <3>0. PICK m : m = call.got
            OBVIOUS
        <3>1. /\ failures' = 0 /\ mapping' = m
              /\ stray' = (stray \cup Forgotten(mapping, m)) \ {m.port}
            BY <1>2, <2>4, <3>0 DEF Renewed
        <3>2. \/ UNCHANGED <<nat, url, conn, unsaid>>
              \/ nat' = m.method /\ (UNCHANGED <<url, conn, unsaid>> \/ RequestReconnect)
            BY <1>2, <2>4, <3>0 DEF Renewed
        <3>3. m \in Mappings /\ m.method # "lan" /\ Holds(m, m.port)
            BY <1>0, <2>1, <2>4, <3>0 DEF Mappings, Delivered
        <3>4. Downgraded'
            <4>1. ~(failures' >= FailureLimit)
                BY <3>1 DEF MappingAssumption
            <4>2. nat' = "lan" => url' = url /\ nat = "lan"
                BY <1>2, <2>4, <3>0, <3>3 DEF Renewed
            <4> QED
                BY <1>0, <4>1, <4>2 DEF Downgraded, Lan
        <3>5. Informed' /\ conn' \in [Platforms -> {"down", "ready", "up"}]
            BY <1>0, <2>1, <3>2, Reconnecting DEF Informed, MappingTypes
        <3>6. MappingTypes' /\ Stages' /\ Delivered'
            BY <1>0, <2>1, <2>2, <2>4, <3>0, <3>1, <3>3, <3>5 DEF MappingTypes, Stages, Delivered
        <3>7. Accounted'
            <4> SUFFICES ASSUME NEW k \in PortNumbers, Ours(k)' PROVE Vouched(k)'
                BY DEF Accounted
            <4>1. k \in stray \/ Holds(mapping, k) \/ Holds(m, k)
                BY <1>0, <2>1, <3>0 DEF Accounted, Vouched, Ours, Brought
            <4>2. k = m.port => Holds(m, k)'
                BY <2>1, <3>3 DEF Holds
            <4>3. k # m.port /\ Holds(mapping, k) => k \in Forgotten(mapping, m)
                BY <2>1 DEF Forgotten, Holds, Ours
            <4>4. k # m.port => ~Holds(m, k)
                BY DEF Holds
            <4> QED
                BY <2>1, <3>1, <4>1, <4>2, <4>3, <4>4 DEF Vouched, Holds
        <3> QED
            BY <3>4, <3>5, <3>6, <3>7 DEF MappingInv
    <2> QED
        BY <2>3, <2>4
<1> QED
    BY <1>1, <1>2

\* What the connections do leaves the mapping alone.
LEMMA MappingKept ==
    ASSUME Stages, Delivered, Accounted, phase # "setup",
           UNCHANGED <<router, mapping, giving, call, renewal, phase, stray>>
    PROVE  Stages' /\ Delivered' /\ Accounted'
BY DEF Stages, Delivered, Accounted, Vouched, Ours, Holds, Brought

LEMMA ConnectionStep ==
    ASSUME MappingInv, NEW p \in Platforms,
           (\E ip \in Public \cup {None} : Handshake(p, ip)) \/ Hello(p) \/ Drop(p)
    PROVE  MappingInv'
<1> USE DEF agent, bounds
<1>0. MappingTypes /\ Stages /\ Delivered /\ Accounted /\ Downgraded
      /\ (phase \in {"setup", "running"} => Informed)
    BY DEF MappingInv
<1>1. /\ phase = "running"
      /\ UNCHANGED <<router, mapping, nat, failures, giving, call, renewal, phase, stray>>
    BY DEF Handshake, Hello, Drop
<1>2. Stages' /\ Delivered' /\ Accounted'
    BY <1>0, <1>1, MappingKept
<1>3. ASSUME NEW ip \in Public \cup {None}, Handshake(p, ip) PROVE MappingInv'
    <2>1. UNCHANGED told
        BY <1>3 DEF Handshake
    <2>2. \/ conn' = [conn EXCEPT ![p] = "ready"] /\ UNCHANGED <<url, unsaid>>
          \/ /\ nat # "lan"
             /\ \/ unsaid' = TRUE /\ conn' = [conn EXCEPT ![p] = "ready"]
                \/ conn' = [q \in Platforms |-> "down"]
        BY <1>3 DEF Handshake, Takes, KickAll
    <2>3. conn' \in [Platforms -> {"down", "ready", "up"}] /\ Informed'
        BY <1>0, <1>1, <2>1, <2>2 DEF MappingTypes, Informed
    <2>4. Downgraded'
        BY <1>0, <1>1, <2>2 DEF Downgraded, Lan
    <2>5. MappingTypes'
        BY <1>0, <1>1, <2>1, <2>3 DEF MappingTypes
    <2> QED
        BY <1>2, <2>3, <2>4, <2>5 DEF MappingInv
<1>4. CASE Hello(p)
    <2>1. /\ conn' = [conn EXCEPT ![p] = "up"] /\ told' = [told EXCEPT ![p] = url] /\ UNCHANGED <<nat, url>>
          /\ unsaid' = (unsaid /\ \E q \in Platforms \ {p} : conn[q] = "up" /\ told[q] # url)
        BY <1>4 DEF Hello
    <2>2. MappingTypes'
        BY <1>0, <1>1, <2>1 DEF MappingTypes
    <2>3. Downgraded'
        BY <1>0, <1>1, <2>1 DEF Downgraded, Lan
    <2>4. Informed'
        <3> SUFFICES ASSUME NEW q \in Platforms, conn'[q] = "up", told'[q] # url' PROVE unsaid'
            BY DEF Informed
        <3>1. told' \in [Platforms -> {told[r] : r \in Platforms} \cup {url}]
              /\ told'[p] = url /\ (\A r \in Platforms \ {p} : told'[r] = told[r] /\ conn'[r] = conn[r])
            BY <1>0, <2>1 DEF MappingTypes
        <3>2. q # p
            BY <2>1, <3>1
        <3>3. conn[q] = "up" /\ told[q] # url
            BY <2>1, <3>1, <3>2
        <3> QED
            BY <1>0, <1>1, <2>1, <3>2, <3>3 DEF Informed
    <2> QED
        BY <1>2, <2>2, <2>3, <2>4 DEF MappingInv
<1>5. CASE Drop(p)
    <2>1. conn' = [conn EXCEPT ![p] = "down"] /\ UNCHANGED <<nat, url, told, unsaid>>
        BY <1>5 DEF Drop
    <2>2. MappingTypes' /\ Downgraded' /\ Informed'
        BY <1>0, <1>1, <2>1 DEF MappingTypes, Downgraded, Informed, Lan
    <2> QED
        BY <1>2, <2>2 DEF MappingInv
<1> QED
    BY <1>3, <1>4, <1>5

\* Stopping: what was brought and not given back is astray.
LEMMA StoppingStep ==
    ASSUME MappingAssumption, MappingInv, BeginShutdown \/ FirstUnmap \/ SecondUnmap \/ DropResult
    PROVE  MappingInv'
<1> USE DEF agent, links, bounds
<1>0. MappingTypes /\ Stages /\ Delivered /\ Accounted /\ Downgraded
    BY DEF MappingInv
<1>1. phase' \notin {"setup", "running"}
    BY DEF BeginShutdown, FirstUnmap, SecondUnmap, DropResult
<1>2. UNCHANGED <<nat, url, failures>>
    BY DEF BeginShutdown, FirstUnmap, SecondUnmap, DropResult
<1>3. Downgraded' /\ Delivered'
    BY <1>0, <1>1, <1>2 DEF Downgraded, Delivered, Lan
<1>4. CASE BeginShutdown
    <2>1. /\ phase \in {"setup", "running"} /\ giving' = mapping
          /\ renewal' = (IF renewal = "calling" THEN "cancelled" ELSE "off")
          /\ phase' = (IF mapping = NoMapping THEN "down" ELSE "unmapping")
          /\ conn' = [p \in Platforms |-> "down"]
          /\ UNCHANGED <<router, mapping, call, told>>
        BY <1>4 DEF BeginShutdown
    <2>2. MappingTypes'
        BY <1>0, <1>2, <2>1 DEF MappingTypes
    <2>3. Stages'
        BY <1>0, <1>1, <2>1 DEF Stages, MappingTypes, Mappings, NoMapping
    <2>4. stray \subseteq stray'
        BY <1>4 DEF BeginShutdown
    <2>5. Accounted'
        <3> SUFFICES ASSUME NEW k \in PortNumbers, Ours(k)' PROVE Vouched(k)'
            BY DEF Accounted
        <3>1. router[k].by \in {"natpmp", "upnp"} /\ router' = router
            BY <2>1 DEF Ours
        <3>2. Vouched(k)
            BY <1>0, <3>1 DEF Accounted, Ours
        <3>3. CASE Holds(mapping, k)
            BY <2>1, <3>1, <3>3 DEF Vouched, Holds, NoMapping, None
        <3>4. CASE Brought(k) /\ ~Holds(mapping, k)
            <4>1. call.pc = "landed" /\ call.got.port = k /\ call.got.method = router[k].by
                BY <3>4 DEF Brought, Holds
            <4>2. call.got # NoMapping
                BY <3>1, <4>1 DEF NoMapping, None
            <4>3. ~(mapping.method = call.got.method /\ mapping.port = call.got.port)
                BY <3>4, <4>1 DEF Holds
            <4> QED
                BY <1>4, <4>1, <4>2, <4>3 DEF BeginShutdown, Vouched
        <3> QED
            BY <2>1, <2>4, <3>2, <3>3, <3>4 DEF Vouched
    <2> QED
        BY <1>1, <1>3, <2>2, <2>3, <2>5 DEF MappingInv
<1>5. ASSUME NEW m, Unmap(m), phase \in {"unmapping", "draining"}, m = giving,
             UNCHANGED <<call, giving, conn, told>>, mapping' = NoMapping,
             phase' \in {"draining", "down"}
      PROVE  MappingTypes' /\ Accounted'
    <2>1. \/ /\ router' = [k \in PortNumbers |-> IF k \in Deletes(m) THEN Free ELSE router[k]]
             /\ stray' = stray \ Deletes(m)
          \/ stray' = stray \cup Deletes(m) /\ UNCHANGED router
        BY <1>5 DEF Unmap
    <2>2. Free \in Holdings
        BY LeaseTypes DEF Free, Holdings
    <2>3. MappingTypes'
        BY <1>0, <1>2, <1>5, <2>1, <2>2 DEF MappingTypes
    <2>4. Accounted'
        <3> SUFFICES ASSUME NEW k \in PortNumbers, Ours(k)' PROVE k \in stray'
            BY DEF Accounted, Vouched
        <3>1. \/ k \notin Deletes(m) /\ stray' = stray \ Deletes(m)
              \/ UNCHANGED router /\ stray' = stray \cup Deletes(m)
            BY <2>1 DEF Ours, Free
        <3>2. router'[k] = router[k] /\ Ours(k)
            BY <2>1, <3>1 DEF Ours
        <3>3. k \in stray \/ Holds(giving, k)
            BY <1>0, <1>5, <3>2 DEF Accounted, Vouched
        <3>4. Holds(giving, k) => k \in Deletes(m)
            BY <1>5, <3>2 DEF Deletes, Holds
        <3> QED
            BY <2>1, <3>1, <3>3, <3>4
    <2> QED
        BY <2>3, <2>4
<1>6. CASE FirstUnmap
    <2>1. MappingTypes' /\ Accounted'
        BY <1>5, <1>6 DEF FirstUnmap
    <2>2. Stages'
        BY <1>0, <1>6 DEF FirstUnmap, InFlight, Stages
    <2> QED
        BY <1>1, <1>3, <2>1, <2>2 DEF MappingInv
<1>7. CASE SecondUnmap
    <2>0. mapping = NoMapping
        BY <1>0, <1>7 DEF SecondUnmap, Stages
    <2>1. MappingTypes' /\ Accounted'
        BY <1>5, <1>7, <2>0 DEF SecondUnmap
    <2>2. Stages'
        BY <1>0, <1>7 DEF SecondUnmap, Stages
    <2> QED
        BY <1>1, <1>3, <2>1, <2>2 DEF MappingInv
<1>8. CASE DropResult
    <2>1. /\ call' = Idle /\ phase = "down"
          /\ UNCHANGED <<router, mapping, renewal, phase, giving, conn, told, stray>>
        BY <1>8 DEF DropResult
    <2>2. call' \in Calls
        BY <1>0, <2>1, ZeroIsAPort DEF Idle, Calls, Ips, None
    <2>3. MappingTypes'
        BY <1>0, <1>2, <2>1, <2>2 DEF MappingTypes
    <2>4. Stages' /\ Accounted'
        BY <1>0, <2>1 DEF Stages, Accounted, Vouched, Ours
    <2> QED
        BY <1>1, <1>3, <2>3, <2>4 DEF MappingInv
<1> QED
    BY <1>4, <1>6, <1>7, <1>8

\* The router's clock, and other hosts.
LEMMA RouterStep ==
    ASSUME MappingAssumption, MappingInv, Tick \/ (\E n \in PortNumbers : OtherHost(n))
    PROVE  MappingInv'
<1> USE DEF agent, links, bounds
<1>0. MappingTypes /\ Stages /\ Delivered /\ Accounted /\ Downgraded
      /\ (phase \in {"setup", "running"} => Informed)
    BY DEF MappingInv
<1>1. UNCHANGED <<mapping, nat, url, failures, call, phase, giving, conn, told, unsaid>>
    BY DEF Tick, OtherHost
<1>2. Downgraded' /\ (phase' \in {"setup", "running"} => Informed')
    BY <1>0, <1>1 DEF Downgraded, Informed, Lan
<1>3. ASSUME router' \in [PortNumbers -> Holdings],
             \A k \in PortNumbers : router'[k].by \in {"natpmp", "upnp"} => router'[k].by = router[k].by,
             \A k \in PortNumbers : k \in stray /\ router'[k].by \in {"natpmp", "upnp"} => k \in stray',
             renewal' = renewal \/ (renewal = "asleep" /\ renewal' = "due")
      PROVE  MappingTypes' /\ Stages' /\ Accounted'
    <2>1. MappingTypes'
        BY <1>0, <1>1, <1>3 DEF MappingTypes
    <2>2. Stages'
        BY <1>0, <1>1, <1>3 DEF Stages
    <2>3. Accounted'
        BY <1>0, <1>1, <1>3 DEF Accounted, Vouched, Ours, Holds, Brought
    <2> QED
        BY <2>1, <2>2, <2>3
<1>4. CASE Tick
    <2>1. /\ router' = [k \in PortNumbers |-> Aged(router[k])]
          /\ stray' = {k \in stray : router'[k] # Free}
          /\ renewal' = renewal \/ (renewal = "asleep" /\ renewal' = "due")
          /\ call = Idle
        BY <1>4 DEF Tick
    <2>2. \A k \in PortNumbers : Aged(router[k]) \in Holdings
              /\ (Aged(router[k]) = Free \/ Aged(router[k]).by = router[k].by)
        BY <1>0, AgedKeeps DEF MappingTypes
    <2>3. \A k \in PortNumbers : router'[k].by \in {"natpmp", "upnp"}
              => router'[k].by = router[k].by /\ router'[k] # Free
        BY <2>1, <2>2 DEF Free
    <2>4. MappingTypes' /\ Stages' /\ Accounted'
        BY <1>3, <2>1, <2>2, <2>3
    <2>5. Delivered'
        BY <1>1, <2>1 DEF Delivered, Idle
    <2> QED
        BY <1>2, <2>4, <2>5 DEF MappingInv
<1>5. ASSUME NEW n \in PortNumbers, OtherHost(n) PROVE MappingInv'
    <2>1. /\ UNCHANGED <<renewal, stray>>
          /\ \/ router[n] = Free /\ router' = [router EXCEPT ![n] = Other]
             \/ router[n] = Other /\ router' = [router EXCEPT ![n] = Free]
        BY <1>5 DEF OtherHost
    <2>2. Free \in Holdings /\ Other \in Holdings
        BY LeaseTypes DEF Free, Other, Holdings
    <2>3. /\ router' \in [PortNumbers -> Holdings]
          /\ \A k \in PortNumbers : router'[k].by \in {"natpmp", "upnp"} => router'[k].by = router[k].by
          /\ \A k \in PortNumbers : router[k].by \in {"natpmp", "upnp"} => router'[k].by = router[k].by
        BY <1>0, <2>1, <2>2 DEF MappingTypes, Free, Other
    <2>4. MappingTypes' /\ Stages' /\ Accounted'
        BY <1>3, <2>1, <2>3
    <2>5. Delivered'
        <3>1. call.pc = "landed" => call.got \in Mappings \cup {NoMapping}
            BY <1>0 DEF MappingTypes, Calls
        <3> QED
            BY <1>0, <1>1, <2>3, <3>1 DEF Delivered, Holds, Mappings
    <2> QED
        BY <1>2, <2>4, <2>5 DEF MappingInv
<1> QED
    BY <1>4, <1>5

LEMMA MappingNext == ASSUME MappingAssumption, MappingInv, [Next]_vars PROVE MappingInv'
<1>1. CASE UNCHANGED vars
    BY <1>1 DEF vars, MappingInv, MappingTypes, Stages, Delivered, Accounted, Vouched, Ours, Holds,
                Brought, Downgraded, Informed, Lan
<1> QED
    BY <1>1, Thread, SetUpStep, RenewalStep, ConnectionStep, StoppingStep, RouterStep DEF Next

\* For any number of platforms, ports and faults, any lease and window, and
\* wherever a reply is lost or the agent is stopped: when the agent is down the
\* router holds nothing of its own that it could have known of, after the last
\* tolerated failure nobody is sent to the public address, and a connected
\* platform was told the address in force unless the throttle held it back.
THEOREM MappingSoundHolds == Spec => []MappingSound
<1> USE MappingFits
<1>1. Init => MappingInv
    BY MappingInit
<1>2. MappingInv /\ [Next]_vars => MappingInv'
    BY MappingNext
<1>3. MappingInv => MappingSound
    BY DEF MappingInv, Accounted, Vouched, Downgraded, Informed, MappingSound, NothingLeftBehind,
           DowngradedInTime, PlatformsAreTold
<1> QED
    BY <1>1, <1>2, <1>3, PTL DEF Spec
============================================================================
