----------------------------- MODULE AgentProofs -----------------------------
(* What holds of the agent's loop for any platforms, jobs and numbers of    *)
(* messages: its parts fit each other, an update put off is remembered, and *)
(* a cancelled job leaves no prompt running. And of the files that agents   *)
(* fetch from one another, for any length of file and numbers of workers,   *)
(* grants, streams and attempts: what a fetch installs is the file asked    *)
(* for, and what is served is booked once and in full.                      *)
EXTENDS MCAgent, Sequences, TLAPS, NaturalsInduction, WellFoundedInduction

\* A task that was started knows its job.
Assigned == \A t \in Tasks : task[t].pc # "unused" => task[t].job \in Jobs

\* One task at a time holds the machine, and a handle that says so is the
\* holder's, until the holder winds down.
OneHolder == \A t, u \in Tasks : Holds(t) /\ Holds(u) => t = u
RunningIsHeld ==
    \A h \in Tasks : handle[h].running =>
        \E t \in Tasks : Holds(t) /\ task[t].pc # "stopping" /\ task[t].handle = h

\* While no job was pushed twice, a task's handle is its own, and listed.
OwnHandle(t) == task[t].handle = t /\ (Unfinished(t) => listed[task[t].job] = t)

\* What became of its prompt.
Still(t) == prompt[t] \in {"pending", "running"}
Quiet(t) == ~Still(t) \/ t \in missed

Before == {"unused", "spawned", "waiting", "work"}
Past == {"fetched", "report", "winddown", "stopping"}

\* The prompt a task posted is known to its handle or was missed; once a stop
\* was asked for, it is on its way, or it is over and the prompt with it.
Stage(t) ==
    /\ task[t].pc \in Before => prompt[t] = "none"
    /\ task[t].pc \in Before \cup {"posted"} => handle[t].prompt = 0
    /\ task[t].pc = "run" => handle[t].prompt = t
    /\ task[t].pc \in Past => handle[t].prompt = t \/ (handle[t].prompt = 0 /\ Quiet(t))
    /\ handle[t].prompt \in {0, t} /\ handle[t].asked \in {0, handle[t].prompt}
    /\ handle[t].asked = t => stop[t] \in {"asked", "pending", "running"}
                                \/ (stop[t] = "over" /\ Quiet(t))
    /\ task[t].pc = "stopping" /\ task[t].how = "cancelled" => handle[t].asked = handle[t].prompt
    /\ task[t].pc = "ended" /\ task[t].how = "cancelled" => Quiet(t)

Followed == ~repushed => \A t \in Tasks : OwnHandle(t) /\ Stage(t)

LoopInv ==
    TypeOK /\ Assigned /\ OneHolder /\ RunningIsHeld /\ UpdateNotForgotten /\ Followed

----------------------------------------------------------------------------
(* Steps of a task, read off its record *)

LEMMA TasksAre ==
    /\ Tasks \subseteq Nat /\ Tasks \subseteq 0 .. MaxPushes /\ 0 \notin Tasks
    /\ 0 \in 0 .. MaxPushes
    /\ \A n \in 0 .. MaxPushes : n # 0 => n \in Tasks
PROOF BY AgentAssumption DEF AgentAssumption, Tasks

\* A set of tasks has a least one.
LEMMA LeastTask ==
    ASSUME NEW T \in SUBSET Tasks, T # {}
    PROVE  Min(T) \in T
<1>1. PICK t \in T : \A u \in T : ~(<<u, t>> \in OpToRel(<, Nat))
    BY NatLessThanWellFounded, WFMin, TasksAre
<1>2. \A u \in T : t <= u
    <2> SUFFICES ASSUME NEW u \in T, u < t PROVE FALSE
        BY TasksAre
    <2>1. <<u, t>> \in OpToRel(<, Nat)
        BY TasksAre DEF OpToRel
    <2> QED
        BY <1>1, <2>1
<1> QED
    BY <1>2 DEF Min

LEMMA GoesIs ==
    ASSUME task \in [Tasks -> TaskRecords], NEW t \in Tasks, NEW next \in TaskStates, Goes(t, next)
    PROVE  /\ task' \in [Tasks -> TaskRecords]
           /\ task'[t].pc = next /\ task'[t].how = task[t].how
           /\ task'[t].job = task[t].job /\ task'[t].handle = task[t].handle
           /\ \A u \in Tasks : u # t => task'[u] = task[u]
PROOF BY DEF Goes, TaskRecords

LEMMA EndsIs ==
    ASSUME task \in [Tasks -> TaskRecords], NEW t \in Tasks,
           NEW how \in {"done", "failed", "cancelled", "raised"}, Ends(t, how)
    PROVE  /\ task' \in [Tasks -> TaskRecords]
           /\ task'[t].pc = "winddown" /\ task'[t].how = how
           /\ task'[t].job = task[t].job /\ task'[t].handle = task[t].handle
           /\ \A u \in Tasks : u # t => task'[u] = task[u]
<1>1. PICK rec \in TaskRecords : /\ rec = [task[t] EXCEPT !.pc = "winddown", !.how = how]
                                 /\ rec.pc = "winddown" /\ rec.how = how
                                 /\ rec.job = task[t].job /\ rec.handle = task[t].handle
    <2> DEFINE n == [task[t] EXCEPT !.pc = "winddown", !.how = how]
    <2>1. task[t] \in TaskRecords
        OBVIOUS
    <2>2. n \in TaskRecords
        BY <2>1 DEF TaskRecords, TaskStates
    <2>3. n.pc = "winddown" /\ n.how = how /\ n.job = task[t].job /\ n.handle = task[t].handle
        BY <2>1 DEF TaskRecords
    <2> QED
        BY <2>2, <2>3
<1>2. task' = [task EXCEPT ![t] = rec]
    BY <1>1 DEF Ends
<1> QED
    BY <1>1, <1>2

LEMMA FailsIs ==
    ASSUME task \in [Tasks -> TaskRecords], NEW t \in Tasks, Fails(t)
    PROVE  /\ task' \in [Tasks -> TaskRecords]
           /\ task'[t].pc = "winddown" /\ task'[t].how \in {"failed", "cancelled"}
           /\ task'[t].job = task[t].job /\ task'[t].handle = task[t].handle
           /\ \A u \in Tasks : u # t => task'[u] = task[u]
<1>1. CASE Ends(t, "cancelled")
    BY <1>1, EndsIs
<1>2. CASE Ends(t, "failed")
    BY <1>2, EndsIs
<1> QED
    BY <1>1, <1>2 DEF Fails

LEMMA BroadcastIs ==
    ASSUME conn \in [Platforms -> Conns], NEW state \in {"idle", "busy"}
    PROVE  Broadcast(state) \in [Platforms -> Conns]
PROOF BY DEF Broadcast, Conns

\* What a request to stop does to the handles and the stops.
LEMMA AskingIs ==
    ASSUME handle \in [Tasks -> Handles], stop \in [Tasks -> Stops], NEW hs \in SUBSET Tasks
    PROVE  /\ Asked(hs) \in [Tasks -> Handles] /\ StopsOf(hs) \in [Tasks -> Stops]
           /\ \A h \in Tasks : /\ Asked(hs)[h].prompt = handle[h].prompt
                               /\ Asked(hs)[h].cancel = handle[h].cancel
                               /\ Asked(hs)[h].running = handle[h].running
                               /\ Asked(hs)[h].reporting = handle[h].reporting
                               /\ Asked(hs)[h].asked \in {handle[h].asked, handle[h].prompt}
                               /\ h \in hs => Asked(hs)[h].asked = handle[h].prompt
                               /\ h \notin hs => Asked(hs)[h] = handle[h]
PROOF BY DEF Asked, StopsOf, Handles, Stops

----------------------------------------------------------------------------
(* Every step keeps the types *)

LEMMA InitTyped == ASSUME Init PROVE TypeOK
<1> USE AgentAssumption, TasksAre DEF AgentAssumption, Init
<1>1. conn \in [Platforms -> Conns]
    BY DEF Conns
<1>2. task \in [Tasks -> TaskRecords]
    BY DEF NewTask, TaskRecords, TaskStates
<1>3. handle \in [Tasks -> Handles]
    BY DEF NewHandle, Handles
<1>4. /\ listed \in [Jobs -> 0 .. MaxPushes] /\ prompt \in [Tasks -> Prompts]
      /\ stop \in [Tasks -> Stops] /\ upd \in Updates
    BY DEF Prompts, Stops, Updates
<1>5. trouble \in 0 .. MaxTrouble
    OBVIOUS
<1>6. exit \in {"run", "asked", "stopping", "over"} /\ missed \in SUBSET Tasks /\ repushed \in BOOLEAN
    OBVIOUS
<1> QED
    BY <1>1, <1>2, <1>3, <1>4, <1>5, <1>6 DEF TypeOK

\* The types, but for what a step is about.
Rest == <<task, handle, listed, prompt, stop>>

LEMMA ConnFields ==
    ASSUME NEW c \in Conns, NEW ws \in {"none", "open", "live", "lost"}
    PROVE  /\ [c EXCEPT !.ws = ws] \in Conns
           /\ [c EXCEPT !.ws = ws, !.rejected = 0] \in Conns
           /\ \A g \in BOOLEAN : [c EXCEPT !.ws = ws, !.rejected = 1, !.gone = g] \in Conns
<1>1. 0 \in 0 .. 1 /\ 1 \in 0 .. 1
    OBVIOUS
<1>2. ASSUME NEW N, 0 \in N, 1 \in N,
             c \in [ws: {"none", "open", "live", "lost"}, said: {"idle", "busy"},
                   rejected: N, gone: BOOLEAN]
      PROVE  LET C == [ws: {"none", "open", "live", "lost"}, said: {"idle", "busy"},
                       rejected: N, gone: BOOLEAN] IN
             /\ [c EXCEPT !.ws = ws] \in C
             /\ [c EXCEPT !.ws = ws, !.rejected = 0] \in C
             /\ \A g \in BOOLEAN : [c EXCEPT !.ws = ws, !.rejected = 1, !.gone = g] \in C
    BY <1>2
<1> QED
    BY <1>1, <1>2 DEF Conns

LEMMA ConnectionsTyped ==
    ASSUME TypeOK, NEW p \in Platforms,
           Open(p) \/ Greet(p) \/ Reject(p) \/ Drop(p) \/ Close(p)
    PROVE  TypeOK' /\ UNCHANGED <<Rest, upd, exit, missed, repushed>>
<1>1. conn \in [Platforms -> Conns] /\ conn[p] \in Conns /\ trouble \in 0 .. MaxTrouble
    BY DEF TypeOK
<1>2. conn[p].rejected \in 0 .. 1 /\ MaxTrouble \in Nat
    BY <1>1, AgentAssumption DEF Conns, AgentAssumption
<1>3. UNCHANGED <<Rest, upd, exit, missed, repushed>>
    BY DEF Open, Greet, Reject, Drop, Close, Rest
<1>4. conn' \in [Platforms -> Conns]
    <2>1. CASE Open(p)
        BY <1>1, <2>1 DEF Open, Conns
    <2>2. CASE Greet(p)
        <3> DEFINE c == [conn[p] EXCEPT !.ws = "live", !.rejected = 0]
        <3>1. c \in Conns
            BY <1>1, ConnFields
        <3>2. conn' = [conn EXCEPT ![p] = c]
            BY <2>2 DEF Greet
        <3> QED
            BY <1>1, <3>1, <3>2
    <2>3. CASE Reject(p)
        <3>1. GivesUp(conn[p]) \in Conns
            BY <1>1, ConnFields DEF GivesUp
        <3>2. conn' = [conn EXCEPT ![p] = GivesUp(conn[p])]
            BY <2>3 DEF Reject
        <3> QED
            BY <1>1, <3>1, <3>2
    <2>4. CASE Drop(p)
        BY <1>1, <2>4 DEF Drop, Conns
    <2>5. CASE Close(p)
        <3> DEFINE c == [conn[p] EXCEPT !.ws = "none", !.rejected = 0]
        <3>1. c \in Conns
            BY <1>1, ConnFields
        <3>2. conn' = [conn EXCEPT ![p] = c]
            BY <2>5 DEF Close
        <3> QED
            BY <1>1, <3>1, <3>2
    <2> QED
        BY <2>1, <2>2, <2>3, <2>4, <2>5
<1>5. trouble' \in 0 .. MaxTrouble
    <2>1. CASE Reject(p)
        BY <1>1, <1>2, <2>1 DEF Reject
    <2>2. CASE Drop(p)
        BY <1>1, <1>2, <2>2 DEF Drop
    <2> QED
        BY <1>1, <2>1, <2>2 DEF Open, Greet, Close
<1> QED
    BY <1>3, <1>4, <1>5 DEF TypeOK, Rest

\* What the updates and the way out change.
Turns == UpdateAgent \/ Decide \/ ApplyPending \/ Apply \/ UpdateComfy \/ ComfyDue \/ AskToStop

LEMMA TurnsTyped ==
    ASSUME TypeOK, Turns
    PROVE  TypeOK' /\ UNCHANGED <<Rest, missed, repushed>>
<1>1. UNCHANGED <<Rest, conn, missed, repushed>>
    BY DEF Turns, UpdateAgent, Decide, ApplyPending, Apply, UpdateComfy, ComfyDue, AskToStop, Rest
<1>2. upd' \in Updates
    <2>1. upd \in Updates
        BY DEF TypeOK
    <2> QED
        BY <2>1 DEF Turns, UpdateAgent, Decide, ApplyPending, Apply, UpdateComfy, ComfyDue,
                    AskToStop, StartComfy, Updates
<1>3. exit' \in {"run", "asked", "stopping", "over"}
    BY DEF TypeOK, Turns, UpdateAgent, Decide, ApplyPending, Apply, UpdateComfy, ComfyDue, AskToStop
<1>4. trouble' \in 0 .. MaxTrouble
    <2>1. trouble \in 0 .. MaxTrouble /\ MaxTrouble \in Nat
        BY AgentAssumption DEF TypeOK, AgentAssumption
    <2>2. CASE trouble < MaxTrouble /\ trouble' = trouble + 1
        BY <2>1, <2>2
    <2> QED
        BY <2>1, <2>2 DEF Turns, UpdateAgent, Decide, ApplyPending, Apply, UpdateComfy, ComfyDue,
                          AskToStop
<1> QED
    BY <1>1, <1>2, <1>3, <1>4 DEF TypeOK, Rest

LEMMA PushIs ==
    ASSUME TypeOK, NEW j \in Jobs, Push(j)
    PROVE  \E t \in Tasks :
             /\ task[t].pc = "unused" /\ listed' = [listed EXCEPT ![j] = t]
             /\ task' \in [Tasks -> TaskRecords]
             /\ task'[t].pc = "spawned" /\ task'[t].job = j /\ task'[t].handle = task[t].handle
             /\ task'[t].how = task[t].how
             /\ \A u \in Tasks : u # t => task'[u] = task[u]
             /\ repushed' = (repushed \/ listed[j] # 0)
             /\ UNCHANGED <<conn, handle, prompt, stop, upd, exit, missed, trouble>>
<1> DEFINE T == {u \in Tasks : task[u].pc = "unused"}
<1>1. Min(T) \in T
    BY LeastTask DEF Push
<1>2. PICK t \in Tasks : t = Min(T) /\ task[t].pc = "unused"
    BY <1>1
<1>3. PICK rec \in TaskRecords : /\ rec = [task[t] EXCEPT !.pc = "spawned", !.job = j]
                                 /\ rec.pc = "spawned" /\ rec.job = j
                                 /\ rec.handle = task[t].handle /\ rec.how = task[t].how
    <2> DEFINE n == [task[t] EXCEPT !.pc = "spawned", !.job = j]
    <2>1. task[t] \in TaskRecords
        BY DEF TypeOK
    <2>2. n \in TaskRecords
        BY <2>1 DEF TaskRecords, TaskStates
    <2>3. n.pc = "spawned" /\ n.job = j /\ n.handle = task[t].handle /\ n.how = task[t].how
        BY <2>1 DEF TaskRecords
    <2> QED
        BY <2>2, <2>3
<1>4. /\ task' = [task EXCEPT ![t].pc = "spawned", ![t].job = j]
      /\ listed' = [listed EXCEPT ![j] = t]
      /\ repushed' = (repushed \/ listed[j] # 0)
      /\ UNCHANGED <<conn, handle, prompt, stop, upd, exit, missed, trouble>>
    BY <1>2 DEF Push
<1>5. task' = [task EXCEPT ![t] = rec]
    BY <1>3, <1>4 DEF TypeOK
<1>6. task' \in [Tasks -> TaskRecords] /\ task'[t] = rec /\ \A u \in Tasks : u # t => task'[u] = task[u]
    BY <1>5 DEF TypeOK
<1> QED
    BY <1>2, <1>3, <1>4, <1>6

LEMMA BeginIs ==
    ASSUME TypeOK, Assigned, NEW t \in Tasks, Begin(t)
    PROVE  \E h \in Tasks, j \in Jobs :
             /\ task[t].pc = "spawned" /\ j = task[t].job
             /\ h = IF listed[j] # 0 THEN listed[j] ELSE t
             /\ listed' = [listed EXCEPT ![j] = h]
             /\ task' \in [Tasks -> TaskRecords]
             /\ task'[t].pc = "waiting" /\ task'[t].job = j /\ task'[t].handle = h
             /\ task'[t].how = task[t].how
             /\ \A u \in Tasks : u # t => task'[u] = task[u]
             /\ UNCHANGED <<conn, handle, prompt, stop, upd, exit, missed, repushed, trouble>>
<1>1. PICK j \in Jobs : j = task[t].job
    BY DEF Begin, Assigned
<1>2. PICK h \in Tasks : h = IF listed[j] # 0 THEN listed[j] ELSE t
    BY TasksAre DEF TypeOK
<1>3. PICK rec \in TaskRecords : /\ rec = [task[t] EXCEPT !.pc = "waiting", !.handle = h]
                                 /\ rec.pc = "waiting" /\ rec.job = j
                                 /\ rec.handle = h /\ rec.how = task[t].how
    <2> DEFINE n == [task[t] EXCEPT !.pc = "waiting", !.handle = h]
    <2>1. task[t] \in TaskRecords
        BY DEF TypeOK
    <2>2. n \in TaskRecords
        BY <2>1 DEF TaskRecords, TaskStates
    <2>3. n.pc = "waiting" /\ n.job = j /\ n.handle = h /\ n.how = task[t].how
        BY <1>1, <2>1 DEF TaskRecords
    <2> QED
        BY <2>2, <2>3
<1>4. /\ task' = [task EXCEPT ![t].pc = "waiting", ![t].handle = h]
      /\ listed' = [listed EXCEPT ![j] = h] /\ task[t].pc = "spawned"
      /\ UNCHANGED <<conn, handle, prompt, stop, upd, exit, missed, repushed, trouble>>
    BY <1>1, <1>2 DEF Begin
<1>5. task' = [task EXCEPT ![t] = rec]
    BY <1>3, <1>4 DEF TypeOK
<1>6. task' \in [Tasks -> TaskRecords] /\ task'[t] = rec /\ \A u \in Tasks : u # t => task'[u] = task[u]
    BY <1>5 DEF TypeOK
<1> QED
    BY <1>1, <1>2, <1>3, <1>4, <1>6

----------------------------------------------------------------------------
(* What a step leaves as it was *)

\* A task nobody touches; its prompt may be over meanwhile, or missed.
LEMMA StageStays ==
    ASSUME NEW u \in Tasks, Stage(u),
           task'[u] = task[u], handle'[u] = handle[u], stop'[u] = stop[u],
           prompt'[u] = prompt[u] \/ prompt[u] \in {"pending", "running"},
           missed \subseteq missed'
    PROVE  Stage(u)'
<1>1. Quiet(u) => Quiet(u)'
    BY DEF Quiet, Still
<1> QED
    BY <1>1 DEF Stage, Before

\* Neither tasks nor what they run move.
LEMMA NothingMoves ==
    ASSUME LoopInv, TypeOK', UpdateNotForgotten', UNCHANGED <<task, listed, repushed>>,
           \A h \in Tasks : handle'[h].running = handle[h].running,
           ~repushed => \A t \in Tasks : Stage(t)'
    PROVE  LoopInv'
<1>1. Assigned' /\ OneHolder'
    BY DEF LoopInv, Assigned, OneHolder, Holds
<1>2. RunningIsHeld'
    BY DEF LoopInv, RunningIsHeld, Holds
<1>3. Followed'
    BY DEF LoopInv, Followed, OwnHandle, Unfinished
<1> QED
    BY <1>1, <1>2, <1>3 DEF LoopInv

\* The holder goes on to its next line.
LEMMA Proceeds ==
    ASSUME LoopInv, TypeOK', NEW t \in Tasks, Holds(t), task[t].pc # "stopping",
           task'[t].pc \in {"work", "posted", "run", "fetched", "report", "winddown"},
           task'[t].job = task[t].job, task'[t].handle = task[t].handle,
           \A u \in Tasks : u # t => task'[u] = task[u],
           UNCHANGED <<listed, upd, exit, repushed>>,
           \A h \in Tasks : handle'[h].running = handle[h].running,
           ~repushed => \A u \in Tasks : Stage(u)'
    PROVE  LoopInv'
<1>1. Assigned'
    BY DEF LoopInv, Assigned, Holds
<1>2. \A u \in Tasks : Holds(u)' <=> Holds(u)
    BY DEF Holds
<1>3. OneHolder'
    BY <1>2 DEF LoopInv, OneHolder
<1>4. RunningIsHeld'
    <2> SUFFICES ASSUME NEW h \in Tasks, handle'[h].running
                 PROVE  \E u \in Tasks : Holds(u)' /\ task'[u].pc # "stopping" /\ task'[u].handle = h
        BY DEF RunningIsHeld
    <2>1. PICK u \in Tasks : Holds(u) /\ task[u].pc # "stopping" /\ task[u].handle = h
        BY DEF LoopInv, RunningIsHeld
    <2>2. task'[u].pc # "stopping" /\ task'[u].handle = h
        BY <2>1
    <2> QED
        BY <1>2, <2>1, <2>2
<1>5. UpdateNotForgotten'
    <2>1. \A u \in Tasks : Unfinished(u) => Unfinished(u)'
        BY DEF Unfinished
    <2> QED
        BY <2>1 DEF LoopInv, UpdateNotForgotten
<1>6. Followed'
    <2>1. \A u \in Tasks : OwnHandle(u) => OwnHandle(u)'
        BY DEF OwnHandle, Unfinished, Holds
    <2> QED
        BY <2>1 DEF LoopInv, Followed
<1> QED
    BY <1>1, <1>3, <1>4, <1>5, <1>6 DEF LoopInv

----------------------------------------------------------------------------
(* The connections, the updates *)

LEMMA ConnectionsKeep ==
    ASSUME LoopInv, NEW p \in Platforms,
           Open(p) \/ Greet(p) \/ Reject(p) \/ Drop(p) \/ Close(p)
    PROVE  LoopInv'
<1>1. TypeOK' /\ UNCHANGED <<Rest, upd, exit, missed, repushed>>
    BY ConnectionsTyped DEF LoopInv
<1>2. UpdateNotForgotten'
    BY <1>1 DEF LoopInv, UpdateNotForgotten, Unfinished, Rest
<1>3. ~repushed => \A t \in Tasks : Stage(t)'
    BY <1>1, StageStays DEF LoopInv, Followed, Rest
<1> QED
    BY <1>1, <1>2, <1>3, NothingMoves DEF Rest

LEMMA TurnsKeep == ASSUME LoopInv, Turns PROVE LoopInv'
<1>1. TypeOK' /\ UNCHANGED <<Rest, missed, repushed>>
    BY TurnsTyped DEF LoopInv
<1>2. Running => \E t \in Tasks : Unfinished(t)
    <2> SUFFICES ASSUME NEW j \in Jobs, listed[j] # 0, handle[listed[j]].running
                 PROVE  \E t \in Tasks : Unfinished(t)
        BY DEF Running
    <2>1. listed[j] \in Tasks
        BY TasksAre DEF LoopInv, TypeOK
    <2> QED
        BY <2>1 DEF LoopInv, RunningIsHeld, Holds, Unfinished
<1>3. \A t \in Tasks : Unfinished(t)' <=> Unfinished(t)
    BY <1>1 DEF Unfinished, Rest
<1>4. upd \in Updates
    BY DEF LoopInv, TypeOK
<1>5. UpdateNotForgotten'
    <2>1. UpdateNotForgotten
        BY DEF LoopInv
    <2> SUFFICES ASSUME upd'.pending, exit' = "run", ~upd'.woken
                 PROVE  \E t \in Tasks : Unfinished(t)
        BY <1>3 DEF UpdateNotForgotten
    <2>2. CASE Running
        BY <1>2, <2>2
    <2>3. CASE ~Running
        <3>1. upd.pending /\ ~upd.woken
            BY <1>4, <2>3 DEF Turns, UpdateAgent, Decide, ApplyPending, Apply, UpdateComfy,
                              ComfyDue, AskToStop, StartComfy, Updates
        <3>2. exit = "run"
            BY DEF Turns, UpdateAgent, Decide, ApplyPending, Apply, UpdateComfy, ComfyDue, AskToStop
        <3> QED
            BY <2>1, <3>1, <3>2 DEF UpdateNotForgotten
    <2> QED
        BY <2>2, <2>3
<1>6. ~repushed => \A t \in Tasks : Stage(t)'
    BY <1>1, StageStays DEF LoopInv, Followed, Rest
<1> QED
    BY <1>1, <1>5, <1>6, NothingMoves DEF Rest

----------------------------------------------------------------------------
(* A job *)

LEMMA PushKeeps == ASSUME LoopInv, NEW j \in Jobs, Push(j) PROVE LoopInv'
<1>1. PICK t \in Tasks :
             /\ task[t].pc = "unused" /\ listed' = [listed EXCEPT ![j] = t]
             /\ task' \in [Tasks -> TaskRecords]
             /\ task'[t].pc = "spawned" /\ task'[t].job = j /\ task'[t].handle = task[t].handle
             /\ task'[t].how = task[t].how
             /\ \A u \in Tasks : u # t => task'[u] = task[u]
             /\ repushed' = (repushed \/ listed[j] # 0)
             /\ UNCHANGED <<conn, handle, prompt, stop, upd, exit, missed, trouble>>
    BY PushIs DEF LoopInv
<1>2. TypeOK'
    <2>1. listed' \in [Jobs -> 0 .. MaxPushes]
        BY <1>1, TasksAre DEF LoopInv, TypeOK
    <2>2. repushed' \in BOOLEAN
        BY <1>1 DEF LoopInv, TypeOK
    <2> QED
        BY <1>1, <2>1, <2>2 DEF LoopInv, TypeOK
<1>3. Assigned'
    BY <1>1 DEF LoopInv, Assigned
<1>4. \A u \in Tasks : /\ Holds(u)' <=> Holds(u)
                       /\ Unfinished(u) => Unfinished(u)'
    BY <1>1 DEF Holds, Unfinished
<1>5. OneHolder'
    BY <1>4 DEF LoopInv, OneHolder
<1>6. RunningIsHeld'
    <2> SUFFICES ASSUME NEW h \in Tasks, handle'[h].running
                 PROVE  \E u \in Tasks : Holds(u)' /\ task'[u].pc # "stopping" /\ task'[u].handle = h
        BY DEF RunningIsHeld
    <2>1. PICK u \in Tasks : Holds(u) /\ task[u].pc # "stopping" /\ task[u].handle = h
        BY <1>1 DEF LoopInv, RunningIsHeld
    <2> QED
        BY <1>1, <1>4, <2>1 DEF Holds
<1>7. UpdateNotForgotten'
    BY <1>1, <1>4 DEF LoopInv, UpdateNotForgotten
<1>8. Followed'
    <2> SUFFICES ASSUME ~repushed', NEW u \in Tasks PROVE OwnHandle(u)' /\ Stage(u)'
        BY DEF Followed
    <2>1. listed[j] = 0 /\ ~repushed
        BY <1>1
    <2>2. \A v \in Tasks : OwnHandle(v) /\ Stage(v)
        BY <2>1 DEF LoopInv, Followed
    <2>3. CASE u = t
        <3>1. OwnHandle(u)'
            BY <1>1, <2>2, <2>3 DEF OwnHandle, LoopInv, TypeOK
        <3>2. Stage(u)'
            <4>1. handle'[t] = handle[t] /\ prompt'[t] = prompt[t] /\ stop'[t] = stop[t]
                  /\ missed' = missed
                BY <1>1
            <4> QED
                BY <1>1, <2>2, <2>3, <4>1 DEF Stage, Before, Past, Quiet, Still
        <3> QED
            BY <3>1, <3>2
    <2>4. CASE u # t
        <3>1. task[u].job # j \/ ~Unfinished(u)
            BY <2>1, <2>2, TasksAre DEF OwnHandle
        <3>2. OwnHandle(u)'
            BY <1>1, <2>2, <2>4, <3>1 DEF OwnHandle, Unfinished, LoopInv, TypeOK
        <3>3. Stage(u)'
            BY <1>1, <2>2, <2>4, StageStays
        <3> QED
            BY <3>2, <3>3
    <2> QED
        BY <2>3, <2>4
<1> QED
    BY <1>2, <1>3, <1>5, <1>6, <1>7, <1>8 DEF LoopInv

LEMMA BeginKeeps == ASSUME LoopInv, NEW t \in Tasks, Begin(t) PROVE LoopInv'
<1>1. PICK h \in Tasks, j \in Jobs :
             /\ task[t].pc = "spawned" /\ j = task[t].job
             /\ h = IF listed[j] # 0 THEN listed[j] ELSE t
             /\ listed' = [listed EXCEPT ![j] = h]
             /\ task' \in [Tasks -> TaskRecords]
             /\ task'[t].pc = "waiting" /\ task'[t].job = j /\ task'[t].handle = h
             /\ task'[t].how = task[t].how
             /\ \A u \in Tasks : u # t => task'[u] = task[u]
             /\ UNCHANGED <<conn, handle, prompt, stop, upd, exit, missed, repushed, trouble>>
    BY BeginIs DEF LoopInv
<1>2. TypeOK'
    <2>1. listed' \in [Jobs -> 0 .. MaxPushes]
        BY <1>1, TasksAre DEF LoopInv, TypeOK
    <2> QED
        BY <1>1, <2>1 DEF LoopInv, TypeOK
<1>3. Assigned'
    BY <1>1 DEF LoopInv, Assigned
<1>4. \A u \in Tasks : /\ Holds(u)' <=> Holds(u)
                       /\ Unfinished(u)' <=> Unfinished(u)
    BY <1>1 DEF Holds, Unfinished
<1>5. OneHolder'
    BY <1>4 DEF LoopInv, OneHolder
<1>6. RunningIsHeld'
    <2> SUFFICES ASSUME NEW g \in Tasks, handle'[g].running
                 PROVE  \E u \in Tasks : Holds(u)' /\ task'[u].pc # "stopping" /\ task'[u].handle = g
        BY DEF RunningIsHeld
    <2>1. PICK u \in Tasks : Holds(u) /\ task[u].pc # "stopping" /\ task[u].handle = g
        BY <1>1 DEF LoopInv, RunningIsHeld
    <2>2. u # t
        BY <1>1, <2>1 DEF Holds
    <2> QED
        BY <1>1, <1>4, <2>1, <2>2
<1>7. UpdateNotForgotten'
    BY <1>1, <1>4 DEF LoopInv, UpdateNotForgotten
<1>8. Followed'
    <2> SUFFICES ASSUME ~repushed', NEW u \in Tasks PROVE OwnHandle(u)' /\ Stage(u)'
        BY DEF Followed
    <2>1. ~repushed
        BY <1>1
    <2>2. \A v \in Tasks : OwnHandle(v) /\ Stage(v)
        BY <2>1 DEF LoopInv, Followed
    <2>3. listed[j] = t /\ h = t
        BY <1>1, <2>2, TasksAre DEF OwnHandle, Unfinished
    <2>4. listed' = listed
        BY <1>1, <2>3 DEF LoopInv, TypeOK
    <2>5. OwnHandle(u)'
        BY <1>1, <1>4, <2>2, <2>3, <2>4 DEF OwnHandle, Unfinished
    <2>6. CASE u = t
        <3>1. handle'[t] = handle[t] /\ prompt'[t] = prompt[t] /\ stop'[t] = stop[t]
              /\ missed' = missed
            BY <1>1
        <3>2. Stage(u)'
            BY <1>1, <2>2, <2>6, <3>1 DEF Stage, Before, Past, Quiet, Still
        <3> QED
            BY <2>5, <3>2
    <2>7. CASE u # t
        BY <1>1, <2>2, <2>5, <2>7, StageStays
    <2> QED
        BY <2>6, <2>7
<1> QED
    BY <1>2, <1>3, <1>5, <1>6, <1>7, <1>8 DEF LoopInv

LEMMA AcquireKeeps == ASSUME LoopInv, NEW t \in Tasks, Acquire(t) PROVE LoopInv'
<1>0. /\ task \in [Tasks -> TaskRecords] /\ conn \in [Platforms -> Conns]
      /\ handle \in [Tasks -> Handles] /\ task[t].pc = "waiting" /\ Mine(t) \in Tasks
      /\ \A u \in Tasks : ~Holds(u)
    BY DEF LoopInv, TypeOK, Acquire, Mine, TaskRecords
<1>1. /\ task' \in [Tasks -> TaskRecords] /\ task'[t].pc \in {"work", "winddown"}
      /\ task'[t].job = task[t].job /\ task'[t].handle = task[t].handle
      /\ \A u \in Tasks : u # t => task'[u] = task[u]
      /\ conn' \in [Platforms -> Conns]
      /\ UNCHANGED <<listed, prompt, stop, upd, exit, missed, repushed, trouble>>
    <2>1. CASE Ends(t, "cancelled") /\ UNCHANGED conn
        BY <1>0, <2>1, EndsIs DEF Acquire
    <2>2. CASE Goes(t, "work") /\ conn' = Broadcast("busy")
        <3>1. "work" \in TaskStates
            BY DEF TaskStates
        <3> QED
            BY <1>0, <2>2, <3>1, GoesIs, BroadcastIs DEF Acquire
    <2> QED
        BY <2>1, <2>2 DEF Acquire
<1>2. /\ handle' \in [Tasks -> Handles]
      /\ \A h \in Tasks : /\ h # Mine(t) => handle'[h] = handle[h]
                          /\ handle'[h].prompt = handle[h].prompt
                          /\ handle'[h].asked = handle[h].asked
    <2>1. handle' = [handle EXCEPT ![Mine(t)].running = TRUE]
        BY DEF Acquire
    <2> QED
        BY <1>0, <2>1 DEF Handles
<1>3. TypeOK'
    BY <1>1, <1>2 DEF LoopInv, TypeOK
<1>4. Assigned'
    BY <1>0, <1>1 DEF LoopInv, Assigned
<1>5. \A u \in Tasks : /\ Holds(u)' <=> u = t
                       /\ Unfinished(u)' <=> Unfinished(u)
    BY <1>0, <1>1 DEF Holds, Unfinished
<1>6. OneHolder'
    BY <1>5 DEF OneHolder
<1>7. RunningIsHeld'
    <2> SUFFICES ASSUME NEW h \in Tasks, handle'[h].running
                 PROVE  \E u \in Tasks : Holds(u)' /\ task'[u].pc # "stopping" /\ task'[u].handle = h
        BY DEF RunningIsHeld
    <2>1. h = Mine(t)
        BY <1>0, <1>2 DEF LoopInv, RunningIsHeld
    <2> QED
        BY <1>1, <1>5, <2>1 DEF Mine
<1>8. UpdateNotForgotten'
    BY <1>1, <1>5 DEF LoopInv, UpdateNotForgotten
<1>9. Followed'
    <2> SUFFICES ASSUME ~repushed', NEW u \in Tasks PROVE OwnHandle(u)' /\ Stage(u)'
        BY DEF Followed
    <2>1. \A v \in Tasks : OwnHandle(v) /\ Stage(v)
        BY <1>1 DEF LoopInv, Followed
    <2>2. OwnHandle(u)'
        BY <1>1, <1>5, <2>1 DEF OwnHandle
    <2>3. CASE u = t
        <3>1. /\ handle'[t].prompt = 0 /\ prompt'[t] = "none" /\ stop'[t] = stop[t]
              /\ handle[t].prompt = 0 /\ handle'[t].asked = handle[t].asked
            BY <1>0, <1>1, <1>2, <2>1 DEF Stage, Before
        <3>2. handle'[t].asked = 0 /\ t # 0
            BY <2>1, <3>1, TasksAre DEF Stage
        <3>3. Stage(t)'
            BY <1>1, <3>1, <3>2 DEF Stage, Before, Past, Quiet, Still
        <3> QED
            BY <2>2, <2>3, <3>3
    <2>4. CASE u # t
        <3>1. handle'[u] = handle[u]
            BY <1>2, <2>1, <2>4 DEF OwnHandle, Mine
        <3> QED
            BY <1>1, <2>1, <2>2, <2>4, <3>1, StageStays
    <2> QED
        BY <2>3, <2>4
<1> QED
    BY <1>3, <1>4, <1>6, <1>7, <1>8, <1>9 DEF LoopInv

\* What the holder's steps have in common.
LEMMA Advances ==
    ASSUME LoopInv, NEW t \in Tasks, Holds(t), task[t].pc # "stopping",
           task' \in [Tasks -> TaskRecords],
           task'[t].pc \in {"work", "posted", "run", "fetched", "report", "winddown"},
           task'[t].job = task[t].job, task'[t].handle = task[t].handle,
           \A u \in Tasks : u # t => task'[u] = task[u],
           conn' \in [Platforms -> Conns],
           handle' \in [Tasks -> Handles], \A h \in Tasks : handle'[h].running = handle[h].running,
           \A h \in Tasks : h # Mine(t) => handle'[h] = handle[h],
           prompt' \in [Tasks -> Prompts], \A u \in Tasks : u # t => prompt'[u] = prompt[u],
           missed \subseteq missed', missed' \in SUBSET Tasks,
           UNCHANGED <<listed, stop, upd, exit, repushed, trouble>>,
           Mine(t) = t /\ Stage(t) => Stage(t)'
    PROVE  LoopInv'
<1>1. TypeOK'
    BY DEF LoopInv, TypeOK
<1>2. ASSUME ~repushed, NEW u \in Tasks PROVE Stage(u)'
    <2>1. \A v \in Tasks : OwnHandle(v) /\ Stage(v)
        BY <1>2 DEF LoopInv, Followed
    <2>2. Mine(t) = t
        BY <2>1 DEF OwnHandle, Mine
    <2>3. CASE u = t
        BY <2>1, <2>2, <2>3
    <2>4. CASE u # t
        <3>1. handle'[u] = handle[u]
            BY <2>2, <2>4
        <3> QED
            BY <2>1, <2>4, <3>1, StageStays
    <2> QED
        BY <2>3, <2>4
<1> QED
    BY <1>1, <1>2, Proceeds

LEMMA StepFailsKeeps == ASSUME LoopInv, NEW t \in Tasks, StepFails(t) PROVE LoopInv'
<1>1. /\ task \in [Tasks -> TaskRecords] /\ task[t].pc \in {"work", "run"} /\ Fails(t)
      /\ UNCHANGED <<conn, handle, listed, prompt, stop, upd, exit, missed, repushed, trouble>>
    BY DEF StepFails, LoopInv, TypeOK
<1>2. /\ task' \in [Tasks -> TaskRecords]
      /\ task'[t].pc = "winddown" /\ task'[t].how \in {"failed", "cancelled"}
      /\ task'[t].job = task[t].job /\ task'[t].handle = task[t].handle
      /\ \A u \in Tasks : u # t => task'[u] = task[u]
    BY <1>1, FailsIs
<1>3. ASSUME Stage(t) PROVE Stage(t)'
    BY <1>1, <1>2, <1>3 DEF Stage, Before, Past, Quiet, Still
<1> QED
    BY <1>1, <1>2, <1>3, Advances DEF Holds, LoopInv, TypeOK

LEMMA FetchOnlyKeeps == ASSUME LoopInv, NEW t \in Tasks, FetchOnly(t) PROVE LoopInv'
<1>1. /\ task \in [Tasks -> TaskRecords] /\ task[t].pc = "work" /\ Goes(t, "fetched")
      /\ UNCHANGED <<conn, handle, listed, prompt, stop, upd, exit, missed, repushed, trouble>>
    BY DEF FetchOnly, LoopInv, TypeOK
<1>2. /\ task' \in [Tasks -> TaskRecords] /\ task'[t].pc = "fetched"
      /\ task'[t].job = task[t].job /\ task'[t].handle = task[t].handle
      /\ \A u \in Tasks : u # t => task'[u] = task[u]
    <2>1. "fetched" \in TaskStates
        BY DEF TaskStates
    <2> QED
        BY <1>1, <2>1, GoesIs
<1>3. ASSUME Stage(t) PROVE Stage(t)'
    BY <1>1, <1>2, <1>3 DEF Stage, Before, Past, Quiet, Still
<1> QED
    BY <1>1, <1>2, <1>3, Advances DEF Holds, LoopInv, TypeOK

LEMMA PostKeeps == ASSUME LoopInv, NEW t \in Tasks, Post(t) PROVE LoopInv'
<1>1. /\ task \in [Tasks -> TaskRecords] /\ task[t].pc = "work" /\ prompt \in [Tasks -> Prompts]
      /\ UNCHANGED <<conn, handle, listed, stop, upd, exit, missed, repushed, trouble>>
    BY DEF Post, LoopInv, TypeOK
<1>2. CASE Ends(t, "cancelled") /\ UNCHANGED prompt
    <2>1. /\ task' \in [Tasks -> TaskRecords] /\ task'[t].pc = "winddown"
          /\ task'[t].job = task[t].job /\ task'[t].handle = task[t].handle
          /\ \A u \in Tasks : u # t => task'[u] = task[u]
        BY <1>1, <1>2, EndsIs
    <2>2. ASSUME Stage(t) PROVE Stage(t)'
        BY <1>1, <1>2, <2>1, <2>2 DEF Stage, Before, Past, Quiet, Still
    <2> QED
        BY <1>1, <1>2, <2>1, <2>2, Advances DEF Holds, LoopInv, TypeOK
<1>3. CASE Goes(t, "posted") /\ prompt' = [prompt EXCEPT ![t] = "pending"]
    <2>1. /\ task' \in [Tasks -> TaskRecords] /\ task'[t].pc = "posted"
          /\ task'[t].job = task[t].job /\ task'[t].handle = task[t].handle
          /\ \A u \in Tasks : u # t => task'[u] = task[u]
        <3>1. "posted" \in TaskStates
            BY DEF TaskStates
        <3> QED
            BY <1>1, <1>3, <3>1, GoesIs
    <2>2. prompt' \in [Tasks -> Prompts] /\ \A u \in Tasks : u # t => prompt'[u] = prompt[u]
        BY <1>1, <1>3 DEF Prompts
    <2>3. ASSUME Stage(t) PROVE Stage(t)'
        <3>1. handle[t].prompt = 0 /\ handle[t].asked = 0 /\ t # 0
            BY <1>1, <2>3, TasksAre DEF Stage, Before
        <3> QED
            BY <1>1, <2>1, <3>1 DEF Stage, Before, Past
    <2> QED
        BY <1>1, <2>1, <2>2, <2>3, Advances DEF Holds, LoopInv, TypeOK
<1> QED
    BY <1>2, <1>3 DEF Post

LEMMA AnswerKeeps == ASSUME LoopInv, NEW t \in Tasks, Answer(t) PROVE LoopInv'
<1>1. /\ task \in [Tasks -> TaskRecords] /\ task[t].pc = "posted" /\ Mine(t) \in Tasks
      /\ handle \in [Tasks -> Handles] /\ conn \in [Platforms -> Conns]
      /\ UNCHANGED <<listed, prompt, stop, upd, exit, repushed, trouble>>
    BY DEF Answer, LoopInv, TypeOK, Mine, TaskRecords
<1>2. CASE handle' = [handle EXCEPT ![Mine(t)].prompt = t] /\ Goes(t, "run")
             /\ conn' = Broadcast("busy") /\ UNCHANGED missed
    <2>1. /\ task' \in [Tasks -> TaskRecords] /\ task'[t].pc = "run"
          /\ task'[t].job = task[t].job /\ task'[t].handle = task[t].handle
          /\ \A u \in Tasks : u # t => task'[u] = task[u]
        <3>1. "run" \in TaskStates
            BY DEF TaskStates
        <3> QED
            BY <1>1, <1>2, <3>1, GoesIs
    <2>2. /\ handle' \in [Tasks -> Handles]
          /\ \A h \in Tasks : handle'[h].running = handle[h].running
          /\ \A h \in Tasks : h # Mine(t) => handle'[h] = handle[h]
          /\ handle'[Mine(t)].prompt = t /\ handle'[Mine(t)].asked = handle[Mine(t)].asked
        <3>1. t \in 0 .. MaxPushes
            BY TasksAre
        <3> QED
            BY <1>1, <1>2, <3>1 DEF Handles
    <2>3. conn' \in [Platforms -> Conns]
        BY <1>1, <1>2, BroadcastIs
    <2>4. ASSUME Mine(t) = t, Stage(t) PROVE Stage(t)'
        <3>1. handle'[t].asked = 0 /\ handle'[t].prompt = t /\ t # 0
            BY <1>1, <2>2, <2>4, TasksAre DEF Stage, Before
        <3> QED
            BY <1>1, <2>1, <3>1 DEF Stage, Before, Past
    <2> QED
        BY <1>1, <1>2, <2>1, <2>2, <2>3, <2>4, Advances DEF Holds, LoopInv, TypeOK
<1>3. CASE Fails(t) /\ missed' = missed \cup {t} /\ UNCHANGED <<conn, handle>>
    <2>1. /\ task' \in [Tasks -> TaskRecords]
          /\ task'[t].pc = "winddown" /\ task'[t].how \in {"failed", "cancelled"}
          /\ task'[t].job = task[t].job /\ task'[t].handle = task[t].handle
          /\ \A u \in Tasks : u # t => task'[u] = task[u]
        BY <1>1, <1>3, FailsIs
    <2>2. ASSUME Stage(t) PROVE Stage(t)'
        <3>1. handle'[t].prompt = 0 /\ handle'[t].asked = 0 /\ t # 0 /\ t \in missed'
            BY <1>1, <1>3, <2>2, TasksAre DEF Stage, Before
        <3> QED
            BY <2>1, <3>1 DEF Stage, Before, Past, Quiet
    <2> QED
        BY <1>1, <1>3, <2>1, <2>2, Advances DEF Holds, LoopInv, TypeOK
<1> QED
    BY <1>2, <1>3 DEF Answer

LEMMA PollKeeps == ASSUME LoopInv, NEW t \in Tasks, Poll(t) PROVE LoopInv'
<1>1. /\ task \in [Tasks -> TaskRecords] /\ task[t].pc = "run" /\ conn \in [Platforms -> Conns]
      /\ UNCHANGED <<handle, listed, prompt, stop, upd, exit, missed, repushed, trouble>>
    BY DEF Poll, LoopInv, TypeOK
<1>2. CASE (Ends(t, "cancelled") \/ Ends(t, "failed")) /\ UNCHANGED conn
    <2>1. /\ task' \in [Tasks -> TaskRecords] /\ task'[t].pc = "winddown"
          /\ task'[t].job = task[t].job /\ task'[t].handle = task[t].handle
          /\ \A u \in Tasks : u # t => task'[u] = task[u]
        BY <1>1, <1>2, EndsIs
    <2>2. ASSUME Stage(t) PROVE Stage(t)'
        BY <1>1, <2>1, <2>2 DEF Stage, Before, Past, Quiet, Still
    <2> QED
        BY <1>1, <1>2, <2>1, <2>2, Advances DEF Holds, LoopInv, TypeOK
<1>3. CASE Goes(t, "fetched") /\ UNCHANGED conn
    <2>1. /\ task' \in [Tasks -> TaskRecords] /\ task'[t].pc = "fetched"
          /\ task'[t].job = task[t].job /\ task'[t].handle = task[t].handle
          /\ \A u \in Tasks : u # t => task'[u] = task[u]
        <3>1. "fetched" \in TaskStates
            BY DEF TaskStates
        <3> QED
            BY <1>1, <1>3, <3>1, GoesIs
    <2>2. ASSUME Stage(t) PROVE Stage(t)'
        BY <1>1, <2>1, <2>2 DEF Stage, Before, Past, Quiet, Still
    <2> QED
        BY <1>1, <1>3, <2>1, <2>2, Advances DEF Holds, LoopInv, TypeOK
<1>4. CASE conn' = Broadcast("busy") /\ UNCHANGED task
    <2>1. conn' \in [Platforms -> Conns]
        BY <1>1, <1>4, BroadcastIs
    <2>2. ASSUME Stage(t) PROVE Stage(t)'
        BY <1>1, <1>4, <2>2 DEF Stage, Before, Past, Quiet, Still
    <2> QED
        BY <1>1, <1>4, <2>1, <2>2, Advances DEF Holds, LoopInv, TypeOK
<1> QED
    BY <1>2, <1>3, <1>4 DEF Poll

LEMMA ReportKeeps == ASSUME LoopInv, NEW t \in Tasks, Report(t) PROVE LoopInv'
<1>1. /\ task \in [Tasks -> TaskRecords] /\ task[t].pc = "fetched" /\ Mine(t) \in Tasks
      /\ handle \in [Tasks -> Handles] /\ Goes(t, "report")
      /\ handle' = [handle EXCEPT ![Mine(t)].reporting = TRUE]
      /\ UNCHANGED <<conn, listed, prompt, stop, upd, exit, missed, repushed, trouble>>
    BY DEF Report, LoopInv, TypeOK, Mine, TaskRecords
<1>2. /\ task' \in [Tasks -> TaskRecords] /\ task'[t].pc = "report"
      /\ task'[t].job = task[t].job /\ task'[t].handle = task[t].handle
      /\ \A u \in Tasks : u # t => task'[u] = task[u]
    <2>1. "report" \in TaskStates
        BY DEF TaskStates
    <2> QED
        BY <1>1, <2>1, GoesIs
<1>3. /\ handle' \in [Tasks -> Handles]
      /\ \A h \in Tasks : /\ handle'[h].running = handle[h].running
                          /\ handle'[h].prompt = handle[h].prompt
                          /\ handle'[h].asked = handle[h].asked
      /\ \A h \in Tasks : h # Mine(t) => handle'[h] = handle[h]
    BY <1>1 DEF Handles
<1>4. ASSUME Stage(t) PROVE Stage(t)'
    BY <1>1, <1>2, <1>3, <1>4 DEF Stage, Before, Past, Quiet, Still
<1> QED
    BY <1>1, <1>2, <1>3, <1>4, Advances DEF Holds, LoopInv, TypeOK

LEMMA HandOverKeeps ==
    ASSUME LoopInv, NEW t \in Tasks, HandOver(t) \/ Refused(t) PROVE LoopInv'
<1>1. /\ task \in [Tasks -> TaskRecords] /\ task[t].pc = "report"
      /\ UNCHANGED <<conn, handle, listed, prompt, stop, upd, exit, missed, repushed, trouble>>
    BY DEF HandOver, Refused, LoopInv, TypeOK
<1>2. Ends(t, "cancelled") \/ Ends(t, "done") \/ Fails(t)
    BY DEF HandOver, Refused
<1>3. /\ task' \in [Tasks -> TaskRecords] /\ task'[t].pc = "winddown"
      /\ task'[t].job = task[t].job /\ task'[t].handle = task[t].handle
      /\ \A u \in Tasks : u # t => task'[u] = task[u]
    BY <1>1, <1>2, EndsIs, FailsIs
<1>4. ASSUME Stage(t) PROVE Stage(t)'
    BY <1>1, <1>3, <1>4 DEF Stage, Before, Past, Quiet, Still
<1> QED
    BY <1>1, <1>3, <1>4, Advances DEF Holds, LoopInv, TypeOK

----------------------------------------------------------------------------
(* Stopping a prompt *)

\* A request to stop that a handle makes is for the task's own prompt.
LEMMA Asks ==
    ASSUME LoopInv, ~repushed, NEW hs \in SUBSET Tasks, NEW u \in Tasks,
           stop' = StopsOf(hs), UNCHANGED <<prompt, missed>>,
           handle'[u].prompt = handle[u].prompt,
           u \in hs => handle'[u].asked = handle[u].prompt,
           u \notin hs => handle'[u].asked = handle[u].asked,
           task'[u] = task[u] \/ ( /\ task[u].pc = "winddown" /\ task'[u].pc = "stopping"
                                   /\ u \in hs \/ task'[u].how # "cancelled")
    PROVE  Stage(u)'
<1>1. \A v \in Tasks : Stage(v) /\ v # 0
    BY TasksAre DEF LoopInv, Followed
<1>2. /\ stop \in [Tasks -> Stops]
      /\ stop'[u] = IF u \in UNION {ToStop(h) : h \in hs} THEN "asked" ELSE stop[u]
    BY DEF LoopInv, TypeOK, StopsOf
<1>3. \A h \in hs : u \in ToStop(h) => u = h
    BY <1>1 DEF ToStop, Stage
<1>4. /\ u \in hs /\ handle[u].prompt # handle[u].asked /\ handle[u].prompt = u => stop'[u] = "asked"
      /\ u \notin hs \/ handle[u].prompt = handle[u].asked => stop'[u] = stop[u]
    BY <1>2, <1>3 DEF ToStop
<1>5. Quiet(u)' <=> Quiet(u)
    BY DEF Quiet, Still
<1>6. handle'[u].asked = u => stop'[u] \in {"asked", "pending", "running"}
                                \/ (stop'[u] = "over" /\ Quiet(u)')
    BY <1>1, <1>4, <1>5 DEF Stage
<1>7. handle'[u].asked \in {0, handle'[u].prompt}
    BY <1>1 DEF Stage
<1>8. CASE task'[u] = task[u]
    <2>1. task'[u].pc = "stopping" /\ task'[u].how = "cancelled"
            => handle'[u].asked = handle'[u].prompt
        BY <1>1, <1>8 DEF Stage
    <2> QED
        BY <1>1, <1>5, <1>6, <1>7, <1>8, <2>1 DEF Stage
<1>9. CASE /\ task[u].pc = "winddown" /\ task'[u].pc = "stopping"
           /\ u \in hs \/ task'[u].how # "cancelled"
    BY <1>1, <1>5, <1>6, <1>7, <1>9 DEF Stage, Before, Past
<1> QED
    BY <1>8, <1>9

LEMMA CancelJobKeeps == ASSUME LoopInv, NEW j \in Jobs, CancelJob(j) PROVE LoopInv'
<1>1. PICK h \in Tasks : h = listed[j]
    BY TasksAre DEF LoopInv, TypeOK, CancelJob
<1>2. /\ stop' = StopsOf({h}) /\ handle' = [Asked({h}) EXCEPT ![h].cancel = TRUE]
      /\ UNCHANGED <<conn, task, listed, prompt, upd, exit, missed, repushed, trouble>>
    BY <1>1 DEF CancelJob
<1>3. /\ handle \in [Tasks -> Handles] /\ stop \in [Tasks -> Stops] /\ {h} \in SUBSET Tasks
    BY DEF LoopInv, TypeOK
<1>4. /\ Asked({h}) \in [Tasks -> Handles] /\ stop' \in [Tasks -> Stops]
      /\ \A g \in Tasks : /\ Asked({h})[g].prompt = handle[g].prompt
                          /\ Asked({h})[g].running = handle[g].running
                          /\ g = h => Asked({h})[g].asked = handle[g].prompt
                          /\ g # h => Asked({h})[g] = handle[g]
    BY <1>2, <1>3, AskingIs
<1>5. /\ handle' \in [Tasks -> Handles]
      /\ \A g \in Tasks : /\ handle'[g].prompt = handle[g].prompt
                          /\ handle'[g].running = handle[g].running
                          /\ g = h => handle'[g].asked = handle[g].prompt
                          /\ g # h => handle'[g].asked = handle[g].asked
    <2> HIDE DEF Asked
    <2> QED
        BY <1>2, <1>4 DEF Handles
<1>6. TypeOK'
    BY <1>2, <1>4, <1>5 DEF LoopInv, TypeOK
<1>7. ASSUME ~repushed, NEW u \in Tasks PROVE Stage(u)'
    BY <1>2, <1>3, <1>5, <1>7, Asks
<1>8. UpdateNotForgotten'
    BY <1>2 DEF LoopInv, UpdateNotForgotten, Unfinished
<1> QED
    BY <1>2, <1>5, <1>6, <1>7, <1>8, NothingMoves

LEMMA ShutdownKeeps == ASSUME LoopInv, Shutdown PROVE LoopInv'
<1>1. PICK hs \in SUBSET Tasks : hs = Abortable
    <2>1. ASSUME NEW j \in Jobs, listed[j] # 0 PROVE listed[j] \in Tasks
        BY <2>1, TasksAre DEF LoopInv, TypeOK
    <2> QED
        BY <2>1 DEF Abortable
<1>2. /\ stop' = StopsOf(hs) /\ exit' = "stopping"
      /\ handle' = [h \in Tasks |-> [Asked(hs)[h] EXCEPT !.cancel = @ \/ h \in hs]]
      /\ UNCHANGED <<conn, task, listed, prompt, upd, missed, repushed, trouble>>
    BY <1>1 DEF Shutdown
<1>3. /\ handle \in [Tasks -> Handles] /\ stop \in [Tasks -> Stops]
    BY DEF LoopInv, TypeOK
<1>4. /\ Asked(hs) \in [Tasks -> Handles] /\ stop' \in [Tasks -> Stops]
      /\ \A g \in Tasks : /\ Asked(hs)[g].prompt = handle[g].prompt
                          /\ Asked(hs)[g].running = handle[g].running
                          /\ g \in hs => Asked(hs)[g].asked = handle[g].prompt
                          /\ g \notin hs => Asked(hs)[g] = handle[g]
    BY <1>2, <1>3, AskingIs
<1>5. /\ handle' \in [Tasks -> Handles]
      /\ \A g \in Tasks : /\ handle'[g].prompt = handle[g].prompt
                          /\ handle'[g].running = handle[g].running
                          /\ g \in hs => handle'[g].asked = handle[g].prompt
                          /\ g \notin hs => handle'[g].asked = handle[g].asked
    <2>1. ASSUME NEW r \in Handles, NEW b \in BOOLEAN
          PROVE  LET n == [r EXCEPT !.cancel = b] IN
                 n \in Handles /\ n.prompt = r.prompt /\ n.running = r.running /\ n.asked = r.asked
        BY DEF Handles
    <2>2. ASSUME NEW g \in Tasks
          PROVE  /\ handle'[g] \in Handles
                 /\ handle'[g].prompt = Asked(hs)[g].prompt
                 /\ handle'[g].running = Asked(hs)[g].running
                 /\ handle'[g].asked = Asked(hs)[g].asked
        <3>1. PICK r \in Handles : r = Asked(hs)[g]
            BY <1>4
        <3>2. PICK b \in BOOLEAN : b = (r.cancel \/ g \in hs)
            OBVIOUS
        <3>3. handle'[g] = [r EXCEPT !.cancel = r.cancel \/ g \in hs]
            BY <1>2, <3>1
        <3>4. handle'[g] = [r EXCEPT !.cancel = b]
            BY <3>2, <3>3
        <3> QED
            BY <2>1, <3>1, <3>4
    <2>3. handle' = [g \in Tasks |-> handle'[g]]
        BY <1>2
    <2>4. handle' \in [Tasks -> Handles]
        BY <2>2, <2>3
    <2> QED
        BY <1>4, <2>2, <2>4
<1>6. TypeOK'
    BY <1>2, <1>4, <1>5 DEF LoopInv, TypeOK
<1>7. ASSUME ~repushed, NEW u \in Tasks PROVE Stage(u)'
    BY <1>2, <1>5, <1>7, Asks
<1>8. UpdateNotForgotten'
    BY <1>2 DEF LoopInv, UpdateNotForgotten, Unfinished
<1> QED
    BY <1>2, <1>5, <1>6, <1>7, <1>8, NothingMoves

LEMMA ReadQueueKeeps == ASSUME LoopInv, NEW t \in Tasks, ReadQueue(t) PROVE LoopInv'
<1>1. /\ stop \in [Tasks -> Stops] /\ stop[t] = "asked" /\ prompt[t] \in Prompts
      /\ UNCHANGED <<conn, task, handle, listed, prompt, upd, exit, missed, repushed, trouble>>
    BY DEF LoopInv, TypeOK, ReadQueue
<1>2. PICK s \in Stops : /\ stop' = [stop EXCEPT ![t] = s]
                         /\ s \in {"pending", "running"} \/ (s = "over" /\ ~Still(t))
    BY <1>1 DEF ReadQueue, Stops, Still
<1>3. stop' \in [Tasks -> Stops] /\ stop'[t] = s /\ \A u \in Tasks : u # t => stop'[u] = stop[u]
    BY <1>1, <1>2
<1>4. TypeOK'
    BY <1>1, <1>3 DEF LoopInv, TypeOK
<1>5. ASSUME ~repushed, NEW u \in Tasks PROVE Stage(u)'
    <2>1. Stage(u)
        BY <1>5 DEF LoopInv, Followed
    <2>2. CASE u = t
        BY <1>1, <1>2, <1>3, <2>1, <2>2 DEF Stage, Quiet, Still
    <2>3. CASE u # t
        BY <1>1, <1>3, <2>1, <2>3, StageStays
    <2> QED
        BY <2>2, <2>3
<1>6. UpdateNotForgotten'
    BY <1>1 DEF LoopInv, UpdateNotForgotten, Unfinished
<1> QED
    BY <1>1, <1>4, <1>5, <1>6, NothingMoves

LEMMA StrikeKeeps == ASSUME LoopInv, NEW t \in Tasks, Strike(t) PROVE LoopInv'
<1>1. /\ stop \in [Tasks -> Stops] /\ stop[t] \in {"pending", "running"}
      /\ prompt \in [Tasks -> Prompts] /\ missed \in SUBSET Tasks
      /\ stop' = [stop EXCEPT ![t] = "over"]
      /\ UNCHANGED <<conn, task, handle, listed, upd, exit, repushed, trouble>>
    BY DEF LoopInv, TypeOK, Strike
<1>2. stop' \in [Tasks -> Stops] /\ stop'[t] = "over" /\ \A u \in Tasks : u # t => stop'[u] = stop[u]
    BY <1>1 DEF Stops
<1>3. /\ prompt' \in [Tasks -> Prompts] /\ missed \subseteq missed' /\ missed' \in SUBSET Tasks
      /\ \A u \in Tasks : \/ prompt'[u] = prompt[u]
                          \/ prompt[u] \in {"pending", "running"} /\ prompt'[u] = "error"
      /\ prompt'[t] = "error" \/ t \in missed'
    <2>1. CASE missed' = missed \cup {t} /\ UNCHANGED prompt
        BY <1>1, <2>1
    <2>2. PICK hit \in SUBSET Tasks :
            /\ \A u \in hit : prompt[u] \in {"pending", "running"}
            /\ \/ /\ prompt' = [u \in Tasks |-> IF u \in hit THEN "error" ELSE prompt[u]]
                  /\ missed' = IF t \in hit THEN missed ELSE missed \cup {t}
               \/ /\ missed' = missed \cup {t}
                  /\ UNCHANGED prompt
        <3> DEFINE hit == IF stop[t] = "pending" THEN {t} \cap {u \in Tasks : prompt[u] = "pending"}
                                                 ELSE {u \in Tasks : prompt[u] = "running"}
        <3>1. hit \in SUBSET Tasks /\ \A u \in hit : prompt[u] \in {"pending", "running"}
            OBVIOUS
        <3> QED
            BY <3>1 DEF Strike
    <2>3. CASE /\ prompt' = [u \in Tasks |-> IF u \in hit THEN "error" ELSE prompt[u]]
               /\ missed' = IF t \in hit THEN missed ELSE missed \cup {t}
        BY <1>1, <2>2, <2>3 DEF Prompts
    <2> QED
        BY <2>1, <2>2, <2>3
<1>4. TypeOK'
    BY <1>1, <1>2, <1>3 DEF LoopInv, TypeOK
<1>5. ASSUME ~repushed, NEW u \in Tasks PROVE Stage(u)'
    <2>1. Stage(u)
        BY <1>5 DEF LoopInv, Followed
    <2>2. CASE u = t
        <3>1. Quiet(t)'
            BY <1>3 DEF Quiet, Still
        <3> QED
            BY <1>1, <1>2, <1>3, <2>1, <2>2, <3>1 DEF Stage, Before
    <2>3. CASE u # t
        BY <1>1, <1>2, <1>3, <2>1, <2>3, StageStays
    <2> QED
        BY <2>2, <2>3
<1>6. UpdateNotForgotten'
    BY <1>1 DEF LoopInv, UpdateNotForgotten, Unfinished
<1> QED
    BY <1>1, <1>4, <1>5, <1>6, NothingMoves

----------------------------------------------------------------------------
(* The wind-down *)

LEMMA WindDownIs ==
    ASSUME LoopInv, NEW t \in Tasks, WindDown(t)
    PROVE  /\ task' \in [Tasks -> TaskRecords]
           /\ task[t].pc = "winddown" /\ task'[t].pc = "stopping"
           /\ task'[t].job = task[t].job /\ task'[t].handle = task[t].handle
           /\ task'[t].how = "cancelled" <=> task[t].how = "cancelled"
           /\ \A u \in Tasks : u # t => task'[u] = task[u]
<1>1. PICK how \in {"none", "done", "failed", "cancelled", "raised"} :
            /\ how = IF task[t].how = "failed" /\ OwnConn(t).ws = "none" THEN "raised"
                                                                        ELSE task[t].how
            /\ how = "cancelled" <=> task[t].how = "cancelled"
    BY DEF LoopInv, TypeOK, TaskRecords
<1>2. PICK rec \in TaskRecords : /\ rec = [task[t] EXCEPT !.pc = "stopping", !.how = how]
                                 /\ rec.pc = "stopping" /\ rec.how = how
                                 /\ rec.job = task[t].job /\ rec.handle = task[t].handle
    <2> DEFINE n == [task[t] EXCEPT !.pc = "stopping", !.how = how]
    <2>1. task[t] \in TaskRecords
        BY DEF LoopInv, TypeOK
    <2>2. n \in TaskRecords
        BY <2>1 DEF TaskRecords, TaskStates
    <2>3. n.pc = "stopping" /\ n.how = how /\ n.job = task[t].job /\ n.handle = task[t].handle
        BY <2>1 DEF TaskRecords
    <2> QED
        BY <2>2, <2>3
<1>3. task' = [task EXCEPT ![t].pc = "stopping", ![t].how = how]
    BY <1>1 DEF WindDown, LoopInv, TypeOK, TaskRecords
<1>4. task' = [task EXCEPT ![t] = rec]
    BY <1>2, <1>3 DEF LoopInv, TypeOK
<1>5. task' \in [Tasks -> TaskRecords] /\ task'[t] = rec /\ \A u \in Tasks : u # t => task'[u] = task[u]
    BY <1>4 DEF LoopInv, TypeOK
<1>6. task[t].pc = "winddown"
    BY DEF WindDown
<1> QED
    BY <1>1, <1>2, <1>5, <1>6

LEMMA WindDownKeeps == ASSUME LoopInv, NEW t \in Tasks, WindDown(t) PROVE LoopInv'
<1>1. /\ task' \in [Tasks -> TaskRecords]
      /\ task[t].pc = "winddown" /\ task'[t].pc = "stopping"
      /\ task'[t].job = task[t].job /\ task'[t].handle = task[t].handle
      /\ task'[t].how = "cancelled" <=> task[t].how = "cancelled"
      /\ \A u \in Tasks : u # t => task'[u] = task[u]
    BY WindDownIs
<1>2. PICK m \in Tasks : m = Mine(t)
    BY DEF LoopInv, TypeOK, Mine, TaskRecords
<1>3. PICK hs \in SUBSET Tasks :
          /\ hs = IF StopAgain(t) THEN {m} ELSE {}
          /\ stop' = StopsOf(hs) /\ handle' = [Asked(hs) EXCEPT ![m].running = FALSE]
    BY <1>2 DEF WindDown
<1>4. UNCHANGED <<conn, listed, prompt, upd, exit, missed, repushed, trouble>>
    BY DEF WindDown
<1>5. /\ Asked(hs) \in [Tasks -> Handles] /\ stop' \in [Tasks -> Stops]
      /\ \A g \in Tasks : /\ Asked(hs)[g].prompt = handle[g].prompt
                          /\ Asked(hs)[g].running = handle[g].running
                          /\ g \in hs => Asked(hs)[g].asked = handle[g].prompt
                          /\ g \notin hs => Asked(hs)[g] = handle[g]
    BY <1>3, AskingIs DEF LoopInv, TypeOK
<1>6. /\ handle' \in [Tasks -> Handles] /\ ~handle'[m].running
      /\ \A g \in Tasks : /\ handle'[g].prompt = handle[g].prompt
                          /\ g # m => handle'[g].running = handle[g].running
                          /\ g \in hs => handle'[g].asked = handle[g].prompt
                          /\ g \notin hs => handle'[g].asked = handle[g].asked
    <2>1. PICK f \in [Tasks -> Handles] : f = Asked(hs)
        BY <1>5
    <2>2. handle' = [f EXCEPT ![m].running = FALSE]
        BY <1>3, <2>1
    <2>3. /\ handle' \in [Tasks -> Handles] /\ ~handle'[m].running
          /\ \A g \in Tasks : /\ handle'[g].prompt = f[g].prompt /\ handle'[g].asked = f[g].asked
                              /\ g # m => handle'[g].running = f[g].running
        BY <2>2 DEF Handles
    <2> QED
        BY <1>5, <2>1, <2>3
<1>7. TypeOK'
    BY <1>1, <1>4, <1>5, <1>6 DEF LoopInv, TypeOK
<1>8. Assigned'
    BY <1>1 DEF LoopInv, Assigned
<1>9. \A u \in Tasks : /\ Holds(u)' <=> Holds(u)
                       /\ Unfinished(u)' <=> Unfinished(u)
    BY <1>1 DEF Holds, Unfinished
<1>10. OneHolder'
    BY <1>9 DEF LoopInv, OneHolder
<1>11. RunningIsHeld'
    <2> SUFFICES ASSUME NEW g \in Tasks, handle'[g].running PROVE FALSE
        BY DEF RunningIsHeld
    <2>1. g # m /\ handle[g].running
        BY <1>6
    <2>2. PICK u \in Tasks : Holds(u) /\ task[u].handle = g
        BY <2>1 DEF LoopInv, RunningIsHeld
    <2>3. u = t
        BY <1>1, <2>2 DEF LoopInv, OneHolder, Holds
    <2> QED
        BY <1>2, <2>1, <2>2, <2>3 DEF Mine
<1>12. UpdateNotForgotten'
    BY <1>4, <1>9 DEF LoopInv, UpdateNotForgotten
<1>13. ASSUME ~repushed, NEW u \in Tasks PROVE OwnHandle(u)' /\ Stage(u)'
    <2>1. \A v \in Tasks : OwnHandle(v)
        BY <1>13 DEF LoopInv, Followed
    <2>2. OwnHandle(u)'
        BY <1>1, <1>4, <1>9, <2>1 DEF OwnHandle
    <2>3. m = t
        BY <1>2, <2>1 DEF OwnHandle, Mine
    <2>4. task'[u] = task[u] \/ ( /\ task[u].pc = "winddown" /\ task'[u].pc = "stopping"
                                  /\ u \in hs \/ task'[u].how # "cancelled")
        BY <1>1, <1>3, <2>3 DEF StopAgain
    <2>5. Stage(u)'
        BY <1>3, <1>4, <1>6, <1>13, <2>4, Asks
    <2> QED
        BY <2>2, <2>5
<1>14. Followed'
    BY <1>4, <1>13 DEF Followed
<1> QED
    BY <1>7, <1>8, <1>10, <1>11, <1>12, <1>14 DEF LoopInv

LEMMA FinishKeeps == ASSUME LoopInv, NEW t \in Tasks, Finish(t) PROVE LoopInv'
<1>1. /\ task \in [Tasks -> TaskRecords] /\ task[t].pc = "stopping"
      /\ UNCHANGED <<prompt, stop, exit, missed, repushed, trouble>>
    BY DEF Finish, LoopInv, TypeOK
<1>2. /\ task' \in [Tasks -> TaskRecords] /\ task'[t].pc = "ended"
      /\ task'[t].how = task[t].how
      /\ task'[t].job = task[t].job /\ task'[t].handle = task[t].handle
      /\ \A u \in Tasks : u # t => task'[u] = task[u]
    <2>1. "ended" \in TaskStates
        BY DEF TaskStates
    <2> QED
        BY <1>1, <2>1, GoesIs DEF Finish
<1>3. PICK m \in Tasks : m = Mine(t)
    BY DEF LoopInv, TypeOK, Mine, TaskRecords
<1>4. PICK j \in Jobs : j = task[t].job
    BY <1>1 DEF LoopInv, Assigned
<1>5. /\ listed' \in [Jobs -> 0 .. MaxPushes]
      /\ \A i \in Jobs : i # j \/ listed[i] # m => listed'[i] = listed[i]
    <2>1. listed' = [listed EXCEPT ![j] = IF listed[j] = m THEN 0 ELSE listed[j]]
        BY <1>3, <1>4 DEF Finish, LoopInv, TypeOK
    <2> QED
        BY <1>4, <2>1, TasksAre DEF LoopInv, TypeOK
<1>6. /\ handle' \in [Tasks -> Handles]
      /\ handle'[m] \in {handle[m], NewHandle}
      /\ \A h \in Tasks : h # m => handle'[h] = handle[h]
    <2>1. NewHandle \in Handles
        BY TasksAre DEF NewHandle, Handles
    <2>2. PICK r \in Handles : /\ r \in {handle[m], NewHandle} /\ handle' = [handle EXCEPT ![m] = r]
        BY <1>3, <2>1 DEF Finish, LoopInv, TypeOK
    <2> QED
        BY <2>2 DEF LoopInv, TypeOK
<1>7. /\ upd' \in Updates /\ upd'.pending = upd.pending
      /\ upd.pending /\ exit = "run" => upd'.woken
    BY DEF Finish, Wakes, LoopInv, TypeOK, Updates
<1>8. conn' \in [Platforms -> Conns]
    BY BroadcastIs DEF Finish, LoopInv, TypeOK
<1>9. TypeOK'
    BY <1>1, <1>2, <1>5, <1>6, <1>7, <1>8 DEF LoopInv, TypeOK
<1>10. Assigned'
    BY <1>1, <1>2 DEF LoopInv, Assigned
<1>11. \A u \in Tasks : Holds(u)' => Holds(u) /\ u # t
    BY <1>2 DEF Holds
<1>12. OneHolder'
    BY <1>11 DEF LoopInv, OneHolder
<1>13. RunningIsHeld'
    <2> SUFFICES ASSUME NEW g \in Tasks, handle'[g].running PROVE FALSE
        BY DEF RunningIsHeld
    <2>1. handle[g].running
        BY <1>6 DEF NewHandle
    <2>2. PICK u \in Tasks : Holds(u) /\ task[u].pc # "stopping"
        BY <2>1 DEF LoopInv, RunningIsHeld
    <2> QED
        BY <1>1, <2>2 DEF LoopInv, OneHolder, Holds
<1>14. UpdateNotForgotten'
    BY <1>1, <1>7 DEF UpdateNotForgotten
<1>15. ASSUME ~repushed, NEW u \in Tasks PROVE OwnHandle(u)' /\ Stage(u)'
    <2>1. \A v \in Tasks : OwnHandle(v) /\ Stage(v)
        BY <1>15 DEF LoopInv, Followed
    <2>2. m = t
        BY <1>3, <2>1 DEF OwnHandle, Mine
    <2>3. CASE u = t
        <3>1. OwnHandle(t)'
            BY <1>2, <2>1 DEF OwnHandle, Unfinished
        <3>2. task[t].how = "cancelled" => Quiet(t)
            <4> SUFFICES ASSUME task[t].how = "cancelled" PROVE Quiet(t)
                OBVIOUS
            <4>1. handle[t].asked = handle[t].prompt
                BY <1>1, <2>1 DEF Stage
            <4>2. CASE handle[t].prompt = t
                <5>1. stop[t] \in {"no", "over"}
                    BY <1>3, <2>2, <4>2 DEF Finish
                <5> QED
                    BY <2>1, <4>1, <4>2, <5>1 DEF Stage
            <4>3. CASE handle[t].prompt # t
                BY <1>1, <2>1, <4>3 DEF Stage, Past
            <4> QED
                BY <4>2, <4>3
        <3>3. handle'[t] = handle[t] \/ (handle'[t].prompt = 0 /\ handle'[t].asked = 0 /\ t # 0)
            BY <1>6, <2>2, TasksAre DEF NewHandle
        <3>4. Quiet(t)' <=> Quiet(t)
            BY <1>1 DEF Quiet, Still
        <3>5. Stage(t)'
            BY <1>1, <1>2, <2>1, <3>2, <3>3, <3>4 DEF Stage, Before, Past
        <3> QED
            BY <2>3, <3>1, <3>5
    <2>4. CASE u # t
        <3>1. Stage(u)'
            BY <1>1, <1>2, <1>6, <2>1, <2>2, <2>4, StageStays
        <3>2. OwnHandle(u)'
            <4>1. ASSUME Unfinished(u) PROVE listed'[task[u].job] = u
                <5>1. listed[task[u].job] = u /\ task[u].job \in Jobs
                    BY <2>1, <4>1 DEF OwnHandle, Unfinished, LoopInv, Assigned
                <5> QED
                    BY <1>5, <2>2, <2>4, <5>1
            <4> QED
                BY <1>2, <2>1, <2>4, <4>1 DEF OwnHandle, Unfinished
        <3> QED
            BY <3>1, <3>2
    <2> QED
        BY <2>3, <2>4
<1>16. Followed'
    BY <1>1, <1>15 DEF Followed
<1> QED
    BY <1>9, <1>10, <1>12, <1>13, <1>14, <1>16 DEF LoopInv

----------------------------------------------------------------------------
(* ComfyUI, and the way out *)

\* ComfyUI moves prompts it has on, and nothing but connections change with them.
LEMMA PromptsMove ==
    ASSUME LoopInv, conn' \in [Platforms -> Conns], prompt' \in [Tasks -> Prompts],
           \A u \in Tasks : prompt'[u] = prompt[u] \/ Still(u),
           upd' \in Updates, upd'.pending = upd.pending, upd'.woken = upd.woken,
           UNCHANGED <<task, handle, listed, stop, exit, missed, repushed, trouble>>
    PROVE  LoopInv'
<1>1. TypeOK'
    BY DEF LoopInv, TypeOK
<1>2. UpdateNotForgotten'
    BY DEF LoopInv, UpdateNotForgotten, Unfinished
<1>3. ~repushed => \A u \in Tasks : Stage(u)'
    BY StageStays DEF LoopInv, Followed, Still
<1> QED
    BY <1>1, <1>2, <1>3, NothingMoves

LEMMA ComfyStartKeeps == ASSUME LoopInv, ComfyStart PROVE LoopInv'
<1> DEFINE T == {t \in Tasks : prompt[t] = "pending"}
<1>1. Min(T) \in T
    BY LeastTask DEF ComfyStart
<1>2. PICK t \in Tasks : t = Min(T) /\ prompt[t] = "pending"
    BY <1>1
<1>3. prompt' = [prompt EXCEPT ![t] = "running"] /\ prompt \in [Tasks -> Prompts]
    BY <1>2 DEF ComfyStart, LoopInv, TypeOK
<1>4. prompt' \in [Tasks -> Prompts] /\ \A u \in Tasks : prompt'[u] = prompt[u] \/ Still(u)
    BY <1>2, <1>3 DEF Prompts, Still
<1>5. /\ UNCHANGED <<conn, task, handle, listed, stop, upd, exit, missed, repushed, trouble>>
      /\ conn \in [Platforms -> Conns] /\ upd \in Updates
    BY DEF ComfyStart, LoopInv, TypeOK
<1> QED
    BY <1>4, <1>5, PromptsMove

LEMMA ComfyEndKeeps == ASSUME LoopInv, NEW t \in Tasks, ComfyEnd(t) PROVE LoopInv'
<1>1. prompt' \in [Tasks -> Prompts] /\ \A u \in Tasks : prompt'[u] = prompt[u] \/ Still(u)
    BY DEF ComfyEnd, Prompts, Still, LoopInv, TypeOK
<1>2. /\ UNCHANGED <<conn, task, handle, listed, stop, upd, exit, missed, repushed, trouble>>
      /\ conn \in [Platforms -> Conns] /\ upd \in Updates
    BY DEF ComfyEnd, LoopInv, TypeOK
<1> QED
    BY <1>1, <1>2, PromptsMove

LEMMA ComfyDoneKeeps == ASSUME LoopInv, ComfyDone PROVE LoopInv'
<1>1. prompt' \in [Tasks -> Prompts] /\ \A u \in Tasks : prompt'[u] = prompt[u] \/ Still(u)
    BY DEF ComfyDone, Prompts, Still, LoopInv, TypeOK
<1>2. upd' \in Updates /\ upd'.pending = upd.pending /\ upd'.woken = upd.woken
    BY DEF ComfyDone, Updates, LoopInv, TypeOK
<1>3. conn' \in [Platforms -> Conns]
    <2>1. \A p \in Platforms : [conn[p] EXCEPT !.ws = "none", !.rejected = 0] \in Conns
        BY ConnFields DEF LoopInv, TypeOK
    <2> QED
        BY <2>1 DEF ComfyDone, LoopInv, TypeOK
<1>4. UNCHANGED <<task, handle, listed, stop, exit, missed, repushed, trouble>>
    BY DEF ComfyDone
<1> QED
    BY <1>1, <1>2, <1>3, <1>4, PromptsMove

LEMMA ExitKeeps == ASSUME LoopInv, Exit PROVE LoopInv'
<1>1. /\ exit' = "over" /\ UNCHANGED <<prompt, missed, repushed, trouble>>
      /\ handle' = [t \in Tasks |-> NewHandle] /\ listed' = [j \in Jobs |-> 0]
      /\ stop' = [t \in Tasks |-> "over"]
    BY DEF Exit
<1>2. /\ handle' \in [Tasks -> Handles] /\ listed' \in [Jobs -> 0 .. MaxPushes]
      /\ stop' \in [Tasks -> Stops]
    <2>1. NewHandle \in Handles /\ 0 \in 0 .. MaxPushes
        BY TasksAre DEF NewHandle, Handles
    <2> QED
        BY <1>1, <2>1 DEF Stops
<1>3. upd' \in Updates
    BY DEF Exit, Updates
<1>4. conn' \in [Platforms -> Conns]
    <2>1. \A p \in Platforms : [conn[p] EXCEPT !.ws = "none"] \in Conns
        BY ConnFields DEF LoopInv, TypeOK
    <2> QED
        BY <2>1 DEF Exit
<1>5. ASSUME NEW t \in Tasks
      PROVE  /\ task'[t] \in TaskRecords /\ task'[t].pc \in {"unused", "ended"}
             /\ task'[t].pc = task[t].pc \/ task'[t].how = "none"
             /\ task'[t].pc = "unused" <=> task[t].pc = "unused"
             /\ task'[t].how \in {task[t].how, "none"}
             /\ task'[t].job = task[t].job /\ task'[t].handle = task[t].handle
    <2>1. task[t] \in TaskRecords
        BY DEF LoopInv, TypeOK
    <2>2. CASE Unfinished(t)
        <3>1. task'[t] = [task[t] EXCEPT !.pc = "ended", !.how = "none"]
            BY <2>2 DEF Exit
        <3>2. task'[t] \in TaskRecords
            BY <2>1, <3>1 DEF TaskRecords, TaskStates
        <3> QED
            BY <2>1, <2>2, <3>1, <3>2 DEF TaskRecords, Unfinished
    <2>3. CASE ~Unfinished(t)
        <3>1. task'[t] = task[t]
            BY <2>3 DEF Exit
        <3> QED
            BY <2>1, <2>3, <3>1 DEF Unfinished
    <2> QED
        BY <2>2, <2>3
<1>6. task' \in [Tasks -> TaskRecords]
    <2>1. task' = [t \in Tasks |-> task'[t]]
        BY DEF Exit
    <2> QED
        BY <1>5, <2>1
<1>7. TypeOK'
    BY <1>1, <1>2, <1>3, <1>4, <1>6 DEF LoopInv, TypeOK
<1>8. Assigned'
    BY <1>5 DEF LoopInv, Assigned
<1>9. OneHolder'
    BY <1>5 DEF OneHolder, Holds
<1>10. RunningIsHeld'
    BY <1>1 DEF RunningIsHeld, NewHandle
<1>11. UpdateNotForgotten'
    BY <1>1 DEF UpdateNotForgotten
<1>12. ASSUME ~repushed, NEW t \in Tasks PROVE OwnHandle(t)' /\ Stage(t)'
    <2>1. OwnHandle(t) /\ Stage(t)
        BY <1>12 DEF LoopInv, Followed
    <2>2. OwnHandle(t)'
        BY <1>5, <2>1 DEF OwnHandle, Unfinished
    <2>3. handle'[t].prompt = 0 /\ handle'[t].asked = 0 /\ t # 0
        BY <1>1, TasksAre DEF NewHandle
    <2>4. Quiet(t)' <=> Quiet(t)
        BY <1>1 DEF Quiet, Still
    <2>5. task'[t].pc = "unused" => prompt'[t] = "none"
        BY <1>1, <1>5, <2>1 DEF Stage, Before
    <2>6. task'[t].pc = "ended" /\ task'[t].how = "cancelled" => Quiet(t)'
        BY <1>5, <2>1, <2>4 DEF Stage
    <2>7. task'[t].pc \in {"unused", "ended"}
        BY <1>5
    <2>8. Stage(t)'
        BY <2>3, <2>5, <2>6, <2>7 DEF Stage, Before, Past
    <2> QED
        BY <2>2, <2>8
<1>13. Followed'
    BY <1>1, <1>12 DEF Followed
<1> QED
    BY <1>7, <1>8, <1>9, <1>10, <1>11, <1>13 DEF LoopInv

----------------------------------------------------------------------------
(* The invariant *)

LEMMA InitKeeps == ASSUME Init PROVE LoopInv
<1>1. TypeOK
    BY InitTyped
<1>2. \A t \in Tasks : task[t].pc = "unused" /\ task[t].handle = t /\ handle[t] = NewHandle
                         /\ prompt[t] = "none"
    BY DEF Init, NewTask
<1>3. Assigned /\ OneHolder /\ RunningIsHeld
    BY <1>2 DEF Assigned, OneHolder, RunningIsHeld, Holds, NewHandle
<1>4. UpdateNotForgotten
    BY DEF Init, UpdateNotForgotten
<1>5. ASSUME NEW t \in Tasks PROVE OwnHandle(t) /\ Stage(t)
    <2>1. handle[t].prompt = 0 /\ handle[t].asked = 0 /\ t # 0
        BY <1>2, TasksAre DEF NewHandle
    <2> QED
        BY <1>2, <2>1 DEF OwnHandle, Stage, Before, Past, Unfinished
<1> QED
    BY <1>1, <1>3, <1>4, <1>5 DEF LoopInv, Followed

LEMMA NextKeeps == ASSUME LoopInv, [Next]_vars PROVE LoopInv'
<1>1. CASE UNCHANGED vars
    BY <1>1 DEF vars, LoopInv, TypeOK, Assigned, OneHolder, RunningIsHeld, UpdateNotForgotten,
               Followed, OwnHandle, Stage, Holds, Unfinished, Quiet, Still
<1>2. CASE \E p \in Platforms : Open(p) \/ Greet(p) \/ Reject(p) \/ Drop(p) \/ Close(p)
    BY <1>2, ConnectionsKeep
<1>3. CASE \E j \in Jobs : Push(j) \/ CancelJob(j)
    BY <1>3, PushKeeps, CancelJobKeeps
<1>4. CASE \E t \in Tasks : Works(t)
    BY <1>4, BeginKeeps, AcquireKeeps, PostKeeps, AnswerKeeps, PollKeeps, ReportKeeps,
       HandOverKeeps, WindDownKeeps, FinishKeeps DEF Works
<1>5. CASE \E t \in Tasks : StepFails(t) \/ FetchOnly(t) \/ Refused(t)
    BY <1>5, StepFailsKeeps, FetchOnlyKeeps, HandOverKeeps
<1>6. CASE \E t \in Tasks : ReadQueue(t) \/ Strike(t) \/ ComfyEnd(t)
    BY <1>6, ReadQueueKeeps, StrikeKeeps, ComfyEndKeeps
<1>7. CASE ComfyStart \/ ComfyDone \/ Shutdown \/ Exit
    BY <1>7, ComfyStartKeeps, ComfyDoneKeeps, ShutdownKeeps, ExitKeeps
<1>8. CASE Turns
    BY <1>8, TurnsKeep
<1> QED
    BY <1>1, <1>2, <1>3, <1>4, <1>5, <1>6, <1>7, <1>8 DEF Next, Turns

LEMMA LoopInvHolds == Spec => []LoopInv
<1>1. Init => LoopInv
    BY InitKeeps
<1>2. LoopInv /\ [Next]_vars => LoopInv'
    BY NextKeeps
<1> QED
    BY <1>1, <1>2, PTL DEF Spec

\* The agent's parts fit each other whatever comes in between, for any platforms,
\* jobs and numbers of messages, and an update put off for a job is never
\* forgotten: the end of a job that still runs will wake it (agent.py, update.py).
THEOREM LoopSoundHolds == Spec => []LoopSound
<1>1. LoopInv => LoopSound
    BY DEF LoopInv, LoopSound
<1> QED
    BY <1>1, LoopInvHolds, PTL

\* A cancelled job whose task is over has nothing running on the machine, unless
\* a request to stop was sent and missed, the prompt's name was never learnt, or
\* the job was pushed twice: for any number of jobs (agent.py _stop_comfy_prompt).
THEOREM NoPromptLeftBehindHolds == Spec => []NoPromptLeftBehind
<1>1. LoopInv => NoPromptLeftBehind
    BY DEF LoopInv, Followed, NoPromptLeftBehind, Stage, Quiet, Still
<1> QED
    BY <1>1, LoopInvHolds, PTL

----------------------------------------------------------------------------
(* Numbers *)

\* A set of numbers has a least one.
LEMMA LeastNumber ==
    ASSUME NEW T \in SUBSET Nat, T # {}
    PROVE  \E t \in T : \A u \in T : t <= u
<1>1. PICK t \in T : \A u \in T : ~(<<u, t>> \in OpToRel(<, Nat))
    BY NatLessThanWellFounded, WFMin
<1>2. \A u \in T : t <= u
    <2> SUFFICES ASSUME NEW u \in T, u < t PROVE FALSE
        OBVIOUS
    <2>1. <<u, t>> \in OpToRel(<, Nat)
        BY DEF OpToRel
    <2> QED
        BY <1>1, <2>1
<1> QED
    BY <1>2

----------------------------------------------------------------------------
(* The fetch *)

\* The longest common prefix of two sequences is one of their prefixes.
LEMMA CommonPrefixIs ==
    ASSUME NEW D, NEW p \in Seq(D), NEW q \in Seq(D)
    PROVE  /\ F!LongestCommonPrefix({p, q}) \in Seq(D)
           /\ Len(F!LongestCommonPrefix({p, q})) <= Len(p)
           /\ Len(F!LongestCommonPrefix({p, q})) <= Len(q)
<1> DEFINE C == F!CommonPrefixes({p, q})
           T == {n \in 0 .. Len(p) : \E c \in C : n = Len(p) - Len(c)}
<1>1. \A s \in {p, q} : \A c \in F!Prefixes(s) : c \in Seq(D) /\ Len(c) \in 0 .. Len(s)
    BY DEF F!Prefixes
<1>2. \A c \in C : c \in Seq(D) /\ Len(c) \in Nat /\ Len(c) <= Len(p) /\ Len(c) <= Len(q)
    <2> SUFFICES ASSUME NEW c \in C
                 PROVE  c \in Seq(D) /\ Len(c) \in Nat /\ Len(c) <= Len(p) /\ Len(c) <= Len(q)
        OBVIOUS
    <2>1. PICK s \in {p, q} : c \in F!Prefixes(s)
        BY DEF F!CommonPrefixes
    <2>2. F!IsPrefix(c, p) /\ F!IsPrefix(c, q)
        BY DEF F!CommonPrefixes
    <2> QED
        BY <1>1, <2>1, <2>2 DEF F!IsPrefix
<1>3. <<>> \in C
    <2>1. <<>> \in F!Prefixes(p)
        <3>1. SubSeq(p, 1, 0) = <<>>
            OBVIOUS
        <3> QED
            BY <3>1 DEF F!Prefixes
    <2>2. F!IsPrefix(<<>>, p) /\ F!IsPrefix(<<>>, q)
        BY DEF F!IsPrefix
    <2> QED
        BY <2>1, <2>2 DEF F!CommonPrefixes
<1> HIDE DEF C
<1>4. PICK t \in T : \A u \in T : t <= u
    <2>1. Len(p) \in T
        <3>1. Len(p) \in 0 .. Len(p) /\ Len(p) = Len(p) - Len(<<>>)
            OBVIOUS
        <3> QED
            BY <1>3, <3>1
    <2>2. T \subseteq 0 .. Len(p) /\ 0 .. Len(p) \subseteq Nat /\ T # {}
        <3>1. T \subseteq 0 .. Len(p)
            OBVIOUS
        <3>2. 0 .. Len(p) \subseteq Nat
            OBVIOUS
        <3> HIDE DEF T
        <3> QED
            BY <2>1, <3>1, <3>2
    <2> HIDE DEF T
    <2> QED
        BY <2>2, LeastNumber
<1>5. PICK c \in C : t = Len(p) - Len(c)
    OBVIOUS
<1>6. \A d \in C : Len(d) <= Len(c)
    <2> SUFFICES ASSUME NEW d \in C PROVE Len(d) <= Len(c)
        OBVIOUS
    <2>1. Len(p) - Len(d) \in T
        <3>1. Len(p) - Len(d) \in 0 .. Len(p)
            <4>1. Len(d) \in Nat /\ Len(d) <= Len(p) /\ Len(p) \in Nat
                BY <1>2
            <4> QED
                BY <4>1
        <3> QED
            BY <3>1
    <2>2. t <= Len(p) - Len(d)
        BY <1>4, <2>1
    <2> QED
        BY <1>2, <1>5, <2>2
<1>7. F!LongestCommonPrefix({p, q}) \in C
    BY <1>6 DEF F!LongestCommonPrefix, C
<1> QED
    BY <1>2, <1>7

\* What the .part file is, between two steps.
Parts == {p \in Seq(F!Data) : Len(p) <= Chunks + 1}

FetchTypes ==
    /\ entry \in F!Entries /\ pc \in {"idle"} \cup F!Running \cup F!Over
    /\ part = F!NoPart \/ part \in Parts
    /\ file \in {F!NoFile, "right", "wrong"}
    /\ list \in {"none"} \cup F!Data
    /\ left \in 0 .. MaxAddresses /\ of \in left .. MaxAddresses
    /\ before \in 0 .. Chunks /\ stalls \in 0 .. MaxStalls /\ blind \in BOOLEAN
    /\ source \in [nr : 1 .. 2, attempt : 1 .. 2]
    /\ cancel \in BOOLEAN /\ tries \in 0 .. FetchTries

\* A grant is held with an address left and stalls to spare; before the web
\* there is a .part file to append to.
FetchInv ==
    /\ FetchTypes
    /\ pc \in {"pull", "again"} => left > 0
    /\ pc \in {"ask", "pull", "again"} => stalls < MaxStalls
    /\ pc = "stream" => part # F!NoPart
    /\ F!GoodFile /\ F!PartsGone

LEMMA NoPartIsNone == F!NoPart \notin Seq(F!Data)
<1>1. F!NoPart[1] = "none" /\ Len(F!NoPart) = 1
    BY DEF F!NoPart
<1> QED
    BY <1>1 DEF F!Data

LEMMA PartsAre ==
    /\ F!BoundedSeq(F!Data, Chunks + 1) = Parts
    /\ <<>> \in Parts
    /\ \A c \in F!Data : <<c>> \in Parts /\ Len(<<c>>) = 1
    /\ \A p \in Parts : F!Offset(p) = Len(p) /\ Len(p) \in 0 .. (Chunks + 1)
    /\ \A p \in Parts : \A c \in F!Data : Len(p) <= Chunks => Append(p, c) \in Parts
    /\ F!Offset(F!NoPart) = 0
<1>1. F!BoundedSeq(F!Data, Chunks + 1) = Parts
    <2>1. ASSUME NEW p \in F!BoundedSeq(F!Data, Chunks + 1) PROVE p \in Parts
        <3>1. PICK m \in 0 .. Chunks + 1 : p \in [1 .. m -> F!Data]
            BY <2>1 DEF F!BoundedSeq, F!SeqOf
        <3> QED
            BY <3>1, FetchAssumption DEF FetchAssumption, Parts
    <2>2. ASSUME NEW p \in Parts PROVE p \in F!BoundedSeq(F!Data, Chunks + 1)
        <3>1. p \in [1 .. Len(p) -> F!Data] /\ Len(p) \in 0 .. Chunks + 1
            BY FetchAssumption DEF FetchAssumption, Parts
        <3> QED
            BY <3>1 DEF F!BoundedSeq, F!SeqOf
    <2> QED
        BY <2>1, <2>2
<1>2. \A p \in Parts : F!Offset(p) = Len(p) /\ Len(p) \in 0 .. (Chunks + 1)
    BY FetchAssumption, NoPartIsNone DEF FetchAssumption, Parts, F!Offset
<1>3. \A p \in Parts : \A c \in F!Data : Len(p) <= Chunks => Append(p, c) \in Parts
    BY FetchAssumption DEF FetchAssumption, Parts
<1>4. F!Offset(F!NoPart) = 0
    BY DEF F!Offset
<1> QED
    BY <1>1, <1>2, <1>3, <1>4, FetchAssumption DEF FetchAssumption, Parts

\* What is kept of a .part file is no longer than the file.
LEMMA VerifiedIs ==
    ASSUME NEW p, p = F!NoPart \/ p \in Parts, NEW l \in {"none"} \cup F!Data
    PROVE  /\ F!Verified(p, l) = F!NoPart \/ F!Verified(p, l) \in Parts
           /\ F!Offset(F!Verified(p, l)) \in 0 .. Chunks
<1>1. CASE p = F!NoPart
    BY <1>1, PartsAre, FetchAssumption DEF FetchAssumption, F!Verified
<1>2. CASE p \in Parts /\ l = "none"
    BY <1>2, PartsAre, NoPartIsNone, FetchAssumption DEF FetchAssumption, F!Verified
<1>3. CASE p \in Parts /\ l # "none"
    <2> DEFINE q == [i \in 1 .. Chunks |-> l]
               v == F!LongestCommonPrefix({p, q})
    <2>1. p \in Seq(F!Data) /\ q \in Seq(F!Data) /\ Len(q) = Chunks
        BY <1>3, FetchAssumption DEF FetchAssumption, Parts
    <2>2. v \in Seq(F!Data) /\ Len(v) <= Chunks
        BY <2>1, CommonPrefixIs
    <2>3. v \in Parts /\ Len(v) \in 0 .. Chunks
        BY <2>2, FetchAssumption DEF FetchAssumption, Parts
    <2>4. F!Verified(p, l) = v
        <3>1. p # F!NoPart
            BY <1>3, NoPartIsNone DEF Parts
        <3> HIDE DEF v
        <3>2. F!LongestCommonPrefix({p, [i \in 1 .. Chunks |-> l]}) = v
            BY DEF v
        <3>3. F!Verified(p, l) = F!LongestCommonPrefix({p, [i \in 1 .. Chunks |-> l]})
            BY <1>3, <3>1, Zenon DEF F!Verified
        <3> QED
            BY <3>2, <3>3, Zenon
    <2> QED
        BY <2>3, <2>4, PartsAre
<1> QED
    BY <1>1, <1>2, <1>3

LEMMA FetchInit == ASSUME F!Init PROVE FetchInv
<1>1. source \in [nr : 1 .. 2, attempt : 1 .. 2]
    BY DEF F!Init
<1>2. F!GoodFile /\ F!PartsGone
    BY DEF F!Init, F!GoodFile, F!PartsGone
<1>3. FetchTypes
    <2>1. /\ left \in 0 .. MaxAddresses /\ of \in left .. MaxAddresses
          /\ before \in 0 .. Chunks /\ stalls \in 0 .. MaxStalls /\ tries \in 0 .. FetchTries
        BY FetchAssumption DEF FetchAssumption, F!Init
    <2>2. /\ entry \in F!Entries /\ pc = "idle" /\ part = F!NoPart /\ file = F!NoFile
          /\ list = "none" /\ blind = FALSE /\ cancel = FALSE
        BY DEF F!Init
    <2> QED
        BY <1>1, <2>1, <2>2 DEF FetchTypes
<1> QED
    BY <1>2, <1>3 DEF F!Init, FetchInv

LEMMA NextSourceIs ==
    ASSUME FetchInv, F!NextSource(1) \/ F!NextSource(2)
    PROVE  /\ part' = F!NoPart /\ source' \in [nr : 1 .. 2, attempt : 1 .. 2]
           /\ pc' \in {"open", "failed"}
<1>1. source \in [nr : 1 .. 2, attempt : 1 .. 2] /\ entry.addresses \in 0 .. 2
    BY DEF FetchInv, FetchTypes, F!Entries
<1>2. [source EXCEPT !.attempt = 2] \in [nr : 1 .. 2, attempt : 1 .. 2]
    BY <1>1
<1>3. source.nr < entry.addresses
      => [nr |-> source.nr + 1, attempt |-> 1] \in [nr : 1 .. 2, attempt : 1 .. 2]
    BY <1>1
<1> QED
    BY <1>1, <1>2, <1>3 DEF F!NextSource

\* What an accepted .part file becomes is the file asked for.
LEMMA AcceptedIsRight ==
    ASSUME FetchInv, F!Accepted(part), UNCHANGED entry, part' = F!NoPart, pc' = "done",
           file' = (IF \A i \in DOMAIN part : part[i] = "good" THEN "right" ELSE "wrong")
    PROVE  file' \in {F!NoFile, "right", "wrong"} /\ F!GoodFile' /\ F!PartsGone'
PROOF BY DEF FetchInv, F!Accepted, F!GoodFile, F!PartsGone

LEMMA FetchNext == ASSUME FetchInv, [F!Next]_F!vars PROVE FetchInv'
<1> USE FetchAssumption DEF FetchAssumption
<1>0. /\ FetchTypes /\ F!GoodFile /\ F!PartsGone /\ left \in Nat /\ of \in Nat /\ before \in Nat
      /\ pc \in {"pull", "again"} => left > 0
      /\ pc \in {"ask", "pull", "again"} => stalls < MaxStalls
      /\ pc = "stream" => part # F!NoPart
    BY DEF FetchInv, FetchTypes
<1>v. \A l \in {"none"} \cup F!Data :
        /\ F!Verified(part, l) = F!NoPart \/ F!Verified(part, l) \in Parts
        /\ F!Offset(F!Verified(part, l)) \in 0 .. Chunks
    BY <1>0, VerifiedIs DEF FetchTypes
<1>g. \A g \in F!GrantAnswers : g.list \in {"none"} \cup F!Data /\ g.addresses \in 0 .. MaxAddresses
    BY <1>0 DEF F!GrantAnswers, F!ListAfter, FetchTypes
<1>1. CASE F!Start
    <2>1. pc' \in {"refused", "ask", "open"} /\ UNCHANGED <<entry, part, file>>
        BY <1>1 DEF F!Start
    <2>2. source' \in [nr : 1 .. 2, attempt : 1 .. 2]
        BY <1>1 DEF F!Start
    <2>3. tries' \in 0 .. FetchTries /\ cancel' = FALSE
        BY <1>0, <1>1 DEF F!Start, FetchTypes
    <2>4. list' = "none" /\ left' = 0 /\ of' = 0 /\ before' = 0 /\ stalls' = 0 /\ blind' = FALSE
        BY <1>1 DEF F!Start
    <2>5. /\ left' \in 0 .. MaxAddresses /\ of' \in left' .. MaxAddresses
          /\ before' \in 0 .. Chunks /\ stalls' \in 0 .. MaxStalls /\ stalls' < MaxStalls
        BY <2>4
    <2>6. pc' # "done" /\ pc' # "failed" /\ pc' # "cancelled" /\ pc' # "stream" /\ pc' # "pull"
          /\ pc' # "again" /\ pc' \in F!Running \cup F!Over
        BY <2>1 DEF F!Running, F!Over
    <2>7. FetchTypes'
        BY <1>0, <2>1, <2>2, <2>3, <2>4, <2>5, <2>6 DEF FetchTypes
    <2> QED
        BY <1>0, <2>1, <2>5, <2>6, <2>7
        DEF FetchInv, FetchTypes, F!GoodFile, F!PartsGone, F!Over, F!Running
<1>2. CASE F!Ask
    <2>1. CASE /\ pc' = IF entry.addresses = 0 THEN "failed" ELSE "open"
               /\ part' = IF entry.addresses = 0 THEN F!NoPart ELSE part
               /\ UNCHANGED <<list, left, of, before>>
        BY <1>0, <1>2, <2>1 DEF F!Ask, FetchInv, FetchTypes, F!GoodFile, F!PartsGone, F!Running, F!Over
    <2>2. ASSUME NEW g \in F!GrantAnswers,
                 g.addresses > 0, list' = g.list, left' = g.addresses, of' = g.addresses,
                 part' = F!Verified(part, g.list), before' = F!Offset(part'), pc' = "pull"
          PROVE  FetchInv'
        <3>1. (part' = F!NoPart \/ part' \in Parts) /\ before' \in 0 .. Chunks
            BY <1>v, <1>g, <2>2
        <3> QED
            BY <1>0, <1>2, <1>g, <2>2, <3>1
            DEF F!Ask, FetchInv, FetchTypes, F!GoodFile, F!PartsGone, F!Running
    <2> QED
        BY <1>2, <2>1, <2>2 DEF F!Ask
<1>3. CASE F!Finish
    <2>1. CASE F!Accepted(part) /\ pc' = "done"
        <3>1. /\ part' = F!NoPart
              /\ file' = (IF \A i \in DOMAIN part : part[i] = "good" THEN "right" ELSE "wrong")
              /\ UNCHANGED <<entry, F!peerVars, source, cancel, tries>>
            BY <1>3, <2>1 DEF F!Finish, F!GiveUpPeers
        <3> QED
            BY <1>0, <2>1, <3>1, AcceptedIsRight DEF FetchInv, FetchTypes, F!peerVars, F!Over
    <2>2. CASE F!GiveUpPeers /\ UNCHANGED file
        BY <1>0, <1>3, <2>2
        DEF F!Finish, F!GiveUpPeers, FetchInv, FetchTypes, F!peerVars, F!GoodFile, F!PartsGone,
            F!Over, F!Running
    <2> QED
        BY <1>3, <2>1, <2>2 DEF F!Finish
<1>4. CASE F!Pull
    <2>1. PICK c \in F!Data :
            part' = (IF part = F!NoPart THEN <<c>> ELSE Append(part, c))
        BY <1>4 DEF F!Pull
    <2>2. part' \in Parts
        BY <1>0, <1>4, <2>1, PartsAre DEF F!Pull, FetchTypes
    <2> QED
        BY <1>0, <1>4, <2>2, NoPartIsNone
        DEF F!Pull, FetchInv, FetchTypes, F!peerVars, F!GoodFile, F!PartsGone
<1>5. CASE F!Mismatch
    BY <1>0, <1>5 DEF F!Mismatch, FetchInv, FetchTypes, F!GoodFile, F!PartsGone
<1>6. CASE F!PeerFails
    <2>1. CASE left > 1
        <3>1. (part' = F!NoPart \/ part' \in Parts) /\ before' \in 0 .. Chunks
            BY <1>0, <1>6, <1>v, <2>1 DEF F!PeerFails, FetchTypes
        <3> QED
            BY <1>0, <1>6, <2>1, <3>1
            DEF F!PeerFails, FetchInv, FetchTypes, F!GoodFile, F!PartsGone
    <2>2. CASE ~(left > 1)
        BY <1>0, <1>6, <2>2
        DEF F!PeerFails, F!GiveUpPeers, FetchInv, FetchTypes, F!GoodFile, F!PartsGone, F!Over, F!Running
    <2> QED
        BY <2>1, <2>2
<1>7. CASE F!GrantExpires
    BY <1>0, <1>7
    DEF F!GrantExpires, FetchInv, FetchTypes, F!peerVars, F!GoodFile, F!PartsGone, F!Running
<1>8. CASE F!AskAgain
    <2>1. CASE F!GiveUpPeers /\ UNCHANGED F!peerVars
        BY <1>0, <1>8, <2>1
        DEF F!AskAgain, F!GiveUpPeers, FetchInv, FetchTypes, F!peerVars, F!GoodFile, F!PartsGone,
            F!Over, F!Running
    <2>2. ASSUME NEW g \in F!GrantAnswers, NEW kept, kept = F!Verified(part, g.list),
                 NEW addresses, addresses = (IF g.addresses = 0 THEN of ELSE g.addresses),
                 list' = g.list, of' = addresses, left' = addresses,
                 stalls' = F!Stalls(F!Offset(kept)), before' = F!Offset(kept),
                 IF stalls' >= MaxStalls THEN F!GiveUpPeers ELSE part' = kept /\ pc' = "pull",
                 UNCHANGED blind
          PROVE  FetchInv'
        <3>1. (kept = F!NoPart \/ kept \in Parts) /\ before' \in 0 .. Chunks
            BY <1>v, <1>g, <2>2
        <3>2. addresses \in 1 .. MaxAddresses
            BY <1>0, <1>8, <1>g, <2>2 DEF F!AskAgain, FetchTypes
        <3>3. stalls' \in 0 .. MaxStalls
            BY <1>0, <1>8, <2>2 DEF F!AskAgain, F!Stalls, FetchTypes
        <3>4. CASE stalls' >= MaxStalls
            BY <1>0, <1>8, <1>g, <2>2, <3>1, <3>2, <3>3, <3>4
            DEF F!AskAgain, F!GiveUpPeers, FetchInv, FetchTypes, F!GoodFile, F!PartsGone, F!Over, F!Running
        <3>5. CASE ~(stalls' >= MaxStalls)
            BY <1>0, <1>8, <1>g, <2>2, <3>1, <3>2, <3>3, <3>5
            DEF F!AskAgain, FetchInv, FetchTypes, F!GoodFile, F!PartsGone, F!Running
        <3> QED
            BY <3>4, <3>5
    <2> QED
        BY <1>8, <2>1, <2>2 DEF F!AskAgain
<1>9. CASE F!Open
    BY <1>0, <1>9, PartsAre, NoPartIsNone
    DEF F!Open, FetchInv, FetchTypes, F!peerVars, F!GoodFile, F!PartsGone, F!Running, Parts
<1>10. CASE F!Stream
    <2>1. PICK c \in F!Data : part' = Append(part, c)
        BY <1>10 DEF F!Stream
    <2>2. part' \in Parts
        BY <1>0, <1>10, <2>1, PartsAre DEF F!Stream, FetchTypes
    <2> QED
        BY <1>0, <1>10, <2>2, NoPartIsNone
        DEF F!Stream, FetchInv, FetchTypes, F!peerVars, F!GoodFile, F!PartsGone, Parts
<1>11. CASE F!StreamFails
    <2>1. part' = F!NoPart /\ source' \in [nr : 1 .. 2, attempt : 1 .. 2] /\ pc' \in {"open", "failed"}
        BY <1>11, NextSourceIs DEF F!StreamFails
    <2> QED
        BY <1>0, <1>11, <2>1
        DEF F!StreamFails, FetchInv, FetchTypes, F!peerVars, F!GoodFile, F!PartsGone, F!Over, F!Running
<1>12. CASE F!StreamEnds
    <2>1. CASE F!NextSource(1) /\ UNCHANGED file
        <3>1. part' = F!NoPart /\ source' \in [nr : 1 .. 2, attempt : 1 .. 2] /\ pc' \in {"open", "failed"}
            BY <2>1, NextSourceIs
        <3> QED
            BY <1>0, <1>12, <2>1, <3>1
            DEF F!StreamEnds, FetchInv, FetchTypes, F!peerVars, F!GoodFile, F!PartsGone, F!Over, F!Running
    <2>2. CASE /\ F!Accepted(part) /\ part' = F!NoPart /\ pc' = "done" /\ UNCHANGED source
               /\ file' = (IF \A i \in DOMAIN part : part[i] = "good" THEN "right" ELSE "wrong")
        <3>1. UNCHANGED <<entry, F!peerVars, cancel, tries>>
            BY <1>12 DEF F!StreamEnds
        <3> QED
            BY <1>0, <2>2, <3>1, AcceptedIsRight DEF FetchInv, FetchTypes, F!peerVars, F!Over
    <2> QED
        BY <1>12, <2>1, <2>2 DEF F!StreamEnds
<1>13. CASE F!Stop
    BY <1>0, <1>13
    DEF F!Stop, FetchInv, FetchTypes, F!peerVars, F!GoodFile, F!PartsGone, F!Over
<1>14. CASE F!Break
    BY <1>0, <1>14
    DEF F!Break, FetchInv, FetchTypes, F!peerVars, F!GoodFile, F!PartsGone, F!Over
<1>15. CASE F!Cancel
    BY <1>0, <1>15 DEF F!Cancel, FetchInv, FetchTypes, F!peerVars, F!GoodFile, F!PartsGone
<1>16. CASE F!Crash
    BY <1>0, <1>16 DEF F!Crash, FetchInv, FetchTypes, F!peerVars, F!GoodFile, F!PartsGone
<1>17. CASE UNCHANGED F!vars
    BY <1>0, <1>17 DEF F!vars, FetchInv, FetchTypes, F!peerVars, F!GoodFile, F!PartsGone
<1> QED
    BY <1>1, <1>2, <1>3, <1>4, <1>5, <1>6, <1>7, <1>8, <1>9, <1>10, <1>11, <1>12, <1>13, <1>14,
       <1>15, <1>16, <1>17
    DEF F!Next, F!Proceed

\* However a fetch is put together -- over peers and web addresses, chunk lists
\* right or wrong, grants that expire, stalls, cancellations and crashes, from a
\* .part file an earlier one left -- what it installs for an entry with a hash is
\* the file of that hash, and once it is over no .part file is left behind.
THEOREM FilesAreWholeHolds == F!Spec => []FilesAreWhole
<1>1. F!Init => FetchInv
    BY FetchInit
<1>2. FetchInv /\ [F!Next]_F!vars => FetchInv'
    BY FetchNext
<1>3. FetchInv => FilesAreWhole
    <2> SUFFICES ASSUME FetchInv PROVE F!TypeOK /\ F!GoodFile /\ F!PartsGone
        BY DEF FilesAreWhole, F!FilesAreWhole
    <2> QED
        BY PartsAre DEF FetchInv, FetchTypes, F!TypeOK
<1> QED
    BY <1>1, <1>2, <1>3, PTL DEF F!Spec

----------------------------------------------------------------------------
(* The sharing *)

Bookings == [grant: Grants, bytes: 1 .. MaxServed, at: {"check", "claim", "write", "undo"},
             nr: 0 .. MaxReportAttempts, awaited: BOOLEAN]
Uses == [seen: BOOLEAN, bytes: 0 .. MaxServed, admitted: 0 .. MaxStreams,
         streams: 0 .. MaxStreams, quiet: BOOLEAN, reported: BOOLEAN,
         attempts: 0 .. MaxReportAttempts]
GrantRows == [state: {"none", "live", "expired", "forgotten"}, seeder: Workers, booked: BOOLEAN]
Posts == [grant: Grants \cup {NoGrant}, bytes: 0 .. MaxServed]

\* A grant has no receipt, or one for no more than the file.
Receipts == {<<>>} \cup {<<n>> : n \in 1 .. Units}

SharingTypes ==
    /\ row \in S!Rows /\ told \subseteq Workers /\ telling \subseteq Workers
    /\ grant \in [Grants -> GrantRows] /\ serve \in [Grants -> Uses]
    /\ agent \in [Workers -> {"up", "stopping", "last", "down"}]
    /\ due \in [Workers -> SUBSET Grants] /\ posting \in [Workers -> Posts]
    /\ booking \subseteq Bookings /\ receipts \in [Grants -> Receipts]
    /\ late \in [Grants -> BOOLEAN] /\ stops \in 0 .. MaxStops

\* Who has told has found the row, or made it, and agrees with it or has
\* marked it.
RowsTold ==
    /\ row = S!NoRow => told = {} /\ telling = {}
    /\ \A w \in told : row.conflict \/ FileOf[w] = row.sha

\* What the seeder knows of a grant is nothing before a request under it.
Known(g) ==
    /\ grant[g].state = "none" => grant[g] = S!Fresh /\ ~serve[g].seen
    /\ ~serve[g].seen => serve[g] = S!Unseen
    /\ ~serve[g].reported => serve[g].attempts < MaxReportAttempts
    /\ serve[g].admitted + serve[g].streams <= MaxStreams

\* A reporter is at grants of its own, not yet reported, one thing at a time.
InHand(w) ==
    /\ \A g \in due[w] : /\ S!Seeder(g) = w /\ serve[g].seen /\ ~serve[g].reported
                         /\ posting[w].grant # g
    /\ \A g \in Grants : posting[w].grant = g => /\ S!Seeder(g) = w /\ serve[g].seen
                                                 /\ ~serve[g].reported
    /\ posting[w].grant = NoGrant => posting[w] = S!NoPost

\* A request the platform handles is for a grant that was made; its reporter
\* waits for one at most; it is past the comparison only with what fits.
Handled ==
    \A b \in booking :
        /\ grant[b.grant].state # "none"
        /\ b.awaited => posting[S!Seeder(b.grant)].grant = b.grant
        /\ b.at # "check" => b.bytes <= Units

Awaited ==
    \A b \in booking, c \in booking : b.awaited /\ c.awaited /\ b.grant = c.grant => b = c

\* The one that holds the claim is alone with it, and no receipt is written yet.
Claims(b) == b.at \in {"write", "undo"}
Claimed ==
    /\ \A b \in booking : Claims(b) => grant[b.grant].booked /\ receipts[b.grant] = <<>>
    /\ \A b \in booking, c \in booking : Claims(b) /\ Claims(c) /\ b.grant = c.grant => b = c
    /\ \A g \in Grants : receipts[g] # <<>> => grant[g].booked

\* With a report under way nothing is being served that it leaves out.
Steady(g) ==
    /\ S!Underway(g) => serve[g].streams = 0
    /\ \A b \in booking : b.grant = g => b.bytes = serve[g].bytes
    /\ receipts[g] # <<>> => receipts[g] = <<serve[g].bytes>>
    /\ ~serve[g].seen => ~grant[g].booked /\ \A b \in booking : b.grant # g

SharingInv ==
    /\ SharingTypes /\ RowsTold
    /\ \A g \in Grants : Known(g)
    /\ \A w \in Workers : InHand(w)
    /\ Handled /\ Awaited /\ Claimed
    /\ \A g \in Grants : ~late[g] => Steady(g)

----------------------------------------------------------------------------
(* Records read and rewritten *)

\* A request that goes on, and one that may no longer be waited for.
GoesOn(c, b, at) == c = [b EXCEPT !.at = at]
LetGo(c, b, keep) == c = [b EXCEPT !.awaited = @ /\ keep]

LEMMA GoesOnIs ==
    ASSUME NEW b \in Bookings, NEW at \in {"check", "claim", "write", "undo"}, NEW c, GoesOn(c, b, at)
    PROVE  c \in Bookings /\ c.grant = b.grant /\ c.bytes = b.bytes /\ c.at = at /\ c.awaited = b.awaited
PROOF BY DEF GoesOn, Bookings

LEMMA LetGoIs ==
    ASSUME NEW b \in Bookings, NEW keep \in BOOLEAN, NEW c, LetGo(c, b, keep)
    PROVE  /\ c \in Bookings /\ c.grant = b.grant /\ c.bytes = b.bytes /\ c.at = b.at
           /\ c.awaited <=> b.awaited /\ keep
<1>1. c = [grant |-> b.grant, bytes |-> b.bytes, at |-> b.at, nr |-> b.nr,
           awaited |-> (b.awaited /\ keep)]
    BY DEF LetGo, Bookings
<1> QED
    BY <1>1 DEF Bookings

\* What SharingInv says, for citing.
LEMMA SharingIs ==
    ASSUME SharingInv
    PROVE  /\ SharingTypes /\ RowsTold /\ Handled /\ Awaited /\ Claimed
           /\ \A g \in Grants : Known(g) /\ S!Seeder(g) \in Workers /\ grant[g] \in GrantRows
                                /\ serve[g] \in Uses /\ receipts[g] \in Receipts
           /\ \A w \in Workers : InHand(w) /\ posting[w] \in Posts /\ due[w] \in SUBSET Grants
           /\ \A g \in Grants : ~late[g] => Steady(g)
           /\ \A b \in booking : b \in Bookings /\ b.grant \in Grants
<1>1. SharingTypes
    BY DEF SharingInv
<1>2. \A g \in Grants : /\ S!Seeder(g) \in Workers /\ grant[g] \in GrantRows
                        /\ serve[g] \in Uses /\ receipts[g] \in Receipts
    BY <1>1 DEF SharingTypes, S!Seeder, GrantRows
<1>3. \A b \in booking : b \in Bookings /\ b.grant \in Grants
    BY <1>1 DEF SharingTypes, Bookings
<1>4. \A w \in Workers : posting[w] \in Posts /\ due[w] \in SUBSET Grants
    BY <1>1 DEF SharingTypes
<1> QED
    BY <1>1, <1>2, <1>3, <1>4 DEF SharingInv

\* The hashes apart, and the rest apart.
LEMMA RowsKept == ASSUME RowsTold, UNCHANGED S!hashVars PROVE RowsTold'
PROOF BY DEF RowsTold, S!hashVars, S!NoRow

\* A grant stays as it is reported if nothing is added to it.
LEMMA SteadyKeeps ==
    ASSUME NEW g \in Grants, Steady(g),
           serve'[g].seen = serve[g].seen, serve'[g].bytes = serve[g].bytes,
           serve'[g].streams = serve[g].streams,
           S!Underway(g)' => S!Underway(g),
           \A c \in booking' : c.grant = g => \E b \in booking : b.grant = g /\ b.bytes = c.bytes,
           receipts'[g] # <<>> => receipts'[g] = <<serve[g].bytes>>,
           grant'[g].booked => grant[g].booked \/ \E b \in booking : b.grant = g
    PROVE  Steady(g)'
PROOF BY DEF Steady

----------------------------------------------------------------------------
(* The hashes *)

LEMMA HashKeeps == ASSUME SharingInv, S!Hash PROVE SharingInv'
<1>0. SharingTypes /\ RowsTold
    BY SharingIs
<1>1. PICK w \in Workers : S!Report(w) \/ S!Compare(w)
    BY DEF S!Hash
<1>2. FileOf[w] \in S!Files /\ \A v \in Workers : FileOf[v] \in S!Files
    BY SharingAssumption DEF SharingAssumption, S!Files, S!Range
<1>3. UNCHANGED <<grant, serve, agent, due, posting, booking, receipts, late, stops>>
    BY <1>1 DEF S!Report, S!Compare, S!seederVars
<1>4. "none" \notin S!Files
    BY SharingAssumption DEF SharingAssumption, S!Files, S!Range
<1>5. row' \in S!Rows /\ told' \subseteq Workers /\ telling' \subseteq Workers /\ RowsTold'
    <2>1. CASE S!Report(w) /\ row = S!NoRow
        <3>1. /\ row' = [sha |-> FileOf[w], chunks |-> w \in Lists, conflict |-> FALSE]
              /\ told' = told \cup {w} /\ telling' = telling
            BY <2>1 DEF S!Report
        <3>2. told = {} /\ telling = {}
            BY <1>0, <2>1 DEF RowsTold
        <3>3. row' \in S!Rows /\ row'.sha = FileOf[w]
            BY <1>2, <3>1 DEF S!Rows
        <3>4. row' # S!NoRow
            BY <1>2, <1>4, <3>3 DEF S!NoRow
        <3> QED
            BY <1>0, <3>1, <3>2, <3>3, <3>4 DEF RowsTold, SharingTypes, S!NoRow
    <2>2. CASE S!Report(w) /\ row # S!NoRow
        BY <1>0, <2>2 DEF S!Report, RowsTold, SharingTypes, S!NoRow
    <2>3. CASE S!Compare(w)
        <3>1. /\ row' = S!Recorded(w) /\ w \in telling
              /\ told' = told \cup {w} /\ telling' = telling \ {w}
            BY <2>3 DEF S!Compare
        <3>2. row # S!NoRow /\ row \in [sha: S!Files, chunks: BOOLEAN, conflict: BOOLEAN]
            BY <1>0, <3>1 DEF RowsTold, SharingTypes, S!Rows
        <3>3. /\ row' \in [sha: S!Files, chunks: BOOLEAN, conflict: BOOLEAN] /\ row'.sha = row.sha
              /\ row.conflict => row'.conflict
              /\ row'.conflict \/ row.sha = FileOf[w]
            BY <3>1, <3>2 DEF S!Recorded
        <3>4. row' # S!NoRow
            BY <1>4, <3>3 DEF S!NoRow
        <3>5. told' \subseteq Workers /\ telling' \subseteq Workers
            BY <1>0, <3>1 DEF SharingTypes
        <3> QED
            BY <1>0, <3>1, <3>3, <3>4, <3>5 DEF RowsTold, S!Rows, S!NoRow
    <2> QED
        BY <1>1, <2>1, <2>2, <2>3
<1>6. SharingTypes'
    BY <1>0, <1>3, <1>5 DEF SharingTypes
<1>7. \A g \in Grants : (Known(g) => Known(g)') /\ (Steady(g) => Steady(g)')
    BY <1>3 DEF Known, Steady, S!Underway, S!Seeder, S!Fresh, S!Unseen
<1>8. \A w2 \in Workers : InHand(w2) => InHand(w2)'
    BY <1>3 DEF InHand, S!Seeder, S!NoPost
<1>9. Handled' /\ Awaited' /\ Claimed'
    BY <1>3, SharingIs DEF Handled, Awaited, Claimed, Claims, S!Seeder
<1> QED
    BY <1>3, <1>5, <1>6, <1>7, <1>8, <1>9 DEF SharingInv

----------------------------------------------------------------------------
(* The grants *)

\* What follows from a grant that is not made yet.
LEMMA NothingOfFresh ==
    ASSUME SharingInv, NEW g \in Grants, grant[g].state = "none"
    PROVE  /\ ~serve[g].seen /\ ~serve[g].reported /\ ~grant[g].booked /\ receipts[g] = <<>>
           /\ \A w \in Workers : g \notin due[w] /\ posting[w].grant # g
           /\ \A b \in booking : b.grant # g
<1>1. /\ Handled /\ Claimed /\ Known(g)
      /\ \A w \in Workers : InHand(w) /\ due[w] \in SUBSET Grants
    BY SharingIs
<1>2. grant[g] = S!Fresh /\ ~serve[g].seen /\ serve[g] = S!Unseen
    BY <1>1 DEF Known
<1>3. grant[g].booked = FALSE /\ serve[g].reported = FALSE
    <2>1. S!Fresh.booked = FALSE /\ S!Unseen.reported = FALSE
        BY DEF S!Fresh, S!Unseen
    <2> QED
        BY <1>2, <2>1
<1>4. \A b \in booking : b.grant # g
    BY <1>1 DEF Handled
<1>5. \A w \in Workers : g \notin due[w] /\ posting[w].grant # g
    BY <1>1, <1>2 DEF InHand
<1> QED
    BY <1>1, <1>2, <1>3, <1>4, <1>5 DEF Claimed

LEMMA GrantStep ==
    ASSUME SharingInv, NEW g \in Grants, NEW r \in GrantRows, grant' = [grant EXCEPT ![g] = r],
           r.booked = grant[g].booked, r.state # "none",
           grant[g].state # "none" => r.seeder = grant[g].seeder,
           UNCHANGED <<S!hashVars, S!seederVars, booking, receipts>>
    PROVE  SharingInv'
<1>1. /\ SharingTypes /\ RowsTold /\ Handled /\ Awaited /\ Claimed
      /\ \A h \in Grants : Known(h)
      /\ \A w \in Workers : InHand(w)
      /\ \A b \in booking : b \in Bookings /\ b.grant \in Grants
    BY SharingIs
<1>2. /\ grant' \in [Grants -> GrantRows] /\ grant'[g] = r
      /\ \A h \in Grants : h # g => grant'[h] = grant[h]
    BY <1>1 DEF SharingTypes
<1>3. UNCHANGED <<serve, agent, due, posting, booking, receipts, late, stops>>
    BY DEF S!seederVars
<1>4. RowsTold' /\ UNCHANGED <<row, telling, told>>
    BY <1>1, RowsKept DEF S!hashVars
<1>5. SharingTypes'
    BY <1>1, <1>2, <1>3, <1>4 DEF SharingTypes
<1>6. \A h \in Grants : S!Seeder(h)' = S!Seeder(h) \/ (h = g /\ grant[g].state = "none")
    BY <1>2 DEF S!Seeder
<1>7. \A h \in Grants : grant'[h].booked = grant[h].booked
    BY <1>2
<1>8. \A h \in Grants : Known(h)'
    BY <1>1, <1>2, <1>3 DEF Known, S!Fresh, S!Unseen
<1>9. \A w \in Workers : InHand(w)'
    <2> SUFFICES ASSUME NEW w \in Workers PROVE InHand(w)'
        OBVIOUS
    <2>1. InHand(w) /\ due[w] \in SUBSET Grants
        BY <1>1 DEF SharingTypes
    <2>2. \A h \in Grants : h \in due[w] \/ posting[w].grant = h => S!Seeder(h)' = S!Seeder(h)
        BY <1>6, NothingOfFresh
    <2> QED
        BY <1>3, <2>1, <2>2 DEF InHand, S!NoPost
<1>10. Handled'
    <2> SUFFICES ASSUME NEW b \in booking
                 PROVE  /\ grant'[b.grant].state # "none"
                        /\ b.awaited => posting[S!Seeder(b.grant)'].grant = b.grant
                        /\ b.at # "check" => b.bytes <= Units
        BY <1>3 DEF Handled
    <2>1. b.grant \in Grants /\ grant[b.grant].state # "none"
        BY <1>1 DEF Handled
    <2> QED
        BY <1>1, <1>2, <1>6, <2>1 DEF Handled
<1>11. Awaited' /\ Claimed'
    BY <1>1, <1>3, <1>7 DEF Awaited, Claimed, Claims
<1>12. ASSUME NEW h \in Grants, ~late'[h] PROVE Steady(h)'
    <2>1. Steady(h)
        BY <1>3, <1>12, SharingIs
    <2>2. CASE S!Seeder(h)' = S!Seeder(h)
        <3>1. S!Underway(h)' => S!Underway(h)
            BY <1>3, <1>7, <2>2 DEF S!Underway
        <3> QED
            BY <1>3, <1>7, <2>1, <3>1 DEF Steady
    <2>3. CASE h = g /\ grant[g].state = "none"
        <3>1. ~S!Underway(g)'
            <4>1. S!Seeder(g)' \in Workers
                BY <1>2 DEF S!Seeder, GrantRows
            <4> QED
                BY <1>3, <1>7, <2>3, <4>1, NothingOfFresh DEF S!Underway
        <3> QED
            BY <1>3, <1>7, <2>1, <2>3, <3>1 DEF Steady
    <2> QED
        BY <1>6, <2>2, <2>3
<1> QED
    BY <1>4, <1>5, <1>8, <1>9, <1>10, <1>11, <1>12 DEF SharingInv

LEMMA GrantKeeps ==
    ASSUME SharingInv, NEW g \in Grants, S!Grant(g) \/ S!Expire(g) \/ S!Forget(g)
    PROVE  SharingInv'
<1>1. grant[g] \in GrantRows
    BY SharingIs
<1>2. CASE S!Grant(g)
    <2>1. PICK w \in S!Seeders :
             grant' = [grant EXCEPT ![g] = [state |-> "live", seeder |-> w, booked |-> FALSE]]
        BY <1>2 DEF S!Grant
    <2>2. w \in Workers
        BY <2>1 DEF S!Seeders
    <2>3. grant[g].state = "none" /\ grant[g].booked = FALSE
        BY <1>2 DEF S!Grant, S!Fresh
    <2>4. [state |-> "live", seeder |-> w, booked |-> FALSE] \in GrantRows
        BY <2>2 DEF GrantRows
    <2>5. UNCHANGED <<S!hashVars, S!seederVars, booking, receipts>>
        BY <1>2 DEF S!Grant
    <2> DEFINE r == [state |-> "live", seeder |-> w, booked |-> FALSE]
    <2>6. r.booked = FALSE /\ r.state # "none"
        OBVIOUS
    <2> HIDE DEF r
    <2>7. grant' = [grant EXCEPT ![g] = r] /\ r \in GrantRows
        BY <2>1, <2>4 DEF r
    <2> QED
        BY <2>3, <2>5, <2>6, <2>7, GrantStep
<1>3. ASSUME NEW st \in {"expired", "forgotten"}, grant[g].state # "none",
             grant' = [grant EXCEPT ![g].state = st],
             UNCHANGED <<S!hashVars, S!seederVars, booking, receipts>>
      PROVE  SharingInv'
    <2> DEFINE r == [grant[g] EXCEPT !.state = st]
    <2>1. r \in GrantRows /\ r.booked = grant[g].booked /\ r.seeder = grant[g].seeder /\ r.state # "none"
        BY <1>1, <1>3 DEF GrantRows
    <2>2. grant' = [grant EXCEPT ![g] = r]
        BY <1>3
    <2> HIDE DEF r
    <2> QED
        BY <1>3, <2>1, <2>2, GrantStep
<1> QED
    BY <1>2, <1>3 DEF S!Expire, S!Forget

----------------------------------------------------------------------------
(* The serving *)

\* A step of a thread that serves: the reports are left alone, and with one
\* under way that is to be in full, the bytes too.
LEMMA UseStep ==
    ASSUME SharingInv, NEW g \in Grants, NEW u \in Uses, serve' = [serve EXCEPT ![g] = u],
           u.reported = serve[g].reported, u.attempts = serve[g].attempts, u.seen,
           u.admitted + u.streams <= MaxStreams, grant[g].state # "none",
           late' \in [Grants -> BOOLEAN], \A h \in Grants : late[h] => late'[h],
           ~late'[g] => (S!Underway(g) => u.streams = 0 /\ u.bytes = serve[g].bytes),
           UNCHANGED <<S!hashVars, grant, agent, due, posting, booking, receipts, stops>>
    PROVE  SharingInv'
<1>1. /\ SharingTypes /\ RowsTold /\ Handled /\ Awaited /\ Claimed
      /\ \A h \in Grants : Known(h)
      /\ \A w \in Workers : InHand(w) /\ due[w] \in SUBSET Grants
      /\ \A b \in booking : b \in Bookings /\ b.grant \in Grants
    BY SharingIs
<1>2. /\ serve' \in [Grants -> Uses] /\ serve'[g] = u
      /\ \A h \in Grants : h # g => serve'[h] = serve[h]
    BY <1>1 DEF SharingTypes
<1>3. RowsTold' /\ UNCHANGED <<row, telling, told>>
    BY <1>1, RowsKept DEF S!hashVars
<1>4. SharingTypes'
    BY <1>1, <1>2, <1>3 DEF SharingTypes
<1>5. \A h \in Grants : S!Seeder(h)' = S!Seeder(h)
    BY DEF S!Seeder
<1>6. \A h \in Grants : Known(h)'
    BY <1>1, <1>2 DEF Known, S!Fresh, S!Unseen
<1>7. \A w \in Workers : InHand(w)'
    BY <1>1, <1>2, <1>5 DEF InHand, S!NoPost
<1>8. Handled' /\ Awaited' /\ Claimed'
    BY <1>1, <1>5 DEF Handled, Awaited, Claimed, Claims
<1>9. ASSUME NEW h \in Grants, ~late'[h] PROVE Steady(h)'
    <2>1. Steady(h)
        BY <1>9, SharingIs
    <2>2. S!Underway(h)' <=> S!Underway(h)
        BY <1>2, <1>5 DEF S!Underway
    <2>3. CASE h # g
        BY <1>2, <2>1, <2>2, <2>3 DEF Steady
    <2>4. CASE h = g
        <3>1. S!Underway(g) => u.streams = 0 /\ u.bytes = serve[g].bytes
            BY <1>9, <2>4
        <3>2. (\E b \in booking : b.grant = g) \/ receipts[g] # <<>> => S!Underway(g)
            BY <1>1 DEF S!Underway, Claimed
        <3> QED
            BY <1>2, <2>1, <2>2, <2>4, <3>1, <3>2 DEF Steady
    <2> QED
        BY <2>3, <2>4
<1> QED
    BY <1>3, <1>4, <1>6, <1>7, <1>8, <1>9 DEF SharingInv

LEMMA ServingKeeps ==
    ASSUME SharingInv, NEW g \in Grants,
           S!Admit(g) \/ S!Begin(g) \/ S!Send(g) \/ S!End(g) \/ S!Quieten(g)
    PROVE  SharingInv'
<1>1. /\ serve \in [Grants -> Uses] /\ serve[g] \in Uses /\ Known(g) /\ late \in [Grants -> BOOLEAN]
      /\ ~late[g] => Steady(g)
    BY SharingIs DEF SharingTypes
<1>2. /\ serve[g].admitted \in Nat /\ serve[g].streams \in Nat /\ serve[g].bytes \in Nat
      /\ ~serve[g].seen => serve[g].admitted = 0 /\ serve[g].streams = 0
      /\ serve[g].seen => grant[g].state # "none"
      /\ MaxStreams \in Nat /\ MaxServed \in Nat
      /\ serve[g].admitted + serve[g].streams <= MaxStreams
    BY <1>1, SharingAssumption DEF Uses, Known, S!Unseen, SharingAssumption
<1>3. CASE S!Admit(g)
    <2> DEFINE u == [serve[g] EXCEPT !.seen = TRUE, !.admitted = @ + 1, !.quiet = FALSE]
    <2>1. /\ serve[g].admitted + serve[g].streams < MaxStreams /\ grant[g].state # "none"
          /\ serve' = [serve EXCEPT ![g] = u]
          /\ UNCHANGED <<S!hashVars, grant, agent, due, posting, booking, receipts, late, stops>>
        BY <1>3 DEF S!Admit
    <2>2. serve[g].admitted + 1 \in 0 .. MaxStreams
        BY <1>2, <2>1
    <2>3. /\ u \in Uses /\ u.reported = serve[g].reported /\ u.attempts = serve[g].attempts /\ u.seen
          /\ u.bytes = serve[g].bytes /\ u.streams = serve[g].streams
          /\ u.admitted = serve[g].admitted + 1
        BY <1>1, <2>2 DEF Uses
    <2> HIDE DEF u
    <2>4. u.admitted + u.streams <= MaxStreams
        BY <1>2, <2>1, <2>3
    <2>5. ~late'[g] => (S!Underway(g) => u.streams = 0 /\ u.bytes = serve[g].bytes)
        BY <1>1, <2>1, <2>3 DEF Steady
    <2> QED
        BY <1>1, <2>1, <2>3, <2>4, <2>5, UseStep
<1>4. CASE S!Begin(g)
    <2>1. PICK n \in 0 .. 1 :
            /\ serve' = [serve EXCEPT ![g].admitted = @ - 1, ![g].streams = @ + n]
            /\ late' = [late EXCEPT ![g] = @ \/ (n = 1 /\ S!Underway(g))]
        BY <1>4 DEF S!Begin
    <2> DEFINE u == [serve[g] EXCEPT !.admitted = @ - 1, !.streams = @ + n]
    <2>2. /\ serve[g].admitted > 0 /\ UNCHANGED <<S!hashVars, grant, agent, due, posting, booking, receipts, stops>>
        BY <1>4 DEF S!Begin
    <2>3. serve[g].admitted - 1 \in 0 .. MaxStreams /\ serve[g].streams + n \in 0 .. MaxStreams
        BY <1>2, <2>1, <2>2
    <2>4. serve' = [serve EXCEPT ![g] = u]
        BY <2>1
    <2>5. /\ u \in Uses /\ u.reported = serve[g].reported /\ u.attempts = serve[g].attempts
          /\ u.seen = serve[g].seen
          /\ u.bytes = serve[g].bytes /\ u.streams = serve[g].streams + n
          /\ u.admitted = serve[g].admitted - 1
        BY <1>1, <2>3 DEF Uses
    <2> HIDE DEF u
    <2>6. u.admitted + u.streams <= MaxStreams /\ u.seen /\ grant[g].state # "none"
        BY <1>2, <2>1, <2>2, <2>5
    <2>7. /\ late' \in [Grants -> BOOLEAN] /\ \A h \in Grants : late[h] => late'[h]
          /\ late'[g] <=> late[g] \/ (n = 1 /\ S!Underway(g))
        <3>1. (late[g] \/ (n = 1 /\ S!Underway(g))) \in BOOLEAN
            BY <1>1
        <3> QED
            BY <1>1, <2>1, <3>1, Zenon
    <2>8. ~late'[g] => (S!Underway(g) => u.streams = 0 /\ u.bytes = serve[g].bytes)
        <3> SUFFICES ASSUME ~late'[g], S!Underway(g) PROVE u.streams = 0 /\ u.bytes = serve[g].bytes
            OBVIOUS
        <3>1. ~late[g] /\ n = 0
            BY <2>1, <2>7
        <3>2. serve[g].streams = 0
            BY <1>1, <3>1 DEF Steady
        <3> QED
            BY <2>5, <3>1, <3>2
    <2> QED
        BY <1>1, <2>2, <2>4, <2>5, <2>6, <2>7, <2>8, UseStep
<1>5. CASE S!Send(g)
    <2> DEFINE u == [serve[g] EXCEPT !.bytes = @ + 1, !.quiet = FALSE]
    <2>1. /\ serve[g].streams > 0 /\ serve[g].bytes < MaxServed
          /\ serve' = [serve EXCEPT ![g] = u]
          /\ UNCHANGED <<S!hashVars, grant, agent, due, posting, booking, receipts, late, stops>>
        BY <1>5 DEF S!Send
    <2>2. serve[g].bytes + 1 \in 0 .. MaxServed
        BY <1>2, <2>1
    <2>3. /\ u \in Uses /\ u.reported = serve[g].reported /\ u.attempts = serve[g].attempts
          /\ u.seen = serve[g].seen
          /\ u.streams = serve[g].streams /\ u.admitted = serve[g].admitted
        BY <1>1, <2>2 DEF Uses
    <2> HIDE DEF u
    <2>4. u.seen /\ grant[g].state # "none" /\ u.admitted + u.streams <= MaxStreams
        BY <1>2, <2>1, <2>3
    <2>5. ~late'[g] => ~S!Underway(g)
        BY <1>1, <2>1 DEF Steady
    <2> QED
        BY <1>1, <2>1, <2>3, <2>4, <2>5, UseStep
<1>6. CASE S!End(g)
    <2> DEFINE u == [serve[g] EXCEPT !.streams = @ - 1]
    <2>1. /\ serve[g].streams > 0
          /\ serve' = [serve EXCEPT ![g] = u]
          /\ UNCHANGED <<S!hashVars, grant, agent, due, posting, booking, receipts, late, stops>>
        BY <1>6 DEF S!End
    <2>2. serve[g].streams - 1 \in 0 .. MaxStreams
        BY <1>2, <2>1
    <2>3. /\ u \in Uses /\ u.reported = serve[g].reported /\ u.attempts = serve[g].attempts
          /\ u.seen = serve[g].seen
          /\ u.streams = serve[g].streams - 1 /\ u.admitted = serve[g].admitted
        BY <1>1, <2>2 DEF Uses
    <2> HIDE DEF u
    <2>4. u.seen /\ grant[g].state # "none" /\ u.admitted + u.streams <= MaxStreams
        BY <1>2, <2>1, <2>3
    <2>5. ~late'[g] => ~S!Underway(g)
        BY <1>1, <2>1 DEF Steady
    <2> QED
        BY <1>1, <2>1, <2>3, <2>4, <2>5, UseStep
<1>7. CASE S!Quieten(g)
    <2> DEFINE u == [serve[g] EXCEPT !.quiet = TRUE]
    <2>1. /\ serve[g].seen /\ serve' = [serve EXCEPT ![g] = u]
          /\ UNCHANGED <<S!hashVars, grant, agent, due, posting, booking, receipts, late, stops>>
        BY <1>7 DEF S!Quieten
    <2>2. /\ u \in Uses /\ u.reported = serve[g].reported /\ u.attempts = serve[g].attempts
          /\ u.seen = serve[g].seen /\ u.bytes = serve[g].bytes
          /\ u.streams = serve[g].streams /\ u.admitted = serve[g].admitted
        BY <1>1 DEF Uses
    <2> HIDE DEF u
    <2>3. u.seen /\ grant[g].state # "none" /\ u.admitted + u.streams <= MaxStreams
        BY <1>2, <2>1, <2>2
    <2>4. ~late'[g] => (S!Underway(g) => u.streams = 0 /\ u.bytes = serve[g].bytes)
        BY <1>1, <2>1, <2>2 DEF Steady
    <2> QED
        BY <1>1, <2>1, <2>2, <2>3, <2>4, UseStep
<1> QED
    BY <1>3, <1>4, <1>5, <1>6, <1>7

----------------------------------------------------------------------------
(* What becomes of a post *)

\* A post for grant g has its outcome, if its reporter waits for one.
Settles(g) ==
    /\ posting' \in [Workers -> Posts] /\ serve' \in [Grants -> Uses]
    /\ \A h \in Grants : /\ serve'[h].seen = serve[h].seen /\ serve'[h].bytes = serve[h].bytes
                         /\ serve'[h].streams = serve[h].streams
                         /\ serve'[h].admitted = serve[h].admitted
                         /\ ~serve[h].seen \/ h # g => serve'[h] = serve[h]
                         /\ ~serve'[h].reported => serve'[h].attempts < MaxReportAttempts
    /\ \A w \in Workers : \/ posting'[w] = posting[w]
                          \/ posting'[w] = S!NoPost /\ posting[w].grant = g /\ S!Seeder(g) = w
    /\ \/ serve'[g] = serve[g]
       \/ posting[S!Seeder(g)].grant = g /\ posting'[S!Seeder(g)] = S!NoPost

LEMMA NoPostIs == S!NoPost \in Posts /\ S!NoPost.grant = NoGrant /\ NoGrant \notin Grants
PROOF BY SharingAssumption DEF SharingAssumption, S!NoPost, Posts

LEMMA HeardIs ==
    ASSUME SharingInv, NEW g \in Grants, NEW ok \in BOOLEAN, posting[S!Seeder(g)].grant = g,
           S!Heard(g, ok)
    PROVE  Settles(g)
<1>1. /\ posting \in [Workers -> Posts] /\ serve \in [Grants -> Uses] /\ serve[g] \in Uses
      /\ S!Seeder(g) \in Workers /\ \A h \in Grants : Known(h)
      /\ InHand(S!Seeder(g))
    BY SharingIs DEF SharingTypes
<1>2. serve[g].seen /\ ~serve[g].reported /\ serve[g].attempts < MaxReportAttempts
    BY <1>1 DEF InHand, Known
<1>3. PICK u \in Uses : /\ serve' = [serve EXCEPT ![g] = u]
                        /\ u.seen = serve[g].seen /\ u.bytes = serve[g].bytes
                        /\ u.streams = serve[g].streams /\ u.admitted = serve[g].admitted
                        /\ ~u.reported => u.attempts < MaxReportAttempts
    <2>1. CASE ok
        <3> DEFINE u == [serve[g] EXCEPT !.reported = TRUE]
        <3>1. serve' = [serve EXCEPT ![g] = u]
            BY <2>1 DEF S!Heard
        <3>2. /\ u \in Uses /\ u.reported = TRUE /\ u.seen = serve[g].seen /\ u.bytes = serve[g].bytes
              /\ u.streams = serve[g].streams /\ u.admitted = serve[g].admitted
            BY <1>1 DEF Uses
        <3> HIDE DEF u
        <3> QED
            BY <3>1, <3>2
    <2>2. CASE ~ok
        <3> DEFINE n == serve[g].attempts + 1
                   r == n >= MaxReportAttempts
                   u == [serve[g] EXCEPT !.attempts = n, !.reported = r]
        <3>1. serve' = [serve EXCEPT ![g] = u]
            BY <2>2 DEF S!Heard, S!Tried
        <3>2. n \in 0 .. MaxReportAttempts /\ r \in BOOLEAN
            BY <1>1, <1>2, SharingAssumption DEF Uses, SharingAssumption
        <3>3. ~r => n < MaxReportAttempts
            BY <3>2, SharingAssumption DEF SharingAssumption
        <3> HIDE DEF n, r
        <3>4. /\ u \in Uses /\ u.reported = r /\ u.seen = serve[g].seen /\ u.bytes = serve[g].bytes
              /\ u.streams = serve[g].streams /\ u.admitted = serve[g].admitted /\ u.attempts = n
            BY <1>1, <3>2 DEF Uses
        <3> HIDE DEF u
        <3> QED
            BY <3>1, <3>3, <3>4
    <2> QED
        BY <2>1, <2>2
<1>4. /\ serve' \in [Grants -> Uses] /\ serve'[g] = u /\ \A h \in Grants : h # g => serve'[h] = serve[h]
    <2>1. serve' = [serve EXCEPT ![g] = u]
        BY <1>3
    <2>2. serve \in [Grants -> Uses]
        BY <1>1
    <2> QED
        BY <2>1, <2>2
<1>5. posting' = [posting EXCEPT ![S!Seeder(g)] = S!NoPost]
    BY DEF S!Heard
<1>6. /\ posting' \in [Workers -> Posts] /\ posting'[S!Seeder(g)] = S!NoPost
      /\ \A w \in Workers : w # S!Seeder(g) => posting'[w] = posting[w]
    BY <1>1, <1>5, NoPostIs
<1> HIDE DEF Uses
<1> QED
    BY <1>1, <1>2, <1>3, <1>4, <1>6 DEF Settles, Known

LEMMA AnswerIs ==
    ASSUME SharingInv, NEW b \in booking, NEW ok \in BOOLEAN, S!Answer(b, ok)
    PROVE  Settles(b.grant) /\ (b.awaited \/ UNCHANGED <<posting, serve>>)
<1>1. b.grant \in Grants /\ Handled /\ SharingTypes /\ \A h \in Grants : Known(h)
    BY SharingIs
<1>2. CASE b.awaited
    BY <1>1, <1>2, HeardIs DEF Handled, S!Answer
<1>3. CASE ~b.awaited
    <2>1. UNCHANGED <<posting, serve>>
        BY <1>3 DEF S!Answer
    <2> QED
        BY <1>1, <2>1 DEF Settles, SharingTypes, Known
<1> QED
    BY <1>2, <1>3

\* The reporters' books after that.
LEMMA SettledKeeps ==
    ASSUME SharingInv, NEW g \in Grants, Settles(g), UNCHANGED due,
           \A h \in Grants : /\ S!Seeder(h)' = S!Seeder(h) /\ grant'[h].state = grant[h].state
                             /\ grant[h].state = "none" => grant'[h] = grant[h]
    PROVE  /\ \A h \in Grants : Known(h)'
           /\ \A w \in Workers : InHand(w)'
<1>1. /\ \A h \in Grants : Known(h)
      /\ \A w \in Workers : InHand(w) /\ due[w] \in SUBSET Grants
    BY SharingIs
<1>2. \A h \in Grants : Known(h)'
    BY <1>1 DEF Known, Settles, S!Fresh, S!Unseen
<1>3. ASSUME NEW w \in Workers PROVE InHand(w)'
    <2>1. InHand(w) /\ due'[w] = due[w] /\ due[w] \in SUBSET Grants
        BY <1>1
    <2>2. ASSUME NEW h \in due[w]
          PROVE  S!Seeder(h)' = w /\ serve'[h].seen /\ ~serve'[h].reported /\ posting'[w].grant # h
        <3>1. h \in Grants /\ S!Seeder(h) = w /\ serve[h].seen /\ ~serve[h].reported /\ posting[w].grant # h
            BY <2>1 DEF InHand
        <3>2. serve'[h] = serve[h]
            BY <3>1 DEF Settles
        <3> QED
            BY <3>1, <3>2, NoPostIs DEF Settles
    <2>3. ASSUME NEW h \in Grants, posting'[w].grant = h
          PROVE  S!Seeder(h)' = w /\ serve'[h].seen /\ ~serve'[h].reported
        <3>1. posting'[w] = posting[w]
            BY <2>3, NoPostIs DEF Settles
        <3>2. S!Seeder(h) = w /\ serve[h].seen /\ ~serve[h].reported
            BY <2>1, <2>3, <3>1 DEF InHand
        <3>3. serve'[h] = serve[h]
            BY <2>3, <3>2, NoPostIs DEF Settles
        <3> QED
            BY <3>2, <3>3
    <2>4. posting'[w].grant = NoGrant => posting'[w] = S!NoPost
        BY <2>1 DEF InHand, Settles
    <2>5. S!NoPost' = S!NoPost
        BY DEF S!NoPost
    <2> QED
        BY <2>1, <2>2, <2>3, <2>4, <2>5 DEF InHand
<1> QED
    BY <1>2, <1>3

----------------------------------------------------------------------------
(* The booking *)

\* A request is over.  A receipt it has written, or the claim it has undone,
\* was in its hands alone.
LEMMA AnsweredStep ==
    ASSUME SharingInv, NEW b \in booking, NEW ok \in BOOLEAN, S!Answer(b, ok),
           booking' = booking \ {b},
           UNCHANGED <<S!hashVars, agent, due, late, stops>>,
           \/ UNCHANGED <<grant, receipts>>
           \/ Claims(b) /\ UNCHANGED grant /\ receipts' = [receipts EXCEPT ![b.grant] = <<b.bytes>>]
           \/ Claims(b) /\ grant' = [grant EXCEPT ![b.grant].booked = FALSE] /\ UNCHANGED receipts
    PROVE  SharingInv'
<1>1. /\ SharingTypes /\ RowsTold /\ Handled /\ Awaited /\ Claimed
      /\ \A h \in Grants : Known(h)
      /\ \A w \in Workers : InHand(w)
      /\ \A c \in booking : c \in Bookings /\ c.grant \in Grants
      /\ b.grant \in Grants
    BY SharingIs
<1>2. Settles(b.grant) /\ (b.awaited \/ UNCHANGED <<posting, serve>>)
    BY AnswerIs
<1>3. RowsTold' /\ UNCHANGED <<row, telling, told>>
    BY <1>1, RowsKept DEF S!hashVars
<1>4. /\ grant' \in [Grants -> GrantRows]
      /\ \A h \in Grants : /\ grant'[h].state = grant[h].state /\ grant'[h].seeder = grant[h].seeder
                           /\ grant'[h].booked => grant[h].booked
                           /\ h # b.grant => grant'[h] = grant[h]
      /\ Claims(b) \/ UNCHANGED grant
    <2>1. CASE UNCHANGED grant
        BY <1>1, <2>1 DEF SharingTypes
    <2>2. CASE Claims(b) /\ grant' = [grant EXCEPT ![b.grant].booked = FALSE]
        <3> DEFINE r == [grant[b.grant] EXCEPT !.booked = FALSE]
        <3>1. grant[b.grant] \in GrantRows /\ grant \in [Grants -> GrantRows]
            BY <1>1 DEF SharingTypes
        <3>2. /\ r \in GrantRows /\ r.booked = FALSE /\ r.state = grant[b.grant].state
              /\ r.seeder = grant[b.grant].seeder
            BY <3>1 DEF GrantRows
        <3>3. grant' = [grant EXCEPT ![b.grant] = r]
            BY <2>2
        <3> HIDE DEF r
        <3>4. /\ grant' \in [Grants -> GrantRows] /\ grant'[b.grant] = r
              /\ \A h \in Grants : h # b.grant => grant'[h] = grant[h]
            BY <1>1, <3>1, <3>2, <3>3
        <3> QED
            BY <2>2, <3>2, <3>4
    <2> QED
        BY <2>1, <2>2
<1>5. /\ receipts' \in [Grants -> Receipts]
      /\ \A h \in Grants : h # b.grant => receipts'[h] = receipts[h]
      /\ UNCHANGED receipts \/ (Claims(b) /\ UNCHANGED grant /\ receipts'[b.grant] = <<b.bytes>>)
    <2>1. Claims(b) => <<b.bytes>> \in Receipts
        <3>1. Claims(b) => b.bytes <= Units /\ b.bytes \in 1 .. MaxServed
            BY <1>1 DEF Handled, Claims, Bookings
        <3> QED
            BY <3>1, SharingAssumption DEF Receipts, SharingAssumption
    <2> DEFINE one == <<b.bytes>>
    <2> HIDE DEF one
    <2>2. CASE Claims(b) /\ UNCHANGED grant /\ receipts' = [receipts EXCEPT ![b.grant] = one]
        BY <1>1, <2>1, <2>2 DEF SharingTypes, one
    <2>3. CASE UNCHANGED receipts
        BY <1>1, <2>3 DEF SharingTypes
    <2> QED
        BY <2>2, <2>3 DEF one
<1>6. SharingTypes'
    BY <1>1, <1>2, <1>3, <1>4, <1>5 DEF SharingTypes, Settles
<1>7. \A h \in Grants : S!Seeder(h)' = S!Seeder(h)
    BY <1>4 DEF S!Seeder
<1>8. \A h \in Grants : grant[h].state = "none" => grant'[h] = grant[h]
    <2>1. grant[b.grant].state # "none"
        BY <1>1 DEF Handled
    <2> QED
        BY <1>4, <2>1
<1>9. (\A h \in Grants : Known(h)') /\ (\A w \in Workers : InHand(w)')
    BY <1>1, <1>2, <1>4, <1>7, <1>8, SettledKeeps
<1>10. Handled'
    <2> SUFFICES ASSUME NEW c \in booking'
                 PROVE  /\ grant'[c.grant].state # "none"
                        /\ c.awaited => posting'[S!Seeder(c.grant)'].grant = c.grant
                        /\ c.at # "check" => c.bytes <= Units
        BY DEF Handled
    <2>1. c \in booking /\ c # b /\ c.grant \in Grants /\ S!Seeder(c.grant) \in Workers
        BY <1>1, SharingIs
    <2>2. /\ grant[c.grant].state # "none" /\ (c.at # "check" => c.bytes <= Units)
          /\ c.awaited => posting[S!Seeder(c.grant)].grant = c.grant
        BY <1>1, <2>1 DEF Handled
    <2>3. c.awaited => posting'[S!Seeder(c.grant)] = posting[S!Seeder(c.grant)]
        BY <1>1, <1>2, <2>1, <2>2 DEF Awaited, Settles
    <2> QED
        BY <1>4, <1>7, <2>1, <2>2, <2>3
<1>11. Awaited'
    BY <1>1 DEF Awaited
<1>12. Claimed'
    <2>1. ASSUME NEW c \in booking', Claims(c) PROVE grant'[c.grant].booked /\ receipts'[c.grant] = <<>>
        <3>1. c \in booking /\ c # b /\ grant[c.grant].booked /\ receipts[c.grant] = <<>> /\ c.grant \in Grants
            BY <1>1, <2>1 DEF Claimed
        <3>2. Claims(b) => c.grant # b.grant
            BY <1>1, <2>1, <3>1 DEF Claimed
        <3> QED
            BY <1>4, <1>5, <3>1, <3>2
    <2>2. \A c \in booking', d \in booking' : Claims(c) /\ Claims(d) /\ c.grant = d.grant => c = d
        BY <1>1 DEF Claimed
    <2>3. ASSUME NEW h \in Grants, receipts'[h] # <<>> PROVE grant'[h].booked
        <3>1. Claims(b) => grant[b.grant].booked /\ receipts[b.grant] = <<>>
            BY <1>1 DEF Claimed
        <3>2. CASE UNCHANGED receipts
            <4>1. grant[h].booked
                BY <1>1, <2>3, <3>2 DEF Claimed
            <4>2. Claims(b) => h # b.grant
                BY <2>3, <3>1, <3>2
            <4> QED
                BY <1>4, <4>1, <4>2
        <3>3. CASE Claims(b) /\ UNCHANGED grant
            BY <1>1, <1>5, <2>3, <3>1, <3>3 DEF Claimed
        <3> QED
            BY <1>5, <3>2, <3>3
    <2>4. \A c : Claims(c)' <=> Claims(c)
        BY DEF Claims
    <2> QED
        BY <2>1, <2>2, <2>3 DEF Claimed, Claims
<1>13. ASSUME NEW h \in Grants, ~late'[h] PROVE Steady(h)'
    <2>1. Steady(h)
        BY <1>13, SharingIs
    <2>2. S!Underway(h)' => S!Underway(h)
        <3>1. serve'[h].reported => serve[h].reported \/ h = b.grant
            BY <1>2 DEF Settles
        <3>2. posting'[S!Seeder(h)].grant = h => posting[S!Seeder(h)].grant = h
            <4>1. S!Seeder(h) \in Workers
                BY SharingIs
            <4> QED
                BY <1>2, <4>1, NoPostIs DEF Settles
        <3>3. grant'[h].booked => grant[h].booked
            BY <1>4
        <3> QED
            BY <1>7, <3>1, <3>2, <3>3 DEF S!Underway
    <2>3. receipts'[h] # <<>> => receipts'[h] = <<serve[h].bytes>>
        <3>1. b.grant = h => b.bytes = serve[h].bytes
            BY <2>1 DEF Steady
        <3> QED
            BY <1>5, <2>1, <3>1 DEF Steady
    <2>4. /\ serve'[h].seen = serve[h].seen /\ serve'[h].bytes = serve[h].bytes
          /\ serve'[h].streams = serve[h].streams
        BY <1>2 DEF Settles
    <2>5. grant'[h].booked => grant[h].booked \/ \E c \in booking : c.grant = h
        BY <1>4
    <2>6. \A c \in booking' : c.grant = h => \E d \in booking : d.grant = h /\ d.bytes = c.bytes
        OBVIOUS
    <2> QED
        BY <2>1, <2>2, <2>3, <2>4, <2>5, <2>6, SteadyKeeps
<1> QED
    BY <1>3, <1>6, <1>9, <1>10, <1>11, <1>12, <1>13 DEF SharingInv

\* A request goes on: past the comparison, with the claim, or with it to undo.
LEMMA AdvancedStep ==
    ASSUME SharingInv, NEW b \in booking, NEW at \in {"claim", "write", "undo"},
           NEW c, GoesOn(c, b, at), booking' = (booking \ {b}) \cup {c}, b.bytes <= Units,
           UNCHANGED <<S!hashVars, serve, posting, agent, due, late, stops, receipts>>,
           \/ at = "claim" /\ UNCHANGED grant
           \/ Claims(b) /\ UNCHANGED grant
           \/ ~grant[b.grant].booked /\ grant' = [grant EXCEPT ![b.grant].booked = TRUE]
    PROVE  SharingInv'
<1>1. /\ SharingTypes /\ RowsTold /\ Handled /\ Awaited /\ Claimed
      /\ \A h \in Grants : Known(h)
      /\ \A w \in Workers : InHand(w) /\ due[w] \in SUBSET Grants
      /\ \A d \in booking : d \in Bookings /\ d.grant \in Grants
      /\ b.grant \in Grants
    BY SharingIs
<1>2. c \in Bookings /\ c.grant = b.grant /\ c.bytes = b.bytes /\ c.at = at /\ c.awaited = b.awaited
    BY <1>1, GoesOnIs
<1>3. RowsTold' /\ UNCHANGED <<row, telling, told>>
    BY <1>1, RowsKept DEF S!hashVars
<1>4. /\ grant' \in [Grants -> GrantRows]
      /\ \A h \in Grants : /\ grant'[h].state = grant[h].state /\ grant'[h].seeder = grant[h].seeder
                           /\ grant[h].booked => grant'[h].booked
                           /\ h # b.grant => grant'[h] = grant[h]
      /\ UNCHANGED grant \/ (~grant[b.grant].booked /\ grant'[b.grant].booked)
      /\ at = "claim" \/ Claims(b) \/ (~grant[b.grant].booked /\ grant'[b.grant].booked)
    <2>1. CASE UNCHANGED grant /\ (at = "claim" \/ Claims(b))
        BY <1>1, <2>1 DEF SharingTypes
    <2>2. CASE ~grant[b.grant].booked /\ grant' = [grant EXCEPT ![b.grant].booked = TRUE]
        <3> DEFINE r == [grant[b.grant] EXCEPT !.booked = TRUE]
        <3>1. grant[b.grant] \in GrantRows /\ grant \in [Grants -> GrantRows]
            BY <1>1 DEF SharingTypes
        <3>2. /\ r \in GrantRows /\ r.booked = TRUE /\ r.state = grant[b.grant].state
              /\ r.seeder = grant[b.grant].seeder
            BY <3>1 DEF GrantRows
        <3>3. grant' = [grant EXCEPT ![b.grant] = r]
            BY <2>2
        <3> HIDE DEF r
        <3>4. /\ grant' \in [Grants -> GrantRows] /\ grant'[b.grant] = r
              /\ \A h \in Grants : h # b.grant => grant'[h] = grant[h]
            BY <1>1, <3>1, <3>2, <3>3
        <3> QED
            BY <2>2, <3>2, <3>4
    <2> QED
        BY <2>1, <2>2
<1>5. SharingTypes'
    BY <1>1, <1>2, <1>3, <1>4 DEF SharingTypes
<1>6. \A h \in Grants : S!Seeder(h)' = S!Seeder(h)
    BY <1>4 DEF S!Seeder
<1>7. grant[b.grant].state # "none"
    BY <1>1 DEF Handled
<1>8. \A h \in Grants : Known(h)'
    BY <1>1, <1>4, <1>7 DEF Known, S!Fresh, S!Unseen
<1>9. \A w \in Workers : InHand(w)'
    BY <1>1, <1>6 DEF InHand, S!NoPost
<1>10. Handled'
    BY <1>1, <1>2, <1>4, <1>6 DEF Handled
<1>11. Awaited'
    BY <1>1, <1>2 DEF Awaited
<1>12. Claimed'
    <2>1. Claims(c) => grant'[b.grant].booked /\ receipts[b.grant] = <<>>
        BY <1>1, <1>2, <1>4 DEF Claimed, Claims
    <2>2. Claims(c) => \A d \in booking : d # b /\ d.grant = b.grant => ~Claims(d)
        BY <1>1, <1>2, <1>4 DEF Claimed, Claims
    <2>3. \A d \in booking' : Claims(d) => grant'[d.grant].booked /\ receipts'[d.grant] = <<>>
        BY <1>1, <1>2, <1>4, <2>1 DEF Claimed
    <2>4. \A d \in booking', e \in booking' : Claims(d) /\ Claims(e) /\ d.grant = e.grant => d = e
        BY <1>1, <1>2, <2>2 DEF Claimed
    <2>5. \A h \in Grants : receipts'[h] # <<>> => grant'[h].booked
        BY <1>1, <1>4 DEF Claimed
    <2> QED
        BY <2>3, <2>4, <2>5 DEF Claimed, Claims
<1>13. ASSUME NEW h \in Grants, ~late'[h] PROVE Steady(h)'
    <2>1. Steady(h)
        BY <1>13, SharingIs
    <2>2. S!Underway(h)' => S!Underway(h)
        BY <1>2, <1>4, <1>6 DEF S!Underway
    <2>3. \A d \in booking' : d.grant = h => \E e \in booking : e.grant = h /\ e.bytes = d.bytes
        BY <1>2
    <2>4. grant'[h].booked => grant[h].booked \/ \E d \in booking : d.grant = h
        BY <1>4
    <2>5. receipts'[h] # <<>> => receipts'[h] = <<serve[h].bytes>>
        BY <2>1 DEF Steady
    <2> QED
        BY <2>1, <2>2, <2>3, <2>4, <2>5, SteadyKeeps
<1> QED
    BY <1>3, <1>5, <1>8, <1>9, <1>10, <1>11, <1>12, <1>13 DEF SharingInv

LEMMA BookingKeeps == ASSUME SharingInv, S!Booking PROVE SharingInv'
<1>1. PICK b \in booking : S!Check(b) \/ S!Claim(b) \/ S!Write(b) \/ S!Undo(b)
    BY DEF S!Booking
<1>2. /\ Handled /\ Claimed /\ b.grant \in Grants /\ b \in Bookings
      /\ receipts \in [Grants -> Receipts] /\ (b.at # "check" => b.bytes <= Units)
    BY SharingIs DEF SharingTypes, Handled
<1>3. UNCHANGED <<S!hashVars, agent, due, late, stops>>
    BY <1>1 DEF S!Check, S!Claim, S!Write, S!Undo
<1>4. (booking \ {b}) \cup {} = booking \ {b}
    OBVIOUS
<1>5. CASE S!Check(b)
    <2>1. CASE S!Bookable(b)
        <3> DEFINE c == [b EXCEPT !.at = "claim"]
        <3>1. /\ booking' = (booking \ {b}) \cup {c} /\ b.bytes <= Units
              /\ UNCHANGED <<serve, posting, receipts>> /\ UNCHANGED grant
            BY <1>5, <2>1 DEF S!Check, S!Replace, S!Bookable
        <3>2. GoesOn(c, b, "claim")
            BY DEF GoesOn
        <3> HIDE DEF c
        <3> QED
            BY <1>3, <3>1, <3>2, AdvancedStep
    <2>2. CASE ~S!Bookable(b)
        <3>1. booking' = booking \ {b} /\ S!Answer(b, FALSE) /\ UNCHANGED <<grant, receipts>>
            BY <1>4, <1>5, <2>2 DEF S!Check, S!Replace
        <3> QED
            BY <1>3, <3>1, AnsweredStep
    <2> QED
        BY <2>1, <2>2
<1>6. CASE S!Claim(b)
    <2>1. CASE S!Claimable(b.grant)
        <3> DEFINE c == [b EXCEPT !.at = "write"]
        <3>1. /\ booking' = (booking \ {b}) \cup {c} /\ ~grant[b.grant].booked
              /\ grant' = [grant EXCEPT ![b.grant].booked = TRUE]
              /\ UNCHANGED <<serve, posting, receipts>>
            BY <1>6, <2>1 DEF S!Claim, S!Replace, S!Claimable
        <3>2. GoesOn(c, b, "write")
            BY DEF GoesOn
        <3>3. b.bytes <= Units
            BY <1>2, <1>6 DEF S!Claim
        <3> HIDE DEF c
        <3> QED
            BY <1>3, <3>1, <3>2, <3>3, AdvancedStep
    <2>2. CASE ~S!Claimable(b.grant)
        <3>1. booking' = booking \ {b} /\ S!Answer(b, FALSE) /\ UNCHANGED <<grant, receipts>>
            BY <1>4, <1>6, <2>2 DEF S!Claim, S!Replace
        <3> QED
            BY <1>3, <3>1, AnsweredStep
    <2> QED
        BY <2>1, <2>2
<1>7. CASE S!Write(b)
    <2>1. Claims(b) /\ UNCHANGED grant /\ b.bytes <= Units /\ receipts[b.grant] = <<>>
        BY <1>2, <1>7 DEF S!Write, Claims, Claimed
    <2>2. CASE /\ receipts' = [receipts EXCEPT ![b.grant] = Append(@, b.bytes)]
               /\ S!Replace(b, {}) /\ S!Answer(b, TRUE)
        <3>1. Append(<<>>, b.bytes) = <<b.bytes>>
            OBVIOUS
        <3>2. receipts' = [receipts EXCEPT ![b.grant] = <<b.bytes>>]
            BY <2>1, <2>2, <3>1, Zenon
        <3>3. booking' = booking \ {b} /\ S!Answer(b, TRUE)
            BY <1>4, <2>2 DEF S!Replace
        <3> QED
            BY <1>3, <2>1, <3>2, <3>3, AnsweredStep
    <2>3. CASE S!Replace(b, {[b EXCEPT !.at = "undo"]}) /\ UNCHANGED <<posting, serve, receipts>>
        <3> DEFINE c == [b EXCEPT !.at = "undo"]
        <3>1. booking' = (booking \ {b}) \cup {c}
            BY <2>3 DEF S!Replace
        <3>2. GoesOn(c, b, "undo")
            BY DEF GoesOn
        <3> HIDE DEF c
        <3> QED
            BY <1>3, <2>1, <2>3, <3>1, <3>2, AdvancedStep
    <2> QED
        BY <1>7, <2>2, <2>3 DEF S!Write
<1>8. CASE S!Undo(b)
    <2>1. /\ Claims(b) /\ grant' = [grant EXCEPT ![b.grant].booked = FALSE] /\ UNCHANGED receipts
          /\ booking' = booking \ {b} /\ S!Answer(b, FALSE)
        BY <1>4, <1>8 DEF S!Undo, S!Replace, Claims
    <2> QED
        BY <1>3, <2>1, AnsweredStep
<1> QED
    BY <1>1, <1>5, <1>6, <1>7, <1>8

----------------------------------------------------------------------------
(* The reporter *)

LEMMA CollectKeeps == ASSUME SharingInv, NEW w \in Workers, S!Collect(w) PROVE SharingInv'
<1>1. /\ SharingTypes /\ RowsTold /\ Handled /\ Awaited /\ Claimed
      /\ \A h \in Grants : Known(h) /\ S!Seeder(h) \in Workers
      /\ \A v \in Workers : InHand(v)
      /\ \A c \in booking : c.grant \in Grants
    BY SharingIs
<1>2. /\ due' = [due EXCEPT ![w] = {g \in Grants : S!Seeder(g) = w /\ S!Due(g)}]
      /\ posting[w] = S!NoPost
      /\ UNCHANGED <<S!hashVars, grant, serve, booking, receipts, posting, late, stops>>
    BY DEF S!Collect
<1>3. agent' = agent \/ agent' = [agent EXCEPT ![w] = "last"]
    BY DEF S!Collect
<1>4. agent' \in [Workers -> {"up", "stopping", "last", "down"}]
    BY <1>1, <1>3 DEF SharingTypes
<1>5. /\ due' \in [Workers -> SUBSET Grants]
      /\ due'[w] = {g \in Grants : S!Seeder(g) = w /\ S!Due(g)}
      /\ \A v \in Workers : v # w => due'[v] = due[v]
    <2> DEFINE new == {g \in Grants : S!Seeder(g) = w /\ S!Due(g)}
    <2>1. new \in SUBSET Grants /\ due' = [due EXCEPT ![w] = new]
        BY <1>2
    <2> HIDE DEF new
    <2>2. due' \in [Workers -> SUBSET Grants] /\ due'[w] = new /\ \A v \in Workers : v # w => due'[v] = due[v]
        BY <1>1, <2>1 DEF SharingTypes
    <2> QED
        BY <2>2 DEF new
<1>6. RowsTold' /\ UNCHANGED <<row, telling, told>>
    BY <1>1, <1>2, RowsKept DEF S!hashVars
<1>7. SharingTypes'
    BY <1>1, <1>2, <1>4, <1>5, <1>6 DEF SharingTypes
<1>8. \A h \in Grants : S!Seeder(h)' = S!Seeder(h)
    BY <1>2 DEF S!Seeder
<1>9. \A h \in Grants : Known(h)'
    BY <1>1, <1>2 DEF Known, S!Fresh, S!Unseen
<1>10. ASSUME NEW v \in Workers PROVE InHand(v)'
    <2>1. CASE v # w
        BY <1>1, <1>2, <1>5, <1>8, <2>1 DEF InHand, S!NoPost, SharingTypes
    <2>2. CASE v = w
        BY <1>1, <1>2, <1>5, <1>8, <2>2, NoPostIs DEF InHand, S!NoPost, S!Due
    <2> QED
        BY <2>1, <2>2
<1>11. Handled' /\ Awaited' /\ Claimed'
    BY <1>1, <1>2, <1>8 DEF Handled, Awaited, Claimed, Claims
<1>12. ASSUME NEW h \in Grants, ~late'[h] PROVE Steady(h)'
    <2>1. Steady(h)
        BY <1>2, <1>12, SharingIs
    <2>2. S!Underway(h)' => S!Underway(h) \/ S!Due(h)
        BY <1>1, <1>2, <1>5, <1>8 DEF S!Underway
    <2>3. S!Due(h) => serve[h].streams = 0
        BY DEF S!Due
    <2> QED
        BY <1>2, <2>1, <2>2, <2>3 DEF Steady
<1> QED
    BY <1>6, <1>7, <1>9, <1>10, <1>11, <1>12 DEF SharingInv

\* A grant leaves the list of what is due: with nothing to report it is done.
LEMMA PostedKeeps == ASSUME SharingInv, NEW w \in Workers, S!Post(w) PROVE SharingInv'
<1>1. /\ SharingTypes /\ RowsTold /\ Handled /\ Awaited /\ Claimed
      /\ \A h \in Grants : Known(h) /\ S!Seeder(h) \in Workers
      /\ \A v \in Workers : InHand(v) /\ due[v] \in SUBSET Grants
      /\ \A c \in booking : c \in Bookings /\ c.grant \in Grants
    BY SharingIs
<1>2. PICK g \in due[w] :
        /\ due' = [due EXCEPT ![w] = @ \ {g}]
        /\ IF serve[g].bytes = 0
           THEN /\ serve' = [serve EXCEPT ![g].reported = TRUE]
                /\ UNCHANGED <<posting, booking>>
           ELSE /\ posting' = [posting EXCEPT ![w] = [grant |-> g, bytes |-> serve[g].bytes]]
                /\ booking' = booking \cup
                     {[grant |-> g, bytes |-> serve[g].bytes, at |-> "check",
                       nr |-> serve[g].attempts, awaited |-> TRUE]}
                /\ UNCHANGED serve
    BY DEF S!Post
<1>3. /\ g \in Grants /\ S!Seeder(g) = w /\ serve[g].seen /\ ~serve[g].reported
      /\ grant[g].state # "none" /\ serve[g] \in Uses /\ posting[w] = S!NoPost
      /\ posting \in [Workers -> Posts] /\ serve \in [Grants -> Uses] /\ due \in [Workers -> SUBSET Grants]
    BY <1>1 DEF InHand, Known, SharingTypes, S!Post
<1>4. UNCHANGED <<S!hashVars, grant, agent, receipts, late, stops>>
    BY DEF S!Post
<1>5. RowsTold' /\ UNCHANGED <<row, telling, told>>
    BY <1>1, <1>4, RowsKept DEF S!hashVars
<1>6. /\ due' \in [Workers -> SUBSET Grants] /\ due'[w] = due[w] \ {g}
      /\ \A v \in Workers : v # w => due'[v] = due[v]
      /\ \A v \in Workers : due'[v] \subseteq due[v] /\ g \notin due'[v]
    <2>1. due' = [due EXCEPT ![w] = @ \ {g}]
        BY <1>2
    <2>2. /\ due' \in [Workers -> SUBSET Grants] /\ due'[w] = due[w] \ {g}
          /\ \A v \in Workers : v # w => due'[v] = due[v]
        BY <1>3, <2>1
    <2>3. \A v \in Workers : v # w => g \notin due[v]
        BY <1>1, <1>3 DEF InHand
    <2> QED
        BY <2>2, <2>3
<1>7. \A h \in Grants : S!Seeder(h)' = S!Seeder(h)
    BY <1>4 DEF S!Seeder
<1>8. S!Underway(g)
    BY <1>3 DEF S!Underway
<1>9. CASE serve[g].bytes = 0
    <2> DEFINE u == [serve[g] EXCEPT !.reported = TRUE]
    <2>1. serve' = [serve EXCEPT ![g] = u] /\ UNCHANGED <<posting, booking>>
        BY <1>2, <1>9
    <2>2. /\ u \in Uses /\ u.reported = TRUE /\ u.seen = serve[g].seen /\ u.bytes = serve[g].bytes
          /\ u.streams = serve[g].streams /\ u.admitted = serve[g].admitted
        BY <1>3 DEF Uses
    <2> HIDE DEF u
    <2>3. /\ serve' \in [Grants -> Uses] /\ serve'[g] = u
          /\ \A h \in Grants : h # g => serve'[h] = serve[h]
        <3>1. u \in Uses
            BY <2>2
        <3> QED
            BY <1>3, <2>1, <3>1
    <2>4. SharingTypes'
        BY <1>1, <1>4, <1>5, <1>6, <2>1, <2>3 DEF SharingTypes
    <2>5. \A h \in Grants : Known(h)'
        BY <1>1, <1>3, <1>4, <2>2, <2>3 DEF Known, S!Fresh, S!Unseen
    <2>6. ASSUME NEW v \in Workers PROVE InHand(v)'
        <3>1. InHand(v) /\ posting'[v] = posting[v] /\ due'[v] \subseteq due[v] /\ g \notin due'[v]
            BY <1>1, <1>6, <2>1
        <3>2. posting[v].grant # g
            BY <1>1, <1>3, NoPostIs DEF InHand
        <3>3. \A h \in due[v] : h \in Grants
            BY <1>1
        <3> QED
            BY <1>7, <2>3, <3>1, <3>2, <3>3 DEF InHand, S!NoPost
    <2>7. Handled' /\ Awaited' /\ Claimed'
        BY <1>1, <1>4, <1>7, <2>1 DEF Handled, Awaited, Claimed, Claims
    <2>8. ASSUME NEW h \in Grants, ~late'[h] PROVE Steady(h)'
        <3>1. Steady(h)
            BY <1>4, <2>8, SharingIs
        <3>2. S!Underway(h)' => S!Underway(h)
            BY <1>1, <1>4, <1>6, <1>7, <1>8, <2>1, <2>3 DEF S!Underway
        <3> QED
            BY <1>4, <2>1, <2>2, <2>3, <3>1, <3>2 DEF Steady
    <2> QED
        BY <1>5, <2>4, <2>5, <2>6, <2>7, <2>8 DEF SharingInv
<1>10. CASE serve[g].bytes # 0
    <2> DEFINE b == [grant |-> g, bytes |-> serve[g].bytes, at |-> "check",
                     nr |-> serve[g].attempts, awaited |-> TRUE]
               p == [grant |-> g, bytes |-> serve[g].bytes]
    <2>1. posting' = [posting EXCEPT ![w] = p] /\ booking' = booking \cup {b} /\ UNCHANGED serve
        BY <1>2, <1>10
    <2>2. b \in Bookings /\ b.grant = g /\ b.bytes = serve[g].bytes /\ b.at = "check" /\ b.awaited = TRUE
        <3>1. serve[g].bytes \in 1 .. MaxServed /\ serve[g].attempts \in 0 .. MaxReportAttempts
            BY <1>3, <1>10 DEF Uses
        <3> QED
            BY <1>3, <3>1 DEF Bookings
    <2>3. p \in Posts /\ p.grant = g /\ g # NoGrant
        BY <1>3, NoPostIs DEF Posts, Uses
    <2> HIDE DEF b, p
    <2>4. /\ posting' \in [Workers -> Posts] /\ posting'[w] = p
          /\ \A v \in Workers : v # w => posting'[v] = posting[v]
        BY <1>3, <2>1, <2>3
    <2>5. SharingTypes'
        BY <1>1, <1>4, <1>5, <1>6, <2>1, <2>2, <2>4 DEF SharingTypes
    <2>6. \A h \in Grants : Known(h)'
        BY <1>1, <1>4, <2>1 DEF Known, S!Fresh, S!Unseen
    <2>7. ASSUME NEW v \in Workers PROVE InHand(v)'
        <3>1. InHand(v) /\ due'[v] \subseteq due[v] /\ g \notin due'[v] /\ \A h \in due[v] : h \in Grants
            BY <1>1, <1>6
        <3>2. CASE v # w
            BY <1>7, <2>1, <2>4, <3>1, <3>2 DEF InHand, S!NoPost
        <3>3. CASE v = w
            BY <1>3, <1>7, <2>1, <2>3, <2>4, <3>1, <3>3 DEF InHand, S!NoPost
        <3> QED
            BY <3>2, <3>3
    <2>8. ASSUME NEW c \in booking, c.awaited PROVE c.grant # g /\ S!Seeder(c.grant) # w
        <3>1. posting[S!Seeder(c.grant)].grant = c.grant /\ c.grant \in Grants
            BY <1>1, <2>8 DEF Handled
        <3> QED
            BY <1>3, <3>1, NoPostIs
    <2>9. Handled'
        BY <1>1, <1>3, <1>4, <1>7, <2>1, <2>2, <2>3, <2>4, <2>8 DEF Handled
    <2>10. Awaited'
        BY <1>1, <2>1, <2>2, <2>8 DEF Awaited
    <2>11. Claimed'
        BY <1>1, <1>4, <2>1, <2>2 DEF Claimed, Claims
    <2>12. ASSUME NEW h \in Grants, ~late'[h] PROVE Steady(h)'
        <3>1. Steady(h)
            BY <1>4, <2>12, SharingIs
        <3>2. S!Underway(h)' => S!Underway(h)
            BY <1>1, <1>3, <1>4, <1>6, <1>7, <1>8, <2>1, <2>2, <2>3, <2>4 DEF S!Underway
        <3> QED
            BY <1>3, <1>4, <2>1, <2>2, <3>1, <3>2 DEF Steady
    <2> QED
        BY <1>5, <2>5, <2>6, <2>7, <2>9, <2>10, <2>11, <2>12 DEF SharingInv
<1> QED
    BY <1>9, <1>10

LEMMA TimeOutKeeps == ASSUME SharingInv, NEW w \in Workers, S!TimeOut(w) PROVE SharingInv'
<1> DEFINE g == posting[w].grant
<1>1. /\ SharingTypes /\ RowsTold /\ Handled /\ Awaited /\ Claimed
      /\ \A h \in Grants : Known(h) /\ S!Seeder(h) \in Workers
      /\ \A v \in Workers : InHand(v)
      /\ \A c \in booking : c \in Bookings /\ c.grant \in Grants
    BY SharingIs
<1>2. g \in Grants /\ S!Seeder(g) = w
    <2>1. posting[w] # S!NoPost
        BY DEF S!TimeOut
    <2>2. posting[w].grant \in Grants \cup {NoGrant}
        BY SharingIs DEF Posts
    <2> QED
        BY <1>1, <2>1, <2>2 DEF InHand
<1>3. /\ S!Heard(g, FALSE)
      /\ booking' = {[b EXCEPT !.awaited = @ /\ b.grant # g] : b \in booking}
      /\ UNCHANGED <<S!hashVars, grant, agent, due, receipts, late, stops>>
    BY DEF S!TimeOut
<1>4. Settles(g)
    BY <1>2, <1>3, HeardIs
<1>5. \A c \in booking' : \E b \in booking : LetGo(c, b, b.grant # g)
    BY <1>3 DEF LetGo
<1>6. ASSUME NEW c \in booking', NEW b \in booking, LetGo(c, b, b.grant # g)
      PROVE  /\ c \in Bookings /\ c.grant = b.grant /\ c.bytes = b.bytes /\ c.at = b.at
             /\ c.awaited <=> b.awaited /\ b.grant # g
    BY <1>1, <1>6, LetGoIs
<1>7. RowsTold' /\ UNCHANGED <<row, telling, told>>
    BY <1>1, <1>3, RowsKept DEF S!hashVars
<1>8. SharingTypes'
    <2>1. booking' \subseteq Bookings
        BY <1>5, <1>6
    <2> QED
        BY <1>1, <1>3, <1>4, <1>7, <2>1 DEF SharingTypes, Settles
<1>9. \A h \in Grants : S!Seeder(h)' = S!Seeder(h)
    BY <1>3 DEF S!Seeder
<1>10. (\A h \in Grants : Known(h)') /\ (\A v \in Workers : InHand(v)')
    BY <1>2, <1>3, <1>4, <1>9, SettledKeeps
<1>11. Handled'
    <2> SUFFICES ASSUME NEW c \in booking'
                 PROVE  /\ grant'[c.grant].state # "none"
                        /\ c.awaited => posting'[S!Seeder(c.grant)'].grant = c.grant
                        /\ c.at # "check" => c.bytes <= Units
        BY DEF Handled
    <2>1. PICK b \in booking : LetGo(c, b, b.grant # g)
        BY <1>5
    <2>2. /\ c.grant = b.grant /\ c.bytes = b.bytes /\ c.at = b.at
          /\ c.awaited => b.awaited /\ b.grant # g
        BY <1>6, <2>1
    <2>3. b.grant \in Grants /\ S!Seeder(b.grant) \in Workers
        BY <1>1
    <2>4. b.awaited /\ b.grant # g => posting'[S!Seeder(b.grant)].grant = b.grant
        BY <1>1, <1>4, <2>3 DEF Handled, Settles
    <2> QED
        BY <1>1, <1>3, <1>9, <2>2, <2>3, <2>4 DEF Handled
<1>12. Awaited' /\ Claimed'
    <2>1. ASSUME NEW c \in booking', NEW d \in booking', c.grant = d.grant,
                 (c.awaited /\ d.awaited) \/ (Claims(c) /\ Claims(d))
          PROVE  c = d
        <3>1. PICK b \in booking : LetGo(c, b, b.grant # g)
            BY <1>5
        <3>2. PICK e \in booking : LetGo(d, e, e.grant # g)
            BY <1>5
        <3>3. b.grant = e.grant /\ ((b.awaited /\ e.awaited) \/ (Claims(b) /\ Claims(e)))
            BY <1>6, <2>1, <3>1, <3>2 DEF Claims
        <3>4. b = e
            BY <1>1, <3>3 DEF Awaited, Claimed
        <3> QED
            BY <3>1, <3>2, <3>4 DEF LetGo
    <2>2. ASSUME NEW c \in booking', Claims(c) PROVE grant'[c.grant].booked /\ receipts'[c.grant] = <<>>
        <3>1. PICK b \in booking : LetGo(c, b, b.grant # g)
            BY <1>5
        <3>2. c.grant = b.grant /\ Claims(b)
            BY <1>6, <2>2, <3>1 DEF Claims
        <3> QED
            BY <1>1, <1>3, <3>2 DEF Claimed
    <2>3. \A h \in Grants : receipts'[h] # <<>> => grant'[h].booked
        BY <1>1, <1>3 DEF Claimed
    <2> QED
        BY <2>1, <2>2, <2>3 DEF Awaited, Claimed, Claims
<1>13. ASSUME NEW h \in Grants, ~late'[h] PROVE Steady(h)'
    <2>1. Steady(h)
        BY <1>3, <1>13, SharingIs
    <2>2. \A c \in booking' : \E b \in booking : c.grant = b.grant /\ c.bytes = b.bytes
        BY <1>5, <1>6
    <2>3. S!Underway(h)' => S!Underway(h)
        <3>1. posting[S!Seeder(g)].grant = g
            BY <1>2
        <3>2. serve'[h].reported => serve[h].reported \/ h = g
            BY <1>4 DEF Settles
        <3>3. posting'[S!Seeder(h)].grant = h => posting[S!Seeder(h)].grant = h
            BY <1>1, <1>4, NoPostIs DEF Settles
        <3>4. (\E c \in booking' : c.grant = h) => \E b \in booking : b.grant = h
            BY <2>2
        <3> HIDE DEF g
        <3> QED
            BY <1>3, <1>9, <3>1, <3>2, <3>3, <3>4 DEF S!Underway
    <2>4. /\ serve'[h].seen = serve[h].seen /\ serve'[h].bytes = serve[h].bytes
          /\ serve'[h].streams = serve[h].streams
        BY <1>4 DEF Settles
    <2>5. receipts'[h] # <<>> => receipts'[h] = <<serve[h].bytes>>
        BY <1>3, <2>1 DEF Steady
    <2>6. \A c \in booking' : c.grant = h => \E b \in booking : b.grant = h /\ b.bytes = c.bytes
        BY <2>2
    <2>7. grant'[h].booked => grant[h].booked \/ \E b \in booking : b.grant = h
        BY <1>3
    <2> QED
        BY <2>1, <2>3, <2>4, <2>5, <2>6, <2>7, SteadyKeeps
<1> QED
    BY <1>7, <1>8, <1>10, <1>11, <1>12, <1>13 DEF SharingInv

----------------------------------------------------------------------------
(* The process *)

LEMMA GoneKeeps ==
    ASSUME SharingInv, NEW w \in Workers, S!Gone(w), stops' \in 0 .. MaxStops
    PROVE  SharingInv'
<1>1. /\ SharingTypes /\ RowsTold /\ Handled /\ Awaited /\ Claimed
      /\ \A h \in Grants : Known(h) /\ S!Seeder(h) \in Workers
      /\ \A v \in Workers : InHand(v) /\ due[v] \in SUBSET Grants
      /\ \A c \in booking : c \in Bookings /\ c.grant \in Grants
    BY SharingIs
<1>2. /\ agent' = [agent EXCEPT ![w] = "down"]
      /\ due' = [due EXCEPT ![w] = {}] /\ posting' = [posting EXCEPT ![w] = S!NoPost]
      /\ serve' = [g \in Grants |-> IF S!Seeder(g) = w THEN S!Unseen ELSE serve[g]]
      /\ late' = [g \in Grants |-> late[g] \/ (S!Seeder(g) = w /\ serve[g].seen)]
      /\ booking' = {[b EXCEPT !.awaited = @ /\ S!Seeder(b.grant) # w] : b \in booking}
      /\ UNCHANGED <<S!hashVars, grant, receipts>>
    BY DEF S!Gone
<1>3. /\ agent' \in [Workers -> {"up", "stopping", "last", "down"}]
      /\ due' \in [Workers -> SUBSET Grants] /\ posting' \in [Workers -> Posts]
      /\ due'[w] = {} /\ posting'[w] = S!NoPost
      /\ \A v \in Workers : v # w => due'[v] = due[v] /\ posting'[v] = posting[v]
    BY <1>1, <1>2, NoPostIs DEF SharingTypes
<1>4. S!Unseen \in Uses /\ S!Unseen.seen = FALSE /\ S!Unseen.reported = FALSE
      /\ S!Unseen.attempts = 0 /\ S!Unseen.admitted = 0 /\ S!Unseen.streams = 0
    BY SharingAssumption DEF SharingAssumption, S!Unseen, Uses
<1>5. /\ serve' \in [Grants -> Uses] /\ late' \in [Grants -> BOOLEAN]
      /\ \A h \in Grants : /\ S!Seeder(h) = w => serve'[h] = S!Unseen
                           /\ S!Seeder(h) # w => serve'[h] = serve[h]
                           /\ late'[h] <=> late[h] \/ (S!Seeder(h) = w /\ serve[h].seen)
    <2>1. serve' \in [Grants -> Uses]
        BY <1>1, <1>2, <1>4 DEF SharingTypes
    <2>2. \A h \in Grants : /\ S!Seeder(h) = w => serve'[h] = S!Unseen
                            /\ S!Seeder(h) # w => serve'[h] = serve[h]
        BY <1>2
    <2>3. late' \in [Grants -> BOOLEAN]
          /\ \A h \in Grants : late'[h] <=> late[h] \/ (S!Seeder(h) = w /\ serve[h].seen)
        BY <1>2
    <2> QED
        BY <2>1, <2>2, <2>3
<1>6. \A h \in Grants : S!Seeder(h)' = S!Seeder(h)
    BY <1>2 DEF S!Seeder
<1>7. \A c \in booking' : \E b \in booking : LetGo(c, b, S!Seeder(b.grant) # w)
    BY <1>2 DEF LetGo
<1>8. ASSUME NEW c \in booking', NEW b \in booking, LetGo(c, b, S!Seeder(b.grant) # w)
      PROVE  /\ c \in Bookings /\ c.grant = b.grant /\ c.bytes = b.bytes /\ c.at = b.at
             /\ c.awaited <=> b.awaited /\ S!Seeder(b.grant) # w
    BY <1>1, <1>8, LetGoIs
<1>9. RowsTold' /\ UNCHANGED <<row, telling, told>>
    BY <1>1, <1>2, RowsKept DEF S!hashVars
<1>10. SharingTypes'
    <2>1. booking' \subseteq Bookings
        BY <1>7, <1>8
    <2> QED
        BY <1>1, <1>2, <1>3, <1>5, <1>9, <2>1 DEF SharingTypes
<1>11. ASSUME NEW h \in Grants PROVE Known(h)'
    <2>1. Known(h) /\ UNCHANGED grant
        BY <1>1, <1>2
    <2>2. 0 < MaxReportAttempts /\ 0 + 0 <= MaxStreams
        BY SharingAssumption DEF SharingAssumption
    <2>3. CASE S!Seeder(h) = w
        BY <1>4, <1>5, <2>1, <2>2, <2>3 DEF Known, S!Fresh, S!Unseen
    <2>4. CASE S!Seeder(h) # w
        BY <1>5, <2>1, <2>4 DEF Known, S!Fresh, S!Unseen
    <2> QED
        BY <2>3, <2>4
<1>12. ASSUME NEW v \in Workers PROVE InHand(v)'
    <2>1. CASE v = w
        BY <1>3, <2>1, NoPostIs DEF InHand, S!NoPost
    <2>2. CASE v # w
        <3>1. InHand(v) /\ due'[v] = due[v] /\ posting'[v] = posting[v] /\ due[v] \in SUBSET Grants
            BY <1>1, <1>3, <2>2
        <3>2. \A h \in Grants : S!Seeder(h) = v => serve'[h] = serve[h]
            BY <1>5, <2>2
        <3> QED
            BY <1>6, <3>1, <3>2 DEF InHand, S!NoPost
    <2> QED
        BY <2>1, <2>2
<1>13. Handled'
    <2> SUFFICES ASSUME NEW c \in booking'
                 PROVE  /\ grant'[c.grant].state # "none"
                        /\ c.awaited => posting'[S!Seeder(c.grant)'].grant = c.grant
                        /\ c.at # "check" => c.bytes <= Units
        BY DEF Handled
    <2>1. PICK b \in booking : LetGo(c, b, S!Seeder(b.grant) # w)
        BY <1>7
    <2>2. /\ c.grant = b.grant /\ c.bytes = b.bytes /\ c.at = b.at
          /\ c.awaited => b.awaited /\ S!Seeder(b.grant) # w
        BY <1>8, <2>1
    <2>3. b.grant \in Grants /\ S!Seeder(b.grant) \in Workers
        BY <1>1
    <2> QED
        BY <1>1, <1>2, <1>3, <1>6, <2>2, <2>3 DEF Handled
<1>14. Awaited' /\ Claimed'
    <2>1. ASSUME NEW c \in booking', NEW d \in booking', c.grant = d.grant,
                 (c.awaited /\ d.awaited) \/ (Claims(c) /\ Claims(d))
          PROVE  c = d
        <3>1. PICK b \in booking : LetGo(c, b, S!Seeder(b.grant) # w)
            BY <1>7
        <3>2. PICK e \in booking : LetGo(d, e, S!Seeder(e.grant) # w)
            BY <1>7
        <3>3. b.grant = e.grant /\ ((b.awaited /\ e.awaited) \/ (Claims(b) /\ Claims(e)))
            BY <1>8, <2>1, <3>1, <3>2 DEF Claims
        <3>4. b = e
            BY <1>1, <3>3 DEF Awaited, Claimed
        <3> QED
            BY <3>1, <3>2, <3>4 DEF LetGo
    <2>2. ASSUME NEW c \in booking', Claims(c) PROVE grant'[c.grant].booked /\ receipts'[c.grant] = <<>>
        <3>1. PICK b \in booking : LetGo(c, b, S!Seeder(b.grant) # w)
            BY <1>7
        <3>2. c.grant = b.grant /\ Claims(b)
            BY <1>8, <2>2, <3>1 DEF Claims
        <3> QED
            BY <1>1, <1>2, <3>2 DEF Claimed
    <2>3. \A h \in Grants : receipts'[h] # <<>> => grant'[h].booked
        BY <1>1, <1>2 DEF Claimed
    <2> QED
        BY <2>1, <2>2, <2>3 DEF Awaited, Claimed, Claims
<1>15. ASSUME NEW h \in Grants, ~late'[h] PROVE Steady(h)'
    <2>1. ~late[h] /\ (S!Seeder(h) # w \/ ~serve[h].seen)
        BY <1>5, <1>15
    <2>2. Steady(h) /\ Known(h)
        BY <1>1, <2>1, SharingIs
    <2>3. serve'[h] = serve[h]
        BY <1>5, <2>1, <2>2 DEF Known
    <2>4. \A c \in booking' : \E b \in booking : c.grant = b.grant /\ c.bytes = b.bytes
        BY <1>7, <1>8
    <2>5. S!Underway(h)' => S!Underway(h)
        <3>1. S!Seeder(h) \in Workers
            BY <1>1
        <3>2. h \in due'[S!Seeder(h)] => h \in due[S!Seeder(h)]
            BY <1>3, <3>1
        <3>3. posting'[S!Seeder(h)].grant = h => posting[S!Seeder(h)].grant = h
            BY <1>3, <3>1, NoPostIs
        <3>4. (\E c \in booking' : c.grant = h) => \E b \in booking : b.grant = h
            BY <2>4
        <3> QED
            BY <1>2, <1>6, <2>3, <3>2, <3>3, <3>4 DEF S!Underway
    <2>6. receipts'[h] # <<>> => receipts'[h] = <<serve[h].bytes>>
        BY <1>2, <2>2 DEF Steady
    <2>7. \A c \in booking' : c.grant = h => \E b \in booking : b.grant = h /\ b.bytes = c.bytes
        BY <2>4
    <2>8. grant'[h].booked => grant[h].booked \/ \E b \in booking : b.grant = h
        BY <1>2
    <2> QED
        BY <2>2, <2>3, <2>5, <2>6, <2>7, <2>8, SteadyKeeps
<1> QED
    BY <1>9, <1>10, <1>11, <1>12, <1>13, <1>14, <1>15 DEF SharingInv

\* What the process does besides does not reach the books.
LEMMA RestKeeps ==
    ASSUME SharingInv, agent' \in [Workers -> {"up", "stopping", "last", "down"}],
           stops' \in 0 .. MaxStops,
           UNCHANGED <<S!hashVars, grant, serve, due, posting, late, booking, receipts>>
    PROVE  SharingInv'
<1>1. /\ SharingTypes /\ RowsTold /\ Handled /\ Awaited /\ Claimed
    BY SharingIs
<1>2. RowsTold' /\ UNCHANGED <<row, telling, told>>
    BY <1>1, RowsKept DEF S!hashVars
<1>3. SharingTypes'
    BY <1>1, <1>2 DEF SharingTypes
<1>4. \A h \in Grants : Known(h)' /\ (~late'[h] => Steady(h)')
    BY SharingIs DEF Known, Steady, S!Underway, S!Seeder, S!Fresh, S!Unseen
<1>5. \A v \in Workers : InHand(v)'
    BY SharingIs DEF InHand, S!Seeder, S!NoPost
<1>6. Handled' /\ Awaited' /\ Claimed'
    BY <1>1 DEF Handled, Awaited, Claimed, Claims, S!Seeder
<1> QED
    BY <1>2, <1>3, <1>4, <1>5, <1>6 DEF SharingInv

LEMMA ProcessKeeps ==
    ASSUME SharingInv, NEW w \in Workers, S!Stop(w) \/ S!Exit(w) \/ S!Crash(w) \/ S!Boot(w)
    PROVE  SharingInv'
<1>1. stops \in 0 .. MaxStops /\ agent \in [Workers -> {"up", "stopping", "last", "down"}]
    BY SharingIs DEF SharingTypes
<1>2. CASE S!Stop(w)
    <2>1. stops' \in 0 .. MaxStops
        BY <1>1, <1>2, SharingAssumption DEF S!Stop, SharingAssumption
    <2>2. /\ agent' = [agent EXCEPT ![w] = "stopping"]
          /\ UNCHANGED <<S!hashVars, grant, serve, due, posting, late, booking, receipts>>
        BY <1>2 DEF S!Stop
    <2>3. agent' \in [Workers -> {"up", "stopping", "last", "down"}]
        BY <1>1, <2>2
    <2> QED
        BY <2>1, <2>2, <2>3, RestKeeps
<1>3. CASE S!Exit(w)
    BY <1>1, <1>3, GoneKeeps DEF S!Exit
<1>4. CASE S!Crash(w)
    <2>1. stops' \in 0 .. MaxStops
        BY <1>1, <1>4, SharingAssumption DEF S!Crash, SharingAssumption
    <2> QED
        BY <1>4, <2>1, GoneKeeps DEF S!Crash
<1>5. CASE S!Boot(w)
    <2>1. /\ agent' = [agent EXCEPT ![w] = "up"] /\ stops' = stops
          /\ UNCHANGED <<S!hashVars, grant, serve, due, posting, late, booking, receipts>>
        BY <1>5 DEF S!Boot
    <2>2. agent' \in [Workers -> {"up", "stopping", "last", "down"}]
        BY <1>1, <2>1
    <2> QED
        BY <1>1, <2>1, <2>2, RestKeeps
<1> QED
    BY <1>2, <1>3, <1>4, <1>5

LEMMA SharingInit == ASSUME S!Init PROVE SharingInv
<1> USE SharingAssumption DEF SharingAssumption, S!Init
<1>1. S!Fresh \in GrantRows /\ S!Fresh.state = "none" /\ S!Fresh.booked = FALSE
    BY DEF S!Fresh, GrantRows
<1>2. S!Unseen \in Uses /\ S!Unseen.seen = FALSE /\ S!Unseen.reported = FALSE
      /\ S!Unseen.attempts = 0 /\ S!Unseen.admitted = 0 /\ S!Unseen.streams = 0
    BY DEF S!Unseen, Uses
<1>3. SharingTypes
    <2>1. grant \in [Grants -> GrantRows] /\ serve \in [Grants -> Uses]
        BY <1>1, <1>2
    <2>2. posting \in [Workers -> Posts] /\ due \in [Workers -> SUBSET Grants]
        BY NoPostIs
    <2>3. receipts \in [Grants -> Receipts]
        <3>1. <<>> \in Receipts
            BY DEF Receipts
        <3> QED
            BY <3>1
    <2>4. row \in S!Rows /\ told \subseteq Workers /\ telling \subseteq Workers
        BY DEF S!Rows
    <2>5. /\ agent \in [Workers -> {"up", "stopping", "last", "down"}]
          /\ booking \subseteq Bookings /\ late \in [Grants -> BOOLEAN] /\ stops \in 0 .. MaxStops
        OBVIOUS
    <2> QED
        BY <2>1, <2>2, <2>3, <2>4, <2>5 DEF SharingTypes
<1>4. RowsTold
    BY DEF RowsTold
<1>5. ASSUME NEW g \in Grants PROVE Known(g) /\ Steady(g)
    <2>1. grant[g] = S!Fresh /\ serve[g] = S!Unseen /\ receipts[g] = <<>> /\ booking = {}
        OBVIOUS
    <2> QED
        BY <1>1, <1>2, <2>1 DEF Known, Steady
<1>6. \A w \in Workers : InHand(w)
    BY NoPostIs DEF InHand
<1>7. Handled /\ Awaited /\ Claimed
    BY DEF Handled, Awaited, Claimed
<1> QED
    BY <1>3, <1>4, <1>5, <1>6, <1>7 DEF SharingInv

LEMMA SharingNext == ASSUME SharingInv, [S!Next]_S!vars PROVE SharingInv'
<1>1. CASE S!Hash
    BY <1>1, HashKeeps
<1>2. CASE S!Booking
    BY <1>2, BookingKeeps
<1>3. ASSUME NEW g \in Grants, S!Grant(g) \/ S!Expire(g) \/ S!Forget(g) PROVE SharingInv'
    BY <1>3, GrantKeeps
<1>4. ASSUME NEW g \in Grants, S!Admit(g) \/ S!Serving(g) \/ S!Send(g) \/ S!Quieten(g)
      PROVE  SharingInv'
    BY <1>4, ServingKeeps DEF S!Serving
<1>5. ASSUME NEW w \in Workers, S!Reporting(w) PROVE SharingInv'
    BY <1>5, CollectKeeps, PostedKeeps, TimeOutKeeps DEF S!Reporting
<1>6. ASSUME NEW w \in Workers, S!Stop(w) \/ S!Exit(w) \/ S!Crash(w) \/ S!Boot(w) PROVE SharingInv'
    BY <1>6, ProcessKeeps
<1>7. CASE UNCHANGED S!vars
    <2>1. /\ UNCHANGED <<S!hashVars, grant, serve, due, posting, late, booking, receipts>>
          /\ UNCHANGED <<agent, stops>>
        BY <1>7 DEF S!vars, S!seederVars
    <2>2. stops \in 0 .. MaxStops /\ agent \in [Workers -> {"up", "stopping", "last", "down"}]
        BY SharingIs DEF SharingTypes
    <2> QED
        BY <2>1, <2>2, RestKeeps
<1> QED
    BY <1>1, <1>2, <1>3, <1>4, <1>5, <1>6, <1>7 DEF S!Next

\* For any workers, grants, sizes and numbers of requests, attempts and ends of
\* processes: a grant is paid for once, for all that was served under it unless
\* a stream began with its report under way or the seeder's process ended, and
\* two different files told of under one name are in conflict.
THEOREM SharingSoundHolds == S!Spec => []SharingSound
<1>1. S!Init => SharingInv
    BY SharingInit
<1>2. SharingInv /\ [S!Next]_S!vars => SharingInv'
    BY SharingNext
<1>3. SharingInv => SharingSound
    <2> SUFFICES ASSUME SharingInv
                 PROVE  S!TypeOK /\ S!OneReceipt /\ S!BookedInFull /\ S!ConflictNoticed
        BY DEF SharingSound, S!SharingSound
    <2>1. SharingTypes /\ RowsTold /\ \A g \in Grants : ~late[g] => Steady(g)
        BY SharingIs
    <2>2. ASSUME NEW g \in Grants
          PROVE  /\ Len(receipts[g]) <= 1 /\ S!ToSet(receipts[g]) \subseteq 1 .. Units
        <3>1. receipts[g] \in Receipts
            BY SharingIs
        <3>2. CASE receipts[g] = <<>>
            BY <3>2 DEF S!ToSet
        <3>3. CASE \E n \in 1 .. Units : receipts[g] = <<n>>
            BY <3>3 DEF S!ToSet
        <3> QED
            BY <3>1, <3>2, <3>3 DEF Receipts
    <2>3. S!TypeOK
        BY <2>1, <2>2 DEF SharingTypes, S!TypeOK, GrantRows, Uses, Posts, Bookings
    <2>4. S!OneReceipt
        BY <2>2 DEF S!OneReceipt
    <2>5. S!BookedInFull
        BY <2>1 DEF Steady, S!BookedInFull
    <2>6. S!ConflictNoticed
        BY <2>1 DEF RowsTold, S!ConflictNoticed
    <2> QED
        BY <2>3, <2>4, <2>5, <2>6
<1> QED
    BY <1>1, <1>2, <1>3, PTL DEF S!Spec
=============================================================================
