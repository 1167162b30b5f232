----------------------------- MODULE HubProofs -----------------------------
(***************************************************************************)
(* Theorems about Hub, for any jobs, workers, sockets, keys and limits.    *)
(***************************************************************************)
EXTENDS Hub, Sums

\* An authenticated socket carries the id of a worker.
Attached == \A s \in Socks : sock[s].phase = "ready" => sock[s].worker # None

----------------------------------------------------------------------------
(* Rows of the jobs table *)

JobTable == [Jobs -> JobRow]

\* What the handlers write into a row keeps it well formed.
LEMMA RowType ==
    ASSUME NEW r \in JobRow, NEW st \in Statuses
    PROVE  /\ [r EXCEPT !.status = st] \in JobRow
           /\ \A o \in Workers \cup {None} :
                /\ [r EXCEPT !.status = st, !.owner = o] \in JobRow
                /\ [r EXCEPT !.status = st, !.started = o] \in JobRow
                /\ [r EXCEPT !.started = o, !.retried = TRUE] \in JobRow
           /\ \A o, l \in Workers \cup {None} :
                /\ [r EXCEPT !.status = st, !.owner = o, !.started = l] \in JobRow
                /\ [r EXCEPT !.status = st, !.owner = o, !.last = l] \in JobRow
                /\ [r EXCEPT !.status = st, !.last = l, !.owner = o] \in JobRow
BY DEF JobRow

LEMMA AttemptType ==
    ASSUME NEW r \in JobRow, NEW w \in Workers
    PROVE  [r EXCEPT !.attempts[w] = @ + 1, !.slipped = @ \ {w}] \in JobRow
<1>1. r.slipped \ {w} \in SUBSET Workers
  BY DEF JobRow
<1>2. [r.attempts EXCEPT ![w] = @ + 1] \in [Workers -> Nat]
  BY DEF JobRow
<1> QED
  BY <1>1, <1>2 DEF JobRow

LEMMA StatusesType == Owned \cup Terminal \cup {"queued"} \subseteq Statuses
BY DEF Statuses

LEMMA RequeuedType ==
    ASSUME NEW r \in JobRow
    PROVE  Requeued(r) \in JobRow
<1>1. r.owner \in Workers \cup {None} /\ "queued" \in Statuses
  BY DEF JobRow, Statuses
<1> QED
  BY <1>1, RowType DEF Requeued

\* The three passes of a tick, requeue, sweep and claim, keep the table well formed.
LEMMA RequeueType ==
    ASSUME job \in JobTable, NEW W
    PROVE  RequeueJobsFor(W) \in JobTable
BY RequeuedType DEF JobTable, RequeueJobsFor

LEMMA SweepType ==
    ASSUME NEW jt \in JobTable, NEW reached
    PROVE  SweepHopeless(jt, reached) \in JobTable
<1>1. ASSUME NEW j \in Jobs
      PROVE  [jt[j] EXCEPT !.status = "failed"] \in JobRow
  BY RowType DEF JobTable, Statuses, Terminal
<1> QED
  BY <1>1 DEF SweepHopeless, JobTable

LEMMA ClaimedType ==
    ASSUME NEW jt \in JobTable, NEW m
    PROVE  Claimed(jt, m) \in JobTable
<1>1. ASSUME NEW j \in Jobs, NEW w \in Workers
      PROVE  [jt[j] EXCEPT !.status = "assigned", !.owner = w,
                           !.slipped = @ \cup Slipping(j, jt[j], m)] \in JobRow
  <2>1. Slipping(j, jt[j], m) \subseteq Workers
    BY DEF Slipping
  <2>2. jt[j] \in JobRow /\ "assigned" \in Statuses
    BY DEF JobTable, Statuses, Owned
  <2> QED
    BY <2>1, <2>2 DEF JobRow
<1>2. ASSUME NEW j \in Jobs, \E w \in Workers : <<j, w>> \in m
      PROVE  (CHOOSE w \in Workers : <<j, w>> \in m) \in Workers
  BY <1>2
<1> QED
  BY <1>1, <1>2 DEF Claimed, JobTable

----------------------------------------------------------------------------
(* Sockets *)

\* What the handlers write into an attachment keeps it well formed, and leaves
\* who is attached alone.
LEMMA SocketType ==
    ASSUME NEW r \in Socket
    PROVE  /\ [r EXCEPT !.phase = "handshake"] \in Socket
           /\ \A st \in States : \A n \in Nat : [r EXCEPT !.state = st, !.beats = n] \in Socket
           /\ \A st \in States : \A b \in BOOLEAN :
                [r EXCEPT !.state = st, !.hello = TRUE, !.newer = {}, !.crossed = b] \in Socket
           /\ \A N \in SUBSET Socks : [r EXCEPT !.newer = N] \in Socket
<1>1. [r EXCEPT !.phase = "handshake"] \in Socket
  BY DEF Socket
<1>2. ASSUME NEW st \in States, NEW n \in Nat
      PROVE  [r EXCEPT !.state = st, !.beats = n] \in Socket
  BY DEF Socket
<1>3. ASSUME NEW st \in States, NEW b \in BOOLEAN
      PROVE  [r EXCEPT !.state = st, !.hello = TRUE, !.newer = {}, !.crossed = b] \in Socket
  BY DEF Socket
<1>4. ASSUME NEW N \in SUBSET Socks
      PROVE  [r EXCEPT !.newer = N] \in Socket
  BY DEF Socket
<1> QED
  BY <1>1, <1>2, <1>3, <1>4

LEMMA NoSocketType ==
    /\ NoSocket \in Socket
    /\ \A w \in Workers : [NoSocket EXCEPT !.phase = "ready", !.worker = w] \in Socket
<1>1. 0 \in 0 .. OrphanBeats - 1
  BY ConstantsAssumption
<1> QED
  BY <1>1 DEF NoSocket, Socket, States

LEMMA TellingType ==
    ASSUME NEW r \in Socket, NEW j \in Jobs
    PROVE  /\ Telling(r, j) \in Socket
           /\ Telling(r, j).phase = r.phase /\ Telling(r, j).worker = r.worker
<1>1. [r EXCEPT !.told = @ \cup {j}] \in Socket
  BY DEF Socket
<1>2. /\ [r EXCEPT !.told = @ \cup {j}].phase = r.phase
      /\ [r EXCEPT !.told = @ \cup {j}].worker = r.worker
  BY DEF Socket
<1> QED
  BY <1>1, <1>2 DEF Telling

LEMMA ForgetfulType ==
    ASSUME NEW r \in Socket
    PROVE  /\ Forgetful(r) \in Socket
           /\ Forgetful(r).phase = r.phase /\ Forgetful(r).worker = r.worker
BY DEF Forgetful, Socket

LEMMA DispatchedType ==
    ASSUME NEW r \in Socket
    PROVE  /\ Dispatched(r) \in Socket
           /\ Dispatched(r).phase = r.phase /\ Dispatched(r).worker = r.worker
<1>1. 0 \in 0 .. OrphanBeats - 1
  BY ConstantsAssumption
<1> QED
  BY <1>1 DEF Dispatched, Socket, States

LEMMA HeardType ==
    ASSUME NEW r \in Socket, NEW idle \in BOOLEAN, NEW last \in BOOLEAN
    PROVE  /\ Heard(r, idle, last) \in Socket
           /\ Heard(r, idle, last).phase = r.phase /\ Heard(r, idle, last).worker = r.worker
           /\ Heard(r, idle, last).told = r.told
<1> DEFINE n == IF ~idle \/ last THEN 0
                ELSE IF r.quiet + 1 < OrphanBeats THEN r.quiet + 1 ELSE r.quiet
           b == r.crossed /\ idle /\ ~last
<1>1. n \in 0 .. OrphanBeats - 1
  BY ConstantsAssumption DEF Socket
<1>2. Heard(r, idle, last) = [r EXCEPT !.quiet = n, !.crossed = b]
  BY DEF Heard
<1>3. b \in BOOLEAN
  OBVIOUS
<1> HIDE DEF n, b
<1> QED
  BY <1>1, <1>2, <1>3 DEF Socket

LEMMA WithoutType ==
    ASSUME sock \in [Socks -> Socket], NEW gone
    PROVE  /\ Without(gone) \in [Socks -> Socket]
           /\ Attached => \A s \in Socks :
                 Without(gone)[s].phase = "ready" => Without(gone)[s].worker # None
<1>1. ASSUME NEW s \in Socks
      PROVE  [sock[s] EXCEPT !.newer = @ \ gone] \in Socket
  <2>1. sock[s].newer \ gone \in SUBSET Socks
    BY DEF Socket
  <2> QED
    BY <2>1, SocketType
<1>2. ASSUME NEW s \in Socks
      PROVE  /\ [sock[s] EXCEPT !.newer = @ \ gone].phase = sock[s].phase
             /\ [sock[s] EXCEPT !.newer = @ \ gone].worker = sock[s].worker
  BY DEF Socket
<1>3. NoSocket.phase # "ready"
  BY DEF NoSocket
<1> QED
  BY <1>1, <1>2, <1>3, NoSocketType DEF Without, Attached

----------------------------------------------------------------------------
(* Type correctness *)

LEMMA InitType == Init => TypeOK /\ Attached
<1> SUFFICES ASSUME Init PROVE TypeOK /\ Attached
  OBVIOUS
<1>1. job \in [Jobs -> JobRow]
  <2>1. NewRow \in JobRow
    BY DEF NewRow, JobRow, Statuses
  <2> QED
    BY <2>1 DEF Init
<1>2. failures \in [Workers -> [Keys -> 0 .. UnsuitableThreshold]]
  <2>1. 0 \in 0 .. UnsuitableThreshold
    BY ConstantsAssumption
  <2> QED
    BY <2>1 DEF Init
<1>3. ledger \in [Jobs -> [Workers -> [Kinds -> Nat]]]
  BY DEF Init
<1>4. silence \in [Workers -> 0 .. 2]
  BY DEF Init
<1>5. sock \in [Socks -> Socket]
  BY NoSocketType DEF Init
<1>6. Attached
  BY DEF Init, Attached, NoSocket
<1> QED
  BY <1>1, <1>2, <1>3, <1>4, <1>5, <1>6 DEF Init, TypeOK

LEMMA AdminType == TypeOK /\ Attached /\ Admin => TypeOK' /\ Attached'
<1> SUFFICES ASSUME TypeOK, Attached, Admin PROVE TypeOK' /\ Attached'
  OBVIOUS
<1> USE DEF TypeOK
<1>a. {"queued", "cancelled"} \subseteq Statuses
  BY DEF Statuses, Terminal
<1>b. \A j \in Jobs : job[j] \in JobRow
  OBVIOUS
<1>1. ASSUME NEW j \in Jobs, CreateJob(j) PROVE TypeOK' /\ Attached'
  <2>1. [job[j] EXCEPT !.status = "queued"] \in JobRow
    BY <1>a, <1>b, RowType
  <2>2. job' = [job EXCEPT ![j] = [job[j] EXCEPT !.status = "queued"]]
    BY <1>1 DEF CreateJob
  <2>3. alarm' \in BOOLEAN
    BY <1>1 DEF CreateJob, WakeHub
  <2> QED
    BY <1>1, <2>1, <2>2, <2>3 DEF CreateJob, Attached
<1>2. ASSUME NEW j \in Jobs, CancelJob(j) PROVE TypeOK' /\ Attached'
  <2>1. job' \in [Jobs -> JobRow]
    <3> DEFINE last == IF job[j].owner = None THEN job[j].last ELSE job[j].owner
    <3>1. last \in Workers \cup {None}
      BY <1>b DEF JobRow
    <3>2. [job[j] EXCEPT !.status = "cancelled", !.owner = None, !.last = last] \in JobRow
      BY <1>a, <1>b, <3>1, RowType
    <3>3. job' = [job EXCEPT ![j] =
                   [job[j] EXCEPT !.status = "cancelled", !.owner = None, !.last = last]]
      BY <1>2 DEF CancelJob
    <3> QED
      BY <3>2, <3>3
  <2>2. ledger' \in [Jobs -> [Workers -> [Kinds -> Nat]]]
    <3>1. CASE job[j].status = "running" /\ job[j].started # None /\ job[j].owner # None
      <4>1. job[j].owner \in Workers
        BY <3>1 DEF JobRow
      <4> QED
        BY <1>2, <3>1, <4>1 DEF CancelJob, Mint, Kinds
    <3> QED
      BY <1>2, <3>1 DEF CancelJob
  <2>3. sock' \in [Socks -> Socket] /\ Attached'
    <3>1. CASE sock' = sock
      BY <3>1 DEF Attached
    <3>2. ASSUME NEW s \in Socks, sock' = [sock EXCEPT ![s] = Telling(sock[s], j)]
          PROVE  sock' \in [Socks -> Socket] /\ Attached'
      BY <3>2, TellingType DEF Attached
    <3> QED
      BY <1>2, <3>1, <3>2 DEF CancelJob, Candidates
  <2> QED
    BY <1>2, <2>1, <2>2, <2>3 DEF CancelJob
<1>3. ASSUME NEW j \in Jobs, RetryJob(j) PROVE TypeOK' /\ Attached'
  <2>1. [job[j] EXCEPT !.status = "queued", !.owner = None, !.started = None] \in JobRow
    BY <1>a, <1>b, RowType
  <2>2. job' = [job EXCEPT ![j] =
                  [job[j] EXCEPT !.status = "queued", !.owner = None, !.started = None]]
    BY <1>3 DEF RetryJob
  <2>3. alarm' \in BOOLEAN
    BY <1>3 DEF RetryJob, WakeHub
  <2> QED
    BY <1>3, <2>1, <2>2, <2>3 DEF RetryJob, Attached
<1>4. ASSUME NEW w \in Workers, DisableWorker(w) PROVE TypeOK' /\ Attached'
  BY <1>4 DEF DisableWorker, Attached
<1>5. ASSUME NEW w \in Workers, DeleteWorker(w) PROVE TypeOK' /\ Attached'
  <2>1. sock' \in [Socks -> Socket] /\ Attached'
    <3>1. CASE sock' = sock
      BY <3>1 DEF Attached
    <3>2. ASSUME NEW s \in Socks, sock' = Without({s})
          PROVE  sock' \in [Socks -> Socket] /\ Attached'
      <4>1. Attached'
        BY <3>2, WithoutType DEF Attached
      <4> QED
        BY <3>2, <4>1, WithoutType
    <3>3. ASSUME NEW s \in Socks, sock' = [sock EXCEPT ![s] = Forgetful(sock[s])]
          PROVE  sock' \in [Socks -> Socket] /\ Attached'
      BY <3>3, ForgetfulType DEF Attached
    <3> QED
      BY <1>5, <3>1, <3>2, <3>3 DEF DeleteWorker, Candidates
  <2> QED
    BY <1>5, <2>1 DEF DeleteWorker
<1>6. ASSUME NEW w \in Workers, NEW ks, ClearUnsuitable(w, ks) PROVE TypeOK' /\ Attached'
  <2>1. 0 \in 0 .. UnsuitableThreshold
    BY ConstantsAssumption
  <2> QED
    BY <1>6, <2>1 DEF ClearUnsuitable, Attached
<1> QED
  BY <1>1, <1>2, <1>3, <1>4, <1>5, <1>6 DEF Admin

LEMMA ConnectionType == TypeOK /\ Attached /\ Connection => TypeOK' /\ Attached'
<1> SUFFICES ASSUME TypeOK, Attached, Connection PROVE TypeOK' /\ Attached'
  OBVIOUS
<1> USE DEF TypeOK
<1>a. ASSUME sock' \in [Socks -> Socket], Attached', silence' \in [Workers -> 0 .. 2],
             alarm' \in BOOLEAN,
             UNCHANGED <<job, reruns, failures, aged, ledger, disabled, deleted>>
      PROVE  TypeOK' /\ Attached'
  BY <1>a
<1>1. ASSUME NEW s \in Socks, Connect(s) PROVE TypeOK' /\ Attached'
  <2>1. [sock[s] EXCEPT !.phase = "handshake"] \in Socket
    BY SocketType
  <2>2. sock' = [sock EXCEPT ![s] = [sock[s] EXCEPT !.phase = "handshake"]]
    BY <1>1 DEF Connect
  <2>3. [sock[s] EXCEPT !.phase = "handshake"].phase # "ready"
    BY DEF Socket
  <2>4. Attached'
    BY <2>2, <2>3 DEF Attached
  <2> QED
    BY <1>1, <2>1, <2>2, <2>4 DEF Connect
<1>2. ASSUME NEW s \in Socks, Disconnect(s) PROVE TypeOK' /\ Attached'
  <2>1. Attached'
    BY <1>2, WithoutType DEF Disconnect, Attached
  <2> QED
    BY <1>2, <2>1, WithoutType DEF Disconnect
<1>3. ASSUME NEW s \in Socks, NEW w \in Workers, NEW gone \in SUBSET Socks,
             Authenticate(s, w, gone)
      PROVE TypeOK' /\ Attached'
  <2> DEFINE fresh == [NoSocket EXCEPT !.phase = "ready", !.worker = w]
  <2>1. fresh \in Socket /\ fresh.worker # None
    BY NoSocketType, ConstantsAssumption DEF NoSocket
  <2>2. \A t \in Socks : /\ Forgetful(Without(gone)[t]) \in Socket
                         /\ Forgetful(Without(gone)[t]).phase = Without(gone)[t].phase
                         /\ Forgetful(Without(gone)[t]).worker = Without(gone)[t].worker
    BY WithoutType, ForgetfulType
  <2>3. sock' = [t \in Socks |-> IF t = s THEN fresh
                                ELSE IF Ready(t, w) THEN Forgetful(Without(gone)[t])
                                ELSE sock[t]]
    BY <1>3 DEF Authenticate
  <2> HIDE DEF fresh
  <2>4. sock' \in [Socks -> Socket]
    BY <2>1, <2>2, <2>3
  <2>5. Attached'
    BY <2>1, <2>2, <2>3, WithoutType DEF Attached
  <2> QED
    BY <1>3, <2>4, <2>5 DEF Authenticate
<1>4. ASSUME NEW s \in Socks, NEW state \in States \ {"dispatched"}, Hello(s, state)
      PROVE TypeOK' /\ Attached'
  <2> DEFINE crossed == sock[s].crossed \/ sock[s].state = "dispatched"
             hello == [sock[s] EXCEPT !.state = state, !.hello = TRUE, !.newer = {},
                                      !.crossed = crossed]
             older(t) == [sock[t] EXCEPT !.newer = @ \cup {s}]
  <2>1. hello \in Socket /\ hello.worker = sock[s].worker
    <3>1. sock[s] \in Socket
      OBVIOUS
    <3>2. hello \in Socket
      <4>1. crossed \in BOOLEAN
        BY <3>1 DEF Socket
      <4> HIDE DEF crossed
      <4> QED
        BY <3>1, <4>1, SocketType
    <3>3. hello.worker = sock[s].worker
      BY <3>1 DEF Socket
    <3> QED
      BY <3>2, <3>3
  <2>2. \A t \in Socks : older(t) \in Socket /\ older(t).worker = sock[t].worker
                         /\ older(t).phase = sock[t].phase
    <3> TAKE t \in Socks
    <3>1. sock[t] \in Socket /\ sock[t].newer \cup {s} \in SUBSET Socks
      BY DEF Socket
    <3> QED
      BY <3>1, SocketType DEF Socket
  <2>3. sock' = [t \in Socks |-> IF t = s THEN hello
                                ELSE IF Ready(t, sock[s].worker) /\ sock[t].hello THEN older(t)
                                ELSE sock[t]]
    BY <1>4 DEF Hello
  <2>4. sock[s].worker # None
    BY <1>4 DEF Hello, Attached
  <2> HIDE DEF hello, older
  <2>5. sock' \in [Socks -> Socket]
    BY <2>1, <2>2, <2>3
  <2>6. Attached'
    BY <2>1, <2>2, <2>3, <2>4 DEF Attached
  <2>7. silence' \in [Workers -> 0 .. 2]
    <3>1. 0 \in 0 .. 2
      OBVIOUS
    <3> QED
      BY <1>4, <3>1 DEF Hello
  <2> QED
    BY <1>4, <2>5, <2>6, <2>7 DEF Hello
<1>5. CASE Hibernate
  <2>1. Attached'
    BY <1>5, ForgetfulType DEF Hibernate, Attached
  <2> QED
    BY <1>5, <2>1, ForgetfulType DEF Hibernate
<1> QED
  BY <1>1, <1>2, <1>3, <1>4, <1>5 DEF Connection

LEMMA HeartbeatType ==
    ASSUME TypeOK, Attached, NEW s \in Socks, NEW state \in States \ {"dispatched"},
           NEW j \in Jobs \cup {None}, NEW fetching \in BOOLEAN,
           Heartbeat(s, state, j, fetching)
    PROVE  TypeOK' /\ Attached'
<1> USE DEF TypeOK
<1> DEFINE w == sock[s].worker
           idle == state = "idle" /\ j = None
           beats == IF idle THEN IdleBeats(sock[s]) ELSE 0
           orphaned == beats >= OrphanBeats
           n == IF orphaned THEN 0 ELSE beats
           heard == Heard(sock[s], idle, orphaned)
           beaten == [heard EXCEPT !.state = state, !.beats = n]
<1>1. w \in Workers
  <2>1. sock[s] \in Socket
    OBVIOUS
  <2> QED
    BY <2>1 DEF Heartbeat, Attached, Socket
<1>2. beaten \in Socket /\ beaten.phase = sock[s].phase /\ beaten.worker = sock[s].worker
  <2>1. sock[s] \in Socket
    OBVIOUS
  <2>2. n \in Nat
    BY <2>1 DEF IdleBeats, Socket
  <2>3. heard \in Socket /\ heard.phase = sock[s].phase /\ heard.worker = sock[s].worker
    <3>1. idle \in BOOLEAN /\ orphaned \in BOOLEAN
      BY <2>1 DEF IdleBeats, Socket
    <3> HIDE DEF idle, orphaned
    <3> QED
      BY <2>1, <3>1, HeardType
  <2> HIDE DEF n, heard
  <2>4. beaten \in Socket
    BY <2>2, <2>3, SocketType
  <2> QED
    BY <2>3, <2>4 DEF Socket
<1>3. sock' \in [Socks -> Socket] /\ Attached'
  <2> DEFINE told == IF j # None /\ job[j].owner # w THEN Telling(beaten, j) ELSE beaten
  <2>1. sock' = [sock EXCEPT ![s] = told]
    BY DEF Heartbeat
  <2>2. j # None => j \in Jobs
    OBVIOUS
  <2> HIDE DEF beaten
  <2>3. told \in Socket /\ told.phase = sock[s].phase /\ told.worker = sock[s].worker
    BY <1>2, <2>2, TellingType
  <2> HIDE DEF told
  <2> QED
    BY <2>1, <2>3 DEF Attached
<1>4. job' \in [Jobs -> JobRow]
  <2>1. RequeueJobsFor({w}) \in [Jobs -> JobRow]
    BY RequeueType DEF JobTable
  <2>2. CASE job' = [job EXCEPT ![j] = [job[j] EXCEPT !.status = "running", !.started = w]]
             /\ j # None
    <3>1. [job[j] EXCEPT !.status = "running", !.started = w] \in JobRow
      BY <1>1, <2>2, RowType DEF Statuses, Owned
    <3> QED
      BY <2>2, <3>1
  <2>3. CASE job' \in {job, RequeueJobsFor({w})}
    BY <2>1, <2>3
  <2> QED
    BY <2>2, <2>3 DEF Heartbeat
<1>5. silence' \in [Workers -> 0 .. 2]
  <2>1. 0 \in 0 .. 2
    OBVIOUS
  <2> QED
    BY <2>1 DEF Heartbeat
<1> QED
  BY <1>3, <1>4, <1>5 DEF Heartbeat

\* A receipt and a row of the failures table: what the two reports write there.
LEMMA ReportType ==
    ASSUME TypeOK, NEW j \in Jobs, NEW w \in Workers, NEW kind \in Kinds
    PROVE  /\ Mint(j, w, kind) \in [Jobs -> [Workers -> [Kinds -> Nat]]]
           /\ TaskKey[j] # None =>
                /\ [failures EXCEPT ![w][TaskKey[j]] = 0]
                      \in [Workers -> [Keys -> 0 .. UnsuitableThreshold]]
                /\ [failures EXCEPT ![w][TaskKey[j]] = CountedUp(@)]
                      \in [Workers -> [Keys -> 0 .. UnsuitableThreshold]]
<1>1. Mint(j, w, kind) \in [Jobs -> [Workers -> [Kinds -> Nat]]]
  BY DEF Mint, TypeOK
<1>2. 0 \in 0 .. UnsuitableThreshold
  BY ConstantsAssumption
<1>3. \A n \in 0 .. UnsuitableThreshold : CountedUp(n) \in 0 .. UnsuitableThreshold
  BY ConstantsAssumption DEF CountedUp
<1>4. TaskKey[j] # None => TaskKey[j] \in Keys
  BY ConstantsAssumption
<1>5. ASSUME TaskKey[j] # None
      PROVE  [failures EXCEPT ![w][TaskKey[j]] = CountedUp(@)]
                \in [Workers -> [Keys -> 0 .. UnsuitableThreshold]]
  BY <1>3, <1>4, <1>5 DEF TypeOK
<1>6. ASSUME TaskKey[j] # None
      PROVE  [failures EXCEPT ![w][TaskKey[j]] = 0]
                \in [Workers -> [Keys -> 0 .. UnsuitableThreshold]]
  BY <1>2, <1>4, <1>6 DEF TypeOK
<1> QED
  BY <1>1, <1>5, <1>6

LEMMA MessageType == TypeOK /\ Attached /\ Message => TypeOK' /\ Attached'
<1> SUFFICES ASSUME TypeOK, Attached, Message PROVE TypeOK' /\ Attached'
  OBVIOUS
<1> USE DEF TypeOK
<1>1. ASSUME NEW s \in Socks, sock[s].phase = "ready" PROVE sock[s].worker \in Workers
  BY <1>1 DEF Attached, Socket
<1>2. ASSUME NEW s \in Socks, NEW j \in Jobs, JobDone(s, j) PROVE TypeOK' /\ Attached'
  <2> DEFINE w == sock[s].worker
             row == [job[j] EXCEPT !.status = "done", !.owner = w]
  <2>1. w \in Workers
    BY <1>1, <1>2 DEF JobDone
  <2>2. row \in JobRow
    BY <2>1, RowType DEF Statuses, Terminal
  <2>3. job' = [job EXCEPT ![j] = row]
    BY <1>2 DEF JobDone
  <2>4. failures' \in [Workers -> [Keys -> 0 .. UnsuitableThreshold]]
    <3>1. "completed" \in Kinds
      BY DEF Kinds
    <3> QED
      BY <1>2, <2>1, <3>1, ReportType DEF JobDone
  <2>5. ledger' \in [Jobs -> [Workers -> [Kinds -> Nat]]]
    <3>1. {"completed", "model_fetch"} \subseteq Kinds
      BY DEF Kinds
    <3> QED
      BY <1>2, <2>1, <3>1, ReportType DEF JobDone
  <2> HIDE DEF row
  <2>6. job' \in [Jobs -> JobRow]
    BY <2>2, <2>3
  <2> QED
    BY <1>2, <2>4, <2>5, <2>6 DEF JobDone, Attached
<1>3. ASSUME NEW s \in Socks, NEW j \in Jobs, JobFailed(s, j) PROVE TypeOK' /\ Attached'
  <2> DEFINE w == sock[s].worker
             r == [job[j] EXCEPT !.attempts[w] = @ + 1, !.slipped = @ \ {w}]
  <2>1. w \in Workers
    BY <1>1, <1>3 DEF JobFailed
  <2>2. r \in JobRow
    BY <2>1, AttemptType
  <2> DEFINE over == [r EXCEPT !.status = "failed"]
             again == [Requeued(r) EXCEPT !.started = None, !.retried = TRUE]
  <2>3. job' = [job EXCEPT ![j] = over] \/ job' = [job EXCEPT ![j] = again]
    BY <1>3 DEF JobFailed
  <2> HIDE DEF r
  <2>4. over \in JobRow
    BY <2>2, RowType DEF Statuses, Terminal
  <2>5. again \in JobRow
    BY <2>2, RequeuedType, RowType DEF Statuses
  <2>6. failures' \in [Workers -> [Keys -> 0 .. UnsuitableThreshold]]
    <3>1. "failed" \in Kinds
      BY DEF Kinds
    <3> QED
      BY <1>3, <2>1, <3>1, ReportType DEF JobFailed
  <2>7. ledger' \in [Jobs -> [Workers -> [Kinds -> Nat]]]
    <3>1. {"failed", "failed_foreign"} \subseteq Kinds
      BY DEF Kinds
    <3> QED
      BY <1>3, <2>1, <3>1, ReportType DEF JobFailed
  <2> HIDE DEF over, again
  <2>8. job' \in [Jobs -> JobRow]
    BY <2>3, <2>4, <2>5
  <2> QED
    BY <1>3, <2>6, <2>7, <2>8 DEF JobFailed, Attached
<1>4. ASSUME NEW s \in Socks, NEW j \in Jobs, Refuse(s, j) PROVE TypeOK' /\ Attached'
  <2>1. sock' = [sock EXCEPT ![s] = Telling(sock[s], j)]
    BY <1>4 DEF Refuse
  <2>2. sock' \in [Socks -> Socket] /\ Attached'
    BY <2>1, TellingType DEF Attached
  <2> QED
    BY <1>4, <2>2 DEF Refuse
<1>5. ASSUME NEW s \in Socks, NEW state \in States \ {"dispatched"},
             NEW j \in Jobs \cup {None}, NEW fetching \in BOOLEAN,
             Heartbeat(s, state, j, fetching)
      PROVE TypeOK' /\ Attached'
  BY <1>5, HeartbeatType
<1> HIDE DEF TypeOK
<1> QED
  BY <1>2, <1>3, <1>4, <1>5 DEF Message, JobDoneRefused, JobFailedRefused

\* A round of the alarm, whole or faltering.
Rounds == Dispatch \/ Falter

LEMMA RoundTaken ==
    ASSUME Rounds
    PROVE  \E m \in SUBSET (Jobs \X Workers), sent \in SUBSET Socks,
              stale \in SUBSET StaleWorkers, reached \in SUBSET Jobs, excluding \in BOOLEAN :
                 /\ Round(m, sent, stale, reached, excluding)
                 /\ alarm' \in {Rearmed, TRUE}
<1>1. CASE Dispatch
  <2>1. PICK m \in SUBSET (Jobs \X Workers), sent \in SUBSET Socks : Tick(m, sent)
    BY <1>1 DEF Dispatch
  <2>2. StaleWorkers \in SUBSET StaleWorkers /\ Jobs \in SUBSET Jobs /\ TRUE \in BOOLEAN
    OBVIOUS
  <2>3. Round(m, sent, StaleWorkers, Jobs, TRUE) /\ alarm' \in {Rearmed, TRUE}
    BY <2>1 DEF Tick
  <2> QED
    BY <2>2, <2>3
<1>2. CASE Falter
  <2>1. {j \in Jobs : job[j].retried} \subseteq Jobs
    OBVIOUS
  <2> QED
    BY <1>2, <2>1, Zenon DEF Falter, TickFaltering
<1> QED
  BY <1>1, <1>2 DEF Rounds

LEMMA DispatchType == TypeOK /\ Attached /\ Rounds => TypeOK' /\ Attached'
<1> SUFFICES ASSUME TypeOK, Attached, Rounds
             PROVE  TypeOK' /\ Attached'
  OBVIOUS
<1> PICK m \in SUBSET (Jobs \X Workers), sent \in SUBSET Socks,
         stale \in SUBSET StaleWorkers, reached \in SUBSET Jobs, excluding \in BOOLEAN :
           /\ Round(m, sent, stale, reached, excluding)
           /\ alarm' \in {Rearmed, TRUE}
  BY RoundTaken
<1> USE DEF TypeOK
<1>1. job' \in [Jobs -> JobRow]
  BY RequeueType, SweepType, ClaimedType DEF Round, JobTable
<1>2. sock' \in [Socks -> Socket] /\ Attached'
  BY DispatchedType DEF Round, Attached
<1>3. alarm' \in BOOLEAN
  BY DEF Rearmed
<1> QED
  BY <1>1, <1>2, <1>3 DEF Round

LEMMA TimeType == TypeOK /\ Attached /\ Time => TypeOK' /\ Attached'
<1> SUFFICES ASSUME TypeOK, Attached, Time PROVE TypeOK' /\ Attached'
  OBVIOUS
<1> USE DEF TypeOK
<1>1. ASSUME NEW w \in Workers, FallSilent(w) PROVE TypeOK' /\ Attached'
  <2>1. silence[w] + 1 \in 0 .. 2
    BY <1>1 DEF FallSilent
  <2>2. silence' \in [Workers -> 0 .. 2]
    BY <1>1, <2>1 DEF FallSilent
  <2> QED
    BY <1>1, <2>2 DEF FallSilent, Attached
<1>2. ASSUME NEW w \in Workers, NEW k \in Keys, AgeRecord(w, k) PROVE TypeOK' /\ Attached'
  BY <1>2 DEF AgeRecord, Attached
<1> QED
  BY <1>1, <1>2 DEF Time

LEMMA NextType == TypeOK /\ Attached /\ [Next]_vars => TypeOK' /\ Attached'
<1> SUFFICES ASSUME TypeOK, Attached, [Next]_vars PROVE TypeOK' /\ Attached'
  OBVIOUS
<1>1. CASE UNCHANGED vars
  BY <1>1 DEF vars, TypeOK, Attached
<1> QED
  BY <1>1, AdminType, ConnectionType, MessageType, DispatchType, TimeType DEF Next, Rounds

\* Whatever users, administrators, agents and time do, every table and every
\* attachment stays well formed, and every authenticated socket belongs to a
\* worker.
THEOREM TypeCorrect == Spec => [](TypeOK /\ Attached)
BY InitType, NextType, PTL DEF Spec

----------------------------------------------------------------------------
(* What a step does to one job: from row r to row q *)

RowSubmitted(r, q) == r.status = "absent" /\ q = [r EXCEPT !.status = "queued"]

RowCancelled(r, q) ==
    /\ Cancellable(r)
    /\ q = [r EXCEPT !.status = "cancelled", !.owner = None,
                     !.last = IF r.owner = None THEN @ ELSE r.owner]

RowRetried(r, q) ==
    /\ r.status = "failed"
    /\ q = [r EXCEPT !.status = "queued", !.owner = None, !.started = None]

RowStarted(r, q) ==
    /\ r.status = "assigned"
    /\ q = [r EXCEPT !.status = "running", !.started = r.owner]

RowDone(r, q, w) ==
    /\ Held(r, w) \/ Readoptable(r, w)
    /\ q = [r EXCEPT !.status = "done", !.owner = w]

Counted(r, w) == [r EXCEPT !.attempts[w] = @ + 1, !.slipped = @ \ {w}]

RowFailed(r, q, w) ==
    /\ Held(r, w)
    /\ \/ q = [Counted(r, w) EXCEPT !.status = "failed"]
       \/ q = [Requeued(Counted(r, w)) EXCEPT !.started = None, !.retried = TRUE]

RowRecalled(r, q) == r.status \in Owned /\ q = Requeued(r)

RowSwept(r, q) == r.status = "queued" /\ q = [r EXCEPT !.status = "failed"]

\* To a worker that may still be tried, or as a slip of a round without exclusions.
RowHanded(r, q, w) ==
    /\ r.status = "queued"
    /\ \E S \in SUBSET Workers :
         /\ r.attempts[w] < MaxFailuresPerWorker \/ w \in S
         /\ q = [r EXCEPT !.status = "assigned", !.owner = w, !.slipped = @ \cup S]

\* The tick's three passes over one row.
RowRound(r, q) ==
    \E a, b \in JobRow :
        /\ a = r \/ RowRecalled(r, a)
        /\ b = a \/ RowSwept(a, b)
        /\ q = b \/ \E w \in Workers : RowHanded(b, q, w)

\* A step as seen by one job and its receipts.
RowStep(j) ==
    LET r == job[j]
        q == job'[j]
        same == ledger'[j] = ledger[j]
        minted(w, kind) == ledger'[j] = [ledger[j] EXCEPT ![w][kind] = @ + 1]
    IN
    \/ q = r /\ same
    \/ (RowSubmitted(r, q) \/ RowRetried(r, q) \/ RowStarted(r, q) \/ RowRound(r, q)) /\ same
    \/ /\ RowCancelled(r, q)
       /\ IF r.status = "running" /\ r.started # None /\ r.owner # None
          THEN minted(r.owner, "cancelled") ELSE same
    \/ \E w \in Workers :
          \/ /\ RowDone(r, q, w)
             /\ minted(w, IF j \in ModelFetch THEN "model_fetch" ELSE "completed")
          \/ /\ RowFailed(r, q, w)
             /\ minted(w, "failed") \/ minted(w, "failed_foreign")

LEMMA RoundStep ==
    ASSUME TypeOK, Rounds, NEW j \in Jobs
    PROVE  RowRound(job[j], job'[j]) /\ ledger'[j] = ledger[j]
<1> PICK m \in SUBSET (Jobs \X Workers), sent \in SUBSET Socks,
         stale \in SUBSET StaleWorkers, reached \in SUBSET Jobs, excluding \in BOOLEAN :
           /\ Round(m, sent, stale, reached, excluding)
           /\ alarm' \in {Rearmed, TRUE}
  BY RoundTaken
<1> DEFINE recalled == RequeueJobsFor(stale)
           swept == SweepHopeless(recalled, reached)
           w == CHOOSE v \in Workers : <<j, v>> \in m
<1>1. recalled \in JobTable /\ swept \in JobTable /\ job \in JobTable
  BY RequeueType, SweepType DEF TypeOK, JobTable
<1>2. recalled[j] = job[j] \/ RowRecalled(job[j], recalled[j])
  BY DEF RequeueJobsFor, RowRecalled
<1>3. swept[j] = recalled[j] \/ RowSwept(recalled[j], swept[j])
  BY DEF SweepHopeless, RowSwept
<1>4. job' = Claimed(swept, m) /\ Matching(swept, m, excluding) /\ ledger' = ledger
  BY DEF Round
<1> HIDE DEF recalled, swept
<1>5. CASE \E v \in Workers : <<j, v>> \in m
  <2> DEFINE S == Slipping(j, swept[j], m)
  <2>1. w \in Workers /\ <<j, w>> \in m
    BY <1>5
  <2>2. Dispatchable(swept, j, w, excluding)
    BY <1>4, <2>1 DEF Matching
  <2>3. job'[j] = [swept[j] EXCEPT !.status = "assigned", !.owner = w, !.slipped = @ \cup S]
    BY <1>4, <1>5 DEF Claimed
  <2>4. S \in SUBSET Workers
    BY DEF Slipping
  <2>5. swept[j].attempts[w] < MaxFailuresPerWorker \/ w \in S
    <3>1. swept[j].attempts[w] \in Nat
      BY <1>1, <2>1 DEF JobTable, JobRow
    <3> QED
      BY <2>1, <3>1, ConstantsAssumption DEF Slipping
  <2> HIDE DEF S, w
  <2>6. RowHanded(swept[j], job'[j], w)
    BY <2>2, <2>3, <2>4, <2>5 DEF Dispatchable, RowHanded
  <2> QED
    BY <1>1, <1>2, <1>3, <1>4, <2>1, <2>6 DEF RowRound, JobTable
<1>6. CASE ~\E v \in Workers : <<j, v>> \in m
  <2>1. job'[j] = swept[j]
    BY <1>4, <1>6 DEF Claimed
  <2> QED
    BY <1>1, <1>2, <1>3, <1>4, <2>1 DEF RowRound, JobTable
<1> QED
  BY <1>5, <1>6

LEMMA EveryStep ==
    ASSUME TypeOK, Attached, [Next]_vars, NEW j \in Jobs
    PROVE  RowStep(j)
<1> USE DEF TypeOK
<1>a. ASSUME UNCHANGED <<job, ledger>> PROVE RowStep(j)
  BY <1>a DEF RowStep
<1>b. ASSUME NEW i \in Jobs, i # j, NEW row, job' = [job EXCEPT ![i] = row],
             ledger'[j] = ledger[j]
      PROVE  RowStep(j)
  BY <1>b DEF RowStep
<1>c. ASSUME NEW i \in Jobs, i # j, NEW w, NEW kind PROVE Mint(i, w, kind)[j] = ledger[j]
  BY <1>c DEF Mint
<1>d. ASSUME NEW w, NEW kind
      PROVE  Mint(j, w, kind)[j] = [ledger[j] EXCEPT ![w][kind] = @ + 1]
  BY DEF Mint
<1>1. ASSUME NEW i \in Jobs, CreateJob(i) PROVE RowStep(j)
  BY <1>1 DEF CreateJob, RowStep, RowSubmitted
<1>2. ASSUME NEW i \in Jobs, CancelJob(i) PROVE RowStep(j)
  <2>1. CASE i # j
    <3>1. ledger'[j] = ledger[j]
      BY <1>2, <1>c, <2>1 DEF CancelJob
    <3>2. job' = [job EXCEPT ![i] = job'[i]]
      BY <1>2 DEF CancelJob
    <3> QED
      BY <1>b, <2>1, <3>1, <3>2
  <2>2. CASE i = j
    <3>1. RowCancelled(job[j], job'[j])
      BY <1>2, <2>2 DEF CancelJob, RowCancelled
    <3>2. IF job[j].status = "running" /\ job[j].started # None /\ job[j].owner # None
          THEN ledger'[j] = [ledger[j] EXCEPT ![job[j].owner]["cancelled"] = @ + 1]
          ELSE ledger'[j] = ledger[j]
      BY <1>2, <1>d, <2>2 DEF CancelJob
    <3> QED
      BY <3>1, <3>2 DEF RowStep
  <2> QED
    BY <2>1, <2>2
<1>3. ASSUME NEW i \in Jobs, RetryJob(i) PROVE RowStep(j)
  BY <1>3 DEF RetryJob, RowStep, RowRetried
<1>4. ASSUME NEW s \in Socks, NEW state, NEW i \in Jobs \cup {None}, NEW fetching,
             Heartbeat(s, state, i, fetching)
      PROVE RowStep(j)
  <2>1. ledger' = ledger
    BY <1>4 DEF Heartbeat
  <2>2. CASE job' = RequeueJobsFor({sock[s].worker})
    <3>1. job'[j] = job[j] \/ RowRecalled(job[j], job'[j])
      BY <2>2 DEF RequeueJobsFor, RowRecalled
    <3>2. job'[j] \in JobRow /\ job[j] \in JobRow
      BY <2>2, RequeueType DEF JobTable
    <3> QED
      BY <2>1, <3>1, <3>2 DEF RowStep, RowRound
  <2>3. CASE /\ i # None /\ job[i].owner = sock[s].worker /\ job[i].status = "assigned"
             /\ job' = [job EXCEPT ![i].status = "running", ![i].started = sock[s].worker]
    BY <2>1, <2>3 DEF RowStep, RowStarted
  <2>4. CASE job' = job
    BY <1>a, <2>1, <2>4
  <2> QED
    BY <1>4, <2>2, <2>3, <2>4 DEF Heartbeat
<1>5. ASSUME NEW s \in Socks, NEW i \in Jobs, JobDone(s, i) PROVE RowStep(j)
  <2>1. sock[s].worker \in Workers
    BY <1>5 DEF JobDone, Attached, Socket
  <2>2. CASE i # j
    <3>1. ledger'[j] = ledger[j]
      BY <1>5, <1>c, <2>2 DEF JobDone
    <3>2. job' = [job EXCEPT ![i] = job'[i]]
      BY <1>5 DEF JobDone
    <3> QED
      BY <1>b, <2>2, <3>1, <3>2
  <2>3. CASE i = j
    <3>1. RowDone(job[j], job'[j], sock[s].worker)
      BY <1>5, <2>3 DEF JobDone, RowDone
    <3> DEFINE kind == IF j \in ModelFetch THEN "model_fetch" ELSE "completed"
    <3>2. ledger'[j] = [ledger[j] EXCEPT ![sock[s].worker][kind] = @ + 1]
      BY <1>5, <1>d, <2>3 DEF JobDone
    <3> QED
      BY <2>1, <3>1, <3>2 DEF RowStep
  <2> QED
    BY <2>2, <2>3
<1>6. ASSUME NEW s \in Socks, NEW i \in Jobs, JobFailed(s, i) PROVE RowStep(j)
  <2>1. sock[s].worker \in Workers
    BY <1>6 DEF JobFailed, Attached, Socket
  <2>2. CASE i # j
    <3>1. ledger'[j] = ledger[j]
      BY <1>6, <1>c, <2>2 DEF JobFailed
    <3>2. job' = [job EXCEPT ![i] = job'[i]]
      BY <1>6 DEF JobFailed
    <3> QED
      BY <1>b, <2>2, <3>1, <3>2
  <2>3. CASE i = j
    <3>1. RowFailed(job[j], job'[j], sock[s].worker)
      BY <1>6, <2>3 DEF JobFailed, RowFailed, Counted
    <3>2. \/ ledger'[j] = [ledger[j] EXCEPT ![sock[s].worker]["failed"] = @ + 1]
          \/ ledger'[j] = [ledger[j] EXCEPT ![sock[s].worker]["failed_foreign"] = @ + 1]
      BY <1>6, <1>d, <2>3 DEF JobFailed
    <3> QED
      BY <2>1, <3>1, <3>2 DEF RowStep
  <2> QED
    BY <2>2, <2>3
<1>7. CASE Rounds
  BY <1>7, RoundStep DEF RowStep
<1>8. CASE UNCHANGED vars
  BY <1>8, <1>a DEF vars
<1>9. CASE Connection \/ Time
  BY <1>9, <1>a DEF Connection, Time, Connect, Disconnect, Authenticate, Hello, Hibernate,
                    FallSilent, AgeRecord
<1>10. ASSUME NEW w \in Workers, NEW ks,
              DisableWorker(w) \/ DeleteWorker(w) \/ ClearUnsuitable(w, ks)
       PROVE RowStep(j)
  BY <1>10, <1>a DEF DisableWorker, DeleteWorker, ClearUnsuitable
<1>11. ASSUME NEW s \in Socks, NEW i \in Jobs, Refuse(s, i) PROVE RowStep(j)
  BY <1>11, <1>a DEF Refuse
<1>12. CASE Admin
  BY <1>12, <1>1, <1>2, <1>3, <1>10 DEF Admin
<1>13. CASE Message
  BY <1>13, <1>4, <1>5, <1>6, <1>11 DEF Message, JobDoneRefused, JobFailedRefused
<1> QED
  BY <1>7, <1>8, <1>9, <1>12, <1>13 DEF Next, Rounds

----------------------------------------------------------------------------
(* Ownership *)

Owns(r) ==
    /\ r.status \in Owned => r.owner # None
    /\ r.status \in {"absent", "queued", "cancelled"} => r.owner = None
    /\ r.status = "running" => r.started = r.owner

LEMMA RequeuedFields ==
    ASSUME NEW r \in JobRow
    PROVE  /\ Requeued(r).status = "queued" /\ Requeued(r).owner = None
           /\ Requeued(r).last = r.owner /\ Requeued(r).started = r.started
           /\ Requeued(r).attempts = r.attempts /\ Requeued(r).slipped = r.slipped
BY DEF Requeued, JobRow

LEMMA CountedFields ==
    ASSUME NEW r \in JobRow, NEW w \in Workers
    PROVE  /\ Counted(r, w) \in JobRow
           /\ Counted(r, w).status = r.status /\ Counted(r, w).owner = r.owner
           /\ Counted(r, w).last = r.last /\ Counted(r, w).started = r.started
           /\ Counted(r, w).attempts = [r.attempts EXCEPT ![w] = @ + 1]
           /\ Counted(r, w).slipped = r.slipped \ {w}
BY AttemptType DEF Counted, JobRow

\* After a failure the job is given up, in its worker's name, or queued with no
\* owner and no start.
LEMMA FailedFields ==
    ASSUME NEW r \in JobRow, NEW q \in JobRow, NEW w \in Workers, RowFailed(r, q, w)
    PROVE  /\ \A v \in Workers :
                q.attempts[v] = IF v = w THEN r.attempts[v] + 1 ELSE r.attempts[v]
           /\ \/ q.status = "failed" /\ q.owner = r.owner
              \/ q.status = "queued" /\ q.owner = None /\ q.started = None
<1> DEFINE c == Counted(r, w)
<1>1. c \in JobRow /\ c.owner = r.owner /\ c.attempts = [r.attempts EXCEPT ![w] = @ + 1]
  BY CountedFields
<1>2. Requeued(c) \in JobRow /\ Requeued(c).status = "queued" /\ Requeued(c).owner = None
      /\ Requeued(c).attempts = c.attempts
  BY <1>1, RequeuedType, RequeuedFields
<1> HIDE DEF c
<1>3. CASE q = [c EXCEPT !.status = "failed"]
  BY <1>1, <1>3 DEF JobRow
<1> DEFINE d == Requeued(c)
<1>4. CASE q = [d EXCEPT !.started = None, !.retried = TRUE]
  <2> HIDE DEF d
  <2> QED
    BY <1>1, <1>2, <1>4 DEF JobRow, d
<1> QED
  BY <1>3, <1>4 DEF RowFailed, c

LEMMA RecalledOwns ==
    ASSUME NEW r \in JobRow, NEW q \in JobRow, Owns(r), RowRecalled(r, q)
    PROVE  Owns(q)
BY RequeuedFields DEF RowRecalled, Owns, Owned

LEMMA RoundOwns ==
    ASSUME NEW r \in JobRow, NEW q \in JobRow, Owns(r), RowRound(r, q)
    PROVE  Owns(q)
<1>1. PICK a \in JobRow, b \in JobRow :
         /\ a = r \/ RowRecalled(r, a)
         /\ b = a \/ RowSwept(a, b)
         /\ q = b \/ \E w \in Workers : RowHanded(b, q, w)
  BY DEF RowRound
<1>2. Owns(a)
  BY <1>1, RecalledOwns
<1>3. Owns(b)
  BY <1>1, <1>2 DEF RowSwept, Owns, JobRow, Owned
<1>4. ASSUME NEW w \in Workers, RowHanded(b, q, w) PROVE Owns(q)
  BY <1>4, ConstantsAssumption DEF RowHanded, Owns, JobRow, Owned
<1> QED
  BY <1>1, <1>3, <1>4

LEMMA StepOwns ==
    ASSUME NEW j \in Jobs, job[j] \in JobRow, job'[j] \in JobRow, Owns(job[j]), RowStep(j)
    PROVE  Owns(job'[j])
<1> DEFINE r == job[j]
           q == job'[j]
<1>1. CASE RowSubmitted(r, q)
  BY <1>1 DEF RowSubmitted, Owns, JobRow, Owned
<1>2. CASE RowRetried(r, q)
  BY <1>2 DEF RowRetried, Owns, JobRow, Owned
<1>3. CASE RowStarted(r, q)
  BY <1>3 DEF RowStarted, Owns, JobRow, Owned
<1>4. CASE RowRound(r, q)
  BY <1>4, RoundOwns
<1>5. CASE RowCancelled(r, q)
  <2>1. q.status = "cancelled" /\ q.owner = None
    BY <1>5 DEF RowCancelled, JobRow
  <2> QED
    BY <2>1 DEF Owns, Owned
<1>6. ASSUME NEW w \in Workers, RowDone(r, q, w) PROVE Owns(q)
  <2>1. q.status = "done"
    BY <1>6 DEF RowDone, JobRow
  <2> QED
    BY <2>1 DEF Owns, Owned
<1>7. ASSUME NEW w \in Workers, RowFailed(r, q, w) PROVE Owns(q)
  BY <1>7, FailedFields DEF Owns, Owned
<1> QED
  BY <1>1, <1>2, <1>3, <1>4, <1>5, <1>6, <1>7 DEF RowStep

LEMMA OwnershipKept ==
    /\ Init => Ownership
    /\ TypeOK /\ Attached /\ TypeOK' /\ Ownership /\ [Next]_vars => Ownership'
<1>1. Init => Ownership
  <2> SUFFICES ASSUME Init, NEW j \in Jobs PROVE Owns(job[j])
    BY DEF Ownership, Owns
  <2> QED
    BY DEF Init, Owns, NewRow, Owned
<1>2. TypeOK /\ Attached /\ TypeOK' /\ Ownership /\ [Next]_vars => Ownership'
  <2> SUFFICES ASSUME TypeOK, Attached, TypeOK', Ownership, [Next]_vars, NEW j \in Jobs
               PROVE  Owns(job'[j])
    BY DEF Ownership, Owns
  <2>1. job[j] \in JobRow /\ job'[j] \in JobRow /\ Owns(job[j])
    BY DEF TypeOK, Ownership, Owns
  <2>2. RowStep(j)
    BY EveryStep
  <2> QED
    BY <2>1, <2>2, StepOwns
<1> QED
  BY <1>1, <1>2

\* In every state a job in the hands of the fleet has an owner, a waiting or
\* cancelled one has none, and a running job's start is its owner's.
THEOREM OwnershipHolds == Spec => []Ownership
BY OwnershipKept, TypeCorrect, PTL DEF Spec

----------------------------------------------------------------------------
(* Exclusion *)

\* The worker that holds, or finished, the job may still be tried, or slipped in.
MayTry(r, w) == r.attempts[w] < MaxFailuresPerWorker \/ w \in r.slipped

HolderTried(r) ==
    r.status \in Owned \cup {"done"} /\ r.owner # None => MayTry(r, r.owner)

\* So may the worker a started job was last taken from: it is the one whose late
\* job_done tryReadopt accepts.
LastTried(r) ==
    r.status \in {"absent", "queued"} /\ r.last # None /\ r.started # None => MayTry(r, r.last)

Tried(r) == HolderTried(r) /\ LastTried(r)

LEMMA RoundTried ==
    ASSUME NEW r \in JobRow, NEW q \in JobRow, Tried(r), RowRound(r, q)
    PROVE  Tried(q)
<1>1. PICK a \in JobRow, b \in JobRow :
         /\ a = r \/ RowRecalled(r, a)
         /\ b = a \/ RowSwept(a, b)
         /\ q = b \/ \E w \in Workers : RowHanded(b, q, w)
  BY DEF RowRound
<1>2. Tried(a)
  BY <1>1, RequeuedFields DEF RowRecalled, Tried, HolderTried, LastTried, MayTry, Owned
<1>3. Tried(b)
  <2>1. CASE RowSwept(a, b)
    <3>1. b.status = "failed"
      BY <2>1 DEF RowSwept, JobRow
    <3> QED
      BY <3>1 DEF Tried, HolderTried, LastTried, Owned
  <2> QED
    BY <1>1, <1>2, <2>1
<1>4. ASSUME NEW w \in Workers, RowHanded(b, q, w) PROVE Tried(q)
  <2>1. q.status = "assigned" /\ q.owner = w /\ q.attempts = b.attempts
    BY <1>4 DEF RowHanded, JobRow
  <2>2. MayTry(q, w)
    BY <1>4 DEF RowHanded, JobRow, MayTry
  <2> QED
    BY <2>1, <2>2 DEF Tried, HolderTried, LastTried
<1> QED
  BY <1>1, <1>3, <1>4

\* A re-adopted job goes back to a worker that may still be tried: without a
\* start it never failed the job, with one the strengthening applies.
LEMMA DoneTried ==
    ASSUME NEW r \in JobRow, NEW q \in JobRow, NEW w \in Workers, Tried(r), RowDone(r, q, w)
    PROVE  Tried(q)
<1>1. q.status = "done" /\ q.owner = w /\ q.attempts = r.attempts /\ q.slipped = r.slipped
  BY DEF RowDone, JobRow
<1>2. w # None
  BY ConstantsAssumption
<1>3. MayTry(r, w)
  <2>1. CASE Held(r, w)
    BY <1>2, <2>1 DEF Held, Tried, HolderTried
  <2>2. CASE Readoptable(r, w) /\ r.started # None
    BY <1>2, <2>2 DEF Readoptable, Tried, LastTried
  <2>3. CASE Readoptable(r, w) /\ r.started = None
    <3>1. r.attempts[w] \in Nat /\ ~(r.attempts[w] > 0)
      BY <2>3 DEF Readoptable, JobRow
    <3> QED
      BY <3>1, ConstantsAssumption DEF MayTry
  <2> QED
    BY <2>1, <2>2, <2>3 DEF RowDone
<1> QED
  BY <1>1, <1>3 DEF Tried, HolderTried, LastTried, MayTry

LEMMA StepTried ==
    ASSUME NEW j \in Jobs, job[j] \in JobRow, job'[j] \in JobRow, Tried(job[j]), RowStep(j)
    PROVE  Tried(job'[j])
<1> DEFINE r == job[j]
           q == job'[j]
<1> USE DEF Tried, HolderTried, LastTried, MayTry
<1>1. CASE RowSubmitted(r, q)
  BY <1>1 DEF RowSubmitted, JobRow, Owned
<1>2. CASE RowRetried(r, q)
  BY <1>2 DEF RowRetried, JobRow, Owned
<1>3. CASE RowStarted(r, q)
  BY <1>3 DEF RowStarted, JobRow, Owned
<1>4. CASE RowRound(r, q)
  BY <1>4, RoundTried
<1>5. CASE RowCancelled(r, q)
  <2>1. q.status = "cancelled"
    BY <1>5 DEF RowCancelled, JobRow
  <2> QED
    BY <2>1 DEF Owned
<1>6. ASSUME NEW w \in Workers, RowDone(r, q, w) PROVE Tried(q)
  BY <1>6, DoneTried
<1>7. ASSUME NEW w \in Workers, RowFailed(r, q, w) PROVE Tried(q)
  BY <1>7, FailedFields DEF Owned
<1> QED
  BY <1>1, <1>2, <1>3, <1>4, <1>5, <1>6, <1>7 DEF RowStep

AllTried == \A j \in Jobs : Tried(job[j])

LEMMA TriedKept ==
    /\ Init => AllTried
    /\ TypeOK /\ Attached /\ TypeOK' /\ AllTried /\ [Next]_vars => AllTried'
    /\ AllTried => ExcludedStaysOut
<1>1. Init => AllTried
  BY DEF Init, AllTried, Tried, HolderTried, LastTried, MayTry, NewRow, Owned
<1>2. TypeOK /\ Attached /\ TypeOK' /\ AllTried /\ [Next]_vars => AllTried'
  <2> SUFFICES ASSUME TypeOK, Attached, TypeOK', AllTried, [Next]_vars, NEW j \in Jobs
               PROVE  Tried(job'[j])
    BY DEF AllTried, Tried, HolderTried, LastTried, MayTry
  <2>1. job[j] \in JobRow /\ job'[j] \in JobRow /\ Tried(job[j])
    BY DEF TypeOK, AllTried
  <2>2. RowStep(j)
    BY EveryStep
  <2> QED
    BY <2>1, <2>2, StepTried
<1>3. AllTried => ExcludedStaysOut
  BY DEF ExcludedStaysOut, AllTried, Tried, HolderTried, MayTry
<1> QED
  BY <1>1, <1>2, <1>3

\* A worker that failed a job as often as it may never holds it again and never
\* finishes it, unless a round that could not read the exclusions gave it the job
\* and it has not failed it since.  ExcludedStaysOut alone is not inductive: a
\* job_done for a queued job is accepted on the word of last_worker_id and
\* started_at, so what those two columns say must be carried along (LastTried).
THEOREM ExclusionHolds == Spec => []ExcludedStaysOut
BY TriedKept, TypeCorrect, PTL DEF Spec

----------------------------------------------------------------------------
(* The ledger *)

\* A tick leaves a row alone, or moves it among queued, assigned and failed.
LEMMA RoundFields ==
    ASSUME NEW r \in JobRow, NEW q \in JobRow, RowRound(r, q)
    PROVE  /\ q.attempts = r.attempts
           /\ q # r => /\ r.status \in {"queued"} \cup Owned
                       /\ \/ q.status = "queued" /\ q.owner = None
                          \/ q.status = "failed" /\ q.owner \in {r.owner, None}
                          \/ q.status = "assigned" /\ q.owner \in Workers
<1>1. PICK a \in JobRow, b \in JobRow :
         /\ a = r \/ RowRecalled(r, a)
         /\ b = a \/ RowSwept(a, b)
         /\ q = b \/ \E w \in Workers : RowHanded(b, q, w)
  BY DEF RowRound
<1>2. a = r \/ (r.status \in Owned /\ a.status = "queued" /\ a.owner = None
               /\ a.attempts = r.attempts)
  BY <1>1, RequeuedFields DEF RowRecalled
<1>3. b = a \/ (a.status = "queued" /\ b.status = "failed" /\ b.owner = a.owner
               /\ b.attempts = a.attempts)
  BY <1>1 DEF RowSwept, JobRow
<1>4. q = b \/ (b.status = "queued" /\ q.status = "assigned" /\ q.owner \in Workers
               /\ q.attempts = b.attempts)
  <2>1. ASSUME NEW w \in Workers, RowHanded(b, q, w)
        PROVE  b.status = "queued" /\ q.status = "assigned" /\ q.owner = w
               /\ q.attempts = b.attempts
    BY <2>1 DEF RowHanded, JobRow
  <2> QED
    BY <1>1, <2>1
<1> QED
  BY <1>2, <1>3, <1>4 DEF Owned

\* The receipts l of job j, in row r, say of worker w what they should.
Agrees(j, r, l, w) ==
    LET finished == IF r.status = "done" /\ r.owner = w THEN 1 ELSE 0 IN
    /\ l[w]["completed"] = IF j \in ModelFetch THEN 0 ELSE finished
    /\ l[w]["model_fetch"] = IF j \in ModelFetch THEN finished ELSE 0
    /\ l[w]["failed"] + l[w]["failed_foreign"] = r.attempts[w]
    /\ l[w]["cancelled"] > 0 =>
          /\ l[w]["cancelled"] = 1
          /\ r.status = "cancelled" /\ r.last = w

LEMMA SameLedgerAgrees ==
    ASSUME NEW j \in Jobs, NEW r \in JobRow, NEW q \in JobRow,
           NEW l \in [Workers -> [Kinds -> Nat]], NEW w \in Workers, Agrees(j, r, l, w),
           r.status \notin {"done", "cancelled"}, q.status # "done",
           q.attempts = r.attempts
    PROVE  Agrees(j, q, l, w)
BY DEF Agrees, Kinds

LEMMA FailedAgrees ==
    ASSUME NEW j \in Jobs, NEW r \in JobRow, NEW q \in JobRow, NEW w \in Workers,
           NEW l \in [Workers -> [Kinds -> Nat]], NEW v \in Workers, Agrees(j, r, l, v),
           RowFailed(r, q, w), NEW kind \in {"failed", "failed_foreign"},
           NEW l2, l2 = [l EXCEPT ![w][kind] = @ + 1]
    PROVE  Agrees(j, q, l2, v)
<1>1. r.status \in Owned /\ q.status \in {"failed", "queued"}
  BY FailedFields DEF RowFailed, Held
<1>2. q.attempts[v] = IF v = w THEN r.attempts[v] + 1 ELSE r.attempts[v]
  BY FailedFields
<1>3. r.attempts \in [Workers -> Nat]
  BY DEF JobRow
<1> QED
  BY <1>1, <1>2, <1>3 DEF Agrees, Owned, Kinds

LEMMA StepAgrees ==
    ASSUME NEW j \in Jobs, job[j] \in JobRow, job'[j] \in JobRow,
           ledger[j] \in [Workers -> [Kinds -> Nat]], RowStep(j),
           NEW v \in Workers, Agrees(j, job[j], ledger[j], v)
    PROVE  Agrees(j, job'[j], ledger'[j], v)
<1> DEFINE r == job[j]
           q == job'[j]
<1>1. CASE RowSubmitted(r, q) /\ ledger'[j] = ledger[j]
  <2>1. r.status = "absent" /\ q.status = "queued" /\ q.attempts = r.attempts
    BY <1>1 DEF RowSubmitted, JobRow
  <2> QED
    BY <1>1, <2>1, SameLedgerAgrees
<1>2. CASE RowRetried(r, q) /\ ledger'[j] = ledger[j]
  <2>1. r.status = "failed" /\ q.status = "queued" /\ q.attempts = r.attempts
    BY <1>2 DEF RowRetried, JobRow
  <2> QED
    BY <1>2, <2>1, SameLedgerAgrees
<1>3. CASE RowStarted(r, q) /\ ledger'[j] = ledger[j]
  <2>1. r.status = "assigned" /\ q.status = "running" /\ q.attempts = r.attempts
    BY <1>3 DEF RowStarted, JobRow
  <2> QED
    BY <1>3, <2>1, SameLedgerAgrees
<1>4. CASE RowRound(r, q) /\ ledger'[j] = ledger[j]
  <2>1. CASE q = r
    BY <1>4, <2>1
  <2>2. CASE q # r
    BY <1>4, <2>2, RoundFields, SameLedgerAgrees DEF Owned
  <2> QED
    BY <2>1, <2>2
<1>5. CASE /\ RowCancelled(r, q)
           /\ IF r.status = "running" /\ r.started # None /\ r.owner # None
              THEN ledger'[j] = [ledger[j] EXCEPT ![r.owner]["cancelled"] = @ + 1]
              ELSE ledger'[j] = ledger[j]
  <2>1. /\ r.status \in {"queued"} \cup Owned
        /\ q.status = "cancelled" /\ q.attempts = r.attempts
        /\ r.owner # None => q.last = r.owner
    BY <1>5 DEF RowCancelled, Cancellable, JobRow
  <2>2. ledger[j][v]["cancelled"] = 0
    BY <2>1 DEF Agrees, Owned, Kinds
  <2>3. CASE ledger'[j] = ledger[j]
    BY <2>1, <2>3, SameLedgerAgrees DEF Owned
  <2>4. CASE /\ ledger'[j] = [ledger[j] EXCEPT ![r.owner]["cancelled"] = @ + 1]
             /\ r.owner # None
    BY <2>1, <2>2, <2>4 DEF Agrees, Owned, Kinds
  <2> QED
    BY <1>5, <2>3, <2>4
<1>6. ASSUME NEW w \in Workers, RowDone(r, q, w),
             ledger'[j] = [ledger[j] EXCEPT
                ![w][IF j \in ModelFetch THEN "model_fetch" ELSE "completed"] = @ + 1]
      PROVE  Agrees(j, q, ledger'[j], v)
  <2>1. r.status \in {"queued"} \cup Owned
    BY <1>6 DEF RowDone, Held, Readoptable
  <2>2. q.status = "done" /\ q.owner = w /\ q.attempts = r.attempts
    BY <1>6 DEF RowDone, JobRow
  <2> QED
    BY <1>6, <2>1, <2>2 DEF Agrees, Owned, Kinds
<1>7. ASSUME NEW w \in Workers, RowFailed(r, q, w), NEW kind \in {"failed", "failed_foreign"},
             ledger'[j] = [ledger[j] EXCEPT ![w][kind] = @ + 1]
      PROVE  Agrees(j, q, ledger'[j], v)
  BY <1>7, FailedAgrees
<1>8. CASE q = r /\ ledger'[j] = ledger[j]
  BY <1>8
<1> QED
  BY <1>1, <1>2, <1>3, <1>4, <1>5, <1>6, <1>7, <1>8 DEF RowStep

LEMMA LedgerKept ==
    /\ Init => LedgerAgrees
    /\ TypeOK /\ Attached /\ TypeOK' /\ LedgerAgrees /\ [Next]_vars => LedgerAgrees'
<1>1. Init => LedgerAgrees
  <2> SUFFICES ASSUME Init, NEW j \in Jobs, NEW w \in Workers
               PROVE  Agrees(j, job[j], ledger[j], w)
    BY DEF LedgerAgrees, Agrees
  <2> QED
    BY DEF Init, Agrees, NewRow, Kinds
<1>2. TypeOK /\ Attached /\ TypeOK' /\ LedgerAgrees /\ [Next]_vars => LedgerAgrees'
  <2> SUFFICES ASSUME TypeOK, Attached, TypeOK', LedgerAgrees, [Next]_vars,
                      NEW j \in Jobs, NEW w \in Workers
               PROVE  Agrees(j, job'[j], ledger'[j], w)
    BY DEF LedgerAgrees, Agrees
  <2>1. /\ job[j] \in JobRow /\ job'[j] \in JobRow
        /\ ledger[j] \in [Workers -> [Kinds -> Nat]]
    BY DEF TypeOK
  <2>2. Agrees(j, job[j], ledger[j], w)
    BY DEF LedgerAgrees, Agrees
  <2>3. RowStep(j)
    BY EveryStep
  <2> QED
    BY <2>1, <2>2, <2>3, StepAgrees
<1> QED
  BY <1>1, <1>2

\* In every state a worker was paid once for each job it finished and for no
\* other, and every counted failure left exactly one failed receipt.
THEOREM LedgerHolds == Spec => []LedgerAgrees
BY LedgerKept, TypeCorrect, PTL DEF Spec

----------------------------------------------------------------------------
(* Sums over the workers: what SumFunction returns, from its definition.   *)

LEMMA SumIs ==
    ASSUME NEW W, IsFiniteSet(W), NEW f \in [W -> Nat]
    PROVE  SumFunction(f) = Totals(f, W)[W]
<1> DEFINE it == CHOOSE g : Folds(g, f, W)
<1>1. W \in SUBSET W
    OBVIOUS
<1>2. \E g : Folds(g, f, W)
    BY <1>1, FoldExists
<1>3. Folds(it, f, W)
    BY <1>2
<1>4. SumFunction(f) = it[W]
    BY DEF SumFunction, SumFunctionOnSet, FoldFunctionOnSet, MapThenFoldSet, Folds, Pick, Rest
<1> HIDE DEF it
<1>5. it[W] = Totals(f, W)[W]
    BY <1>1, <1>3, FoldIsTotal
<1> QED
    BY <1>4, <1>5

LEMMA SumType ==
    ASSUME NEW W, IsFiniteSet(W), NEW f \in [W -> Nat]
    PROVE  SumFunction(f) \in Nat
<1>1. W \in SUBSET W
    OBVIOUS
<1> QED
    BY <1>1, SumIs, TotalsAre

LEMMA SumZero ==
    ASSUME NEW W, IsFiniteSet(W)
    PROVE  SumFunction([w \in W |-> 0]) = 0
<1> DEFINE f == [w \in W |-> 0]
<1>1. f \in [W -> Nat] /\ W \in SUBSET W /\ \A w \in W : f[w] = 0
    OBVIOUS
<1> HIDE DEF f
<1>2. SumFunction(f) = 0
    BY <1>1, SumIs, TotalsZero
<1> QED
    BY <1>2 DEF f

LEMMA SumOneMore ==
    ASSUME NEW W, IsFiniteSet(W), NEW f \in [W -> Nat], NEW w \in W
    PROVE  SumFunction([f EXCEPT ![w] = @ + 1]) = SumFunction(f) + 1
<1> DEFINE h == [f EXCEPT ![w] = @ + 1]
<1>1. h \in [W -> Nat] /\ h[w] = f[w] + 1 /\ \A v \in W \ {w} : f[v] = h[v]
    OBVIOUS
<1>2. W \in SUBSET W
    OBVIOUS
<1> HIDE DEF h
<1>3. Totals(h, W)[W] = Totals(f, W)[W] - f[w] + h[w]
    BY <1>1, <1>2, TotalsChange
<1>4. Totals(f, W)[W] \in Nat /\ f[w] \in Nat
    BY <1>2, TotalsAre
<1>5. SumFunction(h) = SumFunction(f) + 1
    BY <1>1, <1>3, <1>4, SumIs
<1> QED
    BY <1>5 DEF h

----------------------------------------------------------------------------
(* Attempts *)

\* What a step does to the failures counted of job j and to what its user asked for:
\* only a report of a failure counts one, and only a user's retry revives a failed job.
AttemptStep(j) ==
    LET r == job[j]
        q == job'[j]
    IN
    \/ /\ q.attempts = r.attempts /\ reruns'[j] = reruns[j]
       /\ r.status \in Terminal => q.status \in Terminal
    \/ q.attempts = r.attempts /\ reruns'[j] = reruns[j] + 1
    \/ /\ r.status \in Owned /\ reruns'[j] = reruns[j]
       /\ \E w \in Workers : q.attempts = Counted(r, w).attempts
       /\ q.status = "failed" \/ ~(TotalAttempts(q) >= MaxJobAttempts)

LEMMA EveryAttempt ==
    ASSUME TypeOK, Attached, [Next]_vars, TypeOK', NEW j \in Jobs
    PROVE  AttemptStep(j)
<1> USE DEF TypeOK
<1>a. ASSUME UNCHANGED <<job, reruns>> PROVE AttemptStep(j)
  BY <1>a DEF AttemptStep
<1>b. ASSUME NEW i \in Jobs, i # j, NEW row, job' = [job EXCEPT ![i] = row],
             reruns'[j] = reruns[j]
      PROVE  AttemptStep(j)
  BY <1>b DEF AttemptStep
<1>1. ASSUME NEW i \in Jobs, CreateJob(i) PROVE AttemptStep(j)
  BY <1>1 DEF CreateJob, AttemptStep, JobRow, Terminal
<1>2. ASSUME NEW i \in Jobs, CancelJob(i) PROVE AttemptStep(j)
  <2>1. CASE i # j
    <3>1. job' = [job EXCEPT ![i] = job'[i]] /\ reruns' = reruns
      BY <1>2 DEF CancelJob
    <3> QED
      BY <1>b, <2>1, <3>1
  <2>2. CASE i = j
    <3>1. RowCancelled(job[j], job'[j]) /\ reruns' = reruns
      BY <1>2, <2>2 DEF CancelJob, RowCancelled
    <3>2. job[j] \in JobRow
      OBVIOUS
    <3>3. job'[j].attempts = job[j].attempts /\ job'[j].status = "cancelled"
      BY <3>1, <3>2 DEF RowCancelled, JobRow
    <3> QED
      BY <3>1, <3>3 DEF AttemptStep, Terminal
  <2> QED
    BY <2>1, <2>2
<1>3. ASSUME NEW i \in Jobs, RetryJob(i) PROVE AttemptStep(j)
  BY <1>3 DEF RetryJob, AttemptStep, JobRow
<1>4. ASSUME NEW s \in Socks, NEW state, NEW i \in Jobs \cup {None}, NEW fetching,
             Heartbeat(s, state, i, fetching)
      PROVE AttemptStep(j)
  <2>1. reruns' = reruns
    BY <1>4 DEF Heartbeat
  <2>2. CASE job' = RequeueJobsFor({sock[s].worker})
    <3>1. job'[j] = job[j] \/ RowRecalled(job[j], job'[j])
      BY <2>2 DEF RequeueJobsFor, RowRecalled
    <3>2. job[j] \in JobRow
      OBVIOUS
    <3> QED
      BY <2>1, <3>1, <3>2, RequeuedFields DEF AttemptStep, RowRecalled, Owned, Terminal
  <2>3. CASE /\ i # None /\ job[i].owner = sock[s].worker /\ job[i].status = "assigned"
             /\ job' = [job EXCEPT ![i].status = "running", ![i].started = sock[s].worker]
    <3>1. \/ job'[j] = job[j]
          \/ /\ job[j].status = "assigned"
             /\ job'[j] = [job[j] EXCEPT !.status = "running", !.started = sock[s].worker]
      BY <2>3
    <3>2. job[j] \in JobRow
      OBVIOUS
    <3>3. \/ job'[j] = job[j]
          \/ job[j].status = "assigned" /\ job'[j].attempts = job[j].attempts
      BY <3>1, <3>2 DEF JobRow
    <3> QED
      BY <2>1, <3>3 DEF AttemptStep, Terminal
  <2>4. CASE job' = job
    BY <1>a, <2>1, <2>4
  <2> QED
    BY <1>4, <2>2, <2>3, <2>4 DEF Heartbeat
<1>5. ASSUME NEW s \in Socks, NEW i \in Jobs, JobDone(s, i) PROVE AttemptStep(j)
  <2>1. reruns' = reruns
    BY <1>5 DEF JobDone
  <2>2. CASE i # j
    <3>1. job' = [job EXCEPT ![i] = job'[i]]
      BY <1>5 DEF JobDone
    <3> QED
      BY <1>b, <2>1, <2>2, <3>1
  <2>3. CASE i = j
    <3>1. RowDone(job[j], job'[j], sock[s].worker)
      BY <1>5, <2>3 DEF JobDone, RowDone
    <3>2. job[j] \in JobRow
      OBVIOUS
    <3>3. job'[j].attempts = job[j].attempts /\ job'[j].status = "done"
      BY <3>1, <3>2 DEF RowDone, JobRow
    <3> QED
      BY <2>1, <3>3 DEF AttemptStep, Terminal
  <2> QED
    BY <2>2, <2>3
<1>6. ASSUME NEW s \in Socks, NEW i \in Jobs, JobFailed(s, i) PROVE AttemptStep(j)
  <2>1. sock[s].worker \in Workers
    BY <1>6 DEF JobFailed, Attached, Socket
  <2>2. reruns' = reruns
    BY <1>6 DEF JobFailed
  <2>3. CASE i # j
    <3>1. job' = [job EXCEPT ![i] = job'[i]]
      BY <1>6 DEF JobFailed
    <3> QED
      BY <1>b, <2>2, <2>3, <3>1
  <2>4. CASE i = j
    <3> DEFINE w == sock[s].worker
    <3>0. job[j] \in JobRow
      OBVIOUS
    <3>1. RowFailed(job[j], job'[j], w)
      BY <1>6, <2>4 DEF JobFailed, RowFailed, Counted
    <3> DEFINE c == Counted(job[j], w)
    <3>4. c \in JobRow /\ Requeued(c).attempts = c.attempts /\ Requeued(c) \in JobRow
      BY <2>1, <3>0, AttemptType, RequeuedFields, RequeuedType DEF Counted
    <3>2. job[j].status \in Owned /\ job'[j].attempts = c.attempts
      <4> HIDE DEF c
      <4>1. \/ job'[j] = [c EXCEPT !.status = "failed"]
            \/ job'[j] = [Requeued(c) EXCEPT !.started = None, !.retried = TRUE]
        BY <3>1 DEF RowFailed, c
      <4>2. job[j].status \in Owned
        BY <3>1 DEF RowFailed, Held
      <4> QED
        BY <3>4, <4>1, <4>2 DEF JobRow
    <3>3. job'[j].status = "failed" \/ ~Exhausted(Counted(job[j], w))
      BY <1>6, <2>4, <3>0 DEF JobFailed, Counted, JobRow
    <3> QED
      BY <2>1, <2>2, <3>2, <3>3 DEF AttemptStep, Exhausted, TotalAttempts
  <2> QED
    BY <2>3, <2>4
<1>7. CASE Rounds
  <2>1. RowRound(job[j], job'[j])
    BY <1>7, RoundStep
  <2>2. reruns' = reruns
    BY <1>7, RoundTaken DEF Round
  <2>3. job[j] \in JobRow /\ job'[j] \in JobRow
    OBVIOUS
  <2> QED
    BY <2>1, <2>2, <2>3, RoundFields DEF AttemptStep, Owned, Terminal
<1>8. CASE UNCHANGED vars
  BY <1>8, <1>a DEF vars
<1>9. CASE Connection \/ Time
  BY <1>9, <1>a DEF Connection, Time, Connect, Disconnect, Authenticate, Hello, Hibernate,
                    FallSilent, AgeRecord
<1>10. ASSUME NEW w \in Workers, NEW ks,
              DisableWorker(w) \/ DeleteWorker(w) \/ ClearUnsuitable(w, ks)
       PROVE AttemptStep(j)
  BY <1>10, <1>a DEF DisableWorker, DeleteWorker, ClearUnsuitable
<1>11. ASSUME NEW s \in Socks, NEW i \in Jobs, Refuse(s, i) PROVE AttemptStep(j)
  BY <1>11, <1>a DEF Refuse
<1>12. CASE Admin
  BY <1>12, <1>1, <1>2, <1>3, <1>10 DEF Admin
<1>13. CASE Message
  BY <1>13, <1>4, <1>5, <1>6, <1>11 DEF Message, JobDoneRefused, JobFailedRefused
<1> QED
  BY <1>7, <1>8, <1>9, <1>12, <1>13 DEF Next, Rounds

\* A job that may still be tried has a failure to spend.
Affords(r, more) ==
    /\ TotalAttempts(r) <= MaxJobAttempts + more
    /\ r.status \notin Terminal => TotalAttempts(r) < MaxJobAttempts + more

LEMMA StepAffords ==
    ASSUME NEW j \in Jobs, job[j] \in JobRow, job'[j] \in JobRow,
           reruns[j] \in Nat, AttemptStep(j), Affords(job[j], reruns[j])
    PROVE  Affords(job'[j], reruns'[j])
<1> DEFINE r == job[j]
           q == job'[j]
<1>1. r.attempts \in [Workers -> Nat] /\ q.attempts \in [Workers -> Nat]
  BY DEF JobRow
<1>2. IsFiniteSet(Workers) /\ MaxJobAttempts \in Nat
  BY ConstantsAssumption
<1>3. TotalAttempts(r) \in Nat /\ TotalAttempts(q) \in Nat
  BY <1>1, <1>2, SumType DEF TotalAttempts
<1>4. q.attempts = r.attempts => TotalAttempts(q) = TotalAttempts(r)
  BY DEF TotalAttempts
<1>5. ASSUME NEW w \in Workers, q.attempts = Counted(r, w).attempts
      PROVE  TotalAttempts(q) = TotalAttempts(r) + 1
  <2>1. q.attempts = [r.attempts EXCEPT ![w] = @ + 1]
    BY <1>5, CountedFields
  <2> QED
    BY <1>1, <1>2, <2>1, SumOneMore DEF TotalAttempts
<1>6. r.status \in Owned => r.status \notin Terminal
  BY DEF Owned, Terminal
<1> HIDE DEF r, q
<1> QED
  BY <1>2, <1>3, <1>4, <1>5, <1>6 DEF AttemptStep, Affords, Terminal, r, q

\* However a job is handed round, recalled, taken back and finished late, it fails at
\* most MAX_JOB_ATTEMPTS times, and once more for each time its user asks again.
THEOREM BudgetHolds == Spec => []AttemptBudget
<1> DEFINE Afforded == \A j \in Jobs : Affords(job[j], reruns[j])
<1>1. Init => Afforded
  <2> SUFFICES ASSUME Init, NEW j \in Jobs PROVE Affords(job[j], reruns[j])
    OBVIOUS
  <2>1. job[j] = NewRow /\ reruns[j] = 0
    BY DEF Init
  <2>2. TotalAttempts(NewRow) = 0
    BY SumZero, ConstantsAssumption DEF TotalAttempts, NewRow
  <2> QED
    BY <2>1, <2>2, ConstantsAssumption DEF Affords
<1>2. TypeOK /\ Attached /\ TypeOK' /\ Afforded /\ [Next]_vars => Afforded'
  <2> SUFFICES ASSUME TypeOK, Attached, TypeOK', Afforded, [Next]_vars, NEW j \in Jobs
               PROVE  Affords(job'[j], reruns'[j])
    OBVIOUS
  <2>1. job[j] \in JobRow /\ job'[j] \in JobRow /\ reruns[j] \in Nat
    BY DEF TypeOK
  <2>2. AttemptStep(j) /\ Affords(job[j], reruns[j])
    BY EveryAttempt
  <2> QED
    BY <2>1, <2>2, StepAffords
<1>3. Afforded => AttemptBudget
  BY DEF Affords, AttemptBudget
<1> HIDE DEF Afforded
<1> QED
  BY <1>1, <1>2, <1>3, TypeCorrect, PTL DEF Spec

----------------------------------------------------------------------------
(* Refinement *)

\* What JobLifecycle sees of a row.
PhaseOf(r) == IF r.status \in Owned THEN "held" ELSE r.status

LEMMA StepRefines ==
    ASSUME NEW j \in Jobs, TypeOK, TypeOK', Owns(job[j]), RowStep(j)
    PROVE  Lifecycle!JobStep(j)
<1> DEFINE r == job[j]
           q == job'[j]
           same == \A w \in Workers : ledger'[j][w]["completed"] = ledger[j][w]["completed"]
<1>0. r \in JobRow /\ q \in JobRow /\ ledger[j] \in [Workers -> [Kinds -> Nat]]
  BY DEF TypeOK
<1>1. ASSUME NEW p, NEW h, PhaseOf(q) = p, q.owner = h, same
      PROVE  Lifecycle!Becomes(j, p, h)
  BY <1>1 DEF Lifecycle!Becomes, PhaseOf
<1>a. ASSUME PhaseOf(q) = PhaseOf(r), q.owner = r.owner, same
      PROVE  Lifecycle!Rest(j)
  BY <1>a DEF Lifecycle!Rest, Lifecycle!Becomes, PhaseOf
<1>b. ASSUME PhaseOf(r) \in {"queued", "held"}, q.status = "failed",
             q.owner \in {r.owner, None}, same
      PROVE  Lifecycle!GiveUp(j)
  BY <1>b DEF Lifecycle!GiveUp, Lifecycle!Becomes, PhaseOf, Owned
<1>2. ledger'[j] = ledger[j] => same
  OBVIOUS
<1>3. ASSUME NEW w, NEW kind \in Kinds \ {"completed"},
             ledger'[j] = [ledger[j] EXCEPT ![w][kind] = @ + 1]
      PROVE  same
  BY <1>0, <1>3 DEF Kinds
<1> USE DEF Lifecycle!JobStep
<1>4. CASE q = r /\ ledger'[j] = ledger[j]
  BY <1>a, <1>2, <1>4
<1>5. CASE RowSubmitted(r, q) /\ ledger'[j] = ledger[j]
  <2>1. r.status = "absent" /\ q.status = "queued" /\ q.owner = None
    BY <1>0, <1>5 DEF RowSubmitted, Owns, JobRow
  <2> QED
    BY <1>1, <1>2, <1>5, <2>1 DEF Lifecycle!Submit, PhaseOf, Owned
<1>6. CASE RowRetried(r, q) /\ ledger'[j] = ledger[j]
  <2>1. r.status = "failed" /\ q.status = "queued" /\ q.owner = None
    BY <1>0, <1>6 DEF RowRetried, JobRow
  <2> QED
    BY <1>1, <1>2, <1>6, <2>1 DEF Lifecycle!Retry, PhaseOf, Owned
<1>7. CASE RowStarted(r, q) /\ ledger'[j] = ledger[j]
  <2>1. r.status = "assigned" /\ q.status = "running" /\ q.owner = r.owner
    BY <1>0, <1>7 DEF RowStarted, JobRow
  <2> QED
    BY <1>a, <1>2, <1>7, <2>1 DEF PhaseOf, Owned
<1>8. CASE RowRound(r, q) /\ q # r /\ ledger'[j] = ledger[j]
  <2>1. /\ r.status \in {"queued"} \cup Owned
        /\ \/ q.status = "queued" /\ q.owner = None
           \/ q.status = "failed" /\ q.owner \in {r.owner, None}
           \/ q.status = "assigned" /\ q.owner \in Workers
    BY <1>0, <1>8, RoundFields
  <2>2. CASE q.status = "queued" /\ q.owner = None /\ r.status \in Owned
    BY <1>1, <1>2, <1>8, <2>2 DEF Lifecycle!Recall, PhaseOf, Owned
  <2>3. CASE q.status = "queued" /\ q.owner = None /\ r.status = "queued"
    BY <1>a, <1>2, <1>8, <2>3 DEF PhaseOf, Owned, Owns
  <2>4. CASE q.status = "failed" /\ q.owner \in {r.owner, None}
    BY <1>b, <1>2, <1>8, <2>1, <2>4 DEF PhaseOf, Owned
  <2>5. CASE q.status = "assigned" /\ q.owner \in Workers
    BY <1>1, <1>2, <1>8, <2>1, <2>5 DEF Lifecycle!Hand, PhaseOf, Owned
  <2> QED
    BY <2>1, <2>2, <2>3, <2>4, <2>5
<1>9. CASE /\ RowCancelled(r, q)
           /\ IF r.status = "running" /\ r.started # None /\ r.owner # None
              THEN ledger'[j] = [ledger[j] EXCEPT ![r.owner]["cancelled"] = @ + 1]
              ELSE ledger'[j] = ledger[j]
  <2>1. r.status \in {"queued"} \cup Owned /\ q.status = "cancelled" /\ q.owner = None
    BY <1>0, <1>9 DEF RowCancelled, Cancellable, JobRow
  <2>2. same
    BY <1>2, <1>3, <1>9 DEF Kinds
  <2> QED
    BY <1>1, <2>1, <2>2 DEF Lifecycle!Cancel, PhaseOf, Owned
<1>10. ASSUME NEW w \in Workers, RowFailed(r, q, w),
              \/ ledger'[j] = [ledger[j] EXCEPT ![w]["failed"] = @ + 1]
              \/ ledger'[j] = [ledger[j] EXCEPT ![w]["failed_foreign"] = @ + 1]
       PROVE  Lifecycle!JobStep(j)
  <2>1. RowFailed(r, q, w) /\ r.status \in Owned
    BY <1>10 DEF RowFailed, Held
  <2>2. \/ q.status = "failed" /\ q.owner = r.owner
        \/ q.status = "queued" /\ q.owner = None
    BY <1>0, <2>1, FailedFields
  <2>3. same
    BY <1>3, <1>10 DEF Kinds
  <2> QED
    BY <1>1, <1>b, <2>1, <2>2, <2>3 DEF Lifecycle!Recall, PhaseOf, Owned
<1>11. ASSUME NEW w \in Workers, RowDone(r, q, w),
              ledger'[j] = [ledger[j] EXCEPT
                 ![w][IF j \in ModelFetch THEN "model_fetch" ELSE "completed"] = @ + 1]
       PROVE  Lifecycle!Finish(j, w)
  <2>1. r.status = "queued" \/ (r.status \in Owned /\ r.owner = w)
    BY <1>11 DEF RowDone, Held, Readoptable
  <2>2. q.status = "done" /\ q.owner = w
    BY <1>0, <1>11 DEF RowDone, JobRow
  <2> DEFINE before == [v \in Workers |-> ledger[j][v]["completed"]]
             after == [v \in Workers |-> ledger'[j][v]["completed"]]
  <2>3. after = IF j \in ModelFetch THEN before ELSE [before EXCEPT ![w] = @ + 1]
    BY <1>0, <1>11 DEF Kinds
  <2> QED
    BY <2>1, <2>2, <2>3 DEF Lifecycle!Finish, PhaseOf, Owned
<1>12. RowRound(r, q) /\ q = r /\ ledger'[j] = ledger[j] => Lifecycle!JobStep(j)
  BY <1>4
<1> QED
  BY <1>4, <1>5, <1>6, <1>7, <1>8, <1>9, <1>10, <1>11, <1>12 DEF RowStep

\* The Hub works on jobs as JobLifecycle promises: every step of the Hub is,
\* for each job, a step of its lifecycle or none, and no completion is paid twice.
THEOREM Refinement == Spec => ImplementsLifecycle
<1>1. Init => Lifecycle!Init
  <2> SUFFICES ASSUME Init PROVE Lifecycle!Init
    OBVIOUS
  <2>1. \A j \in Jobs : job[j].status = "absent" /\ job[j].owner = None
    BY DEF Init, NewRow
  <2>2. \A j \in Jobs, w \in Workers : ledger[j][w]["completed"] = 0
    BY DEF Init, Kinds
  <2> QED
    BY <2>1, <2>2 DEF Lifecycle!Init, Owned
<1>2. TypeOK /\ Attached /\ TypeOK' /\ Ownership /\ [Next]_vars => Lifecycle!Next
  <2> SUFFICES ASSUME TypeOK, Attached, TypeOK', Ownership, [Next]_vars, NEW j \in Jobs
               PROVE  Lifecycle!JobStep(j)
    BY DEF Lifecycle!Next
  <2>1. Owns(job[j])
    BY DEF Ownership, Owns
  <2>2. RowStep(j)
    BY EveryStep
  <2> QED
    BY <2>1, <2>2, StepRefines
<1> QED
  BY <1>1, <1>2, TypeCorrect, OwnershipHolds, PTL
     DEF Spec, ImplementsLifecycle, Lifecycle!Spec

----------------------------------------------------------------------------
(* The alarm *)

\* A step that neither makes a socket ready nor gives a job to a worker, or that
\* leaves the alarm set.
Undemanding ==
    /\ alarm => alarm'
    /\ ~alarm' => /\ \A s \in Socks : sock'[s].phase = "ready" => sock[s].phase = "ready"
                  /\ \A j \in Jobs : job'[j].status \in Owned => job[j].status \in Owned

LEMMA SamePhase ==
    ASSUME TypeOK, UNCHANGED alarm, UNCHANGED job,
           \A s \in Socks : sock'[s].phase = "ready" => sock[s].phase = "ready"
    PROVE  Undemanding
BY DEF Undemanding

LEMMA SameSockets ==
    ASSUME TypeOK, alarm => alarm', UNCHANGED sock,
           \A j \in Jobs : job'[j].status \in Owned => job[j].status \in Owned
    PROVE  Undemanding
BY DEF Undemanding

\* What handlers write into a socket leaves its phase, or ends it.
LEMMA PhasesStay ==
    ASSUME TypeOK, NEW s \in Socks
    PROVE  /\ \A j \in Jobs : Telling(sock[s], j).phase = sock[s].phase
           /\ Forgetful(sock[s]).phase = sock[s].phase
           /\ \A gone : /\ Without(gone)[s].phase = "ready" => sock[s].phase = "ready"
                        /\ Forgetful(Without(gone)[s]).phase = "ready" => sock[s].phase = "ready"
<1>1. sock[s] \in Socket
  BY DEF TypeOK
<1>2. ASSUME NEW gone PROVE Without(gone)[s].phase = "ready" => sock[s].phase = "ready"
  BY <1>1 DEF Without, NoSocket, Socket
<1>3. ASSUME NEW gone PROVE Forgetful(Without(gone)[s]).phase = Without(gone)[s].phase
  <2>1. Without(gone)[s] \in Socket
    BY WithoutType DEF TypeOK
  <2> QED
    BY <2>1, ForgetfulType
<1> QED
  BY <1>1, <1>2, <1>3, TellingType, ForgetfulType

\* A requeued table holds no more than the one before.
LEMMA RequeuedHoldsLess ==
    ASSUME TypeOK, NEW W, NEW j \in Jobs
    PROVE  RequeueJobsFor(W)[j].status \in Owned => job[j].status \in Owned
BY DEF RequeueJobsFor

LEMMA AdminUndemanding == TypeOK /\ Admin => Undemanding
<1> SUFFICES ASSUME TypeOK, Admin PROVE Undemanding
  OBVIOUS
<1>1. ASSUME NEW j \in Jobs, CreateJob(j) PROVE Undemanding
  <2>1. \A i \in Jobs : job'[i].status \in Owned => job[i].status \in Owned
    BY <1>1 DEF CreateJob, TypeOK, JobRow, Owned
  <2> QED
    BY <1>1, <2>1, SameSockets DEF CreateJob, WakeHub, TypeOK
<1>2. ASSUME NEW j \in Jobs, CancelJob(j) PROVE Undemanding
  BY <1>2 DEF CancelJob, Undemanding
<1>3. ASSUME NEW j \in Jobs, RetryJob(j) PROVE Undemanding
  <2>1. \A i \in Jobs : job'[i].status \in Owned => job[i].status \in Owned
    BY <1>3 DEF RetryJob, TypeOK, JobRow, Owned
  <2>2. UNCHANGED sock
    BY <1>3 DEF RetryJob
  <2>3. alarm => alarm'
    BY <1>3, Zenon DEF RetryJob, WakeHub
  <2> QED
    BY <2>1, <2>2, <2>3, SameSockets
<1>4. ASSUME NEW w \in Workers, DeleteWorker(w) PROVE Undemanding
  <2>1. UNCHANGED alarm /\ UNCHANGED job
    BY <1>4 DEF DeleteWorker
  <2>2. \A t \in Socks : sock'[t].phase = "ready" => sock[t].phase = "ready"
    <3> SUFFICES ASSUME NEW t \in Socks, sock'[t].phase = "ready" PROVE sock[t].phase = "ready"
      OBVIOUS
    <3>1. CASE sock' = sock
      BY <3>1
    <3>2. ASSUME NEW s \in Socks, sock' = Without({s}) PROVE sock[t].phase = "ready"
      BY <3>2, PhasesStay
    <3>3. ASSUME NEW s \in Socks, sock' = [sock EXCEPT ![s] = Forgetful(@)] PROVE sock[t].phase = "ready"
      BY <3>3, PhasesStay DEF TypeOK
    <3> QED
      BY <1>4, <3>1, <3>2, <3>3 DEF DeleteWorker, Candidates
  <2> QED
    BY <2>1, <2>2, SamePhase
<1>5. ASSUME NEW w \in Workers, NEW ks, DisableWorker(w) \/ ClearUnsuitable(w, ks) PROVE Undemanding
  BY <1>5 DEF DisableWorker, ClearUnsuitable, Undemanding
<1> QED
  BY <1>1, <1>2, <1>3, <1>4, <1>5 DEF Admin

LEMMA ConnectionUndemanding == TypeOK /\ Connection => Undemanding
<1> SUFFICES ASSUME TypeOK, Connection PROVE Undemanding
  OBVIOUS
<1>0. \A t \in Socks : sock[t] \in Socket
  BY DEF TypeOK
<1>1. ASSUME NEW s \in Socks, Connect(s) PROVE Undemanding
  <2>1. \A t \in Socks : sock'[t].phase = "ready" => sock[t].phase = "ready"
    BY <1>0, <1>1 DEF Connect, TypeOK, Socket
  <2> QED
    BY <1>1, <2>1, SamePhase DEF Connect
<1>2. ASSUME NEW s \in Socks, Disconnect(s) PROVE Undemanding
  BY <1>2, SamePhase, PhasesStay DEF Disconnect
<1>3. ASSUME NEW s \in Socks, NEW w \in Workers, NEW gone, Authenticate(s, w, gone) PROVE Undemanding
  BY <1>3 DEF Authenticate, Undemanding
<1>4. ASSUME NEW s \in Socks, NEW state, Hello(s, state) PROVE Undemanding
  <2>1. \A t \in Socks : sock'[t].phase = "ready" => sock[t].phase = "ready"
    BY <1>0, <1>4 DEF Hello, TypeOK, Socket
  <2> QED
    BY <1>4, <2>1, SamePhase DEF Hello
<1>5. ASSUME Hibernate PROVE Undemanding
  BY <1>5, SamePhase, PhasesStay DEF Hibernate
<1> QED
  BY <1>1, <1>2, <1>3, <1>4, <1>5 DEF Connection

LEMMA MessageUndemanding == TypeOK /\ Message => Undemanding
<1> SUFFICES ASSUME TypeOK, Message PROVE Undemanding
  OBVIOUS
<1>0. \A t \in Socks : sock[t] \in Socket
  BY DEF TypeOK
<1>1. ASSUME NEW s \in Socks, NEW state, NEW j \in Jobs \cup {None}, NEW fetching, Heartbeat(s, state, j, fetching)
      PROVE  Undemanding
  <2>1. UNCHANGED alarm
    BY <1>1 DEF Heartbeat
  <2>2. \A i \in Jobs : job'[i].status \in Owned => job[i].status \in Owned
    <3>1. CASE job' = RequeueJobsFor({sock[s].worker})
      BY <3>1, RequeuedHoldsLess
    <3>2. CASE /\ job[j].status = "assigned" /\ j # None
               /\ job' = [job EXCEPT ![j].status = "running", ![j].started = sock[s].worker]
      BY <3>2 DEF TypeOK, Owned
    <3>3. CASE job' = job
      BY <3>3
    <3> QED
      BY <1>1, <3>1, <3>2, <3>3 DEF Heartbeat
  <2>3. \A t \in Socks : sock'[t].phase = sock[t].phase
    <3> DEFINE idle == state = "idle" /\ j = None
               beats == IF idle THEN IdleBeats(sock[s]) ELSE 0
               orphaned == beats >= OrphanBeats
               n == IF orphaned THEN 0 ELSE beats
               heard == Heard(sock[s], idle, orphaned)
               beaten == [heard EXCEPT !.state = state, !.beats = n]
    <3>0. heard \in Socket /\ heard.phase = sock[s].phase
      <4>1. idle \in BOOLEAN /\ orphaned \in BOOLEAN
        BY <1>0 DEF IdleBeats, Socket
      <4> HIDE DEF idle, orphaned
      <4> QED
        BY <1>0, <4>1, HeardType
    <3>1. beaten.phase = sock[s].phase
      <4> HIDE DEF heard
      <4> QED
        BY <3>0 DEF Socket
    <3>2. ~(j # None /\ job[j].owner # sock[s].worker) => sock' = [sock EXCEPT ![s] = beaten]
      BY <1>1 DEF Heartbeat
    <3>3. (j # None /\ job[j].owner # sock[s].worker) => sock' = [sock EXCEPT ![s] = Telling(beaten, j)]
      BY <1>1 DEF Heartbeat
    <3> HIDE DEF beaten
    <3>4. Telling(beaten, j).phase = sock[s].phase
      <4>1. [beaten EXCEPT !.told = @ \cup {j}].phase = beaten.phase
        <5> HIDE DEF heard
        <5> QED
          BY <3>0 DEF beaten, Socket
      <4> QED
        BY <3>1, <4>1 DEF Telling
    <3> QED
      BY <3>1, <3>2, <3>3, <3>4 DEF TypeOK
  <2> QED
    BY <2>1, <2>2, <2>3 DEF Undemanding
<1>2. ASSUME NEW s \in Socks, NEW j \in Jobs, JobDone(s, j) PROVE Undemanding
  <2>1. \A i \in Jobs : job'[i].status \in Owned => job[i].status \in Owned
    BY <1>2 DEF JobDone, TypeOK, JobRow, Owned
  <2> QED
    BY <1>2, <2>1, SameSockets DEF JobDone
<1>3. ASSUME NEW s \in Socks, NEW j \in Jobs, JobFailed(s, j) PROVE Undemanding
  <2>1. job[j].status \in Owned
    BY <1>3 DEF JobFailed, Held
  <2>2. \A i \in Jobs : i # j => job'[i] = job[i]
    BY <1>3 DEF JobFailed, TypeOK
  <2> QED
    BY <1>3, <2>1, <2>2, SameSockets DEF JobFailed
<1>4. ASSUME NEW s \in Socks, NEW j \in Jobs, Refuse(s, j) PROVE Undemanding
  <2>1. \A t \in Socks : sock'[t].phase = sock[t].phase
    BY <1>4, PhasesStay DEF Refuse, TypeOK
  <2> QED
    BY <1>4, <2>1, SamePhase DEF Refuse
<1> QED
  BY <1>1, <1>2, <1>3, <1>4 DEF Message, JobDoneRefused, JobFailedRefused

LEMMA AlarmKept ==
    /\ Init => AlarmArmed
    /\ TypeOK /\ AlarmArmed /\ [Next]_vars => AlarmArmed'
<1>1. Init => AlarmArmed
  BY DEF Init, AlarmArmed, NoSocket, NewRow, Owned
<1>2. TypeOK /\ AlarmArmed /\ Undemanding => AlarmArmed'
  BY DEF AlarmArmed, Undemanding
<1>3. ASSUME TypeOK, AlarmArmed, Rounds PROVE AlarmArmed'
  <2>1. PICK m \in SUBSET (Jobs \X Workers), sent \in SUBSET Socks,
             stale \in SUBSET StaleWorkers, reached \in SUBSET Jobs, excluding \in BOOLEAN :
               /\ Round(m, sent, stale, reached, excluding)
               /\ alarm' \in {Rearmed, TRUE}
    BY <1>3, RoundTaken
  <2>2. \A s \in Socks : sock'[s].phase = sock[s].phase
    BY <1>3, <2>1, DispatchedType DEF Round, TypeOK
  <2>3. CASE alarm' = Rearmed
    BY <2>2, <2>3 DEF AlarmArmed, Rearmed, HasActiveJobs, Cancellable
  <2>4. CASE alarm' = TRUE
    BY <2>4 DEF AlarmArmed
  <2> QED
    BY <2>1, <2>3, <2>4
<1>4. TypeOK /\ (Time \/ UNCHANGED vars) => Undemanding
  BY DEF Time, FallSilent, AgeRecord, vars, Undemanding
<1> QED
  BY <1>1, <1>2, <1>3, <1>4, AdminUndemanding, ConnectionUndemanding, MessageUndemanding
     DEF Next, Rounds

\* The alarm never lapses while an agent is connected or a job is in a worker's hands:
\* whoever connects arms it, and a tick that finds either arms it again.
THEOREM AlarmHolds == Spec => []AlarmArmed
BY AlarmKept, TypeCorrect, PTL DEF Spec

----------------------------------------------------------------------------
(* Recalls *)

\* The hub's own count of idle beats never runs ahead of what the socket said
\* since its last job frame, unless that frame is yet unanswered or a hello
\* crossed it.
Counts(r) == r.crossed \/ r.state = "dispatched" \/ r.beats <= r.quiet

AllCount == \A s \in Socks : Counts(sock[s])

LEMMA NoSocketCounts ==
    /\ Counts(NoSocket)
    /\ \A w : Counts([NoSocket EXCEPT !.phase = "ready", !.worker = w])
BY DEF Counts, NoSocket

LEMMA CountsStay ==
    ASSUME NEW r \in Socket, Counts(r)
    PROVE  /\ Counts([r EXCEPT !.phase = "handshake"])
           /\ \A j : Counts(Telling(r, j))
           /\ \A N : Counts([r EXCEPT !.newer = N])
           /\ Counts(Forgetful(r)) /\ Counts(Dispatched(r))
           /\ \A st : Counts([r EXCEPT !.state = st, !.hello = TRUE, !.newer = {},
                                      !.crossed = r.crossed \/ r.state = "dispatched"])
<1>1. Counts([r EXCEPT !.phase = "handshake"]) /\ Counts(Forgetful(r)) /\ Counts(Dispatched(r))
  BY DEF Counts, Socket, Forgetful, Dispatched
<1>2. ASSUME NEW j PROVE Counts(Telling(r, j))
  BY DEF Counts, Socket, Telling
<1>3. ASSUME NEW N PROVE Counts([r EXCEPT !.newer = N])
  BY DEF Counts, Socket
<1>4. ASSUME NEW st
      PROVE  Counts([r EXCEPT !.state = st, !.hello = TRUE, !.newer = {},
                              !.crossed = r.crossed \/ r.state = "dispatched"])
  BY DEF Counts, Socket
<1> QED
  BY <1>1, <1>2, <1>3, <1>4

LEMMA BeatenCounts ==
    ASSUME NEW r \in Socket, Counts(r), NEW idle \in BOOLEAN, NEW st \in States
    PROVE  LET beats == IF idle THEN IdleBeats(r) ELSE 0
               orphaned == beats >= OrphanBeats
           IN  Counts([Heard(r, idle, orphaned) EXCEPT
                         !.state = st, !.beats = IF orphaned THEN 0 ELSE beats])
<1> DEFINE beats == IF idle THEN IdleBeats(r) ELSE 0
           orphaned == beats >= OrphanBeats
           quiet == IF ~idle \/ orphaned THEN 0
                    ELSE IF r.quiet + 1 < OrphanBeats THEN r.quiet + 1 ELSE r.quiet
           n == IF orphaned THEN 0 ELSE beats
           q == [Heard(r, idle, orphaned) EXCEPT !.state = st, !.beats = n]
<1>1. r.beats \in Nat /\ r.quiet \in 0 .. OrphanBeats - 1 /\ OrphanBeats \in Nat /\ OrphanBeats > 1
      /\ r.crossed \in BOOLEAN
  BY ConstantsAssumption DEF Socket
<1>2. q.quiet = quiet /\ q.beats = n /\ q.crossed = (r.crossed /\ idle /\ ~orphaned)
  BY DEF Heard, Socket
<1>3. beats \in Nat /\ (idle => beats = 1 \/ (r.state = "idle" /\ beats = r.beats + 1))
  BY <1>1 DEF IdleBeats
<1>4. (r.crossed /\ idle /\ ~orphaned) \/ n <= quiet
  <2>1. CASE ~idle \/ orphaned
    BY <1>1, <2>1
  <2>2. CASE idle /\ ~orphaned /\ beats = 1
    BY <1>1, <2>2
  <2>3. CASE idle /\ ~orphaned /\ r.state = "idle" /\ beats = r.beats + 1
    BY <1>1, <2>3 DEF Counts
  <2> HIDE DEF beats, orphaned, quiet, n
  <2> QED
    BY <1>3, <2>1, <2>2, <2>3
<1> HIDE DEF quiet, n, q
<1> QED
  BY <1>2, <1>4 DEF Counts, q, n

LEMMA CountKept ==
    /\ Init => AllCount
    /\ TypeOK /\ Attached /\ AllCount /\ [Next]_vars => AllCount'
<1>1. Init => AllCount
  BY NoSocketCounts DEF Init, AllCount
<1>2. ASSUME TypeOK, Attached, AllCount, [Next]_vars, NEW s \in Socks PROVE Counts(sock'[s])
  <2>0. sock \in [Socks -> Socket] /\ \A t \in Socks : sock[t] \in Socket /\ Counts(sock[t])
    BY <1>2 DEF TypeOK, AllCount
  <2>a. ASSUME NEW gone
        PROVE  Counts(Without(gone)[s]) /\ Without(gone)[s] \in Socket
    <3>1. Without(gone)[s] = NoSocket
          \/ Without(gone)[s] = [sock[s] EXCEPT !.newer = sock[s].newer \ gone]
      BY DEF Without
    <3>2. Counts([sock[s] EXCEPT !.newer = sock[s].newer \ gone])
      BY <2>0 DEF Counts, Socket
    <3>3. Counts(Without(gone)[s])
      BY <3>1, <3>2, NoSocketCounts
    <3> QED
      BY <2>0, <3>3, WithoutType
  <2>b. ASSUME NEW t \in Socks, NEW j, sock' = [sock EXCEPT ![t] = Telling(@, j)]
        PROVE  Counts(sock'[s])
    BY <2>0, <2>b, CountsStay
  <2>c. ASSUME UNCHANGED sock PROVE Counts(sock'[s])
    BY <2>0, <2>c
  <2>1. CASE Admin
    <3>1. ASSUME NEW j \in Jobs, CancelJob(j) PROVE Counts(sock'[s])
      BY <2>b, <2>c, <3>1 DEF CancelJob, Candidates
    <3>2. ASSUME NEW w \in Workers, DeleteWorker(w) PROVE Counts(sock'[s])
      <4>1. ASSUME NEW t \in Socks, sock' = [sock EXCEPT ![t] = Forgetful(@)]
            PROVE  Counts(sock'[s])
        BY <2>0, <4>1, CountsStay
      <4> QED
        BY <2>a, <2>c, <3>2, <4>1 DEF DeleteWorker, Candidates
    <3> QED
      BY <2>1, <2>c, <3>1, <3>2
         DEF Admin, CreateJob, RetryJob, DisableWorker, ClearUnsuitable
  <2>2. CASE Connection
    <3>1. ASSUME NEW t \in Socks, Connect(t) PROVE Counts(sock'[s])
      BY <2>0, <3>1, CountsStay DEF Connect
    <3>2. ASSUME NEW t \in Socks, Disconnect(t) PROVE Counts(sock'[s])
      BY <2>a, <3>2 DEF Disconnect
    <3>3. ASSUME NEW t \in Socks, NEW w \in Workers, NEW gone, Authenticate(t, w, gone)
          PROVE  Counts(sock'[s])
      <4>1. Counts(Forgetful(Without(gone)[s]))
        BY <2>a, CountsStay
      <4> QED
        BY <2>0, <3>3, <4>1, NoSocketCounts DEF Authenticate
    <3>4. ASSUME NEW t \in Socks, NEW state \in States \ {"dispatched"}, Hello(t, state)
          PROVE  Counts(sock'[s])
      <4> DEFINE hello == [sock[t] EXCEPT !.state = state, !.hello = TRUE, !.newer = {},
                                          !.crossed = sock[t].crossed \/ sock[t].state = "dispatched"]
                 older == [sock[s] EXCEPT !.newer = @ \cup {t}]
      <4>1. Counts(hello)
        BY <2>0, CountsStay
      <4>2. Counts(older)
        BY <2>0, CountsStay
      <4>3. sock'[s] \in {hello, older, sock[s]}
        BY <3>4 DEF Hello
      <4> HIDE DEF hello, older
      <4> QED
        BY <2>0, <4>1, <4>2, <4>3
    <3>5. CASE Hibernate
      BY <2>0, <3>5, CountsStay DEF Hibernate
    <3> QED
      BY <2>2, <3>1, <3>2, <3>3, <3>4, <3>5 DEF Connection
  <2>3. CASE Message
    <3>1. ASSUME NEW t \in Socks, NEW state \in States \ {"dispatched"},
                 NEW j \in Jobs \cup {None}, NEW fetching, Heartbeat(t, state, j, fetching)
          PROVE  Counts(sock'[s])
      <4> DEFINE idle == state = "idle" /\ j = None
                 beats == IF idle THEN IdleBeats(sock[t]) ELSE 0
                 orphaned == beats >= OrphanBeats
                 n == IF orphaned THEN 0 ELSE beats
                 heard == Heard(sock[t], idle, orphaned)
                 beaten == [heard EXCEPT !.state = state, !.beats = n]
      <4>1. idle \in BOOLEAN
        OBVIOUS
      <4>2. Counts(beaten)
        <5> HIDE DEF idle
        <5> QED
          BY <2>0, <4>1, BeatenCounts
      <4>3. beaten \in Socket
        <5>1. idle \in BOOLEAN /\ orphaned \in BOOLEAN /\ n \in Nat
          BY <2>0 DEF IdleBeats, Socket
        <5> HIDE DEF idle, orphaned, n
        <5>2. heard \in Socket
          BY <2>0, <5>1, HeardType
        <5> HIDE DEF heard
        <5> QED
          BY <5>1, <5>2, SocketType
      <4>4. sock' = [sock EXCEPT ![t] = IF j # None /\ job[j].owner # sock[t].worker
                                        THEN Telling(beaten, j) ELSE beaten]
        BY <3>1 DEF Heartbeat
      <4> HIDE DEF beaten
      <4>5. Counts(Telling(beaten, j))
        BY <4>2, <4>3, CountsStay
      <4> QED
        BY <2>0, <4>2, <4>4, <4>5
    <3>2. ASSUME NEW t \in Socks, NEW j \in Jobs, Refuse(t, j) PROVE Counts(sock'[s])
      BY <2>b, <3>2 DEF Refuse
    <3>3. ASSUME NEW t \in Socks, NEW j \in Jobs, JobDone(t, j) \/ JobFailed(t, j)
          PROVE  Counts(sock'[s])
      <4>1. UNCHANGED sock
        BY <3>3 DEF JobDone, JobFailed
      <4> QED
        BY <2>c, <4>1
    <3> QED
      BY <2>3, <3>1, <3>2, <3>3 DEF Message, JobDoneRefused, JobFailedRefused
  <2>4. CASE Rounds
    BY <2>0, <2>4, RoundTaken, CountsStay DEF Round
  <2>5. CASE Time \/ UNCHANGED vars
    BY <2>5, <2>c DEF Time, FallSilent, AgeRecord, vars
  <2> QED
    BY <1>2, <2>1, <2>2, <2>3, <2>4, <2>5 DEF Next, Rounds
<1> QED
  BY <1>1, <1>2 DEF AllCount

LEMMA RecallsAre == TypeOK /\ Attached /\ AllCount /\ [Next]_vars => RecallStep
<1> SUFFICES ASSUME TypeOK, Attached, AllCount, [Next]_vars,
                    NEW j \in Jobs, job[j].status \in Owned,
                    job'[j].status = "queued", job'[j].attempts = job[j].attempts
             PROVE  \/ silence[job[j].owner] > 0
                    \/ \E s \in Socks :
                          /\ Ready(s, job[j].owner)
                          /\ sock[s].quiet + 1 >= OrphanBeats \/ sock[s].crossed
  BY DEF RecallStep
<1> DEFINE Justified == \/ silence[job[j].owner] > 0
                        \/ \E s \in Socks :
                              /\ Ready(s, job[j].owner)
                              /\ sock[s].quiet + 1 >= OrphanBeats \/ sock[s].crossed
<1> SUFFICES Justified
  OBVIOUS
<1>0. job[j] \in JobRow /\ job'[j] # job[j] /\ job[j].status # "queued"
  BY DEF TypeOK, Owned
<1> HIDE DEF Justified
<1>1. ASSUME Rounds PROVE Justified
  <2>1. PICK m \in SUBSET (Jobs \X Workers), sent \in SUBSET Socks,
             stale \in SUBSET StaleWorkers, reached \in SUBSET Jobs, excluding \in BOOLEAN :
               /\ Round(m, sent, stale, reached, excluding)
               /\ alarm' \in {Rearmed, TRUE}
    BY <1>1, RoundTaken
  <2>2. job' = Claimed(SweepHopeless(RequeueJobsFor(stale), reached), m)
    BY <2>1 DEF Round
  <2> DEFINE recalled == RequeueJobsFor(stale)
             swept == SweepHopeless(recalled, reached)
  <2>3. swept[j] = recalled[j] \/ swept[j].status = "failed"
    BY RequeueType DEF SweepHopeless, JobTable, TypeOK, JobRow
  <2>4. recalled \in JobTable /\ swept \in JobTable
    BY RequeueType, SweepType DEF TypeOK, JobTable
  <2> HIDE DEF swept
  <2>5. job'[j] = swept[j] \/ job'[j].status = "assigned"
    BY <2>2, <2>4 DEF Claimed, JobTable, JobRow, swept
  <2>6. recalled[j] # job[j]
    BY <1>0, <2>3, <2>5 DEF Owned
  <2>7. job[j].owner \in StaleWorkers
    BY <2>1, <2>6 DEF RequeueJobsFor
  <2>8. job[j].owner \in Workers /\ silence[job[j].owner] >= 1
    BY <2>7 DEF StaleWorkers
  <2>9. silence[job[j].owner] \in 0 .. 2
    BY <2>8 DEF TypeOK
  <2>10. silence[job[j].owner] > 0
    BY <2>8, <2>9
  <2> QED
    BY <2>10 DEF Justified
<1>2. ASSUME NEW s \in Socks, NEW state, NEW i \in Jobs \cup {None}, NEW fetching, Heartbeat(s, state, i, fetching)
      PROVE  Justified
  <2> DEFINE w == sock[s].worker
             idle == state = "idle" /\ i = None
             beats == IF idle THEN IdleBeats(sock[s]) ELSE 0
  <2>1. CASE beats >= OrphanBeats
    <3>1. job' = RequeueJobsFor({w})
      BY <1>2, <2>1 DEF Heartbeat
    <3>2. job[j].owner = w
      BY <1>0, <3>1 DEF RequeueJobsFor
    <3>3. sock[s].phase = "ready" /\ sock[s].beats \in Nat /\ sock[s].quiet \in Nat
      BY <1>2, ConstantsAssumption DEF Heartbeat, TypeOK, Socket
    <3>4. sock[s].state = "idle" /\ sock[s].beats + 1 >= OrphanBeats
      BY <2>1, <3>3, ConstantsAssumption DEF IdleBeats
    <3>5. sock[s].quiet + 1 >= OrphanBeats \/ sock[s].crossed
      BY <3>3, <3>4, ConstantsAssumption DEF AllCount, Counts
    <3> QED
      BY <3>2, <3>3, <3>5 DEF Justified, Ready
  <2>2. CASE ~(beats >= OrphanBeats)
    <3>1. \/ job' = job
          \/ i # None /\ job' = [job EXCEPT ![i].status = "running", ![i].started = w]
      BY <1>2, <2>2 DEF Heartbeat
    <3>2. i # None => i \in Jobs
      OBVIOUS
    <3> QED
      BY <1>0, <3>1, <3>2 DEF TypeOK, JobRow
  <2> QED
    BY <2>1, <2>2
<1>3. ASSUME NEW s \in Socks, NEW i \in Jobs, JobFailed(s, i) PROVE Justified
  <2>0. sock[s].worker \in Workers
    BY <1>3 DEF JobFailed, Attached, TypeOK, Socket
  <2>1. i = j
    BY <1>0, <1>3 DEF JobFailed, TypeOK
  <2>2. RowFailed(job[j], job'[j], sock[s].worker)
    BY <1>3, <2>1 DEF JobFailed, RowFailed, Counted, TypeOK
  <2>3. job'[j].attempts = Counted(job[j], sock[s].worker).attempts
    <3>1. Counted(job[j], sock[s].worker) \in JobRow
      BY <1>0, <2>0, CountedFields
    <3> QED
      BY <2>2, <3>1, RequeuedType DEF RowFailed, Requeued, JobRow
  <2>4. job[j].attempts \in [Workers -> Nat]
    BY <1>0 DEF JobRow
  <2>5. job'[j].attempts = [job[j].attempts EXCEPT ![sock[s].worker] = @ + 1]
    BY <1>0, <2>0, <2>3, CountedFields
  <2>6. job'[j].attempts[sock[s].worker] = job[j].attempts[sock[s].worker] + 1
    BY <2>0, <2>4, <2>5
  <2> QED
    BY <2>0, <2>4, <2>6
<1>4. ASSUME NEW s \in Socks, NEW i \in Jobs, JobDone(s, i) PROVE Justified
  BY <1>0, <1>4 DEF JobDone, TypeOK, JobRow
<1>5. ASSUME NEW i \in Jobs, CreateJob(i) PROVE Justified
  BY <1>0, <1>5 DEF CreateJob, TypeOK, JobRow, Owned
<1>6. ASSUME NEW i \in Jobs, CancelJob(i) PROVE Justified
  BY <1>0, <1>6 DEF CancelJob, TypeOK, JobRow, Owned
<1>7. ASSUME NEW i \in Jobs, RetryJob(i) PROVE Justified
  BY <1>0, <1>7 DEF RetryJob, TypeOK, JobRow, Owned
<1>8. ASSUME UNCHANGED job PROVE Justified
  BY <1>0, <1>8
<1>9. Admin => Justified
  BY <1>5, <1>6, <1>7, <1>8 DEF Admin, DisableWorker, DeleteWorker, ClearUnsuitable
<1>10. Connection \/ Time \/ UNCHANGED vars => Justified
  BY <1>8 DEF Connection, Time, Connect, Disconnect, Authenticate, Hello, Hibernate, FallSilent, AgeRecord, vars
<1>11. Message => Justified
  BY <1>2, <1>3, <1>4, <1>8 DEF Message, JobDoneRefused, JobFailedRefused, Refuse
<1> QED
  BY <1>1, <1>9, <1>10, <1>11 DEF Next, Rounds

\* Whoever else reconnects, pushes or restarts in between, a job is taken back without a
\* counted failure only from a worker that fell silent, or that said on one connection
\* as often as ORPHAN_IDLE_BEATS running since the last push there that it has nothing
\* to do, or whose hello crossed that push.  The count the code keeps is not that of
\* its messages: that it never exceeds theirs (AllCount) is the invariant behind it.
THEOREM RecallHolds == Spec => RecallJustified
<1>1. Spec => []AllCount
  BY CountKept, TypeCorrect, PTL DEF Spec
<1> QED
  BY <1>1, RecallsAre, TypeCorrect, PTL DEF Spec, RecallJustified

----------------------------------------------------------------------------
(* All of it *)

HubInv ==
    TypeOK /\ Attached /\ Ownership /\ AllTried /\ LedgerAgrees /\ AlarmArmed /\ AllCount

LEMMA HubInvKept ==
    /\ Init => HubInv
    /\ HubInv /\ [Next]_vars => HubInv' /\ RecallStep
    /\ HubInv => ExcludedStaysOut
<1>1. Init => HubInv
  BY InitType, OwnershipKept, TriedKept, LedgerKept, AlarmKept, CountKept DEF HubInv
<1>2. HubInv /\ [Next]_vars => HubInv' /\ RecallStep
  BY NextType, OwnershipKept, TriedKept, LedgerKept, AlarmKept, CountKept, RecallsAre DEF HubInv
<1> QED
  BY <1>1, <1>2, TriedKept DEF HubInv
============================================================================
