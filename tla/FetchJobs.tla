----------------------------- MODULE FetchJobs -----------------------------
(***************************************************************************)
(* The panel's download button: a request for one model becomes a job that *)
(* only puts the file on a worker's disk.  Its entry is signed when the    *)
(* button is pressed; what the platform knows of the model moves on under  *)
(* it, as workers report what they hold, and every tick builds its         *)
(* manifest anew.  Fetch models the download, Sharing the conflict of two  *)
(* files of a name.  One model; a tick matches one job; a handler of an    *)
(* inventory or of a job's end is one step.                                *)
(***************************************************************************)
EXTENDS Integers, FiniteSets, FiniteSetsExt

CONSTANTS
    None,
    Workers, Capable,     \* the workers, those that speak the downloads' protocol
    Requests,             \* the requests, each with the job it may create
    Good, Other,          \* the file the guide means, and another of the same size
    Conflict,             \* what a row says when two workers disagree
    MaxTrouble            \* bound: failures, absences, removals and cancels

Files == {Good, Other}
Unhashed == "unhashed"

VARIABLES
    guide,     \* what the model guide says: nothing, a source, or a hash as well
    row,       \* model_hashes: by path, as inventories name it, and by bare name, as jobs do
    disk,      \* the file on each worker
    listed,    \* model_inventory: what the platform knows to be there
    online,
    request,   \* the requests: their step and the entry to be stored
    job,       \* the jobs: status, worker and stored entry
    tick,      \* the tick: its step, the manifest's entry, what it read, and the match
    frame,     \* what each worker was pushed
    troubles,  \* bound
    crossed,   \* history: two requests overlapped or a failed job was retried
    removed    \* history: a file was removed

vars == <<guide, row, disk, listed, online, request, job, tick, frame, troubles, crossed, removed>>

\* sha: None in an entry nobody has verified.  peer: only other workers have it.
Entry == [sha: Files \cup {None}, peer: BOOLEAN]
Entries == Entry \cup {None}

NoJob == [status |-> "none", worker |-> None, entry |-> None]
NoTick == [pc |-> "rest", entry |-> None, read |-> FALSE, known |-> None, job |-> None, worker |-> None]
NoFrame == [pc |-> "rest", job |-> None, entry |-> None, read |-> FALSE, known |-> None, file |-> None]

Init ==
    /\ guide \in {"nothing", "source", "hash"}
    /\ row = [spelling \in {"path", "bare"} |-> None]
    /\ \E holders \in {{}} \cup {{w} : w \in Workers} :
          disk = [w \in Workers |-> IF w \in holders THEN Other ELSE None]
    /\ listed = [w \in Workers |-> None]
    /\ online = Workers
    /\ request = [r \in Requests |-> [pc |-> "rest", entry |-> None]]
    /\ job = [r \in Requests |-> NoJob]
    /\ tick = NoTick
    /\ frame = [w \in Workers |-> NoFrame]
    /\ troubles = 0 /\ crossed = FALSE /\ removed = FALSE

Live == {"queued", "assigned"}
LiveJobs == {r \in Requests : job[r].status \in Live}
Queued == {r \in Requests : job[r].status = "queued"}

Trouble == troubles < MaxTrouble /\ troubles' = troubles + 1

----------------------------------------------------------------------------
(* The manifest *)

Agreed == {s \in DOMAIN row : row[s] \in Files}

\* An inventory names the path, so only a row by path has peers.
Seeded(s) == s = "path" /\ \E w \in online \cap Capable : listed[w] = row[s]

\* A source takes the hash of one row that bears its name, else the guide's unless
\* a row is in conflict; a row left over that peers hold comes after it and wins.
EntryBy(used) ==
    LET left == {s \in Agreed \ {used} : Seeded(s)}
    IN  IF left # {} THEN [sha |-> row["path"], peer |-> TRUE]
        ELSE IF used # None THEN [sha |-> row[used], peer |-> FALSE]
        ELSE IF guide = "hash" /\ \A s \in DOMAIN row : row[s] = None THEN [sha |-> Good, peer |-> FALSE]
        ELSE None

\* The entries the model may have now: rows come in no order.
Manifest == {EntryBy(used) : used \in IF guide = "nothing" \/ Agreed = {} THEN {None} ELSE Agreed}

\* The rows once a worker has reported a file's hash.
Recorded(s, file) ==
    [row EXCEPT ![s] = IF @ \in {None, file} THEN file ELSE Conflict]

----------------------------------------------------------------------------
(* The button *)

Over(r) == request' = [request EXCEPT ![r].pc = "over"]

\* No worker may have it, connected or not.
Ask(r) ==
    /\ request[r].pc = "rest"
    /\ IF \E w \in Workers : listed[w] # None THEN Over(r)
       ELSE request' = [request EXCEPT ![r].pc = "find"]
    /\ crossed' = (crossed \/ \E q \in Requests : request[q].pc \in {"find", "look", "insert"})
    /\ UNCHANGED <<guide, row, disk, listed, online, job, tick, frame, troubles, removed>>

\* Slip: those that still wait.
ActiveQueued == Queued

\* The jobs a second request for the model is answered with.
Active == LiveJobs

Find(r) ==
    /\ request[r].pc = "find"
    /\ IF Active # {} THEN Over(r) ELSE request' = [request EXCEPT ![r].pc = "look"]
    /\ UNCHANGED <<guide, row, disk, listed, online, job, tick, frame, troubles, crossed, removed>>

Unverified == [sha |-> None, peer |-> FALSE]

\* What the manifest has, else the given address if it answers.
LookUp(r) ==
    /\ request[r].pc = "look"
    /\ \/ \E e \in Manifest :
            request' = [request EXCEPT ![r] = [pc |-> "insert", entry |-> IF e = None THEN Unverified ELSE e]]
       \/ None \in Manifest /\ Over(r)
    /\ UNCHANGED <<guide, row, disk, listed, online, job, tick, frame, troubles, crossed, removed>>

\* Some connected worker must be able to.
Insert(r) ==
    /\ request[r].pc = "insert"
    /\ Over(r)
    /\ job' = IF online \cap Capable = {} THEN job
              ELSE [job EXCEPT ![r] = [NoJob EXCEPT !.status = "queued", !.entry = request[r].entry]]
    /\ UNCHANGED <<guide, row, disk, listed, online, tick, frame, troubles, crossed, removed>>

----------------------------------------------------------------------------
(* The tick *)

\* Reading fails: the tick goes on with an empty manifest.
ReadManifest ==
    /\ tick.pc = "rest" /\ Queued # {}
    /\ \/ /\ \E e \in Manifest : tick' = [tick EXCEPT !.pc = "merge", !.entry = e, !.known = e, !.read = TRUE]
          /\ UNCHANGED troubles
       \/ Trouble /\ tick' = [tick EXCEPT !.pc = "merge"]
    /\ UNCHANGED <<guide, row, disk, listed, online, request, job, frame, crossed, removed>>

\* The manifest's entry wins over a job's own.
Merged(entry, own) == IF entry # None THEN entry ELSE own

\* The queued jobs' entries; reading them may fail.
Merge ==
    /\ tick.pc = "merge"
    /\ \/ /\ \/ Queued = {} /\ tick' = [tick EXCEPT !.pc = "match"]
             \/ \E r \in Queued :
                    tick' = [tick EXCEPT !.pc = "match", !.entry = Merged(@, job[r].entry)]
          /\ UNCHANGED troubles
       \/ Trouble /\ tick' = [tick EXCEPT !.pc = "match"]
    /\ UNCHANGED <<guide, row, disk, listed, online, request, job, frame, crossed, removed>>

\* Eligible as it is, or once it has downloaded.
MayRun(w) == w \in Capable /\ (listed[w] # None \/ tick.entry # None)
Idle(w) == \A r \in Requests : job[r].status = "assigned" => job[r].worker # w

Match ==
    /\ tick.pc = "match"
    /\ \/ \E r \in Queued, w \in {w \in online : Idle(w) /\ MayRun(w)} :
            /\ job' = [job EXCEPT ![r].status = "assigned", ![r].worker = w]
            /\ tick' = [tick EXCEPT !.pc = "push", !.job = r, !.worker = w]
       \/ ~(\E r \in Queued, w \in online : Idle(w) /\ MayRun(w)) /\ tick' = NoTick /\ UNCHANGED job
    /\ UNCHANGED <<guide, row, disk, listed, online, request, frame, troubles, crossed, removed>>

\* The worker is judged again: nothing is sent along if it has the model by now.
Push ==
    /\ tick.pc = "push"
    /\ tick' = NoTick
    /\ frame' = IF tick.worker \notin online THEN frame
                ELSE [frame EXCEPT ![tick.worker] =
                         [NoFrame EXCEPT !.pc = "pushed", !.job = tick.job, !.read = tick.read,
                          !.known = tick.known,
                          !.entry = IF listed[tick.worker] # None THEN None ELSE tick.entry]]
    /\ UNCHANGED <<guide, row, disk, listed, online, request, job, troubles, crossed, removed>>

----------------------------------------------------------------------------
(* The workers *)

\* The platform takes an inventory, hashed or not yet.
Inventory(w, seen) ==
    /\ listed' = [listed EXCEPT ![w] = seen]
    /\ row' = IF seen \in Files THEN Recorded("path", seen) ELSE row
Seen(file) == IF file = None THEN {None} ELSE {file, Unhashed}

\* Now and then a worker lists its files.
Rescan(w) ==
    /\ w \in online
    /\ \E seen \in Seen(disk[w]) : seen # listed[w] /\ Inventory(w, seen)
    /\ UNCHANGED <<guide, disk, online, request, job, tick, frame, troubles, crossed, removed>>

\* With an entry, the file it names lands, of an unverified one whatever the address
\* serves.  Then the inventory is sent.
Land(w) ==
    /\ frame[w].pc = "pushed" /\ w \in online
    /\ \E file \in CASE frame[w].entry = None -> {disk[w]}
                     [] frame[w].entry # None /\ frame[w].entry.sha = None -> Files
                     [] OTHER -> {frame[w].entry.sha} :
        /\ disk' = [disk EXCEPT ![w] = file]
        /\ \E seen \in Seen(file) : Inventory(w, seen)
        /\ frame' = [frame EXCEPT ![w].pc = "landed", ![w].file = file]
    /\ UNCHANGED <<guide, online, request, job, tick, troubles, crossed, removed>>

\* job_done: one that is still this worker's teaches the hash of what was fetched.
Done(w) ==
    /\ frame[w].pc = "landed" /\ w \in online
    /\ LET r == frame[w].job
           owned == job[r].status = "assigned" /\ job[r].worker = w
       IN  /\ job' = IF owned THEN [job EXCEPT ![r].status = "done"] ELSE job
           /\ row' = IF owned /\ frame[w].entry # None
                     THEN Recorded("bare", frame[w].file) ELSE row
    /\ frame' = [frame EXCEPT ![w] = NoFrame]
    /\ UNCHANGED <<guide, disk, listed, online, request, tick, troubles, crossed, removed>>

\* job_failed: it is tried elsewhere or fails.
Fail(w) ==
    /\ frame[w].pc = "pushed" /\ w \in online /\ Trouble
    /\ LET r == frame[w].job
       IN  IF job[r].status = "assigned" /\ job[r].worker = w
           THEN \E status \in {"queued", "failed"} : job' = [job EXCEPT ![r].status = status, ![r].worker = None]
           ELSE UNCHANGED job
    /\ frame' = [frame EXCEPT ![w] = NoFrame]
    /\ UNCHANGED <<guide, row, disk, listed, online, request, tick, crossed, removed>>

\* A worker goes, with what it was doing; it returns, or its job is taken back.
Leave(w) ==
    /\ w \in online /\ Trouble
    /\ online' = online \ {w}
    /\ frame' = [frame EXCEPT ![w] = NoFrame]
    /\ UNCHANGED <<guide, row, disk, listed, request, job, tick, crossed, removed>>

Return(w) ==
    /\ w \notin online
    /\ online' = online \cup {w}
    /\ UNCHANGED <<guide, row, disk, listed, request, job, tick, frame, troubles, crossed, removed>>

TakeBack(r) ==
    /\ job[r].status = "assigned" /\ job[r].worker \notin online
    /\ job' = [job EXCEPT ![r].status = "queued", ![r].worker = None]
    /\ UNCHANGED <<guide, row, disk, listed, online, request, tick, frame, troubles, crossed, removed>>

\* A user removes the file behind the platform's back.
Remove(w) ==
    /\ disk[w] # None /\ Trouble
    /\ disk' = [disk EXCEPT ![w] = None] /\ removed' = TRUE
    /\ UNCHANGED <<guide, row, listed, online, request, job, tick, frame, crossed>>

Cancel(r) ==
    /\ r \in LiveJobs /\ Trouble
    /\ job' = [job EXCEPT ![r].status = "cancelled"]
    /\ UNCHANGED <<guide, row, disk, listed, online, request, tick, frame, crossed, removed>>

Retry(r) ==
    /\ job[r].status = "failed"
    /\ job' = [job EXCEPT ![r].status = "queued", ![r].worker = None]
    /\ crossed' = TRUE
    /\ UNCHANGED <<guide, row, disk, listed, online, request, tick, frame, troubles, removed>>

Next ==
    \/ \E r \in Requests : Ask(r) \/ Find(r) \/ LookUp(r) \/ Insert(r) \/ TakeBack(r) \/ Cancel(r) \/ Retry(r)
    \/ ReadManifest \/ Merge \/ Match \/ Push
    \/ \E w \in Workers : Rescan(w) \/ Land(w) \/ Done(w) \/ Fail(w) \/ Leave(w) \/ Return(w) \/ Remove(w)

Spec == Init /\ [][Next]_vars

----------------------------------------------------------------------------
(* Properties *)

TypeOK ==
    /\ row \in [{"path", "bare"} -> Files \cup {None, Conflict}]
    /\ disk \in [Workers -> Files \cup {None}]
    /\ listed \in [Workers -> Files \cup {None, Unhashed}]
    /\ request \in [Requests -> [pc: {"rest", "find", "look", "insert", "over"}, entry: Entries]]
    /\ job \in [Requests -> [status: Live \cup {"none", "done", "failed", "cancelled"},
                             worker: Workers \cup {None}, entry: Entries]]

\* However often the button is pressed, one download of a model is underway, unless two
\* presses crossed or a failed one was retried (findActiveModelFetchJob).
OneDownload == ~crossed => Cardinality(LiveJobs) <= 1

\* A worker is sent to fetch a file on no one's word only if the manifest its tick
\* read had none, though the job was stored with such an entry ("the real manifest
\* ALWAYS wins").
CheckedIfKnown ==
    \A w \in Workers :
        frame[w].read /\ frame[w].entry # None /\ frame[w].entry.sha = None => frame[w].known = None

\* The worker a download is done on has the file, even if it was sent nothing to
\* fetch, unless somebody removed it.
DoneIsThere ==
    ~removed => \A r \in Requests : job[r].status = "done" => disk[job[r].worker] # None

\* A press of the button brings one download (two that cross, or a retry, may bring
\* two), checked as well as it can be, and is done when the file is there
\* (createFetchJob, tick, the runner's model_fetch).
FetchJobsSound == TypeOK /\ OneDownload /\ CheckedIfKnown /\ DoneIsThere
============================================================================
