----------------------------- MODULE Artifacts ------------------------------
(* The result files of one job (routes/jobs.ts): workers upload them whole, *)
(* under a one-time token, or straight to the bucket; their owner deletes   *)
(* and lists them; the retention sweep (core/cleanup.ts) removes the job.   *)
(* A request is a row of database and bucket operations; requests           *)
(* interleave, and any of them may die between two operations.  What the    *)
(* hub does to the row is reduced to the moves of its state.                *)
EXTENDS Integers, FiniteSets, FiniteSetsExt

CONSTANTS Workers,    \* agents
          Requests,   \* requests in progress at a time
          Names,      \* names of result files
          Contents,   \* what an agent uploads
          Garbage,    \* what arrives instead, as long as it should be
          SizeOf,     \* bytes of a content
          None,
          MaxStarts,  \* bound of the model on requests
          MaxMoves    \* bound of the model on changes of the job's state

VARIABLES direct,   \* uploads pass through the Worker, not the S3 endpoint
          row,      \* the job's row, or None once it is deleted
          store,    \* the bucket under artifacts/<job>/
          tokens,   \* upload_tokens
          request,  \* the requests in progress
          sweep,    \* the cron run: "idle", "picked" or "emptied"
          starts, moves,
          exact,    \* history: nothing happened that the counter cannot follow:
                    \* requests that cross or die, a NULL counter, a deletion that failed
          stale,    \* history: a column was written from an older reading
          late,     \* history: bytes came from a worker that had lost the job
          revived   \* history: the job or its files came back during a sweep
vars == <<direct, row, store, tokens, request, sweep, starts, moves,
          exact, stale, late, revived>>
history == <<exact, stale, late, revived>>

Ended == {"done", "failed", "cancelled"}
Idle == [kind |-> "none"]
Sum(s) == MapThenSumSet(LAMBDA n : SizeOf[s[n]], {n \in Names : s[n] # None})
Size(n) == IF store[n] = None THEN 0 ELSE SizeOf[store[n]]

\* A job some worker has just been given, or one from before the counter.
Init ==
  /\ direct \in BOOLEAN
  /\ \/ /\ \E w \in Workers :
             row = [status |-> "running", holder |-> w, last |-> w, old |-> FALSE, files |-> {},
                    hashes |-> [n \in Names |-> None], bytes |-> None]
        /\ store = [n \in Names |-> None]
     \/ LET c == CHOOSE c \in Contents : TRUE IN
        /\ row = [status |-> "done", holder |-> None, last |-> None, old |-> TRUE, files |-> Names,
                  hashes |-> [n \in Names |-> c], bytes |-> None]
        /\ store = [n \in Names |-> c]
  /\ tokens = {} /\ request = [r \in Requests |-> Idle]
  /\ sweep = "idle" /\ starts = 0 /\ moves = 0
  /\ exact = TRUE /\ stale = FALSE /\ late = FALSE /\ revived = FALSE

There == row # None

\* workerOwnsArtifactUpload
Owns(w) ==
  /\ There
  /\ \/ row.holder = w /\ row.status = "running"
     \/ row.last = w /\ row.status = "queued"

Busy == {r \in Requests : request[r] # Idle}
Writes(q) == q.kind \in {"whole", "raw", "s3", "deleteOne", "deleteAll"}

\* Do two requests race for the same objects?
Clash(q) ==
  \E r \in Busy :
    LET p == request[r] IN
      /\ p.kind # "list" \/ q.kind # "list"
      /\ None \in {p.name, q.name} \/ p.name = q.name

Begin(r, q) ==
  /\ request[r] = Idle
  /\ starts < MaxStarts
  /\ starts' = starts + 1
  /\ request' = [request EXCEPT ![r] = q]
  /\ exact' = (exact /\ ~Clash(q))
  /\ UNCHANGED <<direct, row, store, sweep, moves, stale, revived>>

At(r, step) == request[r] # Idle /\ request[r].step = step
Goto(r, step) == request' = [request EXCEPT ![r].step = step]
Answer(r) == request' = [request EXCEPT ![r] = Idle]

Upload(kind, n, c, step, w) ==
  [kind |-> kind, step |-> step, name |-> n, content |-> c, by |-> w, size |-> 0, read |-> None, token |-> 0]

\* POST .../artifacts; its body has been hashed before the first operation.
StartWhole(r, w, n, c) ==
  /\ Owns(w)
  /\ Begin(r, Upload("whole", n, c, "head", w))
  /\ UNCHANGED <<tokens, late>>

\* POST .../presign in direct mode.
StartPresign(w, n, c) ==
  /\ direct /\ Owns(w)
  /\ starts < MaxStarts /\ starts' = starts + 1
  /\ tokens' = tokens \cup {[id |-> starts', name |-> n, content |-> c, by |-> w, used |-> FALSE]}
  /\ UNCHANGED <<direct, row, store, request, sweep, moves, history>>

\* pruneUploadTokens, and the expiry the PUT checks.
TokenExpires(t) ==
  /\ tokens' = tokens \ {t}
  /\ UNCHANGED <<direct, row, store, request, sweep, starts, moves, history>>

\* PUT .../raw/:token up to the claim: whoever has the token may send.
StartRaw(r, t) ==
  /\ ~t.used
  /\ Begin(r, [Upload("raw", t.name, t.content, "claim", t.by) EXCEPT !.token = t.id])
  /\ UNCHANGED <<tokens, late>>

\* The WHERE of claimUploadToken.
Claimable(q) == {t \in tokens : t.id = q.token /\ ~t.used}

Claim(r) ==
  /\ At(r, "claim")
  /\ IF Claimable(request[r]) = {}
     THEN Answer(r) /\ UNCHANGED tokens
     ELSE /\ Goto(r, "head")
          /\ \E t \in Claimable(request[r]) :
               tokens' = (tokens \ {t}) \cup {[t EXCEPT !.used = TRUE]}
  /\ UNCHANGED <<direct, row, store, sweep, starts, moves, history>>

\* STORE.head(key) before the write.
HeadPrevious(r) ==
  /\ At(r, "head") /\ request[r].kind \in {"whole", "raw", "deleteOne"}
  /\ request' = [request EXCEPT
       ![r] = [@ EXCEPT !.size = Size(request[r].name), !.step = IF request[r].kind = "deleteOne" THEN "delete" ELSE "put"]]
  /\ UNCHANGED <<direct, row, store, tokens, sweep, starts, moves, history>>

Landed(n, c) ==
  /\ store' = [store EXCEPT ![n] = c]
  /\ revived' = (revived \/ sweep # "idle" \/ ~There)

Put(r) ==
  /\ At(r, "put")
  /\ \/ Landed(request[r].name, request[r].content) /\ Goto(r, IF request[r].kind = "raw" THEN "stat" ELSE "add")
     \/ \* the body is of the declared length, but not what was declared
        request[r].kind = "raw" /\ Landed(request[r].name, Garbage) /\ Goto(r, "undo")
     \/ \* FixedLengthStream: shorter or longer, and nothing is written
        request[r].kind = "raw" /\ Goto(r, "undo") /\ UNCHANGED <<store, revived>>
  /\ late' = (late \/ ~Owns(request[r].by))
  /\ UNCHANGED <<direct, row, tokens, sweep, starts, moves, exact, stale>>

\* STORE.delete(key)
Undone(n) == [store EXCEPT ![n] = None]

\* A deletion that fails is passed over: what is there stays, uncounted.
Undo(r) ==
  /\ At(r, "undo")
  /\ Goto(r, "unadd")
  /\ \/ /\ store' = Undone(request[r].name)
        /\ late' = (late \/ ~Owns(request[r].by))
        /\ UNCHANGED exact
     \/ /\ exact' = (exact /\ store[request[r].name] = None)
        /\ UNCHANGED <<store, late>>
  /\ UNCHANGED <<direct, row, tokens, sweep, starts, moves, stale, revived>>

\* addJobArtifactBytes
Added(delta) ==
  IF ~There THEN None
  ELSE [row EXCEPT !.bytes = Max({0, (IF @ = None THEN 0 ELSE @) + delta})]

\* NULL counts as 0: what the job already had stays uncounted.
Known == There => row.bytes # None \/ row.status \notin Ended

Unadd(r) ==
  /\ At(r, "unadd")
  /\ row' = IF request[r].size = 0 THEN row ELSE Added(-request[r].size)
  /\ Answer(r)
  /\ exact' = (exact /\ (request[r].size = 0 \/ Known))
  /\ UNCHANGED <<direct, store, tokens, sweep, starts, moves, stale, late, revived>>

\* stored - previous
Delta(q, now) == now - q.size

Add(r) ==
  /\ At(r, IF request[r].kind = "raw" THEN "stat" ELSE "add")
  /\ request[r].kind \in {"whole", "raw"}
  /\ row' = Added(Delta(request[r], Size(request[r].name)))
  /\ Goto(r, "read")
  /\ exact' = (exact /\ Known)
  /\ UNCHANGED <<direct, store, tokens, sweep, starts, moves, stale, late, revived>>

\* mergeJobResultHash reads the column and writes all of it.
ReadHashes(r) ==
  /\ At(r, "read")
  /\ IF There
     THEN request' = [request EXCEPT ![r].read = row.hashes, ![r].step = "merge"]
     ELSE Answer(r)
  /\ UNCHANGED <<direct, row, store, tokens, sweep, starts, moves, history>>

MergeHash(r) ==
  /\ At(r, "merge")
  /\ LET q == request[r] IN
       /\ row' = IF There THEN [row EXCEPT !.hashes = [q.read EXCEPT ![q.name] = q.content]] ELSE None
       /\ stale' = (stale \/ (There /\ row.hashes # q.read))
  /\ Answer(r)
  /\ UNCHANGED <<direct, store, tokens, sweep, starts, moves, exact, late, revived>>

\* S3 mode: the presigned PUT goes to the bucket itself.
StartS3(r, w, n, c) ==
  /\ ~direct /\ Owns(w)
  /\ Begin(r, Upload("s3", n, c, "send", w))
  /\ UNCHANGED <<tokens, late>>

\* Nobody hashes what arrives there: the hash is the agent's word.
SendS3(r) ==
  /\ At(r, "send")
  /\ LET q == request[r] IN
       /\ \E c \in {q.content, Garbage} : Landed(q.name, c)
       /\ request' = [request EXCEPT ![r].step = "confirm", ![r].size = Size(q.name)]
       /\ late' = (late \/ ~Owns(q.by))
  /\ UNCHANGED <<direct, row, tokens, sweep, starts, moves, exact, stale>>

\* POST .../confirm: the row is read once, and decides whether to count.
Confirm(r) ==
  /\ At(r, "confirm")
  /\ IF Owns(request[r].by)
     THEN request' = [request EXCEPT ![r].step = "count", ![r].read = row.hashes] /\ UNCHANGED exact
     ELSE Answer(r) /\ exact' = FALSE
  /\ UNCHANGED <<direct, row, store, tokens, sweep, starts, moves, stale, late, revived>>

FirstConfirm(q) == q.read[q.name] = None

Count(r) ==
  /\ At(r, "count")
  /\ LET q == request[r] IN
       /\ IF store[q.name] = None THEN Answer(r) ELSE Goto(r, "read")
       /\ row' = IF store[q.name] # None /\ FirstConfirm(q) THEN Added(Size(q.name)) ELSE row
       /\ exact' = (exact /\ Known /\ (~FirstConfirm(q) => Size(q.name) = q.size) /\ (FirstConfirm(q) => q.size = 0))
  /\ UNCHANGED <<direct, store, tokens, sweep, starts, moves, stale, late, revived>>

\* jobForArtifactDelete
Deletable == There /\ row.status \in Ended

Owner(kind, n, step) ==
  [kind |-> kind, step |-> step, name |-> n, size |-> 0, by |-> None, read |-> row.files]

StartDeleteOne(r, n) ==
  /\ Deletable /\ n \in row.files
  /\ Begin(r, Owner("deleteOne", n, "head"))
  /\ UNCHANGED <<tokens, late>>

DeleteOne(r) ==
  /\ At(r, "delete") /\ request[r].kind = "deleteOne"
  /\ store' = [store EXCEPT ![request[r].name] = None]
  /\ Goto(r, "subtract")
  /\ UNCHANGED <<direct, row, tokens, sweep, starts, moves, history>>

Subtract(r) ==
  /\ At(r, "subtract")
  /\ row' = IF request[r].size = 0 THEN row ELSE Added(-request[r].size)
  /\ Goto(r, "unlist")
  /\ exact' = (exact /\ (request[r].size = 0 \/ Known))
  /\ UNCHANGED <<direct, store, tokens, sweep, starts, moves, stale, late, revived>>

StartDeleteAll(r) ==
  /\ Deletable
  /\ Begin(r, Owner("deleteAll", None, "delete"))
  /\ UNCHANGED <<tokens, late>>

\* The names the row listed, one after the other.
DeleteNext(r) ==
  /\ At(r, "delete") /\ request[r].kind = "deleteAll"
  /\ LET here == {n \in request[r].read : store[n] # None} IN
       IF here = {}
       THEN Goto(r, "zero") /\ UNCHANGED store
       ELSE (\E n \in here : store' = [store EXCEPT ![n] = None]) /\ UNCHANGED request
  /\ UNCHANGED <<direct, row, tokens, sweep, starts, moves, history>>

\* setJobArtifactBytes(0): objects that no list names stay, uncounted.
Zero(r) ==
  /\ At(r, "zero")
  /\ row' = IF There THEN [row EXCEPT !.bytes = 0] ELSE None
  /\ Goto(r, "unlist")
  /\ exact' = (exact /\ Sum(store) = 0)
  /\ UNCHANGED <<direct, store, tokens, sweep, starts, moves, stale, late, revived>>

\* Slip: the file is deleted, its name stays.
RemainingAll(q) == q.read

Remaining(q) == IF q.kind = "deleteOne" THEN q.read \ {q.name} ELSE {}

\* updateJobResultFiles
Unlist(r) ==
  /\ At(r, "unlist")
  /\ row' = IF There THEN [row EXCEPT !.files = Remaining(request[r])] ELSE None
  /\ stale' = (stale \/ (There /\ row.files # request[r].read))
  /\ Answer(r)
  /\ UNCHANGED <<direct, store, tokens, sweep, starts, moves, exact, late, revived>>

\* GET /api/me/artifacts: a counter that is NULL is filled in from a listing.
StartList(r) ==
  /\ There /\ row.status = "done" /\ row.files # {} /\ row.bytes = None
  /\ Begin(r, Owner("list", None, "list"))
  /\ UNCHANGED <<tokens, late>>

ListSizes(r) ==
  /\ At(r, "list")
  /\ request' = [request EXCEPT ![r].step = "fill", ![r].size = Sum(store)]
  /\ UNCHANGED <<direct, row, store, tokens, sweep, starts, moves, history>>

Fill(r) ==
  /\ At(r, "fill")
  /\ row' = IF There THEN [row EXCEPT !.bytes = request[r].size] ELSE None
  /\ Answer(r)
  /\ UNCHANGED <<direct, store, tokens, sweep, starts, moves, history>>

\* The isolate, the bucket or the database gives up in the middle.
Die(r) ==
  /\ request[r] # Idle
  /\ Answer(r)
  /\ exact' = (exact /\ (~Writes(request[r]) \/ request[r].step \in {"claim", "head"}))
  /\ UNCHANGED <<direct, row, store, tokens, sweep, starts, moves, stale, late, revived>>

\* The hub moves the job: claimJob, updateJobDone, updateJobFailed,
\* updateJobRequeuedForRetry, markJobCancelled, retryFailedJob.  An agent
\* reports a job done when its own uploads have all been answered.
Moved(status, holder, last) == [row EXCEPT !.status = status, !.holder = holder, !.last = last, !.old = FALSE]
Given(w) == row.status = "queued" /\ row' = Moved("running", w, row.last)
Finished(files) ==
  /\ row.status = "running"
  /\ \A r \in Busy : request[r].by # row.holder
  /\ row' = [Moved("done", None, row.holder) EXCEPT !.files = files]
Failed == row.status = "running" /\ row' = Moved("failed", None, row.holder)
Requeued == row.status = "running" /\ row' = Moved("queued", None, row.holder)
Cancelled == row.status \in {"queued", "running"} /\ row' = Moved("cancelled", row.holder, row.last)
Retried == row.status = "failed" /\ row' = Moved("queued", None, row.last)

JobMoves ==
  /\ There /\ moves < MaxMoves /\ moves' = moves + 1
  /\ \/ \E w \in Workers : Given(w)
     \/ \E files \in SUBSET {n \in Names : store[n] # None} : Finished(files)
     \/ Failed \/ Requeued \/ Cancelled \/ Retried
  /\ revived' = (revived \/ sweep # "idle")
  /\ UNCHANGED <<direct, store, tokens, request, sweep, starts, exact, stale, late>>

\* RETENTION_DAYS pass.  No token and no request is that old.
Ages ==
  /\ There /\ row.status \in Ended /\ ~row.old
  /\ tokens = {} /\ Busy = {}
  /\ row' = [row EXCEPT !.old = TRUE]
  /\ UNCHANGED <<direct, store, tokens, request, sweep, starts, moves, history>>

\* cleanupExpired
Pick ==
  /\ sweep = "idle" /\ There /\ row.status \in Ended /\ row.old
  /\ sweep' = "picked"
  /\ UNCHANGED <<direct, row, store, tokens, request, starts, moves, history>>

\* listAllKeys, and the deletion of all of them
Emptied == [n \in Names |-> None]

EmptyBucket ==
  /\ sweep = "picked" /\ sweep' = "emptied"
  /\ store' = Emptied
  /\ exact' = FALSE
  /\ UNCHANGED <<direct, row, tokens, request, starts, moves, stale, late, revived>>

\* The job is not looked at again.
DeleteRow ==
  /\ sweep = "emptied" /\ sweep' = "idle"
  /\ row' = None
  /\ UNCHANGED <<direct, store, tokens, request, starts, moves, history>>

SweepDies ==
  /\ sweep # "idle" /\ sweep' = "idle"
  /\ UNCHANGED <<direct, row, store, tokens, request, starts, moves, history>>

Next ==
  \/ \E r \in Requests :
       \/ \E w \in Workers, n \in Names, c \in Contents : StartWhole(r, w, n, c) \/ StartS3(r, w, n, c)
       \/ \E t \in tokens : StartRaw(r, t)
       \/ Claim(r) \/ HeadPrevious(r) \/ Put(r) \/ Undo(r) \/ Unadd(r) \/ Add(r)
       \/ ReadHashes(r) \/ MergeHash(r) \/ SendS3(r) \/ Confirm(r) \/ Count(r)
       \/ \E n \in Names : StartDeleteOne(r, n)
       \/ DeleteOne(r) \/ Subtract(r) \/ StartDeleteAll(r) \/ DeleteNext(r) \/ Zero(r) \/ Unlist(r)
       \/ StartList(r) \/ ListSizes(r) \/ Fill(r) \/ Die(r)
  \/ \E w \in Workers, n \in Names, c \in Contents : StartPresign(w, n, c)
  \/ \E t \in tokens : TokenExpires(t)
  \/ JobMoves \/ Ages \/ Pick \/ EmptyBucket \/ DeleteRow \/ SweepDies

Spec == Init /\ [][Next]_vars
-----------------------------------------------------------------------------
\* Nothing is in progress.
AtRest == Busy = {} /\ sweep = "idle"

\* The user is charged for what is kept: the counter is the size of what the
\* bucket holds, however uploads of different files, deletions and a changed
\* owner interleave, as long as nothing happened that it cannot follow (exact):
\* a refused body whose deletion failed, for one, stays and is not charged.
CounterAgrees ==
  AtRest /\ exact /\ There /\ row.bytes # None => row.bytes = Sum(store)

\* Where uploads pass through the Worker, what the bucket keeps of a job is what
\* the row vouches for, byte for byte: a body that was refused leaves nothing
\* behind, unless its deletion failed too.  (What goes straight to the bucket
\* is kept on the agent's word, and nothing is said of it.)
OnlyVerified ==
  AtRest /\ exact /\ ~stale /\ direct /\ There =>
    \A n \in Names : store[n] # None => store[n] = row.hashes[n]

\* A finished job lists nothing that cannot be downloaded, unless a column was
\* written from an older reading or an upload outlived its worker's claim.
ListedIsStored ==
  AtRest /\ exact /\ ~stale /\ ~late /\ There /\ row.status = "done" =>
    \A n \in row.files : store[n] # None

\* No file survives its row: a sweep that dies is taken up again.  (A file that
\* is written, or a job that is retried, while the sweep is at it may.)
NothingOrphaned == ~There /\ ~revived => \A n \in Names : store[n] = None

\* A token writes once: of the requests that carry it, one gets past the
\* claim.
TokenOnce ==
  \A r, q \in Busy :
    r # q /\ "raw" = request[r].kind /\ "raw" = request[q].kind /\ request[r].token = request[q].token
      => At(r, "claim") \/ At(q, "claim")

\* A job's files are those its row lists, with the exceptions each part names:
\* counted (exact), verified (exact, stale, and only in direct mode), stored
\* (exact, stale, late) and gone with it (revived); and an upload token is used
\* once (routes/jobs.ts, core/cleanup.ts).
ResultsKept == CounterAgrees /\ OnlyVerified /\ ListedIsStored /\ NothingOrphaned /\ TokenOnce
=============================================================================
