------------------------------ MODULE Sharing ------------------------------
(***************************************************************************)
(* Agents lending one model file to one another.  The platform learns what *)
(* the file's hash is from what workers report, grants a puller the file   *)
(* of one seeder, and books the bytes the seeder says it has served.  The  *)
(* seeder's HTTP server counts bytes under each grant, in one thread per   *)
(* request, and a thread of its own reports a grant once it has gone quiet.*)
(***************************************************************************)
EXTENDS Integers, FiniteSets, Functions, SequencesExt

CONSTANTS
    Workers, Grants,
    FileOf,              \* FileOf[w]: the file, by its hash, that worker w has under the name
    Lists,              \* the workers whose agent hashes the file's chunks too
    NoGrant,
    Units,              \* the file's size, and BYTES_SERVED_SLACK's bound on what is booked
    MaxServed,          \* bound: what one grant is ever used for
    MaxStreams,         \* bound: requests under one grant at a time
    MaxReportAttempts,  \* _MAX_REPORT_ATTEMPTS
    MaxStops            \* bound: processes that end

VARIABLES
    row,       \* the model_hashes row of the name and size
    telling,   \* the workers whose report found a row there and has yet to compare
    told,      \* the workers with a report recorded to its end
    grant,     \* the p2p_grants rows
    serve,     \* what the seeder's _GrantTracker has on each grant
    agent,     \* each worker's agent process
    due,       \* the grants its reporter has found due and not come to
    posting,   \* the one it is reporting, and the bytes it has read for it
    booking,   \* the peer-served requests the platform is handling
    receipts,  \* the p2p_upload receipts of each grant
    late,      \* a stream of the grant began with its report under way (history)
    stops

hashVars == <<row, telling, told>>
seederVars == <<serve, agent, due, posting, late, stops>>
vars == <<hashVars, grant, seederVars, booking, receipts>>

Files == Range(FileOf)
NoRow == [sha |-> "none", chunks |-> FALSE, conflict |-> FALSE]
Rows == [sha: Files, chunks: BOOLEAN, conflict: BOOLEAN] \cup {NoRow}

Fresh == [state |-> "none", seeder |-> CHOOSE w \in Workers : TRUE, booked |-> FALSE]
Unseen == [seen |-> FALSE, bytes |-> 0, admitted |-> 0, streams |-> 0, quiet |-> FALSE,
           reported |-> FALSE, attempts |-> 0]
NoPost == [grant |-> NoGrant, bytes |-> 0]

Init ==
    /\ row = NoRow /\ telling = {} /\ told = {}
    /\ grant = [g \in Grants |-> Fresh] /\ serve = [g \in Grants |-> Unseen]
    /\ agent = [w \in Workers |-> "up"]
    /\ due = [w \in Workers |-> {}] /\ posting = [w \in Workers |-> NoPost]
    /\ booking = {} /\ receipts = [g \in Grants |-> <<>>]
    /\ late = [g \in Grants |-> FALSE] /\ stops = 0

----------------------------------------------------------------------------
(* The hash of the file, recordHash: first insert, then compare. *)

\* INSERT ... ON CONFLICT DO NOTHING.  A worker that has told and has no chunk
\* hashes to add has nothing to tell again.
Report(w) ==
    /\ w \notin telling /\ agent[w] = "up"
    /\ w \notin told \/ (w \in Lists /\ ~row.chunks)
    /\ IF row = NoRow
       THEN /\ row' = [sha |-> FileOf[w], chunks |-> w \in Lists, conflict |-> FALSE]
            /\ told' = told \cup {w} /\ UNCHANGED telling
       ELSE /\ telling' = telling \cup {w}
            /\ UNCHANGED <<row, told>>
    /\ UNCHANGED <<grant, seederVars, booking, receipts>>

\* What a report makes of a row that was there before it: another hash is a
\* conflict, and the chunk hashes are set WHERE chunk_sha256s IS NULL.  The hash
\* a row was inserted with stays, so reading it is no step of its own.
Recorded(w) ==
    IF row.sha # FileOf[w] THEN [row EXCEPT !.conflict = TRUE]
    ELSE [row EXCEPT !.chunks = @ \/ w \in Lists]

Compare(w) ==
    /\ w \in telling
    /\ row' = Recorded(w)
    /\ told' = told \cup {w} /\ telling' = telling \ {w}
    /\ UNCHANGED <<grant, seederVars, booking, receipts>>

----------------------------------------------------------------------------
(* Granting it. *)

\* The workers the file may be pulled from: with the hash the platform knows.
\* What it knows of who can be reached is taken as it comes.
Seeders == IF row = NoRow \/ row.conflict THEN {}
           ELSE {w \in Workers : FileOf[w] = row.sha /\ w \in told \cup telling}

Active(w) == Cardinality({g \in Grants : /\ grant[g].state = "live" /\ ~grant[g].booked
                                         /\ grant[g].seeder = w})

\* peer-grant, for some puller: of the seeders it can reach one with the fewest
\* grants in use.
Grant(g) ==
    /\ grant[g] = Fresh
    /\ \E reached \in SUBSET Seeders : \E w \in reached :
        /\ \A v \in reached : Active(w) <= Active(v)
        /\ grant' = [grant EXCEPT ![g] = [state |-> "live", seeder |-> w, booked |-> FALSE]]
    /\ UNCHANGED <<hashVars, seederVars, booking, receipts>>

\* expires_at passes; and GRANT_RETENTION_SECONDS after it, when the row goes.
Expire(g) ==
    /\ grant[g].state = "live"
    /\ grant' = [grant EXCEPT ![g].state = "expired"]
    /\ UNCHANGED <<hashVars, seederVars, booking, receipts>>

Forget(g) ==
    /\ grant[g].state = "expired"
    /\ grant' = [grant EXCEPT ![g].state = "forgotten"]
    /\ UNCHANGED <<hashVars, seederVars, booking, receipts>>

----------------------------------------------------------------------------
(* Serving it: what the threads of the seeder do under a grant. *)

Seeder(g) == grant[g].seeder

\* A request is let in: the grant is the seeder's, and has not expired.
Admit(g) ==
    /\ grant[g].state = "live" /\ agent[Seeder(g)] = "up"
    /\ serve[g].admitted + serve[g].streams < MaxStreams
    /\ serve' = [serve EXCEPT ![g].seen = TRUE, ![g].admitted = @ + 1, ![g].quiet = FALSE]
    /\ UNCHANGED <<hashVars, grant, agent, due, posting, booking, receipts, late, stops>>

\* The grant's report is due, on its way or made.
Underway(g) ==
    \/ serve[g].reported \/ g \in due[Seeder(g)] \/ posting[Seeder(g)].grant = g
    \/ grant[g].booked \/ \E b \in booking : b.grant = g

\* The answer to a request begins, or is none (no such range, the file is gone).
Begin(g) ==
    /\ serve[g].admitted > 0 /\ agent[Seeder(g)] # "down"
    /\ \E streams \in 0 .. 1 :
        /\ serve' = [serve EXCEPT ![g].admitted = @ - 1, ![g].streams = @ + streams]
        /\ late' = [late EXCEPT ![g] = @ \/ (streams = 1 /\ Underway(g))]
    /\ UNCHANGED <<hashVars, grant, agent, due, posting, booking, receipts, stops>>

Send(g) ==
    /\ serve[g].streams > 0 /\ agent[Seeder(g)] # "down" /\ serve[g].bytes < MaxServed
    /\ serve' = [serve EXCEPT ![g].bytes = @ + 1, ![g].quiet = FALSE]
    /\ UNCHANGED <<hashVars, grant, agent, due, posting, booking, receipts, late, stops>>

\* It is through, or the puller is gone: the handler's timeout sees to that.
End(g) ==
    /\ serve[g].streams > 0 /\ agent[Seeder(g)] # "down"
    /\ serve' = [serve EXCEPT ![g].streams = @ - 1]
    /\ UNCHANGED <<hashVars, grant, agent, due, posting, booking, receipts, late, stops>>

\* _IDLE_REPORT_SECONDS without a byte.
Quieten(g) ==
    /\ serve[g].seen /\ ~serve[g].quiet
    /\ serve' = [serve EXCEPT ![g].quiet = TRUE]
    /\ UNCHANGED <<hashVars, grant, agent, due, posting, booking, receipts, late, stops>>

----------------------------------------------------------------------------
(* Reporting it: the seeder's reporter thread. *)

\* Slip: quiet or expired is enough, whether or not a stream is under way.
DueWhateverStreams(g) ==
    /\ serve[g].seen /\ ~serve[g].reported
    /\ serve[g].quiet \/ grant[g].state # "live"

\* due_for_report
Due(g) ==
    /\ serve[g].seen /\ ~serve[g].reported /\ serve[g].streams = 0
    /\ serve[g].quiet \/ grant[g].state # "live"

\* The reporter begins a round; its last one after the server has shut down.
Collect(w) ==
    /\ agent[w] \in {"up", "stopping"} /\ due[w] = {} /\ posting[w] = NoPost
    /\ due' = [due EXCEPT ![w] = {g \in Grants : Seeder(g) = w /\ Due(g)}]
    /\ agent' = IF agent[w] = "up" THEN agent ELSE [agent EXCEPT ![w] = "last"]
    /\ agent[w] = "up" => due'[w] # {}
    /\ UNCHANGED <<hashVars, grant, serve, booking, receipts, posting, late, stops>>

\* It comes to a grant: nothing was served under it, or it is posted.
Post(w) ==
    /\ agent[w] # "down" /\ posting[w] = NoPost
    /\ \E g \in due[w] :
        /\ due' = [due EXCEPT ![w] = @ \ {g}]
        /\ IF serve[g].bytes = 0
           THEN /\ serve' = [serve EXCEPT ![g].reported = TRUE]
                /\ UNCHANGED <<posting, booking>>
           ELSE /\ posting' = [posting EXCEPT ![w] = [grant |-> g, bytes |-> serve[g].bytes]]
                /\ booking' = booking \cup
                     {[grant |-> g, bytes |-> serve[g].bytes, at |-> "check",
                       nr |-> serve[g].attempts, awaited |-> TRUE]}
                /\ UNCHANGED serve
    /\ UNCHANGED <<hashVars, grant, agent, receipts, late, stops>>

\* Slip: an attempt that fails is not counted.
TriedUncounted(g) == serve[g].attempts

\* How often a grant has been tried in vain.
Tried(g) == serve[g].attempts + 1

\* The post's outcome, as its reporter takes it.
Heard(g, ok) ==
    /\ posting' = [posting EXCEPT ![Seeder(g)] = NoPost]
    /\ serve' = IF ok THEN [serve EXCEPT ![g].reported = TRUE]
                ELSE [serve EXCEPT ![g].attempts = Tried(g),
                                   ![g].reported = Tried(g) >= MaxReportAttempts]

\* No answer in time, or it gets lost: the platform may be at it yet.
TimeOut(w) ==
    /\ agent[w] # "down" /\ posting[w] # NoPost
    /\ Heard(posting[w].grant, FALSE)
    /\ booking' = {[b EXCEPT !.awaited = @ /\ b.grant # posting[w].grant] : b \in booking}
    /\ UNCHANGED <<hashVars, grant, agent, due, receipts, late, stops>>

----------------------------------------------------------------------------
(* Booking it: peer-served, in the steps between its database calls. *)

Answer(b, ok) == IF b.awaited THEN Heard(b.grant, ok) ELSE UNCHANGED <<posting, serve>>

Replace(b, to) == booking' = (booking \ {b}) \cup to

\* No more than the file is booked, of a grant that is still known.
Bookable(b) == grant[b.grant].state # "forgotten" /\ b.bytes <= Units

\* The row is looked for, and the bytes are compared with it.
Check(b) ==
    /\ b.at = "check"
    /\ IF Bookable(b)
       THEN Replace(b, {[b EXCEPT !.at = "claim"]}) /\ UNCHANGED <<posting, serve>>
       ELSE Replace(b, {}) /\ Answer(b, FALSE)
    /\ UNCHANGED <<hashVars, grant, agent, due, receipts, late, stops>>

\* UPDATE ... WHERE booked = 0
Claimable(g) == grant[g].state # "forgotten" /\ ~grant[g].booked

Claim(b) ==
    /\ b.at = "claim"
    /\ IF Claimable(b.grant)
       THEN /\ grant' = [grant EXCEPT ![b.grant].booked = TRUE]
            /\ Replace(b, {[b EXCEPT !.at = "write"]}) /\ UNCHANGED <<posting, serve>>
       ELSE Replace(b, {}) /\ Answer(b, FALSE) /\ UNCHANGED grant
    /\ UNCHANGED <<hashVars, agent, due, receipts, late, stops>>

\* The receipt is signed and written, or is not; then the claim is undone.
Write(b) ==
    /\ b.at = "write"
    /\ \/ /\ receipts' = [receipts EXCEPT ![b.grant] = Append(@, b.bytes)]
          /\ Replace(b, {}) /\ Answer(b, TRUE)
       \/ /\ Replace(b, {[b EXCEPT !.at = "undo"]})
          /\ UNCHANGED <<posting, serve, receipts>>
    /\ UNCHANGED <<hashVars, grant, agent, due, late, stops>>

Undo(b) ==
    /\ b.at = "undo"
    /\ grant' = [grant EXCEPT ![b.grant].booked = FALSE]
    /\ Replace(b, {}) /\ Answer(b, FALSE)
    /\ UNCHANGED <<hashVars, agent, due, receipts, late, stops>>

----------------------------------------------------------------------------
(* The agent's process. *)

\* An end is of interest to a process that has served something.
Serves(w) == \E g \in Grants : Seeder(g) = w /\ serve[g].seen

\* stop(): no more requests; the reporter's wait is over.
Stop(w) ==
    /\ agent[w] = "up" /\ Serves(w) /\ stops < MaxStops
    /\ agent' = [agent EXCEPT ![w] = "stopping"] /\ stops' = stops + 1
    /\ UNCHANGED <<hashVars, grant, serve, due, posting, late, booking, receipts>>

\* What the process knew of its grants is gone with it.
Gone(w) ==
    /\ agent' = [agent EXCEPT ![w] = "down"]
    /\ due' = [due EXCEPT ![w] = {}] /\ posting' = [posting EXCEPT ![w] = NoPost]
    /\ serve' = [g \in Grants |-> IF Seeder(g) = w THEN Unseen ELSE serve[g]]
    /\ late' = [g \in Grants |-> late[g] \/ (Seeder(g) = w /\ serve[g].seen)]
    /\ booking' = {[b EXCEPT !.awaited = @ /\ Seeder(b.grant) # w] : b \in booking}
    /\ UNCHANGED <<hashVars, grant, receipts>>

Exit(w) ==
    /\ agent[w] = "last" /\ due[w] = {} /\ posting[w] = NoPost
    /\ Gone(w) /\ UNCHANGED stops

Crash(w) ==
    /\ agent[w] # "down" /\ Serves(w) /\ stops < MaxStops /\ stops' = stops + 1
    /\ Gone(w)

Boot(w) ==
    /\ agent[w] = "down"
    /\ agent' = [agent EXCEPT ![w] = "up"]
    /\ UNCHANGED <<hashVars, grant, serve, due, posting, late, stops, booking, receipts>>

----------------------------------------------------------------------------
Hash == \E w \in Workers : Report(w) \/ Compare(w)
Serving(g) == Begin(g) \/ End(g)
Reporting(w) == Collect(w) \/ Post(w) \/ TimeOut(w)
Booking == \E b \in booking : Check(b) \/ Claim(b) \/ Write(b) \/ Undo(b)

Next ==
    \/ Hash \/ Booking
    \/ \E g \in Grants : Grant(g) \/ Expire(g) \/ Forget(g) \/ Admit(g) \/ Serving(g)
                         \/ Send(g) \/ Quieten(g)
    \/ \E w \in Workers : Reporting(w) \/ Stop(w) \/ Exit(w) \/ Crash(w) \/ Boot(w)

Spec == Init /\ [][Next]_vars

\* Time passes, threads run, requests end by a timeout.
FairSpec ==
    /\ Spec
    /\ \A g \in Grants : WF_vars(Expire(g)) /\ WF_vars(Serving(g))
    /\ \A w \in Workers : /\ WF_vars(Collect(w)) /\ WF_vars(Post(w))
                          /\ WF_vars(TimeOut(w)) /\ WF_vars(Exit(w))

----------------------------------------------------------------------------
TypeOK ==
    /\ row \in Rows /\ told \subseteq Workers /\ telling \subseteq Workers
    /\ grant \in [Grants -> [state: {"none", "live", "expired", "forgotten"}, seeder: Workers,
                             booked: BOOLEAN]]
    /\ serve \in [Grants -> [seen: BOOLEAN, bytes: 0 .. MaxServed, admitted: 0 .. MaxStreams,
                             streams: 0 .. MaxStreams, quiet: BOOLEAN, reported: BOOLEAN,
                             attempts: 0 .. MaxReportAttempts]]
    /\ agent \in [Workers -> {"up", "stopping", "last", "down"}]
    /\ due \in [Workers -> SUBSET Grants]
    /\ posting \in [Workers -> [grant: Grants \cup {NoGrant}, bytes: 0 .. MaxServed]]
    /\ booking \subseteq [grant: Grants, bytes: 1 .. MaxServed,
                          at: {"check", "claim", "write", "undo"},
                          nr: 0 .. MaxReportAttempts, awaited: BOOLEAN]
    /\ \A g \in Grants : ToSet(receipts[g]) \subseteq 1 .. Units
    /\ late \in [Grants -> BOOLEAN] /\ stops \in 0 .. MaxStops

\* A grant is paid for once, however often its seeder reports it, a report
\* overtakes another, or a receipt fails to be written and its claim is undone.
OneReceipt == \A g \in Grants : Len(receipts[g]) <= 1

\* A receipt is for all that was served under its grant, also past its expiry
\* and while its report went astray, unless a stream began with a report under
\* way or the seeder's process ended.
BookedInFull ==
    \A g \in Grants : receipts[g] # <<>> /\ ~late[g] => receipts[g][1] = serve[g].bytes

\* Once two workers' reports of different files have both been recorded, the
\* row is in conflict, whatever steps of theirs and others' came in between.
ConflictNoticed == \A v, w \in told : FileOf[v] # FileOf[w] => row.conflict

\* The seeder comes to an end with every grant it has served under.
ReportSettled == \A g \in Grants : serve[g].seen ~> (serve[g].reported \/ ~serve[g].seen)

\* What is served is booked once and in full, and two files under one name do
\* not pass for each other (routes/peer.ts, learnModelHash).
SharingSound == TypeOK /\ OneReceipt /\ BookedInFull /\ ConflictNoticed
============================================================================
