------------------------------- MODULE Fetch -------------------------------
(***************************************************************************)
(* One model file being fetched by an agent (fetcher.py): from other       *)
(* agents under grants the platform signs, chunk by chunk into a .part     *)
(* file that survives a crash, and from the entry's own web addresses when *)
(* no peer delivers it.  A chunk is good when it is the wanted file's.     *)
(***************************************************************************)
EXTENDS Integers, SequencesExt

CONSTANTS
    Chunks,       \* the file's length in chunks
    MaxStalls,    \* _MAX_NO_PROGRESS_REGRANTS
    MaxAddresses, \* bound: addresses in one grant
    MaxTries      \* bound: times the fetch is started

VARIABLES
    entry,    \* the manifest entry
    pc,       \* where the fetch is
    part,     \* the .part file's chunks
    file,     \* the installed file
    list,     \* the chunk hashes of the grant held: none, or the file they are of
    left,     \* the addresses of that grant not yet given up, this one included
    of,       \* how many it came with
    before,   \* offset_before_attempt
    stalls,   \* no_progress_regrants
    blind,    \* blind_retry_used
    source,   \* the web address in use, and the attempt at it
    cancel,   \* cancel_event
    tries

peerVars == <<list, left, of, before, stalls, blind>>
vars == <<entry, pc, part, file, peerVars, source, cancel, tries>>

Data == {"good", "bad"}
NoPart == <<"none">>
NoFile == "none"

\* The list of an entry's grants, which once a row has one stays.
ListAfter(l) == IF l = "none" THEN {"none"} \cup Data ELSE {l}

\* What a grant may bring: a chunk list, and addresses in the order to be tried.
GrantAnswers == [list: ListAfter(list), addresses: 0 .. MaxAddresses]

\* A peer-only entry has no web address; an unverified one has no hash, no
\* backup address and is not asked of peers.
Entries == {e \in [addresses: 0 .. 2, verified: BOOLEAN] :
                ~e.verified => e.addresses = 1}

Running == {"ask", "pull", "again", "open", "stream"}
Over == {"done", "failed", "cancelled", "refused"}

Offset(p) == IF p = NoPart THEN 0 ELSE Len(p)

Init ==
    /\ entry \in Entries
    /\ pc = "idle" /\ part = NoPart /\ file = NoFile
    /\ list = "none" /\ left = 0 /\ of = 0 /\ before = 0 /\ stalls = 0 /\ blind = FALSE
    /\ source = [nr |-> 1, attempt |-> 1] /\ cancel = FALSE /\ tries = 0

----------------------------------------------------------------------------
(* What is kept of a .part file, and what makes of it the file itself. *)

\* What _verify_local_chunks leaves of a .part file: the chunks before the
\* first that is not as listed; without a list all of it, unless it is too long.
Verified(p, l) ==
    IF p = NoPart THEN NoPart
    ELSE IF l = "none" THEN (IF Len(p) > Chunks THEN NoPart ELSE p)
    ELSE LongestCommonPrefix({p, [i \in 1 .. Chunks |-> l]})


\* Slip: chunks that were checked one by one are not hashed as a whole.
AcceptedByChunks(p) ==
    /\ Len(p) = Chunks
    /\ entry.verified /\ list = "none" => \A i \in DOMAIN p : p[i] = "good"

\* _finalize_download accepts a .part file: the entry's size, and its hash if
\* the entry has one.
Accepted(p) ==
    /\ Len(p) = Chunks
    /\ entry.verified => \A i \in DOMAIN p : p[i] = "good"

----------------------------------------------------------------------------
(* The peers. *)

GiveUpPeers ==
    /\ part' = NoPart
    /\ pc' = IF entry.addresses = 0 THEN "failed" ELSE "open"

\* fetch_and_verify_models up to the first request.  A refused entry, and a
\* cancellation this early, leave before the clean-up is in force.
Start ==
    /\ pc \in {"idle"} \cup (Over \ {"done"}) /\ tries < MaxTries
    /\ tries' = tries + 1 /\ cancel' = FALSE
    /\ pc' \in {"refused", IF entry.verified THEN "ask" ELSE "open"}
    /\ list' = "none" /\ left' = 0 /\ of' = 0 /\ before' = 0 /\ stalls' = 0 /\ blind' = FALSE
    /\ source' = [nr |-> 1, attempt |-> 1]
    /\ UNCHANGED <<entry, part, file>>

\* The first grant, with some addresses, or none had.
Ask ==
    /\ pc = "ask"
    /\ \/ /\ pc' = IF entry.addresses = 0 THEN "failed" ELSE "open"
          /\ part' = IF entry.addresses = 0 THEN NoPart ELSE part
          /\ UNCHANGED <<list, left, of, before>>
       \/ \E g \in GrantAnswers :
            /\ g.addresses > 0
            /\ list' = g.list /\ left' = g.addresses /\ of' = g.addresses
            /\ part' = Verified(part, g.list) /\ before' = Offset(part')
            /\ pc' = "pull"
    /\ UNCHANGED <<entry, file, stalls, blind, source, cancel, tries>>

\* The whole file is there: it is installed, or removed and the web tried.
Finish ==
    /\ pc = "pull" /\ Offset(part) >= Chunks
    /\ \/ /\ Accepted(part)
          /\ file' = (IF \A i \in DOMAIN part : part[i] = "good" THEN "right" ELSE "wrong")
          /\ part' = NoPart /\ pc' = "done"
       \/ /\ ~Accepted(part)
          /\ GiveUpPeers /\ UNCHANGED file
    /\ UNCHANGED <<entry, peerVars, source, cancel, tries>>

\* The next chunk arrives, whole, and is as the grant lists it.
Pull ==
    /\ pc = "pull" /\ Offset(part) < Chunks /\ ~cancel
    /\ \E c \in Data :
        /\ list = "none" \/ blind \/ c = list
        /\ part' = (IF part = NoPart THEN <<c>> ELSE Append(part, c))
    /\ UNCHANGED <<entry, pc, file, peerVars, source, cancel, tries>>

\* It is not: the file is pulled once more from its start without looking at
\* the list, and judged as a whole.
Mismatch ==
    /\ pc = "pull" /\ Offset(part) < Chunks /\ ~cancel
    /\ list # "none" /\ ~blind
    /\ part' = NoPart /\ blind' = TRUE /\ before' = 0
    /\ UNCHANGED <<entry, pc, file, list, left, of, stalls, source, cancel, tries>>

\* The peer does not answer, or with something else: the grant's next address.
PeerFails ==
    /\ pc = "pull" /\ Offset(part) < Chunks /\ ~cancel
    /\ left' = left - 1
    /\ IF left > 1
       THEN part' = Verified(part, list) /\ before' = Offset(part') /\ UNCHANGED pc
       ELSE GiveUpPeers /\ UNCHANGED before
    /\ UNCHANGED <<entry, file, list, of, stalls, blind, source, cancel, tries>>

\* The grant has expired, here or for the peer that answers 403.
GrantExpires ==
    /\ pc = "pull" /\ Offset(part) < Chunks /\ ~cancel
    /\ pc' = "again"
    /\ UNCHANGED <<entry, part, file, peerVars, source, cancel, tries>>

\* Slip: only a grant that loses ground counts.
StallsBackwards(now) == IF now >= before THEN 0 ELSE stalls + 1

\* How many times in a row a new grant has not moved the transfer on.
Stalls(now) == IF now > before THEN 0 ELSE stalls + 1

\* A grant in its place: the list it comes with is applied to what there is.
\* A grant without an address goes on with the old ones.
AskAgain ==
    /\ pc = "again"
    /\ \/ GiveUpPeers /\ UNCHANGED peerVars
       \/ \E g \in GrantAnswers :
            LET kept == Verified(part, g.list)
                addresses == IF g.addresses = 0 THEN of ELSE g.addresses
            IN /\ list' = g.list /\ of' = addresses /\ left' = addresses
               /\ stalls' = Stalls(Offset(kept))
               /\ before' = Offset(kept)
               /\ IF stalls' >= MaxStalls
                  THEN GiveUpPeers
                  ELSE part' = kept /\ pc' = "pull"
               /\ UNCHANGED blind
    /\ UNCHANGED <<entry, file, source, cancel, tries>>

----------------------------------------------------------------------------
(* The web, _download_one: every address twice, but one whose file has been *)
(* found to be another only once.                                           *)

Open ==
    /\ pc = "open" /\ ~cancel
    /\ part' = <<>> /\ pc' = "stream"
    /\ UNCHANGED <<entry, file, peerVars, source, cancel, tries>>

Stream ==
    /\ pc = "stream" /\ ~cancel /\ Len(part) <= Chunks
    /\ \E c \in Data : part' = Append(part, c)
    /\ UNCHANGED <<entry, pc, file, peerVars, source, cancel, tries>>

NextSource(attempts) ==
    /\ part' = NoPart
    /\ IF source.attempt < attempts
       THEN source' = [source EXCEPT !.attempt = 2] /\ pc' = "open"
       ELSE IF source.nr < entry.addresses
       THEN source' = [nr |-> source.nr + 1, attempt |-> 1] /\ pc' = "open"
       ELSE UNCHANGED source /\ pc' = "failed"

\* The connection fails, or never comes about.
StreamFails ==
    /\ pc \in {"open", "stream"} /\ ~cancel
    /\ NextSource(2)
    /\ UNCHANGED <<entry, file, peerVars, cancel, tries>>

\* The body is there.
StreamEnds ==
    /\ pc = "stream"
    /\ \/ /\ Accepted(part)
          /\ file' = (IF \A i \in DOMAIN part : part[i] = "good" THEN "right" ELSE "wrong")
          /\ part' = NoPart /\ pc' = "done" /\ UNCHANGED source
       \/ /\ ~Accepted(part)
          /\ NextSource(1) /\ UNCHANGED file
    /\ UNCHANGED <<entry, peerVars, cancel, tries>>

----------------------------------------------------------------------------
(* The end of it. *)

\* JobCancelled, where cancel_event is looked at.
Stop ==
    /\ cancel
    /\ \/ pc = "ask"
       \/ pc = "pull" /\ Offset(part) < Chunks
       \/ pc \in {"open", "stream"}
    /\ part' = NoPart /\ pc' = "cancelled"
    /\ UNCHANGED <<entry, file, peerVars, source, cancel, tries>>

\* An error nobody expected (the disk is full), or an unverified address that
\* leads to one that is not https.
Break ==
    /\ pc \in {"pull", "open", "stream"}
    /\ part' = NoPart /\ pc' = "failed"
    /\ UNCHANGED <<entry, file, peerVars, source, cancel, tries>>

\* The job is cancelled.
Cancel ==
    /\ pc \in Running /\ ~cancel
    /\ cancel' = TRUE
    /\ UNCHANGED <<entry, pc, part, file, peerVars, source, tries>>

\* The agent's process ends in the middle, or cancels the task.
Crash ==
    /\ pc \in Running
    /\ pc' = "idle"
    /\ UNCHANGED <<entry, part, file, peerVars, source, cancel, tries>>

\* What the fetch does of its own: whatever it waits for ends by a timeout.
Proceed == \/ Ask \/ Finish \/ Pull \/ Mismatch \/ PeerFails \/ GrantExpires \/ AskAgain
           \/ Open \/ Stream \/ StreamFails \/ StreamEnds \/ Stop \/ Break

Next == Proceed \/ Start \/ Cancel \/ Crash

Spec == Init /\ [][Next]_vars
FairSpec == Spec /\ WF_vars(Proceed)

----------------------------------------------------------------------------
TypeOK ==
    /\ entry \in Entries /\ pc \in {"idle"} \cup Running \cup Over
    /\ part = NoPart \/ part \in BoundedSeq(Data, Chunks + 1)
    /\ file \in {NoFile, "right", "wrong"}
    /\ list \in {"none"} \cup Data
    /\ left \in 0 .. MaxAddresses /\ of \in left .. MaxAddresses
    /\ before \in 0 .. Chunks /\ stalls \in 0 .. MaxStalls /\ blind \in BOOLEAN
    /\ source \in [nr : 1 .. 2, attempt : 1 .. 2]
    /\ cancel \in BOOLEAN /\ tries \in 0 .. MaxTries

\* However a file was put together, over peers, lists, grants, restarts and
\* addresses, what is installed for an entry with a hash is the file it names.
GoodFile == entry.verified /\ file # NoFile => file = "right"

\* A fetch that returns leaves no .part file behind, whatever it returns; one
\* that was refused before it began leaves what it found.
PartsGone == pc \in {"done", "failed", "cancelled"} => part = NoPart

\* A fetch ends, in a file or in an error: grants that keep expiring, peers
\* that keep answering wrongly and a list that is itself wrong only delay it.
FetchEnds == (pc \in Running) ~> (pc \notin Running)

\* A file in place is the one asked for, and a fetch that is over leaves nothing
\* half written beside it (fetch_model).
FilesAreWhole == TypeOK /\ GoodFile /\ PartsGone
============================================================================
