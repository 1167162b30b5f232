------------------------------- MODULE Files --------------------------------
(* One user's own files and the quota they count against: uploads for later *)
(* prompts (staging), saved workflows (userdata), and the inputs of the     *)
(* user's jobs (routes/comfyapi.ts, routes/jobs.ts, lib/limits.ts).  A      *)
(* request reads, decides and writes in separate operations; requests       *)
(* interleave, and any of them may die between two operations.              *)
EXTENDS Integers, FiniteSets, FiniteSetsExt

CONSTANTS Staged,    \* keys under staging/<user>/
          Saved,     \* keys under userdata/<user>/
          Jobs,      \* jobs the user can submit
          Clients,   \* requests in progress at a time
          Contents, SizeOf,
          Shared,    \* staged files of the platform: key -> content
          Quota,     \* quotaBytes
          None,
          MaxRequests \* bound of the model on requests

ASSUME FilesAssumption ==
  /\ IsFiniteSet(Staged) /\ IsFiniteSet(Saved) /\ Staged \cap Saved = {} /\ IsFiniteSet(Jobs)
  /\ \A c \in Contents : SizeOf[c] \in Nat
  /\ Shared \in [Staged -> Contents \cup {None}]
  /\ None \notin Contents \cup Clients
  /\ None \notin [input : Contents \cup {None}, bytes : Nat, weighed : BOOLEAN]
  /\ Quota \in Nat /\ MaxRequests \in Nat

VARIABLES file,     \* the bucket: key -> content or None
          job,      \* the rows with their inputs: job -> record or None
          client,   \* the requests in progress
          asked,
          halved,   \* history: a request died between two writes
          squeezed  \* history: a write was weighed against files that others wrote
                    \* meanwhile, or that was deleted under it
vars == <<file, job, client, asked, halved, squeezed>>

Keys == Staged \cup Saved
Calm == [op |-> "none"]
Bytes(c) == IF c = None THEN 0 ELSE SizeOf[c]

Init ==
  /\ file \in [Keys -> Contents \cup {None}]
  /\ MapThenSumSet(LAMBDA k : Bytes(file[k]), Keys) <= Quota
  /\ job = [j \in Jobs |-> None]
  /\ client = [x \in Clients |-> Calm]
  /\ asked = 0 /\ halved = FALSE /\ squeezed = FALSE

Live == {j \in Jobs : job[j] # None}

PrefixBytes(keys) == MapThenSumSet(LAMBDA k : Bytes(file[k]), keys)
UserJobBytes == MapThenSumSet(LAMBDA j : job[j].bytes, Live)

\* Slip: only the bucket is added up, not the counters of the jobs.
UsageOfFiles == PrefixBytes(Staged) + PrefixBytes(Saved)

\* usageBreakdown
Usage == PrefixBytes(Staged) + PrefixBytes(Saved) + UserJobBytes

Over(used, replaced, incoming) == used - Min({replaced, used}) + incoming > Quota

Ask(x, op, step, src, dest, c) ==
  /\ client[x] = Calm
  /\ asked < MaxRequests /\ asked' = asked + 1
  /\ client' = [client EXCEPT ![x] =
       [op |-> op, step |-> step, src |-> src, dest |-> dest, content |-> c,
        replaced |-> 0, disturbed |-> FALSE]]
  /\ UNCHANGED <<file, job, halved, squeezed>>

On(x, step) == client[x] # Calm /\ client[x].step = step
To(x, step) == client' = [client EXCEPT ![x].step = step]
Done(x) == client' = [client EXCEPT ![x] = Calm]

\* A write of x, and the requests it comes in the way of.
Disturb(x, q, hit) ==
  client' = [y \in Clients |->
    IF y = x THEN q ELSE IF y \in hit THEN [client[y] EXCEPT !.disturbed = TRUE] ELSE client[y]]

Asking == {y \in Clients : client[y] # Calm}

\* Whoever weighs reckons with what is there, and a move with its two files.
Weighing == {y \in Asking : client[y].op # "move"}
Moving(k) == {y \in Asking : client[y].op = "move" /\ k \in {client[y].src, client[y].dest}}

\* A file that goes leaves room; but a save that has seen it to be replaced
\* takes its bytes off once more when it weighs.
Replacing(k) == {y \in Asking : client[y].op = "save" /\ client[y].step = "weigh" /\ client[y].dest = k}

Written(x, k, c) ==
  /\ file' = [file EXCEPT ![k] = c]
  /\ UNCHANGED <<job, asked>>

\* POST /comfy/api/upload/image and POST /comfy/api/userdata/:path
StartSave(x, k, c, careful) ==
  /\ careful => k \in Saved
  /\ Ask(x, "save", IF careful THEN "look" ELSE "head", k, k, c)

\* POST /comfy/api/userdata/:src/move/:dest reads the source first.
StartMove(x, k, d, careful) ==
  /\ {k, d} \subseteq Saved /\ file[k] # None
  /\ Ask(x, "move", IF careful /\ k # d THEN "look" ELSE "put", k, d, file[k])

\* Without `overwrite`, what is there already refuses the request: 409.
Look(x) ==
  /\ On(x, "look")
  /\ IF file[client[x].dest] # None THEN Done(x)
     ELSE To(x, IF client[x].op = "move" THEN "put" ELSE "head")
  /\ UNCHANGED <<file, job, asked, halved, squeezed>>

HeadReplaced(x) ==
  /\ On(x, "head")
  /\ client' = [client EXCEPT ![x] = [@ EXCEPT !.replaced = Bytes(file[client[x].dest]), !.step = "weigh"]]
  /\ UNCHANGED <<file, job, asked, halved, squeezed>>

\* uploadRejection, quotaRejection; the check of createJobFromWorkflow
Weigh(x) ==
  /\ On(x, "weigh")
  /\ LET q == client[x] IN
       IF Over(Usage, q.replaced, Bytes(q.content)) THEN Done(x)
       ELSE To(x, IF q.op = "save" THEN "put" ELSE "insert")
  /\ UNCHANGED <<file, job, asked, halved, squeezed>>

\* Slip: a file that is moved onto itself is deleted afterwards.
LeavesAlways(q) == q.op = "move"

\* Does the source go once the destination is written?
Leaves(q) == q.op = "move" /\ q.src # q.dest

\* Inputs that are in the bucket and not yet in the counter.
Uncounted == \E x \in Clients : On(x, "bytes")

\* Another move has copied the file already, and is about to remove it.
MovedToo(q) == q.op = "move" /\ \E y \in Clients : On(y, "remove") /\ client[y].src = q.src

Put(x) ==
  /\ On(x, "put")
  /\ LET q == client[x] IN
       /\ Written(x, q.dest, q.content)
       /\ Disturb(x, IF Leaves(q) THEN [q EXCEPT !.step = "remove"] ELSE Calm, Weighing \cup Moving(q.dest))
       /\ squeezed' = (squeezed \/ q.disturbed \/ (q.op = "save" /\ Uncounted) \/ MovedToo(q))
  /\ UNCHANGED halved

RemoveSource(x) ==
  /\ On(x, "remove")
  /\ Written(x, client[x].src, None)
  /\ Disturb(x, Calm, Moving(client[x].src) \cup Replacing(client[x].src))
  /\ UNCHANGED <<halved, squeezed>>

\* DELETE /comfy/api/userdata/:path and DELETE /api/staging/:filename
Delete(k) ==
  /\ file[k] # None
  /\ Written(None, k, None)
  /\ Disturb(None, Calm, Moving(k) \cup Replacing(k))
  /\ UNCHANGED <<halved, squeezed>>

\* POST /comfy/api/prompt with one input file: the user's own staged file,
\* else the platform's.  What it copies is not weighed.
Resolved(k) == IF file[k] # None THEN file[k] ELSE Shared[k]

Submitted(j) == \A x \in Clients : client[x] # Calm => client[x].dest # j
Unused(j) == job[j] = None /\ Submitted(j)

StartPrompt(x, j, k) ==
  /\ Unused(j) /\ Resolved(k) # None
  /\ Ask(x, "prompt", "insert", k, j, Resolved(k))

\* createJobFromWorkflow with one uploaded input
StartCreate(x, j, c) ==
  /\ Unused(j)
  /\ Ask(x, "create", "weigh", None, j, c)

\* insertJob: the row is there before its inputs are.
Insert(x) ==
  /\ On(x, "insert")
  /\ job' = [job EXCEPT ![client[x].dest] = [input |-> None, bytes |-> 0, weighed |-> client[x].op = "create"]]
  /\ To(x, "copy")
  /\ UNCHANGED <<file, asked, halved, squeezed>>

Copy(x) ==
  /\ On(x, "copy")
  /\ LET q == client[x] IN
       /\ job' = [job EXCEPT ![q.dest].input = q.content]
       /\ Disturb(x, [q EXCEPT !.step = "bytes"], Weighing)
       /\ squeezed' = (squeezed \/ (q.op = "create" /\ (q.disturbed \/ Uncounted)))
  /\ UNCHANGED <<file, asked, halved>>

\* inputBytes, incomingBytes
Counted(q) == Bytes(q.content)

\* setJobInputBytes
SetBytes(x) ==
  /\ On(x, "bytes")
  /\ job' = [job EXCEPT ![client[x].dest].bytes = Counted(client[x])]
  /\ Disturb(x, Calm, Weighing)
  /\ UNCHANGED <<file, asked, halved, squeezed>>

\* The retention sweep, months after the request.
Swept(j) ==
  /\ job[j] # None /\ Submitted(j)
  /\ job' = [job EXCEPT ![j] = None]
  /\ UNCHANGED <<file, client, asked, halved, squeezed>>

Abort(x) ==
  /\ client[x] # Calm
  /\ Done(x)
  /\ halved' = (halved \/ client[x].step \in {"remove", "bytes"})
  /\ UNCHANGED <<file, job, asked, squeezed>>

Next ==
  \/ \E x \in Clients :
       \/ \E k \in Keys, c \in Contents, careful \in BOOLEAN : StartSave(x, k, c, careful)
       \/ \E k, d \in Saved, careful \in BOOLEAN : StartMove(x, k, d, careful)
       \/ \E j \in Jobs :
            \/ \E k \in Staged : StartPrompt(x, j, k)
            \/ \E c \in Contents : StartCreate(x, j, c)
       \/ Look(x) \/ HeadReplaced(x) \/ Weigh(x) \/ Put(x) \/ RemoveSource(x)
       \/ Insert(x) \/ Copy(x) \/ SetBytes(x) \/ Abort(x)
  \/ \E k \in Keys : Delete(k)
  \/ \E j \in Jobs : Swept(j)

Spec == Init /\ [][Next]_vars
-----------------------------------------------------------------------------
\* What is kept of what was weighed when it came in: not the copies the
\* panel's prompts make, and a file that is being moved once.
Kept ==
  LET halfMoved == {client[x].src : x \in {y \in Clients : On(y, "remove")}}
  IN  PrefixBytes(Keys \ halfMoved)
        + MapThenSumSet(LAMBDA j : Bytes(job[j].input), {j \in Live : job[j].weighed})

\* A user keeps no more than the quota: saves, uploads, moves and submissions
\* add up to what was weighed, whatever is deleted meanwhile, as long as no
\* two writes were weighed side by side, no file was moved twice at a time,
\* no request died half way, and no save weighed itself against a file that
\* was deleted after it had looked at its size (comfyapi.ts:1199-1205 takes
\* those bytes off although they are gone, and lets through as much again).
QuotaKept == ~squeezed /\ ~halved => Kept <= Quota

\* A move loses nothing unless somebody writes or deletes one of its two files
\* meanwhile: at each of its steps, also the last and also when it dies, the
\* file is at the source or at the destination.  (Two moves that cross, each
\* writing the other's source, lose both files: comfyapi.ts:1141-1143.)
MoveLosesNothing ==
  [][ \A x \in Asking :
        LET q == client[x] IN
          q.op = "move" /\ ~q.disturbed /\ client'[x] \notin {q, [q EXCEPT !.disturbed = TRUE]}
            => q.content \in {file'[q.src], file'[q.dest]} ]_vars

\* What a job is charged for its inputs is what it keeps of them, once its
\* submission is over, also when the staged file was replaced meanwhile.
InputsCounted ==
  ~halved => \A j \in Live : Submitted(j) => job[j].bytes = Bytes(job[j].input)

\* The quota bounds what is kept, and what a submission took counts
\* (comfyapi.ts, jobs.ts).
FilesSound == QuotaKept /\ InputsCounted
=============================================================================
