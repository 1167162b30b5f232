---------------------------- MODULE SplitFamily ----------------------------
(***************************************************************************)
(* A batch job split into children, each dispatched on its own, and the    *)
(* parent derived from them.  Whoever moves a child then reads the parent, *)
(* reads the children, writes the parent back and cancels what is left of  *)
(* the family, one statement at a time: handlers may overlap between any   *)
(* two statements, and an error may end one at any of them.  A child's own *)
(* move, checked and written, is one step here: OwnedGate takes it apart.  *)
(***************************************************************************)
EXTENDS SplitPlan

CONSTANTS
    Handlers,    \* the messages, calls and ticks at work at a time
    Workflows,   \* the workflows submitted
    Law          \* every workflow the splitting conditions are checked on

VARIABLES
    parent,      \* the job: status, whether a worker holds it, children, batch planned
    kid,         \* its children by index
    planner,     \* the batch the tick read and the children it is about to create
    hand,        \* the handlers
    paid,        \* cancelled receipts of each child, two standing for more
    retried,     \* a user retried the job (history)
    overlapped,  \* a handler began, or a user retried, with one at work (history)
    broken       \* a handler broke off (history)

vars == <<parent, kid, planner, hand, paid, retried, overlapped, broken>>

Terminal == {"done", "failed", "cancelled"}
Live == {"queued", "assigned", "running"}
Indices == 0 .. MaxSplit - 1

Parents == [status: {"new"} \cup Live \cup Terminal, held: BOOLEAN, split: 0 .. MaxSplit,
            plan: 0 .. MaxBatch]

NoPlan == [batch |-> 0, k |-> 0]

\* ran: a worker ever ran the child.
Kids == [status: {"none"} \cup Live \cup Terminal, images: SUBSET (0 .. MaxBatch - 1), ran: BOOLEAN]
NoKid == [status |-> "none", images |-> {}, ran |-> FALSE]

\* The status the parent gets, the children still to cancel with it, the
\* children a cancelled parent has still to walk (running: as they were read),
\* who is owed a cancelled receipt, and whether the caller collects them.
HandlerStates == [pc: {"idle", "parent", "kids", "write", "cascade", "walk read", "walk", "mint"},
                  status: Live \cup Terminal,
                  cascade: SUBSET Indices, walk: SUBSET Indices, running: SUBSET Indices,
                  owed: SUBSET Indices, collects: BOOLEAN]
Idle == [pc |-> "idle", status |-> "queued", cascade |-> {}, walk |-> {}, running |-> {},
         owed |-> {}, collects |-> FALSE]

TypeOK ==
    /\ parent \in Parents
    /\ kid \in [Indices -> Kids]
    /\ planner \in [batch: 0 .. MaxBatch, k: 0 .. MaxSplit]
    /\ hand \in [Handlers -> HandlerStates]
    /\ paid \in [Indices -> 0 .. 2]
    /\ retried \in BOOLEAN /\ overlapped \in BOOLEAN /\ broken \in BOOLEAN

Init ==
    /\ parent = [status |-> "new", held |-> FALSE, split |-> 0, plan |-> 0]
    /\ kid = [i \in Indices |-> NoKid]
    /\ planner = NoPlan
    /\ hand = [h \in Handlers |-> Idle]
    /\ paid = [i \in Indices |-> 0]
    /\ retried = FALSE /\ overlapped = FALSE /\ broken = FALSE

Children == {i \in Indices : kid[i].status # "none"}
Quiet == \A h \in Handlers : hand[h].pc = "idle"

----------------------------------------------------------------------------
(* Submission, and the tick that splits *)

Submit ==
    /\ parent.status = "new"
    /\ \E flow \in Workflows :
          parent' = [parent EXCEPT !.status = "queued",
                         !.plan = IF \E s \in DOMAIN flow : Splittable(flow, s)
                                  THEN flow[CHOOSE s \in Sources(flow) : TRUE].batch ELSE 0]
    /\ UNCHANGED <<kid, planner, hand, paid, retried, overlapped, broken>>

\* The tick reads a planned job and means to split it over k free workers.
PlanChildren ==
    /\ planner = NoPlan
    /\ parent.status = "queued" /\ parent.split = 0 /\ parent.plan >= 2
    /\ \E k \in 2 .. Min({parent.plan, MaxSplit}) : planner' = [batch |-> parent.plan, k |-> k]
    /\ UNCHANGED <<parent, kid, hand, paid, retried, overlapped, broken>>

\* Slip: claimed meanwhile or not, the children go in.
UnsplitAlways == TRUE

\* The guard of the batch's update, and with it of its inserts.
Unsplit == parent.status = "queued" /\ parent.split = 0

\* The batch: the mark on the parent and every child, or nothing.
CreateChildren ==
    /\ planner # NoPlan
    /\ planner' = NoPlan
    /\ IF Unsplit
       THEN /\ parent' = [parent EXCEPT !.split = planner.k]
            /\ kid' = [i \in Indices |->
                   IF i < planner.k /\ i \notin Children
                   THEN [NoKid EXCEPT !.status = "queued",
                                      !.images = Partition(planner.batch, planner.k)[i]]
                   ELSE kid[i]]
       ELSE UNCHANGED <<parent, kid>>
    /\ UNCHANGED <<hand, paid, retried, overlapped, broken>>

FailToCreate ==
    /\ planner # NoPlan
    /\ planner' = NoPlan
    /\ UNCHANGED <<parent, kid, hand, paid, retried, overlapped, broken>>

----------------------------------------------------------------------------
(* The job while it is whole *)

ClaimWhole ==
    /\ parent.status = "queued" /\ parent.split = 0
    /\ parent' = [parent EXCEPT !.status = "assigned", !.held = TRUE]
    /\ UNCHANGED <<kid, planner, hand, paid, retried, overlapped, broken>>

\* Its worker reports it done or failed, or it goes back to the queue.
ReportWhole ==
    /\ parent.held
    /\ \E status \in {"running", "done", "failed", "queued"} :
          parent' = [parent EXCEPT !.status = status, !.held = status = "running"]
    /\ UNCHANGED <<kid, planner, hand, paid, retried, overlapped, broken>>

RetriedRow == [parent EXCEPT !.status = "queued", !.held = FALSE, !.split = 0, !.plan = 0]

\* A user retries the failed job: it is never split again.
Retry ==
    /\ parent.status = "failed"
    /\ parent' = RetriedRow
    /\ retried' = TRUE
    /\ overlapped' = (overlapped \/ ~Quiet \/ planner # NoPlan)
    /\ UNCHANGED <<kid, planner, hand, paid, broken>>

----------------------------------------------------------------------------
(* A child moves, and its handler goes on to the family *)

\* Handler h has written child i's status; a caller that collects tells the
\* workers cancelled with it and mints their receipts.
Moves(h, i, status, collects, owed) ==
    /\ hand[h].pc = "idle"
    /\ kid' = [kid EXCEPT ![i].status = status, ![i].ran = @ \/ status = "running"]
    /\ hand' = [hand EXCEPT ![h] = [Idle EXCEPT !.pc = "parent", !.collects = collects,
                                               !.owed = owed]]
    /\ overlapped' = (overlapped \/ ~Quiet)
    /\ UNCHANGED <<parent, planner, paid, retried, broken>>

Claim(h, i) == kid[i].status = "queued" /\ Moves(h, i, "assigned", FALSE, {})
Run(h, i) == kid[i].status = "assigned" /\ Moves(h, i, "running", FALSE, {})
Done(h, i) == kid[i].status \in {"assigned", "running"} /\ Moves(h, i, "done", FALSE, {})
Fail(h, i) == kid[i].status \in {"assigned", "running"} /\ Moves(h, i, "failed", TRUE, {})
Requeue(h, i) == kid[i].status \in {"assigned", "running"} /\ Moves(h, i, "queued", FALSE, {})

\* Slip: owed for a child that was only assigned.
OwedIfHeld(i) == kid[i].status \in {"assigned", "running"}

\* A receipt is owed for a child that was running when it was cancelled.
OwedIfRunning(i) == kid[i].status = "running"

CancelChild(h, i) ==
    /\ kid[i].status \in Live
    /\ Moves(h, i, "cancelled", TRUE, {j \in {i} : OwedIfRunning(j)})

\* The job itself is cancelled: its children are walked afterwards.
CancelParent(h) ==
    /\ hand[h].pc = "idle"
    /\ parent.status \in Live
    /\ parent' = [parent EXCEPT !.status = "cancelled", !.held = FALSE]
    /\ hand' = [hand EXCEPT ![h] = [Idle EXCEPT !.pc = "walk read", !.collects = TRUE]]
    /\ overlapped' = (overlapped \/ ~Quiet)
    /\ UNCHANGED <<kid, planner, paid, retried, broken>>

----------------------------------------------------------------------------
(* refreshParent *)

\* Whether the parent is still derived from its children.
Derivable == parent.split > 0 /\ parent.status \notin Terminal

\* Slip: one finished child finishes the parent.
DerivedFromAny ==
    LET has == {kid[i].status : i \in Children}
    IN  IF "failed" \in has THEN "failed"
        ELSE IF "cancelled" \in has THEN "cancelled"
        ELSE IF "done" \in has THEN "done"
        ELSE IF "running" \in has THEN "running"
        ELSE IF "assigned" \in has THEN "assigned" ELSE "queued"

Derived ==
    LET has == {kid[i].status : i \in Children}
    IN  IF "failed" \in has THEN "failed"
        ELSE IF "cancelled" \in has THEN "cancelled"
        ELSE IF has = {"done"} THEN "done"
        ELSE IF "running" \in has THEN "running"
        ELSE IF "assigned" \in has THEN "assigned" ELSE "queued"

\* The children that end with the parent.
Left == {i \in Children : kid[i].status \in Live}

Goes(h, new) == hand' = [hand EXCEPT ![h] = new]

\* After the cascade, a walk under way goes on.
AfterRefresh(state) == [state EXCEPT !.pc = IF state.walk # {} THEN "walk" ELSE "mint",
                                     !.cascade = {}]

ReadParent(h) ==
    /\ hand[h].pc = "parent"
    /\ IF Derivable THEN Goes(h, [hand[h] EXCEPT !.pc = "kids", !.status = parent.status])
                    ELSE Goes(h, AfterRefresh(hand[h]))
    /\ UNCHANGED <<parent, kid, planner, paid, retried, overlapped, broken>>

\* The children as they are now decide: the parent is written back if anything
\* of it changed, if only its progress or its start while a child runs.
ReadChildren(h) ==
    /\ hand[h].pc = "kids"
    /\ LET ends == Derived \in {"failed", "cancelled"}
           next == [hand[h] EXCEPT !.status = Derived,
                        !.cascade = IF ends THEN Left ELSE {},
                        !.running = IF ends THEN {i \in Left : kid[i].status = "running"} ELSE @]
       IN  \/ Goes(h, [next EXCEPT !.pc = "write"])
           \/ /\ Derived = hand[h].status
              /\ Goes(h, AfterRefresh(next))
    /\ UNCHANGED <<parent, kid, planner, paid, retried, overlapped, broken>>

\* The write names the parent's id and no more.
WriteParent(h) ==
    /\ hand[h].pc = "write"
    /\ parent' = [parent EXCEPT !.status = hand[h].status, !.held = FALSE]
    /\ Goes(h, IF hand[h].cascade = {} THEN AfterRefresh(hand[h])
               ELSE [hand[h] EXCEPT !.pc = "cascade"])
    /\ UNCHANGED <<kid, planner, paid, retried, overlapped, broken>>

\* The next child is cancelled, whatever it has become.
CancelSibling(h) ==
    /\ hand[h].pc = "cascade"
    /\ LET i == Min(hand[h].cascade)
           rest == hand[h].cascade \ {i}
           next == [hand[h] EXCEPT !.cascade = rest,
                        !.owed = IF hand[h].collects THEN @ \cup ({i} \cap hand[h].running) ELSE @]
       IN  /\ kid' = [kid EXCEPT ![i].status = "cancelled"]
           /\ Goes(h, IF rest = {} THEN AfterRefresh(next) ELSE next)
    /\ UNCHANGED <<parent, planner, paid, retried, overlapped, broken>>

----------------------------------------------------------------------------
(* The walk over a cancelled parent's children, and the receipts *)

WalkRead(h) ==
    /\ hand[h].pc = "walk read"
    /\ Goes(h, AfterRefresh([hand[h] EXCEPT !.walk = Left,
                                            !.running = {i \in Left : kid[i].status = "running"}]))
    /\ UNCHANGED <<parent, kid, planner, paid, retried, overlapped, broken>>

\* cancelJob for the next child, if it is live still; its parent is derived
\* again, which an ended parent is not.
WalkNext(h) ==
    /\ hand[h].pc = "walk"
    /\ LET i == Min(hand[h].walk)
           next == [hand[h] EXCEPT !.walk = @ \ {i}]
       IN  IF kid[i].status \in Live
           THEN /\ kid' = [kid EXCEPT ![i].status = "cancelled"]
                /\ Goes(h, [next EXCEPT !.pc = "parent",
                       !.owed = IF kid[i].status = "queued" THEN @ ELSE @ \cup ({i} \cap hand[h].running)])
           ELSE /\ Goes(h, AfterRefresh(next))
                /\ UNCHANGED kid
    /\ UNCHANGED <<parent, planner, paid, retried, overlapped, broken>>

Mint(h) ==
    /\ hand[h].pc = "mint"
    /\ paid' = [i \in Indices |-> IF i \in hand[h].owed THEN Min({2, paid[i] + 1}) ELSE paid[i]]
    /\ Goes(h, Idle)
    /\ UNCHANGED <<parent, kid, planner, retried, overlapped, broken>>

\* A statement fails, or the hub is evicted: the rest is never done.
BreakOff(h) ==
    /\ hand[h].pc # "idle"
    /\ Goes(h, Idle)
    /\ broken' = TRUE
    /\ UNCHANGED <<parent, kid, planner, paid, retried, overlapped>>

----------------------------------------------------------------------------

Moved(h) == \E i \in Indices :
    Claim(h, i) \/ Run(h, i) \/ Done(h, i) \/ Fail(h, i) \/ Requeue(h, i) \/ CancelChild(h, i)

Refreshing(h) == ReadParent(h) \/ ReadChildren(h) \/ WriteParent(h) \/ CancelSibling(h)

Next ==
    \/ Submit \/ PlanChildren \/ CreateChildren \/ FailToCreate
    \/ ClaimWhole \/ ReportWhole \/ Retry
    \/ \E h \in Handlers :
          Moved(h) \/ CancelParent(h) \/ Refreshing(h)
            \/ WalkRead(h) \/ WalkNext(h) \/ Mint(h) \/ BreakOff(h)

Spec == Init /\ [][Next]_vars

----------------------------------------------------------------------------
(* Properties *)

\* A workflow that may be split loses nothing by it: in every child's workflow
\* each output still hangs on the cut, and each sampler that takes a latent
\* takes its own piece of the batch (splitPlan and childWorkflow).
CutFeedsAll ==
    parent.status = "new" =>
        \A flow \in Law : \A s \in DOMAIN flow :
            Splittable(flow, s) =>
                LET child == ChildWorkflow(flow, s)
                IN  \A n \in DOMAIN flow :
                       /\ flow[n].class = "output" => HasAncestor(child, n, Cut)
                       /\ flow[n].class = "sampler" /\ flow[n].latent # NoLink =>
                             child[n].slot0 /\ ReachesBatchSource(child, child[n].latent, Cut)

\* A job marked split has all its children, and every image of the batch is in
\* exactly one of them, whatever overlaps or breaks off (createChildren).
BatchCovered ==
    parent.split > 0 /\ ~retried =>
        /\ Children = 0 .. parent.split - 1
        /\ UNION {kid[i].images : i \in Children} = 0 .. parent.plan - 1
        /\ \A i, j \in Children : i # j => kid[i].images \cap kid[j].images = {}

\* A batch is never run whole and in pieces: while no two handlers overlap and
\* none breaks off, a job a worker holds has no live child (childJobInsertStatement).
RunsOnce == parent.held /\ ~overlapped /\ ~broken => Left = {}

\* Once all is quiet the family agrees: the parent is what its children make it,
\* and a parent that ended leaves no child live (refreshParent).
FamilyAgrees ==
    Quiet /\ parent.split > 0 /\ ~overlapped /\ ~broken =>
        IF parent.status \in Terminal THEN Left = {} ELSE parent.status = Derived

\* A child is paid for its cancellation only if a worker ran it, and at most once
\* unless two handlers overlapped (mintCascadeCancelledReceipts).
CancelledPayIsDue ==
    \A i \in Indices : /\ paid[i] > 0 => kid[i].ran
                       /\ ~overlapped => paid[i] < 2

\* What splitting owes a batch: the cut feeds every sampler, every image is in
\* one child, and none is run both whole and in pieces (createChildren).
SplitSound == TypeOK /\ CutFeedsAll /\ BatchCovered /\ RunsOnce
=============================================================================
