----------------------------- MODULE JobProofs -----------------------------
(***************************************************************************)
(* What holds of a job and its family for any number of workers, handlers, *)
(* children and panels, each part by an inductive invariant of its own:    *)
(* IInv, IInvSerial and Capped of the job's row, FamilyInv of a batch job  *)
(* and its children, PanelsInv of what the panels are told, DownloadsInv   *)
(* of the jobs that only download a model, LearnInv of what completions    *)
(* teach.  The last section carries the parts' results over to the run,    *)
(* where each part is executed or rests.                                   *)
(***************************************************************************)
EXTENDS MCJob, FiniteSetTheorems, NaturalsInduction, TLAPS

----------------------------------------------------------------------------
(* The job's row and its handlers *)

WideRows == [status: Statuses, owner: Workers \cup {None}, last: Workers \cup {None},
             started: Workers \cup {None}, attempts: [Workers -> Nat], retried: BOOLEAN]

WideHands == [pc: Points, worker: Workers \cup {None}, attempts: [Workers -> Nat],
              ran: BOOLEAN]

\* The points at which a handler knows whom it serves.
Serving == Points \ {"ready", "over", "gone", "cancel check", "cancel write"}

\* The points at which it is about to finish the job, or to pay for it.
Earning == {"done write", "done again", "done pay"}

\* A handler's own state: it serves a worker, and one who had the job when it
\* is about to finish it.
Sound(s) ==
    /\ s.pc \in Serving => s.worker \in Workers
    /\ s.pc \in Earning => s.worker \in held

HandOK == hand \in [Handlers -> WideHands] /\ \A h \in Handlers : Sound(hand[h])

RowOK ==
    /\ row \in WideRows
    /\ held \subseteq Workers
    /\ row.owner # None => row.owner \in held
    /\ QueueSound

LedgerOK == ledger \in [Workers -> [Kinds -> Nat]] /\ PaidHadIt

IInv == HandOK /\ RowOK /\ LedgerOK

----------------------------------------------------------------------------

LEMMA InitIInv == Init => IInv
<1> SUFFICES ASSUME Init PROVE IInv
  OBVIOUS
<1>1. Ready \in WideHands /\ Ready.pc = "ready"
  BY DEF Ready, WideHands, Points
<1>2. HandOK
  BY <1>1 DEF Init, HandOK, Sound, Serving, Earning
<1>3. RowOK
  BY DEF Init, RowOK, NewRow, WideRows, QueueSound, Statuses
<1>4. LedgerOK
  BY GateAssumption DEF Init, LedgerOK, PaidHadIt, Kinds
<1> QED BY <1>2, <1>3, <1>4 DEF IInv

----------------------------------------------------------------------------
(* The primitives *)

\* A handler's state replaced by a sound one.
LEMMA HandStep ==
    ASSUME HandOK, held \subseteq held',
           NEW h \in Handlers, NEW s \in WideHands,
           s.pc \in Serving => s.worker \in Workers,
           s.pc \in Earning => s.worker \in held',
           hand' = [hand EXCEPT ![h] = s]
    PROVE  HandOK'
<1>1. hand' \in [Handlers -> WideHands]
  BY DEF HandOK
<1>2. ASSUME NEW g \in Handlers PROVE Sound(hand[g])'
  <2>1. hand'[g] = IF g = h THEN s ELSE hand[g]
    BY DEF HandOK
  <2>2. Sound(hand[g])
    BY DEF HandOK
  <2> QED BY <2>1, <2>2 DEF Sound
<1> QED BY <1>1, <1>2 DEF HandOK

\* A handler that goes on without looking at whom it serves.
LEMMA GoesStep ==
    ASSUME HandOK, held \subseteq held',
           NEW h \in Handlers, NEW pc \in Points, Goes(h, pc),
           pc \in Serving => hand[h].worker \in Workers,
           pc \in Earning => hand[h].worker \in held'
    PROVE  HandOK'
<1>1. hand[h] \in WideHands
  BY DEF HandOK
<1>2. CASE pc \in {"over", "gone"}
  <2> DEFINE s == [Ready EXCEPT !.pc = pc]
  <2>1. s \in WideHands /\ s.pc = pc
    BY DEF Ready, WideHands, Points
  <2>2. hand' = [hand EXCEPT ![h] = s]
    BY <1>2 DEF Goes
  <2>3. s.pc \notin Serving /\ s.pc \notin Earning
    BY <1>2, <2>1 DEF Serving, Earning
  <2> HIDE DEF s
  <2> QED BY <2>1, <2>2, <2>3, HandStep
<1>3. CASE pc \notin {"over", "gone"}
  <2> DEFINE s == [hand[h] EXCEPT !.pc = pc]
  <2>1. s \in WideHands /\ s.pc = pc /\ s.worker = hand[h].worker
    BY <1>1 DEF WideHands
  <2>2. hand' = [hand EXCEPT ![h] = s]
    BY <1>3 DEF Goes
  <2> HIDE DEF s
  <2> QED BY <2>1, <2>2, HandStep
<1> QED BY <1>2, <1>3

\* A row replaced by a sound one, and one more receipt for a worker who had it.
LEMMA PaysStep ==
    ASSUME IInv, NEW w \in Workers, NEW kind \in Kinds,
           kind = "completed" => w \in held,
           ledger' = [ledger EXCEPT ![w][kind] = @ + 1], UNCHANGED held
    PROVE  LedgerOK'
<1> DEFINE line == [ledger[w] EXCEPT ![kind] = @ + 1]
<1>1. ledger[w] \in [Kinds -> Nat] /\ "completed" \in Kinds
  BY DEF IInv, LedgerOK, Kinds
<1>2. line \in [Kinds -> Nat] /\ (kind # "completed" => line["completed"] = ledger[w]["completed"])
  BY <1>1
<1>3. ledger' = [ledger EXCEPT ![w] = line]
  OBVIOUS
<1> HIDE DEF line
<1>4. ledger' \in [Workers -> [Kinds -> Nat]]
  BY <1>2, <1>3 DEF IInv, LedgerOK
<1>5. ASSUME NEW v \in Workers, ledger'[v]["completed"] > 0 PROVE v \in held
  <2>1. ledger'[v] = IF v = w THEN line ELSE ledger[v]
    BY <1>3 DEF IInv, LedgerOK
  <2> QED BY <1>2, <1>5, <2>1 DEF IInv, LedgerOK, PaidHadIt
<1> QED BY <1>4, <1>5 DEF LedgerOK, PaidHadIt

\* Whom a handler serves, by where it is.
LEMMA Serves ==
    ASSUME IInv, NEW h \in Handlers
    PROVE  /\ hand[h] \in WideHands
           /\ hand[h].pc \in Serving => hand[h].worker \in Workers
           /\ hand[h].pc \in Earning => hand[h].worker \in held
BY DEF IInv, HandOK, Sound

\* Parts of the invariant that a step leaves alone.
LEMMA RowKept == ASSUME IInv, UNCHANGED <<row, held>> PROVE RowOK'
BY DEF IInv, RowOK, QueueSound

LEMMA LedgerKept == ASSUME IInv, UNCHANGED ledger, held \subseteq held' PROVE LedgerOK'
BY DEF IInv, LedgerOK, PaidHadIt

LEMMA HandKept == ASSUME IInv, UNCHANGED hand, held \subseteq held' PROVE HandOK'
BY DEF IInv, HandOK, Sound

\* A handler that only looks and goes on.
LEMMA LooksStep ==
    ASSUME IInv, NEW h \in Handlers, NEW here, NEW pc \in Points, Looks(h, here, pc),
           pc \in Serving => hand[h].worker \in Workers,
           pc \in Earning => hand[h].worker \in held
    PROVE  IInv'
<1>1. Goes(h, pc) /\ UNCHANGED <<row, ledger, held>>
  BY DEF Looks
<1> QED BY <1>1, GoesStep, RowKept, LedgerKept DEF IInv

\* A handler that writes a sound row and goes on.
LEMMA WritesStep ==
    ASSUME IInv, NEW h \in Handlers, NEW here, NEW pc \in Points, NEW new \in WideRows,
           Writes(h, here, new, pc),
           new.owner # None => new.owner \in held,
           new.status \in {"queued", "cancelled"} => new.owner = None,
           new.status = "assigned" => new.owner # None,
           pc \in Serving => hand[h].worker \in Workers,
           pc \in Earning => hand[h].worker \in held
    PROVE  IInv'
<1>1. Goes(h, pc) /\ row' = new /\ UNCHANGED <<ledger, held>>
  BY DEF Writes
<1>2. RowOK'
  BY <1>1 DEF IInv, RowOK, QueueSound
<1> QED BY <1>1, <1>2, GoesStep, LedgerKept DEF IInv

\* A handler that starts, for a worker who has the job if it is to finish it.
LEMMA ReadsStep ==
    ASSUME IInv, NEW h \in Handlers, NEW w \in Workers, NEW pc \in Points, Reads(h, w, pc),
           pc \in Earning => w \in held
    PROVE  IInv'
<1> DEFINE s == [hand[h] EXCEPT !.pc = pc, !.worker = w]
<1>1. hand[h] \in WideHands
  BY Serves
<1>2. s \in WideHands /\ s.pc = pc /\ s.worker = w
  BY <1>1 DEF WideHands
<1>3. hand' = [hand EXCEPT ![h] = s] /\ UNCHANGED <<row, ledger, held>>
  BY DEF Reads
<1> HIDE DEF s
<1>4. HandOK'
  BY <1>2, <1>3, HandStep DEF IInv
<1> QED BY <1>3, <1>4, RowKept, LedgerKept DEF IInv

\* A handler that mints a receipt, for one who had the job if it is paid.
LEMMA PaysKeeps ==
    ASSUME IInv, NEW h \in Handlers, NEW here, NEW kind \in Kinds, Pays(h, here, hand[h].worker, kind),
           hand[h].worker \in Workers, kind = "completed" => hand[h].worker \in held
    PROVE  IInv'
<1> DEFINE w == hand[h].worker
<1>1. ledger' = [ledger EXCEPT ![w][kind] = @ + 1] /\ Goes(h, "over") /\ UNCHANGED <<row, held>>
  BY DEF Pays
<1>2. LedgerOK'
  <2> HIDE DEF w
  <2> QED BY <1>1, PaysStep DEF w
<1>3. HandOK'
  BY <1>1, GoesStep DEF IInv, Points, Serving, Earning
<1> QED BY <1>1, <1>2, <1>3, RowKept DEF IInv

----------------------------------------------------------------------------
(* The steps of a report *)

LEMMA HeldHadIt == ASSUME IInv, NEW w \in Workers, Held(w) PROVE w \in held
BY GateAssumption DEF IInv, RowOK, Held

LEMMA HeartbeatStep ==
    ASSUME IInv, NEW h \in Handlers, RunWrite(h) \/ \E w \in Workers : RunCheck(h, w)
    PROVE  IInv'
<1>1. ASSUME NEW w \in Workers, RunCheck(h, w) PROVE IInv'
  BY <1>1, ReadsStep DEF RunCheck, Points, Earning
<1>2. CASE RunWrite(h)
  <2> DEFINE new == [row EXCEPT !.status = "running", !.started = hand[h].worker]
  <2>1. hand[h].worker \in Workers
    BY <1>2, Serves DEF RunWrite, Writes, At, Serving, Points
  <2>2. /\ new \in WideRows
        /\ new.owner = row.owner /\ new.status = "running"
    BY <2>1 DEF IInv, RowOK, WideRows, Statuses, Owned
  <2>3. new.owner # None => new.owner \in held
    BY <2>2 DEF IInv, RowOK
  <2>4. Writes(h, "run write", new, "over")
    BY <1>2 DEF RunWrite
  <2> HIDE DEF new
  <2> QED BY <2>2, <2>3, <2>4, WritesStep DEF Points, Serving, Earning
<1> QED BY <1>1, <1>2

LEMMA DoneStep ==
    ASSUME IInv, NEW h \in Handlers,
           \/ \E w \in Workers : DoneCheck(h, w)
           \/ DoneWrite(h) \/ DoneForeign(h) \/ DoneJudge(h) \/ DoneReadopt(h) \/ DoneAgain(h) \/ DonePay(h)
    PROVE  IInv'
<1> USE DEF Points, Serving, Earning
<1>1. ASSUME NEW w \in Workers, DoneCheck(h, w) PROVE IInv'
  <2> DEFINE pc == IF Held(w) THEN "done write" ELSE "done foreign"
  <2>1. pc \in Points /\ (pc \in Earning => w \in held)
    BY HeldHadIt
  <2>2. Reads(h, w, pc)
    BY <1>1 DEF DoneCheck
  <2> HIDE DEF pc
  <2> QED BY <2>1, <2>2, ReadsStep
<1>2. CASE DoneWrite(h)
  <2> DEFINE new == [row EXCEPT !.status = "done"]
  <2>1. hand[h].worker \in Workers /\ hand[h].worker \in held
    BY <1>2, Serves DEF DoneWrite, Writes, At
  <2>2. new \in WideRows /\ new.owner = row.owner /\ new.status = "done"
    BY DEF IInv, RowOK, WideRows, Statuses, Owned
  <2>3. new.owner # None => new.owner \in held
    BY <2>2 DEF IInv, RowOK
  <2>4. Writes(h, "done write", new, "done pay")
    BY <1>2 DEF DoneWrite
  <2> HIDE DEF new
  <2> QED BY <2>1, <2>2, <2>3, <2>4, WritesStep
<1>3. CASE DoneForeign(h)
  <2> DEFINE pc == IF row.owner # hand[h].worker THEN "done judge" ELSE "over"
  <2>1. hand[h].worker \in Workers
    BY <1>3, Serves DEF DoneForeign, Looks, At
  <2>2. Looks(h, "done foreign", pc) /\ pc \in Points /\ pc \notin Earning
    BY <1>3 DEF DoneForeign
  <2> HIDE DEF pc
  <2> QED BY <2>1, <2>2, LooksStep
<1>4. CASE DoneJudge(h)
  <2> DEFINE pc == IF row.started = None /\ row.attempts[hand[h].worker] > 0 THEN "over" ELSE "done readopt"
  <2>1. hand[h].worker \in Workers
    BY <1>4, Serves DEF DoneJudge, Looks, At
  <2>2. Looks(h, "done judge", pc) /\ pc \in Points /\ pc \notin Earning
    BY <1>4 DEF DoneJudge
  <2> HIDE DEF pc
  <2> QED BY <2>1, <2>2, LooksStep
<1>5. CASE DoneReadopt(h)
  <2> DEFINE w == hand[h].worker
             new == [row EXCEPT !.status = "assigned", !.owner = w]
  <2>1. w \in Workers
    BY <1>5, Serves DEF DoneReadopt, At
  <2>2. UNCHANGED ledger
    BY <1>5 DEF DoneReadopt
  <2>3. CASE row.status = "queued" /\ row.last = w
    <3>1. row' = new /\ held' = held \cup {w} /\ Goes(h, "done again")
      BY <1>5, <2>3 DEF DoneReadopt
    <3>2. new \in WideRows /\ new.owner = w /\ new.status = "assigned"
      BY <2>1 DEF IInv, RowOK, WideRows, Statuses, Owned
    <3> HIDE DEF new
    <3>3. RowOK'
      BY GateAssumption, <2>1, <3>1, <3>2 DEF IInv, RowOK, QueueSound
    <3>4. HandOK'
      BY <2>1, <3>1, GoesStep DEF IInv
    <3> QED BY <2>2, <3>1, <3>3, <3>4, LedgerKept DEF IInv
  <2>4. CASE ~(row.status = "queued" /\ row.last = w)
    <3>1. UNCHANGED <<row, held>> /\ Goes(h, "over")
      BY <1>5, <2>4 DEF DoneReadopt
    <3> QED BY <2>2, <3>1, GoesStep, RowKept, LedgerKept DEF IInv
  <2> QED BY <2>3, <2>4
<1>6. CASE DoneAgain(h)
  <2> DEFINE pc == IF Held(hand[h].worker) THEN "done write" ELSE "over"
  <2>1. hand[h].worker \in Workers /\ hand[h].worker \in held
    BY <1>6, Serves DEF DoneAgain, Looks, At
  <2>2. Looks(h, "done again", pc) /\ pc \in Points
    BY <1>6 DEF DoneAgain
  <2> HIDE DEF pc
  <2> QED BY <2>1, <2>2, LooksStep
<1>7. CASE DonePay(h)
  <2>1. hand[h].worker \in Workers /\ hand[h].worker \in held
    BY <1>7, Serves DEF DonePay, Pays, At
  <2> QED BY <1>7, <2>1, PaysKeeps DEF DonePay, Kinds
<1> QED BY <1>1, <1>2, <1>3, <1>4, <1>5, <1>6, <1>7

\* One attempt more is a count of attempts still.
LEMMA CountedType ==
    ASSUME NEW attempts \in [Workers -> Nat], NEW w \in Workers
    PROVE  Counted(attempts, w) \in [Workers -> Nat]
BY DEF Counted

LEMMA FailStep ==
    ASSUME IInv, NEW h \in Handlers,
           \/ \E w \in Workers : FailCheck(h, w)
           \/ FailCount(h) \/ FailRetry(h) \/ FailRetryWrite(h) \/ FailEnd(h) \/ FailEndWrite(h) \/ FailPay(h)
    PROVE  IInv'
<1> USE DEF Points, Serving, Earning
<1>0. hand[h] \in WideHands /\ row \in WideRows
  BY Serves DEF IInv, RowOK
<1>1. ASSUME NEW w \in Workers, FailCheck(h, w) PROVE IInv'
  <2> DEFINE s == [hand[h] EXCEPT !.pc = "fail count", !.worker = w, !.attempts = row.attempts]
  <2>1. s \in WideHands /\ s.pc = "fail count" /\ s.worker = w
    BY <1>0 DEF WideHands, WideRows
  <2>2. hand' = [hand EXCEPT ![h] = s] /\ UNCHANGED <<row, ledger, held>>
    BY <1>1 DEF FailCheck
  <2> HIDE DEF s
  <2>3. HandOK'
    BY <2>1, <2>2, HandStep DEF IInv
  <2> QED BY <2>2, <2>3, RowKept, LedgerKept DEF IInv
<1>2. CASE FailCount(h)
  <2> DEFINE attempts == Counted(hand[h].attempts, hand[h].worker)
             new == [row EXCEPT !.attempts = attempts]
  <2>1. PICK next \in {"fail retry", "fail end"} : Writes(h, "fail count", new, next)
    BY <1>2 DEF FailCount
  <2>2. hand[h].worker \in Workers
    BY <2>1, Serves DEF Writes, At
  <2>3. attempts \in [Workers -> Nat]
    BY <1>0, <2>2, CountedType DEF WideHands
  <2> HIDE DEF attempts
  <2>4. new \in WideRows /\ new.owner = row.owner /\ new.status = row.status
    BY <1>0, <2>3 DEF WideRows
  <2> HIDE DEF new
  <2>5. /\ new.owner # None => new.owner \in held
        /\ new.status \in {"queued", "cancelled"} => new.owner = None
        /\ new.status = "assigned" => new.owner # None
    BY <2>4 DEF IInv, RowOK, QueueSound
  <2> QED BY <2>1, <2>2, <2>4, <2>5, WritesStep
<1>3. CASE FailRetry(h)
  <2> DEFINE pc == IF Held(hand[h].worker) THEN "fail retry write" ELSE "fail end"
  <2>1. hand[h].worker \in Workers
    BY <1>3, Serves DEF FailRetry, Looks, At
  <2>2. Looks(h, "fail retry", pc) /\ pc \in Points /\ pc \notin Earning
    BY <1>3 DEF FailRetry
  <2> HIDE DEF pc
  <2> QED BY <2>1, <2>2, LooksStep
<1>4. CASE FailRetryWrite(h)
  <2> DEFINE new == [row EXCEPT !.status = "queued", !.last = hand[h].worker, !.owner = None,
                                !.started = None, !.retried = TRUE]
  <2>1. hand[h].worker \in Workers
    BY <1>4, Serves DEF FailRetryWrite, Writes, At
  <2>2. new \in WideRows /\ new.owner = None /\ new.status = "queued"
    BY <1>0, <2>1 DEF WideRows, Statuses, Owned
  <2>3. Writes(h, "fail retry write", new, "fail pay")
    BY <1>4 DEF FailRetryWrite
  <2> HIDE DEF new
  <2> QED BY <2>1, <2>2, <2>3, WritesStep
<1>5. CASE FailEnd(h)
  <2> DEFINE pc == IF Held(hand[h].worker) THEN "fail end write" ELSE "over"
  <2>1. hand[h].worker \in Workers
    BY <1>5, Serves DEF FailEnd, Looks, At
  <2>2. Looks(h, "fail end", pc) /\ pc \in Points /\ pc \notin Earning
    BY <1>5 DEF FailEnd
  <2> HIDE DEF pc
  <2> QED BY <2>1, <2>2, LooksStep
<1>6. CASE FailEndWrite(h)
  <2> DEFINE new == [row EXCEPT !.status = "failed"]
  <2>1. hand[h].worker \in Workers
    BY <1>6, Serves DEF FailEndWrite, Writes, At
  <2>2. new \in WideRows /\ new.owner = row.owner /\ new.status = "failed"
    BY <1>0 DEF WideRows, Statuses, Owned
  <2>3. new.owner # None => new.owner \in held
    BY <2>2 DEF IInv, RowOK
  <2>4. Writes(h, "fail end write", new, "fail pay")
    BY <1>6 DEF FailEndWrite
  <2> HIDE DEF new
  <2> QED BY <2>1, <2>2, <2>3, <2>4, WritesStep
<1>7. CASE FailPay(h)
  <2>1. hand[h].worker \in Workers
    BY <1>7, Serves DEF FailPay, Pays, At
  <2> QED BY <1>7, <2>1, PaysKeeps DEF FailPay, Kinds
<1> QED BY <1>1, <1>2, <1>3, <1>4, <1>5, <1>6, <1>7

----------------------------------------------------------------------------
(* The steps of a cancellation, and the other statements *)

LEMMA CancelStep == ASSUME IInv, NEW h \in Handlers, Cancel(h) PROVE IInv'
<1> USE DEF Points, Serving, Earning
<1>0. hand[h] \in WideHands /\ row \in WideRows
  BY Serves DEF IInv, RowOK
<1>1. CASE CancelLook(h)
  <2> DEFINE ran == row.status = "running" /\ row.started # None
             s == [hand[h] EXCEPT !.pc = "cancel check", !.ran = ran]
  <2>1. s \in WideHands /\ s.pc = "cancel check"
    BY <1>0 DEF WideHands
  <2>2. hand' = [hand EXCEPT ![h] = s] /\ UNCHANGED <<row, ledger, held>>
    BY <1>1 DEF CancelLook
  <2> HIDE DEF s
  <2>3. HandOK'
    BY <2>1, <2>2, HandStep DEF IInv
  <2> QED BY <2>2, <2>3, RowKept, LedgerKept DEF IInv
<1>2. CASE CancelCheck(h)
  <2> DEFINE s == [hand[h] EXCEPT !.pc = "cancel write", !.worker = row.owner]
  <2>1. s \in WideHands /\ s.pc = "cancel write"
    BY <1>0 DEF WideHands, WideRows
  <2>2. UNCHANGED <<row, ledger, held>>
    BY <1>2 DEF CancelCheck
  <2>3. CASE Cancellable
    <3>1. hand' = [hand EXCEPT ![h] = s]
      BY <1>2, <2>3 DEF CancelCheck
    <3> HIDE DEF s
    <3>2. HandOK'
      BY <2>1, <2>2, <3>1, HandStep DEF IInv
    <3> QED BY <2>2, <3>2, RowKept, LedgerKept DEF IInv
  <2>4. CASE ~Cancellable
    <3>1. Goes(h, "over")
      BY <1>2, <2>4 DEF CancelCheck
    <3> QED BY <2>2, <3>1, GoesStep, RowKept, LedgerKept DEF IInv
  <2> QED BY <2>3, <2>4
<1>3. CASE CancelWrite(h)
  <2> DEFINE owner == hand[h].worker
             new == CancelledFrom(owner)
             pc == IF hand[h].ran /\ owner # None THEN "cancel pay" ELSE "over"
  <2>1. owner \in Workers \cup {None}
    BY <1>0 DEF WideHands
  <2>2. new \in WideRows /\ new.owner = None /\ new.status = "cancelled"
    BY <1>0, <2>1 DEF WideRows, Statuses, CancelledFrom
  <2>3. Writes(h, "cancel write", new, pc)
    BY <1>3 DEF CancelWrite
  <2>4. pc \in Points /\ pc \notin Earning /\ (pc \in Serving => owner \in Workers)
    BY <2>1
  <2> HIDE DEF new, pc
  <2> QED BY <2>2, <2>3, <2>4, WritesStep
<1>4. CASE CancelPay(h)
  <2>1. hand[h].worker \in Workers
    BY <1>4, Serves DEF CancelPay, Pays, At
  <2> QED BY <1>4, <2>1, PaysKeeps DEF CancelPay, Kinds
<1> QED BY <1>1, <1>2, <1>3, <1>4 DEF Cancel

LEMMA AbandonStep == ASSUME IInv, NEW h \in Handlers, Abandon(h) PROVE IInv'
<1>1. Goes(h, "gone") /\ UNCHANGED <<row, ledger, held>>
  BY DEF Abandon
<1> QED BY <1>1, GoesStep, RowKept, LedgerKept DEF IInv, Points, Serving, Earning

\* A statement that checks and writes at once: the row it writes is sound.
LEMMA AtomicStep ==
    ASSUME IInv, NEW new \in WideRows, row' = new,
           held \subseteq held', held' \subseteq Workers, UNCHANGED <<hand, ledger>>,
           new.owner # None => new.owner \in held',
           new.status \in {"queued", "cancelled"} => new.owner = None,
           new.status = "assigned" => new.owner # None
    PROVE  IInv'
<1>1. RowOK'
  BY DEF IInv, RowOK, QueueSound
<1> QED BY <1>1, HandKept, LedgerKept DEF IInv

LEMMA StatementStep == ASSUME IInv, Statement PROVE IInv'
<1> USE DEF Statuses, Owned
<1>0. row \in WideRows
  BY DEF IInv, RowOK
<1>1. ASSUME NEW w \in Workers, Claim(w) PROVE IInv'
  <2> DEFINE new == [row EXCEPT !.status = "assigned", !.owner = w]
  <2>1. new \in WideRows /\ new.owner = w /\ new.status = "assigned" /\ w # None
    BY <1>0, GateAssumption DEF WideRows
  <2>2. row' = new /\ held' = held \cup {w} /\ UNCHANGED <<hand, ledger>>
    BY <1>1 DEF Claim
  <2> HIDE DEF new
  <2> QED BY <2>1, <2>2, AtomicStep DEF IInv, RowOK
<1>2. ASSUME NEW w \in Workers, Requeue(w) PROVE IInv'
  <2> DEFINE new == [row EXCEPT !.status = "queued", !.last = w, !.owner = None]
  <2>1. new \in WideRows /\ new.owner = None /\ new.status = "queued"
    BY <1>0 DEF WideRows
  <2>2. row' = new /\ UNCHANGED <<hand, ledger, held>>
    BY <1>2 DEF Requeue
  <2> HIDE DEF new
  <2> QED BY <2>1, <2>2, AtomicStep DEF IInv, RowOK
<1>3. CASE Sweep
  <2> DEFINE new == [row EXCEPT !.status = "failed"]
  <2>1. new \in WideRows /\ new.owner = None /\ new.status = "failed"
    BY <1>0, <1>3 DEF WideRows, Sweep, IInv, RowOK, QueueSound
  <2>2. row' = new /\ UNCHANGED <<hand, ledger, held>>
    BY <1>3 DEF Sweep
  <2> HIDE DEF new
  <2> QED BY <2>1, <2>2, AtomicStep DEF IInv, RowOK
<1>4. CASE Retry
  <2> DEFINE new == [row EXCEPT !.status = "queued", !.owner = None, !.started = None]
  <2>1. new \in WideRows /\ new.owner = None /\ new.status = "queued"
    BY <1>0 DEF WideRows
  <2>2. row' = new /\ UNCHANGED <<hand, ledger, held>>
    BY <1>4 DEF Retry
  <2> HIDE DEF new
  <2> QED BY <2>1, <2>2, AtomicStep DEF IInv, RowOK
<1> QED BY <1>1, <1>2, <1>3, <1>4 DEF Statement

----------------------------------------------------------------------------
(* The theorems *)

LEMMA NextIInv == IInv /\ [Next]_vars => IInv'
<1> SUFFICES ASSUME IInv, [Next]_vars PROVE IInv'
  OBVIOUS
<1>1. ASSUME NEW h \in Handlers, Report(h) PROVE IInv'
  BY <1>1, HeartbeatStep, DoneStep, FailStep DEF Report
<1>2. ASSUME NEW h \in Handlers, Cancel(h) PROVE IInv'
  BY <1>2, CancelStep
<1>3. ASSUME NEW h \in Handlers, Abandon(h) PROVE IInv'
  BY <1>3, AbandonStep
<1>4. CASE Statement
  BY <1>4, StatementStep
<1>5. CASE UNCHANGED vars
  BY <1>5, RowKept, LedgerKept, HandKept DEF vars, IInv
<1> QED BY <1>1, <1>2, <1>3, <1>4, <1>5 DEF Next

LEMMA IInvHolds == Spec => []IInv
<1>1. Init => IInv
  BY InitIInv
<1>2. IInv /\ [Next]_vars => IInv'
  BY NextIInv
<1> QED BY <1>1, <1>2, PTL DEF Spec

\* However many handlers overlap, and wherever they break off, a queued or
\* cancelled job has no owner and an assigned one has: the updates that are
\* conditional on the job's id alone never queue a job that a worker still owns.
THEOREM QueueSoundHolds == Spec => []QueueSound
<1>1. IInv => QueueSound
  BY DEF IInv, RowOK
<1> QED BY <1>1, IInvHolds, PTL

\* However many handlers overlap, nobody gets a completed receipt who never had
\* the job: not through a late job_done, not through a re-adoption.
THEOREM PaidHadItHolds == Spec => []PaidHadIt
<1>1. IInv => PaidHadIt
  BY DEF IInv, LedgerOK
<1> QED BY <1>1, IInvHolds, PTL

----------------------------------------------------------------------------
(* Without overlap *)

Idle == {"ready", "over", "gone"}

\* The points between the check of a failure that was counted and its receipt.
Failing == {"fail retry", "fail retry write", "fail end", "fail end write", "fail pay"}

NobodyPaid == \A w \in Workers : ledger[w]["completed"] = 0

\* What the one handler in progress may rely on, whatever statements come between.
Stands(h) ==
    LET pc == hand[h].pc IN
    /\ row.status = "done" =>
          pc \in Idle \cup {"done pay", "done foreign", "done judge", "done readopt"}
    /\ row.status = "cancelled" =>
          pc \in Idle \cup {"cancel pay", "done foreign", "done judge", "done readopt"}
    /\ pc = "done pay" => row.status = "done" /\ NobodyPaid
    /\ pc = "fail count" => hand[h].attempts = row.attempts
    /\ pc \in Failing => ledger[hand[h].worker]["failed"] < row.attempts[hand[h].worker]

Books ==
    /\ row.status # "done" => NobodyPaid
    /\ PaidAtMostOnce
    /\ FailuresCounted

\* One handler is in progress at a time.
AtATime == \A g, h \in InProgress : g = h

Serial ==
    /\ AtATime
    /\ \A h \in Handlers : Stands(h)
    /\ Books

IInvSerial == IInv /\ mixed \in BOOLEAN /\ (~mixed => Serial)

LEMMA AtMostOne ==
    ASSUME NEW Q, IsFiniteSet(Q), ~(Cardinality(Q) > 1)
    PROVE  \A g, h \in Q : g = h
<1> SUFFICES ASSUME NEW g \in Q, NEW h \in Q, g # h PROVE FALSE
  OBVIOUS
<1>1. IsFiniteSet({g}) /\ Cardinality({g}) = 1
  BY FS_Singleton
<1>2. Cardinality({g} \cup {h}) = 2
  BY <1>1, FS_AddElement
<1>3. Cardinality({g} \cup {h}) <= Cardinality(Q)
  BY FS_Subset
<1>4. Cardinality(Q) \in Nat
  BY FS_CardinalityType
<1> QED BY <1>2, <1>3, <1>4

\* Handler h takes a step, ending in state s: the others are idle.
LEMMA OthersIdle ==
    ASSUME IInv, Serial, AtATime',
           NEW h \in Handlers, NEW s \in WideHands, hand' = [hand EXCEPT ![h] = s],
           hand[h].pc \notin Idle \/ s.pc \notin Idle
    PROVE  /\ hand'[h] = s
           /\ \A g \in Handlers : g # h => hand'[g] = hand[g] /\ hand'[g].pc \in Idle
<1>1. /\ hand'[h] = s
      /\ \A g \in Handlers : g # h => hand'[g] = hand[g]
  BY DEF IInv, HandOK
<1>2. CASE hand[h].pc \notin Idle
  BY <1>1, <1>2 DEF Serial, AtATime, InProgress, Idle
<1>3. CASE s.pc \notin Idle
  BY <1>1, <1>3 DEF AtATime, InProgress, Idle
<1> QED BY <1>1, <1>2, <1>3

\* So only its own claims and the books need to be looked at.
LEMMA SerialStep ==
    ASSUME IInv, Serial, AtATime',
           NEW h \in Handlers, NEW s \in WideHands, hand' = [hand EXCEPT ![h] = s],
           hand[h].pc \notin Idle \/ s.pc \notin Idle,
           Stands(h)', Books'
    PROVE  Serial'
<1>1. \A g \in Handlers : g # h => hand'[g].pc \in Idle
  BY OthersIdle
<1>2. \A g \in Handlers : g # h => Stands(g)'
  BY <1>1 DEF Stands, Idle, Failing
<1> QED BY <1>2 DEF Serial

\* The state a handler goes on in.
LEMMA GoneOn ==
    ASSUME IInv, NEW h \in Handlers, NEW pc \in Points, Goes(h, pc)
    PROVE  \E s \in WideHands :
              /\ hand' = [hand EXCEPT ![h] = s] /\ hand'[h] = s /\ s.pc = pc
              /\ pc \notin {"over", "gone"} => s.worker = hand[h].worker /\ s.attempts = hand[h].attempts
<1>1. hand[h] \in WideHands
  BY Serves
<1>2. CASE pc \in {"over", "gone"}
  <2> DEFINE s == [Ready EXCEPT !.pc = pc]
  <2>1. s \in WideHands /\ s.pc = pc
    BY DEF Ready, WideHands, Points
  <2>2. hand' = [hand EXCEPT ![h] = s]
    BY <1>2 DEF Goes
  <2> HIDE DEF s
  <2> QED BY <1>2, <2>1, <2>2 DEF IInv, HandOK
<1>3. CASE pc \notin {"over", "gone"}
  <2> DEFINE s == [hand[h] EXCEPT !.pc = pc]
  <2>1. s \in WideHands /\ s.pc = pc /\ s.worker = hand[h].worker /\ s.attempts = hand[h].attempts
    BY <1>1 DEF WideHands
  <2>2. hand' = [hand EXCEPT ![h] = s]
    BY <1>3 DEF Goes
  <2> HIDE DEF s
  <2> QED BY <2>1, <2>2 DEF IInv, HandOK
<1> QED BY <1>2, <1>3

\* A handler in progress goes on from a point of its own.
LEMMA SerialGoes ==
    ASSUME IInv, Serial, AtATime',
           NEW h \in Handlers, NEW pc \in Points, Goes(h, pc), hand[h].pc \notin Idle,
           /\ hand'[h].pc = pc
           /\ pc \notin {"over", "gone"} =>
                 hand'[h].worker = hand[h].worker /\ hand'[h].attempts = hand[h].attempts
           => Stands(h)',
           Books'
    PROVE  Serial'
<1>1. PICK s \in WideHands :
         /\ hand' = [hand EXCEPT ![h] = s] /\ hand'[h] = s /\ s.pc = pc
         /\ pc \notin {"over", "gone"} => s.worker = hand[h].worker /\ s.attempts = hand[h].attempts
  BY GoneOn
<1>2. Stands(h)'
  BY <1>1
<1> QED BY <1>1, <1>2, SerialStep

\* The books of a step that mints nothing and writes no attempts.
LEMMA BooksKept ==
    ASSUME IInv, Serial, UNCHANGED ledger, row'.attempts = row.attempts,
           row.status = "done" => row'.status = "done"
    PROVE  Books'
BY DEF Serial, Books, NobodyPaid, PaidAtMostOnce, FailuresCounted

LEMMA SerialHeartbeat ==
    ASSUME IInv, Serial, IInv', AtATime', NEW h \in Handlers,
           RunWrite(h) \/ \E w \in Workers : RunCheck(h, w)
    PROVE  Serial'
<1> USE DEF Points, Idle
<1>1. ASSUME NEW w \in Workers, RunCheck(h, w) PROVE Serial'
  <2> DEFINE s == [hand[h] EXCEPT !.pc = "run write", !.worker = w]
  <2>1. hand[h] \in WideHands
    BY Serves
  <2>2. s \in WideHands /\ s.pc = "run write"
    BY <2>1 DEF WideHands
  <2>3. hand' = [hand EXCEPT ![h] = s] /\ UNCHANGED <<row, ledger, held>> /\ row.status = "assigned"
    BY <1>1 DEF RunCheck, Reads
  <2> HIDE DEF s
  <2>4. hand'[h] = s
    BY <2>2, <2>3 DEF IInv, HandOK
  <2>5. Stands(h)'
    BY <2>2, <2>3, <2>4 DEF Stands, Failing
  <2>6. Books'
    BY <2>3, BooksKept
  <2> QED BY <2>2, <2>3, <2>5, <2>6, SerialStep
<1>2. CASE RunWrite(h)
  <2> DEFINE new == [row EXCEPT !.status = "running", !.started = hand[h].worker]
  <2>1. hand[h].pc = "run write" /\ row' = new /\ Goes(h, "over") /\ UNCHANGED <<ledger, held>>
    BY <1>2 DEF RunWrite, Writes, At
  <2>2. new.status = "running" /\ new.attempts = row.attempts
    BY DEF IInv, RowOK, WideRows
  <2>3. row.status # "done"
    BY <2>1 DEF Serial, Stands
  <2> HIDE DEF new
  <2>4. Books'
    BY <2>1, <2>2, <2>3, BooksKept
  <2>5. hand'[h].pc = "over" => Stands(h)'
    BY DEF Stands, Failing
  <2> QED BY <2>1, <2>4, <2>5, SerialGoes
<1> QED BY <1>1, <1>2

\* A handler that starts on a message of w.
LEMMA SerialReads ==
    ASSUME IInv, Serial, AtATime', NEW h \in Handlers, NEW w \in Workers,
           NEW pc \in Points, Reads(h, w, pc), pc \notin Idle,
           row.status = "done" => pc = "done foreign",
           row.status = "cancelled" => pc = "done foreign",
           pc \notin {"done pay", "fail count"} \cup Failing
    PROVE  Serial'
<1> DEFINE s == [hand[h] EXCEPT !.pc = pc, !.worker = w]
<1>1. hand[h] \in WideHands
  BY Serves
<1>2. s \in WideHands /\ s.pc = pc
  BY <1>1 DEF WideHands
<1>3. hand' = [hand EXCEPT ![h] = s] /\ UNCHANGED <<row, ledger, held>>
  BY DEF Reads
<1> HIDE DEF s
<1>4. hand'[h] = s
  BY <1>2, <1>3 DEF IInv, HandOK
<1>5. Stands(h)'
  BY <1>2, <1>3, <1>4 DEF Stands
<1>6. Books'
  BY <1>3, BooksKept
<1> QED BY <1>2, <1>3, <1>5, <1>6, SerialStep

\* A handler that only looks, and goes on to a point that asks for nothing new.
LEMMA SerialLooks ==
    ASSUME IInv, Serial, AtATime', NEW h \in Handlers,
           NEW here \in Points \ Idle, NEW pc \in Points, Looks(h, here, pc),
           row.status \in {"done", "cancelled"} => pc \in Idle \cup {"done judge", "done readopt"},
           pc \notin {"done pay", "fail count"},
           pc \in Failing => here \in Failing
    PROVE  Serial'
<1>1. hand[h].pc = here /\ Goes(h, pc) /\ UNCHANGED <<row, ledger, held>>
  BY DEF Looks, At
<1>2. Books'
  BY <1>1, BooksKept
<1>3. here \in Failing => ledger[hand[h].worker]["failed"] < row.attempts[hand[h].worker]
  BY <1>1 DEF Serial, Stands
<1>4. ASSUME /\ hand'[h].pc = pc
             /\ pc \notin {"over", "gone"} => hand'[h].worker = hand[h].worker
      PROVE  Stands(h)'
  BY <1>1, <1>3, <1>4 DEF Stands, Failing, Idle
<1> QED BY <1>1, <1>2, <1>4, SerialGoes

\* A handler that writes the row and goes on, at a point where it is not done.
LEMMA SerialWrites ==
    ASSUME IInv, Serial, AtATime', NEW h \in Handlers,
           NEW here \in Points \ Idle, NEW new, NEW pc \in Points, Writes(h, here, new, pc),
           row.status # "done", new.attempts = row.attempts,
           new.status = "done" => pc = "done pay",
           new.status = "cancelled" => pc \in {"cancel pay", "over"},
           pc = "done pay" => new.status = "done", pc # "fail count",
           pc \in Failing => here \in Failing
    PROVE  Serial'
<1>1. hand[h].pc = here /\ row' = new /\ Goes(h, pc) /\ UNCHANGED <<ledger, held>>
  BY DEF Writes, At
<1>2. Books'
  BY <1>1, BooksKept
<1>3. here \in Failing => ledger[hand[h].worker]["failed"] < row.attempts[hand[h].worker]
  BY <1>1 DEF Serial, Stands
<1>4. NobodyPaid
  BY DEF Serial, Books
<1>5. ASSUME /\ hand'[h].pc = pc
             /\ pc \notin {"over", "gone"} => hand'[h].worker = hand[h].worker
      PROVE  Stands(h)'
  BY <1>1, <1>3, <1>4, <1>5 DEF Stands, Failing, Idle, NobodyPaid
<1> QED BY <1>1, <1>2, <1>5, SerialGoes

\* What one more receipt does to the receipts.
LEMMA OneReceipt ==
    ASSUME IInv, NEW w \in Workers, NEW kind \in Kinds, ledger' = [ledger EXCEPT ![w][kind] = @ + 1]
    PROVE  /\ ledger'[w][kind] = ledger[w][kind] + 1
           /\ \A v \in Workers, k \in Kinds : v # w \/ k # kind => ledger'[v][k] = ledger[v][k]
BY DEF IInv, LedgerOK

\* The first completed receipt of a done job, and a failed one of a counted
\* attempt, keep the books.
LEMMA BooksPaid ==
    ASSUME IInv, Books, UNCHANGED row, NEW w \in Workers, NEW kind \in Kinds,
           ledger' = [ledger EXCEPT ![w][kind] = @ + 1],
           kind = "completed" => row.status = "done" /\ NobodyPaid,
           kind = "failed" => ledger[w]["failed"] < row.attempts[w]
    PROVE  Books'
<1>1. "completed" \in Kinds /\ "failed" \in Kinds
  BY DEF Kinds
<1>2. /\ ledger'[w][kind] = ledger[w][kind] + 1
      /\ \A v \in Workers, k \in Kinds : v # w \/ k # kind => ledger'[v][k] = ledger[v][k]
  BY OneReceipt
<1>3. row'.status # "done" => NobodyPaid'
  BY <1>1, <1>2 DEF Books, NobodyPaid
<1>4. CASE kind = "completed"
  <2>1. ledger'[w]["completed"] = 1 /\ \A v \in Workers : v # w => ledger'[v]["completed"] = 0
    BY <1>1, <1>2, <1>4 DEF NobodyPaid
  <2>2. PaidAtMostOnce'
    BY <2>1 DEF PaidAtMostOnce
  <2>3. FailuresCounted'
    BY <1>1, <1>2, <1>4 DEF Books, FailuresCounted
  <2> QED BY <1>3, <2>2, <2>3 DEF Books
<1>5. CASE kind = "failed"
  <2>1. PaidAtMostOnce'
    BY <1>1, <1>2, <1>5 DEF Books, PaidAtMostOnce
  <2>2. \A v \in Workers : /\ ledger[v]["failed"] \in Nat /\ row.attempts[v] \in Nat
                           /\ ledger[v]["failed"] <= row.attempts[v]
    BY <1>1 DEF IInv, RowOK, WideRows, LedgerOK, Books, FailuresCounted
  <2>3. ASSUME NEW v \in Workers PROVE ledger'[v]["failed"] <= row.attempts[v]
    BY <1>1, <1>2, <1>5, <2>2
  <2> QED BY <1>3, <2>1, <2>3 DEF Books, FailuresCounted
<1>6. CASE kind = "cancelled"
  BY <1>1, <1>2, <1>3, <1>6 DEF Books, PaidAtMostOnce, FailuresCounted
<1> QED BY <1>4, <1>5, <1>6 DEF Kinds

\* A handler that mints its receipt and is over.
LEMMA SerialPays ==
    ASSUME IInv, Serial, AtATime', NEW h \in Handlers,
           NEW here \in Points \ Idle, NEW kind \in Kinds, Pays(h, here, hand[h].worker, kind),
           hand[h].worker \in Workers,
           kind = "completed" => here = "done pay",
           kind = "failed" => here \in Failing
    PROVE  Serial'
<1> DEFINE w == hand[h].worker
<1>1. /\ hand[h].pc = here /\ Goes(h, "over") /\ UNCHANGED <<row, held>>
      /\ ledger' = [ledger EXCEPT ![w][kind] = @ + 1]
  BY DEF Pays, At
<1>2. kind = "completed" => row.status = "done" /\ NobodyPaid
  BY <1>1 DEF Serial, Stands
<1>3. kind = "failed" => ledger[w]["failed"] < row.attempts[w]
  BY <1>1 DEF Serial, Stands
<1>5. hand'[h].pc = "over" => Stands(h)'
  BY DEF Stands, Failing, Idle
<1> HIDE DEF w
<1>8. Books'
  BY <1>1, <1>2, <1>3, BooksPaid DEF w, Serial
<1>9. "over" \in Points
  BY DEF Points
<1> QED BY <1>1, <1>5, <1>8, <1>9, SerialGoes

LEMMA SerialDone ==
    ASSUME IInv, Serial, AtATime', NEW h \in Handlers,
           \/ \E w \in Workers : DoneCheck(h, w)
           \/ DoneWrite(h) \/ DoneForeign(h) \/ DoneJudge(h) \/ DoneReadopt(h) \/ DoneAgain(h) \/ DonePay(h)
    PROVE  Serial'
<1> USE DEF Points, Idle, Failing
<1>1. ASSUME NEW w \in Workers, DoneCheck(h, w) PROVE Serial'
  <2> DEFINE pc == IF Held(w) THEN "done write" ELSE "done foreign"
  <2>1. pc \in {"done write", "done foreign"} /\ Reads(h, w, pc)
    BY <1>1 DEF DoneCheck
  <2>2. row.status \in {"done", "cancelled"} => pc = "done foreign"
    BY DEF Held, Owned
  <2> HIDE DEF pc
  <2> QED BY <2>1, <2>2, SerialReads
<1>2. CASE DoneWrite(h)
  <2> DEFINE new == [row EXCEPT !.status = "done"]
  <2>1. Writes(h, "done write", new, "done pay") /\ hand[h].pc = "done write"
    BY <1>2 DEF DoneWrite, Writes, At
  <2>2. new.status = "done" /\ new.attempts = row.attempts
    BY DEF IInv, RowOK, WideRows
  <2>3. row.status # "done"
    BY <2>1 DEF Serial, Stands
  <2> HIDE DEF new
  <2> QED BY <2>1, <2>2, <2>3, SerialWrites
<1>3. CASE DoneForeign(h)
  <2> DEFINE pc == IF row.owner # hand[h].worker THEN "done judge" ELSE "over"
  <2>1. Looks(h, "done foreign", pc) /\ pc \in {"done judge", "over"}
    BY <1>3 DEF DoneForeign
  <2> HIDE DEF pc
  <2> QED BY <2>1, SerialLooks
<1>4. CASE DoneJudge(h)
  <2> DEFINE pc == IF row.started = None /\ row.attempts[hand[h].worker] > 0 THEN "over" ELSE "done readopt"
  <2>1. Looks(h, "done judge", pc) /\ pc \in {"done readopt", "over"}
    BY <1>4 DEF DoneJudge
  <2> HIDE DEF pc
  <2> QED BY <2>1, SerialLooks
<1>5. CASE DoneReadopt(h)
  <2>1. hand[h].pc = "done readopt" /\ UNCHANGED ledger
    BY <1>5 DEF DoneReadopt, At
  <2>2. CASE row.status = "queued" /\ row.last = hand[h].worker
    <3> DEFINE new == [row EXCEPT !.status = "assigned", !.owner = hand[h].worker]
    <3>1. row' = new /\ Goes(h, "done again")
      BY <1>5, <2>2 DEF DoneReadopt
    <3>2. new.status = "assigned" /\ new.attempts = row.attempts
      BY DEF IInv, RowOK, WideRows
    <3> HIDE DEF new
    <3>3. Books'
      BY <2>1, <2>2, <3>1, <3>2, BooksKept
    <3>4. hand'[h].pc = "done again" => Stands(h)'
      BY <3>1, <3>2 DEF Stands
    <3> QED BY <2>1, <3>1, <3>3, <3>4, SerialGoes
  <2>3. CASE ~(row.status = "queued" /\ row.last = hand[h].worker)
    <3>1. Looks(h, "done readopt", "over")
      BY <1>5, <2>3 DEF DoneReadopt, Looks
    <3> QED BY <3>1, SerialLooks
  <2> QED BY <2>2, <2>3
<1>6. CASE DoneAgain(h)
  <2> DEFINE pc == IF Held(hand[h].worker) THEN "done write" ELSE "over"
  <2>1. Looks(h, "done again", pc) /\ pc \in {"done write", "over"}
    BY <1>6 DEF DoneAgain
  <2>2. row.status \in {"done", "cancelled"} => pc = "over"
    BY DEF Held, Owned
  <2> HIDE DEF pc
  <2> QED BY <2>1, <2>2, SerialLooks
<1>7. CASE DonePay(h)
  <2>1. hand[h].worker \in Workers
    BY <1>7, Serves DEF DonePay, Pays, At, Serving
  <2> QED BY <1>7, <2>1, SerialPays DEF DonePay, Kinds
<1> QED BY <1>1, <1>2, <1>3, <1>4, <1>5, <1>6, <1>7

\* One more attempt counted leaves room for a receipt of that worker.
LEMMA OneMoreAttempt ==
    ASSUME IInv, FailuresCounted, NEW w \in Workers, NEW attempts,
           attempts = [row.attempts EXCEPT ![w] = @ + 1]
    PROVE  /\ ledger[w]["failed"] < attempts[w]
           /\ \A v \in Workers : ledger[v]["failed"] <= attempts[v]
<1>1. \A v \in Workers : /\ ledger[v]["failed"] \in Nat /\ row.attempts[v] \in Nat
                         /\ ledger[v]["failed"] <= row.attempts[v]
  BY DEF IInv, RowOK, WideRows, LedgerOK, Kinds, FailuresCounted
<1>2. attempts[w] = row.attempts[w] + 1 /\ \A v \in Workers \ {w} : attempts[v] = row.attempts[v]
  BY DEF IInv, RowOK, WideRows
<1> QED BY <1>1, <1>2

LEMMA SerialFail ==
    ASSUME IInv, Serial, AtATime', NEW h \in Handlers,
           \/ \E w \in Workers : FailCheck(h, w)
           \/ FailCount(h) \/ FailRetry(h) \/ FailRetryWrite(h) \/ FailEnd(h) \/ FailEndWrite(h) \/ FailPay(h)
    PROVE  Serial'
<1> USE DEF Points, Idle, Failing
<1>0. hand[h] \in WideHands /\ row \in WideRows
  BY Serves DEF IInv, RowOK
<1>1. ASSUME NEW w \in Workers, FailCheck(h, w) PROVE Serial'
  <2> DEFINE s == [hand[h] EXCEPT !.pc = "fail count", !.worker = w, !.attempts = row.attempts]
  <2>1. s \in WideHands /\ s.pc = "fail count" /\ s.attempts = row.attempts
    BY <1>0 DEF WideHands, WideRows
  <2>2. hand' = [hand EXCEPT ![h] = s] /\ UNCHANGED <<row, ledger, held>> /\ row.status \in Owned
    BY <1>1 DEF FailCheck, Held
  <2> HIDE DEF s
  <2>3. hand'[h] = s
    BY <2>1, <2>2 DEF IInv, HandOK
  <2>4. Stands(h)'
    BY <2>1, <2>2, <2>3 DEF Stands, Owned
  <2>5. Books'
    BY <2>2, BooksKept
  <2> QED BY <2>1, <2>2, <2>4, <2>5, SerialStep
<1>2. CASE FailCount(h)
  <2> DEFINE w == hand[h].worker
             attempts == Counted(hand[h].attempts, w)
             new == [row EXCEPT !.attempts = attempts]
  <2>1. PICK next \in {"fail retry", "fail end"} : Writes(h, "fail count", new, next)
    BY <1>2 DEF FailCount
  <2>2. hand[h].pc = "fail count" /\ row' = new /\ Goes(h, next) /\ UNCHANGED <<ledger, held>>
    BY <2>1 DEF Writes, At
  <2>3. w \in Workers /\ hand[h].attempts = row.attempts /\ row.status \notin {"done", "cancelled"}
    BY <2>2, Serves DEF Serving, Serial, Stands
  <2>4. FailuresCounted
    BY DEF Serial, Books
  <2>5. attempts = [row.attempts EXCEPT ![w] = @ + 1]
    BY <2>3 DEF Counted
  <2> HIDE DEF attempts, w
  <2>6. new.attempts = attempts /\ new.status = row.status
    BY <1>0 DEF WideRows
  <2> HIDE DEF new
  <2>7. /\ ledger[w]["failed"] < attempts[w]
        /\ \A v \in Workers : ledger[v]["failed"] <= attempts[v]
    BY <2>3, <2>4, <2>5, OneMoreAttempt DEF w
  <2>8. Books'
    BY <2>2, <2>3, <2>6, <2>7 DEF Serial, Books, NobodyPaid, PaidAtMostOnce, FailuresCounted
  <2>9. hand'[h].pc = next /\ hand'[h].worker = w => Stands(h)'
    BY <2>2, <2>3, <2>6, <2>7 DEF Stands
  <2> QED BY <2>2, <2>8, <2>9, SerialGoes DEF w
<1>3. CASE FailRetry(h)
  <2> DEFINE pc == IF Held(hand[h].worker) THEN "fail retry write" ELSE "fail end"
  <2>1. Looks(h, "fail retry", pc) /\ pc \in Failing /\ hand[h].pc = "fail retry"
    BY <1>3 DEF FailRetry, Looks, At
  <2>2. row.status \notin {"done", "cancelled"} /\ pc \notin {"done pay", "fail count"}
    BY <2>1 DEF Serial, Stands
  <2> HIDE DEF pc
  <2> QED BY <2>1, <2>2, SerialLooks
<1>4. CASE FailRetryWrite(h)
  <2> DEFINE new == [row EXCEPT !.status = "queued", !.last = hand[h].worker, !.owner = None,
                                !.started = None, !.retried = TRUE]
  <2>1. Writes(h, "fail retry write", new, "fail pay") /\ hand[h].pc = "fail retry write"
    BY <1>4 DEF FailRetryWrite, Writes, At
  <2>2. new.status = "queued" /\ new.attempts = row.attempts
    BY <1>0 DEF WideRows
  <2>3. row.status # "done"
    BY <2>1 DEF Serial, Stands
  <2> HIDE DEF new
  <2> QED BY <2>1, <2>2, <2>3, SerialWrites
<1>5. CASE FailEnd(h)
  <2> DEFINE pc == IF Held(hand[h].worker) THEN "fail end write" ELSE "over"
  <2>1. Looks(h, "fail end", pc) /\ pc \in {"fail end write", "over"} /\ hand[h].pc = "fail end"
    BY <1>5 DEF FailEnd, Looks, At
  <2>2. row.status \notin {"done", "cancelled"}
    BY <2>1 DEF Serial, Stands
  <2> HIDE DEF pc
  <2> QED BY <2>1, <2>2, SerialLooks
<1>6. CASE FailEndWrite(h)
  <2> DEFINE new == [row EXCEPT !.status = "failed"]
  <2>1. Writes(h, "fail end write", new, "fail pay") /\ hand[h].pc = "fail end write"
    BY <1>6 DEF FailEndWrite, Writes, At
  <2>2. new.status = "failed" /\ new.attempts = row.attempts
    BY <1>0 DEF WideRows
  <2>3. row.status # "done"
    BY <2>1 DEF Serial, Stands
  <2> HIDE DEF new
  <2> QED BY <2>1, <2>2, <2>3, SerialWrites
<1>7. CASE FailPay(h)
  <2>1. hand[h].worker \in Workers
    BY <1>7, Serves DEF FailPay, Pays, At, Serving
  <2> QED BY <1>7, <2>1, SerialPays DEF FailPay, Kinds
<1> QED BY <1>1, <1>2, <1>3, <1>4, <1>5, <1>6, <1>7

LEMMA SerialCancel ==
    ASSUME IInv, Serial, AtATime', NEW h \in Handlers, Cancel(h)
    PROVE  Serial'
<1> USE DEF Points, Idle, Failing
<1>0. hand[h] \in WideHands /\ row \in WideRows
  BY Serves DEF IInv, RowOK
<1>1. CASE CancelLook(h)
  <2> DEFINE ran == row.status = "running" /\ row.started # None
             s == [hand[h] EXCEPT !.pc = "cancel check", !.ran = ran]
  <2>1. s \in WideHands /\ s.pc = "cancel check"
    BY <1>0 DEF WideHands
  <2>2. hand' = [hand EXCEPT ![h] = s] /\ UNCHANGED <<row, ledger, held>> /\ Cancellable
    BY <1>1 DEF CancelLook
  <2> HIDE DEF s
  <2>3. hand'[h] = s
    BY <2>1, <2>2 DEF IInv, HandOK
  <2>4. Stands(h)'
    BY <2>1, <2>2, <2>3 DEF Stands, Cancellable, Owned
  <2>5. Books'
    BY <2>2, BooksKept
  <2> QED BY <2>1, <2>2, <2>4, <2>5, SerialStep
<1>2. CASE CancelCheck(h)
  <2>1. hand[h].pc = "cancel check" /\ UNCHANGED <<row, ledger, held>>
    BY <1>2 DEF CancelCheck, At
  <2>2. CASE Cancellable
    <3> DEFINE s == [hand[h] EXCEPT !.pc = "cancel write", !.worker = row.owner]
    <3>1. s \in WideHands /\ s.pc = "cancel write"
      BY <1>0 DEF WideHands, WideRows
    <3>2. hand' = [hand EXCEPT ![h] = s]
      BY <1>2, <2>2 DEF CancelCheck
    <3> HIDE DEF s
    <3>3. hand'[h] = s
      BY <3>1, <3>2 DEF IInv, HandOK
    <3>4. Stands(h)'
      BY <2>1, <2>2, <3>1, <3>3 DEF Stands, Cancellable, Owned
    <3>5. Books'
      BY <2>1, BooksKept
    <3> QED BY <2>1, <3>1, <3>2, <3>4, <3>5, SerialStep
  <2>3. CASE ~Cancellable
    <3>1. Looks(h, "cancel check", "over")
      BY <1>2, <2>3 DEF CancelCheck, Looks
    <3> QED BY <3>1, SerialLooks
  <2> QED BY <2>2, <2>3
<1>3. CASE CancelWrite(h)
  <2> DEFINE owner == hand[h].worker
             new == CancelledFrom(owner)
             pc == IF hand[h].ran /\ owner # None THEN "cancel pay" ELSE "over"
  <2>1. Writes(h, "cancel write", new, pc) /\ hand[h].pc = "cancel write" /\ pc \in {"cancel pay", "over"}
    BY <1>3 DEF CancelWrite, Writes, At
  <2>2. new.status = "cancelled" /\ new.attempts = row.attempts
    BY <1>0 DEF WideRows, CancelledFrom
  <2>3. row.status # "done"
    BY <2>1 DEF Serial, Stands
  <2> HIDE DEF new, pc
  <2> QED BY <2>1, <2>2, <2>3, SerialWrites
<1>4. CASE CancelPay(h)
  <2>1. hand[h].worker \in Workers
    BY <1>4, Serves DEF CancelPay, Pays, At, Serving
  <2> QED BY <1>4, <2>1, SerialPays DEF CancelPay, Kinds
<1> QED BY <1>1, <1>2, <1>3, <1>4 DEF Cancel

LEMMA SerialAbandon ==
    ASSUME IInv, Serial, AtATime', NEW h \in Handlers, Abandon(h)
    PROVE  Serial'
<1>1. hand[h].pc \notin Idle /\ Goes(h, "gone") /\ UNCHANGED <<row, ledger, held>>
  BY DEF Abandon, InProgress, Idle
<1>2. Books'
  BY <1>1, BooksKept
<1>3. hand'[h].pc = "gone" => Stands(h)'
  BY DEF Stands, Failing, Idle
<1> QED BY <1>1, <1>2, <1>3, SerialGoes DEF Points

LEMMA SerialStatement == ASSUME IInv, Serial, Statement PROVE Serial'
<1>1. /\ UNCHANGED <<hand, ledger>> /\ row'.attempts = row.attempts
      /\ row.status # "done" /\ row.status # "cancelled"
      /\ row'.status # "done" /\ row'.status # "cancelled"
  BY DEF Statement, Claim, Claimable, Requeue, Held, Owned, Sweep, Retry, IInv, RowOK, WideRows
<1>2. Books'
  BY <1>1, BooksKept
<1>3. ASSUME NEW h \in Handlers PROVE Stands(h)'
  BY <1>1 DEF Serial, Stands, NobodyPaid
<1>4. InProgress' = InProgress
  BY <1>1 DEF InProgress
<1> QED BY <1>2, <1>3, <1>4, SMTT(30) DEF Serial, AtATime

LEMMA SerialKept == ASSUME Serial, UNCHANGED <<row, hand, ledger>> PROVE Serial'
BY DEF Serial, AtATime, Stands, Books, NobodyPaid, PaidAtMostOnce, FailuresCounted, InProgress, Failing, Idle

LEMMA InitSerial == Init => IInvSerial
<1> SUFFICES ASSUME Init PROVE IInvSerial
  OBVIOUS
<1>1. \A h \in Handlers : hand[h].pc = "ready"
  BY DEF Init, Ready
<1>2. row.status = "queued" /\ \A w \in Workers : row.attempts[w] = 0
  BY DEF Init, NewRow
<1>3. \A w \in Workers : ledger[w]["completed"] = 0 /\ ledger[w]["failed"] = 0
  BY DEF Init, Kinds
<1>4. Books
  BY <1>2, <1>3 DEF Books, NobodyPaid, PaidAtMostOnce, FailuresCounted
<1>5. \A h \in Handlers : Stands(h)
  BY <1>1, <1>2 DEF Stands, Idle, Failing
<1>6. InProgress = {}
  BY <1>1 DEF InProgress
<1> QED BY <1>4, <1>5, <1>6, InitIInv DEF IInvSerial, Serial, AtATime, Init

LEMMA NextSerial == IInvSerial /\ [Next]_vars => IInvSerial'
<1> SUFFICES ASSUME IInvSerial, [Next]_vars PROVE IInvSerial'
  OBVIOUS
<1>1. IInv'
  BY NextIInv DEF IInvSerial
<1>2. mixed' \in BOOLEAN
  BY DEF IInvSerial, Next, vars
<1>3. CASE UNCHANGED vars
  BY <1>1, <1>2, <1>3, SerialKept DEF vars, IInvSerial
<1>4. ASSUME Next, ~mixed' PROVE Serial'
  <2>1. ~mixed /\ ~(Cardinality(InProgress') > 1)
    BY <1>4 DEF Next, IInvSerial
  <2>2. IsFiniteSet(InProgress')
    BY GateAssumption, FS_Subset DEF InProgress
  <2>3. AtATime'
    <3> DEFINE Q == InProgress'
    <3>1. IsFiniteSet(Q) /\ ~(Cardinality(Q) > 1)
      BY <2>1, <2>2
    <3> HIDE DEF Q
    <3>2. \A g, k \in Q : g = k
      BY <3>1, AtMostOne
    <3> QED BY <3>2 DEF Q, AtATime
  <2>4. Serial /\ IInv
    BY <2>1 DEF IInvSerial
  <2>5. ASSUME NEW h \in Handlers, Report(h) PROVE Serial'
    BY <1>1, <2>3, <2>4, <2>5, SerialHeartbeat, SerialDone, SerialFail DEF Report
  <2>6. ASSUME NEW h \in Handlers, Cancel(h) PROVE Serial'
    BY <2>3, <2>4, <2>6, SerialCancel
  <2>7. ASSUME NEW h \in Handlers, Abandon(h) PROVE Serial'
    BY <2>3, <2>4, <2>7, SerialAbandon
  <2>8. CASE Statement
    BY <2>4, <2>8, SerialStatement
  <2> QED BY <1>4, <2>5, <2>6, <2>7, <2>8 DEF Next
<1> QED BY <1>1, <1>2, <1>3, <1>4 DEF IInvSerial

LEMMA SerialHolds == Spec => []IInvSerial
<1>1. Init => IInvSerial
  BY InitSerial
<1>2. IInvSerial /\ [Next]_vars => IInvSerial'
  BY NextSerial
<1> QED BY <1>1, <1>2, PTL DEF Spec

----------------------------------------------------------------------------
(* The attempts counted: every handler counts one failure at the most *)

\* The handlers that will not count another failure.
Spent == {h \in Handlers : hand[h].pc \notin {"ready", "fail count"}}

Capped ==
    /\ \A w \in Workers : row.attempts[w] <= Cardinality(Spent)
    /\ \A h \in Handlers, w \in Workers : hand[h].attempts[w] <= Cardinality(Spent)

LEMMA SpentFinite ==
    IsFiniteSet(Spent) /\ Cardinality(Spent) \in Nat /\ Cardinality(Spent) <= Cardinality(Handlers)
<1>1. IsFiniteSet(Handlers) /\ Spent \subseteq Handlers
  BY GateAssumption DEF Spent
<1> QED BY <1>1, FS_Subset, FS_CardinalityType

\* Handler h moves on to state s: it does not become unspent.
MovesOn(h, s) == s.pc \notin {"ready", "fail count"} \/ hand[h].pc = "ready"

\* One handler moves on: no handler becomes unspent, and one that counted is spent.
LEMMA SpentGrows ==
    ASSUME IInv, NEW h \in Handlers, NEW s \in WideHands, hand' = [hand EXCEPT ![h] = s],
           MovesOn(h, s)
    PROVE  /\ Cardinality(Spent') \in Nat
           /\ Cardinality(Spent) <= Cardinality(Spent')
           /\ hand[h].pc = "fail count" => Cardinality(Spent) + 1 <= Cardinality(Spent')
<1> DEFINE Q == Spent
           T == Spent'
<1>1. \A g \in Handlers : hand'[g] = IF g = h THEN s ELSE hand[g]
  BY DEF IInv, HandOK
<1>2. Q \subseteq T /\ T \subseteq Handlers
  BY <1>1 DEF Spent, MovesOn
<1>3. IsFiniteSet(Q) /\ IsFiniteSet(T)
  BY <1>2, GateAssumption, FS_Subset
<1>4. hand[h].pc = "fail count" => h \notin Q /\ Q \cup {h} \subseteq T
  BY <1>1, <1>2 DEF Spent, MovesOn
<1> HIDE DEF Q, T
<1>5. Cardinality(Q) \in Nat /\ Cardinality(T) \in Nat /\ Cardinality(Q) <= Cardinality(T)
  BY <1>2, <1>3, FS_Subset, FS_CardinalityType
<1>6. CASE hand[h].pc = "fail count"
  <2>1. Cardinality(Q \cup {h}) = Cardinality(Q) + 1
    BY <1>3, <1>4, <1>6, FS_AddElement
  <2>2. Cardinality(Q \cup {h}) <= Cardinality(T)
    BY <1>3, <1>4, <1>6, FS_Subset
  <2> QED BY <1>5, <2>1, <2>2 DEF Q, T
<1> QED BY <1>5, <1>6 DEF Q, T

\* A handler's state replaced, the attempts it knows its own, the row's or none.
LEMMA CapMoves ==
    ASSUME IInv, IInv', Capped, NEW h \in Handlers, NEW s \in WideHands, hand' = [hand EXCEPT ![h] = s],
           MovesOn(h, s),
           row'.attempts = row.attempts,
           \/ s.attempts \in {hand[h].attempts, row.attempts}
           \/ \A w \in Workers : s.attempts[w] = 0
    PROVE  Capped'
<1>0. PICK n \in Nat, m \in Nat : n = Cardinality(Spent) /\ m = Cardinality(Spent')
  BY SpentGrows, SpentFinite
<1>1. n <= m
  BY <1>0, SpentGrows
<1>2. /\ \A w \in Workers : row.attempts[w] <= n
      /\ \A g \in Handlers, w \in Workers : hand[g].attempts[w] <= n
  BY <1>0 DEF Capped
<1>3. /\ \A w \in Workers : row.attempts[w] \in Nat
      /\ \A g \in Handlers, w \in Workers : hand[g].attempts[w] \in Nat
  <2>1. \A g \in Handlers : hand[g] \in WideHands
    BY Serves
  <2>2. row \in WideRows
    BY DEF IInv, RowOK
  <2> QED BY <2>1, <2>2 DEF WideRows, WideHands
<1>4. \A g \in Handlers : hand'[g] = IF g = h THEN s ELSE hand[g]
  BY DEF IInv, HandOK
<1>5. \A w \in Workers : row'.attempts[w] <= m
  BY <1>1, <1>2, <1>3
<1>6. ASSUME NEW g \in Handlers, NEW w \in Workers PROVE hand'[g].attempts[w] <= m
  <2>1. CASE g # h
    <3>1. hand'[g].attempts[w] = hand[g].attempts[w]
      BY <1>4, <2>1
    <3> QED BY <1>1, <1>2, <1>3, <3>1
  <2>2. CASE g = h
    <3>1. hand'[g].attempts[w] = s.attempts[w]
      BY <1>4, <2>2
    <3>2. s.attempts[w] <= n
      BY <1>1, <1>2, <1>3
    <3>3. s.attempts[w] \in Nat
      BY DEF WideHands
    <3> QED BY <1>1, <3>1, <3>2, <3>3
  <2> QED BY <2>1, <2>2
<1> QED BY <1>0, <1>5, <1>6 DEF Capped

LEMMA CapGoes ==
    ASSUME IInv, IInv', Capped, NEW h \in Handlers,
           NEW pc \in Points \ {"ready", "fail count"}, Goes(h, pc), row'.attempts = row.attempts
    PROVE  Capped'
<1>1. hand[h] \in WideHands
  BY Serves
<1>2. CASE pc \in {"over", "gone"}
  <2> DEFINE s == [Ready EXCEPT !.pc = pc]
  <2>1. s \in WideHands /\ s.pc = pc /\ \A w \in Workers : s.attempts[w] = 0
    BY DEF Ready, WideHands, Points
  <2>2. hand' = [hand EXCEPT ![h] = s]
    BY <1>2 DEF Goes
  <2> HIDE DEF s
  <2> QED BY <2>1, <2>2, CapMoves DEF MovesOn
<1>3. CASE pc \notin {"over", "gone"}
  <2> DEFINE s == [hand[h] EXCEPT !.pc = pc]
  <2>1. s \in WideHands /\ s.pc = pc /\ s.attempts = hand[h].attempts
    BY <1>1 DEF WideHands
  <2>2. hand' = [hand EXCEPT ![h] = s]
    BY <1>3 DEF Goes
  <2> HIDE DEF s
  <2> QED BY <2>1, <2>2, CapMoves DEF MovesOn
<1> QED BY <1>2, <1>3

\* One more attempt written, by a handler that becomes spent.
LEMMA CapOneMore ==
    ASSUME IInv, Capped, NEW h \in Handlers, NEW w \in Workers,
           row'.attempts = [hand[h].attempts EXCEPT ![w] = @ + 1],
           \A g \in Handlers : hand'[g].attempts = hand[g].attempts,
           Cardinality(Spent') \in Nat, Cardinality(Spent) + 1 <= Cardinality(Spent')
    PROVE  Capped'
<1>1. PICK n \in Nat, m \in Nat : n = Cardinality(Spent) /\ m = Cardinality(Spent')
  BY SpentFinite
<1>2. n + 1 <= m
  BY <1>1
<1>3. \A g \in Handlers, v \in Workers : hand[g].attempts[v] \in Nat /\ hand[g].attempts[v] <= n
  BY <1>1, Serves DEF WideHands, Capped
<1>4. ASSUME NEW v \in Workers PROVE row'.attempts[v] <= m
  <2>1. hand[h].attempts \in [Workers -> Nat]
    BY Serves DEF WideHands
  <2>2. CASE v = w
    <3>1. row'.attempts[v] = hand[h].attempts[v] + 1
      BY <2>1, <2>2
    <3> QED BY <1>2, <1>3, <3>1
  <2>3. CASE v # w
    <3>1. row'.attempts[v] = hand[h].attempts[v]
      BY <2>1, <2>3
    <3> QED BY <1>2, <1>3, <3>1
  <2> QED BY <2>2, <2>3
<1>5. \A g \in Handlers, v \in Workers : hand'[g].attempts[v] <= m
  BY <1>2, <1>3
<1> QED BY <1>1, <1>4, <1>5 DEF Capped

\* The handler that counts a failure spends itself.
LEMMA CapCounts ==
    ASSUME IInv, IInv', Capped, NEW h \in Handlers, FailCount(h)
    PROVE  Capped'
<1> DEFINE w == hand[h].worker
           attempts == Counted(hand[h].attempts, w)
           new == [row EXCEPT !.attempts = attempts]
<1>0. hand[h] \in WideHands /\ row \in WideRows
  BY Serves DEF IInv, RowOK
<1>1. PICK next \in {"fail retry", "fail end"} : Writes(h, "fail count", new, next)
  BY DEF FailCount
<1>2. hand[h].pc = "fail count" /\ row' = new /\ Goes(h, next)
  BY <1>1 DEF Writes, At
<1>3. w \in Workers
  BY <1>2, Serves DEF Serving, Points
<1> DEFINE s == [hand[h] EXCEPT !.pc = next]
<1>4. s \in WideHands /\ s.pc = next /\ s.attempts = hand[h].attempts
  BY <1>0 DEF WideHands, Points
<1>5. hand' = [hand EXCEPT ![h] = s]
  BY <1>2 DEF Goes
<1> HIDE DEF s
<1>6. Cardinality(Spent') \in Nat /\ Cardinality(Spent) + 1 <= Cardinality(Spent')
  BY <1>2, <1>4, <1>5, SpentGrows DEF MovesOn
<1>7. \A g \in Handlers : hand'[g].attempts = hand[g].attempts
  BY <1>4, <1>5 DEF IInv, HandOK
<1>8. row'.attempts = [hand[h].attempts EXCEPT ![w] = @ + 1]
  BY <1>0, <1>2 DEF Counted, WideRows
<1> QED BY <1>3, <1>6, <1>7, <1>8, CapOneMore

\* The handler of a message starts.
LEMMA CapReads ==
    ASSUME IInv, IInv', Capped, NEW h \in Handlers, NEW w \in Workers, NEW pc \in Points, Reads(h, w, pc)
    PROVE  Capped'
<1> DEFINE s == [hand[h] EXCEPT !.pc = pc, !.worker = w]
<1>1. hand[h] \in WideHands
  BY Serves
<1>2. s \in WideHands /\ s.attempts = hand[h].attempts
  BY <1>1 DEF WideHands
<1>3. hand' = [hand EXCEPT ![h] = s] /\ row' = row /\ hand[h].pc = "ready"
  BY DEF Reads, At
<1> HIDE DEF s
<1> QED BY <1>2, <1>3, CapMoves DEF MovesOn

LEMMA CapReport == ASSUME IInv, IInv', Capped, NEW h \in Handlers, Report(h) PROVE Capped'
<1> USE DEF Points
<1>1. row \in WideRows /\ hand[h] \in WideHands
  BY Serves DEF IInv, RowOK
<1>2. ASSUME NEW w \in Workers, RunCheck(h, w) PROVE Capped'
  BY <1>2, CapReads DEF RunCheck
<1>3. ASSUME NEW w \in Workers, DoneCheck(h, w) PROVE Capped'
  BY <1>3, CapReads DEF DoneCheck
<1>4. ASSUME NEW w \in Workers, FailCheck(h, w) PROVE Capped'
  <2> DEFINE s == [hand[h] EXCEPT !.pc = "fail count", !.worker = w, !.attempts = row.attempts]
  <2>1. s \in WideHands /\ s.attempts = row.attempts
    BY <1>1 DEF WideHands, WideRows
  <2>2. hand' = [hand EXCEPT ![h] = s] /\ row' = row /\ hand[h].pc = "ready"
    BY <1>4 DEF FailCheck, At
  <2> HIDE DEF s
  <2> QED BY <2>1, <2>2, CapMoves DEF MovesOn
<1>5. CASE FailCount(h)
  BY <1>5, CapCounts
<1>6. CASE RunWrite(h) \/ DoneWrite(h) \/ FailRetryWrite(h) \/ FailEndWrite(h)
  <2>1. row'.attempts = row.attempts
    BY <1>1, <1>6 DEF RunWrite, DoneWrite, FailRetryWrite, FailEndWrite, Writes, WideRows
  <2> QED BY <1>6, <2>1, CapGoes DEF RunWrite, DoneWrite, FailRetryWrite, FailEndWrite, Writes
<1>7. CASE DoneForeign(h) \/ DoneJudge(h) \/ DoneAgain(h) \/ FailRetry(h) \/ FailEnd(h)
  BY <1>7, CapGoes DEF DoneForeign, DoneJudge, DoneAgain, FailRetry, FailEnd, Looks
<1>8. CASE DonePay(h) \/ FailPay(h)
  BY <1>8, CapGoes DEF DonePay, FailPay, Pays
<1>9. CASE DoneReadopt(h)
  <2>1. row'.attempts = row.attempts
    BY <1>1, <1>9 DEF DoneReadopt, WideRows
  <2> QED BY <1>9, <2>1, CapGoes DEF DoneReadopt
<1> QED BY <1>2, <1>3, <1>4, <1>5, <1>6, <1>7, <1>8, <1>9 DEF Report

LEMMA CapCancel == ASSUME IInv, IInv', Capped, NEW h \in Handlers, Cancel(h) PROVE Capped'
<1> USE DEF Points
<1>1. row \in WideRows /\ hand[h] \in WideHands
  BY Serves DEF IInv, RowOK
<1>2. CASE CancelLook(h)
  <2> DEFINE ran == row.status = "running" /\ row.started # None
             s == [hand[h] EXCEPT !.pc = "cancel check", !.ran = ran]
  <2>1. s \in WideHands /\ s.attempts = hand[h].attempts /\ s.pc = "cancel check"
    BY <1>1 DEF WideHands
  <2>2. hand' = [hand EXCEPT ![h] = s] /\ row' = row
    BY <1>2 DEF CancelLook
  <2> HIDE DEF s
  <2> QED BY <2>1, <2>2, CapMoves DEF MovesOn
<1>3. CASE CancelCheck(h) /\ Cancellable
  <2> DEFINE s == [hand[h] EXCEPT !.pc = "cancel write", !.worker = row.owner]
  <2>1. s \in WideHands /\ s.attempts = hand[h].attempts /\ s.pc = "cancel write"
    BY <1>1 DEF WideHands, WideRows
  <2>2. hand' = [hand EXCEPT ![h] = s] /\ row' = row
    BY <1>3 DEF CancelCheck
  <2> HIDE DEF s
  <2> QED BY <2>1, <2>2, CapMoves DEF MovesOn
<1>4. CASE CancelCheck(h) /\ ~Cancellable
  BY <1>4, CapGoes DEF CancelCheck
<1>5. CASE CancelWrite(h)
  <2>1. row'.attempts = row.attempts
    BY <1>1, <1>5 DEF CancelWrite, Writes, CancelledFrom, WideRows
  <2> QED BY <1>5, <2>1, CapGoes DEF CancelWrite, Writes
<1>6. CASE CancelPay(h)
  BY <1>6, CapGoes DEF CancelPay, Pays
<1> QED BY <1>2, <1>3, <1>4, <1>5, <1>6 DEF Cancel

LEMMA CapNext == IInv /\ IInv' /\ Capped /\ [Next]_vars => Capped'
<1> SUFFICES ASSUME IInv, IInv', Capped, [Next]_vars PROVE Capped'
  OBVIOUS
<1>1. ASSUME NEW h \in Handlers, Report(h) \/ Cancel(h) PROVE Capped'
  BY <1>1, CapReport, CapCancel
<1>2. ASSUME NEW h \in Handlers, Abandon(h) PROVE Capped'
  BY <1>2, CapGoes DEF Abandon, Points
<1>3. CASE Statement
  <2>1. UNCHANGED hand /\ row'.attempts = row.attempts
    BY <1>3 DEF Statement, Claim, Requeue, Sweep, Retry, IInv, RowOK, WideRows
  <2> QED BY <2>1 DEF Capped, Spent
<1>4. CASE UNCHANGED vars
  BY <1>4 DEF vars, Capped, Spent
<1> QED BY <1>1, <1>2, <1>3, <1>4 DEF Next

LEMMA InitCapped == Init => Capped
<1> SUFFICES ASSUME Init PROVE Capped
  OBVIOUS
<1>1. \A w \in Workers : row.attempts[w] = 0 /\ \A h \in Handlers : hand[h].attempts[w] = 0
  BY DEF Init, NewRow, Ready
<1> QED BY <1>1, SpentFinite DEF Capped

\* The counts are within the number of handlers.
LEMMA CappedType == IInv /\ mixed \in BOOLEAN /\ Capped => TypeOK
<1> SUFFICES ASSUME IInv, mixed \in BOOLEAN, Capped PROVE TypeOK
  OBVIOUS
<1> DEFINE n == Cardinality(Spent)
           top == Cardinality(Handlers)
<1>1. n \in Nat /\ n <= top /\ top \in Nat
  BY SpentFinite, GateAssumption, FS_CardinalityType
<1>2. /\ \A w \in Workers : row.attempts[w] <= n
      /\ \A h \in Handlers, w \in Workers : hand[h].attempts[w] <= n
  BY DEF Capped
<1>3. row \in WideRows /\ \A h \in Handlers : hand[h] \in WideHands
  BY DEF IInv, RowOK, HandOK
<1> HIDE DEF n, top
<1>4. row.attempts \in [Workers -> 0 .. top]
  <2>1. \A w \in Workers : row.attempts[w] \in Nat
    BY <1>3 DEF WideRows
  <2>2. \A w \in Workers : row.attempts[w] \in 0 .. top
    BY <1>1, <1>2, <2>1
  <2> QED BY <1>3, <2>2 DEF WideRows
<1>5. ASSUME NEW h \in Handlers PROVE hand[h].attempts \in [Workers -> 0 .. top]
  <2>1. \A w \in Workers : hand[h].attempts[w] \in Nat
    BY <1>3 DEF WideHands
  <2>2. \A w \in Workers : hand[h].attempts[w] \in 0 .. top
    BY <1>1, <1>2, <2>1
  <2> QED BY <1>3, <2>2 DEF WideHands
<1>6. row \in Rows
  BY <1>3, <1>4 DEF Rows, WideRows, Attempts, top
<1>7. \A h \in Handlers : hand[h] \in HandlerStates
  BY <1>3, <1>5 DEF HandlerStates, WideHands, Attempts, top
<1> QED BY <1>6, <1>7 DEF TypeOK, IInv, HandOK, RowOK, LedgerOK

\* As long as no two handlers of the job overlapped, whatever claims, recalls,
\* sweeps, retries and errors came between a handler's statements: the job is
\* paid once at the most, and no failed receipt is minted without an attempt of
\* that worker counted.  Typed in any case: no count exceeds the messages.
THEOREM GateSoundHolds == Spec => []GateSound
<1> DEFINE Inv == IInvSerial /\ Capped
<1>1. Init => Inv
  BY InitSerial, InitCapped
<1>2. Inv /\ [Next]_vars => Inv'
  BY NextSerial, CapNext DEF IInvSerial
<1>3. Inv => GateSound
  BY CappedType DEF IInvSerial, GateSound, Serial, Books
<1> QED BY <1>1, <1>2, <1>3, PTL DEF Spec

\* Without overlap a job that is done, or cancelled, stays so: no handler writes
\* over an end it did not see.
LEMMA RowStands ==
    ASSUME IInvSerial, Next, ~mixed', row.status \in {"done", "cancelled"}
    PROVE  row'.status = row.status
<1>1. Serial /\ row \in WideRows /\ \A h \in Handlers : hand[h] \in WideHands
  BY Serves DEF IInvSerial, IInv, RowOK, Next
<1>2. \A h \in Handlers : Stands(h)
  BY <1>1, ZenonT(40) DEF Serial
<1>3. ASSUME NEW h \in Handlers, Report(h) PROVE row'.status = row.status
  BY <1>1, <1>2, <1>3, Zenon
  DEF Stands, Idle, Failing, Report, RunCheck, RunWrite, DoneCheck, DoneWrite, DoneForeign, DoneJudge,
      DoneReadopt, DoneAgain, DonePay, FailCheck, FailCount, FailRetry, FailRetryWrite, FailEnd,
      FailEndWrite, FailPay, Reads, Looks, Writes, Pays, At, WideRows
<1>4. ASSUME NEW h \in Handlers, Cancel(h) \/ Abandon(h) PROVE row'.status = row.status
  BY <1>1, <1>2, <1>4
  DEF Stands, Idle, Failing, Cancel, CancelLook, CancelCheck, CancelWrite, CancelPay, Abandon,
      Writes, Pays, At
<1>5. CASE Statement
  BY <1>5 DEF Statement, Claim, Claimable, Requeue, Held, Owned, Sweep, Retry
<1> QED BY <1>3, <1>4, <1>5 DEF Next
----------------------------------------------------------------------------
(* How a batch is divided, and what the cut feeds *)

LEMMA FamilyCardinality == ASSUME NEW T PROVE S!Cardinality(T) = Cardinality(T)
BY DEF S!Cardinality, Cardinality

LEMMA TimesMore ==
    ASSUME NEW a \in Nat, NEW b \in Nat, NEW q \in Nat, a <= b
    PROVE  a * q <= b * q /\ a * q \in Nat
<1>1. PICK d \in Nat : b = a + d
  <2>1. b - a \in Nat /\ b = a + (b - a)
    OBVIOUS
  <2> QED BY <2>1
<1>2. b * q = a * q + d * q
  BY <1>1
<1>3. d * q \in Nat /\ a * q \in Nat
  OBVIOUS
<1> QED BY <1>2, <1>3

\* Where the piece of child i begins: of equal pieces, the first ones one longer.
Begins(q, r, i) == i * q + (IF i <= r THEN i ELSE r)

LEMMA BeginsMore ==
    ASSUME NEW q \in Nat, NEW r \in Nat, NEW i \in Nat, NEW j \in Nat, i <= j
    PROVE  Begins(q, r, i) <= Begins(q, r, j) /\ Begins(q, r, i) \in Nat
BY TimesMore DEF Begins

LEMMA BeginsNext ==
    ASSUME NEW q \in Nat, NEW r \in Nat, NEW i \in Nat
    PROVE  Begins(q, r, i + 1) = Begins(q, r, i) + q + IF i < r THEN 1 ELSE 0
<1>1. (i + 1) * q = i * q + q /\ i * q \in Nat
  OBVIOUS
<1> HIDE <1>1
<1>2. CASE i < r
  <2>1. i + 1 <= r /\ i <= r
    BY <1>2
  <2> QED BY <1>1, <1>2, <2>1 DEF Begins
<1>3. CASE ~(i < r)
  <2>1. ~(i + 1 <= r) /\ (i <= r => i = r)
    BY <1>3
  <2> QED BY <1>1, <1>3, <2>1 DEF Begins
<1> QED BY <1>2, <1>3

\* A split into no more pieces than there are images gives each child its own, and leaves
\* out none.
LEMMA PartitionCovers ==
    ASSUME MaxSplit \in Nat, NEW batch \in Nat, NEW k \in Nat \ {0}, k <= batch, k <= MaxSplit
    PROVE  /\ DOMAIN S!Partition(batch, k) = 0 .. k - 1
           /\ UNION {S!Partition(batch, k)[i] : i \in 0 .. k - 1} = 0 .. batch - 1
           /\ \A i, j \in 0 .. k - 1 : i # j => S!Partition(batch, k)[i] \cap S!Partition(batch, k)[j] = {}
<1> DEFINE q == batch \div k
<1> DEFINE r == batch % k
<1> DEFINE at(i) == Begins(q, r, i)
<1>1. q \in Nat /\ r \in Nat /\ r < k /\ batch = k * q + r
  BY SMTT(30)
<1>2. S!Max({1, S!Min({k, batch, MaxSplit})}) = k
  <2>1. S!Min({k, batch, MaxSplit}) = k
    BY DEF S!Min
  <2> QED BY <2>1 DEF S!Max
<1>3. \A i \in Nat : S!Length(batch, k, i) = q + IF i < r THEN 1 ELSE 0
  BY DEF S!Length
<1> DEFINE step(s) == [i \in 0 .. k |-> IF i = 0 THEN 0 ELSE s[i - 1] + S!Length(batch, k, i - 1)]
<1> DEFINE start == CHOOSE s : s = step(s)
<1> DEFINE f == [i \in 0 .. k |-> at(i)]
<1>4. S!Partition(batch, k) = [i \in 0 .. k - 1 |-> start[i] .. start[i] + S!Length(batch, k, i) - 1]
  <2> DEFINE of(c) == CHOOSE s : s = [i \in 0 .. c |-> IF i = 0 THEN 0 ELSE s[i - 1] + S!Length(batch, c, i - 1)]
  <2> DEFINE pieces(c) == [i \in 0 .. c - 1 |-> of(c)[i] .. of(c)[i] + S!Length(batch, c, i) - 1]
  <2>1. S!Partition(batch, k) = pieces(S!Max({1, S!Min({k, batch, MaxSplit})}))
    BY DEF S!Partition
  <2>2. start = of(k)
    OBVIOUS
  <2> HIDE DEF start, of
  <2>3. pieces(k) = [i \in 0 .. k - 1 |-> start[i] .. start[i] + S!Length(batch, k, i) - 1]
    BY <2>2
  <2> HIDE DEF pieces
  <2>4. pieces(S!Max({1, S!Min({k, batch, MaxSplit})})) = pieces(k)
    BY <1>2
  <2> QED BY <2>1, <2>3, <2>4
<1> HIDE DEF q, r
<1>5. f = step(f)
  <2>1. ASSUME NEW i \in 0 .. k
        PROVE  f[i] = step(f)[i]
    <3>1. CASE i = 0
      BY <1>1, <3>1 DEF Begins
    <3>2. CASE i # 0
      <4>1. i - 1 \in Nat /\ i - 1 \in 0 .. k /\ i = (i - 1) + 1
        BY <3>2
      <4>2. at(i) = at(i - 1) + q + IF i - 1 < r THEN 1 ELSE 0
        BY <1>1, <4>1, BeginsNext
      <4>3. S!Length(batch, k, i - 1) = q + IF i - 1 < r THEN 1 ELSE 0
        BY <1>3, <4>1
      <4>4. at(i - 1) \in Nat
        BY <1>1, <4>1, BeginsMore
      <4> HIDE DEF at
      <4>5. at(i) = at(i - 1) + S!Length(batch, k, i - 1)
        BY <1>1, <4>2, <4>3, <4>4
      <4> QED BY <3>2, <4>1, <4>5
    <3> QED BY <3>1, <3>2
  <2> QED BY <2>1
<1>6. start = step(start)
  BY <1>5
<1> HIDE DEF start
<1>7. \A i \in 0 .. k : start[i] = at(i)
  <2> SUFFICES ASSUME NEW i \in 0 .. k, start[i] # at(i) PROVE FALSE
    OBVIOUS
  <2> DEFINE wrong == {j \in 0 .. k : start[j] # at(j)}
  <2>1. wrong \in SUBSET Nat /\ wrong # {}
    OBVIOUS
  <2>2. PICK j \in wrong : \A u \in wrong : ~(<<u, j>> \in OpToRel(<, Nat))
    BY <2>1, NatLessThanWellFounded, WFMin
  <2>3. j \in 0 .. k /\ start[j] # at(j)
    BY <2>2
  <2>4. j # 0
    <3>1. start[0] = 0
      BY <1>6
    <3> QED BY <1>1, <2>3, <3>1 DEF Begins
  <2>5. j - 1 \in 0 .. k /\ j - 1 \in Nat /\ j \in Nat /\ j - 1 < j
    BY <2>3, <2>4
  <2>6. <<j - 1, j>> \in OpToRel(<, Nat)
    BY <2>5 DEF OpToRel
  <2>7. start[j - 1] = at(j - 1)
    BY <2>2, <2>5, <2>6
  <2>8. start[j] = start[j - 1] + S!Length(batch, k, j - 1)
    BY <1>6, <2>3, <2>4
  <2>9. f[j] = f[j - 1] + S!Length(batch, k, j - 1)
    BY <1>5, <2>3, <2>4
  <2> QED BY <2>3, <2>5, <2>7, <2>8, <2>9
<1>8. \A i \in 0 .. k - 1 : S!Partition(batch, k)[i] = at(i) .. at(i + 1) - 1
  <2> TAKE i \in 0 .. k - 1
  <2>1. i \in 0 .. k /\ i \in Nat
    OBVIOUS
  <2>2. at(i + 1) = at(i) + q + IF i < r THEN 1 ELSE 0
    BY <1>1, <2>1, BeginsNext
  <2>3. S!Length(batch, k, i) = q + IF i < r THEN 1 ELSE 0
    BY <1>3, <2>1
  <2>4. at(i) \in Nat
    BY <1>1, <2>1, BeginsMore
  <2> HIDE DEF at
  <2>5. at(i + 1) - 1 = at(i) + S!Length(batch, k, i) - 1
    BY <1>1, <2>2, <2>3, <2>4
  <2> QED BY <1>4, <1>7, <2>1, <2>5
<1>9. at(0) = 0 /\ at(k) = batch
  BY <1>1 DEF Begins
<1>10. \A i, j \in 0 .. k : i <= j => at(i) <= at(j) /\ at(i) \in Nat /\ at(j) \in Nat
  <2> TAKE i, j \in 0 .. k
  <2>1. i \in Nat /\ j \in Nat
    OBVIOUS
  <2>2. at(i) \in Nat /\ at(j) \in Nat
    <3>1. i <= i /\ j <= j
      OBVIOUS
    <3>2. at(i) \in Nat
      BY <1>1, <2>1, <3>1, BeginsMore
    <3>3. at(j) \in Nat
      BY <1>1, <2>1, <3>1, BeginsMore
    <3> QED BY <3>2, <3>3
  <2>3. i <= j => at(i) <= at(j)
    BY <1>1, <2>1, BeginsMore
  <2> QED BY <2>2, <2>3
<1> HIDE DEF at
<1>11. \A i, j \in 0 .. k - 1 : i # j => S!Partition(batch, k)[i] \cap S!Partition(batch, k)[j] = {}
  <2>1. ASSUME NEW i \in 0 .. k - 1, NEW j \in 0 .. k - 1, i < j
        PROVE  S!Partition(batch, k)[i] \cap S!Partition(batch, k)[j] = {}
    <3>1. i + 1 \in 0 .. k /\ j \in 0 .. k /\ i + 1 <= j /\ i \in 0 .. k /\ j + 1 \in 0 .. k
      BY <2>1
    <3>2. at(i + 1) <= at(j) /\ at(i) \in Nat /\ at(j) \in Nat /\ at(i + 1) \in Nat /\ at(j + 1) \in Nat
      BY <1>10, <3>1
    <3>3. (at(i) .. at(i + 1) - 1) \cap (at(j) .. at(j + 1) - 1) = {}
      BY <3>2
    <3> QED BY <1>8, <3>3
  <2> SUFFICES ASSUME NEW i \in 0 .. k - 1, NEW j \in 0 .. k - 1, i # j
               PROVE  S!Partition(batch, k)[i] \cap S!Partition(batch, k)[j] = {}
    OBVIOUS
  <2>2. i < j \/ j < i
    OBVIOUS
  <2> QED BY <2>1, <2>2
<1>12. UNION {S!Partition(batch, k)[i] : i \in 0 .. k - 1} = 0 .. batch - 1
  <2>1. ASSUME NEW i \in 0 .. k - 1, NEW x \in S!Partition(batch, k)[i]
        PROVE  x \in 0 .. batch - 1
    <3>1. i \in 0 .. k /\ i + 1 \in 0 .. k /\ i + 1 <= k /\ k \in 0 .. k
      OBVIOUS
    <3>2. at(i) \in Nat /\ at(i + 1) <= batch /\ at(i + 1) \in Nat
      BY <1>9, <1>10, <3>1
    <3>3. x \in at(i) .. at(i + 1) - 1
      BY <1>8, <2>1
    <3> QED BY <3>2, <3>3
  <2>2. ASSUME NEW x \in 0 .. batch - 1
        PROVE  \E i \in 0 .. k - 1 : x \in S!Partition(batch, k)[i]
    <3> DEFINE after == {j \in 0 .. k : x < at(j)}
    <3>1. after \in SUBSET Nat /\ after # {}
      <4>1. k \in after
        BY <1>9
      <4> QED BY <4>1
    <3>2. PICK j \in after : \A u \in after : ~(<<u, j>> \in OpToRel(<, Nat))
      BY <3>1, NatLessThanWellFounded, WFMin
    <3>3. j \in 0 .. k /\ x < at(j)
      BY <3>2
    <3>8. j # 0
      <4>1. ~(x < at(0))
        BY <1>9
      <4> QED BY <3>3, <4>1
    <3>4. j - 1 \in 0 .. k - 1 /\ j - 1 \in 0 .. k /\ <<j - 1, j>> \in OpToRel(<, Nat)
      BY <3>3, <3>8 DEF OpToRel
    <3>5. ~(x < at(j - 1))
      BY <3>2, <3>4
    <3>6. at(j - 1) \in Nat /\ at(j) \in Nat
      <4>1. j - 1 <= j
        BY <3>3
      <4> QED BY <1>10, <3>3, <3>4, <4>1
    <3>7. x \in at(j - 1) .. at((j - 1) + 1) - 1
      BY <3>3, <3>5, <3>6
    <3> QED BY <1>8, <3>4, <3>7
  <2> QED BY <2>1, <2>2
<1>13. DOMAIN S!Partition(batch, k) = 0 .. k - 1
  BY <1>4
<1> QED BY <1>11, <1>12, <1>13

Through(flow) == {m \in DOMAIN flow : flow[m].class \in {"sampler", "pass"} /\ flow[m].slot0}

\* The recursions of ReachesBatchSource and HasAncestor, in up to N links.
ReachStep(flow, target, N, r) ==
    [d \in 0 .. N |->
        {target} \cup IF d = 0 THEN {} ELSE {m \in Through(flow) : flow[m].latent \in r[d - 1]}]

HasStep(flow, target, N, r) ==
    [d \in 0 .. N |->
        {target} \cup IF d = 0 THEN {}
                     ELSE {m \in DOMAIN flow : flow[m].latent \in r[d - 1] \/ flow[m].other \in r[d - 1]}]

LEMMA ReachExists ==
    ASSUME NEW flow, NEW target, NEW N \in Nat
    PROVE  \E r : r = ReachStep(flow, target, N, r)
<1> SUFFICES ASSUME ~ \E r : r = ReachStep(flow, target, N, r) PROVE FALSE
  OBVIOUS
<1> DEFINE bad == {n \in Nat : ~ \E r : r = ReachStep(flow, target, n, r)}
<1>1. bad \in SUBSET Nat /\ bad # {}
  OBVIOUS
<1>2. PICK n \in bad : \A u \in bad : ~(<<u, n>> \in OpToRel(<, Nat))
  BY <1>1, NatLessThanWellFounded, WFMin
<1>3. n \in Nat
  BY <1>2
<1>4. CASE n = 0
  <2> DEFINE r == [d \in 0 .. 0 |-> {target}]
  <2>1. r = ReachStep(flow, target, 0, r)
    BY DEF ReachStep
  <2> HIDE DEF r
  <2> QED BY <1>2, <1>4, <2>1
<1>5. CASE n # 0
  <2>1. n - 1 \in Nat /\ <<n - 1, n>> \in OpToRel(<, Nat)
    BY <1>3, <1>5 DEF OpToRel
  <2>2. PICK q : q = ReachStep(flow, target, n - 1, q)
    BY <1>2, <2>1
  <2> DEFINE r == ReachStep(flow, target, n, q)
  <2>3. ASSUME NEW d \in 0 .. n
        PROVE  r[d] = ReachStep(flow, target, n, r)[d]
    <3>1. CASE d = 0
      BY <3>1 DEF ReachStep
    <3>2. CASE d # 0
      <4>1. d - 1 \in 0 .. n /\ d - 1 \in 0 .. n - 1
        BY <1>3, <3>2
      <4>2. q[d - 1] = ReachStep(flow, target, n - 1, q)[d - 1]
        BY <2>2
      <4>3. r[d - 1] = q[d - 1]
        BY <4>1, <4>2 DEF ReachStep
      <4> QED BY <3>2, <4>1, <4>3 DEF ReachStep
    <3> QED BY <3>1, <3>2
  <2>4. r = ReachStep(flow, target, n, r)
    BY <2>3 DEF ReachStep
  <2> HIDE DEF r
  <2> QED BY <1>2, <2>4
<1> QED BY <1>4, <1>5

LEMMA HasExists ==
    ASSUME NEW flow, NEW target, NEW N \in Nat
    PROVE  \E r : r = HasStep(flow, target, N, r)
<1> SUFFICES ASSUME ~ \E r : r = HasStep(flow, target, N, r) PROVE FALSE
  OBVIOUS
<1> DEFINE bad == {n \in Nat : ~ \E r : r = HasStep(flow, target, n, r)}
<1>1. bad \in SUBSET Nat /\ bad # {}
  OBVIOUS
<1>2. PICK n \in bad : \A u \in bad : ~(<<u, n>> \in OpToRel(<, Nat))
  BY <1>1, NatLessThanWellFounded, WFMin
<1>3. n \in Nat
  BY <1>2
<1>4. CASE n = 0
  <2> DEFINE r == [d \in 0 .. 0 |-> {target}]
  <2>1. r = HasStep(flow, target, 0, r)
    BY DEF HasStep
  <2> HIDE DEF r
  <2> QED BY <1>2, <1>4, <2>1
<1>5. CASE n # 0
  <2>1. n - 1 \in Nat /\ <<n - 1, n>> \in OpToRel(<, Nat)
    BY <1>3, <1>5 DEF OpToRel
  <2>2. PICK q : q = HasStep(flow, target, n - 1, q)
    BY <1>2, <2>1
  <2> DEFINE r == HasStep(flow, target, n, q)
  <2>3. ASSUME NEW d \in 0 .. n
        PROVE  r[d] = HasStep(flow, target, n, r)[d]
    <3>1. CASE d = 0
      BY <3>1 DEF HasStep
    <3>2. CASE d # 0
      <4>1. d - 1 \in 0 .. n /\ d - 1 \in 0 .. n - 1
        BY <1>3, <3>2
      <4>2. q[d - 1] = HasStep(flow, target, n - 1, q)[d - 1]
        BY <2>2
      <4>3. r[d - 1] = q[d - 1]
        BY <4>1, <4>2 DEF HasStep
      <4> QED BY <3>2, <4>1, <4>3 DEF HasStep
    <3> QED BY <3>1, <3>2
  <2>4. r = HasStep(flow, target, n, r)
    BY <2>3 DEF HasStep
  <2> HIDE DEF r
  <2> QED BY <1>2, <2>4
<1> QED BY <1>4, <1>5

LEMMA ReachIs ==
    ASSUME NEW flow, NEW target, NEW n, Cardinality(DOMAIN flow) \in Nat
    PROVE  LET N == Cardinality(DOMAIN flow)
           IN  \E r : /\ r = ReachStep(flow, target, N, r)
                      /\ S!ReachesBatchSource(flow, n, target) <=> n \in r[N]
<1> DEFINE N == Cardinality(DOMAIN flow)
<1> DEFINE r == CHOOSE r : r = ReachStep(flow, target, N, r)
<1>1. r = ReachStep(flow, target, N, r)
  BY ReachExists
<1>2. S!ReachesBatchSource(flow, n, target) <=> n \in r[N]
  BY FamilyCardinality DEF S!ReachesBatchSource, ReachStep, Through
<1> HIDE DEF r
<1> QED BY <1>1, <1>2

LEMMA HasIs ==
    ASSUME NEW flow, NEW target, NEW n, Cardinality(DOMAIN flow) \in Nat
    PROVE  LET N == Cardinality(DOMAIN flow)
           IN  \E r : /\ r = HasStep(flow, target, N, r)
                      /\ S!HasAncestor(flow, n, target) <=> n \in r[N]
<1> DEFINE N == Cardinality(DOMAIN flow)
<1> DEFINE r == CHOOSE r : r = HasStep(flow, target, N, r)
<1>1. r = HasStep(flow, target, N, r)
  BY HasExists
<1>2. S!HasAncestor(flow, n, target) <=> n \in r[N]
  BY FamilyCardinality DEF S!HasAncestor, HasStep
<1> HIDE DEF r
<1> QED BY <1>1, <1>2

\* A child's workflow: the source's links are the cut's, the rest is as it was.
Cuts(flow, s, child) ==
    /\ DOMAIN child = DOMAIN flow \cup {Cut}
    /\ Cardinality(DOMAIN flow) \in Nat
    /\ Cardinality(DOMAIN child) = Cardinality(DOMAIN flow) + 1
    /\ \A m \in DOMAIN flow :
          /\ child[m].class = flow[m].class /\ child[m].slot0 = flow[m].slot0
          /\ child[m].latent = IF flow[m].latent = s /\ flow[m].slot0 THEN Cut ELSE flow[m].latent
          /\ child[m].other = IF flow[m].other = s THEN Cut ELSE flow[m].other

LEMMA ChildIs ==
    ASSUME NEW flow, flow \in [DOMAIN flow -> S!Nodes], DOMAIN flow \subseteq NodeIds, IsFiniteSet(NodeIds),
           Cut \notin NodeIds, NEW s \in DOMAIN flow
    PROVE  Cuts(flow, s, S!ChildWorkflow(flow, s))
<1> DEFINE child == S!ChildWorkflow(flow, s)
<1>1. DOMAIN child = DOMAIN flow \cup {Cut}
  BY DEF S!ChildWorkflow
<1>2. IsFiniteSet(DOMAIN flow) /\ Cut \notin DOMAIN flow
  BY FS_Subset
<1>3. Cardinality(DOMAIN flow) \in Nat /\ Cardinality(DOMAIN child) = Cardinality(DOMAIN flow) + 1
  BY <1>1, <1>2, FS_CardinalityType, FS_AddElement
<1>4. ASSUME NEW m \in DOMAIN flow
      PROVE  /\ child[m].class = flow[m].class /\ child[m].slot0 = flow[m].slot0
             /\ child[m].latent = IF flow[m].latent = s /\ flow[m].slot0 THEN Cut ELSE flow[m].latent
             /\ child[m].other = IF flow[m].other = s THEN Cut ELSE flow[m].other
  <2>1. m # Cut /\ flow[m] \in S!Nodes
    BY <1>2
  <2>2. child[m] = [flow[m] EXCEPT !.latent = IF @ = s /\ flow[m].slot0 THEN Cut ELSE @,
                                   !.other = IF @ = s THEN Cut ELSE @]
    BY <2>1 DEF S!ChildWorkflow
  <2> HIDE DEF child
  <2> QED BY <2>1, <2>2 DEF S!Nodes
<1> HIDE DEF child
<1> QED BY <1>1, <1>3, <1>4 DEF child, Cuts

\* What the splitting conditions guarantee: in the child's workflow every output hangs on the
\* cut, and every sampler that takes a latent takes it from the cut.
LEMMA CutFeeds ==
    ASSUME NEW flow, flow \in [DOMAIN flow -> S!Nodes], DOMAIN flow \subseteq NodeIds, IsFiniteSet(NodeIds),
           Cut \notin NodeIds, NEW s \in DOMAIN flow, S!Splittable(flow, s),
           \A m \in DOMAIN flow : flow[m].latent = s => flow[m].slot0
    PROVE  LET child == S!ChildWorkflow(flow, s)
           IN  \A n \in DOMAIN flow :
                  /\ flow[n].class = "output" => S!HasAncestor(child, n, Cut)
                  /\ flow[n].class = "sampler" /\ flow[n].latent # NoLink =>
                        child[n].slot0 /\ S!ReachesBatchSource(child, child[n].latent, Cut)
<1> DEFINE child == S!ChildWorkflow(flow, s)
<1> DEFINE N == Cardinality(DOMAIN flow)
<1>1. /\ DOMAIN child = DOMAIN flow \cup {Cut} /\ N \in Nat /\ Cardinality(DOMAIN child) = N + 1
      /\ \A m \in DOMAIN flow :
            /\ child[m].class = flow[m].class /\ child[m].slot0 = flow[m].slot0
            /\ child[m].latent = IF flow[m].latent = s /\ flow[m].slot0 THEN Cut ELSE flow[m].latent
            /\ child[m].other = IF flow[m].other = s THEN Cut ELSE flow[m].other
  <2>1. Cuts(flow, s, child)
    BY ChildIs
  <2> HIDE DEF child
  <2> QED BY <2>1 DEF Cuts
<1> HIDE DEF child, N
<1>2. flow[s].class = "source"
  BY DEF S!Splittable, S!Sources
<1>3. ASSUME NEW n \in DOMAIN flow, flow[n].class = "output"
      PROVE  S!HasAncestor(child, n, Cut)
  <2>1. n # s /\ S!HasAncestor(flow, n, s)
    BY <1>2, <1>3 DEF S!Splittable
  <2>2. PICK f : f = HasStep(flow, s, N, f) /\ (S!HasAncestor(flow, n, s) <=> n \in f[N])
    BY <1>1, HasIs DEF N
  <2>3. PICK c : c = HasStep(child, Cut, N + 1, c) /\ (S!HasAncestor(child, n, Cut) <=> n \in c[N + 1])
    BY <1>1, HasIs
  <2> DEFINE bad == {d \in 0 .. N : \E m \in f[d] : m # s /\ m \notin c[d + 1]}
  <2>4. ASSUME bad # {} PROVE FALSE
    <3>1. bad \in SUBSET Nat
      OBVIOUS
    <3>2. PICK d \in bad : \A u \in bad : ~(<<u, d>> \in OpToRel(<, Nat))
      BY <2>4, <3>1, NatLessThanWellFounded, WFMin
    <3>3. PICK m \in f[d] : m # s /\ m \notin c[d + 1]
      BY <3>2
    <3>4. d \in 0 .. N /\ f[d] = HasStep(flow, s, N, f)[d]
      BY <2>2, <3>2
    <3>5. d # 0 /\ m \in DOMAIN flow /\ (flow[m].latent \in f[d - 1] \/ flow[m].other \in f[d - 1])
      BY <3>3, <3>4 DEF HasStep
    <3>6. d - 1 \in 0 .. N /\ <<d - 1, d>> \in OpToRel(<, Nat) /\ d \in 0 .. N + 1 /\ d + 1 \in 0 .. N + 1
          /\ (d - 1) + 1 = d /\ (d + 1) - 1 = d
      BY <1>1, <3>4, <3>5 DEF OpToRel
    <3>7. \A x \in f[d - 1] : x = s \/ x \in c[d]
      BY <3>2, <3>6
    <3>8. Cut \in c[d]
      <4>1. c[d] = HasStep(child, Cut, N + 1, c)[d]
        BY <2>3
      <4> QED BY <3>6, <4>1 DEF HasStep
    <3>9. child[m].latent \in c[d] \/ child[m].other \in c[d]
      BY <1>1, <3>5, <3>7, <3>8
    <3>10. m \in HasStep(child, Cut, N + 1, c)[d + 1]
      <4>1. d + 1 # 0 /\ m \in DOMAIN child
        BY <1>1, <3>4, <3>5
      <4>2. HasStep(child, Cut, N + 1, c)[d + 1] =
                {Cut} \cup {x \in DOMAIN child : child[x].latent \in c[d] \/ child[x].other \in c[d]}
        BY <3>6, <4>1 DEF HasStep
      <4> QED BY <3>9, <4>1, <4>2
    <3> QED BY <2>3, <3>3, <3>10
  <2>5. N \in 0 .. N
    BY <1>1
  <2> QED BY <2>1, <2>2, <2>3, <2>4, <2>5
<1>4. ASSUME NEW n \in DOMAIN flow, flow[n].class = "sampler", flow[n].latent # NoLink
      PROVE  child[n].slot0 /\ S!ReachesBatchSource(child, child[n].latent, Cut)
  <2>1. flow[n].slot0 /\ S!ReachesBatchSource(flow, flow[n].latent, s)
    BY <1>4 DEF S!Splittable, S!SamplesTheBatch
  <2> DEFINE k == flow[n].latent
  <2>2. PICK f : f = ReachStep(flow, s, N, f) /\ (S!ReachesBatchSource(flow, k, s) <=> k \in f[N])
    BY <1>1, ReachIs DEF N
  <2>3. PICK c : c = ReachStep(child, Cut, N + 1, c)
                 /\ (S!ReachesBatchSource(child, child[n].latent, Cut) <=> child[n].latent \in c[N + 1])
    BY <1>1, ReachIs
  <2>0. \A d \in 0 .. N + 1 : Cut \in c[d]
    <3> TAKE d \in 0 .. N + 1
    <3>1. c[d] = ReachStep(child, Cut, N + 1, c)[d]
      BY <2>3
    <3> QED BY <3>1 DEF ReachStep
  <2> DEFINE bad == {d \in 0 .. N : \E m \in f[d] : m # s /\ m \notin c[d + 1]}
  <2>4. ASSUME bad # {} PROVE FALSE
    <3>1. bad \in SUBSET Nat
      OBVIOUS
    <3>2. PICK d \in bad : \A u \in bad : ~(<<u, d>> \in OpToRel(<, Nat))
      BY <2>4, <3>1, NatLessThanWellFounded, WFMin
    <3>3. PICK m \in f[d] : m # s /\ m \notin c[d + 1]
      BY <3>2
    <3>4. d \in 0 .. N /\ f[d] = ReachStep(flow, s, N, f)[d]
      BY <2>2, <3>2
    <3>5. d # 0 /\ m \in Through(flow) /\ flow[m].latent \in f[d - 1]
      BY <3>3, <3>4 DEF ReachStep
    <3>6. d - 1 \in 0 .. N /\ <<d - 1, d>> \in OpToRel(<, Nat) /\ d \in 0 .. N + 1 /\ d + 1 \in 0 .. N + 1
          /\ (d - 1) + 1 = d /\ (d + 1) - 1 = d
      BY <1>1, <3>4, <3>5 DEF OpToRel
    <3>7. \A x \in f[d - 1] : x = s \/ x \in c[d]
      BY <3>2, <3>6
    <3>8. Cut \in c[d] /\ m \in Through(child)
      BY <1>1, <2>0, <3>5, <3>6 DEF Through
    <3>9. child[m].latent \in c[d]
      BY <1>1, <3>5, <3>7, <3>8 DEF Through
    <3>10. m \in ReachStep(child, Cut, N + 1, c)[d + 1]
      <4>1. d + 1 # 0
        BY <3>4
      <4>2. ReachStep(child, Cut, N + 1, c)[d + 1] =
                {Cut} \cup {x \in Through(child) : child[x].latent \in c[d]}
        BY <3>6, <4>1 DEF ReachStep
      <4> QED BY <3>8, <3>9, <4>2
    <3> QED BY <2>3, <3>3, <3>10
  <2>5. N \in 0 .. N /\ N + 1 \in 0 .. N + 1
    BY <1>1
  <2>6. child[n].latent \in c[N + 1]
    <3>1. CASE k = s
      BY <1>1, <2>0, <2>1, <2>5, <3>1
    <3>2. CASE k # s
      <4>1. child[n].latent = k
        BY <1>1, <3>2
      <4> QED BY <2>1, <2>2, <2>4, <2>5, <3>2, <4>1
    <3> QED BY <3>1, <3>2
  <2> QED BY <1>1, <2>1, <2>3, <2>6
<1> QED BY <1>3, <1>4 DEF child

----------------------------------------------------------------------------
(* The family, and how far it is from agreeing *)
Working == {h \in FamilyHandlers : family[h].pc # "idle"}
Ended == parent.status \in S!Terminal

\* What a worker has of the whole job, and what the tick has read of it.
HeldOK == parent.held => parent.status \in {"assigned", "running"} /\ parent.split = 0

PlannerOK ==
    /\ parent.status = "new" => planner = S!NoPlan /\ parent.split = 0 /\ ~retried
    /\ planner # S!NoPlan => planner.k \in 2 .. MaxSplit /\ planner.k <= planner.batch
    /\ planner # S!NoPlan /\ ~retried => planner.batch = parent.plan
    /\ retried /\ ~overlapped => planner = S!NoPlan
    /\ retried => parent.plan = 0
    /\ ~retried /\ parent.split = 0 => S!Children = {}

IdleOK == \A h \in FamilyHandlers : family[h].pc = "idle" => family[h] = S!Idle

\* Who a worker ran, and the children's receipts.
RanOK ==
    \A i \in S!Indices :
        /\ kid[i].status = "running" => kid[i].ran
        /\ kid[i].ran => kid[i].status # "none"
        /\ paid[i] > 0 => kid[i].ran
        /\ \A h \in FamilyHandlers : i \in family[h].owed \cup family[h].running => kid[i].ran

\* While handlers do not overlap there is one at work, and who is to be paid has not been.
OnePays ==
    ~overlapped =>
        /\ \A g, h \in Working : g = h
        /\ \A i \in S!Indices : paid[i] < 2 /\ (paid[i] > 0 => kid[i].status \in S!Terminal)
        /\ \A h \in FamilyHandlers, i \in S!Indices :
              /\ i \in family[h].owed => paid[i] = 0 /\ kid[i].status \in S!Terminal
              /\ i \in family[h].cascade \cup family[h].walk => paid[i] = 0

\* What is written back is of a job that had not ended.
WritesLive ==
    ~overlapped => \A h \in FamilyHandlers :
        family[h].pc \in {"kids", "write"} => parent.split > 0 /\ ~Ended

\* How far the family is from agreeing, by the step of the one handler at work.
Agrees == IF Ended THEN S!Left = {} ELSE parent.split > 0 => parent.status = S!Derived
OnTheWay(s) ==
    /\ s.pc # "idle" => parent.split > 0 \/ Ended
    /\ s.pc \in {"parent", "kids", "write", "cascade"} /\ ~Ended => s.walk = {}
    /\ s.pc = "parent" /\ Ended => S!Left \subseteq s.walk
    /\ s.pc = "kids" => s.status = parent.status
    /\ s.pc = "write" => /\ s.status = S!Derived
                         /\ s.cascade = IF S!Derived \in {"failed", "cancelled"} THEN S!Left ELSE {}
    /\ s.pc = "cascade" => Ended /\ s.walk = {} /\ S!Left \subseteq s.cascade
    /\ s.pc = "walk read" => Ended
    /\ s.pc = "walk" => Ended /\ S!Left \subseteq s.walk
    /\ s.pc = "mint" => Agrees

StepByStep ==
    ~overlapped /\ ~broken =>
        /\ parent.split = 0 => S!Left = {}
        /\ S!Quiet => Agrees
        /\ \A h \in FamilyHandlers : OnTheWay(family[h])
CascadeSome ==
    \A h \in FamilyHandlers : /\ family[h].pc = "cascade" => family[h].cascade # {}
                              /\ family[h].pc = "walk" => family[h].walk # {}
                              /\ family[h].cascade \subseteq S!Children

FamilyInv ==
    /\ S!TypeOK /\ HeldOK /\ PlannerOK /\ IdleOK /\ CascadeSome
    /\ RanOK /\ OnePays /\ WritesLive /\ StepByStep /\ S!BatchCovered

LEMMA LeastIndex ==
    ASSUME NEW T \in SUBSET S!Indices, T # {}
    PROVE  S!Min(T) \in T
<1>0. T \subseteq Nat
  BY FamilyAssumption DEF S!Indices
<1>1. PICK t \in T : \A u \in T : ~(<<u, t>> \in OpToRel(<, Nat))
  BY <1>0, NatLessThanWellFounded, WFMin
<1>2. \A u \in T : t <= u
  <2> SUFFICES ASSUME NEW u \in T, u < t PROVE FALSE
    BY <1>0
  <2>1. <<u, t>> \in OpToRel(<, Nat)
    BY <1>0 DEF OpToRel
  <2> QED BY <1>1, <2>1
<1> QED BY <1>2 DEF S!Min

\* A handler goes on, and the others stay where they are.
LEMMA HandMoves ==
    ASSUME family \in [FamilyHandlers -> S!HandlerStates], NEW h \in FamilyHandlers, NEW s \in S!HandlerStates, S!Goes(h, s)
    PROVE  /\ family' \in [FamilyHandlers -> S!HandlerStates]
           /\ family'[h] = s /\ \A g \in FamilyHandlers : g # h => family'[g] = family[g]
BY DEF S!Goes

LEMMA Afterwards ==
    ASSUME NEW s \in S!HandlerStates
    PROVE  /\ S!AfterRefresh(s) \in S!HandlerStates
           /\ S!AfterRefresh(s).pc = IF s.walk # {} THEN "walk" ELSE "mint"
           /\ S!AfterRefresh(s).cascade = {} /\ S!AfterRefresh(s).walk = s.walk
           /\ S!AfterRefresh(s).owed = s.owed /\ S!AfterRefresh(s).running = s.running
           /\ S!AfterRefresh(s).status = s.status
BY DEF S!AfterRefresh, S!HandlerStates

LEMMA IdleIs ==
    /\ S!Idle \in S!HandlerStates /\ S!Idle.pc = "idle" /\ S!Idle.cascade = {} /\ S!Idle.walk = {}
    /\ S!Idle.running = {} /\ S!Idle.owed = {}
BY DEF S!Idle, S!HandlerStates, S!Live

LEMMA DerivedTyped == S!Derived \in S!Live \cup S!Terminal
BY DEF S!Derived, S!Live, S!Terminal

----------------------------------------------------------------------------
(* What each step of a handler does to its own state. *)

LEMMA MovedGoes ==
    ASSUME S!TypeOK, NEW h \in FamilyHandlers, S!Moved(h)
    PROVE  /\ family[h].pc = "idle" /\ UNCHANGED <<parent, planner, paid, retried, broken>>
           /\ overlapped' = (overlapped \/ ~S!Quiet)
           /\ \E i \in S!Indices :
                 /\ kid[i].status \in S!Live
                 /\ kid'[i].status \in S!Live \cup S!Terminal /\ kid'[i].images = kid[i].images
                 /\ kid'[i].ran = (kid[i].ran \/ kid'[i].status = "running")
                 /\ kid' = [kid EXCEPT ![i] = kid'[i]] /\ kid'[i] \in S!Kids
                 /\ family'[h].owed \subseteq {j \in {i} : kid[j].status = "running" /\ kid'[j].status = "cancelled"}
           /\ family'[h] \in S!HandlerStates /\ family'[h].pc = "parent" /\ family'[h].cascade = {}
           /\ family'[h].walk = {} /\ family'[h].running = {}
           /\ S!Goes(h, family'[h])
<1>1. PICK i \in S!Indices, became \in S!Live \cup S!Terminal, collects \in BOOLEAN, owed \in SUBSET S!Indices :
        /\ kid[i].status \in S!Live
        /\ owed \subseteq {j \in {i} : S!OwedIfRunning(j)}
        /\ owed # {} => became = "cancelled"
        /\ S!Moves(h, i, became, collects, owed)
  <2>1. PICK i \in S!Indices : S!Claim(h, i) \/ S!Run(h, i) \/ S!Done(h, i) \/ S!Fail(h, i) \/ S!Requeue(h, i) \/ S!CancelChild(h, i)
    BY DEF S!Moved
  <2>2. CASE S!CancelChild(h, i)
    <3>1. {j \in {i} : S!OwedIfRunning(j)} \in SUBSET S!Indices
      OBVIOUS
    <3> QED BY <2>2, <3>1 DEF S!CancelChild, S!Terminal
  <2>3. CASE S!Fail(h, i)
    BY <2>3 DEF S!Fail, S!Live, S!Terminal
  <2>4. CASE S!Claim(h, i) \/ S!Run(h, i) \/ S!Done(h, i) \/ S!Requeue(h, i)
    BY <2>4 DEF S!Claim, S!Run, S!Done, S!Requeue, S!Live, S!Terminal
  <2> QED BY <2>1, <2>2, <2>3, <2>4
<1>2. kid[i] \in S!Kids /\ owed \subseteq S!Indices
  BY DEF S!TypeOK
<1>3. kid'[i] = [kid[i] EXCEPT !.status = became, !.ran = @ \/ became = "running"]
  BY <1>1 DEF S!Moves, S!TypeOK
<1>4. /\ kid'[i] \in S!Kids /\ kid'[i].status = became /\ kid'[i].images = kid[i].images
      /\ kid'[i].ran = (kid[i].ran \/ kid'[i].status = "running")
  BY <1>2, <1>3 DEF S!Kids
<1>5. kid' = [kid EXCEPT ![i] = kid'[i]]
  BY <1>1, <1>3 DEF S!Moves, S!TypeOK
<1> DEFINE new == [S!Idle EXCEPT !.pc = "parent", !.collects = collects, !.owed = owed]
<1>6. /\ new \in S!HandlerStates /\ new.pc = "parent" /\ new.cascade = {} /\ new.walk = {} /\ new.running = {}
      /\ new.owed = owed
  BY <1>2 DEF S!Idle, S!HandlerStates, S!Live
<1>7. S!Goes(h, new)
  BY <1>1 DEF S!Moves, S!Goes
<1> HIDE DEF new
<1>8. family'[h] = new
  BY <1>6, <1>7, HandMoves DEF S!TypeOK
<1>9. owed \subseteq {j \in {i} : kid[j].status = "running" /\ kid'[j].status = "cancelled"}
  BY <1>1, <1>4 DEF S!OwedIfRunning
<1>10. /\ kid[i].status \in S!Live /\ kid'[i].status \in S!Live \cup S!Terminal
       /\ family'[h].owed \subseteq {j \in {i} : kid[j].status = "running" /\ kid'[j].status = "cancelled"}
  BY <1>1, <1>4, <1>6, <1>8, <1>9
<1>11. /\ family[h].pc = "idle" /\ UNCHANGED <<parent, planner, paid, retried, broken>>
       /\ overlapped' = (overlapped \/ ~S!Quiet)
  BY <1>1 DEF S!Moves
<1>12. S!Goes(h, family'[h])
  BY <1>7, <1>8
<1> QED BY <1>4, <1>5, <1>6, <1>8, <1>10, <1>11, <1>12

LEMMA CancelGoes ==
    ASSUME S!TypeOK, NEW h \in FamilyHandlers, S!CancelParent(h)
    PROVE  /\ family[h].pc = "idle" /\ UNCHANGED <<kid, planner, paid, retried, broken>>
           /\ overlapped' = (overlapped \/ ~S!Quiet)
           /\ parent.status \in S!Live /\ parent' = [parent EXCEPT !.status = "cancelled", !.held = FALSE]
           /\ family'[h] \in S!HandlerStates /\ family'[h].pc = "walk read" /\ family'[h].cascade = {}
           /\ family'[h].walk = {} /\ family'[h].running = {} /\ family'[h].owed = {}
           /\ S!Goes(h, family'[h])
<1> DEFINE new == [S!Idle EXCEPT !.pc = "walk read", !.collects = TRUE]
<1>1. /\ new \in S!HandlerStates /\ new.pc = "walk read" /\ new.cascade = {} /\ new.walk = {} /\ new.running = {}
      /\ new.owed = {}
  BY DEF S!Idle, S!HandlerStates, S!Live
<1>2. S!Goes(h, new)
  BY DEF S!CancelParent, S!Goes
<1> HIDE DEF new
<1>3. family'[h] = new
  BY <1>1, <1>2, HandMoves DEF S!TypeOK
<1> QED BY <1>1, <1>2, <1>3 DEF S!CancelParent

LEMMA ReadParentGoes ==
    ASSUME S!TypeOK, PlannerOK, NEW h \in FamilyHandlers, S!ReadParent(h)
    PROVE  /\ family[h].pc = "parent" /\ UNCHANGED <<parent, kid, planner, paid, retried, overlapped, broken>>
           /\ family'[h] \in S!HandlerStates /\ family'[h].walk = family[h].walk
           /\ family'[h].cascade \subseteq family[h].cascade
           /\ family'[h].owed = family[h].owed /\ family'[h].running = family[h].running
           /\ S!Derivable => family'[h].pc = "kids" /\ family'[h].status = parent.status
           /\ ~S!Derivable => family'[h].pc = IF family[h].walk # {} THEN "walk" ELSE "mint"
           /\ S!Goes(h, family'[h])
<1>0. family[h] \in S!HandlerStates
  BY DEF S!TypeOK
<1>1. CASE S!Derivable
  <2> DEFINE new == [family[h] EXCEPT !.pc = "kids", !.status = parent.status]
  <2>0. parent.status \in S!Live \cup S!Terminal
    <3>1. parent.split # 0 /\ parent \in S!Parents
      BY <1>1 DEF S!TypeOK, S!Derivable, S!Parents
    <3> QED BY <3>1 DEF S!Parents, PlannerOK
  <2>1. /\ new \in S!HandlerStates /\ new.pc = "kids" /\ new.status = parent.status /\ new.walk = family[h].walk
        /\ new.cascade = family[h].cascade /\ new.owed = family[h].owed /\ new.running = family[h].running
    BY <1>0, <2>0 DEF S!HandlerStates
  <2>2. S!Goes(h, new)
    BY <1>1 DEF S!ReadParent
  <2> HIDE DEF new
  <2>3. family'[h] = new
    BY <2>1, <2>2, HandMoves DEF S!TypeOK
  <2> QED BY <1>1, <2>1, <2>2, <2>3 DEF S!ReadParent
<1>2. CASE ~S!Derivable
  <2>1. S!Goes(h, S!AfterRefresh(family[h]))
    BY <1>2 DEF S!ReadParent
  <2>2. family'[h] = S!AfterRefresh(family[h])
    BY <1>0, <2>1, Afterwards, HandMoves DEF S!TypeOK
  <2> QED BY <1>0, <1>2, <2>1, <2>2, Afterwards DEF S!ReadParent
<1> QED BY <1>1, <1>2

LEMMA ReadChildrenGoes ==
    ASSUME S!TypeOK, NEW h \in FamilyHandlers, S!ReadChildren(h)
    PROVE  LET ends == S!Derived \in {"failed", "cancelled"}
           IN  /\ family[h].pc = "kids" /\ UNCHANGED <<parent, kid, planner, paid, retried, overlapped, broken>>
               /\ family'[h] \in S!HandlerStates /\ family'[h].walk = family[h].walk /\ family'[h].owed = family[h].owed
               /\ family'[h].running \subseteq family[h].running \cup {i \in S!Left : kid[i].status = "running"}
               /\ family'[h].cascade \subseteq S!Left
               /\ \/ /\ family'[h].pc = "write" /\ family'[h].status = S!Derived
                     /\ family'[h].cascade = IF ends THEN S!Left ELSE {}
                  \/ /\ S!Derived = family[h].status
                     /\ family'[h].pc = IF family[h].walk # {} THEN "walk" ELSE "mint"
               /\ S!Goes(h, family'[h])
<1>0. family[h] \in S!HandlerStates /\ S!Left \subseteq S!Indices
  BY DEF S!TypeOK, S!Left, S!Children
<1> DEFINE ends == S!Derived \in {"failed", "cancelled"}
<1> DEFINE run == IF ends THEN {i \in S!Left : kid[i].status = "running"} ELSE family[h].running
<1> DEFINE cut == IF ends THEN S!Left ELSE {}
<1>1. run \subseteq S!Indices /\ cut \subseteq S!Indices
  BY <1>0 DEF S!HandlerStates
<1>2. /\ run \subseteq family[h].running \cup {i \in S!Left : kid[i].status = "running"} /\ cut \subseteq S!Left
      /\ cut = IF ends THEN S!Left ELSE {}
  OBVIOUS
<1> DEFINE next == [family[h] EXCEPT !.status = S!Derived, !.cascade = cut, !.running = run]
<1>3. \/ S!Goes(h, [next EXCEPT !.pc = "write"])
      \/ S!Derived = family[h].status /\ S!Goes(h, S!AfterRefresh(next))
  BY DEF S!ReadChildren
<1> HIDE DEF run, cut
<1>4. /\ next \in S!HandlerStates /\ next.status = S!Derived /\ next.cascade = cut /\ next.running = run
      /\ next.walk = family[h].walk /\ next.owed = family[h].owed
  BY <1>0, <1>1, DerivedTyped DEF S!HandlerStates
<1> HIDE DEF next
<1>5. LET w == [next EXCEPT !.pc = "write"]
      IN  /\ w \in S!HandlerStates /\ w.status = S!Derived /\ w.cascade = cut /\ w.running = run
          /\ w.walk = family[h].walk /\ w.owed = family[h].owed /\ w.pc = "write"
  BY <1>4 DEF S!HandlerStates
<1>6. UNCHANGED <<parent, kid, planner, paid, retried, overlapped, broken>> /\ family[h].pc = "kids"
  BY DEF S!ReadChildren
<1>7. CASE S!Goes(h, [next EXCEPT !.pc = "write"])
  <2>1. family'[h] = [next EXCEPT !.pc = "write"]
    BY <1>5, <1>7, HandMoves DEF S!TypeOK
  <2> QED BY <1>2, <1>5, <1>6, <1>7, <2>1
<1>8. CASE S!Derived = family[h].status /\ S!Goes(h, S!AfterRefresh(next))
  <2>1. family'[h] = S!AfterRefresh(next)
    BY <1>4, <1>8, Afterwards, HandMoves DEF S!TypeOK
  <2>2. /\ S!AfterRefresh(next) \in S!HandlerStates /\ S!AfterRefresh(next).walk = family[h].walk
        /\ S!AfterRefresh(next).owed = family[h].owed /\ S!AfterRefresh(next).running = run
        /\ S!AfterRefresh(next).cascade = {}
        /\ S!AfterRefresh(next).pc = IF family[h].walk # {} THEN "walk" ELSE "mint"
    BY <1>4, Afterwards
  <2> HIDE DEF ends
  <2> QED BY <1>2, <1>6, <1>8, <2>1, <2>2
<1> QED BY <1>3, <1>7, <1>8

LEMMA WriteParentGoes ==
    ASSUME S!TypeOK, NEW h \in FamilyHandlers, S!WriteParent(h)
    PROVE  /\ family[h].pc = "write" /\ UNCHANGED <<kid, planner, paid, retried, overlapped, broken>>
           /\ parent' = [parent EXCEPT !.status = family[h].status, !.held = FALSE]
           /\ family'[h] \in S!HandlerStates /\ family'[h].walk = family[h].walk /\ family'[h].owed = family[h].owed
           /\ family'[h].running = family[h].running /\ family'[h].cascade = family[h].cascade
           /\ family'[h].pc = IF family[h].cascade # {} THEN "cascade" ELSE IF family[h].walk # {} THEN "walk" ELSE "mint"
           /\ S!Goes(h, family'[h])
<1>0. family[h] \in S!HandlerStates
  BY DEF S!TypeOK
<1>1. CASE family[h].cascade = {}
  <2>1. S!Goes(h, S!AfterRefresh(family[h]))
    BY <1>1 DEF S!WriteParent
  <2>2. family'[h] = S!AfterRefresh(family[h])
    BY <1>0, <2>1, Afterwards, HandMoves DEF S!TypeOK
  <2> QED BY <1>0, <1>1, <2>1, <2>2, Afterwards DEF S!WriteParent
<1>2. CASE family[h].cascade # {}
  <2> DEFINE new == [family[h] EXCEPT !.pc = "cascade"]
  <2>1. /\ new \in S!HandlerStates /\ new.pc = "cascade" /\ new.walk = family[h].walk
        /\ new.cascade = family[h].cascade /\ new.owed = family[h].owed /\ new.running = family[h].running
    BY <1>0 DEF S!HandlerStates
  <2>2. S!Goes(h, new)
    BY <1>2 DEF S!WriteParent
  <2> HIDE DEF new
  <2>3. family'[h] = new
    BY <2>1, <2>2, HandMoves DEF S!TypeOK
  <2> QED BY <1>2, <2>1, <2>2, <2>3 DEF S!WriteParent
<1> QED BY <1>1, <1>2

LEMMA CancelSiblingGoes ==
    ASSUME S!TypeOK, NEW h \in FamilyHandlers, S!CancelSibling(h), family[h].cascade # {}
    PROVE  \E i \in family[h].cascade :
               /\ i \in S!Indices /\ family[h].pc = "cascade"
               /\ UNCHANGED <<parent, planner, paid, retried, overlapped, broken>>
               /\ kid' = [kid EXCEPT ![i].status = "cancelled"]
               /\ family'[h] \in S!HandlerStates /\ family'[h].walk = family[h].walk
               /\ family'[h].owed \subseteq family[h].owed \cup ({i} \cap family[h].running)
               /\ family'[h].running = family[h].running /\ family'[h].cascade = family[h].cascade \ {i}
               /\ family'[h].pc = IF family'[h].cascade # {} THEN "cascade"
                                ELSE IF family[h].walk # {} THEN "walk" ELSE "mint"
               /\ S!Goes(h, family'[h])
<1>0. family[h] \in S!HandlerStates
  BY DEF S!TypeOK
<1> DEFINE i == S!Min(family[h].cascade)
<1>1. i \in family[h].cascade /\ i \in S!Indices
  BY <1>0, LeastIndex DEF S!HandlerStates
<1> DEFINE rest == family[h].cascade \ {i}
<1> DEFINE owed == IF family[h].collects THEN family[h].owed \cup ({i} \cap family[h].running) ELSE family[h].owed
<1> DEFINE next == [family[h] EXCEPT !.cascade = rest, !.owed = owed]
<1>2. /\ kid' = [kid EXCEPT ![i].status = "cancelled"]
      /\ S!Goes(h, IF rest = {} THEN S!AfterRefresh(next) ELSE next)
      /\ UNCHANGED <<parent, planner, paid, retried, overlapped, broken>> /\ family[h].pc = "cascade"
  BY DEF S!CancelSibling
<1> HIDE DEF i
<1>3. owed \subseteq S!Indices /\ rest \subseteq S!Indices
  BY <1>0, <1>1 DEF S!HandlerStates
<1>4. owed \subseteq family[h].owed \cup ({i} \cap family[h].running)
  OBVIOUS
<1> HIDE DEF owed
<1>5. /\ next \in S!HandlerStates /\ next.pc = family[h].pc /\ next.cascade = rest /\ next.running = family[h].running
      /\ next.walk = family[h].walk /\ next.owed = owed
  BY <1>0, <1>3 DEF S!HandlerStates
<1> HIDE DEF next
<1>6. CASE rest = {}
  <2>1. family'[h] = S!AfterRefresh(next) /\ S!Goes(h, S!AfterRefresh(next))
    BY <1>2, <1>5, <1>6, Afterwards, HandMoves DEF S!TypeOK
  <2>2. /\ family'[h] \in S!HandlerStates /\ family'[h].walk = family[h].walk /\ family'[h].owed = owed
        /\ family'[h].running = family[h].running /\ family'[h].cascade = rest
        /\ family'[h].pc = IF family[h].walk # {} THEN "walk" ELSE "mint"
    BY <1>5, <1>6, <2>1, Afterwards
  <2> QED BY <1>1, <1>2, <1>4, <1>6, <2>1, <2>2
<1>7. CASE rest # {}
  <2>1. family'[h] = next /\ S!Goes(h, next)
    BY <1>2, <1>5, <1>7, HandMoves DEF S!TypeOK
  <2> QED BY <1>1, <1>2, <1>4, <1>5, <1>7, <2>1
<1> QED BY <1>6, <1>7

LEMMA WalkReadGoes ==
    ASSUME S!TypeOK, NEW h \in FamilyHandlers, S!WalkRead(h)
    PROVE  /\ family[h].pc = "walk read" /\ UNCHANGED <<parent, kid, planner, paid, retried, overlapped, broken>>
           /\ family'[h] \in S!HandlerStates /\ family'[h].walk = S!Left /\ family'[h].owed = family[h].owed
           /\ family'[h].running = {i \in S!Left : kid[i].status = "running"} /\ family'[h].cascade = {}
           /\ family'[h].pc = IF S!Left # {} THEN "walk" ELSE "mint"
           /\ S!Goes(h, family'[h])
<1>0. family[h] \in S!HandlerStates /\ S!Left \subseteq S!Indices
  BY DEF S!TypeOK, S!Left, S!Children
<1> DEFINE run == {i \in S!Left : kid[i].status = "running"}
<1> DEFINE next == [family[h] EXCEPT !.walk = S!Left, !.running = run]
<1>1. run \subseteq S!Indices
  BY <1>0
<1>2. S!Goes(h, S!AfterRefresh(next))
  BY DEF S!WalkRead
<1> HIDE DEF run
<1>3. next \in S!HandlerStates /\ next.walk = S!Left /\ next.running = run /\ next.owed = family[h].owed
  BY <1>0, <1>1 DEF S!HandlerStates
<1> HIDE DEF next
<1>4. family'[h] = S!AfterRefresh(next)
  BY <1>2, <1>3, Afterwards, HandMoves DEF S!TypeOK
<1>5. /\ family'[h] \in S!HandlerStates /\ family'[h].walk = S!Left /\ family'[h].owed = family[h].owed
      /\ family'[h].running = run /\ family'[h].cascade = {} /\ family'[h].pc = IF S!Left # {} THEN "walk" ELSE "mint"
  BY <1>3, <1>4, Afterwards
<1> QED BY <1>2, <1>4, <1>5 DEF S!WalkRead, run

LEMMA WalkNextGoes ==
    ASSUME S!TypeOK, NEW h \in FamilyHandlers, S!WalkNext(h), family[h].walk # {}
    PROVE  \E i \in family[h].walk :
               /\ i \in S!Indices /\ family[h].pc = "walk"
               /\ UNCHANGED <<parent, planner, paid, retried, overlapped, broken>>
               /\ family'[h] \in S!HandlerStates /\ family'[h].walk = family[h].walk \ {i}
               /\ family'[h].running = family[h].running /\ family'[h].cascade \subseteq family[h].cascade
               /\ \/ /\ kid[i].status \in S!Live /\ kid' = [kid EXCEPT ![i].status = "cancelled"]
                     /\ family'[h].pc = "parent"
                     /\ family'[h].owed \subseteq family[h].owed \cup ({i} \cap family[h].running)
                  \/ /\ kid[i].status \notin S!Live /\ UNCHANGED kid /\ family'[h].owed = family[h].owed
                     /\ family'[h].pc = IF family'[h].walk # {} THEN "walk" ELSE "mint"
               /\ S!Goes(h, family'[h])
<1>0. family[h] \in S!HandlerStates
  BY DEF S!TypeOK
<1> DEFINE i == S!Min(family[h].walk)
<1>1. i \in family[h].walk /\ i \in S!Indices
  BY <1>0, LeastIndex DEF S!HandlerStates
<1> DEFINE next == [family[h] EXCEPT !.walk = @ \ {i}]
<1> DEFINE owed == IF kid[i].status = "queued" THEN family[h].owed ELSE family[h].owed \cup ({i} \cap family[h].running)
<1> DEFINE new == [next EXCEPT !.pc = "parent", !.owed = owed]
<1>2. /\ kid[i].status \in S!Live => kid' = [kid EXCEPT ![i].status = "cancelled"]
      /\ kid[i].status \notin S!Live => UNCHANGED kid /\ S!Goes(h, S!AfterRefresh(next))
      /\ UNCHANGED <<parent, planner, paid, retried, overlapped, broken>> /\ family[h].pc = "walk"
  BY DEF S!WalkNext
<1>3. next \in S!HandlerStates /\ next.walk = family[h].walk \ {i} /\ next.running = family[h].running
      /\ next.owed = family[h].owed /\ next.cascade = family[h].cascade
  BY <1>0, <1>1 DEF S!HandlerStates
<1>4. owed \subseteq S!Indices /\ owed \subseteq family[h].owed \cup ({i} \cap family[h].running)
  BY <1>0, <1>1 DEF S!HandlerStates
<1>5. kid[i].status \in S!Live => S!Goes(h, new)
  BY <1>3 DEF S!WalkNext
<1> HIDE DEF i, next, owed
<1>6. /\ new \in S!HandlerStates /\ new.walk = family[h].walk \ {i} /\ new.running = family[h].running
      /\ new.owed = owed /\ new.cascade = family[h].cascade /\ new.pc = "parent"
  BY <1>3, <1>4 DEF S!HandlerStates
<1> HIDE DEF new
<1>7. CASE kid[i].status \in S!Live
  <2>1. family'[h] = new /\ S!Goes(h, new)
    BY <1>5, <1>6, <1>7, HandMoves DEF S!TypeOK
  <2> QED BY <1>1, <1>2, <1>4, <1>6, <1>7, <2>1
<1>8. CASE kid[i].status \notin S!Live
  <2>1. family'[h] = S!AfterRefresh(next) /\ S!Goes(h, S!AfterRefresh(next))
    BY <1>2, <1>3, <1>8, Afterwards, HandMoves DEF S!TypeOK
  <2>2. /\ family'[h] \in S!HandlerStates /\ family'[h].walk = family[h].walk \ {i} /\ family'[h].owed = family[h].owed
        /\ family'[h].running = family[h].running /\ family'[h].cascade = {}
        /\ family'[h].pc = IF family'[h].walk # {} THEN "walk" ELSE "mint"
    BY <1>3, <2>1, Afterwards
  <2> QED BY <1>1, <1>2, <1>8, <2>1, <2>2
<1> QED BY <1>7, <1>8

LEMMA EndGoes ==
    ASSUME S!TypeOK, NEW h \in FamilyHandlers, S!Mint(h) \/ S!BreakOff(h)
    PROVE  family[h].pc # "idle" /\ family'[h] = S!Idle /\ S!Goes(h, S!Idle)
           /\ UNCHANGED <<parent, kid, planner, retried, overlapped>>
BY HandMoves, IdleIs DEF S!Mint, S!BreakOff, S!TypeOK

----------------------------------------------------------------------------
(* Types *)

\* The batch a submission plans for is that of a workflow's one source.
LEMMA SubmitPlans ==
    ASSUME S!TypeOK, PlannerOK, HeldOK, S!Submit
    PROVE  /\ parent' \in S!Parents /\ parent'.status = "queued" /\ parent.status = "new"
           /\ parent'.split = parent.split /\ parent'.held = parent.held
<1>1. PICK flow \in Workflows :
          parent' = [parent EXCEPT !.status = "queued",
                         !.plan = IF \E s \in DOMAIN flow : S!Splittable(flow, s)
                                  THEN flow[CHOOSE s \in S!Sources(flow) : TRUE].batch ELSE 0]
  BY DEF S!Submit
<1> DEFINE plan == IF \E s \in DOMAIN flow : S!Splittable(flow, s)
                   THEN flow[CHOOSE s \in S!Sources(flow) : TRUE].batch ELSE 0
<1>2. plan \in 0 .. MaxBatch
  <2>0. MaxBatch \in Nat
    BY FamilyAssumption
  <2> SUFFICES ASSUME \E s \in DOMAIN flow : S!Splittable(flow, s) PROVE plan \in 0 .. MaxBatch
    BY <2>0
  <2> PICK s \in DOMAIN flow : S!Splittable(flow, s)
    OBVIOUS
  <2>1. S!Sources(flow) = {s}
    BY DEF S!Splittable
  <2>2. (CHOOSE x \in S!Sources(flow) : TRUE) = s
    BY <2>1
  <2>3. flow[s] \in S!Nodes /\ flow[s].batch \notin {NoBatch, 1}
    BY <2>1, FamilyAssumption DEF S!Sources
  <2>4. flow[s].batch \in {NoBatch} \cup 1 .. MaxBatch
    BY <2>3 DEF S!Nodes
  <2>5. plan = flow[s].batch
    BY <2>2
  <2> QED BY <2>3, <2>4, <2>5
<1> HIDE DEF plan
<1>3. parent' = [parent EXCEPT !.status = "queued", !.plan = plan]
  BY <1>1 DEF plan
<1> QED BY <1>2, <1>3 DEF S!Submit, S!TypeOK, S!Parents, S!Live

LEMMA CreatedIs ==
    ASSUME S!TypeOK, PlannerOK, S!CreateChildren, S!Unsplit
    PROVE  /\ parent' = [parent EXCEPT !.split = planner.k] /\ planner.k \in 2 .. MaxSplit
           /\ planner.batch \in 2 .. MaxBatch /\ planner.k <= planner.batch
           /\ kid' \in [S!Indices -> S!Kids]
           /\ \A i \in S!Indices :
                 IF i < planner.k /\ i \notin S!Children
                 THEN /\ kid'[i].status = "queued" /\ ~kid'[i].ran
                      /\ kid'[i].images = S!Partition(planner.batch, planner.k)[i]
                 ELSE kid'[i] = kid[i]
<1>1. planner.k \in 2 .. MaxSplit /\ planner.batch \in 0 .. MaxBatch /\ planner.k <= planner.batch
  BY DEF PlannerOK, S!CreateChildren, S!TypeOK
<1>2. planner.batch \in 2 .. MaxBatch /\ planner.k \in Nat \ {0} /\ planner.batch \in Nat /\ planner.k <= MaxSplit
  BY <1>1, FamilyAssumption
<1>3. \A i \in S!Indices : i < planner.k => S!Partition(planner.batch, planner.k)[i] \in SUBSET (0 .. MaxBatch - 1)
  <2>1. UNION {S!Partition(planner.batch, planner.k)[i] : i \in 0 .. planner.k - 1} = 0 .. planner.batch - 1
    BY <1>1, <1>2, PartitionCovers, FamilyAssumption
  <2>2. 0 .. planner.batch - 1 \subseteq 0 .. MaxBatch - 1
    BY <1>2, FamilyAssumption
  <2>3. \A i \in S!Indices : i < planner.k => i \in 0 .. planner.k - 1
    BY <1>2 DEF S!Indices
  <2> HIDE <1>1, <1>2
  <2> QED BY <2>1, <2>2, <2>3
<1> DEFINE new(i) == [S!NoKid EXCEPT !.status = "queued", !.images = S!Partition(planner.batch, planner.k)[i]]
<1>4. \A i \in S!Indices :
          i < planner.k => /\ new(i) \in S!Kids /\ new(i).status = "queued" /\ ~new(i).ran
                           /\ new(i).images = S!Partition(planner.batch, planner.k)[i]
  BY <1>3 DEF S!NoKid, S!Kids, S!Live
<1>5. kid' = [i \in S!Indices |-> IF i < planner.k /\ i \notin S!Children THEN new(i) ELSE kid[i]]
  BY DEF S!CreateChildren
<1> HIDE DEF new
<1>6. kid' \in [S!Indices -> S!Kids]
  BY <1>4, <1>5 DEF S!TypeOK
<1>7. parent' = [parent EXCEPT !.split = planner.k]
  BY DEF S!CreateChildren
<1> QED BY <1>1, <1>2, <1>4, <1>5, <1>6, <1>7

LEMMA KidTyped ==
    ASSUME S!TypeOK, NEW i \in S!Indices, NEW s \in S!Live \cup S!Terminal, kid' = [kid EXCEPT ![i].status = s]
    PROVE  /\ kid' \in [S!Indices -> S!Kids] /\ kid'[i].status = s
           /\ kid'[i].images = kid[i].images /\ kid'[i].ran = kid[i].ran
           /\ \A j \in S!Indices : j # i => kid'[j] = kid[j]
BY DEF S!TypeOK, S!Kids

LEMMA FamilyTypes ==
    ASSUME S!TypeOK, HeldOK, PlannerOK, CascadeSome, S!Next
    PROVE  S!TypeOK'
<1>1. CASE S!Submit
  BY <1>1, SubmitPlans DEF S!Submit, S!TypeOK
<1>2. CASE S!PlanChildren
  <2>1. PICK k \in 2 .. S!Min({parent.plan, MaxSplit}) : planner' = [batch |-> parent.plan, k |-> k]
    BY <1>2 DEF S!PlanChildren
  <2>2. S!Min({parent.plan, MaxSplit}) \in Nat /\ S!Min({parent.plan, MaxSplit}) <= MaxSplit
    BY FamilyAssumption DEF S!TypeOK, S!Parents, S!Min
  <2>3. k \in 0 .. MaxSplit /\ parent.plan \in 0 .. MaxBatch
    BY <2>2, FamilyAssumption DEF S!TypeOK, S!Parents
  <2> QED BY <1>2, <2>1, <2>3 DEF S!PlanChildren, S!TypeOK
<1>3. CASE S!CreateChildren
  <2>1. S!NoPlan \in [batch: 0 .. MaxBatch, k: 0 .. MaxSplit]
    BY FamilyAssumption DEF S!NoPlan
  <2>2. CASE S!Unsplit
    <3>1. parent' \in S!Parents /\ kid' \in [S!Indices -> S!Kids]
      BY <1>3, <2>2, CreatedIs DEF S!TypeOK, S!Parents
    <3> QED BY <1>3, <2>1, <3>1 DEF S!CreateChildren, S!TypeOK
  <2>3. CASE ~S!Unsplit
    BY <1>3, <2>1, <2>3 DEF S!CreateChildren, S!TypeOK
  <2> QED BY <2>2, <2>3
<1>4. CASE S!FailToCreate
  <2>1. S!NoPlan \in [batch: 0 .. MaxBatch, k: 0 .. MaxSplit]
    BY FamilyAssumption DEF S!NoPlan
  <2> QED BY <1>4, <2>1 DEF S!FailToCreate, S!TypeOK
<1>5. CASE S!ClaimWhole \/ S!ReportWhole \/ S!Retry
  <2>1. parent' \in S!Parents
    <3>1. CASE S!ClaimWhole
      <4>1. parent' = [parent EXCEPT !.status = "assigned", !.held = TRUE]
        BY <3>1 DEF S!ClaimWhole
      <4> QED BY <4>1 DEF S!TypeOK, S!Parents, S!Live
    <3>2. CASE S!ReportWhole
      <4>1. PICK became \in {"running", "done", "failed", "queued"} :
                parent' = [parent EXCEPT !.status = became, !.held = became = "running"]
        BY <3>2 DEF S!ReportWhole
      <4>2. (became = "running") \in BOOLEAN /\ became \in S!Live \cup S!Terminal
        BY DEF S!Live, S!Terminal
      <4> QED BY <4>1, <4>2 DEF S!TypeOK, S!Parents
    <3>3. CASE S!Retry
      <4>1. parent' = [parent EXCEPT !.status = "queued", !.held = FALSE, !.split = 0, !.plan = 0]
        BY <3>3 DEF S!Retry, S!RetriedRow
      <4>2. parent' = [status |-> "queued", held |-> FALSE, split |-> 0, plan |-> 0]
        BY <4>1 DEF S!TypeOK, S!Parents
      <4>3. 0 \in 0 .. MaxSplit /\ 0 \in 0 .. MaxBatch /\ "queued" \in S!Live
        BY FamilyAssumption DEF S!Live
      <4> QED BY <4>2, <4>3 DEF S!Parents
    <3> QED BY <1>5, <3>1, <3>2, <3>3
  <2>2. retried' \in BOOLEAN /\ overlapped' \in BOOLEAN
    BY <1>5 DEF S!ClaimWhole, S!ReportWhole, S!Retry, S!TypeOK
  <2> QED BY <1>5, <2>1, <2>2 DEF S!ClaimWhole, S!ReportWhole, S!Retry, S!TypeOK
<1>6. ASSUME NEW h \in FamilyHandlers, family'[h] \in S!HandlerStates, S!Goes(h, family'[h]),
             parent' \in S!Parents, kid' \in [S!Indices -> S!Kids], UNCHANGED <<planner, retried>>,
             paid' \in [S!Indices -> 0 .. 2], overlapped' \in BOOLEAN, broken' \in BOOLEAN
      PROVE  S!TypeOK'
  BY <1>6, HandMoves DEF S!TypeOK
<1>7. ASSUME NEW h \in FamilyHandlers, S!Moved(h) PROVE S!TypeOK'
  <2>1. kid' \in [S!Indices -> S!Kids]
    BY <1>7, MovedGoes DEF S!TypeOK
  <2>2. overlapped' \in BOOLEAN
    BY <1>7, MovedGoes DEF S!TypeOK
  <2>3. /\ family'[h] \in S!HandlerStates /\ S!Goes(h, family'[h])
        /\ UNCHANGED <<parent, planner, paid, retried, broken>>
    BY <1>7, MovedGoes
  <2> QED BY <1>6, <2>1, <2>2, <2>3 DEF S!TypeOK
<1>8. ASSUME NEW h \in FamilyHandlers, S!CancelParent(h) PROVE S!TypeOK'
  <2>1. parent' \in S!Parents
    BY <1>8 DEF S!CancelParent, S!TypeOK, S!Parents, S!Terminal
  <2>2. overlapped' \in BOOLEAN
    BY <1>8, CancelGoes DEF S!TypeOK
  <2> QED BY <1>6, <1>8, <2>1, <2>2, CancelGoes DEF S!TypeOK
<1>9. ASSUME NEW h \in FamilyHandlers, S!ReadParent(h) \/ S!ReadChildren(h) \/ S!WalkRead(h) PROVE S!TypeOK'
  <2>1. /\ family'[h] \in S!HandlerStates /\ S!Goes(h, family'[h])
        /\ UNCHANGED <<parent, kid, planner, paid, retried, overlapped, broken>>
    BY <1>9, ReadParentGoes, ReadChildrenGoes, WalkReadGoes
  <2> QED BY <1>6, <2>1 DEF S!TypeOK
<1>10. ASSUME NEW h \in FamilyHandlers, S!WriteParent(h) PROVE S!TypeOK'
  <2>1. family[h].status \in S!Live \cup S!Terminal
    BY DEF S!TypeOK, S!HandlerStates
  <2>2. parent' \in S!Parents
    <3>1. parent' = [parent EXCEPT !.status = family[h].status, !.held = FALSE]
      BY <1>10 DEF S!WriteParent
    <3> QED BY <2>1, <3>1 DEF S!TypeOK, S!Parents
  <2>3. /\ family'[h] \in S!HandlerStates /\ S!Goes(h, family'[h])
        /\ UNCHANGED <<kid, planner, paid, retried, overlapped, broken>>
    BY <1>10, WriteParentGoes
  <2> QED BY <1>6, <2>2, <2>3 DEF S!TypeOK
<1>11. ASSUME NEW h \in FamilyHandlers, S!CancelSibling(h) PROVE S!TypeOK'
  <2>0. family[h].cascade # {}
    BY <1>11 DEF CascadeSome, S!CancelSibling
  <2>1. PICK i \in S!Indices :
            /\ UNCHANGED <<parent, planner, paid, retried, overlapped, broken>>
            /\ kid' = [kid EXCEPT ![i].status = "cancelled"]
            /\ family'[h] \in S!HandlerStates /\ S!Goes(h, family'[h])
    BY <1>11, <2>0, CancelSiblingGoes
  <2>2. kid' \in [S!Indices -> S!Kids]
    BY <2>1, KidTyped DEF S!Terminal
  <2> QED BY <1>6, <2>1, <2>2 DEF S!TypeOK
<1>12. ASSUME NEW h \in FamilyHandlers, S!WalkNext(h) PROVE S!TypeOK'
  <2>0. family[h].walk # {}
    BY <1>12 DEF CascadeSome, S!WalkNext
  <2>1. PICK i \in S!Indices :
            /\ UNCHANGED <<parent, planner, paid, retried, overlapped, broken>>
            /\ kid' = [kid EXCEPT ![i].status = "cancelled"] \/ UNCHANGED kid
            /\ family'[h] \in S!HandlerStates /\ S!Goes(h, family'[h])
    BY <1>12, <2>0, WalkNextGoes
  <2>2. kid' \in [S!Indices -> S!Kids]
    BY <2>1, KidTyped DEF S!Terminal, S!TypeOK
  <2> QED BY <1>6, <2>1, <2>2 DEF S!TypeOK
<1>13. ASSUME NEW h \in FamilyHandlers, S!Mint(h) \/ S!BreakOff(h) PROVE S!TypeOK'
  <2>1. paid' \in [S!Indices -> 0 .. 2]
    <3>1. CASE S!Mint(h)
      <4>1. \A i \in S!Indices : S!Min({2, paid[i] + 1}) \in 0 .. 2
        BY DEF S!TypeOK, S!Min
      <4> QED BY <3>1, <4>1 DEF S!Mint, S!TypeOK
    <3>2. CASE S!BreakOff(h)
      BY <3>2 DEF S!BreakOff, S!TypeOK
    <3> QED BY <1>13, <3>1, <3>2
  <2>2. broken' \in BOOLEAN
    BY <1>13 DEF S!Mint, S!BreakOff, S!TypeOK
  <2>3. family'[h] \in S!HandlerStates /\ S!Goes(h, family'[h])
        /\ UNCHANGED <<parent, kid, planner, retried, overlapped>>
    BY <1>13, EndGoes, IdleIs
  <2> QED BY <1>6, <2>1, <2>2, <2>3 DEF S!TypeOK
<1> QED
  BY <1>1, <1>2, <1>3, <1>4, <1>5, <1>7, <1>8, <1>9, <1>10, <1>11, <1>12, <1>13 DEF S!Next, S!Refreshing

\* A child is never unmade: what a step may do to the children.
LEMMA KidSteps ==
    ASSUME S!TypeOK, CascadeSome, S!Next
    PROVE  \/ S!CreateChildren /\ S!Unsplit
           \/ UNCHANGED kid
           \/ \E i \in S!Children :
                 /\ i \in S!Indices /\ kid' = [kid EXCEPT ![i] = kid'[i]] /\ kid'[i] \in S!Kids
                 /\ kid'[i].status \in S!Live \cup S!Terminal /\ kid'[i].images = kid[i].images
                 /\ kid'[i].ran = (kid[i].ran \/ kid'[i].status = "running")
                 /\ \/ kid[i].status \in S!Live
                    \/ kid'[i].status = "cancelled"
<1>0. \A i \in S!Indices : kid[i].status \in S!Live => i \in S!Children
  BY DEF S!Children, S!Live
<1>1. ASSUME NEW h \in FamilyHandlers, S!Moved(h)
      PROVE  \E i \in S!Children :
                 /\ i \in S!Indices /\ kid' = [kid EXCEPT ![i] = kid'[i]] /\ kid'[i] \in S!Kids
                 /\ kid'[i].status \in S!Live \cup S!Terminal /\ kid'[i].images = kid[i].images
                 /\ kid'[i].ran = (kid[i].ran \/ kid'[i].status = "running")
                 /\ kid[i].status \in S!Live
  BY <1>0, <1>1, MovedGoes
<1>2. ASSUME NEW i \in S!Children, kid' = [kid EXCEPT ![i].status = "cancelled"]
      PROVE  /\ i \in S!Indices /\ kid' = [kid EXCEPT ![i] = kid'[i]] /\ kid'[i] \in S!Kids
             /\ kid'[i].status \in S!Live \cup S!Terminal /\ kid'[i].images = kid[i].images
             /\ kid'[i].ran = (kid[i].ran \/ kid'[i].status = "running")
             /\ kid'[i].status = "cancelled"
  <2>1. i \in S!Indices /\ "cancelled" \in S!Live \cup S!Terminal
    BY DEF S!Children, S!Terminal
  <2>2. kid'[i] = [kid[i] EXCEPT !.status = "cancelled"] /\ kid' = [kid EXCEPT ![i] = kid'[i]]
    BY <1>2, <2>1 DEF S!TypeOK
  <2>3. kid'[i].ran = kid[i].ran /\ kid'[i].status = "cancelled" /\ kid[i].ran \in BOOLEAN
    BY <1>2, <2>1, KidTyped DEF S!TypeOK, S!Kids
  <2>4. kid'[i].ran = (kid[i].ran \/ kid'[i].status = "running")
    BY <2>3, SMTT(30)
  <2> QED BY <1>2, <2>1, <2>2, <2>3, <2>4, KidTyped
<1>3. ASSUME NEW h \in FamilyHandlers, S!CancelSibling(h)
      PROVE  \E i \in S!Children : kid' = [kid EXCEPT ![i].status = "cancelled"]
  BY <1>3, CancelSiblingGoes DEF CascadeSome, S!CancelSibling
<1>4. ASSUME NEW h \in FamilyHandlers, S!WalkNext(h)
      PROVE  UNCHANGED kid \/ \E i \in S!Children : kid' = [kid EXCEPT ![i].status = "cancelled"]
  <2>1. family[h].walk # {}
    BY <1>4 DEF CascadeSome, S!WalkNext
  <2> QED BY <1>0, <1>4, <2>1, WalkNextGoes
<1>5. ASSUME S!Submit \/ S!PlanChildren \/ S!FailToCreate \/ S!ClaimWhole \/ S!ReportWhole \/ S!Retry PROVE UNCHANGED kid
  BY <1>5 DEF S!Submit, S!PlanChildren, S!FailToCreate, S!ClaimWhole, S!ReportWhole, S!Retry
<1>6. ASSUME S!CreateChildren PROVE S!Unsplit \/ UNCHANGED kid
  BY <1>6 DEF S!CreateChildren
<1>7. ASSUME NEW h \in FamilyHandlers,
             \/ S!CancelParent(h) \/ S!ReadParent(h) \/ S!ReadChildren(h) \/ S!WriteParent(h)
             \/ S!WalkRead(h) \/ S!Mint(h) \/ S!BreakOff(h)
      PROVE  UNCHANGED kid
  BY <1>7 DEF S!CancelParent, S!ReadParent, S!ReadChildren, S!WriteParent, S!WalkRead, S!Mint, S!BreakOff
<1>8. CASE \E h \in FamilyHandlers : S!Moved(h)
  BY <1>1, <1>8
<1>9. CASE \E h \in FamilyHandlers : S!CancelSibling(h) \/ S!WalkNext(h)
  BY <1>2, <1>3, <1>4, <1>9
<1>10. CASE ~(\E h \in FamilyHandlers : S!Moved(h) \/ S!CancelSibling(h) \/ S!WalkNext(h))
  BY <1>5, <1>6, <1>7, <1>10 DEF S!Next, S!Refreshing
<1> QED BY <1>8, <1>9, <1>10

LEMMA KidsKeep ==
    ASSUME S!TypeOK, CascadeSome, S!Next, ~(S!CreateChildren /\ S!Unsplit)
    PROVE  /\ S!Children' = S!Children
           /\ \A i \in S!Indices : kid'[i].images = kid[i].images /\ (kid[i].ran => kid'[i].ran)
<1>1. CASE UNCHANGED kid
  BY <1>1 DEF S!Children
<1>2. ASSUME NEW i \in S!Children, i \in S!Indices, kid' = [kid EXCEPT ![i] = kid'[i]],
             kid'[i].status \in S!Live \cup S!Terminal, kid'[i].images = kid[i].images,
             kid'[i].ran = (kid[i].ran \/ kid'[i].status = "running")
      PROVE  /\ S!Children' = S!Children
             /\ \A j \in S!Indices : kid'[j].images = kid[j].images /\ (kid[j].ran => kid'[j].ran)
  <2>1. \A j \in S!Indices : j # i => kid'[j] = kid[j]
    BY <1>2 DEF S!TypeOK
  <2>2. kid'[i].status # "none" /\ kid[i].status # "none"
    BY <1>2 DEF S!Live, S!Terminal, S!Children
  <2> QED BY <1>2, <2>1, <2>2 DEF S!Children
<1> QED BY <1>1, <1>2, KidSteps

LEMMA CreatedChildren ==
    ASSUME S!TypeOK, PlannerOK, S!CreateChildren, S!Unsplit
    PROVE  /\ S!Children' = S!Children \cup 0 .. planner.k - 1
           /\ \A i \in S!Children : kid'[i] = kid[i]
           /\ \A i \in S!Indices \ S!Children : i < planner.k =>
                 /\ kid'[i].status = "queued" /\ ~kid'[i].ran
                 /\ kid'[i].images = S!Partition(planner.batch, planner.k)[i]
           /\ \A i \in S!Indices \ S!Children : ~(i < planner.k) => kid'[i] = kid[i]
<1>1. planner.k \in 2 .. MaxSplit /\ S!Children \subseteq S!Indices
  BY CreatedIs DEF S!Children
<1>2. \A i : i \in S!Indices /\ i < planner.k <=> i \in 0 .. planner.k - 1
  BY <1>1, FamilyAssumption DEF S!Indices
<1>3. \A i \in S!Indices :
                 IF i < planner.k /\ i \notin S!Children
                 THEN /\ kid'[i].status = "queued" /\ ~kid'[i].ran
                      /\ kid'[i].images = S!Partition(planner.batch, planner.k)[i]
                 ELSE kid'[i] = kid[i]
  BY CreatedIs
<1>4. \A i \in S!Indices : kid'[i].status # "none" <=> i < planner.k \/ i \in S!Children
  BY <1>3 DEF S!Children
<1>5. S!Children' = S!Children \cup 0 .. planner.k - 1
  BY <1>1, <1>2, <1>4 DEF S!Children
<1> QED BY <1>1, <1>3, <1>5

\* What each step makes of the job itself.
LEMMA ParentSteps ==
    ASSUME S!TypeOK, HeldOK, PlannerOK, S!Next
    PROVE  \/ UNCHANGED <<parent, retried>>
           \/ /\ S!Submit /\ UNCHANGED <<kid, family, retried>> /\ parent.status = "new" /\ parent'.status = "queued"
              /\ parent'.split = parent.split /\ parent'.held = parent.held
           \/ /\ S!CreateChildren /\ S!Unsplit /\ UNCHANGED retried /\ parent'.status = "queued" /\ parent'.plan = parent.plan
              /\ parent'.held = parent.held /\ parent'.split = planner.k /\ planner.k \in 2 .. MaxSplit
           \/ /\ parent.split = 0 /\ parent'.split = 0 /\ parent.status \in S!Live
              /\ S!ClaimWhole \/ S!ReportWhole
              /\ UNCHANGED <<kid, family, retried>> /\ parent'.status \in S!Live \cup S!Terminal /\ parent'.plan = parent.plan
              /\ parent'.held => parent'.status \in {"assigned", "running"}
           \/ /\ S!Retry /\ UNCHANGED <<kid, family>> /\ retried' /\ parent.status = "failed" /\ parent'.status = "queued" /\ ~parent'.held
              /\ parent'.split = 0 /\ parent'.plan = 0
           \/ /\ UNCHANGED <<kid, retried>> /\ parent'.status \in S!Live \cup S!Terminal /\ ~parent'.held
              /\ parent'.split = parent.split /\ parent'.plan = parent.plan
              /\ \E h \in FamilyHandlers : \/ S!CancelParent(h) /\ parent.status \in S!Live /\ parent'.status = "cancelled"
                                           \/ S!WriteParent(h) /\ parent'.status = family[h].status
<1>0. parent \in S!Parents
  BY ZenonT(40) DEF S!TypeOK
<1>1. CASE S!Submit
  BY <1>1, SubmitPlans, Zenon DEF S!Submit
<1>2. CASE S!CreateChildren
  <2>1. CASE S!Unsplit
    BY <1>0, <1>2, <2>1, CreatedIs DEF S!CreateChildren, S!Parents, S!Unsplit
  <2> QED BY <1>2, <2>1 DEF S!CreateChildren
<1>3. CASE S!ClaimWhole
  BY <1>0, <1>3 DEF S!ClaimWhole, S!Parents, S!Live
<1>4. CASE S!ReportWhole
  <2>1. PICK became \in {"running", "done", "failed", "queued"} :
            parent' = [parent EXCEPT !.status = became, !.held = became = "running"]
    BY <1>4 DEF S!ReportWhole
  <2>2. parent'.status = became /\ parent'.held = (became = "running") /\ parent'.split = parent.split
        /\ parent'.plan = parent.plan
    BY <1>0, <2>1 DEF S!Parents
  <2>3. became \in S!Live \cup S!Terminal
    BY DEF S!Live, S!Terminal
  <2>4. parent.held /\ parent.status \in {"assigned", "running"} /\ parent.split = 0 /\ UNCHANGED <<kid, family, retried>>
    BY <1>4 DEF S!ReportWhole, HeldOK
  <2> QED BY <1>4, <2>2, <2>3, <2>4 DEF S!Live
<1>5. CASE S!Retry
  BY <1>0, <1>5 DEF S!Retry, S!RetriedRow, S!Parents
<1>6. ASSUME NEW h \in FamilyHandlers, S!CancelParent(h)
      PROVE  /\ UNCHANGED <<kid, retried>> /\ parent'.status \in S!Live \cup S!Terminal /\ ~parent'.held
             /\ parent'.split = parent.split /\ parent'.plan = parent.plan
             /\ parent.status \in S!Live /\ parent'.status = "cancelled"
  BY <1>0, <1>6 DEF S!CancelParent, S!Parents, S!Terminal
<1>7. ASSUME NEW h \in FamilyHandlers, S!WriteParent(h)
      PROVE  /\ UNCHANGED <<kid, retried>> /\ parent'.status \in S!Live \cup S!Terminal /\ ~parent'.held
             /\ parent'.split = parent.split /\ parent'.plan = parent.plan
             /\ parent'.status = family[h].status
  <2>1. family[h].status \in S!Live \cup S!Terminal
    BY DEF S!TypeOK, S!HandlerStates
  <2>2. parent' = [parent EXCEPT !.status = family[h].status, !.held = FALSE] /\ UNCHANGED <<kid, retried>>
    BY <1>7 DEF S!WriteParent
  <2> QED BY <1>0, <2>1, <2>2 DEF S!Parents
<1>8. CASE S!PlanChildren \/ S!FailToCreate
  BY <1>8 DEF S!PlanChildren, S!FailToCreate
<1>9. ASSUME NEW h \in FamilyHandlers, \/ S!ReadParent(h) \/ S!ReadChildren(h) \/ S!CancelSibling(h)
                                       \/ S!WalkRead(h) \/ S!WalkNext(h) \/ S!Mint(h) \/ S!BreakOff(h)
      PROVE  UNCHANGED <<parent, retried>>
  BY <1>9 DEF S!ReadParent, S!ReadChildren, S!CancelSibling, S!WalkRead, S!WalkNext, S!Mint, S!BreakOff
<1>10. ASSUME NEW h \in FamilyHandlers, S!Moved(h) PROVE UNCHANGED <<parent, retried>>
  BY <1>10, MovedGoes
<1> QED BY <1>1, <1>2, <1>3, <1>4, <1>5, <1>6, <1>7, <1>8, <1>9, <1>10 DEF S!Next, S!Refreshing

LEMMA HeldStep ==
    ASSUME S!TypeOK, HeldOK, PlannerOK, S!Next
    PROVE  HeldOK'
<1>1. CASE UNCHANGED <<parent, retried>>
  BY <1>1 DEF HeldOK
<1> QED BY <1>1, ParentSteps DEF HeldOK, S!Unsplit

\* The two batches a tick may have in hand are the one it read and none.
LEMMA PlannedIs ==
    ASSUME S!TypeOK, S!PlanChildren
    PROVE  /\ planner'.k \in 2 .. MaxSplit /\ planner'.k <= planner'.batch /\ planner'.batch = parent.plan
           /\ parent.status = "queued" /\ parent.plan # 0
<1>1. PICK k \in 2 .. S!Min({parent.plan, MaxSplit}) : planner' = [batch |-> parent.plan, k |-> k]
  BY DEF S!PlanChildren
<1>2. parent.plan \in Nat /\ MaxSplit \in Nat
  BY FamilyAssumption DEF S!TypeOK, S!Parents
<1>3. S!Min({parent.plan, MaxSplit}) \in Nat
  BY <1>2 DEF S!Min
<1>4. S!Min({parent.plan, MaxSplit}) <= MaxSplit /\ S!Min({parent.plan, MaxSplit}) <= parent.plan
  BY <1>2 DEF S!Min
<1>5. k \in 2 .. MaxSplit /\ k <= parent.plan
  BY <1>2, <1>3, <1>4
<1> QED BY <1>1, <1>5 DEF S!PlanChildren

LEMMA PlannerStep ==
    ASSUME S!TypeOK, HeldOK, PlannerOK, CascadeSome, S!Next
    PROVE  PlannerOK'
<1>1. CASE S!PlanChildren
  <2>1. UNCHANGED <<parent, kid, retried, overlapped>>
    BY <1>1 DEF S!PlanChildren
  <2>2. S!Children' = S!Children
    BY <2>1 DEF S!Children
  <2> QED BY <1>1, <2>1, <2>2, PlannedIs DEF PlannerOK
<1>2. planner' = planner \/ planner' = S!NoPlan \/ S!PlanChildren
  <2>1. ASSUME NEW h \in FamilyHandlers, \/ S!ReadParent(h) \/ S!ReadChildren(h) \/ S!CancelSibling(h) \/ S!CancelParent(h)
                                         \/ S!WriteParent(h) \/ S!WalkRead(h) \/ S!WalkNext(h) \/ S!Mint(h) \/ S!BreakOff(h)
        PROVE  planner' = planner
    BY <2>1 DEF S!ReadParent, S!ReadChildren, S!CancelSibling, S!CancelParent, S!WriteParent, S!WalkRead, S!WalkNext, S!Mint, S!BreakOff
  <2>2. ASSUME NEW h \in FamilyHandlers, S!Moved(h) PROVE planner' = planner
    BY <2>2, MovedGoes
  <2>3. ASSUME S!Submit \/ S!CreateChildren \/ S!FailToCreate \/ S!ClaimWhole \/ S!ReportWhole \/ S!Retry
        PROVE  planner' = planner \/ planner' = S!NoPlan
    BY <2>3 DEF S!Submit, S!CreateChildren, S!FailToCreate, S!ClaimWhole, S!ReportWhole, S!Retry
  <2> QED BY <2>1, <2>2, <2>3 DEF S!Next, S!Refreshing
<1>3. overlapped => overlapped'
  <2>1. ASSUME NEW h \in FamilyHandlers, \/ S!ReadParent(h) \/ S!ReadChildren(h) \/ S!CancelSibling(h) \/ S!CancelParent(h)
                                         \/ S!WriteParent(h) \/ S!WalkRead(h) \/ S!WalkNext(h) \/ S!Mint(h) \/ S!BreakOff(h)
        PROVE  overlapped => overlapped'
    BY <2>1 DEF S!ReadParent, S!ReadChildren, S!CancelSibling, S!CancelParent, S!WriteParent, S!WalkRead, S!WalkNext, S!Mint, S!BreakOff
  <2>2. ASSUME NEW h \in FamilyHandlers, S!Moved(h) PROVE overlapped => overlapped'
    BY <2>2, MovedGoes
  <2>3. ASSUME S!Submit \/ S!PlanChildren \/ S!CreateChildren \/ S!FailToCreate \/ S!ClaimWhole \/ S!ReportWhole \/ S!Retry
        PROVE  overlapped => overlapped'
    BY <2>3 DEF S!Submit, S!PlanChildren, S!CreateChildren, S!FailToCreate, S!ClaimWhole, S!ReportWhole, S!Retry
  <2> QED BY <2>1, <2>2, <2>3 DEF S!Next, S!Refreshing
<1>4. ~(S!CreateChildren /\ S!Unsplit) => S!Children' = S!Children
  BY KidsKeep
<1>5. CASE ~S!PlanChildren
  <2>1. CASE UNCHANGED <<parent, retried>>
    <3>1. CASE S!CreateChildren /\ S!Unsplit
      BY <3>1, <2>1, CreatedIs, FamilyAssumption DEF S!TypeOK, S!Parents, S!Unsplit
    <3>2. CASE ~(S!CreateChildren /\ S!Unsplit)
      BY <2>1, <3>2, <1>2, <1>3, <1>4, <1>5, ZenonT(40) DEF PlannerOK
    <3> QED BY <3>1, <3>2
  <2>2. CASE S!Submit
    BY <2>2, <1>2, <1>3, <1>4, <1>5, SubmitPlans DEF PlannerOK, S!Submit, S!Unsplit
  <2>3. CASE S!CreateChildren /\ S!Unsplit
    <3>1. parent'.status = "queued" /\ parent'.split # 0 /\ parent'.plan = parent.plan
      BY <2>3, CreatedIs, FamilyAssumption DEF S!TypeOK, S!Parents, S!Unsplit
    <3>2. planner' = S!NoPlan /\ UNCHANGED <<retried, overlapped>>
      BY <2>3 DEF S!CreateChildren
    <3> QED BY <3>1, <3>2 DEF PlannerOK
  <2>4. CASE S!Retry
    <3>1. planner # S!NoPlan => overlapped'
      BY <2>4 DEF S!Retry
    <3>2. parent'.status = "queued" /\ parent'.plan = 0 /\ retried'
      BY <2>4 DEF S!Retry, S!RetriedRow, S!TypeOK, S!Parents
    <3>3. planner' = planner
      BY <2>4 DEF S!Retry
    <3> QED BY <3>1, <3>2, <3>3, <1>3 DEF PlannerOK
  <2>5. CASE UNCHANGED <<kid, retried>> /\ parent'.status \in S!Live \cup S!Terminal /\ parent'.split = parent.split
             /\ parent'.plan = parent.plan
    <3>1. parent'.status # "new"
      BY <2>5 DEF S!Live, S!Terminal
    <3>2. S!Children' = S!Children
      BY <2>5 DEF S!Children
    <3> QED BY <2>5, <3>1, <3>2, <1>2, <1>3, <1>5 DEF PlannerOK
  <2> QED BY <2>1, <2>2, <2>3, <2>4, <2>5, ParentSteps
<1> QED BY <1>1, <1>5

\* What each step makes of the handler that takes it.
LEMMA HandSteps ==
    ASSUME S!TypeOK, PlannerOK, CascadeSome, S!Next
    PROVE  \/ UNCHANGED family
           \/ \E h \in FamilyHandlers :
                 /\ S!Goes(h, family'[h]) /\ family'[h] \in S!HandlerStates
                 /\ family'[h].pc = "idle" => family'[h] = S!Idle
                 /\ family'[h].cascade \subseteq family[h].cascade \cup S!Left
                 /\ family'[h].pc = "cascade" => family'[h].cascade # {}
                 /\ family'[h].pc = "walk" => family'[h].walk # {}
                 /\ family'[h].walk \subseteq family[h].walk \cup S!Left
                 /\ family'[h].running \subseteq family[h].running \cup {i \in S!Left : kid[i].status = "running"}
                 /\ family[h].pc = "idle" => S!Moved(h) \/ S!CancelParent(h)
                 /\ family'[h].pc = "kids" => S!Derivable /\ UNCHANGED parent
                 /\ family'[h].pc = "write" => family[h].pc = "kids" /\ UNCHANGED parent
<1>1. ASSUME S!Submit \/ S!PlanChildren \/ S!CreateChildren \/ S!FailToCreate \/ S!ClaimWhole \/ S!ReportWhole \/ S!Retry
      PROVE  UNCHANGED family
  BY <1>1 DEF S!Submit, S!PlanChildren, S!CreateChildren, S!FailToCreate, S!ClaimWhole, S!ReportWhole, S!Retry
<1> DEFINE G(h) ==
        /\ S!Goes(h, family'[h]) /\ family'[h] \in S!HandlerStates
        /\ family'[h].pc = "idle" => family'[h] = S!Idle
        /\ family'[h].cascade \subseteq family[h].cascade \cup S!Left
        /\ family'[h].pc = "cascade" => family'[h].cascade # {}
        /\ family'[h].pc = "walk" => family'[h].walk # {}
        /\ family'[h].walk \subseteq family[h].walk \cup S!Left
        /\ family'[h].running \subseteq family[h].running \cup {i \in S!Left : kid[i].status = "running"}
        /\ family[h].pc = "idle" => S!Moved(h) \/ S!CancelParent(h)
        /\ family'[h].pc = "kids" => S!Derivable /\ UNCHANGED parent
        /\ family'[h].pc = "write" => family[h].pc = "kids" /\ UNCHANGED parent
<1>2. ASSUME NEW h \in FamilyHandlers, S!Moved(h) PROVE G(h)
  BY <1>2, MovedGoes
<1>3. ASSUME NEW h \in FamilyHandlers, S!CancelParent(h) PROVE G(h)
  BY <1>3, CancelGoes
<1>4. ASSUME NEW h \in FamilyHandlers, S!ReadParent(h) PROVE G(h)
  BY <1>4, ReadParentGoes
<1>5. ASSUME NEW h \in FamilyHandlers, S!ReadChildren(h) PROVE G(h)
  BY <1>5, ReadChildrenGoes
<1>6. ASSUME NEW h \in FamilyHandlers, S!WriteParent(h) PROVE G(h)
  BY <1>6, WriteParentGoes
<1>7. ASSUME NEW h \in FamilyHandlers, S!CancelSibling(h) PROVE G(h)
  <2>1. family[h].cascade # {}
    BY <1>7 DEF CascadeSome, S!CancelSibling
  <2> QED BY <1>7, <2>1, CancelSiblingGoes
<1>8. ASSUME NEW h \in FamilyHandlers, S!WalkRead(h) PROVE G(h)
  BY <1>8, WalkReadGoes
<1>9. ASSUME NEW h \in FamilyHandlers, S!WalkNext(h) PROVE G(h)
  <2>1. family[h].walk # {}
    BY <1>9 DEF CascadeSome, S!WalkNext
  <2> QED BY <1>9, <2>1, WalkNextGoes
<1>10. ASSUME NEW h \in FamilyHandlers, S!Mint(h) \/ S!BreakOff(h) PROVE G(h)
  BY <1>10, EndGoes, IdleIs
<1> HIDE DEF G
<1>11. UNCHANGED family \/ \E h \in FamilyHandlers : G(h)
  BY <1>1, <1>2, <1>3, <1>4, <1>5, <1>6, <1>7, <1>8, <1>9, <1>10 DEF S!Next, S!Refreshing
<1> QED BY <1>11 DEF G

LEMMA IdleStep ==
    ASSUME S!TypeOK, PlannerOK, CascadeSome, IdleOK, S!Next
    PROVE  IdleOK'
<1>1. CASE UNCHANGED family
  BY <1>1 DEF IdleOK
<1>2. ASSUME NEW h \in FamilyHandlers, S!Goes(h, family'[h]), family'[h] \in S!HandlerStates, family'[h].pc = "idle" => family'[h] = S!Idle
      PROVE  IdleOK'
  BY <1>2, HandMoves DEF IdleOK, S!TypeOK
<1> QED BY <1>1, <1>2, HandSteps

LEMMA CascadeStep ==
    ASSUME S!TypeOK, PlannerOK, CascadeSome, S!Next
    PROVE  CascadeSome'
<1>1. S!Children \subseteq S!Children' /\ S!Left \subseteq S!Children
  BY KidsKeep, CreatedChildren DEF S!Left
<1>2. CASE UNCHANGED family
  BY <1>1, <1>2 DEF CascadeSome
<1>3. ASSUME NEW h \in FamilyHandlers, S!Goes(h, family'[h]), family'[h] \in S!HandlerStates,
             family'[h].cascade \subseteq family[h].cascade \cup S!Left,
             family'[h].pc = "cascade" => family'[h].cascade # {},
             family'[h].pc = "walk" => family'[h].walk # {}
      PROVE  CascadeSome'
  <2>1. \A g \in FamilyHandlers : g # h => family'[g] = family[g]
    BY <1>3, HandMoves DEF S!TypeOK
  <2> QED BY <1>1, <1>3, <2>1 DEF CascadeSome
<1> QED BY <1>2, <1>3, HandSteps

LEMMA PaidSteps ==
    ASSUME S!TypeOK, S!Next
    PROVE  UNCHANGED paid \/ \E h \in FamilyHandlers : S!Mint(h)
<1>1. ASSUME NEW h \in FamilyHandlers, \/ S!ReadParent(h) \/ S!ReadChildren(h) \/ S!CancelSibling(h) \/ S!CancelParent(h)
                                       \/ S!WriteParent(h) \/ S!WalkRead(h) \/ S!WalkNext(h) \/ S!BreakOff(h)
      PROVE  UNCHANGED paid
  BY <1>1 DEF S!ReadParent, S!ReadChildren, S!CancelSibling, S!CancelParent, S!WriteParent, S!WalkRead, S!WalkNext, S!BreakOff
<1>2. ASSUME NEW h \in FamilyHandlers, S!Moved(h) PROVE UNCHANGED paid
  BY <1>2, MovedGoes
<1>3. ASSUME S!Submit \/ S!PlanChildren \/ S!CreateChildren \/ S!FailToCreate \/ S!ClaimWhole \/ S!ReportWhole \/ S!Retry
      PROVE  UNCHANGED paid
  BY <1>3 DEF S!Submit, S!PlanChildren, S!CreateChildren, S!FailToCreate, S!ClaimWhole, S!ReportWhole, S!Retry
<1> QED BY <1>1, <1>2, <1>3 DEF S!Next, S!Refreshing

LEMMA RanStep ==
    ASSUME S!TypeOK, PlannerOK, CascadeSome, RanOK, S!Next
    PROVE  RanOK'
<1>1. \A i \in S!Indices : /\ kid'[i].status = "running" => kid'[i].ran
                           /\ kid'[i].ran => kid'[i].status # "none"
                           /\ kid[i].ran => kid'[i].ran
  <2>1. CASE S!CreateChildren /\ S!Unsplit
    <3>1. \A i \in S!Indices : kid[i].ran => i \in S!Children
      BY DEF RanOK, S!Children
    <3> QED BY <2>1, <3>1, CreatedChildren DEF RanOK
  <2>2. CASE UNCHANGED kid
    BY <2>2 DEF RanOK
  <2>3. ASSUME NEW i \in S!Children, i \in S!Indices, kid' = [kid EXCEPT ![i] = kid'[i]],
               kid'[i].status \in S!Live \cup S!Terminal, kid'[i].ran = (kid[i].ran \/ kid'[i].status = "running")
        PROVE  \A j \in S!Indices : /\ kid'[j].status = "running" => kid'[j].ran
                                    /\ kid'[j].ran => kid'[j].status # "none"
                                    /\ kid[j].ran => kid'[j].ran
    <3>1. \A j \in S!Indices : j # i => kid'[j] = kid[j]
      BY <2>3 DEF S!TypeOK
    <3>2. kid'[i].status # "none"
      BY <2>3 DEF S!Live, S!Terminal
    <3> QED BY <2>3, <3>1, <3>2 DEF RanOK
  <2> QED BY <2>1, <2>2, <2>3, KidSteps
<1>2. \A h \in FamilyHandlers : \A i \in family[h].owed \cup family[h].running : i \in S!Indices /\ kid[i].ran
  BY DEF RanOK, S!TypeOK, S!HandlerStates
<1>3. \A i \in S!Indices : kid[i].status = "running" => kid[i].ran
  BY DEF RanOK
<1>4. \A i \in S!Indices : paid'[i] > 0 => kid[i].ran
  <2>1. CASE UNCHANGED paid
    BY <2>1 DEF RanOK
  <2>2. ASSUME NEW h \in FamilyHandlers, S!Mint(h), NEW i \in S!Indices, paid'[i] > 0
        PROVE  kid[i].ran
    <3>1. i \in family[h].owed \/ paid'[i] = paid[i]
      BY <2>2 DEF S!Mint
    <3> QED BY <2>2, <3>1 DEF RanOK
  <2>3. UNCHANGED paid \/ \E h \in FamilyHandlers : S!Mint(h)
    BY PaidSteps
  <2> QED BY <2>1, <2>2, <2>3
<1>5. \A h \in FamilyHandlers : \A i \in family'[h].owed \cup family'[h].running : kid[i].ran
  <2>1. CASE UNCHANGED family
    BY <1>2, <2>1
  <2>2. ASSUME NEW h \in FamilyHandlers, S!Goes(h, family'[h]), family'[h] \in S!HandlerStates,
               \A i \in family'[h].owed \cup family'[h].running : kid[i].ran
        PROVE  \A g \in FamilyHandlers : \A i \in family'[g].owed \cup family'[g].running : kid[i].ran
    BY <1>2, <2>2, HandMoves DEF S!TypeOK
  <2>3. S!Left \subseteq S!Indices
    BY DEF S!Left, S!Children
  <2> DEFINE R(h) == \A i \in family'[h].owed \cup family'[h].running : kid[i].ran
  <2>4. ASSUME NEW h \in FamilyHandlers, S!Moved(h) PROVE R(h) /\ S!Goes(h, family'[h]) /\ family'[h] \in S!HandlerStates
    BY <1>3, <2>4, MovedGoes
  <2>5. ASSUME NEW h \in FamilyHandlers, S!CancelParent(h) PROVE R(h) /\ S!Goes(h, family'[h]) /\ family'[h] \in S!HandlerStates
    BY <2>5, CancelGoes
  <2>6. ASSUME NEW h \in FamilyHandlers, S!ReadParent(h) PROVE R(h) /\ S!Goes(h, family'[h]) /\ family'[h] \in S!HandlerStates
    BY <1>2, <2>6, ReadParentGoes
  <2>7. ASSUME NEW h \in FamilyHandlers, S!ReadChildren(h) PROVE R(h) /\ S!Goes(h, family'[h]) /\ family'[h] \in S!HandlerStates
    BY <1>2, <1>3, <2>3, <2>7, ReadChildrenGoes, SMTT(30)
  <2>8. ASSUME NEW h \in FamilyHandlers, S!WriteParent(h) PROVE R(h) /\ S!Goes(h, family'[h]) /\ family'[h] \in S!HandlerStates
    BY <1>2, <2>8, WriteParentGoes
  <2>9. ASSUME NEW h \in FamilyHandlers, S!CancelSibling(h) PROVE R(h) /\ S!Goes(h, family'[h]) /\ family'[h] \in S!HandlerStates
    <3>1. family[h].cascade # {}
      BY <2>9 DEF CascadeSome, S!CancelSibling
    <3> QED BY <1>2, <2>9, <3>1, CancelSiblingGoes
  <2>10. ASSUME NEW h \in FamilyHandlers, S!WalkRead(h) PROVE R(h) /\ S!Goes(h, family'[h]) /\ family'[h] \in S!HandlerStates
    BY <1>2, <1>3, <2>3, <2>10, WalkReadGoes
  <2>11. ASSUME NEW h \in FamilyHandlers, S!WalkNext(h) PROVE R(h) /\ S!Goes(h, family'[h]) /\ family'[h] \in S!HandlerStates
    <3>1. family[h].walk # {}
      BY <2>11 DEF CascadeSome, S!WalkNext
    <3> QED BY <1>2, <2>11, <3>1, WalkNextGoes
  <2>12. ASSUME NEW h \in FamilyHandlers, S!Mint(h) \/ S!BreakOff(h) PROVE R(h) /\ S!Goes(h, family'[h]) /\ family'[h] \in S!HandlerStates
    BY <2>12, EndGoes, IdleIs
  <2>13. ASSUME S!Submit \/ S!PlanChildren \/ S!CreateChildren \/ S!FailToCreate \/ S!ClaimWhole \/ S!ReportWhole \/ S!Retry
         PROVE  UNCHANGED family
    BY <2>13 DEF S!Submit, S!PlanChildren, S!CreateChildren, S!FailToCreate, S!ClaimWhole, S!ReportWhole, S!Retry
  <2>14. UNCHANGED family \/ \E h \in FamilyHandlers : R(h) /\ S!Goes(h, family'[h]) /\ family'[h] \in S!HandlerStates
    <3> HIDE DEF R
    <3> QED
      BY <2>4, <2>5, <2>6, <2>7, <2>8, <2>9, <2>10, <2>11, <2>12, <2>13 DEF S!Next, S!Refreshing
  <2> QED BY <2>1, <2>2, <2>14
<1> QED BY <1>1, <1>4, <1>5 DEF RanOK

\* The histories are never rewritten; a handler that begins beside another overlaps it.
LEMMA Histories ==
    ASSUME S!TypeOK, S!Next
    PROVE  /\ overlapped => overlapped'
           /\ broken => broken'
           /\ \A h \in FamilyHandlers : S!Moved(h) \/ S!CancelParent(h) => S!Quiet \/ overlapped'
           /\ \A h \in FamilyHandlers : S!BreakOff(h) => broken'
<1>1. ASSUME NEW h \in FamilyHandlers, \/ S!ReadParent(h) \/ S!ReadChildren(h) \/ S!CancelSibling(h)
                                       \/ S!WriteParent(h) \/ S!WalkRead(h) \/ S!WalkNext(h) \/ S!Mint(h)
      PROVE  UNCHANGED <<overlapped, broken>>
  BY <1>1 DEF S!ReadParent, S!ReadChildren, S!CancelSibling, S!WriteParent, S!WalkRead, S!WalkNext, S!Mint
<1>2. ASSUME NEW h \in FamilyHandlers, S!Moved(h) \/ S!CancelParent(h)
      PROVE  overlapped' = (overlapped \/ ~S!Quiet) /\ UNCHANGED broken
  BY <1>2, MovedGoes, CancelGoes
<1>3. ASSUME NEW h \in FamilyHandlers, S!BreakOff(h) PROVE broken' /\ UNCHANGED overlapped
  BY <1>3 DEF S!BreakOff
<1>4. ASSUME S!Submit \/ S!PlanChildren \/ S!CreateChildren \/ S!FailToCreate \/ S!ClaimWhole \/ S!ReportWhole
      PROVE  UNCHANGED <<overlapped, broken>>
  BY <1>4 DEF S!Submit, S!PlanChildren, S!CreateChildren, S!FailToCreate, S!ClaimWhole, S!ReportWhole
<1>5. S!Retry => (overlapped => overlapped') /\ UNCHANGED broken
  BY DEF S!Retry
<1>6. (overlapped => overlapped') /\ (broken => broken')
  <2> DEFINE K == (overlapped => overlapped') /\ (broken => broken')
  <2>1. (UNCHANGED <<overlapped, broken>>) => K
    OBVIOUS
  <2>2. ASSUME NEW h \in FamilyHandlers, S!Moved(h) \/ S!CancelParent(h) \/ S!BreakOff(h) PROVE K
    BY <1>2, <1>3, <2>2
  <2>3. S!Retry => K
    BY <1>5
  <2> HIDE DEF K
  <2>4. K
    BY <1>1, <1>4, <2>1, <2>2, <2>3 DEF S!Next, S!Refreshing
  <2> QED BY <2>4 DEF K
<1>7. \A h \in FamilyHandlers : S!Moved(h) \/ S!CancelParent(h) => S!Quiet \/ overlapped'
  BY <1>2
<1> QED BY <1>3, <1>6, <1>7

\* While handlers do not overlap, one at work has the others idle.
LEMMA FamilyOthersIdle ==
    ASSUME S!TypeOK, IdleOK, OnePays, ~overlapped, NEW h \in FamilyHandlers, family[h].pc # "idle"
    PROVE  \A g \in FamilyHandlers : g # h => family[g] = S!Idle
BY DEF OnePays, Working, IdleOK

LEMMA OnePaysStep ==
    ASSUME S!TypeOK, HeldOK, PlannerOK, CascadeSome, IdleOK, RanOK, OnePays, S!Next
    PROVE  OnePays'
<1> SUFFICES ASSUME ~overlapped' PROVE
        /\ \A g, h \in Working' : g = h
        /\ \A i \in S!Indices : paid'[i] < 2 /\ (paid'[i] > 0 => kid'[i].status \in S!Terminal)
        /\ \A h \in FamilyHandlers, i \in S!Indices :
              /\ i \in family'[h].owed => paid'[i] = 0 /\ kid'[i].status \in S!Terminal
              /\ i \in family'[h].cascade \cup family'[h].walk => paid'[i] = 0
  BY DEF OnePays
<1>1. ~overlapped
  BY Histories
<1>2. ASSUME NEW h \in FamilyHandlers, S!Goes(h, family'[h]), family'[h] \in S!HandlerStates,
             family[h].pc # "idle" \/ S!Quiet
      PROVE  \A g \in FamilyHandlers : g # h => family'[g] = S!Idle /\ family[g] = S!Idle
  BY <1>1, <1>2, HandMoves, FamilyOthersIdle DEF S!TypeOK, S!Quiet, IdleOK
<1>3. \A i \in S!Indices : paid[i] \in 0 .. 2 /\ (kid[i].status \in S!Live => paid[i] = 0)
  BY <1>1 DEF OnePays, S!TypeOK, S!Live, S!Terminal
<1>4. \A i \in S!Indices : kid[i].status \in S!Terminal => kid'[i].status \in S!Terminal
  <2>1. CASE S!CreateChildren /\ S!Unsplit
    <3>1. \A i \in S!Indices : kid[i].status \in S!Terminal => i \in S!Children
      BY DEF S!Children, S!Terminal
    <3> QED BY <2>1, <3>1, CreatedChildren
  <2>2. ASSUME NEW i \in S!Children, i \in S!Indices, kid' = [kid EXCEPT ![i] = kid'[i]],
               kid[i].status \in S!Live \/ kid'[i].status = "cancelled"
        PROVE  \A j \in S!Indices : kid[j].status \in S!Terminal => kid'[j].status \in S!Terminal
    BY <2>2 DEF S!TypeOK, S!Live, S!Terminal
  <2> QED BY <2>1, <2>2, KidSteps
<1>5. /\ \A i \in S!Indices : paid[i] < 2 /\ (paid[i] > 0 => kid[i].status \in S!Terminal)
      /\ \A h \in FamilyHandlers, i \in S!Indices :
            /\ i \in family[h].owed => paid[i] = 0 /\ kid[i].status \in S!Terminal
            /\ i \in family[h].cascade \cup family[h].walk => paid[i] = 0
      /\ \A g, h \in Working : g = h
  BY <1>1 DEF OnePays
<1>6. CASE UNCHANGED family
  <2>1. UNCHANGED paid
    <3> SUFFICES ASSUME NEW h \in FamilyHandlers, S!Mint(h) PROVE FALSE
      BY PaidSteps
    <3>1. family'[h] = family[h] /\ family[h].pc = "mint" /\ family'[h] = S!Idle
      BY <1>6, EndGoes DEF S!Mint
    <3> QED BY <3>1, IdleIs
  <2>2. Working' = Working
    BY <1>6 DEF Working
  <2> QED BY <1>4, <1>5, <1>6, <2>1, <2>2
<1>7. ASSUME NEW h \in FamilyHandlers, S!Goes(h, family'[h]), family'[h] \in S!HandlerStates,
             family[h].pc # "idle" \/ S!Quiet, UNCHANGED paid,
             \A i \in S!Indices : /\ i \in family'[h].owed => paid[i] = 0 /\ kid'[i].status \in S!Terminal
                                  /\ i \in family'[h].cascade \cup family'[h].walk => paid[i] = 0
      PROVE  /\ \A g, f \in Working' : g = f
             /\ \A i \in S!Indices : paid'[i] < 2 /\ (paid'[i] > 0 => kid'[i].status \in S!Terminal)
             /\ \A g \in FamilyHandlers, i \in S!Indices :
                   /\ i \in family'[g].owed => paid'[i] = 0 /\ kid'[i].status \in S!Terminal
                   /\ i \in family'[g].cascade \cup family'[g].walk => paid'[i] = 0
  <2>1. \A g \in FamilyHandlers : g # h => family'[g] = S!Idle
    BY <1>2, <1>7
  <2>2. \A g \in Working' : g = h
    BY <2>1, IdleIs DEF Working
  <2>3. \A g \in FamilyHandlers, i \in S!Indices :
                 /\ i \in family'[g].owed => paid'[i] = 0 /\ kid'[i].status \in S!Terminal
                 /\ i \in family'[g].cascade \cup family'[g].walk => paid'[i] = 0
    <3> TAKE g \in FamilyHandlers, i \in S!Indices
    <3>1. CASE g = h
      BY <1>7, <3>1
    <3>2. CASE g # h
      <4>1. family'[g].owed = {} /\ family'[g].cascade = {} /\ family'[g].walk = {}
        BY <2>1, <3>2, IdleIs
      <4> QED BY <4>1
    <3> QED BY <3>1, <3>2
  <2> QED BY <1>4, <1>5, <1>7, <2>2, <2>3
<1> DEFINE R(h) ==
        /\ S!Goes(h, family'[h]) /\ family'[h] \in S!HandlerStates
        /\ family[h].pc # "idle" \/ S!Quiet
        /\ UNCHANGED paid
        /\ \A i \in S!Indices : /\ i \in family'[h].owed => paid[i] = 0 /\ kid'[i].status \in S!Terminal
                                /\ i \in family'[h].cascade \cup family'[h].walk => paid[i] = 0
<1>8. S!Left \subseteq S!Indices /\ \A i \in S!Left : paid[i] = 0
  BY <1>3 DEF S!Left, S!Children
<1>9. ASSUME NEW h \in FamilyHandlers, S!Moved(h) PROVE R(h)
  <2>1. S!Quiet /\ UNCHANGED paid
    BY <1>9, Histories, MovedGoes
  <2>2. S!Goes(h, family'[h]) /\ family'[h] \in S!HandlerStates /\ family'[h].cascade = {} /\ family'[h].walk = {}
    BY <1>9, MovedGoes
  <2>3. \A i \in S!Indices : i \in family'[h].owed => kid[i].status = "running" /\ kid'[i].status = "cancelled"
    BY <1>9, MovedGoes
  <2>4. \A i \in S!Indices : i \in family'[h].owed => paid[i] = 0 /\ kid'[i].status \in S!Terminal
    BY <1>3, <2>3 DEF S!Live, S!Terminal
  <2> QED BY <2>1, <2>2, <2>4
<1>10. ASSUME NEW h \in FamilyHandlers, S!CancelParent(h) PROVE R(h)
  <2>1. S!Quiet
    BY <1>10, Histories
  <2> QED BY <1>10, <2>1, CancelGoes
<1>11. ASSUME NEW h \in FamilyHandlers, S!ReadParent(h) PROVE R(h)
  BY <1>4, <1>5, <1>11, ReadParentGoes
<1>12. ASSUME NEW h \in FamilyHandlers, S!ReadChildren(h) PROVE R(h)
  BY <1>4, <1>5, <1>8, <1>12, ReadChildrenGoes
<1>13. ASSUME NEW h \in FamilyHandlers, S!WriteParent(h) PROVE R(h)
  BY <1>4, <1>5, <1>13, WriteParentGoes
<1>14. ASSUME NEW i \in S!Indices, kid' = [kid EXCEPT ![i].status = "cancelled"] PROVE kid'[i].status \in S!Terminal
  BY <1>14, KidTyped DEF S!Terminal
<1>15. ASSUME NEW h \in FamilyHandlers, S!CancelSibling(h) PROVE R(h)
  <2>1. family[h].cascade # {}
    BY <1>15 DEF CascadeSome, S!CancelSibling
  <2>2. PICK i \in family[h].cascade :
            /\ i \in S!Indices /\ kid' = [kid EXCEPT ![i].status = "cancelled"]
            /\ family'[h].owed \subseteq family[h].owed \cup ({i} \cap family[h].running)
            /\ family'[h].cascade = family[h].cascade \ {i} /\ family'[h].walk = family[h].walk
            /\ S!Goes(h, family'[h]) /\ family'[h] \in S!HandlerStates /\ family[h].pc = "cascade" /\ UNCHANGED paid
    BY <1>15, <2>1, CancelSiblingGoes
  <2> QED BY <1>4, <1>5, <1>14, <2>2
<1>16. ASSUME NEW h \in FamilyHandlers, S!WalkRead(h) PROVE R(h)
  BY <1>4, <1>5, <1>8, <1>16, WalkReadGoes
<1>17. ASSUME NEW h \in FamilyHandlers, S!WalkNext(h) PROVE R(h)
  <2>1. family[h].walk # {}
    BY <1>17 DEF CascadeSome, S!WalkNext
  <2>2. PICK i \in family[h].walk :
            /\ i \in S!Indices
            /\ \/ /\ kid' = [kid EXCEPT ![i].status = "cancelled"]
                  /\ family'[h].owed \subseteq family[h].owed \cup ({i} \cap family[h].running)
               \/ family'[h].owed = family[h].owed
            /\ family'[h].walk = family[h].walk \ {i} /\ family'[h].cascade \subseteq family[h].cascade
            /\ S!Goes(h, family'[h]) /\ family'[h] \in S!HandlerStates /\ family[h].pc = "walk" /\ UNCHANGED paid
    BY <1>17, <2>1, WalkNextGoes
  <2> QED BY <1>4, <1>5, <1>14, <2>2
<1>18. ASSUME NEW h \in FamilyHandlers, S!BreakOff(h) PROVE R(h)
  BY <1>18, EndGoes, IdleIs DEF S!BreakOff
<1>19. ASSUME NEW h \in FamilyHandlers, S!Mint(h)
       PROVE  /\ \A g, f \in Working' : g = f
              /\ \A i \in S!Indices : paid'[i] < 2 /\ (paid'[i] > 0 => kid'[i].status \in S!Terminal)
              /\ \A g \in FamilyHandlers, i \in S!Indices :
                    /\ i \in family'[g].owed => paid'[i] = 0 /\ kid'[i].status \in S!Terminal
                    /\ i \in family'[g].cascade \cup family'[g].walk => paid'[i] = 0
  <2>1. family[h].pc # "idle" /\ family'[h] = S!Idle /\ S!Goes(h, S!Idle) /\ UNCHANGED kid
    BY <1>19, EndGoes
  <2>2. \A g \in FamilyHandlers : family'[g] = S!Idle
    BY <1>2, <2>1, IdleIs
  <2>3. \A i \in S!Indices : paid'[i] = IF i \in family[h].owed THEN S!Min({2, paid[i] + 1}) ELSE paid[i]
    BY <1>19 DEF S!Mint
  <2>4. S!Min({2, 1}) = 1
    BY DEF S!Min
  <2>5. \A i \in S!Indices : i \in family[h].owed => paid'[i] = 1 /\ kid'[i].status \in S!Terminal
    BY <1>5, <2>1, <2>3, <2>4
  <2>6. \A i \in S!Indices : paid'[i] < 2 /\ (paid'[i] > 0 => kid'[i].status \in S!Terminal)
    <3>1. \A i \in S!Indices : i \notin family[h].owed => paid'[i] = paid[i] /\ kid'[i] = kid[i]
      BY <2>1, <2>3
    <3>2. 1 < 2
      OBVIOUS
    <3> HIDE DEF S!Terminal
    <3> QED BY <1>5, <2>5, <3>1, <3>2
  <2> QED BY <2>2, <2>6, IdleIs DEF Working
<1>20. CASE \E h \in FamilyHandlers : S!Mint(h)
  BY <1>19, <1>20
<1>21. CASE \E h \in FamilyHandlers : R(h)
  BY <1>7, <1>21
<1>22. ASSUME S!Submit \/ S!PlanChildren \/ S!CreateChildren \/ S!FailToCreate \/ S!ClaimWhole \/ S!ReportWhole \/ S!Retry
       PROVE  UNCHANGED family
  BY <1>22 DEF S!Submit, S!PlanChildren, S!CreateChildren, S!FailToCreate, S!ClaimWhole, S!ReportWhole, S!Retry
<1> HIDE DEF R
<1>23. CASE ~(\E h \in FamilyHandlers : S!Mint(h) \/ R(h))
  BY <1>6, <1>9, <1>10, <1>11, <1>12, <1>13, <1>15, <1>16, <1>17, <1>18, <1>22, <1>23 DEF S!Next, S!Refreshing
<1> QED BY <1>20, <1>21, <1>23

LEMMA FamilyWritesStep ==
    ASSUME S!TypeOK, HeldOK, PlannerOK, CascadeSome, IdleOK, OnePays, WritesLive, S!Next
    PROVE  WritesLive'
<1> SUFFICES ASSUME ~overlapped', NEW g \in FamilyHandlers, family'[g].pc \in {"kids", "write"}
             PROVE  parent'.split > 0 /\ ~Ended'
  BY DEF WritesLive
<1>1. ~overlapped /\ parent \in S!Parents
  BY Histories DEF S!TypeOK
<1>2. \A h \in FamilyHandlers : family[h].pc \in {"kids", "write"} => parent.split > 0 /\ ~Ended
  BY <1>1 DEF WritesLive
<1>3. ASSUME UNCHANGED family
      PROVE  parent'.split > 0 /\ ~Ended'
  <2>1. parent.split > 0 /\ ~Ended
    BY <1>2, <1>3
  <2>2. parent.split # 0 /\ parent.status # "new" /\ parent.status # "failed"
    BY <1>1, <2>1 DEF S!Parents, PlannerOK, Ended, S!Terminal
  <2>3. ~(\E h \in FamilyHandlers : S!CancelParent(h) \/ S!WriteParent(h))
    <3> SUFFICES ASSUME NEW h \in FamilyHandlers, S!CancelParent(h) \/ S!WriteParent(h) PROVE FALSE
      OBVIOUS
    <3>1. CASE S!CancelParent(h)
      BY <1>3, <3>1, CancelGoes
    <3>2. CASE S!WriteParent(h)
      BY <1>3, <3>2, WriteParentGoes
    <3> QED BY <3>1, <3>2
  <2>4. UNCHANGED parent
    BY <2>2, <2>3, ParentSteps DEF S!Unsplit
  <2> QED BY <2>1, <2>4 DEF Ended
<1>4. ASSUME NEW h \in FamilyHandlers, S!Goes(h, family'[h]), family'[h] \in S!HandlerStates,
             family'[h].pc = "kids" => S!Derivable /\ UNCHANGED parent,
             family'[h].pc = "write" => family[h].pc = "kids" /\ UNCHANGED parent,
             family[h].pc = "idle" => S!Moved(h) \/ S!CancelParent(h)
      PROVE  parent'.split > 0 /\ ~Ended'
  <2>1. g = h
    <3> SUFFICES ASSUME g # h PROVE FALSE
      OBVIOUS
    <3>1. family'[g] = family[g] /\ family[g].pc # "idle"
      BY <1>4, HandMoves DEF S!TypeOK
    <3>2. family[h] = S!Idle
      BY <1>1, <3>1, FamilyOthersIdle
    <3>3. S!Quiet
      BY <1>4, <3>2, IdleIs, Histories
    <3> QED BY <3>1, <3>3 DEF S!Quiet
  <2>2. CASE family'[h].pc = "kids"
    BY <1>4, <2>2 DEF S!Derivable, Ended
  <2>3. CASE family'[h].pc = "write"
    BY <1>2, <1>4, <2>3 DEF Ended
  <2> QED BY <2>1, <2>2, <2>3
<1> QED BY <1>3, <1>4, HandSteps

----------------------------------------------------------------------------
(* The family on its way to agreeing *)

LEMMA LeftStays ==
    ASSUME UNCHANGED kid
    PROVE  S!Left' = S!Left /\ S!Derived' = S!Derived /\ S!Children' = S!Children
<1>1. S!Children' = S!Children
  BY DEF S!Children
<1> QED BY <1>1 DEF S!Left, S!Derived

\* A child that is cancelled is one less of those left.
LEMMA LeftShrinks ==
    ASSUME S!TypeOK, NEW i \in S!Indices, i \in S!Children, kid' = [kid EXCEPT ![i].status = "cancelled"]
    PROVE  S!Left' = S!Left \ {i}
<1>1. kid'[i].status = "cancelled" /\ \A j \in S!Indices : j # i => kid'[j] = kid[j]
  BY KidTyped DEF S!Terminal
<1>2. "cancelled" \notin S!Live
  BY DEF S!Live
<1> QED BY <1>1, <1>2 DEF S!Left, S!Children

\* Done children only: none is left.
LEMMA AllDone ==
    ASSUME S!Derived = "done"
    PROVE  S!Left = {}
<1>1. {kid[i].status : i \in S!Children} = {"done"}
  BY DEF S!Derived
<1> QED BY <1>1 DEF S!Left, S!Live

LEMMA StepByStepStep ==
    ASSUME FamilyInv, S!Next
    PROVE  StepByStep'
<1> SUFFICES ASSUME ~overlapped', ~broken' PROVE
        /\ parent'.split = 0 => S!Left' = {}
        /\ S!Quiet' => Agrees'
        /\ \A h \in FamilyHandlers : OnTheWay(family[h])'
  BY DEF StepByStep
<1>0. S!TypeOK /\ HeldOK /\ PlannerOK /\ CascadeSome /\ IdleOK /\ OnePays /\ WritesLive /\ StepByStep
  BY DEF FamilyInv
<1>1. ~overlapped /\ ~broken /\ parent \in S!Parents /\ IdleOK'
  BY <1>0, Histories, IdleStep DEF S!TypeOK
<1>2. /\ parent.split = 0 => S!Left = {}
      /\ S!Quiet => Agrees
      /\ \A h \in FamilyHandlers : OnTheWay(family[h])
  BY <1>0, <1>1 DEF StepByStep
<1>3. ASSUME UNCHANGED family, S!Quiet, Agrees', parent'.split = 0 => S!Left' = {}
      PROVE  /\ parent'.split = 0 => S!Left' = {}
             /\ S!Quiet' => Agrees'
             /\ \A h \in FamilyHandlers : OnTheWay(family[h])'
  BY <1>3 DEF S!Quiet, OnTheWay
<1>4. ASSUME parent.split = 0, ~Ended PROVE S!Quiet
  <2>1. ~(parent.split > 0)
    BY <1>4
  <2> QED BY <1>2, <1>4, <2>1 DEF S!Quiet, OnTheWay
<1>5. CASE S!Submit
  <2>1. S!Quiet /\ S!Left = {} /\ UNCHANGED <<kid, family>> /\ parent'.split = 0 /\ ~Ended'
    BY <1>0, <1>2, <1>4, <1>5, SubmitPlans DEF S!Submit, PlannerOK, Ended, S!Terminal
  <2> QED BY <1>3, <2>1, LeftStays, SMTT(30) DEF Agrees
<1>6. CASE UNCHANGED <<parent, kid, family>>
  BY <1>2, <1>6, LeftStays DEF S!Quiet, Agrees, OnTheWay, Ended
<1>7. CASE S!PlanChildren \/ S!FailToCreate
  BY <1>6, <1>7 DEF S!PlanChildren, S!FailToCreate
<1>8. CASE S!CreateChildren
  <2>1. CASE S!Unsplit
    <3>1. parent.split = 0 /\ ~Ended /\ planner # S!NoPlan /\ UNCHANGED family
      BY <1>8, <2>1 DEF S!CreateChildren, S!Unsplit, Ended, S!Terminal
    <3>2. S!Quiet
      BY <1>4, <3>1
    <3>3. S!Children = {}
      BY <1>0, <1>1, <3>1 DEF PlannerOK
    <3>4. \A i \in S!Children' : kid'[i].status = "queued"
      <4>1. \A i \in S!Indices : i < planner.k => kid'[i].status = "queued"
        BY <1>0, <1>8, <2>1, <3>3, CreatedIs
      <4>2. \A i \in S!Indices : ~(i < planner.k) => kid'[i] = kid[i] /\ kid[i].status = "none"
        BY <1>0, <1>8, <2>1, <3>3, CreatedIs DEF S!Children
      <4> QED BY <4>1, <4>2 DEF S!Children
    <3>5. S!Derived' = "queued"
      <4>1. {kid'[i].status : i \in S!Children'} \subseteq {"queued"}
        BY <3>4
      <4> QED BY <4>1 DEF S!Derived
    <3>6. parent'.status = "queued" /\ parent'.split # 0 /\ ~Ended'
      <4>1. parent' = [parent EXCEPT !.split = planner.k] /\ planner.k \in 2 .. MaxSplit /\ parent.status = "queued"
        BY <1>0, <1>8, <2>1, CreatedIs DEF S!Unsplit
      <4>2. planner.k # 0
        BY <4>1, FamilyAssumption
      <4> QED BY <1>1, <4>1, <4>2 DEF S!Parents, Ended, S!Terminal
    <3> QED BY <1>3, <3>1, <3>2, <3>5, <3>6 DEF Agrees
  <2>2. CASE ~S!Unsplit
    BY <1>6, <1>8, <2>2 DEF S!CreateChildren
  <2> QED BY <2>1, <2>2
<1>9. CASE S!ClaimWhole \/ S!ReportWhole
  <2>1. parent.split = 0 /\ ~Ended /\ UNCHANGED <<kid, family>> /\ parent'.split = 0
    <3>1. CASE S!ClaimWhole
      BY <1>1, <3>1 DEF S!ClaimWhole, Ended, S!Terminal, S!Parents
    <3>2. CASE S!ReportWhole
      <4>1. PICK became \in {"running", "done", "failed", "queued"} :
                parent' = [parent EXCEPT !.status = became, !.held = became = "running"]
        BY <3>2 DEF S!ReportWhole
      <4>2. parent'.split = parent.split
        BY <1>1, <4>1 DEF S!Parents
      <4>3. parent.split = 0 /\ parent.status \in {"assigned", "running"} /\ UNCHANGED <<kid, family>>
        BY <1>0, <3>2 DEF S!ReportWhole, HeldOK
      <4> QED BY <4>2, <4>3 DEF Ended, S!Terminal
    <3> QED BY <1>9, <3>1, <3>2
  <2> QED BY <1>2, <1>3, <1>4, <2>1, LeftStays DEF Agrees
<1>10. CASE S!Retry
  <2>1. S!Quiet /\ Ended /\ UNCHANGED <<kid, family>>
    BY <1>1, <1>10 DEF S!Retry, Ended, S!Terminal
  <2>2. S!Left = {} /\ parent'.split = 0
    BY <1>1, <1>2, <1>10, <2>1 DEF Agrees, S!Retry, S!RetriedRow, S!Parents
  <2> QED BY <1>3, <2>1, <2>2, LeftStays DEF Agrees
<1>11. ASSUME NEW h \in FamilyHandlers, S!Goes(h, family'[h]), family'[h] \in S!HandlerStates, family[h].pc # "idle" \/ S!Quiet,
              OnTheWay(family[h])', family'[h].pc = "idle" => Agrees', parent'.split = 0 => S!Left' = {}
       PROVE  /\ parent'.split = 0 => S!Left' = {}
              /\ S!Quiet' => Agrees'
              /\ \A g \in FamilyHandlers : OnTheWay(family[g])'
  <2>1. \A g \in FamilyHandlers : g # h => family'[g] = S!Idle
    BY <1>0, <1>1, <1>11, HandMoves, FamilyOthersIdle DEF S!TypeOK, S!Quiet, IdleOK
  <2>2. \A g \in FamilyHandlers : g # h => OnTheWay(family[g])'
    BY <2>1, IdleIs DEF OnTheWay
  <2>3. S!Quiet' => Agrees'
    BY <1>11 DEF S!Quiet
  <2> QED BY <1>11, <2>2, <2>3
<1> DEFINE R(h) == /\ S!Goes(h, family'[h]) /\ family'[h] \in S!HandlerStates
                   /\ family[h].pc # "idle" \/ S!Quiet
                   /\ OnTheWay(family[h])'
                   /\ family'[h].pc = "idle" => Agrees'
                   /\ parent'.split = 0 => S!Left' = {}
<1>12. ASSUME NEW h \in FamilyHandlers, S!Moved(h) PROVE R(h)
  <2>1. S!Quiet /\ UNCHANGED parent /\ S!Goes(h, family'[h]) /\ family'[h] \in S!HandlerStates
        /\ family'[h].pc = "parent" /\ family'[h].walk = {}
    BY <1>0, <1>12, MovedGoes, Histories
  <2>2. S!Left # {}
    <3>1. PICK i \in S!Indices : kid[i].status \in S!Live
      BY <1>0, <1>12, MovedGoes
    <3> QED BY <3>1 DEF S!Left, S!Children, S!Live
  <2>3. parent.split # 0 /\ ~Ended
    BY <1>2, <2>1, <2>2 DEF Agrees
  <2>4. parent'.split > 0 /\ ~Ended'
    BY <1>1, <2>1, <2>3 DEF Ended, S!Parents
  <2> QED BY <2>1, <2>4 DEF OnTheWay
<1>13. ASSUME NEW h \in FamilyHandlers, S!CancelParent(h) PROVE R(h)
  <2>1. S!Quiet /\ UNCHANGED kid /\ S!Goes(h, family'[h]) /\ family'[h] \in S!HandlerStates
        /\ family'[h].pc = "walk read"
    BY <1>0, <1>13, CancelGoes, Histories
  <2>2. parent'.status = "cancelled" /\ parent'.split = parent.split
    BY <1>1, <1>13 DEF S!CancelParent, S!Parents
  <2>3. Ended'
    BY <2>2 DEF Ended, S!Terminal
  <2> QED BY <1>2, <2>1, <2>2, <2>3, LeftStays DEF OnTheWay
<1>14. ASSUME NEW h \in FamilyHandlers, S!ReadParent(h) PROVE R(h)
  <2>1. /\ family[h].pc = "parent" /\ UNCHANGED <<parent, kid>>
        /\ family'[h] \in S!HandlerStates /\ family'[h].walk = family[h].walk
        /\ S!Derivable => family'[h].pc = "kids" /\ family'[h].status = parent.status
        /\ ~S!Derivable => family'[h].pc = IF family[h].walk # {} THEN "walk" ELSE "mint"
        /\ S!Goes(h, family'[h])
    BY <1>0, <1>14, ReadParentGoes
  <2>2. OnTheWay(family[h])
    BY <1>2
  <2>3. CASE S!Derivable
    BY <1>2, <2>1, <2>2, <2>3, LeftStays DEF OnTheWay, S!Derivable, Ended
  <2>4. CASE ~S!Derivable
    <3>1. Ended /\ S!Left \subseteq family[h].walk
      BY <2>1, <2>2, <2>4 DEF OnTheWay, S!Derivable, Ended
    <3> QED BY <1>2, <2>1, <2>4, <3>1, LeftStays DEF OnTheWay, Agrees, Ended
  <2> QED BY <2>3, <2>4
<1>15. ASSUME NEW h \in FamilyHandlers, S!ReadChildren(h) PROVE R(h)
  <2>1. /\ family[h].pc = "kids" /\ UNCHANGED <<parent, kid>>
        /\ family'[h] \in S!HandlerStates /\ family'[h].walk = family[h].walk
        /\ \/ /\ family'[h].pc = "write" /\ family'[h].status = S!Derived
              /\ family'[h].cascade = IF S!Derived \in {"failed", "cancelled"} THEN S!Left ELSE {}
           \/ /\ S!Derived = family[h].status
              /\ family'[h].pc = IF family[h].walk # {} THEN "walk" ELSE "mint"
        /\ S!Goes(h, family'[h])
    BY <1>0, <1>15, ReadChildrenGoes
  <2>2. parent.split > 0 /\ ~Ended
    BY <1>0, <1>1, <2>1 DEF WritesLive
  <2>3. family[h].walk = {} /\ family[h].status = parent.status
    BY <1>2, <2>1, <2>2 DEF OnTheWay
  <2> QED BY <1>2, <2>1, <2>2, <2>3, LeftStays DEF OnTheWay, Agrees, Ended
<1>16. ASSUME NEW h \in FamilyHandlers, S!WriteParent(h) PROVE R(h)
  <2>1. /\ family[h].pc = "write" /\ UNCHANGED kid
        /\ family'[h] \in S!HandlerStates /\ family'[h].walk = family[h].walk
        /\ family'[h].cascade = family[h].cascade
        /\ family'[h].pc = IF family[h].cascade # {} THEN "cascade" ELSE IF family[h].walk # {} THEN "walk" ELSE "mint"
        /\ S!Goes(h, family'[h])
    BY <1>0, <1>16, WriteParentGoes
  <2>2. parent.split > 0 /\ ~Ended
    BY <1>0, <1>1, <2>1 DEF WritesLive
  <2>3. family[h].walk = {} /\ family[h].status = S!Derived
        /\ family[h].cascade = IF S!Derived \in {"failed", "cancelled"} THEN S!Left ELSE {}
    BY <1>2, <2>1, <2>2 DEF OnTheWay
  <2>4. parent'.status = S!Derived /\ parent'.split = parent.split
    BY <1>1, <1>16, <2>3 DEF S!WriteParent, S!Parents
  <2>5. S!Left' = S!Left /\ S!Derived' = S!Derived
    BY <2>1, LeftStays
  <2>6. CASE family[h].cascade # {}
    <3>1. Ended' /\ S!Left' \subseteq family'[h].cascade /\ family'[h].pc = "cascade" /\ family'[h].walk = {}
      BY <2>1, <2>3, <2>4, <2>5, <2>6 DEF Ended, S!Terminal
    <3> QED BY <1>2, <2>1, <2>4, <2>5, <3>1 DEF OnTheWay
  <2>7. CASE family[h].cascade = {}
    <3>1. family'[h].pc = "mint"
      BY <2>1, <2>3, <2>7
    <3>2. Ended' => S!Left' = {}
      BY <2>3, <2>4, <2>5, <2>7, AllDone DEF Ended, S!Terminal
    <3>3. Agrees'
      BY <2>4, <2>5, <3>2 DEF Agrees
    <3>4. parent'.split > 0
      BY <2>2, <2>4
    <3> QED BY <1>2, <2>1, <2>4, <2>5, <3>1, <3>3, <3>4 DEF OnTheWay
  <2> QED BY <2>6, <2>7
<1>17. ASSUME NEW h \in FamilyHandlers, S!CancelSibling(h) PROVE R(h)
  <2>1. family[h].cascade # {} /\ family[h].pc = "cascade"
    BY <1>0, <1>17 DEF CascadeSome, S!CancelSibling
  <2>2. PICK i \in family[h].cascade :
            /\ i \in S!Indices /\ kid' = [kid EXCEPT ![i].status = "cancelled"] /\ UNCHANGED parent
            /\ family'[h].cascade = family[h].cascade \ {i} /\ family'[h].walk = family[h].walk
            /\ family'[h].pc = IF family'[h].cascade # {} THEN "cascade"
                             ELSE IF family[h].walk # {} THEN "walk" ELSE "mint"
            /\ S!Goes(h, family'[h]) /\ family'[h] \in S!HandlerStates
    BY <1>0, <1>17, <2>1, CancelSiblingGoes
  <2>3. S!Left' = S!Left \ {i}
    BY <1>0, <2>2, LeftShrinks DEF CascadeSome
  <2>4. Ended /\ family[h].walk = {} /\ S!Left \subseteq family[h].cascade
    BY <1>2, <2>1 DEF OnTheWay
  <2>5. S!Left' \subseteq family'[h].cascade /\ Ended' /\ family'[h].walk = {}
    BY <2>2, <2>3, <2>4 DEF Ended
  <2>6. parent'.split = 0 => S!Left' = {}
    BY <1>2, <2>2, <2>3
  <2> QED BY <2>1, <2>2, <2>5, <2>6 DEF OnTheWay, Agrees
<1>18. ASSUME NEW h \in FamilyHandlers, S!WalkRead(h) PROVE R(h)
  <2>1. /\ family[h].pc = "walk read" /\ UNCHANGED <<parent, kid>>
        /\ family'[h] \in S!HandlerStates /\ family'[h].walk = S!Left
        /\ family'[h].pc = IF S!Left # {} THEN "walk" ELSE "mint"
        /\ S!Goes(h, family'[h])
    BY <1>0, <1>18, WalkReadGoes
  <2>2. Ended
    BY <1>2, <2>1 DEF OnTheWay
  <2> QED BY <1>2, <2>1, <2>2, LeftStays DEF OnTheWay, Agrees, Ended
<1>19. ASSUME NEW h \in FamilyHandlers, S!WalkNext(h) PROVE R(h)
  <2>1. family[h].walk # {} /\ family[h].pc = "walk"
    BY <1>0, <1>19 DEF CascadeSome, S!WalkNext
  <2>2. PICK i \in family[h].walk :
             /\ i \in S!Indices /\ UNCHANGED parent
             /\ family'[h] \in S!HandlerStates /\ family'[h].walk = family[h].walk \ {i}
             /\ \/ /\ kid[i].status \in S!Live /\ kid' = [kid EXCEPT ![i].status = "cancelled"]
                   /\ family'[h].pc = "parent"
                \/ /\ kid[i].status \notin S!Live /\ UNCHANGED kid
                   /\ family'[h].pc = IF family'[h].walk # {} THEN "walk" ELSE "mint"
             /\ S!Goes(h, family'[h])
    BY <1>0, <1>19, <2>1, WalkNextGoes
  <2>3. S!Left' = S!Left \ {i}
    <3>1. CASE kid[i].status \in S!Live
      <4>1. i \in S!Children
        BY <2>2, <3>1 DEF S!Children, S!Live
      <4> QED BY <1>0, <2>2, <3>1, <4>1, LeftShrinks
    <3>2. CASE kid[i].status \notin S!Live
      BY <2>2, <3>2, LeftStays DEF S!Left
    <3> QED BY <3>1, <3>2
  <2>4. Ended /\ S!Left \subseteq family[h].walk
    BY <1>2, <2>1 DEF OnTheWay
  <2>5. S!Left' \subseteq family'[h].walk /\ Ended'
    BY <2>2, <2>3, <2>4 DEF Ended
  <2>6. parent'.split = 0 => S!Left' = {}
    BY <1>2, <2>2, <2>3
  <2> QED BY <2>1, <2>2, <2>5, <2>6 DEF OnTheWay, Agrees
<1>20. ASSUME NEW h \in FamilyHandlers, S!Mint(h) PROVE R(h)
  <2>1. family[h].pc = "mint" /\ family'[h] = S!Idle /\ S!Goes(h, S!Idle) /\ UNCHANGED <<parent, kid>>
    BY <1>0, <1>20, EndGoes DEF S!Mint
  <2>2. Agrees
    BY <1>2, <2>1 DEF OnTheWay
  <2>3. Agrees'
    BY <2>1, <2>2, LeftStays DEF Agrees, Ended
  <2>4. OnTheWay(family[h])'
    BY <2>1, IdleIs DEF OnTheWay
  <2> QED BY <1>2, <2>1, <2>3, <2>4, IdleIs, LeftStays
<1> HIDE DEF R
<1>21. CASE ~(\E h \in FamilyHandlers : R(h))
  BY <1>0, <1>5, <1>7, <1>8, <1>9, <1>10, <1>12, <1>13, <1>14, <1>15, <1>16, <1>17, <1>18, <1>19, <1>20, <1>21, Histories
     DEF S!Next, S!Refreshing
<1>22. CASE \E h \in FamilyHandlers : R(h)
  BY <1>11, <1>22 DEF R
<1> QED BY <1>21, <1>22

LEMMA BatchStep ==
    ASSUME S!TypeOK, HeldOK, PlannerOK, CascadeSome, S!BatchCovered, S!Next
    PROVE  S!BatchCovered'
<1> SUFFICES ASSUME parent'.split > 0, ~retried' PROVE
        /\ S!Children' = 0 .. parent'.split - 1
        /\ UNION {kid'[i].images : i \in S!Children'} = 0 .. parent'.plan - 1
        /\ \A i, j \in S!Children' : i # j => kid'[i].images \cap kid'[j].images = {}
  BY DEF S!BatchCovered
<1>1. CASE S!CreateChildren /\ S!Unsplit
  <2>1. ~retried /\ planner # S!NoPlan /\ parent.split = 0
    BY <1>1 DEF S!CreateChildren, S!Unsplit
  <2>2. S!Children = {} /\ planner.batch = parent.plan
    BY <2>1 DEF PlannerOK
  <2>3. parent' = [parent EXCEPT !.split = planner.k] /\ planner.k \in 2 .. MaxSplit
        /\ planner.batch \in 2 .. MaxBatch /\ planner.k <= planner.batch
    BY <1>1, CreatedIs
  <2>4. parent'.split = planner.k /\ parent'.plan = planner.batch
    BY <2>2, <2>3 DEF S!TypeOK, S!Parents
  <2>5. S!Children' = 0 .. planner.k - 1
    BY <1>1, <2>2, CreatedChildren
  <2>6. \A i \in 0 .. planner.k - 1 : i \in S!Indices /\ i < planner.k
    BY <2>3, FamilyAssumption DEF S!Indices
  <2>7. \A i \in S!Children' : kid'[i].images = S!Partition(planner.batch, planner.k)[i]
    BY <1>1, <2>2, <2>5, <2>6, CreatedChildren
  <2>8. planner.k \in Nat \ {0} /\ planner.batch \in Nat /\ planner.k <= planner.batch /\ planner.k <= MaxSplit
    BY <2>3, FamilyAssumption
  <2>9. /\ UNION {S!Partition(planner.batch, planner.k)[i] : i \in 0 .. planner.k - 1} = 0 .. planner.batch - 1
        /\ \A i, j \in 0 .. planner.k - 1 : i # j =>
              S!Partition(planner.batch, planner.k)[i] \cap S!Partition(planner.batch, planner.k)[j] = {}
    BY <2>8, PartitionCovers, FamilyAssumption
  <2>10. UNION {kid'[i].images : i \in S!Children'} = UNION {S!Partition(planner.batch, planner.k)[i] : i \in S!Children'}
    BY <2>7
  <2> QED BY <2>4, <2>5, <2>7, <2>9, <2>10
<1>2. CASE ~(S!CreateChildren /\ S!Unsplit)
  <2>1. S!Children' = S!Children /\ \A i \in S!Children : kid'[i].images = kid[i].images
    BY <1>2, KidsKeep DEF S!Children
  <2>2. parent'.split = parent.split /\ parent'.plan = parent.plan /\ UNCHANGED retried
    <3>1. parent'.split # 0
      OBVIOUS
    <3>2. ~S!Submit
      <4> SUFFICES ASSUME S!Submit PROVE FALSE
        OBVIOUS
      <4>1. parent'.split = parent.split /\ parent.status = "new"
        BY SubmitPlans
      <4> QED BY <3>1, <4>1 DEF PlannerOK
    <3> QED BY <1>2, <3>1, <3>2, ParentSteps
  <2>3. /\ S!Children = 0 .. parent.split - 1
        /\ UNION {kid[i].images : i \in S!Children} = 0 .. parent.plan - 1
        /\ \A i, j \in S!Children : i # j => kid[i].images \cap kid[j].images = {}
    BY <2>2 DEF S!BatchCovered
  <2>4. UNION {kid'[i].images : i \in S!Children} = UNION {kid[i].images : i \in S!Children}
    BY <2>1
  <2> QED BY <2>1, <2>2, <2>3, <2>4
<1> QED BY <1>1, <1>2

LEMMA FamilyInit ==
    ASSUME S!Init
    PROVE  FamilyInv
<1>1. S!TypeOK
  <2>1. parent \in S!Parents
    <3>1. 0 \in 0 .. MaxSplit /\ 0 \in 0 .. MaxBatch
      BY FamilyAssumption
    <3> QED BY <3>1 DEF S!Init, S!Parents
  <2>2. kid \in [S!Indices -> S!Kids]
    <3>1. S!NoKid \in S!Kids
      BY DEF S!NoKid, S!Kids
    <3> QED BY <3>1 DEF S!Init
  <2>3. planner \in [batch: 0 .. MaxBatch, k: 0 .. MaxSplit]
    BY FamilyAssumption DEF S!Init, S!NoPlan
  <2>4. family \in [FamilyHandlers -> S!HandlerStates]
    BY IdleIs DEF S!Init
  <2>5. paid \in [S!Indices -> 0 .. 2]
    BY DEF S!Init
  <2> QED BY <2>1, <2>2, <2>3, <2>4, <2>5 DEF S!Init, S!TypeOK
<1>2. S!Children = {} /\ S!Left = {}
  BY DEF S!Init, S!NoKid, S!Children, S!Left
<1>3. S!Quiet /\ IdleOK /\ Working = {}
  BY IdleIs DEF S!Init, S!Quiet, IdleOK, Working
<1>4. parent.status = "new" /\ ~parent.held /\ parent.split = 0 /\ planner = S!NoPlan /\ ~retried
  BY DEF S!Init
<1>5. HeldOK /\ PlannerOK /\ S!BatchCovered
  BY <1>2, <1>4 DEF HeldOK, PlannerOK, S!BatchCovered
<1>6. CascadeSome
  BY IdleIs DEF CascadeSome, S!Init
<1>7. RanOK
  <2>1. \A i \in S!Indices : kid[i].status = "none" /\ ~kid[i].ran /\ paid[i] = 0
    BY DEF S!Init, S!NoKid
  <2>2. \A h \in FamilyHandlers : family[h].owed = {} /\ family[h].running = {}
    BY IdleIs DEF S!Init
  <2> QED BY <2>1, <2>2 DEF RanOK
<1>8. OnePays
  <2>1. \A i \in S!Indices : paid[i] = 0
    BY DEF S!Init
  <2>2. \A h \in FamilyHandlers : family[h].owed = {} /\ family[h].cascade = {} /\ family[h].walk = {}
    BY IdleIs DEF S!Init
  <2> QED BY <1>3, <2>1, <2>2 DEF OnePays
<1>9. WritesLive
  BY IdleIs DEF WritesLive, S!Init
<1>10. StepByStep
  <2>1. ~Ended /\ ~(parent.split > 0)
    BY <1>4 DEF Ended, S!Terminal
  <2>2. Agrees
    BY <2>1 DEF Agrees
  <2>3. \A h \in FamilyHandlers : OnTheWay(family[h])
    BY <1>3 DEF S!Quiet, OnTheWay
  <2> QED BY <1>2, <2>2, <2>3 DEF StepByStep
<1> QED BY <1>1, <1>3, <1>5, <1>6, <1>7, <1>8, <1>9, <1>10 DEF FamilyInv

LEMMA FamilyInvHolds == S!Spec => []FamilyInv
<1>1. FamilyInv /\ S!Next => FamilyInv'
  <2> SUFFICES ASSUME FamilyInv, S!Next PROVE FamilyInv'
    OBVIOUS
  <2>1. S!TypeOK /\ HeldOK /\ PlannerOK /\ IdleOK /\ CascadeSome
        /\ RanOK /\ OnePays /\ WritesLive /\ StepByStep /\ S!BatchCovered
    BY DEF FamilyInv
  <2> QED
    BY <2>1, FamilyTypes, HeldStep, PlannerStep, IdleStep, CascadeStep, RanStep, OnePaysStep, FamilyWritesStep,
       StepByStepStep, BatchStep DEF FamilyInv
<1>2. FamilyInv /\ UNCHANGED S!vars => FamilyInv'
  <2> SUFFICES ASSUME FamilyInv, UNCHANGED S!vars PROVE FamilyInv'
    OBVIOUS
  <2>1. UNCHANGED <<parent, kid, planner, family, paid, retried, overlapped, broken>>
    BY DEF S!vars
  <2>2. S!Children' = S!Children /\ S!Left' = S!Left /\ S!Derived' = S!Derived /\ S!Quiet' = S!Quiet /\ Working' = Working /\ Ended' = Ended
    BY <2>1, LeftStays DEF S!Quiet, Working, Ended
  <2>3. S!TypeOK' /\ HeldOK' /\ PlannerOK' /\ IdleOK' /\ CascadeSome'
    BY <2>1, <2>2 DEF FamilyInv, S!TypeOK, HeldOK, PlannerOK, IdleOK, CascadeSome
  <2>4. RanOK' /\ OnePays' /\ WritesLive'
    BY <2>1, <2>2 DEF FamilyInv, RanOK, OnePays, WritesLive
  <2>5. StepByStep'
    BY <2>1, <2>2 DEF FamilyInv, StepByStep, OnTheWay, Agrees
  <2>6. S!BatchCovered'
    BY <2>1, <2>2 DEF FamilyInv, S!BatchCovered
  <2> QED BY <2>3, <2>4, <2>5, <2>6 DEF FamilyInv
<1> QED BY <1>1, <1>2, FamilyInit, PTL DEF S!Spec

LEMMA FamilyGives ==
    ASSUME FamilyInv
    PROVE  S!FamilyAgrees /\ S!CancelledPayIsDue /\ S!SplitSound
<1>0. S!TypeOK /\ HeldOK /\ RanOK /\ OnePays /\ StepByStep /\ S!BatchCovered
  BY DEF FamilyInv
<1>1. S!FamilyAgrees
  BY <1>0 DEF S!FamilyAgrees, StepByStep, Agrees, Ended
<1>2. S!CancelledPayIsDue
  BY <1>0 DEF S!CancelledPayIsDue, RanOK, OnePays
<1>3. S!CutFeedsAll
  <2> SUFFICES ASSUME NEW flow \in Law, NEW s \in DOMAIN flow, S!Splittable(flow, s)
               PROVE  LET child == S!ChildWorkflow(flow, s)
                      IN  \A n \in DOMAIN flow :
                             /\ flow[n].class = "output" => S!HasAncestor(child, n, Cut)
                             /\ flow[n].class = "sampler" /\ flow[n].latent # NoLink =>
                                   child[n].slot0 /\ S!ReachesBatchSource(child, child[n].latent, Cut)
    BY DEF S!CutFeedsAll
  <2>1. DOMAIN flow \subseteq NodeIds /\ flow \in [DOMAIN flow -> S!Nodes]
    BY FamilyAssumption
  <2>2. \A m \in DOMAIN flow : flow[m].latent = s => flow[m].slot0
    BY FamilyAssumption DEF S!Splittable
  <2>3. IsFiniteSet(NodeIds) /\ Cut \notin NodeIds
    BY FamilyAssumption
  <2> QED BY <2>1, <2>2, <2>3, CutFeeds
<1>4. S!RunsOnce
  BY <1>0 DEF S!RunsOnce, HeldOK, StepByStep
<1> QED BY <1>0, <1>1, <1>2, <1>3, <1>4 DEF S!SplitSound

----------------------------------------------------------------------------
(* The panels *)

Final == CASE status[P!Root] = "done" -> "done" [] status[P!Root] = "failed" -> "error" [] OTHER -> "idle"

Ends == {"done", "failed", "cancelled"}
RelayStates == [pc: {"rest", "look", "post", "count", "badge"},
                kind: {"none", "running", "requeued", "done", "failed", "cancelled"}, job: P!Jobs,
                frame: {"none", "executing", "error", "done", "idle"}, count: {0, 1}]
PanelStates == [on: BOOLEAN, shows: {"unknown", "executing", "error", "idle"},
                told: SUBSET {"executing", "error", "done", "idle"}, badge: {0, 1}, late: BOOLEAN,
                greeting: BOOLEAN, count: {0, 1}]

PanelTypes ==
    /\ status \in [P!Jobs -> {"none"} \cup P!Live \cup Ends] /\ status[P!Root] # "none"
    /\ stage \subseteq P!Jobs
    /\ relay \in [Relays -> RelayStates] /\ \A h \in Relays : relay[h].pc = "rest" => relay[h] = P!Rest
    /\ beat \in [pc: {"rest", "set"}, job: P!Jobs]
    /\ panel \in [Panels -> PanelStates]
    /\ lost \in BOOLEAN /\ crossed \in BOOLEAN

\* A family that has not ended is what its children make it, none of them failed or cancelled.
FamilyShape ==
    ~P!Ended => \A k \in P!Kids : /\ status[k] \in P!Live \cup {"done"}
                                  /\ status[P!Root] = P!Derived(status)

\* What is called done is done, and a job whose cancellation is told has ended.
DoneTold ==
    /\ P!DoneWhenDone
    /\ \A h \in Relays : /\ relay[h].frame = "done" => status[P!Root] = "done"
                         /\ relay[h].kind = "done" /\ relay[h].job = P!Root => status[P!Root] = "done"
                         /\ relay[h].kind = "cancelled" /\ relay[h].job = P!Root => P!Ended

\* Whoever has not been told how the job ended is about to be.
Telling(h) ==
    \/ relay[h].pc = "look" /\ P!Frame(relay[h].kind, relay[h].job) = Final
    \/ relay[h].pc = "post" /\ relay[h].frame = Final
EndTold ==
    ~lost /\ P!Ended =>
        \A p \in Panels : panel[p].on /\ ~panel[p].late => Final \in panel[p].told \/ \E h \in Relays : Telling(h)

\* Handlers that do not overlap are at work one at a time.
OneAtATime ==
    ~crossed =>
        /\ \A g, h \in Relays : relay[g] # P!Rest /\ relay[h] # P!Rest => g = h
        /\ \A h \in Relays : relay[h] # P!Rest => beat = P!NoBeat /\ \A p \in Panels : ~panel[p].greeting
        /\ beat # P!NoBeat => \A p \in Panels : ~panel[p].greeting
        /\ \A p, q \in Panels : panel[p].greeting /\ panel[q].greeting => p = q

\* A panel may show this.
ShowOK(shows) ==
    /\ shows # "unknown" /\ status[P!Root] = "running" => shows = "executing"
    /\ P!Ended => shows # "executing"

\* What a panel shows once it is sent a frame.
Showing(f, shows) ==
    IF f = "none" THEN shows ELSE IF f \in {"executing", "error"} THEN f ELSE "idle"

Following(h) ==
    LET r == relay[h]
    IN  \A p \in Panels : panel[p].on =>
          /\ r.pc = "look" => ShowOK(Showing(P!Frame(r.kind, r.job), panel[p].shows))
          /\ r.pc = "post" => ShowOK(Showing(r.frame, panel[p].shows))
          /\ r.pc \in {"look", "post"} /\ r.kind \in {"running", "requeued"} => panel[p].badge = P!Count
          /\ r.pc \in {"count", "badge"} => ShowOK(panel[p].shows)
          /\ r.pc = "badge" => r.count = P!Count

\* While handlers overlap nowhere and none broke off: a panel follows the job, or the
\* one handler at work will have it follow.
Follow ==
    ~crossed /\ ~lost =>
        /\ \A h \in Relays : Following(h)
        /\ (\A h \in Relays : relay[h] = P!Rest) =>
              \A p \in Panels : panel[p].on =>
                 /\ ShowOK(panel[p].shows)
                 /\ IF panel[p].greeting THEN panel[p].count = P!Count ELSE panel[p].badge = P!Count

\* Children are left live beside an ended job only until its walk.
Unended ==
    ~crossed /\ ~lost /\ P!Ended =>
        \/ \A k \in P!Kids : status[k] \notin P!Live
        \/ \E h \in Relays : relay[h].pc \in {"look", "post"} /\ relay[h].kind = "cancelled" /\ relay[h].job = P!Root

HeldJobs == {j \in P!Jobs : status[j] \in P!Held}
Clearing == {j \in P!Jobs : \E h \in Relays : relay[h].pc = "look" /\ P!Cleared(relay[h].kind) /\ relay[h].job = j}

Staged ==
    /\ P!Root \in stage \/ (beat # P!NoBeat /\ beat.job = P!Root) => P!Kids = {}
    /\ ~crossed /\ ~lost =>
          /\ stage \subseteq HeldJobs \cup cascaded \cup Clearing
          /\ beat # P!NoBeat => beat.job \in HeldJobs \cup cascaded

PanelsInv ==
    /\ PanelTypes /\ FamilyShape /\ DoneTold /\ EndTold /\ OneAtATime /\ Follow /\ Unended /\ Staged

----------------------------------------------------------------------------
(* What a move makes of the family the panels hear of. *)

LEMMA RootIs == P!Root \in P!Jobs /\ P!Root \notin P!Kids /\ P!Kids \subseteq P!Jobs /\ \A k \in P!Jobs : k # P!Root <=> k \in P!Jobs \ {P!Root}
BY PanelsAssumption DEF P!Root, P!Jobs, P!Kids

LEMMA Derives ==
    ASSUME NEW of
    PROVE  /\ (\E k \in P!Kids : of[k] = "failed") => P!Derived(of) = "failed"
           /\ (\A k \in P!Kids : of[k] # "failed") /\ (\E k \in P!Kids : of[k] = "cancelled") => P!Derived(of) = "cancelled"
           /\ (\A k \in P!Kids : of[k] \notin {"failed", "cancelled"}) =>
                 /\ P!Derived(of) \in P!Live \cup {"done"}
                 /\ P!Derived(of) = "done" => \A k \in P!Kids : of[k] = "done"
                 /\ P!Derived(of) = "running" <=> \E k \in P!Kids : of[k] = "running"
                 /\ (\E k \in P!Kids : of[k] # "done") => P!Derived(of) \in P!Live
<1> DEFINE has == {of[k] : k \in P!Kids}
<1>1. CASE "failed" \in has
  <2>1. P!Derived(of) = "failed"
    BY <1>1 DEF P!Derived
  <2> QED BY <1>1, <2>1
<1>2. CASE "failed" \notin has /\ "cancelled" \in has
  <2>1. P!Derived(of) = "cancelled"
    BY <1>2 DEF P!Derived
  <2> QED BY <1>2, <2>1
<1>3. CASE has \cap {"failed", "cancelled"} = {}
  <2>1. CASE has = {"done"}
    <3>1. P!Derived(of) = "done"
      BY <2>1 DEF P!Derived
    <3>2. \A k \in P!Kids : of[k] = "done"
      BY <2>1
    <3> QED BY <1>3, <3>1, <3>2
  <2>2. CASE has # {"done"} /\ "running" \in has
    <3>1. P!Derived(of) = "running"
      BY <1>3, <2>2 DEF P!Derived
    <3>2. \E k \in P!Kids : of[k] = "running"
      BY <2>2
    <3> QED BY <1>3, <3>1, <3>2 DEF P!Live
  <2>3. CASE has # {"done"} /\ "running" \notin has
    <3>1. P!Derived(of) \in {"assigned", "queued"}
      BY <1>3, <2>3 DEF P!Derived
    <3>2. \A k \in P!Kids : of[k] # "running"
      BY <2>3
    <3> QED BY <1>3, <3>1, <3>2 DEF P!Live
  <2> QED BY <2>1, <2>2, <2>3
<1> QED BY <1>1, <1>2, <1>3

\* What a move makes of the family.
LEMMA MoveIs ==
    ASSUME PanelTypes, FamilyShape, NEW j \in P!Jobs, NEW s \in P!Live \cup Ends, status[j] \in P!Live, P!Moves(j, s),
           j = P!Root /\ P!Kids # {} => s = "cancelled"
    PROVE  /\ status' \in [P!Jobs -> {"none"} \cup P!Live \cup Ends] /\ P!Kids' = P!Kids /\ status'[P!Root] # "none"
           /\ status'[j] = s
           /\ P!Ended => j \in P!Kids /\ status'[P!Root] = status[P!Root]
           /\ ~P!Ended /\ s \in Ends \ {"done"} => status'[P!Root] = s
           /\ ~P!Ended /\ s \in P!Live => status'[P!Root] \in P!Live
           /\ ~P!Ended /\ s = "done" => status'[P!Root] \in P!Live \cup {"done"}
           /\ ~P!Ended /\ s = "running" => status'[P!Root] = "running"
           /\ status'[P!Root] = "running" => status[P!Root] = "running" \/ s = "running"
           /\ FamilyShape'
           /\ \A k \in P!Jobs \ {j, P!Root} : status'[k] = status[k] \/ k \in cascaded'
           /\ cascaded \subseteq cascaded'
           /\ ~P!Ended /\ P!Ended' /\ j # P!Root => \A k \in P!Kids : status'[k] \notin P!Live
<1> DEFINE moved == [status EXCEPT ![j] = s]
<1>0. /\ status \in [P!Jobs -> {"none"} \cup P!Live \cup Ends] /\ status[P!Root] # "none" /\ P!Root \in P!Jobs
      /\ s # "none" /\ status[j] # "none" /\ "none" \notin P!Live /\ "cancelled" \notin P!Live /\ P!Kids \subseteq P!Jobs
      /\ j # P!Root => j \in P!Kids
  BY RootIs DEF PanelTypes, P!Live, Ends, P!Kids
<1>1. status' = P!Family(j, s) /\ cascaded' = cascaded \cup {k \in P!Kids \ {j} : status[k] \in P!Live /\ status'[k] = "cancelled"}
  BY DEF P!Moves
<1>2. /\ moved \in [P!Jobs -> {"none"} \cup P!Live \cup Ends] /\ moved[j] = s
      /\ \A k \in P!Jobs : k # j => moved[k] = status[k]
  BY <1>0
<1> HIDE DEF moved
<1>3. CASE P!Ended \/ j = P!Root
  <2>1. status' = moved
    BY <1>1, <1>3 DEF P!Family, moved
  <2>2. P!Ended => j # P!Root
    BY DEF P!Ended
  <2>3. P!Kids' = P!Kids
    BY <1>0, <1>2, <2>1 DEF P!Kids
  <2>4. status'[j] = s /\ \A k \in P!Jobs : k # j => status'[k] = status[k]
    BY <1>2, <2>1
  <2>5. FamilyShape'
    <3> SUFFICES ASSUME ~P!Ended', NEW k \in P!Kids PROVE FALSE
      BY <2>3 DEF FamilyShape
    <3>1. CASE P!Ended
      BY <1>0, <2>2, <2>4, <3>1 DEF P!Ended
    <3>2. CASE ~P!Ended
      <4>1. status'[P!Root] = "cancelled"
        BY <1>3, <2>4, <3>2
      <4> QED BY <1>0, <4>1 DEF P!Ended
    <3> QED BY <3>1, <3>2
  <2>6. \A k \in P!Jobs \ {j, P!Root} : status'[k] = status[k]
    BY <2>4
  <2>7. j # P!Root => status'[P!Root] = status[P!Root]
    BY <1>0, <2>4
  <2>8. ~P!Ended => j = P!Root /\ status'[P!Root] = s
    BY <1>3, <2>4
  <2>9. cascaded \subseteq cascaded'
    BY <1>1
  <2>10. status' \in [P!Jobs -> {"none"} \cup P!Live \cup Ends]
    BY <1>2, <2>1
  <2>11. status'[P!Root] # "none"
    BY <1>0, <2>7, <2>4
  <2>12. status'[P!Root] = "running" => status[P!Root] = "running" \/ s = "running"
    BY <2>4, <2>7
  <2> QED BY <1>0, <2>2, <2>3, <2>4, <2>5, <2>6, <2>7, <2>8, <2>9, <2>10, <2>11, <2>12
<1>4. CASE ~P!Ended /\ j # P!Root
  <2> DEFINE ends == P!Derived(moved) \in {"failed", "cancelled"}
  <2>1. status' = [k \in P!Jobs |-> IF k = P!Root THEN P!Derived(moved)
                                  ELSE IF ends /\ moved[k] \in P!Live THEN "cancelled" ELSE moved[k]]
    BY <1>1, <1>4 DEF P!Family, moved
  <2>2. status'[P!Root] = P!Derived(moved)
    BY <1>0, <2>1
  <2>3. j \in P!Kids /\ \A k \in P!Kids : status[k] \in P!Live \cup {"done"} /\ status[P!Root] = P!Derived(status)
    BY <1>0, <1>4 DEF FamilyShape
  <2>4. \A k \in P!Kids \ {j} : moved[k] = status[k] /\ moved[k] \in P!Live \cup {"done"}
    BY <1>0, <1>2, <2>3
  <2>5. s = "failed" => P!Derived(moved) = "failed"
    BY <1>2, <2>3, Derives
  <2>6. s = "cancelled" => P!Derived(moved) = "cancelled"
    <3> SUFFICES ASSUME s = "cancelled" PROVE P!Derived(moved) = "cancelled"
      OBVIOUS
    <3>1. \A k \in P!Kids : moved[k] # "failed"
      BY <1>2, <2>4 DEF P!Live
    <3> QED BY <1>2, <2>3, <3>1, Derives
  <2>7. s \in P!Live \cup {"done"} =>
            /\ P!Derived(moved) \in P!Live \cup {"done"}
            /\ s \in P!Live => P!Derived(moved) \in P!Live
            /\ P!Derived(moved) = "running" <=> \E k \in P!Kids : moved[k] = "running"
            /\ P!Derived(moved) = "done" => \A k \in P!Kids : moved[k] = "done"
    <3> SUFFICES ASSUME s \in P!Live \cup {"done"}
                 PROVE  /\ P!Derived(moved) \in P!Live \cup {"done"}
                        /\ s \in P!Live => P!Derived(moved) \in P!Live
                        /\ P!Derived(moved) = "running" <=> \E k \in P!Kids : moved[k] = "running"
                        /\ P!Derived(moved) = "done" => \A k \in P!Kids : moved[k] = "done"
      OBVIOUS
    <3>1. \A k \in P!Kids : moved[k] \notin {"failed", "cancelled"}
      BY <1>2, <2>4 DEF P!Live
    <3>2. s \in P!Live => s # "done"
      BY DEF P!Live
    <3> QED BY <1>2, <2>3, <3>1, <3>2, Derives
  <2>8. P!Derived(moved) = "running" => status[P!Root] = "running" \/ s = "running"
    <3> SUFFICES ASSUME P!Derived(moved) = "running", s # "running" PROVE status[P!Root] = "running"
      OBVIOUS
    <3>1. s \in P!Live \cup {"done"}
      BY <2>5, <2>6 DEF Ends
    <3>2. PICK k \in P!Kids : moved[k] = "running"
      BY <2>7, <3>1
    <3>3. status[k] = "running"
      BY <1>2, <2>4, <3>2
    <3>4. \A i \in P!Kids : status[i] \notin {"failed", "cancelled"}
      BY <2>3 DEF P!Live
    <3>5. P!Derived(status) = "running"
      BY <3>3, <3>4, Derives
    <3> QED BY <2>3, <3>5
  <2>9. \A k \in P!Jobs \ {P!Root} : status'[k] = IF ends /\ moved[k] \in P!Live THEN "cancelled" ELSE moved[k]
    BY <2>1
  <2>10. \A k \in P!Jobs : status'[k] # "none" <=> status[k] # "none"
    <3>1. P!Derived(moved) # "none"
      BY <2>5, <2>6, <2>7 DEF P!Live, Ends
    <3> QED BY <1>0, <1>2, <2>2, <2>9, <3>1
  <2>11. P!Kids' = P!Kids
    BY <2>10 DEF P!Kids
  <2>12. status' \in [P!Jobs -> {"none"} \cup P!Live \cup Ends]
    <3>1. P!Derived(moved) \in {"none"} \cup P!Live \cup Ends
      BY <2>5, <2>6, <2>7 DEF Ends
    <3>2. "cancelled" \in Ends
      BY DEF Ends
    <3> QED BY <1>2, <2>1, <3>1, <3>2
  <2>13. status'[j] = s
    <3>1. ends /\ s \in P!Live => FALSE
      BY <2>7 DEF P!Live
    <3> QED BY <1>2, <1>4, <2>9, <3>1
  <2>14. \A k \in P!Jobs \ {j, P!Root} : status'[k] = status[k] \/ k \in cascaded'
    <3> SUFFICES ASSUME NEW k \in P!Jobs \ {j, P!Root}, status'[k] # status[k] PROVE k \in cascaded'
      OBVIOUS
    <3>1. moved[k] = status[k] /\ status[k] \in P!Live /\ status'[k] = "cancelled"
      BY <1>2, <2>9
    <3>2. k \in P!Kids
      BY <1>0, <3>1 DEF P!Kids
    <3> QED BY <1>1, <3>1, <3>2
  <2>15. ~P!Ended' => ~ends
    BY <2>2 DEF P!Ended, P!Live
  <2>16. FamilyShape'
    <3> SUFFICES ASSUME ~P!Ended', NEW k \in P!Kids
                 PROVE  status'[k] \in P!Live \cup {"done"} /\ status'[P!Root] = P!Derived(status)'
      BY <2>11 DEF FamilyShape
    <3>1. s \in P!Live \cup {"done"}
      BY <2>5, <2>6, <2>15 DEF Ends
    <3>2. \A i \in P!Kids : status'[i] = moved[i] /\ moved[i] \in P!Live \cup {"done"}
      BY <1>0, <1>2, <2>4, <2>9, <2>15, <3>1, RootIs
    <3>3. P!Derived(status)' = P!Derived(moved)
      <4>1. {status'[i] : i \in P!Kids} = {moved[i] : i \in P!Kids}
        BY <3>2
      <4> QED BY <2>11, <4>1 DEF P!Derived
    <3> QED BY <2>2, <3>2, <3>3
  <2>17. P!Ended' => \A k \in P!Kids : status'[k] \notin P!Live
    <3> SUFFICES ASSUME P!Ended', NEW k \in P!Kids PROVE status'[k] \notin P!Live
      OBVIOUS
    <3>1. P!Derived(moved) \notin P!Live /\ k \in P!Jobs \ {P!Root}
      BY <1>0, <2>2, RootIs DEF P!Ended
    <3>2. CASE ends
      BY <1>0, <2>9, <3>1, <3>2
    <3>3. CASE ~ends
      <4>1. P!Derived(moved) = "done" /\ s \in P!Live \cup {"done"}
        BY <2>5, <2>6, <2>7, <3>1, <3>3 DEF Ends
      <4>2. moved[k] = "done"
        BY <2>7, <4>1
      <4> QED BY <2>9, <3>1, <3>3, <4>2 DEF P!Live
    <3> QED BY <3>2, <3>3
  <2>18. cascaded \subseteq cascaded'
    BY <1>1
  <2>19. s = "running" => status'[P!Root] = "running"
    <3>1. s = "running" => s \in P!Live
      BY DEF P!Live
    <3> QED BY <1>2, <2>2, <2>3, <2>7, <3>1
  <2>20. s \in Ends \ {"done"} => status'[P!Root] = s
    BY <2>2, <2>5, <2>6 DEF Ends
  <2> HIDE DEF ends
  <2> QED
    BY <1>0, <1>4, <2>2, <2>7, <2>8, <2>10, <2>11, <2>12, <2>13, <2>14, <2>16, <2>17, <2>18, <2>19, <2>20
<1> QED BY <1>3, <1>4

----------------------------------------------------------------------------
(* What each step of a relaying handler or a panel does. *)

LEMMA RestIs == /\ P!Rest \in RelayStates /\ P!Rest.pc = "rest" /\ P!Rest.kind = "none" /\ P!Rest.job = P!Root /\ P!Rest.frame = "none"
                /\ P!NoBeat \in [pc: {"rest", "set"}, job: P!Jobs] /\ P!NoBeat.pc = "rest"
BY RootIs DEF P!Rest, P!NoBeat, RelayStates

LEMMA RelayGoes ==
    ASSUME PanelTypes, NEW h \in Relays, NEW r, relay' = [relay EXCEPT ![h] = r]
    PROVE  relay'[h] = r /\ \A g \in Relays : g # h => relay'[g] = relay[g]
BY DEF PanelTypes

\* A move that is relayed, by the status it brings.
Brings(kind, s) == \/ kind = "running" /\ s = "running"
                   \/ kind = "requeued" /\ s = "queued"
                   \/ kind \in {"done", "failed", "cancelled"} /\ s = kind

Sent(h, j) == P!Run(h, j) \/ P!Requeue(h, j) \/ P!Done(h, j) \/ P!Fail(h, j) \/ P!Cancel(h, j)

LEMMA SentIs ==
    ASSUME PanelTypes, NEW h \in Relays, NEW j \in P!Jobs, Sent(h, j)
    PROVE  \E kind \in {"running", "requeued", "done", "failed", "cancelled"}, s \in P!Live \cup Ends :
              /\ P!Relayed(h, kind, j, s) /\ Brings(kind, s) /\ status[j] \in P!Live
              /\ j = P!Root /\ P!Kids # {} => s = "cancelled"
<1> DEFINE Is(kind, s) == /\ P!Relayed(h, kind, j, s) /\ Brings(kind, s) /\ status[j] \in P!Live
                          /\ j = P!Root /\ P!Kids # {} => s = "cancelled"
           All == \E kind \in {"running", "requeued", "done", "failed", "cancelled"}, s \in P!Live \cup Ends : Is(kind, s)
<1>0. "running" \in P!Live /\ "queued" \in P!Live /\ {"done", "failed", "cancelled"} \subseteq Ends /\ P!Held \subseteq P!Live
      /\ "assigned" \in P!Live
  BY DEF P!Live, Ends, P!Held
<1>1. P!Dispatched(j) /\ j = P!Root => P!Kids = {}
  BY RootIs DEF P!Dispatched
<1>2. CASE P!Run(h, j)
  <2>1. Is("running", "running")
    BY <1>0, <1>1, <1>2 DEF P!Run, Brings
  <2> QED BY <1>0, <2>1
<1>3. CASE P!Requeue(h, j)
  <2>1. Is("requeued", "queued")
    BY <1>0, <1>1, <1>3 DEF P!Requeue, Brings
  <2> QED BY <1>0, <2>1
<1>4. CASE P!Done(h, j)
  <2>1. Is("done", "done")
    BY <1>0, <1>1, <1>4 DEF P!Done, Brings
  <2> QED BY <1>0, <2>1
<1>5. CASE P!Fail(h, j)
  <2>1. Is("failed", "failed")
    BY <1>0, <1>1, <1>5 DEF P!Fail, Brings
  <2> QED BY <1>0, <2>1
<1>6. CASE P!Cancel(h, j)
  <2>1. Is("cancelled", "cancelled")
    BY <1>0, <1>6 DEF P!Cancel, Brings
  <2> QED BY <1>0, <2>1
<1> QED BY <1>2, <1>3, <1>4, <1>5, <1>6 DEF Sent

LEMMA RelayedIs ==
    ASSUME PanelTypes, NEW h \in Relays, NEW j \in P!Jobs, NEW kind \in {"running", "requeued", "done", "failed", "cancelled"},
           NEW s, P!Relayed(h, kind, j, s)
    PROVE  /\ P!Moves(j, s) /\ relay[h] = P!Rest
           /\ relay'[h] \in [pc: {"look"}, kind: {kind}, job: {j}, frame: {"none"}, count: {0}]
           /\ \A g \in Relays : g # h => relay'[g] = relay[g]
           /\ relay' = [relay EXCEPT ![h] = relay'[h]]
           /\ crossed' = (crossed \/ ~P!Calm)
           /\ UNCHANGED <<stage, beat, panel, lost>>
<1> DEFINE r == [P!Rest EXCEPT !.pc = "look", !.kind = kind, !.job = j]
<1>1. r \in [pc: {"look"}, kind: {kind}, job: {j}, frame: {"none"}, count: {0}]
  BY DEF P!Rest
<1>2. relay' = [relay EXCEPT ![h] = r]
  BY DEF P!Relayed
<1> HIDE DEF r
<1>3. relay'[h] = r /\ \A g \in Relays : g # h => relay'[g] = relay[g]
  BY <1>2, RelayGoes
<1>4. P!Moves(j, s) /\ relay[h] = P!Rest /\ crossed' = (crossed \/ ~P!Calm) /\ UNCHANGED <<stage, beat, panel, lost>>
  BY DEF P!Relayed
<1> QED BY <1>1, <1>2, <1>3, <1>4

LEMMA ClaimIs ==
    ASSUME PanelTypes, NEW j \in P!Jobs, P!Claim(j)
    PROVE  /\ P!Moves(j, "assigned") /\ status[j] = "queued" /\ status[j] \in P!Live /\ (j = P!Root => P!Kids = {})
           /\ crossed' = (crossed \/ ~P!Calm)
           /\ UNCHANGED <<stage, relay, beat, panel, lost>>
BY RootIs DEF P!Claim, P!Dispatched, P!Live

LEMMA LookIs ==
    ASSUME PanelTypes, NEW h \in Relays, P!Look(h)
    PROVE  /\ relay[h].pc = "look" /\ relay[h] # P!Rest
           /\ relay' = [relay EXCEPT ![h] = relay'[h]] /\ relay'[h] \in [pc: {"post"}, kind: {relay[h].kind}, job: {relay[h].job},
                           frame: {P!Frame(relay[h].kind, relay[h].job)}, count: {relay[h].count}]
           /\ \A g \in Relays : g # h => relay'[g] = relay[g]
           /\ stage' = IF P!Cleared(relay[h].kind) THEN stage \ {relay[h].job} ELSE stage
           /\ UNCHANGED <<status, beat, panel, cascaded, crossed, lost>>
<1> DEFINE f == P!Frame(relay[h].kind, relay[h].job)
           r == [relay[h] EXCEPT !.pc = "post", !.frame = f]
<1>0. relay[h] \in RelayStates
  BY DEF PanelTypes
<1> HIDE DEF f
<1>1. r \in [pc: {"post"}, kind: {relay[h].kind}, job: {relay[h].job}, frame: {f}, count: {relay[h].count}]
  BY <1>0 DEF RelayStates
<1>2. relay' = [relay EXCEPT ![h] = r]
  BY DEF P!Look, P!Step, f
<1> HIDE DEF r
<1>3. relay'[h] = r /\ \A g \in Relays : g # h => relay'[g] = relay[g]
  BY <1>2, RelayGoes
<1> QED BY <1>1, <1>2, <1>3, RestIs DEF P!Look, f

LEMMA PostIs ==
    ASSUME PanelTypes, NEW h \in Relays, P!Post(h)
    PROVE  /\ relay[h].pc = "post" /\ relay[h] # P!Rest /\ ~P!Unwalked(h)
           /\ relay' = [relay EXCEPT ![h] = relay'[h]]
           /\ \/ relay'[h] = P!Rest /\ relay[h].kind \in {"running", "requeued"}
              \/ relay'[h] \in [pc: {"count"}, kind: {relay[h].kind}, job: {relay[h].job}, frame: {relay[h].frame},
                                count: {relay[h].count}]
           /\ \A g \in Relays : g # h => relay'[g] = relay[g]
           /\ UNCHANGED <<status, stage, beat, cascaded, crossed, lost>>
<1> DEFINE r == [relay[h] EXCEPT !.pc = "count"]
<1>0. relay[h] \in RelayStates
  BY DEF PanelTypes
<1>1. r \in [pc: {"count"}, kind: {relay[h].kind}, job: {relay[h].job}, frame: {relay[h].frame}, count: {relay[h].count}]
  BY <1>0 DEF RelayStates
<1>2. PICK refreshes \in P!Refreshes(relay[h].kind) : relay' = [relay EXCEPT ![h] = IF refreshes THEN r ELSE P!Rest]
  BY DEF P!Post, P!Step
<1>3. refreshes \in BOOLEAN /\ (~refreshes => relay[h].kind \in {"running", "requeued"})
  BY DEF P!Refreshes
<1> HIDE DEF r
<1>4. relay'[h] = (IF refreshes THEN r ELSE P!Rest) /\ \A g \in Relays : g # h => relay'[g] = relay[g]
  BY <1>2, RelayGoes
<1>5. relay' = [relay EXCEPT ![h] = relay'[h]]
  BY <1>2, <1>4
<1> QED BY <1>1, <1>3, <1>4, <1>5, RestIs DEF P!Post

\* Every panel connected takes the frame.
LEMMA PostShows ==
    ASSUME PanelTypes, NEW h \in Relays, P!Post(h), NEW p \in Panels
    PROVE  /\ panel'[p].on = panel[p].on /\ panel'[p].late = panel[p].late /\ panel'[p].badge = panel[p].badge
           /\ panel'[p].greeting = panel[p].greeting /\ panel'[p].count = panel[p].count
           /\ panel'[p] \in PanelStates
           /\ panel[p].on => /\ panel'[p].shows = Showing(relay[h].frame, panel[p].shows)
                             /\ relay[h].frame # "none" => panel'[p].told = panel[p].told \cup {relay[h].frame}
           /\ panel[p].told \subseteq panel'[p].told
           /\ panel'[p].told \subseteq panel[p].told \cup {relay[h].frame}
<1> DEFINE f == relay[h].frame
           shown == [panel[p] EXCEPT !.shows = IF f \in {"executing", "error"} THEN f ELSE "idle", !.told = @ \cup {f}]
<1>0. panel[p] \in PanelStates /\ f \in {"none", "executing", "error", "done", "idle"}
  BY DEF PanelTypes, RelayStates
<1>1. panel'[p] = IF panel[p].on /\ f # "none" THEN shown ELSE panel[p]
  BY DEF P!Post, P!Shown, P!PanelJob
<1> HIDE DEF f
<1>2. /\ shown.on = panel[p].on /\ shown.late = panel[p].late /\ shown.badge = panel[p].badge
      /\ shown.greeting = panel[p].greeting /\ shown.count = panel[p].count
      /\ shown.told = panel[p].told \cup {f} /\ shown.shows = IF f \in {"executing", "error"} THEN f ELSE "idle"
  BY <1>0 DEF PanelStates
<1>3. f # "none" => shown \in PanelStates
  BY <1>0 DEF PanelStates
<1> HIDE DEF shown
<1>4. CASE panel[p].on /\ f # "none"
  <2>1. panel'[p] = shown
    BY <1>1, <1>4
  <2> QED BY <1>2, <1>3, <1>4, <2>1 DEF Showing, f
<1>5. CASE ~(panel[p].on /\ f # "none")
  <2>1. panel'[p] = panel[p]
    BY <1>1, <1>5
  <2> QED BY <1>0, <1>5, <2>1 DEF Showing, f
<1> QED BY <1>4, <1>5

LEMMA CountIs ==
    ASSUME PanelTypes, NEW h \in Relays, P!CountQueue(h)
    PROVE  /\ relay[h].pc = "count" /\ relay[h] # P!Rest
           /\ relay' = [relay EXCEPT ![h] = relay'[h]]
           /\ relay'[h] \in [pc: {"badge"}, kind: {relay[h].kind}, job: {relay[h].job}, frame: {relay[h].frame}, count: {P!Count}]
           /\ \A g \in Relays : g # h => relay'[g] = relay[g]
           /\ UNCHANGED <<status, stage, beat, panel, cascaded, crossed, lost>>
<1> DEFINE r == [relay[h] EXCEPT !.pc = "badge", !.count = P!Count]
<1>0. relay[h] \in RelayStates
  BY DEF PanelTypes
<1>1. r \in [pc: {"badge"}, kind: {relay[h].kind}, job: {relay[h].job}, frame: {relay[h].frame}, count: {P!Count}]
  BY <1>0 DEF RelayStates
<1>2. relay' = [relay EXCEPT ![h] = r]
  BY DEF P!CountQueue, P!Step
<1> HIDE DEF r
<1>3. relay'[h] = r /\ \A g \in Relays : g # h => relay'[g] = relay[g]
  BY <1>2, RelayGoes
<1> QED BY <1>1, <1>2, <1>3, RestIs DEF P!CountQueue

LEMMA BadgeIs ==
    ASSUME PanelTypes, NEW h \in Relays, P!Badge(h)
    PROVE  /\ relay[h].pc = "badge" /\ relay[h] # P!Rest
           /\ relay' = [relay EXCEPT ![h] = P!Rest] /\ relay'[h] = P!Rest
           /\ \A g \in Relays : g # h => relay'[g] = relay[g]
           /\ \A p \in Panels : /\ panel'[p] \in PanelStates
                                /\ panel'[p].on = panel[p].on /\ panel'[p].late = panel[p].late
                                /\ panel'[p].shows = panel[p].shows /\ panel'[p].told = panel[p].told
                                /\ panel'[p].greeting = panel[p].greeting /\ panel'[p].count = panel[p].count
                                /\ panel[p].on => panel'[p].badge = relay[h].count
           /\ UNCHANGED <<status, stage, beat, cascaded, crossed, lost>>
<1>0. relay[h] \in RelayStates
  BY DEF PanelTypes
<1>1. relay' = [relay EXCEPT ![h] = P!Rest]
  BY DEF P!Badge, P!Step
<1>2. relay'[h] = P!Rest /\ \A g \in Relays : g # h => relay'[g] = relay[g]
  BY <1>1, RelayGoes
<1>3. ASSUME NEW p \in Panels
      PROVE  /\ panel'[p] \in PanelStates
             /\ panel'[p].on = panel[p].on /\ panel'[p].late = panel[p].late
             /\ panel'[p].shows = panel[p].shows /\ panel'[p].told = panel[p].told
             /\ panel'[p].greeting = panel[p].greeting /\ panel'[p].count = panel[p].count
             /\ panel[p].on => panel'[p].badge = relay[h].count
  <2> DEFINE new == [panel[p] EXCEPT !.badge = relay[h].count]
  <2>0. panel[p] \in PanelStates /\ relay[h].count \in {0, 1}
    BY <1>0 DEF PanelTypes, RelayStates
  <2>1. panel'[p] = IF panel[p].on THEN new ELSE panel[p]
    BY DEF P!Badge
  <2>2. /\ new \in PanelStates /\ new.on = panel[p].on /\ new.late = panel[p].late /\ new.shows = panel[p].shows
        /\ new.told = panel[p].told /\ new.greeting = panel[p].greeting /\ new.count = panel[p].count
        /\ new.badge = relay[h].count
    BY <2>0 DEF PanelStates
  <2> HIDE DEF new
  <2> QED BY <2>0, <2>1, <2>2
<1> QED BY <1>1, <1>2, <1>3, RestIs DEF P!Badge

LEMMA WalkIs ==
    ASSUME PanelTypes, NEW h \in Relays, P!Walk(h)
    PROVE  /\ relay[h].pc = "post" /\ relay[h] # P!Rest
           /\ status' \in [P!Jobs -> {"none"} \cup P!Live \cup Ends] /\ P!Kids' = P!Kids /\ status'[P!Root] = status[P!Root]
           /\ \A k \in P!Kids : status'[k] \notin P!Live
           /\ \A k \in P!Jobs : status'[k] = status[k] \/ k \in cascaded'
           /\ cascaded \subseteq cascaded'
           /\ \A k \in P!Kids : status[k] # "cancelled" /\ status'[k] = "cancelled" => status[k] \in P!Live
           /\ status[P!Root] # "running" \/ P!Unwalked(h)
           /\ UNCHANGED <<stage, relay, beat, panel, crossed, lost>>
<1>0. status \in [P!Jobs -> {"none"} \cup P!Live \cup Ends] /\ "none" \notin P!Live /\ "cancelled" \notin P!Live /\ "cancelled" \in Ends
  BY DEF PanelTypes, P!Live, Ends
<1>1. relay[h].pc = "post" /\ P!Unwalked(h)
      /\ status' = [k \in P!Jobs |-> IF k \in P!Kids /\ status[k] \in P!Live THEN "cancelled" ELSE status[k]]
      /\ cascaded' = cascaded \cup {k \in P!Kids : status[k] \in P!Live}
      /\ UNCHANGED <<stage, relay, beat, panel, crossed, lost>>
  BY DEF P!Walk, P!Jobs
<1>2. \A k \in P!Jobs : status'[k] = IF k \in P!Kids /\ status[k] \in P!Live THEN "cancelled" ELSE status[k]
  BY <1>1
<1>3. P!Kids' = P!Kids
  BY <1>0, <1>2 DEF P!Kids
<1>4. status'[P!Root] = status[P!Root]
  BY <1>2, RootIs
<1>5. status' \in [P!Jobs -> {"none"} \cup P!Live \cup Ends]
  BY <1>0, <1>1
<1> QED BY <1>0, <1>1, <1>2, <1>3, <1>4, <1>5, RestIs, RootIs

LEMMA ConnectIs ==
    ASSUME PanelTypes, NEW p \in Panels, P!Connect(p)
    PROVE  /\ panel' \in [Panels -> PanelStates] /\ ~panel[p].on
           /\ \A q \in Panels : q # p => panel'[q] = panel[q]
           /\ panel'[p].on /\ panel'[p].greeting /\ panel'[p].late = P!Ended /\ panel'[p].count = P!Count
           /\ panel'[p].shows = "unknown" /\ panel'[p].told = {}
           /\ crossed' = (crossed \/ ~P!Calm)
           /\ UNCHANGED <<status, stage, relay, beat, cascaded, lost>>
<1> DEFINE new == [P!Off EXCEPT !.on = TRUE, !.greeting = TRUE, !.late = P!Ended, !.count = P!Count]
<1>0. panel \in [Panels -> PanelStates] /\ P!Count \in {0, 1} /\ P!Ended \in BOOLEAN
  BY DEF PanelTypes, P!Count, P!Ended
<1>1. /\ new \in PanelStates /\ new.on /\ new.greeting /\ new.late = P!Ended /\ new.count = P!Count
      /\ new.shows = "unknown" /\ new.told = {}
  BY <1>0 DEF P!Off, PanelStates
<1>2. panel' = [panel EXCEPT ![p] = new]
  BY DEF P!Connect
<1> HIDE DEF new
<1>3. panel' \in [Panels -> PanelStates] /\ panel'[p] = new /\ \A q \in Panels : q # p => panel'[q] = panel[q]
  BY <1>0, <1>1, <1>2
<1> QED BY <1>1, <1>3 DEF P!Connect

LEMMA GreetIs ==
    ASSUME PanelTypes, NEW p \in Panels, P!Greet(p)
    PROVE  /\ panel' \in [Panels -> PanelStates] /\ panel[p].greeting
           /\ \A q \in Panels : q # p => panel'[q] = panel[q]
           /\ panel'[p].on = panel[p].on /\ panel'[p].late = panel[p].late /\ panel'[p].shows = panel[p].shows
           /\ panel'[p].told = panel[p].told /\ ~panel'[p].greeting /\ panel'[p].badge = panel[p].count
           /\ UNCHANGED <<status, stage, relay, beat, cascaded, crossed, lost>>
<1> DEFINE new == [panel[p] EXCEPT !.greeting = FALSE, !.badge = panel[p].count]
<1>0. panel \in [Panels -> PanelStates]
  BY DEF PanelTypes
<1>1. /\ new \in PanelStates /\ new.on = panel[p].on /\ ~new.greeting /\ new.late = panel[p].late
      /\ new.badge = panel[p].count /\ new.shows = panel[p].shows /\ new.told = panel[p].told
  BY <1>0 DEF PanelStates
<1>2. panel' = [panel EXCEPT ![p] = new]
  BY <1>0 DEF P!Greet, PanelStates
<1> HIDE DEF new
<1>3. panel' \in [Panels -> PanelStates] /\ panel'[p] = new /\ \A q \in Panels : q # p => panel'[q] = panel[q]
  BY <1>0, <1>1, <1>2
<1> QED BY <1>1, <1>3 DEF P!Greet

LEMMA OffIs == P!Off \in PanelStates /\ ~P!Off.on /\ ~P!Off.greeting /\ P!Off.told = {} /\ P!Off.shows = "unknown"
BY DEF P!Off, PanelStates

LEMMA DisconnectIs ==
    ASSUME PanelTypes, NEW p \in Panels, P!Disconnect(p)
    PROVE  /\ panel' \in [Panels -> PanelStates] /\ panel'[p] = P!Off
           /\ \A q \in Panels : q # p => panel'[q] = panel[q]
           /\ UNCHANGED <<status, stage, relay, beat, cascaded, crossed, lost>>
<1>0. panel \in [Panels -> PanelStates]
  BY DEF PanelTypes
<1>1. panel' = [panel EXCEPT ![p] = P!Off]
  BY DEF P!Disconnect
<1>2. panel' \in [Panels -> PanelStates] /\ panel'[p] = P!Off /\ \A q \in Panels : q # p => panel'[q] = panel[q]
  BY <1>0, <1>1, OffIs
<1> QED BY <1>2 DEF P!Disconnect

\* An eviction: where all was at rest nothing of it is lost.
LEMMA EvictIs ==
    ASSUME PanelTypes, P!Evict
    PROVE  /\ stage' = {} /\ relay' = [h \in Relays |-> P!Rest] /\ beat' = P!NoBeat
           /\ panel' \in [Panels -> PanelStates]
           /\ \A p \in Panels : panel'[p] = panel[p] \/ panel'[p] = P!Off
           /\ ~lost' => P!Calm /\ \A p \in Panels : panel'[p] = panel[p]
           /\ lost' \in BOOLEAN
           /\ UNCHANGED <<status, cascaded, crossed>>
<1>0. panel \in [Panels -> PanelStates]
  BY DEF PanelTypes
<1>1. panel' = [p \in Panels |-> IF panel[p].greeting THEN P!Off ELSE panel[p]]
  BY DEF P!Evict
<1>2. panel' \in [Panels -> PanelStates]
  BY <1>0, <1>1, OffIs
<1>3. lost' = ~P!Calm
  BY DEF P!Evict
<1>4. P!Calm => \A p \in Panels : panel'[p] = panel[p]
  BY <1>1 DEF P!Calm
<1> QED BY <1>1, <1>2, <1>3, <1>4 DEF P!Evict

LEMMA BreakIs ==
    ASSUME PanelTypes, NEW h \in Relays, P!BreakOff(h)
    PROVE  /\ relay' = [relay EXCEPT ![h] = P!Rest] /\ relay'[h] = P!Rest
           /\ \A g \in Relays : g # h => relay'[g] = relay[g]
           /\ lost' /\ UNCHANGED <<status, stage, beat, panel, cascaded, crossed>>
<1>1. relay' = [relay EXCEPT ![h] = P!Rest]
  BY DEF P!BreakOff, P!Step
<1>2. relay'[h] = P!Rest /\ \A g \in Relays : g # h => relay'[g] = relay[g]
  BY <1>1, RelayGoes
<1> QED BY <1>1, <1>2 DEF P!BreakOff

----------------------------------------------------------------------------
(* The invariant of the panels, step by step. *)

Moving == \/ \E j \in P!Jobs : P!Claim(j)
          \/ \E h \in Relays, j \in P!Jobs : Sent(h, j)
Relaying(h) == P!Walk(h) \/ P!Look(h) \/ P!Post(h) \/ P!CountQueue(h) \/ P!Badge(h) \/ P!BreakOff(h)

\* A panel's socket, a heartbeat or an eviction leaves the family and the handlers.
Beside == P!BeatSet \/ P!Evict \/ (\E j \in P!Jobs : P!BeatRead(j)) \/ (\E p \in Panels : P!Connect(p) \/ P!Greet(p) \/ P!Disconnect(p))

LEMMA NextIs == P!Next <=> Moving \/ (\E h \in Relays : Relaying(h)) \/ Beside
BY DEF P!Next, Moving, Relaying, Beside, Sent

LEMMA BesideIs ==
    ASSUME PanelTypes, Beside
    PROVE  UNCHANGED <<status, cascaded>> /\ P!Kids' = P!Kids /\ P!Ended' = P!Ended /\ Final' = Final /\ P!Count' = P!Count
<1>1. UNCHANGED <<status, cascaded>>
  BY DEF Beside, P!BeatSet, P!Evict, P!BeatRead, P!Connect, P!Greet, P!Disconnect
<1> QED BY <1>1 DEF P!Kids, P!Ended, Final, P!Count

LEMMA BeatSetIs ==
    ASSUME PanelTypes, P!BeatSet
    PROVE  /\ beat # P!NoBeat /\ beat.job \in P!Jobs /\ stage' \subseteq stage \cup {beat.job} /\ beat' = P!NoBeat
           /\ UNCHANGED <<status, relay, panel, cascaded, crossed, lost>>
BY RestIs DEF P!BeatSet, PanelTypes

LEMMA BeatReadIs ==
    ASSUME PanelTypes, NEW j \in P!Jobs, P!BeatRead(j)
    PROVE  /\ beat' = [pc |-> "set", job |-> j] /\ beat'.job = j /\ status[j] \in P!Held /\ (j = P!Root => P!Kids = {})
           /\ crossed' = (crossed \/ ~P!Calm)
           /\ UNCHANGED <<status, stage, relay, panel, cascaded, lost>>
BY RootIs DEF P!BeatRead, P!Dispatched

\* A move of the job or of one child, as its handler or the scheduler makes it.
LEMMA MovingIs ==
    ASSUME PanelTypes, Moving
    PROVE  \E j \in P!Jobs, s \in P!Live \cup Ends :
              /\ P!Moves(j, s) /\ status[j] \in P!Live
              /\ j = P!Root /\ P!Kids # {} => s = "cancelled"
              /\ \/ s = "assigned" /\ UNCHANGED relay
                 \/ \E h \in Relays, kind \in {"running", "requeued", "done", "failed", "cancelled"} :
                       P!Relayed(h, kind, j, s) /\ Brings(kind, s)
              /\ crossed' = (crossed \/ ~P!Calm)
              /\ UNCHANGED <<stage, beat, panel, lost>>
<1> DEFINE Is(j, s) ==
              /\ P!Moves(j, s) /\ status[j] \in P!Live
              /\ j = P!Root /\ P!Kids # {} => s = "cancelled"
              /\ \/ s = "assigned" /\ UNCHANGED relay
                 \/ \E h \in Relays, kind \in {"running", "requeued", "done", "failed", "cancelled"} :
                       P!Relayed(h, kind, j, s) /\ Brings(kind, s)
              /\ crossed' = (crossed \/ ~P!Calm)
              /\ UNCHANGED <<stage, beat, panel, lost>>
<1>0. "assigned" \in P!Live \cup Ends
  BY DEF P!Live
<1>1. ASSUME NEW j \in P!Jobs, P!Claim(j) PROVE Is(j, "assigned")
  BY <1>1, ClaimIs
<1>2. ASSUME NEW h \in Relays, NEW j \in P!Jobs, Sent(h, j) PROVE \E s \in P!Live \cup Ends : Is(j, s)
  <2>1. PICK kind \in {"running", "requeued", "done", "failed", "cancelled"}, s \in P!Live \cup Ends :
            /\ P!Relayed(h, kind, j, s) /\ Brings(kind, s) /\ status[j] \in P!Live
            /\ j = P!Root /\ P!Kids # {} => s = "cancelled"
    BY <1>2, SentIs
  <2>2. Is(j, s)
    BY <2>1, RelayedIs
  <2> QED BY <2>2
<1> HIDE DEF Is
<1>3. \E j \in P!Jobs, s \in P!Live \cup Ends : Is(j, s)
  BY <1>0, <1>1, <1>2 DEF Moving
<1> QED BY <1>3 DEF Is

\* Handlers and panels where nobody is at work.
LEMMA CalmIs == ASSUME P!Calm, NEW h \in Relays PROVE relay[h] = P!Rest /\ relay[h].pc = "rest"
BY RestIs DEF P!Calm

\* Once ended, the job stays as it ended.
LEMMA EndStays ==
    ASSUME PanelTypes, FamilyShape, P!Next, P!Ended
    PROVE  status'[P!Root] = status[P!Root] /\ P!Ended' /\ Final' = Final
<1>1. status'[P!Root] = status[P!Root]
  <2>1. CASE Moving
    <3>1. PICK j \in P!Jobs, s \in P!Live \cup Ends : P!Moves(j, s) /\ status[j] \in P!Live
                                                 /\ (j = P!Root /\ P!Kids # {} => s = "cancelled")
      BY <2>1, MovingIs
    <3> QED BY <3>1, MoveIs
  <2>2. ASSUME NEW h \in Relays, Relaying(h) PROVE status'[P!Root] = status[P!Root]
    BY <2>2, WalkIs DEF Relaying, P!Look, P!Post, P!CountQueue, P!Badge, P!BreakOff
  <2>3. CASE Beside
    BY <2>3, BesideIs
  <2> QED BY <2>1, <2>2, <2>3, NextIs
<1> QED BY <1>1 DEF P!Ended, Final

LEMMA PanelTypesStep ==
    ASSUME PanelTypes, FamilyShape, P!Next
    PROVE  PanelTypes'
<1> DEFINE StatusTyped == status' \in [P!Jobs -> {"none"} \cup P!Live \cup Ends] /\ status'[P!Root] # "none"
           RelaysOK == relay' \in [Relays -> RelayStates] /\ \A h \in Relays : relay'[h].pc = "rest" => relay'[h] = P!Rest
           BeatOK == beat' \in [pc: {"rest", "set"}, job: P!Jobs]
           PanelsOK == panel' \in [Panels -> PanelStates]
           FlagsOK == lost' \in BOOLEAN /\ crossed' \in BOOLEAN
<1>0. /\ status \in [P!Jobs -> {"none"} \cup P!Live \cup Ends] /\ status[P!Root] # "none" /\ stage \subseteq P!Jobs
      /\ relay \in [Relays -> RelayStates] /\ \A h \in Relays : relay[h].pc = "rest" => relay[h] = P!Rest
      /\ beat \in [pc: {"rest", "set"}, job: P!Jobs] /\ panel \in [Panels -> PanelStates]
      /\ lost \in BOOLEAN /\ crossed \in BOOLEAN
  BY DEF PanelTypes
<1>1. /\ UNCHANGED status => StatusTyped
      /\ UNCHANGED relay => RelaysOK
      /\ UNCHANGED beat => BeatOK
      /\ UNCHANGED panel => PanelsOK
      /\ UNCHANGED <<crossed, lost>> => FlagsOK
  BY <1>0
<1>2. ASSUME NEW h \in Relays, NEW r \in RelayStates, relay' = [relay EXCEPT ![h] = r], r.pc = "rest" => r = P!Rest
      PROVE  RelaysOK
  <2>1. relay'[h] = r /\ \A g \in Relays : g # h => relay'[g] = relay[g]
    BY <1>2, RelayGoes
  <2> QED BY <1>0, <1>2, <2>1
<1>3. StatusTyped
  <2>1. CASE Moving
    <3>1. PICK j \in P!Jobs, s \in P!Live \cup Ends : P!Moves(j, s) /\ status[j] \in P!Live
                                                 /\ (j = P!Root /\ P!Kids # {} => s = "cancelled")
      BY <2>1, MovingIs
    <3> QED BY <3>1, MoveIs
  <2>2. ASSUME NEW h \in Relays, Relaying(h) PROVE StatusTyped
    BY <1>0, <1>1, <2>2, WalkIs DEF Relaying, P!Look, P!Post, P!CountQueue, P!Badge, P!BreakOff
  <2>3. CASE Beside
    BY <1>1, <2>3, BesideIs
  <2> QED BY <2>1, <2>2, <2>3, NextIs
<1>4. RelaysOK
  <2> HIDE DEF RelaysOK
  <2>1. ASSUME NEW h \in Relays, NEW kind \in {"running", "requeued", "done", "failed", "cancelled"}, NEW j \in P!Jobs, NEW s,
               P!Relayed(h, kind, j, s)
        PROVE  RelaysOK
    <3>1. relay' = [relay EXCEPT ![h] = relay'[h]]
          /\ relay'[h] \in [pc: {"look"}, kind: {kind}, job: {j}, frame: {"none"}, count: {0}]
      BY <2>1, RelayedIs
    <3>2. relay'[h] \in RelayStates /\ relay'[h].pc # "rest"
      BY <3>1 DEF RelayStates
    <3> QED BY <1>2, <3>1, <3>2
  <2>2. CASE Moving
    BY <1>1, <2>1, <2>2, MovingIs
  <2>3. ASSUME NEW h \in Relays, Relaying(h) PROVE RelaysOK
    <3>0. relay[h] \in RelayStates
      BY <1>0
    <3>1. CASE P!Walk(h)
      BY <1>1, <3>1 DEF P!Walk
    <3>2. CASE P!Look(h)
      <4>1. relay' = [relay EXCEPT ![h] = relay'[h]]
            /\ relay'[h] \in [pc: {"post"}, kind: {relay[h].kind}, job: {relay[h].job},
                              frame: {P!Frame(relay[h].kind, relay[h].job)}, count: {relay[h].count}]
        BY <3>2, LookIs
      <4>2. P!Frame(relay[h].kind, relay[h].job) \in {"none", "executing", "error", "done", "idle"}
        <5> DEFINE k == relay[h].kind
                   i == relay[h].job
        <5> HIDE DEF k, i
        <5>1. P!Frame(k, i) \in {"none", "executing", "error", "done", "idle"}
          BY DEF P!Frame
        <5> QED BY <5>1 DEF k, i
      <4>3. relay'[h] \in RelayStates /\ relay'[h].pc # "rest"
        BY <3>0, <4>1, <4>2 DEF RelayStates
      <4> QED BY <1>2, <4>1, <4>3
    <3>3. CASE P!Post(h)
      <4>1. relay' = [relay EXCEPT ![h] = relay'[h]]
            /\ \/ relay'[h] = P!Rest
               \/ relay'[h] \in [pc: {"count"}, kind: {relay[h].kind}, job: {relay[h].job}, frame: {relay[h].frame},
                                 count: {relay[h].count}]
        BY <3>3, PostIs
      <4>2. relay'[h] = P!Rest \/ (relay'[h] \in RelayStates /\ relay'[h].pc # "rest")
        BY <3>0, <4>1 DEF RelayStates
      <4> QED BY <1>2, <4>1, <4>2, RestIs
    <3>4. CASE P!CountQueue(h)
      <4>1. relay' = [relay EXCEPT ![h] = relay'[h]]
            /\ relay'[h] \in [pc: {"badge"}, kind: {relay[h].kind}, job: {relay[h].job}, frame: {relay[h].frame},
                              count: {P!Count}]
        BY <3>4, CountIs
      <4>2. relay'[h] \in RelayStates /\ relay'[h].pc # "rest"
        BY <3>0, <4>1 DEF RelayStates, P!Count
      <4> QED BY <1>2, <4>1, <4>2
    <3>5. CASE P!Badge(h) \/ P!BreakOff(h)
      <4>1. relay' = [relay EXCEPT ![h] = P!Rest]
        BY <3>5, BadgeIs, BreakIs
      <4> QED BY <1>2, <4>1, RestIs
    <3> QED BY <2>3, <3>1, <3>2, <3>3, <3>4, <3>5 DEF Relaying
  <2>4. CASE P!Evict
    <3>1. relay' = [h \in Relays |-> P!Rest]
      BY <2>4, EvictIs
    <3> QED BY <3>1, RestIs DEF RelaysOK
  <2>5. CASE Beside /\ ~P!Evict
    BY <1>1, <2>5 DEF Beside, P!BeatSet, P!BeatRead, P!Connect, P!Greet, P!Disconnect
  <2> QED BY <2>2, <2>3, <2>4, <2>5, NextIs
<1>5. stage' \subseteq P!Jobs /\ BeatOK
  <2>1. CASE Moving
    BY <1>0, <1>1, <2>1, MovingIs
  <2>2. ASSUME NEW h \in Relays, Relaying(h) PROVE stage' \subseteq P!Jobs /\ BeatOK
    BY <1>0, <1>1, <2>2, LookIs DEF Relaying, P!Walk, P!Post, P!CountQueue, P!Badge, P!BreakOff
  <2>3. ASSUME NEW j \in P!Jobs, P!BeatRead(j) PROVE stage' \subseteq P!Jobs /\ BeatOK
    BY <1>0, <2>3, BeatReadIs
  <2>4. CASE P!BeatSet \/ P!Evict
    BY <1>0, <2>4, BeatSetIs, EvictIs, RestIs
  <2>5. ASSUME NEW p \in Panels, P!Connect(p) \/ P!Greet(p) \/ P!Disconnect(p) PROVE stage' \subseteq P!Jobs /\ BeatOK
    BY <1>0, <1>1, <2>5 DEF P!Connect, P!Greet, P!Disconnect
  <2> HIDE DEF BeatOK
  <2> QED BY <2>1, <2>2, <2>3, <2>4, <2>5, NextIs DEF Beside
<1>6. PanelsOK
  <2>1. CASE Moving
    BY <1>1, <2>1, MovingIs
  <2>2. ASSUME NEW h \in Relays, P!Post(h) PROVE PanelsOK
    <3>1. \A p \in Panels : panel'[p] \in PanelStates
      BY <2>2, PostShows
    <3>2. panel' = [p \in Panels |-> panel'[p]]
      BY <2>2 DEF P!Post
    <3> QED BY <3>1, <3>2
  <2>3. ASSUME NEW h \in Relays, P!Badge(h) PROVE PanelsOK
    <3>1. \A p \in Panels : panel'[p] \in PanelStates
      BY <2>3, BadgeIs
    <3>2. panel' = [p \in Panels |-> panel'[p]]
      BY <2>3 DEF P!Badge
    <3> QED BY <3>1, <3>2
  <2>4. ASSUME NEW h \in Relays, P!Walk(h) \/ P!Look(h) \/ P!CountQueue(h) \/ P!BreakOff(h) PROVE PanelsOK
    BY <1>1, <2>4 DEF P!Walk, P!Look, P!CountQueue, P!BreakOff
  <2>5. CASE Beside
    BY <1>1, <2>5, EvictIs, ConnectIs, GreetIs, DisconnectIs DEF Beside, P!BeatSet, P!BeatRead
  <2> HIDE DEF PanelsOK
  <2> QED BY <2>1, <2>2, <2>3, <2>4, <2>5, NextIs DEF Relaying
<1>7. FlagsOK
  <2>1. CASE Moving
    BY <1>0, <2>1, MovingIs DEF P!Calm
  <2>2. ASSUME NEW h \in Relays, Relaying(h) PROVE FlagsOK
    BY <1>0, <1>1, <2>2 DEF Relaying, P!Walk, P!Look, P!Post, P!CountQueue, P!Badge, P!BreakOff
  <2>3. CASE Beside
    BY <1>0, <1>1, <2>3, EvictIs DEF Beside, P!BeatSet, P!BeatRead, P!Connect, P!Greet, P!Disconnect, P!Calm
  <2> QED BY <2>1, <2>2, <2>3, NextIs
<1> QED BY <1>3, <1>4, <1>5, <1>6, <1>7 DEF PanelTypes

LEMMA FamilyShapeStep ==
    ASSUME PanelTypes, FamilyShape, DoneTold, P!Next
    PROVE  FamilyShape'
<1>1. CASE Moving
  <2>1. PICK j \in P!Jobs, s \in P!Live \cup Ends : P!Moves(j, s) /\ status[j] \in P!Live
                                               /\ (j = P!Root /\ P!Kids # {} => s = "cancelled")
    BY <1>1, MovingIs
  <2> QED BY <2>1, MoveIs
<1>2. ASSUME UNCHANGED status PROVE FamilyShape'
  BY <1>2 DEF FamilyShape, P!Ended, P!Kids, P!Derived
<1>3. ASSUME NEW h \in Relays, P!Walk(h) PROVE FamilyShape'
  <2>1. CASE P!Ended
    BY <1>3, <2>1, WalkIs DEF FamilyShape, P!Ended
  <2>2. CASE ~P!Ended
    <3>1. P!Unwalked(h)
      BY <1>3 DEF P!Walk
    <3> QED BY <2>2, <3>1 DEF DoneTold, P!Unwalked
  <2> QED BY <2>1, <2>2
<1>4. ASSUME NEW h \in Relays, P!Look(h) \/ P!Post(h) \/ P!CountQueue(h) \/ P!Badge(h) \/ P!BreakOff(h) PROVE FamilyShape'
  BY <1>2, <1>4 DEF P!Look, P!Post, P!CountQueue, P!Badge, P!BreakOff
<1>5. CASE Beside
  BY <1>2, <1>5, BesideIs
<1> QED BY <1>1, <1>3, <1>4, <1>5, NextIs DEF Relaying

LEMMA DoneToldStep ==
    ASSUME PanelTypes, FamilyShape, DoneTold, P!Next
    PROVE  DoneTold'
<1> DEFINE PanelsOK == \A p \in Panels : "done" \in panel'[p].told => status'[P!Root] = "done"
           ToldOK(h) == /\ relay'[h].frame = "done" => status'[P!Root] = "done"
                        /\ relay'[h].kind = "done" /\ relay'[h].job = P!Root => status'[P!Root] = "done"
                        /\ relay'[h].kind = "cancelled" /\ relay'[h].job = P!Root => P!Ended'
<1>0. /\ \A p \in Panels : "done" \in panel[p].told => status[P!Root] = "done"
      /\ \A h \in Relays : /\ relay[h].frame = "done" => status[P!Root] = "done"
                           /\ relay[h].kind = "done" /\ relay[h].job = P!Root => status[P!Root] = "done"
                           /\ relay[h].kind = "cancelled" /\ relay[h].job = P!Root => P!Ended
  BY DEF DoneTold, P!DoneWhenDone
<1>1. (status[P!Root] = "done" => status'[P!Root] = "done") /\ (P!Ended => P!Ended')
  BY EndStays DEF P!Ended, P!Live
<1>2. (\A p \in Panels : panel'[p] = panel[p]) => PanelsOK
  BY <1>0, <1>1
<1>3. ASSUME NEW h \in Relays, relay'[h] = relay[h] PROVE ToldOK(h)
  BY <1>0, <1>1, <1>3
<1>4. PanelsOK
  <2>1. ASSUME NEW h \in Relays, P!Post(h), NEW p \in Panels, "done" \in panel'[p].told PROVE status'[P!Root] = "done"
    BY <1>0, <1>1, <2>1, PostShows
  <2>2. ASSUME NEW h \in Relays, P!Badge(h), NEW p \in Panels, "done" \in panel'[p].told PROVE status'[P!Root] = "done"
    BY <1>0, <1>1, <2>2, BadgeIs
  <2>3. ASSUME NEW q \in Panels, P!Connect(q) \/ P!Greet(q) \/ P!Disconnect(q), NEW p \in Panels, "done" \in panel'[p].told
        PROVE  status'[P!Root] = "done"
    BY <1>0, <1>1, <2>3, ConnectIs, GreetIs, DisconnectIs, OffIs
  <2>4. ASSUME P!Evict, NEW p \in Panels, "done" \in panel'[p].told PROVE status'[P!Root] = "done"
    BY <1>0, <1>1, <2>4, EvictIs, OffIs
  <2>5. CASE Moving
    BY <1>2, <2>5, MovingIs
  <2>6. ASSUME NEW h \in Relays, P!Walk(h) \/ P!Look(h) \/ P!CountQueue(h) \/ P!BreakOff(h) PROVE PanelsOK
    BY <1>2, <2>6 DEF P!Walk, P!Look, P!CountQueue, P!BreakOff
  <2>7. CASE P!BeatSet \/ \E j \in P!Jobs : P!BeatRead(j)
    BY <1>2, <2>7 DEF P!BeatSet, P!BeatRead
  <2>8. (\E h \in Relays : P!Post(h) \/ P!Badge(h)) => PanelsOK
    BY <2>1, <2>2
  <2>9. P!Evict \/ (\E p \in Panels : P!Connect(p) \/ P!Greet(p) \/ P!Disconnect(p)) => PanelsOK
    BY <2>3, <2>4
  <2> HIDE DEF PanelsOK
  <2> QED BY <2>5, <2>6, <2>7, <2>8, <2>9, NextIs DEF Relaying, Beside
<1>5. ASSUME NEW g \in Relays PROVE ToldOK(g)
  <2> HIDE DEF ToldOK
  <2>1. ASSUME NEW h \in Relays, NEW kind \in {"running", "requeued", "done", "failed", "cancelled"}, NEW j \in P!Jobs,
               NEW s \in P!Live \cup Ends, P!Relayed(h, kind, j, s), Brings(kind, s), status[j] \in P!Live,
               j = P!Root /\ P!Kids # {} => s = "cancelled"
        PROVE  ToldOK(g)
    <3>1. CASE g # h
      BY <1>3, <2>1, <3>1, RelayedIs
    <3>2. CASE g = h
      <4>1. relay'[g].frame = "none" /\ relay'[g].kind = kind /\ relay'[g].job = j
        BY <2>1, <3>2, RelayedIs
      <4>2. status'[j] = s
        BY <2>1, RelayedIs, MoveIs
      <4>3. kind \in {"done", "cancelled"} => s = kind
        BY <2>1 DEF Brings
      <4> QED BY <4>1, <4>2, <4>3 DEF ToldOK, P!Ended, P!Live
    <3> QED BY <3>1, <3>2
  <2>2. CASE Moving
    BY <1>3, <2>1, <2>2, MovingIs
  <2>3. ASSUME NEW h \in Relays, P!Look(h) PROVE ToldOK(g)
    <3>1. CASE g # h
      BY <1>3, <2>3, <3>1, LookIs
    <3>2. CASE g = h
      <4>1. /\ relay'[g].frame = P!Frame(relay[h].kind, relay[h].job)
            /\ relay'[g].kind = relay[g].kind /\ relay'[g].job = relay[g].job
            /\ status' = status
        BY <2>3, <3>2, LookIs
      <4>2. P!Frame(relay[h].kind, relay[h].job) = "done" => status[P!Root] = "done"
        <5> DEFINE k == relay[h].kind
                   i == relay[h].job
        <5>0. k = "done" /\ i = P!Root => status[P!Root] = "done"
          BY <1>0
        <5>a. k \in {"none", "running", "requeued", "done", "failed", "cancelled"}
          BY DEF PanelTypes, RelayStates
        <5> HIDE DEF k, i
        <5>1. P!Frame(k, i) = "done" => status[P!Root] = "done"
          BY <5>0, <5>a DEF P!Frame
        <5> QED BY <5>1 DEF k, i
      <4> QED BY <1>0, <1>1, <4>1, <4>2 DEF ToldOK
    <3> QED BY <3>1, <3>2
  <2>4. ASSUME NEW h \in Relays, P!Post(h) \/ P!CountQueue(h) PROVE ToldOK(g)
    <3>1. CASE g # h
      BY <1>3, <2>4, <3>1, PostIs, CountIs
    <3>2. CASE g = h
      <4>1. relay'[g] = P!Rest \/ (relay'[g].frame = relay[g].frame /\ relay'[g].kind = relay[g].kind
                                   /\ relay'[g].job = relay[g].job)
        BY <2>4, <3>2, PostIs, CountIs
      <4> QED BY <1>0, <1>1, <4>1, RestIs DEF ToldOK
    <3> QED BY <3>1, <3>2
  <2>5. ASSUME NEW h \in Relays, P!Badge(h) \/ P!BreakOff(h) PROVE ToldOK(g)
    <3>1. relay'[g] = P!Rest \/ relay'[g] = relay[g]
      BY <2>5, BadgeIs, BreakIs
    <3> QED BY <1>3, <3>1, RestIs DEF ToldOK
  <2>6. ASSUME NEW h \in Relays, P!Walk(h) PROVE ToldOK(g)
    BY <1>3, <2>6, WalkIs
  <2>7. CASE P!Evict
    <3>1. relay'[g] = P!Rest
      BY <2>7, EvictIs
    <3> QED BY <3>1, RestIs DEF ToldOK
  <2>8. CASE Beside /\ ~P!Evict
    BY <1>3, <2>8 DEF Beside, P!BeatSet, P!BeatRead, P!Connect, P!Greet, P!Disconnect
  <2> QED BY <2>2, <2>3, <2>4, <2>5, <2>6, <2>7, <2>8, NextIs DEF Relaying
<1> QED BY <1>4, <1>5 DEF DoneTold, P!DoneWhenDone

LEMMA FinalIs == Final \in {"done", "error", "idle"}
BY DEF Final

LEMMA FrameSame ==
    ASSUME status'[P!Root] = status[P!Root], NEW kind, NEW j PROVE P!Frame(kind, j)' = P!Frame(kind, j)
BY DEF P!Frame

\* A panel that waited still waits, or is told.
LEMMA EndToldStep ==
    ASSUME PanelTypes, PanelTypes', FamilyShape, EndTold, P!Next
    PROVE  EndTold'
<1> SUFFICES ASSUME ~lost', P!Ended', NEW p \in Panels, panel'[p].on, ~panel'[p].late
             PROVE  Final' \in panel'[p].told \/ \E h \in Relays : Telling(h)'
  BY DEF EndTold
<1> DEFINE Waits == Final \in panel[p].told \/ \E h \in Relays : Telling(h)
           Goal == Final' \in panel'[p].told \/ \E h \in Relays : Telling(h)'
<1>1. P!Ended /\ ~lost /\ panel[p].on /\ ~panel[p].late => Waits
  BY DEF EndTold
<1>2. P!Ended => status'[P!Root] = status[P!Root] /\ Final' = Final
  BY EndStays
<1>3. ASSUME P!Ended, NEW h \in Relays, relay'[h] = relay[h], Telling(h) PROVE Telling(h)'
  BY <1>2, <1>3, FrameSame DEF Telling
<1> DEFINE Passes(h) == Telling(h) => relay'[h] = relay[h] \/ Final \in panel'[p].told \/ Telling(h)'
           Keeps == Final \in panel[p].told => Final \in panel'[p].told
<1>4. P!Ended /\ Waits /\ Keeps /\ (\A h \in Relays : Passes(h)) => Goal
  BY <1>2, <1>3
<1> SUFFICES Goal
  OBVIOUS
<1> HIDE DEF Waits, Goal
<1> DEFINE Shape(j, s) ==
              /\ P!Moves(j, s) /\ status[j] \in P!Live
              /\ j = P!Root /\ P!Kids # {} => s = "cancelled"
              /\ \/ s = "assigned" /\ UNCHANGED relay
                 \/ \E h \in Relays, kind \in {"running", "requeued", "done", "failed", "cancelled"} :
                       P!Relayed(h, kind, j, s) /\ Brings(kind, s)
              /\ UNCHANGED <<panel, lost>>
<1>5. ASSUME NEW j \in P!Jobs, NEW s \in P!Live \cup Ends, Shape(j, s)
      PROVE  Goal
  <2>1. ~lost /\ panel[p].on /\ ~panel[p].late
    BY <1>5
  <2>2. CASE P!Ended
    <3>1. Waits
      BY <1>1, <2>1, <2>2
    <3>2. \A h \in Relays : Telling(h) => relay'[h] = relay[h]
      <4>1. CASE UNCHANGED relay
        BY <4>1
      <4>2. ASSUME NEW g \in Relays, NEW kind \in {"running", "requeued", "done", "failed", "cancelled"},
                   P!Relayed(g, kind, j, s)
            PROVE  \A h \in Relays : Telling(h) => relay'[h] = relay[h]
        BY <4>2, RelayedIs, RestIs DEF Telling
      <4> QED BY <1>5, <4>1, <4>2
    <3> QED BY <1>4, <1>5, <2>2, <3>1, <3>2
  <2>3. CASE ~P!Ended
    <3>1. s \notin P!Live /\ status'[P!Root] = s /\ s \in Ends
      <4>1. s \notin P!Live
        BY <1>5, <2>3, MoveIs DEF P!Ended
      <4>2. s \in Ends
        BY <4>1
      <4>3. s # "done" => status'[P!Root] = s
        BY <1>5, <2>3, <4>2, MoveIs
      <4>4. s = "done" => status'[P!Root] \in P!Live \cup {"done"}
        BY <1>5, <2>3, MoveIs
      <4>5. status'[P!Root] \notin P!Live
        BY DEF P!Ended
      <4> QED BY <4>1, <4>2, <4>3, <4>4, <4>5
    <3>2. PICK h \in Relays, kind \in {"running", "requeued", "done", "failed", "cancelled"} :
              P!Relayed(h, kind, j, s) /\ Brings(kind, s)
      BY <1>5, <3>1 DEF P!Live
    <3>3. relay'[h].pc = "look" /\ relay'[h].kind = kind /\ relay'[h].job = j
      BY <3>2, RelayedIs
    <3>4. P!Frame(kind, j)' = Final'
      <4>1. /\ Brings(kind, s)
            /\ s \in {"done", "failed", "cancelled"}
        BY <3>1, <3>2 DEF Ends
      <4>2. kind = s
        BY <4>1 DEF Brings
      <4>3. CASE s = "done"
        BY <3>1, <4>2, <4>3 DEF P!Frame, Final
      <4>4. CASE s = "failed"
        BY <3>1, <4>2, <4>4 DEF P!Frame, Final
      <4>5. CASE s = "cancelled"
        BY <3>1, <4>2, <4>5 DEF P!Frame, Final
      <4> QED BY <4>1, <4>3, <4>4, <4>5
    <3>5. Telling(h)'
      BY <3>3, <3>4 DEF Telling
    <3> QED BY <3>5 DEF Goal
  <2> QED BY <2>2, <2>3
<1>6. CASE Moving
  <2>1. \E j \in P!Jobs, s \in P!Live \cup Ends : Shape(j, s)
    BY <1>6, MovingIs
  <2> HIDE DEF Shape
  <2> QED BY <1>5, <2>1
<1>7. ASSUME NEW h \in Relays, Relaying(h) PROVE Goal
  <2>0. status'[P!Root] = status[P!Root] /\ P!Ended
    <3>1. status'[P!Root] = status[P!Root]
      BY <1>7, WalkIs DEF Relaying, P!Look, P!Post, P!CountQueue, P!Badge, P!BreakOff
    <3> QED BY <3>1 DEF P!Ended
  <2>1. CASE P!Walk(h)
    BY <1>1, <1>4, <2>0, <2>1, WalkIs
  <2>2. CASE P!Look(h)
    <3>1. Waits
      BY <1>1, <2>0, <2>2, LookIs
    <3>2. Telling(h) => Telling(h)'
      <4> SUFFICES ASSUME Telling(h) PROVE Telling(h)'
        OBVIOUS
      <4>1. relay[h].pc = "look"
        BY <2>2, LookIs
      <4>2. P!Frame(relay[h].kind, relay[h].job) = Final
        BY <4>1 DEF Telling
      <4>3. relay'[h].pc = "post" /\ relay'[h].frame = P!Frame(relay[h].kind, relay[h].job)
        BY <2>2, LookIs
      <4> QED BY <1>2, <2>0, <4>2, <4>3 DEF Telling
    <3> QED BY <1>4, <2>0, <2>2, <3>1, <3>2, LookIs
  <2>3. CASE P!Post(h)
    <3>1. panel[p].on /\ ~panel[p].late /\ ~lost
      BY <2>3, PostShows, PostIs
    <3>2. Telling(h) => Final \in panel'[p].told
      <4> SUFFICES ASSUME Telling(h) PROVE Final \in panel'[p].told
        OBVIOUS
      <4>1. relay[h].frame = Final
        BY <2>3, PostIs DEF Telling
      <4>2. relay[h].frame # "none"
        BY <4>1, FinalIs
      <4> QED BY <2>3, <3>1, <4>1, <4>2, PostShows
    <3>3. panel[p].told \subseteq panel'[p].told
      BY <2>3, PostShows
    <3>4. \A g \in Relays : g # h => relay'[g] = relay[g]
      BY <2>3, PostIs
    <3> QED BY <1>1, <1>4, <2>0, <3>1, <3>2, <3>3, <3>4
  <2>4. CASE P!CountQueue(h)
    <3>1. ~Telling(h) /\ Waits
      BY <1>1, <2>0, <2>4, CountIs DEF Telling
    <3> QED BY <1>4, <2>0, <2>4, <3>1, CountIs
  <2>5. CASE P!Badge(h)
    <3>1. ~Telling(h) /\ Waits
      BY <1>1, <2>0, <2>5, BadgeIs DEF Telling
    <3> QED BY <1>4, <2>0, <2>5, <3>1, BadgeIs
  <2>6. ~P!BreakOff(h)
    BY BreakIs
  <2> QED BY <1>7, <2>1, <2>2, <2>3, <2>4, <2>5, <2>6 DEF Relaying
<1>8. CASE Beside
  <2>0. status' = status /\ P!Ended
    BY <1>8, BesideIs
  <2>1. CASE P!BeatSet \/ \E j \in P!Jobs : P!BeatRead(j)
    <3>1. UNCHANGED <<relay, panel, lost>>
      BY <2>1 DEF P!BeatSet, P!BeatRead
    <3>2. Waits /\ Keeps /\ \A h \in Relays : Passes(h)
      BY <1>1, <2>0, <3>1
    <3> QED BY <1>4, <2>0, <3>2
  <2>2. CASE P!Evict
    <3>1. P!Calm /\ panel'[p] = panel[p]
      BY <2>2, EvictIs
    <3>2. ~lost
      BY <2>2 DEF P!Evict
    <3>3. \A h \in Relays : ~Telling(h)
      BY <3>1, CalmIs DEF Telling
    <3>4. Waits /\ Keeps /\ \A h \in Relays : Passes(h)
      BY <1>1, <2>0, <3>1, <3>2, <3>3
    <3> QED BY <1>4, <2>0, <3>4
  <2>3. ASSUME NEW q \in Panels, P!Connect(q) \/ P!Greet(q) \/ P!Disconnect(q) PROVE Goal
    <3>1. UNCHANGED <<relay, lost>>
      BY <2>3 DEF P!Connect, P!Greet, P!Disconnect
    <3>2. panel[p].on /\ ~panel[p].late /\ panel'[p].told = panel[p].told
      BY <2>0, <2>3, ConnectIs, GreetIs, DisconnectIs, OffIs
    <3> QED BY <1>1, <1>4, <2>0, <3>1, <3>2
  <2> HIDE DEF Passes, Keeps
  <2> QED BY <1>8, <2>1, <2>2, <2>3 DEF Beside
<1> QED BY <1>6, <1>7, <1>8, NextIs

LEMMA OneAtATimeStep ==
    ASSUME PanelTypes, OneAtATime, P!Next
    PROVE  OneAtATime'
<1> SUFFICES ASSUME ~crossed'
             PROVE  /\ \A g, h \in Relays : relay'[g] # P!Rest /\ relay'[h] # P!Rest => g = h
                    /\ \A h \in Relays : relay'[h] # P!Rest => beat' = P!NoBeat /\ \A p \in Panels : ~panel'[p].greeting
                    /\ beat' # P!NoBeat => \A p \in Panels : ~panel'[p].greeting
                    /\ \A p, q \in Panels : panel'[p].greeting /\ panel'[q].greeting => p = q
  BY DEF OneAtATime
<1> DEFINE Goal == /\ \A g, h \in Relays : relay'[g] # P!Rest /\ relay'[h] # P!Rest => g = h
                   /\ \A h \in Relays : relay'[h] # P!Rest => beat' = P!NoBeat /\ \A p \in Panels : ~panel'[p].greeting
                   /\ beat' # P!NoBeat => \A p \in Panels : ~panel'[p].greeting
                   /\ \A p, q \in Panels : panel'[p].greeting /\ panel'[q].greeting => p = q
\* A step that starts nothing.
<1> DEFINE NoneStarts == /\ \A h \in Relays : relay'[h] # P!Rest => relay[h] # P!Rest
                         /\ beat' # P!NoBeat => beat # P!NoBeat
                         /\ \A p \in Panels : panel'[p].greeting => panel[p].greeting
<1>1. ~crossed /\ NoneStarts => Goal
  BY DEF OneAtATime
<1>2. P!Calm => /\ \A h \in Relays : relay[h] = P!Rest
                /\ beat = P!NoBeat
                /\ \A p \in Panels : ~panel[p].greeting
  BY DEF P!Calm
<1> SUFFICES Goal
  OBVIOUS
<1> HIDE DEF Goal, NoneStarts
<1>3. CASE Moving
  <2>1. PICK j \in P!Jobs, s \in P!Live \cup Ends :
            /\ \/ s = "assigned" /\ UNCHANGED relay
               \/ \E h \in Relays, kind \in {"running", "requeued", "done", "failed", "cancelled"} :
                     P!Relayed(h, kind, j, s) /\ Brings(kind, s)
            /\ crossed' = (crossed \/ ~P!Calm)
            /\ UNCHANGED <<beat, panel>>
    BY <1>3, MovingIs
  <2>2. ~crossed /\ P!Calm
    BY <2>1
  <2>3. CASE UNCHANGED relay
    BY <1>1, <2>1, <2>2, <2>3 DEF NoneStarts
  <2>4. ASSUME NEW h \in Relays, NEW kind \in {"running", "requeued", "done", "failed", "cancelled"}, P!Relayed(h, kind, j, s)
        PROVE  Goal
    <3>1. \A g \in Relays : relay'[g] # P!Rest => g = h
      BY <1>2, <2>2, <2>4, RelayedIs
    <3> QED BY <1>2, <2>1, <2>2, <3>1 DEF Goal
  <2> QED BY <2>1, <2>3, <2>4
<1>4. ASSUME NEW h \in Relays, Relaying(h) PROVE Goal
  <2>1. UNCHANGED <<beat, crossed>>
    BY <1>4 DEF Relaying, P!Walk, P!Look, P!Post, P!CountQueue, P!Badge, P!BreakOff
  <2>2. relay[h] # P!Rest /\ \A g \in Relays : g # h => relay'[g] = relay[g]
    BY <1>4, WalkIs, LookIs, PostIs, CountIs, BadgeIs, BreakIs, ZenonT(40) DEF Relaying,
                                                                               P!BreakOff
  <2>3. \A p \in Panels : panel'[p].greeting = panel[p].greeting
    BY <1>4, WalkIs, LookIs, PostShows, CountIs, BadgeIs, BreakIs DEF Relaying
  <2> QED BY <1>1, <2>1, <2>2, <2>3 DEF NoneStarts
<1>5. CASE P!BeatSet
  <2>1. beat' = P!NoBeat /\ UNCHANGED <<relay, panel, crossed>>
    BY <1>5, BeatSetIs
  <2> QED BY <1>1, <2>1 DEF NoneStarts
<1>6. ASSUME NEW j \in P!Jobs, P!BeatRead(j) PROVE Goal
  BY <1>2, <1>6, BeatReadIs DEF Goal
<1>7. CASE P!Evict
  <2>1. UNCHANGED crossed /\ (\A h \in Relays : relay'[h] = P!Rest) /\ beat' = P!NoBeat
        /\ \A p \in Panels : panel'[p].greeting => panel[p].greeting
    BY <1>7, EvictIs, OffIs
  <2> QED BY <1>1, <2>1 DEF NoneStarts
<1>8. ASSUME NEW p \in Panels, P!Connect(p) PROVE Goal
  BY <1>2, <1>8, ConnectIs DEF Goal
<1>9. ASSUME NEW p \in Panels, P!Greet(p) \/ P!Disconnect(p) PROVE Goal
  <2>1. UNCHANGED <<relay, beat, crossed>>
    BY <1>9 DEF P!Greet, P!Disconnect
  <2>2. \A q \in Panels : panel'[q].greeting => panel[q].greeting
    BY <1>9, GreetIs, DisconnectIs, OffIs
  <2> QED BY <1>1, <2>1, <2>2 DEF NoneStarts
<1> QED BY <1>3, <1>4, <1>5, <1>6, <1>7, <1>8, <1>9, NextIs DEF Beside

\* Where handlers do not overlap a step that starts one starts it at rest, and what
\* moves is part of a family that has not ended.
LEMMA StartsAtRest ==
    ASSUME Unended, P!Calm, ~crossed, ~lost, NEW j \in P!Jobs, status[j] \in P!Live
    PROVE  ~P!Ended
<1> SUFFICES ASSUME P!Ended PROVE FALSE
  OBVIOUS
<1>1. \A h \in Relays : relay[h].pc = "rest"
  BY CalmIs
<1>2. \A k \in P!Kids : status[k] \notin P!Live
  BY <1>1 DEF Unended
<1>3. j # P!Root /\ status[j] # "none"
  BY DEF P!Ended, P!Live
<1>4. j \in P!Kids
  BY <1>3 DEF P!Kids
<1> QED BY <1>2, <1>4

LEMMA BesideKeeps ==
    ASSUME PanelTypes, Beside, ~P!Evict
    PROVE  UNCHANGED <<status, relay, lost>> /\ (crossed => crossed')
<1>1. CASE P!BeatSet
  BY <1>1 DEF P!BeatSet
<1>2. ASSUME NEW j \in P!Jobs, P!BeatRead(j) PROVE UNCHANGED <<status, relay, lost>> /\ (crossed => crossed')
  BY <1>2, BeatReadIs
<1>3. ASSUME NEW p \in Panels, P!Connect(p) PROVE UNCHANGED <<status, relay, lost>> /\ (crossed => crossed')
  BY <1>3, ConnectIs
<1>4. ASSUME NEW p \in Panels, P!Greet(p) \/ P!Disconnect(p)
      PROVE  UNCHANGED <<status, relay, lost>> /\ (crossed => crossed')
  <2>1. UNCHANGED <<status, relay, crossed, lost>>
    BY <1>4, GreetIs, DisconnectIs
  <2> QED BY <2>1
<1> QED BY <1>1, <1>2, <1>3, <1>4 DEF Beside

LEMMA UnendedStep ==
    ASSUME PanelTypes, FamilyShape, Unended, P!Next
    PROVE  Unended'
<1> DEFINE Walked == \A k \in P!Kids : status[k] \notin P!Live
           Walking(h) == relay[h].pc \in {"look", "post"} /\ relay[h].kind = "cancelled" /\ relay[h].job = P!Root
           Goal == Walked' \/ \E h \in Relays : Walking(h)'
<1> SUFFICES ASSUME ~crossed', ~lost', P!Ended' PROVE Goal
  BY DEF Unended
<1>1. ~crossed /\ ~lost /\ P!Ended => Walked \/ \E h \in Relays : Walking(h)
  BY DEF Unended
<1>2. UNCHANGED status => (Walked => Walked') /\ (P!Ended' => P!Ended)
  BY DEF P!Kids, P!Ended
<1>3. ASSUME NEW h \in Relays, relay'[h] = relay[h] PROVE Walking(h) => Walking(h)'
  BY <1>3
<1> HIDE DEF Walked
<1>4. CASE Moving
  <2>1. PICK j \in P!Jobs, s \in P!Live \cup Ends :
            /\ P!Moves(j, s) /\ status[j] \in P!Live
            /\ j = P!Root /\ P!Kids # {} => s = "cancelled"
            /\ \/ s = "assigned" /\ UNCHANGED relay
               \/ \E h \in Relays, kind \in {"running", "requeued", "done", "failed", "cancelled"} :
                     P!Relayed(h, kind, j, s) /\ Brings(kind, s)
            /\ crossed' = (crossed \/ ~P!Calm)
            /\ UNCHANGED lost
    BY <1>4, MovingIs
  <2>2. ~P!Ended
    BY <2>1, StartsAtRest
  <2>3. P!Kids' = P!Kids
    BY <2>1, MoveIs
  <2>4. CASE j # P!Root \/ P!Kids = {}
    <3>1. \A k \in P!Kids : status'[k] \notin P!Live
      BY <2>1, <2>2, <2>4, MoveIs
    <3> QED BY <2>3, <3>1 DEF Walked
  <2>5. CASE j = P!Root /\ P!Kids # {}
    <3>1. s = "cancelled"
      BY <2>1, <2>5
    <3>2. PICK h \in Relays, kind \in {"running", "requeued", "done", "failed", "cancelled"} :
              P!Relayed(h, kind, j, s) /\ Brings(kind, s)
      BY <2>1, <3>1
    <3>3. kind = "cancelled"
      BY <3>1, <3>2 DEF Brings
    <3>4. Walking(h)'
      BY <2>5, <3>2, <3>3, RelayedIs
    <3> QED BY <3>4
  <2> QED BY <2>4, <2>5
<1>5. ASSUME NEW h \in Relays, P!Walk(h) PROVE Goal
  BY <1>5, WalkIs DEF Walked
<1>6. ASSUME NEW h \in Relays, P!Look(h) \/ P!Post(h) \/ P!CountQueue(h) \/ P!Badge(h) PROVE Goal
  <2>1. UNCHANGED <<status, crossed, lost>> /\ \A g \in Relays : g # h => relay'[g] = relay[g]
    BY <1>6, LookIs, PostIs, CountIs, BadgeIs
  <2>2. Walked \/ \E g \in Relays : Walking(g)
    BY <1>1, <1>2, <2>1
  <2>3. Walking(h) => Walking(h)' \/ Walked
    <3>1. CASE P!Look(h)
      BY <3>1, LookIs
    <3>2. CASE P!Post(h)
      BY <3>2, PostIs DEF P!Unwalked, Walked
    <3>3. CASE P!CountQueue(h) \/ P!Badge(h)
      BY <3>3, CountIs, BadgeIs
    <3> QED BY <1>6, <3>1, <3>2, <3>3
  <2> QED BY <1>2, <1>3, <2>1, <2>2, <2>3
<1>7. ASSUME NEW h \in Relays, P!BreakOff(h) PROVE FALSE
  BY <1>7, BreakIs
<1>8. CASE P!Evict
  <2>1. P!Calm /\ UNCHANGED <<status, crossed>> /\ ~lost
    BY <1>8, EvictIs DEF P!Evict
  <2>2. \A h \in Relays : ~Walking(h)
    BY <2>1, CalmIs
  <2> QED BY <1>1, <1>2, <2>1, <2>2
<1>9. CASE Beside /\ ~P!Evict
  <2>1. UNCHANGED <<status, relay, lost>> /\ (crossed => crossed')
    BY <1>9, BesideKeeps
  <2> QED BY <1>1, <1>2, <1>3, <2>1
<1> QED BY <1>4, <1>5, <1>6, <1>7, <1>8, <1>9, NextIs DEF Relaying

LEMMA StagedStep ==
    ASSUME PanelTypes, FamilyShape, OneAtATime, Unended, Staged, P!Next
    PROVE  Staged'
<1> DEFINE Within == stage \subseteq HeldJobs \cup cascaded \cup Clearing
           BeatWithin == beat # P!NoBeat => beat.job \in HeldJobs \cup cascaded
           Whole == P!Root \in stage \/ (beat # P!NoBeat /\ beat.job = P!Root) => P!Kids = {}
           Apart == ~crossed' /\ ~lost'
<1>0. Whole /\ (~crossed /\ ~lost => Within /\ BeatWithin)
  BY DEF Staged
<1>a. stage \subseteq P!Jobs /\ beat.job \in P!Jobs
  BY DEF PanelTypes
<1>1. CASE Moving
  <2>1. PICK j \in P!Jobs, s \in P!Live \cup Ends :
            /\ P!Moves(j, s) /\ status[j] \in P!Live
            /\ j = P!Root /\ P!Kids # {} => s = "cancelled"
            /\ \/ s = "assigned" /\ UNCHANGED relay
               \/ \E h \in Relays, kind \in {"running", "requeued", "done", "failed", "cancelled"} :
                     P!Relayed(h, kind, j, s) /\ Brings(kind, s)
            /\ crossed' = (crossed \/ ~P!Calm)
            /\ UNCHANGED <<stage, beat, lost>>
    BY <1>1, MovingIs
  <2>2. /\ P!Kids' = P!Kids /\ status'[j] = s /\ cascaded \subseteq cascaded'
        /\ \A k \in P!Jobs \ {j, P!Root} : status'[k] = status[k] \/ k \in cascaded'
    BY <2>1, MoveIs
  <2>3. Whole'
    BY <1>0, <2>1, <2>2
  <2>4. ASSUME Apart PROVE Within' /\ BeatWithin'
    <3>1. ~crossed /\ ~lost /\ P!Calm
      BY <2>1, <2>4
    <3>2. beat' = P!NoBeat
      BY <2>1, <3>1 DEF P!Calm
    <3>3. ASSUME NEW k \in stage PROVE k \in HeldJobs' \/ k \in cascaded' \/ k \in Clearing'
      <4>1. k \in P!Jobs /\ (k \in HeldJobs \/ k \in cascaded)
        BY <1>0, <1>a, <3>1, CalmIs DEF Clearing
      <4>2. CASE k = j
        <5>1. CASE s \in P!Held
          BY <2>2, <4>1, <4>2, <5>1 DEF HeldJobs
        <5>2. CASE s \notin P!Held
          <6>1. PICK h \in Relays, kind \in {"running", "requeued", "done", "failed", "cancelled"} :
                    P!Relayed(h, kind, j, s) /\ Brings(kind, s)
            BY <2>1, <5>2 DEF P!Held
          <6>2. P!Cleared(kind)
            BY <5>2, <6>1 DEF Brings, P!Cleared, P!Held
          <6>3. relay'[h].pc = "look" /\ relay'[h].kind = kind /\ relay'[h].job = j
            BY <6>1, RelayedIs
          <6>4. P!Cleared(relay'[h].kind)
            BY <6>2, <6>3
          <6> QED BY <4>1, <4>2, <6>3, <6>4 DEF Clearing, P!Cleared
        <5> QED BY <5>1, <5>2
      <4>3. CASE k # j /\ k = P!Root
        <5>1. P!Kids = {}
          BY <1>0, <4>3
        <5>2. j \in P!Kids
          BY <2>1, <4>3 DEF P!Kids, P!Live
        <5> QED BY <5>1, <5>2
      <4>4. CASE k # j /\ k # P!Root
        BY <2>2, <4>1, <4>4 DEF HeldJobs
      <4> QED BY <4>2, <4>3, <4>4
    <3> QED BY <2>1, <3>2, <3>3
  <2> QED BY <2>3, <2>4 DEF Staged
<1>2. ASSUME NEW h \in Relays, P!Walk(h) PROVE Staged'
  <2>1. /\ P!Kids' = P!Kids /\ cascaded \subseteq cascaded' /\ \A k \in P!Jobs : status'[k] = status[k] \/ k \in cascaded'
        /\ UNCHANGED <<stage, relay, beat, crossed, lost>>
    BY <1>2, WalkIs
  <2>2. Clearing' = Clearing
    BY <2>1 DEF Clearing, P!Cleared
  <2>3. \A k \in P!Jobs : k \in HeldJobs => k \in HeldJobs' \/ k \in cascaded'
    BY <2>1 DEF HeldJobs
  <2>4. Whole'
    BY <1>0, <2>1
  <2>5. Apart => Within' /\ BeatWithin'
    BY <1>0, <1>a, <2>1, <2>2, <2>3
  <2> QED BY <2>4, <2>5 DEF Staged
<1>3. ASSUME UNCHANGED <<status, cascaded>> PROVE HeldJobs' = HeldJobs /\ P!Kids' = P!Kids
  BY <1>3 DEF HeldJobs, P!Kids
<1>4. ASSUME NEW h \in Relays, P!Look(h) PROVE Staged'
  <2>1. /\ stage' = IF P!Cleared(relay[h].kind) THEN stage \ {relay[h].job} ELSE stage
        /\ \A g \in Relays : g # h => relay'[g] = relay[g]
        /\ UNCHANGED <<status, beat, cascaded, crossed, lost>>
    BY <1>4, LookIs
  <2>2. HeldJobs' = HeldJobs /\ P!Kids' = P!Kids /\ stage' \subseteq stage
    BY <1>3, <2>1
  <2>3. ASSUME NEW k \in stage', k \in Clearing PROVE k \in Clearing'
    <3>1. PICK g \in Relays : relay[g].pc = "look" /\ P!Cleared(relay[g].kind) /\ relay[g].job = k
      BY <2>3 DEF Clearing
    <3>2. g # h
      BY <2>1, <2>3, <3>1
    <3>3. relay'[g] = relay[g]
      BY <2>1, <3>2
    <3> QED BY <1>a, <2>2, <2>3, <3>1, <3>3 DEF Clearing, P!Cleared
  <2>4. Whole'
    BY <1>0, <2>1, <2>2
  <2>5. Apart => Within' /\ BeatWithin'
    BY <1>0, <2>1, <2>2, <2>3
  <2> QED BY <2>4, <2>5 DEF Staged
\* No other step of a handler clears a stage.
<1>5. ASSUME NEW h \in Relays, P!Post(h) \/ P!CountQueue(h) \/ P!Badge(h) \/ P!BreakOff(h) PROVE Staged'
  <2>1. /\ UNCHANGED <<status, stage, beat, cascaded, crossed>> /\ (lost => lost')
        /\ \A g \in Relays : g # h => relay'[g] = relay[g]
    BY <1>5, PostIs, CountIs, BadgeIs, BreakIs
  <2>2. HeldJobs' = HeldJobs /\ P!Kids' = P!Kids
    BY <1>3, <2>1
  <2>3. ~lost' => relay[h].pc # "look"
    BY <1>5, PostIs, CountIs, BadgeIs, BreakIs
  <2>4. ASSUME ~lost' PROVE Clearing \subseteq Clearing'
    <3> SUFFICES ASSUME NEW k \in Clearing PROVE k \in Clearing'
      OBVIOUS
    <3>1. PICK g \in Relays : relay[g].pc = "look" /\ P!Cleared(relay[g].kind) /\ relay[g].job = k
      BY DEF Clearing
    <3>2. relay'[g] = relay[g]
      BY <2>1, <2>3, <2>4, <3>1
    <3> QED BY <3>1, <3>2 DEF Clearing, P!Cleared
  <2>5. Whole'
    BY <1>0, <2>1, <2>2
  <2>6. Apart => Within' /\ BeatWithin'
    BY <1>0, <2>1, <2>2, <2>4
  <2> QED BY <2>5, <2>6 DEF Staged
<1>6. CASE P!Evict
  <2>1. stage' = {} /\ beat' = P!NoBeat
    BY <1>6, EvictIs
  <2> QED BY <2>1 DEF Staged
<1>7. CASE P!BeatSet
  <2>1. /\ beat # P!NoBeat /\ stage' \subseteq stage \cup {beat.job} /\ beat' = P!NoBeat
        /\ UNCHANGED <<status, relay, cascaded, crossed, lost>>
    BY <1>7, BeatSetIs
  <2>2. HeldJobs' = HeldJobs /\ P!Kids' = P!Kids /\ Clearing' = Clearing
    BY <1>3, <2>1 DEF Clearing, P!Cleared
  <2>3. Whole'
    BY <1>0, <2>1, <2>2
  <2>4. Apart => Within' /\ BeatWithin'
    BY <1>0, <2>1, <2>2
  <2> QED BY <2>3, <2>4 DEF Staged
<1>8. ASSUME NEW j \in P!Jobs, P!BeatRead(j) PROVE Staged'
  <2>1. /\ beat'.job = j /\ status[j] \in P!Held /\ (j = P!Root => P!Kids = {}) /\ (crossed => crossed')
        /\ UNCHANGED <<status, stage, relay, cascaded, lost>>
    BY <1>8, BeatReadIs
  <2>2. HeldJobs' = HeldJobs /\ P!Kids' = P!Kids /\ Clearing' = Clearing /\ j \in HeldJobs
    BY <1>3, <2>1 DEF Clearing, P!Cleared, HeldJobs
  <2>3. Whole'
    BY <1>0, <2>1, <2>2
  <2>4. Apart => Within' /\ BeatWithin'
    BY <1>0, <2>1, <2>2
  <2> QED BY <2>3, <2>4 DEF Staged
<1>9. ASSUME NEW p \in Panels, P!Connect(p) \/ P!Greet(p) \/ P!Disconnect(p) PROVE Staged'
  <2>1. UNCHANGED <<status, stage, relay, beat, cascaded, lost>> /\ (crossed => crossed')
    <3>1. UNCHANGED <<status, stage, relay, beat, cascaded, lost>>
      BY <1>9, ConnectIs, GreetIs, DisconnectIs
    <3>2. CASE P!Connect(p)
      BY <3>1, <3>2, ConnectIs
    <3>3. CASE P!Greet(p) \/ P!Disconnect(p)
      <4>1. UNCHANGED crossed
        BY <3>3, GreetIs, DisconnectIs
      <4> QED BY <3>1, <4>1
    <3> QED BY <1>9, <3>2, <3>3
  <2>2. HeldJobs' = HeldJobs /\ P!Kids' = P!Kids /\ Clearing' = Clearing
    BY <1>3, <2>1 DEF Clearing, P!Cleared
  <2>3. Whole'
    BY <1>0, <2>1, <2>2
  <2>4. Apart => Within' /\ BeatWithin'
    BY <1>0, <2>1, <2>2
  <2> QED BY <2>3, <2>4 DEF Staged
<1> QED BY <1>1, <1>2, <1>4, <1>5, <1>6, <1>7, <1>8, <1>9, NextIs DEF Relaying, Beside

LEMMA CountSame == ASSUME status'[P!Root] = status[P!Root] PROVE P!Count' = P!Count /\ P!Ended' = P!Ended
BY DEF P!Count, P!Ended

LEMMA ShowSame == ASSUME status'[P!Root] = status[P!Root], NEW shows PROVE ShowOK(shows)' <=> ShowOK(shows)
BY DEF ShowOK, P!Ended

\* At rest a panel follows the job as it is.
AtRest(p) == panel[p].on => /\ ShowOK(panel[p].shows)
                            /\ IF panel[p].greeting THEN panel[p].count = P!Count ELSE panel[p].badge = P!Count

Resting == \A h \in Relays : relay[h] = P!Rest

\* What a panel shows once a move's frame has reached it.
LEMMA MoveShows ==
    ASSUME PanelTypes, FamilyShape, ~P!Ended, NEW j \in P!Jobs, NEW s \in P!Live \cup Ends, P!Moves(j, s), status[j] \in P!Live,
           j = P!Root /\ P!Kids # {} => s = "cancelled",
           NEW kind \in {"running", "requeued", "done", "failed", "cancelled"}, Brings(kind, s),
           NEW shows, ShowOK(shows)
    PROVE  ShowOK(Showing(P!Frame(kind, j), shows))'
<1>1. /\ status'[j] = s
      /\ s \in Ends \ {"done"} => status'[P!Root] = s
      /\ s \in P!Live => status'[P!Root] \in P!Live
      /\ s = "done" => status'[P!Root] \in P!Live \cup {"done"}
      /\ s = "running" => status'[P!Root] = "running"
      /\ status'[P!Root] = "running" => status[P!Root] = "running" \/ s = "running"
  BY MoveIs
<1>2. shows # "unknown" /\ status[P!Root] = "running" => shows = "executing"
  BY DEF ShowOK
<1> DEFINE f == P!Frame(kind, j)'
           Then(x) == /\ x # "unknown" /\ status'[P!Root] = "running" => x = "executing"
                      /\ status'[P!Root] \notin P!Live => x # "executing"
<1>3. ShowOK(Showing(P!Frame(kind, j), shows))' <=> Then(Showing(f, shows))
  BY DEF ShowOK, P!Ended, Showing
<1> SUFFICES Then(Showing(f, shows))
  BY <1>3
<1>4. CASE kind = "running"
  <2>1. f = "executing" /\ s = "running"
    BY <1>4 DEF P!Frame, Brings
  <2>2. Showing(f, shows) = "executing"
    BY <2>1 DEF Showing
  <2> QED BY <1>1, <2>1, <2>2 DEF P!Live
<1>5. CASE kind = "requeued"
  <2>0. s = "queued" /\ status'[P!Root] \in P!Live
    BY <1>1, <1>5 DEF Brings, P!Live
  <2>1. CASE j # P!Root /\ status'[P!Root] \notin {"queued", "assigned"}
    <3>1. f = "none"
      BY <1>5, <2>1 DEF P!Frame
    <3>2. Showing(f, shows) = shows
      BY <3>1 DEF Showing
    <3> QED BY <1>1, <1>2, <2>0, <3>2
  <2>2. CASE ~(j # P!Root /\ status'[P!Root] \notin {"queued", "assigned"})
    <3>1. f = "idle"
      BY <1>5, <2>2 DEF P!Frame
    <3>2. Showing(f, shows) = "idle"
      BY <3>1 DEF Showing
    <3>3. status'[P!Root] # "running"
      BY <1>1, <2>0, <2>2
    <3> QED BY <3>2, <3>3
  <2> QED BY <2>1, <2>2
<1>6. CASE kind = "done"
  <2>0. s = "done" /\ status'[P!Root] \in P!Live \cup {"done"}
    BY <1>1, <1>6 DEF Brings
  <2>1. CASE j # P!Root /\ status'[P!Root] # "done"
    <3>1. f = "none"
      BY <1>6, <2>1 DEF P!Frame
    <3>2. Showing(f, shows) = shows
      BY <3>1 DEF Showing
    <3> QED BY <1>1, <1>2, <2>0, <2>1, <3>2
  <2>2. CASE ~(j # P!Root /\ status'[P!Root] # "done")
    <3>1. f = "done"
      BY <1>6, <2>2 DEF P!Frame
    <3>2. Showing(f, shows) = "idle"
      BY <3>1 DEF Showing
    <3>3. status'[P!Root] # "running"
      BY <1>1, <2>0, <2>2
    <3> QED BY <3>2, <3>3
  <2> QED BY <2>1, <2>2
<1>7. CASE kind \in {"failed", "cancelled"}
  <2>0. s = kind /\ status'[P!Root] = s
    BY <1>1, <1>7 DEF Brings, Ends
  <2>1. f \in {"error", "idle"}
    BY <1>7 DEF P!Frame
  <2>2. Showing(f, shows) \in {"error", "idle"}
    BY <2>1 DEF Showing
  <2> QED BY <1>7, <2>0, <2>2
<1> QED BY <1>4, <1>5, <1>6, <1>7

LEMMA FollowStep ==
    ASSUME PanelTypes, PanelTypes', FamilyShape, OneAtATime, Unended, Follow, P!Next
    PROVE  Follow'
<1> SUFFICES ASSUME ~crossed', ~lost'
             PROVE  /\ \A h \in Relays : Following(h)'
                    /\ Resting' => \A p \in Panels : AtRest(p)'
  BY DEF Follow, Resting, AtRest
<1> DEFINE Goal == /\ \A h \in Relays : Following(h)'
                   /\ Resting' => \A p \in Panels : AtRest(p)'
<1> SUFFICES Goal
  OBVIOUS
<1>1. ~crossed /\ ~lost => /\ \A h \in Relays : Following(h)
                           /\ Resting => \A p \in Panels : AtRest(p)
  BY DEF Follow, Resting, AtRest
<1>2. \A h \in Relays : relay'[h] = P!Rest => Following(h)'
  BY RestIs DEF Following
<1>3. P!Calm => Resting /\ \A p \in Panels : ~panel[p].greeting
  BY DEF P!Calm, Resting
\* A step that leaves handlers, panels and the job's own status.
<1>4. ASSUME status'[P!Root] = status[P!Root], ~crossed, ~lost, UNCHANGED <<relay, panel>> PROVE Goal
  <2>1. ASSUME NEW h \in Relays PROVE Following(h)'
    BY <1>1, <1>4, CountSame, ShowSame, FrameSame DEF Following
  <2>2. ASSUME Resting', NEW p \in Panels PROVE AtRest(p)'
    BY <1>1, <1>4, <2>2, CountSame, ShowSame DEF AtRest, Resting
  <2> QED BY <2>1, <2>2
<1>5. CASE Moving
  <2>1. PICK j \in P!Jobs, s \in P!Live \cup Ends :
            /\ P!Moves(j, s) /\ status[j] \in P!Live
            /\ j = P!Root /\ P!Kids # {} => s = "cancelled"
            /\ \/ s = "assigned" /\ UNCHANGED relay
               \/ \E h \in Relays, kind \in {"running", "requeued", "done", "failed", "cancelled"} :
                     P!Relayed(h, kind, j, s) /\ Brings(kind, s)
            /\ crossed' = (crossed \/ ~P!Calm)
            /\ UNCHANGED <<panel, lost>>
    BY <1>5, MovingIs
  <2>2. ~crossed /\ ~lost /\ P!Calm
    BY <2>1
  <2>3. ~P!Ended
    BY <2>1, <2>2, StartsAtRest
  <2>4. \A p \in Panels : panel[p].on => ShowOK(panel[p].shows) /\ panel[p].badge = P!Count /\ ~panel[p].greeting
    BY <1>1, <1>3, <2>2 DEF AtRest
  <2>5. s \in P!Live => P!Count' = P!Count
    BY <2>1, <2>3, MoveIs DEF P!Count, P!Ended
  <2>6. CASE s = "assigned" /\ UNCHANGED relay
    <3>1. Resting'
      BY <1>3, <2>2, <2>6 DEF Resting
    <3>2. status'[P!Root] \in P!Live /\ (status'[P!Root] = "running" => status[P!Root] = "running")
      BY <2>1, <2>3, <2>6, MoveIs DEF P!Live
    <3>3. ASSUME NEW p \in Panels PROVE AtRest(p)'
      BY <2>1, <2>4, <2>5, <2>6, <3>2 DEF AtRest, ShowOK, P!Ended, P!Live
    <3>4. \A h \in Relays : Following(h)'
      BY <1>2, <3>1 DEF Resting
    <3> QED BY <3>3, <3>4
  <2>7. ASSUME NEW h \in Relays, NEW kind \in {"running", "requeued", "done", "failed", "cancelled"},
               P!Relayed(h, kind, j, s), Brings(kind, s)
        PROVE  Goal
    <3>1. /\ relay'[h] \in [pc: {"look"}, kind: {kind}, job: {j}, frame: {"none"}, count: {0}]
          /\ \A g \in Relays : g # h => relay'[g] = relay[g]
      BY <2>7, RelayedIs
    <3>2. relay'[h].pc = "look" /\ relay'[h].kind = kind /\ relay'[h].job = j /\ relay'[h] # P!Rest
      BY <3>1, RestIs
    <3>3. ~Resting'
      BY <3>2 DEF Resting
    <3>4. \A g \in Relays : g # h => Following(g)'
      BY <1>2, <1>3, <2>2, <3>1 DEF Resting
    <3>5. ASSUME NEW p \in Panels, panel[p].on PROVE ShowOK(Showing(P!Frame(kind, j), panel[p].shows))'
      <4>1. ShowOK(panel[p].shows)
        BY <2>4, <3>5
      <4>2. \A shows : ShowOK(shows) => ShowOK(Showing(P!Frame(kind, j), shows))'
        BY <2>1, <2>3, <2>7, MoveShows
      <4>3. panel'[p].shows = panel[p].shows
        BY <2>1
      <4> QED BY <4>1, <4>2, <4>3 DEF Showing, ShowOK
    <3>6. kind \in {"running", "requeued"} => \A p \in Panels : panel[p].on => panel'[p].badge = P!Count'
      BY <2>1, <2>4, <2>5, <2>7 DEF Brings, P!Live
    <3>7. Following(h)'
      BY <2>1, <3>2, <3>5, <3>6 DEF Following
    <3> QED BY <3>3, <3>4, <3>7
  <2> HIDE DEF Goal
  <2> QED BY <2>1, <2>6, <2>7
<1>6. ASSUME NEW h \in Relays, P!Walk(h) PROVE Goal
  BY <1>4, <1>6, WalkIs
\* A handler's own step: the others are at rest.
<1>7. ASSUME NEW h \in Relays, P!Look(h) \/ P!Post(h) \/ P!CountQueue(h) \/ P!Badge(h)
      PROVE  /\ ~crossed /\ ~lost /\ status' = status /\ P!Count' = P!Count
             /\ \A g \in Relays : g # h => relay[g] = P!Rest /\ relay'[g] = P!Rest
             /\ \A p \in Panels : ~panel[p].greeting
             /\ Following(h)
  <2>1. UNCHANGED <<status, crossed, lost>> /\ relay[h] # P!Rest /\ \A g \in Relays : g # h => relay'[g] = relay[g]
    BY <1>7, LookIs, PostIs, CountIs, BadgeIs
  <2>2. ~crossed /\ ~lost
    BY <2>1
  <2>3. \A g \in Relays : g # h => relay[g] = P!Rest
    BY <2>1, <2>2 DEF OneAtATime
  <2>4. \A p \in Panels : ~panel[p].greeting
    BY <2>1, <2>2 DEF OneAtATime
  <2> QED BY <1>1, <2>1, <2>2, <2>3, <2>4, CountSame
<1>8. ASSUME NEW h \in Relays, P!Look(h) \/ P!Post(h) \/ P!CountQueue(h) \/ P!Badge(h),
             Following(h)', relay'[h] = P!Rest => \A p \in Panels : AtRest(p)'
      PROVE  Goal
  BY <1>2, <1>7, <1>8 DEF Resting
<1> HIDE DEF Goal
<1>9. ASSUME NEW h \in Relays, P!Look(h) PROVE Goal
  <2> DEFINE f == P!Frame(relay[h].kind, relay[h].job)
  <2>1. /\ relay'[h].pc = "post" /\ relay'[h] # P!Rest /\ relay'[h].kind = relay[h].kind /\ relay'[h].frame = f
        /\ relay[h].pc = "look" /\ panel' = panel /\ status' = status
    <3>1. relay'[h] \in [pc: {"post"}, kind: {relay[h].kind}, job: {relay[h].job}, frame: {f}, count: {relay[h].count}]
      BY <1>9, LookIs
    <3> HIDE DEF f
    <3> QED BY <1>9, <3>1, LookIs, RestIs
  <2> HIDE DEF f
  <2>2. \A p \in Panels : panel[p].on =>
            /\ ShowOK(Showing(f, panel[p].shows))
            /\ relay[h].kind \in {"running", "requeued"} => panel[p].badge = P!Count
    BY <1>7, <1>9, <2>1 DEF Following, f
  <2>3. Following(h)'
    BY <1>7, <1>9, <2>1, <2>2, ShowSame DEF Following
  <2> QED BY <1>8, <1>9, <2>1, <2>3
<1>10. ASSUME NEW h \in Relays, P!Post(h) PROVE Goal
  <2>1. relay[h].pc = "post" /\ status' = status
    BY <1>10, PostIs
  <2>2. \A p \in Panels : panel[p].on =>
            /\ ShowOK(Showing(relay[h].frame, panel[p].shows))
            /\ relay[h].kind \in {"running", "requeued"} => panel[p].badge = P!Count
    BY <1>7, <1>10, <2>1 DEF Following
  <2>3. ASSUME NEW p \in Panels, panel'[p].on
        PROVE  /\ panel[p].on /\ ShowOK(panel[p].shows)' /\ ~panel'[p].greeting
               /\ relay[h].kind \in {"running", "requeued"} => panel'[p].badge = P!Count'
    <3>1. /\ panel[p].on /\ panel'[p].shows = Showing(relay[h].frame, panel[p].shows)
          /\ panel'[p].badge = panel[p].badge /\ panel'[p].greeting = panel[p].greeting
      BY <1>10, <2>3, PostShows
    <3>2. ShowOK(Showing(relay[h].frame, panel[p].shows))
      BY <2>2, <3>1
    <3> QED BY <1>7, <1>10, <2>1, <2>2, <3>1, <3>2 DEF ShowOK, P!Ended
  <2>4. CASE relay'[h] = P!Rest /\ relay[h].kind \in {"running", "requeued"}
    <3>1. Following(h)'
      BY <1>2, <2>4
    <3>2. \A p \in Panels : AtRest(p)'
      BY <2>3, <2>4 DEF AtRest
    <3> QED BY <1>8, <1>10, <3>1, <3>2
  <2>5. CASE relay'[h] \in [pc: {"count"}, kind: {relay[h].kind}, job: {relay[h].job}, frame: {relay[h].frame},
                            count: {relay[h].count}]
    <3>1. relay'[h].pc = "count" /\ relay'[h] # P!Rest
      BY <2>5, RestIs
    <3>2. Following(h)'
      BY <2>3, <3>1 DEF Following
    <3> QED BY <1>8, <1>10, <3>1, <3>2
  <2> QED BY <1>10, <2>4, <2>5, PostIs
<1>11. ASSUME NEW h \in Relays, P!CountQueue(h) PROVE Goal
  <2>1. /\ relay'[h].pc = "badge" /\ relay'[h] # P!Rest /\ relay'[h].count = P!Count
        /\ relay[h].pc = "count" /\ panel' = panel /\ status' = status
    <3>1. relay'[h] \in [pc: {"badge"}, kind: {relay[h].kind}, job: {relay[h].job}, frame: {relay[h].frame}, count: {P!Count}]
      BY <1>11, CountIs
    <3> QED BY <1>11, <3>1, CountIs, RestIs
  <2>2. \A p \in Panels : panel[p].on => ShowOK(panel[p].shows)
    BY <1>7, <1>11, <2>1 DEF Following
  <2>3. Following(h)'
    BY <1>7, <1>11, <2>1, <2>2, ShowSame DEF Following
  <2> QED BY <1>8, <1>11, <2>1, <2>3
<1>12. ASSUME NEW h \in Relays, P!Badge(h) PROVE Goal
  <2>1. relay[h].pc = "badge" /\ status' = status /\ relay'[h] = P!Rest
    BY <1>12, BadgeIs
  <2>2. \A p \in Panels : panel[p].on => ShowOK(panel[p].shows) /\ relay[h].count = P!Count
    BY <1>7, <1>12, <2>1 DEF Following
  <2>3. ASSUME NEW p \in Panels PROVE AtRest(p)'
    <3> SUFFICES ASSUME panel'[p].on
                 PROVE  ShowOK(panel[p].shows)' /\ ~panel'[p].greeting /\ panel'[p].badge = P!Count'
      BY DEF AtRest
    <3>1. /\ panel[p].on /\ panel'[p].shows = panel[p].shows /\ panel'[p].badge = relay[h].count
          /\ panel'[p].greeting = panel[p].greeting
      BY <1>12, BadgeIs
    <3> QED BY <1>7, <1>12, <2>1, <2>2, <3>1 DEF ShowOK, P!Ended
  <2>4. Following(h)'
    BY <1>2, <2>1
  <2> QED BY <1>8, <1>12, <2>3, <2>4
<1>13. ASSUME NEW h \in Relays, P!BreakOff(h) PROVE FALSE
  BY <1>13, BreakIs
<1>14. CASE P!Evict
  <2>1. P!Calm /\ (\A p \in Panels : panel'[p] = panel[p]) /\ UNCHANGED <<status, crossed>> /\ ~lost
        /\ \A h \in Relays : relay'[h] = P!Rest
    BY <1>14, EvictIs DEF P!Evict
  <2>2. ASSUME NEW p \in Panels PROVE AtRest(p)'
    BY <1>1, <1>3, <2>1, CountSame, ShowSame DEF AtRest
  <2>3. \A h \in Relays : Following(h)'
    BY <1>2, <2>1
  <2> QED BY <2>2, <2>3 DEF Goal
<1>15. CASE P!BeatSet
  <2>1. UNCHANGED <<status, relay, panel, crossed, lost>>
    BY <1>15, BeatSetIs
  <2> QED BY <1>4, <2>1
<1>16. ASSUME NEW j \in P!Jobs, P!BeatRead(j) PROVE Goal
  <2>1. UNCHANGED <<status, relay, panel, lost>> /\ ~crossed
    BY <1>16, BeatReadIs
  <2> QED BY <1>4, <2>1
<1>17. ASSUME NEW q \in Panels, P!Connect(q) PROVE Goal
  <2>1. /\ ~crossed /\ P!Calm /\ UNCHANGED <<status, relay, lost>>
        /\ \A p \in Panels : p # q => panel'[p] = panel[p]
        /\ panel'[q].greeting /\ panel'[q].count = P!Count /\ panel'[q].shows = "unknown"
    BY <1>17, ConnectIs
  <2>2. \A h \in Relays : relay'[h] = P!Rest
    BY <1>3, <2>1 DEF Resting
  <2>3. ASSUME NEW p \in Panels PROVE AtRest(p)'
    <3>1. CASE p # q
      BY <1>1, <1>3, <2>1, <3>1, CountSame, ShowSame DEF AtRest
    <3>2. CASE p = q
      BY <2>1, <3>2, CountSame DEF AtRest, ShowOK
    <3> QED BY <3>1, <3>2
  <2> QED BY <1>2, <2>2, <2>3 DEF Goal
<1>18. ASSUME NEW q \in Panels, P!Greet(q) PROVE Goal
  <2>1. /\ UNCHANGED <<status, relay, crossed, lost>> /\ panel[q].greeting
        /\ \A p \in Panels : p # q => panel'[p] = panel[p]
        /\ panel'[q].on = panel[q].on /\ panel'[q].shows = panel[q].shows /\ ~panel'[q].greeting
        /\ panel'[q].badge = panel[q].count
    BY <1>18, GreetIs
  <2>2. ~crossed /\ ~lost
    BY <2>1
  <2>3. Resting
    BY <2>1, <2>2 DEF OneAtATime, Resting
  <2>4. ASSUME NEW p \in Panels PROVE AtRest(p)'
    <3>1. CASE p # q
      BY <1>1, <2>1, <2>2, <2>3, <3>1, CountSame, ShowSame DEF AtRest
    <3>2. CASE p = q
      BY <1>1, <2>1, <2>2, <2>3, <3>2, CountSame, ShowSame DEF AtRest
    <3> QED BY <3>1, <3>2
  <2> QED BY <1>2, <2>1, <2>3, <2>4 DEF Goal, Resting
<1>19. ASSUME NEW q \in Panels, P!Disconnect(q) PROVE Goal
  <2>1. /\ UNCHANGED <<status, relay, crossed, lost>> /\ panel'[q] = P!Off
        /\ \A p \in Panels : p # q => panel'[p] = panel[p]
    BY <1>19, DisconnectIs
  <2>2. ~crossed /\ ~lost
    BY <2>1
  <2>3. ASSUME NEW p \in Panels, panel'[p].on PROVE panel'[p] = panel[p]
    BY <2>1, <2>3, OffIs
  <2>4. ASSUME NEW h \in Relays PROVE Following(h)'
    BY <1>1, <2>1, <2>2, <2>3, CountSame, ShowSame, FrameSame DEF Following
  <2>5. ASSUME Resting', NEW p \in Panels PROVE AtRest(p)'
    BY <1>1, <2>1, <2>2, <2>3, <2>5, CountSame, ShowSame DEF AtRest, Resting
  <2> QED BY <2>4, <2>5 DEF Goal
<1> QED
  BY <1>5, <1>6, <1>9, <1>10, <1>11, <1>12, <1>13, <1>14, <1>15, <1>16, <1>17, <1>18, <1>19, NextIs
  DEF Relaying, Beside

LEMMA PanelsInit == P!Init => PanelsInv
<1> SUFFICES ASSUME P!Init PROVE PanelsInv
  OBVIOUS
<1>0. /\ stage = {} /\ relay = [h \in Relays |-> P!Rest] /\ beat = P!NoBeat /\ panel = [p \in Panels |-> P!Off]
      /\ crossed = FALSE /\ lost = FALSE
  BY DEF P!Init
<1>1. PICK s \in {"none", "queued"} : status = [j \in P!Jobs |-> IF j = P!Root THEN "queued" ELSE s]
  BY DEF P!Init
<1>2. status[P!Root] = "queued" /\ \A k \in P!Kids : status[k] = "queued"
  BY <1>1, RootIs DEF P!Kids
<1>3. ~P!Ended
  BY <1>2 DEF P!Ended, P!Live
<1>4. (\A h \in Relays : relay[h] = P!Rest) /\ \A p \in Panels : panel[p] = P!Off
  BY <1>0
<1>5. PanelTypes
  <2>1. status \in [P!Jobs -> {"none"} \cup P!Live \cup Ends]
    BY <1>1 DEF P!Live
  <2>2. relay \in [Relays -> RelayStates] /\ panel \in [Panels -> PanelStates]
    BY <1>0, RestIs, OffIs
  <2> QED BY <1>0, <1>2, <1>4, <2>1, <2>2, RestIs DEF PanelTypes
<1>6. FamilyShape
  <2> SUFFICES ASSUME NEW k \in P!Kids PROVE status[k] \in P!Live \cup {"done"} /\ status[P!Root] = P!Derived(status)
    BY DEF FamilyShape
  <2>1. {status[i] : i \in P!Kids} = {"queued"}
    BY <1>2
  <2>2. P!Derived(status) = "queued"
    BY <2>1 DEF P!Derived
  <2> QED BY <1>2, <2>2 DEF P!Live
<1>7. DoneTold /\ EndTold /\ OneAtATime /\ Unended
  BY <1>0, <1>3, <1>4, RestIs, OffIs DEF DoneTold, P!DoneWhenDone, EndTold, OneAtATime, Unended
<1>8. Follow
  BY <1>4, RestIs, OffIs DEF Follow, Following
<1>9. Staged
  BY <1>0 DEF Staged
<1> QED BY <1>5, <1>6, <1>7, <1>8, <1>9 DEF PanelsInv

LEMMA PanelsNext == PanelsInv /\ [P!Next]_(P!vars) => PanelsInv'
<1> SUFFICES ASSUME PanelsInv, [P!Next]_(P!vars) PROVE PanelsInv'
  OBVIOUS
<1>0. PanelTypes /\ FamilyShape /\ DoneTold /\ EndTold /\ OneAtATime /\ Follow /\ Unended /\ Staged
  BY DEF PanelsInv
<1>1. CASE P!Next
  <2>1. PanelTypes'
    BY <1>0, <1>1, PanelTypesStep
  <2> QED
    BY <1>0, <1>1, <2>1, FamilyShapeStep, DoneToldStep, EndToldStep, OneAtATimeStep, FollowStep, UnendedStep, StagedStep
    DEF PanelsInv
<1>2. CASE UNCHANGED P!vars
  <2>1. UNCHANGED <<status, stage, relay, beat, panel, cascaded, crossed, lost>>
    BY <1>2 DEF P!vars
  <2>2. P!Kids' = P!Kids /\ P!Ended' = P!Ended /\ Final' = Final /\ P!Count' = P!Count
    BY <2>1 DEF P!Kids, P!Ended, Final, P!Count
  <2>a. PanelTypes' /\ OneAtATime' /\ Unended'
    BY <1>0, <2>1, <2>2 DEF PanelTypes, OneAtATime, Unended
  <2>b. P!Derived(status)' = P!Derived(status)
    BY <2>1, <2>2 DEF P!Derived
  <2>3. FamilyShape'
    BY <1>0, <2>1, <2>2, <2>b DEF FamilyShape
  <2>4. DoneTold'
    BY <1>0, <2>1, <2>2 DEF DoneTold, P!DoneWhenDone
  <2>5. EndTold'
    BY <1>0, <2>1, <2>2, FrameSame DEF EndTold, Telling
  <2>6. Follow'
    BY <1>0, <2>1, <2>2, FrameSame, ShowSame DEF Follow, Following
  <2>7. Staged'
    BY <1>0, <2>1, <2>2 DEF Staged, HeldJobs, Clearing, P!Cleared
  <2> QED BY <2>a, <2>3, <2>4, <2>5, <2>6, <2>7 DEF PanelsInv
<1> QED BY <1>1, <1>2

LEMMA PanelsGive == PanelsInv => P!PanelsInStep
<1> SUFFICES ASSUME PanelsInv PROVE P!PanelsInStep
  OBVIOUS
<1>0. DoneTold /\ EndTold /\ Follow /\ Staged
  BY DEF PanelsInv
<1>1. P!Quiet => P!Calm /\ ~lost /\ (\A h \in Relays : relay[h] = P!Rest /\ relay[h].pc = "rest")
               /\ \A p \in Panels : ~panel[p].greeting
  BY CalmIs DEF P!Quiet, P!Calm
<1>2. P!PanelsAreTold
  <2> SUFFICES ASSUME P!Quiet, P!Ended, NEW p \in Panels, panel[p].on, ~panel[p].late
               PROVE  CASE status[P!Root] = "done" -> "done" \in panel[p].told
                        [] status[P!Root] = "failed" -> "error" \in panel[p].told
                        [] OTHER -> "idle" \in panel[p].told
    BY DEF P!PanelsAreTold
  <2>1. \A h \in Relays : ~Telling(h)
    BY <1>1 DEF Telling
  <2>2. Final \in panel[p].told
    BY <1>0, <1>1, <2>1 DEF EndTold
  <2>3. CASE status[P!Root] = "done"
    BY <2>2, <2>3 DEF Final
  <2>4. CASE status[P!Root] = "failed"
    BY <2>2, <2>4 DEF Final
  <2>5. CASE status[P!Root] \notin {"done", "failed"}
    BY <2>2, <2>5 DEF Final
  <2> QED BY <2>3, <2>4, <2>5
<1>3. P!DoneWhenDone
  BY <1>0 DEF DoneTold
<1>4. P!PanelsFollow
  BY <1>0, <1>1 DEF Follow, P!PanelsFollow, ShowOK
<1>5. P!StageOfHeldJobs
  <2>1. P!Quiet => Clearing = {}
    BY <1>1 DEF Clearing
  <2> QED BY <1>0, <1>1, <2>1 DEF Staged, P!StageOfHeldJobs, HeldJobs
<1> QED BY <1>2, <1>3, <1>4, <1>5 DEF P!PanelsInStep

LEMMA PanelsInvHolds == P!Spec => []PanelsInv
BY PanelsInit, PanelsNext, PTL DEF P!Spec
----------------------------------------------------------------------------
(* The downloads *)

LEMMA DownloadCardinality == ASSUME NEW T PROVE F!Cardinality(T) = Cardinality(T)
BY DEF F!Cardinality, Cardinality

Pressing == {r \in Requests : request[r].pc \in {"find", "look", "insert"}}

\* What is on the platform's side of a download, and on the worker's.
TickTypes == tick \in [pc: {"rest", "merge", "match", "push"}, entry: F!Entries, read: BOOLEAN,
                       known: F!Entries, job: Requests \cup {None}, worker: FetchWorkers \cup {None}]
FrameTypes == frame \in [FetchWorkers -> [pc: {"rest", "pushed", "landed"}, job: Requests \cup {None},
                                     entry: F!Entries, read: BOOLEAN, known: F!Entries,
                                     file: F!Files \cup {None}]]

Types == F!TypeOK /\ online \subseteq FetchWorkers /\ TickTypes /\ FrameTypes

\* Of requests that do not cross, one is pressed at a time, and one that has
\* seen no download underway still sees none.
Alone ==
    ~pressed => /\ \A q, r \in Pressing : q = r
                /\ \A q, r \in F!LiveJobs : q = r
                /\ \A r \in Requests : request[r].pc \in {"look", "insert"} => F!LiveJobs = {}

\* An entry with a hash the manifest had is the one that goes out.
Wins(of) ==
    /\ of.known # None => of.known.sha \in F!Files
    /\ of.read /\ of.known # None => of.entry \in {None, of.known}

KnownWins ==
    /\ Wins(tick)
    /\ tick.read /\ tick.known # None => tick.entry = tick.known
    /\ \A w \in FetchWorkers : Wins(frame[w])

\* What the platform lists is on the disk; a worker is picked that has the file or
\* is sent it, and one that is ready to report has it.
There ==
    ~removed =>
        /\ \A w \in FetchWorkers : listed[w] # None => disk[w] # None
        /\ tick.pc = "push" => tick.entry # None \/ (tick.worker \in FetchWorkers /\ listed[tick.worker] # None)
        /\ \A w \in FetchWorkers :
              /\ frame[w].pc = "pushed" => frame[w].entry # None \/ disk[w] # None
              /\ frame[w].pc = "landed" => disk[w] # None
        /\ F!DoneIsThere
FileLanded == \A w \in FetchWorkers : frame[w].pc = "landed" /\ frame[w].entry # None => frame[w].file \in F!Files
DoneByWorker == \A r \in Requests : download[r].status = "done" => download[r].worker \in FetchWorkers

DownloadsInv == Types /\ Alone /\ KnownWins /\ There /\ FileLanded /\ DoneByWorker

LEMMA InitDownloads == F!Init => DownloadsInv
<1> SUFFICES ASSUME F!Init PROVE DownloadsInv
  OBVIOUS
<1>1. Types
  BY DEF F!Init, Types, F!TypeOK, TickTypes, FrameTypes, F!NoTick, F!NoFrame, F!NoJob, F!Entries, F!Entry, F!Files
<1>2. Alone
  BY DEF F!Init, Alone, Pressing, F!LiveJobs, F!NoJob, F!Live
<1>3. KnownWins
  BY DEF F!Init, KnownWins, Wins, F!NoTick, F!NoFrame
<1>4. There /\ FileLanded /\ DoneByWorker
  BY DEF F!Init, There, FileLanded, DoneByWorker, F!DoneIsThere, F!NoTick, F!NoFrame, F!NoJob
<1> QED BY <1>1, <1>2, <1>3, <1>4 DEF DownloadsInv

\* What the manifest has of the model has a hash.
LEMMA ManifestHashed ==
    ASSUME Types, NEW e \in F!Manifest
    PROVE  e \in F!Entries /\ (e # None => e.sha \in F!Files)
<1>1. PICK used \in F!Agreed \cup {None} : e = F!EntryBy(used)
  BY DEF F!Manifest
<1>2. \A s \in F!Agreed : s \in {"path", "bare"} /\ hashes[s] \in F!Files
  BY DEF F!Agreed, Types, F!TypeOK
<1>3. CASE {s \in F!Agreed \ {used} : F!Seeded(s)} # {}
  <2>1. hashes["path"] \in F!Files
    BY <1>2, <1>3 DEF F!Seeded
  <2>2. e = [sha |-> hashes["path"], peer |-> TRUE]
    BY <1>1, <1>3 DEF F!EntryBy
  <2> QED BY <2>1, <2>2 DEF F!Entries, F!Entry
<1>4. CASE {s \in F!Agreed \ {used} : F!Seeded(s)} = {} /\ used # None
  BY <1>1, <1>2, <1>4 DEF F!EntryBy, F!Entries, F!Entry
<1>5. CASE {s \in F!Agreed \ {used} : F!Seeded(s)} = {} /\ used = None
  <2>1. e \in {[sha |-> Good, peer |-> FALSE], None}
    BY <1>1, <1>5 DEF F!EntryBy
  <2> QED
    <3>1. [sha |-> Good, peer |-> FALSE] \in F!Entry /\ Good \in F!Files
      BY DEF F!Entry, F!Files
    <3>2. [sha |-> Good, peer |-> FALSE].sha \in F!Files
      BY <3>1
    <3>3. CASE e = [sha |-> Good, peer |-> FALSE]
      BY <3>1, <3>2, <3>3 DEF F!Entries
    <3> QED BY <2>1, <3>3 DEF F!Entries
<1> QED BY <1>3, <1>4, <1>5

LEMMA RecordedTyped ==
    ASSUME Types, NEW s \in {"path", "bare"}, NEW file \in F!Files
    PROVE  F!Recorded(s, file) \in [{"path", "bare"} -> F!Files \cup {None, Conflict}]
BY DEF F!Recorded, Types, F!TypeOK

\* The steps that move the requests and the jobs only.
Jobwise(r) == F!Ask(r) \/ F!Find(r) \/ F!LookUp(r) \/ F!Insert(r) \/ F!TakeBack(r) \/ F!Cancel(r) \/ F!Retry(r)
Ticks == F!ReadManifest \/ F!Merge \/ F!Match \/ F!Push
Works(w) == F!Rescan(w) \/ F!Land(w) \/ F!Done(w) \/ F!Fail(w) \/ F!Leave(w) \/ F!Return(w) \/ F!Remove(w)

LEMMA JobwiseTypes ==
    ASSUME Types, NEW r \in Requests, Jobwise(r)
    PROVE  Types'
<1>1. UNCHANGED <<hashes, disk, listed, online, tick, frame>>
  BY DEF Jobwise, F!Ask, F!Find, F!LookUp, F!Insert, F!TakeBack, F!Cancel, F!Retry
<1>2. request' \in [Requests -> [pc: {"rest", "find", "look", "insert", "over"}, entry: F!Entries]]
  <2>1. CASE F!Ask(r) \/ F!Find(r) \/ F!Insert(r) \/ F!TakeBack(r) \/ F!Cancel(r) \/ F!Retry(r)
    <3>1. \/ request' = request
          \/ \E pc \in {"find", "look", "over"} : request' = [request EXCEPT ![r].pc = pc]
      BY <2>1 DEF F!Ask, F!Find, F!Insert, F!TakeBack, F!Cancel, F!Retry, F!Over
    <3> QED BY <3>1, SMTT(30) DEF Types, F!TypeOK
  <2>2. CASE F!LookUp(r)
    <3>1. F!Unverified \in F!Entries
      BY DEF F!Unverified, F!Entries, F!Entry
    <3>2. \A e \in F!Manifest : (IF e = None THEN F!Unverified ELSE e) \in F!Entries
      BY <3>1, ManifestHashed
    <3> QED BY <2>2, <3>2 DEF F!LookUp, F!Over, Types, F!TypeOK
  <2> QED BY <2>1, <2>2 DEF Jobwise
<1>3. download' \in [Requests -> [status: F!Live \cup {"none", "done", "failed", "cancelled"},
                             worker: FetchWorkers \cup {None}, entry: F!Entries]]
  <2>1. CASE UNCHANGED download
    BY <2>1 DEF Types, F!TypeOK
  <2>2. CASE download' = [download EXCEPT ![r] = [F!NoJob EXCEPT !.status = "queued", !.entry = request[r].entry]]
    BY <2>2 DEF Types, F!TypeOK, F!NoJob, F!Live
  <2>3. CASE download' = [download EXCEPT ![r].status = "queued", ![r].worker = None]
    BY <2>3, ZenonT(40) DEF Types, F!TypeOK, F!Live
  <2>4. CASE download' = [download EXCEPT ![r].status = "cancelled"]
    BY <2>4 DEF Types, F!TypeOK, F!Live
  <2> QED
    BY <2>1, <2>2, <2>3, <2>4 DEF Jobwise, F!Ask, F!Find, F!LookUp, F!Insert, F!TakeBack, F!Cancel, F!Retry
<1> QED BY <1>1, <1>2, <1>3 DEF Types, F!TypeOK, TickTypes, FrameTypes

LEMMA TickTyped ==
    ASSUME Types, Ticks
    PROVE  Types'
<1>0. \A e \in F!Manifest : e \in F!Entries
  BY ManifestHashed
<1>1. CASE F!ReadManifest
  BY <1>0, <1>1 DEF F!ReadManifest, Types, F!TypeOK, TickTypes, FrameTypes
<1>2. CASE F!Merge
  <2>1. \A r \in F!Queued : download[r].entry \in F!Entries
    BY DEF F!Queued, Types, F!TypeOK
  <2> QED BY <1>2, <2>1 DEF F!Merge, F!Merged, Types, F!TypeOK, TickTypes, FrameTypes
<1>3. CASE F!Match
  <2>1. UNCHANGED <<hashes, disk, listed, request, online, frame>>
    BY <1>3 DEF F!Match
  <2>2. tick' \in {F!NoTick} \/ \E r \in Requests, w \in FetchWorkers : 
            /\ tick' = [tick EXCEPT !.pc = "push", !.job = r, !.worker = w]
            /\ download' = [download EXCEPT ![r].status = "assigned", ![r].worker = w]
    BY <1>3 DEF F!Match, F!Queued, Types
  <2>3. download' = download \/ \E r \in Requests, w \in FetchWorkers : 
            download' = [download EXCEPT ![r].status = "assigned", ![r].worker = w]
    BY <1>3 DEF F!Match, F!Queued, Types
  <2>4. TickTypes'
    <3>1. F!NoTick \in [pc: {"rest", "merge", "match", "push"}, entry: F!Entries, read: BOOLEAN,
                      known: F!Entries, job: Requests \cup {None}, worker: FetchWorkers \cup {None}]
      BY DEF F!NoTick, F!Entries
    <3>2. ASSUME NEW r \in Requests, NEW w \in FetchWorkers,
                 tick' = [tick EXCEPT !.pc = "push", !.job = r, !.worker = w]
          PROVE  TickTypes'
      BY <3>2 DEF Types, TickTypes
    <3> QED BY <2>2, <3>1, <3>2 DEF TickTypes
  <2>5. download' \in [Requests -> [status: F!Live \cup {"none", "done", "failed", "cancelled"},
                               worker: FetchWorkers \cup {None}, entry: F!Entries]]
    <3>1. ASSUME NEW r \in Requests, NEW w \in FetchWorkers,
                 download' = [download EXCEPT ![r].status = "assigned", ![r].worker = w]
          PROVE  download' \in [Requests -> [status: F!Live \cup {"none", "done", "failed", "cancelled"},
                                       worker: FetchWorkers \cup {None}, entry: F!Entries]]
      BY <3>1, ZenonT(40) DEF Types, F!TypeOK, F!Live
    <3> QED BY <2>3, <3>1 DEF Types, F!TypeOK
  <2> QED BY <2>1, <2>4, <2>5 DEF Types, F!TypeOK, FrameTypes
<1>4. CASE F!Push
  <2>1. UNCHANGED <<hashes, disk, listed, request, online, download>> /\ tick' = F!NoTick
    BY <1>4 DEF F!Push
  <2>2. FrameTypes'
    BY <1>4 DEF F!Push, Types, FrameTypes, TickTypes, F!NoFrame, F!Entries
  <2>3. TickTypes'
    BY <2>1 DEF TickTypes, F!NoTick, F!Entries
  <2> QED BY <2>1, <2>2, <2>3 DEF Types, F!TypeOK
<1> QED BY <1>1, <1>2, <1>3, <1>4 DEF Ticks

LEMMA WorkTypes ==
    ASSUME Types, NEW w \in FetchWorkers, Works(w), FileLanded
    PROVE  Types'
<1>1. UNCHANGED <<tick, request>>
  BY SMTT(30) DEF Works, F!Rescan, F!Land, F!Done, F!Fail, F!Leave, F!Return, F!Remove
<1>2. online' \subseteq FetchWorkers
  BY DEF Works, F!Rescan, F!Land, F!Done, F!Fail, F!Leave, F!Return, F!Remove, Types
<1>3. ASSUME NEW file \in F!Files \cup {None}, NEW seen \in F!Seen(file), F!Inventory(w, seen)
      PROVE  /\ listed' \in [FetchWorkers -> F!Files \cup {None, F!Unhashed}]
             /\ hashes' \in [{"path", "bare"} -> F!Files \cup {None, Conflict}]
  <2>1. seen \in F!Files \cup {None, F!Unhashed}
    BY <1>3 DEF F!Seen
  <2> QED BY <1>3, <2>1, RecordedTyped DEF F!Inventory, Types, F!TypeOK
<1>4. CASE F!Rescan(w)
  <2>1. disk[w] \in F!Files \cup {None}
    BY DEF Types, F!TypeOK
  <2> QED BY <1>1, <1>2, <1>3, <1>4, <2>1 DEF F!Rescan, Types, F!TypeOK, TickTypes, FrameTypes
<1>5. CASE F!Land(w)
  <2>1. PICK file :
            /\ file \in CASE frame[w].entry = None -> {disk[w]}
                          [] frame[w].entry # None /\ frame[w].entry.sha = None -> F!Files
                          [] OTHER -> {frame[w].entry.sha}
            /\ disk' = [disk EXCEPT ![w] = file]
            /\ \E seen \in F!Seen(file) : F!Inventory(w, seen)
            /\ frame' = [frame EXCEPT ![w].pc = "landed", ![w].file = file]
    BY <1>5 DEF F!Land
  <2>2. file \in F!Files \cup {None}
    <3>1. frame[w].entry \in F!Entries /\ disk[w] \in F!Files \cup {None}
      BY DEF Types, F!TypeOK, FrameTypes
    <3>2. frame[w].entry # None => frame[w].entry.sha \in F!Files \cup {None}
      BY <3>1 DEF F!Entries, F!Entry
    <3> QED BY <2>1, <3>1, <3>2
  <2>3. UNCHANGED download
    BY <1>5 DEF F!Land
  <2>4. FrameTypes' /\ disk' \in [FetchWorkers -> F!Files \cup {None}]
    <3>1. disk' \in [FetchWorkers -> F!Files \cup {None}]
      BY <2>1, <2>2 DEF Types, F!TypeOK
    <3>2. frame' = [frame EXCEPT ![w].pc = "landed", ![w].file = file]
      BY <2>1
    <3> HIDE <2>1
    <3>3. FrameTypes'
      BY <2>2, <3>2, ZenonT(40) DEF Types, FrameTypes
    <3> QED BY <3>1, <3>3
  <2> QED BY <1>1, <1>2, <1>3, <2>1, <2>2, <2>3, <2>4 DEF Types, F!TypeOK, TickTypes
<1>6. CASE F!Done(w)
  <2>1. UNCHANGED <<disk, listed>> /\ frame' = [frame EXCEPT ![w] = F!NoFrame]
    BY <1>6 DEF F!Done
  <2>2. hashes' = hashes \/ (frame[w].entry # None /\ hashes' = F!Recorded("bare", frame[w].file))
    BY <1>6 DEF F!Done
  <2>3. hashes' \in [{"path", "bare"} -> F!Files \cup {None, Conflict}]
    BY <1>6, <2>2, RecordedTyped DEF F!Done, Types, F!TypeOK, FileLanded
  <2>4. download' = download \/ download' = [download EXCEPT ![frame[w].job].status = "done"]
    BY <1>6 DEF F!Done
  <2>5. download' \in [Requests -> [status: F!Live \cup {"none", "done", "failed", "cancelled"},
                               worker: FetchWorkers \cup {None}, entry: F!Entries]]
    <3>1. ASSUME NEW r, download' = [download EXCEPT ![r].status = "done"]
          PROVE  download' \in [Requests -> [status: F!Live \cup {"none", "done", "failed", "cancelled"},
                                        worker: FetchWorkers \cup {None}, entry: F!Entries]]
      BY <3>1 DEF Types, F!TypeOK
    <3>2. CASE download' = download
      BY <3>2 DEF Types, F!TypeOK
    <3> QED BY <2>4, <3>1, <3>2
  <2>6. FrameTypes'
    BY <2>1 DEF Types, FrameTypes, F!NoFrame, F!Entries
  <2> QED BY <1>1, <1>2, <2>1, <2>3, <2>5, <2>6 DEF Types, F!TypeOK, TickTypes
<1>7. CASE F!Fail(w)
  <2>1. UNCHANGED <<hashes, disk, listed>> /\ frame' = [frame EXCEPT ![w] = F!NoFrame]
    BY <1>7 DEF F!Fail
  <2>2. download' = download \/ \E became \in {"queued", "failed"} :
            download' = [download EXCEPT ![frame[w].job].status = became, ![frame[w].job].worker = None]
    BY <1>7 DEF F!Fail
  <2>3. download' \in [Requests -> [status: F!Live \cup {"none", "done", "failed", "cancelled"},
                               worker: FetchWorkers \cup {None}, entry: F!Entries]]
    BY <2>2 DEF Types, F!TypeOK, F!Live
  <2>4. FrameTypes'
    BY <2>1 DEF Types, FrameTypes, F!NoFrame, F!Entries
  <2> QED BY <1>1, <1>2, <2>1, <2>3, <2>4 DEF Types, F!TypeOK, TickTypes
<1>8. CASE F!Leave(w) \/ F!Return(w) \/ F!Remove(w)
  <2>1. UNCHANGED <<hashes, listed, download>> /\ disk' \in [FetchWorkers -> F!Files \cup {None}]
    BY <1>8 DEF F!Leave, F!Return, F!Remove, Types, F!TypeOK
  <2>2. FrameTypes'
    <3>1. F!NoFrame \in [pc: {"rest", "pushed", "landed"}, job: Requests \cup {None},
                       entry: F!Entries, read: BOOLEAN, known: F!Entries, file: F!Files \cup {None}]
      BY DEF F!NoFrame, F!Entries
    <3>2. frame' = frame \/ frame' = [frame EXCEPT ![w] = F!NoFrame]
      BY <1>8 DEF F!Leave, F!Return, F!Remove
    <3> QED BY <3>1, <3>2 DEF Types, FrameTypes
  <2> QED BY <1>1, <1>2, <2>1, <2>2 DEF Types, F!TypeOK, TickTypes
<1> QED BY <1>4, <1>5, <1>6, <1>7, <1>8 DEF Works

----------------------------------------------------------------------------
(* The invariant of the downloads, part by part. *)

LEMMA AloneStep ==
    ASSUME Types, Alone, F!Next
    PROVE  Alone'
<1>1. CASE UNCHANGED <<request, pressed>> /\ F!LiveJobs' \subseteq F!LiveJobs
  BY <1>1 DEF Alone, Pressing
<1>2. ASSUME NEW r \in Requests, Jobwise(r)
      PROVE  Alone'
  <2>1. CASE F!Ask(r)
    <3>1. F!LiveJobs' = F!LiveJobs
      BY <2>1 DEF F!Ask, F!LiveJobs
    <3>2. ~pressed' => ~pressed /\ Pressing = {}
      BY <2>1 DEF F!Ask, Pressing
    <3>3. Pressing' \subseteq {r} \cup Pressing
      BY <2>1 DEF F!Ask, Pressing, F!Over, Types, F!TypeOK
    <3>4. \A q \in Requests : request'[q].pc \in {"look", "insert"} => request[q].pc \in {"look", "insert"}
      BY <2>1, ZenonT(40) DEF F!Ask, F!Over, Types, F!TypeOK
    <3> QED BY <3>1, <3>2, <3>3, <3>4 DEF Alone
  <2>2. CASE F!Find(r) \/ F!LookUp(r)
    <3>1. F!LiveJobs' = F!LiveJobs /\ pressed' = pressed
      BY <2>2 DEF F!Find, F!LookUp, F!LiveJobs
    <3>2. request[r].pc \in {"find", "look"} /\ request' = [request EXCEPT ![r] = request'[r]]
      BY <2>2 DEF F!Find, F!LookUp, F!Over, Types, F!TypeOK
    <3>3. Pressing' \subseteq Pressing
      BY <3>2 DEF Pressing, Types, F!TypeOK
    <3>4. request'[r].pc \in {"look", "insert"} => F!LiveJobs = {} \/ request[r].pc \in {"look", "insert"}
      BY <2>2 DEF F!Find, F!LookUp, F!Over, F!Active, Types, F!TypeOK
    <3>5. \A q \in Requests : q # r => request'[q] = request[q]
      BY <3>2 DEF Types, F!TypeOK
    <3> QED BY <3>1, <3>3, <3>4, <3>5 DEF Alone
  <2>3. CASE F!Insert(r)
    <3>1. request' = [request EXCEPT ![r].pc = "over"] /\ pressed' = pressed /\ request[r].pc = "insert"
      BY <2>3 DEF F!Insert, F!Over
    <3>2. F!LiveJobs' \subseteq F!LiveJobs \cup {r}
      BY <2>3 DEF F!Insert, F!LiveJobs, Types, F!TypeOK
    <3>3. Pressing' = Pressing \ {r}
      BY <3>1 DEF Pressing, Types, F!TypeOK
    <3>4. r \in Pressing
      BY <3>1 DEF Pressing
    <3>5. SUFFICES ASSUME ~pressed PROVE Alone'
      BY <3>1 DEF Alone
    <3>6. Pressing' = {} /\ F!LiveJobs = {}
      BY <3>1, <3>3, <3>4, <3>5 DEF Alone
    <3>7. \A q \in Requests : request'[q].pc \notin {"look", "insert"}
      BY <3>6 DEF Pressing
    <3> QED BY <3>2, <3>6, <3>7 DEF Alone
  <2>4. CASE F!TakeBack(r) \/ F!Cancel(r)
    <3>1. F!LiveJobs' \subseteq F!LiveJobs
      BY <2>4 DEF F!TakeBack, F!Cancel, F!LiveJobs, F!Live, Types, F!TypeOK
    <3> QED BY <1>1, <2>4, <3>1 DEF F!TakeBack, F!Cancel
  <2>5. CASE F!Retry(r)
    BY <2>5 DEF F!Retry, Alone
  <2> QED BY <1>2, <2>1, <2>2, <2>3, <2>4, <2>5 DEF Jobwise
<1>3. CASE Ticks
  <2>1. UNCHANGED <<request, pressed>>
    BY <1>3 DEF Ticks, F!ReadManifest, F!Merge, F!Match, F!Push
  <2>2. F!LiveJobs' \subseteq F!LiveJobs
    BY <1>3 DEF Ticks, F!ReadManifest, F!Merge, F!Match, F!Push, F!LiveJobs, F!Queued, F!Live, Types, F!TypeOK
  <2> QED BY <1>1, <2>1, <2>2, SMTT(30)
<1>4. ASSUME NEW w \in FetchWorkers, Works(w)
      PROVE  Alone'
  <2>1. UNCHANGED <<request, pressed>>
    BY <1>4, SMTT(30) DEF Works, F!Rescan, F!Land, F!Done, F!Fail, F!Leave, F!Return, F!Remove
  <2>2. F!LiveJobs' \subseteq F!LiveJobs
    BY <1>4 DEF Works, F!Rescan, F!Land, F!Done, F!Fail, F!Leave, F!Return, F!Remove, F!LiveJobs, F!Live, Types, F!TypeOK
  <2> QED BY <1>1, <2>1, <2>2
<1> QED BY <1>2, <1>3, <1>4 DEF F!Next, Jobwise, Ticks, Works

LEMMA KnownStep ==
    ASSUME Types, KnownWins, F!Next
    PROVE  KnownWins'
<1>1. CASE UNCHANGED tick /\ (UNCHANGED frame \/ \E w \in FetchWorkers : frame' = [frame EXCEPT ![w] = F!NoFrame])
  <2>1. Wins(F!NoFrame)
    BY DEF Wins, F!NoFrame
  <2> QED BY <1>1, <2>1 DEF KnownWins, Wins, Types, FrameTypes
<1>2. CASE \E r \in Requests : Jobwise(r)
  BY <1>1, <1>2 DEF Jobwise, F!Ask, F!Find, F!LookUp, F!Insert, F!TakeBack, F!Cancel, F!Retry
<1>3. CASE F!ReadManifest
  <2>1. CASE tick' = [tick EXCEPT !.pc = "merge"]
    BY <1>3, <2>1 DEF F!ReadManifest, KnownWins, Wins, Types, TickTypes
  <2>2. ASSUME NEW e \in F!Manifest,
               tick' = [tick EXCEPT !.pc = "merge", !.entry = e, !.known = e, !.read = TRUE]
        PROVE  KnownWins'
    <3>1. tick'.entry = e /\ tick'.known = e
      BY <2>2 DEF Types, TickTypes
    <3>2. e # None => e.sha \in F!Files
      BY ManifestHashed
    <3> QED BY <1>3, <3>1, <3>2 DEF F!ReadManifest, KnownWins, Wins
  <2> QED BY <1>3, <2>1, <2>2 DEF F!ReadManifest
<1>4. CASE F!Merge
  <2>1. UNCHANGED frame /\ tick'.known = tick.known /\ tick'.read = tick.read
    BY <1>4 DEF F!Merge, Types, TickTypes
  <2>2. tick.entry # None => tick'.entry = tick.entry
    BY <1>4 DEF F!Merge, F!Merged, Types, TickTypes
  <2> QED BY <2>1, <2>2 DEF KnownWins, Wins
<1>5. CASE F!Match
  <2>1. UNCHANGED frame
    BY <1>5 DEF F!Match
  <2>2. CASE tick' = F!NoTick
    BY <2>1, <2>2 DEF KnownWins, Wins, F!NoTick
  <2>3. CASE tick'.known = tick.known /\ tick'.read = tick.read /\ tick'.entry = tick.entry
    BY <2>1, <2>3 DEF KnownWins, Wins
  <2> QED BY <1>5, <2>2, <2>3 DEF F!Match, Types, TickTypes
<1>6. CASE F!Push
  <2>1. tick' = F!NoTick
    BY <1>6 DEF F!Push
  <2>2. Wins(F!NoTick) /\ F!NoTick.known = None
    BY DEF Wins, F!NoTick
  <2>3. ASSUME NEW w \in FetchWorkers
        PROVE  Wins(frame'[w])
    <3>1. CASE frame'[w] = frame[w]
      BY <3>1 DEF KnownWins
    <3>2. CASE frame'[w] # frame[w]
      <4>1. /\ frame'[w].known = tick.known /\ frame'[w].read = tick.read
            /\ frame'[w].entry \in {None, tick.entry}
        BY <1>6, <3>2 DEF F!Push, F!NoFrame, Types, FrameTypes
      <4> QED BY <4>1 DEF KnownWins, Wins
    <3> QED BY <3>1, <3>2
  <2> QED BY <2>1, <2>2, <2>3 DEF KnownWins
<1>7. ASSUME NEW w \in FetchWorkers, Works(w)
      PROVE  KnownWins'
  <2>1. UNCHANGED tick
    BY <1>7 DEF Works, F!Rescan, F!Land, F!Done, F!Fail, F!Leave, F!Return, F!Remove
  <2>2. CASE F!Land(w)
    <3>1. \A v \in FetchWorkers : /\ frame'[v].known = frame[v].known /\ frame'[v].read = frame[v].read
                                  /\ frame'[v].entry = frame[v].entry
      BY <2>2 DEF F!Land, Types, FrameTypes
    <3> QED BY <2>1, <3>1 DEF KnownWins, Wins
  <2>3. CASE ~F!Land(w)
    BY <1>1, <1>7, <2>1, <2>3 DEF Works, F!Rescan, F!Done, F!Fail, F!Leave, F!Return, F!Remove
  <2> QED BY <2>2, <2>3, SMTT(30)
<1> QED BY <1>2, <1>3, <1>4, <1>5, <1>6, <1>7 DEF F!Next, Jobwise, Works

\* A step that changes no worker's side, and no job that is done.
LEMMA ThereStands ==
    ASSUME There, FileLanded, DoneByWorker,
           UNCHANGED <<disk, listed, frame, removed>>,
           \A q \in Requests : download'[q].status = "done" => download'[q] = download[q],
           ~removed /\ tick'.pc = "push" =>
               tick'.entry # None \/ (tick'.worker \in FetchWorkers /\ listed[tick'.worker] # None)
    PROVE  There' /\ FileLanded' /\ DoneByWorker'
BY DEF There, FileLanded, DoneByWorker, F!DoneIsThere

\* A worker's step: what it has stays, or somebody removed it.
LEMMA WorkThere ==
    ASSUME Types, There, FileLanded, DoneByWorker, NEW w \in FetchWorkers, Works(w)
    PROVE  There' /\ FileLanded' /\ DoneByWorker'
<1>0. UNCHANGED tick
  BY DEF Works, F!Rescan, F!Land, F!Done, F!Fail, F!Leave, F!Return, F!Remove
<1>1. ASSUME UNCHANGED <<disk, listed, removed>>,
             frame' = frame \/ frame' = [frame EXCEPT ![w] = F!NoFrame],
             \A r \in Requests : download'[r].status = "done" =>
                 download'[r] = download[r] \/ (download'[r].worker \in FetchWorkers /\ (~removed => disk[download'[r].worker] # None))
      PROVE  There' /\ FileLanded' /\ DoneByWorker'
  <2>1. \A v \in FetchWorkers : frame'[v].pc = "rest" \/ frame'[v] = frame[v]
    BY <1>1 DEF F!NoFrame, Types, FrameTypes
  <2>2. FileLanded' /\ DoneByWorker'
    BY <1>1, <2>1 DEF FileLanded, DoneByWorker
  <2>3. There'
    BY <1>0, <1>1, <2>1 DEF There, F!DoneIsThere
  <2> QED BY <2>2, <2>3
<1>2. CASE F!Leave(w) \/ F!Return(w)
  BY <1>1, <1>2 DEF F!Leave, F!Return
<1>3. CASE F!Fail(w)
  <2>1. \A r \in Requests : download'[r].status = "done" => download'[r] = download[r]
    BY <1>3 DEF F!Fail, Types, F!TypeOK
  <2> QED BY <1>1, <1>3, <2>1 DEF F!Fail
<1>4. CASE F!Done(w)
  <2>1. ~removed => disk[w] # None
    BY <1>4 DEF F!Done, There
  <2>2. \A r \in Requests : download'[r].status = "done" => download'[r] = download[r] \/ download'[r].worker = w
    BY <1>4 DEF F!Done, Types, F!TypeOK
  <2> QED BY <1>1, <1>4, <2>1, <2>2 DEF F!Done
<1>5. CASE F!Remove(w)
  <2>1. There'
    BY <1>5 DEF F!Remove, There
  <2> QED BY <1>5, <2>1 DEF F!Remove, FileLanded, DoneByWorker
<1>6. CASE F!Rescan(w)
  <2>1. UNCHANGED <<disk, frame, download, removed>>
    BY <1>6 DEF F!Rescan
  <2>2. PICK seen \in F!Seen(disk[w]) : listed' = [listed EXCEPT ![w] = seen]
    BY <1>6 DEF F!Rescan, F!Inventory
  <2>3. ~removed => \A v \in FetchWorkers : /\ listed'[v] # None => disk[v] # None
                                            /\ listed[v] # None => listed'[v] # None
    <3>1. /\ disk[w] # None => seen # None
          /\ disk[w] = None => seen = None
      BY FetchJobsAssumption DEF F!Seen, Types, F!TypeOK, F!Files, F!Unhashed
    <3> QED BY <2>2, <3>1 DEF There, Types, F!TypeOK
  <2> QED BY <1>0, <2>1, <2>3 DEF There, F!DoneIsThere, FileLanded, DoneByWorker
<1>7. CASE F!Land(w)
  <2>1. UNCHANGED <<download, removed>> /\ frame[w].pc = "pushed"
    BY <1>7 DEF F!Land
  <2>2. PICK file :
            /\ file \in CASE frame[w].entry = None -> {disk[w]}
                          [] frame[w].entry # None /\ frame[w].entry.sha = None -> F!Files
                          [] OTHER -> {frame[w].entry.sha}
            /\ disk' = [disk EXCEPT ![w] = file]
            /\ \E seen \in F!Seen(file) : F!Inventory(w, seen)
            /\ frame' = [frame EXCEPT ![w].pc = "landed", ![w].file = file]
    BY <1>7 DEF F!Land
  <2>3. frame[w].entry # None => file \in F!Files
    <3>1. frame[w].entry # None => frame[w].entry.sha \in F!Files \cup {None}
      BY DEF Types, FrameTypes, F!Entries, F!Entry
    <3> QED BY <2>2, <3>1
  <2>4. frame[w].entry = None => file = disk[w]
    BY <2>2
  <2>5. ~removed => file # None
    BY <2>1, <2>3, <2>4, FetchJobsAssumption DEF There, F!Files
  <2>6. ~removed => \A v \in FetchWorkers : listed'[v] # None => disk'[v] # None
    BY <2>2, <2>5 DEF F!Inventory, There, Types, F!TypeOK
  <2>7. ~removed => \A v \in FetchWorkers : listed[v] # None => listed'[v] # None
    <3>1. PICK seen \in F!Seen(file) : F!Inventory(w, seen)
      BY <2>2
    <3>2. ~removed => seen # None
      BY <2>5, <3>1, FetchJobsAssumption DEF F!Seen, F!Unhashed
    <3> QED BY <3>1, <3>2 DEF F!Inventory, Types, F!TypeOK
  <2>8. \A v \in FetchWorkers : /\ disk[v] # None /\ ~removed => disk'[v] # None
                                /\ v # w => frame'[v] = frame[v] /\ disk'[v] = disk[v]
    BY <2>2, <2>5 DEF Types, F!TypeOK, FrameTypes
  <2>9. /\ frame'[w].pc = "landed" /\ frame'[w].file = file /\ frame'[w].entry = frame[w].entry
        /\ disk'[w] = file
    BY <2>2 DEF Types, F!TypeOK, FrameTypes
  <2> HIDE <2>2
  <2>10. FileLanded' /\ DoneByWorker'
    BY <2>1, <2>3, <2>8, <2>9 DEF FileLanded, DoneByWorker
  <2>11. There'
    <3> SUFFICES ASSUME ~removed
                 PROVE  /\ \A v \in FetchWorkers : listed'[v] # None => disk'[v] # None
                        /\ tick.pc = "push" => tick.entry # None \/ (tick.worker \in FetchWorkers /\ listed'[tick.worker] # None)
                        /\ \A v \in FetchWorkers :
                              /\ frame'[v].pc = "pushed" => frame'[v].entry # None \/ disk'[v] # None
                              /\ frame'[v].pc = "landed" => disk'[v] # None
                        /\ \A r \in Requests : download[r].status = "done" => disk'[download[r].worker] # None
      BY <1>0, <2>1 DEF There, F!DoneIsThere
    <3>1. \A r \in Requests : download[r].status = "done" => disk'[download[r].worker] # None
      BY <2>8 DEF There, F!DoneIsThere, DoneByWorker
    <3>2. \A v \in FetchWorkers :
              /\ frame'[v].pc = "pushed" => frame'[v].entry # None \/ disk'[v] # None
              /\ frame'[v].pc = "landed" => disk'[v] # None
      BY <2>5, <2>8, <2>9 DEF There
    <3> QED BY <2>6, <2>7, <3>1, <3>2 DEF There
  <2> QED BY <2>10, <2>11
<1> QED BY <1>2, <1>3, <1>4, <1>5, <1>6, <1>7 DEF Works

LEMMA ThereStep ==
    ASSUME Types, There, FileLanded, DoneByWorker, F!Next
    PROVE  There' /\ FileLanded' /\ DoneByWorker'
<1>0. ~removed /\ tick.pc = "push" =>
          tick.entry # None \/ (tick.worker \in FetchWorkers /\ listed[tick.worker] # None)
  BY DEF There
<1>1. ASSUME NEW r \in Requests, Jobwise(r)
      PROVE  There' /\ FileLanded' /\ DoneByWorker'
  <2>1. UNCHANGED <<disk, listed, frame, removed, tick>>
    BY <1>1 DEF Jobwise, F!Ask, F!Find, F!LookUp, F!Insert, F!TakeBack, F!Cancel, F!Retry
  <2>2. \A q \in Requests : download'[q].status = "done" => download'[q] = download[q]
    BY <1>1, ZenonT(40) DEF Jobwise, F!Ask, F!Find, F!LookUp, F!Insert, F!TakeBack,
                            F!Cancel, F!Retry, F!NoJob, Types, F!TypeOK
  <2> QED BY <1>0, <2>1, <2>2, ThereStands
<1>2. CASE F!ReadManifest \/ F!Merge
  <2>1. UNCHANGED <<disk, listed, frame, removed, download>> /\ tick'.pc # "push"
    BY <1>2 DEF F!ReadManifest, F!Merge, Types, TickTypes
  <2> QED BY <2>1, ThereStands
<1>3. CASE F!Match
  <2>1. UNCHANGED <<disk, listed, frame, removed>>
    BY <1>3 DEF F!Match
  <2>2. \A q \in Requests : download'[q].status = "done" => download'[q] = download[q]
    <3>1. \/ download' = download
          \/ \E r \in Requests, w \in FetchWorkers : download' = [download EXCEPT ![r].status = "assigned", ![r].worker = w]
      BY <1>3 DEF F!Match, F!Queued, Types
    <3>2. ASSUME NEW r \in Requests, NEW w \in FetchWorkers,
                 download' = [download EXCEPT ![r].status = "assigned", ![r].worker = w],
                 NEW q \in Requests, download'[q].status = "done"
          PROVE  download'[q] = download[q]
      BY <3>2 DEF Types, F!TypeOK
    <3> QED BY <3>1, <3>2
  <2>3. tick'.pc = "push" => tick'.entry # None \/ (tick'.worker \in FetchWorkers /\ listed[tick'.worker] # None)
    <3>1. CASE tick' = F!NoTick
      BY <3>1 DEF F!NoTick
    <3>2. ASSUME NEW r \in Requests, NEW w \in online, F!MayRun(w),
                 tick' = [tick EXCEPT !.pc = "push", !.job = r, !.worker = w]
          PROVE  tick'.entry # None \/ (tick'.worker \in FetchWorkers /\ listed[tick'.worker] # None)
      <4>1. tick'.entry = tick.entry /\ tick'.worker = w /\ w \in FetchWorkers
        BY <3>2 DEF Types, TickTypes
      <4> QED BY <3>2, <4>1 DEF F!MayRun
    <3>3. tick' = F!NoTick \/ \E r \in Requests, w \in online :
              F!MayRun(w) /\ tick' = [tick EXCEPT !.pc = "push", !.job = r, !.worker = w]
      BY <1>3 DEF F!Match, F!Queued
    <3> QED BY <3>1, <3>2, <3>3
  <2> QED BY <2>1, <2>2, <2>3, ThereStands
<1>4. CASE F!Push
  <2>1. UNCHANGED <<disk, listed, download, removed>> /\ tick'.pc = "rest"
    BY <1>4 DEF F!Push, F!NoTick
  <2>2. \A v \in FetchWorkers :
            \/ frame'[v] = frame[v]
            \/ /\ frame'[v].pc = "pushed"
               /\ ~removed => frame'[v].entry # None \/ disk[v] # None
    BY <1>0, <1>4 DEF F!Push, F!NoFrame, There, Types, TickTypes, FrameTypes
  <2>3. FileLanded' /\ DoneByWorker'
    BY <2>1, <2>2 DEF FileLanded, DoneByWorker
  <2>4. There'
    BY <2>1, <2>2 DEF There, F!DoneIsThere
  <2> QED BY <2>3, <2>4
<1>5. ASSUME NEW w \in FetchWorkers, Works(w)
      PROVE  There' /\ FileLanded' /\ DoneByWorker'
  BY <1>5, WorkThere
<1> QED BY <1>1, <1>2, <1>3, <1>4, <1>5 DEF F!Next, Jobwise, Works

\* A press of the button brings one download, checked as well as it can be, and done
\* when the file is there, for any number of workers, requests and failures.
LEMMA DownloadsSound == F!Spec => []F!FetchJobsSound
<1>1. DownloadsInv /\ [F!Next]_(F!vars) => DownloadsInv'
  <2> SUFFICES ASSUME DownloadsInv, [F!Next]_(F!vars) PROVE DownloadsInv'
    OBVIOUS
  <2>1. CASE UNCHANGED F!vars
    BY <2>1 DEF F!vars, DownloadsInv, Types, F!TypeOK, TickTypes, FrameTypes, Alone, Pressing, F!LiveJobs,
                KnownWins, Wins, There, F!DoneIsThere, FileLanded, DoneByWorker
  <2>2. CASE F!Next
    <3>1. Types'
      BY <2>2, JobwiseTypes, TickTyped, WorkTypes DEF DownloadsInv, F!Next, Jobwise, Ticks, Works
    <3> QED BY <2>2, <3>1, AloneStep, KnownStep, ThereStep DEF DownloadsInv
  <2> QED BY <2>1, <2>2
<1>2. DownloadsInv => F!FetchJobsSound
  <2> SUFFICES ASSUME DownloadsInv PROVE F!FetchJobsSound
    OBVIOUS
  <2>1. F!OneDownload
    <3> SUFFICES ASSUME ~pressed PROVE Cardinality(F!LiveJobs) <= 1
      BY DownloadCardinality DEF F!OneDownload
    <3>1. CASE F!LiveJobs = {}
      BY <3>1, FS_EmptySet
    <3>2. ASSUME NEW r \in F!LiveJobs PROVE Cardinality(F!LiveJobs) <= 1
      <4>1. F!LiveJobs = {r}
        BY <3>2 DEF DownloadsInv, Alone
      <4>2. Cardinality({r}) = 1
        BY FS_Singleton
      <4> QED BY <4>1, <4>2
    <3> QED BY <3>1, <3>2
  <2>2. F!CheckedIfKnown
    BY FetchJobsAssumption DEF DownloadsInv, KnownWins, Wins, F!CheckedIfKnown, F!Files
  <2>3. F!DoneIsThere
    BY DEF DownloadsInv, There, F!DoneIsThere
  <2> QED BY <2>1, <2>2, <2>3 DEF F!FetchJobsSound, DownloadsInv, Types
<1> QED BY <1>1, <1>2, InitDownloads, PTL DEF F!Spec

----------------------------------------------------------------------------
(* What completions teach *)

Tables == UNION {[K -> L!Row] : K \in {K \in SUBSET L!Keys : IsFiniteSet(K)}}

Speeds == [Runners -> 10 .. 1000] \cup {L!Empty}

Knowns == [rows: Tables, speeds: Speeds]

LaterReceipts == {run \in L!Receipt : run.kind # "old"}

Teachings ==
    [pc: {"rows", "speeds", "upsert", "speed", "receipt"}, run: LaterReceipts, rows: Tables, speeds: Speeds]

Fills ==
    {L!NoFill} \cup [pc: {"read"}, learnt: {None}, of: {{}}]
        \cup [pc: {"write", "flag"}, learnt: Knowns, of: SUBSET Runners]

\* The replay ends before the flag is set, and speeds are written of workers it knew.
LearnTypes ==
    /\ table \in Tables
    /\ speed \in [Runners -> 10 .. 1000]
    /\ flag \in BOOLEAN /\ clean \in BOOLEAN /\ died \in BOOLEAN
    /\ receipts \in Seq(L!Receipt)
    /\ learning \in [Learners -> {L!Rest} \cup Teachings]
    /\ fill \in Fills
    /\ fill.pc = "write" => fill.of \subseteq DOMAIN fill.learnt.speeds
    /\ fill # L!NoFill => ~flag

\* The receipts of a key, and the handlers that have taught it and owe theirs.
Earned(k) == {i \in DOMAIN receipts : receipts[i].key = k}
Owing(k) == {h \in Learners : learning[h].pc \in {"speed", "receipt"} /\ learning[h].run.key = k}

Had(k) == Cardinality(Earned(k)) + Cardinality(Owing(k))

Backed(t) == \A k \in DOMAIN t : t[k].samples <= Had(k)

\* No row counts more, neither one that was read nor one that is about to be written.
NoneTwice ==
    ~died =>
        /\ Backed(table)
        /\ \A h \in Learners : learning[h].pc \in {"speeds", "upsert"} => Backed(learning[h].rows)
        /\ fill.pc = "write" =>
              \A k \in DOMAIN fill.learnt.rows : fill.learnt.rows[k].samples <= Cardinality(Earned(k))

\* What the receipts taught, and that it is what the tables hold.
Known == L!Replay(receipts, L!Lessons, PriorOf)
Holds(known) == table = known.rows /\ L!Effective(table, speed) = known.speeds

\* How far a handler is that nobody crosses.
Reached(s) ==
    /\ s.pc # "receipt" => s.run.kind = "whole"
    /\ s.pc \in {"rows", "speeds", "upsert"} => Holds(Known)
    /\ s.pc \in {"speeds", "upsert"} => s.rows = table
    /\ s.pc = "upsert" => s.speeds = Known.speeds
    /\ s.pc = "speed" =>
          /\ s.rows = Known.rows /\ s.speeds = Known.speeds
          /\ table = L!NextRows(s.rows, s.run.key, s.run.seconds)
          /\ L!Effective(s.rows, speed) = s.speeds
    /\ s.pc = "receipt" =>
          Holds(IF s.run.kind = "whole" THEN L!Learn(Known, s.run) ELSE Known)

\* Before the flag is set nobody learns but the replay.
Before ==
    /\ \A h \in Learners : learning[h] = L!Rest
    /\ \A i \in DOMAIN receipts : receipts[i].kind = "old"
    /\ fill = L!NoFill => table = L!Empty \/ Holds(Known)
    /\ fill.pc \in {"read", "write"} => table = L!Empty
    /\ fill.pc = "write" =>
          fill.learnt = Known /\ fill.of = {receipts[i].key[1] : i \in L!Lessons}
    /\ fill.pc = "flag" => Holds(Known)

\* After it, one handler at a time.
After ==
    /\ \A g, h \in Learners : g # h => learning[g] = L!Rest \/ learning[h] = L!Rest
    /\ (\A h \in Learners : learning[h] = L!Rest) => Holds(Known)
    /\ \A h \in Learners : learning[h] # L!Rest => Reached(learning[h])

InOrder == clean /\ ~died => (~flag => Before) /\ (flag => After)

LearnInv == LearnTypes /\ NoneTwice /\ InOrder

----------------------------------------------------------------------------
(* Middles, and what a run does to what is known *)

LEMMA LearnCardinality == ASSUME NEW T PROVE L!Cardinality(T) = Cardinality(T)
BY DEF L!Cardinality, Cardinality

LEMMA LeastNumber ==
    ASSUME NEW T \in SUBSET Nat, T # {}
    PROVE  L!Min(T) \in T /\ \A u \in T : L!Min(T) <= u
<1>1. PICK t \in T : \A u \in T : ~(<<u, t>> \in OpToRel(<, Nat))
  BY NatLessThanWellFounded, WFMin
<1>2. \A u \in T : t <= u
  <2> SUFFICES ASSUME NEW u \in T, u < t PROVE FALSE
    OBVIOUS
  <2>1. <<u, t>> \in OpToRel(<, Nat)
    BY DEF OpToRel
  <2> QED BY <1>1, <2>1
<1> QED BY <1>2 DEF L!Min

\* A value of a finite set's function that no other exceeds.
LEMMA HighestOf ==
    ASSUME NEW D, IsFiniteSet(D), D # {}, NEW f \in [D -> Nat]
    PROVE  \E x \in D : \A y \in D : f[y] <= f[x]
<1> DEFINE Below == [x \in D |-> {y \in D : f[y] <= f[x]}]
           T == {Cardinality(D) - Cardinality(Below[x]) : x \in D}
<1>1. ASSUME NEW x \in D
      PROVE  IsFiniteSet(Below[x]) /\ Cardinality(Below[x]) \in Nat /\ Cardinality(Below[x]) <= Cardinality(D)
  <2>1. Below[x] \subseteq D
    OBVIOUS
  <2> QED BY <2>1, FS_Subset, FS_CardinalityType
<1>2. Cardinality(D) \in Nat
  BY FS_CardinalityType
<1>3. T \in SUBSET Nat /\ T # {}
  <2>1. ASSUME NEW x \in D PROVE Cardinality(D) - Cardinality(Below[x]) \in Nat
    <3> HIDE DEF Below
    <3> QED BY <1>1, <1>2
  <2> HIDE DEF Below
  <2> QED BY <2>1
<1>4. PICK x \in D : \A y \in D : Cardinality(D) - Cardinality(Below[x]) <= Cardinality(D) - Cardinality(Below[y])
  <2> HIDE DEF Below
  <2>1. L!Min(T) \in T /\ \A u \in T : L!Min(T) <= u
    <3> HIDE DEF T
    <3> QED BY <1>3, LeastNumber
  <2> QED BY <2>1
<1>5. ASSUME NEW z \in D, ~(f[z] <= f[x]) PROVE FALSE
  <2>1. Below[x] \subseteq Below[z] /\ z \in Below[z] /\ z \notin Below[x]
    BY <1>5
  <2>2. Cardinality(Below[x]) < Cardinality(Below[z])
    <3> HIDE DEF Below
    <3>1. Cardinality(Below[x]) <= Cardinality(Below[z])
      BY <1>1, <2>1, FS_Subset
    <3>2. Below[x] # Below[z]
      BY <2>1
    <3>3. Cardinality(Below[x]) # Cardinality(Below[z])
      BY <1>1, <2>1, <3>2, FS_Subset
    <3> QED BY <1>1, <3>1, <3>3
  <2>3. Cardinality(D) - Cardinality(Below[x]) <= Cardinality(D) - Cardinality(Below[z])
    BY <1>4
  <2> HIDE DEF Below
  <2> QED BY <1>1, <1>2, <2>2, <2>3
<1> QED BY <1>5

LEMMA NthIs ==
    ASSUME NEW D, IsFiniteSet(D), D # {}, NEW f \in [D -> Nat], NEW n \in Nat, n <= Cardinality(D)
    PROVE  L!Nth(f, n) \in Nat
<1> DEFINE T == {f[x] : x \in {x \in DOMAIN f : L!Cardinality({y \in DOMAIN f : f[y] <= f[x]}) >= n}}
<1>1. PICK x \in D : \A y \in D : f[y] <= f[x]
  BY HighestOf
<1>2. {y \in D : f[y] <= f[x]} = D
  BY <1>1
<1>3. Cardinality(D) \in Nat
  BY FS_CardinalityType
<1>4. f[x] \in T
  BY <1>2, <1>3, LearnCardinality
<1>5. T \in SUBSET Nat
  OBVIOUS
<1>6. L!Min(T) \in T
  <2> HIDE DEF T
  <2> QED BY <1>4, <1>5, LeastNumber
<1> QED BY <1>5, <1>6 DEF L!Nth

LEMMA MedianIs ==
    ASSUME NEW D, IsFiniteSet(D), NEW f \in [D -> Nat]
    PROVE  L!Median(f) = None \/ L!Median(f) \in Nat
<1> DEFINE n == Cardinality(D)
<1>1. n \in Nat /\ (n = 0 <=> D = {})
  BY FS_CardinalityType, FS_EmptySet
<1>2. CASE n = 0
  BY <1>2, LearnCardinality DEF L!Median
<1>3. CASE n # 0
  <2>1. D # {}
    BY <1>1, <1>3
  <2> HIDE DEF n
  <2>2. (n + 1) \div 2 \in Nat /\ (n + 1) \div 2 <= n
    BY <1>1, <1>3
  <2>3. n \div 2 + 1 \in Nat /\ n \div 2 + 1 <= n
    BY <1>1, <1>3
  <2>4. L!Nth(f, (n + 1) \div 2) \in Nat
    BY <2>1, <2>2, NthIs DEF n
  <2>5. L!Nth(f, n \div 2 + 1) \in Nat
    BY <2>1, <2>3, NthIs DEF n
  <2>6. L!Median(f) = (L!Nth(f, (n + 1) \div 2) + L!Nth(f, n \div 2 + 1)) \div 2
    BY <1>3, LearnCardinality DEF L!Median, n
  <2>7. \A a, b \in Nat : (a + b) \div 2 \in Nat
    OBVIOUS
  <2> QED BY <2>4, <2>5, <2>6, <2>7
<1> QED BY <1>2, <1>3

LEMMA TableIs ==
    ASSUME NEW t
    PROVE  t \in Tables <=> /\ DOMAIN t \subseteq L!Keys /\ IsFiniteSet(DOMAIN t)
                            /\ t \in [DOMAIN t -> L!Row]
BY DEF Tables

LEMMA EmptyIs == L!Empty \in Tables /\ L!Empty \in Speeds /\ DOMAIN L!Empty = {}
<1>1. DOMAIN L!Empty = {} /\ L!Empty \in [{} -> L!Row]
  BY DEF L!Empty
<1>2. L!Empty \in [DOMAIN L!Empty -> L!Row] /\ IsFiniteSet(DOMAIN L!Empty)
  BY <1>1, FS_EmptySet
<1> QED BY <1>1, <1>2, TableIs, ZenonT(40) DEF Speeds

LEMMA ClampIs == ASSUME NEW i \in Int PROVE L!Clamp(i) \in 10 .. 1000
<1>1. L!Min({1000, i}) \in {1000, i}
  <2>1. \E x \in {1000, i} : \A y \in {1000, i} : x <= y
    OBVIOUS
  <2> QED BY <2>1 DEF L!Min
<1>2. L!Min({1000, i}) <= 1000
  <2>1. \E x \in {1000, i} : \A y \in {1000, i} : x <= y
    OBVIOUS
  <2> QED BY <2>1 DEF L!Min
<1> DEFINE m == L!Min({1000, i})
<1>3. m \in Int /\ m <= 1000
  BY <1>1, <1>2
<1> HIDE DEF m
<1>4. \E x \in {10, m} : \A y \in {10, m} : x >= y
  BY <1>3
<1>5. L!Max({10, m}) \in {10, m} /\ L!Max({10, m}) >= 10
  BY <1>4 DEF L!Max
<1> QED BY <1>3, <1>5 DEF L!Clamp, m

LEMMA SpeedInIs ==
    ASSUME NEW s \in Speeds, NEW w
    PROVE  L!SpeedIn(s, w) \in 10 .. 1000
<1>1. CASE s = L!Empty
  BY <1>1, EmptyIs DEF L!SpeedIn
<1>2. CASE s \in [Runners -> 10 .. 1000]
  BY <1>2 DEF L!SpeedIn
<1> QED BY <1>1, <1>2 DEF Speeds

LEMMA ReferenceIs ==
    ASSUME NEW t \in Tables, NEW s \in Speeds, NEW key
    PROVE  L!FleetReference(t, s, key) = None \/ L!FleetReference(t, s, key) \in Nat
<1> DEFINE D == {k \in DOMAIN t : k[2] = key[2] /\ k[1] # key[1]}
           f == [k \in D |-> (t[k].ewma * L!SpeedIn(s, k[1])) \div 100]
<1>1. IsFiniteSet(D)
  BY TableIs, FS_Subset
<1>2. ASSUME NEW k \in D PROVE (t[k].ewma * L!SpeedIn(s, k[1])) \div 100 \in Nat
  <2>1. t[k].ewma \in Nat
    BY TableIs DEF L!Row
  <2>2. L!SpeedIn(s, k[1]) \in Nat
    BY SpeedInIs
  <2>3. \A a, b \in Nat : (a * b) \div 100 \in Nat
    <3> SUFFICES ASSUME NEW a \in Nat, NEW b \in Nat PROVE (a * b) \div 100 \in Nat
      OBVIOUS
    <3>1. a * b \in Nat
      OBVIOUS
    <3> QED BY <3>1
  <2> QED BY <2>1, <2>2, <2>3
<1>3. f \in [D -> Nat]
  BY <1>2
<1>4. L!Median(f) = None \/ L!Median(f) \in Nat
  <2> HIDE DEF f, D
  <2> QED BY <1>1, <1>3, MedianIs
<1> QED BY <1>4 DEF L!FleetReference

LEMMA NextSpeedIs ==
    ASSUME NEW t \in Tables, NEW s \in Speeds, NEW key, NEW seconds \in Nat
    PROVE  L!NextSpeed(t, s, key, seconds) \in 10 .. 1000
<1> DEFINE reference == L!FleetReference(t, s, key)
           current == L!SpeedIn(s, key[1])
           ratio == (reference * 100) \div seconds
<1>1. current \in 10 .. 1000
  BY SpeedInIs
<1>2. reference = None \/ reference \in Nat
  BY ReferenceIs, SMTT(30)
<1>3. CASE reference = None \/ seconds <= 0
  BY <1>1, <1>3 DEF L!NextSpeed
<1>4. CASE reference # None /\ ~(seconds <= 0)
  <2> HIDE DEF reference, current
  <2>1. ratio \in Int
    BY <1>2, <1>4
  <2> HIDE DEF ratio
  <2>2. L!Blend(ratio, current) \in Int
    BY <1>1, <2>1 DEF L!Blend
  <2>3. L!Clamp(ratio) \in 10 .. 1000 /\ L!Clamp(L!Blend(ratio, current)) \in 10 .. 1000
    BY <2>1, <2>2, ClampIs, SMTT(30)
  <2>4. L!NextSpeed(t, s, key, seconds) = IF L!HasRun(t, key[1]) THEN L!Clamp(L!Blend(ratio, current)) ELSE L!Clamp(ratio)
    BY <1>4 DEF L!NextSpeed, ratio, reference, current
  <2> QED BY <2>3, <2>4
<1> QED BY <1>3, <1>4

\* A run adds its key's row or one sample to it, and only its worker's speed is another.
OneSampleMore(t, key, new) ==
    /\ DOMAIN new = DOMAIN t \cup {key}
    /\ \A k \in DOMAIN t : k # key => new[k] = t[k]
    /\ new[key].samples = IF key \in DOMAIN t THEN 1 + t[key].samples ELSE 1

LEMMA RowsAfter ==
    ASSUME NEW t \in Tables, NEW key \in L!Keys, NEW seconds \in Nat
    PROVE  /\ L!NextRows(t, key, seconds) \in Tables
           /\ OneSampleMore(t, key, L!NextRows(t, key, seconds))
<1> DEFINE new == L!NextRows(t, key, seconds)
<1>1. DOMAIN new = DOMAIN t \cup {key}
  BY DEF L!NextRows
<1>2. ASSUME NEW k \in DOMAIN t, k # key PROVE new[k] = t[k]
  BY <1>2 DEF L!NextRows
<1>3. new[key] = [ewma |-> L!NextEwma(t, key, seconds),
                  samples |-> IF key \in DOMAIN t THEN 1 + t[key].samples ELSE 1]
  <2>1. 1 + 0 = 1
    OBVIOUS
  <2> QED BY <2>1 DEF L!NextRows
<1>4. \A k \in DOMAIN t : t[k] \in L!Row
  BY TableIs
<1>5. L!NextEwma(t, key, seconds) \in Nat
  <2>1. CASE key \in DOMAIN t
    <3>1. t[key].ewma \in Nat
      BY <1>4, <2>1 DEF L!Row
    <3>2. \A a \in Nat : (3 * seconds + 7 * a) \div 10 \in Nat
      OBVIOUS
    <3> QED BY <2>1, <3>1, <3>2 DEF L!NextEwma, L!Blend
  <2>2. CASE key \notin DOMAIN t
    BY <2>2 DEF L!NextEwma
  <2> QED BY <2>1, <2>2
<1>6. new[key] \in L!Row
  <2>1. (IF key \in DOMAIN t THEN 1 + t[key].samples ELSE 1) \in Nat \ {0}
    BY <1>4 DEF L!Row
  <2> QED BY <1>3, <1>5, <2>1 DEF L!Row
<1>7. \A k \in DOMAIN new : new[k] \in L!Row
  BY <1>1, <1>2, <1>4, <1>6
<1>8. new \in [DOMAIN new -> L!Row]
  <2>1. new = [k \in DOMAIN new |-> new[k]]
    BY DEF L!NextRows
  <2> HIDE DEF new
  <2> QED BY <1>7, <2>1
<1>9. DOMAIN new \subseteq L!Keys /\ IsFiniteSet(DOMAIN new)
  BY <1>1, TableIs, FS_AddElement
<1>10. new \in Tables
  BY <1>8, <1>9, TableIs
<1> QED BY <1>1, <1>2, <1>3, <1>10 DEF OneSampleMore

LEMMA LearnIs ==
    ASSUME NEW known \in Knowns, NEW run \in L!Receipt
    PROVE  LET new == L!Learn(known, run)
           IN  /\ new \in Knowns
               /\ new.rows = L!NextRows(known.rows, run.key, run.seconds)
               /\ DOMAIN new.speeds = DOMAIN known.speeds
               /\ \A w \in DOMAIN known.speeds : w # run.key[1] => new.speeds[w] = known.speeds[w]
<1> DEFINE new == L!Learn(known, run)
           s == known.speeds
<1>1. known.rows \in Tables /\ s \in Speeds /\ run.key \in L!Keys /\ run.seconds \in Nat
  BY DEF Knowns, L!Receipt
<1>2. /\ new.rows = L!NextRows(known.rows, run.key, run.seconds)
      /\ new = [rows |-> new.rows, speeds |-> new.speeds]
      /\ new.speeds = IF run.key[1] \in DOMAIN s
                      THEN [s EXCEPT ![run.key[1]] = L!NextSpeed(known.rows, s, run.key, run.seconds)]
                      ELSE s
  BY DEF L!Learn
<1>3. new.rows \in Tables
  <2>1. L!NextRows(known.rows, run.key, run.seconds) \in Tables
    BY <1>1, RowsAfter
  <2> HIDE DEF new
  <2> QED BY <1>2, <2>1
<1>4. L!NextSpeed(known.rows, s, run.key, run.seconds) \in 10 .. 1000
  BY <1>1, NextSpeedIs
<1> HIDE DEF new, s
<1>5. new.speeds \in Speeds
  <2>1. CASE run.key[1] \in DOMAIN s
    <3>1. s \in [Runners -> 10 .. 1000]
      BY <1>1, <2>1, EmptyIs, ZenonT(40) DEF Speeds
    <3> DEFINE n == L!NextSpeed(known.rows, s, run.key, run.seconds)
    <3>2. n \in 10 .. 1000
      BY <1>4
    <3>3. new.speeds = [s EXCEPT ![run.key[1]] = n]
      BY <1>2, <2>1
    <3> DEFINE w == run.key[1]
               after == new.speeds
    <3> HIDE DEF n, w, after
    <3>4. after = [s EXCEPT ![w] = n]
      BY <3>3 DEF after, w
    <3>5. after \in [Runners -> 10 .. 1000]
      BY <3>1, <3>2, <3>4, ZenonT(40)
    <3> QED BY <3>5 DEF Speeds, after
  <2>2. CASE run.key[1] \notin DOMAIN s
    BY <1>1, <1>2, <2>2
  <2> QED BY <2>1, <2>2
<1>6. DOMAIN new.speeds = DOMAIN s /\ \A w \in DOMAIN s : w # run.key[1] => new.speeds[w] = s[w]
  BY <1>2
<1>7. new \in Knowns
  BY <1>2, <1>3, <1>5 DEF Knowns
<1> QED BY <1>2, <1>6, <1>7 DEF new, s

----------------------------------------------------------------------------
(* The replay *)

ReplayStep(past, some, speeds, N, r) ==
    [n \in 0 .. N |->
        IF n = 0 THEN [rows |-> L!Empty, speeds |-> speeds]
        ELSE IF n \in some THEN L!Learn(r[n - 1], past[n])
        ELSE r[n - 1]]

LEMMA ReplayExists ==
    ASSUME NEW past, NEW some, NEW speeds, NEW N \in Nat
    PROVE  \E r : r = ReplayStep(past, some, speeds, N, r)
<1> SUFFICES ASSUME ~ \E r : r = ReplayStep(past, some, speeds, N, r) PROVE FALSE
  OBVIOUS
<1> DEFINE bad == {n \in Nat : ~ \E r : r = ReplayStep(past, some, speeds, n, r)}
<1>1. bad \in SUBSET Nat /\ bad # {}
  OBVIOUS
<1>2. PICK n \in bad : \A u \in bad : n <= u
  <2> HIDE DEF bad
  <2> QED BY <1>1, LeastNumber
<1>3. n \in Nat
  BY <1>2
<1>4. CASE n = 0
  <2> DEFINE r == [d \in 0 .. 0 |-> [rows |-> L!Empty, speeds |-> speeds]]
  <2>1. r = ReplayStep(past, some, speeds, 0, r)
    BY DEF ReplayStep
  <2> HIDE DEF r
  <2> QED BY <1>2, <1>4, <2>1
<1>5. CASE n # 0
  <2>1. n - 1 \in Nat /\ ~(n <= n - 1)
    BY <1>3, <1>5
  <2>2. PICK q : q = ReplayStep(past, some, speeds, n - 1, q)
    BY <1>2, <2>1
  <2> DEFINE r == ReplayStep(past, some, speeds, n, q)
  <2>3. ASSUME NEW d \in 0 .. n
        PROVE  r[d] = ReplayStep(past, some, speeds, n, r)[d]
    <3>1. CASE d = 0
      BY <3>1 DEF ReplayStep
    <3>2. CASE d # 0
      <4>1. d - 1 \in 0 .. n /\ d - 1 \in 0 .. n - 1
        BY <1>3, <3>2
      <4>2. q[d - 1] = ReplayStep(past, some, speeds, n - 1, q)[d - 1]
        BY <2>2
      <4>3. r[d - 1] = q[d - 1]
        BY <4>1, <4>2 DEF ReplayStep
      <4> QED BY <3>2, <4>1, <4>3 DEF ReplayStep
    <3> QED BY <3>1, <3>2
  <2>4. r = ReplayStep(past, some, speeds, n, r)
    BY <2>3 DEF ReplayStep
  <2> HIDE DEF r
  <2> QED BY <1>2, <2>4
<1> QED BY <1>4, <1>5

LEMMA ReplayIs ==
    ASSUME NEW past, NEW some, NEW speeds, Len(past) \in Nat
    PROVE  \E r : /\ r = ReplayStep(past, some, speeds, Len(past), r)
                  /\ L!Replay(past, some, speeds) = r[Len(past)]
<1> DEFINE r == CHOOSE r : r = ReplayStep(past, some, speeds, Len(past), r)
<1>1. r = ReplayStep(past, some, speeds, Len(past), r)
  BY ReplayExists
<1>2. L!Replay(past, some, speeds) = r[Len(past)]
  BY DEF L!Replay, ReplayStep
<1> HIDE DEF r
<1> QED BY <1>1, <1>2

\* Replays of what begins alike are alike so far.
LEMMA ReplaysAgree ==
    ASSUME NEW past, NEW more, NEW some, NEW others, NEW speeds, NEW N \in Nat, NEW M \in Nat, N <= M,
           \A i \in 1 .. N : past[i] = more[i] /\ (i \in some <=> i \in others),
           NEW r, NEW q, r = ReplayStep(past, some, speeds, N, r), q = ReplayStep(more, others, speeds, M, q)
    PROVE  r[N] = q[N]
<1> DEFINE T == {n \in 0 .. N : r[n] # q[n]}
<1>1. CASE T = {}
  BY <1>1
<1>2. CASE T # {}
  <2>1. PICK m \in T : \A i \in T : m <= i
    <3>1. T \in SUBSET Nat
      OBVIOUS
    <3> HIDE DEF T
    <3> QED BY <1>2, <3>1, LeastNumber
  <2>2. m \in 0 .. N /\ m \in 0 .. M /\ r[m] # q[m]
    BY <2>1
  <2>3. /\ r[m] = ReplayStep(past, some, speeds, N, r)[m]
        /\ q[m] = ReplayStep(more, others, speeds, M, q)[m]
    OBVIOUS
  <2>4. m # 0
    <3> SUFFICES ASSUME m = 0 PROVE r[m] = q[m]
      BY <2>2
    <3> QED BY <2>2, <2>3 DEF ReplayStep
  <2>5. m - 1 \in 0 .. N /\ m \in 1 .. N /\ ~(m <= m - 1)
    BY <2>2, <2>4
  <2>6. r[m - 1] = q[m - 1]
    BY <2>1, <2>5
  <2>7. past[m] = more[m] /\ (m \in some <=> m \in others)
    BY <2>5
  <2>8. r[m] = q[m]
    BY <2>2, <2>3, <2>4, <2>6, <2>7 DEF ReplayStep
  <2> QED BY <2>2, <2>8
<1> QED BY <1>1, <1>2

\* One receipt more teaches one run more, or nothing.
LEMMA ReplayAppends ==
    ASSUME NEW past \in Seq(L!Receipt), NEW run \in L!Receipt, NEW some, NEW others, NEW speeds,
           \A i \in 1 .. Len(past) : i \in some <=> i \in others
    PROVE  L!Replay(Append(past, run), others, speeds)
               = IF Len(past) + 1 \in others THEN L!Learn(L!Replay(past, some, speeds), run)
                 ELSE L!Replay(past, some, speeds)
<1> DEFINE N == Len(past)
           more == Append(past, run)
<1>1. N \in Nat /\ Len(more) = N + 1 /\ more[N + 1] = run /\ \A i \in 1 .. N : past[i] = more[i]
  OBVIOUS
<1> HIDE DEF N, more
<1>2. N + 1 \in Nat /\ N <= N + 1 /\ (N + 1) - 1 = N /\ N + 1 # 0 /\ N + 1 \in 0 .. N + 1
  BY <1>1
<1>3. PICK r : /\ r = ReplayStep(past, some, speeds, N, r)
               /\ L!Replay(past, some, speeds) = r[N]
  BY <1>1, ReplayIs DEF N
<1>4. PICK q : /\ q = ReplayStep(more, others, speeds, N + 1, q)
               /\ L!Replay(more, others, speeds) = q[N + 1]
  BY <1>1, <1>2, ReplayIs
<1>5. \A i \in 1 .. N : past[i] = more[i] /\ (i \in some <=> i \in others)
  BY <1>1 DEF N
<1>6. r[N] = q[N]
  BY <1>1, <1>2, <1>3, <1>4, <1>5, ReplaysAgree
<1>7. q[N + 1] = ReplayStep(more, others, speeds, N + 1, q)[N + 1]
  BY <1>4
<1>8. q[N + 1] = IF N + 1 \in others THEN L!Learn(q[N], run) ELSE q[N]
  BY <1>1, <1>2, <1>7 DEF ReplayStep
<1> QED BY <1>3, <1>4, <1>6, <1>8 DEF N, more

\* What the first n receipts teach: a row for whoever ran one, and no more samples in
\* it than there are receipts of its key.
Learnt(past, some, speeds, n, known) ==
    /\ known \in Knowns
    /\ DOMAIN known.speeds = DOMAIN speeds
    /\ \A w : L!HasRun(known.rows, w) <=> \E i \in 1 .. n : i \in some /\ past[i].key[1] = w
    /\ \A w \in DOMAIN speeds : ~L!HasRun(known.rows, w) => known.speeds[w] = speeds[w]
    /\ \A k \in DOMAIN known.rows :
          known.rows[k].samples <= Cardinality({i \in 1 .. n : past[i].key = k})

LEMMA NothingLearnt ==
    ASSUME NEW past, NEW some, NEW speeds \in Speeds
    PROVE  Learnt(past, some, speeds, 0, [rows |-> L!Empty, speeds |-> speeds])
<1> DEFINE known == [rows |-> L!Empty, speeds |-> speeds]
<1>1. known \in Knowns
  BY EmptyIs DEF Knowns
<1>2. \A w : ~L!HasRun(L!Empty, w)
  BY EmptyIs DEF L!HasRun
<1>3. \A w : ~ \E i \in 1 .. 0 : i \in some /\ past[i].key[1] = w
  OBVIOUS
<1> QED BY <1>1, <1>2, <1>3, EmptyIs DEF Learnt

LEMMA OneMoreLearnt ==
    ASSUME NEW past \in Seq(L!Receipt), NEW some, NEW speeds \in Speeds, NEW n \in Nat, n + 1 <= Len(past),
           NEW known, Learnt(past, some, speeds, n, known)
    PROVE  Learnt(past, some, speeds, n + 1, IF n + 1 \in some THEN L!Learn(known, past[n + 1]) ELSE known)
<1> DEFINE run == past[n + 1]
           Had1(m, k) == {i \in 1 .. m : past[i].key = k}
<1>1. run \in L!Receipt /\ n + 1 \in Nat
  OBVIOUS
<1>2. \A i : i \in 1 .. n + 1 <=> i \in 1 .. n \/ i = n + 1
  OBVIOUS
<1>3. ASSUME NEW k
      PROVE  /\ Cardinality(Had1(n, k)) \in Nat /\ Cardinality(Had1(n + 1, k)) \in Nat
             /\ Cardinality(Had1(n, k)) <= Cardinality(Had1(n + 1, k))
             /\ run.key = k => Cardinality(Had1(n + 1, k)) = Cardinality(Had1(n, k)) + 1
  <2>1. IsFiniteSet(1 .. n) /\ IsFiniteSet(1 .. n + 1)
    BY <1>1, FS_Interval
  <2>2. Had1(n, k) \subseteq 1 .. n /\ Had1(n + 1, k) \subseteq 1 .. n + 1 /\ Had1(n, k) \subseteq Had1(n + 1, k)
    BY <1>2
  <2>3. run.key = k => Had1(n + 1, k) = Had1(n, k) \cup {n + 1} /\ n + 1 \notin Had1(n, k)
    BY <1>2
  <2> HIDE DEF Had1
  <2>4. IsFiniteSet(Had1(n, k)) /\ IsFiniteSet(Had1(n + 1, k))
    BY <2>1, <2>2, FS_Subset
  <2> QED BY <2>2, <2>3, <2>4, FS_Subset, FS_CardinalityType, FS_AddElement
<1>4. \A k \in DOMAIN known.rows : known.rows[k].samples \in Nat
  BY TableIs DEF Learnt, Knowns, L!Row
<1>5. CASE n + 1 \notin some
  <2>1. \A k \in DOMAIN known.rows : known.rows[k].samples <= Cardinality(Had1(n + 1, k))
    <3> SUFFICES ASSUME NEW k \in DOMAIN known.rows
                 PROVE  known.rows[k].samples <= Cardinality(Had1(n + 1, k))
      OBVIOUS
    <3>1. known.rows[k].samples <= Cardinality(Had1(n, k))
      BY DEF Learnt
    <3> HIDE DEF Had1
    <3> QED BY <1>3, <1>4, <3>1
  <2>2. \A w : L!HasRun(known.rows, w) <=> \E i \in 1 .. n + 1 : i \in some /\ past[i].key[1] = w
    BY <1>2, <1>5 DEF Learnt
  <2> QED BY <1>5, <2>1, <2>2 DEF Learnt
<1>6. CASE n + 1 \in some
  <2> DEFINE new == L!Learn(known, run)
  <2>1. known \in Knowns /\ known.rows \in Tables /\ run.key \in L!Keys /\ run.seconds \in Nat
    BY <1>1 DEF Learnt, Knowns, L!Receipt
  <2>2. /\ new \in Knowns /\ new.rows = L!NextRows(known.rows, run.key, run.seconds)
        /\ DOMAIN new.speeds = DOMAIN known.speeds
        /\ \A w \in DOMAIN known.speeds : w # run.key[1] => new.speeds[w] = known.speeds[w]
    BY <1>1, <2>1, LearnIs
  <2>3. OneSampleMore(known.rows, run.key, new.rows)
    BY <2>1, <2>2, RowsAfter
  <2> HIDE DEF new
  <2>4. \A w : L!HasRun(new.rows, w) <=> L!HasRun(known.rows, w) \/ w = run.key[1]
    BY <2>3 DEF L!HasRun, OneSampleMore
  <2>5. \A w : L!HasRun(new.rows, w) <=> \E i \in 1 .. n + 1 : i \in some /\ past[i].key[1] = w
    BY <1>2, <1>6, <2>4 DEF Learnt
  <2>6. DOMAIN new.speeds = DOMAIN speeds
    BY <2>2 DEF Learnt
  <2>7. \A w \in DOMAIN speeds : ~L!HasRun(new.rows, w) => new.speeds[w] = speeds[w]
    BY <2>2, <2>4 DEF Learnt
  <2>8. ASSUME NEW k \in DOMAIN new.rows PROVE new.rows[k].samples <= Cardinality(Had1(n + 1, k))
    <3>1. k \in DOMAIN known.rows => known.rows[k].samples <= Cardinality(Had1(n, k))
      BY DEF Learnt
    <3>2. k \in DOMAIN known.rows => known.rows[k].samples \in Nat
      BY <1>4
    <3>3. /\ Cardinality(Had1(n, k)) \in Nat /\ Cardinality(Had1(n + 1, k)) \in Nat
          /\ Cardinality(Had1(n, k)) <= Cardinality(Had1(n + 1, k))
          /\ run.key = k => Cardinality(Had1(n + 1, k)) = Cardinality(Had1(n, k)) + 1
      BY <1>3
    <3> HIDE DEF Had1
    <3>4. CASE k = run.key
      BY <2>3, <3>1, <3>2, <3>3, <3>4 DEF OneSampleMore
    <3>5. CASE k # run.key
      BY <2>3, <3>1, <3>2, <3>3, <3>5 DEF OneSampleMore
    <3> QED BY <3>4, <3>5
  <2>9. Learnt(past, some, speeds, n + 1, new)
    BY <2>2, <2>5, <2>6, <2>7, <2>8 DEF Learnt
  <2> QED BY <1>6, <2>9 DEF new
<1> QED BY <1>5, <1>6

LEMMA ReplayLearns ==
    ASSUME NEW past \in Seq(L!Receipt), NEW some, NEW speeds \in Speeds
    PROVE  Learnt(past, some, speeds, Len(past), L!Replay(past, some, speeds))
<1> DEFINE N == Len(past)
<1>1. N \in Nat
  OBVIOUS
<1>2. PICK r : /\ r = ReplayStep(past, some, speeds, N, r)
               /\ L!Replay(past, some, speeds) = r[N]
  BY <1>1, ReplayIs
<1> HIDE DEF N
<1> DEFINE T == {n \in 0 .. N : ~Learnt(past, some, speeds, n, r[n])}
<1>3. CASE T = {}
  BY <1>1, <1>2, <1>3 DEF N
<1>4. CASE T # {}
  <2>1. PICK m \in T : \A i \in T : m <= i
    <3>1. T \in SUBSET Nat
      OBVIOUS
    <3> HIDE DEF T
    <3> QED BY <1>4, <3>1, LeastNumber
  <2>2. m \in 0 .. N /\ ~Learnt(past, some, speeds, m, r[m])
    BY <2>1
  <2>3. r[m] = ReplayStep(past, some, speeds, N, r)[m]
    BY <1>2
  <2>4. m # 0
    <3> SUFFICES ASSUME m = 0 PROVE FALSE
      OBVIOUS
    <3>1. r[m] = [rows |-> L!Empty, speeds |-> speeds]
      BY <2>2, <2>3 DEF ReplayStep
    <3> QED BY <2>2, <3>1, NothingLearnt
  <2> DEFINE n == m - 1
  <2>5. n \in Nat /\ n \in 0 .. N /\ n + 1 = m /\ ~(m <= n) /\ n + 1 <= Len(past)
    BY <1>1, <2>2, <2>4 DEF N
  <2>6. Learnt(past, some, speeds, n, r[n])
    BY <2>1, <2>5
  <2>7. r[m] = IF m \in some THEN L!Learn(r[n], past[m]) ELSE r[n]
    BY <2>2, <2>3, <2>4 DEF ReplayStep
  <2> HIDE DEF n
  <2>8. Learnt(past, some, speeds, n + 1, IF n + 1 \in some THEN L!Learn(r[n], past[n + 1]) ELSE r[n])
    BY <2>5, <2>6, OneMoreLearnt
  <2>9. Learnt(past, some, speeds, m, r[m])
    BY <2>5, <2>7, <2>8
  <2> QED BY <2>2, <2>9
<1> QED BY <1>3, <1>4

----------------------------------------------------------------------------
(* Types *)

LEMMA IdleTeacher == L!Rest.pc = "rest" /\ L!Rest \notin Teachings
BY DEF L!Rest, Teachings

LEMMA IdleFill == L!NoFill.pc = "rest" /\ \A f \in Fills : f = L!NoFill <=> f.pc = "rest"
BY DEF L!NoFill, Fills

LEMMA TeacherIs ==
    ASSUME LearnTypes, NEW h \in Learners
    PROVE  learning[h] = L!Rest \/ learning[h] \in Teachings
BY DEF LearnTypes

LEMMA TeachesAlike ==
    ASSUME NEW a, NEW b, a.rows = b.rows, a.speeds = b.speeds, NEW run
    PROVE  L!Learn(a, run) = L!Learn(b, run)
BY DEF L!Learn

\* What a handler teaches from what it read.
LEMMA TeachingIs ==
    ASSUME NEW s \in Teachings
    PROVE  LET new == L!Learn(s, s.run)
           IN  /\ new \in Knowns /\ new.rows = L!NextRows(s.rows, s.run.key, s.run.seconds)
               /\ DOMAIN new.speeds = DOMAIN s.speeds
               /\ \A w \in DOMAIN s.speeds : w # s.run.key[1] => new.speeds[w] = s.speeds[w]
<1> DEFINE known == [rows |-> s.rows, speeds |-> s.speeds]
<1>1. known \in Knowns /\ known.rows = s.rows /\ known.speeds = s.speeds /\ s.run \in L!Receipt
  BY DEF Knowns, Teachings, LaterReceipts
<1> HIDE DEF known
<1>2. L!Learn(s, s.run) = L!Learn(known, s.run)
  BY <1>1, TeachesAlike
<1>3. /\ L!Learn(known, s.run) \in Knowns
      /\ L!Learn(known, s.run).rows = L!NextRows(known.rows, s.run.key, s.run.seconds)
      /\ DOMAIN L!Learn(known, s.run).speeds = DOMAIN known.speeds
      /\ \A w \in DOMAIN known.speeds :
            w # s.run.key[1] => L!Learn(known, s.run).speeds[w] = known.speeds[w]
  BY <1>1, LearnIs
<1> QED BY <1>1, <1>2, <1>3

LEMMA TeachStep ==
    ASSUME LearnTypes, NEW h \in Learners, NEW s \in {L!Rest} \cup Teachings,
           learning' = [learning EXCEPT ![h] = s]
    PROVE  learning' \in [Learners -> {L!Rest} \cup Teachings]
BY DEF LearnTypes

LEMMA EffectiveIs ==
    ASSUME NEW t, speed \in [Runners -> 10 .. 1000]
    PROVE  L!Effective(t, speed) \in [Runners -> 10 .. 1000]
BY LearningAssumption DEF L!Effective

\* The handler's move, as a new state of its own.
LEMMA TeachMoves ==
    ASSUME LearnTypes, NEW h \in Learners, NEW pc \in {"speeds", "upsert", "speed", "receipt"},
           learning[h] \in Teachings, learning' = [learning EXCEPT ![h].pc = pc]
    PROVE  /\ [learning[h] EXCEPT !.pc = pc] \in Teachings
           /\ learning' = [learning EXCEPT ![h] = [learning[h] EXCEPT !.pc = pc]]
<1>1. [learning[h] EXCEPT !.pc = pc] \in Teachings
  BY DEF Teachings
<1> QED BY <1>1

LEMMA AtIs ==
    ASSUME LearnTypes, NEW h \in Learners, NEW pc, L!At(h, pc), pc # "rest"
    PROVE  learning[h] \in Teachings /\ learning[h].pc = pc
BY TeacherIs, IdleTeacher DEF L!At

\* A handler's row, and the table with it.
LEMMA UpsertIs ==
    ASSUME NEW t \in Tables, NEW s \in Teachings
    PROVE  LET key == s.run.key
               new == [k \in DOMAIN t \cup {key} |-> IF k = key THEN L!Learn(s, s.run).rows[key] ELSE t[k]]
           IN  new \in Tables
<1> DEFINE key == s.run.key
           rows == L!Learn(s, s.run).rows
           new == [k \in DOMAIN t \cup {key} |-> IF k = key THEN rows[key] ELSE t[k]]
<1>1. rows \in Tables /\ s.rows \in Tables /\ key \in L!Keys /\ s.run.seconds \in Nat
      /\ rows = L!NextRows(s.rows, key, s.run.seconds)
  BY TeachingIs DEF Knowns, Teachings, LaterReceipts, L!Receipt
<1>2. rows[key] \in L!Row
  <2> HIDE DEF rows, key
  <2>1. OneSampleMore(s.rows, key, rows)
    BY <1>1, RowsAfter
  <2>2. key \in DOMAIN rows
    BY <2>1 DEF OneSampleMore
  <2> QED BY <1>1, <2>2, TableIs
<1>3. DOMAIN new = DOMAIN t \cup {key} /\ new \in [DOMAIN t \cup {key} -> L!Row]
  <2> HIDE DEF rows, key
  <2> QED BY <1>2, TableIs
<1>4. DOMAIN new \subseteq L!Keys /\ IsFiniteSet(DOMAIN new)
  <2> HIDE DEF key, new
  <2> QED BY <1>1, <1>3, TableIs, FS_AddElement
<1> HIDE DEF new
<1> QED BY <1>3, <1>4, TableIs DEF new

\* What each step of a handler makes of it.
LEMMA CompleteGoes ==
    ASSUME LearnTypes, NEW h \in Learners, NEW run \in LaterRuns, L!Complete(h, run)
    PROVE  \E s \in Teachings :
              /\ s.pc = (IF run.kind = "child" THEN "receipt" ELSE "rows") /\ s.run = run
              /\ learning[h] = L!Rest /\ learning' = [learning EXCEPT ![h] = s]
<1> DEFINE s == [L!Rest EXCEPT !.pc = IF run.kind = "child" THEN "receipt" ELSE "rows", !.run = run]
<1>1. s \in Teachings /\ s.pc = (IF run.kind = "child" THEN "receipt" ELSE "rows") /\ s.run = run
  BY LearningAssumption, EmptyIs, ZenonT(40) DEF Teachings, LaterReceipts, L!Rest
<1>2. s = [L!Rest EXCEPT !.pc = IF run.kind # "child" THEN "rows" ELSE "receipt", !.run = run]
  OBVIOUS
<1> HIDE DEF s
<1>3. learning[h] = L!Rest /\ learning' = [learning EXCEPT ![h] = s]
  BY <1>2 DEF L!Complete, L!Taught
<1> QED BY <1>1, <1>3

LEMMA ReadRowsGoes ==
    ASSUME LearnTypes, NEW h \in Learners, L!ReadRows(h)
    PROVE  /\ learning[h] \in Teachings /\ learning[h].pc = "rows"
           /\ \E s \in Teachings :
                 /\ s.pc = "speeds" /\ s.run = learning[h].run /\ s.rows \in {table, L!Empty}
                 /\ clean' => clean /\ s.rows = table
                 /\ learning' = [learning EXCEPT ![h] = s]
<1>1. learning[h] \in Teachings /\ learning[h].pc = "rows"
  BY AtIs DEF L!ReadRows
<1>2. PICK rows \in {table, L!Empty} : /\ learning' = [learning EXCEPT ![h].pc = "speeds", ![h].rows = rows]
                                       /\ clean' => clean /\ rows = table
  BY DEF L!ReadRows, L!Sound, L!Trouble
<1> DEFINE s == [learning[h] EXCEPT !.pc = "speeds", !.rows = rows]
<1>3. rows \in Tables
  BY EmptyIs DEF LearnTypes
<1>4. s \in Teachings /\ s.pc = "speeds" /\ s.run = learning[h].run /\ s.rows = rows
  BY <1>1, <1>3 DEF Teachings
<1>5. learning' = [learning EXCEPT ![h] = s]
  <2>1. learning' = [learning EXCEPT ![h].pc = "speeds", ![h].rows = rows]
    BY <1>2
  <2> QED BY <2>1
<1> HIDE DEF s
<1>6. s.rows \in {table, L!Empty} /\ (clean' => clean /\ s.rows = table)
  BY <1>2, <1>4
<1> QED BY <1>1, <1>4, <1>5, <1>6

LEMMA ReadSpeedsGoes ==
    ASSUME LearnTypes, NEW h \in Learners, L!ReadSpeeds(h)
    PROVE  /\ learning[h] \in Teachings /\ learning[h].pc = "speeds"
           /\ \E s \in Teachings :
                 /\ s.pc = "upsert" /\ s.run = learning[h].run /\ s.rows = learning[h].rows
                 /\ clean' => clean /\ s.speeds = L!Effective(s.rows, speed)
                 /\ learning' = [learning EXCEPT ![h] = s]
<1>1. learning[h] \in Teachings /\ learning[h].pc = "speeds"
  BY AtIs DEF L!ReadSpeeds
<1>2. CASE /\ learning' = [learning EXCEPT ![h].pc = "upsert",
                                          ![h].speeds = L!Effective(learning[h].rows, speed)]
           /\ clean' = clean
  <2> DEFINE speeds == L!Effective(learning[h].rows, speed)
             s == [learning[h] EXCEPT !.pc = "upsert", !.speeds = speeds]
  <2>1. speeds \in Speeds
    BY EffectiveIs, ZenonT(40) DEF LearnTypes, Speeds
  <2>2. s \in Teachings /\ s.pc = "upsert" /\ s.run = learning[h].run /\ s.rows = learning[h].rows
        /\ s.speeds = speeds
    BY <1>1, <2>1 DEF Teachings
  <2>3. learning' = [learning EXCEPT ![h] = s]
    BY <1>2
  <2> HIDE DEF s
  <2> QED BY <1>1, <1>2, <2>2, <2>3
<1>3. CASE learning' = [learning EXCEPT ![h].pc = "upsert"] /\ ~clean'
  <2> DEFINE s == [learning[h] EXCEPT !.pc = "upsert"]
  <2>1. s \in Teachings /\ learning' = [learning EXCEPT ![h] = s]
    BY <1>1, <1>3, TeachMoves
  <2>2. s.pc = "upsert" /\ s.run = learning[h].run /\ s.rows = learning[h].rows
    BY <1>1 DEF Teachings
  <2> HIDE DEF s
  <2> QED BY <1>1, <1>3, <2>1, <2>2
<1> QED BY <1>2, <1>3 DEF L!ReadSpeeds, L!Sound, L!Trouble

LEMMA UpsertGoes ==
    ASSUME LearnTypes, NEW h \in Learners, L!Upsert(h)
    PROVE  LET old == learning[h]
               key == old.run.key
           IN  /\ old \in Teachings /\ old.pc = "upsert"
               /\ \E s \in Teachings :
                     /\ s.pc \in {"speed", "receipt"}
                     /\ s.run = old.run /\ s.rows = old.rows /\ s.speeds = old.speeds
                     /\ clean' => clean /\ s.pc = "speed"
                     /\ s.pc = "receipt" => table' = table
                     /\ s.pc = "speed" =>
                           table' = [k \in DOMAIN table \cup {key} |->
                                        IF k = key THEN L!Learn(old, old.run).rows[key] ELSE table[k]]
                     /\ learning' = [learning EXCEPT ![h] = s]
<1> DEFINE old == learning[h]
           key == old.run.key
           wrote == table' = [k \in DOMAIN table \cup {key} |->
                                 IF k = key THEN L!Learn(old, old.run).rows[key] ELSE table[k]]
<1>1. old \in Teachings /\ old.pc = "upsert"
  BY AtIs DEF L!Upsert
<1>2. PICK pc \in {"speed", "receipt"} :
          /\ learning' = [learning EXCEPT ![h].pc = pc]
          /\ clean' => clean /\ pc = "speed"
          /\ pc = "receipt" => table' = table
          /\ pc = "speed" => wrote
  BY DEF L!Upsert, L!Move, L!Sound, L!Trouble
<1> DEFINE s == [old EXCEPT !.pc = pc]
<1>3. s \in Teachings /\ learning' = [learning EXCEPT ![h] = s]
  BY <1>1, <1>2, TeachMoves
<1>4. s.pc = pc /\ s.run = old.run /\ s.rows = old.rows /\ s.speeds = old.speeds
  BY <1>1 DEF Teachings
<1> HIDE DEF s, wrote
<1> QED BY <1>1, <1>2, <1>3, <1>4 DEF wrote

LEMMA UpdateSpeedGoes ==
    ASSUME LearnTypes, NEW h \in Learners, L!UpdateSpeed(h)
    PROVE  LET old == learning[h]
               w == old.run.key[1]
           IN  /\ old \in Teachings /\ old.pc = "speed"
               /\ clean' /\ w \in DOMAIN old.speeds
                     => clean /\ speed' = [speed EXCEPT ![w] = L!Learn(old, old.run).speeds[w]]
               /\ clean' => clean
               /\ \/ speed' = speed
                  \/ w \in DOMAIN old.speeds /\ speed' = [speed EXCEPT ![w] = L!Learn(old, old.run).speeds[w]]
               /\ \E s \in Teachings :
                     /\ s.pc = "receipt" /\ s.run = old.run
                     /\ s.rows = old.rows /\ s.speeds = old.speeds
                     /\ learning' = [learning EXCEPT ![h] = s]
<1> DEFINE old == learning[h]
           w == old.run.key[1]
           new == [speed EXCEPT ![w] = L!Learn(old, old.run).speeds[w]]
<1>1. old \in Teachings /\ old.pc = "speed"
  BY AtIs DEF L!UpdateSpeed
<1>2. /\ learning' = [learning EXCEPT ![h].pc = "receipt"]
      /\ clean' => clean /\ speed' = IF w \in DOMAIN old.speeds THEN new ELSE speed
      /\ speed' = speed \/ (w \in DOMAIN old.speeds /\ speed' = new)
  BY DEF L!UpdateSpeed, L!Move, L!Sound, L!Trouble
<1> DEFINE s == [old EXCEPT !.pc = "receipt"]
<1>3. s \in Teachings /\ learning' = [learning EXCEPT ![h] = s]
  BY <1>1, <1>2, TeachMoves
<1>4. s.pc = "receipt" /\ s.run = old.run /\ s.rows = old.rows /\ s.speeds = old.speeds
  BY <1>1 DEF Teachings
<1> HIDE DEF s, new
<1> QED BY <1>1, <1>2, <1>3, <1>4 DEF new

LEMMA AddReceiptGoes ==
    ASSUME LearnTypes, NEW h \in Learners, L!AddReceipt(h)
    PROVE  /\ learning[h] \in Teachings /\ learning[h].pc = "receipt"
           /\ learning' = [learning EXCEPT ![h] = L!Rest]
           /\ receipts' = receipts \/ receipts' = Append(receipts, learning[h].run)
           /\ ~died' => ~died /\ clean' = clean /\ receipts' = Append(receipts, learning[h].run)
<1>1. learning[h] \in Teachings /\ learning[h].pc = "receipt"
  BY AtIs DEF L!AddReceipt
<1> QED BY <1>1 DEF L!AddReceipt, L!Sound, L!Trouble

Teaching(h) ==
    \/ \E run \in LaterRuns : L!Complete(h, run)
    \/ L!ReadRows(h) \/ L!ReadSpeeds(h) \/ L!Upsert(h) \/ L!UpdateSpeed(h) \/ L!AddReceipt(h)

LEMMA TeacherTypes == ASSUME LearnTypes, NEW h \in Learners, Teaching(h) PROVE LearnTypes'
<1> USE DEF L!Sound, L!Trouble
<1>0. UNCHANGED fill /\ UNCHANGED flag
  BY Zenon DEF Teaching, L!Complete, L!ReadRows, L!ReadSpeeds, L!Upsert, L!UpdateSpeed,
               L!AddReceipt
<1>1. (fill \in Fills /\ (fill.pc = "write" => fill.of \subseteq DOMAIN fill.learnt.speeds)
       /\ (fill # L!NoFill => ~flag) /\ flag \in BOOLEAN)'
  BY <1>0, ZenonT(40) DEF LearnTypes
<1>2. clean' \in BOOLEAN /\ died' \in BOOLEAN
  BY Zenon DEF Teaching, LearnTypes, L!Complete, L!ReadRows, L!ReadSpeeds, L!Upsert,
               L!UpdateSpeed, L!AddReceipt
<1>3. CASE \E run \in LaterRuns : L!Complete(h, run)
  <2>1. PICK run \in LaterRuns : L!Complete(h, run)
    BY <1>3
  <2>2. learning' \in [Learners -> {L!Rest} \cup Teachings]
    BY <2>1, CompleteGoes, TeachStep
  <2> QED BY <1>1, <1>2, <2>1, <2>2, Zenon DEF LearnTypes, L!Complete
<1>4. CASE L!ReadRows(h)
  <2>1. learning' \in [Learners -> {L!Rest} \cup Teachings]
    BY <1>4, ReadRowsGoes, TeachStep
  <2> QED BY <1>1, <1>2, <1>4, <2>1, Zenon DEF LearnTypes, L!ReadRows
<1>5. CASE L!ReadSpeeds(h)
  <2>1. learning' \in [Learners -> {L!Rest} \cup Teachings]
    BY <1>5, ReadSpeedsGoes, TeachStep
  <2> QED BY <1>1, <1>2, <1>5, <2>1, Zenon DEF LearnTypes, L!ReadSpeeds
<1>6. CASE L!Upsert(h)
  <2>1. learning[h] \in Teachings /\ learning' \in [Learners -> {L!Rest} \cup Teachings]
    BY <1>6, UpsertGoes, TeachStep
  <2>2. table' \in Tables
    <3>1. table \in Tables
      BY DEF LearnTypes
    <3>2. [k \in DOMAIN table \cup {learning[h].run.key} |->
              IF k = learning[h].run.key
              THEN L!Learn(learning[h], learning[h].run).rows[learning[h].run.key]
              ELSE table[k]] \in Tables
      BY <2>1, <3>1, UpsertIs
    <3> QED BY <1>6, <3>1, <3>2 DEF L!Upsert
  <2> QED BY <1>1, <1>2, <1>6, <2>1, <2>2, ZenonT(40) DEF LearnTypes, L!Upsert
<1>7. CASE L!UpdateSpeed(h)
  <2>1. learning[h] \in Teachings /\ learning' \in [Learners -> {L!Rest} \cup Teachings]
    BY <1>7, UpdateSpeedGoes, TeachStep
  <2>2. speed' \in [Runners -> 10 .. 1000]
    <3> DEFINE w == learning[h].run.key[1]
               new == L!Learn(learning[h], learning[h].run)
    <3>1. new.speeds \in Speeds /\ DOMAIN new.speeds = DOMAIN learning[h].speeds
      BY <2>1, TeachingIs DEF Knowns
    <3> HIDE DEF w, new
    <3>2. w \in DOMAIN learning[h].speeds => new.speeds[w] \in 10 .. 1000
      <4>1. CASE new.speeds = L!Empty
        BY <3>1, <4>1, EmptyIs, Zenon
      <4>2. CASE new.speeds \in [Runners -> 10 .. 1000]
        BY <3>1, <4>2
      <4> QED BY <3>1, <4>1, <4>2 DEF Speeds
    <3>3. speed' = speed \/ (w \in DOMAIN learning[h].speeds /\ speed' = [speed EXCEPT ![w] = new.speeds[w]])
      BY <1>7, UpdateSpeedGoes DEF w, new
    <3> QED
      <4>1. speed \in [Runners -> 10 .. 1000]
        BY Zenon DEF LearnTypes
      <4>2. CASE speed' = speed
        BY <4>1, <4>2, SMTT(30)
      <4>3. CASE w \in DOMAIN learning[h].speeds /\ speed' = [speed EXCEPT ![w] = new.speeds[w]]
        BY <3>2, <4>1, <4>3, ZenonT(40)
      <4> QED BY <3>3, <4>2, <4>3
  <2> QED BY <1>1, <1>2, <1>7, <2>1, <2>2, ZenonT(40) DEF LearnTypes, L!UpdateSpeed
<1>8. CASE L!AddReceipt(h)
  <2>1. learning[h] \in Teachings /\ learning' \in [Learners -> {L!Rest} \cup Teachings]
    BY <1>8, AddReceiptGoes, TeachStep
  <2>2. receipts' \in Seq(L!Receipt)
    <3>1. receipts' = receipts \/ receipts' = Append(receipts, learning[h].run)
      BY <1>8, AddReceiptGoes
    <3>2. receipts \in Seq(L!Receipt) /\ learning[h].run \in L!Receipt
      BY <2>1 DEF LearnTypes, Teachings, LaterReceipts
    <3> QED BY <3>1, <3>2
  <2> QED BY <1>1, <1>2, <1>8, <2>1, <2>2, Zenon DEF LearnTypes, L!AddReceipt
<1> QED BY <1>3, <1>4, <1>5, <1>6, <1>7, <1>8, ZenonT(40) DEF Teaching

\* The receipts that the first tick replays, and whose speeds it writes.
LEMMA FilledIs ==
    ASSUME LearnTypes, NEW known \in {L!Prior, L!Empty}
    PROVE  /\ known \in Speeds
           /\ Learnt(receipts, L!Latest, known, Len(receipts), L!Replay(receipts, L!Latest, known))
           /\ DOMAIN known \subseteq Runners
<1>1. L!Prior \in [Runners -> 10 .. 1000]
  BY EffectiveIs, ZenonT(40) DEF L!Prior, LearnTypes
<1>2. known \in Speeds /\ DOMAIN known \subseteq Runners
  <2>1. CASE known = L!Prior
    BY <1>1, <2>1 DEF Speeds
  <2>2. CASE known = L!Empty
    BY <2>2, EmptyIs
  <2> QED BY <2>1, <2>2
<1>3. receipts \in Seq(L!Receipt)
  BY DEF LearnTypes
<1> QED BY <1>2, <1>3, ReplayLearns

\* The tables after the replay's one batch.
LEMMA WrittenIs ==
    ASSUME NEW t \in Tables, NEW new \in Tables
    PROVE  [k \in DOMAIN new \cup DOMAIN t |-> IF k \in DOMAIN new THEN new[k] ELSE t[k]] \in Tables
<1> DEFINE all == [k \in DOMAIN new \cup DOMAIN t |-> IF k \in DOMAIN new THEN new[k] ELSE t[k]]
<1>1. DOMAIN all = DOMAIN new \cup DOMAIN t /\ all \in [DOMAIN new \cup DOMAIN t -> L!Row]
  BY TableIs
<1>2. DOMAIN all \subseteq L!Keys /\ IsFiniteSet(DOMAIN all)
  <2> HIDE DEF all
  <2>1. IsFiniteSet(DOMAIN new \cup DOMAIN t) /\ DOMAIN new \cup DOMAIN t \subseteq L!Keys
    BY TableIs, FS_Union
  <2> QED BY <1>1, <2>1
<1> HIDE DEF all
<1>3. all \in Tables
  BY <1>1, <1>2, TableIs
<1> QED BY <1>3 DEF all

Filling == L!SkipFill \/ L!CheckFill \/ L!ReadFill \/ L!WriteFill \/ L!EndFill \/ L!FailFill

LEMMA FillTypes == ASSUME LearnTypes, Filling PROVE LearnTypes'
<1> USE DEF L!Sound, L!Trouble
<1>0. receipts' = receipts /\ learning' = learning /\ died' = died /\ clean' \in BOOLEAN
  BY Zenon DEF Filling, L!SkipFill, L!CheckFill, L!ReadFill, L!WriteFill, L!EndFill,
               L!FailFill, LearnTypes
<1>1. /\ receipts' \in Seq(L!Receipt) /\ learning' \in [Learners -> {L!Rest} \cup Teachings]
      /\ died' \in BOOLEAN /\ clean' \in BOOLEAN
  BY <1>0 DEF LearnTypes
<1>9. table \in Tables /\ speed \in [Runners -> 10 .. 1000] /\ flag \in BOOLEAN /\ fill \in Fills
      /\ (fill # L!NoFill => ~flag)
  BY Zenon DEF LearnTypes
<1>2. CASE L!SkipFill
  <2>1. table' = table /\ speed' = speed /\ fill' = fill /\ fill = L!NoFill /\ flag' = TRUE
    BY <1>2 DEF L!SkipFill
  <2>2. fill.pc # "write"
    BY <2>1, IdleFill
  <2> QED BY <1>1, <1>9, <2>1, <2>2, Zenon DEF LearnTypes
<1>3. CASE L!CheckFill
  <2>1. fill' \in Fills /\ fill'.pc = "read"
    BY <1>3 DEF L!CheckFill, Fills, L!NoFill
  <2>2. table' = table /\ speed' = speed /\ flag' = flag /\ ~flag
    BY <1>3 DEF L!CheckFill
  <2> QED BY <1>1, <1>9, <2>1, <2>2, Zenon DEF LearnTypes
<1>4. CASE L!ReadFill
  <2>1. PICK known \in {L!Prior, L!Empty} :
            fill' = [pc |-> "write", learnt |-> L!Replay(receipts, L!Latest, known),
                     of |-> {receipts[i].key[1] : i \in L!Latest} \cap DOMAIN known]
    BY <1>4 DEF L!ReadFill
  <2> DEFINE new == L!Replay(receipts, L!Latest, known)
             of == {receipts[i].key[1] : i \in L!Latest} \cap DOMAIN known
  <2>2. new \in Knowns /\ DOMAIN new.speeds = DOMAIN known
    BY FilledIs DEF Learnt
  <2>3. of \subseteq DOMAIN known /\ of \in SUBSET Runners
    BY FilledIs
  <2> HIDE DEF new, of
  <2>4. fill' \in Fills /\ fill'.of \subseteq DOMAIN fill'.learnt.speeds
    BY <2>1, <2>2, <2>3 DEF Fills, new, of
  <2>5. fill # L!NoFill
    BY <1>4, IdleFill DEF L!ReadFill
  <2>6. table' = table /\ speed' = speed /\ flag' = flag
    BY <1>4 DEF L!ReadFill
  <2> QED BY <1>1, <1>9, <2>4, <2>5, <2>6, Zenon DEF LearnTypes
<1>5. CASE L!WriteFill
  <2>1. fill \in [pc: {"write", "flag"}, learnt: Knowns, of: SUBSET Runners]
    BY <1>5, IdleFill DEF L!WriteFill, LearnTypes, Fills
  <2>2. fill.learnt.rows \in Tables /\ fill.learnt.speeds \in Speeds /\ fill.of \subseteq DOMAIN fill.learnt.speeds
    BY <1>5, <2>1 DEF L!WriteFill, LearnTypes, Knowns
  <2>3. table' \in Tables
    <3> DEFINE new == fill.learnt.rows
    <3>1. table' = [k \in DOMAIN new \cup DOMAIN table |->
                      IF k \in DOMAIN new THEN new[k] ELSE table[k]]
      BY <1>5 DEF L!WriteFill
    <3>2. new \in Tables /\ table \in Tables
      BY <1>9, <2>2
    <3> HIDE DEF new
    <3> QED BY <3>1, <3>2, WrittenIs
  <2>4. speed' \in [Runners -> 10 .. 1000]
    <3>1. \A w \in fill.of : fill.learnt.speeds[w] \in 10 .. 1000
      <4>1. CASE fill.learnt.speeds = L!Empty
        BY <2>2, <4>1, EmptyIs, ZenonT(40)
      <4>2. CASE fill.learnt.speeds \in [Runners -> 10 .. 1000]
        BY <2>2, <4>2
      <4> QED BY <2>2, <4>1, <4>2, ZenonT(40) DEF Speeds
    <3>2. speed' = [w \in Runners |-> IF w \in fill.of THEN fill.learnt.speeds[w] ELSE speed[w]]
      BY <1>5, ZenonT(40) DEF L!WriteFill
    <3>3. ASSUME NEW w \in Runners
          PROVE  (IF w \in fill.of THEN fill.learnt.speeds[w] ELSE speed[w]) \in 10 .. 1000
      <4>1. speed[w] \in 10 .. 1000
        BY <1>9
      <4> QED BY <3>1, <4>1
    <3> QED BY <3>2, <3>3, ZenonT(40)
  <2>5. fill' \in Fills /\ fill'.pc = "flag"
    BY <1>5, <2>1 DEF L!WriteFill, Fills
  <2>6. fill # L!NoFill
    BY <1>5, IdleFill DEF L!WriteFill
  <2>7. flag' = flag
    BY <1>5 DEF L!WriteFill
  <2> QED BY <1>1, <1>9, <2>3, <2>4, <2>5, <2>6, <2>7, ZenonT(40) DEF LearnTypes
<1>6. CASE L!EndFill
  BY <1>1, <1>6, IdleFill, Zenon DEF L!EndFill, LearnTypes, Fills
<1>7. CASE L!FailFill
  BY <1>1, <1>7, IdleFill, Zenon DEF L!FailFill, LearnTypes, Fills
<1> QED BY <1>2, <1>3, <1>4, <1>5, <1>6, <1>7 DEF Filling

LEMMA RestartTypes == ASSUME LearnTypes, L!Restart PROVE LearnTypes'
<1>1. learning' \in [Learners -> {L!Rest} \cup Teachings]
  BY DEF L!Restart
<1>2. fill' \in Fills /\ fill' = L!NoFill /\ fill'.pc # "write"
  BY IdleFill DEF L!Restart, Fills
<1>3. died' \in BOOLEAN
  BY DEF L!Restart, LearnTypes
<1> QED BY <1>1, <1>2, <1>3, Zenon DEF L!Restart, LearnTypes

LEMMA LearnNextIs == L!Next <=> (\E h \in Learners : Teaching(h)) \/ Filling \/ L!Restart
BY DEF L!Next, Teaching, Filling

LEMMA LearnTypesStep == ASSUME LearnTypes, [L!Next]_(L!vars) PROVE LearnTypes'
<1>1. CASE UNCHANGED L!vars
  BY <1>1, Zenon DEF L!vars, LearnTypes
<1>2. ASSUME NEW h \in Learners, Teaching(h) PROVE LearnTypes'
  BY <1>2, TeacherTypes
<1> QED BY <1>1, <1>2, FillTypes, RestartTypes, LearnNextIs

----------------------------------------------------------------------------
(* No run counts twice *)

LEMMA HadIs ==
    ASSUME LearnTypes, NEW k
    PROVE  /\ IsFiniteSet(Earned(k)) /\ IsFiniteSet(Owing(k))
           /\ Cardinality(Earned(k)) \in Nat /\ Cardinality(Owing(k)) \in Nat /\ Had(k) \in Nat
<1>1. DOMAIN receipts = 1 .. Len(receipts) /\ Len(receipts) \in Nat
  BY DEF LearnTypes
<1>2. IsFiniteSet(DOMAIN receipts)
  BY <1>1, FS_Interval
<1>3. Earned(k) \subseteq DOMAIN receipts /\ Owing(k) \subseteq Learners
  BY DEF Earned, Owing
<1>4. IsFiniteSet(Earned(k)) /\ IsFiniteSet(Owing(k))
  BY <1>2, <1>3, LearningAssumption, FS_Subset
<1> QED BY <1>4, FS_CardinalityType DEF Had

\* Whoever owes a receipt goes on owing it, and one who has taught begins to.
LEMMA OwesOn ==
    ASSUME LearnTypes, LearnTypes', NEW h \in Learners, NEW s, UNCHANGED receipts,
           learning' = [learning EXCEPT ![h] = s],
           learning[h].pc \in {"speed", "receipt"} => s.pc \in {"speed", "receipt"} /\ s.run = learning[h].run,
           NEW k
    PROVE  /\ Earned(k)' = Earned(k) /\ Had(k) <= Had(k)'
           /\ learning[h].pc \notin {"speed", "receipt"} /\ s.pc \in {"speed", "receipt"} /\ s.run.key = k
                => Had(k)' = Had(k) + 1
<1>1. Earned(k)' = Earned(k)
  BY DEF Earned
<1>2. \A g \in Learners : learning'[g] = IF g = h THEN s ELSE learning[g]
  BY DEF LearnTypes
<1>3. Owing(k) \subseteq Owing(k)'
  BY <1>2 DEF Owing
<1>4. ASSUME learning[h].pc \notin {"speed", "receipt"}, s.pc \in {"speed", "receipt"}, s.run.key = k
      PROVE  Owing(k)' = Owing(k) \cup {h} /\ h \notin Owing(k)
  BY <1>2, <1>4 DEF Owing
<1>5. /\ IsFiniteSet(Owing(k)) /\ IsFiniteSet(Owing(k)')
      /\ Cardinality(Owing(k)) \in Nat /\ Cardinality(Owing(k)') \in Nat /\ Cardinality(Earned(k)) \in Nat
  <2>1. IsFiniteSet(Owing(k)) /\ Cardinality(Owing(k)) \in Nat /\ Cardinality(Earned(k)) \in Nat
    BY HadIs
  <2>2. Owing(k)' \subseteq Learners
    BY DEF Owing
  <2>3. IsFiniteSet(Owing(k)')
    BY <2>2, LearningAssumption, FS_Subset
  <2> QED BY <2>1, <2>3, FS_CardinalityType
<1>6. Cardinality(Owing(k)) <= Cardinality(Owing(k)')
  BY <1>3, <1>5, FS_Subset
<1>7. /\ learning[h].pc \notin {"speed", "receipt"} /\ s.pc \in {"speed", "receipt"} /\ s.run.key = k
         => Cardinality(Owing(k)') = Cardinality(Owing(k)) + 1
  BY <1>4, <1>5, FS_AddElement
<1>8. Had(k) = Cardinality(Earned(k)) + Cardinality(Owing(k))
      /\ Had(k)' = Cardinality(Earned(k)) + Cardinality(Owing(k)')
  BY <1>1 DEF Had
<1> QED BY <1>1, <1>5, <1>6, <1>7, <1>8

\* The receipt takes the place of the handler that owed it.
LEMMA OwedIsEarned ==
    ASSUME LearnTypes, LearnTypes', NEW h \in Learners, L!AddReceipt(h), ~died', NEW k
    PROVE  Had(k)' = Had(k) /\ Cardinality(Earned(k)) <= Cardinality(Earned(k)')
<1> DEFINE run == learning[h].run
           N == Len(receipts)
<1>1. learning[h] \in Teachings /\ learning[h].pc = "receipt"
  BY AtIs DEF L!AddReceipt
<1>2. receipts' = Append(receipts, run) /\ learning' = [learning EXCEPT ![h] = L!Rest]
  BY DEF L!AddReceipt, L!Trouble
<1>3. /\ N \in Nat /\ DOMAIN receipts = 1 .. N /\ DOMAIN receipts' = 1 .. N + 1 /\ receipts'[N + 1] = run
      /\ \A i \in 1 .. N : receipts'[i] = receipts[i]
  <2>1. receipts \in Seq(L!Receipt) /\ run \in L!Receipt
    BY <1>1 DEF LearnTypes, Teachings, LaterReceipts
  <2> HIDE DEF run
  <2> QED BY <1>2, <2>1
<1>4. \A g \in Learners : learning'[g] = IF g = h THEN L!Rest ELSE learning[g]
  BY <1>2 DEF LearnTypes
<1>5. /\ IsFiniteSet(Earned(k)) /\ IsFiniteSet(Owing(k))
      /\ Cardinality(Earned(k)) \in Nat /\ Cardinality(Owing(k)) \in Nat
  BY HadIs
<1> HIDE DEF N, run
<1>6. CASE run.key = k
  <2>1. Earned(k)' = Earned(k) \cup {N + 1} /\ N + 1 \notin Earned(k)
    BY <1>3, <1>6 DEF Earned
  <2>2. Owing(k)' = Owing(k) \ {h} /\ h \in Owing(k)
    BY <1>1, <1>4, <1>6, IdleTeacher DEF Owing, run
  <2>3. Cardinality(Earned(k)') = Cardinality(Earned(k)) + 1
    BY <1>5, <2>1, FS_AddElement
  <2>4. Cardinality(Owing(k)') = Cardinality(Owing(k)) - 1
    BY <1>5, <2>2, FS_RemoveElement
  <2>5. Had(k)' = Cardinality(Earned(k)') + Cardinality(Owing(k)')
    BY DEF Had
  <2> QED BY <1>5, <2>3, <2>4, <2>5 DEF Had
<1>7. CASE run.key # k
  <2>1. Earned(k)' = Earned(k)
    BY <1>3, <1>7 DEF Earned
  <2>2. Owing(k)' = Owing(k)
    BY <1>1, <1>4, <1>7, IdleTeacher DEF Owing, run
  <2>3. Had(k)' = Cardinality(Earned(k)') + Cardinality(Owing(k)')
    BY DEF Had
  <2> QED BY <1>5, <2>1, <2>2, <2>3 DEF Had
<1> QED BY <1>6, <1>7

LEMMA StaysBelow ==
    ASSUME LearnTypes, LearnTypes', \A k : Had(k) <= Had(k)', NEW t \in Tables, Backed(t)
    PROVE  \A k \in DOMAIN t : t[k].samples <= Had(k)'
<1> SUFFICES ASSUME NEW k \in DOMAIN t PROVE t[k].samples <= Had(k)'
  OBVIOUS
<1>1. t[k].samples <= Had(k) /\ t[k].samples \in Nat
  BY TableIs DEF Backed, L!Row
<1>2. Had(k) \in Nat
  BY HadIs
<1>3. Had(k)' \in Nat
  <2>1. IsFiniteSet(Earned(k)')
    <3>1. DOMAIN receipts' = 1 .. Len(receipts') /\ Len(receipts') \in Nat
      BY DEF LearnTypes
    <3>2. IsFiniteSet(DOMAIN receipts') /\ Earned(k)' \subseteq DOMAIN receipts'
      BY <3>1, FS_Interval DEF Earned
    <3> QED BY <3>2, FS_Subset
  <2>2. Owing(k)' \subseteq Learners
    BY DEF Owing
  <2>3. IsFiniteSet(Owing(k)')
    BY <2>2, LearningAssumption, FS_Subset
  <2>4. Cardinality(Earned(k)') \in Nat /\ Cardinality(Owing(k)') \in Nat
    BY <2>1, <2>3, FS_CardinalityType
  <2>5. Had(k)' = Cardinality(Earned(k)') + Cardinality(Owing(k)')
    BY DEF Had
  <2> QED BY <2>4, <2>5
<1>4. Had(k) <= Had(k)'
  OBVIOUS
<1> QED BY <1>1, <1>2, <1>3, <1>4

LEMMA OwesSteps ==
    ASSUME LearnTypes, LearnTypes', NEW h \in Learners, Teaching(h), ~died'
    PROVE  \A k : Had(k) <= Had(k)' /\ Cardinality(Earned(k)) <= Cardinality(Earned(k)')
<1> SUFFICES ASSUME NEW k
             PROVE  Had(k) <= Had(k)' /\ Cardinality(Earned(k)) <= Cardinality(Earned(k)')
  OBVIOUS
<1>0. Cardinality(Earned(k)) \in Nat /\ Had(k) \in Nat
  BY HadIs
<1>1. ASSUME UNCHANGED receipts, NEW s, learning' = [learning EXCEPT ![h] = s],
             learning[h].pc \in {"speed", "receipt"} => s.pc \in {"speed", "receipt"} /\ s.run = learning[h].run
      PROVE  Had(k) <= Had(k)' /\ Cardinality(Earned(k)) <= Cardinality(Earned(k)')
  <2>1. Earned(k)' = Earned(k) /\ Had(k) <= Had(k)'
    BY <1>1, OwesOn
  <2> QED BY <1>0, <2>1
<1>2. ASSUME NEW run \in LaterRuns, L!Complete(h, run)
      PROVE  Had(k) <= Had(k)' /\ Cardinality(Earned(k)) <= Cardinality(Earned(k)')
  <2>1. PICK s \in Teachings : learning[h] = L!Rest /\ learning' = [learning EXCEPT ![h] = s]
    BY <1>2, CompleteGoes
  <2>2. UNCHANGED receipts
    BY <1>2 DEF L!Complete
  <2> QED BY <1>1, <2>1, <2>2, IdleTeacher
<1>3. CASE L!ReadRows(h)
  <2>1. PICK s \in Teachings : learning[h].pc = "rows" /\ learning' = [learning EXCEPT ![h] = s]
    BY <1>3, ReadRowsGoes
  <2>2. UNCHANGED receipts
    BY <1>3 DEF L!ReadRows
  <2> QED BY <1>1, <2>1, <2>2
<1>4. CASE L!ReadSpeeds(h)
  <2>1. PICK s \in Teachings : learning[h].pc = "speeds" /\ learning' = [learning EXCEPT ![h] = s]
    BY <1>4, ReadSpeedsGoes
  <2>2. UNCHANGED receipts
    BY <1>4 DEF L!ReadSpeeds
  <2> QED BY <1>1, <2>1, <2>2
<1>5. CASE L!Upsert(h)
  <2>1. PICK s \in Teachings : learning[h].pc = "upsert" /\ learning' = [learning EXCEPT ![h] = s]
    BY <1>5, UpsertGoes
  <2>2. UNCHANGED receipts
    BY <1>5 DEF L!Upsert
  <2> QED BY <1>1, <2>1, <2>2
<1>6. CASE L!UpdateSpeed(h)
  <2>1. PICK s \in Teachings : s.pc = "receipt" /\ s.run = learning[h].run
                               /\ learning' = [learning EXCEPT ![h] = s]
    BY <1>6, UpdateSpeedGoes
  <2>2. UNCHANGED receipts
    BY <1>6 DEF L!UpdateSpeed
  <2> QED BY <1>1, <2>1, <2>2
<1>7. CASE L!AddReceipt(h)
  BY <1>0, <1>7, OwedIsEarned
<1> QED BY <1>2, <1>3, <1>4, <1>5, <1>6, <1>7 DEF Teaching

\* A handler's row is one sample more than it read.
LEMMA UpsertBacked ==
    ASSUME LearnTypes, LearnTypes', NoneTwice, NEW h \in Learners, L!Upsert(h), ~died, ~died',
           \A k : Had(k) <= Had(k)'
    PROVE  Backed(table)'
<1> DEFINE old == learning[h]
           key == old.run.key
           rows == L!Learn(old, old.run).rows
<1>1. old \in Teachings /\ old.pc = "upsert"
  BY UpsertGoes
<1>2. PICK s \in Teachings : /\ s.pc \in {"speed", "receipt"} /\ s.run = old.run
                             /\ s.pc = "receipt" => table' = table
                             /\ s.pc = "speed" =>
                                   table' = [k \in DOMAIN table \cup {key} |->
                                                IF k = key THEN rows[key] ELSE table[k]]
                             /\ learning' = [learning EXCEPT ![h] = s]
  BY UpsertGoes
<1>3. Backed(table) /\ Backed(old.rows) /\ table \in Tables /\ old.rows \in Tables
  BY <1>1 DEF NoneTwice, LearnTypes, Teachings
<1>4. \A k \in DOMAIN table : table[k].samples <= Had(k)'
  BY <1>3, StaysBelow
<1>5. CASE s.pc = "receipt"
  BY <1>2, <1>4, <1>5 DEF Backed
<1>6. CASE s.pc = "speed"
  <2>1. OneSampleMore(old.rows, key, rows)
    <3>1. rows = L!NextRows(old.rows, key, old.run.seconds) /\ key \in L!Keys /\ old.run.seconds \in Nat
      BY <1>1, TeachingIs DEF Teachings, LaterReceipts, L!Receipt
    <3> HIDE DEF rows, key
    <3> QED BY <1>3, <3>1, RowsAfter
  <2>2. ASSUME NEW k, k = key PROVE rows[k].samples <= Had(k)'
    <3>1. UNCHANGED receipts
      BY DEF L!Upsert
    <3>2. learning[h].pc \notin {"speed", "receipt"} /\ s.pc \in {"speed", "receipt"} /\ s.run.key = k
      BY <1>1, <1>2, <1>6, <2>2
    <3>3. Had(k)' = Had(k) + 1 /\ Had(k) \in Nat
      BY <1>2, <3>1, <3>2, OwesOn, HadIs
    <3>4. k \in DOMAIN old.rows => old.rows[k].samples <= Had(k)
      BY <1>3 DEF Backed
    <3>5. k \in DOMAIN old.rows => old.rows[k].samples \in Nat
      BY <1>3, TableIs DEF L!Row
    <3> HIDE DEF rows, key, old
    <3> QED BY <2>1, <2>2, <3>3, <3>4, <3>5 DEF OneSampleMore
  <2>4. table' = [k \in DOMAIN table \cup {key} |-> IF k = key THEN rows[key] ELSE table[k]]
    BY <1>2, <1>6
  <2>5. \A k \in DOMAIN table' : table'[k].samples <= Had(k)'
    <3> HIDE DEF rows, key, old
    <3> QED BY <1>4, <2>2, <2>4
  <2> QED BY <2>5 DEF Backed
<1> QED BY <1>2, <1>5, <1>6

LEMMA TwiceTeaching ==
    ASSUME LearnTypes, LearnTypes', NoneTwice, NEW h \in Learners, Teaching(h)
    PROVE  NoneTwice'
<1> SUFFICES ASSUME ~died' PROVE NoneTwice'
  BY DEF NoneTwice
<1>1. ~died /\ fill' = fill
  <2>1. fill' = fill
    BY ZenonT(40) DEF Teaching, L!Complete, L!ReadRows, L!ReadSpeeds, L!Upsert,
                      L!UpdateSpeed, L!AddReceipt
  <2>2. ~died
    BY AddReceiptGoes, Zenon DEF Teaching, L!Complete, L!ReadRows, L!ReadSpeeds, L!Upsert,
                                 L!UpdateSpeed
  <2> QED BY <2>1, <2>2, ZenonT(40)
<1>2. \A k : Had(k) <= Had(k)' /\ Cardinality(Earned(k)) <= Cardinality(Earned(k)')
  BY OwesSteps
<1>3. /\ Backed(table)
      /\ \A g \in Learners : learning[g].pc \in {"speeds", "upsert"} => Backed(learning[g].rows)
      /\ fill.pc = "write" =>
            \A k \in DOMAIN fill.learnt.rows : fill.learnt.rows[k].samples <= Cardinality(Earned(k))
  BY <1>1 DEF NoneTwice
<1>4. \A t \in Tables : Backed(t) => \A k \in DOMAIN t : t[k].samples <= Had(k)'
  BY <1>2, StaysBelow
<1>5. Backed(table)'
  <2>1. CASE L!Upsert(h)
    BY <1>1, <1>2, <2>1, UpsertBacked
  <2>2. CASE ~L!Upsert(h)
    <3>1. table' = table
      BY <2>2, Zenon DEF Teaching, L!Complete, L!ReadRows, L!ReadSpeeds, L!UpdateSpeed,
                         L!AddReceipt
    <3> QED BY <1>3, <1>4, <3>1, ZenonT(40) DEF Backed, LearnTypes
  <2> QED BY <2>1, <2>2
<1>6. ASSUME NEW s \in {L!Rest} \cup Teachings, learning' = [learning EXCEPT ![h] = s],
             s.pc \in {"speeds", "upsert"} => Backed(s.rows)
      PROVE  \A g \in Learners : learning'[g].pc \in {"speeds", "upsert"} =>
                \A k \in DOMAIN learning'[g].rows : learning'[g].rows[k].samples <= Had(k)'
  <2> SUFFICES ASSUME NEW g \in Learners, learning'[g].pc \in {"speeds", "upsert"}
               PROVE  \A k \in DOMAIN learning'[g].rows : learning'[g].rows[k].samples <= Had(k)'
    OBVIOUS
  <2>1. learning'[g] = IF g = h THEN s ELSE learning[g]
    BY <1>6 DEF LearnTypes
  <2>2. Backed(learning'[g].rows)
    BY <1>3, <1>6, <2>1
  <2>3. learning'[g] \in Teachings
    BY IdleTeacher DEF LearnTypes
  <2>4. learning'[g].rows \in Tables
    BY <2>3 DEF Teachings
  <2> QED BY <1>4, <2>2, <2>4
<1>7. \A g \in Learners : learning'[g].pc \in {"speeds", "upsert"} =>
          \A k \in DOMAIN learning'[g].rows : learning'[g].rows[k].samples <= Had(k)'
  <2>1. ASSUME NEW run \in LaterRuns, L!Complete(h, run)
        PROVE  \E s \in {L!Rest} \cup Teachings : /\ learning' = [learning EXCEPT ![h] = s]
                                                  /\ s.pc \in {"speeds", "upsert"} => Backed(s.rows)
    <3>1. PICK s \in Teachings : s.pc = (IF run.kind = "child" THEN "receipt" ELSE "rows")
                                 /\ learning' = [learning EXCEPT ![h] = s]
      BY <2>1, CompleteGoes
    <3>2. s.pc \notin {"speeds", "upsert"}
      BY <3>1
    <3> QED BY <3>1, <3>2
  <2>2. CASE L!ReadRows(h)
    <3>1. PICK s \in Teachings : s.rows \in {table, L!Empty} /\ learning' = [learning EXCEPT ![h] = s]
      BY <2>2, ReadRowsGoes
    <3>2. Backed(L!Empty)
      BY EmptyIs DEF Backed
    <3>3. Backed(s.rows)
      BY <1>3, <3>1, <3>2
    <3> QED BY <1>6, <3>1, <3>3
  <2>3. CASE L!ReadSpeeds(h)
    <3>1. PICK s \in Teachings : s.rows = learning[h].rows /\ learning' = [learning EXCEPT ![h] = s]
      BY <2>3, ReadSpeedsGoes
    <3>2. Backed(s.rows)
      BY <1>3, <2>3, <3>1, ReadSpeedsGoes
    <3> QED BY <1>6, <3>1, <3>2
  <2>4. CASE L!Upsert(h)
    <3>1. PICK s \in Teachings : s.pc \in {"speed", "receipt"} /\ learning' = [learning EXCEPT ![h] = s]
      BY <2>4, UpsertGoes
    <3>2. s.pc \notin {"speeds", "upsert"}
      BY <3>1
    <3> QED BY <1>6, <3>1, <3>2
  <2>5. CASE L!UpdateSpeed(h)
    <3>1. PICK s \in Teachings : s.pc = "receipt" /\ learning' = [learning EXCEPT ![h] = s]
      BY <2>5, UpdateSpeedGoes
    <3> QED BY <1>6, <3>1
  <2>6. CASE L!AddReceipt(h)
    BY <1>6, <2>6, AddReceiptGoes, IdleTeacher
  <2> QED BY <1>6, <2>1, <2>2, <2>3, <2>4, <2>5, <2>6 DEF Teaching
<1>8. ASSUME fill.pc = "write", NEW k \in DOMAIN fill.learnt.rows
      PROVE  fill.learnt.rows[k].samples <= Cardinality(Earned(k)')
  <2>1. fill.learnt.rows \in Tables
    BY <1>8, IdleFill DEF LearnTypes, Fills, Knowns
  <2>2. fill.learnt.rows[k].samples \in Nat
    BY <2>1, TableIs DEF L!Row
  <2>3. Cardinality(Earned(k)) \in Nat
    BY HadIs
  <2>4. IsFiniteSet(Earned(k)')
    <3>1. DOMAIN receipts' = 1 .. Len(receipts') /\ Len(receipts') \in Nat
      BY DEF LearnTypes
    <3>2. IsFiniteSet(DOMAIN receipts') /\ Earned(k)' \subseteq DOMAIN receipts'
      BY <3>1, FS_Interval DEF Earned
    <3> QED BY <3>2, FS_Subset
  <2>5. Cardinality(Earned(k)') \in Nat
    BY <2>4, FS_CardinalityType
  <2> QED BY <1>2, <1>3, <1>8, <2>2, <2>3, <2>5
<1> QED BY <1>1, <1>5, <1>7, <1>8 DEF NoneTwice, Backed

\* While no handler moves, what is owed and earned stays.
LEMMA HadStays ==
    ASSUME UNCHANGED <<receipts, learning>>, NEW k
    PROVE  Had(k)' = Had(k) /\ Earned(k)' = Earned(k)
BY DEF Had, Earned, Owing

LEMMA TwiceFilling == ASSUME LearnTypes, NoneTwice, Filling PROVE NoneTwice'
<1> USE DEF L!Sound, L!Trouble
<1>0. receipts' = receipts /\ learning' = learning /\ died' = died
  BY DEF Filling, L!SkipFill, L!CheckFill, L!ReadFill, L!WriteFill, L!EndFill, L!FailFill
<1> SUFFICES ASSUME ~died PROVE NoneTwice'
  BY <1>0 DEF NoneTwice
<1>1. \A k : Had(k)' = Had(k) /\ Earned(k)' = Earned(k)
  BY <1>0, HadStays
<1>2. \A k : Had(k) \in Nat /\ Cardinality(Earned(k)) \in Nat /\ Cardinality(Earned(k)) <= Had(k)
  BY HadIs DEF Had
<1>3. \A g \in Learners : learning'[g].pc \in {"speeds", "upsert"} =>
          \A k \in DOMAIN learning'[g].rows : learning'[g].rows[k].samples <= Had(k)'
  BY <1>0, <1>1 DEF NoneTwice, Backed
<1>4. \A k \in DOMAIN table' : table'[k].samples <= Had(k)
  <2>1. CASE table' = table
    BY <2>1 DEF NoneTwice, Backed
  <2>2. CASE L!WriteFill
    <3> DEFINE new == fill.learnt.rows
    <3>1. \A k \in DOMAIN new : new[k].samples <= Cardinality(Earned(k))
      BY <2>2 DEF NoneTwice, L!WriteFill
    <3>2. new \in Tables
      BY <2>2, IdleFill DEF LearnTypes, Fills, Knowns, L!WriteFill
    <3>3. table' = [k \in DOMAIN new \cup DOMAIN table |-> IF k \in DOMAIN new THEN new[k] ELSE table[k]]
      BY <2>2 DEF L!WriteFill
    <3>4. \A k \in DOMAIN table : table[k].samples <= Had(k)
      BY DEF NoneTwice, Backed
    <3>5. \A k \in DOMAIN new : new[k].samples \in Nat
      BY <3>2, TableIs DEF L!Row
    <3>6. \A k \in DOMAIN new : new[k].samples <= Had(k)
      <4> HIDE DEF new
      <4> QED BY <1>2, <3>1, <3>5
    <3> HIDE DEF new
    <3> QED BY <3>3, <3>4, <3>6
  <2> QED BY <2>1, <2>2 DEF Filling, L!SkipFill, L!CheckFill, L!ReadFill, L!EndFill, L!FailFill
<1>5. fill'.pc = "write" =>
          \A k \in DOMAIN fill'.learnt.rows : fill'.learnt.rows[k].samples <= Cardinality(Earned(k))
  <2>1. CASE L!ReadFill
    <3>1. PICK known \in {L!Prior, L!Empty} : fill'.learnt = L!Replay(receipts, L!Latest, known)
      BY <2>1 DEF L!ReadFill
    <3>2. Learnt(receipts, L!Latest, known, Len(receipts), fill'.learnt)
      BY <3>1, FilledIs
    <3>3. \A k : Earned(k) = {i \in 1 .. Len(receipts) : receipts[i].key = k}
      BY DEF Earned, LearnTypes
    <3> QED BY <3>2, <3>3 DEF Learnt
  <2>2. CASE ~L!ReadFill
    <3>1. fill'.pc # "write"
      <4>1. CASE L!SkipFill
        BY <4>1, IdleFill DEF L!SkipFill
      <4>2. CASE L!CheckFill
        BY <4>2 DEF L!CheckFill, L!NoFill
      <4>3. CASE L!WriteFill
        <5>1. fill \in [pc: {"write", "flag"}, learnt: Knowns, of: SUBSET Runners]
          BY <4>3, IdleFill DEF L!WriteFill, LearnTypes, Fills
        <5> QED BY <4>3, <5>1 DEF L!WriteFill
      <4>4. CASE L!EndFill \/ L!FailFill
        BY <4>4, IdleFill DEF L!EndFill, L!FailFill
      <4> QED BY <2>2, <4>1, <4>2, <4>3, <4>4 DEF Filling
    <3> QED BY <3>1
  <2> QED BY <2>1, <2>2
<1> QED BY <1>0, <1>1, <1>3, <1>4, <1>5 DEF NoneTwice, Backed

LEMMA TwiceRestart == ASSUME LearnTypes, NoneTwice, L!Restart PROVE NoneTwice'
<1> SUFFICES ASSUME ~died' PROVE NoneTwice'
  BY DEF NoneTwice
<1>1. ~died /\ \A h \in Learners : learning[h] = L!Rest
  BY DEF L!Restart
<1>2. learning' = learning
  <2>1. learning = [h \in Learners |-> learning[h]]
    BY DEF LearnTypes
  <2> QED BY <1>1, <2>1 DEF L!Restart
<1>3. receipts' = receipts /\ table' = table /\ fill'.pc # "write"
  BY IdleFill DEF L!Restart
<1>4. \A k : Had(k)' = Had(k)
  BY <1>2, <1>3, HadStays
<1> QED BY <1>1, <1>2, <1>3, <1>4 DEF NoneTwice, Backed

LEMMA NoneTwiceStep == ASSUME LearnTypes, NoneTwice, [L!Next]_(L!vars) PROVE NoneTwice'
<1>0. LearnTypes'
  BY LearnTypesStep
<1>1. CASE UNCHANGED L!vars
  BY <1>1 DEF L!vars, NoneTwice, Backed, Had, Earned, Owing
<1>2. ASSUME NEW h \in Learners, Teaching(h) PROVE NoneTwice'
  BY <1>0, <1>2, TwiceTeaching
<1> QED BY <1>1, <1>2, TwiceFilling, TwiceRestart, LearnNextIs

----------------------------------------------------------------------------
(* What the receipts taught *)

LEMMA LessonsIs ==
    L!Lessons = {i \in DOMAIN receipts :
                    \/ /\ receipts[i].kind = "old"
                       /\ i > Cardinality({j \in DOMAIN receipts : receipts[j].kind = "old"}) - BackfillLimit
                    \/ receipts[i].kind = "whole"}
BY LearnCardinality DEF L!Lessons

\* As long as every receipt is an old one, the tick's replay is of these.
LEMMA OldLessons ==
    ASSUME LearnTypes, \A i \in DOMAIN receipts : receipts[i].kind = "old"
    PROVE  L!Lessons = L!Latest
<1>1. DOMAIN receipts = 1 .. Len(receipts) /\ Len(receipts) \in Nat
  BY DEF LearnTypes
<1>2. {j \in DOMAIN receipts : receipts[j].kind = "old"} = 1 .. Len(receipts)
  BY <1>1
<1>3. Cardinality(1 .. Len(receipts)) = Len(receipts)
  <2>1. Cardinality(1 .. Len(receipts)) = IF 1 > Len(receipts) THEN 0 ELSE Len(receipts) - 1 + 1
    BY <1>1, FS_Interval
  <2> QED BY <1>1, <2>1
<1>4. L!Latest = {i \in DOMAIN receipts : i > Len(receipts) - BackfillLimit}
  BY DEF L!Latest
<1> QED BY <1>2, <1>3, <1>4, LessonsIs

\* What is known from the receipts, typed.
LEMMA KnownIs ==
    ASSUME LearnTypes
    PROVE  /\ Learnt(receipts, L!Lessons, PriorOf, Len(receipts), Known) /\ Known \in Knowns
           /\ PriorOf \in Speeds /\ DOMAIN PriorOf = Runners
<1>1. PriorOf \in Speeds /\ DOMAIN PriorOf = Runners
  BY LearningAssumption, ZenonT(40) DEF Speeds
<1>2. receipts \in Seq(L!Receipt)
  BY DEF LearnTypes
<1>3. Learnt(receipts, L!Lessons, PriorOf, Len(receipts), Known)
  BY <1>1, <1>2, ReplayLearns DEF Known
<1> QED BY <1>1, <1>3 DEF Learnt

LEMMA KnownStays == ASSUME UNCHANGED receipts PROVE Known' = Known
BY DEF Known, L!Lessons

\* A receipt teaches what its handler taught.
LEMMA KnownAppends ==
    ASSUME LearnTypes, NEW run \in LaterReceipts, receipts' = Append(receipts, run)
    PROVE  Known' = IF run.kind = "whole" THEN L!Learn(Known, run) ELSE Known
<1> DEFINE N == Len(receipts)
           Old(past) == {j \in DOMAIN past : past[j].kind = "old"}
           Taught(past) == {i \in DOMAIN past :
                               \/ past[i].kind = "old" /\ i > Cardinality(Old(past)) - BackfillLimit
                               \/ past[i].kind = "whole"}
<1>1. receipts \in Seq(L!Receipt) /\ run \in L!Receipt /\ run.kind # "old"
  BY DEF LearnTypes, LaterReceipts
<1>2. /\ N \in Nat /\ DOMAIN receipts = 1 .. N /\ DOMAIN receipts' = 1 .. N + 1
      /\ \A i \in 1 .. N : receipts'[i] = receipts[i]
      /\ receipts'[N + 1] = run
  BY <1>1
<1>3. L!Lessons = Taught(receipts)
  BY LessonsIs
<1>4. L!Lessons' = Taught(receipts')
  BY LearnCardinality DEF L!Lessons
<1> HIDE DEF N
<1>5. Old(receipts') = Old(receipts)
  BY <1>1, <1>2
<1> HIDE DEF Old
<1>6. \A i \in 1 .. N : i \in Taught(receipts) <=> i \in Taught(receipts')
  BY <1>2, <1>5
<1>7. N + 1 \in Taught(receipts') <=> run.kind = "whole"
  BY <1>1, <1>2
<1> HIDE DEF Taught
<1> DEFINE others == Taught(receipts')
<1>8. L!Replay(Append(receipts, run), others, PriorOf)
          = IF N + 1 \in others THEN L!Learn(L!Replay(receipts, L!Lessons, PriorOf), run)
            ELSE L!Replay(receipts, L!Lessons, PriorOf)
  <2>1. \A i \in 1 .. Len(receipts) : i \in L!Lessons <=> i \in others
    BY <1>3, <1>6 DEF N
  <2> HIDE DEF others
  <2> QED BY <1>1, <2>1, ReplayAppends DEF N
<1>9. Known' = L!Replay(Append(receipts, run), others, PriorOf)
  BY <1>4 DEF Known
<1> HIDE DEF others
<1> QED BY <1>7, <1>8, <1>9 DEF Known, others

\* Where the tables hold something else after a step, or still the same.
LEMMA HoldsNow ==
    ASSUME table' = Known'.rows, L!Effective(table', speed') = Known'.speeds
    PROVE  Holds(Known)'
BY DEF Holds

LEMMA HoldsStill ==
    ASSUME UNCHANGED <<table, speed, receipts>>, Holds(Known)
    PROVE  Holds(Known)'
<1>1. Known' = Known
  BY KnownStays
<1> QED BY <1>1 DEF Holds

\* A handler whom nobody crosses went on.
LEMMA AfterIs ==
    ASSUME LearnTypes, NEW h \in Learners, NEW s, learning' = [learning EXCEPT ![h] = s],
           \A g \in Learners : g # h => learning[g] = L!Rest,
           s = L!Rest => Holds(Known)', s # L!Rest => Reached(s)'
    PROVE  After'
<1>1. \A g \in Learners : learning'[g] = IF g = h THEN s ELSE L!Rest
  BY DEF LearnTypes
<1>2. \A f, g \in Learners : f # g => learning'[f] = L!Rest \/ learning'[g] = L!Rest
  BY <1>1
<1>3. (\A g \in Learners : learning'[g] = L!Rest) => Holds(Known)'
  BY <1>1
<1>4. ASSUME NEW g \in Learners, learning'[g] # L!Rest PROVE Reached(learning[g])'
  <2>1. learning'[g] = s /\ Reached(s)'
    BY <1>1, <1>4
  <2> QED BY <2>1 DEF Reached, Holds
<1> QED BY <1>2, <1>3, <1>4 DEF After

LEMMA AfterComplete ==
    ASSUME LearnTypes, flag, After, NEW h \in Learners, NEW run \in LaterRuns, L!Complete(h, run), clean'
    PROVE  After'
<1>1. PICK s \in Teachings :
          /\ s.pc = (IF run.kind = "child" THEN "receipt" ELSE "rows") /\ s.run = run
          /\ learning' = [learning EXCEPT ![h] = s]
  BY CompleteGoes
<1>2. \A g \in Learners : learning[g] = L!Rest
  BY DEF L!Complete
<1>3. Holds(Known)'
  BY <1>2, HoldsStill DEF After, L!Complete
<1>4. run.kind \in {"whole", "child"}
  BY LearningAssumption DEF L!Receipt
<1>5. s # L!Rest
  BY IdleTeacher
<1>6. Reached(s)'
  BY <1>1, <1>3, <1>4 DEF Reached
<1> QED BY <1>1, <1>2, <1>5, <1>6, AfterIs

\* Whoever is at work is alone.
LEMMA TeachesAlone ==
    ASSUME LearnTypes, After, NEW h \in Learners, learning[h] \in Teachings
    PROVE  /\ \A g \in Learners : g # h => learning[g] = L!Rest
           /\ Reached(learning[h])
BY IdleTeacher DEF After

LEMMA AfterReadRows ==
    ASSUME LearnTypes, After, NEW h \in Learners, L!ReadRows(h), clean'
    PROVE  After'
<1>1. learning[h] \in Teachings /\ learning[h].pc = "rows"
  BY ReadRowsGoes
<1>2. PICK s \in Teachings : /\ s.pc = "speeds" /\ s.run = learning[h].run /\ s.rows = table
                             /\ learning' = [learning EXCEPT ![h] = s]
  BY ReadRowsGoes
<1>3. Reached(learning[h]) /\ \A g \in Learners : g # h => learning[g] = L!Rest
  BY <1>1, TeachesAlone
<1>4. UNCHANGED <<table, speed, receipts>>
  BY DEF L!ReadRows
<1>5. s.run.kind = "whole" /\ Holds(Known)
  BY <1>1, <1>2, <1>3 DEF Reached
<1>6. Holds(Known)'
  BY <1>4, <1>5, HoldsStill
<1>7. Reached(s)'
  BY <1>2, <1>4, <1>5, <1>6 DEF Reached
<1>8. s # L!Rest
  BY IdleTeacher
<1> QED BY <1>2, <1>3, <1>7, <1>8, AfterIs

LEMMA AfterReadSpeeds ==
    ASSUME LearnTypes, After, NEW h \in Learners, L!ReadSpeeds(h), clean'
    PROVE  After'
<1>1. learning[h] \in Teachings /\ learning[h].pc = "speeds"
  BY ReadSpeedsGoes
<1>2. PICK s \in Teachings : /\ s.pc = "upsert" /\ s.run = learning[h].run /\ s.rows = learning[h].rows
                             /\ s.speeds = L!Effective(s.rows, speed)
                             /\ learning' = [learning EXCEPT ![h] = s]
  BY ReadSpeedsGoes
<1>3. Reached(learning[h]) /\ \A g \in Learners : g # h => learning[g] = L!Rest
  BY <1>1, TeachesAlone
<1>4. UNCHANGED <<table, speed, receipts>>
  BY DEF L!ReadSpeeds
<1>5. s.run.kind = "whole" /\ Holds(Known) /\ s.rows = table
  BY <1>1, <1>2, <1>3 DEF Reached
<1>6. Holds(Known)' /\ Known' = Known
  BY <1>4, <1>5, HoldsStill, KnownStays
<1>7. s.speeds = Known.speeds
  BY <1>2, <1>5 DEF Holds
<1>8. Reached(s)'
  BY <1>2, <1>4, <1>5, <1>6, <1>7 DEF Reached
<1>9. s # L!Rest
  BY IdleTeacher
<1>10. learning' = [learning EXCEPT ![h] = s]
  BY <1>2
<1> QED BY <1>3, <1>8, <1>9, <1>10, AfterIs

LEMMA AfterUpsert ==
    ASSUME LearnTypes, After, NEW h \in Learners, L!Upsert(h), clean'
    PROVE  After'
<1> DEFINE old == learning[h]
           key == old.run.key
           rows == L!Learn(old, old.run).rows
<1>1. old \in Teachings /\ old.pc = "upsert"
  BY UpsertGoes
<1>2. PICK s \in Teachings :
          /\ s.pc = "speed" /\ s.run = old.run /\ s.rows = old.rows /\ s.speeds = old.speeds
          /\ table' = [k \in DOMAIN table \cup {key} |-> IF k = key THEN rows[key] ELSE table[k]]
          /\ learning' = [learning EXCEPT ![h] = s]
  BY UpsertGoes
<1>3. Reached(old) /\ \A g \in Learners : g # h => learning[g] = L!Rest
  BY <1>1, TeachesAlone
<1>4. UNCHANGED <<speed, receipts>>
  BY DEF L!Upsert
<1>5. s.run.kind = "whole" /\ Holds(Known) /\ old.rows = table /\ s.speeds = Known.speeds
  BY <1>1, <1>2, <1>3 DEF Reached
<1>6. Known' = Known
  BY <1>4, KnownStays
<1>7. table' = L!NextRows(table, key, old.run.seconds)
  <2>1. rows = L!NextRows(table, key, old.run.seconds)
    BY <1>1, <1>5, TeachingIs
  <2> HIDE DEF rows, key
  <2>2. rows = [k \in DOMAIN table \cup {key} |-> IF k # key THEN table[k] ELSE rows[key]]
    BY <2>1 DEF L!NextRows
  <2>3. rows = [k \in DOMAIN table \cup {key} |-> IF k = key THEN rows[key] ELSE table[k]]
    <3> DEFINE f == [k \in DOMAIN table \cup {key} |-> IF k # key THEN table[k] ELSE rows[key]]
               g == [k \in DOMAIN table \cup {key} |-> IF k = key THEN rows[key] ELSE table[k]]
    <3>1. f = g
      OBVIOUS
    <3> HIDE DEF f
    <3> QED BY <2>2, <3>1 DEF f
  <2> QED BY <1>2, <2>1, <2>3
<1>8. s.rows = Known.rows /\ L!Effective(s.rows, speed) = s.speeds
  BY <1>2, <1>5 DEF Holds
<1>9. Reached(s)'
  <2>1. /\ s.rows = Known'.rows /\ s.speeds = Known'.speeds
        /\ table' = L!NextRows(s.rows, s.run.key, s.run.seconds)
        /\ L!Effective(s.rows, speed') = s.speeds
    BY <1>2, <1>4, <1>5, <1>6, <1>7, <1>8
  <2> QED BY <1>2, <1>5, <2>1 DEF Reached
<1>10. s # L!Rest
  BY IdleTeacher
<1>11. learning' = [learning EXCEPT ![h] = s]
  BY <1>2
<1> QED BY <1>3, <1>9, <1>10, <1>11, AfterIs

LEMMA AfterUpdateSpeed ==
    ASSUME LearnTypes, After, NEW h \in Learners, L!UpdateSpeed(h), clean'
    PROVE  After'
<1> DEFINE old == learning[h]
           run == old.run
           w == run.key[1]
           new == L!Learn(old, old.run)
<1>1. old \in Teachings /\ old.pc = "speed"
  BY UpdateSpeedGoes
<1>2. PICK s \in Teachings : /\ s.pc = "receipt" /\ s.run = run
                             /\ learning' = [learning EXCEPT ![h] = s]
  BY UpdateSpeedGoes
<1>3. Reached(old) /\ \A g \in Learners : g # h => learning[g] = L!Rest
  BY <1>1, TeachesAlone
<1>4. UNCHANGED <<table, receipts>>
  BY DEF L!UpdateSpeed
<1>5. /\ run.kind = "whole" /\ old.rows = Known.rows /\ old.speeds = Known.speeds
      /\ table = L!NextRows(old.rows, run.key, run.seconds)
      /\ L!Effective(old.rows, speed) = old.speeds
  BY <1>1, <1>3 DEF Reached
<1>6. speed \in [Runners -> 10 .. 1000] /\ old.speeds \in [Runners -> 10 .. 1000]
  <2>1. speed \in [Runners -> 10 .. 1000]
    BY Zenon DEF LearnTypes
  <2>2. L!Effective(old.rows, speed) \in [Runners -> 10 .. 1000]
    BY <2>1, EffectiveIs
  <2> QED BY <1>5, <2>1, <2>2
<1>7. run \in L!Receipt /\ run.key \in L!Keys /\ run.seconds \in Nat /\ w \in Runners /\ old.rows \in Tables
  BY <1>1 DEF Teachings, LaterReceipts, L!Receipt, L!Keys
<1>8. w \in DOMAIN old.speeds
  BY <1>6, <1>7
<1>9. speed' = [speed EXCEPT ![w] = new.speeds[w]]
  BY <1>8, UpdateSpeedGoes
<1>10. new = L!Learn(Known, run)
  BY <1>5, TeachesAlike
<1>11. new.rows = table
  BY <1>1, <1>5, TeachingIs
<1>12. new.speeds = [old.speeds EXCEPT ![w] = L!NextSpeed(old.rows, old.speeds, run.key, run.seconds)]
  BY <1>8 DEF L!Learn
<1>13. OneSampleMore(old.rows, run.key, table)
  <2> HIDE DEF run, old
  <2> QED BY <1>5, <1>7, RowsAfter
<1>14. \A v : L!HasRun(table, v) <=> L!HasRun(old.rows, v) \/ v = w
  BY <1>13 DEF OneSampleMore, L!HasRun
<1>15. \A v \in Runners : L!HasRun(old.rows, v) => old.speeds[v] = speed[v]
  BY <1>5 DEF L!Effective
<1>16. \A v \in Runners : ~L!HasRun(old.rows, v) => old.speeds[v] = PriorOf[v]
  BY <1>5 DEF L!Effective
<1> HIDE DEF new, w, run, old
<1>17. L!Effective(table, speed') = new.speeds
  <2>1. \A v \in Runners : v # w => new.speeds[v] = old.speeds[v] /\ speed'[v] = speed[v]
    BY <1>6, <1>9, <1>12
  <2>2. speed'[w] = new.speeds[w]
    BY <1>6, <1>7, <1>9
  <2>3. ASSUME NEW v \in Runners
        PROVE  (IF L!HasRun(table, v) THEN speed'[v] ELSE PriorOf[v]) = new.speeds[v]
    BY <1>14, <1>15, <1>16, <2>1, <2>2
  <2>4. DOMAIN new.speeds = Runners /\ new.speeds = [v \in DOMAIN new.speeds |-> new.speeds[v]]
    BY <1>6, <1>12
  <2>5. L!Effective(table, speed') = [v \in Runners |-> IF L!HasRun(table, v) THEN speed'[v] ELSE PriorOf[v]]
    BY DEF L!Effective
  <2> QED BY <2>3, <2>4, <2>5
<1>18. Known' = Known
  BY <1>4, KnownStays
<1>19. Reached(s)'
  <2>1. table' = L!Learn(Known', s.run).rows /\ L!Effective(table', speed') = L!Learn(Known', s.run).speeds
    BY <1>2, <1>4, <1>10, <1>11, <1>17, <1>18
  <2>2. s.run.kind = "whole"
    BY <1>2, <1>5
  <2> QED BY <1>2, <2>1, <2>2 DEF Reached, Holds
<1>20. s # L!Rest
  BY IdleTeacher
<1> QED BY <1>2, <1>3, <1>19, <1>20, AfterIs

LEMMA AfterAddReceipt ==
    ASSUME LearnTypes, After, NEW h \in Learners, L!AddReceipt(h), ~died'
    PROVE  After'
<1> DEFINE run == learning[h].run
           known == IF run.kind = "whole" THEN L!Learn(Known, run) ELSE Known
<1>1. learning[h] \in Teachings /\ learning[h].pc = "receipt" /\ run \in LaterReceipts
  BY AddReceiptGoes DEF Teachings
<1>2. learning' = [learning EXCEPT ![h] = L!Rest] /\ receipts' = Append(receipts, run)
  BY AddReceiptGoes
<1>3. Reached(learning[h]) /\ \A g \in Learners : g # h => learning[g] = L!Rest
  BY <1>1, TeachesAlone
<1>4. UNCHANGED <<table, speed>>
  BY DEF L!AddReceipt
<1>5. table = known.rows /\ L!Effective(table, speed) = known.speeds
  BY <1>1, <1>3 DEF Reached, Holds
<1>6. Known' = known
  <2> HIDE DEF run
  <2> QED BY <1>1, <1>2, KnownAppends
<1> HIDE DEF known
<1>7. Holds(Known)'
  BY <1>4, <1>5, <1>6, HoldsNow
<1> QED BY <1>2, <1>3, <1>7, AfterIs

LEMMA AfterStays ==
    ASSUME After, UNCHANGED <<table, speed, receipts, learning>>
    PROVE  After'
<1>1. Known' = Known
  BY KnownStays
<1> QED BY <1>1 DEF After, Reached, Holds

LEMMA BeforeStays ==
    ASSUME Before, UNCHANGED <<table, speed, receipts, learning>>, NEW f, fill' = f,
           f = L!NoFill => table = L!Empty \/ Holds(Known),
           f.pc \in {"read", "write"} => table = L!Empty,
           f.pc = "write" => f.learnt = Known /\ f.of = {receipts[i].key[1] : i \in L!Lessons},
           f.pc = "flag" => Holds(Known)
    PROVE  Before'
<1>1. Known' = Known /\ L!Lessons' = L!Lessons
  BY KnownStays DEF L!Lessons
<1>2. Holds(Known)' <=> Holds(Known)
  BY <1>1 DEF Holds
<1> QED BY <1>1, <1>2 DEF Before

LEMMA OrderTeaching ==
    ASSUME LearnTypes, InOrder, NEW h \in Learners, Teaching(h)
    PROVE  InOrder'
<1> SUFFICES ASSUME clean', ~died' PROVE (flag' => After') /\ flag'
  BY DEF InOrder
<1>1. clean /\ ~died /\ flag' = flag
  <2>1. flag' = flag
    BY ZenonT(40) DEF Teaching, L!Complete, L!ReadRows, L!ReadSpeeds, L!Upsert,
                      L!UpdateSpeed, L!AddReceipt
  <2>2. ~died
    BY AddReceiptGoes, Zenon DEF Teaching, L!Complete, L!ReadRows, L!ReadSpeeds, L!Upsert,
                                 L!UpdateSpeed
  <2>3. clean
    <3>1. ASSUME NEW run \in LaterRuns, L!Complete(h, run) PROVE clean
      BY <3>1 DEF L!Complete
    <3>2. L!ReadRows(h) => clean
      BY ReadRowsGoes
    <3>3. L!ReadSpeeds(h) => clean
      BY ReadSpeedsGoes
    <3>4. L!Upsert(h) => clean
      BY UpsertGoes
    <3>5. L!UpdateSpeed(h) => clean
      BY UpdateSpeedGoes
    <3>6. L!AddReceipt(h) => clean
      BY AddReceiptGoes
    <3> QED BY <3>1, <3>2, <3>3, <3>4, <3>5, <3>6 DEF Teaching
  <2> QED BY <2>1, <2>2, <2>3, ZenonT(40)
<1>2. flag
  <2>1. ASSUME NEW run \in LaterRuns, L!Complete(h, run) PROVE flag
    BY <2>1 DEF L!Complete
  <2>2. ASSUME ~flag PROVE learning[h] = L!Rest
    BY <1>1, <2>2 DEF InOrder, Before
  <2>3. L!ReadRows(h) \/ L!ReadSpeeds(h) \/ L!Upsert(h) \/ L!UpdateSpeed(h) \/ L!AddReceipt(h)
           => learning[h].pc # "rest"
    BY DEF L!ReadRows, L!ReadSpeeds, L!Upsert, L!UpdateSpeed, L!AddReceipt, L!At
  <2> QED BY <2>1, <2>2, <2>3, IdleTeacher DEF Teaching
<1>3. After
  BY <1>1, <1>2 DEF InOrder
<1>4. ASSUME NEW run \in LaterRuns, L!Complete(h, run) PROVE After'
  BY <1>2, <1>3, <1>4, AfterComplete
<1> QED
  BY <1>1, <1>2, <1>3, <1>4, AfterReadRows, AfterReadSpeeds, AfterUpsert, AfterUpdateSpeed, AfterAddReceipt
  DEF Teaching

\* The replay leaves what a replay of the lessons does.
LEMMA WrittenHolds ==
    ASSUME LearnTypes, Before, L!WriteFill
    PROVE  Holds(Known)'
<1> DEFINE new == Known.rows
<1>1. fill.learnt = Known /\ fill.of = {receipts[i].key[1] : i \in L!Lessons} /\ table = L!Empty
  BY DEF Before, L!WriteFill
<1>2. Known \in Knowns /\ Learnt(receipts, L!Lessons, PriorOf, Len(receipts), Known) /\ DOMAIN PriorOf = Runners
  BY KnownIs
<1>3. new \in Tables /\ Known.speeds \in Speeds /\ DOMAIN Known.speeds = Runners
  BY <1>2 DEF Knowns, Learnt
<1>4. table' = new
  <2>1. table' = [k \in DOMAIN new \cup DOMAIN table |-> IF k \in DOMAIN new THEN new[k] ELSE table[k]]
    BY <1>1 DEF L!WriteFill
  <2>2. DOMAIN new \cup DOMAIN table = DOMAIN new
    BY <1>1, EmptyIs
  <2>3. new = [k \in DOMAIN new |-> new[k]]
    BY <1>3, TableIs
  <2> HIDE DEF new
  <2> QED BY <2>1, <2>2, <2>3
<1>5. \A w : L!HasRun(new, w) <=> w \in fill.of
  <2>1. \A w : L!HasRun(new, w) <=> \E i \in 1 .. Len(receipts) : i \in L!Lessons /\ receipts[i].key[1] = w
    BY <1>2 DEF Learnt
  <2>2. \A i \in L!Lessons : i \in 1 .. Len(receipts)
    BY LessonsIs DEF LearnTypes
  <2> QED BY <1>1, <2>1, <2>2
<1>6. \A w \in Runners : ~L!HasRun(new, w) => Known.speeds[w] = PriorOf[w]
  BY <1>2 DEF Learnt
<1>7. speed' = [w \in Runners |-> IF w \in fill.of THEN Known.speeds[w] ELSE speed[w]]
  BY <1>1 DEF L!WriteFill
<1> HIDE DEF new
<1>8. L!Effective(new, speed') = Known.speeds
  <2>1. ASSUME NEW w \in Runners
        PROVE  (IF L!HasRun(new, w) THEN speed'[w] ELSE PriorOf[w]) = Known.speeds[w]
    BY <1>5, <1>6, <1>7
  <2>2. Known.speeds = [w \in Runners |-> Known.speeds[w]]
    <3>1. CASE Known.speeds = L!Empty
      BY <1>3, <3>1, EmptyIs DEF L!Empty
    <3>2. CASE Known.speeds \in [Runners -> 10 .. 1000]
      BY <3>2
    <3> QED BY <1>3, <3>1, <3>2 DEF Speeds
  <2>3. L!Effective(new, speed') = [w \in Runners |-> IF L!HasRun(new, w) THEN speed'[w] ELSE PriorOf[w]]
    BY DEF L!Effective
  <2> QED BY <2>1, <2>2, <2>3
<1>9. Known' = Known
  BY KnownStays DEF L!WriteFill
<1> QED BY <1>4, <1>8, <1>9, HoldsNow DEF new

LEMMA OrderFilling ==
    ASSUME LearnTypes, InOrder, Filling
    PROVE  InOrder'
<1> SUFFICES ASSUME clean', ~died' PROVE (~flag' => Before') /\ (flag' => After')
  BY DEF InOrder
<1>1. clean /\ ~died
  <2>1. died' = died
    BY DEF Filling, L!SkipFill, L!CheckFill, L!ReadFill, L!WriteFill, L!EndFill, L!FailFill
  <2>2. L!ReadFill => clean
    BY DEF L!ReadFill, L!Sound, L!Trouble
  <2>3. ~L!ReadFill => clean' = clean
    BY DEF Filling, L!SkipFill, L!CheckFill, L!WriteFill, L!EndFill, L!FailFill
  <2> QED BY <2>1, <2>2, <2>3
<1>2. (~flag => Before) /\ (flag => After) /\ (fill # L!NoFill => ~flag) /\ fill \in Fills
  BY <1>1 DEF InOrder, LearnTypes
<1>3. ASSUME Before, Holds(Known), UNCHANGED <<table, speed, receipts, learning>> PROVE After'
  <2>1. After
    BY <1>3 DEF Before, After
  <2> QED BY <1>3, <2>1, AfterStays
<1>4. CASE L!SkipFill
  <2>1. UNCHANGED <<table, speed, receipts, learning>> /\ flag' = TRUE /\ fill = L!NoFill
        /\ (flag \/ table # L!Empty)
    BY <1>4 DEF L!SkipFill
  <2>2. CASE flag
    BY <1>2, <2>1, <2>2, AfterStays
  <2>3. CASE ~flag
    BY <1>2, <1>3, <2>1, <2>3 DEF Before
  <2> QED BY <2>1, <2>2, <2>3
<1>5. CASE L!CheckFill
  <2> DEFINE f == [L!NoFill EXCEPT !.pc = "read"]
  <2>1. UNCHANGED <<table, speed, receipts, learning>> /\ flag' = flag /\ ~flag /\ table = L!Empty /\ fill' = f
    BY <1>5 DEF L!CheckFill
  <2>2. f.pc = "read"
    BY DEF L!NoFill
  <2> HIDE DEF f
  <2>3. f # L!NoFill
    BY <2>2, IdleFill
  <2>4. Before'
    BY <1>2, <2>1, <2>2, <2>3, BeforeStays
  <2> QED BY <2>1, <2>4
<1>6. CASE L!ReadFill
  <2>1. UNCHANGED <<table, speed, receipts, learning>> /\ flag' = flag /\ fill.pc = "read"
    BY <1>6 DEF L!ReadFill
  <2>2. Before /\ ~flag /\ table = L!Empty
    BY <1>2, <2>1, IdleFill DEF Before
  <2>3. PICK known \in {L!Prior, L!Empty} :
            /\ known = L!Prior
            /\ fill' = [pc |-> "write", learnt |-> L!Replay(receipts, L!Latest, known),
                        of |-> {receipts[i].key[1] : i \in L!Latest} \cap DOMAIN known]
    BY <1>6 DEF L!ReadFill, L!Trouble
  <2>4. L!Prior = PriorOf
    <3>1. \A w : ~L!HasRun(L!Empty, w)
      BY EmptyIs DEF L!HasRun
    <3>2. L!Prior = [w \in Runners |-> PriorOf[w]]
      BY <3>1 DEF L!Prior, L!Effective
    <3> QED BY <3>2, LearningAssumption
  <2>5. L!Latest = L!Lessons
    BY <2>2, OldLessons DEF Before
  <2>6. {receipts[i].key[1] : i \in L!Lessons} \subseteq DOMAIN PriorOf
    <3>1. DOMAIN PriorOf = Runners
      BY LearningAssumption
    <3>2. \A i \in L!Lessons : receipts[i].key[1] \in Runners
      <4> SUFFICES ASSUME NEW i \in L!Lessons PROVE receipts[i].key[1] \in Runners
        OBVIOUS
      <4>1. i \in DOMAIN receipts
        BY LessonsIs
      <4>2. receipts[i] \in L!Receipt
        BY <4>1 DEF LearnTypes
      <4> QED BY <4>2 DEF L!Receipt, L!Keys
    <3> QED BY <3>1, <3>2
  <2> DEFINE of == {receipts[i].key[1] : i \in L!Lessons}
  <2>7. fill' = [pc |-> "write", learnt |-> Known, of |-> of]
    <3>1. of \cap DOMAIN PriorOf = of
      BY <2>6
    <3> QED BY <2>3, <2>4, <2>5, <3>1 DEF Known
  <2> HIDE DEF of
  <2>8. fill'.pc = "write" /\ fill'.learnt = Known /\ fill'.of = of /\ fill' # L!NoFill
    BY <2>7 DEF L!NoFill
  <2>9. Before'
    <3>1. Known' = Known /\ L!Lessons' = L!Lessons
      BY <2>1, KnownStays DEF L!Lessons
    <3> QED BY <2>1, <2>2, <2>8, <3>1 DEF Before, of
  <2> QED BY <2>1, <2>2, <2>9
<1>7. CASE L!WriteFill
  <2>1. fill.pc = "write" /\ flag' = flag /\ receipts' = receipts /\ learning' = learning
    BY <1>7 DEF L!WriteFill
  <2>2. Before /\ ~flag
    BY <1>2, <2>1, IdleFill
  <2>3. Holds(Known)'
    BY <1>7, <2>2, WrittenHolds
  <2>4. fill'.pc = "flag" /\ fill' # L!NoFill
    <3>1. fill \in [pc: {"write", "flag"}, learnt: Knowns, of: SUBSET Runners]
      BY <1>2, <2>1, IdleFill DEF Fills
    <3>2. fill'.pc = "flag"
      BY <1>7, <3>1 DEF L!WriteFill
    <3> QED BY <3>2, IdleFill
  <2> QED BY <2>1, <2>2, <2>3, <2>4 DEF Before
<1>8. CASE L!EndFill
  <2>1. UNCHANGED <<table, speed, receipts, learning>> /\ flag' = TRUE /\ fill.pc = "flag"
    BY <1>8 DEF L!EndFill
  <2>2. Before /\ Holds(Known)
    BY <1>2, <2>1, IdleFill DEF Before
  <2> QED BY <1>3, <2>1, <2>2
<1>9. CASE L!FailFill
  <2>1. UNCHANGED <<table, speed, receipts, learning>> /\ flag' = flag /\ fill # L!NoFill /\ fill' = L!NoFill
    BY <1>9 DEF L!FailFill
  <2>2. Before /\ ~flag
    BY <1>2, <2>1
  <2>3. table = L!Empty \/ Holds(Known)
    <3>1. fill.pc \in {"read", "write", "flag"}
      BY <1>2, <2>1 DEF Fills
    <3> QED BY <2>2, <3>1 DEF Before
  <2>4. Before'
    BY <2>1, <2>2, <2>3, BeforeStays, IdleFill
  <2> QED BY <2>1, <2>2, <2>4
<1> QED BY <1>4, <1>5, <1>6, <1>7, <1>8, <1>9 DEF Filling

LEMMA OrderRestart == ASSUME LearnTypes, InOrder, L!Restart PROVE InOrder'
<1> SUFFICES ASSUME clean', ~died' PROVE (~flag' => Before') /\ (flag' => After')
  BY DEF InOrder
<1>1. clean /\ ~died /\ flag' = flag /\ \A h \in Learners : learning[h] = L!Rest
  BY DEF L!Restart
<1>2. learning' = learning
  <2>1. learning = [h \in Learners |-> learning[h]]
    BY DEF LearnTypes
  <2> QED BY <1>1, <2>1 DEF L!Restart
<1>3. UNCHANGED <<table, speed, receipts, learning>> /\ fill' = L!NoFill
  BY <1>2 DEF L!Restart
<1>4. CASE flag
  <2>1. After
    BY <1>1, <1>4 DEF InOrder
  <2> QED BY <1>1, <1>3, <1>4, <2>1, AfterStays
<1>5. CASE ~flag
  <2>1. Before
    BY <1>1, <1>5 DEF InOrder
  <2>2. table = L!Empty \/ Holds(Known)
    <3>1. fill = L!NoFill \/ fill.pc \in {"read", "write", "flag"}
      BY DEF LearnTypes, Fills
    <3> QED BY <2>1, <3>1 DEF Before
  <2>3. Before'
    BY <1>3, <2>1, <2>2, BeforeStays, IdleFill
  <2> QED BY <1>1, <1>5, <2>3
<1> QED BY <1>4, <1>5

LEMMA InOrderStep == ASSUME LearnTypes, InOrder, [L!Next]_(L!vars) PROVE InOrder'
<1>1. CASE UNCHANGED L!vars
  <2>1. UNCHANGED <<table, speed, receipts, learning>> /\ fill' = fill /\ flag' = flag /\ clean' = clean
        /\ died' = died
    BY <1>1 DEF L!vars
  <2>2. (Before => Before') /\ (After => After')
    <3>1. Before => Before'
      BY <2>1, BeforeStays DEF Before
    <3>2. After => After'
      BY <2>1, AfterStays
    <3> QED BY <3>1, <3>2
  <2> QED BY <2>1, <2>2 DEF InOrder
<1>2. ASSUME NEW h \in Learners, Teaching(h) PROVE InOrder'
  BY <1>2, OrderTeaching
<1> QED BY <1>1, <1>2, OrderFilling, OrderRestart, LearnNextIs

----------------------------------------------------------------------------

LEMMA LearnInit == L!Init => LearnInv
<1> SUFFICES ASSUME L!Init PROVE LearnInv
  OBVIOUS
<1>1. /\ table = L!Empty /\ speed \in [Runners -> 10 .. 1000] /\ flag = FALSE
      /\ receipts \in Pasts /\ fill = L!NoFill /\ clean = TRUE /\ died = FALSE
      /\ \A h \in Learners : learning[h] = L!Rest
      /\ learning \in [Learners -> {L!Rest} \cup Teachings]
  BY DEF L!Init
<1>2. receipts \in Seq(L!Receipt) /\ \A i \in DOMAIN receipts : receipts[i].kind = "old"
  BY <1>1, LearningAssumption
<1>3. LearnTypes
  BY <1>1, <1>2, EmptyIs, IdleFill, Zenon DEF LearnTypes, Fills
<1>4. NoneTwice
  BY <1>1, EmptyIs, IdleFill, IdleTeacher DEF NoneTwice, Backed
<1>5. Before
  BY <1>1, <1>2, IdleFill DEF Before
<1> QED BY <1>1, <1>3, <1>4, <1>5 DEF LearnInv, InOrder

LEMMA LearnInvHolds == L!Spec => []LearnInv
<1>1. LearnInv /\ [L!Next]_(L!vars) => LearnInv'
  <2> SUFFICES ASSUME LearnInv, [L!Next]_(L!vars) PROVE LearnInv'
    OBVIOUS
  <2>1. LearnTypes'
    BY LearnTypesStep DEF LearnInv
  <2>2. NoneTwice'
    BY NoneTwiceStep DEF LearnInv
  <2>3. InOrder'
    BY InOrderStep DEF LearnInv
  <2> QED BY <2>1, <2>2, <2>3 DEF LearnInv
<1> QED BY <1>1, LearnInit, PTL DEF L!Spec

\* The handlers that owe a receipt are some of those at work.
LEMMA LearnGives == ASSUME LearnInv PROVE L!StatsSound
<1>1. LearnTypes /\ NoneTwice /\ InOrder
  BY DEF LearnInv
<1>2. L!TypeOK
  <2>1. table \in Tables
    BY <1>1 DEF LearnTypes
  <2> QED BY <1>1, <2>1, TableIs, Zenon DEF LearnTypes, L!TypeOK
<1>3. L!CountedOnce
  <2> SUFFICES ASSUME ~died, NEW k \in DOMAIN table
               PROVE  table[k].samples <=
                          L!Cardinality({i \in DOMAIN receipts : receipts[i].key = k})
                          + L!Cardinality({h \in Learners : learning[h] # L!Rest /\ learning[h].run.key = k})
    BY DEF L!CountedOnce
  <2> DEFINE working == {h \in Learners : learning[h] # L!Rest /\ learning[h].run.key = k}
  <2>1. table[k].samples <= Had(k) /\ table[k].samples \in Nat
    BY <1>1, TableIs DEF NoneTwice, Backed, LearnTypes, L!Row
  <2>2. Owing(k) \subseteq working /\ working \subseteq Learners
    BY IdleTeacher DEF Owing
  <2>3. IsFiniteSet(working) /\ Cardinality(working) \in Nat /\ Cardinality(Owing(k)) <= Cardinality(working)
    <3> HIDE DEF working
    <3> QED BY <2>2, LearningAssumption, FS_Subset, FS_CardinalityType
  <2>4. Cardinality(Earned(k)) \in Nat /\ Cardinality(Owing(k)) \in Nat
    BY <1>1, HadIs
  <2>5. L!Cardinality(working) = Cardinality(working) /\ L!Cardinality(Earned(k)) = Cardinality(Earned(k))
    BY LearnCardinality
  <2> HIDE DEF working
  <2>6. table[k].samples <= L!Cardinality(Earned(k)) + L!Cardinality(working)
    BY <2>1, <2>3, <2>4, <2>5 DEF Had
  <2> QED BY <2>6 DEF Earned, working
<1>4. L!LearnedAsReplayed
  <2> SUFFICES ASSUME clean, ~died, flag, L!Idle PROVE L!LearnedAsReplayed
    BY DEF L!LearnedAsReplayed
  <2>1. Holds(Known)
    BY <1>1 DEF InOrder, After, L!Idle
  <2> QED BY <2>1 DEF Holds, Known, L!LearnedAsReplayed
<1> QED BY <1>2, <1>3, <1>4 DEF L!StatsSound

----------------------------------------------------------------------------
(* The run: each part is an execution of its module, or at rest. *)

allVars == <<part, vars, families, panels, learnt, downloads>>

LEMMA PartsAreSpecs ==
    /\ MCSpec => Spec
    /\ MCSpec => S!Spec
    /\ MCSpec => P!Spec
    /\ MCSpec => L!Spec
    /\ MCSpec => F!Spec
<1>1. MCInit => Init /\ S!Init /\ P!Init /\ L!Init /\ F!Init
  BY DEF MCInit
<1>2. [MCNext]_allVars => [Next]_vars
  BY DEF MCNext, allVars
<1>3. [MCNext]_allVars => [S!Next]_(S!vars)
  BY DEF MCNext, allVars, S!vars, families
<1>4. [MCNext]_allVars => [P!Next]_(P!vars)
  BY DEF MCNext, allVars, P!vars, P!bounds, panels
<1>5. [MCNext]_allVars => [F!Next]_(F!vars)
  BY DEF MCNext, allVars, F!vars, downloads
<1>6. MCSpec => Spec
  BY <1>1, <1>2, PTL DEF MCSpec, Spec, allVars
<1>7. MCSpec => S!Spec
  BY <1>1, <1>3, PTL DEF MCSpec, S!Spec, allVars
<1>8. MCSpec => P!Spec
  BY <1>1, <1>4, PTL DEF MCSpec, P!Spec, allVars
<1>9. MCSpec => F!Spec
  BY <1>1, <1>5, PTL DEF MCSpec, F!Spec, allVars
<1>10. [MCNext]_allVars => [L!Next]_(L!vars)
  BY DEF MCNext, allVars, L!vars, learnt
<1>11. MCSpec => L!Spec
  BY <1>1, <1>10, PTL DEF MCSpec, L!Spec, allVars
<1> QED BY <1>6, <1>7, <1>8, <1>9, <1>11

\* What splitting owes a batch, for any workflows the planner accepts, any number of
\* children and handlers, and wherever these overlap or break off: the cut feeds every
\* sampler and output, every image is in exactly one child, and where handlers neither
\* overlap nor break off nothing is run both whole and in pieces (createChildren).
THEOREM SplitSoundHolds == MCSpec => []SplitSound
<1>1. FamilyInv => SplitSound
  BY FamilyGives DEF SplitSound
<1> QED BY <1>1, PartsAreSpecs, FamilyInvHolds, PTL

\* For any number of children and handlers: while these neither overlap nor break off,
\* a parent at rest is what its children make it, and an ended one leaves none live
\* (refreshParent and its cascade).
THEOREM FamilyAgreesHolds == MCSpec => []FamilyAgrees
<1>1. FamilyInv => FamilyAgrees
  BY FamilyGives DEF FamilyAgrees
<1> QED BY <1>1, PartsAreSpecs, FamilyInvHolds, PTL

\* For any number of children and handlers: a child is paid for its cancellation only
\* if a worker ran it, and once at the most unless handlers overlapped
\* (mintCascadeCancelledReceipts).
THEOREM CancelledPayIsDueHolds == MCSpec => []CancelledPayIsDue
<1>1. FamilyInv => CancelledPayIsDue
  BY FamilyGives DEF CancelledPayIsDue
<1> QED BY <1>1, PartsAreSpecs, FamilyInvHolds, PTL

\* For any number of panels, handlers and children: a panel that was there is told how
\* the job ended and never that it is done before it is; while handlers do not overlap
\* it shows what the job does and counts the queue, and only jobs that a worker holds
\* have a download stage (panelJobDone and its like, fetchProgress).
THEOREM PanelsInStepHolds == MCSpec => []PanelsInStep
<1>1. PanelsInv => PanelsInStep
  BY PanelsGive DEF PanelsInStep
<1> QED BY <1>1, PartsAreSpecs, PanelsInvHolds, PTL

\* For any workers, kinds of job, pasts, completions and handlers, and wherever reads and
\* writes fail or handlers die: no run is counted twice unless a handler died, and
\* completions that follow one another leave dispatch predicting what a replay of their
\* receipts would (recordCompletion, backfillIfNeeded).
THEOREM StatsSoundHolds == MCSpec => []StatsSound
<1>1. LearnInv => StatsSound
  BY LearnGives DEF StatsSound
<1> QED BY <1>1, PartsAreSpecs, LearnInvHolds, PTL

\* A press of the button brings one download, checked as well as it can be, and done
\* when the file is there, for any number of workers, requests and failures
\* (routes/jobs.ts, download-models).
THEOREM FetchJobsSoundHolds == MCSpec => []FetchJobsSound
<1>1. F!FetchJobsSound => FetchJobsSound
  BY DEF FetchJobsSound
<1> QED BY <1>1, PartsAreSpecs, DownloadsSound, PTL

\* An ended parent is written over by a retry only, while no handlers overlap.
LEMMA ParentStands ==
    ASSUME FamilyInv, S!Next, parent.status \in S!Terminal, ~overlapped', parent'.status # parent.status
    PROVE  S!Retry
<1>1. S!TypeOK /\ HeldOK /\ PlannerOK /\ WritesLive
  BY DEF FamilyInv
<1>2. ~overlapped
  BY <1>1, Histories
<1>3. parent.status \notin S!Live /\ parent.status \notin {"new", "queued"}
  BY DEF S!Terminal, S!Live
<1>4. ASSUME NEW h \in FamilyHandlers, S!WriteParent(h) PROVE FALSE
  <2>1. family[h].pc = "write"
    BY <1>4 DEF S!WriteParent
  <2> QED BY <1>1, <1>2, <2>1 DEF WritesLive, Ended
<1>5. ~S!Unsplit
  BY <1>3 DEF S!Unsplit
<1> QED BY <1>1, <1>3, <1>4, <1>5, ParentSteps

\* For any number of handlers, workers and children: as long as handlers did not
\* overlap, a job that is done or cancelled stays so, and an ended parent stays as it
\* ended but for a user's retry, wherever handlers break off.
THEOREM EndsAreFinalHolds == MCSpec => EndsAreFinal
<1> DEFINE A == /\ ~mixed' /\ row.status \in {"done", "cancelled"} => row'.status = row.status
                /\ parent.status \in S!Terminal /\ ~overlapped' /\ parent'.status # parent.status => S!Retry
<1>1. IInvSerial /\ FamilyInv /\ [MCNext]_allVars => [A]_<<vars, families>>
  <2> SUFFICES ASSUME IInvSerial, FamilyInv, MCNext PROVE A \/ UNCHANGED <<vars, families>>
    BY DEF allVars
  <2>1. CASE Next /\ UNCHANGED families
    BY <2>1, RowStands DEF families
  <2>2. CASE S!Next /\ UNCHANGED vars
    BY <2>2, ParentStands DEF vars
  <2> QED BY <2>1, <2>2 DEF MCNext
<1>2. MCSpec => []IInvSerial
  BY SerialHolds, PartsAreSpecs, PTL
<1>3. MCSpec => []FamilyInv
  BY FamilyInvHolds, PartsAreSpecs, PTL
<1>4. MCSpec => [][A]_<<vars, families>>
  BY <1>1, <1>2, <1>3, PTL DEF MCSpec, allVars
<1> QED BY <1>4 DEF EndsAreFinal
=============================================================================
