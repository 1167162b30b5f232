------------------------------ MODULE Backoff -------------------------------
(* The login backoff of one username (routes/auth.ts POST /api/auth/login, *)
(* core/auth.ts): each attempt reads the recent attempts, is refused when  *)
(* the wait after the last failure is not over, verifies the password, and *)
(* records the attempt under the time it began.  Requests overlap and may  *)
(* die before they record.  Time is in ticks.                              *)
EXTENDS Integers, FiniteSets

CONSTANTS Slots,       \* login requests in progress at a time
          Window,      \* BACKOFF_WINDOW_MS
          StartN,      \* BACKOFF_START_N
          Retention,   \* LOGIN_ATTEMPT_RETENTION_MS, more than Window
          MaxStall,    \* how long a login can be under way
          MaxTime,     \* bound of the model on the clock
          MaxAttempts  \* bound of the model on attempts recorded

\* What the theorem asks of the times: nobody waits for a first attempt.
TimesAssumption ==
  /\ Window \in Nat /\ Retention \in Nat
  /\ StartN \in Nat \ {0}

VARIABLES
  clock,
  attempts,    \* login_attempts
  recorded,    \* the last id given to a row
  trying,      \* the logins past the backoff, with when they came
  overlapped   \* history: two logins were under way together
vars == <<clock, attempts, recorded, trying, overlapped>>

NotTrying == [at |-> -1]

Init ==
  /\ clock = 0
  /\ attempts = {} /\ recorded = 0
  /\ trying = [s \in Slots |-> NotTrying]
  /\ overlapped = FALSE

\* getRecentLoginAttemptsForUsername
Recent(t) == {r \in attempts : r.at >= t - Window}

\* Within a tick the later row is the later attempt.
Newer(r, q) == r.at > q.at \/ (r.at = q.at /\ r.id > q.id)

\* consecutiveFailures: those newer than every success.
Failures(t) == {r \in Recent(t) : \A q \in Recent(t) : q.ok => Newer(r, q)}

\* 2 ** n
Doubled[n \in Nat] == IF n = 0 THEN 1 ELSE 2 * Doubled[n - 1]

\* Slip: the wait starts to grow one failure late.
WaitLate(n) == IF n <= StartN THEN 0 ELSE Doubled[n - StartN]

\* requiredWaitSeconds
Wait(n) == IF n < StartN THEN 0 ELSE Doubled[n - (StartN - 1)]

MayTry(t) ==
  LET failed == Failures(t) IN
    \A r \in failed : (\A q \in failed : ~Newer(q, r))
                        => t - r.at >= Wait(Cardinality(failed))

\* The backoff lets the attempt through to the verification, or answers 429.
Try(s, ok) ==
  /\ trying[s] = NotTrying
  /\ MayTry(clock)
  /\ trying' = [trying EXCEPT ![s] = [at |-> clock, ok |-> ok]]
  /\ overlapped' = (overlapped \/ \E q \in Slots : trying[q] # NotTrying)
  /\ UNCHANGED <<clock, attempts, recorded>>

\* insertLoginAttempt, pruneLoginAttempts
Record(s) ==
  /\ trying[s] # NotTrying
  /\ recorded < MaxAttempts
  /\ LET row == [id |-> recorded + 1, at |-> trying[s].at, ok |-> trying[s].ok] IN
       attempts' = {r \in attempts \cup {row} : r.at >= row.at - Retention}
  /\ recorded' = recorded + 1
  /\ trying' = [trying EXCEPT ![s] = NotTrying]
  /\ UNCHANGED <<clock, overlapped>>

Die(s) ==
  /\ trying[s] # NotTrying
  /\ trying' = [trying EXCEPT ![s] = NotTrying]
  /\ UNCHANGED <<clock, attempts, recorded, overlapped>>

Tick ==
  /\ clock < MaxTime /\ clock' = clock + 1
  /\ \A s \in Slots : trying[s] # NotTrying => clock < trying[s].at + MaxStall
  /\ UNCHANGED <<attempts, recorded, trying, overlapped>>

Next ==
  \/ \E s \in Slots, ok \in BOOLEAN : Try(s, ok)
  \/ \E s \in Slots : Record(s) \/ Die(s)
  \/ Tick

Spec == Init /\ [][Next]_vars

---------------------------------------------------------------------------
\* The attempts of one window when each one comes as soon as it may: StartN
\* for free, then as many as their growing waits fit into the window.
Budget == StartN + Cardinality({k \in 1..Window : Doubled[k + 1] - 2 <= Window})

\* The attempts recorded from one to another.
Run(r, q) == {x \in attempts : r.id <= x.id /\ x.id <= q.id}

\* core/auth.ts requiredWaitSeconds: while attempts come one at a time, no more
\* than the budget of passwords are verified in one window without a success in
\* between, although failures leave the window and the count falls again.
GuessBudget ==
  ~overlapped =>
    \A r, q \in attempts :
      /\ r.id <= q.id /\ q.at - r.at <= Window
      /\ \A x \in Run(r, q) : ~x.ok
      => Cardinality(Run(r, q)) <= Budget

\* routes/auth.ts BACKOFF_WINDOW_MS: however many attempts failed, also when
\* they overlapped, the account can be tried again once the window has passed.
LockoutBounded == MayTry(clock + Window + 1)

\* Neither too many guesses nor a lockout without end (retryAfterSeconds).
LockoutSound == GuessBudget /\ LockoutBounded
=============================================================================
