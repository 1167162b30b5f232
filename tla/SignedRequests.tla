--------------------------- MODULE SignedRequests ---------------------------
(* Requests signed by an agent (lib/verify_agent.ts) and its registration  *)
(* (routes/workers.ts): the network delivers a request any number of       *)
(* times, late, and to Workers that serve it side by side; a nonce kept    *)
(* for its TTL makes it count once.  Time is in ticks.                     *)
EXTENDS Integers, FiniteSets

CONSTANTS Sent,       \* requests an agent signs, each with a nonce of its own
          Slots,      \* requests being served at a time
          Skew,       \* MAX_TS_SKEW_SECONDS
          Ttl,        \* NONCE_TTL_SECONDS, at least 2 * Skew + MaxStall: a
                      \* copy still let in finds the nonce of the one before
          MaxStall,   \* a request is served in less than this
          MaxTime,    \* bound of the model on the clock
          Invites     \* registration tokens an administrator issued

\* 120 s of skew and a TTL of 300 s, of which a request may take the rest.
TimesAssumption ==
  /\ Skew \in Nat /\ MaxStall \in Nat \ {0} /\ Ttl \in Nat
  /\ Ttl >= 2 * Skew + MaxStall

VARIABLES now,
          signed,    \* the timestamp a request carries, -1 before it is signed
          nonces,    \* nonces: [id, until]
          serving,   \* slot -> the request it serves
          accepted,  \* history: how often a request was let through
          used,      \* register_tokens.used
          workers    \* workers registered per invite
vars == <<now, signed, nonces, serving, accepted, used, workers>>

Free == [pc |-> "free"]

Init ==
  /\ now = Skew
  /\ signed = [m \in Sent |-> -1]
  /\ nonces = {}
  /\ serving = [s \in Slots |-> Free]
  /\ accepted = [m \in Sent |-> 0]
  /\ used = {} /\ workers = [i \in Invites |-> 0]

\* The agent's clock is right, or wrong by all that is tolerated.
Sign(m) ==
  /\ signed[m] = -1
  /\ \E d \in {-Skew, 0, Skew} : signed' = [signed EXCEPT ![m] = now + d]
  /\ UNCHANGED <<now, nonces, serving, accepted, used, workers>>

InTime(m) == now - signed[m] \in -Skew..Skew

\* A copy arrives: the timestamp and the signature are right.  The clock is
\* read once, here.
Deliver(s, m) ==
  /\ serving[s] = Free
  /\ signed[m] # -1 /\ InTime(m)
  /\ serving' = [serving EXCEPT ![s] = [pc |-> "prune", id |-> m, at |-> now]]
  /\ UNCHANGED <<now, signed, nonces, accepted, used, workers>>

\* Slip: nonces are pruned by when they were stored, one skew ago.
ExpiredBySkew(n, t) == n.until - Ttl + Skew <= t

\* pruneNonces
Expired(n, t) == n.until <= t

Prune(s) ==
  /\ serving[s].pc = "prune"
  /\ nonces' = {n \in nonces : ~Expired(n, serving[s].at)}
  /\ serving' = [serving EXCEPT ![s].pc = "nonce"]
  /\ UNCHANGED <<now, signed, accepted, used, workers>>

\* tryInsertNonce: one conditional INSERT, 409 on a conflict.
InsertNonce(s) ==
  /\ serving[s].pc = "nonce"
  /\ LET m == serving[s].id IN
       IF \E n \in nonces : n.id = m
       THEN UNCHANGED <<nonces, accepted>>
       ELSE /\ nonces' = nonces \cup {[id |-> m, until |-> serving[s].at + Ttl]}
            /\ accepted' = [accepted EXCEPT ![m] = @ + 1]
  /\ serving' = [serving EXCEPT ![s] = Free]
  /\ UNCHANGED <<now, signed, used, workers>>

\* POST /api/agent/register: the token is known; the agent may ask again.
StartRegister(s, i) ==
  /\ serving[s] = Free
  /\ serving' = [serving EXCEPT ![s] = [pc |-> "claim", id |-> i, at |-> now]]
  /\ UNCHANGED <<now, signed, nonces, accepted, used, workers>>

\* claimRegisterToken: UPDATE ... WHERE used = 0
Claims(i) == i \notin used

ClaimToken(s) ==
  /\ serving[s].pc = "claim"
  /\ used' = used \cup {serving[s].id}
  /\ serving' = [serving EXCEPT ![s] = IF Claims(@.id) THEN [@ EXCEPT !.pc = "worker"] ELSE Free]
  /\ UNCHANGED <<now, signed, nonces, accepted, workers>>

\* insertWorker
InsertWorker(s) ==
  /\ serving[s].pc = "worker"
  /\ workers' = [workers EXCEPT ![serving[s].id] = @ + 1]
  /\ serving' = [serving EXCEPT ![s] = Free]
  /\ UNCHANGED <<now, signed, nonces, accepted, used>>

Die(s) ==
  /\ serving[s] # Free
  /\ serving' = [serving EXCEPT ![s] = Free]
  /\ UNCHANGED <<now, signed, nonces, accepted, used, workers>>

Tick ==
  /\ now < MaxTime /\ now' = now + 1
  /\ \A s \in Slots : serving[s] # Free => now + 1 < serving[s].at + MaxStall
  /\ UNCHANGED <<signed, nonces, serving, accepted, used, workers>>

Next ==
  \/ \E m \in Sent : Sign(m)
  \/ \E s \in Slots :
       \/ \E m \in Sent : Deliver(s, m)
       \/ \E i \in Invites : StartRegister(s, i)
       \/ Prune(s) \/ InsertNonce(s) \/ ClaimToken(s) \/ InsertWorker(s) \/ Die(s)
  \/ Tick

Spec == Init /\ [][Next]_vars

---------------------------------------------------------------------------
\* lib/verify_agent.ts: however often a signed request is delivered within the
\* time it is good for, and however the nonces of others are pruned meanwhile,
\* it is let through at most once.
AcceptedOnce == \A m \in Sent : accepted[m] <= 1

\* POST /api/agent/register: one registration token makes at most one worker,
\* also when two agents present it at the same time.
OneWorkerPerToken == \A i \in Invites : workers[i] <= 1

\* A signed request counts once and a register token makes one worker
\* (verifyAgentRequest, claimRegisterToken).
SignedOnce == AcceptedOnce /\ OneWorkerPerToken
=============================================================================
