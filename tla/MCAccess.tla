------------------------------ MODULE MCAccess ------------------------------
(* The three parts of access control share no state: a run explores each   *)
(* of them, chosen by the initial state, and leaves the other two at rest. *)
EXTENDS Accounts, Integers, TLC

CONSTANTS
  Window, StartN, Retention, LoginStall, MaxLoginTime, MaxAttempts,   \* of the login backoff
  Sent, Invites, Skew, Ttl, MaxStall, MaxTime                         \* and the signed requests

VARIABLES part,
          clock, attempts, recorded, trying, overlapped,
          now, signed, nonces, serving, accepted, used, workers

B == INSTANCE Backoff WITH
       Slots <- Requests, MaxStall <- LoginStall, MaxTime <- MaxLoginTime

S == INSTANCE SignedRequests WITH Slots <- Requests

\* What the theorems about logins and signed requests ask of the times.
ASSUME TimesFit == S!TimesAssumption
ASSUME LoginTimesFit == B!TimesAssumption

backoff == <<clock, attempts, recorded, trying, overlapped>>
signing == <<now, signed, nonces, serving, accepted, used, workers>>

MCInit ==
  /\ part \in {"accounts", "backoff", "signed"}
  /\ Init /\ B!Init /\ S!Init
  /\ part = "accounts" \/ secret = None

MCNext ==
  /\ UNCHANGED part
  /\ \/ part = "accounts" /\ Next /\ UNCHANGED <<backoff, signing>>
     \/ part = "backoff" /\ B!Next /\ UNCHANGED <<vars, signing>>
     \/ part = "signed" /\ S!Next /\ UNCHANGED <<vars, backoff>>

MCSpec == MCInit /\ [][MCNext]_<<part, vars, backoff, signing>>

\* At most two requests overlap, and the last one starts by itself.
LastAlone == (part = "accounts" /\ started = MaxRequests) => Cardinality({r \in Requests : ~Free(r)}) <= 1

Symmetry == Permutations(Requests) \cup Permutations(Sent)

LockoutSound == B!LockoutSound
SignedOnce == S!SignedOnce
==============================================================================
