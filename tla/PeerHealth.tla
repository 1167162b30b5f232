---------------------------- MODULE PeerHealth ----------------------------
(***************************************************************************)
(* The hub's verdict on a worker's advertised address.  A hello stores the *)
(* address and, when it changed, clears the verdict and starts a check; a  *)
(* heartbeat starts one when the last is old.  A check runs beside the     *)
(* handlers: it reads the verdict in force, probes, writes what it found   *)
(* and tells the connection it was started for.  One worker is modelled.   *)
(***************************************************************************)
EXTENDS Integers, FiniteSets

CONSTANTS Urls,        \* public addresses given by their numbers
          HostNames,   \* those that are host names: never probed
          MaxChecks, MaxHellos, MaxFlips   \* bounds of the model

NoUrl == "no url"
Unknown == "unknown"
Reached == "reachable"
Unreached == "unreachable"

VARIABLES
  worker,    \* the row: peer_url, peer_reachable, whether the check is old
  answers,   \* url -> does it answer probes now
  conn,      \* number of the agent's connection, 0 when it has none
  shown,     \* the verdict the agent's connection was last told, with its address
  advert,    \* the address the agent advertises
  checks,    \* checks under way
  hellos, flips, started,   \* bounds
  misplaced, \* history: another address came while a check of the earlier one was
             \* under way, which writes its verdict over the new one's
  missed     \* history: the connection may have missed a verdict: a check ran
             \* across its hello or beside another one, or died before it told

vars == <<worker, answers, conn, shown, advert, checks, hellos, flips, started, misplaced, missed>>

Nothing == [reachable |-> Unknown, url |-> NoUrl]
Verdict(answer) == IF answer THEN Reached ELSE Unreached

Init ==
  /\ worker = [url |-> NoUrl, reachable |-> Unknown, of |-> NoUrl, old |-> TRUE]
  /\ answers \in [Urls -> BOOLEAN]
  /\ conn = 0 /\ shown = Nothing /\ advert \in Urls
  /\ checks = {} /\ hellos = 0 /\ flips = 0 /\ started = 0
  /\ misplaced = FALSE /\ missed = FALSE

\* schedulePeerCheck: the check belongs to the connection and to the address
\* it was started for.
Scheduled(u, onChange) ==
  [id |-> started, url |-> u, ws |-> conn', onChange |-> onChange,
   pc |-> "begin", previous |-> Unknown, found |-> Unknown]
Schedule(u, onChange) ==
  /\ started < MaxChecks
  /\ started' = started + 1
  /\ checks' = checks \cup {Scheduled(u, onChange)}

\* Slip: the address is replaced and the verdict on the earlier one stays.
AdvertisedKept(u) == [worker EXCEPT !.url = u]

\* updateWorkerPeerAdvert: a changed address has no verdict.
Advertised(u) == IF u = worker.url THEN worker
                 ELSE [url |-> u, reachable |-> Unknown, of |-> NoUrl, old |-> TRUE]

\* A new connection's hello: the check of a changed address tells its result
\* in any case; an address that is still the same is told the verdict in force.
Hello(u) ==
  /\ hellos < MaxHellos
  /\ hellos' = hellos + 1 /\ conn' = hellos + 1
  /\ advert' = u
  /\ worker' = Advertised(u)
  /\ misplaced' = IF u = worker.url THEN misplaced ELSE checks # {}
  /\ missed' = (checks # {})
  /\ IF u # worker.url
     THEN Schedule(u, FALSE) /\ shown' = Nothing
     ELSE /\ shown' = IF worker.reachable = Unknown THEN Nothing
                      ELSE [reachable |-> worker.reachable, url |-> u]
          /\ UNCHANGED <<checks, started>>
  /\ UNCHANGED <<answers, flips>>

Disconnect ==
  /\ conn # 0 /\ conn' = 0
  /\ shown' = Nothing
  /\ UNCHANGED <<worker, answers, advert, checks, hellos, flips, started, misplaced, missed>>

\* A heartbeat rechecks an address whose last check is old; until that check
\* has written, every further heartbeat starts another.
Heartbeat ==
  /\ conn # 0 /\ worker.url # NoUrl /\ worker.old
  /\ conn' = conn
  /\ Schedule(worker.url, TRUE)
  /\ missed' = (missed \/ checks # {})
  /\ UNCHANGED <<worker, answers, shown, advert, hellos, flips, misplaced>>

----------------------------------------------------------------------------
(* refresh()                                                               *)

Replace(c, d) == checks' = (checks \ {c}) \cup {d}

\* A host name is not probed: it has no verdict, and was checked just now.
SkipHostName(c) ==
  /\ c.pc = "begin" /\ c.url \in HostNames
  /\ worker' = [worker EXCEPT !.reachable = Unknown, !.of = NoUrl, !.old = FALSE]
  /\ checks' = checks \ {c}
  /\ UNCHANGED <<answers, conn, shown, advert, hellos, flips, started, misplaced, missed>>

ReadPrevious(c) ==
  /\ c.pc = "begin" /\ c.url \notin HostNames
  /\ Replace(c, [c EXCEPT !.pc = "probing", !.previous = worker.reachable])
  /\ UNCHANGED <<worker, answers, conn, shown, advert, hellos, flips, started, misplaced, missed>>

Probe(c) ==
  /\ c.pc = "probing"
  /\ Replace(c, [c EXCEPT !.pc = "writing", !.found = Verdict(answers[c.url])])
  /\ UNCHANGED <<worker, answers, conn, shown, advert, hellos, flips, started, misplaced, missed>>

\* A recheck tells the agent of a change only.
Tells(c) == ~(c.onChange /\ c.previous = c.found)

\* The row is written whatever address it holds now.
Record(c) ==
  /\ c.pc = "writing"
  /\ worker' = [worker EXCEPT !.reachable = c.found, !.of = c.url, !.old = FALSE]
  /\ Replace(c, [c EXCEPT !.pc = "telling"])
  /\ UNCHANGED <<answers, conn, shown, advert, hellos, flips, started, misplaced, missed>>

\* The message goes to the connection the check was started for, if it is
\* still there.
Tell(c) ==
  /\ c.pc = "telling"
  /\ shown' = IF Tells(c) /\ c.ws = conn THEN [reachable |-> c.found, url |-> c.url] ELSE shown
  /\ checks' = checks \ {c}
  /\ UNCHANGED <<worker, answers, conn, advert, hellos, flips, started, misplaced, missed>>

\* A database error, or the hub's end, loses the check.  Once its verdict is
\* written, no later check that finds the same will tell the agent.
LoseCheck(c) ==
  /\ flips < MaxFlips /\ flips' = flips + 1
  /\ checks' = checks \ {c}
  /\ missed' = (missed \/ (c.pc = "telling" /\ Tells(c)))
  /\ UNCHANGED <<worker, answers, conn, shown, advert, hellos, started, misplaced>>

----------------------------------------------------------------------------
Age ==
  /\ ~worker.old /\ worker' = [worker EXCEPT !.old = TRUE]
  /\ UNCHANGED <<answers, conn, shown, advert, checks, hellos, flips, started, misplaced, missed>>

Flip(u) ==
  /\ flips < MaxFlips /\ flips' = flips + 1
  /\ answers' = [answers EXCEPT ![u] = ~answers[u]]
  /\ UNCHANGED <<worker, conn, shown, advert, checks, hellos, started, misplaced, missed>>

Next ==
  \/ \E u \in Urls : Hello(u) \/ Flip(u)
  \/ Disconnect \/ Heartbeat \/ Age
  \/ \E c \in checks :
        SkipHostName(c) \/ ReadPrevious(c) \/ Probe(c) \/ Record(c) \/ Tell(c) \/ LoseCheck(c)

Spec == Init /\ [][Next]_vars

----------------------------------------------------------------------------
\* The verdict kept with an address was measured at that address, however the
\* checks of it overlap and whatever connections come and go: a reconnection
\* with another address never inherits it.  (The exception: a check that is
\* under way when the address changes writes its verdict over the new one's,
\* peerhealth.ts:322, and nothing tells them apart.)
VerdictIsOfTheAddress ==
  (~misplaced /\ worker.reachable # Unknown) => worker.of = worker.url

\* With no check under way, a connected agent has been told the verdict in
\* force on the address it advertises; a reconnection mends what it missed.
\* (The exceptions: a check ran across its hello or beside another one, or died
\* between the row and the message, peerhealth.ts:322-325.)
AgentKnowsTheVerdict ==
  (conn # 0 /\ checks = {} /\ ~missed /\ worker.reachable # Unknown)
     => shown = [reachable |-> worker.reachable, url |-> advert]

\* The verdict is on the address advertised unless that changed under a check,
\* and the agent has heard of it unless a check was cut off or overlapped
\* (refresh).
AddressSound == VerdictIsOfTheAddress /\ AgentKnowsTheVerdict
===========================================================================
