--------------------------- MODULE PortMapping ---------------------------
(***************************************************************************)
(* How an agent makes its file server reachable: it asks the home router   *)
(* for a port mapping (NAT-PMP first, UPnP second), advertises the address *)
(* it got to every platform in its hello, renews the mapping while it      *)
(* runs, falls back to its LAN address when renewals keep failing, and     *)
(* gives the mapping back when it stops.  A request to the router runs in  *)
(* a thread that a cancelled task does not stop.  The router and the       *)
(* network are external: a reply may be lost after the request took        *)
(* effect.                                                                 *)
(***************************************************************************)
EXTENDS Integers, FiniteSets

CONSTANTS Platforms,      \* platforms the agent is registered with
          Attempts,       \* external ports tried over UPnP: 0 .. Attempts - 1
          Lease,          \* ticks a timed mapping lives
          Window,         \* ticks between two forced reconnections
          FailureLimit,   \* failed renewals in a row before the downgrade
          MaxTicks, MaxFaults   \* bounds of the model

\* What the theorems about this module ask of its constants (natmap.py:45
\* and 52, runner.py:69: 5 ports, 2 failures, a lease of 3600 seconds).
MappingAssumption == Attempts \in Nat \ {0} /\ FailureLimit \in Nat \ {0} /\ Lease \in Nat

None == "none"
Lan == [host |-> "lan", port |-> 0]
Public == {"here", "elsewhere"}      \* addresses a platform may see the agent at
PortNumbers == 0 .. Attempts - 1
Forever == Lease + 1
Unset == [host |-> None, port |-> 0]
NoMapping == [method |-> None, ip |-> None, port |-> 0]
Free == [by |-> "nobody", left |-> Forever]
Other == [by |-> "other", left |-> Forever]

VARIABLES
  router,      \* external port -> who holds it, and for how long
  mapping,     \* self._peer_mapping
  nat,         \* self._peer_nat
  url,         \* self._peer_advertised_url
  seenIp,      \* self._peer_remote_ip
  failures,    \* self._peer_renew_failures
  quiet,       \* ticks until another forced reconnection is allowed
  call,        \* map_port under way in a thread
  renewal,     \* the renewal task: "off", "asleep", "due", "calling", "cancelled", "drained"
  phase,       \* "setup", "running", "unmapping", "draining", "down"
  giving,      \* the mapping that shutdown() is giving back
  conn,        \* platform -> "down", "ready" (before the hello), "up"
  told,        \* platform -> peer_url of the last hello it got
  ticks, faults,       \* bounds
  stray,       \* history: our entries the agent has no record of
  unsaid       \* history: the throttle held back the last change of address

vars == <<router, mapping, nat, url, seenIp, failures, quiet, call, renewal, phase,
          giving, conn, told, ticks, faults, stray, unsaid>>
agent == <<mapping, nat, url, seenIp, failures, quiet, unsaid>>
links == <<conn, told>>
bounds == <<ticks, faults>>

Idle == [pc |-> "idle", ip |-> None, port |-> 0]
Start == [pc |-> "ask", ip |-> None, port |-> 0]
Landed(m) == [pc |-> "landed", got |-> m]

Mapped(method, ip, port) == [method |-> method, ip |-> ip, port |-> port]

Init ==
  /\ router \in [PortNumbers -> {Free, Other}]
  /\ mapping = NoMapping /\ nat = None /\ url = Lan
  /\ seenIp = None /\ failures = 0 /\ quiet = 0
  /\ call = Start /\ renewal = "off" /\ phase = "setup" /\ giving = NoMapping
  /\ conn = [p \in Platforms |-> "down"] /\ told = [p \in Platforms |-> Unset]
  /\ ticks = 0 /\ faults = 0 /\ stray = {} /\ unsaid = FALSE

Ours(n) == router[n].by \in {"natpmp", "upnp"}
Fault == /\ faults < MaxFaults
         /\ faults' = faults + 1

----------------------------------------------------------------------------
(* The thread of map_port.                                                 *)

Process == <<mapping, nat, url, seenIp, failures, quiet, renewal, phase, giving, conn, told, ticks, unsaid>>

\* The agent can still come to know what the router now does for it: a task
\* waits for this very call, or this very mapping is about to be deleted.
Traceable(m) == \/ phase = "setup"
                \/ renewal = "calling"
                \/ /\ renewal = "cancelled"
                   /\ giving.port = m.port /\ giving.method = m.method
Noted(m) == IF Traceable(m) THEN stray \ {m.port} ELSE stray \cup {m.port}

\* NAT-PMP, the external address: a router that does not speak it sends the
\* call on to UPnP; a private address counts as none.
AskAddress ==
  /\ call.pc = "ask"
  /\ \/ \E ip \in {"here", None} : call' = [call EXCEPT !.pc = "grant", !.ip = ip]
     \/ call' = [call EXCEPT !.pc = "discover"]
  /\ UNCHANGED <<router, faults, stray>> /\ UNCHANGED Process

\* NAT-PMP, the mapping: the router picks a port of its own, and keeps the
\* one it gave before.  The reply may be lost, or the request refused.
Granted(n) ==
  /\ router[n] = Free \/ (Ours(n) /\ router[n].by = "natpmp")
  /\ \A k \in PortNumbers : (Ours(k) /\ router[k].by = "natpmp") => k = n
Grant ==
  /\ call.pc = "grant"
  /\ \/ \E n \in PortNumbers :
          /\ Granted(n)
          /\ router' = [router EXCEPT ![n] = [by |-> "natpmp", left |-> Lease]]
          /\ \/ /\ call' = Landed(Mapped("natpmp", call.ip, n))
                /\ stray' = Noted(call'.got)
                /\ UNCHANGED faults
             \/ /\ Fault
                /\ call' = [call EXCEPT !.pc = "discover"]
                /\ stray' = stray \cup {n}
     \/ /\ call' = [call EXCEPT !.pc = "discover"] /\ Fault
        /\ UNCHANGED <<router, stray>>
  /\ UNCHANGED Process

\* UPnP: a gateway answers the discovery, or none does (or no time is left).
Discover ==
  /\ call.pc = "discover"
  /\ \/ \E ip \in {"here", None} :
          call' = [pc |-> "add", ip |-> ip, port |-> 0] /\ UNCHANGED faults
     \/ call' = Landed(NoMapping) /\ Fault
  /\ UNCHANGED <<router, stray>> /\ UNCHANGED Process

\* UPnP AddPortMapping: a port that another host holds (718) sends the call
\* to the next one; a router that only takes permanent mappings (725) is
\* asked again with lease 0; a lost reply ends the call.
AddMapping ==
  /\ call.pc = "add"
  /\ LET n == call.port IN
     \/ /\ router[n] = Other
        /\ call' = IF n + 1 = Attempts THEN Landed(NoMapping) ELSE [call EXCEPT !.port = n + 1]
        /\ UNCHANGED <<router, stray, faults>>
     \/ /\ router[n] # Other
        /\ \E left \in {Lease, Forever} :
             router' = [router EXCEPT ![n] = [by |-> "upnp", left |-> left]]
        /\ \/ /\ call' = Landed(Mapped("upnp", call.ip, n))
              /\ stray' = Noted(call'.got)
              /\ UNCHANGED faults
           \/ call' = Landed(NoMapping) /\ stray' = stray \cup {n} /\ Fault
     \/ call' = Landed(NoMapping) /\ Fault /\ UNCHANGED <<router, stray>>
  /\ UNCHANGED Process

----------------------------------------------------------------------------
(* What the event loop does with the result.                               *)

HostOf(m) == IF m.ip # None THEN m.ip ELSE seenIp
UrlOf(host, m) == [host |-> host, port |-> m.port]

\* The mapping kept is replaced: the router keeps the earlier entry, and
\* nothing remembers it.
Forgotten(old, new) == {n \in {old.port} \ {new.port} : Ours(n)}

\* Every platform connection is closed, so that it comes back with a hello.
KickAll == conn' = [p \in Platforms |-> "down"]

\* At most one forced reconnection in a rolling window.
RequestReconnect ==
  IF quiet > 0 THEN unsaid' = TRUE /\ UNCHANGED <<quiet, conn>>
               ELSE quiet' = Window /\ unsaid' = FALSE /\ KickAll

SetUp ==
  /\ phase = "setup" /\ call.pc = "landed"
  /\ phase' = "running" /\ call' = Idle
  /\ LET m == call.got IN
     IF m = NoMapping
     THEN nat' = "lan" /\ url' = Lan /\ UNCHANGED <<mapping, renewal>>
     ELSE /\ mapping' = m /\ nat' = m.method /\ renewal' = "asleep"
          /\ url' = IF HostOf(m) # None THEN UrlOf(HostOf(m), m) ELSE Lan
  /\ UNCHANGED <<router, seenIp, failures, quiet, giving, links, bounds, stray, unsaid>>

\* The task wakes up after half a lease and sends a thread to the router.
Renew ==
  /\ phase = "running" /\ renewal = "due"
  /\ renewal' = "calling" /\ call' = Start
  /\ UNCHANGED <<router, agent, phase, giving, links, bounds, stray>>

NoteRenewalFailure ==
  /\ failures' = IF failures > FailureLimit THEN failures ELSE failures + 1
  /\ IF failures + 1 # FailureLimit \/ nat = "lan"
     THEN UNCHANGED <<nat, url, quiet, conn, unsaid>>
     ELSE nat' = "lan" /\ url' = Lan /\ RequestReconnect

Renewed ==
  /\ renewal = "calling" /\ call.pc = "landed"
  /\ renewal' = "asleep" /\ call' = Idle
  /\ LET m == call.got IN
     IF m = NoMapping
     THEN NoteRenewalFailure /\ UNCHANGED <<mapping, stray>>
     ELSE /\ failures' = 0 /\ mapping' = m
          /\ stray' = (stray \cup Forgotten(mapping, m)) \ {m.port}
          /\ IF HostOf(m) = None THEN UNCHANGED <<nat, url, quiet, conn, unsaid>>
             ELSE /\ nat' = m.method /\ url' = UrlOf(HostOf(m), m)
                  /\ IF url' = url THEN UNCHANGED <<quiet, conn, unsaid>> ELSE RequestReconnect
  /\ UNCHANGED <<router, seenIp, phase, giving, told, bounds>>

----------------------------------------------------------------------------
(* The connections.                                                        *)

\* The address a platform sees is of use only while a mapping without one is
\* in force; the first address seen is kept.
Takes(ip) == /\ ip # None
             /\ mapping # NoMapping /\ nat # "lan"
             /\ mapping.ip = None
             /\ seenIp \in {None, ip}

\* The handshake's "ready" carries the address the platform sees (none when
\* it is private).
Handshake(p, ip) ==
  /\ phase = "running" /\ conn[p] = "down"
  /\ IF ~Takes(ip) \/ UrlOf(ip, mapping) = url
     THEN /\ conn' = [conn EXCEPT ![p] = "ready"]
          /\ seenIp' = IF Takes(ip) THEN ip ELSE seenIp
          /\ UNCHANGED <<url, quiet, unsaid>>
     ELSE /\ seenIp' = ip /\ url' = UrlOf(ip, mapping)
          /\ IF quiet > 0
             THEN unsaid' = TRUE /\ conn' = [conn EXCEPT ![p] = "ready"] /\ UNCHANGED quiet
             ELSE unsaid' = FALSE /\ quiet' = Window /\ KickAll
  /\ UNCHANGED <<router, mapping, nat, failures, call, renewal, phase, giving, told, bounds, stray>>

Hello(p) ==
  /\ phase = "running" /\ conn[p] = "ready"
  /\ conn' = [conn EXCEPT ![p] = "up"]
  /\ told' = [told EXCEPT ![p] = url]
  /\ unsaid' = (unsaid /\ \E q \in Platforms \ {p} : conn[q] = "up" /\ told[q] # url)
  /\ UNCHANGED <<router, mapping, nat, url, seenIp, failures, quiet, call, renewal, phase, giving, bounds, stray>>

Drop(p) ==
  /\ phase = "running" /\ conn[p] # "down" /\ Fault
  /\ conn' = [conn EXCEPT ![p] = "down"]
  /\ UNCHANGED <<router, agent, call, renewal, phase, giving, told, ticks, stray>>

----------------------------------------------------------------------------
(* Stopping.                                                               *)

\* shutdown(): the renewal task is cancelled, the thread it waits for is not.
BeginShutdown ==
  /\ phase \in {"setup", "running"}
  /\ renewal' = IF renewal = "calling" THEN "cancelled" ELSE "off"
  /\ giving' = mapping
  /\ phase' = IF mapping = NoMapping THEN "down" ELSE "unmapping"
  /\ conn' = [p \in Platforms |-> "down"]
  \* What the thread already did is found only if it is this port.
  /\ stray' = IF call.pc # "landed" \/ call.got = NoMapping THEN stray
              ELSE IF mapping.method = call.got.method /\ mapping.port = call.got.port
              THEN stray ELSE stray \cup {call.got.port}
  /\ UNCHANGED <<router, agent, call, told, bounds>>

\* unmap_port: NAT-PMP names the internal port, UPnP the external one.
Deletes(m) == {n \in PortNumbers : /\ Ours(n) /\ router[n].by = m.method
                                   /\ m.method = "upnp" => n = m.port}
Unmap(m) ==
  \/ /\ router' = [n \in PortNumbers |-> IF n \in Deletes(m) THEN Free ELSE router[n]]
     /\ stray' = stray \ Deletes(m)
     /\ UNCHANGED faults
  \/ /\ Fault /\ stray' = stray \cup Deletes(m) /\ UNCHANGED router

\* Slip: one deletion is enough.
InFlightNever == FALSE

\* A renewal was under way when the task was cancelled: shutdown() waits a
\* moment and deletes once more.
InFlight == renewal = "cancelled"

FirstUnmap ==
  /\ phase = "unmapping"
  /\ Unmap(giving) /\ mapping' = NoMapping
  /\ phase' = IF InFlight THEN "draining" ELSE "down"
  /\ UNCHANGED <<nat, url, seenIp, failures, quiet, unsaid, call, renewal, giving, links, ticks>>

\* The mapping is read again, but the cancelled task never wrote it: the
\* one deleted is the earlier one.
SecondUnmap ==
  /\ phase = "draining"
  /\ Unmap(IF mapping # NoMapping THEN mapping ELSE giving)
  /\ mapping' = NoMapping /\ phase' = "down" /\ renewal' = "drained"
  /\ UNCHANGED <<nat, url, seenIp, failures, quiet, unsaid, call, giving, links, ticks>>

\* The result of a call whose task is gone is dropped.
DropResult ==
  /\ phase = "down" /\ call.pc = "landed"
  /\ call' = Idle
  /\ UNCHANGED <<router, agent, renewal, phase, giving, links, bounds, stray>>

----------------------------------------------------------------------------
(* The router's clock, and other hosts.                                    *)

Aged(e) == IF e.left = Forever THEN e
           ELSE IF e.left = 1 THEN Free ELSE [e EXCEPT !.left = e.left - 1]

\* A tick is half a lease; a call takes seconds, so none spans a tick.
Tick ==
  /\ ticks < MaxTicks /\ call = Idle
  /\ phase = "running" /\ renewal \in {"off", "asleep"}
  /\ ticks' = ticks + 1
  /\ router' = [n \in PortNumbers |-> Aged(router[n])]
  /\ stray' = {n \in stray : router'[n] # Free}
  /\ quiet' = IF quiet = 0 THEN 0 ELSE quiet - 1
  /\ renewal' = IF renewal = "asleep" THEN "due" ELSE renewal
  /\ UNCHANGED <<mapping, nat, url, seenIp, failures, unsaid, call, phase, giving, links, faults>>

\* Another host takes or leaves a port.
OtherHost(n) ==
  /\ Fault
  /\ \/ router[n] = Free /\ router' = [router EXCEPT ![n] = Other]
     \/ router[n] = Other /\ router' = [router EXCEPT ![n] = Free]
  /\ UNCHANGED <<agent, call, renewal, phase, giving, links, ticks, stray>>

Next ==
  \/ AskAddress \/ Grant \/ Discover \/ AddMapping
  \/ SetUp \/ Renew \/ Renewed
  \/ \E p \in Platforms : (\E ip \in Public \cup {None} : Handshake(p, ip)) \/ Hello(p) \/ Drop(p)
  \/ BeginShutdown \/ FirstUnmap \/ SecondUnmap \/ DropResult
  \/ Tick \/ \E n \in PortNumbers : OtherHost(n)

Spec == Init /\ [][Next]_vars

----------------------------------------------------------------------------
\* When the agent is down the router holds no mapping of its own, but those
\* it had no record of: made by a request whose reply was lost, replaced by
\* a mapping on another port, or made after shutdown() stopped looking
\* (runner.py: no forward to a service that is gone stays on the router).
NothingLeftBehind == (phase = "down" /\ call = Idle) => {n \in PortNumbers : Ours(n)} \subseteq stray

\* After FailureLimit failed renewals in a row nobody is told the public
\* address any more, whatever a platform's handshake reports in between.
DowngradedInTime == (phase = "running" /\ failures >= FailureLimit) => url = Lan

\* A connected platform was told the address in force, unless the throttle
\* of forced reconnections held the news back.
PlatformsAreTold ==
  \A p \in Platforms : (phase = "running" /\ conn[p] = "up" /\ told[p] # url) => unsaid

\* The router, the agent and the platforms agree on the address: nothing the agent
\* had a record of stays mapped when it is gone, after the last tolerated failure
\* nobody is told the public address, and who is connected knows the one in force
\* unless the throttle held it back (runner.py, natmap.py).
MappingSound == NothingLeftBehind /\ DowngradedInTime /\ PlatformsAreTold
=============================================================================
