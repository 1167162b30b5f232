--------------------------- MODULE Registrations ---------------------------
(***************************************************************************)
(* The agent's registrations: the entries of agent.json, each holding the  *)
(* signing key of one worker of one platform.  "register" adds one, the    *)
(* running agent takes out those a platform rejects for good and keeps     *)
(* them in agent.dead.json, and both commands probe for ComfyUI between    *)
(* reading the file and writing it.  The two are processes of their own:   *)
(* nothing coordinates them.  The platforms are external.                  *)
(***************************************************************************)
EXTENDS Integers, FiniteSets

CONSTANTS Platforms,
          GiveUp,              \* consecutive rejections before an entry is given up
          MaxEntries,          \* bounds of the model
          MaxFaults

EntriesAssumption == GiveUp \in Nat \ {0} /\ MaxEntries \in Nat \ {0}

VARIABLES
  file,       \* entries of agent.json
  dead,       \* agent.dead.json: entries, whether it parses, what was set aside
  worker,     \* what each entry is to its platform: "none", "live", "disabled", "deleted"
  agent,      \* the agent's process: its step, and the entries it loaded
  conn,       \* entry -> "off", "trying", "up", "over"
  rejections, \* entry -> auth_rejections
  prune,      \* the removal under way: its step, entry and what it read
  register,   \* the register command: its step, entry and what it read
  faults,     \* bound
  replaced,   \* history: entries a registration replaced
  lies,       \* history: how often in a row a platform rejected a worker it has (GiveUp stays)
  saved,      \* history: entries ever written to agent.json
  raced       \* history: a file was written over somebody else's change,
              \* "at once" after it was read or after a "probe"

vars == <<file, dead, worker, agent, conn, rejections, prune, register, faults,
          replaced, lies, saved, raced>>
platform == <<worker, lies>>
agentside == <<agent, conn, rejections, prune>>

Entries == Platforms \X (1 .. MaxEntries)
Of(e) == e[1]
Idle == [pc |-> "idle", entry |-> <<>>, read |-> {}]
Down == [pc |-> "down", read |-> {}]
Fault == faults < MaxFaults /\ faults' = faults + 1

Init ==
  /\ file \in SUBSET (Platforms \X {1})
  /\ worker = [e \in Entries |-> IF e \in file THEN "live" ELSE "none"]
  /\ dead = [entries |-> {}, parses |-> TRUE, aside |-> {}]
  /\ agent = Down
  /\ conn = [e \in Entries |-> "off"] /\ rejections = [e \in Entries |-> 0]
  /\ prune = Idle /\ register = Idle
  /\ lies = [e \in Entries |-> 0]
  /\ faults = 0 /\ replaced = {} /\ saved = file /\ raced = {}

\* Writing back a list that was read, where somebody wrote in between.
Written(read, new, how) ==
  /\ file' = new /\ saved' = saved \cup new
  /\ raced' = IF file = read THEN raced ELSE raced \cup {how}

----------------------------------------------------------------------------
(* The platforms.                                                          *)

\* An administrator disables, enables or deletes a worker.
Administer(e) ==
  /\ \/ worker[e] = "live" /\ worker' = [worker EXCEPT ![e] = "disabled"]
     \/ worker[e] = "disabled" /\ worker' = [worker EXCEPT ![e] = "live"]
     \/ worker[e] \in {"live", "disabled"} /\ worker' = [worker EXCEPT ![e] = "deleted"]
  /\ Fault
  /\ UNCHANGED <<file, dead, agentside, register, replaced, lies, saved, raced>>

----------------------------------------------------------------------------
(* The agent.                                                              *)

\* _cmd_run reads the file and probes for ComfyUI.
Start ==
  /\ agent.pc = "down" /\ file # {}
  /\ agent' = [pc |-> "probing", read |-> file]
  /\ UNCHANGED <<file, dead, platform, conn, rejections, prune, register, faults, replaced, saved, raced>>

Running(read) ==
  /\ agent' = [pc |-> "running", read |-> read]
  /\ conn' = [e \in Entries |-> IF e \in read THEN "trying" ELSE "off"]
  /\ rejections' = [e \in Entries |-> 0]

\* What the probe found is saved, with the entries as they were read.
Probed ==
  /\ agent.pc = "probing"
  /\ Running(agent.read)
  /\ \/ Written(agent.read, agent.read, "probe")
     \/ UNCHANGED <<file, saved, raced>>
  /\ UNCHANGED <<dead, platform, prune, register, faults, replaced>>

\* The event loop is not blocked by a removal.
Free == agent.pc = "running" /\ prune.pc = "idle"

\* Only 4401 is a rejection.
Rejected(answer) == answer = "4401"

\* What a platform may answer; an older one says 4401 for a timeout too.
Answers(e) ==
  CASE worker[e] = "live" -> {"ready", "4401", "other"}
    [] worker[e] = "disabled" -> {"4403", "other"}
    [] OTHER -> {"4401", "other"}

\* One attempt of _run_platform.
Attempt(e) ==
  /\ Free /\ conn[e] = "trying"
  /\ \E answer \in Answers(e) :
       /\ IF answer = "4401" /\ worker[e] = "live"
          THEN Fault /\ lies' = [lies EXCEPT ![e] = IF @ < GiveUp THEN @ + 1 ELSE @]
          ELSE UNCHANGED faults /\ lies' = [lies EXCEPT ![e] = IF @ < GiveUp THEN 0 ELSE @]
       /\ IF Rejected(answer)
          THEN /\ rejections' = [rejections EXCEPT ![e] = @ + 1]
               /\ IF rejections[e] + 1 < GiveUp
                  THEN UNCHANGED <<conn, prune>>
                  ELSE /\ conn' = [conn EXCEPT ![e] = "over"]
                       /\ prune' = [pc |-> "load", entry |-> e, read |-> {}]
          ELSE /\ rejections' = [rejections EXCEPT ![e] = 0]
               /\ conn' = IF answer = "ready" THEN [conn EXCEPT ![e] = "up"] ELSE conn
               /\ UNCHANGED prune
  /\ UNCHANGED <<file, dead, worker, agent, register, replaced, saved, raced>>

\* A connection ends; a deleted worker's is closed with 4403.
Drop(e) ==
  /\ Free /\ conn[e] = "up"
  /\ conn' = [conn EXCEPT ![e] = "trying"] /\ rejections' = [rejections EXCEPT ![e] = 0]
  /\ UNCHANGED <<file, dead, platform, agent, prune, register, faults, replaced, saved, raced>>

\* Every registration was given up: the process ends.
GaveUpAll ==
  /\ Free /\ \A e \in agent.read : conn[e] = "over"
  /\ agent' = Down /\ conn' = [e \in Entries |-> "off"]
  /\ UNCHANGED <<file, dead, platform, rejections, prune, register, faults, replaced, saved, raced>>

\* A stop or a kill, also in the middle of a removal.
Die ==
  /\ agent.pc # "down" /\ Fault
  /\ agent' = Down /\ prune' = Idle /\ conn' = [e \in Entries |-> "off"]
  /\ UNCHANGED <<file, dead, platform, rejections, register, replaced, saved, raced>>

----------------------------------------------------------------------------
(* _prune_dead_registration: read, back up, save.                          *)

Skip == prune' = Idle

PruneLoad ==
  /\ prune.pc = "load"
  /\ \/ prune.entry \in file /\ prune' = [prune EXCEPT !.pc = "backup", !.read = file] /\ UNCHANGED faults
     \/ prune.entry \notin file /\ Skip /\ UNCHANGED faults
     \/ Fault /\ Skip
  /\ UNCHANGED <<file, dead, platform, agent, conn, rejections, register, replaced, saved, raced>>

\* Slip: a list that cannot be read is started afresh.
AppendedAfresh(e) == [dead EXCEPT !.entries = IF dead.parses THEN @ \cup {e} ELSE {e}, !.parses = TRUE]

\* A list that cannot be read is renamed.
SetAside ==
  IF dead.parses THEN dead
  ELSE [entries |-> {}, parses |-> TRUE, aside |-> dead.aside \cup dead.entries]

\* _append_dead_registration.
Appended(e) == [SetAside EXCEPT !.entries = @ \cup {e}]

\* Without the backup nothing is removed.
PruneBackup ==
  /\ prune.pc = "backup"
  /\ \/ dead' = Appended(prune.entry) /\ prune' = [prune EXCEPT !.pc = "save"] /\ UNCHANGED faults
     \/ Fault /\ Skip /\ dead' \in {dead, SetAside}
  /\ UNCHANGED <<file, platform, agent, conn, rejections, register, replaced, saved, raced>>

PruneSave ==
  /\ prune.pc = "save" /\ Skip
  /\ \/ Written(prune.read, prune.read \ {prune.entry}, "at once") /\ UNCHANGED faults
     \/ Fault /\ UNCHANGED <<file, saved, raced>>
  /\ UNCHANGED <<dead, platform, agent, conn, rejections, register, replaced>>

\* A half-written or hand-edited list.
DeadFileBreaks ==
  /\ dead.parses /\ dead.entries # {} /\ Fault
  /\ dead' = [dead EXCEPT !.parses = FALSE]
  /\ UNCHANGED <<file, platform, agentside, register, replaced, saved, raced>>

----------------------------------------------------------------------------
(* The register command.                                                   *)

\* The platform has made a worker; the file is read.
RegisterLoad(e) ==
  /\ register.pc = "idle" /\ worker[e] = "none"
  /\ \A n \in 1 .. e[2] - 1 : worker[<<Of(e), n>>] # "none"
  /\ worker' = [worker EXCEPT ![e] = "live"]
  /\ register' = [pc |-> "save", entry |-> e, read |-> file]
  /\ UNCHANGED <<file, dead, agentside, faults, replaced, lies, saved, raced>>

\* The new entry replaces those of the same platform.
Others(read, e) == {o \in read : Of(o) # Of(e)}

RegisterSave ==
  /\ register.pc = "save"
  /\ Written(register.read, Others(register.read, register.entry) \cup {register.entry}, "at once")
  /\ replaced' = replaced \cup {o \in register.read : Of(o) = Of(register.entry)}
  /\ register' = [register EXCEPT !.pc = "reload"]
  /\ UNCHANGED <<dead, platform, agentside, faults>>

\* The file is read again and ComfyUI probed for; what was found is saved.
RegisterReload ==
  /\ register.pc = "reload"
  /\ register' = [register EXCEPT !.pc = "probing", !.read = file]
  /\ UNCHANGED <<file, dead, platform, agentside, faults, replaced, saved, raced>>

RegisterProbed ==
  /\ register.pc = "probing"
  /\ register' = Idle
  /\ \/ Written(register.read, register.read, "probe")
     \/ UNCHANGED <<file, saved, raced>>
  /\ UNCHANGED <<dead, platform, agentside, faults, replaced>>

\* The command ends half way: an entry not yet saved is a worker nobody is.
RegisterDies ==
  /\ register.pc # "idle" /\ Fault
  /\ register' = Idle
  /\ UNCHANGED <<file, dead, platform, agentside, replaced, saved, raced>>

Next ==
  \/ Start \/ Probed \/ GaveUpAll \/ Die
  \/ PruneLoad \/ PruneBackup \/ PruneSave \/ DeadFileBreaks
  \/ RegisterSave \/ RegisterReload \/ RegisterProbed \/ RegisterDies
  \/ \E e \in Entries : Administer(e) \/ Attempt(e) \/ Drop(e) \/ RegisterLoad(e)

Spec == Init /\ [][Next]_vars

----------------------------------------------------------------------------
\* Entries whose signing key is in no file any more, and that nobody replaced.
Lost == saved \ (file \cup dead.entries \cup dead.aside \cup replaced)

\* A signing key is never lost: whatever fails or crashes, an entry that was
\* in agent.json is still there or among the dead ones, unless a new
\* registration replaced it or two processes wrote over each other
\* (_append_dead_registration, _prune_dead_registration_locked).
KeysAreKept == raced = {} => Lost = {}

\* Only a worker its platform has deleted is taken out of agent.json, or one
\* a platform rejected wrongly several times in a row; a disabled worker's
\* entry stays (_is_auth_rejected, _is_disabled).
OnlyTheDeadLeave ==
  \A e \in dead.entries \cup dead.aside : worker[e] = "deleted" \/ lies[e] = GiveUp

\* What the comments beside both writers say: an entry can get lost only when
\* the other process writes in the instant between a read and its save.
LossIsInstant == Lost # {} => "at once" \in raced

\* No registration is lost but those whose worker the platform deleted
\* (config.py, runner.py).
RegistrationsSound == KeysAreKept /\ OnlyTheDeadLeave
=============================================================================
