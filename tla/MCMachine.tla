----------------------------- MODULE MCMachine -----------------------------
(* Five parts of the agent's machine that share no state: the router's     *)
(* mapping, the hub's verdict on the address it gives, a ComfyUI update,   *)
(* the life of the agent's process and its registrations.  A run explores  *)
(* each of them, chosen by the initial state, and leaves the others at     *)
(* rest.                                                                   *)
EXTENDS PortMapping, TLC

CONSTANTS
  Urls, HostNames, MaxChecks, MaxHellos, MaxFlips,     \* of the hub's checks,
  MaxComfyJobs, MaxCommands, MaxComfyFaults,           \* the ComfyUI update,
  Latest, MaxStarts, MaxStops, MaxJobs,                \* the process
  GiveUp, MaxEntries, MaxEntryFaults                   \* and the registrations

VARIABLES part,
          worker, answers, agentConn, shown, advert, checks, hellos, flips, started, misplaced, missed,
          newWorks, repo, deps, serving, update, status, pending, up, hub, pushed,
          comfyJob, comfyJobs, commands, comfyFaults, damaged,
          proc, code, wheel, published, autoUpdate, stopFile, stateFile, control, shutdown,
          exitCode, install, deferred, job, wish, early, underway, disobeyed, starts, stops, jobs,
          file, dead, account, runningAgent, entryConn, rejections, prune, register, entryFaults,
          replaced, lies, saved, raced

H == INSTANCE PeerHealth WITH conn <- agentConn

C == INSTANCE ComfyUpdate WITH
       MaxJobs <- MaxComfyJobs, MaxFaults <- MaxComfyFaults,
       job <- comfyJob, jobs <- comfyJobs, faults <- comfyFaults

P == INSTANCE AgentProcess

R == INSTANCE Registrations WITH
       MaxFaults <- MaxEntryFaults,
       worker <- account, conn <- entryConn, faults <- entryFaults, agent <- runningAgent

\* What the theorems about the parts ask of the constants.
ASSUME MappingFits == MappingAssumption
ASSUME EntriesFit == R!EntriesAssumption

health == <<worker, answers, agentConn, shown, advert, checks, hellos, flips, started, misplaced, missed>>
comfy == <<newWorks, repo, deps, serving, update, status, pending, up, hub, pushed,
           comfyJob, comfyJobs, commands, comfyFaults, damaged>>
process == <<proc, code, wheel, published, autoUpdate, stopFile, stateFile, control, shutdown,
             exitCode, install, deferred, job, wish, early, underway, disobeyed,
             starts, stops, jobs>>
entries == <<file, dead, account, runningAgent, entryConn, rejections, prune, register, entryFaults,
             replaced, lies, saved, raced>>

\* The parts at rest start in one of their initial states.
MCInit ==
  /\ part \in {"mapping", "health", "comfy", "process", "entries"}
  /\ Init /\ H!Init /\ C!Init /\ P!Init /\ R!Init
  /\ part = "mapping" \/ router = [n \in PortNumbers |-> Free]
  /\ part = "health" \/ (advert = (CHOOSE u \in Urls : TRUE) /\ answers = [u \in Urls |-> TRUE])
  /\ part = "comfy" \/ newWorks
  /\ part = "process" \/ (published = 1 /\ autoUpdate /\ ~stopFile /\ ~stateFile)
  /\ part = "entries" \/ file = {}

MCNext ==
  /\ UNCHANGED part
  /\ \/ part = "mapping" /\ Next /\ UNCHANGED <<health, comfy, process, entries>>
     \/ part = "health" /\ H!Next /\ UNCHANGED <<vars, comfy, process, entries>>
     \/ part = "comfy" /\ C!Next /\ UNCHANGED <<vars, health, process, entries>>
     \/ part = "process" /\ P!Next /\ UNCHANGED <<vars, health, comfy, entries>>
     \/ part = "entries" /\ R!Next /\ UNCHANGED <<vars, health, comfy, process>>

MCSpec == MCInit /\ [][MCNext]_<<part, vars, health, comfy, process, entries>>

\* The life of the process by itself.
StopSpec == (MCInit /\ part = "process") /\ [][MCNext]_<<part, vars, health, comfy, process, entries>>

\* The registrations by themselves.
EntriesSpec ==
  (MCInit /\ part = "entries") /\ [][MCNext]_<<part, vars, health, comfy, process, entries>>

\* With the last thing that goes wrong no register command is under way.
LastAlone == (part = "entries" /\ entryFaults = MaxEntryFaults) => register.pc = "idle"

Alike == Permutations(Platforms)

AddressSound == H!AddressSound
UpdateSound == C!UpdateSound
ProcessSound == P!ProcessSound
RegistrationsSound == R!RegistrationsSound

StopIsFinal == P!StopIsFinal
LossIsInstant == R!LossIsInstant
==============================================================================
