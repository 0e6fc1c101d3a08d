-------------------------- MODULE LocalExecutorHost --------------------------
(***************************************************************************)
(* The local executor host (services/local-executor-host): it runs one     *)
(* fixed command per invocation as a process group, supervises it, and     *)
(* keeps a state file per agent that names the process of the agent's run. *)
(* A host that starts again ends what an earlier host left running.        *)
(*                                                                         *)
(* A process group has a leader, the command itself, and descendants it    *)
(* may fork.  Once a leader is gone its process id may become that of a    *)
(* stranger.  With agents of its own the host has one worker per agent;    *)
(* without, one worker bridges to every agent.                             *)
(***************************************************************************)
EXTENDS Integers, Sequences, FiniteSets

CONSTANTS
    Agents,         \* sequence: the agents in the order they are started
    Runs,           \* invocations
    AgentOf,        \* the agent of each run
    Bridge,         \* BOOLEAN: one worker for all agents
    Concurrency,    \* runs a worker executes at a time
    NoRun

VARIABLES
    started,    \* how many agents have a worker that listens; -1: host down
    sweep,      \* what the next agent's orphan is: "unseen" or "signalled"
    run,        \* what became of each run
    leader,     \* the leader of each run's process group
    group,      \* runs whose leader has living descendants
    term,       \* runs whose group was sent SIGTERM by their supervisor
    file,       \* the run in the state file of each agent
    stranger    \* what has the process id of a run whose group is gone

vars == <<started, sweep, run, leader, group, term, file, stranger>>

AgentSet == {Agents[i] : i \in DOMAIN Agents}
Down == started = -1
Serves(a) == \E i \in DOMAIN Agents : Agents[i] = a /\ i <= started
Supervised == {"spawned", "recorded", "unrecorded"}

(* The runs that take a slot of the same worker.                           *)
Peers(r) == {q \in Runs : run[q] \in Supervised /\ (Bridge \/ AgentOf[q] = AgentOf[r])}

Killed(r) ==
    /\ leader' = [leader EXCEPT ![r] = IF @ = "alive" THEN "dead" ELSE @]
    /\ group' = group \ {r}

Cleared(a) == file' = [file EXCEPT ![a] = NoRun]
-----------------------------------------------------------------------------
(* A binding, a model or a working directory the host does not accept.     *)
Refuse(r) ==
    /\ run[r] = "new"
    /\ Serves(AgentOf[r])
    /\ Cardinality(Peers(r)) < Concurrency
    /\ run' = [run EXCEPT ![r] = "done"]
    /\ UNCHANGED <<started, sweep, leader, group, term, file, stranger>>

Spawn(r) ==
    /\ run[r] = "new"
    /\ Serves(AgentOf[r])
    /\ Cardinality(Peers(r)) < Concurrency
    /\ run' = [run EXCEPT ![r] = "spawned"]
    /\ leader' = [leader EXCEPT ![r] = "alive"]
    /\ UNCHANGED <<started, sweep, group, term, file, stranger>>

(* The state file is cleared even when nothing was spawned.                *)
SpawnFails(r) ==
    /\ run[r] = "new"
    /\ Serves(AgentOf[r])
    /\ Cardinality(Peers(r)) < Concurrency
    /\ run' = [run EXCEPT ![r] = "done"]
    /\ Cleared(AgentOf[r])
    /\ UNCHANGED <<started, sweep, leader, group, term, stranger>>

(* onSpawn: a state file that cannot be written is only logged.            *)
Record(r) ==
    /\ run[r] = "spawned"
    /\ \/ /\ run' = [run EXCEPT ![r] = "recorded"]
          /\ file' = [file EXCEPT ![AgentOf[r]] = r]
       \/ run' = [run EXCEPT ![r] = "unrecorded"] /\ UNCHANGED file
    /\ UNCHANGED <<started, sweep, leader, group, term, stranger>>

(* The exit of the leader: what is left of its group is killed, the run is *)
(* settled and the state file of its agent cleared.                        *)
Exit(r) ==
    /\ run[r] \in {"recorded", "unrecorded"}
    /\ leader[r] = "dead"
    /\ group' = group \ {r}
    /\ run' = [run EXCEPT ![r] = "done"]
    /\ Cleared(AgentOf[r])
    /\ UNCHANGED <<started, sweep, leader, term, stranger>>

(* The wall clock, the invocation's deadline or an abort: SIGTERM, which   *)
(* any process of the group may outlive.                                   *)
Escalate(r) ==
    /\ run[r] \in Supervised
    /\ leader[r] = "alive"
    /\ term' = term \cup {r}
    /\ leader' \in {leader, [leader EXCEPT ![r] = "dead"]}
    /\ group' \in {group, group \ {r}}
    /\ UNCHANGED <<started, sweep, run, file, stranger>>

(* The grace is over, or the output is too long: SIGKILL.                  *)
KillGroup(r) ==
    /\ run[r] \in {"recorded", "unrecorded"}
    /\ leader[r] = "alive"
    /\ Killed(r)
    /\ UNCHANGED <<started, sweep, run, term, file, stranger>>
-----------------------------------------------------------------------------
(* The processes themselves.  No id is used again within the grace that an *)
(* orphan is given.                                                        *)
Fork(r) ==
    /\ leader[r] = "alive"
    /\ group' = group \cup {r}
    /\ UNCHANGED <<started, sweep, run, leader, term, file, stranger>>

LeaderExits(r) ==
    /\ leader[r] = "alive"
    /\ leader' = [leader EXCEPT ![r] = "dead"]
    /\ UNCHANGED <<started, sweep, run, group, term, file, stranger>>

PidReused(r) ==
    /\ leader[r] = "dead" /\ r \notin group
    /\ sweep = "unseen" /\ stranger[r] = "none"
    /\ stranger' = [stranger EXCEPT ![r] = "alive"]
    /\ UNCHANGED <<started, sweep, run, leader, group, term, file>>

(* Who is behind the id in the state file.                                 *)
PidAlive(r) == leader[r] = "alive" \/ stranger[r] = "alive"
-----------------------------------------------------------------------------
HostCrash ==
    /\ ~Down
    /\ started' = -1
    /\ sweep' = "unseen"
    /\ run' = [r \in Runs |-> CASE run[r] = "recorded" -> "orphan"
                                [] run[r] \in {"spawned", "unrecorded"} -> "lost"
                                [] OTHER -> run[r]]
    /\ term' = {}
    /\ UNCHANGED <<leader, group, file, stranger>>

(* The bridge listens at once.                                             *)
HostStart ==
    /\ Down
    /\ started' = IF Bridge THEN Len(Agents) ELSE 0
    /\ UNCHANGED <<sweep, run, leader, group, term, file, stranger>>

Starting == ~Down /\ started < Len(Agents)
Upcoming == Agents[started + 1]
Found == file[Upcoming]

MutantTrustsPid == TRUE

(* processStartTimeMatches: what has the id is the process that was        *)
(* started; it may also fail to tell.                                      *)
IsTheRun == leader[Found] = "alive"

(* terminateOrphan: the recorded process, if any, is gone.                 *)
NothingRuns == ~(Found # NoRun /\ PidAlive(Found))

NoOrphan ==
    /\ Starting
    /\ sweep = "unseen"
    /\ NothingRuns
    /\ Cleared(Upcoming)
    /\ started' = started + 1
    /\ UNCHANGED <<sweep, run, leader, group, term, stranger>>

(* Another process, or an identity that cannot be verified, is left alone. *)
SkipOrphan ==
    /\ Starting
    /\ sweep = "unseen"
    /\ Found # NoRun
    /\ PidAlive(Found)
    /\ Cleared(Upcoming)
    /\ run' = [run EXCEPT ![Found] = "lost"]
    /\ started' = started + 1
    /\ UNCHANGED <<sweep, leader, group, term, stranger>>

(* Whatever has the id and its group get the signal.                       *)
SignalOrphan ==
    /\ Starting
    /\ sweep = "unseen"
    /\ Found # NoRun
    /\ PidAlive(Found)
    /\ IsTheRun
    /\ sweep' = "signalled"
    /\ leader' \in {leader, [leader EXCEPT ![Found] = IF @ = "alive" THEN "dead" ELSE @]}
    /\ group' \in {group, group \ {Found}}
    /\ stranger' = [stranger EXCEPT ![Found] = IF @ = "alive" THEN "killed" ELSE @]
    /\ UNCHANGED <<started, run, term, file>>

(* After the grace the group is killed if its leader still lives.          *)
EndOrphan ==
    /\ Starting
    /\ sweep = "signalled"
    /\ IF PidAlive(Found) THEN Killed(Found) ELSE UNCHANGED <<leader, group>>
    /\ Cleared(Upcoming)
    /\ sweep' = "unseen"
    /\ started' = started + 1
    /\ UNCHANGED <<run, term, stranger>>
-----------------------------------------------------------------------------
Init ==
    /\ started = -1
    /\ sweep = "unseen"
    /\ run = [r \in Runs |-> "new"]
    /\ leader = [r \in Runs |-> "none"]
    /\ group = {}
    /\ term = {}
    /\ file = [a \in AgentSet |-> NoRun]
    /\ stranger = [r \in Runs |-> "none"]

Next ==
    \/ \E r \in Runs :
           \/ Refuse(r) \/ Spawn(r) \/ SpawnFails(r) \/ Record(r) \/ Exit(r)
           \/ Escalate(r) \/ KillGroup(r)
           \/ Fork(r) \/ LeaderExits(r) \/ PidReused(r)
    \/ HostCrash \/ HostStart
    \/ NoOrphan \/ SkipOrphan \/ SignalOrphan \/ EndOrphan

Spec == Init /\ [][Next]_vars
-----------------------------------------------------------------------------
TypeOK ==
    /\ started \in -1..Len(Agents)
    /\ sweep \in {"unseen", "signalled"}
    /\ run \in [Runs -> {"new", "done", "orphan", "lost"} \cup Supervised]
    /\ leader \in [Runs -> {"none", "alive", "dead"}]
    /\ group \subseteq Runs
    /\ term \subseteq Runs
    /\ file \in [AgentSet -> Runs \cup {NoRun}]
    /\ stranger \in [Runs -> {"none", "alive", "killed"}]

(* Through crashes, restarts and state files that were not written, every  *)
(* process that was recorded is found: an orphan that still runs is named  *)
(* by its agent's file, an agent never runs beside an orphan it could have *)
(* known, a settled run leaves no process, and no stranger is ever killed  *)
(* for having the id of a run.                                             *)
ProcessesAreAccountedFor ==
    /\ \A r \in Runs :
           /\ run[r] = "orphan" /\ leader[r] = "alive" => file[AgentOf[r]] = r
           /\ run[r] = "done" => leader[r] # "alive" /\ r \notin group
           /\ stranger[r] # "killed"
    /\ \A q, r \in Runs :
           (/\ AgentOf[q] = AgentOf[r]
            /\ run[q] = "orphan" /\ leader[q] = "alive") => run[r] \notin Supervised
=============================================================================
