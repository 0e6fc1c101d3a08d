-------------------------- MODULE NativeExecutorHost --------------------------
(***************************************************************************)
(* The local executor host in Rust (services/local-executor-host-rs).  A   *)
(* request passes a check against the records of invocations, takes a      *)
(* permit and is recorded, each in a step of its own; its run supervises   *)
(* one process group, settles and delivers one result, and only then gives *)
(* its permit back.  The supervisor enforces deadlines only while it waits *)
(* for the leader: not while it writes the input, nor while it waits for   *)
(* the output of descendants to end.                                       *)
(*                                                                         *)
(* One agent is modelled, with its state file.  With agents configured the *)
(* host sweeps the file before it listens and runs one invocation at a     *)
(* time; as a bridge it does not sweep and runs several.                   *)
(***************************************************************************)
EXTENDS Naturals, FiniteSets

CONSTANTS
    Requests,       \* POST /v1/runs
    InvocationOf,   \* the invocation of each request
    Permits,        \* runs at a time
    Sweeps,         \* BOOLEAN: agents are configured
    MaxCrashes,     \* bound on deaths and interrupts of the host
    NoRun

VARIABLES
    host,           \* "down", "signalled" (an orphan), "up" or "stopping"
    crashes,
    request,        \* "new", "checked", "permitted", "answered"
    record,         \* invocation -> the request that was recorded
    run,            \* the run of each request, and what became of it
    escalated,      \* runs whose group was sent SIGTERM
    grace,          \* runs whose group will be sent SIGKILL
    leader,         \* of each run's process group
    group,          \* runs whose leader has living descendants
    piped,          \* those of them that hold the output of their run
    file            \* the run in the state file

vars == <<host, crashes, request, record, run, escalated, grace, leader, group, piped, file>>

processVars == <<leader, group, piped>>
requestVars == <<request, record>>

Listening == host = "up"
Up == host \in {"up", "stopping"}
InMemory == {"accepted", "resolved", "placed", "spawned", "written", "supervised", "draining",
             "settled"}
InvocationIds == {InvocationOf[r] : r \in Requests}
Holders == {r \in Requests : request[r] = "permitted" \/ run[r] \in InMemory}

Init ==
    /\ host = "down"
    /\ crashes = 0
    /\ request = [r \in Requests |-> "new"]
    /\ record = [i \in InvocationIds |-> NoRun]
    /\ run = [r \in Requests |-> "none"]
    /\ escalated = {}
    /\ grace = {}
    /\ leader = [r \in Requests |-> "none"]
    /\ group = {}
    /\ piped = {}
    /\ file = NoRun
-----------------------------------------------------------------------------
(* submit *)

Recorded(i) == record[i] # NoRun

(* A duplicate is told which run was recorded, and the same identifier with*)
(* another body is refused.                                                *)
Check(r) ==
    /\ Listening
    /\ request[r] = "new"
    /\ request' = [request EXCEPT ![r] =
                     IF Recorded(InvocationOf[r]) THEN "answered" ELSE "checked"]
    /\ UNCHANGED <<host, crashes, record, run, escalated, grace, processVars, file>>

(* A host without a permit to give refuses.                                *)
Acquire(r) ==
    /\ Up
    /\ request[r] = "checked"
    /\ request' = [request EXCEPT ![r] =
                     IF Cardinality(Holders) < Permits THEN "permitted" ELSE "answered"]
    /\ UNCHANGED <<host, crashes, record, run, escalated, grace, processVars, file>>

Accept(r) ==
    /\ Up
    /\ request[r] = "permitted"
    /\ request' = [request EXCEPT ![r] = "answered"]
    /\ record' = [record EXCEPT ![InvocationOf[r]] = r]
    /\ run' = [run EXCEPT ![r] = "accepted"]
    /\ UNCHANGED <<host, crashes, escalated, grace, processVars, file>>
-----------------------------------------------------------------------------
(* run_once *)

IsAt(r, stage) == Up /\ run[r] = stage
Goes(r, stage) == run' = [run EXCEPT ![r] = stage]

(* Every check may refuse the run, which settles it as failed.             *)
Proceeds(r, stage) == Goes(r, stage) \/ Goes(r, "settled")

(* The profile: the one configured, or that of the revision the invocation *)
(* selects.  The connection it is bound to must be the invocation's.       *)
Resolve(r) ==
    /\ IsAt(r, "accepted")
    /\ Proceeds(r, "resolved")
    /\ UNCHANGED <<host, crashes, requestVars, escalated, grace, processVars, file>>

(* The working directory, within the roots that are allowed.               *)
Place(r) ==
    /\ IsAt(r, "resolved")
    /\ Proceeds(r, "placed")
    /\ UNCHANGED <<host, crashes, requestVars, escalated, grace, processVars, file>>

Spawn(r) ==
    /\ IsAt(r, "placed")
    /\ Goes(r, "spawned")
    /\ leader' = [leader EXCEPT ![r] = "alive"]
    /\ UNCHANGED <<host, crashes, requestVars, escalated, grace, group, piped, file>>

SpawnFails(r) ==
    /\ IsAt(r, "placed")
    /\ Goes(r, "settled")
    /\ file' = NoRun
    /\ UNCHANGED <<host, crashes, requestVars, escalated, grace, processVars>>

(* on_spawn: a file that cannot be written goes unnoticed.                 *)
Record(r) ==
    /\ IsAt(r, "spawned")
    /\ Goes(r, "written")
    /\ file' \in {file, r}
    /\ UNCHANGED <<host, crashes, requestVars, escalated, grace, processVars>>

(* The input has been written, or nobody reads it any more.                *)
WriteInput(r) ==
    /\ IsAt(r, "written")
    /\ Goes(r, "supervised")
    /\ UNCHANGED <<host, crashes, requestVars, escalated, grace, processVars, file>>

(* The wall clock, the deadline of the invocation or the shutdown of the   *)
(* host: SIGTERM, which any process of the group may outlive.              *)
Escalate(r) ==
    /\ IsAt(r, "supervised")
    /\ r \notin escalated
    /\ escalated' = escalated \cup {r}
    /\ grace' = grace \cup {r}
    /\ leader' \in {leader, [leader EXCEPT ![r] = "dead"]}
    /\ \/ UNCHANGED <<group, piped>>
       \/ group' = group \ {r} /\ piped' = piped \ {r}
    /\ UNCHANGED <<host, crashes, requestVars, run, file>>

Kill(r) ==
    /\ leader' = [leader EXCEPT ![r] = IF @ = "alive" THEN "dead" ELSE @]
    /\ group' = group \ {r}
    /\ piped' = piped \ {r}

(* Whatever has become of the run by then.                                 *)
GraceEnds(r) ==
    /\ Up
    /\ r \in grace
    /\ grace' = grace \ {r}
    /\ Kill(r)
    /\ UNCHANGED <<host, crashes, requestVars, run, escalated, file>>

(* More output than is allowed.                                            *)
LimitHit(r) ==
    /\ IsAt(r, "supervised")
    /\ Kill(r)
    /\ UNCHANGED <<host, crashes, requestVars, run, escalated, grace, file>>

(* child.wait()                                                            *)
Reap(r) ==
    /\ IsAt(r, "supervised")
    /\ leader[r] = "dead"
    /\ Goes(r, "draining")
    /\ UNCHANGED <<host, crashes, requestVars, escalated, grace, processVars, file>>

(* The output has ended: what is left of the group is killed, the file is  *)
(* removed and the result is known.                                        *)
Settle(r) ==
    /\ IsAt(r, "draining")
    /\ r \notin piped
    /\ Goes(r, "settled")
    /\ Kill(r)
    /\ file' = NoRun
    /\ UNCHANGED <<host, crashes, requestVars, escalated, grace>>

(* deliver_callback: the receiver has answered, or eight attempts failed.  *)
Deliver(r) ==
    /\ IsAt(r, "settled")
    /\ Goes(r, "done")
    /\ UNCHANGED <<host, crashes, requestVars, escalated, grace, processVars, file>>
-----------------------------------------------------------------------------
(* The processes themselves. *)

Fork(r) ==
    /\ leader[r] = "alive"
    /\ group' = group \cup {r}
    /\ piped' \in {piped, piped \cup {r}}
    /\ UNCHANGED <<host, crashes, requestVars, run, escalated, grace, leader, file>>

LeaderExits(r) ==
    /\ leader[r] = "alive"
    /\ leader' = [leader EXCEPT ![r] = "dead"]
    /\ UNCHANGED <<host, crashes, requestVars, run, escalated, grace, group, piped, file>>

DescendantsEnd(r) ==
    /\ r \in group
    /\ group' = group \ {r}
    /\ piped' = piped \ {r}
    /\ UNCHANGED <<host, crashes, requestVars, run, escalated, grace, leader, file>>
-----------------------------------------------------------------------------
(* The end of the host's process: its memory is gone, its children are not.*)
Forgotten ==
    /\ request' = [r \in Requests |-> IF request[r] = "new" THEN "new" ELSE "answered"]
    /\ record' = [i \in InvocationIds |-> NoRun]
    /\ run' = [r \in Requests |-> IF run[r] \notin InMemory THEN run[r]
                                   ELSE IF file = r THEN "orphan" ELSE "lost"]
    /\ escalated' = {}
    /\ grace' = {}

Crash ==
    /\ host # "down"
    /\ crashes < MaxCrashes
    /\ crashes' = crashes + 1
    /\ host' = "down"
    /\ Forgotten
    /\ UNCHANGED <<processVars, file>>

(* An interrupt: nothing is accepted any more.                             *)
Interrupt ==
    /\ Listening
    /\ crashes < MaxCrashes
    /\ crashes' = crashes + 1
    /\ host' = "stopping"
    /\ UNCHANGED <<requestVars, run, escalated, grace, processVars, file>>

(* The server has answered what it was asked.  The runs are not waited     *)
(* for: their tasks are dropped, and each leader that was started with     *)
(* kill_on_drop is killed with them.                                       *)
Exit ==
    /\ host = "stopping"
    /\ \A r \in Requests : request[r] \in {"new", "answered"}
    /\ host' = "down"
    /\ Forgotten
    /\ leader' = [r \in Requests |->
                    IF run[r] \in InMemory /\ leader[r] = "alive" THEN "dead" ELSE leader[r]]
    /\ UNCHANGED <<crashes, group, piped, file>>

Orphaned == Sweeps /\ file # NoRun /\ leader[file] = "alive"

(* terminate_orphan: nothing to end, or a process whose identity cannot be *)
(* verified and that is left alone.                                        *)
Listen ==
    /\ host = "down"
    /\ host' = "up"
    /\ IF Sweeps
       THEN /\ file' = NoRun
            /\ run' = [r \in Requests |-> IF run[r] = "orphan" THEN "lost" ELSE run[r]]
       ELSE UNCHANGED <<file, run>>
    /\ UNCHANGED <<crashes, requestVars, escalated, grace, processVars>>

SignalOrphan ==
    /\ host = "down"
    /\ Orphaned
    /\ host' = "signalled"
    /\ leader' \in {leader, [leader EXCEPT ![file] = "dead"]}
    /\ \/ UNCHANGED <<group, piped>>
       \/ group' = group \ {file} /\ piped' = piped \ {file}
    /\ UNCHANGED <<crashes, requestVars, run, escalated, grace, file>>

(* After the grace the group is killed if its leader still lives.          *)
EndOrphan ==
    /\ host = "signalled"
    /\ IF Orphaned THEN Kill(file) ELSE UNCHANGED processVars
    /\ host' = "up"
    /\ file' = NoRun
    /\ UNCHANGED <<crashes, requestVars, run, escalated, grace>>

Next ==
    \/ \E r \in Requests :
           \/ Check(r) \/ Acquire(r) \/ Accept(r)
           \/ Resolve(r) \/ Place(r) \/ Spawn(r) \/ SpawnFails(r) \/ Record(r) \/ WriteInput(r)
           \/ Escalate(r) \/ GraceEnds(r) \/ LimitHit(r) \/ Reap(r) \/ Settle(r) \/ Deliver(r)
           \/ Fork(r) \/ LeaderExits(r) \/ DescendantsEnd(r)
    \/ Crash \/ Interrupt \/ Exit
    \/ Listen \/ SignalOrphan \/ EndOrphan

Spec == Init /\ [][Next]_vars
-----------------------------------------------------------------------------
(* A run that settled leaves no process, an orphan that still runs is      *)
(* named by the state file, and where there is one permit no run starts    *)
(* beside an orphan the file named.                                        *)
ProcessesAreKept ==
    /\ \A r \in Requests :
           /\ run[r] \in {"settled", "done"} => leader[r] # "alive" /\ r \notin group
           /\ run[r] = "orphan" /\ leader[r] = "alive" => file = r
    /\ Sweeps =>
           \A q, r \in Requests :
               run[q] = "orphan" /\ leader[q] = "alive" => run[r] \notin InMemory
    /\ Cardinality(Holders) <= Permits
=============================================================================
