------------------------------ MODULE MCProgress ------------------------------
(***************************************************************************)
(* What must eventually happen in the parts that the control plane's own   *)
(* liveness run does not cover: the shutdown of a worker, the coordination *)
(* loop and the cascade of a cancellation to delegated executions.  The    *)
(* parts have no variable in common: the initial state chooses the one     *)
(* that acts, under its own fairness, and the others stay in their initial *)
(* states.                                                                 *)
(***************************************************************************)
EXTENDS Integers, Sequences, FiniteSets

VARIABLES
    part,                                               \* the part that acts
    lifecycle, phase, reading, record, asked, state, elapsed, queue, active, accepting,
    drainScheduled, owner, attempt, aborted,
    run, execution, lease, iteration, proposals, step, trouble, pass,
    now, executions, authority, grant, delegate, delegation, created, tick

workerVars == <<lifecycle, phase, reading, record, asked, state, elapsed, queue, active,
                accepting, drainScheduled, owner, attempt, aborted>>
teamVars == <<run, execution, lease, iteration, proposals, step, trouble, pass>>
cascadeVars == <<now, executions, authority, grant, delegate, delegation, created, tick>>
allVars == <<part, workerVars, teamVars, cascadeVars>>
-----------------------------------------------------------------------------
(* A worker with one slot, one place in the queue and one request at a     *)
(* time, whose callbacks are tried twice.                                  *)
Host == INSTANCE WorkerRuntime WITH
    Invocations <- {"i1", "i2"}, Connections <- {"c1"}, Runs <- {"r1", "r2"},
    NoRun <- "no run", NoRequest <- "no request",
    Concurrency <- 1, MaxQueuedRuns <- 1, MaxEntries <- 2, MaxAttempts <- 2

(* A loop of two iterations with a worker that is retried, an approval     *)
(* that may be asked for, and a deadline.                                  *)
Team == INSTANCE Coordination WITH
    Tasks <- {"a"}, Batches <- {<<[task |-> "a", required |-> TRUE, retries |-> 1]>>},
    Slips <- {[iteration |-> 0, base |-> 0]},
    Actions <- {"ACCEPT", "CONTINUE", "WAIT_FOR_HUMAN"},
    MaxIterations <- 2, MaxWorkersPerIteration <- 1, MaxTotalWorkers <- 2,
    MaxRevisions <- 3, Passes <- {"p1"},
    Effects <- {"ALLOW", "DENY", "REQUIRE_APPROVAL"}, Troubles <- {"late"}

(* Two orphans, or an orphan and its own child, for a tick that takes one. *)
Cascade == INSTANCE Delegation WITH
    Root <- "root", Requests <- {"d1", "d2"}, Ordinals <- {1}, MaxDepth <- 3,
    RunDepth <- 2, MaxPerAttempt <- 2, Grants <- {}, MaxTime <- 0,
    Replicas <- {"p1"}, SweepLimit <- 1,
    status <- executions, attempt <- delegate, request <- delegation, sweep <- tick
-----------------------------------------------------------------------------
MCInit ==
    /\ part \in {"worker", "team", "cascade"}
    /\ Host!Init
    /\ Team!Init
    /\ Cascade!Init

WorkerActs(A) ==
    part = "worker" /\ A /\ UNCHANGED <<part, teamVars, cascadeVars>>
TeamActs(A) ==
    part = "team" /\ A /\ UNCHANGED <<part, workerVars, cascadeVars>>
CascadeActs(A) ==
    part = "cascade" /\ A /\ UNCHANGED <<part, workerVars, teamVars>>

MCNext ==
    \/ WorkerActs(Host!Next)
    \/ TeamActs(Team!Next)
    \/ CascadeActs(Cascade!Next)

(* The fairness of each part, as its module states and justifies it.       *)
WorkerFairness ==
    /\ WF_allVars(WorkerActs(Host!Drain))
    /\ WF_allVars(WorkerActs(Host!BindSucceeds \/ Host!BindFails))
    /\ WF_allVars(WorkerActs(Host!DrainSettles))
    /\ WF_allVars(WorkerActs(Host!GraceEnds))
    /\ WF_allVars(WorkerActs(Host!Stopped))
    /\ \A r \in {"r1", "r2"} :
           /\ WF_allVars(WorkerActs(Host!RunFinishes(r)))
           /\ WF_allVars(WorkerActs(\/ Host!CallbackDelivered(r) \/ Host!CallbackRetried(r)
                                    \/ Host!CallbackFails(r) \/ Host!CallbackAborted(r)))
           /\ WF_allVars(WorkerActs(Host!HookAbandoned(r)))

TeamFairness ==
    /\ WF_allVars(TeamActs(Team!Act("p1")))
    /\ \A s \in Team!Steps :
           /\ WF_allVars(TeamActs(Team!Claim(s)))
           /\ WF_allVars(TeamActs(Team!StepSucceeds(s) \/ Team!StepFails(s)))
    /\ WF_allVars(TeamActs(Team!Complete))
    /\ WF_allVars(TeamActs(Team!Trouble("late")))

CascadeFairness ==
    /\ WF_allVars(CascadeActs(Cascade!ExpireDue("p1")))
    /\ SF_allVars(CascadeActs(Cascade!Scan("p1")))
    /\ WF_allVars(CascadeActs(Cascade!EndTick("p1")))
    /\ \A r \in {"d1", "d2"} : SF_allVars(CascadeActs(Cascade!CancelOrphan("p1", r)))

MCSpec ==
    /\ MCInit
    /\ [][MCNext]_allVars
    /\ WorkerFairness
    /\ TeamFairness
    /\ CascadeFairness
-----------------------------------------------------------------------------
(* Each is stated, and explained, in the module of its part.               *)

(* A stop ends, and so does everything that was accepted.                  *)
ShutdownEnds == Host!StopCompletes /\ Host!AcceptedAreSettled
LoopEnds == part = "team" => Team!LoopEnds
OrphansEnd == Cascade!OrphansEnd
=============================================================================
