------------------------------- MODULE Programs -------------------------------
(***************************************************************************)
(* The programs that run beside the orchestrator, put together: a worker   *)
(* of either SDK, either local executor host with agents of its own, and   *)
(* the recovery from a backup.  They have no variable in common: each      *)
(* promises what it promises whatever the others do.                       *)
(***************************************************************************)
EXTENDS WorkerRuntime

CONSTANTS
    Agents, HostRuns, AgentOf,                          \* of LocalExecutorHost
    Requests, InvocationOf, Permits, MaxCrashes,        \* of NativeExecutorHost
    Operators, MaxRestores, FailedNames, MaxLosses,     \* of AuthoritySwap
    ManualAfter,
    PyConnections, PyRuns, EventRuns, EventAttempts     \* of PythonWorker

VARIABLES
    started, orphan, run, leader, group, term, file,    \* of LocalExecutorHost
    stranger,
    daemon, deaths, posted, noted, work, escalated,     \* of NativeExecutorHost
    grace, head, kin, piped, kept,
    db, journal, services, lock, op, authority,         \* of AuthoritySwap
    restored, losses, told,
    pyEnabled, pyLifecycle, pyPhase, pyReading,         \* of PythonWorker
    pyRecord, pyAsked, pyState, pyElapsed, pyQueue,
    pyActive, pyAccepting, pyHandler, pyDelivery,
    pyAttempt, pyReady, pyGathered, pyForced
-----------------------------------------------------------------------------
(* Each agent has a worker of its own, which runs one invocation at a time.*)
Host == INSTANCE LocalExecutorHost WITH
    Runs <- HostRuns, Bridge <- FALSE, Concurrency <- 1, sweep <- orphan

Native == INSTANCE NativeExecutorHost WITH
    Sweeps <- TRUE, host <- daemon, crashes <- deaths, request <- posted, record <- noted,
    run <- work, leader <- head, group <- kin, file <- kept

Swap == INSTANCE AuthoritySwap

(* A worker of the Python SDK, with the limits of the other.               *)
Python == INSTANCE PythonWorker WITH
    Connections <- PyConnections, Runs <- PyRuns, enabled <- pyEnabled,
    lifecycle <- pyLifecycle, phase <- pyPhase, reading <- pyReading, record <- pyRecord,
    asked <- pyAsked, state <- pyState, elapsed <- pyElapsed, queue <- pyQueue,
    active <- pyActive, accepting <- pyAccepting, handler <- pyHandler, delivery <- pyDelivery,
    attempt <- pyAttempt, ready <- pyReady, gathered <- pyGathered, forced <- pyForced

hostVars == <<started, orphan, run, leader, group, term, file, stranger>>
nativeVars == <<daemon, deaths, posted, noted, work, escalated, grace, head, kin, piped, kept>>
swapVars == <<db, journal, services, lock, op, authority, restored, losses, told>>
pythonVars == <<pyEnabled, pyLifecycle, pyPhase, pyReading, pyRecord, pyAsked, pyState,
                pyElapsed, pyQueue, pyActive, pyAccepting, pyHandler, pyDelivery, pyAttempt,
                pyReady, pyGathered, pyForced>>
-----------------------------------------------------------------------------
(* Both executor hosts: every process that was recorded is found after a   *)
(* crash, and a settled run leaves none.                                   *)
ProcessesAreAccountedFor == Host!ProcessesAreAccountedFor /\ Native!ProcessesAreKept

(* A restore loses no authority, and serves from none that is on trial.    *)
RestoresAreSafe == Swap!RestoresAreSafe

(* The Python worker: a run whose result is owed is remembered and has     *)
(* somebody who will deliver it, and stop() leaves nothing behind.         *)
PythonRunsAreKept == Python!RunsAreKept /\ Python!StopLeavesNothing
=============================================================================
