------------------------------ MODULE Workspaces ------------------------------
(***************************************************************************)
(* What surrounds the workspace of a run: the saga that releases it, whose *)
(* state is that of WorkspaceRelease; the coordination loop of the team    *)
(* that works in it, which preserves the workspace when it ends; and the   *)
(* leases of all runs, with the commands that allocate them.  The three    *)
(* have no variable in common.                                             *)
(***************************************************************************)
EXTENDS WorkspaceRelease, Sequences

CONSTANTS
    Tasks, Batches, Slips, Decisions,                           \* of Coordination
    MaxIterations, MaxWorkersPerIteration, MaxTotalWorkers, MaxRevisions,
    Passes, Effects, Troubles,
    Starts, Heirs, Threads, Command, Isolated, NoTree, LeaseSettings   \* of WorkspaceLease

VARIABLES
    run, execution, loopLease, iteration, proposals, step, trouble, teamPass,
    leaseSetting, wsLease, wsTree, wsRun, heir, release, cmd

teamVars == <<run, execution, loopLease, iteration, proposals, step, trouble, teamPass>>

Team == INSTANCE Coordination WITH
    Actions <- Decisions, lease <- loopLease, pass <- teamPass

leaseVars == <<leaseSetting, wsLease, wsTree, wsRun, heir, release, cmd>>

Leases == INSTANCE WorkspaceLease WITH
    Settings <- LeaseSettings, setting <- leaseSetting, lease <- wsLease, tree <- wsTree,
    run <- wsRun
-----------------------------------------------------------------------------
(* The properties of Coordination: what an iteration is planned on and     *)
(* decided from, and how a run ends.                                       *)
LoopIsSound ==
    Team!BatchWasPlannedOnItsBase /\ Team!IterationsAreSound /\ Team!EndsAreSound

(* An ended run stays as it ended, and what a decision consumed stays      *)
(* consumed.                                                               *)
EndedStaysEnded == Team!EndedStaysEnded

(* The properties of WorkspaceLease, in the settings they are about: a run *)
(* that lives has its workspace, its tree is there, no tree is forgotten,  *)
(* and with one delivery at a time a run that ended gives its lease up.    *)
RunsHoldWorkspaces ==
    Leases!Orderly =>
        /\ Leases!LiveRunHasWorkspace
        /\ Leases!UsedTreeIsThere
        /\ Leases!TreesAreOnRecord
        /\ Leases!Alone => Leases!EndedRunsGiveUp
=============================================================================
