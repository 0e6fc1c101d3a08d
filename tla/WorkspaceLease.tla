---------------------------- MODULE WorkspaceLease ----------------------------
(***************************************************************************)
(* The execution workspaces of team runs: a command that starts a run      *)
(* reconciles all leases, allocates a lease and its git worktree, and      *)
(* binds the lease to the run it creates; the end of the run preserves the *)
(* lease, a continuation takes it over, and a release removes the tree.    *)
(*                                                                         *)
(* A lease is named by the run it is for: the unique allocation key gives  *)
(* a start command one lease, and a continuation creates its own.  A tree  *)
(* is named by the start command that added it.  Database statements and   *)
(* git calls interleave: reconciliation reads rows in one statement and    *)
(* updates each by its id alone in another.  The saga that authorises a    *)
(* release is the module WorkspaceRelease; here a release is its claim,    *)
(* its git call and its last transaction.                                  *)
(***************************************************************************)
EXTENDS FiniteSets

CONSTANTS
  Starts,    \* the start commands, by idempotency key; each names its run
  Heirs,     \* the runs that continuations create, none of Starts
  Threads,   \* the deliveries of start commands that may be in flight
  Command,   \* the start command of a thread, [Threads -> Starts]
  Isolated,  \* those of the start commands that ask for a git worktree
  NoTree,    \* no worktree: the lease's path is the source itself
  Settings   \* what surrounds the leases, the values of `setting' to choose from

VARIABLES
  setting,  \* what surrounds the leases; it never changes
  lease,    \* the row of workspace_executions of each run
  tree,     \* the worktree of each start command, as git has it
  run,      \* the coordination runs
  heir,     \* the run that continues a run; itself, when none does
  release,  \* the progress of the release that has claimed a lease
  cmd       \* the threads

vars == <<setting, lease, tree, run, heir, release, cmd>>

(* What surrounds the leases: which deliveries arrive, whether             *)
(* allocationInterruptMs passes, and whether runs end and leases move      *)
(* during a reconciliation.                                                *)
Surroundings == [threads : SUBSET Threads, aging : BOOLEAN, overlap : BOOLEAN]

Runs == Starts \cup Heirs

LeaseStates == {"none", "ALLOCATING", "READY", "IN_USE", "PRESERVED",
                "RELEASE_REQUESTED", "TRANSFERRED", "REMOVED", "FAILED"}

(* "wrong": registered, but its HEAD is not the frozen one. *)
TreeStates == {"absent", "wrong", "clean", "dirty"}

Places == {"idle", "interrupted", "unbound", "inUse", "requested", "lookup",
           "waiting", "adding", "ready", "fail", "bind", "failed", "done"}

Idle == [at |-> "idle", rows |-> {}]

NoLease == [state |-> "none", owned |-> FALSE, old |-> FALSE, tree |-> NoTree]

Init ==
  /\ setting \in Settings
  /\ lease = [r \in Runs |-> NoLease]
  /\ tree = [k \in Starts |-> "absent"]
  /\ run = [r \in Runs |-> "none"]
  /\ heir = [r \in Runs |-> r]
  /\ release = [r \in Runs |-> "none"]
  /\ cmd = [t \in Threads |-> Idle]

-----------------------------------------------------------------------------
In(s) == {r \in Runs : lease[r].state = s}

Registered(r) == lease[r].tree # NoTree /\ tree[lease[r].tree] # "absent"

(* Listing the worktrees may fail: that is never evidence of absence. *)
Listings(r) == {"UNKNOWN", IF Registered(r) THEN "REGISTERED" ELSE "ABSENT"}

HeadMatches(r) == tree[lease[r].tree] # "wrong"

(* An update by id, whatever the row says by now. *)
Write(r, s) == lease' = [lease EXCEPT ![r].state = s]

Goes(t, place, rows) == cmd' = [cmd EXCEPT ![t] = [at |-> place, rows |-> rows]]

Without(t, r) == cmd' = [cmd EXCEPT ![t].rows = @ \ {r}]

At(t, place) == cmd[t].at = place

(* Nothing of what the statements of a reconciliation read can move under  *)
(* it, unless the setting lets it.                                         *)
Still ==
  setting.overlap \/ \A t \in Threads :
    cmd[t].at \notin {"interrupted", "unbound", "inUse", "requested"}

-----------------------------------------------------------------------------
(***************************************************************************)
(* Reconciliation, one loop after the other; `rows' is what the loop's     *)
(* query returned.                                                         *)
(***************************************************************************)
Begin(t) ==
  /\ At(t, "idle")
  /\ Goes(t, "interrupted", In("ALLOCATING"))
  /\ UNCHANGED <<lease, tree, run, release, heir>>

(* An interrupted allocation is READY only when git lists its tree with    *)
(* the frozen HEAD.                                                        *)
MutantBelievesUnknown(r, listing) ==
  IF lease[r].tree # NoTree /\ listing # "ABSENT"
  THEN "READY"
  ELSE IF lease[r].old THEN "FAILED" ELSE lease[r].state

Judged(r, listing) ==
  IF lease[r].tree # NoTree /\ listing = "REGISTERED"
  THEN IF HeadMatches(r) THEN "READY" ELSE "FAILED"
  ELSE IF lease[r].old THEN "FAILED" ELSE lease[r].state

JudgeInterrupted(t) ==
  /\ At(t, "interrupted")
  /\ \E r \in cmd[t].rows : \E listing \in Listings(r) :
       /\ Write(r, Judged(r, listing))
       /\ Without(t, r)
  /\ UNCHANGED <<tree, run, release, heir>>

LoadUnbound(t) ==
  /\ At(t, "interrupted")
  /\ cmd[t].rows = {}
  /\ Goes(t, "unbound", {r \in In("READY") : lease[r].old /\ ~lease[r].owned})
  /\ UNCHANGED <<lease, tree, run, release, heir>>

FailUnbound(t) ==
  /\ At(t, "unbound")
  /\ \E r \in cmd[t].rows : Write(r, "FAILED") /\ Without(t, r)
  /\ UNCHANGED <<tree, run, release, heir>>

Held == {r \in In("IN_USE") : lease[r].owned}

LoadInUse(t) ==
  /\ At(t, "unbound")
  /\ cmd[t].rows = {}
  /\ Goes(t, "inUse", Held)
  /\ UNCHANGED <<lease, tree, run, release, heir>>

(* The runs are read after the leases. *)
PreserveEnded(t) ==
  /\ At(t, "inUse")
  /\ \E r \in cmd[t].rows :
       /\ IF run[r] = "ended" THEN Write(r, "PRESERVED") ELSE UNCHANGED lease
       /\ Without(t, r)
  /\ UNCHANGED <<tree, run, release, heir>>

LoadRequested(t) ==
  /\ At(t, "inUse")
  /\ cmd[t].rows = {}
  /\ Goes(t, "requested", In("RELEASE_REQUESTED"))
  /\ UNCHANGED <<lease, tree, run, release, heir>>

(* The last transaction of a release, which the claim still guards. *)
Finalize(r, s) ==
  /\ Write(r, s)
  /\ release' = [release EXCEPT ![r] = "none"]

FinishReleased(t) ==
  /\ At(t, "requested")
  /\ \E r \in cmd[t].rows : \E listing \in Listings(r) :
       /\ IF listing = "ABSENT" /\ release[r] # "none"
          THEN Finalize(r, "REMOVED") ELSE UNCHANGED <<lease, release>>
       /\ Without(t, r)
  /\ UNCHANGED <<tree, run, heir>>

Reconciled(t) ==
  /\ At(t, "requested")
  /\ cmd[t].rows = {}
  /\ Goes(t, "lookup", {})
  /\ UNCHANGED <<lease, tree, run, release, heir>>

-----------------------------------------------------------------------------
(***************************************************************************)
(* Allocation for the command's key.                                       *)
(***************************************************************************)
Insert(k, s, tr) ==
  lease' = [lease EXCEPT ![k] = [state |-> s, owned |-> FALSE, old |-> FALSE,
                                 tree |-> tr]]

Found(t) == lease[Command[t]].state

ReturnExisting(t) ==
  /\ At(t, "lookup")
  /\ Found(t) \in IF Command[t] \in Isolated THEN {"READY", "IN_USE"}
                  ELSE LeaseStates \ {"none"}
  /\ Goes(t, "bind", {})
  /\ UNCHANGED <<lease, tree, run, release, heir>>

AllocateShared(t) ==
  /\ At(t, "lookup")
  /\ Command[t] \notin Isolated
  /\ Found(t) = "none"
  /\ Insert(Command[t], "READY", NoTree)
  /\ Goes(t, "bind", {})
  /\ UNCHANGED <<tree, run, release, heir>>

(* The row is committed before git is called. *)
AllocateIsolated(t) ==
  /\ At(t, "lookup")
  /\ Command[t] \in Isolated
  /\ Found(t) = "none"
  /\ Insert(Command[t], "ALLOCATING", Command[t])
  /\ Goes(t, "adding", {})
  /\ UNCHANGED <<tree, run, release, heir>>

AdoptInterrupted(t) ==
  /\ At(t, "lookup")
  /\ Found(t) = "ALLOCATING"
  /\ Registered(Command[t]) /\ HeadMatches(Command[t])
  /\ Write(Command[t], "READY")
  /\ Goes(t, "bind", {})
  /\ UNCHANGED <<tree, run, release, heir>>

(* Any other row of the key makes the insert fail; the command polls it.   *)
AwaitOther(t) ==
  /\ At(t, "lookup")
  /\ Command[t] \in Isolated
  /\ Found(t) \notin {"none", "READY", "IN_USE"}
  /\ Goes(t, "waiting", {})
  /\ UNCHANGED <<lease, tree, run, release, heir>>

(* Fifty polls; then the insert's error is thrown. *)
Polled(t) ==
  /\ At(t, "waiting")
  /\ IF Found(t) \in {"READY", "IN_USE"} THEN Goes(t, "bind", {})
     ELSE Goes(t, "failed", {})
  /\ UNCHANGED <<lease, tree, run, release, heir>>

(* git worktree add: it may fail and leave nothing, a tree with another    *)
(* HEAD, or - when its result cannot be verified - a good tree.            *)
Add(t) ==
  /\ At(t, "adding")
  /\ \E left \in TreeStates \ {"dirty"} :
       /\ tree' = [tree EXCEPT ![Command[t]] = left]
       /\ \/ left = "clean" /\ Goes(t, "ready", {})
          \/ Goes(t, "fail", {})
  /\ UNCHANGED <<lease, run, release, heir>>

WriteReady(t) ==
  /\ At(t, "ready")
  /\ Write(Command[t], "READY")
  /\ Goes(t, "bind", {})
  /\ UNCHANGED <<tree, run, release, heir>>

WriteFailed(t) ==
  /\ At(t, "fail")
  /\ Write(Command[t], "FAILED")
  /\ Goes(t, "failed", {})
  /\ UNCHANGED <<tree, run, release, heir>>

-----------------------------------------------------------------------------
(***************************************************************************)
(* The authority transaction of the command: a duplicate is answered from  *)
(* the audit row; otherwise the run is created and the lease bound to it.  *)
(***************************************************************************)
Bindable(r) == lease[r].state = "READY" /\ ~lease[r].owned

Bound(r) == [lease EXCEPT ![r].state = "IN_USE", ![r].owned = TRUE]

Bind(t) ==
  LET k == Command[t] IN
  /\ At(t, "bind")
  /\ IF run[k] # "none"
     THEN Goes(t, "done", {}) /\ UNCHANGED <<lease, run, heir>>
     ELSE IF Bindable(k)
     THEN /\ lease' = Bound(k)
          /\ run' = [run EXCEPT ![k] = "live"]
          /\ Goes(t, "done", {})
     ELSE Goes(t, "failed", {}) /\ UNCHANGED <<lease, run, heir>>
  /\ UNCHANGED <<tree, release, heir>>

(* The command is delivered again. *)
Redeliver(t) ==
  /\ cmd[t].at \in {"done", "failed"}
  /\ Goes(t, "idle", {})
  /\ UNCHANGED <<lease, tree, run, release, heir>>

(* The process dies; a git call it had made may have had its effect. *)
Crash(t) ==
  /\ cmd[t].at \notin {"idle", "done", "failed"}
  /\ Goes(t, "idle", {})
  /\ IF At(t, "adding")
     THEN \E left \in TreeStates \ {"dirty"} :
            tree' = [tree EXCEPT ![Command[t]] = left]
     ELSE UNCHANGED tree
  /\ UNCHANGED <<lease, run, release, heir>>

-----------------------------------------------------------------------------
(***************************************************************************)
(* Runs.  Ending preserves the run's IN_USE lease in the same transaction; *)
(* the limit found by a batch ends the run without.                        *)
(***************************************************************************)
Agents(r) ==
  /\ run[r] = "live" /\ Registered(r)
  /\ lease[r].state \in {"READY", "IN_USE"}
  /\ \E s \in {"clean", "dirty"} : tree' = [tree EXCEPT ![lease[r].tree] = s]
  /\ UNCHANGED <<lease, run, release, heir, cmd>>

EndRun(r) ==
  /\ run[r] = "live"
  /\ run' = [run EXCEPT ![r] = "ended"]
  /\ IF lease[r].state = "IN_USE" THEN Write(r, "PRESERVED")
     ELSE UNCHANGED lease
  /\ UNCHANGED <<tree, release, heir, cmd>>

EndRunAtBatchLimit(r) ==
  /\ run[r] = "live"
  /\ run' = [run EXCEPT ![r] = "ended"]
  /\ UNCHANGED <<lease, tree, release, heir, cmd>>

(* A continuation takes the source's lease over; the handoff of the same   *)
(* bundle already recorded is answered with its run.                       *)
Continue(r, h) ==
  /\ run[r] = "ended" /\ run[h] = "none"
  /\ lease[r].owned
  /\ heir[r] = r
  /\ IF lease[r].tree = NoTree
     THEN lease' = [lease EXCEPT ![h] =
                      [lease[r] EXCEPT !.state = "IN_USE", !.old = FALSE]]
     ELSE /\ lease[r].state = "PRESERVED"
          /\ lease' = [lease EXCEPT
                 ![r].state = "TRANSFERRED",
                 ![h] = [lease[r] EXCEPT !.state = "IN_USE", !.old = FALSE]]
  /\ run' = [run EXCEPT ![h] = "live"]
  /\ heir' = [heir EXCEPT ![r] = h]
  /\ UNCHANGED <<tree, release, cmd>>

-----------------------------------------------------------------------------
(***************************************************************************)
(* The release of a lease, by an operation that WorkspaceRelease has       *)
(* authorised.                                                             *)
(***************************************************************************)
Releasable(r) == lease[r].state \in {"PRESERVED", "FAILED"}

Claim(r) ==
  /\ lease[r].tree # NoTree
  /\ Releasable(r)
  /\ release[r] = "none"
  /\ Write(r, "RELEASE_REQUESTED")
  /\ release' = [release EXCEPT ![r] = "claimed"]
  /\ UNCHANGED <<tree, run, cmd, heir>>

(* git worktree remove, without --force: a dirty tree stays. *)
Remove(r) ==
  /\ release[r] = "claimed"
  /\ \/ /\ tree[lease[r].tree] \in {"clean", "wrong"}
        /\ tree' = [tree EXCEPT ![lease[r].tree] = "absent"]
        /\ release' = [release EXCEPT ![r] = "gone"]
     \/ /\ tree[lease[r].tree] = "absent"
        /\ release' = [release EXCEPT ![r] = "gone"]
        /\ UNCHANGED tree
     \/ /\ release' = [release EXCEPT ![r] = "kept"]
        /\ UNCHANGED tree
  /\ UNCHANGED <<lease, run, cmd, heir>>

FinishRelease(r) ==
  /\ release[r] \in {"gone", "kept"}
  /\ Finalize(r, IF release[r] = "gone" THEN "REMOVED" ELSE "PRESERVED")
  /\ UNCHANGED <<tree, run, cmd, heir>>

(* allocationInterruptMs passes since a row was created.                   *)
Age(r) ==
  /\ lease[r].state \in {"ALLOCATING", "READY"} /\ ~lease[r].old
  /\ setting.aging
  /\ lease' = [lease EXCEPT ![r].old = TRUE]
  /\ UNCHANGED <<tree, run, release, heir, cmd>>

-----------------------------------------------------------------------------
Reconcile(t) ==
  \/ Begin(t) \/ JudgeInterrupted(t) \/ LoadUnbound(t) \/ FailUnbound(t)
  \/ LoadInUse(t) \/ PreserveEnded(t) \/ LoadRequested(t)
  \/ FinishReleased(t) \/ Reconciled(t)

Allocate(t) ==
  \/ ReturnExisting(t) \/ AllocateShared(t) \/ AllocateIsolated(t)
  \/ AdoptInterrupted(t) \/ AwaitOther(t) \/ Polled(t) \/ Add(t)
  \/ WriteReady(t) \/ WriteFailed(t)

Thread(t) ==
  Reconcile(t) \/ Allocate(t) \/ Bind(t) \/ Redeliver(t) \/ Crash(t)

Owner(r) ==
  \/ Agents(r) \/ EndRun(r) \/ EndRunAtBatchLimit(r)
  \/ \E h \in Heirs : Continue(r, h)

Operator(r) == Claim(r) \/ Remove(r) \/ FinishRelease(r)

Next ==
  /\ \/ \E t \in setting.threads : Thread(t)
     \/ \E r \in Runs : (Still /\ Owner(r)) \/ (Still /\ Operator(r)) \/ Age(r)
  /\ UNCHANGED setting

Spec == Init /\ [][Next]_vars

-----------------------------------------------------------------------------
TypeOK ==
  /\ setting \in Surroundings
  /\ lease \in [Runs -> [state : LeaseStates, owned : BOOLEAN, old : BOOLEAN,
                         tree : Starts \cup {NoTree}]]
  /\ tree \in [Starts -> TreeStates]
  /\ run \in [Runs -> {"none", "live", "ended"}]
  /\ heir \in [Runs -> Runs]
  /\ release \in [Runs -> {"none", "claimed", "gone", "kept"}]
  /\ cmd \in [Threads -> [at : Places, rows : SUBSET Runs]]

(* One delivery, or deliveries of different commands and no allocation     *)
(* that is given up, while what a reconciliation reads cannot move.        *)
Alone == \A s, t \in setting.threads : s = t
Apart == \A s, t \in setting.threads : Command[s] = Command[t] => s = t
Orderly == ~setting.overlap /\ Apart /\ (setting.aging => Alone)

Live(r) == run[r] = "live"

(* The lease of a live run is one whose identity its invocations carry:    *)
(* READY or IN_USE.  Without it the run's agents are started with no       *)
(* execution workspace.                                                    *)
LiveRunHasWorkspace == \A r \in Runs : Live(r) => lease[r].state \in {"READY", "IN_USE"}

(* The worktree of a live run is registered with its frozen HEAD as long   *)
(* as the run lives: no allocation is falsely READY, and no release of     *)
(* another lease takes the tree away.                                      *)
UsedTreeIsThere ==
  \A r \in Runs : Live(r) /\ lease[r].tree # NoTree =>
    tree[lease[r].tree] \in {"clean", "dirty"}

(* Whatever crashes: a tree that git has registered is named by a lease    *)
(* that still has it - the row is committed before git is called, REMOVED  *)
(* is written only when the tree is gone, and who takes a lease over takes *)
(* the tree over.                                                          *)
TreesAreOnRecord ==
  \A k \in Starts : tree[k] # "absent" =>
    \E r \in Runs : lease[r].tree = k /\ lease[r].state \notin {"TRANSFERRED", "REMOVED"}

(* The lease of an ended run can be preserved, taken over or released; it  *)
(* is not left READY, where nothing looks for it.                          *)
EndedRunsGiveUp == \A r \in Runs : run[r] = "ended" => lease[r].state # "READY"

(* A start command that is delivered again after it has created its run    *)
(* is answered with that run.                                              *)
DuplicatesAreAnswered ==
  \A t \in Threads : At(t, "failed") => run[Command[t]] = "none"

(* A lease that has been taken over stays so: its tree belongs to the heir.*)
TakenOverStays ==
  [][\A r \in Runs : lease[r].state = "TRANSFERRED" =>
                       lease'[r].state = "TRANSFERRED"]_vars
===============================================================================
