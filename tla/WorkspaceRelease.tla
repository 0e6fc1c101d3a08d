--------------------------- MODULE WorkspaceRelease ---------------------------
(***************************************************************************)
(* The saga that releases one execution workspace.  An operator's command, *)
(* named by its idempotency key, is recorded as an operator action before  *)
(* anything happens; a caller claims the action with a fresh token, claims *)
(* the lease for it, lets git remove the worktree and records lease, lock  *)
(* and action in one last transaction.  The process may die anywhere, the  *)
(* last transaction may fail, callers repeat their key or bring another,   *)
(* and whoever finds a claim that its holder has left drives it to its end.*)
(*                                                                         *)
(* Meanwhile start commands reconcile: they preserve the lease of a run    *)
(* that has ended, give a claimed lease back whose action is over, and     *)
(* settle actions by the lease they find.  Every step is one statement,    *)
(* transaction or git call.  What a caller learns from its survey, and     *)
(* what a reconciliation has read, is acted on later.                      *)
(***************************************************************************)
EXTENDS Integers, FiniteSets

CONSTANTS
  Ops,        \* the operator actions, by idempotency key
  Callers,    \* the requests that may be in flight
  Processes,  \* the orchestrator processes
  ProcessOf,  \* the process that serves a caller
  Scans,      \* the reconciliations that may be under way
  Settings    \* the surroundings in which the lease may be released

(* Which keys callers bring, whether the run of the lease had ended        *)
(* before, whether start commands run reconciliations meanwhile, whether   *)
(* others can read a claim before its holder knows of it, whether the last *)
(* transaction may fail, how often a process dies.                         *)
ASSUME ProcessAssumption == ProcessOf \in [Callers -> Processes]
ASSUME SettingAssumption ==
  Settings \subseteq [keys : SUBSET Ops, ended : BOOLEAN, passing : BOOLEAN,
                     gap : BOOLEAN, failing : BOOLEAN, crashes : Nat]

VARIABLES
  setting,  \* the one of this release; it never changes
  lease,    \* the row of the workspace: state, releaseOperationId, failureCode
  lock,     \* the action of the row in workspace_release_locks
  tree,     \* the worktree
  action,   \* the outcome of each operator action
  active,   \* the tokens each process knows to be in use
  caller,   \* the callers
  pass,     \* what each reconciliation has read and is about to write
  crashes   \* how often each process has died

vars == <<setting, lease, lock, tree, action, active, caller, pass, crashes>>

Ended == setting.ended
Passing == setting.passing
Gap == setting.gap
Failing == setting.failing
MaxCrashes == setting.crashes

NoOp == "none"
NoToken == 0

LeaseStates == {"IN_USE", "PRESERVED", "FAILED", "TRANSFERRED",
                "RELEASE_REQUESTED", "REMOVED"}

(* Pending: REQUESTED and EXECUTING; the rest is final.                    *)
Pending == {"REQUESTED", "EXECUTING"}
Final == {"REMOVED", "REFUSED", "INTERRUPTED", "IN_PROGRESS"}

NoAction == [phase |-> "none", pid |-> <<>>, token |-> NoToken, recoverable |-> FALSE]

Requested == [NoAction EXCEPT !.phase = "REQUESTED"]

Settled(result) == [NoAction EXCEPT !.phase = result]

Idle == [at |-> "idle", op |-> NoOp, drives |-> NoOp, seen |-> NoAction,
         token |-> NoToken, result |-> "none"]

NoPass == [at |-> "idle", op |-> NoOp, verdict |-> "none"]

(* A process identity is new after every crash.                            *)
Pid(c) == crashes[ProcessOf[c]] + 1

Init ==
  /\ setting \in Settings
  /\ lease \in {[state |-> s, op |-> NoOp, failed |-> FALSE] :
                  s \in IF Ended THEN {"PRESERVED", "FAILED"} ELSE {"IN_USE"}}
  /\ lock = NoOp
  /\ tree \in {"absent", "there"}
  /\ action = [o \in Ops |-> NoAction]
  /\ active = [p \in Processes |-> {}]
  /\ caller = [c \in Callers |-> Idle]
  /\ pass = [t \in Scans |-> NoPass]
  /\ crashes = [p \in Processes |-> 0]

-----------------------------------------------------------------------------
At(c, place) == caller[c].at = place

Goes(c, place) == caller' = [caller EXCEPT ![c].at = place]

IsPending(o) == o # NoOp /\ action[o].phase \in Pending

(* Identities of different processes differ.                               *)
Mine(c, a) == a.pid = <<ProcessOf[c], Pid(c)>>

Active(c, token) == token \in active[ProcessOf[c]]

Answer(c) == caller' = [caller EXCEPT ![c] = Idle]

Record(o, result) == action' = [action EXCEPT ![o] = Settled(result)]

Listings == {"UNKNOWN", IF tree = "absent" THEN "ABSENT" ELSE "REGISTERED"}

-----------------------------------------------------------------------------
(***************************************************************************)
(* The intent is committed first.  A final outcome answers the caller,     *)
(* except that an interrupted action starts over.                          *)
(***************************************************************************)
Intent(c, o) ==
  /\ At(c, "idle")
  /\ action[o].phase \in {"none", "INTERRUPTED"} \cup Pending
  /\ action' = [action EXCEPT ![o] = IF @.phase \in Pending THEN @ ELSE Requested]
  /\ caller' = [caller EXCEPT ![c] = [Idle EXCEPT !.at = "survey", !.op = o,
                                                  !.seen = action'[o]]]
  /\ UNCHANGED <<lease, lock, tree, active, pass, crashes>>

(* Claims of others that their holder has left.                            *)
Left(c, o) ==
  LET a == action[o] IN
  \/ a.phase = "EXECUTING" /\ ~Mine(c, a)
  \/ a.phase = "EXECUTING" /\ Mine(c, a) /\ ~Active(c, a.token)
  \/ a.phase = "REQUESTED" /\ a.recoverable

Others(c) == {o \in Ops \ {caller[c].op} : IsPending(o)}

(* What the caller does about the other pending actions: one that owns the *)
(* lease or is stale or only requested is driven to its end, one whose     *)
(* holder works makes the caller's action IN_PROGRESS.                     *)
SurveyRemoved(c) ==
  /\ At(c, "survey")
  /\ lease.state = "REMOVED"
  /\ action' = [o \in Ops |-> IF o \in Others(c) \cup {caller[c].op}
                              THEN Settled("REMOVED") ELSE action[o]]
  /\ Answer(c)
  /\ UNCHANGED <<lease, lock, tree, active, pass, crashes>>

OwnedByOther(c) ==
  lease.state = "RELEASE_REQUESTED" /\ lease.op \notin {NoOp, caller[c].op}

Working(c) == {o \in Others(c) : action[o].phase = "EXECUTING" /\ ~Left(c, o)}

Drivable(c) ==
  IF OwnedByOther(c) THEN {lease.op} \cap {o \in Others(c) : Left(c, o)}
  ELSE IF Working(c) # {} THEN {}
  ELSE LET stale == {o \in Others(c) : action[o].phase = "EXECUTING"
                                       /\ ~Mine(c, action[o])}
           waiting == {o \in Others(c) : action[o].phase = "REQUESTED"
                         /\ lease.state \in {"PRESERVED", "FAILED",
                                             "RELEASE_REQUESTED"}}
       IN IF stale # {} THEN stale ELSE waiting

SurveyRecover(c) ==
  /\ At(c, "survey")
  /\ lease.state # "REMOVED"
  /\ \E o \in Drivable(c) :
       caller' = [caller EXCEPT ![c].at = "recover", ![c].drives = o]
  /\ UNCHANGED <<lease, lock, tree, action, active, pass, crashes>>

SurveyBusy(c) ==
  /\ At(c, "survey")
  /\ lease.state # "REMOVED"
  /\ Drivable(c) = {}
  /\ OwnedByOther(c) \/ Working(c) # {}
  /\ Record(caller[c].op, "IN_PROGRESS")
  /\ Answer(c)
  /\ UNCHANGED <<lease, lock, tree, active, pass, crashes>>

SurveyFree(c) ==
  /\ At(c, "survey")
  /\ lease.state # "REMOVED"
  /\ Drivable(c) = {} /\ ~OwnedByOther(c) /\ Working(c) = {}
  /\ caller' = [caller EXCEPT ![c].at = "claim", ![c].drives = caller[c].op]
  /\ UNCHANGED <<lease, lock, tree, action, active, pass, crashes>>

-----------------------------------------------------------------------------
(***************************************************************************)
(* The claim: a compare-and-set of the action the caller has seen.         *)
(***************************************************************************)
Claimable(c, seen) ==
  \/ seen.phase = "REQUESTED"
  \/ seen.phase = "EXECUTING" /\ ~(Mine(c, seen) /\ Active(c, seen.token))

MutantPhaseOnly(o, seen) == action[o].phase = seen.phase

(* The row still is what the caller has seen.                              *)
Unchanged(o, seen) ==
  /\ action[o].phase = seen.phase
  /\ seen.phase = "EXECUTING" => action[o].token = seen.token

(* A token that nobody has: randomUUID().                                  *)
Tokens == 1..(Cardinality(Ops) + 3 * Cardinality(Callers) + 1)

Unused ==
  {n \in Tokens :
    /\ \A o \in Ops : action[o].token # n
    /\ \A c \in Callers : n \notin {caller[c].token, caller[c].seen.token}
    /\ \A p \in Processes : n \notin active[p]}

Fresh == CHOOSE n \in Unused : TRUE

Claim(c) ==
  LET o == caller[c].drives IN
  /\ At(c, "claim")
  /\ Claimable(c, caller[c].seen) /\ Unchanged(o, caller[c].seen)
  /\ Unused # {}
  /\ action' = [action EXCEPT ![o] =
       [phase |-> "EXECUTING", pid |-> <<ProcessOf[c], Pid(c)>>,
        token |-> Fresh, recoverable |-> FALSE]]
  /\ caller' = [caller EXCEPT ![c].at = "claimed", ![c].token = Fresh,
                                  ![c].seen = NoAction]
  /\ active' = IF Gap THEN active
               ELSE [active EXCEPT ![ProcessOf[c]] = @ \cup {Fresh}]
  /\ UNCHANGED <<lease, lock, tree, pass, crashes>>

(* Its holder waits for whoever has the claim, and tells what it sees.     *)
NotClaimed(c) ==
  /\ At(c, "claim")
  /\ \/ ~Claimable(c, caller[c].seen)
     \/ ~Unchanged(caller[c].drives, caller[c].seen)
  /\ IF caller[c].drives = caller[c].op THEN Answer(c) ELSE Goes(c, "observe")
  /\ UNCHANGED <<lease, lock, tree, action, active, pass, crashes>>

Register(c) ==
  /\ At(c, "claimed")
  /\ active' = [active EXCEPT ![ProcessOf[c]] = @ \cup {caller[c].token}]
  /\ Goes(c, IF caller[c].drives = caller[c].op THEN "start" ELSE "reobserve")
  /\ UNCHANGED <<lease, lock, tree, action, pass, crashes>>

-----------------------------------------------------------------------------
(***************************************************************************)
(* Driving another's action: read it, finish it if git has already done    *)
(* the work, else claim it.                                                *)
(***************************************************************************)
Recover(c) ==
  LET o == caller[c].drives
      a == action[o] IN
  /\ At(c, "recover")
  /\ IF a.phase \notin Pending THEN Goes(c, "observe")
     ELSE IF a.recoverable /\ Mine(c, a) /\ tree = "absent"
             /\ lease.state = "RELEASE_REQUESTED"
     THEN caller' = [caller EXCEPT ![c].at = "direct", ![c].seen = a,
                       ![c].token = a.token, ![c].result = "REMOVED"]
     ELSE caller' = [caller EXCEPT ![c].at = "claim", ![c].seen = a]
  /\ UNCHANGED <<lease, lock, tree, action, active, pass, crashes>>

Reobserve(c) ==
  /\ At(c, "reobserve")
  /\ \E listing \in Listings :
       IF lease.state = "REMOVED" \/ listing = "ABSENT"
       THEN caller' = [caller EXCEPT ![c].at = "persist", ![c].result = "REMOVED"]
       ELSE Goes(c, "start")
  /\ UNCHANGED <<lease, lock, tree, action, active, pass, crashes>>

-----------------------------------------------------------------------------
(***************************************************************************)
(* The release under the claim.                                            *)
(***************************************************************************)
HasClaim(c) ==
  LET a == action[caller[c].drives] IN
  a.phase = "EXECUTING" /\ Mine(c, a) /\ a.token = caller[c].token

Fails(c, result) ==
  caller' = [caller EXCEPT ![c].at = "caught", ![c].result = result]

(* The lease is claimed for the action: lease and lock in one transaction. *)
Acquirable(o) ==
  /\ lease.state \in {"PRESERVED", "FAILED"}
  /\ ~IsPending(lease.op) /\ ~IsPending(lock)

ClaimedBy(o) == [state |-> "RELEASE_REQUESTED", op |-> o, failed |-> FALSE]

Start(c) ==
  LET o == caller[c].drives IN
  /\ At(c, "start")
  /\ IF ~HasClaim(c) THEN Fails(c, "unauthorized") /\ UNCHANGED <<lease, lock>>
     ELSE IF lease.state = "RELEASE_REQUESTED" /\ lease.op = o
     THEN Goes(c, "authority") /\ UNCHANGED <<lease, lock>>
     ELSE IF Acquirable(o)
     THEN /\ lease' = ClaimedBy(o)
          /\ lock' = o
          /\ Goes(c, "authority")
     ELSE /\ Fails(c, IF lease.state \in {"IN_USE", "TRANSFERRED"}
                      THEN "not releasable" ELSE "unauthorized")
          /\ UNCHANGED <<lease, lock>>
  /\ UNCHANGED <<tree, action, active, pass, crashes>>

Authority(c) ==
  /\ At(c, "authority")
  /\ IF HasClaim(c) THEN Goes(c, "git")
     ELSE caller' = [caller EXCEPT ![c].at = "persist", ![c].result = "REFUSED"]
  /\ UNCHANGED <<lease, lock, tree, action, active, pass, crashes>>

Persists(c, result) ==
  caller' = [caller EXCEPT ![c].at = "persist", ![c].result = result]

(* git worktree list, then git worktree remove without --force.            *)
Git(c) ==
  /\ At(c, "git")
  /\ \/ tree = "absent" /\ Persists(c, "REMOVED") /\ UNCHANGED tree
     \/ tree = "there" /\ tree' = "absent" /\ Persists(c, "REMOVED")
     \/ Persists(c, "REFUSED") /\ UNCHANGED tree
  /\ UNCHANGED <<lease, lock, action, active, pass, crashes>>

(* The last transaction.                                                   *)
Persistable(c) ==
  LET o == caller[c].drives
      a == action[o] IN
  /\ lease.op = o /\ lock \in {NoOp, o}
  /\ a.phase \in Pending
  /\ a.phase = "EXECUTING" => Mine(c, a) /\ a.token = caller[c].token

Unlocked == NoOp

LeaseAfter(result) ==
  [state |-> IF result = "REMOVED" THEN "REMOVED" ELSE "PRESERVED",
   op |-> NoOp, failed |-> result # "REMOVED"]

Persist(c) ==
  /\ At(c, "persist")
  /\ Persistable(c)
  /\ lease' = LeaseAfter(caller[c].result)
  /\ lock' = Unlocked
  /\ Record(caller[c].drives, caller[c].result)
  /\ Goes(c, "finally")
  /\ UNCHANGED <<tree, active, pass, crashes>>

(* Without a claim: the action is REQUESTED, so no token is compared.      *)
DirectPersist(c) ==
  /\ At(c, "direct")
  /\ \/ /\ Persistable(c)
        /\ lease' = LeaseAfter("REMOVED")
        /\ lock' = Unlocked
        /\ Record(caller[c].drives, "REMOVED")
        /\ Goes(c, "observe")
     \/ /\ Failing \/ ~Persistable(c)
        /\ Goes(c, "claim")
        /\ UNCHANGED <<lease, lock, action>>
  /\ UNCHANGED <<tree, active, pass, crashes>>

(* Refused by its own checks, or failed by the database.                   *)
PersistFails(c) ==
  /\ At(c, "persist")
  /\ \/ ~Persistable(c) /\ Fails(c, "unauthorized")
     \/ Failing /\ Fails(c, "database")
  /\ UNCHANGED <<lease, lock, tree, action, active, pass, crashes>>

-----------------------------------------------------------------------------
(***************************************************************************)
(* After an error.  The caller of its own action tells apart what failed;  *)
(* then, whoever it is, it forgets its token and leaves the action as one  *)
(* to be recovered if it still owns the lease.                             *)
(***************************************************************************)
StillOwns(o) == lease.op = o /\ lock = o /\ IsPending(o)

MutantInterrupts(o) == Settled("INTERRUPTED")
Abandoned(o) == [action[o] EXCEPT !.phase = "REQUESTED", !.recoverable = TRUE]

Truth(o) ==
  IF lease.state = "REMOVED" THEN "REMOVED"
  ELSE IF lease.state = "PRESERVED" /\ lease.failed THEN "REFUSED"
  ELSE IF action[o].phase \in {"REMOVED", "REFUSED", "INTERRUPTED"}
  THEN action[o].phase
  ELSE "none"

Caught(c) ==
  LET o == caller[c].drives IN
  /\ At(c, "caught")
  /\ action' =
       IF o # caller[c].op THEN action
       ELSE IF caller[c].result = "not releasable"
       THEN [action EXCEPT ![o] = Settled("REFUSED")]
       ELSE IF caller[c].result = "unauthorized" THEN action
       ELSE IF StillOwns(o)
       THEN IF action[o].phase = "EXECUTING"
            THEN [action EXCEPT ![o] = Abandoned(o)] ELSE action
       ELSE IF lease.state \in {"REMOVED", "PRESERVED"} /\ Truth(o) # "none"
       THEN [action EXCEPT ![o] = Settled(Truth(o))]
       ELSE [action EXCEPT ![o] = Settled("INTERRUPTED")]
  /\ Goes(c, "finally")
  /\ UNCHANGED <<lease, lock, tree, active, pass, crashes>>

Finally(c) ==
  /\ At(c, "finally")
  /\ active' = [active EXCEPT ![ProcessOf[c]] = @ \ {caller[c].token}]
  /\ Goes(c, "leave")
  /\ UNCHANGED <<lease, lock, tree, action, pass, crashes>>

(* Only the driver of another's action looks at the token.                 *)
Leave(c) ==
  LET o == caller[c].drives
      own == o = caller[c].op IN
  /\ At(c, "leave")
  /\ action' =
       IF StillOwns(o) /\ action[o].phase = "EXECUTING"
          /\ (own \/ HasClaim(c))
       THEN [action EXCEPT ![o] = Abandoned(o)] ELSE action
  /\ caller' = [caller EXCEPT ![c] =
       IF own THEN Idle
       ELSE [@ EXCEPT !.at = "observe", !.token = NoToken, !.result = "none"]]
  /\ UNCHANGED <<lease, lock, tree, active, pass, crashes>>

(* The caller's own action takes over what became of the one it drove.     *)
Observe(c) ==
  /\ At(c, "observe")
  /\ Record(caller[c].op, IF Truth(caller[c].drives) = "none" THEN "IN_PROGRESS"
                          ELSE Truth(caller[c].drives))
  /\ Answer(c)
  /\ UNCHANGED <<lease, lock, tree, active, pass, crashes>>

-----------------------------------------------------------------------------
(***************************************************************************)
(* Reconciliation, which start commands run: three loops over rows that a  *)
(* query has returned.  It begins by deleting locks whose lease names no   *)
(* action, of which there are none (LocksFollowTheLease).                  *)
(***************************************************************************)
Finds(t, place, row) ==
  /\ Passing
  /\ pass[t] = NoPass
  /\ pass' = [pass EXCEPT ![t] = [row EXCEPT !.at = place]]
  /\ UNCHANGED <<lease, lock, tree, action, active, caller, crashes>>

Resolves(t, place, verdict) ==
  /\ pass' = [pass EXCEPT ![t].at = place, ![t].verdict = verdict]
  /\ UNCHANGED <<lease, lock, tree, action, active, caller, crashes>>

Ends(t) == pass' = [pass EXCEPT ![t] = NoPass]

(* An IN_USE lease whose run has ended is PRESERVED: written by id, after  *)
(* the run was read and git asked for its status.  The run may have ended  *)
(* since the lease was read, or before and left it so.                     *)
FindInUse(t) ==
  /\ lease.state = "IN_USE"
  /\ Finds(t, "in use", NoPass)

RunHasEnded(t) ==
  /\ pass[t].at = "in use"
  /\ Resolves(t, "ended", "none")

PreserveEnded(t) ==
  /\ pass[t].at = "ended"
  /\ lease' = [lease EXCEPT !.state = "PRESERVED"]
  /\ Ends(t)
  /\ UNCHANGED <<lock, tree, action, active, caller, crashes>>

(* A claimed lease is given back when its action is over, and REMOVED when *)
(* git no longer lists its tree.                                           *)
FindClaimed(t) ==
  /\ lease.state = "RELEASE_REQUESTED"
  /\ Finds(t, "claimed", [NoPass EXCEPT !.op = lease.op])

Correlate(t) ==
  /\ pass[t].at = "claimed"
  /\ IF IsPending(pass[t].op) THEN Resolves(t, "listing", "none")
     ELSE Resolves(t, "finalize", "REFUSED")

Absent(t) ==
  /\ pass[t].at = "listing"
  /\ tree = "absent"
  /\ Resolves(t, "finalize", "REMOVED")

(* The transaction asks who owns the lease, not what has become of it.     *)
StillOwnedBy(o) == lease.op = o /\ lock \in {NoOp, o}

Finalize(t) ==
  /\ pass[t].at = "finalize"
  /\ IF StillOwnedBy(pass[t].op)
     THEN lease' = LeaseAfter(pass[t].verdict) /\ lock' = Unlocked
     ELSE UNCHANGED <<lease, lock>>
  /\ Ends(t)
  /\ UNCHANGED <<tree, action, active, caller, crashes>>

(* What becomes of an action that was pending, by the lease that is read   *)
(* for it.                                                                 *)
Verdict(o, phase) ==
  IF lease.state = "REMOVED" THEN "REMOVED"
  ELSE IF lease.state = "FAILED" THEN "REFUSED"
  ELSE IF lease.state = "TRANSFERRED" THEN "TRANSFERRED"
  ELSE IF lease.state = "PRESERVED" /\ lease.op = o /\ lease.failed THEN "REFUSED"
  ELSE IF lease.state = "RELEASE_REQUESTED"
  THEN IF lease.op = o THEN "none" ELSE "INTERRUPTED"
  ELSE IF phase = "EXECUTING" THEN "INTERRUPTED" ELSE "none"

FindAction(t, o) ==
  /\ IsPending(o)
  /\ Finds(t, "action", [NoPass EXCEPT !.op = o, !.verdict = action[o].phase])

LookAtLease(t) ==
  LET verdict == Verdict(pass[t].op, pass[t].verdict) IN
  /\ pass[t].at = "action"
  /\ verdict # "none"
  /\ Resolves(t, "write", verdict)

(* By id alone, whatever the action is by now.                             *)
WriteAction(t) ==
  /\ pass[t].at = "write"
  /\ Record(pass[t].op, pass[t].verdict)
  /\ Ends(t)
  /\ UNCHANGED <<lease, lock, tree, active, caller, crashes>>

(* There is nothing to do, a statement fails, or the process dies.         *)
GiveUp(t) ==
  /\ pass[t] # NoPass
  /\ Ends(t)
  /\ UNCHANGED <<lease, lock, tree, action, active, caller, crashes>>

Reconcile(t) ==
  \/ FindInUse(t) \/ RunHasEnded(t) \/ PreserveEnded(t)
  \/ FindClaimed(t) \/ Correlate(t) \/ Absent(t) \/ Finalize(t)
  \/ (\E o \in Ops : FindAction(t, o)) \/ LookAtLease(t) \/ WriteAction(t)
  \/ GiveUp(t)

-----------------------------------------------------------------------------
(***************************************************************************)
(* The surroundings: the run ends and preserves the lease, a continuation  *)
(* takes a preserved lease over, and a process dies - perhaps after git    *)
(* has done its work.                                                      *)
(***************************************************************************)
EndRun ==
  /\ lease.state = "IN_USE"
  /\ lease' = [lease EXCEPT !.state = "PRESERVED"]
  /\ UNCHANGED <<lock, tree, action, active, caller, pass, crashes>>

TakeOver ==
  /\ lease.state = "PRESERVED"
  /\ lease' = [lease EXCEPT !.state = "TRANSFERRED"]
  /\ UNCHANGED <<lock, tree, action, active, caller, pass, crashes>>

Crash(p) ==
  /\ crashes[p] < MaxCrashes
  /\ crashes' = [crashes EXCEPT ![p] = @ + 1]
  /\ active' = [active EXCEPT ![p] = {}]
  /\ caller' = [c \in Callers |-> IF ProcessOf[c] = p THEN Idle ELSE caller[c]]
  /\ \/ UNCHANGED tree
     \/ /\ \E c \in Callers : ProcessOf[c] = p /\ At(c, "git")
        /\ tree = "there" /\ tree' = "absent"
  /\ UNCHANGED <<lease, lock, action, pass>>

Call(c) ==
  \/ \E o \in setting.keys : Intent(c, o)
  \/ SurveyRemoved(c) \/ SurveyRecover(c) \/ SurveyBusy(c) \/ SurveyFree(c)
  \/ Claim(c) \/ NotClaimed(c) \/ Register(c) \/ Recover(c) \/ Reobserve(c)
  \/ Start(c) \/ Authority(c) \/ Git(c) \/ Persist(c) \/ PersistFails(c)
  \/ DirectPersist(c)
  \/ Caught(c) \/ Finally(c) \/ Leave(c) \/ Observe(c)
Next ==
  /\ UNCHANGED setting
  /\ \/ \E c \in Callers : Call(c)
     \/ \E t \in Scans : Reconcile(t)
     \/ EndRun \/ TakeOver
     \/ \E p \in Processes : Crash(p)

Spec == Init /\ [][Next]_vars

-----------------------------------------------------------------------------
Identities == {<<>>} \cup (Processes \X (1..(MaxCrashes + 1)))

Actions ==
  [phase : {"none", "TRANSFERRED"} \cup Pending \cup Final, pid : Identities,
   token : Tokens \cup {NoToken}, recoverable : BOOLEAN]

TypeOK ==
  /\ lease \in [state : LeaseStates, op : Ops \cup {NoOp}, failed : BOOLEAN]
  /\ lock \in Ops \cup {NoOp}
  /\ tree \in {"absent", "there"}
  /\ action \in [Ops -> Actions]
  /\ active \in [Processes -> SUBSET Tokens]
  /\ \A c \in Callers : caller[c].token \in Tokens \cup {NoToken}

(* Whatever dies, fails or is decided from an old reading: the lock row    *)
(* names the action the lease names, and a claimed lease names one.  An    *)
(* action leaves lease and lock with the last transaction of its release;  *)
(* only a lease that a reconciliation has seen IN_USE may be PRESERVED     *)
(* under the action that has claimed it since.                             *)
LocksFollowTheLease ==
  /\ lock = lease.op
  /\ lease.state = "RELEASE_REQUESTED" => lease.op # NoOp
  /\ Ended \/ ~Passing => lease.op = NoOp \/ lease.state = "RELEASE_REQUESTED"

(* A removal is never reported of a tree that is there, be it found by     *)
(* git, by a reconciliation or in the outcome of another action.           *)
RemovedIsGone ==
  lease.state = "REMOVED" \/ (\E o \in Ops : action[o].phase = "REMOVED") =>
    tree = "absent"

(* A claim is held by the caller that made it last, and by nobody else.    *)
HoldsClaim(c) ==
  caller[c].at \in {"claimed", "start", "authority", "git", "persist"} /\ HasClaim(c)

ClaimsAreExclusive ==
  \A c, d \in Callers :
    HoldsClaim(c) /\ HoldsClaim(d) /\ caller[c].drives = caller[d].drives => c = d

(* At most one caller is between its last check of the claim and git.      *)
OneGitAtATime == Cardinality({c \in Callers : At(c, "git")}) <= 1

(* One key, served by one process, and no reconciliation meanwhile.        *)
Undisturbed ==
  /\ \E o \in Ops : setting.keys = {o}
  /\ \A c, d \in Callers : ProcessOf[c] = ProcessOf[d]
  /\ ~Passing

(* The process alone sees its claims, and the database does not fail it.   *)
Orderly == Undisturbed /\ ~Gap /\ ~Failing

(* The locks of a release follow its lease, what is reported removed is    *)
(* gone, a claim has one holder, and git is called by one caller at a time *)
(* where no claim is read before its holder knows of it and no holder is   *)
(* thrown out of its last transaction.                                     *)
ReleasesAreExclusive ==
  /\ LocksFollowTheLease
  /\ RemovedIsGone
  /\ ClaimsAreExclusive
  /\ Orderly => OneGitAtATime

(* Whoever dies, and however often the last transaction fails after git    *)
(* has removed the tree: the action of a claimed lease stays pending, so   *)
(* its key, brought again, drives it to its end.                           *)
ClaimsAreRecoverable ==
  Undisturbed => (lease.state = "RELEASE_REQUESTED" => IsPending(lease.op))
===============================================================================
