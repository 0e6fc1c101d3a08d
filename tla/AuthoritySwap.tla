---------------------------- MODULE AuthoritySwap ----------------------------
(***************************************************************************)
(* Recovery from a backup (scripts/self-hosted/restore.mjs and             *)
(* maintenance.mjs): a dump is restored into an isolated database,         *)
(* verified, and renamed over the database the services write to, whose    *)
(* old contents stay under a safety name.  A journal file is advanced      *)
(* before every rename; every operation first reconciles what a dead one   *)
(* left, from the journal and from the names of the databases it sees.     *)
(*                                                                         *)
(* The contents of a database are a number: 0 is what the deployment       *)
(* started with, n the nth dump that was restored.  Any command may fail,  *)
(* and a process may die between any two.                                  *)
(***************************************************************************)
EXTENDS Integers, Sequences, FiniteSetsExt

CONSTANTS
    Operators,      \* those who run restore.mjs
    MaxRestores,    \* bound: dumps that are restored
    FailedNames,    \* the names for failed candidates, in order; bounded
    MaxLosses,      \* bound: times the journal file is lost or damaged
    ManualAfter     \* the verdicts after which operators follow the printed
                    \* instructions of a failure

VARIABLES
    db,         \* the contents under each database name, or Missing
    journal,    \* the phase in the recovery journal, "absent" or "malformed"
    services,   \* the orchestrator and the gateway: "up" or "down"
    lock,       \* the maintenance lock: who owns it, "free" or "stale"
    op,         \* what each operator's process does
    authority,  \* the contents that are the authority
    restored,   \* dumps restored so far
    losses,
    told        \* the last operation printed recovery instructions

vars == <<db, journal, services, lock, op, authority, restored, losses, told>>

Missing == -1
Failed == {FailedNames[i] : i \in DOMAIN FailedNames}
Names == {"active", "safety", "isolated"} \cup Failed
Has(name) == db[name] # Missing

(* The phases, by what may have happened when they are read.               *)
Stopping == {"quiescing", "swap-active-to-safety"}
Swapping == {"swap-verified-to-active", "post-gates"}
Phases == {"verify-done", "complete"} \cup Stopping \cup Swapping

(* Where a process marks the journal, and with which phase.                *)
Mark ==
    [verified |-> "verify-done", stopping |-> "quiescing",
     swapping |-> "swap-active-to-safety", renamed |-> "swap-verified-to-active",
     promoted |-> "post-gates", proven |-> "complete"]

(* What comes after a mark.                                                *)
Then == [verified |-> "stopping", stopping |-> "quiesce", swapping |-> "drop-safety",
         renamed |-> "rename-verified", promoted |-> "gates", proven |-> "idle"]

Idle == [at |-> "idle", mode |-> "none", valid |-> FALSE, own |-> "none"]
At(o, step) == op[o].at = step
Goto(o, step) == op' = [op EXCEPT ![o].at = step]
Leave(o) == op' = [op EXCEPT ![o] = Idle] /\ lock' = "free"

(* ALTER DATABASE ... RENAME TO ...                                        *)
CanRename(from, to) == Has(from) /\ ~Has(to)
Renamed(from, to) == db' = [db EXCEPT ![to] = db[from], ![from] = Missing]
Dropped(name) == db' = [db EXCEPT ![name] = Missing]
MayStart == services' \in {services, "up"}

FreeIndexes == {i \in DOMAIN FailedNames : ~Has(FailedNames[i])}
FreeName == FailedNames[Min(FreeIndexes)]
-----------------------------------------------------------------------------
MutantFailsOpen ==
    IF journal = "complete" THEN "proceed"
    ELSE IF ~Has("active") THEN (IF Has("safety") THEN "restore-safety" ELSE "blocked")
    ELSE CASE journal \in Stopping -> "restart-original"
           [] journal \in Swapping -> IF Has("safety") THEN "preserve" ELSE "restart-and-proceed"
           [] OTHER -> "proceed"

(* planReconciliation: what the journal and the names ask for.             *)
PlanReconciliation ==
    IF journal = "complete" THEN "proceed"
    ELSE IF ~Has("active") THEN (IF Has("safety") THEN "restore-safety" ELSE "blocked")
    ELSE CASE journal \in Stopping -> "restart-original"
           [] journal \in Swapping -> IF Has("safety") THEN "preserve" ELSE "restart-and-proceed"
           [] journal = "verify-done" -> "proceed"
           [] OTHER -> IF Has("safety") THEN "blocked" ELSE "proceed"

Acquire(o, mode) ==
    /\ At(o, "idle")
    /\ lock = "free"
    /\ lock' = o
    /\ op' = [op EXCEPT ![o] = [Idle EXCEPT !.at = "reconcile", !.mode = mode]]
    /\ told' = FALSE
    /\ UNCHANGED <<db, journal, services, authority, restored, losses>>

(* A journal nobody needs is removed before the services are proven.       *)
Reconcile(o) ==
    /\ At(o, "reconcile")
    /\ PlanReconciliation # "blocked"
    /\ journal' = IF /\ PlanReconciliation \in {"proceed", "restart-and-proceed"}
                     /\ journal = "malformed" \/ ~Has("safety")
                  THEN "absent" ELSE journal
    /\ op' = [op EXCEPT ![o].at = PlanReconciliation, ![o].valid = journal \in Phases]
    /\ UNCHANGED <<db, services, lock, authority, restored, losses, told>>

Blocked(o) ==
    /\ At(o, "reconcile")
    /\ PlanReconciliation = "blocked"
    /\ Leave(o)
    /\ told' = TRUE
    /\ UNCHANGED <<db, journal, services, authority, restored, losses>>

(* restartAndProve fails: the journal stays as it is.                      *)
Unhealthy(o) ==
    /\ op[o].at \in {"restart-and-proceed", "restart-original", "prove"}
    /\ MayStart
    /\ Leave(o)
    /\ told' = TRUE
    /\ UNCHANGED <<db, journal, authority, restored, losses>>

RestartAndProceed(o) ==
    /\ At(o, "restart-and-proceed")
    /\ services' = "up"
    /\ Goto(o, "proceed")
    /\ UNCHANGED <<db, journal, lock, authority, restored, losses, told>>

RestartOriginal(o) ==
    /\ At(o, "restart-original")
    /\ services' = "up"
    /\ journal' = IF Has("safety") THEN journal ELSE "absent"
    /\ Leave(o)
    /\ UNCHANGED <<db, authority, restored, losses, told>>

(* The candidate that is not proven makes room under a free name; a        *)
(* rollback of this process drops it in the end.                           *)
Preserve(o) ==
    /\ op[o].at \in {"preserve", "demote"}
    /\ FreeIndexes # {}
    /\ CanRename("active", FreeName)
    /\ Renamed("active", FreeName)
    /\ op' = [op EXCEPT ![o].at = "restore-safety",
                        ![o].own = IF At(o, "demote") THEN FreeName ELSE "none"]
    /\ UNCHANGED <<journal, services, lock, authority, restored, losses, told>>

RestoreSafety(o) ==
    /\ At(o, "restore-safety")
    /\ CanRename("safety", "active")
    /\ Renamed("safety", "active")
    /\ Goto(o, "prove")
    /\ UNCHANGED <<journal, services, lock, authority, restored, losses, told>>

(* The original authority is active and proven.                            *)
Prove(o) ==
    /\ At(o, "prove")
    /\ services' = "up"
    /\ journal' = "absent"
    /\ \/ op[o].own # "none" /\ Dropped(op[o].own)
       \/ UNCHANGED db
    /\ Leave(o)
    /\ UNCHANGED <<authority, restored, losses, told>>

(* A rename or a drop fails, or there is no free name.                     *)
CommandFails(o) ==
    /\ op[o].at \in {"preserve", "demote", "restore-safety"}
    /\ Leave(o)
    /\ told' = TRUE
    /\ UNCHANGED <<db, journal, services, authority, restored, losses>>
-----------------------------------------------------------------------------
(* restore.mjs after a reconciliation that lets it proceed.                *)
Proceed(o) ==
    /\ At(o, "proceed")
    /\ op[o].mode # "reconcile"
    /\ \/ op[o].valid /\ Dropped(FailedNames[1])
       \/ UNCHANGED db
    /\ Goto(o, "restore")
    /\ UNCHANGED <<journal, services, lock, authority, restored, losses, told>>

Reconciled(o) ==
    /\ At(o, "proceed")
    /\ op[o].mode = "reconcile"
    /\ Leave(o)
    /\ UNCHANGED <<db, journal, services, authority, restored, losses, told>>

(* A bad manifest, or a restore or a deep check that fails.                *)
RestoreFails(o) ==
    /\ At(o, "restore")
    /\ Dropped("isolated") \/ UNCHANGED db
    /\ Leave(o)
    /\ UNCHANGED <<journal, services, authority, restored, losses, told>>

(* A drill ends here.                                                      *)
RestoreIntoIsolated(o) ==
    /\ At(o, "restore")
    /\ restored < MaxRestores
    /\ restored' = restored + 1
    /\ db' = [db EXCEPT !["isolated"] = restored + 1]
    /\ \/ op[o].mode = "drill" /\ Leave(o)
       \/ op[o].mode = "promote" /\ Goto(o, "verified") /\ UNCHANGED lock
    /\ UNCHANGED <<journal, services, authority, losses, told>>

WriteJournal(o) ==
    /\ op[o].at \in DOMAIN Mark \ {"proven"}
    /\ journal' = Mark[op[o].at]
    /\ Goto(o, Then[op[o].at])
    /\ UNCHANGED <<db, services, lock, authority, restored, losses, told>>

(* With this mark the candidate is the authority.                          *)
Complete(o) ==
    /\ At(o, "proven")
    /\ journal' = Mark["proven"]
    /\ authority' = db["active"]
    /\ Leave(o)
    /\ UNCHANGED <<db, services, restored, losses, told>>

(* A write that fails throws.                                              *)
JournalFails(o) ==
    /\ op[o].at \in DOMAIN Mark
    /\ Leave(o)
    /\ UNCHANGED <<db, journal, services, authority, restored, losses, told>>

Quiesce(o) ==
    /\ op[o].at \in {"quiesce", "retreat"}
    /\ services' = "down"
    /\ Goto(o, IF At(o, "quiesce") THEN "swapping" ELSE "demote")
    /\ UNCHANGED <<db, journal, lock, authority, restored, losses, told>>

QuiesceFails(o) ==
    /\ op[o].at \in {"quiesce", "retreat"}
    /\ services' \in {"up", "down"}
    /\ Leave(o)
    /\ told' = At(o, "retreat")
    /\ UNCHANGED <<db, journal, authority, restored, losses>>

DropSafety(o) ==
    /\ At(o, "drop-safety")
    /\ Dropped("safety")
    /\ Goto(o, "rename-active")
    /\ UNCHANGED <<journal, services, lock, authority, restored, losses, told>>

RenameActive(o) ==
    /\ At(o, "rename-active")
    /\ CanRename("active", "safety")
    /\ Renamed("active", "safety")
    /\ Goto(o, "renamed")
    /\ UNCHANGED <<journal, services, lock, authority, restored, losses, told>>

(* Nothing was renamed: the services start again.                          *)
SwapNotBegun(o) ==
    /\ op[o].at \in {"drop-safety", "rename-active"}
    /\ MayStart
    /\ Leave(o)
    /\ UNCHANGED <<db, journal, authority, restored, losses, told>>

RenameVerified(o) ==
    /\ At(o, "rename-verified")
    /\ \/ /\ CanRename("isolated", "active")
          /\ Renamed("isolated", "active")
          /\ Goto(o, "promoted")
       \/ UNCHANGED db /\ Goto(o, "restore-safety")
    /\ UNCHANGED <<journal, services, lock, authority, restored, losses, told>>

GatesPass(o) ==
    /\ At(o, "gates")
    /\ services' = "up"
    /\ Goto(o, "proven")
    /\ UNCHANGED <<db, journal, lock, authority, restored, losses, told>>

GatesFail(o) ==
    /\ At(o, "gates")
    /\ MayStart
    /\ Goto(o, "retreat")
    /\ UNCHANGED <<db, journal, lock, authority, restored, losses, told>>
-----------------------------------------------------------------------------
Crash(o) ==
    /\ ~At(o, "idle")
    /\ op' = [op EXCEPT ![o] = Idle]
    /\ lock' = "stale"
    /\ UNCHANGED <<db, journal, services, authority, restored, losses, told>>

(* --clear-stale-lock, when nothing of the dead process runs any more.     *)
ClearStaleLock ==
    /\ lock = "stale"
    /\ lock' = "free"
    /\ UNCHANGED <<db, journal, services, op, authority, restored, losses, told>>

LoseJournal(damage) ==
    /\ journal \in Phases
    /\ losses < MaxLosses
    /\ journal' = damage
    /\ losses' = losses + 1
    /\ UNCHANGED <<db, services, lock, op, authority, restored, told>>

(* The operator archives a retained safety copy, as reconciliation asks.   *)
ArchiveSafety ==
    /\ lock = "free"
    /\ PlanReconciliation = "restart-original"
    /\ Has("safety")
    /\ Dropped("safety")
    /\ UNCHANGED <<journal, services, lock, op, authority, restored, losses, told>>

(* printUnrecoverableState: both names are there, so the active one is     *)
(* taken for a candidate.                                                  *)
FollowInstructions ==
    /\ told
    /\ lock = "free"
    /\ PlanReconciliation \in ManualAfter
    /\ Has("active") /\ Has("safety")
    /\ FreeIndexes # {}
    /\ db' = [db EXCEPT ![FreeName] = db["active"], !["active"] = db["safety"],
                        !["safety"] = Missing]
    /\ services' = "up"
    /\ told' = FALSE
    /\ UNCHANGED <<journal, lock, op, authority, restored, losses>>
-----------------------------------------------------------------------------
Init ==
    /\ db = [n \in Names |-> IF n = "active" THEN 0 ELSE Missing]
    /\ journal = "absent"
    /\ services = "up"
    /\ lock = "free"
    /\ op = [o \in Operators |-> Idle]
    /\ authority = 0
    /\ restored = 0
    /\ losses = 0
    /\ told = FALSE

Next ==
    \/ \E o \in Operators :
           \/ \E mode \in {"drill", "promote", "reconcile"} : Acquire(o, mode)
           \/ Reconcile(o) \/ Blocked(o) \/ Unhealthy(o) \/ RestartAndProceed(o)
           \/ RestartOriginal(o) \/ Preserve(o) \/ RestoreSafety(o) \/ Prove(o)
           \/ CommandFails(o) \/ Proceed(o) \/ Reconciled(o) \/ RestoreFails(o)
           \/ RestoreIntoIsolated(o) \/ WriteJournal(o) \/ Complete(o)
           \/ JournalFails(o) \/ Quiesce(o) \/ QuiesceFails(o) \/ DropSafety(o)
           \/ RenameActive(o) \/ SwapNotBegun(o) \/ RenameVerified(o)
           \/ GatesPass(o) \/ GatesFail(o) \/ Crash(o)
    \/ ClearStaleLock
    \/ \E damage \in {"absent", "malformed"} : LoseJournal(damage)
    \/ ArchiveSafety
    \/ FollowInstructions

Spec == Init /\ [][Next]_vars
-----------------------------------------------------------------------------
TypeOK ==
    /\ db \in [Names -> Missing..MaxRestores]
    /\ journal \in Phases \cup {"absent", "malformed"}
    /\ services \in {"up", "down"}
    /\ lock \in Operators \cup {"free", "stale"}
    /\ authority \in 0..MaxRestores
    /\ restored \in 0..MaxRestores
    /\ losses \in 0..MaxLosses
    /\ told \in BOOLEAN

(* Wherever a recovery fails or dies, and with whatever is left of the     *)
(* journal, the authority is under the active or the safety name: no       *)
(* later operation drops it or hides it among the failed candidates.       *)
AuthorityIsKept == authority \in {db["active"], db["safety"]}

(* Contents that are not yet the authority are active only while the       *)
(* authority is kept beside them and nothing says that they are proven or  *)
(* were never swapped in: the next operation rolls back or stops.          *)
CandidateIsOnTrial ==
    db["active"] \notin {Missing, authority} =>
        db["safety"] = authority /\ journal \notin Stopping \cup {"verify-done", "complete"}

(* A restore loses no authority, and serves from none that is on trial.    *)
RestoresAreSafe == AuthorityIsKept /\ CandidateIsOnTrial
=============================================================================
