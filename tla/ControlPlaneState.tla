-------------------------- MODULE ControlPlaneState --------------------------
(***************************************************************************)
(* The durable state of one execution in the orchestrator's PostgreSQL     *)
(* database, the process-local state of the actors that work on it, and    *)
(* the status sets and small decisions that every service shares.          *)
(*                                                                         *)
(* One execution runs the steps of one frozen plan revision.  Attempt n of *)
(* step s is the pair <<s, n>>; its invocation id is "<step>:<n>", so the  *)
(* pair also identifies the invocation, its outbox row and its inbox row.  *)
(***************************************************************************)
EXTENDS Naturals, FiniteSets

CONSTANTS
    Steps,              \* step ids of the active plan revision
    DependsOn,          \* [Steps -> SUBSET Steps]
    OnFailure,          \* [Steps -> {"stop", "continue", "retry"}]
    MaxAttempts,        \* [Steps -> Nat], 1 + retries
    Declares,           \* [Steps -> SUBSET Features], what the step config asks for
    AuthorityDeadline,  \* BOOLEAN: the execution carries an authority deadline
    ExclusiveRejection, \* BOOLEAN: no invocation is both refused and executed
    WorkerOutcomes,     \* the result statuses workers report in this instance
    ApiCancel,          \* BOOLEAN: an operator may cancel the execution
    Engines,            \* concurrent reconciliation passes (replicas, callbacks)
    Unreliable,         \* the engines that may crash, any number of times
    Dispatchers,        \* concurrent dispatch loops
    AttemptBound,       \* bound on the attempts of a step
    LeaseBound          \* bound on the leases of an outbox row

Features == {"condition", "template", "projection", "capability", "policy",
             "budget", "postcondition", "timeout", "supervised", "pinned"}

Outcomes == {"succeeded", "failed", "timed_out", "cancelled"}

ASSUME PlanAssumption ==
    /\ DependsOn \in [Steps -> SUBSET Steps]
    /\ OnFailure \in [Steps -> {"stop", "continue", "retry"}]
    /\ MaxAttempts \in [Steps -> Nat \ {0}]
    /\ Declares \in [Steps -> SUBSET Features]

ASSUME EnvironmentAssumption ==
    /\ AuthorityDeadline \in BOOLEAN
    /\ ExclusiveRejection \in BOOLEAN
    /\ ApiCancel \in BOOLEAN
    /\ WorkerOutcomes \subseteq Outcomes
    /\ Unreliable \subseteq Engines

ASSUME BoundAssumption ==
    /\ AttemptBound \in Nat \ {0}
    /\ LeaseBound \in Nat \ {0}

Attempts == Steps \X (1..AttemptBound)

(* What idle dispatchers hold in the place of an attempt. *)
NoAttempt == <<"none", 0>>

VARIABLES
    exec,           \* executions.status
    step,           \* step_executions.status
    tries,          \* step_executions.attempt
    att,            \* step_attempts.status, "NONE" while the row does not exist
    outbox,         \* dispatch_outbox.status
    dispatchCount,  \* dispatch_outbox.dispatchCount; names the current lease token
    inbox,          \* result_inbox.status
    payload,        \* result_inbox.payloadHash, up to equality
    approval,       \* approval_requests.status of the dispatch proposal
    reservation,    \* budget reservation of the attempt
    worker,         \* what the executor side knows of the invocation
    dispatcher,     \* process-local: the row a dispatch loop holds a lease on
    pass,           \* process-local: how far a reconciliation pass has come
    cancelling      \* an open cancel transaction and the attempts it locked

rows == <<exec, step, tries, att, outbox, dispatchCount, inbox, payload,
          approval, reservation>>
vars == <<exec, step, tries, att, outbox, dispatchCount, inbox, payload,
          approval, reservation, worker, dispatcher, pass, cancelling>>

-----------------------------------------------------------------------------
(* Status sets *)

ExecutionStatuses == {"PENDING", "RUNNING", "COMPLETED", "FAILED", "CANCELLED"}
TerminalExecution == {"COMPLETED", "FAILED", "CANCELLED"}

StepStatuses == {"PENDING", "READY", "RUNNING", "RETRYING", "WAITING",
                 "COMPLETED", "FAILED", "SKIPPED", "CANCELLED"}
TerminalStep == {"COMPLETED", "FAILED", "SKIPPED", "CANCELLED"}
CancellableStep == {"PENDING", "READY", "RUNNING", "RETRYING", "WAITING"}

AttemptStatuses == {"NONE", "CREATED", "DISPATCHED", "RUNNING", "WAITING",
                    "SUCCESS", "FAILED", "TIMED_OUT", "CANCELLED"}
TerminalAttempt == {"SUCCESS", "FAILED", "TIMED_OUT", "CANCELLED"}
ActiveAttempt == {"CREATED", "DISPATCHED", "RUNNING", "WAITING"}
(* The statuses of the partial unique index UQ_step_attempt_active. *)
IndexedAttempt == {"CREATED", "DISPATCHED", "RUNNING"}

OutboxStatuses == {"NONE", "PENDING", "LEASED", "DISPATCHED", "COMPLETED", "FAILED"}
(* The statuses every terminal transition retires. *)
DispatchableOutbox == {"PENDING", "LEASED", "DISPATCHED"}

Payloads == Outcomes \cup {"deadline", "supervision"}
InboxStatuses == {"NONE", "APPLIED", "REJECTED"}
ApprovalStatuses == {"NONE", "PENDING", "APPROVED", "DENIED", "EXPIRED"}
ReservationStatuses == {"NONE", "HELD", "RECONCILED", "RELEASED"}

(* Process-local states of the actors.                                     *)
DispatcherStates ==
    [pc : {"idle", "leased", "delivered", "retryable", "rejected"},
     attempt : Attempts \cup {NoAttempt},
     token : 0..LeaseBound]
PassStates ==
    [pc : {"idle", "promoted", "advance", "check", "decide", "claim", "fail",
           "cancel", "complete"},
     todo : SUBSET Steps]
CancelStates == [open : BOOLEAN, attempts : SUBSET Attempts]
-----------------------------------------------------------------------------
(* The type invariant: every row and every actor holds a value of its kind. *)
TypeOK ==
    /\ exec \in ExecutionStatuses
    /\ step \in [Steps -> StepStatuses]
    /\ tries \in [Steps -> 0..AttemptBound]
    /\ att \in [Attempts -> AttemptStatuses]
    /\ outbox \in [Attempts -> OutboxStatuses]
    /\ dispatchCount \in [Attempts -> 0..LeaseBound]
    /\ inbox \in [Attempts -> InboxStatuses]
    /\ payload \in [Attempts -> Payloads \cup {"none"}]
    /\ approval \in [Attempts -> ApprovalStatuses]
    /\ reservation \in [Attempts -> ReservationStatuses]
    /\ worker \in [Attempts -> {"unseen", "accepted", "refused"}]
    /\ dispatcher \in [Dispatchers -> DispatcherStates]
    /\ pass \in [Engines -> PassStates]
    /\ cancelling \in CancelStates

(***************************************************************************)
(* The operators below whose name starts with Mutant are wrong on purpose: *)
(* each is the operator that follows it with a plausible bug, and is used  *)
(* only to confirm that a property would notice that bug.                  *)
(***************************************************************************)

(* A row an open cancel transaction holds FOR UPDATE blocks, or makes      *)
(* SKIP LOCKED pass over, every other transaction on that attempt.         *)
MutantNeverBlocked(a) == a \in Attempts
Unlocked(a) == a \notin cancelling.attempts

(* A dependency is resolved by COMPLETED or SKIPPED, or by FAILED when it  *)
(* declares onFailure: continue.                                           *)
Resolved(d) == \/ step[d] \in {"COMPLETED", "SKIPPED"}
               \/ step[d] = "FAILED" /\ OnFailure[d] = "continue"
MutantNotFailedResolves(s) ==
    \A d \in DependsOn[s] : step[d] # "FAILED" \/ OnFailure[d] = "continue"
DependenciesResolved(s) == \A d \in DependsOn[s] : Resolved(d)

(* The pipeline's failure policy: a failed attempt is retried only while   *)
(* attempts remain, and only the continue policy keeps the run alive after *)
(* a final failure.                                                        *)
MutantOneRetryTooMany(a) == OnFailure[a[1]] = "retry" /\ a[2] <= MaxAttempts[a[1]]
RetryAllowed(a) == OnFailure[a[1]] = "retry" /\ a[2] < MaxAttempts[a[1]]
FailedStepStatus(a) == IF RetryAllowed(a) THEN "RETRYING" ELSE "FAILED"
StopsExecution(a) == ~RetryAllowed(a) /\ OnFailure[a[1]] # "continue"

(* The guarded update of the execution's terminal status.                  *)
MutantUnguardedTerminal(status) == status
Terminalize(status) == IF exec \in TerminalExecution THEN exec ELSE status

(* The unique index on the active attempts of one step, as a commit guard. *)
MutantNoActiveIndex(s) == s \in Steps
NoIndexedAttempt(s) ==
    \A n \in 1..AttemptBound : att[<<s, n>>] \notin IndexedAttempt

(* Retiring a delivery; the same UPDATE stands in every terminal path.     *)
MutantRetiredAsCancelled(status) ==
    IF status \in DispatchableOutbox THEN "CANCELLED" ELSE status
Retired(status) == IF status \in DispatchableOutbox THEN "COMPLETED" ELSE status

(* A reservation that is still held is closed; any other state is final.   *)
MutantReservationLeft(a, how) == IF how = "RELEASED" THEN reservation[a] ELSE how
Closed(a, how) == IF reservation[a] = "HELD" THEN how ELSE reservation[a]

(* Work authority of a budgeted step starts with a reservation.            *)
Reserved(a) == IF "budget" \in Declares[a[1]] THEN "HELD" ELSE reservation[a]

=============================================================================
