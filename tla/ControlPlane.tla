----------------------------- MODULE ControlPlane -----------------------------
(***************************************************************************)
(* The orchestrator's control plane for one execution: the reconciliation  *)
(* passes, the dispatch loops, the result inbox, the approval decisions,   *)
(* cancellation and the recovery tick, interleaved transaction by          *)
(* transaction over the same rows.                                         *)
(***************************************************************************)
EXTENDS Scheduling, DispatchOutbox, ResultInbox, Approval

(* The rows as createExecution materialises them.                          *)
Init ==
    /\ exec = "PENDING"
    /\ step = [s \in Steps |-> "PENDING"]
    /\ tries = [s \in Steps |-> 0]
    /\ att = [a \in Attempts |-> "NONE"]
    /\ outbox = [a \in Attempts |-> "NONE"]
    /\ dispatchCount = [a \in Attempts |-> 0]
    /\ inbox = [a \in Attempts |-> "NONE"]
    /\ payload = [a \in Attempts |-> "none"]
    /\ approval = [a \in Attempts |-> "NONE"]
    /\ reservation = [a \in Attempts |-> "NONE"]
    /\ worker = [a \in Attempts |-> "unseen"]
    /\ dispatcher = [d \in Dispatchers |-> IdleDispatcher]
    /\ pass = [e \in Engines |-> IdlePass]
    /\ cancelling = CancelClosed

Claim(e, s) ==
    \/ ClaimThrows(e, s)
    \/ ClaimNothing(e, s)
    \/ ClaimTemplateFailure(e, s)
    \/ ClaimAuthorityExpired(e, s)
    \/ ClaimSkip(e, s)
    \/ ClaimRefused(e, s)
    \/ ClaimWaiting(e, s)
    \/ ClaimDispatchable(e, s)

(* The steps of a pass that a live process takes by itself.                *)
PassStep(e) ==
    \/ PassRead(e)
    \/ PassAdvance(e)
    \/ PassCheck(e)
    \/ PassDecide(e)
    \/ PassFail(e)
    \/ PassComplete(e)
    \/ PassCancel(e)
    \/ \E s \in Steps : Claim(e, s)

Invoke(d) == InvokeAccepted(d) \/ InvokeLost(d) \/ InvokeRejected(d)

(* The steps of a dispatch loop after the lease.                           *)
DispatchStep(d) ==
    \/ Invoke(d)
    \/ MarkDispatched(d)
    \/ ReturnToPending(d)
    \/ FailNonRetryable(d)
    \/ StaleRejection(d)

Next ==
    \/ \E e \in Engines : PassBegin(e) \/ PassStep(e) \/ PassCrash(e)
    \/ \E d \in Dispatchers : \/ \E a \in Attempts : Lease(d, a)
                              \/ DispatchStep(d)
                              \/ DispatcherCrash(d)
    \/ \E a \in Attempts : \/ \E p \in WorkerOutcomes : WorkerResult(a, p)
                           \/ ExpireAttempt(a)
                           \/ SupervisionTimeout(a)
                           \/ ProjectLiveness(a)
                           \/ Approve(a)
                           \/ Deny(a)
                           \/ Expire(a)
    \/ CancelRequest
    \/ CancelTooLate
    \/ CancelCommit

(* What the recovery tick of one replica that stays up guarantees:         *)
(* candidate executions are reconciled, overdue attempts and approvals are *)
(* settled, an open transaction ends.  Nothing is assumed of workers,      *)
(* operators, dispatch loops or the replicas that crash.                   *)
Fairness ==
    /\ \A e \in Engines \ Unreliable :
           WF_vars(Candidate /\ PassBegin(e)) /\ WF_vars(PassStep(e))
    /\ \A a \in Attempts : WF_vars(ExpireAttempt(a)) /\ WF_vars(Expire(a))
    /\ WF_vars(CancelTooLate \/ CancelCommit)

Spec == Init /\ [][Next]_vars
FairSpec == Spec /\ Fairness
-----------------------------------------------------------------------------
(* Delivery authority *)

(* The outbox row and the attempt agree: a row waits for delivery exactly  *)
(* while its attempt is CREATED, is DISPATCHED exactly while its attempt   *)
(* is with a worker, and no row of a settled attempt can be delivered.     *)
OutboxAgrees(a) ==
    CASE att[a] = "CREATED" -> outbox[a] \in {"PENDING", "LEASED"}
      [] att[a] \in {"DISPATCHED", "RUNNING"} -> outbox[a] = "DISPATCHED"
      [] att[a] \in TerminalAttempt -> outbox[a] \in {"NONE", "COMPLETED", "FAILED"}
      [] OTHER -> outbox[a] = "NONE"
OutboxMatchesAttempt == \A a \in Attempts : OutboxAgrees(a)

(* No step ever has two attempts with work authority.                      *)
OneActiveAttempt ==
    \A a, b \in Attempts :
        (a[1] = b[1] /\ att[a] \in IndexedAttempt /\ att[b] \in IndexedAttempt) => a = b

(* A dispatcher that holds a lease token shares it with nobody, so at most *)
(* one of the loops that called an executor can commit its outcome.        *)
LeaseTokensDiffer ==
    \A d, e \in Dispatchers :
        (/\ d # e
         /\ dispatcher[d].pc # "idle"
         /\ dispatcher[e].pc # "idle"
         /\ dispatcher[d].attempt = dispatcher[e].attempt)
        => dispatcher[d].token # dispatcher[e].token

(* Budget is held exactly while the attempt has work authority; what a     *)
(* settled attempt held was released or reconciled once.                   *)
ReservationMatchesAttempt ==
    \A a \in Attempts :
        (reservation[a] = "HELD") <=>
            ("budget" \in Declares[a[1]] /\ att[a] \in IndexedAttempt)

(* The applied result is the attempt's outcome, up to a rejected           *)
(* postcondition.                                                          *)
AppliedResultIsOutcome ==
    \A a \in Attempts : inbox[a] = "APPLIED" =>
        \/ att[a] = AttemptStatusOf(payload[a])
        \/ /\ att[a] = "FAILED" /\ payload[a] = "succeeded"
           /\ "postcondition" \in Declares[a[1]]

(* The attempts an open cancellation has locked stay active until it       *)
(* commits: no result, receipt, rejection or decision slips in between.    *)
LockedStayActive ==
    \A a \in cancelling.attempts : att[a] \in ActiveAttempt

(* A WAITING attempt always has an open request, the only thing that can   *)
(* still resume it, fail it or time it out.                                *)
WaitingHasRequest ==
    \A a \in Attempts : att[a] = "WAITING" => approval[a] = "PENDING"

(* A settled attempt and a finished execution are never rewritten, by any  *)
(* later result, receipt, decision, pass or cancellation.                  *)
TerminalFactsFrozen ==
    [][/\ exec \in TerminalExecution => exec' = exec
       /\ \A a \in Attempts : att[a] \in TerminalAttempt => att'[a] = att[a]]_vars
-----------------------------------------------------------------------------
(* Workflow.  These rest on ExclusiveRejection.                            *)

Latest(s) == <<s, tries[s]>>

(* The step summary always tells the fate of the step's latest attempt.    *)
StepTellsLatestAttempt ==
    \A s \in Steps :
        /\ step[s] \in {"PENDING", "READY"} => tries[s] = 0
        /\ step[s] = "RUNNING" => tries[s] > 0 /\ att[Latest(s)] \in IndexedAttempt
        /\ step[s] = "WAITING" => tries[s] > 0 /\ att[Latest(s)] = "WAITING"
        /\ step[s] = "COMPLETED" => tries[s] > 0 /\ att[Latest(s)] = "SUCCESS"
        /\ step[s] \in {"RETRYING", "FAILED"} =>
               tries[s] > 0 /\ att[Latest(s)] \in {"FAILED", "TIMED_OUT"}

(* A retry budget is never exceeded, and only a failed attempt is followed *)
(* by another one.                                                         *)
RetriesAreBounded ==
    \A s \in Steps :
        /\ tries[s] <= MaxAttempts[s]
        /\ \A n \in 1..AttemptBound :
               n < tries[s] => att[<<s, n>>] \in {"FAILED", "TIMED_OUT"}

(* Work starts only behind resolved dependencies, and they stay resolved.  *)
DependenciesRespected ==
    \A s \in Steps : tries[s] > 0 =>
        \A d \in DependsOn[s] :
            \/ step[d] \in {"COMPLETED", "SKIPPED"}
            \/ step[d] = "FAILED" /\ OnFailure[d] = "continue"

(* A completed run has nothing left to do and nothing left running.        *)
CompletedMeansDone ==
    exec = "COMPLETED" =>
        /\ \A s \in Steps : \/ step[s] \in {"COMPLETED", "SKIPPED"}
                            \/ step[s] = "FAILED" /\ OnFailure[s] = "continue"
        /\ \A a \in Attempts : att[a] \notin ActiveAttempt

(* Once the run has ended nothing new is started: no attempt is claimed    *)
(* from a stale pass and no invocation is leased for delivery.             *)
NothingStartsAfterEnd ==
    [][(exec \in TerminalExecution) =>
           (tries' = tries /\ dispatchCount' = dispatchCount)]_vars
-----------------------------------------------------------------------------
(* Refinement *)

WorkOf(status) ==
    CASE status = "NONE"        -> "none"
      [] status = "WAITING"     -> "waiting"
      [] status \in IndexedAttempt -> "authorized"
      [] status = "SUCCESS"     -> "succeeded"
      [] status = "CANCELLED"   -> "cancelled"
      [] OTHER                  -> "failed"

Authority == INSTANCE WorkAuthority WITH
    Bound    <- AttemptBound,
    Budgeted <- {s \in Steps : "budget" \in Declares[s]},
    run      <- IF exec \in TerminalExecution THEN exec ELSE "open",
    work     <- [a \in Attempts |-> WorkOf(att[a])],
    held     <- {a \in Attempts : reservation[a] = "HELD"}

(* The passes, dispatch loops, inbox, approvals and cancellations together *)
(* implement the ledger of work authority.  This rests on                  *)
(* ExclusiveRejection.                                                     *)
KeepsWorkAuthority == Authority!Spec
-----------------------------------------------------------------------------
(* Liveness, for plans whose steps all carry a timeout.                    *)

(* Whatever workers, operators, dispatchers and crashing replicas do, the  *)
(* run ends, unless the claim of a step throws again and again.            *)
RunTerminates ==
    \/ <>(exec \in TerminalExecution)
    \/ []<><<\E e \in Engines, s \in Steps : ClaimThrows(e, s)>>_vars

(* Every attempt is settled, or has a cancelled execution: what a          *)
(* cancellation does not settle nothing else will.                         *)
AttemptsSettle ==
    \A a \in Attempts :
        att[a] \in ActiveAttempt ~> att[a] \in TerminalAttempt \/ exec = "CANCELLED"
-----------------------------------------------------------------------------
(* What the repository's documentation says of the control plane.          *)

(* Cancellation "marks every active attempt CANCELLED".                    *)
CancelledMeansSettled ==
    exec = "CANCELLED" => \A a \in Attempts : att[a] \notin ActiveAttempt

(* "A late sibling outcome under an already-terminal execution records its *)
(* own attempt and step facts as terminal."                                *)
SiblingOutcomeRecorded ==
    exec \in TerminalExecution =>
        \A a \in Attempts : inbox[a] # "NONE" => att[a] \in TerminalAttempt

(* "Late evidence ... never rewrites a terminal result."                   *)
CompletedStepFrozen ==
    [][\A s \in Steps : step[s] = "COMPLETED" => step'[s] = "COMPLETED"]_vars

=============================================================================
