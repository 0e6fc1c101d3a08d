------------------------------- MODULE Approval -------------------------------
(***************************************************************************)
(* Decisions on the approval request of a WAITING attempt: approve resumes *)
(* the same attempt, deny and expiry fail it under the step's policy.  A   *)
(* request that is no longer PENDING is only replayed.                     *)
(***************************************************************************)
EXTENDS ControlPlaneState

Decidable(a) == approval[a] = "PENDING" /\ Unlocked(a)

(* The attempt was settled by another authority: only the decision is      *)
(* recorded.                                                               *)
MutantDecidesOnly(a, decision) ==
    /\ Decidable(a)
    /\ approval' = [approval EXCEPT ![a] = decision]
    /\ UNCHANGED <<exec, step, tries, att, outbox, dispatchCount, inbox, payload,
                   reservation, worker, dispatcher, pass, cancelling>>
DecideSettled(a, decision) ==
    /\ Decidable(a)
    /\ att[a] # "WAITING"
    /\ approval' = [approval EXCEPT ![a] = decision]
    /\ UNCHANGED <<exec, step, tries, att, outbox, dispatchCount, inbox, payload,
                   reservation, worker, dispatcher, pass, cancelling>>

(* The attempt fails; its step follows the failure policy only if it is    *)
(* still WAITING, and the execution fails only from RUNNING.               *)
FailWaiting(a, decision) ==
    LET s == a[1] IN
    /\ Decidable(a)
    /\ att[a] = "WAITING"
    /\ approval' = [approval EXCEPT ![a] = decision]
    /\ att' = [att EXCEPT ![a] = "FAILED"]
    /\ step' = [step EXCEPT ![s] = IF @ = "WAITING" THEN FailedStepStatus(a) ELSE @]
    /\ exec' = IF exec = "RUNNING" /\ step[s] = "WAITING" /\ StopsExecution(a)
               THEN "FAILED" ELSE exec
    /\ UNCHANGED <<tries, outbox, dispatchCount, inbox, payload, reservation,
                   worker, dispatcher, pass, cancelling>>

Deny(a)   == DecideSettled(a, "DENIED")  \/ FailWaiting(a, "DENIED")
Expire(a) == DecideSettled(a, "EXPIRED") \/ FailWaiting(a, "EXPIRED")

(* Approved, but the budget no longer covers the attempt, or the runtime   *)
(* lost the capability it needs.                                           *)
ApproveRefused(a) ==
    /\ Declares[a[1]] \cap {"budget", "capability"} # {}
    /\ FailWaiting(a, "APPROVED")

(* The same attempt becomes dispatchable.  The unique index on active      *)
(* attempts aborts the transaction when another attempt is active.         *)
ApproveResume(a) ==
    /\ Decidable(a)
    /\ att[a] = "WAITING"
    /\ NoIndexedAttempt(a[1])
    /\ approval' = [approval EXCEPT ![a] = "APPROVED"]
    /\ att' = [att EXCEPT ![a] = "CREATED"]
    /\ step' = [step EXCEPT ![a[1]] = "RUNNING"]
    /\ outbox' = [outbox EXCEPT ![a] = "PENDING"]
    /\ reservation' = [reservation EXCEPT ![a] = Reserved(a)]
    /\ UNCHANGED <<exec, tries, dispatchCount, inbox, payload, worker,
                   dispatcher, pass, cancelling>>

Approve(a) == DecideSettled(a, "APPROVED") \/ ApproveRefused(a) \/ ApproveResume(a)

=============================================================================
