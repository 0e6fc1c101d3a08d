----------------------------- MODULE ResultInbox -----------------------------
(***************************************************************************)
(* Application of terminal results and of liveness events.                 *)
(*                                                                         *)
(* Once a worker has accepted an invocation its result may arrive at any   *)
(* time, any number of times, before the dispatch receipt is committed or  *)
(* long after the attempt was settled another way.  The recovery tick and  *)
(* the supervision pass feed synthetic results through the same door.      *)
(* Deliveries that change nothing (an unknown invocation, an identical     *)
(* duplicate of an applied result, a different payload for a received one) *)
(* are stuttering steps here.                                              *)
(***************************************************************************)
EXTENDS ControlPlaneState

AttemptStatusOf(p) ==
    CASE p = "succeeded" -> "SUCCESS"
      [] p = "failed"    -> "FAILED"
      [] p = "cancelled" -> "CANCELLED"
      [] OTHER           -> "TIMED_OUT"

HasDeadline(a) == "timeout" \in Declares[a[1]] \/ AuthorityDeadline

(* Who can deliver which payload for an attempt.  The recovery tick lists  *)
(* overdue attempts without a lock and settles them one after the other:   *)
(* an attempt it saw active may be settled when its turn comes, so all     *)
(* that holds then is that the attempt once had an outbox row.             *)
FromWorker(a, p) == p \in WorkerOutcomes /\ worker[a] = "accepted"
MutantForgetsCreated(a, p) == /\ p = "deadline"
                              /\ HasDeadline(a)
                              /\ att[a] \in {"DISPATCHED", "RUNNING"}
FromDeadline(a, p) == /\ p = "deadline"
                      /\ HasDeadline(a)
                      /\ outbox[a] # "NONE"
FromSupervision(a, p) == /\ p = "supervision"
                         /\ "supervised" \in Declares[a[1]]
                         /\ att[a] \in {"DISPATCHED", "RUNNING"}

(* Received for the first time, or again with the identical payload after  *)
(* an earlier rejection.                                                   *)
Received(a, p) ==
    /\ att[a] # "NONE"
    /\ Unlocked(a)
    /\ \/ inbox[a] = "NONE"
       \/ inbox[a] = "REJECTED" /\ payload[a] = p

(* Cancellation, or another terminal outcome, is already authoritative.    *)
MutantOnlyCancelSupersedes(a, p) == exec = "CANCELLED" /\ p \in Payloads
Superseded(a, p) ==
    \/ exec = "CANCELLED"
    \/ att[a] \in TerminalAttempt /\ att[a] # AttemptStatusOf(p)

ApplyRejected(a, p) ==
    /\ Received(a, p)
    /\ Superseded(a, p)
    /\ inbox' = [inbox EXCEPT ![a] = "REJECTED"]
    /\ payload' = [payload EXCEPT ![a] = p]
    /\ UNCHANGED <<exec, step, tries, att, outbox, dispatchCount, approval,
                   reservation, worker, dispatcher, pass, cancelling>>

(* A declared state write or planner proposal that does not validate turns *)
(* a success of a live run into a failure.                                 *)
EffectiveStatuses(a, p) ==
    IF /\ exec = "RUNNING" /\ p = "succeeded"
       /\ "postcondition" \in Declares[a[1]]
    THEN {"SUCCESS", "FAILED"}
    ELSE {AttemptStatusOf(p)}

RetriesStep(a, status) ==
    /\ exec = "RUNNING"
    /\ status \in {"FAILED", "TIMED_OUT"}
    /\ RetryAllowed(a)

SettledStepStatus(a, status) ==
    CASE status = "SUCCESS"   -> "COMPLETED"
      [] status = "CANCELLED" -> "CANCELLED"
      [] OTHER                -> IF RetriesStep(a, status) THEN "RETRYING" ELSE "FAILED"

SettledExecution(a, stepStatus) ==
    CASE stepStatus = "FAILED" /\ OnFailure[a[1]] # "continue" -> Terminalize("FAILED")
      [] stepStatus = "CANCELLED" -> Terminalize("CANCELLED")
      [] OTHER -> exec

(* Attempt, reservation, outbox row, step and execution settle together.   *)
(* The step is written whatever its state; the attempt and the reservation *)
(* only when this result owns the terminal transition.                     *)
ApplyCanonical(a, p) ==
    /\ Received(a, p)
    /\ ~Superseded(a, p)
    /\ inbox' = [inbox EXCEPT ![a] = "APPLIED"]
    /\ payload' = [payload EXCEPT ![a] = p]
    /\ \E status \in EffectiveStatuses(a, p) :
         LET stepStatus == SettledStepStatus(a, status) IN
         /\ att' = [att EXCEPT ![a] = IF @ \in TerminalAttempt THEN @ ELSE status]
         /\ step' = [step EXCEPT ![a[1]] = stepStatus]
         /\ exec' = SettledExecution(a, stepStatus)
    /\ reservation' = [reservation EXCEPT ![a] =
           IF att[a] \in TerminalAttempt THEN @ ELSE Closed(a, "RECONCILED")]
    /\ outbox' = [outbox EXCEPT ![a] = Retired(@)]
    /\ UNCHANGED <<tries, dispatchCount, approval, worker, dispatcher, pass,
                   cancelling>>

WorkerResult(a, p) ==
    FromWorker(a, p) /\ (ApplyRejected(a, p) \/ ApplyCanonical(a, p))

(* Overdue attempts, from the recovery tick.                               *)
ExpireAttempt(a) ==
    /\ FromDeadline(a, "deadline")
    /\ ApplyRejected(a, "deadline") \/ ApplyCanonical(a, "deadline")

(* Silent or stale attempts, from the supervision pass.                    *)
SupervisionTimeout(a) ==
    /\ FromSupervision(a, "supervision")
    /\ ApplyRejected(a, "supervision") \/ ApplyCanonical(a, "supervision")

(* A heartbeat, progress, log or artifact event of a live attempt.         *)
ProjectLiveness(a) ==
    /\ worker[a] = "accepted"
    /\ Unlocked(a)
    /\ att[a] = "DISPATCHED"
    /\ att' = [att EXCEPT ![a] = "RUNNING"]
    /\ UNCHANGED <<exec, step, tries, outbox, dispatchCount, inbox, payload,
                   approval, reservation, worker, dispatcher, pass, cancelling>>

=============================================================================
