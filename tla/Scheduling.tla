------------------------------ MODULE Scheduling ------------------------------
(***************************************************************************)
(* The reconciliation pass of the engine and the claim of a runnable step. *)
(*                                                                         *)
(* A pass is a sequence of short transactions of one process: promote the  *)
(* execution, read the steps, advance the PENDING ones, read everything    *)
(* again, then act on that second read.  Other replicas, callbacks and the *)
(* recovery tick run between any two of them, so what a pass acts on may   *)
(* be stale.  A crash loses the pass and nothing else.                     *)
(***************************************************************************)
EXTENDS ControlPlaneState

IdlePass == [pc |-> "idle", todo |-> {}]

(* Executions the recovery scan selects. *)
MutantForgetsPending ==
    /\ exec = "RUNNING"
    /\ \/ \E s \in Steps : step[s] \in {"PENDING", "READY", "RETRYING"}
       \/ \A s \in Steps : step[s] \in TerminalStep
Candidate ==
    /\ exec \in {"PENDING", "RUNNING"}
    /\ \/ \E s \in Steps : step[s] \in {"PENDING", "READY", "RETRYING"}
       \/ \A s \in Steps : step[s] \in TerminalStep

(* A PENDING execution becomes RUNNING in a transaction of its own.        *)
PassBegin(e) ==
    /\ pass[e].pc = "idle"
    /\ exec \notin TerminalExecution
    /\ exec' = "RUNNING"
    /\ pass' = [pass EXCEPT ![e].pc = "promoted"]
    /\ UNCHANGED <<step, tries, att, outbox, dispatchCount, inbox, payload,
                   approval, reservation, worker, dispatcher, cancelling>>

(* The unlocked read that selects the steps to advance.                    *)
PassRead(e) ==
    /\ pass[e].pc = "promoted"
    /\ pass' = [pass EXCEPT ![e] =
           [pc |-> "advance",
            todo |-> IF exec # "RUNNING" THEN {}
                     ELSE {s \in Steps : step[s] = "PENDING" /\ DependenciesResolved(s)}]]
    /\ UNCHANGED <<rows, worker, dispatcher, cancelling>>

(* Every selected row is locked and its status checked again.              *)
MutantAdvancesUnchecked(s) == s \in Steps
Advances(s) ==
    /\ step[s] = "PENDING"
    /\ \A n \in 1..AttemptBound : att[<<s, n>>] \notin ActiveAttempt
PassAdvance(e) ==
    /\ pass[e].pc = "advance"
    /\ step' = [s \in Steps |-> IF s \in pass[e].todo /\ Advances(s)
                                THEN "READY" ELSE step[s]]
    /\ pass' = [pass EXCEPT ![e] = [pc |-> "check", todo |-> {}]]
    /\ UNCHANGED <<exec, tries, att, outbox, dispatchCount, inbox, payload,
                   approval, reservation, worker, dispatcher, cancelling>>

(* The execution is read again, then the steps, in separate queries.       *)
PassCheck(e) ==
    /\ pass[e].pc = "check"
    /\ pass' = [pass EXCEPT ![e] =
           IF exec = "RUNNING" THEN [pc |-> "decide", todo |-> {}] ELSE IdlePass]
    /\ UNCHANGED <<rows, worker, dispatcher, cancelling>>

(* What the pass will do, in the order of its early returns.               *)
MutantNothingInFlight == \A s \in Steps : step[s] \notin {"READY", "RETRYING", "RUNNING"}
AllSettled == \A s \in Steps : step[s] \in TerminalStep
Due == {s \in Steps : step[s] \in {"READY", "RETRYING"}}
Decision ==
    IF \E s \in Steps : step[s] = "FAILED" /\ OnFailure[s] # "continue" THEN "fail"
    ELSE IF \E s \in Steps : step[s] = "CANCELLED" THEN "cancel"
    ELSE IF AllSettled THEN "complete"
    ELSE IF Due # {} THEN "claim"
    ELSE "idle"
PassDecide(e) ==
    /\ pass[e].pc = "decide"
    /\ pass' = [pass EXCEPT ![e] =
           [pc |-> Decision,
            todo |-> IF Decision = "claim" THEN Due ELSE {}]]
    /\ UNCHANGED <<rows, worker, dispatcher, cancelling>>

(* The guarded terminal update at the end of a pass.                       *)
PassFail(e) ==
    /\ pass[e].pc = "fail"
    /\ exec' = Terminalize("FAILED")
    /\ pass' = [pass EXCEPT ![e] = IdlePass]
    /\ UNCHANGED <<step, tries, att, outbox, dispatchCount, inbox, payload,
                   approval, reservation, worker, dispatcher, cancelling>>
PassComplete(e) ==
    /\ pass[e].pc = "complete"
    /\ exec' = Terminalize("COMPLETED")
    /\ pass' = [pass EXCEPT ![e] = IdlePass]
    /\ UNCHANGED <<step, tries, att, outbox, dispatchCount, inbox, payload,
                   approval, reservation, worker, dispatcher, cancelling>>

(* The process dies between two transactions of the pass.                  *)
PassCrash(e) ==
    /\ e \in Unreliable
    /\ pass[e].pc # "idle"
    /\ pass' = [pass EXCEPT ![e] = IdlePass]
    /\ UNCHANGED <<rows, worker, dispatcher, cancelling>>
-----------------------------------------------------------------------------
(* Claiming the due steps one by one.                                      *)

Handled(e, s) ==
    LET left == pass[e].todo \ {s} IN
    pass' = [pass EXCEPT ![e] = IF left = {} THEN IdlePass
                                ELSE [pc |-> "claim", todo |-> left]]

(* The locked re-check at the head of the claim transaction.               *)
MutantIgnoresExecution(s) == step[s] \in {"READY", "RETRYING"}
Runnable(s) == exec = "RUNNING" /\ step[s] \in {"READY", "RETRYING"}
Claimable(s) ==
    /\ Runnable(s)
    /\ DependenciesResolved(s)
    /\ NoIndexedAttempt(s)

(* What the claim pins is not there, or not what it was: the active        *)
(* revision lacks the step, the specification is frozen with another hash, *)
(* or the connection the step selects is missing or revoked.  The claim    *)
(* throws: its transaction rolls back, which leaves the step runnable, and *)
(* the pass ends with its other due steps unclaimed.                       *)
ClaimThrows(e, s) ==
    /\ pass[e].pc = "claim" /\ s \in pass[e].todo
    /\ Runnable(s)
    /\ "pinned" \in Declares[s]
    /\ pass' = [pass EXCEPT ![e] = IdlePass]
    /\ UNCHANGED <<rows, worker, dispatcher, cancelling>>

(* Another replica won, or the run moved on since the pass read the step.  *)
ClaimNothing(e, s) ==
    /\ pass[e].pc = "claim" /\ s \in pass[e].todo
    /\ ~Claimable(s)
    /\ Handled(e, s)
    /\ UNCHANGED <<rows, worker, dispatcher, cancelling>>

(* The input template does not resolve: the run fails, no attempt is made. *)
ClaimTemplateFailure(e, s) ==
    /\ pass[e].pc = "claim" /\ s \in pass[e].todo
    /\ "template" \in Declares[s]
    /\ exec' = Terminalize("FAILED")
    /\ pass' = [pass EXCEPT ![e] = IdlePass]
    /\ UNCHANGED <<step, tries, att, outbox, dispatchCount, inbox, payload,
                   approval, reservation, worker, dispatcher, cancelling>>

(* The authority deadline passed before the claim.                         *)
ClaimAuthorityExpired(e, s) ==
    /\ pass[e].pc = "claim" /\ s \in pass[e].todo
    /\ Runnable(s)
    /\ AuthorityDeadline
    /\ step' = [step EXCEPT ![s] = "CANCELLED"]
    /\ exec' = "FAILED"
    /\ Handled(e, s)
    /\ UNCHANGED <<tries, att, outbox, dispatchCount, inbox, payload,
                   approval, reservation, worker, dispatcher, cancelling>>

(* The step's condition is false.                                          *)
ClaimSkip(e, s) ==
    /\ pass[e].pc = "claim" /\ s \in pass[e].todo
    /\ Runnable(s) /\ DependenciesResolved(s)
    /\ "condition" \in Declares[s]
    /\ step' = [step EXCEPT ![s] = "SKIPPED"]
    /\ Handled(e, s)
    /\ UNCHANGED <<exec, tries, att, outbox, dispatchCount, inbox, payload,
                   approval, reservation, worker, dispatcher, cancelling>>

NextAttempt(s) == <<s, tries[s] + 1>>

(* Every claim that gets this far takes the next attempt number.           *)
Claims(e, s) ==
    /\ pass[e].pc = "claim" /\ s \in pass[e].todo
    /\ Claimable(s)
    /\ tries[s] < AttemptBound
    /\ tries' = [tries EXCEPT ![s] = @ + 1]
    /\ Handled(e, s)

(* Context projection, capability, policy or budget refuses the attempt    *)
(* before any work authority exists: a FAILED attempt without outbox row,  *)
(* and the failure policy in the same transaction.                         *)
ClaimRefused(e, s) ==
    /\ Claims(e, s)
    /\ Declares[s] \cap {"projection", "capability", "policy", "budget"} # {}
    /\ att' = [att EXCEPT ![NextAttempt(s)] = "FAILED"]
    /\ step' = [step EXCEPT ![s] = FailedStepStatus(NextAttempt(s))]
    /\ exec' = IF StopsExecution(NextAttempt(s)) THEN "FAILED" ELSE exec
    /\ UNCHANGED <<outbox, dispatchCount, inbox, payload, approval,
                   reservation, worker, dispatcher, cancelling>>

(* Policy requires an approval: the attempt and the step wait.             *)
ClaimWaiting(e, s) ==
    /\ Claims(e, s)
    /\ "policy" \in Declares[s]
    /\ att' = [att EXCEPT ![NextAttempt(s)] = "WAITING"]
    /\ step' = [step EXCEPT ![s] = "WAITING"]
    /\ approval' = [approval EXCEPT ![NextAttempt(s)] = "PENDING"]
    /\ UNCHANGED <<exec, outbox, dispatchCount, inbox, payload, reservation,
                   worker, dispatcher, cancelling>>

(* Budget reservation, attempt and outbox row commit together.             *)
ClaimDispatchable(e, s) ==
    /\ Claims(e, s)
    /\ att' = [att EXCEPT ![NextAttempt(s)] = "CREATED"]
    /\ step' = [step EXCEPT ![s] = "RUNNING"]
    /\ outbox' = [outbox EXCEPT ![NextAttempt(s)] = "PENDING"]
    /\ reservation' = [reservation EXCEPT ![NextAttempt(s)] = Reserved(NextAttempt(s))]
    /\ UNCHANGED <<exec, dispatchCount, inbox, payload, approval,
                   worker, dispatcher, cancelling>>
-----------------------------------------------------------------------------
(* Cancellation.  The transaction first selects and locks the active       *)
(* attempts, then waits for the step rows and the execution row: a claim   *)
(* that holds its step row can still commit in between.                    *)

CancelBegin ==
    /\ ~cancelling.open
    /\ cancelling' = [open |-> TRUE,
                      attempts |-> {a \in Attempts : att[a] \in ActiveAttempt}]

CancelRequest ==
    /\ ApiCancel
    /\ CancelBegin
    /\ UNCHANGED <<rows, worker, dispatcher, pass>>

PassCancel(e) ==
    /\ pass[e].pc = "cancel"
    /\ CancelBegin
    /\ pass' = [pass EXCEPT ![e] = IdlePass]
    /\ UNCHANGED <<rows, worker, dispatcher>>

CancelClosed == [open |-> FALSE, attempts |-> {}]

(* The run was already terminal: nothing changes.                          *)
CancelTooLate ==
    /\ cancelling.open
    /\ exec \in TerminalExecution
    /\ cancelling' = CancelClosed
    /\ UNCHANGED <<rows, worker, dispatcher, pass>>

CancelCommit ==
    /\ cancelling.open
    /\ exec \notin TerminalExecution
    /\ LET locked == cancelling.attempts IN
       /\ att' = [a \in Attempts |-> IF a \in locked THEN "CANCELLED" ELSE att[a]]
       /\ outbox' = [a \in Attempts |-> IF a \in locked THEN Retired(outbox[a]) ELSE outbox[a]]
       /\ reservation' = [a \in Attempts |-> IF a \in locked THEN Closed(a, "RELEASED")
                                             ELSE reservation[a]]
    /\ step' = [s \in Steps |-> IF step[s] \in CancellableStep THEN "CANCELLED" ELSE step[s]]
    /\ exec' = "CANCELLED"
    /\ cancelling' = CancelClosed
    /\ UNCHANGED <<tries, dispatchCount, inbox, payload, approval, worker,
                   dispatcher, pass>>

=============================================================================
