---------------------------- MODULE DispatchOutbox ----------------------------
(***************************************************************************)
(* At-least-once delivery of invocations from the dispatch outbox.         *)
(*                                                                         *)
(* A dispatch loop leases a row in one transaction, calls the executor     *)
(* outside any transaction, and commits the outcome in another one under   *)
(* its lease token.  A lease may expire while its holder is still calling, *)
(* so several loops can hold the same row with different tokens.  The      *)
(* token of a lease is named here by the dispatchCount it was issued with, *)
(* which is as unique per row as the random token of the code.             *)
(***************************************************************************)
EXTENDS ControlPlaneState

IdleDispatcher == [pc |-> "idle", attempt |-> NoAttempt, token |-> 0]

MutantTokenOnly(d, a) == dispatcher[d].token = dispatchCount[a]
HoldsLease(d, a) == outbox[a] = "LEASED" /\ dispatcher[d].token = dispatchCount[a]

(* Every lease, also one that takes over an expired lease, has a token of  *)
(* its own.                                                                *)
NewToken(a) == dispatchCount[a] + 1

(* A PENDING row, or a LEASED row whose lease has expired, of an attempt   *)
(* and an execution that are not terminal.                                 *)
Lease(d, a) ==
    /\ dispatcher[d].pc = "idle"
    /\ outbox[a] \in {"PENDING", "LEASED"}
    /\ att[a] \notin TerminalAttempt
    /\ exec \notin TerminalExecution
    /\ Unlocked(a)
    /\ dispatchCount[a] < LeaseBound
    /\ outbox' = [outbox EXCEPT ![a] = "LEASED"]
    /\ dispatchCount' = [dispatchCount EXCEPT ![a] = NewToken(a)]
    /\ dispatcher' = [dispatcher EXCEPT ![d] =
           [pc |-> "leased", attempt |-> a, token |-> NewToken(a)]]
    /\ UNCHANGED <<exec, step, tries, att, inbox, payload, approval,
                   reservation, worker, pass, cancelling>>

(* The call to the executor, outside any transaction.  A transport error   *)
(* or timeout is retryable whether or not the invocation arrived.  A       *)
(* permanent rejection may come from the worker, from the configuration,   *)
(* from a revoked connection, or from an acceptance the adapter could not  *)
(* read; without ExclusiveRejection the invocation may have been executed. *)
MayAccept(a) == ~ExclusiveRejection \/ worker[a] # "refused"
MayReject(a) == ~ExclusiveRejection \/ worker[a] # "accepted"

InvokeAccepted(d) ==
    LET a == dispatcher[d].attempt IN
    /\ dispatcher[d].pc = "leased"
    /\ MayAccept(a)
    /\ worker' = [worker EXCEPT ![a] = "accepted"]
    /\ \E pc \in {"delivered", "retryable"} \cup
                 (IF ExclusiveRejection THEN {} ELSE {"rejected"}) :
           dispatcher' = [dispatcher EXCEPT ![d].pc = pc]
    /\ UNCHANGED <<rows, pass, cancelling>>

InvokeLost(d) ==
    /\ dispatcher[d].pc = "leased"
    /\ dispatcher' = [dispatcher EXCEPT ![d].pc = "retryable"]
    /\ UNCHANGED <<rows, worker, pass, cancelling>>

InvokeRejected(d) ==
    LET a == dispatcher[d].attempt IN
    /\ dispatcher[d].pc = "leased"
    /\ MayReject(a)
    /\ worker' = [worker EXCEPT ![a] = IF @ = "accepted" THEN @ ELSE "refused"]
    /\ dispatcher' = [dispatcher EXCEPT ![d].pc = "rejected"]
    /\ UNCHANGED <<rows, pass, cancelling>>

(* The receipt commits only for a live attempt and the current lease.      *)
MarkDispatched(d) ==
    LET a == dispatcher[d].attempt
        commits == att[a] \notin TerminalAttempt /\ HoldsLease(d, a) IN
    /\ dispatcher[d].pc = "delivered"
    /\ Unlocked(a)
    /\ outbox' = [outbox EXCEPT ![a] = IF commits THEN "DISPATCHED" ELSE @]
    /\ att' = [att EXCEPT ![a] = IF commits /\ @ = "CREATED" THEN "DISPATCHED" ELSE @]
    /\ dispatcher' = [dispatcher EXCEPT ![d] = IdleDispatcher]
    /\ UNCHANGED <<exec, step, tries, dispatchCount, inbox, payload, approval,
                   reservation, worker, pass, cancelling>>

(* A retryable failure gives the row back for the same invocation.         *)
ReturnToPending(d) ==
    LET a == dispatcher[d].attempt IN
    /\ dispatcher[d].pc = "retryable"
    /\ outbox' = [outbox EXCEPT ![a] = IF HoldsLease(d, a) THEN "PENDING" ELSE @]
    /\ dispatcher' = [dispatcher EXCEPT ![d] = IdleDispatcher]
    /\ UNCHANGED <<exec, step, tries, att, dispatchCount, inbox, payload,
                   approval, reservation, worker, pass, cancelling>>

(* A permanent rejection fails the row and the attempt, releases the       *)
(* reservation and applies the failure policy unless the step is settled.  *)
FailNonRetryable(d) ==
    LET a == dispatcher[d].attempt
        s == a[1]
        owns == att[a] \notin TerminalAttempt
        settles == owns /\ step[s] \notin TerminalStep IN
    /\ dispatcher[d].pc = "rejected"
    /\ Unlocked(a)
    /\ HoldsLease(d, a)
    /\ outbox' = [outbox EXCEPT ![a] = "FAILED"]
    /\ att' = [att EXCEPT ![a] = IF owns THEN "FAILED" ELSE @]
    /\ reservation' = [reservation EXCEPT ![a] = IF owns THEN Closed(a, "RELEASED") ELSE @]
    /\ step' = [step EXCEPT ![s] = IF settles THEN FailedStepStatus(a) ELSE @]
    /\ exec' = IF settles /\ StopsExecution(a) THEN Terminalize("FAILED") ELSE exec
    /\ dispatcher' = [dispatcher EXCEPT ![d] = IdleDispatcher]
    /\ UNCHANGED <<tries, dispatchCount, inbox, payload, approval, worker,
                   pass, cancelling>>

(* The rejection belongs to a lease that is no longer current.             *)
StaleRejection(d) ==
    LET a == dispatcher[d].attempt IN
    /\ dispatcher[d].pc = "rejected"
    /\ Unlocked(a)
    /\ ~HoldsLease(d, a)
    /\ dispatcher' = [dispatcher EXCEPT ![d] = IdleDispatcher]
    /\ UNCHANGED <<rows, worker, pass, cancelling>>

(* The process dies with a lease in hand, before or after the call.        *)
DispatcherCrash(d) ==
    /\ dispatcher[d].pc # "idle"
    /\ dispatcher' = [dispatcher EXCEPT ![d] = IdleDispatcher]
    /\ UNCHANGED <<rows, worker, pass, cancelling>>

=============================================================================
