-------------------------- MODULE ControlPlaneProofs --------------------------
(***************************************************************************)
(* Theorems about the control plane, for every plan, every number of       *)
(* replicas and dispatch loops, and every value of the bounds: types,      *)
(* delivery, exclusion, budget and approvals, and what no step of it may   *)
(* ever rewrite.                                                           *)
(***************************************************************************)
EXTENDS ControlPlane, TLAPS

(* Attempts are pairs of a step and a number.                              *)
LEMMA AttemptPairs ==
    /\ \A a \in Attempts : a[1] \in Steps /\ a[2] \in 1..AttemptBound /\ a = <<a[1], a[2]>>
    /\ \A s \in Steps, n \in 1..AttemptBound : <<s, n>> \in Attempts
  BY DEF Attempts

(* A busy dispatcher works on an attempt.                                  *)
DispatcherWorks ==
    \A d \in Dispatchers : dispatcher[d].pc # "idle" => dispatcher[d].attempt \in Attempts

TypeInv == TypeOK /\ DispatcherWorks

(* A claim takes an attempt number within the bound.                       *)
LEMMA NextAttemptType ==
    ASSUME TypeOK, NEW s \in Steps, tries[s] < AttemptBound
    PROVE  NextAttempt(s) \in Attempts /\ tries[s] + 1 \in 0..AttemptBound
  BY BoundAssumption, AttemptPairs DEF TypeOK, NextAttempt

(* The rows of a new execution are typed, and no actor has begun.          *)
LEMMA TypeInit == Init => TypeInv
  BY BoundAssumption DEF Init, TypeInv, TypeOK, DispatcherWorks, ExecutionStatuses,
     StepStatuses, AttemptStatuses, OutboxStatuses, InboxStatuses, ApprovalStatuses,
     ReservationStatuses, DispatcherStates, PassStates, CancelStates, IdleDispatcher,
     IdlePass, CancelClosed

Decisions == {"APPROVED", "DENIED", "EXPIRED"}

(* The promotion of a PENDING execution keeps every row and actor typed.   *)
LEMMA PassBeginType ==
    ASSUME TypeInv, NEW e \in Engines, PassBegin(e)
    PROVE  TypeInv'
<1>1. exec' \in ExecutionStatuses
  BY DEF PassBegin, ExecutionStatuses
<1>2. pass' \in [Engines -> PassStates]
  BY DEF TypeInv, TypeOK, PassBegin, PassStates, IdlePass, Handled
<1>3. DispatcherWorks'
  BY DEF PassBegin, TypeInv, DispatcherWorks
<1> QED BY <1>1, <1>2, <1>3 DEF TypeInv, TypeOK, PassBegin

(* The unlocked read of the steps to advance keeps every row and actor typed. *)
LEMMA PassReadType ==
    ASSUME TypeInv, NEW e \in Engines, PassRead(e)
    PROVE  TypeInv'
<1>1. pass' \in [Engines -> PassStates]
  BY DEF TypeInv, TypeOK, PassRead, PassStates
<1>2. DispatcherWorks'
  BY DEF PassRead, TypeInv, DispatcherWorks
<1> QED BY <1>1, <1>2 DEF TypeInv, TypeOK, PassRead, rows

(* The advancement of PENDING steps keeps every row and actor typed.       *)
LEMMA PassAdvanceType ==
    ASSUME TypeInv, NEW e \in Engines, PassAdvance(e)
    PROVE  TypeInv'
<1>1. step' \in [Steps -> StepStatuses]
  BY DEF TypeInv, TypeOK, PassAdvance, StepStatuses
<1>2. pass' \in [Engines -> PassStates]
  BY DEF TypeInv, TypeOK, PassAdvance, PassStates
<1>3. DispatcherWorks'
  BY DEF PassAdvance, TypeInv, DispatcherWorks
<1> QED BY <1>1, <1>2, <1>3 DEF TypeInv, TypeOK, PassAdvance

(* The second read of the execution keeps every row and actor typed.       *)
LEMMA PassCheckType ==
    ASSUME TypeInv, NEW e \in Engines, PassCheck(e)
    PROVE  TypeInv'
<1>1. pass' \in [Engines -> PassStates]
  BY DEF TypeInv, TypeOK, PassCheck, PassStates, IdlePass
<1>2. DispatcherWorks'
  BY DEF PassCheck, TypeInv, DispatcherWorks
<1> QED BY <1>1, <1>2 DEF TypeInv, TypeOK, PassCheck, rows

(* The decision of a pass keeps every row and actor typed.                 *)
LEMMA PassDecideType ==
    ASSUME TypeInv, NEW e \in Engines, PassDecide(e)
    PROVE  TypeInv'
<1>1. pass' \in [Engines -> PassStates]
  BY DEF TypeInv, TypeOK, PassDecide, PassStates, Decision, Due
<1>2. DispatcherWorks'
  BY DEF PassDecide, TypeInv, DispatcherWorks
<1> QED BY <1>1, <1>2 DEF TypeInv, TypeOK, PassDecide, rows

(* The guarded failure of the run keeps every row and actor typed.         *)
LEMMA PassFailType ==
    ASSUME TypeInv, NEW e \in Engines, PassFail(e)
    PROVE  TypeInv'
<1>1. exec' \in ExecutionStatuses
  BY DEF PassFail, ExecutionStatuses, Terminalize, TerminalExecution
<1>2. pass' \in [Engines -> PassStates]
  BY DEF TypeInv, TypeOK, PassFail, PassStates, IdlePass
<1>3. DispatcherWorks'
  BY DEF PassFail, TypeInv, DispatcherWorks
<1> QED BY <1>1, <1>2, <1>3 DEF TypeInv, TypeOK, PassFail

(* The guarded completion of the run keeps every row and actor typed.      *)
LEMMA PassCompleteType ==
    ASSUME TypeInv, NEW e \in Engines, PassComplete(e)
    PROVE  TypeInv'
<1>1. exec' \in ExecutionStatuses
  BY DEF PassComplete, ExecutionStatuses, Terminalize, TerminalExecution
<1>2. pass' \in [Engines -> PassStates]
  BY DEF TypeInv, TypeOK, PassComplete, PassStates, IdlePass
<1>3. DispatcherWorks'
  BY DEF PassComplete, TypeInv, DispatcherWorks
<1> QED BY <1>1, <1>2, <1>3 DEF TypeInv, TypeOK, PassComplete

(* The death of a replica keeps every row and actor typed.                 *)
LEMMA PassCrashType ==
    ASSUME TypeInv, NEW e \in Engines, PassCrash(e)
    PROVE  TypeInv'
<1>1. pass' \in [Engines -> PassStates]
  BY DEF TypeInv, TypeOK, PassCrash, PassStates, IdlePass
<1>2. DispatcherWorks'
  BY DEF PassCrash, TypeInv, DispatcherWorks
<1> QED BY <1>1, <1>2 DEF TypeInv, TypeOK, PassCrash, rows

(* A claim that throws keeps every row and actor typed.                    *)
LEMMA ClaimThrowsType ==
    ASSUME TypeInv, NEW e \in Engines, NEW s \in Steps, ClaimThrows(e, s)
    PROVE  TypeInv'
<1>1. pass' \in [Engines -> PassStates]
  BY DEF TypeInv, TypeOK, ClaimThrows, PassStates, IdlePass
<1>2. dispatcher' = dispatcher
  BY DEF ClaimThrows
<1> QED BY <1>1, <1>2 DEF TypeInv, TypeOK, ClaimThrows, rows, DispatcherWorks

(* A claim that lost its race keeps every row and actor typed.             *)
LEMMA ClaimNothingType ==
    ASSUME TypeInv, NEW e \in Engines, NEW s \in Steps, ClaimNothing(e, s)
    PROVE  TypeInv'
<1>1. pass' \in [Engines -> PassStates]
  BY DEF TypeInv, TypeOK, ClaimNothing, PassStates, IdlePass, Handled
<1>2. DispatcherWorks'
  BY DEF ClaimNothing, TypeInv, DispatcherWorks
<1> QED BY <1>1, <1>2 DEF TypeInv, TypeOK, ClaimNothing, rows

(* A template that does not resolve keeps every row and actor typed.       *)
LEMMA ClaimTemplateFailureType ==
    ASSUME TypeInv, NEW e \in Engines, NEW s \in Steps, ClaimTemplateFailure(e, s)
    PROVE  TypeInv'
<1>1. exec' \in ExecutionStatuses
  BY DEF ClaimTemplateFailure, ExecutionStatuses, Terminalize, TerminalExecution
<1>2. pass' \in [Engines -> PassStates]
  BY DEF TypeInv, TypeOK, ClaimTemplateFailure, PassStates, IdlePass
<1>3. DispatcherWorks'
  BY DEF ClaimTemplateFailure, TypeInv, DispatcherWorks
<1> QED BY <1>1, <1>2, <1>3 DEF TypeInv, TypeOK, ClaimTemplateFailure

(* A claim after the authority deadline keeps every row and actor typed.   *)
LEMMA ClaimAuthorityExpiredType ==
    ASSUME TypeInv, NEW e \in Engines, NEW s \in Steps, ClaimAuthorityExpired(e, s)
    PROVE  TypeInv'
<1>1. exec' \in ExecutionStatuses
  BY DEF ClaimAuthorityExpired, ExecutionStatuses
<1>2. step' \in [Steps -> StepStatuses]
  BY DEF TypeInv, TypeOK, ClaimAuthorityExpired, StepStatuses
<1>3. pass' \in [Engines -> PassStates]
  BY DEF TypeInv, TypeOK, ClaimAuthorityExpired, PassStates, IdlePass, Handled
<1>4. DispatcherWorks'
  BY DEF ClaimAuthorityExpired, TypeInv, DispatcherWorks
<1> QED BY <1>1, <1>2, <1>3, <1>4 DEF TypeInv, TypeOK, ClaimAuthorityExpired

(* A false condition keeps every row and actor typed.                      *)
LEMMA ClaimSkipType ==
    ASSUME TypeInv, NEW e \in Engines, NEW s \in Steps, ClaimSkip(e, s)
    PROVE  TypeInv'
<1>1. step' \in [Steps -> StepStatuses]
  BY DEF TypeInv, TypeOK, ClaimSkip, StepStatuses
<1>2. pass' \in [Engines -> PassStates]
  BY DEF TypeInv, TypeOK, ClaimSkip, PassStates, IdlePass, Handled
<1>3. DispatcherWorks'
  BY DEF ClaimSkip, TypeInv, DispatcherWorks
<1> QED BY <1>1, <1>2, <1>3 DEF TypeInv, TypeOK, ClaimSkip

(* A claim refused before any authority keeps every row and actor typed.   *)
LEMMA ClaimRefusedType ==
    ASSUME TypeInv, NEW e \in Engines, NEW s \in Steps, ClaimRefused(e, s)
    PROVE  TypeInv'
<1>1. exec' \in ExecutionStatuses
  BY DEF TypeInv, TypeOK, ClaimRefused, ExecutionStatuses
<1>2. step' \in [Steps -> StepStatuses]
  BY DEF TypeInv, TypeOK, ClaimRefused, StepStatuses, FailedStepStatus
<1>3. tries' \in [Steps -> 0..AttemptBound]
  BY NextAttemptType DEF TypeInv, TypeOK, ClaimRefused, Claims
<1>4. att' \in [Attempts -> AttemptStatuses]
  BY DEF TypeInv, TypeOK, ClaimRefused, AttemptStatuses
<1>5. pass' \in [Engines -> PassStates]
  BY DEF TypeInv, TypeOK, ClaimRefused, PassStates, IdlePass, Handled, Claims
<1>6. DispatcherWorks'
  BY DEF ClaimRefused, TypeInv, DispatcherWorks
<1> QED BY <1>1, <1>2, <1>3, <1>4, <1>5, <1>6 DEF TypeInv, TypeOK, ClaimRefused

(* A claim that waits for an approval keeps every row and actor typed.     *)
LEMMA ClaimWaitingType ==
    ASSUME TypeInv, NEW e \in Engines, NEW s \in Steps, ClaimWaiting(e, s)
    PROVE  TypeInv'
<1>1. step' \in [Steps -> StepStatuses]
  BY DEF TypeInv, TypeOK, ClaimWaiting, StepStatuses
<1>2. tries' \in [Steps -> 0..AttemptBound]
  BY NextAttemptType DEF TypeInv, TypeOK, ClaimWaiting, Claims
<1>3. att' \in [Attempts -> AttemptStatuses]
  BY DEF TypeInv, TypeOK, ClaimWaiting, AttemptStatuses
<1>4. approval' \in [Attempts -> ApprovalStatuses]
  BY DEF TypeInv, TypeOK, ClaimWaiting, ApprovalStatuses
<1>5. pass' \in [Engines -> PassStates]
  BY DEF TypeInv, TypeOK, ClaimWaiting, PassStates, IdlePass, Handled, Claims
<1>6. DispatcherWorks'
  BY DEF ClaimWaiting, TypeInv, DispatcherWorks
<1> QED BY <1>1, <1>2, <1>3, <1>4, <1>5, <1>6 DEF TypeInv, TypeOK, ClaimWaiting

(* A claim with its reservation and outbox row keeps every row and actor typed. *)
LEMMA ClaimDispatchableType ==
    ASSUME TypeInv, NEW e \in Engines, NEW s \in Steps, ClaimDispatchable(e, s)
    PROVE  TypeInv'
<1>1. step' \in [Steps -> StepStatuses]
  BY DEF TypeInv, TypeOK, ClaimDispatchable, StepStatuses
<1>2. tries' \in [Steps -> 0..AttemptBound]
  BY NextAttemptType DEF TypeInv, TypeOK, ClaimDispatchable, Claims
<1>3. att' \in [Attempts -> AttemptStatuses]
  BY DEF TypeInv, TypeOK, ClaimDispatchable, AttemptStatuses
<1>4. outbox' \in [Attempts -> OutboxStatuses]
  BY DEF TypeInv, TypeOK, ClaimDispatchable, OutboxStatuses
<1>5. reservation' \in [Attempts -> ReservationStatuses]
  BY DEF TypeInv, TypeOK, ClaimDispatchable, ReservationStatuses, Reserved
<1>6. pass' \in [Engines -> PassStates]
  BY DEF TypeInv, TypeOK, ClaimDispatchable, PassStates, IdlePass, Handled, Claims
<1>7. DispatcherWorks'
  BY DEF ClaimDispatchable, TypeInv, DispatcherWorks
<1> QED
  BY <1>1, <1>2, <1>3, <1>4, <1>5, <1>6, <1>7 DEF TypeInv, TypeOK, ClaimDispatchable

(* A lease of an outbox row keeps every row and actor typed.               *)
LEMMA LeaseType ==
    ASSUME TypeInv, NEW d \in Dispatchers, NEW a \in Attempts, Lease(d, a)
    PROVE  TypeInv'
<1>1. outbox' \in [Attempts -> OutboxStatuses]
  BY DEF TypeInv, TypeOK, Lease, OutboxStatuses
<1>2. dispatchCount' \in [Attempts -> 0..LeaseBound]
  BY BoundAssumption DEF TypeInv, TypeOK, Lease, NewToken
<1>3. dispatcher' \in [Dispatchers -> DispatcherStates]
  BY BoundAssumption DEF TypeInv, TypeOK, Lease, DispatcherStates, NewToken
<1>4. DispatcherWorks'
  BY DEF Lease, TypeInv, DispatcherWorks
<1> QED BY <1>1, <1>2, <1>3, <1>4 DEF TypeInv, TypeOK, Lease

(* A call the executor accepted keeps every row and actor typed.           *)
LEMMA InvokeAcceptedType ==
    ASSUME TypeInv, NEW d \in Dispatchers, InvokeAccepted(d)
    PROVE  TypeInv'
<1>1. worker' \in [Attempts -> {"unseen", "accepted", "refused"}]
  BY DEF TypeInv, TypeOK, InvokeAccepted
<1>2. dispatcher' \in [Dispatchers -> DispatcherStates]
  <2>1. PICK pc \in {"delivered", "retryable", "rejected"} :
           dispatcher' = [dispatcher EXCEPT ![d].pc = pc]
    BY DEF InvokeAccepted
  <2> QED BY <2>1 DEF TypeInv, TypeOK, DispatcherStates
<1>3. DispatcherWorks'
  BY DEF InvokeAccepted, TypeInv, DispatcherWorks
<1> QED BY <1>2, <1>3 DEF TypeInv, TypeOK, InvokeAccepted, rows

(* A call that failed in transit keeps every row and actor typed.          *)
LEMMA InvokeLostType ==
    ASSUME TypeInv, NEW d \in Dispatchers, InvokeLost(d)
    PROVE  TypeInv'
<1>1. dispatcher' \in [Dispatchers -> DispatcherStates]
  BY DEF TypeInv, TypeOK, InvokeLost, DispatcherStates
<1>2. DispatcherWorks'
  BY DEF InvokeLost, TypeInv, DispatcherWorks
<1> QED BY <1>1, <1>2 DEF TypeInv, TypeOK, InvokeLost, rows

(* A call the executor refused keeps every row and actor typed.            *)
LEMMA InvokeRejectedType ==
    ASSUME TypeInv, NEW d \in Dispatchers, InvokeRejected(d)
    PROVE  TypeInv'
<1>1. worker' \in [Attempts -> {"unseen", "accepted", "refused"}]
  BY DEF TypeInv, TypeOK, InvokeRejected
<1>2. dispatcher' \in [Dispatchers -> DispatcherStates]
  BY DEF TypeInv, TypeOK, InvokeRejected, DispatcherStates
<1>3. DispatcherWorks'
  BY DEF InvokeRejected, TypeInv, DispatcherWorks
<1> QED BY <1>2, <1>3 DEF TypeInv, TypeOK, InvokeRejected, rows

(* A dispatch receipt keeps every row and actor typed.                     *)
LEMMA MarkDispatchedType ==
    ASSUME TypeInv, NEW d \in Dispatchers, MarkDispatched(d)
    PROVE  TypeInv'
<1>1. outbox' \in [Attempts -> OutboxStatuses]
  BY DEF TypeInv, TypeOK, MarkDispatched, OutboxStatuses
<1>2. att' \in [Attempts -> AttemptStatuses]
  BY DEF TypeInv, TypeOK, MarkDispatched, AttemptStatuses
<1>3. dispatcher' \in [Dispatchers -> DispatcherStates]
  BY BoundAssumption DEF TypeInv, TypeOK, MarkDispatched, DispatcherStates,
     IdleDispatcher
<1>4. DispatcherWorks'
  BY DEF MarkDispatched, TypeInv, DispatcherWorks, IdleDispatcher
<1> QED BY <1>1, <1>2, <1>3, <1>4 DEF TypeInv, TypeOK, MarkDispatched

(* A retryable delivery failure keeps every row and actor typed.           *)
LEMMA ReturnToPendingType ==
    ASSUME TypeInv, NEW d \in Dispatchers, ReturnToPending(d)
    PROVE  TypeInv'
<1>1. outbox' \in [Attempts -> OutboxStatuses]
  BY DEF TypeInv, TypeOK, ReturnToPending, OutboxStatuses
<1>2. dispatcher' \in [Dispatchers -> DispatcherStates]
  BY BoundAssumption DEF TypeInv, TypeOK, ReturnToPending, DispatcherStates,
     IdleDispatcher
<1>3. DispatcherWorks'
  BY DEF ReturnToPending, TypeInv, DispatcherWorks, IdleDispatcher
<1> QED BY <1>1, <1>2, <1>3 DEF TypeInv, TypeOK, ReturnToPending

(* A permanent dispatch rejection keeps every row and actor typed.         *)
LEMMA FailNonRetryableType ==
    ASSUME TypeInv, NEW d \in Dispatchers, FailNonRetryable(d)
    PROVE  TypeInv'
<1>1. outbox' \in [Attempts -> OutboxStatuses]
  BY DEF TypeInv, TypeOK, FailNonRetryable, OutboxStatuses
<1>2. att' \in [Attempts -> AttemptStatuses]
  BY DEF TypeInv, TypeOK, FailNonRetryable, AttemptStatuses
<1>3. reservation' \in [Attempts -> ReservationStatuses]
  BY DEF TypeInv, TypeOK, FailNonRetryable, ReservationStatuses, Closed
<1>4. step' \in [Steps -> StepStatuses]
  BY AttemptPairs DEF TypeInv, TypeOK, FailNonRetryable, StepStatuses, FailedStepStatus
<1>5. exec' \in ExecutionStatuses
  BY DEF TypeInv, TypeOK, FailNonRetryable, ExecutionStatuses, Terminalize
<1>6. dispatcher' \in [Dispatchers -> DispatcherStates]
  BY BoundAssumption DEF TypeInv, TypeOK, FailNonRetryable, DispatcherStates,
     IdleDispatcher
<1>7. DispatcherWorks'
  BY DEF FailNonRetryable, TypeInv, DispatcherWorks, IdleDispatcher
<1> QED BY <1>1, <1>2, <1>3, <1>4, <1>5, <1>6, <1>7 DEF TypeInv, TypeOK, FailNonRetryable, rows

(* A rejection under a lost lease keeps every row and actor typed.         *)
LEMMA StaleRejectionType ==
    ASSUME TypeInv, NEW d \in Dispatchers, StaleRejection(d)
    PROVE  TypeInv'
<1>1. dispatcher' \in [Dispatchers -> DispatcherStates]
  BY BoundAssumption DEF TypeInv, TypeOK, StaleRejection, DispatcherStates,
     IdleDispatcher
<1>2. DispatcherWorks'
  BY DEF StaleRejection, TypeInv, DispatcherWorks, IdleDispatcher
<1> QED BY <1>1, <1>2 DEF TypeInv, TypeOK, StaleRejection, rows

(* The death of a dispatch loop keeps every row and actor typed.           *)
LEMMA DispatcherCrashType ==
    ASSUME TypeInv, NEW d \in Dispatchers, DispatcherCrash(d)
    PROVE  TypeInv'
<1>1. dispatcher' \in [Dispatchers -> DispatcherStates]
  BY BoundAssumption DEF TypeInv, TypeOK, DispatcherCrash, DispatcherStates,
     IdleDispatcher
<1>2. DispatcherWorks'
  BY DEF DispatcherCrash, TypeInv, DispatcherWorks, IdleDispatcher
<1> QED BY <1>1, <1>2 DEF TypeInv, TypeOK, DispatcherCrash, rows

(* A superseded result keeps every row and actor typed.                    *)
LEMMA ApplyRejectedType ==
    ASSUME TypeInv, NEW a \in Attempts, NEW p \in Payloads, ApplyRejected(a, p)
    PROVE  TypeInv'
<1>1. inbox' \in [Attempts -> InboxStatuses]
  BY DEF TypeInv, TypeOK, ApplyRejected, InboxStatuses
<1>2. payload' \in [Attempts -> Payloads \cup {"none"}]
  BY DEF TypeInv, TypeOK, ApplyRejected
<1>3. DispatcherWorks'
  BY DEF ApplyRejected, TypeInv, DispatcherWorks
<1> QED BY <1>1, <1>3 DEF TypeInv, TypeOK, ApplyRejected

(* The canonical application of a result keeps every row and actor typed.  *)
LEMMA ApplyCanonicalType ==
    ASSUME TypeInv, NEW a \in Attempts, NEW p \in Payloads, ApplyCanonical(a, p)
    PROVE  TypeInv'
<1>1. inbox' \in [Attempts -> InboxStatuses]
  BY DEF TypeInv, TypeOK, ApplyCanonical, InboxStatuses
<1>2. payload' \in [Attempts -> Payloads \cup {"none"}]
  BY DEF TypeInv, TypeOK, ApplyCanonical
<1>3. att' \in [Attempts -> AttemptStatuses]
  BY DEF TypeInv, TypeOK, ApplyCanonical, AttemptStatuses, EffectiveStatuses,
     AttemptStatusOf
<1>4. step' \in [Steps -> StepStatuses]
  BY DEF TypeInv, TypeOK, ApplyCanonical, StepStatuses, SettledStepStatus
<1>5. exec' \in ExecutionStatuses
  BY DEF TypeInv, TypeOK, ApplyCanonical, ExecutionStatuses, Terminalize,
     SettledExecution
<1>6. reservation' \in [Attempts -> ReservationStatuses]
  BY DEF TypeInv, TypeOK, ApplyCanonical, ReservationStatuses, Closed
<1>7. outbox' \in [Attempts -> OutboxStatuses]
  BY DEF TypeInv, TypeOK, ApplyCanonical, OutboxStatuses, Retired
<1>8. DispatcherWorks'
  BY DEF ApplyCanonical, TypeInv, DispatcherWorks
<1> QED BY <1>1, <1>3, <1>4, <1>5, <1>6, <1>7, <1>8 DEF TypeInv, TypeOK, ApplyCanonical

(* A liveness event keeps every row and actor typed.                       *)
LEMMA ProjectLivenessType ==
    ASSUME TypeInv, NEW a \in Attempts, ProjectLiveness(a)
    PROVE  TypeInv'
<1>1. att' \in [Attempts -> AttemptStatuses]
  BY DEF TypeInv, TypeOK, ProjectLiveness, AttemptStatuses
<1>2. DispatcherWorks'
  BY DEF ProjectLiveness, TypeInv, DispatcherWorks
<1> QED BY <1>1, <1>2 DEF TypeInv, TypeOK, ProjectLiveness

(* A decision on a settled attempt keeps every row and actor typed.        *)
LEMMA DecideSettledType ==
    ASSUME TypeInv, NEW a \in Attempts, NEW v \in Decisions, DecideSettled(a, v)
    PROVE  TypeInv'
<1>1. approval' \in [Attempts -> ApprovalStatuses]
  BY DEF TypeInv, TypeOK, DecideSettled, ApprovalStatuses, Decisions
<1>2. DispatcherWorks'
  BY DEF DecideSettled, TypeInv, DispatcherWorks
<1> QED BY <1>1, <1>2 DEF TypeInv, TypeOK, DecideSettled

(* A denial, an expiry or a refused approval keeps every row and actor typed. *)
LEMMA FailWaitingType ==
    ASSUME TypeInv, NEW a \in Attempts, NEW v \in Decisions, FailWaiting(a, v)
    PROVE  TypeInv'
<1>1. approval' \in [Attempts -> ApprovalStatuses]
  BY DEF TypeInv, TypeOK, FailWaiting, ApprovalStatuses, Decisions
<1>2. att' \in [Attempts -> AttemptStatuses]
  BY DEF TypeInv, TypeOK, FailWaiting, AttemptStatuses
<1>3. step' \in [Steps -> StepStatuses]
  BY DEF TypeInv, TypeOK, FailWaiting, StepStatuses, FailedStepStatus
<1>4. exec' \in ExecutionStatuses
  BY DEF TypeInv, TypeOK, FailWaiting, ExecutionStatuses
<1>5. DispatcherWorks'
  BY DEF FailWaiting, TypeInv, DispatcherWorks
<1> QED BY <1>1, <1>2, <1>3, <1>4, <1>5 DEF TypeInv, TypeOK, FailWaiting

(* An approval that resumes its attempt keeps every row and actor typed.   *)
LEMMA ApproveResumeType ==
    ASSUME TypeInv, NEW a \in Attempts, ApproveResume(a)
    PROVE  TypeInv'
<1>1. approval' \in [Attempts -> ApprovalStatuses]
  BY DEF TypeInv, TypeOK, ApproveResume, ApprovalStatuses
<1>2. att' \in [Attempts -> AttemptStatuses]
  BY DEF TypeInv, TypeOK, ApproveResume, AttemptStatuses
<1>3. step' \in [Steps -> StepStatuses]
  BY DEF TypeInv, TypeOK, ApproveResume, StepStatuses
<1>4. outbox' \in [Attempts -> OutboxStatuses]
  BY DEF TypeInv, TypeOK, ApproveResume, OutboxStatuses
<1>5. reservation' \in [Attempts -> ReservationStatuses]
  BY DEF TypeInv, TypeOK, ApproveResume, ReservationStatuses, Reserved
<1>6. DispatcherWorks'
  BY DEF ApproveResume, TypeInv, DispatcherWorks
<1> QED BY <1>1, <1>2, <1>3, <1>4, <1>5, <1>6 DEF TypeInv, TypeOK, ApproveResume

(* The start of an operator's cancellation keeps every row and actor typed. *)
LEMMA CancelRequestType ==
    ASSUME TypeInv, CancelRequest
    PROVE  TypeInv'
<1>1. cancelling' \in CancelStates
  BY DEF CancelRequest, CancelBegin, CancelStates
<1>2. DispatcherWorks'
  BY DEF CancelRequest, TypeInv, DispatcherWorks
<1> QED BY <1>1, <1>2 DEF TypeInv, TypeOK, CancelRequest, rows

(* The start of a cancellation by a pass keeps every row and actor typed.  *)
LEMMA PassCancelType ==
    ASSUME TypeInv, NEW e \in Engines, PassCancel(e)
    PROVE  TypeInv'
<1>1. cancelling' \in CancelStates
  BY DEF PassCancel, CancelBegin, CancelStates
<1>2. pass' \in [Engines -> PassStates]
  BY DEF TypeInv, TypeOK, PassCancel, PassStates, IdlePass
<1>3. DispatcherWorks'
  BY DEF PassCancel, TypeInv, DispatcherWorks
<1> QED BY <1>1, <1>2, <1>3 DEF TypeInv, TypeOK, PassCancel, rows

(* A cancellation of a finished run keeps every row and actor typed.       *)
LEMMA CancelTooLateType ==
    ASSUME TypeInv, CancelTooLate
    PROVE  TypeInv'
<1>1. cancelling' \in CancelStates
  BY DEF CancelTooLate, CancelStates, CancelClosed
<1>2. DispatcherWorks'
  BY DEF CancelTooLate, TypeInv, DispatcherWorks
<1> QED BY <1>1, <1>2 DEF TypeInv, TypeOK, CancelTooLate, rows

(* The commit of a cancellation keeps every row and actor typed.           *)
LEMMA CancelCommitType == ASSUME TypeInv, CancelCommit PROVE TypeInv'
<1>1. att' \in [Attempts -> AttemptStatuses]
  BY DEF TypeInv, TypeOK, CancelCommit, AttemptStatuses
<1>2. outbox' \in [Attempts -> OutboxStatuses]
  BY DEF TypeInv, TypeOK, CancelCommit, OutboxStatuses, Retired
<1>3. reservation' \in [Attempts -> ReservationStatuses]
  BY DEF TypeInv, TypeOK, CancelCommit, ReservationStatuses, Closed
<1>4. step' \in [Steps -> StepStatuses]
  BY DEF TypeInv, TypeOK, CancelCommit, StepStatuses
<1>5. exec' \in ExecutionStatuses
  BY DEF CancelCommit, ExecutionStatuses
<1>6. cancelling' \in CancelStates
  BY DEF CancelCommit, CancelStates, CancelClosed
<1>7. DispatcherWorks'
  BY DEF CancelCommit, TypeInv, DispatcherWorks
<1> QED BY <1>1, <1>2, <1>3, <1>4, <1>5, <1>6, <1>7 DEF TypeInv, TypeOK, CancelCommit

(* Every step of the control plane keeps every value of its kind.          *)
LEMMA TypeStep == TypeInv /\ [Next]_vars => TypeInv'
<1> SUFFICES ASSUME TypeInv, [Next]_vars PROVE TypeInv'
  OBVIOUS
<1>1. CASE UNCHANGED vars
  BY <1>1 DEF vars, TypeInv, TypeOK, DispatcherWorks
<1>2. CASE Next
  <2>1. ASSUME NEW e \in Engines, NEW s \in Steps, Claim(e, s) PROVE TypeInv'
    BY <2>1, ClaimThrowsType, ClaimNothingType, ClaimTemplateFailureType, ClaimAuthorityExpiredType,
       ClaimSkipType, ClaimRefusedType, ClaimWaitingType, ClaimDispatchableType
       DEF Claim
  <2>2. ASSUME NEW e \in Engines, PassBegin(e) \/ PassStep(e) \/ PassCrash(e) PROVE TypeInv'
    BY <2>1, <2>2, PassCancelType, PassBeginType, PassReadType, PassAdvanceType,
       PassCheckType, PassDecideType, PassFailType, PassCompleteType, PassCrashType
       DEF PassStep
  <2>3. ASSUME NEW d \in Dispatchers, DispatchStep(d) \/ DispatcherCrash(d) PROVE TypeInv'
    BY <2>3, InvokeAcceptedType, InvokeLostType, InvokeRejectedType, MarkDispatchedType,
       ReturnToPendingType, FailNonRetryableType, StaleRejectionType,
       DispatcherCrashType DEF DispatchStep, Invoke
  <2>4. ASSUME NEW a \in Attempts, NEW p \in Payloads,
               ApplyRejected(a, p) \/ ApplyCanonical(a, p)
        PROVE  TypeInv'
    BY <2>4, ApplyRejectedType, ApplyCanonicalType
  <2>5. ASSUME NEW a \in Attempts, Approve(a) \/ Deny(a) \/ Expire(a) PROVE TypeInv'
    BY <2>5, DecideSettledType, FailWaitingType, ApproveResumeType DEF Approve,
       ApproveRefused, Deny, Expire, Decisions
  <2> QED
    BY <1>2, <2>2, <2>3, <2>4, <2>5, EnvironmentAssumption, LeaseType,
       ProjectLivenessType, CancelRequestType, CancelTooLateType, CancelCommitType
       DEF Next, WorkerResult, ExpireAttempt, SupervisionTimeout, Payloads
<1> QED BY <1>1, <1>2

(* Type correctness: in every reachable state every row and every actor    *)
(* holds a value of its kind, and a busy dispatcher works on an attempt.   *)
THEOREM TypeCorrect == Spec => []TypeOK
<1>1. TypeInv => TypeOK
  BY DEF TypeInv
<1> QED BY <1>1, TypeInit, TypeStep, PTL DEF Spec
-----------------------------------------------------------------------------
(* Safety: the inductive invariant RowInv and what follows from it.        *)

(* Attempt numbers are handed out in order, so the next one is unused.     *)
UnclaimedAreFresh ==
    \A a \in Attempts : a[2] > tries[a[1]] => att[a] = "NONE"

(* The inductive invariant.                                                *)
RowInv ==
    /\ TypeInv
    /\ UnclaimedAreFresh
    /\ LockedStayActive
    /\ OutboxMatchesAttempt
    /\ OneActiveAttempt
    /\ ReservationMatchesAttempt
    /\ WaitingHasRequest

(* A claim refused before any authority keeps the rows of every attempt consistent. *)
LEMMA ClaimRefusedRows ==
    ASSUME RowInv, NEW e \in Engines, NEW s \in Steps, ClaimRefused(e, s)
    PROVE  RowInv'
<1>1. TypeInv' BY ClaimRefusedType DEF RowInv
<1>2. UnclaimedAreFresh'
  BY AttemptPairs DEF RowInv, TypeInv, TypeOK, UnclaimedAreFresh, ClaimRefused, Claims,
     NextAttempt
<1>3. LockedStayActive'
  <2>1. NextAttempt(s) \in Attempts /\ att[NextAttempt(s)] = "NONE"
    BY NextAttemptType, BoundAssumption, AttemptPairs DEF RowInv, TypeInv, TypeOK,
       UnclaimedAreFresh, ClaimRefused, Claims, NextAttempt
  <2> QED BY <2>1 DEF RowInv, LockedStayActive, ClaimRefused, ActiveAttempt
<1>4. OutboxMatchesAttempt'
  BY BoundAssumption DEF RowInv, TypeInv, TypeOK, UnclaimedAreFresh, LockedStayActive,
     OutboxMatchesAttempt, ClaimRefused, Claims, NextAttempt, OutboxAgrees,
     TerminalAttempt
<1>5. OneActiveAttempt'
  BY DEF RowInv, OneActiveAttempt, ClaimRefused, IndexedAttempt
<1>6. ReservationMatchesAttempt'
  BY AttemptPairs DEF RowInv, ReservationMatchesAttempt, ClaimRefused, Claims,
     NextAttempt, NoIndexedAttempt, Claimable, IndexedAttempt
<1>7. WaitingHasRequest'
  BY DEF RowInv, WaitingHasRequest, ClaimRefused
<1> QED BY <1>1, <1>2, <1>3, <1>4, <1>5, <1>6, <1>7 DEF RowInv

(* A claim that waits for an approval keeps the rows of every attempt consistent. *)
LEMMA ClaimWaitingRows ==
    ASSUME RowInv, NEW e \in Engines, NEW s \in Steps, ClaimWaiting(e, s)
    PROVE  RowInv'
<1>1. TypeInv' BY ClaimWaitingType DEF RowInv
<1>2. UnclaimedAreFresh'
  BY AttemptPairs DEF RowInv, TypeInv, TypeOK, UnclaimedAreFresh, ClaimWaiting, Claims,
     NextAttempt
<1>3. LockedStayActive'
  BY DEF RowInv, LockedStayActive, ClaimWaiting, ActiveAttempt
<1>4. OutboxMatchesAttempt'
  BY NextAttemptType, BoundAssumption DEF RowInv, TypeInv, TypeOK, UnclaimedAreFresh,
     OutboxMatchesAttempt, OneActiveAttempt, ReservationMatchesAttempt,
     WaitingHasRequest, ClaimWaiting, Claims, NextAttempt, OutboxAgrees, TerminalAttempt
<1>5. OneActiveAttempt'
  BY DEF RowInv, OneActiveAttempt, ClaimWaiting, IndexedAttempt
<1>6. ReservationMatchesAttempt'
  BY AttemptPairs DEF RowInv, ReservationMatchesAttempt, ClaimWaiting, Claims,
     NextAttempt, NoIndexedAttempt, Claimable, IndexedAttempt
<1>7. WaitingHasRequest'
  BY DEF RowInv, TypeInv, TypeOK, WaitingHasRequest, ClaimWaiting
<1> QED BY <1>1, <1>2, <1>3, <1>4, <1>5, <1>6, <1>7 DEF RowInv

(* A claim with its reservation and outbox row keeps the rows of every attempt consistent. *)
LEMMA ClaimDispatchableRows ==
    ASSUME RowInv, NEW e \in Engines, NEW s \in Steps, ClaimDispatchable(e, s)
    PROVE  RowInv'
<1>1. TypeInv' BY ClaimDispatchableType DEF RowInv
<1>2. UnclaimedAreFresh'
  BY AttemptPairs DEF RowInv, TypeInv, TypeOK, UnclaimedAreFresh, ClaimDispatchable,
     Claims, NextAttempt
<1>3. LockedStayActive'
  BY DEF RowInv, LockedStayActive, ClaimDispatchable, ActiveAttempt
<1>4. OutboxMatchesAttempt'
  BY DEF RowInv, TypeInv, TypeOK, OutboxMatchesAttempt, ClaimDispatchable, OutboxAgrees,
     TerminalAttempt
<1>5. OneActiveAttempt'
  <2>1. \A b \in Attempts : b[1] = s => att[b] \notin IndexedAttempt
    BY AttemptPairs DEF ClaimDispatchable, Claims, Claimable, NoIndexedAttempt
  <2>2. NextAttempt(s) \in Attempts /\ NextAttempt(s)[1] = s
    BY NextAttemptType DEF RowInv, TypeInv, ClaimDispatchable, Claims, NextAttempt
  <2>3. \A b \in Attempts : b # NextAttempt(s) => att'[b] = att[b]
    BY DEF ClaimDispatchable
  <2>4. \A b \in Attempts : b[1] = s /\ att'[b] \in IndexedAttempt => b = NextAttempt(s)
    BY <2>1, <2>3
  <2>5. \A b \in Attempts : b[1] # s => att'[b] = att[b]
    BY <2>2, <2>3
  <2> QED
    BY <2>4, <2>5 DEF RowInv, OneActiveAttempt
<1>6. ReservationMatchesAttempt'
  BY DEF RowInv, TypeInv, TypeOK, ReservationMatchesAttempt, ClaimDispatchable,
     IndexedAttempt, Reserved
<1>7. WaitingHasRequest'
  BY DEF RowInv, WaitingHasRequest, ClaimDispatchable
<1> QED BY <1>1, <1>2, <1>3, <1>4, <1>5, <1>6, <1>7 DEF RowInv

(* A lease of an outbox row keeps the rows of every attempt consistent.    *)
LEMMA LeaseRows ==
    ASSUME RowInv, NEW d \in Dispatchers, NEW a \in Attempts, Lease(d, a)
    PROVE  RowInv'
<1>1. TypeInv' BY LeaseType DEF RowInv
<1>2. OutboxMatchesAttempt'
  BY DEF RowInv, OutboxMatchesAttempt, Lease, OutboxAgrees
<1> QED
  BY <1>1, <1>2 DEF RowInv, UnclaimedAreFresh, LockedStayActive, OneActiveAttempt,
     ReservationMatchesAttempt, WaitingHasRequest, Lease

(* A dispatch receipt keeps the rows of every attempt consistent.          *)
LEMMA MarkDispatchedRows ==
    ASSUME RowInv, NEW d \in Dispatchers, MarkDispatched(d)
    PROVE  RowInv'
<1> DEFINE a == dispatcher[d].attempt
<1>1. TypeInv' BY MarkDispatchedType DEF RowInv
<1>2. a \in Attempts
  BY DEF RowInv, TypeInv, DispatcherWorks, MarkDispatched
<1>3. UNCHANGED <<tries, approval, reservation, cancelling>>
  BY DEF MarkDispatched
<1>4. \/ UNCHANGED <<att, outbox>>
      \/ /\ att[a] = "CREATED"
         /\ att' = [att EXCEPT ![a] = "DISPATCHED"]
         /\ outbox' = [outbox EXCEPT ![a] = "DISPATCHED"]
  BY <1>2 DEF RowInv, TypeInv, TypeOK, OutboxMatchesAttempt, OutboxAgrees,
     MarkDispatched, HoldsLease
<1>5. UnclaimedAreFresh'
  BY <1>2, <1>3, <1>4 DEF RowInv, TypeInv, TypeOK, UnclaimedAreFresh
<1>6. LockedStayActive'
  BY <1>2, <1>3, <1>4 DEF RowInv, TypeInv, TypeOK, CancelStates, LockedStayActive,
     ActiveAttempt
<1>7. OutboxMatchesAttempt'
  BY <1>2, <1>4 DEF RowInv, TypeInv, TypeOK, OutboxMatchesAttempt, OutboxAgrees,
     TerminalAttempt
<1>8. OneActiveAttempt'
  BY <1>2, <1>4 DEF RowInv, TypeInv, TypeOK, OneActiveAttempt, IndexedAttempt
<1>9. ReservationMatchesAttempt'
  BY <1>2, <1>3, <1>4 DEF RowInv, TypeInv, TypeOK, ReservationMatchesAttempt,
     IndexedAttempt
<1>10. WaitingHasRequest'
  BY <1>2, <1>3, <1>4 DEF RowInv, TypeInv, TypeOK, WaitingHasRequest
<1> QED BY <1>1, <1>5, <1>6, <1>7, <1>8, <1>9, <1>10 DEF RowInv

(* A retryable delivery failure keeps the rows of every attempt consistent. *)
LEMMA ReturnToPendingRows ==
    ASSUME RowInv, NEW d \in Dispatchers, ReturnToPending(d)
    PROVE  RowInv'
<1>1. TypeInv' BY ReturnToPendingType DEF RowInv
<1>2. OutboxMatchesAttempt'
  BY DEF RowInv, OutboxMatchesAttempt, ReturnToPending, HoldsLease, OutboxAgrees
<1> QED
  BY <1>1, <1>2 DEF RowInv, UnclaimedAreFresh, LockedStayActive, OneActiveAttempt,
     ReservationMatchesAttempt, WaitingHasRequest, ReturnToPending

(* A permanent dispatch rejection keeps the rows of every attempt consistent. *)
LEMMA FailNonRetryableRows ==
    ASSUME RowInv, NEW d \in Dispatchers, FailNonRetryable(d)
    PROVE  RowInv'
<1> DEFINE a == dispatcher[d].attempt
<1>1. TypeInv' BY FailNonRetryableType DEF RowInv
<1>2. a \in Attempts
  BY DEF RowInv, TypeInv, DispatcherWorks, FailNonRetryable
<1>3. UNCHANGED <<tries, approval, cancelling>> /\ a \notin cancelling.attempts
  BY DEF FailNonRetryable, Unlocked
<1>4. att[a] = "CREATED"
  BY <1>2 DEF RowInv, OutboxMatchesAttempt, OutboxAgrees, FailNonRetryable, HoldsLease
<1>5. /\ att' = [att EXCEPT ![a] = "FAILED"]
      /\ outbox' = [outbox EXCEPT ![a] = "FAILED"]
      /\ reservation' = [reservation EXCEPT ![a] = Closed(a, "RELEASED")]
  BY <1>4 DEF FailNonRetryable, TerminalAttempt
<1>6. UnclaimedAreFresh'
  BY <1>2, <1>3, <1>4, <1>5 DEF RowInv, UnclaimedAreFresh
<1>7. LockedStayActive'
  BY <1>3, <1>5 DEF RowInv, LockedStayActive
<1>8. OutboxMatchesAttempt'
  BY <1>2, <1>5 DEF RowInv, TypeInv, TypeOK, OutboxMatchesAttempt, OutboxAgrees,
     TerminalAttempt
<1>9. OneActiveAttempt'
  BY <1>2, <1>5 DEF RowInv, OneActiveAttempt, IndexedAttempt
<1>10. ReservationMatchesAttempt'
  BY <1>2, <1>5 DEF RowInv, TypeInv, TypeOK, ReservationMatchesAttempt, IndexedAttempt,
     Closed
<1>11. WaitingHasRequest'
  BY <1>2, <1>3, <1>5 DEF RowInv, WaitingHasRequest
<1> QED BY <1>1, <1>6, <1>7, <1>8, <1>9, <1>10, <1>11 DEF RowInv

(* The canonical application of a result keeps the rows of every attempt consistent. *)
LEMMA ApplyCanonicalRows ==
    ASSUME RowInv, NEW a \in Attempts, NEW p \in Payloads, ApplyCanonical(a, p)
    PROVE  RowInv'
<1>1. TypeInv' BY ApplyCanonicalType DEF RowInv
<1>2. UnclaimedAreFresh'
  BY DEF RowInv, UnclaimedAreFresh, ApplyCanonical, Received
<1>3. LockedStayActive'
  BY DEF RowInv, LockedStayActive, ApplyCanonical, Received, Unlocked
<1>4. OutboxMatchesAttempt'
  BY DEF RowInv, TypeInv, TypeOK, UnclaimedAreFresh, OutboxMatchesAttempt,
     ApplyCanonical, EffectiveStatuses, AttemptStatusOf, OutboxAgrees, TerminalAttempt,
     DispatchableOutbox, Retired
<1>5. OneActiveAttempt'
  BY DEF RowInv, OneActiveAttempt, ApplyCanonical, EffectiveStatuses, AttemptStatusOf,
     IndexedAttempt
<1>6. ReservationMatchesAttempt'
  BY DEF RowInv, TypeInv, TypeOK, ReservationMatchesAttempt, ApplyCanonical,
     EffectiveStatuses, AttemptStatusOf, IndexedAttempt, Closed
<1>7. WaitingHasRequest'
  BY DEF RowInv, WaitingHasRequest, ApplyCanonical, EffectiveStatuses, AttemptStatusOf
<1> QED BY <1>1, <1>2, <1>3, <1>4, <1>5, <1>6, <1>7 DEF RowInv

(* A liveness event keeps the rows of every attempt consistent.            *)
LEMMA ProjectLivenessRows ==
    ASSUME RowInv, NEW a \in Attempts, ProjectLiveness(a)
    PROVE  RowInv'
<1>1. TypeInv' BY ProjectLivenessType DEF RowInv
<1>2. UnclaimedAreFresh'
  BY DEF RowInv, UnclaimedAreFresh, ProjectLiveness
<1>3. LockedStayActive'
  BY DEF RowInv, LockedStayActive, ProjectLiveness, ActiveAttempt
<1>4. OutboxMatchesAttempt'
  BY DEF RowInv, OutboxMatchesAttempt, ProjectLiveness, OutboxAgrees, TerminalAttempt
<1>5. OneActiveAttempt'
  BY DEF RowInv, OneActiveAttempt, ProjectLiveness, IndexedAttempt
<1>6. ReservationMatchesAttempt'
  BY DEF RowInv, ReservationMatchesAttempt, ProjectLiveness, IndexedAttempt
<1>7. WaitingHasRequest'
  BY DEF RowInv, WaitingHasRequest, ProjectLiveness
<1> QED BY <1>1, <1>2, <1>3, <1>4, <1>5, <1>6, <1>7 DEF RowInv

(* A decision on a settled attempt keeps the rows of every attempt consistent. *)
LEMMA DecideSettledRows ==
    ASSUME RowInv, NEW a \in Attempts, NEW v \in Decisions, DecideSettled(a, v)
    PROVE  RowInv'
<1>1. TypeInv' BY DecideSettledType DEF RowInv
<1>2. WaitingHasRequest'
  BY DEF RowInv, WaitingHasRequest, DecideSettled
<1> QED
  BY <1>1, <1>2 DEF RowInv, UnclaimedAreFresh, LockedStayActive, OutboxMatchesAttempt,
     OneActiveAttempt, ReservationMatchesAttempt, OutboxAgrees, DecideSettled

(* A denial, an expiry or a refused approval keeps the rows of every attempt consistent. *)
LEMMA FailWaitingRows ==
    ASSUME RowInv, NEW a \in Attempts, NEW v \in Decisions, FailWaiting(a, v)
    PROVE  RowInv'
<1>1. TypeInv' BY FailWaitingType DEF RowInv
<1>2. UnclaimedAreFresh'
  BY DEF RowInv, UnclaimedAreFresh, FailWaiting
<1>3. LockedStayActive'
  BY DEF RowInv, LockedStayActive, FailWaiting, Decidable, Unlocked
<1>4. OutboxMatchesAttempt'
  BY DEF RowInv, OutboxMatchesAttempt, FailWaiting, OutboxAgrees, TerminalAttempt
<1>5. OneActiveAttempt'
  BY DEF RowInv, OneActiveAttempt, FailWaiting, IndexedAttempt
<1>6. ReservationMatchesAttempt'
  BY DEF RowInv, ReservationMatchesAttempt, FailWaiting, IndexedAttempt
<1>7. WaitingHasRequest'
  BY DEF RowInv, TypeInv, TypeOK, WaitingHasRequest, FailWaiting
<1> QED BY <1>1, <1>2, <1>3, <1>4, <1>5, <1>6, <1>7 DEF RowInv

(* An approval that resumes its attempt keeps the rows of every attempt consistent. *)
LEMMA ApproveResumeRows ==
    ASSUME RowInv, NEW a \in Attempts, ApproveResume(a)
    PROVE  RowInv'
<1>1. TypeInv' BY ApproveResumeType DEF RowInv
<1>2. UnclaimedAreFresh'
  BY DEF RowInv, UnclaimedAreFresh, ApproveResume
<1>3. LockedStayActive'
  BY DEF RowInv, LockedStayActive, ApproveResume, Decidable, Unlocked
<1>4. OutboxMatchesAttempt'
  BY DEF RowInv, TypeInv, TypeOK, OutboxMatchesAttempt, ApproveResume, OutboxAgrees,
     TerminalAttempt
<1>5. OneActiveAttempt'
  BY AttemptPairs DEF RowInv, OneActiveAttempt, ApproveResume, NoIndexedAttempt
<1>6. ReservationMatchesAttempt'
  BY DEF RowInv, TypeInv, TypeOK, ReservationMatchesAttempt, ApproveResume,
     IndexedAttempt, Reserved
<1>7. WaitingHasRequest'
  BY DEF RowInv, TypeInv, TypeOK, WaitingHasRequest, ApproveResume
<1> QED BY <1>1, <1>2, <1>3, <1>4, <1>5, <1>6, <1>7 DEF RowInv

(* The start of an operator's cancellation keeps the rows of every attempt consistent. *)
LEMMA CancelRequestRows == ASSUME RowInv, CancelRequest PROVE RowInv'
<1>1. TypeInv' BY CancelRequestType DEF RowInv
<1>2. LockedStayActive'
  BY DEF LockedStayActive, CancelRequest, CancelBegin, rows
<1> QED
  BY <1>1, <1>2 DEF RowInv, UnclaimedAreFresh, OutboxMatchesAttempt, OneActiveAttempt,
     ReservationMatchesAttempt, WaitingHasRequest, OutboxAgrees, CancelRequest, rows

(* The start of a cancellation by a pass keeps the rows of every attempt consistent. *)
LEMMA PassCancelRows ==
    ASSUME RowInv, NEW e \in Engines, PassCancel(e)
    PROVE  RowInv'
<1>1. TypeInv' BY PassCancelType DEF RowInv
<1>2. LockedStayActive'
  BY DEF LockedStayActive, PassCancel, CancelBegin, rows
<1> QED
  BY <1>1, <1>2 DEF RowInv, UnclaimedAreFresh, OutboxMatchesAttempt, OneActiveAttempt,
     ReservationMatchesAttempt, WaitingHasRequest, OutboxAgrees, PassCancel, rows

(* A cancellation of a finished run keeps the rows of every attempt consistent. *)
LEMMA CancelTooLateRows == ASSUME RowInv, CancelTooLate PROVE RowInv'
<1>1. TypeInv' BY CancelTooLateType DEF RowInv
<1>2. LockedStayActive'
  BY DEF LockedStayActive, CancelTooLate, CancelClosed
<1> QED
  BY <1>1, <1>2 DEF RowInv, UnclaimedAreFresh, OutboxMatchesAttempt, OneActiveAttempt,
     ReservationMatchesAttempt, WaitingHasRequest, OutboxAgrees, CancelTooLate, rows

(* The commit of a cancellation keeps the rows of every attempt consistent. *)
LEMMA CancelCommitRows == ASSUME RowInv, CancelCommit PROVE RowInv'
<1>1. TypeInv' BY CancelCommitType DEF RowInv
<1>2. UnclaimedAreFresh'
  BY DEF RowInv, UnclaimedAreFresh, LockedStayActive, CancelCommit, ActiveAttempt
<1>3. LockedStayActive'
  BY DEF LockedStayActive, CancelCommit, CancelClosed
<1>4. OutboxMatchesAttempt'
  BY DEF RowInv, OutboxMatchesAttempt, CancelCommit, OutboxAgrees, TerminalAttempt,
     DispatchableOutbox, Retired
<1>5. OneActiveAttempt'
  BY DEF RowInv, OneActiveAttempt, CancelCommit, IndexedAttempt
<1>6. ReservationMatchesAttempt'
  BY DEF RowInv, ReservationMatchesAttempt, CancelCommit, IndexedAttempt, Closed
<1>7. WaitingHasRequest'
  BY DEF RowInv, WaitingHasRequest, CancelCommit
<1> QED BY <1>1, <1>2, <1>3, <1>4, <1>5, <1>6, <1>7 DEF RowInv

(* The rows of a new execution are consistent.                             *)
LEMMA RowInit == Init => RowInv
<1> SUFFICES ASSUME Init PROVE RowInv
  OBVIOUS
<1>1. TypeInv
  BY TypeInit
<1> QED
  BY <1>1 DEF RowInv, Init, UnclaimedAreFresh, LockedStayActive, OutboxMatchesAttempt,
     OutboxAgrees, OneActiveAttempt, ReservationMatchesAttempt, WaitingHasRequest,
     CancelClosed, IndexedAttempt

(* A step that leaves the rows and the open cancellation alone.            *)
LEMMA ElsewhereRows ==
    ASSUME RowInv, TypeInv', UNCHANGED <<tries, att, outbox, approval, reservation, cancelling>>
    PROVE  RowInv'
  BY DEF RowInv, UnclaimedAreFresh, LockedStayActive, OutboxMatchesAttempt,
     OutboxAgrees, OneActiveAttempt, ReservationMatchesAttempt, WaitingHasRequest

(* The inductive step, one part of the next-state relation at a time.      *)
LEMMA RowStep == RowInv /\ [Next]_vars => RowInv'
<1> SUFFICES ASSUME RowInv, [Next]_vars PROVE RowInv'
  OBVIOUS
<1>t. TypeInv'
  BY TypeStep DEF RowInv
<1>1. CASE UNCHANGED vars
  BY <1>1, <1>t, ElsewhereRows DEF vars
<1>2. CASE Next
  <2>1. ASSUME NEW e \in Engines, NEW s \in Steps, Claim(e, s) PROVE RowInv'
    <3>1. CASE \/ ClaimThrows(e, s) \/ ClaimNothing(e, s) \/ ClaimTemplateFailure(e, s)
               \/ ClaimAuthorityExpired(e, s) \/ ClaimSkip(e, s)
      BY <3>1, <1>t, ElsewhereRows DEF ClaimThrows, ClaimNothing, ClaimTemplateFailure,
         ClaimAuthorityExpired, ClaimSkip, rows
    <3> QED
      BY <2>1, <3>1, ClaimRefusedRows, ClaimWaitingRows, ClaimDispatchableRows DEF Claim
  <2>2. ASSUME NEW e \in Engines, PassBegin(e) \/ PassStep(e) \/ PassCrash(e) PROVE RowInv'
    <3>1. CASE \/ PassBegin(e) \/ PassRead(e) \/ PassAdvance(e) \/ PassCheck(e)
               \/ PassDecide(e) \/ PassFail(e) \/ PassComplete(e) \/ PassCrash(e)
      BY <3>1, <1>t, ElsewhereRows DEF PassBegin, PassRead, PassAdvance, PassCheck,
         PassDecide, PassFail, PassComplete, PassCrash, rows
    <3> QED
      BY <2>1, <2>2, <3>1, PassCancelRows DEF PassStep
  <2>3. ASSUME NEW d \in Dispatchers, DispatchStep(d) \/ DispatcherCrash(d) PROVE RowInv'
    <3>1. CASE Invoke(d) \/ StaleRejection(d) \/ DispatcherCrash(d)
      BY <3>1, <1>t, ElsewhereRows DEF Invoke, InvokeAccepted, InvokeLost,
         InvokeRejected, StaleRejection, DispatcherCrash, rows
    <3> QED
      BY <2>3, <3>1, MarkDispatchedRows, ReturnToPendingRows, FailNonRetryableRows
         DEF DispatchStep
  <2>4. ASSUME NEW a \in Attempts, NEW p \in Payloads, ApplyRejected(a, p) \/ ApplyCanonical(a, p)
        PROVE  RowInv'
    <3>1. CASE ApplyRejected(a, p)
      BY <3>1, <1>t, ElsewhereRows DEF ApplyRejected
    <3> QED
      BY <2>4, <3>1, ApplyCanonicalRows
  <2>5. ASSUME NEW a \in Attempts, Approve(a) \/ Deny(a) \/ Expire(a) PROVE RowInv'
    BY <2>5, DecideSettledRows, FailWaitingRows, ApproveResumeRows DEF Approve,
       ApproveRefused, Deny, Expire, Decisions
  <2> QED
    BY <1>2, <2>2, <2>3, <2>4, <2>5, EnvironmentAssumption, LeaseRows,
       ProjectLivenessRows, CancelRequestRows, CancelTooLateRows, CancelCommitRows
       DEF Next, WorkerResult, ExpireAttempt, SupervisionTimeout, Payloads
<1> QED BY <1>1, <1>2

(* Every reachable state satisfies the inductive invariant.                *)
LEMMA RowInvariant == Spec => []RowInv
  BY RowInit, RowStep, PTL DEF Spec

(* Delivery authority: an outbox row can be delivered exactly while its    *)
(* attempt waits for delivery; no settled attempt has a deliverable row.   *)
THEOREM DeliveryAuthority == Spec => []OutboxMatchesAttempt
<1>1. RowInv => OutboxMatchesAttempt
  BY DEF RowInv
<1> QED BY <1>1, RowInvariant, PTL

(* Exclusion: whatever late results do to a step's summary, no step has    *)
(* two attempts with work authority.                                       *)
THEOREM WorkIsExclusive == Spec => []OneActiveAttempt
<1>1. RowInv => OneActiveAttempt
  BY DEF RowInv
<1> QED BY <1>1, RowInvariant, PTL

(* Budget: a reservation is held exactly while its attempt has work        *)
(* authority, so every way an attempt can end closes it.                   *)
THEOREM WorkIsReserved == Spec => []ReservationMatchesAttempt
<1>1. RowInv => ReservationMatchesAttempt
  BY DEF RowInv
<1> QED BY <1>1, RowInvariant, PTL

(* Approval: an attempt never waits without an open request.               *)
THEOREM WaitingIsDecidable == Spec => []WaitingHasRequest
<1>1. RowInv => WaitingHasRequest
  BY DEF RowInv
<1> QED BY <1>1, RowInvariant, PTL

(* Locking: what a cancellation has locked is still active when it         *)
(* commits.                                                                *)
THEOREM LocksHold == Spec => []LockedStayActive
<1>1. RowInv => LockedStayActive
  BY DEF RowInv
<1> QED BY <1>1, RowInvariant, PTL

-----------------------------------------------------------------------------
(* Frozen facts *)

(* What one step does to settled facts.                                    *)
FrozenStep ==
    /\ exec \in TerminalExecution => exec' = exec
    /\ \A a \in Attempts : att[a] \in TerminalAttempt => att'[a] = att[a]

(* No step rewrites a terminal execution or attempt.                       *)
LEMMA NextFreezes == RowInv /\ [Next]_vars => FrozenStep
<1> SUFFICES ASSUME RowInv, [Next]_vars PROVE FrozenStep
  OBVIOUS
<1> USE DEF FrozenStep
<1>1. CASE UNCHANGED vars
  BY <1>1 DEF vars
<1>2. CASE Next
  <2>1. ASSUME NEW e \in Engines, NEW s \in Steps, Claim(e, s) PROVE FrozenStep
    <3>1. CASE \/ ClaimThrows(e, s) \/ ClaimNothing(e, s) \/ ClaimTemplateFailure(e, s)
               \/ ClaimAuthorityExpired(e, s) \/ ClaimSkip(e, s)
      BY <3>1 DEF ClaimThrows, ClaimNothing, ClaimTemplateFailure, ClaimAuthorityExpired, ClaimSkip,
         Runnable, Terminalize, TerminalExecution, rows
    <3>2. CASE ClaimRefused(e, s) \/ ClaimWaiting(e, s) \/ ClaimDispatchable(e, s)
      <4>1. exec = "RUNNING" /\ NextAttempt(s) \in Attempts
        BY <3>2, NextAttemptType DEF RowInv, TypeInv, ClaimRefused, ClaimWaiting,
           ClaimDispatchable, Claims, Claimable, Runnable
      <4>2. att[NextAttempt(s)] = "NONE"
        BY <4>1 DEF RowInv, TypeInv, TypeOK, UnclaimedAreFresh, NextAttempt
      <4> QED
        BY <3>2, <4>1, <4>2 DEF RowInv, TypeInv, TypeOK, ClaimRefused, ClaimWaiting,
           ClaimDispatchable, TerminalExecution, TerminalAttempt
    <3> QED
      BY <2>1, <3>1, <3>2 DEF Claim
  <2>2. ASSUME NEW e \in Engines, PassBegin(e) \/ PassStep(e) \/ PassCrash(e) PROVE FrozenStep
    BY <2>1, <2>2 DEF PassStep, PassBegin, PassRead, PassAdvance, PassCheck, PassDecide,
       PassFail, PassComplete, PassCancel, PassCrash, Terminalize, rows
  <2>3. ASSUME NEW d \in Dispatchers, DispatchStep(d) \/ DispatcherCrash(d) PROVE FrozenStep
    BY <2>3 DEF RowInv, TypeInv, TypeOK, DispatchStep, Invoke, InvokeAccepted,
       InvokeLost, InvokeRejected, MarkDispatched, ReturnToPending, FailNonRetryable,
       StaleRejection, DispatcherCrash, Terminalize, TerminalAttempt, rows
  <2>4. ASSUME NEW a \in Attempts, NEW p \in Payloads, ApplyRejected(a, p) \/ ApplyCanonical(a, p)
        PROVE  FrozenStep
    <3>1. CASE ApplyRejected(a, p)
      BY <3>1 DEF ApplyRejected
    <3>2. CASE ApplyCanonical(a, p)
      BY <3>2 DEF ApplyCanonical, SettledExecution, Terminalize
    <3> QED
      BY <2>4, <3>1, <3>2
  <2>5. ASSUME NEW a \in Attempts, NEW v \in Decisions,
               DecideSettled(a, v) \/ FailWaiting(a, v) \/ ApproveResume(a)
        PROVE  FrozenStep
    BY <2>5 DEF RowInv, TypeInv, TypeOK, DecideSettled, FailWaiting, ApproveResume,
       TerminalExecution, TerminalAttempt
  <2>6. ASSUME NEW d \in Dispatchers, NEW a \in Attempts, Lease(d, a) PROVE FrozenStep
    BY <2>6 DEF Lease
  <2>7. ASSUME NEW a \in Attempts, ProjectLiveness(a) PROVE FrozenStep
    BY <2>7 DEF ProjectLiveness, TerminalAttempt
  <2>8. CASE CancelRequest \/ CancelTooLate
    BY <2>8 DEF CancelRequest, CancelTooLate, rows
  <2>9. CASE CancelCommit
    BY <2>9 DEF RowInv, LockedStayActive, ActiveAttempt, CancelCommit, TerminalAttempt
  <2> QED
    BY <1>2, <2>2, <2>3, <2>4, <2>5, <2>6, <2>7, <2>8, <2>9, EnvironmentAssumption
       DEF Next, WorkerResult, ExpireAttempt, SupervisionTimeout, Payloads, Approve,
       ApproveRefused, Deny, Expire, Decisions
<1> QED BY <1>1, <1>2

(* A finished execution and a settled attempt are never rewritten.         *)
THEOREM SettledIsFrozen == Spec => TerminalFactsFrozen
<1>1. RowInv /\ [Next]_vars
      => [/\ exec \in TerminalExecution => exec' = exec
          /\ \A a \in Attempts : att[a] \in TerminalAttempt => att'[a] = att[a]]_vars
  BY NextFreezes DEF FrozenStep
<1> QED BY <1>1, RowInvariant, PTL DEF Spec, TerminalFactsFrozen

(* The result the inbox applied and the attempt's outcome never drift      *)
(* apart.                                                                  *)
LEMMA AppliedStep ==
    RowInv /\ AppliedResultIsOutcome /\ [Next]_vars => AppliedResultIsOutcome'
<1> SUFFICES ASSUME RowInv, AppliedResultIsOutcome, [Next]_vars PROVE AppliedResultIsOutcome'
  OBVIOUS
<1>1. \A a \in Attempts, p \in Payloads : AttemptStatusOf(p) \in TerminalAttempt
  BY DEF AttemptStatusOf, TerminalAttempt
<1>2. CASE UNCHANGED <<inbox, payload>>
  <2>1. \A a \in Attempts : inbox[a] = "APPLIED" => att'[a] = att[a]
    BY NextFreezes DEF FrozenStep, AppliedResultIsOutcome, AttemptStatusOf,
       TerminalAttempt
  <2> QED
    BY <1>2, <2>1 DEF AppliedResultIsOutcome
<1>3. ASSUME NEW a \in Attempts, NEW p \in Payloads, ApplyRejected(a, p)
      PROVE  AppliedResultIsOutcome'
  BY <1>3 DEF ApplyRejected, Received, AppliedResultIsOutcome
<1>4. ASSUME NEW a \in Attempts, NEW p \in Payloads, ApplyCanonical(a, p)
      PROVE  AppliedResultIsOutcome'
  BY <1>4 DEF RowInv, TypeInv, TypeOK, ApplyCanonical, Superseded, EffectiveStatuses,
     AppliedResultIsOutcome, AttemptStatusOf
<1>5. CASE Next
  <2>1. ASSUME NEW e \in Engines, PassBegin(e) \/ PassStep(e) \/ PassCrash(e)
        PROVE  UNCHANGED <<inbox, payload>>
    <3>1. ASSUME NEW s \in Steps, Claim(e, s) PROVE UNCHANGED <<inbox, payload>>
      BY <3>1 DEF Claim, ClaimThrows, ClaimNothing, ClaimTemplateFailure, ClaimAuthorityExpired,
         ClaimSkip, ClaimRefused, ClaimWaiting, ClaimDispatchable, rows
    <3> QED
      BY <2>1, <3>1 DEF PassStep, PassBegin, PassRead, PassAdvance, PassCheck,
         PassDecide, PassFail, PassComplete, PassCancel, PassCrash, rows
  <2>2. ASSUME NEW d \in Dispatchers, DispatchStep(d) \/ DispatcherCrash(d)
        PROVE  UNCHANGED <<inbox, payload>>
    BY <2>2 DEF DispatchStep, Invoke, InvokeAccepted, InvokeLost, InvokeRejected,
       MarkDispatched, ReturnToPending, FailNonRetryable, StaleRejection,
       DispatcherCrash, rows
  <2>3. ASSUME NEW a \in Attempts,
               \/ Approve(a) \/ Deny(a) \/ Expire(a) \/ ProjectLiveness(a)
               \/ \E d \in Dispatchers : Lease(d, a)
        PROVE  UNCHANGED <<inbox, payload>>
    BY <2>3 DEF Approve, ApproveRefused, Deny, Expire, DecideSettled, FailWaiting,
       ApproveResume, ProjectLiveness, Lease
  <2>4. CASE CancelRequest \/ CancelTooLate \/ CancelCommit
    BY <1>2, <2>4 DEF CancelRequest, CancelTooLate, CancelCommit, rows
  <2> QED
    BY <1>2, <1>3, <1>4, <1>5, <2>1, <2>2, <2>3, <2>4, EnvironmentAssumption DEF Next,
       WorkerResult, ExpireAttempt, SupervisionTimeout, Payloads
<1>6. CASE UNCHANGED vars
  BY <1>2, <1>6 DEF vars
<1> QED BY <1>5, <1>6

(* The applied result is the outcome: a duplicate, a late or a conflicting *)
(* delivery never leaves the inbox saying one thing and the attempt another. *)
THEOREM OutcomeIsApplied == Spec => []AppliedResultIsOutcome
<1>1. Init => AppliedResultIsOutcome
  BY DEF Init, AppliedResultIsOutcome
<1> QED BY <1>1, AppliedStep, RowInvariant, PTL DEF Spec

-----------------------------------------------------------------------------
(* Leases and the end of a run *)

(* What one step does to the counters that starting work moves.            *)
StartsNothing == tries' = tries /\ dispatchCount' = dispatchCount

(* Once the execution is terminal no claim and no lease is possible: both  *)
(* check its status again under the lock, whatever the pass has read.      *)
LEMMA NextStartsNothing == exec \in TerminalExecution /\ [Next]_vars => StartsNothing
<1> SUFFICES ASSUME exec \in TerminalExecution, [Next]_vars PROVE StartsNothing
  OBVIOUS
<1> USE DEF StartsNothing
<1>1. CASE UNCHANGED vars
  BY <1>1 DEF vars
<1>2. CASE Next
  <2>1. ASSUME NEW e \in Engines, PassBegin(e) \/ PassStep(e) \/ PassCrash(e) PROVE StartsNothing
    <3>1. ASSUME NEW s \in Steps, Claim(e, s) PROVE StartsNothing
      BY <3>1 DEF Claim, ClaimThrows, ClaimNothing, ClaimTemplateFailure, ClaimAuthorityExpired,
         ClaimSkip, ClaimRefused, ClaimWaiting, ClaimDispatchable, Claims, Claimable,
         Runnable, TerminalExecution, rows
    <3> QED
      BY <2>1, <3>1 DEF PassStep, PassBegin, PassRead, PassAdvance, PassCheck,
         PassDecide, PassFail, PassComplete, PassCancel, PassCrash, rows
  <2>2. ASSUME NEW d \in Dispatchers, DispatchStep(d) \/ DispatcherCrash(d) PROVE StartsNothing
    BY <2>2 DEF DispatchStep, Invoke, InvokeAccepted, InvokeLost, InvokeRejected,
       MarkDispatched, ReturnToPending, FailNonRetryable, StaleRejection,
       DispatcherCrash, rows
  <2>3. ASSUME NEW a \in Attempts,
               \/ Approve(a) \/ Deny(a) \/ Expire(a) \/ ProjectLiveness(a)
               \/ \E d \in Dispatchers : Lease(d, a)
               \/ \E p \in Payloads : ApplyRejected(a, p) \/ ApplyCanonical(a, p)
        PROVE  StartsNothing
    BY <2>3 DEF Approve, ApproveRefused, Deny, Expire, DecideSettled, FailWaiting,
       ApproveResume, ProjectLiveness, Lease, ApplyRejected, ApplyCanonical
  <2>4. CASE CancelRequest \/ CancelTooLate \/ CancelCommit
    BY <2>4 DEF CancelRequest, CancelTooLate, CancelCommit, rows
  <2> QED
    BY <1>2, <2>1, <2>2, <2>3, <2>4, EnvironmentAssumption DEF Next, WorkerResult,
       ExpireAttempt, SupervisionTimeout, Payloads
<1> QED BY <1>1, <1>2

(* A finished run starts nothing: no attempt is claimed from a stale pass  *)
(* and no invocation is leased, whatever the replicas had read before.     *)
THEOREM EndedRunIsQuiet == Spec => NothingStartsAfterEnd
<1>1. [Next]_vars
      => [(exec \in TerminalExecution) =>
             (tries' = tries /\ dispatchCount' = dispatchCount)]_vars
  BY NextStartsNothing DEF StartsNothing
<1> QED BY <1>1, PTL DEF Spec, NothingStartsAfterEnd

(* A lease token was issued by the counter of its row.                     *)
TokensIssued ==
    \A d \in Dispatchers :
        dispatcher[d].pc # "idle" => dispatcher[d].token <= dispatchCount[dispatcher[d].attempt]

LeaseInv == TokensIssued /\ LeaseTokensDiffer

(* A lease takes a token above all tokens ever issued for its row.         *)
LEMMA LeaseTakesNewToken ==
    ASSUME TypeInv, LeaseInv, NEW d \in Dispatchers, NEW a \in Attempts, Lease(d, a)
    PROVE  LeaseInv'
<1> DEFINE held == [pc |-> "leased", attempt |-> a, token |-> dispatchCount[a] + 1]
<1>1. dispatcher' = [dispatcher EXCEPT ![d] = held]
      /\ dispatchCount' = [dispatchCount EXCEPT ![a] = dispatchCount[a] + 1]
  BY DEF Lease, NewToken
<1>2. \A b \in Attempts : dispatchCount[b] \in Nat
  BY DEF TypeInv, TypeOK
<1>3. \A e \in Dispatchers : /\ dispatcher[e].pc # "idle" => dispatcher[e].attempt \in Attempts
                             /\ dispatcher[e].token \in Nat
  BY DEF TypeInv, TypeOK, DispatcherWorks, DispatcherStates
<1>4. dispatcher'[d] = held /\ \A e \in Dispatchers : e # d => dispatcher'[e] = dispatcher[e]
  BY <1>1 DEF TypeInv, TypeOK
<1>5. dispatchCount'[a] = dispatchCount[a] + 1
      /\ \A b \in Attempts : b # a => dispatchCount'[b] = dispatchCount[b]
  BY <1>1 DEF TypeInv, TypeOK
<1>6. TokensIssued'
  BY <1>2, <1>3, <1>4, <1>5 DEF LeaseInv, TokensIssued
<1>7. LeaseTokensDiffer'
  <2>1. \A e \in Dispatchers : (dispatcher[e].pc # "idle" /\ dispatcher[e].attempt = a)
                               => dispatcher[e].token # dispatchCount[a] + 1
    BY <1>2 DEF LeaseInv, TokensIssued
  <2> QED
    BY <1>4, <2>1 DEF LeaseInv, LeaseTokensDiffer
<1> QED BY <1>6, <1>7 DEF LeaseInv

(* Any other step keeps what a busy dispatcher holds, or ends its lease.   *)
LEMMA LeaseStep == TypeInv /\ LeaseInv /\ [Next]_vars => LeaseInv'
<1> SUFFICES ASSUME TypeInv, LeaseInv, [Next]_vars PROVE LeaseInv'
  OBVIOUS
<1>1. ASSUME UNCHANGED <<dispatcher, dispatchCount>> PROVE LeaseInv'
  BY <1>1 DEF LeaseInv, TokensIssued, LeaseTokensDiffer
<1>2. ASSUME NEW d \in Dispatchers, DispatchStep(d) \/ DispatcherCrash(d) PROVE LeaseInv'
  <2>1. /\ dispatchCount' = dispatchCount
        /\ \A e \in Dispatchers : e # d => dispatcher'[e] = dispatcher[e]
    BY <1>2 DEF TypeInv, TypeOK, DispatchStep, Invoke, InvokeAccepted, InvokeLost,
       InvokeRejected, MarkDispatched, ReturnToPending, FailNonRetryable,
       StaleRejection, DispatcherCrash, rows
  <2>2. CASE dispatcher'[d].pc = "idle"
    BY <2>1, <2>2 DEF LeaseInv, TokensIssued, LeaseTokensDiffer
  <2>3. CASE dispatcher'[d].pc # "idle"
    <3>1. Invoke(d)
      BY <1>2, <2>3 DEF TypeInv, TypeOK, DispatchStep, MarkDispatched, ReturnToPending,
         FailNonRetryable, StaleRejection, DispatcherCrash, IdleDispatcher
    <3>2. /\ dispatcher[d].pc = "leased"
          /\ dispatcher'[d].attempt = dispatcher[d].attempt
          /\ dispatcher'[d].token = dispatcher[d].token
      BY <3>1 DEF TypeInv, TypeOK, DispatcherStates, Invoke, InvokeAccepted, InvokeLost,
         InvokeRejected
    <3> QED
      BY <2>1, <3>2 DEF LeaseInv, TokensIssued, LeaseTokensDiffer
  <2> QED BY <2>2, <2>3
<1>3. CASE Next
  <2>1. ASSUME NEW e \in Engines, PassBegin(e) \/ PassStep(e) \/ PassCrash(e)
        PROVE  UNCHANGED <<dispatcher, dispatchCount>>
    <3>1. ASSUME NEW s \in Steps, Claim(e, s) PROVE UNCHANGED <<dispatcher, dispatchCount>>
      BY <3>1 DEF Claim, ClaimThrows, ClaimNothing, ClaimTemplateFailure, ClaimAuthorityExpired,
         ClaimSkip, ClaimRefused, ClaimWaiting, ClaimDispatchable, rows
    <3> QED
      BY <2>1, <3>1 DEF PassStep, PassBegin, PassRead, PassAdvance, PassCheck,
         PassDecide, PassFail, PassComplete, PassCancel, PassCrash, rows
  <2>2. ASSUME NEW a \in Attempts,
               \/ Approve(a) \/ Deny(a) \/ Expire(a) \/ ProjectLiveness(a)
               \/ \E p \in Payloads : ApplyRejected(a, p) \/ ApplyCanonical(a, p)
        PROVE  UNCHANGED <<dispatcher, dispatchCount>>
    BY <2>2 DEF Approve, ApproveRefused, Deny, Expire, DecideSettled, FailWaiting,
       ApproveResume, ProjectLiveness, ApplyRejected, ApplyCanonical
  <2>3. CASE CancelRequest \/ CancelTooLate \/ CancelCommit
    BY <1>1, <2>3 DEF CancelRequest, CancelTooLate, CancelCommit, rows
  <2> QED
    BY <1>1, <1>2, <1>3, <2>1, <2>2, <2>3, LeaseTakesNewToken, EnvironmentAssumption
       DEF Next, WorkerResult, ExpireAttempt, SupervisionTimeout, Payloads
<1>4. CASE UNCHANGED vars
  BY <1>1, <1>4 DEF vars
<1> QED BY <1>3, <1>4

(* Lease tokens: two loops that hold a lease on one row never hold the     *)
(* same token, however often leases expire and loops crash; so at most one *)
(* of them passes the token check and commits its outcome.                 *)
THEOREM TokensAreUnique == Spec => []LeaseTokensDiffer
<1>1. Init => LeaseInv
  BY DEF Init, LeaseInv, TokensIssued, LeaseTokensDiffer, IdleDispatcher
<1>2. Spec => []TypeInv
  BY TypeInit, TypeStep, PTL DEF Spec
<1>3. LeaseInv => LeaseTokensDiffer
  BY DEF LeaseInv
<1> QED BY <1>1, <1>2, <1>3, LeaseStep, PTL DEF Spec
-----------------------------------------------------------------------------
(***************************************************************************)
(* The workflow invariants of the control plane: step summaries, retries,  *)
(* dependencies and the completion of a run.  All of them rest on          *)
(* ExclusiveRejection, because a result may rewrite the summary of a step  *)
(* whose attempt was rejected at dispatch and executed all the same.       *)
(*                                                                         *)
(* With them, the control plane implements the ledger of work authority.   *)
(***************************************************************************)

Lost == {"FAILED", "TIMED_OUT"}

(* A skipped step has no attempt in progress, and a step that is to be     *)
(* retried has an attempt left.                                            *)
IdleStepsAreIdle ==
    \A s \in Steps :
        /\ step[s] = "SKIPPED" => tries[s] = 0 \/ att[Latest(s)] \in Lost
        /\ step[s] = "RETRYING" => tries[s] < MaxAttempts[s]

FlowInv == StepTellsLatestAttempt /\ RetriesAreBounded /\ IdleStepsAreIdle

(* A pass concludes that a run is complete only when every step is         *)
(* resolved, and resolved steps stay resolved.                             *)
AllResolved == \A s \in Steps : Resolved(s)
Completing == exec = "COMPLETED" \/ \E e \in Engines : pass[e].pc = "complete"
EndInv == DependenciesRespected /\ (Completing => AllResolved)

(* Only invocations with an outbox row reach a worker, and only refused    *)
(* ones are rejected.                                                      *)
DeliveredHaveRows ==
    /\ \A d \in Dispatchers :
           /\ dispatcher[d].pc # "idle" => outbox[dispatcher[d].attempt] # "NONE"
           /\ dispatcher[d].pc = "rejected" => worker[dispatcher[d].attempt] = "refused"
    /\ \A a \in Attempts : worker[a] # "unseen" => outbox[a] # "NONE"

(* An attempt that was settled without its result was refused, or was      *)
(* cancelled with the run.                                                 *)
SettledWithoutResult ==
    \A a \in Attempts : (att[a] \in TerminalAttempt /\ inbox[a] # "APPLIED") =>
        \/ att[a] = "FAILED" /\ (worker[a] = "refused" \/ outbox[a] = "NONE")
        \/ att[a] = "CANCELLED" /\ exec = "CANCELLED"

(* The inductive invariant.                                                *)
WorkInv == RowInv /\ FlowInv /\ EndInv /\ DeliveredHaveRows /\ SettledWithoutResult

(* What can be delivered for an attempt.                                   *)
Delivers(a, p) == FromWorker(a, p) \/ FromDeadline(a, p) \/ FromSupervision(a, p)

(* An attempt that is still active is the latest of its step, which is not *)
(* resolved.                                                               *)
LEMMA ActiveIsLatest ==
    ASSUME RowInv, FlowInv, NEW a \in Attempts, att[a] \in ActiveAttempt
    PROVE  /\ a[1] \in Steps
           /\ a = Latest(a[1])
           /\ tries[a[1]] > 0
           /\ step[a[1]] \in {"RUNNING", "WAITING", "CANCELLED"}
<1> DEFINE s == a[1]
<1>1. s \in Steps /\ a[2] \in 1..AttemptBound /\ a = <<s, a[2]>>
  BY AttemptPairs
<1>2. tries[s] \in 0..AttemptBound
  BY <1>1 DEF RowInv, TypeInv, TypeOK
<1>3. ~(a[2] > tries[s])
  BY DEF RowInv, UnclaimedAreFresh, ActiveAttempt
<1>4. ~(a[2] < tries[s])
  BY <1>1 DEF FlowInv, RetriesAreBounded, ActiveAttempt
<1>5. a[2] = tries[s]
  BY <1>1, <1>2, <1>3, <1>4, BoundAssumption
<1>6. a = Latest(s) /\ tries[s] > 0
  BY <1>1, <1>5, BoundAssumption DEF Latest
<1>7. step[s] \in StepStatuses
  BY <1>1 DEF RowInv, TypeInv, TypeOK
<1>8. step[s] \in {"RUNNING", "WAITING", "CANCELLED"}
  BY <1>1, <1>2, <1>6, <1>7, BoundAssumption DEF FlowInv, StepTellsLatestAttempt,
     IdleStepsAreIdle, Lost, ActiveAttempt, StepStatuses
<1> QED BY <1>1, <1>6, <1>8

(* A resolved step is none of those with an active attempt.                *)
LEMMA UnresolvedStatuses ==
    ASSUME NEW s \in Steps,
           step[s] \in {"PENDING", "READY", "RETRYING", "RUNNING", "WAITING", "CANCELLED"}
    PROVE  ~Resolved(s)
  BY DEF Resolved

(* With exclusive rejection, a result is applied to a live attempt only.   *)
LEMMA ResultsSettleLiveAttempts ==
    ASSUME WorkInv, NEW a \in Attempts, NEW p \in Payloads, Delivers(a, p),
           ApplyCanonical(a, p)
    PROVE  att[a] \in IndexedAttempt
<1>1. att[a] \in AttemptStatuses /\ att[a] # "NONE" /\ inbox[a] # "APPLIED"
  BY DEF WorkInv, RowInv, TypeInv, TypeOK, ApplyCanonical, Received
<1>2. outbox[a] # "NONE"
  <2>1. FromSupervision(a, p) => outbox[a] = "DISPATCHED"
    BY DEF WorkInv, RowInv, OutboxMatchesAttempt, OutboxAgrees, FromSupervision,
       TerminalAttempt
  <2> QED
    BY <2>1 DEF WorkInv, DeliveredHaveRows, Delivers, FromWorker, FromDeadline
<1>3. att[a] # "WAITING"
  BY <1>2 DEF WorkInv, RowInv, OutboxMatchesAttempt, OutboxAgrees, TerminalAttempt
<1>4. att[a] \notin TerminalAttempt
  <2> SUFFICES ASSUME att[a] \in TerminalAttempt PROVE FALSE
    OBVIOUS
  <2>1. exec # "CANCELLED" /\ att[a] = AttemptStatusOf(p)
    BY DEF ApplyCanonical, Superseded
  <2>2. att[a] = "FAILED" /\ worker[a] = "refused"
    BY <1>1, <1>2, <2>1 DEF WorkInv, SettledWithoutResult
  <2>3. p = "failed"
    BY <2>1, <2>2 DEF AttemptStatusOf, Payloads, Outcomes
  <2> QED
    BY <2>2, <2>3 DEF Delivers, FromWorker, FromDeadline, FromSupervision
<1> QED
  BY <1>1, <1>3, <1>4 DEF AttemptStatuses, TerminalAttempt, IndexedAttempt

-----------------------------------------------------------------------------
(* Step summaries and retries *)

(* The summary a step may carry when its latest attempt, number n, is in   *)
(* the given state.                                                        *)
Fits(s, n, summary, attempt) ==
    /\ summary \notin {"PENDING", "READY", "SKIPPED"}
    /\ summary = "RUNNING" => attempt \in IndexedAttempt
    /\ summary = "WAITING" => attempt = "WAITING"
    /\ summary = "COMPLETED" => attempt = "SUCCESS"
    /\ summary \in {"RETRYING", "FAILED"} => attempt \in Lost
    /\ summary = "RETRYING" => n < MaxAttempts[s]

(* A step that leaves summaries and attempts alone.                        *)
LEMMA ElsewhereFlow ==
    ASSUME FlowInv, UNCHANGED <<step, tries, att>>
    PROVE  FlowInv'
  BY DEF FlowInv, StepTellsLatestAttempt, RetriesAreBounded, IdleStepsAreIdle, Latest

(* A failed step is retried only while attempts are left.                  *)
LEMMA FailedStepFits ==
    ASSUME NEW a \in Attempts, NEW status \in Lost
    PROVE  Fits(a[1], a[2], FailedStepStatus(a), status)
  BY DEF Fits, FailedStepStatus, RetryAllowed, Lost

(* The active attempt of a step and the summary of the step move together. *)
LEMMA ActiveAttemptFlow ==
    ASSUME RowInv, FlowInv, NEW a \in Attempts, att[a] \in ActiveAttempt,
           NEW attempt, NEW summary, Fits(a[1], a[2], summary, attempt),
           tries' = tries,
           att' = [att EXCEPT ![a] = attempt],
           step' = [step EXCEPT ![a[1]] = summary]
    PROVE  FlowInv'
<1> DEFINE s == a[1]
<1>1. s \in Steps /\ a = <<s, tries[s]>> /\ tries[s] > 0 /\ a[2] = tries[s]
  BY ActiveIsLatest DEF Latest
<1>2. step'[s] = summary /\ \A t \in Steps : t # s => step'[t] = step[t]
  BY <1>1 DEF RowInv, TypeInv, TypeOK
<1>3. att'[a] = attempt /\ \A b \in Attempts : b # a => att'[b] = att[b]
  BY DEF RowInv, TypeInv, TypeOK
<1>4. \A t \in Steps : tries[t] > 0 => Latest(t) \in Attempts
  BY AttemptPairs, BoundAssumption DEF RowInv, TypeInv, TypeOK, Latest
<1>5. \A t \in Steps : t # s /\ tries[t] > 0 => att'[Latest(t)] = att[Latest(t)]
  BY <1>3, <1>4, <1>1 DEF Latest
<1>6. Latest(s) = a /\ \A t \in Steps : Latest(t)' = Latest(t)
  BY <1>1 DEF Latest
<1>7. StepTellsLatestAttempt'
  BY <1>1, <1>2, <1>3, <1>5, <1>6 DEF FlowInv, StepTellsLatestAttempt, Fits, Lost
<1>8. IdleStepsAreIdle'
  <2>1. \A t \in Steps : tries[t] \in Nat
    BY DEF RowInv, TypeInv, TypeOK
  <2> QED
    BY <2>1, <1>1, <1>2, <1>5, <1>6 DEF FlowInv, IdleStepsAreIdle, Fits
<1>9. RetriesAreBounded'
  <2>1. \A t \in Steps, n \in 1..AttemptBound : n < tries[t] => att'[<<t, n>>] = att[<<t, n>>]
    BY <1>1, <1>3, AttemptPairs
  <2> QED
    BY <2>1 DEF FlowInv, RetriesAreBounded
<1> QED BY <1>7, <1>8, <1>9 DEF FlowInv

(* A claim starts the next attempt of a step that has none or a failed     *)
(* one.                                                                    *)
LEMMA NewAttemptFlow ==
    ASSUME RowInv, FlowInv, NEW e \in Engines, NEW s \in Steps, Claims(e, s),
           NEW attempt, NEW summary, Fits(s, tries[s] + 1, summary, attempt),
           att' = [att EXCEPT ![NextAttempt(s)] = attempt],
           step' = [step EXCEPT ![s] = summary]
    PROVE  FlowInv'
<1> DEFINE a == NextAttempt(s)
<1>1. a \in Attempts /\ a = <<s, tries[s] + 1>> /\ tries[s] \in Nat
  BY NextAttemptType DEF RowInv, TypeInv, TypeOK, Claims, NextAttempt
<1>2. step'[s] = summary /\ \A t \in Steps : t # s => step'[t] = step[t]
  BY DEF RowInv, TypeInv, TypeOK
<1>3. att'[a] = attempt /\ \A b \in Attempts : b # a => att'[b] = att[b]
  BY <1>1 DEF RowInv, TypeInv, TypeOK
<1>4. tries'[s] = tries[s] + 1 /\ \A t \in Steps : t # s => tries'[t] = tries[t]
  BY DEF RowInv, TypeInv, TypeOK, Claims
<1>5. step[s] \in {"READY", "RETRYING"}
  BY DEF Claims, Claimable, Runnable
<1>6. tries[s] < MaxAttempts[s]
  BY <1>1, <1>5, PlanAssumption DEF FlowInv, StepTellsLatestAttempt, IdleStepsAreIdle
<1>7. tries[s] > 0 => att[<<s, tries[s]>>] \in Lost
  BY <1>5 DEF FlowInv, StepTellsLatestAttempt, Latest, Lost
<1>8. \A t \in Steps : t # s /\ tries[t] > 0 =>
          Latest(t)' = Latest(t) /\ att'[Latest(t)] = att[Latest(t)]
  <2>1. \A t \in Steps : tries[t] > 0 => Latest(t) \in Attempts
    BY AttemptPairs, BoundAssumption DEF RowInv, TypeInv, TypeOK, Latest
  <2> QED
    BY <1>1, <1>3, <1>4, <2>1 DEF Latest
<1>9. Latest(s)' = a
  BY <1>1, <1>4 DEF Latest
<1>10. \A t \in Steps : t # s => Latest(t)' = Latest(t)
  BY <1>4 DEF Latest
<1>11. StepTellsLatestAttempt'
  BY <1>1, <1>2, <1>3, <1>4, <1>8, <1>9 DEF FlowInv, StepTellsLatestAttempt, Fits, Lost
<1>12. IdleStepsAreIdle'
  <2>1. \A t \in Steps : tries[t] \in Nat
    BY DEF RowInv, TypeInv, TypeOK
  <2> QED
    BY <2>1, <1>2, <1>3, <1>4, <1>8, <1>9 DEF FlowInv, IdleStepsAreIdle, Fits
<1>13. RetriesAreBounded'
  <2>1. tries'[s] <= MaxAttempts[s]
    BY <1>1, <1>4, <1>6, PlanAssumption
  <2>2. \A n \in 1..AttemptBound : n < tries'[s] => att'[<<s, n>>] \in Lost
    <3> SUFFICES ASSUME NEW n \in 1..AttemptBound, n < tries'[s]
                 PROVE  att'[<<s, n>>] \in Lost
      OBVIOUS
    <3>1. att'[<<s, n>>] = att[<<s, n>>]
      BY <1>1, <1>3, <1>4, AttemptPairs
    <3>2. n = tries[s] \/ n < tries[s]
      BY <1>1, <1>4, BoundAssumption
    <3> QED
      BY <3>1, <3>2, <1>7, <1>1, BoundAssumption DEF FlowInv, RetriesAreBounded, Lost
  <2>3. \A t \in Steps, n \in 1..AttemptBound :
            t # s => att'[<<t, n>>] = att[<<t, n>>] /\ tries'[t] = tries[t]
    BY <1>1, <1>3, <1>4, AttemptPairs
  <2>4. \A t \in Steps : t # s => tries'[t] <= MaxAttempts[t]
    BY <1>4 DEF FlowInv, RetriesAreBounded
  <2>5. \A t \in Steps, n \in 1..AttemptBound :
            t # s /\ n < tries'[t] => att'[<<t, n>>] \in Lost
    BY <2>3 DEF FlowInv, RetriesAreBounded, Lost
  <2>6. \A t \in Steps, n \in 1..AttemptBound : n < tries'[t] => att'[<<t, n>>] \in Lost
    BY <2>2, <2>5
  <2> QED
    BY <2>1, <2>4, <2>6 DEF RetriesAreBounded, Lost
<1> QED BY <1>11, <1>12, <1>13 DEF FlowInv

(* A result settles the attempt it belongs to and its step together.       *)
LEMMA ApplyCanonicalFlow ==
    ASSUME WorkInv, NEW a \in Attempts, NEW p \in Payloads, Delivers(a, p),
           ApplyCanonical(a, p)
    PROVE  FlowInv'
<1>1. att[a] \in ActiveAttempt /\ att[a] \notin TerminalAttempt
  BY ResultsSettleLiveAttempts DEF IndexedAttempt, ActiveAttempt, TerminalAttempt
<1>2. PICK status \in EffectiveStatuses(a, p) :
          /\ att' = [att EXCEPT ![a] = status]
          /\ step' = [step EXCEPT ![a[1]] = SettledStepStatus(a, status)]
  BY <1>1 DEF ApplyCanonical
<1>3. status \in TerminalAttempt
  BY DEF EffectiveStatuses, AttemptStatusOf, TerminalAttempt
<1>4. Fits(a[1], a[2], SettledStepStatus(a, status), status)
  BY <1>3 DEF Fits, SettledStepStatus, RetriesStep, RetryAllowed, TerminalAttempt, Lost
<1>5. tries' = tries
  BY DEF ApplyCanonical
<1> QED
  BY <1>1, <1>2, <1>4, <1>5, ActiveAttemptFlow DEF WorkInv

(* A denial, an expiry or a refused approval fails the waiting attempt and *)
(* its step together.                                                      *)
LEMMA FailWaitingFlow ==
    ASSUME WorkInv, NEW a \in Attempts, NEW v \in Decisions, FailWaiting(a, v)
    PROVE  FlowInv'
<1> DEFINE s == a[1]
           summary == IF step[s] = "WAITING" THEN FailedStepStatus(a) ELSE step[s]
<1>1. att[a] = "WAITING" /\ att[a] \in ActiveAttempt
  BY DEF FailWaiting, ActiveAttempt
<1>2. /\ att' = [att EXCEPT ![a] = "FAILED"]
      /\ step' = [step EXCEPT ![s] = summary]
      /\ tries' = tries
  BY DEF FailWaiting
<1>3. s \in Steps /\ a = Latest(s) /\ step[s] \in {"RUNNING", "WAITING", "CANCELLED"}
  BY <1>1, ActiveIsLatest DEF WorkInv
<1>4. step[s] # "RUNNING"
  BY <1>1, <1>3 DEF WorkInv, FlowInv, StepTellsLatestAttempt, IndexedAttempt
<1>5. Fits(s, a[2], summary, "FAILED")
  BY <1>3, <1>4, FailedStepFits DEF Fits, Lost
<1> QED
  BY <1>1, <1>2, <1>5, ActiveAttemptFlow DEF WorkInv

(* An approval resumes the waiting attempt and its step together.          *)
LEMMA ApproveResumeFlow ==
    ASSUME WorkInv, NEW a \in Attempts, ApproveResume(a)
    PROVE  FlowInv'
<1>1. att[a] \in ActiveAttempt
  BY DEF ApproveResume, ActiveAttempt
<1>2. /\ att' = [att EXCEPT ![a] = "CREATED"]
      /\ step' = [step EXCEPT ![a[1]] = "RUNNING"]
      /\ tries' = tries
  BY DEF ApproveResume
<1>3. Fits(a[1], a[2], "RUNNING", "CREATED")
  BY DEF Fits, IndexedAttempt
<1> QED
  BY <1>1, <1>2, <1>3, ActiveAttemptFlow DEF WorkInv

(* The step of an attempt that moves between two states of one kind keeps  *)
(* its summary.                                                            *)
LEMMA StaysIndexedFlow ==
    ASSUME WorkInv, NEW a \in Attempts, att[a] \in IndexedAttempt,
           NEW attempt \in IndexedAttempt,
           UNCHANGED <<step, tries>>, att' = [att EXCEPT ![a] = attempt]
    PROVE  FlowInv'
<1>1. att[a] \in ActiveAttempt
  BY DEF IndexedAttempt, ActiveAttempt
<1>2. /\ a[1] \in Steps /\ a = Latest(a[1])
      /\ step[a[1]] \in {"RUNNING", "WAITING", "CANCELLED"}
  BY <1>1, ActiveIsLatest DEF WorkInv
<1>3. step[a[1]] # "WAITING"
  BY <1>2 DEF WorkInv, FlowInv, StepTellsLatestAttempt, IndexedAttempt
<1>4. Fits(a[1], a[2], step[a[1]], attempt)
  BY <1>2, <1>3 DEF Fits
<1>5. step' = [step EXCEPT ![a[1]] = step[a[1]]]
  BY <1>2 DEF WorkInv, RowInv, TypeInv, TypeOK
<1> QED
  BY <1>1, <1>4, <1>5, ActiveAttemptFlow DEF WorkInv

(* A permanent rejection at dispatch fails the attempt and its step        *)
(* together, unless the step was cancelled.                                *)
LEMMA FailNonRetryableFlow ==
    ASSUME WorkInv, NEW d \in Dispatchers, FailNonRetryable(d)
    PROVE  FlowInv'
<1> DEFINE a == dispatcher[d].attempt
           s == a[1]
           summary == IF step[s] \notin TerminalStep THEN FailedStepStatus(a) ELSE step[s]
<1>1. a \in Attempts
  BY DEF WorkInv, RowInv, TypeInv, DispatcherWorks, FailNonRetryable
<1>2. att[a] = "CREATED"
  BY <1>1 DEF WorkInv, RowInv, OutboxMatchesAttempt, OutboxAgrees, FailNonRetryable,
     HoldsLease
<1>3. /\ att' = [att EXCEPT ![a] = "FAILED"]
      /\ step' = [step EXCEPT ![s] = summary]
      /\ tries' = tries
  BY <1>2 DEF FailNonRetryable, TerminalAttempt
<1>4. att[a] \in ActiveAttempt
  BY <1>2 DEF ActiveAttempt
<1>5. s \in Steps /\ step[s] \in {"RUNNING", "WAITING", "CANCELLED"}
  BY <1>1, <1>4, ActiveIsLatest DEF WorkInv
<1>6. Fits(s, a[2], FailedStepStatus(a), "FAILED")
  BY <1>1, FailedStepFits DEF Lost
<1>7. Fits(s, a[2], summary, "FAILED")
  BY <1>5, <1>6 DEF Fits, TerminalStep
<1> QED
  BY <1>1, <1>3, <1>4, <1>7, ActiveAttemptFlow DEF WorkInv

(* A receipt moves its attempt along or changes nothing.                   *)
LEMMA MarkDispatchedFlow ==
    ASSUME WorkInv, NEW d \in Dispatchers, MarkDispatched(d)
    PROVE  FlowInv'
<1> DEFINE a == dispatcher[d].attempt
<1>1. a \in Attempts /\ UNCHANGED <<step, tries>>
  BY DEF WorkInv, RowInv, TypeInv, DispatcherWorks, MarkDispatched
<1>2. CASE att' = att
  BY <1>1, <1>2, ElsewhereFlow DEF WorkInv
<1>3. CASE att[a] = "CREATED" /\ att' = [att EXCEPT ![a] = "DISPATCHED"]
  BY <1>1, <1>3, StaysIndexedFlow DEF IndexedAttempt
<1> QED BY <1>1, <1>2, <1>3 DEF MarkDispatched, WorkInv, RowInv, TypeInv, TypeOK

(* The commit of a cancellation leaves a cancelled step behind every       *)
(* attempt it cancels.                                                     *)
LEMMA CancelCommitFlow == ASSUME WorkInv, CancelCommit PROVE FlowInv'
<1>1. \A a \in Attempts : \/ att'[a] = att[a]
                          \/ att[a] \in ActiveAttempt /\ att'[a] = "CANCELLED"
  BY DEF CancelCommit, WorkInv, RowInv, LockedStayActive
<1>2. tries' = tries
  BY DEF CancelCommit
<1>3. \A s \in Steps : \/ step'[s] = step[s] /\ step[s] \in TerminalStep
                       \/ step'[s] = "CANCELLED"
  BY DEF CancelCommit, CancellableStep, TerminalStep, WorkInv, RowInv, TypeInv, TypeOK,
     StepStatuses
<1>4. \A s \in Steps : tries[s] > 0 => Latest(s) \in Attempts
  BY AttemptPairs, BoundAssumption DEF WorkInv, RowInv, TypeInv, TypeOK, Latest
<1>5. \A s \in Steps : Latest(s)' = Latest(s)
  BY <1>2 DEF Latest
<1>6. StepTellsLatestAttempt'
  BY <1>1, <1>2, <1>3, <1>4, <1>5 DEF WorkInv, FlowInv, StepTellsLatestAttempt,
     TerminalStep, ActiveAttempt
<1>7. IdleStepsAreIdle'
  BY <1>1, <1>2, <1>3, <1>4, <1>5 DEF WorkInv, FlowInv, IdleStepsAreIdle, TerminalStep,
     ActiveAttempt, Lost, RowInv, TypeInv, TypeOK
<1>8. RetriesAreBounded'
  BY <1>1, <1>2, AttemptPairs DEF WorkInv, FlowInv, RetriesAreBounded, ActiveAttempt
<1> QED BY <1>6, <1>7, <1>8 DEF FlowInv

(* A step that moves without its attempts.                                 *)
LEMMA StepMovesFlow ==
    ASSUME WorkInv, UNCHANGED <<tries, att>>,
           \A s \in Steps :
               \/ step'[s] = step[s]
               \/ step[s] = "PENDING" /\ step'[s] = "READY"
               \/ step[s] \in {"READY", "RETRYING"} /\ step'[s] \in {"SKIPPED", "CANCELLED"}
    PROVE  FlowInv'
<1>1. \A s \in Steps : Latest(s)' = Latest(s)
  BY DEF Latest
<1>2. StepTellsLatestAttempt'
  BY <1>1 DEF WorkInv, FlowInv, StepTellsLatestAttempt
<1>3. IdleStepsAreIdle'
  BY <1>1 DEF WorkInv, FlowInv, StepTellsLatestAttempt, IdleStepsAreIdle, Lost
<1>4. RetriesAreBounded'
  BY DEF WorkInv, FlowInv, RetriesAreBounded
<1> QED BY <1>2, <1>3, <1>4 DEF FlowInv

(* A claim moves the step, the attempt, or neither.                        *)
LEMMA ClaimFlow ==
    ASSUME WorkInv, NEW e \in Engines, NEW s \in Steps, Claim(e, s)
    PROVE  FlowInv'
<1>1. CASE ClaimThrows(e, s) \/ ClaimNothing(e, s) \/ ClaimTemplateFailure(e, s)
  BY <1>1, ElsewhereFlow DEF WorkInv, ClaimThrows, ClaimNothing, ClaimTemplateFailure, rows
<1>2. CASE ClaimAuthorityExpired(e, s) \/ ClaimSkip(e, s)
  <2>1. /\ UNCHANGED <<tries, att>>
        /\ \A t \in Steps :
               \/ step'[t] = step[t]
               \/ step[t] = "PENDING" /\ step'[t] = "READY"
               \/ step[t] \in {"READY", "RETRYING"} /\ step'[t] \in {"SKIPPED", "CANCELLED"}
    BY <1>2 DEF WorkInv, RowInv, TypeInv, TypeOK, ClaimAuthorityExpired, ClaimSkip, Runnable
  <2> QED BY <2>1, StepMovesFlow
<1>3. CASE ClaimRefused(e, s)
  <2>1. NextAttempt(s) \in Attempts /\ NextAttempt(s) = <<s, tries[s] + 1>>
    BY <1>3, NextAttemptType DEF WorkInv, RowInv, TypeInv, ClaimRefused, Claims,
       NextAttempt
  <2> DEFINE summary == FailedStepStatus(NextAttempt(s))
  <2>2. Fits(s, tries[s] + 1, summary, "FAILED")
    BY <2>1 DEF Fits, FailedStepStatus, RetryAllowed, Lost
  <2>3. /\ Claims(e, s)
        /\ att' = [att EXCEPT ![NextAttempt(s)] = "FAILED"]
        /\ step' = [step EXCEPT ![s] = summary]
    BY <1>3 DEF ClaimRefused
  <2> HIDE DEF summary
  <2> QED
    BY <2>2, <2>3, NewAttemptFlow DEF WorkInv
<1>4. CASE ClaimWaiting(e, s)
  <2>1. Fits(s, tries[s] + 1, "WAITING", "WAITING")
    BY DEF Fits
  <2> QED
    BY <1>4, <2>1, NewAttemptFlow DEF WorkInv, ClaimWaiting
<1>5. CASE ClaimDispatchable(e, s)
  <2>1. Fits(s, tries[s] + 1, "RUNNING", "CREATED")
    BY DEF Fits, IndexedAttempt
  <2> QED
    BY <1>5, <2>1, NewAttemptFlow DEF WorkInv, ClaimDispatchable
<1> QED BY <1>1, <1>2, <1>3, <1>4, <1>5 DEF Claim

(* The inductive step for summaries and retries.                           *)
LEMMA FlowStep == ASSUME WorkInv, [Next]_vars PROVE FlowInv'
<1>1. CASE UNCHANGED vars
  BY <1>1, ElsewhereFlow DEF WorkInv, vars
<1>2. ASSUME NEW e \in Engines, PassBegin(e) \/ PassStep(e) \/ PassCrash(e)
      PROVE  FlowInv'
  <2>1. CASE PassAdvance(e)
    <3>1. /\ UNCHANGED <<tries, att>>
          /\ \A s \in Steps : step'[s] = step[s] \/ (step[s] = "PENDING" /\ step'[s] = "READY")
      BY <2>1 DEF PassAdvance, Advances
    <3> QED BY <3>1, StepMovesFlow
  <2>2. CASE \/ PassBegin(e) \/ PassRead(e) \/ PassCheck(e) \/ PassDecide(e)
             \/ PassFail(e) \/ PassComplete(e) \/ PassCancel(e) \/ PassCrash(e)
    BY <2>2, ElsewhereFlow DEF WorkInv, PassBegin, PassRead, PassCheck, PassDecide,
       PassFail, PassComplete, PassCancel, PassCrash, rows
  <2> QED BY <1>2, <2>1, <2>2, ClaimFlow DEF PassStep
<1>3. ASSUME NEW d \in Dispatchers, DispatchStep(d) \/ DispatcherCrash(d)
      PROVE  FlowInv'
  <2>1. CASE Invoke(d) \/ ReturnToPending(d) \/ StaleRejection(d) \/ DispatcherCrash(d)
    BY <2>1, ElsewhereFlow DEF WorkInv, Invoke, InvokeAccepted, InvokeLost,
       InvokeRejected, ReturnToPending, StaleRejection, DispatcherCrash, rows
  <2> QED BY <1>3, <2>1, MarkDispatchedFlow, FailNonRetryableFlow DEF DispatchStep
<1>4. ASSUME NEW a \in Attempts, NEW p \in Payloads, Delivers(a, p),
             ApplyRejected(a, p) \/ ApplyCanonical(a, p)
      PROVE  FlowInv'
  BY <1>4, ApplyCanonicalFlow, ElsewhereFlow DEF WorkInv, ApplyRejected
<1>5. ASSUME NEW a \in Attempts, NEW v \in Decisions,
             DecideSettled(a, v) \/ FailWaiting(a, v) \/ ApproveResume(a)
      PROVE  FlowInv'
  BY <1>5, FailWaitingFlow, ApproveResumeFlow, ElsewhereFlow DEF WorkInv, DecideSettled
<1>6. ASSUME NEW a \in Attempts, ProjectLiveness(a) PROVE FlowInv'
  <2>1. att[a] = "DISPATCHED" /\ att' = [att EXCEPT ![a] = "RUNNING"] /\ UNCHANGED <<step, tries>>
    BY <1>6 DEF ProjectLiveness
  <2> QED BY <2>1, StaysIndexedFlow DEF IndexedAttempt
<1>7. ASSUME NEW d \in Dispatchers, NEW a \in Attempts, Lease(d, a) PROVE FlowInv'
  BY <1>7, ElsewhereFlow DEF WorkInv, Lease
<1>8. CASE CancelRequest \/ CancelTooLate \/ CancelCommit
  BY <1>8, CancelCommitFlow, ElsewhereFlow DEF WorkInv, CancelRequest, CancelTooLate, rows
<1> QED
  BY <1>1, <1>2, <1>3, <1>4, <1>5, <1>6, <1>7, <1>8, EnvironmentAssumption DEF Next,
     WorkerResult, ExpireAttempt, SupervisionTimeout, Delivers, Payloads, Approve,
     ApproveRefused, Deny, Expire, Decisions

-----------------------------------------------------------------------------
(* Dependencies and completion *)

(* What keeps EndInv: resolved steps stay resolved, work starts behind     *)
(* resolved dependencies, and a pass completes what is resolved.           *)
KeepsEnds ==
    /\ \A s \in Steps : Resolved(s) => Resolved(s)'
    /\ \A s \in Steps : tries'[s] > 0 => tries[s] > 0 \/ DependenciesResolved(s)
    /\ Completing' => Completing \/ AllResolved

(* A step that keeps the ends keeps the invariant.                         *)
LEMMA EndsKept == ASSUME EndInv, KeepsEnds PROVE EndInv'
<1>1. \A s \in Steps : tries[s] > 0 => DependenciesResolved(s)
  BY DEF EndInv, DependenciesRespected, DependenciesResolved, Resolved
<1>2. \A s \in Steps : tries'[s] > 0 => DependenciesResolved(s)
  BY <1>1 DEF KeepsEnds
<1>3. \A s \in Steps : \A d \in DependsOn[s] : d \in Steps
  BY PlanAssumption
<1>4. DependenciesRespected'
  BY <1>2, <1>3 DEF KeepsEnds, DependenciesResolved, DependenciesRespected, Resolved
<1>5. AllResolved => AllResolved'
  BY DEF KeepsEnds, AllResolved
<1> QED BY <1>4, <1>5 DEF EndInv, KeepsEnds

(* A step that moves only unresolved steps, claims nothing and completes   *)
(* nothing keeps the ends.                                                 *)
LEMMA UnresolvedMoves ==
    ASSUME tries' = tries, Completing' => Completing \/ AllResolved,
           \A s \in Steps : \/ step'[s] = step[s]
                            \/ step[s] \in {"PENDING", "READY", "RETRYING", "RUNNING",
                                            "WAITING", "CANCELLED"}
    PROVE  KeepsEnds
<1>1. \A s \in Steps : Resolved(s) => Resolved(s)'
  BY DEF Resolved
<1> QED BY <1>1 DEF KeepsEnds

(* A step of one actor leaves the other passes as they were.               *)
LEMMA PassesLeft ==
    ASSUME TypeInv, NEW e \in Engines, NEW next, next.pc # "complete",
           pass' = [pass EXCEPT ![e] = next],
           exec' = "COMPLETED" => exec = "COMPLETED"
    PROVE  Completing' => Completing
  BY DEF TypeInv, TypeOK, Completing

(* Only a pass that found every step resolved sets out to complete a run.  *)
LEMMA CompletingStep ==
    ASSUME WorkInv, [Next]_vars
    PROVE  Completing' => Completing \/ AllResolved
<1> USE DEF Completing
<1>t. TypeInv
  BY DEF WorkInv, RowInv
<1>1. CASE UNCHANGED vars
  BY <1>1 DEF vars
<1>2. ASSUME NEW e \in Engines, NEW s \in Steps, Claim(e, s)
      PROVE  Completing' => Completing
  <2> DEFINE left == pass[e].todo \ {s}
  <2>1. exec' = "COMPLETED" => exec = "COMPLETED"
    BY <1>2 DEF Claim, ClaimThrows, ClaimNothing, ClaimTemplateFailure, ClaimAuthorityExpired,
       ClaimSkip, ClaimRefused, ClaimWaiting, ClaimDispatchable, Terminalize, rows
  <2>2. \/ pass' = [pass EXCEPT ![e] = IdlePass]
        \/ pass' = [pass EXCEPT ![e] = [pc |-> "claim", todo |-> left]]
    BY <1>2 DEF Claim, ClaimThrows, ClaimNothing, ClaimTemplateFailure, ClaimAuthorityExpired,
       ClaimSkip, ClaimRefused, ClaimWaiting, ClaimDispatchable, Claims, Handled
  <2> QED
    BY <1>t, <2>1, <2>2, PassesLeft DEF IdlePass
<1>3. ASSUME NEW e \in Engines, PassDecide(e)
      PROVE  Completing' => Completing \/ AllResolved
  <2>1. Decision = "complete" => AllResolved
    BY DEF Decision, AllSettled, AllResolved, Resolved, TerminalStep
  <2> DEFINE next == [pc |-> Decision, todo |-> IF Decision = "claim" THEN Due ELSE {}]
  <2>2. pass' = [pass EXCEPT ![e] = next] /\ exec' = exec
    BY <1>3 DEF PassDecide, rows
  <2>3. next.pc = Decision
    OBVIOUS
  <2> HIDE DEF next
  <2>4. CASE Decision # "complete"
    BY <1>t, <2>2, <2>3, <2>4, PassesLeft
  <2> QED
    BY <2>1, <2>4
<1>4. ASSUME NEW e \in Engines, PassBegin(e) \/ PassStep(e) \/ PassCrash(e)
      PROVE  Completing' => Completing \/ AllResolved
  <2>1. CASE PassBegin(e)
    BY <1>t, <2>1 DEF TypeInv, TypeOK, PassStates, PassBegin
  <2>2. CASE PassRead(e)
    BY <1>t, <2>2 DEF TypeInv, TypeOK, PassRead, rows
  <2>3. CASE PassAdvance(e) \/ PassCheck(e)
    BY <1>t, <2>3 DEF TypeInv, TypeOK, PassAdvance, PassCheck, IdlePass, rows
  <2>4. CASE PassFail(e) \/ PassComplete(e) \/ PassCancel(e) \/ PassCrash(e)
    BY <1>t, <2>4 DEF TypeInv, TypeOK, PassFail, PassComplete, PassCancel, PassCrash,
       IdlePass, Terminalize, rows
  <2> QED BY <1>2, <1>3, <1>4, <2>1, <2>2, <2>3, <2>4 DEF PassStep
<1>5. ASSUME NEW d \in Dispatchers, DispatchStep(d) \/ DispatcherCrash(d)
      PROVE  Completing' => Completing
  BY <1>5 DEF DispatchStep, Invoke, InvokeAccepted, InvokeLost, InvokeRejected,
     MarkDispatched, ReturnToPending, FailNonRetryable, StaleRejection,
     DispatcherCrash, Terminalize, rows
<1>6. ASSUME NEW a \in Attempts, NEW p \in Payloads, ApplyRejected(a, p) \/ ApplyCanonical(a, p)
      PROVE  Completing' => Completing
  BY <1>6 DEF ApplyRejected, ApplyCanonical, SettledExecution, Terminalize
<1>7. ASSUME NEW a \in Attempts,
             \/ Approve(a) \/ Deny(a) \/ Expire(a) \/ ProjectLiveness(a)
             \/ \E d \in Dispatchers : Lease(d, a)
      PROVE  Completing' => Completing
  BY <1>7 DEF Approve, ApproveRefused, Deny, Expire, DecideSettled, FailWaiting,
     ApproveResume, ProjectLiveness, Lease
<1>8. CASE CancelRequest \/ CancelTooLate \/ CancelCommit
  BY <1>8 DEF CancelRequest, CancelTooLate, CancelCommit, rows
<1> QED
  BY <1>1, <1>4, <1>5, <1>6, <1>7, <1>8, EnvironmentAssumption DEF Next, WorkerResult,
     ExpireAttempt, SupervisionTimeout, Payloads

(* A settlement of an active attempt moves an unresolved step.             *)
LEMMA ActiveIsUnresolved ==
    ASSUME WorkInv, NEW a \in Attempts, att[a] \in ActiveAttempt,
           NEW summary, step' = [step EXCEPT ![a[1]] = summary]
    PROVE  \A s \in Steps : \/ step'[s] = step[s]
                            \/ step[s] \in {"PENDING", "READY", "RETRYING", "RUNNING",
                                            "WAITING", "CANCELLED"}
  BY ActiveIsLatest DEF WorkInv, RowInv, TypeInv, TypeOK

(* The inductive step for dependencies and completion.                     *)
LEMMA EndStep == ASSUME WorkInv, [Next]_vars PROVE EndInv'
<1> DEFINE Unresolved == \A s \in Steps :
               \/ step'[s] = step[s]
               \/ step[s] \in {"PENDING", "READY", "RETRYING", "RUNNING", "WAITING",
                               "CANCELLED"}
<1> SUFFICES KeepsEnds
  BY EndsKept DEF WorkInv
<1>c. Completing' => Completing \/ AllResolved
  BY CompletingStep
<1>u. ASSUME tries' = tries, Unresolved PROVE KeepsEnds
  BY <1>u, <1>c, UnresolvedMoves
<1>1. CASE UNCHANGED vars
  BY <1>1, <1>u DEF vars
<1>2. ASSUME NEW e \in Engines, NEW s \in Steps, Claim(e, s) PROVE KeepsEnds
  <2>1. CASE ClaimThrows(e, s) \/ ClaimNothing(e, s) \/ ClaimTemplateFailure(e, s)
    BY <2>1, <1>u DEF ClaimThrows, ClaimNothing, ClaimTemplateFailure, rows
  <2>2. CASE ClaimAuthorityExpired(e, s) \/ ClaimSkip(e, s)
    BY <2>2, <1>u DEF ClaimAuthorityExpired, ClaimSkip, Runnable, WorkInv, RowInv,
       TypeInv, TypeOK
  <2>3. CASE ClaimRefused(e, s) \/ ClaimWaiting(e, s) \/ ClaimDispatchable(e, s)
    <3>1. /\ DependenciesResolved(s)
          /\ step[s] \in {"READY", "RETRYING"}
          /\ \A t \in Steps : t # s => step'[t] = step[t] /\ tries'[t] = tries[t]
      BY <2>3 DEF ClaimRefused, ClaimWaiting, ClaimDispatchable, Claims, Claimable,
         Runnable, WorkInv, RowInv, TypeInv, TypeOK
    <3>2. \A t \in Steps : Resolved(t) => Resolved(t)'
      BY <3>1 DEF Resolved
    <3> QED
      BY <3>1, <3>2, <1>c DEF KeepsEnds
  <2> QED BY <1>2, <2>1, <2>2, <2>3 DEF Claim
<1>3. ASSUME NEW e \in Engines, PassBegin(e) \/ PassStep(e) \/ PassCrash(e)
      PROVE  KeepsEnds
  <2>1. CASE PassAdvance(e)
    BY <2>1, <1>u DEF PassAdvance, Advances
  <2>2. CASE \/ PassBegin(e) \/ PassRead(e) \/ PassCheck(e) \/ PassDecide(e)
             \/ PassFail(e) \/ PassComplete(e) \/ PassCancel(e) \/ PassCrash(e)
    BY <2>2, <1>u DEF PassBegin, PassRead, PassCheck, PassDecide, PassFail,
       PassComplete, PassCancel, PassCrash, rows
  <2> QED BY <1>2, <1>3, <2>1, <2>2 DEF PassStep
<1>4. ASSUME NEW d \in Dispatchers, DispatchStep(d) \/ DispatcherCrash(d)
      PROVE  KeepsEnds
  <2>1. CASE \/ Invoke(d) \/ MarkDispatched(d) \/ ReturnToPending(d) \/ StaleRejection(d)
             \/ DispatcherCrash(d)
    BY <2>1, <1>u DEF Invoke, InvokeAccepted, InvokeLost, InvokeRejected,
       MarkDispatched, ReturnToPending, StaleRejection, DispatcherCrash, rows
  <2>2. CASE FailNonRetryable(d)
    <3> DEFINE a == dispatcher[d].attempt
    <3>1. tries' = tries /\ \A t \in Steps : step'[t] = step[t] \/ step[t] \notin TerminalStep
      BY <2>2 DEF FailNonRetryable, WorkInv, RowInv, TypeInv, TypeOK
    <3>2. \A t \in Steps : step[t] \notin TerminalStep =>
              step[t] \in {"PENDING", "READY", "RETRYING", "RUNNING", "WAITING"}
      BY DEF WorkInv, RowInv, TypeInv, TypeOK, StepStatuses, TerminalStep
    <3> QED BY <3>1, <3>2, <1>u
  <2> QED BY <1>4, <2>1, <2>2 DEF DispatchStep
<1>5. ASSUME NEW a \in Attempts, NEW p \in Payloads, Delivers(a, p),
             ApplyRejected(a, p) \/ ApplyCanonical(a, p)
      PROVE  KeepsEnds
  <2>1. CASE ApplyRejected(a, p)
    BY <2>1, <1>u DEF ApplyRejected
  <2>2. CASE ApplyCanonical(a, p)
    <3>1. att[a] \in ActiveAttempt
      BY <1>5, <2>2, ResultsSettleLiveAttempts DEF IndexedAttempt, ActiveAttempt
    <3>2. \E summary : step' = [step EXCEPT ![a[1]] = summary]
      BY <2>2 DEF ApplyCanonical
    <3>3. tries' = tries
      BY <2>2 DEF ApplyCanonical
    <3> QED
      BY <3>1, <3>2, <3>3, <1>u, ActiveIsUnresolved
  <2> QED BY <1>5, <2>1, <2>2
<1>6. ASSUME NEW a \in Attempts, NEW v \in Decisions,
             DecideSettled(a, v) \/ FailWaiting(a, v) \/ ApproveResume(a)
      PROVE  KeepsEnds
  <2>1. CASE DecideSettled(a, v)
    BY <2>1, <1>u DEF DecideSettled
  <2>2. CASE FailWaiting(a, v) \/ ApproveResume(a)
    <3>1. att[a] \in ActiveAttempt /\ tries' = tries
      BY <2>2 DEF FailWaiting, ApproveResume, ActiveAttempt
    <3>2. \E summary : step' = [step EXCEPT ![a[1]] = summary]
      BY <2>2 DEF FailWaiting, ApproveResume
    <3> QED
      BY <3>1, <3>2, <1>u, ActiveIsUnresolved
  <2> QED BY <1>6, <2>1, <2>2
<1>7. ASSUME NEW a \in Attempts, ProjectLiveness(a) \/ \E d \in Dispatchers : Lease(d, a)
      PROVE  KeepsEnds
  BY <1>7, <1>u DEF ProjectLiveness, Lease
<1>8. CASE CancelRequest \/ CancelTooLate \/ CancelCommit
  BY <1>8, <1>u DEF CancelRequest, CancelTooLate, CancelCommit, CancellableStep, rows
<1> QED
  BY <1>1, <1>3, <1>4, <1>5, <1>6, <1>7, <1>8, EnvironmentAssumption DEF Next,
     WorkerResult, ExpireAttempt, SupervisionTimeout, Delivers, Payloads, Approve,
     ApproveRefused, Deny, Expire, Decisions

-----------------------------------------------------------------------------
(* Deliveries and settlements *)

(* A step that keeps outbox rows, workers and dispatchers as they are, or  *)
(* lets a dispatcher go idle.                                              *)
LEMMA ElsewhereDelivered ==
    ASSUME DeliveredHaveRows, worker' = worker,
           \A a \in Attempts : outbox[a] # "NONE" => outbox'[a] # "NONE",
           \A d \in Dispatchers : dispatcher'[d] = dispatcher[d] \/ dispatcher'[d].pc = "idle",
           DispatcherWorks
    PROVE  DeliveredHaveRows'
  BY DEF DeliveredHaveRows, DispatcherWorks

(* An outbox row, once written, is never taken away.                       *)
LEMMA RowsStay ==
    ASSUME RowInv, [Next]_vars
    PROVE  \A a \in Attempts : outbox[a] # "NONE" => outbox'[a] # "NONE"
<1> DEFINE Stay == \A a \in Attempts : outbox[a] # "NONE" => outbox'[a] # "NONE"
<1>t. outbox \in [Attempts -> OutboxStatuses]
  BY DEF RowInv, TypeInv, TypeOK
<1>1. CASE UNCHANGED vars
  BY <1>1 DEF vars
<1>2. ASSUME NEW e \in Engines, PassBegin(e) \/ PassStep(e) \/ PassCrash(e) PROVE Stay
  <2>1. ASSUME NEW s \in Steps, Claim(e, s) PROVE Stay
    BY <2>1, <1>t DEF Claim, ClaimThrows, ClaimNothing, ClaimTemplateFailure, ClaimAuthorityExpired,
       ClaimSkip, ClaimRefused, ClaimWaiting, ClaimDispatchable, rows
  <2> QED
    BY <1>2, <2>1 DEF PassStep, PassBegin, PassRead, PassAdvance, PassCheck,
       PassDecide, PassFail, PassComplete, PassCancel, PassCrash, rows
<1>3. ASSUME NEW d \in Dispatchers, DispatchStep(d) \/ DispatcherCrash(d) PROVE Stay
  BY <1>3, <1>t DEF DispatchStep, Invoke, InvokeAccepted, InvokeLost, InvokeRejected,
     MarkDispatched, ReturnToPending, FailNonRetryable, StaleRejection,
     DispatcherCrash, rows
<1>4. ASSUME NEW a \in Attempts,
             \/ Approve(a) \/ Deny(a) \/ Expire(a) \/ ProjectLiveness(a)
             \/ \E d \in Dispatchers : Lease(d, a)
             \/ \E p \in Payloads : ApplyRejected(a, p) \/ ApplyCanonical(a, p)
      PROVE  Stay
  BY <1>4, <1>t DEF Approve, ApproveRefused, Deny, Expire, DecideSettled, FailWaiting,
     ApproveResume, ProjectLiveness, Lease, ApplyRejected, ApplyCanonical, Retired
<1>5. CASE CancelRequest \/ CancelTooLate \/ CancelCommit
  BY <1>5 DEF CancelRequest, CancelTooLate, CancelCommit, Retired, rows
<1> QED
  BY <1>1, <1>2, <1>3, <1>4, <1>5, EnvironmentAssumption DEF Next, WorkerResult,
     ExpireAttempt, SupervisionTimeout, Payloads

(* The call to an executor concerns a leased row, and is answered either   *)
(* with an acceptance or with a refusal for good.                          *)
LEMMA InvokeDelivered ==
    ASSUME ExclusiveRejection, WorkInv, NEW d \in Dispatchers, Invoke(d)
    PROVE  DeliveredHaveRows'
<1> DEFINE a == dispatcher[d].attempt
<1>1. /\ a \in Attempts /\ outbox[a] # "NONE" /\ outbox' = outbox
      /\ dispatcher[d].pc = "leased"
  BY DEF Invoke, InvokeAccepted, InvokeLost, InvokeRejected, WorkInv, RowInv, TypeInv,
     DispatcherWorks, DeliveredHaveRows, rows
<1>2. /\ \A e \in Dispatchers : e # d => dispatcher'[e] = dispatcher[e]
      /\ dispatcher'[d].attempt = a
  BY DEF Invoke, InvokeAccepted, InvokeLost, InvokeRejected, WorkInv, RowInv, TypeInv,
     TypeOK, DispatcherStates
<1>3. \A b \in Attempts : /\ b # a => worker'[b] = worker[b]
                          /\ worker[b] = "refused" => worker'[b] = "refused"
  BY <1>1 DEF Invoke, InvokeAccepted, InvokeLost, InvokeRejected, MayAccept, WorkInv,
     RowInv, TypeInv, TypeOK
<1>4. dispatcher'[d].pc = "rejected" => worker'[a] = "refused"
  BY <1>1 DEF Invoke, InvokeAccepted, InvokeLost, InvokeRejected, MayReject, WorkInv,
     RowInv, TypeInv, TypeOK, DispatcherStates
<1>5. \A e \in Dispatchers : dispatcher[e].pc # "idle" => dispatcher[e].attempt \in Attempts
  BY DEF WorkInv, RowInv, TypeInv, DispatcherWorks
<1> QED
  BY <1>1, <1>2, <1>3, <1>4, <1>5 DEF WorkInv, DeliveredHaveRows

(* The inductive step for deliveries.                                      *)
LEMMA DeliveredStep ==
    ASSUME ExclusiveRejection, WorkInv, [Next]_vars
    PROVE  DeliveredHaveRows'
<1>r. \A a \in Attempts : outbox[a] # "NONE" => outbox'[a] # "NONE"
  BY RowsStay DEF WorkInv
<1>t. DispatcherWorks /\ dispatcher \in [Dispatchers -> DispatcherStates]
  BY DEF WorkInv, RowInv, TypeInv, TypeOK
<1>u. ASSUME UNCHANGED <<worker, dispatcher>> PROVE DeliveredHaveRows'
  BY <1>u, <1>r, <1>t, ElsewhereDelivered DEF WorkInv
<1>1. CASE UNCHANGED vars
  BY <1>1, <1>u DEF vars
<1>2. ASSUME NEW e \in Engines, PassBegin(e) \/ PassStep(e) \/ PassCrash(e)
      PROVE  DeliveredHaveRows'
  <2>1. ASSUME NEW s \in Steps, Claim(e, s) PROVE UNCHANGED <<worker, dispatcher>>
    BY <2>1 DEF Claim, ClaimThrows, ClaimNothing, ClaimTemplateFailure, ClaimAuthorityExpired,
       ClaimSkip, ClaimRefused, ClaimWaiting, ClaimDispatchable, rows
  <2> QED
    BY <1>2, <1>u, <2>1 DEF PassStep, PassBegin, PassRead, PassAdvance, PassCheck,
       PassDecide, PassFail, PassComplete, PassCancel, PassCrash, rows
<1>3. ASSUME NEW d \in Dispatchers, DispatchStep(d) \/ DispatcherCrash(d)
      PROVE  DeliveredHaveRows'
  <2>1. CASE Invoke(d)
    BY <2>1, InvokeDelivered
  <2>2. CASE ~Invoke(d)
    <3>1. worker' = worker /\ dispatcher' = [dispatcher EXCEPT ![d] = IdleDispatcher]
      BY <1>3, <2>2 DEF DispatchStep, MarkDispatched, ReturnToPending,
         FailNonRetryable, StaleRejection, DispatcherCrash
    <3>2. \A e \in Dispatchers : dispatcher'[e] = dispatcher[e] \/ dispatcher'[e].pc = "idle"
      BY <3>1, <1>t DEF IdleDispatcher
    <3> QED
      BY <3>1, <3>2, <1>r, <1>t, ElsewhereDelivered DEF WorkInv
  <2> QED BY <2>1, <2>2
<1>4. ASSUME NEW d \in Dispatchers, NEW a \in Attempts, Lease(d, a)
      PROVE  DeliveredHaveRows'
  <2>1. /\ worker' = worker
        /\ dispatcher'[d].pc = "leased" /\ dispatcher'[d].attempt = a
        /\ \A e \in Dispatchers : e # d => dispatcher'[e] = dispatcher[e]
    BY <1>4, <1>t DEF Lease
  <2>2. outbox[a] # "NONE"
    BY <1>4 DEF Lease
  <2> QED
    BY <2>1, <2>2, <1>r, <1>t DEF WorkInv, DeliveredHaveRows, DispatcherWorks
<1>5. ASSUME NEW a \in Attempts,
             \/ Approve(a) \/ Deny(a) \/ Expire(a) \/ ProjectLiveness(a)
             \/ \E p \in Payloads : ApplyRejected(a, p) \/ ApplyCanonical(a, p)
      PROVE  DeliveredHaveRows'
  BY <1>5, <1>u DEF Approve, ApproveRefused, Deny, Expire, DecideSettled, FailWaiting,
     ApproveResume, ProjectLiveness, ApplyRejected, ApplyCanonical
<1>6. CASE CancelRequest \/ CancelTooLate \/ CancelCommit
  BY <1>6, <1>u DEF CancelRequest, CancelTooLate, CancelCommit
<1> QED
  BY <1>1, <1>2, <1>3, <1>4, <1>5, <1>6, EnvironmentAssumption DEF Next, WorkerResult,
     ExpireAttempt, SupervisionTimeout, Payloads

(* What is known of a settled attempt stays known.                         *)
LEMMA SettledStays ==
    ASSUME ExclusiveRejection, RowInv, [Next]_vars, NEW a \in Attempts, att[a] \in TerminalAttempt
    PROVE  /\ inbox[a] = "APPLIED" => inbox'[a] = "APPLIED"
           /\ worker[a] = "refused" => worker'[a] = "refused"
           /\ outbox[a] = "NONE" => outbox'[a] = "NONE"
<1> DEFINE Stays == /\ inbox[a] = "APPLIED" => inbox'[a] = "APPLIED"
                    /\ worker[a] = "refused" => worker'[a] = "refused"
                    /\ outbox[a] = "NONE" => outbox'[a] = "NONE"
<1>t. /\ outbox \in [Attempts -> OutboxStatuses]
      /\ inbox \in [Attempts -> InboxStatuses]
      /\ worker \in [Attempts -> {"unseen", "accepted", "refused"}]
      /\ \A d \in Dispatchers : dispatcher[d].pc # "idle" => dispatcher[d].attempt \in Attempts
  BY DEF RowInv, TypeInv, TypeOK, DispatcherWorks
<1>1. CASE UNCHANGED vars
  BY <1>1 DEF vars
<1>2. ASSUME NEW e \in Engines, NEW s \in Steps, Claim(e, s) PROVE Stays
  <2>1. CASE ClaimDispatchable(e, s)
    <3>1. NextAttempt(s) \in Attempts /\ att[NextAttempt(s)] = "NONE"
      BY <2>1, NextAttemptType, AttemptPairs, BoundAssumption DEF RowInv, TypeInv,
         TypeOK, UnclaimedAreFresh, ClaimDispatchable, Claims, NextAttempt
    <3> QED
      BY <2>1, <3>1 DEF ClaimDispatchable, TerminalAttempt
  <2> QED
    BY <1>2, <2>1 DEF Claim, ClaimThrows, ClaimNothing, ClaimTemplateFailure, ClaimAuthorityExpired,
       ClaimSkip, ClaimRefused, ClaimWaiting, rows
<1>3. ASSUME NEW e \in Engines, PassBegin(e) \/ PassStep(e) \/ PassCrash(e) PROVE Stays
  BY <1>2, <1>3 DEF PassStep, PassBegin, PassRead, PassAdvance, PassCheck, PassDecide,
     PassFail, PassComplete, PassCancel, PassCrash, rows
<1>4. ASSUME NEW d \in Dispatchers, DispatchStep(d) \/ DispatcherCrash(d) PROVE Stays
  <2>1. CASE Invoke(d)
    BY <1>t, <2>1 DEF Invoke, InvokeAccepted, InvokeLost, InvokeRejected, MayAccept, rows
  <2>2. CASE ~Invoke(d)
    BY <1>t, <1>4, <2>2 DEF DispatchStep, MarkDispatched, ReturnToPending,
       FailNonRetryable, StaleRejection, DispatcherCrash, HoldsLease, rows
  <2> QED BY <2>1, <2>2
<1>5. ASSUME NEW b \in Attempts,
             \/ Approve(b) \/ Deny(b) \/ Expire(b) \/ ProjectLiveness(b)
             \/ \E d \in Dispatchers : Lease(d, b)
      PROVE  Stays
  BY <1>t, <1>5 DEF Approve, ApproveRefused, Deny, Expire, DecideSettled, FailWaiting,
     ApproveResume, ProjectLiveness, Lease, TerminalAttempt
<1>6. ASSUME NEW b \in Attempts, NEW p \in Payloads, ApplyRejected(b, p) \/ ApplyCanonical(b, p)
      PROVE  Stays
  BY <1>t, <1>6 DEF ApplyRejected, ApplyCanonical, Received, Retired, DispatchableOutbox
<1>7. CASE CancelRequest \/ CancelTooLate \/ CancelCommit
  BY <1>7 DEF CancelRequest, CancelTooLate, CancelCommit, Retired, DispatchableOutbox, rows
<1> QED
  BY <1>1, <1>3, <1>4, <1>5, <1>6, <1>7, EnvironmentAssumption DEF Next, WorkerResult,
     ExpireAttempt, SupervisionTimeout, Payloads

(* How an attempt comes to be settled.                                     *)
LEMMA NewlySettled ==
    ASSUME WorkInv, [Next]_vars, NEW a \in Attempts,
           att[a] \notin TerminalAttempt, att'[a] \in TerminalAttempt
    PROVE  \/ inbox'[a] = "APPLIED"
           \/ att'[a] = "FAILED" /\ (worker'[a] = "refused" \/ outbox'[a] = "NONE")
           \/ att'[a] = "CANCELLED" /\ exec' = "CANCELLED"
<1> DEFINE How == \/ inbox'[a] = "APPLIED"
                  \/ att'[a] = "FAILED" /\ (worker'[a] = "refused" \/ outbox'[a] = "NONE")
                  \/ att'[a] = "CANCELLED" /\ exec' = "CANCELLED"
<1>t. att \in [Attempts -> AttemptStatuses] /\ inbox \in [Attempts -> InboxStatuses]
  BY DEF WorkInv, RowInv, TypeInv, TypeOK
<1>1. att' # att
  OBVIOUS
<1>2. ASSUME NEW e \in Engines, NEW s \in Steps, Claim(e, s) PROVE How
  <2>1. CASE ClaimRefused(e, s)
    <3>1. NextAttempt(s) \in Attempts /\ att[NextAttempt(s)] = "NONE"
      BY <2>1, NextAttemptType, AttemptPairs, BoundAssumption DEF WorkInv, RowInv,
         TypeInv, TypeOK, UnclaimedAreFresh, ClaimRefused, Claims, NextAttempt
    <3>2. outbox[NextAttempt(s)] = "NONE"
      BY <3>1 DEF WorkInv, RowInv, OutboxMatchesAttempt, OutboxAgrees, TerminalAttempt
    <3> QED
      BY <2>1, <3>1, <3>2, <1>t DEF ClaimRefused
  <2>2. CASE ClaimWaiting(e, s) \/ ClaimDispatchable(e, s)
    BY <2>2, <1>t DEF ClaimWaiting, ClaimDispatchable, TerminalAttempt
  <2> QED
    BY <1>1, <1>2, <2>1, <2>2 DEF Claim, ClaimThrows, ClaimNothing, ClaimTemplateFailure,
       ClaimAuthorityExpired, ClaimSkip, rows
<1>3. ASSUME NEW e \in Engines, PassBegin(e) \/ PassStep(e) \/ PassCrash(e) PROVE How
  BY <1>1, <1>2, <1>3 DEF PassStep, PassBegin, PassRead, PassAdvance, PassCheck,
     PassDecide, PassFail, PassComplete, PassCancel, PassCrash, rows
<1>4. ASSUME NEW d \in Dispatchers, DispatchStep(d) \/ DispatcherCrash(d) PROVE How
  <2>1. CASE FailNonRetryable(d)
    BY <1>t, <2>1 DEF FailNonRetryable, WorkInv, DeliveredHaveRows
  <2>2. CASE MarkDispatched(d)
    BY <1>t, <2>2 DEF MarkDispatched, TerminalAttempt
  <2> QED
    BY <1>1, <1>4, <2>1, <2>2 DEF DispatchStep, Invoke, InvokeAccepted, InvokeLost,
       InvokeRejected, ReturnToPending, StaleRejection, DispatcherCrash, rows
<1>5. ASSUME NEW b \in Attempts, NEW v \in Decisions, FailWaiting(b, v) PROVE How
  <2>1. outbox[b] = "NONE"
    BY <1>5 DEF FailWaiting, WorkInv, RowInv, OutboxMatchesAttempt, OutboxAgrees,
       TerminalAttempt
  <2> QED
    BY <1>5, <1>t, <2>1 DEF FailWaiting
<1>6. ASSUME NEW b \in Attempts,
             \/ ApproveResume(b) \/ ProjectLiveness(b)
             \/ \E v \in Decisions : DecideSettled(b, v)
             \/ \E d \in Dispatchers : Lease(d, b)
      PROVE  How
  BY <1>1, <1>t, <1>6 DEF ApproveResume, ProjectLiveness, DecideSettled, Lease,
     TerminalAttempt
<1>7. ASSUME NEW b \in Attempts, NEW p \in Payloads, ApplyRejected(b, p) \/ ApplyCanonical(b, p)
      PROVE  How
  BY <1>1, <1>t, <1>7 DEF ApplyRejected, ApplyCanonical
<1>8. CASE CancelRequest \/ CancelTooLate \/ CancelCommit
  BY <1>1, <1>t, <1>8 DEF CancelRequest, CancelTooLate, CancelCommit, rows
<1>9. CASE UNCHANGED vars
  BY <1>1, <1>9 DEF vars
<1> QED
  BY <1>3, <1>4, <1>5, <1>6, <1>7, <1>8, <1>9, EnvironmentAssumption DEF Next,
     WorkerResult, ExpireAttempt, SupervisionTimeout, Payloads, Approve,
     ApproveRefused, Deny, Expire, Decisions

(* The inductive step for settlements.                                     *)
LEMMA SettledStep ==
    ASSUME ExclusiveRejection, WorkInv, [Next]_vars
    PROVE  SettledWithoutResult'
<1> SUFFICES ASSUME NEW a \in Attempts, att'[a] \in TerminalAttempt, inbox'[a] # "APPLIED"
             PROVE  \/ att'[a] = "FAILED" /\ (worker'[a] = "refused" \/ outbox'[a] = "NONE")
                    \/ att'[a] = "CANCELLED" /\ exec' = "CANCELLED"
  BY DEF SettledWithoutResult
<1>1. CASE att[a] \in TerminalAttempt
  <2>1. FrozenStep
    BY NextFreezes DEF WorkInv
  <2>2. att'[a] = att[a] /\ (exec = "CANCELLED" => exec' = "CANCELLED")
    BY <1>1, <2>1 DEF FrozenStep, TerminalExecution
  <2>3. /\ inbox[a] = "APPLIED" => inbox'[a] = "APPLIED"
        /\ worker[a] = "refused" => worker'[a] = "refused"
        /\ outbox[a] = "NONE" => outbox'[a] = "NONE"
    BY <1>1, SettledStays DEF WorkInv
  <2> QED
    BY <1>1, <2>2, <2>3 DEF WorkInv, SettledWithoutResult
<1>2. CASE att[a] \notin TerminalAttempt
  BY <1>2, NewlySettled
<1> QED BY <1>1, <1>2

-----------------------------------------------------------------------------
(* The theorems *)

(* The rows of a new execution satisfy the invariant.                      *)
LEMMA WorkInit == Init => WorkInv
<1> SUFFICES ASSUME Init PROVE WorkInv
  OBVIOUS
<1>1. RowInv
  BY RowInit
<1>2. FlowInv
  <2>1. \A s \in Steps : tries[s] = 0 /\ step[s] = "PENDING" /\ MaxAttempts[s] \in Nat
    BY PlanAssumption DEF Init
  <2> QED
    BY <2>1, BoundAssumption DEF FlowInv, StepTellsLatestAttempt, RetriesAreBounded,
       IdleStepsAreIdle
<1>3. EndInv
  BY DEF Init, EndInv, DependenciesRespected, Completing, IdlePass
<1>4. DeliveredHaveRows /\ SettledWithoutResult
  BY DEF Init, DeliveredHaveRows, SettledWithoutResult, IdleDispatcher, TerminalAttempt
<1> QED BY <1>1, <1>2, <1>3, <1>4 DEF WorkInv

(* The inductive step.                                                     *)
LEMMA WorkStep == ASSUME ExclusiveRejection PROVE WorkInv /\ [Next]_vars => WorkInv'
<1> SUFFICES ASSUME WorkInv, [Next]_vars PROVE WorkInv'
  OBVIOUS
<1>1. RowInv'
  BY RowStep DEF WorkInv
<1> QED BY <1>1, FlowStep, EndStep, DeliveredStep, SettledStep DEF WorkInv

(* Every reachable state satisfies the inductive invariant.                *)
LEMMA WorkInvariant == ASSUME ExclusiveRejection PROVE Spec => []WorkInv
  BY WorkInit, WorkStep, PTL DEF Spec

(* Step summaries: whatever order results, decisions, rejections and       *)
(* passes commit in, the summary of a step tells the fate of its latest    *)
(* attempt.                                                                *)
THEOREM SummariesAreTrue == ASSUME ExclusiveRejection PROVE Spec => []StepTellsLatestAttempt
<1>1. WorkInv => StepTellsLatestAttempt
  BY DEF WorkInv, FlowInv
<1> QED BY <1>1, WorkInvariant, PTL

(* Retries: no step has more attempts than its retry budget, and only a    *)
(* failed attempt is followed by another one.                              *)
THEOREM RetriesAreEarned == ASSUME ExclusiveRejection PROVE Spec => []RetriesAreBounded
<1>1. WorkInv => RetriesAreBounded
  BY DEF WorkInv, FlowInv
<1> QED BY <1>1, WorkInvariant, PTL

(* Dependencies: no attempt is ever made before the steps it depends on    *)
(* were resolved, and they stay resolved.                                  *)
THEOREM OrderIsKept == ASSUME ExclusiveRejection PROVE Spec => []DependenciesRespected
<1>1. WorkInv => DependenciesRespected
  BY DEF WorkInv, EndInv
<1> QED BY <1>1, WorkInvariant, PTL

(* Completion: a completed run has resolved every step and has no attempt  *)
(* left in progress, though the pass that completed it decided on a read   *)
(* that other transactions have overtaken.                                 *)
THEOREM CompletionIsDone == ASSUME ExclusiveRejection PROVE Spec => []CompletedMeansDone
<1>1. WorkInv => CompletedMeansDone
  <2> SUFFICES ASSUME WorkInv, exec = "COMPLETED" PROVE CompletedMeansDone
    BY DEF CompletedMeansDone
  <2>1. \A s \in Steps : Resolved(s)
    BY DEF WorkInv, EndInv, Completing, AllResolved
  <2>2. \A a \in Attempts : att[a] \notin ActiveAttempt
    BY <2>1, ActiveIsLatest, UnresolvedStatuses DEF WorkInv
  <2> QED
    BY <2>1, <2>2 DEF CompletedMeansDone, Resolved
<1> QED BY <1>1, WorkInvariant, PTL
-----------------------------------------------------------------------------
(* Refinement: initial states of the control plane map to initial states   *)
(* of the ledger, and every transaction, call and crash to one step of it  *)
(* or to none.                                                             *)

(* The ledger as the rows show it.                                         *)
Run == IF exec \in TerminalExecution THEN exec ELSE "open"
Work == [a \in Attempts |-> WorkOf(att[a])]
Held == {a \in Attempts : reservation[a] = "HELD"}

LedgerStep == Authority!Next \/ UNCHANGED <<Run, Work, Held>>

(* What is held follows from what is authorized.                           *)
LEMMA HeldIsAuthorized ==
    ASSUME RowInv
    PROVE  Held = {a \in Attempts : "budget" \in Declares[a[1]] /\ att[a] \in IndexedAttempt}
  BY DEF RowInv, ReservationMatchesAttempt, Held

(* The entries of the ledger, by the status of the attempt.                *)
LEMMA WorkStatuses ==
    /\ WorkOf("NONE") = "none"
    /\ WorkOf("WAITING") = "waiting"
    /\ WorkOf("CREATED") = "authorized"
    /\ WorkOf("DISPATCHED") = "authorized"
    /\ WorkOf("RUNNING") = "authorized"
    /\ WorkOf("SUCCESS") = "succeeded"
    /\ WorkOf("CANCELLED") = "cancelled"
    /\ WorkOf("FAILED") = "failed"
    /\ WorkOf("TIMED_OUT") = "failed"
  BY DEF WorkOf, IndexedAttempt

(* One attempt that moves is one entry of the ledger that moves.           *)
LEMMA WorkMoves ==
    ASSUME TypeInv, NEW a \in Attempts, NEW status, NEW entry, WorkOf(status) = entry,
           att' = [att EXCEPT ![a] = status]
    PROVE  Work' = [Work EXCEPT ![a] = entry]
  BY DEF TypeInv, TypeOK, Work

(* The guarded end of a run, as the ledger sees it.                        *)
LEMMA RunEnds ==
    ASSUME NEW end \in TerminalExecution, exec' = Terminalize(end)
    PROVE  Run' = IF Run = "open" THEN end ELSE Run
  BY DEF Run, Terminalize, TerminalExecution

(* A step that leaves attempts, reservations and the end of the run alone. *)
LEMMA QuietLedger ==
    ASSUME UNCHANGED <<att, reservation>>,
           exec' = exec \/ (exec \notin TerminalExecution /\ exec' \notin TerminalExecution)
    PROVE  LedgerStep
  BY DEF LedgerStep, Run, Work, Held

(* A step that only ends the run as failed.                                *)
LEMMA FailLedger ==
    ASSUME UNCHANGED <<att, reservation>>, exec' = Terminalize("FAILED")
    PROVE  LedgerStep
<1>1. UNCHANGED <<Work, Held>>
  BY DEF Work, Held
<1>2. Run' = IF Run = "open" THEN "FAILED" ELSE Run
  BY RunEnds DEF TerminalExecution
<1>3. CASE Run = "open"
  <2>1. Authority!Fail
    BY <1>1, <1>2, <1>3 DEF Authority!Fail, Run, Work, Held
  <2> QED
    BY <2>1 DEF LedgerStep, Authority!Next
<1>4. CASE Run # "open"
  BY <1>1, <1>2, <1>4 DEF LedgerStep
<1> QED BY <1>3, <1>4

-----------------------------------------------------------------------------
(* Claims *)

(* The attempt a claim takes is the next in turn.                          *)
LEMMA ClaimTakesTurn ==
    ASSUME WorkInv, NEW e \in Engines, NEW s \in Steps, Claims(e, s)
    PROVE  /\ NextAttempt(s) \in Authority!Invocations
           /\ NextAttempt(s) \in Attempts
           /\ Authority!InTurn(NextAttempt(s))
           /\ Run = "open"
           /\ att[NextAttempt(s)] = "NONE"
<1> DEFINE a == NextAttempt(s)
<1>1. a \in Attempts /\ a = <<s, tries[s] + 1>> /\ tries[s] \in Nat
  BY NextAttemptType DEF WorkInv, RowInv, TypeInv, TypeOK, Claims, NextAttempt
<1>2. a \in Authority!Invocations
  BY <1>1 DEF Attempts, Authority!Invocations
<1>3. exec = "RUNNING" /\ step[s] \in {"READY", "RETRYING"}
  BY DEF Claims, Claimable, Runnable
<1>4. att[a] = "NONE"
  BY <1>1 DEF WorkInv, RowInv, UnclaimedAreFresh
<1>5. tries[s] > 0 => att[<<s, tries[s]>>] \in Lost
  BY <1>3 DEF WorkInv, FlowInv, StepTellsLatestAttempt, Latest, Lost
<1>6. \A n \in 1..AttemptBound : n < tries[s] + 1 => att[<<s, n>>] \in Lost
  <2> SUFFICES ASSUME NEW n \in 1..AttemptBound, n < tries[s] + 1
               PROVE  att[<<s, n>>] \in Lost
    OBVIOUS
  <2>1. n = tries[s] \/ n < tries[s]
    BY <1>1, BoundAssumption
  <2> QED
    BY <2>1, <1>5, <1>1, BoundAssumption DEF WorkInv, FlowInv, RetriesAreBounded, Lost
<1>7. \A n \in 1..AttemptBound : n < tries[s] + 1 => Work[<<s, n>>] = "failed"
  BY <1>6, WorkStatuses, AttemptPairs DEF Work, Lost
<1>8. Work[a] = "none"
  BY <1>1, <1>4, WorkStatuses DEF Work
<1>9. a[1] = s /\ a[2] = tries[s] + 1
  BY <1>1
<1>10. Authority!InTurn(a)
  BY <1>7, <1>8, <1>9 DEF Authority!InTurn, Work
<1>11. Run = "open"
  BY <1>3 DEF Run, TerminalExecution
<1> QED BY <1>1, <1>2, <1>4, <1>10, <1>11

(* A claim refused before any authority.                                   *)
LEMMA ClaimRefusedLedger ==
    ASSUME WorkInv, NEW e \in Engines, NEW s \in Steps, ClaimRefused(e, s)
    PROVE  LedgerStep
<1> DEFINE a == NextAttempt(s)
<1>1. Claims(e, s) /\ att' = [att EXCEPT ![a] = "FAILED"] /\ reservation' = reservation
  BY DEF ClaimRefused
<1>2. /\ a \in Authority!Invocations /\ a \in Attempts /\ Authority!InTurn(a)
      /\ Run = "open"
  BY <1>1, ClaimTakesTurn
<1>w. WorkOf("FAILED") = "failed"
  BY WorkStatuses
<1>3. Work' = [Work EXCEPT ![a] = "failed"]
  BY <1>1, <1>2, <1>w, WorkMoves DEF WorkInv, RowInv
<1>4. Held' = Held
  BY <1>1 DEF Held
<1>5. Run' \in {Run, "FAILED"}
  BY DEF ClaimRefused, Run, TerminalExecution
<1>6. Authority!Refuse(a)
  BY <1>2, <1>3, <1>4, <1>5 DEF Authority!Refuse, Authority!EndsBy, Run, Work, Held
<1> QED BY <1>2, <1>6 DEF LedgerStep, Authority!Next

(* A claim that waits for an approval.                                     *)
LEMMA ClaimWaitingLedger ==
    ASSUME WorkInv, NEW e \in Engines, NEW s \in Steps, ClaimWaiting(e, s)
    PROVE  LedgerStep
<1> DEFINE a == NextAttempt(s)
<1>1. /\ Claims(e, s) /\ att' = [att EXCEPT ![a] = "WAITING"]
      /\ UNCHANGED <<exec, reservation>>
  BY DEF ClaimWaiting
<1>2. /\ a \in Authority!Invocations /\ a \in Attempts /\ Authority!InTurn(a)
      /\ Run = "open"
  BY <1>1, ClaimTakesTurn
<1>w. WorkOf("WAITING") = "waiting"
  BY WorkStatuses
<1>3. Work' = [Work EXCEPT ![a] = "waiting"]
  BY <1>1, <1>2, <1>w, WorkMoves DEF WorkInv, RowInv
<1>4. UNCHANGED <<Run, Held>>
  BY <1>1 DEF Run, Held
<1>5. Authority!Ask(a)
  BY <1>2, <1>3, <1>4 DEF Authority!Ask, Run, Work, Held
<1> QED BY <1>2, <1>5 DEF LedgerStep, Authority!Next

(* What is held once one attempt has become CREATED.                       *)
LEMMA AuthorizedIsHeld ==
    ASSUME RowInv, RowInv', NEW a \in Attempts, att[a] \notin IndexedAttempt,
           att' = [att EXCEPT ![a] = "CREATED"]
    PROVE  Authority!Reserve(a)
<1> DEFINE Budgeted == {s \in Steps : "budget" \in Declares[s]}
<1>1. Held' = {b \in Attempts : "budget" \in Declares[b[1]] /\ att'[b] \in IndexedAttempt}
  BY DEF RowInv, ReservationMatchesAttempt, Held
<1>2. \A b \in Attempts : att'[b] \in IndexedAttempt <=> (b = a \/ att[b] \in IndexedAttempt)
  BY DEF RowInv, TypeInv, TypeOK, IndexedAttempt
<1>3. a[1] \in Steps
  BY AttemptPairs
<1>4. Held' = IF a[1] \in Budgeted THEN Held \cup {a} ELSE Held
  BY <1>1, <1>2, <1>3, HeldIsAuthorized
<1> QED BY <1>4 DEF Authority!Reserve, Held

(* A claim with its reservation and outbox row.                            *)
LEMMA ClaimDispatchableLedger ==
    ASSUME WorkInv, RowInv', NEW e \in Engines, NEW s \in Steps, ClaimDispatchable(e, s)
    PROVE  LedgerStep
<1>p. Claims(e, s)
  BY DEF ClaimDispatchable
<1>q. PICK a \in Attempts : a = NextAttempt(s)
  BY <1>p, ClaimTakesTurn
<1>1. att' = [att EXCEPT ![a] = "CREATED"] /\ exec' = exec
  BY <1>q DEF ClaimDispatchable
<1>2. /\ a \in Authority!Invocations /\ a \in Attempts /\ Authority!InTurn(a)
      /\ Run = "open" /\ att[a] = "NONE"
  BY <1>p, <1>q, ClaimTakesTurn
<1>w. WorkOf("CREATED") = "authorized"
  BY WorkStatuses
<1>3. Work' = [Work EXCEPT ![a] = "authorized"]
  BY <1>1, <1>2, <1>w, WorkMoves DEF WorkInv, RowInv
<1>4. Run' = Run
  BY <1>1 DEF Run
<1>5. Authority!Reserve(a)
  <2>1. att[a] \notin IndexedAttempt
    BY <1>2 DEF IndexedAttempt
  <2> QED
    BY <1>1, <1>2, <2>1, AuthorizedIsHeld DEF WorkInv
<1>6. Authority!Authorize(a)
  BY <1>2, <1>3, <1>4, <1>5 DEF Authority!Authorize, Run, Work, Held
<1> QED BY <1>2, <1>6 DEF LedgerStep, Authority!Next

(* An approval that resumes its attempt.                                   *)
LEMMA ApproveResumeLedger ==
    ASSUME WorkInv, RowInv', NEW a \in Attempts, ApproveResume(a)
    PROVE  LedgerStep
<1>1. att[a] = "WAITING" /\ att' = [att EXCEPT ![a] = "CREATED"] /\ exec' = exec
  BY DEF ApproveResume
<1>2. a \in Authority!Invocations /\ Work[a] = "waiting"
  BY <1>1, WorkStatuses DEF Attempts, Authority!Invocations, Work
<1>w. WorkOf("CREATED") = "authorized"
  BY WorkStatuses
<1>3. Work' = [Work EXCEPT ![a] = "authorized"]
  BY <1>1, <1>w, WorkMoves DEF WorkInv, RowInv
<1>4. Run' = Run
  BY <1>1 DEF Run
<1>5. Authority!Reserve(a)
  <2>1. att[a] \notin IndexedAttempt
    BY <1>1 DEF IndexedAttempt
  <2> QED
    BY <1>1, <2>1, AuthorizedIsHeld DEF WorkInv
<1>6. Authority!Grant(a)
  BY <1>2, <1>3, <1>4, <1>5 DEF Authority!Grant, Run, Work, Held
<1> QED BY <1>2, <1>6 DEF LedgerStep, Authority!Next

(* A denial, an expiry or a refused approval.                              *)
LEMMA FailWaitingLedger ==
    ASSUME WorkInv, NEW a \in Attempts, NEW v \in Decisions, FailWaiting(a, v)
    PROVE  LedgerStep
<1>1. /\ att[a] = "WAITING" /\ att' = [att EXCEPT ![a] = "FAILED"]
      /\ reservation' = reservation
  BY DEF FailWaiting
<1>2. a \in Authority!Invocations /\ Work[a] = "waiting"
  BY <1>1, WorkStatuses DEF Attempts, Authority!Invocations, Work
<1>w. WorkOf("FAILED") = "failed"
  BY WorkStatuses
<1>3. Work' = [Work EXCEPT ![a] = "failed"]
  BY <1>1, <1>w, WorkMoves DEF WorkInv, RowInv
<1>4. Held' = Held
  BY <1>1 DEF Held
<1>5. Run' \in {Run, IF Run = "open" THEN "FAILED" ELSE Run}
  BY DEF FailWaiting, Run, TerminalExecution
<1>6. Authority!Refuse(a)
  BY <1>2, <1>3, <1>4, <1>5 DEF Authority!Refuse, Authority!EndsBy, Run, Work, Held
<1> QED BY <1>2, <1>6 DEF LedgerStep, Authority!Next

-----------------------------------------------------------------------------
(* Settlements, cancellation and the end of a run *)

(* What is held once one attempt has been settled.                         *)
LEMMA SettledIsReleased ==
    ASSUME RowInv, RowInv', NEW a \in Attempts, NEW status \in TerminalAttempt,
           att' = [att EXCEPT ![a] = status]
    PROVE  Held' = Held \ {a}
<1>1. Held' = {b \in Attempts : "budget" \in Declares[b[1]] /\ att'[b] \in IndexedAttempt}
  BY DEF RowInv, ReservationMatchesAttempt, Held
<1>2. \A b \in Attempts : att'[b] \in IndexedAttempt <=> (b # a /\ att[b] \in IndexedAttempt)
  BY DEF RowInv, TypeInv, TypeOK, IndexedAttempt, TerminalAttempt
<1> QED BY <1>1, <1>2, HeldIsAuthorized

(* The settlement of an attempt with work authority.                       *)
LEMMA SettleLedger ==
    ASSUME RowInv, RowInv', NEW a \in Attempts, att[a] \in IndexedAttempt,
           NEW status \in TerminalAttempt, att' = [att EXCEPT ![a] = status],
           \/ exec' = exec
           \/ status = "CANCELLED" /\ exec' = Terminalize("CANCELLED")
           \/ status \in Lost /\ exec' = Terminalize("FAILED")
    PROVE  LedgerStep
<1>1. a \in Authority!Invocations
  BY DEF Attempts, Authority!Invocations
<1> SUFFICES Authority!Settle(a)
  BY <1>1 DEF LedgerStep, Authority!Next
<1>2. Work[a] = "authorized"
  BY WorkStatuses DEF Work, IndexedAttempt
<1>3. Held' = Held \ {a}
  BY SettledIsReleased
<1>4. exec' = exec => Run' = Run
  BY DEF Run
<1>5. CASE status = "SUCCESS"
  <2>1. WorkOf(status) = "succeeded"
    BY <1>5, WorkStatuses
  <2>2. Work' = [Work EXCEPT ![a] = "succeeded"]
    BY <2>1, WorkMoves DEF RowInv
  <2>3. Run' = Run
    BY <1>4, <1>5 DEF Lost
  <2> QED
    BY <1>2, <1>3, <2>2, <2>3 DEF Authority!Settle, Run, Work, Held
<1>6. CASE status \in Lost
  <2>1. WorkOf(status) = "failed"
    BY <1>6, WorkStatuses DEF Lost
  <2>2. Work' = [Work EXCEPT ![a] = "failed"]
    BY <2>1, WorkMoves DEF RowInv
  <2>3. Run' \in {Run, IF Run = "open" THEN "FAILED" ELSE Run}
    BY <1>4, <1>6, RunEnds DEF Lost, TerminalExecution
  <2> QED
    BY <1>2, <1>3, <2>2, <2>3 DEF Authority!Settle, Authority!EndsBy, Run, Work, Held
<1>7. CASE status = "CANCELLED"
  <2>1. WorkOf(status) = "cancelled"
    BY <1>7, WorkStatuses
  <2>2. Work' = [Work EXCEPT ![a] = "cancelled"]
    BY <2>1, WorkMoves DEF RowInv
  <2>3. Run' \in {Run, IF Run = "open" THEN "CANCELLED" ELSE Run}
    BY <1>4, <1>7, RunEnds DEF Lost, TerminalExecution
  <2> QED
    BY <1>2, <1>3, <2>2, <2>3 DEF Authority!Settle, Authority!EndsBy, Run, Work, Held
<1> QED BY <1>5, <1>6, <1>7 DEF TerminalAttempt, Lost

(* The canonical application of a result.                                  *)
LEMMA ApplyCanonicalLedger ==
    ASSUME WorkInv, RowInv', NEW a \in Attempts, NEW p \in Payloads, Delivers(a, p),
           ApplyCanonical(a, p)
    PROVE  LedgerStep
<1>1. att[a] \in IndexedAttempt /\ att[a] \notin TerminalAttempt
  BY ResultsSettleLiveAttempts DEF IndexedAttempt, TerminalAttempt
<1>2. PICK status \in EffectiveStatuses(a, p) :
          /\ att' = [att EXCEPT ![a] = status]
          /\ exec' = SettledExecution(a, SettledStepStatus(a, status))
  BY <1>1 DEF ApplyCanonical
<1>3. status \in TerminalAttempt
  BY DEF EffectiveStatuses, AttemptStatusOf, TerminalAttempt
<1>4. \/ exec' = exec
      \/ status = "CANCELLED" /\ exec' = Terminalize("CANCELLED")
      \/ status \in Lost /\ exec' = Terminalize("FAILED")
  BY <1>2, <1>3 DEF SettledExecution, SettledStepStatus, TerminalAttempt, Lost
<1> QED BY <1>1, <1>2, <1>3, <1>4, SettleLedger DEF WorkInv

(* A permanent rejection at dispatch.                                      *)
LEMMA FailNonRetryableLedger ==
    ASSUME WorkInv, RowInv', NEW d \in Dispatchers, FailNonRetryable(d)
    PROVE  LedgerStep
<1>1. PICK a \in Attempts : a = dispatcher[d].attempt
  BY DEF WorkInv, RowInv, TypeInv, DispatcherWorks, FailNonRetryable
<1>2. att[a] = "CREATED"
  BY <1>1 DEF WorkInv, RowInv, OutboxMatchesAttempt, OutboxAgrees, FailNonRetryable,
     HoldsLease
<1>3. att' = [att EXCEPT ![a] = "FAILED"]
  BY <1>1, <1>2 DEF FailNonRetryable, TerminalAttempt
<1>4. exec' = exec \/ exec' = Terminalize("FAILED")
  BY DEF FailNonRetryable
<1> QED
  BY <1>2, <1>3, <1>4, SettleLedger DEF WorkInv, IndexedAttempt, TerminalAttempt, Lost

(* An attempt that moves between two states of one kind.                   *)
LEMMA StaysAuthorizedLedger ==
    ASSUME RowInv, NEW a \in Attempts, att[a] \in IndexedAttempt,
           NEW status \in IndexedAttempt, att' = [att EXCEPT ![a] = status],
           UNCHANGED <<exec, reservation>>
    PROVE  LedgerStep
<1>1. WorkOf(status) = WorkOf(att[a])
  BY WorkStatuses DEF IndexedAttempt
<1>2. Work' = Work
  BY <1>1 DEF RowInv, TypeInv, TypeOK, Work
<1> QED BY <1>2 DEF LedgerStep, Run, Held

(* The commit of a cancellation.                                           *)
LEMMA CancelCommitLedger ==
    ASSUME WorkInv, RowInv', CancelCommit
    PROVE  LedgerStep
<1>1. Run = "open" /\ Run' = "CANCELLED"
  BY DEF CancelCommit, Run, TerminalExecution
<1>2. Authority!Invocations = Attempts
  BY DEF Authority!Invocations, Attempts
<1>3. \A a \in Attempts : \/ att'[a] = att[a]
                          \/ att[a] \in ActiveAttempt /\ att'[a] = "CANCELLED"
  BY DEF CancelCommit, WorkInv, RowInv, LockedStayActive
<1>4. \A a \in Attempts : att[a] \in ActiveAttempt => Work[a] \in {"waiting", "authorized"}
  BY WorkStatuses DEF Work, ActiveAttempt
<1>5. \A a \in Attempts : \/ Work'[a] = Work[a]
                          \/ Authority!Unfinished(a) /\ Work'[a] = "cancelled"
  BY <1>3, <1>4, WorkStatuses DEF Work, Authority!Unfinished
<1>6. Work' \in [Attempts -> Authority!WorkStates]
  BY WorkStatuses DEF RowInv, TypeInv, TypeOK, Work, AttemptStatuses, Authority!WorkStates
<1>7. Held' = {a \in Held : Work'[a] # "cancelled"}
  <2>1. Held' = {a \in Attempts : "budget" \in Declares[a[1]] /\ att'[a] \in IndexedAttempt}
    BY DEF RowInv, ReservationMatchesAttempt, Held
  <2>2. \A a \in Attempts : att[a] \in IndexedAttempt =>
            (att'[a] \in IndexedAttempt <=> Work'[a] # "cancelled")
    BY <1>3, WorkStatuses DEF Work, IndexedAttempt
  <2>3. \A a \in Attempts : att'[a] \in IndexedAttempt => att[a] \in IndexedAttempt
    BY <1>3 DEF IndexedAttempt
  <2> QED
    BY <2>1, <2>2, <2>3, HeldIsAuthorized DEF WorkInv
<1>8. Authority!Cancel
  BY <1>1, <1>2, <1>5, <1>6, <1>7 DEF Authority!Cancel, Run, Work, Held
<1> QED BY <1>8 DEF LedgerStep, Authority!Next

(* The guarded completion at the end of a pass.                            *)
LEMMA PassCompleteLedger ==
    ASSUME WorkInv, NEW e \in Engines, PassComplete(e)
    PROVE  LedgerStep
<1>1. UNCHANGED <<Work, Held>>
  BY DEF PassComplete, Work, Held
<1>2. Run' = IF Run = "open" THEN "COMPLETED" ELSE Run
  BY RunEnds DEF PassComplete, TerminalExecution
<1>3. \A s \in Steps : Resolved(s)
  BY DEF PassComplete, WorkInv, EndInv, Completing, AllResolved
<1>4. \A a \in Attempts : att[a] \in {"NONE", "SUCCESS", "FAILED", "TIMED_OUT"}
  <2> SUFFICES ASSUME NEW a \in Attempts
               PROVE  att[a] \in {"NONE", "SUCCESS", "FAILED", "TIMED_OUT"}
    OBVIOUS
  <2> DEFINE s == a[1]
  <2>1. s \in Steps /\ a[2] \in 1..AttemptBound /\ a = <<s, a[2]>>
    BY AttemptPairs
  <2>2. tries[s] \in 0..AttemptBound
    BY <2>1 DEF WorkInv, RowInv, TypeInv, TypeOK
  <2>3. CASE a[2] > tries[s]
    BY <2>3 DEF WorkInv, RowInv, UnclaimedAreFresh
  <2>4. CASE a[2] < tries[s]
    BY <2>1, <2>4 DEF WorkInv, FlowInv, RetriesAreBounded
  <2>5. CASE a[2] = tries[s]
    <3>1. a = Latest(s) /\ tries[s] > 0
      BY <2>1, <2>5, BoundAssumption DEF Latest
    <3>2. step[s] \in {"COMPLETED", "SKIPPED", "FAILED"}
      BY <1>3, <2>1 DEF Resolved
    <3> QED
      BY <2>1, <2>2, <3>1, <3>2 DEF WorkInv, FlowInv, StepTellsLatestAttempt,
         IdleStepsAreIdle, Lost
  <2> QED BY <2>1, <2>2, <2>3, <2>4, <2>5, BoundAssumption
<1>5. \A a \in Authority!Invocations : Work[a] \in {"none", "succeeded", "failed"}
  BY <1>4, WorkStatuses DEF Work, Authority!Invocations, Attempts
<1>6. CASE Run = "open"
  <2>1. Authority!Complete
    BY <1>1, <1>2, <1>5, <1>6 DEF Authority!Complete, Run, Work, Held
  <2> QED
    BY <2>1 DEF LedgerStep, Authority!Next
<1>7. CASE Run # "open"
  BY <1>1, <1>2, <1>7 DEF LedgerStep
<1> QED BY <1>6, <1>7

-----------------------------------------------------------------------------
(* The theorem *)

(* A new execution is an untouched ledger.                                 *)
LEMMA LedgerInit == Init => Authority!Init
<1> SUFFICES ASSUME Init PROVE Authority!Init
  OBVIOUS
<1>1. Run = "open"
  BY DEF Init, Run, TerminalExecution
<1>2. Work = [a \in Authority!Invocations |-> "none"]
  BY WorkStatuses DEF Init, Work, Authority!Invocations, Attempts
<1>3. Held = {}
  BY DEF Init, Held
<1> QED BY <1>1, <1>2, <1>3 DEF Authority!Init, Run, Work, Held

(* A claim is a step of the ledger, or none.                               *)
LEMMA ClaimLedger ==
    ASSUME WorkInv, RowInv', NEW e \in Engines, NEW s \in Steps, Claim(e, s)
    PROVE  LedgerStep
<1>1. CASE ClaimThrows(e, s) \/ ClaimNothing(e, s) \/ ClaimSkip(e, s)
  BY <1>1, QuietLedger DEF ClaimThrows, ClaimNothing, ClaimSkip, rows
<1>2. CASE ClaimTemplateFailure(e, s) \/ ClaimAuthorityExpired(e, s)
  <2>1. exec' = Terminalize("FAILED") /\ UNCHANGED <<att, reservation>>
    BY <1>2 DEF ClaimTemplateFailure, ClaimAuthorityExpired, Runnable, Terminalize,
       TerminalExecution
  <2> QED BY <2>1, FailLedger
<1> QED
  BY <1>1, <1>2, ClaimRefusedLedger, ClaimWaitingLedger, ClaimDispatchableLedger DEF Claim

(* Every step of the control plane is a step of the ledger, or none.       *)
LEMMA LedgerSimulates == ASSUME WorkInv, RowInv', [Next]_vars PROVE LedgerStep
<1>1. CASE UNCHANGED vars
  BY <1>1, QuietLedger DEF vars
<1>2. ASSUME NEW e \in Engines, PassBegin(e) \/ PassStep(e) \/ PassCrash(e)
      PROVE  LedgerStep
  <2>1. CASE PassBegin(e)
    BY <2>1, QuietLedger DEF PassBegin, TerminalExecution
  <2>2. CASE \/ PassRead(e) \/ PassAdvance(e) \/ PassCheck(e) \/ PassDecide(e)
             \/ PassCancel(e) \/ PassCrash(e)
    BY <2>2, QuietLedger DEF PassRead, PassAdvance, PassCheck, PassDecide, PassCancel,
       PassCrash, rows
  <2>3. CASE PassFail(e)
    BY <2>3, FailLedger DEF PassFail
  <2> QED BY <1>2, <2>1, <2>2, <2>3, PassCompleteLedger, ClaimLedger DEF PassStep
<1>3. ASSUME NEW d \in Dispatchers, DispatchStep(d) \/ DispatcherCrash(d)
      PROVE  LedgerStep
  <2>1. CASE Invoke(d) \/ ReturnToPending(d) \/ StaleRejection(d) \/ DispatcherCrash(d)
    BY <2>1, QuietLedger DEF Invoke, InvokeAccepted, InvokeLost, InvokeRejected,
       ReturnToPending, StaleRejection, DispatcherCrash, rows
  <2>2. CASE MarkDispatched(d)
    <3>1. PICK a \in Attempts : a = dispatcher[d].attempt
      BY <2>2 DEF WorkInv, RowInv, TypeInv, DispatcherWorks, MarkDispatched
    <3>2. UNCHANGED <<exec, reservation>>
      BY <2>2 DEF MarkDispatched
    <3>3. CASE att' = att
      BY <3>2, <3>3, QuietLedger
    <3>4. CASE att[a] = "CREATED" /\ att' = [att EXCEPT ![a] = "DISPATCHED"]
      BY <3>2, <3>4, StaysAuthorizedLedger DEF WorkInv, IndexedAttempt
    <3> QED BY <2>2, <3>1, <3>3, <3>4 DEF MarkDispatched, WorkInv, RowInv, TypeInv, TypeOK
  <2> QED BY <1>3, <2>1, <2>2, FailNonRetryableLedger DEF DispatchStep
<1>4. ASSUME NEW a \in Attempts, NEW p \in Payloads, Delivers(a, p),
             ApplyRejected(a, p) \/ ApplyCanonical(a, p)
      PROVE  LedgerStep
  BY <1>4, ApplyCanonicalLedger, QuietLedger DEF ApplyRejected
<1>5. ASSUME NEW a \in Attempts, NEW v \in Decisions,
             DecideSettled(a, v) \/ FailWaiting(a, v) \/ ApproveResume(a)
      PROVE  LedgerStep
  BY <1>5, FailWaitingLedger, ApproveResumeLedger, QuietLedger DEF DecideSettled
<1>6. ASSUME NEW a \in Attempts, ProjectLiveness(a) PROVE LedgerStep
  BY <1>6, StaysAuthorizedLedger DEF ProjectLiveness, WorkInv, IndexedAttempt
<1>7. ASSUME NEW d \in Dispatchers, NEW a \in Attempts, Lease(d, a) PROVE LedgerStep
  BY <1>7, QuietLedger DEF Lease
<1>8. CASE CancelRequest \/ CancelTooLate \/ CancelCommit
  BY <1>8, CancelCommitLedger, QuietLedger DEF CancelRequest, CancelTooLate, rows
<1> QED
  BY <1>1, <1>2, <1>3, <1>4, <1>5, <1>6, <1>7, <1>8, EnvironmentAssumption DEF Next,
     WorkerResult, ExpireAttempt, SupervisionTimeout, Delivers, Payloads, Approve,
     ApproveRefused, Deny, Expire, Decisions

(* Refinement: whatever passes, dispatch loops, workers, operators, clocks *)
(* and crashes do, the rows tell a ledger of work authority: every         *)
(* invocation is authorized at most once and in turn, settled once, and    *)
(* gives back its reservation in that very step; a run ends once, and is   *)
(* completed only when no work is left.                                    *)
THEOREM WorkAuthorityIsKept == ASSUME ExclusiveRejection PROVE Spec => KeepsWorkAuthority
<1>1. WorkInv => RowInv
  BY DEF WorkInv
<1>2. WorkInv /\ RowInv' /\ [Next]_vars => [Authority!Next]_(Authority!ledger)
  BY LedgerSimulates DEF LedgerStep, Authority!ledger, Run, Work, Held
<1> QED
  BY <1>1, <1>2, LedgerInit, WorkInvariant, PTL DEF Spec, KeepsWorkAuthority, Authority!Spec
=============================================================================
