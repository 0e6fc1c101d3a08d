-------------------------------- MODULE MCLive --------------------------------
(***************************************************************************)
(* What the control plane must eventually reach, for a plan of two steps,  *)
(* the second after the first, whose workers may report anything.  The     *)
(* initial state chooses between two instances: one replica and a step     *)
(* that is retried, or steps that are not, a second replica that crashes   *)
(* and an operator who cancels.                                            *)
(***************************************************************************)
EXTENDS Naturals, FiniteSets

CONSTANTS s1, s2, e1, e2

VARIABLES
    instance,           \* the instance that acts
    exec, step, tries, att, outbox, dispatchCount, inbox, payload, approval,
    reservation, worker, dispatcher, pass, cancelling
-----------------------------------------------------------------------------
TwoSteps == {s1, s2}
Chain == [s \in TwoSteps |-> IF s = s2 THEN {s1} ELSE {}]
RetryThenStop == [s \in TwoSteps |-> IF s = s1 THEN "retry" ELSE "stop"]
OneEach == [s \in TwoSteps |-> 1]
TwoThenOne == [s \in TwoSteps |-> IF s = s1 THEN 2 ELSE 1]
Outcomes == {"succeeded", "failed", "cancelled"}

(* An approval may be asked for the first step, and the claim of the       *)
(* second may throw.                                                       *)
Declared == [s \in TwoSteps |-> {"timeout", IF s = s1 THEN "policy" ELSE "pinned"}]

Retried == INSTANCE ControlPlane WITH
    Steps <- TwoSteps, DependsOn <- Chain, OnFailure <- RetryThenStop,
    MaxAttempts <- TwoThenOne, Declares <- Declared, AuthorityDeadline <- FALSE,
    ExclusiveRejection <- TRUE, WorkerOutcomes <- Outcomes, ApiCancel <- FALSE,
    Engines <- {e1, e2}, Unreliable <- {e2}, Dispatchers <- {"d1"},
    AttemptBound <- 2, LeaseBound <- 1

Replicated == INSTANCE ControlPlane WITH
    Steps <- TwoSteps, DependsOn <- Chain, OnFailure <- RetryThenStop,
    MaxAttempts <- OneEach, Declares <- Declared, AuthorityDeadline <- FALSE,
    ExclusiveRejection <- TRUE, WorkerOutcomes <- Outcomes, ApiCancel <- TRUE,
    Engines <- {e1, e2}, Unreliable <- {e2}, Dispatchers <- {"d1"},
    AttemptBound <- 2, LeaseBound <- 1

liveVars == <<instance, exec, step, tries, att, outbox, dispatchCount, inbox, payload,
              approval, reservation, worker, dispatcher, pass, cancelling>>
-----------------------------------------------------------------------------
Init == instance \in {"retried", "replicated"} /\ Retried!Init

(* The second replica is idle where steps are retried.                     *)
RetriedActs(A) == instance = "retried" /\ A /\ UNCHANGED <<instance, pass[e2]>>
ReplicatedActs(A) == instance = "replicated" /\ A /\ UNCHANGED instance

Next == RetriedActs(Retried!Next) \/ ReplicatedActs(Replicated!Next)

(* The fairness of ControlPlane, for the instance that acts and the        *)
(* attempts and approvals that these plans can have.                       *)
Fairness ==
    /\ WF_liveVars(\/ RetriedActs(Retried!Candidate /\ Retried!PassBegin(e1))
                   \/ ReplicatedActs(Replicated!Candidate /\ Replicated!PassBegin(e1)))
    /\ WF_liveVars(\/ RetriedActs(Retried!PassStep(e1))
                   \/ ReplicatedActs(Replicated!PassStep(e1)))
    /\ WF_liveVars(\/ RetriedActs(Retried!CancelTooLate \/ Retried!CancelCommit)
                   \/ ReplicatedActs(Replicated!CancelTooLate \/ Replicated!CancelCommit))
    /\ \A a \in {<<s1, 1>>, <<s1, 2>>, <<s2, 1>>} :
           WF_liveVars(\/ RetriedActs(Retried!ExpireAttempt(a))
                       \/ ReplicatedActs(Replicated!ExpireAttempt(a)))
    /\ \A a \in {<<s1, 1>>, <<s1, 2>>} :
           WF_liveVars(\/ RetriedActs(Retried!Expire(a))
                       \/ ReplicatedActs(Replicated!Expire(a)))

MCSpec == Init /\ [][Next]_liveVars /\ Fairness
-----------------------------------------------------------------------------
(* Both are stated, and explained, in ControlPlane; neither depends on     *)
(* what the two instances differ in.                                       *)
RunTerminates == Retried!RunTerminates
AttemptsSettle == Retried!AttemptsSettle
=============================================================================
