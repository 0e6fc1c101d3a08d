------------------------------- MODULE Services -------------------------------
(***************************************************************************)
(* Services beside the control plane, put together: the budget ledger,     *)
(* plan activation, delegation, the event stream of an invocation, runtime *)
(* connections with their authorization flows, and the topics of Kafka.    *)
(* They have no variable in common: each promises what it promises         *)
(* whatever the others do.                                                 *)
(***************************************************************************)
EXTENDS BudgetLedger

CONSTANTS
    StepIds, InitialPlan, Patches, Proposals, Passes,       \* of PlanActivation
    Effects, MaxAttempts,
    Root, Delegations, Ordinals, MaxDepth, RunDepth,        \* of Delegation
    MaxPerAttempt, Grants, MaxTime, Replicas, SweepLimit,
    Foreign, MaxEvents, EventTime, MaxHandling,             \* of AgentEvents
    StartupGrace, StaleAfter,
    Begins, Completions, Resumes, Providers,                \* of RuntimeConnections
    MaxRevision, MaxFlows, MaxProbes,
    Invocations, MaxSends, MaxResults, MaxStops, MaxForeign \* of KafkaTransport

VARIABLES
    execution, revisions, step, attempts, proposal,         \* of PlanActivation
    request, activation, pass,
    now, executions, authority, grant, delegate,            \* of Delegation
    delegation, created, sweep,
    clock, invoked, sequence, handler, emitted, result,     \* of AgentEvents
    handling, rows, conflicts, att, verdict,
    card, test, chain, begin, session,                      \* of RuntimeConnections
    flows, complete, resume, callbacks, closed,
    tasks, results, written, sends, consumer, stored,       \* of KafkaTransport
    unpublished
-----------------------------------------------------------------------------
Plans == INSTANCE PlanActivation WITH status <- execution

Delegates == INSTANCE Delegation WITH
    Requests <- Delegations,
    status <- executions, attempt <- delegate, request <- delegation

Events == INSTANCE AgentEvents WITH now <- clock, run <- invoked, MaxTime <- EventTime

Connections == INSTANCE RuntimeConnections

Kafka == INSTANCE KafkaTransport

planVars == <<execution, revisions, step, attempts, proposal, request, activation, pass>>
delegationVars == <<now, executions, authority, grant, delegate, delegation, created, sweep>>
eventVars == <<clock, invoked, sequence, handler, emitted, result, handling, rows, conflicts,
               att, verdict>>
connectionVars == <<card, test, chain, begin, session, flows, complete, resume, callbacks,
                    closed>>
kafkaVars == <<tasks, results, written, sends, consumer, stored, unpublished>>
-----------------------------------------------------------------------------
(* A revision changes nothing that has started, is active only after its   *)
(* proposal was accepted, and what has started keeps its order.            *)
RevisionsAreSound ==
    Plans!RevisionsAreAccepted /\ Plans!StartedIsFrozen /\ Plans!StartedInOrder

(* A delegated execution has no authority its parent lacks, and no child   *)
(* exists without the one approval of its request.                         *)
DelegationsAreSound == Delegates!DelegationsAreSound

(* The stored events of an invocation and the columns of its attempt agree *)
(* with what was emitted and with each other.                              *)
EventsAreEvidence == Events!EventsAreEvidence

(* A pass gives an attempt up only for a silence that was one.             *)
TimeoutsAreEarned == Events!TimeoutsAreEarned

(* A live management session has one owner, a provider one pending         *)
(* authorization, and the card tells what was measured on its revision.    *)
ConnectionsAreSound == Connections!ConnectionsAreSound

(* A session is asked for its callback once, and under an authority that   *)
(* was in force since the request.                                         *)
CallbacksAreAuthorized == Connections!CallbacksAreAuthorized

(* What a group has read from a topic was stored or answered.              *)
NothingIsSkipped == Kafka!NothingIsSkipped
=============================================================================
