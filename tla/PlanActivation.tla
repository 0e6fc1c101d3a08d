---------------------------- MODULE PlanActivation ----------------------------
(***************************************************************************)
(* Plan revisions of one execution: patches are proposed, intercepted by   *)
(* policy, approved or denied, and activated, while reconciliation passes  *)
(* schedule from plans they read earlier.                                  *)
(*                                                                         *)
(* An activation holds the lock of the execution row; claims, results,     *)
(* completion and other activations wait for it.  A denial or expiry locks *)
(* only the request, so it can commit before the activation decides.       *)
(***************************************************************************)
EXTENDS Naturals, Sequences, FiniteSets

CONSTANTS
    StepIds,
    InitialPlan,    \* step id -> its specification
    Patches,        \* sequences of operations that may be proposed
    Proposals,
    Passes,         \* reconciliation passes that run concurrently
    Effects,        \* what the configured policy may decide
    MaxAttempts     \* a failed step is retried until it had this many

VARIABLES
    status,         \* of the execution
    revisions,      \* plan revisions; the last one is active
    step,           \* step id -> row of the logical step
    attempts,       \* step id -> its attempts
    proposal,       \* proposal -> row
    request,        \* proposal -> status of its approval request
    activation,     \* the activation that holds the execution lock
    pass            \* pass -> how far it is and what it read

vars == <<status, revisions, step, attempts, proposal, request, activation, pass>>
engine == <<step, attempts, pass>>

NoSpec == [v |-> 0]
NoActivation == [proposal |-> "none"]
IdlePass == [pc |-> "idle", rev |-> 0, due |-> {}]
Absent == [status |-> "absent", frozen |-> NoSpec]
Fresh == [status |-> "PENDING", frozen |-> NoSpec]

Specs == {InitialPlan[s] : s \in DOMAIN InitialPlan}
             \cup UNION {{ops[n].spec : n \in DOMAIN ops} : ops \in Patches}

TypeOK ==
    /\ status \in {"RUNNING", "COMPLETED", "FAILED"}
    /\ \A n \in 1..Len(revisions) :
           /\ DOMAIN revisions[n].plan \subseteq StepIds
           /\ \A s \in DOMAIN revisions[n].plan : revisions[n].plan[s] \in Specs
    /\ \A s \in StepIds :
           /\ step[s].status \in {"absent", "PENDING", "READY", "RUNNING", "RETRYING",
                                  "COMPLETED", "FAILED", "SKIPPED"}
           /\ step[s].frozen \in Specs \cup {NoSpec}
           /\ Len(attempts[s]) <= MaxAttempts
    /\ \A p \in Proposals :
           /\ proposal[p].status \in {"none", "PENDING", "ACCEPTED", "REJECTED", "STALE"}
           /\ request[p] \in {"none", "PENDING", "APPROVED", "DENIED", "EXPIRED"}
    /\ activation.proposal \in Proposals \cup {"none"}
    /\ \A e \in Passes : pass[e].pc \in {"idle", "advance", "read", "claim", "complete"}

Init ==
    /\ status = "RUNNING"
    /\ revisions = <<[plan |-> InitialPlan, base |-> 0, proposal |-> "none"]>>
    /\ step = [s \in StepIds |-> IF s \in DOMAIN InitialPlan THEN Fresh ELSE Absent]
    /\ attempts = [s \in StepIds |-> <<>>]
    /\ proposal = [p \in Proposals |->
                      [status |-> "none", ops |-> <<>>, base |-> 0, source |-> "none"]]
    /\ request = [p \in Proposals |-> "none"]
    /\ activation = NoActivation
    /\ pass = [e \in Passes |-> IdlePass]

Active == Len(revisions)
Plan == revisions[Active].plan
Unlocked == activation = NoActivation
-----------------------------------------------------------------------------
(* Proposals.                                                              *)

Insert(p, ops, base, source) ==
    /\ proposal[p].status = "none"
    /\ proposal' = [proposal EXCEPT ![p] =
                       [status |-> "PENDING", ops |-> ops, base |-> base, source |-> source]]

(* An operator states the revision the patch was made for.                 *)
Propose(p, ops, base) ==
    /\ Unlocked
    /\ Insert(p, ops, base, "operator")
    /\ UNCHANGED <<status, revisions, request, activation, engine>>

MutantFrozenWhileRunning == {s \in StepIds : step[s].status = "RUNNING"}
FrozenSteps == {s \in StepIds : attempts[s] # <<>>}

(* What a patch adds before its n-th operation.                            *)
AddedBefore(ops, n) ==
    {ops[k].id : k \in {m \in DOMAIN ops : m < n /\ ops[m].op = "addStep"}}

(* An addition is new: a repeated id is pushed, and validation finds it.   *)
(* A replacement has a target, in the plan or added before, and the target *)
(* is not frozen.                                                          *)
Applicable(ops) ==
    \A n \in DOMAIN ops :
        LET known == DOMAIN Plan \cup AddedBefore(ops, n)
        IN ops[n].id \in IF ops[n].op = "addStep" THEN StepIds \ known
                         ELSE known \ FrozenSteps

(* The last operation on a step says what it is.                           *)
Candidate(ops) ==
    LET on(s) == {n \in DOMAIN ops : ops[n].id = s}
    IN [s \in DOMAIN Plan \cup {ops[n].id : n \in DOMAIN ops} |->
            IF on(s) = {} THEN Plan[s]
            ELSE ops[CHOOSE n \in on(s) : \A m \in on(s) : m <= n].spec]

(* Dependencies exist and the graph has no cycle.                          *)
ValidSteps(plan) ==
    /\ \A s \in DOMAIN plan : plan[s].after \subseteq DOMAIN plan
    /\ \E depth \in [DOMAIN plan -> 1..Cardinality(DOMAIN plan)] :
           \A s \in DOMAIN plan : \A d \in plan[s].after : depth[d] < depth[s]

Planners(plan) == {s \in DOMAIN plan : plan[s].planner}

BaseMoved(p) == proposal[p].base # Active

(* What an activation under the execution lock decides, given the effect   *)
(* of policy and whether a grant is visible to it.                         *)
Verdict(p, effect, granted) ==
    LET ops == proposal[p].ops IN
    IF status # "RUNNING" \/ BaseMoved(p) THEN "STALE"
    ELSE IF ~Applicable(ops) THEN "REJECTED"
    ELSE IF ~ValidSteps(Candidate(ops)) \/ effect = "DENY" THEN "REJECTED"
    ELSE IF effect = "REQUIRE_APPROVAL" /\ ~granted THEN "PENDING"
    ELSE IF /\ proposal[p].source = "planner"
            /\ ~(Planners(Candidate(ops)) \subseteq Planners(Plan)) THEN "REJECTED"
    ELSE "ACCEPTED"

(* The proposal is read again under the lock and is still PENDING.         *)
Lock(p, effect, approving) ==
    /\ Unlocked
    /\ proposal[p].status = "PENDING"
    /\ activation' = [proposal |-> p, approving |-> approving,
                      verdict |-> Verdict(p, effect, approving \/ request[p] = "APPROVED")]
    /\ UNCHANGED <<status, revisions, proposal, request, engine>>

Activate(p, effect) == Lock(p, effect, FALSE)
Approve(p, effect) == request[p] = "PENDING" /\ Lock(p, effect, TRUE)

(* The approval of a proposal that was decided meanwhile is only recorded. *)
ApproveDecided(p) ==
    /\ Unlocked
    /\ request[p] = "PENDING" /\ proposal[p].status \notin {"none", "PENDING"}
    /\ request' = [request EXCEPT ![p] = "APPROVED"]
    /\ UNCHANGED <<status, revisions, proposal, activation, engine>>

Granted(p) == request' = [request EXCEPT ![p] = IF activation.approving THEN "APPROVED" ELSE @]

(* Policy requires an approval: the request is created once.               *)
CommitAwaiting(p) ==
    /\ activation.proposal = p /\ activation.verdict = "PENDING"
    /\ request' = [request EXCEPT ![p] = IF @ = "none" THEN "PENDING" ELSE @]
    /\ activation' = NoActivation
    /\ UNCHANGED <<status, revisions, proposal, engine>>

StillPending(p) == proposal[p].status = "PENDING"

Decided(p, outcome) == IF StillPending(p) THEN outcome ELSE proposal[p].status

(* decide(): STALE or REJECTED, unless another authority was faster.       *)
CommitRefusal(p) ==
    /\ activation.proposal = p /\ activation.verdict \in {"STALE", "REJECTED"}
    /\ proposal' = [proposal EXCEPT ![p].status = Decided(p, activation.verdict)]
    /\ Granted(p)
    /\ activation' = NoActivation
    /\ UNCHANGED <<status, revisions, engine>>

Uncontested(p) == StillPending(p)

(* The revision, the rows of added steps and the decision commit together. *)
CommitRevision(p) ==
    LET plan == Candidate(proposal[p].ops) IN
    /\ activation.proposal = p /\ activation.verdict = "ACCEPTED"
    /\ Uncontested(p)
    /\ revisions' = Append(revisions, [plan |-> plan, base |-> Active, proposal |-> p])
    /\ step' = [s \in StepIds |-> IF s \in DOMAIN plan \ DOMAIN Plan THEN Fresh ELSE step[s]]
    /\ proposal' = [proposal EXCEPT ![p].status = IF StillPending(p) THEN "ACCEPTED" ELSE @]
    /\ Granted(p)
    /\ activation' = NoActivation
    /\ UNCHANGED <<status, attempts, pass>>

(* The decision was lost to a denial, or the process died.                 *)
ActivationAborts ==
    /\ ~Unlocked
    /\ activation' = NoActivation
    /\ UNCHANGED <<status, revisions, proposal, request, engine>>

(* deny(), expire(): lock the request only.                                *)
CloseRequest(p, outcome) ==
    /\ request[p] = "PENDING"
    /\ Unlocked \/ ~(activation.proposal = p /\ activation.approving)
    /\ request' = [request EXCEPT ![p] = outcome]
    /\ proposal' = [proposal EXCEPT ![p].status = IF StillPending(p) THEN "REJECTED" ELSE @]
    /\ UNCHANGED <<status, revisions, activation, engine>>
-----------------------------------------------------------------------------
(* Reconciliation passes.                                                  *)

SettledStep == {"COMPLETED", "FAILED", "SKIPPED"}
Resolved(spec) == \A d \in spec.after : step[d].status \in {"COMPLETED", "SKIPPED"}

(* reconcileExecution() reads the plan it advances steps by.               *)
PassBegin(e) ==
    /\ pass[e] = IdlePass /\ status = "RUNNING"
    /\ pass' = [pass EXCEPT ![e] = [pc |-> "advance", rev |-> Active, due |-> {}]]
    /\ UNCHANGED <<status, revisions, step, attempts, proposal, request, activation>>

PassAdvance(e, s) ==
    /\ pass[e].pc = "advance"
    /\ s \in DOMAIN revisions[pass[e].rev].plan
    /\ step[s].status = "PENDING" /\ Resolved(revisions[pass[e].rev].plan[s])
    /\ step' = [step EXCEPT ![s].status = "READY"]
    /\ UNCHANGED <<status, revisions, attempts, proposal, request, activation, pass>>

(* reconcilePass() reads execution and plan anew, and then the steps.      *)
PassReadPlan(e) ==
    /\ pass[e].pc = "advance"
    /\ pass' = [pass EXCEPT ![e] = IF status = "RUNNING"
                                   THEN [pc |-> "read", rev |-> Active, due |-> {}] ELSE IdlePass]
    /\ UNCHANGED <<status, revisions, step, attempts, proposal, request, activation>>

PassReadSteps(e) ==
    LET plan == revisions[pass[e].rev].plan
        due == {s \in DOMAIN plan : step[s].status \in {"READY", "RETRYING"}}
    IN /\ pass[e].pc = "read"
       /\ pass' = [pass EXCEPT ![e] =
              IF \E s \in StepIds : step[s].status = "FAILED" THEN IdlePass
              ELSE IF \A s \in DOMAIN plan : step[s].status \in SettledStep
              THEN [@ EXCEPT !.pc = "complete"]
              ELSE [@ EXCEPT !.pc = "claim", !.due = due]]
       /\ UNCHANGED <<status, revisions, step, attempts, proposal, request, activation>>

PassComplete(e) ==
    /\ pass[e].pc = "complete" /\ Unlocked
    /\ status' = IF status = "RUNNING" THEN "COMPLETED" ELSE status
    /\ pass' = [pass EXCEPT ![e] = IdlePass]
    /\ UNCHANGED <<revisions, step, attempts, proposal, request, activation>>

PassEnds(e) ==
    /\ pass[e] # IdlePass
    /\ pass' = [pass EXCEPT ![e] = IdlePass]
    /\ UNCHANGED <<status, revisions, step, attempts, proposal, request, activation>>

(* The claim reads the active plan under the execution lock; the input it  *)
(* freezes was made from the plan of the pass.                             *)
Claim(e, s) ==
    LET spec == Plan[s] IN
    /\ pass[e].pc = "claim" /\ s \in pass[e].due /\ Unlocked
    /\ step[s].status \in {"READY", "RETRYING"} /\ status = "RUNNING"
    /\ step[s].frozen \in {NoSpec, spec}
    /\ Resolved(spec)
    /\ pass' = [pass EXCEPT ![e].due = @ \ {s}]
    /\ \/ /\ spec.conditional
          /\ step' = [step EXCEPT ![s] = [status |-> "SKIPPED", frozen |-> spec]]
          /\ UNCHANGED attempts
       \/ /\ step' = [step EXCEPT ![s] = [status |-> "RUNNING", frozen |-> spec]]
          /\ attempts' = [attempts EXCEPT ![s] = Append(@,
                 [spec |-> spec, input |-> revisions[pass[e].rev].plan[s]])]
    /\ UNCHANGED <<status, revisions, proposal, request, activation>>
-----------------------------------------------------------------------------
(* Results.  A planner's output is a proposal against the active revision. *)

StepSucceeds(s) ==
    /\ Unlocked /\ step[s].status = "RUNNING"
    /\ step' = [step EXCEPT ![s].status = "COMPLETED"]
    /\ \/ ~step[s].frozen.planner /\ UNCHANGED proposal
       \/ status # "RUNNING" /\ UNCHANGED proposal
       \/ /\ step[s].frozen.planner /\ status = "RUNNING"
          /\ \E p \in Proposals, ops \in Patches : Insert(p, ops, Active, "planner")
    /\ UNCHANGED <<status, revisions, attempts, request, activation, pass>>

RetriesLeft(s) == Len(attempts[s]) < MaxAttempts

StepFails(s) ==
    /\ Unlocked /\ step[s].status = "RUNNING"
    /\ IF RetriesLeft(s) /\ status = "RUNNING"
       THEN step' = [step EXCEPT ![s].status = "RETRYING"] /\ UNCHANGED status
       ELSE /\ step' = [step EXCEPT ![s].status = "FAILED"]
            /\ status' = IF status = "RUNNING" THEN "FAILED" ELSE status
    /\ UNCHANGED <<revisions, attempts, proposal, request, activation, pass>>
-----------------------------------------------------------------------------
Next ==
    \/ \E p \in Proposals :
           \/ \E ops \in Patches, base \in 1..Active : Propose(p, ops, base)
           \/ \E effect \in Effects : Activate(p, effect) \/ Approve(p, effect)
           \/ ApproveDecided(p)
           \/ CommitAwaiting(p) \/ CommitRefusal(p) \/ CommitRevision(p)
           \/ \E outcome \in {"DENIED", "EXPIRED"} : CloseRequest(p, outcome)
    \/ ActivationAborts
    \/ \E e \in Passes :
           \/ PassBegin(e) \/ PassReadPlan(e) \/ PassReadSteps(e)
           \/ PassComplete(e) \/ PassEnds(e)
           \/ \E s \in StepIds : PassAdvance(e, s) \/ Claim(e, s)
    \/ \E s \in StepIds : StepSucceeds(s) \/ StepFails(s)

Spec == Init /\ [][Next]_vars
-----------------------------------------------------------------------------
(* Work that has begun is never rewritten: whatever was activated since,   *)
(* the active plan still says what every attempt of a step was given.      *)
StartedIsFrozen ==
    \A s \in StepIds : attempts[s] # <<>> =>
        /\ s \in DOMAIN Plan /\ Plan[s] = step[s].frozen
        /\ \A n \in DOMAIN attempts[s] : attempts[s][n].spec = step[s].frozen

(* Revisions are exactly the accepted proposals, each built on the one     *)
(* before it: no proposal is activated twice, on another base than its     *)
(* own, or although it was denied.                                         *)
RevisionsAreAccepted ==
    /\ \A n \in 2..Active :
           /\ revisions[n].base = n - 1
           /\ proposal[revisions[n].proposal].status = "ACCEPTED"
           /\ proposal[revisions[n].proposal].base = n - 1
    /\ \A p \in Proposals : proposal[p].status = "ACCEPTED" =>
           Cardinality({n \in 2..Active : revisions[n].proposal = p}) = 1

(* A step starts only after everything its specification waits for, even   *)
(* when the pass that claims it reads an older plan.                       *)
StartedInOrder ==
    \A s \in StepIds : attempts[s] # <<>> => Resolved(step[s].frozen)

(* A decision on a proposal or a request is final, revisions are only      *)
(* added.                                                                  *)
DecisionsFinal ==
    [][/\ \A p \in Proposals :
              /\ proposal[p].status \in {"ACCEPTED", "REJECTED", "STALE"} =>
                     proposal'[p] = proposal[p]
              /\ request[p] \in {"APPROVED", "DENIED", "EXPIRED"} => request'[p] = request[p]
       /\ \A n \in DOMAIN revisions : revisions'[n] = revisions[n]]_vars
-----------------------------------------------------------------------------
(* "a condition that evaluates false freezes the spec", and replacement    *)
(* targets must not be frozen.                                             *)
FreezeHolds ==
    \A s \in StepIds : step[s].frozen # NoSpec => Plan[s] = step[s].frozen

(* "every configured step terminal -> COMPLETED".                          *)
CompletedMeansPlanDone ==
    status = "COMPLETED" => \A s \in DOMAIN Plan : step[s].status \in SettledStep

(* "a claimed first attempt freezes the active revision's step             *)
(* configuration": its input is made from the same configuration.          *)
AttemptFollowsItsSpec ==
    \A s \in StepIds : \A n \in DOMAIN attempts[s] : attempts[s][n].input = attempts[s][n].spec
=============================================================================
