----------------------------- MODULE Coordination -----------------------------
(***************************************************************************)
(* The coordination loop of one supervised team run: a planner proposes a  *)
(* batch of worker tasks, the workers run, a verifier decides.             *)
(*                                                                         *)
(* Reconciliation passes of several replicas read the run, the execution,  *)
(* the steps and the attempts without locks, one query after the other,    *)
(* and then act in one transaction that locks the run row and after it the *)
(* execution row.  Claims, results, approvals, operator patches and        *)
(* cancellation happen between the reads.                                  *)
(***************************************************************************)
EXTENDS Naturals, Sequences, FiniteSets

CONSTANTS
    Tasks,
    Batches,                  \* sequences of [task, required, retries]
    Slips,                    \* how a planner's answer may misstate its authority
    Actions,                  \* what a verifier may propose
    MaxIterations, MaxWorkersPerIteration, MaxTotalWorkers,     \* positive
    MaxRevisions,             \* bound of the model: operators patch up to here
    Passes,
    Effects,                  \* what the configured policy may decide of a batch
    Troubles                  \* what may go wrong around the loop, and stays wrong

VARIABLES
    run,            \* phase, current iteration, cumulative workers
    execution,      \* status, active revision, termination reason
    lease,          \* of the run's execution workspace
    iteration,      \* number -> row of the iteration
    proposals,      \* plan proposals of the planner, in order of creation
    step,           \* <<role or task, iteration>> -> logical step and latest attempt
    trouble,        \* what has gone wrong
    pass            \* pass -> how far it is and what it read

vars == <<run, execution, lease, iteration, proposals, step, trouble, pass>>

Numbers == 1..MaxIterations
Steps == ({"planner", "verify"} \cup Tasks) \X Numbers

Terminal == {"ACCEPTED", "FAILED", "CANCELLED", "LIMIT_REACHED"}
Live == {"PLANNING", "BATCH_VALIDATION", "WORKING", "VERIFYING", "DECIDING",
         "WAITING_FOR_HUMAN"}

From == [plannerProposed |-> {"PLANNING"}, batchValidated |-> {"BATCH_VALIDATION"},
         workersFinished |-> {"WORKING"}, verifierProposed |-> {"VERIFYING"},
         accept |-> {"DECIDING"}, continue |-> {"DECIDING"}, wait |-> {"DECIDING"},
         approvalGranted |-> {"WAITING_FOR_HUMAN"}, approvalDenied |-> {"WAITING_FOR_HUMAN"},
         fail |-> Live, deadline |-> Live, cancel |-> Live, limitReached |-> Live]
To == [plannerProposed |-> "BATCH_VALIDATION", batchValidated |-> "WORKING",
       workersFinished |-> "VERIFYING", verifierProposed |-> "DECIDING",
       accept |-> "ACCEPTED", continue |-> "PLANNING", wait |-> "WAITING_FOR_HUMAN",
       approvalGranted |-> "DECIDING", approvalDenied |-> "FAILED",
       fail |-> "FAILED", deadline |-> "LIMIT_REACHED", cancel |-> "CANCELLED",
       limitReached |-> "LIMIT_REACHED"]

(* Terminal phases absorb every event; an event that is not legal throws.  *)
Accepts(phase, event) == phase \in Terminal \cup From[event]
MutantForgetsTerminal(phase, event) == To[event]
Applied(phase, event) == IF phase \in Terminal THEN phase ELSE To[event]

NoDecision == [action |-> "none", iteration |-> 0]
NoAnswer == [answer |-> "none"]
NewIteration == [planner |-> FALSE, pending |-> 0, batch |-> <<>>, accepted |-> 0,
                 decision |-> NoDecision]
NoStep == [status |-> "absent", outcome |-> "none", attempts |-> 0, frozen |-> 0,
           answer |-> NoAnswer, after |-> {}, onFailure |-> "stop", retries |-> 0]
IdlePass == [at |-> "idle", iteration |-> 0, batch |-> <<>>, retrying |-> FALSE,
             seen |-> <<>>]

TypeOK ==
    /\ run.phase \in Live \cup Terminal
    /\ run.iteration \in Numbers
    /\ run.workers \in Nat
    /\ execution.status \in {"RUNNING", "COMPLETED", "FAILED", "CANCELLED"}
    /\ execution.reason \in {"none", "step", "batch", "stale base", "loop"}
    /\ lease \in {"IN_USE", "PRESERVED"}
    /\ \A n \in Numbers : iteration[n].pending \in 0..Len(proposals)
    /\ \A k \in DOMAIN proposals :
           proposals[k].status \in {"PENDING", "ACCEPTED", "REJECTED", "STALE"}
    /\ \A s \in Steps :
           /\ step[s].status \in {"absent", "READY", "RUNNING", "RETRYING", "COMPLETED",
                                  "FAILED", "CANCELLED"}
           /\ step[s].outcome \in {"none", "RUNNING", "SUCCESS", "FAILED", "CANCELLED"}
           /\ step[s].attempts <= step[s].retries + 1
    /\ trouble \subseteq Troubles
    /\ \A p \in Passes : pass[p].at \in
           {"idle", "planner", "create", "submit", "refused", "workerStep", "workerAttempt",
            "verifier", "consume", "workersFinished", "fail", "deadline", "cancel"}

(* The run, its first iteration and the leased workspace are created in    *)
(* one transaction, on an execution whose plan is empty.                   *)
Init ==
    /\ run = [phase |-> "PLANNING", iteration |-> 1, workers |-> 0]
    /\ execution = [status |-> "RUNNING", revision |-> 1, reason |-> "none"]
    /\ lease = "IN_USE"
    /\ iteration = [n \in Numbers |-> NewIteration]
    /\ proposals = <<>>
    /\ step = [s \in Steps |-> NoStep]
    /\ trouble = {}
    /\ pass = [p \in Passes |-> IdlePass]

Late == "late" \in trouble
Spent == "spent" \in trouble
Revoked == "revoked" \in trouble

Planner(n) == <<"planner", n>>
Verifier(n) == <<"verify", n>>
WorkersOf(batch, n) == {<<batch[k].task, n>> : k \in DOMAIN batch}

(* A transaction that ends the run preserves its workspace.                *)
Preserves(phase) == lease' = IF phase \in Terminal THEN "PRESERVED" ELSE lease

Goes(p, where) == pass' = [pass EXCEPT ![p].at = where]
Ends(p) == pass' = [pass EXCEPT ![p] = IdlePass]

FailExecution(reason) ==
    execution' = IF execution.status = "RUNNING"
                 THEN [execution EXCEPT !.status = "FAILED", !.reason = reason]
                 ELSE execution
-----------------------------------------------------------------------------
(* Reads of a pass.                                                        *)

LooksAt(phase) ==
    CASE phase = "PLANNING" -> "planner"
      [] phase = "WORKING" -> "workerStep"
      [] phase = "VERIFYING" -> "verifier"
      [] OTHER -> "idle"

MutantDeadlineWhileWorking ==
    CASE execution.status = "CANCELLED" -> "cancel"
      [] execution.status = "FAILED" -> "fail"
      [] OTHER -> IF run.phase = "WORKING" /\ Late THEN "deadline" ELSE LooksAt(run.phase)
Glance ==
    CASE execution.status = "CANCELLED" -> "cancel"
      [] execution.status = "FAILED" -> "fail"
      [] execution.status = "COMPLETED" -> "idle"
      [] OTHER -> IF Late THEN "deadline" ELSE LooksAt(run.phase)

Begin(p) ==
    /\ pass[p] = IdlePass
    /\ run.phase \notin Terminal
    /\ Glance # "idle"
    /\ pass' = [pass EXCEPT ![p] = [IdlePass EXCEPT
                    !.at = Glance,
                    !.iteration = run.iteration,
                    !.batch = iteration[run.iteration].batch]]
    /\ UNCHANGED <<run, execution, lease, iteration, proposals, step, trouble>>

TerminalAttempt == {"SUCCESS", "FAILED", "CANCELLED"}

(* What the latest attempt of a coordinator-owned step calls for.          *)
CallsFor(s, next) ==
    CASE step[s].outcome = "SUCCESS" -> next
      [] step[s].outcome \in {"FAILED", "CANCELLED"} -> "fail"
      [] OTHER -> "idle"

LookAtPlanner(p) ==
    LET s == Planner(pass[p].iteration)
        next == IF step[s].status = "absent" THEN "create" ELSE CallsFor(s, "submit")
    IN /\ pass[p].at = "planner"
       /\ IF next = "idle" THEN Ends(p) ELSE Goes(p, next)
       /\ UNCHANGED <<run, execution, lease, iteration, proposals, step, trouble>>

LookAtVerifier(p) ==
    LET next == CallsFor(Verifier(pass[p].iteration), "consume")
    IN /\ pass[p].at = "verifier"
       /\ IF next = "idle" THEN Ends(p) ELSE Goes(p, next)
       /\ UNCHANGED <<run, execution, lease, iteration, proposals, step, trouble>>

Entry(p) == pass[p].batch[Len(pass[p].seen) + 1]

(* The row of the next worker's step, and then its latest attempt.         *)
ReadWorkerStep(p) ==
    /\ pass[p].at = "workerStep"
    /\ pass' = [pass EXCEPT ![p].at = "workerAttempt",
                            ![p].retrying =
                                step[<<Entry(p).task, pass[p].iteration>>].status = "RETRYING"]
    /\ UNCHANGED <<run, execution, lease, iteration, proposals, step, trouble>>

Seen(p) ==
    LET outcome == step[<<Entry(p).task, pass[p].iteration>>].outcome
    IN IF pass[p].retrying THEN "RUNNING"
       ELSE IF outcome \in TerminalAttempt THEN outcome ELSE "CREATED"

AllTerminal(batch, seen) == \A k \in DOMAIN batch : seen[k] \in TerminalAttempt

FanIn(batch, seen) ==
    IF \E k \in DOMAIN batch : batch[k].required /\ seen[k] = "FAILED" THEN "fail"
    ELSE IF AllTerminal(batch, seen) THEN "workersFinished"
    ELSE "idle"

ReadWorkerAttempt(p) ==
    LET seen == Append(pass[p].seen, Seen(p))
        next == IF Len(seen) < Len(pass[p].batch) THEN "workerStep"
                ELSE FanIn(pass[p].batch, seen)
    IN /\ pass[p].at = "workerAttempt"
       /\ IF next = "idle" THEN Ends(p)
          ELSE pass' = [pass EXCEPT ![p].at = next, ![p].seen = seen]
       /\ UNCHANGED <<run, execution, lease, iteration, proposals, step, trouble>>
-----------------------------------------------------------------------------
(* Plan revisions.                                                         *)

Stop(after) == [NoStep EXCEPT !.status = "READY", !.after = after]
WorkerStep(w) == [NoStep EXCEPT
    !.status = "READY",
    !.retries = IF w.required THEN w.retries ELSE 0,
    !.onFailure = IF w.required THEN "stop" ELSE "continue"]

MutantAwaitsRequired(batch, n) == {<<batch[k].task, n>> :
                                      k \in {j \in DOMAIN batch : batch[j].required}}
VerifierAwaits(batch, n) == WorkersOf(batch, n)

(* The rows of a batch and of its verifier join the plan.                  *)
Materialized(batch, n) ==
    [s \in Steps |->
        IF s \in WorkersOf(batch, n)
        THEN WorkerStep(batch[CHOOSE k \in DOMAIN batch : <<batch[k].task, n>> = s])
        ELSE IF s = Verifier(n) THEN Stop(VerifierAwaits(batch, n))
        ELSE step[s]]

(* createPlannerStep(): what it refuses it rolls back, and the next pass   *)
(* tries again.                                                            *)
CreatePlannerStep(p) ==
    /\ pass[p].at = "create"
    /\ IF \/ run.phase # "PLANNING" \/ iteration[run.iteration].planner
          \/ execution.status # "RUNNING" \/ Revoked
       THEN UNCHANGED <<execution, iteration, step>>
       ELSE /\ iteration' = [iteration EXCEPT ![run.iteration].planner = TRUE]
            /\ step' = [step EXCEPT ![Planner(run.iteration)] = Stop({})]
            /\ execution' = [execution EXCEPT !.revision = @ + 1]
    /\ Ends(p)
    /\ UNCHANGED <<run, lease, proposals, trouble>>
-----------------------------------------------------------------------------
(* submitIterationBatch(), of the pass's iteration and planner attempt.    *)

Answer(p) == step[Planner(pass[p].iteration)].answer

WithinBounds(batch) ==
    /\ Len(batch) <= MaxWorkersPerIteration
    /\ run.workers + Len(batch) <= MaxTotalWorkers

Current(p) ==
    /\ run.phase = "PLANNING"
    /\ pass[p].iteration = run.iteration
    /\ Answer(p).iteration = run.iteration

Admissible(p) == Current(p) /\ WithinBounds(Answer(p).batch)

(* A refusal that throws; the pass goes on to fail run and execution.      *)
SubmitThrows(p) ==
    /\ pass[p].at = "submit"
    /\ ~Admissible(p) \/ (~Late /\ ~Spent /\ Revoked)
    /\ Goes(p, "refused")
    /\ UNCHANGED <<run, execution, lease, iteration, proposals, step, trouble>>

(* Out of time or budget: only the run is written.                         *)
SubmitLimited(p) ==
    /\ pass[p].at = "submit"
    /\ Admissible(p) /\ (Late \/ Spent)
    /\ run' = [run EXCEPT !.phase = Applied(@, "limitReached")]
    /\ Ends(p)
    /\ UNCHANGED <<execution, lease, iteration, proposals, step, trouble>>

FailStaleBatch(p, reason) ==
    /\ run' = [run EXCEPT !.phase = Applied(@, "fail")]
    /\ Preserves("FAILED")
    /\ FailExecution(reason)
    /\ Ends(p)
    /\ UNCHANGED <<iteration, step, trouble>>

Submits(p) == pass[p].at = "submit" /\ Admissible(p) /\ trouble = {}

PlannedOnBase(p) == Answer(p).base = step[Planner(pass[p].iteration)].frozen
OnActive(p) == Answer(p).base = execution.revision

SubmitStale(p) ==
    /\ Submits(p)
    /\ ~(PlannedOnBase(p) /\ OnActive(p))
    /\ FailStaleBatch(p, IF PlannedOnBase(p) THEN "stale base" ELSE "batch")
    /\ UNCHANGED proposals

Pending(n) == iteration[n].pending

(* The proposal that is activated: the pending one, or a new one.          *)
Proposed(p) ==
    LET n == run.iteration IN
    IF Pending(n) # 0 THEN proposals
    ELSE Append(proposals, [iteration |-> n, base |-> Answer(p).base,
                            batch |-> Answer(p).batch, status |-> "PENDING"])
Chosen(p) == IF Pending(run.iteration) # 0 THEN Pending(run.iteration)
             ELSE Len(proposals) + 1

(* activateWithManager(), under the execution lock.                        *)
Outcome(proposal, effect) ==
    IF proposal.status # "PENDING" THEN proposal.status
    ELSE IF execution.status # "RUNNING" \/ proposal.base # execution.revision THEN "STALE"
    ELSE CASE effect = "ALLOW" -> "ACCEPTED"
           [] effect = "DENY" -> "REJECTED"
           [] effect = "REQUIRE_APPROVAL" -> "PENDING"

Submittable(p, effect, outcome) ==
    /\ Submits(p) /\ PlannedOnBase(p) /\ OnActive(p)
    /\ Outcome(Proposed(p)[Chosen(p)], effect) = outcome
    /\ proposals' = [Proposed(p) EXCEPT ![Chosen(p)].status = outcome]

(* Revision, rows, manifest, counters and phase are one transaction.       *)
SubmitAccepted(p, effect) ==
    LET n == run.iteration
        batch == Answer(p).batch
    IN /\ Submittable(p, effect, "ACCEPTED")
       /\ execution' = [execution EXCEPT !.revision = @ + 1]
       /\ step' = Materialized(batch, n)
       /\ iteration' = [iteration EXCEPT ![n].batch = batch, ![n].pending = 0,
                                         ![n].accepted = execution.revision + 1]
       /\ run' = [run EXCEPT !.workers = @ + Len(batch),
                             !.phase = Applied(Applied(@, "plannerProposed"), "batchValidated")]
       /\ Ends(p)
       /\ UNCHANGED <<lease, trouble>>

SubmitPending(p, effect) ==
    /\ Submittable(p, effect, "PENDING")
    /\ iteration' = [iteration EXCEPT ![run.iteration].pending = Chosen(p)]
    /\ Ends(p)
    /\ UNCHANGED <<run, execution, lease, step, trouble>>

SubmitRefused(p, effect) ==
    /\ \E outcome \in {"REJECTED", "STALE"} : Submittable(p, effect, outcome)
    /\ FailStaleBatch(p, "batch")

(* failRunAndExecution(), of whatever phase the run has by now.            *)
FailRunAndExecution(p) ==
    /\ pass[p].at = "refused"
    /\ run' = [run EXCEPT !.phase = Applied(@, "fail")]
    /\ Preserves("FAILED")
    /\ FailExecution("loop")
    /\ Ends(p)
    /\ UNCHANGED <<iteration, proposals, step, trouble>>
-----------------------------------------------------------------------------
(* Phase transitions.                                                      *)

(* transitionRun(): an illegal event throws and changes nothing.           *)
Transition(p) ==
    LET event == pass[p].at IN
    /\ event \in {"workersFinished", "fail", "deadline", "cancel"}
    /\ IF Accepts(run.phase, event)
       THEN /\ run' = [run EXCEPT !.phase = Applied(@, event)]
            /\ Preserves(run'.phase)
       ELSE UNCHANGED <<run, lease>>
    /\ Ends(p)
    /\ UNCHANGED <<execution, iteration, proposals, step, trouble>>

ContinueAllowed ==
    run.iteration < MaxIterations /\ run.workers + 1 <= MaxTotalWorkers
MayContinue == ContinueAllowed /\ trouble = {}

NextIteration(phase) == run' = [run EXCEPT !.phase = phase, !.iteration = @ + 1]
Become(phase) == run' = [run EXCEPT !.phase = phase]

Consumable(d) ==
    /\ run.phase = "VERIFYING"
    /\ d.iteration \in 1..run.iteration
    /\ iteration[d.iteration].decision = NoDecision

ApplyDecision(d) ==
    CASE d.action = "ACCEPT" -> Become(Applied("DECIDING", "accept"))
      [] d.action = "FAIL" -> Become(Applied("DECIDING", "fail"))
      [] d.action = "WAIT_FOR_HUMAN" -> Become(Applied("DECIDING", "wait"))
      [] d.action = "CONTINUE" ->
            IF MayContinue THEN NextIteration(Applied("DECIDING", "continue"))
            ELSE Become(Applied("DECIDING", "limitReached"))

(* consumeDecision(): a decision that was consumed, names another          *)
(* iteration or comes in another phase changes nothing.                    *)
Consume(p) ==
    LET d == step[Verifier(pass[p].iteration)].answer IN
    /\ pass[p].at = "consume"
    /\ d.action # "garbage"
    /\ IF Consumable(d)
       THEN /\ iteration' = [iteration EXCEPT ![d.iteration].decision = d]
            /\ ApplyDecision(d)
            /\ Preserves(run'.phase)
       ELSE UNCHANGED <<run, lease, iteration>>
    /\ Ends(p)
    /\ UNCHANGED <<execution, proposals, step, trouble>>

ConsumeThrows(p) ==
    /\ pass[p].at = "consume"
    /\ step[Verifier(pass[p].iteration)].answer.action = "garbage"
    /\ Goes(p, "refused")
    /\ UNCHANGED <<run, execution, lease, iteration, proposals, step, trouble>>

(* resolveWait(): an operator approves or denies what the verifier left to *)
(* a human.                                                                *)
ResolveWait(approve) ==
    /\ run.phase = "WAITING_FOR_HUMAN"
    /\ CASE ~approve -> Become(Applied(run.phase, "approvalDenied"))
         [] approve /\ ~MayContinue -> Become(Applied(run.phase, "limitReached"))
         [] approve /\ MayContinue ->
               NextIteration(Applied(Applied(run.phase, "approvalGranted"), "continue"))
    /\ Preserves(run'.phase)
    /\ UNCHANGED <<execution, iteration, proposals, step, trouble, pass>>
-----------------------------------------------------------------------------
(* The engine, the agents, operators and the clock.                        *)

Settled(s) == step[s].status = "COMPLETED"
                  \/ (step[s].status = "FAILED" /\ step[s].onFailure = "continue")

(* The attempt freezes the active revision; nothing asks the run.          *)
Claim(s) ==
    /\ execution.status = "RUNNING"
    /\ step[s].status \in {"READY", "RETRYING"}
    /\ \A d \in step[s].after : Settled(d)
    /\ step' = [step EXCEPT ![s].status = "RUNNING", ![s].outcome = "RUNNING",
                            ![s].attempts = @ + 1, ![s].frozen = execution.revision]
    /\ UNCHANGED <<run, execution, lease, iteration, proposals, trouble, pass>>

Answers(s) ==
    CASE s[1] = "planner" ->
            {[batch |-> b, iteration |-> (s[2] + slip.iteration),
              base |-> (step[s].frozen + slip.base)] : b \in Batches, slip \in Slips}
      [] s[1] = "verify" ->
            {[action |-> a, iteration |-> n] : a \in Actions, n \in {s[2], s[2] - 1}}
      [] OTHER -> {NoAnswer}

StepSucceeds(s) ==
    /\ step[s].outcome = "RUNNING"
    /\ \E answer \in Answers(s) :
           step' = [step EXCEPT ![s].status = "COMPLETED", ![s].outcome = "SUCCESS",
                                ![s].answer = answer]
    /\ UNCHANGED <<run, execution, lease, iteration, proposals, trouble, pass>>

RetriesLeft(s) == step[s].attempts <= step[s].retries

(* A failed attempt is retried while the execution runs and attempts are   *)
(* left; a step that may not fail ends the execution with it.              *)
StepFails(s) ==
    LET retry == execution.status = "RUNNING" /\ RetriesLeft(s) IN
    /\ step[s].outcome = "RUNNING"
    /\ step' = [step EXCEPT ![s].status = IF retry THEN "RETRYING" ELSE "FAILED",
                            ![s].outcome = "FAILED"]
    /\ IF retry \/ step[s].onFailure = "continue" THEN UNCHANGED execution
       ELSE FailExecution("step")
    /\ UNCHANGED <<run, lease, iteration, proposals, trouble, pass>>

CompletionHeld == run.phase \notin Terminal

(* Every step of the plan is settled and the loop does not hold.           *)
Complete ==
    /\ execution.status = "RUNNING" /\ ~CompletionHeld
    /\ \E s \in Steps : step[s].status # "absent"
    /\ \A s \in Steps : step[s].status = "absent" \/ Settled(s)
    /\ execution' = [execution EXCEPT !.status = "COMPLETED"]
    /\ UNCHANGED <<run, lease, iteration, proposals, step, trouble, pass>>

Cancel ==
    /\ execution.status = "RUNNING"
    /\ execution' = [execution EXCEPT !.status = "CANCELLED"]
    /\ step' = [s \in Steps |->
           IF step[s].status \in {"READY", "RUNNING", "RETRYING"}
           THEN [step[s] EXCEPT !.status = "CANCELLED",
                                !.outcome = IF @ = "RUNNING" THEN "CANCELLED" ELSE @]
           ELSE step[s]]
    /\ UNCHANGED <<run, lease, iteration, proposals, trouble, pass>>

(* Another authorised patch moves the active revision.                     *)
OperatorPatch ==
    /\ execution.status = "RUNNING" /\ execution.revision < MaxRevisions
    /\ execution' = [execution EXCEPT !.revision = @ + 1]
    /\ UNCHANGED <<run, lease, iteration, proposals, step, trouble, pass>>

(* approve(): activates the proposal in the transaction of the grant.      *)
ApproveBatch(k) ==
    /\ proposals[k].status = "PENDING"
    /\ IF execution.status = "RUNNING" /\ proposals[k].base = execution.revision
       THEN /\ proposals' = [proposals EXCEPT ![k].status = "ACCEPTED"]
            /\ execution' = [execution EXCEPT !.revision = @ + 1]
            /\ step' = Materialized(proposals[k].batch, proposals[k].iteration)
       ELSE /\ proposals' = [proposals EXCEPT ![k].status = "STALE"]
            /\ UNCHANGED <<execution, step>>
    /\ UNCHANGED <<run, lease, iteration, trouble, pass>>

DenyBatch(k) ==
    /\ proposals[k].status = "PENDING"
    /\ proposals' = [proposals EXCEPT ![k].status = "REJECTED"]
    /\ UNCHANGED <<run, execution, lease, iteration, step, trouble, pass>>

Trouble(t) ==
    /\ t \notin trouble
    /\ trouble' = trouble \cup {t}
    /\ UNCHANGED <<run, execution, lease, iteration, proposals, step, pass>>

Act(p) ==
    \/ Begin(p) \/ LookAtPlanner(p) \/ LookAtVerifier(p)
    \/ ReadWorkerStep(p) \/ ReadWorkerAttempt(p)
    \/ CreatePlannerStep(p)
    \/ SubmitThrows(p) \/ SubmitLimited(p) \/ SubmitStale(p)
    \/ \E effect \in Effects : \/ SubmitAccepted(p, effect)
                               \/ SubmitPending(p, effect)
                               \/ SubmitRefused(p, effect)
    \/ FailRunAndExecution(p) \/ Transition(p) \/ Consume(p) \/ ConsumeThrows(p)

Next ==
    \/ \E p \in Passes : Act(p)
    \/ \E approve \in BOOLEAN : ResolveWait(approve)
    \/ \E s \in Steps : Claim(s) \/ StepSucceeds(s) \/ StepFails(s)
    \/ Complete \/ Cancel \/ OperatorPatch
    \/ \E k \in DOMAIN proposals : ApproveBatch(k) \/ DenyBatch(k)
    \/ \E t \in Troubles : Trouble(t)

(* Recovery ticks run passes again and again; agents answer or their       *)
(* attempts expire; the loop's deadline passes, where it is among Troubles. *)
Fairness ==
    /\ \A p \in Passes : WF_vars(Act(p))
    /\ \A s \in Steps : WF_vars(Claim(s)) /\ WF_vars(StepSucceeds(s) \/ StepFails(s))
    /\ WF_vars(Complete)
    /\ WF_vars("late" \in Troubles /\ Trouble("late"))

Spec == Init /\ [][Next]_vars
LiveSpec == Spec /\ Fairness
-----------------------------------------------------------------------------
(* Properties.                                                             *)

(* The batch of an iteration was planned on the revision it is activated   *)
(* on: nothing came between the claim of the planner and the batch.        *)
BatchWasPlannedOnItsBase ==
    \A n \in Numbers : iteration[n].accepted # 0 =>
        iteration[n].accepted = step[Planner(n)].frozen + 1

(* Neither verifier nor human nor planner exceeds the frozen limits, and   *)
(* the counter is the number of workers that were admitted: `total' counts *)
(* them up to each iteration.                                              *)
LimitsHold ==
    /\ run.iteration <= MaxIterations /\ run.workers <= MaxTotalWorkers
    /\ \E total \in [0..MaxIterations -> 0..run.workers] :
           /\ total[0] = 0 /\ total[MaxIterations] = run.workers
           /\ \A n \in Numbers : total[n] = total[n - 1] + Len(iteration[n].batch)

(* A pass that asks for approval again asks for the same proposal.         *)
OneProposalPerIteration ==
    \A j, k \in DOMAIN proposals :
        proposals[j].iteration = proposals[k].iteration => j = k

(* Every further iteration was asked for by the verifier of the one before *)
(* it, itself or through the human it deferred to.                         *)
IterationsAreEarned ==
    \A n \in 2..run.iteration :
        iteration[n - 1].decision.action \in {"CONTINUE", "WAIT_FOR_HUMAN"}

(* The input that a verifier is frozen with holds the final outcome of     *)
(* every worker, also of the optional ones, and so does the decision.      *)
DecisionAfterItsWorkers ==
    \A n \in Numbers :
        /\ step[Verifier(n)].attempts > 0 =>
               \A s \in WorkersOf(iteration[n].batch, n) : Settled(s)
        /\ iteration[n].decision # NoDecision => iteration[n].accepted # 0

(* Iterations follow each other within the limits, each on one proposal,   *)
(* each earned by the decision before it, each decision after its workers. *)
IterationsAreSound ==
    /\ LimitsHold
    /\ OneProposalPerIteration
    /\ IterationsAreEarned
    /\ DecisionAfterItsWorkers

(* While the loop can still add work the execution is not completed.       *)
CompletedReleasesHold == execution.status = "COMPLETED" => run.phase \in Terminal

(* A run that ended by decision, failure or cancellation has preserved its *)
(* workspace, and a preserved workspace belongs to an ended run.           *)
EndedRunsPreserve ==
    /\ run.phase \in {"ACCEPTED", "FAILED", "CANCELLED"} => lease = "PRESERVED"
    /\ lease = "PRESERVED" => run.phase \in Terminal

(* How the loop, its workspace and its execution end fits together.        *)
EndsAreSound == CompletedReleasesHold /\ EndedRunsPreserve

(* Whatever passes still hold decisions about it, an ended run stays as it *)
(* ended, and a consumed decision is never consumed again.                 *)
EndedStaysEnded ==
    [][/\ run.phase \in Terminal => run' = run
       /\ \A n \in Numbers : iteration[n].decision # NoDecision =>
              iteration'[n].decision = iteration[n].decision]_vars

(* The deadline ends every loop, also one that waits for a human, for an   *)
(* approval or for an answer that names the wrong iteration.               *)
LoopEnds == <>(run.phase \in Terminal)

(* A run leaves WORKING for FAILED only because a required worker, or the  *)
(* execution, has failed for good.                                         *)
WorkingFailsForAWorker ==
    [][(run.phase = "WORKING" /\ run'.phase = "FAILED") =>
           \/ execution.status # "RUNNING"
           \/ \E s \in Steps : step[s].status = "FAILED" /\ step[s].onFailure = "stop"]_vars

(* A batch is refused as stale only when some other patch has moved the    *)
(* plan, not when its own proposal was approved.                           *)
ApprovedIsNotStale ==
    execution.reason = "stale base" =>
        \A k \in DOMAIN proposals :
            proposals[k].iteration = run.iteration => proposals[k].status # "ACCEPTED"

(* No worker is started once the limit is reached.                         *)
NoWorkersAfterLimit ==
    [][run.phase = "LIMIT_REACHED" =>
           \A s \in Tasks \X Numbers : step'[s].attempts = step[s].attempts]_vars

(* Every terminal run leaves its workspace preserved.                      *)
TerminalRunPreserves == run.phase \in Terminal => lease = "PRESERVED"

(* A verifier's answer settles the phase it was asked in.                  *)
AnswersAreSettled ==
    \A n \in Numbers :
        (run.phase = "VERIFYING" /\ run.iteration = n /\ step[Verifier(n)].outcome = "SUCCESS")
            ~> ~(run.phase = "VERIFYING" /\ run.iteration = n)
=============================================================================
