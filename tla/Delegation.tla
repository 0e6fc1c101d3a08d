------------------------------ MODULE Delegation ------------------------------
(***************************************************************************)
(* Supervised delegation (delegation.service.ts): an attempt asks for work *)
(* to be delegated, an operator approves or rejects the request, and an    *)
(* approval creates a child execution in the same transaction.  Children   *)
(* may delegate again.  The recovery tick of every replica expires         *)
(* requests and cancels the running children of cancelled parents.         *)
(*                                                                         *)
(* A request names its child execution, so executions are the root and the *)
(* requests.  Time is a counter; a deadline of Never is no deadline.  Of   *)
(* the engine and the API only what decides over a delegation is kept: the *)
(* claim of attempts under an authority deadline, and how executions end.  *)
(***************************************************************************)
EXTENDS Integers, Sequences, FiniteSets, SequencesExt

CONSTANTS
    Root,           \* the execution nobody delegated
    Requests,       \* request rows, each with the child it may get
    Ordinals,       \* the attempts an execution may make
    MaxDepth,       \* DELEGATION_BOUNDS.maxDepth
    RunDepth,       \* delegationDepthMax of the coordination run
    MaxPerAttempt,  \* DELEGATION_BOUNDS.maxRequestsPerAttempt
    Grants,         \* positive budget ceilings; 0 is an execution without one
    MaxTime,        \* the bound of the clock
    Replicas,       \* processes that run the recovery tick
    SweepLimit      \* how many orphans, or due requests, one tick takes; positive

Executions == {Root} \cup Requests
Times == 0..MaxTime
Never == MaxTime + 1
Deadlines == 1..Never

VARIABLES
    now,        \* the clock
    status,     \* of each execution; "none" before it is created
    authority,  \* authorityDeadlineAt of each execution
    grant,      \* the budget ceiling of each execution
    attempt,    \* the attempts of each execution, with their deadlines
    request,    \* the rows of delegation_requests
    created,    \* requests in the order they were made
    sweep       \* what the tick of each replica does

vars == <<now, status, authority, grant, attempt, request, created, sweep>>

Live == {"PENDING", "RUNNING"}
Ended == {"COMPLETED", "FAILED", "CANCELLED"}
Open == {"PENDING", "APPROVED"}
Decisions == {"APPROVED", "REJECTED", "EXPIRED"}

NoAttempt == [status |-> "none", deadline |-> Never]
NoRequest == [status |-> "none", parent |-> Root, by |-> 0, depth |-> 0,
              expires |-> Never, deadline |-> Never]
Idle == [phase |-> "idle", orphans |-> <<>>]
-----------------------------------------------------------------------------
(* parentDepth: the depth at which an execution was itself delegated.      *)
Depth(e) == IF e \in Requests THEN request[e].depth ELSE 0

ChildDepth(e) == Depth(e) + 1

(* The depth of the coordination run binds every descendant of the run.    *)
DepthLimit == IF RunDepth < MaxDepth THEN RunDepth ELSE MaxDepth

(* Requests that count against the fanout of an attempt.                   *)
LiveRequests(e, k) ==
    {r \in Requests : /\ request[r].status \in Open
                      /\ request[r].parent = e
                      /\ request[r].by = k}
(* A request row is inserted once: repeating it answers what is stored.    *)
Ask(r, e, k, expires) ==
    /\ attempt[e][k].status # "none"
    /\ request[r].status = "none"
    /\ Cardinality(LiveRequests(e, k)) < MaxPerAttempt
    /\ ChildDepth(e) <= DepthLimit
    /\ request' = [request EXCEPT ![r] =
           [status |-> "PENDING", parent |-> e, by |-> k, depth |-> ChildDepth(e),
            expires |-> expires, deadline |-> attempt[e][k].deadline]]
    /\ created' = Append(created, r)
    /\ UNCHANGED <<now, status, authority, grant, attempt, sweep>>
-----------------------------------------------------------------------------
(* decide: only a request that is still pending gets a decision.           *)
Decided(r, decision) ==
    [request EXCEPT ![r].status = IF @ = "PENDING" THEN decision ELSE @]
TooLate(r) == request[r].expires <= now \/ request[r].deadline <= now

(* assertBudgetSubset: a budget must be within the parent's.               *)
WithinGrant(r, g) == g = 0 \/ g <= grant[request[r].parent]
(* approve, when it refuses: too late, too deep, denied by policy, or with *)
(* a budget beyond the parent's.                                           *)
ApproveInVain(r) ==
    /\ request[r].status = "PENDING"
    /\ \/ TooLate(r) /\ request' = Decided(r, "EXPIRED")
       \/ ~TooLate(r) /\ request' = Decided(r, "REJECTED")
    /\ UNCHANGED <<now, status, authority, grant, attempt, created, sweep>>

(* approve: child execution, plan and steps come with the decision.        *)
Approve(r, g) ==
    /\ request[r].status = "PENDING"
    /\ ~TooLate(r)
    /\ request[r].depth <= MaxDepth
    /\ WithinGrant(r, g)
    /\ status' = [status EXCEPT ![r] = "PENDING"]
    /\ authority' = [authority EXCEPT ![r] = request[r].deadline]
    /\ grant' = [grant EXCEPT ![r] = g]
    /\ request' = Decided(r, "APPROVED")
    /\ UNCHANGED <<now, attempt, created, sweep>>

Reject(r) ==
    /\ request[r].status = "PENDING"
    /\ request' = Decided(r, "REJECTED")
    /\ UNCHANGED <<now, status, authority, grant, attempt, created, sweep>>
-----------------------------------------------------------------------------
(* The execution engine.                                                   *)
Begin(e) ==
    /\ status[e] = "PENDING"
    /\ status' = [status EXCEPT ![e] = "RUNNING"]
    /\ UNCHANGED <<now, authority, grant, attempt, request, created, sweep>>

MutantOwnDeadline(e, own) == own

(* The deadline of an attempt is its step's or its execution's, whichever  *)
(* comes first.                                                            *)
AttemptDeadline(e, own) == IF own < authority[e] THEN own ELSE authority[e]
Claim(e, k, own) ==
    /\ status[e] = "RUNNING"
    /\ authority[e] > now
    /\ own > now
    /\ attempt[e][k].status = "none"
    /\ attempt' = [attempt EXCEPT ![e][k] =
           [status |-> "ACTIVE", deadline |-> AttemptDeadline(e, own)]]
    /\ UNCHANGED <<now, status, authority, grant, request, created, sweep>>

(* A claim after the authority deadline fails the execution.               *)
ClaimTooLate(e) ==
    /\ status[e] = "RUNNING"
    /\ authority[e] <= now
    /\ status' = [status EXCEPT ![e] = "FAILED"]
    /\ UNCHANGED <<now, authority, grant, attempt, request, created, sweep>>

(* An attempt ends by its result or by its deadline.                       *)
AttemptEnds(e, k) ==
    /\ attempt[e][k].status = "ACTIVE"
    /\ attempt' = [attempt EXCEPT ![e][k].status = "ENDED"]
    /\ UNCHANGED <<now, status, authority, grant, request, created, sweep>>

Working(e) == \E k \in Ordinals : attempt[e][k].status = "ACTIVE"

(* A run that fails does not wait for its other attempts.                  *)
Finish(e, outcome) ==
    /\ status[e] = "RUNNING"
    /\ outcome = "COMPLETED" => ~Working(e)
    /\ status' = [status EXCEPT ![e] = outcome]
    /\ UNCHANGED <<now, authority, grant, attempt, request, created, sweep>>

(* cancelExecution: the execution and all its active attempts.             *)
Cancelled(e) ==
    /\ status' = [status EXCEPT ![e] = IF @ \in Live THEN "CANCELLED" ELSE @]
    /\ attempt' = [attempt EXCEPT ![e] =
           [k \in Ordinals |->
               IF status[e] \in Live /\ @[k].status = "ACTIVE"
               THEN [@[k] EXCEPT !.status = "ENDED"] ELSE @[k]]]

Cancel(e) ==
    /\ status[e] \in Live
    /\ Cancelled(e)
    /\ UNCHANGED <<now, authority, grant, request, created, sweep>>
-----------------------------------------------------------------------------
(* The recovery tick: expireDue, then cancelOrphans.                       *)
Due == {r \in Requests : request[r].status = "PENDING" /\ request[r].expires <= now}

ExpireDue(p) ==
    /\ sweep[p].phase = "idle"
    /\ \E rows \in SUBSET Due :
           /\ \/ rows = Due /\ Cardinality(Due) <= SweepLimit
              \/ Cardinality(Due) > SweepLimit /\ Cardinality(rows) = SweepLimit
           /\ request' = [r \in Requests |->
                  IF r \in rows THEN [request[r] EXCEPT !.status = "EXPIRED"]
                  ELSE request[r]]
    /\ sweep' = [sweep EXCEPT ![p].phase = "expired"]
    /\ UNCHANGED <<now, status, authority, grant, attempt, created>>

Orphan(r) ==
    /\ request[r].status = "APPROVED"
    /\ status[request[r].parent] = "CANCELLED"
    /\ status[r] \in Live
Taken(rows) == IF Len(rows) > SweepLimit THEN SubSeq(rows, 1, SweepLimit) ELSE rows

MutantTakesBeforeItFilters == SelectSeq(Taken(created), Orphan)

(* The oldest orphans, as one query sees them.                             *)
Window == Taken(SelectSeq(created, Orphan))

Scan(p) ==
    /\ sweep[p].phase = "expired"
    /\ sweep' = [sweep EXCEPT ![p] = [phase |-> "cancelling", orphans |-> Window]]
    /\ UNCHANGED <<now, status, authority, grant, attempt, request, created>>

Rest(p) == [sweep EXCEPT ![p].orphans = Tail(@)]

(* Every cancellation is a transaction of its own.                         *)
CancelOrphan(p, r) ==
    /\ sweep[p].orphans # <<>>
    /\ r = Head(sweep[p].orphans)
    /\ Cancelled(r)
    /\ sweep' = Rest(p)
    /\ UNCHANGED <<now, authority, grant, request, created>>

(* One that fails is logged; a later tick finds the orphan again.          *)
SkipOrphan(p) ==
    /\ sweep[p].orphans # <<>>
    /\ sweep' = Rest(p)
    /\ UNCHANGED <<now, status, authority, grant, attempt, request, created>>

(* The tick is over, or its process has died.                              *)
EndTick(p) ==
    /\ sweep[p].phase = "cancelling"
    /\ sweep[p].orphans = <<>>
    /\ sweep' = [sweep EXCEPT ![p] = Idle]
    /\ UNCHANGED <<now, status, authority, grant, attempt, request, created>>

Crash(p) ==
    /\ sweep[p].phase # "idle"
    /\ sweep' = [sweep EXCEPT ![p] = Idle]
    /\ UNCHANGED <<now, status, authority, grant, attempt, request, created>>

Tick ==
    /\ now < MaxTime
    /\ now' = now + 1
    /\ UNCHANGED <<status, authority, grant, attempt, request, created, sweep>>
-----------------------------------------------------------------------------
Init ==
    /\ now = 0
    /\ status = [e \in Executions |-> IF e = Root THEN "PENDING" ELSE "none"]
    /\ authority = [e \in Executions |-> Never]
    /\ grant \in [Executions -> Grants \cup {0}] /\ \A r \in Requests : grant[r] = 0
    /\ attempt = [e \in Executions |-> [k \in Ordinals |-> NoAttempt]]
    /\ request = [r \in Requests |-> NoRequest]
    /\ created = <<>>
    /\ sweep = [p \in Replicas |-> Idle]

Next ==
    \/ Tick
    \/ \E r \in Requests, e \in Executions, k \in Ordinals, d \in Deadlines :
           Ask(r, e, k, d)
    \/ \E r \in Requests, g \in Grants \cup {0} : Approve(r, g)
    \/ \E r \in Requests : ApproveInVain(r) \/ Reject(r)
    \/ \E e \in Executions : Begin(e) \/ ClaimTooLate(e) \/ Cancel(e)
    \/ \E e \in Executions, k \in Ordinals :
           AttemptEnds(e, k) \/ \E own \in Deadlines : Claim(e, k, own)
    \/ \E e \in Executions, outcome \in {"COMPLETED", "FAILED"} : Finish(e, outcome)
    \/ \E p \in Replicas :
           \/ ExpireDue(p)
           \/ Scan(p)
           \/ \E r \in Requests : CancelOrphan(p, r)
           \/ SkipOrphan(p)
           \/ EndTick(p)
           \/ Crash(p)

Spec == Init /\ [][Next]_vars

(* Every replica ticks for ever and does not die in every tick, no         *)
(* cancellation fails for ever, and time passes.                           *)
Fairness ==
    /\ WF_vars(Tick)
    /\ \A p \in Replicas :
           /\ WF_vars(ExpireDue(p))
           /\ SF_vars(Scan(p))
           /\ WF_vars(EndTick(p))
           /\ \A r \in Requests : SF_vars(CancelOrphan(p, r))

FairSpec == Spec /\ Fairness
-----------------------------------------------------------------------------
TypeOK ==
    /\ now \in Times
    /\ status \in [Executions -> {"none"} \cup Live \cup Ended]
    /\ authority \in [Executions -> 0..Never]
    /\ grant \in [Executions -> Grants \cup {0}]
    /\ attempt \in [Executions -> [Ordinals ->
           [status : {"none", "ACTIVE", "ENDED"}, deadline : 0..Never]]]
    /\ request \in [Requests ->
           [status : {"none", "PENDING"} \cup Decisions, parent : Executions,
            by : Ordinals \cup {0}, depth : Nat, expires : 0..Never,
            deadline : 0..Never]]
    /\ created \in Seq(Requests)
    /\ sweep \in [Replicas -> [phase : {"idle", "expired", "cancelling"},
                              orphans : Seq(Requests)]]

(* Whoever approves whatever in whichever order, delegated work never has  *)
(* more authority than the attempt that asked for it: no attempt of a      *)
(* child may run past the deadline of the attempt that delegated it, no    *)
(* budget exceeds the parent's, and no chain is deeper than its run        *)
(* allows.                                                                 *)
DelegatedWithinParent ==
    \A r \in Requests : status[r] # "none" =>
        LET parent == request[r].parent
        IN /\ status[parent] # "none"
           /\ \A k \in Ordinals :
                  attempt[r][k].deadline <= attempt[parent][request[r].by].deadline
                  \/ attempt[r][k].status = "none"
           /\ grant[r] <= grant[parent]
           /\ Depth(parent) < Depth(r) /\ Depth(r) <= DepthLimit

(* A child exists exactly for an approved request, and no attempt has more *)
(* live requests than it may, although decisions, expiry by any replica    *)
(* and new requests race.                                                  *)
ChildrenAreApproved ==
    /\ \A r \in Requests : status[r] # "none" <=> request[r].status = "APPROVED"
    /\ \A e \in Executions, k \in Ordinals :
           Cardinality({r \in Requests : /\ request[r].parent = e
                                         /\ request[r].by = k
                                         /\ request[r].status \in Open}) <= MaxPerAttempt

DelegationsAreSound == DelegatedWithinParent /\ ChildrenAreApproved

(* The decision over a request is final.                                   *)
DecisionsFinal ==
    [][\A r \in Requests : request[r].status \in Decisions =>
           request'[r] = request[r]]_vars

(* A cancelled parent leaves no running child: however many orphans wait   *)
(* and whichever cancellations fail, later ticks come to every one.        *)
OrphansEnd ==
    \A r \in Requests :
        (status[r] # "none" /\ status[request[r].parent] = "CANCELLED")
            ~> status[r] \in Ended

(* Every request whose time passes is decided.                             *)
DueAreDecided ==
    \A r \in Requests :
        (request[r].status = "PENDING" /\ request[r].expires < Never)
            ~> request[r].status \in Decisions
=============================================================================
