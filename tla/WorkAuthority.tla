---------------------------- MODULE WorkAuthority ----------------------------
(***************************************************************************)
(* What the control plane promises of one execution, whatever its passes,  *)
(* dispatch loops, workers, operators and clocks do: a ledger of the       *)
(* authority to work.  Leases, tokens, inbox rows, passes and transactions *)
(* do not appear here.                                                     *)
(*                                                                         *)
(* An invocation is authorized at most once, in the order of its step's    *)
(* attempts and only behind failures, while the run is open or an approval *)
(* it waited for arrives.  It is settled once and for good, and what it    *)
(* holds of the budget is given back in that very step.  A run ends once,  *)
(* and ends as completed only when no work is left and none was cancelled. *)
(***************************************************************************)
EXTENDS Naturals

CONSTANTS
    Steps,      \* step ids of the plan
    Bound,      \* bound on the attempts of a step
    Budgeted    \* the steps whose work is reserved in the budget

VARIABLES
    run,        \* "open", or how the run has ended
    work,       \* [Invocations -> WorkStates]
    held        \* the invocations whose reservation is held

ledger == <<run, work, held>>

Invocations == Steps \X (1..Bound)
WorkStates == {"none", "waiting", "authorized", "succeeded", "failed", "cancelled"}
Ends == {"COMPLETED", "FAILED", "CANCELLED"}

Init ==
    /\ run = "open"
    /\ work = [i \in Invocations |-> "none"]
    /\ held = {}

Unfinished(i) == work[i] \in {"waiting", "authorized"}

(* The next attempt of a step comes after failed ones only.                *)
InTurn(i) ==
    /\ work[i] = "none"
    /\ \A n \in 1..Bound : n < i[2] => work[<<i[1], n>>] = "failed"

Reserve(i) == held' = IF i[1] \in Budgeted THEN held \cup {i} ELSE held

(* Work is authorized, or has to wait for an approval.                     *)
Authorize(i) ==
    /\ run = "open"
    /\ InTurn(i)
    /\ work' = [work EXCEPT ![i] = "authorized"]
    /\ Reserve(i)
    /\ UNCHANGED run

Ask(i) ==
    /\ run = "open"
    /\ InTurn(i)
    /\ work' = [work EXCEPT ![i] = "waiting"]
    /\ UNCHANGED <<run, held>>

(* The approval arrives, maybe after the end of the run.                   *)
Grant(i) ==
    /\ work[i] = "waiting"
    /\ work' = [work EXCEPT ![i] = "authorized"]
    /\ Reserve(i)
    /\ UNCHANGED run

(* The run may end by what a step has come to.                             *)
EndsBy(end) == run' \in {run, IF run = "open" THEN end ELSE run}

(* An invocation is refused before it has any authority.                   *)
Refuse(i) ==
    /\ (run = "open" /\ InTurn(i)) \/ work[i] = "waiting"
    /\ work' = [work EXCEPT ![i] = "failed"]
    /\ EndsBy("FAILED")
    /\ UNCHANGED held

(* Authorized work is settled and gives back what it held.                 *)
Settle(i) ==
    /\ work[i] = "authorized"
    /\ held' = held \ {i}
    /\ \/ work' = [work EXCEPT ![i] = "succeeded"] /\ UNCHANGED run
       \/ work' = [work EXCEPT ![i] = "failed"] /\ EndsBy("FAILED")
       \/ work' = [work EXCEPT ![i] = "cancelled"] /\ EndsBy("CANCELLED")

(* A cancellation ends the run and the work it found; work that was        *)
(* authorized while it gathered what to cancel is settled later.           *)
Cancel ==
    /\ run = "open"
    /\ work' \in [Invocations -> WorkStates]
    /\ \A i \in Invocations :
           work'[i] = work[i] \/ (Unfinished(i) /\ work'[i] = "cancelled")
    /\ held' = {i \in held : work'[i] # "cancelled"}
    /\ run' = "CANCELLED"

Fail ==
    /\ run = "open"
    /\ run' = "FAILED"
    /\ UNCHANGED <<work, held>>

Complete ==
    /\ run = "open"
    /\ \A i \in Invocations : work[i] \in {"none", "succeeded", "failed"}
    /\ run' = "COMPLETED"
    /\ UNCHANGED <<work, held>>

Next ==
    \/ \E i \in Invocations :
           Authorize(i) \/ Ask(i) \/ Grant(i) \/ Refuse(i) \/ Settle(i)
    \/ Cancel
    \/ Fail
    \/ Complete

Spec == Init /\ [][Next]_ledger

=============================================================================
