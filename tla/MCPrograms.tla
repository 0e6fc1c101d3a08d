------------------------------ MODULE MCPrograms ------------------------------
(***************************************************************************)
(* The programs that run beside the orchestrator, on small instances: a    *)
(* worker of either SDK, either local executor host and the recovery from a*)
(* backup.  Their modules have no variable in common, so nothing is lost   *)
(* by exploring them one at a time: the initial state chooses the program  *)
(* that acts, and the others stay in their initial states.                 *)
(***************************************************************************)
EXTENDS Programs

VARIABLE program    \* the program that acts
-----------------------------------------------------------------------------
(* Two agents, one of which gets two invocations; for the host in Rust, an *)
(* invocation delivered twice.                                             *)
TwoAgents == <<"a", "b">>
TwoForOne == [r \in HostRuns |-> IF r = "e3" THEN "b" ELSE "a"]
Twice == [r \in Requests |-> "i"]

(* Two operators who restore three dumps in all.  One who is told how to   *)
(* recover by hand does so where reconciliation would do the same.         *)
TwoFailures == <<"failed", "failed_1">>
-----------------------------------------------------------------------------
(* The Python worker emits events or not.  One that does accepts fewer     *)
(* runs, and sends a body once (EventRuns, EventAttempts).                 *)
MCInit ==
    /\ program \in {"worker", "python", "host", "native host", "swap"}
    /\ Init
    /\ Python!Init
    /\ Host!Init
    /\ Native!Init
    /\ Swap!Init
    /\ program # "python" => ~pyEnabled

Others(changed) ==
    /\ UNCHANGED program
    /\ changed # "worker" => UNCHANGED vars
    /\ changed # "python" => UNCHANGED pythonVars
    /\ changed # "host" => UNCHANGED hostVars
    /\ changed # "native" => UNCHANGED nativeVars
    /\ changed # "swap" => UNCHANGED swapVars

MCNext ==
    \/ program = "worker" /\ Next /\ Others("worker")
    \/ program = "python" /\ Python!Next /\ Others("python")
    \/ program = "host" /\ Host!Next /\ Others("host")
    \/ program = "native host" /\ Native!Next /\ Others("native")
    \/ program = "swap" /\ Swap!Next /\ Others("swap")

MCSpec == MCInit /\ [][MCNext]_<<program, vars, pythonVars, hostVars, nativeVars, swapVars>>

(* Invocations and runs of the worker are interchangeable.                 *)
Symmetry == Permutations(Invocations) \cup Permutations(Runs)
=============================================================================
