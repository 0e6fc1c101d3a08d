------------------------------ MODULE MCServices ------------------------------
(***************************************************************************)
(* Services beside the control plane, on small instances: the budget       *)
(* ledger, plan activation, delegation, the event stream of an agent, the  *)
(* topics of Kafka, and runtime connections with their authorization       *)
(* flows.  Their modules have no variable in common, so nothing is lost by *)
(* exploring them one at a time: the initial state chooses the service     *)
(* that acts, and the others stay in their initial states.                 *)
(***************************************************************************)
EXTENDS Services, TLC

CONSTANTS
    p1, p2,         \* interchangeable proposals, delegations and begins
    t1, t2          \* interchangeable transactions of the ledger

VARIABLE service      \* the service that acts
-----------------------------------------------------------------------------
(* Two executions under one tenant, of which either fits under the tenant  *)
(* and both together do not; or an execution with two attempts and one it  *)
(* delegated, whose account is below its own.                              *)
Tree == [x \in Accounts |-> CASE x = "root" -> <<x>>
                              [] x = "child" -> <<x, "left", "root">>
                              [] OTHER -> <<x, "root">>]
Owner == [x \in Actions |-> CASE x = "x2" -> "right" [] x = "x4" -> "child" [] OTHER -> "left"]
Tokens == <<"tokens">>
Tight == [x \in Accounts |-> [d \in Dims |-> CASE x = "child" -> 1 [] x = "right" -> 2
                                               [] OTHER -> 3]]
Needs == [x \in Actions |-> [d \in Dims |-> IF x \in {"x3", "x4"} THEN 1 ELSE 2]]
Acted(x) ==
    \E t \in Transactions : /\ tx'[t] # Idle
                            /\ tx'[t].request.op # "adjust"
                            /\ tx'[t].request.action = x
Siblings == Next /\ ~Acted("x4")
Delegated == Next /\ ~Acted("x2") /\ ~Acted("x3")

(* Results that report nothing, less and more than was reserved.           *)
UsesNoneSomeMore == [Dims -> {0, 1, 3}]
AdjustSome == [x \in Accounts |-> CASE x = "root" -> {-1} [] x = "left" -> {1} [] OTHER -> {}]
-----------------------------------------------------------------------------
Works(deps) == [after |-> deps, planner |-> FALSE, conditional |-> FALSE, v |-> 1]
Reworked(deps) == [Works(deps) EXCEPT !.v = 2]
Planner(deps) == [Works(deps) EXCEPT !.planner = TRUE]
Maybe(deps) == [Works(deps) EXCEPT !.conditional = TRUE]
Add(s, spec) == [op |-> "addStep", id |-> s, spec |-> spec]
Replace(s, spec) == [op |-> "replaceUnfrozenStep", id |-> s, spec |-> spec]

(* A planner, and a step that waits for it.                                *)
PlannerFirst == [s \in {"a", "b"} |-> IF s = "a" THEN Planner({}) ELSE Maybe({"a"})]

(* Add a step and make one wait for it, or wait for a planner that is      *)
(* added after it.                                                         *)
PlannerPatches == {
    <<Add("c", Works({"a"})), Replace("b", Reworked({"a", "c"}))>>,
    <<Replace("b", Reworked({"c"})), Add("c", Planner({}))>>}

(* A worker that emits two events and forgets, or a runtime that numbers   *)
(* two events alike and reuses the id of another.                          *)
ForeignEvent(id, seq, type) == [id |-> id, seq |-> seq, type |-> type, run |-> 0]

TwoForeign == {ForeignEvent(9, 1, "heartbeat"), ForeignEvent(9, 2, "accepted"),
               ForeignEvent(8, 1, "progress")}
TwoThenOne == <<2, 1>>

(* Connections with two begins and two completions, with room for one flow *)
(* among the two providers; or with a flow that is resumed while a probe   *)
(* measures revisions.                                                     *)
Racing == Connections!Next /\ card'.revision <= 2 /\ <<test', resume'>> = <<test, resume>>
Probing ==
    /\ Connections!Next
    /\ \E b \in Begins : begin'[b].stage = "unused"
    /\ \A b \in Begins : begin'[b].provider # "q2"
    /\ complete'["c2"].stage = "unused"
-----------------------------------------------------------------------------
MCInit ==
    /\ service \in {"siblings", "delegated", "plan", "delegation", "events", "flows", "probe",
                   "kafka"}
    /\ Init
    /\ Plans!Init
    /\ Delegates!Init
    /\ Events!Init
    /\ Connections!Init
    /\ Kafka!Init
    /\ service # "delegation" => grant["root"] = 0
    /\ service # "events" => emitted = {}

Others(changed) ==
    /\ UNCHANGED service
    /\ changed # "ledger" => UNCHANGED vars
    /\ changed # "plan" => UNCHANGED planVars
    /\ changed # "delegation" => UNCHANGED delegationVars
    /\ changed # "events" => UNCHANGED eventVars
    /\ changed # "connections" => UNCHANGED connectionVars
    /\ changed # "kafka" => UNCHANGED kafkaVars

MCNext ==
    \/ service = "siblings" /\ Siblings /\ Others("ledger")
    \/ service = "delegated" /\ Delegated /\ Others("ledger")
    \/ service = "plan" /\ Plans!Next /\ Others("plan")
    \/ service = "delegation" /\ Delegates!Next /\ Others("delegation")
    \/ service = "events" /\ Events!Next /\ Others("events")
    \/ service = "flows" /\ Racing /\ Others("connections")
    \/ service = "probe" /\ Probing /\ Others("connections")
    \/ service = "kafka" /\ Kafka!Next /\ Others("kafka")

mcVars ==
    <<service, vars, planVars, delegationVars, eventVars, connectionVars, kafkaVars>>
MCSpec == MCInit /\ [][MCNext]_mcVars

(* The ledger alone.                                                       *)
LedgerSpec == MCInit /\ service \in {"siblings", "delegated"} /\ [][MCNext]_mcVars

Alike == Permutations({p1, p2}) \cup Permutations({t1, t2})
=============================================================================
