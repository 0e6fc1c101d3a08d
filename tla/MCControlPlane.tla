---------------------------- MODULE MCControlPlane ----------------------------
(***************************************************************************)
(* Small plans for model checking the control plane.                       *)
(***************************************************************************)
EXTENDS ControlPlane

CONSTANTS s1, s2

(* Dependencies: independent steps, or s2 after s1.                        *)
Independent == [s \in Steps |-> {}]
Chain == [s \in Steps |-> IF s = s2 THEN {s1} ELSE {}]

(* Failure policies and attempt budgets.                                   *)
AllStop == [s \in Steps |-> "stop"]
RetryThenStop == [s \in Steps |-> IF s = s1 THEN "retry" ELSE "stop"]
ContinueThenStop == [s \in Steps |-> IF s = s1 THEN "continue" ELSE "stop"]
OneEach == [s \in Steps |-> 1]
TwoThenOne == [s \in Steps |-> IF s = s1 THEN 2 ELSE 1]

(* What the step configurations declare.                                   *)
Bare == [s \in Steps |-> {}]
Pinned == [s \in Steps |-> IF s = s1 THEN {"pinned"} ELSE {}]
Deadlines == [s \in Steps |-> {"timeout"}]
Budgeted == [s \in Steps |-> {"budget", "timeout"}]
Guarded == [s \in Steps |-> {"policy", "budget", "capability", "timeout"}]
Checked == [s \in Steps |-> IF s = s1
                            THEN {"projection", "postcondition", "timeout", "supervised"}
                            ELSE {"condition", "template"}]
Governed == [s \in Steps |-> IF s = s1
                            THEN {"projection", "postcondition", "timeout", "supervised"}
                            ELSE {"condition", "template", "policy", "capability", "budget"}]
=============================================================================
