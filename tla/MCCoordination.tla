---------------------------- MODULE MCCoordination ----------------------------
(***************************************************************************)
(* A small team for model checking the coordination loop by itself.        *)
(***************************************************************************)
EXTENDS Coordination

OneWorker == {<<[task |-> "a", required |-> TRUE, retries |-> 0]>>}

Honest == {[iteration |-> 0, base |-> 0]}
=============================================================================
