----------------------------- MODULE MCWorkspaces -----------------------------
(***************************************************************************)
(* The coordination loop, and workspace leases with their release, on      *)
(* small instances.  The loop, the lifecycle of the leases and the         *)
(* protocol of one release have no variable in common, so nothing is lost  *)
(* by exploring them one at a time: the initial state chooses the instance *)
(* that acts, and the others stay in their initial states.                 *)
(***************************************************************************)
EXTENDS Workspaces, TLC

CONSTANTS o1, o2, c1, c2, p1, p2

VARIABLE part      \* the instance that acts
-----------------------------------------------------------------------------
OneProcess == [c \in Callers |-> "p1"]

(* The release by two keys: others see a claim before its holder does, the *)
(* last transaction may fail, and the process may die.                     *)
TwoKeys == [keys |-> {o1, o2}, ended |-> FALSE, passing |-> FALSE, gap |-> TRUE,
            failing |-> TRUE, crashes |-> 1]

(* The release by one key, delivered twice to a process that dies twice;   *)
(* or to a process that dies, with a last transaction that may fail.       *)
OneKey(o) == [TwoKeys EXCEPT !.keys = {o}, !.gap = FALSE, !.failing = FALSE, !.crashes = 2]
OneFails(o, gap) == [OneKey(o) EXCEPT !.gap = gap, !.failing = TRUE, !.crashes = 1]

(* The release by one key of a workspace whose run may still live, or has  *)
(* ended before, while start commands reconcile.                           *)
Reconciled(o, ended) ==
  [OneKey(o) EXCEPT !.ended = ended, !.passing = TRUE, !.crashes = 0]

Surroundings ==
  {TwoKeys} \cup {OneKey(o) : o \in Ops}
            \cup {OneFails(o, gap) : o \in Ops, gap \in BOOLEAN}
            \cup {Reconciled(o, ended) : o \in Ops, ended \in BOOLEAN}

(* Two start commands at once; or one that is delivered again past the age *)
(* at which reconciliation gives up what it finds.                         *)
Commands == ("t1" :> "s1") @@ ("t2" :> "s2")
TwoAtOnce == [threads |-> {"t1", "t2"}, aging |-> FALSE, overlap |-> FALSE]
OneAgain == [threads |-> {"t1"}, aging |-> TRUE, overlap |-> FALSE]
Deliveries == {TwoAtOnce, OneAgain}

(* A team of a required worker, or of a retried and an optional one, with  *)
(* planners and verifiers that misstate their iteration or their base.     *)
Worker(task, required, retries) ==
    [task |-> task, required |-> required, retries |-> retries]
Teams == {<<Worker("a", TRUE, 0)>>, <<Worker("a", TRUE, 1), Worker("b", FALSE, 1)>>}
Misstatements == {[iteration |-> i, base |-> b] : i, b \in {0, 1}}
                     \ {[iteration |-> 1, base |-> 1]}
-----------------------------------------------------------------------------
(* A release that does not act.                                            *)
ReleaseRests ==
    Init /\ setting = TwoKeys /\ lease.state = "IN_USE" /\ tree = "there"

(* Leases that do not move.                                                *)
LeasesRest == Leases!Init /\ leaseSetting = OneAgain

MCInit ==
    /\ Team!Init
    /\ \/ part = "leases" /\ Leases!Init /\ ReleaseRests
       \/ part = "release" /\ LeasesRest /\ Init
       \/ part = "team" /\ LeasesRest /\ ReleaseRests

MCNext ==
    \/ part = "leases" /\ Leases!Next /\ UNCHANGED <<part, vars, teamVars>>
    \/ part = "release" /\ Next /\ UNCHANGED <<part, leaseVars, teamVars>>
    \/ part = "team" /\ Team!Next /\ UNCHANGED <<part, vars, leaseVars>>

MCSpec == MCInit /\ [][MCNext]_<<part, vars, leaseVars, teamVars>>

(* One process serves both callers, so they are alike.                     *)
Alike == Permutations({o1, o2}) \cup Permutations({c1, c2}) \cup Permutations({p1, p2})
=============================================================================
