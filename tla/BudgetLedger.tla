----------------------------- MODULE BudgetLedger -----------------------------
(***************************************************************************)
(* The budget ledger: a tree of accounts, each with a grant per dimension, *)
(* and append-only entries from which the availability of an account is    *)
(* projected.  A reservation debits its account and every ancestor.        *)
(*                                                                         *)
(* A transaction locks the rows of its account chain FOR UPDATE one by     *)
(* one, child first, then reads what is available, then writes; other      *)
(* transactions come in between.  What it wrote is seen when it commits.   *)
(* Two more locks stand around the chain: the row of the execution, which  *)
(* the callers lock, and the KEY SHARE lock that the foreign key of an     *)
(* inserted row takes on the row it refers to.                             *)
(***************************************************************************)
EXTENDS Integers, Sequences, SequencesExt, FiniteSetsExt

CONSTANTS
    Accounts,
    Chain,          \* account -> itself, its parent, ..., the root
    Dimensions,     \* a sequence: the order in which a step declares them
    Ceiling,        \* account -> dimension -> grant (0: none declared)
    Operated,       \* accounts the operator creates; a claim creates the others
    Actions,        \* attempts: the actionRef of a reservation
    Account,        \* action -> account of its execution
    Need,           \* action -> dimension -> amount its step declares
    Deltas,         \* account -> corrections the operator may apply to it
    AdjustBound,    \* bounds their total per account
    Usages,         \* what a result may report: dimension -> amount, 0: nothing
    Transactions

Dims == ToSet(Dimensions)

ASSUME ChainAssumption ==
    /\ Chain \in [Accounts -> Seq(Accounts)]
    /\ \A a \in Accounts :
           /\ Len(Chain[a]) >= 1
           /\ Chain[a][1] = a
           /\ Len(Chain[a]) > 1 => Tail(Chain[a]) = Chain[Chain[a][2]]

ASSUME AmountAssumption ==
    /\ Dimensions \in Seq(Dims)
    /\ Ceiling \in [Accounts -> [Dims -> Nat]]
    /\ Account \in [Actions -> Accounts]
    /\ Need \in [Actions -> [Dims -> Nat \ {0}]]
    /\ \A a \in Accounts : Deltas[a] \subseteq Int \ {0}
    /\ Usages \subseteq [Dims -> Nat]
    /\ AdjustBound \in Nat

ASSUME NameAssumption == "none" \notin Transactions

VARIABLES
    accounts,       \* accounts that exist
    adjusted,       \* account -> dimension -> sum of adjust entries
    debited,        \* account -> dimension -> sum of reserve minus release entries
    status,         \* action -> dimension -> reservation status, or none
    committed, released,    \* action -> dimension -> amount of its entries
    attempt,        \* action -> whether it has work authority
    tx,             \* transaction -> what it does and how far it is
    holder          \* account -> the transaction that locked its row, or none

vars == <<accounts, adjusted, debited, status, committed, released, attempt, tx, holder>>
entries == <<adjusted, debited, status, committed, released>>

Idle == [op |-> "none"]

(* What a transaction was asked to do.  A dispatch that failed for good    *)
(* releases the attempt and stops the execution if its policy says so.     *)
Requests ==
    {[op |-> o, action |-> x] : o \in {"claim", "cancel"}, x \in Actions}
        \cup {[op |-> "fail", action |-> x, stops |-> b] : x \in Actions, b \in BOOLEAN}
        \cup {[op |-> "settle", action |-> x, usage |-> u] : x \in Actions, u \in Usages}
        \cup {[op |-> "adjust", account |-> a, dimension |-> d, delta |-> n] :
                  a \in Accounts, d \in Dims, n \in UNION {Deltas[a2] : a2 \in Accounts}}

Target(q) == IF q.op = "adjust" THEN q.account ELSE Account[q.action]

(* A transaction that runs: it `owns` its execution's row, it `referred`   *)
(* to the rows it `shares`, `locked` rows of its chain are locked; once it *)
(* has read, `got` are the dimensions it found enough of.                  *)
Running == [op : {"run"}, request : Requests, owns : BOOLEAN, referred : BOOLEAN,
            shares : SUBSET Accounts, locked : Nat, read : BOOLEAN, got : SUBSET Dims]

TypeOK ==
    /\ accounts \subseteq Accounts
    /\ adjusted \in [Accounts -> [Dims -> Int]]
    /\ debited \in [Accounts -> [Dims -> Nat]]
    /\ status \in [Actions -> [Dims -> {"none", "ACTIVE", "COMMITTED", "RELEASED"}]]
    /\ committed \in [Actions -> [Dims -> Nat]]
    /\ released \in [Actions -> [Dims -> Nat]]
    /\ attempt \in [Actions -> {"none", "granted", "refused", "settled", "cancelled"}]
    /\ tx \in [Transactions -> {Idle} \cup Running]
    /\ holder \in [Accounts -> Transactions \cup {"none"}]

Init ==
    /\ accounts = {}
    /\ adjusted = [a \in Accounts |-> [d \in Dims |-> 0]]
    /\ debited = [a \in Accounts |-> [d \in Dims |-> 0]]
    /\ status = [x \in Actions |-> [d \in Dims |-> "none"]]
    /\ committed = [x \in Actions |-> [d \in Dims |-> 0]]
    /\ released = [x \in Actions |-> [d \in Dims |-> 0]]
    /\ attempt = [x \in Actions |-> "none"]
    /\ tx = [t \in Transactions |-> Idle]
    /\ holder = [a \in Accounts |-> "none"]
-----------------------------------------------------------------------------
(* Accounts.                                                               *)

HasParent(a) == Len(Chain[a]) > 1
Parent(a) == Chain[a][2]

(* The parent exists and grants at least as much of every dimension.       *)
Grantable(a) ==
    HasParent(a) =>
        /\ Parent(a) \in accounts
        /\ \A d \in Dims : Ceiling[a][d] <= Ceiling[Parent(a)][d]

Shares(t, a) == tx[t] # Idle /\ a \in tx[t].shares

(* The operator's transaction locks the ancestors itself.                  *)
CreateAccount(a) ==
    /\ a \in Operated \ accounts
    /\ Grantable(a)
    /\ \A b \in ToSet(Tail(Chain[a])) :
           holder[b] = "none" /\ \A t \in Transactions : ~Shares(t, b)
    /\ accounts' = accounts \cup {a}
    /\ UNCHANGED <<entries, attempt, tx, holder>>

Available(a, d) == Ceiling[a][d] + adjusted[a][d] - debited[a][d]
-----------------------------------------------------------------------------
(* Transactions.                                                           *)

(* The caller holds the rows of the attempt, and its guards hold.  A       *)
(* cancellation holds those of every active attempt of the execution.      *)
Mine(q) ==
    \A t \in Transactions : tx[t] # Idle /\ tx[t].request.op # "adjust" =>
        /\ tx[t].request.action # q.action
        /\ {q.op, tx[t].request.op} = {"cancel", "fail"} => Target(tx[t].request) # Target(q)
Legal(q) ==
    CASE q.op = "claim" ->
           /\ attempt[q.action] = "none" /\ Mine(q)
           /\ Account[q.action] \in accounts \/ Account[q.action] \notin Operated
      [] q.op \in {"cancel", "fail", "settle"} -> attempt[q.action] = "granted" /\ Mine(q)
      [] q.op = "adjust" -> q.account \in accounts /\ q.delta \in Deltas[q.account]

Begin(t, q) ==
    /\ tx[t] = Idle
    /\ Legal(q)
    /\ tx' = [tx EXCEPT ![t] =
           [op |-> "run", request |-> q, owns |-> FALSE,
            referred |-> q.op \notin {"claim", "settle"}, shares |-> {},
            locked |-> 0, read |-> FALSE, got |-> {}]]
    /\ UNCHANGED <<accounts, entries, attempt, holder>>

(* The row of the execution: a claim, a result and a cancellation lock it  *)
(* before they come to the ledger, a dispatch failure after that.          *)
Entered(t) == tx[t].owns \/ tx[t].request.op \in {"adjust", "fail"}
WantsExecution(t) ==
    /\ tx[t] # Idle /\ ~tx[t].owns
    /\ \/ tx[t].request.op \in {"claim", "cancel", "settle"}
       \/ tx[t].request.op = "fail" /\ tx[t].request.stops /\ tx[t].read
Owns(t, a) == tx[t] # Idle /\ tx[t].owns /\ Target(tx[t].request) = a

LockExecution(t) ==
    /\ WantsExecution(t)
    /\ \A u \in Transactions : ~Owns(u, Target(tx[t].request))
    /\ tx' = [tx EXCEPT ![t].owns = TRUE]
    /\ UNCHANGED <<accounts, entries, attempt, holder>>

(* What a report leaves of a reservation.                                  *)
MutantUnknownIsZero(x, u, d) ==
    IF status[x][d] = "ACTIVE" /\ u[d] < Need[x][d] THEN Need[x][d] - u[d] ELSE 0
Unused(x, u, d) ==
    IF status[x][d] = "ACTIVE" /\ 0 < u[d] /\ u[d] < Need[x][d] THEN Need[x][d] - u[d] ELSE 0

Reported(x, u) == {d \in Dims : status[x][d] = "ACTIVE" /\ u[d] > 0}

(* The rows that the first row a transaction inserts refers to: a claim    *)
(* creates the account it misses, under its parent; a settlement commits   *)
(* usage on its account.                                                   *)
References(q) ==
    CASE q.op = "claim" -> IF Target(q) \notin accounts /\ HasParent(Target(q))
                           THEN {Parent(Target(q))} ELSE {}
      [] q.op = "settle" -> IF Reported(q.action, q.usage) # {} THEN {Target(q)} ELSE {}
      [] OTHER -> {}

(* KEY SHARE waits for FOR UPDATE, and not for another KEY SHARE.          *)
WantsToRefer(t) == tx[t] # Idle /\ Entered(t) /\ ~tx[t].referred /\ ~tx[t].read
Refer(t) ==
    /\ WantsToRefer(t)
    /\ LET q == tx[t].request IN
       /\ q.op = "claim" => Target(q) \in accounts \/ Grantable(Target(q))
       /\ \A a \in References(q) : holder[a] = "none"
       /\ tx' = [tx EXCEPT ![t].referred = TRUE, ![t].shares = References(q)]
    /\ UNCHANGED <<accounts, entries, attempt, holder>>

(* A claim cannot create its account: the grant is wider than the parent's *)
(* or there is no parent.  The attempt will be refused.                    *)
CannotCreate(t) ==
    /\ WantsToRefer(t) /\ tx[t].request.op = "claim"
    /\ LET a == Target(tx[t].request) IN a \notin accounts /\ ~Grantable(a)
    /\ tx' = [tx EXCEPT ![t].read = TRUE]
    /\ UNCHANGED <<accounts, entries, attempt, holder>>

(* A settlement that credits nothing back locks no account FOR UPDATE.     *)
RowsToLock(q) ==
    IF q.op = "settle" /\ \A d \in Dims : Unused(q.action, q.usage, d) = 0
    THEN <<>> ELSE Chain[Target(q)]

LockOrder(q) == RowsToLock(q)

(* The row a transaction locks FOR UPDATE next, which waits for KEY SHARE  *)
(* as well.                                                                *)
WantsRow(t, a) ==
    /\ tx[t] # Idle /\ Entered(t) /\ tx[t].referred /\ ~tx[t].read
    /\ tx[t].locked < Len(LockOrder(tx[t].request))
    /\ a = LockOrder(tx[t].request)[tx[t].locked + 1]

LockNext(t) ==
    /\ \E a \in Accounts :
           /\ WantsRow(t, a)
           /\ holder[a] = "none"
           /\ \A u \in Transactions \ {t} : ~Shares(u, a)
           /\ holder' = [holder EXCEPT ![a] = t]
    /\ tx' = [tx EXCEPT ![t].locked = @ + 1]
    /\ UNCHANGED <<accounts, entries, attempt>>

Locked(t) ==
    Entered(t) /\ tx[t].referred /\ tx[t].locked = Len(LockOrder(tx[t].request))

(* What an adjustment adds to an account of the chain: the correction, and *)
(* its opposite on every ancestor.                                         *)
Correction(q, a) == IF a = q.account THEN q.delta ELSE -q.delta

(* The dimensions of a step are reserved in order, until one is short.     *)
MutantOwnAccount(x, d) ==
    Available(Account[x], d) >= Need[x][d]
Enough(x, d) == \A a \in ToSet(Chain[Account[x]]) : Available(a, d) >= Need[x][d]
Affordable(x) ==
    {Dimensions[k] : k \in {n \in 1..Len(Dimensions) : \A m \in 1..n : Enough(x, Dimensions[m])}}

Applicable(q) ==
    \A a \in ToSet(Chain[q.account]) :
        /\ Available(a, q.dimension) + Correction(q, a) >= 0
        /\ adjusted[a][q.dimension] + Correction(q, a) \in -AdjustBound..AdjustBound

(* The read under the locks.                                               *)
Read(t) ==
    /\ tx[t] # Idle /\ ~tx[t].read /\ Locked(t)
    /\ LET q == tx[t].request IN
       tx' = [tx EXCEPT ![t].read = TRUE, ![t].got =
           CASE q.op = "claim" -> Affordable(q.action)
             [] q.op = "adjust" -> IF Applicable(q) THEN {q.dimension} ELSE {}
             [] OTHER -> {}]
    /\ UNCHANGED <<accounts, entries, attempt, holder>>

(* Commit or rollback frees the locks.                                     *)
Finish(t) ==
    /\ tx' = [tx EXCEPT ![t] = Idle]
    /\ holder' = [a \in Accounts |-> IF holder[a] = t THEN "none" ELSE holder[a]]

(* The account, if the claim created it, and a reservation per dimension.  *)
(* A short dimension refuses the attempt durably; the account and the      *)
(* reservations made before it stay.                                       *)
WriteClaim(t) ==
    LET x == tx[t].request.action
        got == tx[t].got
        chain == ToSet(Chain[Account[x]])
    IN /\ tx[t] # Idle /\ tx[t].read /\ tx[t].request.op = "claim"
       /\ accounts' = accounts \cup (IF tx[t].referred THEN {Account[x]} ELSE {})
       /\ attempt' = [attempt EXCEPT ![x] = IF got = Dims THEN "granted" ELSE "refused"]
       /\ status' = [status EXCEPT ![x] = [d \in Dims |-> IF d \in got THEN "ACTIVE" ELSE @[d]]]
       /\ debited' = [a \in Accounts |-> [d \in Dims |->
              IF a \in chain /\ d \in got THEN debited[a][d] + Need[x][d] ELSE debited[a][d]]]
       /\ Finish(t)
       /\ UNCHANGED <<adjusted, committed, released>>

MutantRefundsOne(x, amount) ==
    debited' = [debited EXCEPT ![Account[x]] = [d \in Dims |-> @[d] - amount[d]]]
Refund(x, amount) ==
    debited' = [a \in Accounts |-> [d \in Dims |->
        IF a \in ToSet(Chain[Account[x]]) THEN debited[a][d] - amount[d] ELSE debited[a][d]]]

(* reconcileTerminal(): reported usage is committed up to the reservation  *)
(* and the rest credited back; an unreported dimension stays consumed.     *)
WriteSettle(t) ==
    LET x == tx[t].request.action
        u == tx[t].request.usage
        unused == [d \in Dims |-> Unused(x, u, d)]
        reported == Reported(x, u)
    IN /\ tx[t] # Idle /\ tx[t].read /\ tx[t].request.op = "settle"
       /\ attempt' = [attempt EXCEPT ![x] = "settled"]
       /\ committed' = [committed EXCEPT ![x] = [d \in Dims |->
              IF d \in reported THEN Need[x][d] - unused[d] ELSE @[d]]]
       /\ released' = [released EXCEPT ![x] = [d \in Dims |-> @[d] + unused[d]]]
       /\ status' = [status EXCEPT ![x] = [d \in Dims |->
              IF unused[d] > 0 THEN "RELEASED"
              ELSE IF d \in reported THEN "COMMITTED" ELSE @[d]]]
       /\ Refund(x, unused)
       /\ Finish(t)
       /\ UNCHANGED <<accounts, adjusted>>

(* releaseForAction(): the whole reservation is credited back, because the *)
(* execution was cancelled or the dispatch failed.                         *)
WriteCancel(t) ==
    LET x == tx[t].request.action IN
    /\ tx[t] # Idle /\ tx[t].read /\ tx[t].request.op \in {"cancel", "fail"}
    /\ ~WantsExecution(t)
    /\ \A d \in Dims : status[x][d] \in {"none", "ACTIVE"}
    /\ attempt' = [attempt EXCEPT ![x] = "cancelled"]
    /\ LET held == [d \in Dims |-> IF status[x][d] = "ACTIVE" THEN Need[x][d] ELSE 0]
       IN /\ released' = [released EXCEPT ![x] = [d \in Dims |-> @[d] + held[d]]]
          /\ Refund(x, held)
    /\ status' = [status EXCEPT ![x] =
                     [d \in Dims |-> IF @[d] = "ACTIVE" THEN "RELEASED" ELSE @[d]]]
    /\ Finish(t)
    /\ UNCHANGED <<accounts, adjusted, committed>>

WriteAdjust(t) ==
    LET q == tx[t].request IN
    /\ tx[t] # Idle /\ tx[t].read /\ q.op = "adjust" /\ tx[t].got # {}
    /\ adjusted' = [a \in Accounts |-> [d \in Dims |->
           IF a \in ToSet(Chain[q.account]) /\ d = q.dimension
           THEN adjusted[a][d] + Correction(q, a) ELSE adjusted[a][d]]]
    /\ Finish(t)
    /\ UNCHANGED <<accounts, debited, status, committed, released, attempt>>

(* An adjustment that would make some account negative is refused.         *)
RefuseAdjust(t) ==
    /\ tx[t] # Idle /\ tx[t].read /\ tx[t].request.op = "adjust" /\ tx[t].got = {}
    /\ Finish(t)
    /\ UNCHANGED <<accounts, entries, attempt>>

(* An error, the death of the process, or the database's deadlock          *)
(* detection.                                                              *)
Rollback(t) ==
    /\ tx[t] # Idle
    /\ Finish(t)
    /\ UNCHANGED <<accounts, entries, attempt>>
-----------------------------------------------------------------------------
Conclude(t) ==
    WriteClaim(t) \/ WriteSettle(t) \/ WriteCancel(t) \/ WriteAdjust(t) \/ RefuseAdjust(t)

Next ==
    \/ \E a \in Accounts : CreateAccount(a)
    \/ \E t \in Transactions :
           \/ \E q \in Requests : Begin(t, q)
           \/ LockExecution(t) \/ Refer(t) \/ CannotCreate(t) \/ LockNext(t)
           \/ Read(t) \/ Conclude(t) \/ Rollback(t)

Spec == Init /\ [][Next]_vars
-----------------------------------------------------------------------------
(* However claims, settlements and corrections interleave, no account of   *)
(* the tree is ever overspent: the projection never fails.                 *)
NeverOverspent == \A a \in accounts, d \in Dims : Available(a, d) >= 0

(* The entries of an account are exactly the outstanding reservations of   *)
(* its subtree: nothing is credited twice, and nothing is lost.            *)
Outstanding(x, d) == IF status[x][d] = "none" THEN 0 ELSE Need[x][d] - released[x][d]
Below(a) == {x \in Actions : a \in ToSet(Chain[Account[x]])}
LedgerAgrees ==
    \A a \in Accounts, d \in Dims :
        debited[a][d] = MapThenSumSet(LAMBDA x : Outstanding(x, d), Below(a))

(* Work that was reported, or that nobody reported on, is never refunded.  *)
WorkStaysCharged ==
    \A x \in Actions, d \in Dims :
        /\ Outstanding(x, d) >= committed[x][d]
        /\ attempt[x] = "settled" /\ committed[x][d] = 0 => Outstanding(x, d) = Need[x][d]

(* Who waits for whom, and who waits in a circle: whoever is waited for,   *)
(* directly or not, includes the one that waits.                           *)
WaitsFor(t, u) ==
    /\ t # u
    /\ \/ \E a \in Accounts : WantsRow(t, a) /\ (holder[a] = u \/ Shares(u, a))
       \/ WantsToRefer(t) /\ \E a \in References(tx[t].request) : holder[a] = u
       \/ WantsExecution(t) /\ Owns(u, Target(tx[t].request))

ClosedUnderWaiting(S) == \A u \in S, v \in Transactions : WaitsFor(u, v) => v \in S
OnCircle(t) ==
    \A S \in SUBSET Transactions :
        ClosedUnderWaiting(S) /\ (\A u \in Transactions : WaitsFor(t, u) => u \in S) => t \in S

(* The database has to break a circle only between two transactions whose  *)
(* inserted rows refer to one account, or between a failed dispatch and a  *)
(* claim or result of its execution: a correction and a cancellation never *)
(* deadlock.                                                               *)
BothShare(t, u) == \E a \in Accounts : Shares(t, a) /\ Shares(u, a)
DispatchFailed(t, u) ==
    /\ "fail" \in {tx[t].request.op, tx[u].request.op}
    /\ {tx[t].request.op, tx[u].request.op} \subseteq {"fail", "claim", "settle"}
    /\ Target(tx[t].request) = Target(tx[u].request)
-----------------------------------------------------------------------------
(* "a failure rolls account, reservation, entries, and state back          *)
(* together": an attempt without work authority holds nothing.             *)
RefusedHoldsNothing ==
    \A x \in Actions : attempt[x] = "refused" => \A d \in Dims : Outstanding(x, d) = 0

(* "No budget path can mint availability across the hierarchy": what is    *)
(* reserved below an account nobody adjusted stays within its grant.       *)
GrantHolds ==
    \A a \in accounts : Deltas[a] = {} =>
        \A d \in Dims : debited[a][d] <= Ceiling[a][d]

(* "The bottom-up child->root walk is deadlock-free for a tree hierarchy": *)
(* no two transactions of the ledger wait for each other.                  *)
ChainsNeverDeadlock == \A t \in Transactions : ~OnCircle(t)
=============================================================================
