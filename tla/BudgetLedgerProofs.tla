-------------------------- MODULE BudgetLedgerProofs --------------------------
(***************************************************************************)
(* The budget ledger, for every tree of accounts and every number of       *)
(* transactions: no account is overspent, no work is refunded, and what an *)
(* account was debited is what the attempts below it hold.                 *)
(*                                                                         *)
(* What a transaction has read stays true until it writes, because it      *)
(* holds every row of its chain: a transaction that takes something from   *)
(* an account of that chain would hold that account's row as well.         *)
(***************************************************************************)
EXTENDS BudgetLedger, FiniteSetTheorems, TLAPS

(* What the sums of debits are is left open: that they are not negative    *)
(* follows from what the reservations hold, at the end of this module.     *)
TypeInv ==
    /\ accounts \subseteq Accounts
    /\ adjusted \in [Accounts -> [Dims -> Int]]
    /\ debited \in [Accounts -> [Dims -> Int]]
    /\ status \in [Actions -> [Dims -> {"none", "ACTIVE", "COMMITTED", "RELEASED"}]]
    /\ committed \in [Actions -> [Dims -> Nat]]
    /\ released \in [Actions -> [Dims -> Nat]]
    /\ attempt \in [Actions -> {"none", "granted", "refused", "settled", "cancelled"}]
    /\ tx \in [Transactions -> {Idle} \cup Running]
    /\ holder \in [Accounts -> Transactions \cup {"none"}]

Asks(t, op) == tx[t] # Idle /\ tx[t].request.op = op

(* Claims and corrections take from accounts; they lock their whole chain. *)
Takes(t) == Asks(t, "claim") \/ Asks(t, "adjust")
Rows(t) == Chain[Target(tx[t].request)]

LocksHeld ==
    \A t \in Transactions : Takes(t) =>
        /\ \A n \in 1..tx[t].locked : n \in DOMAIN Rows(t) => holder[Rows(t)[n]] = t
        /\ tx[t].got # {} => tx[t].read /\ tx[t].locked = Len(Rows(t))

(* What was read is still so: of every row of the chain, and every         *)
(* dimension that was found sufficient.                                    *)
ClaimIsFresh(t) ==
    \A a \in ToSet(Rows(t)), d \in tx[t].got :
        Available(a, d) >= Need[tx[t].request.action][d]

AdjustIsFresh(t) ==
    /\ tx[t].got \subseteq {tx[t].request.dimension}
    /\ \A a \in ToSet(Rows(t)), d \in tx[t].got :
           Available(a, d) + Correction(tx[t].request, a) >= 0

ReadIsFresh ==
    \A t \in Transactions :
        /\ Asks(t, "claim") /\ tx[t].read => ClaimIsFresh(t)
        /\ Asks(t, "adjust") /\ tx[t].read => AdjustIsFresh(t)

(* Of every account, those that a claim has yet to create included.        *)
Solvent == \A a \in Accounts, d \in Dims : Available(a, d) >= 0

LedgerInv == TypeInv /\ LocksHeld /\ ReadIsFresh /\ Solvent
-----------------------------------------------------------------------------
(* A chain is a sequence of accounts that starts with its own.             *)
LEMMA Chains ==
    ASSUME NEW a \in Accounts
    PROVE  /\ Chain[a] \in Seq(Accounts)
           /\ Len(Chain[a]) \in Nat
           /\ DOMAIN Chain[a] = 1..Len(Chain[a])
           /\ ToSet(Chain[a]) = {Chain[a][n] : n \in 1..Len(Chain[a])}
           /\ ToSet(Chain[a]) \subseteq Accounts
           /\ a \in ToSet(Chain[a])
<1>1. Chain[a] \in Seq(Accounts) /\ Len(Chain[a]) >= 1 /\ Chain[a][1] = a
  BY ChainAssumption
<1>2. DOMAIN Chain[a] = 1..Len(Chain[a]) /\ Len(Chain[a]) \in Nat
  BY <1>1
<1>3. ToSet(Chain[a]) = {Chain[a][n] : n \in 1..Len(Chain[a])}
  BY <1>2 DEF ToSet
<1>4. \A n \in 1..Len(Chain[a]) : Chain[a][n] \in Accounts
  BY <1>1
<1>5. 1 \in 1..Len(Chain[a])
  BY <1>1, <1>2
<1> QED
  BY <1>1, <1>2, <1>3, <1>4, <1>5

(* The types of what is asked for.                                         *)
LEMMA RequestTypes ==
    ASSUME NEW q \in Requests
    PROVE  /\ q.op \in {"claim", "cancel", "fail", "settle", "adjust"}
           /\ q.op # "adjust" => q.action \in Actions /\ Account[q.action] \in Accounts
           /\ q.op = "settle" => q.usage \in [Dims -> Nat]
           /\ q.op = "adjust" => q.account \in Accounts /\ q.dimension \in Dims /\ q.delta \in Int
           /\ Target(q) \in Accounts
  BY AmountAssumption DEF Requests, Target

(* A transaction that runs.                                                *)
LEMMA RunningTypes ==
    ASSUME TypeInv, NEW t \in Transactions, tx[t] # Idle
    PROVE  /\ tx[t] \in Running
           /\ tx[t].request \in Requests
           /\ tx[t].shares \in SUBSET Accounts /\ tx[t].owns \in BOOLEAN
           /\ tx[t].locked \in Nat
           /\ tx[t].referred \in BOOLEAN /\ tx[t].read \in BOOLEAN
           /\ tx[t].got \subseteq Dims
  BY DEF TypeInv, Running

(* Accounts are empty and nobody runs.                                     *)
LEMMA StartTyped == Init => TypeInv
  BY DEF Init, TypeInv

(* What is refunded is a part of the reservation.                          *)
LEMMA UnusedIsPart ==
    ASSUME TypeInv, NEW x \in Actions, NEW u \in [Dims -> Nat], NEW d \in Dims
    PROVE  /\ Unused(x, u, d) \in 0..(Need[x][d] - 1)
           /\ Need[x][d] \in Nat
           /\ Unused(x, u, d) > 0 => status[x][d] = "ACTIVE" /\ u[d] > 0
                                     /\ Need[x][d] - Unused(x, u, d) = u[d]
<1>1. Need[x][d] \in Nat \ {0} /\ u[d] \in Nat
  BY AmountAssumption
<1> QED
  BY <1>1 DEF Unused
-----------------------------------------------------------------------------
(* Steps keep the types.                                                   *)

(* A commit or a rollback gives all locks of the transaction back.         *)
LEMMA FinishTyped ==
    ASSUME TypeInv, NEW t \in Transactions, Finish(t)
    PROVE  /\ tx' \in [Transactions -> {Idle} \cup Running]
           /\ holder' \in [Accounts -> Transactions \cup {"none"}]
           /\ tx'[t] = Idle
           /\ \A t2 \in Transactions \ {t} : tx'[t2] = tx[t2]
           /\ \A a \in Accounts : holder[a] # t => holder'[a] = holder[a]
  BY DEF TypeInv, Finish

(* A transaction starts with a request and without a lock.                 *)
LEMMA BeginTyped ==
    ASSUME TypeInv, NEW t \in Transactions, NEW q \in Requests, Begin(t, q)
    PROVE  TypeInv'
<1> PICK running : running =
          [op |-> "run", request |-> q, owns |-> FALSE,
           referred |-> q.op \notin {"claim", "settle"}, shares |-> {},
           locked |-> 0, read |-> FALSE, got |-> {}]
  OBVIOUS
<1>1. running \in Running
  BY DEF Running
<1>2. tx' = [tx EXCEPT ![t] = running]
  BY DEF Begin
<1> QED
  BY <1>1, <1>2 DEF TypeInv, Begin, entries

(* Beside the locks of its chain a transaction takes that of an execution, *)
(* refers to a row, or finds that it cannot create its account.            *)
Aside(t) == LockExecution(t) \/ Refer(t) \/ CannotCreate(t)

(* The row a new account refers to is an account.                          *)
LEMMA ReferencesTyped ==
    ASSUME NEW q \in Requests PROVE References(q) \in SUBSET Accounts
<1>1. Target(q) \in Accounts
  BY RequestTypes
<1>2. ASSUME HasParent(Target(q)) PROVE Parent(Target(q)) \in Accounts
  <2>1. Len(Chain[Target(q)]) > 1 /\ Chain[Target(q)] \in Seq(Accounts)
    BY <1>1, <1>2, Chains DEF HasParent
  <2> QED
    BY <2>1 DEF Parent
<1> QED
  BY <1>1, <1>2 DEF References

(* A step outside the rows of the ledger leaves them typed.                *)
LEMMA AsideTyped ==
    ASSUME TypeInv, NEW t \in Transactions, Aside(t)
    PROVE  /\ TypeInv' /\ tx[t] # Idle
           /\ tx'[t].request = tx[t].request /\ tx'[t].locked = tx[t].locked
           /\ tx'[t].got = tx[t].got /\ (tx[t].read => tx'[t].read)
           /\ \A t2 \in Transactions \ {t} : tx'[t2] = tx[t2]
           /\ UNCHANGED <<accounts, entries, attempt, holder>>
<1>1. tx[t] # Idle
  BY DEF Aside, LockExecution, WantsExecution, Refer, CannotCreate, WantsToRefer
<1>2. tx[t] \in Running /\ tx[t].request \in Requests
  BY <1>1, RunningTypes
<1>3. PICK after \in Running :
          /\ tx' = [tx EXCEPT ![t] = after]
          /\ after.request = tx[t].request /\ after.locked = tx[t].locked
          /\ after.got = tx[t].got /\ (tx[t].read => after.read)
  <2>1. CASE LockExecution(t)
    <3>1. [tx[t] EXCEPT !.owns = TRUE] \in Running
      BY <1>2 DEF Running
    <3> QED
      BY <1>2, <2>1, <3>1 DEF LockExecution, Running
  <2>2. CASE Refer(t)
    <3> PICK to : to = References(tx[t].request)
      OBVIOUS
    <3>1. to \in SUBSET Accounts
      BY <1>2, ReferencesTyped
    <3>2. [tx[t] EXCEPT !.referred = TRUE, !.shares = to] \in Running
      BY <1>2, <3>1 DEF Running
    <3>3. tx' = [tx EXCEPT ![t] = [tx[t] EXCEPT !.referred = TRUE, !.shares = to]]
      BY <2>2 DEF Refer, TypeInv
    <3> QED
      BY <1>2, <3>2, <3>3 DEF Running
  <2>3. CASE CannotCreate(t)
    <3>1. [tx[t] EXCEPT !.read = TRUE] \in Running
      BY <1>2 DEF Running
    <3> QED
      BY <1>2, <2>3, <3>1 DEF CannotCreate, Running
  <2> QED
    BY <2>1, <2>2, <2>3 DEF Aside
<1>4. UNCHANGED <<accounts, entries, attempt, holder>>
  BY DEF Aside, LockExecution, Refer, CannotCreate
<1> QED
  BY <1>1, <1>3, <1>4 DEF TypeInv, entries

(* A lock is taken by the transaction that waits for it.                   *)
LEMMA LockNextTyped ==
    ASSUME TypeInv, NEW t \in Transactions, LockNext(t)
    PROVE  /\ TypeInv'
           /\ tx' = [tx EXCEPT ![t] = [tx[t] EXCEPT !.locked = tx[t].locked + 1]]
<1>1. tx[t] \in Running /\ tx[t].locked \in Nat
  BY RunningTypes DEF LockNext, WantsRow
<1>2. [tx[t] EXCEPT !.locked = tx[t].locked + 1] \in Running
  BY <1>1 DEF Running
<1>3. tx' = [tx EXCEPT ![t] = [tx[t] EXCEPT !.locked = tx[t].locked + 1]]
  BY DEF LockNext
<1>4. tx' \in [Transactions -> {Idle} \cup Running]
  BY <1>2, <1>3 DEF TypeInv
<1>5. holder' \in [Accounts -> Transactions \cup {"none"}]
  BY DEF TypeInv, LockNext
<1> QED
  BY <1>3, <1>4, <1>5 DEF TypeInv, LockNext, entries

(* What a transaction finds.                                               *)
Found(t) ==
    LET q == tx[t].request IN
    CASE q.op = "claim" -> Affordable(q.action)
      [] q.op = "adjust" -> IF Applicable(q) THEN {q.dimension} ELSE {}
      [] OTHER -> {}

(* What is affordable is a prefix of the dimensions, each of which fits.   *)
LEMMA AffordableTyped ==
    ASSUME NEW x
    PROVE  /\ Affordable(x) \subseteq Dims
           /\ \A d \in Affordable(x) : Enough(x, d)
<1>1. \A n \in 1..Len(Dimensions) : Dimensions[n] \in Dims
  BY AmountAssumption
<1> QED
  BY <1>1, AmountAssumption DEF Affordable

(* The read of the locked rows decides what is affordable.                 *)
LEMMA ReadTyped ==
    ASSUME TypeInv, NEW t \in Transactions, Read(t)
    PROVE  /\ TypeInv'
           /\ tx' = [tx EXCEPT ![t] = [tx[t] EXCEPT !.read = TRUE, !.got = Found(t)]]
<1>1. tx[t] \in Running /\ tx[t].request \in Requests
  BY RunningTypes DEF Read
<1>2. tx' = [tx EXCEPT ![t] = [tx[t] EXCEPT !.read = TRUE, !.got = Found(t)]]
  BY <1>1 DEF Read, Found, TypeInv
<1>3. Found(t) \subseteq Dims
  <2>1. CASE tx[t].request.op = "claim"
    BY <2>1, AffordableTyped DEF Found
  <2>2. CASE tx[t].request.op = "adjust"
    BY <1>1, <2>2, RequestTypes DEF Found
  <2>3. CASE tx[t].request.op \notin {"claim", "adjust"}
    BY <2>3 DEF Found
  <2> QED
    BY <2>1, <2>2, <2>3
<1>4. [tx[t] EXCEPT !.read = TRUE, !.got = Found(t)] \in Running
  BY <1>1, <1>3 DEF Running
<1>5. tx' \in [Transactions -> {Idle} \cup Running]
  BY <1>2, <1>4 DEF TypeInv
<1> QED
  BY <1>2, <1>5 DEF TypeInv, Read, entries
-----------------------------------------------------------------------------
(* Commits.                                                                *)

(* Amounts are numbers.                                                    *)
LEMMA AvailableTyped ==
    ASSUME TypeInv, NEW a \in Accounts, NEW d \in Dims
    PROVE  /\ Available(a, d) \in Int
           /\ Ceiling[a][d] \in Nat /\ adjusted[a][d] \in Int /\ debited[a][d] \in Int
  BY AmountAssumption DEF TypeInv, Available

(* A claim moves amounts of its request along its chain.                   *)
LEMMA WriteClaimTyped ==
    ASSUME TypeInv, NEW t \in Transactions, WriteClaim(t)
    PROVE  TypeInv'
<1> PICK x : x = tx[t].request.action
  OBVIOUS
<1>1. tx[t].request \in Requests /\ tx[t].got \subseteq Dims /\ tx[t].request.op = "claim"
  BY RunningTypes DEF WriteClaim
<1>2. x \in Actions /\ Account[x] \in Accounts
  BY <1>1, RequestTypes
<1>3. accounts' \subseteq Accounts
  BY <1>2 DEF TypeInv, WriteClaim
<1>4. \A d \in Dims : Need[x][d] \in Nat
  BY <1>2, AmountAssumption
<1>5. debited' \in [Accounts -> [Dims -> Int]]
  BY <1>4, AvailableTyped DEF WriteClaim
<1>6. status' \in [Actions -> [Dims -> {"none", "ACTIVE", "COMMITTED", "RELEASED"}]]
  BY <1>2 DEF TypeInv, WriteClaim
<1>7. attempt' \in [Actions -> {"none", "granted", "refused", "settled", "cancelled"}]
  BY <1>2 DEF TypeInv, WriteClaim
<1>8. Finish(t) /\ adjusted' = adjusted /\ committed' = committed /\ released' = released
  BY DEF WriteClaim
<1> QED
  BY <1>3, <1>5, <1>6, <1>7, <1>8, FinishTyped DEF TypeInv

(* A refund of some amount per dimension.                                  *)
LEMMA RefundTyped ==
    ASSUME TypeInv, NEW x \in Actions, NEW amount \in [Dims -> Nat], Refund(x, amount),
           adjusted' = adjusted
    PROVE  /\ debited' \in [Accounts -> [Dims -> Int]]
           /\ \A a \in Accounts, d \in Dims : Available(a, d)' >= Available(a, d)
<1>1. \A d \in Dims : amount[d] \in Nat
  OBVIOUS
<1>2. \A a \in Accounts, d \in Dims : debited'[a][d] \in {debited[a][d], debited[a][d] - amount[d]}
  BY DEF Refund
<1>3. debited' \in [Accounts -> [Dims -> Int]]
  BY <1>1, AvailableTyped DEF Refund
<1>4. \A a \in Accounts, d \in Dims : debited'[a][d] <= debited[a][d]
  BY <1>1, <1>2, AvailableTyped
<1>5. \A a \in Accounts, d \in Dims : debited'[a][d] \in Int
  BY <1>3
<1> QED
  BY <1>3, <1>4, <1>5, AvailableTyped DEF Available

(* The refund of a settlement and of a cancellation.                       *)
LEMMA SettleRefunds ==
    ASSUME TypeInv, NEW t \in Transactions, WriteSettle(t)
    PROVE  LET x == tx[t].request.action
               u == tx[t].request.usage
           IN  /\ x \in Actions /\ u \in [Dims -> Nat]
               /\ [d \in Dims |-> Unused(x, u, d)] \in [Dims -> Nat]
               /\ Refund(x, [d \in Dims |-> Unused(x, u, d)])
<1> PICK x : x = tx[t].request.action
  OBVIOUS
<1> PICK u : u = tx[t].request.usage
  OBVIOUS
<1>1. x \in Actions /\ u \in [Dims -> Nat]
  BY RunningTypes, RequestTypes DEF WriteSettle
<1>2. \A d \in Dims : Unused(x, u, d) \in Nat
  BY <1>1, UnusedIsPart
<1>3. Refund(x, [d \in Dims |-> Unused(x, u, d)])
  BY DEF WriteSettle
<1> QED
  BY <1>1, <1>2, <1>3

(* A cancellation gives back what its action holds.                        *)
LEMMA CancelRefunds ==
    ASSUME TypeInv, NEW t \in Transactions, WriteCancel(t)
    PROVE  LET x == tx[t].request.action
               held == [d \in Dims |-> IF status[x][d] = "ACTIVE" THEN Need[x][d] ELSE 0]
           IN  x \in Actions /\ held \in [Dims -> Nat] /\ Refund(x, held)
<1> PICK x : x = tx[t].request.action
  OBVIOUS
<1>1. x \in Actions
  BY RunningTypes, RequestTypes DEF WriteCancel
<1>2. \A d \in Dims : Need[x][d] \in Nat
  BY <1>1, AmountAssumption
<1>3. Refund(x, [d \in Dims |-> IF status[x][d] = "ACTIVE" THEN Need[x][d] ELSE 0])
  BY DEF WriteCancel
<1> QED
  BY <1>1, <1>2, <1>3

(* A settlement moves amounts from reserved to consumed.                   *)
LEMMA WriteSettleTyped ==
    ASSUME TypeInv, NEW t \in Transactions, WriteSettle(t)
    PROVE  TypeInv'
<1> PICK x : x = tx[t].request.action
  OBVIOUS
<1> PICK u : u = tx[t].request.usage
  OBVIOUS
<1>1. x \in Actions /\ u \in [Dims -> Nat]
  BY SettleRefunds
<1> PICK unused : unused = [d \in Dims |-> Unused(x, u, d)]
  OBVIOUS
<1>2. unused \in [Dims -> Nat] /\ Refund(x, unused)
  BY SettleRefunds
<1>3. \A d \in Dims : unused[d] \in Nat /\ Need[x][d] - unused[d] \in Nat
  BY <1>1, UnusedIsPart
<1>4. adjusted' = adjusted /\ accounts' = accounts /\ Finish(t)
  BY DEF WriteSettle
<1>5. debited' \in [Accounts -> [Dims -> Int]]
  BY <1>1, <1>2, <1>4, RefundTyped
<1>6. attempt' \in [Actions -> {"none", "granted", "refused", "settled", "cancelled"}]
  BY <1>1 DEF TypeInv, WriteSettle
<1>7. committed' \in [Actions -> [Dims -> Nat]]
  BY <1>1, <1>3 DEF TypeInv, WriteSettle
<1>8. released' = [released EXCEPT ![x] = [d \in Dims |-> released[x][d] + unused[d]]]
  BY DEF WriteSettle
<1>9. \A d \in Dims : released[x][d] + unused[d] \in Nat
  BY <1>1, <1>3 DEF TypeInv
<1>10. released' \in [Actions -> [Dims -> Nat]]
  BY <1>1, <1>8, <1>9 DEF TypeInv
<1>11. status' \in [Actions -> [Dims -> {"none", "ACTIVE", "COMMITTED", "RELEASED"}]]
  BY <1>1 DEF TypeInv, WriteSettle
<1> QED
  BY <1>4, <1>5, <1>6, <1>7, <1>10, <1>11, FinishTyped DEF TypeInv

(* A cancellation closes the reservations of its action.                   *)
LEMMA WriteCancelTyped ==
    ASSUME TypeInv, NEW t \in Transactions, WriteCancel(t)
    PROVE  TypeInv'
<1> PICK x : x = tx[t].request.action
  OBVIOUS
<1> PICK held : held = [d \in Dims |-> IF status[x][d] = "ACTIVE" THEN Need[x][d] ELSE 0]
  OBVIOUS
<1>1. x \in Actions /\ held \in [Dims -> Nat] /\ Refund(x, held)
  BY CancelRefunds
<1>2. adjusted' = adjusted /\ accounts' = accounts /\ committed' = committed /\ Finish(t)
  BY DEF WriteCancel
<1>3. debited' \in [Accounts -> [Dims -> Int]]
  BY <1>1, <1>2, RefundTyped
<1>4. attempt' \in [Actions -> {"none", "granted", "refused", "settled", "cancelled"}]
  BY <1>1 DEF TypeInv, WriteCancel
<1>5. released' = [released EXCEPT ![x] = [d \in Dims |-> released[x][d] + held[d]]]
  BY DEF WriteCancel
<1>6. \A d \in Dims : released[x][d] + held[d] \in Nat
  BY <1>1 DEF TypeInv
<1>7. released' \in [Actions -> [Dims -> Nat]]
  BY <1>1, <1>5, <1>6 DEF TypeInv
<1>8. status' \in [Actions -> [Dims -> {"none", "ACTIVE", "COMMITTED", "RELEASED"}]]
  BY <1>1 DEF TypeInv, WriteCancel
<1> QED
  BY <1>2, <1>3, <1>4, <1>7, <1>8, FinishTyped DEF TypeInv

(* An adjustment corrects one dimension of the accounts of a chain.        *)
LEMMA WriteAdjustTyped ==
    ASSUME TypeInv, NEW t \in Transactions, WriteAdjust(t)
    PROVE  TypeInv'
<1> PICK q : q = tx[t].request
  OBVIOUS
<1>1. q \in Requests /\ q.op = "adjust"
  BY RunningTypes DEF WriteAdjust
<1>2. \A a \in Accounts : Correction(q, a) \in Int
  BY <1>1, RequestTypes DEF Correction
<1>3. adjusted' = [a \in Accounts |-> [d \in Dims |->
          IF a \in ToSet(Chain[q.account]) /\ d = q.dimension
          THEN adjusted[a][d] + Correction(q, a) ELSE adjusted[a][d]]]
  BY DEF WriteAdjust
<1>4. adjusted' \in [Accounts -> [Dims -> Int]]
  BY <1>2, <1>3, AvailableTyped
<1>5. Finish(t) /\ UNCHANGED <<accounts, debited, status, committed, released, attempt>>
  BY DEF WriteAdjust
<1> QED
  BY <1>4, <1>5, FinishTyped DEF TypeInv

(* Every step.                                                             *)
LEMMA StepTyped == TypeInv /\ [Next]_vars => TypeInv'
<1> SUFFICES ASSUME TypeInv, [Next]_vars PROVE TypeInv'
  OBVIOUS
<1>1. ASSUME NEW a \in Accounts, CreateAccount(a) PROVE TypeInv'
  BY <1>1 DEF CreateAccount, TypeInv, entries
<1>2. ASSUME NEW t \in Transactions, NEW q \in Requests, Begin(t, q) PROVE TypeInv'
  BY <1>2, BeginTyped
<1>3. ASSUME NEW t \in Transactions, LockNext(t) \/ Aside(t) PROVE TypeInv'
  BY <1>3, LockNextTyped, AsideTyped
<1>4. ASSUME NEW t \in Transactions, Read(t) PROVE TypeInv'
  BY <1>4, ReadTyped
<1>5. ASSUME NEW t \in Transactions, Conclude(t) PROVE TypeInv'
  <2>1. ASSUME RefuseAdjust(t) PROVE TypeInv'
    BY <2>1, FinishTyped DEF RefuseAdjust, TypeInv, entries
  <2> QED
    BY <1>5, <2>1, WriteClaimTyped, WriteSettleTyped, WriteCancelTyped, WriteAdjustTyped
       DEF Conclude
<1>6. ASSUME NEW t \in Transactions, Rollback(t) PROVE TypeInv'
  BY <1>6, FinishTyped DEF Rollback, TypeInv, entries
<1>7. ASSUME UNCHANGED vars PROVE TypeInv'
  BY <1>7 DEF vars, TypeInv
<1> QED
  BY <1>1, <1>2, <1>3, <1>4, <1>5, <1>6, <1>7 DEF Next, Aside
-----------------------------------------------------------------------------
(* No account is overspent.                                                *)

(* Who has read, with an intent to take, holds the row of every account it *)
(* takes from.                                                             *)
LEMMA HoldsRows ==
    ASSUME TypeInv, LocksHeld, NEW t \in Transactions, Takes(t), tx[t].got # {},
           NEW a \in ToSet(Rows(t))
    PROVE  holder[a] = t /\ a \in Accounts
<1>1. Target(tx[t].request) \in Accounts
  BY RunningTypes, RequestTypes DEF Takes, Asks
<1>2. PICK n \in 1..Len(Rows(t)) : a = Rows(t)[n]
  BY <1>1, Chains DEF Rows
<1>3. DOMAIN Rows(t) = 1..Len(Rows(t)) /\ a \in Accounts
  BY <1>1, Chains DEF Rows
<1>4. tx[t].locked = Len(Rows(t))
  BY DEF LocksHeld
<1> QED
  BY <1>2, <1>3, <1>4 DEF LocksHeld

(* A transaction that ends and takes only from accounts whose rows it      *)
(* holds disturbs nobody: not their locks, and not what they have read.    *)
LEMMA OthersUndisturbed ==
    ASSUME TypeInv, TypeInv', LocksHeld, ReadIsFresh, NEW t \in Transactions, Finish(t),
           \A a \in Accounts, d \in Dims :
               holder[a] # t => Available(a, d)' >= Available(a, d)
    PROVE  LocksHeld' /\ ReadIsFresh'
<1>1. tx'[t] = Idle
  BY FinishTyped
<1>2. \A t2 \in Transactions \ {t} : tx'[t2] = tx[t2]
  BY FinishTyped
<1>3. \A a \in Accounts : holder[a] # t => holder'[a] = holder[a]
  BY FinishTyped
<1>4. LocksHeld'
  <2> SUFFICES ASSUME NEW t2 \in Transactions, Takes(t2)'
               PROVE  /\ \A n \in 1..tx'[t2].locked : n \in DOMAIN Rows(t2)' =>
                              holder'[Rows(t2)'[n]] = t2
                      /\ tx'[t2].got # {} =>
                             tx'[t2].read /\ tx'[t2].locked = Len(Rows(t2)')
    BY DEF LocksHeld
  <2>1. t2 # t
    BY <1>1 DEF Takes, Asks
  <2>2. tx'[t2] = tx[t2] /\ Takes(t2) /\ Rows(t2)' = Rows(t2)
    BY <1>2, <2>1 DEF Takes, Asks, Rows
  <2>3. \A n \in DOMAIN Rows(t2) : Rows(t2)[n] \in Accounts
    <3>1. Target(tx[t2].request) \in Accounts
      BY <2>2, RunningTypes, RequestTypes DEF Takes, Asks
    <3> QED
      BY <3>1, Chains DEF Rows
  <2>4. \A n \in 1..tx[t2].locked : n \in DOMAIN Rows(t2) => holder[Rows(t2)[n]] = t2
    BY <2>2 DEF LocksHeld
  <2>5. tx[t2].got # {} => tx[t2].read /\ tx[t2].locked = Len(Rows(t2))
    BY <2>2 DEF LocksHeld
  <2>6. \A n \in 1..tx[t2].locked : n \in DOMAIN Rows(t2) => holder'[Rows(t2)[n]] = t2
    BY <1>3, <2>1, <2>3, <2>4
  <2> QED
    BY <2>2, <2>5, <2>6
<1>5. ReadIsFresh'
  <2> SUFFICES ASSUME NEW t2 \in Transactions, tx'[t2] # Idle, tx'[t2].read
               PROVE  /\ Asks(t2, "claim")' => ClaimIsFresh(t2)'
                      /\ Asks(t2, "adjust")' => AdjustIsFresh(t2)'
    BY DEF ReadIsFresh, Asks
  <2>1. t2 # t
    BY <1>1
  <2>2. tx'[t2] = tx[t2] /\ Rows(t2)' = Rows(t2)
    BY <1>2, <2>1 DEF Rows
  <2> PICK q : q = tx[t2].request
    OBVIOUS
  <2>3. q \in Requests /\ tx[t2].got \subseteq Dims
    BY <2>2, RunningTypes
  <2>4. ASSUME Takes(t2), NEW a \in ToSet(Rows(t2)), NEW d \in tx[t2].got
        PROVE  /\ Available(a, d)' >= Available(a, d)
               /\ Available(a, d)' \in Int /\ Available(a, d) \in Int
               /\ d \in Dims
    <3>1. holder[a] = t2 /\ a \in Accounts /\ d \in Dims
      BY <2>2, <2>3, <2>4, HoldsRows
    <3>2. Available(a, d)' \in Int
      BY <3>1, AmountAssumption DEF TypeInv, Available
    <3> QED
      BY <2>1, <3>1, <3>2, AvailableTyped
  <2>5. ASSUME Asks(t2, "claim") PROVE ClaimIsFresh(t2)'
    <3>1. Takes(t2) /\ q.op = "claim"
      BY <2>5 DEF Takes, Asks
    <3>2. ASSUME NEW a \in ToSet(Rows(t2)), NEW d \in tx[t2].got
          PROVE  Available(a, d)' >= Need[q.action][d]
      <4>1. Available(a, d) >= Need[q.action][d]
        BY <2>2, <2>5 DEF ReadIsFresh, ClaimIsFresh
      <4>2. Need[q.action][d] \in Int
        BY <2>3, <3>1, RequestTypes, AmountAssumption
      <4> QED
        BY <2>4, <3>1, <4>1, <4>2
    <3> QED
      BY <2>2, <3>2 DEF ClaimIsFresh
  <2>6. ASSUME Asks(t2, "adjust") PROVE AdjustIsFresh(t2)'
    <3>1. Takes(t2) /\ q.op = "adjust"
      BY <2>6 DEF Takes, Asks
    <3>2. AdjustIsFresh(t2)
      BY <2>2, <2>6 DEF ReadIsFresh
    <3>3. ASSUME NEW a \in ToSet(Rows(t2)), NEW d \in tx[t2].got
          PROVE  Available(a, d)' + Correction(q, a) >= 0
      <4>1. Available(a, d) + Correction(q, a) >= 0
        BY <3>2 DEF AdjustIsFresh
      <4>2. Correction(q, a) \in Int
        BY <2>3, <3>1, RequestTypes DEF Correction
      <4> QED
        BY <2>4, <3>1, <4>1, <4>2
    <3>4. \A a : Correction(tx[t2].request, a)' = Correction(q, a)
      BY <2>2 DEF Correction
    <3> QED
      BY <2>2, <3>2, <3>3, <3>4 DEF AdjustIsFresh
  <2> QED
    BY <2>2, <2>5, <2>6 DEF Asks
<1> QED
  BY <1>4, <1>5

(* A transaction that has not read yet only asks and locks.                *)
LEMMA BeginKeeps ==
    ASSUME TypeInv, LocksHeld, ReadIsFresh, Solvent,
           NEW t \in Transactions, NEW q \in Requests, Begin(t, q)
    PROVE  LocksHeld' /\ ReadIsFresh' /\ Solvent'
<1>1. /\ \A t2 \in Transactions \ {t} : tx'[t2] = tx[t2]
      /\ tx'[t].locked = 0 /\ tx'[t].read = FALSE /\ tx'[t].got = {}
  BY DEF Begin, TypeInv
<1>2. UNCHANGED <<adjusted, debited, holder>>
  BY DEF Begin, entries
<1>3. LocksHeld'
  BY <1>1, <1>2 DEF LocksHeld, Takes, Asks, Rows
<1>4. ReadIsFresh'
  <2>1. ASSUME NEW t2 \in Transactions, tx'[t2].read PROVE tx'[t2] = tx[t2]
    BY <1>1, <2>1
  <2> QED
    BY <1>2, <2>1
       DEF ReadIsFresh, ClaimIsFresh, AdjustIsFresh, Asks, Rows, Available, Correction
<1>5. Solvent'
  BY <1>2 DEF Solvent, Available
<1> QED
  BY <1>3, <1>4, <1>5

(* A row is only taken when nobody holds it.                               *)
LEMMA LockNextKeeps ==
    ASSUME TypeInv, LocksHeld, ReadIsFresh, Solvent, NEW t \in Transactions, LockNext(t)
    PROVE  LocksHeld' /\ ReadIsFresh' /\ Solvent'
<1>1. tx' = [tx EXCEPT ![t] = [tx[t] EXCEPT !.locked = tx[t].locked + 1]]
  BY LockNextTyped
<1>2. tx[t] \in Running /\ tx[t].locked \in Nat /\ tx[t].read = FALSE
  BY RunningTypes DEF LockNext, WantsRow
<1>3. /\ \A t2 \in Transactions \ {t} : tx'[t2] = tx[t2]
      /\ tx'[t].locked = tx[t].locked + 1 /\ tx'[t].read = FALSE
      /\ tx'[t].request = tx[t].request /\ tx'[t].got = tx[t].got /\ tx[t] # Idle
  BY <1>1, <1>2 DEF TypeInv, Running, LockNext, WantsRow
<1>4. UNCHANGED <<adjusted, debited>>
  BY DEF LockNext, entries
<1> PICK rows : rows = LockOrder(tx[t].request)
  OBVIOUS
<1> PICK n : n = tx[t].locked + 1
  OBVIOUS
<1>5. holder[rows[n]] = "none" /\ holder' = [holder EXCEPT ![rows[n]] = t]
  BY DEF LockNext, WantsRow
<1>6. ASSUME NEW t2 \in Transactions, Takes(t2)'
      PROVE  /\ Takes(t2) /\ Rows(t2)' = Rows(t2)
             /\ \A m \in DOMAIN Rows(t2) : Rows(t2)[m] \in Accounts
             /\ \A m \in 1..tx[t2].locked : m \in DOMAIN Rows(t2) => holder'[Rows(t2)[m]] = t2
  <2>1. Takes(t2) /\ Rows(t2)' = Rows(t2)
    BY <1>3, <1>6 DEF Takes, Asks, Rows
  <2>2. \A m \in DOMAIN Rows(t2) : Rows(t2)[m] \in Accounts
    <3>1. Target(tx[t2].request) \in Accounts
      BY <2>1, RunningTypes, RequestTypes DEF Takes, Asks
    <3> QED
      BY <3>1, Chains DEF Rows
  <2>3. \A m \in 1..tx[t2].locked : m \in DOMAIN Rows(t2) => holder[Rows(t2)[m]] = t2
    BY <2>1 DEF LocksHeld
  <2>4. t2 # "none"
    BY NameAssumption
  <2> QED
    BY <1>5, <2>1, <2>2, <2>3, <2>4 DEF TypeInv
<1>7. ASSUME Takes(t) PROVE n \in DOMAIN Rows(t) => holder'[Rows(t)[n]] = t
  <2>1. rows = Rows(t)
    BY <1>7 DEF LockOrder, RowsToLock, Rows, Takes, Asks
  <2>2. Target(tx[t].request) \in Accounts
    BY <1>7, RunningTypes, RequestTypes DEF Takes, Asks
  <2> QED
    BY <1>5, <2>1, <2>2, Chains DEF Rows, TypeInv
<1>8. LocksHeld'
  <2> SUFFICES ASSUME NEW t2 \in Transactions, Takes(t2)'
               PROVE  /\ \A m \in 1..tx'[t2].locked : m \in DOMAIN Rows(t2)' =>
                              holder'[Rows(t2)'[m]] = t2
                      /\ tx'[t2].got # {} =>
                             tx'[t2].read /\ tx'[t2].locked = Len(Rows(t2)')
    BY DEF LocksHeld
  <2>1. CASE t2 = t
    <3>1. \A m \in 1..(tx[t].locked + 1) : m \in 1..tx[t].locked \/ m = n
      BY <1>2
    <3>2. tx[t].got = {}
      BY <1>2, <1>6, <2>1 DEF LocksHeld
    <3> QED
      BY <1>3, <1>6, <1>7, <2>1, <3>1, <3>2
  <2>2. CASE t2 # t
    BY <1>3, <1>6, <2>2 DEF LocksHeld
  <2> QED
    BY <2>1, <2>2
<1>9. ReadIsFresh'
  <2>1. ASSUME NEW t2 \in Transactions, tx'[t2].read PROVE tx'[t2] = tx[t2]
    BY <1>3, <2>1
  <2> QED
    BY <1>4, <2>1
       DEF ReadIsFresh, ClaimIsFresh, AdjustIsFresh, Asks, Rows, Available, Correction
<1>10. Solvent'
  BY <1>4 DEF Solvent, Available
<1> QED
  BY <1>8, <1>9, <1>10

(* Other locks give nobody anything of an account.                         *)
LEMMA AsideKeeps ==
    ASSUME TypeInv, LocksHeld, ReadIsFresh, Solvent, NEW t \in Transactions, Aside(t)
    PROVE  LocksHeld' /\ ReadIsFresh' /\ Solvent'
<1>1. /\ \A t2 \in Transactions \ {t} : tx'[t2] = tx[t2]
      /\ tx'[t].request = tx[t].request /\ tx'[t].locked = tx[t].locked
      /\ tx'[t].got = tx[t].got /\ (tx[t].read => tx'[t].read) /\ tx[t] # Idle
      /\ UNCHANGED <<adjusted, debited, holder>>
  BY AsideTyped DEF entries
<1>2. \A t2 \in Transactions :
          /\ Rows(t2)' = Rows(t2) /\ tx'[t2].request = tx[t2].request
          /\ tx'[t2].locked = tx[t2].locked /\ tx'[t2].got = tx[t2].got
          /\ (tx[t2].read => tx'[t2].read)
          /\ \A op \in {"claim", "adjust"} : Asks(t2, op)' => Asks(t2, op)
  BY <1>1 DEF Rows, Asks
<1>3. LocksHeld'
  BY <1>1, <1>2 DEF LocksHeld, Takes
<1>4. ASSUME NEW t2 \in Transactions, Takes(t2), ~tx[t2].read PROVE tx[t2].got = {}
  BY <1>4 DEF LocksHeld
<1>5. ASSUME NEW t2 \in Transactions, Asks(t2, "claim")', tx'[t2].read
      PROVE  ClaimIsFresh(t2)'
  <2>1. ClaimIsFresh(t2)
    BY <1>2, <1>4, <1>5 DEF ReadIsFresh, ClaimIsFresh, Takes
  <2> QED
    BY <1>1, <1>2, <2>1 DEF ClaimIsFresh, Available
<1>6. ASSUME NEW t2 \in Transactions, Asks(t2, "adjust")', tx'[t2].read
      PROVE  AdjustIsFresh(t2)'
  <2>1. AdjustIsFresh(t2)
    BY <1>2, <1>4, <1>6 DEF ReadIsFresh, AdjustIsFresh, Takes
  <2> QED
    BY <1>1, <1>2, <2>1 DEF AdjustIsFresh, Available, Correction
<1> QED
  BY <1>1, <1>3, <1>5, <1>6 DEF ReadIsFresh, Solvent, Available

(* What is read under the locks is so.                                     *)
LEMMA ReadKeeps ==
    ASSUME TypeInv, LocksHeld, ReadIsFresh, Solvent, NEW t \in Transactions, Read(t)
    PROVE  LocksHeld' /\ ReadIsFresh' /\ Solvent'
<1>1. tx' = [tx EXCEPT ![t] = [tx[t] EXCEPT !.read = TRUE, !.got = Found(t)]]
  BY ReadTyped
<1>2. tx[t] \in Running /\ tx[t].request \in Requests
  BY RunningTypes DEF Read
<1>3. /\ \A t2 \in Transactions \ {t} : tx'[t2] = tx[t2]
      /\ tx'[t].locked = tx[t].locked /\ tx'[t].read = TRUE /\ tx'[t].got = Found(t)
      /\ tx'[t].request = tx[t].request /\ tx[t] # Idle
  <2>1. tx[t] # Idle
    BY DEF Read
  <2> PICK after : after = [tx[t] EXCEPT !.read = TRUE, !.got = Found(t)]
    OBVIOUS
  <2>2. /\ after.locked = tx[t].locked /\ after.read = TRUE /\ after.got = Found(t)
        /\ after.request = tx[t].request
    BY <1>2 DEF Running
  <2> QED
    BY <1>1, <2>1, <2>2 DEF TypeInv
<1>4. UNCHANGED <<adjusted, debited, holder>>
  BY DEF Read, entries
<1>5. Takes(t) => tx[t].locked = Len(Rows(t))
  BY DEF Read, Locked, LockOrder, RowsToLock, Rows, Takes, Asks
<1>6. \A t2 \in Transactions : Rows(t2)' = Rows(t2) /\ (Takes(t2)' => Takes(t2))
  BY <1>3 DEF Rows, Takes, Asks
<1>7. LocksHeld'
  BY <1>3, <1>4, <1>5, <1>6 DEF LocksHeld
<1>8. ReadIsFresh'
  <2> SUFFICES ASSUME NEW t2 \in Transactions, tx'[t2].read
               PROVE  /\ Asks(t2, "claim")' => ClaimIsFresh(t2)'
                      /\ Asks(t2, "adjust")' => AdjustIsFresh(t2)'
    BY DEF ReadIsFresh
  <2>1. CASE t2 # t
    BY <1>3, <1>4, <2>1
       DEF ReadIsFresh, ClaimIsFresh, AdjustIsFresh, Asks, Rows, Available, Correction
  <2>2. CASE t2 = t
    <3> PICK q : q = tx[t].request
      OBVIOUS
    <3>1. ASSUME q.op = "claim", NEW a \in ToSet(Rows(t)), NEW d \in Found(t)
          PROVE  Available(a, d) >= Need[q.action][d]
      <4>1. d \in Affordable(q.action)
        BY <3>1 DEF Found
      <4>2. Enough(q.action, d)
        BY <4>1, AffordableTyped
      <4>3. Rows(t) = Chain[Account[q.action]]
        BY <3>1 DEF Rows, Target
      <4> QED
        BY <3>1, <4>2, <4>3 DEF Enough
    <3>2. ASSUME q.op = "adjust"
          PROVE  /\ Found(t) \subseteq {q.dimension}
                 /\ \A a \in ToSet(Rows(t)), d \in Found(t) :
                        Available(a, d) + Correction(q, a) >= 0
      <4>1. Found(t) = IF Applicable(q) THEN {q.dimension} ELSE {}
        BY <3>2 DEF Found
      <4>2. Rows(t) = Chain[q.account]
        BY <3>2 DEF Rows, Target
      <4> QED
        BY <4>1, <4>2 DEF Applicable
    <3>3. /\ \A a, d : Available(a, d)' = Available(a, d)
          /\ \A a : Correction(tx[t].request, a)' = Correction(q, a)
      BY <1>3, <1>4 DEF Available, Correction
    <3>4. Asks(t, "claim")' => ClaimIsFresh(t)'
      BY <1>3, <1>6, <3>1, <3>3 DEF Asks, ClaimIsFresh
    <3>5. Asks(t, "adjust")' => AdjustIsFresh(t)'
      BY <1>3, <1>6, <3>2, <3>3 DEF Asks, AdjustIsFresh
    <3> QED
      BY <2>2, <3>4, <3>5
  <2> QED
    BY <2>1, <2>2
<1>9. Solvent'
  BY <1>4 DEF Solvent, Available
<1> QED
  BY <1>7, <1>8, <1>9
(* What a commit leaves available.  Only claims and corrections take.      *)
LEMMA ClaimSolvent ==
    ASSUME TypeInv, LocksHeld, ReadIsFresh, Solvent, NEW t \in Transactions, WriteClaim(t)
    PROVE  /\ Solvent'
           /\ \A a \in Accounts, d \in Dims :
                  holder[a] # t => Available(a, d)' >= Available(a, d)
<1> PICK x : x = tx[t].request.action
  OBVIOUS
<1>1. /\ tx[t].request \in Requests /\ tx[t].got \subseteq Dims
      /\ Asks(t, "claim") /\ tx[t].read
  BY RunningTypes DEF WriteClaim, TypeInv, Asks
<1>2. x \in Actions /\ Rows(t) = Chain[Account[x]]
  BY <1>1, RequestTypes DEF Asks, Rows, Target
<1>3. \A d \in Dims : Need[x][d] \in Nat
  BY <1>2, AmountAssumption
<1>4. ASSUME NEW a \in Accounts, NEW d \in Dims
      PROVE  /\ Available(a, d)' >= 0
             /\ holder[a] # t => Available(a, d)' >= Available(a, d)
  <2>1. CASE a \in ToSet(Rows(t)) /\ d \in tx[t].got
    <3>1. debited'[a][d] = debited[a][d] + Need[x][d] /\ adjusted' = adjusted
      BY <1>2, <2>1 DEF WriteClaim
    <3>2. Available(a, d) >= Need[x][d]
      BY <1>1, <2>1 DEF ReadIsFresh, ClaimIsFresh
    <3>3. holder[a] = t
      BY <1>1, <2>1, HoldsRows DEF Takes
    <3> QED
      BY <1>3, <3>1, <3>2, <3>3, AvailableTyped DEF Available
  <2>2. CASE ~(a \in ToSet(Rows(t)) /\ d \in tx[t].got)
    <3>1. debited'[a][d] = debited[a][d] /\ adjusted' = adjusted
      BY <1>2, <2>2 DEF WriteClaim
    <3> QED
      BY <3>1, AvailableTyped DEF Available, Solvent
  <2> QED
    BY <2>1, <2>2
<1> QED
  BY <1>4 DEF Solvent

(* A correction charges only what it has read to be available.             *)
LEMMA AdjustSolvent ==
    ASSUME TypeInv, LocksHeld, ReadIsFresh, Solvent, NEW t \in Transactions, WriteAdjust(t)
    PROVE  /\ Solvent'
           /\ \A a \in Accounts, d \in Dims :
                  holder[a] # t => Available(a, d)' >= Available(a, d)
<1> PICK q : q = tx[t].request
  OBVIOUS
<1>1. /\ q \in Requests /\ Asks(t, "adjust") /\ tx[t].read /\ tx[t].got # {}
  BY RunningTypes DEF WriteAdjust, TypeInv, Asks
<1>2. Rows(t) = Chain[q.account] /\ \A a : Correction(q, a) \in Int
  BY <1>1, RequestTypes DEF Asks, Rows, Target, Correction
<1>3. AdjustIsFresh(t)
  BY <1>1 DEF ReadIsFresh
<1>4. ASSUME NEW a \in Accounts, NEW d \in Dims
      PROVE  /\ Available(a, d)' >= 0
             /\ holder[a] # t => Available(a, d)' >= Available(a, d)
  <2>1. CASE a \in ToSet(Rows(t)) /\ d = q.dimension
    <3>1. adjusted'[a][d] = adjusted[a][d] + Correction(q, a) /\ debited' = debited
      BY <1>2, <2>1 DEF WriteAdjust
    <3>2. d \in tx[t].got
      BY <1>1, <1>3, <2>1 DEF AdjustIsFresh
    <3>3. Available(a, d) + Correction(q, a) >= 0
      BY <1>3, <2>1, <3>2 DEF AdjustIsFresh
    <3>4. holder[a] = t
      BY <1>1, <2>1, HoldsRows DEF Takes
    <3> QED
      BY <1>2, <3>1, <3>3, <3>4, AvailableTyped DEF Available
  <2>2. CASE ~(a \in ToSet(Rows(t)) /\ d = q.dimension)
    <3>1. adjusted'[a][d] = adjusted[a][d] /\ debited' = debited
      BY <1>2, <2>2 DEF WriteAdjust
    <3> QED
      BY <3>1, AvailableTyped DEF Available, Solvent
  <2> QED
    BY <2>1, <2>2
<1> QED
  BY <1>4 DEF Solvent

(* A settlement or cancellation only makes amounts available.              *)
LEMMA RefundSolvent ==
    ASSUME TypeInv, TypeInv', Solvent, NEW t \in Transactions, WriteSettle(t) \/ WriteCancel(t)
    PROVE  /\ Solvent'
           /\ \A a \in Accounts, d \in Dims : Available(a, d)' >= Available(a, d)
<1>1. \A a \in Accounts, d \in Dims : Available(a, d)' >= Available(a, d)
  <2>1. CASE WriteSettle(t)
    BY <2>1, SettleRefunds, RefundTyped DEF WriteSettle
  <2>2. CASE WriteCancel(t)
    BY <2>2, CancelRefunds, RefundTyped DEF WriteCancel
  <2> QED
    BY <2>1, <2>2
<1>2. \A a \in Accounts, d \in Dims : Available(a, d)' \in Int
  BY AmountAssumption DEF TypeInv, Available
<1> QED
  BY <1>1, <1>2, AvailableTyped DEF Solvent

(* Every step of every transaction keeps all accounts solvent.             *)
LEMMA LedgerStep == LedgerInv /\ [Next]_vars => LedgerInv'
<1> SUFFICES ASSUME TypeInv, LocksHeld, ReadIsFresh, Solvent, [Next]_vars
             PROVE  LedgerInv'
  BY DEF LedgerInv
<1>1. TypeInv'
  BY StepTyped
<1> SUFFICES LocksHeld' /\ ReadIsFresh' /\ Solvent'
  BY <1>1 DEF LedgerInv
<1>2. ASSUME UNCHANGED <<adjusted, debited, tx, holder>>
      PROVE  LocksHeld' /\ ReadIsFresh' /\ Solvent'
  BY <1>2 DEF LocksHeld, ReadIsFresh, ClaimIsFresh, AdjustIsFresh, Takes, Asks, Rows,
              Available, Correction, Solvent
<1>3. ASSUME NEW a \in Accounts, CreateAccount(a)
      PROVE  LocksHeld' /\ ReadIsFresh' /\ Solvent'
  BY <1>2, <1>3 DEF CreateAccount, entries
<1>4. ASSUME NEW t \in Transactions, NEW q \in Requests, Begin(t, q)
      PROVE  LocksHeld' /\ ReadIsFresh' /\ Solvent'
  BY <1>4, BeginKeeps
<1>5. ASSUME NEW t \in Transactions, LockNext(t) \/ Aside(t)
      PROVE  LocksHeld' /\ ReadIsFresh' /\ Solvent'
  BY <1>5, LockNextKeeps, AsideKeeps
<1>6. ASSUME NEW t \in Transactions, Read(t)
      PROVE  LocksHeld' /\ ReadIsFresh' /\ Solvent'
  BY <1>6, ReadKeeps
<1>7. ASSUME NEW t \in Transactions, Conclude(t)
      PROVE  LocksHeld' /\ ReadIsFresh' /\ Solvent'
  <2>1. CASE WriteClaim(t)
    <3>1. Finish(t)
      BY <2>1 DEF WriteClaim
    <3> QED
      BY <1>1, <2>1, <3>1, ClaimSolvent, OthersUndisturbed
  <2>2. CASE WriteSettle(t) \/ WriteCancel(t)
    <3>1. Finish(t)
      BY <2>2 DEF WriteSettle, WriteCancel
    <3> QED
      BY <1>1, <2>2, <3>1, RefundSolvent, OthersUndisturbed
  <2>3. CASE WriteAdjust(t)
    <3>1. Finish(t)
      BY <2>3 DEF WriteAdjust
    <3> QED
      BY <1>1, <2>3, <3>1, AdjustSolvent, OthersUndisturbed
  <2>4. CASE RefuseAdjust(t)
    <3>1. Finish(t) /\ UNCHANGED <<adjusted, debited>>
      BY <2>4 DEF RefuseAdjust, entries
    <3>2. \A a \in Accounts, d \in Dims : Available(a, d)' >= Available(a, d)
      BY <3>1, AvailableTyped DEF Available
    <3>3. Solvent'
      BY <3>1 DEF Solvent, Available
    <3> QED
      BY <1>1, <3>1, <3>2, <3>3, OthersUndisturbed
  <2> QED
    BY <1>7, <2>1, <2>2, <2>3, <2>4 DEF Conclude
<1>8. ASSUME NEW t \in Transactions, Rollback(t)
      PROVE  LocksHeld' /\ ReadIsFresh' /\ Solvent'
  <2>1. Finish(t) /\ UNCHANGED <<adjusted, debited>>
    BY <1>8 DEF Rollback, entries
  <2>2. \A a \in Accounts, d \in Dims : Available(a, d)' >= Available(a, d)
    BY <2>1, AvailableTyped DEF Available
  <2>3. Solvent'
    BY <2>1 DEF Solvent, Available
  <2> QED
    BY <1>1, <2>1, <2>2, <2>3, OthersUndisturbed
<1> QED
  BY <1>2, <1>3, <1>4, <1>5, <1>6, <1>7, <1>8 DEF Next, Aside, vars

(* The empty ledger is solvent.                                            *)
LEMMA LedgerStart == Init => LedgerInv
<1> SUFFICES ASSUME Init PROVE LedgerInv
  OBVIOUS
<1>1. TypeInv
  BY StartTyped
<1>2. LocksHeld /\ ReadIsFresh
  BY DEF Init, LocksHeld, ReadIsFresh, Takes, Asks
<1>3. Solvent
  BY AmountAssumption DEF Init, Solvent, Available
<1> QED
  BY <1>1, <1>2, <1>3 DEF LedgerInv

(* The locks are held and what was read stays true, in every reachable     *)
(* state: the reason why no account is overspent.                          *)
THEOREM LedgerIsSolvent == Spec => []LedgerInv
  BY LedgerStart, LedgerStep, PTL DEF Spec

(* However claims, settlements, cancellations and corrections of any       *)
(* number of transactions interleave, no account of the tree is ever       *)
(* overspent in any dimension.                                             *)
THEOREM AccountsNeverOverspent == Spec => []NeverOverspent
<1>1. LedgerInv => NeverOverspent
  BY DEF LedgerInv, TypeInv, Solvent, NeverOverspent
<1> QED
  BY <1>1, LedgerIsSolvent, PTL
-----------------------------------------------------------------------------
(* Work stays charged.                                                     *)

(* One transaction at a time acts on an attempt, and finds it where its    *)
(* request expects it.                                                     *)
SoleActor ==
    /\ \A t1, t2 \in Transactions :
           /\ tx[t1] # Idle /\ ~Asks(t1, "adjust")
           /\ tx[t2] # Idle /\ ~Asks(t2, "adjust")
           /\ tx[t1].request.action = tx[t2].request.action
           => t1 = t2
    /\ \A t \in Transactions :
           /\ Asks(t, "claim") => attempt[tx[t].request.action] = "none"
           /\ Asks(t, "cancel") \/ Asks(t, "fail") \/ Asks(t, "settle") =>
                  attempt[tx[t].request.action] = "granted"

(* What the reservation of a dimension looks like in each state of its     *)
(* attempt.                                                                *)
Charge(x, d) ==
    /\ attempt[x] = "none" => status[x][d] = "none"
    /\ attempt[x] = "granted" => status[x][d] = "ACTIVE"
    /\ attempt[x] = "refused" => status[x][d] \in {"none", "ACTIVE"}
    /\ attempt[x] \in {"none", "granted", "refused"} =>
           committed[x][d] = 0 /\ released[x][d] = 0
    /\ attempt[x] = "settled" =>
           /\ status[x][d] # "none"
           /\ committed[x][d] = 0 => released[x][d] = 0
           /\ committed[x][d] + released[x][d] <= Need[x][d]
    /\ attempt[x] = "cancelled" => committed[x][d] = 0 /\ released[x][d] = Need[x][d]

ChargeInv == TypeInv /\ SoleActor /\ \A x \in Actions, d \in Dims : Charge(x, d)
(* Nothing was reported yet.                                               *)
LEMMA ChargeStart == Init => ChargeInv
  BY StartTyped DEF Init, ChargeInv, SoleActor, Charge, Asks

(* A transaction that ends has changed at most its own attempt.            *)
LEMMA SoleActorFinish ==
    ASSUME TypeInv, SoleActor, NEW t \in Transactions, tx[t] # Idle, Finish(t),
           \A x \in Actions : Asks(t, "adjust") \/ x # tx[t].request.action =>
                                   attempt'[x] = attempt[x]
    PROVE  SoleActor'
<1>1. tx'[t] = Idle /\ \A t2 \in Transactions \ {t} : tx'[t2] = tx[t2]
  BY FinishTyped
<1>2. ASSUME NEW t2 \in Transactions, tx'[t2] # Idle, ~Asks(t2, "adjust")'
      PROVE  /\ tx'[t2] = tx[t2] /\ tx[t2] # Idle /\ ~Asks(t2, "adjust") /\ t2 # t
             /\ attempt'[tx[t2].request.action] = attempt[tx[t2].request.action]
  <2>1. tx'[t2] = tx[t2] /\ t2 # t /\ tx[t2] # Idle /\ ~Asks(t2, "adjust")
    BY <1>1, <1>2 DEF Asks
  <2>2. tx[t2].request \in Requests /\ tx[t2].request.op # "adjust"
    BY <2>1, RunningTypes DEF Asks
  <2>3. tx[t2].request.action \in Actions
    BY <2>2, RequestTypes
  <2>4. Asks(t, "adjust") \/ tx[t2].request.action # tx[t].request.action
    BY <2>1 DEF SoleActor
  <2> QED
    BY <2>1, <2>3, <2>4
<1> QED
  BY <1>2 DEF SoleActor, Asks

(* Until it ends, it keeps its request and changes no attempt.             *)
LEMMA SoleActorGoesOn ==
    ASSUME TypeInv, SoleActor, NEW t \in Transactions, LockNext(t) \/ Aside(t) \/ Read(t)
    PROVE  SoleActor'
<1>1. /\ \A t2 \in Transactions \ {t} : tx'[t2] = tx[t2]
      /\ tx'[t].request = tx[t].request /\ tx[t] # Idle /\ attempt' = attempt
  <2>1. tx[t] \in Running /\ tx[t] # Idle /\ attempt' = attempt
    BY RunningTypes, AsideTyped DEF LockNext, WantsRow, Read
  <2>2. CASE LockNext(t)
    BY <2>1, <2>2, LockNextTyped DEF TypeInv, Running
  <2>3. CASE Read(t)
    <3> PICK after : after = [tx[t] EXCEPT !.read = TRUE, !.got = Found(t)]
      OBVIOUS
    <3>1. after.request = tx[t].request
      BY <2>1 DEF Running
    <3> QED
      BY <2>1, <2>3, <3>1, ReadTyped DEF TypeInv
  <2> QED
    BY <2>2, <2>3, AsideTyped
<1> QED
  BY <1>1 DEF SoleActor, Asks

(* Only one transaction acts for an action when one begins.                *)
LEMMA SoleActorBegins ==
    ASSUME TypeInv, SoleActor, NEW t \in Transactions, NEW q \in Requests, Begin(t, q)
    PROVE  SoleActor'
<1>1. /\ \A t2 \in Transactions \ {t} : tx'[t2] = tx[t2]
      /\ tx'[t].request = q /\ attempt' = attempt
  BY DEF Begin, TypeInv
<1>2. q.op # "adjust" => Mine(q)
  BY RequestTypes DEF Begin, Legal
<1>3. /\ q.op = "claim" => attempt[q.action] = "none"
      /\ q.op \in {"cancel", "fail", "settle"} => attempt[q.action] = "granted"
  BY DEF Begin, Legal
<1>4. ASSUME NEW t2 \in Transactions, t2 # t, tx[t2] # Idle, ~Asks(t2, "adjust"),
             q.op # "adjust"
      PROVE  tx[t2].request.action # q.action
  BY <1>2, <1>4 DEF Mine, Asks
<1> QED
  BY <1>1, <1>3, <1>4 DEF SoleActor, Asks

(* A claim reserves, or refuses the attempt.                               *)
LEMMA ClaimCharges ==
    ASSUME ChargeInv, NEW t \in Transactions, WriteClaim(t), NEW x \in Actions, NEW d \in Dims
    PROVE  Charge(x, d)'
<1>1. tx[t].request.action \in Actions /\ attempt[tx[t].request.action] = "none"
  BY RunningTypes, RequestTypes DEF WriteClaim, ChargeInv, SoleActor, Asks
<1>2. Charge(x, d) /\ TypeInv
  BY DEF ChargeInv
<1>3. CASE x = tx[t].request.action
  BY <1>1, <1>2, <1>3 DEF WriteClaim, Charge, TypeInv
<1>4. CASE x # tx[t].request.action
  BY <1>1, <1>2, <1>4 DEF WriteClaim, Charge, TypeInv
<1> QED
  BY <1>3, <1>4

(* A settlement commits what was reported; what it credits back is what    *)
(* remains.                                                                *)
LEMMA SettleCharges ==
    ASSUME ChargeInv, NEW t \in Transactions, WriteSettle(t), NEW x \in Actions, NEW d \in Dims
    PROVE  Charge(x, d)'
<1> PICK y : y = tx[t].request.action
  OBVIOUS
<1> PICK u : u = tx[t].request.usage
  OBVIOUS
<1>1. y \in Actions /\ u \in [Dims -> Nat] /\ TypeInv /\ Charge(x, d)
  BY SettleRefunds DEF ChargeInv
<1>2. attempt[y] = "granted"
  BY DEF WriteSettle, ChargeInv, SoleActor, Asks
<1>3. CASE x = y
  <2>1. status[y][d] = "ACTIVE" /\ committed[y][d] = 0 /\ released[y][d] = 0
    BY <1>1, <1>2, <1>3 DEF Charge
  <2>2. attempt'[y] = "settled"
    BY <1>1 DEF WriteSettle, TypeInv
  <2>3. committed'[y][d] = IF u[d] > 0 THEN Need[y][d] - Unused(y, u, d) ELSE 0
    BY <1>1, <2>1 DEF WriteSettle, Reported, TypeInv
  <2>4. released'[y][d] = released[y][d] + Unused(y, u, d)
    BY <1>1 DEF WriteSettle, TypeInv
  <2>5. status'[y][d] \in {"RELEASED", "COMMITTED", status[y][d]}
    BY <1>1 DEF WriteSettle, TypeInv
  <2> QED
    BY <1>1, <1>3, <2>1, <2>2, <2>3, <2>4, <2>5, UnusedIsPart DEF Charge
<1>4. CASE x # y
  BY <1>1, <1>4 DEF WriteSettle, Charge, TypeInv
<1> QED
  BY <1>3, <1>4

(* A cancellation credits the whole reservation back.                      *)
LEMMA CancelCharges ==
    ASSUME ChargeInv, NEW t \in Transactions, WriteCancel(t), NEW x \in Actions, NEW d \in Dims
    PROVE  Charge(x, d)'
<1> PICK y : y = tx[t].request.action
  OBVIOUS
<1>1. y \in Actions /\ TypeInv /\ Charge(x, d)
  BY CancelRefunds DEF ChargeInv
<1>2. attempt[y] = "granted"
  BY DEF WriteCancel, ChargeInv, SoleActor, Asks
<1>3. CASE x = y
  <2>1. status[y][d] = "ACTIVE" /\ committed[y][d] = 0 /\ released[y][d] = 0
    BY <1>1, <1>2, <1>3 DEF Charge
  <2>2. attempt'[y] = "cancelled" /\ committed' = committed
    BY <1>1 DEF WriteCancel, TypeInv
  <2>3. released'[y][d] = released[y][d] + Need[y][d]
    BY <1>1, <2>1 DEF WriteCancel, TypeInv
  <2>4. Need[y][d] \in Nat
    BY <1>1, AmountAssumption
  <2> QED
    BY <1>3, <2>1, <2>2, <2>3, <2>4 DEF Charge
<1>4. CASE x # y
  BY <1>1, <1>4 DEF WriteCancel, Charge, TypeInv
<1> QED
  BY <1>3, <1>4

(* Every step keeps what was reported charged.                             *)
LEMMA ChargeStep == ChargeInv /\ [Next]_vars => ChargeInv'
<1> SUFFICES ASSUME ChargeInv, [Next]_vars
             PROVE  SoleActor' /\ \A x \in Actions, d \in Dims : Charge(x, d)'
  BY StepTyped DEF ChargeInv
<1>1. TypeInv /\ SoleActor /\ \A x \in Actions, d \in Dims : Charge(x, d)
  BY DEF ChargeInv
<1>2. ASSUME UNCHANGED <<status, committed, released, attempt>>
      PROVE  \A x \in Actions, d \in Dims : Charge(x, d)'
  BY <1>1, <1>2 DEF Charge
<1>3. ASSUME NEW a \in Accounts, CreateAccount(a)
      PROVE  SoleActor' /\ \A x \in Actions, d \in Dims : Charge(x, d)'
  BY <1>1, <1>2, <1>3 DEF CreateAccount, entries, SoleActor, Asks
<1>4. ASSUME NEW t \in Transactions, NEW q \in Requests, Begin(t, q)
      PROVE  SoleActor' /\ \A x \in Actions, d \in Dims : Charge(x, d)'
  BY <1>1, <1>2, <1>4, SoleActorBegins DEF Begin, entries
<1>5. ASSUME NEW t \in Transactions, LockNext(t) \/ Aside(t) \/ Read(t)
      PROVE  SoleActor' /\ \A x \in Actions, d \in Dims : Charge(x, d)'
  BY <1>1, <1>2, <1>5, SoleActorGoesOn, AsideTyped DEF LockNext, Read, entries
<1>6. ASSUME NEW t \in Transactions, WriteClaim(t) \/ WriteSettle(t) \/ WriteCancel(t)
      PROVE  SoleActor' /\ \A x \in Actions, d \in Dims : Charge(x, d)'
  <2>1. tx[t] # Idle /\ Finish(t)
    BY <1>6 DEF WriteClaim, WriteSettle, WriteCancel
  <2>2. \A x \in Actions : x # tx[t].request.action => attempt'[x] = attempt[x]
    BY <1>1, <1>6 DEF WriteClaim, WriteSettle, WriteCancel, TypeInv
  <2>3. \A x \in Actions : Asks(t, "adjust") \/ x # tx[t].request.action =>
                                attempt'[x] = attempt[x]
    BY <1>6, <2>2 DEF WriteClaim, WriteSettle, WriteCancel, Asks
  <2>4. SoleActor'
    BY <1>1, <2>1, <2>3, SoleActorFinish
  <2> QED
    BY <1>6, <2>4, ClaimCharges, SettleCharges, CancelCharges
<1>7. ASSUME NEW t \in Transactions, WriteAdjust(t) \/ RefuseAdjust(t) \/ Rollback(t)
      PROVE  SoleActor' /\ \A x \in Actions, d \in Dims : Charge(x, d)'
  <2>1. /\ tx[t] # Idle /\ Finish(t)
        /\ UNCHANGED <<status, committed, released, attempt>>
    BY <1>7 DEF WriteAdjust, RefuseAdjust, Rollback, entries
  <2> QED
    BY <1>1, <1>2, <2>1, SoleActorFinish
<1>8. ASSUME UNCHANGED vars
      PROVE  SoleActor' /\ \A x \in Actions, d \in Dims : Charge(x, d)'
  BY <1>1, <1>2, <1>8 DEF vars, SoleActor, Asks
<1> QED
  BY <1>3, <1>4, <1>5, <1>6, <1>7, <1>8 DEF Next, Aside, Conclude

(* Work that was reported, or that nobody reported on, is never refunded,  *)
(* whatever the usages and the order of the settlements.                   *)
THEOREM ReportedWorkStaysCharged == Spec => []WorkStaysCharged
<1>1. ASSUME ChargeInv PROVE WorkStaysCharged
  <2> SUFFICES ASSUME NEW x \in Actions, NEW d \in Dims
               PROVE  /\ Outstanding(x, d) >= committed[x][d]
                      /\ attempt[x] = "settled" /\ committed[x][d] = 0 =>
                             Outstanding(x, d) = Need[x][d]
    BY DEF WorkStaysCharged
  <2>1. Charge(x, d) /\ committed[x][d] \in Nat /\ released[x][d] \in Nat
    BY <1>1 DEF ChargeInv, TypeInv
  <2>2. Need[x][d] \in Nat \ {0}
    BY AmountAssumption
  <2>3. attempt[x] \in {"none", "granted", "refused", "settled", "cancelled"}
    BY <1>1 DEF ChargeInv, TypeInv
  <2>4. CASE attempt[x] \in {"none", "granted", "refused"}
    BY <2>1, <2>2, <2>4 DEF Charge, Outstanding
  <2>5. CASE attempt[x] = "settled"
    <3>1. Outstanding(x, d) = Need[x][d] - released[x][d]
      BY <2>1, <2>5 DEF Charge, Outstanding
    <3>2. committed[x][d] + released[x][d] <= Need[x][d]
      BY <2>1, <2>5 DEF Charge
    <3>3. committed[x][d] = 0 => released[x][d] = 0
      BY <2>1, <2>5 DEF Charge
    <3> QED
      BY <2>1, <2>2, <3>1, <3>2, <3>3
  <2>6. CASE attempt[x] = "cancelled"
    BY <2>1, <2>2, <2>6 DEF Charge, Outstanding
  <2> QED
    BY <2>3, <2>4, <2>5, <2>6
<1>2. Spec => []ChargeInv
  BY ChargeStart, ChargeStep, PTL DEF Spec
<1> QED
  BY <1>1, <1>2, PTL
-----------------------------------------------------------------------------
(* The ledger agrees with the reservations.                                *)

(* What an action holds of a dimension, by its reservation and what was    *)
(* released of it; and the sum of that over a set of actions.              *)
Held(st, rel, d, x) == IF st[x][d] = "none" THEN 0 ELSE Need[x][d] - rel[x][d]
Total(st, rel, d, S) == MapThenSumSet(LAMBDA x : Held(st, rel, d, x), S)

(* Sums are taken one element after the other.                             *)
Pick(s) == CHOOSE x \in s : TRUE

(* h is the sum for each set of D, by recursion.                           *)
Sums(h, st, rel, d, D) ==
    h = [s \in D |-> IF s = {} THEN 0 ELSE Held(st, rel, d, Pick(s)) + h[s \ {Pick(s)}]]

(* Induction over the naturals, for a set of them.                         *)
LEMMA NatInd ==
    ASSUME NEW T \in SUBSET Nat, 0 \in T, \A n \in T : n + 1 \in T
    PROVE  T = Nat
<1> SUFFICES ASSUME Nat \ T # {} PROVE FALSE
  OBVIOUS
<1>1. PICK m \in Nat \ T : \A y \in Nat \ T : ~(<<y, m>> \in OpToRel(<, Nat))
  BY NatLessThanWellFounded, WFMin
<1>2. m \in Nat /\ m \notin T /\ m # 0
  BY <1>1
<1>3. m - 1 \in Nat /\ m - 1 < m
  BY <1>2
<1>4. <<m - 1, m>> \in OpToRel(<, Nat)
  BY <1>2, <1>3 DEF OpToRel
<1>5. m - 1 \in T
  BY <1>1, <1>3, <1>4
<1>6. (m - 1) + 1 \in T
  BY <1>5
<1>7. (m - 1) + 1 = m
  BY <1>2
<1> QED BY <1>2, <1>6, <1>7

(* Such a recursion has a solution on the subsets of a finite set: one for *)
(* the sets up to a size yields one for the next size.                     *)
LEMMA SumsExist ==
    ASSUME NEW st, NEW rel, NEW d, NEW S, IsFiniteSet(S)
    PROVE  \E h : Sums(h, st, rel, d, SUBSET S)
<1> DEFINE D(n) == {s \in SUBSET S : Cardinality(s) <= n}
           G == {n \in Nat : \E h : Sums(h, st, rel, d, D(n))}
<1>0. \A s \in SUBSET S :
          IsFiniteSet(s) /\ Cardinality(s) \in Nat /\ Cardinality(s) <= Cardinality(S)
  BY FS_Subset, FS_CardinalityType
<1>1. 0 \in G
  <2>1. D(0) = {{}}
    BY <1>0, FS_EmptySet
  <2>2. Sums([s \in {{}} |-> 0], st, rel, d, D(0))
    BY <2>1 DEF Sums
  <2> QED BY <2>2
<1>2. ASSUME NEW n \in G PROVE n + 1 \in G
  <2> PICK h : Sums(h, st, rel, d, D(n))
    OBVIOUS
  <2> DEFINE E(k) == [s \in D(n + 1) |-> IF s = {} THEN 0
                                        ELSE Held(st, rel, d, Pick(s)) + k[s \ {Pick(s)}]]
  <2>1. ASSUME NEW s \in D(n + 1), s # {}
        PROVE  s \ {Pick(s)} \in D(n) /\ s \ {Pick(s)} \in D(n + 1)
    <3>1. Pick(s) \in s
      BY <2>1 DEF Pick
    <3>2. Cardinality(s \ {Pick(s)}) = Cardinality(s) - 1
      BY <1>0, <3>1, FS_RemoveElement
    <3>3. s \ {Pick(s)} \in SUBSET S /\ Cardinality(s) \in Nat /\ Cardinality(s) <= n + 1
      BY <1>0
    <3>4. Cardinality(s \ {Pick(s)}) <= n /\ Cardinality(s \ {Pick(s)}) <= n + 1
      BY <3>2, <3>3
    <3> QED BY <3>3, <3>4
  <2>2. \A s \in D(n) : s \in D(n + 1)
    BY <1>0
  <2> HIDE DEF D
  <2>3. ASSUME NEW s \in D(n) PROVE E(h)[s] = h[s]
    BY <2>2, <2>3 DEF Sums
  <2>4. E(h) = E(E(h))
    <3>1. \A s \in D(n + 1) : s # {} => E(h)[s \ {Pick(s)}] = h[s \ {Pick(s)}]
      BY <2>1, <2>3
    <3> QED BY <3>1
  <2>5. Sums(E(h), st, rel, d, D(n + 1))
    BY <2>4 DEF Sums
  <2>6. n + 1 \in Nat
    OBVIOUS
  <2> QED BY <2>5, <2>6
<1>3. Cardinality(S) \in G
  BY <1>1, <1>2, NatInd, FS_CardinalityType
<1>4. D(Cardinality(S)) = SUBSET S
  BY <1>0
<1> QED BY <1>3, <1>4

(* The total is that sum.                                                  *)
LEMMA TotalIs ==
    ASSUME NEW st, NEW rel, NEW d, NEW S, IsFiniteSet(S)
    PROVE  \E g : Sums(g, st, rel, d, SUBSET S) /\ Total(st, rel, d, S) = g[S]
<1> DEFINE g == CHOOSE k : Sums(k, st, rel, d, SUBSET S)
<1>1. Sums(g, st, rel, d, SUBSET S)
  BY SumsExist
<1>2. Total(st, rel, d, S) = g[S]
  BY DEF Total, MapThenSumSet, MapThenFoldSet, Sums, Pick
<1> QED BY <1>1, <1>2

(* When one action holds k more, so does every sum it is part of.          *)
LEMMA SumsMoved ==
    ASSUME NEW st, NEW rel, NEW st2, NEW rel2, NEW d, NEW S, IsFiniteSet(S), NEW y, NEW k \in Int,
           \A x \in S : /\ Held(st, rel, d, x) \in Int
                        /\ Held(st2, rel2, d, x) = Held(st, rel, d, x) + IF x = y THEN k ELSE 0,
           NEW g, Sums(g, st, rel, d, SUBSET S), NEW h, Sums(h, st2, rel2, d, SUBSET S)
    PROVE  g[S] \in Int /\ h[S] = g[S] + IF y \in S THEN k ELSE 0
<1> DEFINE Good(s) == g[s] \in Int /\ h[s] = g[s] + IF y \in s THEN k ELSE 0
           G == {n \in Nat : \A s \in SUBSET S : Cardinality(s) = n => Good(s)}
<1>0. \A s \in SUBSET S : IsFiniteSet(s) /\ Cardinality(s) \in Nat
  BY FS_Subset, FS_CardinalityType
<1>1. 0 \in G
  <2>1. \A s \in SUBSET S : Cardinality(s) = 0 => s = {}
    BY <1>0, FS_EmptySet
  <2>2. g[{}] = 0 /\ h[{}] = 0
    BY DEF Sums
  <2>3. Good({})
    BY <2>2
  <2> HIDE DEF Good
  <2> QED BY <2>1, <2>3
<1>2. ASSUME NEW n \in G PROVE n + 1 \in G
  <2> SUFFICES ASSUME NEW s \in SUBSET S, Cardinality(s) = n + 1 PROVE Good(s)
    OBVIOUS
  <2>1. s # {} /\ IsFiniteSet(s)
    BY <1>0, FS_EmptySet
  <2> PICK x : x = Pick(s)
    OBVIOUS
  <2>2. x \in s /\ x \in S
    BY <2>1 DEF Pick
  <2>3. s \ {x} \in SUBSET S /\ Cardinality(s \ {x}) = n
    <3>1. Cardinality(s \ {x}) = Cardinality(s) - 1
      BY <2>1, <2>2, FS_RemoveElement
    <3> QED BY <3>1
  <2>4. Good(s \ {x})
    BY <2>3
  <2>5. /\ g[s] = Held(st, rel, d, x) + g[s \ {x}]
        /\ h[s] = Held(st2, rel2, d, x) + h[s \ {x}]
    BY <2>1 DEF Sums
  <2>6. y \in s <=> (y \in s \ {x} \/ x = y)
    BY <2>2
  <2>7. x = y => y \notin s \ {x}
    OBVIOUS
  <2> HIDE DEF G
  <2> QED BY <2>2, <2>4, <2>5, <2>6, <2>7
<1>3. Cardinality(S) \in G
  <2>1. G \in SUBSET Nat
    OBVIOUS
  <2> HIDE DEF G
  <2>2. G = Nat
    BY <1>1, <1>2, <2>1, NatInd
  <2> QED BY <2>2, FS_CardinalityType
<1> QED BY <1>3

(* Of the actions of S, y holds k more.                                    *)
Moves(st, rel, st2, rel2, d, S, y, k) ==
    \A x \in S : /\ Held(st, rel, d, x) \in Int
                 /\ Held(st2, rel2, d, x) = Held(st, rel, d, x) + IF x = y THEN k ELSE 0

(* So does the total.                                                      *)
LEMMA TotalMoved ==
    ASSUME NEW st, NEW rel, NEW st2, NEW rel2, NEW d, NEW S, IsFiniteSet(S), NEW y, NEW k \in Int,
           Moves(st, rel, st2, rel2, d, S, y, k)
    PROVE  Total(st2, rel2, d, S) = Total(st, rel, d, S) + IF y \in S THEN k ELSE 0
<1>1. PICK g : Sums(g, st, rel, d, SUBSET S) /\ Total(st, rel, d, S) = g[S]
  BY TotalIs
<1>2. PICK h : Sums(h, st2, rel2, d, SUBSET S) /\ Total(st2, rel2, d, S) = h[S]
  BY TotalIs
<1> QED BY <1>1, <1>2, SumsMoved DEF Moves

(* What agreement means, in these words, before a step and after it.       *)
LEMMA AgreesMeans ==
    /\ LedgerAgrees <=>
           \A a \in Accounts, d \in Dims : debited[a][d] = Total(status, released, d, Below(a))
    /\ LedgerAgrees' <=>
           \A a \in Accounts, d \in Dims : debited'[a][d] = Total(status', released', d, Below(a))
<1>1. LedgerAgrees <=>
          \A a \in Accounts, d \in Dims : debited[a][d] = Total(status, released, d, Below(a))
  BY DEF LedgerAgrees, Total, Outstanding, Held, MapThenSumSet, MapThenFoldSet
<1>2. LedgerAgrees' <=>
          \A a \in Accounts, d \in Dims : debited'[a][d] = Total(status', released', d, Below(a))
  BY DEF LedgerAgrees, Total, Outstanding, Held, MapThenSumSet, MapThenFoldSet
<1> QED BY <1>1, <1>2

(* The total of amounts that are never negative is not negative, and of    *)
(* nothing it is nothing.                                                  *)
LEMMA SumsBounded ==
    ASSUME NEW st, NEW rel, NEW d, NEW S, IsFiniteSet(S),
           \A x \in S : Held(st, rel, d, x) \in Nat,
           NEW g, Sums(g, st, rel, d, SUBSET S)
    PROVE  g[S] \in Nat /\ ((\A x \in S : Held(st, rel, d, x) = 0) => g[S] = 0)
<1> DEFINE None == \A x \in S : Held(st, rel, d, x) = 0
           Good(s) == g[s] \in Nat /\ (None => g[s] = 0)
           G == {n \in Nat : \A s \in SUBSET S : Cardinality(s) = n => Good(s)}
<1>0. \A s \in SUBSET S : IsFiniteSet(s) /\ Cardinality(s) \in Nat
  BY FS_Subset, FS_CardinalityType
<1>1. 0 \in G
  <2>1. \A s \in SUBSET S : Cardinality(s) = 0 => s = {}
    BY <1>0, FS_EmptySet
  <2>2. g[{}] = 0
    BY DEF Sums
  <2>3. Good({})
    BY <2>2
  <2> HIDE DEF Good
  <2> QED BY <2>1, <2>3
<1>2. ASSUME NEW n \in G PROVE n + 1 \in G
  <2> SUFFICES ASSUME NEW s \in SUBSET S, Cardinality(s) = n + 1 PROVE Good(s)
    OBVIOUS
  <2>1. s # {} /\ IsFiniteSet(s)
    BY <1>0, FS_EmptySet
  <2> PICK x : x = Pick(s)
    OBVIOUS
  <2>2. x \in s /\ x \in S
    BY <2>1 DEF Pick
  <2>3. s \ {x} \in SUBSET S /\ Cardinality(s \ {x}) = n
    <3>1. Cardinality(s \ {x}) = Cardinality(s) - 1
      BY <2>1, <2>2, FS_RemoveElement
    <3> QED BY <3>1
  <2>4. Good(s \ {x})
    BY <2>3
  <2>5. g[s] = Held(st, rel, d, x) + g[s \ {x}]
    BY <2>1 DEF Sums
  <2> HIDE DEF G
  <2> QED BY <2>2, <2>4, <2>5
<1>3. Cardinality(S) \in G
  <2>1. G \in SUBSET Nat
    OBVIOUS
  <2> HIDE DEF G
  <2>2. G = Nat
    BY <1>1, <1>2, <2>1, NatInd
  <2> QED BY <2>2, FS_CardinalityType
<1> QED BY <1>3

(* So with the total.                                                      *)
LEMMA TotalBounded ==
    ASSUME NEW st, NEW rel, NEW d, NEW S, IsFiniteSet(S),
           \A x \in S : Held(st, rel, d, x) \in Nat
    PROVE  /\ Total(st, rel, d, S) \in Nat
           /\ (\A x \in S : Held(st, rel, d, x) = 0) => Total(st, rel, d, S) = 0
<1>1. PICK g : Sums(g, st, rel, d, SUBSET S) /\ Total(st, rel, d, S) = g[S]
  BY TotalIs
<1> QED BY <1>1, SumsBounded

(* One action's reservations change, and every account above it is debited *)
(* by as much.                                                             *)
LEMMA AgreesMoved ==
    ASSUME IsFiniteSet(Actions), TypeInv, LedgerAgrees, NEW x \in Actions, NEW k \in [Dims -> Int],
           \A a \in Accounts, d \in Dims :
               debited'[a][d] = debited[a][d] + IF x \in Below(a) THEN k[d] ELSE 0,
           \A y \in Actions, d \in Dims :
               Held(status', released', d, y)
                   = Held(status, released, d, y) + IF y = x THEN k[d] ELSE 0
    PROVE  LedgerAgrees'
<1> SUFFICES ASSUME NEW a \in Accounts, NEW d \in Dims
             PROVE  debited'[a][d] = Total(status', released', d, Below(a))
  BY AgreesMeans
<1>1. debited[a][d] = Total(status, released, d, Below(a))
  BY AgreesMeans
<1>2. Below(a) \in SUBSET Actions /\ IsFiniteSet(Below(a)) /\ k[d] \in Int
  BY FS_Subset DEF Below
<1>3. ASSUME NEW y \in Actions PROVE Held(status, released, d, y) \in Int
  <2>1. Need[y][d] \in Nat /\ released[y][d] \in Nat
    BY AmountAssumption DEF TypeInv
  <2> QED BY <2>1 DEF Held
<1>4. Moves(status, released, status', released', d, Below(a), x, k[d])
  BY <1>2, <1>3 DEF Moves
<1>5. Total(status', released', d, Below(a))
          = Total(status, released, d, Below(a)) + IF x \in Below(a) THEN k[d] ELSE 0
  BY <1>2, <1>4, TotalMoved
<1> QED BY <1>1, <1>5

(* The accounts above an action are those of its chain.                    *)
LEMMA BelowMeans ==
    ASSUME NEW x \in Actions, NEW a \in Accounts
    PROVE  x \in Below(a) <=> a \in ToSet(Chain[Account[x]])
  BY DEF Below

(* A claim debits what it reserves.                                        *)
LEMMA ClaimAgrees ==
    ASSUME IsFiniteSet(Actions), ChargeInv, LedgerAgrees, NEW t \in Transactions, WriteClaim(t)
    PROVE  LedgerAgrees'
<1> PICK x : x = tx[t].request.action
  OBVIOUS
<1> PICK got : got = tx[t].got
  OBVIOUS
<1> PICK k : k = [d \in Dims |-> IF d \in got THEN Need[x][d] ELSE 0]
  OBVIOUS
<1>1. x \in Actions /\ attempt[x] = "none" /\ TypeInv
  BY RunningTypes, RequestTypes DEF WriteClaim, ChargeInv, SoleActor, Asks
<1>2. \A d \in Dims : Need[x][d] \in Nat
  BY <1>1, AmountAssumption
<1>3. k \in [Dims -> Int]
  BY <1>2
<1>4. ASSUME NEW a \in Accounts, NEW d \in Dims
      PROVE  debited'[a][d] = debited[a][d] + IF x \in Below(a) THEN k[d] ELSE 0
  <2>1. debited[a][d] \in Int /\ Need[x][d] \in Int
    BY <1>1, <1>2 DEF TypeInv
  <2>2. debited'[a][d] = IF a \in ToSet(Chain[Account[x]]) /\ d \in got
                         THEN debited[a][d] + Need[x][d] ELSE debited[a][d]
    BY DEF WriteClaim
  <2> QED BY <1>1, <2>1, <2>2, BelowMeans
<1>5. ASSUME NEW y \in Actions, NEW d \in Dims
      PROVE  Held(status', released', d, y)
                 = Held(status, released, d, y) + IF y = x THEN k[d] ELSE 0
  <2>1. released' = released /\ Need[y][d] \in Nat /\ released[y][d] \in Nat
    BY <1>1, AmountAssumption DEF WriteClaim, TypeInv
  <2>2. CASE y = x
    <3>1. status[x][d] = "none" /\ released[x][d] = 0
      BY <1>1 DEF ChargeInv, Charge
    <3>2. status'[x][d] = IF d \in got THEN "ACTIVE" ELSE "none"
      BY <1>1, <3>1 DEF WriteClaim, TypeInv
    <3> QED BY <2>1, <2>2, <3>1, <3>2 DEF Held
  <2>3. CASE y # x
    <3>1. status'[y] = status[y]
      BY <1>1, <2>3 DEF WriteClaim, TypeInv
    <3> QED BY <2>1, <2>3, <3>1 DEF Held
  <2> QED BY <2>2, <2>3
<1> QED BY <1>1, <1>3, <1>4, <1>5, AgreesMoved

(* A refund credits what an action held to every account above it.         *)
LEMMA RefundAgrees ==
    ASSUME IsFiniteSet(Actions), TypeInv, LedgerAgrees, NEW x \in Actions,
           NEW amount \in [Dims -> Nat], Refund(x, amount),
           released' = [released EXCEPT ![x] = [d \in Dims |-> @[d] + amount[d]]],
           \A y \in Actions, d \in Dims : status'[y][d] = "none" <=> status[y][d] = "none",
           \A d \in Dims : status[x][d] = "none" => amount[d] = 0
    PROVE  LedgerAgrees'
<1> PICK k : k = [d \in Dims |-> -amount[d]]
  OBVIOUS
<1>1. k \in [Dims -> Int] /\ \A d \in Dims : amount[d] \in Nat /\ k[d] = -amount[d]
  OBVIOUS
<1>2. ASSUME NEW a \in Accounts, NEW d \in Dims
      PROVE  debited'[a][d] = debited[a][d] + IF x \in Below(a) THEN k[d] ELSE 0
  <2>1. debited[a][d] \in Int
    BY DEF TypeInv
  <2>2. debited'[a][d] = IF a \in ToSet(Chain[Account[x]])
                         THEN debited[a][d] - amount[d] ELSE debited[a][d]
    BY DEF Refund
  <2> QED BY <1>1, <2>1, <2>2, BelowMeans
<1>3. ASSUME NEW y \in Actions, NEW d \in Dims
      PROVE  Held(status', released', d, y)
                 = Held(status, released, d, y) + IF y = x THEN k[d] ELSE 0
  <2>1. Need[y][d] \in Nat /\ released[y][d] \in Nat
    <3>1. Need[y][d] \in Nat \ {0}
      BY AmountAssumption
    <3> QED BY <3>1 DEF TypeInv
  <2>2. released'[y][d] = released[y][d] + IF y = x THEN amount[d] ELSE 0
    BY <1>1, <2>1 DEF TypeInv
  <2> QED BY <1>1, <2>1, <2>2 DEF Held
<1> QED BY <1>1, <1>2, <1>3, AgreesMoved

(* A settlement credits what remains.                                      *)
LEMMA SettleAgrees ==
    ASSUME IsFiniteSet(Actions), ChargeInv, LedgerAgrees, NEW t \in Transactions, WriteSettle(t)
    PROVE  LedgerAgrees'
<1> PICK x : x = tx[t].request.action
  OBVIOUS
<1> PICK u : u = tx[t].request.usage
  OBVIOUS
<1> PICK unused : unused = [d \in Dims |-> Unused(x, u, d)]
  OBVIOUS
<1>1. /\ TypeInv /\ x \in Actions /\ u \in [Dims -> Nat]
      /\ unused \in [Dims -> Nat] /\ Refund(x, unused)
  BY SettleRefunds DEF ChargeInv
<1>2. released' = [released EXCEPT ![x] = [d \in Dims |-> @[d] + unused[d]]]
  BY DEF WriteSettle
<1>3. \A d \in Dims : status[x][d] = "none" => unused[d] = 0
  BY <1>1 DEF Unused
<1>4. ASSUME NEW y \in Actions, NEW d \in Dims
      PROVE  status'[y][d] = "none" <=> status[y][d] = "none"
  <2>1. CASE y = x
    <3>1. status[x][d] # "none"
      BY <1>1 DEF WriteSettle, ChargeInv, SoleActor, Asks, Charge
    <3>2. status'[x][d] \in {"RELEASED", "COMMITTED", status[x][d]}
      BY <1>1 DEF WriteSettle, TypeInv
    <3> QED BY <2>1, <3>1, <3>2
  <2>2. CASE y # x
    BY <1>1, <2>2 DEF WriteSettle, TypeInv
  <2> QED BY <2>1, <2>2
<1> QED BY <1>1, <1>2, <1>3, <1>4, RefundAgrees

(* A cancellation credits all of it.                                       *)
LEMMA CancelAgrees ==
    ASSUME IsFiniteSet(Actions), ChargeInv, LedgerAgrees, NEW t \in Transactions, WriteCancel(t)
    PROVE  LedgerAgrees'
<1> PICK x : x = tx[t].request.action
  OBVIOUS
<1> PICK held : held = [d \in Dims |-> IF status[x][d] = "ACTIVE" THEN Need[x][d] ELSE 0]
  OBVIOUS
<1>1. TypeInv /\ x \in Actions /\ held \in [Dims -> Nat] /\ Refund(x, held)
  BY CancelRefunds DEF ChargeInv
<1>2. released' = [released EXCEPT ![x] = [d \in Dims |-> @[d] + held[d]]]
  BY DEF WriteCancel
<1>3. \A d \in Dims : status[x][d] = "none" => held[d] = 0
  OBVIOUS
<1>4. ASSUME NEW y \in Actions, NEW d \in Dims
      PROVE  status'[y][d] = "none" <=> status[y][d] = "none"
  BY <1>1 DEF WriteCancel, TypeInv
<1> QED BY <1>1, <1>2, <1>3, <1>4, RefundAgrees

(* Every step keeps ledger and reservations in agreement.                  *)
LEMMA AgreeStep ==
    ASSUME IsFiniteSet(Actions), ChargeInv, LedgerAgrees, [Next]_vars
    PROVE  LedgerAgrees'
<1>1. ASSUME UNCHANGED <<debited, status, released>> PROVE LedgerAgrees'
  BY <1>1, AgreesMeans
<1>2. ASSUME NEW a \in Accounts, CreateAccount(a) PROVE LedgerAgrees'
  BY <1>1, <1>2 DEF CreateAccount, entries
<1>3. ASSUME NEW t \in Transactions, NEW q \in Requests, Begin(t, q) PROVE LedgerAgrees'
  BY <1>1, <1>3 DEF Begin, entries
<1>4. ASSUME NEW t \in Transactions,
             \/ LockNext(t) \/ Aside(t) \/ Read(t)
             \/ WriteAdjust(t) \/ RefuseAdjust(t) \/ Rollback(t)
      PROVE  LedgerAgrees'
  BY <1>1, <1>4, AsideTyped DEF ChargeInv, LockNext, Read, WriteAdjust, RefuseAdjust,
                               Rollback, entries
<1>5. CASE UNCHANGED vars
  BY <1>1, <1>5 DEF vars
<1> QED
  BY <1>2, <1>3, <1>4, <1>5, ClaimAgrees, SettleAgrees, CancelAgrees DEF Next, Aside, Conclude

(* At first nothing is reserved.                                           *)
LEMMA AgreeStart == ASSUME IsFiniteSet(Actions), Init PROVE LedgerAgrees
<1> SUFFICES ASSUME NEW a \in Accounts, NEW d \in Dims
             PROVE  debited[a][d] = Total(status, released, d, Below(a))
  BY AgreesMeans
<1>1. Below(a) \in SUBSET Actions /\ IsFiniteSet(Below(a))
  BY FS_Subset DEF Below
<1>2. \A x \in Below(a) : Held(status, released, d, x) = 0
  BY <1>1 DEF Init, Held
<1>3. Total(status, released, d, Below(a)) = 0
  BY <1>1, <1>2, TotalBounded
<1> QED BY <1>3 DEF Init

(* However claims, settlements, cancellations and corrections interleave:  *)
(* what an account was debited is what the attempts of its subtree hold.   *)
THEOREM LedgerAgreesWithReservations ==
    ASSUME IsFiniteSet(Actions)
    PROVE  Spec => []LedgerAgrees
<1>1. Init => ChargeInv /\ LedgerAgrees
  BY ChargeStart, AgreeStart
<1>2. ChargeInv /\ LedgerAgrees /\ [Next]_vars => (ChargeInv /\ LedgerAgrees)'
  BY ChargeStep, AgreeStep
<1> QED BY <1>1, <1>2, PTL DEF Spec

(* So sums of debits are never negative, and every variable keeps its type.*)
THEOREM LedgerTypes ==
    ASSUME IsFiniteSet(Actions)
    PROVE  Spec => []TypeOK
<1>1. ASSUME ChargeInv, LedgerAgrees PROVE TypeOK
  <2>1. ASSUME NEW y \in Actions, NEW d \in Dims PROVE Held(status, released, d, y) \in Nat
    <3>1. Charge(y, d) /\ Need[y][d] \in Nat \ {0} /\ released[y][d] \in Nat
          /\ committed[y][d] \in Nat
          /\ attempt[y] \in {"none", "granted", "refused", "settled", "cancelled"}
      BY <1>1, AmountAssumption DEF ChargeInv, TypeInv
    <3>2. released[y][d] <= Need[y][d]
      BY <3>1 DEF Charge
    <3> QED BY <3>1, <3>2 DEF Held
  <2>2. ASSUME NEW a \in Accounts, NEW d \in Dims PROVE debited[a][d] \in Nat
    <3>1. Below(a) \in SUBSET Actions /\ IsFiniteSet(Below(a))
      BY FS_Subset DEF Below
    <3>2. Total(status, released, d, Below(a)) \in Nat
      BY <2>1, <3>1, TotalBounded
    <3> QED BY <1>1, <3>2, AgreesMeans
  <2>3. debited \in [Accounts -> [Dims -> Nat]]
    <3>1. debited \in [Accounts -> [Dims -> Int]]
      BY <1>1 DEF ChargeInv, TypeInv
    <3>2. \A a \in Accounts : debited[a] \in [Dims -> Nat]
      BY <2>2, <3>1
    <3> QED BY <3>1, <3>2
  <2> QED BY <1>1, <2>3 DEF ChargeInv, TypeInv, TypeOK
<1>2. Spec => []ChargeInv
  BY ChargeStart, ChargeStep, PTL DEF Spec
<1> QED BY <1>1, <1>2, LedgerAgreesWithReservations, PTL
=============================================================================
