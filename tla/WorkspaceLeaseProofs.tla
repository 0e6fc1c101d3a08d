------------------------- MODULE WorkspaceLeaseProofs -------------------------
EXTENDS Workspaces, TLAPS
-----------------------------------------------------------------------------
(* A run is created by a start command or by a continuation, and no tree   *)
(* is the name of none.                                                    *)
LeaseConstants ==
    /\ Starts \cap Heirs = {}
    /\ NoTree \notin Starts
    /\ Command \in [Threads -> Starts]
    /\ LeaseSettings \subseteq Leases!Surroundings

Deliveries == leaseSetting.threads

Found(t) == wsLease[Command[t]]

(* The agents of the lease's run can work in its tree.                     *)
Usable(r) == wsLease[r].tree # NoTree => wsTree[wsLease[r].tree] \in {"clean", "dirty"}

(* A lease and its run: a lease is owned from the transaction on that      *)
(* creates its run, and what is not owned has never been used.             *)
RowTells(r) ==
    /\ wsLease[r].owned <=> wsRun[r] # "none"
    /\ wsLease[r].owned => wsLease[r].state \notin {"none", "ALLOCATING", "FAILED"}
    /\ ~wsLease[r].owned => wsLease[r].state \notin {"IN_USE", "TRANSFERRED"}
    /\ r \in Heirs => (wsLease[r].owned \/ wsLease[r].state = "none")
    /\ wsLease[r].state = "none" => wsLease[r].tree = NoTree
    /\ wsLease[r].state = "ALLOCATING" => wsLease[r].tree = r
    /\ wsLease[r].old => leaseSetting.aging
    /\ wsRun[r] = "live" => wsLease[r].state \in {"READY", "IN_USE"}
    /\ Leases!Alone /\ wsLease[r].owned => wsLease[r].state # "READY"

(* A lease and its tree: the tree can be used while the lease may be, also *)
(* when it is taken over, and it is gone when the release has removed it.  *)
TreeTells(r) ==
    /\ wsLease[r].tree # NoTree => wsLease[wsLease[r].tree].state # "none"
    /\ release[r] # "none" =>
           wsLease[r].state \in {"RELEASE_REQUESTED", "FAILED"} /\ wsLease[r].tree # NoTree
    /\ wsLease[r].state = "READY" => Usable(r)
    /\ wsLease[r].owned /\ wsLease[r].state \in {"IN_USE", "PRESERVED"} => Usable(r)
    /\ wsLease[r].owned /\ release[r] \in {"claimed", "kept"} => Usable(r)
    /\ release[r] = "gone" => wsTree[wsLease[r].tree] = "absent"

(* A tree belongs to one lease at a time.                                  *)
OneHolder ==
    \A r, x \in Leases!Runs :
        (/\ wsLease[r].tree = wsLease[x].tree /\ wsLease[r].tree # NoTree
         /\ wsLease[r].state # "TRANSFERRED" /\ wsLease[x].state # "TRANSFERRED") => r = x

(* What has become of a row since a loop's query returned it.              *)
InterruptedTells(r) ==
    /\ wsLease[r].state \in {"ALLOCATING", "READY", "FAILED", "IN_USE"}
    /\ wsRun[r] # "ended"
    /\ release[r] = "none"
    /\ Leases!Alone => wsLease[r].state = "ALLOCATING"

UnboundTells(r) == Leases!Alone /\ wsLease[r].state = "READY" /\ ~wsLease[r].owned

InUseTells(r) ==
    wsLease[r].owned /\ wsLease[r].state \in {"READY", "IN_USE", "PRESERVED"}

(* What a delivery knows that is between the transactions of an allocation.*)
AddingTells(t) == Found(t).state = "ALLOCATING" /\ wsTree[Command[t]] = "absent"

ReadyTells(t) ==
    /\ Found(t).state \in {"ALLOCATING", "READY"} /\ ~Found(t).owned
    /\ Found(t).tree = Command[t] /\ wsTree[Command[t]] = "clean"

FailTells(t) ==
    Found(t).state # "none" /\ ~Found(t).owned /\ Found(t).tree = Command[t]

DeliveryTells(t) ==
    /\ cmd[t].at = "interrupted" => \A r \in cmd[t].rows : InterruptedTells(r)
    /\ cmd[t].at = "unbound" => \A r \in cmd[t].rows : UnboundTells(r)
    /\ cmd[t].at = "inUse" => \A r \in cmd[t].rows : InUseTells(r)
    /\ cmd[t].at = "adding" => AddingTells(t)
    /\ cmd[t].at = "ready" => ReadyTells(t)
    /\ cmd[t].at = "fail" => FailTells(t)

(* What the rows say, and what the deliveries know of them.                *)
RowsTell ==
    /\ \A r \in Leases!Runs : RowTells(r) /\ TreeTells(r)
    /\ OneHolder
    /\ Leases!TreesAreOnRecord

DeliveriesTell == \A t \in Deliveries : DeliveryTells(t)

(* The inductive invariant of the leases, in orderly surroundings.         *)
LeaseInv == Leases!TypeOK /\ (Leases!Orderly => RowsTell /\ DeliveriesTell)
-----------------------------------------------------------------------------
(* Types.                                                                  *)

LeaseRow == [state : Leases!LeaseStates, owned : BOOLEAN, old : BOOLEAN,
             tree : Starts \cup {NoTree}]

(* A delivery goes on.                                                     *)
LEMMA GoingHasType ==
  ASSUME Leases!TypeOK, NEW t \in Threads, NEW place \in Leases!Places,
         NEW rows \in SUBSET Leases!Runs, Leases!Goes(t, place, rows)
  PROVE  /\ cmd' \in [Threads -> [at : Leases!Places, rows : SUBSET Leases!Runs]]
         /\ cmd'[t].at = place /\ cmd'[t].rows = rows
         /\ \A u \in Threads \ {t} : cmd'[u] = cmd[u]
BY DEF Leases!TypeOK, Leases!Goes

(* A delivery is done with a row.                                          *)
LEMMA WithoutHasType ==
  ASSUME Leases!TypeOK, NEW t \in Threads, NEW r \in cmd[t].rows, Leases!Without(t, r)
  PROVE  /\ cmd' \in [Threads -> [at : Leases!Places, rows : SUBSET Leases!Runs]]
         /\ cmd'[t].at = cmd[t].at /\ cmd'[t].rows = cmd[t].rows \ {r}
         /\ \A u \in Threads \ {t} : cmd'[u] = cmd[u]
<1>1. PICK row : row = [cmd[t] EXCEPT !.rows = @ \ {r}]
  OBVIOUS
<1>2. cmd[t] \in [at : Leases!Places, rows : SUBSET Leases!Runs]
  BY DEF Leases!TypeOK
<1>3. row.at = cmd[t].at /\ row.rows = cmd[t].rows \ {r}
      /\ row \in [at : Leases!Places, rows : SUBSET Leases!Runs]
  BY <1>1, <1>2
<1>4. cmd' = [cmd EXCEPT ![t] = row]
  BY <1>1 DEF Leases!Without
<1> QED BY <1>3, <1>4 DEF Leases!TypeOK

(* A statement sets the state of a row.                                    *)
LEMMA WriteHasType ==
  ASSUME Leases!TypeOK, NEW r \in Leases!Runs, NEW s \in Leases!LeaseStates,
         Leases!Write(r, s)
  PROVE  /\ wsLease' \in [Leases!Runs -> LeaseRow]
         /\ wsLease'[r].state = s /\ wsLease'[r].owned = wsLease[r].owned
         /\ wsLease'[r].old = wsLease[r].old /\ wsLease'[r].tree = wsLease[r].tree
         /\ \A x \in Leases!Runs \ {r} : wsLease'[x] = wsLease[x]
<1>1. PICK row : row = [wsLease[r] EXCEPT !.state = s]
  OBVIOUS
<1>2. wsLease[r] \in LeaseRow /\ wsLease \in [Leases!Runs -> LeaseRow]
  BY DEF Leases!TypeOK, LeaseRow
<1>3. row.state = s /\ row.owned = wsLease[r].owned /\ row.old = wsLease[r].old
      /\ row.tree = wsLease[r].tree /\ row \in LeaseRow
  BY <1>1, <1>2 DEF LeaseRow
<1>4. wsLease' = [wsLease EXCEPT ![r] = row]
  BY <1>1 DEF Leases!Write
<1> QED BY <1>2, <1>3, <1>4

(* The runs and the commands are runs.                                     *)
LEMMA CommandsAreRuns ==
  ASSUME LeaseConstants
  PROVE  /\ \A t \in Threads : Command[t] \in Starts
         /\ Starts \subseteq Leases!Runs /\ Heirs \subseteq Leases!Runs
         /\ \A s : Leases!In(s) \subseteq Leases!Runs
BY DEF LeaseConstants, Leases!Runs, Leases!In
-----------------------------------------------------------------------------
(* What rows say, step by step.                                            *)

(* The setting stays.                                                      *)
LEMMA SettingStays ==
  ASSUME leaseSetting' = leaseSetting
  PROVE  /\ Leases!Alone' = Leases!Alone /\ Leases!Apart' = Leases!Apart
         /\ Leases!Orderly' = Leases!Orderly /\ Deliveries' = Deliveries
<1>1. Leases!Alone' = Leases!Alone
  BY DEF Leases!Alone
<1>2. Leases!Apart' = Leases!Apart
  BY DEF Leases!Apart
<1> QED BY <1>1, <1>2 DEF Leases!Orderly, Deliveries

(* A lease that is not written still says the same of its run.             *)
LEMMA RowStays ==
  ASSUME leaseSetting' = leaseSetting, NEW x \in Leases!Runs,
         wsLease'[x] = wsLease[x], wsRun'[x] = wsRun[x], RowTells(x)
  PROVE  RowTells(x)'
BY SettingStays DEF RowTells

(* The rows that git and the release leave alone still say the same.       *)
LEMMA NothingWritten ==
  ASSUME RowsTell, UNCHANGED <<leaseSetting, wsLease, wsTree, wsRun, release>>
  PROVE  RowsTell'
<1>1. \A r \in Leases!Runs : RowTells(r)'
  BY RowStays DEF RowsTell
<1>2. \A r \in Leases!Runs : TreeTells(r)'
  BY DEF RowsTell, TreeTells, Usable
<1>3. OneHolder' /\ Leases!TreesAreOnRecord'
  BY DEF RowsTell, OneHolder, Leases!TreesAreOnRecord
<1> QED BY <1>1, <1>2, <1>3 DEF RowsTell

(* What a statement of a delivery may write to a row.                      *)
MayWrite(r, s) ==
    /\ wsLease[r].state \notin {"none", "TRANSFERRED"}
    /\ s \in {"READY", "FAILED", "PRESERVED"}
    /\ s = "READY" =>
           Usable(r) /\ release[r] = "none" /\ (Leases!Alone => ~wsLease[r].owned)
    /\ s = "FAILED" => ~wsLease[r].owned
    /\ s = "PRESERVED" =>
           /\ wsLease[r].owned /\ wsRun[r] = "ended"
           /\ Usable(r) /\ release[r] = "none"

(* Such a statement leaves the rows telling.                               *)
LEMMA WriteKeeps ==
  ASSUME Leases!TypeOK, RowsTell, NEW r \in Leases!Runs, NEW s, MayWrite(r, s),
         Leases!Write(r, s), UNCHANGED <<leaseSetting, wsTree, wsRun, release>>
  PROVE  RowsTell'
<1>1. /\ wsLease'[r].state = s /\ wsLease'[r].owned = wsLease[r].owned
      /\ wsLease'[r].old = wsLease[r].old /\ wsLease'[r].tree = wsLease[r].tree
      /\ \A x \in Leases!Runs \ {r} : wsLease'[x] = wsLease[x]
  BY WriteHasType DEF MayWrite, Leases!LeaseStates
<1>2. \A x \in Leases!Runs :
          wsLease[x].tree \in Starts \cup {NoTree} /\ wsLease'[x].tree = wsLease[x].tree
  BY <1>1 DEF Leases!TypeOK
<1>3. ASSUME NEW x \in Leases!Runs PROVE RowTells(x)'
  <2>1. CASE x # r
    BY <1>1, <2>1, RowStays DEF RowsTell
  <2>2. CASE x = r
    BY <1>1, <2>2, SettingStays DEF RowsTell, RowTells, MayWrite
  <2> QED BY <2>1, <2>2
<1>4. ASSUME NEW x \in Leases!Runs PROVE TreeTells(x)'
  <2>1. Usable(x)' = Usable(x)
    BY <1>2 DEF Usable
  <2>2. wsLease'[x].tree # NoTree => wsLease'[wsLease'[x].tree].state # "none"
    <3>1. wsLease[x].tree # NoTree =>
              wsLease[x].tree \in Leases!Runs /\ wsLease[wsLease[x].tree].state # "none"
      BY <1>2 DEF RowsTell, TreeTells, Leases!Runs
    <3> QED BY <1>1, <1>2, <3>1 DEF MayWrite
  <2>3. CASE x # r
    BY <1>1, <2>1, <2>2, <2>3 DEF RowsTell, TreeTells
  <2>4. CASE x = r
    BY <1>1, <2>1, <2>2, <2>4 DEF RowsTell, TreeTells, MayWrite
  <2> QED BY <2>3, <2>4
<1>5. \A x \in Leases!Runs :
          /\ wsLease'[x].state = "TRANSFERRED" <=> wsLease[x].state = "TRANSFERRED"
          /\ wsLease'[x].state = "REMOVED" => wsLease[x].state = "REMOVED"
  BY <1>1 DEF MayWrite
<1>6. OneHolder'
  BY <1>2, <1>5 DEF RowsTell, OneHolder
<1>7. Leases!TreesAreOnRecord'
  BY <1>2, <1>5 DEF RowsTell, Leases!TreesAreOnRecord
<1> QED BY <1>3, <1>4, <1>6, <1>7 DEF RowsTell

(* Where a delivery holds rows that nothing but other deliveries may move. *)
Reconciling(t) == cmd[t].at \in {"interrupted", "unbound", "inUse", "requested"}

(* The delivery u may be between two transactions that the write of the    *)
(* row r would disturb.                                                    *)
LeftAlone(u, r, s) ==
    /\ cmd[u].at = "adding" => Command[u] # r
    /\ cmd[u].at = "ready" => Command[u] # r \/ s = "READY"

(* What another delivery knows survives such a statement.                  *)
LEMMA OthersKnow ==
  ASSUME LeaseConstants, Leases!TypeOK, RowsTell, ~Leases!Alone,
         NEW r \in Leases!Runs, NEW s, MayWrite(r, s), Leases!Write(r, s),
         UNCHANGED <<leaseSetting, wsTree, wsRun, release>>,
         NEW u \in Threads, cmd'[u] = cmd[u], DeliveryTells(u), LeftAlone(u, r, s)
  PROVE  DeliveryTells(u)'
<1>1. /\ wsLease'[r].state = s /\ wsLease'[r].owned = wsLease[r].owned
      /\ wsLease'[r].tree = wsLease[r].tree
      /\ \A x \in Leases!Runs \ {r} : wsLease'[x] = wsLease[x]
  BY WriteHasType DEF MayWrite, Leases!LeaseStates
<1>2. cmd[u].rows \subseteq Leases!Runs /\ Command[u] \in Leases!Runs
  BY CommandsAreRuns DEF Leases!TypeOK
<1>3. ~Leases!Alone'
  BY SettingStays
<1>4. ASSUME cmd[u].at = "interrupted", NEW x \in cmd[u].rows PROVE InterruptedTells(x)'
  <2>1. InterruptedTells(x)
    BY <1>4 DEF DeliveryTells
  <2>2. x = r => s # "PRESERVED"
    BY <2>1 DEF MayWrite, InterruptedTells
  <2> QED BY <1>1, <1>2, <1>3, <2>1, <2>2 DEF InterruptedTells, MayWrite
<1>5. ASSUME cmd[u].at = "unbound", NEW x \in cmd[u].rows PROVE UnboundTells(x)'
  BY <1>5 DEF DeliveryTells, UnboundTells
<1>6. ASSUME cmd[u].at = "inUse", NEW x \in cmd[u].rows PROVE InUseTells(x)'
  BY <1>1, <1>2, <1>6 DEF DeliveryTells, InUseTells, MayWrite
<1>7. cmd[u].at = "adding" => AddingTells(u)'
  BY <1>1, <1>2 DEF DeliveryTells, AddingTells, Found, LeftAlone
<1>8. cmd[u].at = "ready" => ReadyTells(u)'
  BY <1>1, <1>2 DEF DeliveryTells, ReadyTells, Found, LeftAlone
<1>9. cmd[u].at = "fail" => FailTells(u)'
  BY <1>1, <1>2 DEF DeliveryTells, FailTells, Found, MayWrite
<1> QED BY <1>4, <1>5, <1>6, <1>7, <1>8, <1>9 DEF DeliveryTells
-----------------------------------------------------------------------------
(* The statements of a delivery.                                           *)

(* What the steps are taken in.                                            *)
Before ==
    /\ LeaseConstants /\ Leases!TypeOK /\ Leases!Orderly
    /\ RowsTell /\ DeliveriesTell

(* What they keep.                                                         *)
After == RowsTell /\ DeliveriesTell

(* What a delivery knows stays when nothing but other deliveries go on.    *)
LEMMA NothingNew ==
  ASSUME UNCHANGED <<leaseSetting, wsLease, wsTree, wsRun, release>>,
         NEW u \in Threads, cmd'[u] = cmd[u], DeliveryTells(u)
  PROVE  DeliveryTells(u)'
BY SettingStays DEF DeliveryTells, InterruptedTells, UnboundTells, InUseTells, AddingTells,
   ReadyTells, FailTells, Found

(* A delivery that reads, or does nothing, on its way.                     *)
LEMMA ReadingStep ==
  ASSUME Before, NEW t \in Deliveries, \A u \in Threads \ {t} : cmd'[u] = cmd[u],
         UNCHANGED <<leaseSetting, wsLease, wsTree, wsRun, release>>, DeliveryTells(t)'
  PROVE  After'
<1>1. RowsTell'
  BY NothingWritten DEF Before
<1>2. Deliveries \subseteq Threads
  BY DEF Before, Deliveries, Leases!TypeOK, Leases!Surroundings
<1>3. \A u \in Deliveries : DeliveryTells(u)'
  BY <1>2, NothingNew DEF Before, DeliveriesTell
<1> QED BY <1>1, <1>3, SettingStays DEF After, DeliveriesTell

(* A delivery that writes one row on its way.                              *)
LEMMA WritingStep ==
  ASSUME Before, NEW t \in Deliveries, \A u \in Threads \ {t} : cmd'[u] = cmd[u],
         NEW r \in Leases!Runs, NEW s, MayWrite(r, s), Leases!Write(r, s),
         UNCHANGED <<leaseSetting, wsTree, wsRun, release>>,
         \A u \in Deliveries \ {t} : LeftAlone(u, r, s), DeliveryTells(t)'
  PROVE  After'
<1>1. RowsTell'
  BY WriteKeeps DEF Before
<1>2. Deliveries \subseteq Threads
  BY DEF Before, Deliveries, Leases!TypeOK, Leases!Surroundings
<1>3. ASSUME NEW u \in Deliveries \ {t} PROVE DeliveryTells(u)'
  <2>1. ~Leases!Alone
    BY <1>3 DEF Leases!Alone, Deliveries
  <2>2. DeliveryTells(u) /\ u \in Threads /\ cmd'[u] = cmd[u]
    BY <1>2 DEF Before, DeliveriesTell
  <2> QED BY <2>1, <2>2, OthersKnow DEF Before
<1> QED BY <1>1, <1>3, SettingStays DEF After, DeliveriesTell

(* Where a delivery knows nothing.                                         *)
LEMMA NothingToTell ==
  ASSUME NEW t,
         cmd'[t].at \in {"idle", "requested", "lookup", "waiting", "bind", "failed", "done"}
  PROVE  DeliveryTells(t)'
BY DEF DeliveryTells

(* The loops of a reconciliation begin with what they read.                *)
LEMMA LoadStep ==
  ASSUME Before, NEW t \in Deliveries, leaseSetting' = leaseSetting,
         Leases!Begin(t) \/ Leases!LoadUnbound(t) \/ Leases!LoadInUse(t)
           \/ Leases!LoadRequested(t) \/ Leases!Reconciled(t)
  PROVE  After'
<1>1. t \in Threads /\ Leases!TypeOK /\ Leases!Orderly
  BY DEF Before, Deliveries, Leases!TypeOK, Leases!Surroundings
<1>2. \A r \in Leases!Runs : RowTells(r) /\ TreeTells(r)
  BY DEF Before, RowsTell
<1>3. \A s : Leases!In(s) \subseteq Leases!Runs
  BY DEF Leases!In
<1>4. CASE Leases!Begin(t)
  <2>1. cmd'[t].at = "interrupted" /\ cmd'[t].rows = Leases!In("ALLOCATING")
        /\ \A u \in Threads \ {t} : cmd'[u] = cmd[u]
    <3>1. Leases!Goes(t, "interrupted", Leases!In("ALLOCATING"))
      BY <1>4 DEF Leases!Begin
    <3>2. "interrupted" \in Leases!Places /\ Leases!In("ALLOCATING") \in SUBSET Leases!Runs
      BY <1>3 DEF Leases!Places
    <3> QED BY <1>1, <3>1, <3>2, GoingHasType
  <2>2. UNCHANGED <<wsLease, wsTree, wsRun, release>>
    BY <1>4 DEF Leases!Begin
  <2>3. \A r \in Leases!In("ALLOCATING") : InterruptedTells(r)
    BY <1>2 DEF Leases!In, RowTells, TreeTells, InterruptedTells, Leases!TypeOK, Before
  <2>4. \A r \in Leases!In("ALLOCATING") : InterruptedTells(r)'
    BY <2>2, <2>3, SettingStays DEF InterruptedTells
  <2> QED BY <2>1, <2>2, <2>4, ReadingStep DEF DeliveryTells
<1>5. CASE Leases!LoadUnbound(t)
  <2> DEFINE rows == {r \in Leases!In("READY") : wsLease[r].old /\ ~wsLease[r].owned}
  <2>1. cmd'[t].at = "unbound" /\ cmd'[t].rows = rows
        /\ \A u \in Threads \ {t} : cmd'[u] = cmd[u]
    <3>1. Leases!Goes(t, "unbound", rows)
      BY <1>5 DEF Leases!LoadUnbound
    <3>2. "unbound" \in Leases!Places /\ rows \in SUBSET Leases!Runs
      BY <1>3 DEF Leases!Places
    <3> QED BY <1>1, <3>1, <3>2, GoingHasType
  <2>2. UNCHANGED <<wsLease, wsTree, wsRun, release>>
    BY <1>5 DEF Leases!LoadUnbound
  <2>3. \A r \in rows : UnboundTells(r)
    BY <1>1, <1>2 DEF Leases!In, RowTells, UnboundTells, Leases!Orderly
  <2>4. \A r \in rows : UnboundTells(r)'
    BY <2>2, <2>3, SettingStays DEF UnboundTells
  <2> QED BY <2>1, <2>2, <2>4, ReadingStep DEF DeliveryTells
<1>6. CASE Leases!LoadInUse(t)
  <2>1. cmd'[t].at = "inUse" /\ cmd'[t].rows = Leases!Held
        /\ \A u \in Threads \ {t} : cmd'[u] = cmd[u]
    <3>1. Leases!Goes(t, "inUse", Leases!Held)
      BY <1>6 DEF Leases!LoadInUse
    <3>2. "inUse" \in Leases!Places /\ Leases!Held \in SUBSET Leases!Runs
      BY <1>3 DEF Leases!Places, Leases!Held
    <3> QED BY <1>1, <3>1, <3>2, GoingHasType
  <2>2. UNCHANGED <<wsLease, wsTree, wsRun, release>>
    BY <1>6 DEF Leases!LoadInUse
  <2>3. \A r \in Leases!Held : InUseTells(r)'
    BY <2>2 DEF Leases!Held, Leases!In, InUseTells
  <2> QED BY <2>1, <2>2, <2>3, ReadingStep DEF DeliveryTells
<1>7. CASE Leases!LoadRequested(t)
  <2>1. cmd'[t].at = "requested" /\ \A u \in Threads \ {t} : cmd'[u] = cmd[u]
    <3>1. Leases!Goes(t, "requested", Leases!In("RELEASE_REQUESTED"))
      BY <1>7 DEF Leases!LoadRequested
    <3>2. "requested" \in Leases!Places /\ Leases!In("RELEASE_REQUESTED") \in SUBSET Leases!Runs
      BY <1>3 DEF Leases!Places
    <3> QED BY <1>1, <3>1, <3>2, GoingHasType
  <2> QED BY <1>7, <2>1, NothingToTell, ReadingStep DEF Leases!LoadRequested
<1>8. CASE Leases!Reconciled(t)
  <2>1. cmd'[t].at = "lookup" /\ \A u \in Threads \ {t} : cmd'[u] = cmd[u]
    <3>1. Leases!Goes(t, "lookup", {})
      BY <1>8 DEF Leases!Reconciled
    <3>2. "lookup" \in Leases!Places /\ {} \in SUBSET Leases!Runs
      BY <1>3 DEF Leases!Places
    <3> QED BY <1>1, <3>1, <3>2, GoingHasType
  <2> QED BY <1>8, <2>1, NothingToTell, ReadingStep DEF Leases!Reconciled
<1> QED BY <1>4, <1>5, <1>6, <1>7, <1>8
(* A delivery goes where it knows nothing.                                 *)
LEMMA GoesUnknowing ==
  ASSUME Leases!TypeOK, NEW t \in Threads,
         NEW place \in {"idle", "lookup", "waiting", "bind", "failed", "done"},
         Leases!Goes(t, place, {})
  PROVE  DeliveryTells(t)' /\ \A u \in Threads \ {t} : cmd'[u] = cmd[u]
<1>1. place \in Leases!Places /\ {} \in SUBSET Leases!Runs
  BY DEF Leases!Places
<1>2. cmd'[t].at = place /\ \A u \in Threads \ {t} : cmd'[u] = cmd[u]
  BY <1>1, GoingHasType
<1> QED BY <1>2, NothingToTell

(* Answers that change nothing.                                            *)
LEMMA AnswerStep ==
  ASSUME Before, NEW t \in Deliveries, leaseSetting' = leaseSetting,
         Leases!ReturnExisting(t) \/ Leases!AwaitOther(t) \/ Leases!Polled(t)
           \/ Leases!Redeliver(t)
  PROVE  After'
<1>1. t \in Threads /\ Leases!TypeOK
  BY DEF Before, Deliveries, Leases!TypeOK, Leases!Surroundings
<1>2. UNCHANGED <<wsLease, wsTree, wsRun, release>>
  BY DEF Leases!ReturnExisting, Leases!AwaitOther, Leases!Polled, Leases!Redeliver
<1>3. PICK place \in {"idle", "waiting", "bind", "failed"} : Leases!Goes(t, place, {})
  BY DEF Leases!ReturnExisting, Leases!AwaitOther, Leases!Polled, Leases!Redeliver
<1>4. DeliveryTells(t)' /\ \A u \in Threads \ {t} : cmd'[u] = cmd[u]
  BY <1>1, <1>3, GoesUnknowing
<1> QED BY <1>2, <1>4, ReadingStep

(* What a delivery that is done with a row of a loop still knows of the    *)
(* others.                                                                 *)
LEMMA OtherRowsKnown ==
  ASSUME Before, NEW t \in Deliveries, NEW r \in cmd[t].rows, Leases!Without(t, r),
         cmd[t].at \in {"interrupted", "unbound", "inUse"},
         \A x \in Leases!Runs \ {r} : wsLease'[x] = wsLease[x],
         UNCHANGED <<leaseSetting, wsTree, wsRun, release>>
  PROVE  DeliveryTells(t)' /\ \A u \in Threads \ {t} : cmd'[u] = cmd[u]
<1>1. t \in Threads /\ Leases!TypeOK /\ cmd[t].rows \subseteq Leases!Runs
  BY DEF Before, Deliveries, Leases!TypeOK, Leases!Surroundings
<1>2. /\ cmd'[t].at = cmd[t].at /\ cmd'[t].rows = cmd[t].rows \ {r}
      /\ \A u \in Threads \ {t} : cmd'[u] = cmd[u]
  BY <1>1, WithoutHasType
<1>3. DeliveryTells(t)
  BY DEF Before, DeliveriesTell
<1>4. ASSUME NEW x \in cmd[t].rows \ {r}
      PROVE  /\ InterruptedTells(x)' = InterruptedTells(x)
             /\ UnboundTells(x)' = UnboundTells(x)
             /\ InUseTells(x)' = InUseTells(x)
  <2>1. wsLease'[x] = wsLease[x]
    BY <1>1
  <2> QED BY <2>1, SettingStays DEF InterruptedTells, UnboundTells, InUseTells
<1>5. DeliveryTells(t)'
  BY <1>2, <1>3, <1>4 DEF DeliveryTells
<1> QED BY <1>2, <1>5

(* The verdict on an interrupted allocation.                               *)
LEMMA JudgeStep ==
  ASSUME Before, NEW t \in Deliveries, leaseSetting' = leaseSetting,
         Leases!JudgeInterrupted(t)
  PROVE  After'
<1>1. PICK r \in cmd[t].rows : \E listing \in Leases!Listings(r) :
          /\ Leases!Write(r, Leases!Judged(r, listing))
          /\ Leases!Without(t, r)
  BY DEF Leases!JudgeInterrupted
<1>2. PICK listing \in Leases!Listings(r) :
          Leases!Write(r, Leases!Judged(r, listing)) /\ Leases!Without(t, r)
  BY <1>1
<1>3. UNCHANGED <<leaseSetting, wsTree, wsRun, release>> /\ cmd[t].at = "interrupted"
  BY DEF Leases!JudgeInterrupted, Leases!At
<1>4. /\ t \in Threads /\ Leases!TypeOK /\ r \in Leases!Runs
      /\ Deliveries \subseteq Threads /\ DeliveryTells(t)
  BY DEF Before, Deliveries, Leases!TypeOK, Leases!Surroundings, DeliveriesTell
<1>5. InterruptedTells(r) /\ RowTells(r) /\ TreeTells(r)
  BY <1>3, <1>4 DEF DeliveryTells, Before, RowsTell
<1>6. leaseSetting.aging => Leases!Alone
  BY DEF Before, Leases!Orderly
<1> DEFINE s == Leases!Judged(r, listing)
<1>7. s \in {"READY", "FAILED", wsLease[r].state}
  BY DEF Leases!Judged
<1>8. s \in Leases!LeaseStates
  BY <1>4, <1>7 DEF Leases!TypeOK, Leases!LeaseStates
<1>9. \A x \in Leases!Runs \ {r} : wsLease'[x] = wsLease[x]
  BY <1>2, <1>4, <1>8, WriteHasType
<1>10. DeliveryTells(t)' /\ \A u \in Threads \ {t} : cmd'[u] = cmd[u]
  BY <1>2, <1>3, <1>9, OtherRowsKnown
<1>11. CASE s = wsLease[r].state
  <2>1. wsLease' = [wsLease EXCEPT ![r].state = wsLease[r].state]
    BY <1>2, <1>11 DEF Leases!Write
  <2>2. wsLease' = wsLease
    BY <1>4, <2>1 DEF Leases!TypeOK
  <2> QED BY <1>3, <1>10, <2>2, ReadingStep
<1>12. CASE s # wsLease[r].state
  <2>1. wsLease[r].tree # NoTree /\ listing = "REGISTERED" =>
            s = IF wsTree[wsLease[r].tree] # "wrong" THEN "READY" ELSE "FAILED"
    BY DEF Leases!Judged, Leases!HeadMatches
  <2>2. ~(wsLease[r].tree # NoTree /\ listing = "REGISTERED") =>
            s = "FAILED" /\ wsLease[r].old
    BY <1>12 DEF Leases!Judged
  <2>3. listing = "REGISTERED" => Leases!Registered(r)
    BY <1>2 DEF Leases!Listings
  <2>4. wsLease[r].old => Leases!Alone /\ ~wsLease[r].owned
    BY <1>5, <1>6 DEF RowTells, InterruptedTells
  <2>5. MayWrite(r, s)
    <3>1. wsLease[r].state \notin {"none", "TRANSFERRED"} /\ release[r] = "none"
      BY <1>5 DEF InterruptedTells
    <3>2. Leases!Alone => ~wsLease[r].owned
      BY <1>5 DEF InterruptedTells, RowTells
    <3>3. s = "READY" => Usable(r)
      <4>1. wsLease[r].tree # NoTree => wsTree[wsLease[r].tree] \in Leases!TreeStates
        BY <1>4 DEF Leases!TypeOK
      <4> QED BY <2>1, <2>2, <2>3, <4>1 DEF Usable, Leases!Registered, Leases!TreeStates
    <3>4. s = "FAILED" => ~wsLease[r].owned
      <4>1. wsLease[r].owned => Usable(r)
        BY <1>5 DEF InterruptedTells, RowTells, TreeTells
      <4> QED BY <2>1, <2>2, <2>4, <4>1 DEF Usable
    <3> QED BY <1>7, <1>12, <3>1, <3>2, <3>3, <3>4 DEF MayWrite
  <2>6. ASSUME NEW u \in Deliveries \ {t} PROVE LeftAlone(u, r, s)
    <3>1. ~Leases!Alone
      BY <1>4, <2>6 DEF Leases!Alone, Deliveries
    <3>2. DeliveryTells(u)
      BY DEF Before, DeliveriesTell
    <3>3. Leases!Registered(r)
      BY <2>2, <2>3, <2>4, <3>1
    <3>4. cmd[u].at = "adding" => Command[u] # r
      BY <1>5, <3>2, <3>3 DEF DeliveryTells, AddingTells, Found, RowTells, Leases!Registered
    <3>5. cmd[u].at = "ready" => Command[u] # r \/ s = "READY"
      BY <2>1, <2>2, <2>4, <3>1, <3>2 DEF DeliveryTells, ReadyTells, Found
    <3> QED BY <3>4, <3>5 DEF LeftAlone
  <2> QED BY <1>2, <1>3, <1>4, <1>10, <2>5, <2>6, WritingStep
<1> QED BY <1>11, <1>12
(* A lease that no command has bound in time.                              *)
LEMMA FailUnboundStep ==
  ASSUME Before, NEW t \in Deliveries, leaseSetting' = leaseSetting, Leases!FailUnbound(t)
  PROVE  After'
<1>1. PICK r \in cmd[t].rows : Leases!Write(r, "FAILED") /\ Leases!Without(t, r)
  BY DEF Leases!FailUnbound
<1>2. UNCHANGED <<leaseSetting, wsTree, wsRun, release>> /\ cmd[t].at = "unbound"
  BY DEF Leases!FailUnbound, Leases!At
<1>3. /\ t \in Threads /\ Leases!TypeOK /\ r \in Leases!Runs /\ DeliveryTells(t)
  BY DEF Before, Deliveries, Leases!TypeOK, Leases!Surroundings, DeliveriesTell
<1>4. UnboundTells(r)
  BY <1>2, <1>3 DEF DeliveryTells
<1>5. MayWrite(r, "FAILED")
  BY <1>4 DEF UnboundTells, MayWrite
<1>6. \A x \in Leases!Runs \ {r} : wsLease'[x] = wsLease[x]
  BY <1>1, <1>3, WriteHasType DEF Leases!LeaseStates
<1>7. DeliveryTells(t)' /\ \A u \in Threads \ {t} : cmd'[u] = cmd[u]
  BY <1>1, <1>2, <1>6, OtherRowsKnown
<1>8. Deliveries \ {t} = {}
  BY <1>4 DEF UnboundTells, Leases!Alone, Deliveries
<1> QED BY <1>1, <1>2, <1>3, <1>5, <1>7, <1>8, WritingStep

(* The lease of a run that has ended.                                      *)
LEMMA PreserveStep ==
  ASSUME Before, NEW t \in Deliveries, leaseSetting' = leaseSetting, Leases!PreserveEnded(t)
  PROVE  After'
<1>1. PICK r \in cmd[t].rows :
          /\ IF wsRun[r] = "ended" THEN Leases!Write(r, "PRESERVED") ELSE UNCHANGED wsLease
          /\ Leases!Without(t, r)
  BY DEF Leases!PreserveEnded
<1>2. UNCHANGED <<leaseSetting, wsTree, wsRun, release>> /\ cmd[t].at = "inUse"
  BY DEF Leases!PreserveEnded, Leases!At
<1>3. /\ t \in Threads /\ Leases!TypeOK /\ r \in Leases!Runs /\ DeliveryTells(t)
  BY DEF Before, Deliveries, Leases!TypeOK, Leases!Surroundings, DeliveriesTell
<1>4. InUseTells(r) /\ TreeTells(r)
  BY <1>2, <1>3 DEF DeliveryTells, Before, RowsTell
<1>5. \A x \in Leases!Runs \ {r} : wsLease'[x] = wsLease[x]
  BY <1>1, <1>3, WriteHasType DEF Leases!LeaseStates
<1>6. DeliveryTells(t)' /\ \A u \in Threads \ {t} : cmd'[u] = cmd[u]
  BY <1>1, <1>2, <1>5, OtherRowsKnown
<1>7. CASE wsRun[r] = "ended"
  <2>1. MayWrite(r, "PRESERVED")
    BY <1>4, <1>7 DEF InUseTells, TreeTells, MayWrite
  <2>2. ASSUME NEW u \in Deliveries \ {t} PROVE LeftAlone(u, r, "PRESERVED")
    <3>1. DeliveryTells(u)
      BY DEF Before, DeliveriesTell
    <3> QED BY <1>4, <3>1
        DEF InUseTells, DeliveryTells, AddingTells, ReadyTells, Found, LeftAlone
  <2> QED BY <1>1, <1>2, <1>3, <1>6, <1>7, <2>1, <2>2, WritingStep
<1>8. CASE wsRun[r] # "ended"
  BY <1>1, <1>2, <1>6, <1>8, ReadingStep
<1> QED BY <1>7, <1>8

(* The row of the delivery's own command.                                  *)
LEMMA OwnRow ==
  ASSUME Before, NEW t \in Deliveries
  PROVE  /\ t \in Threads /\ Leases!TypeOK /\ DeliveryTells(t)
         /\ Command[t] \in Starts /\ Command[t] \in Leases!Runs
         /\ RowTells(Command[t]) /\ TreeTells(Command[t])
         /\ \A u \in Deliveries \ {t} : Command[u] # Command[t]
<1>1. t \in Threads /\ Leases!TypeOK /\ DeliveryTells(t)
  BY DEF Before, Deliveries, Leases!TypeOK, Leases!Surroundings, DeliveriesTell
<1>2. Command[t] \in Starts /\ Command[t] \in Leases!Runs
  BY <1>1, CommandsAreRuns DEF Before
<1>3. RowTells(Command[t]) /\ TreeTells(Command[t])
  BY <1>2 DEF Before, RowsTell
<1>4. Leases!Apart
  BY DEF Before, Leases!Orderly
<1> QED BY <1>1, <1>2, <1>3, <1>4 DEF Leases!Apart, Deliveries

(* The end of an allocation, or of one that another delivery began.        *)
LEMMA AllocatedStep ==
  ASSUME Before, NEW t \in Deliveries, leaseSetting' = leaseSetting,
         Leases!AdoptInterrupted(t) \/ Leases!WriteReady(t) \/ Leases!WriteFailed(t)
  PROVE  After'
<1>1. /\ t \in Threads /\ Leases!TypeOK /\ DeliveryTells(t) /\ Command[t] \in Leases!Runs
      /\ RowTells(Command[t]) /\ TreeTells(Command[t])
      /\ \A u \in Deliveries \ {t} : Command[u] # Command[t]
  BY OwnRow
<1>2. \A s : \A u \in Deliveries \ {t} : LeftAlone(u, Command[t], s)
  BY <1>1 DEF LeftAlone
<1>3. UNCHANGED <<leaseSetting, wsTree, wsRun, release>>
  BY DEF Leases!AdoptInterrupted, Leases!WriteReady, Leases!WriteFailed
<1>4. CASE Leases!AdoptInterrupted(t)
  <2>1. Leases!Write(Command[t], "READY") /\ Leases!Goes(t, "bind", {})
    BY <1>4 DEF Leases!AdoptInterrupted
  <2>2. /\ Found(t).state = "ALLOCATING" /\ Found(t).tree # NoTree
        /\ wsTree[Found(t).tree] \notin {"absent", "wrong"}
    BY <1>4 DEF Leases!AdoptInterrupted, Leases!Found, Leases!Registered,
       Leases!HeadMatches, Found
  <2>3. wsTree[Found(t).tree] \in Leases!TreeStates
    BY <1>1, <2>2 DEF Leases!TypeOK, Found
  <2>4. Usable(Command[t])
    BY <2>2, <2>3 DEF Usable, Found, Leases!TreeStates
  <2>5. MayWrite(Command[t], "READY")
    BY <1>1, <2>2, <2>4 DEF MayWrite, RowTells, TreeTells, Found, Leases!TypeOK
  <2>6. DeliveryTells(t)' /\ \A u \in Threads \ {t} : cmd'[u] = cmd[u]
    BY <1>1, <2>1, GoesUnknowing
  <2> QED BY <1>1, <1>2, <1>3, <2>1, <2>5, <2>6, WritingStep
<1>5. CASE Leases!WriteReady(t)
  <2>1. /\ Leases!Write(Command[t], "READY") /\ Leases!Goes(t, "bind", {})
        /\ cmd[t].at = "ready"
    BY <1>5 DEF Leases!WriteReady, Leases!At
  <2>2. ReadyTells(t)
    BY <1>1, <2>1 DEF DeliveryTells
  <2>3. MayWrite(Command[t], "READY")
    BY <1>1, <2>2 DEF MayWrite, ReadyTells, Usable, TreeTells, Found, Leases!TypeOK
  <2>4. DeliveryTells(t)' /\ \A u \in Threads \ {t} : cmd'[u] = cmd[u]
    BY <1>1, <2>1, GoesUnknowing
  <2> QED BY <1>1, <1>2, <1>3, <2>1, <2>3, <2>4, WritingStep
<1>6. CASE Leases!WriteFailed(t)
  <2>1. /\ Leases!Write(Command[t], "FAILED") /\ Leases!Goes(t, "failed", {})
        /\ cmd[t].at = "fail"
    BY <1>6 DEF Leases!WriteFailed, Leases!At
  <2>2. FailTells(t)
    BY <1>1, <2>1 DEF DeliveryTells
  <2>3. MayWrite(Command[t], "FAILED")
    BY <1>1, <2>2 DEF MayWrite, FailTells, RowTells, Found
  <2>4. DeliveryTells(t)' /\ \A u \in Threads \ {t} : cmd'[u] = cmd[u]
    BY <1>1, <2>1, GoesUnknowing
  <2> QED BY <1>1, <1>2, <1>3, <2>1, <2>3, <2>4, WritingStep
<1> QED BY <1>4, <1>5, <1>6
(* The last transaction of a release keeps what rows say.                  *)
LEMMA FinalizeKeeps ==
  ASSUME Before, NEW r \in Leases!Runs, NEW s \in {"REMOVED", "PRESERVED"},
         Leases!Finalize(r, s), UNCHANGED <<leaseSetting, wsTree, wsRun>>,
         release[r] # "none",
         s = "REMOVED" => wsTree[wsLease[r].tree] = "absent",
         s = "PRESERVED" => release[r] = "kept"
  PROVE  /\ RowsTell'
         /\ \A u \in Threads : cmd'[u] = cmd[u] /\ DeliveryTells(u) => DeliveryTells(u)'
<1>1. Leases!TypeOK /\ s \in Leases!LeaseStates
  BY DEF Before, Leases!LeaseStates
<1>2. Leases!Write(r, s) /\ release' = [release EXCEPT ![r] = "none"]
  BY DEF Leases!Finalize
<1>3. /\ wsLease'[r].state = s /\ wsLease'[r].owned = wsLease[r].owned
      /\ wsLease'[r].old = wsLease[r].old /\ wsLease'[r].tree = wsLease[r].tree
      /\ \A x \in Leases!Runs \ {r} : wsLease'[x] = wsLease[x]
  BY <1>1, <1>2, WriteHasType
<1>4. release'[r] = "none" /\ \A x \in Leases!Runs \ {r} : release'[x] = release[x]
  BY <1>1, <1>2 DEF Leases!TypeOK
<1>5. \A x \in Leases!Runs :
          wsLease[x].tree \in Starts \cup {NoTree} /\ wsLease'[x].tree = wsLease[x].tree
  BY <1>1, <1>3 DEF Leases!TypeOK
<1>6. /\ wsLease[r].state \in {"RELEASE_REQUESTED", "FAILED"}
      /\ RowTells(r) /\ TreeTells(r)
  BY DEF Before, RowsTell, TreeTells
<1>7. ASSUME NEW x \in Leases!Runs PROVE RowTells(x)'
  <2>1. CASE x # r
    BY <1>3, <2>1, RowStays DEF Before, RowsTell
  <2>2. CASE x = r
    BY <1>3, <1>6, <2>2, SettingStays DEF RowTells
  <2> QED BY <2>1, <2>2
<1>8. ASSUME NEW x \in Leases!Runs PROVE TreeTells(x)'
  <2>1. Usable(x)' = Usable(x)
    BY <1>5 DEF Usable
  <2>2. wsLease'[x].tree # NoTree => wsLease'[wsLease'[x].tree].state # "none"
    <3>1. wsLease[x].tree # NoTree =>
              wsLease[x].tree \in Leases!Runs /\ wsLease[wsLease[x].tree].state # "none"
      BY <1>5 DEF Before, RowsTell, TreeTells, Leases!Runs
    <3> QED BY <1>3, <1>5, <3>1
  <2>3. CASE x # r
    BY <1>3, <1>4, <2>1, <2>2, <2>3 DEF Before, RowsTell, TreeTells
  <2>4. CASE x = r
    BY <1>3, <1>4, <1>6, <2>1, <2>2, <2>4 DEF TreeTells
  <2> QED BY <2>3, <2>4
<1>9. OneHolder'
  <2>1. \A x \in Leases!Runs :
            wsLease'[x].state # "TRANSFERRED" => wsLease[x].state # "TRANSFERRED"
    BY <1>3, <1>6
  <2> QED BY <1>5, <2>1 DEF Before, RowsTell, OneHolder
<1>10. Leases!TreesAreOnRecord'
  BY <1>3, <1>5 DEF Before, RowsTell, Leases!TreesAreOnRecord
<1>11. ASSUME NEW u \in Threads, cmd'[u] = cmd[u], DeliveryTells(u)
       PROVE  DeliveryTells(u)'
  <2>1. cmd[u].rows \subseteq Leases!Runs /\ Command[u] \in Leases!Runs
    BY <1>1, CommandsAreRuns DEF Leases!TypeOK, Before
  <2>2. \A x \in Leases!Runs : InterruptedTells(x) => InterruptedTells(x)'
    BY <1>3, <1>4, <1>6, SettingStays DEF InterruptedTells
  <2>3. \A x \in Leases!Runs :
            (UnboundTells(x) => UnboundTells(x)') /\ (InUseTells(x) => InUseTells(x)')
    BY <1>3, <1>6, SettingStays DEF UnboundTells, InUseTells
  <2>4. (AddingTells(u) => AddingTells(u)') /\ (ReadyTells(u) => ReadyTells(u)')
    BY <1>3, <1>6, <2>1 DEF AddingTells, ReadyTells, Found
  <2>5. FailTells(u) => FailTells(u)'
    BY <1>3, <1>6, <2>1 DEF FailTells, Found
  <2> QED BY <1>11, <2>1, <2>2, <2>3, <2>4, <2>5 DEF DeliveryTells
<1> QED BY <1>7, <1>8, <1>9, <1>10, <1>11 DEF RowsTell

(* A release whose git call has had its effect.                            *)
LEMMA FinishReleasedStep ==
  ASSUME Before, NEW t \in Deliveries, leaseSetting' = leaseSetting, Leases!FinishReleased(t)
  PROVE  After'
<1>0. PICK r \in cmd[t].rows : \E listing \in Leases!Listings(r) :
          /\ IF listing = "ABSENT" /\ release[r] # "none"
             THEN Leases!Finalize(r, "REMOVED") ELSE UNCHANGED <<wsLease, release>>
          /\ Leases!Without(t, r)
  BY DEF Leases!FinishReleased
<1>1. PICK listing \in Leases!Listings(r) :
          /\ IF listing = "ABSENT" /\ release[r] # "none"
             THEN Leases!Finalize(r, "REMOVED") ELSE UNCHANGED <<wsLease, release>>
          /\ Leases!Without(t, r)
  BY <1>0
<1>2. UNCHANGED <<leaseSetting, wsTree, wsRun>> /\ cmd[t].at = "requested"
  BY DEF Leases!FinishReleased, Leases!At
<1>3. /\ t \in Threads /\ Leases!TypeOK /\ r \in Leases!Runs /\ Deliveries \subseteq Threads
  BY DEF Before, Deliveries, Leases!TypeOK, Leases!Surroundings
<1>4. cmd'[t].at = "requested" /\ \A u \in Threads \ {t} : cmd'[u] = cmd[u]
  BY <1>1, <1>2, <1>3, WithoutHasType
<1>5. DeliveryTells(t)'
  BY <1>4, NothingToTell
<1>6. CASE listing = "ABSENT" /\ release[r] # "none"
  <2>1. wsTree[wsLease[r].tree] = "absent"
    <3>1. wsLease[r].tree # NoTree
      BY <1>3, <1>6 DEF Before, RowsTell, TreeTells
    <3> QED BY <1>1, <1>6, <3>1 DEF Leases!Listings, Leases!Registered
  <2>2. RowsTell'
        /\ \A u \in Threads : cmd'[u] = cmd[u] /\ DeliveryTells(u) => DeliveryTells(u)'
    BY <1>1, <1>2, <1>3, <1>6, <2>1, FinalizeKeeps
  <2> QED BY <1>3, <1>4, <1>5, <2>2, SettingStays DEF After, DeliveriesTell, Before
<1>7. CASE ~(listing = "ABSENT" /\ release[r] # "none")
  BY <1>1, <1>2, <1>4, <1>5, <1>7, ReadingStep
<1> QED BY <1>6, <1>7
(* A row is inserted for the key of the command.                           *)
LEMMA InsertStep ==
  ASSUME Before, NEW t \in Deliveries, leaseSetting' = leaseSetting,
         Leases!AllocateShared(t) \/ Leases!AllocateIsolated(t)
  PROVE  After'
<1> DEFINE k == Command[t]
<1>1. /\ t \in Threads /\ Leases!TypeOK /\ DeliveryTells(t)
      /\ k \in Starts /\ k \in Leases!Runs
      /\ RowTells(k) /\ TreeTells(k)
      /\ \A u \in Deliveries \ {t} : Command[u] # k
  BY OwnRow
<1>2. UNCHANGED <<leaseSetting, wsTree, wsRun, release>> /\ wsLease[k].state = "none"
  BY DEF Leases!AllocateShared, Leases!AllocateIsolated, Leases!Found
<1>3. PICK row : /\ wsLease' = [wsLease EXCEPT ![k] = row]
                 /\ row.owned = FALSE /\ row.old = FALSE
                 /\ \/ /\ row.state = "READY" /\ row.tree = NoTree
                       /\ Leases!Goes(t, "bind", {})
                    \/ /\ row.state = "ALLOCATING" /\ row.tree = k
                       /\ Leases!Goes(t, "adding", {})
  BY DEF Leases!AllocateShared, Leases!AllocateIsolated, Leases!Insert
<1>4. wsLease'[k] = row /\ \A x \in Leases!Runs \ {k} : wsLease'[x] = wsLease[x]
  BY <1>1, <1>3 DEF Leases!TypeOK
<1>5. NoTree \notin Starts /\ k \notin Heirs /\ k # NoTree
  BY <1>1 DEF Before, LeaseConstants
<1>6. wsLease[k].tree = NoTree /\ ~wsLease[k].owned /\ wsRun[k] = "none" /\ release[k] = "none"
  <2>1. wsLease[k].owned \in BOOLEAN
    BY <1>1 DEF Leases!TypeOK
  <2> QED BY <1>1, <1>2, <2>1 DEF RowTells, TreeTells
<1>7. ASSUME NEW x \in Leases!Runs
      PROVE  /\ wsLease[x].tree # k
             /\ wsLease[x].tree # NoTree =>
                    wsLease[x].tree \in Leases!Runs /\ wsLease[wsLease[x].tree].state # "none"
  BY <1>1, <1>2, <1>5 DEF Before, RowsTell, TreeTells, Leases!TypeOK, Leases!Runs
<1>8. ASSUME NEW x \in Leases!Runs PROVE RowTells(x)'
  <2>1. CASE x # k
    BY <1>2, <1>4, <2>1, RowStays DEF Before, RowsTell
  <2>2. CASE x = k
    BY <1>2, <1>3, <1>4, <1>5, <1>6, <2>2 DEF RowTells
  <2> QED BY <2>1, <2>2
<1>9. ASSUME NEW x \in Leases!Runs PROVE TreeTells(x)'
  <2>1. CASE x # k
    <3>1. wsLease'[x] = wsLease[x] /\ Usable(x)' = Usable(x)
      BY <1>2, <1>4, <2>1 DEF Usable
    <3>2. wsLease'[x].tree # NoTree => wsLease'[wsLease'[x].tree].state # "none"
      BY <1>4, <1>7, <3>1
    <3> QED BY <1>2, <3>1, <3>2 DEF Before, RowsTell, TreeTells
  <2>2. CASE x = k
    BY <1>2, <1>3, <1>4, <1>6, <2>2 DEF TreeTells, Usable
  <2> QED BY <2>1, <2>2
<1>10. OneHolder'
  BY <1>3, <1>4, <1>5, <1>7 DEF Before, RowsTell, OneHolder
<1>11. Leases!TreesAreOnRecord'
  BY <1>2, <1>4, <1>5, <1>6 DEF Before, RowsTell, Leases!TreesAreOnRecord
<1>12. ASSUME NEW u \in Deliveries \ {t} PROVE DeliveryTells(u)'
  <2>1. /\ u \in Threads /\ cmd'[u] = cmd[u] /\ DeliveryTells(u)
        /\ cmd[u].rows \subseteq Leases!Runs /\ Command[u] \in Leases!Runs
        /\ Command[u] # k
    <3>1. Deliveries \subseteq Threads
      BY DEF Before, Deliveries, Leases!TypeOK, Leases!Surroundings
    <3>2. "bind" \in Leases!Places /\ "adding" \in Leases!Places
      BY DEF Leases!Places
    <3>3. cmd'[u] = cmd[u]
      BY <1>1, <1>3, <3>1, <3>2, GoingHasType
    <3> QED BY <1>1, <3>1, <3>3, CommandsAreRuns
        DEF Before, DeliveriesTell, Leases!TypeOK
  <2>2. \A x \in Leases!Runs : InterruptedTells(x) => InterruptedTells(x)'
    BY <1>2, <1>4, SettingStays DEF InterruptedTells
  <2>3. \A x \in Leases!Runs :
            (UnboundTells(x) => UnboundTells(x)') /\ (InUseTells(x) => InUseTells(x)')
    BY <1>2, <1>4, SettingStays DEF UnboundTells, InUseTells
  <2>4. /\ AddingTells(u) => AddingTells(u)' 
        /\ ReadyTells(u) => ReadyTells(u)'
        /\ FailTells(u) => FailTells(u)'
    BY <1>2, <1>4, <2>1 DEF AddingTells, ReadyTells, FailTells, Found
  <2> QED BY <2>1, <2>2, <2>3, <2>4 DEF DeliveryTells
<1>13. DeliveryTells(t)'
  <2>1. CASE Leases!Goes(t, "bind", {})
    BY <1>1, <2>1, GoesUnknowing
  <2>2. CASE row.state = "ALLOCATING" /\ Leases!Goes(t, "adding", {})
    <3>1. cmd'[t].at = "adding"
      <4>1. "adding" \in Leases!Places /\ {} \in SUBSET Leases!Runs
        BY DEF Leases!Places
      <4> QED BY <1>1, <2>2, <4>1, GoingHasType
    <3>2. wsTree[k] = "absent"
      BY <1>1, <1>7 DEF Before, RowsTell, Leases!TreesAreOnRecord
    <3> QED BY <1>2, <1>4, <2>2, <3>1, <3>2 DEF DeliveryTells, AddingTells, Found
  <2> QED BY <1>3, <2>1, <2>2
<1> QED BY <1>8, <1>9, <1>10, <1>11, <1>12, <1>13, SettingStays
    DEF After, RowsTell, DeliveriesTell
(* git worktree add, whether its process lives on or not.                  *)
LEMMA TreeAdded ==
  ASSUME Before, NEW t \in Deliveries, cmd[t].at = "adding",
         \A u \in Threads \ {t} : cmd'[u] = cmd[u],
         NEW left, wsTree' = [wsTree EXCEPT ![Command[t]] = left],
         UNCHANGED <<leaseSetting, wsLease, wsRun, release>>, DeliveryTells(t)'
  PROVE  After'
<1> DEFINE k == Command[t]
<1>1. /\ t \in Threads /\ Leases!TypeOK /\ DeliveryTells(t)
      /\ k \in Starts /\ k \in Leases!Runs
      /\ RowTells(k) /\ TreeTells(k)
      /\ \A u \in Deliveries \ {t} : Command[u] # k
  BY OwnRow
<1>2. AddingTells(t)
  BY <1>1 DEF DeliveryTells
<1>3. wsLease[k].state = "ALLOCATING" /\ wsLease[k].tree = k /\ k # NoTree
  BY <1>1, <1>2 DEF AddingTells, Found, RowTells, Before, LeaseConstants
<1>4. wsTree'[k] = left /\ \A x \in Starts \ {k} : wsTree'[x] = wsTree[x]
  BY <1>1 DEF Leases!TypeOK
<1>5. \A x \in Leases!Runs : RowTells(x)'
  BY RowStays DEF Before, RowsTell
<1>6. ASSUME NEW x \in Leases!Runs PROVE TreeTells(x)'
  <2>1. TreeTells(x) /\ RowTells(x) /\ wsLease[x].tree \in Starts \cup {NoTree}
    BY <1>1 DEF Before, RowsTell, Leases!TypeOK
  <2>2. CASE wsLease[x].tree # k
    <3>1. wsLease[x].tree # NoTree => wsTree'[wsLease[x].tree] = wsTree[wsLease[x].tree]
      BY <1>4, <2>1, <2>2
    <3> QED BY <2>1, <3>1 DEF TreeTells, Usable
  <2>3. CASE wsLease[x].tree = k
    <3>1. wsLease[x].state \in {"ALLOCATING", "TRANSFERRED"}
      BY <1>1, <1>3, <2>3 DEF Before, RowsTell, OneHolder
    <3> QED BY <2>1, <3>1 DEF TreeTells
  <2> QED BY <2>2, <2>3
<1>7. OneHolder'
  BY DEF Before, RowsTell, OneHolder
<1>8. Leases!TreesAreOnRecord'
  BY <1>1, <1>3, <1>4 DEF Before, RowsTell, Leases!TreesAreOnRecord
<1>9. ASSUME NEW u \in Deliveries \ {t} PROVE DeliveryTells(u)'
  <2>1. u \in Threads /\ cmd'[u] = cmd[u] /\ DeliveryTells(u) /\ Command[u] # k
        /\ Command[u] \in Starts
    BY <1>1, CommandsAreRuns
    DEF Before, DeliveriesTell, Deliveries, Leases!TypeOK, Leases!Surroundings
  <2>2. wsTree'[Command[u]] = wsTree[Command[u]]
    BY <1>4, <2>1
  <2> QED BY <2>1, <2>2, SettingStays
      DEF DeliveryTells, InterruptedTells, UnboundTells, InUseTells, AddingTells,
          ReadyTells, FailTells, Found
<1> QED BY <1>5, <1>6, <1>7, <1>8, <1>9, SettingStays DEF After, RowsTell, DeliveriesTell

(* git worktree add returns.                                               *)
LEMMA AddStep ==
  ASSUME Before, NEW t \in Deliveries, leaseSetting' = leaseSetting, Leases!Add(t)
  PROVE  After'
<1>1. /\ t \in Threads /\ Leases!TypeOK /\ DeliveryTells(t)
      /\ Command[t] \in Starts /\ RowTells(Command[t])
  BY OwnRow
<1>2. cmd[t].at = "adding" /\ UNCHANGED <<leaseSetting, wsLease, wsRun, release>>
  BY DEF Leases!Add, Leases!At
<1>3. AddingTells(t)
  BY <1>1, <1>2 DEF DeliveryTells
<1>4. PICK left : /\ wsTree' = [wsTree EXCEPT ![Command[t]] = left]
                  /\ \/ left = "clean" /\ Leases!Goes(t, "ready", {})
                     \/ Leases!Goes(t, "fail", {})
  BY DEF Leases!Add
<1>5. wsTree'[Command[t]] = left
  BY <1>1, <1>4 DEF Leases!TypeOK
<1>6. "ready" \in Leases!Places /\ "fail" \in Leases!Places /\ {} \in SUBSET Leases!Runs
  BY DEF Leases!Places
<1>7. /\ ~Found(t).owned /\ Found(t).tree = Command[t]
      /\ Found(t).state = "ALLOCATING"
  BY <1>1, <1>3 DEF AddingTells, RowTells, Found
<1>8. Found(t)' = Found(t)
  BY <1>2 DEF Found
<1>9. CASE left = "clean" /\ Leases!Goes(t, "ready", {})
  <2>1. cmd'[t].at = "ready" /\ \A u \in Threads \ {t} : cmd'[u] = cmd[u]
    BY <1>1, <1>6, <1>9, GoingHasType
  <2>2. ReadyTells(t)'
    BY <1>5, <1>7, <1>8, <1>9 DEF ReadyTells
  <2>3. DeliveryTells(t)'
    BY <2>1, <2>2 DEF DeliveryTells
  <2> QED BY <1>2, <1>4, <2>1, <2>3, TreeAdded
<1>10. CASE Leases!Goes(t, "fail", {})
  <2>1. cmd'[t].at = "fail" /\ \A u \in Threads \ {t} : cmd'[u] = cmd[u]
    BY <1>1, <1>6, <1>10, GoingHasType
  <2>2. FailTells(t)'
    BY <1>7, <1>8 DEF FailTells
  <2>3. DeliveryTells(t)'
    BY <2>1, <2>2 DEF DeliveryTells
  <2> QED BY <1>2, <1>4, <2>1, <2>3, TreeAdded
<1> QED BY <1>4, <1>9, <1>10

(* The process dies.                                                       *)
LEMMA CrashStep ==
  ASSUME Before, NEW t \in Deliveries, leaseSetting' = leaseSetting, Leases!Crash(t)
  PROVE  After'
<1>1. t \in Threads /\ Leases!TypeOK
  BY OwnRow
<1>2. Leases!Goes(t, "idle", {}) /\ UNCHANGED <<leaseSetting, wsLease, wsRun, release>>
  BY DEF Leases!Crash
<1>3. DeliveryTells(t)' /\ \A u \in Threads \ {t} : cmd'[u] = cmd[u]
  BY <1>1, <1>2, GoesUnknowing
<1>4. CASE cmd[t].at = "adding"
  <2>1. PICK left : wsTree' = [wsTree EXCEPT ![Command[t]] = left]
    BY <1>4 DEF Leases!Crash, Leases!At
  <2> QED BY <1>2, <1>3, <1>4, <2>1, TreeAdded
<1>5. CASE cmd[t].at # "adding"
  <2>1. UNCHANGED wsTree
    BY <1>5 DEF Leases!Crash, Leases!At
  <2> QED BY <1>2, <1>3, <2>1, ReadingStep
<1> QED BY <1>4, <1>5

(* The transaction that creates the run and binds the lease to it.         *)
LEMMA BindStep ==
  ASSUME Before, NEW t \in Deliveries, leaseSetting' = leaseSetting, Leases!Bind(t)
  PROVE  After'
<1> DEFINE k == Command[t]
<1>1. /\ t \in Threads /\ Leases!TypeOK /\ DeliveryTells(t)
      /\ k \in Starts /\ k \in Leases!Runs
      /\ RowTells(k) /\ TreeTells(k)
      /\ \A u \in Deliveries \ {t} : Command[u] # k
  BY OwnRow
<1>2. UNCHANGED <<leaseSetting, wsTree, release>>
  BY DEF Leases!Bind
<1>3. PICK place \in {"done", "failed"} : Leases!Goes(t, place, {})
  BY DEF Leases!Bind
<1>4. DeliveryTells(t)' /\ \A u \in Threads \ {t} : cmd'[u] = cmd[u]
  BY <1>1, <1>3, GoesUnknowing
<1>5. CASE UNCHANGED <<wsLease, wsRun>>
  BY <1>2, <1>4, <1>5, ReadingStep
<1>6. CASE /\ wsRun[k] = "none" /\ Leases!Bindable(k)
           /\ wsLease' = Leases!Bound(k) /\ wsRun' = [wsRun EXCEPT ![k] = "live"]
  <2>1. PICK row : row = [[wsLease[k] EXCEPT !.state = "IN_USE"] EXCEPT !.owned = TRUE]
    OBVIOUS
  <2>2. wsLease[k] \in LeaseRow /\ wsLease \in [Leases!Runs -> LeaseRow]
    BY <1>1 DEF Leases!TypeOK, LeaseRow
  <2>3. row.state = "IN_USE" /\ row.owned = TRUE /\ row.old = wsLease[k].old
        /\ row.tree = wsLease[k].tree
    BY <2>1, <2>2 DEF LeaseRow
  <2>4. wsLease' = [wsLease EXCEPT ![k] = row]
    BY <1>1, <1>6, <2>1, <2>2 DEF Leases!Bound
  <2>5. wsLease'[k] = row /\ \A x \in Leases!Runs \ {k} : wsLease'[x] = wsLease[x]
    BY <1>1, <2>2, <2>4
  <2>6. wsRun'[k] = "live" /\ \A x \in Leases!Runs \ {k} : wsRun'[x] = wsRun[x]
    BY <1>1, <1>6 DEF Leases!TypeOK
  <2>7. wsLease[k].state = "READY" /\ ~wsLease[k].owned
    BY <1>6 DEF Leases!Bindable
  <2>8. \A x \in Leases!Runs :
            wsLease[x].tree \in Starts \cup {NoTree} /\ wsLease'[x].tree = wsLease[x].tree
    BY <2>2, <2>3, <2>5 DEF LeaseRow
  <2>9. k \notin Heirs
    BY <1>1 DEF Before, LeaseConstants
  <2>10. ASSUME NEW x \in Leases!Runs PROVE RowTells(x)'
    <3>1. CASE x # k
      BY <1>2, <2>5, <2>6, <3>1, RowStays DEF Before, RowsTell
    <3>2. CASE x = k
      BY <1>1, <1>2, <2>3, <2>5, <2>6, <2>9, <3>2 DEF RowTells
    <3> QED BY <3>1, <3>2
  <2>11. ASSUME NEW x \in Leases!Runs PROVE TreeTells(x)'
    <3>1. Usable(x)' = Usable(x)
      BY <1>2, <2>8 DEF Usable
    <3>2. wsLease'[x].tree # NoTree => wsLease'[wsLease'[x].tree].state # "none"
      <4>1. wsLease[x].tree # NoTree =>
                wsLease[x].tree \in Leases!Runs /\ wsLease[wsLease[x].tree].state # "none"
        BY <2>8 DEF Before, RowsTell, TreeTells, Leases!Runs
      <4> QED BY <2>3, <2>5, <2>8, <4>1
    <3>3. CASE x # k
      BY <1>2, <2>5, <3>1, <3>2, <3>3 DEF Before, RowsTell, TreeTells
    <3>4. CASE x = k
      BY <1>1, <1>2, <2>3, <2>5, <2>7, <3>1, <3>2, <3>4 DEF TreeTells
    <3> QED BY <3>3, <3>4
  <2>12. \A x \in Leases!Runs :
             /\ wsLease'[x].state = "TRANSFERRED" <=> wsLease[x].state = "TRANSFERRED"
             /\ wsLease'[x].state = "REMOVED" <=> wsLease[x].state = "REMOVED"
    BY <2>3, <2>5, <2>7
  <2>13. OneHolder'
    BY <2>8, <2>12 DEF Before, RowsTell, OneHolder
  <2>14. Leases!TreesAreOnRecord'
    BY <1>2, <2>8, <2>12 DEF Before, RowsTell, Leases!TreesAreOnRecord
  <2>15. ASSUME NEW u \in Deliveries \ {t} PROVE DeliveryTells(u)'
    <3>1. /\ u \in Threads /\ cmd'[u] = cmd[u] /\ DeliveryTells(u) /\ Command[u] # k
          /\ Command[u] \in Leases!Runs /\ cmd[u].rows \subseteq Leases!Runs
      BY <1>1, <1>4, CommandsAreRuns
      DEF Before, DeliveriesTell, Deliveries, Leases!TypeOK, Leases!Surroundings
    <3>2. ~Leases!Alone
      BY DEF Leases!Alone, Deliveries
    <3>3. ~Leases!Alone'
      BY <1>2, <3>2, SettingStays
    <3>4. \A x \in Leases!Runs : InterruptedTells(x) => InterruptedTells(x)'
      BY <1>2, <2>3, <2>5, <2>6, <3>3 DEF InterruptedTells
    <3>5. \A x \in Leases!Runs :
              (UnboundTells(x) => UnboundTells(x)') /\ (InUseTells(x) => InUseTells(x)')
      BY <2>3, <2>5, <3>2 DEF UnboundTells, InUseTells
    <3>6. /\ AddingTells(u) => AddingTells(u)'
          /\ ReadyTells(u) => ReadyTells(u)'
          /\ FailTells(u) => FailTells(u)'
      BY <1>2, <2>5, <3>1 DEF AddingTells, ReadyTells, FailTells, Found
    <3> QED BY <3>1, <3>4, <3>5, <3>6 DEF DeliveryTells
  <2> QED BY <1>2, <1>4, <2>10, <2>11, <2>13, <2>14, <2>15, SettingStays
      DEF After, RowsTell, DeliveriesTell
<1> QED BY <1>5, <1>6 DEF Leases!Bind
-----------------------------------------------------------------------------
(* The runs and the releases.                                              *)

(* What a delivery between the transactions of its allocation knows is     *)
(* kept.                                                                   *)
KnownKept ==
    \A u \in Deliveries :
        /\ AddingTells(u) => AddingTells(u)'
        /\ ReadyTells(u) => ReadyTells(u)'
        /\ FailTells(u) => FailTells(u)'

(* While a run or a lease moves, no delivery holds rows.                   *)
LEMMA QuietStep ==
  ASSUME Before, Leases!Still, leaseSetting' = leaseSetting, UNCHANGED cmd, KnownKept
  PROVE  DeliveriesTell'
<1>1. \A u \in Threads : cmd[u].at \notin {"interrupted", "unbound", "inUse", "requested"}
  BY DEF Before, Leases!Orderly, Leases!Still
<1>2. Deliveries \subseteq Threads
  BY DEF Before, Deliveries, Leases!TypeOK, Leases!Surroundings
<1>3. \A u \in Deliveries : DeliveryTells(u)
  BY DEF Before, DeliveriesTell
<1> QED BY <1>1, <1>2, <1>3, SettingStays DEF KnownKept, DeliveryTells, DeliveriesTell

(* What rows say while their agents work: the tree stays usable.           *)
LEMMA AgentsStep ==
  ASSUME Before, Leases!Still, leaseSetting' = leaseSetting,
         NEW r \in Leases!Runs, Leases!Agents(r)
  PROVE  After'
<1>1. Leases!TypeOK /\ RowTells(r) /\ TreeTells(r)
  BY DEF Before, RowsTell
<1>2. /\ UNCHANGED <<leaseSetting, wsLease, wsRun, release, cmd>>
      /\ wsRun[r] = "live" /\ Leases!Registered(r)
      /\ wsLease[r].state \in {"READY", "IN_USE"}
  BY DEF Leases!Agents
<1>3. PICK s \in {"clean", "dirty"} : wsTree' = [wsTree EXCEPT ![wsLease[r].tree] = s]
  BY DEF Leases!Agents
<1> DEFINE k == wsLease[r].tree
<1>4. /\ k \in Starts /\ k # NoTree /\ wsTree[k] # "absent"
      /\ wsTree'[k] = s /\ \A x \in Starts \ {k} : wsTree'[x] = wsTree[x]
  BY <1>1, <1>2, <1>3 DEF Leases!TypeOK, Leases!Registered
<1>5. \A x \in Leases!Runs : RowTells(x)'
  BY <1>2, RowStays DEF Before, RowsTell
<1>6. ASSUME NEW x \in Leases!Runs PROVE TreeTells(x)'
  <2>1. TreeTells(x) /\ wsLease[x].tree \in Starts \cup {NoTree}
    BY <1>1 DEF Before, RowsTell, Leases!TypeOK
  <2>2. CASE wsLease[x].tree # k
    <3>1. wsLease[x].tree # NoTree => wsTree'[wsLease[x].tree] = wsTree[wsLease[x].tree]
      BY <1>4, <2>1, <2>2
    <3> QED BY <1>2, <2>1, <3>1 DEF TreeTells, Usable
  <2>3. CASE wsLease[x].tree = k
    <3>1. release[x] = "none"
      <4>1. SUFFICES ASSUME release[x] # "none" PROVE FALSE
        OBVIOUS
      <4>2. wsLease[x].state \in {"RELEASE_REQUESTED", "FAILED"}
        BY <2>1, <4>1 DEF TreeTells
      <4> QED BY <1>2, <1>4, <2>3, <4>2 DEF Before, RowsTell, OneHolder
    <3> QED BY <1>2, <1>4, <2>1, <2>3, <3>1 DEF TreeTells, Usable
  <2> QED BY <2>2, <2>3
<1>7. OneHolder' /\ Leases!TreesAreOnRecord'
  <2>1. \A x \in Starts : wsTree'[x] # "absent" => wsTree[x] # "absent"
    BY <1>4
  <2> QED BY <1>2, <2>1 DEF Before, RowsTell, OneHolder, Leases!TreesAreOnRecord
<1>8. KnownKept
  <2> SUFFICES ASSUME NEW u \in Deliveries
               PROVE  /\ AddingTells(u) => AddingTells(u)'
                      /\ ReadyTells(u) => ReadyTells(u)'
                      /\ FailTells(u) => FailTells(u)'
    BY DEF KnownKept
  <2>1. Command[u] \in Starts /\ Command[u] \in Leases!Runs /\ RowTells(Command[u])
    BY OwnRow
  <2>2. wsLease[r].owned /\ wsLease[r].state # "ALLOCATING"
    BY <1>1, <1>2 DEF RowTells
  <2>3. AddingTells(u) \/ ReadyTells(u) => Command[u] # k
    BY <1>2, <1>4, <2>1, <2>2
    DEF AddingTells, ReadyTells, Found, RowTells, Before, RowsTell, OneHolder
  <2>4. Command[u] # k => wsTree'[Command[u]] = wsTree[Command[u]]
    BY <1>4, <2>1
  <2> QED BY <1>2, <2>3, <2>4 DEF AddingTells, ReadyTells, FailTells, Found
<1> QED BY <1>2, <1>5, <1>6, <1>7, <1>8, QuietStep DEF After, RowsTell

(* The end of a run.                                                       *)
LEMMA EndStep ==
  ASSUME Before, Leases!Still, leaseSetting' = leaseSetting,
         NEW r \in Leases!Runs, Leases!EndRun(r) \/ Leases!EndRunAtBatchLimit(r)
  PROVE  After'
<1>1. /\ UNCHANGED <<leaseSetting, wsTree, release, cmd>>
      /\ wsRun[r] = "live" /\ wsRun' = [wsRun EXCEPT ![r] = "ended"]
  BY DEF Leases!EndRun, Leases!EndRunAtBatchLimit
<1>2. Leases!TypeOK /\ RowTells(r) /\ TreeTells(r)
  BY DEF Before, RowsTell
<1>3. wsRun'[r] = "ended" /\ \A x \in Leases!Runs \ {r} : wsRun'[x] = wsRun[x]
  BY <1>1, <1>2 DEF Leases!TypeOK
<1>4. /\ \/ wsLease'[r].state = wsLease[r].state
         \/ wsLease[r].state = "IN_USE" /\ wsLease'[r].state = "PRESERVED"
      /\ wsLease'[r].owned = wsLease[r].owned /\ wsLease'[r].tree = wsLease[r].tree
      /\ wsLease'[r].old = wsLease[r].old
      /\ \A x \in Leases!Runs \ {r} : wsLease'[x] = wsLease[x]
  <2>1. CASE Leases!EndRun(r) /\ wsLease[r].state = "IN_USE"
    <3>1. Leases!Write(r, "PRESERVED") /\ "PRESERVED" \in Leases!LeaseStates
      BY <2>1 DEF Leases!EndRun, Leases!LeaseStates
    <3> QED BY <1>2, <2>1, <3>1, WriteHasType
  <2>2. CASE UNCHANGED wsLease
    BY <2>2
  <2> QED BY <2>1, <2>2 DEF Leases!EndRun, Leases!EndRunAtBatchLimit
<1>5. wsLease[r].owned /\ wsLease[r].state \in {"READY", "IN_USE"} /\ release[r] = "none"
  <2>1. wsLease[r].owned \in BOOLEAN
    BY <1>2 DEF Leases!TypeOK
  <2> QED BY <1>1, <1>2, <2>1 DEF RowTells, TreeTells
<1>6. \A x \in Leases!Runs :
          wsLease[x].tree \in Starts \cup {NoTree} /\ wsLease'[x].tree = wsLease[x].tree
  BY <1>2, <1>4 DEF Leases!TypeOK
<1>7. ASSUME NEW x \in Leases!Runs PROVE RowTells(x)'
  <2>1. CASE x # r
    BY <1>3, <1>4, <2>1, RowStays DEF Before, RowsTell
  <2>2. CASE x = r
    <3>1. wsLease'[r].owned /\ wsRun'[r] = "ended"
      BY <1>3, <1>4, <1>5
    <3>2. /\ wsLease'[r].state \in {"READY", "IN_USE", "PRESERVED"}
          /\ wsLease'[r].state = "READY" => wsLease[r].state = "READY"
      BY <1>4, <1>5
    <3>3. wsLease'[r].old => leaseSetting'.aging
      BY <1>2, <1>4 DEF RowTells
    <3>4. Leases!Alone' => wsLease'[r].state # "READY"
      BY <1>2, <1>5, <3>2, SettingStays DEF RowTells
    <3> QED BY <2>2, <3>1, <3>2, <3>3, <3>4 DEF RowTells
  <2> QED BY <2>1, <2>2
<1>8. ASSUME NEW x \in Leases!Runs PROVE TreeTells(x)'
  <2>1. Usable(x)' = Usable(x)
    BY <1>1, <1>6 DEF Usable
  <2>2. wsLease'[x].tree # NoTree => wsLease'[wsLease'[x].tree].state # "none"
    <3>1. wsLease[x].tree # NoTree =>
              wsLease[x].tree \in Leases!Runs /\ wsLease[wsLease[x].tree].state # "none"
      BY <1>6 DEF Before, RowsTell, TreeTells, Leases!Runs
    <3> QED BY <1>4, <1>5, <1>6, <3>1
  <2>3. CASE x # r
    BY <1>1, <1>4, <2>1, <2>2, <2>3 DEF Before, RowsTell, TreeTells
  <2>4. CASE x = r
    BY <1>1, <1>2, <1>4, <1>5, <2>1, <2>2, <2>4 DEF TreeTells
  <2> QED BY <2>3, <2>4
<1>9. OneHolder' /\ Leases!TreesAreOnRecord'
  <2>1. \A x \in Leases!Runs :
            /\ wsLease'[x].state = "TRANSFERRED" <=> wsLease[x].state = "TRANSFERRED"
            /\ wsLease'[x].state = "REMOVED" <=> wsLease[x].state = "REMOVED"
    BY <1>4, <1>5
  <2>2. OneHolder'
    BY <1>6, <2>1 DEF Before, RowsTell, OneHolder
  <2>3. Leases!TreesAreOnRecord'
    BY <1>1, <1>6, <2>1 DEF Before, RowsTell, Leases!TreesAreOnRecord
  <2> QED BY <2>2, <2>3
<1>10. KnownKept
  <2> SUFFICES ASSUME NEW u \in Deliveries
               PROVE  /\ AddingTells(u) => AddingTells(u)'
                      /\ ReadyTells(u) => ReadyTells(u)'
                      /\ FailTells(u) => FailTells(u)'
    BY DEF KnownKept
  <2>1. Command[u] \in Leases!Runs
    BY OwnRow
  <2>2. AddingTells(u) \/ ReadyTells(u) \/ FailTells(u) => Command[u] # r
    BY <1>5 DEF AddingTells, ReadyTells, FailTells, Found
  <2> QED BY <1>1, <1>4, <2>1, <2>2 DEF AddingTells, ReadyTells, FailTells, Found
<1> QED BY <1>1, <1>7, <1>8, <1>9, <1>10, QuietStep DEF After, RowsTell
(* A continuation takes the lease of an ended run over.                    *)
LEMMA ContinueStep ==
  ASSUME Before, Leases!Still, leaseSetting' = leaseSetting,
         NEW r \in Leases!Runs, NEW h \in Heirs, Leases!Continue(r, h)
  PROVE  After'
<1>1. /\ UNCHANGED <<leaseSetting, wsTree, release, cmd>>
      /\ wsRun[r] = "ended" /\ wsRun[h] = "none" /\ wsLease[r].owned
      /\ wsRun' = [wsRun EXCEPT ![h] = "live"]
  BY DEF Leases!Continue
<1>2. /\ Leases!TypeOK /\ h \in Leases!Runs /\ h # r
      /\ RowTells(r) /\ TreeTells(r) /\ RowTells(h) /\ TreeTells(h)
  BY <1>1, CommandsAreRuns DEF Before, RowsTell
<1>3. wsLease[h].owned = FALSE /\ wsLease[h].state = "none" /\ wsLease[h].tree = NoTree
      /\ release[h] = "none"
  <2>1. wsLease[h].owned \in BOOLEAN
    BY <1>2 DEF Leases!TypeOK
  <2> QED BY <1>1, <1>2, <2>1 DEF RowTells, TreeTells
<1>4. wsRun'[h] = "live" /\ \A x \in Leases!Runs \ {h} : wsRun'[x] = wsRun[x]
  BY <1>1, <1>2 DEF Leases!TypeOK
<1>5. /\ wsLease'[h].state = "IN_USE" /\ wsLease'[h].owned = TRUE
      /\ wsLease'[h].old = FALSE /\ wsLease'[h].tree = wsLease[r].tree
      /\ wsLease'[r].owned = wsLease[r].owned /\ wsLease'[r].old = wsLease[r].old
      /\ wsLease'[r].tree = wsLease[r].tree
      /\ \A x \in Leases!Runs \ {r, h} : wsLease'[x] = wsLease[x]
      /\ \/ wsLease[r].tree = NoTree /\ wsLease'[r].state = wsLease[r].state
         \/ /\ wsLease[r].tree # NoTree /\ wsLease[r].state = "PRESERVED"
            /\ wsLease'[r].state = "TRANSFERRED"
  <2>1. PICK new : new = [wsLease[r] EXCEPT !.state = "IN_USE", !.old = FALSE]
    OBVIOUS
  <2>2. PICK row : row = [wsLease[r] EXCEPT !.state = "TRANSFERRED"]
    OBVIOUS
  <2>3. wsLease[r] \in LeaseRow /\ wsLease \in [Leases!Runs -> LeaseRow]
    BY <1>2 DEF Leases!TypeOK, LeaseRow
  <2>4. new.state = "IN_USE" /\ new.owned = TRUE /\ new.old = FALSE
        /\ new.tree = wsLease[r].tree
    BY <1>1, <2>1, <2>3 DEF LeaseRow
  <2>5. row.state = "TRANSFERRED" /\ row.owned = wsLease[r].owned
        /\ row.old = wsLease[r].old /\ row.tree = wsLease[r].tree
    BY <2>2, <2>3 DEF LeaseRow
  <2>6. CASE wsLease[r].tree = NoTree
    <3>1. wsLease' = [wsLease EXCEPT ![h] = new]
      BY <2>1, <2>6 DEF Leases!Continue
    <3> QED BY <1>2, <2>3, <2>4, <2>6, <3>1
  <2>7. CASE wsLease[r].tree # NoTree
    <3>1. /\ wsLease[r].state = "PRESERVED"
          /\ wsLease' = [[wsLease EXCEPT ![r].state = "TRANSFERRED"] EXCEPT ![h] = new]
      BY <2>1, <2>7 DEF Leases!Continue
    <3>2. [wsLease EXCEPT ![r].state = "TRANSFERRED"] = [wsLease EXCEPT ![r] = row]
      BY <2>2
    <3>3. wsLease' = [[wsLease EXCEPT ![r] = row] EXCEPT ![h] = new]
      BY <3>1, <3>2
    <3>4. wsLease'[h] = new /\ wsLease'[r] = row
          /\ \A x \in Leases!Runs \ {r, h} : wsLease'[x] = wsLease[x]
      BY <1>2, <2>3, <3>3
    <3> QED BY <2>4, <2>5, <2>7, <3>1, <3>4
  <2> QED BY <2>6, <2>7
<1>6. ASSUME NEW x \in Leases!Runs
      PROVE  /\ wsLease[x].tree \in Starts \cup {NoTree}
             /\ x # h => wsLease'[x].tree = wsLease[x].tree
  BY <1>2, <1>5 DEF Leases!TypeOK
<1>7. ASSUME NEW x \in Leases!Runs PROVE RowTells(x)'
  <2>1. CASE x \notin {r, h}
    BY <1>4, <1>5, <2>1, RowStays DEF Before, RowsTell
  <2>2. CASE x = r
    <3>1. wsLease'[r].owned /\ wsRun'[r] = "ended"
      BY <1>1, <1>2, <1>4, <1>5
    <3>2. /\ wsLease'[r].state \notin {"ALLOCATING", "none", "FAILED"}
          /\ wsLease'[r].state = "READY" => wsLease[r].state = "READY"
      BY <1>1, <1>2, <1>5 DEF RowTells
    <3>3. wsLease'[r].old => leaseSetting'.aging
      BY <1>2, <1>5 DEF RowTells
    <3>4. Leases!Alone' => wsLease'[r].state # "READY"
      BY <1>1, <1>2, <3>2, SettingStays DEF RowTells
    <3> QED BY <2>2, <3>1, <3>2, <3>3, <3>4 DEF RowTells
  <2>3. CASE x = h
    BY <1>4, <1>5, <2>3 DEF RowTells
  <2> QED BY <2>1, <2>2, <2>3
<1>8. wsLease[r].tree # NoTree => Usable(r)
  BY <1>1, <1>2, <1>5 DEF TreeTells
<1>9. ASSUME NEW x \in Leases!Runs, wsLease[x].state # "none"
      PROVE  wsLease'[x].state # "none"
  BY <1>3, <1>5, <1>9
<1>10. ASSUME NEW x \in Leases!Runs PROVE TreeTells(x)'
  <2>1. \A y \in Leases!Runs : wsLease[y].tree # NoTree =>
            wsLease[y].tree \in Leases!Runs /\ wsLease'[wsLease[y].tree].state # "none"
    BY <1>6, <1>9 DEF Before, RowsTell, TreeTells, Leases!Runs
  <2>2. CASE x \notin {r, h}
    <3>1. wsLease'[x] = wsLease[x] /\ Usable(x)' = Usable(x)
      BY <1>1, <1>5, <2>2 DEF Usable
    <3> QED BY <1>1, <2>1, <3>1 DEF Before, RowsTell, TreeTells
  <2>3. CASE x = r
    <3>1. Usable(r)' = Usable(r)
      BY <1>1, <1>5 DEF Usable
    <3>2. wsLease[r].tree = NoTree => release[r] = "none"
      BY <1>2 DEF TreeTells
    <3>3. wsLease[r].state = "PRESERVED" => release[r] = "none"
      BY <1>2 DEF TreeTells
    <3>4. wsLease[r].tree = NoTree => Usable(r)
      BY DEF Usable
    <3> QED BY <1>1, <1>2, <1>5, <2>1, <2>3, <3>1, <3>2, <3>3, <3>4 DEF TreeTells
  <2>4. CASE x = h
    <3>1. Usable(h)'
      BY <1>1, <1>5, <1>8 DEF Usable
    <3> QED BY <1>1, <1>3, <1>5, <2>1, <2>4, <3>1 DEF TreeTells
  <2> QED BY <2>2, <2>3, <2>4
<1>11. OneHolder'
  <2> SUFFICES ASSUME NEW x \in Leases!Runs, NEW y \in Leases!Runs,
                      wsLease'[x].tree = wsLease'[y].tree, wsLease'[x].tree # NoTree,
                      wsLease'[x].state # "TRANSFERRED", wsLease'[y].state # "TRANSFERRED"
               PROVE  x = y
    BY DEF OneHolder
  <2>1. ASSUME NEW z \in Leases!Runs \ {h}, wsLease'[z].state # "TRANSFERRED",
               wsLease'[z].tree # NoTree
        PROVE  /\ z # r /\ wsLease[z].state # "TRANSFERRED"
               /\ wsLease'[z].tree = wsLease[z].tree
    BY <1>5, <1>6, <2>1
  <2>2. ASSUME NEW z \in Leases!Runs \ {h}, wsLease'[z].state # "TRANSFERRED",
               wsLease'[z].tree = wsLease'[h].tree, wsLease'[h].tree # NoTree
        PROVE  FALSE
    <3>1. wsLease[r].state # "TRANSFERRED" /\ wsLease'[h].tree = wsLease[r].tree
      BY <1>5, <2>2
    <3> QED BY <2>1, <2>2, <3>1 DEF Before, RowsTell, OneHolder
  <2>3. CASE x # h /\ y # h
    BY <2>1, <2>3 DEF Before, RowsTell, OneHolder
  <2>4. CASE x = h \/ y = h
    BY <2>2, <2>4
  <2> QED BY <2>3, <2>4
<1>12. Leases!TreesAreOnRecord'
  <2> SUFFICES ASSUME NEW k \in Starts, wsTree'[k] # "absent"
               PROVE  \E x \in Leases!Runs : /\ wsLease'[x].tree = k
                          /\ wsLease'[x].state \notin {"TRANSFERRED", "REMOVED"}
    BY DEF Leases!TreesAreOnRecord
  <2>1. PICK x \in Leases!Runs :
            wsLease[x].tree = k /\ wsLease[x].state \notin {"TRANSFERRED", "REMOVED"}
    BY <1>1 DEF Before, RowsTell, Leases!TreesAreOnRecord
  <2>2. k # NoTree
    BY DEF Before, LeaseConstants
  <2>3. CASE x \in {r, h}
    BY <1>2, <1>3, <1>5, <2>1, <2>2, <2>3
  <2>4. CASE x \notin {r, h}
    BY <1>5, <2>1, <2>4
  <2> QED BY <2>3, <2>4
<1>13. KnownKept
  <2> SUFFICES ASSUME NEW u \in Deliveries
               PROVE  /\ AddingTells(u) => AddingTells(u)'
                      /\ ReadyTells(u) => ReadyTells(u)'
                      /\ FailTells(u) => FailTells(u)'
    BY DEF KnownKept
  <2>1. Command[u] \in Leases!Runs
    BY OwnRow
  <2>2. wsLease[r].state # "ALLOCATING"
    BY <1>1, <1>2 DEF RowTells
  <2>3. AddingTells(u) \/ ReadyTells(u) \/ FailTells(u) => Command[u] \notin {r, h}
    BY <1>1, <1>3, <2>2 DEF AddingTells, ReadyTells, FailTells, Found
  <2> QED BY <1>1, <1>5, <2>1, <2>3 DEF AddingTells, ReadyTells, FailTells, Found
<1> QED BY <1>1, <1>7, <1>10, <1>11, <1>12, <1>13, QuietStep DEF After, RowsTell
(* A release claims a lease.                                               *)
LEMMA ClaimStep ==
  ASSUME Before, Leases!Still, leaseSetting' = leaseSetting,
         NEW r \in Leases!Runs, Leases!Claim(r)
  PROVE  After'
<1>1. /\ UNCHANGED <<leaseSetting, wsTree, wsRun, cmd>>
      /\ wsLease[r].tree # NoTree /\ wsLease[r].state \in {"PRESERVED", "FAILED"}
      /\ Leases!Write(r, "RELEASE_REQUESTED")
      /\ release' = [release EXCEPT ![r] = "claimed"]
  BY DEF Leases!Claim, Leases!Releasable
<1>2. /\ Leases!TypeOK /\ RowTells(r) /\ TreeTells(r)
      /\ "RELEASE_REQUESTED" \in Leases!LeaseStates
  BY DEF Before, RowsTell, Leases!LeaseStates
<1>3. /\ wsLease'[r].state = "RELEASE_REQUESTED" /\ wsLease'[r].owned = wsLease[r].owned
      /\ wsLease'[r].old = wsLease[r].old /\ wsLease'[r].tree = wsLease[r].tree
      /\ \A x \in Leases!Runs \ {r} : wsLease'[x] = wsLease[x]
  BY <1>1, <1>2, WriteHasType
<1>4. release'[r] = "claimed" /\ \A x \in Leases!Runs \ {r} : release'[x] = release[x]
  BY <1>1, <1>2 DEF Leases!TypeOK
<1>5. \A x \in Leases!Runs :
          wsLease[x].tree \in Starts \cup {NoTree} /\ wsLease'[x].tree = wsLease[x].tree
  BY <1>2, <1>3 DEF Leases!TypeOK
<1>6. ASSUME NEW x \in Leases!Runs PROVE RowTells(x)'
  <2>1. CASE x # r
    BY <1>1, <1>3, <2>1, RowStays DEF Before, RowsTell
  <2>2. CASE x = r
    BY <1>1, <1>2, <1>3, <2>2, SettingStays DEF RowTells
  <2> QED BY <2>1, <2>2
<1>7. ASSUME NEW x \in Leases!Runs PROVE TreeTells(x)'
  <2>1. Usable(x)' = Usable(x)
    BY <1>1, <1>5 DEF Usable
  <2>2. wsLease'[x].tree # NoTree => wsLease'[wsLease'[x].tree].state # "none"
    <3>1. wsLease[x].tree # NoTree =>
              wsLease[x].tree \in Leases!Runs /\ wsLease[wsLease[x].tree].state # "none"
      BY <1>5 DEF Before, RowsTell, TreeTells, Leases!Runs
    <3> QED BY <1>3, <1>5, <3>1
  <2>3. CASE x # r
    BY <1>1, <1>3, <1>4, <2>1, <2>2, <2>3 DEF Before, RowsTell, TreeTells
  <2>4. CASE x = r
    <3>1. wsLease[r].owned => Usable(r)
      BY <1>1, <1>2 DEF RowTells, TreeTells
    <3> QED BY <1>1, <1>3, <1>4, <2>1, <2>2, <2>4, <3>1 DEF TreeTells
  <2> QED BY <2>3, <2>4
<1>8. OneHolder' /\ Leases!TreesAreOnRecord'
  <2>1. \A x \in Leases!Runs :
            /\ wsLease'[x].state = "TRANSFERRED" <=> wsLease[x].state = "TRANSFERRED"
            /\ wsLease'[x].state = "REMOVED" <=> wsLease[x].state = "REMOVED"
    BY <1>1, <1>3
  <2>2. OneHolder'
    BY <1>5, <2>1 DEF Before, RowsTell, OneHolder
  <2>3. Leases!TreesAreOnRecord'
    BY <1>1, <1>5, <2>1 DEF Before, RowsTell, Leases!TreesAreOnRecord
  <2> QED BY <2>2, <2>3
<1>9. KnownKept
  <2> SUFFICES ASSUME NEW u \in Deliveries
               PROVE  /\ AddingTells(u) => AddingTells(u)'
                      /\ ReadyTells(u) => ReadyTells(u)'
                      /\ FailTells(u) => FailTells(u)'
    BY DEF KnownKept
  <2>1. Command[u] \in Leases!Runs
    BY OwnRow
  <2>2. AddingTells(u) \/ ReadyTells(u) => Command[u] # r
    BY <1>1 DEF AddingTells, ReadyTells, Found
  <2>3. FailTells(u) => FailTells(u)'
    BY <1>3, <2>1 DEF FailTells, Found
  <2> QED BY <1>1, <1>3, <2>1, <2>2, <2>3 DEF AddingTells, ReadyTells, Found
<1> QED BY <1>1, <1>6, <1>7, <1>8, <1>9, QuietStep DEF After, RowsTell

(* git worktree remove.                                                    *)
LEMMA RemoveStep ==
  ASSUME Before, Leases!Still, leaseSetting' = leaseSetting,
         NEW r \in Leases!Runs, Leases!Remove(r)
  PROVE  After'
<1> DEFINE k == wsLease[r].tree
<1>1. UNCHANGED <<leaseSetting, wsLease, wsRun, cmd>> /\ release[r] = "claimed"
  BY DEF Leases!Remove
<1>2. Leases!TypeOK /\ RowTells(r) /\ TreeTells(r)
  BY DEF Before, RowsTell
<1>3. /\ k \in Starts /\ k # NoTree
      /\ wsLease[r].state \in {"RELEASE_REQUESTED", "FAILED"}
  BY <1>1, <1>2 DEF TreeTells, Leases!TypeOK
<1>4. PICK end \in {"gone", "kept"} : release' = [release EXCEPT ![r] = end]
  BY DEF Leases!Remove
<1>5. release'[r] = end /\ \A x \in Leases!Runs \ {r} : release'[x] = release[x]
  BY <1>2, <1>4 DEF Leases!TypeOK
<1>6. \/ end = "gone" /\ wsTree'[k] = "absent" /\ \A x \in Starts \ {k} : wsTree'[x] = wsTree[x]
      \/ end = "kept" /\ wsTree' = wsTree
  <2>1. CASE wsTree' = [wsTree EXCEPT ![k] = "absent"] /\ release' = [release EXCEPT ![r] = "gone"]
    BY <1>2, <1>3, <1>5, <2>1 DEF Leases!TypeOK
  <2>2. CASE wsTree[k] = "absent" /\ release' = [release EXCEPT ![r] = "gone"] /\ UNCHANGED wsTree
    BY <1>2, <1>3, <1>5, <2>2 DEF Leases!TypeOK
  <2>3. CASE release' = [release EXCEPT ![r] = "kept"] /\ UNCHANGED wsTree
    BY <1>2, <1>5, <2>3 DEF Leases!TypeOK
  <2> QED BY <2>1, <2>2, <2>3 DEF Leases!Remove
<1>7. \A x \in Starts : wsTree'[x] = "absent" \/ wsTree'[x] = wsTree[x]
  BY <1>6
<1>8. \A x \in Leases!Runs : RowTells(x)'
  BY <1>1, RowStays DEF Before, RowsTell
<1>9. ASSUME NEW x \in Leases!Runs PROVE TreeTells(x)'
  <2>1. TreeTells(x) /\ RowTells(x) /\ wsLease[x].tree \in Starts \cup {NoTree}
    BY <1>2 DEF Before, RowsTell, Leases!TypeOK
  <2>2. CASE x = r
    <3>1. wsLease[r].owned => Usable(r)
      BY <1>1, <1>2 DEF TreeTells
    <3>2. end = "kept" => Usable(r)' = Usable(r)
      BY <1>1, <1>6 DEF Usable
    <3> QED BY <1>1, <1>3, <1>5, <1>6, <2>1, <2>2, <3>1, <3>2 DEF TreeTells
  <2>3. CASE x # r /\ wsLease[x].tree # k
    <3>1. wsLease[x].tree # NoTree => wsTree'[wsLease[x].tree] = wsTree[wsLease[x].tree]
      BY <1>6, <2>1, <2>3
    <3> QED BY <1>1, <1>5, <2>1, <2>3, <3>1 DEF TreeTells, Usable
  <2>4. CASE x # r /\ wsLease[x].tree = k
    <3>1. wsLease[x].state = "TRANSFERRED"
      BY <1>3, <2>4 DEF Before, RowsTell, OneHolder
    <3> QED BY <1>1, <1>5, <2>1, <2>4, <3>1 DEF TreeTells
  <2> QED BY <2>2, <2>3, <2>4
<1>10. OneHolder' /\ Leases!TreesAreOnRecord'
  <2>1. \A x \in Starts : wsTree'[x] # "absent" => wsTree[x] # "absent"
    BY <1>7
  <2> QED BY <1>1, <2>1 DEF Before, RowsTell, OneHolder, Leases!TreesAreOnRecord
<1>11. KnownKept
  <2> SUFFICES ASSUME NEW u \in Deliveries
               PROVE  /\ AddingTells(u) => AddingTells(u)'
                      /\ ReadyTells(u) => ReadyTells(u)'
                      /\ FailTells(u) => FailTells(u)'
    BY DEF KnownKept
  <2>1. Command[u] \in Starts /\ Command[u] \in Leases!Runs
    BY OwnRow
  <2>2. ReadyTells(u) => Command[u] # k
    BY <1>3, <2>1 DEF ReadyTells, Found, Before, RowsTell, OneHolder
  <2>3. ReadyTells(u) => wsTree'[Command[u]] = wsTree[Command[u]]
    BY <1>6, <2>1, <2>2
  <2>4. AddingTells(u) => AddingTells(u)'
    BY <1>1, <1>7, <2>1 DEF AddingTells, Found
  <2> QED BY <1>1, <2>3, <2>4 DEF ReadyTells, FailTells, Found
<1> QED BY <1>1, <1>8, <1>9, <1>10, <1>11, QuietStep DEF After, RowsTell

(* The last transaction of a release, after its git call.                  *)
LEMMA FinishReleaseStep ==
  ASSUME Before, leaseSetting' = leaseSetting, NEW r \in Leases!Runs, Leases!FinishRelease(r)
  PROVE  After'
<1> DEFINE s == IF release[r] = "gone" THEN "REMOVED" ELSE "PRESERVED"
<1>1. /\ UNCHANGED <<leaseSetting, wsTree, wsRun, cmd>> /\ Leases!Finalize(r, s)
      /\ release[r] \in {"gone", "kept"}
  BY DEF Leases!FinishRelease
<1>2. s = "REMOVED" => wsTree[wsLease[r].tree] = "absent"
  BY DEF Before, RowsTell, TreeTells
<1>3. s \in {"REMOVED", "PRESERVED"} /\ (s = "PRESERVED" => release[r] = "kept")
  BY <1>1
<1>4. /\ RowsTell'
      /\ \A u \in Threads : cmd'[u] = cmd[u] /\ DeliveryTells(u) => DeliveryTells(u)'
  BY <1>1, <1>2, <1>3, FinalizeKeeps
<1>5. Deliveries \subseteq Threads
  BY DEF Before, Deliveries, Leases!TypeOK, Leases!Surroundings
<1> QED BY <1>1, <1>4, <1>5, SettingStays DEF After, DeliveriesTell, Before

(* A row grows old.                                                        *)
LEMMA AgeStep ==
  ASSUME Before, leaseSetting' = leaseSetting, NEW r \in Leases!Runs, Leases!Age(r)
  PROVE  After'
<1>1. /\ UNCHANGED <<leaseSetting, wsTree, wsRun, release, cmd>> /\ leaseSetting.aging
      /\ wsLease' = [wsLease EXCEPT ![r].old = TRUE]
  BY DEF Leases!Age
<1>2. Leases!TypeOK
  BY DEF Before
<1>3. /\ wsLease'[r].state = wsLease[r].state /\ wsLease'[r].owned = wsLease[r].owned
      /\ wsLease'[r].tree = wsLease[r].tree
      /\ \A x \in Leases!Runs \ {r} : wsLease'[x] = wsLease[x]
  <2>1. PICK row : row = [wsLease[r] EXCEPT !.old = TRUE]
    OBVIOUS
  <2>2. wsLease[r] \in LeaseRow /\ wsLease \in [Leases!Runs -> LeaseRow]
    BY <1>2 DEF Leases!TypeOK, LeaseRow
  <2>3. row.state = wsLease[r].state /\ row.owned = wsLease[r].owned
        /\ row.tree = wsLease[r].tree
    BY <2>1, <2>2 DEF LeaseRow
  <2>4. wsLease' = [wsLease EXCEPT ![r] = row]
    BY <1>1, <2>1
  <2> QED BY <2>2, <2>3, <2>4
<1>4. \A x \in Leases!Runs :
          /\ wsLease'[x].state = wsLease[x].state /\ wsLease'[x].owned = wsLease[x].owned
          /\ wsLease'[x].tree = wsLease[x].tree
          /\ wsLease[x].tree \in Starts \cup {NoTree}
  BY <1>2, <1>3 DEF Leases!TypeOK
<1>5. ASSUME NEW x \in Leases!Runs PROVE RowTells(x)'
  <2>1. leaseSetting'.aging /\ RowTells(x)
    BY <1>1 DEF Before, RowsTell
  <2> QED BY <1>1, <1>4, <2>1, SettingStays DEF RowTells
<1>6. ASSUME NEW x \in Leases!Runs PROVE TreeTells(x)'
  <2>1. Usable(x)' = Usable(x)
    BY <1>1, <1>4 DEF Usable
  <2>2. wsLease[x].tree # NoTree => wsLease'[wsLease[x].tree].state = wsLease[wsLease[x].tree].state
    BY <1>4 DEF Leases!Runs
  <2> QED BY <1>1, <1>4, <2>1, <2>2 DEF Before, RowsTell, TreeTells
<1>7. OneHolder' /\ Leases!TreesAreOnRecord'
  BY <1>1, <1>4 DEF Before, RowsTell, OneHolder, Leases!TreesAreOnRecord
<1>8. ASSUME NEW u \in Deliveries PROVE DeliveryTells(u)'
  <2>1. u \in Threads /\ DeliveryTells(u) /\ Command[u] \in Leases!Runs
        /\ cmd[u].rows \subseteq Leases!Runs
    BY <1>2, OwnRow DEF Leases!TypeOK
  <2>2. \A x \in Leases!Runs :
            /\ InterruptedTells(x) => InterruptedTells(x)'
            /\ UnboundTells(x) => UnboundTells(x)'
            /\ InUseTells(x) => InUseTells(x)'
    BY <1>1, <1>4, SettingStays DEF InterruptedTells, UnboundTells, InUseTells
  <2>3. /\ AddingTells(u) => AddingTells(u)'
        /\ ReadyTells(u) => ReadyTells(u)'
        /\ FailTells(u) => FailTells(u)'
    BY <1>1, <1>4, <2>1 DEF AddingTells, ReadyTells, FailTells, Found
  <2> QED BY <1>1, <2>1, <2>2, <2>3 DEF DeliveryTells
<1> QED BY <1>5, <1>6, <1>7, <1>8, SettingStays DEF After, RowsTell, DeliveriesTell
-----------------------------------------------------------------------------
(* Every step keeps the types.                                             *)

(* The steps of a delivery keep the types.                                 *)
LEMMA ThreadTypes ==
  ASSUME LeaseConstants, Leases!TypeOK, leaseSetting' = leaseSetting,
         NEW t \in Threads, Leases!Thread(t)
  PROVE  Leases!TypeOK'
<1>1. Command[t] \in Starts /\ Command[t] \in Leases!Runs
      /\ \A s : Leases!In(s) \in SUBSET Leases!Runs
  BY CommandsAreRuns
<1>2. cmd' \in [Threads -> [at : Leases!Places, rows : SUBSET Leases!Runs]]
  <2>1. CASE \E r \in cmd[t].rows : Leases!Without(t, r)
    BY <2>1, WithoutHasType
  <2>2. CASE \E place \in Leases!Places, rows \in SUBSET Leases!Runs :
                 Leases!Goes(t, place, rows)
    BY <2>2, GoingHasType
  <2>3. CASE Leases!Reconcile(t)
    <3>1. CASE Leases!Begin(t)
      BY <1>1, <2>2, <3>1 DEF Leases!Begin, Leases!Places
    <3>2. CASE Leases!LoadUnbound(t)
      <4>1. {r \in Leases!In("READY") : wsLease[r].old /\ ~wsLease[r].owned}
                \in SUBSET Leases!Runs
        BY <1>1
      <4> QED BY <2>2, <3>2, <4>1 DEF Leases!LoadUnbound, Leases!Places
    <3>3. CASE Leases!LoadInUse(t)
      <4>1. Leases!Held \in SUBSET Leases!Runs
        BY <1>1 DEF Leases!Held
      <4> QED BY <2>2, <3>3, <4>1 DEF Leases!LoadInUse, Leases!Places
    <3>4. CASE Leases!LoadRequested(t)
      BY <1>1, <2>2, <3>4 DEF Leases!LoadRequested, Leases!Places
    <3>5. CASE Leases!Reconciled(t)
      <4>1. Leases!Goes(t, "lookup", {}) /\ "lookup" \in Leases!Places
            /\ {} \in SUBSET Leases!Runs
        BY <3>5 DEF Leases!Reconciled, Leases!Places
      <4> QED BY <2>2, <4>1
    <3> QED BY <2>1, <2>3, <3>1, <3>2, <3>3, <3>4, <3>5
        DEF Leases!Reconcile, Leases!JudgeInterrupted, Leases!FailUnbound,
            Leases!PreserveEnded, Leases!FinishReleased
  <2>4. CASE Leases!Allocate(t) \/ Leases!Bind(t) \/ Leases!Redeliver(t) \/ Leases!Crash(t)
    <3>1. PICK place \in {"bind", "adding", "waiting", "failed", "ready", "fail", "done",
                          "idle"} : Leases!Goes(t, place, {})
      BY <2>4 DEF Leases!Allocate, Leases!Bind, Leases!Redeliver, Leases!Crash,
         Leases!ReturnExisting, Leases!AllocateShared, Leases!AllocateIsolated,
         Leases!AdoptInterrupted, Leases!AwaitOther, Leases!Polled, Leases!Add,
         Leases!WriteReady, Leases!WriteFailed
    <3>2. place \in Leases!Places /\ {} \in SUBSET Leases!Runs
      BY DEF Leases!Places
    <3> QED BY <2>2, <3>1, <3>2
  <2> QED BY <2>3, <2>4 DEF Leases!Thread
<1>3. wsLease' \in [Leases!Runs -> LeaseRow]
  <2>1. wsLease \in [Leases!Runs -> LeaseRow]
    BY DEF Leases!TypeOK, LeaseRow
  <2>2. CASE UNCHANGED wsLease
    BY <2>1, <2>2
  <2>3. CASE \E r \in Leases!Runs, s \in Leases!LeaseStates : Leases!Write(r, s)
    BY <2>3, WriteHasType
  <2>4. CASE \E row \in LeaseRow : wsLease' = [wsLease EXCEPT ![Command[t]] = row]
    BY <1>1, <2>1, <2>4
  <2>5. cmd[t].rows \subseteq Leases!Runs
    BY DEF Leases!TypeOK
  <2>6. CASE Leases!Reconcile(t)
    <3>1. CASE Leases!JudgeInterrupted(t)
      <4>1. PICK r \in Leases!Runs : \E listing \in Leases!Listings(r) :
                Leases!Write(r, Leases!Judged(r, listing))
        BY <2>5, <3>1 DEF Leases!JudgeInterrupted
      <4>2. \A listing : Leases!Judged(r, listing) \in Leases!LeaseStates
        BY DEF Leases!Judged, Leases!TypeOK, Leases!LeaseStates
      <4> QED BY <2>3, <4>1, <4>2
    <3>2. CASE Leases!FailUnbound(t) \/ Leases!PreserveEnded(t) \/ Leases!FinishReleased(t)
      BY <2>2, <2>3, <2>5, <3>2
      DEF Leases!FailUnbound, Leases!PreserveEnded, Leases!FinishReleased,
          Leases!Finalize, Leases!LeaseStates
    <3> QED BY <2>2, <2>6, <3>1, <3>2
        DEF Leases!Reconcile, Leases!Begin, Leases!LoadUnbound, Leases!LoadInUse,
            Leases!LoadRequested, Leases!Reconciled
  <2>7. CASE Leases!Allocate(t)
    <3>1. CASE Leases!AllocateShared(t) \/ Leases!AllocateIsolated(t)
      <4>1. \A s \in Leases!LeaseStates, tr \in {NoTree, Command[t]} :
                [state |-> s, owned |-> FALSE, old |-> FALSE, tree |-> tr] \in LeaseRow
        BY <1>1 DEF LeaseRow
      <4> QED BY <2>4, <3>1, <4>1
          DEF Leases!AllocateShared, Leases!AllocateIsolated, Leases!Insert,
              Leases!LeaseStates
    <3>2. CASE Leases!AdoptInterrupted(t) \/ Leases!WriteReady(t) \/ Leases!WriteFailed(t)
      BY <1>1, <2>3, <3>2
      DEF Leases!AdoptInterrupted, Leases!WriteReady, Leases!WriteFailed,
          Leases!LeaseStates
    <3> QED BY <2>2, <2>7, <3>1, <3>2
        DEF Leases!Allocate, Leases!ReturnExisting, Leases!AwaitOther, Leases!Polled,
            Leases!Add
  <2>8. CASE Leases!Bind(t)
    <3>1. CASE wsLease' = Leases!Bound(Command[t])
      <4>1. PICK row : row = [[wsLease[Command[t]] EXCEPT !.state = "IN_USE"]
                                 EXCEPT !.owned = TRUE]
        OBVIOUS
      <4>2. row \in LeaseRow
        BY <1>1, <2>1, <4>1 DEF LeaseRow, Leases!LeaseStates
      <4>3. wsLease' = [wsLease EXCEPT ![Command[t]] = row]
        BY <1>1, <2>1, <3>1, <4>1 DEF Leases!Bound
      <4> QED BY <2>4, <4>2, <4>3
    <3> QED BY <2>2, <2>8, <3>1 DEF Leases!Bind
  <2>9. CASE Leases!Redeliver(t) \/ Leases!Crash(t)
    BY <2>2, <2>9 DEF Leases!Redeliver, Leases!Crash
  <2> QED BY <2>6, <2>7, <2>8, <2>9 DEF Leases!Thread
<1>4. wsTree' \in [Starts -> Leases!TreeStates]
  <2>1. wsTree \in [Starts -> Leases!TreeStates]
    BY DEF Leases!TypeOK
  <2>2. CASE \E left \in Leases!TreeStates : wsTree' = [wsTree EXCEPT ![Command[t]] = left]
    BY <1>1, <2>1, <2>2
  <2>3. CASE Leases!Add(t) \/ Leases!Crash(t)
    BY <2>1, <2>2, <2>3 DEF Leases!Add, Leases!Crash
  <2>4. CASE UNCHANGED wsTree
    BY <2>1, <2>4
  <2> QED BY <2>3, <2>4
      DEF Leases!Thread, Leases!Reconcile, Leases!Allocate, Leases!Begin,
          Leases!JudgeInterrupted, Leases!LoadUnbound, Leases!FailUnbound,
          Leases!LoadInUse, Leases!PreserveEnded, Leases!LoadRequested,
          Leases!FinishReleased, Leases!Reconciled, Leases!ReturnExisting,
          Leases!AllocateShared, Leases!AllocateIsolated, Leases!AdoptInterrupted,
          Leases!AwaitOther, Leases!Polled, Leases!WriteReady, Leases!WriteFailed,
          Leases!Bind, Leases!Redeliver
<1>5. wsRun' \in [Leases!Runs -> {"none", "live", "ended"}]
  <2>1. UNCHANGED wsRun \/ wsRun' = [wsRun EXCEPT ![Command[t]] = "live"]
    BY DEF Leases!Thread, Leases!Reconcile, Leases!Allocate, Leases!Begin,
       Leases!JudgeInterrupted, Leases!LoadUnbound, Leases!FailUnbound,
       Leases!LoadInUse, Leases!PreserveEnded, Leases!LoadRequested,
       Leases!FinishReleased, Leases!Reconciled, Leases!ReturnExisting,
       Leases!AllocateShared, Leases!AllocateIsolated, Leases!AdoptInterrupted,
       Leases!AwaitOther, Leases!Polled, Leases!Add, Leases!WriteReady,
       Leases!WriteFailed, Leases!Bind, Leases!Redeliver, Leases!Crash
  <2> QED BY <2>1 DEF Leases!TypeOK
<1>6. release' \in [Leases!Runs -> {"none", "claimed", "gone", "kept"}] /\ heir' = heir
  <2>1. /\ UNCHANGED release \/ \E r \in Leases!Runs : release' = [release EXCEPT ![r] = "none"]
        /\ UNCHANGED heir
    <3>1. cmd[t].rows \subseteq Leases!Runs
      BY DEF Leases!TypeOK
    <3> QED BY <3>1 DEF Leases!Thread, Leases!Reconcile, Leases!Allocate, Leases!Begin,
       Leases!JudgeInterrupted, Leases!LoadUnbound, Leases!FailUnbound,
       Leases!LoadInUse, Leases!PreserveEnded, Leases!LoadRequested,
       Leases!FinishReleased, Leases!Reconciled, Leases!ReturnExisting,
       Leases!AllocateShared, Leases!AllocateIsolated, Leases!AdoptInterrupted,
       Leases!AwaitOther, Leases!Polled, Leases!Add, Leases!WriteReady,
       Leases!WriteFailed, Leases!Bind, Leases!Redeliver, Leases!Crash, Leases!Finalize
  <2> QED BY <2>1 DEF Leases!TypeOK
<1> QED BY <1>2, <1>3, <1>4, <1>5, <1>6 DEF Leases!TypeOK, LeaseRow
(* The steps of the runs, the releases and time keep the types.            *)
LEMMA OwnerTypes ==
  ASSUME LeaseConstants, Leases!TypeOK, leaseSetting' = leaseSetting, NEW r \in Leases!Runs,
         Leases!Owner(r) \/ Leases!Operator(r) \/ Leases!Age(r)
  PROVE  Leases!TypeOK'
<1>1. wsLease \in [Leases!Runs -> LeaseRow] /\ wsTree \in [Starts -> Leases!TreeStates]
  BY DEF Leases!TypeOK, LeaseRow
<1>2. UNCHANGED cmd
  BY DEF Leases!Owner, Leases!Operator, Leases!Agents, Leases!EndRun,
     Leases!EndRunAtBatchLimit, Leases!Continue, Leases!Claim, Leases!Remove,
     Leases!FinishRelease, Leases!Age
<1>3. wsTree' \in [Starts -> Leases!TreeStates]
  <2>1. UNCHANGED wsTree \/ \E s \in Leases!TreeStates :
            wsTree' = [wsTree EXCEPT ![wsLease[r].tree] = s]
    BY DEF Leases!Owner, Leases!Operator, Leases!Agents, Leases!EndRun,
       Leases!EndRunAtBatchLimit, Leases!Continue, Leases!Claim, Leases!Remove,
       Leases!FinishRelease, Leases!Age, Leases!TreeStates
  <2> QED BY <1>1, <2>1
<1>4. wsLease' \in [Leases!Runs -> LeaseRow]
  <2>1. CASE \E h \in Heirs : Leases!Continue(r, h)
    <3>1. PICK h \in Heirs : Leases!Continue(r, h)
      BY <2>1
    <3>2. PICK new : new = [wsLease[r] EXCEPT !.state = "IN_USE", !.old = FALSE]
      OBVIOUS
    <3>3. PICK row : row = [wsLease[r] EXCEPT !.state = "TRANSFERRED"]
      OBVIOUS
    <3>4. new \in LeaseRow /\ row \in LeaseRow /\ h \in Leases!Runs
      BY <1>1, <3>2, <3>3, CommandsAreRuns DEF LeaseRow, Leases!LeaseStates
    <3>5. [wsLease EXCEPT ![r].state = "TRANSFERRED"] = [wsLease EXCEPT ![r] = row]
      BY <3>3
    <3>6. \/ wsLease' = [wsLease EXCEPT ![h] = new]
          \/ wsLease' = [[wsLease EXCEPT ![r].state = "TRANSFERRED"] EXCEPT ![h] = new]
      BY <3>1, <3>2 DEF Leases!Continue
    <3> QED BY <1>1, <3>4, <3>5, <3>6
  <2>2. CASE Leases!Age(r)
    <3>1. PICK row : row = [wsLease[r] EXCEPT !.old = TRUE]
      OBVIOUS
    <3>2. row \in LeaseRow
      BY <1>1, <3>1 DEF LeaseRow
    <3>3. wsLease' = [wsLease EXCEPT ![r] = row]
      BY <2>2, <3>1 DEF Leases!Age
    <3> QED BY <1>1, <3>2, <3>3
  <2>3. CASE \/ Leases!Agents(r) \/ Leases!EndRun(r) \/ Leases!EndRunAtBatchLimit(r)
             \/ Leases!Operator(r)
    <3>1. UNCHANGED wsLease \/ \E s \in Leases!LeaseStates : Leases!Write(r, s)
      BY <2>3 DEF Leases!Operator, Leases!Agents, Leases!EndRun, Leases!EndRunAtBatchLimit,
         Leases!Claim, Leases!Remove, Leases!FinishRelease, Leases!Finalize,
         Leases!LeaseStates
    <3> QED BY <1>1, <3>1, WriteHasType
  <2> QED BY <2>1, <2>2, <2>3 DEF Leases!Owner
<1>5. wsRun' \in [Leases!Runs -> {"none", "live", "ended"}]
      /\ heir' \in [Leases!Runs -> Leases!Runs]
  <2>1. \/ UNCHANGED <<wsRun, heir>>
        \/ wsRun' = [wsRun EXCEPT ![r] = "ended"] /\ UNCHANGED heir
        \/ \E h \in Leases!Runs : /\ wsRun' = [wsRun EXCEPT ![h] = "live"]
                                  /\ heir' = [heir EXCEPT ![r] = h]
    BY CommandsAreRuns
    DEF Leases!Owner, Leases!Operator, Leases!Agents, Leases!EndRun,
        Leases!EndRunAtBatchLimit, Leases!Continue, Leases!Claim, Leases!Remove,
        Leases!FinishRelease, Leases!Age
  <2>2. /\ wsRun \in [Leases!Runs -> {"none", "live", "ended"}]
        /\ heir \in [Leases!Runs -> Leases!Runs]
    BY DEF Leases!TypeOK
  <2>3. wsRun' \in [Leases!Runs -> {"none", "live", "ended"}]
    BY <2>1, <2>2
  <2>4. heir' \in [Leases!Runs -> Leases!Runs]
    BY <2>1, <2>2
  <2> QED BY <2>3, <2>4
<1>6. release' \in [Leases!Runs -> {"none", "claimed", "gone", "kept"}]
  <2>1. UNCHANGED release \/ \E s \in {"none", "claimed", "gone", "kept"} :
            release' = [release EXCEPT ![r] = s]
    BY DEF Leases!Owner, Leases!Operator, Leases!Agents, Leases!EndRun,
       Leases!EndRunAtBatchLimit, Leases!Continue, Leases!Claim, Leases!Remove,
       Leases!FinishRelease, Leases!Finalize, Leases!Age
  <2> QED BY <2>1 DEF Leases!TypeOK
<1> QED BY <1>2, <1>3, <1>4, <1>5, <1>6 DEF Leases!TypeOK, LeaseRow
-----------------------------------------------------------------------------
(* The invariant.                                                          *)

(* It holds at first.                                                      *)
LEMMA LeaseStart == LeaseConstants /\ Leases!Init => LeaseInv
<1> SUFFICES ASSUME LeaseConstants, Leases!Init PROVE LeaseInv
  OBVIOUS
<1>1. Leases!TypeOK
  BY DEF LeaseConstants, Leases!Init, Leases!TypeOK, Leases!NoLease, Leases!Idle,
     Leases!LeaseStates, Leases!TreeStates, Leases!Places
<1>2. \A r \in Leases!Runs : wsLease[r] = Leases!NoLease /\ wsRun[r] = "none"
                             /\ release[r] = "none"
  BY DEF Leases!Init
<1>3. \A r \in Leases!Runs : RowTells(r) /\ TreeTells(r)
  BY <1>2 DEF RowTells, TreeTells, Leases!NoLease
<1>4. OneHolder /\ Leases!TreesAreOnRecord
  BY <1>2 DEF OneHolder, Leases!TreesAreOnRecord, Leases!NoLease, Leases!Init
<1>5. \A t \in Deliveries : cmd[t].at = "idle"
  BY <1>1 DEF Leases!Init, Leases!Idle, Deliveries, Leases!TypeOK, Leases!Surroundings
<1> QED BY <1>1, <1>3, <1>4, <1>5 DEF LeaseInv, RowsTell, DeliveriesTell, DeliveryTells

(* A step of a delivery keeps it.                                          *)
LEMMA ThreadStep ==
  ASSUME Before, NEW t \in Deliveries, leaseSetting' = leaseSetting, Leases!Thread(t)
  PROVE  After'
BY LoadStep, JudgeStep, FailUnboundStep, PreserveStep, FinishReleasedStep, AnswerStep,
   InsertStep, AllocatedStep, AddStep, BindStep, CrashStep
DEF Leases!Thread, Leases!Reconcile, Leases!Allocate

(* So does one of a run, of a release, or of time.                         *)
LEMMA OwnerStep ==
  ASSUME Before, leaseSetting' = leaseSetting, NEW r \in Leases!Runs,
         (Leases!Still /\ (Leases!Owner(r) \/ Leases!Operator(r))) \/ Leases!Age(r)
  PROVE  After'
BY AgentsStep, EndStep, ContinueStep, ClaimStep, RemoveStep, FinishReleaseStep, AgeStep
DEF Leases!Owner, Leases!Operator

(* Every step keeps it.                                                    *)
LEMMA LeaseStep ==
  ASSUME LeaseConstants, LeaseInv, [Leases!Next]_(Leases!vars)
  PROVE  LeaseInv'
<1>1. CASE UNCHANGED Leases!vars
  <2>1. Leases!TypeOK'
    BY <1>1 DEF LeaseInv, Leases!TypeOK, Leases!vars
  <2>2. ASSUME Leases!Orderly PROVE RowsTell' /\ DeliveriesTell'
    <3>1. UNCHANGED <<leaseSetting, wsLease, wsTree, wsRun, release, cmd>>
      BY <1>1 DEF Leases!vars
    <3>2. Deliveries \subseteq Threads
      BY DEF LeaseInv, Deliveries, Leases!TypeOK, Leases!Surroundings
    <3>3. \A u \in Deliveries : DeliveryTells(u)'
      BY <2>2, <3>1, <3>2, NothingNew DEF LeaseInv, DeliveriesTell
    <3> QED BY <2>2, <3>1, <3>3, NothingWritten, SettingStays DEF LeaseInv, DeliveriesTell
  <2> QED BY <1>1, <2>1, <2>2, SettingStays DEF LeaseInv, Leases!vars
<1>2. CASE Leases!Next
  <2>1. leaseSetting' = leaseSetting
    BY <1>2 DEF Leases!Next
  <2>2. Leases!TypeOK /\ Deliveries \subseteq Threads
    BY DEF LeaseInv, Deliveries, Leases!TypeOK, Leases!Surroundings
  <2>3. CASE \E t \in Deliveries : Leases!Thread(t)
    <3>1. PICK t \in Deliveries : Leases!Thread(t)
      BY <2>3
    <3>2. Leases!TypeOK'
      BY <2>1, <2>2, <3>1, ThreadTypes
    <3>3. Leases!Orderly => After'
      BY <2>1, <3>1, ThreadStep DEF LeaseInv, Before
    <3> QED BY <2>1, <3>2, <3>3, SettingStays DEF LeaseInv, After
  <2>4. CASE \E r \in Leases!Runs :
                 \/ Leases!Still /\ (Leases!Owner(r) \/ Leases!Operator(r))
                 \/ Leases!Age(r)
    <3>1. PICK r \in Leases!Runs :
                 \/ Leases!Still /\ (Leases!Owner(r) \/ Leases!Operator(r))
                 \/ Leases!Age(r)
      BY <2>4
    <3>2. Leases!TypeOK'
      BY <2>1, <2>2, <3>1, OwnerTypes
    <3>3. Leases!Orderly => After'
      BY <2>1, <3>1, OwnerStep DEF LeaseInv, Before
    <3> QED BY <2>1, <3>2, <3>3, SettingStays DEF LeaseInv, After
  <2> QED BY <1>2, <2>3, <2>4 DEF Leases!Next, Deliveries
<1> QED BY <1>1, <1>2

(* It says what the leases promise.                                        *)
LEMMA InvHoldsWorkspaces == LeaseInv => RunsHoldWorkspaces
<1> SUFFICES ASSUME LeaseInv, Leases!Orderly
             PROVE  /\ Leases!LiveRunHasWorkspace /\ Leases!UsedTreeIsThere
                    /\ Leases!TreesAreOnRecord
                    /\ Leases!Alone => Leases!EndedRunsGiveUp
  BY DEF RunsHoldWorkspaces
<1>1. /\ \A r \in Leases!Runs : RowTells(r) /\ TreeTells(r)
      /\ \A r \in Leases!Runs : wsLease[r].owned \in BOOLEAN
      /\ Leases!TreesAreOnRecord
  BY DEF LeaseInv, RowsTell, Leases!TypeOK
<1>2. Leases!LiveRunHasWorkspace
  BY <1>1 DEF RowTells, Leases!LiveRunHasWorkspace, Leases!Live
<1>3. Leases!UsedTreeIsThere
  BY <1>1 DEF RowTells, TreeTells, Usable, Leases!UsedTreeIsThere, Leases!Live
<1>4. Leases!Alone => Leases!EndedRunsGiveUp
  BY <1>1 DEF RowTells, Leases!EndedRunsGiveUp
<1> QED BY <1>1, <1>2, <1>3, <1>4

(* A delivery does not write over a lease that has been taken over.        *)
LEMMA TakenByDelivery ==
  ASSUME Before, NEW r \in Leases!Runs, wsLease[r].state = "TRANSFERRED",
         NEW t \in Deliveries, Leases!Thread(t)
  PROVE  wsLease'[r].state = "TRANSFERRED"
<1>1. /\ t \in Threads /\ Leases!TypeOK /\ DeliveryTells(t) /\ Command[t] \in Leases!Runs
      /\ RowTells(Command[t]) /\ wsLease \in [Leases!Runs -> LeaseRow]
      /\ cmd[t].rows \subseteq Leases!Runs
  BY OwnRow DEF Leases!TypeOK, LeaseRow
<1>2. CASE UNCHANGED wsLease
  BY <1>2
<1>3. ASSUME NEW x \in Leases!Runs, wsLease[x].state # "TRANSFERRED",
             NEW s, Leases!Write(x, s)
      PROVE  wsLease'[r] = wsLease[r]
  BY <1>1, <1>3 DEF Leases!Write
<1>4. CASE Leases!JudgeInterrupted(t) \/ Leases!FailUnbound(t) \/ Leases!PreserveEnded(t)
             \/ Leases!FinishReleased(t)
  <2>1. PICK x \in cmd[t].rows :
            \/ /\ \E listing : Leases!Write(x, Leases!Judged(x, listing))
               /\ Leases!At(t, "interrupted")
            \/ Leases!Write(x, "FAILED") /\ Leases!At(t, "unbound")
            \/ Leases!Write(x, "PRESERVED") /\ Leases!At(t, "inUse")
            \/ Leases!Write(x, "REMOVED") /\ release[x] # "none"
            \/ UNCHANGED wsLease
    BY <1>4 DEF Leases!JudgeInterrupted, Leases!FailUnbound, Leases!PreserveEnded,
       Leases!FinishReleased, Leases!Finalize
  <2>2. x \in Leases!Runs /\ TreeTells(x)
    BY <1>1 DEF Before, RowsTell
  <2>3. wsLease[x].state = "TRANSFERRED" => UNCHANGED wsLease
    BY <1>1, <2>1, <2>2
    DEF Leases!At, DeliveryTells, InterruptedTells, UnboundTells, InUseTells, TreeTells
  <2> QED BY <1>2, <1>3, <2>1, <2>2, <2>3
<1>5. CASE Leases!AllocateShared(t) \/ Leases!AllocateIsolated(t) \/ Leases!Bind(t)
  <2>1. UNCHANGED wsLease \/
            (wsLease[Command[t]].state \in {"none", "READY"}
             /\ \A x \in Leases!Runs \ {Command[t]} : wsLease'[x] = wsLease[x])
    <3>1. CASE Leases!AllocateShared(t) \/ Leases!AllocateIsolated(t)
      BY <1>1, <3>1 DEF Leases!AllocateShared, Leases!AllocateIsolated, Leases!Insert,
         Leases!Found
    <3>2. CASE Leases!Bind(t)
      BY <1>1, <3>2 DEF Leases!Bind, Leases!Bindable, Leases!Bound
    <3> QED BY <1>5, <3>1, <3>2
  <2> QED BY <1>2, <2>1
<1>6. CASE Leases!AdoptInterrupted(t) \/ Leases!WriteReady(t) \/ Leases!WriteFailed(t)
  <2>1. wsLease[Command[t]].state # "TRANSFERRED"
    BY <1>1, <1>6
    DEF Leases!AdoptInterrupted, Leases!WriteReady, Leases!WriteFailed, Leases!Found,
        Leases!At, DeliveryTells, ReadyTells, FailTells, Found, RowTells
  <2> QED BY <1>1, <1>3, <1>6, <2>1
      DEF Leases!AdoptInterrupted, Leases!WriteReady, Leases!WriteFailed
<1> QED BY <1>2, <1>4, <1>5, <1>6
    DEF Leases!Thread, Leases!Reconcile, Leases!Allocate, Leases!Begin,
        Leases!LoadUnbound, Leases!LoadInUse, Leases!LoadRequested, Leases!Reconciled,
        Leases!ReturnExisting, Leases!AwaitOther, Leases!Polled, Leases!Add,
        Leases!Redeliver, Leases!Crash

(* Neither does a run, a release, or time.                                 *)
LEMMA TakenByOthers ==
  ASSUME Before, NEW r \in Leases!Runs, wsLease[r].state = "TRANSFERRED",
         NEW x \in Leases!Runs,
         Leases!Owner(x) \/ Leases!Operator(x) \/ Leases!Age(x)
  PROVE  wsLease'[r].state = "TRANSFERRED"
<1>1. /\ Leases!TypeOK /\ RowTells(x) /\ TreeTells(x)
      /\ wsLease \in [Leases!Runs -> LeaseRow]
  BY DEF Before, RowsTell, Leases!TypeOK, LeaseRow
<1>2. CASE Leases!Agents(x) \/ Leases!EndRunAtBatchLimit(x) \/ Leases!Remove(x)
  BY <1>2 DEF Leases!Agents, Leases!EndRunAtBatchLimit, Leases!Remove
<1>3. CASE Leases!EndRun(x) \/ Leases!Claim(x) \/ Leases!FinishRelease(x)
  <2>1. \/ UNCHANGED wsLease
        \/ wsLease[x].state # "TRANSFERRED" /\ \E s : Leases!Write(x, s)
    BY <1>1, <1>3 DEF Leases!EndRun, Leases!Claim, Leases!Releasable,
       Leases!FinishRelease, Leases!Finalize, TreeTells
  <2> QED BY <1>1, <2>1 DEF Leases!Write
<1>4. CASE \E h \in Heirs : Leases!Continue(x, h)
  <2>1. PICK h \in Heirs : Leases!Continue(x, h)
    BY <1>4
  <2>2. h \in Leases!Runs /\ RowTells(h) /\ wsRun[h] = "none"
    BY <2>1, CommandsAreRuns DEF Before, RowsTell, Leases!Continue
  <2>3. r # h
    BY <1>1, <2>2 DEF RowTells, LeaseRow
  <2>4. PICK new : \/ wsLease' = [wsLease EXCEPT ![h] = new]
                   \/ wsLease' = [[wsLease EXCEPT ![x].state = "TRANSFERRED"]
                                      EXCEPT ![h] = new]
    BY <2>1 DEF Leases!Continue
  <2>5. PICK row : row = [wsLease[x] EXCEPT !.state = "TRANSFERRED"]
    OBVIOUS
  <2>6. row.state = "TRANSFERRED"
    BY <1>1, <2>5 DEF LeaseRow
  <2>7. [wsLease EXCEPT ![x].state = "TRANSFERRED"] = [wsLease EXCEPT ![x] = row]
    BY <2>5
  <2> QED BY <1>1, <2>2, <2>3, <2>4, <2>6, <2>7
<1>5. CASE Leases!Age(x)
  <2>1. wsLease[x].state # "TRANSFERRED" /\ wsLease' = [wsLease EXCEPT ![x].old = TRUE]
    BY <1>5 DEF Leases!Age
  <2> QED BY <1>1, <2>1
<1> QED BY <1>2, <1>3, <1>4, <1>5 DEF Leases!Owner, Leases!Operator

(* In orderly surroundings no step writes over it.                         *)
LEMMA TakenStays ==
  ASSUME LeaseConstants, LeaseInv, Leases!Orderly, [Leases!Next]_(Leases!vars),
         NEW r \in Leases!Runs, wsLease[r].state = "TRANSFERRED"
  PROVE  wsLease'[r].state = "TRANSFERRED"
<1>1. Before
  BY DEF LeaseInv, Before
<1>2. CASE UNCHANGED Leases!vars
  BY <1>2 DEF Leases!vars
<1>3. CASE Leases!Next
  BY <1>1, <1>3, TakenByDelivery, TakenByOthers DEF Leases!Next, Deliveries
<1> QED BY <1>2, <1>3
-----------------------------------------------------------------------------
(* The theorems.                                                           *)

(* The variables of the leases keep their types, in whatever surroundings. *)
THEOREM LeaseTypes ==
  ASSUME LeaseConstants PROVE Leases!Spec => []Leases!TypeOK
<1>1. LeaseInv /\ [Leases!Next]_(Leases!vars) => LeaseInv'
  BY LeaseStep
<1>2. LeaseInv => Leases!TypeOK
  BY DEF LeaseInv
<1> QED BY <1>1, <1>2, LeaseStart, PTL DEF Leases!Spec

(* However deliveries of start commands, reconciliations, crashes, runs,   *)
(* continuations and releases interleave, as long as what a reconciliation *)
(* reads does not move under it: a live run has a lease that its           *)
(* invocations carry, and the tree of it; no tree is forgotten; and with   *)
(* one delivery at a time a run that has ended does not leave its lease    *)
(* READY, where nothing looks for it.                                      *)
THEOREM LeasesHoldWorkspaces ==
  ASSUME LeaseConstants PROVE Leases!Spec => []RunsHoldWorkspaces
<1>1. LeaseInv /\ [Leases!Next]_(Leases!vars) => LeaseInv'
  BY LeaseStep
<1> QED BY <1>1, LeaseStart, InvHoldsWorkspaces, PTL DEF Leases!Spec

(* As long as no row moves between what a reconciliation reads and what it *)
(* writes, a lease that a continuation has taken over stays so: it is not  *)
(* taken for one that its run has left, and no release claims it.  The     *)
(* code does not enforce the condition: UsedTreeIsThere in WorkspaceLease  *)
(* fails without it.                                                       *)
THEOREM TakenOverLeasesStay ==
  ASSUME LeaseConstants
  PROVE  Leases!Spec => [][Leases!Orderly => \A r \in Leases!Runs :
             wsLease[r].state = "TRANSFERRED" =>
                 wsLease'[r].state = "TRANSFERRED"]_(Leases!vars)
<1>1. LeaseInv /\ [Leases!Next]_(Leases!vars) => LeaseInv'
  BY LeaseStep
<1>2. LeaseInv /\ [Leases!Next]_(Leases!vars) =>
        [Leases!Orderly => \A r \in Leases!Runs :
           wsLease[r].state = "TRANSFERRED" => wsLease'[r].state = "TRANSFERRED"]_(Leases!vars)
  BY TakenStays
<1> QED BY <1>1, <1>2, LeaseStart, PTL DEF Leases!Spec
=============================================================================
