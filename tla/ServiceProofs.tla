----------------------------- MODULE ServiceProofs -----------------------------
(***************************************************************************)
(* Services beside the control plane, for any number of executions,        *)
(* requests, messages and runs: delegation and the topics of Kafka.        *)
(***************************************************************************)
EXTENDS Services, FiniteSetTheorems, SequenceTheorems, TLAPS
-----------------------------------------------------------------------------
(* Delegation. *)

(* An instance counts as everyone does.                                    *)
LEMMA DelegatesCount == \A S : Delegates!Cardinality(S) = Cardinality(S)
  BY DEF Delegates!Cardinality, Cardinality

(* The constants are counts and times; requests are rows of one table.     *)
DelegationConstants ==
    /\ Root \notin Delegations /\ IsFiniteSet(Delegations)
    /\ RunDepth \in Nat /\ MaxDepth \in Nat /\ MaxPerAttempt \in Nat
    /\ MaxTime \in Nat /\ Grants \subseteq Nat

AttemptRecord == [status : {"none", "ACTIVE", "ENDED"}, deadline : 0..Delegates!Never]

RequestRecord ==
    [status : {"none", "PENDING"} \cup Delegates!Decisions, parent : Delegates!Executions,
     by : Ordinals \cup {0}, depth : Nat, expires : 0..Delegates!Never,
     deadline : 0..Delegates!Never]

DelegationTypes ==
    /\ executions \in [Delegates!Executions -> {"none"} \cup Delegates!Live \cup Delegates!Ended]
    /\ authority \in [Delegates!Executions -> 0..Delegates!Never]
    /\ grant \in [Delegates!Executions -> Nat]
    /\ delegate \in [Delegates!Executions -> [Ordinals -> AttemptRecord]]
    /\ delegation \in [Delegations -> RequestRecord]

(* What a request was asked with still is so, for the attempt that asked   *)
(* and its execution are there.                                            *)
AskedFor(r) ==
    LET parent == delegation[r].parent
    IN /\ delegation[r].by \in Ordinals
       /\ executions[parent] # "none"
       /\ delegate[parent][delegation[r].by].status # "none"
       /\ delegate[parent][delegation[r].by].deadline = delegation[r].deadline
       /\ Delegates!Depth(parent) < delegation[r].depth
       /\ delegation[r].depth <= Delegates!DepthLimit

(* A child has what its request allows, of its parent's.                   *)
ChildOf(r) ==
    /\ authority[r] = delegation[r].deadline
    /\ grant[r] <= grant[delegation[r].parent]

DelegationInv ==
    /\ DelegationTypes
    /\ \A r \in Delegations : delegation[r].status # "none" => AskedFor(r)
    /\ \A r \in Delegations : executions[r] # "none" => ChildOf(r)
    /\ \A e \in Delegates!Executions, k \in Ordinals :
           delegate[e][k].status # "none" =>
               executions[e] # "none" /\ delegate[e][k].deadline <= authority[e]
    /\ Delegates!ChildrenAreApproved

(* No steps are allowed but these: rows that exist keep what they say, and *)
(* executions and attempts never vanish.                                   *)
DelegationGrows ==
    /\ \A e \in Delegates!Executions :
           executions[e] # "none" => executions'[e] # "none" /\ authority'[e] = authority[e]
                                 /\ grant'[e] = grant[e]
    /\ \A e \in Delegates!Executions, k \in Ordinals :
           delegate[e][k].status # "none" =>
               delegate'[e][k].status # "none" /\ delegate'[e][k].deadline = delegate[e][k].deadline
    /\ \A r \in Delegations :
           delegation[r].status # "none" =>
               /\ delegation'[r].status # "none"
               /\ delegation'[r].parent = delegation[r].parent
               /\ delegation'[r].by = delegation[r].by
               /\ delegation'[r].depth = delegation[r].depth
               /\ delegation'[r].deadline = delegation[r].deadline

(* No execution but the root exists, and nobody has asked.                 *)
LEMMA DelegationStart == ASSUME DelegationConstants PROVE Delegates!Init => DelegationInv
<1> SUFFICES ASSUME Delegates!Init PROVE DelegationInv
  OBVIOUS
<1>1. DelegationTypes
  <2>1. executions \in [Delegates!Executions -> {"none"} \cup Delegates!Live \cup Delegates!Ended]
    BY DEF Delegates!Init, Delegates!Live
  <2>2. Delegates!NoAttempt \in AttemptRecord /\ Delegates!Never \in 0..Delegates!Never
    BY DEF DelegationConstants, Delegates!NoAttempt, AttemptRecord, Delegates!Never
  <2>3. Delegates!NoRequest \in RequestRecord
    BY <2>2 DEF Delegates!NoRequest, RequestRecord, Delegates!Executions
  <2>4. delegate \in [Delegates!Executions -> [Ordinals -> AttemptRecord]]
    BY <2>2 DEF Delegates!Init
  <2>5. grant \in [Delegates!Executions -> Nat]
    <3>1. grant \in [Delegates!Executions -> Grants \cup {0}] /\ Grants \cup {0} \subseteq Nat
      BY DEF Delegates!Init, DelegationConstants
    <3> QED
      BY <3>1
  <2> QED
    BY <2>1, <2>2, <2>3, <2>4, <2>5 DEF Delegates!Init, DelegationTypes
<1>2. \A e \in Delegates!Executions, k \in Ordinals :
          {r \in Delegations : /\ delegation[r].parent = e /\ delegation[r].by = k
                               /\ delegation[r].status \in Delegates!Open} = {}
  BY DEF Delegates!Init, Delegates!NoRequest, Delegates!Open
<1>3. Delegates!ChildrenAreApproved
  <2>1. \A r \in Delegations : executions[r] = "none" /\ delegation[r].status = "none"
    BY DEF Delegates!Init, DelegationConstants, Delegates!Executions, Delegates!NoRequest
  <2>2. \A e \in Delegates!Executions, k \in Ordinals :
            Cardinality({r \in Delegations : /\ delegation[r].parent = e
                                             /\ delegation[r].by = k
                                             /\ delegation[r].status \in Delegates!Open}) = 0
    BY <1>2, FS_EmptySet
  <2> QED
    BY <2>1, <2>2, DelegatesCount DEF Delegates!ChildrenAreApproved, DelegationConstants
<1> QED
  BY <1>1, <1>3 DEF Delegates!Init, DelegationInv, Delegates!NoRequest, Delegates!NoAttempt,
       DelegationConstants, Delegates!Executions

(* What was there is there, and says what it said.                         *)
LEMMA OldStays ==
    ASSUME DelegationConstants, DelegationInv, DelegationGrows
    PROVE  /\ \A r \in Delegations : delegation[r].status # "none" => AskedFor(r)'
           /\ \A r \in Delegations : executions[r] # "none" => ChildOf(r)'
           /\ \A e \in Delegates!Executions, k \in Ordinals :
                  delegate[e][k].status # "none" =>
                      executions'[e] # "none" /\ delegate'[e][k].deadline <= authority'[e]
<1> USE DEF DelegationInv
<1>1. ASSUME NEW e \in Delegates!Executions, executions[e] # "none"
      PROVE  Delegates!Depth(e)' = Delegates!Depth(e)
  <2>1. CASE e \in Delegations
    <3>1. delegation[e].status # "none"
      BY <1>1, <2>1 DEF Delegates!ChildrenAreApproved
    <3> QED
      BY <2>1, <3>1 DEF DelegationGrows, Delegates!Depth
  <2>2. CASE e \notin Delegations
    BY <2>2 DEF Delegates!Depth
  <2> QED
    BY <2>1, <2>2
<1>2. ASSUME NEW r \in Delegations, delegation[r].status # "none"
      PROVE  AskedFor(r)'
  <2>1. AskedFor(r)
    BY <1>2
  <2>2. delegation[r].parent \in Delegates!Executions /\ delegation[r].by \in Ordinals
    BY <2>1 DEF AskedFor, DelegationTypes, RequestRecord
  <2>3. /\ delegation'[r].parent = delegation[r].parent /\ delegation'[r].by = delegation[r].by
        /\ delegation'[r].depth = delegation[r].depth
        /\ delegation'[r].deadline = delegation[r].deadline
    BY <1>2 DEF DelegationGrows
  <2>4. /\ executions'[delegation[r].parent] # "none"
        /\ delegate'[delegation[r].parent][delegation[r].by].status # "none"
        /\ delegate'[delegation[r].parent][delegation[r].by].deadline
             = delegate[delegation[r].parent][delegation[r].by].deadline
    BY <2>1, <2>2 DEF AskedFor, DelegationGrows
  <2>5. Delegates!Depth(delegation[r].parent)' = Delegates!Depth(delegation[r].parent)
    <3>1. PICK parent \in Delegates!Executions : parent = delegation[r].parent
      BY <2>2
    <3>2. Delegates!Depth(parent)' = Delegates!Depth(parent)
      BY <1>1, <2>1, <3>1 DEF AskedFor
    <3>3. delegation'[r].parent = parent
      BY <2>3, <3>1
    <3> QED
      BY <3>1, <3>2, <3>3 DEF Delegates!Depth
  <2> QED
    BY <2>1, <2>3, <2>4, <2>5 DEF AskedFor, Delegates!DepthLimit
<1>3. ASSUME NEW r \in Delegations, executions[r] # "none"
      PROVE  ChildOf(r)'
  <2>1. delegation[r].status # "none"
    BY <1>3 DEF Delegates!ChildrenAreApproved
  <2>2. AskedFor(r) /\ ChildOf(r)
    BY <1>3, <2>1
  <2>3. delegation[r].parent \in Delegates!Executions /\ r \in Delegates!Executions
    BY DEF DelegationTypes, RequestRecord, Delegates!Executions
  <2>4. executions[delegation[r].parent] # "none"
    BY <2>2 DEF AskedFor
  <2> QED
    BY <1>3, <2>1, <2>2, <2>3, <2>4 DEF ChildOf, DelegationGrows
<1>4. ASSUME NEW e \in Delegates!Executions, NEW k \in Ordinals, delegate[e][k].status # "none"
      PROVE  executions'[e] # "none" /\ delegate'[e][k].deadline <= authority'[e]
  BY <1>4 DEF DelegationGrows
<1> QED
  BY <1>2, <1>3, <1>4

(* An attempt has no more live requests than before.                       *)
LEMMA FewerRequests ==
    ASSUME DelegationConstants, DelegationInv,
           \A r \in Delegations :
               /\ delegation'[r].status \in Delegates!Open =>
                      delegation[r].status \in Delegates!Open
               /\ delegation[r].status # "none" =>
                      /\ delegation'[r].parent = delegation[r].parent
                      /\ delegation'[r].by = delegation[r].by,
           NEW e \in Delegates!Executions, NEW k \in Ordinals
    PROVE  Cardinality({r \in Delegations :
                            /\ delegation'[r].parent = e /\ delegation'[r].by = k
                            /\ delegation'[r].status \in Delegates!Open}) <= MaxPerAttempt
<1> DEFINE S == {r \in Delegations : delegation[r].parent = e /\ delegation[r].by = k
                                  /\ delegation[r].status \in Delegates!Open}
           T == {r \in Delegations : delegation'[r].parent = e /\ delegation'[r].by = k
                                  /\ delegation'[r].status \in Delegates!Open}
<1>1. T \subseteq S
  BY DEF Delegates!Open
<1>2. IsFiniteSet(S)
  BY FS_Subset DEF DelegationConstants
<1>3. IsFiniteSet(T) /\ Cardinality(T) <= Cardinality(S)
  BY <1>1, <1>2, FS_Subset
<1>4. Cardinality(S) <= MaxPerAttempt
  BY DelegatesCount DEF DelegationInv, Delegates!ChildrenAreApproved
<1>5. Cardinality(S) \in Nat /\ Cardinality(T) \in Nat /\ MaxPerAttempt \in Nat
  BY <1>2, <1>3, FS_CardinalityType DEF DelegationConstants
<1> QED
  BY <1>3, <1>4, <1>5

(* A step that asks nothing, creates no child and claims no attempt.       *)
LEMMA NothingNewKeeps ==
    ASSUME DelegationConstants, DelegationInv, DelegationGrows, DelegationTypes',
           \A e \in Delegates!Executions : executions'[e] # "none" => executions[e] # "none",
           \A e \in Delegates!Executions, k \in Ordinals :
               delegate'[e][k].status # "none" => delegate[e][k].status # "none",
           \A r \in Delegations :
               /\ delegation'[r].status # "none" => delegation[r].status # "none"
               /\ delegation'[r].status = "APPROVED" <=> delegation[r].status = "APPROVED"
               /\ delegation'[r].status = "PENDING" => delegation[r].status = "PENDING"
    PROVE  DelegationInv'
<1>1. /\ \A r \in Delegations : delegation'[r].status # "none" => AskedFor(r)'
      /\ \A r \in Delegations : executions'[r] # "none" => ChildOf(r)'
      /\ \A e \in Delegates!Executions, k \in Ordinals :
             delegate'[e][k].status # "none" =>
                 executions'[e] # "none" /\ delegate'[e][k].deadline <= authority'[e]
  BY OldStays DEF Delegates!Executions
<1>2. \A r \in Delegations : executions'[r] # "none" <=> delegation'[r].status = "APPROVED"
  BY DEF DelegationInv, Delegates!ChildrenAreApproved, DelegationGrows, Delegates!Executions
<1>3. \A e \in Delegates!Executions, k \in Ordinals :
          Cardinality({r \in Delegations :
                           /\ delegation'[r].parent = e /\ delegation'[r].by = k
                           /\ delegation'[r].status \in Delegates!Open}) <= MaxPerAttempt
  BY FewerRequests DEF DelegationGrows, Delegates!Open
<1> QED
  BY <1>1, <1>2, <1>3, DelegatesCount DEF DelegationInv, Delegates!ChildrenAreApproved
-----------------------------------------------------------------------------
(* A decision changes the status of a row that is pending, and no more.    *)
LEMMA DecidedRows ==
    ASSUME DelegationTypes, NEW r \in Delegations, NEW decision \in Delegates!Decisions,
           delegation' = Delegates!Decided(r, decision)
    PROVE  /\ delegation' \in [Delegations -> RequestRecord]
           /\ \A q \in Delegations : q # r => delegation'[q] = delegation[q]
           /\ delegation'[r].status = IF delegation[r].status = "PENDING" THEN decision
                                   ELSE delegation[r].status
           /\ delegation[r].status # "PENDING" => delegation'[r] = delegation[r]
           /\ delegation'[r].parent = delegation[r].parent /\ delegation'[r].by = delegation[r].by
           /\ delegation'[r].depth = delegation[r].depth
           /\ delegation'[r].deadline = delegation[r].deadline
<1>1. delegation \in [Delegations -> RequestRecord] /\ delegation[r] \in RequestRecord
  BY DEF DelegationTypes
<1>2. PICK outcome : outcome = IF delegation[r].status = "PENDING" THEN decision
                               ELSE delegation[r].status
  OBVIOUS
<1>3. outcome \in {"none", "PENDING"} \cup Delegates!Decisions
  BY <1>1, <1>2 DEF RequestRecord
<1>4. PICK row : row = [delegation[r] EXCEPT !.status = outcome]
  OBVIOUS
<1>5. row = [status |-> outcome, parent |-> delegation[r].parent, by |-> delegation[r].by,
             depth |-> delegation[r].depth, expires |-> delegation[r].expires,
             deadline |-> delegation[r].deadline]
  BY <1>1, <1>4 DEF RequestRecord
<1>6. row \in RequestRecord
  BY <1>1, <1>3, <1>5 DEF RequestRecord
<1>7. delegation' = [delegation EXCEPT ![r] = row]
  BY <1>2, <1>4 DEF Delegates!Decided
<1>8. delegation[r].status # "PENDING" => row = delegation[r]
  BY <1>1, <1>2, <1>5 DEF RequestRecord
<1> QED
  BY <1>1, <1>2, <1>5, <1>6, <1>7, <1>8

(* An attempt that ends keeps its deadline.                                *)
LEMMA EndedAttempt ==
    ASSUME NEW a \in AttemptRecord
    PROVE  /\ [a EXCEPT !.status = "ENDED"] \in AttemptRecord
           /\ [a EXCEPT !.status = "ENDED"].deadline = a.deadline
           /\ [a EXCEPT !.status = "ENDED"].status = "ENDED"
<1>1. PICK ended : ended = [a EXCEPT !.status = "ENDED"]
  OBVIOUS
<1>2. ended = [status |-> "ENDED", deadline |-> a.deadline]
  BY <1>1 DEF AttemptRecord
<1>3. ended \in AttemptRecord
  BY <1>2 DEF AttemptRecord
<1> QED
  BY <1>1, <1>2, <1>3

(* A decision that creates nothing.                                        *)
LEMMA DecidesInVainKeeps ==
    ASSUME DelegationConstants, DelegationInv, NEW r \in Delegations,
           NEW decision \in {"REJECTED", "EXPIRED"},
           delegation[r].status = "PENDING", delegation' = Delegates!Decided(r, decision),
           UNCHANGED <<executions, authority, grant, delegate>>
    PROVE  DelegationInv'
<1>1. /\ delegation' \in [Delegations -> RequestRecord]
      /\ \A q \in Delegations : q # r => delegation'[q] = delegation[q]
      /\ delegation'[r].status = decision
      /\ delegation'[r].parent = delegation[r].parent /\ delegation'[r].by = delegation[r].by
      /\ delegation'[r].depth = delegation[r].depth
      /\ delegation'[r].deadline = delegation[r].deadline
  BY DecidedRows DEF DelegationInv, Delegates!Decisions
<1>2. DelegationTypes'
  BY <1>1 DEF DelegationInv, DelegationTypes
<1>3. DelegationGrows
  BY <1>1 DEF DelegationGrows
<1>4. \A q \in Delegations :
          /\ delegation'[q].status # "none" => delegation[q].status # "none"
          /\ delegation'[q].status = "APPROVED" <=> delegation[q].status = "APPROVED"
          /\ delegation'[q].status = "PENDING" => delegation[q].status = "PENDING"
  BY <1>1
<1> QED
  BY <1>2, <1>3, <1>4, NothingNewKeeps

(* Requests whose time is over are expired.                                *)
LEMMA ExpireDueKeeps ==
    ASSUME DelegationConstants, DelegationInv, NEW p \in Replicas, Delegates!ExpireDue(p)
    PROVE  DelegationInv'
<1>1. PICK expired \in SUBSET Delegates!Due :
          delegation' = [r \in Delegations |-> IF r \in expired
                                         THEN [delegation[r] EXCEPT !.status = "EXPIRED"]
                                         ELSE delegation[r]]
  BY DEF Delegates!ExpireDue
<1>2. UNCHANGED <<executions, authority, grant, delegate>>
  BY DEF Delegates!ExpireDue
<1>3. ASSUME NEW r \in Delegations, r \in expired
      PROVE  /\ delegation[r].status = "PENDING" /\ delegation'[r] \in RequestRecord
             /\ delegation'[r].status = "EXPIRED"
             /\ delegation'[r].parent = delegation[r].parent /\ delegation'[r].by = delegation[r].by
             /\ delegation'[r].depth = delegation[r].depth
             /\ delegation'[r].deadline = delegation[r].deadline
  <2>1. delegation[r] \in RequestRecord /\ delegation[r].status = "PENDING"
    BY <1>1, <1>3 DEF Delegates!Due, DelegationInv, DelegationTypes
  <2>2. PICK row : row = [delegation[r] EXCEPT !.status = "EXPIRED"]
    OBVIOUS
  <2>3. row = [status |-> "EXPIRED", parent |-> delegation[r].parent, by |-> delegation[r].by,
               depth |-> delegation[r].depth, expires |-> delegation[r].expires,
               deadline |-> delegation[r].deadline]
    BY <2>1, <2>2 DEF RequestRecord
  <2>4. row \in RequestRecord
    BY <2>1, <2>3 DEF RequestRecord, Delegates!Decisions
  <2>5. delegation'[r] = row
    BY <1>1, <1>3, <2>2
  <2> QED
    BY <2>1, <2>3, <2>4, <2>5
<1>4. \A r \in Delegations : r \notin expired => delegation'[r] = delegation[r]
  BY <1>1
<1>5. DelegationTypes'
  <2>1. \A r \in Delegations : delegation[r] \in RequestRecord
    BY DEF DelegationInv, DelegationTypes
  <2>2. \A r \in Delegations : delegation'[r] \in RequestRecord
    BY <1>3, <1>4, <2>1
  <2>3. delegation' \in [Delegations -> RequestRecord]
    BY <1>1, <2>2
  <2> QED
    BY <1>2, <2>3 DEF DelegationInv, DelegationTypes
<1>6. DelegationGrows
  BY <1>2, <1>3, <1>4 DEF DelegationGrows
<1>7. \A q \in Delegations :
          /\ delegation'[q].status # "none" => delegation[q].status # "none"
          /\ delegation'[q].status = "APPROVED" <=> delegation[q].status = "APPROVED"
          /\ delegation'[q].status = "PENDING" => delegation[q].status = "PENDING"
  BY <1>3, <1>4
<1> QED
  BY <1>2, <1>5, <1>6, <1>7, NothingNewKeeps

(* Executions go on or end; their attempts may end with them.              *)
LEMMA EngineKeeps ==
    ASSUME DelegationConstants, DelegationInv, UNCHANGED <<authority, grant, delegation>>,
           executions' \in
               [Delegates!Executions -> {"none"} \cup Delegates!Live \cup Delegates!Ended],
           \A e \in Delegates!Executions : executions'[e] # "none" <=> executions[e] # "none",
           delegate' \in [Delegates!Executions -> [Ordinals -> AttemptRecord]],
           \A e \in Delegates!Executions, k \in Ordinals :
               /\ delegate'[e][k].status # "none" <=> delegate[e][k].status # "none"
               /\ delegate'[e][k].deadline = delegate[e][k].deadline
    PROVE  DelegationInv'
<1>1. DelegationTypes'
  BY DEF DelegationInv, DelegationTypes
<1>2. DelegationGrows
  BY DEF DelegationGrows
<1> QED
  BY <1>1, <1>2, NothingNewKeeps

(* A cancellation ends an execution and no row of a request.               *)
LEMMA CancelledKeeps ==
    ASSUME DelegationConstants, DelegationInv, NEW e \in Delegates!Executions,
           Delegates!Cancelled(e),
           UNCHANGED <<authority, grant, delegation>>
    PROVE  DelegationInv'
<1>1. /\ executions \in [Delegates!Executions -> {"none"} \cup Delegates!Live \cup Delegates!Ended]
      /\ delegate \in [Delegates!Executions -> [Ordinals -> AttemptRecord]]
  BY DEF DelegationInv, DelegationTypes
<1>2. /\ executions' \in [Delegates!Executions -> {"none"} \cup Delegates!Live \cup Delegates!Ended]
      /\ \A x \in Delegates!Executions : executions'[x] # "none" <=> executions[x] # "none"
  BY <1>1 DEF Delegates!Cancelled, Delegates!Live, Delegates!Ended
<1>3. PICK ends : ends = [k \in Ordinals |->
                            IF executions[e] \in Delegates!Live /\ delegate[e][k].status = "ACTIVE"
                            THEN [delegate[e][k] EXCEPT !.status = "ENDED"] ELSE delegate[e][k]]
  OBVIOUS
<1>4. delegate' = [delegate EXCEPT ![e] = ends]
  BY <1>3 DEF Delegates!Cancelled
<1>5. ASSUME NEW k \in Ordinals
      PROVE  /\ ends[k] \in AttemptRecord
             /\ ends[k].status # "none" <=> delegate[e][k].status # "none"
             /\ ends[k].deadline = delegate[e][k].deadline
  <2>1. delegate[e][k] \in AttemptRecord
    BY <1>1
  <2> QED
    BY <1>3, <2>1, EndedAttempt
<1>6. ends \in [Ordinals -> AttemptRecord]
  BY <1>3, <1>5
<1>7. delegate' \in [Delegates!Executions -> [Ordinals -> AttemptRecord]]
  BY <1>1, <1>4, <1>6
<1>8. \A x \in Delegates!Executions, k \in Ordinals :
          /\ delegate'[x][k].status # "none" <=> delegate[x][k].status # "none"
          /\ delegate'[x][k].deadline = delegate[x][k].deadline
  BY <1>1, <1>4, <1>5
<1> QED
  BY <1>2, <1>7, <1>8, EngineKeeps
-----------------------------------------------------------------------------
(* A new request takes its depth and deadline from the attempt that asks.  *)
LEMMA AskKeeps ==
    ASSUME DelegationConstants, DelegationInv, NEW r \in Delegations,
           NEW e \in Delegates!Executions,
           NEW k \in Ordinals, NEW d \in Delegates!Deadlines, Delegates!Ask(r, e, k, d)
    PROVE  DelegationInv'
<1>1. /\ delegate[e][k].status # "none" /\ delegation[r].status = "none"
      /\ Cardinality(Delegates!LiveRequests(e, k)) < MaxPerAttempt
      /\ Delegates!ChildDepth(e) <= Delegates!DepthLimit
      /\ UNCHANGED <<now, executions, authority, grant, delegate, sweep>>
  BY DelegatesCount DEF Delegates!Ask
<1>2. PICK row : row = [status |-> "PENDING", parent |-> e, by |-> k,
                        depth |-> Delegates!ChildDepth(e), expires |-> d,
                        deadline |-> delegate[e][k].deadline]
  OBVIOUS
<1>3. delegation' = [delegation EXCEPT ![r] = row]
  BY <1>2 DEF Delegates!Ask
<1>4. Delegates!Depth(e) \in Nat /\ Delegates!ChildDepth(e) = Delegates!Depth(e) + 1
  BY DEF DelegationInv, DelegationTypes, RequestRecord, Delegates!Depth, Delegates!ChildDepth
<1>5. delegate[e][k] \in AttemptRecord /\ executions[e] # "none"
  BY <1>1 DEF DelegationInv, DelegationTypes
<1>6. row \in RequestRecord
  <2>1. d \in 0..Delegates!Never /\ delegate[e][k].deadline \in 0..Delegates!Never
    BY <1>5 DEF Delegates!Deadlines, AttemptRecord, DelegationConstants, Delegates!Never
  <2> QED
    BY <1>2, <1>4, <2>1 DEF RequestRecord
<1>7. /\ delegation' \in [Delegations -> RequestRecord] /\ delegation'[r] = row
      /\ \A q \in Delegations : q # r => delegation'[q] = delegation[q]
  BY <1>3, <1>6 DEF DelegationInv, DelegationTypes
<1>8. DelegationTypes' /\ DelegationGrows
  BY <1>1, <1>7 DEF DelegationInv, DelegationTypes, DelegationGrows
<1>9. executions[r] = "none"
  BY <1>1 DEF DelegationInv, Delegates!ChildrenAreApproved
<1>10. AskedFor(r)'
  <2>1. Delegates!Depth(e)' = Delegates!Depth(e)
    BY <1>5, <1>7, <1>9 DEF Delegates!Depth
  <2>2. /\ /\ delegation'[r].parent = e /\ delegation'[r].by = k
        /\ delegation'[r].depth = Delegates!Depth(e) + 1
        /\ delegation'[r].deadline = delegate[e][k].deadline
    BY <1>2, <1>4, <1>7
  <2>3. Delegates!Depth(delegation[r].parent)' = Delegates!Depth(e)
    BY <2>1, <2>2 DEF Delegates!Depth
  <2> QED
    BY <1>1, <1>4, <1>5, <2>2, <2>3 DEF AskedFor, Delegates!DepthLimit
<1>11. /\ \A q \in Delegations : delegation'[q].status # "none" => AskedFor(q)'
       /\ \A q \in Delegations : executions'[q] # "none" => ChildOf(q)'
       /\ \A x \in Delegates!Executions, j \in Ordinals :
              delegate'[x][j].status # "none" =>
                  executions'[x] # "none" /\ delegate'[x][j].deadline <= authority'[x]
  BY <1>1, <1>7, <1>8, <1>10, OldStays
<1>12. \A q \in Delegations : executions'[q] # "none" <=> delegation'[q].status = "APPROVED"
  BY <1>1, <1>2, <1>7, <1>9 DEF DelegationInv, Delegates!ChildrenAreApproved
<1>13. ASSUME NEW x \in Delegates!Executions, NEW j \in Ordinals
       PROVE  Cardinality({q \in Delegations :
                               /\ delegation'[q].parent = x /\ delegation'[q].by = j
                               /\ delegation'[q].status \in Delegates!Open}) <= MaxPerAttempt
  <2> DEFINE S == {q \in Delegations : delegation[q].parent = x /\ delegation[q].by = j
                                    /\ delegation[q].status \in Delegates!Open}
             T == {q \in Delegations : delegation'[q].parent = x /\ delegation'[q].by = j
                                    /\ delegation'[q].status \in Delegates!Open}
  <2>1. IsFiniteSet(S) /\ Cardinality(S) \in Nat /\ MaxPerAttempt \in Nat
    BY FS_Subset, FS_CardinalityType DEF DelegationConstants
  <2>2. r \notin S
    BY <1>1 DEF Delegates!Open
  <2>3. CASE x = e /\ j = k
    <3>1. T = S \cup {r}
      BY <1>2, <1>7, <2>3 DEF Delegates!Open
    <3>2. Cardinality(T) = Cardinality(S) + 1
      BY <2>1, <2>2, <3>1, FS_AddElement
    <3>3. S = Delegates!LiveRequests(e, k)
      BY <2>3 DEF Delegates!LiveRequests
    <3>4. Cardinality(S) < MaxPerAttempt
      BY <1>1, <3>3
    <3> QED
      BY <2>1, <3>2, <3>4
  <2>4. CASE ~(x = e /\ j = k)
    <3>1. T = S
      BY <1>2, <1>7, <2>2, <2>4
    <3>2. Cardinality(S) <= MaxPerAttempt
      BY DelegatesCount DEF DelegationInv, Delegates!ChildrenAreApproved
    <3> QED
      BY <3>1, <3>2
  <2> QED
    BY <2>3, <2>4
<1> QED
  BY <1>8, <1>11, <1>12, <1>13, DelegatesCount
  DEF DelegationInv, Delegates!ChildrenAreApproved

(* An approval creates the child with the deadline of the request and with *)
(* no more than the parent's budget.                                       *)
LEMMA ApproveKeeps ==
    ASSUME DelegationConstants, DelegationInv, NEW r \in Delegations, NEW g \in Grants \cup {0},
           Delegates!Approve(r, g)
    PROVE  DelegationInv'
<1>1. /\ delegation[r].status = "PENDING" /\ Delegates!WithinGrant(r, g)
      /\ executions' = [executions EXCEPT ![r] = "PENDING"]
      /\ authority' = [authority EXCEPT ![r] = delegation[r].deadline]
      /\ grant' = [grant EXCEPT ![r] = g]
      /\ delegation' = Delegates!Decided(r, "APPROVED")
      /\ UNCHANGED delegate
  BY DEF Delegates!Approve
<1>2. /\ delegation' \in [Delegations -> RequestRecord]
      /\ \A q \in Delegations : q # r => delegation'[q] = delegation[q]
      /\ delegation'[r].status = "APPROVED"
      /\ delegation'[r].parent = delegation[r].parent /\ delegation'[r].by = delegation[r].by
      /\ delegation'[r].depth = delegation[r].depth
      /\ delegation'[r].deadline = delegation[r].deadline
  BY <1>1, DecidedRows DEF DelegationInv, Delegates!Decisions
<1>3. r \in Delegates!Executions /\ executions[r] = "none"
  BY <1>1 DEF Delegates!Executions, DelegationInv, Delegates!ChildrenAreApproved
<1>4. \A k \in Ordinals : delegate[r][k].status = "none"
  BY <1>3 DEF DelegationInv
<1>5. g \in Nat /\ delegation[r].deadline \in 0..Delegates!Never
  BY DEF DelegationConstants, DelegationInv, DelegationTypes, RequestRecord
<1>6. /\ executions \in [Delegates!Executions -> {"none"} \cup Delegates!Live \cup Delegates!Ended]
      /\ authority \in [Delegates!Executions -> 0..Delegates!Never]
      /\ grant \in [Delegates!Executions -> Nat]
  BY DEF DelegationInv, DelegationTypes
<1>7. /\ executions' \in [Delegates!Executions -> {"none"} \cup Delegates!Live \cup Delegates!Ended]
      /\ authority' \in [Delegates!Executions -> 0..Delegates!Never]
      /\ grant' \in [Delegates!Executions -> Nat]
  BY <1>1, <1>5, <1>6 DEF Delegates!Live
<1>8. DelegationTypes'
  BY <1>1, <1>2, <1>7 DEF DelegationInv, DelegationTypes
<1>9. \A x \in Delegates!Executions :
          x # r => /\ executions'[x] = executions[x]
                   /\ authority'[x] = authority[x] /\ grant'[x] = grant[x]
  BY <1>1, <1>6
<1>10. executions'[r] = "PENDING" /\ authority'[r] = delegation[r].deadline /\ grant'[r] = g
  BY <1>1, <1>3, <1>6
<1>11. DelegationGrows
  BY <1>1, <1>2, <1>3, <1>9, <1>10 DEF DelegationGrows
<1>12. ChildOf(r)'
  <2>1. AskedFor(r)
    BY <1>1 DEF DelegationInv
  <2>2. delegation[r].parent \in Delegates!Executions /\ delegation[r].parent # r
    BY <1>3, <2>1 DEF AskedFor, DelegationInv, DelegationTypes, RequestRecord
  <2>3. g <= grant[delegation[r].parent]
    BY <1>1, <1>5, <1>6, <2>2 DEF Delegates!WithinGrant
  <2> QED
    BY <1>2, <1>9, <1>10, <2>2, <2>3 DEF ChildOf
<1>13. /\ \A q \in Delegations : delegation'[q].status # "none" => AskedFor(q)'
       /\ \A q \in Delegations : executions'[q] # "none" => ChildOf(q)'
       /\ \A x \in Delegates!Executions, j \in Ordinals :
              delegate'[x][j].status # "none" =>
                  executions'[x] # "none" /\ delegate'[x][j].deadline <= authority'[x]
  <2>1. \A q \in Delegations : delegation'[q].status # "none" => delegation[q].status # "none"
    BY <1>1, <1>2
  <2>2. \A q \in Delegations : q # r /\ executions'[q] # "none" => executions[q] # "none"
    BY <1>9 DEF Delegates!Executions
  <2> QED
    BY <1>1, <1>11, <1>12, <2>1, <2>2, OldStays
<1>14. \A q \in Delegations : executions'[q] # "none" <=> delegation'[q].status = "APPROVED"
  BY <1>2, <1>9, <1>10 DEF DelegationInv, Delegates!ChildrenAreApproved, Delegates!Executions
<1>15. \A x \in Delegates!Executions, k \in Ordinals :
           Cardinality({q \in Delegations :
                            /\ delegation'[q].parent = x /\ delegation'[q].by = k
                            /\ delegation'[q].status \in Delegates!Open}) <= MaxPerAttempt
  BY <1>1, <1>2, FewerRequests DEF Delegates!Open
<1> QED
  BY <1>8, <1>13, <1>14, <1>15, DelegatesCount
  DEF DelegationInv, Delegates!ChildrenAreApproved

(* A claim is under the authority deadline of its execution.               *)
LEMMA DelegatedClaimKeeps ==
    ASSUME DelegationConstants, DelegationInv, NEW e \in Delegates!Executions, NEW k \in Ordinals,
           NEW own \in Delegates!Deadlines, Delegates!Claim(e, k, own)
    PROVE  DelegationInv'
<1>1. /\ executions[e] = "RUNNING" /\ delegate[e][k].status = "none"
      /\ UNCHANGED <<executions, authority, grant, delegation>>
  BY DEF Delegates!Claim
<1>2. authority[e] \in 0..Delegates!Never /\ own \in 0..Delegates!Never
  BY DEF DelegationInv, DelegationTypes, Delegates!Deadlines, DelegationConstants, Delegates!Never
<1>3. /\ Delegates!AttemptDeadline(e, own) \in 0..Delegates!Never
      /\ Delegates!AttemptDeadline(e, own) <= authority[e]
  BY <1>2 DEF Delegates!AttemptDeadline, Delegates!Never, DelegationConstants
<1>4. PICK new : new = [status |-> "ACTIVE", deadline |-> Delegates!AttemptDeadline(e, own)]
  OBVIOUS
<1>5. new \in AttemptRecord
  BY <1>3, <1>4 DEF AttemptRecord
<1>6. delegate' = [delegate EXCEPT ![e][k] = new]
  BY <1>4 DEF Delegates!Claim
<1>7. /\ delegate' \in [Delegates!Executions -> [Ordinals -> AttemptRecord]]
      /\ delegate'[e][k] = new
      /\ \A x \in Delegates!Executions, j \in Ordinals :
             x # e \/ j # k => delegate'[x][j] = delegate[x][j]
  BY <1>5, <1>6 DEF DelegationInv, DelegationTypes
<1>8. DelegationTypes' /\ DelegationGrows
  BY <1>1, <1>7 DEF DelegationInv, DelegationTypes, DelegationGrows
<1>9. /\ \A r \in Delegations : delegation'[r].status # "none" => AskedFor(r)'
      /\ \A r \in Delegations : executions'[r] # "none" => ChildOf(r)'
  BY <1>1, <1>8, OldStays
<1>10. \A x \in Delegates!Executions, j \in Ordinals :
           delegate'[x][j].status # "none" =>
               executions'[x] # "none" /\ delegate'[x][j].deadline <= authority'[x]
  BY <1>1, <1>3, <1>4, <1>7 DEF DelegationInv
<1>11. Delegates!ChildrenAreApproved'
  BY <1>1 DEF DelegationInv, Delegates!ChildrenAreApproved
<1> QED
  BY <1>8, <1>9, <1>10, <1>11 DEF DelegationInv
-----------------------------------------------------------------------------
(* An attempt ends: no row of a request is written.                        *)
LEMMA AttemptEndsKeeps ==
    ASSUME DelegationConstants, DelegationInv, NEW e \in Delegates!Executions, NEW k \in Ordinals,
           Delegates!AttemptEnds(e, k)
    PROVE  DelegationInv'
<1>1. delegate[e][k].status = "ACTIVE" /\ delegate[e][k] \in AttemptRecord
  BY DEF Delegates!AttemptEnds, DelegationInv, DelegationTypes
<1>2. PICK a : a = [delegate[e][k] EXCEPT !.status = "ENDED"]
  OBVIOUS
<1>3. a \in AttemptRecord /\ a.status = "ENDED" /\ a.deadline = delegate[e][k].deadline
  BY <1>1, <1>2, EndedAttempt
<1>4. delegate' = [delegate EXCEPT ![e][k] = a]
  BY <1>2 DEF Delegates!AttemptEnds
<1>5. /\ delegate' \in [Delegates!Executions -> [Ordinals -> AttemptRecord]]
      /\ delegate'[e][k] = a
      /\ \A x \in Delegates!Executions, j \in Ordinals :
             x # e \/ j # k => delegate'[x][j] = delegate[x][j]
  BY <1>3, <1>4 DEF DelegationInv, DelegationTypes
<1>6. \A x \in Delegates!Executions, j \in Ordinals :
          /\ delegate'[x][j].status # "none" <=> delegate[x][j].status # "none"
          /\ delegate'[x][j].deadline = delegate[x][j].deadline
  BY <1>1, <1>3, <1>5
<1> QED
  BY <1>5, <1>6, EngineKeeps DEF Delegates!AttemptEnds, DelegationInv, DelegationTypes

(* An execution that is live goes on, or ends.                             *)
LEMMA LiveExecutionKeeps ==
    ASSUME DelegationConstants, DelegationInv, NEW e \in Delegates!Executions,
           NEW outcome \in {"RUNNING"} \cup Delegates!Ended, executions[e] \in Delegates!Live,
           executions' = [executions EXCEPT ![e] = outcome],
           UNCHANGED <<authority, grant, delegate, delegation>>
    PROVE  DelegationInv'
<1>1. /\ executions' \in [Delegates!Executions -> {"none"} \cup Delegates!Live \cup Delegates!Ended]
      /\ \A x \in Delegates!Executions : executions'[x] # "none" <=> executions[x] # "none"
  BY DEF DelegationInv, DelegationTypes, Delegates!Live, Delegates!Ended
<1> QED
  BY <1>1, EngineKeeps DEF DelegationInv, DelegationTypes

(* Every step keeps what the rows say of parent and child.                 *)
LEMMA DelegationStep ==
    ASSUME DelegationConstants
    PROVE  DelegationInv /\ [Delegates!Next]_(Delegates!vars) => DelegationInv'
<1> SUFFICES ASSUME DelegationInv, [Delegates!Next]_(Delegates!vars) PROVE DelegationInv'
  OBVIOUS
<1>1. ASSUME UNCHANGED <<executions, authority, grant, delegate, delegation>> PROVE DelegationInv'
  <2>1. DelegationTypes' /\ DelegationGrows
    BY <1>1 DEF DelegationInv, DelegationTypes, DelegationGrows
  <2> QED
    BY <1>1, <2>1, NothingNewKeeps
<1>2. ASSUME NEW r \in Delegations, NEW e \in Delegates!Executions, NEW k \in Ordinals,
             NEW d \in Delegates!Deadlines, Delegates!Ask(r, e, k, d)
      PROVE  DelegationInv'
  BY <1>2, AskKeeps
<1>3. ASSUME NEW r \in Delegations, NEW g \in Grants \cup {0}, Delegates!Approve(r, g)
      PROVE  DelegationInv'
  BY <1>3, ApproveKeeps
<1>4. ASSUME NEW r \in Delegations, Delegates!ApproveInVain(r) \/ Delegates!Reject(r)
      PROVE  DelegationInv'
  BY <1>4, DecidesInVainKeeps DEF Delegates!ApproveInVain, Delegates!Reject
<1>5. ASSUME NEW e \in Delegates!Executions, Delegates!Begin(e) \/ Delegates!ClaimTooLate(e)
      PROVE  DelegationInv'
  BY <1>5, LiveExecutionKeeps DEF Delegates!Begin, Delegates!ClaimTooLate, Delegates!Live,
       Delegates!Ended
<1>6. ASSUME NEW e \in Delegates!Executions, NEW outcome \in {"COMPLETED", "FAILED"},
             Delegates!Finish(e, outcome)
      PROVE  DelegationInv'
  BY <1>6, LiveExecutionKeeps DEF Delegates!Finish, Delegates!Live, Delegates!Ended
<1>7. ASSUME NEW e \in Delegates!Executions, Delegates!Cancel(e) PROVE DelegationInv'
  BY <1>7, CancelledKeeps DEF Delegates!Cancel
<1>8. ASSUME NEW e \in Delegates!Executions, NEW k \in Ordinals,
             \/ Delegates!AttemptEnds(e, k)
             \/ \E own \in Delegates!Deadlines : Delegates!Claim(e, k, own)
      PROVE  DelegationInv'
  BY <1>8, AttemptEndsKeeps, DelegatedClaimKeeps
<1>9. ASSUME NEW p \in Replicas, Delegates!ExpireDue(p) PROVE DelegationInv'
  BY <1>9, ExpireDueKeeps
<1>10. ASSUME NEW p \in Replicas, NEW r \in Delegations, Delegates!CancelOrphan(p, r)
       PROVE  DelegationInv'
  BY <1>10, CancelledKeeps DEF Delegates!CancelOrphan, Delegates!Executions
<1>11. ASSUME NEW p \in Replicas,
              \/ Delegates!Scan(p) \/ Delegates!SkipOrphan(p)
              \/ Delegates!EndTick(p) \/ Delegates!Crash(p)
       PROVE  DelegationInv'
  BY <1>1, <1>11 DEF Delegates!Scan, Delegates!SkipOrphan, Delegates!EndTick, Delegates!Crash
<1>12. ASSUME Delegates!Tick \/ UNCHANGED Delegates!vars PROVE DelegationInv'
  BY <1>1, <1>12 DEF Delegates!Tick, Delegates!vars
<1> QED
  BY <1>2, <1>3, <1>4, <1>5, <1>6, <1>7, <1>8, <1>9, <1>10, <1>11, <1>12 DEF Delegates!Next

(* Requests keep what they were asked with, and children what they were    *)
(* approved with, whoever decides, expires, cancels or dies in between.    *)
THEOREM DelegationIsRecorded ==
    ASSUME DelegationConstants
    PROVE  Delegates!Spec => []DelegationInv
<1>1. Delegates!Init => DelegationInv
  BY DelegationStart
<1>2. DelegationInv /\ [Delegates!Next]_(Delegates!vars) => DelegationInv'
  BY DelegationStep
<1> QED
  BY <1>1, <1>2, PTL DEF Delegates!Spec

(* Delegated work has no more authority than the attempt that asked for    *)
(* it - no later deadline, no larger budget, no deeper chain - and a child *)
(* exists exactly for an approved request, for any number of executions,   *)
(* replicas and requests.                                                  *)
THEOREM DelegationIsBounded ==
    ASSUME DelegationConstants
    PROVE  Delegates!Spec => []DelegationsAreSound
<1>1. DelegationInv => DelegationsAreSound
  <2> SUFFICES ASSUME DelegationInv, NEW r \in Delegations, executions[r] # "none"
               PROVE  LET parent == delegation[r].parent
                      IN /\ executions[parent] # "none"
                         /\ \A k \in Ordinals :
                                \/ delegate[r][k].status = "none"
                                \/ delegate[r][k].deadline
                                     <= delegate[parent][delegation[r].by].deadline
                         /\ grant[r] <= grant[parent]
                         /\ Delegates!Depth(parent) < Delegates!Depth(r)
                         /\ Delegates!Depth(r) <= Delegates!DepthLimit
    BY DEF DelegationsAreSound, Delegates!DelegationsAreSound,
           Delegates!DelegatedWithinParent, DelegationInv
  <2>1. AskedFor(r) /\ ChildOf(r)
    BY DEF DelegationInv, Delegates!ChildrenAreApproved
  <2>2. Delegates!Depth(r) = delegation[r].depth
    BY DEF Delegates!Depth
  <2>3. \A k \in Ordinals : delegate[r][k].status # "none" =>
                                delegate[r][k].deadline <= authority[r]
    BY DEF DelegationInv, Delegates!Executions
  <2> QED
    BY <2>1, <2>2, <2>3 DEF AskedFor, ChildOf
<1>2. Delegates!Spec => []DelegationInv
  BY DelegationIsRecorded
<1> QED
  BY <1>1, <1>2, PTL

(* No request is decided twice: not by two operators, not by an operator   *)
(* and the expiry of any replica.                                          *)
THEOREM DelegationDecidedOnce ==
    ASSUME DelegationConstants
    PROVE  Delegates!Spec => Delegates!DecisionsFinal
<1>1. DelegationInv /\ [Delegates!Next]_(Delegates!vars) =>
          \A r \in Delegations :
              delegation[r].status \in Delegates!Decisions => delegation'[r] = delegation[r]
  <2> SUFFICES ASSUME DelegationInv, [Delegates!Next]_(Delegates!vars),
                      NEW r \in Delegations, delegation[r].status \in Delegates!Decisions
               PROVE  delegation'[r] = delegation[r]
    OBVIOUS
  <2>1. delegation[r].status \notin {"none", "PENDING"}
    BY DEF Delegates!Decisions
  <2>2. ASSUME NEW q \in Delegations, NEW decision \in Delegates!Decisions,
               delegation' = Delegates!Decided(q, decision)
        PROVE  delegation'[r] = delegation[r]
    <3>1. CASE q # r
      BY <2>2, <3>1, DecidedRows DEF DelegationInv
    <3>2. CASE q = r
      BY <2>1, <2>2, <3>2, DecidedRows DEF DelegationInv
    <3> QED
      BY <3>1, <3>2
  <2>3. ASSUME NEW q \in Delegations, NEW e \in Delegates!Executions, NEW k \in Ordinals,
               NEW d \in Delegates!Deadlines, Delegates!Ask(q, e, k, d)
        PROVE  delegation'[r] = delegation[r]
    BY <2>1, <2>3 DEF Delegates!Ask, DelegationInv, DelegationTypes
  <2>4. ASSUME NEW q \in Delegations, NEW g \in Grants \cup {0}, Delegates!Approve(q, g)
        PROVE  delegation'[r] = delegation[r]
    BY <2>2, <2>4 DEF Delegates!Approve, Delegates!Decisions
  <2>5. ASSUME NEW q \in Delegations, Delegates!ApproveInVain(q) \/ Delegates!Reject(q)
        PROVE  delegation'[r] = delegation[r]
    BY <2>2, <2>5 DEF Delegates!ApproveInVain, Delegates!Reject, Delegates!Decisions
  <2>6. ASSUME NEW p \in Replicas, Delegates!ExpireDue(p) PROVE delegation'[r] = delegation[r]
    BY <2>1, <2>6 DEF Delegates!ExpireDue, Delegates!Due
  <2>7. ASSUME UNCHANGED delegation PROVE delegation'[r] = delegation[r]
    BY <2>7
  <2> QED
    BY <2>3, <2>4, <2>5, <2>6, <2>7
       DEF Delegates!Next, Delegates!Begin, Delegates!ClaimTooLate, Delegates!Cancel,
       Delegates!AttemptEnds, Delegates!Claim, Delegates!Finish, Delegates!Scan,
       Delegates!CancelOrphan,
           Delegates!SkipOrphan, Delegates!EndTick, Delegates!Crash, Delegates!Tick, Delegates!vars
<1>2. Delegates!Spec => []DelegationInv
  BY DelegationIsRecorded
<1> QED
  BY <1>1, <1>2, PTL DEF Delegates!Spec, Delegates!DecisionsFinal
-----------------------------------------------------------------------------
(* The topics of Kafka. *)

(* A consumer hands over from where its group joined to where it stands,   *)
(* and what it committed lies between.                                     *)
Stages == {"idle", "handling", "stored", "succeeded", "failed"}

ConsumerRecord ==
    [up : BOOLEAN, start : Nat, position : Nat, committed : Nat, stage : Stages, stops : Nat]

ConsumerTypes == consumer \in [Kafka!Consumers -> ConsumerRecord]

Offsets(c) ==
    /\ 1 <= consumer[c].start /\ consumer[c].start <= consumer[c].position
    /\ consumer[c].position <= Len(Kafka!Log(c)) + 1
    /\ consumer[c].committed # 0 =>
           /\ consumer[c].start <= consumer[c].committed
           /\ consumer[c].committed <= consumer[c].position
    /\ consumer[c].stage # "idle" =>
           consumer[c].position <= Len(Kafka!Log(c)) /\ consumer[c].up

Messages == Invocations \cup {"foreign"}

TopicInv ==
    /\ tasks \in Seq(Messages) /\ results \in Seq(Messages)
    /\ ConsumerTypes
    /\ Offsets("agent") /\ Offsets("orchestrator")
    /\ consumer["orchestrator"].stage = "stored" =>
           /\ results[consumer["orchestrator"].position] \in Invocations =>
                  consumer["orchestrator"].position \in stored
    /\ consumer["orchestrator"].stage \in {"idle", "handling", "stored"}
    /\ Kafka!NothingIsSkipped

(* The topics are empty and the groups have read nothing.                  *)
LEMMA TopicStart == Kafka!Init => TopicInv
<1> SUFFICES ASSUME Kafka!Init PROVE TopicInv
  OBVIOUS
<1>1. tasks \in Seq(Messages) /\ results \in Seq(Messages)
  BY DEF Kafka!Init
<1>2. ConsumerTypes
  BY DEF Kafka!Init, ConsumerTypes, ConsumerRecord, Stages, Kafka!None
<1>3. Offsets("agent") /\ Offsets("orchestrator")
  BY DEF Kafka!Init, Offsets, Kafka!Log, Kafka!Consumers, Kafka!None
<1>4. Kafka!NothingIsSkipped
  BY DEF Kafka!Init, Kafka!NothingIsSkipped, Kafka!ResultsAreStored, Kafka!TasksAreAnswered,
         Kafka!Read, Kafka!Consumers
<1> QED
  BY <1>1, <1>2, <1>3, <1>4 DEF TopicInv, Kafka!Init, Kafka!Consumers

(* One consumer moves.                                                     *)
LEMMA ConsumerMoves ==
    ASSUME ConsumerTypes, NEW c \in Kafka!Consumers, NEW row \in ConsumerRecord,
           consumer' = [consumer EXCEPT ![c] = row]
    PROVE  /\ ConsumerTypes' /\ consumer'[c] = row
           /\ \A d \in Kafka!Consumers : d # c => consumer'[d] = consumer[d]
  BY DEF ConsumerTypes

(* A consumer comes to another stage and stays where it stands.            *)
LEMMA StageMoves ==
    ASSUME ConsumerTypes, NEW c \in Kafka!Consumers, NEW stage \in Stages, Kafka!At(c, stage)
    PROVE  /\ ConsumerTypes'
           /\ \A d \in Kafka!Consumers : d # c => consumer'[d] = consumer[d]
           /\ consumer'[c].stage = stage
           /\ consumer'[c].start = consumer[c].start
           /\ consumer'[c].position = consumer[c].position
           /\ consumer'[c].committed = consumer[c].committed
           /\ consumer[c].up => consumer'[c].up
<1>1. consumer[c] \in ConsumerRecord
  BY DEF ConsumerTypes
<1>2. PICK row : row = [consumer[c] EXCEPT !.stage = stage]
  OBVIOUS
<1>3. row = [up |-> consumer[c].up, start |-> consumer[c].start,
             position |-> consumer[c].position, committed |-> consumer[c].committed,
             stage |-> stage, stops |-> consumer[c].stops]
  BY <1>1, <1>2 DEF ConsumerRecord
<1>4. row \in ConsumerRecord
  BY <1>1, <1>3 DEF ConsumerRecord
<1>5. consumer' = [consumer EXCEPT ![c] = row]
  BY <1>2 DEF Kafka!At
<1>6. /\ row.stage = stage /\ row.start = consumer[c].start
      /\ row.position = consumer[c].position /\ row.committed = consumer[c].committed
      /\ consumer[c].up => row.up
  BY <1>3
<1>7. /\ ConsumerTypes' /\ consumer'[c] = row
      /\ \A d \in Kafka!Consumers : d # c => consumer'[d] = consumer[d]
  BY <1>4, <1>5, ConsumerMoves
<1> QED
  BY <1>6, <1>7

(* A consumer is done with its message and stands at the next.             *)
LEMMA AckMoves ==
    ASSUME ConsumerTypes, NEW c \in Kafka!Consumers, Kafka!Acked(c)
    PROVE  /\ ConsumerTypes'
           /\ \A d \in Kafka!Consumers : d # c => consumer'[d] = consumer[d]
           /\ consumer'[c].stage = "idle"
           /\ consumer'[c].start = consumer[c].start
           /\ consumer'[c].position = consumer[c].position + 1
           /\ consumer'[c].committed = consumer[c].committed
<1>1. consumer[c] \in ConsumerRecord
  BY DEF ConsumerTypes
<1>2. PICK row : row = [consumer[c] EXCEPT !.stage = "idle", !.position = @ + 1]
  OBVIOUS
<1>3. row = [up |-> consumer[c].up, start |-> consumer[c].start,
             position |-> consumer[c].position + 1, committed |-> consumer[c].committed,
             stage |-> "idle", stops |-> consumer[c].stops]
  BY <1>1, <1>2 DEF ConsumerRecord
<1>4. row \in ConsumerRecord
  BY <1>1, <1>3 DEF ConsumerRecord, Stages
<1>5. consumer' = [consumer EXCEPT ![c] = row]
  BY <1>2 DEF Kafka!Acked
<1>6. /\ row.stage = "idle" /\ row.start = consumer[c].start
      /\ row.position = consumer[c].position + 1 /\ row.committed = consumer[c].committed
  BY <1>3
<1>7. /\ ConsumerTypes' /\ consumer'[c] = row
      /\ \A d \in Kafka!Consumers : d # c => consumer'[d] = consumer[d]
  BY <1>4, <1>5, ConsumerMoves
<1> QED
  BY <1>6, <1>7

(* A group that joins starts at its commit, or behind the last message.    *)
LEMMA JoinMoves ==
    ASSUME TopicInv, NEW c \in Kafka!Consumers, Kafka!Join(c)
    PROVE  /\ ConsumerTypes'
           /\ \A d \in Kafka!Consumers : d # c => consumer'[d] = consumer[d]
           /\ consumer'[c].stage = consumer[c].stage
           /\ consumer'[c].committed = consumer[c].committed
           /\ consumer'[c].up
           /\ IF consumer[c].committed = 0
              THEN /\ consumer'[c].start = Len(Kafka!Log(c)) + 1
                   /\ consumer'[c].position = Len(Kafka!Log(c)) + 1
              ELSE /\ consumer'[c].start = consumer[c].start
                   /\ consumer'[c].position = consumer[c].committed
<1>1. consumer[c] \in ConsumerRecord
  BY DEF TopicInv, ConsumerTypes
<1>2. Len(Kafka!Log(c)) \in Nat
  BY DEF TopicInv, Kafka!Log
<1>3. PICK from \in Nat : from = IF consumer[c].committed = 0 THEN Len(Kafka!Log(c)) + 1
                                 ELSE consumer[c].committed
  BY <1>1, <1>2 DEF ConsumerRecord
<1>4. PICK start \in Nat : start = IF consumer[c].committed = 0 THEN from ELSE consumer[c].start
  BY <1>1, <1>3 DEF ConsumerRecord
<1>5. PICK row : row = [consumer[c] EXCEPT !.up = TRUE, !.position = from, !.start = start]
  OBVIOUS
<1>6. row = [up |-> TRUE, start |-> start, position |-> from,
             committed |-> consumer[c].committed, stage |-> consumer[c].stage,
             stops |-> consumer[c].stops]
  BY <1>1, <1>5 DEF ConsumerRecord
<1>7. row \in ConsumerRecord
  BY <1>1, <1>6 DEF ConsumerRecord
<1>8. consumer' = [consumer EXCEPT ![c] = row]
  BY <1>3, <1>4, <1>5 DEF Kafka!Join, Kafka!None
<1>9. /\ row.stage = consumer[c].stage /\ row.start = start /\ row.up
      /\ row.position = from /\ row.committed = consumer[c].committed
  BY <1>6
<1>10. /\ ConsumerTypes' /\ consumer'[c] = row
       /\ \A d \in Kafka!Consumers : d # c => consumer'[d] = consumer[d]
  BY <1>7, <1>8, ConsumerMoves DEF TopicInv
<1> QED
  BY <1>3, <1>4, <1>9, <1>10

(* A consumer stops with its last commit.                                  *)
LEMMA StopMoves ==
    ASSUME TopicInv, NEW c \in Kafka!Consumers, NEW last \in Nat, Kafka!Stops(c, last)
    PROVE  /\ ConsumerTypes'
           /\ \A d \in Kafka!Consumers : d # c => consumer'[d] = consumer[d]
           /\ consumer'[c].stage = "idle"
           /\ consumer'[c].start = consumer[c].start
           /\ consumer'[c].position = consumer[c].position
           /\ consumer'[c].committed = last
<1>1. consumer[c] \in ConsumerRecord
  BY DEF TopicInv, ConsumerTypes
<1>2. PICK row : row = [consumer[c] EXCEPT !.up = FALSE, !.stage = "idle", !.committed = last,
                                           !.stops = consumer[c].stops + 1]
  OBVIOUS
<1>3. row = [up |-> FALSE, start |-> consumer[c].start, position |-> consumer[c].position,
             committed |-> last, stage |-> "idle", stops |-> consumer[c].stops + 1]
  BY <1>1, <1>2 DEF ConsumerRecord
<1>4. row \in ConsumerRecord
  BY <1>1, <1>3 DEF ConsumerRecord, Stages
<1>5. consumer' = [consumer EXCEPT ![c] = row]
  BY <1>2 DEF Kafka!Stops
<1>6. /\ row.stage = "idle" /\ row.start = consumer[c].start
      /\ row.position = consumer[c].position /\ row.committed = last
  BY <1>3
<1>7. /\ ConsumerTypes' /\ consumer'[c] = row
      /\ \A d \in Kafka!Consumers : d # c => consumer'[d] = consumer[d]
  BY <1>4, <1>5, ConsumerMoves DEF TopicInv
<1> QED
  BY <1>6, <1>7
-----------------------------------------------------------------------------
(* Messages are only added, and what was stored or given up stays so.      *)
TopicsGrow ==
    /\ tasks' \in Seq(Messages) /\ Len(tasks) <= Len(tasks')
    /\ \A n \in 1..Len(tasks) : tasks'[n] = tasks[n]
    /\ results' \in Seq(Messages) /\ Len(results) <= Len(results')
    /\ \A n \in 1..Len(results) : results'[n] = results[n]
    /\ stored \subseteq stored' /\ unpublished \subseteq unpublished'

StagesFit ==
    /\ consumer["orchestrator"].stage \in {"idle", "handling", "stored"}
    /\ consumer["orchestrator"].stage = "stored" =>
           /\ results[consumer["orchestrator"].position] \in Invocations =>
                  consumer["orchestrator"].position \in stored

(* Then only what was read in this step has to be accounted for.           *)
LEMMA TopicsKept ==
    ASSUME TopicInv, TopicsGrow, ConsumerTypes', Offsets("agent")', Offsets("orchestrator")',
           StagesFit',
           \A n \in Kafka!Read("orchestrator")' :
               \/ n \in Kafka!Read("orchestrator")
               \/ results'[n] \in Invocations => n \in stored',
           \A n \in Kafka!Read("agent")' :
               \/ n \in Kafka!Read("agent")
               \/ tasks'[n] \in Invocations =>
                      \/ n \in unpublished'
                      \/ \E k \in 1..Len(results') : results'[k] = tasks'[n]
    PROVE  TopicInv'
<1>1. \A c \in Kafka!Consumers : consumer[c].start \in Nat /\ consumer[c].position \in Nat
  BY DEF TopicInv, ConsumerTypes, ConsumerRecord
<1>2. Len(tasks) \in Nat /\ Len(results) \in Nat /\ Len(tasks') \in Nat /\ Len(results') \in Nat
  BY DEF TopicInv, TopicsGrow
<1>3. \A n \in Kafka!Read("orchestrator") : n \in 1..Len(results)
  BY SMTT(30), <1>1, <1>2 DEF TopicInv, Offsets, Kafka!Read, Kafka!Log, Kafka!Consumers
<1>4. \A n \in Kafka!Read("agent") : n \in 1..Len(tasks)
  BY SMTT(30), <1>1, <1>2 DEF TopicInv, Offsets, Kafka!Read, Kafka!Log, Kafka!Consumers
<1>5. \A n \in Kafka!Read("orchestrator")' : results'[n] \in Invocations => n \in stored'
  BY <1>3 DEF TopicInv, TopicsGrow, Kafka!NothingIsSkipped, Kafka!ResultsAreStored
<1>6. ASSUME NEW n \in Kafka!Read("agent")', tasks'[n] \in Invocations
      PROVE  \/ n \in unpublished'
             \/ \E k \in 1..Len(results') : results'[k] = tasks'[n]
  <2>1. CASE n \in Kafka!Read("agent")
    <3>1. tasks'[n] = tasks[n]
      BY <1>4, <2>1 DEF TopicsGrow
    <3>2. n \in unpublished \/ \E k \in 1..Len(results) : results[k] = tasks[n]
      BY <1>6, <2>1, <3>1 DEF TopicInv, Kafka!NothingIsSkipped, Kafka!TasksAreAnswered
    <3>3. \A k \in 1..Len(results) : k \in 1..Len(results') /\ results'[k] = results[k]
      BY <1>2 DEF TopicsGrow
    <3> QED
      BY <3>1, <3>2, <3>3 DEF TopicsGrow
  <2>2. CASE n \notin Kafka!Read("agent")
    BY <1>6, <2>2
  <2> QED
    BY <2>1, <2>2
<1>7. Kafka!NothingIsSkipped'
  BY <1>5, <1>6 DEF Kafka!NothingIsSkipped, Kafka!ResultsAreStored, Kafka!TasksAreAnswered
<1> QED
  BY <1>7 DEF TopicInv, TopicsGrow, StagesFit

(* A consumer that does not move is where it was.                          *)
LEMMA OthersStand ==
    ASSUME TopicInv, TopicsGrow, NEW c \in Kafka!Consumers, consumer'[c] = consumer[c]
    PROVE  /\ Offsets(c)' /\ Kafka!Read(c)' = Kafka!Read(c)
           /\ c = "orchestrator" => StagesFit'
<1>1. consumer[c] \in ConsumerRecord /\ Offsets(c)
  BY DEF TopicInv, ConsumerTypes, Kafka!Consumers
<1>2. /\ Len(Kafka!Log(c)) \in Nat /\ Len(Kafka!Log(c))' \in Nat
      /\ Len(Kafka!Log(c)) <= Len(Kafka!Log(c))'
  BY DEF TopicInv, TopicsGrow, Kafka!Log
<1>3. Offsets(c)'
  BY <1>1, <1>2 DEF Offsets, ConsumerRecord
<1>4. Kafka!Read(c)' = Kafka!Read(c)
  BY DEF Kafka!Read
<1>5. ASSUME c = "orchestrator" PROVE StagesFit'
  <2>1. CASE consumer[c].stage # "stored"
    BY <1>5, <2>1 DEF TopicInv, StagesFit
  <2>2. CASE consumer[c].stage = "stored"
    <3>1. consumer[c].position \in 1..Len(results)
      BY <1>1, <1>2, <1>5, <2>2 DEF Offsets, ConsumerRecord, Kafka!Log
    <3>2. results'[consumer[c].position] = results[consumer[c].position]
      BY <3>1 DEF TopicsGrow
    <3> QED
      BY <1>5, <2>2, <3>2 DEF TopicInv, StagesFit, TopicsGrow
  <2> QED
    BY <2>1, <2>2
<1> QED
  BY <1>3, <1>4, <1>5

(* The client moves: it joins, hands over, leaves or dies.                 *)
LEMMA ClientKeeps ==
    ASSUME TopicInv, NEW c \in Kafka!Consumers,
           Kafka!Join(c) \/ Kafka!Poll(c) \/ Kafka!Leave(c) \/ Kafka!Crash(c)
    PROVE  TopicInv'
<1>1. UNCHANGED <<tasks, results, stored, unpublished>>
  BY DEF Kafka!Join, Kafka!Poll, Kafka!Leave, Kafka!Crash, Kafka!Stops
<1>2. TopicsGrow
  BY <1>1 DEF TopicInv, TopicsGrow
<1>3. consumer[c] \in ConsumerRecord /\ Offsets(c)
  BY DEF TopicInv, ConsumerTypes, Kafka!Consumers
<1>4. Len(Kafka!Log(c)) \in Nat /\ Kafka!Log(c)' = Kafka!Log(c)
  BY <1>1 DEF TopicInv, Kafka!Log
<1>5. /\ ConsumerTypes'
      /\ \A d \in Kafka!Consumers : d # c => consumer'[d] = consumer[d]
      /\ Offsets(c)'
      /\ consumer'[c].stage \in {consumer[c].stage, "idle", "handling"}
      /\ consumer'[c].stage = "stored" => consumer'[c].position = consumer[c].position
      /\ \A n \in Kafka!Read(c)' : n \in Kafka!Read(c)
  <2>1. CASE Kafka!Join(c) /\ consumer[c].stage = "idle"
    BY SMTT(30), <1>3, <1>4, <2>1, JoinMoves DEF Offsets, ConsumerRecord, Kafka!Read
  <2>2. CASE Kafka!Poll(c)
    <3>1. /\ Kafka!At(c, "handling") /\ consumer[c].position <= Len(Kafka!Log(c))
          /\ consumer[c].up
      BY <2>2 DEF Kafka!Poll, Kafka!At
    <3> QED
      BY <1>3, <1>4, <3>1, StageMoves DEF Offsets, ConsumerRecord, Kafka!Read, Stages, TopicInv
  <2>3. ASSUME NEW last \in {consumer[c].committed} \cup Kafka!Joined(c)..consumer[c].position,
               Kafka!Stops(c, last)
        PROVE  /\ ConsumerTypes'
               /\ \A d \in Kafka!Consumers : d # c => consumer'[d] = consumer[d]
               /\ Offsets(c)'
               /\ consumer'[c].stage = "idle"
               /\ \A n \in Kafka!Read(c)' : n \in Kafka!Read(c)
    <3>1. /\ last \in Nat
          /\ last # 0 => consumer[c].start <= last /\ last <= consumer[c].position
      BY <1>3 DEF Offsets, ConsumerRecord, Kafka!Joined, Kafka!None
    <3> QED
      BY <1>3, <1>4, <2>3, <3>1, StopMoves DEF Offsets, ConsumerRecord, Kafka!Read
  <2>4. CASE Kafka!Leave(c)
    <3>1. consumer[c].position \in Kafka!Joined(c)..consumer[c].position
      BY <1>3 DEF Offsets, ConsumerRecord, Kafka!Joined, Kafka!None
    <3> QED
      BY <2>3, <2>4, <3>1 DEF Kafka!Leave
  <2>5. CASE Kafka!Crash(c)
    BY <2>3, <2>5 DEF Kafka!Crash
  <2>6. CASE Kafka!Join(c) /\ consumer[c].stage # "idle"
    BY <1>3, <2>6 DEF Offsets, Kafka!Join
  <2> QED
    BY <2>1, <2>2, <2>4, <2>5, <2>6
<1>6. \A d \in Kafka!Consumers : Offsets(d)'
  BY <1>2, <1>5, OthersStand
<1>7. \A d \in Kafka!Consumers : \A n \in Kafka!Read(d)' : n \in Kafka!Read(d)
  BY <1>2, <1>5, OthersStand
<1>8. StagesFit'
  <2>1. CASE c = "orchestrator"
    BY <1>1, <1>5, <2>1 DEF TopicInv, StagesFit
  <2>2. CASE c # "orchestrator"
    BY <1>2, <1>5, <2>2, OthersStand DEF Kafka!Consumers
  <2> QED
    BY <2>1, <2>2
<1> QED
  BY <1>2, <1>5, <1>6, <1>7, <1>8, TopicsKept DEF Kafka!Consumers

(* A handler comes to another stage of the message it has.                 *)
LEMMA StageKeeps ==
    ASSUME TopicInv, TopicsGrow, NEW c \in Kafka!Consumers, NEW stage \in Stages,
           consumer[c].stage # "idle", Kafka!At(c, stage),
           c = "orchestrator" =>
               /\ stage \in {"idle", "handling", "stored"}
               /\ stage = "stored" =>
                      (results'[consumer[c].position] \in Invocations =>
                           consumer[c].position \in stored')
    PROVE  TopicInv'
<1>1. consumer[c] \in ConsumerRecord /\ Offsets(c)
  BY DEF TopicInv, ConsumerTypes, Kafka!Consumers
<1>2. /\ Len(Kafka!Log(c)) \in Nat /\ Len(Kafka!Log(c))' \in Nat
      /\ Len(Kafka!Log(c)) <= Len(Kafka!Log(c))'
  BY DEF TopicInv, TopicsGrow, Kafka!Log
<1>3. /\ ConsumerTypes'
      /\ \A d \in Kafka!Consumers : d # c => consumer'[d] = consumer[d]
      /\ consumer'[c].stage = stage
      /\ consumer'[c].start = consumer[c].start
      /\ consumer'[c].position = consumer[c].position
      /\ consumer'[c].committed = consumer[c].committed
      /\ consumer[c].up => consumer'[c].up
  BY StageMoves DEF TopicInv
<1>4. Offsets(c)'
  BY <1>1, <1>2, <1>3 DEF Offsets, ConsumerRecord
<1>5. Kafka!Read(c)' = Kafka!Read(c)
  BY <1>3 DEF Kafka!Read
<1>6. \A d \in Kafka!Consumers : Offsets(d)' /\ Kafka!Read(d)' = Kafka!Read(d)
  BY <1>3, <1>4, <1>5, OthersStand
<1>7. StagesFit'
  <2>1. CASE c = "orchestrator"
    BY <1>3, <2>1 DEF StagesFit
  <2>2. CASE c # "orchestrator"
    BY <1>3, <2>2, OthersStand DEF Kafka!Consumers
  <2> QED
    BY <2>1, <2>2
<1>8. /\ \A n \in Kafka!Read("orchestrator")' : n \in Kafka!Read("orchestrator")
      /\ \A n \in Kafka!Read("agent")' : n \in Kafka!Read("agent")
      /\ Offsets("orchestrator")' /\ Offsets("agent")'
  BY <1>6 DEF Kafka!Consumers
<1> QED
  BY <1>3, <1>7, <1>8, TopicsKept

(* A handler returns, and its message is accounted for.                    *)
LEMMA ReturnKeeps ==
    ASSUME TopicInv, TopicsGrow, NEW c \in Kafka!Consumers,
           consumer[c].stage # "idle", Kafka!Acked(c),
           c = "orchestrator" =>
               (results'[consumer[c].position] \in Invocations =>
                    consumer[c].position \in stored'),
           c = "agent" =>
               (tasks'[consumer[c].position] \in Invocations =>
                    \/ consumer[c].position \in unpublished'
                    \/ \E k \in 1..Len(results') : results'[k] = tasks'[consumer[c].position])
    PROVE  TopicInv'
<1>1. consumer[c] \in ConsumerRecord /\ Offsets(c)
  BY DEF TopicInv, ConsumerTypes, Kafka!Consumers
<1>2. /\ Len(Kafka!Log(c)) \in Nat /\ Len(Kafka!Log(c))' \in Nat
      /\ Len(Kafka!Log(c)) <= Len(Kafka!Log(c))'
  BY DEF TopicInv, TopicsGrow, Kafka!Log
<1>3. /\ ConsumerTypes'
      /\ \A d \in Kafka!Consumers : d # c => consumer'[d] = consumer[d]
      /\ consumer'[c].stage = "idle"
      /\ consumer'[c].start = consumer[c].start
      /\ consumer'[c].position = consumer[c].position + 1
      /\ consumer'[c].committed = consumer[c].committed
  BY AckMoves DEF TopicInv
<1>4. Offsets(c)'
  BY <1>1, <1>2, <1>3 DEF Offsets, ConsumerRecord
<1>5. \A n \in Kafka!Read(c)' : n \in Kafka!Read(c) \/ n = consumer[c].position
  BY <1>1, <1>3 DEF Kafka!Read, ConsumerRecord
<1>6. \A d \in Kafka!Consumers :
          /\ Offsets(d)'
          /\ d # c => Kafka!Read(d)' = Kafka!Read(d)
  BY <1>3, <1>4, OthersStand
<1>7. StagesFit'
  <2>1. CASE c = "orchestrator"
    BY <1>3, <2>1 DEF StagesFit
  <2>2. CASE c # "orchestrator"
    BY <1>3, <2>2, OthersStand DEF Kafka!Consumers
  <2> QED
    BY <2>1, <2>2
<1>8. \A n \in Kafka!Read("orchestrator")' :
          \/ n \in Kafka!Read("orchestrator")
          \/ results'[n] \in Invocations => n \in stored'
  <2>1. CASE c = "orchestrator"
    BY <1>5, <2>1
  <2>2. CASE c # "orchestrator"
    BY <1>6, <2>2 DEF Kafka!Consumers
  <2> QED
    BY <2>1, <2>2
<1>9. \A n \in Kafka!Read("agent")' :
          \/ n \in Kafka!Read("agent")
          \/ tasks'[n] \in Invocations =>
                 \/ n \in unpublished'
                 \/ \E k \in 1..Len(results') : results'[k] = tasks'[n]
  <2>1. CASE c = "agent"
    BY <1>5, <2>1
  <2>2. CASE c # "agent"
    BY <1>6, <2>2 DEF Kafka!Consumers
  <2> QED
    BY <2>1, <2>2
<1>10. Offsets("orchestrator")' /\ Offsets("agent")'
  BY <1>6 DEF Kafka!Consumers
<1> QED
  BY <1>3, <1>7, <1>8, <1>9, <1>10, TopicsKept

(* No consumer moves: the topics take messages.                            *)
LEMMA ProducerKeeps ==
    ASSUME TopicInv, TopicsGrow, UNCHANGED consumer
    PROVE  TopicInv'
<1>1. \A d \in Kafka!Consumers : Offsets(d)' /\ Kafka!Read(d)' = Kafka!Read(d)
  BY OthersStand
<1>2. StagesFit'
  BY OthersStand DEF Kafka!Consumers
<1>3. ConsumerTypes'
  BY DEF TopicInv, ConsumerTypes
<1>4. /\ \A n \in Kafka!Read("orchestrator")' : n \in Kafka!Read("orchestrator")
      /\ \A n \in Kafka!Read("agent")' : n \in Kafka!Read("agent")
      /\ Offsets("orchestrator")' /\ Offsets("agent")'
  BY <1>1 DEF Kafka!Consumers
<1> QED
  BY <1>2, <1>3, <1>4, TopicsKept

(* An appended message leaves the others where they were.                  *)
LEMMA AppendGrows ==
    ASSUME NEW log \in Seq(Messages), NEW message \in Messages, NEW longer,
           longer = Append(log, message)
    PROVE  /\ longer \in Seq(Messages)
           /\ Len(log) \in Nat /\ Len(longer) = Len(log) + 1 /\ longer[Len(longer)] = message
           /\ \A n \in 1..Len(log) : longer[n] = log[n]
  OBVIOUS

(* Who has a message has one of the topic, and stands at it.               *)
LEMMA MessageAtHand ==
    ASSUME TopicInv, NEW c \in Kafka!Consumers, NEW stage, Kafka!Handling(c, stage),
           stage # "idle"
    PROVE  /\ consumer[c].stage # "idle"
           /\ consumer[c].position \in 1..Len(Kafka!Log(c))
           /\ Kafka!Message(c) \in Messages
<1>1. consumer[c] \in ConsumerRecord /\ Offsets(c)
  BY DEF TopicInv, ConsumerTypes, Kafka!Consumers
<1>2. Kafka!Log(c) \in Seq(Messages) /\ Len(Kafka!Log(c)) \in Nat
  BY DEF TopicInv, Kafka!Log
<1>3. consumer[c].stage # "idle"
  BY DEF Kafka!Handling
<1>4. consumer[c].position \in 1..Len(Kafka!Log(c))
  BY <1>1, <1>2, <1>3 DEF Offsets, ConsumerRecord
<1> QED
  BY <1>2, <1>3, <1>4 DEF Kafka!Message

(* The orchestrator's handler stores a result, returns, fails or drops.    *)
LEMMA ResultHandlerKeeps ==
    ASSUME TopicInv,
           Kafka!StoreResult \/ Kafka!HandlerReturns \/ Kafka!HandlerFails \/ Kafka!DropResult
    PROVE  TopicInv'
<1> DEFINE c == "orchestrator"
           at == consumer["orchestrator"].position
<1>1. c \in Kafka!Consumers /\ c # "agent"
  BY DEF Kafka!Consumers
<1>2. TopicsGrow
  BY DEF TopicInv, TopicsGrow, Kafka!StoreResult, Kafka!HandlerReturns, Kafka!HandlerFails,
         Kafka!DropResult
<1>3. UNCHANGED <<tasks, results>>
  BY DEF Kafka!StoreResult, Kafka!HandlerReturns, Kafka!HandlerFails, Kafka!DropResult
<1>4. \E stage \in {"handling", "stored"} : Kafka!Handling(c, stage)
  BY DEF Kafka!StoreResult, Kafka!HandlerReturns, Kafka!HandlerFails, Kafka!DropResult
<1>5. consumer[c].stage # "idle"
  BY <1>1, <1>4, MessageAtHand
<1>6. Kafka!Message(c) = results[at]
  BY DEF Kafka!Message, Kafka!Log
<1>7. CASE Kafka!StoreResult
  <2>1. results'[at] \in Invocations => at \in stored'
    BY <1>3, <1>6, <1>7 DEF Kafka!StoreResult
  <2>2. Kafka!At(c, "stored") /\ "stored" \in Stages
    BY <1>7 DEF Kafka!StoreResult, Stages
  <2> QED
    BY <1>1, <1>2, <1>5, <2>1, <2>2, StageKeeps
<1>8. CASE Kafka!HandlerReturns
  <2>1. Kafka!Acked(c) /\ consumer[c].stage = "stored"
    BY <1>8 DEF Kafka!HandlerReturns, Kafka!Handling
  <2>2. results'[at] \in Invocations => at \in stored'
    BY <1>2, <1>3, <2>1 DEF TopicInv, TopicsGrow
  <2> QED
    BY <1>1, <1>2, <1>5, <2>1, <2>2, ReturnKeeps
<1>9. CASE Kafka!HandlerFails
  <2>1. Kafka!At(c, "idle") /\ "idle" \in Stages
    BY <1>9 DEF Kafka!HandlerFails, Kafka!Refused, Kafka!At, Stages
  <2> QED
    BY <1>1, <1>2, <1>5, <2>1, StageKeeps
<1>10. CASE Kafka!DropResult
  <2>1. Kafka!Acked(c) /\ results'[at] \notin Invocations
    BY <1>3, <1>6, <1>10 DEF Kafka!DropResult
  <2> QED
    BY <1>1, <1>2, <1>5, <2>1, ReturnKeeps
<1> QED
  BY <1>7, <1>8, <1>9, <1>10

(* What an agent sends is an answer to the task it has.                    *)
LEMMA SentIsAnswer ==
    ASSUME TopicInv, Kafka!Message("agent") \in Messages, Kafka!Sent
    PROVE  /\ results' \in Seq(Messages) /\ Len(results) <= Len(results')
           /\ \A n \in 1..Len(results) : results'[n] = results[n]
           /\ \E k \in 1..Len(results') : results'[k] = Kafka!Message("agent")
<1>1. results \in Seq(Messages) /\ results' = Append(results, Kafka!Message("agent"))
  BY DEF TopicInv, Kafka!Sent
<1>2. /\ results' \in Seq(Messages)
      /\ Len(results) \in Nat /\ Len(results') = Len(results) + 1
      /\ results'[Len(results')] = Kafka!Message("agent")
      /\ \A n \in 1..Len(results) : results'[n] = results[n]
  BY <1>1, AppendGrows
<1>3. Len(results') \in 1..Len(results')
  BY <1>2
<1> QED
  BY <1>2, <1>3

(* The agent's handler runs a task, answers it, or gives the answer up.    *)
LEMMA TaskHandlerKeeps ==
    ASSUME TopicInv,
           \/ Kafka!DropTask \/ Kafka!PublishSuccessFails \/ Kafka!PublishFailureFails
           \/ \E end \in {"succeeded", "failed"} :
                  Kafka!RunnerEnds(end) \/ Kafka!PublishResult(end)
    PROVE  TopicInv'
<1> DEFINE c == "agent"
           at == consumer["agent"].position
<1>1. c \in Kafka!Consumers /\ c # "orchestrator"
  BY DEF Kafka!Consumers
<1>2. UNCHANGED <<tasks, stored>> /\ unpublished \subseteq unpublished'
  BY DEF Kafka!DropTask, Kafka!PublishSuccessFails, Kafka!PublishFailureFails, Kafka!RunnerEnds,
         Kafka!PublishResult
<1>3. \E stage \in {"handling", "succeeded", "failed"} : Kafka!Handling(c, stage)
  BY DEF Kafka!DropTask, Kafka!PublishSuccessFails, Kafka!PublishFailureFails, Kafka!RunnerEnds,
         Kafka!PublishResult
<1>4. consumer[c].stage # "idle" /\ Kafka!Message(c) \in Messages
  BY <1>1, <1>3, MessageAtHand
<1>5. Kafka!Message(c) = tasks'[at]
  BY <1>2 DEF Kafka!Message, Kafka!Log
<1>6. Kafka!Sent \/ UNCHANGED results
  BY DEF Kafka!DropTask, Kafka!PublishSuccessFails, Kafka!PublishFailureFails, Kafka!RunnerEnds,
         Kafka!PublishResult
<1>7. TopicsGrow
  <2>1. tasks' \in Seq(Messages) /\ Len(tasks) <= Len(tasks')
        /\ \A n \in 1..Len(tasks) : tasks'[n] = tasks[n]
    BY <1>2 DEF TopicInv
  <2>2. results' \in Seq(Messages) /\ Len(results) <= Len(results')
        /\ \A n \in 1..Len(results) : results'[n] = results[n]
    <3>1. CASE UNCHANGED results
      BY <3>1 DEF TopicInv
    <3>2. CASE Kafka!Sent
      BY <1>4, <3>2, SentIsAnswer
    <3> QED
      BY <1>6, <3>1, <3>2
  <2> QED
    BY <1>2, <2>1, <2>2 DEF TopicsGrow
<1>8. Kafka!Sent => \E k \in 1..Len(results') : results'[k] = tasks'[at]
  BY <1>4, <1>5, SentIsAnswer
<1>9. CASE Kafka!DropTask
  <2>1. Kafka!Acked(c) /\ tasks'[at] \notin Invocations
    BY <1>5, <1>9 DEF Kafka!DropTask
  <2> QED
    BY <1>1, <1>4, <1>7, <2>1, ReturnKeeps
<1>10. CASE Kafka!PublishSuccessFails
  <2>1. Kafka!At(c, "failed") /\ "failed" \in Stages
    BY <1>10 DEF Kafka!PublishSuccessFails, Stages
  <2> QED
    BY <1>1, <1>4, <1>7, <2>1, StageKeeps
<1>11. CASE Kafka!PublishFailureFails
  <2>1. Kafka!Acked(c) /\ (Kafka!Sent \/ at \in unpublished')
    BY <1>11 DEF Kafka!PublishFailureFails
  <2> QED
    BY <1>1, <1>4, <1>7, <1>8, <2>1, ReturnKeeps
<1>12. ASSUME NEW end \in {"succeeded", "failed"}, Kafka!RunnerEnds(end)
       PROVE  TopicInv'
  <2>1. Kafka!At(c, end) /\ end \in Stages
    BY <1>12 DEF Kafka!RunnerEnds, Stages
  <2> QED
    BY <1>1, <1>4, <1>7, <2>1, StageKeeps
<1>13. ASSUME NEW end \in {"succeeded", "failed"}, Kafka!PublishResult(end)
       PROVE  TopicInv'
  <2>1. Kafka!Acked(c) /\ Kafka!Sent
    BY <1>13 DEF Kafka!PublishResult
  <2> QED
    BY <1>1, <1>4, <1>7, <1>8, <2>1, ReturnKeeps
<1> QED
  BY <1>9, <1>10, <1>11, <1>12, <1>13

(* The orchestrator publishes, or somebody else does.                      *)
LEMMA WritersKeep ==
    ASSUME TopicInv, Kafka!WriteForeign \/ \E i \in Invocations : Kafka!Invoke(i)
    PROVE  TopicInv'
<1>1. UNCHANGED <<consumer, stored, unpublished>>
  BY DEF Kafka!WriteForeign, Kafka!Invoke
<1>2. /\ tasks \in Seq(Messages) /\ results \in Seq(Messages)
      /\ \/ UNCHANGED tasks
         \/ \E message \in Messages : tasks' = Append(tasks, message)
      /\ \/ UNCHANGED results
         \/ \E message \in Messages : results' = Append(results, message)
  BY DEF TopicInv, Kafka!WriteForeign, Kafka!Invoke, Messages
<1>3. /\ tasks' \in Seq(Messages) /\ Len(tasks) <= Len(tasks')
      /\ \A n \in 1..Len(tasks) : tasks'[n] = tasks[n]
  <2>1. CASE UNCHANGED tasks
    BY <1>2, <2>1
  <2>2. ASSUME NEW message \in Messages, tasks' = Append(tasks, message)
        PROVE  /\ tasks' \in Seq(Messages) /\ Len(tasks) <= Len(tasks')
               /\ \A n \in 1..Len(tasks) : tasks'[n] = tasks[n]
    <3>1. /\ tasks' \in Seq(Messages) /\ Len(tasks) \in Nat /\ Len(tasks') = Len(tasks) + 1
          /\ \A n \in 1..Len(tasks) : tasks'[n] = tasks[n]
      BY <1>2, <2>2, AppendGrows
    <3> QED
      BY <3>1
  <2> QED
    BY <1>2, <2>1, <2>2
<1>4. /\ results' \in Seq(Messages) /\ Len(results) <= Len(results')
      /\ \A n \in 1..Len(results) : results'[n] = results[n]
  <2>1. CASE UNCHANGED results
    BY <1>2, <2>1
  <2>2. ASSUME NEW message \in Messages, results' = Append(results, message)
        PROVE  /\ results' \in Seq(Messages) /\ Len(results) <= Len(results')
               /\ \A n \in 1..Len(results) : results'[n] = results[n]
    <3>1. /\ results' \in Seq(Messages) /\ Len(results) \in Nat
          /\ Len(results') = Len(results) + 1
          /\ \A n \in 1..Len(results) : results'[n] = results[n]
      BY <1>2, <2>2, AppendGrows
    <3> QED
      BY <3>1
  <2> QED
    BY <1>2, <2>1, <2>2
<1>5. TopicsGrow
  BY <1>1, <1>3, <1>4 DEF TopicsGrow
<1> QED
  BY <1>1, <1>5, ProducerKeeps

(* Every step of the broker's clients keeps the offsets and what they say. *)
LEMMA TopicStep == TopicInv /\ [Kafka!Next]_(Kafka!vars) => TopicInv'
<1> SUFFICES ASSUME TopicInv, [Kafka!Next]_(Kafka!vars) PROVE TopicInv'
  OBVIOUS
<1>1. ASSUME NEW c \in Kafka!Consumers,
             Kafka!Join(c) \/ Kafka!Poll(c) \/ Kafka!Leave(c) \/ Kafka!Crash(c)
      PROVE  TopicInv'
  BY <1>1, ClientKeeps
<1>2. CASE Kafka!WriteForeign \/ \E i \in Invocations : Kafka!Invoke(i)
  BY <1>2, WritersKeep
<1>3. CASE \/ Kafka!StoreResult \/ Kafka!HandlerReturns \/ Kafka!HandlerFails
           \/ Kafka!DropResult
  BY <1>3, ResultHandlerKeeps
<1>4. CASE \/ Kafka!DropTask \/ Kafka!PublishSuccessFails \/ Kafka!PublishFailureFails
           \/ \E s \in {"succeeded", "failed"} : Kafka!RunnerEnds(s) \/ Kafka!PublishResult(s)
  BY <1>4, TaskHandlerKeeps
<1>5. CASE UNCHANGED Kafka!vars
  <2>1. UNCHANGED <<tasks, results, consumer, stored, unpublished>>
    BY <1>5 DEF Kafka!vars
  <2>2. TopicsGrow
    BY <2>1 DEF TopicInv, TopicsGrow
  <2> QED
    BY <2>1, <2>2, ProducerKeeps
<1> QED
  BY <1>1, <1>2, <1>3, <1>4, <1>5 DEF Kafka!Next

(* Offsets tell which messages a group accounted for: what lies between    *)
(* where it joined and where it stands was stored or answered.             *)
THEOREM TopicsAreAccountedFor == Kafka!Spec => []TopicInv
  BY TopicStart, TopicStep, PTL DEF Kafka!Spec

(* No result that the orchestrator's group has read is passed over without *)
(* being stored, and no task that an agent's group has read is left        *)
(* without an answer in the log, unless the answer could not be sent --    *)
(* however often consumers die, rejoin, are handed a message again or have *)
(* a commit lag behind (kafka-agent.adapter.ts, kafka.service.ts).         *)
THEOREM TopicsAreRead == Kafka!Spec => []NothingIsSkipped
<1>1. TopicInv => NothingIsSkipped
  BY DEF TopicInv, NothingIsSkipped
<1> QED
  BY <1>1, TopicsAreAccountedFor, PTL
-----------------------------------------------------------------------------
(* The event stream of an invocation. *)

(* Foreign events bear the number of no run, times are times.              *)
EventConstants ==
    /\ \A e \in Foreign : e \in [id : Nat, seq : Nat, type : Events!Types, run : {0}]
    /\ EventTime \in Nat /\ StartupGrace \in Nat /\ StaleAfter \in Nat

AttemptColumns ==
    [status : {"CREATED", "DISPATCHED", "RUNNING", "TERMINAL"}, dispatchedAt : Nat, startTime : Nat,
     acceptedAt : Nat, lastEvent : Nat, lastHeartbeat : Nat]

(* What a worker emits is numbered by its run, and no number is used twice *)
(* in a run.                                                               *)
Numbered ==
    /\ \A e \in emitted :
           /\ e \in [id : Nat, seq : Nat, type : Events!Types, run : 1..invoked]
           /\ e.id = e.seq
           /\ e.run = invoked => e.seq < sequence
    /\ \A e, o \in emitted : e.run = o.run /\ e.seq = o.seq => e = o

(* What is stored was emitted, once; what is in conflict meets a stored    *)
(* event that another run emitted, or foreign.                             *)
StoredOnce ==
    /\ \A r \in rows : r.at \in 1..clock /\ r.stored \in 1..clock /\ r.event \in emitted
    /\ \A r, q \in rows : r.event.id = q.event.id \/ r.event.seq = q.event.seq => r = q
    /\ \A e \in conflicts : \E r \in rows :
           /\ r.event.id = e.id \/ r.event.seq = e.seq
           /\ e \in Foreign \/ r.event.run # e.run

(* The heartbeats among the rows that moved the columns.                   *)
Beats == Events!LiveRows({"heartbeat"})

(* Each column is the time of an event of its kind, the one that liveness  *)
(* is measured from that of the last to be stored.                         *)
ColumnsTell ==
    /\ att.acceptedAt \in Events!Times(Events!LiveRows({"accepted"})) \cup {Events!Null}
    /\ att.lastHeartbeat \in Events!Times(Beats) \cup {Events!Null}
    /\ att.lastEvent = Events!Null <=> Events!LiveRows(Events!Types) = {}
    /\ att.lastHeartbeat = Events!Null <=> Beats = {}
    /\ \A r \in Beats : \E q \in Beats : q.stored >= r.stored /\ q.at = att.lastHeartbeat
    /\ att.status = "RUNNING" => Events!Started # {}
    /\ att.startTime # Events!Null => \E r \in Events!Started : r.stored = att.startTime
    /\ Events!Started # {} => att.startTime # Events!Null
    /\ Events!Live => \A r \in rows : r.status # Events!Terminal

EventInv ==
    /\ clock \in Nat \ {0} /\ invoked \in Nat \ {0} /\ sequence \in Nat
    /\ att \in AttemptColumns
    /\ verdict = [p \in Replicas |-> verdict[p]]
    /\ emitted = Foreign \/ Numbered
    /\ \A h \in handling : h.at \in 1..clock /\ h.body \in emitted \cup {Events!Result}
    /\ StoredOnce
    /\ ColumnsTell

(* Nothing has been emitted at first, or all that a foreign runtime will.  *)
LEMMA EventStart == EventConstants /\ Events!Init => EventInv
<1> SUFFICES ASSUME EventConstants, Events!Init PROVE EventInv
  OBVIOUS
<1>1. /\ clock = 1 /\ invoked = 1 /\ sequence = 0 /\ handling = {} /\ rows = {}
      /\ conflicts = {} /\ emitted \in {{}, Foreign}
      /\ att = [status |-> "CREATED", dispatchedAt |-> 0, startTime |-> 0,
                acceptedAt |-> 0, lastEvent |-> 0, lastHeartbeat |-> 0]
      /\ verdict = [p \in Replicas |-> Events!NoVerdict]
  BY DEF Events!Init, Events!Null
<1>2. att \in AttemptColumns /\ verdict = [p \in Replicas |-> verdict[p]]
  BY <1>1 DEF AttemptColumns
<1>3. emitted = Foreign \/ Numbered
  BY <1>1 DEF Numbered
<1>4. StoredOnce
  BY <1>1 DEF StoredOnce
<1>5. ColumnsTell
  BY <1>1 DEF ColumnsTell, Events!Times, Events!LiveRows, Events!Started, Beats,
         Events!Null
<1> QED
  BY <1>1, <1>2, <1>3, <1>4, <1>5 DEF EventInv

(* The columns are as good as long as they, the rows and their meaning     *)
(* stay.                                                                   *)
LEMMA ColumnsStay == ColumnsTell /\ UNCHANGED <<rows, att>> => ColumnsTell'
  BY DEF ColumnsTell, Events!Times, Events!LiveRows, Events!Started, Beats,
         Events!Null, Events!Live,
         Events!Types, Events!Activity, Events!Terminal

(* A receipt and an end leave the columns that events move.                *)
LEMMA StatusChanges ==
    ASSUME ColumnsTell, att \in AttemptColumns, UNCHANGED rows,
           \/ att' = att
           \/ att' = [att EXCEPT !.status = Events!Terminal]
           \/ /\ Events!Live /\ clock \in Nat
              /\ att' = [att EXCEPT !.status = "DISPATCHED", !.dispatchedAt = clock]
    PROVE  ColumnsTell' /\ att' \in AttemptColumns
<1>1. CASE att' = att
  BY <1>1, ColumnsStay
<1>2. CASE att' # att
  <2>1. /\ att' \in AttemptColumns /\ att'.acceptedAt = att.acceptedAt
        /\ att'.lastHeartbeat = att.lastHeartbeat /\ att'.lastEvent = att.lastEvent
        /\ att'.startTime = att.startTime
        /\ att'.status # "RUNNING" /\ (Events!Live' => Events!Live)
    BY <1>2 DEF AttemptColumns, Events!Terminal, Events!Live
  <2>2. UNCHANGED <<Events!LiveRows({"accepted"}), Beats, Events!LiveRows(Events!Types),
                    Events!Started>>
    BY DEF Events!LiveRows, Beats, Events!Started, Events!Types, Events!Activity,
           Events!Terminal
  <2> QED
    BY <2>1, <2>2 DEF ColumnsTell, Events!Times, Events!Null, Events!Terminal
<1> QED
  BY <1>1, <1>2

(* Time passes, callbacks come and go.                                     *)
LEMMA CallbacksKeep ==
    ASSUME EventInv,
           Events!Tick \/ (\E e \in Events!Sent : Events!Arrive(e))
           \/ (\E h \in handling : Events!CallbackFails(h))
           \/ (\E p \in Replicas : Events!Evaluate(p)) \/ UNCHANGED Events!vars
    PROVE  EventInv'
<1>1. UNCHANGED <<invoked, sequence, emitted, rows, conflicts, att>>
  BY DEF Events!Tick, Events!Arrive, Events!CallbackFails, Events!Evaluate, Events!vars,
         Events!worker, Events!store
<1>2. clock' \in {clock, clock + 1} /\ clock \in Nat \ {0}
  BY DEF Events!Tick, Events!Arrive, Events!CallbackFails, Events!Evaluate, Events!vars,
         EventInv
<1>3. \A h \in handling' :
          h \in handling \/ (h.at = clock /\ h.body \in emitted \cup {Events!Result})
  <2>1. ASSUME NEW e \in Events!Sent, Events!Arrive(e)
        PROVE  \A h \in handling' : h \in handling \/ (h.at = clock /\ h.body \in Events!Sent)
    BY <2>1 DEF Events!Arrive
  <2>2. Events!Sent \subseteq emitted \cup {Events!Result}
    BY DEF Events!Sent
  <2>3. CASE handling' \subseteq handling
    BY <2>3
  <2> QED
    BY <2>1, <2>2, <2>3 DEF Events!Tick, Events!CallbackFails, Events!Evaluate, Events!vars
<1>4. verdict' = [p \in Replicas |-> verdict'[p]]
  <2>1. verdict = [p \in Replicas |-> verdict[p]]
    BY DEF EventInv
  <2>2. CASE \E p \in Replicas : Events!Evaluate(p)
    BY <2>1, <2>2 DEF Events!Evaluate
  <2>3. CASE UNCHANGED verdict
    BY <2>1, <2>3
  <2> QED
    BY <2>2, <2>3 DEF Events!Tick, Events!Arrive, Events!CallbackFails, Events!vars
<1>5. \A h \in handling' : h.at \in 1..clock' /\ h.body \in emitted \cup {Events!Result}
  BY <1>2, <1>3 DEF EventInv
<1>6. (emitted = Foreign \/ Numbered)'
  BY <1>1 DEF EventInv, Numbered
<1>7. StoredOnce'
  BY <1>1, <1>2 DEF EventInv, StoredOnce
<1>8. ColumnsTell'
  BY <1>1, ColumnsStay DEF EventInv
<1>9. clock' \in Nat \ {0}
  BY <1>2
<1> QED
  BY <1>1, <1>4, <1>5, <1>6, <1>7, <1>8, <1>9 DEF EventInv, Events!Result

(* A run gives its events the numbers that are left.                       *)
LEMMA WorkerKeeps ==
    ASSUME EventInv,
           \/ Events!EmitAccepted \/ Events!Execute \/ Events!EmitActivity
           \/ Events!SendResult \/ Events!EmitTerminal \/ Events!RunAgain
    PROVE  EventInv'
<1>1. UNCHANGED <<clock, handling, rows, conflicts, att, verdict>>
  BY DEF Events!EmitAccepted, Events!Execute, Events!EmitActivity, Events!SendResult,
         Events!EmitTerminal, Events!RunAgain, Events!store
<1>2. /\ invoked \in Nat \ {0} /\ sequence \in Nat
      /\ emitted = Foreign \/ Numbered
  BY DEF EventInv
<1>3. /\ (emitted = Foreign \/ Numbered)' /\ emitted \subseteq emitted'
      /\ invoked' \in Nat \ {0} /\ sequence' \in Nat
  <2>1. CASE UNCHANGED <<invoked, sequence, emitted>>
    BY <1>2, <2>1 DEF Numbered
  <2>2. ASSUME NEW type \in Events!Types, Events!Emits(type), UNCHANGED invoked
        PROVE  Numbered' /\ emitted \subseteq emitted' /\ sequence' \in Nat
    <3>1. PICK fresh : fresh = [id |-> sequence, seq |-> sequence, type |-> type,
                                run |-> invoked]
      OBVIOUS
    <3>2. emitted' = emitted \cup {fresh} /\ sequence' = sequence + 1
      BY <2>2, <3>1 DEF Events!Emits, Events!Numbers
    <3>3. Numbered
      <4>1. emitted = Foreign => emitted = {}
        BY <2>2 DEF Events!Emits
      <4> QED
        BY <1>2, <4>1 DEF Numbered
    <3>4. /\ fresh \in [id : Nat, seq : Nat, type : Events!Types, run : 1..invoked]
          /\ fresh.id = sequence /\ fresh.seq = sequence /\ fresh.run = invoked
      BY <1>2, <3>1
    <3>5. \A e \in emitted : /\ e \in [id : Nat, seq : Nat, type : Events!Types, run : 1..invoked]
                             /\ e.id = e.seq
                             /\ e.run = invoked => e.seq < sequence
      BY <3>3 DEF Numbered
    <3>6. \A e \in emitted' :
              /\ e \in [id : Nat, seq : Nat, type : Events!Types, run : 1..invoked']
              /\ e.id = e.seq
              /\ e.run = invoked' => e.seq < sequence'
      BY <1>2, <2>2, <3>2, <3>4, <3>5
    <3>7. \A e, o \in emitted' : e.run = o.run /\ e.seq = o.seq => e = o
      BY <1>2, <3>2, <3>3, <3>4, <3>5 DEF Numbered
    <3> QED
      BY <1>2, <3>2, <3>6, <3>7 DEF Numbered
  <2>3. CASE Events!RunAgain
    <3>1. /\ emitted' = emitted /\ invoked' = invoked + 1 /\ sequence' = 0
          /\ emitted \cap Foreign = {}
      BY <2>3 DEF Events!RunAgain
    <3>2. Numbered
      BY <1>2, <3>1 DEF Numbered
    <3>3. Numbered'
      <4>1. \A e \in emitted : /\ e \in [id : Nat, seq : Nat, type : Events!Types,
                                         run : 1..invoked]
                               /\ e.id = e.seq
        BY <3>2 DEF Numbered
      <4>2. \A e \in emitted :
                /\ e \in [id : Nat, seq : Nat, type : Events!Types, run : 1..(invoked + 1)]
                /\ e.id = e.seq /\ e.run # invoked + 1
        BY <1>2, <4>1
      <4> QED
        BY <3>1, <3>2, <4>2 DEF Numbered
    <3> QED
      BY <1>2, <3>1, <3>3
  <2> QED
    BY <1>2, <2>1, <2>2, <2>3 DEF Events!EmitAccepted, Events!Execute, Events!EmitActivity,
         Events!SendResult, Events!EmitTerminal, Events!Types, Events!Activity
<1>4. StoredOnce'
  BY <1>1, <1>3 DEF EventInv, StoredOnce
<1>5. ColumnsTell'
  BY <1>1, ColumnsStay DEF EventInv
<1> QED
  BY <1>1, <1>3, <1>4, <1>5 DEF EventInv, Events!Result

(* A result, a timeout and an operator end the attempt, whatever comes     *)
(* later; a receipt finds it created.                                      *)
LEMMA EndsKeep ==
    ASSUME EventInv,
           (\E h \in handling : Events!ApplyResult(h)) \/ Events!Cancel \/ Events!Receipt
           \/ (\E p \in Replicas : Events!ApplyTimeout(p))
    PROVE  EventInv'
<1>1. /\ UNCHANGED <<clock, invoked, sequence, emitted, rows, conflicts>>
      /\ handling' \subseteq handling
      /\ \/ att' = att
         \/ att' = [att EXCEPT !.status = Events!Terminal]
         \/ /\ Events!Live /\ clock \in Nat
            /\ att' = [att EXCEPT !.status = "DISPATCHED", !.dispatchedAt = clock]
  BY DEF Events!ApplyResult, Events!Cancel, Events!ApplyTimeout, Events!Receipt,
         Events!worker, Events!Live, Events!Terminal, EventInv
<1>2. verdict' = [p \in Replicas |-> verdict'[p]]
  <2>1. verdict = [p \in Replicas |-> verdict[p]]
    BY DEF EventInv
  <2>2. CASE \E p \in Replicas : Events!ApplyTimeout(p)
    BY <2>1, <2>2 DEF Events!ApplyTimeout
  <2>3. CASE UNCHANGED verdict
    BY <2>1, <2>3
  <2> QED
    BY <2>2, <2>3 DEF Events!ApplyResult, Events!Cancel, Events!Receipt
<1>3. ColumnsTell' /\ att' \in AttemptColumns
  BY <1>1, StatusChanges DEF EventInv
<1>4. (emitted = Foreign \/ Numbered)' /\ StoredOnce'
  BY <1>1 DEF EventInv, Numbered, StoredOnce
<1> QED
  BY <1>1, <1>2, <1>3, <1>4 DEF EventInv, Events!Result

(* Two events with one number are the same, or of different runs, or       *)
(* foreign.                                                                *)
LEMMA OneNumberOneEvent ==
    ASSUME EventConstants, EventInv, NEW e \in emitted, NEW o \in emitted,
           e.id = o.id \/ e.seq = o.seq
    PROVE  e = o \/ e \in Foreign \/ o.run # e.run
<1>1. CASE emitted = Foreign
  BY <1>1
<1>2. CASE Numbered
  BY <1>2 DEF Numbered
<1> QED
  BY <1>1, <1>2 DEF EventInv

(* What is emitted is an event.                                            *)
LEMMA EventsAreEvents ==
    ASSUME EventConstants, EventInv
    PROVE  \A e \in emitted : e.type \in Events!Types
<1>1. CASE emitted = Foreign
  BY <1>1 DEF EventConstants
<1>2. CASE Numbered
  BY <1>2 DEF Numbered
<1> QED
  BY <1>1, <1>2 DEF EventInv

(* An event that is stored while the attempt lives moves its columns.      *)
LEMMA ProjectionKeeps ==
    ASSUME EventInv, NEW e, e.type \in Events!Types, NEW at \in 1..clock,
           NEW row, row = [at |-> at, stored |-> clock, event |-> e, status |-> att.status],
           Events!Live, rows' = rows \cup {row}, att' = Events!Projected(e, at)
    PROVE  ColumnsTell' /\ att' \in AttemptColumns
<1> DEFINE starts == e.type \in Events!Activity /\ att.status = "DISPATCHED"
<1>1. /\ clock \in Nat \ {0} /\ att \in AttemptColumns /\ ColumnsTell
      /\ \A r \in rows : r.at \in 1..clock /\ r.stored \in 1..clock
      /\ row.at = at /\ row.event = e /\ row.stored = clock /\ row.status = att.status
  BY DEF EventInv, StoredOnce
<1>2. att.status \in {"CREATED", "DISPATCHED", "RUNNING"}
  BY <1>1 DEF AttemptColumns, Events!Live, Events!Terminal
<1>3. /\ att'.lastEvent = at
      /\ att'.acceptedAt = IF e.type = "accepted" THEN at ELSE att.acceptedAt
      /\ att'.lastHeartbeat = IF e.type = "heartbeat" THEN at ELSE att.lastHeartbeat
      /\ att'.status = IF starts THEN "RUNNING" ELSE att.status
      /\ att'.startTime = IF starts /\ att.startTime = 0 THEN clock ELSE att.startTime
      /\ att'.dispatchedAt = att.dispatchedAt
      /\ att' = [status |-> att'.status, dispatchedAt |-> att'.dispatchedAt,
                 startTime |-> att'.startTime, acceptedAt |-> att'.acceptedAt,
                 lastEvent |-> att'.lastEvent, lastHeartbeat |-> att'.lastHeartbeat]
  BY <1>1 DEF Events!Projected, AttemptColumns, Events!Null
<1>4. att' \in AttemptColumns
  <2>1. /\ att'.status \in {"CREATED", "DISPATCHED", "RUNNING"} /\ att'.dispatchedAt \in Nat
        /\ att'.startTime \in Nat /\ att'.acceptedAt \in Nat /\ att'.lastEvent \in Nat
        /\ att'.lastHeartbeat \in Nat
    BY <1>1, <1>2, <1>3 DEF AttemptColumns
  <2> QED
    BY <1>3, <2>1 DEF AttemptColumns
<1>5. row.status # Events!Terminal
  BY <1>1, <1>2 DEF Events!Terminal
<1>6. /\ Events!LiveRows({"accepted"})' = IF e.type = "accepted"
             THEN Events!LiveRows({"accepted"}) \cup {row} ELSE Events!LiveRows({"accepted"})
      /\ Beats' = IF e.type = "heartbeat" THEN Beats \cup {row} ELSE Beats
      /\ row \in Events!LiveRows(Events!Types)'
      /\ Events!Started' = IF e.type \in Events!Activity /\ att.status # "CREATED"
                           THEN Events!Started \cup {row} ELSE Events!Started
  BY <1>1, <1>5 DEF Beats, Events!LiveRows, Events!Started, Events!Types, Events!Activity,
     Events!Terminal
<1>7. Events!LiveRows(Events!Types)' # {} /\ att'.lastEvent # 0
  BY <1>1, <1>3, <1>6
<1>8. /\ att'.acceptedAt \in Events!Times(Events!LiveRows({"accepted"}))' \cup {0}
      /\ att'.lastHeartbeat \in Events!Times(Beats)' \cup {0}
      /\ att'.lastHeartbeat = 0 <=> Beats' = {}
      /\ \A r \in Beats' : \E q \in Beats' :
             q.stored >= r.stored /\ q.at = att'.lastHeartbeat
  <2>1. att'.acceptedAt \in Events!Times(Events!LiveRows({"accepted"}))' \cup {0}
    BY <1>1, <1>3, <1>6 DEF Events!Times, ColumnsTell, Events!Null
  <2>2. CASE e.type # "heartbeat"
    BY <1>1, <1>3, <1>6, <2>1, <2>2 DEF Events!Times, ColumnsTell, Events!Null
  <2>3. CASE e.type = "heartbeat"
    <3>1. row \in Beats' /\ row.at = att'.lastHeartbeat /\ att'.lastHeartbeat # 0
      BY <1>1, <1>3, <1>6, <2>3
    <3>2. \A r \in Beats' : row.stored >= r.stored
      BY <1>1, <1>6 DEF Beats, Events!LiveRows
    <3> QED
      BY <2>1, <3>1, <3>2 DEF Events!Times
  <2> QED
    BY <2>2, <2>3
<1>9. /\ att'.status = "RUNNING" => Events!Started' # {}
      /\ att'.startTime # 0 => \E r \in Events!Started' : r.stored = att'.startTime
      /\ Events!Started' # {} => att'.startTime # 0
  <2>1. CASE starts /\ att.startTime = 0
    BY <1>1, <1>3, <1>6, <2>1
  <2>2. CASE ~(starts /\ att.startTime = 0)
    <3>1. att'.startTime = att.startTime /\ Events!Started \subseteq Events!Started'
      BY <1>3, <1>6, <2>2
    <3>2. att'.status = "RUNNING" => att.startTime # 0
      BY <1>1, <1>3, <2>2 DEF ColumnsTell, Events!Null
    <3>3. Events!Started' # {} => att.startTime # 0
      <4>1. CASE Events!Started' = Events!Started
        BY <1>1, <4>1 DEF ColumnsTell, Events!Null
      <4>2. CASE e.type \in Events!Activity /\ att.status # "CREATED"
        BY <1>1, <1>2, <2>2, <4>2 DEF ColumnsTell, Events!Null
      <4> QED
        BY <1>6, <4>1, <4>2
    <3> QED
      BY <1>1, <3>1, <3>2, <3>3 DEF ColumnsTell, Events!Null
  <2> QED
    BY <2>1, <2>2
<1>10. Events!Live' => \A r \in rows' : r.status # Events!Terminal
  BY <1>1, <1>5 DEF ColumnsTell
<1> QED
  BY <1>4, <1>7, <1>8, <1>9, <1>10 DEF ColumnsTell, Events!Null, Events!Terminal

(* An event that is stored when the attempt is over is history only.       *)
LEMMA LateEventKeeps ==
    ASSUME EventInv, NEW e, NEW at, ~Events!Live, att' = att, NEW row,
           row = [at |-> at, stored |-> clock, event |-> e, status |-> att.status],
           rows' = rows \cup {row}
    PROVE  ColumnsTell'
<1>1. row.status = Events!Terminal
  BY DEF Events!Live
<1>2. /\ ~Events!Live'
      /\ Events!LiveRows({"accepted"})' = Events!LiveRows({"accepted"})
      /\ Beats' = Beats
      /\ Events!LiveRows(Events!Types)' = Events!LiveRows(Events!Types)
      /\ Events!Started' = Events!Started
  BY <1>1 DEF Beats, Events!LiveRows, Events!Started, Events!Live, Events!Terminal,
     Events!Types, Events!Activity
<1> QED
  BY <1>2 DEF EventInv, ColumnsTell, Events!Times, Events!Null

(* A callback is applied under the lock of the attempt.                    *)
LEMMA ApplyEventKeeps ==
    ASSUME EventConstants, EventInv, NEW h \in handling, Events!ApplyEvent(h)
    PROVE  EventInv'
<1>1. PICK e, at : e = h.body /\ at = h.at
  OBVIOUS
<1> DEFINE row == [at |-> at, stored |-> clock, event |-> e, status |-> att.status]
<1>2. e \in emitted /\ at \in 1..clock /\ clock \in 1..clock
  BY <1>1 DEF EventInv, Events!ApplyEvent
<1>3. /\ UNCHANGED <<clock, invoked, sequence, emitted, verdict>>
      /\ handling' \subseteq handling
  BY DEF Events!ApplyEvent, Events!worker
<1>4. \/ UNCHANGED <<rows, conflicts, att>>
      \/ /\ Events!SameId(e) \cup Events!SameSequence(e) # {}
         /\ \A r \in Events!SameId(e) : r.event # e
         /\ conflicts' = conflicts \cup {e}
         /\ UNCHANGED <<rows, att>>
      \/ /\ Events!SameId(e) \cup Events!SameSequence(e) = {}
         /\ rows' = rows \cup {row}
         /\ att' = IF Events!Live THEN Events!Projected(e, at) ELSE att
         /\ UNCHANGED conflicts
  BY <1>1 DEF Events!ApplyEvent, Events!store
<1>5. StoredOnce'
  <2>1. CASE UNCHANGED <<rows, conflicts, att>>
    BY <1>3, <2>1 DEF EventInv, StoredOnce
  <2>2. CASE /\ Events!SameId(e) \cup Events!SameSequence(e) # {}
             /\ \A r \in Events!SameId(e) : r.event # e
             /\ conflicts' = conflicts \cup {e}
             /\ UNCHANGED <<rows, att>>
    <3>1. PICK r \in rows : r.event.id = e.id \/ r.event.seq = e.seq
      BY <2>2 DEF Events!SameId, Events!SameSequence
    <3>2. r.event \in emitted /\ r.event # e
      BY <2>2, <3>1 DEF EventInv, StoredOnce, Events!SameId
    <3>3. e \in Foreign \/ r.event.run # e.run
      BY <1>2, <3>1, <3>2, OneNumberOneEvent
    <3> QED
      BY <1>3, <2>2, <3>1, <3>3 DEF EventInv, StoredOnce
  <2>3. CASE /\ Events!SameId(e) \cup Events!SameSequence(e) = {}
             /\ rows' = rows \cup {row}
             /\ UNCHANGED conflicts
    <3>1. PICK new : new = row
      OBVIOUS
    <3>2. rows' = rows \cup {new} /\ new.at = at /\ new.stored = clock /\ new.event = e
      BY <2>3, <3>1
    <3>3. \A r \in rows : r.event.id # e.id /\ r.event.seq # e.seq
      BY <2>3 DEF Events!SameId, Events!SameSequence
    <3>4. /\ \A r \in rows' : r.at \in 1..clock' /\ r.stored \in 1..clock' /\ r.event \in emitted'
          /\ \A r, q \in rows' : r.event.id = q.event.id \/ r.event.seq = q.event.seq => r = q
      BY <1>2, <1>3, <3>2, <3>3 DEF EventInv, StoredOnce
    <3> QED
      BY <2>3, <3>2, <3>4 DEF EventInv, StoredOnce
  <2> QED
    BY <1>4, <2>1, <2>2, <2>3
<1>6. ColumnsTell' /\ att' \in AttemptColumns
  <2>1. CASE UNCHANGED <<rows, att>>
    BY <2>1, ColumnsStay DEF EventInv
  <2>2. CASE /\ rows' = rows \cup {row}
             /\ att' = IF Events!Live THEN Events!Projected(e, at) ELSE att
    <3>1. CASE Events!Live
      BY <1>2, <2>2, <3>1, EventsAreEvents, ProjectionKeeps
    <3>2. CASE ~Events!Live
      BY <2>2, <3>2, LateEventKeeps DEF EventInv
    <3> QED
      BY <3>1, <3>2
  <2> QED
    BY <1>4, <2>1, <2>2
<1>7. (emitted = Foreign \/ Numbered)'
  BY <1>3 DEF EventInv, Numbered
<1> QED
  BY <1>3, <1>5, <1>6, <1>7 DEF EventInv, Events!Result

(* Whatever steps the worker, its callbacks and supervision take.          *)
LEMMA EventStep ==
    EventConstants /\ EventInv /\ [Events!Next]_(Events!vars) => EventInv'
  BY CallbacksKeep, WorkerKeeps, EndsKeep, ApplyEventKeeps DEF Events!Next

(* Events are numbered once per run, stored once, and the columns of the   *)
(* attempt are the times of stored events.                                 *)
THEOREM EventsAreNumbered ==
    ASSUME EventConstants
    PROVE  Events!Spec => []EventInv
<1>1. Events!Init => EventInv
  BY EventStart
<1>2. EventInv /\ [Events!Next]_(Events!vars) => EventInv'
  BY EventStep
<1> QED
  BY <1>1, <1>2, PTL DEF Events!Spec

(* Whatever is lost, repeated and reordered on the way, and however many   *)
(* replicas handle it: an event is stored once, a conflict has another run *)
(* of the invocation or a foreign runtime behind it, and the columns       *)
(* supervision decides on are the times of stored events that arrived      *)
(* while the attempt was live (agent-event.service.ts).                    *)
THEOREM EventsAreRight ==
    ASSUME EventConstants
    PROVE  Events!Spec => []EventsAreEvidence
<1>1. EventInv => EventsAreEvidence
  <2> SUFFICES ASSUME EventInv PROVE EventsAreEvidence
    OBVIOUS
  <2>1. StoredOnce /\ ColumnsTell
    BY DEF EventInv
  <2> QED
    BY <2>1 DEF EventsAreEvidence, Events!EventsAreEvidence, StoredOnce, ColumnsTell, Beats
<1> QED
  BY <1>1, EventsAreNumbered, PTL

(* A supervision pass gives a live attempt up for a missing acceptance     *)
(* only when nothing at all was stored, and for a silent worker only when  *)
(* the last heartbeat to be stored was received that long ago, or there is *)
(* none and the activity that made it run was stored that long ago         *)
(* (supervision.service.ts, syntheticResult).                              *)
THEOREM VerdictsAreEarned ==
    ASSUME EventConstants
    PROVE  Events!Spec => TimeoutsAreEarned
<1>1. EventInv /\ [Events!Next]_(Events!vars) =>
          \A p \in Replicas :
              verdict[p] = Events!NoVerdict /\ verdict'[p] # Events!NoVerdict =>
                  IF verdict'[p].code = "AGENT_ACCEPTANCE_TIMEOUT" THEN rows = {}
                  ELSE Events!Silent
  <2> SUFFICES ASSUME EventInv, [Events!Next]_(Events!vars), NEW p \in Replicas,
                      verdict[p] = Events!NoVerdict, verdict'[p] # Events!NoVerdict
               PROVE  IF verdict'[p].code = "AGENT_ACCEPTANCE_TIMEOUT" THEN rows = {}
                      ELSE Events!Silent
    OBVIOUS
  <2>1. verdict' = [verdict EXCEPT ![p] = Events!Due] /\ Events!Due # Events!NoVerdict
    <3>1. PICK q \in Replicas : verdict' # verdict /\ (Events!Evaluate(q) \/ Events!ApplyTimeout(q))
      BY DEF Events!Next, Events!vars, Events!Tick, Events!Receipt, Events!EmitAccepted,
             Events!Execute,
             Events!EmitActivity, Events!SendResult, Events!EmitTerminal, Events!RunAgain,
             Events!Arrive, Events!CallbackFails, Events!ApplyEvent, Events!ApplyResult,
             Events!Cancel
    <3>2. verdict = [r \in Replicas |-> verdict[r]]
      BY DEF EventInv
    <3>3. ~Events!ApplyTimeout(q)
      BY <3>2 DEF Events!ApplyTimeout
    <3>4. q = p
      BY <3>1, <3>2, <3>3 DEF Events!Evaluate
    <3> QED
      BY <3>1, <3>3, <3>4 DEF Events!Evaluate
  <2>2. verdict'[p] = Events!Due
    <3>1. verdict = [r \in Replicas |-> verdict[r]]
      BY DEF EventInv
    <3> QED
      BY <2>1, <3>1
  <2>3. /\ att \in AttemptColumns /\ ColumnsTell /\ clock \in Nat /\ StaleAfter \in Nat
        /\ \A r \in rows : r.at \in 1..clock /\ r.stored \in 1..clock
    BY DEF EventInv, StoredOnce, EventConstants
  <2>4. CASE Events!Due.code = "AGENT_ACCEPTANCE_TIMEOUT"
    <3>1. att.status = "DISPATCHED" /\ att.lastEvent = Events!Null
      BY <2>4 DEF Events!Due, Events!NoVerdict
    <3>2. Events!LiveRows(Events!Types) = {} /\ \A r \in rows : r.status # Events!Terminal
      BY <2>3, <3>1 DEF ColumnsTell, Events!Live, Events!Terminal
    <3>3. \A r \in rows : r.event.type \in Events!Types
      BY EventsAreEvents DEF EventInv, StoredOnce
    <3>4. rows = {}
      BY <3>2, <3>3 DEF Events!LiveRows
    <3> QED
      BY <2>2, <2>4, <3>4
  <2>5. CASE Events!Due.code # "AGENT_ACCEPTANCE_TIMEOUT"
    <3>1. /\ Events!Baseline # Events!Null /\ Events!Baseline + StaleAfter <= clock
          /\ att.status = "RUNNING"
      BY <2>1, <2>5 DEF Events!Due, Events!NoVerdict
    <3>2. ASSUME att.lastHeartbeat # Events!Null PROVE Events!Silent
      <4>1. Beats # {} /\ att.lastHeartbeat + StaleAfter <= clock
        BY <2>3, <3>1, <3>2 DEF ColumnsTell, Events!Baseline
      <4>2. \A r \in Beats :
                \E q \in Beats : q.stored >= r.stored /\ q.at + StaleAfter <= clock
        BY <2>3, <4>1 DEF ColumnsTell
      <4> QED
        BY <4>1, <4>2 DEF Events!Silent, Beats
    <3>3. ASSUME att.lastHeartbeat = Events!Null PROVE Events!Silent
      <4>1. Beats = {} /\ \E r \in Events!Started : r.stored + StaleAfter <= clock
        BY <2>3, <3>1, <3>3 DEF ColumnsTell, Events!Baseline
      <4> QED
        BY <4>1 DEF Events!Silent, Beats
    <3>4. Events!Silent
      BY <3>2, <3>3
    <3> QED
      BY <2>2, <2>5, <3>4
  <2> QED
    BY <2>4, <2>5
<1> QED
  BY <1>1, EventsAreNumbered, PTL DEF Events!Spec, TimeoutsAreEarned, Events!TimeoutsAreEarned
-----------------------------------------------------------------------------
(* Plan activation. *)

(* The steps of the initial plan wait for steps of it, and no proposal is  *)
(* the absence of one.                                                     *)
PlanConstants ==
    /\ DOMAIN InitialPlan \subseteq StepIds
    /\ \A s \in DOMAIN InitialPlan : InitialPlan[s].after \subseteq DOMAIN InitialPlan
    /\ "none" \notin Proposals

Counted(s) == Len(s) \in Nat /\ s = [n \in 1..Len(s) |-> s[n]]

PlanTypes ==
    /\ Counted(revisions) /\ Plans!Active # 0
    /\ step = [s \in StepIds |-> [status |-> step[s].status, frozen |-> step[s].frozen]]
    /\ attempts = [s \in StepIds |-> attempts[s]]
    /\ \A s \in StepIds : Counted(attempts[s])
    /\ proposal = [p \in Proposals |-> [status |-> proposal[p].status, ops |-> proposal[p].ops,
                                        base |-> proposal[p].base,
                                        source |-> proposal[p].source]]
    /\ request = [p \in Proposals |-> request[p]]

(* Each revision is the proposal that asked for it, on the base it had.    *)
RevisionsTell ==
    /\ \A n \in 2..Plans!Active :
           /\ revisions[n].base = n - 1
           /\ revisions[n].proposal \in Proposals
           /\ proposal[revisions[n].proposal].status = "ACCEPTED"
           /\ proposal[revisions[n].proposal].base = n - 1
    /\ \A p \in Proposals : proposal[p].status = "ACCEPTED" =>
           /\ proposal[p].base + 1 \in 2..Plans!Active
           /\ revisions[proposal[p].base + 1].proposal = p

(* The active plan has the steps that exist, and what they wait for.       *)
PlanIsWhole ==
    /\ \A s \in StepIds : step[s].status # "absent" <=> s \in DOMAIN Plans!Plan
    /\ DOMAIN Plans!Plan \subseteq StepIds
    /\ \A s \in DOMAIN Plans!Plan : Plans!Plan[s].after \subseteq DOMAIN Plans!Plan

(* What an activation decided still holds when it commits.                 *)
Accepts(p, ops) ==
    ~Plans!BaseMoved(p) /\ Plans!Applicable(ops) /\ Plans!ValidSteps(Plans!Candidate(ops))

ActivationHolds ==
    activation # Plans!NoActivation =>
        /\ activation.proposal \in Proposals
        /\ proposal[activation.proposal].status # "none"
        /\ activation.approving => request[activation.proposal] = "PENDING"
        /\ activation.verdict = "ACCEPTED" =>
               Accepts(activation.proposal, proposal[activation.proposal].ops)

PlanInv ==
    /\ PlanTypes
    /\ RevisionsTell
    /\ PlanIsWhole
    /\ ActivationHolds
    /\ Plans!StartedIsFrozen
    /\ Plans!StartedInOrder

(* Appending to a sequence of whatever it holds.                           *)
LEMMA CountedGrows ==
    ASSUME NEW s, NEW x, Counted(s)
    PROVE  /\ Counted(Append(s, x)) /\ Len(Append(s, x)) = Len(s) + 1
           /\ \A n \in 1..Len(s) : Append(s, x)[n] = s[n]
           /\ Append(s, x)[Len(s) + 1] = x
           /\ DOMAIN s = 1..Len(s) /\ DOMAIN Append(s, x) = 1..(Len(s) + 1)
           /\ Append(s, x) # <<>>
<1>1. PICK S : S = {s[n] : n \in 1..Len(s)} \cup {x}
  OBVIOUS
<1>2. s \in [1..Len(s) -> S] /\ Len(s) \in Nat
  BY <1>1 DEF Counted
<1>3. s \in Seq(S) /\ x \in S
  BY <1>1, <1>2
<1>4. PICK t : t = Append(s, x)
  OBVIOUS
<1>5. /\ t \in Seq(S) /\ Len(t) = Len(s) + 1 /\ t[Len(s) + 1] = x
      /\ \A n \in 1..Len(s) : t[n] = s[n]
  BY <1>3, <1>4, AppendProperties
<1>6. t \in [1..Len(t) -> S] /\ DOMAIN t = 1..Len(t)
  BY <1>5, LenProperties
<1>7. t = [n \in 1..Len(t) |-> t[n]] /\ Len(t) \in Nat
  BY <1>2, <1>5, <1>6
<1>8. t # <<>>
  BY <1>2, <1>5
<1> QED
  BY <1>2, <1>4, <1>5, <1>6, <1>7, <1>8 DEF Counted

(* The engine starts from the first revision, with nothing proposed.       *)
LEMMA PlanStart == PlanConstants /\ Plans!Init => PlanInv
<1> SUFFICES ASSUME PlanConstants, Plans!Init PROVE PlanInv
  OBVIOUS
<1>1. PICK first : first = [plan |-> InitialPlan, base |-> 0, proposal |-> "none"]
  OBVIOUS
<1>2. revisions = <<first>> /\ first.plan = InitialPlan
  BY <1>1 DEF Plans!Init
<1>3. Counted(revisions) /\ Plans!Active = 1 /\ Plans!Plan = InitialPlan
  BY <1>2 DEF Counted, Plans!Active, Plans!Plan
<1>4. PlanTypes
  BY <1>3 DEF PlanTypes, Plans!Init, Plans!Fresh, Plans!Absent, Plans!NoSpec, Counted
<1>5. RevisionsTell
  BY <1>3 DEF RevisionsTell, Plans!Init
<1>6. PlanIsWhole
  BY <1>3 DEF PlanIsWhole, PlanConstants, Plans!Init, Plans!Fresh, Plans!Absent
<1>7. ActivationHolds /\ Plans!StartedIsFrozen /\ Plans!StartedInOrder
  BY DEF ActivationHolds, Plans!StartedIsFrozen, Plans!StartedInOrder, Plans!Init
<1> QED
  BY <1>4, <1>5, <1>6, <1>7 DEF PlanInv

(* What an activation decided depends on the plan, on what has started and *)
(* on the proposal.                                                        *)
LEMMA AcceptanceStays ==
    ASSUME NEW p \in Proposals, NEW ops, Accepts(p, ops), UNCHANGED <<revisions, attempts>>,
           proposal'[p].base = proposal[p].base
    PROVE  Accepts(p, ops)'
<1>1. Plans!BaseMoved(p)' <=> Plans!BaseMoved(p)
  BY DEF Plans!BaseMoved, Plans!Active
<1>2. Plans!Applicable(ops)' <=> Plans!Applicable(ops)
  BY DEF Plans!Applicable, Plans!Plan, Plans!Active, Plans!AddedBefore, Plans!FrozenSteps
<1>3. Plans!Candidate(ops)' = Plans!Candidate(ops)
  BY DEF Plans!Candidate, Plans!Plan, Plans!Active
<1>4. Plans!ValidSteps(Plans!Candidate(ops))' <=> Plans!ValidSteps(Plans!Candidate(ops))
  BY <1>3 DEF Plans!ValidSteps
<1> QED
  BY <1>1, <1>2, <1>4 DEF Accepts

(* Nothing is proposed twice, and only an activation accepts.              *)
LEMMA RevisionsStay ==
    ASSUME RevisionsTell, UNCHANGED revisions,
           \A p \in Proposals : \/ proposal'[p].status = proposal[p].status
                                   /\ proposal'[p].base = proposal[p].base
                                \/ proposal[p].status # "ACCEPTED"
                                   /\ proposal'[p].status # "ACCEPTED"
    PROVE  RevisionsTell'
  BY DEF RevisionsTell, Plans!Active

(* Plans and what has started are as they were.                            *)
LEMMA StartedStays ==
    ASSUME PlanIsWhole, Plans!StartedIsFrozen, Plans!StartedInOrder,
           UNCHANGED <<revisions, step, attempts>>
    PROVE  PlanIsWhole' /\ Plans!StartedIsFrozen' /\ Plans!StartedInOrder'
  BY DEF PlanIsWhole, Plans!StartedIsFrozen, Plans!StartedInOrder, Plans!Resolved, Plans!Plan,
         Plans!Active

(* The row of a proposal that gets another status.                         *)
LEMMA StatusOnly ==
    ASSUME PlanTypes, NEW p \in Proposals, NEW state,
           proposal' = [proposal EXCEPT ![p].status = state]
    PROVE  /\ proposal' = [proposal EXCEPT ![p] = [status |-> state, ops |-> proposal[p].ops,
                               base |-> proposal[p].base, source |-> proposal[p].source]]
           /\ state = proposal[p].status => proposal' = proposal
<1>1. PICK row : row = proposal[p]
  OBVIOUS
<1>2. /\ row = [status |-> row.status, ops |-> row.ops, base |-> row.base,
                source |-> row.source]
      /\ proposal = [q \in Proposals |-> proposal[q]]
  BY <1>1 DEF PlanTypes
<1>3. proposal' = [proposal EXCEPT ![p] = [row EXCEPT !.status = state]]
  BY <1>1
<1>4. [row EXCEPT !.status = state] = [status |-> state, ops |-> row.ops, base |-> row.base,
                                        source |-> row.source]
  BY <1>2
<1>5. state = row.status => [row EXCEPT !.status = state] = row
  BY <1>2, <1>4
<1>6. proposal' = [proposal EXCEPT ![p] = [status |-> state, ops |-> proposal[p].ops,
                       base |-> proposal[p].base, source |-> proposal[p].source]]
  BY <1>1, <1>3, <1>4
<1>7. ASSUME state = proposal[p].status PROVE proposal' = proposal
  <2>1. proposal' = [proposal EXCEPT ![p] = proposal[p]]
    BY <1>1, <1>3, <1>5, <1>7
  <2> QED
    BY <1>2, <2>1
<1> QED
  BY <1>6, <1>7

(* A proposal that is not accepted is made, refused or closed.             *)
LEMMA ProposingKeeps ==
    ASSUME PlanInv, NEW p \in Proposals,
           UNCHANGED <<revisions, step, attempts>>,
           \/ UNCHANGED proposal
           \/ proposal[p].status # "ACCEPTED"
              /\ \E state, ops, base, source :
                    /\ state # "ACCEPTED"
                    /\ proposal' = [proposal EXCEPT ![p] = [status |-> state, ops |-> ops,
                                                            base |-> base, source |-> source]],
           \E decision : request' = [request EXCEPT ![p] = decision],
           ActivationHolds'
    PROVE  PlanInv'
<1>1. PlanTypes'
  BY DEF PlanInv, PlanTypes, Plans!Active
<1>2. RevisionsTell'
  BY RevisionsStay DEF PlanInv, PlanTypes
<1> QED
  BY <1>1, <1>2, StartedStays DEF PlanInv

(* An activation decides on what is there.                                 *)
LEMMA LockKeeps ==
    ASSUME PlanConstants, PlanInv, NEW p \in Proposals, NEW effect \in Effects,
           Plans!Activate(p, effect) \/ Plans!Approve(p, effect)
    PROVE  PlanInv'
<1>1. PICK approving : /\ Plans!Lock(p, effect, approving)
                       /\ approving => request[p] = "PENDING"
  BY DEF Plans!Activate, Plans!Approve
<1>2. PICK verdict_ : verdict_ = Plans!Verdict(p, effect, approving \/ request[p] = "APPROVED")
  OBVIOUS
<1>3. /\ activation' = [proposal |-> p, approving |-> approving, verdict |-> verdict_]
      /\ UNCHANGED <<revisions, step, attempts, proposal, request>>
      /\ proposal[p].status = "PENDING"
  BY <1>1, <1>2 DEF Plans!Lock, Plans!engine
<1>4. verdict_ = "ACCEPTED" => Accepts(p, proposal[p].ops)
  BY <1>2 DEF Plans!Verdict, Accepts
<1>5. verdict_ = "ACCEPTED" => Accepts(p, proposal[p].ops)'
  BY <1>3, <1>4, AcceptanceStays
<1>6. ActivationHolds'
  BY <1>1, <1>3, <1>5 DEF ActivationHolds
<1>7. request' = [request EXCEPT ![p] = request[p]]
  BY <1>3 DEF PlanInv, PlanTypes
<1> QED
  BY <1>3, <1>6, <1>7, ProposingKeeps

(* A denial or an expiry does not wait for the activation of an operator,  *)
(* and what that activation decided stays as it is.                        *)
LEMMA CloseKeeps ==
    ASSUME PlanConstants, PlanInv, NEW p \in Proposals, NEW outcome,
           Plans!CloseRequest(p, outcome)
    PROVE  PlanInv'
<1>1. PICK state :
          /\ state = IF proposal[p].status = "PENDING" THEN "REJECTED" ELSE proposal[p].status
          /\ proposal' = [proposal EXCEPT ![p].status = state]
  BY DEF Plans!CloseRequest, Plans!StillPending
<1>2. /\ UNCHANGED <<revisions, step, attempts, activation>>
      /\ request' = [request EXCEPT ![p] = outcome]
      /\ activation = Plans!NoActivation \/ ~(activation.proposal = p /\ activation.approving)
  BY DEF Plans!CloseRequest, Plans!engine, Plans!Unlocked
<1>3. /\ proposal = [q \in Proposals |-> [status |-> proposal[q].status,
                        ops |-> proposal[q].ops, base |-> proposal[q].base,
                        source |-> proposal[q].source]]
      /\ request = [q \in Proposals |-> request[q]]
  BY DEF PlanInv, PlanTypes
<1>4. /\ proposal' = [proposal EXCEPT ![p] = [status |-> state, ops |-> proposal[p].ops,
                         base |-> proposal[p].base, source |-> proposal[p].source]]
      /\ state = proposal[p].status => proposal' = proposal
  BY <1>1, StatusOnly DEF PlanInv
<1>5. \A q \in Proposals : /\ proposal'[q].ops = proposal[q].ops
                           /\ proposal'[q].base = proposal[q].base
                           /\ proposal[q].status # "none" => proposal'[q].status # "none"
  BY <1>1, <1>3, <1>4
<1>6. proposal[p].status = "ACCEPTED" => proposal' = proposal
  BY <1>1, <1>4
<1>7. ActivationHolds'
  <2> SUFFICES ASSUME activation # Plans!NoActivation PROVE ActivationHolds'
    BY <1>2 DEF ActivationHolds, Plans!NoActivation
  <2>1. PICK q, ops : q = activation.proposal /\ ops = proposal[q].ops
    OBVIOUS
  <2>2. /\ q \in Proposals /\ proposal'[q].status # "none" /\ proposal'[q].ops = ops
        /\ activation.verdict = "ACCEPTED" => Accepts(q, ops)
        /\ activation.approving => request[q] = "PENDING"
    BY <1>5, <2>1 DEF PlanInv, ActivationHolds
  <2>3. activation.approving => request'[q] = "PENDING"
    BY <1>2, <1>3, <2>1, <2>2
  <2>4. activation.verdict = "ACCEPTED" => Accepts(q, ops)'
    BY <1>2, <1>5, <2>2, AcceptanceStays
  <2> QED
    BY <1>2, <2>1, <2>2, <2>3, <2>4 DEF ActivationHolds, Plans!NoActivation
<1>8. CASE proposal[p].status = "ACCEPTED"
  BY <1>2, <1>7, <1>8, <1>6, ProposingKeeps
<1>9. CASE proposal[p].status # "ACCEPTED"
  <2>1. state # "ACCEPTED"
    BY <1>1, <1>9
  <2> QED
    BY <1>2, <1>4, <1>7, <1>9, <2>1, ProposingKeeps
<1> QED
  BY <1>8, <1>9

(* Everything else that happens to proposals without a revision leaves the *)
(* execution unlocked.                                                     *)
LEMMA UnlockedKeeps ==
    ASSUME PlanConstants, PlanInv,
           \/ \E p \in Proposals :
                  \/ \E ops \in Patches, base \in 1..Plans!Active : Plans!Propose(p, ops, base)
                  \/ Plans!ApproveDecided(p) \/ Plans!CommitAwaiting(p)
                  \/ Plans!CommitRefusal(p)
           \/ Plans!ActivationAborts
    PROVE  PlanInv'
<1>1. /\ proposal = [q \in Proposals |-> [status |-> proposal[q].status,
                        ops |-> proposal[q].ops, base |-> proposal[q].base,
                        source |-> proposal[q].source]]
      /\ request = [q \in Proposals |-> request[q]]
  BY DEF PlanInv, PlanTypes
<1>2. activation' = Plans!NoActivation /\ UNCHANGED <<revisions, step, attempts>>
  BY DEF Plans!Propose, Plans!ApproveDecided, Plans!CommitAwaiting, Plans!CommitRefusal,
         Plans!ActivationAborts, Plans!engine, Plans!Unlocked
<1>3. ActivationHolds'
  BY <1>2 DEF ActivationHolds, Plans!NoActivation
<1>4. ASSUME NEW p \in Proposals, NEW ops, NEW base, Plans!Propose(p, ops, base)
      PROVE  PlanInv'
  <2>1. /\ proposal[p].status = "none"
        /\ proposal' = [proposal EXCEPT ![p] = [status |-> "PENDING", ops |-> ops,
                                                base |-> base, source |-> "operator"]]
        /\ request' = [request EXCEPT ![p] = request[p]]
    BY <1>1, <1>4 DEF Plans!Propose, Plans!Insert
  <2> QED
    BY <1>2, <1>3, <2>1, ProposingKeeps
<1>5. ASSUME NEW p \in Proposals, Plans!ApproveDecided(p) \/ Plans!CommitAwaiting(p)
      PROVE  PlanInv'
  <2>1. UNCHANGED proposal /\ \E decision : request' = [request EXCEPT ![p] = decision]
    BY <1>5 DEF Plans!ApproveDecided, Plans!CommitAwaiting
  <2> QED
    BY <1>2, <1>3, <2>1, ProposingKeeps
<1>6. ASSUME NEW p \in Proposals, Plans!CommitRefusal(p)
      PROVE  PlanInv'
  <2>1. PICK state : /\ state = Plans!Decided(p, activation.verdict)
                      /\ proposal' = [proposal EXCEPT ![p].status = state]
    BY <1>6 DEF Plans!CommitRefusal
  <2>2. \E decision : request' = [request EXCEPT ![p] = decision]
    BY <1>6 DEF Plans!CommitRefusal, Plans!Granted
  <2>3. /\ proposal' = [proposal EXCEPT ![p] = [status |-> state, ops |-> proposal[p].ops,
                           base |-> proposal[p].base, source |-> proposal[p].source]]
        /\ state = proposal[p].status => proposal' = proposal
    BY <2>1, StatusOnly DEF PlanInv
  <2>4. state = proposal[p].status \/ (proposal[p].status # "ACCEPTED" /\ state # "ACCEPTED")
    BY <1>6, <2>1 DEF Plans!CommitRefusal, Plans!Decided, Plans!StillPending
  <2> QED
    BY <1>2, <1>3, <2>2, <2>3, <2>4, ProposingKeeps
<1>7. CASE Plans!ActivationAborts
  <2>1. UNCHANGED <<proposal, request>>
    BY <1>7 DEF Plans!ActivationAborts
  <2>2. PlanTypes' /\ RevisionsTell'
    BY <1>2, <2>1 DEF PlanInv, PlanTypes, RevisionsTell, Plans!Active
  <2> QED
    BY <1>2, <1>3, <2>2, StartedStays DEF PlanInv
<1> QED
  BY <1>4, <1>5, <1>6, <1>7

(* A patch that applies says nothing of what has started, and leaves every *)
(* step of the plan in it.                                                 *)
LEMMA CandidateKeeps ==
    ASSUME PlanIsWhole, NEW ops, Plans!Applicable(ops), Plans!ValidSteps(Plans!Candidate(ops))
    PROVE  LET plan == Plans!Candidate(ops)
           IN /\ DOMAIN Plans!Plan \subseteq DOMAIN plan /\ DOMAIN plan \subseteq StepIds
              /\ \A s \in DOMAIN plan : plan[s].after \subseteq DOMAIN plan
              /\ \A s \in DOMAIN Plans!Plan : attempts[s] # <<>> => plan[s] = Plans!Plan[s]
<1>1. PICK plan : plan = Plans!Candidate(ops)
  OBVIOUS
<1>2. DOMAIN plan = DOMAIN Plans!Plan \cup {ops[n].id : n \in DOMAIN ops}
  BY <1>1 DEF Plans!Candidate
<1>3. \A n \in DOMAIN ops : ops[n].id \in StepIds
  <2> SUFFICES ASSUME NEW n \in DOMAIN ops PROVE ops[n].id \in StepIds
    OBVIOUS
  <2>1. Plans!AddedBefore(ops, n) \subseteq {ops[m].id : m \in {k \in DOMAIN ops :
                                                             ops[k].op = "addStep"}}
    BY DEF Plans!AddedBefore
  <2>2. \A m \in DOMAIN ops : ops[m].op = "addStep" => ops[m].id \in StepIds
    BY DEF Plans!Applicable
  <2>3. ops[n].op # "addStep" => ops[n].id \in DOMAIN Plans!Plan \cup Plans!AddedBefore(ops, n)
    BY DEF Plans!Applicable
  <2> QED
    BY <2>1, <2>2, <2>3 DEF PlanIsWhole
<1>4. ASSUME NEW s \in DOMAIN Plans!Plan, attempts[s] # <<>>
      PROVE  plan[s] = Plans!Plan[s]
  <2>1. s \in Plans!FrozenSteps
    BY <1>4 DEF Plans!FrozenSteps, PlanIsWhole
  <2>2. {n \in DOMAIN ops : ops[n].id = s} = {}
    BY <2>1 DEF Plans!Applicable
  <2> QED
    BY <1>1, <1>4, <2>2 DEF Plans!Candidate
<1>5. \A s \in DOMAIN plan : plan[s].after \subseteq DOMAIN plan
  BY <1>1 DEF Plans!ValidSteps
<1> QED
  BY <1>1, <1>2, <1>3, <1>4, <1>5 DEF PlanIsWhole

(* The revision commits with the rows of its new steps and the decision.   *)
LEMMA CommitKeeps ==
    ASSUME PlanConstants, PlanInv, NEW p \in Proposals, Plans!CommitRevision(p)
    PROVE  PlanInv'
<1>1. PICK plan, ops, entry :
          /\ ops = proposal[p].ops /\ plan = Plans!Candidate(ops)
          /\ entry = [plan |-> plan, base |-> Plans!Active, proposal |-> p]
  OBVIOUS
<1>2. /\ activation.proposal = p /\ activation.verdict = "ACCEPTED"
      /\ proposal[p].status = "PENDING"
      /\ revisions' = Append(revisions, entry)
      /\ step' = [s \in StepIds |->
                     IF s \in DOMAIN plan \ DOMAIN Plans!Plan THEN Plans!Fresh ELSE step[s]]
      /\ proposal' = [proposal EXCEPT ![p].status = "ACCEPTED"]
      /\ \E decision : request' = [request EXCEPT ![p] = decision]
      /\ activation' = Plans!NoActivation /\ attempts' = attempts
  BY <1>1 DEF Plans!CommitRevision, Plans!Uncontested, Plans!StillPending, Plans!Granted
<1>3. Accepts(p, ops)
  BY <1>1, <1>2 DEF PlanInv, ActivationHolds, PlanConstants, Plans!NoActivation
<1>4. /\ proposal[p].base = Plans!Active
      /\ DOMAIN Plans!Plan \subseteq DOMAIN plan /\ DOMAIN plan \subseteq StepIds
      /\ \A s \in DOMAIN plan : plan[s].after \subseteq DOMAIN plan
      /\ \A s \in DOMAIN Plans!Plan : attempts[s] # <<>> => plan[s] = Plans!Plan[s]
  BY <1>1, <1>3, CandidateKeeps DEF PlanInv, Accepts, Plans!BaseMoved
<1>5. /\ Counted(revisions') /\ Plans!Active' = Plans!Active + 1 /\ Plans!Active \in Nat \ {0}
      /\ \A n \in 1..Plans!Active : revisions'[n] = revisions[n]
      /\ revisions'[Plans!Active + 1] = entry /\ Plans!Plan' = plan
  <2>1. Counted(revisions) /\ Plans!Active \in Nat \ {0}
    BY DEF PlanInv, PlanTypes, Counted, Plans!Active
  <2>2. /\ Counted(Append(revisions, entry)) /\ Len(Append(revisions, entry)) = Len(revisions) + 1
        /\ \A n \in 1..Len(revisions) : Append(revisions, entry)[n] = revisions[n]
        /\ Append(revisions, entry)[Len(revisions) + 1] = entry
    BY <2>1, CountedGrows
  <2>3. Counted(revisions')
    BY <1>2, <2>2 DEF Counted
  <2> QED
    BY <1>1, <1>2, <2>1, <2>2, <2>3 DEF Plans!Active, Plans!Plan
<1>6. proposal' = [proposal EXCEPT ![p] = [status |-> "ACCEPTED", ops |-> ops,
                       base |-> Plans!Active, source |-> proposal[p].source]]
  BY <1>1, <1>2, <1>4, StatusOnly DEF PlanInv
<1>7. /\ proposal'[p].status = "ACCEPTED" /\ proposal'[p].base = Plans!Active
      /\ \A q \in Proposals \ {p} : proposal'[q] = proposal[q]
  BY <1>6 DEF PlanInv, PlanTypes
<1>8. PlanTypes'
  <2>1. step' = [s \in StepIds |-> [status |-> step'[s].status, frozen |-> step'[s].frozen]]
    BY <1>2 DEF PlanInv, PlanTypes, Plans!Fresh
  <2>2. proposal' = [q \in Proposals |-> [status |-> proposal'[q].status,
                        ops |-> proposal'[q].ops, base |-> proposal'[q].base,
                        source |-> proposal'[q].source]]
    BY <1>6 DEF PlanInv, PlanTypes
  <2>3. request' = [q \in Proposals |-> request'[q]]
    BY <1>2 DEF PlanInv, PlanTypes
  <2>4. /\ attempts' = [s \in StepIds |-> attempts'[s]]
        /\ \A s \in StepIds : Counted(attempts'[s])
    BY <1>2 DEF PlanInv, PlanTypes
  <2> QED
    BY <1>5, <2>1, <2>2, <2>3, <2>4 DEF PlanTypes, Counted
<1>9. RevisionsTell'
  <2>1. entry.base = Plans!Active /\ entry.proposal = p
    BY <1>1
  <2>2. \A n \in 2..Plans!Active : revisions[n].proposal # p
    BY <1>2 DEF PlanInv, RevisionsTell
  <2>3. \A n \in 2..Plans!Active' :
            /\ revisions'[n].base = n - 1
            /\ revisions'[n].proposal \in Proposals
            /\ proposal'[revisions'[n].proposal].status = "ACCEPTED"
            /\ proposal'[revisions'[n].proposal].base = n - 1
    <3> SUFFICES ASSUME NEW n \in 2..Plans!Active'
                 PROVE  /\ revisions'[n].base = n - 1
                        /\ revisions'[n].proposal \in Proposals
                        /\ proposal'[revisions'[n].proposal].status = "ACCEPTED"
                        /\ proposal'[revisions'[n].proposal].base = n - 1
      OBVIOUS
    <3>1. CASE n = Plans!Active + 1
      BY <1>5, <1>7, <2>1, <3>1
    <3>2. CASE n \in 2..Plans!Active
      <4>1. revisions'[n] = revisions[n]
        BY <1>5, <3>2
      <4> QED
        BY <1>7, <2>2, <3>2, <4>1 DEF PlanInv, RevisionsTell
    <3> QED
      BY <1>5, <3>1, <3>2
  <2>4. \A q \in Proposals : proposal'[q].status = "ACCEPTED" =>
            /\ proposal'[q].base + 1 \in 2..Plans!Active'
            /\ revisions'[proposal'[q].base + 1].proposal = q
    <3> SUFFICES ASSUME NEW q \in Proposals, proposal'[q].status = "ACCEPTED"
                 PROVE  /\ proposal'[q].base + 1 \in 2..Plans!Active'
                        /\ revisions'[proposal'[q].base + 1].proposal = q
      OBVIOUS
    <3>1. CASE q = p
      BY <1>5, <1>7, <2>1, <3>1
    <3>2. CASE q # p
      <4>1. /\ proposal'[q] = proposal[q]
            /\ proposal[q].base + 1 \in 2..Plans!Active
            /\ revisions[proposal[q].base + 1].proposal = q
        BY <1>7, <3>2 DEF PlanInv, RevisionsTell
      <4> QED
        BY <1>5, <4>1
    <3> QED
      BY <3>1, <3>2
  <2> QED
    BY <2>3, <2>4 DEF RevisionsTell
<1>10. PlanIsWhole'
  BY <1>2, <1>4, <1>5 DEF PlanInv, PlanIsWhole, Plans!Fresh
<1>11. \A s \in StepIds : attempts[s] # <<>> => s \in DOMAIN Plans!Plan /\ step'[s] = step[s]
  BY <1>2 DEF PlanInv, Plans!StartedIsFrozen
<1>12. Plans!StartedIsFrozen'
  BY <1>2, <1>4, <1>5, <1>11 DEF PlanInv, Plans!StartedIsFrozen
<1>13. Plans!StartedInOrder'
  <2>1. \A s \in StepIds : attempts[s] # <<>> =>
            \A d \in step[s].frozen.after : d \in DOMAIN Plans!Plan
    BY DEF PlanInv, Plans!StartedIsFrozen, PlanIsWhole
  <2>2. \A d \in DOMAIN Plans!Plan : step'[d] = step[d]
    BY <1>2 DEF PlanInv, PlanIsWhole
  <2> QED
    BY <1>2, <1>11, <2>1, <2>2 DEF PlanInv, Plans!StartedInOrder, Plans!Resolved
<1>14. ActivationHolds'
  BY <1>2 DEF ActivationHolds, Plans!NoActivation
<1> QED
  BY <1>8, <1>9, <1>10, <1>12, <1>13, <1>14 DEF PlanInv

(* A step keeps what its attempts were given, or its current form is given *)
(* to a further attempt.                                                   *)
Given(s, frozen) ==
    \/ UNCHANGED attempts /\ (attempts[s] # <<>> => frozen = step[s].frozen)
    \/ /\ frozen = Plans!Plan[s] /\ Plans!Resolved(frozen) /\ s \in DOMAIN Plans!Plan
       /\ \E input : attempts' = [attempts EXCEPT ![s] =
                                     Append(@, [spec |-> frozen, input |-> input])]

(* Work goes on in steps that exist; what was settled stays settled.       *)
LEMMA WorkKeeps ==
    ASSUME PlanConstants, PlanInv, NEW s \in StepIds, NEW state, NEW frozen,
           UNCHANGED <<revisions, activation, request>>,
           step[s].status \notin {"absent", "COMPLETED", "SKIPPED"}, state # "absent",
           step' = [step EXCEPT ![s] = [status |-> state, frozen |-> frozen]],
           RevisionsTell', ActivationHolds',
           proposal' = [p \in Proposals |-> [status |-> proposal'[p].status,
                           ops |-> proposal'[p].ops, base |-> proposal'[p].base,
                           source |-> proposal'[p].source]],
           Given(s, frozen)
    PROVE  PlanInv'
<1>1. /\ step = [t \in StepIds |-> [status |-> step[t].status, frozen |-> step[t].frozen]]
      /\ attempts = [t \in StepIds |-> attempts[t]]
      /\ \A t \in StepIds : Counted(attempts[t])
  BY DEF PlanInv, PlanTypes
<1>2. /\ step'[s].status = state /\ step'[s].frozen = frozen
      /\ \A t \in StepIds \ {s} : step'[t] = step[t]
      /\ step' = [t \in StepIds |-> [status |-> step'[t].status, frozen |-> step'[t].frozen]]
  BY <1>1
<1>3. UNCHANGED <<Plans!Plan, Plans!Active>>
  BY DEF Plans!Plan, Plans!Active
<1>4. PlanIsWhole'
  BY <1>2, <1>3 DEF PlanInv, PlanIsWhole
<1>5. /\ attempts' = [t \in StepIds |-> attempts'[t]]
      /\ \A t \in StepIds : Counted(attempts'[t])
      /\ \A t \in StepIds \ {s} : attempts'[t] = attempts[t]
      /\ Plans!StartedIsFrozen'
      /\ attempts'[s] # <<>> =>
             \/ attempts[s] # <<>> /\ frozen = step[s].frozen
             \/ Plans!Resolved(frozen) /\ frozen = Plans!Plan[s] /\ s \in DOMAIN Plans!Plan
  <2>1. CASE UNCHANGED attempts /\ (attempts[s] # <<>> => frozen = step[s].frozen)
    BY <1>1, <1>2, <1>3, <2>1 DEF PlanInv, Plans!StartedIsFrozen
  <2>2. ASSUME frozen = Plans!Plan[s], Plans!Resolved(frozen), s \in DOMAIN Plans!Plan,
               NEW input, attempts' = [attempts EXCEPT ![s] =
                                          Append(@, [spec |-> frozen, input |-> input])]
        PROVE  /\ attempts' = [t \in StepIds |-> attempts'[t]]
               /\ \A t \in StepIds : Counted(attempts'[t])
               /\ \A t \in StepIds \ {s} : attempts'[t] = attempts[t]
               /\ Plans!StartedIsFrozen'
    <3>1. PICK old, new, entry : /\ old = attempts[s] /\ new = Append(old, entry)
                                 /\ entry = [spec |-> frozen, input |-> input]
      OBVIOUS
    <3>2. attempts' = [attempts EXCEPT ![s] = new]
      BY <2>2, <3>1
    <3>3. /\ Counted(new) /\ DOMAIN new = 1..(Len(old) + 1) /\ DOMAIN old = 1..Len(old)
          /\ \A n \in 1..Len(old) : new[n] = old[n]
          /\ new[Len(old) + 1] = entry /\ entry.spec = frozen /\ Len(old) \in Nat
      BY <1>1, <3>1, CountedGrows DEF Counted
    <3>4. old # <<>> => step[s].frozen = Plans!Plan[s]
                        /\ \A n \in DOMAIN old : old[n].spec = step[s].frozen
      BY <3>1 DEF PlanInv, Plans!StartedIsFrozen
    <3>5. \A n \in DOMAIN new : new[n].spec = frozen
      <4>1. CASE old = <<>>
        <5>1. Len(old) = 0
          BY <4>1
        <5> QED
          BY <3>3, <5>1
      <4>2. CASE old # <<>>
        BY <2>2, <3>3, <3>4, <4>2
      <4> QED
        BY <4>1, <4>2
    <3>6. /\ attempts'[s] = new /\ \A t \in StepIds \ {s} : attempts'[t] = attempts[t]
          /\ attempts' = [t \in StepIds |-> attempts'[t]]
      BY <1>1, <3>2
    <3>7. Plans!StartedIsFrozen'
      BY <1>2, <1>3, <2>2, <3>5, <3>6 DEF PlanInv, Plans!StartedIsFrozen
    <3>8. \A t \in StepIds : Counted(attempts'[t])
      <4>1. Counted(attempts'[s])
        BY <3>3, <3>6 DEF Counted
      <4>2. \A t \in StepIds \ {s} : Counted(attempts'[t])
        BY <1>1, <3>6 DEF Counted
      <4> QED
        BY <4>1, <4>2
    <3> QED
      BY <3>6, <3>7, <3>8
  <2> QED
    BY <2>1, <2>2 DEF Given
<1>6. \A d \in StepIds : step[d].status \in {"COMPLETED", "SKIPPED"} =>
          step'[d].status = step[d].status
  BY <1>2
<1>7. \A t \in StepIds : attempts'[t] # <<>> =>
          /\ Plans!Resolved(step'[t].frozen)
          /\ step'[t].frozen.after \subseteq StepIds
  BY <1>2, <1>5 DEF PlanInv, Plans!StartedInOrder, Plans!StartedIsFrozen, PlanIsWhole
<1>8. Plans!StartedInOrder'
  BY <1>6, <1>7 DEF Plans!StartedInOrder, Plans!Resolved
<1>9. PlanTypes'
  BY <1>2, <1>3, <1>5 DEF PlanInv, PlanTypes, Counted, Plans!Active
<1> QED
  BY <1>4, <1>5, <1>8, <1>9 DEF PlanInv

(* A step that only gets another status.                                   *)
LEMMA StatusKeeps ==
    ASSUME PlanConstants, PlanInv, NEW s \in StepIds, NEW state,
           UNCHANGED <<revisions, activation, request, attempts>>,
           step[s].status \notin {"absent", "COMPLETED", "SKIPPED"}, state # "absent",
           step' = [step EXCEPT ![s].status = state],
           RevisionsTell', ActivationHolds',
           proposal' = [p \in Proposals |-> [status |-> proposal'[p].status,
                           ops |-> proposal'[p].ops, base |-> proposal'[p].base,
                           source |-> proposal'[p].source]]
    PROVE  PlanInv'
<1>1. PICK row, frozen : row = step[s] /\ frozen = row.frozen
  OBVIOUS
<1>2. row = [status |-> row.status, frozen |-> row.frozen]
  BY <1>1 DEF PlanInv, PlanTypes
<1>3. [row EXCEPT !.status = state] = [status |-> state, frozen |-> frozen]
  BY <1>1, <1>2
<1>4. step' = [step EXCEPT ![s] = [status |-> state, frozen |-> frozen]]
  BY <1>1, <1>3
<1>5. Given(s, frozen)
  BY <1>1 DEF Given
<1>6. UNCHANGED <<revisions, activation, request>>
  OBVIOUS
<1> QED
  BY <1>4, <1>5, <1>6, WorkKeeps

(* A pass reads, and may end a run.                                        *)
LEMMA ReadingKeeps ==
    ASSUME PlanInv,
           \E e \in Passes :
               \/ Plans!PassBegin(e) \/ Plans!PassReadPlan(e) \/ Plans!PassReadSteps(e)
               \/ Plans!PassComplete(e) \/ Plans!PassEnds(e)
    PROVE  PlanInv'
<1>1. UNCHANGED <<revisions, step, attempts, proposal, request, activation>>
  BY DEF Plans!PassBegin, Plans!PassReadPlan, Plans!PassReadSteps, Plans!PassComplete,
         Plans!PassEnds
<1>2. PlanTypes' /\ RevisionsTell'
  BY <1>1 DEF PlanInv, PlanTypes, RevisionsTell, Plans!Active, Counted
<1>3. ActivationHolds'
  BY <1>1, AcceptanceStays DEF PlanInv, ActivationHolds
<1> QED
  BY <1>1, <1>2, <1>3, StartedStays DEF PlanInv

(* A pass makes ready what it found resolved, even while an activation is  *)
(* open.                                                                   *)
LEMMA AdvanceKeeps ==
    ASSUME PlanConstants, PlanInv, NEW e \in Passes, NEW s \in StepIds, Plans!PassAdvance(e, s)
    PROVE  PlanInv'
<1>1. /\ step[s].status = "PENDING" /\ step' = [step EXCEPT ![s].status = "READY"]
      /\ UNCHANGED <<revisions, attempts, proposal, request, activation>>
  BY DEF Plans!PassAdvance
<1>2. RevisionsTell' /\ ActivationHolds'
  BY <1>1, AcceptanceStays DEF PlanInv, RevisionsTell, ActivationHolds, Plans!Active
<1>3. proposal' = [p \in Proposals |-> [status |-> proposal'[p].status,
                      ops |-> proposal'[p].ops, base |-> proposal'[p].base,
                      source |-> proposal'[p].source]]
  BY <1>1 DEF PlanInv, PlanTypes
<1> QED
  BY <1>1, <1>2, <1>3, StatusKeeps

(* A claim freezes the step as the active plan has it.                     *)
LEMMA ClaimKeeps ==
    ASSUME PlanConstants, PlanInv, NEW e \in Passes, NEW s \in StepIds, Plans!Claim(e, s)
    PROVE  PlanInv'
<1>1. PICK spec : spec = Plans!Plan[s]
  OBVIOUS
<1>2. /\ step[s].status \in {"READY", "RETRYING"} /\ step[s].frozen \in {Plans!NoSpec, spec}
      /\ Plans!Resolved(spec) /\ activation' = activation /\ activation = Plans!NoActivation
      /\ UNCHANGED <<revisions, proposal, request>>
      /\ \/ /\ step' = [step EXCEPT ![s] = [status |-> "SKIPPED", frozen |-> spec]]
            /\ UNCHANGED attempts
         \/ /\ step' = [step EXCEPT ![s] = [status |-> "RUNNING", frozen |-> spec]]
            /\ \E input : attempts' = [attempts EXCEPT ![s] =
                                          Append(@, [spec |-> spec, input |-> input])]
  BY <1>1 DEF Plans!Claim, Plans!Unlocked
<1>3. s \in DOMAIN Plans!Plan
  BY <1>2 DEF PlanInv, PlanIsWhole
<1>4. attempts[s] # <<>> => spec = step[s].frozen
  BY <1>1 DEF PlanInv, Plans!StartedIsFrozen
<1>5. RevisionsTell' /\ ActivationHolds'
  BY <1>2 DEF PlanInv, RevisionsTell, ActivationHolds, Plans!Active, Plans!NoActivation
<1>6. proposal' = [p \in Proposals |-> [status |-> proposal'[p].status,
                      ops |-> proposal'[p].ops, base |-> proposal'[p].base,
                      source |-> proposal'[p].source]]
  BY <1>2 DEF PlanInv, PlanTypes
<1>7. CASE /\ step' = [step EXCEPT ![s] = [status |-> "SKIPPED", frozen |-> spec]]
           /\ UNCHANGED attempts
  <2>1. Given(s, spec)
    BY <1>4, <1>7 DEF Given
  <2> QED
    BY <1>2, <1>5, <1>6, <1>7, <2>1, WorkKeeps
<1>8. CASE /\ step' = [step EXCEPT ![s] = [status |-> "RUNNING", frozen |-> spec]]
           /\ \E input : attempts' = [attempts EXCEPT ![s] =
                                         Append(@, [spec |-> spec, input |-> input])]
  <2>1. Given(s, spec)
    BY <1>1, <1>2, <1>3, <1>8 DEF Given
  <2> QED
    BY <1>2, <1>5, <1>6, <1>8, <2>1, WorkKeeps
<1> QED
  BY <1>2, <1>7, <1>8

(* A result settles a step, and a planner's result proposes.               *)
LEMMA OutcomeKeeps ==
    ASSUME PlanConstants, PlanInv, NEW s \in StepIds, Plans!StepSucceeds(s) \/ Plans!StepFails(s)
    PROVE  PlanInv'
<1>1. PICK state :
          /\ state \in {"COMPLETED", "RETRYING", "FAILED"}
          /\ step' = [step EXCEPT ![s].status = state]
  BY DEF Plans!StepSucceeds, Plans!StepFails
<1>2. /\ step[s].status = "RUNNING" /\ activation = Plans!NoActivation
      /\ UNCHANGED <<revisions, attempts, request, activation>>
      /\ \/ UNCHANGED proposal
         \/ \E p \in Proposals, ops \in Patches : Plans!Insert(p, ops, Plans!Active, "planner")
  BY DEF Plans!StepSucceeds, Plans!StepFails, Plans!Unlocked
<1>3. ActivationHolds'
  BY <1>2 DEF ActivationHolds, Plans!NoActivation
<1>4. proposal = [p \in Proposals |-> [status |-> proposal[p].status,
                     ops |-> proposal[p].ops, base |-> proposal[p].base,
                     source |-> proposal[p].source]]
  BY DEF PlanInv, PlanTypes
<1>5. /\ RevisionsTell'
      /\ proposal' = [p \in Proposals |-> [status |-> proposal'[p].status,
                         ops |-> proposal'[p].ops, base |-> proposal'[p].base,
                         source |-> proposal'[p].source]]
  <2>1. CASE UNCHANGED proposal
    BY <1>2, <1>4, <2>1, RevisionsStay DEF PlanInv
  <2>2. ASSUME NEW p \in Proposals, NEW ops, Plans!Insert(p, ops, Plans!Active, "planner")
        PROVE  /\ RevisionsTell'
               /\ proposal' = [q \in Proposals |-> [status |-> proposal'[q].status,
                                  ops |-> proposal'[q].ops, base |-> proposal'[q].base,
                                  source |-> proposal'[q].source]]
    <3>1. /\ proposal[p].status = "none"
          /\ proposal' = [proposal EXCEPT ![p] =
                             [status |-> "PENDING", ops |-> ops, base |-> Plans!Active,
                              source |-> "planner"]]
      BY <2>2 DEF Plans!Insert
    <3>2. /\ proposal' = [q \in Proposals |-> [status |-> proposal'[q].status,
                             ops |-> proposal'[q].ops, base |-> proposal'[q].base,
                             source |-> proposal'[q].source]]
          /\ proposal'[p].status = "PENDING"
          /\ \A q \in Proposals \ {p} : proposal'[q] = proposal[q]
      BY <1>4, <3>1
    <3> QED
      BY <1>2, <3>1, <3>2, RevisionsStay DEF PlanInv
  <2> QED
    BY <1>2, <2>1, <2>2
<1> QED
  BY <1>1, <1>2, <1>3, <1>5, StatusKeeps

(* Whatever proposals, operators and the engine do.                        *)
LEMMA PlanStep ==
    ASSUME PlanConstants
    PROVE  PlanInv /\ [Plans!Next]_(Plans!vars) => PlanInv'
<1> SUFFICES ASSUME PlanInv, [Plans!Next]_(Plans!vars) PROVE PlanInv'
  OBVIOUS
<1>1. ASSUME NEW p \in Proposals, NEW effect \in Effects,
             Plans!Activate(p, effect) \/ Plans!Approve(p, effect)
      PROVE  PlanInv'
  BY <1>1, LockKeeps
<1>2. ASSUME NEW p \in Proposals, NEW outcome, Plans!CloseRequest(p, outcome)
      PROVE  PlanInv'
  BY <1>2, CloseKeeps
<1>3. CASE \/ \E p \in Proposals :
                  \/ \E ops \in Patches, base \in 1..Plans!Active : Plans!Propose(p, ops, base)
                  \/ Plans!ApproveDecided(p) \/ Plans!CommitAwaiting(p)
                  \/ Plans!CommitRefusal(p)
           \/ Plans!ActivationAborts
  BY <1>3, UnlockedKeeps
<1>4. ASSUME NEW p \in Proposals, Plans!CommitRevision(p)
      PROVE  PlanInv'
  BY <1>4, CommitKeeps
<1>5. CASE \E e \in Passes :
               \/ Plans!PassBegin(e) \/ Plans!PassReadPlan(e) \/ Plans!PassReadSteps(e)
               \/ Plans!PassComplete(e) \/ Plans!PassEnds(e)
  BY <1>5, ReadingKeeps
<1>6. ASSUME NEW e \in Passes, NEW s \in StepIds, Plans!PassAdvance(e, s) \/ Plans!Claim(e, s)
      PROVE  PlanInv'
  BY <1>6, AdvanceKeeps, ClaimKeeps
<1>7. ASSUME NEW s \in StepIds, Plans!StepSucceeds(s) \/ Plans!StepFails(s)
      PROVE  PlanInv'
  BY <1>7, OutcomeKeeps
<1>8. CASE UNCHANGED Plans!vars
  <2>1. UNCHANGED <<revisions, step, attempts, proposal, request, activation>>
    BY <1>8 DEF Plans!vars
  <2>2. PlanTypes' /\ RevisionsTell'
    BY <2>1 DEF PlanInv, PlanTypes, RevisionsTell, Plans!Active, Counted
  <2>3. ActivationHolds'
    BY <2>1, AcceptanceStays DEF PlanInv, ActivationHolds
  <2> QED
    BY <2>1, <2>2, <2>3, StartedStays DEF PlanInv
<1> QED
  BY <1>1, <1>2, <1>3, <1>4, <1>5, <1>6, <1>7, <1>8 DEF Plans!Next

(* The plan has the steps that exist, each revision is the proposal that   *)
(* asked for it, and what an open activation decided still holds.          *)
THEOREM PlansAreWhole ==
    ASSUME PlanConstants
    PROVE  Plans!Spec => []PlanInv
<1>1. Plans!Init => PlanInv
  BY PlanStart
<1> QED
  BY <1>1, PlanStep, PTL DEF Plans!Spec

(* For any steps, patches and policy, and however many proposals, passes   *)
(* and approvals race: what an attempt was given stays in the active plan, *)
(* revisions are exactly the accepted proposals, each on the base it was   *)
(* made for, and a step that started found done what its specification     *)
(* waits for (plan-proposal.service.ts, approval.service.ts,               *)
(* execution.service.ts).                                                  *)
THEOREM RevisionsAreRight ==
    ASSUME PlanConstants
    PROVE  Plans!Spec => []RevisionsAreSound
<1>1. PlanInv => RevisionsAreSound
  <2> SUFFICES ASSUME PlanInv PROVE RevisionsAreSound
    OBVIOUS
  <2>1. RevisionsTell /\ Plans!Active \in Nat
    BY DEF PlanInv, PlanTypes, Counted, Plans!Active
  <2>2. ASSUME NEW p \in Proposals, proposal[p].status = "ACCEPTED"
        PROVE  Plans!Cardinality({n \in 2..Plans!Active : revisions[n].proposal = p}) = 1
    <3>1. PICK k : k = proposal[p].base + 1
      OBVIOUS
    <3>2. k \in 2..Plans!Active /\ revisions[k].proposal = p
      BY <2>1, <2>2, <3>1 DEF RevisionsTell
    <3>3. \A n \in 2..Plans!Active : revisions[n].proposal = p => n = k
      BY <2>1, <3>1, <3>2 DEF RevisionsTell
    <3>4. {n \in 2..Plans!Active : revisions[n].proposal = p} = {k}
      BY <3>2, <3>3
    <3>5. Cardinality({k}) = 1
      BY FS_Singleton
    <3> QED
      BY <3>4, <3>5 DEF Plans!Cardinality, Cardinality
  <2>3. Plans!RevisionsAreAccepted
    BY <2>1, <2>2 DEF RevisionsTell, Plans!RevisionsAreAccepted
  <2> QED
    BY <2>3 DEF PlanInv, RevisionsAreSound
<1> QED
  BY <1>1, PlansAreWhole, PTL

(* A proposal or a request for approval that was decided stays decided,    *)
(* and revisions are only added (plan-proposal.service.ts: decide,         *)
(* approval.service.ts).                                                   *)
THEOREM PlanDecisionsStand ==
    ASSUME PlanConstants
    PROVE  Plans!Spec => Plans!DecisionsFinal
<1>1. PlanInv /\ [Plans!Next]_(Plans!vars) =>
          /\ \A p \in Proposals :
                 /\ proposal[p].status \in {"ACCEPTED", "REJECTED", "STALE"} =>
                        proposal'[p] = proposal[p]
                 /\ request[p] \in {"APPROVED", "DENIED", "EXPIRED"} => request'[p] = request[p]
          /\ \A n \in DOMAIN revisions : revisions'[n] = revisions[n]
  <2> SUFFICES ASSUME PlanInv, [Plans!Next]_(Plans!vars)
               PROVE  /\ \A p \in Proposals :
                             /\ proposal[p].status \in {"ACCEPTED", "REJECTED", "STALE"} =>
                                    proposal'[p] = proposal[p]
                             /\ request[p] \in {"APPROVED", "DENIED", "EXPIRED"} =>
                                    request'[p] = request[p]
                      /\ \A n \in DOMAIN revisions : revisions'[n] = revisions[n]
    OBVIOUS
  <2>1. PlanTypes /\ ActivationHolds
    BY DEF PlanInv
  <2>2. UNCHANGED revisions \/ \E entry : revisions' = Append(revisions, entry)
    BY DEF Plans!Next, Plans!vars, Plans!Propose, Plans!Activate, Plans!Approve, Plans!Lock,
           Plans!ApproveDecided, Plans!CommitAwaiting, Plans!CommitRefusal,
           Plans!CommitRevision, Plans!CloseRequest, Plans!ActivationAborts, Plans!PassBegin,
           Plans!PassReadPlan, Plans!PassReadSteps, Plans!PassComplete, Plans!PassEnds,
           Plans!PassAdvance, Plans!Claim, Plans!StepSucceeds, Plans!StepFails
  <2>3. \A n \in DOMAIN revisions : revisions'[n] = revisions[n]
    BY <2>1, <2>2, CountedGrows DEF PlanTypes
  <2>4. \/ UNCHANGED proposal
        \/ \E p \in Proposals : \E row :
               /\ proposal[p].status \in {"none", "PENDING"}
               /\ proposal' = [proposal EXCEPT ![p] = row]
    <3>1. ASSUME NEW p \in Proposals, NEW ops, NEW base, NEW source,
                 Plans!Insert(p, ops, base, source)
          PROVE  \E row : /\ proposal[p].status = "none"
                          /\ proposal' = [proposal EXCEPT ![p] = row]
      BY <3>1 DEF Plans!Insert
    <3>2. ASSUME NEW p \in Proposals,
                 \/ Plans!CommitRefusal(p) \/ Plans!CommitRevision(p)
                 \/ \E outcome : Plans!CloseRequest(p, outcome)
          PROVE  \/ UNCHANGED proposal
                 \/ \E row : /\ proposal[p].status = "PENDING"
                             /\ proposal' = [proposal EXCEPT ![p] = row]
      <4>1. PICK state :
                /\ proposal' = [proposal EXCEPT ![p].status = state]
                /\ proposal[p].status = "PENDING" \/ state = proposal[p].status
        BY <3>2 DEF Plans!CommitRefusal, Plans!CommitRevision, Plans!CloseRequest,
                    Plans!Decided, Plans!StillPending, Plans!Uncontested
      <4> QED
        BY <2>1, <4>1, StatusOnly
    <3>3. \/ UNCHANGED proposal
          \/ \E p \in Proposals :
                 \/ \E ops, base, source : Plans!Insert(p, ops, base, source)
                 \/ Plans!CommitRefusal(p) \/ Plans!CommitRevision(p)
                 \/ \E outcome : Plans!CloseRequest(p, outcome)
      BY DEF Plans!Next, Plans!vars, Plans!Propose, Plans!Activate, Plans!Approve, Plans!Lock,
             Plans!ApproveDecided, Plans!CommitAwaiting, Plans!ActivationAborts,
             Plans!PassBegin, Plans!PassReadPlan, Plans!PassReadSteps, Plans!PassComplete,
             Plans!PassEnds, Plans!PassAdvance, Plans!Claim, Plans!StepSucceeds,
             Plans!StepFails
    <3> QED
      BY <3>1, <3>2, <3>3
  <2>5. \/ UNCHANGED request
        \/ \E p \in Proposals : \E decision :
               /\ request[p] \notin {"APPROVED", "DENIED", "EXPIRED"} \/ decision = request[p]
               /\ request' = [request EXCEPT ![p] = decision]
    <3>1. ASSUME NEW p \in Proposals,
                 \/ Plans!CommitRefusal(p) \/ Plans!CommitRevision(p)
                 \/ Plans!ApproveDecided(p) \/ Plans!CommitAwaiting(p)
                 \/ \E outcome : Plans!CloseRequest(p, outcome)
          PROVE  \E decision :
                     /\ \/ request[p] \notin {"APPROVED", "DENIED", "EXPIRED"}
                        \/ decision = request[p]
                     /\ request' = [request EXCEPT ![p] = decision]
      <4>1. CASE Plans!CommitRefusal(p) \/ Plans!CommitRevision(p)
        <5>1. activation.proposal = p /\ Plans!Granted(p)
          BY <4>1 DEF Plans!CommitRefusal, Plans!CommitRevision
        <5>2. activation.approving => request[p] = "PENDING"
          BY <2>1, <5>1 DEF ActivationHolds, PlanConstants, Plans!NoActivation
        <5> QED
          BY <5>1, <5>2 DEF Plans!Granted
      <4>2. CASE Plans!ApproveDecided(p) \/ (\E outcome : Plans!CloseRequest(p, outcome))
        BY <4>2 DEF Plans!ApproveDecided, Plans!CloseRequest
      <4>3. CASE Plans!CommitAwaiting(p)
        BY <4>3 DEF Plans!CommitAwaiting
      <4> QED
        BY <3>1, <4>1, <4>2, <4>3
    <3> QED
      BY <3>1
      DEF Plans!Next, Plans!vars, Plans!Propose, Plans!Activate, Plans!Approve, Plans!Lock,
          Plans!ActivationAborts, Plans!PassBegin, Plans!PassReadPlan, Plans!PassReadSteps,
          Plans!PassComplete, Plans!PassEnds, Plans!PassAdvance, Plans!Claim,
          Plans!StepSucceeds, Plans!StepFails
  <2>6. ASSUME NEW p \in Proposals, proposal[p].status \in {"ACCEPTED", "REJECTED", "STALE"}
        PROVE  proposal'[p] = proposal[p]
    BY <2>1, <2>4, <2>6 DEF PlanTypes
  <2>7. ASSUME NEW p \in Proposals, request[p] \in {"APPROVED", "DENIED", "EXPIRED"}
        PROVE  request'[p] = request[p]
    BY <2>1, <2>5, <2>7 DEF PlanTypes
  <2> QED
    BY <2>3, <2>6, <2>7
<1> QED
  BY <1>1, PlansAreWhole, PTL DEF Plans!Spec, Plans!DecisionsFinal
=============================================================================
