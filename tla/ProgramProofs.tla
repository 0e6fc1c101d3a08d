----------------------------- MODULE ProgramProofs -----------------------------
(***************************************************************************)
(* The programs beside the orchestrator, for any number of operators,      *)
(* agents and runs: a worker keeps and settles what it accepted, recovery  *)
(* from a backup keeps the authority, and either local executor host finds *)
(* again what it recorded.                                                 *)
(***************************************************************************)
EXTENDS Programs, FiniteSetTheorems, TLAPS
-----------------------------------------------------------------------------
(* A worker of the TypeScript SDK, for every set of invocations,           *)
(* connections and runs and every capacity.                                *)

(* A run that was accepted knows its invocation.                           *)
UsedAreAsked == \A r \in Runs : state[r] # "unused" => asked[r] \in Invocations

(* A record leaves the store only when it has expired.                     *)
Retained ==
    \A r \in Runs : state[r] # "unused" /\ ~Expired(r) => record[asked[r]] = r

(* The slots and the store, with the finiteness their counting needs.      *)
SlotsHeld ==
    /\ IsFiniteSet(active)
    /\ Cardinality(active) <= Concurrency
    /\ Cardinality(active) + Len(queue) <= Concurrency + MaxQueuedRuns

Stored(store) == {i \in Invocations : store[i] \in Runs}
StoreHeld == IsFiniteSet(Stored(record)) /\ Entries(record) <= MaxEntries

WorkInv ==
    /\ TypeOK
    /\ RecordTellsWork
    /\ UsedAreAsked
    /\ Retained
    /\ SlotsHeld
    /\ StoreHeld
-----------------------------------------------------------------------------
(* What drain() does to the queue: it takes runs from the front, none once *)
(* the scheduler refuses.                                                  *)
Taken(begun) ==
    /\ begun \subseteq ToSet(queue)
    /\ queue' \in Seq(Runs)
    /\ ToSet(queue') = ToSet(queue) \ begun
    /\ IsInjective(queue')
    /\ ~accepting => begun = {} /\ queue' = queue

(* What it does to the runs: those taken are running, and a changed record *)
(* is fresh again.                                                         *)
Drained(busy, states, begun) ==
    /\ active' = busy \cup begun
    /\ state' = [r \in Runs |-> IF r \in begun THEN "running" ELSE states[r]]
    /\ elapsed' = {r \in elapsed : state'[r] = state[r]}

(* A queue cut in two: the rest has exactly the runs that were not taken.  *)
LEMMA SplitQueue ==
    ASSUME NEW S, NEW q \in Seq(S), IsInjective(q), NEW k \in 0..Len(q)
    PROVE  LET front == SubSeq(q, 1, k)
               rest == SubSeq(q, k + 1, Len(q))
           IN /\ ToSet(front) \subseteq ToSet(q)
              /\ rest \in Seq(S)
              /\ ToSet(rest) = ToSet(q) \ ToSet(front)
              /\ IsInjective(rest)
              /\ k = 0 => ToSet(front) = {} /\ rest = q
<1> DEFINE front == SubSeq(q, 1, k)
           rest == SubSeq(q, k + 1, Len(q))
<1>1. front \in Seq(S) /\ Len(front) = k /\ \A i \in 1..k : front[i] = q[i]
  OBVIOUS
<1>2. /\ rest \in Seq(S) /\ Len(rest) = Len(q) - k
      /\ \A i \in 1..(Len(q) - k) : rest[i] = q[k + i]
  OBVIOUS
<1> HIDE DEF front, rest
<1>3. /\ Len(q) \in Nat /\ DOMAIN q = 1..Len(q) /\ DOMAIN front = 1..k
      /\ DOMAIN rest = 1..(Len(q) - k)
  BY <1>1, <1>2
<1>4. ToSet(front) \subseteq ToSet(q)
  BY <1>1, <1>3 DEF ToSet
<1>5. IsInjective(rest)
  <2> SUFFICES ASSUME NEW i \in DOMAIN rest, NEW j \in DOMAIN rest, rest[i] = rest[j]
               PROVE  i = j
    BY DEF IsInjective
  <2>1. k + i \in DOMAIN q /\ k + j \in DOMAIN q /\ q[k + i] = q[k + j]
    BY <1>2, <1>3
  <2> QED BY <2>1, <1>3 DEF IsInjective
<1>6. ToSet(rest) \subseteq ToSet(q) \ ToSet(front)
  <2> SUFFICES ASSUME NEW i \in DOMAIN rest
               PROVE  rest[i] \in ToSet(q) /\ rest[i] \notin ToSet(front)
    BY DEF ToSet
  <2>1. k + i \in DOMAIN q /\ rest[i] = q[k + i]
    BY <1>2, <1>3
  <2>2. ASSUME NEW j \in DOMAIN front, front[j] = rest[i] PROVE FALSE
    <3>1. j \in DOMAIN q /\ q[j] = q[k + i] /\ j # k + i
      BY <1>1, <1>3, <2>1, <2>2
    <3> QED BY <3>1, <2>1 DEF IsInjective
  <2> QED BY <2>1, <2>2 DEF ToSet
<1>7. ToSet(q) \ ToSet(front) \subseteq ToSet(rest)
  <2> SUFFICES ASSUME NEW i \in DOMAIN q, q[i] \notin ToSet(front)
               PROVE  q[i] \in ToSet(rest)
    BY DEF ToSet
  <2>1. i \notin 1..k
    BY <1>1, <1>3 DEF ToSet
  <2>2. i - k \in DOMAIN rest /\ rest[i - k] = q[i]
    BY <2>1, <1>2, <1>3
  <2> QED BY <2>2 DEF ToSet
<1>8. ASSUME k = 0 PROVE ToSet(front) = {} /\ rest = q
  <2>1. ToSet(front) = {}
    BY <1>8, <1>3 DEF ToSet
  <2>2. rest = q
    BY <1>8, <1>2
  <2> QED BY <2>1, <2>2
<1> QED BY <1>2, <1>4, <1>5, <1>6, <1>7, <1>8 DEF front, rest

(* The first k runs of the queue are at most k.                            *)
LEMMA FrontIsSmall ==
    ASSUME NEW S, NEW q \in Seq(S), NEW k \in 0..Len(q)
    PROVE  LET front == ToSet(SubSeq(q, 1, k))
           IN IsFiniteSet(front) /\ Cardinality(front) \in Nat /\ Cardinality(front) <= k
<1> DEFINE front == SubSeq(q, 1, k)
           f == [i \in 1..k |-> front[i]]
<1>1. DOMAIN front = 1..k /\ k \in Nat
  OBVIOUS
<1> HIDE DEF front
<1>2. f \in Surjection(1..k, ToSet(front))
  BY <1>1 DEF Surjection, ToSet
<1>3. ExistsSurjection(1..k, ToSet(front))
  BY <1>2 DEF ExistsSurjection
<1>4. IsFiniteSet(ToSet(front)) /\ Cardinality(ToSet(front)) <= k
  BY <1>1, <1>3, FS_NatSurjection, FS_SurjCardinalityBound
<1> QED BY <1>4, FS_CardinalityType DEF front

(* drain() starts what it takes and keeps the limits.                      *)
LEMMA DrainTakes ==
    ASSUME TypeOK, IsInjective(queue), SlotsHeld,
           NEW busy, busy \subseteq active,
           NEW states, DrainFrom(busy, states)
    PROVE  /\ SlotsHeld'
           /\ \E begun : Taken(begun) /\ Drained(busy, states, begun)
<1> DEFINE free == Concurrency - Cardinality(busy)
           count == IF ~accepting THEN 0
                    ELSE IF free < Len(queue) THEN free ELSE Len(queue)
           begun == ToSet(SubSeq(queue, 1, count))
<1>1. queue \in Seq(Runs) /\ Len(queue) \in Nat
  BY DEF TypeOK
<1>2. /\ IsFiniteSet(busy) /\ Cardinality(busy) \in Nat
      /\ Cardinality(active) \in Nat /\ Cardinality(busy) <= Cardinality(active)
  BY FS_Subset, FS_CardinalityType DEF SlotsHeld
<1>3. /\ count \in 0..Len(queue) /\ (~accepting => count = 0)
      /\ Cardinality(busy) + count <= Concurrency
  BY <1>1, <1>2, CapacityAssumption DEF SlotsHeld
<1>4. /\ Drained(busy, states, begun)
      /\ active' = busy \cup begun
      /\ queue' = SubSeq(queue, count + 1, Len(queue))
  BY DEF DrainFrom, Drained
<1> HIDE DEF count
<1>5. Taken(begun)
  BY <1>1, <1>3, <1>4, SplitQueue DEF Taken
<1>6. SlotsHeld'
  <2>1. /\ IsFiniteSet(begun) /\ Cardinality(begun) \in Nat
        /\ Cardinality(begun) <= count
    BY <1>1, <1>3, FrontIsSmall
  <2> HIDE DEF begun
  <2>2. /\ Cardinality(busy \cap begun) \in Nat
        /\ IsFiniteSet(busy \cup begun)
        /\ Cardinality(busy \cup begun) \in Nat
        /\ Cardinality(busy \cup begun) =
               Cardinality(busy) + Cardinality(begun) - Cardinality(busy \cap begun)
    <3>1. IsFiniteSet(busy \cap begun)
      BY <1>2, FS_Subset
    <3> QED BY <1>2, <2>1, <3>1, FS_Union, FS_CardinalityType
  <2>3. Cardinality(busy \cup begun) <= Cardinality(busy) + count
    BY <1>2, <1>3, <2>1, <2>2
  <2>4. Len(queue') = Len(queue) - count
    BY <1>1, <1>3, <1>4
  <2> QED BY <1>1, <1>2, <1>3, <1>4, <2>2, <2>3, <2>4, CapacityAssumption
         DEF SlotsHeld
<1> QED BY <1>4, <1>5, <1>6
-----------------------------------------------------------------------------
(* The store.                                                              *)

(* Forgetting expired records keeps the store typed, within its limit, and *)
(* every record that is still owed.                                        *)
Forgets(store) ==
    /\ store \in [Invocations -> Runs \cup {NoRun}]
    /\ \A i \in Invocations : store[i] # record[i] =>
           store[i] = NoRun /\ record[i] \in Runs /\ Expired(record[i])

(* lookup() forgets only what has expired.                                 *)
LEMMA LookedUpForgets ==
    ASSUME TypeOK, NEW i \in Invocations
    PROVE  Forgets(LookedUp(i))
  BY DEF TypeOK, Forgets, LookedUp

(* So does the cleanup, after whatever was forgotten before.               *)
LEMMA CleanedUpForgets ==
    ASSUME TypeOK, NEW store, Forgets(store)
    PROVE  Forgets(CleanedUp(store))
  BY DEF TypeOK, Forgets, CleanedUp

(* So does create() when it makes room.                                    *)
LEMMA MadeRoomForgets ==
    ASSUME TypeOK, NEW store, Forgets(store)
    PROVE  Forgets(MadeRoom(store))
  BY CleanedUpForgets DEF MadeRoom

(* Forgetting keeps the store finite and within its limit.                 *)
LEMMA ForgetsStored ==
    ASSUME TypeOK, StoreHeld, NEW store, Forgets(store)
    PROVE  /\ IsFiniteSet(Stored(store))
           /\ Entries(store) \in Nat
           /\ Entries(store) <= MaxEntries
<1>1. Stored(store) \subseteq Stored(record)
  BY NullsAssumption DEF Forgets, Stored
<1>2. /\ IsFiniteSet(Stored(store)) /\ Cardinality(Stored(store)) \in Nat
      /\ Cardinality(Stored(record)) \in Nat
      /\ Cardinality(Stored(store)) <= Cardinality(Stored(record))
  BY <1>1, FS_Subset, FS_CardinalityType DEF StoreHeld
<1> QED BY <1>2, CapacityAssumption DEF StoreHeld, Entries, Stored

(* A step that only forgets expired records keeps the invariant.           *)
LEMMA ForgettingKeepsWork ==
    ASSUME WorkInv, Forgets(record'),
           UNCHANGED <<asked, elapsed, state, scheduler, owner>>, TypeOK'
    PROVE  WorkInv'
<1>1. RecordTellsWork'
  BY DEF WorkInv, RecordTellsWork, scheduler
<1>2. UsedAreAsked'
  BY DEF WorkInv, UsedAreAsked
<1>3. Retained'
  BY DEF WorkInv, TypeOK, UsedAreAsked, Retained, Forgets, Expired
<1>4. SlotsHeld'
  BY DEF WorkInv, SlotsHeld, scheduler
<1>5. StoreHeld'
  BY ForgetsStored DEF WorkInv, StoreHeld, Entries, Stored
<1> QED BY <1>1, <1>2, <1>3, <1>4, <1>5 DEF WorkInv

(* A step that changes none of that keeps the invariant.                   *)
LEMMA QuietKeepsWork ==
    ASSUME WorkInv, UNCHANGED <<record, asked, elapsed, state, scheduler, owner>>, TypeOK'
    PROVE  WorkInv'
<1>1. Forgets(record')
  BY DEF WorkInv, TypeOK, Forgets
<1> QED BY <1>1, ForgettingKeepsWork
-----------------------------------------------------------------------------
(* Requests.                                                               *)

(* A queue with one run more.                                              *)
LEMMA AppendQueue ==
    ASSUME NEW S, NEW q \in Seq(S), IsInjective(q), NEW x \in S, x \notin ToSet(q)
    PROVE  /\ Append(q, x) \in Seq(S)
           /\ Len(Append(q, x)) = Len(q) + 1
           /\ ToSet(Append(q, x)) = ToSet(q) \cup {x}
           /\ IsInjective(Append(q, x))
<1> DEFINE p == Append(q, x)
<1>1. /\ p \in Seq(S) /\ Len(q) \in Nat /\ Len(p) = Len(q) + 1
      /\ \A i \in 1..Len(q) : p[i] = q[i]
      /\ p[Len(q) + 1] = x
      /\ DOMAIN q = 1..Len(q) /\ DOMAIN p = 1..(Len(q) + 1)
  OBVIOUS
<1> HIDE DEF p
<1>2. ToSet(p) = ToSet(q) \cup {x}
  BY <1>1 DEF ToSet
<1>3. IsInjective(p)
  BY <1>1 DEF IsInjective, ToSet
<1> QED BY <1>1, <1>2, <1>3 DEF p

(* The invocation a new run is accepted for is not owed anything.          *)
LEMMA AcceptIsMiss ==
    ASSUME WorkInv, NEW c \in Connections, NEW r \in Runs, Accept(c, r),
           NEW q \in Runs, state[q] # "unused", asked[q] = reading[c]
    PROVE  Expired(q)
<1>1. reading[c] \in Invocations
  BY DEF WorkInv, TypeOK, Accept
<1>2. LookedUp(reading[c])[reading[c]] = NoRun
  BY DEF Accept
<1>3. ASSUME ~Expired(q) PROVE FALSE
  BY <1>1, <1>2, <1>3, NullsAssumption DEF WorkInv, TypeOK, Retained, LookedUp
<1> QED BY <1>3

(* A new run takes the place of nothing that is still owed.                *)
LEMMA AcceptKeepsWork ==
    ASSUME WorkInv, NEW c \in Connections, NEW r \in Runs, Accept(c, r)
    PROVE  WorkInv'
<1> DEFINE i == reading[c]
           store == MadeRoom(LookedUp(i))
<1>1. i \in Invocations
  BY DEF WorkInv, TypeOK, Accept
<1>2. Forgets(store)
  BY <1>1, LookedUpForgets, MadeRoomForgets DEF WorkInv
<1>3. /\ record' = [store EXCEPT ![i] = r]
      /\ Entries(store) < MaxEntries
      /\ HasCapacity
      /\ asked' = [asked EXCEPT ![r] = i]
      /\ state[r] = "unused"
      /\ UNCHANGED <<elapsed, active, accepting>>
  BY DEF Accept
<1> HIDE DEF store
<1>4. \/ /\ state' = [state EXCEPT ![r] = "queued"]
         /\ queue' = Append(queue, r)
         /\ owner' = owner
      \/ /\ state' = [state EXCEPT ![r] = "callback_pending"]
         /\ queue' = queue
         /\ owner' = [owner EXCEPT ![r] = "request"]
  BY DEF Accept
<1>5. /\ queue \in Seq(Runs) /\ Len(queue) \in Nat /\ IsInjective(queue)
      /\ r \notin ToSet(queue) /\ r \notin active
  BY <1>3 DEF WorkInv, TypeOK, RecordTellsWork
<1>6. TypeOK'
  <2>1. queue' \in Seq(Runs)
    BY <1>4, <1>5, AppendQueue
  <2>2. record' \in [Invocations -> Runs \cup {NoRun}]
    BY <1>1, <1>2, <1>3 DEF Forgets
  <2>3. state' \in [Runs -> RunStates]
    BY <1>4 DEF WorkInv, TypeOK, RunStates
  <2>4. asked' \in [Runs -> Invocations \cup {NoRequest}]
    BY <1>1, <1>3 DEF WorkInv, TypeOK
  <2> QED BY <2>1, <2>2, <2>3, <2>4 DEF WorkInv, TypeOK, Accept
<1>7. RecordTellsWork'
  <2>1. CASE queue' = Append(queue, r) /\ state' = [state EXCEPT ![r] = "queued"]
             /\ owner' = owner
    BY <1>3, <1>5, <2>1, AppendQueue DEF WorkInv, TypeOK, RecordTellsWork
  <2>2. CASE queue' = queue /\ state' = [state EXCEPT ![r] = "callback_pending"]
             /\ owner' = [owner EXCEPT ![r] = "request"]
    BY <1>3, <1>5, <2>2 DEF WorkInv, TypeOK, RecordTellsWork
  <2> QED BY <1>4, <2>1, <2>2
<1>8. UsedAreAsked'
  BY <1>1, <1>3, <1>4 DEF WorkInv, TypeOK, UsedAreAsked
<1>9. Retained'
  <2> SUFFICES ASSUME NEW q \in Runs, state'[q] # "unused", ~Expired(q)'
               PROVE  record'[asked'[q]] = q
    BY DEF Retained
  <2>1. CASE q = r
    BY <1>1, <1>2, <1>3, <2>1 DEF WorkInv, TypeOK, Forgets
  <2>2. CASE q # r
    <3>1. /\ state[q] # "unused" /\ ~Expired(q) /\ asked'[q] = asked[q]
          /\ asked[q] \in Invocations
      BY <1>3, <1>4, <2>2 DEF WorkInv, TypeOK, UsedAreAsked, Expired
    <3>2. asked[q] # i
      BY <3>1, AcceptIsMiss
    <3>3. record[asked[q]] = q
      BY <3>1 DEF WorkInv, Retained
    <3>4. store[asked[q]] = q
      BY <1>2, <3>1, <3>3 DEF Forgets
    <3> QED BY <1>1, <1>2, <1>3, <3>1, <3>2, <3>4 DEF Forgets
  <2> QED BY <2>1, <2>2
<1>10. SlotsHeld'
  <2>1. Cardinality(active) \in Nat
    BY FS_CardinalityType DEF WorkInv, SlotsHeld
  <2>2. Len(queue') \in Nat /\ Len(queue') <= Len(queue) + 1
    BY <1>4, <1>5
  <2> QED BY <1>3, <1>5, <2>1, <2>2, CapacityAssumption DEF WorkInv, SlotsHeld, HasCapacity
<1>11. StoreHeld'
  <2>1. IsFiniteSet(Stored(store)) /\ Cardinality(Stored(store)) \in Nat
    BY <1>2, ForgetsStored, FS_CardinalityType DEF WorkInv
  <2>2. /\ IsFiniteSet(Stored(store) \cup {i})
        /\ Cardinality(Stored(store) \cup {i}) \in Nat
        /\ Cardinality(Stored(store) \cup {i}) <= Cardinality(Stored(store)) + 1
    BY <2>1, FS_AddElement, FS_CardinalityType
  <2>3. Stored(record') \subseteq Stored(store) \cup {i}
    BY <1>2, <1>3 DEF Stored, Forgets
  <2>4. /\ IsFiniteSet(Stored(record')) /\ Cardinality(Stored(record')) \in Nat
        /\ Cardinality(Stored(record')) <= Cardinality(Stored(store)) + 1
    BY <2>2, <2>3, FS_Subset, FS_CardinalityType
  <2>5. Cardinality(Stored(store)) < MaxEntries
    BY <1>3 DEF Entries, Stored
  <2> QED BY <2>1, <2>4, <2>5, CapacityAssumption DEF StoreHeld, Entries, Stored
<1> QED BY <1>6, <1>7, <1>8, <1>9, <1>10, <1>11 DEF WorkInv

(* A record grows old.                                                     *)
LEMMA AgeingKeepsWork ==
    ASSUME WorkInv, NEW r \in Runs, TimeToLivePasses(r)
    PROVE  WorkInv'
<1>1. TypeOK'
  BY DEF WorkInv, TypeOK, TimeToLivePasses, scheduler
<1>2. RecordTellsWork' /\ UsedAreAsked'
  BY DEF WorkInv, RecordTellsWork, UsedAreAsked, TimeToLivePasses, scheduler
<1>3. Retained'
  BY DEF WorkInv, TypeOK, Retained, Expired, TimeToLivePasses
<1>4. SlotsHeld' /\ StoreHeld'
  BY DEF WorkInv, SlotsHeld, StoreHeld, Stored, Entries, TimeToLivePasses, scheduler
<1> QED BY <1>1, <1>2, <1>3, <1>4 DEF WorkInv
-----------------------------------------------------------------------------
(* Scheduling.                                                             *)

(* A turn that ends the runs `done` and drains the queue.                  *)
LEMMA DrainKeepsWork ==
    ASSUME WorkInv, NEW done, done \subseteq active,
           DrainFrom(active \ done,
                     [r \in Runs |-> IF r \in done THEN "callback_pending" ELSE state[r]]),
           owner' = [r \in Runs |-> IF r \in done THEN "callbackWork" ELSE owner[r]],
           UNCHANGED <<lifecycle, phase, reading, record, asked, accepting, attempt, aborted>>,
           drainScheduled' \in BOOLEAN
    PROVE  WorkInv'
<1> DEFINE states == [r \in Runs |-> IF r \in done THEN "callback_pending" ELSE state[r]]
<1>0. PICK begun : Taken(begun) /\ Drained(active \ done, states, begun)
  BY DrainTakes DEF WorkInv, RecordTellsWork
<1>1. /\ Taken(begun)
      /\ active' = (active \ done) \cup begun
      /\ state' = [r \in Runs |-> IF r \in begun THEN "running" ELSE states[r]]
      /\ elapsed' = {r \in elapsed : state'[r] = state[r]}
  BY <1>0 DEF Drained
<1>2. SlotsHeld'
  BY DrainTakes DEF WorkInv, RecordTellsWork
<1>3. /\ \A r \in begun : r \in Runs /\ state[r] = "queued"
      /\ \A r \in done : r \in Runs /\ state[r] = "running"
  <2>1. ToSet(queue) \subseteq Runs
    BY DEF WorkInv, TypeOK, ToSet
  <2> QED BY <1>1, <2>1 DEF WorkInv, TypeOK, RecordTellsWork, Taken
<1>4. \A r \in Runs : state'[r] = IF r \in begun THEN "running"
                                  ELSE IF r \in done THEN "callback_pending" ELSE state[r]
  BY <1>1
<1>5. TypeOK'
  <2>1. state' \in [Runs -> RunStates]
    BY <1>1 DEF WorkInv, TypeOK, RunStates
  <2>2. active' \subseteq Runs /\ elapsed' \subseteq Runs /\ queue' \in Seq(Runs)
    BY <1>1, <1>3 DEF WorkInv, TypeOK, Taken
  <2> QED BY <2>1, <2>2 DEF WorkInv, TypeOK
<1>6. RecordTellsWork'
  <2>1. ASSUME NEW r \in Runs
        PROVE  /\ state'[r] = "queued" <=> r \in ToSet(queue')
               /\ state'[r] = "running" <=> r \in active'
    BY <1>1, <1>3, <1>4 DEF WorkInv, RecordTellsWork, Taken
  <2>2. ASSUME NEW r \in Runs
        PROVE  /\ state'[r] = "callback_pending" => owner'[r] # "none"
               /\ owner'[r] # "none" => state'[r] \in {"callback_pending", "callback_failed"}
    BY <1>3, <1>4 DEF WorkInv, RecordTellsWork
  <2> QED BY <1>1, <2>1, <2>2 DEF RecordTellsWork, Taken
<1>7. UsedAreAsked'
  BY <1>3, <1>4 DEF WorkInv, UsedAreAsked
<1>8. Retained'
  BY <1>1, <1>3, <1>4 DEF WorkInv, Retained, Expired, Settled
<1>9. StoreHeld'
  BY DEF WorkInv, StoreHeld, Stored, Entries
<1> QED BY <1>2, <1>5, <1>6, <1>7, <1>8, <1>9 DEF WorkInv

(* The scheduled drain starts queued runs.                                 *)
LEMMA DrainStepKeepsWork ==
    ASSUME WorkInv, Drain
    PROVE  WorkInv'
<1> PICK done : done = {}
  OBVIOUS
<1>1. done \subseteq active /\ active = active \ done
  OBVIOUS
<1>2. state = [r \in Runs |-> IF r \in done THEN "callback_pending" ELSE state[r]]
  BY DEF WorkInv, TypeOK
<1>3. owner = [r \in Runs |-> IF r \in done THEN "callbackWork" ELSE owner[r]]
  BY DEF WorkInv, TypeOK
<1>4. DrainFrom(active \ done,
                [r \in Runs |-> IF r \in done THEN "callback_pending" ELSE state[r]])
  BY <1>1, <1>2 DEF Drain
<1>5. /\ owner' = [r \in Runs |-> IF r \in done THEN "callbackWork" ELSE owner[r]]
      /\ UNCHANGED <<lifecycle, phase, reading, record, asked, accepting, attempt, aborted>>
      /\ drainScheduled' \in BOOLEAN
  BY <1>3 DEF Drain
<1> QED BY <1>1, <1>4, <1>5, DrainKeepsWork

(* A run that ends starts its callback and hands its slot on.              *)
LEMMA RunFinishesKeepsWork ==
    ASSUME WorkInv, NEW r \in Runs, RunFinishes(r)
    PROVE  WorkInv'
<1>1. [state EXCEPT ![r] = "callback_pending"] =
          [q \in Runs |-> IF q \in {r} THEN "callback_pending" ELSE state[q]]
  BY DEF WorkInv, TypeOK
<1>2. owner' = [q \in Runs |-> IF q \in {r} THEN "callbackWork" ELSE owner[q]]
  BY DEF WorkInv, TypeOK, RunFinishes
<1>3. DrainFrom(active \ {r}, [q \in Runs |-> IF q \in {r} THEN "callback_pending" ELSE state[q]])
  BY <1>1 DEF RunFinishes
<1>4. /\ UNCHANGED <<lifecycle, phase, reading, record, asked, accepting, attempt, aborted>>
      /\ drainScheduled' \in BOOLEAN
      /\ {r} \subseteq active
  BY DEF RunFinishes, WorkInv, TypeOK
<1> QED BY <1>2, <1>3, <1>4, DrainKeepsWork

(* The queue is answered with cancellations.                               *)
LEMMA ShutdownKeepsWork ==
    ASSUME WorkInv, BeginShutdown, lifecycle' = "stopping",
           UNCHANGED <<reading, record, asked, active, drainScheduled, attempt, aborted>>
    PROVE  WorkInv'
<1>1. \A r \in Runs : r \in ToSet(queue) <=> state[r] = "queued"
  BY DEF WorkInv, RecordTellsWork
<1>2. queue' = <<>> /\ ToSet(queue') = {} /\ IsInjective(queue') /\ Len(queue') = 0
  BY DEF BeginShutdown, ToSet, IsInjective
<1>3. TypeOK'
  <2>1. state' \in [Runs -> RunStates]
    BY DEF WorkInv, TypeOK, BeginShutdown, RunStates
  <2>2. owner' \in [Runs -> {"none", "callbackWork", "stopAccepting", "request"}]
    BY DEF WorkInv, TypeOK, BeginShutdown
  <2>3. /\ phase' = "grace" /\ accepting' = FALSE /\ elapsed' \subseteq Runs
        /\ queue' \in Seq(Runs)
    BY <1>2 DEF WorkInv, TypeOK, BeginShutdown
  <2> QED BY <2>1, <2>2, <2>3 DEF WorkInv, TypeOK
<1>4. RecordTellsWork'
  BY <1>1, <1>2 DEF WorkInv, TypeOK, RecordTellsWork, BeginShutdown
<1>5. UsedAreAsked'
  BY <1>1 DEF WorkInv, UsedAreAsked, BeginShutdown
<1>6. Retained'
  BY <1>1 DEF WorkInv, TypeOK, Retained, Expired, Settled, BeginShutdown
<1>7. SlotsHeld'
  <2>1. Cardinality(active) \in Nat /\ Len(queue) \in Nat
    BY FS_CardinalityType DEF WorkInv, TypeOK, SlotsHeld
  <2> QED BY <1>2, <2>1, CapacityAssumption DEF WorkInv, SlotsHeld
<1>8. StoreHeld'
  BY DEF WorkInv, StoreHeld, Stored, Entries
<1> QED BY <1>3, <1>4, <1>5, <1>6, <1>7, <1>8 DEF WorkInv
-----------------------------------------------------------------------------
(* Callbacks.                                                              *)

(* A callback settles, or its failure hook ends.                           *)
LEMMA CallbackKeepsWork ==
    ASSUME WorkInv, NEW r \in Runs,
           \/ CallbackDelivered(r) \/ CallbackFails(r)
           \/ CallbackAborted(r) \/ LeaveHook(r)
    PROVE  WorkInv'
<1>1. /\ UNCHANGED <<lifecycle, phase, reading, record, asked, scheduler, attempt, aborted>>
      /\ owner[r] # "none"
      /\ \/ /\ state[r] = "callback_pending"
            /\ elapsed' = elapsed \ {r}
            /\ \/ /\ state' = [state EXCEPT ![r] = "delivered"]
                  /\ owner' = [owner EXCEPT ![r] = "none"]
               \/ /\ state' = [state EXCEPT ![r] = "callback_failed"]
                  /\ owner' \in {owner, [owner EXCEPT ![r] = "none"]}
         \/ /\ state[r] = "callback_failed"
            /\ UNCHANGED <<elapsed, state>>
            /\ owner' = [owner EXCEPT ![r] = "none"]
  BY DEF CallbackDelivered, CallbackFails, CallbackAborted, LeaveHook, Sending, InHook,
     Settle, intake
<1>2. TypeOK'
  BY <1>1 DEF WorkInv, TypeOK, RunStates, Settled, scheduler
<1>3. RecordTellsWork'
  BY <1>1 DEF WorkInv, TypeOK, RecordTellsWork, scheduler
<1>4. UsedAreAsked'
  BY <1>1 DEF WorkInv, TypeOK, UsedAreAsked
<1>5. Retained'
  BY <1>1 DEF WorkInv, TypeOK, Retained, Expired, Settled
<1>6. SlotsHeld' /\ StoreHeld'
  BY <1>1 DEF WorkInv, SlotsHeld, StoreHeld, Stored, Entries, scheduler
<1> QED BY <1>2, <1>3, <1>4, <1>5, <1>6 DEF WorkInv
-----------------------------------------------------------------------------
(* The inductive invariant.                                                *)

(* A new worker has nothing accepted.                                      *)
LEMMA WorkInit == Init => WorkInv
<1> SUFFICES ASSUME Init PROVE WorkInv
  OBVIOUS
<1>1. TypeOK
  <2>1. attempt \in [Runs -> 0..(MaxAttempts - 1)]
    BY CapacityAssumption DEF Init
  <2>2. queue \in Seq(Runs)
    BY DEF Init
  <2>3. /\ reading \in [Connections -> Invocations \cup {NoRequest}]
        /\ record \in [Invocations -> Runs \cup {NoRun}]
        /\ asked \in [Runs -> Invocations \cup {NoRequest}]
        /\ state \in [Runs -> RunStates]
        /\ owner \in [Runs -> {"none", "callbackWork", "stopAccepting", "request"}]
    BY DEF Init, RunStates
  <2> QED BY <2>1, <2>2, <2>3 DEF Init, TypeOK
<1>2. RecordTellsWork /\ UsedAreAsked /\ Retained
  BY DEF Init, RecordTellsWork, UsedAreAsked, Retained, ToSet, IsInjective
<1>3. SlotsHeld
  BY FS_EmptySet, CapacityAssumption DEF Init, SlotsHeld
<1>4. StoreHeld
  <2>1. Stored(record) = {}
    BY NullsAssumption DEF Init, Stored
  <2> QED BY <2>1, FS_EmptySet, CapacityAssumption DEF StoreHeld, Entries, Stored
<1> QED BY <1>1, <1>2, <1>3, <1>4 DEF WorkInv

(* Every turn of the event loop keeps it.                                  *)
LEMMA WorkStep == WorkInv /\ [Next]_vars => WorkInv'
<1> SUFFICES ASSUME WorkInv, [Next]_vars PROVE WorkInv'
  OBVIOUS
<1>1. ASSUME UNCHANGED vars PROVE WorkInv'
  <2>1. TypeOK'
    BY <1>1 DEF WorkInv, TypeOK, vars, intake, scheduler
  <2> QED BY <1>1, <2>1, QuietKeepsWork DEF vars, intake
<1>2. ASSUME Start \/ BindFails \/ DrainSettles \/ GraceEnds \/ Stopped PROVE WorkInv'
  <2>1. TypeOK' /\ UNCHANGED <<record, asked, elapsed, state, scheduler, owner>>
    BY <1>2 DEF WorkInv, TypeOK, Start, BindFails, DrainSettles, GraceEnds, Stopped,
       intake, scheduler
  <2> QED BY <2>1, QuietKeepsWork
<1>3. ASSUME BindSucceeds \/ Stop PROVE WorkInv'
  <2>1. CASE UNCHANGED <<intake, state, scheduler, owner, attempt, aborted>>
    <3>1. TypeOK'
      BY <1>3, <2>1 DEF WorkInv, TypeOK, BindSucceeds, Stop, BeginShutdown, intake, scheduler
    <3> QED BY <2>1, <3>1, QuietKeepsWork DEF intake
  <2>2. CASE /\ BeginShutdown /\ lifecycle' = "stopping"
             /\ UNCHANGED <<reading, record, asked, active, drainScheduled, attempt, aborted>>
    BY <2>2, ShutdownKeepsWork
  <2> QED BY <1>3, <2>1, <2>2 DEF BindSucceeds, Stop
<1>4. ASSUME NEW c \in Connections,
             (\E i \in Invocations : Receive(c, i)) \/ RefuseInvalid(c)
      PROVE  WorkInv'
  <2>1. TypeOK' /\ UNCHANGED <<record, asked, elapsed, state, scheduler, owner>>
    BY <1>4 DEF WorkInv, TypeOK, Receive, RefuseInvalid, scheduler
  <2> QED BY <2>1, QuietKeepsWork
<1>5. ASSUME NEW c \in Connections, AnswerWithoutRun(c) PROVE WorkInv'
  <2>1. reading[c] \in Invocations
    BY <1>5 DEF WorkInv, TypeOK, AnswerWithoutRun
  <2>2. Forgets(record')
    BY <1>5, <2>1, LookedUpForgets, MadeRoomForgets DEF WorkInv, AnswerWithoutRun
  <2>3. TypeOK' /\ UNCHANGED <<asked, elapsed, state, scheduler, owner>>
    BY <1>5, <2>2 DEF WorkInv, TypeOK, Forgets, AnswerWithoutRun, scheduler
  <2> QED BY <2>2, <2>3, ForgettingKeepsWork
<1>6. ASSUME Cleanup PROVE WorkInv'
  <2>1. Forgets(record)
    BY DEF WorkInv, TypeOK, Forgets
  <2>2. Forgets(record')
    BY <1>6, <2>1, CleanedUpForgets DEF WorkInv, Cleanup
  <2>3. TypeOK' /\ UNCHANGED <<asked, elapsed, state, scheduler, owner>>
    BY <1>6, <2>2 DEF WorkInv, TypeOK, Forgets, Cleanup, scheduler
  <2> QED BY <2>2, <2>3, ForgettingKeepsWork
<1>7. ASSUME NEW r \in Runs, CallbackRetried(r) PROVE WorkInv'
  <2>1. TypeOK'
    BY <1>7, CapacityAssumption DEF WorkInv, TypeOK, CallbackRetried, intake, scheduler
  <2> QED BY <1>7, <2>1, QuietKeepsWork DEF CallbackRetried, intake
<1>8. ASSUME NEW r \in Runs,
             \/ CallbackDelivered(r) \/ CallbackFails(r) \/ CallbackAborted(r)
             \/ HookReturns(r) \/ HookAbandoned(r)
      PROVE  WorkInv'
  BY <1>8, CallbackKeepsWork DEF HookReturns, HookAbandoned
<1> QED BY <1>1, <1>2, <1>3, <1>4, <1>5, <1>6, <1>7, <1>8, AcceptKeepsWork,
           AgeingKeepsWork, DrainStepKeepsWork, RunFinishesKeepsWork DEF Next

(* It holds in every behaviour.                                            *)
LEMMA WorkInvariant == Spec => []WorkInv
  BY WorkInit, WorkStep, PTL DEF Spec
-----------------------------------------------------------------------------
(* The worker keeps its records of the types it declares.                  *)
THEOREM WorkerTypeCorrect == Spec => []TypeOK
<1>1. WorkInv => TypeOK
  BY DEF WorkInv
<1> QED BY <1>1, WorkInvariant, PTL

(* The scheduler, the idempotency record and the callback deliveries agree *)
(* on where every accepted run is.                                         *)
THEOREM EveryRunHasOnePlace == Spec => []RecordTellsWork
<1>1. WorkInv => RecordTellsWork
  BY DEF WorkInv
<1> QED BY <1>1, WorkInvariant, PTL

(* Slots, queue and store never exceed what is configured.                 *)
THEOREM LimitsHold == Spec => []CapacityHeld
<1>1. WorkInv => CapacityHeld
  BY DEF WorkInv, SlotsHeld, StoreHeld, CapacityHeld
<1> QED BY <1>1, WorkInvariant, PTL

(* No invocation whose result is owed is forgotten by lookup, by the       *)
(* making of room or by the cleanup interval.                              *)
THEOREM OwedIsRemembered == Spec => []UnsettledAreRemembered
<1>1. WorkInv => UnsettledAreRemembered
  BY DEF WorkInv, Retained, Expired, UnsettledAreRemembered
<1> QED BY <1>1, WorkInvariant, PTL
-----------------------------------------------------------------------------
(* Reruns.                                                                 *)

(* Only an acceptance makes a run.                                         *)
LEMMA OnlyAcceptStarts ==
    ASSUME WorkInv, [Next]_vars, NEW r \in Runs, state[r] = "unused", state'[r] # "unused"
    PROVE  \E c \in Connections : Accept(c, r)
<1>1. r \notin ToSet(queue) /\ r \notin active /\ owner[r] = "none"
  BY DEF WorkInv, RecordTellsWork
<1>2. ASSUME NEW busy, busy \subseteq active, NEW states, DrainFrom(busy, states),
             states[r] = "unused"
      PROVE  state'[r] = "unused"
  <2>1. PICK begun : Taken(begun) /\ Drained(busy, states, begun)
    BY <1>2, DrainTakes DEF WorkInv, RecordTellsWork
  <2> QED BY <1>1, <1>2, <2>1 DEF Taken, Drained
<1>3. ~Drain
  <2> SUFFICES ASSUME Drain PROVE FALSE
    OBVIOUS
  <2>1. DrainFrom(active, state)
    BY DEF Drain
  <2> QED BY <1>2, <2>1
<1>4. ASSUME NEW q \in Runs, RunFinishes(q) PROVE FALSE
  <2>1. DrainFrom(active \ {q}, [state EXCEPT ![q] = "callback_pending"]) /\ q # r
    BY <1>1, <1>4 DEF RunFinishes
  <2>2. [state EXCEPT ![q] = "callback_pending"][r] = "unused"
    BY <2>1 DEF WorkInv, TypeOK
  <2> QED BY <1>2, <2>1, <2>2
<1>5. ASSUME BeginShutdown PROVE FALSE
  BY <1>1, <1>5 DEF BeginShutdown
<1>6. ASSUME NEW q \in Runs,
             \/ TimeToLivePasses(q) \/ CallbackDelivered(q) \/ CallbackRetried(q)
             \/ CallbackFails(q) \/ CallbackAborted(q) \/ HookReturns(q) \/ HookAbandoned(q)
      PROVE  FALSE
  <2>1. \/ state' = state
        \/ owner[q] # "none" /\ \E s \in Settled : state' = [state EXCEPT ![q] = s]
    BY <1>6 DEF TimeToLivePasses, CallbackDelivered, CallbackRetried, CallbackFails,
       CallbackAborted, HookReturns, HookAbandoned, LeaveHook, Sending, Settle, Settled
  <2> QED BY <1>1, <2>1 DEF WorkInv, TypeOK
<1>7. ASSUME NEW c \in Connections, NEW q \in Runs, Accept(c, q) PROVE q = r
  BY <1>7 DEF WorkInv, TypeOK, Accept
<1> QED BY <1>3, <1>4, <1>5, <1>6, <1>7
        DEF Next, vars, Start, BindSucceeds, BindFails, Receive, RefuseInvalid,
            AnswerWithoutRun, Cleanup, Stop, DrainSettles, GraceEnds, Stopped

(* A handler runs again for an invocation only after every earlier run was *)
(* settled and kept for a whole TTL.                                       *)
THEOREM RerunsWait == Spec => RerunOnlyAfterRetention
<1> DEFINE Waits == \A r, q \in Runs :
           (/\ state[r] = "unused" /\ state'[r] # "unused"
            /\ state[q] # "unused" /\ asked[q] = asked'[r])
               => state[q] \in Settled /\ q \in elapsed
<1>1. WorkInv /\ [Next]_vars => Waits
  <2> SUFFICES ASSUME WorkInv, [Next]_vars, NEW r \in Runs, NEW q \in Runs,
                      state[r] = "unused", state'[r] # "unused",
                      state[q] # "unused", asked[q] = asked'[r]
               PROVE  Expired(q)
    BY DEF Expired
  <2>1. PICK c \in Connections : Accept(c, r)
    BY OnlyAcceptStarts
  <2>2. asked[q] = reading[c]
    BY <2>1 DEF WorkInv, TypeOK, Accept
  <2> QED BY <2>1, <2>2, AcceptIsMiss
<1>2. WorkInv /\ [Next]_vars => [Waits]_vars
  BY <1>1
<1> QED BY <1>2, WorkInvariant, PTL DEF Spec, RerunOnlyAfterRetention
-----------------------------------------------------------------------------
(* Shutdown.                                                               *)

(* Nothing was ever received.                                              *)
Untouched ==
    /\ \A r \in Runs : state[r] = "unused"
    /\ \A c \in Connections : reading[c] = NoRequest

(* Whatever is still unsettled belongs to a request.                       *)
OnlyRequests ==
    /\ active = {} /\ ~accepting /\ queue = <<>>
    /\ \A r \in Runs : owner[r] \in {"none", "request"}

(* Where stop() waits tells what may still be running.                     *)
StopInv ==
    /\ lifecycle \in {"created", "starting", "failed"} \/ phase = "bind" => Untouched
    /\ phase # "none" => lifecycle = "stopping"
    /\ phase \in {"grace", "forced", "close"} => ~accepting /\ queue = <<>>
    /\ phase = "close" => OnlyRequests
    /\ lifecycle = "stopped" => Untouched \/ OnlyRequests

(* Once nothing but requests is left, no turn changes that: the scheduler  *)
(* refuses, and a request answers for itself.                              *)
LEMMA OnlyRequestsStays ==
    ASSUME WorkInv, [Next]_vars, OnlyRequests
    PROVE  OnlyRequests'
<1>1. ASSUME NEW states, DrainFrom(active, states) PROVE active' = {} /\ queue' = <<>>
  <2>1. PICK begun : Taken(begun) /\ Drained(active, states, begun)
    BY <1>1, DrainTakes DEF WorkInv, RecordTellsWork
  <2> QED BY <2>1 DEF Taken, Drained, OnlyRequests
<1>2. ASSUME UNCHANGED <<active, accepting, queue, owner>> PROVE OnlyRequests'
  BY <1>2 DEF OnlyRequests
<1>3. ASSUME Drain PROVE OnlyRequests'
  BY <1>1, <1>3 DEF Drain, OnlyRequests
<1>4. ASSUME NEW c \in Connections, NEW r \in Runs, Accept(c, r) PROVE OnlyRequests'
  BY <1>4 DEF Accept, OnlyRequests, WorkInv, TypeOK
<1>5. ASSUME BeginShutdown, active' = active PROVE OnlyRequests'
  <2>1. ToSet(queue) = {}
    BY DEF OnlyRequests, ToSet
  <2> QED BY <1>5, <2>1 DEF BeginShutdown, OnlyRequests
<1>6. ASSUME NEW r \in Runs,
             \/ CallbackDelivered(r) \/ CallbackFails(r) \/ CallbackAborted(r)
             \/ HookReturns(r) \/ HookAbandoned(r)
      PROVE  OnlyRequests'
  <2>1. UNCHANGED <<active, accepting, queue>> /\ owner' \in {owner, [owner EXCEPT ![r] = "none"]}
    BY <1>6 DEF CallbackDelivered, CallbackFails, CallbackAborted, HookReturns, HookAbandoned,
       LeaveHook, scheduler
  <2> QED BY <2>1 DEF OnlyRequests, WorkInv, TypeOK
<1>7. ASSUME NEW r \in Runs, RunFinishes(r) PROVE FALSE
  BY <1>7 DEF RunFinishes, OnlyRequests
<1>8. CASE Start \/ BindSucceeds \/ BindFails \/ Stop \/ DrainSettles \/ GraceEnds \/ Stopped
  BY <1>2, <1>5, <1>8 DEF Start, BindSucceeds, BindFails, Stop, DrainSettles, GraceEnds,
     Stopped, scheduler
<1>9. ASSUME NEW c \in Connections,
             \/ \E i \in Invocations : Receive(c, i)
             \/ RefuseInvalid(c) \/ AnswerWithoutRun(c)
      PROVE  OnlyRequests'
  BY <1>2, <1>9 DEF Receive, RefuseInvalid, AnswerWithoutRun, scheduler
<1>10. ASSUME NEW r \in Runs, TimeToLivePasses(r) \/ CallbackRetried(r) PROVE OnlyRequests'
  BY <1>2, <1>10 DEF TimeToLivePasses, CallbackRetried, scheduler
<1>11. CASE Cleanup
  BY <1>2, <1>11 DEF Cleanup, scheduler
<1>12. CASE UNCHANGED vars
  BY <1>2, <1>12 DEF vars, scheduler
<1> QED BY <1>3, <1>4, <1>6, <1>7, <1>8, <1>9, <1>10, <1>11, <1>12 DEF Next

(* A worker that received nothing receives only while it is running.       *)
LEMMA UntouchedStays ==
    ASSUME WorkInv, [Next]_vars, Untouched, lifecycle # "running"
    PROVE  Untouched'
<1>1. \A r \in Runs : state'[r] = "unused"
  BY OnlyAcceptStarts DEF Untouched, Accept
<1>2. \A c \in Connections : reading'[c] = NoRequest
  BY DEF Untouched, Next, vars, intake, Start, BindSucceeds, BindFails, Receive,
     RefuseInvalid, AnswerWithoutRun, Accept, TimeToLivePasses, Cleanup, Drain, RunFinishes,
     CallbackDelivered, CallbackRetried, CallbackFails, CallbackAborted, HookReturns,
     HookAbandoned, LeaveHook, Stop, DrainSettles, GraceEnds, Stopped
<1> QED BY <1>1, <1>2 DEF Untouched

(* Only the steps of starting and stopping move stop() on.                 *)
LEMMA LifecycleSteps ==
    ASSUME [Next]_vars
    PROVE  \/ Start \/ BindSucceeds \/ BindFails \/ Stop \/ DrainSettles \/ GraceEnds \/ Stopped
           \/ UNCHANGED <<lifecycle, phase, accepting>>
  BY DEF Next, vars, scheduler, Receive, RefuseInvalid, AnswerWithoutRun, Accept,
     TimeToLivePasses, Cleanup, Drain, RunFinishes, CallbackDelivered, CallbackRetried,
     CallbackFails, CallbackAborted, HookReturns, HookAbandoned, LeaveHook

(* A scheduler that refuses keeps its queue empty.                         *)
LEMMA EmptyStays ==
    ASSUME WorkInv, [Next]_vars, ~accepting, queue = <<>>
    PROVE  ~accepting' /\ queue' = <<>>
<1>1. ASSUME NEW busy, busy \subseteq active, NEW states, DrainFrom(busy, states)
      PROVE  queue' = <<>>
  <2>1. PICK begun : Taken(begun)
    BY <1>1, DrainTakes DEF WorkInv, RecordTellsWork
  <2> QED BY <2>1 DEF Taken
<1>2. ASSUME Drain PROVE queue' = <<>> /\ accepting' = accepting
  BY <1>1, <1>2 DEF Drain
<1>3. ASSUME NEW r \in Runs, RunFinishes(r) PROVE queue' = <<>> /\ accepting' = accepting
  BY <1>1, <1>3 DEF RunFinishes
<1>4. CASE Start \/ BindSucceeds \/ BindFails \/ Stop \/ DrainSettles \/ GraceEnds \/ Stopped
  BY <1>4 DEF Start, BindSucceeds, BindFails, Stop, DrainSettles, GraceEnds, Stopped,
     BeginShutdown, scheduler
<1>5. ASSUME NEW c \in Connections,
             \/ \E i \in Invocations : Receive(c, i)
             \/ RefuseInvalid(c) \/ AnswerWithoutRun(c) \/ \E r \in Runs : Accept(c, r)
      PROVE  queue' = <<>> /\ accepting' = accepting
  BY <1>5 DEF Receive, RefuseInvalid, AnswerWithoutRun, Accept, scheduler
<1>6. ASSUME NEW r \in Runs,
             \/ TimeToLivePasses(r) \/ CallbackDelivered(r) \/ CallbackRetried(r)
             \/ CallbackFails(r) \/ CallbackAborted(r) \/ HookReturns(r) \/ HookAbandoned(r)
      PROVE  queue' = <<>> /\ accepting' = accepting
  BY <1>6 DEF TimeToLivePasses, CallbackDelivered, CallbackRetried, CallbackFails,
     CallbackAborted, HookReturns, HookAbandoned, LeaveHook, scheduler
<1>7. CASE Cleanup \/ UNCHANGED vars
  BY <1>7 DEF Cleanup, vars, scheduler
<1> QED BY <1>2, <1>3, <1>4, <1>5, <1>6, <1>7 DEF Next

(* Every turn keeps what stop() relies on.                                 *)
LEMMA StopStep == WorkInv /\ StopInv /\ [Next]_vars => StopInv'
<1> SUFFICES ASSUME WorkInv, StopInv, [Next]_vars PROVE StopInv'
  OBVIOUS
<1> DEFINE Early == lifecycle \in {"created", "starting", "failed"} \/ phase = "bind"
<1>1. Early /\ lifecycle # "running" => Untouched'
  BY UntouchedStays DEF StopInv
<1>2. ~accepting /\ queue = <<>> => ~accepting' /\ queue' = <<>>
  BY EmptyStays
<1>3. OnlyRequests => OnlyRequests'
  BY OnlyRequestsStays
<1>4. lifecycle = "stopped" => Untouched' \/ OnlyRequests'
  BY <1>3, UntouchedStays DEF StopInv
<1>5. CASE UNCHANGED <<lifecycle, phase, accepting>>
  BY <1>1, <1>2, <1>3, <1>4, <1>5 DEF StopInv
<1>6. CASE Start \/ BindFails
  BY <1>1, <1>2, <1>6 DEF StopInv, Start, BindFails, OnlyRequests
<1>7. CASE BindSucceeds
  BY <1>7 DEF StopInv, BindSucceeds, BeginShutdown
<1>8. CASE Stop
  BY <1>1, <1>8 DEF StopInv, Stop, BeginShutdown
<1>9. CASE DrainSettles
  BY <1>9 DEF StopInv, DrainSettles, OnlyRequests, scheduler
<1>10. CASE GraceEnds
  BY <1>10 DEF StopInv, GraceEnds, scheduler
<1>11. CASE Stopped
  BY <1>3, <1>11 DEF StopInv, Stopped
<1> QED BY <1>5, <1>6, <1>7, <1>8, <1>9, <1>10, <1>11, LifecycleSteps

(* When stop() resolves, every run accepted before it is settled: only a   *)
(* request that was being read across it may still be answering.           *)
THEOREM StopLeavesNothing == Spec => []StopSettlesAccepted
<1>1. Init => StopInv
  BY DEF Init, StopInv, Untouched
<1>2. WorkInv /\ StopInv => StopSettlesAccepted
  BY DEF WorkInv, RecordTellsWork, TypeOK, RunStates, Settled, StopInv, Untouched,
     OnlyRequests, StopSettlesAccepted, ToSet
<1> QED BY <1>1, <1>2, StopStep, WorkInvariant, PTL DEF Spec
-----------------------------------------------------------------------------
(* Recovery from a backup, for any number of restores, of failed           *)
(* candidates, of crashes and of lost journals.  A process relies on what  *)
(* it saw when it took the maintenance lock, long after it saw it; the     *)
(* invariant says, for each of its steps, what is under the two names that *)
(* matter and which mark the journal may hold.                             *)

(* No operator has the name of a state of the lock, and the name of a      *)
(* failed candidate is not one of the two names that matter.               *)
NamesApart ==
    /\ "free" \notin Operators /\ "stale" \notin Operators
    /\ FailedNames[1] \notin {"active", "safety"}

(* Who recovers by hand does it where reconciliation would do the same.    *)
ManualIsReconciled == ManualAfter \subseteq {"preserve"}

Lost == {"absent", "malformed"}

(* Steps of a process, by where the authority is.                          *)
InPlace ==
    {"restart-and-proceed", "restart-original", "proceed", "restore", "verified", "stopping",
     "quiesce", "swapping", "drop-safety", "rename-active", "prove"}
Away == {"renamed", "rename-verified"}
OnTrial == {"promoted", "gates", "proven", "retreat", "demote"}

(* What a process may rely on at a step.                                   *)
ReliesAt(step) ==
    /\ step \in InPlace => db["active"] = authority
    /\ step \in {"drop-safety", "rename-active"} =>
           journal \in {"swap-active-to-safety"} \cup Lost
    /\ step \in Away => ~Swap!Has("active") /\ db["safety"] = authority
    /\ step = "rename-verified" => journal \in Swap!Swapping \cup Lost
    /\ step \in OnTrial \cup {"preserve"} =>
           /\ Swap!Has("active") /\ db["safety"] = authority
           /\ journal \in Swap!Swapping \cup Lost

Relies(o) == ReliesAt(op[o].at) /\ op[o].own \notin {"active", "safety"}

(* What the next process may rely on, with what the last one left.         *)
Recoverable ==
    /\ authority # Swap!Missing
    /\ authority \in {db["active"], db["safety"]}
    /\ db["active"] \notin {Swap!Missing, authority} =>
           journal \notin Swap!Stopping \cup {"verify-done", "complete"}
    /\ journal \in Swap!Swapping /\ Swap!Has("safety") => db["safety"] = authority
    /\ journal = "complete" => db["active"] = authority

(* Names of databases are never added, and a process has its four fields.  *)
Shape ==
    /\ DOMAIN db = Swap!Names
    /\ DOMAIN op = Operators
    /\ \A o \in Operators : DOMAIN op[o] = {"at", "mode", "valid", "own"}

OneProcess == \A o \in Operators : ~Swap!At(o, "idle") => lock = o

SwapInv == Shape /\ OneProcess /\ Recoverable /\ \A o \in Operators : Relies(o)
-----------------------------------------------------------------------------
(* A first start finds an active database and nothing else.                *)
LEMMA SwapStart == ASSUME NamesApart PROVE Swap!Init => SwapInv
<1> SUFFICES ASSUME Swap!Init PROVE SwapInv
  OBVIOUS
<1>1. Shape
  BY DEF Swap!Init, Shape, Swap!Idle
<1>2. OneProcess /\ \A o \in Operators : Relies(o)
  BY DEF Swap!Init, OneProcess, Swap!At, Swap!Idle, Relies, ReliesAt, InPlace, Away, OnTrial
<1>3. Recoverable
  BY DEF Swap!Init, Recoverable, Swap!Missing, Swap!Names, Swap!Has, Swap!Stopping, Swap!Swapping
<1> QED
  BY <1>1, <1>2, <1>3 DEF SwapInv

(* What is relied on concerns two names, the journal and the authority.    *)
LEMMA Unconcerned ==
    ASSUME Recoverable, db'["active"] = db["active"], db'["safety"] = db["safety"],
           UNCHANGED <<journal, authority>>
    PROVE  Recoverable' /\ \A step : ReliesAt(step) => ReliesAt(step)'
  BY DEF Recoverable, ReliesAt, Swap!Has

(* A journal that is lost is allowed for.                                  *)
LEMMA LosingIsAllowedFor ==
    ASSUME Recoverable, UNCHANGED <<db, authority>>, journal' \in Lost
    PROVE  Recoverable' /\ \A step : ReliesAt(step) => ReliesAt(step)'
<1>1. journal' \notin Swap!Swapping \cup Swap!Stopping \cup {"verify-done", "complete"}
  BY DEF Lost, Swap!Swapping, Swap!Stopping
<1>2. UNCHANGED <<db, authority>> /\ journal' \in Lost
  OBVIOUS
<1>3. Recoverable'
  BY <1>1 DEF Recoverable, Swap!Has
<1>4. \A step : ReliesAt(step) => ReliesAt(step)'
  BY <1>2 DEF ReliesAt, Swap!Has
<1> QED
  BY <1>3, <1>4

(* The process that runs is the only one.                                  *)
LEMMA Moves ==
    ASSUME SwapInv, NEW o \in Operators, ~Swap!At(o, "idle"), NEW r,
           op' = [op EXCEPT ![o] = r], DOMAIN r = {"at", "mode", "valid", "own"},
           r.at = "idle" \/ lock' = o, DOMAIN db' = Swap!Names,
           Recoverable', ReliesAt(r.at)', r.own \notin {"active", "safety"}
    PROVE  SwapInv'
<1>1. Shape /\ OneProcess /\ \A o2 \in Operators : Relies(o2)
  BY DEF SwapInv
<1>2. op'[o] = r /\ \A o2 \in Operators \ {o} : op'[o2] = op[o2] /\ Swap!At(o2, "idle")
  BY <1>1 DEF Shape, OneProcess
<1>3. Shape'
  BY <1>1, <1>2 DEF Shape
<1>4. OneProcess'
  BY <1>2 DEF OneProcess, Swap!At
<1>5. ASSUME NEW o2 \in Operators PROVE Relies(o2)'
  <2>1. CASE o2 = o
    BY <1>2, <2>1 DEF Relies, ReliesAt
  <2>2. CASE o2 # o
    <3>1. op'[o2] = op[o2] /\ op[o2].at = "idle" /\ op[o2].own \notin {"active", "safety"}
      BY <1>1, <1>2, <2>2 DEF Relies, Swap!At
    <3> QED
      BY <3>1 DEF Relies, ReliesAt, InPlace, Away, OnTrial
  <2> QED
    BY <2>1, <2>2
<1> QED
  BY <1>3, <1>4, <1>5 DEF SwapInv

(* An operator that gives up leaves what can be recovered.                 *)
LEMMA Ends ==
    ASSUME SwapInv, NEW o \in Operators, ~Swap!At(o, "idle"), op' = [op EXCEPT ![o] = Swap!Idle],
           DOMAIN db' = Swap!Names, Recoverable'
    PROVE  SwapInv'
<1>1. /\ DOMAIN Swap!Idle = {"at", "mode", "valid", "own"}
      /\ Swap!Idle.at = "idle" /\ Swap!Idle.own \notin {"active", "safety"}
  BY DEF Swap!Idle
<1>2. ReliesAt(Swap!Idle.at)'
  BY <1>1 DEF ReliesAt, InPlace, Away, OnTrial
<1> QED
  BY <1>1, <1>2, Moves

(* An operator comes to a step and finds what that step relies on.         *)
LEMMA GoesOn ==
    ASSUME SwapInv, NEW o \in Operators, ~Swap!At(o, "idle"), NEW step, Swap!Goto(o, step),
           lock' = lock, DOMAIN db' = Swap!Names, Recoverable', ReliesAt(step)'
    PROVE  SwapInv'
<1> PICK r : r = [op[o] EXCEPT !.at = step]
  OBVIOUS
<1>1. Shape /\ OneProcess /\ Relies(o)
  BY DEF SwapInv
<1>2. /\ DOMAIN r = {"at", "mode", "valid", "own"}
      /\ r.at = step /\ r.own = op[o].own
  BY <1>1 DEF Shape
<1>3. op' = [op EXCEPT ![o] = r]
  BY DEF Swap!Goto
<1>4. lock' = o /\ r.own \notin {"active", "safety"}
  BY <1>1, <1>2 DEF OneProcess, Relies
<1> QED
  BY <1>2, <1>3, <1>4, Moves

(* Nobody runs while the lock is not a process's.                          *)
LEMMA NobodyRuns ==
    ASSUME NamesApart, SwapInv, lock \in {"free", "stale"}
    PROVE  \A o \in Operators : Swap!At(o, "idle") /\ ~Swap!At(o, "preserve")
  BY DEF NamesApart, SwapInv, OneProcess, Swap!At

(* What the next process does first, and those who recover by hand.        *)
LEMMA Untended ==
    ASSUME NamesApart, SwapInv, lock \in {"free", "stale"}, UNCHANGED op,
           DOMAIN db' = Swap!Names, Recoverable'
    PROVE  SwapInv'
<1>1. \A o \in Operators : op[o].at = "idle"
  BY NobodyRuns DEF Swap!At
<1>2. Shape' /\ OneProcess'
  BY <1>1 DEF SwapInv, Shape, OneProcess, Swap!At
<1>3. \A o \in Operators : Relies(o)'
  BY <1>1 DEF SwapInv, Relies, ReliesAt, InPlace, Away, OnTrial
<1> QED
  BY <1>2, <1>3 DEF SwapInv
-----------------------------------------------------------------------------
(* The reconciliation.                                                     *)

(* Who takes the lock starts with reconciliation, which relies on nothing. *)
LEMMA AcquireKeeps ==
    ASSUME NamesApart, SwapInv, NEW o \in Operators, NEW mode, Swap!Acquire(o, mode)
    PROVE  SwapInv'
<1> PICK r : r = [Swap!Idle EXCEPT !.at = "reconcile", !.mode = mode]
  OBVIOUS
<1>1. /\ DOMAIN r = {"at", "mode", "valid", "own"}
      /\ r.at = "reconcile" /\ r.own = "none"
  BY DEF Swap!Idle
<1>2. op' = [op EXCEPT ![o] = r] /\ lock' = o /\ UNCHANGED <<db, journal, authority>>
  BY DEF Swap!Acquire
<1>3. Shape /\ Recoverable /\ \A o2 \in Operators : Swap!At(o2, "idle") /\ Relies(o2)
  BY NobodyRuns DEF SwapInv, Swap!Acquire
<1>4. op'[o] = r /\ \A o2 \in Operators \ {o} : op'[o2] = op[o2]
  BY <1>2, <1>3 DEF Shape
<1>5. Shape' /\ OneProcess'
  BY <1>1, <1>2, <1>3, <1>4 DEF Shape, OneProcess, Swap!At
<1>6. Recoverable' /\ \A step : ReliesAt(step) => ReliesAt(step)'
  BY <1>2, <1>3, Unconcerned
<1>7. \A o2 \in Operators : Relies(o2)'
  <2>1. ReliesAt("idle")' /\ ReliesAt("reconcile")'
    BY DEF ReliesAt, InPlace, Away, OnTrial
  <2> QED
    BY <1>1, <1>3, <1>4, <2>1 DEF Relies, ReliesAt, Swap!At, InPlace, Away, OnTrial
<1> QED
  BY <1>5, <1>6, <1>7 DEF SwapInv

(* What the journal and the names ask for is right.                        *)
LEMMA PlanIsRight ==
    ASSUME Recoverable, Swap!PlanReconciliation # "blocked"
    PROVE  /\ ReliesAt(Swap!PlanReconciliation)
           /\ Swap!PlanReconciliation \in {"proceed", "restore-safety", "restart-original",
                                       "preserve", "restart-and-proceed"}
           /\ Swap!PlanReconciliation \in {"proceed", "restart-and-proceed"} =>
                  db["active"] = authority
<1>1. CASE journal = "complete"
  BY <1>1 DEF Swap!PlanReconciliation, Recoverable, ReliesAt, InPlace, Away, OnTrial
<1>2. CASE journal # "complete" /\ Swap!Has("safety") /\ ~Swap!Has("active")
  BY <1>2 DEF Swap!PlanReconciliation, ReliesAt, InPlace, Away, OnTrial
<1>3. CASE journal # "complete" /\ Swap!Has("active")
  <2>1. CASE journal \notin Swap!Phases
    <3>1. journal \notin Swap!Stopping \cup Swap!Swapping \cup {"verify-done", "complete"}
      BY <2>1 DEF Swap!Phases
    <3>2. Swap!PlanReconciliation = IF Swap!Has("safety") THEN "blocked" ELSE "proceed"
      BY <1>3, <3>1 DEF Swap!PlanReconciliation
    <3>3. ~Swap!Has("safety") /\ db["active"] = authority
      BY <3>2 DEF Recoverable, Swap!Has
    <3> QED
      BY <3>2, <3>3 DEF ReliesAt, InPlace, Away, OnTrial
  <2>2. CASE journal \in Swap!Stopping
    <3>1. journal \notin Swap!Swapping \cup {"verify-done", "complete"}
      BY <2>2 DEF Swap!Stopping, Swap!Swapping
    <3>2. Swap!PlanReconciliation = "restart-original"
      BY <1>3, <2>2, <3>1 DEF Swap!PlanReconciliation
    <3>3. db["active"] = authority
      BY <1>3, <2>2 DEF Recoverable, Swap!Has
    <3> QED
      BY <3>2, <3>3 DEF ReliesAt, InPlace, Away, OnTrial
  <2>3. CASE journal \in Swap!Swapping
    <3>1. journal \notin Swap!Stopping \cup {"verify-done", "complete"}
      BY <2>3 DEF Swap!Stopping, Swap!Swapping
    <3>2. Swap!PlanReconciliation = IF Swap!Has("safety") THEN "preserve" ELSE "restart-and-proceed"
      BY <1>3, <2>3, <3>1 DEF Swap!PlanReconciliation
    <3>3. CASE Swap!Has("safety")
      <4>1. db["safety"] = authority /\ Swap!PlanReconciliation = "preserve"
        BY <2>3, <3>2, <3>3 DEF Recoverable
      <4> QED
        BY <1>3, <2>3, <4>1 DEF ReliesAt, InPlace, Away, OnTrial
    <3>4. CASE ~Swap!Has("safety")
      <4>1. db["active"] = authority /\ Swap!PlanReconciliation = "restart-and-proceed"
        BY <3>2, <3>4 DEF Recoverable, Swap!Has
      <4> QED
        BY <4>1 DEF ReliesAt, InPlace, Away, OnTrial
    <3> QED
      BY <3>3, <3>4
  <2>4. CASE journal = "verify-done"
    <3>1. journal \notin Swap!Stopping \cup Swap!Swapping \cup {"complete"}
      BY <2>4 DEF Swap!Stopping, Swap!Swapping
    <3>2. Swap!PlanReconciliation = "proceed"
      BY <1>3, <2>4, <3>1 DEF Swap!PlanReconciliation
    <3>3. db["active"] = authority
      BY <1>3, <2>4 DEF Recoverable, Swap!Has
    <3> QED
      BY <3>2, <3>3 DEF ReliesAt, InPlace, Away, OnTrial
  <2> QED
    BY <1>3, <2>1, <2>2, <2>3, <2>4 DEF Swap!Phases
<1>4. CASE journal # "complete" /\ ~Swap!Has("safety") /\ ~Swap!Has("active")
  BY <1>4 DEF Swap!PlanReconciliation
<1> QED
  BY <1>1, <1>2, <1>3, <1>4

(* The plan of reconciliation fits the databases it has read.              *)
LEMMA ReconcileKeeps ==
    ASSUME NamesApart, SwapInv, NEW o \in Operators, Swap!Reconcile(o)
    PROVE  SwapInv'
<1> PICK plan : plan = Swap!PlanReconciliation
  OBVIOUS
<1> PICK r : r = [op[o] EXCEPT !.at = plan, !.valid = journal \in Swap!Phases]
  OBVIOUS
<1>1. Shape /\ Recoverable /\ Relies(o) /\ lock = o
  BY DEF SwapInv, OneProcess, Swap!Reconcile, Swap!At
<1>2. /\ DOMAIN r = {"at", "mode", "valid", "own"}
      /\ r.at = plan /\ r.own = op[o].own /\ r.own \notin {"active", "safety"}
  BY <1>1 DEF Shape, Relies
<1>3. op' = [op EXCEPT ![o] = r] /\ lock' = lock /\ UNCHANGED <<db, authority>>
  BY <1>1 DEF Swap!Reconcile, Shape
<1>4. ReliesAt(plan) /\ (plan \in {"proceed", "restart-and-proceed"} => db["active"] = authority)
  BY <1>1, PlanIsRight DEF Swap!Reconcile
<1>5. \/ journal' = journal
      \/ journal' = "absent"
  BY DEF Swap!Reconcile
<1>6. Recoverable' /\ ReliesAt(plan)'
  <2>1. CASE journal' = journal
    BY <1>1, <1>3, <1>4, <2>1, Unconcerned
  <2>2. CASE journal' = "absent"
    BY <1>1, <1>3, <1>4, <2>2, LosingIsAllowedFor DEF Lost
  <2> QED
    BY <1>5, <2>1, <2>2
<1>7. ~Swap!At(o, "idle")
  BY DEF Swap!Reconcile, Swap!At
<1>8. DOMAIN db' = Swap!Names
  BY <1>1, <1>3 DEF Shape
<1>9. ReliesAt(r.at)'
  BY <1>2, <1>6
<1> QED
  BY <1>1, <1>2, <1>3, <1>6, <1>7, <1>8, <1>9, Moves

(* A process that gives up where it is.                                    *)
GivesUp(o) ==
    \/ Swap!Blocked(o) \/ Swap!Unhealthy(o) \/ Swap!CommandFails(o) \/ Swap!Reconciled(o)
    \/ Swap!JournalFails(o) \/ Swap!QuiesceFails(o) \/ Swap!SwapNotBegun(o) \/ Swap!Crash(o)

(* Failures and deaths leave the databases and the journal alone.          *)
LEMMA GivesUpKeeps ==
    ASSUME SwapInv, NEW o \in Operators, GivesUp(o)
    PROVE  SwapInv'
<1>1. UNCHANGED <<db, journal, authority>> /\ op' = [op EXCEPT ![o] = Swap!Idle]
  BY DEF GivesUp, Swap!Blocked, Swap!Unhealthy, Swap!CommandFails, Swap!Reconciled,
       Swap!JournalFails, Swap!QuiesceFails,
         Swap!SwapNotBegun, Swap!Crash, Swap!Leave
<1>2. ~Swap!At(o, "idle")
  BY DEF GivesUp, Swap!Blocked, Swap!Unhealthy, Swap!CommandFails, Swap!Reconciled,
       Swap!JournalFails, Swap!QuiesceFails,
         Swap!SwapNotBegun, Swap!Crash, Swap!At, Swap!Mark
<1>3. Recoverable' /\ DOMAIN db' = Swap!Names
  BY <1>1, Unconcerned DEF SwapInv, Shape
<1> QED
  BY <1>1, <1>2, <1>3, Ends

(* A process that goes on with the services started or stopped.            *)
LEMMA ServicesKeep ==
    ASSUME SwapInv, NEW o \in Operators,
           Swap!RestartAndProceed(o) \/ Swap!Quiesce(o) \/ Swap!GatesPass(o) \/ Swap!GatesFail(o)
    PROVE  SwapInv'
<1>1. UNCHANGED <<db, journal, authority, lock>>
  BY DEF Swap!RestartAndProceed, Swap!Quiesce, Swap!GatesPass, Swap!GatesFail
<1>2. Shape /\ Recoverable /\ ReliesAt(op[o].at)
  BY DEF SwapInv, Relies
<1>3. Recoverable' /\ DOMAIN db' = Swap!Names /\ \A step : ReliesAt(step) => ReliesAt(step)'
  BY <1>1, <1>2, Unconcerned DEF Shape
<1>4. ~Swap!At(o, "idle")
  BY DEF Swap!RestartAndProceed, Swap!Quiesce, Swap!GatesPass, Swap!GatesFail, Swap!At
<1>5. PICK step : /\ Swap!Goto(o, step)
                  /\ \/ op[o].at \in InPlace /\ step \in {"proceed", "swapping"}
                     \/ op[o].at \in OnTrial /\ step \in {"demote", "proven", "retreat"}
  BY DEF Swap!RestartAndProceed, Swap!Quiesce, Swap!GatesPass, Swap!GatesFail, Swap!At, InPlace,
       OnTrial
<1>6. ReliesAt(step)
  BY <1>2, <1>5 DEF ReliesAt, InPlace, Away, OnTrial
<1> QED
  BY <1>1, <1>3, <1>4, <1>5, <1>6, GoesOn

(* The original is proven, and the journal removed or left.                *)
LEMMA OriginalKeeps ==
    ASSUME SwapInv, NEW o \in Operators, Swap!RestartOriginal(o) \/ Swap!Prove(o)
    PROVE  SwapInv'
<1>1. Shape /\ Recoverable /\ Relies(o) /\ ~Swap!At(o, "idle")
  BY DEF SwapInv, Swap!RestartOriginal, Swap!Prove, Swap!At
<1>2. op' = [op EXCEPT ![o] = Swap!Idle] /\ authority' = authority
  BY DEF Swap!RestartOriginal, Swap!Prove, Swap!Leave
<1>3. /\ DOMAIN db' = Swap!Names
      /\ db'["active"] = db["active"] /\ db'["safety"] = db["safety"]
  <2>1. db' = db \/ Swap!Dropped(op[o].own)
    BY DEF Swap!RestartOriginal, Swap!Prove
  <2>2. op[o].own \notin {"active", "safety"}
    BY <1>1 DEF Relies
  <2> QED
    BY <1>1, <2>1, <2>2 DEF Swap!Dropped, Shape, Swap!Names
<1>4. journal' \in {journal, "absent"}
  BY DEF Swap!RestartOriginal, Swap!Prove
<1>5. Recoverable'
  BY <1>1, <1>2, <1>3, <1>4 DEF Recoverable, Swap!Has, Swap!Stopping, Swap!Swapping
<1> QED
  BY <1>1, <1>2, <1>3, <1>5, Ends
-----------------------------------------------------------------------------
(* The swap.                                                               *)

(* Nothing here touches the two names.                                     *)
LEMMA RestoreKeeps ==
    ASSUME NamesApart, SwapInv, NEW o \in Operators,
           Swap!Proceed(o) \/ Swap!RestoreFails(o) \/ Swap!RestoreIntoIsolated(o)
    PROVE  SwapInv'
<1>1. Shape /\ Recoverable /\ Relies(o) /\ ~Swap!At(o, "idle") /\ op[o].at \in InPlace
  BY DEF SwapInv, Swap!Proceed, Swap!RestoreFails, Swap!RestoreIntoIsolated, Swap!At, InPlace
<1>2. UNCHANGED <<journal, authority>>
  BY DEF Swap!Proceed, Swap!RestoreFails, Swap!RestoreIntoIsolated
<1>3. /\ DOMAIN db' = Swap!Names
      /\ db'["active"] = db["active"] /\ db'["safety"] = db["safety"]
  <2>1. PICK name : /\ name \notin {"active", "safety"}
                    /\ \/ db' = db
                       \/ \E contents : db' = [db EXCEPT ![name] = contents]
    BY DEF NamesApart, Swap!Proceed, Swap!RestoreFails, Swap!RestoreIntoIsolated, Swap!Dropped
  <2> QED
    BY <1>1, <2>1 DEF Shape, Swap!Names
<1>4. Recoverable' /\ \A step : ReliesAt(step) => ReliesAt(step)'
  BY <1>1, <1>2, <1>3, Unconcerned
<1>5. ReliesAt("restore") /\ ReliesAt("verified")
  BY <1>1 DEF Relies, ReliesAt, InPlace, Away, OnTrial
<1>6. \/ op' = [op EXCEPT ![o] = Swap!Idle]
      \/ lock' = lock /\ (Swap!Goto(o, "restore") \/ Swap!Goto(o, "verified"))
  BY DEF Swap!Proceed, Swap!RestoreFails, Swap!RestoreIntoIsolated, Swap!Leave
<1>7. CASE op' = [op EXCEPT ![o] = Swap!Idle]
  BY <1>1, <1>3, <1>4, <1>7, Ends
<1>8. CASE lock' = lock /\ (Swap!Goto(o, "restore") \/ Swap!Goto(o, "verified"))
  BY <1>1, <1>3, <1>4, <1>5, <1>8, GoesOn
<1> QED
  BY <1>6, <1>7, <1>8

(* The journal is advanced before what it announces.                       *)
LEMMA WriteJournalKeeps ==
    ASSUME SwapInv, NEW o \in Operators, Swap!WriteJournal(o)
    PROVE  SwapInv'
<1>1. Shape /\ Recoverable /\ ReliesAt(op[o].at)
  BY DEF SwapInv, Relies
<1>2. UNCHANGED <<db, authority, lock>>
  BY DEF Swap!WriteJournal
<1>3. op[o].at \in {"verified", "stopping", "swapping", "renamed", "promoted"}
  BY DEF Swap!WriteJournal, Swap!Mark
<1>4. ~Swap!At(o, "idle") /\ DOMAIN db' = Swap!Names
  BY <1>1, <1>2, <1>3 DEF Swap!At, Shape
<1>5. CASE op[o].at \in {"verified", "stopping", "swapping"}
  <2>1. db["active"] = authority
    BY <1>1, <1>5 DEF ReliesAt, InPlace
  <2>2. PICK step : /\ Swap!Goto(o, step) /\ step \in {"stopping", "quiesce", "drop-safety"}
                    /\ journal' \in {"verify-done", "quiescing", "swap-active-to-safety"}
                    /\ step = "drop-safety" => journal' = "swap-active-to-safety"
    BY <1>5 DEF Swap!WriteJournal, Swap!Mark, Swap!Then
  <2>3. Recoverable'
    BY <1>1, <1>2, <2>1, <2>2 DEF Recoverable, Swap!Has, Swap!Stopping, Swap!Swapping
  <2>4. ReliesAt(step)'
    BY <1>2, <2>1, <2>2 DEF ReliesAt, InPlace, Away, OnTrial
  <2> QED
    BY <1>2, <1>4, <2>2, <2>3, <2>4, GoesOn
<1>6. CASE op[o].at = "renamed"
  <2>1. ~Swap!Has("active") /\ db["safety"] = authority
    BY <1>1, <1>6 DEF ReliesAt, Away
  <2>2. Swap!Goto(o, "rename-verified") /\ journal' = "swap-verified-to-active"
    BY <1>6 DEF Swap!WriteJournal, Swap!Mark, Swap!Then
  <2>3. Recoverable'
    BY <1>1, <1>2, <2>1, <2>2 DEF Recoverable, Swap!Has
  <2>4. ReliesAt("rename-verified")'
    BY <1>2, <2>1, <2>2 DEF ReliesAt, Swap!Has, InPlace, Away, OnTrial, Swap!Swapping
  <2> QED
    BY <1>2, <1>4, <2>2, <2>3, <2>4, GoesOn
<1>7. CASE op[o].at = "promoted"
  <2>1. Swap!Has("active") /\ db["safety"] = authority
    BY <1>1, <1>7 DEF ReliesAt, OnTrial
  <2>2. Swap!Goto(o, "gates") /\ journal' = "post-gates"
    BY <1>7 DEF Swap!WriteJournal, Swap!Mark, Swap!Then
  <2>3. Recoverable'
    BY <1>1, <1>2, <2>1, <2>2 DEF Recoverable, Swap!Has, Swap!Stopping
  <2>4. ReliesAt("gates")'
    BY <1>2, <2>1, <2>2 DEF ReliesAt, Swap!Has, InPlace, Away, OnTrial, Swap!Swapping
  <2> QED
    BY <1>2, <1>4, <2>2, <2>3, <2>4, GoesOn
<1> QED
  BY <1>3, <1>5, <1>6, <1>7

(* The candidate becomes the authority.                                    *)
LEMMA CompleteKeeps ==
    ASSUME SwapInv, NEW o \in Operators, Swap!Complete(o)
    PROVE  SwapInv'
<1>1. Shape /\ Swap!Has("active") /\ ~Swap!At(o, "idle")
  BY DEF SwapInv, Relies, ReliesAt, Swap!Complete, Swap!At, OnTrial
<1>2. db' = db /\ authority' = db["active"] /\ journal' = "complete"
  BY DEF Swap!Complete, Swap!Mark
<1>3. Recoverable'
  BY <1>1, <1>2 DEF Recoverable, Swap!Has, Swap!Swapping
<1>4. op' = [op EXCEPT ![o] = Swap!Idle] /\ DOMAIN db' = Swap!Names
  BY <1>1, <1>2 DEF Swap!Complete, Swap!Leave, Shape
<1> QED
  BY <1>1, <1>3, <1>4, Ends

(* The renames of the swap: the authority leaves the active name only for  *)
(* the safety name, which was freed of what is not the authority.          *)
LEMMA SwapOutKeeps ==
    ASSUME SwapInv, NEW o \in Operators, Swap!DropSafety(o) \/ Swap!RenameActive(o)
    PROVE  SwapInv'
<1>1. Shape /\ Recoverable /\ ReliesAt(op[o].at) /\ ~Swap!At(o, "idle")
  BY DEF SwapInv, Relies, Swap!DropSafety, Swap!RenameActive, Swap!At
<1>2. db["active"] = authority /\ journal \in {"swap-active-to-safety"} \cup Lost
  BY <1>1 DEF Swap!DropSafety, Swap!RenameActive, Swap!At, ReliesAt, InPlace
<1>3. UNCHANGED <<journal, authority, lock>>
  BY DEF Swap!DropSafety, Swap!RenameActive
<1>4. journal \notin Swap!Swapping \cup {"complete"}
  BY <1>2 DEF Lost, Swap!Swapping
<1>5. CASE Swap!DropSafety(o)
  <2>1. db' = [db EXCEPT !["safety"] = Swap!Missing] /\ Swap!Goto(o, "rename-active")
    BY <1>5 DEF Swap!DropSafety, Swap!Dropped
  <2>2. DOMAIN db' = Swap!Names /\ db'["active"] = db["active"]
    BY <1>1, <2>1 DEF Shape
  <2>3. Recoverable'
    BY <1>1, <1>2, <1>3, <1>4, <2>2 DEF Recoverable, Swap!Has
  <2>4. ReliesAt("rename-active")'
    BY <1>2, <1>3, <2>2 DEF ReliesAt, InPlace, Away, OnTrial
  <2> QED
    BY <1>1, <1>3, <2>1, <2>2, <2>3, <2>4, GoesOn
<1>6. CASE Swap!RenameActive(o)
  <2>1. /\ db' = [db EXCEPT !["safety"] = db["active"], !["active"] = Swap!Missing]
        /\ Swap!Goto(o, "renamed")
    BY <1>6 DEF Swap!RenameActive, Swap!Renamed
  <2>2. DOMAIN db' = Swap!Names /\ db'["active"] = Swap!Missing /\ db'["safety"] = authority
    BY <1>1, <1>2, <2>1 DEF Shape, Swap!Names
  <2>3. Recoverable'
    BY <1>1, <1>3, <1>4, <2>2 DEF Recoverable, Swap!Has
  <2>4. ReliesAt("renamed")'
    BY <1>3, <2>2 DEF ReliesAt, Swap!Has, InPlace, Away, OnTrial
  <2> QED
    BY <1>1, <1>3, <2>1, <2>2, <2>3, <2>4, GoesOn
<1> QED
  BY <1>5, <1>6

(* The candidate is active only while the authority is beside it.          *)
LEMMA RenameVerifiedKeeps ==
    ASSUME SwapInv, NEW o \in Operators, Swap!RenameVerified(o)
    PROVE  SwapInv'
<1>1. Shape /\ Recoverable /\ ReliesAt(op[o].at) /\ ~Swap!At(o, "idle")
  BY DEF SwapInv, Relies, Swap!RenameVerified, Swap!At
<1>2. ~Swap!Has("active") /\ db["safety"] = authority /\ journal \in Swap!Swapping \cup Lost
  BY <1>1 DEF Swap!RenameVerified, Swap!At, ReliesAt, Away
<1>3. UNCHANGED <<journal, authority, lock>>
  BY DEF Swap!RenameVerified
<1>4. CASE db' = db /\ Swap!Goto(o, "restore-safety")
  <2>1. Recoverable' /\ DOMAIN db' = Swap!Names
    BY <1>1, <1>3, <1>4, Unconcerned DEF Shape
  <2>2. ReliesAt("restore-safety")'
    BY DEF ReliesAt, InPlace, Away, OnTrial
  <2> QED
    BY <1>1, <1>3, <1>4, <2>1, <2>2, GoesOn
<1>5. CASE /\ Swap!CanRename("isolated", "active") /\ Swap!Renamed("isolated", "active")
           /\ Swap!Goto(o, "promoted")
  <2>1. DOMAIN db' = Swap!Names /\ db'["active"] # Swap!Missing /\ db'["safety"] = authority
    BY <1>1, <1>2, <1>5 DEF Swap!CanRename, Swap!Renamed, Swap!Has, Shape, Swap!Names
  <2>2. journal \notin Swap!Stopping \cup {"verify-done", "complete"}
    BY <1>2 DEF Lost, Swap!Swapping, Swap!Stopping
  <2>3. Recoverable'
    BY <1>1, <1>3, <2>1, <2>2 DEF Recoverable, Swap!Has
  <2>4. ReliesAt("promoted")'
    BY <1>2, <1>3, <2>1 DEF ReliesAt, Swap!Has, InPlace, Away, OnTrial
  <2> QED
    BY <1>1, <1>3, <1>5, <2>1, <2>3, <2>4, GoesOn
<1> QED
  BY <1>4, <1>5 DEF Swap!RenameVerified
-----------------------------------------------------------------------------
(* The way back.                                                           *)

(* The candidate makes room: the authority is beside it.                   *)
LEMMA PreserveKeeps ==
    ASSUME SwapInv, NEW o \in Operators, Swap!Preserve(o)
    PROVE  SwapInv'
<1>1. Shape /\ OneProcess /\ Recoverable /\ Relies(o) /\ ~Swap!At(o, "idle")
  BY DEF SwapInv, Swap!Preserve, Swap!At
<1>2. db["safety"] = authority /\ Swap!Has("active") /\ journal \in Swap!Swapping \cup Lost
  BY <1>1 DEF Swap!Preserve, Relies, ReliesAt, OnTrial
<1>3. Swap!FreeName \notin {"active", "safety"}
  BY <1>1, <1>2 DEF Swap!Preserve, Swap!CanRename, Swap!Has, Recoverable
<1>4. UNCHANGED <<journal, authority, lock>>
  BY DEF Swap!Preserve
<1>5. /\ DOMAIN db' = Swap!Names
      /\ db'["active"] = Swap!Missing /\ db'["safety"] = authority
  BY <1>1, <1>2, <1>3 DEF Swap!Preserve, Swap!Renamed, Shape, Swap!Names
<1>6. journal # "complete"
  BY <1>2 DEF Lost, Swap!Swapping
<1>7. Recoverable'
  BY <1>1, <1>4, <1>5, <1>6 DEF Recoverable, Swap!Has
<1> PICK r : r = [op[o] EXCEPT !.at = "restore-safety",
                               !.own = IF Swap!At(o, "demote") THEN Swap!FreeName ELSE "none"]
  OBVIOUS
<1>8. op' = [op EXCEPT ![o] = r]
  BY <1>1 DEF Swap!Preserve, Shape
<1>9. /\ DOMAIN r = {"at", "mode", "valid", "own"}
      /\ r.at = "restore-safety" /\ r.own \notin {"active", "safety"}
  BY <1>1, <1>3 DEF Shape
<1>10. ReliesAt(r.at)' /\ lock' = o
  BY <1>1, <1>4, <1>9 DEF ReliesAt, InPlace, Away, OnTrial, OneProcess
<1> QED
  BY <1>1, <1>5, <1>7, <1>8, <1>9, <1>10, Moves

(* With no active database, what has the safety name is the authority.     *)
LEMMA RestoreSafetyKeeps ==
    ASSUME SwapInv, NEW o \in Operators, Swap!RestoreSafety(o)
    PROVE  SwapInv'
<1>1. Shape /\ Recoverable /\ ~Swap!At(o, "idle")
  BY DEF SwapInv, Swap!RestoreSafety, Swap!At
<1>2. db["safety"] = authority
  BY <1>1 DEF Swap!RestoreSafety, Swap!CanRename, Swap!Has, Recoverable
<1>3. UNCHANGED <<journal, authority, lock>> /\ Swap!Goto(o, "prove")
  BY DEF Swap!RestoreSafety
<1>4. /\ DOMAIN db' = Swap!Names
      /\ db'["active"] = authority /\ db'["safety"] = Swap!Missing
  BY <1>1, <1>2 DEF Swap!RestoreSafety, Swap!Renamed, Shape, Swap!Names
<1>5. Recoverable'
  BY <1>1, <1>3, <1>4 DEF Recoverable, Swap!Has
<1>6. ReliesAt("prove")'
  BY <1>3, <1>4 DEF ReliesAt, InPlace, Away, OnTrial
<1> QED
  BY <1>1, <1>3, <1>4, <1>5, <1>6, GoesOn
-----------------------------------------------------------------------------
(* What others do.                                                         *)

(* A stale lock is cleared: no live process relied on anything.            *)
LEMMA ClearKeeps ==
    ASSUME NamesApart, SwapInv, Swap!ClearStaleLock
    PROVE  SwapInv'
<1>1. lock \in {"free", "stale"} /\ UNCHANGED <<db, journal, authority, op>>
  BY DEF Swap!ClearStaleLock
<1>2. Recoverable' /\ DOMAIN db' = Swap!Names
  BY <1>1, Unconcerned DEF SwapInv, Shape
<1> QED
  BY <1>1, <1>2, Untended

(* The journal is lost under a process that runs, or while none does.      *)
LEMMA LoseJournalKeeps ==
    ASSUME SwapInv, NEW damage \in Lost, Swap!LoseJournal(damage)
    PROVE  SwapInv'
<1>1. UNCHANGED <<db, authority, op, lock>> /\ journal' \in Lost
  BY DEF Swap!LoseJournal
<1>2. Recoverable' /\ \A step : ReliesAt(step) => ReliesAt(step)'
  BY <1>1, LosingIsAllowedFor DEF SwapInv
<1>3. \A o \in Operators : Relies(o)'
  <2> SUFFICES ASSUME NEW o \in Operators PROVE Relies(o)'
    OBVIOUS
  <2> PICK step : step = op[o].at
    OBVIOUS
  <2>1. ReliesAt(step) /\ op[o].own \notin {"active", "safety"}
    BY DEF SwapInv, Relies
  <2>2. ReliesAt(step)' /\ op'[o].at = step
    BY <1>1, <1>2, <2>1
  <2> QED
    BY <1>1, <2>1, <2>2 DEF Relies, ReliesAt
<1> QED
  BY <1>1, <1>2, <1>3 DEF SwapInv, Shape, OneProcess, Swap!At

(* The journal says that the swap had not begun: the active database is    *)
(* the authority, and the safety copy is an old one.                       *)
LEMMA ArchiveKeeps ==
    ASSUME NamesApart, SwapInv, Swap!ArchiveSafety
    PROVE  SwapInv'
<1>1. Shape /\ Recoverable
  BY DEF SwapInv
<1>2. lock = "free" /\ UNCHANGED <<journal, authority, op>>
  BY DEF Swap!ArchiveSafety
<1>3. db["active"] = authority
  BY <1>1, PlanIsRight DEF Swap!ArchiveSafety, ReliesAt, InPlace
<1>4. DOMAIN db' = Swap!Names /\ db'["active"] = db["active"] /\ db'["safety"] = Swap!Missing
  BY <1>1 DEF Swap!ArchiveSafety, Swap!Dropped, Shape, Swap!Names
<1>5. Recoverable'
  BY <1>1, <1>2, <1>3, <1>4 DEF Recoverable, Swap!Has
<1> QED
  BY <1>2, <1>4, <1>5, Untended

(* By hand, where reconciliation would preserve the candidate.             *)
LEMMA FollowKeeps ==
    ASSUME NamesApart, ManualIsReconciled, SwapInv, Swap!FollowInstructions
    PROVE  SwapInv'
<1>1. Shape /\ Recoverable
  BY DEF SwapInv
<1>2. lock = "free" /\ UNCHANGED <<journal, authority, op>> /\ Swap!PlanReconciliation = "preserve"
  BY DEF Swap!FollowInstructions, ManualIsReconciled
<1>3. db["safety"] = authority /\ journal \in Swap!Swapping \cup Lost
  BY <1>1, <1>2, PlanIsRight DEF ReliesAt
<1>4. /\ DOMAIN db' = Swap!Names
      /\ db'["active"] = db["safety"] /\ db'["safety"] = Swap!Missing
  BY <1>1 DEF Swap!FollowInstructions, Shape, Swap!Names
<1>5. Recoverable'
  BY <1>1, <1>2, <1>3, <1>4 DEF Recoverable, Swap!Has
<1> QED
  BY <1>2, <1>4, <1>5, Untended
-----------------------------------------------------------------------------
(* Every step of every mode keeps the databases recoverable.               *)
LEMMA SwapStep ==
    ASSUME NamesApart, ManualIsReconciled
    PROVE  SwapInv /\ [Swap!Next]_(Swap!vars) => SwapInv'
<1> SUFFICES ASSUME SwapInv, [Swap!Next]_(Swap!vars) PROVE SwapInv'
  OBVIOUS
<1>1. ASSUME NEW o \in Operators, NEW mode, Swap!Acquire(o, mode) PROVE SwapInv'
  BY <1>1, AcquireKeeps
<1>2. ASSUME NEW o \in Operators, GivesUp(o) PROVE SwapInv'
  BY <1>2, GivesUpKeeps
<1>3. ASSUME NEW o \in Operators,
             \/ Swap!Reconcile(o) \/ Swap!RestartAndProceed(o) \/ Swap!Quiesce(o)
             \/ Swap!GatesPass(o)
             \/ Swap!GatesFail(o) \/ Swap!RestartOriginal(o) \/ Swap!Prove(o)
      PROVE  SwapInv'
  BY <1>3, ReconcileKeeps, ServicesKeep, OriginalKeeps
<1>4. ASSUME NEW o \in Operators,
             \/ Swap!Proceed(o) \/ Swap!RestoreFails(o) \/ Swap!RestoreIntoIsolated(o)
             \/ Swap!WriteJournal(o)
             \/ Swap!Complete(o) \/ Swap!DropSafety(o) \/ Swap!RenameActive(o)
             \/ Swap!RenameVerified(o)
             \/ Swap!Preserve(o) \/ Swap!RestoreSafety(o)
      PROVE  SwapInv'
  BY <1>4, RestoreKeeps, WriteJournalKeeps, CompleteKeeps, SwapOutKeeps, RenameVerifiedKeeps,
     PreserveKeeps, RestoreSafetyKeeps
<1>5. ASSUME Swap!ClearStaleLock PROVE SwapInv'
  BY <1>5, ClearKeeps
<1>6. ASSUME NEW damage \in {"absent", "malformed"}, Swap!LoseJournal(damage) PROVE SwapInv'
  BY <1>6, LoseJournalKeeps DEF Lost
<1>7. ASSUME Swap!ArchiveSafety \/ Swap!FollowInstructions PROVE SwapInv'
  BY <1>7, ArchiveKeeps, FollowKeeps
<1>8. ASSUME UNCHANGED Swap!vars PROVE SwapInv'
  BY <1>8 DEF Swap!vars, SwapInv, Shape, OneProcess, Swap!At, Recoverable, Swap!Has, Relies,
       ReliesAt
<1> QED
  BY <1>1, <1>2, <1>3, <1>4, <1>5, <1>6, <1>7, <1>8 DEF Swap!Next, GivesUp

(* What a process relies on is so, whatever became of the others.          *)
THEOREM RecoveryIsReliable ==
    ASSUME NamesApart, ManualIsReconciled
    PROVE  Swap!Spec => []SwapInv
<1>1. Swap!Init => SwapInv
  BY SwapStart
<1>2. SwapInv /\ [Swap!Next]_(Swap!vars) => SwapInv'
  BY SwapStep
<1> QED
  BY <1>1, <1>2, PTL DEF Swap!Spec

(* Wherever recoveries fail or die, whatever is left of the journal, and   *)
(* however many databases failed, the authority is kept under one of the   *)
(* two names, and a candidate is active only while the next operation      *)
(* would roll it back or stop.                                             *)
THEOREM AuthoritySurvives ==
    ASSUME NamesApart, ManualIsReconciled
    PROVE  Swap!Spec => []RestoresAreSafe
<1>1. SwapInv => RestoresAreSafe
  BY DEF SwapInv, Recoverable, RestoresAreSafe, Swap!RestoresAreSafe,
         Swap!AuthorityIsKept, Swap!CandidateIsOnTrial
<1>2. Swap!Spec => []SwapInv
  BY RecoveryIsReliable
<1> QED
  BY <1>1, <1>2, PTL
-----------------------------------------------------------------------------
(* The host in TypeScript, for any number of agents and runs.  A file is   *)
(* written by the one run of its agent, and swept before the agent is      *)
(* served again: what it names is the run that is supervised, or what is   *)
(* left of it.                                                             *)

(* The agents are started one after another, each of them once, and have   *)
(* the runs between them.                                                  *)
HostConstants ==
    /\ Len(Agents) \in Nat /\ DOMAIN Agents = 1..Len(Agents)
    /\ \A i, j \in DOMAIN Agents : Agents[i] = Agents[j] => i = j
    /\ AgentOf \in [HostRuns -> Host!AgentSet]
    /\ IsFiniteSet(HostRuns) /\ NoRun \notin HostRuns

(* A run has processes from its spawn on and none when it is settled, and  *)
(* no other process has its id while its leader lives.                     *)
ProcessesAgree(r) ==
    /\ run[r] = "new" => leader[r] = "none"
    /\ r \in group => leader[r] # "none"
    /\ stranger[r] # "none" => leader[r] = "dead" /\ stranger[r] # "killed"
    /\ run[r] = "done" => leader[r] # "alive" /\ r \notin group

(* The file of an agent names the run that its worker has recorded, and    *)
(* then the orphan that is left of it until the agent is served again.     *)
FileTells(r) ==
    /\ run[r] \in Host!Supervised => Host!Serves(AgentOf[r])
    /\ run[r] = "recorded" => file[AgentOf[r]] = r
    /\ run[r] = "orphan" /\ leader[r] = "alive" =>
           file[AgentOf[r]] = r /\ ~Host!Serves(AgentOf[r])

OneRunEach ==
    \A q, r \in HostRuns :
        (/\ run[q] \in Host!Supervised /\ run[r] \in Host!Supervised
         /\ AgentOf[q] = AgentOf[r]) => q = r

HostInv ==
    /\ Host!TypeOK
    /\ \A r \in HostRuns : ProcessesAgree(r) /\ FileTells(r)
    /\ OneRunEach
-----------------------------------------------------------------------------
(* An instance counts as everyone does.                                    *)
LEMMA HostCount == \A S : Host!Cardinality(S) = Cardinality(S)
  BY DEF Host!Cardinality, Cardinality

(* A worker with a slot supervises nothing.                                *)
LEMMA FreeSlot ==
    ASSUME HostConstants, NEW r \in HostRuns, Host!Cardinality(Host!Peers(r)) < 1
    PROVE  \A q \in HostRuns : AgentOf[q] = AgentOf[r] => run[q] \notin Host!Supervised
<1>1. IsFiniteSet(Host!Peers(r))
  BY FS_Subset DEF HostConstants, Host!Peers
<1>2. Cardinality(Host!Peers(r)) = 0
  BY <1>1, FS_CardinalityType, HostCount
<1>3. Host!Peers(r) = {}
  BY <1>1, <1>2, FS_EmptySet
<1> QED
  BY <1>3 DEF Host!Peers

(* Nothing runs.                                                           *)
LEMMA HostStarts == ASSUME HostConstants PROVE Host!Init => HostInv
<1> SUFFICES ASSUME Host!Init PROVE HostInv
  OBVIOUS
<1>1. Host!TypeOK
  BY DEF Host!Init, Host!TypeOK, HostConstants
<1> QED
  BY <1>1 DEF Host!Init, HostInv, ProcessesAgree, FileTells, OneRunEach, Host!Supervised

(* A worker takes a run, or refuses it.                                    *)
LEMMA TakesKeep ==
    ASSUME HostConstants, HostInv, NEW r \in HostRuns,
           Host!Refuse(r) \/ Host!Spawn(r) \/ Host!SpawnFails(r)
    PROVE  HostInv'
<1>1. /\ run[r] = "new" /\ Host!Serves(AgentOf[r])
      /\ \A q \in HostRuns : AgentOf[q] = AgentOf[r] => run[q] \notin Host!Supervised
      /\ UNCHANGED <<started, orphan, group, stranger>>
  BY FreeSlot DEF Host!Refuse, Host!Spawn, Host!SpawnFails
<1>2. /\ leader[r] = "none" /\ r \notin group /\ stranger[r] = "none"
      /\ r \in DOMAIN run /\ r \in DOMAIN leader /\ AgentOf[r] \in Host!AgentSet
  BY <1>1 DEF HostInv, ProcessesAgree, Host!TypeOK, HostConstants
<1>3. \A a : Host!Serves(a)' <=> Host!Serves(a)
  BY <1>1 DEF Host!Serves
<1>4. /\ \A q \in HostRuns : q # r => run'[q] = run[q] /\ leader'[q] = leader[q]
      /\ run'[r] \in {"done", "spawned"}
      /\ run'[r] = "done" => leader'[r] = "none"
      /\ \A q \in HostRuns : AgentOf[q] # AgentOf[r] => file'[AgentOf[q]] = file[AgentOf[q]]
      /\ Host!TypeOK'
  BY <1>1, <1>2 DEF HostInv, Host!TypeOK, Host!Refuse, Host!Spawn, Host!SpawnFails, Host!Cleared,
                    Host!Supervised, HostConstants
<1>5. \A q \in HostRuns : ProcessesAgree(q)'
  BY <1>1, <1>2, <1>4 DEF HostInv, ProcessesAgree
<1>6. \A q \in HostRuns : q # r /\ AgentOf[q] = AgentOf[r] =>
          run[q] # "recorded" /\ ~(run[q] = "orphan" /\ leader[q] = "alive")
  BY <1>1 DEF HostInv, FileTells, Host!Supervised
<1>7. \A q \in HostRuns : FileTells(q)'
  BY <1>1, <1>2, <1>3, <1>4, <1>6 DEF HostInv, FileTells, Host!Supervised
<1>8. OneRunEach'
  BY <1>1, <1>4 DEF HostInv, OneRunEach, Host!Supervised
<1> QED
  BY <1>4, <1>5, <1>7, <1>8 DEF HostInv

(* The state file is written, or cannot be.                                *)
LEMMA RecordKeeps ==
    ASSUME HostConstants, HostInv, NEW r \in HostRuns, Host!Record(r)
    PROVE  HostInv'
<1>1. /\ run[r] = "spawned" /\ UNCHANGED <<started, orphan, leader, group, term, stranger>>
      /\ AgentOf[r] \in Host!AgentSet /\ Host!Serves(AgentOf[r])
  BY DEF Host!Record, HostInv, FileTells, Host!Supervised, HostConstants
<1>2. /\ \A q \in HostRuns : q # r => run'[q] = run[q]
      /\ run'[r] \in {"recorded", "unrecorded"}
      /\ run'[r] = "recorded" => file'[AgentOf[r]] = r
      /\ \A q \in HostRuns : AgentOf[q] # AgentOf[r] => file'[AgentOf[q]] = file[AgentOf[q]]
      /\ Host!TypeOK'
  BY <1>1 DEF HostInv, Host!TypeOK, Host!Record, Host!Supervised, HostConstants
<1>3. \A a : Host!Serves(a)' <=> Host!Serves(a)
  BY <1>1 DEF Host!Serves
<1>4. \A q \in HostRuns : ProcessesAgree(q)'
  BY <1>1, <1>2 DEF HostInv, ProcessesAgree
<1>5. \A q \in HostRuns : q # r /\ AgentOf[q] = AgentOf[r] =>
          run[q] # "recorded" /\ ~(run[q] = "orphan" /\ leader[q] = "alive")
  BY <1>1 DEF HostInv, FileTells, OneRunEach, Host!Supervised
<1>6. \A q \in HostRuns : FileTells(q)'
  BY <1>1, <1>2, <1>3, <1>5 DEF HostInv, FileTells, Host!Supervised
<1>7. OneRunEach'
  BY <1>1, <1>2 DEF HostInv, OneRunEach, Host!Supervised
<1> QED
  BY <1>2, <1>4, <1>6, <1>7 DEF HostInv

(* A run ends, and with it what the file says of its agent.                *)
LEMMA ExitKeeps ==
    ASSUME HostConstants, HostInv, NEW r \in HostRuns, Host!Exit(r)
    PROVE  HostInv'
<1>1. /\ run[r] \in Host!Supervised /\ leader[r] = "dead" /\ group' = group \ {r}
      /\ UNCHANGED <<started, orphan, leader, term, stranger>>
      /\ AgentOf[r] \in Host!AgentSet /\ Host!Serves(AgentOf[r])
  BY DEF Host!Exit, HostInv, FileTells, Host!Supervised, HostConstants
<1>2. /\ \A q \in HostRuns : q # r => run'[q] = run[q]
      /\ run'[r] = "done"
      /\ \A q \in HostRuns : AgentOf[q] # AgentOf[r] => file'[AgentOf[q]] = file[AgentOf[q]]
      /\ Host!TypeOK'
  BY <1>1 DEF HostInv, Host!TypeOK, Host!Exit, Host!Cleared, HostConstants
<1>3. \A a : Host!Serves(a)' <=> Host!Serves(a)
  BY <1>1 DEF Host!Serves
<1>4. \A q \in HostRuns : ProcessesAgree(q)'
  BY <1>1, <1>2 DEF HostInv, ProcessesAgree
<1>5. \A q \in HostRuns : q # r /\ AgentOf[q] = AgentOf[r] =>
          run[q] # "recorded" /\ ~(run[q] = "orphan" /\ leader[q] = "alive")
  BY <1>1 DEF HostInv, FileTells, OneRunEach, Host!Supervised
<1>6. \A q \in HostRuns : FileTells(q)'
  BY <1>1, <1>2, <1>3, <1>5 DEF HostInv, FileTells, Host!Supervised
<1>7. OneRunEach'
  BY <1>1, <1>2 DEF HostInv, OneRunEach, Host!Supervised
<1> QED
  BY <1>2, <1>4, <1>6, <1>7 DEF HostInv

(* Processes of one group end or fork, whoever ends them.                  *)
LEMMA ProcessesKeep ==
    ASSUME HostConstants, HostInv, NEW r \in HostRuns,
           \/ Host!Escalate(r) \/ Host!KillGroup(r)
           \/ Host!Fork(r) \/ Host!LeaderExits(r) \/ Host!PidReused(r)
    PROVE  HostInv'
<1>1. /\ UNCHANGED <<started, orphan, run, file>>
      /\ Host!TypeOK'
  BY DEF Host!Escalate, Host!KillGroup, Host!Killed, Host!Fork, Host!LeaderExits,
         Host!PidReused, HostInv, Host!TypeOK
<1>2. /\ \A q \in HostRuns : leader'[q] = leader[q] \/ (leader[q] = "alive" /\ leader'[q] = "dead")
      /\ \A q \in group' : q \in group \/ leader[q] = "alive"
      /\ \A q \in HostRuns :
             stranger'[q] = stranger[q] \/ (leader[q] = "dead" /\ stranger'[q] = "alive")
  <2>1. leader \in [HostRuns -> {"none", "alive", "dead"}]
        /\ stranger \in [HostRuns -> {"none", "alive", "killed"}]
    BY DEF HostInv, Host!TypeOK
  <2>2. CASE Host!Escalate(r)
    BY <2>1, <2>2 DEF Host!Escalate
  <2>3. CASE Host!KillGroup(r)
    BY <2>1, <2>3 DEF Host!KillGroup, Host!Killed
  <2>4. CASE Host!Fork(r) \/ Host!LeaderExits(r)
    BY <2>1, <2>4 DEF Host!Fork, Host!LeaderExits
  <2>5. CASE Host!PidReused(r)
    BY <2>1, <2>5 DEF Host!PidReused
  <2> QED
    BY <2>2, <2>3, <2>4, <2>5
<1>3. \A a : Host!Serves(a)' <=> Host!Serves(a)
  BY <1>1 DEF Host!Serves
<1>4. \A q \in HostRuns : ProcessesAgree(q)'
  BY <1>1, <1>2 DEF HostInv, ProcessesAgree
<1>5. \A q \in HostRuns : FileTells(q)'
  BY <1>1, <1>2, <1>3 DEF HostInv, FileTells
<1>6. OneRunEach'
  BY <1>1 DEF HostInv, OneRunEach
<1> QED
  BY <1>1, <1>4, <1>5, <1>6 DEF HostInv

(* The host dies: what was recorded is an orphan.                          *)
LEMMA HostCrashKeeps ==
    ASSUME HostConstants, HostInv, Host!HostCrash
    PROVE  HostInv'
<1>1. /\ UNCHANGED <<leader, group, file, stranger>> /\ started' = -1
      /\ \A r \in HostRuns :
             /\ run[r] = "recorded" => run'[r] = "orphan"
             /\ run[r] \in {"spawned", "unrecorded"} => run'[r] = "lost"
             /\ run[r] \notin Host!Supervised => run'[r] = run[r]
      /\ Host!TypeOK'
  BY DEF Host!HostCrash, HostInv, Host!TypeOK, Host!Supervised, HostConstants
<1>2. \A a : ~Host!Serves(a)'
  BY <1>1 DEF Host!Serves, HostConstants
<1>3. \A r \in HostRuns : run'[r] \notin Host!Supervised
  BY <1>1 DEF Host!Supervised
<1>4. \A r \in HostRuns : ProcessesAgree(r)'
  BY <1>1 DEF HostInv, ProcessesAgree, Host!Supervised, Host!TypeOK
<1>5. \A r \in HostRuns : FileTells(r)'
  BY <1>1, <1>2, <1>3 DEF HostInv, FileTells, Host!Supervised
<1> QED
  BY <1>1, <1>3, <1>4, <1>5 DEF HostInv, OneRunEach

(* It starts again, and serves no agent yet.                               *)
LEMMA HostStartKeeps ==
    ASSUME HostConstants, HostInv, Host!HostStart
    PROVE  HostInv'
<1>1. /\ UNCHANGED <<orphan, run, leader, group, term, file, stranger>>
      /\ started = -1 /\ started' = 0 /\ Host!TypeOK'
  BY DEF Host!HostStart, Host!Down, HostInv, Host!TypeOK, HostConstants
<1>2. \A a : ~Host!Serves(a) /\ ~Host!Serves(a)'
  BY <1>1 DEF Host!Serves, HostConstants
<1> QED
  BY <1>1, <1>2 DEF HostInv, ProcessesAgree, FileTells, OneRunEach

(* The agent whose turn it is has no worker yet, and then has one.         *)
LEMMA Upcomes ==
    ASSUME HostConstants, HostInv, Host!Starting
    PROVE  /\ Host!Upcoming \in Host!AgentSet /\ ~Host!Serves(Host!Upcoming)
           /\ started \in Nat /\ started + 1 <= Len(Agents)
           /\ started' = started + 1 =>
                  \A a : Host!Serves(a)' <=> Host!Serves(a) \/ a = Host!Upcoming
           /\ \A r \in HostRuns : AgentOf[r] = Host!Upcoming => run[r] \notin Host!Supervised
<1>1. started \in 0..Len(Agents) /\ started + 1 \in DOMAIN Agents
  BY DEF HostConstants, HostInv, Host!TypeOK, Host!Starting, Host!Down
<1>2. Host!Upcoming \in Host!AgentSet /\ ~Host!Serves(Host!Upcoming)
  BY <1>1 DEF Host!Upcoming, Host!AgentSet, Host!Serves, HostConstants
<1>3. ASSUME started' = started + 1
      PROVE  \A a : Host!Serves(a)' <=> Host!Serves(a) \/ a = Host!Upcoming
  <2>1. \A i \in DOMAIN Agents : i <= started + 1 <=> i <= started \/ i = started + 1
    BY <1>1 DEF HostConstants
  <2> QED
    BY <1>1, <1>3, <2>1 DEF Host!Serves, Host!Upcoming
<1>4. \A r \in HostRuns : AgentOf[r] = Host!Upcoming => run[r] \notin Host!Supervised
  BY <1>2 DEF HostInv, FileTells
<1> QED
  BY <1>1, <1>2, <1>3, <1>4

(* No orphan of the agent is left when it is served.                       *)
LEMMA ServedKeeps ==
    ASSUME HostConstants, HostInv, Host!Starting, started' = started + 1,
           Host!Cleared(Host!Upcoming), UNCHANGED <<term, stranger>>,
           Host!TypeOK',
           \A r \in HostRuns :
               /\ leader'[r] = leader[r] \/ (leader[r] = "alive" /\ leader'[r] = "dead")
               /\ run'[r] = run[r] \/ run'[r] = "lost"
               /\ AgentOf[r] = Host!Upcoming => ~(run'[r] = "orphan" /\ leader'[r] = "alive"),
           group' \subseteq group
    PROVE  HostInv'
<1>1. /\ ~Host!Serves(Host!Upcoming)
      /\ \A a : Host!Serves(a)' <=> Host!Serves(a) \/ a = Host!Upcoming
      /\ \A r \in HostRuns : AgentOf[r] = Host!Upcoming => run[r] \notin Host!Supervised
      /\ Host!Upcoming \in Host!AgentSet
  BY Upcomes
<1>2. \A r \in HostRuns : AgentOf[r] # Host!Upcoming => file'[AgentOf[r]] = file[AgentOf[r]]
  BY <1>1 DEF Host!Cleared, HostInv, Host!TypeOK, HostConstants
<1>3. \A r \in HostRuns : ProcessesAgree(r)'
  BY DEF HostInv, ProcessesAgree
<1>4. \A r \in HostRuns : FileTells(r)'
  BY <1>1, <1>2 DEF HostInv, FileTells, Host!Supervised
<1>5. OneRunEach'
  BY DEF HostInv, OneRunEach, Host!Supervised
<1> QED
  BY <1>3, <1>4, <1>5 DEF HostInv

(* The sweep of an agent's state file, and what it ends.                   *)
LEMMA SweepKeeps ==
    ASSUME HostConstants, HostInv, Host!NoOrphan \/ Host!SkipOrphan \/ Host!EndOrphan
    PROVE  HostInv'
<1>1. Host!Starting /\ started' = started + 1 /\ Host!Cleared(Host!Upcoming)
      /\ UNCHANGED <<term, stranger>>
  BY DEF Host!NoOrphan, Host!SkipOrphan, Host!EndOrphan
<1>2. PICK found : found = Host!Found
  OBVIOUS
<1>3. /\ found \in HostRuns \cup {NoRun} /\ NoRun \notin HostRuns
      /\ Host!Upcoming \in Host!AgentSet /\ started + 1 \in -1..Len(Agents)
      /\ \A r \in HostRuns :
             AgentOf[r] = Host!Upcoming /\ run[r] = "orphan" /\ leader[r] = "alive" =>
                 r = found
  BY <1>1, <1>2, Upcomes DEF HostInv, FileTells, Host!Found, Host!TypeOK, HostConstants
<1>4. /\ started' \in -1..Len(Agents)
      /\ file' \in [Host!AgentSet -> HostRuns \cup {NoRun}]
      /\ term' \subseteq HostRuns /\ stranger' \in [HostRuns -> {"none", "alive", "killed"}]
  BY <1>1, <1>3 DEF Host!Cleared, HostInv, Host!TypeOK
<1>5. CASE Host!NoOrphan
  <2>1. /\ UNCHANGED <<orphan, run, leader, group>>
        /\ found \in HostRuns => leader[found] # "alive"
    BY <1>2, <1>3, <1>5 DEF Host!NoOrphan, Host!NothingRuns, Host!PidAlive
  <2>2. Host!TypeOK'
    BY <1>4, <2>1 DEF HostInv, Host!TypeOK
  <2> QED
    BY <1>1, <1>3, <2>1, <2>2, ServedKeeps
<1>6. CASE Host!SkipOrphan
  <2>1. /\ UNCHANGED <<orphan, leader, group>> /\ found \in HostRuns
        /\ run' = [run EXCEPT ![found] = "lost"]
    BY <1>2, <1>3, <1>6 DEF Host!SkipOrphan
  <2>2. Host!TypeOK'
    BY <1>4, <2>1 DEF HostInv, Host!TypeOK
  <2>3. \A r \in HostRuns : run'[r] = IF r = found THEN "lost" ELSE run[r]
    BY <2>1 DEF HostInv, Host!TypeOK
  <2> QED
    BY <1>1, <1>3, <2>1, <2>2, <2>3, ServedKeeps
<1>7. CASE Host!EndOrphan
  <2>1. UNCHANGED run /\ orphan' = "unseen"
    BY <1>7 DEF Host!EndOrphan
  <2>2. CASE Host!PidAlive(found)
    <3>1. /\ leader' = [leader EXCEPT ![found] = IF @ = "alive" THEN "dead" ELSE @]
          /\ group' = group \ {found}
      BY <1>2, <1>7, <2>2 DEF Host!EndOrphan, Host!Killed
    <3>2. /\ Host!TypeOK'
          /\ \A r \in HostRuns :
                 leader'[r] = IF r = found /\ leader[r] = "alive" THEN "dead" ELSE leader[r]
      BY <1>4, <2>1, <3>1 DEF HostInv, Host!TypeOK
    <3> QED
      BY <1>1, <1>3, <2>1, <3>1, <3>2, ServedKeeps
  <2>3. CASE ~Host!PidAlive(found)
    <3>1. UNCHANGED <<leader, group>> /\ leader[found] # "alive"
      BY <1>2, <1>7, <2>3 DEF Host!EndOrphan, Host!PidAlive
    <3>2. Host!TypeOK'
      BY <1>4, <2>1, <3>1 DEF HostInv, Host!TypeOK
    <3> QED
      BY <1>1, <1>3, <2>1, <3>1, <3>2, ServedKeeps
  <2> QED
    BY <2>2, <2>3
<1> QED
  BY <1>5, <1>6, <1>7

(* The signal reaches the run that was found, and nothing else.            *)
LEMMA SignalOrphanKeeps ==
    ASSUME HostConstants, HostInv, Host!SignalOrphan
    PROVE  HostInv'
<1>1. PICK found : found = Host!Found
  OBVIOUS
<1>2. /\ found \in HostRuns /\ leader[found] = "alive"
      /\ UNCHANGED <<started, run, term, file>> /\ orphan' = "signalled"
      /\ leader' \in {leader, [leader EXCEPT ![found] = IF @ = "alive" THEN "dead" ELSE @]}
      /\ group' \in {group, group \ {found}}
      /\ stranger' = [stranger EXCEPT ![found] = IF @ = "alive" THEN "killed" ELSE @]
  <2>1. Host!Upcoming \in Host!AgentSet
    BY Upcomes DEF Host!SignalOrphan
  <2> QED
    BY <1>1, <2>1 DEF Host!SignalOrphan, Host!IsTheRun, Host!Found, HostInv, Host!TypeOK
<1>3. stranger[found] = "none"
  BY <1>2 DEF HostInv, ProcessesAgree
<1>4. /\ stranger' = stranger /\ group' \subseteq group /\ Host!TypeOK'
      /\ \A r \in HostRuns :
             leader'[r] = leader[r] \/ (leader[r] = "alive" /\ leader'[r] = "dead")
  BY <1>2, <1>3 DEF HostInv, Host!TypeOK
<1>5. \A a : Host!Serves(a)' <=> Host!Serves(a)
  BY <1>2 DEF Host!Serves
<1>6. \A r \in HostRuns : ProcessesAgree(r)' /\ FileTells(r)'
  BY <1>2, <1>4, <1>5 DEF HostInv, ProcessesAgree, FileTells
<1> QED
  BY <1>2, <1>4, <1>6 DEF HostInv, OneRunEach

(* Every step of the host, of its runs and of their processes.             *)
LEMMA HostStep ==
    ASSUME HostConstants PROVE HostInv /\ [Host!Next]_(Host!vars) => HostInv'
<1> SUFFICES ASSUME HostInv, [Host!Next]_(Host!vars) PROVE HostInv'
  OBVIOUS
<1>1. ASSUME NEW r \in HostRuns, Host!Refuse(r) \/ Host!Spawn(r) \/ Host!SpawnFails(r)
      PROVE  HostInv'
  BY <1>1, TakesKeep
<1>2. ASSUME NEW r \in HostRuns, Host!Record(r) \/ Host!Exit(r) PROVE HostInv'
  BY <1>2, RecordKeeps, ExitKeeps
<1>3. ASSUME NEW r \in HostRuns,
             \/ Host!Escalate(r) \/ Host!KillGroup(r)
             \/ Host!Fork(r) \/ Host!LeaderExits(r) \/ Host!PidReused(r)
      PROVE  HostInv'
  BY <1>3, ProcessesKeep
<1>4. CASE Host!HostCrash \/ Host!HostStart
  BY <1>4, HostCrashKeeps, HostStartKeeps
<1>5. CASE Host!NoOrphan \/ Host!SkipOrphan \/ Host!SignalOrphan \/ Host!EndOrphan
  BY <1>5, SweepKeeps, SignalOrphanKeeps
<1>6. CASE UNCHANGED Host!vars
  BY <1>6 DEF Host!vars, HostInv, Host!TypeOK, ProcessesAgree, FileTells, OneRunEach, Host!Serves
<1> QED
  BY <1>1, <1>2, <1>3, <1>4, <1>5, <1>6 DEF Host!Next

(* What a host in TypeScript finds in a state file is what its agent left. *)
THEOREM OrphansAreFound == ASSUME HostConstants PROVE Host!Spec => []HostInv
<1>1. Host!Init => HostInv
  BY HostStarts
<1>2. HostInv /\ [Host!Next]_(Host!vars) => HostInv'
  BY HostStep
<1> QED
  BY <1>1, <1>2, PTL DEF Host!Spec
-----------------------------------------------------------------------------
(* The host in Rust, for any number of requests and permits.  Whoever is in*)
(* its memory holds a permit; nothing is while it is down or sweeps.       *)

(* Requests are records, and none is the empty state file.                 *)
NativeConstants == IsFiniteSet(Requests) /\ NoRun \notin Requests /\ Permits \in Nat

NativeTypes ==
    /\ daemon \in {"down", "signalled", "up", "stopping"}
    /\ posted \in [Requests -> {"new", "checked", "permitted", "answered"}]
    /\ work \in [Requests -> Native!InMemory \cup {"none", "done", "orphan", "lost"}]
    /\ head \in [Requests -> {"none", "alive", "dead"}]
    /\ kin \subseteq Requests /\ kept \in Requests \cup {NoRun}

(* A request that is not answered has no run yet.                          *)
(* A run is in the memory of a host that is up, has processes from its     *)
(* spawn on and none when it is settled; an orphan that still runs is the  *)
(* one the file names, until the host listens again.                       *)
NativeRun(r) ==
    /\ posted[r] # "answered" => work[r] = "none"
    /\ work[r] \in Native!InMemory => Native!Up
    /\ work[r] \in {"none", "accepted", "resolved", "placed"} => head[r] = "none"
    /\ work[r] \in {"spawned", "written", "supervised"} => head[r] # "none"
    /\ r \in kin => head[r] # "none"
    /\ work[r] \in {"settled", "done"} => head[r] # "alive" /\ r \notin kin
    /\ work[r] = "orphan" /\ head[r] = "alive" => kept = r /\ ~Native!Up

NativeInv ==
    /\ NativeTypes
    /\ \A r \in Requests : NativeRun(r)
    /\ Native!Cardinality(Native!Holders) <= Permits
-----------------------------------------------------------------------------
(* An instance counts as everyone does.                                    *)
LEMMA NativeCount == \A S : Native!Cardinality(S) = Cardinality(S)
  BY DEF Native!Cardinality, Cardinality

(* Whoever gives up a permit gives it back.                                *)
LEMMA PermitsStay ==
    ASSUME NativeConstants, NativeInv,
           \A r \in Requests : r \in Native!Holders' => r \in Native!Holders
    PROVE  Native!Cardinality(Native!Holders') <= Permits
<1>1. PICK old : old = Native!Holders
  OBVIOUS
<1>2. PICK new : new = Native!Holders'
  OBVIOUS
<1>3. IsFiniteSet(old) /\ new \subseteq old
  BY <1>1, <1>2, FS_Subset DEF NativeConstants, Native!Holders
<1>4. IsFiniteSet(new) /\ Cardinality(new) <= Cardinality(old)
  BY <1>3, FS_Subset
<1>5. Cardinality(new) \in Nat /\ Cardinality(old) \in Nat
  BY <1>3, <1>4, FS_CardinalityType
<1> QED
  BY <1>1, <1>2, <1>4, <1>5, NativeCount DEF NativeInv, NativeConstants

(* No run, and a permit for each.                                          *)
LEMMA NativeStarts == ASSUME NativeConstants PROVE Native!Init => NativeInv
<1> SUFFICES ASSUME Native!Init PROVE NativeInv
  OBVIOUS
<1>1. Native!Holders = {}
  BY DEF Native!Init, Native!Holders, Native!InMemory
<1>2. Native!Cardinality(Native!Holders) <= Permits
  BY <1>1, FS_EmptySet, NativeCount DEF NativeConstants
<1> QED
  BY <1>2 DEF Native!Init, NativeInv, NativeTypes, NativeRun, Native!InMemory, Native!Up

(* Requests that are checked or refused.                                   *)
LEMMA CheckKeeps ==
    ASSUME NativeConstants, NativeInv, NEW r \in Requests, Native!Check(r)
    PROVE  NativeInv'
<1>1. /\ UNCHANGED <<daemon, work, head, kin, kept>>
      /\ posted' \in [Requests -> {"new", "checked", "permitted", "answered"}]
      /\ \A q \in Requests : /\ posted'[q] = "permitted" => posted[q] = "permitted"
                             /\ posted[q] = "answered" => posted'[q] = "answered"
  BY DEF Native!Check, Native!processVars, NativeInv, NativeTypes
<1>2. Native!Cardinality(Native!Holders') <= Permits
  BY <1>1, PermitsStay DEF Native!Holders
<1>3. NativeTypes' /\ \A q \in Requests : NativeRun(q)'
  BY <1>1 DEF NativeInv, NativeTypes, NativeRun, Native!Up
<1> QED
  BY <1>2, <1>3 DEF NativeInv, Native!Holders

(* A permit is given while there is one.                                   *)
LEMMA PermitKeeps ==
    ASSUME NativeConstants, NativeInv, NEW r \in Requests, Native!Acquire(r)
    PROVE  NativeInv'
<1>1. /\ UNCHANGED <<daemon, work, head, kin, kept>>
      /\ posted' \in [Requests -> {"new", "checked", "permitted", "answered"}]
      /\ \A q \in Requests : posted[q] = "answered" => posted'[q] = "answered"
  BY DEF Native!Acquire, Native!processVars, NativeInv, NativeTypes
<1>2. NativeTypes' /\ \A q \in Requests : NativeRun(q)'
  BY <1>1 DEF NativeInv, NativeTypes, NativeRun, Native!Up
<1>3. PICK old : old = Native!Holders
  OBVIOUS
<1>4. PICK new : new = Native!Holders'
  OBVIOUS
<1>5. IsFiniteSet(old) /\ Cardinality(old) \in Nat
  BY <1>3, FS_Subset, FS_CardinalityType DEF NativeConstants, Native!Holders
<1>6. CASE Native!Cardinality(Native!Holders) < Permits
  <2>1. new \subseteq old \cup {r}
    BY <1>1, <1>3, <1>4, <1>6 DEF Native!Acquire, Native!Holders, NativeInv, NativeTypes
  <2>2. /\ IsFiniteSet(old \cup {r}) /\ Cardinality(old \cup {r}) <= Cardinality(old) + 1
        /\ Cardinality(old \cup {r}) \in Nat
    <3>1. /\ IsFiniteSet(old \cup {r})
          /\ Cardinality(old \cup {r}) = Cardinality(old)
                \/ Cardinality(old \cup {r}) = Cardinality(old) + 1
      BY <1>5, FS_AddElement
    <3> QED
      BY <1>5, <3>1
  <2>3. Cardinality(new) <= Cardinality(old \cup {r}) /\ Cardinality(new) \in Nat
    BY <2>1, <2>2, FS_Subset, FS_CardinalityType
  <2>4. Native!Cardinality(Native!Holders') <= Permits
    BY <1>3, <1>4, <1>5, <1>6, <2>2, <2>3, NativeCount DEF NativeConstants
  <2> QED
    BY <1>2, <2>4 DEF NativeInv, Native!Holders
<1>7. CASE ~(Native!Cardinality(Native!Holders) < Permits)
  <2>1. \A q \in Requests : posted'[q] = "permitted" => posted[q] = "permitted"
    BY <1>7 DEF Native!Acquire, NativeInv, NativeTypes
  <2>2. Native!Cardinality(Native!Holders') <= Permits
    BY <1>1, <2>1, PermitsStay DEF Native!Holders
  <2> QED
    BY <1>2, <2>2 DEF NativeInv, Native!Holders
<1> QED
  BY <1>6, <1>7

(* A run goes on with the permit of its request.                           *)
LEMMA RunGoes ==
    ASSUME NativeConstants, NativeInv, NEW r \in Requests, Native!Up, UNCHANGED daemon,
           NEW stage \in Native!InMemory \cup {"done"}, work' = [work EXCEPT ![r] = stage],
           posted' = [posted EXCEPT ![r] = "answered"],
           r \in Native!Holders,
           head' \in [Requests -> {"none", "alive", "dead"}], kin' \subseteq kin,
           \A q \in Requests : q # r => head'[q] = head[q],
           kept' \in {kept, r, NoRun},
           stage \in {"accepted", "resolved", "placed"} => head'[r] = "none",
           stage \in {"spawned", "written", "supervised"} => head'[r] # "none",
           stage \in {"settled", "done"} => head'[r] # "alive" /\ r \notin kin',
           r \in kin' => head'[r] # "none"
    PROVE  NativeInv'
<1>1. /\ \A q \in Requests : work'[q] = IF q = r THEN stage ELSE work[q]
      /\ \A q \in Requests : posted'[q] = IF q = r THEN "answered" ELSE posted[q]
  BY DEF NativeInv, NativeTypes
<1>2. NativeTypes'
  BY DEF NativeInv, NativeTypes
<1>3. \A q \in Requests : NativeRun(q)'
  <2>1. Native!Up'
    BY DEF Native!Up
  <2>2. \A q \in Requests : ~(work[q] = "orphan" /\ head[q] = "alive")
    BY DEF NativeInv, NativeRun
  <2>3. ASSUME NEW q \in Requests, q # r PROVE NativeRun(q)'
    BY <1>1, <2>1, <2>2, <2>3 DEF NativeInv, NativeRun
  <2>4. NativeRun(r)'
    BY <1>1, <2>1 DEF NativeRun, Native!InMemory
  <2> QED
    BY <2>3, <2>4
<1>4. Native!Cardinality(Native!Holders') <= Permits
  BY <1>1, PermitsStay DEF Native!Holders
<1> QED
  BY <1>2, <1>3, <1>4 DEF NativeInv, Native!Holders

(* What a stage finds: a run that was accepted, with a permit.             *)
LEMMA AtStage ==
    ASSUME NativeInv, NEW r \in Requests, NEW stage \in Native!InMemory, Native!IsAt(r, stage)
    PROVE  /\ Native!Up /\ work[r] = stage /\ NativeRun(r)
           /\ r \in Native!Holders /\ posted = [posted EXCEPT ![r] = "answered"]
           /\ head \in [Requests -> {"none", "alive", "dead"}]
  BY DEF Native!IsAt, NativeInv, NativeTypes, NativeRun, Native!Holders, Native!InMemory

(* Every stage of run_once up to the spawn.                                *)
LEMMA EarlyStagesKeep ==
    ASSUME NativeConstants, NativeInv, NEW r \in Requests,
           \/ Native!Accept(r) \/ Native!Resolve(r) \/ Native!Place(r)
           \/ Native!Spawn(r) \/ Native!SpawnFails(r)
    PROVE  NativeInv'
<1>1. CASE Native!Accept(r)
  <2>1. /\ Native!Up /\ posted[r] = "permitted" /\ UNCHANGED <<daemon, head, kin, kept>>
        /\ posted' = [posted EXCEPT ![r] = "answered"]
        /\ work' = [work EXCEPT ![r] = "accepted"]
    BY <1>1 DEF Native!Accept, Native!processVars
  <2>2. /\ r \in Native!Holders /\ head \in [Requests -> {"none", "alive", "dead"}]
        /\ head[r] = "none" /\ r \notin kin /\ "accepted" \in Native!InMemory
    BY <2>1 DEF Native!Holders, NativeInv, NativeTypes, NativeRun, Native!InMemory
  <2> QED
    BY <2>1, <2>2, RunGoes
<1>2. CASE Native!Resolve(r) \/ Native!Place(r) \/ Native!SpawnFails(r)
  <2>1. PICK stage \in {"accepted", "resolved", "placed"} : Native!IsAt(r, stage)
    BY <1>2 DEF Native!Resolve, Native!Place, Native!SpawnFails
  <2>2. /\ Native!Up /\ work[r] = stage /\ NativeRun(r) /\ r \in Native!Holders
        /\ posted = [posted EXCEPT ![r] = "answered"]
        /\ head \in [Requests -> {"none", "alive", "dead"}]
    BY <2>1, AtStage DEF Native!InMemory
  <2>3. head[r] = "none" /\ r \notin kin
    BY <2>2 DEF NativeRun
  <2>4. /\ UNCHANGED <<daemon, posted, head, kin>> /\ kept' \in {kept, NoRun}
        /\ \E next \in {"resolved", "placed", "settled"} : work' = [work EXCEPT ![r] = next]
    BY <1>2 DEF Native!Resolve, Native!Place, Native!SpawnFails, Native!Proceeds, Native!Goes,
                Native!processVars, Native!requestVars
  <2>5. PICK next \in {"resolved", "placed", "settled"} : work' = [work EXCEPT ![r] = next]
    BY <2>4
  <2>6. next \in Native!InMemory
    BY DEF Native!InMemory
  <2> QED
    BY <2>2, <2>3, <2>4, <2>5, <2>6, RunGoes
<1>3. CASE Native!Spawn(r)
  <2>1. /\ Native!Up /\ NativeRun(r) /\ r \in Native!Holders
        /\ posted = [posted EXCEPT ![r] = "answered"]
        /\ head \in [Requests -> {"none", "alive", "dead"}]
    BY <1>3, AtStage DEF Native!Spawn, Native!InMemory
  <2>2. /\ UNCHANGED <<daemon, posted, kin, kept>> /\ work' = [work EXCEPT ![r] = "spawned"]
        /\ head' = [head EXCEPT ![r] = "alive"] /\ "spawned" \in Native!InMemory
    BY <1>3 DEF Native!Spawn, Native!Goes, Native!requestVars, Native!InMemory
  <2> QED
    BY <2>1, <2>2, RunGoes
<1> QED
  BY <1>1, <1>2, <1>3

(* Every later stage.                                                      *)
LEMMA LateStagesKeep ==
    ASSUME NativeConstants, NativeInv, NEW r \in Requests,
           \/ Native!Record(r) \/ Native!WriteInput(r) \/ Native!Reap(r)
           \/ Native!Settle(r) \/ Native!Deliver(r)
    PROVE  NativeInv'
<1>1. PICK stage \in {"spawned", "written", "supervised", "draining", "settled"} :
          Native!IsAt(r, stage)
  BY DEF Native!Record, Native!WriteInput, Native!Reap, Native!Settle, Native!Deliver
<1>2. /\ Native!Up /\ work[r] = stage /\ NativeRun(r) /\ r \in Native!Holders
      /\ posted = [posted EXCEPT ![r] = "answered"]
      /\ head \in [Requests -> {"none", "alive", "dead"}]
  BY <1>1, AtStage DEF Native!InMemory
<1>3. CASE Native!Record(r) \/ Native!WriteInput(r) \/ Native!Reap(r)
  <2>1. /\ UNCHANGED <<daemon, posted, head, kin>> /\ kept' \in {kept, r}
        /\ \E next \in {"written", "supervised", "draining"} : work' = [work EXCEPT ![r] = next]
    BY <1>3 DEF Native!Record, Native!WriteInput, Native!Reap, Native!Goes,
                Native!processVars, Native!requestVars
  <2>2. PICK next \in {"written", "supervised", "draining"} : work' = [work EXCEPT ![r] = next]
    BY <2>1
  <2>3. next \in Native!InMemory
    BY DEF Native!InMemory
  <2>4. head[r] # "none"
    BY <1>2, <1>3 DEF Native!Record, Native!WriteInput, Native!Reap, Native!IsAt, NativeRun
  <2> QED
    BY <1>2, <2>1, <2>2, <2>3, <2>4, RunGoes DEF NativeRun
<1>4. CASE Native!Settle(r)
  <2>1. /\ UNCHANGED <<daemon, posted>> /\ kept' = NoRun /\ kin' = kin \ {r}
        /\ head' = [head EXCEPT ![r] = IF @ = "alive" THEN "dead" ELSE @]
        /\ work' = [work EXCEPT ![r] = "settled"] /\ "settled" \in Native!InMemory
    BY <1>4 DEF Native!Settle, Native!Kill, Native!Goes, Native!requestVars, Native!InMemory
  <2> QED
    BY <1>2, <2>1, RunGoes
<1>5. CASE Native!Deliver(r)
  <2>1. /\ UNCHANGED <<daemon, posted, head, kin, kept>> /\ work[r] = "settled"
        /\ work' = [work EXCEPT ![r] = "done"]
    BY <1>5 DEF Native!Deliver, Native!IsAt, Native!Goes, Native!processVars, Native!requestVars
  <2> QED
    BY <1>2, <2>1, RunGoes DEF NativeRun
<1> QED
  BY <1>3, <1>4, <1>5

(* Processes end or fork; only those that run do.                          *)
LEMMA GroupsKeep ==
    ASSUME NativeConstants, NativeInv, NEW r \in Requests,
           \/ Native!Escalate(r) \/ Native!GraceEnds(r) \/ Native!LimitHit(r)
           \/ Native!Fork(r) \/ Native!LeaderExits(r) \/ Native!DescendantsEnd(r)
    PROVE  NativeInv'
<1>1. /\ head \in [Requests -> {"none", "alive", "dead"}] /\ kin \subseteq Requests
  BY DEF NativeInv, NativeTypes
<1>2. /\ UNCHANGED <<daemon, posted, work, kept>>
      /\ head' \in [Requests -> {"none", "alive", "dead"}] /\ kin' \subseteq Requests
      /\ \A q \in Requests : head'[q] # head[q] => head[q] # "none" /\ head'[q] = "dead"
      /\ \A q \in kin' : q \in kin \/ head[q] = "alive"
  <2>1. CASE Native!Escalate(r)
    <3>1. head[r] # "none"
      <4>1. work[r] = "supervised" /\ NativeRun(r)
        BY <2>1 DEF Native!Escalate, Native!IsAt, NativeInv
      <4> QED
        BY <4>1 DEF NativeRun
    <3> QED
      BY <1>1, <2>1, <3>1 DEF Native!Escalate, Native!requestVars
  <2>2. CASE Native!GraceEnds(r) \/ Native!LimitHit(r)
    BY <1>1, <2>2 DEF Native!GraceEnds, Native!LimitHit, Native!Kill, Native!requestVars
  <2>3. CASE Native!Fork(r)
    BY <1>1, <2>3 DEF Native!Fork, Native!requestVars
  <2>4. CASE Native!LeaderExits(r)
    BY <1>1, <2>4 DEF Native!LeaderExits, Native!requestVars
  <2>5. CASE Native!DescendantsEnd(r)
    BY <1>1, <2>5 DEF Native!DescendantsEnd, Native!requestVars
  <2> QED
    BY <2>1, <2>2, <2>3, <2>4, <2>5
<1>3. \A q \in Requests : NativeRun(q)'
  BY <1>2 DEF NativeInv, NativeRun, Native!Up
<1>4. Native!Cardinality(Native!Holders') <= Permits
  BY <1>2, PermitsStay DEF Native!Holders
<1> QED
  BY <1>2, <1>3, <1>4 DEF NativeInv, NativeTypes, Native!Holders

(* The host dies or ends: it holds nothing any more.                       *)
LEMMA ForgetsKeep ==
    ASSUME NativeConstants, NativeInv, Native!Crash \/ Native!Exit
    PROVE  NativeInv'
<1>1. /\ Native!Forgotten /\ daemon' = "down" /\ UNCHANGED <<kin, kept>>
      /\ head' \in [Requests -> {"none", "alive", "dead"}]
      /\ \A q \in Requests : head'[q] # head[q] => head[q] # "none" /\ head'[q] = "dead"
  BY DEF Native!Crash, Native!Exit, Native!processVars, NativeInv, NativeTypes
<1>2. /\ posted' \in [Requests -> {"new", "answered"}]
      /\ work' \in [Requests -> {"none", "done", "orphan", "lost"}]
      /\ \A q \in Requests :
             /\ posted'[q] # "answered" => posted[q] # "answered"
             /\ work[q] \notin Native!InMemory => work'[q] = work[q]
             /\ work[q] \in Native!InMemory =>
                    work'[q] \in {"orphan", "lost"} /\ (work'[q] = "orphan" => kept = q)
  BY <1>1 DEF Native!Forgotten, NativeInv, NativeTypes
<1>3. NativeTypes'
  BY <1>1, <1>2 DEF NativeInv, NativeTypes
<1>4. \A q \in Requests : NativeRun(q)'
  BY <1>1, <1>2 DEF NativeInv, NativeRun, Native!Up, Native!InMemory
<1>5. Native!Cardinality(Native!Holders') <= Permits
  BY <1>2, PermitsStay DEF Native!Holders, Native!InMemory
<1> QED
  BY <1>3, <1>4, <1>5 DEF NativeInv, Native!Holders

(* An interrupt.                                                           *)
LEMMA InterruptKeeps ==
    ASSUME NativeConstants, NativeInv, Native!Interrupt
    PROVE  NativeInv'
<1>1. /\ UNCHANGED <<posted, work, head, kin, kept>>
      /\ daemon = "up" /\ daemon' = "stopping"
  BY DEF Native!Interrupt, Native!Listening, Native!requestVars, Native!processVars
<1>2. Native!Cardinality(Native!Holders') <= Permits
  BY <1>1, PermitsStay DEF Native!Holders
<1> QED
  BY <1>1, <1>2 DEF NativeInv, NativeTypes, NativeRun, Native!Up, Native!Holders

(* The sweep: what the file names is ended or left alone, and the host     *)
(* listens when no orphan is known any more.                               *)
LEMMA ListenKeeps ==
    ASSUME NativeConstants, NativeInv,
           Native!Listen \/ Native!SignalOrphan \/ Native!EndOrphan
    PROVE  NativeInv'
<1>1. /\ NativeTypes /\ \A q \in Requests : NativeRun(q) /\ work[q] \notin Native!InMemory
  BY DEF Native!Listen, Native!SignalOrphan, Native!EndOrphan, NativeInv, NativeRun, Native!Up
<1>2. CASE Native!Listen
  <2>1. /\ daemon' = "up" /\ kept' = NoRun /\ UNCHANGED <<posted, head, kin>>
        /\ work' = [r \in Requests |-> IF work[r] = "orphan" THEN "lost" ELSE work[r]]
    BY <1>2 DEF Native!Listen, Native!requestVars, Native!processVars
  <2>2. NativeTypes'
    BY <1>1, <2>1 DEF NativeTypes
  <2>3. \A q \in Requests : NativeRun(q)' /\ work'[q] \notin Native!InMemory
    BY <1>1, <2>1 DEF NativeRun, Native!Up, Native!InMemory
  <2>4. Native!Cardinality(Native!Holders') <= Permits
    BY <2>1, <2>3, PermitsStay DEF Native!Holders
  <2> QED
    BY <2>2, <2>3, <2>4 DEF NativeInv, Native!Holders
<1>3. CASE Native!SignalOrphan
  <2>1. /\ daemon' = "signalled" /\ UNCHANGED <<posted, work, kept>>
        /\ kept \in Requests /\ head[kept] = "alive"
        /\ head' \in {head, [head EXCEPT ![kept] = "dead"]} /\ kin' \subseteq kin
    BY <1>1, <1>3 DEF Native!SignalOrphan, Native!Orphaned, Native!requestVars, NativeTypes
  <2>2. NativeTypes'
    BY <1>1, <2>1 DEF NativeTypes
  <2>3. \A q \in Requests : NativeRun(q)'
    BY <1>1, <2>1 DEF NativeRun, Native!Up, NativeTypes
  <2>4. Native!Cardinality(Native!Holders') <= Permits
    BY <2>1, PermitsStay DEF Native!Holders
  <2> QED
    BY <2>2, <2>3, <2>4 DEF NativeInv, Native!Holders
<1>4. CASE Native!EndOrphan
  <2>1. /\ daemon = "signalled" /\ daemon' = "up" /\ UNCHANGED <<posted, work>>
        /\ kept' = NoRun
    BY <1>4 DEF Native!EndOrphan, Native!requestVars
  <2>2. /\ head' \in [Requests -> {"none", "alive", "dead"}] /\ kin' \subseteq kin
        /\ \A q \in Requests : head'[q] # head[q] => head[q] # "none" /\ head'[q] = "dead"
        /\ \A q \in Requests : kept = q => head'[q] # "alive"
    <3>1. CASE Native!Orphaned
      BY <1>1, <1>4, <3>1 DEF Native!EndOrphan, Native!Kill, NativeTypes
    <3>2. CASE ~Native!Orphaned
      BY <1>1, <1>4, <3>2 DEF Native!EndOrphan, Native!Orphaned, Native!processVars, NativeTypes,
                              NativeConstants
    <3> QED
      BY <3>1, <3>2
  <2>3. NativeTypes'
    BY <1>1, <2>1, <2>2 DEF NativeTypes
  <2>4. \A q \in Requests : NativeRun(q)'
    BY <1>1, <2>1, <2>2 DEF NativeRun, Native!Up
  <2>5. Native!Cardinality(Native!Holders') <= Permits
    BY <2>1, PermitsStay DEF Native!Holders
  <2> QED
    BY <2>3, <2>4, <2>5 DEF NativeInv, Native!Holders
<1> QED
  BY <1>2, <1>3, <1>4

(* Every step of the host, of its runs and of their processes.             *)
LEMMA NativeStep ==
    ASSUME NativeConstants PROVE NativeInv /\ [Native!Next]_(Native!vars) => NativeInv'
<1> SUFFICES ASSUME NativeInv, [Native!Next]_(Native!vars) PROVE NativeInv'
  OBVIOUS
<1>1. ASSUME NEW r \in Requests, Native!Check(r) \/ Native!Acquire(r) PROVE NativeInv'
  BY <1>1, CheckKeeps, PermitKeeps
<1>2. ASSUME NEW r \in Requests,
             \/ Native!Accept(r) \/ Native!Resolve(r) \/ Native!Place(r)
             \/ Native!Spawn(r) \/ Native!SpawnFails(r)
      PROVE  NativeInv'
  BY <1>2, EarlyStagesKeep
<1>3. ASSUME NEW r \in Requests,
             \/ Native!Record(r) \/ Native!WriteInput(r) \/ Native!Reap(r)
             \/ Native!Settle(r) \/ Native!Deliver(r)
      PROVE  NativeInv'
  BY <1>3, LateStagesKeep
<1>4. ASSUME NEW r \in Requests,
             \/ Native!Escalate(r) \/ Native!GraceEnds(r) \/ Native!LimitHit(r)
             \/ Native!Fork(r) \/ Native!LeaderExits(r) \/ Native!DescendantsEnd(r)
      PROVE  NativeInv'
  BY <1>4, GroupsKeep
<1>5. CASE Native!Crash \/ Native!Interrupt \/ Native!Exit
  BY <1>5, ForgetsKeep, InterruptKeeps
<1>6. CASE Native!Listen \/ Native!SignalOrphan \/ Native!EndOrphan
  BY <1>6, ListenKeeps
<1>7. CASE UNCHANGED Native!vars
  <2>1. UNCHANGED <<daemon, posted, work, head, kin, kept>>
    BY <1>7 DEF Native!vars
  <2>2. Native!Cardinality(Native!Holders') <= Permits
    BY <2>1, PermitsStay DEF Native!Holders
  <2> QED
    BY <2>1, <2>2 DEF NativeInv, NativeTypes, NativeRun, Native!Up, Native!Holders
<1> QED
  BY <1>1, <1>2, <1>3, <1>4, <1>5, <1>6, <1>7 DEF Native!Next

(* What a host in Rust finds in its state file is what an earlier one left.*)
THEOREM NativeOrphansAreFound == ASSUME NativeConstants PROVE Native!Spec => []NativeInv
<1>1. Native!Init => NativeInv
  BY NativeStarts
<1>2. NativeInv /\ [Native!Next]_(Native!vars) => NativeInv'
  BY NativeStep
<1> QED
  BY <1>1, <1>2, PTL DEF Native!Spec

(* Either host, whenever it dies: an orphan that still runs is the one that*)
(* the state file names, no run of its agent starts before it is ended, a  *)
(* run that is settled leaves no process, and no stranger is killed        *)
(* (supervisor.ts, state.ts, supervisor.rs).                               *)
THEOREM ProcessesAreFound ==
    ASSUME HostConstants, NativeConstants
    PROVE  Host!Spec /\ Native!Spec => []ProcessesAreAccountedFor
<1>1. HostInv => Host!ProcessesAreAccountedFor
  BY DEF HostInv, ProcessesAgree, FileTells, Host!ProcessesAreAccountedFor
<1>2. NativeInv => Native!ProcessesAreKept
  BY DEF NativeInv, NativeRun, Native!ProcessesAreKept
<1>3. Host!Spec => []HostInv
  BY OrphansAreFound
<1>4. Native!Spec => []NativeInv
  BY NativeOrphansAreFound
<1>5. HostInv /\ NativeInv => ProcessesAreAccountedFor
  BY <1>1, <1>2 DEF ProcessesAreAccountedFor
<1> QED
  BY <1>3, <1>4, <1>5, PTL
-----------------------------------------------------------------------------
(* The Python worker: the facts of its module, about the worker of this    *)
(* system.                                                                 *)
PythonFacts == INSTANCE PythonWorkerProofs WITH
    Connections <- PyConnections, Runs <- PyRuns, enabled <- pyEnabled,
    lifecycle <- pyLifecycle, phase <- pyPhase, reading <- pyReading, record <- pyRecord,
    asked <- pyAsked, state <- pyState, elapsed <- pyElapsed, queue <- pyQueue,
    active <- pyActive, accepting <- pyAccepting, handler <- pyHandler, delivery <- pyDelivery,
    attempt <- pyAttempt, ready <- pyReady, gathered <- pyGathered, forced <- pyForced

(* The worker of the system acts as its module says: it starts, binds and  *)
(* is asked to stop;                                                       *)
LEMMA StartAgrees ==
    /\ Python!Start <=> PythonFacts!Start
    /\ Python!BindSucceeds <=> PythonFacts!BindSucceeds
    /\ Python!BindFails <=> PythonFacts!BindFails
    /\ Python!Stop <=> PythonFacts!Stop
BY DEF Python!Start, PythonFacts!Start, Python!intake, PythonFacts!intake, Python!scheduler,
       PythonFacts!scheduler, Python!deliveries, PythonFacts!deliveries, Python!BindSucceeds,
       PythonFacts!BindSucceeds, Python!BindFails, PythonFacts!BindFails, Python!Stop,
       PythonFacts!Stop

(* it takes requests;                                                      *)
LEMMA RequestsAgree ==
    ASSUME NEW c, NEW i, NEW r
    PROVE  /\ Python!Receive(c, i) <=> PythonFacts!Receive(c, i)
           /\ Python!Refuse(c) <=> PythonFacts!Refuse(c)
           /\ Python!AnswerWithoutRun(c) <=> PythonFacts!AnswerWithoutRun(c)
           /\ Python!Accept(c, r) <=> PythonFacts!Accept(c, r)
           /\ Python!TimeToLivePasses(r) <=> PythonFacts!TimeToLivePasses(r)
           /\ Python!Cleanup <=> PythonFacts!Cleanup
BY DEF Python!Receive, PythonFacts!Receive, Python!scheduler, PythonFacts!scheduler,
       Python!deliveries, PythonFacts!deliveries, Python!Refuse, PythonFacts!Refuse,
       Python!AnswerWithoutRun, PythonFacts!AnswerWithoutRun, Python!Ready, PythonFacts!Ready,
       Python!LookedUp, PythonFacts!LookedUp, Python!Expired, PythonFacts!Expired, Python!Settled,
       PythonFacts!Settled, Python!HasCapacity, PythonFacts!HasCapacity, Python!Cardinality,
       PythonFacts!Cardinality, Python!Entries, PythonFacts!Entries, Python!MadeRoom,
       PythonFacts!MadeRoom, Python!CleanedUp, PythonFacts!CleanedUp, Python!Accept,
       PythonFacts!Accept, Python!AskDrain, PythonFacts!AskDrain, Python!RunDrain,
       PythonFacts!RunDrain, Python!ToSet, PythonFacts!ToSet, Python!Call, PythonFacts!Call,
       Python!TimeToLivePasses, PythonFacts!TimeToLivePasses, Python!intake, PythonFacts!intake,
       Python!Cleanup, PythonFacts!Cleanup

(* its event loop turns;                                                   *)
LEMMA TurnsAgree ==
    ASSUME NEW r, NEW b
    PROVE  /\ Python!DrainQueue <=> PythonFacts!DrainQueue
           /\ Python!RunBegins(r) <=> PythonFacts!RunBegins(r)
           /\ Python!RunDone(r) <=> PythonFacts!RunDone(r)
           /\ Python!TrackResult(r) <=> PythonFacts!TrackResult(r)
           /\ Python!TrackEvent(r, b) <=> PythonFacts!TrackEvent(r, b)
           /\ Python!TaskDone(r, b) <=> PythonFacts!TaskDone(r, b)
BY DEF Python!DrainQueue, PythonFacts!DrainQueue, Python!Next1, PythonFacts!Next1,
       Python!Cardinality, PythonFacts!Cardinality, Python!ToSet, PythonFacts!ToSet,
       Python!WakeIfIdle, PythonFacts!WakeIfIdle, Python!Resume, PythonFacts!Resume, Python!Call,
       PythonFacts!Call, Python!intake, PythonFacts!intake, Python!deliveries,
       PythonFacts!deliveries, Python!RunBegins, PythonFacts!RunBegins, Python!scheduler,
       PythonFacts!scheduler, Python!RunDone, PythonFacts!RunDone, Python!AskDrain,
       PythonFacts!AskDrain, Python!RunDrain, PythonFacts!RunDrain, Python!TrackResult,
       PythonFacts!TrackResult, Python!TrackEvent, PythonFacts!TrackEvent, Python!TaskDone,
       PythonFacts!TaskDone

(* its handlers end and emit;                                              *)
LEMMA HandlersAgree ==
    ASSUME NEW r
    PROVE  /\ Python!HandlerEnds(r) <=> PythonFacts!HandlerEnds(r)
           /\ Python!DetachedEnds(r) <=> PythonFacts!DetachedEnds(r)
           /\ Python!Emit(r) <=> PythonFacts!Emit(r)
BY DEF Python!HandlerEnds, PythonFacts!HandlerEnds, Python!Call, PythonFacts!Call, Python!intake,
       PythonFacts!intake, Python!scheduler, PythonFacts!scheduler, Python!DetachedEnds,
       PythonFacts!DetachedEnds, Python!deliveries, PythonFacts!deliveries, Python!Emit,
       PythonFacts!Emit

(* it delivers bodies;                                                     *)
LEMMA DeliveriesAgree ==
    ASSUME NEW r, NEW b
    PROVE  /\ Python!Begin(r, b) <=> PythonFacts!Begin(r, b)
           /\ Python!Delivered(r, b) <=> PythonFacts!Delivered(r, b)
           /\ Python!Backoff(r, b) <=> PythonFacts!Backoff(r, b)
           /\ Python!SendAgain(r, b) <=> PythonFacts!SendAgain(r, b)
           /\ Python!Fails(r, b) <=> PythonFacts!Fails(r, b)
           /\ Python!Interrupted(r, b) <=> PythonFacts!Interrupted(r, b)
           /\ Python!HookEnds(r, b) <=> PythonFacts!HookEnds(r, b)
BY DEF Python!Begin, PythonFacts!Begin, Python!Return, PythonFacts!Return, Python!Call,
       PythonFacts!Call, Python!Note, PythonFacts!Note, Python!rest, PythonFacts!rest,
       Python!intake, PythonFacts!intake, Python!scheduler, PythonFacts!scheduler,
       Python!Delivered, PythonFacts!Delivered, Python!Backoff, PythonFacts!Backoff,
       Python!SendAgain, PythonFacts!SendAgain, Python!Fails, PythonFacts!Fails,
       Python!Interrupted, PythonFacts!Interrupted, Python!HookEnds, PythonFacts!HookEnds

(* and it stops.                                                           *)
LEMMA StopAgrees ==
    /\ Python!StopAccepting <=> PythonFacts!StopAccepting
    /\ Python!QueueCancelled <=> PythonFacts!QueueCancelled
    /\ Python!DrainResumes <=> PythonFacts!DrainResumes
    /\ Python!GraceEnds <=> PythonFacts!GraceEnds
    /\ Python!SessionCloses <=> PythonFacts!SessionCloses
    /\ Python!Stopped <=> PythonFacts!Stopped
BY DEF Python!StopAccepting, PythonFacts!StopAccepting, Python!Call, PythonFacts!Call,
       Python!intake, PythonFacts!intake, Python!deliveries, PythonFacts!deliveries,
       Python!QueueCancelled, PythonFacts!QueueCancelled, Python!Resume, PythonFacts!Resume,
       Python!scheduler, PythonFacts!scheduler, Python!DrainResumes, PythonFacts!DrainResumes,
       Python!Next1, PythonFacts!Next1, Python!Drained, PythonFacts!Drained, Python!Tasks,
       PythonFacts!Tasks, Python!Bodies, PythonFacts!Bodies, Python!Tracked, PythonFacts!Tracked,
       Python!GraceEnds, PythonFacts!GraceEnds, Python!SessionCloses, PythonFacts!SessionCloses,
       Python!Stopped, PythonFacts!Stopped

(* So the worker of the system takes the steps its module describes.       *)
LEMMA PythonSteps == [Python!Next]_(Python!vars) => [PythonFacts!Next]_(PythonFacts!vars)
<1>1. Python!Next => PythonFacts!Next
  BY StartAgrees, RequestsAgree, TurnsAgree, HandlersAgree, DeliveriesAgree, StopAgrees
     DEF Python!Next, PythonFacts!Next, Python!Bodies, PythonFacts!Bodies
<1>2. UNCHANGED Python!vars => UNCHANGED PythonFacts!vars
  BY DEF Python!vars, PythonFacts!vars, Python!intake, PythonFacts!intake, Python!scheduler,
         PythonFacts!scheduler, Python!deliveries, PythonFacts!deliveries
<1> QED BY <1>1, <1>2

(* A Python worker, for any number of invocations, connections and runs and*)
(* any limits, with events or without: no run it accepted is lost, whatever*)
(* is due on its loop, and stop() resolves only when all of them are       *)
(* settled and what was owed about them was delivered or given up.         *)
THEOREM PythonKeepsRuns ==
    ASSUME NoRun \notin PyRuns
    PROVE  Python!Spec => []PythonRunsAreKept
<1>1. PythonFacts!WorkerConstants
  BY CapacityAssumption, NullsAssumption DEF PythonFacts!WorkerConstants
<1>2. PythonFacts!Spec => []PythonFacts!WorkInv
  BY <1>1, PythonFacts!WorkInvariant
<1>3. PythonFacts!WorkInv => PythonRunsAreKept
  <2> SUFFICES ASSUME PythonFacts!WorkInv PROVE PythonRunsAreKept
    OBVIOUS
  <2>1. PythonFacts!RunsAreKept /\ PythonFacts!StopLeavesNothing
    BY PythonFacts!InvKeepsRuns
  <2>2. Python!RunsAreKept <=> PythonFacts!RunsAreKept
    BY DEF Python!Settled, PythonFacts!Settled, Python!Call, PythonFacts!Call,
           Python!Unsettled, PythonFacts!Unsettled, Python!RunsAreKept, PythonFacts!RunsAreKept,
           Python!ToSet, PythonFacts!ToSet
  <2>3. Python!StopLeavesNothing <=> PythonFacts!StopLeavesNothing
    BY DEF Python!Settled, PythonFacts!Settled, Python!Bodies, PythonFacts!Bodies,
           Python!Owed, PythonFacts!Owed, Python!StopLeavesNothing, PythonFacts!StopLeavesNothing
  <2> QED BY <2>1, <2>2, <2>3 DEF PythonRunsAreKept
<1>4. Python!Init => PythonFacts!Init
  BY DEF Python!Bodies, PythonFacts!Bodies, Python!Init, PythonFacts!Init
<1>5. [Python!Next]_(Python!vars) => [PythonFacts!Next]_(PythonFacts!vars)
  BY PythonSteps
<1> QED BY <1>2, <1>3, <1>4, <1>5, PTL DEF Python!Spec, PythonFacts!Spec
=============================================================================
