-------------------------- MODULE PythonWorkerProofs --------------------------
(***************************************************************************)
(* Theorems about the Python worker, for any number of invocations,        *)
(* connections and runs, any limits, with events or without: a run whose   *)
(* result is owed is remembered and has somebody who will deliver it, and  *)
(* stop() leaves nothing behind.                                           *)
(***************************************************************************)
EXTENDS PythonWorker, FiniteSetTheorems, TLAPS

(* The limits are numbers, and the null values are no run and no           *)
(* invocation.                                                             *)
WorkerConstants ==
    /\ Concurrency \in Nat
    /\ MaxAttempts \in Nat \ {0}
    /\ NoRun \notin Runs /\ NoRequest \notin Invocations
-----------------------------------------------------------------------------
(* What the loop has been asked to call.                                   *)
Due == ToSet(ready)
Result(r) == delivery[r]["result"]

(* Whatever is due in one place of the queue, b is not due before a.       *)
Precedes(q, a, b) == \A i, j \in DOMAIN q : q[i] = a /\ q[j] = b => i < j

(* A call is due once.  A body is scheduled, or its task done, while the   *)
(* loop is to be told.  The drain wakes after every acceptance was tracked,*)
(* and a result is discarded after the terminal event it emitted.          *)
CallsTell ==
    /\ IsInjective(ready)
    /\ \A r \in Runs, b \in Bodies :
           /\ Call("schedule", r, b) \in Due <=> delivery[r][b] = "scheduled"
           /\ Call("done", r, b) \in Due <=> delivery[r][b] = "done"
    /\ \A r \in Runs :
           /\ Precedes(ready, Call("schedule", r, "accepted"), Resume)
           /\ Precedes(ready, Call("schedule", r, "terminal"), Call("done", r, "result"))

StartDue(r) == Call("start", r, "result") \in Due
CancelDue(r) == Call("cancel", r, "result") \in Due
EndDue(r) == Call("runDone", r, "result") \in Due

Untouched(r) ==
    /\ r \notin ToSet(queue) /\ r \notin active
    /\ ~StartDue(r) /\ ~CancelDue(r)
    /\ handler[r] = "none"
    /\ \A b \in Bodies : delivery[r][b] = "none"

Waits(r) == handler[r] = "none" /\ Result(r) = "none"

(* An accepted run is in one place: queued, about to start or to be        *)
(* cancelled, executing, or in delivery.                                   *)
HasPlace(r) ==
    /\ state[r] = "unused" => Untouched(r)
    /\ state[r] # "unused" =>
           \/ r \in ToSet(queue) \/ StartDue(r) \/ CancelDue(r)
           \/ handler[r] = "running" \/ Result(r) # "none"
    /\ r \in ToSet(queue) => Waits(r) /\ r \notin active /\ ~StartDue(r) /\ ~CancelDue(r)
    /\ StartDue(r) => Waits(r) /\ r \in active /\ ~CancelDue(r)
    /\ CancelDue(r) => Waits(r)
    /\ handler[r] = "running" => Result(r) = "none" /\ r \in active
    /\ EndDue(r) => handler[r] \in {"detached", "ended"} /\ r \in active
    /\ handler[r] \in {"detached", "ended"} => Result(r) # "none"

(* The record follows the result, and the terminal event follows both.     *)
BodiesTell(r) ==
    /\ Result(r) # "scheduled"
    /\ state[r] \in Settled <=> Result(r) \in {"hook", "done", "over"}
    /\ delivery[r]["terminal"] # "none" => Result(r) \in {"done", "over"}
    /\ Result(r) = "over" => delivery[r]["terminal"] # "scheduled"
    /\ enabled /\ state[r] # "unused" => delivery[r]["accepted"] # "none"
    /\ enabled /\ Result(r) \in {"done", "over"} => delivery[r]["terminal"] # "none"
    /\ \A b \in Bodies : delivery[r][b] = "sleeping" => attempt[r][b] < MaxAttempts

RunsTell == \A r \in Runs : HasPlace(r) /\ BodiesTell(r)

Remembered ==
    \A r \in Runs : Unsettled(r) => asked[r] \in Invocations /\ record[asked[r]] = r

(* Nothing is owed any more, and nothing is on the wire.                   *)
Closing == phase \in {"close", "cleanup"} \/ lifecycle = "stopped"
Closed ==
    \A r \in Runs :
        /\ state[r] \in {"unused"} \cup Settled
        /\ state[r] \in Settled => \A b \in Owed : delivery[r][b] = "over"
        /\ \A b \in Bodies : delivery[r][b] \notin {"sending", "sleeping"}

(* What the phase of the shutdown says.                                    *)
PhasesTell ==
    /\ phase # "none" <=> lifecycle = "stopping"
    /\ lifecycle \in {"created", "starting", "failed"} \/ phase = "bind" =>
           \A r \in Runs : state[r] = "unused"
    /\ lifecycle \in {"created", "starting", "running"} => accepting
    /\ phase \in {"cancel", "idle", "gather", "close", "cleanup"} => ~accepting
    /\ ~accepting => queue = <<>>
    /\ \A r \in Runs : CancelDue(r) => phase = "cancel"
    /\ gathered # {} => phase = "gather"
    /\ Resume \in Due => active = {} /\ phase \in {"idle", "gather"} /\ gathered = {}
    /\ phase \in {"gather", "close", "cleanup"} => active = {}
    /\ Closing => Closed

QueueOnce == IsInjective(queue)
SlotsHeld == IsFiniteSet(active) /\ Cardinality(active) <= Concurrency

(* The inductive invariant.                                                *)
WorkInv ==
    /\ TypeOK
    /\ QueueOnce
    /\ SlotsHeld
    /\ CallsTell
    /\ RunsTell
    /\ Remembered
    /\ PhasesTell
-----------------------------------------------------------------------------
(* Calls differ in what they call, for which run and which body.           *)
LEMMA CallsDiffer ==
    /\ \A f, r, b : Call(f, r, b) # Resume /\ Call(f, r, b) # RunDrain
    /\ \A f, r, b, g, s, c : Call(f, r, b) = Call(g, s, c) => f = g /\ r = s /\ b = c
    /\ Resume # RunDrain
<1>1. /\ \A f, r, b : /\ DOMAIN Call(f, r, b) = {"call", "run", "body"}
                      /\ Call(f, r, b).call = f
                      /\ Call(f, r, b).run = r
                      /\ Call(f, r, b).body = b
      /\ Resume.call = "resume" /\ DOMAIN Resume = {"call"}
      /\ RunDrain.call = "drain" /\ DOMAIN RunDrain = {"call"}
  BY DEF Call, Resume, RunDrain
<1>2. \A f, r, b : Call(f, r, b) # Resume /\ Call(f, r, b) # RunDrain
  BY <1>1
<1>3. \A f, r, b, g, s, c : Call(f, r, b) = Call(g, s, c) => f = g /\ r = s /\ b = c
  BY <1>1
<1> QED BY <1>1, <1>2, <1>3

(* Every call is one of these.                                             *)
LEMMA CallsAre ==
    /\ \A c \in Calls :
           /\ c.call \in {"start", "runDone", "cancel"} =>
                  c.run \in Runs /\ c = Call(c.call, c.run, "result")
           /\ c.call \in {"schedule", "done"} =>
                  c.run \in Runs /\ c.body \in Bodies /\ c = Call(c.call, c.run, c.body)
           /\ c.call = "drain" => c = RunDrain
           /\ c.call = "resume" => c = Resume
    /\ Resume \in Calls /\ RunDrain \in Calls
    /\ \A f \in {"start", "runDone", "cancel"}, r \in Runs : Call(f, r, "result") \in Calls
    /\ \A f \in {"schedule", "done"}, r \in Runs, b \in Bodies : Call(f, r, b) \in Calls
    /\ Resume.call = "resume" /\ RunDrain.call = "drain"
    /\ \A f, r, b : Call(f, r, b).call = f
  BY DEF Calls, Call, Resume, RunDrain
-----------------------------------------------------------------------------
(* How a turn of the loop changes what is due: `out` leaves, `in` is       *)
(* appended, and what stays keeps its order.                               *)
Turned(q, out, in, p) ==
    /\ p \in Seq(Calls) /\ IsInjective(p)
    /\ ToSet(p) = (ToSet(q) \ out) \cup in
    /\ \A a, b \in Calls : Precedes(q, a, b) /\ a \notin in => Precedes(p, a, b)

(* No call comes or goes.                                                  *)
LEMMA TurnNone ==
    ASSUME NEW q \in Seq(Calls), IsInjective(q)
    PROVE  Turned(q, {}, {}, q)
  BY DEF Turned

(* The call at the head is made.                                           *)
LEMMA TurnHead ==
    ASSUME NEW q \in Seq(Calls), IsInjective(q), q # <<>>
    PROVE  Head(q) \in Calls /\ Head(q) \in ToSet(q) /\ Turned(q, {Head(q)}, {}, Tail(q))
<1>1. /\ Head(q) = q[1] /\ Len(q) \in Nat \ {0} /\ DOMAIN q = 1..Len(q)
      /\ Tail(q) \in Seq(Calls) /\ DOMAIN Tail(q) = 1..(Len(q) - 1)
      /\ \A i \in 1..(Len(q) - 1) : Tail(q)[i] = q[i + 1]
  OBVIOUS
<1> DEFINE p == Tail(q)
<1> HIDE DEF p
<1>2. IsInjective(p)
  BY <1>1 DEF IsInjective, p
<1>3. ToSet(p) = ToSet(q) \ {Head(q)}
  <2>1. ASSUME NEW i \in DOMAIN p PROVE p[i] \in ToSet(q) /\ p[i] # Head(q)
    <3>1. i + 1 \in DOMAIN q /\ p[i] = q[i + 1] /\ 1 \in DOMAIN q /\ i + 1 # 1
      BY <2>1, <1>1 DEF p
    <3> QED BY <3>1, <1>1 DEF ToSet, IsInjective
  <2>2. ASSUME NEW i \in DOMAIN q, q[i] # Head(q) PROVE q[i] \in ToSet(p)
    <3>1. i - 1 \in DOMAIN p /\ p[i - 1] = q[i]
      BY <2>2, <1>1 DEF p
    <3> QED BY <3>1 DEF ToSet
  <2> QED BY <2>1, <2>2 DEF ToSet
<1>4. ASSUME NEW a, NEW b, Precedes(q, a, b) PROVE Precedes(p, a, b)
  <2> SUFFICES ASSUME NEW i \in DOMAIN p, NEW j \in DOMAIN p, p[i] = a, p[j] = b PROVE i < j
    BY DEF Precedes
  <2>1. i + 1 \in DOMAIN q /\ j + 1 \in DOMAIN q /\ q[i + 1] = a /\ q[j + 1] = b
    BY <1>1 DEF p
  <2>2. i + 1 < j + 1
    BY <2>1, <1>4 DEF Precedes
  <2> QED BY <2>2, <1>1 DEF p
<1>5. Head(q) \in Calls /\ Head(q) \in ToSet(q)
  BY <1>1 DEF ToSet
<1> QED BY <1>1, <1>2, <1>3, <1>4, <1>5 DEF Turned, p

(* The call at the head is due before every other.                         *)
LEMMA HeadIsFirst ==
    ASSUME NEW q \in Seq(Calls), q # <<>>, NEW a, a # Head(q), Precedes(q, a, Head(q))
    PROVE  a \notin ToSet(q)
<1>1. Head(q) = q[1] /\ 1 \in DOMAIN q /\ DOMAIN q = 1..Len(q)
  OBVIOUS
<1> SUFFICES ASSUME NEW i \in DOMAIN q, q[i] = a PROVE FALSE
  BY DEF ToSet
<1>2. i < 1
  BY <1>1 DEF Precedes
<1> QED BY <1>1, <1>2

(* Several calls are asked for.                                            *)
LEMMA TurnMore ==
    ASSUME NEW q \in Seq(Calls), IsInjective(q), NEW m \in Seq(Calls), IsInjective(m),
           ToSet(q) \cap ToSet(m) = {}
    PROVE  Turned(q, {}, ToSet(m), q \o m)
<1> DEFINE p == q \o m
<1>1. /\ p \in Seq(Calls) /\ Len(q) \in Nat /\ Len(m) \in Nat
      /\ DOMAIN q = 1..Len(q) /\ DOMAIN m = 1..Len(m) /\ DOMAIN p = 1..(Len(q) + Len(m))
      /\ \A i \in 1..(Len(q) + Len(m)) : p[i] = IF i <= Len(q) THEN q[i] ELSE m[i - Len(q)]
  OBVIOUS
<1> HIDE DEF p
<1>2. ASSUME NEW i \in DOMAIN p
      PROVE  \/ i \in DOMAIN q /\ p[i] = q[i] /\ p[i] \in ToSet(q)
             \/ i - Len(q) \in DOMAIN m /\ p[i] = m[i - Len(q)] /\ p[i] \in ToSet(m)
                /\ i \notin DOMAIN q
  <2>1. CASE i <= Len(q)
    <3>1. i \in DOMAIN q /\ p[i] = q[i]
      BY <1>1, <1>2, <2>1
    <3> QED BY <3>1 DEF ToSet
  <2>2. CASE ~(i <= Len(q))
    <3>1. i - Len(q) \in DOMAIN m /\ p[i] = m[i - Len(q)] /\ i \notin DOMAIN q
      BY <1>1, <1>2, <2>2
    <3> QED BY <3>1 DEF ToSet
  <2> QED BY <2>1, <2>2
<1>3. IsInjective(p)
  <2> SUFFICES ASSUME NEW i \in DOMAIN p, NEW j \in DOMAIN p, p[i] = p[j] PROVE i = j
    BY DEF IsInjective
  <2>1. CASE i \in DOMAIN q /\ j \in DOMAIN q
    BY <2>1, <1>2, <1>1 DEF IsInjective
  <2>2. CASE i \notin DOMAIN q /\ j \notin DOMAIN q
    <3>1. /\ i - Len(q) \in DOMAIN m /\ j - Len(q) \in DOMAIN m
          /\ m[i - Len(q)] = m[j - Len(q)]
      BY <2>2, <1>2
    <3>2. i - Len(q) = j - Len(q)
      BY <3>1 DEF IsInjective
    <3> QED BY <3>2, <1>1
  <2>3. CASE ~(i \in DOMAIN q <=> j \in DOMAIN q)
    BY <2>3, <1>2
  <2> QED BY <2>1, <2>2, <2>3
<1>4. ToSet(p) = ToSet(q) \cup ToSet(m)
  <2>1. ASSUME NEW i \in DOMAIN q PROVE i \in DOMAIN p /\ p[i] = q[i]
    BY <2>1, <1>1
  <2>2. ASSUME NEW i \in DOMAIN m PROVE i + Len(q) \in DOMAIN p /\ p[i + Len(q)] = m[i]
    BY <2>2, <1>1
  <2>3. ToSet(q) \subseteq ToSet(p)
    BY <2>1 DEF ToSet
  <2>4. ToSet(m) \subseteq ToSet(p)
    BY <2>2 DEF ToSet
  <2>5. ToSet(p) \subseteq ToSet(q) \cup ToSet(m)
    <3> SUFFICES ASSUME NEW i \in DOMAIN p PROVE p[i] \in ToSet(q) \cup ToSet(m)
      BY DEF ToSet
    <3> QED BY <1>2
  <2> QED BY <2>3, <2>4, <2>5
<1>5. ASSUME NEW a, NEW b, Precedes(q, a, b), a \notin ToSet(m) PROVE Precedes(p, a, b)
  <2> SUFFICES ASSUME NEW i \in DOMAIN p, NEW j \in DOMAIN p, p[i] = a, p[j] = b PROVE i < j
    BY DEF Precedes
  <2>1. i \in DOMAIN q /\ q[i] = a
    BY <1>2, <1>5
  <2>2. CASE j \in DOMAIN q
    BY <2>1, <2>2, <1>2, <1>5 DEF Precedes
  <2>3. CASE j \notin DOMAIN q
    BY <2>1, <2>3, <1>1
  <2> QED BY <2>2, <2>3
<1> QED BY <1>1, <1>3, <1>4, <1>5 DEF Turned, p

(* One call is asked for.                                                  *)
LEMMA TurnCall ==
    ASSUME NEW q \in Seq(Calls), IsInjective(q), NEW c \in Calls, c \notin ToSet(q)
    PROVE  Turned(q, {}, {c}, Append(q, c))
<1> DEFINE m == <<c>>
<1>1. m \in Seq(Calls) /\ Append(q, c) = q \o m /\ DOMAIN m = {1} /\ m[1] = c
  OBVIOUS
<1> HIDE DEF m
<1>2. ToSet(m) = {c} /\ IsInjective(m)
  BY <1>1 DEF ToSet, IsInjective
<1>3. ToSet(q) \cap ToSet(m) = {}
  BY <1>2
<1>4. Turned(q, {}, ToSet(m), q \o m)
  BY <1>1, <1>2, <1>3, TurnMore
<1> QED BY <1>1, <1>2, <1>4

(* Two changes in a row.                                                   *)
LEMMA TurnTwice ==
    ASSUME NEW q, NEW out, NEW in, NEW p, NEW more, NEW s,
           Turned(q, out, in, p), Turned(p, {}, more, s)
    PROVE  Turned(q, out, in \cup more, s)
<1>1. ToSet(s) = (ToSet(q) \ out) \cup (in \cup more)
  BY DEF Turned
<1>2. ASSUME NEW a \in Calls, NEW b \in Calls, Precedes(q, a, b), a \notin in \cup more
      PROVE  Precedes(s, a, b)
  BY <1>2 DEF Turned
<1> QED BY <1>1, <1>2 DEF Turned

(* The drain is asked for once, and so is the one who waits for idleness.  *)
LEMMA TurnAskDrain ==
    ASSUME NEW q \in Seq(Calls), IsInjective(q)
    PROVE  \E in \in SUBSET {RunDrain} : Turned(q, {}, in, AskDrain(q))
<1>1. CASE RunDrain \in ToSet(q)
  BY <1>1, TurnNone DEF AskDrain
<1>2. CASE RunDrain \notin ToSet(q)
  BY <1>2, TurnCall, CallsAre DEF AskDrain
<1> QED BY <1>1, <1>2

(* Whoever waits for idleness is asked for at most once.                   *)
LEMMA TurnWake ==
    ASSUME NEW p \in Seq(Calls), IsInjective(p), NEW q, NEW busy
    PROVE  \E in \in SUBSET {Resume} :
               /\ Turned(p, {}, in, WakeIfIdle(p, q, busy))
               /\ in # {} => phase = "idle" /\ q = <<>> /\ busy = {} /\ Resume \notin ToSet(p)
<1>1. CASE phase = "idle" /\ q = <<>> /\ busy = {} /\ Resume \notin ToSet(p)
  BY <1>1, TurnCall, CallsAre DEF WakeIfIdle
<1>2. CASE ~(phase = "idle" /\ q = <<>> /\ busy = {} /\ Resume \notin ToSet(p))
  BY <1>2, TurnNone DEF WakeIfIdle
<1> QED BY <1>1, <1>2

(* The runs of a queue, called in its order.                               *)
LEMMA TurnRuns ==
    ASSUME NEW p \in Seq(Calls), IsInjective(p), NEW q \in Seq(Runs), IsInjective(q),
           NEW f \in {"start", "cancel"},
           \A r \in ToSet(q) : Call(f, r, "result") \notin ToSet(p)
    PROVE  Turned(p, {}, {Call(f, r, "result") : r \in ToSet(q)},
                  p \o [k \in DOMAIN q |-> Call(f, q[k], "result")])
<1> DEFINE m == [k \in DOMAIN q |-> Call(f, q[k], "result")]
<1>1. DOMAIN q = 1..Len(q) /\ Len(q) \in Nat /\ \A k \in DOMAIN q : q[k] \in Runs
  OBVIOUS
<1>2. \A k \in DOMAIN q : Call(f, q[k], "result") \in Calls
  BY <1>1, CallsAre
<1>3. m \in Seq(Calls) /\ DOMAIN m = DOMAIN q /\ \A k \in DOMAIN q : m[k] = Call(f, q[k], "result")
  BY <1>1, <1>2
<1> HIDE DEF m
<1>4. IsInjective(m)
  BY <1>3, CallsDiffer DEF IsInjective
<1>5. ToSet(m) = {Call(f, r, "result") : r \in ToSet(q)}
  BY <1>3 DEF ToSet
<1>6. ToSet(p) \cap ToSet(m) = {}
  BY <1>5
<1>7. Turned(p, {}, ToSet(m), p \o m)
  BY <1>3, <1>4, <1>6, TurnMore
<1> QED BY <1>5, <1>7 DEF m

(* A queue cut in two.                                                     *)
LEMMA CutQueue ==
    ASSUME NEW q \in Seq(Runs), IsInjective(q), NEW k \in 0..Len(q)
    PROVE  LET front == SubSeq(q, 1, k)
               back == SubSeq(q, k + 1, Len(q))
           IN /\ front \in Seq(Runs) /\ IsInjective(front) /\ ToSet(front) \subseteq ToSet(q)
              /\ IsFiniteSet(ToSet(front)) /\ Cardinality(ToSet(front)) <= k
              /\ back \in Seq(Runs) /\ IsInjective(back)
              /\ ToSet(back) = ToSet(q) \ ToSet(front)
              /\ k = 0 => back = q
<1> DEFINE front == SubSeq(q, 1, k)
           back == SubSeq(q, k + 1, Len(q))
<1>1. front \in Seq(Runs) /\ DOMAIN front = 1..k /\ \A i \in 1..k : front[i] = q[i]
  OBVIOUS
<1>2. /\ back \in Seq(Runs) /\ DOMAIN back = 1..(Len(q) - k)
      /\ \A i \in 1..(Len(q) - k) : back[i] = q[k + i]
  OBVIOUS
<1> HIDE DEF front, back
<1>3. Len(q) \in Nat /\ DOMAIN q = 1..Len(q) /\ k \in Nat /\ k <= Len(q)
  OBVIOUS
<1>4. ToSet(front) \subseteq ToSet(q) /\ IsInjective(front)
  BY <1>1, <1>3 DEF ToSet, IsInjective
<1>5. IsFiniteSet(ToSet(front)) /\ Cardinality(ToSet(front)) <= k
  <2>1. IsFiniteSet(1..k) /\ Cardinality(1..k) = k
    BY <1>3, FS_Interval
  <2>2. ToSet(front) = {front[i] : i \in 1..k}
    BY <1>1 DEF ToSet
  <2> DEFINE F == [i \in 1..k |-> front[i]]
  <2>3. F \in Surjection(1..k, ToSet(front))
    BY <2>2 DEF Surjection
  <2> QED BY <2>1, <2>3, FS_Surjection
<1>6. IsInjective(back)
  <2> SUFFICES ASSUME NEW i \in DOMAIN back, NEW j \in DOMAIN back, back[i] = back[j]
               PROVE  i = j
    BY DEF IsInjective
  <2>1. k + i \in DOMAIN q /\ k + j \in DOMAIN q /\ q[k + i] = q[k + j]
    BY <1>2, <1>3
  <2>2. k + i = k + j
    BY <2>1 DEF IsInjective
  <2> QED BY <2>2, <1>2, <1>3
<1>7. ToSet(back) \subseteq ToSet(q) \ ToSet(front)
  <2> SUFFICES ASSUME NEW i \in DOMAIN back
               PROVE  back[i] \in ToSet(q) /\ back[i] \notin ToSet(front)
    BY DEF ToSet
  <2>1. k + i \in DOMAIN q /\ back[i] = q[k + i]
    BY <1>2, <1>3
  <2>2. ASSUME NEW j \in DOMAIN front, front[j] = back[i] PROVE FALSE
    <3>1. j \in DOMAIN q /\ q[j] = q[k + i] /\ j # k + i
      BY <1>1, <1>2, <1>3, <2>1, <2>2
    <3> QED BY <3>1, <2>1 DEF IsInjective
  <2> QED BY <2>1, <2>2 DEF ToSet
<1>8. ToSet(q) \ ToSet(front) \subseteq ToSet(back)
  <2> SUFFICES ASSUME NEW i \in DOMAIN q, q[i] \notin ToSet(front) PROVE q[i] \in ToSet(back)
    BY DEF ToSet
  <2>1. i \notin 1..k
    BY <1>1 DEF ToSet
  <2>2. i - k \in DOMAIN back /\ back[i - k] = q[i]
    BY <2>1, <1>2, <1>3
  <2> QED BY <2>2 DEF ToSet
<1>9. k = 0 => back = q
  BY <1>2, <1>3
<1> QED BY <1>1, <1>2, <1>4, <1>5, <1>6, <1>7, <1>8, <1>9 DEF front, back
-----------------------------------------------------------------------------
(* The two steps that move the queue.                                      *)

(* The loop's drain: some runs leave the queue, get a slot and are about to*)
(* start, none once the scheduler has stopped.                             *)
LEMMA DrainFacts ==
    ASSUME WorkerConstants, TypeOK, QueueOnce, SlotsHeld, IsInjective(ready),
           \A r \in ToSet(queue) : ~StartDue(r),
           DrainQueue
    PROVE  \E begun \in SUBSET ToSet(queue), woken \in SUBSET {Resume} :
               /\ queue' \in Seq(Runs) /\ QueueOnce' /\ ToSet(queue') = ToSet(queue) \ begun
               /\ active' = active \cup begun /\ SlotsHeld'
               /\ ~accepting => begun = {} /\ queue' = queue
               /\ Turned(ready, {RunDrain},
                         {Call("start", r, "result") : r \in begun} \cup woken, ready')
               /\ woken # {} => phase = "idle" /\ active' = {} /\ Resume \notin Due
<1> DEFINE free == Concurrency - Cardinality(active)
           count == IF ~accepting THEN 0 ELSE IF free < Len(queue) THEN free ELSE Len(queue)
           front == SubSeq(queue, 1, count)
           back == SubSeq(queue, count + 1, Len(queue))
           tail == Tail(ready)
           more == tail \o [k \in DOMAIN front |-> Call("start", front[k], "result")]
<1>1. queue \in Seq(Runs) /\ IsInjective(queue) /\ Len(queue) \in Nat
  BY DEF TypeOK, QueueOnce
<1>2. Cardinality(active) \in Nat /\ free \in Nat /\ IsFiniteSet(active)
  BY FS_CardinalityType DEF SlotsHeld, WorkerConstants
<1>3. count \in 0..Len(queue) /\ count <= free
  BY <1>1, <1>2
<1> HIDE DEF free, count
<1>4. /\ front \in Seq(Runs) /\ IsInjective(front) /\ ToSet(front) \subseteq ToSet(queue)
      /\ IsFiniteSet(ToSet(front)) /\ Cardinality(ToSet(front)) <= count
      /\ back \in Seq(Runs) /\ IsInjective(back)
      /\ ToSet(back) = ToSet(queue) \ ToSet(front)
      /\ count = 0 => back = queue
  BY <1>1, <1>3, CutQueue
<1>5. ~accepting => ToSet(front) = {} /\ back = queue
  <2>1. ~accepting => count = 0
    BY DEF count
  <2>2. count = 0 => ToSet(front) = {}
    BY <1>4, FS_CardinalityType, FS_EmptySet, <1>1
  <2> QED BY <2>1, <2>2, <1>4
<1>6. /\ active' = active \cup ToSet(front) /\ queue' = back
      /\ ready' = WakeIfIdle(more, queue', active')
  BY DEF DrainQueue, front, back, more, count, free
<1> HIDE DEF front, back
<1>7. SlotsHeld'
  <2>1. /\ IsFiniteSet(active \cup ToSet(front))
        /\ Cardinality(active \cup ToSet(front))
               = Cardinality(active) + Cardinality(ToSet(front))
                     - Cardinality(active \cap ToSet(front))
    BY <1>2, <1>4, FS_Union
  <2>2. Cardinality(active \cap ToSet(front)) \in Nat
    BY <1>2, FS_Intersection, FS_CardinalityType
  <2>3. Cardinality(ToSet(front)) \in Nat
    BY <1>4, FS_CardinalityType
  <2>4. Cardinality(active \cup ToSet(front)) <= Concurrency
    BY <2>1, <2>2, <2>3, <1>2, <1>3, <1>4 DEF free, WorkerConstants
  <2> QED BY <2>1, <2>4, <1>6 DEF SlotsHeld
<1>8. ready \in Seq(Calls) /\ ready # <<>> /\ Head(ready).call = "drain"
  BY DEF DrainQueue, Next1, TypeOK
<1>9. Turned(ready, {RunDrain}, {}, tail)
  BY <1>8, TurnHead, CallsAre
<1>10. tail \in Seq(Calls) /\ IsInjective(tail) /\ ToSet(tail) \subseteq Due
  BY <1>9 DEF Turned, Due
<1>11. Turned(tail, {}, {Call("start", r, "result") : r \in ToSet(front)}, more)
  <2>1. \A r \in ToSet(front) : Call("start", r, "result") \notin ToSet(tail)
    BY <1>4, <1>10 DEF StartDue
  <2> QED BY <2>1, <1>4, <1>10, TurnRuns
<1>12. Turned(ready, {RunDrain}, {Call("start", r, "result") : r \in ToSet(front)}, more)
  <2>1. {} \cup {Call("start", r, "result") : r \in ToSet(front)}
            = {Call("start", r, "result") : r \in ToSet(front)}
    OBVIOUS
  <2> QED BY <2>1, <1>9, <1>11, TurnTwice
<1> HIDE DEF more, tail
<1>13. more \in Seq(Calls) /\ IsInjective(more)
  BY <1>12 DEF Turned
<1>14. PICK woken \in SUBSET {Resume} :
          /\ Turned(more, {}, woken, WakeIfIdle(more, queue', active'))
          /\ woken # {} => /\ phase = "idle" /\ queue' = <<>> /\ active' = {}
                           /\ Resume \notin ToSet(more)
  BY <1>13, TurnWake
<1>15. Turned(ready, {RunDrain},
              {Call("start", r, "result") : r \in ToSet(front)} \cup woken, ready')
  BY <1>12, <1>14, <1>6, TurnTwice
<1>16. Resume \notin ToSet(more) => Resume \notin Due
  BY <1>12, CallsDiffer DEF Turned, Due
<1>17. QueueOnce' /\ queue' \in Seq(Runs) /\ ToSet(queue') = ToSet(queue) \ ToSet(front)
  BY <1>4, <1>6 DEF QueueOnce
<1> QED BY <1>4, <1>5, <1>6, <1>7, <1>14, <1>15, <1>16, <1>17

(* stop_accepting(): the queued runs are about to be cancelled.            *)
LEMMA StopFacts ==
    ASSUME TypeOK, QueueOnce, IsInjective(ready),
           \A r \in ToSet(queue) : ~CancelDue(r),
           StopAccepting
    PROVE  Turned(ready, {}, {Call("cancel", r, "result") : r \in ToSet(queue)}, ready')
<1>1. ready \in Seq(Calls) /\ queue \in Seq(Runs) /\ IsInjective(queue)
  BY DEF TypeOK, QueueOnce
<1>2. \A r \in ToSet(queue) : Call("cancel", r, "result") \notin ToSet(ready)
  BY DEF CancelDue, Due
<1>3. ready' = ready \o [k \in DOMAIN queue |-> Call("cancel", queue[k], "result")]
  BY DEF StopAccepting
<1> QED BY <1>1, <1>2, <1>3, TurnRuns
-----------------------------------------------------------------------------
(* The types, at first.                                                    *)
LEMMA TypeInit == ASSUME WorkerConstants, Init PROVE TypeOK
<1>1. /\ "unused" \in RunStates /\ "none" \in Stages /\ 0 \in 0..MaxAttempts
      /\ <<>> \in Seq(Runs) /\ <<>> \in Seq(Calls)
  BY DEF WorkerConstants, RunStates, Stages
<1> QED BY <1>1 DEF Init, TypeOK

(* A matrix with one entry rewritten.                                      *)
LEMMA Rewrite ==
    ASSUME NEW S, NEW f \in [Runs -> [Bodies -> S]], NEW r \in Runs, NEW b \in Bodies, NEW v \in S
    PROVE  LET g == [f EXCEPT ![r][b] = v]
           IN /\ g \in [Runs -> [Bodies -> S]]
              /\ \A s \in Runs, c \in Bodies :
                     g[s][c] = IF s = r /\ c = b THEN v ELSE f[s][c]
  OBVIOUS

(* The store only ever forgets.                                            *)
LEMMA StoresAre ==
    ASSUME record \in [Invocations -> Runs \cup {NoRun}]
    PROVE  /\ CleanedUp(record) \in [Invocations -> Runs \cup {NoRun}]
           /\ \A i \in Invocations :
                  /\ LookedUp(i) \in [Invocations -> Runs \cup {NoRun}]
                  /\ MadeRoom(LookedUp(i)) \in [Invocations -> Runs \cup {NoRun}]
<1> DEFINE Stores == [Invocations -> Runs \cup {NoRun}]
<1>1. \A store \in Stores : CleanedUp(store) \in Stores
  BY DEF CleanedUp
<1>2. \A i \in Invocations : LookedUp(i) \in Stores
  BY DEF LookedUp
<1> QED BY <1>1, <1>2 DEF MadeRoom

(* A task that returns leaves the types as they are.                       *)
LEMMA ReturnTypes ==
    ASSUME WorkerConstants, TypeOK, NEW r \in Runs, NEW b \in Bodies, Return(r, b)
    PROVE  /\ delivery' \in [Runs -> [Bodies -> Stages]]
           /\ attempt' \in [Runs -> [Bodies -> 0..MaxAttempts]]
           /\ ready' \in Seq(Calls)
<1>1. Call("schedule", r, "terminal") \in Calls /\ Call("done", r, b) \in Calls
  BY CallsAre DEF Bodies
<1>2. ready' \in Seq(Calls)
  <2>1. <<Call("schedule", r, "terminal"), Call("done", r, b)>> \in Seq(Calls)
    BY <1>1
  <2>2. ready \in Seq(Calls)
    BY DEF TypeOK
  <2>3. ready \o <<Call("schedule", r, "terminal"), Call("done", r, b)>> \in Seq(Calls)
    BY <2>1, <2>2
  <2>4. Append(ready, Call("done", r, b)) \in Seq(Calls)
    BY <1>1, <2>2
  <2> QED BY <2>3, <2>4 DEF Return
<1>3. attempt' \in [Runs -> [Bodies -> 0..MaxAttempts]]
  <2>1. attempt' = [attempt EXCEPT ![r][b] = 0] /\ 0 \in 0..MaxAttempts
    BY DEF Return, WorkerConstants
  <2> QED BY <2>1, Rewrite DEF TypeOK
<1>4. delivery' \in [Runs -> [Bodies -> Stages]]
  <2> DEFINE once == [delivery EXCEPT ![r][b] = "done"]
             twice == [once EXCEPT ![r]["terminal"] = "scheduled"]
  <2>1. "done" \in Stages /\ "scheduled" \in Stages /\ "terminal" \in Bodies
    BY DEF Stages, Tracked, Bodies
  <2>2. once \in [Runs -> [Bodies -> Stages]]
    BY <2>1, Rewrite DEF TypeOK
  <2>3. twice \in [Runs -> [Bodies -> Stages]]
    BY <2>1, <2>2, Rewrite
  <2>4. delivery' = once \/ delivery' = twice
    BY DEF Return
  <2> QED BY <2>2, <2>3, <2>4
<1> QED BY <1>2, <1>3, <1>4

(* Every step keeps the types.                                             *)
LEMMA TypeStep == ASSUME WorkerConstants, WorkInv, Next PROVE TypeOK'
<1> USE DEF TypeOK, WorkInv
<1>1. CASE Start \/ BindSucceeds \/ BindFails \/ Stop \/ GraceEnds \/ SessionCloses \/ Stopped
  <2>1. CASE Start \/ BindSucceeds \/ BindFails \/ Stop
    BY <2>1 DEF Start, BindSucceeds, BindFails, Stop, intake, scheduler, deliveries
  <2>2. CASE GraceEnds \/ SessionCloses
    BY <2>2 DEF GraceEnds, SessionCloses, intake, scheduler, deliveries
  <2>3. CASE Stopped
    BY <2>3 DEF Stopped, scheduler, deliveries
  <2> QED BY <1>1, <2>1, <2>2, <2>3
<1>2. ASSUME NEW c \in Connections, NEW i \in Invocations, Receive(c, i) PROVE TypeOK'
  BY <1>2 DEF Receive, scheduler, deliveries
<1>3. ASSUME NEW c \in Connections, Refuse(c) PROVE TypeOK'
  BY <1>3 DEF Refuse, scheduler, deliveries
<1>4. ASSUME NEW c \in Connections, AnswerWithoutRun(c) PROVE TypeOK'
  BY <1>4, StoresAre DEF AnswerWithoutRun, scheduler, deliveries
<1>5. ASSUME NEW c \in Connections, NEW r \in Runs, Accept(c, r) PROVE TypeOK'
  <2>1. reading[c] \in Invocations
    BY <1>5 DEF Accept
  <2>2. record' \in [Invocations -> Runs \cup {NoRun}]
    BY <1>5, <2>1, StoresAre DEF Accept
  <2>3. queue' \in Seq(Runs) /\ ready' \in Seq(Calls)
    <3>1. \A q \in Seq(Calls) : AskDrain(q) \in Seq(Calls)
      BY CallsAre DEF AskDrain
    <3>2. Call("schedule", r, "accepted") \in Calls
      BY CallsAre DEF Bodies
    <3> DEFINE more == Append(ready, Call("schedule", r, "accepted"))
    <3>3. more \in Seq(Calls)
      BY <3>2
    <3> HIDE DEF more
    <3>4. AskDrain(ready) \in Seq(Calls) /\ AskDrain(more) \in Seq(Calls)
      BY <3>1, <3>3
    <3> QED BY <1>5, <3>4 DEF Accept, more
  <2>4. delivery' \in [Runs -> [Bodies -> Stages]]
    <3>1. "scheduled" \in Stages /\ "accepted" \in Bodies
      BY DEF Stages, Bodies
    <3>2. [delivery EXCEPT ![r]["accepted"] = "scheduled"] \in [Runs -> [Bodies -> Stages]]
      BY <3>1, Rewrite
    <3> QED BY <1>5, <3>2 DEF Accept
  <2>5. /\ asked' \in [Runs -> Invocations \cup {NoRequest}]
        /\ reading' \in [Connections -> Invocations \cup {NoRequest}]
        /\ state' \in [Runs -> RunStates]
    BY <1>5, <2>1 DEF Accept, RunStates
  <2> QED BY <1>5, <2>2, <2>3, <2>4, <2>5 DEF Accept
<1>6. CASE Cleanup
  BY <1>6, StoresAre DEF Cleanup, scheduler, deliveries
<1>7. ASSUME NEW r \in Runs,
             TimeToLivePasses(r) \/ DetachedEnds(r) \/ RunBegins(r) \/ TrackResult(r)
      PROVE  TypeOK'
  <2>1. ready # <<>> => Tail(ready) \in Seq(Calls)
    OBVIOUS
  <2>2. CASE TimeToLivePasses(r) \/ DetachedEnds(r)
    <3>1. CASE TimeToLivePasses(r)
      BY <3>1 DEF TimeToLivePasses, intake, scheduler, deliveries
    <3>2. CASE DetachedEnds(r)
      BY <3>2 DEF DetachedEnds, intake, scheduler, deliveries
    <3> QED BY <2>2, <3>1, <3>2
  <2>3. CASE RunBegins(r)
    BY <2>1, <2>3 DEF RunBegins, Next1, RunStates, intake, scheduler, deliveries
  <2>4. CASE TrackResult(r)
    BY <2>1, <2>4 DEF TrackResult, Next1, Stages, Tracked, intake, scheduler
  <2> QED BY <1>7, <2>2, <2>3, <2>4
<1>8. ASSUME NEW r \in Runs, RunDone(r) PROVE TypeOK'
  <2>1. Tail(ready) \in Seq(Calls)
    BY <1>8 DEF RunDone, Next1
  <2>2. \A q \in Seq(Calls), p \in Seq(Runs) : \A busy : WakeIfIdle(q, p, busy) \in Seq(Calls)
    BY CallsAre DEF WakeIfIdle
  <2>3. ready' \in Seq(Calls)
    <3>1. AskDrain(Tail(ready)) \in Seq(Calls)
      BY <2>1, CallsAre DEF AskDrain
    <3> QED BY <1>8, <2>1, <2>2, <3>1 DEF RunDone
  <2> QED BY <1>8, <2>3 DEF RunDone, intake, deliveries
<1>9. ASSUME NEW r \in Runs, HandlerEnds(r) PROVE TypeOK'
  <2>1. ready' \in Seq(Calls)
    BY <1>9, CallsAre DEF HandlerEnds
  <2> QED BY <1>9, <2>1 DEF HandlerEnds, Stages, Tracked, intake, scheduler
<1>10. ASSUME NEW r \in Runs, Emit(r) PROVE TypeOK'
  <2>1. ready' \in Seq(Calls)
    BY <1>10, CallsAre DEF Emit, Bodies
  <2> QED BY <1>10, <2>1 DEF Emit, Stages, intake, scheduler
<1>11. ASSUME NEW r \in Runs, NEW b \in Bodies, TrackEvent(r, b) \/ TaskDone(r, b) PROVE TypeOK'
  <2>1. ready # <<>> => Tail(ready) \in Seq(Calls)
    OBVIOUS
  <2>2. CASE TrackEvent(r, b)
    BY <2>1, <2>2 DEF TrackEvent, Next1, Stages, Tracked, intake, scheduler
  <2>3. CASE TaskDone(r, b)
    <3>1. ready' \in Seq(Calls)
      BY <2>1, <2>3, CallsAre DEF TaskDone, Next1
    <3> QED BY <2>3, <3>1 DEF TaskDone, Stages, intake, scheduler
  <2> QED BY <1>11, <2>2, <2>3
<1>12. ASSUME NEW r \in Runs, NEW b \in Bodies,
              Begin(r, b) \/ Delivered(r, b) \/ Backoff(r, b) \/ SendAgain(r, b)
                  \/ Fails(r, b) \/ Interrupted(r, b) \/ HookEnds(r, b)
       PROVE  TypeOK'
  <2>1. /\ delivery' \in [Runs -> [Bodies -> Stages]]
        /\ attempt' \in [Runs -> [Bodies -> 0..MaxAttempts]]
        /\ ready' \in Seq(Calls)
    <3>1. CASE Return(r, b)
      BY <3>1, ReturnTypes
    <3>2. CASE Begin(r, b) /\ ~Return(r, b)
      <4>1. /\ attempt' = [attempt EXCEPT ![r][b] = 1] /\ ready' = ready
            /\ \E v \in {"hook", "sending"} : delivery' = [delivery EXCEPT ![r][b] = v]
        BY <3>2 DEF Begin
      <4>2. {"hook", "sending"} \subseteq Stages /\ 1 \in 0..MaxAttempts
        BY DEF Stages, Tracked, WorkerConstants
      <4> QED BY <4>1, <4>2, Rewrite
    <3>3. CASE Backoff(r, b) \/ Fails(r, b)
      <4>1. /\ attempt' = attempt /\ ready' = ready
            /\ \E v \in {"hook", "sleeping"} : delivery' = [delivery EXCEPT ![r][b] = v]
        BY <3>3 DEF Backoff, Fails
      <4>2. {"hook", "sleeping"} \subseteq Stages
        BY DEF Stages, Tracked
      <4> QED BY <4>1, <4>2, Rewrite
    <3>4. CASE SendAgain(r, b)
      <4>1. attempt[r][b] + 1 \in 0..MaxAttempts
        BY <3>4 DEF SendAgain, RunsTell, BodiesTell, WorkerConstants
      <4> QED BY <3>4, <4>1 DEF SendAgain, Stages, Tracked, rest
    <3> QED
      BY <1>12, <3>1, <3>2, <3>3, <3>4 DEF Delivered, Interrupted, HookEnds
  <2>2. state' \in [Runs -> RunStates] /\ elapsed' \subseteq Runs
    BY <1>12 DEF Begin, Delivered, Backoff, SendAgain, Fails, Interrupted, HookEnds, Note,
                 RunStates, Settled, rest
  <2>3. UNCHANGED rest
    BY <1>12 DEF Begin, Delivered, Backoff, SendAgain, Fails, Interrupted, HookEnds, rest
  <2> QED BY <2>1, <2>2, <2>3 DEF rest, intake, scheduler
<1>13. CASE DrainQueue
  <2>1. \A r \in ToSet(queue) : r \in Runs /\ ~StartDue(r)
    BY DEF RunsTell, HasPlace, ToSet
  <2>2. /\ queue' \in Seq(Runs) /\ active' \subseteq Runs /\ ready' \in Seq(Calls)
    BY <1>13, <2>1, DrainFacts DEF Turned, CallsTell, ToSet
  <2> QED BY <1>13, <2>2 DEF DrainQueue, intake, deliveries
<1>14. CASE StopAccepting
  <2>1. \A r \in ToSet(queue) : r \in Runs /\ ~CancelDue(r)
    BY DEF RunsTell, HasPlace, ToSet
  <2>2. ready' \in Seq(Calls)
    BY <1>14, <2>1, StopFacts DEF Turned, CallsTell
  <2>3. queue' \in Seq(Runs)
    BY <1>14 DEF StopAccepting
  <2> QED BY <1>14, <2>2, <2>3 DEF StopAccepting, intake, deliveries
<1>15. CASE QueueCancelled
  BY <1>15, CallsAre DEF QueueCancelled, intake, scheduler, deliveries
<1>16. CASE DrainResumes
  BY <1>16 DEF DrainResumes, Next1, Tasks, intake, scheduler, deliveries
<1> QED
  BY <1>1, <1>2, <1>3, <1>4, <1>5, <1>6, <1>7, <1>8, <1>9, <1>10, <1>11, <1>12, <1>13, <1>14,
     <1>15, <1>16 DEF Next
-----------------------------------------------------------------------------
(* What a step leaves as it was.                                           *)

(* A run that a step does not touch is still in its place.                 *)
SameRun(s) ==
    /\ state'[s] = state[s] /\ handler'[s] = handler[s]
    /\ \A b \in Bodies : delivery'[s][b] = delivery[s][b] /\ attempt'[s][b] = attempt[s][b]
    /\ s \in ToSet(queue') <=> s \in ToSet(queue)
    /\ s \in active' <=> s \in active
    /\ StartDue(s)' <=> StartDue(s)
    /\ CancelDue(s)' <=> CancelDue(s)
    /\ EndDue(s)' <=> EndDue(s)

(* A run that no step concerns stays where it is.                          *)
LEMMA SameRunTells ==
    ASSUME RunsTell, enabled' = enabled, NEW s \in Runs, SameRun(s)
    PROVE  (HasPlace(s) /\ BodiesTell(s))'
<1>1. HasPlace(s) /\ BodiesTell(s) /\ "result" \in Bodies /\ "terminal" \in Bodies
      /\ "accepted" \in Bodies
  BY DEF RunsTell, Bodies
<1>2. Result(s)' = Result(s) /\ (Waits(s)' <=> Waits(s))
  BY <1>1 DEF SameRun, Result, Waits
<1>3. HasPlace(s)'
  BY <1>1, <1>2 DEF SameRun, HasPlace, Untouched
<1>4. BodiesTell(s)'
  BY <1>1, <1>2 DEF SameRun, BodiesTell
<1> QED BY <1>3, <1>4

(* The store is as it was, and no run is owed anew.                        *)
LEMMA StillRemembered ==
    ASSUME Remembered, record' = record, asked' = asked,
           \A r \in Runs : Unsettled(r)' => Unsettled(r)
    PROVE  Remembered'
  BY DEF Remembered

(* What was delivered stays delivered, and nothing new is on the wire.     *)
Settles ==
    /\ enabled' = enabled
    /\ \A s \in Runs :
           /\ state'[s] = state[s]
           /\ \A b \in Bodies :
                  /\ delivery[s][b] = "over" => delivery'[s][b] = "over"
                  /\ delivery'[s][b] \in {"sending", "sleeping"} =>
                         delivery[s][b] \in {"sending", "sleeping"}

(* What was delivered stays so: nothing is owed again.                     *)
LEMMA StillClosed == ASSUME Closed, Settles PROVE Closed'
<1> SUFFICES ASSUME NEW r \in Runs
             PROVE  /\ state'[r] \in {"unused"} \cup Settled
                    /\ state'[r] \in Settled => \A b \in Owed' : delivery'[r][b] = "over"
                    /\ \A b \in Bodies : delivery'[r][b] \notin {"sending", "sleeping"}
  BY DEF Closed
<1>1. Owed' = Owed /\ Owed \subseteq Bodies
  BY DEF Owed, Settles, Bodies
<1> QED BY <1>1 DEF Closed, Settles

(* A step that moves neither the shutdown nor what it waits for.           *)
LEMMA StillInPhase ==
    ASSUME PhasesTell, UNCHANGED <<lifecycle, phase, accepting, queue, gathered>>,
           active' \subseteq active,
           \A r \in Runs : (state[r] = "unused" => state'[r] = "unused")
                           /\ (CancelDue(r)' => CancelDue(r)),
           Resume \in Due' => Resume \in Due,
           Closing => Closed'
    PROVE  PhasesTell'
<1>1. Closing' <=> Closing
  BY DEF Closing
<1> QED BY <1>1 DEF PhasesTell

(* The order of calls, when no acceptance and no end is scheduled.         *)
LEMMA StillOrdered ==
    ASSUME CallsTell, NEW out, NEW in, Turned(ready, out, in, ready'),
           \A r \in Runs : /\ Call("schedule", r, "accepted") \notin in
                           /\ Call("schedule", r, "terminal") \notin in
    PROVE  \A r \in Runs :
               /\ Precedes(ready', Call("schedule", r, "accepted"), Resume)
               /\ Precedes(ready', Call("schedule", r, "terminal"), Call("done", r, "result"))
<1> SUFFICES ASSUME NEW r \in Runs
             PROVE  /\ Precedes(ready', Call("schedule", r, "accepted"), Resume)
                    /\ Precedes(ready', Call("schedule", r, "terminal"), Call("done", r, "result"))
  OBVIOUS
<1>1. /\ Call("schedule", r, "accepted") \in Calls /\ Resume \in Calls
      /\ Call("schedule", r, "terminal") \in Calls /\ Call("done", r, "result") \in Calls
  BY CallsAre DEF Bodies
<1> QED BY <1>1 DEF CallsTell, Turned

(* A call that is not due is preceded by every other.                      *)
LEMMA NotDuePrecedes ==
    ASSUME NEW q, NEW a, NEW b, b \notin ToSet(q)
    PROVE  Precedes(q, a, b)
  BY DEF Precedes, ToSet

(* What is due, in the words of the loop.                                  *)
LEMMA Turns ==
    ASSUME NEW out, NEW in, Turned(ready, out, in, ready')
    PROVE  IsInjective(ready') /\ Due' = (Due \ out) \cup in
  BY DEF Turned, Due

(* The loop makes the call at its head.                                    *)
LEMMA TurnNow ==
    ASSUME WorkInv, NEW f, Next1(f)
    PROVE  /\ ready # <<>> /\ Head(ready) \in Calls /\ Head(ready) \in Due
           /\ Head(ready).call = f
           /\ Turned(ready, {Head(ready)}, {}, Tail(ready))
  BY TurnHead DEF WorkInv, TypeOK, CallsTell, Next1, Due
-----------------------------------------------------------------------------
(* Steps that leave queue, runs, bodies and calls alone.                   *)
LEMMA QuietStep ==
    ASSUME WorkInv, UNCHANGED <<enabled, state, scheduler, handler, deliveries, ready>>
    PROVE  QueueOnce' /\ SlotsHeld' /\ CallsTell' /\ RunsTell' /\ (Closed => Closed')
<1>1. \A s \in Runs : SameRun(s)
  BY DEF SameRun, StartDue, CancelDue, EndDue, Due, scheduler, deliveries
<1>2. RunsTell'
  BY <1>1, SameRunTells DEF WorkInv, RunsTell
<1>3. QueueOnce' /\ SlotsHeld' /\ CallsTell'
  BY DEF WorkInv, QueueOnce, SlotsHeld, CallsTell, Due, scheduler, deliveries
<1>4. Closed => Closed'
  <2>1. Settles
    BY DEF Settles, deliveries
  <2> QED BY <2>1, StillClosed
<1> QED BY <1>2, <1>3, <1>4

(* Steps of the shutdown that wait for no run.                             *)
LEMMA LifecycleStep ==
    ASSUME WorkerConstants, WorkInv, TypeOK',
           Start \/ BindSucceeds \/ BindFails \/ Stop \/ GraceEnds \/ SessionCloses \/ Stopped
    PROVE  WorkInv'
<1>1. UNCHANGED <<enabled, state, scheduler, handler, deliveries, ready, record, asked, gathered>>
  BY DEF Start, BindSucceeds, BindFails, Stop, GraceEnds, SessionCloses, Stopped, intake
<1>2. QueueOnce' /\ SlotsHeld' /\ CallsTell' /\ RunsTell' /\ (Closed => Closed')
  BY <1>1, QuietStep
<1>3. Remembered'
  BY <1>1, StillRemembered DEF WorkInv, Unsettled
<1>4. PhasesTell'
  <2>1. (\A r \in Runs : state[r] = "unused") => Closed
    <3> SUFFICES ASSUME \A r \in Runs : state[r] = "unused" PROVE Closed
      OBVIOUS
    <3>1. \A r \in Runs, b \in Bodies : delivery[r][b] = "none"
      BY DEF WorkInv, RunsTell, HasPlace, Untouched
    <3> QED BY <3>1 DEF Closed, Settled
  <2>2. PhasesTell
    BY DEF WorkInv
  <2>3. /\ (Due' = Due) /\ queue' = queue /\ active' = active /\ accepting' = accepting
        /\ state' = state /\ gathered' = gathered
        /\ \A r \in Runs : CancelDue(r)' <=> CancelDue(r)
    BY <1>1 DEF Due, CancelDue, scheduler
  <2>4. CASE Start
    BY <2>1, <2>2, <2>3, <2>4, <1>2 DEF PhasesTell, Closing, Start
  <2>5. CASE BindSucceeds
    BY <2>1, <2>2, <2>3, <2>5, <1>2 DEF PhasesTell, Closing, BindSucceeds
  <2>6. CASE BindFails
    BY <2>1, <2>2, <2>3, <2>6, <1>2 DEF PhasesTell, Closing, BindFails
  <2>7. CASE Stop
    BY <2>1, <2>2, <2>3, <2>7, <1>2 DEF PhasesTell, Closing, Stop
  <2>8. CASE GraceEnds
    BY <2>1, <2>2, <2>3, <2>8, <1>2 DEF PhasesTell, Closing, GraceEnds
  <2>9. CASE SessionCloses
    BY <2>1, <2>2, <2>3, <2>9, <1>2 DEF PhasesTell, Closing, SessionCloses
  <2>10. CASE Stopped
    BY <2>1, <2>2, <2>3, <2>10, <1>2 DEF PhasesTell, Closing, Stopped
  <2> QED BY <2>4, <2>5, <2>6, <2>7, <2>8, <2>9, <2>10
<1> QED BY <1>2, <1>3, <1>4 DEF WorkInv

(* Requests that bring no run, and the passing of time.                    *)
LEMMA RequestStep ==
    ASSUME WorkerConstants, WorkInv, TypeOK',
           \/ \E c \in Connections :
                  \/ \E i \in Invocations : Receive(c, i)
                  \/ Refuse(c) \/ AnswerWithoutRun(c)
           \/ Cleanup
           \/ \E r \in Runs : TimeToLivePasses(r)
    PROVE  WorkInv'
<1>1. UNCHANGED <<enabled, lifecycle, phase, state, scheduler, handler, deliveries, ready,
                  gathered, asked>>
  BY DEF Receive, Refuse, AnswerWithoutRun, Cleanup, TimeToLivePasses, intake
<1>2. QueueOnce' /\ SlotsHeld' /\ CallsTell' /\ RunsTell' /\ (Closed => Closed')
  BY <1>1, QuietStep
<1>3. PhasesTell'
  <2>1. Closing => Closed'
    BY <1>2 DEF WorkInv, PhasesTell
  <2> QED
    BY <2>1, <1>1, StillInPhase DEF WorkInv, CancelDue, Due, scheduler
<1>4. \A i \in Invocations, r \in Runs :
          record[i] = r /\ Unsettled(r) => record'[i] = r
  <2> SUFFICES ASSUME NEW i \in Invocations, NEW r \in Runs, record[i] = r, Unsettled(r)
               PROVE  record'[i] = r
    OBVIOUS
  <2>1. record \in [Invocations -> Runs \cup {NoRun}] /\ ~Expired(r)
    BY DEF WorkInv, TypeOK, Unsettled, Expired
  <2>2. CleanedUp(record)[i] = r
    BY <2>1 DEF CleanedUp
  <2>3. \A j \in Invocations : LookedUp(j)[i] = r /\ MadeRoom(LookedUp(j))[i] = r
    <3> TAKE j \in Invocations
    <3>1. LookedUp(j) \in [Invocations -> Runs \cup {NoRun}] /\ LookedUp(j)[i] = r
      BY <2>1 DEF LookedUp
    <3>2. CleanedUp(LookedUp(j))[i] = r
      BY <3>1, <2>1 DEF CleanedUp
    <3> QED BY <3>1, <3>2 DEF MadeRoom
  <2>4. CASE record' = record
    BY <2>4
  <2>5. CASE Cleanup
    BY <2>2, <2>5 DEF Cleanup
  <2>6. ASSUME NEW c \in Connections, AnswerWithoutRun(c) PROVE record'[i] = r
    <3>1. reading[c] \in Invocations
      BY <2>6 DEF AnswerWithoutRun, WorkInv, TypeOK
    <3> QED BY <2>3, <2>6, <3>1 DEF AnswerWithoutRun
  <2> QED
    BY <2>4, <2>5, <2>6 DEF Receive, Refuse, TimeToLivePasses, intake
<1>5. Remembered'
  BY <1>1, <1>4 DEF WorkInv, Remembered, Unsettled
<1> QED BY <1>2, <1>3, <1>5 DEF WorkInv
-----------------------------------------------------------------------------
(* Acceptance.  The worker is ready, so the scheduler takes runs, and      *)
(* nobody waits for the drain yet.                                         *)
LEMMA AcceptCalls ==
    ASSUME WorkInv, NEW c \in Connections, NEW r \in Runs, Accept(c, r)
    PROVE  \E asked_for \in SUBSET {RunDrain} :
               Turned(ready, {},
                      (IF enabled THEN {Call("schedule", r, "accepted")} ELSE {}) \cup asked_for,
                      ready')
<1> DEFINE call == Call("schedule", r, "accepted")
<1>1. ready \in Seq(Calls) /\ IsInjective(ready)
  BY DEF WorkInv, TypeOK, CallsTell
<1>2. CASE enabled
  <2>1. call \in Calls /\ call \notin ToSet(ready)
    <3>1. state[r] = "unused" /\ "accepted" \in Bodies
      BY DEF Accept, Bodies
    <3>2. delivery[r]["accepted"] = "none"
      BY <3>1 DEF WorkInv, RunsTell, HasPlace, Untouched
    <3> QED BY <3>1, <3>2, CallsAre DEF WorkInv, CallsTell, Due
  <2>2. Turned(ready, {}, {call}, Append(ready, call))
    BY <1>1, <2>1, TurnCall
  <2> DEFINE more == Append(ready, call)
  <2> HIDE DEF more
  <2>3. more \in Seq(Calls) /\ IsInjective(more)
    BY <2>2 DEF Turned, more
  <2>4. PICK in \in SUBSET {RunDrain} : Turned(more, {}, in, AskDrain(more))
    BY <2>3, TurnAskDrain
  <2>5. Turned(ready, {}, {call} \cup in, AskDrain(more))
    BY <2>2, <2>4, TurnTwice DEF more
  <2>6. ready' = AskDrain(more)
    BY <1>2 DEF Accept, more
  <2> QED BY <2>5, <2>6, <1>2
<1>3. CASE ~enabled
  <2>1. PICK in \in SUBSET {RunDrain} : Turned(ready, {}, in, AskDrain(ready))
    BY <1>1, TurnAskDrain
  <2>2. ready' = AskDrain(ready)
    BY <1>3 DEF Accept
  <2>3. (IF enabled THEN {call} ELSE {}) \cup in = in
    BY <1>3
  <2> QED BY <2>1, <2>2, <2>3
<1> QED BY <1>2, <1>3

(* A run joins the queue.                                                  *)
LEMMA AppendRun ==
    ASSUME NEW q \in Seq(Runs), IsInjective(q), NEW r \in Runs, r \notin ToSet(q)
    PROVE  IsInjective(Append(q, r)) /\ ToSet(Append(q, r)) = ToSet(q) \cup {r}
<1> DEFINE p == Append(q, r)
<1>1. /\ Len(q) \in Nat /\ DOMAIN q = 1..Len(q) /\ DOMAIN p = 1..(Len(q) + 1)
      /\ \A i \in 1..Len(q) : p[i] = q[i]
      /\ p[Len(q) + 1] = r
  OBVIOUS
<1> HIDE DEF p
<1>2. \A i \in DOMAIN p : \/ i \in DOMAIN q /\ p[i] = q[i]
                          \/ i = Len(q) + 1 /\ p[i] = r
  BY <1>1
<1>3. IsInjective(p)
  BY <1>1, <1>2 DEF IsInjective, ToSet
<1>4. ToSet(p) = ToSet(q) \cup {r}
  <2>1. ToSet(p) \subseteq ToSet(q) \cup {r}
    BY <1>2 DEF ToSet
  <2>2. Len(q) + 1 \in DOMAIN p /\ \A i \in DOMAIN q : i \in DOMAIN p
    BY <1>1
  <2>3. ToSet(q) \cup {r} \subseteq ToSet(p)
    BY <1>1, <2>2 DEF ToSet
  <2> QED BY <2>1, <2>3
<1> QED BY <1>3, <1>4 DEF p

(* An accepted run waits in the queue, and is remembered.                  *)
LEMMA AcceptStep ==
    ASSUME WorkerConstants, WorkInv, TypeOK', NEW c \in Connections, NEW r \in Runs,
           Accept(c, r)
    PROVE  WorkInv'
<1>1. PICK drain \in SUBSET {RunDrain} :
          Turned(ready, {},
                 (IF enabled THEN {Call("schedule", r, "accepted")} ELSE {}) \cup drain, ready')
  BY AcceptCalls
<1>2. /\ lifecycle = "running" /\ state[r] = "unused" /\ reading[c] \in Invocations
      /\ asked' = [asked EXCEPT ![r] = reading[c]]
      /\ state' = [state EXCEPT ![r] = "queued"]
      /\ queue' = Append(queue, r)
      /\ UNCHANGED <<enabled, lifecycle, phase, active, accepting, handler, attempt, gathered>>
  BY DEF Accept, Ready, WorkInv, TypeOK
<1>3. /\ state \in [Runs -> RunStates] /\ queue \in Seq(Runs)
      /\ asked \in [Runs -> Invocations \cup {NoRequest}]
      /\ record \in [Invocations -> Runs \cup {NoRun}]
      /\ delivery \in [Runs -> [Bodies -> Stages]]
  BY DEF WorkInv, TypeOK
<1>4. Untouched(r)
  BY <1>2 DEF WorkInv, RunsTell, HasPlace
<1>5. /\ QueueOnce' /\ ToSet(queue') = ToSet(queue) \cup {r}
  BY <1>2, <1>3, <1>4, AppendRun DEF QueueOnce, WorkInv, Untouched
<1>6. /\ phase = "none" /\ accepting /\ Resume \notin Due
      /\ ~Closing
  BY <1>2 DEF WorkInv, PhasesTell, Closing
<1>7. IsInjective(ready')
      /\ Due' = Due \cup (IF enabled THEN {Call("schedule", r, "accepted")} ELSE {}) \cup drain
  BY <1>1, Turns
<1>8. \A s \in Runs, b \in Bodies :
          delivery'[s][b] = IF enabled /\ s = r /\ b = "accepted" THEN "scheduled"
                            ELSE delivery[s][b]
  <2>1. "scheduled" \in Stages /\ "accepted" \in Bodies
    BY DEF Stages, Bodies
  <2>2. CASE enabled
    <3>1. delivery' = [delivery EXCEPT ![r]["accepted"] = "scheduled"]
      BY <2>2 DEF Accept
    <3> QED BY <2>1, <2>2, <3>1, <1>3, Rewrite
  <2>3. CASE ~enabled
    BY <2>3 DEF Accept
  <2> QED BY <2>2, <2>3
<1>9. \A s \in Runs : /\ StartDue(s)' <=> StartDue(s)
                      /\ CancelDue(s)' <=> CancelDue(s)
                      /\ EndDue(s)' <=> EndDue(s)
  BY <1>7, CallsDiffer DEF StartDue, CancelDue, EndDue
<1>10. Resume \notin Due'
  BY <1>6, <1>7, CallsDiffer
<1>11. CallsTell'
  <2>1. ASSUME NEW s \in Runs, NEW b \in Bodies
        PROVE  /\ Call("schedule", s, b) \in Due' <=> delivery'[s][b] = "scheduled"
               /\ Call("done", s, b) \in Due' <=> delivery'[s][b] = "done"
    <3>1. /\ Call("schedule", s, b) \in Due <=> delivery[s][b] = "scheduled"
          /\ Call("done", s, b) \in Due <=> delivery[s][b] = "done"
          /\ delivery[r]["accepted"] = "none"
      BY <1>4 DEF WorkInv, CallsTell, Untouched, Bodies
    <3>2. Call("done", s, b) \in Due' <=> Call("done", s, b) \in Due
      BY <1>7, CallsDiffer
    <3>3. Call("schedule", s, b) \in Due'
              <=> Call("schedule", s, b) \in Due \/ (enabled /\ s = r /\ b = "accepted")
      BY <1>7, CallsDiffer
    <3> QED BY <3>1, <3>2, <3>3, <1>8
  <2>2. ASSUME NEW s \in Runs
        PROVE  /\ Precedes(ready', Call("schedule", s, "accepted"), Resume)
               /\ Precedes(ready', Call("schedule", s, "terminal"), Call("done", s, "result"))
    <3>1. Precedes(ready', Call("schedule", s, "accepted"), Resume)
      BY <1>10, NotDuePrecedes DEF Due
    <3>2. /\ Call("schedule", s, "terminal") \in Calls /\ Call("done", s, "result") \in Calls
      BY CallsAre DEF Bodies
    <3>3. Call("schedule", s, "terminal")
              \notin (IF enabled THEN {Call("schedule", r, "accepted")} ELSE {}) \cup drain
      BY CallsDiffer
    <3>4. Precedes(ready, Call("schedule", s, "terminal"), Call("done", s, "result"))
      BY DEF WorkInv, CallsTell
    <3>5. Precedes(ready', Call("schedule", s, "terminal"), Call("done", s, "result"))
      BY <1>1, <3>2, <3>3, <3>4 DEF Turned
    <3> QED BY <3>1, <3>5
  <2> QED BY <1>7, <2>1, <2>2 DEF CallsTell
<1>12. RunsTell'
  <2>1. ASSUME NEW s \in Runs, s # r PROVE (HasPlace(s) /\ BodiesTell(s))'
    <3>1. SameRun(s)
      BY <2>1, <1>2, <1>3, <1>5, <1>8, <1>9 DEF SameRun
    <3> QED BY <3>1, <1>2, SameRunTells DEF WorkInv
  <2>2. HasPlace(r)'
    <3>1. Result(r)' = "none" /\ handler'[r] = "none" /\ r \in ToSet(queue') /\ r \notin active'
      BY <1>2, <1>4, <1>5, <1>8 DEF Result, Untouched, Bodies
    <3>2. ~StartDue(r)' /\ ~CancelDue(r)' /\ ~EndDue(r)'
      BY <1>4, <1>9 DEF Untouched, WorkInv, RunsTell, HasPlace
    <3> QED BY <1>2, <1>3, <3>1, <3>2 DEF HasPlace, Waits
  <2>3. BodiesTell(r)'
    <3>1. Result(r)' = "none" /\ delivery'[r]["terminal"] = "none"
      BY <1>4, <1>8 DEF Result, Untouched, Bodies
    <3>2. enabled' => delivery'[r]["accepted"] = "scheduled"
      BY <1>2, <1>8 DEF Bodies
    <3>3. \A b \in Bodies : delivery'[r][b] # "sleeping"
      BY <1>4, <1>8 DEF Untouched
    <3>4. state'[r] = "queued"
      BY <1>2, <1>3
    <3> QED BY <3>1, <3>2, <3>3, <3>4 DEF BodiesTell, Settled
  <2> QED BY <2>1, <2>2, <2>3 DEF RunsTell
<1>13. Remembered'
  <2> DEFINE i == reading[c]
             store == LookedUp(i)
  <2>1. /\ store[i] = NoRun
        /\ record' = [MadeRoom(store) EXCEPT ![i] = r]
    BY DEF Accept
  <2>2. ASSUME NEW s \in Runs, s # r, Unsettled(s)
        PROVE  asked[s] \in Invocations /\ asked[s] # i /\ MadeRoom(store)[asked[s]] = s
    <3>1. asked[s] \in Invocations /\ record[asked[s]] = s /\ ~Expired(s)
      BY <2>2 DEF WorkInv, Remembered, Unsettled, Expired
    <3>2. store \in [Invocations -> Runs \cup {NoRun}] /\ store[asked[s]] = s
      BY <1>2, <1>3, <3>1 DEF LookedUp
    <3>3. CleanedUp(store)[asked[s]] = s
      BY <3>1, <3>2 DEF CleanedUp
    <3>4. asked[s] # i
      BY <2>1, <3>2 DEF WorkerConstants
    <3> QED BY <3>1, <3>2, <3>3, <3>4 DEF MadeRoom
  <2>3. MadeRoom(store) \in [Invocations -> Runs \cup {NoRun}]
    BY <1>2, <1>3, StoresAre
  <2>4. ASSUME NEW s \in Runs, Unsettled(s)'
        PROVE  asked'[s] \in Invocations /\ record'[asked'[s]] = s
    <3>1. CASE s = r
      BY <3>1, <1>2, <1>3, <2>1, <2>3
    <3>2. CASE s # r
      <4>1. Unsettled(s) /\ asked'[s] = asked[s]
        BY <3>2, <2>4, <1>2, <1>3 DEF Unsettled
      <4> QED BY <3>2, <4>1, <2>1, <2>2, <2>3
    <3> QED BY <3>1, <3>2
  <2> QED BY <2>4 DEF Remembered
<1>14. PhasesTell'
  BY <1>2, <1>6, <1>9, <1>10 DEF WorkInv, PhasesTell, Closing
<1>15. SlotsHeld'
  BY <1>2 DEF WorkInv, SlotsHeld
<1> QED BY <1>5, <1>11, <1>12, <1>13, <1>14, <1>15 DEF WorkInv
-----------------------------------------------------------------------------
(* Steps of the scheduler: the calls that come and go are about runs.      *)
LEMMA SchedulerCalls ==
    ASSUME CallsTell, NEW out, NEW in, Turned(ready, out, in, ready'), delivery' = delivery,
           \A r \in Runs, b \in Bodies :
               /\ Call("schedule", r, b) \notin out \cup in
               /\ Call("done", r, b) \notin out \cup in
    PROVE  CallsTell'
<1>1. IsInjective(ready') /\ Due' = (Due \ out) \cup in
  BY Turns
<1>2. \A r \in Runs : /\ Call("schedule", r, "accepted") \notin in
                      /\ Call("schedule", r, "terminal") \notin in
  BY DEF Bodies
<1>3. \A r \in Runs :
          /\ Precedes(ready', Call("schedule", r, "accepted"), Resume)
          /\ Precedes(ready', Call("schedule", r, "terminal"), Call("done", r, "result"))
  BY <1>2, StillOrdered
<1>4. \A r \in Runs, b \in Bodies :
          /\ Call("schedule", r, b) \in Due' <=> delivery'[r][b] = "scheduled"
          /\ Call("done", r, b) \in Due' <=> delivery'[r][b] = "done"
  BY <1>1 DEF CallsTell
<1> QED BY <1>1, <1>3, <1>4 DEF CallsTell

(* The drain starts runs from the head of the queue, in free slots.        *)
LEMMA DrainStep ==
    ASSUME WorkerConstants, WorkInv, TypeOK', DrainQueue
    PROVE  WorkInv'
<1>1. UNCHANGED <<enabled, lifecycle, phase, record, asked, state, accepting, handler,
                  delivery, attempt, gathered>>
  BY DEF DrainQueue, intake, deliveries
<1>2. \A r \in ToSet(queue) : r \in Runs /\ ~StartDue(r)
  BY DEF WorkInv, TypeOK, RunsTell, HasPlace, ToSet
<1>3. PICK begun \in SUBSET ToSet(queue), woken \in SUBSET {Resume} :
          /\ queue' \in Seq(Runs) /\ QueueOnce' /\ ToSet(queue') = ToSet(queue) \ begun
          /\ active' = active \cup begun /\ SlotsHeld'
          /\ ~accepting => begun = {} /\ queue' = queue
          /\ Turned(ready, {RunDrain},
                    {Call("start", r, "result") : r \in begun} \cup woken, ready')
          /\ woken # {} => phase = "idle" /\ active' = {} /\ Resume \notin Due
  BY <1>2, DrainFacts DEF WorkInv, CallsTell
<1> DEFINE in == {Call("start", r, "result") : r \in begun} \cup woken
<1>4. Due' = (Due \ {RunDrain}) \cup in
  BY <1>3, Turns
<1>5. \A s \in Runs : /\ StartDue(s)' <=> StartDue(s) \/ s \in begun
                      /\ CancelDue(s)' <=> CancelDue(s)
                      /\ EndDue(s)' <=> EndDue(s)
  BY <1>4, CallsDiffer DEF StartDue, CancelDue, EndDue
<1>6. CallsTell'
  <2>1. \A r \in Runs, b \in Bodies : /\ Call("schedule", r, b) \notin {RunDrain} \cup in
                                      /\ Call("done", r, b) \notin {RunDrain} \cup in
    BY CallsDiffer
  <2> QED BY <1>1, <1>3, <2>1, SchedulerCalls DEF WorkInv
<1>7. RunsTell'
  <2>1. ASSUME NEW s \in Runs, s \notin begun PROVE (HasPlace(s) /\ BodiesTell(s))'
    <3>1. SameRun(s)
      BY <2>1, <1>1, <1>3, <1>5 DEF SameRun
    <3> QED BY <3>1, <1>1, SameRunTells DEF WorkInv
  <2>2. ASSUME NEW s \in begun PROVE s \in Runs /\ (HasPlace(s) /\ BodiesTell(s))'
    <3>1. s \in Runs /\ s \in ToSet(queue) /\ HasPlace(s) /\ BodiesTell(s)
      BY <1>2, <1>3 DEF WorkInv, RunsTell
    <3>2. ~EndDue(s) /\ ~CancelDue(s) /\ Waits(s) /\ state[s] # "unused"
      BY <3>1 DEF HasPlace, Waits, Untouched
    <3>3. /\ s \notin ToSet(queue') /\ s \in active' /\ StartDue(s)' /\ ~CancelDue(s)'
          /\ ~EndDue(s)' /\ state'[s] # "unused" /\ Waits(s)' /\ Result(s)' = Result(s)
      BY <3>1, <3>2, <1>1, <1>3, <1>5 DEF Waits, Result
    <3>4. HasPlace(s)'
      BY <3>3 DEF HasPlace, Waits
    <3>5. BodiesTell(s)'
      BY <3>1, <1>1, <3>3 DEF BodiesTell
    <3> QED BY <3>1, <3>4, <3>5
  <2> QED BY <2>1, <2>2 DEF RunsTell
<1>8. Remembered'
  BY <1>1, StillRemembered DEF WorkInv, Unsettled
<1>9. PhasesTell'
  <2>1. PhasesTell
    BY DEF WorkInv
  <2>2. Closing => Closed'
    <3>1. Settles
      BY <1>1 DEF Settles
    <3> QED BY <2>1, <3>1, StillClosed DEF PhasesTell
  <2>3. CASE accepting
    <3>1. /\ phase \notin {"cancel", "idle", "gather", "close", "cleanup"} /\ Resume \notin Due
          /\ woken = {}
      BY <2>1, <2>3, <1>3 DEF PhasesTell
    <3>2. Resume \notin Due'
      BY <3>1, <1>4, CallsDiffer
    <3> QED BY <2>1, <2>2, <2>3, <3>1, <3>2, <1>1, <1>5 DEF PhasesTell, Closing
  <2>4. CASE ~accepting
    <3>1. begun = {} /\ queue' = queue /\ active' = active
      BY <2>4, <1>3
    <3>2. Resume \in Due' => Resume \in Due \/ (phase = "idle" /\ active' = {})
      BY <3>1, <1>3, <1>4
    <3> QED BY <2>1, <2>2, <2>4, <3>1, <3>2, <1>1, <1>5 DEF PhasesTell, Closing
  <2> QED BY <2>3, <2>4
<1> QED BY <1>3, <1>6, <1>7, <1>8, <1>9 DEF WorkInv

(* A run that was about to start executes.                                 *)
LEMMA BeginStep ==
    ASSUME WorkerConstants, WorkInv, TypeOK', NEW r \in Runs, RunBegins(r)
    PROVE  WorkInv'
<1> DEFINE call == Call("start", r, "result")
<1>1. Head(ready) = call
  BY TurnNow, CallsAre DEF RunBegins
<1>2. ready' = Tail(ready) /\ Turned(ready, {call}, {}, ready') /\ call \in Due
  BY <1>1, TurnNow DEF RunBegins
<1>3. Due' = Due \ {call}
  BY <1>2, Turns
<1>4. /\ state' = [state EXCEPT ![r] = "running"]
      /\ handler' = [handler EXCEPT ![r] = "running"]
      /\ UNCHANGED <<enabled, lifecycle, phase, record, asked, queue, active, accepting,
                     delivery, attempt, gathered>>
  BY DEF RunBegins, intake, scheduler, deliveries
<1>5. /\ state \in [Runs -> RunStates]
      /\ handler \in [Runs -> {"none", "running", "detached", "ended"}]
  BY DEF WorkInv, TypeOK
<1>6. HasPlace(r) /\ BodiesTell(r) /\ StartDue(r)
  BY <1>2 DEF WorkInv, RunsTell, StartDue
<1>7. \A s \in Runs : /\ StartDue(s)' <=> StartDue(s) /\ s # r
                      /\ CancelDue(s)' <=> CancelDue(s)
                      /\ EndDue(s)' <=> EndDue(s)
  BY <1>3, CallsDiffer DEF StartDue, CancelDue, EndDue
<1>8. /\ Waits(r) /\ r \in active /\ ~CancelDue(r) /\ ~EndDue(r) /\ r \notin ToSet(queue)
      /\ state[r] \notin {"unused"} \cup Settled
  BY <1>6 DEF HasPlace, Waits, Untouched, BodiesTell
<1>9. CallsTell'
  <2>1. \A s \in Runs, b \in Bodies : /\ Call("schedule", s, b) \notin {call} \cup {}
                                      /\ Call("done", s, b) \notin {call} \cup {}
    BY CallsDiffer
  <2> QED BY <1>2, <1>4, <2>1, SchedulerCalls DEF WorkInv
<1>10. RunsTell'
  <2>1. ASSUME NEW s \in Runs, s # r PROVE (HasPlace(s) /\ BodiesTell(s))'
    <3>1. SameRun(s)
      BY <2>1, <1>4, <1>5, <1>7 DEF SameRun
    <3> QED BY <3>1, <1>4, SameRunTells DEF WorkInv
  <2>2. /\ handler'[r] = "running" /\ state'[r] = "running" /\ Result(r)' = "none"
        /\ Result(r) = "none" /\ r \in active'
        /\ ~StartDue(r)' /\ ~CancelDue(r)' /\ ~EndDue(r)' /\ r \notin ToSet(queue')
    BY <1>4, <1>5, <1>7, <1>8 DEF Waits, Result
  <2>3. HasPlace(r)'
    BY <2>2 DEF HasPlace
  <2>4. BodiesTell(r)'
    BY <2>2, <1>4, <1>6, <1>8 DEF BodiesTell, Settled
  <2> QED BY <2>1, <2>3, <2>4 DEF RunsTell
<1>11. Remembered'
  <2>1. \A s \in Runs : Unsettled(s)' => Unsettled(s)
    BY <1>4, <1>5, <1>8 DEF Unsettled
  <2> QED BY <2>1, <1>4, StillRemembered DEF WorkInv
<1>12. PhasesTell'
  <2>1. ~Closing
    BY <1>8 DEF WorkInv, PhasesTell, Closed
  <2>2. Resume \in Due' => Resume \in Due
    BY <1>3
  <2>3. \A s \in Runs : (state[s] = "unused" => state'[s] = "unused")
                        /\ (CancelDue(s)' => CancelDue(s))
    BY <1>4, <1>5, <1>7, <1>8
  <2> QED BY <2>1, <2>2, <2>3, <1>4, StillInPhase DEF WorkInv
<1>13. QueueOnce' /\ SlotsHeld'
  BY <1>4 DEF WorkInv, QueueOnce, SlotsHeld
<1> QED BY <1>9, <1>10, <1>11, <1>12, <1>13 DEF WorkInv

(* The slot of a run is free again, and whoever waits for idleness wakes.  *)
LEMMA RunDoneStep ==
    ASSUME WorkerConstants, WorkInv, TypeOK', NEW r \in Runs, RunDone(r)
    PROVE  WorkInv'
<1> DEFINE call == Call("runDone", r, "result")
           tail == Tail(ready)
           asking == IF accepting /\ queue # <<>> THEN AskDrain(tail) ELSE tail
<1>1. Head(ready) = call
  BY TurnNow, CallsAre DEF RunDone
<1>2. Turned(ready, {call}, {}, tail) /\ call \in Due
  BY <1>1, TurnNow DEF RunDone
<1>3. tail \in Seq(Calls) /\ IsInjective(tail)
  BY <1>2 DEF Turned
<1>4. \E drain \in SUBSET {RunDrain} : Turned(tail, {}, drain, asking)
  BY <1>3, TurnAskDrain, TurnNone
<1>5. PICK drain \in SUBSET {RunDrain} : Turned(tail, {}, drain, asking)
  BY <1>4
<1>6. /\ active' = active \ {r} /\ ready' = WakeIfIdle(asking, queue, active')
      /\ UNCHANGED <<enabled, lifecycle, phase, record, asked, state, queue, accepting, handler,
                     delivery, attempt, gathered>>
  BY DEF RunDone, intake, deliveries
<1> HIDE DEF asking, tail
<1>7. Turned(ready, {call}, drain, asking)
  <2>1. {} \cup drain = drain
    OBVIOUS
  <2> QED BY <2>1, <1>2, <1>5, TurnTwice
<1>8. asking \in Seq(Calls) /\ IsInjective(asking)
  BY <1>7 DEF Turned
<1>9. PICK woken \in SUBSET {Resume} :
          /\ Turned(asking, {}, woken, WakeIfIdle(asking, queue, active'))
          /\ woken # {} => phase = "idle" /\ queue = <<>> /\ active' = {}
  BY <1>8, TurnWake
<1>10. Turned(ready, {call}, drain \cup woken, ready')
  BY <1>6, <1>7, <1>9, TurnTwice
<1>11. Due' = (Due \ {call}) \cup drain \cup woken
  BY <1>10, Turns
<1>12. HasPlace(r) /\ BodiesTell(r) /\ EndDue(r) /\ r \in active
  BY <1>2 DEF WorkInv, RunsTell, EndDue, HasPlace
<1>13. \A s \in Runs : /\ StartDue(s)' <=> StartDue(s)
                       /\ CancelDue(s)' <=> CancelDue(s)
                       /\ EndDue(s)' <=> EndDue(s) /\ s # r
  BY <1>11, CallsDiffer DEF StartDue, CancelDue, EndDue
<1>14. CallsTell'
  <2>1. \A s \in Runs, b \in Bodies :
            /\ Call("schedule", s, b) \notin {call} \cup (drain \cup woken)
            /\ Call("done", s, b) \notin {call} \cup (drain \cup woken)
    BY CallsDiffer
  <2> QED BY <1>10, <1>6, <2>1, SchedulerCalls DEF WorkInv
<1>15. RunsTell'
  <2>1. ASSUME NEW s \in Runs, s # r PROVE (HasPlace(s) /\ BodiesTell(s))'
    <3>1. SameRun(s)
      BY <2>1, <1>6, <1>13 DEF SameRun
    <3> QED BY <3>1, <1>6, SameRunTells DEF WorkInv
  <2>2. /\ handler[r] \in {"detached", "ended"} /\ Result(r) # "none"
        /\ r \notin ToSet(queue) /\ ~StartDue(r) /\ ~CancelDue(r) /\ state[r] # "unused"
    BY <1>12 DEF HasPlace, Waits, Untouched
  <2>3. /\ handler'[r] \in {"detached", "ended"} /\ Result(r)' # "none"
        /\ r \notin ToSet(queue') /\ ~StartDue(r)' /\ ~CancelDue(r)' /\ ~EndDue(r)'
        /\ state'[r] # "unused"
    BY <2>2, <1>6, <1>13 DEF Result
  <2>4. HasPlace(r)'
    BY <2>3 DEF HasPlace
  <2>5. BodiesTell(r)'
    BY <1>6, <1>12 DEF BodiesTell, Result
  <2> QED BY <2>1, <2>4, <2>5 DEF RunsTell
<1>16. Remembered'
  BY <1>6, StillRemembered DEF WorkInv, Unsettled
<1>17. PhasesTell'
  <2>1. PhasesTell /\ Resume \notin Due
    BY <1>12 DEF WorkInv, PhasesTell
  <2>2. Closing => Closed'
    <3>1. Settles
      BY <1>6 DEF Settles
    <3> QED BY <2>1, <3>1, StillClosed DEF PhasesTell
  <2>3. Resume \in Due' => phase = "idle" /\ active' = {}
    BY <2>1, <1>9, <1>11, CallsDiffer
  <2> QED BY <2>1, <2>2, <2>3, <1>6, <1>13 DEF PhasesTell, Closing
<1>18. QueueOnce' /\ SlotsHeld'
  <2>1. IsFiniteSet(active) /\ Cardinality(active) <= Concurrency
    BY DEF WorkInv, SlotsHeld
  <2>2. IsFiniteSet(active \ {r}) /\ Cardinality(active \ {r}) = Cardinality(active) - 1
        /\ Cardinality(active) \in Nat
    BY <2>1, <1>12, FS_RemoveElement, FS_CardinalityType
  <2>3. SlotsHeld'
    BY <2>1, <2>2, <1>6 DEF SlotsHeld, WorkerConstants
  <2> QED BY <2>3, <1>6 DEF WorkInv, QueueOnce
<1> QED BY <1>14, <1>15, <1>16, <1>17, <1>18 DEF WorkInv

(* Stopping the scheduler: what was queued is about to be cancelled.       *)
LEMMA StopAcceptingStep ==
    ASSUME WorkerConstants, WorkInv, TypeOK', StopAccepting
    PROVE  WorkInv'
<1> DEFINE in == {Call("cancel", r, "result") : r \in ToSet(queue)}
<1>1. \A r \in ToSet(queue) : r \in Runs /\ ~CancelDue(r)
  BY DEF WorkInv, TypeOK, RunsTell, HasPlace, ToSet
<1>2. Turned(ready, {}, in, ready')
  BY <1>1, StopFacts DEF WorkInv, CallsTell
<1>3. Due' = Due \cup in
  BY <1>2, Turns
<1>4. /\ phase = "site" /\ phase' = "cancel" /\ accepting' = FALSE /\ queue' = <<>>
      /\ UNCHANGED <<enabled, lifecycle, record, asked, state, active, handler, delivery,
                     attempt, gathered>>
  BY DEF StopAccepting, intake, deliveries
<1>5. ToSet(queue') = {} /\ QueueOnce'
  BY <1>4 DEF ToSet, QueueOnce, IsInjective
<1>6. \A s \in Runs : /\ StartDue(s)' <=> StartDue(s)
                      /\ CancelDue(s)' <=> CancelDue(s) \/ s \in ToSet(queue)
                      /\ EndDue(s)' <=> EndDue(s)
  BY <1>3, CallsDiffer DEF StartDue, CancelDue, EndDue
<1>7. CallsTell'
  <2>1. \A s \in Runs, b \in Bodies : /\ Call("schedule", s, b) \notin {} \cup in
                                      /\ Call("done", s, b) \notin {} \cup in
    BY CallsDiffer
  <2> QED BY <1>2, <1>4, <2>1, SchedulerCalls DEF WorkInv
<1>8. RunsTell'
  <2>1. ASSUME NEW s \in Runs, s \notin ToSet(queue) PROVE (HasPlace(s) /\ BodiesTell(s))'
    <3>1. SameRun(s)
      BY <2>1, <1>4, <1>5, <1>6 DEF SameRun
    <3> QED BY <3>1, <1>4, SameRunTells DEF WorkInv
  <2>2. ASSUME NEW s \in Runs, s \in ToSet(queue) PROVE (HasPlace(s) /\ BodiesTell(s))'
    <3>1. HasPlace(s) /\ BodiesTell(s)
      BY <2>2 DEF WorkInv, RunsTell
    <3>2. /\ Waits(s) /\ s \notin active /\ ~StartDue(s) /\ ~EndDue(s) /\ state[s] # "unused"
      BY <3>1, <2>2 DEF HasPlace, Waits, Untouched
    <3>3. /\ Waits(s)' /\ s \notin active' /\ ~StartDue(s)' /\ ~EndDue(s)' /\ CancelDue(s)'
          /\ state'[s] # "unused" /\ s \notin ToSet(queue')
      BY <3>2, <2>2, <1>4, <1>5, <1>6 DEF Waits, Result
    <3>4. HasPlace(s)'
      BY <3>3 DEF HasPlace, Waits
    <3>5. BodiesTell(s)'
      BY <3>1, <1>4 DEF BodiesTell, Result
    <3> QED BY <3>4, <3>5
  <2> QED BY <2>1, <2>2 DEF RunsTell
<1>9. Remembered'
  BY <1>4, StillRemembered DEF WorkInv, Unsettled
<1>10. PhasesTell'
  <2>1. PhasesTell /\ lifecycle = "stopping" /\ Resume \notin Due
    BY <1>4 DEF WorkInv, PhasesTell
  <2>2. Resume \notin Due'
    BY <2>1, <1>3, CallsDiffer
  <2> QED BY <2>1, <2>2, <1>4 DEF PhasesTell, Closing
<1>11. SlotsHeld'
  BY <1>4 DEF WorkInv, SlotsHeld
<1> QED BY <1>5, <1>7, <1>8, <1>9, <1>10, <1>11 DEF WorkInv

(* The cancellations are under way: the shutdown waits for the runs.       *)
LEMMA QueueCancelledStep ==
    ASSUME WorkerConstants, WorkInv, TypeOK', QueueCancelled
    PROVE  WorkInv'
<1>1. /\ phase = "cancel" /\ phase' = "idle"
      /\ UNCHANGED <<enabled, lifecycle, record, asked, state, queue, active, accepting, handler,
                     delivery, attempt, gathered>>
  BY DEF QueueCancelled, intake, scheduler, deliveries
<1>2. PhasesTell /\ Resume \notin Due /\ ready \in Seq(Calls) /\ IsInjective(ready)
  BY <1>1 DEF WorkInv, PhasesTell, TypeOK, CallsTell
<1>3. \A r \in Runs : ~CancelDue(r)
  BY CallsAre DEF QueueCancelled, CancelDue, Due, ToSet
<1>4. \E woken \in SUBSET {Resume} :
          /\ Turned(ready, {}, woken, ready')
          /\ woken # {} => active = {}
  <2>1. CASE active = {}
    BY <2>1, <1>2, TurnCall, CallsAre DEF QueueCancelled, Due
  <2>2. CASE active # {}
    BY <2>2, <1>2, TurnNone DEF QueueCancelled
  <2> QED BY <2>1, <2>2
<1>5. PICK woken \in SUBSET {Resume} :
          /\ Turned(ready, {}, woken, ready')
          /\ woken # {} => active = {}
  BY <1>4
<1>6. Due' = Due \cup woken
  BY <1>5, Turns
<1>7. \A s \in Runs : /\ StartDue(s)' <=> StartDue(s)
                      /\ CancelDue(s)' <=> CancelDue(s)
                      /\ EndDue(s)' <=> EndDue(s)
  BY <1>6, CallsDiffer DEF StartDue, CancelDue, EndDue
<1>8. CallsTell'
  <2>1. \A s \in Runs, b \in Bodies : /\ Call("schedule", s, b) \notin {} \cup woken
                                      /\ Call("done", s, b) \notin {} \cup woken
    BY CallsDiffer
  <2> QED BY <1>1, <1>5, <2>1, SchedulerCalls DEF WorkInv
<1>9. RunsTell'
  <2>1. \A s \in Runs : SameRun(s)
    BY <1>1, <1>7 DEF SameRun
  <2> QED BY <2>1, <1>1, SameRunTells DEF WorkInv, RunsTell
<1>10. Remembered'
  BY <1>1, StillRemembered DEF WorkInv, Unsettled
<1>11. PhasesTell'
  <2>1. Resume \in Due' => active' = {}
    BY <1>1, <1>2, <1>5, <1>6
  <2>2. gathered = {} /\ lifecycle = "stopping" /\ ~accepting
    BY <1>1, <1>2 DEF PhasesTell
  <2> QED BY <2>1, <2>2, <1>1, <1>2, <1>3, <1>7 DEF PhasesTell, Closing
<1>12. QueueOnce' /\ SlotsHeld'
  BY <1>1 DEF WorkInv, QueueOnce, SlotsHeld
<1> QED BY <1>8, <1>9, <1>10, <1>11, <1>12 DEF WorkInv

(* The handler's fate is the run's one result.                             *)
LEMMA HandlerStep ==
    ASSUME WorkerConstants, WorkInv, TypeOK', NEW r \in Runs, HandlerEnds(r)
    PROVE  WorkInv'
<1> DEFINE call == Call("runDone", r, "result")
<1>1. /\ handler[r] = "running"
      /\ \E h \in {"ended", "detached"} : handler' = [handler EXCEPT ![r] = h]
      /\ delivery' = [delivery EXCEPT ![r]["result"] = "new"]
      /\ ready' = Append(ready, call)
      /\ UNCHANGED <<enabled, lifecycle, phase, record, asked, state, queue, active, accepting,
                     attempt, gathered>>
  BY DEF HandlerEnds, intake, scheduler
<1>2. /\ handler \in [Runs -> {"none", "running", "detached", "ended"}]
      /\ delivery \in [Runs -> [Bodies -> Stages]]
      /\ ready \in Seq(Calls) /\ IsInjective(ready) /\ PhasesTell
  BY DEF WorkInv, TypeOK, CallsTell
<1>3. HasPlace(r) /\ BodiesTell(r)
  BY DEF WorkInv, RunsTell
<1>4. /\ Result(r) = "none" /\ r \in active /\ ~StartDue(r) /\ ~CancelDue(r) /\ ~EndDue(r)
      /\ r \notin ToSet(queue) /\ state[r] # "unused"
  BY <1>1, <1>3 DEF HasPlace, Waits, Untouched
<1>5. /\ \A s \in Runs : s # r => handler'[s] = handler[s]
      /\ handler'[r] \in {"ended", "detached"}
  BY <1>1, <1>2
<1>6. \A s \in Runs, b \in Bodies :
          delivery'[s][b] = IF s = r /\ b = "result" THEN "new" ELSE delivery[s][b]
  <2>1. "new" \in Stages /\ "result" \in Bodies
    BY DEF Stages, Tracked, Bodies
  <2> QED BY <2>1, <1>1, <1>2, Rewrite
<1>7. Turned(ready, {}, {call}, ready') /\ call \in Calls
  BY <1>1, <1>2, <1>4, TurnCall, CallsAre DEF EndDue, Due
<1>8. Due' = Due \cup {call} /\ IsInjective(ready')
  BY <1>7, Turns
<1>9. \A s \in Runs : /\ StartDue(s)' <=> StartDue(s)
                      /\ CancelDue(s)' <=> CancelDue(s)
                      /\ EndDue(s)' <=> EndDue(s) \/ s = r
  BY <1>8, CallsDiffer DEF StartDue, CancelDue, EndDue
<1>10. CallsTell'
  <2>1. \A s \in Runs, b \in Bodies :
            /\ Call("schedule", s, b) \in Due' <=> delivery'[s][b] = "scheduled"
            /\ Call("done", s, b) \in Due' <=> delivery'[s][b] = "done"
    BY <1>4, <1>6, <1>8, CallsDiffer DEF WorkInv, CallsTell, Result
  <2>2. \A s \in Runs : /\ Call("schedule", s, "accepted") \notin {call}
                        /\ Call("schedule", s, "terminal") \notin {call}
    BY CallsDiffer
  <2>3. \A s \in Runs :
            /\ Precedes(ready', Call("schedule", s, "accepted"), Resume)
            /\ Precedes(ready', Call("schedule", s, "terminal"), Call("done", s, "result"))
    BY <2>2, <1>7, StillOrdered DEF WorkInv
  <2> QED BY <2>1, <2>3, <1>8 DEF CallsTell
<1>11. RunsTell'
  <2>1. ASSUME NEW s \in Runs, s # r PROVE (HasPlace(s) /\ BodiesTell(s))'
    <3>1. SameRun(s)
      BY <2>1, <1>1, <1>5, <1>6, <1>9 DEF SameRun
    <3> QED BY <3>1, <1>1, SameRunTells DEF WorkInv
  <2>2. Result(r)' = "new"
    BY <1>6 DEF Result, Bodies
  <2>3. HasPlace(r)'
    BY <2>2, <1>1, <1>4, <1>5, <1>9 DEF HasPlace
  <2>4. BodiesTell(r)'
    <3>1. \A b \in Bodies : b # "result" => delivery'[r][b] = delivery[r][b]
      BY <1>6
    <3>2. /\ delivery'[r]["terminal"] = "none"
          /\ delivery'[r]["accepted"] = delivery[r]["accepted"]
          /\ state'[r] = state[r] /\ state[r] \notin Settled
      BY <3>1, <1>1, <1>3, <1>4 DEF BodiesTell, Bodies
    <3>3. \A b \in Bodies : delivery'[r][b] = "sleeping" => attempt'[r][b] < MaxAttempts
      BY <1>1, <1>3, <1>6 DEF BodiesTell
    <3> QED BY <2>2, <3>2, <3>3, <1>1, <1>3 DEF BodiesTell
  <2> QED BY <2>1, <2>3, <2>4 DEF RunsTell
<1>12. Remembered'
  BY <1>1, StillRemembered DEF WorkInv, Unsettled
<1>13. PhasesTell'
  <2>1. ~Closing
    <3>1. state[r] \notin Settled /\ state[r] # "unused"
      BY <1>3, <1>4 DEF BodiesTell
    <3> QED BY <3>1, <1>2 DEF PhasesTell, Closed
  <2>2. Resume \in Due' => Resume \in Due
    BY <1>8, CallsDiffer
  <2> QED BY <2>1, <2>2, <1>1, <1>2, <1>9, StillInPhase
<1>14. QueueOnce' /\ SlotsHeld'
  BY <1>1 DEF WorkInv, QueueOnce, SlotsHeld
<1> QED BY <1>10, <1>11, <1>12, <1>13, <1>14 DEF WorkInv

(* What is left of a handler ends.                                         *)
LEMMA DetachedStep ==
    ASSUME WorkerConstants, WorkInv, TypeOK', NEW r \in Runs, DetachedEnds(r)
    PROVE  WorkInv'
<1>1. /\ handler[r] = "detached" /\ handler' = [handler EXCEPT ![r] = "ended"]
      /\ UNCHANGED <<enabled, lifecycle, phase, record, asked, state, queue, active, accepting,
                     delivery, attempt, ready, gathered>>
  BY DEF DetachedEnds, intake, scheduler, deliveries
<1>2. handler \in [Runs -> {"none", "running", "detached", "ended"}]
  BY DEF WorkInv, TypeOK
<1>3. /\ Due' = Due
      /\ \A s \in Runs : /\ StartDue(s)' <=> StartDue(s)
                         /\ CancelDue(s)' <=> CancelDue(s)
                         /\ EndDue(s)' <=> EndDue(s)
  BY <1>1 DEF StartDue, CancelDue, EndDue, Due
<1>4. CallsTell' /\ QueueOnce' /\ SlotsHeld'
  BY <1>1, <1>3 DEF WorkInv, CallsTell, QueueOnce, SlotsHeld
<1>5. RunsTell'
  <2>1. ASSUME NEW s \in Runs, s # r PROVE (HasPlace(s) /\ BodiesTell(s))'
    <3>1. SameRun(s)
      BY <2>1, <1>1, <1>2, <1>3 DEF SameRun
    <3> QED BY <3>1, <1>1, SameRunTells DEF WorkInv
  <2>2. HasPlace(r) /\ BodiesTell(r) /\ handler'[r] = "ended"
    BY <1>1, <1>2 DEF WorkInv, RunsTell
  <2>3. (HasPlace(r) /\ BodiesTell(r))'
    BY <2>2, <1>1, <1>3 DEF HasPlace, BodiesTell, Waits, Untouched, Result
  <2> QED BY <2>1, <2>3 DEF RunsTell
<1>6. Remembered'
  BY <1>1, StillRemembered DEF WorkInv, Unsettled
<1>7. PhasesTell'
  <2>1. Closing => Closed'
    <3>1. Settles
      BY <1>1 DEF Settles
    <3> QED BY <3>1, StillClosed DEF WorkInv, PhasesTell
  <2> QED BY <2>1, <1>1, <1>3, StillInPhase DEF WorkInv
<1> QED BY <1>4, <1>5, <1>6, <1>7 DEF WorkInv
-----------------------------------------------------------------------------
(* Steps that schedule and track what is delivered.                        *)

(* The cancellation of a queued run is its result.                         *)
LEMMA TrackResultStep ==
    ASSUME WorkerConstants, WorkInv, TypeOK', NEW r \in Runs, TrackResult(r)
    PROVE  WorkInv'
<1> DEFINE call == Call("cancel", r, "result")
<1>1. Head(ready) = call
  BY TurnNow, CallsAre DEF TrackResult
<1>2. Turned(ready, {call}, {}, ready') /\ call \in Due
  BY <1>1, TurnNow DEF TrackResult
<1>3. Due' = Due \ {call} /\ IsInjective(ready')
  BY <1>2, Turns
<1>4. /\ delivery' = [delivery EXCEPT ![r]["result"] = "new"]
      /\ UNCHANGED <<enabled, lifecycle, phase, record, asked, state, queue, active, accepting,
                     handler, attempt, gathered>>
  BY DEF TrackResult, intake, scheduler
<1>5. HasPlace(r) /\ BodiesTell(r) /\ CancelDue(r) /\ PhasesTell
  BY <1>2 DEF WorkInv, RunsTell, CancelDue
<1>6. /\ Waits(r) /\ ~StartDue(r) /\ ~EndDue(r) /\ r \notin ToSet(queue)
      /\ state[r] \notin {"unused"} \cup Settled
  BY <1>5 DEF HasPlace, BodiesTell, Waits, Untouched
<1>7. \A s \in Runs, b \in Bodies :
          delivery'[s][b] = IF s = r /\ b = "result" THEN "new" ELSE delivery[s][b]
  <2>1. "new" \in Stages /\ "result" \in Bodies /\ delivery \in [Runs -> [Bodies -> Stages]]
    BY DEF Stages, Tracked, Bodies, WorkInv, TypeOK
  <2> QED BY <2>1, <1>4, Rewrite
<1>8. \A s \in Runs : /\ StartDue(s)' <=> StartDue(s)
                      /\ CancelDue(s)' <=> CancelDue(s) /\ s # r
                      /\ EndDue(s)' <=> EndDue(s)
  BY <1>3, CallsDiffer DEF StartDue, CancelDue, EndDue
<1>9. CallsTell'
  <2>1. \A s \in Runs, b \in Bodies :
            /\ Call("schedule", s, b) \in Due' <=> delivery'[s][b] = "scheduled"
            /\ Call("done", s, b) \in Due' <=> delivery'[s][b] = "done"
    BY <1>3, <1>6, <1>7, CallsDiffer DEF WorkInv, CallsTell, Waits, Result
  <2>2. \A s \in Runs :
            /\ Precedes(ready', Call("schedule", s, "accepted"), Resume)
            /\ Precedes(ready', Call("schedule", s, "terminal"), Call("done", s, "result"))
    BY <1>2, StillOrdered DEF WorkInv
  <2> QED BY <2>1, <2>2, <1>3 DEF CallsTell
<1>10. RunsTell'
  <2>1. ASSUME NEW s \in Runs, s # r PROVE (HasPlace(s) /\ BodiesTell(s))'
    <3>1. SameRun(s)
      BY <2>1, <1>4, <1>7, <1>8 DEF SameRun
    <3> QED BY <3>1, <1>4, SameRunTells DEF WorkInv
  <2>2. Result(r)' = "new"
    BY <1>7 DEF Result, Bodies
  <2>3. HasPlace(r)'
    BY <2>2, <1>4, <1>6, <1>8 DEF HasPlace, Waits
  <2>4. BodiesTell(r)'
    <3>1. \A b \in Bodies : b # "result" => delivery'[r][b] = delivery[r][b]
      BY <1>7
    <3>2. /\ delivery'[r]["terminal"] = "none"
          /\ delivery'[r]["accepted"] = delivery[r]["accepted"]
          /\ state'[r] = state[r]
      BY <3>1, <1>4, <1>5, <1>6 DEF BodiesTell, Bodies, Waits
    <3>3. \A b \in Bodies : delivery'[r][b] = "sleeping" => attempt'[r][b] < MaxAttempts
      BY <1>4, <1>5, <1>7 DEF BodiesTell
    <3> QED BY <2>2, <3>2, <3>3, <1>4, <1>5, <1>6 DEF BodiesTell
  <2> QED BY <2>1, <2>3, <2>4 DEF RunsTell
<1>11. Remembered'
  BY <1>4, StillRemembered DEF WorkInv, Unsettled
<1>12. PhasesTell'
  <2>1. ~Closing
    BY <1>5, <1>6 DEF PhasesTell, Closed
  <2>2. Resume \in Due' => Resume \in Due
    BY <1>3
  <2> QED BY <2>1, <2>2, <1>4, <1>5, <1>8, StillInPhase
<1>13. QueueOnce' /\ SlotsHeld'
  BY <1>4 DEF WorkInv, QueueOnce, SlotsHeld
<1> QED BY <1>9, <1>10, <1>11, <1>12, <1>13 DEF WorkInv

(* One body other than a result moves on to w, and with it at most calls   *)
(* about it.                                                               *)
EventMoves(r, b, w, out, in) ==
    /\ Turned(ready, out, in, ready')
    /\ delivery' = [delivery EXCEPT ![r][b] = w]
    /\ UNCHANGED <<enabled, lifecycle, phase, record, asked, state, queue, active, accepting,
                   handler, attempt>>
    /\ delivery[r][b] # "over"
    /\ delivery[r][b] # "none" \/ handler[r] # "none"
    /\ b = "terminal" => w # "scheduled" /\ delivery[r][b] # "none"
    /\ b = "accepted" => w # "scheduled"
    /\ \A s \in Runs, c \in Bodies :
           /\ Call("schedule", s, c) \in out <=>
                  s = r /\ c = b /\ delivery[r][b] = "scheduled"
           /\ Call("schedule", s, c) \in in <=> s = r /\ c = b /\ w = "scheduled"
           /\ Call("done", s, c) \in out <=> s = r /\ c = b /\ delivery[r][b] = "done"
           /\ Call("done", s, c) \notin in
    /\ \A s \in Runs, f \in {"start", "cancel", "runDone"} :
           Call(f, s, "result") \notin out \cup in

(* An event goes one stage on; no result moves.                            *)
LEMMA EventMoved ==
    ASSUME WorkInv, TypeOK', NEW r \in Runs, NEW b \in Bodies \ {"result"},
           NEW w \in {"scheduled", "new", "over"}, NEW out, NEW in,
           EventMoves(r, b, w, out, in)
    PROVE  /\ QueueOnce' /\ SlotsHeld' /\ CallsTell' /\ RunsTell' /\ Remembered'
           /\ Closing => Closed'
           /\ \A s \in Runs : CancelDue(s)' <=> CancelDue(s)
<1> USE DEF EventMoves
<1>1. Due' = (Due \ out) \cup in /\ IsInjective(ready')
  BY Turns
<1>2. \A s \in Runs, c \in Bodies :
          delivery'[s][c] = IF s = r /\ c = b THEN w ELSE delivery[s][c]
  <2>1. w \in Stages /\ delivery \in [Runs -> [Bodies -> Stages]]
    BY DEF Stages, Tracked, WorkInv, TypeOK
  <2> QED BY <2>1, Rewrite
<1>3. \A s \in Runs : /\ StartDue(s)' <=> StartDue(s)
                      /\ CancelDue(s)' <=> CancelDue(s)
                      /\ EndDue(s)' <=> EndDue(s)
  BY <1>1 DEF StartDue, CancelDue, EndDue
<1>4. CallsTell'
  <2>1. ASSUME NEW s \in Runs, NEW c \in Bodies
        PROVE  /\ Call("schedule", s, c) \in Due' <=> delivery'[s][c] = "scheduled"
               /\ Call("done", s, c) \in Due' <=> delivery'[s][c] = "done"
    <3>1. /\ Call("schedule", s, c) \in Due <=> delivery[s][c] = "scheduled"
          /\ Call("done", s, c) \in Due <=> delivery[s][c] = "done"
      BY DEF WorkInv, CallsTell
    <3> QED BY <3>1, <1>1, <1>2
  <2>2. \A s \in Runs : /\ Call("schedule", s, "accepted") \notin in
                        /\ Call("schedule", s, "terminal") \notin in
    BY DEF Bodies
  <2>3. \A s \in Runs :
            /\ Precedes(ready', Call("schedule", s, "accepted"), Resume)
            /\ Precedes(ready', Call("schedule", s, "terminal"), Call("done", s, "result"))
    BY <2>2, StillOrdered DEF WorkInv
  <2> QED BY <2>1, <2>3, <1>1 DEF CallsTell
<1>5. RunsTell'
  <2>1. ASSUME NEW s \in Runs, s # r PROVE (HasPlace(s) /\ BodiesTell(s))'
    <3>1. SameRun(s)
      BY <2>1, <1>2, <1>3 DEF SameRun
    <3> QED BY <3>1, SameRunTells DEF WorkInv
  <2>2. HasPlace(r) /\ BodiesTell(r) /\ Result(r)' = Result(r)
    BY <1>2 DEF WorkInv, RunsTell, Result, Bodies
  <2>3. state[r] # "unused" \/ delivery[r][b] = "none"
    BY <2>2 DEF HasPlace, Untouched
  <2> QED
    <3>1. BodiesTell(r)'
      <4>1. \A c \in Bodies : /\ delivery[r][c] # "none" /\ c # b => delivery'[r][c] # "none"
                              /\ delivery'[r][c] = "sleeping" => attempt'[r][c] < MaxAttempts
        BY <2>2, <1>2 DEF BodiesTell
      <4>2. /\ delivery'[r]["terminal"] # "none" => delivery[r]["terminal"] # "none"
            /\ delivery[r]["terminal"] # "none" => delivery'[r]["terminal"] # "none"
            /\ delivery[r]["accepted"] # "none" => delivery'[r]["accepted"] # "none"
            /\ delivery'[r]["terminal"] = "scheduled" => delivery[r]["terminal"] = "scheduled"
        BY <1>2 DEF Bodies
      <4> QED BY <2>2, <4>1, <4>2 DEF BodiesTell
    <3>2. state[r] # "unused" => HasPlace(r)'
      BY <2>2, <1>3 DEF HasPlace, Waits
    <3>3. state[r] # "unused"
      <4>1. CASE delivery[r][b] # "none"
        BY <4>1, <2>3
      <4>2. CASE handler[r] # "none"
        BY <4>2, <2>2 DEF HasPlace, Untouched
      <4> QED BY <4>1, <4>2
    <3> QED BY <2>1, <3>1, <3>2, <3>3 DEF RunsTell
<1>6. Remembered'
  BY StillRemembered DEF WorkInv, Unsettled
<1>7. Closing => Closed'
  <2>1. Settles
    BY <1>2 DEF Settles
  <2> QED BY <2>1, StillClosed DEF WorkInv, PhasesTell
<1>8. QueueOnce' /\ SlotsHeld'
  BY DEF WorkInv, QueueOnce, SlotsHeld
<1> QED BY <1>3, <1>4, <1>5, <1>6, <1>7, <1>8

(* An event is emitted, while the handler lives.                           *)
LEMMA EmitStep ==
    ASSUME WorkerConstants, WorkInv, TypeOK', NEW r \in Runs, Emit(r)
    PROVE  WorkInv'
<1> DEFINE call == Call("schedule", r, "progress")
<1>1. /\ handler[r] # "none" /\ delivery[r]["progress"] = "none"
      /\ delivery' = [delivery EXCEPT ![r]["progress"] = "scheduled"]
      /\ ready' = Append(ready, call)
      /\ UNCHANGED <<enabled, lifecycle, phase, record, asked, state, queue, active, accepting,
                     handler, attempt, gathered>>
  BY DEF Emit, intake, scheduler
<1>2. /\ ready \in Seq(Calls) /\ IsInjective(ready) /\ "progress" \in Bodies \ {"result"}
      /\ call \in Calls
  BY CallsAre DEF WorkInv, TypeOK, CallsTell, Bodies
<1>3. call \notin Due
  BY <1>1, <1>2 DEF WorkInv, CallsTell
<1>4. Turned(ready, {}, {call}, ready')
  BY <1>1, <1>2, <1>3, TurnCall DEF Due
<1>5. \A s \in Runs, c \in Bodies :
          /\ Call("schedule", s, c) \in {} <=>
                 s = r /\ c = "progress" /\ delivery[r]["progress"] = "scheduled"
          /\ Call("schedule", s, c) \in {call} <=>
                 s = r /\ c = "progress"
          /\ Call("done", s, c) \in {} <=>
                 s = r /\ c = "progress" /\ delivery[r]["progress"] = "done"
          /\ Call("done", s, c) \notin {call}
  BY <1>1, CallsDiffer
<1>6. \A s \in Runs, f \in {"start", "cancel", "runDone"} :
          Call(f, s, "result") \notin {} \cup {call}
  BY CallsDiffer
<1>7. /\ QueueOnce' /\ SlotsHeld' /\ CallsTell' /\ RunsTell' /\ Remembered'
      /\ Closing => Closed'
      /\ \A s \in Runs : CancelDue(s)' <=> CancelDue(s)
  <2>1. EventMoves(r, "progress", "scheduled", {}, {call})
    BY <1>1, <1>4, <1>5, <1>6 DEF EventMoves
  <2> QED BY <2>1, <1>2, EventMoved
<1>8. PhasesTell'
  <2>1. Due' = Due \cup {call}
    BY <1>4, Turns
  <2>2. Resume \in Due' => Resume \in Due
    BY <2>1, CallsDiffer
  <2> QED BY <2>2, <1>1, <1>7, StillInPhase DEF WorkInv
<1> QED BY <1>7, <1>8 DEF WorkInv

(* A scheduled event becomes a task.                                       *)
LEMMA TrackEventStep ==
    ASSUME WorkerConstants, WorkInv, TypeOK', NEW r \in Runs, NEW b \in Bodies, TrackEvent(r, b)
    PROVE  WorkInv'
<1> DEFINE call == Call("schedule", r, b)
<1>1. Head(ready) = call
  BY TurnNow, CallsAre DEF TrackEvent
<1>2. Turned(ready, {call}, {}, ready') /\ call \in Due
  BY <1>1, TurnNow DEF TrackEvent
<1>3. delivery[r][b] = "scheduled" /\ b # "result"
  BY <1>2 DEF WorkInv, CallsTell, RunsTell, BodiesTell, Result
<1>4. /\ delivery' = [delivery EXCEPT ![r][b] = "new"]
      /\ UNCHANGED <<enabled, lifecycle, phase, record, asked, state, queue, active, accepting,
                     handler, attempt, gathered>>
  BY DEF TrackEvent, intake, scheduler
<1>5. \A s \in Runs, c \in Bodies :
          /\ Call("schedule", s, c) \in {call} <=> s = r /\ c = b
          /\ Call("done", s, c) \notin {call}
  BY CallsDiffer
<1>6. \A s \in Runs, f \in {"start", "cancel", "runDone"} : Call(f, s, "result") \notin {call}
  BY CallsDiffer
<1>7. EventMoves(r, b, "new", {call}, {})
  BY <1>2, <1>3, <1>4, <1>5, <1>6 DEF EventMoves
<1>8. /\ QueueOnce' /\ SlotsHeld' /\ CallsTell' /\ RunsTell' /\ Remembered'
      /\ Closing => Closed'
      /\ \A s \in Runs : CancelDue(s)' <=> CancelDue(s)
  BY <1>3, <1>7, EventMoved
<1>9. PhasesTell'
  <2>1. Resume \in Due' => Resume \in Due
    BY <1>2, Turns
  <2> QED BY <2>1, <1>4, <1>8, StillInPhase DEF WorkInv
<1> QED BY <1>8, <1>9 DEF WorkInv

(* A task that is done is forgotten, and the drain wakes after the last of *)
(* those it gathered.                                                      *)
LEMMA TaskDoneTurn ==
    ASSUME WorkInv, NEW r \in Runs, NEW b \in Bodies, TaskDone(r, b)
    PROVE  /\ Head(ready) = Call("done", r, b) /\ Call("done", r, b) \in Due
           /\ \E woken \in SUBSET {Resume} :
                  /\ Turned(ready, {Call("done", r, b)}, woken, ready')
                  /\ woken # {} => gathered # {} /\ gathered' = {}
<1> DEFINE call == Call("done", r, b)
           tail == Tail(ready)
<1>1. Head(ready) = call
  BY TurnNow, CallsAre DEF TaskDone
<1>2. Turned(ready, {call}, {}, tail) /\ call \in Due
  BY <1>1, TurnNow DEF TaskDone
<1>3. ready' = IF gathered # {} /\ gathered' = {} THEN Append(tail, Resume) ELSE tail
  BY DEF TaskDone
<1> HIDE DEF tail
<1>4. CASE gathered # {} /\ gathered' = {}
  <2>1. Resume \notin Due
    BY <1>4 DEF WorkInv, PhasesTell
  <2>2. tail \in Seq(Calls) /\ IsInjective(tail) /\ Resume \notin ToSet(tail)
    BY <2>1, <1>2 DEF Turned, Due
  <2>3. Turned(tail, {}, {Resume}, ready')
    BY <2>2, <1>3, <1>4, TurnCall, CallsAre
  <2>4. Turned(ready, {call}, {} \cup {Resume}, ready')
    BY <2>3, <1>2, TurnTwice
  <2>5. {} \cup {Resume} = {Resume}
    OBVIOUS
  <2> QED BY <2>4, <2>5, <1>1, <1>2, <1>4
<1>5. CASE ~(gathered # {} /\ gathered' = {})
  BY <1>1, <1>2, <1>3, <1>5
<1> QED BY <1>4, <1>5

(* The loop discards a task that is done.                                  *)
LEMMA TaskDoneStep ==
    ASSUME WorkerConstants, WorkInv, TypeOK', NEW r \in Runs, NEW b \in Bodies, TaskDone(r, b)
    PROVE  WorkInv'
<1> DEFINE call == Call("done", r, b)
<1>1. PICK woken \in SUBSET {Resume} :
          /\ Turned(ready, {call}, woken, ready')
          /\ woken # {} => gathered # {} /\ gathered' = {}
  BY TaskDoneTurn
<1>2. Head(ready) = call /\ call \in Due
  BY TaskDoneTurn
<1>3. /\ delivery' = [delivery EXCEPT ![r][b] = "over"]
      /\ gathered' = gathered \ {<<r, b>>}
      /\ UNCHANGED <<enabled, lifecycle, phase, record, asked, state, queue, active, accepting,
                     handler, attempt>>
  BY DEF TaskDone, intake, scheduler
<1>4. delivery[r][b] = "done"
  BY <1>2 DEF WorkInv, CallsTell
<1>5. Due' = (Due \ {call}) \cup woken /\ IsInjective(ready')
  BY <1>1, Turns
<1>6. /\ QueueOnce' /\ SlotsHeld' /\ CallsTell' /\ RunsTell' /\ Remembered'
      /\ Closing => Closed'
      /\ \A s \in Runs : CancelDue(s)' <=> CancelDue(s)
  <2>1. \A s \in Runs, c \in Bodies :
            /\ Call("done", s, c) \in {call} <=> s = r /\ c = b
            /\ Call("schedule", s, c) \notin {call}
            /\ Call("done", s, c) \notin woken
            /\ Call("schedule", s, c) \notin woken
    BY CallsDiffer
  <2>2. \A s \in Runs, f \in {"start", "cancel", "runDone"} :
            Call(f, s, "result") \notin {call} \cup woken
    BY CallsDiffer
  <2>3. CASE b # "result"
    <3>1. EventMoves(r, b, "over", {call}, woken)
      BY <1>1, <1>3, <1>4, <2>1, <2>2 DEF EventMoves
    <3> QED BY <3>1, <2>3, EventMoved
  <2>4. CASE b = "result"
    <3>1. \A s \in Runs, c \in Bodies :
              delivery'[s][c] = IF s = r /\ c = "result" THEN "over" ELSE delivery[s][c]
      <4>1. "over" \in Stages /\ delivery \in [Runs -> [Bodies -> Stages]]
        BY DEF Stages, WorkInv, TypeOK
      <4> QED BY <4>1, <2>4, <1>3, Rewrite
    <3>2. delivery[r]["terminal"] # "scheduled"
      <4> DEFINE emit == Call("schedule", r, "terminal")
      <4>1. emit # call /\ "terminal" \in Bodies
        BY CallsDiffer DEF Bodies
      <4>2. ready \in Seq(Calls) /\ ready # <<>> /\ Precedes(ready, emit, call)
        BY <2>4 DEF WorkInv, TypeOK, CallsTell, TaskDone, Next1
      <4>3. emit \notin Due
        BY <4>1, <4>2, <1>2, HeadIsFirst DEF Due
      <4> QED BY <4>1, <4>3 DEF WorkInv, CallsTell
    <3>3. \A s \in Runs : /\ StartDue(s)' <=> StartDue(s)
                          /\ CancelDue(s)' <=> CancelDue(s)
                          /\ EndDue(s)' <=> EndDue(s)
      BY <1>5, <2>2 DEF StartDue, CancelDue, EndDue
    <3>4. CallsTell'
      <4>1. ASSUME NEW s \in Runs, NEW c \in Bodies
            PROVE  /\ Call("schedule", s, c) \in Due' <=> delivery'[s][c] = "scheduled"
                   /\ Call("done", s, c) \in Due' <=> delivery'[s][c] = "done"
        <5>1. /\ Call("schedule", s, c) \in Due <=> delivery[s][c] = "scheduled"
              /\ Call("done", s, c) \in Due <=> delivery[s][c] = "done"
          BY DEF WorkInv, CallsTell
        <5> QED BY <5>1, <2>1, <2>4, <3>1, <1>4, <1>5
      <4>2. \A s \in Runs : /\ Call("schedule", s, "accepted") \notin woken
                            /\ Call("schedule", s, "terminal") \notin woken
        BY CallsDiffer
      <4>3. \A s \in Runs :
                /\ Precedes(ready', Call("schedule", s, "accepted"), Resume)
                /\ Precedes(ready', Call("schedule", s, "terminal"), Call("done", s, "result"))
        BY <4>2, <1>1, StillOrdered DEF WorkInv
      <4> QED BY <4>1, <4>3, <1>5 DEF CallsTell
    <3>5. RunsTell'
      <4>1. ASSUME NEW s \in Runs, s # r PROVE (HasPlace(s) /\ BodiesTell(s))'
        <5>1. SameRun(s)
          BY <4>1, <3>1, <3>3, <1>3 DEF SameRun
        <5> QED BY <5>1, <1>3, SameRunTells DEF WorkInv
      <4>2. /\ HasPlace(r) /\ BodiesTell(r) /\ Result(r) = "done" /\ Result(r)' = "over"
            /\ state[r] # "unused"
        BY <2>4, <3>1, <1>4 DEF WorkInv, RunsTell, Result, HasPlace, Untouched
      <4>3. HasPlace(r)'
        BY <4>2, <3>3, <1>3 DEF HasPlace, Waits
      <4>4. BodiesTell(r)'
        <5>1. /\ delivery'[r]["terminal"] = delivery[r]["terminal"]
              /\ delivery'[r]["accepted"] = delivery[r]["accepted"]
          BY <3>1 DEF Bodies
        <5>2. \A c \in Bodies : delivery'[r][c] = "sleeping" => attempt'[r][c] < MaxAttempts
          BY <4>2, <3>1, <1>3 DEF BodiesTell
        <5> QED BY <4>2, <5>1, <5>2, <3>2, <1>3 DEF BodiesTell
      <4> QED BY <4>1, <4>3, <4>4 DEF RunsTell
    <3>6. Closing => Closed'
      <4>1. Settles
        BY <3>1, <1>3 DEF Settles
      <4> QED BY <4>1, StillClosed DEF WorkInv, PhasesTell
    <3>7. QueueOnce' /\ SlotsHeld' /\ Remembered'
      BY <1>3, StillRemembered DEF WorkInv, QueueOnce, SlotsHeld, Unsettled
    <3> QED BY <3>3, <3>4, <3>5, <3>6, <3>7
  <2> QED BY <2>3, <2>4
<1>7. PhasesTell'
  <2>1. PhasesTell
    BY DEF WorkInv
  <2>2. Resume \in Due' => active = {} /\ phase \in {"idle", "gather"} /\ gathered' = {}
    <3>1. CASE woken = {}
      BY <3>1, <2>1, <1>3, <1>5 DEF PhasesTell
    <3>2. CASE woken # {}
      BY <3>2, <2>1, <1>1 DEF PhasesTell
    <3> QED BY <3>1, <3>2
  <2>3. gathered' # {} => gathered # {}
    BY <1>3
  <2> QED BY <2>1, <2>2, <2>3, <1>3, <1>6 DEF PhasesTell, Closing
<1> QED BY <1>6, <1>7 DEF WorkInv

(* The drain is over when nothing is tracked: then nothing is owed.        *)
LEMMA DrainResumesStep ==
    ASSUME WorkerConstants, WorkInv, TypeOK', DrainResumes
    PROVE  WorkInv'
<1>1. Head(ready) = Resume
  BY TurnNow, CallsAre DEF DrainResumes
<1>2. Turned(ready, {Resume}, {}, ready') /\ Resume \in Due
  BY <1>1, TurnNow DEF DrainResumes
<1>3. Due' = Due \ {Resume} /\ IsInjective(ready')
  BY <1>2, Turns
<1>4. /\ UNCHANGED <<enabled, lifecycle, record, asked, state, queue, active, accepting,
                     handler, delivery, attempt>>
      /\ \/ Tasks = {} /\ phase' = "close" /\ gathered' = {}
         \/ phase' = "gather"
  BY DEF DrainResumes, Drained, intake, scheduler, deliveries
<1>5. PhasesTell /\ active = {} /\ phase \in {"idle", "gather"} /\ ~accepting /\ queue = <<>>
      /\ lifecycle = "stopping"
  BY <1>2 DEF WorkInv, PhasesTell
<1>6. \A s \in Runs : /\ StartDue(s)' <=> StartDue(s)
                      /\ CancelDue(s)' <=> CancelDue(s)
                      /\ EndDue(s)' <=> EndDue(s)
  BY <1>3, CallsDiffer DEF StartDue, CancelDue, EndDue
<1>7. CallsTell'
  <2>1. \A s \in Runs, b \in Bodies : /\ Call("schedule", s, b) \notin {Resume} \cup {}
                                      /\ Call("done", s, b) \notin {Resume} \cup {}
    BY CallsDiffer
  <2> QED BY <2>1, <1>2, <1>4, SchedulerCalls DEF WorkInv
<1>8. RunsTell'
  <2>1. \A s \in Runs : SameRun(s)
    BY <1>4, <1>6 DEF SameRun
  <2> QED BY <2>1, <1>4, SameRunTells DEF WorkInv, RunsTell
<1>9. Tasks = {} => Closed
  <2> SUFFICES ASSUME Tasks = {}, NEW r \in Runs
               PROVE  /\ state[r] \in {"unused"} \cup Settled
                      /\ state[r] \in Settled => \A b \in Owed : delivery[r][b] = "over"
                      /\ \A b \in Bodies : delivery[r][b] \notin {"sending", "sleeping"}
    BY DEF Closed
  <2>1. \A b \in Bodies : delivery[r][b] \in {"none", "scheduled", "over"}
    <3> SUFFICES ASSUME NEW b \in Bodies PROVE delivery[r][b] \in {"none", "scheduled", "over"}
      OBVIOUS
    <3>1. delivery[r][b] \in Stages /\ <<r, b>> \notin Tasks
      BY DEF WorkInv, TypeOK
    <3>2. delivery[r][b] \notin Tracked
      BY <3>1 DEF Tasks
    <3> QED BY <3>1, <3>2 DEF Stages
  <2>2. HasPlace(r) /\ BodiesTell(r)
    BY DEF WorkInv, RunsTell
  <2>3. state[r] # "unused" => Result(r) = "over" /\ state[r] \in Settled
    <3>1. /\ r \notin ToSet(queue) /\ r \notin active /\ ~CancelDue(r)
      BY <1>5 DEF PhasesTell, ToSet
    <3>2. state[r] # "unused" => Result(r) # "none"
      BY <3>1, <2>2 DEF HasPlace
    <3>3. Result(r) \in {"none", "scheduled", "over"}
      BY <2>1 DEF Result, Bodies
    <3> QED BY <3>2, <3>3, <2>2 DEF BodiesTell
  <2>4. state[r] \in Settled => \A b \in Owed : delivery[r][b] = "over"
    <3> SUFFICES ASSUME state[r] \in Settled, NEW b \in Owed PROVE delivery[r][b] = "over"
      OBVIOUS
    <3>1. state[r] # "unused" /\ Result(r) = "over"
      BY <2>3 DEF Settled
    <3>2. CASE b = "result"
      BY <3>1, <3>2 DEF Result
    <3>3. CASE b = "terminal" /\ enabled
      <4>1. delivery[r]["terminal"] \notin {"none", "scheduled"}
        BY <3>1, <3>3, <2>2 DEF BodiesTell
      <4> QED BY <4>1, <3>3, <2>1 DEF Bodies
    <3>4. CASE b = "accepted" /\ enabled
      <4> DEFINE call == Call("schedule", r, "accepted")
      <4>1. delivery[r]["accepted"] # "none" /\ "accepted" \in Bodies
        BY <3>1, <3>4, <2>2 DEF BodiesTell, Bodies
      <4>2. ready \in Seq(Calls) /\ ready # <<>> /\ Precedes(ready, call, Resume)
        BY DEF WorkInv, TypeOK, CallsTell, DrainResumes, Next1
      <4>3. call \notin Due
        BY <4>2, <1>1, CallsDiffer, HeadIsFirst DEF Due
      <4>4. delivery[r]["accepted"] # "scheduled"
        BY <4>1, <4>3 DEF WorkInv, CallsTell
      <4> QED BY <4>1, <4>4, <3>4, <2>1
    <3> QED BY <3>2, <3>3, <3>4 DEF Owed, Bodies
  <2> QED BY <2>1, <2>3, <2>4
<1>10. PhasesTell'
  <2>1. Closed => Closed'
    <3>1. Settles
      BY <1>4 DEF Settles
    <3> QED BY <3>1, StillClosed
  <2>2. Resume \notin Due'
    BY <1>3
  <2>3. \A r \in Runs : ~CancelDue(r)'
    BY <1>5, <1>6 DEF PhasesTell
  <2> QED BY <2>1, <2>2, <2>3, <1>4, <1>5, <1>9 DEF PhasesTell, Closing
<1>11. QueueOnce' /\ SlotsHeld' /\ Remembered'
  BY <1>4, StillRemembered DEF WorkInv, QueueOnce, SlotsHeld, Unsettled
<1> QED BY <1>7, <1>8, <1>10, <1>11 DEF WorkInv
-----------------------------------------------------------------------------
(* Steps of a delivery.                                                    *)

(* The record follows a result and no other body.                          *)
Noted(r, b, isFinal) ==
    \E s \in RunStates :
        /\ state' = [state EXCEPT ![r] = s]
        /\ b # "result" => s = state[r]
        /\ b = "result" => s # "unused" /\ (s \in Settled <=> isFinal)

(* The exchange of a body goes on: it is on the wire, waits for another    *)
(* attempt, or has failed and its hook runs.                               *)
Carries(r, b, w) ==
    /\ delivery[r][b] \in {"new", "sending", "sleeping"}
    /\ delivery' = [delivery EXCEPT ![r][b] = w]
    /\ Noted(r, b, w = "hook")
    /\ \A s \in Runs, c \in Bodies :
           s # r \/ c # b => attempt'[s][c] = attempt[s][c]
    /\ w = "sleeping" => attempt'[r][b] < MaxAttempts
    /\ w # "hook" => ~Closing
    /\ UNCHANGED <<ready, rest>>

(* Its task returns.                                                       *)
Returns(r, b) ==
    /\ delivery[r][b] \in {"new", "sending", "sleeping", "hook"}
    /\ Return(r, b)
    /\ Noted(r, b, TRUE)
    /\ UNCHANGED rest

(* A step of a delivery either returns the task or carries it on.          *)
LEMMA DeliveryMoves ==
    ASSUME WorkerConstants, WorkInv, NEW r \in Runs, NEW b \in Bodies,
           Begin(r, b) \/ Delivered(r, b) \/ Backoff(r, b) \/ SendAgain(r, b)
               \/ Fails(r, b) \/ Interrupted(r, b) \/ HookEnds(r, b)
    PROVE  Returns(r, b) \/ \E w \in {"sending", "sleeping", "hook"} : Carries(r, b, w)
<1>1. /\ state \in [Runs -> RunStates]
      /\ delivery \in [Runs -> [Bodies -> Stages]]
      /\ attempt \in [Runs -> [Bodies -> 0..MaxAttempts]]
      /\ HasPlace(r) /\ BodiesTell(r) /\ (Closing => Closed)
  BY DEF WorkInv, TypeOK, RunsTell, PhasesTell
<1>2. /\ {"callback_failed", "callback_pending", "delivered"} \subseteq RunStates
      /\ {"callback_failed", "delivered"} = Settled
      /\ "callback_pending" \notin Settled
      /\ "callback_pending" # "unused" /\ "callback_failed" # "unused" /\ "delivered" # "unused"
  BY DEF RunStates, Settled
<1>3. \A s \in {"callback_failed", "delivered"} : Note(r, b, s) => Noted(r, b, TRUE)
  <2> SUFFICES ASSUME NEW s \in {"callback_failed", "delivered"}, Note(r, b, s)
               PROVE  Noted(r, b, TRUE)
    OBVIOUS
  <2>1. CASE b = "result"
    BY <2>1, <1>2 DEF Note, Noted
  <2>2. CASE b # "result"
    <3>1. state' = [state EXCEPT ![r] = state[r]] /\ state[r] \in RunStates
      BY <2>2, <1>1 DEF Note
    <3> QED BY <2>2, <3>1 DEF Noted
  <2> QED BY <2>1, <2>2
<1>4. Note(r, b, "callback_pending") => Noted(r, b, FALSE)
  <2> SUFFICES ASSUME Note(r, b, "callback_pending") PROVE Noted(r, b, FALSE)
    OBVIOUS
  <2>1. CASE b = "result"
    BY <2>1, <1>2 DEF Note, Noted
  <2>2. CASE b # "result"
    <3>1. state' = [state EXCEPT ![r] = state[r]] /\ state[r] \in RunStates
      BY <2>2, <1>1 DEF Note
    <3> QED BY <2>2, <3>1 DEF Noted
  <2> QED BY <2>1, <2>2
<1>5. delivery[r][b] # "none" => state[r] # "unused"
  BY <1>1 DEF HasPlace, Untouched
<1>6. state' = state /\ delivery[r][b] # "none" =>
          /\ Result(r) = "hook" \/ b # "result" => Noted(r, b, TRUE)
          /\ Result(r) \in {"new", "sending", "sleeping"} \/ b # "result" => Noted(r, b, FALSE)
  <2> SUFFICES ASSUME state' = state, delivery[r][b] # "none"
               PROVE  /\ Result(r) = "hook" \/ b # "result" => Noted(r, b, TRUE)
                      /\ Result(r) \in {"new", "sending", "sleeping"} \/ b # "result"
                             => Noted(r, b, FALSE)
    OBVIOUS
  <2>1. state' = [state EXCEPT ![r] = state[r]] /\ state[r] \in RunStates /\ state[r] # "unused"
    BY <1>1, <1>5
  <2>2. /\ Result(r) = "hook" => state[r] \in Settled
        /\ Result(r) \in {"new", "sending", "sleeping"} => state[r] \notin Settled
    BY <1>1 DEF BodiesTell
  <2> QED BY <2>1, <2>2 DEF Noted
<1>7. delivery[r][b] \in {"sending", "sleeping"} => ~Closing
  BY <1>1 DEF Closed
<1>8. \A v : attempt' = [attempt EXCEPT ![r][b] = v] =>
          \A s \in Runs, c \in Bodies : s # r \/ c # b => attempt'[s][c] = attempt[s][c]
  BY <1>1
<1>9. CASE Begin(r, b)
  <2>1. delivery[r][b] = "new" /\ UNCHANGED rest
    BY <1>9 DEF Begin
  <2>2. CASE phase = "cleanup" \/ lifecycle = "stopped"
    <3>1. Return(r, b) /\ state' = state
      BY <1>9, <2>2 DEF Begin
    <3>2. b # "result"
      <4>1. Closed /\ "result" \in Owed
        BY <2>2, <1>1 DEF Closing, Owed, Bodies
      <4>2. state[r] \in Settled
        BY <4>1, <1>5, <2>1 DEF Closed
      <4> QED BY <4>1, <4>2, <2>1 DEF Closed
    <3> QED BY <2>1, <3>1, <3>2, <1>6 DEF Returns
  <2>3. CASE phase # "cleanup" /\ lifecycle # "stopped" /\ forced
    <3>1. Note(r, b, "callback_failed") /\ Return(r, b)
      BY <1>9, <2>3 DEF Begin
    <3> QED BY <2>1, <3>1, <1>3 DEF Returns
  <2>4. CASE phase # "cleanup" /\ lifecycle # "stopped" /\ ~forced
    <3>1. attempt' = [attempt EXCEPT ![r][b] = 1] /\ ready' = ready
      BY <1>9, <2>4 DEF Begin
    <3>2. CASE phase = "close"
      <4>1. Note(r, b, "callback_failed") /\ delivery' = [delivery EXCEPT ![r][b] = "hook"]
        BY <1>9, <2>4, <3>2 DEF Begin
      <4>2. Noted(r, b, "hook" = "hook")
        BY <4>1, <1>3
      <4>3. Carries(r, b, "hook")
        BY <2>1, <3>1, <4>1, <4>2, <1>8 DEF Carries
      <4> QED BY <4>3
    <3>3. CASE phase # "close"
      <4>1. Note(r, b, "callback_pending") /\ delivery' = [delivery EXCEPT ![r][b] = "sending"]
        BY <1>9, <2>4, <3>3 DEF Begin
      <4>2. Noted(r, b, "sending" = "hook") /\ ~Closing
        BY <4>1, <1>4, <2>4, <3>3 DEF Closing
      <4>3. Carries(r, b, "sending")
        BY <2>1, <3>1, <4>1, <4>2, <1>8 DEF Carries
      <4> QED BY <4>3
    <3> QED BY <3>2, <3>3
  <2> QED BY <2>2, <2>3, <2>4
<1>10. CASE Delivered(r, b)
  BY <1>10, <1>3 DEF Delivered, Returns
<1>11. CASE Backoff(r, b)
  <2>1. /\ delivery[r][b] = "sending" /\ delivery' = [delivery EXCEPT ![r][b] = "sleeping"]
        /\ attempt' = attempt /\ attempt[r][b] < MaxAttempts /\ state' = state
        /\ UNCHANGED <<ready, rest>>
    BY <1>11 DEF Backoff
  <2>2. Noted(r, b, "sleeping" = "hook")
    BY <2>1, <1>6 DEF Result
  <2>3. Carries(r, b, "sleeping")
    BY <2>1, <2>2, <1>7 DEF Carries
  <2> QED BY <2>3
<1>12. CASE SendAgain(r, b)
  <2>1. /\ delivery[r][b] = "sleeping" /\ delivery' = [delivery EXCEPT ![r][b] = "sending"]
        /\ \E v : attempt' = [attempt EXCEPT ![r][b] = v]
        /\ state' = state
        /\ UNCHANGED <<ready, rest>>
    BY <1>12 DEF SendAgain
  <2>2. Noted(r, b, "sending" = "hook")
    BY <2>1, <1>6 DEF Result
  <2>3. Carries(r, b, "sending")
    BY <2>1, <2>2, <1>7, <1>8 DEF Carries
  <2> QED BY <2>3
<1>13. CASE Fails(r, b)
  <2>1. /\ delivery[r][b] = "sending" /\ delivery' = [delivery EXCEPT ![r][b] = "hook"]
        /\ attempt' = attempt /\ Note(r, b, "callback_failed")
        /\ UNCHANGED <<ready, rest>>
    BY <1>13 DEF Fails
  <2>2. Noted(r, b, "hook" = "hook")
    BY <2>1, <1>3
  <2>3. Carries(r, b, "hook")
    BY <2>1, <2>2 DEF Carries
  <2> QED BY <2>3
<1>14. CASE Interrupted(r, b)
  BY <1>14, <1>3 DEF Interrupted, Returns
<1>15. CASE HookEnds(r, b)
  BY <1>15, <1>6 DEF HookEnds, Returns, Result
<1> QED BY <1>9, <1>10, <1>11, <1>12, <1>13, <1>14, <1>15

(* What a delivery says of the run's record.                               *)
LEMMA NotedRuns ==
    ASSUME WorkInv, NEW r \in Runs, NEW b \in Bodies, NEW isFinal \in BOOLEAN,
           Noted(r, b, isFinal), delivery[r][b] # "none"
    PROVE  /\ \A s \in Runs : s # r => state'[s] = state[s]
           /\ state[r] # "unused" /\ state'[r] # "unused"
           /\ b # "result" => state' = state
           /\ b = "result" => (state'[r] \in Settled <=> isFinal)
<1>1. state \in [Runs -> RunStates] /\ HasPlace(r)
  BY DEF WorkInv, TypeOK, RunsTell
<1>2. PICK s \in RunStates :
          /\ state' = [state EXCEPT ![r] = s]
          /\ b # "result" => s = state[r]
          /\ b = "result" => s # "unused" /\ (s \in Settled <=> isFinal)
  BY DEF Noted
<1>3. state[r] # "unused"
  BY <1>1 DEF HasPlace, Untouched
<1> QED BY <1>1, <1>2, <1>3

(* While the worker closes, no result is in delivery.                      *)
LEMMA ClosingOwesNothing ==
    ASSUME WorkInv, Closing, NEW r \in Runs, Result(r) # "none"
    PROVE  Result(r) = "over"
<1>1. Closed /\ HasPlace(r) /\ "result" \in Owed /\ "result" \in Bodies
  BY DEF WorkInv, PhasesTell, RunsTell, Owed, Bodies
<1>2. state[r] # "unused"
  BY <1>1 DEF HasPlace, Untouched, Result
<1> QED BY <1>1, <1>2 DEF Closed, Result

(* A delivery that goes on: the record follows the result.                 *)
LEMMA CarryStep ==
    ASSUME WorkerConstants, WorkInv, TypeOK', NEW r \in Runs, NEW b \in Bodies,
           NEW w \in {"sending", "sleeping", "hook"}, Carries(r, b, w)
    PROVE  WorkInv'
<1>1. /\ delivery[r][b] \in {"new", "sending", "sleeping"}
      /\ \A s \in Runs, c \in Bodies : s # r \/ c # b => attempt'[s][c] = attempt[s][c]
      /\ w = "sleeping" => attempt'[r][b] < MaxAttempts
      /\ w # "hook" => ~Closing
      /\ UNCHANGED <<enabled, lifecycle, phase, record, asked, queue, active, accepting, handler,
                     ready, gathered>>
  BY DEF Carries, rest, intake, scheduler
<1>2. \A s \in Runs, c \in Bodies :
          delivery'[s][c] = IF s = r /\ c = b THEN w ELSE delivery[s][c]
  <2>1. w \in Stages /\ delivery \in [Runs -> [Bodies -> Stages]]
    BY DEF Stages, Tracked, WorkInv, TypeOK
  <2> QED BY <2>1, Rewrite DEF Carries
<1>3. /\ \A s \in Runs : s # r => state'[s] = state[s]
      /\ state[r] # "unused" /\ state'[r] # "unused"
      /\ b # "result" => state' = state
      /\ b = "result" => (state'[r] \in Settled <=> w = "hook")
  <2>1. (w = "hook") \in BOOLEAN /\ Noted(r, b, w = "hook") /\ delivery[r][b] # "none"
    BY <1>1 DEF Carries
  <2> QED BY <2>1, NotedRuns
<1>4. HasPlace(r) /\ BodiesTell(r)
  BY DEF WorkInv, RunsTell
<1>5. /\ Due' = Due
      /\ \A s \in Runs : /\ StartDue(s)' <=> StartDue(s)
                         /\ CancelDue(s)' <=> CancelDue(s)
                         /\ EndDue(s)' <=> EndDue(s)
  BY <1>1 DEF StartDue, CancelDue, EndDue, Due
<1>6. CallsTell'
  <2>1. \A s \in Runs, c \in Bodies :
            /\ Call("schedule", s, c) \in Due' <=> delivery'[s][c] = "scheduled"
            /\ Call("done", s, c) \in Due' <=> delivery'[s][c] = "done"
    BY <1>1, <1>2, <1>5 DEF WorkInv, CallsTell
  <2>2. ready' = ready
    BY <1>1
  <2> QED BY <2>1, <2>2 DEF WorkInv, CallsTell
<1>7. RunsTell'
  <2>1. ASSUME NEW s \in Runs, s # r PROVE (HasPlace(s) /\ BodiesTell(s))'
    <3>1. SameRun(s)
      BY <2>1, <1>1, <1>2, <1>3, <1>5 DEF SameRun
    <3> QED BY <3>1, <1>1, SameRunTells DEF WorkInv
  <2>2. /\ b # "result" => Result(r)' = Result(r)
        /\ b = "result" => Result(r)' = w /\ Result(r) \in {"new", "sending", "sleeping"}
    BY <1>1, <1>2 DEF Result, Bodies
  <2>3. HasPlace(r)'
    <3>1. Result(r)' # "none" <=> Result(r) # "none"
      BY <2>2
    <3> QED BY <3>1, <1>1, <1>3, <1>4, <1>5 DEF HasPlace, Waits
  <2>4. BodiesTell(r)'
    <3>1. state'[r] \in Settled <=> Result(r)' \in {"hook", "done", "over"}
      BY <2>2, <1>3, <1>4 DEF BodiesTell
    <3>2. /\ delivery'[r]["terminal"] # "none" <=> delivery[r]["terminal"] # "none"
          /\ delivery'[r]["accepted"] # "none" <=> delivery[r]["accepted"] # "none"
          /\ delivery'[r]["terminal"] = "scheduled" => delivery[r]["terminal"] = "scheduled"
      BY <1>1, <1>2 DEF Bodies
    <3>3. Result(r)' \in {"done", "over"} <=> Result(r) \in {"done", "over"}
      BY <2>2
    <3>4. Result(r)' = "over" => Result(r) = "over"
      BY <2>2
    <3>5. ASSUME NEW c \in Bodies, delivery'[r][c] = "sleeping"
          PROVE  attempt'[r][c] < MaxAttempts
      BY <3>5, <1>1, <1>2, <1>4 DEF BodiesTell
    <3>6. Result(r)' # "scheduled"
      BY <2>2, <1>4 DEF BodiesTell
    <3> QED BY <3>1, <3>2, <3>3, <3>4, <3>5, <3>6, <1>1, <1>3, <1>4 DEF BodiesTell
  <2> QED BY <2>1, <2>3, <2>4 DEF RunsTell
<1>8. Remembered'
  <2>1. ASSUME NEW s \in Runs, Unsettled(s)' PROVE Unsettled(s)
    <3>1. CASE s # r \/ b # "result"
      BY <3>1, <2>1, <1>3 DEF Unsettled
    <3>2. CASE s = r /\ b = "result"
      BY <3>2, <1>1, <1>3, <1>4 DEF Unsettled, BodiesTell, Result
    <3> QED BY <3>1, <3>2
  <2> QED BY <2>1, <1>1, StillRemembered DEF WorkInv
<1>9. PhasesTell'
  <2>1. Closing => Closed'
    <3> SUFFICES ASSUME Closing PROVE Closed'
      OBVIOUS
    <3>1. w = "hook"
      BY <1>1
    <3>2. b # "result"
      BY <1>1, ClosingOwesNothing DEF Result
    <3>3. Settles
      BY <3>1, <3>2, <1>1, <1>2, <1>3 DEF Settles
    <3> QED BY <3>3, StillClosed DEF WorkInv, PhasesTell
  <2>2. \A s \in Runs : state[s] = "unused" => state'[s] = "unused"
    BY <1>3
  <2> QED BY <2>1, <2>2, <1>1, <1>5, StillInPhase DEF WorkInv
<1>10. QueueOnce' /\ SlotsHeld'
  BY <1>1 DEF WorkInv, QueueOnce, SlotsHeld
<1> QED BY <1>6, <1>7, <1>8, <1>9, <1>10 DEF WorkInv

(* The task of a result emits the terminal event before it is done.        *)
LEMMA ReturnTurn ==
    ASSUME WorkInv, NEW r \in Runs, NEW b \in Bodies, Returns(r, b)
    PROVE  /\ Turned(ready, {},
                     IF b = "result" /\ enabled
                     THEN {Call("schedule", r, "terminal"), Call("done", r, b)}
                     ELSE {Call("done", r, b)}, ready')
           /\ b = "result" => Precedes(ready', Call("schedule", r, "terminal"),
                                       Call("done", r, "result"))
<1> DEFINE emit == Call("schedule", r, "terminal")
           done == Call("done", r, b)
<1>1. /\ ready \in Seq(Calls) /\ IsInjective(ready)
      /\ emit \in Calls /\ done \in Calls /\ emit # done
  BY CallsAre, CallsDiffer DEF WorkInv, TypeOK, CallsTell, Bodies
<1>2. done \notin Due
  BY DEF Returns, WorkInv, CallsTell
<1>3. CASE b = "result" /\ enabled
  <2> DEFINE more == Append(ready, emit)
  <2>1. emit \notin Due
    <3>1. delivery[r]["terminal"] = "none" /\ "terminal" \in Bodies
      BY <1>3 DEF Returns, WorkInv, RunsTell, BodiesTell, Result, Bodies
    <3> QED BY <3>1 DEF WorkInv, CallsTell
  <2>2. Turned(ready, {}, {emit}, more)
    BY <1>1, <2>1, TurnCall DEF Due
  <2>3. ready' = Append(more, done)
    BY <1>1, <1>3 DEF Returns, Return
  <2> HIDE DEF more
  <2>4. more \in Seq(Calls) /\ IsInjective(more) /\ done \notin ToSet(more)
    BY <2>2, <1>1, <1>2 DEF Turned, Due
  <2>5. Turned(more, {}, {done}, ready')
    BY <1>1, <2>3, <2>4, TurnCall
  <2>6. Turned(ready, {}, {emit, done}, ready')
    <3>1. Turned(ready, {}, {emit} \cup {done}, ready')
      BY <2>2, <2>5, TurnTwice
    <3>2. {emit} \cup {done} = {emit, done}
      OBVIOUS
    <3> QED BY <3>1, <3>2
  <2>7. Precedes(ready', emit, done)
    <3>1. Precedes(more, emit, done)
      BY <2>4, NotDuePrecedes
    <3> QED BY <3>1, <2>5, <1>1 DEF Turned
  <2> QED BY <1>3, <2>6, <2>7
<1>4. CASE ~(b = "result" /\ enabled)
  <2>1. Turned(ready, {}, {done}, ready')
    BY <1>1, <1>2, <1>4, TurnCall DEF Returns, Return, Due
  <2>2. b = "result" => Precedes(ready', emit, done)
    <3>1. emit \notin {done} /\ (b = "result" => Precedes(ready, emit, done))
      BY <1>1 DEF WorkInv, CallsTell
    <3> QED BY <3>1, <2>1, <1>1 DEF Turned
  <2> QED BY <1>4, <2>1, <2>2
<1> QED BY <1>3, <1>4

(* A delivery that returns: a result emits its terminal event.             *)
LEMMA ReturnStep ==
    ASSUME WorkerConstants, WorkInv, TypeOK', NEW r \in Runs, NEW b \in Bodies, Returns(r, b)
    PROVE  WorkInv'
<1> DEFINE ended == b = "result" /\ enabled
           in == IF ended THEN {Call("schedule", r, "terminal"), Call("done", r, b)}
                 ELSE {Call("done", r, b)}
<1>1. /\ delivery[r][b] \in {"new", "sending", "sleeping", "hook"}
      /\ UNCHANGED <<enabled, lifecycle, phase, record, asked, queue, active, accepting, handler,
                     gathered>>
  BY DEF Returns, rest, intake, scheduler
<1>2. /\ Turned(ready, {}, in, ready')
      /\ b = "result" => Precedes(ready', Call("schedule", r, "terminal"),
                                  Call("done", r, "result"))
  BY ReturnTurn
<1>3. Due' = Due \cup in /\ IsInjective(ready')
  BY <1>2, Turns
<1>4. /\ delivery \in [Runs -> [Bodies -> Stages]]
      /\ attempt \in [Runs -> [Bodies -> 0..MaxAttempts]]
      /\ {"done", "scheduled"} \subseteq Stages
      /\ {"terminal", "accepted", "result"} \subseteq Bodies
      /\ HasPlace(r) /\ BodiesTell(r)
  BY DEF WorkInv, TypeOK, Stages, Tracked, Bodies, RunsTell
<1>5. \A s \in Runs, c \in Bodies :
          delivery'[s][c] = IF s = r /\ c = b THEN "done"
                            ELSE IF ended /\ s = r /\ c = "terminal" THEN "scheduled"
                            ELSE delivery[s][c]
  <2> DEFINE once == [delivery EXCEPT ![r][b] = "done"]
             twice == [once EXCEPT ![r]["terminal"] = "scheduled"]
  <2>0. /\ delivery \in [Runs -> [Bodies -> Stages]]
        /\ "done" \in Stages /\ "scheduled" \in Stages /\ "terminal" \in Bodies
    BY <1>4
  <2>1. /\ once \in [Runs -> [Bodies -> Stages]]
        /\ \A s \in Runs, c \in Bodies :
               once[s][c] = IF s = r /\ c = b THEN "done" ELSE delivery[s][c]
    BY <2>0, Rewrite
  <2> HIDE DEF once
  <2>2. \A s \in Runs, c \in Bodies :
            twice[s][c] = IF s = r /\ c = "terminal" THEN "scheduled" ELSE once[s][c]
    BY <2>0, <2>1, Rewrite
  <2>3. CASE ended
    <3>1. delivery' = twice
      BY <2>3 DEF Returns, Return, once
    <3> HIDE DEF twice
    <3>2. b # "terminal"
      BY <2>3
    <3> QED BY <2>1, <2>2, <2>3, <3>1, <3>2
  <2>4. CASE ~ended
    <3>1. delivery' = once
      BY <2>4 DEF Returns, Return, once
    <3> HIDE DEF twice
    <3> QED BY <2>1, <2>4, <3>1
  <2> QED BY <2>3, <2>4
<1>6. \A s \in Runs, c \in Bodies : s # r \/ c # b => attempt'[s][c] = attempt[s][c]
  BY <1>4 DEF Returns, Return
<1>7. /\ \A s \in Runs : s # r => state'[s] = state[s]
      /\ state[r] # "unused" /\ state'[r] # "unused"
      /\ b # "result" => state' = state
      /\ b = "result" => state'[r] \in Settled
  <2>1. Noted(r, b, TRUE) /\ delivery[r][b] # "none"
    BY <1>1 DEF Returns
  <2> QED BY <2>1, NotedRuns
<1>8. \A s \in Runs : /\ StartDue(s)' <=> StartDue(s)
                      /\ CancelDue(s)' <=> CancelDue(s)
                      /\ EndDue(s)' <=> EndDue(s)
  BY <1>3, CallsDiffer DEF StartDue, CancelDue, EndDue
<1>9. b = "result" => delivery[r]["terminal"] = "none"
  BY <1>1, <1>4 DEF BodiesTell, Result
<1>10. CallsTell'
  <2>1. ASSUME NEW s \in Runs, NEW c \in Bodies
        PROVE  /\ Call("schedule", s, c) \in Due' <=> delivery'[s][c] = "scheduled"
               /\ Call("done", s, c) \in Due' <=> delivery'[s][c] = "done"
    <3>1. /\ Call("schedule", s, c) \in Due <=> delivery[s][c] = "scheduled"
          /\ Call("done", s, c) \in Due <=> delivery[s][c] = "done"
      BY DEF WorkInv, CallsTell
    <3>2. /\ Call("done", s, c) \in in <=> s = r /\ c = b
          /\ Call("schedule", s, c) \in in <=> ended /\ s = r /\ c = "terminal"
      BY CallsDiffer
    <3> HIDE DEF in
    <3> QED BY <3>1, <3>2, <1>1, <1>3, <1>5, <1>9
  <2>2. ASSUME NEW s \in Runs
        PROVE  /\ Precedes(ready', Call("schedule", s, "accepted"), Resume)
               /\ Precedes(ready', Call("schedule", s, "terminal"), Call("done", s, "result"))
    <3>1. /\ Call("schedule", s, "accepted") \in Calls /\ Resume \in Calls
          /\ Call("schedule", s, "terminal") \in Calls /\ Call("done", s, "result") \in Calls
      BY CallsAre, <1>4
    <3>2. /\ Precedes(ready, Call("schedule", s, "accepted"), Resume)
          /\ Precedes(ready, Call("schedule", s, "terminal"), Call("done", s, "result"))
      BY DEF WorkInv, CallsTell
    <3>3. Call("schedule", s, "accepted") \notin in
      BY CallsDiffer
    <3>4. Call("schedule", s, "terminal") \in in => s = r /\ b = "result"
      BY CallsDiffer
    <3> HIDE DEF in
    <3> QED BY <3>1, <3>2, <3>3, <3>4, <1>2 DEF Turned
  <2> QED BY <2>1, <2>2, <1>3 DEF CallsTell
<1>11. RunsTell'
  <2>1. ASSUME NEW s \in Runs, s # r PROVE (HasPlace(s) /\ BodiesTell(s))'
    <3>1. SameRun(s)
      BY <2>1, <1>1, <1>5, <1>6, <1>7, <1>8 DEF SameRun
    <3> QED BY <3>1, <1>1, SameRunTells DEF WorkInv
  <2>2. /\ b # "result" => Result(r)' = Result(r)
        /\ b = "result" => /\ Result(r)' = "done"
                           /\ Result(r) \in {"new", "sending", "sleeping", "hook"}
    BY <1>1, <1>4, <1>5 DEF Result
  <2>3. HasPlace(r)'
    <3>1. Result(r)' # "none" <=> Result(r) # "none"
      BY <2>2
    <3> QED BY <3>1, <1>1, <1>4, <1>7, <1>8 DEF HasPlace, Waits
  <2>4. BodiesTell(r)'
    <3>1. state'[r] \in Settled <=> Result(r)' \in {"hook", "done", "over"}
      BY <2>2, <1>4, <1>7 DEF BodiesTell
    <3>2. /\ delivery'[r]["terminal"] = "scheduled" <=>
                 ended \/ (b # "terminal" /\ delivery[r]["terminal"] = "scheduled")
          /\ delivery'[r]["terminal"] # "none" <=> ended \/ delivery[r]["terminal"] # "none"
          /\ delivery'[r]["accepted"] # "none" <=> delivery[r]["accepted"] # "none"
      BY <1>1, <1>4, <1>5
    <3>3. ASSUME NEW c \in Bodies, delivery'[r][c] = "sleeping"
          PROVE  attempt'[r][c] < MaxAttempts
      <4>1. c # b /\ delivery[r][c] = "sleeping"
        BY <3>3, <1>5
      <4> QED BY <4>1, <1>4, <1>6 DEF BodiesTell
    <3>4. delivery'[r]["terminal"] # "none" => Result(r)' \in {"done", "over"}
      BY <3>2, <2>2, <1>4 DEF BodiesTell
    <3>5. Result(r)' = "over" => delivery'[r]["terminal"] # "scheduled"
      BY <3>2, <2>2, <1>4 DEF BodiesTell
    <3>6. enabled' /\ Result(r)' \in {"done", "over"} => delivery'[r]["terminal"] # "none"
      BY <3>2, <2>2, <1>1, <1>4 DEF BodiesTell
    <3>7. enabled' => delivery'[r]["accepted"] # "none"
      BY <3>2, <1>1, <1>4, <1>7 DEF BodiesTell
    <3>8. Result(r)' # "scheduled"
      BY <2>2, <1>4 DEF BodiesTell
    <3> QED BY <3>1, <3>3, <3>4, <3>5, <3>6, <3>7, <3>8 DEF BodiesTell
  <2> QED BY <2>1, <2>3, <2>4 DEF RunsTell
<1>12. Remembered'
  <2>1. ASSUME NEW s \in Runs, Unsettled(s)' PROVE Unsettled(s)
    BY <2>1, <1>7 DEF Unsettled
  <2> QED BY <2>1, <1>1, StillRemembered DEF WorkInv
<1>13. PhasesTell'
  <2>1. Closing => Closed'
    <3> SUFFICES ASSUME Closing PROVE Closed'
      OBVIOUS
    <3>1. b # "result"
      BY <1>1, ClosingOwesNothing DEF Result
    <3>2. Settles
      BY <3>1, <1>1, <1>5, <1>7 DEF Settles
    <3> QED BY <3>2, StillClosed DEF WorkInv, PhasesTell
  <2>2. \A s \in Runs : state[s] = "unused" => state'[s] = "unused"
    BY <1>7
  <2>3. Resume \in Due' => Resume \in Due
    BY <1>3, CallsDiffer
  <2> QED BY <2>1, <2>2, <2>3, <1>1, <1>8, StillInPhase DEF WorkInv
<1>14. QueueOnce' /\ SlotsHeld'
  BY <1>1 DEF WorkInv, QueueOnce, SlotsHeld
<1> QED BY <1>10, <1>11, <1>12, <1>13, <1>14 DEF WorkInv
-----------------------------------------------------------------------------
(* A worker that was just created.                                         *)
LEMMA InvInit == ASSUME WorkerConstants, Init PROVE WorkInv
<1>1. ToSet(<<>>) = {} /\ Due = {} /\ IsInjective(<<>>)
  BY DEF Init, Due, ToSet, IsInjective
<1>2. QueueOnce /\ SlotsHeld
  BY <1>1, FS_EmptySet DEF Init, QueueOnce, SlotsHeld, WorkerConstants
<1>3. CallsTell
  BY <1>1 DEF Init, CallsTell, Precedes
<1>4. RunsTell
  <2>1. \A r \in Runs : /\ state[r] = "unused" /\ handler[r] = "none" /\ Result(r) = "none"
                        /\ \A b \in Bodies : delivery[r][b] = "none"
    BY DEF Init, Result, Bodies
  <2>2. \A r \in Runs : r \notin ToSet(queue) /\ r \notin active
                        /\ ~StartDue(r) /\ ~CancelDue(r) /\ ~EndDue(r)
    BY <1>1 DEF Init, StartDue, CancelDue, EndDue
  <2>3. \A r \in Runs : HasPlace(r)
    BY <2>1, <2>2 DEF HasPlace, Untouched
  <2>4. \A r \in Runs : BodiesTell(r)
    BY <2>1 DEF BodiesTell, Settled, Bodies
  <2> QED BY <2>3, <2>4 DEF RunsTell
<1>5. Remembered
  BY DEF Init, Remembered, Unsettled
<1>6. PhasesTell
  BY <1>1 DEF Init, PhasesTell, CancelDue, Closing
<1> QED BY <1>2, <1>3, <1>4, <1>5, <1>6, TypeInit DEF WorkInv

(* Every step keeps the invariant.                                         *)
LEMMA InvStep == ASSUME WorkerConstants, WorkInv, [Next]_vars PROVE WorkInv'
<1>1. CASE Next
  <2>1. TypeOK'
    BY <1>1, TypeStep
  <2>2. ASSUME NEW r \in Runs, NEW b \in Bodies,
               Begin(r, b) \/ Delivered(r, b) \/ Backoff(r, b) \/ SendAgain(r, b)
                   \/ Fails(r, b) \/ Interrupted(r, b) \/ HookEnds(r, b)
        PROVE  WorkInv'
    BY <2>1, <2>2, DeliveryMoves, CarryStep, ReturnStep
  <2>3. CASE Start \/ BindSucceeds \/ BindFails \/ Stop \/ GraceEnds \/ SessionCloses \/ Stopped
    BY <2>1, <2>3, LifecycleStep
  <2>4. CASE \/ \E c \in Connections :
                    \/ \E i \in Invocations : Receive(c, i)
                    \/ Refuse(c) \/ AnswerWithoutRun(c)
             \/ Cleanup
             \/ \E r \in Runs : TimeToLivePasses(r)
    BY <2>1, <2>4, RequestStep
  <2>5. CASE DrainQueue \/ StopAccepting \/ QueueCancelled \/ DrainResumes
    BY <2>1, <2>5, DrainStep, StopAcceptingStep, QueueCancelledStep, DrainResumesStep
  <2>6. ASSUME NEW c \in Connections, NEW r \in Runs, Accept(c, r) PROVE WorkInv'
    BY <2>1, <2>6, AcceptStep
  <2>7. ASSUME NEW r \in Runs,
               RunBegins(r) \/ RunDone(r) \/ TrackResult(r) \/ HandlerEnds(r) \/ DetachedEnds(r)
                   \/ Emit(r)
        PROVE  WorkInv'
    BY <2>1, <2>7, BeginStep, RunDoneStep, TrackResultStep, HandlerStep, DetachedStep, EmitStep
  <2>8. ASSUME NEW r \in Runs, NEW b \in Bodies, TrackEvent(r, b) \/ TaskDone(r, b)
        PROVE  WorkInv'
    BY <2>1, <2>8, TrackEventStep, TaskDoneStep
  <2> QED BY <1>1, <2>2, <2>3, <2>4, <2>5, <2>6, <2>7, <2>8 DEF Next
<1>2. CASE UNCHANGED vars
  <2>1. UNCHANGED <<enabled, lifecycle, phase, reading, record, asked, state, elapsed, queue,
                    active, accepting, handler, delivery, attempt, ready, gathered, forced>>
    BY <1>2 DEF vars, intake, scheduler, deliveries
  <2>2. QueueOnce' /\ SlotsHeld' /\ CallsTell' /\ RunsTell' /\ (Closed => Closed')
    BY <2>1, QuietStep DEF scheduler, deliveries
  <2>3. TypeOK'
    BY <2>1 DEF WorkInv, TypeOK
  <2>4. Remembered'
    BY <2>1, StillRemembered DEF WorkInv, Unsettled
  <2>5. PhasesTell'
    BY <2>1, <2>2, StillInPhase DEF WorkInv, PhasesTell, CancelDue, Due
  <2> QED BY <2>2, <2>3, <2>4, <2>5 DEF WorkInv
<1> QED BY <1>1, <1>2

(* A run whose result is owed is remembered and is where somebody will     *)
(* deliver it; and once stop() has resolved, nothing is owed.              *)
LEMMA InvKeepsRuns == ASSUME WorkInv PROVE RunsAreKept /\ StopLeavesNothing
<1>1. ASSUME NEW r \in Runs, Unsettled(r)
      PROVE  /\ record[asked[r]] = r
             /\ \/ r \in ToSet(queue) /\ accepting
                \/ \E f \in {"start", "cancel"} : Call(f, r, "result") \in ToSet(ready)
                \/ handler[r] = "running" /\ r \in active
                \/ delivery[r]["result"] \in {"new", "sending", "sleeping"}
  <2>1. HasPlace(r) /\ BodiesTell(r) /\ record[asked[r]] = r
    BY <1>1 DEF WorkInv, RunsTell, Remembered
  <2>2. CASE r \in ToSet(queue)
    <3>1. accepting
      BY <2>2 DEF WorkInv, PhasesTell, ToSet
    <3> QED BY <2>1, <2>2, <3>1
  <2>3. CASE StartDue(r) \/ CancelDue(r)
    BY <2>1, <2>3 DEF StartDue, CancelDue, Due
  <2>4. CASE handler[r] = "running"
    BY <2>1, <2>4 DEF HasPlace
  <2>5. CASE Result(r) # "none"
    <3>1. Result(r) \in Stages
      BY DEF WorkInv, TypeOK, Result, Bodies
    <3>2. Result(r) \in {"new", "sending", "sleeping"}
      BY <1>1, <2>1, <2>5, <3>1 DEF Unsettled, BodiesTell, Stages, Tracked
    <3> QED BY <2>1, <3>2 DEF Result
  <2> QED BY <1>1, <2>1, <2>2, <2>3, <2>4, <2>5 DEF HasPlace, Unsettled
<1>2. RunsAreKept
  BY <1>1 DEF RunsAreKept
<1>3. StopLeavesNothing
  BY DEF WorkInv, PhasesTell, Closing, Closed, StopLeavesNothing
<1> QED BY <1>2, <1>3

(* The invariant of the Python worker.                                     *)
THEOREM WorkInvariant == ASSUME WorkerConstants PROVE Spec => []WorkInv
<1>1. Init => WorkInv
  BY InvInit
<1>2. WorkInv /\ [Next]_vars => WorkInv'
  BY InvStep
<1> QED BY <1>1, <1>2, PTL DEF Spec

(* So no accepted run is lost, and stop() leaves nothing behind.           *)
THEOREM WorkerKeepsRuns ==
    ASSUME WorkerConstants
    PROVE  Spec => [](RunsAreKept /\ StopLeavesNothing)
<1>1. WorkInv => RunsAreKept /\ StopLeavesNothing
  BY InvKeepsRuns
<1> QED BY <1>1, WorkInvariant, PTL
=============================================================================
