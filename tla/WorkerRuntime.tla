---------------------------- MODULE WorkerRuntime ----------------------------
(***************************************************************************)
(* The TypeScript worker runtime: one process that accepts invocations     *)
(* over HTTP, queues and runs them, calls the control plane back with the  *)
(* result, and shuts down.                                                 *)
(*                                                                         *)
(* The runtime is single threaded.  A step is one turn of the event loop:  *)
(* everything between two awaits happens at once, and what was read before *)
(* an await may be stale after it.  The awaits that matter are the reading *)
(* of a request body, the handler, each callback attempt, the failure hook *)
(* and the waits of stop().                                                *)
(***************************************************************************)
EXTENDS Integers, FiniteSets, Sequences, SequencesExt

CONSTANTS
    Invocations,    \* invocation ids
    Connections,    \* HTTP requests in flight at a time
    Runs,           \* run ids: bounds how many invocations are accepted
    NoRun, NoRequest,
    Concurrency, MaxQueuedRuns, MaxEntries,
    MaxAttempts     \* callbackDelivery.maxAttempts

ASSUME CapacityAssumption ==
    /\ Concurrency \in Nat \ {0}
    /\ MaxQueuedRuns \in Nat
    /\ MaxEntries \in Nat \ {0}
    /\ MaxAttempts \in Nat \ {0}

ASSUME NullsAssumption == NoRun \notin Runs /\ NoRequest \notin Invocations

VARIABLES
    lifecycle,      \* the WorkerLifecycleState
    phase,          \* where stop() waits
    reading,        \* connection -> the invocation whose body is awaited, or none
    record,         \* invocation -> the run the idempotency store holds for it
    asked,          \* run -> the invocation it was accepted for, or none
    state,          \* run -> RunState of its record
    elapsed,        \* runs whose record was not updated for a whole TTL
    queue, active,  \* the scheduler
    accepting, drainScheduled,
    owner,          \* run -> who awaits its callback delivery
    attempt,        \* run -> retries of its callback so far
    aborted         \* the worker-wide shutdown signal

intake == <<reading, record, asked, elapsed>>
scheduler == <<queue, active, accepting, drainScheduled>>
vars == <<lifecycle, phase, intake, state, scheduler, owner, attempt, aborted>>

Settled == {"delivered", "callback_failed"}
RunStates == {"unused", "queued", "running", "callback_pending"} \cup Settled

TypeOK ==
    /\ lifecycle \in {"created", "starting", "running", "stopping", "stopped", "failed"}
    /\ phase \in {"none", "bind", "grace", "forced", "close"}
    /\ reading \in [Connections -> Invocations \cup {NoRequest}]
    /\ record \in [Invocations -> Runs \cup {NoRun}]
    /\ asked \in [Runs -> Invocations \cup {NoRequest}]
    /\ state \in [Runs -> RunStates]
    /\ elapsed \subseteq Runs
    /\ queue \in Seq(Runs)
    /\ active \subseteq Runs
    /\ accepting \in BOOLEAN
    /\ drainScheduled \in BOOLEAN
    /\ owner \in [Runs -> {"none", "callbackWork", "stopAccepting", "request"}]
    /\ attempt \in [Runs -> 0..(MaxAttempts - 1)]
    /\ aborted \in BOOLEAN

Init ==
    /\ lifecycle = "created"
    /\ phase = "none"
    /\ reading = [c \in Connections |-> NoRequest]
    /\ record = [i \in Invocations |-> NoRun]
    /\ asked = [r \in Runs |-> NoRequest]
    /\ state = [r \in Runs |-> "unused"]
    /\ elapsed = {}
    /\ queue = <<>>
    /\ active = {}
    /\ accepting = TRUE
    /\ drainScheduled = FALSE
    /\ owner = [r \in Runs |-> "none"]
    /\ attempt = [r \in Runs |-> 0]
    /\ aborted = FALSE
-----------------------------------------------------------------------------
(* Start.                                                                  *)

Start ==
    /\ lifecycle = "created"
    /\ lifecycle' = "starting"
    /\ UNCHANGED <<phase, intake, state, scheduler, owner, attempt, aborted>>

(* shutdown(): the listener closes, the scheduler refuses further runs and *)
(* what it had queued is answered with a cancellation.                     *)
BeginShutdown ==
    /\ phase' = "grace"
    /\ accepting' = FALSE
    /\ queue' = <<>>
    /\ state' = [r \in Runs |-> IF r \in ToSet(queue) THEN "callback_pending" ELSE state[r]]
    /\ owner' = [r \in Runs |-> IF r \in ToSet(queue) THEN "stopAccepting" ELSE owner[r]]
    /\ elapsed' = elapsed \ ToSet(queue)

(* A stop() requested while the port was being bound proceeds now.         *)
BindSucceeds ==
    \/ /\ lifecycle = "starting"
       /\ lifecycle' = "running"
       /\ UNCHANGED <<phase, intake, state, scheduler, owner, attempt, aborted>>
    \/ /\ lifecycle = "stopping" /\ phase = "bind"
       /\ BeginShutdown
       /\ UNCHANGED <<lifecycle, reading, record, asked, active, drainScheduled,
                      attempt, aborted>>

BindFails ==
    /\ \/ lifecycle = "starting" /\ lifecycle' = "failed" /\ phase' = phase
       \/ phase = "bind" /\ lifecycle' = "stopped" /\ phase' = "none"
    /\ UNCHANGED <<intake, state, scheduler, owner, attempt, aborted>>
-----------------------------------------------------------------------------
(* Requests.                                                               *)

(* The headers were checked; the body is still to come.                    *)
Receive(c, i) ==
    /\ lifecycle = "running"
    /\ reading[c] = NoRequest
    /\ reading' = [reading EXCEPT ![c] = i]
    /\ UNCHANGED <<lifecycle, phase, record, asked, elapsed, state, scheduler,
                   owner, attempt, aborted>>

MutantForgetsUnsettled(r) == state[r] \in RunStates /\ r \in elapsed
MutantForgetsAtOnce(r) == state[r] \in Settled
Expired(r) == state[r] \in Settled /\ r \in elapsed

(* The store without the records a whole TTL has passed for.               *)
CleanedUp(store) ==
    [i \in Invocations |-> IF store[i] \in Runs /\ Expired(store[i]) THEN NoRun ELSE store[i]]

(* lookup() forgets an expired record of the invocation it is asked for.   *)
LookedUp(i) ==
    [record EXCEPT ![i] = IF record[i] \in Runs /\ Expired(record[i]) THEN NoRun ELSE record[i]]

Entries(store) == Cardinality({i \in Invocations : store[i] \in Runs})

(* create() makes room when the store is full.                             *)
MadeRoom(store) == IF Entries(store) >= MaxEntries THEN CleanedUp(store) ELSE store

HasCapacity == Cardinality(active) + Len(queue) < Concurrency + MaxQueuedRuns

(* A body too large or malformed, another agent's name, a bad key, a bad   *)
(* callback target; or a client that gave up.                              *)
RefuseInvalid(c) ==
    /\ reading[c] # NoRequest
    /\ reading' = [reading EXCEPT ![c] = NoRequest]
    /\ UNCHANGED <<lifecycle, phase, record, asked, elapsed, state, scheduler,
                   owner, attempt, aborted>>

(* A duplicate is answered with its run; another body under the same id    *)
(* and an excess are refused.                                              *)
AnswerWithoutRun(c) ==
    /\ reading[c] # NoRequest
    /\ LET i == reading[c]
           store == LookedUp(i)
       IN \/ store[i] # NoRun /\ record' = store
          \/ store[i] = NoRun /\ ~HasCapacity /\ record' = store
          \/ /\ store[i] = NoRun /\ HasCapacity
             /\ Entries(MadeRoom(store)) >= MaxEntries
             /\ record' = MadeRoom(store)
    /\ reading' = [reading EXCEPT ![c] = NoRequest]
    /\ UNCHANGED <<lifecycle, phase, asked, elapsed, state, scheduler, owner,
                   attempt, aborted>>

(* 202, then the queue.  The lifecycle was read before the body: when      *)
(* stop() has begun meanwhile the scheduler refuses, and the request's own *)
(* handler delivers the cancellation.                                      *)
Accept(c, r) ==
    /\ reading[c] # NoRequest
    /\ state[r] = "unused"
    /\ LET i == reading[c]
           store == LookedUp(i)
       IN /\ store[i] = NoRun
          /\ HasCapacity
          /\ Entries(MadeRoom(store)) < MaxEntries
          /\ record' = [MadeRoom(store) EXCEPT ![i] = r]
    /\ asked' = [asked EXCEPT ![r] = reading[c]]
    /\ reading' = [reading EXCEPT ![c] = NoRequest]
    /\ IF accepting
       THEN /\ state' = [state EXCEPT ![r] = "queued"]
            /\ queue' = Append(queue, r)
            /\ drainScheduled' = TRUE
            /\ owner' = owner
       ELSE /\ state' = [state EXCEPT ![r] = "callback_pending"]
            /\ owner' = [owner EXCEPT ![r] = "request"]
            /\ UNCHANGED <<queue, drainScheduled>>
    /\ UNCHANGED <<lifecycle, phase, elapsed, active, accepting, attempt, aborted>>

(* A TTL passes since the record was last updated.                         *)
TimeToLivePasses(r) ==
    /\ state[r] # "unused" /\ r \notin elapsed
    /\ elapsed' = elapsed \cup {r}
    /\ UNCHANGED <<lifecycle, phase, reading, record, asked, state, scheduler,
                   owner, attempt, aborted>>

(* The cleanup interval.                                                   *)
Cleanup ==
    /\ lifecycle \in {"running", "stopping"}
    /\ record' = CleanedUp(record)
    /\ UNCHANGED <<lifecycle, phase, reading, asked, elapsed, state, scheduler,
                   owner, attempt, aborted>>
-----------------------------------------------------------------------------
(* Scheduling and execution.                                               *)

(* drain(): queued runs start, in order, while a slot is free; `busy` is   *)
(* what still runs and `states` the states the turn has set so far.        *)
DrainFrom(busy, states) ==
    LET free == Concurrency - Cardinality(busy)
        count == IF ~accepting THEN 0
                 ELSE IF free < Len(queue) THEN free ELSE Len(queue)
        started == ToSet(SubSeq(queue, 1, count))
    IN /\ active' = busy \cup started
       /\ queue' = SubSeq(queue, count + 1, Len(queue))
       /\ state' = [r \in Runs |-> IF r \in started THEN "running" ELSE states[r]]
       /\ elapsed' = {r \in elapsed : state'[r] = state[r]}

Drain ==
    /\ drainScheduled
    /\ drainScheduled' = FALSE
    /\ DrainFrom(active, state)
    /\ UNCHANGED <<lifecycle, phase, reading, record, asked, accepting, owner,
                   attempt, aborted>>

(* The handler returns, throws, times out or is aborted: its one outcome   *)
(* is chosen, the callback starts and the slot is handed on.               *)
RunFinishes(r) ==
    /\ r \in active
    /\ owner' = [owner EXCEPT ![r] = "callbackWork"]
    /\ DrainFrom(active \ {r}, [state EXCEPT ![r] = "callback_pending"])
    /\ UNCHANGED <<lifecycle, phase, reading, record, asked, accepting,
                   drainScheduled, attempt, aborted>>
-----------------------------------------------------------------------------
(* Callback delivery.                                                      *)

Sending(r) == owner[r] # "none" /\ state[r] = "callback_pending"

Settle(r, s) ==
    /\ state' = [state EXCEPT ![r] = s]
    /\ elapsed' = elapsed \ {r}

CallbackDelivered(r) ==
    /\ Sending(r) /\ ~aborted
    /\ Settle(r, "delivered")
    /\ owner' = [owner EXCEPT ![r] = "none"]
    /\ UNCHANGED <<lifecycle, phase, reading, record, asked, scheduler, attempt, aborted>>

(* A retryable answer, or none: sleep, then once more.                     *)
CallbackRetried(r) ==
    /\ Sending(r) /\ ~aborted
    /\ attempt[r] + 1 < MaxAttempts
    /\ attempt' = [attempt EXCEPT ![r] = @ + 1]
    /\ UNCHANGED <<lifecycle, phase, intake, state, scheduler, owner, aborted>>

(* A permanent refusal at any attempt, or the attempts are used up; the    *)
(* failure hook runs.                                                      *)
CallbackFails(r) ==
    /\ Sending(r) /\ ~aborted
    /\ Settle(r, "callback_failed")
    /\ UNCHANGED <<lifecycle, phase, reading, record, asked, scheduler, owner,
                   attempt, aborted>>

(* A request, a sleep or a first attempt under the shutdown signal: no     *)
(* hook.                                                                   *)
CallbackAborted(r) ==
    /\ Sending(r) /\ aborted
    /\ Settle(r, "callback_failed")
    /\ owner' = [owner EXCEPT ![r] = "none"]
    /\ UNCHANGED <<lifecycle, phase, reading, record, asked, scheduler, attempt, aborted>>

InHook(r) == owner[r] # "none" /\ state[r] = "callback_failed"

LeaveHook(r) ==
    /\ InHook(r)
    /\ owner' = [owner EXCEPT ![r] = "none"]
    /\ UNCHANGED <<lifecycle, phase, intake, state, scheduler, attempt, aborted>>

(* The hook belongs to the user and may never return.                      *)
HookReturns(r) == LeaveHook(r)
HookAbandoned(r) == aborted /\ LeaveHook(r)
-----------------------------------------------------------------------------
(* Stop.                                                                   *)

Stop ==
    \/ /\ lifecycle \in {"created", "failed"}
       /\ lifecycle' = "stopped"
       /\ UNCHANGED <<phase, intake, state, scheduler, owner, attempt, aborted>>
    \/ /\ lifecycle = "starting"
       /\ lifecycle' = "stopping"
       /\ phase' = "bind"
       /\ UNCHANGED <<intake, state, scheduler, owner, attempt, aborted>>
    \/ /\ lifecycle = "running"
       /\ lifecycle' = "stopping"
       /\ BeginShutdown
       /\ UNCHANGED <<reading, record, asked, active, drainScheduled, attempt, aborted>>

(* waitForDrain(): the scheduler is idle and the callbacks it tracks have  *)
(* settled.  Nobody tracks the callback a request delivers itself.         *)
MutantForgetsCallbacks ==
    /\ phase \in {"grace", "forced"}
    /\ active = {}
    /\ phase' = "close"
    /\ UNCHANGED <<lifecycle, intake, state, scheduler, owner, attempt, aborted>>
DrainSettles ==
    /\ phase \in {"grace", "forced"}
    /\ active = {}
    /\ \A r \in Runs : owner[r] \in {"none", "request"}
    /\ phase' = "close"
    /\ UNCHANGED <<lifecycle, intake, state, scheduler, owner, attempt, aborted>>

(* The grace period ends: everything is aborted, every connection closed.  *)
MutantKeepsConnections ==
    /\ phase \in {"grace", "close"} /\ ~aborted
    /\ aborted' = TRUE
    /\ phase' = "forced"
    /\ UNCHANGED <<lifecycle, intake, state, scheduler, owner, attempt>>
GraceEnds ==
    /\ phase \in {"grace", "close"} /\ ~aborted
    /\ aborted' = TRUE
    /\ phase' = "forced"
    /\ reading' = [c \in Connections |-> NoRequest]
    /\ UNCHANGED <<lifecycle, record, asked, elapsed, state, scheduler, owner, attempt>>

(* The listener is closed once no request is open.                         *)
Stopped ==
    /\ phase = "close"
    /\ \A c \in Connections : reading[c] = NoRequest
    /\ lifecycle' = "stopped"
    /\ phase' = "none"
    /\ UNCHANGED <<intake, state, scheduler, owner, attempt, aborted>>
-----------------------------------------------------------------------------
Next ==
    \/ Start \/ BindSucceeds \/ BindFails
    \/ \E c \in Connections :
           \/ \E i \in Invocations : Receive(c, i)
           \/ RefuseInvalid(c)
           \/ AnswerWithoutRun(c)
           \/ \E r \in Runs : Accept(c, r)
    \/ \E r \in Runs : TimeToLivePasses(r)
    \/ Cleanup
    \/ Drain
    \/ \E r \in Runs :
           \/ RunFinishes(r)
           \/ CallbackDelivered(r) \/ CallbackRetried(r)
           \/ CallbackFails(r) \/ CallbackAborted(r)
           \/ HookReturns(r) \/ HookAbandoned(r)
    \/ Stop \/ DrainSettles \/ GraceEnds \/ Stopped

Spec == Init /\ [][Next]_vars

(* The event loop runs what is ready; handlers, callback attempts and the  *)
(* grace period have timers.  Clients, the hook and stop() owe nothing.    *)
Fairness ==
    /\ WF_vars(Drain) /\ WF_vars(BindSucceeds \/ BindFails)
    /\ WF_vars(DrainSettles) /\ WF_vars(GraceEnds) /\ WF_vars(Stopped)
    /\ \A r \in Runs :
           /\ WF_vars(RunFinishes(r))
           /\ WF_vars(CallbackDelivered(r) \/ CallbackRetried(r)
                        \/ CallbackFails(r) \/ CallbackAborted(r))
           /\ WF_vars(HookAbandoned(r))

FairSpec == Spec /\ Fairness
-----------------------------------------------------------------------------
(* Where a run is agrees with what its record says: in the queue exactly   *)
(* once, in a slot, or with somebody delivering its result.                *)
RecordTellsWork ==
    /\ \A r \in Runs :
           /\ state[r] = "queued" <=> r \in ToSet(queue)
           /\ state[r] = "running" <=> r \in active
           /\ state[r] = "callback_pending" => owner[r] # "none"
           /\ owner[r] # "none" => state[r] \in {"callback_pending", "callback_failed"}
    /\ IsInjective(queue)

(* The configured limits hold, whatever was read before an await.          *)
CapacityHeld ==
    /\ Cardinality(active) <= Concurrency
    /\ Cardinality(active) + Len(queue) <= Concurrency + MaxQueuedRuns
    /\ Entries(record) <= MaxEntries

(* An invocation whose result is still owed is in the idempotency store,   *)
(* under that run: a redelivery of it finds the run instead of starting    *)
(* the handler a second time.                                              *)
UnsettledAreRemembered ==
    \A r \in Runs : state[r] \notin {"unused"} \cup Settled => record[asked[r]] = r

(* A handler runs again for an invocation only after every earlier run has *)
(* settled its callback and been kept for the whole TTL.                   *)
RerunOnlyAfterRetention ==
    [][\A r, q \in Runs :
           (/\ state[r] = "unused" /\ state'[r] # "unused"
            /\ state[q] # "unused" /\ asked[q] = asked'[r])
               => state[q] \in Settled /\ q \in elapsed]_vars

(* stop() resolves only when every run accepted before it is settled; what *)
(* is left then belongs to requests accepted after it began.               *)
StopSettlesAccepted ==
    lifecycle = "stopped" =>
        \A r \in Runs : \/ state[r] \in {"unused"} \cup Settled /\ owner[r] = "none"
                        \/ owner[r] = "request"

(* stop() comes to an end although clients may stall and hooks may hang.   *)
StopCompletes == lifecycle = "stopping" ~> lifecycle = "stopped"

(* Every accepted invocation is eventually answered or given up.           *)
AcceptedAreSettled ==
    \A r \in Runs : state[r] = "queued" ~> state[r] \in Settled
-----------------------------------------------------------------------------
(* "After stop() resolves there is no active execution owned by the        *)
(* Worker, callback request, callback retry sleep ..."                     *)
StopIsQuiet == lifecycle = "stopped" => \A r \in Runs : owner[r] = "none"
=============================================================================
