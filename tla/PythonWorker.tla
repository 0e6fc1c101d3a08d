----------------------------- MODULE PythonWorker -----------------------------
(***************************************************************************)
(* The Python worker runtime: one asyncio process that accepts             *)
(* invocations over HTTP, runs them, delivers their results and their      *)
(* event stream, and shuts down.                                           *)
(*                                                                         *)
(* A step is one turn of the event loop.  Callbacks the loop was asked to  *)
(* run soon wait in `ready` and run in that order: whether stop() leaves   *)
(* work behind depends on it.  What ends outside the loop (a request body, *)
(* a handler, an HTTP exchange, a sleep, a hook, a timer) ends at any      *)
(* moment, and handlers in threads of their own emit events at any moment. *)
(* The submission lock is held without an await, so a turn stands for it.  *)
(***************************************************************************)
EXTENDS Integers, FiniteSets, Sequences, SequencesExt

CONSTANTS
    Invocations,    \* invocation ids
    Connections,    \* HTTP requests in flight at a time
    Runs,           \* run ids: bounds how many invocations are accepted
    EventRuns,      \* of those, how many when events are enabled (a bound)
    EventAttempts,  \* attempts at a body when events are enabled (a bound)
    NoRun, NoRequest,
    Concurrency, MaxQueuedRuns, MaxEntries,
    MaxAttempts     \* callback_max_attempts

VARIABLES
    enabled,        \* events_enabled
    lifecycle,      \* the WorkerLifecycleState
    phase,          \* where _shutdown waits
    reading,        \* connection -> the invocation whose body is awaited, or none
    record,         \* invocation -> the run the idempotency store holds for it
    asked,          \* run -> the invocation it was accepted for, or none
    state,          \* run -> RunState of its record
    elapsed,        \* runs whose record was not updated for a whole TTL
    queue, active,  \* the scheduler: queued runs, runs with a task
    accepting,      \* the scheduler takes and starts runs
    handler,        \* run -> what its handler does
    delivery,       \* run -> signed body of it -> where its delivery is
    attempt,        \* run -> signed body of it -> attempts so far
    ready,          \* callbacks the event loop runs next, in order
    gathered,       \* deliveries the drain awaits
    forced          \* the forced-stop event

intake == <<reading, record, asked>>
scheduler == <<queue, active, accepting>>
deliveries == <<delivery, attempt>>
vars == <<enabled, lifecycle, phase, intake, state, elapsed, scheduler, handler, deliveries,
          ready, gathered, forced>>

Settled == {"delivered", "callback_failed"}
RunStates == {"unused", "queued", "running", "callback_pending"} \cup Settled

(* A run has one result and emits accepted, one terminal event, and others *)
(* as long as its handler lives: one of them, here.                        *)
Bodies == {"result", "accepted", "progress", "terminal"}

(* A body is scheduled from the loop or from a thread, becomes a tracked   *)
(* task, and is over when the loop has discarded the task.                 *)
Tracked == {"new", "sending", "sleeping", "hook", "done"}
Stages == {"none", "scheduled", "over"} \cup Tracked

Tasks == {t \in Runs \X Bodies : delivery[t[1]][t[2]] \in Tracked}

Call(f, r, b) == [call |-> f, run |-> r, body |-> b]
RunDrain == [call |-> "drain"]
Resume == [call |-> "resume"]

Calls ==
    [call : {"start", "runDone", "cancel"}, run : Runs, body : {"result"}]
        \cup [call : {"schedule", "done"}, run : Runs, body : Bodies]
        \cup {RunDrain, Resume}

TypeOK ==
    /\ enabled \in BOOLEAN
    /\ lifecycle \in {"created", "starting", "running", "stopping", "stopped", "failed"}
    /\ phase \in {"none", "bind", "site", "cancel", "idle", "gather", "close", "cleanup"}
    /\ reading \in [Connections -> Invocations \cup {NoRequest}]
    /\ record \in [Invocations -> Runs \cup {NoRun}]
    /\ asked \in [Runs -> Invocations \cup {NoRequest}]
    /\ state \in [Runs -> RunStates]
    /\ elapsed \subseteq Runs
    /\ queue \in Seq(Runs)
    /\ active \subseteq Runs
    /\ accepting \in BOOLEAN
    /\ handler \in [Runs -> {"none", "running", "detached", "ended"}]
    /\ delivery \in [Runs -> [Bodies -> Stages]]
    /\ attempt \in [Runs -> [Bodies -> 0..MaxAttempts]]
    /\ ready \in Seq(Calls)
    /\ gathered \subseteq Runs \X Bodies
    /\ forced \in BOOLEAN

Init ==
    /\ enabled \in BOOLEAN
    /\ lifecycle = "created"
    /\ phase = "none"
    /\ reading = [c \in Connections |-> NoRequest]
    /\ record = [i \in Invocations |-> NoRun]
    /\ asked = [r \in Runs |-> NoRequest]
    /\ state = [r \in Runs |-> "unused"]
    /\ elapsed = {}
    /\ queue = <<>>
    /\ active = {}
    /\ accepting = TRUE
    /\ handler = [r \in Runs |-> "none"]
    /\ delivery = [r \in Runs |-> [b \in Bodies |-> "none"]]
    /\ attempt = [r \in Runs |-> [b \in Bodies |-> 0]]
    /\ ready = <<>>
    /\ gathered = {}
    /\ forced = FALSE
-----------------------------------------------------------------------------
(* Start.                                                                  *)

Start ==
    /\ lifecycle = "created"
    /\ lifecycle' = "starting"
    /\ UNCHANGED <<enabled, phase, intake, state, elapsed, scheduler, handler, deliveries,
                   ready, gathered, forced>>

(* A stop() requested while the port was being bound proceeds now.         *)
BindSucceeds ==
    /\ \/ lifecycle = "starting" /\ lifecycle' = "running" /\ phase' = phase
       \/ phase = "bind" /\ phase' = "site" /\ lifecycle' = lifecycle
    /\ UNCHANGED <<enabled, intake, state, elapsed, scheduler, handler, deliveries, ready,
                   gathered, forced>>

BindFails ==
    /\ \/ lifecycle = "starting" /\ lifecycle' = "failed" /\ phase' = phase
       \/ phase = "bind" /\ lifecycle' = "stopped" /\ phase' = "none"
    /\ UNCHANGED <<enabled, intake, state, elapsed, scheduler, handler, deliveries, ready,
                   gathered, forced>>
-----------------------------------------------------------------------------
(* Requests.                                                               *)

(* The headers were checked; the body is still to come.                    *)
Receive(c, i) ==
    /\ lifecycle = "running"
    /\ reading[c] = NoRequest
    /\ reading' = [reading EXCEPT ![c] = i]
    /\ UNCHANGED <<enabled, lifecycle, phase, record, asked, state, elapsed, scheduler, handler,
                   deliveries, ready, gathered, forced>>

Expired(r) == state[r] \in Settled /\ r \in elapsed

(* The store without the records a whole TTL has passed for.               *)
CleanedUp(store) ==
    [i \in Invocations |-> IF store[i] \in Runs /\ Expired(store[i]) THEN NoRun ELSE store[i]]

(* lookup() forgets an expired record of the invocation it is asked for.   *)
LookedUp(i) ==
    [record EXCEPT ![i] = IF record[i] \in Runs /\ Expired(record[i]) THEN NoRun ELSE record[i]]

Entries(store) == Cardinality({i \in Invocations : store[i] \in Runs})

(* create() makes room when the store is full.                             *)
MadeRoom(store) == IF Entries(store) >= MaxEntries THEN CleanedUp(store) ELSE store

HasCapacity == Cardinality(active) + Len(queue) < Concurrency + MaxQueuedRuns

(* Whether the worker still takes runs is asked again once the body is     *)
(* there: it may have begun to stop meanwhile.                             *)
Ready == lifecycle = "running"

(* An invalid body, a worker that is stopping, or a client that gave up.   *)
Refuse(c) ==
    /\ reading[c] # NoRequest
    /\ reading' = [reading EXCEPT ![c] = NoRequest]
    /\ UNCHANGED <<enabled, lifecycle, phase, record, asked, state, elapsed, scheduler, handler,
                   deliveries, ready, gathered, forced>>

(* A duplicate is answered with its run; another body under the same id    *)
(* and an excess are refused.                                              *)
AnswerWithoutRun(c) ==
    /\ reading[c] # NoRequest
    /\ Ready
    /\ LET i == reading[c]
           store == LookedUp(i)
       IN \/ store[i] # NoRun /\ record' = store
          \/ store[i] = NoRun /\ ~HasCapacity /\ record' = store
          \/ /\ store[i] = NoRun /\ HasCapacity
             /\ Entries(MadeRoom(store)) >= MaxEntries
             /\ record' = MadeRoom(store)
    /\ reading' = [reading EXCEPT ![c] = NoRequest]
    /\ UNCHANGED <<enabled, lifecycle, phase, asked, state, elapsed, scheduler, handler,
                   deliveries, ready, gathered, forced>>

(* The loop runs the scheduler's drain once, however often it was asked.   *)
AskDrain(calls) == IF RunDrain \in ToSet(calls) THEN calls ELSE Append(calls, RunDrain)

(* 202: the run is recorded, its accepted event scheduled, and it queues.  *)
Accept(c, r) ==
    /\ reading[c] # NoRequest
    /\ Ready
    /\ state[r] = "unused"
    /\ enabled => r \in EventRuns
    /\ LET i == reading[c]
           store == LookedUp(i)
       IN /\ store[i] = NoRun
          /\ HasCapacity
          /\ Entries(MadeRoom(store)) < MaxEntries
          /\ record' = [MadeRoom(store) EXCEPT ![i] = r]
    /\ asked' = [asked EXCEPT ![r] = reading[c]]
    /\ reading' = [reading EXCEPT ![c] = NoRequest]
    /\ state' = [state EXCEPT ![r] = "queued"]
    /\ queue' = Append(queue, r)
    /\ IF enabled
       THEN /\ delivery' = [delivery EXCEPT ![r]["accepted"] = "scheduled"]
            /\ ready' = AskDrain(Append(ready, Call("schedule", r, "accepted")))
       ELSE ready' = AskDrain(ready) /\ delivery' = delivery
    /\ UNCHANGED <<enabled, lifecycle, phase, elapsed, active, accepting, handler, attempt,
                   gathered, forced>>

(* A TTL passes since the record was last updated; the time of a run that  *)
(* is not settled matters to nobody.                                       *)
TimeToLivePasses(r) ==
    /\ state[r] \in Settled /\ r \notin elapsed
    /\ elapsed' = elapsed \cup {r}
    /\ UNCHANGED <<enabled, lifecycle, phase, intake, state, scheduler, handler, deliveries,
                   ready, gathered, forced>>

(* The cleanup interval.                                                   *)
Cleanup ==
    /\ lifecycle \in {"running", "stopping"}
    /\ record' = CleanedUp(record)
    /\ UNCHANGED <<enabled, lifecycle, phase, reading, asked, state, elapsed, scheduler, handler,
                   deliveries, ready, gathered, forced>>
-----------------------------------------------------------------------------
(* Turns of the event loop.                                                *)

Next1(f) == ready # <<>> /\ Head(ready).call = f

(* wait_idle() resolves when nothing is queued and no run has a task.      *)
WakeIfIdle(calls, q, busy) ==
    IF phase = "idle" /\ q = <<>> /\ busy = {} /\ Resume \notin ToSet(calls)
    THEN Append(calls, Resume) ELSE calls

(* _drain(): queued runs get a task, in order, while a slot is free.       *)
DrainQueue ==
    /\ Next1("drain")
    /\ LET free == Concurrency - Cardinality(active)
           count == IF ~accepting THEN 0
                    ELSE IF free < Len(queue) THEN free ELSE Len(queue)
           begun == SubSeq(queue, 1, count)
       IN /\ active' = active \cup ToSet(begun)
          /\ queue' = SubSeq(queue, count + 1, Len(queue))
          /\ ready' = WakeIfIdle(Tail(ready) \o [k \in DOMAIN begun |->
                                                    Call("start", begun[k], "result")],
                                 queue', active')
    /\ UNCHANGED <<enabled, lifecycle, phase, intake, state, elapsed, accepting, handler,
                   deliveries, gathered, forced>>

RunBegins(r) ==
    /\ Next1("start") /\ Head(ready).run = r
    /\ ready' = Tail(ready)
    /\ state' = [state EXCEPT ![r] = "running"]
    /\ elapsed' = elapsed \ {r}
    /\ handler' = [handler EXCEPT ![r] = "running"]
    /\ UNCHANGED <<enabled, lifecycle, phase, intake, scheduler, deliveries, gathered, forced>>

RunDone(r) ==
    /\ Next1("runDone") /\ Head(ready).run = r
    /\ active' = active \ {r}
    /\ ready' = WakeIfIdle(IF accepting /\ queue # <<>> THEN AskDrain(Tail(ready))
                           ELSE Tail(ready), queue, active')
    /\ UNCHANGED <<enabled, lifecycle, phase, intake, state, elapsed, queue, accepting, handler,
                   deliveries, gathered, forced>>

(* A result or an event becomes a task that the worker tracks.             *)
TrackResult(r) ==
    /\ Next1("cancel") /\ Head(ready).run = r
    /\ ready' = Tail(ready)
    /\ delivery' = [delivery EXCEPT ![r]["result"] = "new"]
    /\ UNCHANGED <<enabled, lifecycle, phase, intake, state, elapsed, scheduler, handler, attempt,
                   gathered, forced>>

TrackEvent(r, b) ==
    /\ Next1("schedule") /\ Head(ready).run = r /\ Head(ready).body = b
    /\ ready' = Tail(ready)
    /\ delivery' = [delivery EXCEPT ![r][b] = "new"]
    /\ UNCHANGED <<enabled, lifecycle, phase, intake, state, elapsed, scheduler, handler, attempt,
                   gathered, forced>>

(* The loop discards a task that is done and tells who gathers it.         *)
TaskDone(r, b) ==
    /\ Next1("done") /\ Head(ready).run = r /\ Head(ready).body = b
    /\ delivery' = [delivery EXCEPT ![r][b] = "over"]
    /\ gathered' = gathered \ {<<r, b>>}
    /\ ready' = IF gathered # {} /\ gathered' = {} THEN Append(Tail(ready), Resume)
                ELSE Tail(ready)
    /\ UNCHANGED <<enabled, lifecycle, phase, intake, state, elapsed, scheduler, handler, attempt,
                   forced>>
-----------------------------------------------------------------------------
(* Execution.                                                              *)

(* The handler returns or fails; or it times out or is cut off by a forced *)
(* stop, and then a thread, or a coroutine that suppresses cancellation,   *)
(* lives on.  Either way the run has its one result, and its slot is left. *)
HandlerEnds(r) ==
    /\ handler[r] = "running"
    /\ \E h \in {"ended", "detached"} : handler' = [handler EXCEPT ![r] = h]
    /\ delivery' = [delivery EXCEPT ![r]["result"] = "new"]
    /\ ready' = Append(ready, Call("runDone", r, "result"))
    /\ UNCHANGED <<enabled, lifecycle, phase, intake, state, elapsed, scheduler, attempt,
                   gathered, forced>>

DetachedEnds(r) ==
    /\ handler[r] = "detached"
    /\ handler' = [handler EXCEPT ![r] = "ended"]
    /\ UNCHANGED <<enabled, lifecycle, phase, intake, state, elapsed, scheduler, deliveries,
                   ready, gathered, forced>>

(* The handler, its heartbeat, or what is left of it emits an event.       *)
Emit(r) ==
    /\ enabled
    /\ handler[r] \in {"running", "detached"}
    /\ delivery[r]["progress"] = "none"
    /\ delivery' = [delivery EXCEPT ![r]["progress"] = "scheduled"]
    /\ ready' = Append(ready, Call("schedule", r, "progress"))
    /\ UNCHANGED <<enabled, lifecycle, phase, intake, state, elapsed, scheduler, handler, attempt,
                   gathered, forced>>
-----------------------------------------------------------------------------
(* Delivery of signed bodies.                                              *)

(* The record follows the delivery of the result, not that of events.      *)
Note(r, b, s) ==
    /\ state' = IF b = "result" THEN [state EXCEPT ![r] = s] ELSE state
    /\ elapsed' = IF b = "result" THEN elapsed \ {r} ELSE elapsed

(* The task returns.  That of a result emits the terminal event first.     *)
Return(r, b) ==
    /\ attempt' = [attempt EXCEPT ![r][b] = 0]
    /\ IF b = "result" /\ enabled
       THEN /\ delivery' = [delivery EXCEPT ![r][b] = "done", ![r]["terminal"] = "scheduled"]
            /\ ready' = ready \o <<Call("schedule", r, "terminal"), Call("done", r, b)>>
       ELSE /\ delivery' = [delivery EXCEPT ![r][b] = "done"]
            /\ ready' = Append(ready, Call("done", r, b))

rest == <<enabled, lifecycle, phase, intake, scheduler, handler, gathered, forced>>

(* The first attempt, unless the session is gone; a session that is being  *)
(* closed fails it.                                                        *)
Begin(r, b) ==
    /\ delivery[r][b] = "new"
    /\ \/ /\ phase = "cleanup" \/ lifecycle = "stopped"
          /\ Return(r, b)
          /\ UNCHANGED <<state, elapsed>>
       \/ /\ phase # "cleanup" /\ lifecycle # "stopped" /\ forced
          /\ Note(r, b, "callback_failed")
          /\ Return(r, b)
       \/ /\ phase # "cleanup" /\ lifecycle # "stopped" /\ ~forced
          /\ IF phase = "close"
             THEN Note(r, b, "callback_failed")
                  /\ delivery' = [delivery EXCEPT ![r][b] = "hook"]
             ELSE Note(r, b, "callback_pending")
                  /\ delivery' = [delivery EXCEPT ![r][b] = "sending"]
          /\ attempt' = [attempt EXCEPT ![r][b] = 1]
          /\ UNCHANGED ready
    /\ UNCHANGED rest

Delivered(r, b) ==
    /\ delivery[r][b] = "sending"
    /\ Note(r, b, "delivered")
    /\ Return(r, b)
    /\ UNCHANGED rest

(* No answer, or one that asks to try again.                               *)
Backoff(r, b) ==
    /\ delivery[r][b] = "sending"
    /\ attempt[r][b] < MaxAttempts
    /\ enabled => attempt[r][b] < EventAttempts
    /\ delivery' = [delivery EXCEPT ![r][b] = "sleeping"]
    /\ UNCHANGED <<state, elapsed, ready, attempt, rest>>

SendAgain(r, b) ==
    /\ delivery[r][b] = "sleeping" /\ ~forced
    /\ delivery' = [delivery EXCEPT ![r][b] = "sending"]
    /\ attempt' = [attempt EXCEPT ![r][b] = @ + 1]
    /\ UNCHANGED <<state, elapsed, ready, rest>>

(* A permanent refusal, an oversized answer, the last attempt, or a body   *)
(* that policy or contract rejects: the failure hook runs.                 *)
Fails(r, b) ==
    /\ delivery[r][b] = "sending" /\ ~forced
    /\ Note(r, b, "callback_failed")
    /\ delivery' = [delivery EXCEPT ![r][b] = "hook"]
    /\ UNCHANGED <<ready, attempt, rest>>

(* A forced stop interrupts request and sleep and skips the hook, even if  *)
(* the peer has accepted the body meanwhile.                               *)
Interrupted(r, b) ==
    /\ delivery[r][b] \in {"sending", "sleeping"} /\ forced
    /\ Note(r, b, "callback_failed")
    /\ Return(r, b)
    /\ UNCHANGED rest

(* The hook returns, raises, or is abandoned by a forced stop.             *)
HookEnds(r, b) ==
    /\ delivery[r][b] = "hook"
    /\ Return(r, b)
    /\ UNCHANGED <<state, elapsed, rest>>
-----------------------------------------------------------------------------
(* Stop.                                                                   *)

Stop ==
    /\ \/ lifecycle \in {"created", "failed"} /\ lifecycle' = "stopped" /\ phase' = phase
       \/ lifecycle = "starting" /\ lifecycle' = "stopping" /\ phase' = "bind"
       \/ lifecycle = "running" /\ lifecycle' = "stopping" /\ phase' = "site"
    /\ UNCHANGED <<enabled, intake, state, elapsed, scheduler, handler, deliveries, ready,
                   gathered, forced>>

(* The listener is closed; the scheduler starts nothing more, and what it  *)
(* had queued is answered with a cancellation.                             *)
StopAccepting ==
    /\ phase = "site"
    /\ phase' = "cancel"
    /\ accepting' = FALSE
    /\ queue' = <<>>
    /\ ready' = ready \o [k \in DOMAIN queue |-> Call("cancel", queue[k], "result")]
    /\ UNCHANGED <<enabled, lifecycle, intake, state, elapsed, active, handler, deliveries,
                   gathered, forced>>

QueueCancelled ==
    /\ phase = "cancel"
    /\ \A k \in DOMAIN ready : ready[k].call # "cancel"
    /\ phase' = "idle"
    /\ ready' = IF active = {} THEN Append(ready, Resume) ELSE ready
    /\ UNCHANGED <<enabled, lifecycle, intake, state, elapsed, scheduler, handler, deliveries,
                   gathered, forced>>

(* The drain goes on while deliveries are tracked: those it has gathered   *)
(* may have left others behind.                                            *)
MutantGathersOnce == phase = "gather" \/ Tasks = {}
Drained == Tasks = {}

DrainResumes ==
    /\ Next1("resume")
    /\ ready' = Tail(ready)
    /\ IF Drained THEN phase' = "close" /\ gathered' = {}
       ELSE phase' = "gather" /\ gathered' = Tasks
    /\ UNCHANGED <<enabled, lifecycle, intake, state, elapsed, scheduler, handler, deliveries,
                   forced>>

(* The grace period ends while the drain still waits.                      *)
GraceEnds ==
    /\ phase \in {"cancel", "idle", "gather"} /\ ~forced
    /\ forced' = TRUE
    /\ UNCHANGED <<enabled, lifecycle, phase, intake, state, elapsed, scheduler, handler,
                   deliveries, ready, gathered>>

SessionCloses ==
    /\ phase = "close"
    /\ phase' = "cleanup"
    /\ UNCHANGED <<enabled, lifecycle, intake, state, elapsed, scheduler, handler, deliveries,
                   ready, gathered, forced>>

(* The runner waits for the requests it still serves, or drops them.       *)
Stopped ==
    /\ phase = "cleanup"
    /\ lifecycle' = "stopped"
    /\ phase' = "none"
    /\ reading' = [c \in Connections |-> NoRequest]
    /\ UNCHANGED <<enabled, record, asked, state, elapsed, scheduler, handler, deliveries,
                   ready, gathered, forced>>
-----------------------------------------------------------------------------
Next ==
    \/ Start \/ BindSucceeds \/ BindFails
    \/ \E c \in Connections :
           \/ \E i \in Invocations : Receive(c, i)
           \/ Refuse(c) \/ AnswerWithoutRun(c)
           \/ \E r \in Runs : Accept(c, r)
    \/ Cleanup
    \/ DrainQueue
    \/ \E r \in Runs :
           \/ TimeToLivePasses(r)
           \/ RunBegins(r) \/ RunDone(r) \/ TrackResult(r)
           \/ HandlerEnds(r) \/ DetachedEnds(r) \/ Emit(r)
           \/ \E b \in Bodies :
                  \/ TrackEvent(r, b) \/ TaskDone(r, b)
                  \/ Begin(r, b) \/ Delivered(r, b) \/ Backoff(r, b) \/ SendAgain(r, b)
                  \/ Fails(r, b) \/ Interrupted(r, b) \/ HookEnds(r, b)
    \/ Stop \/ StopAccepting \/ QueueCancelled \/ DrainResumes \/ GraceEnds
    \/ SessionCloses \/ Stopped

Spec == Init /\ [][Next]_vars
-----------------------------------------------------------------------------
Owed == IF enabled THEN Bodies \ {"progress"} ELSE {"result"}

Unsettled(r) == state[r] \notin {"unused"} \cup Settled

(* A run whose result is owed is remembered under its invocation, so that  *)
(* a redelivery finds it, and somebody will deliver the result: it is      *)
(* queued, about to start or to be cancelled, executing, or in delivery.   *)
RunsAreKept ==
    \A r \in Runs : Unsettled(r) =>
        /\ record[asked[r]] = r
        /\ \/ r \in ToSet(queue) /\ accepting
           \/ \E f \in {"start", "cancel"} : Call(f, r, "result") \in ToSet(ready)
           \/ handler[r] = "running" /\ r \in active
           \/ delivery[r]["result"] \in {"new", "sending", "sleeping"}

(* When stop() resolves every run is settled, what the worker owed to the  *)
(* control plane about it (acceptance, result, end) was delivered or given *)
(* up, and nothing is on the wire.  Only an event of a handler that could  *)
(* not be stopped may still be dropped, or reported to the hook.           *)
StopLeavesNothing ==
    lifecycle = "stopped" =>
        \A r \in Runs :
            /\ state[r] \in {"unused"} \cup Settled
            /\ state[r] \in Settled => \A b \in Owed : delivery[r][b] = "over"
            /\ \A b \in Bodies : delivery[r][b] \notin {"sending", "sleeping"}
=============================================================================
