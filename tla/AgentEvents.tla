------------------------------ MODULE AgentEvents ------------------------------
(***************************************************************************)
(* The event stream of one invocation, from the worker that emits it to    *)
(* the columns supervision decides on: threads of the worker number        *)
(* events, HTTP delivers each at least once, in any order and to any       *)
(* replica, AgentEventService stores it under the lock of the attempt and  *)
(* projects liveness, and supervision passes end an attempt that has gone  *)
(* silent.  The worker may be faster than the receipt of the dispatch that *)
(* brought it the invocation: events are stored from the first.  The       *)
(* result of the invocation travels the same way and alone ends the        *)
(* attempt otherwise.                                                      *)
(***************************************************************************)
EXTENDS Integers, FiniteSets

CONSTANTS
    Replicas,       \* control plane replicas
    Foreign,        \* what a runtime of another make emits, numbered as it likes
    MaxEvents,      \* bound: run -> events that it emits, for each run of the invocation
    MaxTime,        \* bound: ticks
    MaxHandling,    \* bound: callbacks handled at a time
    StartupGrace, StaleAfter

VARIABLES
    now,
    run,            \* the run of the invocation: its worker may forget and run again
    sequence,       \* the next sequence number of that run
    handler,        \* what the run does: "queued", "executing" or "ended"
    emitted,        \* events that were ever handed to delivery
    result,         \* its result: "none", "sent", or "over" when delivery ended
    handling,       \* callbacks that a replica has received but not applied
    rows,           \* agent_events, with the times they were received and stored
    conflicts,      \* agent_event_conflicts
    att,            \* the columns of the attempt
    verdict         \* replica -> the timeout its supervision pass has read

worker == <<run, sequence, handler, emitted, result>>
store == <<rows, conflicts, att>>
vars == <<now, worker, handling, store, verdict>>

(* A progress event stands for log and artifact events too.                *)
Types == {"accepted", "heartbeat", "progress", "completed"}
Activity == {"heartbeat", "progress"}

(* SUCCESS, FAILED, TIMED_OUT and CANCELLED freeze an attempt alike.       *)
Terminal == "TERMINAL"

(* Times start at 1; 0 stands for NULL.                                    *)
Null == 0
NoVerdict == [code |-> "none", completedAt |-> Null]
Result == [id |-> -1, seq |-> -1, type |-> "result", run |-> 0]

Init ==
    /\ now = 1
    /\ run = 1
    /\ sequence = 0
    /\ handler = "queued"
    /\ emitted \in {{}, Foreign}
    /\ result = "none"
    /\ handling = {}
    /\ rows = {}
    /\ conflicts = {}
    /\ att = [status |-> "CREATED", dispatchedAt |-> Null, startTime |-> Null,
              acceptedAt |-> Null, lastEvent |-> Null, lastHeartbeat |-> Null]
    /\ verdict = [p \in Replicas |-> NoVerdict]

Tick ==
    /\ now < MaxTime
    /\ now' = now + 1
    /\ UNCHANGED <<worker, handling, store, verdict>>

(* markDispatched(): the adapter has answered, which may be long after the *)
(* worker began.                                                           *)
Receipt ==
    /\ att.status = "CREATED"
    /\ att' = [att EXCEPT !.status = "DISPATCHED", !.dispatchedAt = now]
    /\ UNCHANGED <<now, worker, handling, rows, conflicts, verdict>>
-----------------------------------------------------------------------------
(* The worker.                                                             *)

(* emit() numbers an event and builds its body under one lock, whichever   *)
(* thread calls it: nobody else gets the number.                           *)
Numbers == {sequence}

Emits(type) ==
    /\ emitted \cap Foreign = {}
    /\ sequence < MaxEvents[run]
    /\ \E n \in Numbers :
           emitted' = emitted \cup {[id |-> n, seq |-> n, type |-> type, run |-> run]}
    /\ sequence' = sequence + 1

EmitAccepted ==
    /\ handler = "queued" /\ sequence = 0
    /\ Emits("accepted")
    /\ UNCHANGED <<now, run, handler, result, handling, store, verdict>>

(* The run leaves the queue.                                               *)
Execute ==
    /\ handler = "queued"
    /\ emitted \cap Foreign = {} => sequence > 0
    /\ handler' = "executing"
    /\ UNCHANGED <<now, run, sequence, emitted, result, handling, store, verdict>>

(* The heartbeat timer of the loop, or a handler in a thread of its own.   *)
EmitActivity ==
    /\ handler = "executing"
    /\ \E type \in Activity : Emits(type)
    /\ UNCHANGED <<now, run, handler, result, handling, store, verdict>>

(* The result is delivered first; the terminal event is emitted when its   *)
(* delivery is over, acknowledged or not.                                  *)
SendResult ==
    /\ handler = "executing"
    /\ handler' = "ended"
    /\ result' = "sent"
    /\ UNCHANGED <<now, run, sequence, emitted, handling, store, verdict>>

EmitTerminal ==
    /\ result = "sent"
    /\ result' = "over"
    /\ Emits("completed")
    /\ UNCHANGED <<now, run, handler, handling, store, verdict>>

(* The worker dies, or forgets a settled run, and is asked again: it runs  *)
(* the invocation anew, and numbers from zero.                             *)
RunAgain ==
    /\ emitted \cap Foreign = {}
    /\ run + 1 \in DOMAIN MaxEvents
    /\ run' = run + 1
    /\ sequence' = 0
    /\ handler' = "queued"
    /\ UNCHANGED <<now, emitted, result, handling, store, verdict>>
-----------------------------------------------------------------------------
(* Callbacks.                                                              *)

Sent == emitted \cup (IF result = "none" THEN {} ELSE {Result})

(* A delivery arrives, perhaps again, and is handed on, stamped with the   *)
(* time it was received.  The replay table of a replica spares it what it  *)
(* has completed lately; another replica knows nothing of that, and no     *)
(* table is kept for good.                                                 *)
Arrive(e) ==
    /\ e \in Sent
    /\ Cardinality(handling) < MaxHandling
    /\ handling' = handling \cup {[at |-> now, body |-> e]}
    /\ UNCHANGED <<now, worker, store, verdict>>

(* The handler fails before it commits, or the replica dies.               *)
CallbackFails(h) ==
    /\ h \in handling
    /\ handling' = handling \ {h}
    /\ UNCHANGED <<now, worker, store, verdict>>

(* Two bodies are the same event when every field of them is the same: a   *)
(* run id and a time make those of another run differ.                     *)
SameId(e) == {r \in rows : r.event.id = e.id}
SameSequence(e) == {r \in rows : r.event.seq = e.seq}

MutantProjectsAlways == TRUE
Live == att.status # Terminal

(* What an event tells about the attempt.  Activity makes a dispatched     *)
(* attempt run, and no other: before the receipt it leaves its time only.  *)
Projected(e, at) ==
    [att EXCEPT
        !.lastEvent = at,
        !.acceptedAt = IF e.type = "accepted" THEN at ELSE @,
        !.lastHeartbeat = IF e.type = "heartbeat" THEN at ELSE @,
        !.status = IF e.type \in Activity /\ @ = "DISPATCHED" THEN "RUNNING" ELSE @,
        !.startTime = IF e.type \in Activity /\ att.status = "DISPATCHED" /\ @ = Null
                      THEN now ELSE @]

(* AgentEventService.apply(), in the transaction that locks the attempt.   *)
ApplyEvent(h) ==
    /\ h \in handling /\ h.body # Result
    /\ LET e == h.body
       IN \/ /\ \E r \in SameId(e) : r.event = e          \* duplicate
             /\ UNCHANGED store
          \/ /\ SameId(e) \cup SameSequence(e) # {}       \* conflict
             /\ \A r \in SameId(e) : r.event # e
             /\ conflicts' = conflicts \cup {e}
             /\ UNCHANGED <<rows, att>>
          \/ /\ SameId(e) \cup SameSequence(e) = {}       \* applied
             /\ rows' = rows \cup {[at |-> h.at, stored |-> now, event |-> e,
                                      status |-> att.status]}
             /\ att' = IF Live THEN Projected(e, h.at) ELSE att
             /\ UNCHANGED conflicts
    /\ handling' = handling \ {h}
    /\ UNCHANGED <<now, worker, verdict>>

(* ResultInboxService.apply(): the first result ends the attempt.          *)
ApplyResult(h) ==
    /\ h \in handling /\ h.body = Result
    /\ att' = IF Live THEN [att EXCEPT !.status = Terminal] ELSE att
    /\ handling' = handling \ {h}
    /\ UNCHANGED <<now, worker, rows, conflicts, verdict>>

(* The operator cancels the run.                                           *)
Cancel ==
    /\ Live
    /\ att' = [att EXCEPT !.status = Terminal]
    /\ UNCHANGED <<now, worker, handling, rows, conflicts, verdict>>
-----------------------------------------------------------------------------
(* Supervision.                                                            *)

Baseline == IF att.lastHeartbeat # Null THEN att.lastHeartbeat ELSE att.startTime

(* syntheticResult(): the timeout that is due by what a pass reads.        *)
MutantIgnoresAcceptance ==
    IF att.status = "DISPATCHED" /\ att.dispatchedAt + StartupGrace <= now
    THEN [code |-> "AGENT_ACCEPTANCE_TIMEOUT", completedAt |-> att.dispatchedAt + StartupGrace]
    ELSE IF att.status = "RUNNING" /\ Baseline # Null /\ Baseline + StaleAfter <= now
    THEN [code |-> "AGENT_HEARTBEAT_STALE", completedAt |-> Baseline + StaleAfter]
    ELSE NoVerdict
Due ==
    IF /\ att.status = "DISPATCHED" /\ att.lastEvent = Null
       /\ att.dispatchedAt + StartupGrace <= now
    THEN [code |-> "AGENT_ACCEPTANCE_TIMEOUT", completedAt |-> att.dispatchedAt + StartupGrace]
    ELSE IF att.status = "RUNNING" /\ Baseline # Null /\ Baseline + StaleAfter <= now
    THEN [code |-> "AGENT_HEARTBEAT_STALE", completedAt |-> Baseline + StaleAfter]
    ELSE NoVerdict

(* The pass reads without a lock and applies the timeout later.            *)
Evaluate(p) ==
    /\ verdict[p] = NoVerdict
    /\ Due # NoVerdict
    /\ verdict' = [verdict EXCEPT ![p] = Due]
    /\ UNCHANGED <<now, worker, handling, store>>

ApplyTimeout(p) ==
    /\ verdict[p] # NoVerdict
    /\ verdict' = [verdict EXCEPT ![p] = NoVerdict]
    /\ att' = IF Live THEN [att EXCEPT !.status = Terminal] ELSE att
    /\ UNCHANGED <<now, worker, handling, rows, conflicts>>
-----------------------------------------------------------------------------
Next ==
    \/ Tick \/ Receipt
    \/ EmitAccepted \/ Execute \/ EmitActivity \/ SendResult \/ EmitTerminal \/ RunAgain
    \/ \E p \in Replicas :
           \/ Evaluate(p) \/ ApplyTimeout(p)
    \/ \E e \in Sent : Arrive(e)
    \/ \E h \in handling : CallbackFails(h) \/ ApplyEvent(h) \/ ApplyResult(h)
    \/ Cancel

Spec == Init /\ [][Next]_vars
-----------------------------------------------------------------------------
(* Rows that found the attempt live, and those that found it dispatched.   *)
LiveRows(type) == {r \in rows : r.status # Terminal /\ r.event.type \in type}
Started == {r \in LiveRows(Activity) : r.status # "CREATED"}
Times(rs) == {r.at : r \in rs}

(* Whatever is lost, repeated and reordered, the stored events and the     *)
(* columns of the attempt agree: an event is stored once, a conflict has   *)
(* another run or a foreign runtime behind it, each column is the time of  *)
(* a stored event of its kind that arrived while the attempt was live, and *)
(* only activity that was stored after the receipt makes an attempt run.   *)
EventsAreEvidence ==
    /\ \A r, q \in rows : r.event.id = q.event.id \/ r.event.seq = q.event.seq => r = q
    /\ \A e \in conflicts :
           \E r \in rows : /\ r.event.id = e.id \/ r.event.seq = e.seq
                           /\ e \in Foreign \/ r.event.run # e.run
    /\ att.acceptedAt \in Times(LiveRows({"accepted"})) \cup {Null}
    /\ att.lastHeartbeat \in Times(LiveRows({"heartbeat"})) \cup {Null}
    /\ att.lastEvent = Null <=> LiveRows(Types) = {}
    /\ att.lastHeartbeat = Null <=> LiveRows({"heartbeat"}) = {}
    /\ att.status = "RUNNING" => Started # {}
    /\ att.startTime # Null <=> Started # {}

(* No heartbeat has come for StaleAfter: the last one to be stored was     *)
(* received that long ago, and the ones before it are overtaken; or there  *)
(* is none, and the activity that made the attempt run was stored that     *)
(* long ago.                                                               *)
Silent ==
    LET heartbeats == LiveRows({"heartbeat"})
    IN /\ \A r \in heartbeats :
              \E q \in heartbeats : q.stored >= r.stored /\ q.at + StaleAfter <= now
       /\ heartbeats = {} => \E r \in Started : r.stored + StaleAfter <= now

(* A supervision pass finds an attempt unaccepted only when nothing was    *)
(* stored for it, and stale only when it has been silent for so long.      *)
(* What is stored between the reading and its application is not looked    *)
(* at any more.                                                            *)
TimeoutsAreEarned ==
    [][\A p \in Replicas :
           verdict[p] = NoVerdict /\ verdict'[p] # NoVerdict =>
               IF verdict'[p].code = "AGENT_ACCEPTANCE_TIMEOUT" THEN rows = {}
               ELSE Silent]_vars

(* "Liveness projection is monotonic in server-received time": the column  *)
(* supervision measures silence from never goes back.                      *)
LivenessIsMonotonic == [][att'.lastHeartbeat >= att.lastHeartbeat]_vars
=============================================================================
