---------------------------- MODULE KafkaTransport ----------------------------
(***************************************************************************)
(* Agents reached over Kafka: the adapter of the orchestrator publishes    *)
(* tasks and consumes results (kafka-agent.adapter.ts, kafka.service.ts);  *)
(* an agent consumes tasks and publishes results (kafka.service.ts of the  *)
(* two agents, alike but for names and prompts).  The broker keeps a log   *)
(* for each topic and, for each consumer group, the offset it committed; a *)
(* consumer that joins without one starts behind the last message          *)
(* (fromBeginning: false).  A process may die between any two steps.       *)
(*                                                                         *)
(* What the result inbox makes of results is modelled in ResultInbox; here *)
(* a handler stores a result, or fails.                                    *)
(***************************************************************************)
EXTENDS Naturals, Sequences

CONSTANTS
    Invocations,
    MaxSends,       \* bound on the publications of an invocation
    MaxResults,     \* bound on results in the log
    MaxStops,       \* bound on stops and deaths of each consumer
    MaxForeign      \* bound on what other producers write

Consumers == {"agent", "orchestrator"}

VARIABLES
    tasks,          \* the task topic: invocations, or "foreign"
    results,        \* the result topic: invocations answered, or "foreign"
    written,        \* foreign messages written so far
    sends,          \* invocation -> times it was published
    consumer,       \* consumer -> [up, start, position, committed, stage, stops]
    stored,         \* offsets of results a handler has stored
    unpublished     \* offsets of tasks none of whose results could be sent

vars == <<tasks, results, written, sends, consumer, stored, unpublished>>

Log(c) == IF c = "agent" THEN tasks ELSE results
None == 0           \* no committed offset

(* Where the group's first commit may be: nothing before was read.         *)
Joined(c) == IF consumer[c].committed = None THEN consumer[c].start ELSE consumer[c].committed

Init ==
    /\ tasks = <<>>
    /\ results = <<>>
    /\ written = 0
    /\ sends = [i \in Invocations |-> 0]
    /\ consumer = [c \in Consumers |->
                     [up |-> FALSE, start |-> 1, position |-> 1, committed |-> None,
                      stage |-> "idle", stops |-> 0]]
    /\ stored = {}
    /\ unpublished = {}
-----------------------------------------------------------------------------
(* Consumers. *)

(* start(), onModuleInit: connect, subscribe and run.                      *)
Join(c) ==
    /\ ~consumer[c].up
    /\ LET first == consumer[c].committed = None
           from == IF first THEN Len(Log(c)) + 1 ELSE consumer[c].committed
       IN consumer' = [consumer EXCEPT ![c] =
                         [@ EXCEPT !.up = TRUE, !.position = from,
                                   !.start = IF first THEN from ELSE consumer[c].start]]
    /\ UNCHANGED <<tasks, results, written, sends, stored, unpublished>>

(* The client hands over one message at a time.                            *)
Poll(c) ==
    /\ consumer[c].up
    /\ consumer[c].stage = "idle"
    /\ consumer[c].position <= Len(Log(c))
    /\ consumer' = [consumer EXCEPT ![c].stage = "handling"]
    /\ UNCHANGED <<tasks, results, written, sends, stored, unpublished>>

(* A consumer stops with its last commit.                                  *)
Stops(c, last) ==
    /\ consumer[c].up
    /\ consumer[c].stops < MaxStops
    /\ consumer' = [consumer EXCEPT ![c] =
                      [@ EXCEPT !.up = FALSE, !.stage = "idle", !.committed = last,
                                !.stops = consumer[c].stops + 1]]
    /\ UNCHANGED <<tasks, results, written, sends, stored, unpublished>>

(* stop(): the client waits for the handler and commits.                   *)
Leave(c) ==
    /\ consumer[c].stage = "idle"
    /\ Stops(c, consumer[c].position)

(* A death, or a group that takes the partition away.  The client commits  *)
(* on its own time what its handler has returned for: it may have come to  *)
(* any message so far, or to none.                                         *)
Crash(c) ==
    \E last \in {consumer[c].committed} \cup Joined(c)..consumer[c].position : Stops(c, last)

Message(c) == Log(c)[consumer[c].position]
Handling(c, stage) == consumer[c].up /\ consumer[c].stage = stage
At(c, stage) == consumer' = [consumer EXCEPT ![c].stage = stage]

(* The handler returns: the message will be committed.                     *)
Acked(c) ==
    consumer' = [consumer EXCEPT ![c] =
                   [@ EXCEPT !.stage = "idle", !.position = consumer[c].position + 1]]

(* The handler rejects: the message is handed over again.                  *)
Refused(c) == At(c, "idle")
-----------------------------------------------------------------------------
(* The orchestrator. *)

(* invoke().  The outbox publishes again what may not have arrived.        *)
Invoke(i) ==
    /\ consumer["orchestrator"].up
    /\ sends[i] < MaxSends
    /\ sends' = [sends EXCEPT ![i] = @ + 1]
    /\ \/ tasks' = Append(tasks, i)
       \/ UNCHANGED tasks
    /\ UNCHANGED <<results, written, consumer, stored, unpublished>>

(* The inbox has stored a result, or one of the legacy form that was       *)
(* traced to its step.                                                     *)
StoreResult ==
    /\ Handling("orchestrator", "handling")
    /\ stored' = IF Message("orchestrator") \in Invocations
                 THEN stored \cup {consumer["orchestrator"].position} ELSE stored
    /\ At("orchestrator", "stored")
    /\ UNCHANGED <<tasks, results, written, sends, unpublished>>

HandlerReturns ==
    /\ Handling("orchestrator", "stored")
    /\ Acked("orchestrator")
    /\ UNCHANGED <<tasks, results, written, sends, stored, unpublished>>

MutantHandlerFails ==
    /\ Handling("orchestrator", "handling")
    /\ Acked("orchestrator")
    /\ UNCHANGED <<tasks, results, written, sends, stored, unpublished>>

(* A handler that failed is retryable and rejects.                         *)
HandlerFails ==
    /\ Handling("orchestrator", "handling")
    /\ Refused("orchestrator")
    /\ UNCHANGED <<tasks, results, written, sends, stored, unpublished>>

(* What cannot be parsed is acknowledged.  So is a legacy result whose     *)
(* step is unknown, and one whose step could not be looked up.             *)
DropResult ==
    /\ Handling("orchestrator", "handling")
    /\ Message("orchestrator") \notin Invocations
    /\ Acked("orchestrator")
    /\ UNCHANGED <<tasks, results, written, sends, stored, unpublished>>
-----------------------------------------------------------------------------
(* The agent. *)

(* A task that cannot be parsed is acknowledged without an answer.         *)
DropTask ==
    /\ Handling("agent", "handling")
    /\ Message("agent") \notin Invocations
    /\ Acked("agent")
    /\ UNCHANGED <<tasks, results, written, sends, stored, unpublished>>

(* The runner answers, refuses, or runs into the deadline.                 *)
RunnerEnds(status) ==
    /\ Handling("agent", "handling")
    /\ Message("agent") \in Invocations
    /\ At("agent", status)
    /\ UNCHANGED <<tasks, results, written, sends, stored, unpublished>>

Sent ==
    /\ Len(results) < MaxResults
    /\ results' = Append(results, Message("agent"))

(* publishResult *)
PublishResult(status) ==
    /\ Handling("agent", status)
    /\ Sent
    /\ Acked("agent")
    /\ UNCHANGED <<tasks, written, sends, stored, unpublished>>

(* A success that seems not to have been sent is answered by a failure;    *)
(* the broker may have both.                                               *)
PublishSuccessFails ==
    /\ Handling("agent", "succeeded")
    /\ \/ Sent
       \/ UNCHANGED results
    /\ At("agent", "failed")
    /\ UNCHANGED <<tasks, written, sends, stored, unpublished>>

(* A failure that seems not to have been sent is logged, and that is all.  *)
PublishFailureFails ==
    /\ Handling("agent", "failed")
    /\ \/ Sent /\ UNCHANGED unpublished
       \/ unpublished' = unpublished \cup {consumer["agent"].position} /\ UNCHANGED results
    /\ Acked("agent")
    /\ UNCHANGED <<tasks, written, sends, stored>>
-----------------------------------------------------------------------------
(* Other producers of the topics.                                          *)
WriteForeign ==
    /\ written < MaxForeign
    /\ Len(results) < MaxResults
    /\ written' = written + 1
    /\ \/ tasks' = Append(tasks, "foreign") /\ UNCHANGED results
       \/ results' = Append(results, "foreign") /\ UNCHANGED tasks
    /\ UNCHANGED <<sends, consumer, stored, unpublished>>

Next ==
    \/ \E c \in Consumers : Join(c) \/ Poll(c) \/ Leave(c) \/ Crash(c)
    \/ \E i \in Invocations : Invoke(i)
    \/ StoreResult
    \/ HandlerReturns
    \/ HandlerFails
    \/ DropResult
    \/ DropTask
    \/ \E status \in {"succeeded", "failed"} : RunnerEnds(status) \/ PublishResult(status)
    \/ PublishSuccessFails
    \/ PublishFailureFails
    \/ WriteForeign

Spec == Init /\ [][Next]_vars
-----------------------------------------------------------------------------
(* What the group has read, from where it first committed or last joined.  *)
Read(c) == consumer[c].start..(consumer[c].position - 1)

(* No result is passed over: those that the group has read are stored.     *)
ResultsAreStored ==
    \A n \in Read("orchestrator") : results[n] \in Invocations => n \in stored

(* A task that an agent has read was answered in the log, unless the       *)
(* answer could not be sent.                                               *)
TasksAreAnswered ==
    \A n \in Read("agent") :
        tasks[n] \in Invocations =>
            \/ n \in unpublished
            \/ \E k \in 1..Len(results) : results[k] = tasks[n]

NothingIsSkipped == ResultsAreStored /\ TasksAreAnswered
=============================================================================
