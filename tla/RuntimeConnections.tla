-------------------------- MODULE RuntimeConnections --------------------------
(***************************************************************************)
(* One runtime connection: its card (status, current revision, evidence of *)
(* the last probe), the probe that measures it, and the OAuth flows of its *)
(* providers (runtime-connection.service.ts, provider-discovery.service.ts *)
(* and opencode-auth-flow.service.ts).                                     *)
(*                                                                         *)
(* A flow retains one live management session: the pending authorization   *)
(* exists in that process only.  The session is started by a begin         *)
(* request, so a session and the flow that keeps it are named by the begin *)
(* that started it.  Requests read the connection in a transaction of      *)
(* their own and act on what they read in a later turn of the event loop.  *)
(***************************************************************************)
EXTENDS Naturals, FiniteSets, Sequences

CONSTANTS
    Begins,         \* begin requests
    Completions,    \* complete requests
    Resumes,        \* requests for the active flows
    Providers,
    MaxRevision,    \* bound on revisions of the connection
    MaxFlows,       \* maxFlows
    MaxProbes       \* bound on probes of the connection

VARIABLES
    card,           \* [revoked, revision, evidence]: the connection's row;
                    \* evidence is the revision the probe measured, 0 if none
    test,           \* [stage, revision, probes]: the probe in flight (one a
                    \* process), and how many there were
    chain,          \* provider -> begins that hold or await its lock, in order
    begin,          \* [stage, provider, revision]
    session,        \* begin -> its management session
    flows,          \* the begins whose session a flow retains
    complete,       \* [stage, flow, seen, since]
    resume,         \* [stage, candidates, seen, since]
    callbacks,      \* begin -> callbacks its session was asked for
    closed          \* closeAll ran

vars == <<card, test, chain, begin, session, flows, complete, resume, callbacks, closed>>
requestVars == <<begin, session, flows, chain, complete, resume, callbacks, closed>>
-----------------------------------------------------------------------------
Revoked == 0        \* what a claim answers for a revoked connection

(* claimRevision, one transaction under the lock of the row.               *)
claimRevision == IF card.revoked THEN Revoked ELSE card.revision

Unasked == [stage |-> "unused", flow |-> "none", seen |-> 0, since |-> 0]
Unlisted == [stage |-> "unused", candidates |-> {}, seen |-> 0, since |-> 0]

Init ==
    /\ card = [revoked |-> FALSE, revision |-> 1, evidence |-> 0]
    /\ test = [stage |-> "idle", revision |-> 0, probes |-> 0]
    /\ chain = [p \in Providers |-> <<>>]
    /\ begin = [b \in Begins |-> [stage |-> "unused", provider |-> "none", revision |-> 0]]
    /\ session = [b \in Begins |-> "none"]
    /\ flows = {}
    /\ complete = [c \in Completions |-> Unasked]
    /\ resume = [r \in Resumes |-> Unlisted]
    /\ callbacks = [b \in Begins |-> 0]
    /\ closed = FALSE
-----------------------------------------------------------------------------
(* The card. *)

(* reviseConnection: the evidence of the older configuration is dropped.   *)
ReviseConnection ==
    /\ ~card.revoked
    /\ card.revision < MaxRevision
    /\ card' = [card EXCEPT !.revision = @ + 1, !.evidence = 0]
    /\ UNCHANGED <<test, requestVars>>

RevokeConnection ==
    /\ ~card.revoked
    /\ card' = [card EXCEPT !.revoked = TRUE]
    /\ UNCHANGED <<test, requestVars>>

(* testConnection: a second call joins the probe in flight.                *)
TestConnection ==
    /\ test.stage = "idle"
    /\ test.probes < MaxProbes
    /\ ~card.revoked
    /\ test' = [stage |-> "claimed", revision |-> card.revision, probes |-> test.probes + 1]
    /\ UNCHANGED <<card, requestVars>>

(* The status is read apart from the claim; recent evidence refuses the    *)
(* probe.                                                                  *)
ReadTestStatus ==
    /\ test.stage = "claimed"
    /\ \/ test' = [test EXCEPT !.stage = "probing"]
       \/ card.evidence # 0 /\ test' = [test EXCEPT !.stage = "idle"]
    /\ UNCHANGED <<card, requestVars>>

(* The card is written only while it is at the revision the probe          *)
(* measured, and never once it is revoked.                                 *)
PersistTest ==
    /\ test.stage = "probing"
    /\ card' = IF card.revoked \/ card.revision # test.revision THEN card
               ELSE [card EXCEPT !.evidence = test.revision]
    /\ test' = [test EXCEPT !.stage = "idle"]
    /\ UNCHANGED requestVars
-----------------------------------------------------------------------------
(* A begin request.  Those of a provider run one after another.            *)

BeginAuthFlow(b, p) ==
    /\ begin[b].stage = "unused"
    /\ begin' = [begin EXCEPT ![b] = [stage |-> "queued", provider |-> p, revision |-> 0]]
    /\ chain' = [chain EXCEPT ![p] = Append(@, b)]
    /\ UNCHANGED <<card, test, session, flows, complete, resume, callbacks, closed>>

(* The lock of a begin's provider is its turn.                             *)
MutantHasTurn(b) == TRUE
HasTurn(b) == Head(chain[begin[b].provider]) = b

(* The begin answers, and the next of its provider may run.                *)
Release(b) ==
    /\ begin' = [begin EXCEPT ![b].stage = "done"]
    /\ chain' = [chain EXCEPT ![begin[b].provider] = Tail(@)]

(* resolveRevision, inside the lock.                                       *)
ResolveRevision(b) ==
    /\ begin[b].stage = "queued"
    /\ HasTurn(b)
    /\ IF claimRevision = Revoked
       THEN Release(b)
       ELSE /\ begin' = [begin EXCEPT ![b] =
                           [stage |-> "resolved", provider |-> @.provider,
                            revision |-> claimRevision]]
            /\ UNCHANGED chain
    /\ UNCHANGED <<card, test, session, flows, complete, resume, callbacks, closed>>

(* Flows leave the map before their sessions are closed.                   *)
Drop(fs) ==
    /\ flows' = flows \ fs
    /\ session' = [b \in Begins |-> IF b \in flows \cap fs THEN "closed" ELSE session[b]]

FlowsOf(p) == {f \in flows : begin[f].provider = p}

(* evictStaleFor *)
Stale(b) == {f \in FlowsOf(begin[b].provider) : begin[f].revision # begin[b].revision}

EvictStale(b) ==
    /\ begin[b].stage = "resolved"
    /\ Stale(b) # {}
    /\ Drop(Stale(b))
    /\ UNCHANGED <<card, test, chain, begin, complete, resume, callbacks, closed>>

(* classifyExisting.  A flow of the provider is handed out again, or       *)
(* refuses the begin if it authorized another method; only where there is  *)
(* none is a session started.                                              *)
ClassifyExisting(b) ==
    /\ begin[b].stage = "resolved"
    /\ Stale(b) = {}
    /\ IF FlowsOf(begin[b].provider) # {}
       THEN Release(b) /\ UNCHANGED session
       ELSE /\ begin' = [begin EXCEPT ![b].stage = "starting"]
            /\ session' = [session EXCEPT ![b] = "up"]
            /\ UNCHANGED chain
    /\ UNCHANGED <<card, test, flows, complete, resume, callbacks, closed>>

(* The server is ready and offers the selected method.                     *)
Authorize(b) ==
    /\ begin[b].stage = "starting"
    /\ begin' = [begin EXCEPT ![b].stage = "authorizing"]
    /\ UNCHANGED <<card, test, chain, session, flows, complete, resume, callbacks, closed>>

(* The server does not come up, does not offer the method, or refuses.     *)
BeginFails(b) ==
    /\ begin[b].stage \in {"starting", "authorizing"}
    /\ session' = [session EXCEPT ![b] = "closed"]
    /\ Release(b)
    /\ UNCHANGED <<card, test, flows, complete, resume, callbacks, closed>>

(* begin() of the flow service: classified again, then the limit.          *)
Register(b) ==
    /\ begin[b].stage = "authorizing"
    /\ IF FlowsOf(begin[b].provider) # {} \/ Cardinality(flows) >= MaxFlows
       THEN session' = [session EXCEPT ![b] = "closed"] /\ UNCHANGED flows
       ELSE flows' = flows \cup {b} /\ UNCHANGED session
    /\ Release(b)
    /\ UNCHANGED <<card, test, complete, resume, callbacks, closed>>
-----------------------------------------------------------------------------
(* The end of a flow. *)

(* expire and cancelAuthFlow ask no one.                                   *)
CancelFlow(f) ==
    /\ f \in flows
    /\ Drop({f})
    /\ UNCHANGED <<card, test, chain, begin, complete, resume, callbacks, closed>>

(* closeAll, when the module is destroyed: requests in progress go on.     *)
CloseAll ==
    /\ ~closed
    /\ closed' = TRUE
    /\ Drop(flows)
    /\ UNCHANGED <<card, test, chain, begin, complete, resume, callbacks>>

Answered == [Unasked EXCEPT !.stage = "done"]

(* completeAuthFlow: a flow that is gone needs no authority to be refused. *)
CompleteAuthFlow(c, f) ==
    /\ complete[c].stage = "unused"
    /\ f \in flows
    /\ complete' = [complete EXCEPT ![c] =
                      [stage |-> "reading", flow |-> f, seen |-> 0, since |-> claimRevision]]
    /\ UNCHANGED <<card, test, chain, begin, session, flows, resume, callbacks, closed>>

MutantReadAuthority(c) ==
    /\ complete[c].stage = "reading"
    /\ complete' = [complete EXCEPT ![c].stage = "read",
                                    ![c].seen = begin[complete[c].flow].revision]
    /\ UNCHANGED <<card, test, chain, begin, session, flows, resume, callbacks, closed>>

ReadAuthority(c) ==
    /\ complete[c].stage = "reading"
    /\ complete' = [complete EXCEPT ![c].stage = "read", ![c].seen = claimRevision]
    /\ UNCHANGED <<card, test, chain, begin, session, flows, resume, callbacks, closed>>

(* A flow whose authority is gone is destroyed; otherwise complete() takes *)
(* it out of the map, and a flow that is gone is refused.                  *)
TakeFlow(c) ==
    /\ complete[c].stage = "read"
    /\ LET f == complete[c].flow IN
       IF complete[c].seen # begin[f].revision
       THEN Drop({f}) /\ complete' = [complete EXCEPT ![c] = Answered]
       ELSE /\ complete' = [complete EXCEPT ![c] =
                              IF f \in flows THEN [@ EXCEPT !.stage = "calling"] ELSE Answered]
            /\ flows' = flows \ {f}
            /\ UNCHANGED session
    /\ UNCHANGED <<card, test, chain, begin, resume, callbacks, closed>>

(* completeOauth *)
Callback(c) ==
    /\ complete[c].stage = "calling"
    /\ callbacks' = [callbacks EXCEPT ![complete[c].flow] = @ + 1]
    /\ complete' = [complete EXCEPT ![c].stage = "called"]
    /\ UNCHANGED <<card, test, chain, begin, session, flows, resume, closed>>

(* Whatever the callback answered, the session is closed.                  *)
CompleteEnds(c) ==
    /\ complete[c].stage = "called"
    /\ session' = [session EXCEPT ![complete[c].flow] = "closed"]
    /\ complete' = [complete EXCEPT ![c] = Answered]
    /\ UNCHANGED <<card, test, chain, begin, flows, resume, callbacks, closed>>
-----------------------------------------------------------------------------
(* getActiveAuthFlows: a page that was reloaded asks for the flows.        *)

ListFlows(r) ==
    /\ resume[r].stage = "unused"
    /\ flows # {}
    /\ resume' = [resume EXCEPT ![r] =
                    [stage |-> "reading", candidates |-> flows, seen |-> 0,
                     since |-> claimRevision]]
    /\ UNCHANGED <<card, test, chain, begin, session, flows, complete, callbacks, closed>>

ReadForResume(r) ==
    /\ resume[r].stage = "reading"
    /\ resume' = [resume EXCEPT ![r].stage = "read", ![r].seen = claimRevision]
    /\ UNCHANGED <<card, test, chain, begin, session, flows, complete, callbacks, closed>>

Shown(r) == {f \in resume[r].candidates : begin[f].revision = resume[r].seen}

(* Flows of another revision are destroyed, not shown.                     *)
AnswerResume(r) ==
    /\ resume[r].stage = "read"
    /\ Drop(resume[r].candidates \ Shown(r))
    /\ resume' = [resume EXCEPT ![r] = [Unlisted EXCEPT !.stage = "done"]]
    /\ UNCHANGED <<card, test, chain, begin, complete, callbacks, closed>>
-----------------------------------------------------------------------------
Next ==
    \/ ReviseConnection
    \/ RevokeConnection
    \/ TestConnection
    \/ ReadTestStatus
    \/ PersistTest
    \/ \E b \in Begins, p \in Providers : BeginAuthFlow(b, p)
    \/ \E b \in Begins : \/ ResolveRevision(b)
                         \/ EvictStale(b)
                         \/ ClassifyExisting(b)
                         \/ Authorize(b)
                         \/ BeginFails(b)
                         \/ Register(b)
                         \/ CancelFlow(b)
    \/ CloseAll
    \/ \E c \in Completions, f \in Begins : CompleteAuthFlow(c, f)
    \/ \E c \in Completions : \/ ReadAuthority(c)
                              \/ TakeFlow(c)
                              \/ Callback(c)
                              \/ CompleteEnds(c)
    \/ \E r \in Resumes : \/ ListFlows(r)
                          \/ ReadForResume(r)
                          \/ AnswerResume(r)

Spec == Init /\ [][Next]_vars
-----------------------------------------------------------------------------
(* The evidence on the card was measured on the revision the card shows.   *)
CardTellsRevision == card.evidence \in {0, card.revision}

InBegin == {b \in Begins : begin[b].stage \in {"starting", "authorizing"}}
TakenBy(f) ==
    {c \in Completions : complete[c].flow = f /\ complete[c].stage \in {"calling", "called"}}

(* A live session has exactly one owner that will close it: the begin that *)
(* starts it, the flow that retains it, or the completion that took it.    *)
SessionsAreOwned ==
    \A b \in Begins :
        LET owners ==
              {<<"begin", x>> : x \in {b} \cap InBegin}
              \cup {<<"flow", x>> : x \in {b} \cap flows}
              \cup {<<"completion", c>> : c \in TakenBy(b)}
        IN Cardinality(owners) = IF session[b] = "up" THEN 1 ELSE 0

(* However begins of one provider race each other and a new revision, at   *)
(* most one authorization of the provider is pending at a time.            *)
OneAuthorization ==
    \A p \in Providers :
        Cardinality({b \in Begins : /\ begin[b].provider = p
                                    /\ begin[b].stage = "authorizing" \/ b \in flows}) <= 1

ConnectionsAreSound == CardTellsRevision /\ SessionsAreOwned /\ OneAuthorization

(* A session is asked for its callback once, and only if the revision it   *)
(* was authorized for was in force at some moment since the completion was *)
(* requested; a page is shown no flow that was already stale when it       *)
(* asked.                                                                  *)
InForceSince(f, since) == since # Revoked /\ begin[f].revision >= since

CallbacksAreAuthorized ==
    [][/\ \A c \in DOMAIN complete :
            complete[c].stage = "calling" /\ complete'[c].stage = "called" =>
                /\ InForceSince(complete[c].flow, complete[c].since)
                /\ callbacks[complete[c].flow] = 0
       /\ \A r \in DOMAIN resume :
            resume[r].stage = "read" /\ resume'[r].stage = "done" =>
                \A f \in Shown(r) : InForceSince(f, resume[r].since)]_vars
=============================================================================
