----------------------- MODULE RuntimeConnectionsProofs -----------------------
(***************************************************************************)
(* Runtime connections for any number of requests, providers, revisions    *)
(* and flows: however requests race each other and a new revision, a live  *)
(* management session has one owner, a provider has one pending            *)
(* authorization, and a callback has the authority it was given.           *)
(*                                                                         *)
(* The argument is the lock of a provider: from the revision it resolved   *)
(* to its answer a begin is the head of its provider's chain, so what it   *)
(* found out about the provider's flows can only be undone by their ends.  *)
(***************************************************************************)
EXTENDS Services, FiniteSetTheorems, TLAPS

Starting == {"starting", "authorizing"}
Acting == {"resolved"} \cup Starting
Took == {"calling", "called"}

BeginRecord ==
    [stage : {"unused", "queued", "done"} \cup Acting,
     provider : Providers \cup {"none"}, revision : Nat]

CompleteRecord ==
    [stage : {"unused", "reading", "read", "done"} \cup Took,
     flow : Begins \cup {"none"}, seen : Nat, since : Nat]

ResumeRecord ==
    [stage : {"unused", "reading", "read", "done"},
     candidates : SUBSET Begins, seen : Nat, since : Nat]

TypeInv ==
    /\ DOMAIN card = {"revoked", "revision", "evidence"}
    /\ card.revision \in Nat /\ card.revision > 0 /\ card.evidence \in Nat
    /\ test \in [stage : {"idle", "claimed", "probing"}, revision : Nat, probes : Nat]
    /\ chain \in [Providers -> Seq(Begins)]
    /\ begin \in [Begins -> BeginRecord]
    /\ session \in [Begins -> {"none", "up", "closed"}]
    /\ flows \subseteq Begins
    /\ complete \in [Completions -> CompleteRecord]
    /\ resume \in [Resumes -> ResumeRecord]
    /\ callbacks \in [Begins -> Nat]

(* A begin stands in its provider's chain until it answers, and from the   *)
(* moment it resolved the revision it is the first.                        *)
Stands(b) == \E n \in 1..Len(chain[begin[b].provider]) : chain[begin[b].provider][n] = b

TurnsAreKept ==
    \A b \in Begins :
        /\ begin[b].stage \in {"queued"} \cup Acting =>
               begin[b].provider \in Providers /\ Stands(b)
        /\ begin[b].stage \in Acting => Connections!HasTurn(b) /\ begin[b].revision # 0

(* While a begin starts a session its provider has no flow, and a provider *)
(* has no two.                                                             *)
OnePending ==
    /\ \A b \in Begins, f \in flows :
           begin[b].stage \in Starting => begin[f].provider # begin[b].provider
    /\ \A f, g \in flows : begin[f].provider = begin[g].provider => f = g

(* A flow was registered with a revision, and no one asked it yet.         *)
Answers(f) == begin[f].stage = "done" /\ begin[f].revision # 0

FlowsAreNew ==
    /\ \A f \in flows : Answers(f)
    /\ \A b \in Begins : begin[b].stage # "done" \/ b \in flows => callbacks[b] = 0

(* The completion that took a flow is the only one that did.               *)
Takes(c, f) == complete[c].flow = f /\ complete[c].stage \in Took

TakenOnce ==
    /\ \A c \in Completions, f \in Begins :
           Takes(c, f) =>
               /\ f \notin flows
               /\ begin[f].stage = "done"
               /\ complete[c].stage = "calling" => callbacks[f] = 0
    /\ \A c, d \in Completions, f \in Begins : Takes(c, f) /\ Takes(d, f) => c = d

(* A session is up while it has an owner.                                  *)
LiveIsOwned ==
    \A b \in Begins :
        session[b] = "up" <=> \/ begin[b].stage \in Starting
                              \/ b \in flows
                              \/ \E c \in Completions : Takes(c, b)

(* What a request has seen of the card, and what was so when it was made.  *)
Tells(stage, seen, since) ==
    /\ stage \in {"reading", "read"} =>
           since <= card.revision /\ (since = Connections!Revoked => card.revoked)
    /\ stage = "read" /\ seen # Connections!Revoked => since # Connections!Revoked /\ since <= seen

Authority ==
    /\ \A c \in Completions :
           /\ Tells(complete[c].stage, complete[c].seen, complete[c].since)
           /\ complete[c].stage \in {"reading", "read"} =>
                  complete[c].flow \in Begins /\ Answers(complete[c].flow)
           /\ complete[c].stage \in Took => complete[c].flow \in Begins
           /\ complete[c].stage = "calling" =>
                  Connections!InForceSince(complete[c].flow, complete[c].since)
    /\ \A r \in Resumes :
           /\ Tells(resume[r].stage, resume[r].seen, resume[r].since)
           /\ resume[r].stage \in {"reading", "read"} =>
                  \A f \in resume[r].candidates : Answers(f)

ConnectionInv ==
    /\ TypeInv
    /\ Connections!CardTellsRevision
    /\ TurnsAreKept
    /\ OnePending
    /\ FlowsAreNew
    /\ TakenOnce
    /\ LiveIsOwned
    /\ Authority
-----------------------------------------------------------------------------
(* There is no request, no flow and no session.                            *)
LEMMA ConnectionStart == Connections!Init => ConnectionInv
<1> SUFFICES ASSUME Connections!Init PROVE ConnectionInv
  OBVIOUS
<1>1. TypeInv
  BY DEF Connections!Init, TypeInv, BeginRecord, CompleteRecord, ResumeRecord, Connections!Unasked,
       Connections!Unlisted
<1>2. TurnsAreKept /\ OnePending /\ FlowsAreNew
  BY DEF Connections!Init, TurnsAreKept, OnePending, FlowsAreNew, Acting, Starting
<1>3. TakenOnce /\ LiveIsOwned /\ Authority
  BY DEF Connections!Init, TakenOnce, LiveIsOwned, Authority, Takes, Took, Connections!Unasked,
       Connections!Unlisted, Tells, Starting
<1>4. Connections!CardTellsRevision
  BY DEF Connections!Init, Connections!CardTellsRevision
<1> QED
  BY <1>1, <1>2, <1>3, <1>4 DEF ConnectionInv
-----------------------------------------------------------------------------
(* The card: revisions only grow, and no one who read it is disturbed.     *)
LEMMA CardKeeps ==
    ASSUME ConnectionInv,
           \/ Connections!ReviseConnection \/ Connections!RevokeConnection
           \/ Connections!TestConnection \/ Connections!ReadTestStatus \/ Connections!PersistTest
    PROVE  ConnectionInv'
<1> USE DEF ConnectionInv
<1>0. /\ DOMAIN card = {"revoked", "revision", "evidence"}
      /\ card.revision \in Nat /\ card.revision > 0 /\ card.evidence \in Nat
      /\ test \in [stage : {"idle", "claimed", "probing"}, revision : Nat, probes : Nat]
  BY DEF TypeInv
<1>1. /\ DOMAIN card' = {"revoked", "revision", "evidence"}
      /\ card'.revision \in Nat /\ card'.revision > 0 /\ card'.evidence \in Nat
      /\ test' \in [stage : {"idle", "claimed", "probing"}, revision : Nat, probes : Nat]
      /\ Connections!CardTellsRevision'
      /\ card'.revision >= card.revision /\ (card.revoked => card'.revoked)
  <2>1. CASE Connections!ReviseConnection
    BY <1>0, <2>1 DEF Connections!ReviseConnection, Connections!CardTellsRevision
  <2>2. CASE Connections!RevokeConnection
    BY <1>0, <2>2 DEF Connections!RevokeConnection, Connections!CardTellsRevision
  <2>3. CASE Connections!TestConnection
    BY <1>0, <2>3 DEF Connections!TestConnection, Connections!CardTellsRevision
  <2>4. CASE Connections!ReadTestStatus
    BY <1>0, <2>4 DEF Connections!ReadTestStatus, Connections!CardTellsRevision
  <2>5. CASE Connections!PersistTest
    BY <1>0, <2>5 DEF Connections!PersistTest, Connections!CardTellsRevision
  <2> QED
    BY <2>1, <2>2, <2>3, <2>4, <2>5
<1>2. UNCHANGED Connections!requestVars
  BY DEF Connections!ReviseConnection, Connections!RevokeConnection, Connections!TestConnection,
       Connections!ReadTestStatus, Connections!PersistTest
<1>3. TurnsAreKept' /\ OnePending' /\ FlowsAreNew'
  BY <1>2 DEF Connections!requestVars, TurnsAreKept, Stands, Connections!HasTurn, OnePending,
       FlowsAreNew, Answers
<1>4. TakenOnce' /\ LiveIsOwned'
  BY <1>2 DEF Connections!requestVars, TakenOnce, LiveIsOwned, Takes
<1>5. TypeInv'
  BY <1>1, <1>2 DEF Connections!requestVars, TypeInv
<1>6. Authority'
  <2>1. ASSUME NEW stage, NEW seen \in Nat, NEW since \in Nat, Tells(stage, seen, since)
        PROVE  Tells(stage, seen, since)'
    BY <1>0, <1>1, <2>1 DEF Tells
  <2>2. /\ complete' = complete /\ \A c \in Completions : complete[c] \in CompleteRecord
        /\ resume' = resume /\ \A r \in Resumes : resume[r] \in ResumeRecord
        /\ begin' = begin
    BY <1>2 DEF Connections!requestVars, TypeInv
  <2>3. \A f : (Answers(f) => Answers(f)')
               /\ \A since :
                      Connections!InForceSince(f, since) => Connections!InForceSince(f, since)'
    BY <2>2 DEF Answers, Connections!InForceSince
  <2>4. ASSUME NEW c \in Completions
        PROVE  Tells(complete[c].stage, complete[c].seen, complete[c].since)'
    BY <2>1, <2>2 DEF Authority, CompleteRecord
  <2>5. ASSUME NEW r \in Resumes
        PROVE  Tells(resume[r].stage, resume[r].seen, resume[r].since)'
    BY <2>1, <2>2 DEF Authority, ResumeRecord
  <2> QED
    BY <2>2, <2>3, <2>4, <2>5 DEF Authority
<1> QED
  BY <1>1, <1>3, <1>4, <1>5, <1>6
-----------------------------------------------------------------------------
(* The requests for flows are about begins that have answered, which no    *)
(* other begin disturbs.                                                   *)
LEMMA BeginsGoOn ==
    ASSUME ConnectionInv, UNCHANGED <<card, complete, resume>>,
           \A f \in Begins : begin[f].stage = "done" => begin'[f] = begin[f]
    PROVE  Authority'
<1> USE DEF ConnectionInv
<1>1. \A f \in Begins : Answers(f) => Answers(f)'
  BY DEF Answers
<1>2. ASSUME NEW c \in Completions
      PROVE  /\ Tells(complete[c].stage, complete[c].seen, complete[c].since)'
             /\ complete'[c].stage \in {"reading", "read"} =>
                    complete'[c].flow \in Begins /\ Answers(complete[c].flow)'
             /\ complete'[c].stage \in Took => complete'[c].flow \in Begins
  BY <1>1 DEF Authority, Tells
<1>3. ASSUME NEW c \in Completions, complete'[c].stage = "calling"
      PROVE  Connections!InForceSince(complete[c].flow, complete[c].since)'
  <2>1. Connections!InForceSince(complete[c].flow, complete[c].since) /\ complete[c].flow \in Begins
    BY <1>3 DEF Authority, Took
  <2>2. begin[complete[c].flow].stage = "done"
    BY <1>3, <2>1 DEF TakenOnce, Takes, Took
  <2> QED
    BY <2>1, <2>2 DEF Connections!InForceSince
<1>4. ASSUME NEW r \in Resumes
      PROVE  /\ Tells(resume[r].stage, resume[r].seen, resume[r].since)'
             /\ resume'[r].stage \in {"reading", "read"} =>
                    \A f \in resume'[r].candidates : Answers(f)'
  BY <1>1 DEF Authority, Tells, TypeInv, ResumeRecord
<1> QED
  BY <1>2, <1>3, <1>4 DEF Authority

(* A begin comes to the end of its provider's chain.                       *)
LEMMA BeginAuthFlowKeeps ==
    ASSUME ConnectionInv, NEW b \in Begins, NEW p \in Providers, Connections!BeginAuthFlow(b, p)
    PROVE  ConnectionInv'
<1> USE DEF ConnectionInv, Connections!BeginAuthFlow
<1>0. Connections!CardTellsRevision'
  BY DEF Connections!CardTellsRevision
<1>1. TypeInv'
  <2>1. chain' \in [Providers -> Seq(Begins)]
    BY DEF TypeInv
  <2>2. begin' \in [Begins -> BeginRecord]
    BY DEF TypeInv, BeginRecord
  <2> QED
    BY <2>1, <2>2 DEF TypeInv
<1>2. \A x \in Begins : x # b => begin'[x] = begin[x]
  BY DEF TypeInv
<1>3. begin'[b].stage = "queued" /\ begin'[b].provider = p
  BY DEF TypeInv
<1>4. TurnsAreKept'
  <2>1. Len(chain'[p]) = Len(chain[p]) + 1 /\ chain'[p][Len(chain[p]) + 1] = b
    BY DEF TypeInv
  <2>2. \A n \in 1..Len(chain[p]) : chain'[p][n] = chain[p][n]
    BY DEF TypeInv
  <2>3. Stands(b)'
    <3>1. Len(chain'[p]) \in Nat /\ Len(chain[p]) + 1 \in 1..Len(chain'[p])
      BY <2>1 DEF TypeInv
    <3> QED
      BY <1>3, <2>1, <3>1 DEF Stands
  <2>4. ASSUME NEW x \in Begins, x # b, begin[x].stage \in {"queued"} \cup Acting
        PROVE  /\ begin'[x].provider \in Providers /\ Stands(x)'
               /\ begin'[x].stage \in Acting => Connections!HasTurn(x)'
    <3>1. begin[x].provider \in Providers /\ Stands(x)
      BY <2>4 DEF TurnsAreKept
    <3>2. PICK n \in 1..Len(chain[begin[x].provider]) : chain[begin[x].provider][n] = x
      BY <3>1 DEF Stands
    <3>3. n \in 1..Len(chain'[begin[x].provider]) /\ chain'[begin[x].provider][n] = x
      BY <2>1, <2>2, <3>1, <3>2 DEF TypeInv
    <3>4. chain[begin[x].provider] # <<>>
      BY <3>1, <3>2 DEF TypeInv
    <3>5. Head(chain'[begin[x].provider]) = Head(chain[begin[x].provider])
      BY <3>1, <3>4 DEF TypeInv
    <3> QED
      BY <1>2, <2>4, <3>1, <3>3, <3>5 DEF Stands, Connections!HasTurn, TurnsAreKept
  <2> QED
    BY <1>2, <1>3, <2>3, <2>4 DEF TurnsAreKept, Acting, Starting
<1>5. OnePending' /\ FlowsAreNew'
  BY <1>2, <1>3 DEF OnePending, FlowsAreNew, Answers, Starting, TypeInv
<1>6. TakenOnce' /\ LiveIsOwned'
  BY <1>2, <1>3 DEF TakenOnce, LiveIsOwned, Takes, Starting, TypeInv
<1>7. Authority'
  <2>1. \A f \in Begins : begin[f].stage = "done" => begin'[f] = begin[f]
    BY <1>2
  <2> QED
    BY <2>1, BeginsGoOn
<1> QED
  BY <1>0, <1>1, <1>4, <1>5, <1>6, <1>7
-----------------------------------------------------------------------------
(* One begin comes to another stage.                                       *)
LEMMA StageMoves ==
    ASSUME begin \in [Begins -> BeginRecord], NEW b \in Begins,
           NEW stage \in {"unused", "queued", "done"} \cup Acting,
           begin' = [begin EXCEPT ![b].stage = stage]
    PROVE  /\ begin' \in [Begins -> BeginRecord]
           /\ \A x \in Begins : x # b => begin'[x] = begin[x]
           /\ begin'[b].stage = stage
           /\ begin'[b].provider = begin[b].provider
           /\ begin'[b].revision = begin[b].revision
<1>1. PICK r : r = [begin[b] EXCEPT !.stage = stage]
  OBVIOUS
<1>2. r = [stage |-> stage, provider |-> begin[b].provider, revision |-> begin[b].revision]
  BY <1>1 DEF BeginRecord
<1>3. begin' = [begin EXCEPT ![b] = r]
  BY <1>1
<1>4. r \in BeginRecord
  BY <1>2 DEF BeginRecord
<1> QED
  BY <1>2, <1>3, <1>4

(* The first of a chain answers: whoever stood behind it still stands.     *)
LEMMA ReleaseKeepsTurns ==
    ASSUME ConnectionInv, NEW b \in Begins, begin[b].stage \in {"queued"} \cup Acting,
           Connections!HasTurn(b), Connections!Release(b)
    PROVE  /\ chain' \in [Providers -> Seq(Begins)]
           /\ begin' \in [Begins -> BeginRecord]
           /\ \A x \in Begins : x # b => begin'[x] = begin[x]
           /\ begin'[b].stage = "done"
           /\ begin'[b].provider = begin[b].provider
           /\ begin'[b].revision = begin[b].revision
           /\ TurnsAreKept'
<1> USE DEF ConnectionInv, Connections!Release
<1> DEFINE p == begin[b].provider
<1>1. p \in Providers /\ chain[p] \in Seq(Begins) /\ chain[p] # <<>>
  BY DEF TurnsAreKept, Stands, TypeInv
<1>2. Tail(chain[p]) \in Seq(Begins) /\ Len(Tail(chain[p])) = Len(chain[p]) - 1
  BY <1>1
<1>3. /\ \A n \in 1..Len(Tail(chain[p])) : Tail(chain[p])[n] = chain[p][n + 1]
      /\ chain[p][1] = b
  BY <1>1 DEF Connections!HasTurn
<1>4. chain' \in [Providers -> Seq(Begins)] /\ chain'[p] = Tail(chain[p])
  BY <1>1, <1>2 DEF TypeInv
<1>5. /\ begin' \in [Begins -> BeginRecord]
      /\ \A x \in Begins : x # b => begin'[x] = begin[x]
      /\ begin'[b].stage = "done"
      /\ begin'[b].provider = begin[b].provider
      /\ begin'[b].revision = begin[b].revision
  BY StageMoves DEF TypeInv
<1>6. ASSUME NEW x \in Begins, x # b, begin[x].stage \in {"queued"} \cup Acting
      PROVE  begin[x].provider \in Providers /\ Stands(x)'
  <2>1. begin[x].provider \in Providers /\ Stands(x)
    BY <1>6 DEF TurnsAreKept
  <2>2. PICK n \in 1..Len(chain[begin[x].provider]) : chain[begin[x].provider][n] = x
    BY <2>1 DEF Stands
  <2>3. CASE begin[x].provider # p
    BY <1>5, <1>6, <2>1, <2>2, <2>3 DEF Stands, TypeInv
  <2>4. CASE begin[x].provider = p
    <3>1. n # 1 /\ n - 1 \in 1..Len(Tail(chain[p])) /\ Tail(chain[p])[n - 1] = x
      BY <1>1, <1>2, <1>3, <1>6, <2>2, <2>4
    <3> QED
      BY <1>4, <1>5, <1>6, <2>4, <3>1 DEF Stands
  <2> QED
    BY <2>1, <2>3, <2>4
<1>7. ASSUME NEW x \in Begins, x # b, begin[x].stage \in Acting
      PROVE  Connections!HasTurn(x)' /\ begin[x].revision # 0
  <2>1. Connections!HasTurn(x) /\ begin[x].revision # 0 /\ begin[x].provider \in Providers
    BY <1>7 DEF TurnsAreKept
  <2>2. begin[x].provider # p
    BY <1>7, <2>1 DEF Connections!HasTurn
  <2> QED
    BY <1>5, <1>7, <2>1, <2>2 DEF Connections!HasTurn, TypeInv
<1>8. TurnsAreKept'
  BY <1>5, <1>6, <1>7 DEF TurnsAreKept, Acting, Starting
<1> QED
  BY <1>4, <1>5, <1>8
-----------------------------------------------------------------------------
(* Flows end: their sessions are closed with them.                         *)
LEMMA FlowsEnd ==
    ASSUME ConnectionInv, NEW fs, Connections!Drop(fs), UNCHANGED <<begin, callbacks>>,
           \A c \in Completions, f \in Begins :
               /\ Takes(c, f)' <=> Takes(c, f)
               /\ Takes(c, f)' /\ complete'[c].stage = "calling" => complete[c].stage = "calling"
    PROVE  /\ flows' \subseteq Begins /\ session' \in [Begins -> {"none", "up", "closed"}]
           /\ OnePending' /\ FlowsAreNew' /\ TakenOnce' /\ LiveIsOwned'
<1> USE DEF ConnectionInv, Connections!Drop
<1>1. flows' \subseteq Begins /\ session' \in [Begins -> {"none", "up", "closed"}]
  BY DEF TypeInv
<1>2. OnePending' /\ FlowsAreNew'
  BY DEF OnePending, FlowsAreNew, Answers
<1>3. TakenOnce'
  BY DEF TakenOnce, TypeInv
<1>4. ASSUME NEW b \in Begins
      PROVE  session'[b] = "up" <=> \/ begin'[b].stage \in Starting
                                    \/ b \in flows'
                                    \/ \E c \in Completions : Takes(c, b)'
  <2>1. CASE b \in flows \cap fs
    <3>1. session'[b] = "closed" /\ b \notin flows'
      BY <2>1
    <3>2. begin'[b].stage = "done" /\ \A c \in Completions : ~Takes(c, b)'
      BY <2>1 DEF FlowsAreNew, Answers, TakenOnce
    <3> QED
      BY <3>1, <3>2 DEF Starting
  <2>2. CASE b \notin flows \cap fs
    <3>1. session'[b] = session[b] /\ (b \in flows' <=> b \in flows)
      BY <2>2
    <3> QED
      BY <3>1 DEF LiveIsOwned
  <2> QED
    BY <2>1, <2>2
<1> QED
  BY <1>1, <1>2, <1>3, <1>4 DEF LiveIsOwned

(* Whoever ends flows without a word to anyone: a begin that finds them    *)
(* stale, the expiry, a cancellation, the shutdown.                        *)
LEMMA EndsKeep ==
    ASSUME ConnectionInv, NEW fs, Connections!Drop(fs),
           UNCHANGED <<card, test, chain, begin, complete, resume, callbacks>>
    PROVE  ConnectionInv'
<1> USE DEF ConnectionInv
<1>1. /\ flows' \subseteq Begins /\ session' \in [Begins -> {"none", "up", "closed"}]
      /\ OnePending' /\ FlowsAreNew' /\ TakenOnce' /\ LiveIsOwned'
  BY FlowsEnd DEF Takes
<1>2. TypeInv' /\ Connections!CardTellsRevision' /\ TurnsAreKept'
  BY <1>1 DEF TypeInv, Connections!CardTellsRevision, TurnsAreKept, Stands, Connections!HasTurn
<1>3. Authority'
  BY BeginsGoOn
<1> QED
  BY <1>1, <1>2, <1>3
-----------------------------------------------------------------------------
(* A begin that has not answered owns its session alone.                   *)
LEMMA OwnsAlone ==
    ASSUME ConnectionInv, NEW b \in Begins, begin[b].stage # "done"
    PROVE  /\ b \notin flows /\ callbacks[b] = 0
           /\ \A c \in Completions : ~Takes(c, b)
           /\ session[b] = "up" <=> begin[b].stage \in Starting
<1>1. b \notin flows /\ callbacks[b] = 0
  BY DEF ConnectionInv, FlowsAreNew, Answers
<1>2. \A c \in Completions : ~Takes(c, b)
  BY DEF ConnectionInv, TakenOnce
<1> QED
  BY <1>1, <1>2 DEF ConnectionInv, LiveIsOwned

(* A begin goes on, or answers without a flow.                             *)
LEMMA BeginKeeps ==
    ASSUME ConnectionInv, NEW b \in Begins, begin[b].stage # "done",
           UNCHANGED <<card, test, flows, complete, resume, callbacks>>,
           chain' \in [Providers -> Seq(Begins)],
           begin' \in [Begins -> BeginRecord],
           \A x \in Begins : x # b => begin'[x] = begin[x],
           TurnsAreKept',
           begin'[b].stage \in Starting =>
               \A f \in flows : begin[f].provider # begin'[b].provider,
           session' \in [Begins -> {"none", "up", "closed"}],
           \A x \in Begins : x # b => session'[x] = session[x],
           session'[b] = "up" <=> begin'[b].stage \in Starting
    PROVE  ConnectionInv'
<1>1. b \notin flows /\ callbacks[b] = 0 /\ \A c \in Completions : ~Takes(c, b)
  BY OwnsAlone
<1>2. TypeInv' /\ Connections!CardTellsRevision'
  BY DEF ConnectionInv, TypeInv, Connections!CardTellsRevision
<1>3. \A f \in flows : f \in Begins /\ begin'[f] = begin[f]
  BY <1>1 DEF ConnectionInv, TypeInv
<1>4. OnePending'
  <2>1. ASSUME NEW x \in Begins, NEW f \in flows, begin'[x].stage \in Starting
        PROVE  begin'[f].provider # begin'[x].provider
    BY <1>3, <2>1 DEF ConnectionInv, OnePending
  <2>2. \A f, g \in flows : begin'[f].provider = begin'[g].provider => f = g
    BY <1>3 DEF ConnectionInv, OnePending
  <2> QED
    BY <2>1, <2>2 DEF OnePending
<1>5. FlowsAreNew'
  BY <1>1, <1>3 DEF ConnectionInv, FlowsAreNew, Answers
<1>6. TakenOnce'
  BY <1>1 DEF ConnectionInv, TakenOnce, Takes
<1>7. LiveIsOwned'
  BY <1>1 DEF ConnectionInv, LiveIsOwned, Takes
<1>8. Authority'
  BY BeginsGoOn
<1> QED
  BY <1>2, <1>4, <1>5, <1>6, <1>7, <1>8 DEF ConnectionInv

(* A begin at the head of the queue reads the claimable revision.          *)
LEMMA ResolveRevisionKeeps ==
    ASSUME ConnectionInv, NEW b \in Begins, Connections!ResolveRevision(b)
    PROVE  ConnectionInv'
<1>1. /\ begin[b].stage = "queued" /\ Connections!HasTurn(b) /\ session[b] # "up"
      /\ UNCHANGED <<card, test, session, flows, complete, resume, callbacks>>
  BY OwnsAlone DEF Connections!ResolveRevision, Starting
<1>2. session \in [Begins -> {"none", "up", "closed"}]
  BY DEF ConnectionInv, TypeInv
<1>3. CASE Connections!Release(b)
  BY <1>1, <1>2, <1>3, ReleaseKeepsTurns, BeginKeeps DEF Starting
<1>4. CASE ~Connections!Release(b)
  <2>1. /\ Connections!claimRevision # Connections!Revoked /\ UNCHANGED chain
        /\ begin' = [begin EXCEPT ![b] =
                       [stage |-> "resolved", provider |-> begin[b].provider,
                        revision |-> Connections!claimRevision]]
    BY <1>4 DEF Connections!ResolveRevision
  <2>2. Connections!claimRevision \in Nat
    BY DEF ConnectionInv, TypeInv, Connections!claimRevision, Connections!Revoked
  <2>3. /\ begin' \in [Begins -> BeginRecord]
        /\ \A x \in Begins : x # b => begin'[x] = begin[x]
        /\ begin'[b].stage = "resolved" /\ begin'[b].provider = begin[b].provider
        /\ begin'[b].revision = Connections!claimRevision
    BY <2>1, <2>2 DEF ConnectionInv, TypeInv, BeginRecord, Acting
  <2>4. TurnsAreKept'
    BY <1>1, <2>1, <2>3 DEF ConnectionInv, TurnsAreKept, Stands, Connections!HasTurn,
         Connections!Revoked
  <2>5. chain' \in [Providers -> Seq(Begins)]
    BY <2>1 DEF ConnectionInv, TypeInv
  <2> QED
    BY <1>1, <1>2, <2>3, <2>4, <2>5, BeginKeeps DEF Starting
<1> QED
  BY <1>3, <1>4

(* A begin finds a flow of its provider, or starts a session.              *)
LEMMA ClassifyExistingKeeps ==
    ASSUME ConnectionInv, NEW b \in Begins, Connections!ClassifyExisting(b)
    PROVE  ConnectionInv'
<1>1. /\ begin[b].stage = "resolved" /\ session[b] # "up"
      /\ UNCHANGED <<card, test, flows, complete, resume, callbacks>>
  BY OwnsAlone DEF Connections!ClassifyExisting, Starting
<1>2. Connections!HasTurn(b) /\ session \in [Begins -> {"none", "up", "closed"}]
  BY <1>1 DEF ConnectionInv, TypeInv, TurnsAreKept, Acting
<1>3. CASE Connections!Release(b) /\ UNCHANGED session
  BY <1>1, <1>2, <1>3, ReleaseKeepsTurns, BeginKeeps DEF Starting, Acting
<1>4. CASE Connections!FlowsOf(begin[b].provider) = {}
  <2>1. /\ UNCHANGED chain /\ begin' = [begin EXCEPT ![b].stage = "starting"]
        /\ session' = [session EXCEPT ![b] = "up"]
    BY <1>4 DEF Connections!ClassifyExisting
  <2>2. /\ begin' \in [Begins -> BeginRecord] /\ begin'[b].stage = "starting"
        /\ \A x \in Begins : x # b => begin'[x] = begin[x]
        /\ begin'[b].provider = begin[b].provider /\ begin'[b].revision = begin[b].revision
    BY <2>1, StageMoves DEF ConnectionInv, TypeInv, Acting, Starting
  <2>3. TurnsAreKept'
    BY <1>1, <2>1, <2>2 DEF ConnectionInv, TurnsAreKept, Stands, Connections!HasTurn, Acting
  <2>4. chain' \in [Providers -> Seq(Begins)]
    BY <2>1 DEF ConnectionInv, TypeInv
  <2>5. /\ session' \in [Begins -> {"none", "up", "closed"}] /\ session'[b] = "up"
        /\ \A x \in Begins : x # b => session'[x] = session[x]
    BY <1>2, <2>1
  <2>6. \A f \in flows : begin[f].provider # begin[b].provider
    BY <1>4 DEF Connections!FlowsOf
  <2> QED
    BY <1>1, <2>2, <2>3, <2>4, <2>5, <2>6, BeginKeeps DEF Starting
<1> QED
  BY <1>3, <1>4 DEF Connections!ClassifyExisting

(* The server of a session is ready.                                       *)
LEMMA AuthorizeKeeps ==
    ASSUME ConnectionInv, NEW b \in Begins, Connections!Authorize(b)
    PROVE  ConnectionInv'
<1>1. /\ begin[b].stage = "starting" /\ session[b] = "up"
      /\ begin' = [begin EXCEPT ![b].stage = "authorizing"]
      /\ UNCHANGED <<card, test, chain, session, flows, complete, resume, callbacks>>
  BY OwnsAlone DEF Connections!Authorize, Starting
<1>2. /\ begin' \in [Begins -> BeginRecord] /\ begin'[b].stage = "authorizing"
      /\ \A x \in Begins : x # b => begin'[x] = begin[x]
      /\ begin'[b].provider = begin[b].provider /\ begin'[b].revision = begin[b].revision
  BY <1>1, StageMoves DEF ConnectionInv, TypeInv, Acting, Starting
<1>3. TurnsAreKept'
  BY <1>1, <1>2 DEF ConnectionInv, TurnsAreKept, Stands, Connections!HasTurn, Acting, Starting
<1>4. /\ chain' \in [Providers -> Seq(Begins)]
      /\ session' \in [Begins -> {"none", "up", "closed"}]
  BY <1>1 DEF ConnectionInv, TypeInv
<1>5. \A f \in flows : begin[f].provider # begin[b].provider
  BY <1>1 DEF ConnectionInv, OnePending, Starting
<1> QED
  BY <1>1, <1>2, <1>3, <1>4, <1>5, BeginKeeps DEF Starting

(* The begin fails, or its authorization finds another.                    *)
LEMMA ClosesItsOwnKeeps ==
    ASSUME ConnectionInv, NEW b \in Begins, begin[b].stage \in Starting, Connections!Release(b),
           session' = [session EXCEPT ![b] = "closed"],
           UNCHANGED <<card, test, flows, complete, resume, callbacks>>
    PROVE  ConnectionInv'
<1>1. Connections!HasTurn(b) /\ begin[b].stage \in Acting
  BY DEF ConnectionInv, TurnsAreKept, Acting
<1>2. /\ session' \in [Begins -> {"none", "up", "closed"}] /\ session'[b] = "closed"
      /\ \A x \in Begins : x # b => session'[x] = session[x]
  BY DEF ConnectionInv, TypeInv
<1> QED
  BY <1>1, <1>2, ReleaseKeepsTurns, BeginKeeps DEF Starting

(* The flow that is registered takes the session of its begin over.        *)
LEMMA RegisterKeeps ==
    ASSUME ConnectionInv, NEW b \in Begins, Connections!Register(b)
    PROVE  ConnectionInv'
<1>1. /\ begin[b].stage = "authorizing" /\ Connections!Release(b)
      /\ UNCHANGED <<card, test, complete, resume, callbacks>>
  BY DEF Connections!Register
<1>2. CASE session' = [session EXCEPT ![b] = "closed"] /\ UNCHANGED flows
  BY <1>1, <1>2, ClosesItsOwnKeeps DEF Starting
<1>3. CASE /\ flows' = flows \cup {b} /\ UNCHANGED session
           /\ Connections!FlowsOf(begin[b].provider) = {}
  <2>1. Connections!HasTurn(b) /\ begin[b].revision # 0
    BY <1>1 DEF ConnectionInv, TurnsAreKept, Acting, Starting
  <2>2. /\ chain' \in [Providers -> Seq(Begins)] /\ begin' \in [Begins -> BeginRecord]
        /\ \A x \in Begins : x # b => begin'[x] = begin[x]
        /\ begin'[b].stage = "done" /\ begin'[b].provider = begin[b].provider
        /\ begin'[b].revision = begin[b].revision
        /\ TurnsAreKept'
    BY <1>1, <2>1, ReleaseKeepsTurns DEF Acting, Starting
  <2>3. /\ b \notin flows /\ callbacks[b] = 0 /\ session[b] = "up"
        /\ \A c \in Completions : ~Takes(c, b)
    BY <1>1, OwnsAlone DEF Starting
  <2>4. \A f \in flows : f \in Begins /\ f # b /\ begin'[f] = begin[f]
                         /\ begin[f].provider # begin[b].provider
    BY <1>3, <2>2, <2>3 DEF Connections!FlowsOf, ConnectionInv, TypeInv
  <2>5. ASSUME NEW x \in Begins, x # b, begin[x].stage \in Starting
        PROVE  begin[x].provider # begin[b].provider
    <3>1. Connections!HasTurn(x)
      BY <2>5 DEF ConnectionInv, TurnsAreKept, Acting
    <3> QED
      BY <2>1, <2>5, <3>1 DEF Connections!HasTurn
  <2>6. TypeInv' /\ Connections!CardTellsRevision'
    BY <1>1, <1>3, <2>2 DEF ConnectionInv, TypeInv, Connections!CardTellsRevision
  <2>7. OnePending'
    BY <1>3, <2>2, <2>4, <2>5 DEF ConnectionInv, OnePending, Starting
  <2>8. FlowsAreNew'
    BY <1>1, <1>3, <2>1, <2>2, <2>3, <2>4 DEF ConnectionInv, FlowsAreNew, Answers
  <2>9. TakenOnce'
    BY <1>1, <1>3, <2>2, <2>3 DEF ConnectionInv, TakenOnce, Takes
  <2>10. LiveIsOwned'
    BY <1>1, <1>3, <2>2, <2>3 DEF ConnectionInv, LiveIsOwned, Takes
  <2>11. Authority'
    BY <1>1, <2>2, BeginsGoOn
  <2> QED
    BY <2>2, <2>6, <2>7, <2>8, <2>9, <2>10, <2>11 DEF ConnectionInv
<1> QED
  BY <1>2, <1>3 DEF Connections!Register
-----------------------------------------------------------------------------
(* What claimRevision answers is so now, and was not so before.            *)
LEMMA ClaimTells ==
    ASSUME ConnectionInv
    PROVE  /\ Connections!claimRevision \in Nat
           /\ Connections!claimRevision <= card.revision
           /\ Connections!claimRevision = Connections!Revoked => card.revoked
           /\ \A since \in Nat :
                  /\ since <= card.revision
                  /\ since = Connections!Revoked => card.revoked
                  /\ Connections!claimRevision # Connections!Revoked
                  => since # Connections!Revoked /\ since <= Connections!claimRevision
  BY DEF ConnectionInv, TypeInv, Connections!claimRevision, Connections!Revoked

(* A request that only reads.                                              *)
LEMMA CompletionReads ==
    ASSUME ConnectionInv, NEW c \in Completions, NEW r \in CompleteRecord,
           complete[c].stage \notin Took, r.stage \in {"reading", "read"},
           complete' = [complete EXCEPT ![c] = r],
           Tells(r.stage, r.seen, r.since), r.flow \in Begins, Answers(r.flow),
           UNCHANGED <<card, test, chain, begin, session, flows, resume, callbacks>>
    PROVE  ConnectionInv'
<1>1. /\ complete' \in [Completions -> CompleteRecord] /\ complete'[c] = r
      /\ \A d \in Completions : d # c => complete'[d] = complete[d]
  BY DEF ConnectionInv, TypeInv
<1>2. TypeInv' /\ Connections!CardTellsRevision'
  BY <1>1 DEF ConnectionInv, TypeInv, Connections!CardTellsRevision
<1>7. TurnsAreKept' /\ OnePending' /\ FlowsAreNew'
  BY DEF ConnectionInv, TurnsAreKept, Stands, Connections!HasTurn, OnePending, FlowsAreNew, Answers
<1>3. \A d \in Completions, f \in Begins :
          /\ Takes(d, f)' <=> Takes(d, f)
          /\ Takes(d, f) => complete'[d] = complete[d]
  BY <1>1 DEF Takes, Took
<1>4. TakenOnce'
  BY <1>3 DEF ConnectionInv, TakenOnce
<1>5. LiveIsOwned'
  BY <1>3 DEF ConnectionInv, LiveIsOwned
<1>6. Authority'
  BY <1>1 DEF ConnectionInv, Authority, Tells, Answers, Connections!InForceSince, Took
<1> QED
  BY <1>2, <1>4, <1>5, <1>6, <1>7 DEF ConnectionInv

(* A completion arrives and has seen nothing yet.                          *)
LEMMA CompleteAuthFlowKeeps ==
    ASSUME ConnectionInv, NEW c \in Completions, NEW f \in Begins,
           Connections!CompleteAuthFlow(c, f)
    PROVE  ConnectionInv'
<1>1. PICK r : r = [stage |-> "reading", flow |-> f, seen |-> 0,
                    since |-> Connections!claimRevision]
  OBVIOUS
<1>2. r \in CompleteRecord /\ Tells(r.stage, r.seen, r.since)
  BY <1>1, ClaimTells DEF CompleteRecord, Tells
<1>3. Answers(f)
  BY DEF Connections!CompleteAuthFlow, ConnectionInv, FlowsAreNew
<1>4. complete[c].stage \notin Took /\ complete' = [complete EXCEPT ![c] = r]
  BY <1>1 DEF Connections!CompleteAuthFlow, Took
<1>5. UNCHANGED <<card, test, chain, begin, session, flows, resume, callbacks>>
  BY DEF Connections!CompleteAuthFlow
<1> QED
  BY <1>1, <1>2, <1>3, <1>4, <1>5, CompletionReads

(* A completion reads the revision again.                                  *)
LEMMA ReadAuthorityKeeps ==
    ASSUME ConnectionInv, NEW c \in Completions, Connections!ReadAuthority(c)
    PROVE  ConnectionInv'
<1>1. complete[c] \in CompleteRecord /\ complete[c].stage = "reading"
  BY DEF ConnectionInv, TypeInv, Connections!ReadAuthority
<1>2. PICK r : r = [stage |-> "read", flow |-> complete[c].flow, seen |-> Connections!claimRevision,
                    since |-> complete[c].since]
  OBVIOUS
<1>3. complete' = [complete EXCEPT ![c] = r]
  <2>1. complete \in [Completions -> CompleteRecord]
    BY DEF ConnectionInv, TypeInv
  <2>2. complete' = [complete EXCEPT ![c].stage = "read", ![c].seen = Connections!claimRevision]
    BY DEF Connections!ReadAuthority
  <2>3. PICK g : g = [complete EXCEPT ![c] = [complete[c] EXCEPT !.stage = "read"]]
    OBVIOUS
  <2>4. complete' = [g EXCEPT ![c] = [g[c] EXCEPT !.seen = Connections!claimRevision]]
    BY <2>2, <2>3
  <2>5. g[c] = [stage |-> "read", flow |-> complete[c].flow, seen |-> complete[c].seen,
                since |-> complete[c].since]
    BY <2>1, <2>3 DEF CompleteRecord
  <2>6. [g[c] EXCEPT !.seen = Connections!claimRevision] = r
    BY <1>2, <2>5
  <2> QED
    BY <2>1, <2>3, <2>4, <2>6
<1>4. r \in CompleteRecord /\ r.flow \in Begins /\ Answers(r.flow)
  BY <1>1, <1>2, ClaimTells DEF CompleteRecord, ConnectionInv, Authority
<1>5. /\ complete[c].since <= card.revision
      /\ complete[c].since = Connections!Revoked => card.revoked
  BY <1>1 DEF ConnectionInv, Authority, Tells
<1>6. Tells(r.stage, r.seen, r.since)
  BY <1>1, <1>2, <1>5, ClaimTells DEF CompleteRecord, Tells
<1>7. UNCHANGED <<card, test, chain, begin, session, flows, resume, callbacks>>
  BY DEF Connections!ReadAuthority
<1> QED
  BY <1>1, <1>2, <1>3, <1>4, <1>6, <1>7, CompletionReads DEF Took
-----------------------------------------------------------------------------
(* A completion moves on; the other requests see what they saw.            *)
LEMMA CompletionMoves ==
    ASSUME ConnectionInv, NEW c \in Completions, NEW r \in CompleteRecord,
           complete' = [complete EXCEPT ![c] = r], r.stage \notin {"reading", "read"},
           r.stage \in Took => r.flow \in Begins,
           r.stage = "calling" => Connections!InForceSince(r.flow, r.since),
           UNCHANGED <<card, test, chain, begin, resume>>
    PROVE  /\ complete' \in [Completions -> CompleteRecord] /\ complete'[c] = r
           /\ \A d \in Completions : d # c => complete'[d] = complete[d]
           /\ Connections!CardTellsRevision' /\ TurnsAreKept' /\ Authority'
<1>1. /\ complete' \in [Completions -> CompleteRecord] /\ complete'[c] = r
      /\ \A d \in Completions : d # c => complete'[d] = complete[d]
  BY DEF ConnectionInv, TypeInv
<1>2. Connections!CardTellsRevision' /\ TurnsAreKept'
  BY DEF ConnectionInv, Connections!CardTellsRevision, TurnsAreKept, Stands, Connections!HasTurn
<1>3. Authority'
  BY <1>1 DEF ConnectionInv, Authority, Tells, Answers, Connections!InForceSince
<1> QED
  BY <1>1, <1>2, <1>3

(* A completion that answered holds nothing.                               *)
LEMMA AnsweredRecord ==
    Connections!Answered \in CompleteRecord /\ Connections!Answered.stage = "done"
  BY DEF Connections!Answered, Connections!Unasked, CompleteRecord

(* A completion that finds the authority gone ends the flow; another takes *)
(* the flow, if it is still there, and the session with it.                *)
LEMMA TakeFlowKeeps ==
    ASSUME ConnectionInv, NEW c \in Completions, Connections!TakeFlow(c)
    PROVE  ConnectionInv'
<1> DEFINE f == complete[c].flow
<1>1. /\ complete[c].stage = "read"
      /\ UNCHANGED <<card, test, chain, begin, resume, callbacks>>
  BY DEF Connections!TakeFlow
<1>2. complete \in [Completions -> CompleteRecord] /\ complete[c] \in CompleteRecord
  BY DEF ConnectionInv, TypeInv
<1>3. f \in Begins /\ Answers(f)
  BY <1>1 DEF ConnectionInv, Authority
<1>4. CASE complete' = [complete EXCEPT ![c] = Connections!Answered]
           /\ (Connections!Drop({f}) \/ Connections!Drop({}))
  <2>1. /\ complete' \in [Completions -> CompleteRecord] /\ complete'[c] = Connections!Answered
        /\ \A d \in Completions : d # c => complete'[d] = complete[d]
        /\ Connections!CardTellsRevision' /\ TurnsAreKept' /\ Authority'
    BY <1>1, <1>4, AnsweredRecord, CompletionMoves DEF Took
  <2>2. \A d \in Completions, x \in Begins :
            /\ Takes(d, x)' <=> Takes(d, x)
            /\ Takes(d, x)' /\ complete'[d].stage = "calling" => complete[d].stage = "calling"
    BY <1>1, <2>1, AnsweredRecord DEF Takes, Took
  <2>3. /\ flows' \subseteq Begins /\ session' \in [Begins -> {"none", "up", "closed"}]
        /\ OnePending' /\ FlowsAreNew' /\ TakenOnce' /\ LiveIsOwned'
    BY <1>1, <1>4, <2>2, FlowsEnd
  <2>4. TypeInv'
    BY <1>1, <2>1, <2>3 DEF ConnectionInv, TypeInv
  <2> QED
    BY <2>1, <2>3, <2>4 DEF ConnectionInv
<1>5. CASE /\ f \in flows /\ flows' = flows \ {f} /\ UNCHANGED session
           /\ complete[c].seen = begin[f].revision
           /\ complete' = [complete EXCEPT ![c].stage = "calling"]
  <2>1. PICK r : r = [stage |-> "calling", flow |-> f, seen |-> complete[c].seen,
                      since |-> complete[c].since]
    OBVIOUS
  <2>2. r \in CompleteRecord
    BY <1>2, <2>1 DEF CompleteRecord, Took
  <2>3. complete' = [complete EXCEPT ![c] = r]
    <3>1. [complete[c] EXCEPT !.stage = "calling"] = r
      BY <1>2, <2>1 DEF CompleteRecord
    <3> QED
      BY <1>5, <3>1
  <2>4. Connections!InForceSince(f, complete[c].since)
    <3>1. begin[f].revision # 0 /\ begin[f].revision \in Nat
      BY <1>3 DEF Answers, ConnectionInv, TypeInv, BeginRecord
    <3> QED
      BY <1>1, <1>2, <1>5, <3>1 DEF ConnectionInv, Authority, Tells, Connections!InForceSince,
           Connections!Revoked,
                                    CompleteRecord
  <2>5. /\ complete' \in [Completions -> CompleteRecord] /\ complete'[c] = r
        /\ \A d \in Completions : d # c => complete'[d] = complete[d]
        /\ Connections!CardTellsRevision' /\ TurnsAreKept' /\ Authority'
    BY <1>1, <1>3, <2>1, <2>2, <2>3, <2>4, CompletionMoves
  <2>6. \A d \in Completions, x \in Begins :
            Takes(d, x)' <=> Takes(d, x) \/ (d = c /\ x = f)
    BY <1>1, <2>1, <2>5 DEF Takes, Took
  <2>7. callbacks[f] = 0 /\ \A d \in Completions : ~Takes(d, f)
    BY <1>3, <1>5 DEF ConnectionInv, FlowsAreNew, TakenOnce
  <2>8. TypeInv'
    BY <1>1, <1>5, <2>5 DEF ConnectionInv, TypeInv
  <2>9. OnePending' /\ FlowsAreNew'
    BY <1>1, <1>5 DEF ConnectionInv, OnePending, FlowsAreNew, Answers
  <2>10. TakenOnce'
    <3>1. ASSUME NEW d \in Completions, NEW x \in Begins, Takes(d, x)'
          PROVE  /\ x \notin flows' /\ begin'[x].stage = "done"
                 /\ complete'[d].stage = "calling" => callbacks'[x] = 0
      BY <1>1, <1>3, <1>5, <2>5, <2>6, <2>7, <3>1 DEF ConnectionInv, TakenOnce, Answers, Takes
    <3>2. \A d, e \in Completions, x \in Begins : Takes(d, x)' /\ Takes(e, x)' => d = e
      BY <2>6, <2>7 DEF ConnectionInv, TakenOnce
    <3> QED
      BY <3>1, <3>2 DEF TakenOnce
  <2>11. LiveIsOwned'
    BY <1>1, <1>3, <1>5, <2>6 DEF ConnectionInv, LiveIsOwned
  <2> QED
    BY <2>5, <2>8, <2>9, <2>10, <2>11 DEF ConnectionInv
<1>6. CASE f \notin flows
  <2>1. CASE complete[c].seen # begin[f].revision
    BY <1>4, <2>1 DEF Connections!TakeFlow
  <2>2. CASE complete[c].seen = begin[f].revision
    <3>1. complete' = [complete EXCEPT ![c] = Connections!Answered]
      BY <1>6, <2>2 DEF Connections!TakeFlow
    <3>2. flows' = flows /\ session' = session
      BY <1>6, <2>2 DEF Connections!TakeFlow
    <3>3. Connections!Drop({})
      BY <3>2 DEF Connections!Drop, ConnectionInv, TypeInv
    <3> QED
      BY <1>4, <3>1, <3>3
  <2> QED
    BY <2>1, <2>2
<1>7. CASE f \in flows
  <2>1. CASE complete[c].seen # begin[f].revision
    BY <1>4, <2>1 DEF Connections!TakeFlow
  <2>2. CASE complete[c].seen = begin[f].revision
    BY <1>5, <1>7, <2>2 DEF Connections!TakeFlow
  <2> QED
    BY <2>1, <2>2
<1> QED
  BY <1>6, <1>7

(* The callback is asked by the completion that took the flow.             *)
LEMMA CallbackKeeps ==
    ASSUME ConnectionInv, NEW c \in Completions, Connections!Callback(c)
    PROVE  ConnectionInv'
<1> DEFINE f == complete[c].flow
<1>1. /\ complete[c].stage = "calling" /\ callbacks' = [callbacks EXCEPT ![f] = @ + 1]
      /\ complete' = [complete EXCEPT ![c].stage = "called"]
      /\ UNCHANGED <<card, test, chain, begin, session, flows, resume>>
  BY DEF Connections!Callback
<1>2. complete \in [Completions -> CompleteRecord] /\ complete[c] \in CompleteRecord
  BY DEF ConnectionInv, TypeInv
<1>3. f \in Begins /\ Takes(c, f)
  BY <1>1 DEF ConnectionInv, Authority, Takes, Took
<1>4. PICK r : r = [stage |-> "called", flow |-> f, seen |-> complete[c].seen,
                    since |-> complete[c].since]
  OBVIOUS
<1>5. r \in CompleteRecord
  BY <1>2, <1>4 DEF CompleteRecord, Took
<1>6. complete' = [complete EXCEPT ![c] = r]
  <2>1. [complete[c] EXCEPT !.stage = "called"] = r
    BY <1>2, <1>4 DEF CompleteRecord
  <2> QED
    BY <1>1, <2>1
<1>7. /\ complete' \in [Completions -> CompleteRecord] /\ complete'[c] = r
      /\ \A d \in Completions : d # c => complete'[d] = complete[d]
      /\ Connections!CardTellsRevision' /\ TurnsAreKept' /\ Authority'
  BY <1>1, <1>3, <1>4, <1>5, <1>6, CompletionMoves
<1>8. \A d \in Completions, x \in Begins : Takes(d, x)' <=> Takes(d, x)
  BY ZenonT(60), <1>1, <1>4, <1>7 DEF Takes, Took
<1>9. /\ callbacks' \in [Begins -> Nat]
      /\ \A x \in Begins : x # f => callbacks'[x] = callbacks[x]
  BY <1>1, <1>3 DEF ConnectionInv, TypeInv
<1>10. f \notin flows /\ begin[f].stage = "done"
  BY <1>3 DEF ConnectionInv, TakenOnce
<1>11. TypeInv'
  BY <1>1, <1>7, <1>9 DEF ConnectionInv, TypeInv
<1>12. OnePending' /\ LiveIsOwned'
  BY <1>1, <1>8 DEF ConnectionInv, OnePending, LiveIsOwned
<1>13. FlowsAreNew'
  BY <1>1, <1>3, <1>9, <1>10 DEF ConnectionInv, FlowsAreNew, Answers
<1>14. TakenOnce'
  <2>1. ASSUME NEW d \in Completions, NEW x \in Begins, Takes(d, x)'
        PROVE  /\ x \notin flows' /\ begin'[x].stage = "done"
               /\ complete'[d].stage = "calling" => callbacks'[x] = 0
    <3>1. Takes(d, x)
      BY <1>8, <2>1
    <3>2. x \notin flows /\ begin[x].stage = "done"
          /\ (complete[d].stage = "calling" => callbacks[x] = 0)
      BY <3>1 DEF ConnectionInv, TakenOnce
    <3>3. CASE d = c
      BY <1>1, <1>4, <1>7, <3>2, <3>3
    <3>4. CASE d # c
      <4>1. x # f
        BY <1>3, <3>1, <3>4 DEF ConnectionInv, TakenOnce
      <4> QED
        BY <1>1, <1>7, <1>9, <3>2, <3>4, <4>1
    <3> QED
      BY <3>3, <3>4
  <2>2. \A d, e \in Completions, x \in Begins : Takes(d, x)' /\ Takes(e, x)' => d = e
    BY <1>8 DEF ConnectionInv, TakenOnce
  <2> QED
    BY <2>1, <2>2 DEF TakenOnce
<1> QED
  BY <1>7, <1>11, <1>12, <1>13, <1>14 DEF ConnectionInv

(* The session is closed by its owner.                                     *)
LEMMA CompleteEndsKeeps ==
    ASSUME ConnectionInv, NEW c \in Completions, Connections!CompleteEnds(c)
    PROVE  ConnectionInv'
<1>0. PICK f : f = complete[c].flow
  OBVIOUS
<1>1. /\ complete[c].stage = "called" /\ session' = [session EXCEPT ![f] = "closed"]
      /\ complete' = [complete EXCEPT ![c] = Connections!Answered]
      /\ UNCHANGED <<card, test, chain, begin, flows, resume, callbacks>>
  BY <1>0 DEF Connections!CompleteEnds
<1>2. f \in Begins /\ Takes(c, f)
  BY <1>0, <1>1 DEF ConnectionInv, Authority, Takes, Took
<1>3. /\ complete' \in [Completions -> CompleteRecord] /\ complete'[c] = Connections!Answered
      /\ \A d \in Completions : d # c => complete'[d] = complete[d]
      /\ Connections!CardTellsRevision' /\ TurnsAreKept' /\ Authority'
  BY <1>1, AnsweredRecord, CompletionMoves DEF Took
<1>4. /\ session' \in [Begins -> {"none", "up", "closed"}] /\ session'[f] = "closed"
      /\ \A x \in Begins : x # f => session'[x] = session[x]
  BY <1>1, <1>2 DEF ConnectionInv, TypeInv
<1>5. \A d \in Completions, x \in Begins :
          /\ Takes(d, x)' => d # c /\ Takes(d, x) /\ complete'[d] = complete[d]
          /\ d # c /\ Takes(d, x) => Takes(d, x)'
  BY <1>3, AnsweredRecord DEF Takes, Took
<1>6. TypeInv'
  BY <1>1, <1>3, <1>4 DEF ConnectionInv, TypeInv
<1>7. OnePending' /\ FlowsAreNew'
  BY <1>1 DEF ConnectionInv, OnePending, FlowsAreNew, Answers
<1>8. TakenOnce'
  BY <1>1, <1>5 DEF ConnectionInv, TakenOnce
<1>9. f \notin flows /\ begin[f].stage \notin Starting /\ \A d \in Completions : ~Takes(d, f)'
  BY <1>2, <1>5 DEF ConnectionInv, TakenOnce, Starting
<1>10. ASSUME NEW b \in Begins
       PROVE  session'[b] = "up" <=> \/ begin'[b].stage \in Starting
                                     \/ b \in flows'
                                     \/ \E d \in Completions : Takes(d, b)'
  <2>1. CASE b = f
    BY <1>1, <1>4, <1>9, <2>1
  <2>2. CASE b # f
    <3>1. \A d \in Completions : Takes(d, b)' <=> Takes(d, b)
      BY <1>2, <1>5, <2>2 DEF Takes
    <3> QED
      BY <1>1, <1>4, <2>2, <3>1 DEF ConnectionInv, LiveIsOwned
  <2> QED
    BY <2>1, <2>2
<1> QED
  BY <1>3, <1>6, <1>7, <1>8, <1>10 DEF ConnectionInv, LiveIsOwned
-----------------------------------------------------------------------------
(* A page that asks for the flows.                                         *)
LEMMA ResumeMoves ==
    ASSUME ConnectionInv, NEW r \in Resumes, NEW new \in ResumeRecord,
           resume' = [resume EXCEPT ![r] = new],
           Tells(new.stage, new.seen, new.since), \A f \in new.candidates : Answers(f),
           UNCHANGED <<card, begin, complete>>
    PROVE  resume' \in [Resumes -> ResumeRecord] /\ Authority'
<1>1. /\ resume' \in [Resumes -> ResumeRecord] /\ resume'[r] = new
      /\ \A q \in Resumes : q # r => resume'[q] = resume[q]
  BY DEF ConnectionInv, TypeInv
<1>2. Authority'
  BY <1>1 DEF ConnectionInv, Authority, Tells, Answers, Connections!InForceSince
<1> QED
  BY <1>1, <1>2

(* A resume lists the flows that are pending.                              *)
LEMMA ListFlowsKeeps ==
    ASSUME ConnectionInv, NEW r \in Resumes, Connections!ListFlows(r)
    PROVE  ConnectionInv'
<1>1. PICK new : new = [stage |-> "reading", candidates |-> flows, seen |-> 0,
                        since |-> Connections!claimRevision]
  OBVIOUS
<1>2. resume' = [resume EXCEPT ![r] = new]
      /\ UNCHANGED <<card, test, chain, begin, session, flows, complete, callbacks>>
  BY <1>1 DEF Connections!ListFlows
<1>3. new \in ResumeRecord /\ Tells(new.stage, new.seen, new.since)
  BY <1>1, ClaimTells DEF ResumeRecord, Tells, ConnectionInv, TypeInv
<1>4. \A f \in new.candidates : Answers(f)
  BY <1>1 DEF ConnectionInv, FlowsAreNew
<1>5. resume' \in [Resumes -> ResumeRecord] /\ Authority'
  BY <1>2, <1>3, <1>4, ResumeMoves
<1>6. TypeInv' /\ Connections!CardTellsRevision' /\ TurnsAreKept'
  BY <1>2, <1>5 DEF ConnectionInv, TypeInv, Connections!CardTellsRevision, TurnsAreKept, Stands,
       Connections!HasTurn
<1>7. OnePending' /\ FlowsAreNew' /\ TakenOnce' /\ LiveIsOwned'
  BY <1>2 DEF ConnectionInv, OnePending, FlowsAreNew, Answers, TakenOnce, LiveIsOwned, Takes
<1> QED
  BY <1>5, <1>6, <1>7 DEF ConnectionInv

(* A resume reads the active revision.                                     *)
LEMMA ReadForResumeKeeps ==
    ASSUME ConnectionInv, NEW r \in Resumes, Connections!ReadForResume(r)
    PROVE  ConnectionInv'
<1>1. resume \in [Resumes -> ResumeRecord] /\ resume[r].stage = "reading"
  BY DEF ConnectionInv, TypeInv, Connections!ReadForResume
<1>2. PICK new : new = [stage |-> "read", candidates |-> resume[r].candidates,
                        seen |-> Connections!claimRevision, since |-> resume[r].since]
  OBVIOUS
<1>3. resume' = [resume EXCEPT ![r] = new]
  <2>1. resume' = [resume EXCEPT ![r].stage = "read", ![r].seen = Connections!claimRevision]
    BY DEF Connections!ReadForResume
  <2>2. PICK g : g = [resume EXCEPT ![r] = [resume[r] EXCEPT !.stage = "read"]]
    OBVIOUS
  <2>3. resume' = [g EXCEPT ![r] = [g[r] EXCEPT !.seen = Connections!claimRevision]]
    BY <2>1, <2>2
  <2>4. g[r] = [stage |-> "read", candidates |-> resume[r].candidates, seen |-> resume[r].seen,
                since |-> resume[r].since]
    BY <1>1, <2>2 DEF ResumeRecord
  <2>5. [g[r] EXCEPT !.seen = Connections!claimRevision] = new
    BY <1>2, <2>4
  <2> QED
    BY <1>1, <2>2, <2>3, <2>5
<1>4. UNCHANGED <<card, test, chain, begin, session, flows, complete, callbacks>>
  BY DEF Connections!ReadForResume
<1>5. new \in ResumeRecord
  BY <1>1, <1>2, ClaimTells DEF ResumeRecord
<1>6. resume[r].since <= card.revision /\ (resume[r].since = Connections!Revoked => card.revoked)
  BY <1>1 DEF ConnectionInv, Authority, Tells
<1>7. Tells(new.stage, new.seen, new.since)
  BY <1>1, <1>2, <1>6, ClaimTells DEF ResumeRecord, Tells
<1>8. \A f \in new.candidates : Answers(f)
  BY <1>1, <1>2 DEF ConnectionInv, Authority
<1>9. resume' \in [Resumes -> ResumeRecord] /\ Authority'
  BY <1>3, <1>4, <1>5, <1>7, <1>8, ResumeMoves
<1>10. TypeInv' /\ Connections!CardTellsRevision' /\ TurnsAreKept'
  BY <1>4, <1>9 DEF ConnectionInv, TypeInv, Connections!CardTellsRevision, TurnsAreKept, Stands,
       Connections!HasTurn
<1>11. OnePending' /\ FlowsAreNew' /\ TakenOnce' /\ LiveIsOwned'
  BY <1>4 DEF ConnectionInv, OnePending, FlowsAreNew, Answers, TakenOnce, LiveIsOwned, Takes
<1> QED
  BY <1>9, <1>10, <1>11 DEF ConnectionInv

(* A resume answers and ends the flows whose revision is gone.             *)
LEMMA AnswerResumeKeeps ==
    ASSUME ConnectionInv, NEW r \in Resumes, Connections!AnswerResume(r)
    PROVE  ConnectionInv'
<1>1. PICK new : new = [stage |-> "done", candidates |-> {}, seen |-> 0, since |-> 0]
  OBVIOUS
<1>2. /\ resume' = [resume EXCEPT ![r] = new]
      /\ UNCHANGED <<card, test, chain, begin, complete, callbacks>>
      /\ Connections!Drop(resume[r].candidates \ Connections!Shown(r))
  <2>1. [Connections!Unlisted EXCEPT !.stage = "done"] = new
    BY <1>1 DEF Connections!Unlisted
  <2> QED
    BY <2>1 DEF Connections!AnswerResume
<1>3. /\ new \in ResumeRecord /\ Tells(new.stage, new.seen, new.since)
      /\ \A f \in new.candidates : Answers(f)
  BY <1>1 DEF ResumeRecord, Tells
<1>4. resume' \in [Resumes -> ResumeRecord] /\ Authority'
  BY <1>2, <1>3, ResumeMoves
<1>5. /\ flows' \subseteq Begins /\ session' \in [Begins -> {"none", "up", "closed"}]
      /\ OnePending' /\ FlowsAreNew' /\ TakenOnce' /\ LiveIsOwned'
  BY <1>2, FlowsEnd DEF Takes
<1>6. TypeInv' /\ Connections!CardTellsRevision' /\ TurnsAreKept'
  BY <1>2, <1>4, <1>5 DEF ConnectionInv, TypeInv, Connections!CardTellsRevision, TurnsAreKept,
       Stands,
                          Connections!HasTurn
<1> QED
  BY <1>4, <1>5, <1>6 DEF ConnectionInv
-----------------------------------------------------------------------------
(* Every step, for any number of requests in any order.                    *)
LEMMA ConnectionStep == ConnectionInv /\ [Connections!Next]_(Connections!vars) => ConnectionInv'
<1> SUFFICES ASSUME ConnectionInv, [Connections!Next]_(Connections!vars) PROVE ConnectionInv'
  OBVIOUS
<1>1. ASSUME \/ Connections!ReviseConnection \/ Connections!RevokeConnection
             \/ Connections!TestConnection \/ Connections!ReadTestStatus \/ Connections!PersistTest
      PROVE  ConnectionInv'
  BY <1>1, CardKeeps
<1>2. ASSUME NEW b \in Begins, NEW p \in Providers, Connections!BeginAuthFlow(b, p)
      PROVE  ConnectionInv'
  BY <1>2, BeginAuthFlowKeeps
<1>3. ASSUME NEW b \in Begins,
             \/ Connections!ResolveRevision(b) \/ Connections!ClassifyExisting(b)
             \/ Connections!Authorize(b) \/ Connections!Register(b)
      PROVE  ConnectionInv'
  BY <1>3, ResolveRevisionKeeps, ClassifyExistingKeeps, AuthorizeKeeps, RegisterKeeps
<1>4. ASSUME NEW b \in Begins, Connections!BeginFails(b) PROVE ConnectionInv'
  BY <1>4, ClosesItsOwnKeeps DEF Connections!BeginFails, Starting
<1>5. ASSUME NEW b \in Begins, Connections!EvictStale(b) \/ Connections!CancelFlow(b)
      PROVE  ConnectionInv'
  BY <1>5, EndsKeep DEF Connections!EvictStale, Connections!CancelFlow
<1>6. ASSUME Connections!CloseAll PROVE ConnectionInv'
  BY <1>6, EndsKeep DEF Connections!CloseAll
<1>7. ASSUME NEW c \in Completions, NEW f \in Begins, Connections!CompleteAuthFlow(c, f)
      PROVE  ConnectionInv'
  BY <1>7, CompleteAuthFlowKeeps
<1>8. ASSUME NEW c \in Completions,
             \/ Connections!ReadAuthority(c) \/ Connections!TakeFlow(c)
             \/ Connections!Callback(c) \/ Connections!CompleteEnds(c)
      PROVE  ConnectionInv'
  BY <1>8, ReadAuthorityKeeps, TakeFlowKeeps, CallbackKeeps, CompleteEndsKeeps
<1>9. ASSUME NEW r \in Resumes,
             Connections!ListFlows(r) \/ Connections!ReadForResume(r) \/ Connections!AnswerResume(r)
      PROVE  ConnectionInv'
  BY <1>9, ListFlowsKeeps, ReadForResumeKeeps, AnswerResumeKeeps
<1>10. ASSUME UNCHANGED Connections!vars PROVE ConnectionInv'
  BY <1>10 DEF Connections!vars, ConnectionInv, TypeInv, Connections!CardTellsRevision,
       TurnsAreKept, Stands, Connections!HasTurn,
               OnePending, FlowsAreNew, Answers, TakenOnce, LiveIsOwned, Takes, Authority,
               Tells, Connections!InForceSince
<1> QED
  BY <1>1, <1>2, <1>3, <1>4, <1>5, <1>6, <1>7, <1>8, <1>9, <1>10 DEF Connections!Next

(* The lock of a provider and what each request has seen are kept by every *)
(* request, probe, revision, cancellation and shutdown.                    *)
THEOREM ConnectionsKeepTurns == Connections!Spec => []ConnectionInv
<1>1. Connections!Init => ConnectionInv
  BY ConnectionStart
<1>2. ConnectionInv /\ [Connections!Next]_(Connections!vars) => ConnectionInv'
  BY ConnectionStep
<1> QED
  BY <1>1, <1>2, PTL DEF Connections!Spec
-----------------------------------------------------------------------------
(* A set none of whose members differ has at most one.                     *)
LEMMA NoTwo ==
    ASSUME NEW S, \A x, y \in S : x = y
    PROVE  Cardinality(S) \in {0, 1} /\ (Cardinality(S) = 0 <=> S = {})
<1>1. CASE S = {}
  BY <1>1, FS_EmptySet
<1>2. CASE S # {}
  <2>1. PICK x : S = {x}
    BY <1>2
  <2> QED
    BY <2>1, FS_Singleton
<1> QED
  BY <1>1, <1>2

(* An instance counts as everyone does.                                    *)
LEMMA ConnectionsCount == \A S : Connections!Cardinality(S) = Cardinality(S)
  BY DEF Connections!Cardinality, Cardinality

(* The owners of a session, by name.                                       *)
LEMMA OneOwner ==
    ASSUME ConnectionInv, NEW b \in Begins, NEW owners,
           owners = {<<"begin", x>> : x \in {b} \cap Connections!InBegin}
                    \cup {<<"flow", x>> : x \in {b} \cap flows}
                    \cup {<<"completion", c>> : c \in Connections!TakenBy(b)}
    PROVE  Cardinality(owners) = IF session[b] = "up" THEN 1 ELSE 0
<1>1. b \in Connections!InBegin <=> begin[b].stage \in Starting
  BY DEF Connections!InBegin, Starting
<1>2. \A c : c \in Connections!TakenBy(b) <=> c \in Completions /\ Takes(c, b)
  BY DEF Connections!TakenBy, Takes, Took
<1>3. session[b] = "up" <=>
          b \in Connections!InBegin \/ b \in flows \/ Connections!TakenBy(b) # {}
  BY <1>1, <1>2 DEF ConnectionInv, LiveIsOwned
<1>4. /\ b \in Connections!InBegin => b \notin flows /\ Connections!TakenBy(b) = {}
      /\ b \in flows => Connections!TakenBy(b) = {}
      /\ \A c, d \in Connections!TakenBy(b) : c = d
  BY <1>1, <1>2 DEF ConnectionInv, FlowsAreNew, Answers, TakenOnce, Starting
<1>5. \A x, y \in owners : x = y
  BY <1>4
<1>6. owners = {} <=> b \notin Connections!InBegin /\ b \notin flows /\ Connections!TakenBy(b) = {}
  OBVIOUS
<1> QED
  BY <1>3, <1>5, <1>6, NoTwo

(* Two pending authorizations of a provider are one.                       *)
LEMMA OnePendingOf ==
    ASSUME ConnectionInv, NEW p \in Providers
    PROVE  Cardinality({b \in Begins : /\ begin[b].provider = p
                                       /\ begin[b].stage = "authorizing" \/ b \in flows}) <= 1
<1> DEFINE Pending(b) == begin[b].stage = "authorizing" \/ b \in flows
           S == {b \in Begins : begin[b].provider = p /\ Pending(b)}
<1>1. ASSUME NEW x \in S, NEW y \in S PROVE x = y
  <2>1. CASE x \in flows /\ y \in flows
    BY <2>1 DEF ConnectionInv, OnePending
  <2>2. CASE begin[x].stage = "authorizing" /\ begin[y].stage = "authorizing"
    <3>1. Connections!HasTurn(x) /\ Connections!HasTurn(y)
      BY <2>2 DEF ConnectionInv, TurnsAreKept, Acting, Starting
    <3> QED
      BY <3>1 DEF Connections!HasTurn
  <2>3. ~(begin[x].stage = "authorizing" /\ y \in flows)
    BY DEF ConnectionInv, OnePending, Starting
  <2>4. ~(begin[y].stage = "authorizing" /\ x \in flows)
    BY DEF ConnectionInv, OnePending, Starting
  <2> QED
    BY <2>1, <2>2, <2>3, <2>4
<1>2. Cardinality(S) \in {0, 1}
  BY <1>1, NoTwo
<1> QED
  BY <1>2

(* However begins, completions, reloads, cancellations and new revisions   *)
(* race, for any number of each: a live session has exactly one owner, a   *)
(* provider has at most one pending authorization, and the evidence on the *)
(* card is of the revision the card shows.                                 *)
THEOREM SessionsHaveOneOwner == Connections!Spec => []ConnectionsAreSound
<1>1. ConnectionInv => ConnectionsAreSound
  <2> SUFFICES ASSUME ConnectionInv PROVE ConnectionsAreSound
    OBVIOUS
  <2>1. Connections!SessionsAreOwned
    BY OneOwner, ConnectionsCount DEF Connections!SessionsAreOwned
  <2>2. Connections!OneAuthorization
    BY OnePendingOf, ConnectionsCount DEF Connections!OneAuthorization
  <2> QED
    BY <2>1, <2>2 DEF ConnectionInv, ConnectionsAreSound, Connections!ConnectionsAreSound
<1>2. Connections!Spec => []ConnectionInv
  BY ConnectionsKeepTurns
<1> QED
  BY <1>1, <1>2, PTL

(* A callback is asked once, by a completion under whose eyes the revision *)
(* of its flow was in force, and a page is shown no flow that was stale    *)
(* when it asked.                                                          *)
THEOREM CallbacksHaveAuthority == Connections!Spec => CallbacksAreAuthorized
<1>1. ASSUME ConnectionInv
      PROVE  /\ \A c \in DOMAIN complete :
                    complete[c].stage = "calling" /\ complete'[c].stage = "called" =>
                        /\ Connections!InForceSince(complete[c].flow, complete[c].since)
                        /\ callbacks[complete[c].flow] = 0
             /\ \A r \in DOMAIN resume :
                    resume[r].stage = "read" /\ resume'[r].stage = "done" =>
                        \A f \in Connections!Shown(r) : Connections!InForceSince(f, resume[r].since)
  <2>1. DOMAIN complete = Completions /\ DOMAIN resume = Resumes
    BY <1>1 DEF ConnectionInv, TypeInv
  <2>2. ASSUME NEW c \in Completions, complete[c].stage = "calling"
        PROVE  /\ Connections!InForceSince(complete[c].flow, complete[c].since)
               /\ callbacks[complete[c].flow] = 0
    BY <1>1, <2>2 DEF ConnectionInv, Authority, TakenOnce, Takes, Took
  <2>3. ASSUME NEW r \in Resumes, resume[r].stage = "read", NEW f \in Connections!Shown(r)
        PROVE  Connections!InForceSince(f, resume[r].since)
    <3>1. f \in resume[r].candidates /\ begin[f].revision = resume[r].seen
      BY DEF Connections!Shown
    <3>2. resume[r].since \in Nat /\ resume[r].seen \in Nat
      BY <1>1 DEF ConnectionInv, TypeInv, ResumeRecord
    <3>3. Answers(f) /\ Tells(resume[r].stage, resume[r].seen, resume[r].since)
      BY <1>1, <2>3, <3>1 DEF ConnectionInv, Authority
    <3> QED
      BY <2>3, <3>1, <3>2, <3>3 DEF Answers, Tells, Connections!Revoked, Connections!InForceSince
  <2> QED
    BY <2>1, <2>2, <2>3
<1>2. Connections!Spec => []ConnectionInv
  BY ConnectionsKeepTurns
<1> QED
  BY <1>1, <1>2, PTL DEF CallbacksAreAuthorized, Connections!CallbacksAreAuthorized
=============================================================================
