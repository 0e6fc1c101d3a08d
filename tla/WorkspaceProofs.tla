---------------------------- MODULE WorkspaceProofs ----------------------------
EXTENDS Workspaces, FiniteSetTheorems, SequenceTheorems, TLAPS
-----------------------------------------------------------------------------
(* The release of a workspace.                                             *)

(* No key is the name of none.                                             *)
ReleaseConstants == NoOp \notin Ops

Places ==
    {"idle", "survey", "recover", "claim", "claimed", "reobserve", "start", "authority", "git",
     "persist", "direct", "caught", "finally", "leave", "observe"}

Results == {"none", "REMOVED", "REFUSED", "unauthorized", "not releasable", "database"}

Callings ==
    [at : Places, op : Ops \cup {NoOp}, drives : Ops \cup {NoOp}, seen : Actions,
     token : Tokens \cup {NoToken}, result : Results]

(* Who is beyond its intent has a key, who is beyond its survey drives an  *)
(* action, and who persists knows what.  Without a claim only a removal is *)
(* persisted.                                                              *)
Sane(row) ==
    /\ row \in Callings
    /\ row.at # "idle" => row.op \in Ops
    /\ row.at \notin {"idle", "survey"} => row.drives \in Ops
    /\ row.at = "claimed" => row.token # NoToken
    /\ row.at = "persist" => row.result \in {"REMOVED", "REFUSED"}
    /\ row.at = "direct" => row.result = "REMOVED"

(* What a reconciliation has read, and is about to write.                  *)
Readings ==
    [at : {"idle", "in use", "ended", "claimed", "listing", "finalize", "action", "write"},
     op : Ops \cup {NoOp},
     verdict : {"none", "REQUESTED", "EXECUTING", "REMOVED", "REFUSED", "TRANSFERRED",
                "INTERRUPTED"}]

(* It writes an outcome, and of an action that it has found.               *)
Read(row) ==
    /\ row \in Readings
    /\ row.at \in {"action", "write"} => row.op \in Ops
    /\ row.at = "finalize" => row.verdict \in {"REMOVED", "REFUSED"}
    /\ row.at = "write" =>
           row.verdict \in {"REMOVED", "REFUSED", "TRANSFERRED", "INTERRUPTED"}

(* Every reconciliation has its type.                                      *)
PassesAreRead == pass \in [Scans -> Readings] /\ \A t \in Scans : Read(pass[t])

(* Every variable but the callers has its type.                            *)
SagaTypes ==
    /\ setting \in Settings
    /\ TypeOK
    /\ crashes \in [Processes -> 0..MaxCrashes]
    /\ PassesAreRead

(* Where no reconciliation runs, none has read anything; where the run has *)
(* ended before, none has found its lease IN_USE.                          *)
PassesFit ==
    /\ ~Passing => \A t \in Scans : pass[t] = NoPass
    /\ Ended => lease.state # "IN_USE"
               /\ \A t \in Scans : pass[t].at \notin {"in use", "ended"}

(* Every caller has its type.                                              *)
CallersAreSane ==
    /\ caller \in [Callers -> Callings]
    /\ \A c \in Callers : Sane(caller[c])

(* The inductive invariant of a release in whatever surroundings.          *)
SagaInv == SagaTypes /\ CallersAreSane /\ LocksFollowTheLease /\ PassesFit

(* Where a caller has claimed its action and not yet settled it.           *)
Holding == {"claimed", "start", "authority", "git", "persist", "caught"}

(* Nothing but the action k and its callers.                               *)
OneAction(k) ==
    /\ \A t \in Scans : pass[t] = NoPass
    /\ lease.op \in {NoOp, k}
    /\ \A o \in Ops \ {k} : action[o].phase = "none"
    /\ action[k].phase \in {"none", "REQUESTED", "EXECUTING", "REMOVED", "REFUSED"}
    /\ lease.state = "REMOVED" => action[k].phase = "REMOVED"

(* The places of callers that drive the action of their own key.           *)
OwnCaller(c, k) ==
    /\ caller[c].at \notin {"recover", "observe", "reobserve", "direct"}
    /\ caller[c].at # "idle" => caller[c].op = k
    /\ caller[c].at \notin {"idle", "survey"} => caller[c].drives = k
    /\ caller[c].at \in {"finally", "leave"} => action[k].phase \in {"REMOVED", "REFUSED"}
    /\ caller[c].at = "caught" => caller[c].result = "not releasable"

(* The claim of a caller is on record and in use, and once it has started  *)
(* the lease is claimed.                                                   *)
Holds(c) ==
    /\ HasClaim(c)
    /\ Active(c, caller[c].token)
    /\ caller[c].at \in {"authority", "git", "persist"} => lease.state = "RELEASE_REQUESTED"

(* Who has seen the token of the claim has seen who claimed.               *)
SeesTheClaim(c, k) ==
    (action[k].phase = "EXECUTING" /\ caller[c].seen.phase = "EXECUTING"
        /\ caller[c].seen.token = action[k].token) => caller[c].seen.pid = action[k].pid

(* The inductive invariant of a release in orderly surroundings: at most   *)
(* one caller holds the action.                                            *)
OneHolder(k) ==
    /\ OneAction(k)
    /\ \A c \in Callers : OwnCaller(c, k) /\ SeesTheClaim(c, k)
    /\ \A c \in Callers : caller[c].at \in Holding => Holds(c)
    /\ \A c, d \in Callers :
           (caller[c].at \in Holding /\ caller[d].at \in Holding) => c = d

(* The setting bounds the types, and stays.                                *)
LEMMA ActionsAreSame ==
  ASSUME setting' = setting
  PROVE  Actions' = Actions /\ MaxCrashes' = MaxCrashes /\ Callings' = Callings
<1>1. MaxCrashes' = MaxCrashes
  BY DEF MaxCrashes
<1>2. Actions' = Actions
  BY <1>1 DEF Actions, Identities
<1> QED BY <1>1, <1>2 DEF Callings

(* A final outcome is a record of an action, and so is none.               *)
LEMMA SettledIsAction ==
  ASSUME NEW result \in {"REMOVED", "REFUSED", "INTERRUPTED", "TRANSFERRED", "IN_PROGRESS",
                         "REQUESTED"}
  PROVE  Settled(result) \in Actions
BY DEF Settled, NoAction, Actions, Identities, Pending, Final, NoToken

(* No action is one that may be seen.                                      *)
LEMMA SeenIsAction ==
  NoAction \in Actions
BY DEF NoAction, Actions, Identities, NoToken

(* An idle caller is sane.                                                 *)
LEMMA IdleIsSane ==
  Sane(Idle) /\ Idle.op = NoOp
BY SeenIsAction DEF Sane, Idle, Callings, Places, Results, NoToken

(* The row of a caller that goes to another place.                         *)
LEMMA GoingIsSane ==
  ASSUME NEW row, Sane(row), row.at \notin {"idle", "survey"},
         NEW place \in Places, place \notin {"persist", "claimed", "direct"}
  PROVE  Sane([row EXCEPT !.at = place])
BY DEF Sane, Callings

(* The row of a caller that goes on with a result.                         *)
LEMMA DecidingIsSane ==
  ASSUME NEW row, Sane(row), row.at \notin {"idle", "survey"},
         NEW place \in Places, place \notin {"claimed", "direct"}, NEW result \in Results,
         place = "persist" => result \in {"REMOVED", "REFUSED"}
  PROVE  Sane([row EXCEPT !.at = place, !.result = result])
BY DEF Sane, Callings

(* What is sane stays sane while nothing but it is written.                *)
LEMMA SaneStays ==
  ASSUME setting' = setting, NEW row, Sane(row)
  PROVE  Sane(row)'
BY ActionsAreSame DEF Sane

(* One caller writes its row.                                              *)
LEMMA RowsStay ==
  ASSUME setting' = setting, CallersAreSane, NEW c \in Callers, NEW row, Sane(row),
         caller' = [caller EXCEPT ![c] = row]
  PROVE  CallersAreSane'
<1>1. caller' \in [Callers -> Callings]
  BY DEF CallersAreSane, Sane
<1>2. \A d \in Callers : Sane(caller'[d])
  BY DEF CallersAreSane
<1>3. Callings' = Callings
  BY ActionsAreSame
<1>4. \A d \in Callers : Sane(caller[d])'
  <2>1. TAKE d \in Callers
  <2>2. PICK next : next = caller'[d]
    OBVIOUS
  <2>3. Sane(next)
    BY <1>2, <2>2
  <2> QED BY <2>2, <2>3, <1>3 DEF Sane
<1> QED BY <1>1, <1>3, <1>4 DEF CallersAreSane

(* What is not a caller's own row.                                         *)
LEMMA TypesStay ==
  ASSUME SagaTypes, setting' = setting,
         lease' \in [state : LeaseStates, op : Ops \cup {NoOp}, failed : BOOLEAN],
         lock' \in Ops \cup {NoOp},
         tree' \in {"absent", "there"},
         action' \in [Ops -> Actions],
         active' \in [Processes -> SUBSET Tokens],
         \A c \in Callers : caller'[c].token \in Tokens \cup {NoToken},
         PassesAreRead',
         crashes' \in [Processes -> 0..MaxCrashes]
  PROVE  SagaTypes'
<1>1. MaxCrashes' = MaxCrashes /\ Actions' = Actions
  BY ActionsAreSame
<1>2. TypeOK'
  BY <1>1 DEF TypeOK
<1> QED BY <1>1, <1>2 DEF SagaTypes

(* Where neither lease nor lock is written.                                *)
LEMMA LocksStay ==
  ASSUME LocksFollowTheLease, PassesFit, UNCHANGED <<setting, lease, lock, pass>>
  PROVE  LocksFollowTheLease' /\ PassesFit'
BY DEF LocksFollowTheLease, PassesFit, Ended, Passing

(* A caller that only moves.                                               *)
LEMMA MovesKeep ==
  ASSUME SagaInv, setting' = setting,
         UNCHANGED <<lease, lock, tree, action, active, pass, crashes>>,
         NEW c \in Callers, NEW row, Sane(row), caller' = [caller EXCEPT ![c] = row]
  PROVE  SagaInv'
<1>1. CallersAreSane'
  BY RowsStay DEF SagaInv
<1>2. \A d \in Callers : caller'[d].token \in Tokens \cup {NoToken}
  BY <1>1 DEF CallersAreSane, Callings
<1>3. SagaTypes'
  BY <1>2, TypesStay DEF SagaInv, SagaTypes, TypeOK, PassesAreRead
<1>4. LocksFollowTheLease' /\ PassesFit'
  BY LocksStay DEF SagaInv
<1> QED BY <1>1, <1>3, <1>4 DEF SagaInv

(* A caller that moves and writes actions.                                 *)
LEMMA WritesKeep ==
  ASSUME SagaInv, setting' = setting,
         UNCHANGED <<lease, lock, tree, active, pass, crashes>>,
         action' \in [Ops -> Actions],
         NEW c \in Callers, NEW row, Sane(row), caller' = [caller EXCEPT ![c] = row]
  PROVE  SagaInv'
<1>1. CallersAreSane'
  BY RowsStay DEF SagaInv
<1>2. \A d \in Callers : caller'[d].token \in Tokens \cup {NoToken}
  BY <1>1 DEF CallersAreSane, Callings
<1>3. SagaTypes'
  BY <1>2, TypesStay DEF SagaInv, SagaTypes, TypeOK, PassesAreRead
<1>4. LocksFollowTheLease' /\ PassesFit'
  BY LocksStay DEF SagaInv
<1> QED BY <1>1, <1>3, <1>4 DEF SagaInv

(* A caller that moves and writes the lease with its lock.                 *)
LEMMA TransactionsKeep ==
  ASSUME SagaInv, setting' = setting,
         UNCHANGED <<tree, active, pass, crashes>>,
         action' \in [Ops -> Actions],
         lease' \in [state : LeaseStates, op : Ops \cup {NoOp}, failed : BOOLEAN],
         lock' \in Ops \cup {NoOp},
         LocksFollowTheLease', lease'.state # "IN_USE",
         NEW c \in Callers, NEW row, Sane(row), caller' = [caller EXCEPT ![c] = row]
  PROVE  SagaInv'
<1>1. CallersAreSane'
  BY RowsStay DEF SagaInv
<1>2. \A d \in Callers : caller'[d].token \in Tokens \cup {NoToken}
  BY <1>1 DEF CallersAreSane, Callings
<1>3. SagaTypes'
  BY <1>2, TypesStay DEF SagaInv, SagaTypes, TypeOK, PassesAreRead
<1>4. PassesFit'
  BY DEF SagaInv, PassesFit, Ended, Passing
<1> QED BY <1>1, <1>3, <1>4 DEF SagaInv

(* The intent is recorded for a key that callers may bring.                *)
LEMMA IntentKeeps ==
  ASSUME SagaInv, setting' = setting, SettingAssumption,
         NEW c \in Callers, NEW o \in setting.keys, Intent(c, o)
  PROVE  SagaInv'
<1>1. o \in Ops
  BY DEF SagaInv, SagaTypes, SettingAssumption
<1>2. PICK next : next = action'[o]
  OBVIOUS
<1>3. action' \in [Ops -> Actions]
  <2>1. Requested \in Actions
    BY DEF Requested, NoAction, Actions, Identities, Pending, NoToken
  <2> QED BY <2>1, <1>1 DEF Intent, SagaInv, SagaTypes, TypeOK
<1>4. next \in Actions
  BY <1>1, <1>2, <1>3
<1>5. PICK row : row = [Idle EXCEPT !.at = "survey", !.op = o, !.seen = next]
  OBVIOUS
<1>6. Sane(row)
  BY <1>1, <1>4, <1>5 DEF Sane, Idle, Callings, Places, Results, NoToken
<1>7. caller' = [caller EXCEPT ![c] = row]
  BY <1>2, <1>5 DEF Intent
<1>8. UNCHANGED <<lease, lock, tree, active, pass, crashes>>
  BY DEF Intent
<1> QED BY <1>3, <1>6, <1>7, <1>8, WritesKeep

(* An outcome is written over whatever the action was.                     *)
LEMMA RecordIsTyped ==
  ASSUME SagaInv, NEW o, Record(o, "REMOVED") \/ Record(o, "REFUSED")
                          \/ Record(o, "IN_PROGRESS") \/ Record(o, "INTERRUPTED")
                          \/ Record(o, "TRANSFERRED")
  PROVE  action' \in [Ops -> Actions]
BY SettledIsAction DEF Record, SagaInv, SagaTypes, TypeOK

(* A survey that finds the lease removed settles what is pending.          *)
LEMMA SurveyRemovedKeeps ==
  ASSUME SagaInv, setting' = setting, NEW c \in Callers, SurveyRemoved(c)
  PROVE  SagaInv'
<1>1. action' \in [Ops -> Actions]
  BY SettledIsAction DEF SurveyRemoved, SagaInv, SagaTypes, TypeOK
<1>2. Sane(Idle)
  BY IdleIsSane
<1>3. caller' = [caller EXCEPT ![c] = Idle]
  BY DEF SurveyRemoved, Answer
<1> QED BY <1>1, <1>2, <1>3, WritesKeep DEF SurveyRemoved

(* A survey that finds another at work.                                    *)
LEMMA SurveyBusyKeeps ==
  ASSUME SagaInv, setting' = setting, NEW c \in Callers, SurveyBusy(c)
  PROVE  SagaInv'
<1>1. action' \in [Ops -> Actions]
  BY RecordIsTyped DEF SurveyBusy
<1>2. Sane(Idle)
  BY IdleIsSane
<1>3. caller' = [caller EXCEPT ![c] = Idle]
  BY DEF SurveyBusy, Answer
<1> QED BY <1>1, <1>2, <1>3, WritesKeep DEF SurveyBusy

(* A caller takes over what became of the action it drove.                 *)
LEMMA ObserveKeeps ==
  ASSUME SagaInv, setting' = setting, NEW c \in Callers, Observe(c)
  PROVE  SagaInv'
<1>1. action' \in [Ops -> Actions]
  BY RecordIsTyped DEF Observe, Truth
<1>2. Sane(Idle)
  BY IdleIsSane
<1>3. caller' = [caller EXCEPT ![c] = Idle]
  BY DEF Observe, Answer
<1> QED BY <1>1, <1>2, <1>3, WritesKeep DEF Observe

(* A survey that finds something to drive.                                 *)
LEMMA SurveyMovesKeep ==
  ASSUME SagaInv, setting' = setting, NEW c \in Callers, SurveyRecover(c) \/ SurveyFree(c)
  PROVE  SagaInv'
<1>1. PICK place \in {"recover", "claim"}, o \in Ops :
        caller' = [caller EXCEPT ![c].at = place, ![c].drives = o]
  <2>1. CASE SurveyRecover(c)
    <3>1. Drivable(c) \subseteq Ops
      BY DEF Drivable, Others
    <3> QED BY <2>1, <3>1 DEF SurveyRecover
  <2>2. CASE SurveyFree(c)
    <3>1. caller[c].op \in Ops
      BY <2>2 DEF SurveyFree, At, SagaInv, CallersAreSane, Sane
    <3> QED BY <2>2, <3>1 DEF SurveyFree
  <2> QED BY <2>1, <2>2
<1>2. caller[c].at = "survey"
  BY DEF SurveyRecover, SurveyFree, At
<1>3. PICK old : old = caller[c]
  OBVIOUS
<1>4. Sane(old)
  BY <1>3 DEF SagaInv, CallersAreSane
<1>5. PICK row : row = [old EXCEPT !.at = place, !.drives = o]
  OBVIOUS
<1>6. Sane(row)
  BY <1>2, <1>3, <1>4, <1>5 DEF Sane, Callings, Places
<1>7. caller' = [caller EXCEPT ![c] = row]
  BY <1>1, <1>3, <1>5
<1>8. UNCHANGED <<lease, lock, tree, action, active, pass, crashes>>
  BY DEF SurveyRecover, SurveyFree
<1> QED BY <1>6, <1>7, <1>8, MovesKeep

(* A caller beyond its survey that goes somewhere without a decision.      *)
LEMMA GoingKeeps ==
  ASSUME SagaInv, setting' = setting, NEW c \in Callers,
         caller[c].at \notin {"idle", "survey"},
         NEW place \in Places, place \notin {"persist", "claimed", "direct"}, Goes(c, place),
         UNCHANGED <<lease, lock, tree, active, pass, crashes>>,
         action' \in [Ops -> Actions]
  PROVE  SagaInv'
<1>1. PICK row : row = [caller[c] EXCEPT !.at = place]
  OBVIOUS
<1>2. Sane(row)
  BY <1>1, GoingIsSane DEF SagaInv, CallersAreSane
<1>3. caller' = [caller EXCEPT ![c] = row]
  BY <1>1 DEF Goes
<1> QED BY <1>2, <1>3, WritesKeep

(* A caller beyond its survey that goes on with a result.                  *)
LEMMA DecidingKeeps ==
  ASSUME SagaInv, setting' = setting, NEW c \in Callers,
         caller[c].at \notin {"idle", "survey"},
         NEW place \in Places, place \notin {"claimed", "direct"}, NEW result \in Results,
         place = "persist" => result \in {"REMOVED", "REFUSED"},
         caller' = [caller EXCEPT ![c].at = place, ![c].result = result],
         UNCHANGED <<lease, lock, action, active, pass, crashes>>,
         tree' \in {"there", "absent"}
  PROVE  SagaInv'
<1>1. PICK row : row = [caller[c] EXCEPT !.at = place, !.result = result]
  OBVIOUS
<1>2. Sane(row)
  BY <1>1, DecidingIsSane DEF SagaInv, CallersAreSane
<1>3. caller' = [caller EXCEPT ![c] = row]
  BY <1>1
<1>4. CallersAreSane'
  BY <1>2, <1>3, RowsStay DEF SagaInv
<1>5. \A d \in Callers : caller'[d].token \in Tokens \cup {NoToken}
  BY <1>4 DEF CallersAreSane, Callings
<1>6. SagaTypes'
  BY <1>5, TypesStay DEF SagaInv, SagaTypes, TypeOK, PassesAreRead
<1>7. LocksFollowTheLease' /\ PassesFit'
  BY LocksStay DEF SagaInv
<1> QED BY <1>4, <1>6, <1>7 DEF SagaInv

(* The actions have their type.                                            *)
LEMMA ActionsAreTyped ==
  ASSUME SagaInv
  PROVE  action \in [Ops -> Actions]
BY DEF SagaInv, SagaTypes, TypeOK

(* A claim that another has already made.                                  *)
LEMMA NotClaimedKeeps ==
  ASSUME SagaInv, setting' = setting, NEW c \in Callers, NotClaimed(c)
  PROVE  SagaInv'
<1>1. caller[c].at = "claim" /\ UNCHANGED <<lease, lock, tree, action, active, pass, crashes>>
  BY DEF NotClaimed, At
<1>2. CASE Answer(c)
  BY <1>1, <1>2, IdleIsSane, MovesKeep DEF Answer
<1>3. CASE Goes(c, "observe")
  BY <1>1, <1>3, GoingKeeps, ActionsAreTyped DEF Places
<1> QED BY <1>2, <1>3 DEF NotClaimed

(* A fresh token is a token nobody has.                                    *)
LEMMA FreshIsToken ==
  ASSUME Unused # {}
  PROVE  Fresh \in Unused /\ Fresh \in Tokens /\ NoToken \notin Tokens
BY DEF Fresh, Unused, Tokens, NoToken

(* The identity of a process is within the crashes it may suffer.          *)
LEMMA PidIsTyped ==
  ASSUME SagaInv, ProcessAssumption, SettingAssumption, NEW c \in Callers
  PROVE  <<ProcessOf[c], Pid(c)>> \in Identities
<1>1. ProcessOf[c] \in Processes
  BY DEF ProcessAssumption
<1>2. MaxCrashes \in Nat
  BY DEF SagaInv, SagaTypes, SettingAssumption, MaxCrashes
<1>3. crashes[ProcessOf[c]] \in 0..MaxCrashes
  BY <1>1 DEF SagaInv, SagaTypes
<1>4. Pid(c) \in 1..(MaxCrashes + 1)
  BY <1>2, <1>3 DEF Pid
<1> QED BY <1>1, <1>4 DEF Identities

(* A claim writes the action, its caller and, unless others may see it     *)
(* first, the tokens in use.                                               *)
LEMMA ClaimKeeps ==
  ASSUME SagaInv, setting' = setting, ProcessAssumption, SettingAssumption,
         NEW c \in Callers, Claim(c)
  PROVE  SagaInv'
<1>1. PICK token \in Tokens : token = Fresh /\ token # NoToken
  BY FreshIsToken DEF Claim
<1>2. PICK old : old = caller[c]
  OBVIOUS
<1>3. Sane(old) /\ old.at = "claim"
  BY <1>2 DEF SagaInv, CallersAreSane, Claim, At
<1>4. PICK row : row = [old EXCEPT !.at = "claimed", !.token = token, !.seen = NoAction]
  OBVIOUS
<1>5. Sane(row)
  BY <1>1, <1>3, <1>4, SeenIsAction DEF Sane, Callings, Places
<1>6. caller' = [caller EXCEPT ![c] = row]
  BY <1>1, <1>2, <1>4 DEF Claim
<1>7. PICK own : own = [phase |-> "EXECUTING", pid |-> <<ProcessOf[c], Pid(c)>>,
                        token |-> token, recoverable |-> FALSE]
  OBVIOUS
<1>8. own \in Actions
  BY <1>7, PidIsTyped DEF Actions, Pending
<1>9. action' = [action EXCEPT ![caller[c].drives] = own]
  BY <1>1, <1>7 DEF Claim
<1>10. action' \in [Ops -> Actions]
  BY <1>8, <1>9 DEF SagaInv, SagaTypes, TypeOK
<1>11. active' \in [Processes -> SUBSET Tokens]
  BY <1>1 DEF Claim, SagaInv, SagaTypes, TypeOK
<1>12. CallersAreSane'
  BY <1>5, <1>6, RowsStay DEF SagaInv
<1>13. \A d \in Callers : caller'[d].token \in Tokens \cup {NoToken}
  BY <1>12 DEF CallersAreSane, Callings
<1>14. UNCHANGED <<lease, lock, tree, pass, crashes>>
  BY DEF Claim
<1>15. SagaTypes'
  BY <1>10, <1>11, <1>13, <1>14, TypesStay DEF SagaInv, SagaTypes, TypeOK, PassesAreRead
<1>16. LocksFollowTheLease' /\ PassesFit'
  BY <1>14, LocksStay DEF SagaInv
<1> QED BY <1>12, <1>15, <1>16 DEF SagaInv

(* Register and Finally write the active tokens.                           *)
LEMMA TokensKeep ==
  ASSUME SagaInv, setting' = setting, NEW c \in Callers,
         caller[c].at \notin {"idle", "survey"},
         NEW place \in Places, place \notin {"persist", "claimed", "direct"}, Goes(c, place),
         UNCHANGED <<lease, lock, tree, action, pass, crashes>>,
         active' \in [Processes -> SUBSET Tokens]
  PROVE  SagaInv'
<1>1. PICK row : row = [caller[c] EXCEPT !.at = place]
  OBVIOUS
<1>2. Sane(row)
  BY <1>1, GoingIsSane DEF SagaInv, CallersAreSane
<1>3. caller' = [caller EXCEPT ![c] = row]
  BY <1>1 DEF Goes
<1>4. CallersAreSane'
  BY <1>2, <1>3, RowsStay DEF SagaInv
<1>5. \A d \in Callers : caller'[d].token \in Tokens \cup {NoToken}
  BY <1>4 DEF CallersAreSane, Callings
<1>6. SagaTypes'
  BY <1>5, TypesStay DEF SagaInv, SagaTypes, TypeOK, PassesAreRead
<1>7. LocksFollowTheLease' /\ PassesFit'
  BY LocksStay DEF SagaInv
<1> QED BY <1>4, <1>6, <1>7 DEF SagaInv

(* A caller reads another's action and sees how far it is.                 *)
LEMMA RecoverKeeps ==
  ASSUME SagaInv, setting' = setting, NEW c \in Callers, Recover(c)
  PROVE  SagaInv'
<1>1. caller[c].at = "recover" /\ UNCHANGED <<lease, lock, tree, action, active, pass, crashes>>
  BY DEF Recover, At
<1>2. PICK old : old = caller[c]
  OBVIOUS
<1>3. Sane(old) /\ old.at = "recover"
  BY <1>1, <1>2 DEF SagaInv, CallersAreSane
<1>4. PICK a : a = action[caller[c].drives]
  OBVIOUS
<1>5. a \in Actions /\ a.token \in Tokens \cup {NoToken}
  BY <1>2, <1>3, <1>4 DEF Sane, SagaInv, SagaTypes, TypeOK, Actions
<1>6. CASE Goes(c, "observe")
  BY <1>1, <1>6, GoingKeeps, ActionsAreTyped DEF Places
<1>7. CASE caller' = [caller EXCEPT ![c].at = "direct", ![c].seen = a,
                        ![c].token = a.token, ![c].result = "REMOVED"]
  <2>1. PICK row : row = [old EXCEPT !.at = "direct", !.seen = a, !.token = a.token,
                                     !.result = "REMOVED"]
    OBVIOUS
  <2>2. Sane(row)
    BY <1>3, <1>5, <2>1 DEF Sane, Callings, Places, Results
  <2>3. caller' = [caller EXCEPT ![c] = row]
    BY <1>7, <1>2, <2>1
  <2> QED BY <1>1, <2>2, <2>3, MovesKeep
<1>8. CASE caller' = [caller EXCEPT ![c].at = "claim", ![c].seen = a]
  <2>1. PICK row : row = [old EXCEPT !.at = "claim", !.seen = a]
    OBVIOUS
  <2>2. Sane(row)
    BY <1>3, <1>5, <2>1 DEF Sane, Callings, Places
  <2>3. caller' = [caller EXCEPT ![c] = row]
    BY <1>8, <1>2, <2>1
  <2> QED BY <1>1, <2>2, <2>3, MovesKeep
<1> QED BY <1>4, <1>6, <1>7, <1>8 DEF Recover

(* A token comes into use and goes out of it.                              *)
LEMMA TokenMovesKeep ==
  ASSUME SagaInv, setting' = setting, NEW c \in Callers, Register(c) \/ Finally(c)
  PROVE  SagaInv'
<1>1. CASE Register(c)
  <2>1. caller[c].at = "claimed" /\ UNCHANGED <<lease, lock, tree, action, pass, crashes>>
    BY <1>1 DEF Register, At
  <2>2. caller[c].token \in Tokens
    BY <2>1 DEF SagaInv, CallersAreSane, Sane, Callings
  <2>3. active' \in [Processes -> SUBSET Tokens]
    BY <1>1, <2>2 DEF Register, SagaInv, SagaTypes, TypeOK
  <2>4. PICK place \in {"start", "reobserve"} : Goes(c, place)
    BY <1>1 DEF Register
  <2> QED BY <2>1, <2>3, <2>4, TokensKeep DEF Places
<1>2. CASE Finally(c)
  <2>1. caller[c].at = "finally" /\ UNCHANGED <<lease, lock, tree, action, pass, crashes>>
    BY <1>2 DEF Finally, At
  <2>2. active' \in [Processes -> SUBSET Tokens]
    BY <1>2 DEF Finally, SagaInv, SagaTypes, TypeOK
  <2>3. Goes(c, "leave")
    BY <1>2 DEF Finally
  <2> QED BY <2>1, <2>2, <2>3, TokensKeep DEF Places
<1> QED BY <1>1, <1>2

(* The tree is looked at again before the release starts.                  *)
LEMMA ReobserveKeeps ==
  ASSUME SagaInv, setting' = setting, NEW c \in Callers, Reobserve(c)
  PROVE  SagaInv'
<1>1. caller[c].at = "reobserve" /\ UNCHANGED <<lease, lock, tree, action, active, pass, crashes>>
  BY DEF Reobserve, At
<1>2. CASE caller' = [caller EXCEPT ![c].at = "persist", ![c].result = "REMOVED"]
  BY <1>1, <1>2, DecidingKeeps DEF Places, Results, SagaInv, SagaTypes, TypeOK
<1>3. CASE Goes(c, "start")
  BY <1>1, <1>3, GoingKeeps, ActionsAreTyped DEF Places
<1> QED BY <1>2, <1>3 DEF Reobserve

(* The claim is read again before git.                                     *)
LEMMA AuthorityKeeps ==
  ASSUME SagaInv, setting' = setting, NEW c \in Callers, Authority(c)
  PROVE  SagaInv'
<1>1. caller[c].at = "authority" /\ UNCHANGED <<lease, lock, tree, action, active, pass, crashes>>
  BY DEF Authority, At
<1>2. CASE caller' = [caller EXCEPT ![c].at = "persist", ![c].result = "REFUSED"]
  BY <1>1, <1>2, DecidingKeeps DEF Places, Results, SagaInv, SagaTypes, TypeOK
<1>3. CASE Goes(c, "git")
  BY <1>1, <1>3, GoingKeeps, ActionsAreTyped DEF Places
<1> QED BY <1>2, <1>3 DEF Authority

(* Git removes the tree, or refuses.                                       *)
LEMMA GitKeeps ==
  ASSUME SagaInv, setting' = setting, NEW c \in Callers, Git(c)
  PROVE  SagaInv'
<1>1. caller[c].at = "git" /\ UNCHANGED <<lease, lock, action, active, pass, crashes>>
  BY DEF Git, At
<1>2. tree' \in {"there", "absent"}
  BY DEF Git, SagaInv, SagaTypes, TypeOK
<1>3. PICK result \in {"REMOVED", "REFUSED"} :
        caller' = [caller EXCEPT ![c].at = "persist", ![c].result = result]
  BY DEF Git, Persists
<1> QED BY <1>1, <1>2, <1>3, DecidingKeeps DEF Places, Results

(* The last transaction is refused, or fails.                              *)
LEMMA PersistFailsKeeps ==
  ASSUME SagaInv, setting' = setting, NEW c \in Callers, PersistFails(c)
  PROVE  SagaInv'
<1>1. caller[c].at = "persist" /\ UNCHANGED <<lease, lock, tree, action, active, pass, crashes>>
  BY DEF PersistFails, At
<1>2. PICK result \in {"unauthorized", "database"} :
        caller' = [caller EXCEPT ![c].at = "caught", ![c].result = result]
  BY DEF PersistFails, Fails
<1> QED BY <1>1, <1>2, DecidingKeeps DEF Places, Results, SagaInv, SagaTypes, TypeOK

(* Lease and lock are claimed together.                                    *)
LEMMA StartKeeps ==
  ASSUME ReleaseConstants, SagaInv, setting' = setting, NEW c \in Callers, Start(c)
  PROVE  SagaInv'
<1>1. caller[c].at = "start" /\ UNCHANGED <<tree, action, active, pass, crashes>>
  BY DEF Start, At
<1>2. caller[c].drives \in Ops
  BY <1>1 DEF SagaInv, CallersAreSane, Sane
<1>3. CASE UNCHANGED <<lease, lock>> /\ Goes(c, "authority")
  BY <1>1, <1>3, GoingKeeps, ActionsAreTyped DEF Places
<1>4. CASE /\ UNCHANGED <<lease, lock>>
           /\ \E result \in {"unauthorized", "not releasable"} : Fails(c, result)
  BY <1>1, <1>4, DecidingKeeps DEF Places, Results, SagaInv, SagaTypes, TypeOK, Fails
<1>5. CASE lease' = ClaimedBy(caller[c].drives) /\ lock' = caller[c].drives /\ Goes(c, "authority")
  <2>1. PICK row : row = [caller[c] EXCEPT !.at = "authority"]
    OBVIOUS
  <2>2. Sane(row)
    BY <1>1, <2>1, GoingIsSane DEF SagaInv, CallersAreSane, Places
  <2>3. caller' = [caller EXCEPT ![c] = row]
    BY <1>5, <2>1 DEF Goes
  <2>4. lease' \in [state : LeaseStates, op : Ops \cup {NoOp}, failed : BOOLEAN]
    BY <1>2, <1>5 DEF ClaimedBy, LeaseStates
  <2>5. LocksFollowTheLease' /\ lease'.state # "IN_USE"
    BY <1>2, <1>5 DEF ClaimedBy, LocksFollowTheLease, ReleaseConstants
  <2> QED BY <1>1, <1>2, <1>5, <2>2, <2>3, <2>4, <2>5, TransactionsKeep, ActionsAreTyped
<1> QED BY <1>3, <1>4, <1>5 DEF Start

(* What the last transaction makes of the lease: it is owned by nobody.    *)
LEMMA LeaseAfterIsTyped ==
  ASSUME NEW result \in {"REMOVED", "REFUSED"}
  PROVE  /\ LeaseAfter(result) \in [state : LeaseStates, op : Ops \cup {NoOp}, failed : BOOLEAN]
         /\ LeaseAfter(result).op = NoOp
         /\ LeaseAfter(result).state \notin {"RELEASE_REQUESTED", "IN_USE"}
BY DEF LeaseAfter, LeaseStates

(* The last transaction gives lease and lock back together.                *)
LEMMA PersistKeeps ==
  ASSUME SagaInv, setting' = setting, NEW c \in Callers, Persist(c)
  PROVE  SagaInv'
<1>1. caller[c].at = "persist" /\ UNCHANGED <<tree, active, pass, crashes>>
  BY DEF Persist, At
<1>2. PICK result \in {"REMOVED", "REFUSED"} : result = caller[c].result
  BY <1>1 DEF SagaInv, CallersAreSane, Sane
<1>3. action' \in [Ops -> Actions]
  BY <1>2, RecordIsTyped DEF Persist
<1>4. lease' = LeaseAfter(result) /\ lock' = NoOp
  BY <1>2 DEF Persist, Unlocked
<1>5. LocksFollowTheLease' /\ lease'.state # "IN_USE"
  BY <1>4, LeaseAfterIsTyped DEF LocksFollowTheLease
<1>6. PICK row : row = [caller[c] EXCEPT !.at = "finally"]
  OBVIOUS
<1>7. Sane(row)
  BY <1>1, <1>6, GoingIsSane DEF SagaInv, CallersAreSane, Places
<1>8. caller' = [caller EXCEPT ![c] = row]
  BY <1>6 DEF Goes, Persist
<1> QED BY <1>1, <1>3, <1>4, <1>5, <1>7, <1>8, LeaseAfterIsTyped, TransactionsKeep

(* So does the one without a claim.                                        *)
LEMMA DirectPersistKeeps ==
  ASSUME SagaInv, setting' = setting, NEW c \in Callers, DirectPersist(c)
  PROVE  SagaInv'
<1>1. caller[c].at = "direct" /\ UNCHANGED <<tree, active, pass, crashes>>
  BY DEF DirectPersist, At
<1>2. CASE Goes(c, "claim") /\ UNCHANGED <<lease, lock, action>>
  BY <1>1, <1>2, GoingKeeps, ActionsAreTyped DEF Places
<1>3. CASE /\ lease' = LeaseAfter("REMOVED") /\ lock' = Unlocked
           /\ Record(caller[c].drives, "REMOVED") /\ Goes(c, "observe")
  <2>1. action' \in [Ops -> Actions]
    BY <1>3, RecordIsTyped
  <2>2. lock' = NoOp /\ LocksFollowTheLease' /\ lease'.state # "IN_USE"
    BY <1>3, LeaseAfterIsTyped DEF LocksFollowTheLease, Unlocked
  <2>3. PICK row : row = [caller[c] EXCEPT !.at = "observe"]
    OBVIOUS
  <2>4. Sane(row)
    BY <1>1, <2>3, GoingIsSane DEF SagaInv, CallersAreSane, Places
  <2>5. caller' = [caller EXCEPT ![c] = row]
    BY <1>3, <2>3 DEF Goes
  <2> QED BY <1>1, <1>3, <2>1, <2>2, <2>4, <2>5, LeaseAfterIsTyped, TransactionsKeep
<1> QED BY <1>2, <1>3 DEF DirectPersist

(* An abandoned action is one that may be claimed again.                   *)
LEMMA AbandonedIsAction ==
  ASSUME SagaInv, NEW o \in Ops
  PROVE  Abandoned(o) \in Actions
<1>1. PICK a : a = action[o]
  OBVIOUS
<1>2. a \in Actions
  BY <1>1 DEF SagaInv, SagaTypes, TypeOK
<1>3. [a EXCEPT !.phase = "REQUESTED", !.recoverable = TRUE] \in Actions
  BY <1>2 DEF Actions, Pending
<1> QED BY <1>1, <1>3 DEF Abandoned

(* What a caller makes of an error.                                        *)
LEMMA CaughtKeeps ==
  ASSUME SagaInv, setting' = setting, NEW c \in Callers, Caught(c)
  PROVE  SagaInv'
<1>1. caller[c].at = "caught" /\ UNCHANGED <<lease, lock, tree, active, pass, crashes>>
  BY DEF Caught, At
<1>2. PICK o \in Ops : o = caller[c].drives
  BY <1>1 DEF SagaInv, CallersAreSane, Sane
<1>3. Truth(o) \in {"none", "REMOVED", "REFUSED", "INTERRUPTED"}
  BY DEF Truth
<1>4. \/ action' = action
      \/ \E result \in {"REMOVED", "REFUSED", "INTERRUPTED"} :
            action' = [action EXCEPT ![o] = Settled(result)]
      \/ action' = [action EXCEPT ![o] = Abandoned(o)]
  BY <1>2, <1>3 DEF Caught
<1>5. action' \in [Ops -> Actions]
  BY <1>4, SettledIsAction, AbandonedIsAction, ActionsAreTyped
<1>6. Goes(c, "finally")
  BY DEF Caught
<1> QED BY <1>1, <1>5, <1>6, GoingKeeps DEF Places

(* What a caller leaves behind.                                            *)
LEMMA LeaveKeeps ==
  ASSUME SagaInv, setting' = setting, NEW c \in Callers, Leave(c)
  PROVE  SagaInv'
<1>1. caller[c].at = "leave" /\ UNCHANGED <<lease, lock, tree, active, pass, crashes>>
  BY DEF Leave, At
<1>2. PICK o \in Ops : o = caller[c].drives
  BY <1>1 DEF SagaInv, CallersAreSane, Sane
<1>3. action' = action \/ action' = [action EXCEPT ![o] = Abandoned(o)]
  BY <1>2 DEF Leave
<1>4. action' \in [Ops -> Actions]
  BY <1>3, AbandonedIsAction, ActionsAreTyped
<1>5. PICK old : old = caller[c]
  OBVIOUS
<1>6. PICK row : row = [old EXCEPT !.at = "observe", !.token = NoToken, !.result = "none"]
  OBVIOUS
<1>7. Sane(old) /\ old.at = "leave"
  BY <1>1, <1>5 DEF SagaInv, CallersAreSane
<1>8. Sane(row)
  BY <1>6, <1>7 DEF Sane, Callings, Places, Results
<1>9. caller' = [caller EXCEPT ![c] = Idle] \/ caller' = [caller EXCEPT ![c] = row]
  BY <1>5, <1>6 DEF Leave
<1> QED BY <1>1, <1>4, <1>8, <1>9, IdleIsSane, WritesKeep

(* The rows of all callers stay.                                           *)
LEMMA CallersStay ==
  ASSUME SagaInv, setting' = setting, UNCHANGED caller
  PROVE  CallersAreSane'
<1>1. \A c \in Callers : Sane(caller[c])'
  BY SaneStays DEF SagaInv, CallersAreSane
<1> QED BY <1>1, ActionsAreSame DEF SagaInv, CallersAreSane

(* The lease changes hands, and keeps its claim.                           *)
LEMMA LeaseMoves ==
  ASSUME SagaInv, NEW state \in {"PRESERVED", "TRANSFERRED"},
         lease' = [lease EXCEPT !.state = state]
  PROVE  /\ lease' \in [state : LeaseStates, op : Ops \cup {NoOp}, failed : BOOLEAN]
         /\ lease'.op = lease.op /\ lease'.state = state
<1>1. lease \in [state : LeaseStates, op : Ops \cup {NoOp}, failed : BOOLEAN]
  BY DEF SagaInv, SagaTypes, TypeOK
<1> QED BY <1>1 DEF LeaseStates

(* What the surroundings do.                                               *)
LEMMA SurroundingsKeep ==
  ASSUME SagaInv, setting' = setting, EndRun \/ TakeOver
  PROVE  SagaInv'
<1>1. UNCHANGED <<lock, tree, action, active, caller, pass, crashes>>
  BY DEF EndRun, TakeOver
<1>2. PICK state \in {"PRESERVED", "TRANSFERRED"} :
        lease.state # "RELEASE_REQUESTED" /\ lease' = [lease EXCEPT !.state = state]
  BY DEF EndRun, TakeOver
<1>3. /\ lease' \in [state : LeaseStates, op : Ops \cup {NoOp}, failed : BOOLEAN]
      /\ lease'.op = lease.op /\ lease'.state = state
  BY <1>2, LeaseMoves
<1>4. LocksFollowTheLease'
  BY <1>1, <1>2, <1>3 DEF SagaInv, LocksFollowTheLease, Ended, Passing
<1>5. PassesFit'
  BY <1>1, <1>3 DEF SagaInv, PassesFit, Ended, Passing
<1>6. CallersAreSane'
  BY <1>1, CallersStay
<1>7. SagaTypes'
  BY <1>1, <1>3, TypesStay DEF SagaInv, SagaTypes, TypeOK, PassesAreRead
<1> QED BY <1>4, <1>5, <1>6, <1>7 DEF SagaInv

(* A reconciliation writes its row.                                        *)
LEMMA ReadingsStay ==
  ASSUME SagaInv, setting' = setting, NEW t \in Scans, NEW row, Read(row),
         pass' = [pass EXCEPT ![t] = row],
         row = NoPass \/ Passing,
         row.at \in {"in use", "ended"} =>
             pass[t].at = "in use" \/ lease.state = "IN_USE",
         lease'.state = "IN_USE" => lease.state = "IN_USE"
  PROVE  PassesAreRead' /\ PassesFit'
<1>1. pass'[t] = row /\ \A u \in Scans : u # t => pass'[u] = pass[u]
  BY DEF SagaInv, SagaTypes, PassesAreRead
<1>2. PassesAreRead'
  <2>1. pass' \in [Scans -> Readings]
    BY DEF SagaInv, SagaTypes, PassesAreRead, Read
  <2> QED BY <1>1, <2>1 DEF SagaInv, SagaTypes, PassesAreRead
<1>3. PassesFit'
  BY <1>1 DEF SagaInv, PassesFit, Ended, Passing
<1> QED BY <1>2, <1>3

(* It has read nothing.                                                    *)
LEMMA NoPassIsRead ==
  Read(NoPass) /\ NoPass.at = "idle" /\ NoPass.op = NoOp
BY DEF Read, Readings, NoPass

(* A reconciliation that has read, and one that ends.                      *)
ReadsOn(t, row) ==
    /\ Read(row) /\ Passing
    /\ pass' = [pass EXCEPT ![t] = row]
    /\ row.at \in {"in use", "ended"} => pass[t].at = "in use" \/ lease.state = "IN_USE"
    /\ row.verdict = "REMOVED" => tree = "absent" \/ lease.state = "REMOVED"
    /\ UNCHANGED <<lease, lock, tree, action, active, caller, crashes>>

EndsReading(t) == PreserveEnded(t) \/ Finalize(t) \/ WriteAction(t) \/ GiveUp(t)

(* What it finds.                                                          *)
LEMMA FindingReads ==
  ASSUME SagaInv, NEW t \in Scans,
         FindInUse(t) \/ FindClaimed(t) \/ (\E o \in Ops : FindAction(t, o))
  PROVE  \E row : ReadsOn(t, row)
<1>1. CASE FindInUse(t)
  <2>1. PICK row : row = [NoPass EXCEPT !.at = "in use"]
    OBVIOUS
  <2>2. Read(row) /\ row.verdict = "none"
    BY <2>1 DEF Read, Readings, NoPass
  <2> QED BY <1>1, <2>1, <2>2 DEF FindInUse, Finds, ReadsOn
<1>2. CASE FindClaimed(t)
  <2>1. PICK row : row = [[NoPass EXCEPT !.op = lease.op] EXCEPT !.at = "claimed"]
    OBVIOUS
  <2>2. Read(row) /\ row.at = "claimed" /\ row.verdict = "none"
    BY <2>1 DEF Read, Readings, NoPass, SagaInv, SagaTypes, TypeOK
  <2> QED BY <1>2, <2>1, <2>2 DEF FindClaimed, Finds, ReadsOn
<1>3. ASSUME NEW o \in Ops, FindAction(t, o) PROVE \E row : ReadsOn(t, row)
  <2>1. PICK row : row = [[NoPass EXCEPT !.op = o, !.verdict = action[o].phase]
                          EXCEPT !.at = "action"]
    OBVIOUS
  <2>2. action[o].phase \in {"REQUESTED", "EXECUTING"}
    BY <1>3 DEF FindAction, IsPending, Pending
  <2>3. Read(row) /\ row.at = "action" /\ row.verdict \in {"REQUESTED", "EXECUTING"}
    BY <2>1, <2>2 DEF Read, Readings, NoPass
  <2> QED BY <1>3, <2>1, <2>3 DEF FindAction, Finds, ReadsOn
<1> QED BY <1>1, <1>2, <1>3

(* What it makes of what it has found.                                     *)
LEMMA ResolvingReads ==
  ASSUME SagaInv, NEW t \in Scans,
         RunHasEnded(t) \/ Correlate(t) \/ Absent(t) \/ LookAtLease(t)
  PROVE  \E row : ReadsOn(t, row)
<1>1. PICK old : old = pass[t]
  OBVIOUS
<1>2. Read(old) /\ (old.at # "idle" => Passing)
  BY <1>1, NoPassIsRead DEF SagaInv, SagaTypes, PassesAreRead, PassesFit
<1>3. ASSUME NEW place \in {"ended", "listing", "finalize", "write"},
             NEW verdict \in {"none", "REMOVED", "REFUSED", "TRANSFERRED", "INTERRUPTED"},
             Resolves(t, place, verdict), old.at # "idle",
             place = "ended" => old.at = "in use",
             place = "finalize" => verdict \in {"REMOVED", "REFUSED"},
             place = "write" => old.at = "action" /\ verdict # "none",
             verdict = "REMOVED" => tree = "absent" \/ lease.state = "REMOVED"
      PROVE  \E row : ReadsOn(t, row)
  <2>1. PICK row : row = [old EXCEPT !.at = place, !.verdict = verdict]
    OBVIOUS
  <2>2. Read(row) /\ row.at = place /\ row.verdict = verdict
    BY <1>2, <1>3, <2>1 DEF Read, Readings
  <2>3. pass' = [pass EXCEPT ![t] = row]
    BY <1>1, <1>3, <2>1 DEF Resolves
  <2> QED BY <1>1, <1>2, <1>3, <2>2, <2>3 DEF Resolves, ReadsOn
<1>4. CASE RunHasEnded(t)
  BY <1>1, <1>3, <1>4 DEF RunHasEnded
<1>5. CASE Correlate(t)
  BY <1>1, <1>3, <1>5 DEF Correlate
<1>6. CASE Absent(t)
  BY <1>1, <1>3, <1>6 DEF Absent
<1>7. CASE LookAtLease(t)
  <2>1. Verdict(pass[t].op, pass[t].verdict)
          \in {"none", "REMOVED", "REFUSED", "TRANSFERRED", "INTERRUPTED"}
    BY DEF Verdict
  <2>2. Verdict(pass[t].op, pass[t].verdict) = "REMOVED" => lease.state = "REMOVED"
    BY DEF Verdict
  <2> QED BY <1>1, <1>3, <1>7, <2>1, <2>2 DEF LookAtLease
<1> QED BY <1>4, <1>5, <1>6, <1>7

(* A reconciliation that ends gives a claimed lease back with its lock, or *)
(* preserves one under its claim, or settles an action.                    *)
LEMMA EndingsKeep ==
  ASSUME SagaInv, setting' = setting, NEW t \in Scans, EndsReading(t)
  PROVE  SagaInv'
<1>1. UNCHANGED <<tree, active, caller, crashes>> /\ pass' = [pass EXCEPT ![t] = NoPass]
  BY DEF EndsReading, PreserveEnded, Finalize, WriteAction, GiveUp, Ends
<1>2. pass[t] \in Readings /\ Read(pass[t])
  BY DEF SagaInv, SagaTypes, PassesAreRead
<1>3. action' \in [Ops -> Actions]
  <2>1. CASE WriteAction(t)
    BY <1>2, <2>1, RecordIsTyped DEF WriteAction, Read
  <2>2. CASE UNCHANGED action
    BY <2>2, ActionsAreTyped, ActionsAreSame
  <2> QED BY <2>1, <2>2 DEF EndsReading, PreserveEnded, Finalize, GiveUp
<1>4. /\ lease' \in [state : LeaseStates, op : Ops \cup {NoOp}, failed : BOOLEAN]
      /\ lock' \in Ops \cup {NoOp}
      /\ LocksFollowTheLease' /\ (lease'.state = "IN_USE" => lease.state = "IN_USE")
  <2>1. CASE PreserveEnded(t)
    <3>1. /\ lease' \in [state : LeaseStates, op : Ops \cup {NoOp}, failed : BOOLEAN]
          /\ lease'.op = lease.op /\ lease'.state = "PRESERVED"
      BY <2>1, LeaseMoves DEF PreserveEnded
    <3>2. Passing /\ ~Ended
      BY <2>1, NoPassIsRead DEF PreserveEnded, SagaInv, PassesFit
    <3>3. lock' = lock /\ lock \in Ops \cup {NoOp}
      BY <2>1 DEF PreserveEnded, SagaInv, SagaTypes, TypeOK
    <3> QED BY <3>1, <3>2, <3>3 DEF SagaInv, LocksFollowTheLease, Ended, Passing
  <2>2. CASE lease' = LeaseAfter(pass[t].verdict) /\ lock' = Unlocked /\ Finalize(t)
    BY <1>2, <2>2, LeaseAfterIsTyped DEF Finalize, Read, LocksFollowTheLease, Unlocked
  <2>3. CASE UNCHANGED <<lease, lock>>
    BY <2>3 DEF SagaInv, SagaTypes, TypeOK, LocksFollowTheLease, Ended, Passing
  <2> QED BY <2>1, <2>2, <2>3 DEF EndsReading, Finalize, WriteAction, GiveUp
<1>5. PassesAreRead' /\ PassesFit'
  BY <1>1, <1>4, NoPassIsRead, ReadingsStay
<1>6. CallersAreSane'
  BY <1>1, CallersStay
<1>7. SagaTypes'
  BY <1>1, <1>3, <1>4, <1>5, TypesStay DEF SagaInv, SagaTypes, TypeOK
<1> QED BY <1>4, <1>5, <1>6, <1>7 DEF SagaInv

(* No step of a reconciliation breaks the invariant.                       *)
LEMMA PassKeeps ==
  ASSUME SagaInv, setting' = setting, NEW t \in Scans, Reconcile(t)
  PROVE  SagaInv'
<1>1. CASE EndsReading(t)
  BY <1>1, EndingsKeep
<1>2. ASSUME NEW row, ReadsOn(t, row) PROVE SagaInv'
  <2>1. /\ UNCHANGED <<lease, lock, tree, action, active, caller, crashes>>
        /\ Read(row) /\ Passing /\ pass' = [pass EXCEPT ![t] = row]
        /\ row.at \in {"in use", "ended"} => pass[t].at = "in use" \/ lease.state = "IN_USE"
    BY <1>2 DEF ReadsOn
  <2>2. PassesAreRead' /\ PassesFit'
    BY <2>1, ReadingsStay
  <2>3. LocksFollowTheLease'
    BY <2>1 DEF SagaInv, LocksFollowTheLease, Ended, Passing
  <2>4. CallersAreSane'
    BY <2>1, CallersStay
  <2>5. SagaTypes'
    BY <2>1, <2>2, TypesStay DEF SagaInv, SagaTypes, TypeOK
  <2> QED BY <2>2, <2>3, <2>4, <2>5 DEF SagaInv
<1>3. CASE FindInUse(t) \/ FindClaimed(t) \/ (\E o \in Ops : FindAction(t, o))
  BY <1>2, <1>3, FindingReads
<1>4. CASE RunHasEnded(t) \/ Correlate(t) \/ Absent(t) \/ LookAtLease(t)
  BY <1>2, <1>4, ResolvingReads
<1> QED BY <1>1, <1>3, <1>4 DEF Reconcile, EndsReading

(* A crash takes the callers of a process and its tokens.                  *)
LEMMA CrashKeeps ==
  ASSUME SagaInv, setting' = setting, SettingAssumption, NEW p \in Processes, Crash(p)
  PROVE  SagaInv'
<1>1. UNCHANGED <<lease, lock, action, pass>> /\ tree' \in {"absent", "there"}
  BY DEF Crash, SagaInv, SagaTypes, TypeOK
<1>2. MaxCrashes \in Nat
  BY DEF SagaInv, SagaTypes, SettingAssumption, MaxCrashes
<1>3. crashes' \in [Processes -> 0..MaxCrashes]
  <2>1. PICK max \in Nat : max = MaxCrashes
    BY <1>2
  <2>2. crashes \in [Processes -> 0..max]
    BY <2>1 DEF SagaInv, SagaTypes
  <2>3. crashes[p] + 1 \in 0..max
    BY <2>1, <2>2 DEF Crash
  <2>4. crashes' = [crashes EXCEPT ![p] = crashes[p] + 1]
    BY DEF Crash
  <2> QED BY <2>1, <2>2, <2>3, <2>4
<1>4. active' \in [Processes -> SUBSET Tokens]
  BY DEF Crash, SagaInv, SagaTypes, TypeOK
<1>5. \A c \in Callers : Sane(caller'[c])
  BY IdleIsSane DEF Crash, SagaInv, CallersAreSane
<1>6. caller' \in [Callers -> Callings]
  BY IdleIsSane DEF Crash, SagaInv, CallersAreSane, Sane
<1>7. \A c \in Callers : Sane(caller[c])'
  <2>1. TAKE c \in Callers
  <2>2. PICK next : next = caller'[c]
    OBVIOUS
  <2>3. Sane(next)
    BY <1>5, <2>2
  <2>4. Callings' = Callings
    BY ActionsAreSame
  <2> QED BY <2>2, <2>3, <2>4 DEF Sane
<1>8. CallersAreSane'
  BY <1>6, <1>7, ActionsAreSame DEF CallersAreSane
<1>9. SagaTypes'
  <2>1. \A c \in Callers : caller'[c].token \in Tokens \cup {NoToken}
    BY <1>6 DEF Callings
  <2>2. /\ lease' \in [state : LeaseStates, op : Ops \cup {NoOp}, failed : BOOLEAN]
        /\ lock' \in Ops \cup {NoOp}
        /\ action' \in [Ops -> Actions]
        /\ PassesAreRead'
    BY <1>1 DEF SagaInv, SagaTypes, TypeOK, PassesAreRead
  <2> QED BY <1>1, <1>3, <1>4, <2>1, <2>2, TypesStay DEF SagaInv
<1>10. LocksFollowTheLease' /\ PassesFit'
  BY <1>1, LocksStay DEF SagaInv
<1> QED BY <1>8, <1>9, <1>10 DEF SagaInv

(* The lease is neither claimed nor locked at first.                       *)
LEMMA SagaStarts ==
  ASSUME ReleaseConstants, SettingAssumption, Init
  PROVE  SagaInv
<1>1. /\ setting \in Settings
      /\ lock = NoOp /\ pass = [t \in Scans |-> NoPass]
      /\ tree \in {"absent", "there"}
      /\ action = [o \in Ops |-> NoAction]
      /\ active = [p \in Processes |-> {}]
      /\ caller = [c \in Callers |-> Idle]
      /\ crashes = [p \in Processes |-> 0]
  BY DEF Init
<1>2. PICK s \in {"IN_USE", "PRESERVED", "FAILED"} :
        /\ lease = [state |-> s, op |-> NoOp, failed |-> FALSE]
        /\ Ended => s # "IN_USE"
  BY DEF Init
<1>3. MaxCrashes \in Nat
  BY <1>1 DEF SettingAssumption, MaxCrashes
<1>4. TypeOK
  BY <1>1, <1>2, SeenIsAction DEF TypeOK, LeaseStates, Idle
<1>5. crashes \in [Processes -> 0..MaxCrashes]
  BY <1>1, <1>3
<1>6. CallersAreSane
  BY <1>1, IdleIsSane DEF CallersAreSane, Sane
<1>7. PassesAreRead /\ PassesFit
  BY <1>1, <1>2, NoPassIsRead DEF PassesAreRead, PassesFit, Read
<1> QED BY <1>1, <1>2, <1>4, <1>5, <1>6, <1>7 DEF SagaInv, SagaTypes, LocksFollowTheLease

(* No step of a caller breaks the invariant.                               *)
LEMMA CallKeeps ==
  ASSUME ReleaseConstants, ProcessAssumption, SettingAssumption, SagaInv, setting' = setting,
         NEW c \in Callers, Call(c)
  PROVE  SagaInv'
<1>1. CASE \E o \in setting.keys : Intent(c, o)
  BY <1>1, IntentKeeps
<1>2. CASE SurveyRemoved(c) \/ SurveyRecover(c) \/ SurveyBusy(c) \/ SurveyFree(c)
  BY <1>2, SurveyRemovedKeeps, SurveyBusyKeeps, SurveyMovesKeep
<1>3. CASE Claim(c) \/ NotClaimed(c) \/ Register(c) \/ Recover(c) \/ Reobserve(c)
  BY <1>3, ClaimKeeps, NotClaimedKeeps, TokenMovesKeep, RecoverKeeps, ReobserveKeeps
<1>4. CASE Start(c) \/ Authority(c) \/ Git(c) \/ Persist(c) \/ PersistFails(c)
  BY <1>4, StartKeeps, AuthorityKeeps, GitKeeps, PersistKeeps, PersistFailsKeeps
<1>5. CASE DirectPersist(c) \/ Caught(c) \/ Finally(c) \/ Leave(c) \/ Observe(c)
  BY <1>5, DirectPersistKeeps, CaughtKeeps, TokenMovesKeep, LeaveKeeps, ObserveKeeps
<1> QED BY <1>1, <1>2, <1>3, <1>4, <1>5 DEF Call

(* Nor does a step that changes nothing.                                   *)
LEMMA SagaStutters ==
  ASSUME SagaInv, UNCHANGED vars
  PROVE  SagaInv'
<1>1. UNCHANGED <<setting, lease, lock, tree, action, active, caller, pass, crashes>>
  BY DEF vars
<1>2. CallersAreSane'
  <2>1. \A c \in Callers : Sane(caller[c])'
    BY <1>1, SaneStays DEF SagaInv, CallersAreSane
  <2> QED BY <1>1, <2>1, ActionsAreSame DEF SagaInv, CallersAreSane
<1>3. SagaTypes'
  BY <1>1, TypesStay DEF SagaInv, SagaTypes, TypeOK, PassesAreRead
<1> QED BY <1>1, <1>2, <1>3, LocksStay DEF SagaInv

(***************************************************************************)
(* For any number of keys, callers, processes and reconciliations, in      *)
(* every setting: the state of a release has its type; a caller has the    *)
(* key, the action and the token that its place needs; a reconciliation    *)
(* writes what it has read a reason for; and the lock row names the action *)
(* that the lease names.                                                   *)
(***************************************************************************)
THEOREM SagaHolds ==
  ASSUME ReleaseConstants, ProcessAssumption, SettingAssumption
  PROVE  Spec => []SagaInv
<1>1. SagaInv /\ [Next]_vars => SagaInv'
  <2>1. SUFFICES ASSUME SagaInv, [Next]_vars PROVE SagaInv'
    OBVIOUS
  <2>2. CASE UNCHANGED vars
    BY <2>1, <2>2, SagaStutters
  <2>3. ASSUME NEW c \in Callers, setting' = setting, Call(c) PROVE SagaInv'
    BY <2>1, <2>3, CallKeeps
  <2>4. CASE setting' = setting /\ (EndRun \/ TakeOver)
    BY <2>1, <2>4, SurroundingsKeep
  <2>5. ASSUME NEW t \in Scans, setting' = setting, Reconcile(t) PROVE SagaInv'
    BY <2>1, <2>5, PassKeeps
  <2>6. ASSUME NEW p \in Processes, setting' = setting, Crash(p) PROVE SagaInv'
    BY <2>1, <2>6, CrashKeeps
  <2> QED BY <2>1, <2>2, <2>3, <2>4, <2>5, <2>6 DEF Next
<1> QED BY <1>1, SagaStarts, PTL DEF Spec

(* Where a caller has made a claim of its own.                             *)
Claiming == {"claimed", "reobserve", "start", "authority", "git", "persist"}

(* No two claims have the same token.                                      *)
TokensDiffer ==
    \A c, d \in Callers :
        c # d /\ caller[c].at \in Claiming /\ caller[d].at \in Claiming =>
            caller[c].token # caller[d].token

(* Nothing says of the tree that it has been removed.                      *)
NothingGone ==
    /\ lease.state # "REMOVED"
    /\ \A o \in Ops : action[o].phase # "REMOVED"
    /\ \A c \in Callers : caller[c].result # "REMOVED"
    /\ \A t \in Scans : pass[t].verdict # "REMOVED"

(* What says so is right.                                                  *)
GoneInv == tree = "absent" \/ NothingGone

(* What a step makes of the row of a caller: a claim is kept or made with  *)
(* a fresh token, a removal is decided by what is there.                   *)
Steps(c, row) ==
    /\ caller' = [caller EXCEPT ![c] = row]
    /\ row.at \in Claiming =>
           \/ caller[c].at \in Claiming /\ row.token = caller[c].token
           \/ Unused # {} /\ row.token = Fresh
    /\ row.result = "REMOVED" =>
           caller[c].result = "REMOVED" \/ tree' = "absent" \/ lease.state = "REMOVED"

(* A caller that goes somewhere.                                           *)
LEMMA GoingSteps ==
  ASSUME SagaInv, NEW c \in Callers, NEW place, Goes(c, place),
         place \in Claiming => caller[c].at \in Claiming
  PROVE  \E row : Steps(c, row)
<1>1. PICK old : old = caller[c]
  OBVIOUS
<1>2. old \in Callings
  BY <1>1 DEF SagaInv, CallersAreSane
<1>3. PICK row : row = [old EXCEPT !.at = place]
  OBVIOUS
<1>4. row.at = place /\ row.token = old.token /\ row.result = old.result
  BY <1>2, <1>3 DEF Callings
<1>5. caller' = [caller EXCEPT ![c] = row]
  BY <1>1, <1>3 DEF Goes
<1> QED BY <1>1, <1>4, <1>5 DEF Steps

(* A caller that goes on with a result.                                    *)
LEMMA DecidingSteps ==
  ASSUME SagaInv, NEW c \in Callers, NEW place, NEW result,
         caller' = [caller EXCEPT ![c].at = place, ![c].result = result],
         place \in Claiming => caller[c].at \in Claiming,
         result = "REMOVED" => tree' = "absent" \/ lease.state = "REMOVED"
  PROVE  \E row : Steps(c, row)
<1>1. PICK old : old = caller[c]
  OBVIOUS
<1>2. old \in Callings
  BY <1>1 DEF SagaInv, CallersAreSane
<1>3. PICK row : row = [old EXCEPT !.at = place, !.result = result]
  OBVIOUS
<1>4. row.at = place /\ row.token = old.token /\ row.result = result
  BY <1>2, <1>3 DEF Callings
<1>5. caller' = [caller EXCEPT ![c] = row]
  BY <1>1, <1>3
<1> QED BY <1>1, <1>4, <1>5 DEF Steps

(* A caller that is answered.                                              *)
LEMMA AnswerSteps ==
  ASSUME NEW c \in Callers, Answer(c)
  PROVE  Steps(c, Idle)
<1>1. Idle.at = "idle" /\ Idle.result = "none"
  BY DEF Idle
<1> QED BY <1>1 DEF Steps, Answer, Claiming

(* A caller before its claim.                                              *)
LEMMA EarlySteps ==
  ASSUME SagaInv, NEW c \in Callers,
         \/ \E o \in setting.keys : Intent(c, o)
         \/ SurveyRemoved(c) \/ SurveyRecover(c) \/ SurveyBusy(c) \/ SurveyFree(c)
         \/ NotClaimed(c) \/ Recover(c) \/ Claim(c)
  PROVE  \E row : Steps(c, row)
<1>1. PICK old : old = caller[c]
  OBVIOUS
<1>2. old \in Callings
  BY <1>1 DEF SagaInv, CallersAreSane
<1>3. ASSUME NEW o \in setting.keys, Intent(c, o) PROVE \E row : Steps(c, row)
  <2>1. PICK row : row = [Idle EXCEPT !.at = "survey", !.op = o, !.seen = action'[o]]
    OBVIOUS
  <2>2. row.at = "survey" /\ row.result = "none"
    BY <2>1 DEF Idle
  <2> QED BY <1>3, <2>1, <2>2 DEF Intent, Steps, Claiming
<1>4. CASE SurveyRemoved(c) \/ SurveyBusy(c)
  BY <1>4, AnswerSteps DEF SurveyRemoved, SurveyBusy
<1>5. ASSUME NEW place \in {"recover", "claim"}, NEW o,
             caller' = [caller EXCEPT ![c].at = place, ![c].drives = o]
      PROVE  \E row : Steps(c, row)
  <2>1. PICK row : row = [old EXCEPT !.at = place, !.drives = o]
    OBVIOUS
  <2>2. row.at = place /\ row.result = old.result
    BY <1>2, <2>1 DEF Callings
  <2> QED BY <1>1, <1>5, <2>1, <2>2 DEF Steps, Claiming
<1>6. CASE SurveyRecover(c)
  BY <1>5, <1>6 DEF SurveyRecover
<1>7. CASE SurveyFree(c)
  BY <1>5, <1>7 DEF SurveyFree
<1>8. CASE NotClaimed(c)
  BY <1>8, AnswerSteps, GoingSteps DEF NotClaimed, Claiming
<1>9. CASE Recover(c)
  <2>1. PICK a : a = action[caller[c].drives]
    OBVIOUS
  <2>2. CASE Goes(c, "observe")
    BY <2>2, GoingSteps DEF Claiming
  <2>3. CASE tree' = "absent" /\ caller' = [caller EXCEPT ![c].at = "direct",
                 ![c].seen = a, ![c].token = a.token, ![c].result = "REMOVED"]
    <3>1. PICK row : row = [old EXCEPT !.at = "direct", !.seen = a, !.token = a.token,
                                       !.result = "REMOVED"]
      OBVIOUS
    <3>2. row.at = "direct"
      BY <1>2, <3>1 DEF Callings
    <3> QED BY <1>1, <2>3, <3>1, <3>2 DEF Steps, Claiming
  <2>4. CASE caller' = [caller EXCEPT ![c].at = "claim", ![c].seen = a]
    <3>1. PICK row : row = [old EXCEPT !.at = "claim", !.seen = a]
      OBVIOUS
    <3>2. row.at = "claim" /\ row.result = old.result
      BY <1>2, <3>1 DEF Callings
    <3> QED BY <1>1, <2>4, <3>1, <3>2 DEF Steps, Claiming
  <2> QED BY <1>9, <2>1, <2>2, <2>3, <2>4 DEF Recover
<1>10. CASE Claim(c)
  <2>1. PICK token : token = Fresh
    OBVIOUS
  <2>2. PICK row : row = [old EXCEPT !.at = "claimed", !.token = token, !.seen = NoAction]
    OBVIOUS
  <2>3. row.token = Fresh /\ row.result = old.result
    BY <1>2, <2>1, <2>2 DEF Callings
  <2>4. caller' = [caller EXCEPT ![c] = row] /\ Unused # {}
    BY <1>1, <1>10, <2>1, <2>2 DEF Claim
  <2> QED BY <1>1, <2>3, <2>4 DEF Steps
<1> QED BY <1>3, <1>4, <1>6, <1>7, <1>8, <1>9, <1>10

(* A caller that has claimed.                                              *)
LEMMA LateSteps ==
  ASSUME SagaInv, NEW c \in Callers,
         \/ Register(c) \/ Reobserve(c) \/ Start(c) \/ Authority(c) \/ Git(c)
         \/ Persist(c) \/ PersistFails(c) \/ DirectPersist(c)
         \/ Caught(c) \/ Finally(c) \/ Leave(c) \/ Observe(c)
  PROVE  \E row : Steps(c, row)
<1>1. CASE Register(c)
  BY <1>1, GoingSteps DEF Register, At, Claiming
<1>2. CASE Reobserve(c)
  <2>1. CASE Goes(c, "start")
    BY <1>2, <2>1, GoingSteps DEF Reobserve, At, Claiming
  <2>2. CASE /\ caller' = [caller EXCEPT ![c].at = "persist", ![c].result = "REMOVED"]
             /\ tree' = "absent" \/ lease.state = "REMOVED"
    BY <1>2, <2>2, DecidingSteps DEF Reobserve, At, Claiming
  <2> QED BY <1>2, <2>1, <2>2 DEF Reobserve, Listings
<1>3. CASE Start(c)
  <2>1. Goes(c, "authority") \/ \E result \in {"unauthorized", "not releasable"} :
          caller' = [caller EXCEPT ![c].at = "caught", ![c].result = result]
    BY <1>3 DEF Start, Fails
  <2> QED BY <1>3, <2>1, GoingSteps, DecidingSteps DEF Start, At, Claiming
<1>4. CASE Authority(c)
  BY <1>4, GoingSteps, DecidingSteps DEF Authority, At, Claiming
<1>5. CASE Git(c)
  <2>1. PICK result : /\ caller' = [caller EXCEPT ![c].at = "persist", ![c].result = result]
                      /\ result = "REMOVED" => tree' = "absent"
    BY <1>5 DEF Git, Persists
  <2> QED BY <1>5, <2>1, DecidingSteps DEF Git, At, Claiming
<1>6. CASE Persist(c) \/ Caught(c) \/ Finally(c) \/ DirectPersist(c)
  BY <1>6, GoingSteps DEF Persist, Caught, Finally, DirectPersist, Claiming
<1>7. CASE PersistFails(c)
  BY <1>7, DecidingSteps DEF PersistFails, Fails, Claiming
<1>8. CASE Leave(c)
  <2>1. PICK old : old = caller[c]
    OBVIOUS
  <2>2. PICK row : row = [old EXCEPT !.at = "observe", !.token = NoToken, !.result = "none"]
    OBVIOUS
  <2>3. row.at = "observe" /\ row.result = "none"
    BY <2>1, <2>2 DEF SagaInv, CallersAreSane, Callings
  <2>4. caller' = [caller EXCEPT ![c] = Idle] \/ caller' = [caller EXCEPT ![c] = row]
    BY <1>8, <2>1, <2>2 DEF Leave
  <2> QED BY <2>3, <2>4, AnswerSteps DEF Steps, Claiming, Answer
<1>9. CASE Observe(c)
  BY <1>9, AnswerSteps DEF Observe
<1> QED BY <1>1, <1>2, <1>3, <1>4, <1>5, <1>6, <1>7, <1>8, <1>9

(* Whoever a caller is.                                                    *)
LEMMA CallSteps ==
  ASSUME SagaInv, NEW c \in Callers, Call(c)
  PROVE  \E row : Steps(c, row)
BY EarlySteps, LateSteps DEF Call

(* One caller steps, and its token is its own.                             *)
LEMMA StepsDiffer ==
  ASSUME SagaInv, TokensDiffer, NEW c \in Callers, NEW row, Steps(c, row)
  PROVE  TokensDiffer'
<1>1. caller'[c] = row /\ \A d \in Callers : d # c => caller'[d] = caller[d]
  BY DEF Steps, SagaInv, CallersAreSane
<1>2. Unused # {} => \A d \in Callers : caller[d].token # Fresh
  BY FreshIsToken DEF Unused
<1>3. \A d \in Callers :
        d # c /\ row.at \in Claiming /\ caller[d].at \in Claiming => caller[d].token # row.token
  BY <1>2 DEF Steps, TokensDiffer
<1> QED BY <1>1, <1>3 DEF TokensDiffer

(* Who holds a claim has its token.                                        *)
LEMMA OneHoldsTheClaim ==
  ASSUME SagaInv, TokensDiffer
  PROVE  ClaimsAreExclusive
BY DEF ClaimsAreExclusive, HoldsClaim, HasClaim, TokensDiffer, Claiming

(* The tree does not come back.                                            *)
LEMMA AbsentStays ==
  ASSUME tree = "absent", [Next]_vars
  PROVE  tree' = "absent"
<1>1. ASSUME NEW c \in Callers, Call(c) PROVE tree' = "absent"
  <2>1. CASE \E o \in setting.keys : Intent(c, o)
    BY <2>1 DEF Intent
  <2>2. CASE SurveyRemoved(c) \/ SurveyRecover(c) \/ SurveyBusy(c) \/ SurveyFree(c)
    BY <2>2 DEF SurveyRemoved, SurveyRecover, SurveyBusy, SurveyFree
  <2>3. CASE Claim(c) \/ NotClaimed(c) \/ Register(c) \/ Recover(c) \/ Reobserve(c)
    BY <2>3 DEF Claim, NotClaimed, Register, Recover, Reobserve
  <2>4. CASE Start(c) \/ Authority(c) \/ Git(c) \/ Persist(c) \/ PersistFails(c)
    BY <2>4 DEF Start, Authority, Git, Persist, PersistFails
  <2>5. CASE DirectPersist(c) \/ Caught(c) \/ Finally(c) \/ Leave(c) \/ Observe(c)
    BY <2>5 DEF DirectPersist, Caught, Finally, Leave, Observe
  <2> QED BY <1>1, <2>1, <2>2, <2>3, <2>4, <2>5 DEF Call
<1>2. ASSUME NEW t \in Scans, Reconcile(t) PROVE tree' = "absent"
  BY <1>2 DEF Reconcile, FindInUse, RunHasEnded, PreserveEnded, FindClaimed, Correlate, Absent,
              Finalize, FindAction, LookAtLease, WriteAction, GiveUp, Finds, Resolves
<1>3. CASE EndRun \/ TakeOver \/ \E p \in Processes : Crash(p)
  BY <1>3 DEF EndRun, TakeOver, Crash
<1> QED BY <1>1, <1>2, <1>3 DEF Next, vars

(* While nothing is gone, no caller settles an action as removed, and none *)
(* gives the lease back as removed.                                        *)
LEMMA CallsTell ==
  ASSUME SagaInv, NothingGone, NEW c \in Callers, Call(c)
  PROVE  /\ lease'.state # "REMOVED" /\ pass' = pass
         /\ \A o \in Ops : action'[o].phase # "REMOVED"
<1>1. ASSUME NEW result, result # "REMOVED", NEW o, Record(o, result)
      PROVE  \A x \in Ops : action'[x].phase # "REMOVED"
  <2>1. PICK settled : settled = Settled(result)
    OBVIOUS
  <2>2. settled.phase = result
    BY <2>1 DEF Settled, NoAction
  <2>3. \A x \in Ops : action'[x] \in {action[x], settled}
    BY <1>1, <2>1, ActionsAreTyped DEF Record
  <2> QED BY <1>1, <2>2, <2>3 DEF NothingGone
<1>2. \A o \in Ops : Truth(o) # "REMOVED"
  BY DEF Truth, NothingGone
<1>3. ASSUME NEW o \in Ops, action' = [action EXCEPT ![o] = Abandoned(o)]
      PROVE  \A x \in Ops : action'[x].phase # "REMOVED"
  <2>1. PICK a : a = action[o]
    OBVIOUS
  <2>2. PICK left : left = Abandoned(o)
    OBVIOUS
  <2>3. left.phase = "REQUESTED"
    BY <2>1, <2>2, ActionsAreTyped DEF Abandoned, Actions
  <2>4. \A x \in Ops : action'[x] \in {action[x], left}
    BY <1>3, <2>2, ActionsAreTyped
  <2> QED BY <2>3, <2>4 DEF NothingGone
<1>4. ASSUME NEW o \in setting.keys, Intent(c, o)
      PROVE  /\ UNCHANGED <<lease, pass>>
             /\ \A x \in Ops : action'[x].phase # "REMOVED"
  <2>1. PICK requested : requested = Requested
    OBVIOUS
  <2>2. requested.phase = "REQUESTED"
    BY <2>1 DEF Requested, NoAction
  <2>3. \A x \in Ops : action'[x] \in {action[x], requested}
    BY <1>4, <2>1, ActionsAreTyped DEF Intent
  <2> QED BY <1>4, <2>2, <2>3 DEF Intent, NothingGone
<1>5. CASE SurveyRemoved(c) \/ SurveyRecover(c) \/ SurveyBusy(c) \/ SurveyFree(c)
  BY <1>1, <1>5 DEF SurveyRemoved, SurveyRecover, SurveyBusy, SurveyFree, NothingGone
<1>6. CASE NotClaimed(c) \/ Register(c) \/ Recover(c) \/ Reobserve(c) \/ Authority(c)
           \/ Git(c) \/ PersistFails(c) \/ Finally(c)
  BY <1>6 DEF NotClaimed, Register, Recover, Reobserve, Authority, Git, PersistFails, Finally,
              NothingGone
<1>7. CASE Claim(c)
  <2>1. PICK own : own = [phase |-> "EXECUTING", pid |-> <<ProcessOf[c], Pid(c)>>,
                          token |-> Fresh, recoverable |-> FALSE]
    OBVIOUS
  <2>2. own.phase = "EXECUTING"
    BY <2>1
  <2>3. \A x \in Ops : action'[x] \in {action[x], own}
    BY <1>7, <2>1, ActionsAreTyped DEF Claim
  <2> QED BY <1>7, <2>2, <2>3 DEF Claim, NothingGone
<1>8. CASE Start(c)
  <2>1. lease' = lease \/ lease' = ClaimedBy(caller[c].drives)
    BY <1>8 DEF Start
  <2>2. ClaimedBy(caller[c].drives).state = "RELEASE_REQUESTED"
    BY DEF ClaimedBy
  <2> QED BY <1>8, <2>1, <2>2 DEF Start, NothingGone
<1>9. CASE Persist(c)
  <2>1. caller[c].result = "REFUSED"
    BY <1>9 DEF Persist, At, SagaInv, CallersAreSane, Sane, NothingGone
  <2>2. lease' = LeaseAfter("REFUSED") /\ Record(caller[c].drives, "REFUSED") /\ pass' = pass
    BY <1>9, <2>1 DEF Persist
  <2>3. lease'.state = "PRESERVED"
    BY <2>2 DEF LeaseAfter
  <2> QED BY <1>1, <2>2, <2>3
<1>10. ~DirectPersist(c)
  BY DEF DirectPersist, At, SagaInv, CallersAreSane, Sane, NothingGone
<1>11. CASE Caught(c)
  <2>1. caller[c].drives \in Ops
    BY <1>11 DEF Caught, At, SagaInv, CallersAreSane, Sane
  <2>2. \/ action' = action
        \/ \E result \in {"REFUSED", "INTERRUPTED", Truth(caller[c].drives)} :
              Record(caller[c].drives, result)
        \/ action' = [action EXCEPT ![caller[c].drives] = Abandoned(caller[c].drives)]
    BY <1>11 DEF Caught, Record
  <2>3. Truth(caller[c].drives) # "REMOVED"
    BY <1>2, <2>1
  <2>4. \A x \in Ops : action'[x].phase # "REMOVED"
    BY <1>1, <1>3, <2>1, <2>2, <2>3 DEF NothingGone
  <2> QED BY <1>11, <2>4 DEF Caught, NothingGone
<1>12. CASE Leave(c)
  <2>1. caller[c].drives \in Ops
    BY <1>12 DEF Leave, At, SagaInv, CallersAreSane, Sane
  <2>2. \/ action' = action
        \/ action' = [action EXCEPT ![caller[c].drives] = Abandoned(caller[c].drives)]
    BY <1>12 DEF Leave
  <2>3. \A x \in Ops : action'[x].phase # "REMOVED"
    BY <1>3, <2>1, <2>2 DEF NothingGone
  <2> QED BY <1>12, <2>3 DEF Leave, NothingGone
<1>13. CASE Observe(c)
  <2>1. caller[c].drives \in Ops
    BY <1>13 DEF Observe, At, SagaInv, CallersAreSane, Sane
  <2>2. \E result : result # "REMOVED" /\ Record(caller[c].op, result)
    BY <1>2, <1>13, <2>1 DEF Observe
  <2> QED BY <1>1, <1>13, <2>2 DEF Observe, NothingGone
<1> QED BY <1>4, <1>5, <1>6, <1>7, <1>8, <1>9, <1>10, <1>11, <1>12, <1>13
        DEF Call, NothingGone

(* Nor does a reconciliation.                                              *)
LEMMA PassesTell ==
  ASSUME SagaInv, NothingGone, NEW t \in Scans, Reconcile(t)
  PROVE  tree = "absent" \/ NothingGone'
<1>1. ASSUME NEW row, pass' = [pass EXCEPT ![t] = row], row.verdict # "REMOVED"
      PROVE  \A u \in Scans : pass'[u].verdict # "REMOVED"
  <2>1. pass'[t] = row /\ \A u \in Scans : u # t => pass'[u] = pass[u]
    BY <1>1 DEF SagaInv, SagaTypes, PassesAreRead
  <2> QED BY <1>1, <2>1 DEF NothingGone
<1>2. ASSUME NEW row, ReadsOn(t, row) PROVE tree = "absent" \/ NothingGone'
  BY <1>1, <1>2 DEF ReadsOn, NothingGone
<1>3. CASE EndsReading(t)
  <2>1. caller' = caller /\ pass' = [pass EXCEPT ![t] = NoPass] /\ NoPass.verdict # "REMOVED"
    BY <1>3 DEF EndsReading, PreserveEnded, Finalize, WriteAction, GiveUp, Ends, NoPass
  <2>2. lease'.state # "REMOVED"
    <3>1. CASE PreserveEnded(t)
      BY <3>1, LeaseMoves DEF PreserveEnded
    <3>2. CASE Finalize(t) /\ lease' = LeaseAfter(pass[t].verdict)
      BY <3>2 DEF LeaseAfter, NothingGone
    <3>3. CASE UNCHANGED lease
      BY <3>3 DEF NothingGone
    <3> QED BY <1>3, <3>1, <3>2, <3>3 DEF EndsReading, Finalize, WriteAction, GiveUp
  <2>3. \A o \in Ops : action'[o].phase # "REMOVED"
    <3>1. CASE WriteAction(t)
      <4>1. PICK settled : settled = Settled(pass[t].verdict)
        OBVIOUS
      <4>2. settled.phase # "REMOVED"
        BY <4>1 DEF Settled, NoAction, NothingGone
      <4>3. \A x \in Ops : action'[x] \in {action[x], settled}
        BY <3>1, <4>1, ActionsAreTyped DEF WriteAction, Record
      <4> QED BY <4>2, <4>3 DEF NothingGone
    <3>2. CASE UNCHANGED action
      BY <3>2 DEF NothingGone
    <3> QED BY <1>3, <3>1, <3>2 DEF EndsReading, PreserveEnded, Finalize, GiveUp
  <2>4. \A u \in Scans : pass'[u].verdict # "REMOVED"
    BY <1>1, <2>1
  <2> QED BY <2>1, <2>2, <2>3, <2>4 DEF NothingGone
<1>4. CASE FindInUse(t) \/ FindClaimed(t) \/ (\E o \in Ops : FindAction(t, o))
  BY <1>2, <1>4, FindingReads
<1>5. CASE RunHasEnded(t) \/ Correlate(t) \/ Absent(t) \/ LookAtLease(t)
  BY <1>2, <1>5, ResolvingReads
<1> QED BY <1>3, <1>4, <1>5 DEF Reconcile, EndsReading

(* What is reported removed is gone, and no two claims have one token, in  *)
(* whatever surroundings.                                                  *)
LEMMA TruthHolds ==
  ASSUME ReleaseConstants, ProcessAssumption, SettingAssumption
  PROVE  Spec => [](SagaInv /\ GoneInv /\ TokensDiffer)
<1>1. Init => GoneInv /\ TokensDiffer
  <2>1. SUFFICES ASSUME Init PROVE GoneInv /\ TokensDiffer
    OBVIOUS
  <2>2. /\ action = [o \in Ops |-> NoAction] /\ caller = [c \in Callers |-> Idle]
        /\ pass = [t \in Scans |-> NoPass] /\ lease.state # "REMOVED"
    BY <2>1 DEF Init
  <2>3. NoAction.phase = "none" /\ Idle.at = "idle" /\ Idle.result = "none"
        /\ NoPass.verdict = "none"
    BY DEF NoAction, Idle, NoPass
  <2> QED BY <2>2, <2>3 DEF GoneInv, NothingGone, TokensDiffer, Claiming
<1>2. SagaInv /\ TokensDiffer /\ [Next]_vars => TokensDiffer'
  <2>1. SUFFICES ASSUME SagaInv, TokensDiffer, [Next]_vars PROVE TokensDiffer'
    OBVIOUS
  <2>2. ASSUME NEW c \in Callers, Call(c) PROVE TokensDiffer'
    BY <2>1, <2>2, CallSteps, StepsDiffer
  <2>3. CASE caller' = caller
    BY <2>1, <2>3 DEF TokensDiffer
  <2>4. ASSUME NEW p \in Processes, Crash(p) PROVE TokensDiffer'
    <3>1. \A c \in Callers : caller'[c] \in {Idle, caller[c]}
      BY <2>4 DEF Crash
    <3>2. Idle.at = "idle"
      BY DEF Idle
    <3> QED BY <2>1, <3>1, <3>2 DEF TokensDiffer, Claiming
  <2>5. (EndRun \/ TakeOver \/ \E t \in Scans : Reconcile(t)) => caller' = caller
    BY DEF EndRun, TakeOver, Reconcile, FindInUse, RunHasEnded, PreserveEnded, FindClaimed,
           Correlate, Absent, Finalize, FindAction, LookAtLease, WriteAction, GiveUp, Finds,
           Resolves
  <2> QED BY <2>1, <2>2, <2>3, <2>4, <2>5 DEF Next, vars
<1>3. SagaInv /\ GoneInv /\ [Next]_vars => GoneInv'
  <2>1. SUFFICES ASSUME SagaInv, NothingGone, tree # "absent", [Next]_vars
                 PROVE  tree' = "absent" \/ NothingGone'
    BY AbsentStays DEF GoneInv
  <2>2. ASSUME NEW c \in Callers, Call(c) PROVE tree' = "absent" \/ NothingGone'
    <3>1. PICK row : Steps(c, row)
      BY <2>1, <2>2, CallSteps
    <3>2. caller'[c] = row /\ \A d \in Callers : d # c => caller'[d] = caller[d]
      BY <2>1, <3>1 DEF Steps, SagaInv, CallersAreSane
    <3>3. row.result = "REMOVED" => tree' = "absent"
      BY <2>1, <3>1 DEF Steps, NothingGone
    <3>4. /\ lease'.state # "REMOVED" /\ pass' = pass
          /\ \A o \in Ops : action'[o].phase # "REMOVED"
      BY <2>1, <2>2, CallsTell
    <3> QED BY <2>1, <3>2, <3>3, <3>4 DEF NothingGone
  <2>3. ASSUME NEW t \in Scans, Reconcile(t) PROVE NothingGone'
    BY <2>1, <2>3, PassesTell
  <2>4. CASE EndRun \/ TakeOver
    BY <2>1, <2>4, LeaseMoves DEF EndRun, TakeOver, NothingGone
  <2>5. ASSUME NEW p \in Processes, Crash(p) PROVE NothingGone'
    <3>1. \A c \in Callers : caller'[c] \in {Idle, caller[c]}
      BY <2>5 DEF Crash
    <3>2. Idle.result = "none" /\ UNCHANGED <<lease, action, pass>>
      BY <2>5 DEF Idle, Crash
    <3> QED BY <2>1, <3>1, <3>2 DEF NothingGone
  <2>6. CASE UNCHANGED vars
    BY <2>1, <2>6 DEF vars, NothingGone
  <2> QED BY <2>1, <2>2, <2>3, <2>4, <2>5, <2>6 DEF Next
<1>4. Spec => []SagaInv
  BY SagaHolds
<1> QED BY <1>1, <1>2, <1>3, <1>4, PTL DEF Spec

(* One key, served by one process that alone sees its claims and whose     *)
(* database does not fail it.                                              *)
Quiet(k) ==
    /\ setting.keys = {k}
    /\ \A c, d \in Callers : ProcessOf[c] = ProcessOf[d]
    /\ ~Passing /\ ~Gap /\ ~Failing

(* No other action, no other owner.                                        *)
LEMMA NobodyElse ==
  ASSUME NEW k \in Ops, OneHolder(k), NEW c \in Callers, caller[c].at = "survey"
  PROVE  /\ caller[c].op = k /\ Others(c) = {} /\ ~OwnedByOther(c)
         /\ Working(c) = {} /\ Drivable(c) = {}
<1>1. caller[c].op = k
  BY DEF OneHolder, OwnCaller
<1>2. Others(c) = {}
  BY <1>1 DEF Others, IsPending, OneHolder, OneAction, Pending
<1>3. ~OwnedByOther(c)
  BY <1>1 DEF OwnedByOther, OneHolder, OneAction
<1>4. Working(c) = {}
  BY <1>2 DEF Working
<1> QED BY <1>1, <1>2, <1>3, <1>4 DEF Drivable

(* One caller moves on, and the others still drive their own key.          *)
LEMMA OwnCallersStay ==
  ASSUME NEW k \in Ops, OneHolder(k), NEW c \in Callers, NEW row, caller'[c] = row,
         \A d \in Callers : d # c => caller'[d] = caller[d],
         action[k].phase \in {"REMOVED", "REFUSED"} =>
             action'[k].phase \in {"REMOVED", "REFUSED"},
         row.at \notin {"recover", "observe", "reobserve", "direct"},
         row.at # "idle" => row.op = k,
         row.at \notin {"idle", "survey"} => row.drives = k,
         row.at \in {"finally", "leave"} => action'[k].phase \in {"REMOVED", "REFUSED"},
         row.at = "caught" => row.result = "not releasable"
  PROVE  \A d \in Callers : OwnCaller(d, k)'
<1>1. OwnCaller(c, k)'
  BY DEF OwnCaller
<1>2. ASSUME NEW d \in Callers, d # c PROVE OwnCaller(d, k)'
  <2>1. OwnCaller(d, k)
    BY DEF OneHolder
  <2>2. caller'[d] = caller[d]
    BY <1>2
  <2> QED BY <2>1, <2>2 DEF OwnCaller
<1> QED BY <1>1, <1>2

(* A caller that only moves.                                               *)
LEMMA QuietMove ==
  ASSUME NEW k \in Ops, OneHolder(k), CallersAreSane,
         UNCHANGED <<lease, action, pass, crashes>>,
         NEW c \in Callers, NEW row, caller' = [caller EXCEPT ![c] = row],
         \A d \in Callers : active[ProcessOf[d]] \subseteq active'[ProcessOf[d]],
         row.at \notin {"recover", "observe", "reobserve", "direct"},
         row.at # "idle" => row.op = k,
         row.at \notin {"idle", "survey"} => row.drives = k,
         row.at \in {"finally", "leave"} => action[k].phase \in {"REMOVED", "REFUSED"},
         row.at = "caught" => row.result = "not releasable",
         row.at \in Holding =>
             /\ caller[c].at \in Holding /\ row.token = caller[c].token
             /\ row.at \in {"authority", "git", "persist"} => lease.state = "RELEASE_REQUESTED",
         row.seen \in {caller[c].seen, NoAction, action[k]}
  PROVE  OneHolder(k)'
<1>1. caller'[c] = row /\ \A d \in Callers : d # c => caller'[d] = caller[d]
  BY DEF CallersAreSane
<1>2. OneAction(k)'
  BY DEF OneHolder, OneAction
<1>3. \A d \in Callers : OwnCaller(d, k)'
  BY <1>1, OwnCallersStay
<1>4. \A d \in Callers : SeesTheClaim(d, k)'
  <2>1. NoAction.phase # "EXECUTING"
    BY DEF NoAction
  <2>2. SeesTheClaim(c, k)'
    <3>1. action' = action /\ caller'[c].seen = row.seen
      BY <1>1
    <3>2. CASE row.seen = caller[c].seen
      BY <3>1, <3>2 DEF OneHolder, SeesTheClaim
    <3>3. CASE row.seen = NoAction
      BY <2>1, <3>1, <3>3 DEF SeesTheClaim
    <3>4. CASE row.seen = action[k]
      BY <3>1, <3>4 DEF SeesTheClaim
    <3> QED BY <3>2, <3>3, <3>4
  <2>3. ASSUME NEW d \in Callers, d # c PROVE SeesTheClaim(d, k)'
    <3>1. SeesTheClaim(d, k) /\ caller'[d] = caller[d] /\ action' = action
      BY <1>1, <2>3 DEF OneHolder
    <3> QED BY <3>1 DEF SeesTheClaim
  <2> QED BY <2>2, <2>3
<1>5. ASSUME NEW d \in Callers, caller'[d].at \in Holding
      PROVE  caller[d].at \in Holding /\ Holds(d)'
  <2>1. /\ caller[d].at \in Holding
        /\ caller'[d].token = caller[d].token
        /\ caller'[d].at \in {"authority", "git", "persist"} => lease.state = "RELEASE_REQUESTED"
    BY <1>1, <1>5 DEF OneHolder, Holds
  <2>2. caller[d].drives = k /\ caller'[d].drives = k
    BY <1>3, <1>5, <2>1 DEF OwnCaller, Holding, OneHolder
  <2>3. HasClaim(d) /\ Active(d, caller[d].token)
    BY <2>1 DEF OneHolder, Holds
  <2>4. HasClaim(d)'
    BY <2>1, <2>2, <2>3 DEF HasClaim, Mine, Pid
  <2>5. Active(d, caller[d].token)'
    BY <2>1, <2>3 DEF Active
  <2> QED BY <2>1, <2>4, <2>5 DEF Holds
<1> QED BY <1>2, <1>3, <1>4, <1>5 DEF OneHolder

(* Final actions have no holders.                                          *)
LEMMA HoldersExecute ==
  ASSUME NEW k \in Ops, OneHolder(k), NEW c \in Callers, caller[c].at \in Holding
  PROVE  /\ action[k].phase = "EXECUTING" /\ caller[c].drives = k /\ caller[c].op = k
         /\ HasClaim(c) /\ Active(c, caller[c].token)
<1>1. caller[c].drives = k /\ caller[c].op = k
  BY DEF OneHolder, OwnCaller, Holding
<1> QED BY <1>1 DEF OneHolder, Holds, HasClaim

(* The key is recorded once, before anybody holds it.                      *)
LEMMA IntentIsQuiet ==
  ASSUME NEW k \in Ops, Quiet(k), SagaInv, OneHolder(k), NEW c \in Callers,
         NEW o \in setting.keys, Intent(c, o)
  PROVE  OneHolder(k)'
<1>1. o = k /\ UNCHANGED <<lease, lock, tree, active, pass, crashes>>
  BY DEF Quiet, Intent
<1>2. PICK row : row = [Idle EXCEPT !.at = "survey", !.op = k, !.seen = action'[k]]
  OBVIOUS
<1>3. row.at = "survey" /\ row.op = k /\ row.seen = action'[k]
  BY <1>2 DEF Idle
<1>4. caller' = [caller EXCEPT ![c] = row]
  BY <1>1, <1>2 DEF Intent
<1>5. CASE action[k].phase \in Pending
  <2>1. action' = action
    BY <1>1, <1>5 DEF Intent, SagaInv, SagaTypes, TypeOK
  <2> QED BY <1>1, <1>3, <1>4, <2>1, QuietMove DEF Holding, SagaInv
<1>6. CASE action[k].phase \notin Pending
  <2>1. action[k].phase = "none"
    BY <1>1, <1>6 DEF Intent, OneHolder, OneAction
  <2>2. PICK requested : requested = Requested
    OBVIOUS
  <2>3. requested.phase = "REQUESTED"
    BY <2>2 DEF Requested, NoAction
  <2>4. action' = [action EXCEPT ![k] = requested]
    BY <1>1, <1>6, <2>2 DEF Intent
  <2>5. action'[k] = requested /\ \A x \in Ops : x # k => action'[x] = action[x]
    BY <2>4, ActionsAreTyped
  <2>6. caller'[c] = row /\ \A d \in Callers : d # c => caller'[d] = caller[d]
    BY <1>4 DEF SagaInv, CallersAreSane
  <2>7. OneAction(k)'
    BY <1>1, <2>1, <2>3, <2>5 DEF OneHolder, OneAction
  <2>8. \A d \in Callers : caller'[d].at \notin Holding
    BY <1>3, <2>1, <2>6, HoldersExecute DEF Holding
  <2>9. \A d \in Callers : OwnCaller(d, k)'
    BY <1>3, <2>1, <2>6, OwnCallersStay
  <2>10. \A d \in Callers : SeesTheClaim(d, k)'
    BY <2>3, <2>5 DEF SeesTheClaim
  <2> QED BY <2>7, <2>8, <2>9, <2>10 DEF OneHolder
<1> QED BY <1>5, <1>6

(* A survey finds no other action.                                         *)
LEMMA SurveysAreQuiet ==
  ASSUME NEW k \in Ops, Quiet(k), SagaInv, OneHolder(k), NEW c \in Callers,
         SurveyRemoved(c) \/ SurveyRecover(c) \/ SurveyBusy(c) \/ SurveyFree(c)
  PROVE  OneHolder(k)'
<1>1. caller[c].at = "survey"
  BY DEF SurveyRemoved, SurveyRecover, SurveyBusy, SurveyFree, At
<1>2. /\ caller[c].op = k /\ Others(c) = {} /\ ~OwnedByOther(c)
      /\ Working(c) = {} /\ Drivable(c) = {}
  BY <1>1, NobodyElse
<1>3. CASE SurveyRemoved(c)
  <2>1. PICK removed : removed = Settled("REMOVED")
    OBVIOUS
  <2>2. removed.phase = "REMOVED"
    BY <2>1 DEF Settled, NoAction
  <2>3. /\ lease.state = "REMOVED"
        /\ action' = [o \in Ops |-> IF o \in Others(c) \cup {caller[c].op}
                                    THEN removed ELSE action[o]]
        /\ UNCHANGED <<lease, lock, tree, active, pass, crashes>>
        /\ caller' = [caller EXCEPT ![c] = Idle]
    BY <1>3, <2>1 DEF SurveyRemoved, Answer
  <2>4. action[k].phase = "REMOVED"
    BY <2>3 DEF OneHolder, OneAction
  <2>5. action'[k] = removed /\ \A x \in Ops : x # k => action'[x] = action[x]
    BY <1>2, <2>3
  <2>6. caller'[c] = Idle /\ \A d \in Callers : d # c => caller'[d] = caller[d]
    BY <2>3 DEF SagaInv, CallersAreSane
  <2>7. OneAction(k)'
    BY <2>2, <2>3, <2>4, <2>5 DEF OneHolder, OneAction
  <2>8. Idle.at = "idle"
    BY DEF Idle
  <2>9. \A d \in Callers : caller'[d].at \notin Holding
    BY <2>4, <2>6, <2>8, HoldersExecute DEF Holding
  <2>10. \A d \in Callers : OwnCaller(d, k)'
    BY <2>2, <2>5, <2>6, <2>8, OwnCallersStay
  <2>11. \A d \in Callers : SeesTheClaim(d, k)'
    BY <2>2, <2>5 DEF SeesTheClaim
  <2> QED BY <2>7, <2>9, <2>10, <2>11 DEF OneHolder
<1>4. CASE SurveyRecover(c)
  BY <1>2, <1>4 DEF SurveyRecover
<1>5. CASE SurveyBusy(c)
  BY <1>2, <1>5 DEF SurveyBusy
<1>6. CASE SurveyFree(c)
  <2>1. PICK old : old = caller[c]
    OBVIOUS
  <2>2. old \in Callings
    BY <2>1 DEF SagaInv, CallersAreSane
  <2>3. PICK row : row = [old EXCEPT !.at = "claim", !.drives = k]
    OBVIOUS
  <2>4. row.at = "claim" /\ row.drives = k /\ row.op = k /\ row.seen = caller[c].seen
    BY <1>2, <2>1, <2>2, <2>3 DEF Callings
  <2>5. caller' = [caller EXCEPT ![c] = row]
    BY <1>2, <1>6, <2>1, <2>3 DEF SurveyFree
  <2>6. UNCHANGED <<lease, lock, tree, action, active, pass, crashes>>
    BY <1>6 DEF SurveyFree
  <2> QED BY <2>4, <2>5, <2>6, QuietMove DEF Holding, SagaInv
<1> QED BY <1>3, <1>4, <1>5, <1>6

(* Where no caller holds the action, a claim makes one; where one does,    *)
(* there is nothing to claim.                                              *)
LEMMA ClaimsAreQuiet ==
  ASSUME NEW k \in Ops, Quiet(k), SagaInv, OneHolder(k), NEW c \in Callers, Claim(c),
         ProcessAssumption, SettingAssumption
  PROVE  OneHolder(k)'
<1>1. caller[c].at = "claim" /\ caller[c].drives = k /\ caller[c].op = k
  BY DEF Claim, At, OneHolder, OwnCaller
<1>2. /\ Claimable(c, caller[c].seen) /\ Unchanged(k, caller[c].seen)
      /\ UNCHANGED <<lease, lock, tree, pass, crashes>>
  BY <1>1 DEF Claim
<1>3. \A d \in Callers : caller[d].at \notin Holding
  <2>1. SUFFICES ASSUME NEW d \in Callers, caller[d].at \in Holding PROVE FALSE
    OBVIOUS
  <2>2. HasClaim(d) /\ Active(d, caller[d].token) /\ caller[d].drives = k
    BY <2>1, HoldersExecute
  <2>3. action[k].phase = "EXECUTING" /\ Mine(d, action[k]) /\ action[k].token = caller[d].token
    BY <2>2 DEF HasClaim
  <2>4. caller[c].seen.phase = "EXECUTING" /\ caller[c].seen.token = action[k].token
    BY <1>2, <2>3 DEF Unchanged
  <2>5. caller[c].seen.pid = action[k].pid
    BY <2>3, <2>4 DEF OneHolder, SeesTheClaim
  <2>6. ProcessOf[c] = ProcessOf[d]
    BY DEF Quiet
  <2>7. Mine(c, caller[c].seen) /\ Active(c, caller[c].seen.token)
    BY <2>2, <2>3, <2>4, <2>5, <2>6 DEF Mine, Pid, Active
  <2> QED BY <1>2, <2>4, <2>7 DEF Claimable
<1>4. PICK token \in Tokens : token = Fresh /\ token \in Unused
  BY FreshIsToken DEF Claim
<1>5. PICK old : old = caller[c]
  OBVIOUS
<1>6. old \in Callings
  BY <1>5 DEF SagaInv, CallersAreSane
<1>7. PICK row : row = [old EXCEPT !.at = "claimed", !.token = token, !.seen = NoAction]
  OBVIOUS
<1>8. row.at = "claimed" /\ row.token = token /\ row.drives = k /\ row.op = k
      /\ row.seen = NoAction
  BY <1>1, <1>5, <1>6, <1>7 DEF Callings
<1>9. caller' = [caller EXCEPT ![c] = row]
  BY <1>4, <1>5, <1>7 DEF Claim
<1>10. caller'[c] = row /\ \A d \in Callers : d # c => caller'[d] = caller[d]
  BY <1>9 DEF SagaInv, CallersAreSane
<1>11. PICK own : own = [phase |-> "EXECUTING", pid |-> <<ProcessOf[c], Pid(c)>>,
                         token |-> token, recoverable |-> FALSE]
  OBVIOUS
<1>12. own.phase = "EXECUTING" /\ own.pid = <<ProcessOf[c], Pid(c)>> /\ own.token = token
  BY <1>11
<1>13. action' = [action EXCEPT ![k] = own]
  BY <1>1, <1>4, <1>11 DEF Claim
<1>14. action'[k] = own /\ \A x \in Ops : x # k => action'[x] = action[x]
  BY <1>13, ActionsAreTyped
<1>15. token \in active'[ProcessOf[c]]
  <2>1. ProcessOf[c] \in Processes
    BY DEF ProcessAssumption
  <2>2. active' = [active EXCEPT ![ProcessOf[c]] = @ \cup {token}]
    BY <1>4 DEF Claim, Quiet
  <2> QED BY <2>1, <2>2 DEF SagaInv, SagaTypes, TypeOK
<1>16. OneAction(k)'
  <2>1. action[k].phase \in Pending
    BY <1>2 DEF Claimable, Unchanged, Pending
  <2> QED BY <1>2, <1>12, <1>14, <2>1 DEF OneHolder, OneAction, Pending
<1>17. Holds(c)'
  <2>1. HasClaim(c)'
    BY <1>2, <1>8, <1>10, <1>12, <1>14 DEF HasClaim, Mine, Pid
  <2>2. Active(c, caller[c].token)'
    BY <1>8, <1>10, <1>15 DEF Active
  <2> QED BY <1>8, <1>10, <2>1, <2>2 DEF Holds
<1>18. \A d \in Callers : caller'[d].at \in Holding => d = c
  BY <1>3, <1>10
<1>19. \A d \in Callers : OwnCaller(d, k)'
  <2>1. action[k].phase \notin {"REMOVED", "REFUSED"}
    BY <1>2 DEF Claimable, Unchanged
  <2> QED BY <1>8, <1>10, <2>1, OwnCallersStay
<1>20. \A d \in Callers : SeesTheClaim(d, k)'
  <2>1. NoAction.phase # "EXECUTING"
    BY DEF NoAction
  <2>2. \A d \in Callers : caller[d].seen.token # token
    BY <1>4 DEF Unused
  <2> QED BY <1>8, <1>10, <1>12, <1>14, <2>1, <2>2 DEF SeesTheClaim
<1> QED BY <1>16, <1>17, <1>18, <1>19, <1>20 DEF OneHolder

(* A caller that goes on without a decision.                               *)
LEMMA QuietGoing ==
  ASSUME NEW k \in Ops, SagaInv, OneHolder(k), NEW c \in Callers,
         UNCHANGED <<lease, action, pass, crashes>>,
         \A d \in Callers : active[ProcessOf[d]] \subseteq active'[ProcessOf[d]],
         caller[c].at \in Holding,
         NEW place \in {"start", "authority", "git"}, Goes(c, place),
         place \in {"authority", "git"} => lease.state = "RELEASE_REQUESTED"
  PROVE  OneHolder(k)'
<1>1. PICK old : old = caller[c]
  OBVIOUS
<1>2. old \in Callings /\ old.at \in Holding /\ old.drives = k /\ old.op = k
  BY <1>1, HoldersExecute DEF SagaInv, CallersAreSane
<1>3. PICK row : row = [old EXCEPT !.at = place]
  OBVIOUS
<1>4. /\ row.at = place /\ row.drives = k /\ row.op = k /\ row.seen = caller[c].seen
      /\ row.token = caller[c].token
  BY <1>1, <1>2, <1>3 DEF Callings
<1>5. caller' = [caller EXCEPT ![c] = row]
  BY <1>1, <1>3 DEF Goes
<1> QED BY <1>1, <1>2, <1>4, <1>5, QuietMove DEF SagaInv

(* A caller that holds the action and has a result.                        *)
LEMMA QuietDeciding ==
  ASSUME NEW k \in Ops, SagaInv, OneHolder(k), NEW c \in Callers,
         UNCHANGED <<lease, action, active, pass, crashes>>,
         caller[c].at \in Holding,
         NEW place \in {"persist", "caught"}, NEW result,
         caller' = [caller EXCEPT ![c].at = place, ![c].result = result],
         place = "persist" => lease.state = "RELEASE_REQUESTED",
         place = "caught" => result = "not releasable"
  PROVE  OneHolder(k)'
<1>1. PICK old : old = caller[c]
  OBVIOUS
<1>2. old \in Callings /\ old.at \in Holding /\ old.drives = k /\ old.op = k
  BY <1>1, HoldersExecute DEF SagaInv, CallersAreSane
<1>3. PICK row : row = [old EXCEPT !.at = place, !.result = result]
  OBVIOUS
<1>4. /\ row.at = place /\ row.drives = k /\ row.op = k /\ row.seen = caller[c].seen
      /\ row.token = caller[c].token /\ row.result = result
  BY <1>1, <1>2, <1>3 DEF Callings
<1>5. caller' = [caller EXCEPT ![c] = row]
  BY <1>1, <1>3
<1> QED BY <1>1, <1>2, <1>4, <1>5, QuietMove DEF SagaInv

(* Who holds the action goes on to git with its claim.                     *)
LEMMA HoldingMovesAreQuiet ==
  ASSUME NEW k \in Ops, Quiet(k), SagaInv, OneHolder(k), NEW c \in Callers,
         Register(c) \/ Authority(c) \/ Git(c)
  PROVE  OneHolder(k)'
<1>1. /\ caller[c].at \in {"claimed", "authority", "git"}
      /\ UNCHANGED <<lease, lock, action, pass, crashes>>
  BY DEF Register, Authority, Git, At
<1>2. HasClaim(c) /\ Holds(c) /\ caller[c].drives = k /\ caller[c].op = k
  BY <1>1, HoldersExecute DEF Holding, OneHolder
<1>3. CASE Register(c)
  <2>1. Goes(c, "start")
    BY <1>2, <1>3 DEF Register
  <2>2. \A d \in Callers : active[ProcessOf[d]] \subseteq active'[ProcessOf[d]]
    BY <1>3 DEF Register, SagaInv, SagaTypes, TypeOK
  <2> QED BY <1>1, <2>1, <2>2, QuietGoing DEF Holding
<1>4. CASE Authority(c)
  <2>1. Goes(c, "git") /\ UNCHANGED active /\ lease.state = "RELEASE_REQUESTED"
    BY <1>2, <1>4 DEF Authority, Holds, At
  <2> QED BY <1>1, <2>1, QuietGoing DEF Holding
<1>5. CASE Git(c)
  <2>1. UNCHANGED active /\ lease.state = "RELEASE_REQUESTED"
    BY <1>2, <1>5 DEF Git, Holds, At
  <2>2. PICK result \in {"REMOVED", "REFUSED"} :
          caller' = [caller EXCEPT ![c].at = "persist", ![c].result = result]
    BY <1>5 DEF Git, Persists
  <2> QED BY <1>1, <2>1, <2>2, QuietDeciding DEF Holding
<1> QED BY <1>3, <1>4, <1>5

(* Who may not claim leaves.                                               *)
LEMMA NotClaimedIsQuiet ==
  ASSUME NEW k \in Ops, SagaInv, OneHolder(k), NEW c \in Callers, NotClaimed(c)
  PROVE  OneHolder(k)'
<1>1. caller[c].at = "claim" /\ UNCHANGED <<lease, lock, tree, action, active, pass, crashes>>
  BY DEF NotClaimed, At
<1>2. caller[c].drives = k /\ caller[c].op = k
  BY <1>1 DEF OneHolder, OwnCaller
<1>3. caller' = [caller EXCEPT ![c] = Idle]
  BY <1>2 DEF NotClaimed, Answer
<1>4. Idle.at = "idle" /\ Idle.seen = NoAction
  BY DEF Idle
<1> QED BY <1>1, <1>3, <1>4, QuietMove DEF SagaInv, Holding

(* The lease is claimed for the action, or cannot be released.             *)
LEMMA StartIsQuiet ==
  ASSUME NEW k \in Ops, Quiet(k), ReleaseConstants, SagaInv, OneHolder(k),
         NEW c \in Callers, Start(c)
  PROVE  OneHolder(k)'
<1>1. caller[c].at = "start" /\ UNCHANGED <<tree, action, active, pass, crashes>>
  BY DEF Start, At
<1>2. /\ HasClaim(c) /\ caller[c].drives = k /\ caller[c].op = k
      /\ action[k].phase = "EXECUTING"
  BY <1>1, HoldersExecute DEF Holding
<1>3. lease.state # "REMOVED" /\ lease.op \in {NoOp, k}
  BY <1>2 DEF OneHolder, OneAction
<1>4. CASE lease.state = "RELEASE_REQUESTED"
  <2>1. lease.op = k
    BY <1>3, <1>4 DEF SagaInv, LocksFollowTheLease
  <2>2. Goes(c, "authority") /\ UNCHANGED lease
    BY <1>2, <1>4, <2>1 DEF Start
  <2> QED BY <1>1, <1>4, <2>2, QuietGoing DEF Holding
<1>5. CASE lease.state \in {"IN_USE", "TRANSFERRED"}
  <2>1. Fails(c, "not releasable") /\ UNCHANGED lease
    BY <1>2, <1>5 DEF Start, Acquirable
  <2> QED BY <1>1, <2>1, QuietDeciding DEF Holding, Fails
<1>6. CASE lease.state \in {"PRESERVED", "FAILED"}
  <2>1. Acquirable(k)
    BY <1>6 DEF Acquirable, SagaInv, LocksFollowTheLease, IsPending, Quiet
  <2>2. lease' = ClaimedBy(k) /\ Goes(c, "authority")
    BY <1>2, <1>6, <2>1 DEF Start
  <2>3. lease'.op = k /\ lease'.state = "RELEASE_REQUESTED"
    BY <2>2 DEF ClaimedBy
  <2>4. PICK old : old = caller[c]
    OBVIOUS
  <2>5. old \in Callings
    BY <2>4 DEF SagaInv, CallersAreSane
  <2>6. PICK row : row = [old EXCEPT !.at = "authority"]
    OBVIOUS
  <2>7. /\ row.at = "authority" /\ row.drives = k /\ row.op = k
        /\ row.seen = caller[c].seen /\ row.token = caller[c].token
    BY <1>2, <2>4, <2>5, <2>6 DEF Callings
  <2>8. caller'[c] = row /\ \A d \in Callers : d # c => caller'[d] = caller[d]
    BY <2>2, <2>4, <2>6 DEF Goes, SagaInv, CallersAreSane
  <2>9. OneAction(k)'
    BY <1>1, <2>3 DEF OneHolder, OneAction
  <2>10. \A d \in Callers : caller'[d].at \in Holding => d = c
    BY <1>1, <2>8 DEF OneHolder, Holding
  <2>11. Holds(c)'
    <3>1. Active(c, caller[c].token)
      BY <1>1, HoldersExecute DEF Holding
    <3>2. HasClaim(c)' /\ Active(c, caller[c].token)'
      BY <1>1, <1>2, <2>7, <2>8, <3>1 DEF HasClaim, Mine, Pid, Active
    <3> QED BY <2>3, <3>2 DEF Holds
  <2>12. \A d \in Callers : OwnCaller(d, k)'
    BY <1>1, <2>7, <2>8 DEF OneHolder, OwnCaller
  <2>13. \A d \in Callers : SeesTheClaim(d, k)'
    BY <1>1, <2>7, <2>8 DEF OneHolder, SeesTheClaim
  <2> QED BY <2>9, <2>10, <2>11, <2>12, <2>13 DEF OneHolder
<1> QED BY <1>3, <1>4, <1>5, <1>6 DEF SagaInv, SagaTypes, TypeOK, LeaseStates

(* The holder settles its action, and holds it no longer.                  *)
LEMMA SettlingIsQuiet ==
  ASSUME NEW k \in Ops, SagaInv, OneHolder(k), NEW c \in Callers,
         caller[c].at \in Holding, NEW result \in {"REMOVED", "REFUSED"},
         Record(k, result), Goes(c, "finally"),
         UNCHANGED <<active, pass, crashes>>,
         lease'.op \in {NoOp, k}, lease'.state = "REMOVED" => result = "REMOVED"
  PROVE  OneHolder(k)'
<1>1. PICK settled : settled = Settled(result)
  OBVIOUS
<1>2. settled.phase = result
  BY <1>1 DEF Settled, NoAction
<1>3. action'[k] = settled /\ \A x \in Ops : x # k => action'[x] = action[x]
  BY <1>1, ActionsAreTyped DEF Record
<1>4. PICK old : old = caller[c]
  OBVIOUS
<1>5. old \in Callings /\ old.op = k /\ old.drives = k
  BY <1>4, HoldersExecute DEF SagaInv, CallersAreSane
<1>6. PICK row : row = [old EXCEPT !.at = "finally"]
  OBVIOUS
<1>7. row.at = "finally" /\ row.drives = k /\ row.op = k
  BY <1>5, <1>6 DEF Callings
<1>8. caller'[c] = row /\ \A d \in Callers : d # c => caller'[d] = caller[d]
  BY <1>4, <1>6 DEF Goes, SagaInv, CallersAreSane
<1>9. OneAction(k)'
  BY <1>2, <1>3 DEF OneHolder, OneAction
<1>10. \A d \in Callers : caller'[d].at \notin Holding
  BY <1>7, <1>8 DEF OneHolder, Holding
<1>11. \A d \in Callers : OwnCaller(d, k)'
  BY <1>2, <1>3, <1>7, <1>8, OwnCallersStay
<1>12. \A d \in Callers : SeesTheClaim(d, k)'
  BY <1>2, <1>3 DEF SeesTheClaim
<1> QED BY <1>9, <1>10, <1>11, <1>12 DEF OneHolder

(* The last transaction settles the action: nothing refuses it to who      *)
(* holds the claim, and nothing else fails.                                *)
LEMMA EndingsAreQuiet ==
  ASSUME NEW k \in Ops, Quiet(k), ReleaseConstants, SagaInv, OneHolder(k), NEW c \in Callers,
         Persist(c) \/ PersistFails(c) \/ Caught(c)
  PROVE  OneHolder(k)'
<1>1. caller[c].at \in {"persist", "caught"} /\ UNCHANGED <<active, pass, crashes>>
  BY DEF Persist, PersistFails, Caught, At
<1>2. /\ Holds(c) /\ HasClaim(c) /\ caller[c].drives = k /\ caller[c].op = k
      /\ action[k].phase = "EXECUTING"
  BY <1>1, HoldersExecute DEF Holding, OneHolder
<1>3. CASE Persist(c)
  <2>1. PICK result \in {"REMOVED", "REFUSED"} : result = caller[c].result
    BY <1>3 DEF Persist, At, SagaInv, CallersAreSane, Sane
  <2>2. lease' = LeaseAfter(result) /\ Record(k, result) /\ Goes(c, "finally")
    BY <1>2, <1>3, <2>1 DEF Persist
  <2>3. lease'.op = NoOp /\ (lease'.state = "REMOVED" => result = "REMOVED")
    BY <2>2 DEF LeaseAfter
  <2> QED BY <1>1, <2>2, <2>3, SettlingIsQuiet DEF Holding
<1>4. CASE PersistFails(c)
  <2>1. lease.state = "RELEASE_REQUESTED"
    BY <1>2, <1>4 DEF PersistFails, At, Holds
  <2>2. lease.op = k /\ lock = k
    BY <2>1 DEF SagaInv, LocksFollowTheLease, OneHolder, OneAction
  <2>3. Persistable(c)
    BY <1>2, <2>2 DEF Persistable, HasClaim, Pending
  <2> QED BY <1>4, <2>3 DEF PersistFails, Quiet
<1>5. CASE Caught(c)
  <2>1. caller[c].result = "not releasable"
    BY <1>5 DEF Caught, At, OneHolder, OwnCaller
  <2>2. Record(k, "REFUSED") /\ Goes(c, "finally") /\ UNCHANGED lease
    BY <1>2, <1>5, <2>1 DEF Caught, Record
  <2>3. lease.state # "REMOVED"
    BY <1>2 DEF OneHolder, OneAction
  <2>4. lease'.op \in {NoOp, k}
    BY <2>2 DEF OneHolder, OneAction
  <2> QED BY <1>1, <2>2, <2>3, <2>4, SettlingIsQuiet DEF Holding
<1> QED BY <1>3, <1>4, <1>5

(* A token goes out of use only when its action is settled.                *)
LEMMA FinallyIsQuiet ==
  ASSUME NEW k \in Ops, SagaInv, OneHolder(k), NEW c \in Callers, Finally(c)
  PROVE  OneHolder(k)'
<1>1. caller[c].at = "finally" /\ UNCHANGED <<lease, lock, tree, action, pass, crashes>>
  BY DEF Finally, At
<1>2. caller[c].op = k /\ caller[c].drives = k /\ action[k].phase \in {"REMOVED", "REFUSED"}
  BY <1>1 DEF OneHolder, OwnCaller
<1>3. PICK old : old = caller[c]
  OBVIOUS
<1>4. old \in Callings
  BY <1>3 DEF SagaInv, CallersAreSane
<1>5. PICK row : row = [old EXCEPT !.at = "leave"]
  OBVIOUS
<1>6. row.at = "leave" /\ row.drives = k /\ row.op = k
  BY <1>2, <1>3, <1>4, <1>5 DEF Callings
<1>7. caller'[c] = row /\ \A d \in Callers : d # c => caller'[d] = caller[d]
  BY <1>3, <1>5 DEF Finally, Goes, SagaInv, CallersAreSane
<1>8. OneAction(k)'
  BY <1>1 DEF OneHolder, OneAction
<1>9. \A d \in Callers : caller'[d].at \notin Holding
  BY <1>2, <1>6, <1>7, HoldersExecute DEF Holding
<1>10. \A d \in Callers : OwnCaller(d, k)'
  BY <1>1, <1>2, <1>6, <1>7 DEF OneHolder, OwnCaller
<1>11. \A d \in Callers : SeesTheClaim(d, k)'
  BY <1>1, <1>2 DEF SeesTheClaim
<1> QED BY <1>8, <1>9, <1>10, <1>11 DEF OneHolder

(* A settled action is left as it is.                                      *)
LEMMA LeaveIsQuiet ==
  ASSUME NEW k \in Ops, SagaInv, OneHolder(k), NEW c \in Callers, Leave(c)
  PROVE  OneHolder(k)'
<1>1. caller[c].at = "leave" /\ UNCHANGED <<lease, lock, tree, active, pass, crashes>>
  BY DEF Leave, At
<1>2. caller[c].op = k /\ caller[c].drives = k /\ action[k].phase \in {"REMOVED", "REFUSED"}
  BY <1>1 DEF OneHolder, OwnCaller
<1>3. action' = action
  BY <1>2 DEF Leave, StillOwns, IsPending, Pending
<1>4. caller' = [caller EXCEPT ![c] = Idle]
  BY <1>2 DEF Leave
<1>5. Idle.at = "idle" /\ Idle.seen = NoAction
  BY DEF Idle
<1> QED BY <1>1, <1>3, <1>4, <1>5, QuietMove DEF SagaInv, Holding

(* Nobody drives another's action.                                         *)
LEMMA NobodyDrivesOthers ==
  ASSUME NEW k \in Ops, OneHolder(k), NEW c \in Callers,
         Recover(c) \/ Reobserve(c) \/ DirectPersist(c) \/ Observe(c)
  PROVE  FALSE
BY DEF OneHolder, OwnCaller, Recover, Reobserve, DirectPersist, Observe, At

(* No step of a caller makes a second one hold the action.                 *)
LEMMA QuietCalls ==
  ASSUME NEW k \in Ops, Quiet(k), ReleaseConstants, ProcessAssumption, SettingAssumption,
         SagaInv, OneHolder(k), NEW c \in Callers, Call(c)
  PROVE  OneHolder(k)'
<1>1. CASE \E o \in setting.keys : Intent(c, o)
  BY <1>1, IntentIsQuiet
<1>2. CASE SurveyRemoved(c) \/ SurveyRecover(c) \/ SurveyBusy(c) \/ SurveyFree(c)
  BY <1>2, SurveysAreQuiet
<1>3. CASE Claim(c) \/ NotClaimed(c)
  BY <1>3, ClaimsAreQuiet, NotClaimedIsQuiet
<1>4. CASE Recover(c) \/ Reobserve(c) \/ DirectPersist(c) \/ Observe(c)
  BY <1>4, NobodyDrivesOthers
<1>5. CASE Register(c) \/ Authority(c) \/ Git(c)
  BY <1>5, HoldingMovesAreQuiet
<1>6. CASE Start(c)
  BY <1>6, StartIsQuiet
<1>7. CASE Persist(c) \/ PersistFails(c) \/ Caught(c)
  BY <1>7, EndingsAreQuiet
<1>8. CASE Finally(c) \/ Leave(c)
  BY <1>8, FinallyIsQuiet, LeaveIsQuiet
<1> QED BY <1>1, <1>2, <1>3, <1>4, <1>5, <1>6, <1>7, <1>8 DEF Call

(* The run that ends and the continuation touch the lease only while       *)
(* nobody has claimed it.                                                  *)
LEMMA QuietSurroundings ==
  ASSUME NEW k \in Ops, Quiet(k), SagaInv, OneHolder(k),
         EndRun \/ TakeOver
  PROVE  OneHolder(k)'
<1>1. PICK state \in {"PRESERVED", "TRANSFERRED"} :
        /\ lease.state # "RELEASE_REQUESTED" /\ lease' = [lease EXCEPT !.state = state]
        /\ UNCHANGED <<lock, tree, action, active, caller, pass, crashes>>
  BY DEF EndRun, TakeOver
<1>2. lease \in [state : LeaseStates, op : Ops \cup {NoOp}, failed : BOOLEAN]
  BY DEF SagaInv, SagaTypes, TypeOK
<1>3. lease'.op = lease.op /\ lease'.state = state
  BY <1>1, <1>2
<1>4. OneAction(k)'
  BY <1>1, <1>3 DEF OneHolder, OneAction
<1>5. \A d \in Callers : OwnCaller(d, k)' /\ SeesTheClaim(d, k)'
  BY <1>1 DEF OneHolder, OwnCaller, SeesTheClaim
<1>6. \A d \in Callers : caller[d].at \in Holding => Holds(d)'
  BY <1>1 DEF OneHolder, Holds, HasClaim, Mine, Pid, Active
<1> QED BY <1>1, <1>4, <1>5, <1>6 DEF OneHolder

(* Where no reconciliation runs, none reads.                               *)
LEMMA NobodyReconciles ==
  ASSUME NEW k \in Ops, Quiet(k), SagaInv, NEW t \in Scans, Reconcile(t)
  PROVE  FALSE
<1>1. ~Passing /\ pass[t] = NoPass
  BY DEF Quiet, SagaInv, PassesFit
<1> QED BY <1>1, NoPassIsRead
        DEF Reconcile, FindInUse, RunHasEnded, PreserveEnded, FindClaimed, Correlate, Absent,
            Finalize, FindAction, LookAtLease, WriteAction, GiveUp, Finds

(* A crash takes the one that holds the action with its process.           *)
LEMMA QuietCrash ==
  ASSUME NEW k \in Ops, Quiet(k), SagaInv, OneHolder(k), NEW p \in Processes, Crash(p),
         ProcessAssumption
  PROVE  OneHolder(k)'
<1>1. /\ UNCHANGED <<lease, lock, action, pass>>
      /\ caller' = [c \in Callers |-> IF ProcessOf[c] = p THEN Idle ELSE caller[c]]
      /\ crashes' = [crashes EXCEPT ![p] = @ + 1]
      /\ active' = [active EXCEPT ![p] = {}]
  BY DEF Crash
<1>2. OneAction(k)'
  BY <1>1 DEF OneHolder, OneAction
<1>3. Idle.at = "idle" /\ Idle.seen.phase # "EXECUTING"
  BY DEF Idle, NoAction
<1>4. \A d \in Callers : caller'[d] \in {Idle, caller[d]}
  BY <1>1
<1>5. \A d \in Callers : OwnCaller(d, k)' /\ SeesTheClaim(d, k)'
  <2>1. TAKE d \in Callers
  <2>2. CASE caller'[d] = Idle
    BY <1>1, <1>3, <2>2 DEF OwnCaller, SeesTheClaim
  <2>3. CASE caller'[d] = caller[d]
    BY <1>1, <2>3 DEF OneHolder, OwnCaller, SeesTheClaim
  <2> QED BY <1>4, <2>2, <2>3
<1>6. \A d \in Callers : caller'[d].at \in Holding =>
        caller'[d] = caller[d] /\ ProcessOf[d] # p
  BY <1>1, <1>3 DEF Holding
<1>7. ASSUME NEW d \in Callers, caller'[d].at \in Holding PROVE Holds(d)'
  <2>1. caller'[d] = caller[d] /\ ProcessOf[d] # p /\ Holds(d) /\ ProcessOf[d] \in Processes
    BY <1>6, <1>7 DEF OneHolder, ProcessAssumption
  <2>2. /\ crashes'[ProcessOf[d]] = crashes[ProcessOf[d]]
        /\ active'[ProcessOf[d]] = active[ProcessOf[d]]
    BY <1>1, <2>1 DEF SagaInv, SagaTypes, TypeOK
  <2> QED BY <1>1, <2>1, <2>2 DEF Holds, HasClaim, Mine, Pid, Active
<1>8. \A c, d \in Callers : (caller'[c].at \in Holding /\ caller'[d].at \in Holding) => c = d
  BY <1>6 DEF OneHolder
<1> QED BY <1>2, <1>5, <1>7, <1>8 DEF OneHolder

(* Nobody holds the action at first.                                       *)
LEMMA QuietStart ==
  ASSUME NEW k \in Ops, Init
  PROVE  OneHolder(k)
<1>1. /\ pass = [t \in Scans |-> NoPass] /\ action = [o \in Ops |-> NoAction]
      /\ caller = [c \in Callers |-> Idle]
      /\ lease.op = NoOp /\ lease.state # "REMOVED"
  BY DEF Init
<1>2. NoAction.phase = "none" /\ Idle.at = "idle"
  BY DEF NoAction, Idle
<1>3. OneAction(k)
  BY <1>1, <1>2 DEF OneAction
<1>4. \A c \in Callers : caller[c].at = "idle" /\ action[k].phase = "none"
  BY <1>1, <1>2
<1> QED BY <1>3, <1>4 DEF OneHolder, OwnCaller, SeesTheClaim, Holding

(* Nor does a step that changes nothing.                                   *)
LEMMA QuietStutter ==
  ASSUME NEW k \in Ops, OneHolder(k), UNCHANGED vars
  PROVE  OneHolder(k)'
BY DEF vars, OneHolder, OneAction, OwnCaller, SeesTheClaim, Holds, HasClaim, Mine, Pid, Active

(* Whichever the key is.                                                   *)
OrderlyInv == \A k \in Ops : Quiet(k) => OneHolder(k)

(* Whoever is at git holds the action.                                     *)
LEMMA OneHolderOneGit ==
  ASSUME NEW k \in Ops, OneHolder(k)
  PROVE  OneGitAtATime
<1>1. \A c, d \in {x \in Callers : At(x, "git")} : c = d
  BY DEF At, OneHolder, Holding
<1>2. CASE {c \in Callers : At(c, "git")} = {}
  BY <1>2, FS_EmptySet DEF OneGitAtATime
<1>3. CASE {c \in Callers : At(c, "git")} # {}
  <2>1. PICK c : {x \in Callers : At(x, "git")} = {c}
    BY <1>1, <1>3
  <2> QED BY <2>1, FS_Singleton DEF OneGitAtATime
<1> QED BY <1>2, <1>3

(***************************************************************************)
(* For any number of keys, callers, processes and reconciliations, in      *)
(* every setting: lock row and lease name one action, a tree that is       *)
(* reported removed is gone, and a claim has one holder - whatever keys    *)
(* are repeated, whatever dies, fails and is read too early or written too *)
(* late. Lease and lock are also left together where the run had ended     *)
(* before, or nothing reconciles; and where the setting is orderly, one    *)
(* caller at a time is at git, however often the process dies.             *)
(***************************************************************************)
THEOREM ReleasesHold ==
  ASSUME ReleaseConstants, ProcessAssumption, SettingAssumption
  PROVE  Spec => []ReleasesAreExclusive
<1>1. SagaInv /\ OrderlyInv /\ [Next]_vars => OrderlyInv'
  <2>1. SUFFICES ASSUME SagaInv, OrderlyInv, [Next]_vars, NEW k \in Ops, Quiet(k)'
                 PROVE  OneHolder(k)'
    BY DEF OrderlyInv
  <2>2. setting' = setting
    BY <2>1 DEF Next, vars
  <2>3. Quiet(k) /\ OneHolder(k)
    BY <2>1, <2>2 DEF OrderlyInv, Quiet, Passing, Gap, Failing
  <2>4. CASE UNCHANGED vars
    BY <2>3, <2>4, QuietStutter
  <2>5. ASSUME NEW c \in Callers, Call(c) PROVE OneHolder(k)'
    BY <2>1, <2>3, <2>5, QuietCalls
  <2>6. CASE EndRun \/ TakeOver
    BY <2>1, <2>3, <2>6, QuietSurroundings
  <2>7. ASSUME NEW t \in Scans, Reconcile(t) PROVE OneHolder(k)'
    BY <2>1, <2>3, <2>7, NobodyReconciles
  <2>8. ASSUME NEW p \in Processes, Crash(p) PROVE OneHolder(k)'
    BY <2>1, <2>3, <2>8, QuietCrash
  <2> QED BY <2>1, <2>4, <2>5, <2>6, <2>7, <2>8 DEF Next
<1>2. Init => OrderlyInv
  BY QuietStart DEF OrderlyInv
<1>3. SagaInv /\ OrderlyInv => (Orderly => OneGitAtATime)
  <2>1. SUFFICES ASSUME SagaInv, OrderlyInv, Orderly PROVE OneGitAtATime
    OBVIOUS
  <2>2. PICK k \in Ops : Quiet(k)
    BY <2>1 DEF Orderly, Undisturbed, Quiet
  <2> QED BY <2>1, <2>2, OneHolderOneGit DEF OrderlyInv
<1>4. Spec => [](SagaInv /\ GoneInv /\ TokensDiffer)
  BY TruthHolds
<1>5. SagaInv /\ GoneInv /\ TokensDiffer /\ (Orderly => OneGitAtATime)
        => ReleasesAreExclusive
  <2>1. GoneInv => RemovedIsGone
    BY DEF GoneInv, NothingGone, RemovedIsGone
  <2>2. SagaInv /\ TokensDiffer => ClaimsAreExclusive
    BY OneHoldsTheClaim
  <2> QED BY <2>1, <2>2 DEF ReleasesAreExclusive, SagaInv
<1> QED BY <1>1, <1>2, <1>3, <1>4, <1>5, PTL DEF Spec

-----------------------------------------------------------------------------
(* The team that works in it.                                              *)

(* Workers have names of their own, batches are finite, answers have the   *)
(* form their schema asks for.                                             *)
TeamConstants ==
    /\ MaxIterations \in Nat \ {0} /\ MaxTotalWorkers \in Nat
    /\ "planner" \notin Tasks /\ "verify" \notin Tasks
    /\ \A b \in Batches : Len(b) \in Nat /\ \A k \in DOMAIN b : b[k].task \in Tasks
    /\ Slips \subseteq [iteration : Nat, base : Nat]
    /\ Decisions \subseteq {"ACCEPT", "FAIL", "WAIT_FOR_HUMAN", "CONTINUE", "garbage"}

(* A sequence of whatever it holds.                                        *)
Counted(s) == Len(s) \in Nat /\ s = [n \in 1..Len(s) |-> s[n]]

(* The rows have their columns, and what is counted is a number.           *)
TeamTypes ==
    /\ run \in [phase : Team!Live \cup Team!Terminal, iteration : Team!Numbers, workers : Nat]
    /\ execution = [status |-> execution.status, revision |-> execution.revision,
                    reason |-> execution.reason]
    /\ execution.revision \in Nat
    /\ iteration = [n \in Team!Numbers |->
                       [planner |-> iteration[n].planner, pending |-> iteration[n].pending,
                        batch |-> iteration[n].batch, accepted |-> iteration[n].accepted,
                        decision |-> iteration[n].decision]]
    /\ Counted(proposals)
    /\ \A k \in 1..Len(proposals) :
           proposals[k] = [iteration |-> proposals[k].iteration, base |-> proposals[k].base,
                           batch |-> proposals[k].batch, status |-> proposals[k].status]
    /\ step = [s \in Team!Steps |->
                  [status |-> step[s].status, outcome |-> step[s].outcome,
                   attempts |-> step[s].attempts, frozen |-> step[s].frozen,
                   answer |-> step[s].answer, after |-> step[s].after,
                   onFailure |-> step[s].onFailure, retries |-> step[s].retries]]

(* Status and outcome of a step, and what it was answered.                 *)
StepsTell ==
    \A s \in Team!Steps :
        /\ step[s].attempts \in Nat /\ step[s].frozen \in Nat
        /\ step[s].outcome = "RUNNING" <=> step[s].status = "RUNNING"
        /\ step[s].outcome = "SUCCESS" <=> step[s].status = "COMPLETED"
        /\ (step[s].outcome = "SUCCESS" /\ s[1] = "planner") =>
               step[s].answer \in [batch : Batches, iteration : Nat, base : Nat]
        /\ (step[s].outcome = "SUCCESS" /\ s[1] = "verify") =>
               step[s].answer \in [action : Decisions, iteration : Int]

(* A step that has been answered.                                          *)
Answered(s) == s \in Team!Steps /\ step[s].outcome = "SUCCESS"

(* A pass that goes on to an answer has found it.                          *)
Knows(row) ==
    /\ row.at \in {"planner", "submit", "verifier", "consume"} => row.iteration \in Team!Numbers
    /\ row.at = "submit" => Answered(Team!Planner(row.iteration))
    /\ row.at \in {"verifier", "consume"} => iteration[row.iteration].accepted # 0
    /\ row.at = "consume" => Answered(Team!Verifier(row.iteration))

(* Every pass is a row that knows what it goes on with.                    *)
PassesKnow ==
    /\ teamPass = [p \in Passes |->
                  [at |-> teamPass[p].at, iteration |-> teamPass[p].iteration,
                   batch |-> teamPass[p].batch,
                   retrying |-> teamPass[p].retrying, seen |-> teamPass[p].seen]]
    /\ \A p \in Passes : Knows(teamPass[p])

(* While an iteration is planned it has the proposal that is pending, or   *)
(* none.                                                                   *)
ProposalsTell ==
    /\ \A k \in 1..Len(proposals) :
           /\ proposals[k].iteration \in 1..run.iteration /\ proposals[k].batch \in Batches
           /\ (run.phase = "PLANNING" /\ proposals[k].iteration = run.iteration) =>
                  iteration[run.iteration].pending = k
    /\ \A n \in Team!Numbers : iteration[n].pending # 0 =>
           /\ iteration[n].pending \in 1..Len(proposals)
           /\ proposals[iteration[n].pending].iteration = n
    /\ Team!OneProposalPerIteration

(* What has been admitted stems from an accepted proposal and an answered  *)
(* planner; iterations to come are untouched.                              *)
Admitted(n) ==
    /\ \E k \in 1..Len(proposals) :
           proposals[k].iteration = n /\ proposals[k].status = "ACCEPTED"
    /\ Answered(Team!Planner(n))
    /\ step[Team!Verifier(n)].after = Team!WorkersOf(iteration[n].batch, n)

(* What each iteration is in, by the phase of its run.                     *)
IterationsTell ==
    \A n \in Team!Numbers :
        /\ iteration[n].accepted \in Nat
        /\ ~iteration[n].planner => step[Team!Planner(n)].status = "absent"
        /\ iteration[n].accepted # 0 => iteration[n].batch \in Batches /\ Admitted(n)
        /\ iteration[n].accepted = 0 =>
               iteration[n].batch = <<>> /\ iteration[n].decision = Team!NoDecision
        /\ n > run.iteration => iteration[n].accepted = 0
        /\ n = run.iteration =>
               /\ run.phase = "PLANNING" => iteration[n].accepted = 0
               /\ run.phase \in {"WORKING", "VERIFYING", "WAITING_FOR_HUMAN"} =>
                      iteration[n].accepted # 0
               /\ run.phase = "WAITING_FOR_HUMAN" =>
                      iteration[n].decision.action = "WAIT_FOR_HUMAN"

(* The inductive invariant of the loop.                                    *)
TeamInv ==
    /\ TeamTypes /\ StepsTell /\ PassesKnow
    /\ ProposalsTell /\ IterationsTell
    /\ Team!BatchWasPlannedOnItsBase
    /\ Team!LimitsHold /\ Team!IterationsAreEarned /\ Team!DecisionAfterItsWorkers
    /\ Team!CompletedReleasesHold /\ Team!EndedRunsPreserve

(* Appending to a sequence of whatever it holds.                           *)
LEMMA CountedGrows ==
    ASSUME NEW s, NEW x, Counted(s)
    PROVE  /\ Counted(Append(s, x)) /\ Len(Append(s, x)) = Len(s) + 1
           /\ \A n \in 1..Len(s) : Append(s, x)[n] = s[n]
           /\ Append(s, x)[Len(s) + 1] = x
           /\ DOMAIN s = 1..Len(s) /\ DOMAIN Append(s, x) = 1..(Len(s) + 1)
           /\ Append(s, x) # <<>>
<1>1. PICK S : S = {s[n] : n \in 1..Len(s)} \cup {x}
  OBVIOUS
<1>2. s \in [1..Len(s) -> S] /\ Len(s) \in Nat
  BY <1>1 DEF Counted
<1>3. s \in Seq(S) /\ x \in S
  BY <1>1, <1>2
<1>4. PICK t : t = Append(s, x)
  OBVIOUS
<1>5. /\ t \in Seq(S) /\ Len(t) = Len(s) + 1 /\ t[Len(s) + 1] = x
      /\ \A n \in 1..Len(s) : t[n] = s[n]
  BY <1>3, <1>4, AppendProperties
<1>6. t \in [1..Len(t) -> S] /\ DOMAIN t = 1..Len(t)
  BY <1>5, LenProperties
<1>7. t = [n \in 1..Len(t) |-> t[n]] /\ Len(t) \in Nat
  BY <1>2, <1>5, <1>6
<1>8. t # <<>>
  BY <1>2, <1>5
<1> QED
  BY <1>2, <1>4, <1>5, <1>6, <1>7, <1>8 DEF Counted

(* How each event moves the run.                                           *)
LEMMA PhasesMove ==
    ASSUME NEW phase
    PROVE  /\ phase \in Team!Terminal => \A event : Team!Applied(phase, event) = phase
           /\ phase \notin Team!Terminal =>
                  /\ Team!Applied(phase, "plannerProposed") = "BATCH_VALIDATION"
                  /\ Team!Applied(phase, "batchValidated") = "WORKING"
                  /\ Team!Applied(phase, "workersFinished") = "VERIFYING"
                  /\ Team!Applied(phase, "accept") = "ACCEPTED"
                  /\ Team!Applied(phase, "continue") = "PLANNING"
                  /\ Team!Applied(phase, "wait") = "WAITING_FOR_HUMAN"
                  /\ Team!Applied(phase, "approvalGranted") = "DECIDING"
                  /\ Team!Applied(phase, "approvalDenied") = "FAILED"
                  /\ Team!Applied(phase, "fail") = "FAILED"
                  /\ Team!Applied(phase, "deadline") = "LIMIT_REACHED"
                  /\ Team!Applied(phase, "cancel") = "CANCELLED"
                  /\ Team!Applied(phase, "limitReached") = "LIMIT_REACHED"
  BY DEF Team!Applied, Team!To

(* Nothing is planned at first.                                            *)
LEMMA TeamStart == TeamConstants /\ Team!Init => TeamInv
<1> SUFFICES ASSUME TeamConstants, Team!Init PROVE TeamInv
  OBVIOUS
<1>1. 1 \in Team!Numbers
  BY DEF TeamConstants, Team!Numbers
<1>2. TeamTypes /\ StepsTell
  BY <1>1 DEF TeamTypes, StepsTell, Team!Init, Counted, Team!NewIteration, Team!NoStep,
     Team!Live, Team!Terminal
<1>3. PassesKnow
  BY DEF PassesKnow, Knows, Team!Init, Team!IdlePass
<1>4. ProposalsTell /\ IterationsTell
  BY <1>1 DEF ProposalsTell, IterationsTell, Team!OneProposalPerIteration, Team!Init,
     Team!NewIteration, Team!NoStep, Team!Numbers, Team!Steps, Team!Planner
<1>5. Team!BatchWasPlannedOnItsBase
  BY DEF Team!BatchWasPlannedOnItsBase, Team!Init, Team!NewIteration
<1>6. Team!LimitsHold
  <2> DEFINE none == [n \in 0..MaxIterations |-> 0]
  <2>1. /\ none \in [0..MaxIterations -> 0..run.workers]
        /\ none[0] = 0 /\ none[MaxIterations] = run.workers
    BY DEF TeamConstants, Team!Init
  <2>2. \A n \in Team!Numbers : none[n] = none[n - 1] + Len(iteration[n].batch)
    BY DEF TeamConstants, Team!Init, Team!NewIteration, Team!Numbers
  <2>3. run.iteration <= MaxIterations /\ run.workers <= MaxTotalWorkers
    BY DEF TeamConstants, Team!Init
  <2> HIDE DEF none
  <2>4. \E total \in [0..MaxIterations -> 0..run.workers] :
            /\ total[0] = 0 /\ total[MaxIterations] = run.workers
            /\ \A n \in Team!Numbers : total[n] = total[n - 1] + Len(iteration[n].batch)
    BY <2>1, <2>2
  <2> QED
    BY <2>3, <2>4 DEF Team!LimitsHold
<1>7. Team!IterationsAreEarned /\ Team!DecisionAfterItsWorkers
  BY DEF Team!IterationsAreEarned, Team!DecisionAfterItsWorkers, Team!Init,
     Team!NewIteration, Team!NoStep, Team!Numbers, Team!Steps, Team!Verifier
<1>8. Team!CompletedReleasesHold /\ Team!EndedRunsPreserve
  BY DEF Team!CompletedReleasesHold, Team!EndedRunsPreserve, Team!Init, Team!Terminal
<1> QED
  BY <1>2, <1>3, <1>4, <1>5, <1>6, <1>7, <1>8 DEF TeamInv

(* A pass that has done what it came for, or was refused.                  *)
PassRests == UNCHANGED teamPass \/ \E p \in Passes : Team!Ends(p) \/ Team!Goes(p, "refused")

(* What passes know stays true.                                            *)
AnswersStay ==
    \A n \in Team!Numbers :
        /\ Answered(Team!Planner(n)) => Answered(Team!Planner(n))'
        /\ iteration[n].accepted # 0 =>
               /\ iteration'[n].accepted # 0
               /\ Answered(Team!Verifier(n)) => Answered(Team!Verifier(n))'

(* A pass keeps what it has found.                                         *)
LEMMA PassesStay ==
    ASSUME PassesKnow, PassRests, AnswersStay
    PROVE  PassesKnow'
<1>1. \A row : Knows(row) => Knows(row)'
  BY DEF Knows, AnswersStay
<1>2. CASE UNCHANGED teamPass
  BY <1>1, <1>2 DEF PassesKnow
<1>3. ASSUME NEW p \in Passes, Team!Ends(p) PROVE PassesKnow'
  BY <1>1, <1>3 DEF PassesKnow, Team!Ends, Team!IdlePass, Knows
<1>4. ASSUME NEW p \in Passes, Team!Goes(p, "refused") PROVE PassesKnow'
  <2> PICK old : old = teamPass[p]
    OBVIOUS
  <2> PICK row : row = [old EXCEPT !.at = "refused"]
    OBVIOUS
  <2>1. /\ row = [at |-> "refused", iteration |-> old.iteration, batch |-> old.batch,
                  retrying |-> old.retrying, seen |-> old.seen]
        /\ teamPass' = [teamPass EXCEPT ![p] = row]
    BY <1>4 DEF PassesKnow, Team!Goes
  <2>2. Knows(row)'
    BY <2>1 DEF Knows
  <2>3. \A q \in Passes : q # p => teamPass'[q] = teamPass[q]
    BY <2>1 DEF PassesKnow
  <2> QED
    BY <1>1, <2>1, <2>2, <2>3 DEF PassesKnow
<1> QED
  BY <1>2, <1>3, <1>4 DEF PassRests

(* Nothing but the memory of a pass changes.                               *)
LEMMA ReadingKeeps ==
    ASSUME TeamInv, UNCHANGED <<run, execution, loopLease, iteration, proposals, step>>, PassesKnow'
    PROVE  TeamInv'
<1>1. TeamTypes' /\ StepsTell'
  BY DEF TeamInv, TeamTypes, StepsTell
<1>2. ProposalsTell' /\ IterationsTell'
  BY DEF TeamInv, ProposalsTell, Team!OneProposalPerIteration, IterationsTell, Admitted,
     Answered
<1>3. Team!BatchWasPlannedOnItsBase' /\ Team!LimitsHold' /\ Team!IterationsAreEarned'
  BY DEF TeamInv, Team!BatchWasPlannedOnItsBase, Team!LimitsHold, Team!IterationsAreEarned
<1>4. Team!DecisionAfterItsWorkers' /\ Team!CompletedReleasesHold' /\ Team!EndedRunsPreserve'
  BY DEF TeamInv, Team!DecisionAfterItsWorkers, Team!Settled, Team!CompletedReleasesHold,
     Team!EndedRunsPreserve
<1> QED
  BY <1>1, <1>2, <1>3, <1>4 DEF TeamInv

(* The steps go on: answers stay, settled steps stay settled, and none is  *)
(* tried before what it waits for.                                         *)
StepsGoOn ==
    /\ \A n \in Team!Numbers :
           /\ ~iteration'[n].planner => step'[Team!Planner(n)].status = "absent"
           /\ step'[Team!Verifier(n)].after = step[Team!Verifier(n)].after
    /\ \A s \in Team!Steps :
           /\ step[s].outcome = "SUCCESS" =>
                  step'[s].outcome = "SUCCESS" /\ step'[s].frozen = step[s].frozen
           /\ Team!Settled(s) => Team!Settled(s)'
           /\ step'[s].attempts > 0 =>
                  step[s].attempts > 0 \/ \A d \in step[s].after : Team!Settled(d)

(* Of an iteration only its planner is created.                            *)
IterationRowsStay ==
    \A n \in Team!Numbers :
        /\ iteration'[n].pending = iteration[n].pending
        /\ iteration'[n].batch = iteration[n].batch
        /\ iteration'[n].accepted = iteration[n].accepted
        /\ iteration'[n].decision = iteration[n].decision

(* Steps go on, and rows of iterations keep what was admitted.             *)
LEMMA StepsKeep ==
    ASSUME TeamConstants, TeamInv, StepsGoOn, IterationRowsStay, UNCHANGED <<run, proposals>>
    PROVE  /\ ProposalsTell' /\ IterationsTell' /\ Team!BatchWasPlannedOnItsBase'
           /\ Team!LimitsHold' /\ Team!IterationsAreEarned' /\ Team!DecisionAfterItsWorkers'
           /\ AnswersStay
<1>1. \A n \in Team!Numbers : Team!Planner(n) \in Team!Steps /\ Team!Verifier(n) \in Team!Steps
  BY DEF Team!Planner, Team!Verifier, Team!Steps
<1>2. ProposalsTell'
  BY DEF TeamInv, TeamTypes, ProposalsTell, Team!OneProposalPerIteration, IterationRowsStay
<1>3. Team!LimitsHold'
  BY DEF TeamInv, Team!LimitsHold, IterationRowsStay
<1>4. Team!IterationsAreEarned'
  <2>1. \A n \in 2..run.iteration : n - 1 \in Team!Numbers
    BY DEF TeamConstants, TeamInv, TeamTypes, Team!Numbers
  <2> QED
    BY <2>1 DEF TeamInv, Team!IterationsAreEarned, IterationRowsStay
<1>5. IterationsTell'
  <2>1. \A n \in Team!Numbers : iteration[n].accepted # 0 => Admitted(n)'
    BY <1>1 DEF TeamInv, IterationsTell, Admitted, Answered, StepsGoOn, IterationRowsStay,
       Team!WorkersOf
  <2> QED
    BY <2>1 DEF TeamInv, IterationsTell, StepsGoOn, IterationRowsStay
<1>6. Team!BatchWasPlannedOnItsBase' /\ AnswersStay
  BY <1>1 DEF TeamInv, IterationsTell, Admitted, Answered, StepsGoOn, IterationRowsStay,
     Team!BatchWasPlannedOnItsBase, AnswersStay
<1>7. ASSUME NEW n \in Team!Numbers, step'[Team!Verifier(n)].attempts > 0,
             NEW s \in Team!WorkersOf(iteration[n].batch, n)
      PROVE  Team!Settled(s)'
  <2>1. iteration[n].accepted # 0 /\ iteration[n].batch \in Batches
    BY <1>7 DEF TeamInv, IterationsTell, Team!WorkersOf
  <2>2. s \in Team!Steps
    BY <1>7, <2>1 DEF TeamConstants, Team!WorkersOf, Team!Steps
  <2>3. step[Team!Verifier(n)].after = Team!WorkersOf(iteration[n].batch, n)
    BY <2>1 DEF TeamInv, IterationsTell, Admitted
  <2>4. Team!Settled(s)
    BY <1>1, <1>7, <2>3 DEF TeamInv, Team!DecisionAfterItsWorkers, StepsGoOn
  <2> QED
    BY <2>2, <2>4 DEF StepsGoOn
<1>8. Team!DecisionAfterItsWorkers'
  BY <1>7 DEF TeamInv, Team!DecisionAfterItsWorkers, IterationRowsStay
<1> QED
  BY <1>2, <1>3, <1>8, <1>4, <1>5, <1>6

(* A step of the execution that is not one of the loop.                    *)
LEMMA WorkKeeps ==
    ASSUME TeamConstants, TeamInv, NEW s \in Team!Steps,
           Team!Claim(s) \/ Team!StepSucceeds(s) \/ Team!StepFails(s)
    PROVE  TeamInv'
<1> USE DEF TeamInv
<1>1. PICK old : old = step[s]
  OBVIOUS
<1>2. /\ step = [q \in Team!Steps |-> step[q]]
      /\ old = [status |-> old.status, outcome |-> old.outcome, attempts |-> old.attempts,
                frozen |-> old.frozen, answer |-> old.answer, after |-> old.after,
                onFailure |-> old.onFailure, retries |-> old.retries]
      /\ old.attempts \in Nat /\ old.frozen \in Nat /\ execution.revision \in Nat
      /\ old.outcome = "RUNNING" <=> old.status = "RUNNING"
      /\ old.outcome = "SUCCESS" <=> old.status = "COMPLETED"
  BY <1>1 DEF TeamTypes, StepsTell
<1>3. PICK row :
         /\ step' = [step EXCEPT ![s] = row]
         /\ row = [status |-> row.status, outcome |-> row.outcome, attempts |-> row.attempts,
                   frozen |-> row.frozen, answer |-> row.answer, after |-> old.after,
                   onFailure |-> old.onFailure, retries |-> old.retries]
         /\ row.attempts \in Nat /\ row.frozen \in Nat
         /\ old.status \in {"READY", "RETRYING", "RUNNING"}
         /\ \/ /\ row.status = "RUNNING" /\ row.outcome = "RUNNING"
               /\ \A d \in old.after : Team!Settled(d)
            \/ /\ row.status = "COMPLETED" /\ row.outcome = "SUCCESS"
               /\ row.answer \in Team!Answers(s) /\ row.attempts = old.attempts
            \/ /\ row.status \in {"RETRYING", "FAILED"} /\ row.outcome = "FAILED"
               /\ row.attempts = old.attempts
  <2>1. CASE Team!Claim(s)
    <3> PICK frozen \in Nat, attempts \in Nat :
            frozen = execution.revision /\ attempts = old.attempts + 1
      BY <1>2
    <3>1. PICK row : row = [old EXCEPT !.status = "RUNNING", !.outcome = "RUNNING",
                                       !.attempts = attempts, !.frozen = frozen]
      OBVIOUS
    <3>2. step' = [step EXCEPT ![s] = row]
      BY <1>1, <2>1, <3>1 DEF Team!Claim
    <3>3. old.status \in {"READY", "RETRYING"} /\ \A d \in old.after : Team!Settled(d)
      BY <1>1, <2>1 DEF Team!Claim
    <3>4. /\ row = [status |-> row.status, outcome |-> row.outcome, attempts |-> row.attempts,
                 frozen |-> row.frozen, answer |-> row.answer, after |-> old.after,
                 onFailure |-> old.onFailure, retries |-> old.retries]
          /\ row.attempts \in Nat /\ row.frozen \in Nat
          /\ row.status = "RUNNING" /\ row.outcome = "RUNNING"
      BY <1>2, <3>1
    <3> QED
      BY <3>2, <3>3, <3>4
  <2>2. CASE Team!StepSucceeds(s)
    <3>1. PICK answer \in Team!Answers(s) :
             step' = [step EXCEPT ![s].status = "COMPLETED", ![s].outcome = "SUCCESS",
                                  ![s].answer = answer]
      BY <2>2 DEF Team!StepSucceeds
    <3>2. PICK row : row = [old EXCEPT !.status = "COMPLETED", !.outcome = "SUCCESS",
                                       !.answer = answer]
      OBVIOUS
    <3>3. step' = [step EXCEPT ![s] = row]
      BY <1>1, <3>1, <3>2
    <3>4. old.status = "RUNNING"
      BY <1>1, <1>2, <2>2 DEF Team!StepSucceeds
    <3>5. /\ row = [status |-> row.status, outcome |-> row.outcome, attempts |-> row.attempts,
                 frozen |-> row.frozen, answer |-> row.answer, after |-> old.after,
                 onFailure |-> old.onFailure, retries |-> old.retries]
          /\ row.attempts \in Nat /\ row.frozen \in Nat
          /\ row.status = "COMPLETED" /\ row.outcome = "SUCCESS"
          /\ row.answer \in Team!Answers(s) /\ row.attempts = old.attempts
      BY <1>2, <3>1, <3>2
    <3> QED
      BY <3>3, <3>4, <3>5
  <2>3. CASE Team!StepFails(s)
    <3>1. PICK after_ \in {"RETRYING", "FAILED"} :
             step' = [step EXCEPT ![s].status = after_, ![s].outcome = "FAILED"]
      BY <2>3 DEF Team!StepFails
    <3>2. PICK row : row = [old EXCEPT !.status = after_, !.outcome = "FAILED"]
      OBVIOUS
    <3>3. step' = [step EXCEPT ![s] = row]
      BY <1>1, <3>1, <3>2
    <3>4. old.status = "RUNNING"
      BY <1>1, <1>2, <2>3 DEF Team!StepFails
    <3>5. /\ row = [status |-> row.status, outcome |-> row.outcome, attempts |-> row.attempts,
                 frozen |-> row.frozen, answer |-> row.answer, after |-> old.after,
                 onFailure |-> old.onFailure, retries |-> old.retries]
          /\ row.attempts \in Nat /\ row.frozen \in Nat
          /\ row.status \in {"RETRYING", "FAILED"} /\ row.outcome = "FAILED"
          /\ row.attempts = old.attempts
      BY <1>2, <3>1, <3>2
    <3> QED
      BY <3>3, <3>4, <3>5
  <2> QED
    BY <2>1, <2>2, <2>3
<1>4. UNCHANGED <<run, loopLease, iteration, proposals, teamPass>>
  BY DEF Team!Claim, Team!StepSucceeds, Team!StepFails
<1>5. UNCHANGED execution \/ \E reason : execution' =
          [status |-> "FAILED", revision |-> execution.revision, reason |-> reason]
  BY DEF Team!Claim, Team!StepSucceeds, Team!StepFails, Team!FailExecution, TeamTypes
<1>6. TeamTypes'
  <2>1. /\ execution' = [status |-> execution'.status, revision |-> execution'.revision,
                         reason |-> execution'.reason]
        /\ execution'.revision \in Nat
    BY <1>5 DEF TeamTypes
  <2>2. step' = [q \in Team!Steps |->
                    [status |-> step'[q].status, outcome |-> step'[q].outcome,
                     attempts |-> step'[q].attempts, frozen |-> step'[q].frozen,
                     answer |-> step'[q].answer, after |-> step'[q].after,
                     onFailure |-> step'[q].onFailure, retries |-> step'[q].retries]]
    BY <1>3 DEF TeamTypes
  <2> QED
    BY <1>4, <2>1, <2>2 DEF TeamTypes, Counted
<1>7. StepsTell'
  <2>1. row.outcome = "SUCCESS" /\ s[1] = "planner" =>
            row.answer \in [batch : Batches, iteration : Nat, base : Nat]
    BY SMTT(30), <1>1, <1>2, <1>3 DEF Team!Answers, TeamConstants, Team!Steps, Team!Numbers
  <2>2. row.outcome = "SUCCESS" /\ s[1] = "verify" =>
            row.answer \in [action : Decisions, iteration : Int]
    BY <1>3 DEF Team!Answers, TeamConstants, Team!Steps, Team!Numbers
  <2> QED
    BY <1>2, <1>3, <2>1, <2>2 DEF StepsTell
<1>8. StepsGoOn /\ IterationRowsStay
  <2>1. \A n \in Team!Numbers : Team!Planner(n) \in Team!Steps /\ Team!Verifier(n) \in Team!Steps
    BY DEF Team!Planner, Team!Verifier, Team!Steps
  <2>2. \A n \in Team!Numbers :
           /\ ~iteration'[n].planner => step'[Team!Planner(n)].status = "absent"
           /\ step'[Team!Verifier(n)].after = step[Team!Verifier(n)].after
    <3>1. \A q \in Team!Steps : q # s => step'[q] = step[q]
      BY <1>2, <1>3
    <3>2. step'[s].after = step[s].after
      BY <1>1, <1>2, <1>3
    <3>3. \A n \in Team!Numbers : ~iteration[n].planner => Team!Planner(n) # s
      BY <1>1, <1>3 DEF IterationsTell
    <3> QED
      BY <1>4, <2>1, <3>1, <3>2, <3>3 DEF IterationsTell
  <2>3. \A q \in Team!Steps :
           /\ step[q].outcome = "SUCCESS" =>
                  step'[q].outcome = "SUCCESS" /\ step'[q].frozen = step[q].frozen
           /\ Team!Settled(q) => Team!Settled(q)'
           /\ step'[q].attempts > 0 =>
                  step[q].attempts > 0 \/ \A d \in step[q].after : Team!Settled(d)
    BY <1>1, <1>2, <1>3 DEF Team!Settled
  <2> QED
    BY <1>4, <2>2, <2>3 DEF StepsGoOn, IterationRowsStay
<1>9. PassesKnow'
  BY <1>8, <1>4, PassesStay, StepsKeep DEF PassRests
<1>10. Team!CompletedReleasesHold' /\ Team!EndedRunsPreserve'
  BY <1>5, <1>4 DEF Team!CompletedReleasesHold, Team!EndedRunsPreserve
<1> QED
  BY <1>6, <1>7, <1>8, <1>9, <1>10, <1>4, StepsKeep

(* A pass that only reads, or finds itself refused.                        *)
Reads(p) ==
    \/ Team!Begin(p) \/ Team!LookAtPlanner(p) \/ Team!LookAtVerifier(p)
    \/ Team!ReadWorkerStep(p) \/ Team!ReadWorkerAttempt(p)
    \/ Team!SubmitThrows(p) \/ Team!ConsumeThrows(p)

(* A pass that reads goes on with what it has read.                        *)
LEMMA ReadsKeep ==
    ASSUME TeamInv, NEW p \in Passes, Reads(p)
    PROVE  TeamInv'
<1> PICK old : old = teamPass[p]
  OBVIOUS
<1>1. UNCHANGED <<run, execution, loopLease, iteration, proposals, step>>
  BY DEF Reads, Team!Begin, Team!LookAtPlanner, Team!LookAtVerifier, Team!ReadWorkerStep,
     Team!ReadWorkerAttempt, Team!SubmitThrows, Team!ConsumeThrows
<1>2. /\ teamPass = [q \in Passes |-> teamPass[q]]
      /\ old = [at |-> old.at, iteration |-> old.iteration, batch |-> old.batch,
                retrying |-> old.retrying, seen |-> old.seen]
      /\ \A q \in Passes : Knows(teamPass[q])
      /\ run.iteration \in Team!Numbers
  BY DEF TeamInv, PassesKnow, TeamTypes
<1>3. ASSUME NEW row, teamPass' = [teamPass EXCEPT ![p] = row], Knows(row),
             row = [at |-> row.at, iteration |-> row.iteration, batch |-> row.batch,
                    retrying |-> row.retrying, seen |-> row.seen]
      PROVE  TeamInv'
  <2>1. \A q \in Passes : Knows(teamPass'[q])
    BY <1>2, <1>3
  <2>2. teamPass' = [q \in Passes |->
                    [at |-> teamPass'[q].at, iteration |-> teamPass'[q].iteration,
                     batch |-> teamPass'[q].batch, retrying |-> teamPass'[q].retrying,
                     seen |-> teamPass'[q].seen]]
    BY <1>2, <1>3 DEF TeamInv, PassesKnow
  <2>3. PassesKnow'
    BY <1>1, <2>1, <2>2 DEF PassesKnow, Knows, Answered
  <2> QED
    BY <1>1, <2>3, ReadingKeeps
<1>4. ASSUME NEW at, Team!Goes(p, at),
             at = "submit" => /\ old.iteration \in Team!Numbers
                              /\ Answered(Team!Planner(old.iteration)),
             at = "consume" => /\ old.iteration \in Team!Numbers
                               /\ Answered(Team!Verifier(old.iteration))
                               /\ iteration[old.iteration].accepted # 0,
             at \notin {"planner", "verifier"}
      PROVE  TeamInv'
  <2> PICK row : row = [old EXCEPT !.at = at]
    OBVIOUS
  <2>1. Knows(row)
    BY <1>2, <1>4 DEF Knows
  <2>2. teamPass' = [teamPass EXCEPT ![p] = row]
    BY <1>4 DEF Team!Goes
  <2> QED
    BY <1>2, <1>3, <2>1, <2>2
<1>5. ASSUME Team!Ends(p) PROVE TeamInv'
  BY <1>3, <1>5 DEF Team!Ends, Knows, Team!IdlePass
<1>6. CASE Team!Begin(p)
  <2> PICK idle, at, number, batch :
          /\ idle = Team!IdlePass /\ at = Team!Glance /\ number = run.iteration
          /\ batch = iteration[number].batch
    OBVIOUS
  <2> PICK row : row = [idle EXCEPT !.at = at, !.iteration = number, !.batch = batch]
    OBVIOUS
  <2>1. idle = [at |-> idle.at, iteration |-> idle.iteration, batch |-> idle.batch,
                retrying |-> idle.retrying, seen |-> idle.seen]
    BY DEF Team!IdlePass
  <2>2. at \notin {"submit", "consume"} /\ (at = "verifier" => run.phase = "VERIFYING")
    BY DEF Team!Glance, Team!LooksAt
  <2>3. at = "verifier" => iteration[run.iteration].accepted # 0
    BY <1>2, <2>2 DEF TeamInv, IterationsTell
  <2>4. Knows(row)
    BY <1>2, <2>1, <2>2, <2>3 DEF Knows
  <2>5. teamPass' = [teamPass EXCEPT ![p] = row]
    BY <1>6 DEF Team!Begin
  <2> QED
    <3>1. row = [at |-> row.at, iteration |-> row.iteration, batch |-> row.batch,
                 retrying |-> row.retrying, seen |-> row.seen]
      BY <2>1
    <3> QED
      BY <1>3, <2>4, <2>5, <3>1
<1>7. CASE Team!LookAtPlanner(p)
  <2>1. old.iteration \in Team!Numbers
    BY <1>2, <1>7 DEF Team!LookAtPlanner, Knows
  <2>2. PICK next \in {"idle", "create", "submit", "fail"} :
           /\ IF next = "idle" THEN Team!Ends(p) ELSE Team!Goes(p, next)
           /\ next = "submit" => step[Team!Planner(old.iteration)].outcome = "SUCCESS"
    BY <1>7 DEF Team!LookAtPlanner, Team!CallsFor
  <2>3. Team!Planner(old.iteration) \in Team!Steps
    BY <2>1 DEF Team!Planner, Team!Steps
  <2> QED
    BY <1>4, <1>5, <2>1, <2>2, <2>3 DEF Answered
<1>8. CASE Team!LookAtVerifier(p)
  <2>1. old.iteration \in Team!Numbers /\ iteration[old.iteration].accepted # 0
    BY <1>2, <1>8 DEF Team!LookAtVerifier, Knows
  <2>2. PICK next \in {"idle", "consume", "fail"} :
           /\ IF next = "idle" THEN Team!Ends(p) ELSE Team!Goes(p, next)
           /\ next = "consume" => step[Team!Verifier(old.iteration)].outcome = "SUCCESS"
    BY <1>8 DEF Team!LookAtVerifier, Team!CallsFor
  <2>3. Team!Verifier(old.iteration) \in Team!Steps
    BY <2>1 DEF Team!Verifier, Team!Steps
  <2> QED
    BY <1>4, <1>5, <2>1, <2>2, <2>3 DEF Answered
<1>9. CASE Team!ReadWorkerStep(p)
  <2> PICK retrying :
        teamPass' = [teamPass EXCEPT ![p].at = "workerAttempt", ![p].retrying = retrying]
    BY <1>9 DEF Team!ReadWorkerStep
  <2> PICK row : row = [old EXCEPT !.at = "workerAttempt", !.retrying = retrying]
    OBVIOUS
  <2>1. Knows(row)
    BY <1>2 DEF Knows
  <2>2. teamPass' = [teamPass EXCEPT ![p] = row]
    OBVIOUS
  <2> QED
    BY ZenonT(60), <1>2, <1>3, <2>1, <2>2
<1>10. CASE Team!ReadWorkerAttempt(p)
  <2> PICK seen : seen = Append(old.seen, Team!Seen(p))
    OBVIOUS
  <2>1. PICK next \in {"idle", "workerStep", "fail", "workersFinished"} :
           IF next = "idle" THEN Team!Ends(p)
           ELSE teamPass' = [teamPass EXCEPT ![p].at = next, ![p].seen = seen]
    BY <1>10 DEF Team!ReadWorkerAttempt, Team!FanIn
  <2> PICK row : row = [old EXCEPT !.at = next, !.seen = seen]
    OBVIOUS
  <2>2. Knows(row)
    BY <1>2 DEF Knows
  <2>3. next # "idle" => teamPass' = [teamPass EXCEPT ![p] = row]
    BY <2>1
  <2> QED
    BY <1>2, <1>3, <1>5, <2>1, <2>2, <2>3
<1>11. CASE Team!SubmitThrows(p) \/ Team!ConsumeThrows(p)
  BY <1>4, <1>11 DEF Team!SubmitThrows, Team!ConsumeThrows
<1> QED
  BY <1>6, <1>7, <1>8, <1>9, <1>10, <1>11 DEF Reads

(* The run stays where it is, moves on to its verifier or ends.            *)
PhaseMoves ==
    /\ run' = [run EXCEPT !.phase = run'.phase]
    /\ \/ run'.phase = run.phase
       \/ run.phase \notin Team!Terminal /\ run'.phase \in Team!Terminal
       \/ run.phase = "WORKING" /\ run'.phase = "VERIFYING"

(* The run moves without a new iteration.                                  *)
LEMMA PhaseKeeps ==
    ASSUME TeamInv, PhaseMoves, UNCHANGED <<iteration, proposals, step>>
    PROVE  /\ run' \in [phase : Team!Live \cup Team!Terminal, iteration : Team!Numbers,
                        workers : Nat]
           /\ StepsTell' /\ ProposalsTell' /\ IterationsTell' /\ Team!BatchWasPlannedOnItsBase'
           /\ Team!LimitsHold' /\ Team!IterationsAreEarned' /\ Team!DecisionAfterItsWorkers'
<1>1. /\ run' \in [phase : Team!Live \cup Team!Terminal, iteration : Team!Numbers, workers : Nat]
      /\ run'.iteration = run.iteration /\ run'.workers = run.workers
      /\ run'.phase = "PLANNING" => run.phase = "PLANNING"
      /\ run'.phase \in {"WORKING", "VERIFYING", "WAITING_FOR_HUMAN"} =>
             run.phase \in {"WORKING", "VERIFYING", "WAITING_FOR_HUMAN"}
      /\ run'.phase = "WAITING_FOR_HUMAN" => run.phase = "WAITING_FOR_HUMAN"
  BY DEF TeamInv, TeamTypes, PhaseMoves, Team!Live, Team!Terminal
<1>2. StepsTell' /\ ProposalsTell' /\ Team!BatchWasPlannedOnItsBase'
  BY <1>1 DEF TeamInv, StepsTell, ProposalsTell, Team!OneProposalPerIteration,
     Team!BatchWasPlannedOnItsBase
<1>3. IterationsTell'
  BY <1>1 DEF TeamInv, IterationsTell, Admitted, Answered
<1>4. Team!LimitsHold'
  BY ZenonT(60), <1>1 DEF TeamInv, Team!LimitsHold
<1>5. Team!IterationsAreEarned' /\ Team!DecisionAfterItsWorkers'
  BY <1>1 DEF TeamInv, Team!IterationsAreEarned, Team!DecisionAfterItsWorkers, Team!Settled
<1> QED
  BY <1>1, <1>2, <1>3, <1>4, <1>5

(* The execution goes on as it is, or fails; the workspace of an ended run *)
(* is preserved, but at its limits.                                        *)
LEMMA EndsKeep ==
    ASSUME Team!CompletedReleasesHold, Team!EndedRunsPreserve,
           run.phase \in Team!Terminal => run'.phase = run.phase,
           UNCHANGED execution \/ execution'.status = "FAILED",
           \/ Team!Preserves(run'.phase)
           \/ UNCHANGED loopLease /\ run'.phase = run.phase
           \/ UNCHANGED loopLease /\ run'.phase = "LIMIT_REACHED"
    PROVE  Team!CompletedReleasesHold' /\ Team!EndedRunsPreserve'
  BY DEF Team!CompletedReleasesHold, Team!EndedRunsPreserve, Team!Preserves, Team!Terminal

(* A transaction of a pass that moves nothing but the phase.               *)
LEMMA RunEndsKeep ==
    ASSUME TeamConstants, TeamInv, NEW p \in Passes,
           \/ Team!SubmitLimited(p) \/ Team!SubmitStale(p)
           \/ Team!FailRunAndExecution(p) \/ Team!Transition(p)
    PROVE  TeamInv'
<1>1. UNCHANGED <<iteration, proposals, step>> /\ Team!Ends(p)
  BY DEF Team!SubmitLimited, Team!SubmitStale, Team!FailStaleBatch,
     Team!FailRunAndExecution, Team!Transition
<1>2. run = [phase |-> run.phase, iteration |-> run.iteration, workers |-> run.workers]
  BY DEF TeamInv, TeamTypes
<1>3. PhaseMoves /\ (run.phase \in Team!Terminal => run'.phase = run.phase)
  <2>1. ASSUME NEW event \in {"fail", "limitReached", "deadline", "cancel"},
               run' = [run EXCEPT !.phase = Team!Applied(@, event)]
        PROVE  PhaseMoves /\ (run.phase \in Team!Terminal => run'.phase = run.phase)
    BY <1>2, <2>1, PhasesMove DEF PhaseMoves, Team!Terminal
  <2>2. CASE run' = [run EXCEPT !.phase = Team!Applied(@, "workersFinished")]
             /\ Team!Accepts(run.phase, "workersFinished")
    BY <1>2, <2>2, PhasesMove DEF PhaseMoves, Team!Terminal, Team!Accepts, Team!From
  <2>3. CASE UNCHANGED run
    BY <1>2, <2>3 DEF PhaseMoves
  <2> QED
    BY <2>1, <2>2, <2>3 DEF Team!SubmitLimited, Team!SubmitStale, Team!FailStaleBatch,
       Team!FailRunAndExecution, Team!Transition
<1>4. \/ UNCHANGED execution
      \/ \E reason : execution' =
             [status |-> "FAILED", revision |-> execution.revision, reason |-> reason]
  BY DEF Team!SubmitLimited, Team!SubmitStale, Team!FailStaleBatch,
     Team!FailRunAndExecution, Team!Transition, Team!FailExecution, TeamInv, TeamTypes
<1>5. TeamTypes'
  <2>1. /\ execution' = [status |-> execution'.status, revision |-> execution'.revision,
                         reason |-> execution'.reason]
        /\ execution'.revision \in Nat
    BY <1>4 DEF TeamInv, TeamTypes
  <2> QED
    BY <1>1, <1>3, <2>1, PhaseKeeps DEF TeamInv, TeamTypes, Counted
<1>6. PassesKnow'
  BY <1>1, PassesStay DEF TeamInv, PassRests, AnswersStay, Answered
<1>7. Team!CompletedReleasesHold' /\ Team!EndedRunsPreserve'
  <2>1. \/ Team!Preserves(run'.phase)
        \/ UNCHANGED loopLease /\ run'.phase = run.phase
        \/ UNCHANGED loopLease /\ run'.phase = "LIMIT_REACHED"
    <3>1. CASE Team!SubmitLimited(p)
      BY <1>2, <3>1, PhasesMove DEF Team!SubmitLimited
    <3>2. CASE Team!SubmitStale(p) \/ Team!FailRunAndExecution(p)
      <4>1. run' = [run EXCEPT !.phase = Team!Applied(@, "fail")] /\ Team!Preserves("FAILED")
        BY <3>2 DEF Team!SubmitStale, Team!FailStaleBatch, Team!FailRunAndExecution
      <4>2. run'.phase \in Team!Terminal /\ "FAILED" \in Team!Terminal
        BY <1>2, <4>1, PhasesMove DEF Team!Terminal
      <4> QED
        BY <4>1, <4>2 DEF Team!Preserves
    <3>3. CASE Team!Transition(p)
      BY <3>3 DEF Team!Transition
    <3> QED
      BY <3>1, <3>2, <3>3
  <2> QED
    BY <1>3, <1>4, <2>1, EndsKeep DEF TeamInv
<1> QED
  BY <1>1, <1>3, <1>5, <1>6, <1>7, PhaseKeeps DEF TeamInv

(* A planner is created once for its iteration.                            *)
LEMMA PlannerKeeps ==
    ASSUME TeamConstants, TeamInv, NEW p \in Passes, Team!CreatePlannerStep(p)
    PROVE  TeamInv'
<1> USE DEF TeamInv
<1>1. CASE UNCHANGED <<execution, iteration, step>>
  <2>1. PassesKnow'
    BY <1>1, PassesStay DEF Team!CreatePlannerStep, PassRests, AnswersStay, Answered
  <2> QED
    BY <1>1, <2>1, ReadingKeeps DEF Team!CreatePlannerStep
<1>2. CASE /\ ~iteration[run.iteration].planner
           /\ iteration' = [iteration EXCEPT ![run.iteration].planner = TRUE]
           /\ step' = [step EXCEPT ![Team!Planner(run.iteration)] = Team!Stop({})]
           /\ execution' = [execution EXCEPT !.revision = @ + 1]
           /\ execution.status = "RUNNING"
  <2> PICK n \in Team!Numbers : n = run.iteration
    BY DEF TeamTypes
  <2> PICK s \in Team!Steps : s = Team!Planner(n)
    BY DEF Team!Planner, Team!Steps
  <2>1. UNCHANGED <<run, loopLease, proposals>> /\ Team!Ends(p)
    BY DEF Team!CreatePlannerStep
  <2>2. step[s].status = "absent" /\ step[s].outcome # "SUCCESS"
    BY <1>2 DEF IterationsTell, StepsTell
  <2>3. PICK row :
           /\ step' = [step EXCEPT ![s] = row]
           /\ row = [status |-> "READY", outcome |-> "none", attempts |-> 0, frozen |-> 0,
                     answer |-> Team!NoAnswer, after |-> {}, onFailure |-> "stop", retries |-> 0]
    <3> PICK row : row = Team!Stop({})
      OBVIOUS
    <3>1. step' = [step EXCEPT ![s] = row]
      BY <1>2
    <3>2. row = [status |-> "READY", outcome |-> "none", attempts |-> 0, frozen |-> 0,
                 answer |-> Team!NoAnswer, after |-> {}, onFailure |-> "stop", retries |-> 0]
      BY DEF Team!Stop, Team!NoStep
    <3> QED
      BY <3>1, <3>2
  <2>4. /\ \A m \in Team!Numbers : Team!Planner(m) \in Team!Steps /\ Team!Verifier(m) \in Team!Steps
        /\ \A m \in Team!Numbers : Team!Verifier(m) # s /\ (m # n => Team!Planner(m) # s)
    BY DEF Team!Planner, Team!Verifier, Team!Steps
  <2>5. iteration = [m \in Team!Numbers |-> iteration[m]] /\ step = [q \in Team!Steps |-> step[q]]
    BY DEF TeamTypes
  <2>6. IterationRowsStay /\ iteration'[n].planner
        /\ \A m \in Team!Numbers : m # n => iteration'[m] = iteration[m]
    BY <1>2, <2>5 DEF IterationRowsStay, TeamTypes
  <2>7. /\ \A q \in Team!Steps : q # s => step'[q] = step[q]
        /\ step'[s] = row
    BY <2>3, <2>5
  <2>8. StepsGoOn
    <3>1. \A m \in Team!Numbers :
             /\ ~iteration'[m].planner => step'[Team!Planner(m)].status = "absent"
             /\ step'[Team!Verifier(m)].after = step[Team!Verifier(m)].after
      BY <2>4, <2>6, <2>7 DEF IterationsTell
    <3>2. \A q \in Team!Steps :
             /\ step[q].outcome = "SUCCESS" =>
                    step'[q].outcome = "SUCCESS" /\ step'[q].frozen = step[q].frozen
             /\ Team!Settled(q) => Team!Settled(q)'
             /\ step'[q].attempts > 0 =>
                    step[q].attempts > 0 \/ \A d \in step[q].after : Team!Settled(d)
      BY <2>2, <2>3, <2>7 DEF Team!Settled
    <3> QED
      BY <3>1, <3>2 DEF StepsGoOn
  <2>9. TeamTypes' /\ StepsTell'
    <3>1. iteration' = [m \in Team!Numbers |->
             [planner |-> iteration'[m].planner, pending |-> iteration'[m].pending,
              batch |-> iteration'[m].batch, accepted |-> iteration'[m].accepted,
              decision |-> iteration'[m].decision]]
      <4>1. PICK created : iteration' = [iteration EXCEPT ![run.iteration].planner = created]
        BY <1>2
      <4> PICK old : old = iteration[n]
        OBVIOUS
      <4> PICK made : made = [old EXCEPT !.planner = created]
        OBVIOUS
      <4>2. made = [planner |-> made.planner, pending |-> made.pending, batch |-> made.batch,
                   accepted |-> made.accepted, decision |-> made.decision]
        BY DEF TeamTypes
      <4>3. iteration' = [iteration EXCEPT ![n] = made]
        BY <4>1
      <4> QED
        BY <4>2, <4>3 DEF TeamTypes
    <3>2. /\ step' = [q \in Team!Steps |->
                [status |-> step'[q].status, outcome |-> step'[q].outcome,
                 attempts |-> step'[q].attempts, frozen |-> step'[q].frozen,
                 answer |-> step'[q].answer, after |-> step'[q].after,
                 onFailure |-> step'[q].onFailure, retries |-> step'[q].retries]]
          /\ StepsTell'
      BY <2>3, <2>7 DEF TeamTypes, StepsTell
    <3>3. /\ execution' = [status |-> execution'.status, revision |-> execution'.revision,
                           reason |-> execution'.reason]
          /\ execution'.revision \in Nat
      <4>1. execution' = [execution EXCEPT !.revision = @ + 1]
        BY <1>2
      <4> QED
        BY <4>1 DEF TeamTypes
    <3> QED
      BY <2>1, <3>1, <3>2, <3>3 DEF TeamTypes, Counted
  <2>10. PassesKnow'
    BY <2>1, <2>6, <2>8, StepsKeep, PassesStay DEF PassRests
  <2>11. Team!CompletedReleasesHold' /\ Team!EndedRunsPreserve'
    BY <1>2, <2>1 DEF Team!CompletedReleasesHold, Team!EndedRunsPreserve, TeamTypes
  <2> QED
    BY <2>1, <2>6, <2>8, <2>9, <2>10, <2>11, StepsKeep
<1> QED
  BY <1>1, <1>2 DEF Team!CreatePlannerStep

(* The execution ends, or another patch moves its revision.                *)
LEMMA ExecutionKeeps ==
    ASSUME TeamInv, Team!Complete \/ Team!OperatorPatch
    PROVE  TeamInv'
<1> USE DEF TeamInv
<1>1. UNCHANGED <<run, loopLease, iteration, proposals, step, teamPass>>
  BY DEF Team!Complete, Team!OperatorPatch
<1>2. TeamTypes' /\ StepsTell'
  <2>1. /\ execution' = [status |-> execution'.status, revision |-> execution'.revision,
                         reason |-> execution'.reason]
        /\ execution'.revision \in Nat
    BY DEF Team!Complete, Team!OperatorPatch, TeamTypes
  <2> QED
    BY <1>1, <2>1 DEF TeamTypes, StepsTell, Counted
<1>3. PassesKnow'
  BY <1>1 DEF PassesKnow, Knows, Answered
<1>4. ProposalsTell' /\ IterationsTell'
  BY <1>1 DEF ProposalsTell, Team!OneProposalPerIteration, IterationsTell, Admitted, Answered
<1>5. Team!BatchWasPlannedOnItsBase' /\ Team!LimitsHold' /\ Team!IterationsAreEarned'
  BY <1>1 DEF Team!BatchWasPlannedOnItsBase, Team!LimitsHold, Team!IterationsAreEarned
<1>6. Team!DecisionAfterItsWorkers'
  BY <1>1 DEF Team!DecisionAfterItsWorkers, Team!Settled
<1>7. Team!CompletedReleasesHold' /\ Team!EndedRunsPreserve'
  BY <1>1 DEF Team!CompletedReleasesHold, Team!EndedRunsPreserve, Team!Complete,
     Team!CompletionHeld, Team!OperatorPatch, TeamTypes
<1> QED
  BY <1>2, <1>3, <1>4, <1>5, <1>6, <1>7

(* Cancellation settles nothing and answers nothing.                       *)
LEMMA CancelKeeps ==
    ASSUME TeamConstants, TeamInv, Team!Cancel
    PROVE  TeamInv'
<1> USE DEF TeamInv
<1>1. UNCHANGED <<run, loopLease, iteration, proposals, teamPass>>
  BY DEF Team!Cancel
<1>2. /\ execution' = [status |-> "CANCELLED", revision |-> execution.revision,
                       reason |-> execution.reason]
      /\ execution.status = "RUNNING"
  BY DEF Team!Cancel, TeamTypes
<1>3. \A s \in Team!Steps : \E row :
         /\ step'[s] = row
         /\ row = [status |-> row.status, outcome |-> row.outcome,
                   attempts |-> step[s].attempts, frozen |-> step[s].frozen,
                   answer |-> step[s].answer, after |-> step[s].after,
                   onFailure |-> step[s].onFailure, retries |-> step[s].retries]
         /\ \/ row.status = step[s].status /\ row.outcome = step[s].outcome
            \/ /\ step[s].status \in {"READY", "RUNNING", "RETRYING"}
               /\ row.status = "CANCELLED" /\ row.outcome \notin {"SUCCESS", "RUNNING"}
  <2> SUFFICES ASSUME NEW s \in Team!Steps
               PROVE  \E row :
         /\ step'[s] = row
         /\ row = [status |-> row.status, outcome |-> row.outcome,
                   attempts |-> step[s].attempts, frozen |-> step[s].frozen,
                   answer |-> step[s].answer, after |-> step[s].after,
                   onFailure |-> step[s].onFailure, retries |-> step[s].retries]
         /\ \/ row.status = step[s].status /\ row.outcome = step[s].outcome
            \/ /\ step[s].status \in {"READY", "RUNNING", "RETRYING"}
               /\ row.status = "CANCELLED" /\ row.outcome \notin {"SUCCESS", "RUNNING"}
    OBVIOUS
  <2> PICK old : old = step[s]
    OBVIOUS
  <2>1. /\ old = [status |-> old.status, outcome |-> old.outcome, attempts |-> old.attempts,
                  frozen |-> old.frozen, answer |-> old.answer, after |-> old.after,
                  onFailure |-> old.onFailure, retries |-> old.retries]
        /\ old.outcome = "RUNNING" <=> old.status = "RUNNING"
        /\ old.outcome = "SUCCESS" <=> old.status = "COMPLETED"
    BY DEF TeamTypes, StepsTell
  <2>2. CASE old.status \in {"READY", "RUNNING", "RETRYING"}
    <3>1. PICK outcome :
             /\ step'[s] = [old EXCEPT !.status = "CANCELLED", !.outcome = outcome]
             /\ outcome \notin {"SUCCESS", "RUNNING"}
      <4> PICK outcome : outcome = IF old.outcome = "RUNNING" THEN "CANCELLED" ELSE old.outcome
        OBVIOUS
      <4>1. step'[s] = [old EXCEPT !.status = "CANCELLED", !.outcome = outcome]
        BY <2>2 DEF Team!Cancel
      <4> QED
        BY <2>1, <2>2, <4>1
    <3> PICK row : row = [old EXCEPT !.status = "CANCELLED", !.outcome = outcome]
      OBVIOUS
    <3>2. /\ row = [status |-> row.status, outcome |-> row.outcome, attempts |-> old.attempts,
                    frozen |-> old.frozen, answer |-> old.answer, after |-> old.after,
                    onFailure |-> old.onFailure, retries |-> old.retries]
          /\ row.status = "CANCELLED" /\ row.outcome = outcome
      BY <2>1
    <3> QED
      BY <2>2, <3>1, <3>2
  <2>3. CASE old.status \notin {"READY", "RUNNING", "RETRYING"}
    <3>1. step'[s] = old
      BY <2>3 DEF Team!Cancel
    <3> QED
      BY <2>1, <3>1
  <2> QED
    BY <2>2, <2>3
<1>4. StepsTell'
  BY <1>3 DEF StepsTell
<1>5. TeamTypes'
  <2>1. step' = [s \in Team!Steps |-> step'[s]]
    BY DEF Team!Cancel
  <2>2. step' = [q \in Team!Steps |->
                    [status |-> step'[q].status, outcome |-> step'[q].outcome,
                     attempts |-> step'[q].attempts, frozen |-> step'[q].frozen,
                     answer |-> step'[q].answer, after |-> step'[q].after,
                     onFailure |-> step'[q].onFailure, retries |-> step'[q].retries]]
    BY <1>3, <2>1
  <2> QED
    BY <1>1, <1>2, <2>2 DEF TeamTypes, Counted
<1>6. StepsGoOn /\ IterationRowsStay
  <2>1. \A n \in Team!Numbers : Team!Planner(n) \in Team!Steps /\ Team!Verifier(n) \in Team!Steps
    BY DEF Team!Planner, Team!Verifier, Team!Steps
  <2>2. \A n \in Team!Numbers :
           /\ ~iteration'[n].planner => step'[Team!Planner(n)].status = "absent"
           /\ step'[Team!Verifier(n)].after = step[Team!Verifier(n)].after
    BY <1>1, <1>3, <2>1 DEF IterationsTell
  <2>3. \A q \in Team!Steps :
           /\ step[q].outcome = "SUCCESS" =>
                  step'[q].outcome = "SUCCESS" /\ step'[q].frozen = step[q].frozen
           /\ Team!Settled(q) => Team!Settled(q)'
           /\ step'[q].attempts > 0 =>
                  step[q].attempts > 0 \/ \A d \in step[q].after : Team!Settled(d)
    BY <1>3 DEF Team!Settled, StepsTell
  <2> QED
    BY <1>1, <2>2, <2>3 DEF StepsGoOn, IterationRowsStay
<1>7. PassesKnow'
  BY <1>1, <1>6, PassesStay, StepsKeep DEF PassRests
<1>8. Team!CompletedReleasesHold' /\ Team!EndedRunsPreserve'
  BY <1>1, <1>2 DEF Team!CompletedReleasesHold, Team!EndedRunsPreserve
<1> QED
  BY <1>1, <1>4, <1>5, <1>6, <1>7, <1>8, StepsKeep

(* The verifier of the current iteration, or the human it asked, ends the  *)
(* run, leaves it to a human or starts another iteration.                  *)
Decides ==
    /\ \A m \in Team!Numbers :
           /\ iteration'[m] = [planner |-> iteration[m].planner, pending |-> iteration[m].pending,
                               batch |-> iteration[m].batch, accepted |-> iteration[m].accepted,
                               decision |-> iteration'[m].decision]
           /\ m # run.iteration => iteration'[m].decision = iteration[m].decision
    /\ iteration' = [m \in Team!Numbers |-> iteration'[m]]
    /\ run' = [run EXCEPT !.phase = run'.phase, !.iteration = run'.iteration]
    /\ \/ run'.phase \in Team!Terminal /\ run'.iteration = run.iteration
       \/ /\ run'.phase = "WAITING_FOR_HUMAN" /\ run'.iteration = run.iteration
          /\ iteration'[run.iteration].decision.action = "WAIT_FOR_HUMAN"
       \/ /\ run'.phase = "PLANNING" /\ run'.iteration = run.iteration + 1
          /\ run.iteration < MaxIterations
          /\ iteration'[run.iteration].decision.action \in {"CONTINUE", "WAIT_FOR_HUMAN"}

(* A decision of a verifier or of a human moves the run, and perhaps       *)
(* begins the next iteration.                                              *)
LEMMA DecisionKeeps ==
    ASSUME TeamConstants, TeamInv, Decides, UNCHANGED <<execution, proposals, step>>,
           run.phase \in {"VERIFYING", "WAITING_FOR_HUMAN"}, Team!Preserves(run'.phase), PassRests
    PROVE  TeamInv'
<1> USE DEF TeamInv
<1>1. PICK n \in Team!Numbers : n = run.iteration
  BY DEF TeamTypes
<1>2. iteration[n].accepted # 0
  BY <1>1 DEF IterationsTell
<1>3. /\ run' \in [phase : Team!Live \cup Team!Terminal, iteration : Team!Numbers, workers : Nat]
      /\ run'.workers = run.workers
      /\ run'.iteration \in {n, n + 1}
      /\ run'.iteration = n + 1 => run'.phase = "PLANNING"
      /\ run'.iteration = n => run'.phase \in Team!Terminal \cup {"WAITING_FOR_HUMAN"}
  <2>1. /\ run = [phase |-> run.phase, iteration |-> n, workers |-> run.workers]
        /\ run.workers \in Nat
    BY <1>1 DEF TeamTypes
  <2>2. run' = [phase |-> run'.phase, iteration |-> run'.iteration, workers |-> run.workers]
    BY <2>1 DEF Decides
  <2>3. /\ \/ run'.phase \in Team!Terminal /\ run'.iteration = n
           \/ run'.phase = "WAITING_FOR_HUMAN" /\ run'.iteration = n
           \/ run'.phase = "PLANNING" /\ run'.iteration = n + 1 /\ n < MaxIterations
    BY <1>1 DEF Decides
  <2>4. run'.iteration \in Team!Numbers /\ n + 1 # n
    BY <2>3 DEF Team!Numbers, TeamConstants
  <2> QED
    BY <2>1, <2>2, <2>3, <2>4 DEF Team!Live, Team!Terminal
<1>4. TeamTypes' /\ StepsTell'
  <2>1. iteration' = [m \in Team!Numbers |->
           [planner |-> iteration'[m].planner, pending |-> iteration'[m].pending,
            batch |-> iteration'[m].batch, accepted |-> iteration'[m].accepted,
            decision |-> iteration'[m].decision]]
    BY DEF Decides
  <2> QED
    BY <1>3, <2>1 DEF TeamTypes, StepsTell, Counted
<1>5. /\ \A m \in Team!Numbers :
            /\ iteration'[m].planner = iteration[m].planner
            /\ iteration'[m].pending = iteration[m].pending
            /\ iteration'[m].batch = iteration[m].batch
            /\ iteration'[m].accepted = iteration[m].accepted
            /\ m # n => iteration'[m].decision = iteration[m].decision
  BY <1>1 DEF Decides
<1>6. PassesKnow'
  BY <1>5, PassesStay DEF AnswersStay, Answered
<1>7. ProposalsTell'
  <2>1. \A k \in 1..Len(proposals) :
           /\ proposals[k].iteration \in 1..run'.iteration
           /\ ~(run'.phase = "PLANNING" /\ proposals[k].iteration = run'.iteration)
    BY <1>1, <1>3 DEF ProposalsTell, Team!Numbers, Team!Terminal
  <2> QED
    BY <1>5, <2>1 DEF ProposalsTell, Team!OneProposalPerIteration
<1>8. IterationsTell'
  <2>1. \A m \in Team!Numbers : Admitted(m) => Admitted(m)'
    BY <1>5 DEF Admitted, Answered, Team!WorkersOf
  <2>2. /\ n + 1 \in Team!Numbers => iteration[n + 1].accepted = 0
        /\ run'.phase = "WAITING_FOR_HUMAN" => iteration'[n].decision.action = "WAIT_FOR_HUMAN"
    BY <1>1, <1>3 DEF IterationsTell, Team!Numbers, Decides, Team!Terminal
  <2> QED
    BY SMTT(30), <1>1, <1>2, <1>3, <1>5, <2>1, <2>2 DEF IterationsTell, Team!Numbers, Team!Terminal
<1>9. Team!BatchWasPlannedOnItsBase'
  BY <1>5 DEF Team!BatchWasPlannedOnItsBase
<1>10. Team!LimitsHold'
  <2>1. run'.iteration <= MaxIterations /\ run'.workers = run.workers
    BY <1>3 DEF Team!Numbers
  <2> QED
    BY ZenonT(60), <1>5, <2>1 DEF Team!LimitsHold
<1>11. Team!IterationsAreEarned'
  <2> SUFFICES ASSUME NEW m \in 2..run'.iteration
               PROVE  iteration'[m - 1].decision.action \in {"CONTINUE", "WAIT_FOR_HUMAN"}
    BY DEF Team!IterationsAreEarned
  <2>1. CASE m = n + 1
    BY <1>1, <1>3, <2>1 DEF Decides, Team!Terminal, Team!Numbers
  <2>2. CASE m # n + 1
    <3>1. m \in 2..n /\ m - 1 \in Team!Numbers /\ m - 1 # n
      BY <1>3, <2>2 DEF Team!Numbers, TeamConstants
    <3> QED
      BY <1>1, <1>5, <3>1 DEF Team!IterationsAreEarned
  <2> QED
    BY <2>1, <2>2
<1>12. Team!DecisionAfterItsWorkers'
  BY <1>1, <1>2, <1>5 DEF Team!DecisionAfterItsWorkers, Team!Settled, Team!WorkersOf
<1>13. Team!CompletedReleasesHold' /\ Team!EndedRunsPreserve'
  BY DEF Team!CompletedReleasesHold, Team!EndedRunsPreserve, Team!Preserves, Team!Terminal
<1> QED
  BY <1>4, <1>6, <1>7, <1>8, <1>9, <1>10, <1>11, <1>12, <1>13

(* A verifier is asked about the iteration that runs.                      *)
LEMMA ConsumeKeeps ==
    ASSUME TeamConstants, TeamInv, NEW p \in Passes, Team!Consume(p)
    PROVE  TeamInv'
<1> USE DEF TeamInv
<1> PICK d : d = step[Team!Verifier(teamPass[p].iteration)].answer
  OBVIOUS
<1>1. d \in [action : Decisions, iteration : Int] /\ d.action # "garbage"
  <2>1. Answered(Team!Verifier(teamPass[p].iteration)) /\ d.action # "garbage"
    BY DEF Team!Consume, PassesKnow, Knows
  <2> QED
    BY <2>1 DEF Answered, StepsTell, Team!Verifier
<1>2. UNCHANGED <<execution, proposals, step>> /\ Team!Ends(p)
  BY DEF Team!Consume
<1>3. CASE ~Team!Consumable(d)
  <2>1. UNCHANGED <<run, loopLease, iteration>>
    BY <1>3 DEF Team!Consume
  <2>2. PassesKnow'
    BY <1>2, <2>1, PassesStay DEF PassRests, AnswersStay, Answered
  <2> QED
    BY <1>2, <2>1, <2>2, ReadingKeeps
<1>4. CASE Team!Consumable(d)
  <2>1. /\ iteration' = [iteration EXCEPT ![d.iteration].decision = d]
        /\ Team!ApplyDecision(d) /\ Team!Preserves(run'.phase)
    BY <1>4 DEF Team!Consume
  <2> PICK n \in Team!Numbers : n = run.iteration
    BY DEF TeamTypes
  <2>2. d.iteration = n
    <3>1. d.iteration \in 1..n /\ iteration[d.iteration].decision.action = "none"
      BY <1>4 DEF Team!Consumable, Team!NoDecision
    <3>2. d.iteration # n => d.iteration + 1 \in 2..n /\ (d.iteration + 1) - 1 = d.iteration
      BY <3>1 DEF Team!Numbers
    <3> QED
      BY <3>1, <3>2 DEF Team!IterationsAreEarned
  <2>3. /\ \A m \in Team!Numbers :
              /\ iteration'[m] =
                    [planner |-> iteration[m].planner, pending |-> iteration[m].pending,
                     batch |-> iteration[m].batch, accepted |-> iteration[m].accepted,
                     decision |-> iteration'[m].decision]
              /\ m # n => iteration'[m].decision = iteration[m].decision
        /\ iteration' = [m \in Team!Numbers |-> iteration'[m]]
        /\ iteration'[n].decision = d
    <3> PICK old : old = iteration[n]
      OBVIOUS
    <3> PICK row : row = [old EXCEPT !.decision = d]
      OBVIOUS
    <3>1. /\ row = [planner |-> old.planner, pending |-> old.pending, batch |-> old.batch,
                    accepted |-> old.accepted, decision |-> d]
          /\ row.decision = d
      BY DEF TeamTypes
    <3>2. iteration' = [iteration EXCEPT ![n] = row]
      BY <2>1, <2>2
    <3> QED
      BY ZenonT(60), <3>1, <3>2 DEF TeamTypes
  <2>4. run.phase = "VERIFYING"
    BY <1>4 DEF Team!Consumable
  <2>5. /\ run' = [run EXCEPT !.phase = run'.phase, !.iteration = run'.iteration]
        /\ \/ run'.phase \in Team!Terminal /\ run'.iteration = n
           \/ /\ run'.phase = "WAITING_FOR_HUMAN" /\ run'.iteration = n
              /\ d.action = "WAIT_FOR_HUMAN"
           \/ /\ run'.phase = "PLANNING" /\ run'.iteration = n + 1
              /\ n < MaxIterations
              /\ d.action \in {"CONTINUE", "WAIT_FOR_HUMAN"}
    <3>1. d.action \in {"ACCEPT", "FAIL", "WAIT_FOR_HUMAN", "CONTINUE"}
      BY <1>1 DEF TeamConstants
    <3>2. /\ Team!Applied("DECIDING", "accept") = "ACCEPTED"
          /\ Team!Applied("DECIDING", "fail") = "FAILED"
          /\ Team!Applied("DECIDING", "wait") = "WAITING_FOR_HUMAN"
          /\ Team!Applied("DECIDING", "continue") = "PLANNING"
          /\ Team!Applied("DECIDING", "limitReached") = "LIMIT_REACHED"
      BY PhasesMove DEF Team!Terminal
    <3>3. run = [phase |-> run.phase, iteration |-> n, workers |-> run.workers]
      BY DEF TeamTypes
    <3>4. CASE d.action = "ACCEPT"
      BY <2>1, <3>2, <3>3, <3>4 DEF Team!ApplyDecision, Team!Become, Team!Terminal
    <3>5. CASE d.action = "FAIL"
      BY <2>1, <3>2, <3>3, <3>5 DEF Team!ApplyDecision, Team!Become, Team!Terminal
    <3>6. CASE d.action = "WAIT_FOR_HUMAN"
      BY <2>1, <3>2, <3>3, <3>6 DEF Team!ApplyDecision, Team!Become
    <3>7. CASE d.action = "CONTINUE"
      BY <2>1, <3>2, <3>3, <3>7 DEF Team!ApplyDecision, Team!Become, Team!NextIteration,
         Team!MayContinue, Team!ContinueAllowed, Team!Terminal
    <3> QED
      BY <3>1, <3>4, <3>5, <3>6, <3>7
  <2>6. Decides
    BY <2>3, <2>5 DEF Decides
  <2> QED
    BY <1>2, <2>1, <2>4, <2>6, DecisionKeeps DEF PassRests
<1> QED
  BY <1>3, <1>4

(* A human decides for the verifier that deferred to him.                  *)
LEMMA WaitKeeps ==
    ASSUME TeamConstants, TeamInv, NEW approve \in BOOLEAN, Team!ResolveWait(approve)
    PROVE  TeamInv'
<1> USE DEF TeamInv
<1> PICK n \in Team!Numbers : n = run.iteration
  BY DEF TeamTypes
<1>1. /\ UNCHANGED <<execution, iteration, proposals, step, teamPass>>
      /\ run.phase = "WAITING_FOR_HUMAN" /\ Team!Preserves(run'.phase)
  BY DEF Team!ResolveWait
<1>2. iteration[n].decision.action = "WAIT_FOR_HUMAN"
  BY <1>1 DEF IterationsTell
<1>3. /\ run' = [run EXCEPT !.phase = run'.phase, !.iteration = run'.iteration]
      /\ \/ run'.phase \in Team!Terminal /\ run'.iteration = n
         \/ run'.phase = "PLANNING" /\ run'.iteration = n + 1 /\ n < MaxIterations
  <2>1. /\ Team!Applied(run.phase, "approvalDenied") = "FAILED"
        /\ Team!Applied(run.phase, "limitReached") = "LIMIT_REACHED"
        /\ Team!Applied(Team!Applied(run.phase, "approvalGranted"), "continue") = "PLANNING"
    BY <1>1, PhasesMove DEF Team!Terminal
  <2>2. run = [phase |-> run.phase, iteration |-> n, workers |-> run.workers]
    BY DEF TeamTypes
  <2>3. CASE ~approve
    BY <2>1, <2>2, <2>3 DEF Team!ResolveWait, Team!Become, Team!Terminal
  <2>4. CASE approve /\ ~Team!MayContinue
    BY <2>1, <2>2, <2>4 DEF Team!ResolveWait, Team!Become, Team!Terminal
  <2>5. CASE approve /\ Team!MayContinue
    <3>1. n < MaxIterations
      BY <2>5 DEF Team!MayContinue, Team!ContinueAllowed
    <3>2. Team!NextIteration("PLANNING")
      BY <2>1, <2>5 DEF Team!ResolveWait
    <3> QED
      BY <2>2, <3>1, <3>2 DEF Team!NextIteration
  <2> QED
    BY <2>3, <2>4, <2>5
<1>4. Decides
  <2>1. /\ \A m \in Team!Numbers : iteration'[m] =
              [planner |-> iteration[m].planner, pending |-> iteration[m].pending,
               batch |-> iteration[m].batch, accepted |-> iteration[m].accepted,
               decision |-> iteration'[m].decision]
        /\ iteration' = [m \in Team!Numbers |-> iteration'[m]]
    BY <1>1 DEF TeamTypes
  <2> QED
    BY <1>1, <1>2, <1>3, <2>1 DEF Decides
<1> QED
  BY <1>1, <1>4, DecisionKeeps DEF PassRests

(* Something goes wrong around the loop.                                   *)
LEMMA TroubleKeeps ==
    ASSUME TeamInv, NEW t, Team!Trouble(t)
    PROVE  TeamInv'
<1>1. PassesKnow'
  BY DEF TeamInv, Team!Trouble, PassesKnow, Knows, Answered
<1> QED
  BY <1>1, ReadingKeeps DEF Team!Trouble

(* A batch joins the plan: its workers and its verifier start anew, and    *)
(* every other step is as it was.                                          *)
LEMMA BatchJoins ==
    ASSUME TeamConstants, TeamInv, NEW n \in Team!Numbers, NEW batch \in Batches,
           step' = Team!Materialized(batch, n)
    PROVE  /\ \A s \in Team!Steps : s[2] # n => step'[s] = step[s]
           /\ \A m \in Team!Numbers : step'[Team!Planner(m)] = step[Team!Planner(m)]
           /\ step'[Team!Verifier(n)].attempts = 0
           /\ step'[Team!Verifier(n)].after = Team!WorkersOf(batch, n)
           /\ StepsTell'
           /\ step' = [s \in Team!Steps |->
                          [status |-> step'[s].status, outcome |-> step'[s].outcome,
                           attempts |-> step'[s].attempts, frozen |-> step'[s].frozen,
                           answer |-> step'[s].answer, after |-> step'[s].after,
                           onFailure |-> step'[s].onFailure, retries |-> step'[s].retries]]
<1> USE DEF TeamInv
<1>1. /\ \A s \in Team!WorkersOf(batch, n) : s[2] = n /\ s[1] \in Tasks
      /\ \A s \in Team!WorkersOf(batch, n) : s # Team!Verifier(n)
      /\ \A m \in Team!Numbers : /\ Team!Planner(m) \in Team!Steps
                                 /\ Team!Planner(m) \notin Team!WorkersOf(batch, n)
                                 /\ Team!Planner(m) # Team!Verifier(n)
      /\ Team!Verifier(n) \in Team!Steps
  BY DEF TeamConstants, Team!WorkersOf, Team!Planner, Team!Verifier, Team!Steps
<1>2. /\ \A s \in Team!Steps :
             s \notin Team!WorkersOf(batch, n) \cup {Team!Verifier(n)} => step'[s] = step[s]
      /\ step'[Team!Verifier(n)] = Team!Stop(Team!WorkersOf(batch, n))
      /\ \A s \in Team!Steps :
             s \in Team!WorkersOf(batch, n) => \E w : step'[s] = Team!WorkerStep(w)
      /\ step' = [s \in Team!Steps |-> step'[s]]
  BY <1>1 DEF Team!Materialized, Team!VerifierAwaits
<1> PICK fresh : fresh = Team!NoStep
  OBVIOUS
<1>3. /\ fresh = [status |-> fresh.status, outcome |-> fresh.outcome,
                   attempts |-> fresh.attempts, frozen |-> fresh.frozen,
                   answer |-> fresh.answer, after |-> fresh.after,
                   onFailure |-> fresh.onFailure, retries |-> fresh.retries]
       /\ fresh.outcome = "none" /\ fresh.attempts = 0 /\ fresh.frozen = 0
       /\ fresh.answer = Team!NoAnswer /\ fresh.after = {}
  BY DEF Team!NoStep
<1>4. ASSUME NEW w
      PROVE  Team!WorkerStep(w) =
          [status |-> "READY", outcome |-> "none", attempts |-> 0, frozen |-> 0,
           answer |-> Team!NoAnswer, after |-> {}, onFailure |-> Team!WorkerStep(w).onFailure,
           retries |-> Team!WorkerStep(w).retries]
  <2>1. PICK retries, onFailure :
            Team!WorkerStep(w) = [fresh EXCEPT !.status = "READY", !.retries = retries,
                                          !.onFailure = onFailure]
    BY DEF Team!WorkerStep
  <2> PICK row : row = [fresh EXCEPT !.status = "READY", !.retries = retries,
                                     !.onFailure = onFailure]
    OBVIOUS
  <2>2. row = [status |-> "READY", outcome |-> "none", attempts |-> 0, frozen |-> 0,
               answer |-> Team!NoAnswer, after |-> {}, onFailure |-> row.onFailure,
               retries |-> row.retries]
    BY <1>3
  <2> QED
    BY <2>1, <2>2
<1>5. ASSUME NEW after
      PROVE  Team!Stop(after) =
          [status |-> "READY", outcome |-> "none", attempts |-> 0, frozen |-> 0,
           answer |-> Team!NoAnswer, after |-> after, onFailure |-> Team!Stop(after).onFailure,
           retries |-> Team!Stop(after).retries]
  <2> PICK row : row = [fresh EXCEPT !.status = "READY", !.after = after]
    OBVIOUS
  <2>1. row = [status |-> "READY", outcome |-> "none", attempts |-> 0, frozen |-> 0,
               answer |-> Team!NoAnswer, after |-> after, onFailure |-> row.onFailure,
               retries |-> row.retries]
    BY <1>3
  <2>2. Team!Stop(after) = row
    BY DEF Team!Stop
  <2> QED
    BY <2>1, <2>2
<1>6. \A s \in Team!WorkersOf(batch, n) \cup {Team!Verifier(n)} : s \in Team!Steps =>
         step'[s] = [status |-> "READY", outcome |-> "none", attempts |-> 0, frozen |-> 0,
                     answer |-> Team!NoAnswer, after |-> step'[s].after,
                     onFailure |-> step'[s].onFailure, retries |-> step'[s].retries]
  BY <1>2, <1>4, <1>5
<1>7. /\ \A s \in Team!Steps : s[2] # n => step'[s] = step[s]
      /\ \A m \in Team!Numbers : step'[Team!Planner(m)] = step[Team!Planner(m)]
  BY <1>1, <1>2 DEF Team!Verifier
<1>8. /\ step'[Team!Verifier(n)].attempts = 0
      /\ step'[Team!Verifier(n)].after = Team!WorkersOf(batch, n)
  BY <1>2, <1>5
<1>9. StepsTell'
  BY <1>2, <1>6 DEF StepsTell
<1>10. step' = [s \in Team!Steps |->
                  [status |-> step'[s].status, outcome |-> step'[s].outcome,
                   attempts |-> step'[s].attempts, frozen |-> step'[s].frozen,
                   answer |-> step'[s].answer, after |-> step'[s].after,
                   onFailure |-> step'[s].onFailure, retries |-> step'[s].retries]]
  <2>1. \A s \in Team!Steps : step'[s] =
                  [status |-> step'[s].status, outcome |-> step'[s].outcome,
                   attempts |-> step'[s].attempts, frozen |-> step'[s].frozen,
                   answer |-> step'[s].answer, after |-> step'[s].after,
                   onFailure |-> step'[s].onFailure, retries |-> step'[s].retries]
    BY <1>2, <1>6 DEF TeamTypes
  <2> QED
    BY <1>2, <2>1
<1> QED
  BY <1>7, <1>8, <1>9, <1>10

(* A proposal is created or decided; the others are as they were.          *)
Offered(c) ==
    /\ Counted(proposals)' /\ c \in 1..Len(proposals') /\ Len(proposals) <= Len(proposals')
    /\ proposals'[c].iteration \in 1..run.iteration /\ proposals'[c].batch \in Batches
    /\ \A k \in 1..Len(proposals') :
           /\ proposals'[k] = [iteration |-> proposals'[k].iteration, base |-> proposals'[k].base,
                               batch |-> proposals'[k].batch, status |-> proposals'[k].status]
           /\ k # c => k \in 1..Len(proposals) /\ proposals'[k] = proposals[k]
    /\ IF c \in 1..Len(proposals)
       THEN /\ proposals'[c].iteration = proposals[c].iteration
            /\ proposals[c].status = "ACCEPTED" => proposals'[c].status = "ACCEPTED"
       ELSE \A k \in 1..Len(proposals) : proposals[k].iteration # proposals'[c].iteration

(* A proposal is offered, and stays the only one of its iteration.         *)
LEMMA OffersKeep ==
    ASSUME TeamInv, NEW c, Offered(c)
    PROVE  /\ Team!OneProposalPerIteration'
           /\ \A k \in 1..Len(proposals) :
                  /\ k \in 1..Len(proposals')
                  /\ proposals'[k].iteration = proposals[k].iteration
                  /\ proposals[k].status = "ACCEPTED" => proposals'[k].status = "ACCEPTED"
           /\ \A k \in 1..Len(proposals') :
                  /\ proposals'[k].iteration \in 1..run.iteration /\ proposals'[k].batch \in Batches
                  /\ k # c => k \in 1..Len(proposals) /\ proposals'[k] = proposals[k]
<1> USE DEF TeamInv
<1>1. /\ Len(proposals) \in Nat /\ DOMAIN proposals = 1..Len(proposals)
      /\ Len(proposals') \in Nat /\ DOMAIN proposals' = 1..Len(proposals')
  BY DEF TeamTypes, Counted, Offered
<1>2. \A k \in 1..Len(proposals) :
          /\ k \in 1..Len(proposals')
          /\ proposals'[k].iteration = proposals[k].iteration
          /\ proposals[k].status = "ACCEPTED" => proposals'[k].status = "ACCEPTED"
  BY <1>1 DEF Offered
<1>3. Team!OneProposalPerIteration'
  BY <1>1 DEF Offered, ProposalsTell, Team!OneProposalPerIteration
<1>4. \A k \in 1..Len(proposals') :
          /\ proposals'[k].iteration \in 1..run.iteration /\ proposals'[k].batch \in Batches
          /\ k # c => k \in 1..Len(proposals) /\ proposals'[k] = proposals[k]
  BY DEF Offered, ProposalsTell
<1> QED
  BY <1>2, <1>3, <1>4

(* A proposal of the batch that the planner has answered.                  *)
LEMMA AnsweredOffers ==
    ASSUME TeamInv, NEW k \in DOMAIN proposals, NEW status,
           proposals[k].status = "ACCEPTED" => status = "ACCEPTED",
           proposals' = [proposals EXCEPT ![k].status = status]
    PROVE  /\ k \in 1..Len(proposals) /\ Offered(k)
           /\ proposals'[k].status = status /\ Len(proposals') = Len(proposals)
<1> USE DEF TeamInv
<1>1. /\ Len(proposals) \in Nat /\ DOMAIN proposals = 1..Len(proposals)
      /\ proposals = [n \in 1..Len(proposals) |-> proposals[n]]
  BY DEF TeamTypes, Counted
<1> PICK old : old = proposals[k]
  OBVIOUS
<1> PICK row : row = [old EXCEPT !.status = status]
  OBVIOUS
<1>2. /\ row = [iteration |-> old.iteration, base |-> old.base, batch |-> old.batch,
                status |-> status]
      /\ row.status = status
  BY <1>1 DEF TeamTypes
<1>3. proposals' = [proposals EXCEPT ![k] = row]
  OBVIOUS
<1>4. proposals' = [n \in 1..Len(proposals) |-> IF n = k THEN row ELSE proposals[n]]
  BY <1>1, <1>3
<1>5. Len(proposals') = Len(proposals)
  BY <1>1, <1>4
<1>6. Counted(proposals)' 
  BY <1>1, <1>4, <1>5 DEF Counted
<1>7. old.iteration \in 1..run.iteration /\ old.batch \in Batches
  BY <1>1 DEF ProposalsTell
<1> QED
  BY <1>1, <1>2, <1>4, <1>5, <1>6, <1>7 DEF Offered, TeamTypes

(* A proposal is settled where it stands.                                  *)
LEMMA ProposalsStay ==
    ASSUME TeamInv, NEW c \in 1..Len(proposals), Offered(c), UNCHANGED <<run, iteration>>
    PROVE  ProposalsTell'
<1>1. \A k \in 1..Len(proposals') :
          k \in 1..Len(proposals) /\ proposals'[k].iteration = proposals[k].iteration
  BY OffersKeep DEF Offered
<1>2. \A k \in 1..Len(proposals') :
         /\ proposals'[k].iteration \in 1..run.iteration /\ proposals'[k].batch \in Batches
         /\ (run.phase = "PLANNING" /\ proposals'[k].iteration = run.iteration) =>
                iteration[run.iteration].pending = k
  BY <1>1, OffersKeep DEF TeamInv, ProposalsTell
<1>3. \A n \in Team!Numbers : iteration[n].pending # 0 =>
         /\ iteration[n].pending \in 1..Len(proposals')
         /\ proposals'[iteration[n].pending].iteration = n
  BY OffersKeep DEF TeamInv, ProposalsTell
<1> QED
  BY <1>2, <1>3, OffersKeep DEF ProposalsTell

(* An operator, or the approval that was asked for, answers a proposal.    *)
LEMMA RefusalKeeps ==
    ASSUME TeamInv, NEW k \in DOMAIN proposals, NEW status,
           proposals[k].status = "PENDING",
           proposals' = [proposals EXCEPT ![k].status = status],
           UNCHANGED <<run, execution, loopLease, iteration, step, teamPass>>
    PROVE  TeamInv'
<1> USE DEF TeamInv
<1>1. k \in 1..Len(proposals) /\ Offered(k)
  BY AnsweredOffers
<1>2. ProposalsTell'
  BY <1>1, ProposalsStay
<1>3. TeamTypes' /\ StepsTell'
  BY <1>1 DEF TeamTypes, StepsTell, Offered
<1>4. PassesKnow'
  BY DEF PassesKnow, Knows, Answered
<1>5. IterationsTell'
  <2>1. \A n \in Team!Numbers : Admitted(n) => Admitted(n)'
    BY <1>1, OffersKeep DEF Admitted, Answered
  <2> QED
    BY <2>1 DEF IterationsTell
<1>6. Team!BatchWasPlannedOnItsBase' /\ Team!LimitsHold' /\ Team!IterationsAreEarned'
  BY DEF Team!BatchWasPlannedOnItsBase, Team!LimitsHold, Team!IterationsAreEarned
<1>7. Team!DecisionAfterItsWorkers' /\ Team!CompletedReleasesHold' /\ Team!EndedRunsPreserve'
  BY DEF Team!DecisionAfterItsWorkers, Team!Settled, Team!CompletedReleasesHold,
     Team!EndedRunsPreserve
<1> QED
  BY <1>2, <1>3, <1>4, <1>5, <1>6, <1>7

(* An operator approves a batch: its rows join the plan, the run learns of *)
(* it from the next pass.                                                  *)
LEMMA ApprovalKeeps ==
    ASSUME TeamConstants, TeamInv, NEW k \in DOMAIN proposals, Team!ApproveBatch(k)
    PROVE  TeamInv'
<1> USE DEF TeamInv
<1>1. UNCHANGED <<run, loopLease, iteration, teamPass>> /\ proposals[k].status = "PENDING"
  BY DEF Team!ApproveBatch
<1>2. CASE /\ proposals' = [proposals EXCEPT ![k].status = "STALE"]
           /\ UNCHANGED <<execution, step>>
  BY <1>1, <1>2, RefusalKeeps
<1>3. CASE /\ execution.status = "RUNNING"
           /\ proposals' = [proposals EXCEPT ![k].status = "ACCEPTED"]
           /\ execution' = [execution EXCEPT !.revision = @ + 1]
           /\ step' = Team!Materialized(proposals[k].batch, proposals[k].iteration)
  <2>1. k \in 1..Len(proposals) /\ Offered(k)
    BY <1>1, <1>3, AnsweredOffers
  <2>2. PICK n \in Team!Numbers, batch \in Batches :
            n = proposals[k].iteration /\ batch = proposals[k].batch
    BY <2>1 DEF ProposalsTell, TeamTypes, TeamConstants, Team!Numbers
  <2>3. iteration[n].accepted = 0
    BY <1>1, <2>1, <2>2 DEF IterationsTell, Admitted, ProposalsTell,
       Team!OneProposalPerIteration, TeamTypes, Counted
  <2>4. step' = Team!Materialized(batch, n)
    BY <1>3, <2>2
  <2>5. ProposalsTell'
    BY <1>1, <2>1, ProposalsStay
  <2>6. TeamTypes' /\ StepsTell'
    <3>1. /\ execution' = [status |-> execution'.status, revision |-> execution'.revision,
                           reason |-> execution'.reason]
          /\ execution'.revision \in Nat
      <4>1. execution' = [execution EXCEPT !.revision = @ + 1]
        BY <1>3
      <4> QED
        BY <4>1 DEF TeamTypes
    <3> QED
      BY <1>1, <2>1, <2>4, <3>1, BatchJoins DEF TeamTypes, Offered
  <2>7. /\ \A m \in Team!Numbers : step'[Team!Planner(m)] = step[Team!Planner(m)]
        /\ \A m \in Team!Numbers : m # n => step'[Team!Verifier(m)] = step[Team!Verifier(m)]
        /\ \A s \in Team!Steps : s[2] # n => step'[s] = step[s]
        /\ step'[Team!Verifier(n)].attempts = 0
    BY <2>4, BatchJoins DEF Team!Verifier, Team!Steps
  <2>8. PassesKnow'
    BY <1>1, <2>3, <2>7, PassesStay DEF PassRests, AnswersStay, Answered
  <2>9. IterationsTell' /\ Team!BatchWasPlannedOnItsBase'
    <3>1. \A m \in Team!Numbers : m # n /\ Admitted(m) => Admitted(m)'
      BY <1>1, <2>1, <2>7, OffersKeep DEF Admitted, Answered
    <3> QED
      BY <1>1, <2>3, <2>7, <3>1 DEF IterationsTell, Team!BatchWasPlannedOnItsBase
  <2>10. Team!LimitsHold' /\ Team!IterationsAreEarned'
    BY <1>1 DEF Team!LimitsHold, Team!IterationsAreEarned
  <2>11. Team!DecisionAfterItsWorkers'
    <3>1. ASSUME NEW m \in Team!Numbers, step'[Team!Verifier(m)].attempts > 0,
                 NEW s \in Team!WorkersOf(iteration[m].batch, m)
          PROVE  Team!Settled(s)'
      <4>1. iteration[m].accepted # 0 /\ iteration[m].batch \in Batches
        BY <3>1 DEF IterationsTell, Team!WorkersOf
      <4>2. s \in Team!Steps /\ s[2] = m
        BY <3>1, <4>1 DEF TeamConstants, Team!WorkersOf, Team!Steps
      <4>3. m # n
        BY <2>3, <4>1
      <4>4. Team!Settled(s)
        BY <2>7, <3>1, <4>3 DEF Team!DecisionAfterItsWorkers
      <4> QED
        BY <2>7, <4>2, <4>3, <4>4 DEF Team!Settled
    <3> QED
      BY <1>1, <3>1 DEF Team!DecisionAfterItsWorkers
  <2>12. Team!CompletedReleasesHold' /\ Team!EndedRunsPreserve'
    BY <1>1, <1>3 DEF Team!CompletedReleasesHold, Team!EndedRunsPreserve, TeamTypes
  <2> QED
    BY <2>5, <2>6, <2>8, <2>9, <2>10, <2>11, <2>12
<1> QED
  BY <1>2, <1>3 DEF Team!ApproveBatch

(* What a submission of the current iteration makes of the proposals.      *)
Submission(p, n, c, outcome) ==
    /\ n = run.iteration /\ n \in Team!Numbers
    /\ run.phase = "PLANNING" /\ n = teamPass[p].iteration
    /\ Answered(Team!Planner(n)) /\ Team!Answer(p).batch \in Batches
    /\ Team!Answer(p).base = step[Team!Planner(n)].frozen
    /\ Team!Answer(p).base = execution.revision
    /\ Team!WithinBounds(Team!Answer(p).batch)
    /\ c = Team!Chosen(p) /\ Offered(c)
    /\ proposals'[c].iteration = n /\ proposals'[c].status = outcome
    /\ iteration[n].pending \in {0, c}
    /\ \A k \in 1..Len(proposals') : proposals'[k].iteration = n => k = c

(* A batch is submitted for the iteration that is planned, on the revision *)
(* its planner was frozen with.                                            *)
LEMMA SubmissionIsRight ==
    ASSUME TeamConstants, TeamInv, NEW p \in Passes, NEW effect, NEW outcome,
           Team!Submittable(p, effect, outcome)
    PROVE  \E n, c : Submission(p, n, c, outcome)
<1> USE DEF TeamInv
<1> PICK n \in Team!Numbers : n = run.iteration
  BY DEF TeamTypes
<1> PICK c : c = Team!Chosen(p)
  OBVIOUS
<1>1. /\ run.phase = "PLANNING" /\ n = teamPass[p].iteration /\ teamPass[p].at = "submit"
      /\ Team!WithinBounds(Team!Answer(p).batch)
      /\ Team!Answer(p).base = execution.revision
      /\ Team!Answer(p).base = step[Team!Planner(teamPass[p].iteration)].frozen
  BY DEF Team!Submittable, Team!Submits, Team!Admissible, Team!Current, Team!PlannedOnBase,
     Team!OnActive
<1>2. Answered(Team!Planner(n)) /\ Team!Answer(p) \in [batch : Batches, iteration : Nat, base : Nat]
  <2>1. Answered(Team!Planner(n))
    BY <1>1 DEF PassesKnow, Knows
  <2>2. Team!Planner(n)[1] = "planner"
    BY DEF Team!Planner
  <2> QED
    BY <1>1, <2>1, <2>2 DEF Answered, StepsTell, Team!Answer
<1>3. Len(proposals) \in Nat /\ DOMAIN proposals = 1..Len(proposals)
  BY DEF TeamTypes, Counted
<1>4. CASE iteration[n].pending # 0
  <2>1. c = iteration[n].pending /\ Team!Proposed(p) = proposals
    BY <1>4 DEF Team!Chosen, Team!Proposed, Team!Pending
  <2>2. c \in 1..Len(proposals) /\ proposals[c].iteration = n
    BY <1>4, <2>1 DEF ProposalsTell
  <2>3. /\ proposals' = [proposals EXCEPT ![c].status = outcome]
        /\ Team!Outcome(proposals[c], effect) = outcome
    BY <2>1 DEF Team!Submittable
  <2>4. proposals[c].status = "ACCEPTED" => outcome = "ACCEPTED"
    BY <2>3 DEF Team!Outcome
  <2>5. Offered(c) /\ proposals'[c].status = outcome /\ Len(proposals') = Len(proposals)
    BY <1>3, <2>2, <2>3, <2>4, AnsweredOffers
  <2>6. \A k \in 1..Len(proposals') :
            k \in 1..Len(proposals) /\ proposals'[k].iteration = proposals[k].iteration
    BY <2>2, <2>5 DEF Offered
  <2>7. \A k \in 1..Len(proposals') : proposals'[k].iteration = n => k = c
    BY <1>3, <2>2, <2>6 DEF ProposalsTell, Team!OneProposalPerIteration
  <2>8. /\ Team!Answer(p).batch \in Batches /\ iteration[n].pending \in {0, c}
        /\ Team!Answer(p).base = step[Team!Planner(n)].frozen
        /\ proposals'[c].iteration = n
    BY <1>1, <1>2, <2>1, <2>2, <2>5, <2>6 DEF Offered
  <2>9. Submission(p, n, c, outcome)
    BY <1>1, <1>2, <2>5, <2>7, <2>8 DEF Submission
  <2> QED
    BY <2>9
<1>5. CASE iteration[n].pending = 0
  <2> PICK base, batch : base = Team!Answer(p).base /\ batch = Team!Answer(p).batch
    OBVIOUS
  <2> PICK new : new = [iteration |-> n, base |-> base, batch |-> batch, status |-> "PENDING"]
    OBVIOUS
  <2> PICK row : row = [iteration |-> n, base |-> base, batch |-> batch, status |-> outcome]
    OBVIOUS
  <2> PICK longer : longer = Append(proposals, new)
    OBVIOUS
  <2>1. c = Len(proposals) + 1 /\ Team!Proposed(p) = longer
    BY <1>5 DEF Team!Chosen, Team!Proposed, Team!Pending
  <2>2. /\ Len(longer) = c /\ longer[c] = new /\ longer = [k \in 1..c |-> longer[k]]
        /\ \A k \in 1..Len(proposals) : longer[k] = proposals[k]
        /\ c \in Nat /\ Len(proposals) < c /\ c \in 1..c
        /\ \A k \in 1..c : k # c => k \in 1..Len(proposals)
    BY <1>3, <2>1, CountedGrows DEF TeamTypes, Counted
  <2>3. row = [new EXCEPT !.status = outcome]
    OBVIOUS
  <2>4. proposals' = [longer EXCEPT ![c] = row]
    BY <2>1, <2>2, <2>3 DEF Team!Submittable
  <2>5. proposals' = [k \in 1..c |-> IF k = c THEN row ELSE longer[k]]
    BY <2>2, <2>4
  <2>6. Len(proposals') = c
    BY <2>2, <2>5
  <2>7. Counted(proposals)'
    BY <2>2, <2>5, <2>6 DEF Counted
  <2>8. \A k \in 1..Len(proposals) : proposals[k].iteration # n
    BY <1>1, <1>5 DEF ProposalsTell
  <2>9. /\ proposals'[c] = row /\ row.iteration = n /\ row.batch = batch /\ row.status = outcome
        /\ \A k \in 1..c : k # c => proposals'[k] = proposals[k]
    BY <2>2, <2>5
  <2>10. Offered(c)
    <3>1. /\ proposals'[c].iteration \in 1..run.iteration /\ proposals'[c].batch \in Batches
      BY <1>2, <2>9 DEF Team!Numbers
    <3>2. \A k \in 1..c :
             proposals'[k] = [iteration |-> proposals'[k].iteration, base |-> proposals'[k].base,
                              batch |-> proposals'[k].batch, status |-> proposals'[k].status]
      <4>1. row = [iteration |-> row.iteration, base |-> row.base, batch |-> row.batch,
                   status |-> row.status]
        OBVIOUS
      <4> QED
        BY <2>2, <2>9, <4>1 DEF TeamTypes
    <3>3. c \notin 1..Len(proposals) /\ Len(proposals) <= c
      BY <1>3, <2>2
    <3> QED
      BY <2>2, <2>6, <2>7, <2>8, <2>9, <3>1, <3>2, <3>3 DEF Offered
  <2>11. \A k \in 1..Len(proposals') : proposals'[k].iteration = n => k = c
    BY <2>2, <2>6, <2>8, <2>9
  <2> QED
    BY <1>1, <1>2, <1>5, <2>9, <2>10, <2>11 DEF Submission
<1> QED
  BY <1>4, <1>5 DEF ProposalsTell

(* The policy asks for an approval.                                        *)
LEMMA PendingKeeps ==
    ASSUME TeamConstants, TeamInv, NEW p \in Passes, NEW effect, Team!SubmitPending(p, effect)
    PROVE  TeamInv'
<1> USE DEF TeamInv
<1>1. PICK n, c : Submission(p, n, c, "PENDING")
  BY SubmissionIsRight DEF Team!SubmitPending
<1>2. /\ UNCHANGED <<run, execution, loopLease, step>> /\ Team!Ends(p)
      /\ iteration' = [iteration EXCEPT ![n].pending = c]
  BY <1>1 DEF Team!SubmitPending, Submission
<1>3. /\ n \in Team!Numbers /\ n = run.iteration /\ Offered(c)
      /\ proposals'[c].iteration = n
      /\ \A k \in 1..Len(proposals') : proposals'[k].iteration = n => k = c
  BY <1>1 DEF Submission
<1>4. /\ \A m \in Team!Numbers :
             iteration'[m] = [planner |-> iteration[m].planner, pending |-> iteration'[m].pending,
                              batch |-> iteration[m].batch, accepted |-> iteration[m].accepted,
                              decision |-> iteration[m].decision]
      /\ iteration' = [m \in Team!Numbers |-> iteration'[m]]
      /\ iteration'[n].pending = c
      /\ \A m \in Team!Numbers : m # n => iteration'[m].pending = iteration[m].pending
  <2> PICK old : old = iteration[n]
    OBVIOUS
  <2> PICK row : row = [old EXCEPT !.pending = c]
    OBVIOUS
  <2>1. /\ row = [planner |-> old.planner, pending |-> row.pending, batch |-> old.batch,
                  accepted |-> old.accepted, decision |-> old.decision]
        /\ row.pending = c
    BY <1>3 DEF TeamTypes
  <2>2. iteration' = [iteration EXCEPT ![n] = row]
    BY <1>2
  <2> QED
    BY <1>3, <2>1, <2>2 DEF TeamTypes
<1>5. \A m \in Team!Numbers :
         /\ iteration'[m].planner = iteration[m].planner
         /\ iteration'[m].batch = iteration[m].batch
         /\ iteration'[m].accepted = iteration[m].accepted
         /\ iteration'[m].decision = iteration[m].decision
  BY <1>4
<1>6. TeamTypes' /\ StepsTell'
  <2>1. iteration' = [m \in Team!Numbers |->
           [planner |-> iteration'[m].planner, pending |-> iteration'[m].pending,
            batch |-> iteration'[m].batch, accepted |-> iteration'[m].accepted,
            decision |-> iteration'[m].decision]]
    BY <1>4
  <2> QED
    BY <1>2, <1>3, <2>1 DEF TeamTypes, StepsTell, Offered
<1>7. PassesKnow'
  BY <1>2, <1>5, PassesStay DEF PassRests, AnswersStay, Answered
<1>8. ProposalsTell'
  <2>1. \A k \in 1..Len(proposals') :
           /\ proposals'[k].iteration \in 1..run.iteration /\ proposals'[k].batch \in Batches
           /\ proposals'[k].iteration = n => iteration'[n].pending = k
    BY <1>3, <1>4, OffersKeep
  <2>2. \A m \in Team!Numbers : iteration'[m].pending # 0 =>
           /\ iteration'[m].pending \in 1..Len(proposals')
           /\ proposals'[iteration'[m].pending].iteration = m
    <3>1. c \in 1..Len(proposals')
      BY <1>3 DEF Offered
    <3> QED
      BY <1>3, <1>4, <3>1, OffersKeep DEF ProposalsTell
  <2> QED
    BY <1>2, <1>3, <2>1, <2>2, OffersKeep DEF ProposalsTell
<1>9. IterationsTell' /\ Team!BatchWasPlannedOnItsBase'
  <2>1. \A m \in Team!Numbers : Admitted(m) => Admitted(m)'
    BY <1>2, <1>3, <1>5, OffersKeep DEF Admitted, Answered, Team!WorkersOf
  <2> QED
    BY <1>2, <1>5, <2>1 DEF IterationsTell, Team!BatchWasPlannedOnItsBase
<1>10. Team!LimitsHold' /\ Team!DecisionAfterItsWorkers'
  BY ZenonT(60), <1>2, <1>5 DEF Team!LimitsHold, Team!DecisionAfterItsWorkers, Team!Settled
<1>11. Team!IterationsAreEarned'
  <2>1. \A m \in 2..run.iteration : m - 1 \in Team!Numbers
    BY DEF TeamConstants, TeamTypes, Team!Numbers
  <2> QED
    BY <1>2, <1>5, <2>1 DEF Team!IterationsAreEarned
<1>12. Team!CompletedReleasesHold' /\ Team!EndedRunsPreserve'
  BY <1>2 DEF Team!CompletedReleasesHold, Team!EndedRunsPreserve
<1> QED
  BY <1>6, <1>7, <1>8, <1>9, <1>10, <1>11, <1>12

(* The policy, or another patch, refuses the batch: run and execution      *)
(* fail.                                                                   *)
LEMMA RefusedKeeps ==
    ASSUME TeamConstants, TeamInv, NEW p \in Passes, NEW effect, Team!SubmitRefused(p, effect)
    PROVE  TeamInv'
<1> USE DEF TeamInv
<1>1. PICK n, c, outcome : Submission(p, n, c, outcome)
  BY SubmissionIsRight DEF Team!SubmitRefused
<1>2. /\ UNCHANGED <<iteration, step>> /\ Team!Ends(p)
      /\ run' = [run EXCEPT !.phase = Team!Applied(@, "fail")] /\ Team!Preserves("FAILED")
      /\ Team!FailExecution("batch")
  BY DEF Team!SubmitRefused, Team!FailStaleBatch
<1>3. n = run.iteration /\ run.phase = "PLANNING" /\ Offered(c)
  BY <1>1 DEF Submission
<1>4. /\ run'.phase = "FAILED" /\ run'.iteration = run.iteration /\ run'.workers = run.workers
      /\ run' = [phase |-> run'.phase, iteration |-> run.iteration, workers |-> run.workers]
      /\ loopLease' = "PRESERVED"
  <2>1. Team!Applied(run.phase, "fail") = "FAILED" /\ "FAILED" \in Team!Terminal
    BY <1>3, PhasesMove DEF Team!Terminal
  <2> QED
    BY <1>2, <2>1 DEF TeamTypes, Team!Preserves
<1>5. \/ UNCHANGED execution
      \/ \E reason : execution' =
             [status |-> "FAILED", revision |-> execution.revision, reason |-> reason]
  BY <1>2 DEF Team!FailExecution, TeamTypes
<1>6. TeamTypes' /\ StepsTell'
  <2>1. /\ execution' = [status |-> execution'.status, revision |-> execution'.revision,
                         reason |-> execution'.reason]
        /\ execution'.revision \in Nat
    BY <1>5 DEF TeamTypes
  <2>2. run' \in [phase : Team!Live \cup Team!Terminal, iteration : Team!Numbers, workers : Nat]
    BY <1>4 DEF TeamTypes, Team!Terminal
  <2> QED
    BY <1>2, <1>3, <2>1, <2>2 DEF TeamTypes, StepsTell, Offered
<1>7. PassesKnow'
  BY <1>2, PassesStay DEF PassRests, AnswersStay, Answered
<1>8. ProposalsTell'
  <2>1. \A m \in Team!Numbers : iteration[m].pending # 0 =>
           /\ iteration[m].pending \in 1..Len(proposals')
           /\ proposals'[iteration[m].pending].iteration = m
    BY <1>3, OffersKeep DEF ProposalsTell
  <2> QED
    BY <1>2, <1>3, <1>4, <2>1, OffersKeep DEF ProposalsTell
<1>9. IterationsTell' /\ Team!BatchWasPlannedOnItsBase'
  <2>1. \A m \in Team!Numbers : Admitted(m) => Admitted(m)'
    BY <1>2, <1>3, OffersKeep DEF Admitted, Answered
  <2> QED
    BY <1>2, <1>4, <2>1 DEF IterationsTell, Team!BatchWasPlannedOnItsBase
<1>10. Team!LimitsHold' /\ Team!IterationsAreEarned' /\ Team!DecisionAfterItsWorkers'
  BY <1>2, <1>4 DEF Team!LimitsHold, Team!IterationsAreEarned, Team!DecisionAfterItsWorkers,
     Team!Settled
<1>11. Team!CompletedReleasesHold' /\ Team!EndedRunsPreserve'
  BY <1>4 DEF Team!CompletedReleasesHold, Team!EndedRunsPreserve, Team!Terminal
<1> QED
  BY <1>6, <1>7, <1>8, <1>9, <1>10, <1>11

(* Up to each iteration the admitted workers are counted as before, and    *)
(* from the one that is admitted on with its batch.                        *)
LEMMA CountGoesOn ==
    ASSUME TeamConstants, TeamInv, NEW n \in Team!Numbers, NEW batch \in Batches,
           iteration[n].batch = <<>>,
           iteration'[n].batch = batch,
           \A m \in Team!Numbers : m # n => iteration'[m].batch = iteration[m].batch,
           run'.iteration = run.iteration,
           run'.workers = run.workers + Len(batch),
           run.workers + Len(batch) <= MaxTotalWorkers
    PROVE  Team!LimitsHold'
<1>1. PICK total \in [0..MaxIterations -> 0..run.workers] :
          /\ total[0] = 0 /\ total[MaxIterations] = run.workers
          /\ \A m \in Team!Numbers : total[m] = total[m - 1] + Len(iteration[m].batch)
  BY DEF TeamInv, Team!LimitsHold
<1>2. /\ Len(batch) \in Nat /\ run.workers \in Nat
      /\ MaxIterations \in Nat \ {0} /\ n \in 1..MaxIterations
  BY DEF TeamConstants, TeamInv, TeamTypes, Team!Numbers
<1>3. PICK more : more = [m \in 0..MaxIterations |-> IF m < n THEN total[m]
                                                      ELSE total[m] + Len(batch)]
  OBVIOUS
<1>4. more \in [0..MaxIterations -> 0..run'.workers]
  BY SMTT(30), <1>1, <1>2, <1>3
<1>5. more[0] = 0 /\ more[MaxIterations] = run'.workers
  BY <1>1, <1>2, <1>3
<1>6. ASSUME NEW m \in Team!Numbers PROVE more[m] = more[m - 1] + Len(iteration'[m].batch)
  <2>1. m \in 1..MaxIterations /\ m - 1 \in 0..MaxIterations /\ m \in 0..MaxIterations
    BY <1>2 DEF Team!Numbers
  <2>2. /\ total[m] = total[m - 1] + Len(iteration[m].batch)
        /\ total[m] \in Nat /\ total[m - 1] \in Nat
    BY <1>1, <1>2, <2>1 DEF Team!Numbers
  <2>3. Len(iteration[m].batch) \in Nat
    BY DEF TeamConstants, TeamInv, IterationsTell
  <2> PICK here \in Nat, before \in Nat, added \in Nat, size \in Nat :
          /\ here = total[m] /\ before = total[m - 1]
          /\ added = Len(iteration[m].batch) /\ size = Len(batch)
    BY <1>2, <2>2, <2>3
  <2>4. here = before + added
    BY <2>2
  <2>5. CASE m = n
    <3>1. Len(iteration'[m].batch) = size /\ added = 0
      BY <2>5
    <3>2. more[m] = here + size /\ more[m - 1] = before
      BY <1>2, <1>3, <2>1, <2>5
    <3>3. here + size = before + size
      BY <2>4, <3>1
    <3> QED
      BY <3>1, <3>2, <3>3
  <2>6. CASE m < n
    <3>1. m # n /\ m - 1 < n
      BY <1>2, <2>1, <2>6
    <3>2. Len(iteration'[m].batch) = added
      BY <3>1
    <3>3. more[m] = here /\ more[m - 1] = before
      BY <1>3, <2>1, <2>6, <3>1
    <3> QED
      BY <2>4, <3>2, <3>3
  <2>7. CASE n < m
    <3>1. m # n /\ ~(m < n) /\ ~(m - 1 < n)
      BY <1>2, <2>1, <2>7
    <3>2. Len(iteration'[m].batch) = added
      BY <3>1
    <3>3. more[m] = here + size /\ more[m - 1] = before + size
      BY <1>3, <2>1, <3>1
    <3>4. here + size = (before + size) + added
      BY SMTT(30), <2>4
    <3> QED
      BY <3>2, <3>3, <3>4
  <2> QED
    BY <1>2, <2>1, <2>5, <2>6, <2>7
<1>7. run'.iteration <= MaxIterations /\ run'.workers <= MaxTotalWorkers
  BY DEF TeamInv, Team!LimitsHold
<1> QED
  BY <1>4, <1>5, <1>6, <1>7 DEF Team!LimitsHold

(* The batch is activated: revision, rows, manifest, counters and phase    *)
(* are written together.                                                   *)
LEMMA AcceptedKeeps ==
    ASSUME TeamConstants, TeamInv, NEW p \in Passes, NEW effect, Team!SubmitAccepted(p, effect)
    PROVE  TeamInv'
<1> USE DEF TeamInv
<1>1. PICK n, c : Submission(p, n, c, "ACCEPTED")
  BY SubmissionIsRight DEF Team!SubmitAccepted
<1>2. PICK batch \in Batches : batch = Team!Answer(p).batch
  BY <1>1 DEF Submission
<1>3. /\ n \in Team!Numbers /\ n = run.iteration /\ run.phase = "PLANNING" /\ Offered(c)
      /\ proposals'[c].iteration = n /\ proposals'[c].status = "ACCEPTED"
      /\ Answered(Team!Planner(n)) /\ execution.revision = step[Team!Planner(n)].frozen
      /\ run.workers + Len(batch) <= MaxTotalWorkers
  BY <1>1, <1>2 DEF Submission, Team!WithinBounds
<1>4. /\ execution' = [execution EXCEPT !.revision = @ + 1]
      /\ step' = Team!Materialized(batch, n)
      /\ iteration' = [iteration EXCEPT ![n].batch = batch, ![n].pending = 0,
                                        ![n].accepted = execution.revision + 1]
      /\ run' = [run EXCEPT !.workers = @ + Len(batch),
                            !.phase = Team!Applied(Team!Applied(@, "plannerProposed"),
                                                   "batchValidated")]
      /\ Team!Ends(p) /\ UNCHANGED loopLease
  BY <1>2, <1>3 DEF Team!SubmitAccepted
<1>5. /\ execution' = [status |-> execution.status, revision |-> execution'.revision,
                       reason |-> execution.reason]
      /\ execution.revision \in Nat /\ execution'.revision = execution.revision + 1
  <2>1. execution' = [execution EXCEPT !.revision = @ + 1]
    BY <1>4
  <2> QED
    BY <2>1 DEF TeamTypes
<1>6. /\ run' = [phase |-> "WORKING", iteration |-> n, workers |-> run'.workers]
      /\ run'.workers = run.workers + Len(batch) /\ run'.workers \in Nat
  <2>1. Team!Applied(Team!Applied(run.phase, "plannerProposed"), "batchValidated") = "WORKING"
    BY <1>3, PhasesMove DEF Team!Terminal
  <2>2. run = [phase |-> run.phase, iteration |-> n, workers |-> run.workers]
        /\ run.workers \in Nat /\ Len(batch) \in Nat
    BY <1>3 DEF TeamTypes, TeamConstants
  <2>3. PICK phase :
          phase = Team!Applied(Team!Applied(run.phase, "plannerProposed"), "batchValidated")
    OBVIOUS
  <2>4. PICK workers \in Nat : workers = run.workers + Len(batch)
    BY <2>2
  <2>5. run' = [run EXCEPT !.workers = workers, !.phase = phase]
    BY <1>4, <2>3, <2>4
  <2>6. run' = [phase |-> phase, iteration |-> n, workers |-> workers]
    <3>1. run = [phase |-> run.phase, iteration |-> run.iteration, workers |-> run.workers]
      BY DEF TeamTypes
    <3> QED
      BY <1>3, <2>5, <3>1
  <2> QED
    BY <2>1, <2>3, <2>4, <2>6
<1>7. /\ iteration'[n] = [planner |-> iteration[n].planner, pending |-> 0, batch |-> batch,
                          accepted |-> execution.revision + 1,
                          decision |-> iteration[n].decision]
      /\ \A m \in Team!Numbers : m # n => iteration'[m] = iteration[m]
      /\ iteration' = [m \in Team!Numbers |-> iteration'[m]]
  <2> PICK old, accepted, none :
          old = iteration[n] /\ accepted = execution.revision + 1 /\ none = 0
    OBVIOUS
  <2> PICK row : row = [old EXCEPT !.batch = batch, !.pending = none, !.accepted = accepted]
    OBVIOUS
  <2>1. old = [planner |-> old.planner, pending |-> old.pending, batch |-> old.batch,
               accepted |-> old.accepted, decision |-> old.decision]
    BY <1>3 DEF TeamTypes
  <2>2. row = [planner |-> old.planner, pending |-> none, batch |-> batch,
               accepted |-> accepted, decision |-> old.decision]
    BY <2>1
  <2>3. iteration' = [iteration EXCEPT ![n] = row]
    BY <1>4
  <2> QED
    BY <1>3, <2>2, <2>3 DEF TeamTypes
<1>8. /\ iteration[n].accepted = 0 /\ iteration[n].batch = <<>>
      /\ iteration'[n].planner = iteration[n].planner /\ iteration'[n].pending = 0
      /\ iteration'[n].batch = batch /\ iteration'[n].accepted = execution.revision + 1
      /\ iteration'[n].decision = iteration[n].decision
  BY <1>3, <1>7 DEF IterationsTell
<1>9. /\ \A m \in Team!Numbers : step'[Team!Planner(m)] = step[Team!Planner(m)]
      /\ \A m \in Team!Numbers : m # n => step'[Team!Verifier(m)] = step[Team!Verifier(m)]
      /\ \A s \in Team!Steps : s[2] # n => step'[s] = step[s]
      /\ step'[Team!Verifier(n)].attempts = 0
      /\ step'[Team!Verifier(n)].after = Team!WorkersOf(batch, n)
  BY <1>3, <1>4, BatchJoins DEF Team!Verifier, Team!Steps
<1>10. TeamTypes' /\ StepsTell'
  <2>1. run' \in [phase : Team!Live \cup Team!Terminal, iteration : Team!Numbers, workers : Nat]
    BY <1>3, <1>6 DEF Team!Live
  <2>2. iteration' = [m \in Team!Numbers |->
           [planner |-> iteration'[m].planner, pending |-> iteration'[m].pending,
            batch |-> iteration'[m].batch, accepted |-> iteration'[m].accepted,
            decision |-> iteration'[m].decision]]
    BY <1>7 DEF TeamTypes
  <2>3. /\ execution' = [status |-> execution'.status, revision |-> execution'.revision,
                         reason |-> execution'.reason]
        /\ execution'.revision \in Nat
    BY <1>5
  <2> QED
    BY <1>3, <1>4, <2>1, <2>2, <2>3, BatchJoins DEF TeamTypes, Offered
<1>11. PassesKnow'
  BY <1>4, <1>7, <1>8, <1>9, PassesStay DEF PassRests, AnswersStay, Answered
<1>12. ProposalsTell'
  <2>1. \A m \in Team!Numbers : iteration'[m].pending # 0 =>
           /\ iteration'[m].pending \in 1..Len(proposals')
           /\ proposals'[iteration'[m].pending].iteration = m
    BY <1>3, <1>7, <1>8, OffersKeep DEF ProposalsTell
  <2> QED
    BY <1>3, <1>6, <2>1, OffersKeep DEF ProposalsTell
<1>13. IterationsTell' /\ Team!BatchWasPlannedOnItsBase'
  <2>1. \A m \in Team!Numbers : m # n /\ Admitted(m) => Admitted(m)'
    BY <1>3, <1>7, <1>9, OffersKeep DEF Admitted, Answered
  <2>2. Admitted(n)'
    <3>1. c \in 1..Len(proposals')
      BY <1>3 DEF Offered
    <3> QED
      BY <1>3, <1>8, <1>9, <3>1 DEF Admitted, Answered, Team!WorkersOf
  <2>3. iteration'[n].accepted \in Nat /\ iteration'[n].accepted # 0
        /\ iteration'[n].accepted = step'[Team!Planner(n)].frozen + 1
    BY <1>3, <1>5, <1>8, <1>9
  <2>4. Team!BatchWasPlannedOnItsBase'
    BY <1>7, <1>9, <2>3 DEF Team!BatchWasPlannedOnItsBase
  <2>5. ~iteration'[n].planner => step'[Team!Planner(n)].status = "absent"
    BY <1>3, <1>8, <1>9 DEF IterationsTell
  <2>6. run'.phase = "WORKING" /\ run'.iteration = n
    BY <1>6
  <2>7. \A m \in Team!Numbers : m # n =>
           /\ iteration'[m].accepted \in Nat
           /\ ~iteration'[m].planner => step'[Team!Planner(m)].status = "absent"
           /\ iteration'[m].accepted # 0 => iteration'[m].batch \in Batches /\ Admitted(m)'
           /\ iteration'[m].accepted = 0 =>
                  iteration'[m].batch = <<>> /\ iteration'[m].decision = Team!NoDecision
           /\ m > n => iteration'[m].accepted = 0
    BY <1>3, <1>7, <1>9, <2>1 DEF IterationsTell
  <2> QED
    BY <1>3, <1>8, <2>2, <2>3, <2>4, <2>5, <2>6, <2>7 DEF IterationsTell, Team!Numbers
<1>14. Team!LimitsHold'
  BY <1>3, <1>6, <1>7, <1>8, CountGoesOn
<1>15. Team!IterationsAreEarned'
  <2>1. \A m \in 2..run.iteration : m - 1 \in Team!Numbers
    BY DEF TeamConstants, TeamTypes, Team!Numbers
  <2>2. \A m \in Team!Numbers : iteration'[m].decision = iteration[m].decision
    BY <1>7, <1>8
  <2> QED
    BY <1>3, <1>6, <2>1, <2>2 DEF Team!IterationsAreEarned
<1>16. Team!DecisionAfterItsWorkers'
  <2>1. ASSUME NEW m \in Team!Numbers, step'[Team!Verifier(m)].attempts > 0,
               NEW s \in Team!WorkersOf(iteration'[m].batch, m)
        PROVE  Team!Settled(s)'
    <3>1. m # n
      BY <1>9, <2>1
    <3>2. iteration'[m] = iteration[m] /\ step'[Team!Verifier(m)] = step[Team!Verifier(m)]
      BY <1>7, <1>9, <3>1
    <3>3. iteration[m].accepted # 0 /\ iteration[m].batch \in Batches
      BY <2>1, <3>2 DEF IterationsTell, Team!WorkersOf
    <3>4. s \in Team!Steps /\ s[2] = m
      BY <2>1, <3>2, <3>3 DEF TeamConstants, Team!WorkersOf, Team!Steps
    <3>5. Team!Settled(s)
      BY <2>1, <3>2 DEF Team!DecisionAfterItsWorkers
    <3> QED
      BY <1>9, <3>1, <3>4, <3>5 DEF Team!Settled
  <2>2. \A m \in Team!Numbers :
           iteration'[m].decision # Team!NoDecision => iteration'[m].accepted # 0
    BY <1>5, <1>7, <1>8 DEF Team!DecisionAfterItsWorkers
  <2> QED
    BY <2>1, <2>2 DEF Team!DecisionAfterItsWorkers
<1>17. Team!CompletedReleasesHold' /\ Team!EndedRunsPreserve'
  BY <1>3, <1>4, <1>5, <1>6 DEF Team!CompletedReleasesHold, Team!EndedRunsPreserve,
     Team!Terminal
<1> QED
  BY <1>10, <1>11, <1>12, <1>13, <1>14, <1>15, <1>16, <1>17

(***************************************************************************)
(* For every team, of any number of iterations, workers and passes: the    *)
(* state of its loop is right at all times - each row, each proposal, each *)
(* pass and what they know of each other.                                  *)
(***************************************************************************)
THEOREM TeamHolds ==
    ASSUME TeamConstants PROVE Team!Spec => []TeamInv
<1>1. Team!Init => TeamInv
  BY TeamStart
<1>2. TeamInv /\ [Team!Next]_(Team!vars) => TeamInv'
  <2> SUFFICES ASSUME TeamInv, [Team!Next]_(Team!vars) PROVE TeamInv'
    OBVIOUS
  <2>1. CASE UNCHANGED Team!vars
    <3>1. PassesKnow'
      BY <2>1 DEF Team!vars, TeamInv, PassesKnow, Knows, Answered
    <3> QED
      BY <2>1, <3>1, ReadingKeeps DEF Team!vars
  <2>2. ASSUME NEW p \in Passes, Team!Act(p) PROVE TeamInv'
    <3>1. CASE Reads(p)
      BY <3>1, ReadsKeep
    <3>2. CASE Team!CreatePlannerStep(p)
      BY <3>2, PlannerKeeps
    <3>3. CASE \/ Team!SubmitLimited(p) \/ Team!SubmitStale(p)
               \/ Team!FailRunAndExecution(p) \/ Team!Transition(p)
      BY <3>3, RunEndsKeep
    <3>4. ASSUME NEW effect \in Effects, Team!SubmitAccepted(p, effect) PROVE TeamInv'
      BY <3>4, AcceptedKeeps
    <3>5. ASSUME NEW effect \in Effects, Team!SubmitPending(p, effect) PROVE TeamInv'
      BY <3>5, PendingKeeps
    <3>6. ASSUME NEW effect \in Effects, Team!SubmitRefused(p, effect) PROVE TeamInv'
      BY <3>6, RefusedKeeps
    <3>7. CASE Team!Consume(p)
      BY <3>7, ConsumeKeeps
    <3> QED
      BY <2>2, <3>1, <3>2, <3>3, <3>4, <3>5, <3>6, <3>7 DEF Team!Act, Reads
  <2>3. ASSUME NEW approve \in BOOLEAN, Team!ResolveWait(approve) PROVE TeamInv'
    BY <2>3, WaitKeeps
  <2>4. ASSUME NEW s \in Team!Steps, Team!Claim(s) \/ Team!StepSucceeds(s) \/ Team!StepFails(s)
        PROVE  TeamInv'
    BY <2>4, WorkKeeps
  <2>5. CASE Team!Complete \/ Team!OperatorPatch
    BY <2>5, ExecutionKeeps
  <2>6. CASE Team!Cancel
    BY <2>6, CancelKeeps
  <2>7. ASSUME NEW k \in DOMAIN proposals, Team!ApproveBatch(k) PROVE TeamInv'
    BY <2>7, ApprovalKeeps
  <2>8. ASSUME NEW k \in DOMAIN proposals, Team!DenyBatch(k) PROVE TeamInv'
    BY <2>8, RefusalKeeps DEF Team!DenyBatch
  <2>9. ASSUME NEW t \in Troubles, Team!Trouble(t) PROVE TeamInv'
    BY <2>9, TroubleKeeps
  <2> QED
    BY <2>1, <2>2, <2>3, <2>4, <2>5, <2>6, <2>7, <2>8, <2>9 DEF Team!Next
<1> QED
  BY <1>1, <1>2, PTL DEF Team!Spec

(* No step moves a run that has ended or a decision that was consumed.     *)
LEMMA EndsStay ==
    ASSUME TeamInv, [Team!Next]_(Team!vars)
    PROVE  /\ run.phase \in Team!Terminal => run' = run
           /\ \A n \in Team!Numbers : iteration[n].decision # Team!NoDecision =>
                  iteration'[n].decision = iteration[n].decision
<1> USE DEF TeamInv
<1>1. run = [phase |-> run.phase, iteration |-> run.iteration, workers |-> run.workers]
      /\ run.iteration \in Team!Numbers
  BY DEF TeamTypes
<1>2. /\ iteration = [n \in Team!Numbers |-> iteration[n]]
      /\ \A n \in Team!Numbers : iteration[n] =
             [planner |-> iteration[n].planner, pending |-> iteration[n].pending,
              batch |-> iteration[n].batch, accepted |-> iteration[n].accepted,
              decision |-> iteration[n].decision]
  BY DEF TeamTypes
<1>3. ASSUME NEW p \in Passes, Team!Act(p), ~UNCHANGED <<run, iteration>>
      PROVE  /\ run.phase \in Team!Terminal => run' = run
             /\ \A n \in Team!Numbers : iteration[n].decision # Team!NoDecision =>
                    iteration'[n].decision = iteration[n].decision
  <2>1. CASE Team!CreatePlannerStep(p)
    BY <1>1, <1>2, <2>1 DEF Team!CreatePlannerStep
  <2>2. CASE Team!SubmitLimited(p) \/ Team!SubmitStale(p)
    BY <2>2 DEF Team!SubmitLimited, Team!SubmitStale, Team!FailStaleBatch, Team!Submits,
       Team!Admissible, Team!Current, Team!Terminal
  <2>3. ASSUME NEW effect, Team!SubmitAccepted(p, effect)
               PROVE  /\ run.phase \notin Team!Terminal
                      /\ \A n \in Team!Numbers : iteration'[n].decision = iteration[n].decision
    BY <1>1, <1>2, <2>3 DEF Team!SubmitAccepted, Team!Submittable, Team!Submits,
       Team!Admissible, Team!Current, Team!Terminal
  <2>4. ASSUME NEW effect, Team!SubmitPending(p, effect)
               PROVE  /\ UNCHANGED run
                      /\ \A n \in Team!Numbers : iteration'[n].decision = iteration[n].decision
    BY <1>1, <1>2, <2>4 DEF Team!SubmitPending
  <2>5. ASSUME NEW effect, Team!SubmitRefused(p, effect)
               PROVE  run.phase \notin Team!Terminal /\ UNCHANGED iteration
    BY <2>5 DEF Team!SubmitRefused, Team!FailStaleBatch, Team!Submittable, Team!Submits,
       Team!Admissible, Team!Current, Team!Terminal
  <2>6. CASE Team!FailRunAndExecution(p) \/ Team!Transition(p)
    BY <1>1, <2>6, PhasesMove DEF Team!FailRunAndExecution, Team!Transition
  <2>7. CASE Team!Consume(p)
    <3> PICK d : d = step[Team!Verifier(teamPass[p].iteration)].answer
      OBVIOUS
    <3>1. /\ run.phase = "VERIFYING" /\ iteration[d.iteration].decision = Team!NoDecision
          /\ iteration' = [iteration EXCEPT ![d.iteration].decision = d]
      BY <1>3, <2>7 DEF Team!Consume, Team!Consumable
    <3> QED
      BY <1>2, <3>1 DEF Team!Terminal
  <2> QED
    BY <1>3, <2>1, <2>2, <2>3, <2>4, <2>5, <2>6, <2>7 DEF Team!Act, Team!Begin,
       Team!LookAtPlanner, Team!LookAtVerifier, Team!ReadWorkerStep, Team!ReadWorkerAttempt,
       Team!SubmitThrows, Team!ConsumeThrows, Team!SubmitLimited, Team!SubmitStale,
       Team!FailStaleBatch
<1>4. ASSUME NEW approve \in BOOLEAN, Team!ResolveWait(approve)
      PROVE  run.phase \notin Team!Terminal /\ UNCHANGED iteration
  BY <1>4 DEF Team!ResolveWait, Team!Terminal
<1>5. CASE UNCHANGED <<run, iteration>>
  BY <1>5
<1> QED
  BY <1>3, <1>4, <1>5 DEF Team!Next, Team!vars, Team!Claim, Team!StepSucceeds,
     Team!StepFails, Team!Complete, Team!Cancel, Team!OperatorPatch, Team!ApproveBatch,
     Team!DenyBatch, Team!Trouble

(***************************************************************************)
(* For every team: the iterations of a run follow each other within the    *)
(* limits, each on one proposal that was planned on the revision it was    *)
(* activated on, each earned by the decision before it, and no decision    *)
(* comes before the workers it is about; a run that ends leaves its        *)
(* workspace and its execution in order.                                   *)
(***************************************************************************)
THEOREM TeamLoopIsSound ==
    ASSUME TeamConstants
    PROVE  Team!Spec => []LoopIsSound
<1>1. TeamInv => LoopIsSound
  BY DEF LoopIsSound, TeamInv, ProposalsTell, Team!IterationsAreSound, Team!EndsAreSound
<1> QED
  BY <1>1, TeamHolds, PTL

(***************************************************************************)
(* For every team: whatever passes, verifiers, operators and agents still  *)
(* do, an ended run stays as it ended, and what a decision has consumed    *)
(* stays consumed.                                                         *)
(***************************************************************************)
THEOREM EndedTeamsStay ==
    ASSUME TeamConstants
    PROVE  Team!Spec => EndedStaysEnded
<1>1. TeamInv /\ [Team!Next]_(Team!vars) =>
          [/\ run.phase \in Team!Terminal => run' = run
           /\ \A n \in Team!Numbers : iteration[n].decision # Team!NoDecision =>
                  iteration'[n].decision = iteration[n].decision]_(Team!vars)
  BY EndsStay
<1> QED
  BY <1>1, TeamHolds, PTL DEF Team!Spec, Team!EndedStaysEnded, EndedStaysEnded
=============================================================================
