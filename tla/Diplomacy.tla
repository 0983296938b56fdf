----------------------------- MODULE Diplomacy ------------------------------
(***************************************************************************)
(* The relationship of the two coalitions (diplomacy.py) as its clients    *)
(* share it: the map server's polling loop (map_server.py, _run), which    *)
(* collects incidents from the daemon's events and from the groups it sees *)
(* across a border, and operators, short sessions that decide something    *)
(* (sdk.py).  They share it through snapshots in the daemon's audit store: *)
(* each refreshes, changes its own copy and persists the whole of it.      *)
(*                                                                         *)
(* A step of a client ends at an await.  Between two awaits a client only  *)
(* works on its own copy, so ApplyEvent and CheckBorder take one event and *)
(* one group at a time.                                                    *)
(***************************************************************************)
EXTENDS Integers, FiniteSets, FiniteSetsExt, Sequences

CONSTANTS
    Operators,       \* sessions that change the relationship by hand
    Groups,          \* ground groups that may cross into a foreign territory
    Deeds,           \* kills and captures, each with its semantic identity
    Weight,          \* the points of each deed
    BorderWeight,    \* the points of a border violation
    Tolerance,       \* mission time a group may stay across the border
    Wanted,          \* the states an operator may propose
    None,            \* no proposal, crossing, snapshot, draft or cursor
    MaxMissions,     \* bounds of the missions,
    MaxTime,         \* of the time of a mission,
    MaxEvents,       \* of the events of a mission,
    MaxStays,        \* of a group's stays across the border,
    MaxSessions,     \* of the operators' sessions
    MaxRestarts      \* and of the restarts of the map server

ASSUME WeightAssumption == Weight \in [Deeds -> Nat] /\ BorderWeight \in Nat

ASSUME WantedAssumption ==
    Wanted \subseteq {"peace", "tense", "limited_conflict", "war", "ceasefire"}

ASSUME BoundsAssumption ==
    /\ Tolerance \in Nat
    /\ MaxMissions \in Nat \ {0} /\ MaxTime \in Nat /\ MaxEvents \in Nat
    /\ MaxStays \in Nat /\ MaxSessions \in Nat /\ MaxRestarts \in Nat

RelationshipState == {"peace", "tense", "limited_conflict", "war", "ceasefire"}

(* Incidents are named by what they are about, so that the same deed is    *)
(* recognised in another message.  The mission is not a part of the name   *)
(* in the code; it is here for NoStaleIncident.                            *)
Deed(m, d) == [mission |-> m, type |-> "deed", about |-> d, at |-> 0]
Violation(m, g, since) == [mission |-> m, type |-> "border", about |-> g, at |-> since]
Declaration(m, t) == [mission |-> m, type |-> "war", about |-> None, at |-> t]

Incidents ==
    [mission : Nat, type : {"deed"}, about : Deeds, at : {0}]
      \union [mission : Nat, type : {"border"}, about : Groups, at : Nat]
      \union [mission : Nat, type : {"war"}, about : {None}, at : Nat]

Proposals == [from : RelationshipState, to : RelationshipState]
Relationships ==
    [state : RelationshipState, score : 0 .. 100, incidents : SUBSET Incidents,
     pending : Proposals \union {None}, automatic : BOOLEAN]

Crossings == [since : Nat, reported : BOOLEAN]
Trackers == [Groups -> Crossings \union {None}]
Snapshots == [relation : Relationships, border : Trackers]

ASSUME NoneAssumption == None \notin Crossings /\ None \notin Snapshots

Peaceful ==
    [state |-> "peace", score |-> 0, incidents |-> {}, pending |-> None,
     automatic |-> TRUE]

NoCrossing == [g \in Groups |-> None]
Fresh == [relation |-> Peaceful, border |-> NoCrossing]

-----------------------------------------------------------------------------
(* The relationship.                                                       *)

Points(i) ==
    CASE i.type = "deed" -> Weight[i.about]
      [] i.type = "border" -> BorderWeight
      [] i.type = "war" -> 100

\* A fault: the score is not bounded.
FaultyBounded(score) == score

Bounded(score) == IF score > 100 THEN 100 ELSE score

Rank == [peace |-> 0, tense |-> 1, limited_conflict |-> 2, war |-> 3]

(* The state the score alone calls for.                                    *)
Candidate(score) ==
    CASE score >= 80 -> "war"
      [] score >= 50 /\ score < 80 -> "limited_conflict"
      [] score >= 20 /\ score < 50 -> "tense"
      [] score < 20 -> "peace"

(* Whether the score calls for a higher state than the present one; out of *)
(* a ceasefire only for war.                                               *)
Escalates(r) ==
    CASE r.state = "war" -> FALSE
      [] r.state = "ceasefire" -> r.score >= 80
      [] r.state \notin {"war", "ceasefire"} -> Rank[Candidate(r.score)] > Rank[r.state]

Propose(r, to) == [r EXCEPT !.pending = [from |-> r.state, to |-> to]]

Approve(r) == [r EXCEPT !.state = r.pending.to, !.pending = None]

Raised(r, i) ==
    LET raised == [r EXCEPT !.score = Bounded(@ + Points(i)),
                            !.incidents = @ \union {i}]
        proposed == Propose(raised, Candidate(raised.score))
    IN  IF ~Escalates(raised) THEN raised
        ELSE IF r.automatic THEN Approve(proposed) ELSE proposed

\* A fault: an incident is scored again.
FaultyRecordIncident(r, i) == Raised(r, i)

RecordIncident(r, i) == IF i \in r.incidents THEN r ELSE Raised(r, i)

\* A fault: the state is set beside the pending proposal.
FaultyDeclareWar(r, i) == [RecordIncident(r, i) EXCEPT !.state = "war"]

(* A declaration proposes and approves war at once.                        *)
DeclareWar(r, i) == [RecordIncident(r, i) EXCEPT !.state = "war", !.pending = None]

(* A client that reads a snapshot approves what is pending in it if the    *)
(* transitions are automatic.                                              *)
Restored(s) ==
    [s EXCEPT !.relation =
        IF @.automatic /\ @.pending # None THEN Approve(@) ELSE @]

\* Faults: the end of a mission clears the relationship alone,
FaultyCleared(s) ==
    [s EXCEPT !.relation = [Peaceful EXCEPT !.automatic = s.relation.automatic]]
\* or the tracker alone.
FaultyCarriedOver(s) == [s EXCEPT !.border = NoCrossing]

(* A mission's end restores peace and keeps the configuration.             *)
Cleared(s) == [Fresh EXCEPT !.relation.automatic = s.relation.automatic]

(* One group in BorderViolationTracker.update: gone, new, tolerated or     *)
(* reported.                                                               *)
GroupSeen(s, m, g, inside, now) ==
    LET crossing == IF s.border[g] = None THEN [since |-> now, reported |-> FALSE]
                                          ELSE s.border[g]
        due == ~crossing.reported /\ now - crossing.since >= Tolerance
    IN  IF ~inside THEN [s EXCEPT !.border[g] = None]
        ELSE IF ~due THEN [s EXCEPT !.border[g] = crossing]
        ELSE [relation |-> RecordIncident(s.relation, Violation(m, g, crossing.since)),
              border |-> [s.border EXCEPT ![g] = [crossing EXCEPT !.reported = TRUE]]]

-----------------------------------------------------------------------------
VARIABLES
    mission,     \* the mission DCS runs, as the daemon knows it
    time,        \* its mission time
    inside,      \* the groups that are across the border
    stays,       \* how often each group has crossed it in this mission
    history,     \* the deeds of the events the daemon retains, in their order
    saved,       \* the last snapshot of each mission in the audit store
    drafts,      \* the operators' sessions between their refresh and persist
    pc,          \* where the map server's loop is
    generation,  \* the mission in its mirror,
    boundary,    \* in its bridge, which resets its own state at a change,
    mapped,      \* and in the loop, which resets its cursor
    copy,        \* its relationship and border tracker
    signature,   \* the crossings it saw in the last cycle
    cursor,      \* the last event it has asked for
    known,       \* the messages its bridge has applied
    todo,        \* the messages of the present cycle still to apply
    unchecked,   \* the groups of the present cycle still to look at
    view,        \* the groups and the time in its mirror
    changed,     \* whether the present cycle has recorded an incident
    lost,        \* whether a snapshot was not saved, or one saved in between
                 \* was overwritten by a session
    sessions,    \* how many sessions,
    restarts     \* and restarts there were

world == <<mission, time, inside, stays, history>>
operators == <<drafts, sessions>>
loop == <<generation, boundary, mapped, copy, signature, cursor, known, todo,
          unchecked, view, changed, restarts>>
vars == <<world, saved, operators, pc, loop, lost>>

Missions == 1 .. MaxMissions
Messages == [mission : Nat, number : Nat, deed : Deeds]
View == [inside : SUBSET Groups, time : Nat]
NoView == [inside |-> {}, time |-> 0]
Draft == [mission : Missions, read : Snapshots \union {None}, copy : Snapshots]

Init ==
    /\ mission = 1 /\ time = 0 /\ inside = {} /\ history = <<>>
    /\ stays = [g \in Groups |-> 0]
    /\ saved = [m \in Missions |-> None]
    /\ drafts = [o \in Operators |-> None]
    /\ pc = "status"
    /\ generation = 0 /\ boundary = 0 /\ mapped = 0
    /\ copy = Fresh /\ signature = NoCrossing
    /\ cursor = None /\ known = {} /\ todo = <<>> /\ unchecked = {}
    /\ view = NoView /\ changed = FALSE
    /\ lost = FALSE /\ sessions = 0 /\ restarts = 0

-----------------------------------------------------------------------------
(* The mission.                                                            *)

AdvanceTime ==
    /\ time < MaxTime
    /\ time' = time + 1
    /\ UNCHANGED <<mission, inside, stays, history, saved, operators, pc, loop, lost>>

Cross(g) ==
    /\ g \notin inside /\ stays[g] < MaxStays
    /\ inside' = inside \union {g}
    /\ stays' = [stays EXCEPT ![g] = @ + 1]
    /\ UNCHANGED <<mission, time, history, saved, operators, pc, loop, lost>>

(* It withdraws, dies or is deactivated.                                   *)
Withdraw(g) ==
    /\ g \in inside
    /\ inside' = inside \ {g}
    /\ UNCHANGED <<mission, time, stays, history, saved, operators, pc, loop, lost>>

(* The capture of an OPSZONE may be told by two events.                    *)
PublishEvent(d) ==
    /\ Len(history) < MaxEvents
    /\ history' = Append(history, d)
    /\ UNCHANGED <<mission, time, inside, stays, saved, operators, pc, loop, lost>>

MissionEnds ==
    /\ mission < MaxMissions
    /\ mission' = mission + 1
    /\ time' = 0 /\ inside' = {} /\ history' = <<>>
    /\ stays' = [g \in Groups |-> 0]
    /\ UNCHANGED <<saved, operators, pc, loop, lost>>

-----------------------------------------------------------------------------
(* The operators.                                                          *)

\* A fault: a session does not restore the tracker it will persist.
FaultyRead(m) ==
    IF saved[m] = None THEN Fresh ELSE [Restored(saved[m]) EXCEPT !.border = NoCrossing]

(* What a session reads; nothing is saved before the first incident.       *)
Read(m) == IF saved[m] = None THEN Fresh ELSE Restored(saved[m])

(* A session has refreshed and decided, and has yet to persist.            *)
Decide(o, decided) ==
    /\ drafts[o] = None /\ sessions < MaxSessions
    /\ sessions' = sessions + 1
    /\ drafts' = [drafts EXCEPT ![o] =
                     [mission |-> mission, read |-> saved[mission],
                      copy |-> [Read(mission) EXCEPT !.relation = decided]]]
    /\ UNCHANGED <<world, saved, pc, loop, lost>>

Relation == Read(mission).relation

(* The monitor persists what it starts with where nothing is saved.        *)
StartMonitor(o) == saved[mission] = None /\ Decide(o, Relation)

DeclareWarNow(o) ==
    /\ Relation.state # "war"
    /\ Decide(o, DeclareWar(Relation, Declaration(mission, time)))

ProposeTransition(o, to) == to # Relation.state /\ Decide(o, Propose(Relation, to))

ApproveTransition(o) == Relation.pending # None /\ Decide(o, Approve(Relation))

RejectTransition(o) ==
    Relation.pending # None /\ Decide(o, [Relation EXCEPT !.pending = None])

RequireApproval(o) ==
    Relation.automatic /\ Decide(o, [Relation EXCEPT !.automatic = FALSE])

PersistDecision(o) ==
    /\ drafts[o] # None
    /\ saved' = [saved EXCEPT ![drafts[o].mission] = drafts[o].copy]
    /\ lost' = (lost \/ drafts[o].read # saved[drafts[o].mission])
    /\ drafts' = [drafts EXCEPT ![o] = None]
    /\ UNCHANGED <<world, sessions, pc, loop>>

-----------------------------------------------------------------------------
(* The map server's loop.                                                  *)

CheckStatus ==
    /\ pc = "status"
    /\ generation' = mission /\ mapped' = mission
    /\ cursor' = (IF mapped = mission THEN cursor ELSE None)
    /\ signature' = (IF mapped = mission THEN signature ELSE NoCrossing)
    /\ pc' = "picture"
    /\ UNCHANGED <<world, saved, operators, boundary, copy, known, todo, unchecked,
                   view, changed, restarts, lost>>

(* The answer to the snapshot command also tells of a new mission.         *)
TakePicture ==
    /\ pc = "picture"
    /\ generation' = mission /\ boundary' = mission
    /\ copy' = (IF boundary = mission THEN copy ELSE Cleared(copy))
    /\ known' = (IF boundary = mission THEN known ELSE {})
    /\ view' = [inside |-> inside, time |-> time]
    /\ pc' = "refresh"
    /\ UNCHANGED <<world, saved, operators, mapped, signature, cursor, todo,
                   unchecked, changed, restarts, lost>>

Refresh ==
    /\ pc = "refresh"
    /\ copy' = (IF saved[generation] = None THEN copy ELSE Restored(saved[generation]))
    /\ pc' = "query"
    /\ UNCHANGED <<world, saved, operators, generation, boundary, mapped, signature,
                   cursor, known, todo, unchecked, view, changed, restarts, lost>>

(* The events after the cursor, or all if it is not among them.  The       *)
(* cursor moves on before anything is saved.                               *)
QueryEvents ==
    /\ pc = "query"
    /\ LET after == IF cursor # None /\ cursor.mission = mission THEN cursor.number ELSE 0
       IN  todo' = [k \in 1 .. Len(history) - after |->
                      [mission |-> mission, number |-> after + k,
                       deed |-> history[after + k]]]
    /\ cursor' = (IF history = <<>> THEN cursor
                  ELSE [mission |-> mission, number |-> Len(history)])
    /\ unchecked' = Groups /\ changed' = FALSE
    /\ pc' = "apply"
    /\ UNCHANGED <<world, saved, operators, generation, boundary, mapped, copy,
                   signature, known, view, restarts, lost>>

(* A message applied before is skipped, and so is a deed recorded before.  *)
ApplyEvent ==
    /\ pc = "apply" /\ todo # <<>>
    /\ LET e == Head(todo)
           deed == Deed(e.mission, e.deed)
       IN  IF e \in known THEN UNCHANGED <<copy, known, changed>>
           ELSE /\ known' = known \union {e}
                /\ copy' = [copy EXCEPT !.relation = RecordIncident(@, deed)]
                /\ changed' = (changed \/ deed \notin copy.relation.incidents)
    /\ todo' = Tail(todo)
    /\ UNCHANGED <<world, saved, operators, pc, generation, boundary, mapped, signature,
                   cursor, unchecked, view, restarts, lost>>

CheckBorder(g) ==
    /\ pc = "apply" /\ todo = <<>> /\ g \in unchecked
    /\ copy' = GroupSeen(copy, boundary, g, g \in view.inside, view.time)
    /\ changed' = (\/ changed
                   \/ /\ copy'.border[g] \notin {copy.border[g], None}
                      /\ copy'.border[g].reported)
    /\ unchecked' = unchecked \ {g}
    /\ UNCHANGED <<world, saved, operators, pc, generation, boundary, mapped, signature,
                   cursor, known, todo, view, restarts, lost>>

\* A fault: deeds alone are not persisted.
FaultyCollected ==
    /\ pc = "apply" /\ todo = <<>> /\ unchecked = {}
    /\ signature' = copy.border
    /\ pc' = (IF signature # copy.border THEN "persist" ELSE "status")
    /\ view' = NoView /\ changed' = FALSE
    /\ UNCHANGED <<world, saved, operators, generation, boundary, mapped, copy, cursor,
                   known, todo, unchecked, restarts, lost>>

(* A cycle persists its copy if it recorded an incident or sees other      *)
(* crossings than the cycle before.  The mirror is not looked at again     *)
(* before the next picture.                                                *)
Collected ==
    /\ pc = "apply" /\ todo = <<>> /\ unchecked = {}
    /\ signature' = copy.border
    /\ pc' = (IF changed \/ signature # copy.border THEN "persist" ELSE "status")
    /\ view' = NoView /\ changed' = FALSE
    /\ UNCHANGED <<world, saved, operators, generation, boundary, mapped, copy, cursor,
                   known, todo, unchecked, restarts, lost>>

PersistChanges ==
    /\ pc = "persist"
    /\ saved' = [saved EXCEPT ![generation] = copy]
    /\ pc' = "status"
    /\ UNCHANGED <<world, operators, loop, lost>>

(* A request fails or times out; the loop logs it and starts again.        *)
CycleFails ==
    /\ pc \in {"picture", "refresh", "query", "persist"}
    /\ pc' = "status"
    /\ lost' = (lost \/ pc = "persist")
    /\ view' = NoView
    /\ UNCHANGED <<world, saved, operators, generation, boundary, mapped, copy, signature,
                   cursor, known, todo, unchecked, changed, restarts>>

RestartMap ==
    /\ restarts < MaxRestarts
    /\ restarts' = restarts + 1
    /\ pc' = "status"
    /\ generation' = 0 /\ boundary' = 0 /\ mapped' = 0
    /\ copy' = Fresh /\ signature' = NoCrossing
    /\ cursor' = None /\ known' = {} /\ todo' = <<>> /\ unchecked' = {}
    /\ view' = NoView /\ changed' = FALSE
    /\ UNCHANGED <<world, saved, operators, lost>>

Others ==
    \/ AdvanceTime
    \/ \E g \in Groups : Cross(g) \/ Withdraw(g)
    \/ \E d \in Deeds : PublishEvent(d)
    \/ MissionEnds
    \/ \E o \in Operators :
          \/ StartMonitor(o) \/ DeclareWarNow(o)
          \/ \E to \in Wanted : ProposeTransition(o, to)
          \/ ApproveTransition(o) \/ RejectTransition(o) \/ RequireApproval(o)
          \/ PersistDecision(o)

Loop ==
    \/ CheckStatus \/ TakePicture \/ Refresh \/ QueryEvents \/ ApplyEvent
    \/ \E g \in Groups : CheckBorder(g)
    \/ Collected \/ PersistChanges \/ CycleFails

Next == Others \/ Loop \/ RestartMap

Spec == Init /\ [][Next]_vars

-----------------------------------------------------------------------------
Cursors == [mission : Nat, number : Nat]

(* The variables keep their types.                                         *)
TypeOK ==
    /\ mission \in Missions /\ time \in 0 .. MaxTime
    /\ inside \in SUBSET Groups /\ stays \in [Groups -> Nat]
    /\ history \in Seq(Deeds)
    /\ saved \in [Missions -> Snapshots \union {None}]
    /\ drafts \in [Operators -> Draft \union {None}]
    /\ pc \in {"status", "picture", "refresh", "query", "apply", "persist"}
    /\ generation \in {0} \union Missions
    /\ boundary \in {0} \union Missions
    /\ mapped \in {0} \union Missions
    /\ copy \in Snapshots /\ signature \in Trackers
    /\ cursor \in Cursors \union {None}
    /\ known \in SUBSET Messages /\ todo \in Seq(Messages)
    /\ unchecked \in SUBSET Groups /\ view \in View
    /\ changed \in BOOLEAN /\ lost \in BOOLEAN
    /\ sessions \in 0 .. MaxSessions /\ restarts \in 0 .. MaxRestarts

(* Every copy of the relationship: the audit store's, the map server's and *)
(* the operators', with the mission it is kept for.                        *)
Copies ==
    {[mission |-> m, copy |-> saved[m]] : m \in {n \in Missions : saved[n] # None}}
      \union {[mission |-> boundary, copy |-> copy]}
      \union {[mission |-> drafts[o].mission, copy |-> drafts[o].copy] :
                 o \in {p \in Operators : drafts[p] # None}}

(* diplomacy.py:292: however often an event is read again, after a restart *)
(* from the whole history or told by two messages, each incident counts    *)
(* once in the score of every copy.                                        *)
ScoredOnce ==
    \A c \in Copies :
        c.copy.relation.score = Bounded(MapThenSumSet(Points, c.copy.relation.incidents))

(* diplomacy.py:382: whoever changes whatever copy in whatever order, a    *)
(* pending proposal starts from the state the relationship is in and leads *)
(* out of it, so that approving it never applies an outdated decision.     *)
PendingIsCurrent ==
    \A c \in Copies :
        LET r == c.copy.relation
        IN  r.pending # None => r.pending.from = r.state /\ r.pending.to # r.state

(* diplomacy.py:774: a crossing marked as reported, which will never be    *)
(* reported again, has its incident in the same copy.                      *)
ReportedIsRecorded ==
    \A c \in Copies, g \in Groups :
        LET crossing == c.copy.border[g]
        IN  crossing # None /\ crossing.reported
              => \E i \in c.copy.relation.incidents :
                    i.type = "border" /\ i.about = g /\ i.at = crossing.since

(* README.md:618: neither a restart of the map server, nor an overwritten  *)
(* or unsaved snapshot, scores one continuous stay across the border       *)
(* twice.                                                                  *)
OnePerStay ==
    \A c \in Copies, g \in Groups :
        c.mission = mission =>
            Cardinality({i \in c.copy.relation.incidents :
                            /\ i.mission = mission /\ i.type = "border"
                            /\ i.about = g})
              <= stays[g]

(* docs/MILESTONES.md:476: no incident of an earlier mission is in a copy  *)
(* kept for a later one.                                                   *)
NoStaleIncident ==
    \A c \in Copies : \A i \in c.copy.relation.incidents : i.mission >= c.mission

(* map_server.py:1666: the cursor passes an event before its incident is   *)
(* saved, and a restart forgets both: still every event behind the cursor  *)
(* is in the snapshot, or about to be, unless a snapshot was lost.         *)
CollectedIsKept ==
    ~lost /\ cursor # None /\ cursor.mission = mission /\ generation = mission
    => \A k \in 1 .. cursor.number :
         LET deed == Deed(mission, history[k])
         IN  IF pc \in {"apply", "persist"}
             THEN deed \in copy.relation.incidents
                    \/ \E j \in DOMAIN todo : todo[j].deed = history[k]
             ELSE saved[mission] # None /\ deed \in saved[mission].relation.incidents
=============================================================================
