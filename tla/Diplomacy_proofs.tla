-------------------------- MODULE Diplomacy_proofs --------------------------
(* The shared relationship, for every number of operators, groups and      *)
(* deeds, any points and every bound: types, pending proposals, reported   *)
(* crossings, stays, stale incidents, collected deeds and scores.           *)
EXTENDS Diplomacy, Queues_proofs

(* What holds of each copy of the relationship kept for mission m.         *)
Current(r) == r.pending # None => r.pending.from = r.state /\ r.pending.to # r.state

Evidence(r, g, since) ==
    \E i \in r.incidents : i.type = "border" /\ i.about = g /\ i.at = since

Recorded(s) ==
    \A g \in Groups :
        s.border[g] # None /\ s.border[g].reported
          => Evidence(s.relation, g, s.border[g].since)

Since(m, r) == \A i \in r.incidents : i.mission >= m

Sound(m, s) ==
    s \in Snapshots /\ Current(s.relation) /\ Recorded(s) /\ Since(m, s.relation)

-----------------------------------------------------------------------------
LEMMA CandidateState ==
    ASSUME NEW score \in 0 .. 100
    PROVE  Candidate(score) \in RelationshipState \ {"ceasefire"}
<1>1. CASE score >= 80
  BY <1>1 DEF Candidate, RelationshipState
<1>2. CASE score >= 50 /\ score < 80
  BY <1>2 DEF Candidate, RelationshipState
<1>3. CASE score >= 20 /\ score < 50
  BY <1>3 DEF Candidate, RelationshipState
<1>4. CASE score < 20
  BY <1>4 DEF Candidate, RelationshipState
<1> QED
  BY <1>1, <1>2, <1>3, <1>4

(* An escalation leads out of the present state.                           *)
LEMMA EscalationMoves ==
    ASSUME NEW r \in Relationships, Escalates(r)
    PROVE  Candidate(r.score) # r.state
<1>0. r.state \in RelationshipState /\ r.score \in 0 .. 100
  BY DEF Relationships
<1>1. CASE r.state = "war"
  BY <1>1 DEF Escalates
<1>2. CASE r.state = "ceasefire"
  BY <1>2, <1>0, CandidateState
<1>3. CASE r.state \notin {"war", "ceasefire"}
  <2>1. Rank[Candidate(r.score)] > Rank[r.state]
    BY <1>3 DEF Escalates
  <2>2. r.state \in DOMAIN Rank
    BY <1>3, <1>0 DEF Rank, RelationshipState
  <2>3. Rank[r.state] \in Int
    BY <1>3, <1>0 DEF Rank, RelationshipState
  <2> QED
    BY <2>1, <2>3
<1> QED
  BY <1>1, <1>2, <1>3

LEMMA PointsCount ==
    ASSUME NEW i \in Incidents
    PROVE  Points(i) \in Nat
<1>1. CASE i \in [mission : Nat, type : {"deed"}, about : Deeds, at : {0}]
  BY <1>1, WeightAssumption DEF Points
<1>2. CASE i \in [mission : Nat, type : {"border"}, about : Groups, at : Nat]
  BY <1>2, WeightAssumption DEF Points
<1>3. CASE i \in [mission : Nat, type : {"war"}, about : {None}, at : Nat]
  BY <1>3 DEF Points
<1> QED
  BY <1>1, <1>2, <1>3 DEF Incidents

LEMMA ApproveSound ==
    ASSUME NEW r \in Relationships, r.pending \in Proposals
    PROVE  /\ Approve(r) \in Relationships /\ Current(Approve(r))
           /\ Approve(r).incidents = r.incidents /\ Approve(r).pending = None
<1>1. r.pending.to \in RelationshipState
  BY DEF Proposals
<1> QED
  BY <1>1 DEF Approve, Relationships, Current

(* Recording an incident adds it, if it is not known, and keeps a          *)
(* relationship with a current proposal one.                               *)
LEMMA RecordSound ==
    ASSUME NEW r \in Relationships, Current(r), NEW i \in Incidents
    PROVE  /\ RecordIncident(r, i) \in Relationships
           /\ Current(RecordIncident(r, i))
           /\ RecordIncident(r, i).incidents = r.incidents \union {i}
<1>1. CASE i \in r.incidents
  BY <1>1 DEF RecordIncident
<1>2. CASE i \notin r.incidents
  <2> DEFINE raised == [r EXCEPT !.score = Bounded(@ + Points(i)),
                                 !.incidents = @ \union {i}]
             proposed == Propose(raised, Candidate(raised.score))
  <2>1. Bounded(r.score + Points(i)) \in 0 .. 100
    BY PointsCount DEF Bounded, Relationships
  <2>2. raised \in Relationships /\ raised.pending = r.pending /\ raised.state = r.state
        /\ raised.incidents = r.incidents \union {i} /\ raised.score \in 0 .. 100
    BY <2>1 DEF Relationships
  <2>3. RecordIncident(r, i) =
          IF ~Escalates(raised) THEN raised
          ELSE IF r.automatic THEN Approve(proposed) ELSE proposed
    BY <1>2 DEF RecordIncident, Raised
  <2> HIDE DEF raised
  <2>4. CASE ~Escalates(raised)
    BY <2>2, <2>3, <2>4 DEF Current
  <2>5. CASE Escalates(raised)
    <3>1. Candidate(raised.score) \in RelationshipState
      BY <2>2, CandidateState
    <3>2. Candidate(raised.score) # raised.state
      BY <2>2, <2>5, EscalationMoves
    <3>3. /\ proposed \in Relationships /\ proposed.incidents = raised.incidents
          /\ proposed.state = raised.state
          /\ proposed.pending = [from |-> raised.state, to |-> Candidate(raised.score)]
      BY <2>2, <3>1 DEF Propose, Relationships, Proposals
    <3> HIDE DEF proposed
    <3>4. Current(proposed)
      BY <3>2, <3>3 DEF Current
    <3>5. proposed.pending \in Proposals
      BY <2>2, <3>1, <3>3 DEF Relationships, Proposals
    <3>6. CASE r.automatic
      <4>1. RecordIncident(r, i) = Approve(proposed)
        BY <2>3, <2>5, <3>6
      <4> QED
        BY <2>2, <3>3, <3>5, <4>1, ApproveSound
    <3>7. CASE ~r.automatic
      <4>1. RecordIncident(r, i) = proposed
        BY <2>3, <2>5, <3>7
      <4> QED
        BY <2>2, <3>3, <3>4, <4>1
    <3> QED
      BY <3>6, <3>7
  <2> QED
    BY <2>4, <2>5
<1> QED
  BY <1>1, <1>2

(* Snapshots.                                                              *)

LEMMA SnapshotParts ==
    ASSUME NEW s \in Snapshots
    PROVE  /\ s.relation \in Relationships
           /\ \A g \in Groups : s.border[g] \in Crossings \union {None}
           /\ s.relation.pending \in Proposals \union {None}
BY DEF Snapshots, Trackers, Relationships

(* A relationship with more incidents keeps the evidence and, with recent  *)
(* ones, is as recent.                                                     *)
LEMMA RelationReplaced ==
    ASSUME NEW m \in Nat, NEW s, Sound(m, s), NEW r \in Relationships, Current(r),
           s.relation.incidents \subseteq r.incidents, Since(m, r)
    PROVE  Sound(m, [s EXCEPT !.relation = r])
<1> DEFINE t == [s EXCEPT !.relation = r]
<1>1. t \in Snapshots /\ t.relation = r /\ t.border = s.border
  BY DEF Sound, Snapshots
<1>2. Recorded(t)
  <2>1. \A g \in Groups, n \in Nat : Evidence(s.relation, g, n) => Evidence(r, g, n)
    BY DEF Evidence
  <2>2. \A g \in Groups : s.border[g] \in Crossings \union {None}
    BY SnapshotParts DEF Sound
  <2>3. ASSUME NEW g \in Groups, t.border[g] # None, t.border[g].reported
        PROVE  Evidence(t.relation, g, t.border[g].since)
    <3>1. s.border[g].since \in Nat
      BY <1>1, <2>2, <2>3 DEF Crossings
    <3>2. Evidence(s.relation, g, s.border[g].since)
      BY <1>1, <2>3 DEF Sound, Recorded
    <3> QED
      BY <1>1, <2>1, <3>1, <3>2
  <2> QED
    BY <2>3 DEF Recorded
<1>3. Since(m, t.relation)
  BY <1>1
<1> HIDE DEF t
<1>4. Sound(m, t)
  BY <1>1, <1>2, <1>3 DEF Sound
<1> QED
  BY <1>4 DEF t

LEMMA FreshSound ==
    ASSUME NEW m \in Nat
    PROVE  Sound(m, Fresh)
<1>1. Peaceful \in Relationships /\ NoCrossing \in Trackers
  BY DEF Peaceful, Relationships, RelationshipState, NoCrossing, Trackers
<1>2. Fresh \in Snapshots /\ Fresh.relation = Peaceful /\ Fresh.border = NoCrossing
  BY <1>1 DEF Fresh, Snapshots
<1>3. Current(Peaceful) /\ Since(m, Peaceful)
  BY DEF Current, Since, Peaceful
<1>4. Recorded(Fresh)
  BY <1>2 DEF Recorded, NoCrossing
<1> QED
  BY <1>2, <1>3, <1>4 DEF Sound

LEMMA ClearedSound ==
    ASSUME NEW m \in Nat, NEW s \in Snapshots
    PROVE  Sound(m, Cleared(s))
<1> DEFINE r == [Peaceful EXCEPT !.automatic = s.relation.automatic]
<1>1. Sound(m, Fresh) /\ Fresh.relation = Peaceful
  BY FreshSound DEF Fresh
<1>2. r \in Relationships /\ Current(r) /\ r.incidents = {}
  BY SnapshotParts DEF Peaceful, Relationships, RelationshipState, Current
<1>3. Cleared(s) = [Fresh EXCEPT !.relation = r]
  BY <1>1 DEF Cleared
<1>4. Fresh.relation.incidents \subseteq r.incidents /\ Since(m, r)
  BY <1>1, <1>2 DEF Peaceful, Since
<1> HIDE DEF r
<1> QED
  BY <1>1, <1>2, <1>3, <1>4, RelationReplaced

LEMMA RestoredSound ==
    ASSUME NEW m \in Nat, NEW s, Sound(m, s)
    PROVE  Sound(m, Restored(s))
<1> DEFINE r == s.relation
<1>1. r \in Relationships /\ r.pending \in Proposals \union {None} /\ Current(r)
  BY SnapshotParts DEF Sound
<1>2. CASE r.automatic /\ r.pending # None
  <2>1. /\ Approve(r) \in Relationships /\ Current(Approve(r))
        /\ s.relation.incidents \subseteq Approve(r).incidents
        /\ Since(m, Approve(r))
    BY <1>1, <1>2, ApproveSound DEF Sound, Since
  <2>2. Restored(s) = [s EXCEPT !.relation = Approve(r)]
    BY <1>2 DEF Restored
  <2> QED
    BY <2>1, <2>2, RelationReplaced
<1>3. CASE ~(r.automatic /\ r.pending # None)
  <2>1. Restored(s) = [s EXCEPT !.relation = r]
    BY <1>3 DEF Restored
  <2>2. s.relation.incidents \subseteq r.incidents /\ Since(m, r)
    BY DEF Sound
  <2> QED
    BY <1>1, <2>1, <2>2, RelationReplaced
<1> QED
  BY <1>2, <1>3

(* Looking at a group either touches its crossing alone, or records the    *)
(* violation and marks it.                                                 *)
LEMMA GroupSeenSound ==
    ASSUME NEW m \in Nat, NEW s, Sound(m, s), NEW g \in Groups,
           NEW here \in BOOLEAN, NEW now \in Nat
    PROVE  Sound(m, GroupSeen(s, m, g, here, now))
<1> DEFINE crossing == IF s.border[g] = None THEN [since |-> now, reported |-> FALSE]
                                             ELSE s.border[g]
           due == ~crossing.reported /\ now - crossing.since >= Tolerance
           seen == GroupSeen(s, m, g, here, now)
<1>1. /\ s \in Snapshots /\ s.relation \in Relationships /\ s.border \in Trackers
      /\ s.border[g] \in Crossings \union {None} /\ Current(s.relation)
  BY SnapshotParts DEF Sound, Snapshots
<1>2. crossing \in Crossings
  BY <1>1 DEF Crossings
<1>3. crossing.reported => s.border[g] = crossing /\ s.border[g] # None
  OBVIOUS
<1>4. CASE ~here
  <2>1. seen = [s EXCEPT !.border = [@ EXCEPT ![g] = None]]
    BY <1>4 DEF GroupSeen
  <2>2. /\ seen \in Snapshots /\ seen.relation = s.relation
        /\ \A h \in Groups : seen.border[h] = IF h = g THEN None ELSE s.border[h]
    BY <1>1, <2>1 DEF Snapshots, Trackers
  <2> HIDE DEF seen
  <2> QED
    BY <2>2 DEF seen, Sound, Recorded
<1>5. CASE here /\ ~due
  <2>1. seen = [s EXCEPT !.border = [@ EXCEPT ![g] = crossing]]
    BY <1>5 DEF GroupSeen
  <2> HIDE DEF crossing
  <2>2. /\ seen \in Snapshots /\ seen.relation = s.relation
        /\ \A h \in Groups : seen.border[h] = IF h = g THEN crossing ELSE s.border[h]
    BY <1>1, <1>2, <2>1 DEF Snapshots, Trackers
  <2> HIDE DEF seen
  <2>3. Recorded(seen)
    BY <1>3, <2>2 DEF Sound, Recorded
  <2> QED
    BY <2>2, <2>3 DEF seen, Sound
<1>6. CASE here /\ due
  <2> DEFINE i == Violation(m, g, crossing.since)
             r == RecordIncident(s.relation, i)
             mark == [crossing EXCEPT !.reported = TRUE]
  <2>1. seen = [relation |-> r,
                border |-> [s.border EXCEPT ![g] = mark]]
    BY <1>6 DEF GroupSeen
  <2> HIDE DEF crossing
  <2>2. i \in Incidents /\ i.mission = m /\ i.type = "border" /\ i.about = g
        /\ i.at = crossing.since
    BY <1>2 DEF Violation, Incidents, Crossings
  <2>3. /\ r \in Relationships /\ Current(r) /\ r.incidents = s.relation.incidents \union {i}
    BY <1>1, <2>2, RecordSound
  <2>4. /\ mark \in Crossings /\ mark.since = crossing.since
    BY <1>2 DEF Crossings
  <2> HIDE DEF r, i, mark
  <2>5. [s.border EXCEPT ![g] = mark] \in Trackers
    BY <1>1, <2>4 DEF Trackers
  <2>6. /\ seen \in Snapshots /\ seen.relation = r
        /\ \A h \in Groups :
             seen.border[h] = IF h = g THEN mark ELSE s.border[h]
    BY <1>1, <2>1, <2>3, <2>5 DEF Snapshots, Trackers
  <2> HIDE DEF seen
  <2>7. Evidence(r, g, crossing.since)
    BY <2>2, <2>3 DEF Evidence
  <2>8. Recorded(seen)
    <3>1. ASSUME NEW h \in Groups, h # g, seen.border[h] # None, seen.border[h].reported
          PROVE  Evidence(r, h, seen.border[h].since)
      <4>1. Evidence(s.relation, h, s.border[h].since) /\ seen.border[h] = s.border[h]
        BY <2>6, <3>1 DEF Sound, Recorded
      <4> QED
        BY <4>1, <2>3 DEF Evidence
    <3> QED
      BY <2>4, <2>6, <2>7, <3>1 DEF Recorded
  <2>9. Since(m, r) /\ Current(r)
    BY <2>2, <2>3 DEF Sound, Since
  <2> QED
    BY <2>6, <2>8, <2>9 DEF seen, Sound
<1> QED
  BY <1>4, <1>5, <1>6

-----------------------------------------------------------------------------
(* The inductive invariant.  Every copy is sound for the mission it is     *)
(* kept for, and while the loop works on its copy, its mirror and its      *)
(* bridge are of one mission that no event it applies is older than.       *)

CopiesSound ==
    /\ \A n \in Missions : saved[n] # None => Sound(n, saved[n])
    /\ Sound(boundary, copy)
    /\ \A o \in Operators : drafts[o] # None => Sound(drafts[o].mission, drafts[o].copy)

LoopAgrees ==
    /\ boundary <= mission
    /\ pc \in {"refresh", "query", "apply", "persist"}
         => boundary \in Missions /\ generation = boundary
    /\ pc = "apply" => \A j \in DOMAIN todo : todo[j].mission >= boundary

IInv == TypeOK /\ CopiesSound /\ LoopAgrees

LEMMA InitInvariant == Init => IInv
<1> SUFFICES ASSUME Init
             PROVE  IInv
  OBVIOUS
<1> USE DEF Init
<1>1. Sound(0, Fresh) /\ Fresh \in Snapshots
  BY FreshSound DEF Sound
<1>2. NoCrossing \in Trackers
  BY DEF NoCrossing, Trackers
<1>3. TypeOK
  <2>1. mission \in Missions /\ time \in 0 .. MaxTime /\ sessions \in 0 .. MaxSessions
        /\ restarts \in 0 .. MaxRestarts
    BY BoundsAssumption DEF Missions
  <2>2. /\ inside \in SUBSET Groups /\ stays \in [Groups -> Nat]
        /\ history \in Seq(Deeds) /\ todo \in Seq(Messages)
        /\ saved \in [Missions -> Snapshots \union {None}]
        /\ drafts \in [Operators -> Draft \union {None}]
    OBVIOUS
  <2>3. view \in View
    BY DEF View, NoView
  <2> QED
    BY <1>1, <1>2, <2>1, <2>2, <2>3 DEF TypeOK
<1>4. CopiesSound
  BY <1>1 DEF CopiesSound
<1>5. LoopAgrees
  BY DEF LoopAgrees
<1> QED
  BY <1>3, <1>4, <1>5 DEF IInv

(* What a session reads is sound, and so is what it drafts.                *)
LEMMA ReadSound ==
    ASSUME IInv
    PROVE  Sound(mission, Read(mission)) /\ mission \in Nat
<1>1. mission \in Missions /\ mission \in Nat
  BY BoundsAssumption DEF IInv, TypeOK, Missions
<1>2. CASE saved[mission] = None
  BY <1>1, <1>2, FreshSound DEF Read
<1>3. CASE saved[mission] # None
  BY <1>1, <1>3, RestoredSound DEF Read, IInv, CopiesSound
<1> QED
  BY <1>1, <1>2, <1>3

LEMMA DecideInvariant ==
    ASSUME IInv, NEW o \in Operators, NEW r \in Relationships, Current(r),
           Relation.incidents \subseteq r.incidents, Since(mission, r), Decide(o, r)
    PROVE  IInv'
<1> DEFINE d == [Read(mission) EXCEPT !.relation = r]
           draft == [mission |-> mission, read |-> saved[mission], copy |-> d]
<1>1. Sound(mission, d) /\ d \in Snapshots
  BY ReadSound, RelationReplaced DEF Relation, Sound
<1>2. drafts' = [drafts EXCEPT ![o] = draft]
  BY DEF Decide
<1> HIDE DEF d
<1>3. draft \in Draft
  BY <1>1 DEF Draft, IInv, TypeOK
<1>4. draft.mission = mission /\ draft.copy = d
  OBVIOUS
<1> HIDE DEF draft
<1>5. /\ drafts' \in [Operators -> Draft \union {None}]
      /\ \A p \in Operators : drafts'[p] = IF p = o THEN draft ELSE drafts[p]
  BY <1>2, <1>3 DEF IInv, TypeOK
<1>6. sessions' \in 0 .. MaxSessions
  BY BoundsAssumption DEF Decide, IInv, TypeOK
<1>7. UNCHANGED <<mission, time, inside, stays, history, saved, pc, generation, boundary,
                  mapped, copy, signature, cursor, known, todo, unchecked, view, changed,
                  restarts, lost>>
  BY DEF Decide, world, loop
<1>8. TypeOK'
  BY <1>5, <1>6, <1>7 DEF IInv, TypeOK
<1>9. CopiesSound'
  BY <1>1, <1>4, <1>5, <1>7 DEF IInv, CopiesSound
<1>10. LoopAgrees'
  BY <1>7 DEF IInv, LoopAgrees
<1> QED
  BY <1>8, <1>9, <1>10 DEF IInv

LEMMA RelationSound ==
    ASSUME IInv
    PROVE  /\ Relation \in Relationships /\ Current(Relation) /\ Since(mission, Relation)
           /\ Relation.pending \in Proposals \union {None}
BY ReadSound, SnapshotParts DEF Relation, Sound

(* What a session decides keeps the relationship well-formed and adds to it *)
(* at most the declaration of a war.                                       *)
LEMMA SessionDecides ==
    ASSUME IInv, NEW o \in Operators,
           \/ StartMonitor(o) \/ DeclareWarNow(o)
           \/ \E to \in Wanted : ProposeTransition(o, to)
           \/ ApproveTransition(o) \/ RejectTransition(o) \/ RequireApproval(o)
    PROVE  \E s \in Relationships, i \in Incidents :
             /\ Current(s) /\ Decide(o, s) /\ i.type = "war" /\ i.mission = mission
             /\ s.incidents \in {Relation.incidents, Relation.incidents \union {i}}
<1> DEFINE r == Relation
           i == Declaration(mission, time)
           Decided(s) == /\ Current(s) /\ Decide(o, s)
                         /\ s.incidents \in {r.incidents, r.incidents \union {i}}
<1>1. r \in Relationships /\ Current(r) /\ r.pending \in Proposals \union {None}
  BY RelationSound
<1>2. i \in Incidents /\ i.type = "war" /\ i.mission = mission
  BY BoundsAssumption DEF Declaration, Incidents, IInv, TypeOK, Missions
<1> SUFFICES \E s \in Relationships : Decided(s)
  <2> HIDE DEF i
  <2> QED
    BY <1>2
<1> HIDE DEF i
<1>3. CASE StartMonitor(o)
  BY <1>1, <1>3 DEF StartMonitor
<1>4. CASE DeclareWarNow(o)
  <2> DEFINE s == RecordIncident(r, i)
  <2>1. s \in Relationships /\ s.incidents = r.incidents \union {i}
    BY <1>1, <1>2, RecordSound
  <2>2. DeclareWar(r, i) = [s EXCEPT !.state = "war", !.pending = None]
    BY DEF DeclareWar
  <2>3. Decide(o, DeclareWar(r, i))
    BY <1>4 DEF DeclareWarNow, i
  <2> HIDE DEF s
  <2>4. /\ DeclareWar(r, i) \in Relationships /\ Current(DeclareWar(r, i))
        /\ DeclareWar(r, i).incidents = r.incidents \union {i}
    BY <2>1, <2>2 DEF Relationships, RelationshipState, Current
  <2> QED
    BY <2>3, <2>4
<1>5. ASSUME NEW to \in Wanted, ProposeTransition(o, to)
      PROVE  \E s \in Relationships : Decided(s)
  <2>1. to \in RelationshipState /\ to # r.state /\ Decide(o, Propose(r, to))
    BY <1>5, WantedAssumption DEF ProposeTransition, RelationshipState
  <2>2. /\ Propose(r, to) \in Relationships /\ Current(Propose(r, to))
        /\ Propose(r, to).incidents = r.incidents
    BY <1>1, <2>1 DEF Propose, Relationships, Proposals, Current
  <2> QED
    BY <2>1, <2>2
<1>6. CASE ApproveTransition(o)
  <2>1. r.pending \in Proposals /\ Decide(o, Approve(r))
    BY <1>1, <1>6 DEF ApproveTransition
  <2>2. /\ Approve(r) \in Relationships /\ Current(Approve(r))
        /\ Approve(r).incidents = r.incidents
    BY <1>1, <2>1, ApproveSound
  <2> QED
    BY <2>1, <2>2
<1>7. CASE RejectTransition(o)
  <2> DEFINE s == [r EXCEPT !.pending = None]
  <2>1. s \in Relationships /\ Current(s) /\ s.incidents = r.incidents
    BY <1>1 DEF Relationships, Current
  <2>2. Decide(o, s)
    BY <1>7 DEF RejectTransition
  <2> HIDE DEF s
  <2> QED
    BY <2>1, <2>2
<1>8. CASE RequireApproval(o)
  <2> DEFINE s == [r EXCEPT !.automatic = FALSE]
  <2>1. s \in Relationships /\ Current(s) /\ s.incidents = r.incidents
    BY <1>1 DEF Relationships, Current
  <2>2. Decide(o, s)
    BY <1>8 DEF RequireApproval
  <2> HIDE DEF s
  <2> QED
    BY <2>1, <2>2
<1> QED
  BY <1>3, <1>4, <1>5, <1>6, <1>7, <1>8

LEMMA SessionInvariant ==
    ASSUME IInv, NEW o \in Operators,
           \/ StartMonitor(o) \/ DeclareWarNow(o)
           \/ \E to \in Wanted : ProposeTransition(o, to)
           \/ ApproveTransition(o) \/ RejectTransition(o) \/ RequireApproval(o)
    PROVE  IInv'
<1>1. PICK s \in Relationships, i \in Incidents :
        /\ Current(s) /\ Decide(o, s) /\ i.type = "war" /\ i.mission = mission
        /\ s.incidents \in {Relation.incidents, Relation.incidents \union {i}}
  BY SessionDecides
<1>2. Relation.incidents \subseteq s.incidents /\ Since(mission, s)
  BY <1>1, RelationSound, ReadSound DEF Since
<1> QED
  BY <1>1, <1>2, DecideInvariant

(* The steps that touch no copy.                                           *)
LEMMA WorldInvariant ==
    ASSUME IInv,
           \/ AdvanceTime \/ MissionEnds
           \/ \E g \in Groups : Cross(g) \/ Withdraw(g)
           \/ \E d \in Deeds : PublishEvent(d)
    PROVE  IInv'
<1>1. /\ UNCHANGED <<saved, drafts, sessions, pc, generation, boundary, mapped, copy, signature,
                     cursor, known, todo, unchecked, view, changed, restarts, lost>>
      /\ mission' \in {mission, mission + 1}
  BY DEF AdvanceTime, MissionEnds, Cross, Withdraw, PublishEvent, operators, loop
<1> DEFINE Typed ==
             /\ mission' \in Missions /\ time' \in 0 .. MaxTime /\ inside' \in SUBSET Groups
             /\ stays' \in [Groups -> Nat] /\ history' \in Seq(Deeds)
<1>2. Typed
  <2> USE BoundsAssumption DEF IInv, TypeOK, Missions
  <2>1. CASE AdvanceTime
    BY <2>1 DEF AdvanceTime
  <2>2. CASE MissionEnds
    BY <2>2 DEF MissionEnds
  <2>3. ASSUME NEW g \in Groups, Cross(g) \/ Withdraw(g)
        PROVE  Typed
    BY <2>3 DEF Cross, Withdraw
  <2>4. ASSUME NEW d \in Deeds, PublishEvent(d)
        PROVE  Typed
    BY <2>4 DEF PublishEvent
  <2> QED
    BY <2>1, <2>2, <2>3, <2>4
<1>3. TypeOK'
  BY <1>1, <1>2 DEF IInv, TypeOK
<1>4. CopiesSound'
  BY <1>1 DEF IInv, CopiesSound
<1>5. LoopAgrees'
  <2>1. mission \in Nat /\ boundary \in Nat
    BY BoundsAssumption DEF IInv, TypeOK, Missions
  <2> QED
    BY <1>1, <2>1 DEF IInv, LoopAgrees
<1> QED
  BY <1>3, <1>4, <1>5 DEF IInv

LEMMA PersistDecisionInvariant ==
    ASSUME IInv, NEW o \in Operators, PersistDecision(o)
    PROVE  IInv'
<1>1. drafts[o] \in Draft /\ Sound(drafts[o].mission, drafts[o].copy)
  BY DEF PersistDecision, IInv, TypeOK, CopiesSound
<1>2. drafts[o].mission \in Missions /\ drafts[o].copy \in Snapshots
  BY <1>1 DEF Draft
<1>3. /\ saved' \in [Missions -> Snapshots \union {None}]
      /\ \A n \in Missions :
           saved'[n] = IF n = drafts[o].mission THEN drafts[o].copy ELSE saved[n]
  BY <1>2 DEF PersistDecision, IInv, TypeOK
<1>4. /\ drafts' \in [Operators -> Draft \union {None}]
      /\ \A p \in Operators : drafts'[p] = IF p = o THEN None ELSE drafts[p]
  BY DEF PersistDecision, IInv, TypeOK
<1>5. lost' \in BOOLEAN
  BY DEF PersistDecision, IInv, TypeOK
<1>6. UNCHANGED <<mission, time, inside, stays, history, sessions, pc, generation, boundary,
                  mapped, copy, signature, cursor, known, todo, unchecked, view, changed,
                  restarts>>
  BY DEF PersistDecision, world, loop
<1>7. TypeOK'
  BY <1>3, <1>4, <1>5, <1>6 DEF IInv, TypeOK
<1>8. CopiesSound'
  BY <1>1, <1>3, <1>4, <1>6 DEF IInv, CopiesSound
<1>9. LoopAgrees'
  BY <1>6 DEF IInv, LoopAgrees
<1> QED
  BY <1>7, <1>8, <1>9 DEF IInv

(* The steps of the loop touch no copy but the map server's.               *)
LEMMA CopyReplaced ==
    ASSUME IInv, UNCHANGED <<saved, drafts>>, Sound(boundary', copy')
    PROVE  CopiesSound'
BY DEF IInv, CopiesSound

LEMMA CheckStatusInvariant == IInv /\ CheckStatus => IInv'
<1> SUFFICES ASSUME IInv, CheckStatus
             PROVE  IInv'
  OBVIOUS
<1>1. UNCHANGED <<mission, time, inside, stays, history, saved, drafts, sessions, boundary,
                  copy, known, todo, unchecked, view, changed, restarts, lost>>
  BY DEF CheckStatus, world, operators
<1>2. NoCrossing \in Trackers
  BY DEF NoCrossing, Trackers
<1>3. /\ generation' \in Missions /\ mapped' \in Missions
      /\ cursor' \in Cursors \union {None} /\ signature' \in Trackers /\ pc' = "picture"
  BY <1>2 DEF CheckStatus, IInv, TypeOK
<1>4. TypeOK'
  BY <1>1, <1>3 DEF IInv, TypeOK
<1>5. CopiesSound'
  BY <1>1, CopyReplaced DEF IInv, CopiesSound
<1>6. LoopAgrees'
  BY <1>1, <1>3 DEF IInv, LoopAgrees
<1> QED
  BY <1>4, <1>5, <1>6 DEF IInv

(* A mission the bridge has not seen clears the copy.                      *)
LEMMA TakePictureInvariant == IInv /\ TakePicture => IInv'
<1> SUFFICES ASSUME IInv, TakePicture
             PROVE  IInv'
  OBVIOUS
<1>1. UNCHANGED <<mission, time, inside, stays, history, saved, drafts, sessions, mapped,
                  signature, cursor, todo, unchecked, changed, restarts, lost>>
  BY DEF TakePicture, world, operators
<1>2. mission \in Missions /\ mission \in Nat
  BY BoundsAssumption DEF IInv, TypeOK, Missions
<1>3. Sound(boundary', copy')
  <2>1. CASE boundary = mission
    BY <2>1 DEF TakePicture, IInv, CopiesSound
  <2>2. CASE boundary # mission
    <3>1. copy' = Cleared(copy) /\ boundary' = mission
      BY <2>2 DEF TakePicture
    <3> QED
      BY <3>1, <1>2, ClearedSound DEF IInv, TypeOK
  <2> QED
    BY <2>1, <2>2
<1>4. /\ generation' = mission /\ boundary' = mission /\ pc' = "refresh"
      /\ known' \in SUBSET Messages
  BY DEF TakePicture, IInv, TypeOK
<1>5. view' \in View
  BY BoundsAssumption DEF TakePicture, IInv, TypeOK, View
<1>6. TypeOK'
  BY <1>1, <1>2, <1>3, <1>4, <1>5 DEF IInv, TypeOK, Sound
<1>7. CopiesSound'
  BY <1>1, <1>3, CopyReplaced
<1>8. LoopAgrees'
  BY <1>1, <1>2, <1>4 DEF LoopAgrees
<1> QED
  BY <1>6, <1>7, <1>8 DEF IInv

LEMMA RefreshInvariant == IInv /\ Refresh => IInv'
<1> SUFFICES ASSUME IInv, Refresh
             PROVE  IInv'
  OBVIOUS
<1>1. UNCHANGED <<mission, time, inside, stays, history, saved, drafts, sessions, generation,
                  boundary, mapped, signature, cursor, known, todo, unchecked, view, changed,
                  restarts, lost>>
  BY DEF Refresh, world, operators
<1>2. generation = boundary /\ boundary \in Missions /\ boundary \in Nat
  BY BoundsAssumption DEF Refresh, IInv, LoopAgrees, Missions
<1>3. Sound(boundary, copy')
  <2>1. CASE saved[boundary] = None
    BY <1>2, <2>1 DEF Refresh, IInv, CopiesSound
  <2>2. CASE saved[boundary] # None
    <3>1. Sound(boundary, saved[boundary]) /\ copy' = Restored(saved[boundary])
      BY <1>2, <2>2 DEF Refresh, IInv, CopiesSound
    <3> QED
      BY <1>2, <3>1, RestoredSound
  <2> QED
    BY <2>1, <2>2
<1>4. pc' = "query"
  BY DEF Refresh
<1>5. TypeOK'
  BY <1>1, <1>3, <1>4 DEF IInv, TypeOK, Sound
<1>6. CopiesSound'
  BY <1>1, <1>3, CopyReplaced
<1>7. LoopAgrees'
  BY <1>1, <1>2, <1>4 DEF IInv, LoopAgrees
<1> QED
  BY <1>5, <1>6, <1>7 DEF IInv

(* The events asked for are of the present mission.                        *)
LEMMA QueryInvariant == IInv /\ QueryEvents => IInv'
<1> SUFFICES ASSUME IInv, QueryEvents
             PROVE  IInv'
  OBVIOUS
<1>1. UNCHANGED <<mission, time, inside, stays, history, saved, drafts, sessions, generation,
                  boundary, mapped, copy, signature, known, view, restarts, lost>>
  BY DEF QueryEvents, world, operators
<1>2. mission \in Nat /\ history \in Seq(Deeds) /\ Len(history) \in Nat
  BY BoundsAssumption DEF IInv, TypeOK, Missions
<1> DEFINE after == IF cursor # None /\ cursor.mission = mission THEN cursor.number ELSE 0
           left == Len(history) - after
<1>3. after \in Nat /\ left \in Int
  BY <1>2 DEF IInv, TypeOK, Cursors
<1>4. todo' = [k \in 1 .. left |->
                 [mission |-> mission, number |-> after + k, deed |-> history[after + k]]]
  BY DEF QueryEvents
<1> HIDE DEF after
<1>5. ASSUME NEW k \in 1 .. left
      PROVE  todo'[k] \in Messages /\ todo'[k].mission = mission
  <2>1. after + k \in 1 .. Len(history)
    BY <1>2, <1>3
  <2>2. history[after + k] \in Deeds /\ after + k \in Nat
    BY <1>2, <2>1
  <2> QED
    BY <1>2, <1>4, <2>2 DEF Messages
<1>6. PICK n \in Nat : 1 .. left = 1 .. n
  <2>1. CASE left >= 0
    BY <1>3, <2>1
  <2>2. CASE left < 0
    <3>1. 1 .. left = 1 .. 0
      BY <1>3, <2>2
    <3> QED
      BY <3>1
  <2> QED
    BY <1>3, <2>1, <2>2
<1> HIDE DEF left
<1>7. todo' \in [1 .. n -> Messages]
  BY <1>4, <1>5, <1>6
<1>8. todo' \in Seq(Messages) /\ DOMAIN todo' = 1 .. left
  <2>1. ASSUME NEW S, NEW f \in [1 .. n -> S]
        PROVE  f \in Seq(S)
    OBVIOUS
  <2>2. DOMAIN todo' = 1 .. left
    BY <1>6, <1>7, Zenon
  <2> QED
    BY <1>7, <2>1, <2>2, Zenon
<1>9. cursor' \in Cursors \union {None}
  BY <1>2 DEF QueryEvents, IInv, TypeOK, Cursors
<1>10. unchecked' = Groups /\ changed' = FALSE /\ pc' = "apply" /\ pc = "query"
  BY DEF QueryEvents
<1>11. TypeOK'
  BY <1>1, <1>8, <1>9, <1>10 DEF IInv, TypeOK
<1>12. CopiesSound'
  BY <1>1, CopyReplaced DEF IInv, CopiesSound
<1>13. LoopAgrees'
  BY <1>1, <1>5, <1>8, <1>10 DEF IInv, LoopAgrees
<1> QED
  BY <1>11, <1>12, <1>13 DEF IInv

LEMMA ApplyInvariant == IInv /\ ApplyEvent => IInv'
<1> SUFFICES ASSUME IInv, ApplyEvent
             PROVE  IInv'
  OBVIOUS
<1>1. UNCHANGED <<mission, time, inside, stays, history, saved, drafts, sessions, pc, generation,
                  boundary, mapped, signature, cursor, unchecked, view, restarts, lost>>
  BY DEF ApplyEvent, world, operators
<1> DEFINE e == Head(todo)
           deed == Deed(e.mission, e.deed)
<1>2. todo \in Seq(Messages) /\ todo # <<>> /\ todo' = Tail(todo)
  BY DEF ApplyEvent, IInv, TypeOK
<1>3. boundary \in Nat /\ pc = "apply"
  BY BoundsAssumption DEF ApplyEvent, IInv, LoopAgrees, Missions
<1>4. e \in Messages /\ 1 \in DOMAIN todo /\ e = todo[1]
  BY <1>2
<1>5. e.mission >= boundary
  BY <1>3, <1>4 DEF IInv, LoopAgrees
<1>6. todo' \in Seq(Messages) /\ \A j \in DOMAIN todo' : todo'[j].mission >= boundary
  <2>1. ASSUME NEW j \in DOMAIN todo'
        PROVE  j + 1 \in DOMAIN todo /\ todo'[j] = todo[j + 1]
    BY <1>2
  <2> QED
    BY <1>2, <1>3, <2>1 DEF IInv, LoopAgrees
<1>7. deed \in Incidents /\ deed.mission = e.mission
  BY <1>4 DEF Messages, Deed, Incidents
<1> HIDE DEF e, deed
<1>8. /\ Sound(boundary, copy')
      /\ known' \in SUBSET Messages /\ changed' \in BOOLEAN
  <2>1. CASE e \in known
    BY <2>1 DEF ApplyEvent, e, IInv, TypeOK, CopiesSound
  <2>2. CASE e \notin known
    <3> DEFINE r == RecordIncident(copy.relation, deed)
    <3>1. /\ copy' = [copy EXCEPT !.relation = r]
          /\ known' = known \union {e}
          /\ changed' = (changed \/ deed \notin copy.relation.incidents)
      BY <2>2 DEF ApplyEvent, e, deed
    <3>2. Sound(boundary, copy) /\ copy.relation \in Relationships
      BY SnapshotParts DEF IInv, CopiesSound, Sound
    <3>3. /\ r \in Relationships /\ Current(r)
          /\ r.incidents = copy.relation.incidents \union {deed}
      BY <1>7, <3>2, RecordSound DEF Sound
    <3> HIDE DEF r
    <3>4. Since(boundary, r)
      BY <1>5, <1>7, <3>2, <3>3 DEF Sound, Since
    <3>5. Sound(boundary, [copy EXCEPT !.relation = r])
      BY <1>3, <3>2, <3>3, <3>4, RelationReplaced
    <3> QED
      BY <1>4, <3>1, <3>5 DEF IInv, TypeOK
  <2> QED
    BY <2>1, <2>2
<1>9. TypeOK'
  BY <1>1, <1>6, <1>8 DEF IInv, TypeOK, Sound
<1>10. CopiesSound'
  BY <1>1, <1>8, CopyReplaced
<1>11. LoopAgrees'
  BY <1>1, <1>6 DEF IInv, LoopAgrees
<1> QED
  BY <1>9, <1>10, <1>11 DEF IInv

LEMMA CheckBorderInvariant ==
    ASSUME IInv, NEW g \in Groups, CheckBorder(g)
    PROVE  IInv'
<1>1. UNCHANGED <<mission, time, inside, stays, history, saved, drafts, sessions, pc, generation,
                  boundary, mapped, signature, cursor, known, todo, view, restarts, lost>>
  BY DEF CheckBorder, world, operators
<1>2. boundary \in Nat /\ view.time \in Nat /\ Sound(boundary, copy)
  BY BoundsAssumption DEF CheckBorder, IInv, TypeOK, CopiesSound, LoopAgrees, View, Missions
<1>3. Sound(boundary, copy')
  <2> DEFINE here == g \in view.inside
  <2>1. here \in BOOLEAN /\ copy' = GroupSeen(copy, boundary, g, here, view.time)
    BY DEF CheckBorder
  <2> HIDE DEF here
  <2> QED
    BY <1>2, <2>1, GroupSeenSound
<1>4. unchecked' \in SUBSET Groups
  BY DEF CheckBorder, IInv, TypeOK
<1>5. changed' \in BOOLEAN
  <2>1. copy'.border \in Trackers /\ copy'.border[g] \in Crossings \union {None}
    BY <1>3, SnapshotParts DEF Sound, Snapshots
  <2>2. CASE copy'.border[g] \in {copy.border[g], None}
    BY <2>2 DEF CheckBorder, IInv, TypeOK
  <2>3. CASE copy'.border[g] \notin {copy.border[g], None}
    BY <2>1, <2>3 DEF CheckBorder, IInv, TypeOK, Crossings
  <2> QED
    BY <2>2, <2>3
<1>6. TypeOK'
  BY <1>1, <1>3, <1>4, <1>5 DEF IInv, TypeOK, Sound
<1>7. CopiesSound'
  BY <1>1, <1>3, CopyReplaced
<1>8. LoopAgrees'
  BY <1>1 DEF IInv, LoopAgrees
<1> QED
  BY <1>6, <1>7, <1>8 DEF IInv

LEMMA CollectedInvariant == IInv /\ Collected => IInv'
<1> SUFFICES ASSUME IInv, Collected
             PROVE  IInv'
  OBVIOUS
<1>1. UNCHANGED <<mission, time, inside, stays, history, saved, drafts, sessions, generation,
                  boundary, mapped, copy, cursor, known, todo, unchecked, restarts, lost>>
  BY DEF Collected, world, operators
<1>2. signature' \in Trackers
  BY SnapshotParts DEF Collected, IInv, TypeOK, Snapshots
<1>3. pc' \in {"status", "persist"} /\ view' \in View /\ changed' = FALSE
  BY DEF Collected, NoView, View
<1>4. TypeOK'
  BY <1>1, <1>2, <1>3 DEF IInv, TypeOK
<1>5. CopiesSound'
  BY <1>1, CopyReplaced DEF IInv, CopiesSound
<1>6. pc = "apply"
  BY DEF Collected
<1>7. LoopAgrees'
  BY <1>1, <1>3, <1>6 DEF IInv, LoopAgrees
<1> QED
  BY <1>4, <1>5, <1>7 DEF IInv

(* The copy is persisted for the mission it is kept for.                   *)
LEMMA PersistInvariant == IInv /\ PersistChanges => IInv'
<1> SUFFICES ASSUME IInv, PersistChanges
             PROVE  IInv'
  OBVIOUS
<1>1. UNCHANGED <<mission, time, inside, stays, history, drafts, sessions, generation, boundary,
                  mapped, copy, signature, cursor, known, todo, unchecked, view, changed,
                  restarts, lost>>
  BY DEF PersistChanges, world, operators, loop
<1>2. /\ boundary \in Missions /\ generation = boundary
      /\ Sound(boundary, copy) /\ copy \in Snapshots
  BY DEF PersistChanges, IInv, LoopAgrees, CopiesSound, Sound
<1>3. /\ saved' \in [Missions -> Snapshots \union {None}]
      /\ \A n \in Missions : saved'[n] = IF n = boundary THEN copy ELSE saved[n]
  BY <1>2 DEF PersistChanges, IInv, TypeOK
<1>4. pc' = "status"
  BY DEF PersistChanges
<1>5. TypeOK'
  BY <1>1, <1>3, <1>4 DEF IInv, TypeOK
<1>6. CopiesSound'
  BY <1>1, <1>2, <1>3 DEF IInv, CopiesSound
<1>7. LoopAgrees'
  BY <1>1, <1>4 DEF IInv, LoopAgrees
<1> QED
  BY <1>5, <1>6, <1>7 DEF IInv

LEMMA FailureInvariant == IInv /\ CycleFails => IInv'
<1> SUFFICES ASSUME IInv, CycleFails
             PROVE  IInv'
  OBVIOUS
<1>1. UNCHANGED <<mission, time, inside, stays, history, saved, drafts, sessions, generation,
                  boundary, mapped, copy, signature, cursor, known, todo, unchecked, changed,
                  restarts>>
  BY DEF CycleFails, world, operators
<1>2. pc' = "status" /\ view' \in View /\ lost' \in BOOLEAN
  BY DEF CycleFails, NoView, View, IInv, TypeOK
<1>3. TypeOK'
  BY <1>1, <1>2 DEF IInv, TypeOK
<1>4. CopiesSound'
  BY <1>1, CopyReplaced DEF IInv, CopiesSound
<1>5. LoopAgrees'
  BY <1>1, <1>2 DEF IInv, LoopAgrees
<1> QED
  BY <1>3, <1>4, <1>5 DEF IInv

LEMMA RestartInvariant == IInv /\ RestartMap => IInv'
<1> SUFFICES ASSUME IInv, RestartMap
             PROVE  IInv'
  OBVIOUS
<1>1. UNCHANGED <<mission, time, inside, stays, history, saved, drafts, sessions, lost>>
  BY DEF RestartMap, world, operators
<1>2. /\ pc' = "status" /\ generation' = 0 /\ boundary' = 0 /\ mapped' = 0
      /\ copy' = Fresh /\ signature' = NoCrossing /\ cursor' = None /\ known' = {}
      /\ todo' = <<>> /\ unchecked' = {} /\ view' = NoView /\ changed' = FALSE
      /\ restarts' \in 0 .. MaxRestarts
  BY BoundsAssumption DEF RestartMap, IInv, TypeOK
<1>3. Sound(0, Fresh) /\ NoCrossing \in Trackers /\ NoView \in View
  BY FreshSound DEF NoCrossing, Trackers, NoView, View
<1>4. TypeOK'
  <2>1. /\ copy' \in Snapshots /\ signature' \in Trackers /\ view' \in View
        /\ cursor' \in Cursors \union {None} /\ todo' \in Seq(Messages)
    BY <1>2, <1>3 DEF Sound
  <2>2. /\ generation' \in {0} \union Missions /\ boundary' \in {0} \union Missions
        /\ mapped' \in {0} \union Missions /\ known' \in SUBSET Messages
        /\ unchecked' \in SUBSET Groups /\ changed' \in BOOLEAN
    BY <1>2
  <2> QED
    BY <1>1, <1>2, <2>1, <2>2 DEF IInv, TypeOK
<1>5. CopiesSound'
  BY <1>1, <1>2, <1>3, CopyReplaced
<1>6. LoopAgrees'
  <2>1. mission \in Missions
    BY DEF IInv, TypeOK
  <2> QED
    BY <1>1, <1>2, <2>1, BoundsAssumption DEF LoopAgrees, Missions
<1> QED
  BY <1>4, <1>5, <1>6 DEF IInv

LEMMA NextInvariant == IInv /\ [Next]_vars => IInv'
<1> SUFFICES ASSUME IInv, [Next]_vars
             PROVE  IInv'
  OBVIOUS
<1>1. CASE Others
  BY <1>1, WorldInvariant, SessionInvariant, PersistDecisionInvariant DEF Others
<1>2. CASE Loop
  BY <1>2, CheckStatusInvariant, TakePictureInvariant, RefreshInvariant, QueryInvariant,
     ApplyInvariant, CheckBorderInvariant, CollectedInvariant, PersistInvariant,
     FailureInvariant DEF Loop
<1>3. CASE RestartMap
  BY <1>3, RestartInvariant
<1>4. CASE UNCHANGED vars
  <2>1. UNCHANGED <<mission, time, inside, stays, history, saved, drafts, sessions, pc,
                    generation, boundary, mapped, copy, signature, cursor, known, todo,
                    unchecked, view, changed, restarts, lost>>
    BY <1>4 DEF vars, world, operators, loop
  <2>2. TypeOK'
    BY <2>1 DEF IInv, TypeOK
  <2>3. CopiesSound'
    BY <2>1 DEF IInv, CopiesSound
  <2>4. LoopAgrees'
    BY <2>1 DEF IInv, LoopAgrees
  <2> QED
    BY <2>2, <2>3, <2>4 DEF IInv
<1> QED
  BY <1>1, <1>2, <1>3, <1>4 DEF Next

LEMMA Invariance == Spec => []IInv
BY InitInvariant, NextInvariant, PTL DEF Spec

LEMMA EachCopySound ==
    ASSUME IInv, NEW c \in Copies
    PROVE  Sound(c.mission, c.copy)
BY DEF IInv, CopiesSound, Copies

-----------------------------------------------------------------------------
(* The variables keep their types: a score within 0 .. 100, a state and    *)
(* proposals among the five of the code, whatever is recorded.             *)
THEOREM TypeCorrect == Spec => []TypeOK
<1>1. IInv => TypeOK
  BY DEF IInv
<1> QED
  BY <1>1, Invariance, PTL

(* diplomacy.py:382: a proposal pending in any copy, approved at whatever  *)
(* time, starts from the state that copy is in and leads out of it.        *)
THEOREM ProposalsCurrent == Spec => []PendingIsCurrent
<1>1. IInv => PendingIsCurrent
  BY EachCopySound DEF PendingIsCurrent, Sound, Current
<1> QED
  BY <1>1, Invariance, PTL

(* diplomacy.py:774: no copy marks a crossing as reported without the      *)
(* incident it was reported by, however snapshots overwrite each other.    *)
THEOREM ReportedRecorded == Spec => []ReportedIsRecorded
<1>1. IInv => ReportedIsRecorded
  BY EachCopySound DEF ReportedIsRecorded, Sound, Recorded, Evidence
<1> QED
  BY <1>1, Invariance, PTL

(* docs/MILESTONES.md:476: a mission starts from a clean relationship: no  *)
(* copy kept for it holds an incident of an earlier mission.               *)
THEOREM NoStale == Spec => []NoStaleIncident
<1>1. IInv => NoStaleIncident
  BY EachCopySound DEF NoStaleIncident, Sound, Since
<1> QED
  BY <1>1, Invariance, PTL
-----------------------------------------------------------------------------
(* One incident for one stay.  The account of a group is what its stays of *)
(* the present mission allow: every incident spends one of them, and every *)
(* copy that may still report the group has one left.                      *)

(* What the audit store, the loop and the sessions keep for the mission.   *)
Held(s) ==
    \/ saved[mission] # None /\ s = saved[mission]
    \/ boundary = mission /\ s = copy
    \/ \E o \in Operators :
          drafts[o] # None /\ drafts[o].mission = mission /\ s = drafts[o].copy

Spent(s, g) ==
    {i \in s.relation.incidents : i.mission = mission /\ i.type = "border" /\ i.about = g}

(* The loop works on what it saw of the present mission.                   *)
Live == pc \in {"refresh", "query", "apply"} /\ boundary = mission

(* The copy may report g, or will be able to once it has seen it outside:  *)
(* its crossing is not reported, or not noticed, or g has left and crossed *)
(* again since the picture was taken.                                      *)
MayReport(s, g) ==
    \/ s.border[g] # None /\ ~s.border[g].reported
    \/ s.border[g] = None /\ (g \in inside \/ (Live /\ g \in view.inside))
    \/ Live /\ g \notin view.inside /\ g \in inside

Allowed(s, g) ==
    /\ IsFiniteSet(Spent(s, g)) /\ Cardinality(Spent(s, g)) <= stays[g]
    /\ MayReport(s, g) => Cardinality(Spent(s, g)) < stays[g]

(* No group is inside but for a stay.                                      *)
Entered(g) == g \in inside \/ (Live /\ g \in view.inside) => stays[g] > 0

(* Nothing is kept for a mission to come.                                  *)
NothingAhead ==
    /\ \A n \in Missions : n > mission => saved[n] = None
    /\ \A o \in Operators : drafts[o] # None => drafts[o].mission <= mission

StayInv ==
    /\ NothingAhead
    /\ \A g \in Groups : Entered(g)
    /\ \A s : Held(s) => \A g \in Groups : Allowed(s, g)

LEMMA InitStay == Init => StayInv
<1> SUFFICES ASSUME Init
             PROVE  StayInv
  OBVIOUS
<1>1. /\ mission = 1 /\ boundary = 0 /\ inside = {} /\ pc = "status"
      /\ saved = [m \in Missions |-> None] /\ drafts = [o \in Operators |-> None]
  BY DEF Init
<1>2. mission \in Missions
  BY <1>1, BoundsAssumption DEF Missions
<1>3. NothingAhead /\ \A g \in Groups : Entered(g)
  BY <1>1 DEF NothingAhead, Entered, Live
<1>4. \A s : ~Held(s)
  BY <1>1, <1>2 DEF Held
<1> QED
  BY <1>3, <1>4 DEF StayInv

(* What a step must do to keep the account of a copy it leaves alone.      *)
LEMMA AccountKept ==
    ASSUME NEW s, NEW g \in Groups, Allowed(s, g), mission' = mission,
           stays[g] \in Nat, stays'[g] \in Nat, stays'[g] >= stays[g],
           stays'[g] > stays[g] \/ (MayReport(s, g)' => MayReport(s, g))
    PROVE  Allowed(s, g)'
<1>1. Spent(s, g)' = Spent(s, g)
  BY DEF Spent
<1>2. IsFiniteSet(Spent(s, g)) /\ Cardinality(Spent(s, g)) \in Nat
  BY FS_CardinalityType DEF Allowed
<1> QED
  BY <1>1, <1>2 DEF Allowed

(* The account of a copy depends on its crossings and its violations only. *)
LEMMA SameAccount ==
    ASSUME NEW s, NEW t, NEW g \in Groups, Allowed(s, g),
           t.border[g] = s.border[g], Spent(t, g) = Spent(s, g)
    PROVE  Allowed(t, g)
BY DEF Allowed, MayReport

(* A copy that knows of nothing may report every group that has crossed.   *)
LEMMA NothingSpent ==
    ASSUME NEW s, NEW g \in Groups, Spent(s, g) = {}, s.border[g] = None,
           stays[g] \in Nat, Entered(g)
    PROVE  Allowed(s, g)
BY FS_EmptySet DEF Allowed, MayReport, Entered

LEMMA FreshAllowed ==
    ASSUME NEW g \in Groups, stays[g] \in Nat, Entered(g)
    PROVE  Allowed(Fresh, g)
<1>1. Fresh.relation = Peaceful /\ Fresh.border = NoCrossing
  BY DEF Fresh
<1>2. Spent(Fresh, g) = {} /\ Fresh.border[g] = None
  BY <1>1 DEF Spent, Peaceful, NoCrossing
<1> QED
  BY <1>2, NothingSpent

LEMMA ClearedAllowed ==
    ASSUME NEW s, NEW g \in Groups, stays[g] \in Nat, Entered(g)
    PROVE  Allowed(Cleared(s), g)
<1> DEFINE r == [Peaceful EXCEPT !.automatic = s.relation.automatic]
<1>1. Fresh.relation = Peaceful /\ Fresh.border = NoCrossing
      /\ Fresh = [relation |-> Peaceful, border |-> NoCrossing]
  BY DEF Fresh
<1>2. r.incidents = {}
  BY DEF Peaceful
<1>3. Cleared(s) = [Fresh EXCEPT !.relation = r]
  BY <1>1 DEF Cleared
<1> HIDE DEF r
<1>4. Cleared(s).relation = r /\ Cleared(s).border = NoCrossing
  BY <1>1, <1>3
<1>5. Spent(Cleared(s), g) = {} /\ Cleared(s).border[g] = None
  BY <1>2, <1>4 DEF Spent, NoCrossing
<1> QED
  BY <1>5, NothingSpent

(* Approving a pending proposal keeps the incidents and the crossings.     *)
LEMMA RestoredParts ==
    ASSUME NEW s \in Snapshots
    PROVE  /\ Restored(s).border = s.border
           /\ Restored(s).relation.incidents = s.relation.incidents
<1> DEFINE r == s.relation
<1>1. r \in Relationships /\ r.pending \in Proposals \union {None}
  BY SnapshotParts
<1>2. CASE r.automatic /\ r.pending # None
  <2>1. Approve(r).incidents = r.incidents
    BY <1>1, <1>2, ApproveSound
  <2>2. Restored(s) = [s EXCEPT !.relation = Approve(r)]
    BY <1>2 DEF Restored
  <2>3. Restored(s).relation = Approve(r) /\ Restored(s).border = s.border
    BY <2>2 DEF Snapshots
  <2> QED
    BY <2>1, <2>3
<1>3. CASE ~(r.automatic /\ r.pending # None)
  <2>1. Restored(s) = [s EXCEPT !.relation = r]
    BY <1>3 DEF Restored
  <2> QED
    BY <2>1 DEF Snapshots
<1> QED
  BY <1>2, <1>3

LEMMA RestoredAllowed ==
    ASSUME NEW s \in Snapshots, NEW g \in Groups, Allowed(s, g)
    PROVE  Allowed(Restored(s), g)
<1>1. Restored(s).border[g] = s.border[g]
  BY RestoredParts
<1>2. Spent(Restored(s), g) = Spent(s, g)
  BY RestoredParts DEF Spent
<1> QED
  BY <1>1, <1>2, SameAccount

(* What a session reads may report what has crossed and not more.          *)
LEMMA ReadAllowed ==
    ASSUME IInv, StayInv, NEW g \in Groups
    PROVE  Allowed(Read(mission), g)
<1>1. mission \in Missions /\ stays[g] \in Nat /\ Entered(g)
  BY DEF IInv, TypeOK, StayInv
<1>2. CASE saved[mission] = None
  BY <1>1, <1>2, FreshAllowed DEF Read
<1>3. CASE saved[mission] # None
  <2>1. saved[mission] \in Snapshots
    BY <1>1, <1>3 DEF IInv, TypeOK
  <2>2. Allowed(saved[mission], g)
    BY <1>3 DEF StayInv, Held
  <2> QED
    BY <1>3, <2>1, <2>2, RestoredAllowed DEF Read
<1> QED
  BY <1>2, <1>3

(* The account depends on these variables alone.                           *)
LEMMA StayUnchanged ==
    ASSUME StayInv, UNCHANGED <<mission, inside, stays, saved, drafts, pc, boundary, copy, view>>
    PROVE  StayInv'
<1>1. NothingAhead' /\ \A g \in Groups : Entered(g)'
  BY DEF StayInv, NothingAhead, Entered, Live
<1>2. ASSUME NEW s, Held(s)', NEW g \in Groups
      PROVE  Allowed(s, g)'
  <2>1. Held(s)
    BY <1>2 DEF Held
  <2>2. Allowed(s, g)
    BY <2>1 DEF StayInv
  <2> QED
    BY <2>2 DEF Allowed, MayReport, Spent, Live
<1> QED
  BY <1>1, <1>2 DEF StayInv

LEMMA CrossStay ==
    ASSUME IInv, StayInv, NEW h \in Groups, Cross(h)
    PROVE  StayInv'
<1>1. /\ h \notin inside /\ inside' = inside \union {h}
      /\ stays' = [stays EXCEPT ![h] = @ + 1]
      /\ UNCHANGED <<mission, saved, drafts, pc, boundary, copy, view>>
  BY DEF Cross, operators, loop
<1>2. ASSUME NEW g \in Groups
      PROVE  stays[g] \in Nat /\ stays'[g] = IF g = h THEN stays[g] + 1 ELSE stays[g]
  BY <1>1 DEF IInv, TypeOK
<1>3. NothingAhead'
  BY <1>1 DEF StayInv, NothingAhead
<1>4. ASSUME NEW g \in Groups
      PROVE  Entered(g)'
  BY <1>1, <1>2 DEF StayInv, Entered, Live
<1>5. ASSUME NEW s, Held(s)', NEW g \in Groups
      PROVE  Allowed(s, g)'
  <2>1. Allowed(s, g)
    BY <1>1, <1>5 DEF StayInv, Held
  <2>2. g = h \/ (MayReport(s, g)' => MayReport(s, g))
    BY <1>1 DEF MayReport, Live
  <2> QED
    BY <1>1, <1>2, <2>1, <2>2, AccountKept
<1> QED
  BY <1>3, <1>4, <1>5 DEF StayInv

LEMMA WithdrawStay ==
    ASSUME IInv, StayInv, NEW h \in Groups, Withdraw(h)
    PROVE  StayInv'
<1>1. /\ inside' = inside \ {h}
      /\ UNCHANGED <<mission, stays, saved, drafts, pc, boundary, copy, view>>
  BY DEF Withdraw, operators, loop
<1>2. \A g \in Groups : stays[g] \in Nat
  BY DEF IInv, TypeOK
<1>3. NothingAhead' /\ \A g \in Groups : Entered(g)'
  BY <1>1 DEF StayInv, NothingAhead, Entered, Live
<1>4. ASSUME NEW s, Held(s)', NEW g \in Groups
      PROVE  Allowed(s, g)'
  <2>1. Allowed(s, g)
    BY <1>1, <1>4 DEF StayInv, Held
  <2>2. MayReport(s, g)' => MayReport(s, g)
    BY <1>1 DEF MayReport, Live
  <2> QED
    BY <1>1, <1>2, <2>1, <2>2, AccountKept
<1> QED
  BY <1>3, <1>4 DEF StayInv

(* Nothing is kept for the mission that begins.                            *)
LEMMA MissionEndsStay == IInv /\ StayInv /\ MissionEnds => StayInv'
<1> SUFFICES ASSUME IInv, StayInv, MissionEnds
             PROVE  StayInv'
  OBVIOUS
<1>1. /\ mission' = mission + 1 /\ inside' = {} /\ mission < MaxMissions
      /\ UNCHANGED <<saved, drafts, pc, boundary, copy, view>>
  BY DEF MissionEnds, operators, loop
<1>2. mission \in Nat /\ mission' \in Missions /\ boundary \in Nat /\ boundary <= mission
  BY <1>1, BoundsAssumption DEF IInv, TypeOK, Missions, LoopAgrees
<1>3. \A o \in Operators : drafts[o] # None => drafts[o].mission \in Nat
  BY DEF IInv, TypeOK, Draft, Missions
<1>4. NothingAhead'
  BY <1>1, <1>2, <1>3 DEF StayInv, NothingAhead, Missions
<1>5. \A g \in Groups : Entered(g)'
  BY <1>1, <1>2 DEF Entered, Live
<1>6. \A s : ~Held(s)'
  BY <1>1, <1>2, <1>3 DEF Held, StayInv, NothingAhead
<1> QED
  BY <1>4, <1>5, <1>6 DEF StayInv


(* A decision changes neither crossings nor violations.                    *)
LEMMA DecideStay ==
    ASSUME IInv, StayInv, NEW o \in Operators, NEW r, Decide(o, r),
           \A i : i.type = "border" => (i \in r.incidents <=> i \in Relation.incidents)
    PROVE  StayInv'
<1> DEFINE d == [Read(mission) EXCEPT !.relation = r]
<1>1. Read(mission) \in Snapshots /\ mission \in Missions /\ mission \in Nat
  BY ReadSound DEF Sound, IInv, TypeOK
<1>2. d.border = Read(mission).border /\ d.relation = r
  BY <1>1 DEF Snapshots
<1>3. /\ drafts' = [drafts EXCEPT ![o] = [mission |-> mission, read |-> saved[mission], copy |-> d]]
      /\ UNCHANGED <<mission, inside, stays, saved, pc, boundary, copy, view>>
  BY DEF Decide, world, loop
<1>4. ASSUME NEW g \in Groups
      PROVE  Allowed(d, g)
  <2> HIDE DEF d
  <2>1. d.border[g] = Read(mission).border[g]
    BY <1>2
  <2>2. Spent(d, g) = Spent(Read(mission), g)
    BY <1>2 DEF Spent, Relation
  <2> QED
    BY <2>1, <2>2, ReadAllowed, SameAccount
<1> HIDE DEF d
<1>5. \A p \in Operators :
        drafts'[p] = IF p = o THEN [mission |-> mission, read |-> saved[mission], copy |-> d]
                     ELSE drafts[p]
  BY <1>3 DEF IInv, TypeOK
<1>6. NothingAhead'
  BY <1>1, <1>3, <1>5 DEF StayInv, NothingAhead
<1>7. \A g \in Groups : Entered(g)'
  BY <1>3 DEF StayInv, Entered, Live
<1>8. ASSUME NEW s, Held(s)', NEW g \in Groups
      PROVE  Allowed(s, g)'
  <2>1. Held(s) \/ s = d
    BY <1>3, <1>5, <1>8 DEF Held
  <2>2. Allowed(s, g)
    BY <1>4, <2>1 DEF StayInv
  <2> QED
    BY <1>3, <2>2 DEF Allowed, MayReport, Spent, Live
<1> QED
  BY <1>6, <1>7, <1>8 DEF StayInv

LEMMA SessionStay ==
    ASSUME IInv, StayInv, NEW o \in Operators,
           \/ StartMonitor(o) \/ DeclareWarNow(o)
           \/ \E to \in Wanted : ProposeTransition(o, to)
           \/ ApproveTransition(o) \/ RejectTransition(o) \/ RequireApproval(o)
    PROVE  StayInv'
<1>1. PICK s \in Relationships, i \in Incidents :
        /\ Current(s) /\ Decide(o, s) /\ i.type = "war" /\ i.mission = mission
        /\ s.incidents \in {Relation.incidents, Relation.incidents \union {i}}
  BY SessionDecides
<1>2. \A j : j.type = "border" => (j \in s.incidents <=> j \in Relation.incidents)
  BY <1>1
<1> QED
  BY <1>1, <1>2, DecideStay

(* A copy that is written over another one is kept already.                *)
LEMMA PersistDecisionStay ==
    ASSUME IInv, StayInv, NEW o \in Operators, PersistDecision(o)
    PROVE  StayInv'
<1>1. /\ drafts[o] # None /\ drafts[o].mission \in Missions /\ drafts[o].mission <= mission
      /\ mission \in Missions
  BY DEF PersistDecision, IInv, TypeOK, Draft, StayInv, NothingAhead
<1>2. /\ \A n \in Missions :
           saved'[n] = IF n = drafts[o].mission THEN drafts[o].copy ELSE saved[n]
      /\ \A p \in Operators : drafts'[p] = IF p = o THEN None ELSE drafts[p]
  BY <1>1 DEF PersistDecision, IInv, TypeOK
<1>3. UNCHANGED <<mission, inside, stays, pc, boundary, copy, view>>
  BY DEF PersistDecision, world, loop
<1>4. NothingAhead'
  <2>1. \A n \in Missions : n > mission => n # drafts[o].mission
    BY <1>1 DEF Missions
  <2> QED
    BY <1>2, <1>3, <2>1 DEF StayInv, NothingAhead
<1>5. \A g \in Groups : Entered(g)'
  BY <1>3 DEF StayInv, Entered, Live
<1>6. ASSUME NEW s, Held(s)', NEW g \in Groups
      PROVE  Allowed(s, g)'
  <2>1. Held(s)
    BY <1>1, <1>2, <1>3, <1>6 DEF Held
  <2>2. Allowed(s, g)
    BY <2>1 DEF StayInv
  <2> QED
    BY <1>3, <2>2 DEF Allowed, MayReport, Spent, Live
<1> QED
  BY <1>4, <1>5, <1>6 DEF StayInv

(* The steps of the loop that replace its copy, or leave it alone.         *)
LEMMA LoopStay ==
    ASSUME IInv, StayInv, UNCHANGED <<mission, inside, stays, saved, drafts>>,
           \A g \in Groups : Entered(g)',
           \A s, g : MayReport(s, g)' => MayReport(s, g),
           boundary' = mission =>
             \/ boundary = mission /\ copy' = copy
             \/ \A g \in Groups : Allowed(copy', g)
    PROVE  StayInv'
<1>1. NothingAhead'
  BY DEF StayInv, NothingAhead
<1>2. ASSUME NEW s, Held(s)', NEW g \in Groups
      PROVE  Allowed(s, g)'
  <2>1. Held(s) \/ Allowed(s, g)
    BY <1>2 DEF Held
  <2>2. Allowed(s, g)
    BY <2>1 DEF StayInv
  <2>3. stays[g] \in Nat /\ stays'[g] = stays[g]
    BY DEF IInv, TypeOK
  <2> QED
    BY <2>2, <2>3, AccountKept
<1> QED
  BY <1>1, <1>2 DEF StayInv

(* Where the loop no longer works on what it saw.                          *)
LEMMA NotLiveStay ==
    ASSUME IInv, StayInv, UNCHANGED <<mission, inside, stays, saved, drafts>>, ~Live',
           boundary' = mission => boundary = mission /\ copy' = copy
    PROVE  StayInv'
<1>1. \A g \in Groups : Entered(g)'
  BY DEF StayInv, Entered
<1>2. \A s, g : MayReport(s, g)' => MayReport(s, g)
  BY DEF MayReport
<1> QED
  BY <1>1, <1>2, LoopStay

(* What is across the border is in the picture.                            *)
LEMMA TakePictureStay == IInv /\ StayInv /\ TakePicture => StayInv'
<1> SUFFICES ASSUME IInv, StayInv, TakePicture
             PROVE  StayInv'
  OBVIOUS
<1>1. /\ UNCHANGED <<mission, inside, stays, saved, drafts>>
      /\ copy' = (IF boundary = mission THEN copy ELSE Cleared(copy))
      /\ view'.inside = inside
  BY DEF TakePicture, world, operators
<1>2. \A g \in Groups : stays[g] \in Nat /\ Entered(g)
  BY DEF IInv, TypeOK, StayInv
<1>3. \A g \in Groups : Entered(g)'
  BY <1>1, <1>2 DEF Entered
<1>4. \A s, g : MayReport(s, g)' => MayReport(s, g)
  BY <1>1 DEF MayReport
<1>5. boundary # mission => \A g \in Groups : Allowed(copy', g)
  BY <1>1, <1>2, ClearedAllowed
<1> QED
  BY <1>1, <1>3, <1>4, <1>5, LoopStay

LEMMA RefreshStay == IInv /\ StayInv /\ Refresh => StayInv'
<1> SUFFICES ASSUME IInv, StayInv, Refresh
             PROVE  StayInv'
  OBVIOUS
<1>1. /\ UNCHANGED <<mission, inside, stays, saved, drafts, boundary, view>>
      /\ copy' = (IF saved[generation] = None THEN copy ELSE Restored(saved[generation]))
      /\ pc = "refresh" /\ pc' = "query"
  BY DEF Refresh, world, operators
<1>2. generation = boundary /\ mission \in Missions
  BY <1>1 DEF IInv, LoopAgrees, TypeOK
<1>3. Live' = Live
  BY <1>1 DEF Live
<1>4. \A g \in Groups : Entered(g)'
  BY <1>1, <1>3 DEF StayInv, Entered
<1>5. \A s, g : MayReport(s, g)' => MayReport(s, g)
  BY <1>1, <1>3 DEF MayReport
<1>6. ASSUME boundary' = mission, saved[mission] # None, NEW g \in Groups
      PROVE  Allowed(copy', g)
  <2>1. saved[mission] \in Snapshots /\ Allowed(saved[mission], g)
    BY <1>2, <1>6 DEF IInv, TypeOK, StayInv, Held
  <2>2. copy' = Restored(saved[mission])
    BY <1>1, <1>2, <1>6
  <2> QED
    BY <2>1, <2>2, RestoredAllowed
<1>7. boundary' = mission =>
        \/ boundary = mission /\ copy' = copy
        \/ \A g \in Groups : Allowed(copy', g)
  BY <1>1, <1>2, <1>6
<1> QED
  BY <1>1, <1>4, <1>5, <1>7, LoopStay

LEMMA QueryStay == IInv /\ StayInv /\ QueryEvents => StayInv'
<1> SUFFICES ASSUME IInv, StayInv, QueryEvents
             PROVE  StayInv'
  OBVIOUS
<1>1. /\ UNCHANGED <<mission, inside, stays, saved, drafts, boundary, copy, view>>
      /\ pc = "query" /\ pc' = "apply"
  BY DEF QueryEvents, world, operators
<1>2. Live' = Live
  BY <1>1 DEF Live
<1>3. \A g \in Groups : Entered(g)'
  BY <1>1, <1>2 DEF StayInv, Entered
<1>4. \A s, g : MayReport(s, g)' => MayReport(s, g)
  BY <1>1, <1>2 DEF MayReport
<1> QED
  BY <1>1, <1>3, <1>4, LoopStay

(* A deed is no violation.                                                 *)
LEMMA ApplyStay == IInv /\ StayInv /\ ApplyEvent => StayInv'
<1> SUFFICES ASSUME IInv, StayInv, ApplyEvent
             PROVE  StayInv'
  OBVIOUS
<1> DEFINE e == Head(todo)
           deed == Deed(e.mission, e.deed)
           r == RecordIncident(copy.relation, deed)
<1>1. UNCHANGED <<mission, inside, stays, saved, drafts, pc, boundary, view>>
  BY DEF ApplyEvent, world, operators
<1>2. copy' = copy \/ copy' = [copy EXCEPT !.relation = r]
  BY DEF ApplyEvent
<1>3. e \in Messages
  BY DEF ApplyEvent, IInv, TypeOK
<1>4. deed \in Incidents /\ deed.type = "deed"
  BY <1>3 DEF Messages, Deed, Incidents
<1>5. copy \in Snapshots /\ copy.relation \in Relationships /\ Current(copy.relation)
  BY SnapshotParts DEF IInv, CopiesSound, Sound
<1> HIDE DEF deed, e
<1>6. r.incidents = copy.relation.incidents \union {deed}
  BY <1>4, <1>5, RecordSound
<1> HIDE DEF r
<1>7. copy'.border = copy.border /\ copy'.relation \in {copy.relation, r}
  BY <1>2, <1>5 DEF Snapshots
<1>8. ASSUME boundary = mission, NEW g \in Groups
      PROVE  Allowed(copy', g)
  <2>1. Allowed(copy, g)
    BY <1>8 DEF StayInv, Held
  <2>2. copy'.border[g] = copy.border[g]
    BY <1>7
  <2>3. Spent(copy', g) = Spent(copy, g)
    BY <1>4, <1>6, <1>7 DEF Spent
  <2> QED
    BY <2>1, <2>2, <2>3, SameAccount
<1>9. /\ \A g \in Groups : Entered(g)'
      /\ \A s, g : MayReport(s, g)' => MayReport(s, g)
  BY <1>1 DEF StayInv, Entered, MayReport, Live
<1> QED
  BY <1>1, <1>8, <1>9, LoopStay


(* Looking at a group spends an allowance for each incident it records.    *)
LEMMA GroupSeenAllowed ==
    ASSUME IInv, NEW s, Sound(mission, s), NEW g \in Groups, NEW now \in Nat,
           pc = "apply", boundary = mission, \A h \in Groups : Allowed(s, h),
           NEW h \in Groups
    PROVE  Allowed(GroupSeen(s, mission, g, g \in view.inside, now), h)
<1> DEFINE crossing == IF s.border[g] = None THEN [since |-> now, reported |-> FALSE]
                                             ELSE s.border[g]
           due == ~crossing.reported /\ now - crossing.since >= Tolerance
           seen == GroupSeen(s, mission, g, g \in view.inside, now)
<1>1. /\ s \in Snapshots /\ s.relation \in Relationships /\ s.border \in Trackers
      /\ s.border[g] \in Crossings \union {None} /\ Current(s.relation) /\ mission \in Nat
  BY SnapshotParts, BoundsAssumption DEF Sound, Snapshots, IInv, TypeOK, Missions
<1>2. /\ Live /\ Allowed(s, h) /\ Allowed(s, g) /\ stays[h] \in Nat
  BY DEF Live, IInv, TypeOK
<1>3. CASE g \notin view.inside
  <2>1. seen = [s EXCEPT !.border = [@ EXCEPT ![g] = None]]
    BY <1>3 DEF GroupSeen
  <2>2. seen.relation = s.relation /\ seen.border[h] = IF h = g THEN None ELSE s.border[h]
    BY <1>1, <2>1 DEF Snapshots, Trackers
  <2> HIDE DEF seen
  <2>3. Spent(seen, h) = Spent(s, h)
    BY <2>2 DEF Spent
  <2>4. MayReport(seen, h) => MayReport(s, h)
    BY <1>2, <1>3, <2>2 DEF MayReport
  <2> QED
    BY <1>2, <2>3, <2>4 DEF Allowed, seen
<1>4. CASE g \in view.inside /\ ~due
  <2>1. seen = [s EXCEPT !.border = [@ EXCEPT ![g] = crossing]]
    BY <1>4 DEF GroupSeen
  <2>2. seen.relation = s.relation /\ seen.border[h] = IF h = g THEN crossing ELSE s.border[h]
    BY <1>1, <2>1 DEF Snapshots, Trackers
  <2> HIDE DEF seen
  <2>3. Spent(seen, h) = Spent(s, h)
    BY <2>2 DEF Spent
  <2>4. MayReport(seen, h) => MayReport(s, h)
    BY <1>2, <1>4, <2>2 DEF MayReport
  <2> QED
    BY <1>2, <2>3, <2>4 DEF Allowed, seen
<1>5. CASE g \in view.inside /\ due
  <2> DEFINE i == Violation(mission, g, crossing.since)
             r == RecordIncident(s.relation, i)
             mark == [crossing EXCEPT !.reported = TRUE]
  <2>0. MayReport(s, g)
    BY <1>2, <1>5 DEF MayReport
  <2>1. seen = [relation |-> r, border |-> [s.border EXCEPT ![g] = mark]]
    BY <1>5 DEF GroupSeen
  <2>2. crossing \in Crossings
    BY <1>1 DEF Crossings
  <2> HIDE DEF crossing
  <2>3. i \in Incidents /\ i.mission = mission /\ i.type = "border" /\ i.about = g
    BY <1>1, <2>2 DEF Violation, Incidents, Crossings
  <2>4. r.incidents = s.relation.incidents \union {i}
    BY <1>1, <2>3, RecordSound
  <2>5. mark.reported /\ mark # None
    BY <2>2, NoneAssumption DEF Crossings
  <2> HIDE DEF r, i, mark
  <2>6. seen.relation = r /\ seen.border[h] = IF h = g THEN mark ELSE s.border[h]
    BY <1>1, <2>1 DEF Trackers
  <2> HIDE DEF seen
  <2>7. CASE h # g
    <3>1. Spent(seen, h) = Spent(s, h)
      BY <2>3, <2>4, <2>6, <2>7 DEF Spent
    <3>2. seen.border[h] = s.border[h]
      BY <2>6, <2>7
    <3> QED
      BY <1>2, <3>1, <3>2, SameAccount DEF seen
  <2>8. CASE h = g
    <3>1. Spent(seen, g) = Spent(s, g) \union {i}
      BY <2>3, <2>4, <2>6, <2>8 DEF Spent
    <3>2. IsFiniteSet(Spent(s, g)) /\ Cardinality(Spent(s, g)) < stays[g]
      BY <1>2, <2>0 DEF Allowed
    <3> HIDE DEF Spent
    <3>3. /\ IsFiniteSet(Spent(seen, g)) /\ Cardinality(Spent(s, g)) \in Nat
          /\ Cardinality(Spent(seen, g)) <= Cardinality(Spent(s, g)) + 1
      <4>1. IsFiniteSet(Spent(s, g) \union {i})
            /\ Cardinality(Spent(s, g) \union {i}) =
                 IF i \in Spent(s, g) THEN Cardinality(Spent(s, g))
                 ELSE Cardinality(Spent(s, g)) + 1
        BY <3>2, FS_AddElement
      <4> QED
        BY <3>1, <3>2, <4>1, FS_CardinalityType
    <3>4. Cardinality(Spent(seen, g)) <= stays[g]
      BY <1>2, <2>8, <3>2, <3>3, FS_CardinalityType
    <3>5. ~MayReport(seen, g)
      BY <1>5, <2>5, <2>6, <2>8 DEF MayReport
    <3> QED
      BY <2>8, <3>3, <3>4, <3>5 DEF Allowed, seen
  <2> QED
    BY <2>7, <2>8
<1> QED
  BY <1>3, <1>4, <1>5

LEMMA CheckBorderStay ==
    ASSUME IInv, StayInv, NEW g \in Groups, CheckBorder(g)
    PROVE  StayInv'
<1>1. /\ UNCHANGED <<mission, inside, stays, saved, drafts, pc, boundary, view>>
      /\ pc = "apply" /\ copy' = GroupSeen(copy, boundary, g, g \in view.inside, view.time)
  BY DEF CheckBorder, world, operators
<1>2. view.time \in Nat /\ Sound(boundary, copy)
  BY DEF IInv, TypeOK, CopiesSound, View
<1>3. ASSUME boundary = mission, NEW h \in Groups
      PROVE  Allowed(copy', h)
  <2>1. \A k \in Groups : Allowed(copy, k)
    BY <1>3 DEF StayInv, Held
  <2>2. Allowed(GroupSeen(copy, mission, g, g \in view.inside, view.time), h)
    BY <1>1, <1>2, <1>3, <2>1, GroupSeenAllowed
  <2> QED
    BY <1>1, <1>3, <2>2
<1>4. /\ \A h \in Groups : Entered(h)'
      /\ \A s, h : MayReport(s, h)' => MayReport(s, h)
  BY <1>1 DEF StayInv, Entered, MayReport, Live
<1> QED
  BY <1>1, <1>3, <1>4, LoopStay

LEMMA PersistStay == IInv /\ StayInv /\ PersistChanges => StayInv'
<1> SUFFICES ASSUME IInv, StayInv, PersistChanges
             PROVE  StayInv'
  OBVIOUS
<1>1. /\ UNCHANGED <<mission, inside, stays, drafts, boundary, copy, view>>
      /\ pc = "persist" /\ pc' = "status"
  BY DEF PersistChanges, world, operators, loop
<1>2. boundary \in Missions /\ generation = boundary /\ boundary <= mission /\ mission \in Missions
  BY <1>1 DEF IInv, LoopAgrees, TypeOK
<1>3. \A n \in Missions : saved'[n] = IF n = boundary THEN copy ELSE saved[n]
  BY <1>2 DEF PersistChanges, IInv, TypeOK
<1>4. NothingAhead'
  <2>1. \A n \in Missions : n > mission => n # boundary
    BY <1>2 DEF Missions
  <2> QED
    BY <1>1, <1>3, <2>1 DEF StayInv, NothingAhead
<1>5. \A g \in Groups : Entered(g)'
  BY <1>1 DEF StayInv, Entered, Live
<1>6. ASSUME NEW s, Held(s)', NEW g \in Groups
      PROVE  Allowed(s, g)'
  <2>1. Held(s)
    BY <1>1, <1>2, <1>3, <1>6 DEF Held
  <2>2. Allowed(s, g)
    BY <2>1 DEF StayInv
  <2> QED
    BY <1>1, <2>2 DEF Allowed, MayReport, Spent, Live
<1> QED
  BY <1>4, <1>5, <1>6 DEF StayInv

LEMMA NextStay == IInv /\ StayInv /\ [Next]_vars => StayInv'
<1> SUFFICES ASSUME IInv, StayInv, [Next]_vars
             PROVE  StayInv'
  OBVIOUS
<1>1. CASE Others
  <2>1. AdvanceTime => StayInv'
    BY StayUnchanged DEF AdvanceTime, operators, loop
  <2>2. ASSUME NEW d \in Deeds, PublishEvent(d)
        PROVE  StayInv'
    BY <2>2, StayUnchanged DEF PublishEvent, operators, loop
  <2> QED
    BY <1>1, <2>1, <2>2, CrossStay, WithdrawStay, MissionEndsStay, SessionStay,
       PersistDecisionStay DEF Others
<1>2. CASE Loop
  <2>1. CheckStatus => StayInv'
    <3>1. CheckStatus => /\ UNCHANGED <<mission, inside, stays, saved, drafts, boundary, copy>>
                         /\ ~Live'
      BY DEF CheckStatus, world, operators, Live
    <3> QED
      BY <3>1, NotLiveStay
  <2>2. Collected => StayInv'
    <3>1. Collected => /\ UNCHANGED <<mission, inside, stays, saved, drafts, boundary, copy>>
                       /\ ~Live'
      BY DEF Collected, world, operators, Live
    <3> QED
      BY <3>1, NotLiveStay
  <2>3. CycleFails => StayInv'
    <3>1. CycleFails => /\ UNCHANGED <<mission, inside, stays, saved, drafts, boundary, copy>>
                        /\ ~Live'
      BY DEF CycleFails, world, operators, Live
    <3> QED
      BY <3>1, NotLiveStay
  <2> QED
    BY <1>2, <2>1, <2>2, <2>3, TakePictureStay, RefreshStay, QueryStay, ApplyStay,
       CheckBorderStay, PersistStay DEF Loop
<1>3. CASE RestartMap
  <2>1. /\ UNCHANGED <<mission, inside, stays, saved, drafts>> /\ ~Live'
        /\ boundary' = 0 /\ mission # 0
    BY <1>3 DEF RestartMap, world, operators, Live, IInv, TypeOK, Missions
  <2> QED
    BY <2>1, NotLiveStay
<1>4. CASE UNCHANGED vars
  BY <1>4, StayUnchanged DEF vars, world, operators, loop
<1> QED
  BY <1>1, <1>2, <1>3, <1>4 DEF Next

(* README.md:618: no copy of the relationship holds more incidents of a    *)
(* group than the group had stays across the border, however the map       *)
(* server restarts and whoever overwrites whose snapshot.                  *)
THEOREM OnePerStayHolds == Spec => []OnePerStay
<1>1. ASSUME IInv, StayInv
      PROVE  OnePerStay
  <2> SUFFICES ASSUME NEW c \in Copies, c.mission = mission, NEW g \in Groups
               PROVE  Cardinality(Spent(c.copy, g)) <= stays[g]
    BY DEF OnePerStay, Spent
  <2>1. Held(c.copy)
    BY DEF Copies, Held
  <2> QED
    BY <1>1, <2>1 DEF StayInv, Allowed
<1>2. Spec => []StayInv
  BY InitStay, InitInvariant, NextInvariant, NextStay, PTL DEF Spec
<1>3. IInv /\ StayInv => OnePerStay
  BY <1>1
<1> QED
  BY <1>2, <1>3, Invariance, PTL

-----------------------------------------------------------------------------
(* Every event behind the cursor is kept.                                  *)

InCopy(i) == i \in copy.relation.incidents
InStore(i) == saved[mission] # None /\ i \in saved[mission].relation.incidents

(* The cursor is of the present mission and within its history, and so is  *)
(* whatever the cycle has still to apply.                                  *)
CursorInv ==
    /\ cursor # None =>
         /\ cursor.mission <= mission
         /\ cursor.mission = mission => cursor.number <= Len(history)
    /\ pc = "apply" =>
         \A j \in DOMAIN todo : todo[j].mission = cursor.mission

(* Whoever has noticed the mission that runs has the mirror notice it.     *)
NoticedInv ==
    /\ generation <= mission /\ mapped <= mission
    /\ mapped = mission \/ boundary = mission => generation = mission
    /\ pc \in {"picture", "refresh", "query"} /\ cursor # None /\ cursor.mission = mission
         => generation = mission

(* A session adds to what it has read.                                     *)
DraftsGrow ==
    \A o \in Operators :
        drafts[o] # None /\ drafts[o].read # None =>
            drafts[o].read.relation.incidents \subseteq drafts[o].copy.relation.incidents

(* Until the cycle records a deed, its copy holds no deed that is not      *)
(* stored.                                                                 *)
UnchangedIsStored ==
    /\ boundary = mission
    /\ pc \in {"status", "picture", "refresh", "query"} \/ (pc = "apply" /\ ~changed)
    => \A i \in copy.relation.incidents : i.type = "deed" => InStore(i)

(* Where a deed is that the loop has dealt with: in its copy while it      *)
(* works on it, and in the store when it does not.                         *)
DealtWith(i) ==
    /\ pc \in {"query", "apply", "persist"} => InCopy(i)
    /\ pc \notin {"apply", "persist"} => InStore(i)

KnownIsKept ==
    boundary = mission =>
        \A e \in known : e.mission = mission => DealtWith(Deed(mission, e.deed))

PassedIsKept ==
    cursor # None /\ cursor.mission = mission /\ generation = mission =>
        \A k \in 1 .. cursor.number :
            \/ DealtWith(Deed(mission, history[k]))
            \/ /\ pc = "apply"
               /\ \E j \in DOMAIN todo : todo[j].deed = history[k]

KeptInv ==
    /\ CursorInv /\ NoticedInv /\ DraftsGrow
    /\ ~lost => UnchangedIsStored /\ KnownIsKept /\ PassedIsKept

LEMMA InitKept == Init => KeptInv
BY BoundsAssumption DEF Init, KeptInv, CursorInv, NoticedInv, DraftsGrow, UnchangedIsStored,
   KnownIsKept, PassedIsKept, Missions

(* What is typed of the variables that the proof speaks of.                *)
LEMMA KeptTypes ==
    ASSUME IInv
    PROVE  /\ mission \in Missions /\ mission \in Nat /\ generation \in Nat /\ mapped \in Nat
           /\ boundary \in Nat /\ boundary <= mission
           /\ history \in Seq(Deeds) /\ todo \in Seq(Messages)
           /\ cursor # None => cursor.mission \in Nat /\ cursor.number \in Nat
           /\ copy \in Snapshots /\ copy.relation \in Relationships /\ Current(copy.relation)
           /\ saved[mission] # None => saved[mission] \in Snapshots
           /\ known \in SUBSET Messages
           /\ pc \in {"status", "picture", "refresh", "query", "apply", "persist"}
BY SnapshotParts, BoundsAssumption
   DEF IInv, TypeOK, Missions, LoopAgrees, CopiesSound, Sound, Cursors

(* The invariant depends on these variables alone.                         *)
LEMMA KeptUnchanged ==
    ASSUME KeptInv,
           UNCHANGED <<mission, history, saved, drafts, pc, generation, boundary, mapped, copy,
                       cursor, known, todo, changed, lost>>
    PROVE  KeptInv'
<1>1. CursorInv' /\ NoticedInv' /\ DraftsGrow'
  BY DEF KeptInv, CursorInv, NoticedInv, DraftsGrow
<1>2. \A i : DealtWith(i)' <=> DealtWith(i)
  BY DEF DealtWith, InCopy, InStore
<1>3. ~lost' => UnchangedIsStored' /\ KnownIsKept' /\ PassedIsKept'
  BY <1>2 DEF KeptInv, UnchangedIsStored, KnownIsKept, PassedIsKept, InStore
<1> QED
  BY <1>1, <1>3 DEF KeptInv

(* A new event is beyond the cursor.                                       *)
LEMMA PublishKept ==
    ASSUME IInv, KeptInv, NEW d \in Deeds, PublishEvent(d)
    PROVE  KeptInv'
<1>1. /\ history' = Append(history, d)
      /\ UNCHANGED <<mission, saved, drafts, pc, generation, boundary, mapped, copy, cursor,
                     known, todo, changed, lost>>
  BY DEF PublishEvent, operators, loop
<1>2. /\ Len(history') = Len(history) + 1 /\ Len(history) \in Nat
      /\ \A k \in 1 .. Len(history) : history'[k] = history[k]
  BY <1>1, KeptTypes
<1>3. CursorInv'
  BY <1>1, <1>2, KeptTypes DEF KeptInv, CursorInv
<1>4. NoticedInv' /\ DraftsGrow'
  BY <1>1 DEF KeptInv, NoticedInv, DraftsGrow
<1>5. \A i : DealtWith(i)' <=> DealtWith(i)
  BY <1>1 DEF DealtWith, InCopy, InStore
<1>6. ~lost' => UnchangedIsStored' /\ KnownIsKept'
  BY <1>1, <1>5 DEF KeptInv, UnchangedIsStored, KnownIsKept, InStore
<1>7. ~lost' => PassedIsKept'
  <2> SUFFICES ASSUME ~lost, cursor # None, cursor.mission = mission, generation = mission,
                      NEW k \in 1 .. cursor.number
               PROVE  \/ DealtWith(Deed(mission, history'[k]))
                      \/ /\ pc = "apply"
                         /\ \E j \in DOMAIN todo : todo[j].deed = history'[k]
    BY <1>1, <1>5 DEF PassedIsKept
  <2>1. k \in 1 .. Len(history)
    BY KeptTypes DEF KeptInv, CursorInv
  <2> QED
    BY <1>2, <2>1 DEF KeptInv, PassedIsKept
<1> QED
  BY <1>3, <1>4, <1>6, <1>7 DEF KeptInv

(* No cursor, copy or message is of the mission that begins.               *)
LEMMA MissionEndsKept == IInv /\ KeptInv /\ MissionEnds => KeptInv'
<1> SUFFICES ASSUME IInv, KeptInv, MissionEnds
             PROVE  KeptInv'
  OBVIOUS
<1>1. /\ mission' = mission + 1
      /\ UNCHANGED <<saved, drafts, pc, generation, boundary, mapped, copy, cursor,
                     known, todo, changed, lost>>
  BY DEF MissionEnds, operators, loop
<1>2. /\ boundary < mission' /\ generation < mission' /\ mapped < mission'
      /\ cursor # None => cursor.mission < mission'
  BY <1>1, KeptTypes DEF KeptInv, NoticedInv, CursorInv
<1>3. boundary # mission' /\ generation # mission' /\ mapped # mission'
      /\ (cursor # None => cursor.mission # mission')
  BY <1>1, <1>2, KeptTypes
<1>4. CursorInv'
  BY <1>1, <1>2, <1>3, KeptTypes DEF KeptInv, CursorInv
<1>5. NoticedInv'
  BY <1>1, <1>2, <1>3, KeptTypes DEF NoticedInv
<1>6. DraftsGrow'
  BY <1>1 DEF KeptInv, DraftsGrow
<1>7. UnchangedIsStored' /\ KnownIsKept' /\ PassedIsKept'
  BY <1>1, <1>3 DEF UnchangedIsStored, KnownIsKept, PassedIsKept
<1> QED
  BY <1>4, <1>5, <1>6, <1>7 DEF KeptInv

(* A decision forgets nothing of what it has read.                         *)
LEMMA DecideKept ==
    ASSUME IInv, KeptInv, NEW o \in Operators, NEW r, Decide(o, r),
           Relation.incidents \subseteq r.incidents
    PROVE  KeptInv'
<1> DEFINE d == [Read(mission) EXCEPT !.relation = r]
           draft == [mission |-> mission, read |-> saved[mission], copy |-> d]
<1>1. Read(mission) \in Snapshots
  BY ReadSound DEF Sound
<1>2. d.relation = r
  BY <1>1 DEF Snapshots
<1>3. /\ drafts' = [drafts EXCEPT ![o] = draft]
      /\ UNCHANGED <<mission, history, saved, pc, generation, boundary, mapped, copy,
                     cursor, known, todo, changed, lost>>
  BY DEF Decide, world, loop
<1>4. draft.read = saved[mission] /\ draft.copy = d
  OBVIOUS
<1> HIDE DEF d, draft
<1>5. \A p \in Operators : drafts'[p] = IF p = o THEN draft ELSE drafts[p]
  BY <1>3 DEF IInv, TypeOK
<1>6. saved[mission] # None => saved[mission].relation.incidents \subseteq r.incidents
  BY KeptTypes, RestoredParts DEF Relation, Read
<1>7. DraftsGrow'
  BY <1>2, <1>4, <1>5, <1>6 DEF KeptInv, DraftsGrow
<1>8. CursorInv' /\ NoticedInv'
  BY <1>3 DEF KeptInv, CursorInv, NoticedInv
<1>9. \A i : DealtWith(i)' <=> DealtWith(i)
  BY <1>3 DEF DealtWith, InCopy, InStore
<1>10. ~lost' => UnchangedIsStored' /\ KnownIsKept' /\ PassedIsKept'
  BY <1>3, <1>9 DEF KeptInv, UnchangedIsStored, KnownIsKept, PassedIsKept, InStore
<1> QED
  BY <1>7, <1>8, <1>10 DEF KeptInv

LEMMA SessionKept ==
    ASSUME IInv, KeptInv, NEW o \in Operators,
           \/ StartMonitor(o) \/ DeclareWarNow(o)
           \/ \E to \in Wanted : ProposeTransition(o, to)
           \/ ApproveTransition(o) \/ RejectTransition(o) \/ RequireApproval(o)
    PROVE  KeptInv'
<1>1. PICK s \in Relationships, i \in Incidents :
        /\ Current(s) /\ Decide(o, s) /\ i.type = "war" /\ i.mission = mission
        /\ s.incidents \in {Relation.incidents, Relation.incidents \union {i}}
  BY SessionDecides
<1>2. Relation.incidents \subseteq s.incidents
  BY <1>1
<1> QED
  BY <1>1, <1>2, DecideKept

(* Unless it overwrites what was saved in between, a session only adds to  *)
(* the store.                                                              *)
LEMMA PersistDecisionKept ==
    ASSUME IInv, KeptInv, NEW o \in Operators, PersistDecision(o)
    PROVE  KeptInv'
<1>1. drafts[o] # None /\ drafts[o].mission \in Missions /\ drafts[o].copy \in Snapshots
      /\ drafts[o].copy # None
  BY NoneAssumption DEF PersistDecision, IInv, TypeOK, Draft
<1>2. /\ \A n \in Missions :
           saved'[n] = IF n = drafts[o].mission THEN drafts[o].copy ELSE saved[n]
      /\ \A p \in Operators : drafts'[p] = IF p = o THEN None ELSE drafts[p]
      /\ lost' = (lost \/ drafts[o].read # saved[drafts[o].mission])
  BY <1>1 DEF PersistDecision, IInv, TypeOK
<1>3. UNCHANGED <<mission, history, pc, generation, boundary, mapped, copy, cursor, known,
                  todo, changed>>
  BY DEF PersistDecision, world, loop
<1>4. CursorInv' /\ NoticedInv'
  BY <1>3 DEF KeptInv, CursorInv, NoticedInv
<1>5. DraftsGrow'
  BY <1>2 DEF KeptInv, DraftsGrow
<1>6. ASSUME ~lost'
      PROVE  UnchangedIsStored' /\ KnownIsKept' /\ PassedIsKept'
  <2>1. ~lost /\ drafts[o].read = saved[drafts[o].mission]
    BY <1>2, <1>6
  <2>2. drafts[o].read # None =>
          drafts[o].read.relation.incidents \subseteq drafts[o].copy.relation.incidents
    BY <1>1 DEF KeptInv, DraftsGrow
  <2>3. ASSUME NEW i, InStore(i)
        PROVE  InStore(i)'
    BY <1>1, <1>2, <1>3, <2>1, <2>2, <2>3, KeptTypes DEF InStore
  <2>4. \A i : DealtWith(i) => DealtWith(i)'
    BY <1>3, <2>3 DEF DealtWith, InCopy
  <2> QED
    BY <1>3, <2>1, <2>3, <2>4 DEF KeptInv, UnchangedIsStored, KnownIsKept, PassedIsKept
<1> QED
  BY <1>4, <1>5, <1>6 DEF KeptInv


(* A loop that has not noticed the mission forgets its cursor.             *)
LEMMA CheckStatusKept == IInv /\ KeptInv /\ CheckStatus => KeptInv'
<1> SUFFICES ASSUME IInv, KeptInv, CheckStatus
             PROVE  KeptInv'
  OBVIOUS
<1>1. /\ UNCHANGED <<mission, history, saved, drafts, boundary, copy, known, todo, changed, lost>>
      /\ pc = "status" /\ pc' = "picture" /\ generation' = mission /\ mapped' = mission
      /\ cursor' = (IF mapped = mission THEN cursor ELSE None)
  BY DEF CheckStatus, world, operators
<1>2. CursorInv' /\ DraftsGrow'
  BY <1>1 DEF KeptInv, CursorInv, DraftsGrow
<1>3. NoticedInv'
  BY <1>1, KeptTypes DEF NoticedInv
<1>4. \A i : DealtWith(i)' <=> DealtWith(i)
  BY <1>1 DEF DealtWith, InCopy, InStore
<1>5. ~lost' => UnchangedIsStored' /\ KnownIsKept'
  BY <1>1, <1>4 DEF KeptInv, UnchangedIsStored, KnownIsKept, InStore
<1>6. ~lost' => PassedIsKept'
  BY <1>1, <1>4 DEF KeptInv, NoticedInv, PassedIsKept
<1> QED
  BY <1>2, <1>3, <1>5, <1>6 DEF KeptInv

LEMMA TakePictureKept == IInv /\ KeptInv /\ TakePicture => KeptInv'
<1> SUFFICES ASSUME IInv, KeptInv, TakePicture
             PROVE  KeptInv'
  OBVIOUS
<1>1. /\ UNCHANGED <<mission, history, saved, drafts, mapped, cursor, todo, changed, lost>>
      /\ pc = "picture" /\ pc' = "refresh" /\ generation' = mission /\ boundary' = mission
      /\ copy' = (IF boundary = mission THEN copy ELSE Cleared(copy))
      /\ known' = (IF boundary = mission THEN known ELSE {})
  BY DEF TakePicture, world, operators
<1>2. Cleared(copy).relation.incidents = {}
  <2> DEFINE r == [Peaceful EXCEPT !.automatic = copy.relation.automatic]
  <2>1. Fresh = [relation |-> Peaceful, border |-> NoCrossing]
    BY DEF Fresh
  <2>2. r.incidents = {} /\ Cleared(copy) = [Fresh EXCEPT !.relation = r]
    BY <2>1 DEF Peaceful, Cleared
  <2> HIDE DEF r
  <2>3. Cleared(copy).relation = r
    BY <2>1, <2>2
  <2> QED
    BY <2>2, <2>3
<1>3. CursorInv' /\ DraftsGrow'
  BY <1>1 DEF KeptInv, CursorInv, DraftsGrow
<1>4. NoticedInv'
  BY <1>1, KeptTypes DEF KeptInv, NoticedInv
<1>5. \A i : DealtWith(i)' <=> InStore(i)
  BY <1>1 DEF DealtWith, InStore
<1>6. \A i : DealtWith(i) => InStore(i)
  BY <1>1 DEF DealtWith
<1>7. ~lost' => UnchangedIsStored'
  BY <1>1, <1>2 DEF KeptInv, UnchangedIsStored, InStore
<1>8. ~lost' => KnownIsKept'
  BY <1>1, <1>5, <1>6 DEF KeptInv, KnownIsKept
<1>9. ~lost' => PassedIsKept'
  BY <1>1, <1>5, <1>6 DEF KeptInv, NoticedInv, PassedIsKept
<1> QED
  BY <1>3, <1>4, <1>7, <1>8, <1>9 DEF KeptInv

(* What is stored is in the copy from here on.                             *)
LEMMA RefreshKept == IInv /\ KeptInv /\ Refresh => KeptInv'
<1> SUFFICES ASSUME IInv, KeptInv, Refresh
             PROVE  KeptInv'
  OBVIOUS
<1>1. /\ UNCHANGED <<mission, history, saved, drafts, generation, boundary, mapped, cursor, known,
                     todo, changed, lost>>
      /\ copy' = (IF saved[generation] = None THEN copy ELSE Restored(saved[generation]))
      /\ pc = "refresh" /\ pc' = "query"
  BY DEF Refresh, world, operators
<1>2. generation = boundary
  BY <1>1 DEF IInv, LoopAgrees
<1>3. CursorInv' /\ NoticedInv' /\ DraftsGrow'
  BY <1>1 DEF KeptInv, CursorInv, NoticedInv, DraftsGrow
<1>4. ASSUME generation = mission, saved[mission] # None
      PROVE  copy'.relation.incidents = saved[mission].relation.incidents
  BY <1>1, <1>4, KeptTypes, RestoredParts
<1>5. ASSUME generation = mission, NEW i, DealtWith(i)
      PROVE  DealtWith(i)'
  <2>1. InStore(i)
    BY <1>1, <1>5 DEF DealtWith
  <2> QED
    BY <1>1, <1>4, <1>5, <2>1 DEF DealtWith, InStore, InCopy
<1>6. ~lost' => UnchangedIsStored'
  <2> SUFFICES ASSUME ~lost, boundary = mission,
                      NEW i \in copy'.relation.incidents, i.type = "deed"
               PROVE  InStore(i)
    BY <1>1 DEF UnchangedIsStored, InStore
  <2>1. CASE saved[mission] = None
    BY <1>1, <1>2, <2>1 DEF KeptInv, UnchangedIsStored
  <2>2. CASE saved[mission] # None
    BY <1>2, <1>4, <2>2 DEF InStore
  <2> QED
    BY <2>1, <2>2
<1>7. ~lost' => KnownIsKept'
  BY <1>1, <1>2, <1>5 DEF KeptInv, KnownIsKept
<1>8. ~lost' => PassedIsKept'
  BY <1>1, <1>5 DEF KeptInv, PassedIsKept
<1> QED
  BY <1>3, <1>6, <1>7, <1>8 DEF KeptInv

(* What the cursor passes is to be applied.                                *)
LEMMA QueryKept == IInv /\ KeptInv /\ QueryEvents => KeptInv'
<1> SUFFICES ASSUME IInv, KeptInv, QueryEvents
             PROVE  KeptInv'
  OBVIOUS
<1> DEFINE after == IF cursor # None /\ cursor.mission = mission THEN cursor.number ELSE 0
<1>1. /\ UNCHANGED <<mission, history, saved, drafts, generation, boundary, mapped, copy,
                     known, lost>>
      /\ todo' = [k \in 1 .. Len(history) - after |->
                    [mission |-> mission, number |-> after + k, deed |-> history[after + k]]]
      /\ cursor' = (IF history = <<>> THEN cursor
                    ELSE [mission |-> mission, number |-> Len(history)])
      /\ pc = "query" /\ pc' = "apply" /\ changed' = FALSE
  BY DEF QueryEvents, world, operators
<1>2. history \in Seq(Deeds) /\ Len(history) \in Nat /\ after \in Nat /\ mission \in Nat
  BY KeptTypes
<1>3. history = <<>> <=> Len(history) = 0
  BY <1>2
<1> HIDE DEF after
<1>4. /\ DOMAIN todo' = 1 .. (Len(history) - after)
      /\ \A j \in 1 .. (Len(history) - after) :
           todo'[j].mission = mission /\ todo'[j].deed = history[after + j]
  BY <1>1
<1>5. CursorInv'
  <2>1. ASSUME cursor' # None
        PROVE  /\ cursor'.mission <= mission
               /\ cursor'.mission = mission => cursor'.number <= Len(history)
    BY <1>1, <1>2, <2>1 DEF KeptInv, CursorInv
  <2>2. ASSUME NEW j \in DOMAIN todo'
        PROVE  todo'[j].mission = cursor'.mission
    <3>1. history # <<>>
      BY <1>2, <1>3, <1>4, <2>2
    <3>2. cursor'.mission = mission
      BY <1>1, <3>1
    <3> QED
      BY <1>4, <2>2, <3>2
  <2> QED
    BY <1>1, <2>1, <2>2 DEF CursorInv
<1>6. NoticedInv'
  BY <1>1 DEF KeptInv, NoticedInv
<1>7. DraftsGrow'
  BY <1>1 DEF KeptInv, DraftsGrow
<1>8. \A i : DealtWith(i) => DealtWith(i)'
  BY <1>1 DEF DealtWith, InCopy
<1>9. ~lost' => UnchangedIsStored' /\ KnownIsKept'
  BY <1>1, <1>8 DEF KeptInv, UnchangedIsStored, KnownIsKept, InStore
<1>10. ~lost' => PassedIsKept'
  <2> SUFFICES ASSUME ~lost, generation = mission, cursor' # None, cursor'.mission = mission,
                      NEW k \in 1 .. cursor'.number
               PROVE  \/ DealtWith(Deed(mission, history[k]))'
                      \/ \E j \in DOMAIN todo' : todo'[j].deed = history[k]
    BY <1>1 DEF PassedIsKept
  <2>1. k \in 1 .. Len(history)
    <3>1. CASE history = <<>>
      <4>1. cursor' = cursor /\ cursor.number <= Len(history) /\ cursor.number \in Nat
        BY <1>1, <3>1, KeptTypes DEF KeptInv, CursorInv
      <4> QED
        BY <1>2, <4>1
    <3>2. CASE history # <<>>
      <4>1. cursor' = [mission |-> mission, number |-> Len(history)]
        BY <1>1, <3>2
      <4> QED
        BY <1>2, <4>1
    <3> QED
      BY <3>1, <3>2
  <2>2. CASE k <= after
    <3>1. cursor # None /\ cursor.mission = mission /\ k \in 1 .. cursor.number
      BY <2>1, <2>2 DEF after
    <3>2. DealtWith(Deed(mission, history[k]))
      BY <1>1, <3>1 DEF KeptInv, PassedIsKept
    <3> QED
      BY <1>1, <1>8, <3>2
  <2>3. CASE k > after
    <3>1. k - after \in 1 .. (Len(history) - after) /\ after + (k - after) = k
      BY <1>2, <2>1, <2>3
    <3> QED
      BY <1>4, <3>1
  <2> QED
    BY <1>2, <2>1, <2>2, <2>3
<1> QED
  BY <1>5, <1>6, <1>7, <1>9, <1>10 DEF KeptInv

(* A message is known, its deed recorded or recorded before: what leaves   *)
(* the list of the cycle is in the copy.                                   *)
LEMMA ApplyKept == IInv /\ KeptInv /\ ApplyEvent => KeptInv'
<1> SUFFICES ASSUME IInv, KeptInv, ApplyEvent
             PROVE  KeptInv'
  OBVIOUS
<1> DEFINE e == Head(todo)
           deed == Deed(e.mission, e.deed)
           r == RecordIncident(copy.relation, deed)
<1>1. /\ UNCHANGED <<mission, history, saved, drafts, pc, generation, boundary, mapped, cursor, lost>>
      /\ pc = "apply" /\ todo # <<>> /\ todo' = Tail(todo)
      /\ IF e \in known THEN UNCHANGED <<copy, known, changed>>
         ELSE /\ known' = known \union {e}
              /\ copy' = [copy EXCEPT !.relation = r]
              /\ changed' = (changed \/ deed \notin copy.relation.incidents)
  BY DEF ApplyEvent, world, operators
<1>2. todo \in Seq(Messages) /\ e \in Messages /\ e = todo[1] /\ 1 \in DOMAIN todo
  BY <1>1, KeptTypes
<1>3. ASSUME NEW j \in DOMAIN todo
      PROVE  j = 1 \/ (j - 1 \in DOMAIN todo' /\ todo'[j - 1] = todo[j])
  BY <1>1, <1>2
<1>4. ASSUME NEW j \in DOMAIN todo'
      PROVE  j + 1 \in DOMAIN todo /\ todo'[j] = todo[j + 1]
  BY <1>1, <1>2
<1>5. deed \in Incidents /\ deed.type = "deed" /\ deed = Deed(e.mission, e.deed)
  BY <1>2 DEF Messages, Deed, Incidents
<1>6. generation = boundary
  BY <1>1 DEF IInv, LoopAgrees
<1> HIDE DEF e, deed
<1>7. r.incidents = copy.relation.incidents \union {deed}
  BY <1>5, RecordSound, KeptTypes
<1> HIDE DEF r
<1>8. e \notin known => copy'.relation.incidents = copy.relation.incidents \union {deed}
  BY <1>1, <1>7, KeptTypes DEF Snapshots
<1>9. /\ \A i : InCopy(i) => InCopy(i)'
      /\ \A i : DealtWith(i) => DealtWith(i)'
  BY <1>1, <1>8 DEF DealtWith, InCopy
<1>10. CursorInv'
  BY <1>1, <1>4 DEF KeptInv, CursorInv
<1>11. NoticedInv' /\ DraftsGrow'
  BY <1>1 DEF KeptInv, NoticedInv, DraftsGrow
<1>12. ~lost' => UnchangedIsStored'
  BY <1>1, <1>8 DEF KeptInv, UnchangedIsStored, InStore
<1>13. ASSUME ~lost, boundary = mission, e.mission = mission, NEW i, i = Deed(mission, e.deed)
       PROVE  DealtWith(i)'
  <2>1. CASE e \in known
    <3>1. DealtWith(i)
      BY <1>13, <2>1 DEF KeptInv, KnownIsKept
    <3> QED
      BY <1>9, <3>1
  <2>2. CASE e \notin known
    <3>1. i \in copy'.relation.incidents
      BY <1>5, <1>8, <1>13, <2>2
    <3> QED
      BY <1>1, <3>1 DEF DealtWith, InCopy
  <2> QED
    BY <2>1, <2>2
<1>14. ~lost' => KnownIsKept'
  <2> SUFFICES ASSUME ~lost, boundary = mission,
                      NEW f \in known', f.mission = mission, NEW i, i = Deed(mission, f.deed)
               PROVE  DealtWith(i)'
    BY <1>1 DEF KnownIsKept
  <2>1. f \in known \/ f = e
    BY <1>1
  <2>2. CASE f \in known
    BY <1>9, <2>2 DEF KeptInv, KnownIsKept
  <2>3. CASE f = e
    BY <1>13, <2>3
  <2> QED
    BY <2>1, <2>2, <2>3
<1>15. ~lost' => PassedIsKept'
  <2> SUFFICES ASSUME ~lost, generation = mission, cursor # None, cursor.mission = mission,
                      NEW k \in 1 .. cursor.number, NEW i, i = Deed(mission, history[k])
               PROVE  \/ DealtWith(i)'
                      \/ \E j \in DOMAIN todo' : todo'[j].deed = history[k]
    BY <1>1 DEF PassedIsKept
  <2>1. CASE DealtWith(i)
    BY <1>1, <1>9, <2>1
  <2>2. ASSUME NEW j \in DOMAIN todo, todo[j].deed = history[k], j = 1
        PROVE  DealtWith(i)'
    <3>1. e.mission = mission /\ e.deed = history[k]
      BY <1>1, <1>2, <2>2 DEF KeptInv, CursorInv
    <3> QED
      BY <1>6, <1>13, <3>1
  <2> QED
    BY <1>1, <1>3, <2>1, <2>2 DEF KeptInv, PassedIsKept
<1> QED
  BY <1>10, <1>11, <1>12, <1>14, <1>15 DEF KeptInv

(* A violation is no deed, and an incident is reported once.               *)
LEMMA GroupSeenDeeds ==
    ASSUME IInv, pc = "apply", NEW g \in Groups, NEW now \in Nat, NEW i, i.type = "deed"
    PROVE  i \in GroupSeen(copy, boundary, g, g \in view.inside, now).relation.incidents
             <=> i \in copy.relation.incidents
<1> DEFINE crossing == IF copy.border[g] = None THEN [since |-> now, reported |-> FALSE]
                                                ELSE copy.border[g]
           due == ~crossing.reported /\ now - crossing.since >= Tolerance
           seen == GroupSeen(copy, boundary, g, g \in view.inside, now)
<1>1. /\ copy.relation \in Relationships /\ copy.border \in Trackers /\ copy \in Snapshots
      /\ copy.border[g] \in Crossings \union {None} /\ boundary \in Nat
      /\ Current(copy.relation)
  BY KeptTypes, SnapshotParts DEF Snapshots, Trackers
<1>2. CASE g \notin view.inside
  <2>1. seen = [copy EXCEPT !.border = [@ EXCEPT ![g] = None]]
    BY <1>2 DEF GroupSeen
  <2> QED
    BY <1>1, <2>1 DEF Snapshots
<1>3. CASE g \in view.inside /\ ~due
  <2>1. seen = [copy EXCEPT !.border = [@ EXCEPT ![g] = crossing]]
    BY <1>3 DEF GroupSeen
  <2> QED
    BY <1>1, <2>1 DEF Snapshots
<1>4. CASE g \in view.inside /\ due
  <2> DEFINE v == Violation(boundary, g, crossing.since)
             r == RecordIncident(copy.relation, v)
  <2>1. seen = [relation |-> r, border |-> [copy.border EXCEPT ![g] =
                                               [crossing EXCEPT !.reported = TRUE]]]
    BY <1>4 DEF GroupSeen
  <2>2. crossing \in Crossings
    BY <1>1 DEF Crossings
  <2> HIDE DEF crossing
  <2>3. v \in Incidents /\ v.type = "border"
    BY <1>1, <2>2 DEF Violation, Incidents, Crossings
  <2>4. r.incidents = copy.relation.incidents \union {v}
    BY <1>1, <2>3, RecordSound
  <2> HIDE DEF v, r
  <2>5. seen.relation = r
    BY <2>1
  <2> HIDE DEF seen
  <2>6. i # v
    BY <2>3
  <2> QED
    BY <2>4, <2>5, <2>6 DEF seen
<1> QED
  BY <1>2, <1>3, <1>4

LEMMA CheckBorderKept ==
    ASSUME IInv, KeptInv, NEW g \in Groups, CheckBorder(g)
    PROVE  KeptInv'
<1>1. /\ UNCHANGED <<mission, history, saved, drafts, pc, generation, boundary, mapped, cursor,
                     known, todo, lost>>
      /\ pc = "apply"
      /\ copy' = GroupSeen(copy, boundary, g, g \in view.inside, view.time)
      /\ changed => changed'
  BY DEF CheckBorder, world, operators
<1>2. view.time \in Nat
  BY DEF IInv, TypeOK, View
<1>3. ASSUME NEW i, i.type = "deed"
      PROVE  InCopy(i)' <=> InCopy(i)
  <2>1. i \in GroupSeen(copy, boundary, g, g \in view.inside, view.time).relation.incidents
          <=> i \in copy.relation.incidents
    BY <1>1, <1>2, <1>3, GroupSeenDeeds
  <2> QED
    BY <1>1, <2>1 DEF InCopy
<1>4. \A m, d : Deed(m, d).type = "deed"
  BY DEF Deed
<1>5. \A i : i.type = "deed" => (DealtWith(i)' <=> DealtWith(i))
  BY <1>1, <1>3 DEF DealtWith, InStore
<1>6. CursorInv' /\ NoticedInv' /\ DraftsGrow'
  BY <1>1 DEF KeptInv, CursorInv, NoticedInv, DraftsGrow
<1>7. ~lost' => UnchangedIsStored'
  BY <1>1, <1>3 DEF KeptInv, UnchangedIsStored, InStore, InCopy
<1>8. ~lost' => KnownIsKept' /\ PassedIsKept'
  BY <1>1, <1>4, <1>5 DEF KeptInv, KnownIsKept, PassedIsKept
<1> QED
  BY <1>6, <1>7, <1>8 DEF KeptInv

(* A cycle that records nothing has nothing to store.                      *)
LEMMA CollectedKept == IInv /\ KeptInv /\ Collected => KeptInv'
<1> SUFFICES ASSUME IInv, KeptInv, Collected
             PROVE  KeptInv'
  OBVIOUS
<1>1. /\ UNCHANGED <<mission, history, saved, drafts, generation, boundary, mapped, copy, cursor,
                     known, todo, lost>>
      /\ pc = "apply" /\ todo = <<>> /\ pc' \in {"persist", "status"}
      /\ pc' = "status" => ~changed
  BY DEF Collected, world, operators
<1>2. generation = boundary
  BY <1>1 DEF IInv, LoopAgrees
<1>3. CursorInv' /\ NoticedInv' /\ DraftsGrow'
  BY <1>1 DEF KeptInv, CursorInv, NoticedInv, DraftsGrow
<1>4. \A m, d : Deed(m, d).type = "deed"
  BY DEF Deed
<1>5. ASSUME ~lost, boundary = mission, NEW i, i.type = "deed", DealtWith(i)
      PROVE  DealtWith(i)'
  <2>1. InCopy(i)
    BY <1>1, <1>5 DEF DealtWith
  <2>2. CASE pc' = "persist"
    BY <1>1, <2>1, <2>2 DEF DealtWith, InCopy
  <2>3. CASE pc' = "status"
    <3>1. InStore(i)
      BY <1>1, <1>5, <2>1, <2>3 DEF KeptInv, UnchangedIsStored, InCopy
    <3> QED
      BY <1>1, <2>3, <3>1 DEF DealtWith, InStore
  <2> QED
    BY <1>1, <2>2, <2>3
<1>6. ~lost' => UnchangedIsStored'
  BY <1>1 DEF KeptInv, UnchangedIsStored, InStore
<1>7. ~lost' => KnownIsKept'
  BY <1>1, <1>4, <1>5 DEF KeptInv, KnownIsKept
<1>8. ~lost' => PassedIsKept'
  BY <1>1, <1>2, <1>4, <1>5 DEF KeptInv, PassedIsKept
<1> QED
  BY <1>3, <1>6, <1>7, <1>8 DEF KeptInv

(* The store gets the copy.                                                *)
LEMMA PersistKept == IInv /\ KeptInv /\ PersistChanges => KeptInv'
<1> SUFFICES ASSUME IInv, KeptInv, PersistChanges
             PROVE  KeptInv'
  OBVIOUS
<1>1. /\ UNCHANGED <<mission, history, drafts, generation, boundary, mapped, copy, cursor,
                     known, todo, changed, lost>>
      /\ pc = "persist" /\ pc' = "status" /\ saved' = [saved EXCEPT ![generation] = copy]
  BY DEF PersistChanges, world, operators, loop
<1>2. generation = boundary /\ copy # None
  BY <1>1, NoneAssumption, KeptTypes DEF IInv, LoopAgrees
<1>3. generation = mission => saved'[mission] = copy
  BY <1>1, KeptTypes DEF IInv, TypeOK
<1>4. generation = mission => \A i : InCopy(i) => InStore(i)'
  BY <1>1, <1>2, <1>3 DEF InCopy, InStore
<1>5. CursorInv' /\ NoticedInv' /\ DraftsGrow'
  BY <1>1 DEF KeptInv, CursorInv, NoticedInv, DraftsGrow
<1>6. generation = mission => \A i : DealtWith(i) => DealtWith(i)'
  BY <1>1, <1>4 DEF DealtWith
<1>7. UnchangedIsStored'
  BY <1>1, <1>2, <1>4 DEF UnchangedIsStored, InCopy
<1>8. ~lost' => KnownIsKept' /\ PassedIsKept'
  BY <1>1, <1>2, <1>6 DEF KeptInv, KnownIsKept, PassedIsKept
<1> QED
  BY <1>5, <1>7, <1>8 DEF KeptInv

(* Before it asks for events a cycle can fail without a loss.              *)
LEMMA FailureKept == IInv /\ KeptInv /\ CycleFails => KeptInv'
<1> SUFFICES ASSUME IInv, KeptInv, CycleFails
             PROVE  KeptInv'
  OBVIOUS
<1>1. /\ UNCHANGED <<mission, history, saved, drafts, generation, boundary, mapped, copy, cursor,
                     known, todo, changed>>
      /\ pc \in {"picture", "refresh", "query", "persist"} /\ pc' = "status"
      /\ lost' = (lost \/ pc = "persist")
  BY DEF CycleFails, world, operators
<1>2. CursorInv' /\ NoticedInv' /\ DraftsGrow'
  BY <1>1 DEF KeptInv, CursorInv, NoticedInv, DraftsGrow
<1>3. ASSUME ~lost'
      PROVE  UnchangedIsStored' /\ KnownIsKept' /\ PassedIsKept'
  <2>1. ~lost /\ pc \in {"picture", "refresh", "query"}
    BY <1>1, <1>3
  <2>2. \A i : DealtWith(i) => DealtWith(i)'
    BY <1>1, <2>1 DEF DealtWith, InStore
  <2> QED
    BY <1>1, <2>1, <2>2 DEF KeptInv, UnchangedIsStored, KnownIsKept, PassedIsKept, InStore
<1> QED
  BY <1>2, <1>3 DEF KeptInv

(* A map server that starts again has no cursor.                           *)
LEMMA RestartKept == IInv /\ KeptInv /\ RestartMap => KeptInv'
<1> SUFFICES ASSUME IInv, KeptInv, RestartMap
             PROVE  KeptInv'
  OBVIOUS
<1>1. /\ UNCHANGED <<mission, history, saved, drafts, lost>>
      /\ pc' = "status" /\ generation' = 0 /\ boundary' = 0 /\ mapped' = 0
      /\ cursor' = None
  BY DEF RestartMap, world, operators
<1>2. mission \in Nat /\ mission # 0
  BY DEF IInv, TypeOK, Missions
<1>3. CursorInv' /\ NoticedInv'
  BY <1>1, <1>2 DEF CursorInv, NoticedInv
<1>4. DraftsGrow'
  BY <1>1 DEF KeptInv, DraftsGrow
<1>5. UnchangedIsStored' /\ KnownIsKept' /\ PassedIsKept'
  BY <1>1, <1>2 DEF UnchangedIsStored, KnownIsKept, PassedIsKept
<1> QED
  BY <1>3, <1>4, <1>5 DEF KeptInv

LEMMA NextKept == IInv /\ KeptInv /\ [Next]_vars => KeptInv'
<1> SUFFICES ASSUME IInv, KeptInv, [Next]_vars
             PROVE  KeptInv'
  OBVIOUS
<1>1. CASE Others
  <2>1. CASE AdvanceTime \/ \E g \in Groups : Cross(g) \/ Withdraw(g)
    BY <2>1, KeptUnchanged DEF AdvanceTime, Cross, Withdraw, operators, loop
  <2>2. CASE \E d \in Deeds : PublishEvent(d)
    BY <2>2, PublishKept
  <2>3. CASE MissionEnds
    BY <2>3, MissionEndsKept
  <2>4. ASSUME NEW o \in Operators,
               \/ StartMonitor(o) \/ DeclareWarNow(o)
               \/ \E to \in Wanted : ProposeTransition(o, to)
               \/ ApproveTransition(o) \/ RejectTransition(o) \/ RequireApproval(o)
        PROVE  KeptInv'
    BY <2>4, SessionKept
  <2>5. ASSUME NEW o \in Operators, PersistDecision(o)
        PROVE  KeptInv'
    BY <2>5, PersistDecisionKept
  <2> QED
    BY <1>1, <2>1, <2>2, <2>3, <2>4, <2>5 DEF Others
<1>2. CASE Loop
  <2>1. ASSUME NEW g \in Groups, CheckBorder(g)
        PROVE  KeptInv'
    BY <2>1, CheckBorderKept
  <2> QED
    BY <1>2, <2>1, CheckStatusKept, TakePictureKept, RefreshKept, QueryKept, ApplyKept,
       CollectedKept, PersistKept, FailureKept DEF Loop
<1>3. CASE RestartMap
  BY <1>3, RestartKept
<1>4. CASE UNCHANGED vars
  BY <1>4, KeptUnchanged DEF vars, world, operators, loop
<1> QED
  BY <1>1, <1>2, <1>3, <1>4 DEF Next


(* map_server.py:1666: the cursor passes an event before its incident is   *)
(* saved.  However the mission, the operators and restarts come in         *)
(* between, every event behind it is kept unless a snapshot was lost.      *)
THEOREM CollectedIsKeptHolds == Spec => []CollectedIsKept
<1>1. ASSUME IInv, KeptInv
      PROVE  CollectedIsKept
  <2> SUFFICES ASSUME ~lost, cursor # None, cursor.mission = mission, generation = mission,
                      NEW k \in 1 .. cursor.number,
                      NEW i, i = Deed(mission, history[k])
               PROVE  IF pc \in {"apply", "persist"}
                      THEN i \in copy.relation.incidents
                             \/ \E j \in DOMAIN todo : todo[j].deed = history[k]
                      ELSE saved[mission] # None /\ i \in saved[mission].relation.incidents
    BY DEF CollectedIsKept
  <2>1. DealtWith(i) \/ (pc = "apply" /\ \E j \in DOMAIN todo : todo[j].deed = history[k])
    BY <1>1 DEF KeptInv, PassedIsKept
  <2> QED
    BY <2>1 DEF DealtWith, InCopy, InStore
<1>2. Spec => []KeptInv
  BY InitKept, InitInvariant, NextInvariant, NextKept, PTL DEF Spec
<1>3. IInv /\ KeptInv => CollectedIsKept
  BY <1>1
<1> QED
  BY <1>2, <1>3, Invariance, PTL

-----------------------------------------------------------------------------
(* The score of a copy is the bounded sum of the points of its incidents.  *)
(* The sum is a fold over a set: it is taken apart here into a first       *)
(* element and the sum of the others, by induction over the parts of the   *)
(* set, and from there into any element and the others.                    *)

(* To hold of a finite set, it is enough that what holds of all its parts  *)
(* holds of it.                                                            *)
LEMMA FiniteInduction ==
    ASSUME NEW S, IsFiniteSet(S), NEW W,
           \A s \in SUBSET S : (\A t \in SUBSET s : t # s => t \in W) => s \in W
    PROVE  S \in W
<1> DEFINE Size == {n \in Nat : \E s \in SUBSET S : s \notin W /\ Cardinality(s) = n}
<1>1. \A s \in SUBSET S : IsFiniteSet(s) /\ Cardinality(s) \in Nat
  BY FS_Subset, FS_CardinalityType
<1>2. Size = {}
  <2>1. SUFFICES ASSUME Size # {} PROVE FALSE
    OBVIOUS
  <2>2. PICK n \in Size : \A m \in Size : n <= m
    <3>1. Size \in SUBSET Nat
      OBVIOUS
    <3> HIDE DEF Size
    <3> QED
      BY <2>1, <3>1, LeastNatural
  <2>3. PICK s \in SUBSET S : s \notin W /\ Cardinality(s) = n
    BY <2>2
  <2>4. ASSUME NEW t \in SUBSET s, t # s
        PROVE  t \in W
    <3>1. Cardinality(t) < n /\ t \in SUBSET S /\ n \in Nat /\ Cardinality(t) \in Nat
      BY <1>1, <2>3, <2>4, FS_Subset
    <3>2. Cardinality(t) \notin Size
      BY <2>2, <3>1
    <3> QED
      BY <3>1, <3>2
  <2> QED
    BY <2>3, <2>4
<1>3. S \in SUBSET S /\ Cardinality(S) \in Nat
  BY <1>1
<1>4. S \notin W => Cardinality(S) \in Size
  BY <1>3
<1> QED
  BY <1>2, <1>4

Total(S) == MapThenSumSet(Points, S)
Any(S) == CHOOSE x \in S : TRUE

(* One step of the sum, of each part of S.                                 *)
Summed(f, S) ==
    [s \in SUBSET S |-> IF s = {} THEN 0 ELSE Points(Any(s)) + f[s \ {Any(s)}]]

LEMMA TotalIs == \A S : Total(S) = (CHOOSE f : f = Summed(f, S))[S]
<1>1. ASSUME NEW S
      PROVE  Total(S) = (CHOOSE f : f = Summed(f, S))[S]
  <2>1. Total(S) =
          (CHOOSE f : f = [s \in SUBSET S |->
             IF s = {} THEN 0
             ELSE Points(CHOOSE x \in s : TRUE) + f[s \ {CHOOSE x \in s : TRUE}]])[S]
    BY DEF Total, MapThenSumSet, MapThenFoldSet
  <2> QED
    BY <2>1 DEF Summed, Any
<1> QED
  BY <1>1

LEMMA SummedIs ==
    ASSUME NEW S, NEW f, f = Summed(f, S), NEW s \in SUBSET S
    PROVE  f[s] = IF s = {} THEN 0 ELSE Points(Any(s)) + f[s \ {Any(s)}]
<1>1. Summed(f, S)[s] = IF s = {} THEN 0 ELSE Points(Any(s)) + f[s \ {Any(s)}]
  BY DEF Summed
<1> QED
  BY <1>1

LEMMA AnyIn == \A S : S # {} => Any(S) \in S
BY DEF Any

(* What is summed does not depend on what it is a part of.                 *)
LEMMA SumsAgree ==
    ASSUME NEW R, NEW f, f = Summed(f, R), NEW S, NEW g, g = Summed(g, S),
           NEW s, s \subseteq R, s \subseteq S, IsFiniteSet(s)
    PROVE  f[s] = g[s]
<1> DEFINE W == {t \in SUBSET s : f[t] = g[t]}
<1>1. ASSUME NEW t \in SUBSET s, \A u \in SUBSET t : u # t => u \in W
      PROVE  t \in W
  <2>1. /\ f[t] = IF t = {} THEN 0 ELSE Points(Any(t)) + f[t \ {Any(t)}]
        /\ g[t] = IF t = {} THEN 0 ELSE Points(Any(t)) + g[t \ {Any(t)}]
    BY SummedIs
  <2>2. t # {} => t \ {Any(t)} \in W
    <3>1. t # {} => t \ {Any(t)} \in SUBSET t /\ t \ {Any(t)} # t
      BY AnyIn
    <3> HIDE DEF W
    <3> QED
      BY <1>1, <3>1
  <2>3. f[t] = g[t]
    BY <2>1, <2>2
  <2> QED
    BY <2>3
<1>2. s \in W
  <2> HIDE DEF W
  <2> QED
    BY <1>1, FiniteInduction
<1> QED
  BY <1>2

LEMMA SumDefined ==
    ASSUME NEW S, IsFiniteSet(S)
    PROVE  \E f : f = Summed(f, S)
<1> DEFINE W == {R \in SUBSET S : \E f : f = Summed(f, R)}
<1>1. ASSUME NEW R \in SUBSET S, \A s \in SUBSET R : s # R => s \in W
      PROVE  R \in W
  <2> DEFINE next(s) == IF s = {} THEN 0 ELSE Points(Any(s)) + Total(s \ {Any(s)})
             h == [s \in SUBSET R |-> IF s = R THEN next(R) ELSE Total(s)]
  <2>1. ASSUME NEW s \in SUBSET R, s # R
        PROVE  Total(s) = next(s)
    <3> DEFINE f == CHOOSE e : e = Summed(e, s)
    <3>1. \E e : e = Summed(e, s)
      BY <1>1, <2>1
    <3>2. f = Summed(f, s) /\ Total(s) = f[s]
      BY <3>1, TotalIs
    <3> HIDE DEF f
    <3>3. f[s] = IF s = {} THEN 0 ELSE Points(Any(s)) + f[s \ {Any(s)}]
      BY <3>2, SummedIs
    <3>4. s # {} => f[s \ {Any(s)}] = Total(s \ {Any(s)})
      <4> SUFFICES ASSUME s # {} PROVE f[s \ {Any(s)}] = Total(s \ {Any(s)})
        OBVIOUS
      <4> DEFINE t == s \ {Any(s)}
                 g == CHOOSE e : e = Summed(e, t)
      <4>1. t \in SUBSET R /\ t # R /\ t \subseteq s /\ IsFiniteSet(t)
        BY <2>1, FS_Subset
      <4> HIDE DEF t
      <4>2. \E e : e = Summed(e, t)
        BY <1>1, <4>1
      <4>3. g = Summed(g, t)
        BY <4>2
      <4>4. Total(t) = g[t]
        BY TotalIs
      <4> HIDE DEF g
      <4>5. f[t] = g[t]
        BY <3>2, <4>1, <4>3, SumsAgree
      <4> QED
        BY <4>4, <4>5 DEF t
    <3> QED
      BY <3>2, <3>3, <3>4
  <2>2. ASSUME NEW s \in SUBSET R
        PROVE  h[s] = IF s = {} THEN 0 ELSE Points(Any(s)) + h[s \ {Any(s)}]
    <3>1. h[s] = next(s)
      BY <2>1
    <3>2. s # {} => h[s \ {Any(s)}] = Total(s \ {Any(s)})
      <4>1. s # {} => s \ {Any(s)} \in SUBSET R /\ s \ {Any(s)} # R
        BY AnyIn
      <4> QED
        BY <4>1
    <3> HIDE DEF h
    <3> QED
      BY <3>1, <3>2
  <2>3. h = [s \in SUBSET R |-> h[s]]
    OBVIOUS
  <2> HIDE DEF h
  <2>4. h = Summed(h, R)
    BY <2>2, <2>3 DEF Summed
  <2> QED
    BY <2>4
<1>2. S \in W
  <2> HIDE DEF W
  <2> QED
    BY <1>1, FiniteInduction
<1> QED
  BY <1>2

(* The sum of a set that is not empty, with its next element taken out.    *)
LEMMA TotalStep ==
    ASSUME NEW S, IsFiniteSet(S)
    PROVE  Total(S) = IF S = {} THEN 0 ELSE Points(Any(S)) + Total(S \ {Any(S)})
<1> DEFINE f == CHOOSE e : e = Summed(e, S)
           T == S \ {Any(S)}
           g == CHOOSE e : e = Summed(e, T)
<1>1. IsFiniteSet(T) /\ T \subseteq S
  BY FS_Subset
<1>2. f = Summed(f, S) /\ Total(S) = f[S]
  BY SumDefined, TotalIs
<1> HIDE DEF T
<1>3. g = Summed(g, T) /\ Total(T) = g[T]
  BY <1>1, SumDefined, TotalIs
<1> HIDE DEF f, g
<1>4. f[T] = g[T]
  BY <1>1, <1>2, <1>3, SumsAgree
<1>5. f[S] = IF S = {} THEN 0 ELSE Points(Any(S)) + f[T]
  BY <1>2, SummedIs DEF T
<1> QED
  BY <1>2, <1>3, <1>4, <1>5 DEF T

LEMMA TotalNat ==
    ASSUME NEW S, IsFiniteSet(S), S \subseteq Incidents
    PROVE  Total(S) \in Nat
<1> DEFINE W == {s \in SUBSET S : Total(s) \in Nat}
<1>1. ASSUME NEW s \in SUBSET S, \A t \in SUBSET s : t # s => t \in W
      PROVE  s \in W
  <2>1. Total(s) = IF s = {} THEN 0 ELSE Points(Any(s)) + Total(s \ {Any(s)})
    BY FS_Subset, TotalStep
  <2>2. CASE s = {}
    BY <2>1, <2>2
  <2>3. CASE s # {}
    <3>1. Any(s) \in Incidents /\ s \ {Any(s)} \in SUBSET s /\ s \ {Any(s)} # s
      BY <2>3, AnyIn
    <3>2. Total(s \ {Any(s)}) \in Nat
      BY <1>1, <3>1
    <3>3. Points(Any(s)) \in Nat
      BY <3>1, PointsCount
    <3>4. Total(s) = Points(Any(s)) + Total(s \ {Any(s)})
      BY <2>1, <2>3
    <3>5. Total(s) \in Nat
      BY <3>2, <3>3, <3>4
    <3> QED
      BY <3>5
  <2> QED
    BY <2>2, <2>3
<1>2. S \in W
  <2> HIDE DEF W
  <2> QED
    BY <1>1, FiniteInduction
<1> QED
  BY <1>2

(* Any element may be taken out first.                                     *)
LEMMA TotalWithout ==
    ASSUME NEW S, IsFiniteSet(S), S \subseteq Incidents, NEW x \in S
    PROVE  Total(S) = Points(x) + Total(S \ {x})
<1> DEFINE W == {s \in SUBSET S : \A y \in s : Total(s) = Points(y) + Total(s \ {y})}
<1>1. ASSUME NEW s \in SUBSET S, \A t \in SUBSET s : t # s => t \in W
      PROVE  s \in W
  <2>1. ASSUME NEW y \in s
        PROVE  Total(s) = Points(y) + Total(s \ {y})
    <3> DEFINE z == Any(s)
    <3>1. z \in s /\ Total(s) = Points(z) + Total(s \ {z})
      BY <2>1, AnyIn, FS_Subset, TotalStep
    <3> HIDE DEF z
    <3>2. CASE y = z
      BY <3>1, <3>2
    <3>3. CASE y # z
      <4>1. /\ s \ {z} \in SUBSET s /\ s \ {z} # s /\ y \in s \ {z}
            /\ s \ {y} \in SUBSET s /\ s \ {y} # s /\ z \in s \ {y}
            /\ (s \ {z}) \ {y} = (s \ {y}) \ {z}
        BY <2>1, <3>1, <3>3
      <4> DEFINE rest == (s \ {y}) \ {z}
      <4>2. Total(s \ {z}) = Points(y) + Total(rest)
        BY <1>1, <4>1
      <4>3. Total(s \ {y}) = Points(z) + Total(rest)
        BY <1>1, <4>1
      <4>4. Total(rest) \in Nat
        <5>1. IsFiniteSet(rest) /\ rest \subseteq Incidents
          BY FS_Subset
        <5> HIDE DEF rest
        <5> QED
          BY <5>1, TotalNat
      <4>5. Points(y) \in Nat /\ Points(z) \in Nat
        BY <2>1, <3>1, PointsCount
      <4> HIDE DEF rest
      <4> QED
        BY <3>1, <4>2, <4>3, <4>4, <4>5
    <3> QED
      BY <3>2, <3>3
  <2> QED
    BY <2>1
<1>2. S \in W
  <2> HIDE DEF W
  <2> QED
    BY <1>1, FiniteInduction
<1> QED
  BY <1>2

LEMMA TotalAdd ==
    ASSUME NEW S, IsFiniteSet(S), S \subseteq Incidents, NEW x \in Incidents, x \notin S
    PROVE  Total(S \union {x}) = Total(S) + Points(x)
<1> DEFINE T == S \union {x}
<1>1. IsFiniteSet(T) /\ T \subseteq Incidents /\ x \in T /\ T \ {x} = S
  BY FS_AddElement
<1>2. Total(S) \in Nat /\ Points(x) \in Nat
  BY TotalNat, PointsCount
<1> HIDE DEF T
<1>3. Total(T) = Points(x) + Total(T \ {x})
  BY <1>1, TotalWithout
<1>4. Total(T) = Points(x) + Total(S)
  <2>1. T \ {x} = S
    BY <1>1
  <2> QED
    BY <1>3, <2>1, Zenon
<1>5. Total(T) = Total(S) + Points(x)
  BY <1>2, <1>4
<1> QED
  BY <1>5 DEF T

(* The bound may be applied after each incident or once.                   *)
LEMMA BoundedAdd ==
    ASSUME NEW a \in Nat, NEW b \in Nat
    PROVE  Bounded(Bounded(a) + b) = Bounded(a + b)
BY DEF Bounded

Scored(r) == IsFiniteSet(r.incidents) /\ r.score = Bounded(Total(r.incidents))

ScoreInv ==
    /\ \A n \in Missions : saved[n] # None => Scored(saved[n].relation)
    /\ Scored(copy.relation)
    /\ \A o \in Operators : drafts[o] # None => Scored(drafts[o].copy.relation)

(* Decisions touch neither the incidents nor the score.                    *)
LEMMA DecisionScores ==
    ASSUME NEW r \in Relationships
    PROVE  /\ Approve(r).score = r.score /\ Approve(r).incidents = r.incidents
           /\ \A to : /\ Propose(r, to).score = r.score
                      /\ Propose(r, to).incidents = r.incidents
           /\ \A n \in {None} : /\ [r EXCEPT !.pending = n].score = r.score
                                /\ [r EXCEPT !.pending = n].incidents = r.incidents
           /\ \A b : /\ [r EXCEPT !.automatic = b].score = r.score
                     /\ [r EXCEPT !.automatic = b].incidents = r.incidents
BY DEF Approve, Propose, Relationships

(* An incident is scored when it is recorded for the first time.           *)
LEMMA RecordScores ==
    ASSUME NEW r \in Relationships, NEW i \in Incidents
    PROVE  RecordIncident(r, i).score =
             IF i \in r.incidents THEN r.score ELSE Bounded(r.score + Points(i))
<1>1. CASE i \in r.incidents
  BY <1>1 DEF RecordIncident
<1>2. CASE i \notin r.incidents
  <2> DEFINE raised == [r EXCEPT !.score = Bounded(@ + Points(i)),
                                 !.incidents = @ \union {i}]
             proposed == Propose(raised, Candidate(raised.score))
  <2>1. DOMAIN raised = {"state", "score", "incidents", "pending", "automatic"}
        /\ raised.score = Bounded(r.score + Points(i))
    BY DEF Relationships
  <2>2. RecordIncident(r, i) =
          IF ~Escalates(raised) THEN raised
          ELSE IF r.automatic THEN Approve(proposed) ELSE proposed
    BY <1>2 DEF RecordIncident, Raised
  <2> HIDE DEF raised
  <2>3. proposed.score = raised.score /\ Approve(proposed).score = raised.score
    BY <2>1 DEF Propose, Approve
  <2> HIDE DEF proposed
  <2> QED
    BY <1>2, <2>1, <2>2, <2>3
<1> QED
  BY <1>1, <1>2

LEMMA RecordScored ==
    ASSUME NEW r \in Relationships, Current(r), Scored(r), NEW i \in Incidents
    PROVE  Scored(RecordIncident(r, i))
<1> DEFINE n == RecordIncident(r, i)
<1>1. n.incidents = r.incidents \union {i}
  BY RecordSound
<1>2. n.score = IF i \in r.incidents THEN r.score ELSE Bounded(r.score + Points(i))
  BY RecordScores
<1>3. IsFiniteSet(r.incidents) /\ r.incidents \subseteq Incidents
  BY DEF Scored, Relationships
<1> HIDE DEF n
<1>4. CASE i \in r.incidents
  <2>1. n.incidents = r.incidents /\ n.score = r.score
    BY <1>1, <1>2, <1>4
  <2> QED
    BY <2>1 DEF Scored, n
<1>5. CASE i \notin r.incidents
  <2>1. Total(r.incidents \union {i}) = Total(r.incidents) + Points(i)
    BY <1>3, <1>5, TotalAdd
  <2>2. Total(r.incidents) \in Nat /\ Points(i) \in Nat
    BY <1>3, TotalNat, PointsCount
  <2>3. n.score = Bounded(Total(n.incidents))
    <3>1. n.score = Bounded(Bounded(Total(r.incidents)) + Points(i))
      BY <1>2, <1>5 DEF Scored
    <3>2. n.score = Bounded(Total(r.incidents) + Points(i))
      BY <2>2, <3>1, BoundedAdd
    <3> QED
      BY <1>1, <2>1, <3>2
  <2>4. IsFiniteSet(n.incidents)
    BY <1>1, <1>3, FS_AddElement
  <2> QED
    BY <2>3, <2>4 DEF Scored, n
<1> QED
  BY <1>4, <1>5

(* Peace has neither incidents nor a score.                                *)
LEMMA PeaceScored ==
    ASSUME NEW r, r.incidents = {}, r.score = 0
    PROVE  Scored(r)
<1>1. IsFiniteSet({}) /\ Total({}) = 0
  BY FS_EmptySet, TotalStep
<1> QED
  BY <1>1 DEF Scored, Bounded

LEMMA FreshScored == Scored(Fresh.relation)
BY PeaceScored DEF Fresh, Peaceful

LEMMA ClearedScored ==
    ASSUME NEW s
    PROVE  Scored(Cleared(s).relation)
<1>1. Cleared(s).relation.incidents = {} /\ Cleared(s).relation.score = 0
  BY DEF Cleared, Fresh, Peaceful
<1> QED
  BY <1>1, PeaceScored

LEMMA RestoredScored ==
    ASSUME NEW s \in Snapshots, Scored(s.relation)
    PROVE  Scored(Restored(s).relation)
<1> DEFINE r == s.relation
<1>1. r \in Relationships
  BY SnapshotParts
<1>2. Restored(s).relation \in {r, Approve(r)}
  BY DEF Restored, Snapshots
<1>3. Scored(Approve(r))
  BY <1>1, DecisionScores DEF Scored
<1> QED
  BY <1>2, <1>3

LEMMA GroupSeenScored ==
    ASSUME NEW m \in Nat, NEW s \in Snapshots, Current(s.relation), Scored(s.relation),
           NEW g \in Groups, NEW here \in BOOLEAN, NEW now \in Nat
    PROVE  Scored(GroupSeen(s, m, g, here, now).relation)
<1> DEFINE crossing == IF s.border[g] = None THEN [since |-> now, reported |-> FALSE]
                                             ELSE s.border[g]
           i == Violation(m, g, crossing.since)
<1>1. s.relation \in Relationships /\ s.border[g] \in Crossings \union {None}
  BY SnapshotParts
<1>2. i \in Incidents
  BY <1>1 DEF Violation, Incidents, Crossings
<1>3. GroupSeen(s, m, g, here, now).relation \in {s.relation, RecordIncident(s.relation, i)}
  BY DEF GroupSeen, Snapshots
<1> HIDE DEF i
<1>4. Scored(RecordIncident(s.relation, i))
  BY <1>1, <1>2, RecordScored
<1> QED
  BY <1>3, <1>4

-----------------------------------------------------------------------------
LEMMA InitScore == Init => ScoreInv
BY FreshScored DEF Init, ScoreInv

LEMMA ScoreUnchanged ==
    ASSUME ScoreInv, UNCHANGED <<saved, drafts, copy>>
    PROVE  ScoreInv'
BY DEF ScoreInv

(* The loop's steps that touch no copy but the map server's.               *)
LEMMA LoopScore ==
    ASSUME ScoreInv, UNCHANGED <<saved, drafts>>, Scored(copy'.relation)
    PROVE  ScoreInv'
BY DEF ScoreInv

LEMMA ReadScored ==
    ASSUME IInv, ScoreInv
    PROVE  Scored(Relation) /\ Relation \in Relationships /\ Current(Relation)
<1> SUFFICES Scored(Relation)
  BY RelationSound
<1>1. mission \in Missions
  BY DEF IInv, TypeOK
<1>2. CASE saved[mission] = None
  BY <1>2, FreshScored DEF Relation, Read
<1>3. CASE saved[mission] # None
  <2>1. saved[mission] \in Snapshots /\ Scored(saved[mission].relation)
    BY <1>1, <1>3 DEF IInv, TypeOK, ScoreInv
  <2> QED
    BY <1>3, <2>1, RestoredScored DEF Relation, Read
<1> QED
  BY <1>2, <1>3

LEMMA DecideScore ==
    ASSUME IInv, ScoreInv, NEW o \in Operators, NEW r, Scored(r), Decide(o, r)
    PROVE  ScoreInv'
<1> DEFINE draft == [mission |-> mission, read |-> saved[mission],
                     copy |-> [Read(mission) EXCEPT !.relation = r]]
<1>1. UNCHANGED <<saved, copy>> /\ drafts' = [drafts EXCEPT ![o] = draft]
  BY DEF Decide, loop
<1>2. draft.copy.relation = r
  BY ReadSound DEF Sound, Snapshots
<1> HIDE DEF draft
<1>3. \A p \in Operators : drafts'[p] = IF p = o THEN draft ELSE drafts[p]
  BY <1>1 DEF IInv, TypeOK
<1> QED
  BY <1>1, <1>2, <1>3 DEF ScoreInv

(* What a session decides is scored as what it has read, with the          *)
(* declaration of a war as one incident more.                              *)
LEMMA SessionScore ==
    ASSUME IInv, ScoreInv, NEW o \in Operators,
           \/ StartMonitor(o) \/ DeclareWarNow(o)
           \/ \E to \in Wanted : ProposeTransition(o, to)
           \/ ApproveTransition(o) \/ RejectTransition(o) \/ RequireApproval(o)
    PROVE  ScoreInv'
<1> DEFINE r == Relation
<1>1. r \in Relationships /\ Scored(r) /\ Current(r)
  BY ReadScored
<1>2. \A q : q.score = r.score /\ q.incidents = r.incidents => Scored(q)
  BY <1>1 DEF Scored
<1>3. CASE StartMonitor(o)
  <2>1. Decide(o, r)
    BY <1>3 DEF StartMonitor
  <2> QED
    BY <1>1, <2>1, DecideScore
<1>4. CASE DeclareWarNow(o)
  <2> DEFINE i == Declaration(mission, time)
             s == RecordIncident(r, i)
             d == DeclareWar(r, i)
  <2>1. i \in Incidents
    BY BoundsAssumption DEF Declaration, Incidents, IInv, TypeOK, Missions
  <2>2. Decide(o, d)
    BY <1>4 DEF DeclareWarNow
  <2> HIDE DEF i
  <2>3. Scored(s) /\ s \in Relationships
    BY <1>1, <2>1, RecordScored, RecordSound
  <2>4. d = [s EXCEPT !.state = "war", !.pending = None]
    BY DEF DeclareWar
  <2> HIDE DEF s, d
  <2>5. d.score = s.score /\ d.incidents = s.incidents
    BY <2>3, <2>4 DEF Relationships
  <2>6. Scored(d)
    BY <2>3, <2>5 DEF Scored
  <2> QED
    BY <2>2, <2>6, DecideScore
<1>5. ASSUME NEW to \in Wanted, ProposeTransition(o, to)
      PROVE  ScoreInv'
  <2>1. Scored(Propose(r, to)) /\ Decide(o, Propose(r, to))
    BY <1>1, <1>2, <1>5, DecisionScores DEF ProposeTransition
  <2> QED
    BY <2>1, DecideScore
<1>6. CASE ApproveTransition(o)
  <2>1. Scored(Approve(r)) /\ Decide(o, Approve(r))
    BY <1>1, <1>2, <1>6, DecisionScores DEF ApproveTransition
  <2> QED
    BY <2>1, DecideScore
<1>7. CASE RejectTransition(o)
  <2> DEFINE s == [r EXCEPT !.pending = None]
  <2>1. Decide(o, s)
    BY <1>7 DEF RejectTransition
  <2>2. Scored(s)
    BY <1>1, <1>2, DecisionScores
  <2> HIDE DEF s
  <2> QED
    BY <2>1, <2>2, DecideScore
<1>8. CASE RequireApproval(o)
  <2> DEFINE s == [r EXCEPT !.automatic = FALSE]
  <2>1. Decide(o, s)
    BY <1>8 DEF RequireApproval
  <2>2. Scored(s)
    BY <1>1, <1>2, DecisionScores
  <2> HIDE DEF s
  <2> QED
    BY <2>1, <2>2, DecideScore
<1> QED
  BY <1>3, <1>4, <1>5, <1>6, <1>7, <1>8

LEMMA PersistDecisionScore ==
    ASSUME IInv, ScoreInv, NEW o \in Operators, PersistDecision(o)
    PROVE  ScoreInv'
<1>1. drafts[o] \in Draft /\ Scored(drafts[o].copy.relation)
  BY DEF PersistDecision, IInv, TypeOK, ScoreInv
<1>2. \A n \in Missions : saved'[n] = IF n = drafts[o].mission THEN drafts[o].copy ELSE saved[n]
  BY DEF PersistDecision, IInv, TypeOK
<1>3. \A p \in Operators : drafts'[p] = IF p = o THEN None ELSE drafts[p]
  BY DEF PersistDecision, IInv, TypeOK
<1>4. UNCHANGED copy
  BY DEF PersistDecision, loop
<1> QED
  BY <1>1, <1>2, <1>3, <1>4 DEF ScoreInv

LEMMA TakePictureScore == ScoreInv /\ TakePicture => ScoreInv'
<1> SUFFICES ASSUME ScoreInv, TakePicture
             PROVE  ScoreInv'
  OBVIOUS
<1>1. UNCHANGED <<saved, drafts>> /\ copy' \in {copy, Cleared(copy)}
  BY DEF TakePicture, operators
<1>2. Scored(copy.relation) /\ Scored(Cleared(copy).relation)
  BY ClearedScored DEF ScoreInv
<1> QED
  BY <1>1, <1>2, LoopScore

LEMMA RefreshScore == IInv /\ ScoreInv /\ Refresh => ScoreInv'
<1> SUFFICES ASSUME IInv, ScoreInv, Refresh
             PROVE  ScoreInv'
  OBVIOUS
<1>1. UNCHANGED <<saved, drafts>> /\ generation \in Missions
  BY DEF Refresh, operators, IInv, LoopAgrees
<1>2. CASE saved[generation] = None
  BY <1>1, <1>2, ScoreUnchanged DEF Refresh
<1>3. CASE saved[generation] # None
  <2>1. saved[generation] \in Snapshots /\ Scored(saved[generation].relation)
    BY <1>1, <1>3 DEF IInv, TypeOK, ScoreInv
  <2>2. copy' = Restored(saved[generation])
    BY <1>3 DEF Refresh
  <2>3. Scored(copy'.relation)
    BY <2>1, <2>2, RestoredScored
  <2> QED
    BY <1>1, <2>3, LoopScore
<1> QED
  BY <1>2, <1>3

(* An event that is read again adds nothing to the score.                  *)
LEMMA ApplyScore == IInv /\ ScoreInv /\ ApplyEvent => ScoreInv'
<1> SUFFICES ASSUME IInv, ScoreInv, ApplyEvent
             PROVE  ScoreInv'
  OBVIOUS
<1> DEFINE e == Head(todo)
           deed == Deed(e.mission, e.deed)
           r == RecordIncident(copy.relation, deed)
<1>1. UNCHANGED <<saved, drafts>>
  BY DEF ApplyEvent, operators
<1>2. e \in Messages
  BY DEF ApplyEvent, IInv, TypeOK
<1>3. copy' \in {copy, [copy EXCEPT !.relation = r]}
  BY DEF ApplyEvent
<1> HIDE DEF e
<1>4. deed \in Incidents
  BY <1>2 DEF Messages, Deed, Incidents
<1> HIDE DEF deed
<1>5. copy \in Snapshots /\ copy.relation \in Relationships /\ Current(copy.relation)
  BY SnapshotParts DEF IInv, CopiesSound, Sound
<1>6. Scored(copy.relation)
  BY DEF ScoreInv
<1>7. Scored(r)
  BY <1>4, <1>5, <1>6, RecordScored
<1> HIDE DEF r
<1>8. copy'.relation \in {copy.relation, r}
  BY <1>3, <1>5 DEF Snapshots
<1> QED
  BY <1>1, <1>6, <1>7, <1>8, LoopScore

LEMMA CheckBorderScore ==
    ASSUME IInv, ScoreInv, NEW g \in Groups, CheckBorder(g)
    PROVE  ScoreInv'
<1> DEFINE here == g \in view.inside
<1>1. UNCHANGED <<saved, drafts>> /\ here \in BOOLEAN
      /\ copy' = GroupSeen(copy, boundary, g, here, view.time)
  BY DEF CheckBorder, operators
<1> HIDE DEF here
<1>2. boundary \in Nat /\ view.time \in Nat
  BY BoundsAssumption DEF IInv, TypeOK, View, Missions
<1>3. copy \in Snapshots /\ Current(copy.relation) /\ Scored(copy.relation)
  BY DEF IInv, CopiesSound, Sound, ScoreInv
<1>4. Scored(copy'.relation)
  BY <1>1, <1>2, <1>3, GroupSeenScored
<1> QED
  BY <1>1, <1>4, LoopScore

LEMMA PersistScore == IInv /\ ScoreInv /\ PersistChanges => ScoreInv'
<1> SUFFICES ASSUME IInv, ScoreInv, PersistChanges
             PROVE  ScoreInv'
  OBVIOUS
<1>1. UNCHANGED <<drafts, copy>>
  BY DEF PersistChanges, operators, loop
<1>2. \A n \in Missions : saved'[n] = IF n = generation THEN copy ELSE saved[n]
  BY DEF PersistChanges, IInv, TypeOK
<1> QED
  BY <1>1, <1>2 DEF ScoreInv

LEMMA NextScore == IInv /\ ScoreInv /\ [Next]_vars => ScoreInv'
<1> SUFFICES ASSUME IInv, ScoreInv, [Next]_vars
             PROVE  ScoreInv'
  OBVIOUS
<1>1. CASE Others
  <2>1. CASE AdvanceTime \/ MissionEnds \/ (\E g \in Groups : Cross(g) \/ Withdraw(g))
               \/ (\E d \in Deeds : PublishEvent(d))
    <3>1. UNCHANGED <<saved, drafts, copy>>
      BY <2>1 DEF AdvanceTime, MissionEnds, Cross, Withdraw, PublishEvent, operators, loop
    <3> QED
      BY <3>1, ScoreUnchanged
  <2>2. ASSUME NEW o \in Operators,
               \/ StartMonitor(o) \/ DeclareWarNow(o)
               \/ \E to \in Wanted : ProposeTransition(o, to)
               \/ ApproveTransition(o) \/ RejectTransition(o) \/ RequireApproval(o)
        PROVE  ScoreInv'
    BY <2>2, SessionScore
  <2>3. ASSUME NEW o \in Operators, PersistDecision(o)
        PROVE  ScoreInv'
    BY <2>3, PersistDecisionScore
  <2> QED
    BY <1>1, <2>1, <2>2, <2>3 DEF Others
<1>2. CASE Loop
  <2>1. CASE CheckStatus \/ QueryEvents \/ Collected \/ CycleFails
    <3>1. UNCHANGED <<saved, drafts, copy>>
      BY <2>1 DEF CheckStatus, QueryEvents, Collected, CycleFails, operators
    <3> QED
      BY <3>1, ScoreUnchanged
  <2>2. ASSUME NEW g \in Groups, CheckBorder(g)
        PROVE  ScoreInv'
    BY <2>2, CheckBorderScore
  <2> QED
    BY <1>2, <2>1, <2>2, TakePictureScore, RefreshScore, ApplyScore, PersistScore DEF Loop
<1>3. CASE RestartMap
  <2>1. UNCHANGED <<saved, drafts>> /\ copy' = Fresh
    BY <1>3 DEF RestartMap, operators
  <2> QED
    BY <2>1, FreshScored, LoopScore
<1>4. CASE UNCHANGED vars
  BY <1>4, ScoreUnchanged DEF vars, operators, loop
<1> QED
  BY <1>1, <1>2, <1>3, <1>4 DEF Next

(* diplomacy.py:292: however often an event is read again, after a restart *)
(* from the whole history or told by two messages, each incident counts    *)
(* once in the score of every copy.                                        *)
THEOREM ScoredOnceHolds == Spec => []ScoredOnce
<1>1. ASSUME ScoreInv, NEW c \in Copies
      PROVE  Scored(c.copy.relation)
  BY <1>1 DEF ScoreInv, Copies
<1>2. ScoreInv => ScoredOnce
  BY <1>1 DEF ScoredOnce, Scored, Total
<1>3. Spec => []ScoreInv
  BY InitScore, InitInvariant, NextInvariant, NextScore, PTL DEF Spec
<1> QED
  BY <1>2, <1>3, PTL
=============================================================================
