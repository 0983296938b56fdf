------------------------- MODULE PlanExecution_proofs --------------------------
(***************************************************************************)
(* Theorems about PlanExecution for every value of its constants.          *)
(***************************************************************************)
EXTENDS PlanExecution, Queues_proofs

-----------------------------------------------------------------------------
(* What the operators return.                                              *)

LEMMA ConstantTypes ==
  /\ NumPhases \in Nat /\ NumPhases > 0 /\ NumRequirements \in Nat
  /\ MaxAttempts \in Nat /\ MaxAuftraege \in Nat /\ MaxInterruptions \in Nat /\ MaxLost \in Nat
  /\ PhaseOf \in [Requirements -> Phases] /\ Persistent \subseteq Requirements
  /\ Phases = 1 .. NumPhases /\ Requirements = 1 .. NumRequirements
  BY PlanAssumption DEF Phases, Requirements

LEMMA EarliestIsLeast ==
  ASSUME NEW S \in SUBSET Nat
  PROVE  IF S = {} THEN Earliest(S) = 0
         ELSE Earliest(S) \in S /\ \A q \in S : Earliest(S) <= q
<1>1. CASE S # {}
  <2>1. \E p \in S : \A q \in S : p <= q
    BY <1>1, LeastNatural
  <2>. QED  BY <1>1, <2>1 DEF Earliest
<1>. QED  BY <1>1 DEF Earliest

LEMMA LatestIsGreatest ==
  ASSUME NEW n \in Nat, NEW S \in SUBSET (1 .. n)
  PROVE  Latest(S) \in 0 .. n
<1>1. CASE S # {}
  <2>1. S \in SUBSET Nat /\ \A q \in S : q <= n
    OBVIOUS
  <2>2. \E p \in S : \A q \in S : q <= p
    BY <1>1, <2>1, GreatestNatural
  <2>3. Latest(S) \in S
    BY <1>1, <2>2 DEF Latest
  <2>4. S \subseteq 0 .. n
    OBVIOUS
  <2>. QED  BY <2>3, <2>4
<1>2. CASE S = {}
  BY <1>2 DEF Latest
<1>. QED  BY <1>1, <1>2

LEMMA EarliestPhase ==
  ASSUME NEW S \in SUBSET Phases
  PROVE  Earliest(S) \in 0 .. NumPhases /\ (Earliest(S) # 0 => Earliest(S) \in S)
<1>1. S \in SUBSET Nat /\ S \subseteq 0 .. NumPhases /\ 0 \in 0 .. NumPhases
  BY ConstantTypes
<1>. QED  BY <1>1, EarliestIsLeast

LEMMA EarliestRequirement ==
  ASSUME NEW S \in SUBSET Requirements
  PROVE  IF S = {} THEN Earliest(S) = 0 ELSE Earliest(S) \in S /\ Earliest(S) # 0
<1>1. S \in SUBSET Nat /\ 0 \notin S
  BY ConstantTypes
<1>. QED  BY <1>1, EarliestIsLeast

\* The phases the steps go to.
LEMMA PhaseTypes ==
  ASSUME TypeOK
  PROVE  /\ NextPhase \in 0 .. NumPhases /\ CurrentPhase \in 0 .. NumPhases
         /\ LaterPhase \in 0 .. NumPhases
         /\ run.phase \in 0 .. NumPhases
         /\ \A r \in Requirements : PhaseOf[r] \in 0 .. NumPhases
<1>1. NextPhase \in 0 .. NumPhases
  BY EarliestPhase DEF NextPhase, Incomplete
<1>2. Earliest({p \in Phases : plan.phases[p] = "active"}) \in 0 .. NumPhases
  BY EarliestPhase
<1>3. {PhaseOf[r] : r \in Required} \in SUBSET (1 .. NumPhases)
  BY ConstantTypes DEF Required, Recorded
<1>4. Latest({PhaseOf[r] : r \in Required}) \in 0 .. NumPhases
  BY <1>3, LatestIsGreatest, ConstantTypes
<1>5. execution.current \in 0 .. NumPhases /\ run.phase \in 0 .. NumPhases
  BY DEF TypeOK, Executions, Runs
<1>6. CurrentPhase \in 0 .. NumPhases
  BY <1>2, <1>4, <1>5 DEF CurrentPhase
<1>7. LaterPhase \in 0 .. NumPhases
  BY EarliestPhase DEF LaterPhase, Incomplete
<1>. QED  BY <1>1, <1>5, <1>6, <1>7, ConstantTypes


-----------------------------------------------------------------------------
(* The invariant of types, and of whose AUFTRAG a record names.            *)

Auftraege == [requirement : Requirements,
              state : {"sent", "refused", "live", "won", "lost", "cancelled"}]
Early == {"draft", "validated", "approved"}

\* The records of an attempt name AUFTRAGs of their own requirement, accepted
\* ones, and a success one that MOOSE evaluated so.
Owns(e, q) ==
    \A r \in Requirements :
        /\ e.missions[r].id # 0 =>
             /\ e.missions[r].id \in DOMAIN q /\ q[e.missions[r].id].requirement = r
             /\ q[e.missions[r].id].state \notin {"sent", "refused"}
        /\ e.missions[r].status \in {"absent", "pending"} => e.missions[r].id = 0
        /\ e.missions[r].status = "succeeded" =>
             e.missions[r].id # 0 /\ q[e.missions[r].id].state = "won"

\* A plan that is about to start is approved, its assessment stands and nobody
\* aborts it, and only execute submits.
Order ==
    /\ run.pc = "start" => /\ plan.status = "approved" /\ assessed /\ abort = None
                           /\ execution.attempt < MaxAttempts
    /\ run.pc = "sent" => auftraege # << >>
    /\ run.pc \in {"start", "phase", "revalidate", "submit", "sent"} => run.by = "execute"

TypeInv ==
    /\ TypeOK /\ Order
    /\ Owns(execution, auftraege)
    /\ saved # None => Owns(saved.execution, auftraege)

\* What MOOSE has got to keeps requirement and success of what there was, and
\* nothing that is over is live again.
Follows(q, n) ==
    /\ n \in Seq(Auftraege) /\ Len(n) <= MaxAuftraege /\ DOMAIN q \subseteq DOMAIN n
    /\ \A a \in DOMAIN q : /\ n[a].requirement = q[a].requirement
                           /\ q[a].state = "won" => n[a].state = "won"
                           /\ q[a].state # "sent" => n[a].state # "sent"
                           /\ q[a].state \notin {"sent", "refused"} =>
                                n[a].state \notin {"sent", "refused"}
                           /\ q[a].state \notin {"sent", "live"} => n[a].state # "live"

LEMMA FollowsOwned ==
  ASSUME NEW e, NEW q, NEW n, Owns(e, q), Follows(q, n)
  PROVE  Owns(e, n)
  BY DEF Owns, Follows

LEMMA FollowsSame ==
  ASSUME TypeOK
  PROVE  Follows(auftraege, auftraege)
  BY DEF TypeOK, Follows, Auftraege

\* What is recorded is what it was, or the attempt as it is now, with the plan
\* as it is or as the attempt was restored with.
Records ==
    \/ saved' = saved /\ lost' = lost
    \/ saved' = saved /\ lost' = lost + 1 /\ lost' \in 0 .. MaxLost
    \/ /\ saved' \in Snapshots /\ saved'.execution = execution' /\ lost' = lost
       /\ saved'.plan = plan' \/ (owned # None /\ saved'.plan = owned.plan)

LEMMA SaveRecords ==
  ASSUME TypeOK, NEW e \in Executions, NEW p \in Plans, NEW g \in Goals, Save(e, p, g)
  PROVE  \/ saved' = saved /\ lost' = lost
         \/ saved' = saved /\ lost' = lost + 1 /\ lost' \in 0 .. MaxLost
         \/ saved' \in Snapshots /\ saved'.execution = e /\ saved'.plan = p /\ lost' = lost
  BY ConstantTypes DEF TypeOK, Save, Snapshots

LEMMA PersistRecords ==
  ASSUME TypeOK, NEW e \in Executions, NEW p \in Plans, NEW g \in Goals, Persist(p, e, g)
  PROVE  \/ saved' = saved /\ lost' = lost
         \/ saved' = saved /\ lost' = lost + 1 /\ lost' \in 0 .. MaxLost
         \/ /\ saved' \in Snapshots /\ saved'.execution = e /\ lost' = lost
            /\ saved'.plan = p \/ (owned # None /\ saved'.plan = owned.plan)
<1>1. CASE owned = None
  BY <1>1, SaveRecords DEF Persist
<1>2. CASE owned # None
  <2>1. owned.plan \in Plans /\ owned.goal \in Goals
    BY <1>2 DEF TypeOK
  <2>. QED  BY <1>2, <2>1, SaveRecords DEF Persist
<1>. QED  BY <1>1, <1>2

LEMMA EmitRecords ==
  ASSUME TypeOK, NEW e \in Executions, NEW p \in Plans, Emit(p, e)
  PROVE  plan' = p /\ execution' = e /\ Records
<1>1. Persist(p, e, goal) /\ goal \in Goals
  BY DEF Emit, TypeOK
<1>. QED  BY <1>1, PersistRecords DEF Emit, Records

LEMMA SameRecords ==
  ASSUME UNCHANGED record
  PROVE  Records
  BY DEF record, Records

LEMMA WithMissionTyped ==
  ASSUME TypeOK, NEW r \in Requirements, NEW m \in Missions
  PROVE  /\ WithMission(r, m) \in Executions
         /\ WithMission(r, m).status = execution.status
         /\ WithMission(r, m).attempt = execution.attempt
         /\ WithMission(r, m).missions[r] = m
         /\ \A s \in Requirements \ {r} : WithMission(r, m).missions[s] = execution.missions[s]
  BY DEF TypeOK, WithMission, Executions

LEMMA WithPhaseTyped ==
  ASSUME TypeOK, NEW p \in 0 .. NumPhases, NEW status \in PhaseStatus
  PROVE  WithPhase(p, status) \in Plans /\ WithPhase(p, status).status = plan.status
<1>1. plan \in Plans /\ plan.phases \in [Phases -> PhaseStatus]
  BY DEF TypeOK, Plans
<1>2. [plan.phases EXCEPT ![p] = status] \in [Phases -> PhaseStatus]
  BY <1>1
<1>. QED  BY <1>1, <1>2 DEF WithPhase, Plans

LEMMA GoTyped ==
  ASSUME TypeOK,
         NEW pc \in {"idle", "start", "phase", "revalidate", "submit", "sent", "wait",
                     "confirmed", "cleanup", "skip", "resume", "block", "complete"}
  PROVE  [run EXCEPT !.pc = pc] \in Runs
  BY DEF TypeOK, Runs

LEMMA IdleTyped ==
  /\ Idle \in Runs /\ Idle.pc = "idle" /\ Idle.by = "execute"
  /\ [Idle EXCEPT !.pc = "start"] \in Runs /\ [Idle EXCEPT !.pc = "start"].pc = "start"
  /\ [Idle EXCEPT !.pc = "start"].by = "execute"
  /\ \A p \in 0 .. NumPhases,
        pc \in {"start", "phase", "revalidate", "submit", "sent", "wait", "confirmed",
                "cleanup", "skip", "resume", "block", "complete"} :
       /\ [Idle EXCEPT !.pc = pc, !.phase = p] \in Runs
       /\ [Idle EXCEPT !.pc = pc, !.phase = p].pc = pc
       /\ [Idle EXCEPT !.pc = pc, !.phase = p].by = "execute"
<1>1. 0 \in 0 .. NumPhases
  BY ConstantTypes
<1>. QED  BY <1>1 DEF Idle, Runs

LEMMA RevalidatingTyped ==
  \A p \in 0 .. NumPhases : LET next == [Idle EXCEPT !.pc = "revalidate", !.phase = p]
                            IN  next \in Runs /\ next.pc = "revalidate" /\ next.by = "execute"
BY DEF Idle, Runs

-----------------------------------------------------------------------------
(* Steps that keep to the attempt under way.                               *)

\* The status of a plan and that of its latest attempt say the same.
Agree(p, e) ==
    IF p.status \in Early THEN e.status \in {"none", "blocked"} ELSE e.status = p.status

\* Where the coroutine may still submit.
Submitting ==
    run.by = "execute" /\ run.pc \in {"phase", "revalidate", "submit", "sent", "wait", "confirmed"}

\* A step starts no attempt and tasks nothing, forgets no record and no id, and
\* leaves a cancelled plan so or completes it.  Only an abort cancels a plan, and
\* the statuses of plan and attempt change together.
Calm ==
    /\ execution'.attempt = execution.attempt
    /\ Records
    /\ DOMAIN auftraege' = DOMAIN auftraege
    /\ \A a \in DOMAIN auftraege : auftraege'[a].requirement = auftraege[a].requirement
    /\ Submitting' => Submitting /\ \A r \in Requirements :
         execution'.missions[r].status = "absent" => execution.missions[r].status = "absent"
    /\ plan.status = "cancelled" => plan'.status \in {"cancelled", "completed"}
    /\ Follows(auftraege, auftraege') /\ owned' = owned
    /\ \A r \in Requirements :
         execution.missions[r].id # 0 => execution'.missions[r].id = execution.missions[r].id
    /\ plan'.status = "completed" => plan.status = "completed" \/ run'.pc = "idle"
    /\ \/ UNCHANGED <<abort, doomed>> /\ (plan'.status = "cancelled" => plan.status = "cancelled")
       \/ Aborting
    /\ Agree(plan, execution) => Agree(plan', execution')
    /\ interruptions' \in Nat /\ interruptions <= interruptions'

\* A step that only records: the plan p and the attempt e.
LEMMA RecordTypes ==
  ASSUME TypeInv, OnlyRecords, NEW p \in Plans, NEW e \in Executions,
         plan' = p, execution' = e, Records, Owns(e, auftraege),
         run' \in Runs, run'.pc \notin {"start"}, run'.pc = "sent" => run.pc = "sent",
         run'.pc \in {"phase", "revalidate", "submit", "sent"} => run'.by = "execute",
         p.status \in {plan.status, "blocked", "completed"}
  PROVE  TypeInv'
<1>1. UNCHANGED <<action, required, goal, assessed, owned, abort, auftraege, doomed,
                  overlapped, interruptions>>
  BY DEF OnlyRecords, kind, history
<1>2. (saved' = None \/ saved' \in Snapshots) /\ lost' \in 0 .. MaxLost
  BY DEF Records, TypeInv, TypeOK
<1>3. TypeOK'
  BY <1>1, <1>2 DEF TypeInv, TypeOK
<1>4. Order'
  BY <1>1 DEF TypeInv, Order, Early
<1>5. Owns(execution', auftraege') /\ (saved' # None => Owns(saved'.execution, auftraege'))
  BY <1>1 DEF TypeInv, Records
<1>6. Owns(execution, auftraege)' /\ (saved # None => Owns(saved.execution, auftraege))'
  BY <1>5 DEF Owns
<1>. QED  BY <1>3, <1>4, <1>6 DEF TypeInv


LEMMA RecordStep ==
  ASSUME TypeInv, OnlyRecords, NEW p \in Plans, NEW e \in Executions,
         plan' = p, execution' = e, Records, Owns(e, auftraege),
         run' \in Runs, run'.pc # "start", run'.pc = "sent" => run.pc = "sent",
         run'.pc \in {"phase", "revalidate", "submit", "sent"} => run'.by = "execute",
         p.status \in {plan.status, "blocked", "completed"},
         plan.status = "cancelled" => p.status # "blocked",
         p.status = "completed" => plan.status = "completed" \/ run'.pc = "idle",
         \/ p.status = plan.status /\ e.status = execution.status
         \/ p.status = e.status /\ p.status \in {"blocked", "completed"},
         e.attempt = execution.attempt,
         \A r \in Requirements :
           execution.missions[r].id # 0 => e.missions[r].id = execution.missions[r].id,
         \/ ~Submitting'
         \/ Submitting /\ \A r \in Requirements :
              e.missions[r].status = "absent" => execution.missions[r].status = "absent"
  PROVE  TypeInv' /\ Calm
<1>1. TypeInv'
  BY RecordTypes
<1>2. UNCHANGED <<auftraege, owned, abort, doomed, interruptions>>
  BY DEF OnlyRecords, history
<1>3. Follows(auftraege, auftraege')
  BY <1>2, FollowsSame DEF TypeInv
<1>4. Agree(plan, execution) => Agree(p, e)
  BY DEF Agree, Early
<1>5. interruptions \in Nat
  BY DEF TypeInv, TypeOK
<1>6. Calm
  BY <1>2, <1>3, <1>4, <1>5 DEF Calm
<1>. QED  BY <1>1, <1>6

\* A step of the coroutine that does not touch plan and attempt.
LEMMA GoStep ==
  ASSUME TypeInv, OnlyRecords, UNCHANGED <<plan, execution>>, Records,
         run' \in Runs, run'.pc # "start", run'.pc = "sent" => run.pc = "sent",
         run'.pc \in {"phase", "revalidate", "submit", "sent"} => run'.by = "execute",
         Submitting' => Submitting
  PROVE  TypeInv' /\ Calm
<1>1. plan \in Plans /\ execution \in Executions /\ Owns(execution, auftraege)
  BY DEF TypeInv, TypeOK
<1>. QED  BY <1>1, RecordStep

\* ... or emits the attempt e.
LEMMA EmitStep ==
  ASSUME TypeInv, OnlyRecords, NEW p \in Plans, NEW e \in Executions, Emit(p, e),
         Owns(e, auftraege), e.attempt = execution.attempt,
         \A r \in Requirements :
           e.missions[r].status = "absent" => execution.missions[r].status = "absent",
         \A r \in Requirements :
           execution.missions[r].id # 0 => e.missions[r].id = execution.missions[r].id,
         \/ p.status = plan.status /\ e.status = execution.status
         \/ p.status = "completed" /\ e.status = "completed" /\ run'.pc = "idle",
         run' \in Runs, run'.pc # "start", run'.pc = "sent" => run.pc = "sent",
         run'.pc \in {"phase", "revalidate", "submit", "sent"} => run'.by = "execute",
         Submitting' => Submitting
  PROVE  TypeInv' /\ Calm
<1>1. plan' = p /\ execution' = e /\ Records
  BY EmitRecords DEF TypeInv
<1>. QED  BY <1>1, RecordStep

LEMMA BlockedTypes ==
  ASSUME TypeOK, NEW p \in 0 .. NumPhases, Blocked(p, execution)
  PROVE  /\ plan' \in Plans /\ execution' \in Executions /\ Records
         /\ execution'.attempt = execution.attempt /\ execution'.missions = execution.missions
         /\ plan'.status \in {plan.status, "blocked"}
         /\ plan.status = "cancelled" => plan'.status = "cancelled"
         /\ \/ plan'.status = plan.status /\ execution'.status = execution.status
            \/ plan'.status = "blocked" /\ execution'.status = "blocked"
<1>1. CASE "cancelled" \in {plan.status, execution.status}
  BY <1>1, SameRecords DEF Blocked, TypeOK
<1>2. CASE "cancelled" \notin {plan.status, execution.status}
  <2>. DEFINE b == [status |-> "blocked",
                    phases |-> IF p = 0 THEN plan.phases ELSE WithPhase(p, "blocked").phases]
              e == [execution EXCEPT !.status = "blocked", !.current = p]
  <2>1. b \in Plans /\ b.status = "blocked"
    <3>1. CASE p = 0
      BY <3>1 DEF TypeOK, Plans, PlanStatus
    <3>2. CASE p # 0
      BY <3>2, WithPhaseTyped DEF Plans, PlanStatus, PhaseStatus
    <3>. QED  BY <3>1, <3>2
  <2>2. /\ e \in Executions /\ e.attempt = execution.attempt /\ e.missions = execution.missions
        /\ e.status = "blocked"
    BY DEF TypeOK, Executions
  <2>3. Emit(b, e)
    BY <1>2 DEF Blocked
  <2>. HIDE DEF b, e
  <2>4. plan' = b /\ execution' = e /\ Records
    BY <2>1, <2>2, <2>3, EmitRecords
  <2>. QED  BY <1>2, <2>1, <2>2, <2>4
<1>. QED  BY <1>1, <1>2

LEMMA FailStep ==
  ASSUME TypeInv, NEW p \in 0 .. NumPhases, Fail(p)
  PROVE  TypeInv' /\ Calm
<1>1. Blocked(p, execution) /\ run' = Idle /\ OnlyRecords
  BY DEF Fail
<1>2. /\ plan' \in Plans /\ execution' \in Executions /\ Records
      /\ execution'.attempt = execution.attempt /\ execution'.missions = execution.missions
      /\ plan'.status \in {plan.status, "blocked"}
      /\ plan.status = "cancelled" => plan'.status = "cancelled"
      /\ \/ plan'.status = plan.status /\ execution'.status = execution.status
         \/ plan'.status = "blocked" /\ execution'.status = "blocked"
  BY <1>1, BlockedTypes DEF TypeInv
<1>3. Owns(execution', auftraege)
  <2>1. Owns(execution, auftraege)
    BY DEF TypeInv
  <2>. QED  BY <1>2, <2>1 DEF Owns
<1>4. run' \in Runs /\ run'.pc = "idle" /\ ~Submitting'
  BY <1>1, IdleTyped DEF Submitting
<1>. QED  BY <1>1, <1>2, <1>3, <1>4, RecordStep

\* The steps that end the coroutine with a failure.
LEMMA FailuresKeep ==
  ASSUME TypeInv,
         \/ RevalidationFails \/ CursorFails \/ Block \/ MonitoringFails \/ MissionsFailed
         \/ SecurityFails \/ EffectFails \/ DefenseFails \/ Review \/ Resume \/ DependencyFails
         \/ GoalMissed
         \/ BlockInterrupted
  PROVE  TypeInv' /\ Calm
<1>1. /\ NextPhase \in 0 .. NumPhases /\ CurrentPhase \in 0 .. NumPhases
      /\ LaterPhase \in 0 .. NumPhases /\ run.phase \in 0 .. NumPhases /\ 0 \in 0 .. NumPhases
  BY PhaseTypes, ConstantTypes DEF TypeInv
<1>2. Fail(run.phase) \/ Fail(NextPhase) \/ Fail(LaterPhase) \/ Fail(CurrentPhase) \/ Fail(0)
  BY DEF RevalidationFails, CursorFails, Block, MonitoringFails, MissionsFailed, SecurityFails,
         EffectFails, DefenseFails, Review, Resume, GoalMissed, DependencyFails, BlockInterrupted
<1>. QED  BY <1>1, <1>2, FailStep

\* The steps that only move the coroutine on.
LEMMA MovesKeep ==
  ASSUME TypeInv, AllSubmitted \/ LeaveToMonitor \/ ConfirmationRaises \/ CleanUp
  PROVE  TypeInv' /\ Calm
<1>1. OnlyRecords /\ UNCHANGED <<plan, execution>> /\ Records
  BY SameRecords DEF AllSubmitted, LeaveToMonitor, ConfirmationRaises, CleanUp
<1>2. CASE LeaveToMonitor \/ ConfirmationRaises
  <2>1. run' = Idle
    BY <1>2 DEF LeaveToMonitor, ConfirmationRaises
  <2>. QED  BY <1>1, <2>1, IdleTyped, GoStep DEF Submitting
<1>3. CASE AllSubmitted
  <2>1. /\ run' = [run EXCEPT !.pc = "wait", !.waiting = OfPhase(run.phase) \cap Required]
        /\ run.pc = "submit" /\ run \in Runs
    BY <1>3 DEF AllSubmitted, TypeInv, TypeOK
  <2>2. OfPhase(run.phase) \cap Required \in SUBSET Requirements
    BY DEF OfPhase
  <2>3. run' \in Runs /\ run'.pc = "wait" /\ run'.by = run.by
    BY <2>1, <2>2 DEF Runs
  <2>4. Submitting' => Submitting
    BY <2>1, <2>3 DEF Submitting
  <2>. QED  BY <1>1, <2>3, <2>4, GoStep
<1>4. CASE CleanUp
  <2>. DEFINE w == {r \in Recorded : Known(r) /\ Mission(r).status = "running"}
  <2>1. run' = [run EXCEPT !.pc = "cleanup", !.waiting = w] /\ run \in Runs
    BY <1>4 DEF CleanUp, TypeInv, TypeOK
  <2>2. w \in SUBSET Requirements
    BY DEF Recorded
  <2>. HIDE DEF w
  <2>3. run' \in Runs /\ run'.pc = "cleanup"
    BY <2>1, <2>2 DEF Runs
  <2>. QED  BY <1>1, <2>3, GoStep DEF Submitting
<1>. QED  BY <1>2, <1>3, <1>4


\* A step that emits one mission, of an AUFTRAG of its own.
LEMMA MissionStep ==
  ASSUME TypeInv, OnlyRecords, NEW r \in Requirements,
         NEW status \in MissionStatus \ {"absent", "pending"}, NEW id \in 0 .. MaxAuftraege,
         Mission(r).id # 0 => id = Mission(r).id,
         id # 0 => /\ id \in DOMAIN auftraege /\ auftraege[id].requirement = r
                   /\ auftraege[id].state \notin {"sent", "refused"},
         status = "succeeded" => id # 0 /\ auftraege[id].state = "won",
         EmitMission(r, status, id),
         run' \in Runs, run'.pc # "start", run'.pc = "sent" => run.pc = "sent",
         run'.pc \in {"phase", "revalidate", "submit", "sent"} => run'.by = "execute",
         Submitting' => Submitting
  PROVE  TypeInv' /\ Calm
<1>. DEFINE m == [status |-> status, id |-> id]
            e == WithMission(r, m)
<1>1. m \in Missions /\ m.status = status /\ m.id = id
  BY DEF Missions
<1>2. Emit(plan, e)
  BY DEF EmitMission
<1>. HIDE DEF m
<1>3. /\ e \in Executions /\ e.attempt = execution.attempt /\ e.missions[r] = m
      /\ e.status = execution.status
      /\ \A s \in Requirements \ {r} : e.missions[s] = execution.missions[s]
  BY <1>1, WithMissionTyped DEF TypeInv
<1>. HIDE DEF e
<1>4. Owns(e, auftraege)
  <2>1. Owns(execution, auftraege)
    BY DEF TypeInv
  <2>. QED  BY <1>1, <1>3, <2>1 DEF Owns
<1>5. \A s \in Requirements :
        e.missions[s].status = "absent" => execution.missions[s].status = "absent"
  BY <1>1, <1>3
<1>6. plan \in Plans
  BY DEF TypeInv, TypeOK
<1>7. \A s \in Requirements :
        execution.missions[s].id # 0 => e.missions[s].id = execution.missions[s].id
  BY <1>1, <1>3 DEF Mission
<1>. QED  BY <1>2, <1>3, <1>4, <1>5, <1>6, <1>7, EmitStep

LEMMA MissionTypes ==
  ASSUME TypeInv, NEW r \in Requirements
  PROVE  /\ Mission(r).id \in 0 .. MaxAuftraege /\ Mission(r).status \in MissionStatus
         /\ Mission(r).id # 0 => /\ Mission(r).id \in DOMAIN auftraege
                                 /\ auftraege[Mission(r).id].requirement = r
                                 /\ auftraege[Mission(r).id].state \notin {"sent", "refused"}
         /\ Mission(r).status \in {"absent", "pending"} => Mission(r).id = 0
         /\ Mission(r).status = "succeeded" =>
              Mission(r).id # 0 /\ auftraege[Mission(r).id].state = "won"
  BY DEF TypeInv, TypeOK, Owns, Mission, Executions, Missions

LEMMA NextUnrecorded ==
  ASSUME NEW r \in Requirements, r = NextRequirement
  PROVE  Mission(r).status = "absent"
<1>1. OfPhase(run.phase) \ Recorded \in SUBSET Requirements
  BY DEF OfPhase
<1>2. r \in Requirements \ Recorded
  BY <1>1, EarliestRequirement, ConstantTypes DEF NextRequirement, OfPhase
<1>. QED  BY <1>2 DEF Recorded

LEMMA SubmissionsKeep ==
  ASSUME TypeInv, NEW r \in Requirements, Skip(r) \/ Submitted(r) \/ SubmissionFails(r)
  PROVE  TypeInv' /\ Calm
<1>1. OnlyRecords /\ run \in Runs /\ (run.pc = "submit" \/ run.pc = "sent") /\ run.by = "execute"
  BY DEF Skip, Submitted, SubmissionFails, TypeInv, TypeOK, Order
<1>2. 0 \in 0 .. MaxAuftraege
  BY ConstantTypes
<1>3. Mission(r).id = 0
  BY NextUnrecorded, MissionTypes DEF Skip, Submitted, SubmissionFails
<1>4. CASE Skip(r)
  BY <1>1, <1>2, <1>4, <1>3, MissionStep DEF Skip, MissionStatus, Submitting
<1>5. CASE Submitted(r)
  <2>1. /\ Len(auftraege) \in 0 .. MaxAuftraege /\ Len(auftraege) \in DOMAIN auftraege
        /\ auftraege[Len(auftraege)].requirement = r
        /\ auftraege[Len(auftraege)].state \notin {"sent", "refused"}
    BY <1>5, ConstantTypes DEF Submitted, Submission, TypeInv, TypeOK, Order
  <2>2. run' \in Runs /\ run'.pc = "submit" /\ run'.by = run.by
    BY <1>1, <1>5 DEF Submitted, Go, Runs
  <2>. QED  BY <1>1, <1>5, <1>3, <2>1, <2>2, MissionStep DEF Submitted, MissionStatus, Submitting
<1>6. CASE SubmissionFails(r)
  <2>1. run' \in Runs /\ run'.pc \in {"block", "submit"} /\ run'.by = run.by
    BY <1>1, <1>6 DEF SubmissionFails, Go, Runs
  <2>. QED  BY <1>1, <1>2, <1>6, <1>3, <2>1, MissionStep DEF SubmissionFails, MissionStatus, Submitting
<1>. QED  BY <1>4, <1>5, <1>6

LEMMA HearKeeps ==
  ASSUME TypeInv, NEW r \in Requirements, NEW status \in {"succeeded", "failed", "running"},
         NEW over \in BOOLEAN, Hear(r, status, over),
         status = "succeeded" => Mission(r).id # 0 /\ auftraege[Mission(r).id].state = "won"
  PROVE  TypeInv' /\ Calm
<1>1. OnlyRecords /\ run \in Runs /\ run.pc = "wait" /\ EmitMission(r, status, Mission(r).id)
  BY DEF Hear, TypeInv, TypeOK
<1>2. run' = [run EXCEPT !.waiting = IF over THEN run.waiting \ {r} ELSE run.waiting,
                         !.failed = run.failed \/ status = "failed"]
  BY DEF Hear
<1>3. run.waiting \ {r} \in SUBSET Requirements /\ (run.failed \/ status = "failed") \in BOOLEAN
  BY <1>1 DEF Runs
<1>4. run' \in Runs /\ run'.pc = "wait" /\ run'.by = run.by
  BY <1>1, <1>2, <1>3 DEF Runs
<1>. QED  BY <1>1, <1>4, MissionTypes, MissionStep DEF MissionStatus, Submitting

LEMMA WaitsKeep ==
  ASSUME TypeInv, NEW r \in Requirements,
         HearEvaluated(r) \/ HearStatus(r) \/ HearEstablished(r) \/ WaitTimesOut(r)
  PROVE  TypeInv' /\ Calm
<1>1. CASE Known(r) /\ Auftrag(r) = "won" /\ Hear(r, "succeeded", TRUE)
  BY <1>1, HearKeeps DEF Known, Auftrag
<1>2. CASE \/ Hear(r, "failed", TRUE) \/ Hear(r, "running", FALSE) \/ Hear(r, "running", TRUE)
  BY <1>2, HearKeeps
<1>. QED  BY <1>1, <1>2 DEF HearEvaluated, HearStatus, HearEstablished, WaitTimesOut

\* The steps from phase to phase.
LEMMA PhasesKeep ==
  ASSUME TypeInv, EnterPhase \/ StartPhase \/ CompletePhase \/ SkipRest \/ Complete
  PROVE  TypeInv' /\ Calm
<1>. plan \in Plans /\ execution \in Executions /\ run \in Runs /\ Owns(execution, auftraege)
  BY DEF TypeInv, TypeOK
<1>. OnlyRecords
  BY DEF EnterPhase, StartPhase, CompletePhase, SkipRest, Complete
<1>1. CASE EnterPhase
  <2>. DEFINE e == [execution EXCEPT !.current = LaterPhase]
  <2>1. LaterPhase \in 0 .. NumPhases
    BY PhaseTypes DEF TypeInv
  <2>2. /\ e \in Executions /\ e.attempt = execution.attempt /\ e.missions = execution.missions
        /\ e.status = execution.status
    BY <2>1 DEF Executions
  <2>3. Emit(plan, e)
    BY <1>1 DEF EnterPhase
  <2>4. run' \in Runs /\ run'.pc = "revalidate" /\ run'.by = "execute"
    <3>. DEFINE next == [Idle EXCEPT !.pc = "revalidate", !.phase = LaterPhase]
    <3>1. next \in Runs /\ next.pc = "revalidate" /\ next.by = "execute"
      BY <2>1, RevalidatingTyped, Zenon
    <3>2. run' = next
      BY <1>1 DEF EnterPhase
    <3>. HIDE DEF next
    <3>. QED  BY <3>1, <3>2
  <2>5. Submitting
    BY <1>1 DEF EnterPhase, Submitting, TypeInv, Order
  <2>. HIDE DEF e
  <2>6. Owns(e, auftraege)
    BY <2>2 DEF Owns
  <2>. QED  BY <2>2, <2>3, <2>4, <2>5, <2>6, EmitStep
<1>2. CASE StartPhase
  <2>1. WithPhase(run.phase, "active") \in Plans /\ WithPhase(run.phase, "active").status = plan.status
    BY WithPhaseTyped, PhaseTypes DEF TypeInv, PhaseStatus
  <2>2. run' \in Runs /\ run'.pc = "submit" /\ run'.by = run.by /\ run.by = "execute" /\ run.pc = "revalidate"
    BY <1>2 DEF StartPhase, Go, Runs, TypeInv, Order
  <2>. QED  BY <1>2, <2>1, <2>2, EmitStep DEF StartPhase, Submitting
<1>3. CASE CompletePhase
  <2>. DEFINE pc == IF run.pc = "cleanup" THEN "skip"
                    ELSE IF run.by = "execute" THEN "phase" ELSE "resume"
  <2>1. WithPhase(run.phase, "completed") \in Plans
        /\ WithPhase(run.phase, "completed").status = plan.status
    BY WithPhaseTyped, PhaseTypes DEF TypeInv, PhaseStatus
  <2>2. run' = [run EXCEPT !.pc = pc] /\ Emit(WithPhase(run.phase, "completed"), execution)
    BY <1>3 DEF CompletePhase, Go
  <2>3. run.pc \in {"wait", "confirmed", "cleanup"}
    BY <1>3 DEF CompletePhase, Confirmable, Settled, WaitOver, CleanedUp
  <2>4. run' \in Runs /\ run'.pc = pc /\ run'.by = run.by
    BY <2>2 DEF Runs
  <2>5. Submitting' => Submitting
    BY <2>3, <2>4 DEF Submitting
  <2>. QED  BY <2>1, <2>2, <2>4, <2>5, EmitStep
<1>4. CASE SkipRest
  <2>. DEFINE f == [p \in Phases |->
                      IF plan.phases[p] = "pending"
                         \/ (run.pc = "revalidate" /\ plan.phases[p] # "completed")
                      THEN "skipped" ELSE plan.phases[p]]
              q == [plan EXCEPT !.phases = f]
  <2>1. f \in [Phases -> PhaseStatus]
    BY DEF Plans, PhaseStatus
  <2>2. Emit(q, execution)
    BY <1>4 DEF SkipRest
  <2>. HIDE DEF f
  <2>3. q \in Plans /\ q.status = plan.status
    BY <2>1 DEF Plans
  <2>4. run' \in Runs /\ run'.pc = "complete"
    BY <1>4 DEF SkipRest, Go, Runs
  <2>. HIDE DEF q
  <2>. QED  BY <2>2, <2>3, <2>4, EmitStep DEF Submitting
<1>5. CASE Complete
  <2>. DEFINE q == [plan EXCEPT !.status = "completed"]
              e == [execution EXCEPT !.status = "completed", !.current = 0]
  <2>1. q \in Plans /\ q.status = "completed"
    BY DEF Plans, PlanStatus
  <2>0. 0 \in 0 .. NumPhases
    BY ConstantTypes
  <2>2. /\ e \in Executions /\ e.attempt = execution.attempt /\ e.missions = execution.missions
        /\ e.status = "completed"
    BY <2>0 DEF Executions
  <2>3. Emit(q, e) /\ run' = Idle
    BY <1>5 DEF Complete
  <2>. HIDE DEF q, e
  <2>4. Owns(e, auftraege)
    BY <2>2 DEF Owns
  <2>5. run' \in Runs /\ run'.pc = "idle" /\ ~Submitting'
    BY <2>3, IdleTyped DEF Submitting
  <2>. QED  BY <2>1, <2>2, <2>3, <2>4, <2>5, EmitStep
<1>. QED  BY <1>1, <1>2, <1>3, <1>4, <1>5


LEMMA EffectKeeps ==
  ASSUME TypeInv, ConfirmEffect
  PROVE  TypeInv' /\ Calm
<1>1. plan \in Plans /\ execution \in Executions /\ run \in Runs /\ "achieved" \in Goals
  BY DEF TypeInv, TypeOK, Goals
<1>2. /\ UNCHANGED <<action, required, plan, execution, assessed, owned, abort, auftraege,
                     doomed, overlapped, interruptions>>
      /\ goal' = "achieved" /\ Persist(plan, execution, "achieved")
      /\ run' = [run EXCEPT !.pc = "confirmed"]
      /\ run.pc = "wait"
  BY DEF ConfirmEffect, Confirmable, Settled, WaitOver, Go, kind, history
<1>3. Records
  BY <1>1, <1>2, PersistRecords DEF TypeInv, Records
<1>4. run' \in Runs /\ run'.pc = "confirmed" /\ run'.by = run.by
  BY <1>1, <1>2 DEF Runs
<1>5. (saved' = None \/ saved' \in Snapshots) /\ lost' \in 0 .. MaxLost
  BY <1>3 DEF Records, TypeInv, TypeOK
<1>6. TypeOK'
  BY <1>1, <1>2, <1>4, <1>5 DEF TypeInv, TypeOK
<1>7. Order'
  BY <1>2, <1>4 DEF TypeInv, Order, Early
<1>8. Owns(execution', auftraege') /\ (saved' # None => Owns(saved'.execution, auftraege'))
  BY <1>2, <1>3 DEF TypeInv, Records
<1>9. Owns(execution, auftraege)' /\ (saved # None => Owns(saved.execution, auftraege))'
  BY <1>8 DEF Owns
<1>10. Calm
  <2>1. Follows(auftraege, auftraege')
    BY <1>2, FollowsSame DEF TypeInv
  <2>2. interruptions \in Nat
    BY DEF TypeInv, TypeOK
  <2>. QED  BY <1>2, <1>3, <1>4, <2>1, <2>2 DEF Calm, Submitting
<1>. QED  BY <1>6, <1>7, <1>9, <1>10 DEF TypeInv

-----------------------------------------------------------------------------
(* Cancelling missions.                                                    *)

LEMMA UpdateTyped ==
  ASSUME NEW S, NEW q \in Seq(S), NEW a \in DOMAIN q, NEW x \in S
  PROVE  /\ [q EXCEPT ![a] = x] \in Seq(S)
         /\ Len([q EXCEPT ![a] = x]) = Len(q)
         /\ DOMAIN [q EXCEPT ![a] = x] = DOMAIN q
  OBVIOUS

LEMMA UpdateOutside ==
  ASSUME NEW S, NEW q \in Seq(S), NEW a, a \notin DOMAIN q, NEW x
  PROVE  [q EXCEPT ![a] = x] = q
<1>1. q \in [1 .. Len(q) -> S] /\ DOMAIN q = 1 .. Len(q)
  OBVIOUS
<1>2. \A i \in 1 .. Len(q) : [q EXCEPT ![a] = x][i] = q[i]
  BY <1>1
<1>3. [q EXCEPT ![a] = x] \in [1 .. Len(q) -> S]
  BY <1>1
<1>. QED  BY <1>1, <1>2, <1>3

LEMMA StateTyped ==
  ASSUME NEW m \in Auftraege,
         NEW s \in {"sent", "refused", "live", "won", "lost", "cancelled"}
  PROVE  /\ [m EXCEPT !.state = s] \in Auftraege
         /\ [m EXCEPT !.state = s].requirement = m.requirement
         /\ [m EXCEPT !.state = s].state = s
  BY DEF Auftraege

LEMMA CanceledFollows ==
  ASSUME TypeOK, NEW a \in Nat
  PROVE  /\ Follows(auftraege, Canceled(a)) /\ DOMAIN Canceled(a) = DOMAIN auftraege
         /\ a \in DOMAIN auftraege => Canceled(a)[a].state # "live"
<1>1. auftraege \in Seq(Auftraege) /\ Len(auftraege) <= MaxAuftraege
  BY DEF TypeOK, Auftraege
<1>2. CASE auftraege[a].state = "live" /\ a \in DOMAIN auftraege
  <2>. DEFINE x == [auftraege[a] EXCEPT !.state = "cancelled"]
              n == [auftraege EXCEPT ![a] = x]
  <2>1. Canceled(a) = n
    BY <1>2 DEF Canceled
  <2>2. x \in Auftraege /\ x.requirement = auftraege[a].requirement /\ x.state = "cancelled"
    <3>1. auftraege[a] \in Auftraege
      BY <1>1, <1>2
    <3>. QED  BY <3>1, StateTyped
  <2>. HIDE DEF x
  <2>3. n \in Seq(Auftraege) /\ Len(n) = Len(auftraege) /\ DOMAIN n = DOMAIN auftraege
    BY <1>1, <1>2, <2>2, UpdateTyped
  <2>4. n[a] = x /\ \A b \in DOMAIN auftraege : b # a => n[b] = auftraege[b]
    BY <1>1, <1>2
  <2>. HIDE DEF n
  <2>. QED  BY <1>1, <1>2, <2>1, <2>2, <2>3, <2>4 DEF Follows
<1>3. CASE ~(auftraege[a].state = "live" /\ a \in DOMAIN auftraege)
  <2>1. Canceled(a) = auftraege
    <3>1. CASE a \notin DOMAIN auftraege
      <4>1. [auftraege EXCEPT ![a].state = "cancelled"] = auftraege
        BY <1>1, <3>1, UpdateOutside
      <4>. QED  BY <4>1 DEF Canceled
    <3>2. CASE auftraege[a].state # "live"
      BY <3>2 DEF Canceled
    <3>. QED  BY <1>3, <3>1, <3>2
  <2>. QED  BY <1>3, <2>1, FollowsSame
<1>. QED  BY <1>2, <1>3

\* What a cancelling step leaves of plan, attempt and record.
LEMMA CancelKeeps ==
  ASSUME TypeInv, NEW r \in Requirements, CancelDone(r) \/ CancelFails(r)
  PROVE  /\ Follows(auftraege, auftraege') /\ DOMAIN auftraege' = DOMAIN auftraege
         /\ plan' = plan /\ execution' \in Executions
         /\ execution'.attempt = execution.attempt /\ execution'.status = execution.status
         /\ Records /\ Owns(execution', auftraege')
         /\ \A s \in Requirements :
              /\ execution'.missions[s].status = "absent" => execution.missions[s].status = "absent"
              /\ execution'.missions[s].id = execution.missions[s].id
<1>. plan \in Plans /\ execution \in Executions /\ TypeOK /\ Owns(execution, auftraege)
  BY DEF TypeInv, TypeOK
<1>1. Follows(auftraege, auftraege') /\ DOMAIN auftraege' = DOMAIN auftraege
  <2>1. Mission(r).id \in Nat
    BY MissionTypes, ConstantTypes
  <2>2. auftraege' = auftraege \/ auftraege' = Canceled(Mission(r).id)
    BY DEF CancelDone, CancelFails
  <2>. QED  BY <2>1, <2>2, CanceledFollows, FollowsSame
<1>2. CASE CancelFails(r)
  <2>1. plan' = plan /\ execution' = execution /\ Records
    BY <1>2, EmitRecords DEF CancelFails
  <2>2. Owns(execution, auftraege')
    BY <1>1, FollowsOwned
  <2>. QED  BY <1>1, <2>1, <2>2
<1>3. CASE CancelDone(r)
  <2>. DEFINE m == [status |-> "cancelled", id |-> Mission(r).id]
              e == WithMission(r, m)
  <2>1. m \in Missions /\ m.status = "cancelled" /\ m.id = execution.missions[r].id
    BY MissionTypes DEF Missions, MissionStatus, Mission
  <2>2. Emit(plan, e)
    BY <1>3 DEF CancelDone, EmitMission
  <2>. HIDE DEF m
  <2>3. /\ e \in Executions /\ e.attempt = execution.attempt /\ e.missions[r] = m
        /\ e.status = execution.status
        /\ \A s \in Requirements \ {r} : e.missions[s] = execution.missions[s]
    BY <2>1, WithMissionTyped
  <2>. HIDE DEF e
  <2>4. plan' = plan /\ execution' = e /\ Records
    BY <2>2, <2>3, EmitRecords
  <2>5. Owns(e, auftraege)
    BY <2>1, <2>3 DEF Owns
  <2>6. Owns(e, auftraege')
    BY <1>1, <2>5, FollowsOwned
  <2>. QED  BY <1>1, <2>1, <2>3, <2>4, <2>6
<1>. QED  BY <1>2, <1>3

\* A step beside which MOOSE's AUFTRAGs follow on, abort and run as they come.
LEMMA FollowTypes ==
  ASSUME TypeInv, UNCHANGED kind, assessed' \in BOOLEAN, goal' \in Goals,
         owned' = None \/ owned' \in [plan : Plans, goal : Goals],
         Follows(auftraege, auftraege'),
         plan' \in Plans, execution' \in Executions, Records, Owns(execution', auftraege'),
         run' \in Runs, abort' = None \/ abort' \in Aborts,
         doomed' \subseteq DOMAIN auftraege', overlapped' \in BOOLEAN,
         interruptions' \in 0 .. MaxInterruptions,
         Order'
  PROVE  TypeInv'
<1>1. auftraege' \in Seq(Auftraege) /\ Len(auftraege') <= MaxAuftraege
  BY DEF Follows
<1>2. (saved' = None \/ saved' \in Snapshots) /\ lost' \in 0 .. MaxLost
  BY DEF Records, TypeInv, TypeOK
<1>3. TypeOK'
  BY <1>1, <1>2 DEF TypeInv, TypeOK, kind, Auftraege
<1>4. saved' # None => Owns(saved'.execution, auftraege')
  <2>1. saved # None => Owns(saved.execution, auftraege')
    BY FollowsOwned DEF TypeInv
  <2>2. CASE saved' = saved
    BY <2>1, <2>2
  <2>3. CASE saved' \in Snapshots /\ saved'.execution = execution'
    BY <2>3
  <2>. QED  BY <2>2, <2>3 DEF Records
<1>5. Owns(execution, auftraege)' /\ (saved # None => Owns(saved.execution, auftraege))'
  BY <1>4 DEF Owns
<1>. QED  BY <1>3, <1>5 DEF TypeInv

\* ... and that is calm.
LEMMA FollowStep ==
  ASSUME TypeInv, UNCHANGED <<kind, assessed, owned>>, goal' \in Goals,
         Follows(auftraege, auftraege'), DOMAIN auftraege' = DOMAIN auftraege,
         plan' \in Plans, execution' \in Executions,
         execution'.attempt = execution.attempt, Records, Owns(execution', auftraege'),
         run' \in Runs, abort' = None \/ abort' \in Aborts,
         doomed' \subseteq DOMAIN auftraege, overlapped' \in BOOLEAN,
         interruptions' \in 0 .. MaxInterruptions,
         Order',
         plan.status = "cancelled" => plan'.status \in {"cancelled", "completed"},
         \A r \in Requirements :
           execution.missions[r].id # 0 => execution'.missions[r].id = execution.missions[r].id,
         plan'.status = "completed" => plan.status = "completed",
         interruptions <= interruptions',
         \/ plan'.status = plan.status /\ execution'.status = execution.status
         \/ plan'.status = execution'.status /\ plan'.status \in {"blocked", "cancelled"},
         \/ UNCHANGED <<abort, doomed>> /\ (plan'.status = "cancelled" => plan.status = "cancelled")
         \/ Aborting,
         \/ ~Submitting'
         \/ Submitting /\ \A r \in Requirements :
              execution'.missions[r].status = "absent" => execution.missions[r].status = "absent"
  PROVE  TypeInv' /\ Calm
<1>1. assessed' \in BOOLEAN /\ (owned' = None \/ owned' \in [plan : Plans, goal : Goals])
  BY DEF TypeInv, TypeOK
<1>2. TypeInv'
  BY <1>1, FollowTypes
<1>3. Agree(plan, execution) => Agree(plan', execution')
  BY DEF Agree, Early
<1>4. interruptions' \in Nat
  BY ConstantTypes
<1>5. Calm
  BY <1>3, <1>4 DEF Calm, Follows
<1>. QED  BY <1>2, <1>5

LEMMA CleanUpKeeps ==
  ASSUME TypeInv, NEW r \in Requirements, CleanUpMission(r)
  PROVE  TypeInv' /\ Calm
<1>1. CancelDone(r) \/ CancelFails(r)
  BY DEF CleanUpMission
<1>2. /\ run.pc = "cleanup" /\ run' = [run EXCEPT !.waiting = run.waiting \ {r}]
      /\ UNCHANGED <<kind, goal, assessed, owned, abort, doomed, overlapped, interruptions>>
  BY DEF CleanUpMission, history
<1>3. run \in Runs /\ goal \in Goals /\ plan \in Plans
      /\ (abort = None \/ abort \in Aborts) /\ doomed \subseteq DOMAIN auftraege
      /\ overlapped \in BOOLEAN /\ interruptions \in 0 .. MaxInterruptions
  BY DEF TypeInv, TypeOK
<1>4. run.waiting \ {r} \in SUBSET Requirements
  BY <1>3 DEF Runs
<1>5. run' \in Runs /\ run'.pc = "cleanup" /\ ~Submitting'
  BY <1>2, <1>3, <1>4 DEF Runs, Submitting
<1>6. plan' = plan
  BY <1>1, CancelKeeps
<1>7. Order'
  BY <1>2, <1>5, <1>6 DEF TypeInv, Order, Early
<1>. QED  BY <1>1, <1>2, <1>3, <1>5, <1>6, <1>7, CancelKeeps, FollowStep

LEMMA AbortsKeep ==
  ASSUME TypeInv, Aborting
  PROVE  TypeInv' /\ Calm
<1>. /\ plan \in Plans /\ execution \in Executions /\ run \in Runs /\ goal \in Goals
     /\ Owns(execution, auftraege) /\ TypeOK
     /\ (abort = None \/ abort \in Aborts) /\ doomed \subseteq DOMAIN auftraege
     /\ overlapped \in BOOLEAN /\ interruptions \in 0 .. MaxInterruptions
     /\ Follows(auftraege, auftraege)
  BY FollowsSame DEF TypeInv, TypeOK
<1>0. CurrentPhase \in 0 .. NumPhases /\ 0 \in 0 .. NumPhases
  BY PhaseTypes, ConstantTypes
<1>1. ASSUME NEW phase \in 0 .. NumPhases, Abort(phase)
      PROVE  TypeInv' /\ Calm
  <2>. DEFINE left == IF phase = 0 THEN Recorded ELSE Recorded \cap OfPhase(phase)
  <2>1. /\ UNCHANGED <<kind, goal, plan, execution, assessed, owned, run, record, auftraege,
                       interruptions>>
        /\ abort' = [left |-> left, phase |-> phase, failed |-> FALSE]
        /\ doomed' = {Mission(r).id : r \in {q \in left : Known(q)}}
        /\ overlapped' = (overlapped \/ run.pc # "idle")
        /\ plan.status \in Working
    BY <1>1 DEF Abort
  <2>2. left \in SUBSET Requirements
    BY DEF Recorded
  <2>. HIDE DEF left
  <2>3. abort' \in Aborts /\ overlapped' \in BOOLEAN
    BY <2>1, <2>2 DEF Aborts
  <2>4. doomed' \subseteq DOMAIN auftraege
    BY <2>1, <2>2, MissionTypes DEF Known
  <2>5. Order'
    BY <2>1 DEF TypeInv, Order, Early, Working
  <2>6. Records
    BY <2>1, SameRecords
  <2>. QED  BY <2>1, <2>3, <2>4, <2>5, <2>6, FollowStep DEF Submitting
<1>2. ASSUME NEW r \in Requirements, AbortMission(r)
      PROVE  TypeInv' /\ Calm
  <2>1. CancelDone(r) \/ CancelFails(r)
    BY <1>2 DEF AbortMission
  <2>2. PICK failed \in BOOLEAN :
          abort' = [abort EXCEPT !.left = {q \in @ : q > r}, !.failed = @ \/ failed]
    BY <1>2 DEF AbortMission
  <2>3. /\ UNCHANGED <<kind, goal, assessed, owned, run, overlapped, interruptions, doomed>>
        /\ abort # None
    BY <1>2 DEF AbortMission, OnlyAborts
  <2>4. {q \in abort.left : q > r} \in SUBSET Requirements
        /\ (abort.failed \/ failed) \in BOOLEAN
    BY <2>3 DEF Aborts
  <2>5. abort' \in Aborts
    BY <2>2, <2>3, <2>4 DEF Aborts
  <2>6. plan' = plan
    BY <2>1, CancelKeeps
  <2>7. Order'
    <3>1. auftraege # << >> => auftraege' # << >>
      BY <2>1, CancelKeeps DEF Follows
    <3>2. execution'.attempt = execution.attempt
      BY <2>1, CancelKeeps
    <3>. QED  BY <2>3, <2>6, <3>1, <3>2 DEF TypeInv, Order, Early
  <2>. QED  BY <2>1, <2>3, <2>5, <2>6, <2>7, CancelKeeps, FollowStep DEF Submitting
<1>3. CASE AbortFails
  <2>. DEFINE p == IF abort.phase # 0 THEN abort.phase ELSE CurrentPhase
  <2>1. p \in 0 .. NumPhases
    BY <1>0, <1>3 DEF AbortFails, Aborts
  <2>2. /\ UNCHANGED <<kind, goal, assessed, owned, run, overlapped, interruptions, auftraege>>
        /\ abort' = None /\ doomed' = {} /\ abort # None /\ Blocked(p, execution)
    BY <1>3 DEF AbortFails, OnlyAborts
  <2>. HIDE DEF p
  <2>3. /\ plan' \in Plans /\ execution' \in Executions /\ Records
        /\ execution'.attempt = execution.attempt /\ execution'.missions = execution.missions
        /\ plan'.status \in {plan.status, "blocked"}
        /\ plan.status = "cancelled" => plan'.status = "cancelled"
        /\ \/ plan'.status = plan.status /\ execution'.status = execution.status
           \/ plan'.status = "blocked" /\ execution'.status = "blocked"
    BY <2>1, <2>2, BlockedTypes
  <2>4. Owns(execution', auftraege')
    BY <2>2, <2>3 DEF Owns
  <2>5. Order'
    BY <2>2, <2>3 DEF TypeInv, Order, Early
  <2>. QED  BY <2>2, <2>3, <2>4, <2>5, FollowStep DEF Submitting
<1>4. CASE AbortSucceeds
  <2>. DEFINE f == [p \in Phases |->
                     CASE plan.phases[p] = "completed"             -> "completed"
                       [] plan.phases[p] \in {"active", "blocked"} -> "cancelled"
                       [] OTHER                                    -> "skipped"]
              p == [status |-> "cancelled", phases |-> f]
              e == [execution EXCEPT !.status = "cancelled", !.current = 0]
  <2>1. /\ UNCHANGED <<kind, goal, assessed, owned, run, overlapped, interruptions, auftraege,
                       doomed>>
        /\ abort' = None /\ abort # None /\ Emit(p, e)
    BY <1>4 DEF AbortSucceeds, OnlyAborts
  <2>2. f \in [Phases -> PhaseStatus]
    <3>1. \A s \in Phases : f[s] \in {"completed", "cancelled", "skipped"}
      OBVIOUS
    <3>. QED  BY <3>1 DEF PhaseStatus
  <2>. HIDE DEF f
  <2>3. p \in Plans /\ p.status = "cancelled"
    BY <2>2 DEF Plans, PlanStatus
  <2>4. /\ e \in Executions /\ e.attempt = execution.attempt /\ e.missions = execution.missions
        /\ e.status = "cancelled"
    BY <1>0 DEF Executions
  <2>. HIDE DEF p, e
  <2>5. plan' = p /\ execution' = e /\ Records
    BY <2>1, <2>3, <2>4, EmitRecords
  <2>6. Owns(execution', auftraege')
    BY <2>1, <2>4, <2>5 DEF Owns
  <2>7. Order'
    BY <2>1, <2>3, <2>5 DEF TypeInv, Order, Early
  <2>. QED  BY <2>1, <2>3, <2>4, <2>5, <2>6, <2>7, FollowStep DEF Submitting
<1>. QED  BY <1>0, <1>1, <1>2, <1>3, <1>4 DEF Aborting

-----------------------------------------------------------------------------
(* MOOSE, the goal, the registry and the start of execute.                 *)

LEMMA MooseKeeps ==
  ASSUME TypeInv, Moose
  PROVE  TypeInv' /\ Calm
<1>. /\ plan \in Plans /\ execution \in Executions /\ run \in Runs /\ goal \in Goals
     /\ Owns(execution, auftraege) /\ auftraege \in Seq(Auftraege)
     /\ Len(auftraege) <= MaxAuftraege
     /\ (abort = None \/ abort \in Aborts) /\ doomed \subseteq DOMAIN auftraege
     /\ overlapped \in BOOLEAN /\ interruptions \in 0 .. MaxInterruptions
  BY DEF TypeInv, TypeOK, Auftraege
<1>1. PICK a \in DOMAIN auftraege, from \in {"sent", "live"},
           to \in {"live", "refused", "won", "lost"} :
             Moves(a, from, to) /\ (from = "live" => to # "refused")
  BY DEF Moose, Accept, Refuse, Evaluate
<1>. DEFINE y == auftraege[a]
            x == [y EXCEPT !.state = to]
<1>2. /\ auftraege' = [auftraege EXCEPT ![a] = x] /\ auftraege[a].state = from
      /\ from = "live" => to # "refused"
      /\ UNCHANGED <<kind, goal, plan, execution, assessed, owned, run, abort, record, doomed,
                     overlapped, interruptions>>
  BY <1>1 DEF Moves, history
<1>3. y \in Auftraege
  OBVIOUS
<1>4. x \in Auftraege /\ x.requirement = y.requirement /\ x.state = to
  <2>1. to \in {"sent", "refused", "live", "won", "lost", "cancelled"}
    OBVIOUS
  <2>. HIDE DEF y
  <2>. QED  BY <1>3, <2>1 DEF Auftraege
<1>. HIDE DEF x
<1>5. auftraege' \in Seq(Auftraege) /\ Len(auftraege') = Len(auftraege)
      /\ DOMAIN auftraege' = DOMAIN auftraege
  BY <1>2, <1>4, UpdateTyped
<1>6. auftraege'[a] = x /\ \A b \in DOMAIN auftraege : b # a => auftraege'[b] = auftraege[b]
  BY <1>2
<1>7. Follows(auftraege, auftraege')
  BY <1>2, <1>4, <1>5, <1>6 DEF Follows
<1>8. Owns(execution', auftraege')
  <2>1. Owns(execution, auftraege')
    BY <1>7, FollowsOwned
  <2>. QED  BY <1>2, <2>1
<1>9. Order'
  BY <1>2, <1>5 DEF TypeInv, Order, Early
<1>10. Records
  BY <1>2, SameRecords
<1>. QED  BY <1>2, <1>5, <1>7, <1>8, <1>9, <1>10, FollowStep DEF Submitting

LEMMA GoalKeeps ==
  ASSUME TypeInv, GoalChanges
  PROVE  TypeInv' /\ Calm
<1>1. /\ UNCHANGED <<kind, plan, execution, assessed, owned, run, abort, record, auftraege,
                     doomed, overlapped, interruptions>>
      /\ goal' \in {"achieved", "failed"}
  BY DEF GoalChanges, history
<1>2. goal' \in Goals /\ Records
  BY <1>1, SameRecords DEF Goals
<1>3. Order'
  BY <1>1 DEF TypeInv, Order, Early
<1>4. Follows(auftraege, auftraege') /\ Owns(execution', auftraege')
  BY <1>1, FollowsSame DEF TypeInv, Owns
<1>. QED  BY <1>1, <1>2, <1>3, <1>4, FollowStep DEF TypeInv, TypeOK, Submitting

LEMMA RegistryKeeps ==
  ASSUME TypeInv, Validate \/ Approve \/ (\E p \in 1 .. (NumPhases + 1) : PrepareRetry(p))
  PROVE  TypeInv' /\ Calm
<1>1. UNCHANGED <<action, required, goal, execution, owned, run, abort, saved, lost, auftraege,
                  doomed, overlapped, interruptions>>
  BY DEF Validate, Approve, PrepareRetry, OnlyPlan, kind, record, history
<1>. plan \in Plans
  BY DEF TypeInv, TypeOK
<1>2. /\ plan' \in Plans /\ plan'.status \in {"validated", "approved", "draft"}
      /\ assessed' \in BOOLEAN
      /\ plan.status \in {"draft", "validated", "approved", "blocked"} /\ run.pc # "start"
      /\ plan.status \in Early \/ execution.status = "blocked"
  <2>1. CASE Validate
    BY <2>1 DEF Validate, Plans, PlanStatus, Early, TypeInv, Order
  <2>2. CASE Approve
    BY <2>2 DEF Approve, Plans, PlanStatus, TypeInv, TypeOK, Order, Early
  <2>3. ASSUME NEW p \in 1 .. (NumPhases + 1), PrepareRetry(p)
        PROVE  plan' \in Plans /\ plan'.status = "draft" /\ assessed' = FALSE
               /\ plan.status = "blocked" /\ run.pc # "start"
               /\ execution.status = "blocked"
    <3>. DEFINE f == [q \in Phases |-> IF q >= p THEN "pending" ELSE plan.phases[q]]
    <3>1. f \in [Phases -> PhaseStatus]
      BY DEF Plans, PhaseStatus
    <3>2. plan' = [status |-> "draft", phases |-> f]
      BY <2>3 DEF PrepareRetry
    <3>. HIDE DEF f
    <3>3. plan' \in Plans /\ plan'.status = "draft"
      BY <3>1, <3>2 DEF Plans, PlanStatus
    <3>. QED  BY <2>3, <3>3 DEF PrepareRetry, TypeInv, Order
  <2>. QED  BY <2>1, <2>2, <2>3
<1>3. TypeOK'
  BY <1>1, <1>2 DEF TypeInv, TypeOK
<1>4. Order'
  BY <1>1, <1>2 DEF TypeInv, Order, Early
<1>5. Owns(execution, auftraege)' /\ (saved # None => Owns(saved.execution, auftraege))'
  BY <1>1 DEF TypeInv, Owns
<1>6. Calm
  <2>1. Follows(auftraege, auftraege')
    BY <1>1, FollowsSame DEF TypeInv
  <2>2. Agree(plan, execution) => Agree(plan', execution')
    BY <1>1, <1>2 DEF Agree, Early
  <2>3. interruptions \in Nat
    BY DEF TypeInv, TypeOK
  <2>. QED  BY <1>1, <1>2, <2>1, <2>2, <2>3 DEF Calm, Records, Submitting
<1>. QED  BY <1>3, <1>4, <1>5, <1>6 DEF TypeInv

LEMMA ExecuteKeeps ==
  ASSUME TypeInv, Execute
  PROVE  TypeInv' /\ Calm
<1>. plan \in Plans /\ execution \in Executions /\ goal \in Goals /\ TypeOK
  BY DEF TypeInv, TypeOK
<1>1. /\ UNCHANGED <<action, required, goal, plan, execution, assessed, owned, abort, auftraege,
                     doomed, overlapped, interruptions>>
      /\ run' = [Idle EXCEPT !.pc = "start"]
      /\ plan.status = "approved" /\ assessed /\ abort = None
      /\ execution.attempt < MaxAttempts
  BY DEF Execute, OneAttempt, OnlyRecords, kind, history
<1>2. Records
  <2>1. CASE UNCHANGED record
    BY <2>1, SameRecords
  <2>2. CASE Persist(plan, execution, goal)
    BY <1>1, <2>2, PersistRecords DEF Records
  <2>. QED  BY <2>1, <2>2 DEF Execute
<1>3. run' \in Runs /\ run'.pc = "start" /\ run'.by = "execute"
  BY <1>1, IdleTyped
<1>4. Order'
  BY <1>1, <1>3 DEF TypeInv, Order, Early
<1>5. Follows(auftraege, auftraege') /\ Owns(execution', auftraege')
  BY <1>1, FollowsSame DEF TypeInv, Owns
<1>6. ~Submitting'
  BY <1>3 DEF Submitting
<1>. QED  BY <1>1, <1>2, <1>3, <1>4, <1>5, <1>6, FollowStep DEF TypeInv, TypeOK, kind

LEMMA InterruptKeeps ==
  ASSUME TypeInv, Interrupt
  PROVE  TypeInv' /\ Calm
<1>1. /\ UNCHANGED <<action, required, goal, plan, execution, assessed, owned, abort, saved, lost,
                     auftraege, doomed, overlapped>>
      /\ run' = Idle /\ interruptions' = interruptions + 1 /\ interruptions < MaxInterruptions
  BY DEF Interrupt, kind, record
<1>2. Records
  BY <1>1 DEF Records
<1>3. run' \in Runs /\ run'.pc = "idle" /\ ~Submitting'
  BY <1>1, IdleTyped DEF Submitting
<1>4. Order'
  BY <1>1, <1>3 DEF TypeInv, Order, Early
<1>5. Follows(auftraege, auftraege') /\ Owns(execution', auftraege')
  BY <1>1, FollowsSame DEF TypeInv, Owns
<1>6. interruptions' \in 0 .. MaxInterruptions
  BY <1>1, ConstantTypes DEF TypeInv, TypeOK
<1>. QED  BY <1>1, <1>2, <1>3, <1>4, <1>5, <1>6, FollowStep DEF TypeInv, TypeOK, kind

-----------------------------------------------------------------------------
(* Reconciling.                                                            *)

LEMMA ObservedTyped ==
  ASSUME TypeInv, NEW r \in Requirements, NEW paused
  PROVE  /\ Observed(r, paused) \in MissionStatus
         /\ Observed(r, paused) = "succeeded" =>
              Mission(r).id # 0 /\ auftraege[Mission(r).id].state = "won"
         /\ Observed(r, paused) \in {"absent", "pending"} => Mission(r).id = 0
<1>1. CASE \/ r \notin Required \/ ~Known(r) \/ r \in paused
           \/ Mission(r).status \in {"succeeded", "failed", "cancelled"}
  BY <1>1, MissionTypes DEF Observed
<1>2. CASE ~(\/ r \notin Required \/ ~Known(r) \/ r \in paused
             \/ Mission(r).status \in {"succeeded", "failed", "cancelled"})
  BY <1>2 DEF Observed, Known, Auftrag, MissionStatus
<1>. QED  BY <1>1, <1>2

LEMMA ObserveKeeps ==
  ASSUME TypeInv, NEW paused, NEW next \in Runs, Observe(paused, next),
         next.pc \in {"idle", "block", "wait"}, next.pc = "wait" => next.by # "execute"
  PROVE  TypeInv' /\ Calm
<1>. DEFINE f == [r \in Requirements |->
                    [execution.missions[r] EXCEPT !.status = Observed(r, paused)]]
            e == [execution EXCEPT !.missions = f]
<1>. plan \in Plans /\ execution \in Executions
  BY DEF TypeInv, TypeOK
<1>1. OnlyRecords /\ Emit(plan, e) /\ run' = next
  BY DEF Observe
<1>2. ASSUME NEW r \in Requirements
      PROVE  /\ f[r] \in Missions /\ f[r].id = execution.missions[r].id
             /\ f[r].status = Observed(r, paused)
  <2>1. execution.missions[r] \in Missions /\ Observed(r, paused) \in MissionStatus
    BY ObservedTyped DEF Executions
  <2>. QED  BY <2>1 DEF Missions
<1>3. f \in [Requirements -> Missions]
  BY <1>2
<1>. HIDE DEF f
<1>4. /\ e \in Executions /\ e.attempt = execution.attempt /\ e.missions = f
      /\ e.status = execution.status
  BY <1>3 DEF Executions
<1>. HIDE DEF e
<1>5. Owns(e, auftraege)
  <2>. SUFFICES ASSUME NEW r \in Requirements
                PROVE  /\ e.missions[r].id # 0 => /\ e.missions[r].id \in DOMAIN auftraege
                                                  /\ auftraege[e.missions[r].id].requirement = r
                                                  /\ auftraege[e.missions[r].id].state \notin {"sent", "refused"}
                       /\ e.missions[r].status \in {"absent", "pending"} => e.missions[r].id = 0
                       /\ e.missions[r].status = "succeeded" =>
                            e.missions[r].id # 0 /\ auftraege[e.missions[r].id].state = "won"
    BY DEF Owns
  <2>. QED  BY <1>2, <1>4, ObservedTyped, MissionTypes DEF Mission
<1>6. plan' = plan /\ execution' = e /\ Records
  BY <1>1, <1>4, EmitRecords DEF TypeInv
<1>7. ~Submitting'
  BY <1>1 DEF Submitting
<1>8. \A r \in Requirements :
        execution.missions[r].id # 0 => e.missions[r].id = execution.missions[r].id
  BY <1>2, <1>4
<1>. QED  BY <1>1, <1>4, <1>5, <1>6, <1>7, <1>8, RecordStep

LEMMA ReconcileKeeps ==
  ASSUME TypeInv, Reconcile
  PROVE  TypeInv' /\ Calm
<1>0. CurrentPhase \in 0 .. NumPhases
  BY PhaseTypes DEF TypeInv
<1>1. CASE NothingSubmitted
  <2>1. OnlyRecords /\ UNCHANGED <<plan, execution>> /\ Records
        /\ run' = [Idle EXCEPT !.pc = "block", !.phase = CurrentPhase]
    BY <1>1, SameRecords DEF NothingSubmitted
  <2>2. run' \in Runs /\ run'.pc = "block"
    BY <1>0, <2>1, IdleTyped
  <2>. QED  BY <2>1, <2>2, GoStep DEF Submitting
<1>2. ASSUME NEW p \in SUBSET Pausable, FailureObserved(p) \/ Indeterminate(p)
      PROVE  TypeInv' /\ Calm
  <2>1. CASE FailureObserved(p)
    <3>. DEFINE failed == Ended(p, {"failed", "cancelled"})
                next == [Idle EXCEPT !.pc = "block", !.phase = PhaseOf[Earliest(failed)]]
    <3>1. failed \in SUBSET Requirements /\ failed # {} /\ Observe(p, next)
      BY <2>1 DEF FailureObserved, Ended, Required, Recorded
    <3>. HIDE DEF failed
    <3>2. PhaseOf[Earliest(failed)] \in 0 .. NumPhases
      BY <3>1, EarliestRequirement, PhaseTypes DEF TypeInv
    <3>3. next \in Runs /\ next.pc = "block"
      BY <3>2, IdleTyped
    <3>. HIDE DEF next
    <3>. QED  BY <3>1, <3>3, ObserveKeeps
  <2>2. CASE Indeterminate(p)
    BY <2>2, IdleTyped, ObserveKeeps DEF Indeterminate
  <2>. QED  BY <1>2, <2>1, <2>2
<1>3. ASSUME NEW by \in {"reconcile", "monitor"}, StillRunning(by) \/ AllSucceeded(by)
      PROVE  TypeInv' /\ Calm
  <2>1. ASSUME NEW w \in SUBSET Requirements
        PROVE  /\ [Idle EXCEPT !.by = by, !.pc = "wait", !.phase = CurrentPhase,
                               !.waiting = w] \in Runs
               /\ [Idle EXCEPT !.by = by, !.pc = "wait", !.phase = CurrentPhase,
                               !.waiting = w].pc = "wait"
               /\ [Idle EXCEPT !.by = by, !.pc = "wait", !.phase = CurrentPhase,
                               !.waiting = w].by # "execute"
    BY <1>0 DEF Idle, Runs
  <2>2. /\ [Idle EXCEPT !.by = by, !.pc = "wait", !.phase = CurrentPhase] \in Runs
        /\ [Idle EXCEPT !.by = by, !.pc = "wait", !.phase = CurrentPhase].pc = "wait"
        /\ [Idle EXCEPT !.by = by, !.pc = "wait", !.phase = CurrentPhase].by # "execute"
    BY <1>0 DEF Idle, Runs
  <2>3. CASE StillRunning(by)
    <3>. DEFINE w == OfPhase(CurrentPhase) \cap Ended({}, {"running"})
    <3>1. w \in SUBSET Requirements
      BY DEF OfPhase
    <3>2. Observe({}, Idle) \/ Observe({}, [Idle EXCEPT !.by = by, !.pc = "wait",
                                              !.phase = CurrentPhase, !.waiting = w])
      BY <2>3 DEF StillRunning
    <3>. HIDE DEF w
    <3>. DEFINE next == [Idle EXCEPT !.by = by, !.pc = "wait", !.phase = CurrentPhase,
                                     !.waiting = w]
    <3>3. next \in Runs /\ next.pc = "wait" /\ next.by # "execute"
      BY <2>1, <3>1
    <3>4. Observe({}, Idle) \/ Observe({}, next)
      BY <3>2
    <3>. HIDE DEF next
    <3>5. CASE Observe({}, Idle)
      BY <3>5, IdleTyped, ObserveKeeps
    <3>6. CASE Observe({}, next)
      BY <3>3, <3>6, ObserveKeeps
    <3>. QED  BY <3>4, <3>5, <3>6
  <2>4. CASE AllSucceeded(by)
    BY <2>2, <2>4, ObserveKeeps DEF AllSucceeded
  <2>. QED  BY <1>3, <2>3, <2>4
<1>. QED  BY <1>1, <1>2, <1>3 DEF Reconcile

-----------------------------------------------------------------------------
(* The three steps that are not calm.                                      *)

LEMMA AppendFollows ==
  ASSUME TypeOK, NEW r \in Requirements, Len(auftraege) < MaxAuftraege,
         NEW n, n = Append(auftraege, [requirement |-> r, state |-> "sent"])
  PROVE  /\ Follows(auftraege, n) /\ n # << >>
         /\ DOMAIN n = DOMAIN auftraege \cup {Len(auftraege) + 1}
         /\ \A a \in DOMAIN auftraege : n[a] = auftraege[a]
         /\ n[Len(auftraege) + 1].requirement = r
<1>. DEFINE m == [requirement |-> r, state |-> "sent"]
<1>1. auftraege \in Seq(Auftraege) /\ m \in Auftraege /\ m.requirement = r
  BY DEF TypeOK, Auftraege
<1>. HIDE DEF m
<1>2. /\ n \in Seq(Auftraege) /\ Len(n) = Len(auftraege) + 1 /\ n # << >>
      /\ DOMAIN n = 1 .. (Len(auftraege) + 1) /\ DOMAIN auftraege = 1 .. Len(auftraege)
      /\ Len(auftraege) \in Nat
      /\ \A a \in DOMAIN auftraege : n[a] = auftraege[a]
      /\ n[Len(auftraege) + 1] = m
  BY <1>1 DEF m
<1>. QED  BY <1>1, <1>2, ConstantTypes DEF Follows

LEMMA SubmitTypes ==
  ASSUME TypeInv, NEW r \in Requirements, Submit(r)
  PROVE  /\ TypeInv' /\ Records /\ UNCHANGED <<lost, saved, plan, owned, interruptions>>
         /\ execution'.status = execution.status
         /\ execution'.attempt = execution.attempt
         /\ Mission(r).status = "absent" /\ Submitting
         /\ execution'.missions[r].status # "absent"
         /\ \A s \in Requirements \ {r} : execution'.missions[s] = execution.missions[s]
<1>. DEFINE m == [status |-> "pending", id |-> 0]
            e == WithMission(r, m)
<1>1. /\ UNCHANGED <<kind, goal, plan, assessed, owned, abort, saved, lost, doomed, overlapped,
                     interruptions>>
      /\ run.pc = "submit" /\ run' = [run EXCEPT !.pc = "sent"]
      /\ execution' = e /\ Len(auftraege) < MaxAuftraege
      /\ auftraege' = Append(auftraege, [requirement |-> r, state |-> "sent"])
      /\ r = NextRequirement
  BY DEF Submit, Go, record, history
<1>2. m \in Missions /\ m.status = "pending" /\ m.id = 0
  BY ConstantTypes DEF Missions, MissionStatus
<1>. HIDE DEF m
<1>3. /\ e \in Executions /\ e.attempt = execution.attempt /\ e.missions[r] = m
      /\ e.status = execution.status
      /\ \A s \in Requirements \ {r} : e.missions[s] = execution.missions[s]
  BY <1>2, WithMissionTyped DEF TypeInv
<1>. HIDE DEF e
<1>4. Follows(auftraege, auftraege') /\ auftraege' # << >>
      /\ DOMAIN auftraege \subseteq DOMAIN auftraege'
  BY <1>1, AppendFollows DEF TypeInv
<1>5. Owns(execution', auftraege')
  <2>1. Owns(e, auftraege)
    <3>1. Owns(execution, auftraege)
      BY DEF TypeInv
    <3>. QED  BY <1>2, <1>3, <3>1 DEF Owns
  <2>. QED  BY <1>1, <1>4, <2>1, FollowsOwned
<1>6. run \in Runs /\ run.by = "execute"
  BY <1>1 DEF TypeInv, TypeOK, Order
<1>7. run' \in Runs /\ run'.pc = "sent" /\ run'.by = "execute"
  BY <1>1, <1>6 DEF Runs
<1>8. Order'
  BY <1>1, <1>4, <1>7 DEF TypeInv, Order, Early
<1>9. Records
  BY <1>1 DEF Records
<1>10. TypeInv'
  BY <1>1, <1>3, <1>4, <1>5, <1>7, <1>8, <1>9, FollowTypes DEF TypeInv, TypeOK
<1>11. Mission(r).status = "absent"
  BY <1>1, NextUnrecorded
<1>. QED  BY <1>1, <1>2, <1>3, <1>6, <1>9, <1>10, <1>11 DEF Submitting

LEMMA StartTypes ==
  ASSUME TypeInv, StartAttempt
  PROVE  /\ TypeInv' /\ Records /\ plan.status = "approved" /\ plan'.status = "executing"
         /\ execution'.status = "executing" /\ UNCHANGED <<abort, doomed, interruptions>>
         /\ execution'.attempt = execution.attempt + 1
         /\ auftraege' = auftraege
         /\ lost' # lost \/ saved'.execution = execution'
<1>. DEFINE p == [plan EXCEPT !.status = "executing"]
            e == [NoExecution EXCEPT !.attempt = execution.attempt + 1, !.status = "executing"]
<1>1. /\ UNCHANGED <<kind, goal, assessed, abort, auftraege, doomed, overlapped, interruptions>>
      /\ run.pc = "start" /\ run' = [run EXCEPT !.pc = "phase"]
      /\ plan' = p /\ execution' = e /\ Save(e, p, goal) /\ owned' = None
  BY DEF StartAttempt, Go, history
<1>2. plan.status = "approved" /\ execution.attempt < MaxAttempts /\ run.by = "execute"
      /\ abort = None
  BY <1>1 DEF TypeInv, Order, Early
<1>3. p \in Plans /\ p.status = "executing"
  BY DEF TypeInv, TypeOK, Plans, PlanStatus
<1>4. execution.attempt + 1 \in 0 .. MaxAttempts
  BY <1>2, ConstantTypes DEF TypeInv, TypeOK, Executions
<1>5. Unsent \in Missions /\ Unsent.id = 0 /\ Unsent.status = "absent"
  BY ConstantTypes DEF Unsent, Missions, MissionStatus
<1>6. /\ e \in Executions /\ e.attempt = execution.attempt + 1 /\ e.status = "executing"
      /\ \A r \in Requirements : e.missions[r] = Unsent
  <2>. DEFINE f == [r \in Requirements |-> Unsent]
              d == [attempt |-> 0, current |-> 0, status |-> "none", missions |-> f]
  <2>1. f \in [Requirements -> Missions] /\ \A r \in Requirements : f[r] = Unsent
    BY <1>5
  <2>2. NoExecution = d /\ 0 \in 0 .. NumPhases /\ 0 \in 0 .. MaxAttempts
    BY ConstantTypes DEF NoExecution
  <2>. HIDE DEF f
  <2>3. d \in Executions /\ d.missions = f
    BY <2>1, <2>2 DEF Executions
  <2>4. e = [d EXCEPT !.attempt = execution.attempt + 1, !.status = "executing"]
    BY <2>2
  <2>. HIDE DEF d
  <2>5. /\ e \in Executions /\ e.attempt = execution.attempt + 1 /\ e.missions = f
        /\ e.status = "executing"
    BY <1>4, <2>3, <2>4 DEF Executions
  <2>. QED  BY <2>1, <2>5
<1>7. Save(e, p, goal) => saved' = [execution |-> e, plan |-> p, goal |-> goal] \/ lost' = lost + 1
  BY DEF Save
<1>. HIDE DEF p, e
<1>8. Records
  BY <1>1, <1>3, <1>6, SaveRecords DEF TypeInv, TypeOK, Records
<1>9. Owns(execution', auftraege')
  BY <1>1, <1>5, <1>6 DEF Owns
<1>10. run' \in Runs /\ run'.pc = "phase" /\ run'.by = "execute"
  BY <1>1, <1>2 DEF TypeInv, TypeOK, Runs
<1>11. Order'
  BY <1>1, <1>2, <1>10 DEF Order
<1>12. Follows(auftraege, auftraege')
  BY <1>1, FollowsSame DEF TypeInv
<1>13. TypeInv'
  BY <1>1, <1>3, <1>6, <1>8, <1>9, <1>10, <1>11, <1>12, FollowTypes DEF TypeInv, TypeOK
<1>14. lost' # lost \/ saved'.execution = execution'
  <2>1. lost + 1 # lost
    BY DEF TypeInv, TypeOK
  <2>. QED  BY <1>1, <1>7, <2>1
<1>. QED  BY <1>1, <1>2, <1>3, <1>6, <1>8, <1>13, <1>14

LEMMA RestartTypes ==
  ASSUME TypeInv, RestartClient
  PROVE  /\ TypeInv' /\ UNCHANGED <<saved, lost, auftraege>>
         /\ saved # None /\ execution' = saved.execution /\ ~Submitting'
         /\ interruptions' # interruptions
<1>1. /\ saved # None /\ interruptions < MaxInterruptions
      /\ plan' = saved.plan /\ execution' = saved.execution /\ goal' = saved.goal
      /\ owned' = [plan |-> saved.plan, goal |-> saved.goal] /\ assessed' = FALSE
      /\ run' = Idle /\ abort' = None /\ interruptions' = interruptions + 1
      /\ UNCHANGED <<kind, saved, lost, auftraege, doomed, overlapped>>
  BY DEF RestartClient, record
<1>2. saved \in Snapshots /\ saved.plan \in Plans /\ saved.goal \in Goals
      /\ saved.execution \in Executions
  BY <1>1 DEF TypeInv, TypeOK, Snapshots
<1>3. owned' \in [plan : Plans, goal : Goals]
  BY <1>1, <1>2
<1>4. run' \in Runs /\ run'.pc = "idle" /\ ~Submitting'
  BY <1>1, IdleTyped DEF Submitting
<1>5. Order'
  BY <1>1, <1>4 DEF Order
<1>6. Owns(execution', auftraege')
  BY <1>1 DEF TypeInv
<1>7. Follows(auftraege, auftraege') /\ Records
  BY <1>1, FollowsSame DEF TypeInv, Records
<1>8. interruptions' \in 0 .. MaxInterruptions /\ interruptions' # interruptions
  BY <1>1, ConstantTypes DEF TypeInv, TypeOK
<1>9. TypeInv'
  BY <1>1, <1>2, <1>3, <1>4, <1>5, <1>6, <1>7, <1>8, FollowTypes DEF TypeInv, TypeOK
<1>. QED  BY <1>1, <1>4, <1>8, <1>9

-----------------------------------------------------------------------------
(* The inductive invariant, and what follows from it.                      *)

LEMMA InitTypes ==
  ASSUME Init
  PROVE  TypeInv
<1>1. Unsent \in Missions /\ Unsent.id = 0 /\ Unsent.status = "absent"
  BY ConstantTypes DEF Unsent, Missions, MissionStatus
<1>2. NoExecution \in Executions /\ \A r \in Requirements : NoExecution.missions[r] = Unsent
  BY <1>1, ConstantTypes DEF NoExecution, Executions
<1>3. <<action, required>> \in Kinds
  <2>1. PICK k \in Kinds : action = k[1] /\ required = k[2]
    BY DEF Init
  <2>. QED  BY <2>1, PlanAssumption
<1>4. plan \in Plans /\ plan.status = "draft"
  BY DEF Init, Plans, PlanStatus, PhaseStatus
<1>5. auftraege = << >> /\ auftraege \in Seq(Auftraege) /\ Len(auftraege) = 0
  BY DEF Init
<1>6. run \in Runs /\ run.pc = "idle"
  BY IdleTyped DEF Init
<1>7. TypeOK
  <2>1. /\ goal \in Goals /\ assessed \in BOOLEAN /\ overlapped \in BOOLEAN
        /\ execution \in Executions /\ owned = None /\ abort = None /\ saved = None
        /\ doomed = {} /\ lost = 0 /\ interruptions = 0
    BY <1>2 DEF Init, Goals
  <2>2. lost \in 0 .. MaxLost /\ interruptions \in 0 .. MaxInterruptions
        /\ Len(auftraege) <= MaxAuftraege /\ doomed \subseteq DOMAIN auftraege
    BY <1>5, <2>1, ConstantTypes
  <2>. QED  BY <1>3, <1>4, <1>5, <1>6, <2>1, <2>2 DEF TypeOK, Auftraege
<1>8. Order
  BY <1>6 DEF Init, Order
<1>9. Owns(execution, auftraege)
  BY <1>1, <1>2 DEF Init, Owns
<1>. QED  BY <1>7, <1>8, <1>9 DEF Init, TypeInv

\* A step is calm, or one of three.
LEMMA NextKeeps ==
  ASSUME TypeInv, Next
  PROVE  /\ TypeInv'
         /\ Calm \/ StartAttempt \/ RestartClient \/ \E r \in Requirements : Submit(r)
<1>1. CASE Execution
  <2>1. CASE \E r \in Requirements :
               \/ Skip(r) \/ Submitted(r) \/ SubmissionFails(r)
               \/ HearEvaluated(r) \/ HearStatus(r) \/ HearEstablished(r) \/ WaitTimesOut(r)
               \/ CleanUpMission(r)
    BY <2>1, SubmissionsKeep, WaitsKeep, CleanUpKeeps
  <2>2. CASE \E r \in Requirements : Submit(r)
    BY <2>2, SubmitTypes
  <2>3. CASE StartAttempt
    BY <2>3, StartTypes
  <2>4. CASE \/ RevalidationFails \/ CursorFails \/ Block \/ MonitoringFails \/ MissionsFailed
             \/ SecurityFails \/ EffectFails \/ DefenseFails \/ Review \/ Resume \/ DependencyFails
             \/ GoalMissed
    BY <2>4, FailuresKeep
  <2>5. CASE AllSubmitted \/ LeaveToMonitor \/ ConfirmationRaises \/ CleanUp
    BY <2>5, MovesKeep
  <2>6. CASE EnterPhase \/ StartPhase \/ CompletePhase \/ SkipRest \/ Complete
    BY <2>6, PhasesKeep
  <2>7. CASE ConfirmEffect
    BY <2>7, EffectKeeps
  <2>. QED  BY <1>1, <2>1, <2>2, <2>3, <2>4, <2>5, <2>6, <2>7 DEF Execution
<1>2. CASE Moose \/ GoalChanges \/ Execute \/ Reconcile \/ BlockInterrupted \/ Aborting \/ Interrupt
  BY <1>2, MooseKeeps, GoalKeeps, ExecuteKeeps, ReconcileKeeps, FailuresKeep, AbortsKeep,
     InterruptKeeps
<1>3. CASE Validate \/ Approve \/ (\E p \in 1 .. (NumPhases + 1) : PrepareRetry(p))
  BY <1>3, RegistryKeeps
<1>4. CASE RestartClient
  BY <1>4, RestartTypes
<1>. QED  BY <1>1, <1>2, <1>3, <1>4 DEF Next

LEMMA StutterKeeps ==
  ASSUME TypeInv, UNCHANGED vars
  PROVE  TypeInv'
<1>1. UNCHANGED <<action, required, goal, plan, execution, assessed, owned, run, abort, saved,
                  auftraege, doomed, overlapped, lost, interruptions>>
  BY DEF vars
<1>2. TypeOK'
  BY <1>1 DEF TypeInv, TypeOK
<1>3. Order'
  BY <1>1 DEF TypeInv, Order
<1>4. Owns(execution, auftraege)' /\ (saved # None => Owns(saved.execution, auftraege))'
  BY <1>1 DEF TypeInv, Owns
<1>. QED  BY <1>2, <1>3, <1>4 DEF TypeInv

LEMMA TypesInvariant == Spec => []TypeInv
<1>1. Init => TypeInv
  BY InitTypes
<1>2. TypeInv /\ [Next]_vars => TypeInv'
  BY NextKeeps, StutterKeeps
<1>. QED  BY <1>1, <1>2, PTL DEF Spec

\* The variables hold what their types say, whatever fails and restarts.
THEOREM TypeCorrect == Spec => []TypeOK
<1>1. TypeInv => TypeOK
  BY DEF TypeInv
<1>. QED  BY <1>1, TypesInvariant, PTL

\* A mission is recorded as succeeded only if MOOSE evaluated its own AUFTRAG
\* so, in an attempt restored after a restart too.
THEOREM SuccessIsEarnedHolds == Spec => []SuccessIsEarned
<1>1. TypeInv => SuccessIsEarned
  <2>. SUFFICES ASSUME TypeInv, NEW r \in Requirements, Mission(r).status = "succeeded"
                PROVE  auftraege[Mission(r).id] = [requirement |-> r, state |-> "won"]
    BY DEF SuccessIsEarned
  <2>1. /\ Mission(r).id \in DOMAIN auftraege
        /\ auftraege[Mission(r).id].requirement = r /\ auftraege[Mission(r).id].state = "won"
    BY MissionTypes
  <2>2. auftraege \in Seq(Auftraege)
    BY DEF TypeInv, TypeOK, Auftraege
  <2>3. auftraege[Mission(r).id] \in Auftraege
    BY <2>1, <2>2
  <2>. QED  BY <2>1, <2>3 DEF Auftraege
<1>. QED  BY <1>1, TypesInvariant, PTL

\* Only a restart of the client takes up a cancelled plan again.
THEOREM CancelledStaysCancelledHolds == Spec => CancelledStaysCancelled
<1>. DEFINE A == plan.status = "cancelled" =>
                   \/ plan'.status \in {"cancelled", "completed"}
                   \/ interruptions' # interruptions
<1>1. TypeInv /\ [Next]_vars => [A]_vars
  <2>. SUFFICES ASSUME TypeInv, Next  PROVE A
    OBVIOUS
  <2>1. CASE Calm
    BY <2>1 DEF Calm
  <2>2. CASE StartAttempt
    BY <2>2, StartTypes
  <2>3. CASE RestartClient
    BY <2>3, RestartTypes
  <2>4. CASE \E r \in Requirements : Submit(r)
    BY <2>4, SubmitTypes
  <2>. QED  BY <2>1, <2>2, <2>3, <2>4, NextKeeps
<1>. QED  BY <1>1, TypesInvariant, PTL DEF Spec, CancelledStaysCancelled

-----------------------------------------------------------------------------
(* Each requirement is tasked once in an attempt.                          *)

Tasked(r) == {a \in DOMAIN auftraege : auftraege[a].requirement = r}

\* While the record of the attempt is what would be restored, a requirement
\* still to be submitted was tasked by earlier attempts only.
OnceInv ==
    lost = 0 =>
      /\ saved # None => saved.execution.attempt = execution.attempt
      /\ \A r \in Requirements :
           /\ Cardinality(Tasked(r)) <= execution.attempt
           /\ Submitting /\ Mission(r).status = "absent" =>
                Cardinality(Tasked(r)) < execution.attempt

LEMMA TaskedTypes ==
  ASSUME TypeInv, NEW r \in Requirements
  PROVE  IsFiniteSet(Tasked(r)) /\ Cardinality(Tasked(r)) \in Nat
         /\ execution.attempt \in Nat /\ lost \in Nat
<1>1. DOMAIN auftraege = 1 .. Len(auftraege) /\ Len(auftraege) \in Nat
  BY DEF TypeInv, TypeOK
<1>2. IsFiniteSet(DOMAIN auftraege) /\ Tasked(r) \subseteq DOMAIN auftraege
  BY <1>1, FS_Interval DEF Tasked
<1>3. IsFiniteSet(Tasked(r))
  BY <1>2, FS_Subset
<1>. QED  BY <1>3, FS_CardinalityType DEF TypeInv, TypeOK, Executions

LEMMA OnceInit ==
  ASSUME Init
  PROVE  OnceInv
<1>1. TypeInv /\ ~Submitting /\ saved = None /\ execution.attempt = 0 /\ DOMAIN auftraege = {}
  <2>1. ~Submitting /\ saved = None
    BY IdleTyped DEF Init, Submitting
  <2>2. execution.attempt = 0
    BY DEF Init, NoExecution
  <2>3. DOMAIN auftraege = 1 .. 0
    BY DEF Init
  <2>. QED  BY <2>1, <2>2, <2>3, InitTypes
<1>2. \A r \in Requirements : Cardinality(Tasked(r)) = 0
  BY <1>1, FS_EmptySet DEF Tasked
<1>. QED  BY <1>1, <1>2 DEF OnceInv

LEMMA OnceCalm ==
  ASSUME TypeInv, OnceInv, Calm
  PROVE  OnceInv'
<1>1. /\ execution'.attempt = execution.attempt
      /\ Records /\ DOMAIN auftraege' = DOMAIN auftraege
      /\ \A a \in DOMAIN auftraege : auftraege'[a].requirement = auftraege[a].requirement
      /\ Submitting' => Submitting /\ \A r \in Requirements :
           execution'.missions[r].status = "absent" => execution.missions[r].status = "absent"
  BY DEF Calm
<1>2. \A r \in Requirements : Tasked(r)' = Tasked(r)
  BY <1>1 DEF Tasked
<1>3. SUFFICES ASSUME lost' = 0
               PROVE  /\ saved' # None => saved'.execution.attempt = execution'.attempt
                      /\ \A r \in Requirements :
                           /\ Cardinality(Tasked(r)') <= execution'.attempt
                           /\ Submitting' /\ execution'.missions[r].status = "absent" =>
                                Cardinality(Tasked(r)') < execution'.attempt
  BY DEF OnceInv, Mission
<1>4. lost = 0 /\ (saved' = saved \/ saved'.execution = execution')
  <2>1. lost + 1 # 0
    BY DEF TypeInv, TypeOK
  <2>. QED  BY <1>1, <1>3, <2>1 DEF Records
<1>. QED  BY <1>1, <1>2, <1>4 DEF OnceInv, Mission

LEMMA OnceSubmit ==
  ASSUME TypeInv, OnceInv, NEW r \in Requirements, Submit(r)
  PROVE  OnceInv'
<1>1. /\ Records /\ lost' = lost /\ saved' = saved
      /\ execution'.attempt = execution.attempt
      /\ Mission(r).status = "absent" /\ Submitting
      /\ execution'.missions[r].status # "absent"
      /\ \A s \in Requirements \ {r} : execution'.missions[s] = execution.missions[s]
  BY SubmitTypes
<1>2. /\ DOMAIN auftraege' = DOMAIN auftraege \cup {Len(auftraege) + 1}
      /\ \A a \in DOMAIN auftraege : auftraege'[a] = auftraege[a]
      /\ auftraege'[Len(auftraege) + 1].requirement = r
  BY AppendFollows DEF Submit, TypeInv
<1>3. Len(auftraege) + 1 \notin DOMAIN auftraege
  BY DEF TypeInv, TypeOK
<1>4. /\ Tasked(r)' = Tasked(r) \cup {Len(auftraege) + 1}
      /\ Len(auftraege) + 1 \notin Tasked(r)
      /\ \A s \in Requirements \ {r} : Tasked(s)' = Tasked(s)
  <2>. DEFINE l == Len(auftraege) + 1
  <2>1. /\ DOMAIN auftraege' = DOMAIN auftraege \cup {l} /\ l \notin DOMAIN auftraege
        /\ \A a \in DOMAIN auftraege : auftraege'[a].requirement = auftraege[a].requirement
        /\ auftraege'[l].requirement = r
    BY <1>2, <1>3
  <2>. HIDE DEF l
  <2>2. Tasked(r)' = Tasked(r) \cup {l} /\ l \notin Tasked(r)
    BY <2>1 DEF Tasked
  <2>3. \A s \in Requirements \ {r} : Tasked(s)' = Tasked(s)
    BY <2>1 DEF Tasked
  <2>. QED  BY <2>2, <2>3 DEF l
<1>5. Cardinality(Tasked(r)') = Cardinality(Tasked(r)) + 1
  <2>. DEFINE l == Len(auftraege) + 1
              T == Tasked(r)
  <2>1. IsFiniteSet(T) /\ Tasked(r)' = T \cup {l} /\ l \notin T
    BY <1>4, TaskedTypes
  <2>. HIDE DEF T, l
  <2>2. Cardinality(T \cup {l}) = Cardinality(T) + 1
    BY <2>1, FS_AddElement
  <2>. QED  BY <2>1, <2>2 DEF T
<1>6. SUFFICES ASSUME lost' = 0
               PROVE  /\ saved' # None => saved'.execution.attempt = execution'.attempt
                      /\ \A s \in Requirements :
                           /\ Cardinality(Tasked(s)') <= execution'.attempt
                           /\ Submitting' /\ execution'.missions[s].status = "absent" =>
                                Cardinality(Tasked(s)') < execution'.attempt
  BY DEF OnceInv, Mission
<1>7. Cardinality(Tasked(r)') <= execution'.attempt
  BY <1>1, <1>5, <1>6, TaskedTypes DEF OnceInv
<1>8. ASSUME NEW s \in Requirements \ {r}
      PROVE  /\ Cardinality(Tasked(s)') <= execution'.attempt
             /\ execution'.missions[s].status = "absent" => Cardinality(Tasked(s)') < execution'.attempt
  BY <1>1, <1>4, <1>6 DEF OnceInv, Mission
<1>. QED  BY <1>1, <1>6, <1>7, <1>8 DEF OnceInv

LEMMA OnceStart ==
  ASSUME TypeInv, OnceInv, StartAttempt
  PROVE  OnceInv'
<1>1. /\ TypeInv' /\ Records /\ execution'.attempt = execution.attempt + 1
      /\ auftraege' = auftraege
      /\ lost' # lost \/ saved'.execution = execution'
  BY StartTypes
<1>2. \A r \in Requirements : Tasked(r)' = Tasked(r)
  BY <1>1 DEF Tasked
<1>3. SUFFICES ASSUME lost' = 0
               PROVE  /\ saved'.execution = execution'
                      /\ \A r \in Requirements : Cardinality(Tasked(r)') < execution'.attempt
                      /\ \A r \in Requirements : Cardinality(Tasked(r)') <= execution'.attempt
  BY DEF OnceInv
<1>4. lost = 0 /\ saved'.execution = execution'
  <2>1. lost + 1 # 0
    BY DEF TypeInv, TypeOK
  <2>. QED  BY <1>1, <1>3, <2>1 DEF Records
<1>5. ASSUME NEW r \in Requirements
      PROVE  Cardinality(Tasked(r)') < execution'.attempt /\ Cardinality(Tasked(r)') <= execution'.attempt
  <2>1. Cardinality(Tasked(r)) <= execution.attempt
    BY <1>4 DEF OnceInv
  <2>2. Cardinality(Tasked(r)') = Cardinality(Tasked(r))
    BY <1>2
  <2>. QED  BY <1>1, <2>1, <2>2, TaskedTypes
<1>. QED  BY <1>4, <1>5

LEMMA OnceRestart ==
  ASSUME TypeInv, OnceInv, RestartClient
  PROVE  OnceInv'
<1>1. /\ UNCHANGED <<saved, lost, auftraege>>
      /\ saved # None /\ execution' = saved.execution /\ ~Submitting'
  BY RestartTypes
<1>2. \A r \in Requirements : Tasked(r)' = Tasked(r)
  BY <1>1 DEF Tasked
<1>. QED  BY <1>1, <1>2 DEF OnceInv

\* An attempt tasks each of its requirements once, however often it is
\* interrupted, restored and taken up again, as long as its record was made.
THEOREM OncePerAttemptHolds == Spec => []OncePerAttempt
<1>1. Init => OnceInv
  BY OnceInit
<1>2. TypeInv /\ OnceInv /\ [Next]_vars => OnceInv'
  <2>1. ASSUME TypeInv, OnceInv, Next
        PROVE  OnceInv'
    <3>1. CASE Calm
      BY <2>1, <3>1, OnceCalm
    <3>2. CASE StartAttempt
      BY <2>1, <3>2, OnceStart
    <3>3. CASE RestartClient
      BY <2>1, <3>3, OnceRestart
    <3>4. CASE \E r \in Requirements : Submit(r)
      BY <2>1, <3>4, OnceSubmit
    <3>. QED  BY <2>1, <3>1, <3>2, <3>3, <3>4, NextKeeps
  <2>2. ASSUME OnceInv, UNCHANGED vars
        PROVE  OnceInv'
    BY <2>2 DEF vars, OnceInv, Submitting, Mission, Tasked
  <2>. QED  BY <2>1, <2>2
<1>3. OnceInv => OncePerAttempt
  BY DEF OnceInv, OncePerAttempt, Tasked
<1>. QED  BY <1>1, <1>2, <1>3, TypesInvariant, PTL DEF Spec

-----------------------------------------------------------------------------
(* What an abort was to cancel does not live on.                           *)

Quiet == \A a \in doomed : auftraege[a].state # "live"

\* The plan is cancelled, or a restart would restore it so.
Cancelled ==
    \/ plan.status = "cancelled"
    \/ saved # None /\ saved.plan.status = "cancelled"
    \/ owned # None /\ owned.plan.status = "cancelled"

\* An abort knows of every live AUFTRAG it is to cancel until a command fails,
\* and a plan that was ever cancelled is not worked on again.
QuietInv ==
    /\ \A a \in doomed : auftraege[a].state # "sent"
    /\ abort # None /\ ~abort.failed =>
         \A a \in doomed : auftraege[a].state = "live" => \E r \in abort.left : Mission(r).id = a
    /\ plan.status = "completed" => run.pc = "idle"
    /\ Cancelled => plan.status \in {"cancelled", "completed"} /\ abort = None /\ Quiet

LEMMA ExecutionRuns ==
  ASSUME Execution
  PROVE  run.pc # "idle"
  BY DEF Execution, StartAttempt, EnterPhase, StartPhase, RevalidationFails, CursorFails,
     Submit, Skip, Submitted, SubmissionFails, HearEvaluated, HearStatus, HearEstablished,
     WaitTimesOut, Hear, CleanUpMission, AllSubmitted, Block, MonitoringFails, MissionsFailed,
     SecurityFails, LeaveToMonitor, EffectFails, ConfirmEffect, ConfirmationRaises, CleanUp,
     DefenseFails, CompletePhase, Review, SkipRest, Resume, GoalMissed, DependencyFails, Complete,
     NoPhaseLeft, Confirmable, Settled, WaitOver, CleanedUp

\* A completed plan stays so, unless an abort that is under way ends it.
LEMMA CompletedStays ==
  ASSUME TypeInv, Next, plan.status = "completed", run.pc = "idle"
  PROVE  \/ UNCHANGED <<plan, run>>
         \/ run' = run /\ abort # None /\ (AbortFails \/ AbortSucceeds)
         \/ RestartClient
<1>1. CASE Execution
  BY <1>1, ExecutionRuns
<1>2. CASE Moose \/ GoalChanges
  BY <1>2 DEF Moose, Accept, Refuse, Evaluate, Moves, GoalChanges
<1>3. CASE Validate \/ Approve \/ (\E p \in 1 .. (NumPhases + 1) : PrepareRetry(p)) \/ Execute
  BY <1>3 DEF Validate, Approve, PrepareRetry, Execute
<1>4. CASE Reconcile \/ BlockInterrupted
  BY <1>4 DEF Reconcile, BlockInterrupted, NothingSubmitted, FailureObserved, Indeterminate,
     StillRunning, AllSucceeded, Observe, Interrupted
<1>5. CASE Aborting
  <2>1. ASSUME NEW phase, Abort(phase)  PROVE UNCHANGED <<plan, run>>
    BY <2>1 DEF Abort
  <2>2. ASSUME NEW r \in Requirements, AbortMission(r)  PROVE UNCHANGED <<plan, run>>
    BY <2>2, CancelKeeps DEF AbortMission, OnlyAborts
  <2>3. AbortFails \/ AbortSucceeds => run' = run /\ abort # None
    BY DEF AbortFails, AbortSucceeds, OnlyAborts
  <2>. QED  BY <1>5, <2>1, <2>2, <2>3 DEF Aborting
<1>6. CASE Interrupt
  BY <1>6 DEF Interrupt
<1>. QED  BY <1>1, <1>2, <1>3, <1>4, <1>5, <1>6 DEF Next

LEMMA CompletedIdle ==
  ASSUME TypeInv, QuietInv, Next, plan'.status = "completed"
  PROVE  run'.pc = "idle"
<1>1. CASE plan.status = "completed"
  <2>1. run.pc = "idle"
    BY <1>1 DEF QuietInv
  <2>2. RestartClient => run'.pc = "idle"
    BY IdleTyped DEF RestartClient
  <2>. QED  BY <1>1, <2>1, <2>2, CompletedStays
<1>2. CASE plan.status # "completed"
  <2>1. RestartClient => run'.pc = "idle"
    BY IdleTyped DEF RestartClient
  <2>2. ~StartAttempt
    BY StartTypes
  <2>3. \A r \in Requirements : ~Submit(r)
    BY <1>2, SubmitTypes
  <2>. QED  BY <1>2, <2>1, <2>2, <2>3, NextKeeps DEF Calm
<1>. QED  BY <1>1, <1>2

\* A calm step that is none of an abort.
LEMMA QuietCalm ==
  ASSUME TypeInv, QuietInv, Next, Calm, ~Aborting, ~RestartClient
  PROVE  QuietInv'
<1>1. /\ Records /\ Follows(auftraege, auftraege') /\ owned' = owned
      /\ \A r \in Requirements :
           execution.missions[r].id # 0 => execution'.missions[r].id = execution.missions[r].id
      /\ plan.status = "cancelled" => plan'.status \in {"cancelled", "completed"}
      /\ abort' = abort /\ doomed' = doomed
      /\ plan'.status = "cancelled" => plan.status = "cancelled"
  BY DEF Calm
<1>2. /\ doomed \subseteq DOMAIN auftraege /\ 0 \notin DOMAIN auftraege
      /\ abort # None => abort.left \subseteq Requirements
  BY DEF TypeInv, TypeOK, Aborts
<1>3. ASSUME NEW a \in doomed
      PROVE  /\ auftraege'[a].state # "sent"
             /\ auftraege'[a].state = "live" => auftraege[a].state = "live"
  <2>1. a \in DOMAIN auftraege /\ auftraege[a].state # "sent"
    BY <1>2 DEF QuietInv
  <2>. QED  BY <1>1, <2>1 DEF Follows
<1>4. abort' # None /\ ~abort'.failed =>
        \A a \in doomed' : auftraege'[a].state = "live" =>
          \E r \in abort'.left : execution'.missions[r].id = a
  <2>. SUFFICES ASSUME abort # None, ~abort.failed, NEW a \in doomed, auftraege'[a].state = "live"
                PROVE  \E r \in abort.left : execution'.missions[r].id = a
    BY <1>1
  <2>1. PICK r \in abort.left : execution.missions[r].id = a
    BY <1>3 DEF QuietInv, Mission
  <2>2. a # 0 /\ r \in Requirements
    BY <1>2
  <2>. QED  BY <1>1, <2>1, <2>2
<1>5. plan'.status = "completed" => run'.pc = "idle"
  BY CompletedIdle
<1>6. Cancelled' => Cancelled
  BY <1>1 DEF Cancelled, Records
<1>7. Cancelled => plan'.status \in {"cancelled", "completed"} /\ abort' = None /\ Quiet'
  <2>1. SUFFICES ASSUME Cancelled
                 PROVE  plan'.status \in {"cancelled", "completed"} /\ abort' = None /\ Quiet'
    OBVIOUS
  <2>2. plan.status \in {"cancelled", "completed"} /\ abort = None /\ Quiet
    BY <2>1 DEF QuietInv
  <2>3. Quiet'
    BY <1>1, <1>3, <2>2 DEF Quiet
  <2>4. CASE plan.status = "completed"
    <3>1. run.pc = "idle"
      BY <2>4 DEF QuietInv
    <3>2. plan' = plan
      BY <2>2, <2>4, <3>1, CompletedStays
    <3>. QED  BY <1>1, <2>2, <2>3, <2>4, <3>2
  <2>. QED  BY <1>1, <2>2, <2>3, <2>4
<1>8. \A a \in doomed' : auftraege'[a].state # "sent"
  BY <1>1, <1>3
<1>9. abort' # None /\ ~abort'.failed =>
        \A a \in doomed' : auftraege'[a].state = "live" => \E r \in abort'.left : Mission(r)'.id = a
  BY <1>4 DEF Mission
<1>. QED  BY <1>5, <1>6, <1>7, <1>8, <1>9 DEF QuietInv, Mission

LEMMA QuietAbort ==
  ASSUME TypeInv, QuietInv, Next, NEW phase \in 0 .. NumPhases, Abort(phase)
  PROVE  QuietInv'
<1>. DEFINE left == IF phase = 0 THEN Recorded ELSE Recorded \cap OfPhase(phase)
<1>1. /\ UNCHANGED <<plan, execution, owned, saved, auftraege>>
      /\ abort' = [left |-> left, phase |-> phase, failed |-> FALSE]
      /\ doomed' = {Mission(r).id : r \in {q \in left : Known(q)}}
      /\ plan.status \in Working
  BY DEF Abort, record
<1>2. left \in SUBSET Requirements
  BY DEF Recorded
<1>. HIDE DEF left
<1>3. ASSUME NEW a \in doomed'
      PROVE  auftraege[a].state # "sent" /\ \E r \in left : execution.missions[r].id = a
  <2>1. PICK r \in left : Known(r) /\ a = Mission(r).id
    BY <1>1
  <2>. QED  BY <1>2, <2>1, MissionTypes DEF Known, Mission
<1>4. ~Cancelled
  BY <1>1 DEF QuietInv, Working
<1>5. ~Cancelled'
  BY <1>1, <1>4 DEF Cancelled
<1>6. abort'.left = left
  BY <1>1
<1>. QED  BY <1>1, <1>3, <1>5, <1>6, CompletedIdle DEF QuietInv, Mission

LEMMA QuietAbortMission ==
  ASSUME TypeInv, QuietInv, Next, NEW r \in Requirements, AbortMission(r)
  PROVE  QuietInv'
<1>1. CancelDone(r) \/ CancelFails(r)
  BY DEF AbortMission
<1>2. PICK failed \in BOOLEAN :
        /\ abort' = [abort EXCEPT !.left = {q \in @ : q > r}, !.failed = @ \/ failed]
        /\ ~failed => CancelDone(r)
  BY DEF AbortMission
<1>3. /\ abort # None /\ r = NextCancelable /\ doomed' = doomed /\ owned' = owned
      /\ abort \in Aborts
  BY DEF AbortMission, OnlyAborts, TypeInv, TypeOK
<1>4. /\ abort'.left = {q \in abort.left : q > r} /\ abort'.failed = (abort.failed \/ failed)
      /\ abort.left \in SUBSET Requirements /\ abort.failed \in BOOLEAN
  BY <1>2, <1>3 DEF Aborts
<1>5. /\ Follows(auftraege, auftraege') /\ plan' = plan /\ Records
      /\ \A s \in Requirements : execution'.missions[s].id = execution.missions[s].id
  BY <1>1, CancelKeeps
<1>6. doomed \subseteq DOMAIN auftraege /\ 0 \notin DOMAIN auftraege /\ Requirements \subseteq Nat
  BY ConstantTypes DEF TypeInv, TypeOK
<1>7. ASSUME NEW a \in doomed
      PROVE  /\ auftraege'[a].state # "sent"
             /\ auftraege'[a].state = "live" => auftraege[a].state = "live"
  <2>1. a \in DOMAIN auftraege /\ auftraege[a].state # "sent"
    BY <1>6 DEF QuietInv
  <2>. QED  BY <1>5, <2>1 DEF Follows
<1>8. ASSUME ~abort'.failed, NEW a \in doomed, auftraege'[a].state = "live"
      PROVE  \E s \in abort'.left : execution'.missions[s].id = a
  <2>1. ~abort.failed /\ CancelDone(r)
    BY <1>2, <1>4, <1>8
  <2>2. auftraege[a].state = "live" /\ a # 0 /\ a \in DOMAIN auftraege
    BY <1>6, <1>7, <1>8
  <2>3. PICK s \in abort.left : execution.missions[s].id = a
    BY <1>3, <2>1, <2>2 DEF QuietInv, Mission
  <2>4. s \in Requirements /\ s \in {q \in abort.left : Cancelable(q)}
    BY <1>4, <2>2, <2>3 DEF Cancelable, Known, Auftrag, Mission
  <2>5. r <= s
    <3>1. {q \in abort.left : Cancelable(q)} \in SUBSET Nat
      BY <1>4, <1>6
    <3>. QED  BY <1>3, <2>4, <3>1, EarliestIsLeast DEF NextCancelable
  <2>6. s # r
    <3>1. SUFFICES ASSUME s = r  PROVE FALSE
      OBVIOUS
    <3>2. auftraege' = Canceled(a)
      BY <2>1, <2>3, <3>1 DEF CancelDone, Mission
    <3>3. a \in Nat
      BY <2>2 DEF TypeInv, TypeOK
    <3>. QED  BY <1>8, <2>2, <3>2, <3>3, CanceledFollows DEF TypeInv
  <2>7. s > r
    BY <1>6, <2>4, <2>5, <2>6
  <2>. QED  BY <1>4, <1>5, <2>3, <2>4, <2>7
<1>9. ~Cancelled'
  <2>1. ~Cancelled
    BY <1>3 DEF QuietInv
  <2>. QED  BY <1>3, <1>5, <2>1 DEF Cancelled, Records
<1>10. \A a \in doomed' : auftraege'[a].state # "sent"
  BY <1>3, <1>7
<1>11. ~abort'.failed =>
         \A a \in doomed' : auftraege'[a].state = "live" =>
           \E s \in abort'.left : execution'.missions[s].id = a
  BY <1>3, <1>8
<1>. QED  BY <1>9, <1>10, <1>11, CompletedIdle DEF QuietInv, Mission

LEMMA QuietAbortEnds ==
  ASSUME TypeInv, QuietInv, Next, AbortFails \/ AbortSucceeds
  PROVE  QuietInv'
<1>1. /\ abort # None /\ abort' = None /\ NextCancelable = 0 /\ auftraege' = auftraege
      /\ owned' = owned /\ abort \in Aborts
  BY DEF AbortFails, AbortSucceeds, OnlyAborts, TypeInv, TypeOK
<1>2. ~Cancelled
  BY <1>1 DEF QuietInv
<1>3. CASE AbortFails
  <2>. DEFINE p == IF abort.phase # 0 THEN abort.phase ELSE CurrentPhase
  <2>1. p \in 0 .. NumPhases
    BY <1>1, PhaseTypes DEF Aborts, TypeInv
  <2>2. Blocked(p, execution) /\ doomed' = {}
    BY <1>3 DEF AbortFails
  <2>. HIDE DEF p
  <2>3. Records /\ plan'.status \in {plan.status, "blocked"}
    BY <2>1, <2>2, BlockedTypes DEF TypeInv
  <2>4. ~Cancelled'
    BY <1>1, <1>2, <2>3 DEF Cancelled, Records
  <2>. QED  BY <1>1, <2>2, <2>4, CompletedIdle DEF QuietInv
<1>4. CASE AbortSucceeds
  <2>1. ~abort.failed /\ doomed' = doomed /\ plan'.status = "cancelled"
    BY <1>4 DEF AbortSucceeds, Emit
  <2>2. Quiet
    <3>. SUFFICES ASSUME NEW a \in doomed, auftraege[a].state = "live"  PROVE FALSE
      BY DEF Quiet
    <3>1. PICK r \in abort.left : Mission(r).id = a
      BY <1>1, <2>1 DEF QuietInv
    <3>2. a # 0 /\ abort.left \in SUBSET Requirements
      BY <1>1 DEF TypeInv, TypeOK, Aborts
    <3>3. {q \in abort.left : Cancelable(q)} \in SUBSET Requirements
      BY <3>2
    <3>4. r \in {q \in abort.left : Cancelable(q)}
      BY <3>1, <3>2 DEF Cancelable, Known, Auftrag
    <3>. QED  BY <1>1, <3>3, <3>4, EarliestRequirement DEF NextCancelable
  <2>3. Quiet' /\ \A a \in doomed' : auftraege'[a].state # "sent"
    BY <1>1, <2>1, <2>2 DEF Quiet, QuietInv
  <2>. QED  BY <1>1, <2>1, <2>3, CompletedIdle DEF QuietInv
<1>. QED  BY <1>3, <1>4

LEMMA QuietSubmit ==
  ASSUME TypeInv, QuietInv, NEW r \in Requirements, Submit(r)
  PROVE  QuietInv'
<1>1. /\ UNCHANGED <<plan, owned, abort, saved, doomed>> /\ run.pc = "submit"
      /\ Mission(r).status = "absent"
      /\ \A s \in Requirements \ {r} : execution'.missions[s] = execution.missions[s]
  BY SubmitTypes DEF Submit, record, history
<1>2. \A a \in DOMAIN auftraege : auftraege'[a] = auftraege[a]
  BY AppendFollows DEF Submit, TypeInv
<1>3. /\ doomed \subseteq DOMAIN auftraege /\ 0 \notin DOMAIN auftraege
      /\ abort # None => abort.left \subseteq Requirements
  BY DEF TypeInv, TypeOK, Aborts
<1>4. execution.missions[r].id = 0
  BY <1>1, MissionTypes DEF Mission
<1>5. \A s \in Requirements :
        execution.missions[s].id # 0 => execution'.missions[s].id = execution.missions[s].id
  BY <1>1, <1>4
<1>6. (Cancelled' <=> Cancelled) /\ plan.status # "completed"
  BY <1>1 DEF Cancelled, QuietInv
<1>7. ASSUME abort # None, ~abort.failed, NEW a \in doomed, auftraege'[a].state = "live"
      PROVE  \E s \in abort.left : execution'.missions[s].id = a
  <2>1. PICK s \in abort.left : execution.missions[s].id = a
    BY <1>2, <1>3, <1>7 DEF QuietInv, Mission
  <2>. QED  BY <1>3, <1>5, <1>7, <2>1
<1>8. Quiet => Quiet'
  BY <1>1, <1>2, <1>3 DEF Quiet
<1>9. \A a \in doomed' : auftraege'[a].state # "sent"
  BY <1>1, <1>2, <1>3 DEF QuietInv
<1>. QED  BY <1>1, <1>6, <1>7, <1>8, <1>9 DEF QuietInv, Mission

LEMMA QuietStart ==
  ASSUME TypeInv, QuietInv, StartAttempt
  PROVE  QuietInv'
<1>1. /\ Records /\ plan.status = "approved" /\ plan'.status = "executing"
      /\ auftraege' = auftraege /\ doomed' = doomed /\ abort' = abort /\ owned' = None
  BY StartTypes DEF StartAttempt, history
<1>2. abort = None /\ ~Cancelled
  BY <1>1 DEF StartAttempt, TypeInv, Order, Early, QuietInv
<1>3. ~Cancelled'
  BY <1>1, <1>2 DEF Cancelled, Records
<1>. QED  BY <1>1, <1>2, <1>3 DEF QuietInv

LEMMA QuietRestart ==
  ASSUME TypeInv, QuietInv, RestartClient
  PROVE  QuietInv'
<1>1. /\ UNCHANGED <<saved, auftraege, doomed>> /\ saved # None
      /\ plan' = saved.plan /\ owned' = [plan |-> saved.plan, goal |-> saved.goal]
      /\ abort' = None /\ run' = Idle
  BY DEF RestartClient, record
<1>2. Cancelled' => Cancelled /\ plan'.status = "cancelled"
  BY <1>1 DEF Cancelled
<1>3. Cancelled => Quiet'
  BY <1>1 DEF QuietInv, Quiet
<1>. QED  BY <1>1, <1>2, <1>3, IdleTyped DEF QuietInv

LEMMA QuietInit ==
  ASSUME Init
  PROVE  QuietInv
<1>1. ~Cancelled
  BY DEF Init, Cancelled
<1>. QED  BY <1>1 DEF Init, QuietInv

\* None of the AUFTRAGs an abort was to cancel lives on when the plan is
\* cancelled, whatever the coroutine beside it, MOOSE and restarts do.
THEOREM CancelledIsQuietHolds == Spec => []CancelledIsQuiet
<1>1. Init => QuietInv
  BY QuietInit
<1>2. TypeInv /\ QuietInv /\ [Next]_vars => QuietInv'
  <2>1. ASSUME TypeInv, QuietInv, Next
        PROVE  QuietInv'
    <3>1. CASE Aborting
      <4>1. CurrentPhase \in 0 .. NumPhases /\ 0 \in 0 .. NumPhases
        BY <2>1, PhaseTypes, ConstantTypes DEF TypeInv
      <4>. QED  BY <2>1, <3>1, <4>1, QuietAbort, QuietAbortMission, QuietAbortEnds DEF Aborting
    <3>2. CASE RestartClient
      BY <2>1, <3>2, QuietRestart
    <3>3. CASE StartAttempt
      BY <2>1, <3>3, QuietStart
    <3>4. CASE \E r \in Requirements : Submit(r)
      BY <2>1, <3>4, QuietSubmit
    <3>5. CASE Calm /\ ~Aborting /\ ~RestartClient
      BY <2>1, <3>5, QuietCalm
    <3>. QED  BY <2>1, <3>1, <3>2, <3>3, <3>4, <3>5, NextKeeps
  <2>2. ASSUME QuietInv, UNCHANGED vars
        PROVE  QuietInv'
    BY <2>2 DEF vars, QuietInv, Cancelled, Quiet, Mission
  <2>. QED  BY <2>1, <2>2
<1>3. QuietInv => CancelledIsQuiet
  BY DEF QuietInv, CancelledIsQuiet, Cancelled, Quiet
<1>. QED  BY <1>1, <1>2, <1>3, TypesInvariant, PTL DEF Spec

-----------------------------------------------------------------------------
(* Plan and attempt say the same.                                          *)

\* Until a second interruption, what is saved agrees too while it can be restored.
AgreeInv ==
    /\ interruptions < 2 => Agree(plan, execution)
    /\ interruptions = 0 =>
         owned = None /\ (saved # None => Agree(saved.plan, saved.execution))

\* A step after which the statuses agree, and by which nobody is interrupted.
LEMMA AgreeStep ==
  ASSUME TypeInv, AgreeInv, Records, Agree(plan, execution) => Agree(plan', execution'),
         interruptions' \in Nat, interruptions <= interruptions',
         owned' = owned \/ owned' = None
  PROVE  AgreeInv'
<1>1. interruptions \in Nat
  BY DEF TypeInv, TypeOK
<1>2. interruptions' < 2 => Agree(plan', execution')
  BY <1>1 DEF AgreeInv
<1>3. ASSUME interruptions' = 0
      PROVE  owned' = None /\ (saved' # None => Agree(saved'.plan, saved'.execution))
  <2>1. interruptions = 0 /\ owned = None /\ owned' = None
    BY <1>1, <1>3 DEF AgreeInv
  <2>2. Agree(plan', execution')
    BY <1>2, <1>3
  <2>3. CASE saved' = saved
    BY <2>1, <2>3 DEF AgreeInv
  <2>4. CASE saved'.execution = execution' /\ saved'.plan = plan'
    BY <2>1, <2>2, <2>4 DEF Agree
  <2>. QED  BY <2>1, <2>3, <2>4 DEF Records
<1>4. interruptions' < 2 => Agree(plan, execution)'
  BY <1>2 DEF Agree
<1>5. interruptions' = 0 => owned' = None /\ (saved # None => Agree(saved.plan, saved.execution))'
  BY <1>3 DEF Agree
<1>. QED  BY <1>4, <1>5 DEF AgreeInv

LEMMA AgreeRestart ==
  ASSUME TypeInv, AgreeInv, RestartClient
  PROVE  AgreeInv'
<1>1. /\ saved # None /\ plan' = saved.plan /\ execution' = saved.execution
      /\ interruptions' = interruptions + 1 /\ interruptions \in Nat
  BY DEF RestartClient, TypeInv, TypeOK
<1>2. interruptions' # 0 /\ (interruptions' < 2 => interruptions = 0)
  BY <1>1
<1>3. interruptions' < 2 => Agree(plan', execution')
  BY <1>1, <1>2 DEF AgreeInv
<1>4. interruptions' < 2 => Agree(plan, execution)'
  BY <1>3 DEF Agree
<1>. QED  BY <1>2, <1>4 DEF AgreeInv

LEMMA AgreeInvariant == Spec => []AgreeInv
<1>1. Init => AgreeInv
  BY DEF Init, AgreeInv, Agree, Early, NoExecution
<1>2. TypeInv /\ AgreeInv /\ [Next]_vars => AgreeInv'
  <2>1. ASSUME TypeInv, AgreeInv, Next
        PROVE  AgreeInv'
    <3>1. CASE Calm
      BY <2>1, <3>1, AgreeStep DEF Calm
    <3>2. CASE StartAttempt
      <4>1. Records /\ plan'.status = "executing" /\ execution'.status = "executing"
            /\ interruptions' = interruptions /\ owned' = None /\ interruptions \in Nat
        BY <2>1, <3>2, StartTypes DEF StartAttempt, TypeInv, TypeOK
      <4>2. Agree(plan', execution')
        BY <4>1 DEF Agree, Early
      <4>. QED  BY <2>1, <4>1, <4>2, AgreeStep
    <3>3. CASE RestartClient
      BY <2>1, <3>3, AgreeRestart
    <3>4. ASSUME NEW r \in Requirements, Submit(r)
          PROVE  AgreeInv'
      <4>1. Records /\ plan' = plan /\ execution'.status = execution.status
            /\ interruptions' = interruptions /\ owned' = owned /\ interruptions \in Nat
        BY <2>1, <3>4, SubmitTypes DEF TypeInv, TypeOK
      <4>2. Agree(plan, execution) => Agree(plan', execution')
        BY <4>1 DEF Agree
      <4>. QED  BY <2>1, <4>1, <4>2, AgreeStep
    <3>. QED  BY <2>1, <3>1, <3>2, <3>3, <3>4, NextKeeps
  <2>2. ASSUME AgreeInv, UNCHANGED vars
        PROVE  AgreeInv'
    BY <2>2 DEF vars, AgreeInv, Agree
  <2>. QED  BY <2>1, <2>2
<1>. QED  BY <1>1, <1>2, TypesInvariant, PTL DEF Spec

\* The plan and its latest attempt say the same, after a restart too.
THEOREM StatusesAgreeHolds == Spec => []StatusesAgree
<1>1. AgreeInv => StatusesAgree
  BY DEF AgreeInv, Agree, Early, StatusesAgree
<1>. QED  BY <1>1, AgreeInvariant, PTL

-----------------------------------------------------------------------------
(* An attempt that is not interrupted ends.                                *)

Undecided == action = "disable" /\ goal # "active"

\* Only an effect that could not be recorded is ever taken up without an
\* interruption.
AbandonedInv ==
    interruptions = 0 =>
      /\ run.pc = "idle" /\ plan.status = "executing" => Undecided
      /\ run.by # "execute" => Undecided

\* A goal is decided once, but for a restart.
LEMMA DecidedOnce ==
  ASSUME Next, ~RestartClient
  PROVE  UNCHANGED <<action, required>> /\ (goal' = goal \/ goal = "active")
<1>1. CASE Execution
  <2>1. CASE ConfirmEffect
    BY <2>1 DEF ConfirmEffect, kind
  <2>2. CASE StartAttempt \/ \E r \in Requirements : Submit(r) \/ CleanUpMission(r)
    BY <2>2 DEF StartAttempt, Submit, CleanUpMission, kind
  <2>3. CASE OnlyRecords
    BY <2>3 DEF OnlyRecords, kind
  <2>. QED
    BY <1>1, <2>1, <2>2, <2>3 DEF Execution, EnterPhase, StartPhase, RevalidationFails,
       CursorFails, Skip, Submitted, SubmissionFails, HearEvaluated, HearStatus, HearEstablished,
       WaitTimesOut, Hear, AllSubmitted, Block, MonitoringFails, MissionsFailed, SecurityFails,
       LeaveToMonitor, EffectFails, ConfirmationRaises, CleanUp, DefenseFails, CompletePhase,
       Review, SkipRest, Resume, GoalMissed, DependencyFails, Complete, Fail
<1>2. CASE Moose \/ GoalChanges
  BY <1>2 DEF Moose, Accept, Refuse, Evaluate, Moves, GoalChanges, kind
<1>3. CASE Validate \/ Approve \/ \E p \in 1 .. (NumPhases + 1) : PrepareRetry(p)
  BY <1>3 DEF Validate, Approve, PrepareRetry, OnlyPlan, kind
<1>4. CASE Execute \/ Reconcile \/ BlockInterrupted
  BY <1>4 DEF Execute, Reconcile, BlockInterrupted, Fail, NothingSubmitted, FailureObserved,
     Indeterminate, StillRunning, AllSucceeded, Observe, OnlyRecords, kind
<1>5. CASE Aborting
  BY <1>5 DEF Aborting, Abort, AbortMission, AbortFails, AbortSucceeds, OnlyAborts, kind
<1>6. CASE Interrupt
  BY <1>6 DEF Interrupt, kind
<1>. QED  BY <1>1, <1>2, <1>3, <1>4, <1>5, <1>6 DEF Next

\* The coroutine ends with a plan that is not executing, in all steps but two.
LEMMA ExecutionEnds ==
  ASSUME TypeInv, Agree(plan, execution), Execution, run'.pc = "idle", plan'.status = "executing"
  PROVE  ConfirmationRaises \/ LeaveToMonitor
<1>. run \in Runs
  BY DEF TypeInv, TypeOK
<1>1. ASSUME NEW p \in 0 .. NumPhases, Fail(p)
      PROVE  FALSE
  <2>1. CASE "cancelled" \in {plan.status, execution.status}
    BY <1>1, <2>1 DEF Fail, Blocked, Agree, Early
  <2>2. CASE "cancelled" \notin {plan.status, execution.status}
    BY <1>1, <2>2 DEF Fail, Blocked, Emit
  <2>. QED  BY <2>1, <2>2
<1>2. /\ NextPhase \in 0 .. NumPhases /\ LaterPhase \in 0 .. NumPhases
      /\ run.phase \in 0 .. NumPhases /\ 0 \in 0 .. NumPhases
  BY PhaseTypes, ConstantTypes DEF TypeInv
<1>3. ~(\/ RevalidationFails \/ CursorFails \/ Block \/ MonitoringFails \/ MissionsFailed
        \/ SecurityFails \/ EffectFails \/ DefenseFails \/ Review \/ Resume \/ DependencyFails
        \/ GoalMissed)
  BY <1>1, <1>2 DEF RevalidationFails, CursorFails, Block, MonitoringFails, MissionsFailed,
     SecurityFails, EffectFails, DefenseFails, Review, Resume, GoalMissed, DependencyFails
<1>4. ~Complete
  BY DEF Complete, Emit, TypeInv, TypeOK, Plans
<1>5. ~(StartAttempt \/ EnterPhase \/ StartPhase \/ ConfirmEffect \/ CompletePhase \/ SkipRest)
  BY DEF StartAttempt, EnterPhase, StartPhase, ConfirmEffect, CompletePhase, SkipRest, Go, Runs,
     Idle
<1>6. ASSUME NEW r \in Requirements
      PROVE  ~(\/ Submit(r) \/ Skip(r) \/ Submitted(r) \/ SubmissionFails(r) \/ HearEvaluated(r)
               \/ HearStatus(r) \/ HearEstablished(r) \/ WaitTimesOut(r) \/ CleanUpMission(r))
  BY DEF Submit, Skip, Submitted, SubmissionFails, HearEvaluated, HearStatus, HearEstablished,
     WaitTimesOut, Hear, CleanUpMission, Go, Runs
<1>7. ~(AllSubmitted \/ CleanUp)
  BY DEF AllSubmitted, CleanUp, Runs
<1>. QED  BY <1>3, <1>4, <1>5, <1>6, <1>7 DEF Execution

\* ... and goes on as what it was started as.
LEMMA ExecutionGoesOn ==
  ASSUME TypeInv, Execution
  PROVE  run'.by = run.by \/ run'.by = "execute"
<1>. run \in Runs
  BY DEF TypeInv, TypeOK
<1>1. Idle.by = "execute"
  BY IdleTyped
<1>2. CASE \/ RevalidationFails \/ CursorFails \/ Block \/ MonitoringFails \/ MissionsFailed
           \/ SecurityFails \/ EffectFails \/ DefenseFails \/ Review \/ Resume \/ DependencyFails
           \/ GoalMissed
           \/ Complete \/ LeaveToMonitor \/ ConfirmationRaises
  BY <1>1, <1>2 DEF RevalidationFails, CursorFails, Block, MonitoringFails, MissionsFailed,
     SecurityFails, EffectFails, DefenseFails, Review, Resume, GoalMissed, DependencyFails, Complete,
     LeaveToMonitor, ConfirmationRaises, Fail
<1>3. CASE \/ StartAttempt \/ EnterPhase \/ StartPhase \/ ConfirmEffect \/ CompletePhase \/ SkipRest
           \/ AllSubmitted \/ CleanUp
  BY <1>3 DEF StartAttempt, EnterPhase, StartPhase, ConfirmEffect, CompletePhase, SkipRest,
     AllSubmitted, CleanUp, Go, Runs, Idle
<1>4. ASSUME NEW r \in Requirements,
             \/ Submit(r) \/ Skip(r) \/ Submitted(r) \/ SubmissionFails(r) \/ HearEvaluated(r)
             \/ HearStatus(r) \/ HearEstablished(r) \/ WaitTimesOut(r) \/ CleanUpMission(r)
      PROVE  run'.by = run.by
  BY <1>4 DEF Submit, Skip, Submitted, SubmissionFails, HearEvaluated, HearStatus,
     HearEstablished, WaitTimesOut, Hear, CleanUpMission, Go, Runs
<1>. QED  BY <1>2, <1>3, <1>4 DEF Execution

LEMMA AbandonedKeeps ==
  ASSUME TypeInv, AgreeInv, AbandonedInv, Next
  PROVE  AbandonedInv'
<1>. SUFFICES ASSUME interruptions' = 0
              PROVE  /\ run'.pc = "idle" /\ plan'.status = "executing" => Undecided'
                     /\ run'.by # "execute" => Undecided'
  BY DEF AbandonedInv
<1>1. interruptions = 0 /\ ~RestartClient /\ ~Interrupt
  <2>1. ~RestartClient /\ ~Interrupt
    BY DEF RestartClient, Interrupt, TypeInv, TypeOK
  <2>2. StartAttempt => interruptions' = interruptions
    BY StartTypes
  <2>3. \A r \in Requirements : Submit(r) => interruptions' = interruptions
    BY SubmitTypes
  <2>4. interruptions \in Nat
    BY DEF TypeInv, TypeOK
  <2>. QED  BY <2>1, <2>2, <2>3, <2>4, NextKeeps DEF Calm
<1>2. Undecided => Undecided'
  BY <1>1, DecidedOnce DEF Undecided
<1>3. Agree(plan, execution)
  BY <1>1 DEF AgreeInv
<1>4. CASE Execution
  <2>1. ConfirmationRaises => Undecided
    BY DEF ConfirmationRaises, Undecided
  <2>2. LeaveToMonitor => Undecided
    BY <1>1 DEF LeaveToMonitor, AbandonedInv
  <2>3. run'.by # "execute" => Undecided
    BY <1>1, <1>4, ExecutionGoesOn DEF AbandonedInv
  <2>. QED  BY <1>2, <1>3, <1>4, <2>1, <2>2, <2>3, ExecutionEnds
<1>5. CASE Moose \/ GoalChanges \/ Validate \/ Approve \/ \E p \in 1 .. (NumPhases + 1) : PrepareRetry(p)
  <2>1. run' = run
    BY <1>5 DEF Moose, Accept, Refuse, Evaluate, Moves, GoalChanges, Validate, Approve,
       PrepareRetry, OnlyPlan
  <2>2. plan' = plan \/ plan'.status # "executing"
    BY <1>5 DEF Moose, Accept, Refuse, Evaluate, Moves, GoalChanges, Validate, Approve,
       PrepareRetry, TypeInv, TypeOK, Plans
  <2>. QED  BY <1>1, <1>2, <2>1, <2>2 DEF AbandonedInv
<1>6. CASE Execute
  BY <1>6, IdleTyped DEF Execute, Idle
<1>7. CASE Reconcile \/ BlockInterrupted
  <2>1. plan.status = "executing" /\ run.pc = "idle"
    BY <1>7 DEF Reconcile, BlockInterrupted, NothingSubmitted, FailureObserved, Indeterminate,
       StillRunning, AllSucceeded, Observe, Interrupted
  <2>. QED  BY <1>1, <1>2, <2>1 DEF AbandonedInv
<1>8. CASE Aborting
  <2>1. run' = run
    BY <1>8 DEF Aborting, Abort, AbortMission, AbortFails, AbortSucceeds, OnlyAborts
  <2>2. plan' = plan \/ plan'.status \in {plan.status, "blocked", "cancelled"}
    <3>1. \A phase : Abort(phase) => plan' = plan
      BY DEF Abort
    <3>2. \A r \in Requirements : AbortMission(r) => plan' = plan
      BY CancelKeeps DEF AbortMission
    <3>3. AbortFails \/ AbortSucceeds => plan'.status \in {plan.status, "blocked", "cancelled"}
      BY DEF AbortFails, AbortSucceeds, Blocked, Emit
    <3>. QED  BY <1>8, <3>1, <3>2, <3>3 DEF Aborting
  <2>. QED  BY <1>1, <1>2, <2>1, <2>2 DEF AbandonedInv
<1>. QED  BY <1>1, <1>4, <1>5, <1>6, <1>7, <1>8 DEF Next

\* Unless it is interrupted, the coroutine does not leave the plan executing,
\* but for an effect that cannot be recorded.
THEOREM NothingAbandonedHolds == Spec => []NothingAbandoned
<1>1. Init => AbandonedInv
  BY DEF Init, AbandonedInv, Idle
<1>2. TypeInv /\ AgreeInv /\ AbandonedInv /\ [Next]_vars => AbandonedInv'
  <2>1. ASSUME AbandonedInv, UNCHANGED vars
        PROVE  AbandonedInv'
    BY <2>1 DEF vars, AbandonedInv, Undecided
  <2>. QED  BY <2>1, AbandonedKeeps
<1>3. AbandonedInv => NothingAbandoned
  BY DEF AbandonedInv, NothingAbandoned, Undecided
<1>. QED  BY <1>1, <1>2, <1>3, TypesInvariant, AgreeInvariant, PTL DEF Spec

-----------------------------------------------------------------------------
(* What a completed phase was to achieve is achieved.                      *)

\* Every required AUFTRAG on record is known, but for the one on its way.
Tracked ==
    \A r \in Required : Known(r) \/ (run.pc = "sent" /\ r = Submission.requirement)

\* Until one fails, what the phase requires is earned or waited for.
Awaited ==
    /\ run.waiting \subseteq Required
    /\ ~run.failed =>
         \A r \in OfPhase(run.phase) \cap required : r \in run.waiting \/ Earned(r)

PhasesEarned ==
    \A p \in Phases : plan.phases[p] = "completed" =>
      goal = "achieved" \/ \A r \in OfPhase(p) \cap required : Earned(r)

\* What the coroutine goes by while it executes.
RunEarns ==
    /\ run.pc = "confirmed" => goal = "achieved"
    /\ Submitting => Tracked
    /\ Submitting /\ run.pc = "wait" => Awaited

EarnedInv == interruptions = 0 => PhasesEarned /\ RunEarns

LEMMA NextFollows ==
  ASSUME TypeInv, Next
  PROVE  /\ Follows(auftraege, auftraege')
         /\ interruptions' = 0 => interruptions = 0 /\ ~RestartClient /\ ~Interrupt
<1>1. \A r \in Requirements :
        Submit(r) => Follows(auftraege, auftraege') /\ interruptions' = interruptions
  BY AppendFollows DEF Submit, TypeInv, history
<1>2. StartAttempt \/ RestartClient => Follows(auftraege, auftraege')
  BY StartTypes, FollowsSame DEF RestartClient, TypeInv
<1>3. Follows(auftraege, auftraege')
  BY <1>1, <1>2, NextKeeps DEF Calm
<1>4. ASSUME interruptions' = 0
      PROVE  interruptions = 0 /\ ~RestartClient /\ ~Interrupt
  <2>1. ~RestartClient /\ ~Interrupt
    BY <1>4 DEF RestartClient, Interrupt, TypeInv, TypeOK
  <2>2. StartAttempt => interruptions' = interruptions
    BY StartTypes
  <2>3. interruptions \in Nat
    BY DEF TypeInv, TypeOK
  <2>. QED  BY <1>1, <1>4, <2>1, <2>2, <2>3, NextKeeps DEF Calm
<1>. QED  BY <1>3, <1>4

\* What is earned stays so.
LEMMA EarnedStays ==
  ASSUME NEW r \in Requirements, Earned(r), Follows(auftraege, auftraege')
  PROVE  Earned(r)'
<1>1. PICK a \in DOMAIN auftraege :
        /\ auftraege[a].requirement = r
        /\ \/ auftraege[a].state = "won"
           \/ r \in Persistent /\ auftraege[a].state \notin {"sent", "refused"}
  BY DEF Earned
<1>2. /\ a \in DOMAIN auftraege' /\ auftraege'[a].requirement = r
      /\ \/ auftraege'[a].state = "won"
         \/ r \in Persistent /\ auftraege'[a].state \notin {"sent", "refused"}
  BY <1>1 DEF Follows
<1>. QED  BY <1>2 DEF Earned

\* Only CompletePhase completes a phase.
LEMMA BlockedCompletesNone ==
  ASSUME TypeInv, NEW p \in 0 .. NumPhases, Blocked(p, execution), NEW q \in Phases,
         plan'.phases[q] = "completed"
  PROVE  plan.phases[q] = "completed"
<1>. plan \in Plans
  BY DEF TypeInv, TypeOK
<1>1. CASE plan' = plan
  BY <1>1
<1>2. CASE plan'.phases = IF p = 0 THEN plan.phases ELSE WithPhase(p, "blocked").phases
  BY <1>2 DEF WithPhase, Plans
<1>. QED  BY <1>1, <1>2 DEF Blocked, Emit

LEMMA PhasesComplete ==
  ASSUME TypeInv, Next, ~RestartClient, NEW q \in Phases,
         plan'.phases[q] = "completed", plan.phases[q] # "completed"
  PROVE  CompletePhase /\ q = run.phase
<1>. plan \in Plans
  BY DEF TypeInv, TypeOK
<1>1. /\ NextPhase \in 0 .. NumPhases /\ CurrentPhase \in 0 .. NumPhases
      /\ LaterPhase \in 0 .. NumPhases /\ run.phase \in 0 .. NumPhases /\ 0 \in 0 .. NumPhases
  BY PhaseTypes, ConstantTypes DEF TypeInv
<1>2. \A p \in 0 .. NumPhases : ~Blocked(p, execution)
  BY BlockedCompletesNone
<1>3. ~(\/ RevalidationFails \/ CursorFails \/ Block \/ MonitoringFails \/ MissionsFailed
        \/ SecurityFails \/ EffectFails \/ DefenseFails \/ Review \/ Resume \/ DependencyFails
        \/ GoalMissed
        \/ BlockInterrupted)
  BY <1>1, <1>2 DEF RevalidationFails, CursorFails, Block, MonitoringFails, MissionsFailed,
     SecurityFails, EffectFails, DefenseFails, Review, Resume, GoalMissed, DependencyFails,
     BlockInterrupted, Fail
<1>4. ~(\/ AllSubmitted \/ LeaveToMonitor \/ ConfirmationRaises \/ CleanUp \/ ConfirmEffect)
  BY DEF AllSubmitted, LeaveToMonitor, ConfirmationRaises, CleanUp, ConfirmEffect
<1>5. \A r \in Requirements :
        ~(\/ Submit(r) \/ Skip(r) \/ Submitted(r) \/ SubmissionFails(r) \/ HearEvaluated(r)
          \/ HearStatus(r) \/ HearEstablished(r) \/ WaitTimesOut(r) \/ CleanUpMission(r))
  BY DEF Submit, Skip, Submitted, SubmissionFails, HearEvaluated, HearStatus, HearEstablished,
     WaitTimesOut, Hear, CleanUpMission, CancelDone, CancelFails, EmitMission, Emit
<1>6. ~StartAttempt /\ ~EnterPhase /\ ~Complete
  BY DEF StartAttempt, EnterPhase, Complete, Emit, Plans
<1>7. ~StartPhase
  BY DEF StartPhase, Emit, WithPhase, Plans
<1>8. ~SkipRest
  BY DEF SkipRest, Emit, Plans
<1>9. CompletePhase => q = run.phase
  BY DEF CompletePhase, Emit, WithPhase, Plans
<1>10. ~(Moose \/ GoalChanges \/ Validate \/ Approve \/ Execute \/ Reconcile \/ Interrupt)
  BY DEF Moose, Accept, Refuse, Evaluate, Moves, GoalChanges, Validate, Approve, Execute,
     Reconcile, NothingSubmitted, FailureObserved, Indeterminate, StillRunning, AllSucceeded,
     Observe, Emit, Interrupt, Plans
<1>11. ~(\E p \in 1 .. (NumPhases + 1) : PrepareRetry(p))
  BY DEF PrepareRetry
<1>12. ~Aborting
  <2>1. abort # None => abort.phase \in 0 .. NumPhases
    BY DEF TypeInv, TypeOK, Aborts
  <2>2. ~AbortFails
    BY <1>1, <1>2, <2>1 DEF AbortFails
  <2>3. ~AbortSucceeds
    BY DEF AbortSucceeds, Emit
  <2>4. \A r \in Requirements : ~AbortMission(r)
    BY CancelKeeps DEF AbortMission
  <2>5. \A phase : ~Abort(phase)
    BY DEF Abort
  <2>. QED  BY <2>2, <2>3, <2>4, <2>5 DEF Aborting
<1>. QED  BY <1>3, <1>4, <1>5, <1>6, <1>7, <1>8, <1>9, <1>10, <1>11, <1>12 DEF Next, Execution

\* Required missions are known and stay on record, but for the one on its way.
LEMMA TrackedStays ==
  ASSUME Tracked, run.pc # "sent", required' = required,
         \A r \in Requirements :
           /\ r \in required /\ execution.missions[r].status = "absent" =>
                execution'.missions[r].status = "absent"
           /\ execution.missions[r].id # 0 => execution'.missions[r].id # 0
  PROVE  Tracked'
<1>. SUFFICES ASSUME NEW r \in Requirements, r \in required,
                     execution'.missions[r].status # "absent"
              PROVE  execution'.missions[r].id # 0
  BY DEF Tracked, Required, Recorded, Mission, Known
<1>1. r \in Required
  BY DEF Required, Recorded, Mission
<1>. QED  BY <1>1 DEF Tracked, Known, Mission

\* A step of others leaves the coroutine where it is.
LEMMA OthersEarn ==
  ASSUME TypeInv, RunEarns, run' = run, required' = required, goal' = goal \/ goal = "active",
         Follows(auftraege, auftraege'), DOMAIN auftraege' = DOMAIN auftraege,
         \A r \in Requirements :
           /\ execution.missions[r].status = "absent" <=> execution'.missions[r].status = "absent"
           /\ execution'.missions[r].id = execution.missions[r].id
  PROVE  RunEarns'
<1>1. run'.pc = "confirmed" => goal' = "achieved"
  BY DEF RunEarns
<1>2. Submitting' => Submitting
  BY DEF Submitting
<1>3. Required' = Required
  BY DEF Required, Recorded, Mission
<1>4. run.pc = "sent" => Submission'.requirement = Submission.requirement
  <2>. SUFFICES ASSUME run.pc = "sent"
                PROVE  Submission'.requirement = Submission.requirement
    OBVIOUS
  <2>1. auftraege \in Seq(Auftraege) /\ auftraege' \in Seq(Auftraege) /\ auftraege # << >>
    BY DEF TypeInv, TypeOK, Order, Auftraege, Follows
  <2>2. Len(auftraege') = Len(auftraege) /\ Len(auftraege) \in DOMAIN auftraege
    BY <2>1
  <2>. QED  BY <2>2 DEF Submission, Follows
<1>5. Tracked => Tracked'
  <2>. SUFFICES ASSUME Tracked, NEW r \in Required'
                PROVE  Known(r)' \/ (run'.pc = "sent" /\ r = Submission'.requirement)
    BY DEF Tracked
  <2>1. r \in Required /\ r \in Requirements
    BY <1>3 DEF Required, Recorded
  <2>2. Known(r)' <=> Known(r)
    BY <2>1 DEF Known, Mission
  <2>. QED  BY <1>4, <2>1, <2>2 DEF Tracked
<1>6. Awaited => Awaited'
  <2>. SUFFICES ASSUME Awaited
                PROVE  Awaited'
    OBVIOUS
  <2>1. run'.waiting \subseteq Required'
    BY <1>3 DEF Awaited
  <2>2. ASSUME ~run'.failed, NEW r \in Requirements, r \in OfPhase(run'.phase), r \in required'
        PROVE  r \in run'.waiting \/ Earned(r)'
    BY <2>2, EarnedStays DEF Awaited
  <2>3. OfPhase(run'.phase) \subseteq Requirements
    BY DEF OfPhase
  <2>. QED  BY <2>1, <2>2, <2>3 DEF Awaited, OfPhase
<1>. QED  BY <1>1, <1>2, <1>5, <1>6 DEF RunEarns

\* Where it submits or waits no longer, there is nothing to say of it.
LEMMA OffEarns ==
  ASSUME run'.pc \notin {"phase", "revalidate", "submit", "sent", "wait", "confirmed"}
         \/ (run'.by # "execute" /\ run'.pc # "confirmed")
  PROVE  RunEarns'
  BY DEF RunEarns, Submitting

\* It goes on to submit, with what is on record.
LEMMA GoEarns ==
  ASSUME RunEarns, Submitting, run.pc # "sent", required' = required,
         run'.pc \notin {"sent", "wait", "confirmed"},
         \A r \in Requirements :
           /\ r \in required /\ execution.missions[r].status = "absent" =>
                execution'.missions[r].status = "absent"
           /\ execution.missions[r].id # 0 => execution'.missions[r].id # 0
  PROVE  RunEarns'
<1>1. Tracked'
  BY TrackedStays DEF RunEarns
<1>. QED  BY <1>1 DEF RunEarns

LEMMA PhaseStepsEarn ==
  ASSUME TypeInv, RunEarns,
         EnterPhase \/ StartPhase \/ CompletePhase \/ ConfirmEffect \/ AllSubmitted
  PROVE  RunEarns'
<1>. run \in Runs
  BY DEF TypeInv, TypeOK
<1>1. execution'.missions = execution.missions /\ required' = required
  BY DEF EnterPhase, StartPhase, CompletePhase, ConfirmEffect, AllSubmitted, Emit, OnlyRecords,
     kind, TypeInv, TypeOK, Executions
<1>2. CASE EnterPhase \/ StartPhase
  <2>1. run'.pc \in {"revalidate", "submit"} /\ Submitting /\ run.pc # "sent"
    BY <1>2 DEF EnterPhase, StartPhase, Go, Runs, Idle, Submitting, TypeInv, Order
  <2>. QED  BY <1>1, <2>1, GoEarns
<1>3. CASE CompletePhase
  <2>1. run.pc \in {"wait", "confirmed", "cleanup"}
    BY <1>3 DEF CompletePhase, Confirmable, Settled, WaitOver, CleanedUp
  <2>2. \/ run'.pc \in {"skip", "resume"}
        \/ run'.pc = "phase" /\ run.by = "execute" /\ run.pc # "cleanup"
    BY <1>3 DEF CompletePhase, Go, Runs
  <2>3. CASE run'.pc \in {"skip", "resume"}
    BY <2>3, OffEarns
  <2>4. CASE run'.pc = "phase" /\ run.by = "execute" /\ run.pc # "cleanup"
    BY <1>1, <2>1, <2>4, GoEarns DEF Submitting
  <2>. QED  BY <2>2, <2>3, <2>4
<1>4. CASE ConfirmEffect
  <2>1. /\ goal' = "achieved" /\ run.pc = "wait" /\ run'.pc = "confirmed" /\ run'.by = run.by
    BY <1>4 DEF ConfirmEffect, Confirmable, Settled, WaitOver, Go, Runs
  <2>2. Submitting' => Submitting
    BY <2>1 DEF Submitting
  <2>3. Submitting => Tracked'
    BY <1>1, <2>1, TrackedStays DEF RunEarns
  <2>. QED  BY <2>1, <2>2, <2>3 DEF RunEarns
<1>5. CASE AllSubmitted
  <2>1. /\ run.pc = "submit" /\ run'.pc = "wait" /\ run'.by = run.by /\ run'.phase = run.phase
        /\ run'.waiting = OfPhase(run.phase) \cap Required /\ run'.failed = run.failed
        /\ UNCHANGED <<execution, auftraege>> /\ NextRequirement = 0
    BY <1>5 DEF AllSubmitted, OnlyRecords, Runs
  <2>2. Submitting
    BY <2>1 DEF Submitting, TypeInv, Order
  <2>3. Tracked'
    BY <1>1, <2>1, <2>2, TrackedStays DEF RunEarns
  <2>4. OfPhase(run.phase) \subseteq Recorded
    <3>1. OfPhase(run.phase) \ Recorded \in SUBSET Requirements
      BY DEF OfPhase
    <3>2. OfPhase(run.phase) \ Recorded # {} => NextRequirement \in Requirements
      BY <3>1, EarliestRequirement DEF NextRequirement
    <3>. QED  BY <2>1, <3>2, ConstantTypes DEF Requirements
  <2>5. Required' = Required
    BY <1>1, <2>1 DEF Required, Recorded, Mission
  <2>6. \A r \in OfPhase(run'.phase) \cap required' : r \in run'.waiting
    BY <1>1, <2>1, <2>4 DEF Required
  <2>7. Awaited'
    BY <2>1, <2>5, <2>6 DEF Awaited, OfPhase
  <2>. QED  BY <2>1, <2>3, <2>7 DEF RunEarns
<1>. QED  BY <1>2, <1>3, <1>4, <1>5

LEMMA EmittedMission ==
  ASSUME TypeInv, NEW r \in Requirements, NEW status \in MissionStatus,
         NEW id \in 0 .. MaxAuftraege, EmitMission(r, status, id)
  PROVE  /\ execution'.missions[r].status = status /\ execution'.missions[r].id = id
         /\ \A s \in Requirements \ {r} : execution'.missions[s] = execution.missions[s]
<1>. DEFINE m == [status |-> status, id |-> id]
<1>1. m \in Missions /\ m.status = status /\ m.id = id
  BY DEF Missions
<1>2. execution' = WithMission(r, m)
  BY DEF EmitMission, Emit
<1>. HIDE DEF m
<1>. QED  BY <1>1, <1>2, WithMissionTyped DEF TypeInv

LEMMA SubmissionsEarn ==
  ASSUME TypeInv, RunEarns, NEW r \in Requirements,
         Submit(r) \/ Skip(r) \/ Submitted(r) \/ SubmissionFails(r)
  PROVE  RunEarns'
<1>. run \in Runs /\ 0 \in 0 .. MaxAuftraege
  BY ConstantTypes DEF TypeInv, TypeOK
<1>1. /\ run.pc \in {"submit", "sent"} /\ run.by = "execute" /\ Submitting /\ Tracked
      /\ required' = required
  BY DEF Submit, Skip, Submitted, SubmissionFails, OnlyRecords, kind, Submitting, TypeInv, Order,
     RunEarns
<1>2. CASE Submit(r)
  <2>1. /\ run.pc = "submit" /\ run'.pc = "sent"
        /\ auftraege' = Append(auftraege, [requirement |-> r, state |-> "sent"])
        /\ auftraege \in Seq(Auftraege)
    BY <1>2 DEF Submit, Go, Runs, TypeInv, TypeOK, Auftraege
  <2>2. Submission'.requirement = r
    BY <2>1 DEF Submission
  <2>3. \A s \in Requirements \ {r} : execution'.missions[s] = execution.missions[s]
    BY <1>2, SubmitTypes
  <2>4. ASSUME NEW s \in Requirements, s \in Required', s # r
        PROVE  Known(s)'
    BY <1>1, <2>1, <2>3, <2>4 DEF Required, Recorded, Mission, Known, Tracked
  <2>5. Required' \subseteq Requirements
    BY DEF Required, Recorded
  <2>6. Tracked'
    BY <2>1, <2>2, <2>4, <2>5 DEF Tracked
  <2>. QED  BY <2>1, <2>6 DEF RunEarns
<1>3. CASE Skip(r)
  <2>1. run' = run /\ run.pc = "submit" /\ r \notin required /\ EmitMission(r, "skipped", 0)
    BY <1>3 DEF Skip
  <2>2. \A s \in Requirements \ {r} : execution'.missions[s] = execution.missions[s]
    BY <2>1, EmittedMission DEF MissionStatus
  <2>3. Mission(r).id = 0
    BY <1>3, NextUnrecorded, MissionTypes DEF Skip
  <2>. QED  BY <1>1, <2>1, <2>2, <2>3, GoEarns DEF Mission
<1>4. CASE Submitted(r) \/ SubmissionFails(r)
  <2>1. /\ run.pc = "sent" /\ r = Submission.requirement
        /\ run'.pc \in {"submit", "block"} /\ (SubmissionFails(r) /\ r \in required => run'.pc = "block")
    BY <1>4 DEF Submitted, SubmissionFails, Go, Runs
  <2>2. /\ \A s \in Requirements \ {r} : execution'.missions[s] = execution.missions[s]
        /\ Submitted(r) => execution'.missions[r].id # 0
    <3>1. /\ Len(auftraege) \in 0 .. MaxAuftraege /\ Len(auftraege) # 0
      BY <2>1, ConstantTypes DEF TypeInv, TypeOK, Order
    <3>. QED  BY <1>4, <3>1, EmittedMission DEF Submitted, SubmissionFails, MissionStatus
  <2>3. ASSUME run'.pc = "submit", NEW s \in Requirements, s \in Required'
        PROVE  Known(s)'
    <3>1. s # r \/ Submitted(r)
      BY <1>1, <1>4, <2>1, <2>3 DEF Required
    <3>2. CASE s = r
      BY <2>2, <3>1, <3>2 DEF Known, Mission
    <3>3. CASE s # r
      BY <1>1, <2>1, <2>2, <2>3, <3>3 DEF Required, Recorded, Mission, Known, Tracked
    <3>. QED  BY <3>2, <3>3
  <2>4. Required' \subseteq Requirements
    BY DEF Required, Recorded
  <2>5. CASE run'.pc = "submit"
    <3>1. Tracked'
      BY <2>3, <2>4, <2>5 DEF Tracked
    <3>. QED  BY <2>5, <3>1 DEF RunEarns
  <2>6. CASE run'.pc = "block"
    BY <2>6, OffEarns
  <2>. QED  BY <2>1, <2>5, <2>6
<1>. QED  BY <1>2, <1>3, <1>4

LEMMA HearEarns ==
  ASSUME TypeInv, RunEarns, NEW r \in Requirements,
         NEW status \in {"succeeded", "failed", "running"}, NEW over \in BOOLEAN,
         Hear(r, status, over), over /\ status # "failed" /\ Known(r) => Earned(r)
  PROVE  RunEarns'
<1>. run \in Runs
  BY DEF TypeInv, TypeOK
<1>1. /\ run.pc = "wait" /\ r \in run.waiting /\ auftraege' = auftraege /\ required' = required
      /\ run' = [run EXCEPT !.waiting = IF over THEN run.waiting \ {r} ELSE run.waiting,
                            !.failed = run.failed \/ status = "failed"]
  BY DEF Hear, OnlyRecords, kind
<1>2. /\ run'.pc = "wait" /\ run'.by = run.by /\ run'.phase = run.phase
      /\ run'.waiting = (IF over THEN run.waiting \ {r} ELSE run.waiting)
      /\ run'.failed = (run.failed \/ status = "failed")
  BY <1>1 DEF Runs
<1>. SUFFICES ASSUME Submitting'
              PROVE  Tracked' /\ Awaited'
  BY <1>2 DEF RunEarns
<1>3. Tracked /\ Awaited
  BY <1>1, <1>2 DEF RunEarns, Submitting
<1>4. /\ Mission(r).id \in 0 .. MaxAuftraege /\ Mission(r).status # "absent" /\ Known(r)
      /\ EmitMission(r, status, Mission(r).id)
  BY <1>1, <1>3, MissionTypes DEF Awaited, Tracked, Required, Recorded, Hear
<1>5. /\ execution'.missions[r].status = status /\ execution'.missions[r].id = Mission(r).id
      /\ \A s \in Requirements \ {r} : execution'.missions[s] = execution.missions[s]
  BY <1>4, EmittedMission DEF MissionStatus
<1>6. \A s \in Requirements :
        /\ execution'.missions[s].status = "absent" <=> execution.missions[s].status = "absent"
        /\ execution'.missions[s].id = execution.missions[s].id
  BY <1>4, <1>5 DEF Mission
<1>7. Tracked'
  BY <1>1, <1>3, <1>6, TrackedStays
<1>8. Required' = Required
  BY <1>1, <1>6 DEF Required, Recorded, Mission
<1>9. ASSUME ~run'.failed, NEW s \in OfPhase(run'.phase) \cap required'
      PROVE  s \in run'.waiting \/ Earned(s)'
  <2>1. s \in Requirements /\ (s \in run.waiting \/ Earned(s))
    BY <1>1, <1>2, <1>3, <1>9 DEF Awaited, OfPhase
  <2>2. s \in run'.waiting \/ Earned(s)
    BY <1>2, <1>4, <1>9, <2>1
  <2>. QED  BY <1>1, <2>1, <2>2, EarnedStays, FollowsSame DEF TypeInv
<1>10. run'.waiting \subseteq Required'
  BY <1>2, <1>3, <1>8 DEF Awaited
<1>. QED  BY <1>7, <1>9, <1>10 DEF Awaited, OfPhase

LEMMA WaitsEarn ==
  ASSUME TypeInv, RunEarns, NEW r \in Requirements,
         HearEvaluated(r) \/ HearStatus(r) \/ HearEstablished(r) \/ WaitTimesOut(r)
  PROVE  RunEarns'
<1>1. Known(r) => /\ Mission(r).id \in DOMAIN auftraege /\ auftraege[Mission(r).id].requirement = r
                  /\ auftraege[Mission(r).id].state \notin {"sent", "refused"}
  BY MissionTypes DEF Known
<1>2. CASE Auftrag(r) = "won" /\ Hear(r, "succeeded", TRUE)
  <2>1. Known(r) => Earned(r)
    BY <1>1, <1>2 DEF Earned, Auftrag
  <2>. QED  BY <1>2, <2>1, HearEarns
<1>3. CASE Hear(r, "failed", TRUE) \/ Hear(r, "running", FALSE)
  BY <1>3, HearEarns
<1>4. CASE r \in Persistent /\ Hear(r, "running", TRUE)
  <2>1. Known(r) => Earned(r)
    BY <1>1, <1>4 DEF Earned
  <2>. QED  BY <1>4, <2>1, HearEarns
<1>. QED  BY <1>2, <1>3, <1>4 DEF HearEvaluated, HearStatus, HearEstablished, WaitTimesOut

\* An abort touches only missions on record, and keeps their ids.
LEMMA AbortKeepsMissions ==
  ASSUME TypeInv, Aborting
  PROVE  /\ run' = run
         /\ \A s \in Requirements :
              /\ execution.missions[s].status = "absent" <=> execution'.missions[s].status = "absent"
              /\ execution'.missions[s].id = execution.missions[s].id
<1>. execution \in Executions /\ TypeOK
  BY DEF TypeInv, TypeOK
<1>1. run' = run
  BY DEF Aborting, Abort, AbortMission, AbortFails, AbortSucceeds, OnlyAborts
<1>2. ASSUME NEW r \in Requirements, AbortMission(r)
      PROVE  \A s \in Requirements :
               /\ execution.missions[s].status = "absent" <=> execution'.missions[s].status = "absent"
               /\ execution'.missions[s].id = execution.missions[s].id
  <2>1. CancelDone(r) \/ CancelFails(r)
    BY <1>2 DEF AbortMission
  <2>2. Mission(r).status # "absent"
    <3>1. {q \in abort.left : Cancelable(q)} \in SUBSET Requirements
      BY <1>2 DEF AbortMission, TypeOK, Aborts
    <3>2. r \in {q \in abort.left : Cancelable(q)}
      BY <1>2, <3>1, EarliestRequirement, ConstantTypes DEF AbortMission, NextCancelable
    <3>. QED  BY <3>2, MissionTypes DEF Cancelable, Known
  <2>3. \A s \in Requirements \ {r} : execution'.missions[s] = execution.missions[s]
    <3>1. CASE CancelDone(r)
      BY <3>1, MissionTypes, EmittedMission DEF CancelDone, MissionStatus
    <3>2. CASE CancelFails(r)
      BY <3>2 DEF CancelFails, Emit
    <3>. QED  BY <2>1, <3>1, <3>2
  <2>. QED  BY <2>1, <2>2, <2>3, CancelKeeps DEF Mission
<1>3. ASSUME AbortFails
      PROVE  execution'.missions = execution.missions
  <2>1. CurrentPhase \in 0 .. NumPhases /\ abort.phase \in 0 .. NumPhases
    BY <1>3, PhaseTypes DEF AbortFails, TypeOK, Aborts
  <2>. QED  BY <1>3, <2>1, BlockedTypes DEF AbortFails
<1>4. AbortSucceeds => execution'.missions = execution.missions
  BY DEF AbortSucceeds, Emit, Executions
<1>5. \A phase : Abort(phase) => execution' = execution
  BY DEF Abort
<1>. QED  BY <1>1, <1>2, <1>3, <1>4, <1>5 DEF Aborting

LEMMA RunKeepsEarning ==
  ASSUME TypeInv, RunEarns, Next, ~RestartClient, ~Interrupt
  PROVE  RunEarns'
<1>. run \in Runs
  BY DEF TypeInv, TypeOK
<1>0. Follows(auftraege, auftraege') /\ required' = required /\ (goal' = goal \/ goal = "active")
  BY NextFollows, DecidedOnce
<1>1. CASE \E r \in Requirements :
             \/ Submit(r) \/ Skip(r) \/ Submitted(r) \/ SubmissionFails(r)
             \/ HearEvaluated(r) \/ HearStatus(r) \/ HearEstablished(r) \/ WaitTimesOut(r)
  BY <1>1, SubmissionsEarn, WaitsEarn
<1>2. CASE EnterPhase \/ StartPhase \/ CompletePhase \/ ConfirmEffect \/ AllSubmitted
  BY <1>2, PhaseStepsEarn
<1>3. CASE StartAttempt
  <2>1. run'.pc = "phase"
    BY <1>3 DEF StartAttempt, Go, Runs
  <2>2. \A r \in Requirements : execution'.missions[r].status = "absent"
    BY <1>3 DEF StartAttempt, NoExecution, Unsent
  <2>3. Tracked'
    BY <2>2 DEF Tracked, Required, Recorded, Mission
  <2>. QED  BY <2>1, <2>3 DEF RunEarns
<1>4. CASE \/ RevalidationFails \/ CursorFails \/ Block \/ MonitoringFails \/ MissionsFailed
           \/ SecurityFails \/ EffectFails \/ DefenseFails \/ Review \/ Resume \/ DependencyFails
           \/ GoalMissed
           \/ BlockInterrupted \/ LeaveToMonitor \/ ConfirmationRaises \/ Complete
  <2>1. run' = Idle
    BY <1>4 DEF RevalidationFails, CursorFails, Block, MonitoringFails, MissionsFailed,
       SecurityFails, EffectFails, DefenseFails, Review, Resume, GoalMissed, DependencyFails,
       BlockInterrupted, LeaveToMonitor, ConfirmationRaises, Complete, Fail
  <2>. QED  BY <2>1, IdleTyped, OffEarns
<1>5. CASE CleanUp \/ SkipRest \/ Execute \/ \E r \in Requirements : CleanUpMission(r)
  <2>1. run'.pc \in {"cleanup", "complete", "start"}
    BY <1>5 DEF CleanUp, SkipRest, Execute, CleanUpMission, Go, Runs, Idle
  <2>. QED  BY <2>1, OffEarns
<1>6. CASE Reconcile
  <2>1. \/ run'.pc \in {"idle", "block"}
        \/ run'.pc = "wait" /\ run'.by \in {"reconcile", "monitor"}
    <3>2. NothingSubmitted => run'.pc = "block"
      BY DEF NothingSubmitted, Idle
    <3>3. ASSUME NEW p \in SUBSET Pausable, FailureObserved(p) \/ Indeterminate(p)
          PROVE  run'.pc \in {"idle", "block"}
      <4>1. \A x : [Idle EXCEPT !.pc = "block", !.phase = x].pc = "block"
        BY DEF Idle
      <4>2. CASE FailureObserved(p)
        <5>. DEFINE x == PhaseOf[Earliest(Ended(p, {"failed", "cancelled"}))]
        <5>1. run' = [Idle EXCEPT !.pc = "block", !.phase = x]
          BY <4>2 DEF FailureObserved, Observe
        <5>. HIDE DEF x
        <5>. QED  BY <4>1, <5>1
      <4>3. CASE Indeterminate(p)
        BY <4>3, IdleTyped DEF Indeterminate, Observe
      <4>. QED  BY <3>3, <4>2, <4>3
    <3>4. ASSUME NEW by \in {"reconcile", "monitor"}, StillRunning(by) \/ AllSucceeded(by)
          PROVE  run'.pc = "idle" \/ (run'.pc = "wait" /\ run'.by = by)
      <4>. DEFINE w == OfPhase(CurrentPhase) \cap Ended({}, {"running"})
      <4>1. \/ run' = Idle
            \/ run' = [Idle EXCEPT !.by = by, !.pc = "wait", !.phase = CurrentPhase]
            \/ run' = [Idle EXCEPT !.by = by, !.pc = "wait", !.phase = CurrentPhase,
                                   !.waiting = w]
        <5>1. \/ Observe({}, Idle)
              \/ Observe({}, [Idle EXCEPT !.by = by, !.pc = "wait", !.phase = CurrentPhase])
              \/ Observe({}, [Idle EXCEPT !.by = by, !.pc = "wait", !.phase = CurrentPhase,
                                          !.waiting = w])
          <6>1. CASE StillRunning(by)
            BY <6>1 DEF StillRunning
          <6>2. CASE AllSucceeded(by)
            BY <6>2 DEF AllSucceeded
          <6>. QED  BY <3>4, <6>1, <6>2
        <5>2. CASE Observe({}, Idle)
          BY <5>2 DEF Observe
        <5>3. CASE Observe({}, [Idle EXCEPT !.by = by, !.pc = "wait", !.phase = CurrentPhase])
          BY <5>3 DEF Observe
        <5>4. CASE Observe({}, [Idle EXCEPT !.by = by, !.pc = "wait", !.phase = CurrentPhase,
                                           !.waiting = w])
          BY <5>4 DEF Observe
        <5>. QED  BY <5>1, <5>2, <5>3, <5>4
      <4>. HIDE DEF w
      <4>2. CASE run' = Idle
        BY <4>2, IdleTyped
      <4>3. CASE run' = [Idle EXCEPT !.by = by, !.pc = "wait", !.phase = CurrentPhase]
        BY <4>3 DEF Idle
      <4>4. CASE run' = [Idle EXCEPT !.by = by, !.pc = "wait", !.phase = CurrentPhase,
                                     !.waiting = w]
        BY <4>4 DEF Idle
      <4>. QED  BY <4>1, <4>2, <4>3, <4>4
    <3>. QED  BY <1>6, <3>2, <3>3, <3>4 DEF Reconcile
  <2>. QED  BY <2>1, OffEarns
<1>7. CASE Moose \/ GoalChanges \/ Validate \/ Approve \/ \E p \in 1 .. (NumPhases + 1) : PrepareRetry(p)
  <2>1. run' = run /\ execution' = execution
    BY <1>7 DEF Moose, Accept, Refuse, Evaluate, Moves, GoalChanges, Validate, Approve,
       PrepareRetry, OnlyPlan
  <2>2. DOMAIN auftraege' = DOMAIN auftraege
    BY <1>7, MooseKeeps, GoalKeeps, RegistryKeeps DEF Calm
  <2>. QED  BY <1>0, <2>1, <2>2, OthersEarn
<1>8. CASE Aborting
  <2>1. DOMAIN auftraege' = DOMAIN auftraege
    BY <1>8, AbortsKeep DEF Calm
  <2>. QED  BY <1>0, <1>8, <2>1, AbortKeepsMissions, OthersEarn
<1>. QED  BY <1>1, <1>2, <1>3, <1>4, <1>5, <1>6, <1>7, <1>8 DEF Next, Execution

\* A phase is completed with its goal, or with all that it requires.
LEMMA CompletionEarned ==
  ASSUME TypeInv, AbandonedInv, RunEarns, interruptions = 0, CompletePhase
  PROVE  goal = "achieved" \/ \A r \in OfPhase(run.phase) \cap required : Earned(r)
<1>1. CASE run.pc = "confirmed" \/ (CleanedUp /\ goal = "achieved")
  BY <1>1 DEF RunEarns
<1>2. CASE Confirmable /\ action # "disable" /\ ~Defending
  <2>1. run.pc = "wait" /\ run.by = "execute"
    BY <1>2 DEF Confirmable, Settled, WaitOver, AbandonedInv, Undecided
  <2>2. Awaited
    BY <2>1 DEF RunEarns, Submitting
  <2>3. CASE run.failed
    BY <1>2, <2>3 DEF Confirmable, Settled
  <2>4. CASE ~run.failed
    <3>1. run.waiting = {}
      BY <1>2, <2>4 DEF Confirmable, Settled, WaitOver, Stopped
    <3>. QED  BY <2>2, <2>4, <3>1 DEF Awaited
  <2>. QED  BY <2>3, <2>4 DEF TypeInv, TypeOK, Runs
<1>. QED  BY <1>1, <1>2 DEF CompletePhase

LEMMA EarnedKeeps ==
  ASSUME TypeInv, AbandonedInv, EarnedInv, Next
  PROVE  EarnedInv'
<1>. SUFFICES ASSUME interruptions' = 0
              PROVE  PhasesEarned' /\ RunEarns'
  BY DEF EarnedInv
<1>1. /\ interruptions = 0 /\ ~RestartClient /\ ~Interrupt /\ PhasesEarned /\ RunEarns
      /\ Follows(auftraege, auftraege') /\ required' = required
      /\ goal = "achieved" => goal' = "achieved"
  BY NextFollows, DecidedOnce DEF EarnedInv
<1>2. ASSUME NEW p \in Phases, plan'.phases[p] = "completed", goal' # "achieved",
             NEW r \in OfPhase(p) \cap required'
      PROVE  Earned(r)'
  <2>. r \in Requirements
    BY DEF OfPhase
  <2>2. Earned(r)
    <3>1. CASE plan.phases[p] = "completed"
      BY <1>1, <1>2, <3>1 DEF PhasesEarned
    <3>2. CASE plan.phases[p] # "completed"
      BY <1>1, <1>2, <3>2, PhasesComplete, CompletionEarned
    <3>. QED  BY <3>1, <3>2
  <2>. QED  BY <1>1, <2>2, EarnedStays
<1>3. PhasesEarned'
  BY <1>2 DEF PhasesEarned, OfPhase
<1>. QED  BY <1>1, <1>3, RunKeepsEarning

\* A phase of a plan that was never interrupted is completed only when each of
\* its required AUFTRAGs succeeded or was established, or the goal is achieved.
THEOREM CompletionIsEarnedHolds == Spec => []CompletionIsEarned
<1>1. Init => AbandonedInv /\ EarnedInv
  BY DEF Init, AbandonedInv, EarnedInv, PhasesEarned, RunEarns, Submitting, Idle
<1>2. TypeInv /\ AgreeInv /\ AbandonedInv /\ EarnedInv /\ [Next]_vars => AbandonedInv' /\ EarnedInv'
  <2>1. ASSUME AbandonedInv, EarnedInv, UNCHANGED vars
        PROVE  AbandonedInv' /\ EarnedInv'
    BY <2>1 DEF vars, AbandonedInv, Undecided, EarnedInv, PhasesEarned, RunEarns, Submitting,
       Tracked, Awaited, Earned, Known, Required, Recorded, Mission, Submission, OfPhase
  <2>. QED  BY <2>1, AbandonedKeeps, EarnedKeeps
<1>3. EarnedInv => CompletionIsEarned
  BY DEF EarnedInv, PhasesEarned, CompletionIsEarned
<1>. QED  BY <1>1, <1>2, <1>3, TypesInvariant, AgreeInvariant, PTL DEF Spec

=============================================================================
