----------------------------- MODULE PlanExecution -----------------------------
(***************************************************************************)
(* One operational plan: its phases and the AUFTRAGs their requirements    *)
(* become (operational_execution.py, mission_execution_service.py, the     *)
(* plan registry of operational.py), executed, aborted, retried, and taken *)
(* up again by a client that restarts from the audit.                      *)
(*                                                                         *)
(* An action is the code between two awaits.  `run' is the coroutine of    *)
(* execute, reconcile or monitor_interrupted, `abort' that of an abort,    *)
(* which may run beside it; MOOSE moves by itself.                         *)
(***************************************************************************)
EXTENDS Integers, Sequences, FiniteSets

CONSTANTS
  NumPhases,       \* len(plan.phases), in their order
  NumRequirements, \* the asset requirements, in the order of their submission
  PhaseOf,         \* the phase of a requirement
  Kinds,           \* the StrategicGoalActions to consider, each with the
                   \* requirements that are required, in a phase not optional
  Persistent,      \* requirements whose AUFTRAG is established and stays
  Guarded,         \* phases that need assigned_ground_combat_presence_in_zone
  Reviewed,        \* phases with reconnaissance that may require replanning
  None,
  Slow,            \* requirements whose acknowledgement or outcome may be late
  Contended,       \* actions, each with an attempt beside whose coroutine an
                   \* abort may run, at most one in all
  Decided,         \* ... each with an attempt, or 0 for none yet, that is the latest
                   \* while the goal may be decided
  Unreliable,      \* actions whose plans may lose MaxLost snapshots (the audit
                   \* treats every plan alike)
  MaxAttempts, MaxAuftraege, MaxInterruptions, MaxLost

Phases == 1..NumPhases
Requirements == 1..NumRequirements

ASSUME PlanAssumption ==
  /\ NumPhases \in Nat \ {0} /\ NumRequirements \in Nat
  /\ PhaseOf \in [Requirements -> Phases]
  /\ Kinds \subseteq {"capture", "defend", "destroy", "disable"} \X SUBSET Requirements
  /\ Persistent \subseteq Requirements
  /\ Guarded \subseteq Phases /\ Reviewed \subseteq Phases
  /\ Slow \subseteq Requirements /\ Contended \subseteq STRING \X Nat
  /\ Decided \subseteq STRING \X Nat
  /\ MaxAttempts \in Nat /\ MaxAuftraege \in Nat
  /\ MaxInterruptions \in Nat /\ MaxLost \in Nat

VARIABLES
  action, required,  \* what plan it is
  goal,              \* the strategic goal's status
  plan,              \* the OperationalPlan: status and phases
  execution,         \* the latest OperationalPlanExecution
  assessed,          \* the registry holds a feasible assessment
  owned,             \* plan_ref: None, or the snapshots an attempt was restored with
  run, abort,        \* the coroutines
  saved,             \* what the daemon's audit restores
  auftraege,         \* the AUFTRAGs of MOOSE; its index is an AUFTRAG's id
  doomed,            \* history: the AUFTRAGs the last abort was to cancel
  overlapped,        \* history: an abort ran beside the coroutine
  lost,              \* snapshots that were not recorded
  interruptions      \* restarts of the client and cancellations of the coroutine

vars == <<action, required, goal, plan, execution, assessed, owned, run, abort,
          saved, auftraege, doomed, overlapped, lost, interruptions>>
kind == <<action, required>>
record == <<saved, lost>>
history == <<doomed, overlapped, interruptions>>

Working == {"executing", "blocked"}
PlanStatus == {"draft", "validated", "approved", "executing", "blocked",
               "completed", "cancelled"}
PhaseStatus == {"pending", "active", "blocked", "completed", "cancelled", "skipped"}
\* "running" stands for SUBMITTED too: nothing here tells them apart.
MissionStatus == {"absent", "pending", "skipped", "running", "succeeded", "failed",
                  "cancelled"}

Plans == [status : PlanStatus, phases : [Phases -> PhaseStatus]]
Missions == [status : MissionStatus, id : 0..MaxAuftraege]
Executions == [attempt : 0..MaxAttempts, current : 0..NumPhases,
               status : {"none", "executing", "blocked", "completed", "cancelled"},
               missions : [Requirements -> Missions]]
Goals == {"active", "achieved", "failed"}
Runs == [by : {"execute", "reconcile", "monitor"},
         pc : {"idle", "start", "phase", "revalidate", "submit", "sent", "wait",
               "confirmed", "cleanup", "skip", "resume", "block", "complete"},
         phase : 0..NumPhases, waiting : SUBSET Requirements, failed : BOOLEAN]
Aborts == [left : SUBSET Requirements, phase : 0..NumPhases, failed : BOOLEAN]
Snapshots == [execution : Executions, plan : Plans, goal : Goals]

TypeOK ==
  /\ <<action, required>> \in Kinds
  /\ goal \in Goals
  /\ plan \in Plans
  /\ execution \in Executions
  /\ assessed \in BOOLEAN
  /\ owned = None \/ owned \in [plan : Plans, goal : Goals]
  /\ run \in Runs
  /\ abort = None \/ abort \in Aborts
  /\ saved = None \/ saved \in Snapshots
  /\ auftraege \in Seq([requirement : Requirements,
                        state : {"sent", "refused", "live", "won", "lost", "cancelled"}])
  /\ Len(auftraege) <= MaxAuftraege
  /\ doomed \subseteq DOMAIN auftraege /\ overlapped \in BOOLEAN
  /\ lost \in 0..MaxLost
  /\ interruptions \in 0..MaxInterruptions

-----------------------------------------------------------------------------
(* Reading and recording.                                                  *)

Idle == [by |-> "execute", pc |-> "idle", phase |-> 0, waiting |-> {}, failed |-> FALSE]
Unsent == [status |-> "absent", id |-> 0]
NoExecution == [attempt |-> 0, current |-> 0, status |-> "none",
                missions |-> [r \in Requirements |-> Unsent]]

Mission(r) == execution.missions[r]
Auftrag(r) == auftraege[Mission(r).id].state
Known(r) == Mission(r).id # 0

Earliest(S) == IF S = {} THEN 0 ELSE CHOOSE p \in S : \A q \in S : p <= q
Latest(S) == IF S = {} THEN 0 ELSE CHOOSE p \in S : \A q \in S : q <= p

Incomplete == {p \in Phases : plan.phases[p] # "completed"}
NextPhase == Earliest(Incomplete)
OfPhase(p) == {r \in Requirements : PhaseOf[r] = p}
Recorded == {r \in Requirements : Mission(r).status # "absent"}
Required == Recorded \cap required

\* _current_execution_phase; 0 where it raises ValueError.
CurrentPhase ==
  LET active == Earliest({p \in Phases : plan.phases[p] = "active"}) IN
  IF execution.current # 0 THEN execution.current
  ELSE IF active # 0 THEN active
  ELSE Latest({PhaseOf[r] : r \in Required})

\* _persist: the snapshot replaces what is saved, or the request fails and is
\* only logged.
Save(e, p, g) ==
  \/ saved' = [execution |-> e, plan |-> p, goal |-> g] /\ lost' = lost
  \/ action \in Unreliable /\ lost < MaxLost /\ lost' = lost + 1 /\ saved' = saved

\* A fault a change of this code might introduce: the plan before the change.
FaultyPersist(p, e, g) ==
  IF owned = None THEN Save(e, plan, g) ELSE Save(e, owned.plan, owned.goal)

\* An attempt without plan_ref keeps the plan and the goal it was restored with.
Persist(p, e, g) ==
  IF owned = None THEN Save(e, p, g) ELSE Save(e, owned.plan, owned.goal)

\* _emit after the plan and the attempt changed.
Emit(p, e) ==
  /\ plan' = p
  /\ execution' = e
  /\ Persist(p, e, goal)

WithMission(r, m) == [execution EXCEPT !.missions[r] = m]
WithPhase(p, status) == [plan EXCEPT !.phases[p] = status]

\* _mission_event: mission r changed.
EmitMission(r, status, id) ==
  Emit(plan, WithMission(r, [status |-> status, id |-> id]))

\* A fault: a cancelled plan is blocked too.
FaultyBlocked(p, e) ==
  Emit([status |-> "blocked",
        phases |-> IF p = 0 THEN plan.phases ELSE WithPhase(p, "blocked").phases],
       [e EXCEPT !.status = "blocked", !.current = p])

\* _block: the attempt e ends at phase p, or at none.
Blocked(p, e) ==
  IF "cancelled" \in {plan.status, e.status}
  THEN plan' = plan /\ execution' = e /\ UNCHANGED record
  ELSE Emit([status |-> "blocked",
             phases |-> IF p = 0 THEN plan.phases ELSE WithPhase(p, "blocked").phases],
            [e EXCEPT !.status = "blocked", !.current = p])

Go(pc) == run' = [run EXCEPT !.pc = pc]

\* What a step of the coroutine that only records leaves alone.
OnlyRecords ==
  UNCHANGED <<kind, goal, assessed, owned, abort, auftraege, history>>

\* The coroutine returns what _block returns.
Fail(p) == Blocked(p, execution) /\ run' = Idle /\ OnlyRecords

Init ==
  /\ \E k \in Kinds : action = k[1] /\ required = k[2]
  /\ goal = "active"
  /\ plan = [status |-> "draft", phases |-> [p \in Phases |-> "pending"]]
  /\ execution = NoExecution
  /\ assessed = FALSE
  /\ owned = None
  /\ run = Idle /\ abort = None
  /\ saved = None /\ lost = 0
  /\ auftraege = <<>>
  /\ doomed = {} /\ overlapped = FALSE
  /\ interruptions = 0

-----------------------------------------------------------------------------
(* MOOSE and the world.                                                    *)

Moves(a, from, to) ==
  /\ auftraege[a].state = from
  /\ auftraege' = [auftraege EXCEPT ![a].state = to]
  /\ UNCHANGED <<kind, goal, plan, execution, assessed, owned, run, abort, record,
                 history>>

Accept(a) == Moves(a, "sent", "live")
Refuse(a) == Moves(a, "sent", "refused")
Evaluate(a) == \E s \in {"won", "lost"} : Moves(a, "live", s)

\* sync: an active goal is achieved, or it fails or is cancelled.
GoalChanges ==
  /\ goal = "active" /\ <<action, execution.attempt>> \in Decided
  /\ goal' \in {"achieved", "failed"}
  /\ UNCHANGED <<kind, plan, execution, assessed, owned, run, abort, record, auftraege,
                 history>>

-----------------------------------------------------------------------------
(* The registry.                                                           *)

OnlyPlan == UNCHANGED <<kind, goal, execution, owned, run, abort, record, auftraege,
                        history>>

\* validate of a plan that is not executed.  An infeasible one stays a draft.
Validate ==
  /\ plan.status \in {"draft", "approved"} /\ ~assessed
  /\ plan' = [plan EXCEPT !.status = "validated"]
  /\ assessed' = TRUE
  /\ OnlyPlan

Approve ==
  /\ plan.status = "validated" /\ assessed
  /\ plan' = [plan EXCEPT !.status = "approved"]
  /\ assessed' = assessed
  /\ OnlyPlan

\* prepare_retry from phase p on, NumPhases + 1 when none is left; beside a
\* coroutine that a failed abort left, and beside an abort, too.
PrepareRetry(p) ==
  /\ plan.status = "blocked" /\ execution.status = "blocked"
  /\ \A q \in Incomplete : q >= p
  /\ plan' = [status |-> "draft",
              phases |-> [q \in Phases |-> IF q >= p THEN "pending" ELSE plan.phases[q]]]
  /\ assessed' = FALSE
  /\ OnlyPlan

-----------------------------------------------------------------------------
(* execute.                                                                *)

\* A bound: no attempt starts beside the coroutine or the abort of another.
OneAttempt == run.pc = "idle" /\ abort = None

\* Its guards; the latest attempt is recorded before a new one starts.
Execute ==
  /\ plan.status = "approved" /\ assessed /\ goal # "failed"
  /\ OneAttempt /\ execution.status # "executing"
  /\ execution.attempt < MaxAttempts
  /\ run' = [Idle EXCEPT !.pc = "start"]
  /\ IF execution.attempt = 0 THEN UNCHANGED record ELSE Persist(plan, execution, goal)
  /\ UNCHANGED <<plan, execution>> /\ OnlyRecords

StartAttempt ==
  /\ run.pc = "start"
  /\ LET p == [plan EXCEPT !.status = "executing"]
         e == [NoExecution EXCEPT !.attempt = execution.attempt + 1, !.status = "executing"]
     IN /\ plan' = p /\ execution' = e
        /\ Save(e, p, goal)
  /\ owned' = None
  /\ Go("phase")
  /\ UNCHANGED <<kind, goal, assessed, abort, auftraege, history>>

\* The loop over the phases does not turn back to one that a retry reset.
LaterPhase == Earliest({p \in Incomplete : p > run.phase})

\* A phase depends on the one before it.
DependencyMet == LaterPhase - 1 \notin Incomplete

EnterPhase ==
  /\ run.pc = "phase" /\ LaterPhase # 0 /\ DependencyMet
  /\ Emit(plan, [execution EXCEPT !.current = LaterPhase])
  /\ run' = [Idle EXCEPT !.pc = "revalidate", !.phase = LaterPhase]
  /\ OnlyRecords

\* A retry reset the phase it depends on.
DependencyFails ==
  /\ run.pc = "phase" /\ LaterPhase # 0 /\ ~DependencyMet
  /\ Fail(LaterPhase)

\* The goal was achieved before a phase completed.
AlreadyAchieved == goal = "achieved" /\ Incomplete = Phases

\* COMMANDER, assets and targets are as the phase needs them.
StartPhase ==
  /\ run.pc = "revalidate" /\ ~AlreadyAchieved /\ goal # "failed"
  /\ Emit(WithPhase(run.phase, "active"), execution)
  /\ Go("submit")
  /\ OnlyRecords

\* They are not, or the goal failed.
RevalidationFails == run.pc = "revalidate" /\ ~AlreadyAchieved /\ Fail(run.phase)

\* Faults: the failure is not caught, ...
FaultyCursorFails ==
  /\ run.pc = "submit" /\ action = "destroy" /\ OfPhase(run.phase) \cap Recorded = {}
  /\ run' = Idle
  /\ UNCHANGED <<plan, execution, record>> /\ OnlyRecords

\* event_cursor fails before the first submission of a DESTROY phase.
CursorFails ==
  /\ run.pc = "submit" /\ action = "destroy" /\ OfPhase(run.phase) \cap Recorded = {}
  /\ Fail(run.phase)

NextRequirement == Earliest(OfPhase(run.phase) \ Recorded)

\* The record is in memory only when the command goes out.
Submit(r) ==
  /\ run.pc = "submit" /\ r = NextRequirement
  /\ Len(auftraege) < MaxAuftraege
  /\ execution' = WithMission(r, [status |-> "pending", id |-> 0])
  /\ auftraege' = Append(auftraege, [requirement |-> r, state |-> "sent"])
  /\ Go("sent")
  /\ UNCHANGED <<kind, goal, plan, assessed, owned, abort, record, history>>

\* An optional requirement is short of assets.
Skip(r) ==
  /\ run.pc = "submit" /\ r = NextRequirement /\ r \notin required
  /\ EmitMission(r, "skipped", 0)
  /\ run' = run
  /\ OnlyRecords

Submission == auftraege[Len(auftraege)]

Submitted(r) ==
  /\ run.pc = "sent" /\ Mission(r).status = "pending" /\ r = Submission.requirement
  /\ Submission.state \notin {"sent", "refused"}
  /\ EmitMission(r, "running", Len(auftraege))
  /\ Go("submit")
  /\ OnlyRecords

\* MOOSE refuses, or the acknowledgement is not heard in time.
SubmissionFails(r) ==
  /\ run.pc = "sent" /\ Mission(r).status = "pending" /\ r = Submission.requirement
  /\ Submission.state = "refused" \/ r \in Slow
  /\ EmitMission(r, "failed", 0)
  /\ Go(IF r \in required THEN "block" ELSE "submit")
  /\ OnlyRecords

Block == run.pc = "block" /\ Fail(run.phase)

AllSubmitted ==
  /\ run.pc = "submit" /\ NextRequirement = 0
  /\ run' = [run EXCEPT !.pc = "wait", !.waiting = OfPhase(run.phase) \cap Required]
  /\ UNCHANGED <<plan, execution, record>> /\ OnlyRecords

-----------------------------------------------------------------------------
(* wait_for_required, for execute and for monitor_interrupted.             *)

\* The other waits are cancelled with the first failure, but for DESTROY.
Stopped == run.failed /\ ~(run.by = "execute" /\ action = "destroy")

\* One wait_for_mission hears of r, and is over or not.
Hear(r, status, over) ==
  /\ run.pc = "wait" /\ r \in run.waiting /\ ~Stopped
  /\ EmitMission(r, status, Mission(r).id)
  /\ run' = [run EXCEPT !.waiting = IF over THEN @ \ {r} ELSE @,
                        !.failed = @ \/ status = "failed"]
  /\ OnlyRecords

\* ... an AUFTRAG that is over counts as a success, ...
FaultyHearEvaluated(r) == Known(r) /\ Auftrag(r) \in {"won", "lost"} /\ Hear(r, "succeeded", TRUE)

HearEvaluated(r) ==
  \/ Known(r) /\ Auftrag(r) = "won" /\ Hear(r, "succeeded", TRUE)
  \/ Known(r) /\ Auftrag(r) \in {"lost", "cancelled"} /\ Hear(r, "failed", TRUE)

HearStatus(r) == Mission(r).status # "running" /\ Hear(r, "running", FALSE)

HearEstablished(r) == r \in Persistent /\ Hear(r, "running", TRUE)

WaitTimesOut(r) == r \in Slow /\ Hear(r, "failed", TRUE)

\* A DEFEND phase lasts until its goal is decided.
Defending == run.by = "execute" /\ action = "defend"

WaitOver ==
  /\ run.pc = "wait"
  /\ Stopped \/ (IF Defending THEN goal # "active" ELSE run.waiting = {})

\* The destruction events are no longer complete, or no decision came in time.
MonitoringFails ==
  /\ run.pc = "wait" /\ run.by = "execute"
  /\ \/ action = "destroy" /\ WaitOver
     \/ action = "defend" /\ goal = "active" /\ Slow # {}
  /\ Fail(run.phase)

MissionsFailed ==
  /\ WaitOver /\ run.failed
  /\ run.by = "execute" => goal # "achieved"
  /\ Fail(run.phase)

\* ... the failure of a required mission is not looked at, ...
FaultySettled == WaitOver

\* What the end of a phase still depends on.
Settled == WaitOver /\ (run.failed => run.by = "execute" /\ goal = "achieved")

Secured == run.phase \in Guarded /\ (run.by # "execute" => action = "capture")

\* The guard is not there, or not in time.
SecurityFails ==
  /\ Settled /\ Secured /\ run.by # "reconcile"
  /\ Fail(run.phase)

\* Only monitoring confirms a guard; reconcile reports that the plan is running.
LeaveToMonitor ==
  /\ Settled /\ Secured /\ run.by = "reconcile"
  /\ run' = Idle
  /\ UNCHANGED <<plan, execution, record>> /\ OnlyRecords

Confirmable == Settled /\ ~(Secured /\ run.by = "reconcile")

\* _confirm_disable_effect.
Effective ==
  LET missions == OfPhase(run.phase) \cap Required IN
  missions # {} /\ \A r \in missions : Mission(r).status = "succeeded"

EffectFails ==
  /\ Confirmable /\ action = "disable" /\ ~Effective
  /\ Fail(run.phase)

ConfirmEffect ==
  /\ Confirmable /\ action = "disable" /\ Effective /\ goal = "active"
  /\ goal' = "achieved"
  /\ Persist(plan, execution, "achieved")
  /\ Go("confirmed")
  /\ UNCHANGED <<kind, plan, execution, assessed, owned, abort, auftraege, history>>

\* complete_manual of a goal that is not active raises; nobody catches it.
ConfirmationRaises ==
  /\ Confirmable /\ action = "disable" /\ Effective /\ goal # "active"
  /\ run' = Idle
  /\ UNCHANGED <<plan, execution, record>> /\ OnlyRecords

\* cancel_active of what is left once a DEFEND goal is decided.
CleanUp ==
  /\ Confirmable /\ Defending
  /\ run' = [run EXCEPT !.pc = "cleanup",
       !.waiting = {r \in Recorded : Known(r) /\ Mission(r).status = "running"}]
  /\ UNCHANGED <<plan, execution, record>> /\ OnlyRecords

Canceled(a) ==
  IF auftraege[a].state = "live" THEN [auftraege EXCEPT ![a].state = "cancelled"]
  ELSE auftraege

\* One command of _cancel_selected, done, or failed for all Python knows.
CancelDone(r) ==
  /\ auftraege' = Canceled(Mission(r).id)
  /\ EmitMission(r, "cancelled", Mission(r).id)

CancelFails(r) ==
  /\ auftraege' \in {auftraege, Canceled(Mission(r).id)}
  /\ Emit(plan, execution)

CleanUpMission(r) ==
  /\ run.pc = "cleanup" /\ r = Earliest(run.waiting)
  /\ run' = [run EXCEPT !.waiting = @ \ {r}]
  /\ CancelDone(r) \/ CancelFails(r)
  /\ UNCHANGED <<kind, goal, assessed, owned, abort, history>>

CleanedUp == run.pc = "cleanup" /\ run.waiting = {}

DefenseFails == CleanedUp /\ goal = "failed" /\ Fail(run.phase)

CompletePhase ==
  /\ \/ Confirmable /\ action # "disable" /\ ~Defending
     \/ run.pc = "confirmed"
     \/ CleanedUp /\ goal = "achieved"
  /\ Emit(WithPhase(run.phase, "completed"), execution)
  /\ Go(IF run.pc = "cleanup" THEN "skip"
        ELSE IF run.by = "execute" THEN "phase" ELSE "resume")
  /\ OnlyRecords

\* The RECON assessment of the phase fails, or asks for replanning.
Review ==
  /\ run.pc = "phase" /\ run.phase \in Reviewed
  /\ Fail(NextPhase)

\* The rest of a plan whose goal is achieved.
SkipRest ==
  /\ run.pc = "skip" \/ (run.pc = "revalidate" /\ AlreadyAchieved)
  /\ Emit([plan EXCEPT !.phases = [p \in Phases |->
        IF @[p] = "pending" \/ (run.pc = "revalidate" /\ @[p] # "completed")
        THEN "skipped" ELSE @[p]]], execution)
  /\ Go("complete")
  /\ OnlyRecords

\* What was interrupted is complete; the phases left need approval again.
Resume ==
  /\ run.pc = "resume" /\ NextPhase # 0
  /\ Fail(NextPhase)

NoPhaseLeft ==
  \/ run.pc = "phase" /\ LaterPhase = 0
  \/ run.pc = "resume" /\ NextPhase = 0

GoalMissed == NoPhaseLeft /\ goal # "achieved" /\ Fail(0)

\* The goal is achieved, or a review found it so before the last phase.
Complete ==
  /\ \/ run.pc = "complete"
     \/ NoPhaseLeft /\ goal = "achieved"
  /\ Emit([plan EXCEPT !.status = "completed"],
          [execution EXCEPT !.status = "completed", !.current = 0])
  /\ run' = Idle
  /\ OnlyRecords

Execution ==
  \/ StartAttempt \/ EnterPhase \/ DependencyFails \/ StartPhase \/ RevalidationFails \/ CursorFails
  \/ \E r \in Requirements :
       \/ Submit(r) \/ Skip(r) \/ Submitted(r) \/ SubmissionFails(r)
       \/ HearEvaluated(r) \/ HearStatus(r) \/ HearEstablished(r) \/ WaitTimesOut(r)
       \/ CleanUpMission(r)
  \/ AllSubmitted \/ Block
  \/ MonitoringFails \/ MissionsFailed \/ SecurityFails \/ LeaveToMonitor
  \/ EffectFails \/ ConfirmEffect \/ ConfirmationRaises
  \/ CleanUp \/ DefenseFails \/ CompletePhase \/ Review \/ SkipRest
  \/ Resume \/ GoalMissed \/ Complete

-----------------------------------------------------------------------------
(* reconcile and monitor_interrupted, from one AUFTRAG snapshot.           *)

\* A bound: the attempts whose coroutine and abort may run side by side.
MayContend == <<action, execution.attempt>> \in Contended

Interrupted ==
  /\ plan.status = "executing" /\ execution.status = "executing"
  /\ run.pc = "idle" /\ (abort # None => MayContend)

\* A fault: what MOOSE says is recorded as it is.
FaultyObserved(r, paused) ==
  IF r \notin Required \/ ~Known(r) \/ r \in paused THEN Mission(r).status ELSE Auftrag(r)

\* reconcile_snapshot; a paused AUFTRAG's status is not one it recognizes.
Observed(r, paused) ==
  IF \/ r \notin Required \/ ~Known(r) \/ r \in paused
     \/ Mission(r).status \in {"succeeded", "failed", "cancelled"}
  THEN Mission(r).status
  ELSE CASE Auftrag(r) = "won"       -> "succeeded"
         [] Auftrag(r) = "lost"      -> "failed"
         [] Auftrag(r) = "cancelled" -> "cancelled"
         [] OTHER                    -> "running"

\* Ends or goes on with what the snapshot shows; `next' is where the run goes.
Observe(paused, next) ==
  /\ Interrupted
  /\ Emit(plan, [execution EXCEPT !.missions =
       [r \in Requirements |-> [@[r] EXCEPT !.status = Observed(r, paused)]]])
  /\ run' = next
  /\ OnlyRecords

Pausable == {r \in Required : Known(r) /\ Auftrag(r) = "live"}
Ended(p, status) == {r \in Required : Observed(r, p) \in status}
Unrecognized(p) == {r \in Required : ~Known(r)} \cup p

\* A fault: the phase is simply taken up.
FaultyNothingSubmitted ==
  /\ Interrupted
  /\ Required = {} /\ (\A r \in Recorded : Mission(r).status = "skipped")
  /\ CurrentPhase # 0
  /\ run' = [Idle EXCEPT !.pc = "submit", !.phase = CurrentPhase]
  /\ UNCHANGED <<plan, execution, record>> /\ OnlyRecords

\* Nothing was submitted: a safe boundary, if it is known where.
NothingSubmitted ==
  /\ Interrupted
  /\ Required = {} /\ (\A r \in Recorded : Mission(r).status = "skipped")
  /\ CurrentPhase # 0
  /\ run' = [Idle EXCEPT !.pc = "block", !.phase = CurrentPhase]
  /\ UNCHANGED <<plan, execution, record>> /\ OnlyRecords

FailureObserved(p) ==
  LET failed == Ended(p, {"failed", "cancelled"}) IN
  /\ failed # {}
  /\ Observe(p, [Idle EXCEPT !.pc = "block", !.phase = PhaseOf[Earliest(failed)]])

\* Of some required missions nothing can be said.
Indeterminate(p) ==
  /\ Ended(p, {"failed", "cancelled"}) = {} /\ Unrecognized(p) # {}
  /\ Observe(p, Idle)

StillRunning(by) ==
  /\ Ended({}, {"failed", "cancelled"}) = {} /\ Unrecognized({}) = {}
  /\ Ended({}, {"succeeded"}) # Required
  /\ Observe({}, IF by = "reconcile" THEN Idle
                 ELSE [Idle EXCEPT !.by = by, !.pc = "wait", !.phase = CurrentPhase,
                        !.waiting = OfPhase(CurrentPhase) \cap Ended({}, {"running"})])

AllSucceeded(by) ==
  /\ Required # {} /\ Ended({}, {"succeeded"}) = Required
  /\ Observe({}, [Idle EXCEPT !.by = by, !.pc = "wait", !.phase = CurrentPhase])

Reconcile ==
  \/ NothingSubmitted
  \/ \E p \in SUBSET Pausable : FailureObserved(p) \/ Indeterminate(p)
  \/ \E by \in {"reconcile", "monitor"} : StillRunning(by) \/ AllSucceeded(by)

\* block_interrupted.
BlockInterrupted == Interrupted /\ Fail(CurrentPhase)

-----------------------------------------------------------------------------
(* abort.                                                                  *)

\* The missions are chosen before the first await; phase 0 is the attempt.
Abort(phase) ==
  /\ abort = None /\ ~overlapped
  /\ run.pc # "idle" => MayContend
  /\ plan.status \in Working /\ execution.status \in Working
  /\ LET left == IF phase = 0 THEN Recorded ELSE Recorded \cap OfPhase(phase) IN
     /\ abort' = [left |-> left, phase |-> phase, failed |-> FALSE]
     /\ doomed' = {Mission(r).id : r \in {q \in left : Known(q)}}
  /\ overlapped' = (overlapped \/ run.pc # "idle")
  /\ UNCHANGED <<kind, goal, plan, execution, assessed, owned, run, record, auftraege,
                 interruptions>>

OnlyAborts == UNCHANGED <<kind, goal, assessed, owned, run, overlapped, interruptions>>

\* A fault: the record is believed.
FaultyCancelable(r) ==
  Known(r) /\ Auftrag(r) = "live" /\ Mission(r).status = "running"

\* cancel_live: what MOOSE says is live, whatever the record says.
Cancelable(r) == Known(r) /\ Auftrag(r) = "live"

NextCancelable == Earliest({r \in abort.left : Cancelable(r)})

AbortMission(r) ==
  /\ abort # None /\ r = NextCancelable
  /\ \E failed \in BOOLEAN :
       /\ abort' = [abort EXCEPT !.left = {q \in @ : q > r}, !.failed = @ \/ failed]
       /\ IF failed THEN CancelFails(r) ELSE CancelDone(r)
  /\ doomed' = doomed /\ OnlyAborts

\* A command failed: the plan stays blocked.
AbortFails ==
  /\ abort # None /\ NextCancelable = 0 /\ abort.failed
  /\ abort' = None
  /\ Blocked(IF abort.phase # 0 THEN abort.phase ELSE CurrentPhase, execution)
  /\ auftraege' = auftraege /\ doomed' = {} /\ OnlyAborts

AbortSucceeds ==
  /\ abort # None /\ NextCancelable = 0 /\ ~abort.failed
  /\ abort' = None
  /\ Emit([status |-> "cancelled",
           phases |-> [p \in Phases |->
             CASE plan.phases[p] = "completed"             -> "completed"
               [] plan.phases[p] \in {"active", "blocked"} -> "cancelled"
               [] OTHER                                    -> "skipped"]],
          [execution EXCEPT !.status = "cancelled", !.current = 0])
  /\ UNCHANGED <<auftraege, doomed>> /\ OnlyAborts

Aborting ==
  \/ Abort(0) \/ (CurrentPhase # 0 /\ Abort(CurrentPhase))
  \/ \E r \in Requirements : AbortMission(r)
  \/ AbortFails \/ AbortSucceeds

-----------------------------------------------------------------------------
(* Failures.                                                               *)

\* The task of the coroutine is cancelled.
Interrupt ==
  /\ run.pc # "idle" /\ interruptions < MaxInterruptions
  /\ run' = Idle
  /\ interruptions' = interruptions + 1
  /\ UNCHANGED <<kind, goal, plan, execution, assessed, owned, abort, record, auftraege,
                 doomed, overlapped>>

\* The client dies, and its successor restores the plan.
RestartClient ==
  /\ saved # None /\ interruptions < MaxInterruptions
  /\ plan' = saved.plan /\ execution' = saved.execution /\ goal' = saved.goal
  /\ owned' = [plan |-> saved.plan, goal |-> saved.goal]
  /\ assessed' = FALSE
  /\ run' = Idle /\ abort' = None
  /\ interruptions' = interruptions + 1
  /\ UNCHANGED <<kind, record, auftraege, doomed, overlapped>>

Moose == \E a \in DOMAIN auftraege : Accept(a) \/ Refuse(a) \/ Evaluate(a)

Next ==
  \/ Moose \/ GoalChanges
  \/ Validate \/ Approve \/ (\E p \in 1..(NumPhases + 1) : PrepareRetry(p))
  \/ Execute \/ Execution
  \/ Reconcile \/ BlockInterrupted
  \/ Aborting
  \/ Interrupt \/ RestartClient

Spec == Init /\ [][Next]_vars

-----------------------------------------------------------------------------
(* Properties.                                                             *)

\* The plan and its latest attempt say the same, after a restart too.  A
\* second one may differ: what is recorded of a restored attempt keeps the plan
\* it was restored with.  (_block, execute, abort, restore_operational_plan)
StatusesAgree ==
  interruptions < 2 =>
    IF plan.status \in {"draft", "validated", "approved"}
    THEN execution.status \in {"none", "blocked"}
    ELSE execution.status = plan.status

\* A mission is recorded as succeeded only if MOOSE evaluated its own AUFTRAG
\* so.  (wait_for_mission, reconcile_snapshot, _cancel_selected)
SuccessIsEarned ==
  \A r \in Requirements :
    Mission(r).status = "succeeded" =>
      auftraege[Mission(r).id] = [requirement |-> r, state |-> "won"]

\* A phase of a plan that was never interrupted is completed only when each of
\* its required AUFTRAGs succeeded or was established, or the goal is achieved,
\* over failed submissions, failed attempts and their retries.
Earned(r) ==
  \E a \in DOMAIN auftraege :
    /\ auftraege[a].requirement = r
    /\ \/ auftraege[a].state = "won"
       \/ r \in Persistent /\ auftraege[a].state \notin {"sent", "refused"}

CompletionIsEarned ==
  interruptions = 0 =>
    \A p \in Phases : plan.phases[p] = "completed" =>
      goal = "achieved" \/ \A r \in OfPhase(p) \cap required : Earned(r)

\* None of the AUFTRAGs an abort was to cancel, timed out ones included, lives
\* on when the plan is cancelled (README.md:1078-1081), whatever else ran.
CancelledIsQuiet ==
  plan.status = "cancelled" => \A a \in doomed : auftraege[a].state # "live"

\* Nobody blocks or resumes a cancelled plan: a coroutine that was under way
\* when it was aborted may complete it, no more.  (_block)
CancelledStaysCancelled ==
  [][plan.status = "cancelled" =>
       \/ plan'.status \in {"cancelled", "completed"}
       \/ interruptions' # interruptions]_vars

\* Unless it is interrupted, the coroutine does not leave the plan executing,
\* but for an effect that cannot be recorded.  (execute, _block)
NothingAbandoned ==
  interruptions = 0 /\ run.pc = "idle" /\ plan.status = "executing"
    => action = "disable" /\ goal # "active"

\* README.md:163-164: an existing AUFTRAG is monitored without being submitted
\* again.  An attempt tasks each requirement once, however often it is
\* interrupted and taken up; only a retry, a new attempt, does so again.  It
\* needs the record of the attempt, which is made before its first submission.
OncePerAttempt ==
  lost = 0 => \A r \in Requirements :
    Cardinality({a \in DOMAIN auftraege : auftraege[a].requirement = r}) <= execution.attempt
=============================================================================
