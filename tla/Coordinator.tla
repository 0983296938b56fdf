------------------------------ MODULE Coordinator ------------------------------
(***************************************************************************)
(* The strategic coordinator (strategic_coordinator.py): one worker per    *)
(* coalition, which selects candidates in cycles, under a lock they share, *)
(* and executes the plans of its selection beside the other worker.  It is *)
(* bound to one mission; a coordinator that is started again restores      *)
(* schedule and cooldowns from the audit and takes up the plans it finds   *)
(* interrupted before it selects anything.                                 *)
(*                                                                         *)
(* An action is the code between two awaits, or more where nothing else    *)
(* looks.  How a plan is executed is PlanExecution's; here an execution    *)
(* starts, ends completed or blocked, or raises.                           *)
(***************************************************************************)
EXTENDS Integers, Sequences, FiniteSets

CONSTANTS
    Coalitions,   \* blue and red
    Candidates,   \* actions on objectives, each on an objective of its own
    SideOf,       \* the coalition of a candidate
    None,
    Limit,        \* max_concurrent_goals
    Cadence,      \* of the cycles of a coalition
    Backoff,      \* after a cycle that selected nothing
    Cooldown,     \* after an attempt that completed, was blocked or failed
    MaxTime,      \* bounds of the mission time,
    MaxAttempts,  \* of the attempts at each candidate,
    MaxCycles,    \* of the cycles on record of each coalition,
    MaxRestarts,  \* of the restarts of the client,
    MaxMishaps    \* and of executions that raise and last snapshots not recorded

ASSUME CoordinatorAssumption ==
    /\ IsFiniteSet(Candidates) /\ SideOf \in [Candidates -> Coalitions]
    /\ None \notin Candidates \X Nat /\ None \notin Nat
    /\ None \notin [since : Nat, until : Nat]
    /\ Limit \in Nat \ {0} /\ Cadence \in Nat \ {0} /\ Backoff \in Nat
    /\ Cooldown \in [{"completed", "blocked", "failed"} -> Nat]
    /\ MaxTime \in Nat /\ MaxAttempts \in [Candidates -> Nat]
    /\ MaxCycles \in [Coalitions -> Nat]
    /\ MaxRestarts \in Nat /\ MaxMishaps \in Nat

VARIABLES
    now,          \* the mission time
    ended,        \* the mission is over,
    aware,        \* and the client knows: _mission_ended, or the generation
    worker,       \* where each coalition's worker is
    cycle,        \* its cycle under way
    hand,         \* the attempt it is recovering, <<candidate, number>>
    interrupted,  \* the attempts it has yet to recover
    open,         \* the candidates whose goals are open in the client
    last,         \* _last_cycle_mission_time
    notBefore,    \* _not_before_mission_time
    cooldown,     \* _cooldowns
    attempts,     \* the audit: the latest snapshot of each attempt,
    cycles,       \* and the cycles
    restarts, mishaps

world == <<now, ended, aware>>
schedule == <<last, notBefore>>
recovery == <<hand, interrupted>>
audit == <<attempts, cycles>>
bounds == <<restarts, mishaps>>
vars == <<world, worker, cycle, recovery, open, schedule, cooldown, audit, bounds>>

-----------------------------------------------------------------------------
(* Candidates, attempts and cooldowns.                                     *)

Time == 0 .. MaxTime
Of(c) == {k \in Candidates : SideOf[k] = c}
Untils == [Candidates -> Nat \union {None}]

\* Named in the audit by its candidate and its number among the candidate's;
\* a plan is named by its candidate and the time it was recommended at.
Attempts == [plan : Time, status : {"executing", "blocked", "completed"},
             started : Time, ended : Time]
Cooldowns == [since : Time, until : Nat]
Cycles == [started : Time, plan : Time, todo : SUBSET Candidates,
           ready : SUBSET Candidates, running : SUBSET Candidates,
           until : Untils, empty : BOOLEAN, changed : BOOLEAN]
SavedCycles == [started : Time, until : Untils, empty : BOOLEAN]

NoCycle == [started |-> 0, plan |-> 0, todo |-> {}, ready |-> {}, running |-> {},
            until |-> [k \in Candidates |-> None], empty |-> FALSE, changed |-> FALSE]

Numbers(k) == DOMAIN attempts[k]
Latest(k) == Len(attempts[k])
Interrupted(c) == UNION {{<<k, i>> : i \in {j \in Numbers(k) :
                                attempts[k][j].status = "executing"}} : k \in Of(c)}

(* The attempt restore_operational_plan takes up: the latest of the plan.  *)
Subject(k, i) ==
    CHOOSE j \in Numbers(k) :
        /\ attempts[k][j].plan = attempts[k][i].plan
        /\ \A n \in Numbers(k) : attempts[k][n].plan = attempts[k][i].plan => n <= j

\* A fault: the end without a time, and so for ever.
FaultyCool(since, end, status) == [since |-> since, until |-> None]

(* _make_cooldown.                                                         *)
Cool(since, end, status) == [since |-> since, until |-> end + Cooldown[status]]

(* _cooldown_sort_value.                                                   *)
AtMost(a, b) == a.since < b.since \/ (a.since = b.since /\ a.until <= b.until)

(* _merge_cooldown.                                                        *)
Merged(old, new) == IF old = None \/ AtMost(old, new) THEN new ELSE old

(* StrategicCandidateCooldown.active.                                      *)
Active(k, t) == cooldown[k] # None /\ t < cooldown[k].until

-----------------------------------------------------------------------------
(* What a coordinator restores from the audit when it starts.              *)

(* The cycle of the latest start, _restore_cycle_audit.                    *)
LatestCycle(S) == CHOOSE r \in S : \A s \in S : s.started <= r.started

\* A fault: the cooldowns of the cycles only; one that was interrupted has none.
FaultyRecorded(k) ==
    {[since |-> r.started, until |-> r.until[k]] :
        r \in {s \in cycles[SideOf[k]] : s.until[k] # None}}

(* The cooldowns of the attempts in the cycles and of those that ended.    *)
Recorded(k) ==
    {[since |-> r.started, until |-> r.until[k]] :
        r \in {s \in cycles[SideOf[k]] : s.until[k] # None}}
      \union {Cool(attempts[k][i].ended, attempts[k][i].ended, attempts[k][i].status) :
                i \in {j \in Numbers(k) : attempts[k][j].status # "executing"}}

RestoredCooldown(k) ==
    IF Recorded(k) = {} THEN None
    ELSE CHOOSE x \in Recorded(k) : \A y \in Recorded(k) : AtMost(y, x)

RestoredLast(c) == IF cycles[c] = {} THEN None ELSE LatestCycle(cycles[c]).started

RestoredNotBefore(c) ==
    IF cycles[c] = {} \/ ~LatestCycle(cycles[c]).empty THEN None
    ELSE LatestCycle(cycles[c]).started + Backoff

-----------------------------------------------------------------------------
(* The snapshots of an attempt.  The last one may not be recorded, which   *)
(* the executor only logs.                                                 *)

SaveStart(k, plan) ==
    attempts' = [attempts EXCEPT ![k] = Append(@,
                   [plan |-> plan, status |-> "executing", started |-> now, ended |-> now])]

SaveEnd(k, i, status) ==
    \/ /\ attempts' = [attempts EXCEPT ![k][i].status = status, ![k][i].ended = now]
       /\ UNCHANGED mishaps
    \/ /\ mishaps < MaxMishaps
       /\ mishaps' = mishaps + 1
       /\ UNCHANGED attempts

Goto(c, pc) == worker' = [worker EXCEPT ![c] = pc]

-----------------------------------------------------------------------------
Init ==
    /\ now = 0 /\ ended = FALSE /\ aware = FALSE
    /\ worker = [c \in Coalitions |-> "idle"]
    /\ cycle = [c \in Coalitions |-> NoCycle]
    /\ hand = [c \in Coalitions |-> None]
    /\ interrupted = [c \in Coalitions |-> {}]
    /\ open = {}
    /\ last = [c \in Coalitions |-> None]
    /\ notBefore = [c \in Coalitions |-> None]
    /\ cooldown = [k \in Candidates |-> None]
    /\ attempts = [k \in Candidates |-> <<>>]
    /\ cycles = [c \in Coalitions |-> {}]
    /\ restarts = 0 /\ mishaps = 0

AdvanceClock ==
    /\ ~ended /\ now < MaxTime /\ now' = now + 1
    /\ UNCHANGED <<ended, aware, worker, cycle, recovery, open, schedule, cooldown,
                   audit, bounds>>

EndMission ==
    /\ ~ended /\ ended' = TRUE
    /\ UNCHANGED <<now, aware, worker, cycle, recovery, open, schedule, cooldown,
                   audit, bounds>>

(* The client hears of the end by the watched event or in an answer.       *)
Learn ==
    /\ ended /\ ~aware /\ aware' = TRUE
    /\ UNCHANGED <<now, ended, worker, cycle, recovery, open, schedule, cooldown,
                   audit, bounds>>

(* The client is killed, or its coordinator has failed, and is started     *)
(* again: _load_audit_state.                                               *)
RestartClient ==
    /\ ~ended
    /\ restarts < MaxRestarts /\ restarts' = restarts + 1
    /\ worker' = [c \in Coalitions |-> "idle"]
    /\ cycle' = [c \in Coalitions |-> NoCycle]
    /\ hand' = [c \in Coalitions |-> None]
    /\ interrupted' = [c \in Coalitions |-> Interrupted(c)]
    /\ open' = {}
    /\ last' = [c \in Coalitions |-> RestoredLast(c)]
    /\ notBefore' = [c \in Coalitions |-> RestoredNotBefore(c)]
    /\ cooldown' = [k \in Candidates |-> RestoredCooldown(k)]
    /\ UNCHANGED <<world, audit, mishaps>>

-----------------------------------------------------------------------------
(* The recovery of an interrupted plan.                                    *)

(* The earliest attempt that is left; its goal and plan are registered.    *)
TakeUp(c) ==
    /\ worker[c] = "idle"
    /\ \E x \in interrupted[c] :
         /\ \A y \in interrupted[c] :
              attempts[x[1]][x[2]].started <= attempts[y[1]][y[2]].started
         /\ hand' = [hand EXCEPT ![c] = x]
         /\ interrupted' = [interrupted EXCEPT ![c] = @ \ {x}]
         /\ open' = open \union {x[1]}
    /\ Goto(c, "monitor")
    /\ UNCHANGED <<world, cycle, schedule, cooldown, audit, bounds>>

(* A recovery is over: the goal is achieved or failed, the candidate cools *)
(* down.                                                                   *)
Recovered(c, status) ==
    LET k == hand[c][1] IN
    /\ cooldown' = [cooldown EXCEPT ![k] =
                      Merged(@, Cool(attempts[k][hand[c][2]].started, now, status))]
    /\ open' = open \ {k}
    /\ hand' = [hand EXCEPT ![c] = None]
    /\ Goto(c, "idle")

(* monitor_interrupted_operational_plan accepts only a plan whose latest   *)
(* attempt is still executing.  It ends the attempt, and the plan, or      *)
(* blocks it to go on with what is left of the plan.                       *)
Monitor(c) ==
    /\ worker[c] = "monitor" /\ ~aware
    /\ LET k == hand[c][1]
           i == Subject(k, hand[c][2])
       IN  /\ attempts[k][i].status = "executing"
           /\ \/ \E status \in {"completed", "blocked"} :
                   SaveEnd(k, i, status) /\ Recovered(c, status)
              \/ /\ SaveEnd(k, i, "blocked")
                 /\ Goto(c, "revalidate")
                 /\ UNCHANGED <<open, hand, cooldown>>
    /\ UNCHANGED <<world, cycle, interrupted, schedule, cycles, restarts>>

(* What is left of the plan is infeasible, or a new attempt executes it.   *)
Resume(c) ==
    LET k == hand[c][1] IN
    /\ worker[c] = "revalidate" /\ ~aware
    /\ \/ Recovered(c, "blocked") /\ UNCHANGED attempts
       \/ /\ Latest(k) < MaxAttempts[k]
          /\ SaveStart(k, attempts[k][hand[c][2]].plan)
          /\ Goto(c, "resumed")
          /\ UNCHANGED <<open, hand, cooldown>>
    /\ UNCHANGED <<world, cycle, interrupted, schedule, cycles, bounds>>

FinishResumed(c) ==
    /\ worker[c] = "resumed" /\ ~aware
    /\ \E status \in {"completed", "blocked"} :
         SaveEnd(hand[c][1], Latest(hand[c][1]), status) /\ Recovered(c, status)
    /\ UNCHANGED <<world, cycle, interrupted, schedule, cycles, restarts>>

(* Anything else, and ambiguous missions, stop the worker: as the end of   *)
(* the mission if its generation has changed (an error that reports the    *)
(* end is not enough here), else by an error.                              *)
FailRecovery(c) ==
    /\ worker[c] \in {"monitor", "revalidate", "resumed"}
    /\ \/ aware /\ Goto(c, "stopped")
       \/ Goto(c, "failed")
    /\ UNCHANGED <<world, cycle, recovery, open, schedule, cooldown, audit, bounds>>

-----------------------------------------------------------------------------
(* A cycle: readiness, recommendation and activation under the lock.       *)

\* A fault: an error does not release the lock.
FaultyDeciding == {"ready", "recommend", "activate", "failed"}

(* The worker with the decision lock is at one of these.                   *)
Deciding == {"ready", "recommend", "activate"}

\* A fault: a cycle does not wait for the recovery of its coalition.
FaultyMaySelect(c) == TRUE

MaySelect(c) == interrupted[c] = {}

BeginCycle(c) ==
    /\ worker[c] = "idle" /\ MaySelect(c)
    /\ \A d \in Coalitions : worker[d] \notin Deciding
    /\ Goto(c, IF aware THEN "stopped" ELSE "ready")
    /\ UNCHANGED <<world, cycle, recovery, open, schedule, cooldown, audit, bounds>>

Due(c) ==
    /\ last[c] # None => now >= last[c] + Cadence
    /\ notBefore[c] # None => now >= notBefore[c]

Assess(c) ==
    /\ worker[c] = "ready"
    /\ \/ aware /\ Goto(c, "stopped") /\ UNCHANGED cycle
       \/ ~aware /\ Goto(c, "failed") /\ UNCHANGED cycle
       \/ ~aware /\ ~Due(c) /\ Goto(c, "idle") /\ UNCHANGED cycle
       \/ /\ ~aware /\ Due(c) /\ Goto(c, "recommend")
          /\ Cardinality(cycles[c]) < MaxCycles[c]
          /\ cycle' = [cycle EXCEPT ![c] = [NoCycle EXCEPT !.started = now]]
    /\ UNCHANGED <<world, recovery, open, schedule, cooldown, audit, bounds>>

(* What recommend_strategic_portfolio may select.                          *)
Eligible(c) == {k \in Of(c) : ~Active(k, cycle[c].started) /\ k \notin open
                              /\ Latest(k) < MaxAttempts[k]}

Recommend(c) ==
    /\ worker[c] = "recommend" /\ ~aware
    /\ \E S \in SUBSET Eligible(c) :
         /\ S # {} => Cardinality(open \intersect Of(c)) + Cardinality(S) <= Limit
         /\ cycle' = [cycle EXCEPT ![c].plan = now, ![c].todo = S, ![c].empty = (S = {})]
         /\ notBefore' = [notBefore EXCEPT ![c] =
                            IF S = {} THEN cycle[c].started + Backoff ELSE None]
         /\ Goto(c, IF S = {} THEN "execute" ELSE "activate")
    /\ last' = [last EXCEPT ![c] = cycle[c].started]
    /\ UNCHANGED <<world, recovery, open, cooldown, audit, bounds>>

FailRecommend(c) ==
    /\ worker[c] = "recommend"
    /\ Goto(c, IF aware THEN "stopped" ELSE "failed")
    /\ UNCHANGED <<world, cycle, recovery, open, schedule, cooldown, audit, bounds>>

(* _failed_attempt: an error that reports the end of the mission, or comes *)
(* after it, stops the worker with this cycle; another one cools the       *)
(* candidate down, whose goal is closed.  s is the cycle without it.       *)
GiveUp(c, k, s) ==
    \/ /\ ended /\ aware' = TRUE
       /\ cycle' = [cycle EXCEPT ![c] = [s EXCEPT !.changed = TRUE]]
       /\ UNCHANGED <<open, cooldown>>
    \/ /\ ~aware /\ UNCHANGED aware
       /\ cycle' = [cycle EXCEPT ![c] = [s EXCEPT !.until[k] = now + Cooldown["failed"]]]
       /\ cooldown' = [cooldown EXCEPT ![k] = Merged(@, Cool(now, now, "failed"))]
       /\ open' = open \ {k}

(* The lock is released after the last decision.                           *)
Activate(c) ==
    /\ worker[c] = "activate"
    /\ \E k \in cycle[c].todo :
         LET s == [cycle[c] EXCEPT !.todo = @ \ {k}] IN
         /\ \/ GiveUp(c, k, s)
            \/ /\ ~aware /\ UNCHANGED <<aware, cooldown>>
               /\ cycle' = [cycle EXCEPT ![c] = [s EXCEPT !.ready = @ \union {k}]]
               /\ open' = open \union {k}
         /\ Goto(c, IF s.todo = {} THEN "execute" ELSE "activate")
    /\ UNCHANGED <<now, ended, recovery, schedule, audit, bounds>>

-----------------------------------------------------------------------------
(* A cycle: its executions, without the lock.                              *)

(* execute_strategic_activation: refused, if it or the registries changed  *)
(* or the plan has an attempt already, or executing.                       *)
Start(c) ==
    /\ worker[c] = "execute"
    /\ \E k \in cycle[c].ready :
         LET s == [cycle[c] EXCEPT !.ready = @ \ {k}] IN
         \/ GiveUp(c, k, s) /\ UNCHANGED attempts
         \/ /\ ~aware /\ UNCHANGED <<aware, cooldown, open>>
            /\ \A i \in Numbers(k) : attempts[k][i].plan # cycle[c].plan
            /\ SaveStart(k, cycle[c].plan)
            /\ cycle' = [cycle EXCEPT ![c] = [s EXCEPT !.running = @ \union {k}]]
    /\ UNCHANGED <<now, ended, worker, recovery, schedule, cycles, bounds>>

Finish(c) ==
    /\ worker[c] = "execute"
    /\ \E k \in cycle[c].running, status \in {"completed", "blocked"} :
         /\ SaveEnd(k, Latest(k), status)
         /\ cycle' = [cycle EXCEPT ![c].running = @ \ {k},
                                   ![c].until[k] = now + Cooldown[status]]
         /\ cooldown' = [cooldown EXCEPT ![k] = Merged(@, Cool(now, now, status))]
         /\ open' = open \ {k}
    /\ UNCHANGED <<world, worker, recovery, schedule, cycles, restarts>>

(* The execution raises: the audit keeps its last snapshot, executing.     *)
Raise(c) ==
    /\ worker[c] = "execute"
    /\ mishaps < MaxMishaps /\ mishaps' = mishaps + 1
    /\ \E k \in cycle[c].running : GiveUp(c, k, [cycle[c] EXCEPT !.running = @ \ {k}])
    /\ UNCHANGED <<now, ended, worker, recovery, schedule, audit, restarts>>

(* _retain_cycle: the cycle is appended, or the append raises.             *)
Retain(c) ==
    /\ worker[c] = "execute" /\ cycle[c].ready = {} /\ cycle[c].running = {}
    /\ \/ /\ cycles' = [cycles EXCEPT ![c] = @ \union
                 {[started |-> cycle[c].started, until |-> cycle[c].until,
                   empty |-> cycle[c].empty]}]
          /\ Goto(c, IF cycle[c].changed THEN "stopped" ELSE "idle")
       \/ /\ Goto(c, IF aware THEN "stopped" ELSE "failed")
          /\ UNCHANGED cycles
    /\ cycle' = [cycle EXCEPT ![c] = NoCycle]
    /\ UNCHANGED <<world, recovery, open, schedule, cooldown, attempts, bounds>>

Recover(c) ==
    TakeUp(c) \/ Monitor(c) \/ Resume(c) \/ FinishResumed(c) \/ FailRecovery(c)

RunCycle(c) ==
    Assess(c) \/ Recommend(c) \/ FailRecommend(c) \/ Activate(c)
      \/ Start(c) \/ Finish(c) \/ Raise(c) \/ Retain(c)

Next ==
    \/ AdvanceClock \/ EndMission \/ Learn \/ RestartClient
    \/ \E c \in Coalitions : Recover(c) \/ BeginCycle(c) \/ RunCycle(c)

Spec == Init /\ [][Next]_vars

(* A worker is a coroutine that is resumed; what it awaits ends by a       *)
(* timeout at the latest, which an execution of a plan has too; the lock   *)
(* is fair; and the watcher, or an answer, reports the end of the mission. *)
FairSpec ==
    /\ Spec
    /\ WF_vars(Learn)
    /\ \A c \in Coalitions :
         /\ WF_vars(Recover(c))
         /\ WF_vars(BeginCycle(c))
         /\ WF_vars(RunCycle(c))

-----------------------------------------------------------------------------
TypeOK ==
    /\ now \in Time /\ ended \in BOOLEAN /\ aware \in BOOLEAN
    /\ worker \in [Coalitions -> Deciding \union
         {"idle", "execute", "monitor", "revalidate", "resumed", "stopped", "failed"}]
    /\ cycle \in [Coalitions -> Cycles]
    /\ hand \in [Coalitions -> {None} \union (Candidates \X Nat)]
    /\ interrupted \in [Coalitions -> SUBSET (Candidates \X Nat)]
    /\ open \subseteq Candidates
    /\ last \in [Coalitions -> Time \union {None}]
    /\ notBefore \in [Coalitions -> Nat \union {None}]
    /\ cooldown \in [Candidates -> Cooldowns \union {None}]
    /\ attempts \in [Candidates -> Seq(Attempts)]
    /\ cycles \in [Coalitions -> SUBSET SavedCycles]
    /\ restarts \in 0 .. MaxRestarts /\ mishaps \in 0 .. MaxMishaps

(* No coalition has more plans executing than its limit, and no candidate  *)
(* two, whatever was interrupted; unless an execution raised or its end    *)
(* was not recorded: then its snapshot remains and a later coordinator     *)
(* takes it up beside what was selected since.  (max_concurrent_goals,     *)
(* _recover_interrupted_plan before run_cycle)                             *)
WithinLimit ==
    mishaps = 0 =>
        \A c \in Coalitions :
            /\ Cardinality(Interrupted(c)) <= Limit
            /\ \A x, y \in Interrupted(c) : x[1] = y[1] => x = y

(* A plan that completed is not executed again, however many of its        *)
(* attempts are found interrupted.  (restore_operational_plan)             *)
CompletedIsFinal ==
    \A k \in Candidates : \A i \in Numbers(k) :
        attempts[k][i].status = "completed" =>
            \A j \in Numbers(k) : attempts[k][j].plan = attempts[k][i].plan => j <= i

(* The attempts on record, over any restart: within the limit, and none at *)
(* a plan after it completed.                                              *)
ExecutionsInOrder == WithinLimit /\ CompletedIsFinal

(* A plan starts only after the cooldown that the end of the candidate's   *)
(* last attempt at each earlier plan began, also if the client was         *)
(* restarted in between; unless an execution raised or its end was not     *)
(* recorded.  (_restore_execution_cooldown, _merge_cooldown)               *)
CooldownHeld(c, k) ==
    \A i \in Numbers(k) :
        LET a == attempts[k][i] IN
        (i = Subject(k, i) /\ a.status # "executing") =>
            cycle[c].started >= a.ended + Cooldown[a.status]

(* A coalition's cycle starts its cadence after the last one on record,    *)
(* its back-off if that one selected nothing, also if the client was       *)
(* restarted in between.  (_restore_cycle_audit, _run_cycle)               *)
CadenceHeld(c) ==
    \A r \in cycles[c] :
        /\ cycle[c].started >= r.started + Cadence
        /\ (r.empty /\ \A s \in cycles[c] : s.started <= r.started)
             => cycle[c].started >= r.started + Backoff

(* A step that begins a selection keeps the cadence, and one that starts a *)
(* plan the cooldowns, by what the audit says.                             *)
ScheduleHolds ==
    [][\A c \in Coalitions :
         /\ (worker[c] = "recommend" /\ worker'[c] \in {"activate", "execute"})
              => CadenceHeld(c)
         /\ \A k \in cycle'[c].running \ cycle[c].running :
              mishaps = 0 => CooldownHeld(c, k)]_vars

(* When the mission ends, both workers come to an end, wherever they are   *)
(* and whatever the other one holds.  (README: mission end stops both      *)
(* coalition workers)                                                      *)
WorkersStop ==
    ended ~> \A c \in Coalitions : worker[c] \in {"stopped", "failed"}

=============================================================================
