----------------------------- MODULE AuditRecovery ----------------------------
(***************************************************************************)
(* The audit with the SDK client that writes it and recovers from it:      *)
(* strategic_coordinator.py appends a record for each cycle, the plan      *)
(* executor snapshots of its attempts, and a client that is started again  *)
(* in the same mission reads back where its predecessor stopped.           *)
(*                                                                         *)
(* A client waits for the answer to what it appends.  When it dies, or the *)
(* request times out, the record may arrive after later ones.              *)
(***************************************************************************)
EXTENDS AuditStore, SequencesExt

CONSTANTS
  Cooldowns,   \* durations of candidate cooldowns
  MaxWrites,   \* bound: records sent
  MaxScopes,   \* bound: sessions and missions
  MaxLate      \* bound: records nobody waits for, on their way at once

ASSUME RecoveryAssumption ==
  /\ Cooldowns \subseteq Nat
  /\ MaxWrites \in Nat /\ MaxScopes \in Nat /\ MaxLate \in Nat

VARIABLES
  clock,    \* mission time of the last cycle
  cycles,   \* _cycle_numbers of the client running
  own,      \* the records (none or one) the client waits for
  late,     \* records nobody waits for, on their way
  sent      \* bound: records sent

clientVars == <<clock, cycles, own, late, sent>>
vars == <<storeVars, clientVars>>

-----------------------------------------------------------------------------
(* What a new client restores (_load_audit_state).                          *)

Fresh ==
  [number |-> 0, last |-> 0, idle |-> FALSE,
   cooldown |-> [c \in Candidates |-> <<0, 0>>]]

Later(p, q) == IF Exceeds(q, p) THEN q ELSE p

\* _restore_cycle_audit; a time of 0 stands for None.  A cycle without attempts is
\* one that selected nothing, after which the next is put off.
RestoreCycle(st, r) ==
  LET latest == \/ r.started > st.last
                \/ r.started = st.last /\ r.number > st.number
  IN  [number |-> IF r.number > st.number THEN r.number ELSE st.number,
       last |-> IF latest THEN r.started ELSE st.last,
       idle |-> IF latest THEN \A c \in Candidates : r.until[c] = 0
               ELSE st.idle,
       cooldown |-> [c \in Candidates |->
         IF r.until[c] = 0 THEN st.cooldown[c]
         ELSE Later(<<r.started, r.until[c]>>, st.cooldown[c])]]

\* Cycles of other missions are skipped.
RestoreRecord(st, r) ==
  IF r.type = "cycle" /\ r.scope = activeScope THEN RestoreCycle(st, r) ELSE st

RestoredSchedule(s) == FoldLeft(RestoreRecord, Fresh, s)

\* latest_attempt_records: the last snapshot of each attempt of the mission.
Attempts(s) ==
  {s[i] : i \in {j \in DOMAIN s :
     /\ s[j].type = "execution" /\ s[j].scope = activeScope
     /\ \A l \in DOMAIN s : l > j => Keys(s[l]) # Keys(s[j])}}

Interrupted(s) == {<<e.candidate, e.attempt>> : e \in {x \in Attempts(s) : x.ended = 0}}

-----------------------------------------------------------------------------
Init ==
  /\ daemon = "down" /\ activeScope = 0
  /\ records = <<>> /\ nextCompaction = MaxBytes /\ loadCompacted = FALSE
  /\ file = <<>> /\ ragged = FALSE /\ read = 0 /\ history = <<>>
  /\ clock = 0 /\ cycles = 0 /\ own = <<>> /\ late = {} /\ sent = 0

Send(r) ==
  /\ daemon = "up" /\ own = <<>> /\ sent < MaxWrites
  /\ sent' = sent + 1
  /\ own' = <<r>>
  /\ UNCHANGED <<storeVars, late>>

\* _retain_cycle: cycles are numbered, and each starts after the one before.
SendCycle ==
  /\ clock' = clock + 1
  /\ cycles' = cycles + 1
  /\ \E d \in [Candidates -> Cooldowns \cup {0}] :
       Send([type |-> "cycle", scope |-> activeScope, number |-> cycles + 1,
             started |-> clock + 1,
             until |-> [c \in Candidates |->
                          IF d[c] = 0 THEN 0 ELSE clock + 1 + d[c]]])

\* A snapshot of an attempt of the cycle running, or of one taken up again.
\* An attempt is named by its candidate and the time its cycle starts.
SendExecution ==
  /\ \E a \in (Candidates \X {clock + 1}) \cup Interrupted(records), ended \in {0, clock + 1} :
       Send([type |-> "execution", scope |-> activeScope, candidate |-> a[1],
             attempt |-> a[2], ended |-> ended])
  /\ UNCHANGED <<clock, cycles>>

SendNote ==
  /\ Send([type |-> "note", scope |-> activeScope])
  /\ UNCHANGED <<clock, cycles>>

\* The daemon appends the client's record and answers.
Answer ==
  /\ own # <<>> /\ AppendRecord(own[1])
  /\ own' = <<>>
  /\ UNCHANGED <<clock, cycles, late, sent>>

AnswerLate ==
  /\ \E r \in late : AppendRecord(r) /\ late' = late \ {r}
  /\ UNCHANGED <<clock, cycles, own, sent>>

\* The client waits no longer; what it has sent is still to arrive.
Abandon ==
  /\ Len(own) + Cardinality(late) <= MaxLate
  /\ own' = <<>>
  /\ late' = late \cup {own[i] : i \in DOMAIN own}

\* A snapshot whose request times out is given up.  (_persist)
GiveUp ==
  /\ own # <<>> /\ own[1].type = "execution"
  /\ Abandon
  /\ UNCHANGED <<storeVars, clock, cycles, sent>>

\* The client dies and its successor restores its schedule from the daemon.
RestartClient ==
  /\ daemon = "up"
  /\ Abandon
  /\ cycles' = RestoredSchedule(records).number
  /\ UNCHANGED <<storeVars, clock, sent>>

\* The client of a mission stops with it; the next mission's client starts anew.
ChangeMission ==
  /\ activeScope < MaxScopes /\ NewMission
  /\ Abandon
  /\ cycles' = 0
  /\ clock' = 0
  /\ UNCHANGED sent

\* Requests to a daemon that dies are lost.  Times are compared within a session
\* only, so the clock may start again with the next.
StartDaemon == activeScope < MaxScopes /\ Start /\ UNCHANGED clientVars
StopDaemon ==
  /\ Crash \/ CrashOpening \/ \E r \in late \cup {own[i] : i \in DOMAIN own} : CrashAppending(r)
  /\ clock' = 0 /\ cycles' = 0 /\ own' = <<>> /\ late' = {}
  /\ UNCHANGED sent

Next ==
  \/ StartDaemon \/ StopDaemon
  \/ (LoadLine \/ LoadFails \/ OpenFile) /\ UNCHANGED clientVars
  \/ SendCycle \/ SendExecution \/ SendNote
  \/ Answer \/ AnswerLate \/ GiveUp \/ RestartClient \/ ChangeMission

Spec == Init /\ [][Next]_vars

-----------------------------------------------------------------------------
TypeOK ==
  /\ daemon \in {"down", "loading", "up", "failed"}
  /\ activeScope \in Nat
  /\ records \in Seq(Records) /\ history \in Seq(Records)
  /\ file \in Seq(Records \cup {Torn, Undecodable})
  /\ nextCompaction \in Nat /\ loadCompacted \in BOOLEAN
  /\ ragged \in BOOLEAN /\ read \in 0..Len(file)
  /\ clock \in Nat /\ cycles \in Nat /\ sent \in 0..MaxWrites
  /\ own \in Seq(Records) /\ Len(own) <= 1
  /\ late \subseteq Records

Intact(f) == Kept(f, {i \in DOMAIN f : Readable(f[i])})

\* The keys the active mission has written.
ActiveKeys == UNION {Keys(history[i]) : i \in DOMAIN history}

\* At every moment, one at which the daemon is killed in an append, a compaction or
\* a start included, the file has the checkpoint of each key the running mission
\* has written.  (_retained_indices, append, compact, open)
FileKeepsCheckpoints ==
  \A k \in ActiveKeys : Checkpoint(Intact(file), k) = Checkpoint(history, k)

\* What the daemon has indexed is what the next daemon would read.  (append, compact)
DiskIsMemory == daemon = "up" => records = Intact(file)

\* A client started again schedules, cools down and reattaches as if nothing had
\* ever been compacted, even if a cycle of its predecessor was appended late.
\* (_cycle_priority against _restore_cycle_audit)
RecoveryUnchanged ==
  daemon = "up" =>
    /\ RestoredSchedule(records) = RestoredSchedule(history)
    /\ Attempts(records) = Attempts(history)

\* Violated: a daemon that was killed while it appended starts again with the
\* audit it left.  (tests/test_audit.py:237, _load)
DaemonStarts == daemon # "failed"
=============================================================================
