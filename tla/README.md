# MoosePyBridge: TLA+ models and proofs

MoosePyBridge lets Python observe and command a DCS World mission. A Lua script in the
mission (`src/lua/MooseBridge.lua` and its extensions) connects to a Python daemon
(`src/python/moosebridge/server.py`) and exchanges JSON lines with it over one TCP
connection; SDK clients talk to the daemon over a second, local port. The Lua state dies
with its mission, connections come and go, the daemon and its clients can be killed, and
the code answers all of that with journals, caches, replays and an audit file. This
directory models those protocols in TLA+, checks them with TLC on small instances and
proves the most important invariants with TLAPS for every value of the constants.

## 1. Inventory

| Component | State | Operations | Hard behaviour | What makes it correct |
|---|---|---|---|---|
| Lua bridge transport (`MooseBridge.lua`) | socket, output queue with a send offset, journal of reliable events, cache of command results, heartbeat time | `_Tick` (connect, receive, handle commands, flush, heartbeat), `SendEvent`, mission end | partial sends, overflow, loss of the connection between any two steps, replay | effects not repeated, reliable events in order and not lost, every line a message |
| Daemon transport (`server.py`, `protocol.py`, `streams.py`, flags of `state.py`) | writer, `_pending` futures, seen event ids, mission generation and clock, connected flag | accept and supersede a connection, replay commands, handle a line, `send_command`, mission boundary | tasks of old and new connections interleave, timeouts race acknowledgements, late lines of an old mission | replies are the caller's own, no caller forgotten, newest connection owns the writer |
| Audit store (`audit.py`, `append_audit_record`) | JSONL file, indexed records, compaction threshold, active scope | load, open, append, compact, query | kill at any write, failed compaction, late records | recovery reads what was recorded |
| Event history and waiters (`server.py:357-445`) | last 10,000 events, waiters | `wait_for_event`, `query_events`, `event_cursor` | a cursor that has been evicted, waiters resolved by `mission.ended` | no matching event after the cursor is missed |
| Strategic coordinator (`strategic_coordinator.py`) | per coalition: cycle number, last cycle, back-off; cooldowns; interrupted plans; decision lock | `_run_cycle`, `_load_audit_state`, `_recover_interrupted_plan` | two workers, await points under and outside the lock, mission end at any await, restart | cadence and cooldowns kept over restarts, the limit on concurrent plans, both workers stop with the mission |
| Operational plan execution (`operational_execution.py`) | plan status, attempts, phases, events | execute, reconcile, abort, retry, monitor | await points, cancellation, phase conditions, partial failure of submissions | successes are earned, what an abort chose is not left alive, statuses agree after a restart |
| Mission execution service (`mission_execution_service.py`) | submitted AUFTRAGs and their lifecycle | submit, wait, reconcile, cancel | a submission timed out but executed, events before the wait | no AUFTRAG left behind without a record |
| Goals and decisions (`strategic_*.py`) | goal, objective and plan registries | propose, approve, activate, verify | stale recommendations, mission reset | decisions are validated against the current mirror |
| Diplomacy (`diplomacy.py`) | relationship state, tension, proposals, border violations | incidents, proposals, approval | proposals outdated by later incidents | an incident counts once and in its own mission, proposals are current, incidents and reported crossings are kept |
| Control API (`control.py`, `control_sdk.py`, `daemon.py`) | none between requests | one request per connection | client timeouts, requests in flight when a client dies | a response answers its own request |
| SDK client (`sdk.py`) | registries of the components above, mirror | delegation, resets with the mission | mission boundary between two awaits | |
| Speech (`speech.py`, `MooseBridgeSpeechExtension.lua`) | owner, modes, sender queues, reservations of the networks, intent history | configure, enqueue, clear, session end, tick | arbitration in four modes, break in, collisions, back-off, expiry, repeated requests | one transmission per exclusive network and per sender, nothing spoken twice or overdue, strict priority |
| Player navigation | menu sessions | menus | cancelled tasks | |
| DCS event, AUFTRAG, INTEL, payload and territory extensions | MOOSE objects | command handlers | MOOSE itself is not in the repository | |
| State mirror, map server, reconnaissance, terrain, codecs, tools | derived data | pure computation | none of protocol | |

How they interact. DCS and MOOSE callbacks call `SendEvent` between ticks; the DCS scheduler
calls `_Tick`. Messages (heartbeats, events, snapshots, acknowledgements) flow to the daemon,
commands to Lua. In the daemon `_handle_line` updates the mirror, then the listeners, then the
waiting calls and event waiters, in one step without an await. SDK calls arrive through the
control API and wait on futures. Coordinators and plan executors run in clients; they append
to and query the daemon's audit over the control API and rebuild their state from it when
they are started again in the same mission. The map server's loop and operators' programs share
the diplomacy state through snapshots in the same audit, each refreshing and persisting the whole.
The speech service lives in Lua beside the bridge: its commands arrive as the bridge's commands do.

`PROJECT.json` lists every component with its status and every hazard with its line.

## 2. Modules

```
Queues ──┬─ BridgeWire ──┬─ MooseBridge ──┐
         │               └─ BridgeServer ─┴─ BridgeSystem ── MCBridge
         │                                    │   CommandCalls (abstract, by INSTANCE)
         │                                    ├─ BridgeSystem_proofs
         ├─ Queues_proofs ─┬──────────────────┴─ BridgeCalls_proofs
         └─ AuditStore ────┴─ AuditRecovery ──── AuditRecovery_proofs
Coordinator ───┬─ MCCoordinator        PlanExecution ─┬─ MCPlan
               └─ Coordinator_proofs                  └─ PlanExecution_proofs
Diplomacy ─┬─ MCDiplomacy              Speech ─┬─ MCSpeech
           └─ Diplomacy_proofs                 └─ Speech_proofs
```

The other modules of proofs extend `Queues_proofs` too, for its lemmas on numbers and sequences.

The four components below the bridge are modules of their own: each meets the others only through
commands, which the bridge delivers at most once or fails, and through the audit. A command in them
is one step or a request and its answer, and the audit is the latest record per key, which is what
AuditRecovery shows of it.

**Queues**: the operations on bounded and filtered lists that both sides share (`LastN`,
`Without`, `Kept`), without recursion so that proofs can use them.

**BridgeWire**: the messages and the TCP connections. A connection is used once, numbered in
the order it is made, and is *unused*, *up* or *down*; `toLua[k]` and `toPy[k]` hold what is on
its way. When it breaks, any prefix of what was on its way may still arrive.

**MooseBridge**: the Lua transport. Its variables are the fields of the Lua object (`outQueue`,
`offset`, `journal`, `results`, `socket`, `lastHeartbeat`) and its actions the iterations of the
tick: `Connect` (with the journal replay of `_OnConnected`), `Disconnect`, `ReplayResult` and
`ExecuteCommand` (the two branches of `_HandleCommand`), `FlushMessage` and `FlushPart`,
`SendHeartbeat`, and the callbacks `SendEvent`, `AdvanceClock`, `RestartMission`. A tick is any
sequence of these: the socket does not block, so a send may time out after any iteration, and
the network moves between iterations.

**BridgeServer**: the daemon. One action per await-free section: `AcceptConnection`,
`ResendCommand` (one command of `_resend_pending_commands`, whose `drain` may suspend),
`HandleLine` (the whole of `_handle_line`: duplicate check, clock rollback, mirror, mission end,
acknowledgement), `CloseConnection` (the `finally` of the task), `SendCommand`, `TimeOut`.
`EarlierDrained` states the one fact about asyncio the model uses: the end of a superseded
transport is scheduled before the next connection's first data can wake its reader, because Lua
closes the old socket before it opens the new one; so the old task has handled its lines first.

**BridgeSystem** composes them, gives the fairness and states the properties. **CommandCalls**
is the abstract promise to the caller of a command: its effect happens at most once and not
before the call, the call ends once, and it returns only after the effect. BridgeSystem maps its
variables to it (`CallState`, `Times`).

**AuditStore**: the audit file. `Start`, `LoadLine`, `LoadFails` and `OpenFile` are `_load` line
by line and `open`; `AppendRecord` is `append` with the compaction that succeeds, fails or is not
due; `Crash`, `CrashOpening` and `CrashAppending` are a process kill between steps, in the
compaction of `open` and in `append` (part of a line, a line without its newline, the file before
or after `os.replace`). `Keys`, `Priority`, `Newest`, `RetainedScopes`, `Protected`,
`RecentHistory` are the functions of the retention.

**AuditRecovery**: AuditStore with the client that writes cycles, execution snapshots and notes
and restores from them. `RestoredSchedule` is the fold of `_restore_cycle_audit` over the cycles of
the running mission, `Attempts` is `latest_attempt_records`. A client waits for each append; when it
dies (`RestartClient`), a snapshot's request times out (`GiveUp`) or the mission changes
(`ChangeMission`), the record may still arrive, after later ones (`AnswerLate`).

**Speech**: the speech service in Lua, which runs on the one thread of the mission. One action per
command (`Configure`, `Release`, `Enqueue`, `ClearPending`, `ClearSender`), per callback (`EndSession`,
`Shutdown`) and per `_SpeechTick`. A tick is one function of the state, in the order of the code: what is
over is put away (`Over`, `Expired`), the first of each idle sender's queue stands for election
(`Candidates`), a free network starts one of them, all of them or what collides (`AttemptedOnFree`), a busy
one lets an emergency break in (`AttemptedOnBusy`), losers are deferred (`Deferred`), and the reservation is
extended (`NextBusyUntil`). Which attempts fail in MSRS is a choice. `aired` is history.

**PlanExecution**: one operational plan with the service that submits its AUFTRAGs. The coroutine of
`execute` is cut at its awaits (`run.pc`: phase, submit, sent, wait, monitored, confirmed, cleanup, ...),
`abort` is a second coroutine beside it: one coroutine of `execute`, `reconcile` or `monitor_interrupted` and one
abort, with `Validate`, `Approve` and `PrepareRetry` beside either. MOOSE moves by itself (`Accept`, `Refuse`, `Evaluate`); a submission
or an outcome may be late (`SubmissionFails`, `WaitTimesOut`, `Hear`). `Persist` is the audit record of
`_emit`, taken where the code takes it; `RestartClient` restores from it, `Reconcile`, `StillRunning` and
`Indeterminate` are reconciliation and monitoring. `PrepareRetry` makes a blocked plan a draft again, also while a
coroutine or an abort of the attempt has yet to end: the coroutine then goes on through the phases that were reset
(`EnterPhase`, or `DependencyFails` when the one before was reset too).

**Diplomacy**: the relationship as its clients share it. The map server's loop is cut at its awaits (`pc`:
status, picture, refresh, query, apply, persist), an operator is a draft between a refresh and a persist
(`Refresh`, `DeclareWarNow`, `ProposeTransition`, `ApproveTransition`, `PersistDecision`). `RecordIncident`, `Propose`, `Approve`,
`DeclareWar` and `GroupSeen` are the methods of the relationship and of the border tracker. `CycleFails`
loses a picture, a query or a persist; `RestartMap` forgets all that is not in the audit.

**Coordinator**: both workers (`worker[c]`), the decision lock (`Deciding`), cadence, back-off and cooldowns,
the recovery of what a restart finds interrupted (`TakeUp`, `Monitor`, `Resume`, `FinishResumed`,
`FailRecovery`), a cycle (`BeginCycle`, `Assess`, `Recommend`, `Activate`, `Start`, `Finish`, `Raise`,
`Retain`) and the end of the mission, which a worker learns of by the watcher or in an answer (`Learn`,
`GiveUp`). `Recorded` is what `_load_audit_state` gathers of cooldowns.

### Abstractions

- Messages are records; JSON, framing and UTF-8 are left out, except that a message begun but
  never ended garbles the line (`Garbled`), and that an audit line cut within a character cannot
  be decoded (`Undecodable`). An offset beyond the end of the new head counts as garbled too. A
  part of a line at the end of a stream, over-long lines and undecodable lines are not modelled.
- Output queue entries count one each; the byte limit is left out. An audit record counts one
  byte, so `max_bytes` is a number of records. `max_bytes = 0` (no compaction) is left out.
- Commands are distinct calls: ids are fresh uuids. A handler that fails and an unknown action
  are acknowledged and cached as a success is. The effect of a command is its entry in `effects`.
- Failed connection attempts and their pacing are stuttering. `Start` and `Stop` by hand,
  unsolicited snapshots, the raw log and listeners are left out.
- Writes of the daemon never suspend: back-pressure in `send_command` is not modelled. A timed out
  future is cancelled and removed in one step.
- The mirror's own memory of applied event ids adds nothing: the seen window is wider.
- `MaxOutQueueMessages >= 2` is assumed (the code has 2000).
- Audit: a process kill, not a power cut; writes that fail (a full disk) are left out; records of
  one coalition stand for both, whose keys are disjoint; the daemon gives every record a scope;
  diplomacy and reconnaissance records, one key each, behave as executions do; two cycles of one
  coalition start at different times, as the cadence makes them; a cycle without attempts is one
  that selected nothing. An attempt is named by its candidate and the start of its cycle.

- Speech: time counts ticks; loudness, text, frequencies and the estimate of a duration are constants of an
  intent; a sender that cannot be resolved fails an enqueue without effect or an attempt. The serial and time
  bounds are the model's.
- Plans: phases depend on their predecessors only and have at most one guard; whether targets and assets are as
  a phase needs them, whether a plan is feasible, and how DCS changes a goal are choices. `submitted` and
  `running` are one status. Only plans that do not execute are validated. `OneAttempt` is a bound: no attempt
  starts while the coroutine or the abort of another still runs. An abort runs beside the coroutine only in the
  attempts of `Contended`, and the goal is decided only while one of `Decided` is the latest. One DCS mission;
  `MaxLost` snapshots that the audit does not get (the executor only logs that), for the plans of `Unreliable`.
- Diplomacy: `reduce_tension` (nothing calls it), doctrines, the authorizations of a limited conflict, the points
  of a capture (an incident has its points), the migration of old snapshots and the limit of 10,000 events of
  the history are left out. A mission clock is always there. A persist that times out is a failed one: that it
  may arrive later is not modelled. One watcher of borders.
- Coordinator: readiness, feasibility and which candidates rank first are choices; candidates have objectives
  of their own. Only the last snapshot of an attempt may be lost; cycle records that arrive late are left to
  AuditRecovery. The clock stops with the mission, and an unknown mission time is left out, as is
  `run(cycles_per_coalition)`. What a worker knows of the end by its flag or by the generation is one variable.

## 3. Properties and runs

All runs except `bridge_live` use specifications without fairness; `CHECK_DEADLOCK FALSE` everywhere,
because the bounds (connections, missions, writes) let the system stop.

| Run | Properties | Question and bounds |
|---|---|---|
| `bridge_limits` | `TypeOK`, `WaitingIsPending`, `NewestOwnsWriter`, `ReexecutedOnlyAfterEviction` | Two commands and the mission end over two missions and two connections, with the queue at two and every other limit at one: overflow, eviction, late tasks and boundaries all happen. |
| `bridge_commands` | `ReplyIsOwn`, `SnapshotBeforeReply`, `CallsKeepPromise` | Two commands, three connections, one mission: two replays of each command, timeouts against late acknowledgements. The last property is the refinement of `CommandCalls`. |
| `bridge_order` | `AppliedInOrder` | Two reliable events and a lossy one, three connections, two missions: two replays of the journal and a boundary. |
| `bridge_live` | `ReappliedOnlyAfterEviction`, `CallsReturn`, `ReliableEventsArrive` | Under `FairSpec`, one command, one reliable and one lossy event, a seen window of one, three connections that may all break. |
| `audit_recovery` | `TypeOK`, `FileKeepsCheckpoints`, `DiskIsMemory`, `RecoveryUnchanged` | Four records in two missions or sessions, a target of two records, so that three of four appends compact, one late record, client restarts and kills at every point. |
| `speech` | `TypeOK`, `OneAtATime`, `SenderNeverDouble`, `SpokenOnce`, `NothingOverdue`, `StrictPriority` | Five intents of three senders, one of them on two networks, two owners, all four modes, one emergency, two intents with one key, seven ticks and three enqueues. |
| `plan_execution` | `TypeOK`, `StatusesAgree`, `SuccessIsEarned`, `CompletionIsEarned`, `CancelledIsQuiet`, `NothingAbandoned`, `OncePerAttempt`, `CancelledStaysCancelled` | CAPTURE, DEFEND, DESTROY and DISABLE plans of two phases and three requirements, one persistent and guarded; two attempts, three AUFTRAGs, one interruption or restart. An abort beside the coroutine in the first attempt of a DISABLE plan, a snapshot lost of a DESTROY plan, goals decided while the first attempt is the latest or, of the DESTROY plan, before it. |
| `diplomacy` | `TypeOK`, `ScoredOnce`, `PendingIsCurrent`, `ReportedIsRecorded`, `OnePerStay`, `NoStaleIncident`, `CollectedIsKept` | The map server and one operator with up to three sessions, a group with two stays, a capture told twice, two missions, one restart, at most five happenings. |
| `coordinator` | `TypeOK`, `ExecutionsInOrder`, `ScheduleHolds`, `WorkersStop` | Under `FairSpec`, two candidates of one coalition (two attempts and one), the other coalition as a competitor for the lock, a limit of one, three cycles, two restarts, one mishap and the end of the mission anywhere. |
| `boundary_is_real` (violated) | `EveryBoundaryIsReal` | see findings |
| `partial_head_dropped` (violated) | `NoGarbledLine` | see findings |
| `audit_unreadable` (violated) | `DaemonStarts` | see findings |

Why the bounds are enough. The protocol distinguishes the current connection from a superseded
one, and a second loss shows what the first recovery left behind, so three connections cover a
recovery of a recovery. Limits of one or two are reached in a few steps, and every limit is only
compared with a length. Two missions give one boundary, and no variable but `effects` and the
generation outlives two. For the audit, every record is compared with one other per key; four
records give an original, a superseding, a late and an unrelated one. For speech, arbitration compares two
candidates and a reservation; three senders give a winner, a loser and a newcomer. A plan of two phases has a
phase before and one after a boundary, the first with two AUFTRAGs of which one can fail. For diplomacy, a copy
can be overwritten by another that is older by one refresh; `MCDiplomacy` takes a step that commutes with the
loop only just before the step of the loop that observes it (`Observed`), which removes equivalent orders and
no outcome, and bounds how much happens in all (`Few`); every kind of happening combines with every other. For
the coordinator, the second restart shows what a recovery left in the audit. Its blue and red workers share
the lock and nothing else, so red need not select: that it takes the lock, fails and stops is what blue sees.

What the properties say, beyond their comments in the modules:

- *The caller's side.* `ReplyIsOwn` ties the acknowledgement a call returns to an execution in the
  history of Lua; `CallsKeepPromise` adds that there was only one. It needs one mission and a result
  cache that holds the unresolved commands, because outside those limits the code does repeat effects:
  `ReexecutedOnlyAfterEviction` says exactly when within a mission. Across missions, a command that is pending
  when the mission restarts before the daemon hears of the end is replayed to the new mission's empty cache and
  has its effect again: README.md:199-201 of the repository promises one effect for a short disconnect.
  `SnapshotBeforeReply` holds over the first connection only: a replayed acknowledgement comes without
  its snapshot, which nothing in the repository rules out, but `refresh` then returns stale objects.
- *Events.* `AppliedInOrder` says what the mirror sees is a prefix of what was raised, although a
  replay sends the journal again from its start. It needs a journal that holds what is pending.
  `ReappliedOnlyAfterEviction` is the honest form of "deduplicates": the window is bounded and lossy
  events use it up too, while the journal replays events of any age.
- *The audit.* `FileKeepsCheckpoints` compares the file at every moment with the history of all that was
  appended; `RecoveryUnchanged` says compaction and recovery agree on which of two cycles is the later,
  which they decide in different modules. Both are about the running mission, the only one recovery reads.

- *Speech.* `OneAtATime` and `SenderNeverDouble` are about `aired`, what was really sent since the queues were
  cleared, not about the reservations the code keeps. `NothingOverdue` is bounded waiting, which needs no
  fairness because time is the tick. Configuring the service again forgets what is on the air, so nothing keeps
  the next owner off it: the properties start anew there.
- *Plans.* `SuccessIsEarned`, `CompletionIsEarned` and `CancelledIsQuiet` compare what the client records with
  what MOOSE did, over lost acknowledgements, retries, aborts and restarts. `StatusesAgree` and
  `NothingAbandoned` say that no await leaves the record half changed.
- *Diplomacy.* All copies, on disk, in the map server and in operators' hands, are consistent in themselves
  whoever overwrites whom; `CollectedIsKept` adds that nothing between the cursor and the snapshot is lost
  while all persists succeed and no operator overwrites one.
- *Coordinator.* `ExecutionsInOrder` reads the attempts on record, so it covers what happens over restarts:
  without the recovery before selection a candidate would run twice. `ScheduleHolds` derives the earliest time of
  a selection from the audit alone, not from the memory of the coordinator. Both parts that need it exclude
  a mishap (`mishaps = 0`); what happens then is in section 5.

### Fairness

`FairSpec` of BridgeSystem assumes weak fairness of the Lua connect, disconnect, command handling and flush steps, because
the DCS scheduler calls the tick again and again, and of the daemon's connection tasks, because the event
loop runs every task that can run. Nothing forces the network to fail, the clock to advance, a mission to
end, an event or a call to happen, or a call to time out. The conclusions are up to the last connection of
the bound breaking (`NoConnectionLeft`): a connection that always breaks in time prevents any progress.

`FairSpec` of Coordinator assumes weak fairness of each worker's recovery, cycle and wait for the lock, and of
the report of the mission's end: a worker is a coroutine the event loop resumes, every await in it ends by a
timeout at the latest, `asyncio.Lock` is first come, first served, and the watcher waits for `mission.ended` as
long as the coordinator runs. Nothing forces the mission to end. Speech, plans, diplomacy and the audit
have safety properties only and no fairness.

### Findings

1. `boundary_is_real`: any line whose mission time lies more than the tolerance below the last one is taken
   for a new mission, but a cached result or a retained acknowledgement carries an old time. A reconnect in a
   long mission can thus fail the waiting calls and reset the mirror.
2. `partial_head_dropped`: when the queue overflows while its head has been sent in part, the head is dropped and
   the offset stays, so the stream is garbled up to the next newline.
3. `audit_unreadable`: an audit line cut within a multi-byte character makes `_load` raise, and the daemon
   does not start; the tests expect a partial trailing record to be survived.

## 4. Proofs

Each theorem holds for every value of the constants that satisfies the named assumptions of its module, so for
any number of commands, events, connections, intents, operators or candidates, and any limit. `Queues_proofs`
holds the lemmas on the list operators, on least and greatest numbers (`LeastNatural`, `GreatestNatural`) and on
what `Kept`, the lines a compaction or a bounded list retains, does to the place of an element.

| Module | Theorem | States | Inductive invariant |
|---|---|---|---|
| `BridgeSystem_proofs` | `TypeCorrect` | `[]TypeOK` | `TypeOK`; the limits of queue, journal and seen window are part of it |
| | `EvictionBeforeReexecution` | `[]ReexecutedOnlyAfterEviction` | `CacheInv`: with `RecentResultsCached`, the results of this mission's last executions, up to the limit, are in the cache; without it nothing relates `effects` to `results` |
| | `EvictionBeforeReapplication` | `[]ReappliedOnlyAfterEviction` | `SeenInv`: with `RecentEventsSeen`, the last `SeenLimit - SeenEvicted` or more applied ids are in the window |
| `BridgeCalls_proofs` | `CallsAreRegistered` | `[]WaitingIsPending` | itself, with `TypeOK`; the key fact is that `_pending` holds a call once, so that removing it removes it |
| | `WriterOwnership` | `[](NewestOwnsWriter /\ ConnectedHasWriter)` | `WriterInv`: connections are opened and accepted in order, the writer is the newest accepted connection or none, all but the newest opened one are closed on Lua's side, and what has ended is silent |
| | `RepliesAreOwn` | `[]ReplyIsOwn` | `ReplyInv`: every acknowledgement in the queue, the cache, on a connection or half sent reports an execution of its own command (`OwnMessages`) |
| | `CallsKeepPromiseHolds` | the refinement `CallsKeepPromise`, given one mission and a cache that holds a result of every command | `PromiseInv`: every result in the cache is that of an effect, and of every effect (`OnceInv`), only what was called is under way (`CalledInv`), and `ReplyInv`; each step of the bridge maps to a step of `CommandCalls` or a stutter |
| | `SnapshotBeforeReplyHolds` | `[]SnapshotBeforeReply`, given `[]HasRoom` | `SnapshotInv`: on the first connection, what is sent, half sent and queued is one stream in which the snapshot of a run precedes its acknowledgement or has been mirrored (`StreamTold`) |
| | `MissionsStayInOrder` | `[]MissionsInOrder`, a part of `AppliedInOrder` | `MissionInv`: queue and journal are of the mission (`QueueOfMission`), what the connections carry is in the order of the missions (`SentInOrder`), and nothing on them is of a mission before what is applied (`AppliedBeforeSent`) |
| | `AppliedInOrderHolds` | `[]AppliedInOrder`, given `[]WithinLimits` | `OrderInv`, with `MissionInv`: on every connection, and on the one that is up followed by the queue, a reliable event comes after all raised before it that the daemon has not heard (`Ordered`); the journal, and what is under way on the connection that is up, hold all of those (`Full`) |
| `Speech_proofs` | `TypeCorrect`, `OneAtATimeHolds`, `SenderNeverDoubleHolds`, `NothingOverdueHolds` | the invariants of these names | `IInv`: a transmission is over or what its sender still transmits (`Covered`), the reservation of a network reaches to the end of all that was sent on it (`Reserved`), nothing waits without an owner (`QuietUnowned`), and a strict network defers nothing past its reservation (`DeferredInBounds`) |
| | `StrictPriorityHolds` | the action property | `IInv`, of which `DeferredInBounds` is the key |
| | `SpokenOnceHolds` | `[]SpokenOnce` | `OnceInv`: what the history of an intent says of its transmissions (`HistoryTells`): none is recent unless it is under way (`ActiveRecorded`) or recorded as completed; what waits is recorded as queued (`QueuedOnce`), so that a repeated request is refused |
| `PlanExecution_proofs` | `TypeCorrect`, `SuccessIsEarnedHolds` | `[]TypeOK`, `[]SuccessIsEarned` | `TypeInv`: the records of the attempt, in memory and saved, name AUFTRAGs of their own requirement, a success one that was won (`Owns`), and what the coroutine is at is in order (`Order`) |
| | `CancelledStaysCancelledHolds` | the action property | `TypeInv`: an attempt starts only on an approved plan |
| | `OncePerAttemptHolds` | `[]OncePerAttempt` | `OnceInv`: the saved attempt is the current one, and a requirement that execute has still to submit was tasked by earlier attempts only |
| | `CancelledIsQuietHolds` | `[]CancelledIsQuiet` | `QuietInv`: until a command fails, an abort knows of every live AUFTRAG it is to cancel; a plan that is cancelled, or would be restored so, has no abort and is not worked on again |
| | `StatusesAgreeHolds` | `[]StatusesAgree` | `AgreeInv`: until the first interruption, what is saved agrees too |
| | `NothingAbandonedHolds` | `[]NothingAbandoned` | `AbandonedInv`, with `AgreeInv`: without an interruption, only an effect that cannot be recorded is ever taken up by `reconcile` or `monitor_interrupted` |
| | `CompletionIsEarnedHolds` | `[]CompletionIsEarned` | `EarnedInv`, with `AbandonedInv`: while execute works, every required AUFTRAG on record is known, but for the one on its way (`Tracked`), and until one fails, what the phase requires is earned or waited for (`Awaited`) |
| `Diplomacy_proofs` | `TypeCorrect`, `ProposalsCurrent`, `ReportedRecorded`, `NoStale` | `TypeOK`, `PendingIsCurrent`, `ReportedIsRecorded`, `NoStaleIncident` | `IInv`: each of these of every copy, wherever it is, on disk, in memory or in an operator's hands (`CopiesSound`), and the loop of the map server works on a copy, a mirror and a bridge of one mission (`LoopAgrees`) |
| | `OnePerStayHolds` | `[]OnePerStay` | `StayInv`: no group is inside but for a stay (`Entered`), every copy that is or may become the mission's has no more border incidents of a group than it had stays, and fewer while it may still report one (`Allowed`), and nothing is kept for a mission to come (`NothingAhead`) |
| | `CollectedIsKeptHolds` | `[]CollectedIsKept` | `KeptInv`: the cursor and what is to be applied are within the history (`CursorInv`), whoever noticed the running mission has the mirror notice it (`NoticedInv`), a session only adds to what it read (`DraftsGrow`), and until something is lost, what the loop has passed or knows is in its copy while it works and stored when it does not (`PassedIsKept`, `KnownIsKept`, `UnchangedIsStored`) |
| | `ScoredOnceHolds` | `[]ScoredOnce` | `ScoreInv`: every copy holds finitely many incidents and its score is the bounded sum of their points (`Scored`); `RecordScores` says that only an incident that is not yet there is scored, `BoundedAdd` that the bound may be applied after each of them or once |
| `AuditRecovery_proofs` | `TypeCorrect`, `FileKeepsCheckpointsHolds`, `DiskIsMemoryHolds`, `RecoveryUnchangedHolds` | the invariants of these names | `IInv`: the undamaged lines of the file have the checkpoints of all that was appended to the running mission (`Agree`), the memory of the store is indexed by them (`Indexed`), no record is of a mission to come (`Scopes`), and the cycles a coordinator has yet to write and those on record are apart in time (`Starts`) |
| `Coordinator_proofs` | `TypeCorrect` | `[]TypeOK` | `TypeInv`: a worker is at its own candidates and at attempts on record (`OwnedBy`), what belongs to a cycle or a recovery is there only during one (`InPlace`), and cooldowns are bounded, so that a greatest one exists to restore |
| | `CompletedIsFinalHolds` | `[]CompletedIsFinal` | `FinalInv`: what is left of a plan is looked into only while no attempt at it has completed (`Unfinished`) |
| | `ExecutionsInOrderHolds` | `[]ExecutionsInOrder` | `LimitInv`: what executes in the audit is what the worker is at or has yet to recover (`Accounted`), no candidate twice (`Single`), and all it is at, or selected, fits the limit (`Room`); the executing attempts inject into these candidates |
| | `ScheduleIsKept` | the action property `ScheduleHolds` | `CooledInv`: until the next selection, the memory tells of the last cycle on record (`Cadenced`); the attempts at a candidate follow each other, with the cooldown between those at different plans (`Ordered`); the cooldown in memory lasts as long as the last attempt demands and is no later than what is to be recovered (`Remembered`); and no cycle on record hides the end of a cooldown that lasts longer (`Selected`, `Covers`), so that what a restart restores does not either |

The assumptions are typing, bounds in Nat, and: for speech, that no transmission is the silent one and that each
takes time; for diplomacy, that operators want known states and that `None` is no record; for the audit, that cooldowns and
bounds are numbers; for the coordinator, that there are finitely many candidates, each of one coalition, and that
`None` is no number and no cooldown. Three theorems have hypotheses of their own. `CallsKeepPromiseHolds` is about
one mission (`MaxMissions <= 1`) and a cache that is never full (`Cardinality(Commands) <=
CommandResultCacheLimit`), as run `bridge_commands` is: outside of them the code repeats effects (section 3).
`SnapshotBeforeReplyHolds` is about behaviours in which the queue always has room for a snapshot and its
acknowledgement: a full queue drops a snapshot (it is lossy), so without it the property is false for a small
enough limit. `AppliedInOrderHolds` adds two limits to it (`WithinLimits`): the events of a mission
have not filled the journal, and what the daemon applied has not filled its window. Beyond them an event that has
left the journal is lost or sent out of its order by the next replay, and an event that has left the window is
applied again, as `ReappliedOnlyAfterEviction` allows. The run `bridge_order` stays within them. Both theorems on
order rest on `EarlierDrained`, the fact about asyncio of section 2.

Each proof has one lemma or step per action and splits where the action touches the invariant. In the
coordinator, a step of one worker is shown to leave the other one alone once (`Elsewhere`), so that every action
is about one worker; an execution that raises is no case of `LimitInv`, which is about runs without a mishap. In
plan execution, every step but the start of an attempt, a submission and a restart is shown once to be `Calm`: it
tasks nothing, forgets no record, leaves the attempt's number and resumes no cancelled plan; the invariants are
carried over calm steps at once.

For the order of events, the lines under way are treated as one stream: what a connection still carries and, if it is
up, the queue behind it. Taking a line off its head, adding one at its end and rebuilding its rest from the journal
are each shown once to keep `Ordered` and `Full` of any stream, and an action of the bridge is made of these.

For the audit, an append and a compaction are shown once to commute with the newest record of a key, which gives
memory, file and recovery at once; that the fold of `RestoredSchedule` tells the newest record of each kind is
proved by a least counterexample over its prefixes, not by induction. For `ScheduleIsKept`, the key is that the
greatest cooldown on record, which a restart restores, is either that of the last attempt or of a cycle that
began after it ended: `Covers` says of each cycle on record that it then lasts at least as long, and, of an
attempt that is executing, that no cycle on record began after it, so that the cooldown its recovery begins
replaces the restored one.

For `ScoredOnce`, the sum of the points is the fold of the community modules over a set, which chooses the order of
the incidents. An induction theorem whose parameter is an operator cannot be used here, so `FiniteInduction`
states induction over the parts of a finite set with a set as its parameter, and is proved by a least
counterexample (by cardinality). With it, the function the fold chooses is shown to exist (`SumDefined`) and not to
depend on the set it is a part of (`SumsAgree`); so a sum is that of any element and of the others
(`TotalWithout`), whatever the order.

Only model-checked: liveness, which is out of the prover's reach (fairness and `ENABLED`).

## 5. Not modelled

`PROJECT.json` gives the reason per component. In short: the control API, the event history with its waiters and
the navigation sessions have protocols and are left for later (section 6); the MOOSE-side extensions act on
objects of a library that is not in the repository; the mirror, reconnaissance, terrain, infrastructure and codec
modules and the tools are computations, or input and output, without a protocol. Two hazards of the modelled
components have no property: `send_command` awaits `drain` before its timeout starts (server.py:504), and a
mission that begins no earlier than the last one ended, whose end message was lost, raises no boundary
(server.py:326).

What the code does and the models contain, or deliberately leave out, and no property forbids:

*The bridge.* A pending command is replayed to the next mission's empty cache and has its effect again
(server.py:483), see section 3.

*Plan execution* (operational_execution.py).

- A client killed between MOOSE's acceptance of an AUFTRAG and the record of it reconciles to "before any AUFTRAG
  was submitted" (274-299), and a retry submits it again; README.md:163-169 of the repository tells of a recovery
  from what MOOSE reports. A submission that times out leaves no id either.
- An abort beside an execution is not noticed by it before its next wait: COMPLETED may overwrite CANCELLED, and a
  failed abort's BLOCKED is carried on.
- `prepare_retry` looks at the statuses only (525-529). Prepared while an abort still awaits a cancellation, the
  draft is cancelled or blocked by that abort; prepared beside a coroutine that a failed abort left running, the
  coroutine goes on. An attempt that is executed before the abort of the one before has ended, which the model
  leaves out (`OneAttempt`), would be cancelled or blocked by it while its own AUFTRAGs live.
- A DISABLE plan whose goal is decided before its effect is confirmed stays executing: `complete_manual` raises
  (strategic.py:844) and nothing in `execute` catches it. `NothingAbandoned` excepts this.
- The first required failure blocks the plan while its siblings are live; a retry submits them again.
- A kill right after `plan.started` leaves an attempt without a phase, which the next look at it raises for.
- Two concurrent calls of `execute` both pass the guards, which precede an await (653). The model has one.
- `validate` does not look at the status, `plan_ref` is lost by a restore (1873), a "paused" AUFTRAG is not
  recognised by the snapshot, and a missing cursor considers the newest matching event only.

*Diplomacy* (map_server.py, sdk.py).

- A persist that fails loses its incidents until the map server is restarted: the cursor and the known ids are past
  them (1666), and the next refresh overwrites the memory.
- A persist writes the whole snapshot, so it undoes what another client wrote since, even a declared war.
- A withdrawal whose persist failed or was overwritten is not persisted again, because it is compared with the
  crossings last seen; a later entry is then not reported, against README.md:568 of the repository.
- With automatic transitions, a manual proposal is approved by any client that reads it.
- Observing persists a fresh state where none was saved, which may overwrite the first snapshot.

*The coordinator* (strategic_coordinator.py).

- An execution that raises, or whose last snapshot is lost, stays executing in the audit: a restart takes up a plan
  that was given up, beyond the limit or beside a newer plan, and its cooldown, dated by the start of the attempt, may
  yield to an older one. This is what `mishaps = 0` excludes.
- A lost snapshot of an attempt whose successor completed makes every later start fail: the latest attempt
  is restored, and monitoring it raises.
- The end of the mission that an answer reports during a recovery raises "coordinator recovery failed" unless the
  generation has changed (587-601), while README.md:158 of the repository has it stop the workers.
- `gather` without `return_exceptions` leaves the other worker running when one raises.
- A client killed between the block of an interrupted attempt and its resumption does not resume the plan later.
- A plan is named by its candidate and the time, so a reselection at the same time after a restart is refused.

## 6. Plan

Done: the bridge with its abstract `CommandCalls`, the audit store and its recovery, speech, plan execution,
diplomacy and the coordinator, with the theorems of section 4. What is left, in this order:

1. `EventHistory`: history, cursors and waiters, added to the daemon's model and its runs. The known hazard: with a
   cursor that has been evicted, `wait_for_event` looks at none of the retained events.
2. The composition of `Coordinator` with `PlanExecution`, an abstract execution (a start, then an end or none) as
   what the coordinator assumes and the executor refines.
3. The control API and the navigation sessions, as far as their protocols go.
