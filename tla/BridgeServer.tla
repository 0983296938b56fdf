----------------------------- MODULE BridgeServer -----------------------------
(***************************************************************************)
(* The daemon's side of the DCS connection, python/moosebridge/server.py,  *)
(* with the mission-scoped part of the state mirror it keeps (state.py).   *)
(*                                                                         *)
(* The daemon is one asyncio event loop: a step is what runs between two   *)
(* awaits.  _handle_line awaits nothing that suspends, so a line is one    *)
(* step; _resend_pending_commands may suspend in drain after every command *)
(* it writes; send_command suspends once its command is written.           *)
(***************************************************************************)
EXTENDS BridgeWire

CONSTANTS
  SeenLimit,          \* 20000: the event ids _is_duplicate_event remembers,
  SeenEvicted,        \* 2000: and how many of the oldest it then forgets
  RollbackTolerance   \* MISSION_CLOCK_ROLLBACK_TOLERANCE_S

ASSUME BridgeServerAssumption ==
  /\ SeenLimit \in Nat /\ SeenEvicted \in Nat
  /\ 0 < SeenEvicted /\ SeenEvicted <= SeenLimit
  /\ RollbackTolerance \in Nat

VARIABLES
  handler,       \* the _handle_dcs_client task of each connection
  resend,        \* the commands it has still to replay before it reads
  writer,        \* the connection self._writer belongs to, or NoConn
  connected,     \* state.connected
  missionEnded,  \* state.mission_ended
  clock,         \* state.clock.mission_time, or NoTime
  generation,    \* state.mission_generation
  call,          \* what became of each send_command call
  pending,       \* the keys of _pending, in the order of the dictionary
  reply,         \* the run whose acknowledgement a call returned, else 0
  seen,          \* _seen_event_order
  applied,       \* history: the events handed to the mirror, in order
  mirrored       \* history: the runs whose snapshot _apply_snapshot has taken

serverVars == <<handler, resend, writer, connected, missionEnded, clock,
                generation, call, pending, reply, seen, applied, mirrored>>
connVars == <<handler, resend, writer>>
callVars == <<call, pending, reply>>
historyVars == <<seen, applied, mirrored>>

NoTime == -1
CallStates == {"idle", "waiting", "acked", "timed_out", "mission_ended"}

\* The id of an event: InstanceId and sequence number, here its mission and name.
EventIds == [mission : Nat, event : EventNames]
EventId(m) == [mission |-> m.mission, event |-> m.event]

ServerTypeOK ==
  /\ handler \in [Conns -> {"none", "running", "finished"}]
  /\ resend \in [Conns -> Seq(Commands)]
  /\ writer \in Conns \cup {NoConn}
  /\ connected \in BOOLEAN /\ missionEnded \in BOOLEAN
  /\ clock \in Nat \cup {NoTime}
  /\ generation \in Nat
  /\ call \in [Commands -> CallStates]
  /\ pending \in Seq(Commands)
  /\ reply \in [Commands -> Nat]
  /\ seen \in Seq(EventIds) /\ Len(seen) <= SeenLimit
  /\ applied \in Seq(EventIds)
  /\ mirrored \subseteq Nat

ServerInit ==
  /\ handler = [k \in Conns |-> "none"]
  /\ resend = [k \in Conns |-> <<>>]
  /\ writer = NoConn
  /\ connected = FALSE /\ missionEnded = FALSE
  /\ clock = NoTime /\ generation = 0
  /\ call = [c \in Commands |-> "idle"]
  /\ pending = <<>>
  /\ reply = [c \in Commands |-> 0]
  /\ seen = <<>> /\ applied = <<>> /\ mirrored = {}

Waiting(c) == \E i \in DOMAIN pending : pending[i] = c

\* _pending.pop(c, None)
Popped(c) ==
  IF Waiting(c) THEN Without(pending, CHOOSE i \in DOMAIN pending : pending[i] = c)
  ELSE pending

-----------------------------------------------------------------------------
(* Connections (_handle_dcs_client).                                        *)

\* A new connection supersedes the one in use, whose transport is closed: of
\* what Lua sent on it only what has been read into the StreamReader is left.
\* Connections are accepted in the order they were made.
AcceptConnection(k) ==
  /\ link[k] # "unused" /\ handler[k] = "none"
  /\ \A j \in Conns : j < k => handler[j] # "none"
  /\ handler' = [handler EXCEPT ![k] = "running"]
  /\ resend' = [resend EXCEPT ![k] = pending]
  /\ writer' = k
  /\ connected' = TRUE
  /\ IF writer = NoConn THEN UNCHANGED wireVars
     ELSE /\ link' = [link EXCEPT ![writer] = "down"]
          /\ \E read \in IF link[writer] = "up"
                         THEN Arriving(toLua[writer]) ELSE {toLua[writer]} :
               toLua' = [toLua EXCEPT ![writer] = read]
          /\ \E read \in Arriving(toPy[writer]) :
               toPy' = [toPy EXCEPT ![writer] = read]
  /\ UNCHANGED <<missionEnded, clock, generation, callVars, historyVars>>

\* Faulty variant of ResendCommand: a reconnect replays nothing.
ResendNothing(k) ==
  /\ handler[k] = "running" /\ resend[k] # <<>>
  /\ resend' = [resend EXCEPT ![k] = <<>>]
  /\ UNCHANGED <<wireVars, handler, writer, connected, missionEnded, clock,
                 generation, callVars, historyVars>>

\* _resend_pending_commands, one command; a future that is done is skipped, and
\* a connection that is gone ends the loop.
ResendCommand(k) ==
  /\ handler[k] = "running" /\ resend[k] # <<>>
  /\ resend' = [resend EXCEPT ![k] = IF link[k] = "up" THEN Tail(@) ELSE <<>>]
  /\ toLua' = IF Waiting(Head(resend[k]))
              THEN SendToLua(k, <<Head(resend[k])>>) ELSE toLua
  /\ UNCHANGED <<link, toPy, handler, writer, connected, missionEnded, clock,
                 generation, callVars, historyVars>>

\* Lua has closed a connection before it opens the next.  What a superseded task
\* still has in its StreamReader was read before that, and its wake-up is due (a
\* drain it is suspended in fails), so it is done with those lines before a
\* later task can read anything.
EarlierDrained(k) == \A j \in Conns : j < k => toPy[j] = <<>>

\* A fault of CloseConnection: a superseded task clears the state of the
\* connection that replaced it.
CloseAnyWriter(k) ==
  /\ handler[k] = "running" /\ resend[k] = <<>>
  /\ link[k] = "down" /\ toPy[k] = <<>> /\ EarlierDrained(k)
  /\ handler' = [handler EXCEPT ![k] = "finished"]
  /\ writer' = NoConn
  /\ connected' = FALSE
  /\ UNCHANGED <<wireVars, resend, missionEnded, clock, generation, callVars,
                 historyVars>>

\* The end of the stream; a task that was superseded leaves the state of the
\* connection that replaced it alone.
CloseConnection(k) ==
  /\ handler[k] = "running" /\ resend[k] = <<>>
  /\ link[k] = "down" /\ toPy[k] = <<>> /\ EarlierDrained(k)
  /\ handler' = [handler EXCEPT ![k] = "finished"]
  /\ writer' = IF writer = k THEN NoConn ELSE writer
  /\ connected' = IF writer = k THEN FALSE ELSE connected
  /\ UNCHANGED <<wireVars, resend, missionEnded, clock, generation, callVars,
                 historyVars>>

-----------------------------------------------------------------------------
(* Incoming lines (_handle_line).                                           *)

IsMissionEnd(m) == m.type = "event" /\ m.event = MissionEnded

\* Faulty variants of Duplicate and Noted: no event is a duplicate; one id too
\* many is forgotten.
NeverDuplicate(m) == FALSE
NotedShort(m) ==
  LET all == Append(seen, EventId(m))
  IN  IF Len(all) > SeenLimit THEN SubSeq(all, SeenEvicted + 2, Len(all)) ELSE all

\* _is_duplicate_event
Duplicate(m) == m.type = "event" /\ \E i \in DOMAIN seen : seen[i] = EventId(m)
Noted(m) ==
  LET all == Append(seen, EventId(m))
  IN  IF Len(all) > SeenLimit THEN SubSeq(all, SeenEvicted + 1, Len(all)) ELSE all

\* _detect_mission_clock_reset: the line is taken for the first of a new mission.
ClockReset(m) ==
  /\ ~IsMissionEnd(m)
  /\ clock # NoTime
  /\ m.time < clock - RollbackTolerance

\* Faulty variant of CallsFailed: the boundary forgets the callers.
CallsForgotten == call

\* The calls after _fail_pending(DcsMissionEndedError)
CallsFailed == [c \in Commands |-> IF Waiting(c) THEN "mission_ended" ELSE call[c]]

\* MooseBridgeState.reset_mission, _fail_pending and what apply_message then
\* does with a line m of the mission that follows the boundary, if there is one.
MissionBoundary(next) ==
  /\ generation' = generation + 1
  /\ call' = CallsFailed
  /\ pending' = <<>>
  /\ UNCHANGED reply
  /\ clock' = IF next = {} THEN NoTime ELSE (CHOOSE m \in next : TRUE).time
  /\ LET alive == \E m \in next : m.type = "heartbeat"
     IN  connected' = alive /\ missionEnded' = ~alive

\* Faulty variant of WithinMission: the oldest call gets any acknowledgement.
AckOldest(m) ==
  /\ clock' = m.time
  /\ IF m.type = "heartbeat" THEN connected' = TRUE /\ missionEnded' = FALSE
     ELSE UNCHANGED <<connected, missionEnded>>
  /\ IF m.type = "ack" /\ pending # <<>>
     THEN /\ pending' = Tail(pending)
          /\ call' = [call EXCEPT ![Head(pending)] = "acked"]
          /\ reply' = [reply EXCEPT ![Head(pending)] = m.run]
     ELSE UNCHANGED callVars
  /\ UNCHANGED generation

\* apply_message and _resolve_ack within a mission.
WithinMission(m) ==
  /\ clock' = m.time
  /\ IF m.type = "heartbeat" THEN connected' = TRUE /\ missionEnded' = FALSE
     ELSE UNCHANGED <<connected, missionEnded>>
  /\ IF m.type = "ack" /\ Waiting(m.command)
     THEN /\ pending' = Popped(m.command)
          /\ call' = [call EXCEPT ![m.command] = "acked"]
          /\ reply' = [reply EXCEPT ![m.command] = m.run]
     ELSE UNCHANGED callVars
  /\ UNCHANGED generation

HandleLine(k) ==
  /\ handler[k] = "running" /\ resend[k] = <<>>
  /\ toPy[k] # <<>> /\ EarlierDrained(k)
  /\ toPy' = [toPy EXCEPT ![k] = Tail(@)]
  /\ LET m == Head(toPy[k])
     IN  IF m = Garbled \/ Duplicate(m)
         THEN UNCHANGED <<connected, missionEnded, clock, generation, callVars,
                          historyVars>>
         ELSE /\ IF m.type = "event"
                 THEN seen' = Noted(m) /\ applied' = Append(applied, EventId(m))
                 ELSE UNCHANGED <<seen, applied>>
              /\ mirrored' = IF m.type = "snapshot" THEN mirrored \cup {m.run} ELSE mirrored
              /\ \/ IsMissionEnd(m) /\ MissionBoundary({})
                 \/ ClockReset(m) /\ MissionBoundary({m})
                 \/ ~IsMissionEnd(m) /\ ~ClockReset(m) /\ WithinMission(m)
  /\ UNCHANGED <<link, toLua, connVars>>

-----------------------------------------------------------------------------
(* Callers (send_command).                                                  *)

\* Without a writer send_command raises DcsBridgeConnectionError and nothing
\* changes.  Otherwise the call is registered before its command is written,
\* and stays registered if the write fails.
SendCommand(c) ==
  /\ call[c] = "idle" /\ writer # NoConn
  /\ call' = [call EXCEPT ![c] = "waiting"]
  /\ pending' = Append(pending, c)
  /\ toLua' = SendToLua(writer, <<c>>)
  /\ UNCHANGED <<link, toPy, connVars, connected, missionEnded, clock,
                 generation, reply, historyVars>>

\* asyncio.wait_for gives up; a late acknowledgement then finds no call.
TimeOut(c) ==
  /\ call[c] = "waiting"
  /\ call' = [call EXCEPT ![c] = "timed_out"]
  /\ pending' = Popped(c)
  /\ UNCHANGED <<wireVars, connVars, connected, missionEnded, clock, generation,
                 reply, historyVars>>

ServerNext ==
  \/ \E k \in Conns : \/ AcceptConnection(k) \/ ResendCommand(k)
                      \/ CloseConnection(k) \/ HandleLine(k)
  \/ \E c \in Commands : SendCommand(c) \/ TimeOut(c)
=============================================================================
