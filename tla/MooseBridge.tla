------------------------------ MODULE MooseBridge -----------------------------
(***************************************************************************)
(* The transport of lua/MooseBridge.lua: the bounded output queue, the     *)
(* journal of reliable events, the cache of command results, and the       *)
(* iterations of the scheduler tick.                                       *)
(*                                                                         *)
(* _Tick connects, reads commands, flushes the queue and sends heartbeats. *)
(* The network moves between any two iterations of its loops, and a send   *)
(* may report "timeout" at any of them, which ends the flush; so each      *)
(* iteration is a step here, and a tick is any sequence of them.           *)
(***************************************************************************)
EXTENDS BridgeWire

CONSTANTS
  MaxOutQueueMessages,        \* 2000 in the code
  CommandResultCacheLimit,    \* 1000
  ReliableEventJournalLimit,  \* 1000
  HeartbeatInterval,          \* seconds of mission time
  MaxTime,                    \* bound: the mission clock
  MaxMissions                 \* bound: missions started

ASSUME MooseBridgeAssumption ==
  /\ MaxOutQueueMessages \in Nat /\ MaxOutQueueMessages >= 2
  /\ CommandResultCacheLimit \in Nat \ {0}
  /\ ReliableEventJournalLimit \in Nat \ {0}
  /\ HeartbeatInterval \in Nat \ {0}
  /\ MaxTime \in Nat /\ MaxMissions \in Nat

VARIABLES
  mission,        \* the mission running; its bridge is a fresh Lua instance
  now,            \* mission_time()
  lastHeartbeat,  \* LastHeartbeat
  socket,         \* the connection self.Socket is open on, or NoConn
  outQueue,       \* OutQueue from OutQueueHead to OutQueueTail
  offset,         \* OutQueueOffset > 1: the head has been sent in part
  fragment,       \* the messages (none or one) begun but not ended on the wire
  journal,        \* ReliableEventJournal
  results,        \* CommandResultOrder, each id with the message it is cached for
  raised,         \* the events this mission has raised, oldest first
  effects         \* history: the executions of command handlers, in order

luaVars == <<mission, now, lastHeartbeat, socket, outQueue, offset, fragment,
             journal, results, raised, effects>>

LuaTypeOK ==
  /\ mission \in Nat \ {0} /\ now \in Nat /\ lastHeartbeat \in Nat
  /\ socket \in Conns \cup {NoConn}
  /\ outQueue \in Seq(Messages) /\ Len(outQueue) <= MaxOutQueueMessages
  /\ offset \in BOOLEAN
  /\ fragment \subseteq Messages
  /\ journal \in Seq(EventMessages) /\ Len(journal) <= ReliableEventJournalLimit
  /\ results \in Seq(Acks)
  /\ raised \in Seq(EventNames)
  /\ effects \in Seq([mission : Nat, command : Commands])

LuaInit ==
  /\ mission = 1 /\ now = 0 /\ lastHeartbeat = 0
  /\ socket = NoConn
  /\ outQueue = <<>> /\ offset = FALSE /\ fragment = {}
  /\ journal = <<>> /\ results = <<>> /\ raised = <<>> /\ effects = <<>>

-----------------------------------------------------------------------------
(* The output queue. The byte limit is left out: entries count one each.    *)

Lossy(q) == {i \in DOMAIN q : ~IsReliable(q[i])}
First(S) == CHOOSE i \in S : \A j \in S : i <= j

\* Faulty variant of Enqueue: <= where the code has <.
EnqueueLate(q, m) ==
  IF IsReliable(m) /\ \E i \in DOMAIN q : q[i] = m THEN q
  ELSE IF Len(q) <= MaxOutQueueMessages THEN Append(q, m) ELSE Append(Tail(q), m)

\* _EnqueueMessage with _MakeOutQueueRoom: one new message needs one place, so
\* the loop that makes room removes at most one: the oldest lossy message, or
\* else the oldest message if the new one is reliable.
Enqueue(q, m) ==
  IF IsReliable(m) /\ \E i \in DOMAIN q : q[i] = m THEN q
  ELSE IF Len(q) < MaxOutQueueMessages THEN Append(q, m)
  ELSE IF Lossy(q) # {}
       THEN Append(Without(q, First(Lossy(q))), m)
  ELSE IF IsReliable(m) THEN Append(Tail(q), m) ELSE q

\* Send: without a socket only reliable messages are kept.
Send(q, m) == IF socket = NoConn /\ ~IsReliable(m) THEN q ELSE Enqueue(q, m)

\* _RememberReliableEvent; ids are fresh, so the check for a known id is void.
Remember(m) == LastN(Append(journal, m), ReliableEventJournalLimit)

\* Faulty variant of ReplayedQueue: what was sent is taken for received.
ReplayPendingOnly == Kept(outQueue, DOMAIN outQueue \ Lossy(outQueue))

\* _ReplayReliableEvents: the journal first, then the reliable messages that
\* were pending and are not in it.  All of them are reliable and distinct, so
\* sending them in turn to an empty queue keeps the last that fit.
ReplayedQueue ==
  LET Pending == {i \in DOMAIN outQueue :
                    /\ IsReliable(outQueue[i])
                    /\ \A j \in DOMAIN journal : journal[j] # outQueue[i]}
  IN  LastN(journal \o Kept(outQueue, Pending), MaxOutQueueMessages)

\* The line that reaches the daemon when the head is sent to its end.  The rest
\* of one message after the beginning of another is not JSON.
LineOf(m) ==
  IF (offset /\ fragment = {m}) \/ (~offset /\ fragment = {}) THEN m ELSE Garbled

-----------------------------------------------------------------------------
(* Connecting and disconnecting.                                            *)

\* _Connect, when it succeeds, and _OnConnected.  The next free number names
\* the new connection.
Connect ==
  /\ socket = NoConn
  /\ \E k \in Conns :
       /\ link[k] = "unused" /\ \A j \in 1..(k - 1) : link[j] # "unused"
       /\ socket' = k
       /\ link' = [link EXCEPT ![k] = "up"]
  /\ outQueue' = ReplayedQueue
  /\ offset' = FALSE
  /\ fragment' = {}
  /\ UNCHANGED <<toLua, toPy, mission, now, lastHeartbeat, journal, results,
                 raised, effects>>

\* _Disconnect: after receive failed, which it does once the peer is gone and
\* what had arrived is read, or after send failed.  Only reliable output is
\* retained.
Disconnect ==
  /\ socket # NoConn
  /\ link[socket] = "down"
  /\ toLua[socket] = <<>> \/ outQueue # <<>>
  /\ socket' = NoConn
  /\ toLua' = [toLua EXCEPT ![socket] = <<>>]
  /\ outQueue' = Kept(outQueue, DOMAIN outQueue \ Lossy(outQueue))
  /\ offset' = FALSE
  /\ fragment' = {}
  /\ UNCHANGED <<link, toPy, mission, now, lastHeartbeat, journal, results,
                 raised, effects>>

-----------------------------------------------------------------------------
(* Commands.                                                                *)

\* Faulty variant of Cached: a replayed command is executed again.
NeverCached(c) == FALSE

Cached(c) == \E i \in DOMAIN results : results[i].command = c

\* A command whose result is cached: its acknowledgement is sent again as it
\* was, and the handler is not called.
ReplayResult ==
  /\ socket # NoConn /\ toLua[socket] # <<>>
  /\ Cached(Head(toLua[socket]))
  /\ \E i \in DOMAIN results :
       /\ results[i].command = Head(toLua[socket])
       /\ outQueue' = Send(outQueue, results[i])
  /\ toLua' = [toLua EXCEPT ![socket] = Tail(@)]
  /\ UNCHANGED <<link, toPy, mission, now, lastHeartbeat, socket, offset,
                 fragment, journal, results, raised, effects>>

\* Faulty variant of ExecuteCommand: the acknowledgement overtakes the snapshot.
AckFirst ==
  /\ socket # NoConn /\ toLua[socket] # <<>>
  /\ ~Cached(Head(toLua[socket]))
  /\ LET c == Head(toLua[socket])
         r == Len(effects) + 1
         ack == Reply("ack", c, mission, r, now)
         snapshot == Reply("snapshot", c, mission, r, now)
     IN  /\ effects' = Append(effects, [mission |-> mission, command |-> c])
         /\ results' = LastN(Append(results, ack), CommandResultCacheLimit)
         /\ outQueue' = IF c \in SnapshotCommands
                        THEN Send(Send(outQueue, ack), snapshot)
                        ELSE Send(outQueue, ack)
  /\ toLua' = [toLua EXCEPT ![socket] = Tail(@)]
  /\ UNCHANGED <<link, toPy, mission, now, lastHeartbeat, socket, offset,
                 fragment, journal, raised>>

\* Any other command: the handler runs (its failure, and an unknown action,
\* are acknowledged the same way), then _RememberCommandResult evicts the
\* oldest result above the limit and the acknowledgement is sent.
ExecuteCommand ==
  /\ socket # NoConn /\ toLua[socket] # <<>>
  /\ ~Cached(Head(toLua[socket]))
  /\ LET c == Head(toLua[socket])
         r == Len(effects) + 1
         ack == Reply("ack", c, mission, r, now)
         snapshot == Reply("snapshot", c, mission, r, now)
     IN  /\ effects' = Append(effects, [mission |-> mission, command |-> c])
         /\ results' = LastN(Append(results, ack), CommandResultCacheLimit)
         /\ outQueue' = IF c \in SnapshotCommands
                        THEN Send(Send(outQueue, snapshot), ack)
                        ELSE Send(outQueue, ack)
  /\ toLua' = [toLua EXCEPT ![socket] = Tail(@)]
  /\ UNCHANGED <<link, toPy, mission, now, lastHeartbeat, socket, offset,
                 fragment, journal, raised>>

-----------------------------------------------------------------------------
(* Output.                                                                  *)

\* _FlushOutQueue, one message sent to its end.
FlushMessage ==
  /\ socket # NoConn /\ outQueue # <<>>
  /\ toPy' = SendToPy(socket, <<LineOf(Head(outQueue))>>)
  /\ outQueue' = Tail(outQueue)
  /\ offset' = FALSE
  /\ fragment' = {}
  /\ UNCHANGED <<link, toLua, mission, now, lastHeartbeat, socket, journal,
                 results, raised, effects>>

\* _FlushOutQueue, the socket buffer is full after a part of the head.
FlushPart ==
  /\ socket # NoConn /\ outQueue # <<>> /\ ~offset
  /\ offset' = TRUE
  /\ fragment' = IF fragment = {} THEN {Head(outQueue)} ELSE fragment
  /\ UNCHANGED <<wireVars, mission, now, lastHeartbeat, socket, outQueue,
                 journal, results, raised, effects>>

\* The heartbeat at the end of a tick; LastHeartbeat moves even when there is
\* no socket to send it on.
SendHeartbeat ==
  /\ now - lastHeartbeat >= HeartbeatInterval
  /\ lastHeartbeat' = now
  /\ outQueue' = Send(outQueue, Heartbeat(mission, now))
  /\ UNCHANGED <<wireVars, mission, now, socket, offset, fragment, journal,
                 results, raised, effects>>

\* SendEvent, called by the DCS and MOOSE event handlers between ticks.
SendEvent(e) ==
  /\ \A i \in DOMAIN raised : raised[i] # e
  /\ raised' = Append(raised, e)
  /\ LET m == EventMessage(e, mission, now)
     IN  /\ journal' = IF IsReliable(m) THEN Remember(m) ELSE journal
         /\ outQueue' = Send(outQueue, m)
  /\ UNCHANGED <<wireVars, mission, now, lastHeartbeat, socket, offset,
                 fragment, results, effects>>

-----------------------------------------------------------------------------
(* The mission around the bridge.                                           *)

AdvanceClock ==
  /\ now < MaxTime
  /\ now' = now + 1
  /\ UNCHANGED <<wireVars, mission, lastHeartbeat, socket, outQueue, offset,
                 fragment, journal, results, raised, effects>>

\* OnEventMissionEnd raises "mission.ended" and flushes the queue, then DCS
\* destroys the Lua state and with it the socket; a prefix of the output gets
\* through, none of it if DCS is killed.  The next mission's script creates a
\* new bridge (New), whose clock starts again; until it connects it does
\* nothing that can be seen, so it is created here.
RestartMission ==
  /\ mission < MaxMissions
  /\ LET ended == EventMessage(MissionEnded, mission, now)
         last == Enqueue(outQueue, ended)
         lines == [i \in DOMAIN last |-> IF i = 1 THEN LineOf(last[1]) ELSE last[i]]
         heard == IF socket # NoConn /\ link[socket] = "up"
                  THEN Arriving(toPy[socket] \o lines) ELSE {toPy[socket]}
     IN  IF socket = NoConn THEN UNCHANGED wireVars
         ELSE /\ link' = [link EXCEPT ![socket] = "down"]
              /\ toLua' = [toLua EXCEPT ![socket] = <<>>]
              /\ \E s \in heard : toPy' = [toPy EXCEPT ![socket] = s]
  /\ mission' = mission + 1
  /\ now' = 0 /\ lastHeartbeat' = 0
  /\ socket' = NoConn
  /\ outQueue' = <<>> /\ offset' = FALSE /\ fragment' = {}
  /\ journal' = <<>> /\ results' = <<>> /\ raised' = <<>>
  /\ UNCHANGED effects

LuaNext ==
  \/ Connect \/ Disconnect
  \/ ReplayResult \/ ExecuteCommand
  \/ FlushMessage \/ FlushPart \/ SendHeartbeat
  \/ \E e \in Events : SendEvent(e)
  \/ AdvanceClock \/ RestartMission
=============================================================================
