------------------------------ MODULE BridgeWire ------------------------------
(***************************************************************************)
(* What travels between the Lua bridge inside DCS and the Python daemon:   *)
(* JSON lines over TCP.  A mission's Lua bridge opens one connection after *)
(* the other; each is numbered when it is opened.                          *)
(*                                                                         *)
(* A line is a record.  The fields the protocol carries and nothing here   *)
(* depends on (payload, wall time, protocol version) are left out; the     *)
(* bridge's InstanceId is the number of the mission it runs in.            *)
(***************************************************************************)
EXTENDS Queues

CONSTANTS
  Commands,           \* the command ids callers may send, each at most once
  SnapshotCommands,   \* those whose handler sends a snapshot before it returns
  Events,             \* what a mission may raise, each at most once
  ReliableEvents,     \* those whose name is in ReliableEventNames
  MissionEnded,       \* the event "mission.ended", reliable too
  MaxConns            \* bound: connections the Lua side opens, all missions

ASSUME WireAssumption ==
  /\ SnapshotCommands \subseteq Commands
  /\ ReliableEvents \subseteq Events
  /\ MissionEnded \notin Events
  /\ MaxConns \in Nat

Conns == 1..MaxConns
NoConn == 0

EventNames == Events \cup {MissionEnded}

-----------------------------------------------------------------------------
(* Lines from Lua to the daemon. `run` numbers the executions of commands,  *)
(* so an acknowledgement that is sent again is the same record.             *)

Reply(type, c, m, r, t) ==
  [type |-> type, command |-> c, mission |-> m, run |-> r, time |-> t]
EventMessage(e, m, t) == [type |-> "event", event |-> e, mission |-> m, time |-> t]
Heartbeat(m, t) == [type |-> "heartbeat", mission |-> m, time |-> t]
Garbled == [type |-> "garbled"]   \* a line json.loads rejects

Acks == [type : {"ack"}, command : Commands, mission : Nat, run : Nat, time : Nat]
Snapshots ==
  [type : {"snapshot"}, command : Commands, mission : Nat, run : Nat, time : Nat]
EventMessages == [type : {"event"}, event : EventNames, mission : Nat, time : Nat]
Heartbeats == [type : {"heartbeat"}, mission : Nat, time : Nat]

Messages == Acks \cup Snapshots \cup EventMessages \cup Heartbeats
Lines == Messages \cup {Garbled}

IsReliable(m) ==
  CASE m.type = "heartbeat" -> FALSE
    [] m.type = "event"     -> m.event \in ReliableEvents \cup {MissionEnded}
    [] OTHER                -> TRUE

-----------------------------------------------------------------------------
VARIABLES
  link,    \* link[k]: "unused", "up", or "down" once either end has closed it
  toLua,   \* toLua[k]: command ids written by the daemon, not read by Lua yet
  toPy     \* toPy[k]: lines sent by Lua, not handled by the daemon yet

wireVars == <<link, toLua, toPy>>

WireTypeOK ==
  /\ link \in [Conns -> {"unused", "up", "down"}]
  /\ toLua \in [Conns -> Seq(Commands)]
  /\ toPy \in [Conns -> Seq(Lines)]

WireInit ==
  /\ link = [k \in Conns |-> "unused"]
  /\ toLua = [k \in Conns |-> <<>>]
  /\ toPy = [k \in Conns |-> <<>>]

\* The prefixes of s: what of the bytes under way can still arrive when a
\* connection goes down.
Arriving(s) == {SubSeq(s, 1, n) : n \in 0..Len(s)}

\* The connection fails under both ends.  Each end may still read what had
\* reached it.
Break(k) ==
  /\ link[k] = "up"
  /\ link' = [link EXCEPT ![k] = "down"]
  /\ \E read \in Arriving(toLua[k]), heard \in Arriving(toPy[k]) :
       /\ toLua' = [toLua EXCEPT ![k] = read]
       /\ toPy' = [toPy EXCEPT ![k] = heard]

\* What Lua writes on connection k; the bytes are lost once it is down.
SendToPy(k, lines) ==
  IF link[k] = "up" THEN [toPy EXCEPT ![k] = @ \o lines] ELSE toPy

\* The same for the daemon's StreamWriter.
SendToLua(k, commands) ==
  IF link[k] = "up" THEN [toLua EXCEPT ![k] = @ \o commands] ELSE toLua
=============================================================================
