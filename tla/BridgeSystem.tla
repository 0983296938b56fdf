----------------------------- MODULE BridgeSystem -----------------------------
(***************************************************************************)
(* The Lua bridge, the connections and the daemon together.                *)
(***************************************************************************)
EXTENDS MooseBridge, BridgeServer

vars == <<wireVars, luaVars, serverVars>>

TypeOK == WireTypeOK /\ LuaTypeOK /\ ServerTypeOK

Init == WireInit /\ LuaInit /\ ServerInit

Network == \E k \in Conns : Break(k)

Next ==
  \/ LuaNext /\ UNCHANGED serverVars
  \/ ServerNext /\ UNCHANGED luaVars
  \/ Network /\ UNCHANGED <<luaVars, serverVars>>

Spec == Init /\ [][Next]_vars

(***************************************************************************)
(* Fairness.  The DCS scheduler calls _Tick again and again, and a tick    *)
(* connects, reads, flushes and notices a dead socket; the event loop runs *)
(* every task that can run.  Nothing makes the network fail, the clock     *)
(* advance, a mission end, an event happen or a caller call or give up.    *)
(***************************************************************************)
ServerProgress(k) ==
  AcceptConnection(k) \/ ResendCommand(k) \/ CloseConnection(k) \/ HandleLine(k)

Fairness ==
  /\ WF_vars(Connect /\ UNCHANGED serverVars)
  /\ WF_vars(Disconnect /\ UNCHANGED serverVars)
  /\ WF_vars((ReplayResult \/ ExecuteCommand) /\ UNCHANGED serverVars)
  /\ WF_vars(FlushMessage /\ UNCHANGED serverVars)
  /\ \A k \in Conns : WF_vars(ServerProgress(k) /\ UNCHANGED luaVars)

FairSpec == Spec /\ Fairness

-----------------------------------------------------------------------------
(* Safety.                                                                  *)

\* A command that is replayed is answered from the result cache: within a
\* mission it is executed again only after its result was evicted, that is when
\* CommandResultCacheLimit other commands have been executed since.
\* (_HandleCommand, _RememberCommandResult)
ReexecutedOnlyAfterEviction ==
  \A i, j \in DOMAIN effects :
    i < j /\ effects[i] = effects[j] => j - i > CommandResultCacheLimit

\* The daemon hands an event of the journal to its mirror, listeners and waiters
\* again only after it forgot the id, that is when more than SeenLimit -
\* SeenEvicted events have been handed over since.  (_is_duplicate_event)
ReappliedOnlyAfterEviction ==
  \A i, j \in DOMAIN applied :
    i < j /\ applied[i] = applied[j] => j - i - 1 > SeenLimit - SeenEvicted

\* The daemon applies no event of a mission after one of a later mission.
MissionsInOrder ==
  \A i, j \in DOMAIN applied : i < j => applied[i].mission <= applied[j].mission

\* Across lost connections and journal replays the daemon applies a reliable event
\* of the mission once, after it was raised and after every reliable event that was
\* raised before it: what it applied is a prefix of what was raised.
ReliableInOrder ==
  \A j \in DOMAIN applied :
    applied[j].mission = mission /\ applied[j].event \in ReliableEvents =>
      /\ \A i \in 1..(j - 1) : applied[i] # applied[j]
      /\ \E b \in 1..Len(raised) :
           /\ raised[b] = applied[j].event
           /\ \A a \in 1..(b - 1) : raised[a] \in ReliableEvents =>
                \E i \in 1..(j - 1) :
                  applied[i] = [mission |-> mission, event |-> raised[a]]

\* Both, whatever was lost, replayed or superseded.  (_ReplayReliableEvents,
\* _RetainReliableOutput, _is_duplicate_event)
AppliedInOrder == ReliableInOrder /\ MissionsInOrder

\* The task of the newest connection owns the writer until its stream ends,
\* whenever the tasks it superseded end.  (_handle_dcs_client, finally)
NewestOwnsWriter ==
  \A k \in Conns :
    (handler[k] = "running" /\ \A j \in Conns : j > k => handler[j] = "none")
      => writer = k

\* The mirror reports a connection only while there is a writer to send
\* commands with, whichever task's heartbeat set the flag.
ConnectedHasWriter == connected => writer # NoConn

\* A call is waiting exactly while its command is registered for replay and for
\* its acknowledgement, once: no caller is forgotten by a resend, a boundary or
\* a timeout.  (_pending, _fail_pending)
WaitingIsPending ==
  /\ \A c \in Commands : call[c] = "waiting" <=> Waiting(c)
  /\ \A i, j \in DOMAIN pending : pending[i] = pending[j] => i = j

\* The acknowledgement a caller gets reports an execution of its own command,
\* never that of another call, whatever was cached, replayed, retained or late.
ReplyIsOwn ==
  \A c \in Commands :
    call[c] = "acked" => /\ reply[c] \in DOMAIN effects
                         /\ effects[reply[c]].command = c

\* A snapshot command's call returns with the mirror already refreshed, as the SDK's
\* refresh methods rely on, as long as the first connection has lasted and the queue
\* has not filled up, which in these runs it does not.  (A result that is replayed
\* comes without its snapshot.)  (_HandleCommand, SendSnapshot)
SnapshotBeforeReply ==
  (\A k \in Conns : k > 1 => link[k] = "unused")
    => \A c \in SnapshotCommands : call[c] = "acked" => reply[c] \in mirrored

-----------------------------------------------------------------------------
(* The promise to callers (README.md:199-201), while one mission runs.      *)

CallState ==
  [c \in Commands |->
    CASE call[c] = "idle"    -> "idle"
      [] call[c] = "waiting" -> "waiting"
      [] call[c] = "acked"   -> "returned"
      [] OTHER               -> "abandoned"]

Times == [c \in Commands |-> Cardinality({i \in DOMAIN effects : effects[i].command = c})]

Promise == INSTANCE CommandCalls WITH Calls <- Commands, state <- CallState, times <- Times

\* Replays, lost connections and late acknowledgements included, a call behaves
\* as CommandCalls says.
CallsKeepPromise == Promise!Spec

-----------------------------------------------------------------------------
(* Liveness.                                                                *)

\* The last of the connections the bound allows has failed.
NoConnectionLeft == MaxConns = 0 \/ link[MaxConns] = "down"

\* A call whose command or acknowledgement is lost with a connection is
\* answered over a later one, without the help of its timeout.
CallsReturn ==
  \A c \in Commands :
    call[c] = "waiting" ~> call[c] # "waiting" \/ NoConnectionLeft

\* A reliable event the mission raised, connected or not, reaches the mirror.
ReliableEventsArrive ==
  \A e \in ReliableEvents :
    (\E i \in DOMAIN raised : raised[i] = e)
      ~> (\E i \in DOMAIN applied : applied[i].event = e) \/ NoConnectionLeft

-----------------------------------------------------------------------------
(* What the documentation and the tests say and the code does not keep.     *)

\* A mission boundary stands for a mission that ended: the daemon counts no
\* more of them than there were.
EveryBoundaryIsReal == generation <= mission - 1

\* A message sent in several parts is completed: every line is a message.
NoGarbledLine == \A k \in Conns : \A i \in DOMAIN toPy[k] : toPy[k][i] # Garbled
=============================================================================
