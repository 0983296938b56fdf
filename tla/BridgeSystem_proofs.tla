-------------------------- MODULE BridgeSystem_proofs -------------------------
(***************************************************************************)
(* Theorems about BridgeSystem for every value of its constants.           *)
(***************************************************************************)
EXTENDS BridgeSystem, Queues_proofs

-----------------------------------------------------------------------------
(* What the operators return.                                               *)

LEMMA ArrivingTyped ==
  ASSUME NEW S, NEW s \in Seq(S), NEW t \in Arriving(s)
  PROVE  t \in Seq(S)
<1>1. PICK n \in 0..Len(s) : t = SubSeq(s, 1, n)
  BY DEF Arriving
<1>2. \A i \in 1..n : s[i] \in S
  BY <1>1
<1>3. n \in Nat /\ 1 \in Int
  BY <1>1
<1>. QED  BY <1>1, <1>2, <1>3, SubSeqProperties

LEMMA EmptyTyped == \A S : <<>> \in Seq(S) /\ Len(<<>>) = 0
  BY EmptySeq

LEMMA NetworkTyped ==
  ASSUME WireTypeOK, NEW k \in Conns
  PROVE  /\ \A lines \in Seq(Lines) : SendToPy(k, lines) \in [Conns -> Seq(Lines)]
         /\ \A cs \in Seq(Commands) : SendToLua(k, cs) \in [Conns -> Seq(Commands)]
  BY DEF WireTypeOK, SendToPy, SendToLua

LEMMA EnqueueTyped ==
  ASSUME NEW S, NEW q \in Seq(S), Len(q) <= MaxOutQueueMessages, NEW m \in S
  PROVE  /\ Enqueue(q, m) \in Seq(S)
         /\ Len(Enqueue(q, m)) <= MaxOutQueueMessages
<1>. MaxOutQueueMessages \in Nat /\ MaxOutQueueMessages >= 2
  BY MooseBridgeAssumption
<1>1. CASE Lossy(q) # {} /\ ~(Len(q) < MaxOutQueueMessages)
  <2>1. First(Lossy(q)) \in 1..Len(q)
    <3>1. Lossy(q) \in SUBSET Nat
      BY DEF Lossy
    <3>2. \E i \in Lossy(q) : \A j \in Lossy(q) : i <= j
      BY <1>1, <3>1, LeastNatural
    <3>3. First(Lossy(q)) \in Lossy(q)
      BY <3>2, Zenon DEF First
    <3>. QED  BY <3>3 DEF Lossy
  <2>. DEFINE w == Without(q, First(Lossy(q)))
  <2>2. w \in Seq(S) /\ Len(w) = Len(q) - 1
    BY <2>1, WithoutProperties
  <2>. HIDE DEF w
  <2>3. Append(w, m) \in Seq(S) /\ Len(Append(w, m)) = Len(q)
    BY <2>2
  <2>4. Enqueue(q, m) = q \/ Enqueue(q, m) = Append(w, m)
    BY <1>1 DEF Enqueue, w
  <2>. QED  BY <2>3, <2>4
<1>2. CASE Lossy(q) = {} \/ Len(q) < MaxOutQueueMessages
  <2>1. \/ Enqueue(q, m) = q
        \/ Len(q) < MaxOutQueueMessages /\ Enqueue(q, m) = Append(q, m)
        \/ Len(q) >= MaxOutQueueMessages /\ Enqueue(q, m) = Append(Tail(q), m)
    BY <1>2 DEF Enqueue
  <2>. QED  BY <2>1
<1>. QED  BY <1>1, <1>2

LEMMA SendTyped ==
  ASSUME NEW S, NEW q \in Seq(S), Len(q) <= MaxOutQueueMessages, NEW m \in S
  PROVE  /\ Send(q, m) \in Seq(S)
         /\ Len(Send(q, m)) <= MaxOutQueueMessages
  BY EnqueueTyped DEF Send

LEMMA ReplayedQueueTyped ==
  ASSUME NEW S, outQueue \in Seq(S), journal \in Seq(S)
  PROVE  /\ ReplayedQueue \in Seq(S)
         /\ Len(ReplayedQueue) <= MaxOutQueueMessages
<1>. DEFINE P == {i \in DOMAIN outQueue :
                    /\ IsReliable(outQueue[i])
                    /\ \A j \in DOMAIN journal : journal[j] # outQueue[i]}
            kept == Kept(outQueue, P)
<1>2. kept \in Seq(S)
  <2>1. P \in SUBSET (1..Len(outQueue))
    OBVIOUS
  <2>. HIDE DEF P
  <2>. QED  BY <2>1, KeptProperties
<1>3. ReplayedQueue = LastN(journal \o kept, MaxOutQueueMessages)
  BY DEF ReplayedQueue
<1>. HIDE DEF kept
<1>. DEFINE all == journal \o kept
            n == MaxOutQueueMessages
<1>4. all \in Seq(S) /\ n \in Nat
  BY <1>2, MooseBridgeAssumption
<1>5. ReplayedQueue = LastN(all, n)
  BY <1>3
<1>. HIDE DEF all
<1>6. LastN(all, n) \in Seq(S) /\ Len(LastN(all, n)) <= n
  <2>1. Len(LastN(all, n)) = IF Len(all) > n THEN n ELSE Len(all)
    BY <1>4, LastNProperties
  <2>2. LastN(all, n) \in Seq(S)
    BY <1>4, LastNProperties
  <2>. QED  BY <1>4, <2>1, <2>2
<1>. QED  BY <1>5, <1>6

LEMMA RetainedTyped ==
  ASSUME NEW S, outQueue \in Seq(S), Len(outQueue) <= MaxOutQueueMessages
  PROVE  LET q == Kept(outQueue, DOMAIN outQueue \ Lossy(outQueue))
         IN  q \in Seq(S) /\ Len(q) <= MaxOutQueueMessages
<1>. DEFINE P == DOMAIN outQueue \ Lossy(outQueue)
<1>1. /\ outQueue \in Seq(S) /\ Len(outQueue) <= MaxOutQueueMessages
      /\ MaxOutQueueMessages \in Nat
  BY MooseBridgeAssumption
<1>2. P \in SUBSET (1..Len(outQueue))
  BY <1>1
<1>. HIDE DEF P
<1>3. /\ Kept(outQueue, P) \in Seq(S)
      /\ Len(Kept(outQueue, P)) <= Len(outQueue)
  BY <1>1, <1>2, KeptProperties
<1>4. Len(Kept(outQueue, P)) <= MaxOutQueueMessages
  BY <1>1, <1>3
<1>. QED  BY <1>3, <1>4 DEF P

LEMMA PoppedTyped ==
  ASSUME NEW c, pending \in Seq(Commands)
  PROVE  Popped(c) \in Seq(Commands)
<1>1. CASE Waiting(c)
  <2>. DEFINE i == CHOOSE i \in DOMAIN pending : pending[i] = c
  <2>1. i \in DOMAIN pending
    BY <1>1, Zenon DEF Waiting
  <2>2. Popped(c) = Without(pending, i)
    BY <1>1 DEF Popped
  <2>. HIDE DEF i
  <2>3. i \in 1..Len(pending)
    BY <2>1
  <2>. QED  BY <2>2, <2>3, WithoutProperties
<1>2. CASE ~Waiting(c)
  BY <1>2 DEF Popped
<1>. QED  BY <1>1, <1>2

LEMMA NotedTyped ==
  ASSUME seen \in Seq(EventIds), Len(seen) <= SeenLimit, NEW m,
         EventId(m) \in EventIds
  PROVE  Noted(m) \in Seq(EventIds) /\ Len(Noted(m)) <= SeenLimit
<1>. DEFINE all == Append(seen, EventId(m))
<1>. /\ SeenLimit \in Nat /\ SeenEvicted \in Nat
     /\ 0 < SeenEvicted /\ SeenEvicted <= SeenLimit
  BY BridgeServerAssumption
<1>1. all \in Seq(EventIds) /\ Len(all) = Len(seen) + 1
  OBVIOUS
<1>. HIDE DEF all
<1>2. CASE Len(all) > SeenLimit
  <2>1. /\ SeenEvicted + 1 \in Int /\ Len(all) \in Int
        /\ \A i \in (SeenEvicted + 1)..Len(all) : all[i] \in EventIds
    BY <1>1
  <2>2. /\ SubSeq(all, SeenEvicted + 1, Len(all)) \in Seq(EventIds)
        /\ Len(SubSeq(all, SeenEvicted + 1, Len(all)))
             = IF SeenEvicted + 1 <= Len(all) THEN Len(all) - (SeenEvicted + 1) + 1 ELSE 0
    BY <2>1, SubSeqProperties
  <2>. QED  BY <1>1, <1>2, <2>2 DEF Noted, all
<1>3. CASE ~(Len(all) > SeenLimit)
  BY <1>1, <1>3 DEF Noted, all
<1>. QED  BY <1>2, <1>3

-----------------------------------------------------------------------------
(* Type correctness.                                                        *)

LEMMA MessagesTyped ==
  /\ \A c \in Commands, m \in Nat, r \in Nat, t \in Nat :
       /\ Reply("ack", c, m, r, t) \in Acks
       /\ Reply("snapshot", c, m, r, t) \in Snapshots
  /\ \A e \in EventNames, m \in Nat, t \in Nat :
       EventMessage(e, m, t) \in EventMessages
  /\ \A m \in Nat, t \in Nat : Heartbeat(m, t) \in Heartbeats
  /\ Messages \subseteq Lines
  /\ Acks \subseteq Messages /\ Snapshots \subseteq Messages
  /\ EventMessages \subseteq Messages /\ Heartbeats \subseteq Messages
  BY DEF Reply, EventMessage, Heartbeat, Acks, Snapshots, EventMessages,
         Heartbeats, Messages, Lines

LEMMA LuaTypeStep ==
  ASSUME TypeOK, LuaNext, UNCHANGED serverVars
  PROVE  TypeOK'
<1>. USE DEF TypeOK
<1>1. ServerTypeOK'
  BY DEF serverVars, ServerTypeOK
<1>2. CASE Connect
  <2>1. WireTypeOK'
    BY <1>2 DEF Connect, WireTypeOK
  <2>2. LuaTypeOK'
    <3>1. outQueue \in Seq(Messages) /\ journal \in Seq(Messages)
      BY MessagesTyped DEF LuaTypeOK
    <3>2. ReplayedQueue \in Seq(Messages) /\ Len(ReplayedQueue) <= MaxOutQueueMessages
      BY <3>1, ReplayedQueueTyped
    <3>. QED  BY <1>2, <3>2 DEF Connect, LuaTypeOK
  <2>. QED  BY <1>1, <2>1, <2>2
<1>3. CASE Disconnect
  <2>1. WireTypeOK'
    BY <1>3 DEF Disconnect, WireTypeOK, LuaTypeOK
  <2>2. LuaTypeOK'
    BY <1>3, RetainedTyped DEF Disconnect, LuaTypeOK
  <2>. QED  BY <1>1, <2>1, <2>2
<1>4. CASE ReplayResult
  <2>1. WireTypeOK'
    BY <1>4 DEF ReplayResult, WireTypeOK, LuaTypeOK
  <2>2. PICK i \in DOMAIN results : outQueue' = Send(outQueue, results[i])
    BY <1>4 DEF ReplayResult
  <2>3. results[i] \in Messages
    BY <2>2, MessagesTyped DEF LuaTypeOK
  <2>4. outQueue' \in Seq(Messages) /\ Len(outQueue') <= MaxOutQueueMessages
    BY <2>2, <2>3, SendTyped DEF LuaTypeOK
  <2>5. LuaTypeOK'
    BY <1>4, <2>4 DEF ReplayResult, LuaTypeOK
  <2>. QED  BY <1>1, <2>1, <2>5
<1>5. CASE ExecuteCommand
  <2>. DEFINE c == Head(toLua[socket])
              r == Len(effects) + 1
              ack == Reply("ack", c, mission, r, now)
              snapshot == Reply("snapshot", c, mission, r, now)
  <2>1. socket \in Conns /\ toLua[socket] \in Seq(Commands) /\ c \in Commands
    BY <1>5 DEF ExecuteCommand, WireTypeOK, LuaTypeOK
  <2>2. r \in Nat /\ mission \in Nat /\ now \in Nat
    BY DEF LuaTypeOK
  <2>3. ack \in Acks /\ ack \in Messages /\ snapshot \in Messages
    <3>. HIDE DEF c, r
    <3>. QED  BY <2>1, <2>2, MessagesTyped
  <2>4. WireTypeOK'
    BY <1>5, <2>1 DEF ExecuteCommand, WireTypeOK
  <2>5. effects' \in Seq([mission : Nat, command : Commands])
    <3>1. effects' = Append(effects, [mission |-> mission, command |-> c])
      BY <1>5 DEF ExecuteCommand
    <3>. QED  BY <3>1, <2>1, <2>2 DEF LuaTypeOK
  <2>6. results' \in Seq(Acks)
    <3>1. results' = LastN(Append(results, ack), CommandResultCacheLimit)
      BY <1>5 DEF ExecuteCommand
    <3>. HIDE DEF ack
    <3>2. Append(results, ack) \in Seq(Acks) /\ CommandResultCacheLimit \in Nat
      BY <2>3, MooseBridgeAssumption DEF LuaTypeOK
    <3>. QED  BY <3>1, <3>2, LastNProperties
  <2>7. outQueue' \in Seq(Messages) /\ Len(outQueue') <= MaxOutQueueMessages
    <3>1. \/ outQueue' = Send(Send(outQueue, snapshot), ack)
          \/ outQueue' = Send(outQueue, ack)
      BY <1>5 DEF ExecuteCommand
    <3>. HIDE DEF ack, snapshot
    <3>2. outQueue \in Seq(Messages) /\ Len(outQueue) <= MaxOutQueueMessages
      BY DEF LuaTypeOK
    <3>. QED  BY <2>3, <3>1, <3>2, SendTyped
  <2>. HIDE DEF c, r, ack, snapshot
  <2>8. LuaTypeOK'
    BY <1>5, <2>5, <2>6, <2>7 DEF ExecuteCommand, LuaTypeOK
  <2>. QED  BY <1>1, <2>4, <2>8
<1>6. CASE FlushMessage
  <2>1. /\ socket \in Conns /\ Head(outQueue) \in Messages
        /\ Tail(outQueue) \in Seq(Messages)
        /\ Len(Tail(outQueue)) <= MaxOutQueueMessages
    BY <1>6, MooseBridgeAssumption DEF FlushMessage, LuaTypeOK
  <2>2. LineOf(Head(outQueue)) \in Lines
    BY <2>1 DEF LineOf, Lines
  <2>3. WireTypeOK'
    <3>. DEFINE line == LineOf(Head(outQueue))
    <3>1. <<line>> \in Seq(Lines)
      BY <2>2
    <3>2. SendToPy(socket, <<line>>) \in [Conns -> Seq(Lines)]
      BY <2>1, <3>1, NetworkTyped
    <3>. QED  BY <1>6, <3>2 DEF FlushMessage, WireTypeOK
  <2>4. LuaTypeOK'
    BY <1>6, <2>1 DEF FlushMessage, LuaTypeOK
  <2>. QED  BY <1>1, <2>3, <2>4
<1>7. CASE FlushPart
  <2>1. WireTypeOK'
    BY <1>7 DEF FlushPart, WireTypeOK, wireVars
  <2>2. fragment' \subseteq Messages
    BY <1>7 DEF FlushPart, LuaTypeOK
  <2>3. LuaTypeOK'
    BY <1>7, <2>2 DEF FlushPart, LuaTypeOK, wireVars
  <2>. QED  BY <1>1, <2>1, <2>3
<1>8. CASE SendHeartbeat
  <2>1. WireTypeOK'
    BY <1>8 DEF SendHeartbeat, WireTypeOK, wireVars
  <2>2. Heartbeat(mission, now) \in Messages
    BY MessagesTyped DEF LuaTypeOK
  <2>3. outQueue' \in Seq(Messages) /\ Len(outQueue') <= MaxOutQueueMessages
    BY <1>8, <2>2, SendTyped DEF SendHeartbeat, LuaTypeOK
  <2>4. LuaTypeOK'
    BY <1>8, <2>3 DEF SendHeartbeat, LuaTypeOK, wireVars
  <2>. QED  BY <1>1, <2>1, <2>4
<1>9. ASSUME NEW e \in Events, SendEvent(e)
      PROVE  TypeOK'
  <2>. DEFINE m == EventMessage(e, mission, now)
  <2>1. WireTypeOK'
    BY <1>9 DEF SendEvent, WireTypeOK, wireVars
  <2>2. e \in EventNames /\ m \in EventMessages /\ m \in Messages
    BY MessagesTyped DEF LuaTypeOK, EventNames
  <2>3. /\ journal' = journal \/ journal' = Remember(m)
        /\ outQueue' = Send(outQueue, m)
        /\ raised' = Append(raised, e)
    BY <1>9 DEF SendEvent
  <2>. HIDE DEF m
  <2>4. outQueue' \in Seq(Messages) /\ Len(outQueue') <= MaxOutQueueMessages
    BY <2>2, <2>3, SendTyped DEF LuaTypeOK
  <2>5. journal' \in Seq(EventMessages) /\ Len(journal') <= ReliableEventJournalLimit
    <3>. DEFINE all == Append(journal, m)
                n == ReliableEventJournalLimit
    <3>1. all \in Seq(EventMessages) /\ n \in Nat
      BY <2>2, MooseBridgeAssumption DEF LuaTypeOK
    <3>2. Remember(m) = LastN(all, n)
      BY DEF Remember
    <3>. HIDE DEF all
    <3>3. /\ LastN(all, n) \in Seq(EventMessages)
          /\ Len(LastN(all, n)) = IF Len(all) > n THEN n ELSE Len(all)
      BY <3>1, LastNProperties
    <3>. QED  BY <2>3, <3>1, <3>2, <3>3 DEF LuaTypeOK
  <2>6. LuaTypeOK'
    BY <1>9, <2>2, <2>3, <2>4, <2>5 DEF SendEvent, LuaTypeOK, wireVars
  <2>. QED  BY <1>1, <2>1, <2>6
<1>10. CASE AdvanceClock
  BY <1>1, <1>10 DEF AdvanceClock, WireTypeOK, LuaTypeOK, wireVars
<1>11. CASE RestartMission
  <2>. DEFINE ended == EventMessage(MissionEnded, mission, now)
              last == Enqueue(outQueue, ended)
              lines == [i \in DOMAIN last |-> IF i = 1 THEN LineOf(last[1]) ELSE last[i]]
  <2>1. last \in Seq(Messages)
    <3>1. ended \in Messages
      BY MessagesTyped DEF LuaTypeOK, EventNames
    <3>. HIDE DEF ended
    <3>. QED  BY <3>1, EnqueueTyped DEF LuaTypeOK
  <2>2. lines \in Seq(Lines)
    <3>. HIDE DEF last
    <3>1. \A i \in 1..Len(last) : last[i] \in Lines /\ LineOf(last[i]) \in Lines
      BY <2>1 DEF LineOf, Lines
    <3>2. lines \in [1..Len(last) -> Lines] /\ Len(last) \in Nat
      BY <2>1, <3>1
    <3>. QED  BY <3>2
  <2>3. WireTypeOK'
    <3>1. CASE socket = NoConn
      BY <1>11, <3>1 DEF RestartMission, WireTypeOK, wireVars
    <3>2. CASE socket # NoConn
      <4>1. /\ link' = [link EXCEPT ![socket] = "down"]
            /\ toLua' = [toLua EXCEPT ![socket] = <<>>]
        BY <1>11, <3>2 DEF RestartMission
      <4>2. PICK s \in IF link[socket] = "up"
                       THEN Arriving(toPy[socket] \o lines) ELSE {toPy[socket]} :
              toPy' = [toPy EXCEPT ![socket] = s]
        <5>. HIDE DEF lines
        <5>. QED  BY <1>11, <3>2 DEF RestartMission, lines, last, ended
      <4>. HIDE DEF lines
      <4>3. socket \in Conns /\ toPy[socket] \in Seq(Lines)
        BY <3>2 DEF WireTypeOK, LuaTypeOK
      <4>4. toPy[socket] \o lines \in Seq(Lines)
        BY <2>2, <4>3
      <4>5. s \in Seq(Lines)
        BY <4>2, <4>3, <4>4, ArrivingTyped
      <4>6. toPy' \in [Conns -> Seq(Lines)]
        BY <4>2, <4>5 DEF WireTypeOK
      <4>7. toLua' \in [Conns -> Seq(Commands)]
        BY <4>1, EmptyTyped DEF WireTypeOK
      <4>8. link' \in [Conns -> {"unused", "up", "down"}]
        BY <4>1 DEF WireTypeOK
      <4>. QED  BY <4>6, <4>7, <4>8 DEF WireTypeOK
    <3>. QED  BY <3>1, <3>2
  <2>4. /\ mission' = mission + 1
        /\ now' = 0 /\ lastHeartbeat' = 0 /\ socket' = NoConn
        /\ outQueue' = <<>> /\ offset' = FALSE /\ fragment' = {}
        /\ journal' = <<>> /\ results' = <<>> /\ raised' = <<>>
        /\ effects' = effects
    BY <1>11, Zenon DEF RestartMission
  <2>5. LuaTypeOK'
    <3>1. /\ outQueue' \in Seq(Messages) /\ Len(outQueue') <= MaxOutQueueMessages
          /\ journal' \in Seq(EventMessages) /\ Len(journal') <= ReliableEventJournalLimit
          /\ results' \in Seq(Acks) /\ raised' \in Seq(EventNames)
      BY <2>4, EmptyTyped, MooseBridgeAssumption
    <3>2. mission' \in Nat \ {0}
      BY <2>4 DEF LuaTypeOK
    <3>. QED  BY <2>4, <3>1, <3>2 DEF LuaTypeOK
  <2>. QED  BY <1>1, <2>3, <2>5
<1>. QED
  BY <1>2, <1>3, <1>4, <1>5, <1>6, <1>7, <1>8, <1>9, <1>10, <1>11 DEF LuaNext

LEMMA BreakTyped ==
  ASSUME TypeOK, NEW k \in Conns, Break(k), UNCHANGED <<luaVars, serverVars>>
  PROVE  TypeOK'
<1>1. LuaTypeOK' /\ ServerTypeOK'
  BY DEF TypeOK, LuaTypeOK, ServerTypeOK, luaVars, serverVars
<1>2. PICK read \in Arriving(toLua[k]), heard \in Arriving(toPy[k]) :
        /\ toLua' = [toLua EXCEPT ![k] = read]
        /\ toPy' = [toPy EXCEPT ![k] = heard]
  BY DEF Break
<1>3. toLua[k] \in Seq(Commands) /\ toPy[k] \in Seq(Lines)
  BY DEF TypeOK, WireTypeOK
<1>4. read \in Seq(Commands) /\ heard \in Seq(Lines)
  BY <1>2, <1>3, ArrivingTyped
<1>5. WireTypeOK'
  BY <1>2, <1>4 DEF TypeOK, WireTypeOK, Break
<1>. QED  BY <1>1, <1>5 DEF TypeOK

LEMMA ServerTypeStep ==
  ASSUME TypeOK, ServerNext, UNCHANGED luaVars
  PROVE  TypeOK'
<1>. USE DEF TypeOK
<1>1. LuaTypeOK'
  BY DEF luaVars, LuaTypeOK
<1>2. ASSUME NEW k \in Conns, AcceptConnection(k)
      PROVE  TypeOK'
  <2>1. ServerTypeOK'
    BY <1>2 DEF AcceptConnection, ServerTypeOK, callVars, historyVars
  <2>2. CASE writer = NoConn
    BY <1>1, <1>2, <2>1, <2>2 DEF AcceptConnection, WireTypeOK, wireVars
  <2>3. CASE writer # NoConn
    <3>1. /\ writer \in Conns
          /\ toLua[writer] \in Seq(Commands) /\ toPy[writer] \in Seq(Lines)
      BY <2>3 DEF WireTypeOK, ServerTypeOK
    <3>2. link' = [link EXCEPT ![writer] = "down"]
      BY <1>2, <2>3 DEF AcceptConnection
    <3>3. PICK cs \in IF link[writer] = "up"
                      THEN Arriving(toLua[writer]) ELSE {toLua[writer]} :
            toLua' = [toLua EXCEPT ![writer] = cs]
      BY <1>2, <2>3 DEF AcceptConnection
    <3>4. PICK ls \in Arriving(toPy[writer]) : toPy' = [toPy EXCEPT ![writer] = ls]
      BY <1>2, <2>3 DEF AcceptConnection
    <3>5. cs \in Seq(Commands) /\ ls \in Seq(Lines)
      BY <3>1, <3>3, <3>4, ArrivingTyped
    <3>6. WireTypeOK'
      BY <3>2, <3>3, <3>4, <3>5 DEF WireTypeOK
    <3>. QED  BY <1>1, <2>1, <3>6
  <2>. QED  BY <2>2, <2>3
<1>3. ASSUME NEW k \in Conns, ResendCommand(k)
      PROVE  TypeOK'
  <2>1. resend[k] \in Seq(Commands) /\ resend[k] # <<>>
    BY <1>3 DEF ResendCommand, ServerTypeOK
  <2>2. Tail(resend[k]) \in Seq(Commands) /\ <<Head(resend[k])>> \in Seq(Commands)
    BY <2>1
  <2>3. SendToLua(k, <<Head(resend[k])>>) \in [Conns -> Seq(Commands)]
    BY <2>2, NetworkTyped
  <2>4. WireTypeOK'
    BY <1>3, <2>3 DEF ResendCommand, WireTypeOK
  <2>5. ServerTypeOK'
    BY <1>3, <2>2 DEF ResendCommand, ServerTypeOK, callVars, historyVars
  <2>. QED  BY <1>1, <2>4, <2>5
<1>4. ASSUME NEW k \in Conns, CloseConnection(k)
      PROVE  TypeOK'
  BY <1>1, <1>4
     DEF CloseConnection, WireTypeOK, ServerTypeOK, wireVars, callVars, historyVars
<1>5. ASSUME NEW k \in Conns, HandleLine(k)
      PROVE  TypeOK'
  <2>. DEFINE m == Head(toPy[k])
  <2>1. toPy[k] \in Seq(Lines) /\ toPy[k] # <<>>
    BY <1>5 DEF HandleLine, WireTypeOK
  <2>2. m \in Lines /\ Tail(toPy[k]) \in Seq(Lines)
    BY <2>1
  <2>3. WireTypeOK'
    BY <1>5, <2>2 DEF HandleLine, WireTypeOK
  <2>4. UNCHANGED connVars
    BY <1>5 DEF HandleLine
  <2>5. CASE m = Garbled \/ Duplicate(m)
    <3>1. UNCHANGED <<connected, missionEnded, clock, generation, callVars, historyVars>>
      BY <1>5, <2>5 DEF HandleLine
    <3>2. ServerTypeOK'
      BY <2>4, <3>1 DEF ServerTypeOK, connVars, callVars, historyVars
    <3>. QED  BY <1>1, <2>3, <3>2
  <2>6. CASE ~(m = Garbled \/ Duplicate(m))
    <3>1. /\ IF m.type = "event"
             THEN seen' = Noted(m) /\ applied' = Append(applied, EventId(m))
             ELSE UNCHANGED <<seen, applied>>
          /\ mirrored' = IF m.type = "snapshot" THEN mirrored \cup {m.run} ELSE mirrored
          /\ MissionBoundary({}) \/ MissionBoundary({m}) \/ WithinMission(m)
      BY <1>5, <2>6 DEF HandleLine
    <3>. HIDE DEF m
    <3>2. m \in Messages
      BY <2>2, <2>6 DEF Lines
    <3>3. /\ m.time \in Nat
          /\ m.type = "event" => EventId(m) \in EventIds
          /\ m.type = "snapshot" => m.run \in Nat
          /\ m.type = "ack" => m.run \in Nat /\ m.command \in Commands
      BY <3>2 DEF Messages, Acks, Snapshots, EventMessages, Heartbeats, EventId, EventIds
    <3>4. /\ seen' \in Seq(EventIds) /\ Len(seen') <= SeenLimit
          /\ applied' \in Seq(EventIds)
      <4>1. CASE m.type = "event"
        <5>1. EventId(m) \in EventIds /\ seen' = Noted(m) /\ applied' = Append(applied, EventId(m))
          BY <3>1, <3>3, <4>1
        <5>2. Noted(m) \in Seq(EventIds) /\ Len(Noted(m)) <= SeenLimit
          BY <5>1, NotedTyped DEF ServerTypeOK
        <5>. QED  BY <5>1, <5>2 DEF ServerTypeOK
      <4>2. CASE m.type # "event"
        BY <3>1, <4>2 DEF ServerTypeOK
      <4>. QED  BY <4>1, <4>2
    <3>5. mirrored' \subseteq Nat
      BY <3>1, <3>3 DEF ServerTypeOK
    <3>6. ASSUME NEW next \in {{}, {m}}, MissionBoundary(next)
          PROVE  ServerTypeOK'
      <4>1. CallsFailed \in [Commands -> CallStates]
        BY DEF CallsFailed, CallStates, ServerTypeOK
      <4>2. next # {} => (CHOOSE x \in next : TRUE).time \in Nat
        BY <3>3
      <4>3. clock' \in Nat \cup {NoTime} /\ connected' \in BOOLEAN /\ missionEnded' \in BOOLEAN
        BY <3>6, <4>2 DEF MissionBoundary
      <4>. QED
        BY <2>4, <3>4, <3>5, <3>6, <4>1, <4>3
           DEF MissionBoundary, ServerTypeOK, connVars
    <3>7. ASSUME WithinMission(m)
          PROVE  ServerTypeOK'
      <4>1. /\ call' \in [Commands -> CallStates]
            /\ pending' \in Seq(Commands)
            /\ reply' \in [Commands -> Nat]
        <5>1. CASE m.type = "ack" /\ Waiting(m.command)
          <6>1. Popped(m.command) \in Seq(Commands)
            BY PoppedTyped DEF ServerTypeOK
          <6>2. /\ pending' = Popped(m.command)
                /\ call' = [call EXCEPT ![m.command] = "acked"]
                /\ reply' = [reply EXCEPT ![m.command] = m.run]
            BY <3>7, <5>1 DEF WithinMission
          <6>3. call' \in [Commands -> CallStates]
            BY <6>2 DEF ServerTypeOK, CallStates
          <6>4. reply' \in [Commands -> Nat]
            BY <3>3, <5>1, <6>2 DEF ServerTypeOK
          <6>. QED  BY <6>1, <6>2, <6>3, <6>4
        <5>2. CASE ~(m.type = "ack" /\ Waiting(m.command))
          BY <3>7, <5>2 DEF WithinMission, ServerTypeOK, callVars
        <5>. QED  BY <5>1, <5>2
      <4>. QED
        BY <2>4, <3>3, <3>4, <3>5, <3>7, <4>1 DEF WithinMission, ServerTypeOK, connVars
    <3>. QED  BY <1>1, <2>3, <3>1, <3>6, <3>7
  <2>. QED  BY <2>5, <2>6
<1>6. ASSUME NEW c \in Commands, SendCommand(c)
      PROVE  TypeOK'
  <2>1. writer \in Conns /\ <<c>> \in Seq(Commands)
    BY <1>6 DEF SendCommand, ServerTypeOK
  <2>2. SendToLua(writer, <<c>>) \in [Conns -> Seq(Commands)]
    BY <2>1, NetworkTyped
  <2>3. WireTypeOK'
    BY <1>6, <2>2 DEF SendCommand, WireTypeOK
  <2>4. ServerTypeOK'
    BY <1>6 DEF SendCommand, ServerTypeOK, CallStates, connVars, historyVars
  <2>. QED  BY <1>1, <2>3, <2>4
<1>7. ASSUME NEW c \in Commands, TimeOut(c)
      PROVE  TypeOK'
  <2>1. Popped(c) \in Seq(Commands)
    BY PoppedTyped DEF ServerTypeOK
  <2>2. ServerTypeOK'
    BY <1>7, <2>1 DEF TimeOut, ServerTypeOK, CallStates, connVars, historyVars
  <2>3. WireTypeOK'
    BY <1>7 DEF TimeOut, WireTypeOK, wireVars
  <2>. QED  BY <1>1, <2>2, <2>3
<1>. QED  BY <1>2, <1>3, <1>4, <1>5, <1>6, <1>7 DEF ServerNext

LEMMA TypeInit == Init => TypeOK
<1>1. WireInit => WireTypeOK
  BY DEF WireInit, WireTypeOK
<1>2. LuaInit => LuaTypeOK
  <2>1. LuaInit =>
          /\ outQueue \in Seq(Messages) /\ Len(outQueue) <= MaxOutQueueMessages
          /\ journal \in Seq(EventMessages) /\ Len(journal) <= ReliableEventJournalLimit
          /\ results \in Seq(Acks) /\ raised \in Seq(EventNames)
          /\ effects \in Seq([mission : Nat, command : Commands])
    BY EmptyTyped, MooseBridgeAssumption DEF LuaInit
  <2>2. LuaInit =>
          /\ mission \in Nat \ {0} /\ now \in Nat /\ lastHeartbeat \in Nat
          /\ socket \in Conns \cup {NoConn}
          /\ fragment \subseteq Messages
    BY DEF LuaInit
  <2>3. LuaInit => offset \in BOOLEAN
    BY Zenon DEF LuaInit
  <2>. QED  BY <2>1, <2>2, <2>3, Zenon DEF LuaTypeOK
<1>3. ServerInit => ServerTypeOK
  <2>1. ServerInit =>
          /\ resend \in [Conns -> Seq(Commands)] /\ pending \in Seq(Commands)
          /\ seen \in Seq(EventIds) /\ Len(seen) <= SeenLimit
          /\ applied \in Seq(EventIds)
    BY EmptyTyped, BridgeServerAssumption DEF ServerInit
  <2>2. ServerInit =>
          /\ handler \in [Conns -> {"none", "running", "finished"}]
          /\ writer \in Conns \cup {NoConn}
          /\ clock \in Nat \cup {NoTime} /\ generation \in Nat
          /\ call \in [Commands -> CallStates]
          /\ reply \in [Commands -> Nat] /\ mirrored \subseteq Nat
    BY DEF ServerInit, CallStates
  <2>3. ServerInit => connected \in BOOLEAN /\ missionEnded \in BOOLEAN
    BY Zenon DEF ServerInit
  <2>. QED  BY <2>1, <2>2, <2>3, Zenon DEF ServerTypeOK
<1>. QED  BY <1>1, <1>2, <1>3 DEF Init, TypeOK

LEMMA TypeStep == TypeOK /\ [Next]_vars => TypeOK'
<1>1. ASSUME TypeOK, UNCHANGED vars
      PROVE  TypeOK'
  BY <1>1 DEF vars, wireVars, luaVars, serverVars, TypeOK, WireTypeOK,
              LuaTypeOK, ServerTypeOK
<1>. QED  BY <1>1, LuaTypeStep, ServerTypeStep, BreakTyped DEF Next, Network

\* Every variable keeps its type, and no queue, journal or window exceeds its
\* limit, whatever the limits are.
THEOREM TypeCorrect == Spec => []TypeOK
  BY TypeInit, TypeStep, PTL DEF Spec

-----------------------------------------------------------------------------
(* The result cache.                                                        *)

\* The cached results are those of the most recent executions, in order; while
\* the cache is not full, they are all the executions of this mission.
RecentResultsCached ==
  /\ Len(results) <= CommandResultCacheLimit
  /\ Len(results) <= Len(effects)
  /\ \A p \in 1..Len(results) :
       LET run == effects[Len(effects) - Len(results) + p]
       IN  run.mission = mission /\ run.command = results[p].command
  /\ \/ Len(results) = CommandResultCacheLimit
     \/ \A i \in 1..(Len(effects) - Len(results)) : effects[i].mission # mission
  /\ \A i \in 1..Len(effects) : effects[i].mission <= mission

CacheInv == TypeOK /\ RecentResultsCached /\ ReexecutedOnlyAfterEviction

LEMMA CacheExecute ==
  ASSUME CacheInv, ExecuteCommand
  PROVE  RecentResultsCached' /\ ReexecutedOnlyAfterEviction'
<1>. DEFINE c == Head(toLua[socket])
            ack == Reply("ack", c, mission, Len(effects) + 1, now)
            limit == CommandResultCacheLimit
            all == Append(results, ack)
            new == [mission |-> mission, command |-> c]
<1>1. /\ results \in Seq(Acks) /\ effects \in Seq([mission : Nat, command : Commands])
      /\ Len(results) \in Nat /\ Len(effects) \in Nat
      /\ mission \in Nat /\ limit \in Nat /\ limit > 0
  BY MooseBridgeAssumption DEF CacheInv, TypeOK, LuaTypeOK
<1>2. c \in Commands /\ ack.command = c /\ ack \in Acks
  BY <1>1 DEF CacheInv, TypeOK, LuaTypeOK, WireTypeOK, ExecuteCommand, Reply, Acks
<1>3. /\ effects' = Append(effects, new)
      /\ results' = LastN(all, limit)
      /\ mission' = mission
  BY DEF ExecuteCommand
<1>4. \A p \in 1..Len(results) : results[p].command # c
  BY <1>1 DEF ExecuteCommand, Cached
<1>. HIDE DEF c, ack
<1>5. /\ all \in Seq(Acks) /\ Len(all) = Len(results) + 1
      /\ \A p \in 1..Len(results) : all[p] = results[p]
      /\ all[Len(results) + 1] = ack
  BY <1>1, <1>2
<1>. HIDE DEF all, limit, new
<1>6. /\ results' \in Seq(Acks)
      /\ Len(results') = IF Len(results) + 1 > limit THEN limit ELSE Len(results) + 1
      /\ \A p \in 1..Len(results') :
           results'[p] = all[Len(all) - Len(results') + p]
  <2>1. /\ LastN(all, limit) \in Seq(Acks)
        /\ Len(LastN(all, limit)) = IF Len(all) > limit THEN limit ELSE Len(all)
        /\ \A i \in 1..Len(LastN(all, limit)) :
             LastN(all, limit)[i] = all[Len(all) - Len(LastN(all, limit)) + i]
    BY <1>1, <1>5, LastNProperties
  <2>2. results' = LastN(all, limit)
    BY <1>3
  <2>3. results' \in Seq(Acks)
    BY <2>1, <2>2
  <2>4. Len(results') = IF Len(results) + 1 > limit THEN limit ELSE Len(results) + 1
    BY <1>5, <2>1, <2>2
  <2>5. \A p \in 1..Len(results') :
          results'[p] = all[Len(all) - Len(results') + p]
    BY <2>1, <2>2, Zenon
  <2>. QED  BY <2>3, <2>4, <2>5
<1>7. /\ Len(effects') = Len(effects) + 1
      /\ \A i \in 1..Len(effects) : effects'[i] = effects[i]
      /\ effects'[Len(effects) + 1] = new
      /\ DOMAIN effects' = 1..(Len(effects) + 1)
  <2>. new \in [mission : Nat, command : Commands]
    BY <1>1, <1>2 DEF new
  <2>. QED  BY <1>1, <1>3
<1>8. /\ Len(results) <= limit /\ Len(results) <= Len(effects)
      /\ \A p \in 1..Len(results) :
           /\ effects[Len(effects) - Len(results) + p].mission = mission
           /\ effects[Len(effects) - Len(results) + p].command = results[p].command
      /\ \/ Len(results) = limit
         \/ \A i \in 1..(Len(effects) - Len(results)) : effects[i].mission # mission
      /\ \A i \in 1..Len(effects) : effects[i].mission <= mission
  BY DEF CacheInv, RecentResultsCached, limit
<1>9. Len(results') \in Nat /\ Len(results') <= limit /\ Len(results') <= Len(effects')
  BY <1>1, <1>6, <1>7, <1>8
<1>10. ASSUME NEW p \in 1..Len(results')
       PROVE  /\ effects'[Len(effects') - Len(results') + p].mission = mission'
              /\ effects'[Len(effects') - Len(results') + p].command
                   = results'[p].command
  <2>. DEFINE q == Len(all) - Len(results') + p
  <2>1. /\ q \in 1..(Len(results) + 1) /\ results'[p] = all[q]
        /\ Len(effects') - Len(results') + p = Len(effects) - Len(results) + q
    <3>1. results'[p] = all[q]
      BY <1>6
    <3>2. Len(results') <= Len(results) + 1
      BY <1>1, <1>6, <1>9
    <3>3. q \in 1..(Len(results) + 1)
      BY <1>1, <1>5, <1>9, <3>2
    <3>4. Len(effects') - Len(results') + p = Len(effects) - Len(results) + q
      BY <1>1, <1>5, <1>7, <1>9
    <3>. QED  BY <3>1, <3>3, <3>4
  <2>. HIDE DEF q
  <2>2. CASE q \in 1..Len(results)
    <3>1. Len(effects) - Len(results) + q \in 1..Len(effects)
      BY <1>1, <1>8, <2>2
    <3>2. results'[p] = results[q]
      BY <1>5, <2>1, <2>2
    <3>3. effects'[Len(effects) - Len(results) + q]
            = effects[Len(effects) - Len(results) + q]
      BY <1>7, <3>1
    <3>4. effects'[Len(effects') - Len(results') + p]
            = effects[Len(effects) - Len(results) + q]
      BY <2>1, <3>3, Zenon
    <3>. QED  BY <1>3, <1>8, <2>2, <3>2, <3>4
  <2>3. CASE q = Len(results) + 1
    <3>1. Len(effects) - Len(results) + q = Len(effects) + 1
      BY <1>1, <2>3
    <3>2. results'[p].command = c
      BY <1>2, <1>5, <2>1, <2>3
    <3>3. effects'[Len(effects') - Len(results') + p] = new
      BY <1>7, <2>1, <3>1, Zenon
    <3>4. new.mission = mission /\ new.command = c
      BY DEF new
    <3>. QED  BY <1>3, <3>2, <3>3, <3>4
  <2>. QED  BY <1>1, <2>1, <2>2, <2>3
<1>11. \/ Len(results') = limit
       \/ \A i \in 1..(Len(effects') - Len(results')) : effects'[i].mission # mission'
  <2>1. CASE Len(results) + 1 >= limit
    BY <1>1, <1>6, <1>8, <2>1
  <2>2. CASE ~(Len(results) + 1 >= limit)
    <3>1. Len(effects') - Len(results') = Len(effects) - Len(results)
      BY <1>1, <1>6, <1>7, <2>2
    <3>2. \A i \in 1..(Len(effects) - Len(results)) :
            i \in 1..Len(effects) /\ effects[i].mission # mission
      BY <1>1, <1>8, <2>2
    <3>. QED  BY <1>3, <1>7, <3>1, <3>2
  <2>. QED  BY <2>1, <2>2
<1>12. \A i \in 1..Len(effects') : effects'[i].mission <= mission'
  BY <1>1, <1>3, <1>7, <1>8 DEF new
<1>13. ASSUME NEW i \in DOMAIN effects', NEW j \in DOMAIN effects',
              i < j, effects'[i] = effects'[j]
       PROVE  j - i > limit
  <2>1. i \in 1..Len(effects) /\ effects'[i] = effects[i]
    BY <1>1, <1>7, <1>13
  <2>2. CASE j \in 1..Len(effects)
    <3>1. i \in DOMAIN effects /\ j \in DOMAIN effects
      BY <1>1, <2>1, <2>2
    <3>2. effects[i] = effects[j]
      BY <1>7, <1>13, <2>1, <2>2
    <3>. QED  BY <1>13, <3>1, <3>2 DEF CacheInv, ReexecutedOnlyAfterEviction, limit
  <2>3. CASE j = Len(effects) + 1
    <3>1. effects[i].mission = mission /\ effects[i].command = c
      <4>1. effects[i] = new
        BY <1>7, <1>13, <2>1, <2>3
      <4>. QED  BY <4>1 DEF new
    <3>2. i \in 1..(Len(effects) - Len(results))
      <4>1. SUFFICES ASSUME i > Len(effects) - Len(results) PROVE FALSE
        BY <1>1, <2>1
      <4>. DEFINE p == i - (Len(effects) - Len(results))
      <4>2. p \in 1..Len(results) /\ Len(effects) - Len(results) + p = i
        BY <1>1, <1>8, <2>1, <4>1
      <4>. HIDE DEF p
      <4>3. effects[i].command = results[p].command
        BY <1>8, <4>2
      <4>. QED  BY <1>4, <3>1, <4>2, <4>3
    <3>3. Len(results) = limit
      BY <1>8, <3>1, <3>2
    <3>. QED  BY <1>1, <2>3, <3>2, <3>3
  <2>. QED  BY <1>1, <1>7, <2>2, <2>3
<1>. QED
  BY <1>9, <1>10, <1>11, <1>12, <1>13
     DEF RecentResultsCached, ReexecutedOnlyAfterEviction, limit

\* Within a mission a command is executed again only after the cache has
\* forgotten it, whatever the connections do.
THEOREM EvictionBeforeReexecution == Spec => []ReexecutedOnlyAfterEviction
<1>1. Init => CacheInv
  <2>1. Init => RecentResultsCached /\ ReexecutedOnlyAfterEviction
    BY MooseBridgeAssumption
       DEF Init, LuaInit, RecentResultsCached, ReexecutedOnlyAfterEviction
  <2>. QED  BY <2>1, TypeInit DEF CacheInv
<1>2. CacheInv /\ [Next]_vars => CacheInv'
  <2>. SUFFICES ASSUME CacheInv, [Next]_vars
                PROVE  RecentResultsCached' /\ ReexecutedOnlyAfterEviction'
    BY TypeStep DEF CacheInv
  <2>1. CASE UNCHANGED <<mission, results, effects>>
    BY <2>1 DEF CacheInv, RecentResultsCached, ReexecutedOnlyAfterEviction
  <2>2. CASE ExecuteCommand
    BY <2>2, CacheExecute
  <2>3. CASE RestartMission
    <3>1. mission' = mission + 1 /\ results' = <<>> /\ effects' = effects
      BY <2>3, Zenon DEF RestartMission
    <3>2. /\ mission \in Nat /\ effects \in Seq([mission : Nat, command : Commands])
          /\ CommandResultCacheLimit \in Nat
      BY MooseBridgeAssumption DEF CacheInv, TypeOK, LuaTypeOK
    <3>3. Len(results') = 0
      BY <3>1
    <3>4. \A i \in 1..Len(effects) : effects[i].mission <= mission
      BY DEF CacheInv, RecentResultsCached
    <3>5. \A i \in 1..Len(effects) :
            effects[i].mission # mission + 1 /\ effects[i].mission <= mission + 1
      <4>1. \A i \in 1..Len(effects) : effects[i] \in [mission : Nat, command : Commands]
        BY <3>2, ElementOfSeq
      <4>2. \A i \in 1..Len(effects) : effects[i].mission \in Nat
        BY <4>1
      <4>. QED  BY <3>2, <3>4, <4>2
    <3>6. RecentResultsCached'
      BY <3>1, <3>2, <3>3, <3>5 DEF RecentResultsCached
    <3>. QED  BY <3>1, <3>6 DEF CacheInv, ReexecutedOnlyAfterEviction
  <2>. QED
    BY <2>1, <2>2, <2>3
       DEF Next, LuaNext, Network, Break, Connect, Disconnect, ReplayResult,
           FlushMessage, FlushPart, SendHeartbeat, SendEvent, AdvanceClock,
           luaVars, vars
<1>3. CacheInv => ReexecutedOnlyAfterEviction
  BY DEF CacheInv
<1>. QED  BY <1>1, <1>2, <1>3, PTL DEF Spec

-----------------------------------------------------------------------------
(* The event ids the daemon remembers.                                      *)

\* The ids remembered are those of the events applied last; unless nothing was
\* forgotten yet there are more than SeenLimit - SeenEvicted of them.
RecentEventsSeen ==
  /\ Len(seen) <= Len(applied)
  /\ \A p \in 1..Len(seen) : seen[p] = applied[Len(applied) - Len(seen) + p]
  /\ Len(seen) = Len(applied) \/ Len(seen) > SeenLimit - SeenEvicted

SeenInv == TypeOK /\ RecentEventsSeen /\ ReappliedOnlyAfterEviction

LEMMA SeenApply ==
  ASSUME SeenInv, NEW m, EventId(m) \in EventIds, m.type = "event", ~Duplicate(m),
         seen' = Noted(m), applied' = Append(applied, EventId(m))
  PROVE  RecentEventsSeen' /\ ReappliedOnlyAfterEviction'
<1>. DEFINE id == EventId(m)
            all == Append(seen, id)
<1>1. /\ seen \in Seq(EventIds) /\ applied \in Seq(EventIds)
      /\ Len(seen) \in Nat /\ Len(applied) \in Nat
      /\ SeenLimit \in Nat /\ SeenEvicted \in Nat
      /\ 0 < SeenEvicted /\ SeenEvicted <= SeenLimit
      /\ Len(seen) <= SeenLimit /\ Len(seen) <= Len(applied)
      /\ \A p \in 1..Len(seen) : seen[p] = applied[Len(applied) - Len(seen) + p]
      /\ Len(seen) = Len(applied) \/ Len(seen) > SeenLimit - SeenEvicted
  BY BridgeServerAssumption DEF SeenInv, RecentEventsSeen, TypeOK, ServerTypeOK
<1>2. \A p \in 1..Len(seen) : seen[p] # id
  BY <1>1 DEF Duplicate
<1>. HIDE DEF id
<1>3. /\ Len(applied') = Len(applied) + 1
      /\ DOMAIN applied' = 1..(Len(applied) + 1)
      /\ applied'[Len(applied) + 1] = id
      /\ \A i \in 1..Len(applied) : applied'[i] = applied[i]
  BY <1>1 DEF id
<1>4. /\ all \in Seq(EventIds) /\ Len(all) = Len(seen) + 1
      /\ all[Len(seen) + 1] = id
      /\ \A p \in 1..Len(seen) : all[p] = seen[p]
  BY <1>1 DEF id
<1>. HIDE DEF all
<1>5. \A q \in 1..Len(all) : all[q] = applied'[Len(applied) - Len(seen) + q]
  <2>. TAKE q \in 1..Len(all)
  <2>1. CASE q \in 1..Len(seen)
    <3>1. Len(applied) - Len(seen) + q \in 1..Len(applied)
      BY <1>1, <2>1
    <3>2. applied'[Len(applied) - Len(seen) + q] = applied[Len(applied) - Len(seen) + q]
      BY <1>3, <3>1
    <3>. QED  BY <1>1, <1>4, <2>1, <3>2
  <2>2. CASE q = Len(seen) + 1
    <3>1. Len(applied) - Len(seen) + q = Len(applied) + 1
      BY <1>1, <2>2
    <3>2. all[q] = id
      BY <1>4, <2>2
    <3>3. applied'[Len(applied) - Len(seen) + q] = id
      BY <1>3, <3>1, Zenon
    <3>. QED  BY <3>2, <3>3
  <2>3. q \in 1..Len(seen) \/ q = Len(seen) + 1
    BY <1>1, <1>4
  <2>. QED  BY <2>1, <2>2, <2>3, Zenon
<1>6. RecentEventsSeen'
  <2>1. CASE Len(all) > SeenLimit
    <3>. DEFINE from == SeenEvicted + 1
    <3>1. seen' = SubSeq(all, from, Len(all))
      BY <2>1 DEF Noted, all, id
    <3>2. /\ from \in Int /\ Len(all) \in Int
          /\ \A i \in from..Len(all) : all[i] \in EventIds
      BY <1>1, <1>4
    <3>3. /\ Len(SubSeq(all, from, Len(all)))
               = IF from <= Len(all) THEN Len(all) - from + 1 ELSE 0
          /\ \A p \in 1..(Len(all) - from + 1) :
               SubSeq(all, from, Len(all))[p] = all[from + p - 1]
      BY <3>2, SubSeqProperties
    <3>4. Len(seen') = Len(seen) + 1 - SeenEvicted
      BY <1>1, <1>4, <2>1, <3>1, <3>3
    <3>5. Len(seen') <= Len(applied') /\ Len(seen') > SeenLimit - SeenEvicted
      BY <1>1, <1>3, <1>4, <2>1, <3>4
    <3>6. ASSUME NEW p \in 1..Len(seen')
          PROVE  seen'[p] = applied'[Len(applied') - Len(seen') + p]
      <4>. DEFINE q == from + p - 1
      <4>1. /\ q \in 1..Len(all) /\ p \in 1..(Len(all) - from + 1)
            /\ Len(applied) - Len(seen) + q = Len(applied') - Len(seen') + p
        BY <1>1, <1>3, <1>4, <2>1, <3>4
      <4>2. seen'[p] = all[q]
        BY <3>1, <3>3, <4>1
      <4>. HIDE DEF q
      <4>3. all[q] = applied'[Len(applied) - Len(seen) + q]
        BY <1>5, <4>1
      <4>. QED  BY <4>1, <4>2, <4>3, Zenon
    <3>. QED  BY <3>5, <3>6 DEF RecentEventsSeen
  <2>2. CASE ~(Len(all) > SeenLimit)
    <3>1. seen' = all
      BY <2>2 DEF Noted, all, id
    <3>2. Len(applied') - Len(seen') = Len(applied) - Len(seen)
      <4>1. Len(seen') = Len(seen) + 1
        BY <1>4, <3>1
      <4>. QED  BY <1>1, <1>3, <4>1
    <3>3. \A p \in 1..Len(seen') : seen'[p] = applied'[Len(applied') - Len(seen') + p]
      BY <1>5, <3>1, <3>2, Zenon
    <3>4. Len(seen') = Len(seen) + 1
      BY <1>4, <3>1
    <3>5. /\ Len(seen') <= Len(applied')
          /\ Len(seen') = Len(applied') \/ Len(seen') > SeenLimit - SeenEvicted
      BY <1>1, <1>3, <3>4
    <3>. QED  BY <3>3, <3>5 DEF RecentEventsSeen
  <2>. QED  BY <2>1, <2>2
<1>7. ASSUME NEW i \in DOMAIN applied', NEW j \in DOMAIN applied',
             i < j, applied'[i] = applied'[j]
      PROVE  j - i - 1 > SeenLimit - SeenEvicted
  <2>1. i \in 1..Len(applied) /\ applied'[i] = applied[i]
    BY <1>1, <1>3, <1>7
  <2>2. CASE j \in 1..Len(applied)
    <3>1. i \in DOMAIN applied /\ j \in DOMAIN applied
      BY <1>1, <2>1, <2>2
    <3>2. applied[i] = applied[j]
      BY <1>3, <1>7, <2>1, <2>2
    <3>. QED  BY <1>7, <3>1, <3>2 DEF SeenInv, ReappliedOnlyAfterEviction
  <2>3. CASE j = Len(applied) + 1
    <3>1. applied[i] = id
      BY <1>3, <1>7, <2>1, <2>3
    <3>2. i \in 1..(Len(applied) - Len(seen))
      <4>1. SUFFICES ASSUME i > Len(applied) - Len(seen) PROVE FALSE
        BY <1>1, <2>1
      <4>. DEFINE p == i - (Len(applied) - Len(seen))
      <4>2. p \in 1..Len(seen) /\ Len(applied) - Len(seen) + p = i
        BY <1>1, <2>1, <4>1
      <4>. HIDE DEF p
      <4>3. seen[p] = applied[i]
        BY <1>1, <4>2
      <4>. QED  BY <1>2, <3>1, <4>2, <4>3
    <3>. QED  BY <1>1, <2>3, <3>2
  <2>. QED  BY <1>1, <1>3, <2>2, <2>3
<1>. QED  BY <1>6, <1>7 DEF ReappliedOnlyAfterEviction

\* The daemon applies an event again only after it has forgotten its id, and it
\* remembers at least the last SeenLimit + 1 - SeenEvicted, whatever is replayed.
THEOREM EvictionBeforeReapplication == Spec => []ReappliedOnlyAfterEviction
<1>1. Init => SeenInv
  <2>1. Init => RecentEventsSeen /\ ReappliedOnlyAfterEviction
    BY DEF Init, ServerInit, RecentEventsSeen, ReappliedOnlyAfterEviction
  <2>. QED  BY <2>1, TypeInit DEF SeenInv
<1>2. SeenInv /\ [Next]_vars => SeenInv'
  <2>. SUFFICES ASSUME SeenInv, [Next]_vars
                PROVE  RecentEventsSeen' /\ ReappliedOnlyAfterEviction'
    BY TypeStep DEF SeenInv
  <2>1. CASE UNCHANGED <<seen, applied>>
    BY <2>1 DEF SeenInv, RecentEventsSeen, ReappliedOnlyAfterEviction
  <2>2. ASSUME NEW k \in Conns, HandleLine(k)
        PROVE  RecentEventsSeen' /\ ReappliedOnlyAfterEviction'
    <3>. DEFINE m == Head(toPy[k])
    <3>1. \/ UNCHANGED <<seen, applied>>
          \/ /\ m # Garbled /\ ~Duplicate(m) /\ m.type = "event"
             /\ seen' = Noted(m) /\ applied' = Append(applied, EventId(m))
      BY <2>2 DEF HandleLine, historyVars
    <3>2. m \in Lines
      BY <2>2 DEF SeenInv, TypeOK, WireTypeOK, HandleLine
    <3>. HIDE DEF m
    <3>3. m # Garbled /\ m.type = "event" => EventId(m) \in EventIds
      BY <3>2 DEF Lines, Messages, Acks, Snapshots, EventMessages, Heartbeats,
                  EventId, EventIds
    <3>. QED  BY <2>1, <3>1, <3>3, SeenApply
  <2>. QED
    BY <2>1, <2>2
       DEF Next, ServerNext, AcceptConnection, ResendCommand, CloseConnection,
           SendCommand, TimeOut, Network, serverVars, historyVars, vars
<1>3. SeenInv => ReappliedOnlyAfterEviction
  BY DEF SeenInv
<1>. QED  BY <1>1, <1>2, <1>3, PTL DEF Spec
=============================================================================
